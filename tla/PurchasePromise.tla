--------------------------- MODULE PurchasePromise ---------------------------
(***************************************************************************)
(* What the shop promises about one purchase, whoever writes its record:   *)
(* an order is sent at most once, and delivery or refund is booked once,   *)
(* in that order, and never before the supplier has done it.               *)
(***************************************************************************)
EXTENDS Naturals

CONSTANT Quotes
VARIABLES
  orders,   \* order creations sent, per purchase
  done,     \* what the supplier has done: open, delivered, refunded
  booked    \* what the shop has on record

vars == <<orders, done, booked>>

Outcomes == {"open", "delivered", "refunded"}

Init == /\ orders = [q \in Quotes |-> 0]
        /\ done = [q \in Quotes |-> "open"]
        /\ booked = [q \in Quotes |-> "open"]

Order(q) == /\ orders[q] = 0
            /\ orders' = [orders EXCEPT ![q] = 1]
            /\ UNCHANGED <<done, booked>>

Supply(q) ==
  /\ orders[q] = 1
  /\ \/ done[q] = "open" /\ done' = [done EXCEPT ![q] = "delivered"]
     \/ done[q] # "refunded" /\ done' = [done EXCEPT ![q] = "refunded"]
  /\ UNCHANGED <<orders, booked>>

Book(q) ==
  /\ \/ /\ done[q] # "open" /\ booked[q] = "open"
        /\ booked' = [booked EXCEPT ![q] = "delivered"]
     \/ /\ done[q] = "refunded" /\ booked[q] # "refunded"
        /\ booked' = [booked EXCEPT ![q] = "refunded"]
  /\ UNCHANGED <<orders, done>>

Next == \E q \in Quotes : Order(q) \/ Supply(q) \/ Book(q)

Spec == Init /\ [][Next]_vars

=============================================================================
