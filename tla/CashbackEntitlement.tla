------------------------- MODULE CashbackEntitlement -------------------------
(***************************************************************************)
(* What the shop owes a buyer for each order, whatever rows, lookups and   *)
(* transactions it takes: an amount fixed once at delivery, never lowered, *)
(* and raised at most once when the buyer turns out to be a staker.  An    *)
(* order bought with a code keeps the rate of its code.                    *)
(***************************************************************************)
EXTENDS Integers

CONSTANT Orders

VARIABLES
  coded,   \* orders bought with a cashback code
  booked,  \* delivered orders, whose cashback is fixed
  owed,    \* what each order pays, in Luna
  raised   \* orders upgraded to the staker rate

vars == <<coded, booked, owed, raised>>

Init == coded \in SUBSET Orders /\ booked = {} /\ owed = [o \in Orders |-> 0] /\ raised = {}

\* Only order o changes, to a natural number of Luna.
Owes(o) == owed'[o] \in Nat /\ owed' = [owed EXCEPT ![o] = owed'[o]]

Book(o) ==
  /\ o \notin booked
  /\ booked' = booked \cup {o} /\ Owes(o)
  /\ UNCHANGED <<coded, raised>>

Raise(o) ==
  /\ o \in booked \ (raised \cup coded)
  /\ raised' = raised \cup {o} /\ Owes(o) /\ owed'[o] > owed[o]
  /\ UNCHANGED <<coded, booked>>

Next == \E o \in Orders : Book(o) \/ Raise(o)

Spec == Init /\ [][Next]_vars
=============================================================================
