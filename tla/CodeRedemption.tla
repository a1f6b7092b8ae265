--------------------------- MODULE CodeRedemption ----------------------------
(***************************************************************************)
(* One cashback code and the purchases that redeem it: the limits read at  *)
(* look-up (handlers/cashback_code_public.go), the slot reserved with the  *)
(* quote, committed at delivery and given back when the quote ends         *)
(* (db/cashback_codes.go, db/quotes.go transitionQuote), and the cashback  *)
(* row that the delivery writes (db/cashback.go).                          *)
(*                                                                         *)
(* Each action is one store transaction or one look-up.  The 32 shards of  *)
(* the counter are one counter here: a quote always uses its own shard and *)
(* every read sums them.  A limit of 0 is no limit.  Amounts are USD.      *)
(***************************************************************************)
EXTENDS SupplierOrder, Integers, FiniteSets, FiniteSetsExt

CONSTANTS
  Quotes, Users,
  TotalLimits, UserLimits, Budgets,  \* the policies an operator may set
  Estimates,                         \* what the gate reserves for an order
  Payouts,                           \* what the cashback engine computes
  Nobody, NoReservation, NoRow

ASSUME RedemptionAssumption ==
  /\ IsFiniteSet(Quotes)
  /\ TotalLimits \subseteq Nat /\ UserLimits \subseteq Nat /\ Budgets \subseteq Nat
  /\ Estimates \subseteq Nat /\ Payouts \subseteq Nat
  /\ Nobody \notin Users

CodeLimits == [total : TotalLimits, user : UserLimits, budget : Budgets]
CodeReservation == [amount : Nat, settled : BOOLEAN, committed : BOOLEAN]
ASSUME RedemptionMarkersAssumption ==
  NoReservation \notin CodeReservation /\ NoRow \notin Nat

VARIABLES
  policy,    \* the operator's rule in force
  ended,     \* the promotion's last moment has passed
  checkout,  \* each purchase request, with the limits it looked up
  status,    \* the quotes' statuses
  counter,   \* the code's redemption accounting
  use,       \* the same for each account
  res,       \* each quote's reservation
  row        \* the cashback each delivery enqueued

vars == <<policy, ended, checkout, status, counter, use, res, row>>

Init ==
  /\ policy \in CodeLimits
  /\ ended = FALSE
  /\ checkout = [q \in Quotes |->
                   [at |-> "new", user |-> Nobody, limits |-> policy]]
  /\ status = [q \in Quotes |-> "absent"]
  /\ counter = [committed |-> 0, reserved |-> 0, paid |-> 0, held |-> 0]
  /\ use = [u \in Users |-> [committed |-> 0, reserved |-> 0]]
  /\ res = [q \in Quotes |-> NoReservation]
  /\ row = [q \in Quotes |-> NoRow]

-----------------------------------------------------------------------------
(* What is used up.                                                        *)

\* Seeded fault: checkouts in flight are not counted.
InFlightCommitted(c) == c.committed

\* Slots in use, of the code or of one account.
InFlight(c) == c.committed + c.reserved

\* Seeded fault: the budget looks at settled orders only.
SpokenForPaid(c) == c.paid

\* The ceiling-relevant total: paid and reserved.
SpokenFor(c) == c.paid + c.held

\* resolveQuoteCashback: the code is looked up before the supplier's dry run.
LookUp(q, u) ==
  /\ checkout[q].at = "new"
  /\ ~ended
  /\ policy.total > 0 => InFlight(counter) < policy.total
  /\ policy.user > 0 => InFlight(use[u]) < policy.user
  /\ policy.budget > 0 => counter.paid < policy.budget
  /\ checkout' = [checkout EXCEPT ![q] =
                    [at |-> "looked", user |-> u, limits |-> policy]]
  /\ UNCHANGED <<policy, ended, status, counter, use, res, row>>

\* The gate's own question, in the transaction that writes the quote.
Admits(limits, u, estimate) ==
  /\ ~ended
  /\ limits.total > 0 => InFlight(counter) < limits.total
  /\ limits.budget > 0 => SpokenFor(counter) + estimate <= limits.budget
  /\ limits.user > 0 => InFlight(use[u]) < limits.user

\* ReserveCodeRedemption and the quote, or a refusal and no quote.  The account
\* is counted only under a policy that limits accounts.
ReserveCodeRedemption(q, estimate) ==
  LET limits == checkout[q].limits u == checkout[q].user IN
  /\ checkout[q].at = "looked"
  /\ \/ /\ Admits(limits, u, estimate)
        /\ checkout' = [checkout EXCEPT ![q].at = "made"]
        /\ status' = [status EXCEPT ![q] = "order_creating"]
        /\ counter' = [counter EXCEPT !.reserved = @ + 1, !.held = @ + estimate]
        /\ use' = IF limits.user > 0 THEN [use EXCEPT ![u].reserved = @ + 1]
                  ELSE use
        /\ res' = [res EXCEPT ![q] = [amount |-> estimate, settled |-> FALSE,
                                      committed |-> FALSE]]
     \/ /\ ~Admits(limits, u, estimate)
        /\ checkout' = [checkout EXCEPT ![q].at = "refused"]
        /\ UNCHANGED <<status, counter, use, res>>
  /\ UNCHANGED <<policy, ended, row>>

-----------------------------------------------------------------------------
(* A reservation follows its quote.                                        *)

AtLeastZero(n) == IF n > 0 THEN n ELSE 0
One(b) == IF b THEN 1 ELSE 0

\* The reservation becomes settled, its slot a redemption or free, and the
\* amount it held goes back.
Settles(q, commit, usd, back) ==
  LET u == checkout[q].user IN
  /\ counter' = [committed |-> counter.committed + One(commit),
                 reserved |-> AtLeastZero(counter.reserved - 1),
                 paid |-> counter.paid + One(commit) * usd,
                 held |-> AtLeastZero(counter.held - back)]
  /\ use' = [use EXCEPT ![u] = [committed |-> @.committed + One(commit),
                                reserved |-> AtLeastZero(@.reserved - 1)]]
  /\ res' = [res EXCEPT ![q] = [amount |-> 0, settled |-> TRUE,
                                committed |-> commit]]

\* Seeded fault: a second arrival settles again.
MoveCodeReservationUngated(q, commit, usd) ==
  Settles(q, commit, usd, res[q].amount)

\* Seeded fault: a second arrival settles again, below zero.
MoveCodeReservationUnclamped(q, commit, usd) ==
  /\ counter' = [counter EXCEPT !.reserved = @ - 1, !.held = @ - res[q].amount]
  /\ res' = [res EXCEPT ![q] = [amount |-> 0, settled |-> TRUE,
                                committed |-> commit]]
  /\ UNCHANGED use

\* Seeded fault: the amount held is not given back.
MoveCodeReservationKeeping(q, commit, usd) ==
  IF res[q].settled THEN UNCHANGED <<counter, use, res>>
  ELSE Settles(q, commit, usd, 0)

\* moveCodeReservation: idempotent by the settled marker.
MoveCodeReservation(q, commit, usd) ==
  IF res[q].settled THEN UNCHANGED <<counter, use, res>>
  ELSE Settles(q, commit, usd, res[q].amount)

\* cashbackUSDForQuote: what the quote's cashback row says.
CashbackUSDForQuote(q) == IF row[q] = NoRow THEN 0 ELSE row[q]

CanTransition(q, to) ==
  \/ to \in quoteTransitions(status[q])
  \/ to = status[q] /\ to \notin Settled \cup {"absent"}

\* Seeded fault: only an expiry gives the slot back.
EndsUnpaidExpired(to) == to = "expired"

EndsUnpaid(to) == to \in {"expired", "failed", "refunded"}

\* transitionQuote: the reservation is settled first, with the row as it is
\* then; a delivery writes its cashback row after that.
TransitionQuote(q, to) ==
  /\ CanTransition(q, to)
  /\ status' = [status EXCEPT ![q] = to]
  /\ \/ /\ to = "fulfilled"
        /\ MoveCodeReservation(q, TRUE, CashbackUSDForQuote(q))
        /\ IF row[q] = NoRow
           THEN \E usd \in Payouts : row' = [row EXCEPT ![q] = usd]
           ELSE UNCHANGED row
     \/ EndsUnpaid(to) /\ MoveCodeReservation(q, FALSE, 0) /\ UNCHANGED row
     \/ /\ to # "fulfilled" /\ ~EndsUnpaid(to)
        /\ UNCHANGED <<counter, use, res, row>>
  /\ UNCHANGED <<policy, ended, checkout>>

\* The operator edits the rule; the promotion comes to its end.
ChangePolicy ==
  /\ policy' \in CodeLimits
  /\ UNCHANGED <<ended, checkout, status, counter, use, res, row>>

End == /\ ~ended /\ ended' = TRUE
       /\ UNCHANGED <<policy, checkout, status, counter, use, res, row>>

Next ==
  \/ \E q \in Quotes :
       \/ \E u \in Users : LookUp(q, u)
       \/ \E estimate \in Estimates : ReserveCodeRedemption(q, estimate)
       \/ \E to \in QuoteStatuses : TransitionQuote(q, to)
  \/ ChangePolicy \/ End

Spec == Init /\ [][Next]_vars

-----------------------------------------------------------------------------
(* Properties.                                                             *)

Open == {q \in Quotes : res[q] # NoReservation /\ ~res[q].settled}
Redeemed == {q \in Quotes : res[q] # NoReservation /\ res[q].committed}
Slots == Open \cup Redeemed
SlotsOf(u) == {q \in Slots : checkout[q].user = u}
Sum(f(_), S) == MapThenSumSet(f, S)

\* Counters, reservations, requests and rows have the shape the code gives them.
TypeOK ==
  /\ policy \in CodeLimits
  /\ ended \in BOOLEAN
  /\ checkout \in [Quotes -> [at : {"new", "looked", "made", "refused"},
                              user : Users \cup {Nobody}, limits : CodeLimits]]
  /\ status \in [Quotes -> QuoteStatuses \cup {"absent"}]
  /\ counter \in [committed : Nat, reserved : Nat, paid : Nat, held : Nat]
  /\ use \in [Users -> [committed : Nat, reserved : Nat]]
  /\ res \in [Quotes -> CodeReservation \cup {NoReservation}]
  /\ row \in [Quotes -> Nat \cup {NoRow}]

\* The counters count the reservations, whatever order webhook, tracker and
\* sweep end the quotes in and however often (codeReservation, "makes commit
\* and release idempotent").
SlotsAreCounted ==
  /\ counter.reserved = Cardinality(Open)
  /\ counter.committed = Cardinality(Redeemed)

\* What is held back is what the open reservations hold: no clamp ever hides a
\* mismatch (moveCodeReservation).
HeldIsReserved == counter.held = Sum(LAMBDA q : res[q].amount, Open)

\* However checkouts interleave with deliveries and with edits of the rule, the
\* slots in use stay within a limit that one of them was admitted under
\* ("a burst cannot overshoot").
UsesWithinLimit ==
  Slots # {} => \E q \in Slots : LET limit == checkout[q].limits.total IN
                  limit = 0 \/ Cardinality(Slots) <= limit

\* The same for one account, while every rule in force limits accounts.
PerUserWithinLimit ==
  \A u \in Users :
    SlotsOf(u) # {} => \E q \in SlotsOf(u) :
                         Cardinality(SlotsOf(u)) <= checkout[q].limits.user

\* What open checkouts may cost together is within a budget that one of them
\* was admitted under (ReservedUSD, "a real ceiling").
OpenWithinBudget ==
  Open # {} => \E q \in Open : LET budget == checkout[q].limits.budget IN
                 budget = 0 \/ Sum(LAMBDA p : res[p].amount, Open) <= budget

\* An ended quote holds no slot, and only a delivered one has used it up
\* ("the accounting and the order can never disagree").
SlotsFollowQuotes ==
  \A q \in Quotes :
    /\ q \in Open => status[q] \notin Settled \cup {"expired", "failed"}
    /\ q \in Redeemed => status[q] \in Settled

-----------------------------------------------------------------------------
(* What the repository's comments say of this code, and the code does not.  *)

\* "MaxTotalCashbackUSD is the ceiling on everything this code may pay out"
\* (admin/models.go): the cashback of the redeemed orders stays within a budget
\* that one of them was admitted under.
BudgetIsACeiling ==
  Redeemed # {} => \E q \in Redeemed : LET budget == checkout[q].limits.budget IN
                     budget = 0 \/ Sum(LAMBDA p : row[p], Redeemed) <= budget

=============================================================================
