--------------------------- MODULE PayoutObligation ---------------------------
(***************************************************************************)
(* What the payout machinery promises, without workers, RPCs or blocks:    *)
(* every obligation is credited on the chain at most once, and the shop    *)
(* books it as paid only after that.  cashback/worker/worker.go states it  *)
(* as "Durability / exactly-once".                                         *)
(***************************************************************************)
EXTENDS Naturals

CONSTANT Rows  \* obligations that are paid with real money

VARIABLES
  credits,  \* how many final credits the chain holds for each obligation
  booked    \* obligations the shop has closed as paid

Init == credits = [r \in Rows |-> 0] /\ booked = {}

\* One finalized block may credit several obligations, each for the first time.
Credit(S) ==
  /\ S # {}
  /\ \A r \in S : credits[r] = 0
  /\ credits' = [r \in Rows |-> IF r \in S THEN 1 ELSE credits[r]]
  /\ UNCHANGED booked

Book(r) ==
  /\ credits[r] = 1 /\ r \notin booked
  /\ booked' = booked \cup {r}
  /\ UNCHANGED credits

Next == \/ \E S \in SUBSET Rows : Credit(S)
        \/ \E r \in Rows : Book(r)

Spec == Init /\ [][Next]_<<credits, booked>>
=============================================================================
