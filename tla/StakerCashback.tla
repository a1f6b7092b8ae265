--------------------------- MODULE StakerCashback ----------------------------
(***************************************************************************)
(* The cashback rows of one buyer and everything that writes them at the   *)
(* same time: deliveries that ask the pool whether the buyer stakes and    *)
(* book a row (db/quotes.go transitionQuote, db/cashback.go), pages that   *)
(* ask the same (UserStakerStake), the loop that re-asks after a delivery  *)
(* to a non-staker (db/stake_recheck.go), and the payout worker.  Deliver- *)
(* ies, pages and the loop all run ReconcileStakerCashback, which lists    *)
(* the rows and raises each in a transaction of its own.                   *)
(*                                                                         *)
(* The pool may lag the chain in both directions, so it may answer "not    *)
(* staked" at any time and "staked" whenever the buyer has ever staked.    *)
(* An answer used late is a lagging answer used at once: asking and        *)
(* recording the observation are one step.  The worker is a coarse view of *)
(* module Payout: what it does to the status and the amount of a row.      *)
(***************************************************************************)
EXTENDS Integers, FiniteSets

CONSTANTS
  Orders,
  Kinds,        \* what an order may be
  Callers,      \* requests and hooks that deliver an order or show a rate
  Rechecker,    \* the re-ask loop
  Price,        \* ProductNIM of each order
  OperatorBases,\* base rates for everyone the operator may set
  StakerBase,   \* the admin panel's staker rate
  CodeRate,     \* the rate of the code
  PoolBases,    \* base rates a "staked" answer carries; 0 if the chain gave it
  ListCap,      \* rows a list returns (50)
  NoOrder, NoTx, NoHand

ASSUME CashbackAssumption ==
  /\ IsFiniteSet(Orders)
  /\ Kinds \subseteq [code : BOOLEAN, test : BOOLEAN, payable : BOOLEAN]
  /\ Rechecker \notin Callers /\ NoOrder \notin Orders
  /\ Price \in [Orders -> Nat \ {0}]
  /\ OperatorBases \subseteq Nat /\ StakerBase \in Nat /\ CodeRate \in Nat
  /\ PoolBases \subseteq Nat
  /\ ListCap \in Nat \ {0}
  /\ NoTx \notin Nat

Actors == Callers \cup {Rechecker}

\* A row books an order or tops up a booked one.  Each order has room for two
\* top-ups, one more than it may ever get.
Ids == Orders \X {"order", "topup", "second"}
OrderOf(i) == i[1]
OrderRow(o) == <<o, "order">>

ScanOrder == <<"sending", "broadcast", "queued", "paid", "skipped">>
Statuses == {ScanOrder[n] : n \in 1 .. 5} \cup {"absent"}
Live == {"queued", "sending", "broadcast", "paid"}

Cashback == [status : Statuses, amount : Nat, zeroRate : BOOLEAN,
             recipient : BOOLEAN, boosted : BOOLEAN, reconciled : BOOLEAN,
             test : BOOLEAN, signed : Nat \cup {NoTx}]
NoCashback == [status |-> "absent", amount |-> 0, zeroRate |-> FALSE,
               recipient |-> FALSE, boosted |-> FALSE, reconciled |-> FALSE,
               test |-> FALSE, signed |-> NoTx]

StakerStake == [staked : BOOLEAN, base : Nat]
NotStaked == [staked |-> FALSE, base |-> 0]
Listing == [id : Ids, row : Cashback]
Actor == [pc : {"idle", "list", "patch", "decide"},
          order : Orders \cup {NoOrder}, stake : StakerStake, desired : Nat,
          scan : 1 .. 5, found : Nat, rows : SUBSET Listing]
Idle == [pc |-> "idle", order |-> NoOrder, stake |-> NotStaked, desired |-> 0,
         scan |-> 1, found |-> 0, rows |-> {}]
Hand == [id : Ids, amount : Nat]
ASSUME HandAssumption == NoHand \notin Hand

VARIABLES
  kind,     \* what each order is: bought with a cashback code, a test-center
            \* order (TestMode), one whose recipient is known and valid
  operatorBase, \* the operator's base rate now
  staked,   \* the buyer has delegated to the pool at some time
  watch,    \* the stored watch holds a positive stake
  row,      \* the cashback rows
  recheck,  \* the re-ask of each order, with how it ended
  act,      \* the stacks of the actors, lost in a crash
  hand      \* the claimed row the worker holds, lost in a crash

vars == <<kind, operatorBase, staked, watch, row, recheck, act, hand>>

Init ==
  /\ kind \in [Orders -> Kinds] /\ operatorBase \in OperatorBases
  /\ staked = FALSE /\ watch = FALSE
  /\ row = [i \in Ids |-> NoCashback]
  /\ recheck = [o \in Orders |-> "none"]
  /\ act = [a \in Actors |-> Idle]
  /\ hand = NoHand

-----------------------------------------------------------------------------
(* Rates.                                                                  *)

AmountLuna(o, bps) == Price[o] * bps

\* The staker rate counts only while it is the higher one.
EffectiveBaseBps(stake) ==
  IF stake.staked /\ stake.base > operatorBase THEN stake.base ELSE operatorBase

-----------------------------------------------------------------------------
(* Asking the pool.                                                        *)

Answers == [kind : {"error", "none"}, base : {0}]
           \cup [kind : {"staked"}, base : PoolBases]

Replies(answer) == answer.kind = "staked" => staked

\* observeStake: its error is dropped, so the watch may stay as it was.
Observe(positive) == watch' \in {positive, watch}

\* Seeded fault: an outage counts as a stake.
ResolvedStakeTrusting(answer) ==
  CASE answer.kind = "staked" -> [staked |-> TRUE, base |-> answer.base]
    [] answer.kind = "error"  -> [staked |-> TRUE, base |-> StakerBase]
    [] OTHER -> NotStaked

\* resolveStakerStake: in an outage the last positive observation stands in.
ResolvedStake(answer) ==
  CASE answer.kind = "staked"         -> [staked |-> TRUE, base |-> answer.base]
    [] answer.kind = "error" /\ watch -> [staked |-> TRUE, base |-> StakerBase]
    [] OTHER                          -> NotStaked

\* A page is done; a delivery and the loop go on to their own job.
Done(order, stake) ==
  IF order = NoOrder THEN Idle
  ELSE [Idle EXCEPT !.pc = "decide", !.order = order, !.stake = stake]

\* ReconcileStakerCashback returns at once unless there is a rate to raise to.
Start(a, order, stake) ==
  act' = [act EXCEPT ![a] =
            IF stake.staked /\ stake.base > 0
            THEN [Idle EXCEPT !.pc = "list", !.order = order, !.stake = stake]
            ELSE Done(order, stake)]

\* transitionQuote (an order) and UserStakerStake (NoOrder) ask first.
Ask(a, order, answer) ==
  /\ act[a].pc = "idle"
  /\ Replies(answer)
  /\ IF answer.kind = "error" THEN UNCHANGED watch
     ELSE Observe(answer.kind = "staked")
  /\ Start(a, order, ResolvedStake(answer))
  /\ UNCHANGED <<kind, operatorBase, staked, row, recheck, hand>>

\* PublicPoolStake and the announce handler observe without reconciling.
Look(answer) ==
  /\ Replies(answer) /\ answer.kind # "error"
  /\ Observe(answer.kind = "staked")
  /\ UNCHANGED <<kind, operatorBase, staked, row, recheck, act, hand>>

\* RunStakeRechecks, one record: an outage extends the deadline by a tick, which
\* may or may not be enough; a "not staked" past the deadline drops the record.
Recheck(o, answer) ==
  /\ act[Rechecker].pc = "idle"
  /\ recheck[o] \in {"open", "late"}
  /\ Replies(answer)
  /\ \/ /\ answer.kind = "error"
        /\ \E r \in {"open", recheck[o]} : recheck' = [recheck EXCEPT ![o] = r]
        /\ UNCHANGED <<watch, act>>
     \/ /\ answer.kind = "none" /\ recheck[o] = "late"
        /\ recheck' = [recheck EXCEPT ![o] = "expired"]
        /\ UNCHANGED <<watch, act>>
     \/ /\ answer.kind = "staked"
        /\ Observe(TRUE)
        /\ Start(Rechecker, o, [staked |-> TRUE, base |-> answer.base])
        /\ UNCHANGED recheck
  /\ UNCHANGED <<kind, operatorBase, staked, row, hand>>

-----------------------------------------------------------------------------
(* ReconcileStakerCashback.                                                *)

\* Top-ups carry no ProductNIM; a code's rate is the only rate of its order.
MayRaise(i) ==
  i = OrderRow(OrderOf(i)) /\ ~row[i].reconciled /\ ~kind[OrderOf(i)].code

\* Work through the rows that are left.
Proceed(a, desired, rows) ==
  act' = [act EXCEPT ![a] =
            IF rows = {} THEN Done(@.order, @.stake)
            ELSE [Idle EXCEPT !.pc = "patch", !.order = act[a].order,
                              !.stake = act[a].stake, !.desired = desired,
                              !.rows = rows]]

Delta(s, desired) == AmountLuna(OrderOf(s.id), desired) - s.row.amount

ListsOn(scan, found) == found < ListCap /\ scan < 5

\* ListCashbacksByUser reads one status at a time, each in a view of its own,
\* until ListCap rows are found, and cuts the rest.  The rate to raise to is
\* read after the list; rows that pay it already are passed over.
ListStatus(a) ==
  LET me == act[a]
      part == {i \in Ids : row[i].status = ScanOrder[me.scan]}
      found == me.found + Cardinality(part)
      desired == EffectiveBaseBps(me.stake)
  IN /\ me.pc = "list"
     /\ \E kept \in SUBSET part :
          LET rows == me.rows \cup {[id |-> i, row |-> row[i]] :
                                     i \in {i \in kept : MayRaise(i)}}
          IN /\ Cardinality(kept) = IF found > ListCap THEN ListCap - me.found
                                    ELSE Cardinality(part)
             /\ IF ListsOn(me.scan, found)
                THEN act' = [act EXCEPT ![a].scan = @ + 1, ![a].found = found,
                                        ![a].rows = rows]
                ELSE Proceed(a, desired, {s \in rows : Delta(s, desired) > 0})
     /\ UNCHANGED <<kind, operatorBase, staked, watch, row, recheck, hand>>

\* Seeded fault: a revived row keeps the recipient it never had.
ReviveUnaddressed(s, desired) ==
  IF row[s.id].status = "skipped" /\ row[s.id].zeroRate
  THEN row' = [row EXCEPT ![s.id] =
                 [@ EXCEPT !.status = "queued", !.amount = Delta(s, desired),
                           !.zeroRate = FALSE, !.boosted = TRUE,
                           !.reconciled = TRUE]]
  ELSE UNCHANGED row

\* A zero-rate skip becomes a queued row, once there is someone to pay.
Revive(s, desired) ==
  IF /\ kind[OrderOf(s.id)].payable
     /\ row[s.id].status = "skipped" /\ row[s.id].zeroRate
     /\ ~row[s.id].reconciled /\ row[s.id].amount = 0
  THEN row' = [row EXCEPT ![s.id] =
                 [@ EXCEPT !.status = "queued", !.amount = Delta(s, desired),
                           !.zeroRate = FALSE, !.recipient = TRUE,
                           !.boosted = TRUE, !.reconciled = TRUE]]
  ELSE UNCHANGED row

\* Seeded fault: the row is not read again.
RaiseListed(s, desired) ==
  row' = [row EXCEPT ![s.id] =
            [@ EXCEPT !.amount = row[s.id].amount + Delta(s, desired),
                      !.boosted = TRUE, !.reconciled = TRUE]]

\* A queued row is raised if it still is queued, unsigned and not yet raised.
Raise(s, desired) ==
  IF /\ row[s.id].status = "queued" /\ row[s.id].signed = NoTx
     /\ ~row[s.id].reconciled
  THEN row' = [row EXCEPT ![s.id] =
                 [@ EXCEPT !.amount = row[s.id].amount + Delta(s, desired),
                           !.boosted = TRUE, !.reconciled = TRUE]]
  ELSE UNCHANGED row

\* The row of a top-up.  It does not carry the TestMode of its order.
TopUpRow(s, desired) ==
  [NoCashback EXCEPT !.status = "queued", !.amount = Delta(s, desired),
                     !.recipient = s.row.recipient, !.boosted = TRUE]

FreeTopUp(o) ==
  <<o, IF row[<<o, "topup">>].status = "absent" THEN "topup" ELSE "second">>

\* Seeded fault: nobody asks whether the order was topped up already.
TopUpAgain(s, desired) ==
  row' = [row EXCEPT ![FreeTopUp(OrderOf(s.id))] = TopUpRow(s, desired),
                     ![s.id].reconciled = TRUE]

\* A row on its way or paid stays as it is; what is missing is a row of its own.
TopUp(s, desired) ==
  IF ~row[s.id].reconciled
  THEN row' = [row EXCEPT ![FreeTopUp(OrderOf(s.id))] = TopUpRow(s, desired),
                          ![s.id].reconciled = TRUE]
  ELSE UNCHANGED row

\* One listed row: what to do follows from the listing, whether from the row.
PatchRow(a, s) ==
  LET me == act[a] IN
  /\ me.pc = "patch" /\ s \in me.rows
  /\ \/ s.row.status = "skipped" /\ s.row.zeroRate /\ Revive(s, me.desired)
     \/ /\ \/ s.row.status = "skipped" /\ ~s.row.zeroRate
           \/ s.row.status = "queued" /\ s.row.signed # NoTx
        /\ UNCHANGED row
     \/ s.row.status = "queued" /\ s.row.signed = NoTx /\ Raise(s, me.desired)
     \/ /\ s.row.status \in {"sending", "broadcast", "paid"}
        /\ TopUp(s, me.desired)
  /\ Proceed(a, me.desired, me.rows \ {s})
  /\ UNCHANGED <<kind, operatorBase, staked, watch, recheck, hand>>

\* A store error ends the pass.  Callers drop it; the loop keeps its record.
Abort(a) ==
  /\ act[a].pc \in {"list", "patch"}
  /\ act' = [act EXCEPT ![a] =
               IF a = Rechecker THEN Idle ELSE Done(@.order, @.stake)]
  /\ UNCHANGED <<kind, operatorBase, staked, watch, row, recheck, hand>>

-----------------------------------------------------------------------------
(* The delivery and the end of a re-ask.                                   *)

\* enqueueCashbackOnFulfill.  The staker rate booked is the admin panel's.
NewCashback(o, stake) ==
  LET base == EffectiveBaseBps([stake EXCEPT !.base = StakerBase])
      bps == IF kind[o].code THEN CodeRate ELSE base
      pays == bps > 0 /\ kind[o].payable
  IN [NoCashback EXCEPT
        !.status = IF pays THEN "queued" ELSE "skipped",
        !.amount = IF pays THEN AmountLuna(o, bps) ELSE 0,
        !.zeroRate = (bps = 0),
        !.recipient = pays,
        !.boosted = stake.staked /\ StakerBase > 0 /\ base = StakerBase,
        !.test = kind[o].test]

\* The fulfilled transition, refused if another delivery was first: the row and
\* the re-ask are written with it.
Deliver(a) ==
  LET o == act[a].order IN
  /\ a \in Callers /\ act[a].pc = "decide"
  /\ IF row[OrderRow(o)].status = "absent"
     THEN /\ row' = [row EXCEPT ![OrderRow(o)] = NewCashback(o, act[a].stake)]
          /\ recheck' = IF act[a].stake.staked THEN recheck
                        ELSE [recheck EXCEPT ![o] = "open"]
     ELSE UNCHANGED <<row, recheck>>
  /\ act' = [act EXCEPT ![a] = Idle]
  /\ UNCHANGED <<kind, operatorBase, staked, watch, hand>>

\* The pass ended without an error, so the record goes.
ClearStakeRecheck ==
  /\ act[Rechecker].pc = "decide"
  /\ recheck' = [recheck EXCEPT ![act[Rechecker].order] = "resolved"]
  /\ act' = [act EXCEPT ![Rechecker] = Idle]
  /\ UNCHANGED <<kind, operatorBase, staked, watch, row, hand>>

-----------------------------------------------------------------------------
(* The payout worker, as far as a row's status and amount go.              *)

WorkerStep(i, r, h) ==
  /\ row' = [row EXCEPT ![i] = r]
  /\ hand' = h
  /\ UNCHANGED <<kind, operatorBase, staked, watch, recheck, act>>

\* Queued rows, and claims abandoned before anything was signed.
Claim(i) ==
  /\ hand = NoHand
  /\ row[i].status \in {"queued", "sending"} /\ row[i].signed = NoTx
  /\ row[i].recipient /\ row[i].amount > 0
  /\ WorkerStep(i, [row[i] EXCEPT !.status = "sending"],
                [id |-> i, amount |-> row[i].amount])

\* Nothing was signed: the row goes back to the queue.  Signed bytes stay.
FailSend(i) ==
  /\ hand # NoHand /\ hand.id = i
  /\ WorkerStep(i, [row[i] EXCEPT !.status = IF row[i].signed = NoTx
                                             THEN "queued" ELSE @], NoHand)

\* The amount signed is that of the claim.
Sign(i) ==
  /\ hand # NoHand /\ hand.id = i /\ ~row[i].test
  /\ row[i].status \in {"sending", "queued"} /\ row[i].signed = NoTx
  /\ WorkerStep(i, [row[i] EXCEPT !.signed = hand.amount], hand)

\* The signed bytes go out, now or after a restart; a test row sends nothing.
Send(i) ==
  /\ row[i].status = "sending"
  /\ IF row[i].test THEN hand # NoHand /\ hand.id = i ELSE row[i].signed # NoTx
  /\ WorkerStep(i, [row[i] EXCEPT !.status = "broadcast"], NoHand)

MarkPaid(i) ==
  /\ hand = NoHand /\ row[i].status = "broadcast"
  /\ WorkerStep(i, [row[i] EXCEPT !.status = "paid"], hand)

\* A transaction proven expired frees the row for a new signature.
Retire(i) ==
  /\ hand = NoHand /\ row[i].status \in {"sending", "broadcast"}
  /\ row[i].signed # NoTx
  /\ WorkerStep(i, [row[i] EXCEPT !.status = "queued", !.signed = NoTx], hand)

-----------------------------------------------------------------------------
(* The environment.                                                        *)

SetOperatorBase(bps) ==
  /\ bps # operatorBase /\ operatorBase' = bps
  /\ UNCHANGED <<kind, staked, watch, row, recheck, act, hand>>

Stake ==
  /\ ~staked /\ staked' = TRUE
  /\ UNCHANGED <<kind, operatorBase, watch, row, recheck, act, hand>>

PassDeadline(o) ==
  /\ recheck[o] = "open"
  /\ recheck' = [recheck EXCEPT ![o] = "late"]
  /\ UNCHANGED <<kind, operatorBase, staked, watch, row, act, hand>>

Crash ==
  /\ act' = [a \in Actors |-> Idle] /\ hand' = NoHand
  /\ UNCHANGED <<kind, operatorBase, staked, watch, row, recheck>>

Next ==
  \/ \E a \in Callers, order \in Orders \cup {NoOrder}, answer \in Answers :
       Ask(a, order, answer)
  \/ \E answer \in Answers : Look(answer)
  \/ \E o \in Orders, answer \in Answers : Recheck(o, answer)
  \/ \E o \in Orders : PassDeadline(o)
  \/ \E a \in Actors : \/ ListStatus(a) \/ Abort(a)
                       \/ \E s \in act[a].rows : PatchRow(a, s)
  \/ \E a \in Callers : Deliver(a)
  \/ ClearStakeRecheck
  \/ \E i \in Ids : \/ Claim(i) \/ FailSend(i) \/ Sign(i) \/ Send(i)
                    \/ MarkPaid(i) \/ Retire(i)
  \/ \E bps \in OperatorBases : SetOperatorBase(bps)
  \/ Stake \/ Crash

Spec == Init /\ [][Next]_vars

-----------------------------------------------------------------------------
(* Properties.                                                             *)

TypeOK ==
  /\ kind \in [Orders -> Kinds] /\ operatorBase \in OperatorBases
  /\ staked \in BOOLEAN /\ watch \in BOOLEAN
  /\ row \in [Ids -> Cashback]
  /\ recheck \in [Orders -> {"none", "open", "late", "resolved", "expired"}]
  /\ act \in [Actors -> Actor]
  /\ hand \in Hand \cup {NoHand}

\* A row pays the staker rate only if the buyer has staked at some time: an
\* outage, a stored observation or a listing that is acted on late never turns
\* into a free boost (db/quotes.go resolveStakerStake).
NoFreeBoost == \A i \in Ids : row[i].boosted => staked

\* The amount on the signed bytes of a row is the amount the row records, even
\* when the row is raised while the worker holds it (worker.go sendOne signs
\* what it claimed, ReconcileStakerCashback leaves a claimed row alone).
WireMatchesRecord == \A i \in Ids : row[i].signed \in {NoTx, row[i].amount}

\* A row in the payout queue has someone to pay and something to pay, also when
\* it was revived from a skip (db/cashback.go, "CRITICAL: was missing").
QueuedIsPayable ==
  \A i \in Ids : row[i].status \in Live => row[i].recipient /\ row[i].amount > 0

\* What an order pays is fixed once and raised at most once, however many
\* deliveries, pages and passes of the loop reconcile the same rows at the same
\* time, and never for an order bought with a code.
Owed(o) == row[<<o, "order">>].amount + row[<<o, "topup">>].amount
           + row[<<o, "second">>].amount

Entitlement == INSTANCE CashbackEntitlement WITH
  coded <- {o \in Orders : kind[o].code},
  booked <- {o \in Orders : row[OrderRow(o)].status # "absent"},
  owed <- [o \in Orders |-> Owed(o)],
  raised <- {o \in Orders : row[OrderRow(o)].reconciled}
ImplementsEntitlement == Entitlement!Spec

\* Claimed by db/stake_recheck.go: "The moment the pool says "staked",
\* ReconcileStakerCashback upgrades the still-unpaid rows (and tops up
\* already-paid ones)."  The code ends the re-ask without it.
ResolvedIsRaised ==
  \A o \in Orders :
    recheck[o] = "resolved" =>
      Owed(o) >= AmountLuna(o, StakerBase) \/ kind[o].code \/ ~kind[o].payable

\* Claimed by db/records.go of a test row: "the worker pays it with a TESTTX-...
\* hash and never signs or broadcasts."  A top-up of one is signed.
TestStaysSimulated ==
  \A i \in Ids : kind[OrderOf(i)].test => row[i].signed = NoTx
=============================================================================
