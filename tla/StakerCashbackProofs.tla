------------------------- MODULE StakerCashbackProofs -------------------------
(***************************************************************************)
(* Proofs about the cashback rows of a buyer: for any number of orders,    *)
(* deliveries and pages, rates and prices, no row pays a staker rate to    *)
(* someone who never staked, what is signed is what is recorded, and what  *)
(* an order pays is fixed once and raised at most once.                    *)
(***************************************************************************)
EXTENDS StakerCashback, FiniteSetTheorems, TLAPS

-----------------------------------------------------------------------------
(* The inductive invariant.                                                *)

\* Whoever acts on a stake was told of one; whoever ends on a job has one.
Honest ==
  /\ watch => staked
  /\ \A a \in Actors :
       /\ act[a].stake.staked => staked
       /\ act[a].pc \in {"list", "patch"} => act[a].stake.staked
       /\ act[a].pc = "decide" => act[a].order \in Orders
       /\ a = Rechecker /\ act[a].pc # "idle" => act[a].order \in Orders

\* An order has at most one top-up, and only once it is marked as reconciled.
OneTopUp ==
  \A o \in Orders :
    /\ row[<<o, "second">>] = NoCashback
    /\ row[OrderRow(o)].reconciled \/ row[<<o, "topup">>] = NoCashback

AbsentIsEmpty == \A i \in Ids : row[i].status = "absent" => row[i] = NoCashback

\* The worker holds a row it claimed, at the amount it claimed.
HandIsClaim ==
  hand # NoHand =>
    row[hand.id].status = "sending" /\ row[hand.id].amount = hand.amount

\* A listed row may have moved, but until somebody reconciles it its amount is
\* the one in the listing.
Listed(s) ==
  /\ s.id \in {OrderRow(o) : o \in Orders}
  /\ ~kind[OrderOf(s.id)].code
  /\ row[s.id].status # "absent"
  /\ s.row.status \in Live => s.row.recipient
  /\ row[s.id].reconciled \/ row[s.id].amount = s.row.amount

ListingsHold ==
  \A a \in Actors : \A s \in act[a].rows :
    /\ Listed(s)
    /\ act[a].pc = "patch" => Delta(s, act[a].desired) > 0

SignedIsOut ==
  \A i \in Ids : row[i].signed # NoTx => row[i].status \in {"sending", "broadcast", "paid"}

RowInv == /\ NoFreeBoost /\ WireMatchesRecord /\ QueuedIsPayable
          /\ OneTopUp /\ AbsentIsEmpty /\ HandIsClaim /\ SignedIsOut
IInv == TypeOK /\ Honest /\ RowInv /\ ListingsHold

-----------------------------------------------------------------------------
(* Rates, rows and actors.                                                 *)

LEMMA AmountType ==
  ASSUME NEW o \in Orders, NEW bps \in Nat
  PROVE  AmountLuna(o, bps) \in Nat /\ (bps > 0 => AmountLuna(o, bps) > 0)
<1>1. Price[o] \in Nat /\ Price[o] > 0
  BY CashbackAssumption
<1>2. \A p, n \in Nat : p * n \in Nat /\ (p > 0 /\ n > 0 => p * n > 0)
  OBVIOUS
<1> QED BY <1>1, <1>2 DEF AmountLuna

LEMMA RateType ==
  ASSUME TypeOK, NEW stake \in StakerStake
  PROVE  EffectiveBaseBps(stake) \in Nat
<1>1. operatorBase \in Nat
  BY CashbackAssumption DEF TypeOK
<1> QED BY <1>1 DEF EffectiveBaseBps, StakerStake

LEMMA IdFacts ==
  /\ \A o \in Orders : /\ OrderRow(o) \in Ids /\ OrderOf(OrderRow(o)) = o
                       /\ <<o, "topup">> \in Ids /\ <<o, "second">> \in Ids
                       /\ FreeTopUp(o) \in Ids /\ FreeTopUp(o) # OrderRow(o)
  /\ \A i \in Ids : OrderOf(i) \in Orders
<1>1. \A o \in Orders : /\ OrderRow(o) \in Ids /\ OrderOf(OrderRow(o)) = o
                        /\ <<o, "topup">> \in Ids /\ <<o, "second">> \in Ids
  BY DEF Ids, OrderRow, OrderOf
<1>2. \A o \in Orders : FreeTopUp(o) \in {<<o, "topup">>, <<o, "second">>}
  BY DEF FreeTopUp
<1>3. \A o \in Orders : <<o, "topup">> # OrderRow(o) /\ <<o, "second">> # OrderRow(o)
  BY DEF OrderRow
<1>4. \A i \in Ids : OrderOf(i) \in Orders
  BY DEF Ids, OrderOf
<1> QED BY <1>1, <1>2, <1>3, <1>4

LEMMA IdsFinite == IsFiniteSet(Ids)
<1>1. IsFiniteSet(Orders) /\ IsFiniteSet({"order", "topup", "second"})
  <2>1. {"order", "topup", "second"} = ({"order"} \cup {"topup"}) \cup {"second"}
    OBVIOUS
  <2>2. IsFiniteSet({"order"}) /\ IsFiniteSet({"topup"}) /\ IsFiniteSet({"second"})
    BY FS_Singleton
  <2>3. IsFiniteSet({"order"} \cup {"topup"})
    BY <2>2, FS_Union
  <2>4. IsFiniteSet(({"order"} \cup {"topup"}) \cup {"second"})
    BY <2>2, <2>3, FS_Union
  <2>5. IsFiniteSet(Orders)
    BY CashbackAssumption
  <2> QED BY <2>1, <2>4, <2>5
<1> QED BY <1>1, FS_Product DEF Ids

LEMMA EmptyRow ==
  /\ NoCashback \in Cashback /\ NoCashback.status = "absent"
  /\ NoCashback.amount = 0 /\ NoCashback.signed = NoTx
  /\ ~NoCashback.boosted /\ ~NoCashback.reconciled
BY DEF NoCashback, Cashback, Statuses

LEMMA StatusFacts == \A n \in 1 .. 5 : ScanOrder[n] \in Statuses
BY DEF Statuses

LEMMA QueuedStatus ==
  {"queued", "skipped", "sending", "broadcast", "paid", "absent"} \subseteq Statuses
<1>1. /\ ScanOrder[1] = "sending" /\ ScanOrder[2] = "broadcast"
      /\ ScanOrder[3] = "queued" /\ ScanOrder[4] = "paid" /\ ScanOrder[5] = "skipped"
  BY DEF ScanOrder
<1>2. "absent" \in Statuses
  BY DEF Statuses
<1>3. 1 \in 1 .. 5 /\ 2 \in 1 .. 5 /\ 3 \in 1 .. 5 /\ 4 \in 1 .. 5 /\ 5 \in 1 .. 5
  OBVIOUS
<1> QED BY <1>1, <1>2, <1>3, StatusFacts

LEMMA DeltaType ==
  ASSUME NEW s \in Listing, NEW desired \in Nat
  PROVE  Delta(s, desired) \in Int
<1>1. OrderOf(s.id) \in Orders /\ s.row.amount \in Nat
  BY IdFacts DEF Listing, Cashback
<1>2. AmountLuna(OrderOf(s.id), desired) \in Nat
  BY <1>1, AmountType
<1> QED BY <1>1, <1>2 DEF Delta

LEMMA IdleType == Idle \in Actor /\ Idle.pc = "idle" /\ Idle.rows = {}
                  /\ Idle.stake = NotStaked /\ ~NotStaked.staked
BY DEF Idle, Actor, NotStaked, StakerStake

LEMMA DoneType ==
  ASSUME NEW order \in Orders \cup {NoOrder}, NEW stake \in StakerStake
  PROVE  /\ Done(order, stake) \in Actor
         /\ Done(order, stake).rows = {}
         /\ Done(order, stake).pc \in {"idle", "decide"}
         /\ Done(order, stake).pc = "decide" => order \in Orders
         /\ Done(order, stake).pc # "idle" => Done(order, stake).order = order
         /\ Done(order, stake).stake \in {NotStaked, stake}
<1>1. CASE order = NoOrder
  BY <1>1, IdleType DEF Done, Idle
<1>2. CASE order # NoOrder
  <2> DEFINE m == [Idle EXCEPT !.pc = "decide", !.order = order, !.stake = stake]
  <2>1. Done(order, stake) = m /\ order \in Orders
    BY <1>2 DEF Done
  <2>2. m.pc = "decide" /\ m.order = order /\ m.stake = stake /\ m.rows = {}
    BY DEF Idle
  <2>3. m \in Actor
    BY <2>1, IdleType DEF Actor
  <2> QED BY <2>1, <2>2, <2>3
<1> QED BY <1>1, <1>2

\* No row disappears, and a row that may still be raised pays what it paid.
Stays ==
  \A i \in Ids : row[i].status # "absent" =>
    /\ row'[i].status # "absent"
    /\ row[i].reconciled => row'[i].reconciled
    /\ row'[i].reconciled \/ row'[i].amount = row[i].amount

\* One actor moves to a well-formed stack; the rows it may write stay valid.
LEMMA ActorMoves ==
  ASSUME IInv, NEW a \in Actors, NEW m \in Actor,
         act' = [act EXCEPT ![a] = m],
         kind' = kind, hand' \in Hand \cup {NoHand},
         row' \in [Ids -> Cashback], RowInv', Stays,
         operatorBase' \in OperatorBases, staked' \in BOOLEAN, watch' \in BOOLEAN,
         recheck' \in [Orders -> {"none", "open", "late", "resolved", "expired"}],
         staked => staked', watch' => staked',
         m.stake.staked => staked',
         m.pc \in {"list", "patch"} => m.stake.staked,
         m.pc = "decide" => m.order \in Orders,
         a = Rechecker /\ m.pc # "idle" => m.order \in Orders,
         \A s \in m.rows : Listed(s) /\ (m.pc = "patch" => Delta(s, m.desired) > 0)
  PROVE  IInv'
<1> USE DEF IInv
<1>1. act' \in [Actors -> Actor] /\ act'[a] = m
      /\ \A b \in Actors : b # a => act'[b] = act[b]
  BY DEF TypeOK
<1>2. TypeOK'
  BY <1>1 DEF TypeOK
<1>3. Honest'
  BY <1>1 DEF Honest
<1>4. \A s : Listed(s) => Listed(s)'
  <2> SUFFICES ASSUME NEW s, Listed(s) PROVE Listed(s)'
    OBVIOUS
  <2>1. s.id \in Ids
    BY IdFacts DEF Listed
  <2> QED BY <2>1 DEF Listed, Stays, OrderOf, OrderRow
<1>5. \A s, d : Delta(s, d)' = Delta(s, d)
  BY DEF Delta, AmountLuna, OrderOf
<1>6. ListingsHold'
  BY <1>1, <1>4, <1>5 DEF ListingsHold
<1> QED BY <1>2, <1>3, <1>6

\* Rows nobody writes stay valid.
LEMMA RowsRest ==
  ASSUME IInv, UNCHANGED <<kind, row, hand>>, staked => staked'
  PROVE  /\ RowInv' /\ Stays /\ row' \in [Ids -> Cashback]
         /\ hand' \in Hand \cup {NoHand} /\ kind' = kind
<1> USE DEF IInv
<1>1. RowInv'
  BY DEF RowInv, NoFreeBoost, WireMatchesRecord, QueuedIsPayable, OneTopUp,
         AbsentIsEmpty, HandIsClaim, SignedIsOut, OrderRow
<1> QED BY <1>1 DEF TypeOK, Stays

LEMMA StartKeeps ==
  ASSUME IInv, NEW a \in Actors, NEW order \in Orders \cup {NoOrder},
         NEW stake \in StakerStake, Start(a, order, stake),
         UNCHANGED <<kind, operatorBase, staked, row, hand>>,
         stake.staked => staked, watch' \in BOOLEAN, watch' => staked,
         a = Rechecker => order \in Orders,
         recheck' \in [Orders -> {"none", "open", "late", "resolved", "expired"}]
  PROVE  IInv'
<1> DEFINE m == IF stake.staked /\ stake.base > 0
                THEN [Idle EXCEPT !.pc = "list", !.order = order, !.stake = stake]
                ELSE Done(order, stake)
<1>1. /\ m \in Actor /\ m.rows = {} /\ (m.stake.staked => stake.staked)
      /\ m.pc # "patch" /\ (m.pc = "list" => m.stake.staked)
      /\ (m.pc = "decide" => m.order \in Orders)
      /\ (m.pc # "idle" => m.order = order)
  <2>1. CASE stake.staked /\ stake.base > 0
    <3>1. m = [Idle EXCEPT !.pc = "list", !.order = order, !.stake = stake]
      BY <2>1
    <3>2. m.pc = "list" /\ m.order = order /\ m.stake = stake /\ m.rows = {}
      BY <3>1 DEF Idle
    <3>3. m \in Actor
      BY <3>1, IdleType DEF Actor
    <3> QED BY <2>1, <3>2, <3>3
  <2>2. CASE ~(stake.staked /\ stake.base > 0)
    BY <2>2, DoneType, IdleType
  <2> QED BY <2>1, <2>2
<1>2. act' = [act EXCEPT ![a] = m]
  BY DEF Start
<1>3. operatorBase' \in OperatorBases /\ staked' \in BOOLEAN
  BY DEF IInv, TypeOK
<1> HIDE DEF m
<1> QED BY <1>1, <1>2, <1>3, RowsRest, ActorMoves

LEMMA AnswerStake ==
  ASSUME IInv, NEW answer \in Answers, Replies(answer)
  PROVE  /\ ResolvedStake(answer) \in StakerStake
         /\ ResolvedStake(answer).staked => staked
         /\ [staked |-> TRUE, base |-> answer.base] \in StakerStake
         /\ Observe(answer.kind = "staked") => watch' \in BOOLEAN /\ (watch' => staked)
<1>1. answer.base \in Nat
  <2>1. CASE answer \in [kind : {"error", "none"}, base : {0}]
    BY <2>1
  <2>2. CASE answer \in [kind : {"staked"}, base : PoolBases]
    BY <2>2, CashbackAssumption
  <2> QED BY <2>1, <2>2 DEF Answers
<1>2. StakerBase \in Nat /\ watch \in BOOLEAN /\ (watch => staked)
  BY CashbackAssumption DEF IInv, TypeOK, Honest
<1>3. [staked |-> TRUE, base |-> answer.base] \in StakerStake
  BY <1>1 DEF StakerStake
<1>4. ResolvedStake(answer) \in StakerStake
  <2>1. /\ NotStaked \in StakerStake
        /\ [staked |-> TRUE, base |-> StakerBase] \in StakerStake
    BY <1>2 DEF StakerStake, NotStaked
  <2> QED BY <1>3, <2>1 DEF ResolvedStake
<1>5. ResolvedStake(answer).staked => staked
  BY <1>2, IdleType DEF ResolvedStake, Replies
<1>6. Observe(answer.kind = "staked") => watch' \in BOOLEAN /\ (watch' => staked)
  BY <1>2 DEF Observe, Replies
<1> QED BY <1>3, <1>4, <1>5, <1>6

-----------------------------------------------------------------------------
(* Asking.                                                                 *)

LEMMA AskKeeps ==
  ASSUME IInv, NEW a \in Callers, NEW order \in Orders \cup {NoOrder},
         NEW answer \in Answers, Ask(a, order, answer)
  PROVE  IInv'
<1>1. a \in Actors /\ a # Rechecker
  BY CashbackAssumption DEF Actors
<1>2. Replies(answer) /\ Start(a, order, ResolvedStake(answer))
      /\ UNCHANGED <<kind, operatorBase, staked, row, recheck, hand>>
  BY DEF Ask
<1>3. watch' \in BOOLEAN /\ (watch' => staked)
  BY <1>2, AnswerStake DEF Ask, IInv, TypeOK, Honest
<1>4. recheck' \in [Orders -> {"none", "open", "late", "resolved", "expired"}]
  BY <1>2 DEF IInv, TypeOK
<1> QED BY <1>1, <1>2, <1>3, <1>4, AnswerStake, StartKeeps

\* Whatever leaves the rows, the stacks and the worker alone.
LEMMA QuietKeeps ==
  ASSUME IInv, UNCHANGED <<kind, row, act, hand>>,
         operatorBase' \in OperatorBases, staked' \in BOOLEAN, watch' \in BOOLEAN,
         recheck' \in [Orders -> {"none", "open", "late", "resolved", "expired"}],
         staked => staked', watch' => staked'
  PROVE  IInv'
<1> USE DEF IInv
<1>1. TypeOK' /\ Honest'
  BY DEF TypeOK, Honest
<1>2. RowInv'
  BY DEF RowInv, NoFreeBoost, WireMatchesRecord, QueuedIsPayable, OneTopUp,
         AbsentIsEmpty, HandIsClaim, SignedIsOut, OrderRow
<1>3. ListingsHold'
  BY DEF ListingsHold, Listed, Delta, AmountLuna, OrderOf, OrderRow
<1> QED BY <1>1, <1>2, <1>3

LEMMA LookKeeps ==
  ASSUME IInv, NEW answer \in Answers, Look(answer)
  PROVE  IInv'
<1>1. watch' \in BOOLEAN /\ (watch' => staked)
  BY AnswerStake DEF Look
<1> QED BY <1>1, QuietKeeps DEF Look, IInv, TypeOK

LEMMA RecheckKeeps ==
  ASSUME IInv, NEW o \in Orders, NEW answer \in Answers, Recheck(o, answer)
  PROVE  IInv'
<1> DEFINE Ends == {"none", "open", "late", "resolved", "expired"}
<1>1. recheck \in [Orders -> Ends] /\ Replies(answer)
      /\ operatorBase \in OperatorBases /\ staked \in BOOLEAN /\ watch \in BOOLEAN
      /\ (watch => staked)
      /\ UNCHANGED <<kind, operatorBase, staked, row, hand>>
  BY DEF Recheck, IInv, TypeOK, Honest
<1>2. CASE /\ UNCHANGED <<watch, act>>
           /\ \/ \E r \in {"open", recheck[o]} : recheck' = [recheck EXCEPT ![o] = r]
              \/ recheck' = [recheck EXCEPT ![o] = "expired"]
  <2>1. recheck' \in [Orders -> Ends]
    BY <1>1, <1>2
  <2> QED BY <1>1, <1>2, <2>1, QuietKeeps
<1>3. CASE /\ answer.kind = "staked" /\ Observe(TRUE) /\ UNCHANGED recheck
           /\ Start(Rechecker, o, [staked |-> TRUE, base |-> answer.base])
  <2>1. staked /\ watch' \in BOOLEAN
    BY <1>1, <1>3 DEF Replies, Observe
  <2>2. Rechecker \in Actors /\ [staked |-> TRUE, base |-> answer.base] \in StakerStake
    BY <1>1, AnswerStake DEF Actors
  <2> QED BY <1>1, <1>3, <2>1, <2>2, StartKeeps
<1> QED BY <1>2, <1>3 DEF Recheck

-----------------------------------------------------------------------------
(* Listing.                                                                *)

\* A row read now is as it reads.
LEMMA ReadNow ==
  ASSUME IInv, NEW i \in Ids, MayRaise(i), row[i].status # "absent"
  PROVE  [id |-> i, row |-> row[i]] \in Listing /\ Listed([id |-> i, row |-> row[i]])
<1>1. row[i] \in Cashback /\ OrderOf(i) \in Orders /\ i = OrderRow(OrderOf(i))
  BY IdFacts DEF IInv, TypeOK, MayRaise
<1>2. [id |-> i, row |-> row[i]] \in Listing
  BY <1>1 DEF Listing
<1>3. row[i].status \in Live => row[i].recipient
  BY DEF IInv, RowInv, QueuedIsPayable
<1> QED BY <1>1, <1>2, <1>3 DEF Listed, MayRaise

LEMMA ProceedKeeps ==
  ASSUME IInv, NEW a \in Actors, NEW desired \in Nat, NEW rows \in SUBSET Listing,
         act[a].pc \in {"list", "patch"}, Proceed(a, desired, rows),
         \A s \in rows : Listed(s) /\ Delta(s, desired) > 0,
         row' \in [Ids -> Cashback], RowInv', Stays,
         UNCHANGED <<kind, operatorBase, staked, watch, recheck, hand>>
  PROVE  IInv'
<1> DEFINE m == IF rows = {} THEN Done(act[a].order, act[a].stake)
                ELSE [Idle EXCEPT !.pc = "patch", !.order = act[a].order,
                                  !.stake = act[a].stake, !.desired = desired,
                                  !.rows = rows]
<1>1. /\ act[a].order \in Orders \cup {NoOrder} /\ act[a].stake \in StakerStake
      /\ act[a].stake.staked /\ staked
      /\ (a = Rechecker => act[a].order \in Orders)
  BY DEF IInv, TypeOK, Honest, Actor
<1>2. /\ m \in Actor /\ (m.stake.staked => act[a].stake.staked)
      /\ (m.pc \in {"list", "patch"} => m.stake.staked)
      /\ (m.pc = "decide" => m.order \in Orders)
      /\ (m.pc # "idle" => m.order = act[a].order)
      /\ \A s \in m.rows : Listed(s) /\ (m.pc = "patch" => Delta(s, m.desired) > 0)
  <2>1. CASE rows = {}
    BY <1>1, <2>1, DoneType, IdleType
  <2>2. CASE rows # {}
    <3>1. m = [Idle EXCEPT !.pc = "patch", !.order = act[a].order,
                           !.stake = act[a].stake, !.desired = desired,
                           !.rows = rows]
      BY <2>2
    <3>2. /\ m.pc = "patch" /\ m.order = act[a].order /\ m.stake = act[a].stake
          /\ m.desired = desired /\ m.rows = rows
      BY <3>1 DEF Idle
    <3>3. m \in Actor
      BY <1>1, <3>1, IdleType DEF Actor
    <3> QED BY <1>1, <3>2, <3>3
  <2> QED BY <2>1, <2>2
<1>3. act' = [act EXCEPT ![a] = m]
  BY DEF Proceed
<1>4. /\ operatorBase' \in OperatorBases /\ staked' \in BOOLEAN /\ watch' \in BOOLEAN
      /\ recheck' \in [Orders -> {"none", "open", "late", "resolved", "expired"}]
      /\ (watch' => staked') /\ hand' \in Hand \cup {NoHand}
  BY DEF IInv, TypeOK, Honest
<1> HIDE DEF m
<1> QED BY <1>1, <1>2, <1>3, <1>4, ActorMoves

LEMMA ListKeeps ==
  ASSUME IInv, NEW a \in Actors, ListStatus(a)
  PROVE  IInv'
<1> DEFINE part == {i \in Ids : row[i].status = ScanOrder[act[a].scan]}
           found == act[a].found + Cardinality(part)
           desired == EffectiveBaseBps(act[a].stake)
           Rows(kept) == act[a].rows \cup {[id |-> i, row |-> row[i]] :
                                           i \in {i \in kept : MayRaise(i)}}
<1>1. /\ act[a] \in Actor /\ act[a].pc = "list" /\ act[a].stake.staked /\ staked
      /\ (a = Rechecker => act[a].order \in Orders)
      /\ UNCHANGED <<kind, operatorBase, staked, watch, row, recheck, hand>>
  BY DEF ListStatus, IInv, TypeOK, Honest
<1>2. desired \in Nat
  BY <1>1, RateType DEF Actor, IInv
<1>3. PICK kept \in SUBSET part :
        IF ListsOn(act[a].scan, found)
        THEN act' = [act EXCEPT ![a].scan = @ + 1, ![a].found = found,
                                ![a].rows = Rows(kept)]
        ELSE Proceed(a, desired, {s \in Rows(kept) : Delta(s, desired) > 0})
  BY DEF ListStatus
<1>4. \A i \in part : i \in Ids /\ row[i].status # "absent"
  BY <1>1 DEF Actor, ScanOrder
<1>5. Rows(kept) \in SUBSET Listing /\ \A s \in Rows(kept) : Listed(s)
  <2>1. act[a].rows \in SUBSET Listing /\ \A s \in act[a].rows : Listed(s)
    BY <1>1 DEF Actor, IInv, ListingsHold
  <2>2. \A i \in kept : MayRaise(i) => /\ [id |-> i, row |-> row[i]] \in Listing
                                       /\ Listed([id |-> i, row |-> row[i]])
    BY <1>4, ReadNow
  <2> QED BY <2>1, <2>2
<1> HIDE DEF part, found, desired, Rows
<1>6. CASE ListsOn(act[a].scan, found)
  <2> DEFINE m == [act[a] EXCEPT !.scan = @ + 1, !.found = found,
                                 !.rows = Rows(kept)]
  <2>1. act' = [act EXCEPT ![a] = m]
    BY <1>3, <1>6 DEF IInv, TypeOK
  <2>2. m.pc = "list" /\ m.stake = act[a].stake /\ m.order = act[a].order
        /\ m.rows = Rows(kept)
    BY <1>1 DEF Actor
  <2>3. m \in Actor
    <3>1. act[a].scan \in 1 .. 5 /\ act[a].scan < 5
      BY <1>1, <1>6 DEF Actor, ListsOn
    <3>2. act[a].scan + 1 \in 1 .. 5
      BY <3>1
    <3>3. found \in Nat
      <4>1. act[a].found \in Nat
        BY <1>1 DEF Actor
      <4>2. part \subseteq Ids
        BY DEF part
      <4>3. IsFiniteSet(Ids)
        BY IdsFinite
      <4>4. Cardinality(part) \in Nat
        BY <4>2, <4>3, FS_Subset, FS_CardinalityType
      <4> QED BY <4>1, <4>4 DEF found
    <3> QED BY <1>1, <1>5, <3>2, <3>3 DEF Actor
  <2>4. /\ operatorBase' \in OperatorBases /\ staked' \in BOOLEAN /\ watch' \in BOOLEAN
        /\ recheck' \in [Orders -> {"none", "open", "late", "resolved", "expired"}]
        /\ (watch' => staked') /\ (staked => staked')
    BY <1>1 DEF IInv, TypeOK, Honest
  <2> HIDE DEF m
  <2> QED BY <1>1, <1>5, <2>1, <2>2, <2>3, <2>4, RowsRest, ActorMoves
<1>7. CASE ~ListsOn(act[a].scan, found)
  <2>1. Proceed(a, desired, {s \in Rows(kept) : Delta(s, desired) > 0})
    BY <1>3, <1>7
  <2> QED BY <1>1, <1>2, <1>5, <2>1, RowsRest, ProceedKeeps
<1> QED BY <1>6, <1>7

LEMMA AbortKeeps ==
  ASSUME IInv, NEW a \in Actors, Abort(a)
  PROVE  IInv'
<1> DEFINE m == IF a = Rechecker THEN Idle ELSE Done(act[a].order, act[a].stake)
<1>1. /\ act[a].order \in Orders \cup {NoOrder} /\ act[a].stake \in StakerStake
      /\ (act[a].stake.staked => staked)
      /\ act' = [act EXCEPT ![a] = m]
      /\ UNCHANGED <<kind, operatorBase, staked, watch, row, recheck, hand>>
  BY DEF Abort, IInv, TypeOK, Honest, Actor
<1>2. /\ m \in Actor /\ m.rows = {} /\ m.pc \in {"idle", "decide"}
      /\ (m.pc = "decide" => m.order \in Orders)
      /\ (a = Rechecker => m.pc = "idle")
      /\ (m.stake.staked => staked)
  <2>1. CASE a = Rechecker
    BY <2>1, IdleType
  <2>2. CASE a # Rechecker
    BY <1>1, <2>2, DoneType, IdleType
  <2> QED BY <2>1, <2>2
<1>3. /\ operatorBase' \in OperatorBases /\ staked' \in BOOLEAN /\ watch' \in BOOLEAN
      /\ recheck' \in [Orders -> {"none", "open", "late", "resolved", "expired"}]
      /\ (watch' => staked')
  BY <1>1 DEF IInv, TypeOK, Honest
<1> HIDE DEF m
<1> QED BY <1>1, <1>2, <1>3, RowsRest, ActorMoves

-----------------------------------------------------------------------------
(* Raising.                                                                *)

\* One row that exists is written anew.
LEMMA Rewritten ==
  ASSUME IInv, NEW i \in Ids, NEW r \in Cashback,
         row' = [row EXCEPT ![i] = r], kind' = kind, staked' = staked,
         row[i].status # "absent", r.status # "absent",
         r.boosted => staked,
         r.signed \in {NoTx, r.amount},
         r.signed # NoTx => r.status \in {"sending", "broadcast", "paid"},
         r.status \in Live => r.recipient /\ r.amount > 0,
         row[i].reconciled => r.reconciled,
         r.reconciled \/ r.amount = row[i].amount,
         \/ hand' = NoHand
         \/ hand' = hand /\ hand.id # i
         \/ /\ hand' \in Hand /\ hand'.id = i
            /\ r.status = "sending" /\ r.amount = hand'.amount
  PROVE  row' \in [Ids -> Cashback] /\ RowInv' /\ Stays
<1> USE DEF IInv, RowInv
<1>1. /\ row' \in [Ids -> Cashback] /\ row'[i] = r
      /\ \A j \in Ids : j # i => row'[j] = row[j]
  BY DEF TypeOK
<1>2. NoFreeBoost' /\ WireMatchesRecord' /\ QueuedIsPayable' /\ SignedIsOut'
  BY <1>1 DEF NoFreeBoost, WireMatchesRecord, QueuedIsPayable, SignedIsOut
<1>3. AbsentIsEmpty'
  BY <1>1 DEF AbsentIsEmpty
<1>4. OneTopUp'
  <2> SUFFICES ASSUME NEW o \in Orders
               PROVE  /\ row'[<<o, "second">>] = NoCashback
                      /\ row'[OrderRow(o)].reconciled
                         \/ row'[<<o, "topup">>] = NoCashback
    BY DEF OneTopUp, OrderRow
  <2>1. row[<<o, "second">>] = NoCashback /\ i # <<o, "second">>
    BY EmptyRow DEF OneTopUp
  <2>2. row[OrderRow(o)].reconciled => row'[OrderRow(o)].reconciled
    BY <1>1, IdFacts
  <2>3. row[<<o, "topup">>] = NoCashback => row'[<<o, "topup">>] = NoCashback
    BY <1>1, IdFacts, EmptyRow
  <2> QED BY <1>1, <2>1, <2>2, <2>3, IdFacts DEF OneTopUp
<1>5. HandIsClaim'
  <2>1. CASE hand' = hand /\ hand # NoHand /\ hand.id # i
    <3>1. hand.id \in Ids
      BY <2>1 DEF TypeOK, Hand
    <3> QED BY <1>1, <2>1, <3>1 DEF HandIsClaim
  <2>2. CASE hand' = NoHand
    BY <2>2 DEF HandIsClaim
  <2>3. CASE /\ hand' \in Hand /\ hand'.id = i
             /\ r.status = "sending" /\ r.amount = hand'.amount
    BY <1>1, <2>3 DEF HandIsClaim
  <2> QED BY <2>1, <2>2, <2>3
<1>6. Stays
  <2> SUFFICES ASSUME NEW j \in Ids, row[j].status # "absent"
               PROVE  /\ row'[j].status # "absent"
                      /\ row[j].reconciled => row'[j].reconciled
                      /\ row'[j].reconciled \/ row'[j].amount = row[j].amount
    BY DEF Stays
  <2>1. CASE j = i
    BY <1>1, <2>1
  <2>2. CASE j # i
    BY <1>1, <2>2
  <2> QED BY <2>1, <2>2
<1> QED BY <1>1, <1>2, <1>3, <1>4, <1>5, <1>6

LEMMA ReviveKeeps ==
  ASSUME IInv, staked, NEW s \in Listing, NEW desired \in Nat,
         Listed(s), Delta(s, desired) > 0, Revive(s, desired),
         UNCHANGED <<kind, staked, hand>>
  PROVE  row' \in [Ids -> Cashback] /\ RowInv' /\ Stays
<1> DEFINE r == [row[s.id] EXCEPT !.status = "queued", !.amount = Delta(s, desired),
                                  !.zeroRate = FALSE, !.recipient = TRUE,
                                  !.boosted = TRUE, !.reconciled = TRUE]
<1>1. CASE UNCHANGED row
  BY <1>1, RowsRest
<1>2. CASE row' = [row EXCEPT ![s.id] = r] /\ row[s.id].status = "skipped"
  <2>1. s.id \in Ids /\ row[s.id] \in Cashback
    BY DEF IInv, TypeOK, Listing
  <2>2. Delta(s, desired) \in Nat
    BY DeltaType
  <2>3. row[s.id].signed = NoTx /\ (hand = NoHand \/ hand.id # s.id)
    BY <1>2, <2>1 DEF IInv, RowInv, SignedIsOut, HandIsClaim
  <2>4. /\ r.status = "queued" /\ r.amount = Delta(s, desired) /\ r.recipient
        /\ r.reconciled /\ r.signed = NoTx
    BY <2>1, <2>3 DEF Cashback
  <2>5. r \in Cashback
    BY <2>1, <2>2, QueuedStatus DEF Cashback
  <2> HIDE DEF r
  <2> QED BY <1>2, <2>1, <2>3, <2>4, <2>5, Rewritten
<1> QED BY <1>1, <1>2 DEF Revive

LEMMA RaiseKeeps ==
  ASSUME IInv, staked, NEW s \in Listing, NEW desired \in Nat,
         Listed(s), Delta(s, desired) > 0, Raise(s, desired),
         UNCHANGED <<kind, staked, hand>>
  PROVE  row' \in [Ids -> Cashback] /\ RowInv' /\ Stays
<1> DEFINE r == [row[s.id] EXCEPT !.amount = row[s.id].amount + Delta(s, desired),
                                  !.boosted = TRUE, !.reconciled = TRUE]
<1>1. CASE UNCHANGED row
  BY <1>1, RowsRest
<1>2. CASE /\ row' = [row EXCEPT ![s.id] = r]
           /\ row[s.id].status = "queued" /\ row[s.id].signed = NoTx
  <2>1. s.id \in Ids /\ row[s.id] \in Cashback
    BY DEF IInv, TypeOK, Listing
  <2>2. row[s.id].amount \in Nat /\ row[s.id].amount + Delta(s, desired) \in Nat
        /\ row[s.id].amount + Delta(s, desired) > 0
    BY <2>1, DeltaType DEF Cashback
  <2>3. row[s.id].recipient /\ (hand = NoHand \/ hand.id # s.id)
    BY <1>2, <2>1 DEF IInv, RowInv, QueuedIsPayable, HandIsClaim, Live
  <2>4. /\ r.status = "queued" /\ r.amount = row[s.id].amount + Delta(s, desired)
        /\ r.recipient = row[s.id].recipient /\ r.reconciled /\ r.signed = NoTx
        /\ r.amount > 0
    BY <1>2, <2>1, <2>2 DEF Cashback
  <2>5. r \in Cashback
    BY <2>1, <2>2 DEF Cashback
  <2> HIDE DEF r
  <2>6. row[s.id].status # "absent" /\ r.status # "absent" /\ r.signed = NoTx
        /\ r.reconciled /\ r.recipient /\ r.amount > 0
    BY <1>2, <2>3, <2>4
  <2>7. row' = [row EXCEPT ![s.id] = r] /\ kind' = kind /\ staked' = staked
        /\ hand' = hand
    BY <1>2
  <2>8. /\ r.boosted => staked
        /\ r.signed \in {NoTx, r.amount}
        /\ r.signed # NoTx => r.status \in {"sending", "broadcast", "paid"}
        /\ r.status \in Live => r.recipient /\ r.amount > 0
        /\ row[s.id].reconciled => r.reconciled
        /\ r.reconciled \/ r.amount = row[s.id].amount
    BY <2>6
  <2>9. hand' = NoHand \/ (hand' = hand /\ hand.id # s.id)
    BY <2>3, <2>7
  <2> QED BY <2>1, <2>5, <2>6, <2>7, <2>8, <2>9, Rewritten
<1> QED BY <1>1, <1>2 DEF Raise

LEMMA TopUpKeeps ==
  ASSUME IInv, staked, NEW s \in Listing, NEW desired \in Nat,
         Listed(s), Delta(s, desired) > 0, TopUp(s, desired),
         s.row.status \in Live,
         UNCHANGED <<kind, staked, hand>>
  PROVE  row' \in [Ids -> Cashback] /\ RowInv' /\ Stays
<1> USE DEF IInv, RowInv
<1>1. CASE UNCHANGED row
  BY <1>1, RowsRest
<1>2. CASE /\ ~row[s.id].reconciled
           /\ row' = [row EXCEPT ![FreeTopUp(OrderOf(s.id))] = TopUpRow(s, desired),
                                 ![s.id].reconciled = TRUE]
  <2>1. PICK o \in Orders : s.id = OrderRow(o)
    BY DEF Listed
  <2> DEFINE f == <<o, "topup">>
             t == TopUpRow(s, desired)
             r == [row[s.id] EXCEPT !.reconciled = TRUE]
  <2>2. /\ OrderOf(s.id) = o /\ s.id \in Ids /\ f \in Ids /\ f # s.id
        /\ row[f] = NoCashback /\ FreeTopUp(o) = f
    BY <1>2, <2>1, IdFacts, EmptyRow DEF OneTopUp, FreeTopUp, OrderRow
  <2>3. row[s.id] \in Cashback /\ s.row \in Cashback
    BY <2>2 DEF TypeOK, Listing
  <2>4. /\ t \in Cashback /\ t.status = "queued" /\ t.amount > 0 /\ t.recipient
        /\ t.signed = NoTx
    <3>1. Delta(s, desired) \in Nat
      BY DeltaType
    <3>2. s.row.recipient = TRUE
      BY <2>3 DEF Listed, Cashback
    <3>3. /\ t.status = "queued" /\ t.amount = Delta(s, desired)
          /\ t.recipient = s.row.recipient /\ t.signed = NoTx
      BY DEF TopUpRow, NoCashback
    <3>4. t \in Cashback
      <4> DEFINE u == [NoCashback EXCEPT !.status = "queued", !.amount = Delta(s, desired)]
                 v == [u EXCEPT !.recipient = TRUE]
      <4>1. u \in Cashback
        BY <3>1, EmptyRow, QueuedStatus DEF Cashback
      <4>2. v \in Cashback
        BY <4>1 DEF Cashback
      <4>3. t = [v EXCEPT !.boosted = TRUE]
        BY <3>2 DEF TopUpRow
      <4> QED BY <4>2, <4>3 DEF Cashback
    <3> QED BY <3>2, <3>3, <3>4
  <2>5. /\ r \in Cashback /\ r.reconciled /\ r.status = row[s.id].status
        /\ r.amount = row[s.id].amount /\ r.recipient = row[s.id].recipient
        /\ r.signed = row[s.id].signed /\ r.boosted = row[s.id].boosted
    BY <2>3 DEF Cashback
  <2> HIDE DEF t, r
  <2>6. /\ row' \in [Ids -> Cashback] /\ row'[f] = t /\ row'[s.id] = r
        /\ \A j \in Ids : j # f /\ j # s.id => row'[j] = row[j]
    BY <1>2, <2>2, <2>4, <2>5 DEF TypeOK, t, r
  <2>7. row[s.id].status # "absent" /\ row[f].status = "absent"
    BY <2>2, EmptyRow DEF Listed
  <2>8. NoFreeBoost' /\ WireMatchesRecord' /\ QueuedIsPayable' /\ SignedIsOut'
    BY <2>2, <2>4, <2>5, <2>6 DEF NoFreeBoost, WireMatchesRecord, QueuedIsPayable,
       SignedIsOut
  <2>9. AbsentIsEmpty'
    BY <2>4, <2>5, <2>6, <2>7 DEF AbsentIsEmpty
  <2>10. OneTopUp'
    <3> SUFFICES ASSUME NEW p \in Orders
                 PROVE  /\ row'[<<p, "second">>] = NoCashback
                        /\ row'[OrderRow(p)].reconciled
                           \/ row'[<<p, "topup">>] = NoCashback
      BY DEF OneTopUp, OrderRow
    <3>1. <<p, "second">> # f /\ <<p, "second">> # s.id /\ OrderRow(p) # f
      BY <2>1 DEF OrderRow
    <3>2. CASE p = o
      BY <2>1, <2>5, <2>6, <3>1, <3>2, IdFacts DEF OneTopUp
    <3>3. CASE p # o
      <4>1. <<p, "topup">> # f /\ <<p, "topup">> # s.id /\ OrderRow(p) # s.id
        BY <2>1, <3>3 DEF OrderRow
      <4> QED BY <2>6, <3>1, <4>1, IdFacts DEF OneTopUp
    <3> QED BY <3>2, <3>3
  <2>11. HandIsClaim'
    <3> SUFFICES ASSUME hand # NoHand
                 PROVE  row'[hand.id].status = "sending" /\ row'[hand.id].amount = hand.amount
      BY DEF HandIsClaim
    <3>1. hand.id \in Ids /\ hand.id # f
      BY <2>7 DEF HandIsClaim, TypeOK, Hand
    <3> QED BY <2>5, <2>6, <3>1 DEF HandIsClaim
  <2>12. Stays
    BY <2>5, <2>6, <2>7 DEF Stays
  <2> QED BY <2>6, <2>8, <2>9, <2>10, <2>11, <2>12
<1> QED BY <1>1, <1>2 DEF TopUp

LEMMA PatchKeeps ==
  ASSUME IInv, NEW a \in Actors, NEW s \in act[a].rows, PatchRow(a, s)
  PROVE  IInv'
<1>1. /\ act[a] \in Actor /\ act[a].pc = "patch" /\ staked
      /\ UNCHANGED <<kind, operatorBase, staked, watch, recheck, hand>>
      /\ Proceed(a, act[a].desired, act[a].rows \ {s})
  BY DEF PatchRow, IInv, TypeOK, Honest
<1>2. act[a].desired \in Nat /\ act[a].rows \in SUBSET Listing
  BY <1>1 DEF Actor
<1>3. \A t \in act[a].rows : Listed(t) /\ Delta(t, act[a].desired) > 0
  BY <1>1 DEF IInv, ListingsHold
<1>4. row' \in [Ids -> Cashback] /\ RowInv' /\ Stays
  <2>1. CASE Revive(s, act[a].desired)
    BY <1>1, <1>2, <1>3, <2>1, ReviveKeeps
  <2>2. CASE Raise(s, act[a].desired)
    BY <1>1, <1>2, <1>3, <2>2, RaiseKeeps
  <2>3. CASE /\ s.row.status \in {"sending", "broadcast", "paid"}
             /\ TopUp(s, act[a].desired)
    <3>1. s.row.status \in Live
      BY <2>3 DEF Live
    <3> QED BY <1>1, <1>2, <1>3, <2>3, <3>1, TopUpKeeps
  <2>4. CASE UNCHANGED row
    BY <1>1, <2>4, RowsRest
  <2> QED BY <2>1, <2>2, <2>3, <2>4 DEF PatchRow
<1> QED BY <1>1, <1>2, <1>3, <1>4, ProceedKeeps

-----------------------------------------------------------------------------
(* Delivering, and the end of a re-ask.                                    *)

LEMMA NewCashbackType ==
  ASSUME TypeOK, NEW o \in Orders, NEW stake \in StakerStake
  PROVE  /\ NewCashback(o, stake) \in Cashback
         /\ NewCashback(o, stake).status \in {"queued", "skipped"}
         /\ NewCashback(o, stake).status = "queued" =>
              NewCashback(o, stake).recipient /\ NewCashback(o, stake).amount > 0
         /\ NewCashback(o, stake).boosted => stake.staked
         /\ NewCashback(o, stake).signed = NoTx
         /\ ~NewCashback(o, stake).reconciled
<1> DEFINE base == EffectiveBaseBps([stake EXCEPT !.base = StakerBase])
           bps == IF kind[o].code THEN CodeRate ELSE base
           pays == bps > 0 /\ kind[o].payable
           amount == IF pays THEN AmountLuna(o, bps) ELSE 0
           boosted == stake.staked /\ StakerBase > 0 /\ base = StakerBase
<1>1. bps \in Nat
  <2>1. [stake EXCEPT !.base = StakerBase] \in StakerStake
    BY CashbackAssumption DEF StakerStake
  <2>2. base \in Nat
    BY <2>1, RateType
  <2> HIDE DEF base
  <2> QED BY <2>2, CashbackAssumption
<1>2. kind[o] \in [code : BOOLEAN, test : BOOLEAN, payable : BOOLEAN]
  BY CashbackAssumption DEF TypeOK
<1> HIDE DEF bps, base
<1>3. pays \in BOOLEAN /\ amount \in Nat /\ (pays => amount > 0) /\ boosted \in BOOLEAN
  <2>1. CASE pays
    BY <1>1, <2>1, AmountType, IdleType DEF StakerStake
  <2>2. CASE ~pays
    BY <1>1, <1>2, <2>2 DEF StakerStake
  <2> QED BY <2>1, <2>2
<1> HIDE DEF pays, amount, boosted
<1> DEFINE r == [NoCashback EXCEPT
                   !.status = IF pays THEN "queued" ELSE "skipped",
                   !.amount = amount, !.zeroRate = (bps = 0),
                   !.recipient = pays, !.boosted = boosted,
                   !.test = kind[o].test]
<1>4. NewCashback(o, stake) = r
  BY DEF NewCashback, bps, base, pays, amount, boosted
<1>5. /\ r.status = IF pays THEN "queued" ELSE "skipped"
      /\ r.amount = amount /\ r.recipient = pays /\ r.boosted = boosted
      /\ r.signed = NoTx /\ r.reconciled = FALSE
  BY DEF NoCashback
<1>6. r \in Cashback
  BY <1>2, <1>3, EmptyRow, QueuedStatus DEF NoCashback, Cashback
<1>7. boosted => stake.staked
  BY DEF boosted
<1> HIDE DEF r
<1> QED BY <1>3, <1>4, <1>5, <1>6, <1>7

\* The first row of an order is written.
LEMMA Booked ==
  ASSUME IInv, NEW o \in Orders, NEW r \in Cashback,
         row' = [row EXCEPT ![OrderRow(o)] = r],
         UNCHANGED <<kind, staked, hand>>,
         row[OrderRow(o)].status = "absent",
         r.status \in {"queued", "skipped"}, r.boosted => staked,
         r.signed = NoTx, r.status = "queued" => r.recipient /\ r.amount > 0
  PROVE  row' \in [Ids -> Cashback] /\ RowInv' /\ Stays
<1> USE DEF IInv, RowInv
<1> DEFINE i == OrderRow(o)
<1>1. /\ i \in Ids
      /\ row' \in [Ids -> Cashback] /\ row'[i] = r
      /\ \A j \in Ids : j # i => row'[j] = row[j]
  BY IdFacts DEF TypeOK
<1>2. NoFreeBoost' /\ WireMatchesRecord' /\ QueuedIsPayable' /\ SignedIsOut'
  BY <1>1 DEF NoFreeBoost, WireMatchesRecord, QueuedIsPayable, SignedIsOut, Live
<1>3. AbsentIsEmpty'
  BY <1>1 DEF AbsentIsEmpty
<1>4. OneTopUp'
  <2> SUFFICES ASSUME NEW p \in Orders
               PROVE  /\ row'[<<p, "second">>] = NoCashback
                      /\ row'[OrderRow(p)].reconciled
                         \/ row'[<<p, "topup">>] = NoCashback
    BY DEF OneTopUp, OrderRow
  <2>1. <<p, "second">> # i /\ <<p, "topup">> # i
        /\ <<p, "second">> \in Ids /\ <<p, "topup">> \in Ids /\ OrderRow(p) \in Ids
    BY IdFacts DEF OrderRow
  <2>2. row[i] = NoCashback
    BY <1>1 DEF AbsentIsEmpty
  <2>3. row[<<p, "topup">>] = NoCashback \/ OrderRow(p) # i
    BY <2>2, EmptyRow DEF OneTopUp
  <2> QED BY <1>1, <2>1, <2>3 DEF OneTopUp
<1>5. HandIsClaim'
  <2> SUFFICES ASSUME hand # NoHand
               PROVE  row'[hand.id].status = "sending" /\ row'[hand.id].amount = hand.amount
    BY DEF HandIsClaim
  <2>1. hand.id \in Ids /\ hand.id # i
    BY DEF HandIsClaim, TypeOK, Hand
  <2> QED BY <1>1, <2>1 DEF HandIsClaim
<1>6. Stays
  BY <1>1 DEF Stays
<1> QED BY <1>1, <1>2, <1>3, <1>4, <1>5, <1>6

LEMMA DeliverKeeps ==
  ASSUME IInv, NEW a \in Callers, Deliver(a)
  PROVE  IInv'
<1> DEFINE o == act[a].order
<1>1. /\ a \in Actors /\ o \in Orders /\ act[a].stake \in StakerStake
      /\ (act[a].stake.staked => staked)
      /\ act' = [act EXCEPT ![a] = Idle]
      /\ UNCHANGED <<kind, operatorBase, staked, watch, hand>>
  BY DEF Deliver, IInv, TypeOK, Honest, Actor, Actors
<1>2. /\ row' \in [Ids -> Cashback] /\ RowInv' /\ Stays
      /\ recheck' \in [Orders -> {"none", "open", "late", "resolved", "expired"}]
  <2>1. CASE UNCHANGED <<row, recheck>>
    BY <1>1, <2>1, RowsRest DEF IInv, TypeOK
  <2>2. CASE /\ row[OrderRow(o)].status = "absent"
             /\ row' = [row EXCEPT ![OrderRow(o)] = NewCashback(o, act[a].stake)]
             /\ recheck' \in {recheck, [recheck EXCEPT ![o] = "open"]}
    <3> DEFINE r == NewCashback(o, act[a].stake)
    <3>1. /\ r \in Cashback /\ r.status \in {"queued", "skipped"}
          /\ r.status = "queued" => r.recipient /\ r.amount > 0
          /\ r.boosted => act[a].stake.staked
          /\ r.signed = NoTx
      BY <1>1, NewCashbackType DEF IInv
    <3>2. recheck' \in [Orders -> {"none", "open", "late", "resolved", "expired"}]
      BY <1>1, <2>2 DEF IInv, TypeOK
    <3>3. row' = [row EXCEPT ![OrderRow(o)] = r]
      BY <2>2
    <3> HIDE DEF r, o
    <3> QED BY <1>1, <2>2, <3>1, <3>2, <3>3, Booked
  <2> QED BY <2>1, <2>2 DEF Deliver
<1>3. /\ operatorBase' \in OperatorBases /\ staked' \in BOOLEAN /\ watch' \in BOOLEAN
      /\ (watch' => staked') /\ hand' \in Hand \cup {NoHand}
  BY <1>1 DEF IInv, TypeOK, Honest
<1> QED BY <1>1, <1>2, <1>3, IdleType, ActorMoves

LEMMA ClearKeeps ==
  ASSUME IInv, ClearStakeRecheck
  PROVE  IInv'
<1>1. /\ Rechecker \in Actors
      /\ act' = [act EXCEPT ![Rechecker] = Idle]
      /\ recheck' \in [Orders -> {"none", "open", "late", "resolved", "expired"}]
      /\ UNCHANGED <<kind, operatorBase, staked, watch, row, hand>>
  BY DEF ClearStakeRecheck, Actors, IInv, TypeOK
<1>2. /\ operatorBase' \in OperatorBases /\ staked' \in BOOLEAN /\ watch' \in BOOLEAN
      /\ (watch' => staked') /\ hand' \in Hand \cup {NoHand}
  BY <1>1 DEF IInv, TypeOK, Honest
<1> QED BY <1>1, <1>2, IdleType, RowsRest, ActorMoves

-----------------------------------------------------------------------------
(* The worker.                                                             *)

\* The worker writes one row of an order that is there, and no stack.
LEMMA WorkerKeeps ==
  ASSUME IInv, NEW i \in Ids, NEW r \in Cashback, NEW h \in Hand \cup {NoHand},
         WorkerStep(i, r, h),
         row[i].status # "absent", r.status # "absent",
         r.boosted = row[i].boosted, r.reconciled = row[i].reconciled,
         r.amount = row[i].amount, r.recipient = row[i].recipient,
         r.signed \in {NoTx, r.amount},
         r.signed # NoTx => r.status \in {"sending", "broadcast", "paid"},
         r.status \in Live => r.recipient /\ r.amount > 0,
         \/ h = NoHand
         \/ h = hand /\ hand.id # i
         \/ /\ h \in Hand /\ h.id = i /\ r.status = "sending" /\ r.amount = h.amount
  PROVE  IInv'
<1>1. /\ row' = [row EXCEPT ![i] = r] /\ hand' = h
      /\ UNCHANGED <<kind, operatorBase, staked, watch, recheck, act>>
  BY DEF WorkerStep
<1>2. row[i].boosted => staked
  BY DEF IInv, RowInv, NoFreeBoost
<1>3. row' \in [Ids -> Cashback] /\ RowInv' /\ Stays
  BY <1>1, <1>2, Rewritten
<1>4. \A s : Listed(s) => Listed(s)'
  <2> SUFFICES ASSUME NEW s, Listed(s) PROVE Listed(s)'
    OBVIOUS
  <2>1. s.id \in Ids
    BY IdFacts DEF Listed
  <2> QED BY <1>1, <1>3, <2>1 DEF Listed, Stays, OrderOf, OrderRow
<1>5. \A s, d : Delta(s, d)' = Delta(s, d)
  BY DEF Delta, AmountLuna, OrderOf
<1>6. ListingsHold'
  BY <1>1, <1>4, <1>5 DEF IInv, ListingsHold
<1>7. TypeOK' /\ Honest'
  BY <1>1, <1>3 DEF IInv, TypeOK, Honest
<1> QED BY <1>3, <1>6, <1>7 DEF IInv

LEMMA WorkerActionsKeep ==
  ASSUME IInv, NEW i \in Ids,
         Claim(i) \/ FailSend(i) \/ Sign(i) \/ Send(i) \/ MarkPaid(i) \/ Retire(i)
  PROVE  IInv'
<1>1. /\ row[i] \in Cashback /\ row[i].signed \in {NoTx, row[i].amount}
      /\ row[i].status \in Live => row[i].recipient /\ row[i].amount > 0
      /\ row[i].signed # NoTx => row[i].status \in {"sending", "broadcast", "paid"}
      /\ hand \in Hand \cup {NoHand}
      /\ hand # NoHand /\ hand.id = i =>
           hand \in Hand /\ row[i].status = "sending" /\ row[i].amount = hand.amount
  BY DEF IInv, TypeOK, RowInv, WireMatchesRecord, QueuedIsPayable, SignedIsOut,
         HandIsClaim
<1>2. {"queued", "sending", "broadcast", "paid"} \subseteq Statuses
  BY QueuedStatus
<1>3. CASE Claim(i)
  <2> DEFINE r == [row[i] EXCEPT !.status = "sending"]
             h == [id |-> i, amount |-> row[i].amount]
  <2>1. row[i].status # "absent" /\ row[i].recipient /\ row[i].amount > 0
        /\ row[i].signed = NoTx /\ WorkerStep(i, r, h)
    BY <1>3 DEF Claim
  <2>2. /\ r \in Cashback /\ r.status = "sending"
        /\ r.boosted = row[i].boosted /\ r.reconciled = row[i].reconciled
        /\ r.amount = row[i].amount /\ r.recipient = row[i].recipient
        /\ r.signed = row[i].signed
    BY <1>1, <1>2 DEF Cashback
  <2>3. h \in Hand /\ h.id = i /\ h.amount = r.amount
    BY <1>1, <2>2 DEF Hand, Cashback
  <2> HIDE DEF r, h
  <2> QED BY <1>1, <2>1, <2>2, <2>3, WorkerKeeps
<1>4. CASE FailSend(i)
  <2> DEFINE r == [row[i] EXCEPT !.status = IF row[i].signed = NoTx
                                            THEN "queued" ELSE @]
  <2>1. row[i].status = "sending" /\ WorkerStep(i, r, NoHand)
    BY <1>1, <1>4 DEF FailSend
  <2>2. /\ r \in Cashback
        /\ r.status = IF row[i].signed = NoTx THEN "queued" ELSE "sending"
        /\ r.boosted = row[i].boosted /\ r.reconciled = row[i].reconciled
        /\ r.amount = row[i].amount /\ r.recipient = row[i].recipient
        /\ r.signed = row[i].signed
    BY <1>1, <1>2, <2>1 DEF Cashback
  <2>3. row[i].recipient /\ row[i].amount > 0
    BY <1>1, <2>1 DEF Live
  <2> HIDE DEF r
  <2> QED BY <1>1, <2>1, <2>2, <2>3, WorkerKeeps
<1>5. CASE Sign(i)
  <2> DEFINE r == [row[i] EXCEPT !.signed = hand.amount]
  <2>1. /\ row[i].status = "sending" /\ hand \in Hand /\ hand.id = i
        /\ row[i].amount = hand.amount /\ WorkerStep(i, r, hand)
    BY <1>1, <1>5 DEF Sign
  <2>2. /\ r \in Cashback /\ r.status = "sending"
        /\ r.boosted = row[i].boosted /\ r.reconciled = row[i].reconciled
        /\ r.amount = row[i].amount /\ r.recipient = row[i].recipient
        /\ r.signed = r.amount
    BY <1>1, <2>1 DEF Cashback
  <2>3. row[i].recipient /\ row[i].amount > 0
    BY <1>1, <2>1 DEF Live
  <2> HIDE DEF r
  <2> QED BY <1>1, <2>1, <2>2, <2>3, WorkerKeeps
<1>6. CASE Send(i)
  <2> DEFINE r == [row[i] EXCEPT !.status = "broadcast"]
  <2>1. row[i].status = "sending" /\ WorkerStep(i, r, NoHand)
    BY <1>6 DEF Send
  <2>2. /\ r \in Cashback /\ r.status = "broadcast"
        /\ r.boosted = row[i].boosted /\ r.reconciled = row[i].reconciled
        /\ r.amount = row[i].amount /\ r.recipient = row[i].recipient
        /\ r.signed = row[i].signed
    BY <1>1, <1>2 DEF Cashback
  <2>3. row[i].recipient /\ row[i].amount > 0
    BY <1>1, <2>1 DEF Live
  <2> HIDE DEF r
  <2> QED BY <1>1, <2>1, <2>2, <2>3, WorkerKeeps
<1>7. CASE MarkPaid(i)
  <2> DEFINE r == [row[i] EXCEPT !.status = "paid"]
  <2>1. row[i].status = "broadcast" /\ hand = NoHand /\ WorkerStep(i, r, hand)
    BY <1>7 DEF MarkPaid
  <2>2. /\ r \in Cashback /\ r.status = "paid"
        /\ r.boosted = row[i].boosted /\ r.reconciled = row[i].reconciled
        /\ r.amount = row[i].amount /\ r.recipient = row[i].recipient
        /\ r.signed = row[i].signed
    BY <1>1, <1>2 DEF Cashback
  <2>3. row[i].recipient /\ row[i].amount > 0
    BY <1>1, <2>1 DEF Live
  <2> HIDE DEF r
  <2> QED BY <1>1, <2>1, <2>2, <2>3, WorkerKeeps
<1>8. CASE Retire(i)
  <2> DEFINE r == [row[i] EXCEPT !.status = "queued", !.signed = NoTx]
  <2>1. row[i].status \in {"sending", "broadcast"} /\ hand = NoHand
        /\ WorkerStep(i, r, hand)
    BY <1>8 DEF Retire
  <2>2. /\ r \in Cashback /\ r.status = "queued"
        /\ r.boosted = row[i].boosted /\ r.reconciled = row[i].reconciled
        /\ r.amount = row[i].amount /\ r.recipient = row[i].recipient
        /\ r.signed = NoTx
    BY <1>1, <1>2 DEF Cashback
  <2>3. row[i].recipient /\ row[i].amount > 0
    BY <1>1, <2>1 DEF Live
  <2> HIDE DEF r
  <2> QED BY <1>1, <2>1, <2>2, <2>3, WorkerKeeps
<1> QED BY <1>3, <1>4, <1>5, <1>6, <1>7, <1>8

LEMMA CrashKeeps ==
  ASSUME IInv, Crash
  PROVE  IInv'
<1>1. /\ act' = [a \in Actors |-> Idle] /\ hand' = NoHand
      /\ UNCHANGED <<kind, operatorBase, staked, watch, row, recheck>>
  BY DEF Crash
<1>2. TypeOK'
  BY <1>1, IdleType DEF IInv, TypeOK
<1>3. Honest' /\ ListingsHold'
  BY <1>1, IdleType DEF IInv, Honest, ListingsHold
<1>4. RowInv'
  BY <1>1 DEF IInv, RowInv, NoFreeBoost, WireMatchesRecord, QueuedIsPayable, OneTopUp,
         AbsentIsEmpty, HandIsClaim, SignedIsOut, OrderRow
<1> QED BY <1>2, <1>3, <1>4 DEF IInv

-----------------------------------------------------------------------------
(* The invariant.                                                          *)

LEMMA InitIInv == Init => IInv
<1> SUFFICES ASSUME Init PROVE IInv
  OBVIOUS
<1>1. TypeOK
  BY EmptyRow, IdleType DEF Init, TypeOK
<1>2. Honest /\ ListingsHold
  BY IdleType DEF Init, Honest, ListingsHold
<1>3. RowInv
  <2>1. \A i \in Ids : row[i] = NoCashback
    BY DEF Init
  <2>2. OneTopUp
    BY <2>1, IdFacts DEF OneTopUp
  <2> QED BY <2>1, <2>2, EmptyRow DEF Init, RowInv, NoFreeBoost, WireMatchesRecord,
         QueuedIsPayable, AbsentIsEmpty, HandIsClaim, SignedIsOut, Live
<1> QED BY <1>1, <1>2, <1>3 DEF IInv

LEMMA StepIInv == IInv /\ [Next]_vars => IInv'
<1> SUFFICES ASSUME IInv, [Next]_vars PROVE IInv'
  OBVIOUS
<1>1. ASSUME NEW a \in Callers, NEW order \in Orders \cup {NoOrder},
             NEW answer \in Answers, Ask(a, order, answer)
      PROVE  IInv'
  BY <1>1, AskKeeps
<1>2. ASSUME NEW answer \in Answers, Look(answer) PROVE IInv'
  BY <1>2, LookKeeps
<1>3. ASSUME NEW o \in Orders, NEW answer \in Answers, Recheck(o, answer) PROVE IInv'
  BY <1>3, RecheckKeeps
<1>4. ASSUME NEW a \in Actors, ListStatus(a) PROVE IInv'
  BY <1>4, ListKeeps
<1>5. ASSUME NEW a \in Actors, Abort(a) PROVE IInv'
  BY <1>5, AbortKeeps
<1>6. ASSUME NEW a \in Actors, NEW s \in act[a].rows, PatchRow(a, s) PROVE IInv'
  BY <1>6, PatchKeeps
<1>7. ASSUME NEW a \in Callers, Deliver(a) PROVE IInv'
  BY <1>7, DeliverKeeps
<1>8. CASE ClearStakeRecheck
  BY <1>8, ClearKeeps
<1>9. ASSUME NEW i \in Ids,
             Claim(i) \/ FailSend(i) \/ Sign(i) \/ Send(i) \/ MarkPaid(i) \/ Retire(i)
      PROVE  IInv'
  BY <1>9, WorkerActionsKeep
<1>10. /\ operatorBase \in OperatorBases /\ staked \in BOOLEAN /\ watch \in BOOLEAN
       /\ recheck \in [Orders -> {"none", "open", "late", "resolved", "expired"}]
       /\ (watch => staked)
  BY DEF IInv, TypeOK, Honest
<1>11. ASSUME NEW o \in Orders, PassDeadline(o) PROVE IInv'
  BY <1>10, <1>11, QuietKeeps DEF PassDeadline
<1>12. ASSUME NEW bps \in OperatorBases, SetOperatorBase(bps) PROVE IInv'
  BY <1>10, <1>12, QuietKeeps DEF SetOperatorBase
<1>13. CASE Stake
  BY <1>10, <1>13, QuietKeeps DEF Stake
<1>14. CASE Crash
  BY <1>14, CrashKeeps
<1>15. CASE UNCHANGED vars
  BY <1>10, <1>15, QuietKeeps DEF vars
<1> QED
  BY <1>1, <1>2, <1>3, <1>4, <1>5, <1>6, <1>7, <1>8, <1>9, <1>11, <1>12, <1>13,
     <1>14, <1>15 DEF Next

\* No interleaving of deliveries, pages, the re-ask loop, the payout worker and
\* crashes breaks the agreement of rows, listings and claims.
THEOREM StakerInvariant == Spec => []IInv
BY InitIInv, StepIInv, PTL DEF Spec

\* Every variable keeps its type.
THEOREM StakerTypeOK == Spec => []TypeOK
<1>1. IInv => TypeOK
  BY DEF IInv
<1> QED BY <1>1, StakerInvariant, PTL

\* A row pays the staker rate only to a buyer who has staked at some time, for
\* any number of deliveries, pages and re-asks on answers of any age
\* (db/quotes.go resolveStakerStake, db/cashback.go ReconcileStakerCashback).
THEOREM StakerNoFreeBoost == Spec => []NoFreeBoost
<1>1. IInv => NoFreeBoost
  BY DEF IInv, RowInv
<1> QED BY <1>1, StakerInvariant, PTL

\* What the worker signed for a row is what the row records, however often the
\* row is reconciled meanwhile (cashback/worker.go sendOne against
\* db/cashback.go ReconcileStakerCashback).
THEOREM StakerWireMatchesRecord == Spec => []WireMatchesRecord
<1>1. IInv => WireMatchesRecord
  BY DEF IInv, RowInv
<1> QED BY <1>1, StakerInvariant, PTL

\* Every row the worker may pay has a recipient and a positive amount, also when
\* it was revived from a skip or topped up from an earlier listing.
THEOREM StakerQueuedIsPayable == Spec => []QueuedIsPayable
<1>1. IInv => QueuedIsPayable
  BY DEF IInv, RowInv
<1> QED BY <1>1, StakerInvariant, PTL

-----------------------------------------------------------------------------
(* The rows implement the entitlement.                                     *)

LEMMA OwedType ==
  ASSUME IInv, NEW o \in Orders
  PROVE  Owed(o) \in Nat
<1>1. /\ row[<<o, "order">>].amount \in Nat /\ row[<<o, "topup">>].amount \in Nat
      /\ row[<<o, "second">>].amount \in Nat
  BY IdFacts DEF IInv, TypeOK, Cashback, OrderRow
<1> QED BY <1>1 DEF Owed

LEMMA OwedThen ==
  ASSUME IInv', NEW o \in Orders
  PROVE  Owed(o)' \in Nat
<1>1. /\ row'[<<o, "order">>].amount \in Nat /\ row'[<<o, "topup">>].amount \in Nat
      /\ row'[<<o, "second">>].amount \in Nat
  BY IdFacts DEF IInv, TypeOK, Cashback, OrderRow
<1> QED BY <1>1 DEF Owed

\* Where no order is booked, raised or owed anything else, nothing happens.
LEMMA StutterMaps ==
  ASSUME kind' = kind,
         \A o \in Orders :
           /\ row'[OrderRow(o)].status = "absent" <=> row[OrderRow(o)].status = "absent"
           /\ row'[OrderRow(o)].reconciled <=> row[OrderRow(o)].reconciled
           /\ Owed(o)' = Owed(o)
  PROVE  UNCHANGED Entitlement!vars
<1>1. {o \in Orders : kind[o].code}' = {o \in Orders : kind[o].code}
  OBVIOUS
<1>2. {o \in Orders : row[OrderRow(o)].status # "absent"}'
      = {o \in Orders : row[OrderRow(o)].status # "absent"}
  BY DEF OrderRow
<1>3. [o \in Orders |-> Owed(o)]' = [o \in Orders |-> Owed(o)]
  OBVIOUS
<1>4. {o \in Orders : row[OrderRow(o)].reconciled}'
      = {o \in Orders : row[OrderRow(o)].reconciled}
  BY DEF OrderRow
<1> QED BY <1>1, <1>2, <1>3, <1>4 DEF Entitlement!vars

\* The rows of all orders but o.
OthersStay(o) ==
  \A p \in Orders \ {o} : /\ row'[OrderRow(p)] = row[OrderRow(p)]
                          /\ row'[<<p, "topup">>] = row[<<p, "topup">>]
                          /\ row'[<<p, "second">>] = row[<<p, "second">>]

LEMMA OthersOwed ==
  ASSUME NEW o \in Orders, OthersStay(o), kind' = kind, Owed(o)' \in Nat
  PROVE  /\ Entitlement!Owes(o)
         /\ {p \in Orders : kind[p].code}' = {p \in Orders : kind[p].code}
         /\ \A p \in Orders \ {o} :
              /\ row'[OrderRow(p)].status = row[OrderRow(p)].status
              /\ row'[OrderRow(p)].reconciled = row[OrderRow(p)].reconciled
<1> DEFINE owed == [p \in Orders |-> Owed(p)]
<1>1. \A p \in Orders \ {o} : Owed(p)' = Owed(p)
  BY DEF OthersStay, Owed, OrderRow
<1>2. owed' = [p \in Orders |-> Owed(p)']
  OBVIOUS
<1>3. owed'[o] = Owed(o)'
  BY <1>2
<1>4. owed' = [owed EXCEPT ![o] = owed'[o]]
  BY <1>1, <1>2, <1>3
<1> QED BY <1>3, <1>4 DEF Entitlement!Owes, OthersStay

LEMMA BookMaps ==
  ASSUME IInv, IInv', NEW o \in Orders, OthersStay(o), kind' = kind,
         row[OrderRow(o)].status = "absent", row'[OrderRow(o)].status # "absent",
         ~row'[OrderRow(o)].reconciled, ~row[OrderRow(o)].reconciled
  PROVE  Entitlement!Book(o)
<1>1. Owed(o)' \in Nat
  BY OwedThen
<1>2. {p \in Orders : row[OrderRow(p)].status # "absent"}'
      = {p \in Orders : row[OrderRow(p)].status # "absent"} \cup {o}
  BY <1>1, OthersOwed DEF OrderRow
<1>3. {p \in Orders : row[OrderRow(p)].reconciled}'
      = {p \in Orders : row[OrderRow(p)].reconciled}
  BY <1>1, OthersOwed DEF OrderRow
<1> QED BY <1>1, <1>2, <1>3, OthersOwed DEF Entitlement!Book

LEMMA RaiseMaps ==
  ASSUME IInv, IInv', NEW o \in Orders, OthersStay(o), kind' = kind,
         row[OrderRow(o)].status # "absent", row'[OrderRow(o)].status # "absent",
         row'[OrderRow(o)].reconciled, ~row[OrderRow(o)].reconciled,
         ~kind[o].code, Owed(o)' > Owed(o)
  PROVE  Entitlement!Raise(o)
<1>1. Owed(o)' \in Nat
  BY OwedThen
<1>2. {p \in Orders : row[OrderRow(p)].status # "absent"}'
      = {p \in Orders : row[OrderRow(p)].status # "absent"}
  BY <1>1, OthersOwed DEF OrderRow
<1>3. {p \in Orders : row[OrderRow(p)].reconciled}'
      = {p \in Orders : row[OrderRow(p)].reconciled} \cup {o}
  BY <1>1, OthersOwed DEF OrderRow
<1>4. [p \in Orders |-> Owed(p)]'[o] > [p \in Orders |-> Owed(p)][o]
  OBVIOUS
<1> QED BY <1>1, <1>2, <1>3, <1>4, OthersOwed DEF Entitlement!Raise

\* The three rows of another order are other rows.
LEMMA OtherIds ==
  ASSUME NEW o \in Orders, NEW p \in Orders \ {o},
         NEW i \in {OrderRow(o), <<o, "topup">>, <<o, "second">>}
  PROVE  /\ i # OrderRow(p) /\ i # <<p, "topup">> /\ i # <<p, "second">>
         /\ {OrderRow(p), <<p, "topup">>, <<p, "second">>} \subseteq Ids
<1>1. i[1] = o
  BY DEF OrderRow
<1>2. OrderRow(p)[1] = p /\ <<p, "topup">>[1] = p /\ <<p, "second">>[1] = p
  BY DEF OrderRow
<1> QED BY <1>1, <1>2, IdFacts

\* The row of a worker's step changes in no way the entitlement tells.
LEMMA WorkerMaps ==
  ASSUME IInv, NEW i \in Ids, kind' = kind, NEW r \in Cashback,
         row' = [row EXCEPT ![i] = r], r.amount = row[i].amount,
         r.reconciled = row[i].reconciled,
         row[i].status # "absent", r.status # "absent"
  PROVE  UNCHANGED Entitlement!vars
<1>1. row'[i] = r /\ \A j \in Ids : j # i => row'[j] = row[j]
  BY DEF IInv, TypeOK
<1>2. \A j \in Ids : /\ row'[j].amount = row[j].amount
                     /\ row'[j].reconciled = row[j].reconciled
                     /\ row'[j].status = "absent" <=> row[j].status = "absent"
  BY <1>1
<1>3. \A o \in Orders : Owed(o)' = Owed(o)
  BY <1>2, IdFacts DEF Owed, OrderRow
<1> QED BY <1>2, <1>3, IdFacts, StutterMaps

LEMMA RewriteMaps ==
  ASSUME IInv, IInv', kind' = kind, NEW o \in Orders, NEW r \in Cashback,
         row' = [row EXCEPT ![OrderRow(o)] = r],
         row[OrderRow(o)].status # "absent", r.status # "absent",
         ~row[OrderRow(o)].reconciled, r.reconciled, ~kind[o].code,
         r.amount > row[OrderRow(o)].amount
  PROVE  Entitlement!Raise(o)
<1> DEFINE i == OrderRow(o)
<1>1. /\ i \in Ids /\ row'[i] = r
      /\ \A j \in Ids : j # i => row'[j] = row[j]
  BY IdFacts DEF IInv, TypeOK
<1>2. OthersStay(o)
  BY <1>1, OtherIds DEF OthersStay
<1>3. row'[<<o, "topup">>] = row[<<o, "topup">>] /\ row'[<<o, "second">>] = row[<<o, "second">>]
  BY <1>1, IdFacts DEF OrderRow
<1>4. /\ row[i].amount \in Nat /\ r.amount \in Nat
      /\ row[<<o, "topup">>].amount \in Nat /\ row[<<o, "second">>].amount \in Nat
  BY <1>1, IdFacts DEF IInv, TypeOK, Cashback
<1>5. Owed(o)' > Owed(o)
  BY <1>1, <1>3, <1>4 DEF Owed, OrderRow
<1> QED BY <1>1, <1>2, <1>5, RaiseMaps

LEMMA PatchMaps ==
  ASSUME IInv, IInv', kind' = kind, NEW s \in Listing, NEW desired \in Nat,
         Listed(s), Delta(s, desired) > 0,
         \/ Revive(s, desired)
         \/ Raise(s, desired)
         \/ s.row.status \in Live /\ TopUp(s, desired)
  PROVE  (\E o \in Orders : Entitlement!Raise(o)) \/ UNCHANGED Entitlement!vars
<1>1. PICK o \in Orders : s.id = OrderRow(o)
  BY DEF Listed
<1>2. /\ s.id \in Ids /\ OrderOf(s.id) = o /\ ~kind[o].code
      /\ row[s.id] \in Cashback /\ row[s.id].status # "absent"
      /\ row[s.id].amount \in Nat
  BY <1>1, IdFacts DEF Listed, IInv, TypeOK, Cashback
<1>3. Delta(s, desired) \in Nat
  BY DeltaType
<1>4. CASE UNCHANGED row
  <2>1. \A p \in Orders : Owed(p)' = Owed(p)
    BY <1>4 DEF Owed
  <2> QED BY <1>4, <2>1, StutterMaps DEF OrderRow
<1>5. CASE Revive(s, desired) /\ ~UNCHANGED row
  <2> DEFINE r == [row[s.id] EXCEPT !.status = "queued", !.amount = Delta(s, desired),
                                    !.zeroRate = FALSE, !.recipient = TRUE,
                                    !.boosted = TRUE, !.reconciled = TRUE]
  <2>1. /\ row' = [row EXCEPT ![s.id] = r]
        /\ ~row[s.id].reconciled /\ row[s.id].amount = 0
    BY <1>5 DEF Revive
  <2>2. r.status = "queued" /\ r.amount = Delta(s, desired) /\ r.reconciled
    BY <1>2 DEF Cashback
  <2>3. r \in Cashback
    BY <1>2, <1>3, QueuedStatus DEF Cashback
  <2> HIDE DEF r
  <2> QED BY <1>1, <1>2, <1>3, <2>1, <2>2, <2>3, RewriteMaps
<1>6. CASE Raise(s, desired) /\ ~UNCHANGED row
  <2> DEFINE r == [row[s.id] EXCEPT !.amount = row[s.id].amount + Delta(s, desired),
                                    !.boosted = TRUE, !.reconciled = TRUE]
  <2>1. row' = [row EXCEPT ![s.id] = r] /\ ~row[s.id].reconciled
    BY <1>6 DEF Raise
  <2>2. /\ r.status = row[s.id].status /\ r.reconciled
        /\ r.amount = row[s.id].amount + Delta(s, desired)
    BY <1>2 DEF Cashback
  <2>3. r \in Cashback
    <3>1. row[s.id].amount + Delta(s, desired) \in Nat
      BY <1>2, <1>3
    <3> QED BY <1>2, <3>1 DEF Cashback
  <2>4. r.amount > row[s.id].amount
    BY <1>2, <1>3, <2>2
  <2> HIDE DEF r
  <2> QED BY <1>1, <1>2, <2>1, <2>2, <2>3, <2>4, RewriteMaps
<1>7. CASE TopUp(s, desired) /\ ~UNCHANGED row
  <2> DEFINE f == <<o, "topup">>
             t == TopUpRow(s, desired)
  <2>1. /\ ~row[s.id].reconciled
        /\ row' = [row EXCEPT ![FreeTopUp(o)] = t, ![s.id].reconciled = TRUE]
    BY <1>2, <1>7 DEF TopUp
  <2>2. /\ f \in Ids /\ f # s.id /\ FreeTopUp(o) = f
        /\ row[f] = NoCashback /\ row[<<o, "second">>] = NoCashback
    BY <1>1, <2>1, IdFacts, EmptyRow DEF OneTopUp, IInv, RowInv, FreeTopUp, OrderRow
  <2>3. t.amount = Delta(s, desired)
    BY DEF TopUpRow, NoCashback
  <2> HIDE DEF t
  <2>4. /\ row'[f] = t /\ row'[s.id] = [row[s.id] EXCEPT !.reconciled = TRUE]
        /\ \A j \in Ids : j # f /\ j # s.id => row'[j] = row[j]
    BY <1>2, <2>1, <2>2 DEF IInv, TypeOK
  <2>5. /\ row'[s.id].reconciled /\ row'[s.id].amount = row[s.id].amount
        /\ row'[s.id].status = row[s.id].status
    BY <1>2, <2>4 DEF Cashback
  <2>6. OthersStay(o)
    <3> SUFFICES ASSUME NEW p \in Orders \ {o}
                 PROVE  /\ row'[OrderRow(p)] = row[OrderRow(p)]
                        /\ row'[<<p, "topup">>] = row[<<p, "topup">>]
                        /\ row'[<<p, "second">>] = row[<<p, "second">>]
      BY DEF OthersStay
    <3>1. /\ OrderRow(p) \in Ids /\ <<p, "topup">> \in Ids /\ <<p, "second">> \in Ids
          /\ f # OrderRow(p) /\ f # <<p, "topup">> /\ f # <<p, "second">>
          /\ s.id # OrderRow(p) /\ s.id # <<p, "topup">> /\ s.id # <<p, "second">>
      BY <1>1, OtherIds
    <3> QED BY <2>4, <3>1
  <2>7. row'[<<o, "second">>] = row[<<o, "second">>]
    <3>1. <<o, "second">> # f /\ <<o, "second">> # s.id
      BY <1>1 DEF OrderRow
    <3>2. <<o, "second">> \in Ids
      BY IdFacts
    <3> QED BY <2>4, <3>1, <3>2
  <2>8. Owed(o) = row[s.id].amount /\ Owed(o)' = row[s.id].amount + Delta(s, desired)
    BY <1>1, <1>2, <1>3, <2>2, <2>3, <2>4, <2>5, <2>7, EmptyRow DEF Owed, OrderRow
  <2>9. Owed(o)' > Owed(o)
    BY <1>2, <1>3, <2>8
  <2> QED BY <1>1, <1>2, <2>1, <2>5, <2>6, <2>9, RaiseMaps
<1> QED BY <1>4, <1>5, <1>6, <1>7

LEMMA DeliverMaps ==
  ASSUME IInv, IInv', NEW a \in Callers, Deliver(a)
  PROVE  (\E o \in Orders : Entitlement!Book(o)) \/ UNCHANGED Entitlement!vars
<1> DEFINE o == act[a].order
           i == OrderRow(o)
           r == NewCashback(o, act[a].stake)
<1>1. o \in Orders /\ act[a].stake \in StakerStake /\ kind' = kind /\ i \in Ids
  BY IdFacts DEF Deliver, IInv, TypeOK, Honest, Actor, Actors
<1>2. CASE UNCHANGED row
  <2>1. \A p \in Orders : Owed(p)' = Owed(p)
    BY <1>2 DEF Owed
  <2> QED BY <1>1, <1>2, <2>1, StutterMaps DEF OrderRow
<1>3. CASE row[i].status = "absent" /\ row' = [row EXCEPT ![i] = r]
  <2>1. r.status \in {"queued", "skipped"} /\ ~r.reconciled
    BY <1>1, NewCashbackType DEF IInv
  <2> HIDE DEF r
  <2>2. row'[i] = r /\ \A j \in Ids : j # i => row'[j] = row[j]
    BY <1>1, <1>3 DEF IInv, TypeOK
  <2>3. ~row[i].reconciled
    BY <1>1, <1>3, EmptyRow DEF IInv, RowInv, AbsentIsEmpty
  <2>4. OthersStay(o)
    BY <1>1, <2>2, OtherIds DEF OthersStay
  <2> HIDE DEF o
  <2> QED BY <1>1, <1>3, <2>1, <2>2, <2>3, <2>4, BookMaps
<1> QED BY <1>2, <1>3 DEF Deliver

LEMMA WorkerActionsMap ==
  ASSUME IInv, NEW i \in Ids,
         Claim(i) \/ FailSend(i) \/ Sign(i) \/ Send(i) \/ MarkPaid(i) \/ Retire(i)
  PROVE  UNCHANGED Entitlement!vars
<1>1. /\ row[i] \in Cashback /\ hand \in Hand \cup {NoHand}
      /\ hand # NoHand /\ hand.id = i => hand \in Hand /\ row[i].status = "sending"
  BY DEF IInv, TypeOK, RowInv, HandIsClaim
<1>2. \E r \in Cashback :
        /\ row' = [row EXCEPT ![i] = r] /\ kind' = kind
        /\ r.amount = row[i].amount /\ r.reconciled = row[i].reconciled
        /\ row[i].status # "absent" /\ r.status # "absent"
  <2>1. CASE Claim(i)
    <3> DEFINE r == [row[i] EXCEPT !.status = "sending"]
    <3>1. r \in Cashback /\ r.status = "sending" /\ r.amount = row[i].amount
          /\ r.reconciled = row[i].reconciled
      BY <1>1, QueuedStatus DEF Cashback
    <3> QED BY <2>1, <3>1 DEF Claim, WorkerStep
  <2>2. CASE FailSend(i)
    <3> DEFINE r == [row[i] EXCEPT !.status = IF row[i].signed = NoTx
                                              THEN "queued" ELSE @]
    <3>1. r \in Cashback /\ r.status \in {"queued", "sending"}
          /\ r.amount = row[i].amount /\ r.reconciled = row[i].reconciled
          /\ row[i].status = "sending"
      BY <1>1, <2>2, QueuedStatus DEF Cashback, FailSend
    <3> QED BY <2>2, <3>1 DEF FailSend, WorkerStep
  <2>3. CASE Sign(i)
    <3> DEFINE r == [row[i] EXCEPT !.signed = hand.amount]
    <3>1. r \in Cashback /\ r.status = "sending" /\ r.amount = row[i].amount
          /\ r.reconciled = row[i].reconciled /\ row[i].status = "sending"
      BY <1>1, <2>3 DEF Cashback, Hand, Sign
    <3> QED BY <2>3, <3>1 DEF Sign, WorkerStep
  <2>4. CASE Send(i)
    <3> DEFINE r == [row[i] EXCEPT !.status = "broadcast"]
    <3>1. r \in Cashback /\ r.status = "broadcast" /\ r.amount = row[i].amount
          /\ r.reconciled = row[i].reconciled
      BY <1>1, QueuedStatus DEF Cashback
    <3> QED BY <2>4, <3>1 DEF Send, WorkerStep
  <2>5. CASE MarkPaid(i)
    <3> DEFINE r == [row[i] EXCEPT !.status = "paid"]
    <3>1. r \in Cashback /\ r.status = "paid" /\ r.amount = row[i].amount
          /\ r.reconciled = row[i].reconciled
      BY <1>1, QueuedStatus DEF Cashback
    <3> QED BY <2>5, <3>1 DEF MarkPaid, WorkerStep
  <2>6. CASE Retire(i)
    <3> DEFINE r == [row[i] EXCEPT !.status = "queued", !.signed = NoTx]
    <3>1. r \in Cashback /\ r.status = "queued" /\ r.amount = row[i].amount
          /\ r.reconciled = row[i].reconciled
      BY <1>1, QueuedStatus DEF Cashback
    <3> QED BY <2>6, <3>1 DEF Retire, WorkerStep
  <2> QED BY <2>1, <2>2, <2>3, <2>4, <2>5, <2>6
<1>3. PICK r \in Cashback :
        /\ row' = [row EXCEPT ![i] = r] /\ kind' = kind
        /\ r.amount = row[i].amount /\ r.reconciled = row[i].reconciled
        /\ row[i].status # "absent" /\ r.status # "absent"
  BY <1>2
<1> QED BY <1>3, WorkerMaps

LEMMA InitMaps == Init => Entitlement!Init
<1> SUFFICES ASSUME Init PROVE Entitlement!Init
  OBVIOUS
<1>1. \A o \in Orders : /\ row[OrderRow(o)] = NoCashback
                        /\ row[<<o, "order">>] = NoCashback
                        /\ row[<<o, "topup">>] = NoCashback
                        /\ row[<<o, "second">>] = NoCashback
  BY IdFacts DEF Init, OrderRow
<1>2. \A o \in Orders : Owed(o) = 0
  <2> SUFFICES ASSUME NEW o \in Orders PROVE Owed(o) = 0
    OBVIOUS
  <2>1. /\ row[<<o, "order">>].amount = 0 /\ row[<<o, "topup">>].amount = 0
        /\ row[<<o, "second">>].amount = 0
    BY <1>1, EmptyRow
  <2>2. 0 + 0 + 0 = 0
    OBVIOUS
  <2> QED BY <2>1, <2>2 DEF Owed
<1>3. {o \in Orders : row[OrderRow(o)].status # "absent"} = {}
      /\ {o \in Orders : row[OrderRow(o)].reconciled} = {}
  BY <1>1, EmptyRow
<1>4. [o \in Orders |-> Owed(o)] = [o \in Orders |-> 0]
  BY <1>2
<1> QED BY <1>3, <1>4 DEF Entitlement!Init

LEMMA StepMaps ==
  ASSUME IInv, IInv', [Next]_vars
  PROVE  [Entitlement!Next]_(Entitlement!vars)
<1>1. CASE kind' = kind /\ row' = row
  <2>1. \A o \in Orders : Owed(o)' = Owed(o)
    BY <1>1 DEF Owed
  <2> QED BY <1>1, <2>1, StutterMaps DEF OrderRow
<1>2. ASSUME NEW a \in Actors, NEW s \in act[a].rows, PatchRow(a, s)
      PROVE  [Entitlement!Next]_(Entitlement!vars)
  <2>1. /\ act[a].pc = "patch" /\ act[a].rows \in SUBSET Listing
        /\ act[a].desired \in Nat /\ kind' = kind
    BY <1>2 DEF PatchRow, IInv, TypeOK, Actor
  <2>2. Listed(s) /\ Delta(s, act[a].desired) > 0 /\ s \in Listing
    BY <2>1 DEF IInv, ListingsHold
  <2>3. CASE UNCHANGED row
    BY <1>1, <2>1, <2>3
  <2>4. CASE \/ Revive(s, act[a].desired)
             \/ Raise(s, act[a].desired)
             \/ s.row.status \in Live /\ TopUp(s, act[a].desired)
    BY <2>1, <2>2, <2>4, PatchMaps DEF Entitlement!Next
  <2> QED BY <1>2, <2>3, <2>4 DEF PatchRow, Live
<1>3. ASSUME NEW a \in Callers, Deliver(a)
      PROVE  [Entitlement!Next]_(Entitlement!vars)
  BY <1>3, DeliverMaps DEF Entitlement!Next
<1>4. ASSUME NEW i \in Ids,
             Claim(i) \/ FailSend(i) \/ Sign(i) \/ Send(i) \/ MarkPaid(i) \/ Retire(i)
      PROVE  [Entitlement!Next]_(Entitlement!vars)
  BY <1>4, WorkerActionsMap
<1>5. CASE UNCHANGED vars
  BY <1>1, <1>5 DEF vars
<1>6. CASE \/ \E a \in Callers, order \in Orders \cup {NoOrder}, answer \in Answers :
                Ask(a, order, answer)
           \/ \E answer \in Answers : Look(answer)
           \/ \E o \in Orders, answer \in Answers : Recheck(o, answer)
           \/ \E o \in Orders : PassDeadline(o)
           \/ \E a \in Actors : ListStatus(a) \/ Abort(a)
           \/ ClearStakeRecheck
           \/ \E bps \in OperatorBases : SetOperatorBase(bps)
           \/ Stake \/ Crash
  <2>1. kind' = kind /\ row' = row
    BY <1>6 DEF Ask, Look, Recheck, PassDeadline, ListStatus, Abort, ClearStakeRecheck,
       SetOperatorBase, Stake, Crash
  <2> QED BY <1>1, <2>1
<1> QED BY <1>2, <1>3, <1>4, <1>5, <1>6 DEF Next

\* However many deliveries, pages and passes reconcile the same rows at once,
\* what an order pays is fixed once and raised at most once, and never for an
\* order bought with a code (db/cashback.go enqueueCashbackOnFulfill and
\* ReconcileStakerCashback).
THEOREM StakerImplementsEntitlement == Spec => ImplementsEntitlement
<1>1. IInv /\ IInv' /\ [Next]_vars => [Entitlement!Next]_(Entitlement!vars)
  BY StepMaps
<1> QED BY <1>1, InitMaps, StakerInvariant, PTL DEF Spec, ImplementsEntitlement,
        Entitlement!Spec

=============================================================================
