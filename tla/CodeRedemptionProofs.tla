------------------------ MODULE CodeRedemptionProofs -------------------------
(***************************************************************************)
(* Proofs about one cashback code: the counters count the reservations and *)
(* the slots in use stay within a limit that one of them was admitted      *)
(* under, for every number of quotes and accounts and every set of rules;  *)
(* the amount held for it is the sum of the open reservations and within a *)
(* budget that one of them was admitted under.                             *)
(***************************************************************************)
EXTENDS CodeRedemption, FiniteSetTheorems, WellFoundedInduction, TLAPS

-----------------------------------------------------------------------------
(* The inductive invariant.                                                *)

\* The request, the quote and its reservation are written together.
Linked ==
  \A q \in Quotes :
    /\ res[q] = NoReservation <=> status[q] = "absent"
    /\ checkout[q].at = "made" <=> status[q] # "absent"
    /\ checkout[q].at \in {"looked", "made"} => checkout[q].user \in Users
    /\ res[q] # NoReservation => (res[q].committed => res[q].settled)

\* UsesWithinLimit alone does not survive a release: the slots that remain may
\* be those admitted under the smaller limit.  Every set of slots has a member
\* whose limit covers it.
EverySetWithin ==
  \A S \in SUBSET Slots :
    S # {} => \E q \in S : LET limit == checkout[q].limits.total IN
                limit = 0 \/ Cardinality(S) <= limit

IInv == TypeOK /\ Linked /\ SlotsAreCounted /\ SlotsFollowQuotes /\ EverySetWithin

-----------------------------------------------------------------------------
(* Facts about the sets of slots.                                          *)

LEMMA SlotSets ==
  /\ Open \subseteq Quotes /\ Redeemed \subseteq Quotes
  /\ IsFiniteSet(Open) /\ IsFiniteSet(Redeemed)
  /\ Cardinality(Open) \in Nat /\ Cardinality(Redeemed) \in Nat
<1>1. Open \subseteq Quotes /\ Redeemed \subseteq Quotes
  BY DEF Open, Redeemed
<1>2. IsFiniteSet(Open) /\ IsFiniteSet(Redeemed)
  BY <1>1, FS_Subset, RedemptionAssumption
<1> QED BY <1>1, <1>2, FS_CardinalityType

\* Open and redeemed slots are different slots, so the counter adds up.
LEMMA SlotCount ==
  ASSUME TypeOK, Linked, SlotsAreCounted
  PROVE  /\ Open \cap Redeemed = {}
         /\ IsFiniteSet(Slots)
         /\ Cardinality(Slots) = InFlight(counter)
<1>1. Open \cap Redeemed = {}
  BY DEF Open, Redeemed, Linked
<1>2. /\ IsFiniteSet(Slots)
      /\ Cardinality(Slots) = Cardinality(Open) + Cardinality(Redeemed)
                              - Cardinality(Open \cap Redeemed)
  BY SlotSets, FS_Union DEF Slots
<1>3. Cardinality(Open \cap Redeemed) = 0
  BY <1>1, FS_EmptySet
<1> QED BY <1>1, <1>2, <1>3, SlotSets DEF SlotsAreCounted, InFlight

\* A step that leaves the reservations and the limits of their requests alone
\* leaves every statement about slots alone.
LEMMA SlotsUnchanged ==
  ASSUME TypeOK, Linked, SlotsAreCounted, EverySetWithin,
         res' = res, counter' = counter,
         \A q \in Slots : checkout'[q] = checkout[q]
  PROVE  SlotsAreCounted' /\ EverySetWithin' /\ Slots' = Slots
<1>1. Open' = Open /\ Redeemed' = Redeemed /\ Slots' = Slots
  BY DEF Open, Redeemed, Slots
<1>2. SlotsAreCounted'
  BY <1>1 DEF SlotsAreCounted
<1>3. EverySetWithin'
  BY <1>1 DEF EverySetWithin
<1> QED BY <1>1, <1>2, <1>3

-----------------------------------------------------------------------------
(* The initial states.                                                     *)

LEMMA RedemptionInit == Init => IInv
<1> SUFFICES ASSUME Init PROVE IInv
  OBVIOUS
<1>1. TypeOK
  BY DEF Init, TypeOK, CodeLimits
<1>2. Linked
  BY DEF Init, Linked
<1>3. Open = {} /\ Redeemed = {} /\ Slots = {}
  BY DEF Init, Open, Redeemed, Slots
<1>4. SlotsAreCounted /\ SlotsFollowQuotes /\ EverySetWithin
  BY <1>3, FS_EmptySet DEF Init, SlotsAreCounted, SlotsFollowQuotes, EverySetWithin
<1> QED BY <1>1, <1>2, <1>4 DEF IInv

-----------------------------------------------------------------------------
(* Look-ups and reservations.                                              *)

LEMMA LookUpKeeps ==
  ASSUME IInv, NEW q \in Quotes, NEW u \in Users, LookUp(q, u)
  PROVE  IInv'
<1> USE DEF IInv
<1>1. checkout[q].at = "new" /\ res[q] = NoReservation
  BY DEF LookUp, Linked
<1>2. TypeOK'
  BY DEF TypeOK, LookUp
<1>3. Linked'
  BY <1>1 DEF LookUp, Linked, TypeOK
<1>4. \A p \in Slots : checkout'[p] = checkout[p]
  BY <1>1 DEF LookUp, TypeOK, Slots, Open, Redeemed
<1>5. SlotsAreCounted' /\ EverySetWithin'
  BY <1>4, SlotsUnchanged DEF LookUp
<1>6. SlotsFollowQuotes'
  BY DEF LookUp, SlotsFollowQuotes, Open, Redeemed
<1> QED BY <1>2, <1>3, <1>5, <1>6

LEMMA ReserveKeeps ==
  ASSUME IInv, NEW q \in Quotes, NEW estimate \in Estimates,
         ReserveCodeRedemption(q, estimate)
  PROVE  IInv'
<1> USE DEF IInv
<1> DEFINE limits == checkout[q].limits
           u == checkout[q].user
<1>1. /\ checkout[q].at = "looked" /\ u \in Users /\ limits \in CodeLimits
      /\ res[q] = NoReservation /\ status[q] = "absent"
  BY DEF ReserveCodeRedemption, Linked, TypeOK
<1>2. CASE /\ ~Admits(limits, u, estimate)
           /\ checkout' = [checkout EXCEPT ![q].at = "refused"]
           /\ UNCHANGED <<status, counter, use, res>>
  <2>1. TypeOK'
    BY <1>2 DEF TypeOK, ReserveCodeRedemption
  <2>2. Linked'
    BY <1>1, <1>2 DEF Linked, TypeOK
  <2>3. \A p \in Slots : checkout'[p] = checkout[p]
    BY <1>1, <1>2 DEF TypeOK, Slots, Open, Redeemed
  <2>4. SlotsAreCounted' /\ EverySetWithin'
    BY <1>2, <2>3, SlotsUnchanged
  <2>5. SlotsFollowQuotes'
    BY <1>2 DEF SlotsFollowQuotes, Open, Redeemed
  <2> QED BY <2>1, <2>2, <2>4, <2>5
<1>3. CASE
      /\ Admits(limits, u, estimate)
      /\ checkout' = [checkout EXCEPT ![q].at = "made"]
      /\ status' = [status EXCEPT ![q] = "order_creating"]
      /\ counter' = [counter EXCEPT !.reserved = @ + 1, !.held = @ + estimate]
      /\ use' = IF limits.user > 0 THEN [use EXCEPT ![u].reserved = @ + 1] ELSE use
      /\ res' = [res EXCEPT ![q] = [amount |-> estimate, settled |-> FALSE,
                                    committed |-> FALSE]]
  <2> DEFINE new == [amount |-> estimate, settled |-> FALSE, committed |-> FALSE]
  <2>1. new \in CodeReservation /\ estimate \in Nat /\ new # NoReservation
    <3>1. estimate \in Nat
      BY RedemptionAssumption
    <3>2. new \in CodeReservation
      BY <3>1 DEF CodeReservation
    <3> QED BY <3>1, <3>2, RedemptionMarkersAssumption
  <2>2. TypeOK'
    <3>1. use' \in [Users -> [committed : Nat, reserved : Nat]]
      BY <1>1, <1>3 DEF TypeOK
    <3>2. counter' \in [committed : Nat, reserved : Nat, paid : Nat, held : Nat]
      <4>1. counter.reserved + 1 \in Nat /\ counter.held + estimate \in Nat
        BY <2>1 DEF TypeOK
      <4> QED BY <1>3, <4>1 DEF TypeOK
    <3>3. /\ status' \in [Quotes -> QuoteStatuses \cup {"absent"}]
          /\ res' \in [Quotes -> CodeReservation \cup {NoReservation}]
      BY <1>3, <2>1 DEF TypeOK, QuoteStatuses
    <3>4. checkout' \in [Quotes -> [at : {"new", "looked", "made", "refused"},
                                    user : Users \cup {Nobody}, limits : CodeLimits]]
      BY <1>3 DEF TypeOK
    <3> QED BY <3>1, <3>2, <3>3, <3>4 DEF TypeOK, ReserveCodeRedemption
  <2>3. Linked'
    BY <1>1, <1>3, <2>1 DEF Linked, TypeOK
  <2>4. Open' = Open \cup {q} /\ Redeemed' = Redeemed /\ q \notin Slots
    BY <1>1, <1>3, <2>1 DEF Open, Redeemed, Slots, TypeOK
  <2>5. SlotsAreCounted'
    <3>1. Cardinality(Open') = Cardinality(Open) + 1
      BY <2>4, SlotSets, FS_AddElement DEF Slots
    <3> QED BY <3>1, <2>4, <1>3, SlotSets DEF SlotsAreCounted, TypeOK
  <2>6. SlotsFollowQuotes'
    BY <2>4, <1>3 DEF SlotsFollowQuotes, TypeOK, Slots, Settled
  <2>7. \A p \in Quotes : checkout'[p].limits = checkout[p].limits
    BY <1>3 DEF TypeOK
  <2>8. limits.total = 0 \/ Cardinality(Slots) < limits.total
    <3>1. limits.total \in Nat
      BY <1>1, RedemptionAssumption DEF CodeLimits
    <3> QED BY <1>3, <3>1, SlotCount DEF Admits
  <2>9. EverySetWithin'
    <3> SUFFICES ASSUME NEW S \in SUBSET Slots', S # {}
                 PROVE  \E p \in S : \/ checkout'[p].limits.total = 0
                                     \/ Cardinality(S) <= checkout'[p].limits.total
      BY DEF EverySetWithin
    <3>1. Slots' = Slots \cup {q} /\ Slots' \subseteq Quotes
      BY <2>4 DEF Slots, Open, Redeemed
    <3>2. CASE q \in S
      <4>1. /\ IsFiniteSet(Slots) /\ Cardinality(Slots) \in Nat
            /\ IsFiniteSet(Slots') /\ Cardinality(Slots') = Cardinality(Slots) + 1
        BY <3>1, <2>4, SlotCount, FS_AddElement, FS_CardinalityType
      <4>2. Cardinality(S) <= Cardinality(Slots) + 1 /\ Cardinality(S) \in Nat
        BY <4>1, FS_Subset, FS_CardinalityType
      <4>3. limits.total \in Nat
        BY <1>1, RedemptionAssumption DEF CodeLimits
      <4>4. limits.total = 0 \/ Cardinality(S) <= limits.total
        BY <2>8, <4>1, <4>2, <4>3
      <4> QED BY <3>2, <4>4, <2>7
    <3>3. CASE q \notin S
      <4>1. S \in SUBSET Slots
        BY <3>1, <3>3
      <4> QED BY <4>1, <3>1, <2>7 DEF EverySetWithin
    <3> QED BY <3>2, <3>3
  <2> QED BY <2>2, <2>3, <2>5, <2>6, <2>9
<1> QED BY <1>2, <1>3 DEF ReserveCodeRedemption

-----------------------------------------------------------------------------
(* A reservation follows its quote.                                        *)

LEMMA SettlesType ==
  ASSUME TypeOK, NEW q \in Quotes, res[q] \in CodeReservation,
         checkout[q].user \in Users,
         NEW commit \in BOOLEAN, NEW usd \in Nat,
         Settles(q, commit, usd, res[q].amount)
  PROVE  /\ counter' \in [committed : Nat, reserved : Nat, paid : Nat, held : Nat]
         /\ use' \in [Users -> [committed : Nat, reserved : Nat]]
         /\ res' \in [Quotes -> CodeReservation \cup {NoReservation}]
<1>1. \A n \in Int : AtLeastZero(n) \in Nat
  BY DEF AtLeastZero
<1>2. One(commit) \in {0, 1} /\ One(commit) * usd \in Nat
  <2>1. CASE commit
    BY <2>1 DEF One
  <2>2. CASE ~commit
    BY <2>2 DEF One
  <2> QED BY <2>1, <2>2
<1>3. res[q].amount \in Nat
  BY DEF CodeReservation
<1>4. counter' \in [committed : Nat, reserved : Nat, paid : Nat, held : Nat]
  <2>1. /\ counter.committed + One(commit) \in Nat
        /\ counter.paid + One(commit) * usd \in Nat
    BY <1>2 DEF TypeOK
  <2>2. /\ AtLeastZero(counter.reserved - 1) \in Nat
        /\ AtLeastZero(counter.held - res[q].amount) \in Nat
    BY <1>1, <1>3 DEF TypeOK
  <2> QED BY <2>1, <2>2 DEF Settles
<1>5. use' \in [Users -> [committed : Nat, reserved : Nat]]
  <2> DEFINE u == checkout[q].user
  <2>1. use[u].committed \in Nat /\ use[u].reserved \in Nat
    BY DEF TypeOK
  <2>2. /\ use[u].committed + One(commit) \in Nat
        /\ AtLeastZero(use[u].reserved - 1) \in Nat
    BY <1>1, <1>2, <2>1
  <2> QED BY <2>2 DEF Settles, TypeOK
<1>6. res' \in [Quotes -> CodeReservation \cup {NoReservation}]
  <2>1. [amount |-> 0, settled |-> TRUE, committed |-> commit] \in CodeReservation
    BY DEF CodeReservation
  <2> QED BY <2>1 DEF Settles, TypeOK
<1> QED BY <1>4, <1>5, <1>6

\* What a move does to the sets of slots, and that the counters follow.
LEMMA MoveEffect ==
  ASSUME IInv, NEW q \in Quotes, res[q] \in CodeReservation,
         checkout[q].user \in Users,
         NEW commit \in BOOLEAN, NEW usd \in Nat,
         MoveCodeReservation(q, commit, usd)
  PROVE  /\ counter' \in [committed : Nat, reserved : Nat, paid : Nat, held : Nat]
         /\ use' \in [Users -> [committed : Nat, reserved : Nat]]
         /\ res' \in [Quotes -> CodeReservation \cup {NoReservation}]
         /\ \A p \in Quotes :
              /\ res'[p] = NoReservation <=> res[p] = NoReservation
              /\ res'[p] # NoReservation => (res'[p].committed => res'[p].settled)
         /\ Open' = Open \ {q}
         /\ Redeemed' = IF commit /\ q \in Open THEN Redeemed \cup {q} ELSE Redeemed
         /\ SlotsAreCounted'
<1> USE DEF IInv
<1> DEFINE gone == [amount |-> 0, settled |-> TRUE, committed |-> commit]
<1>1. CASE res[q].settled
  <2>1. UNCHANGED <<counter, use, res>>
    BY <1>1 DEF MoveCodeReservation
  <2>2. q \notin Open
    BY <1>1 DEF Open
  <2>3. Open' = Open /\ Redeemed' = Redeemed
    BY <2>1 DEF Open, Redeemed
  <2>4. SlotsAreCounted'
    BY <2>1, <2>3 DEF SlotsAreCounted
  <2> QED BY <2>1, <2>2, <2>3, <2>4 DEF TypeOK, Linked
<1>2. CASE ~res[q].settled
  <2>1. Settles(q, commit, usd, res[q].amount)
    BY <1>2 DEF MoveCodeReservation
  <2>2. /\ res' = [res EXCEPT ![q] = gone]
        /\ counter'.committed = counter.committed + One(commit)
        /\ counter'.reserved = AtLeastZero(counter.reserved - 1)
    BY <2>1 DEF Settles
  <2>3. gone \in CodeReservation /\ gone # NoReservation
    <3>1. gone \in CodeReservation
      BY DEF CodeReservation
    <3> QED BY <3>1, RedemptionMarkersAssumption
  <2>4. res[q] # NoReservation
    BY RedemptionMarkersAssumption
  <2>5. q \in Open /\ q \notin Redeemed
    BY <1>2, <2>4 DEF Open, Redeemed, Linked
  <2>6. res'[q] = gone /\ \A p \in Quotes \ {q} : res'[p] = res[p]
    BY <2>2 DEF TypeOK
  <2>7. Open' = Open \ {q}
    BY <2>6 DEF Open
  <2>8. Redeemed' = IF commit THEN Redeemed \cup {q} ELSE Redeemed
    <3>1. q \in Redeemed' <=> commit
      BY <2>3, <2>6 DEF Redeemed
    <3>2. \A p \in Quotes \ {q} : p \in Redeemed' <=> p \in Redeemed
      BY <2>6 DEF Redeemed
    <3>3. Redeemed' \subseteq Quotes
      BY DEF Redeemed
    <3> QED BY <3>1, <3>2, <3>3, <2>5, SlotSets
  <2>9. SlotsAreCounted'
    <3>1. Cardinality(Open') = Cardinality(Open) - 1
      BY <2>5, <2>7, SlotSets, FS_RemoveElement
    <3>2. Cardinality(Open') \in Nat
      BY <2>7, SlotSets, FS_RemoveElement, FS_CardinalityType
    <3>3. counter'.reserved = Cardinality(Open')
      BY <3>1, <3>2, <2>2, SlotSets DEF SlotsAreCounted, AtLeastZero
    <3>4. Cardinality(Redeemed') = Cardinality(Redeemed) + One(commit)
      <4>1. CASE commit
        BY <4>1, <2>5, <2>8, SlotSets, FS_AddElement DEF One
      <4>2. CASE ~commit
        BY <4>2, <2>8, SlotSets DEF One
      <4> QED BY <4>1, <4>2
    <3> QED BY <3>3, <3>4, <2>2 DEF SlotsAreCounted
  <2>10. \A p \in Quotes :
           /\ res'[p] = NoReservation <=> res[p] = NoReservation
           /\ res'[p] # NoReservation => (res'[p].committed => res'[p].settled)
    BY <2>3, <2>4, <2>6 DEF Linked
  <2> QED BY <2>1, <2>5, <2>7, <2>8, <2>9, <2>10, SettlesType
<1> QED BY <1>1, <1>2

\* Fewer slots under the same limits stay covered.
LEMMA WithinSubset ==
  ASSUME EverySetWithin, UNCHANGED checkout, Slots' \subseteq Slots
  PROVE  EverySetWithin'
BY DEF EverySetWithin

\* The parts of the invariant a move establishes by itself.
LEMMA TransitionTypes ==
  ASSUME IInv, NEW q \in Quotes, NEW to \in QuoteStatuses, TransitionQuote(q, to),
         counter' \in [committed : Nat, reserved : Nat, paid : Nat, held : Nat],
         use' \in [Users -> [committed : Nat, reserved : Nat]],
         res' \in [Quotes -> CodeReservation \cup {NoReservation}],
         row' \in [Quotes -> Nat \cup {NoRow}],
         status[q] # "absent",
         \A p \in Quotes :
              /\ res'[p] = NoReservation <=> res[p] = NoReservation
              /\ res'[p] # NoReservation => (res'[p].committed => res'[p].settled)
  PROVE  TypeOK' /\ Linked'
<1>1. status' = [status EXCEPT ![q] = to] /\ UNCHANGED <<policy, ended, checkout>>
  BY DEF TransitionQuote
<1>2. TypeOK'
  BY <1>1 DEF IInv, TypeOK
<1>3. to # "absent"
  BY DEF QuoteStatuses
<1>4. Linked'
  BY <1>1, <1>3 DEF IInv, TypeOK, Linked
<1> QED BY <1>2, <1>4

LEMMA TransitionKeeps ==
  ASSUME IInv, NEW q \in Quotes, NEW to \in QuoteStatuses, TransitionQuote(q, to)
  PROVE  IInv'
<1>1. status[q] # "absent" /\ (status[q] \in Settled => to = "refunded")
  BY DEF TransitionQuote, CanTransition, quoteTransitions, Settled, QuoteStatuses,
         IInv, TypeOK
<1>2. res[q] \in CodeReservation /\ checkout[q].user \in Users
  BY <1>1 DEF IInv, TypeOK, Linked
<1>3. /\ status' = [status EXCEPT ![q] = to] /\ UNCHANGED <<policy, ended, checkout>>
      /\ \A p \in Quotes : status'[p] = IF p = q THEN to ELSE status[p]
  BY DEF TransitionQuote, IInv, TypeOK
<1>4. CASE /\ to = "fulfilled"
           /\ MoveCodeReservation(q, TRUE, CashbackUSDForQuote(q))
           /\ IF row[q] = NoRow
              THEN \E usd \in Payouts : row' = [row EXCEPT ![q] = usd]
              ELSE UNCHANGED row
  <2>1. CashbackUSDForQuote(q) \in Nat
    BY DEF CashbackUSDForQuote, IInv, TypeOK
  <2>2. row' \in [Quotes -> Nat \cup {NoRow}]
    BY <1>4, RedemptionAssumption DEF IInv, TypeOK
  <2>3. /\ Open' = Open \ {q}
        /\ Redeemed' = IF q \in Open THEN Redeemed \cup {q} ELSE Redeemed
        /\ SlotsAreCounted' /\ TypeOK' /\ Linked'
    BY <1>1, <1>2, <1>4, <2>1, <2>2, MoveEffect, TransitionTypes
  <2>4. Slots' \subseteq Slots
    BY <2>3 DEF Slots
  <2>5. SlotsFollowQuotes'
    BY <1>3, <1>4, <2>3 DEF IInv, SlotsFollowQuotes, Settled
  <2> QED BY <1>3, <2>3, <2>4, <2>5, WithinSubset DEF IInv
<1>5. CASE EndsUnpaid(to) /\ MoveCodeReservation(q, FALSE, 0) /\ UNCHANGED row
  <2>1. row' \in [Quotes -> Nat \cup {NoRow}]
    BY <1>5 DEF IInv, TypeOK
  <2>2. /\ Open' = Open \ {q} /\ Redeemed' = Redeemed
        /\ SlotsAreCounted' /\ TypeOK' /\ Linked'
    BY <1>1, <1>2, <1>5, <2>1, MoveEffect, TransitionTypes
  <2>3. Slots' \subseteq Slots
    BY <2>2 DEF Slots
  <2>4. SlotsFollowQuotes'
    BY <1>1, <1>3, <2>2 DEF IInv, SlotsFollowQuotes, Settled
  <2> QED BY <1>3, <2>2, <2>3, <2>4, WithinSubset DEF IInv
<1>6. CASE to # "fulfilled" /\ ~EndsUnpaid(to) /\ UNCHANGED <<counter, use, res, row>>
  <2>1. TypeOK' /\ Linked'
    BY <1>1, <1>6, TransitionTypes DEF IInv, TypeOK, Linked
  <2>2. SlotsAreCounted' /\ EverySetWithin' /\ Open' = Open /\ Redeemed' = Redeemed
    BY <1>3, <1>6, SlotsUnchanged DEF IInv, Open, Redeemed
  <2>3. to \notin Settled \cup {"expired", "failed"}
    BY <1>6 DEF EndsUnpaid, Settled
  <2>4. SlotsFollowQuotes'
    BY <1>1, <1>3, <2>2, <2>3 DEF IInv, SlotsFollowQuotes, Settled
  <2> QED BY <2>1, <2>2, <2>4 DEF IInv
<1> QED BY <1>4, <1>5, <1>6 DEF TransitionQuote

-----------------------------------------------------------------------------
(* The theorems.                                                           *)

LEMMA RedemptionStep == IInv /\ [Next]_vars => IInv'
<1> SUFFICES ASSUME IInv, [Next]_vars PROVE IInv'
  OBVIOUS
<1>1. ASSUME NEW q \in Quotes, NEW u \in Users, LookUp(q, u) PROVE IInv'
  BY <1>1, LookUpKeeps
<1>2. ASSUME NEW q \in Quotes, NEW estimate \in Estimates,
             ReserveCodeRedemption(q, estimate) PROVE IInv'
  BY <1>2, ReserveKeeps
<1>3. ASSUME NEW q \in Quotes, NEW to \in QuoteStatuses, TransitionQuote(q, to)
      PROVE IInv'
  BY <1>3, TransitionKeeps
<1>4. CASE ChangePolicy \/ End \/ UNCHANGED vars
  <2>1. UNCHANGED <<checkout, status, counter, use, res, row>>
    BY <1>4 DEF ChangePolicy, End, vars
  <2>2. policy' \in CodeLimits /\ ended' \in BOOLEAN
    BY <1>4 DEF ChangePolicy, End, vars, IInv, TypeOK
  <2>3. TypeOK' /\ Linked'
    BY <2>1, <2>2 DEF IInv, TypeOK, Linked
  <2>4. SlotsAreCounted' /\ EverySetWithin'
    BY <2>1, SlotsUnchanged DEF IInv
  <2>5. SlotsFollowQuotes'
    BY <2>1 DEF IInv, SlotsFollowQuotes, Open, Redeemed
  <2> QED BY <2>3, <2>4, <2>5 DEF IInv
<1> QED BY <1>1, <1>2, <1>3, <1>4 DEF Next

THEOREM RedemptionInvariant == Spec => []IInv
BY RedemptionInit, RedemptionStep, PTL DEF Spec

\* Requests, reservations, counters and rows stay well typed.
THEOREM RedemptionTypeOK == Spec => []TypeOK
<1>1. IInv => TypeOK
  BY DEF IInv
<1> QED BY <1>1, RedemptionInvariant, PTL

\* The counters count the reservations, however often and in whatever order the
\* quotes end.
THEOREM RedemptionSlotsAreCounted == Spec => []SlotsAreCounted
<1>1. IInv => SlotsAreCounted
  BY DEF IInv
<1> QED BY <1>1, RedemptionInvariant, PTL

\* An ended quote holds no slot; only a delivered one has used it up.
THEOREM RedemptionSlotsFollowQuotes == Spec => []SlotsFollowQuotes
<1>1. IInv => SlotsFollowQuotes
  BY DEF IInv
<1> QED BY <1>1, RedemptionInvariant, PTL

\* The slots in use stay within a limit that one of them was admitted under,
\* through every interleaving of look-ups, orders, deliveries and edits.
THEOREM RedemptionUsesWithinLimit == Spec => []UsesWithinLimit
<1>1. IInv => UsesWithinLimit
  BY DEF IInv, EverySetWithin, UsesWithinLimit
<1> QED BY <1>1, RedemptionInvariant, PTL

-----------------------------------------------------------------------------
(* One account, while every rule an operator may set limits accounts (an    *)
(* order made under a rule that does not is never counted for its account). *)

OpenOf(u) == {q \in Open : checkout[q].user = u}
RedeemedOf(u) == {q \in Redeemed : checkout[q].user = u}

UseCounted ==
  \A u \in Users : /\ use[u].reserved = Cardinality(OpenOf(u))
                   /\ use[u].committed = Cardinality(RedeemedOf(u))

EverySetWithinOne ==
  \A u \in Users : \A S \in SUBSET SlotsOf(u) :
    S # {} => \E q \in S : Cardinality(S) <= checkout[q].limits.user

AccountInv == 0 \notin UserLimits /\ IInv /\ UseCounted /\ EverySetWithinOne

LEMMA AccountSets ==
  ASSUME NEW u
  PROVE  /\ OpenOf(u) \subseteq Open /\ RedeemedOf(u) \subseteq Redeemed
         /\ IsFiniteSet(OpenOf(u)) /\ IsFiniteSet(RedeemedOf(u))
         /\ Cardinality(OpenOf(u)) \in Nat /\ Cardinality(RedeemedOf(u)) \in Nat
         /\ SlotsOf(u) = OpenOf(u) \cup RedeemedOf(u)
<1>1. OpenOf(u) \subseteq Open /\ RedeemedOf(u) \subseteq Redeemed
  BY DEF OpenOf, RedeemedOf
<1>2. IsFiniteSet(OpenOf(u)) /\ IsFiniteSet(RedeemedOf(u))
  BY <1>1, SlotSets, FS_Subset
<1>3. SlotsOf(u) = OpenOf(u) \cup RedeemedOf(u)
  BY DEF SlotsOf, Slots, OpenOf, RedeemedOf
<1> QED BY <1>1, <1>2, <1>3, FS_CardinalityType

LEMMA AccountCount ==
  ASSUME AccountInv, NEW u \in Users
  PROVE  /\ IsFiniteSet(SlotsOf(u))
         /\ Cardinality(SlotsOf(u)) = InFlight(use[u])
<1>1. OpenOf(u) \cap RedeemedOf(u) = {}
  BY SlotCount, AccountSets DEF AccountInv, IInv
<1>2. /\ IsFiniteSet(SlotsOf(u))
      /\ Cardinality(SlotsOf(u)) =
           Cardinality(OpenOf(u)) + Cardinality(RedeemedOf(u))
           - Cardinality(OpenOf(u) \cap RedeemedOf(u))
  BY AccountSets, FS_Union
<1>3. Cardinality(OpenOf(u) \cap RedeemedOf(u)) = 0
  BY <1>1, FS_EmptySet
<1> QED BY <1>2, <1>3, AccountSets DEF AccountInv, UseCounted, InFlight

\* A step that moves no slot and no account's counter.
LEMMA AccountUnchanged ==
  ASSUME AccountInv, UNCHANGED <<use, res>>,
         \A q \in Slots : checkout'[q] = checkout[q]
  PROVE  UseCounted' /\ EverySetWithinOne'
<1>1. Open' = Open /\ Redeemed' = Redeemed /\ Slots' = Slots
  BY DEF Open, Redeemed, Slots
<1>2. \A u \in Users : /\ OpenOf(u)' = OpenOf(u) /\ RedeemedOf(u)' = RedeemedOf(u)
                       /\ SlotsOf(u)' = SlotsOf(u)
  BY <1>1 DEF OpenOf, RedeemedOf, SlotsOf, Slots
<1>3. UseCounted'
  BY <1>2 DEF AccountInv, UseCounted
<1>4. EverySetWithinOne'
  BY <1>2 DEF AccountInv, EverySetWithinOne, SlotsOf
<1> QED BY <1>3, <1>4

LEMMA AccountReserve ==
  ASSUME AccountInv, IInv',
         NEW q \in Quotes, NEW estimate \in Estimates,
         ReserveCodeRedemption(q, estimate)
  PROVE  UseCounted' /\ EverySetWithinOne'
<1> DEFINE limits == checkout[q].limits
           u == checkout[q].user
<1>1. /\ checkout[q].at = "looked" /\ u \in Users /\ limits \in CodeLimits
      /\ res[q] = NoReservation
  BY DEF ReserveCodeRedemption, Linked, TypeOK, AccountInv, IInv
<1>2. limits.user \in Nat /\ limits.user > 0
  <2>1. limits.user \in UserLimits
    BY <1>1 DEF CodeLimits
  <2>2. UserLimits \subseteq Nat /\ 0 \notin UserLimits
    BY RedemptionAssumption DEF AccountInv
  <2>3. \A n \in UserLimits : n \in Nat /\ n > 0
    <3> SUFFICES ASSUME NEW n \in UserLimits PROVE n \in Nat /\ n > 0
      OBVIOUS
    <3>1. n \in Nat /\ n # 0
      BY <2>2
    <3> QED BY <3>1
  <2> QED BY <2>1, <2>3
<1>3. CASE ~Admits(limits, u, estimate)
  <2>1. /\ UNCHANGED <<use, res>>
        /\ checkout' = [checkout EXCEPT ![q].at = "refused"]
    BY <1>3 DEF ReserveCodeRedemption
  <2>2. \A p \in Slots : checkout'[p] = checkout[p]
    BY <1>1, <2>1 DEF AccountInv, IInv, TypeOK, Slots, Open, Redeemed
  <2> QED BY <2>1, <2>2, AccountUnchanged
<1>4. CASE Admits(limits, u, estimate)
  <2> DEFINE new == [amount |-> estimate, settled |-> FALSE, committed |-> FALSE]
  <2>1. /\ checkout' = [checkout EXCEPT ![q].at = "made"]
        /\ use' = [use EXCEPT ![u].reserved = @ + 1]
        /\ res' = [res EXCEPT ![q] = new]
    BY <1>2, <1>4 DEF ReserveCodeRedemption
  <2>2. new # NoReservation
    <3>1. new \in CodeReservation
      BY RedemptionAssumption DEF CodeReservation
    <3> QED BY <3>1, RedemptionMarkersAssumption
  <2>3. Open' = Open \cup {q} /\ Redeemed' = Redeemed /\ q \notin Slots
    BY <1>1, <2>1, <2>2 DEF Open, Redeemed, Slots, TypeOK, AccountInv, IInv
  <2>4. \A p \in Quotes : /\ checkout'[p].user = checkout[p].user
                          /\ checkout'[p].limits = checkout[p].limits
    BY <2>1 DEF AccountInv, IInv, TypeOK
  <2>5. \A v \in Users : /\ OpenOf(v)' = IF v = u THEN OpenOf(v) \cup {q} ELSE OpenOf(v)
                         /\ RedeemedOf(v)' = RedeemedOf(v)
    BY <2>3, <2>4, SlotSets DEF OpenOf, RedeemedOf
  <2>6. q \notin OpenOf(u) /\ q \notin SlotsOf(u)
    BY <2>3 DEF OpenOf, SlotsOf, Slots
  <2>7. UseCounted'
    <3>1. Cardinality(OpenOf(u) \cup {q}) = Cardinality(OpenOf(u)) + 1
      BY <2>6, AccountSets, FS_AddElement
    <3>2. \A v \in Users : use'[v].committed = use[v].committed
      BY <2>1 DEF AccountInv, IInv, TypeOK
    <3>3. \A v \in Users :
            use'[v].reserved = IF v = u THEN use[v].reserved + 1 ELSE use[v].reserved
      BY <2>1, <1>1 DEF AccountInv, IInv, TypeOK
    <3> QED BY <3>1, <3>2, <3>3, <2>5 DEF AccountInv, UseCounted
  <2>8. EverySetWithinOne'
    <3> SUFFICES ASSUME NEW v \in Users, NEW S \in SUBSET SlotsOf(v)', S # {}
                 PROVE  \E p \in S : Cardinality(S) <= checkout'[p].limits.user
      BY DEF EverySetWithinOne
    <3>1. /\ SlotsOf(v)' = OpenOf(v)' \cup RedeemedOf(v)'
          /\ SlotsOf(v) = OpenOf(v) \cup RedeemedOf(v)
      BY AccountSets DEF SlotsOf, Slots, OpenOf, RedeemedOf
    <3>2. SlotsOf(v) \subseteq Quotes
      BY SlotSets DEF SlotsOf, Slots
    <3>3. CASE v = u /\ q \in S
      <4>1. SlotsOf(v)' = SlotsOf(u) \cup {q}
        BY <3>1, <3>3, <2>5
      <4>2. Cardinality(SlotsOf(u)) < limits.user
        BY <1>2, <1>4, <1>1, AccountCount DEF Admits
      <4>3. /\ IsFiniteSet(SlotsOf(u) \cup {q})
            /\ Cardinality(SlotsOf(u) \cup {q}) = Cardinality(SlotsOf(u)) + 1
            /\ Cardinality(SlotsOf(u)) \in Nat
        BY <1>1, <2>6, AccountCount, FS_AddElement, FS_CardinalityType
      <4>4. Cardinality(S) <= Cardinality(SlotsOf(u)) + 1 /\ Cardinality(S) \in Nat
        BY <4>1, <4>3, FS_Subset, FS_CardinalityType
      <4>5. Cardinality(S) <= limits.user
        BY <4>2, <4>3, <4>4, <1>2
      <4> QED BY <4>5, <3>3, <2>4
    <3>4. CASE ~(v = u /\ q \in S)
      <4>1. S \in SUBSET SlotsOf(v)
        BY <3>1, <3>4, <2>5
      <4>2. \E p \in S : Cardinality(S) <= checkout[p].limits.user
        BY <4>1 DEF AccountInv, EverySetWithinOne
      <4> QED BY <4>1, <4>2, <3>2, <2>4
    <3> QED BY <3>3, <3>4
  <2> QED BY <2>7, <2>8
<1> QED BY <1>3, <1>4

LEMMA AccountMove ==
  ASSUME AccountInv, NEW q \in Quotes, res[q] \in CodeReservation,
         checkout[q].user \in Users, UNCHANGED checkout,
         NEW commit \in BOOLEAN, NEW usd \in Nat,
         MoveCodeReservation(q, commit, usd)
  PROVE  UseCounted' /\ EverySetWithinOne'
<1> DEFINE u == checkout[q].user
<1>1. CASE res[q].settled
  <2>1. UNCHANGED <<use, res>>
    BY <1>1 DEF MoveCodeReservation
  <2> QED BY <2>1, AccountUnchanged
<1>2. CASE ~res[q].settled
  <2>1. use' = [use EXCEPT ![u] = [committed |-> @.committed + One(commit),
                                   reserved |-> AtLeastZero(@.reserved - 1)]]
    BY <1>2 DEF MoveCodeReservation, Settles
  <2>2. q \in Open /\ q \notin Redeemed
    BY <1>2, RedemptionMarkersAssumption DEF Open, Redeemed, AccountInv, IInv, Linked
  <2>3. /\ Open' = Open \ {q}
        /\ Redeemed' = IF commit THEN Redeemed \cup {q} ELSE Redeemed
    BY <2>2, MoveEffect DEF AccountInv
  <2>4. \A v \in Users :
          /\ OpenOf(v)' = IF v = u THEN OpenOf(v) \ {q} ELSE OpenOf(v)
          /\ RedeemedOf(v)' =
               IF v = u /\ commit THEN RedeemedOf(v) \cup {q} ELSE RedeemedOf(v)
    BY <2>3 DEF OpenOf, RedeemedOf
  <2>5. q \in OpenOf(u) /\ q \notin RedeemedOf(u)
    BY <2>2 DEF OpenOf, RedeemedOf
  <2>6. UseCounted'
    <3>1. /\ Cardinality(OpenOf(u)') = Cardinality(OpenOf(u)) - 1
          /\ Cardinality(OpenOf(u)') \in Nat
      BY <2>4, <2>5, AccountSets, FS_RemoveElement, FS_CardinalityType
    <3>2. Cardinality(RedeemedOf(u)') = Cardinality(RedeemedOf(u)) + One(commit)
      <4>1. CASE commit
        BY <4>1, <2>4, <2>5, AccountSets, FS_AddElement DEF One
      <4>2. CASE ~commit
        BY <4>2, <2>4, AccountSets DEF One
      <4> QED BY <4>1, <4>2
    <3>3. /\ use'[u].reserved = Cardinality(OpenOf(u)')
          /\ use'[u].committed = Cardinality(RedeemedOf(u)')
      <4>1. /\ use'[u].reserved = AtLeastZero(use[u].reserved - 1)
            /\ use'[u].committed = use[u].committed + One(commit)
        BY <2>1 DEF AccountInv, IInv, TypeOK
      <4> QED BY <4>1, <3>1, <3>2, AccountSets DEF AccountInv, UseCounted, AtLeastZero
    <3>4. \A v \in Users \ {u} : use'[v] = use[v]
      BY <2>1 DEF AccountInv, IInv, TypeOK
    <3>5. \A v \in Users \ {u} : OpenOf(v)' = OpenOf(v) /\ RedeemedOf(v)' = RedeemedOf(v)
      BY <2>4
    <3>6. \A v \in Users : v # u => /\ use'[v].reserved = Cardinality(OpenOf(v)')
                                   /\ use'[v].committed = Cardinality(RedeemedOf(v)')
      BY <3>4, <3>5 DEF AccountInv, UseCounted
    <3> QED BY <3>3, <3>6 DEF UseCounted
  <2>7. \A v \in Users : SlotsOf(v)' \subseteq SlotsOf(v)
    BY <2>2, <2>3 DEF SlotsOf, Slots
  <2>8. EverySetWithinOne'
    BY <2>7 DEF AccountInv, EverySetWithinOne
  <2> QED BY <2>6, <2>8
<1> QED BY <1>1, <1>2

LEMMA AccountTransition ==
  ASSUME AccountInv, NEW q \in Quotes, NEW to \in QuoteStatuses, TransitionQuote(q, to)
  PROVE  UseCounted' /\ EverySetWithinOne'
<1>1. status[q] # "absent"
  BY DEF TransitionQuote, CanTransition, quoteTransitions, AccountInv, IInv, TypeOK,
         QuoteStatuses
<1>2. res[q] \in CodeReservation /\ checkout[q].user \in Users /\ UNCHANGED checkout
  BY <1>1 DEF AccountInv, IInv, TypeOK, Linked, TransitionQuote
<1>3. CASE MoveCodeReservation(q, TRUE, CashbackUSDForQuote(q))
  <2>1. CashbackUSDForQuote(q) \in Nat
    BY DEF CashbackUSDForQuote, AccountInv, IInv, TypeOK
  <2> QED BY <1>2, <1>3, <2>1, AccountMove
<1>4. CASE MoveCodeReservation(q, FALSE, 0)
  BY <1>2, <1>4, AccountMove
<1>5. CASE UNCHANGED <<use, res>>
  BY <1>2, <1>5, AccountUnchanged
<1> QED BY <1>3, <1>4, <1>5 DEF TransitionQuote

LEMMA AccountInit == 0 \notin UserLimits /\ Init => AccountInv
<1> SUFFICES ASSUME 0 \notin UserLimits, Init PROVE AccountInv
  OBVIOUS
<1>1. Open = {} /\ Redeemed = {} /\ Slots = {}
  BY DEF Init, Open, Redeemed, Slots
<1>2. \A u \in Users : OpenOf(u) = {} /\ RedeemedOf(u) = {} /\ SlotsOf(u) = {}
  BY <1>1 DEF OpenOf, RedeemedOf, SlotsOf
<1>3. UseCounted
  BY <1>2, FS_EmptySet DEF Init, UseCounted
<1>4. EverySetWithinOne
  BY <1>2 DEF EverySetWithinOne
<1> QED BY <1>3, <1>4, RedemptionInit DEF AccountInv

LEMMA AccountStep == AccountInv /\ [Next]_vars => AccountInv'
<1> SUFFICES ASSUME AccountInv, [Next]_vars PROVE AccountInv'
  OBVIOUS
<1>1. IInv'
  BY RedemptionStep DEF AccountInv
<1>2. ASSUME NEW q \in Quotes, NEW u \in Users, LookUp(q, u)
      PROVE  UseCounted' /\ EverySetWithinOne'
  <2>1. \A p \in Slots : checkout'[p] = checkout[p]
    BY <1>2 DEF LookUp, AccountInv, IInv, TypeOK, Linked, Slots, Open, Redeemed
  <2> QED BY <1>2, <2>1, AccountUnchanged DEF LookUp
<1>3. ASSUME NEW q \in Quotes, NEW estimate \in Estimates,
             ReserveCodeRedemption(q, estimate)
      PROVE  UseCounted' /\ EverySetWithinOne'
  BY <1>1, <1>3, AccountReserve
<1>4. ASSUME NEW q \in Quotes, NEW to \in QuoteStatuses, TransitionQuote(q, to)
      PROVE  UseCounted' /\ EverySetWithinOne'
  BY <1>4, AccountTransition
<1>5. ASSUME ChangePolicy \/ End \/ UNCHANGED vars
      PROVE  UseCounted' /\ EverySetWithinOne'
  <2>1. UNCHANGED <<checkout, use, res>>
    BY <1>5 DEF ChangePolicy, End, vars
  <2> QED BY <2>1, AccountUnchanged
<1> QED BY <1>1, <1>2, <1>3, <1>4, <1>5 DEF Next, AccountInv

\* While every rule limits accounts, one account's slots stay within a limit
\* that one of its orders was admitted under, however its tabs interleave.
THEOREM RedemptionPerUserWithinLimit ==
  0 \notin UserLimits /\ Spec => []PerUserWithinLimit
<1>1. AccountInv => PerUserWithinLimit
  BY DEF AccountInv, EverySetWithinOne, PerUserWithinLimit
<1> QED BY <1>1, AccountInit, AccountStep, PTL DEF Spec

-----------------------------------------------------------------------------
(* What the open reservations hold together.  A sum over a set is defined   *)
(* by recursion; it is the number of dollars laid side by side, each with   *)
(* the quote it is held for, and a number of things needs no recursion.     *)

Total(r, S) == Sum(LAMBDA q : r[q].amount, S)
Units(r, S) == UNION {{q} \X (1 .. r[q].amount) : q \in S}

LEMMA UnitsOfOne ==
  ASSUME NEW r, NEW q, r[q].amount \in Nat
  PROVE  /\ IsFiniteSet({q} \X (1 .. r[q].amount))
         /\ Cardinality({q} \X (1 .. r[q].amount)) = r[q].amount
<1>1. IsFiniteSet(1 .. r[q].amount) /\ Cardinality(1 .. r[q].amount) = r[q].amount
  <2> SUFFICES ASSUME NEW n \in Nat PROVE IsFiniteSet(1 .. n) /\ Cardinality(1 .. n) = n
    OBVIOUS
  <2>1. /\ IsFiniteSet(1 .. n)
        /\ Cardinality(1 .. n) = IF 1 > n THEN 0 ELSE n - 1 + 1
    BY FS_Interval
  <2> QED BY <2>1
<1>2. IsFiniteSet({q}) /\ Cardinality({q}) = 1
  BY FS_Singleton
<1> DEFINE one == {q} units == 1 .. r[q].amount
<1> HIDE DEF one, units
<1>3. /\ IsFiniteSet(one \X units)
      /\ Cardinality(one \X units) = Cardinality(one) * Cardinality(units)
  BY <1>1, <1>2, FS_Product DEF one, units
<1>4. Cardinality(one) = 1 /\ Cardinality(units) = r[q].amount
  BY <1>1, <1>2 DEF one, units
<1> QED BY <1>3, <1>4 DEF one, units

LEMMA UnitsFinite ==
  ASSUME NEW r, NEW S, IsFiniteSet(S), \A q \in S : r[q].amount \in Nat
  PROVE  IsFiniteSet(Units(r, S)) /\ Cardinality(Units(r, S)) \in Nat
<1> DEFINE parts == {{q} \X (1 .. r[q].amount) : q \in S}
<1>1. \A p \in parts : IsFiniteSet(p)
  BY UnitsOfOne
<1>2. IsFiniteSet(parts)
  <2> DEFINE f == [q \in S |-> {q} \X (1 .. r[q].amount)]
  <2>1. f \in Surjection(S, parts)
    BY DEF Surjection
  <2> HIDE DEF f, parts
  <2> QED BY <2>1, FS_Surjection
<1> HIDE DEF parts
<1>3. IsFiniteSet(UNION parts)
  BY <1>1, <1>2, FS_UNION
<1> QED BY <1>3, FS_CardinalityType DEF Units, parts

LEMMA UnitsWithout ==
  ASSUME NEW r, NEW S, IsFiniteSet(S), \A q \in S : r[q].amount \in Nat, NEW x \in S
  PROVE  Cardinality(Units(r, S)) = r[x].amount + Cardinality(Units(r, S \ {x}))
<1> DEFINE rest == Units(r, S \ {x})
           mine == {x} \X (1 .. r[x].amount)
<1>1. Units(r, S) = rest \cup mine /\ rest \cap mine = {}
  BY DEF Units
<1>2. IsFiniteSet(rest) /\ Cardinality(rest) \in Nat
  <2>1. IsFiniteSet(S \ {x})
    BY FS_Subset
  <2> QED BY <2>1, UnitsFinite
<1>3. IsFiniteSet(mine) /\ Cardinality(mine) = r[x].amount
  BY UnitsOfOne
<1>4. Cardinality(rest \cap mine) = 0
  BY <1>1, FS_EmptySet
<1> HIDE DEF rest, mine
<1>5. Cardinality(rest \cup mine)
        = Cardinality(rest) + Cardinality(mine) - Cardinality(rest \cap mine)
  BY <1>2, <1>3, FS_Union
<1> QED BY <1>1, <1>2, <1>3, <1>4, <1>5 DEF rest

\* The recursion has one solution: where two solutions differ there is a least
\* set on which they do, and a smaller one decides it.
LEMMA TotalIsUnits ==
  ASSUME NEW r, NEW S, IsFiniteSet(S), \A q \in S : r[q].amount \in Nat
  PROVE  Total(r, S) = Cardinality(Units(r, S))
<1> DEFINE Recursion(it) ==
             [s \in SUBSET S |->
                IF s = {} THEN 0
                ELSE r[CHOOSE y \in s : TRUE].amount + it[s \ {CHOOSE y \in s : TRUE}]]
           units == [s \in SUBSET S |-> Cardinality(Units(r, s))]
<1>1. units = Recursion(units)
  <2> SUFFICES ASSUME NEW s \in SUBSET S PROVE units[s] = Recursion(units)[s]
    OBVIOUS
  <2>1. CASE s = {}
    <3>1. Units(r, s) = {}
      BY <2>1 DEF Units
    <3>2. Cardinality(Units(r, s)) = 0
      BY <3>1, FS_EmptySet
    <3> QED BY <2>1, <3>2
  <2>2. CASE s # {}
    <3> DEFINE x == CHOOSE y \in s : TRUE
    <3>1. x \in s
      BY <2>2
    <3>2. IsFiniteSet(s) /\ \A q \in s : r[q].amount \in Nat
      BY FS_Subset
    <3> HIDE DEF x
    <3>3. Cardinality(Units(r, s)) = r[x].amount + Cardinality(Units(r, s \ {x}))
      BY <3>1, <3>2, UnitsWithout
    <3>4. s \ {x} \in SUBSET S
      OBVIOUS
    <3> QED BY <3>3, <3>4, <2>2 DEF x
  <2> QED BY <2>1, <2>2
<1>2. ASSUME NEW g, g = Recursion(g) PROVE g = units
  <2> DEFINE bad == {s \in SUBSET S : g[s] # units[s]}
  <2>1. IsWellFoundedOn(StrictSubsetOrdering(S), SUBSET S)
    BY FS_StrictSubsetOrderingWellFounded, FS_FiniteSubsetsOfFinite
  <2>2. ASSUME bad # {} PROVE FALSE
    <3>1. PICK m \in bad : \A s \in bad : ~ (<<s, m>> \in StrictSubsetOrdering(S))
      BY <2>1, <2>2, WFMin
    <3>2. m # {}
      BY <1>1, <1>2
    <3> DEFINE x == CHOOSE y \in m : TRUE
    <3>3. x \in m
      BY <3>2
    <3>4. m \ {x} \notin bad
      <4>1. <<m \ {x}, m>> \in StrictSubsetOrdering(S)
        BY <3>3 DEF StrictSubsetOrdering
      <4> QED BY <3>1, <4>1
    <3>5. g[m] = r[x].amount + g[m \ {x}]
      BY <1>2, <3>2
    <3>6. units[m] = r[x].amount + units[m \ {x}]
      <4>1. units[m] = Recursion(units)[m]
        BY <1>1
      <4> HIDE DEF units
      <4> QED BY <4>1, <3>2
    <3> QED BY <3>4, <3>5, <3>6
  <2>3. g = [s \in SUBSET S |-> g[s]]
    BY <1>2
  <2> QED BY <2>2, <2>3
<1>3. Total(r, S) = (CHOOSE it : it = Recursion(it))[S]
  BY DEF Total, Sum, MapThenSumSet, MapThenFoldSet
<1>4. (CHOOSE it : it = Recursion(it)) = units
  <2> HIDE DEF Recursion, units
  <2> QED BY <1>1, <1>2
<1> QED BY <1>3, <1>4

LEMMA TotalIsNat ==
  ASSUME NEW r, NEW S, IsFiniteSet(S), \A q \in S : r[q].amount \in Nat
  PROVE  Total(r, S) \in Nat
BY TotalIsUnits, UnitsFinite

LEMMA TotalOfNone ==
  ASSUME NEW r
  PROVE  Total(r, {}) = 0
<1>1. Units(r, {}) = {}
  BY DEF Units
<1>2. IsFiniteSet({}) /\ Cardinality({}) = 0
  BY FS_EmptySet
<1> QED BY <1>1, <1>2, TotalIsUnits

LEMMA TotalWithout ==
  ASSUME NEW r, NEW S, IsFiniteSet(S), \A q \in S : r[q].amount \in Nat, NEW x \in S
  PROVE  Total(r, S) = r[x].amount + Total(r, S \ {x})
<1>1. IsFiniteSet(S \ {x}) /\ \A q \in S \ {x} : r[q].amount \in Nat
  BY FS_Subset
<1> QED BY <1>1, TotalIsUnits, UnitsWithout

LEMMA TotalOfFewer ==
  ASSUME NEW r, NEW S, IsFiniteSet(S), \A q \in S : r[q].amount \in Nat,
         NEW T \in SUBSET S
  PROVE  Total(r, T) <= Total(r, S)
<1>1. IsFiniteSet(T) /\ \A q \in T : r[q].amount \in Nat
  BY FS_Subset
<1>2. Units(r, T) \subseteq Units(r, S)
  BY DEF Units
<1>3. Cardinality(Units(r, T)) <= Cardinality(Units(r, S))
  BY <1>2, UnitsFinite, FS_Subset
<1> QED BY <1>1, <1>3, TotalIsUnits

LEMMA TotalAgrees ==
  ASSUME NEW r, NEW h, NEW S, IsFiniteSet(S), \A q \in S : r[q].amount \in Nat,
         \A q \in S : h[q].amount = r[q].amount
  PROVE  Total(h, S) = Total(r, S)
<1>1. Units(h, S) = Units(r, S)
  BY DEF Units
<1> QED BY <1>1, TotalIsUnits

-----------------------------------------------------------------------------
(* The budget as a ceiling on open checkouts.                               *)

\* Like EverySetWithin: after a release, the checkouts that stay open may be
\* those admitted under the smaller budget.
EverySetAffordable ==
  \A S \in SUBSET Open :
    S # {} => \E q \in S : LET budget == checkout[q].limits.budget IN
                budget = 0 \/ Total(res, S) <= budget

BudgetInv == IInv /\ HeldIsReserved /\ EverySetAffordable

LEMMA OpenAmounts ==
  ASSUME TypeOK, NEW S \in SUBSET Open
  PROVE  IsFiniteSet(S) /\ \A q \in S : res[q].amount \in Nat
<1>1. IsFiniteSet(S)
  BY SlotSets, FS_Subset
<1>2. \A q \in Open : res[q] \in CodeReservation
  BY DEF Open, TypeOK
<1> QED BY <1>1, <1>2 DEF CodeReservation

\* A step that moves no reservation.
LEMMA BudgetUnchanged ==
  ASSUME BudgetInv, UNCHANGED <<counter, res>>,
         \A q \in Slots : checkout'[q] = checkout[q]
  PROVE  HeldIsReserved' /\ EverySetAffordable'
<1>1. Open' = Open /\ Open \subseteq Slots
  BY DEF Open, Slots
<1>2. HeldIsReserved'
  <2>1. counter.held = Total(res, Open)
    BY DEF BudgetInv, HeldIsReserved, Total
  <2>2. counter'.held = Total(res', Open')
    BY <1>1, <2>1
  <2> QED BY <2>2 DEF HeldIsReserved, Total, Sum, MapThenSumSet, MapThenFoldSet
<1>3. EverySetAffordable'
  BY <1>1 DEF BudgetInv, EverySetAffordable
<1> QED BY <1>2, <1>3

LEMMA BudgetReserve ==
  ASSUME BudgetInv, IInv', NEW q \in Quotes, NEW estimate \in Estimates,
         ReserveCodeRedemption(q, estimate)
  PROVE  HeldIsReserved' /\ EverySetAffordable'
<1> DEFINE limits == checkout[q].limits
           u == checkout[q].user
<1>1. /\ checkout[q].at = "looked" /\ limits \in CodeLimits /\ res[q] = NoReservation
  BY DEF ReserveCodeRedemption, Linked, TypeOK, BudgetInv, IInv
<1>2. CASE ~Admits(limits, u, estimate)
  <2>1. /\ UNCHANGED <<counter, res>>
        /\ checkout' = [checkout EXCEPT ![q].at = "refused"]
    BY <1>2 DEF ReserveCodeRedemption
  <2>2. \A p \in Slots : checkout'[p] = checkout[p]
    BY <1>1, <2>1 DEF BudgetInv, IInv, TypeOK, Slots, Open, Redeemed
  <2> QED BY <2>1, <2>2, BudgetUnchanged
<1>3. CASE Admits(limits, u, estimate)
  <2> DEFINE new == [amount |-> estimate, settled |-> FALSE, committed |-> FALSE]
  <2>1. /\ checkout' = [checkout EXCEPT ![q].at = "made"]
        /\ counter' = [counter EXCEPT !.reserved = @ + 1, !.held = @ + estimate]
        /\ res' = [res EXCEPT ![q] = new]
    BY <1>3 DEF ReserveCodeRedemption
  <2>2. estimate \in Nat /\ limits.budget \in Nat
    BY <1>1, RedemptionAssumption DEF CodeLimits
  <2>3. new # NoReservation
    <3>1. new \in CodeReservation
      BY <2>2 DEF CodeReservation
    <3> QED BY <3>1, RedemptionMarkersAssumption
  <2>4. Open' = Open \cup {q} /\ q \notin Open
    BY <1>1, <2>1, <2>3 DEF Open, TypeOK, BudgetInv, IInv
  <2>5. res'[q].amount = estimate /\ \A p \in Open : res'[p].amount = res[p].amount
    BY <1>1, <2>1 DEF Open, TypeOK, BudgetInv, IInv
  <2>6. \A p \in Quotes : checkout'[p].limits = checkout[p].limits
    BY <2>1 DEF BudgetInv, IInv, TypeOK
  <2>7. counter.held = Total(res, Open) /\ counter.held \in Nat /\ counter.paid \in Nat
    BY DEF BudgetInv, IInv, TypeOK, HeldIsReserved, Total
  <2>8. /\ IsFiniteSet(Open) /\ \A p \in Open : res[p].amount \in Nat
        /\ IsFiniteSet(Open') /\ \A p \in Open' : res'[p].amount \in Nat
    <3>1. IsFiniteSet(Open) /\ \A p \in Open : res[p].amount \in Nat
      BY OpenAmounts DEF BudgetInv, IInv
    <3>2. IsFiniteSet(Open')
      BY <3>1, <2>4, FS_AddElement
    <3> QED BY <3>1, <3>2, <2>2, <2>4, <2>5
  <2>9. Total(res', Open') = counter.held + estimate
    <3>1. Open' \ {q} = Open
      BY <2>4
    <3>2. Total(res', Open') = estimate + Total(res', Open)
      BY <2>4, <2>5, <2>8, <3>1, TotalWithout
    <3>3. Total(res', Open) = Total(res, Open)
      BY <2>5, <2>8, TotalAgrees
    <3> QED BY <2>2, <2>7, <3>2, <3>3
  <2>10. HeldIsReserved'
    <3>1. counter'.held = counter.held + estimate
      BY <2>1 DEF BudgetInv, IInv, TypeOK
    <3>2. counter'.held = Total(res', Open')
      BY <2>9, <3>1
    <3> QED BY <3>2 DEF HeldIsReserved, Total, Sum, MapThenSumSet, MapThenFoldSet
  <2>11. EverySetAffordable'
    <3> SUFFICES ASSUME NEW S \in SUBSET Open', S # {}
                 PROVE  \E p \in S : \/ checkout'[p].limits.budget = 0
                                     \/ Total(res', S) <= checkout'[p].limits.budget
      BY DEF EverySetAffordable
    <3>1. Open' \subseteq Quotes
      BY <2>4, SlotSets
    <3>2. CASE q \in S
      <4>1. Total(res', S) <= counter.held + estimate /\ Total(res', S) \in Nat
        <5>1. IsFiniteSet(S) /\ \A p \in S : res'[p].amount \in Nat
          BY <2>8, FS_Subset
        <5> QED BY <5>1, <2>8, <2>9, TotalOfFewer, TotalIsNat
      <4>2. limits.budget = 0 \/ counter.paid + counter.held + estimate <= limits.budget
        BY <1>3, <2>2 DEF Admits, SpokenFor
      <4>3. limits.budget = 0 \/ Total(res', S) <= limits.budget
        BY <2>2, <2>7, <4>1, <4>2
      <4> QED BY <3>2, <4>3, <2>6
    <3>3. CASE q \notin S
      <4>1. S \in SUBSET Open
        BY <3>3, <2>4
      <4>2. PICK p \in S : \/ checkout[p].limits.budget = 0
                           \/ Total(res, S) <= checkout[p].limits.budget
        BY <4>1 DEF BudgetInv, EverySetAffordable
      <4>3. Total(res', S) = Total(res, S)
        <5>1. IsFiniteSet(S) /\ \A o \in S : res[o].amount \in Nat
          BY <4>1, <2>8, FS_Subset
        <5> QED BY <4>1, <5>1, <2>5, TotalAgrees
      <4> QED BY <4>2, <4>3, <3>1, <2>6
    <3> QED BY <3>2, <3>3
  <2> QED BY <2>10, <2>11
<1> QED BY <1>2, <1>3

\* Settling gives back exactly what was held: the clamp never bites.
LEMMA BudgetMove ==
  ASSUME BudgetInv, NEW q \in Quotes, res[q] \in CodeReservation,
         checkout[q].user \in Users, UNCHANGED checkout,
         NEW commit \in BOOLEAN, NEW usd \in Nat,
         MoveCodeReservation(q, commit, usd)
  PROVE  HeldIsReserved' /\ EverySetAffordable'
<1>1. CASE res[q].settled
  <2>1. UNCHANGED <<counter, res>>
    BY <1>1 DEF MoveCodeReservation
  <2> QED BY <2>1, BudgetUnchanged
<1>2. CASE ~res[q].settled
  <2>1. /\ counter'.held = AtLeastZero(counter.held - res[q].amount)
        /\ res' = [res EXCEPT ![q] = [amount |-> 0, settled |-> TRUE,
                                      committed |-> commit]]
    BY <1>2 DEF MoveCodeReservation, Settles
  <2>2. q \in Open
    BY <1>2, RedemptionMarkersAssumption DEF Open
  <2>3. Open' = Open \ {q}
    BY MoveEffect DEF BudgetInv
  <2>4. IsFiniteSet(Open) /\ \A p \in Open : res[p].amount \in Nat
    BY OpenAmounts DEF BudgetInv, IInv
  <2>5. IsFiniteSet(Open') /\ \A p \in Open' : res[p].amount \in Nat
    BY <2>3, <2>4, FS_RemoveElement
  <2>6. \A p \in Open' : res'[p].amount = res[p].amount
    BY <2>1, <2>3, SlotSets DEF BudgetInv, IInv, TypeOK
  <2>7. HeldIsReserved'
    <3>1. counter.held = res[q].amount + Total(res, Open')
      <4>1. counter.held = Total(res, Open)
        BY DEF BudgetInv, HeldIsReserved, Total
      <4> QED BY <4>1, <2>2, <2>3, <2>4, TotalWithout
    <3>2. Total(res, Open') \in Nat /\ res[q].amount \in Nat
      BY <2>2, <2>4, <2>5, TotalIsNat
    <3>3. counter'.held = Total(res, Open')
      BY <2>1, <3>1, <3>2 DEF AtLeastZero
    <3>4. Total(res', Open') = Total(res, Open')
      BY <2>5, <2>6, TotalAgrees
    <3>5. counter'.held = Total(res', Open')
      BY <3>3, <3>4
    <3> QED BY <3>5 DEF HeldIsReserved, Total, Sum, MapThenSumSet, MapThenFoldSet
  <2>8. EverySetAffordable'
    <3> SUFFICES ASSUME NEW S \in SUBSET Open', S # {}
                 PROVE  \E p \in S : \/ checkout'[p].limits.budget = 0
                                     \/ Total(res', S) <= checkout'[p].limits.budget
      BY DEF EverySetAffordable
    <3>1. S \in SUBSET Open
      BY <2>3
    <3>2. Total(res', S) = Total(res, S)
      <4>1. IsFiniteSet(S) /\ \A p \in S : res[p].amount \in Nat
        BY <2>5, FS_Subset
      <4> QED BY <4>1, <2>6, TotalAgrees
    <3> QED BY <3>1, <3>2 DEF BudgetInv, EverySetAffordable
  <2> QED BY <2>7, <2>8
<1> QED BY <1>1, <1>2

LEMMA BudgetTransition ==
  ASSUME BudgetInv, NEW q \in Quotes, NEW to \in QuoteStatuses, TransitionQuote(q, to)
  PROVE  HeldIsReserved' /\ EverySetAffordable'
<1>1. status[q] # "absent"
  BY DEF TransitionQuote, CanTransition, quoteTransitions, BudgetInv, IInv, TypeOK,
         QuoteStatuses
<1>2. res[q] \in CodeReservation /\ checkout[q].user \in Users /\ UNCHANGED checkout
  BY <1>1 DEF BudgetInv, IInv, TypeOK, Linked, TransitionQuote
<1>3. CASE MoveCodeReservation(q, TRUE, CashbackUSDForQuote(q))
  <2>1. CashbackUSDForQuote(q) \in Nat
    BY DEF CashbackUSDForQuote, BudgetInv, IInv, TypeOK
  <2> QED BY <1>2, <1>3, <2>1, BudgetMove
<1>4. CASE MoveCodeReservation(q, FALSE, 0)
  BY <1>2, <1>4, BudgetMove
<1>5. CASE UNCHANGED <<counter, res>>
  BY <1>2, <1>5, BudgetUnchanged
<1> QED BY <1>3, <1>4, <1>5 DEF TransitionQuote

LEMMA BudgetInit == Init => BudgetInv
<1> SUFFICES ASSUME Init PROVE BudgetInv
  OBVIOUS
<1>1. Open = {}
  BY DEF Init, Open
<1>2. HeldIsReserved
  <2>1. counter.held = Total(res, Open)
    BY <1>1, TotalOfNone DEF Init
  <2> QED BY <2>1 DEF HeldIsReserved, Total
<1>3. EverySetAffordable
  BY <1>1 DEF EverySetAffordable
<1> QED BY <1>2, <1>3, RedemptionInit DEF BudgetInv

LEMMA BudgetStep == BudgetInv /\ [Next]_vars => BudgetInv'
<1> SUFFICES ASSUME BudgetInv, [Next]_vars PROVE BudgetInv'
  OBVIOUS
<1>1. IInv'
  BY RedemptionStep DEF BudgetInv
<1>2. ASSUME NEW q \in Quotes, NEW u \in Users, LookUp(q, u)
      PROVE  HeldIsReserved' /\ EverySetAffordable'
  <2>1. \A p \in Slots : checkout'[p] = checkout[p]
    BY <1>2 DEF LookUp, BudgetInv, IInv, TypeOK, Linked, Slots, Open, Redeemed
  <2> QED BY <1>2, <2>1, BudgetUnchanged DEF LookUp
<1>3. ASSUME NEW q \in Quotes, NEW estimate \in Estimates,
             ReserveCodeRedemption(q, estimate)
      PROVE  HeldIsReserved' /\ EverySetAffordable'
  BY <1>1, <1>3, BudgetReserve
<1>4. ASSUME NEW q \in Quotes, NEW to \in QuoteStatuses, TransitionQuote(q, to)
      PROVE  HeldIsReserved' /\ EverySetAffordable'
  BY <1>4, BudgetTransition
<1>5. ASSUME ChangePolicy \/ End \/ UNCHANGED vars
      PROVE  HeldIsReserved' /\ EverySetAffordable'
  <2>1. UNCHANGED <<checkout, counter, res>>
    BY <1>5 DEF ChangePolicy, End, vars
  <2> QED BY <2>1, BudgetUnchanged
<1> QED BY <1>1, <1>2, <1>3, <1>4, <1>5 DEF Next, BudgetInv

\* The inductive invariant of the budget: the exact counts with what every set of
\* open reservations adds up to.
THEOREM BudgetInvariant == Spec => []BudgetInv
BY BudgetInit, BudgetStep, PTL DEF Spec

\* What the code holds back is the sum of what the open reservations hold: no
\* settlement takes back more than was set aside, whatever order quotes end in.
THEOREM RedemptionHeldIsReserved == Spec => []HeldIsReserved
<1>1. BudgetInv => HeldIsReserved
  BY DEF BudgetInv
<1> QED BY <1>1, BudgetInvariant, PTL

\* What open checkouts may cost together is within a budget that one of them was
\* admitted under, however checkouts, endings and edits of the rule interleave.
THEOREM RedemptionOpenWithinBudget == Spec => []OpenWithinBudget
<1>1. BudgetInv => OpenWithinBudget
  BY DEF BudgetInv, EverySetAffordable, OpenWithinBudget, Total
<1> QED BY <1>1, BudgetInvariant, PTL

=============================================================================
