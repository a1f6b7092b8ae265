----------------------------- MODULE RatingProofs -----------------------------
(***************************************************************************)
(* Proofs about the star ratings: for any number of purchases, memos,      *)
(* payments, runs of the tab and restarts, every rating was paid by a      *)
(* mined payment of its own, the watcher skips no payment of the history,  *)
(* whatever the size of its pages and ticks, a payment put aside comes to  *)
(* sleep under a reserved memo in one way only, and the record of a        *)
(* submitted payment is given up by two ways of ending a run only.         *)
(***************************************************************************)
EXTENDS Rating, FiniteSetTheorems, TLAPS

\* A run that answers to an open page has one.
HereOK == \A r \in Runs : runs[r].here => page # Away

\* The request the shop works on is the one its run waits for, and there is a
\* signing request left for a memo that is being reserved.
AskedOK ==
  /\ call.run # NoOne => /\ runs[call.run].at = IF call.at = "intent" THEN "intent" ELSE "poll"
                         /\ runs[call.run].for = call.for
                         /\ runs[call.run].memo = call.memo
  /\ call.at = "intent" => asks < MaxAsks

\* What the watcher knows between two pages: the pages read so far, from the
\* first entry of this pass down to the cursor, are in the inbox.
Indexed ==
  /\ HistoryIsIndexed
  /\ scan.target = NoTx <=> scan.before = NoTx
  /\ scan.target # NoTx =>
       \A i \in Place(scan.before)..Place(scan.target) : inbox[chain[i]] # "unseen"

IInv == TypeOK /\ HereOK /\ AskedOK /\ RatingsArePaid /\ Indexed

-----------------------------------------------------------------------------
(* The history as a sequence of distinct payments.                         *)

LEMMA Bounds == /\ MaxTxs \in Nat /\ MaxAsks \in Nat /\ MaxSwitches \in Nat
                /\ MaxRatings \in Nat \ {0} /\ PageSize \in Nat \ {0}
                /\ TickSize \in Nat \ {0}
                /\ NoPurchase \notin Purchases /\ NoMemo \notin Memos
                /\ NoOne \notin Runs /\ 0 \in 0..MaxTxs
BY RatingAssumption

\* The mined payments are the entries of the chain.
LEMMA MinedIs ==
  ASSUME LedgerOK
  PROVE  /\ Mined = {chain[i] : i \in 1..Len(chain)}
         /\ \A i \in 1..Len(chain) : chain[i] \in Mined
         /\ Mined \subseteq 1..Len(txs) /\ Mined \subseteq Txs
         /\ Len(chain) \in Nat /\ Len(txs) \in Nat
         /\ NoTx \notin Mined
<1>1. chain \in Seq(1..Len(txs)) /\ Len(txs) \in Nat /\ Len(chain) \in Nat
  BY DEF LedgerOK
<1>2. DOMAIN chain = 1..Len(chain) /\ \A i \in 1..Len(chain) : chain[i] \in 1..Len(txs)
  BY <1>1
<1>3. Mined = {chain[i] : i \in 1..Len(chain)}
  BY <1>2 DEF Mined, Range
<1>4. 1..Len(txs) \subseteq Txs
  BY <1>1, Bounds DEF Txs, LedgerOK
<1> QED BY <1>1, <1>2, <1>3, <1>4 DEF NoTx

\* The place of a payment is where the chain has it.
LEMMA PlaceIs ==
  ASSUME LedgerOK
  PROVE  /\ \A i \in 1..Len(chain) : Place(chain[i]) = i
         /\ \A t \in Mined : Place(t) \in 1..Len(chain) /\ chain[Place(t)] = t
         /\ Place(NoTx) = 0
<1>1. DOMAIN chain = 1..Len(chain)
  BY DEF LedgerOK
<1>2. \A i, j \in 1..Len(chain) : chain[i] = chain[j] => i = j
  BY <1>1 DEF LedgerOK, IsInjective
<1>3. ASSUME NEW i \in 1..Len(chain) PROVE Place(chain[i]) = i
  <2>1. chain[i] # NoTx
    BY MinedIs
  <2>2. \A j \in 1..Len(chain) : chain[j] = chain[i] <=> j = i
    BY <1>2
  <2> QED BY <2>1, <2>2 DEF Place
<1>4. ASSUME NEW t \in Mined PROVE \E i \in 1..Len(chain) : chain[i] = t
  BY MinedIs
<1> QED BY <1>3, <1>4 DEF Place

\* A payment is mined: the others keep their place.
LEMMA MineGrows ==
  ASSUME LedgerOK, AdminOK, NEW t \in Txs, Mine(t)
  PROVE  /\ LedgerOK'
         /\ Mined' = Mined \union {t}
         /\ Len(chain') = Len(chain) + 1
         /\ \A i \in 1..Len(chain) : chain'[i] = chain[i]
<1>1. chain \in Seq(1..Len(txs)) /\ t \in 1..Len(txs) /\ chain' = Append(chain, t)
      /\ txs' = txs /\ t \notin Mined
  BY DEF LedgerOK, Mine
<1>2. chain' \in Seq(1..Len(txs)) /\ Len(chain') = Len(chain) + 1
      /\ chain'[Len(chain) + 1] = t
      /\ \A i \in 1..Len(chain) : chain'[i] = chain[i]
  BY <1>1
<1>3. Len(chain) \in Nat
  BY <1>1
<1>4. DOMAIN chain = 1..Len(chain) /\ DOMAIN chain' = 1..(Len(chain) + 1)
  BY <1>1, <1>2
<1>5. \A i \in 1..(Len(chain) + 1) : i \in 1..Len(chain) \/ i = Len(chain) + 1
  BY <1>3
<1>6. Mined' = Mined \union {t}
  <2>1. Mined' = {chain'[i] : i \in 1..(Len(chain) + 1)}
    BY <1>4 DEF Mined, Range
  <2>2. Mined = {chain[i] : i \in 1..Len(chain)}
    BY MinedIs
  <2>3. \A i \in 1..Len(chain) : i \in 1..(Len(chain) + 1)
    BY <1>3
  <2>4. Len(chain) + 1 \in 1..(Len(chain) + 1)
    BY <1>3
  <2> QED BY <2>1, <2>2, <2>3, <2>4, <1>2, <1>5
<1>7. IsInjective(chain')
  <2>1. \A i \in 1..Len(chain) : chain[i] # t
    BY <1>1, MinedIs
  <2>2. \A i, j \in 1..Len(chain) : chain[i] = chain[j] => i = j
    BY <1>4 DEF LedgerOK, IsInjective
  <2>3. \A i, j \in 1..(Len(chain) + 1) : chain'[i] = chain'[j] => i = j
    BY <2>1, <2>2, <1>2, <1>5
  <2> QED BY <2>3, <1>4 DEF IsInjective
<1>8. seen' \in [Txs -> SUBSET Purchases]
  <2>1. seen \in [Txs -> SUBSET Purchases]
    BY DEF LedgerOK
  <2> QED BY <2>1 DEF Mine, AdminOK
<1> QED BY <1>1, <1>2, <1>6, <1>7, <1>8 DEF LedgerOK

-----------------------------------------------------------------------------
(* The tab: records, runs and the open page.                               *)

\* A stored record stays a record.
LEMMA RecordMoves ==
  ASSUME BrowserOK,
         \/ Clear
         \/ \E p \in Purchases : Touch(p) \/ Forget(p) \/ ForgetUnsubmitted(p)
         \/ \E p \in Purchases, h \in 0..MaxTxs : Mark(p, h)
  PROVE  rec' \in [Purchases -> RecType] /\ scope' \in SomePurchase
<1>1. rec \in [Purchases -> RecType] /\ scope \in SomePurchase /\ NoPurchase \in SomePurchase
      /\ NoRec \in RecType
  BY DEF BrowserOK, SomePurchase, RecType
<1>2. Purchases \subseteq SomePurchase
  BY DEF SomePurchase
<1>3. \A p \in Purchases : Forget(p) => rec' \in [Purchases -> RecType] /\ scope' \in SomePurchase
  BY <1>1 DEF Forget
<1>4. \A p \in Purchases : Touch(p) => rec' \in [Purchases -> RecType] /\ scope' \in SomePurchase
  BY <1>1, <1>2 DEF Touch
<1>5. Clear => rec' \in [Purchases -> RecType] /\ scope' \in SomePurchase
  BY <1>1 DEF Clear
<1>6. ASSUME NEW p \in Purchases, NEW h \in 0..MaxTxs, Mark(p, h)
      PROVE  rec' \in [Purchases -> RecType] /\ scope' \in SomePurchase
  <2>1. CASE rec[p] = NoRec
    BY <1>1, <1>2, <1>6, <2>1 DEF Mark
  <2>2. CASE rec[p] # NoRec
    <3>1. rec[p] \in [memo : Memos, submitted : BOOLEAN, hash : 0..MaxTxs]
      BY <1>1, <2>2 DEF RecType
    <3>2. [rec[p] EXCEPT !.submitted = TRUE, !.hash = IF h = NoTx THEN rec[p].hash ELSE h]
            \in [memo : Memos, submitted : BOOLEAN, hash : 0..MaxTxs]
      BY <3>1
    <3>3. rec' = [rec EXCEPT ![p] = [rec[p] EXCEPT !.submitted = TRUE,
                                       !.hash = IF h = NoTx THEN rec[p].hash ELSE h]]
      BY <1>1, <1>6, <2>2 DEF Mark
    <3> QED BY <1>1, <1>2, <1>6, <3>2, <3>3 DEF Mark, RecType
  <2> QED BY <2>1, <2>2
<1> QED BY <1>3, <1>4, <1>5, <1>6 DEF ForgetUnsubmitted

TabOK == page \in PageType /\ runs \in [Runs -> RunType] /\ HereOK

\* A run that ends leaves the tab as it should be, whatever it tells the page.
LEMMA RunEnds ==
  ASSUME TabOK, NEW r \in Runs, NEW told \in BOOLEAN, told => runs[r] # NoRun,
         Ends(r), Tells(r, told)
  PROVE  TabOK'
<1>1. runs' = [runs EXCEPT ![r] = NoRun] /\ NoRun \in RunType /\ ~NoRun.here
  BY DEF Ends, RunType, NoRun
<1>2. runs' \in [Runs -> RunType]
  BY <1>1 DEF TabOK
<1>3. \A q \in Runs : runs'[q].here => runs[q].here
  BY <1>1 DEF TabOK
<1>4. page' \in PageType /\ (page # Away => page' # Away)
  <2>1. CASE ~runs[r].here
    BY <2>1 DEF Tells, TabOK
  <2>2. CASE runs[r].here
    <3>1. page \in [at : Purchases, memo : Memos \union {NoMemo}, told : BOOLEAN]
      BY <2>2 DEF TabOK, HereOK, PageType
    <3>2. told => runs[r].memo \in Memos
      BY DEF TabOK, RunType
    <3>3. page' = [page EXCEPT !.told = told, !.memo = IF told THEN runs[r].memo ELSE NoMemo]
      BY <2>2 DEF Tells
    <3>4. page' \in [at : Purchases, memo : Memos \union {NoMemo}, told : BOOLEAN]
      BY <3>1, <3>2, <3>3
    <3>5. page' # Away
      BY <3>4, Bounds DEF Away
    <3> QED BY <3>4, <3>5 DEF PageType
  <2> QED BY <2>1, <2>2
<1> QED BY <1>2, <1>3, <1>4 DEF TabOK, HereOK

\* A run that goes on in another stage does so too.
LEMMA RunMoves ==
  ASSUME TabOK, NEW r \in Runs, NEW run \in RunType,
         runs' = [runs EXCEPT ![r] = run], run.here => page # Away
  PROVE  runs' \in [Runs -> RunType] /\ \A q \in Runs : runs'[q].here => page # Away
BY DEF TabOK, HereOK

\* What a run's record becomes is a run's record.
LEMMA RunSteps ==
  ASSUME NEW run \in RunType
  PROVE  LET gone == IF run = NoRun THEN NoRun ELSE [run EXCEPT !.here = FALSE]
         IN /\ gone \in RunType /\ gone.at = run.at /\ ~gone.here
            /\ gone.for = run.for /\ gone.memo = run.memo
<1>1. CASE run = NoRun
  BY <1>1 DEF NoRun, RunType
<1>2. CASE run \in [at : {"intent", "wallet", "poll"}, for : Purchases, memo : Memos,
                    hash : 0..MaxTxs, from : {"submit", "recover", "check"}, here : BOOLEAN]
  <2>1. [run EXCEPT !.here = FALSE] \in
           [at : {"intent", "wallet", "poll"}, for : Purchases, memo : Memos,
            hash : 0..MaxTxs, from : {"submit", "recover", "check"}, here : BOOLEAN]
    BY <1>2
  <2> QED BY <1>2, <2>1 DEF RunType, NoRun
<1> QED BY <1>1, <1>2 DEF RunType

LEMMA Leaves ==
  ASSUME TabOK, Unloaded
  PROVE  TabOK'
BY DEF TabOK, HereOK, Unloaded, NoRun, RunType, PageType

LEMMA PageTells ==
  ASSUME NEW q \in PageType
  PROVE  q.told \in BOOLEAN
<1>1. CASE q = Away
  BY <1>1 DEF Away
<1>2. CASE q \in [at : Purchases, memo : Memos \union {NoMemo}, told : BOOLEAN]
  BY <1>2
<1> QED BY <1>1, <1>2 DEF PageType

LEMMA RecordTells ==
  ASSUME NEW q \in RecType
  PROVE  q.submitted \in BOOLEAN
<1>1. CASE q = NoRec
  BY <1>1 DEF NoRec
<1>2. CASE q \in [memo : Memos, submitted : BOOLEAN, hash : 0..MaxTxs]
  BY <1>2
<1> QED BY <1>1, <1>2 DEF RecType

\* However the wait for the saved rating ends.
LEMMA WaitEnds ==
  ASSUME BrowserOK, HereOK, NEW r \in Runs, At(r, "poll"),
         Saved(r) \/ Refused(r) \/ GivesUp(r)
  PROVE  TabOK' /\ rec' \in [Purchases -> RecType] /\ scope' \in SomePurchase
<1>1. TabOK /\ rec \in [Purchases -> RecType] /\ scope \in SomePurchase
  BY DEF BrowserOK, TabOK
<1>2. runs[r] # NoRun /\ runs[r].for \in Purchases
  BY <1>1 DEF TabOK, At, NoRun, RunType
<1>3. page.told \in BOOLEAN
  BY <1>1, PageTells DEF TabOK
<1>4. CASE Ends(r) /\ UNCHANGED <<page, rec, scope>>
  <2>1. runs' \in [Runs -> RunType] /\ \A q \in Runs : runs'[q].here => runs[q].here
    BY <1>1, <1>4 DEF TabOK, Ends, RunType, NoRun
  <2> QED BY <1>1, <1>4, <2>1 DEF TabOK, HereOK
<1>5. CASE Saved(r)
  BY <1>1, <1>2, <1>5, RunEnds, RecordMoves DEF Saved
<1>6. CASE Refused(r) /\ ~Heedless(r)
  BY <1>1, <1>2, <1>3, <1>6, RunEnds, RecordMoves DEF Refused
<1>7. CASE GivesUp(r) /\ ~Heedless(r)
  <2>1. NoTx \in 0..MaxTxs
    BY Bounds DEF NoTx
  <2> QED BY <1>1, <1>2, <1>7, <2>1, RunEnds, RecordMoves DEF GivesUp
<1> QED BY <1>4, <1>5, <1>6, <1>7 DEF Refused, GivesUp

\* A run that begins, or that an answer moves on.
LEMMA Begins ==
  ASSUME BrowserOK, HereOK, page # Away, NEW r \in Runs, NEW on \in {"intent", "poll"},
         NEW m \in Memos, NEW h \in 0..MaxTxs, NEW why \in {"submit", "recover", "check"},
         Begin(r, on, m, h, why), page' = page
  PROVE  TabOK' /\ \A q \in Runs : q # r => runs'[q] = runs[q]
<1>1. page \in [at : Purchases, memo : Memos \union {NoMemo}, told : BOOLEAN]
  BY DEF BrowserOK, PageType
<1>2. runs' = [runs EXCEPT ![r] = [at |-> on, for |-> page.at, memo |-> m, hash |-> h,
                                   from |-> why, here |-> TRUE]]
  BY DEF Begin, Here
<1>3. [at |-> on, for |-> page.at, memo |-> m, hash |-> h, from |-> why, here |-> TRUE] \in RunType
  BY <1>1 DEF RunType
<1> QED BY <1>2, <1>3 DEF TabOK, HereOK, BrowserOK

-----------------------------------------------------------------------------
(* The request the shop works on.                                          *)

LEMMA CallIs ==
  ASSUME CallOK
  PROVE  /\ call.run \in Runs \union {NoOne}
         /\ call.run # NoOne => call # NoCall
         /\ call.at \in {"none", "intent", "submit", "record"}
         /\ call.at = "none" <=> call = NoCall
         /\ call # NoCall => call \in
              [at : {"intent", "submit", "record"}, for : Purchases, memo : Memos,
               tx : 0..MaxTxs, run : Runs \union {NoOne}, older : SUBSET Txs,
               saw : SUBSET Txs, stale : BOOLEAN]
         /\ call.stale \in BOOLEAN
<1>1. CASE call = NoCall
  BY <1>1 DEF NoCall
<1>2. CASE call \in [at : {"intent", "submit", "record"}, for : Purchases, memo : Memos,
                     tx : 0..MaxTxs, run : Runs \union {NoOne}, older : SUBSET Txs,
                     saw : SUBSET Txs, stale : BOOLEAN]
  BY <1>2 DEF NoCall
<1> QED BY <1>1, <1>2 DEF CallOK, CallType

\* It goes on as it is, at most marked as one that read what has changed since.
SameAsk == /\ call'.at = call.at /\ call'.run = call.run
           /\ call'.for = call.for /\ call'.memo = call.memo
Marked == call' = call \/ (Reserving /\ \E stale \in BOOLEAN : call' = [call EXCEPT !.stale = stale])

LEMMA WritesMark ==
  ASSUME CallOK, NEW M, NEW P, NEW T, Writes(M, P, T)
  PROVE  Marked
<1>1. call.stale \in BOOLEAN
  BY CallIs
<1> DEFINE hit == call.memo \in M \/ call.for \in P \/ call.saw \intersect T # {}
           stale == call.stale \/ (Reserving /\ hit)
<1>2. call' = [call EXCEPT !.stale = stale]
  BY DEF Writes
<1>3. stale \in BOOLEAN
  BY <1>1
<1>4. CASE Reserving
  BY <1>2, <1>3, <1>4 DEF Marked
<1>5. CASE ~Reserving
  <2>1. stale = call.stale
    BY <1>1, <1>5
  <2> HIDE DEF stale
  <2>2. call' = call
    BY <1>2, <2>1, CallIs DEF NoCall
  <2> QED BY <2>2 DEF Marked
<1> QED BY <1>4, <1>5

LEMMA MarkedIs ==
  ASSUME CallOK, Marked
  PROVE  /\ SameAsk /\ call' \in CallType /\ call'.tx = call.tx
         /\ call = NoCall => call' = NoCall
<1>1. CASE call' = call
  BY <1>1 DEF SameAsk, CallOK
<1>2. CASE Reserving /\ \E stale \in BOOLEAN : call' = [call EXCEPT !.stale = stale]
  <2>1. call # NoCall
    BY <1>2 DEF Reserving, NoCall
  <2>2. call \in [at : {"intent", "submit", "record"}, for : Purchases, memo : Memos,
                  tx : 0..MaxTxs, run : Runs \union {NoOne}, older : SUBSET Txs,
                  saw : SUBSET Txs, stale : BOOLEAN]
    BY <2>1, CallIs
  <2>3. PICK stale \in BOOLEAN : call' = [call EXCEPT !.stale = stale]
    BY <1>2
  <2> QED BY <2>1, <2>2, <2>3 DEF SameAsk, CallType
<1> QED BY <1>1, <1>2 DEF Marked

\* A run under way keeps its stage, its purchase and its memo.
SameRun(r) == /\ runs'[r].at = runs[r].at /\ runs'[r].for = runs[r].for
              /\ runs'[r].memo = runs[r].memo

LEMMA AskedKept ==
  ASSUME AskedOK, SameAsk, UNCHANGED asks, call.run # NoOne => SameRun(call.run)
  PROVE  AskedOK'
BY DEF AskedOK, SameAsk, SameRun

\* A request nobody waits for.
LEMMA AskedDetached ==
  ASSUME CallOK, AskedOK, UNCHANGED asks, call' = NoCall \/ call' = [call EXCEPT !.run = NoOne]
  PROVE  AskedOK'
<1>1. CASE call' = NoCall
  BY <1>1 DEF AskedOK, NoCall
<1>2. CASE call' = [call EXCEPT !.run = NoOne]
  <2>1. call'.run = NoOne /\ call'.at = call.at
    BY <1>2, CallIs DEF NoCall
  <2> QED BY <2>1 DEF AskedOK
<1> QED BY <1>1, <1>2

\* The run a request was made for.
LEMMA CallStands ==
  ASSUME BrowserOK, CallOK, AskedOK, call.run # NoOne
  PROVE  /\ call.run \in Runs /\ runs[call.run] # NoRun /\ call # NoCall
         /\ At(call.run, "poll") \/ At(call.run, "intent")
         /\ call.at = "intent" <=> At(call.run, "intent")
         /\ runs[call.run].for = call.for /\ runs[call.run].memo = call.memo
BY CallIs DEF AskedOK, At, NoRun

TabStep == BrowserOK' /\ HereOK' /\ AskedOK'

LEMMA PageSteps ==
  ASSUME TypeOK, HereOK, AskedOK,
         (\E p \in Purchases : Visit(p) \/ Expire(p)) \/ (\E m \in Memos : Rate(m))
           \/ Leave \/ Unload \/ Check
  PROVE  TabStep
<1>1. BrowserOK /\ CallOK
  BY DEF TypeOK
<1>2. rec \in [Purchases -> RecType] /\ scope \in SomePurchase /\ page \in PageType
      /\ runs \in [Runs -> RunType] /\ open \subseteq Purchases \X Memos /\ asks \in 0..MaxAsks
  BY <1>1 DEF BrowserOK
<1>3. call.run # NoOne => call.run \in Runs /\ runs[call.run] # NoRun
  BY <1>1, CallStands
<1>4. ASSUME UNCHANGED <<asks, call>>, \A r \in Runs : runs[r] # NoRun => SameRun(r)
      PROVE  AskedOK'
  BY <1>3, <1>4, AskedKept DEF SameAsk
<1>5. ASSUME NEW p \in Purchases, Visit(p) PROVE TabStep
  <2>1. rec' \in [Purchases -> RecType] /\ scope' \in SomePurchase
    BY <1>1, <1>5, RecordMoves DEF Visit
  <2>2. rec[p] # NoRec => rec[p].memo \in Memos /\ rec[p].hash \in 0..MaxTxs
    BY <1>2 DEF RecType
  <2>3. Submitted(p) => rec[p] # NoRec
    BY DEF Submitted, NoRec
  <2>4. page' \in [at : Purchases, memo : Memos \union {NoMemo}, told : BOOLEAN]
    <3>1. Submitted(p) \in BOOLEAN
      BY <1>2, RecordTells DEF Submitted
    <3> QED BY <1>5, <2>2, <2>3, <3>1 DEF Visit
  <2>5. page' \in PageType /\ page' # Away
    BY <2>4, Bounds DEF PageType, Away
  <2>6. runs' \in [Runs -> RunType] /\ \A r \in Runs : runs[r] # NoRun => SameRun(r)
    <3>1. CASE UNCHANGED runs
      BY <1>2, <3>1 DEF SameRun
    <3>2. CASE rec[p] # NoRec
      <4>1. [at |-> "poll", for |-> p, memo |-> rec[p].memo, hash |-> rec[p].hash,
             from |-> "recover", here |-> TRUE] \in RunType
        BY <2>2, <3>2 DEF RunType
      <4>2. PICK r \in Runs : /\ runs[r] = NoRun
                              /\ runs' = [runs EXCEPT ![r] =
                                   [at |-> "poll", for |-> p, memo |-> rec[p].memo,
                                    hash |-> rec[p].hash, from |-> "recover",
                                    here |-> TRUE]]
        BY <1>5, <3>2 DEF Visit
      <4> QED BY <1>2, <4>1, <4>2 DEF SameRun
    <3> QED BY <1>5, <3>1, <3>2 DEF Visit
  <2>7. UNCHANGED <<open, asks, call>>
    BY <1>5 DEF Visit
  <2> QED BY <1>2, <1>4, <2>1, <2>5, <2>6, <2>7 DEF TabStep, BrowserOK, HereOK
<1>6. ASSUME NEW p \in Purchases, Expire(p) PROVE TabStep
  <2>1. rec' \in [Purchases -> RecType]
    BY <1>2, <1>6 DEF Expire, RecType
  <2>2. AskedOK'
    BY <1>4, <1>6 DEF Expire, SameRun
  <2> QED BY <1>2, <1>6, <2>1, <2>2 DEF Expire, TabStep, BrowserOK, HereOK
<1>7. ASSUME NEW m \in Memos, Rate(m) PROVE TabStep
  <2>1. PICK r \in Runs : Begin(r, "intent", m, NoTx, "submit")
    BY <1>7 DEF Rate
  <2>2. page # Away /\ page' = page /\ UNCHANGED <<open, asks, call>>
    BY <1>7 DEF Rate, Idle
  <2>3. TabOK' /\ \A q \in Runs : q # r => runs'[q] = runs[q]
    <3>1. NoTx \in 0..MaxTxs
      BY Bounds DEF NoTx
    <3>2. "intent" \in {"intent", "poll"} /\ "submit" \in {"submit", "recover", "check"}
      OBVIOUS
    <3> QED BY ONLY <1>1, HereOK, <2>1, <2>2, <3>1, <3>2, Begins
  <2>4. page.at \in Purchases
    BY <1>2, <2>2 DEF PageType
  <2>5. rec' \in [Purchases -> RecType] /\ scope' \in SomePurchase
    <3>1. [memo |-> m, submitted |-> FALSE, hash |-> NoTx] \in RecType
      BY Bounds DEF RecType, NoTx
    <3> QED BY <1>2, <1>7, <2>4, <3>1 DEF Rate, Here, SomePurchase
  <2>6. \A q \in Runs : runs[q] # NoRun => SameRun(q)
    BY <2>1, <2>3 DEF Begin, SameRun
  <2> QED BY <1>2, <1>4, <2>2, <2>3, <2>5, <2>6 DEF TabStep, BrowserOK, TabOK
<1>8. ASSUME Leave PROVE TabStep
  <2>0. runs' = [r \in Runs |-> IF runs[r] = NoRun THEN NoRun
                             ELSE [runs[r] EXCEPT !.here = FALSE]]
    BY <1>8 DEF Leave
  <2>1. \A r \in Runs : runs'[r] = IF runs[r] = NoRun THEN NoRun
                                    ELSE [runs[r] EXCEPT !.here = FALSE]
    BY <2>0
  <2>2. ASSUME NEW r \in Runs PROVE runs'[r] \in RunType /\ SameRun(r) /\ ~runs'[r].here
    <3>1. runs[r] \in RunType
      BY <1>2
    <3>2. /\ runs'[r] \in RunType /\ ~runs'[r].here
          /\ runs'[r].at = runs[r].at /\ runs'[r].for = runs[r].for
          /\ runs'[r].memo = runs[r].memo
      BY <2>1, <3>1, RunSteps
    <3> QED BY <3>2 DEF SameRun
  <2>4. runs' \in [Runs -> RunType]
    BY <2>0, <2>1, <2>2
  <2>5. AskedOK'
    BY <1>4, <1>8, <2>2 DEF Leave
  <2> QED BY <1>2, <1>8, <2>2, <2>4, <2>5 DEF Leave, TabStep, BrowserOK, HereOK, PageType
<1>9. ASSUME Unload PROVE TabStep
  <2>1. TabOK'
    BY <1>2, <1>9, Leaves DEF Unload, TabOK
  <2>2. AskedOK'
    BY <1>1, <1>9, AskedDetached DEF Unload, Unloaded
  <2> QED BY <1>2, <1>9, <2>1, <2>2 DEF Unload, TabStep, BrowserOK, TabOK, SomePurchase
<1>10. ASSUME Check PROVE TabStep
  <2>1. PICK r \in Runs : Begin(r, "poll", rec[Here].memo, rec[Here].hash, "check")
    BY <1>10 DEF Check
  <2>2. page # Away /\ page' = page /\ UNCHANGED <<open, asks, call>>
    BY <1>10 DEF Check, Idle
  <2>4. page.at \in Purchases
    BY <1>2, <2>2 DEF PageType
  <2>3. TabOK' /\ \A q \in Runs : q # r => runs'[q] = runs[q]
    <3>1. rec[Here].memo \in Memos /\ rec[Here].hash \in 0..MaxTxs
      BY <1>2, <1>10, <2>4 DEF Check, Submitted, Here, RecType, NoRec
    <3>2. "poll" \in {"intent", "poll"} /\ "check" \in {"submit", "recover", "check"}
      OBVIOUS
    <3> QED BY ONLY <1>1, HereOK, <2>1, <2>2, <3>1, <3>2, Begins
  <2>5. rec' \in [Purchases -> RecType] /\ scope' \in SomePurchase
    BY <1>1, <1>10, <2>4, RecordMoves DEF Check, Here
  <2>6. \A q \in Runs : runs[q] # NoRun => SameRun(q)
    BY <2>1, <2>3 DEF Begin, SameRun
  <2> QED BY <1>2, <1>4, <2>2, <2>3, <2>5, <2>6 DEF TabStep, BrowserOK, TabOK
<1> QED BY <1>5, <1>6, <1>7, <1>8, <1>9, <1>10

LEMMA BroadcastHash ==
  ASSUME LedgerOK, NEW m \in Memos, Broadcast(m)
  PROVE  {NoTx, Len(txs')} \subseteq 0..MaxTxs
<1>1. txs \in Seq(Memos) /\ txs' = Append(txs, m) /\ Len(txs) < MaxTxs
  BY DEF LedgerOK, Broadcast
<1>2. Len(txs') = Len(txs) + 1 /\ Len(txs) \in Nat
  BY <1>1
<1> QED BY <1>1, <1>2, Bounds DEF NoTx

\* The wallet is asked for one request more.
LEMMA Signs ==
  ASSUME BrowserOK, HereOK, NEW r \in Runs, At(r, "intent"), asks < MaxAsks, ToWallet(r),
         UNCHANGED page
  PROVE  /\ TabOK' /\ open' \subseteq Purchases \X Memos /\ asks' \in 0..MaxAsks
         /\ \A q \in Runs : q # r => runs'[q] = runs[q]
<1>1. runs[r] \in [at : {"intent", "wallet", "poll"}, for : Purchases, memo : Memos,
                   hash : 0..MaxTxs, from : {"submit", "recover", "check"}, here : BOOLEAN]
  BY DEF At, BrowserOK, RunType, NoRun
<1>2. [runs[r] EXCEPT !.at = "wallet"] \in RunType
      /\ [runs[r] EXCEPT !.at = "wallet"].here = runs[r].here
  BY <1>1 DEF RunType
<1>3. runs' = [runs EXCEPT ![r] = [runs[r] EXCEPT !.at = "wallet"]]
  BY DEF ToWallet
<1>4. TabOK' /\ \A q \in Runs : q # r => runs'[q] = runs[q]
  BY <1>2, <1>3 DEF BrowserOK, TabOK, HereOK
<1>5. asks' \in 0..MaxAsks
  BY Bounds DEF ToWallet, BrowserOK
<1>6. open' \subseteq Purchases \X Memos
  BY <1>1 DEF ToWallet, Request, BrowserOK
<1> QED BY <1>4, <1>5, <1>6

\* A reservation fails: the run ends.
LEMMA NoIntentEnds ==
  ASSUME BrowserOK, HereOK, NEW r \in Runs, At(r, "intent"), NoIntentLeft(r)
  PROVE  TabOK' /\ rec' \in [Purchases -> RecType] /\ scope' \in SomePurchase
<1>1. runs[r] # NoRun /\ page.told \in BOOLEAN /\ TabOK
  BY PageTells DEF At, NoRun, BrowserOK, TabOK
<1>2. Clear /\ Ends(r) /\ Tells(r, page.told)
  BY DEF NoIntentLeft
<1>3. TabOK'
  BY ONLY <1>1, <1>2, RunEnds, r \in Runs
<1> QED BY <1>2, <1>3, RecordMoves

LEMMA WalletSteps ==
  ASSUME TypeOK, HereOK, AskedOK, NEW r \in Runs,
         \/ Intent(r) \/ IntentFails(r) \/ WalletPays(r) \/ WalletDenies(r)
         \/ WalletUnknown(r) \/ WalletFails(r) \/ WalletRedirects(r)
  PROVE  TabStep
<1>1. BrowserOK /\ CallOK /\ LedgerOK
  BY DEF TypeOK
<1>2. rec \in [Purchases -> RecType] /\ scope \in SomePurchase /\ page \in PageType
      /\ runs \in [Runs -> RunType] /\ open \subseteq Purchases \X Memos /\ asks \in 0..MaxAsks
  BY <1>1 DEF BrowserOK
<1>3. call.run # NoOne =>
        call.run \in Runs /\ (At(call.run, "poll") \/ At(call.run, "intent"))
  BY <1>1, CallStands
<1>5. At(r, "intent") \/ At(r, "wallet")
  BY DEF Intent, IntentFails, WalletPays, WalletDenies,
     WalletUnknown, WalletFails, WalletRedirects
<1>6. /\ runs[r] # NoRun /\ runs[r].for \in Purchases /\ runs[r].memo \in Memos
      /\ runs[r] \in [at : {"intent", "wallet", "poll"}, for : Purchases, memo : Memos,
                      hash : 0..MaxTxs, from : {"submit", "recover", "check"}, here : BOOLEAN]
  BY <1>2, <1>5 DEF At, NoRun, RunType
<1>7. page.told \in BOOLEAN
  BY <1>2, PageTells
<1>8. TabOK
  BY <1>2 DEF TabOK
<1>10. NoTx \in 0..MaxTxs
  BY Bounds DEF NoTx
<1>11. ASSUME TabOK', rec' \in [Purchases -> RecType], scope' \in SomePurchase,
              open' \subseteq Purchases \X Memos, UNCHANGED asks, SameAsk, call.run # r,
              \A q \in Runs : q # r => runs'[q] = runs[q]
       PROVE  TabStep
  <2>1. call.run # NoOne => SameRun(call.run)
    BY <1>3, <1>11 DEF SameRun
  <2>2. AskedOK'
    BY <1>11, <2>1, AskedKept
  <2> QED BY <1>2, <1>11, <2>2 DEF TabStep, TabOK, BrowserOK
<1>12. Ends(r) => \A q \in Runs : q # r => runs'[q] = runs[q]
  BY <1>2 DEF Ends
<1>4. At(r, "wallet") => call.run # r
  BY <1>3, Bounds DEF At
<1>9. UNCHANGED call => SameAsk
  BY DEF SameAsk
<1>13. CASE Intent(r)
  <2>1. At(r, "intent") /\ call = NoCall /\ asks < MaxAsks /\ UNCHANGED <<page, rec, scope>>
    BY <1>13 DEF Intent
  <2>2. call.run # r
    BY <2>1, Bounds DEF NoCall
  <2>3. CASE Open(r, "intent") /\ UNCHANGED <<runs, open, asks>>
    <3>1. call'.run = r /\ call'.at = "intent" /\ call'.for = runs[r].for
          /\ call'.memo = runs[r].memo
      BY <2>3 DEF Open
    <3>2. AskedOK'
      BY <2>1, <2>3, <3>1 DEF AskedOK, At
    <3> QED BY <1>2, <2>1, <2>3, <3>2 DEF TabStep, BrowserOK, HereOK
  <2>4. CASE ToWallet(r) /\ UNCHANGED call
    <3>1. /\ TabOK' /\ open' \subseteq Purchases \X Memos /\ asks' \in 0..MaxAsks
      BY <1>1, <2>1, <2>4, Signs
    <3>2. AskedOK'
      BY <2>1, <2>4 DEF AskedOK, NoCall
    <3> QED BY <1>2, <2>1, <3>1, <3>2 DEF TabStep, BrowserOK, TabOK
  <2> QED BY <1>13, <2>3, <2>4 DEF Intent
<1>14. CASE IntentFails(r)
  <2>1. At(r, "intent") /\ NoIntentLeft(r) /\ UNCHANGED <<open, asks>> /\ call' = Detached(r)
    BY <1>14 DEF IntentFails
  <2>2. TabOK' /\ rec' \in [Purchases -> RecType] /\ scope' \in SomePurchase
    BY <1>1, <2>1, NoIntentEnds
  <2>3. CASE call.run = r
    <3>1. AskedOK'
      BY <1>1, <2>1, <2>3, AskedDetached DEF Detached
    <3> QED BY <1>2, <2>1, <2>2, <3>1 DEF TabStep, TabOK, BrowserOK
  <2>4. CASE call.run # r
    <3>1. SameAsk /\ Ends(r)
      BY <1>9, <2>1, <2>4 DEF Detached, NoIntentLeft
    <3> QED BY <1>2, <1>11, <1>12, <2>1, <2>2, <2>4, <3>1
  <2> QED BY <2>3, <2>4
<1>15. CASE WalletPays(r)
  <2>1. PICK h \in {NoTx, Len(txs')} :
          /\ Mark(runs[r].for, h)
          /\ runs' = [runs EXCEPT ![r] = IF runs[r].here
                        THEN [runs[r] EXCEPT !.at = "poll", !.hash = h] ELSE NoRun]
    BY <1>15 DEF WalletPays
  <2>2. h \in 0..MaxTxs
    BY <1>1, <1>6, <1>15, BroadcastHash DEF WalletPays
  <2>3. rec' \in [Purchases -> RecType] /\ scope' \in SomePurchase
    BY <1>1, <1>6, <2>1, <2>2, RecordMoves
  <2>4. [runs[r] EXCEPT !.at = "poll", !.hash = h] \in RunType
    BY <1>6, <2>2 DEF RunType
  <2>5. runs' \in [Runs -> RunType] /\ (\A q \in Runs : q # r => runs'[q] = runs[q])
        /\ (runs'[r].here => runs[r].here)
    BY <1>2, <2>1, <2>4 DEF RunType, NoRun
  <2>6. page' \in PageType /\ (page # Away => page' # Away)
    <3>1. CASE ~runs[r].here
      BY <1>2, <1>15, <3>1 DEF WalletPays, Tells
    <3>2. CASE runs[r].here
      <4>1. page \in [at : Purchases, memo : Memos \union {NoMemo}, told : BOOLEAN]
        BY <1>2, <3>2 DEF HereOK, PageType
      <4>2. page' = [page EXCEPT !.told = TRUE, !.memo = runs[r].memo]
        BY <1>15, <3>2 DEF WalletPays, Tells
      <4>3. page' \in [at : Purchases, memo : Memos \union {NoMemo}, told : BOOLEAN]
        BY <1>6, <4>1, <4>2
      <4> QED BY <4>3, Bounds DEF PageType, Away
    <3> QED BY <3>1, <3>2
  <2>7. TabOK'
    BY <2>5, <2>6 DEF TabOK, HereOK
  <2>8. open' \subseteq Purchases \X Memos /\ UNCHANGED <<asks, call>> /\ At(r, "wallet")
    BY <1>2, <1>15 DEF WalletPays
  <2> QED BY <1>4, <1>9, <1>11, <2>3, <2>5, <2>7, <2>8
<1>16. CASE WalletDenies(r)
  <2>1. rec' \in [Purchases -> RecType] /\ scope' \in SomePurchase
    BY <1>1, <1>6, <1>16, RecordMoves DEF WalletDenies
  <2>2. TabOK'
    BY <1>6, <1>7, <1>8, <1>16, RunEnds DEF WalletDenies
  <2>3. open' \subseteq Purchases \X Memos /\ UNCHANGED asks /\ At(r, "wallet") /\ Ends(r)
    BY <1>2, <1>16 DEF WalletDenies
  <2>4. SameAsk
    <3>1. Writes({runs[r].memo}, {}, {}) \/ UNCHANGED call
      BY <1>16 DEF WalletDenies
    <3> QED BY <1>1, <1>9, <3>1, WritesMark, MarkedIs
  <2> QED BY <1>4, <1>11, <1>12, <2>1, <2>2, <2>3, <2>4
<1>17. CASE WalletUnknown(r)
  <2>1. PICK h \in 0..MaxTxs : Mark(runs[r].for, h)
    BY <1>1, <1>6, <1>10, <1>17, BroadcastHash DEF WalletUnknown
  <2>2. rec' \in [Purchases -> RecType] /\ scope' \in SomePurchase
    BY <1>1, <1>6, <2>1, RecordMoves
  <2>3. TabOK'
    BY <1>6, <1>8, <1>17, RunEnds DEF WalletUnknown
  <2>4. open' \subseteq Purchases \X Memos /\ UNCHANGED <<asks, call>> /\ At(r, "wallet") /\ Ends(r)
    BY <1>2, <1>17 DEF WalletUnknown
  <2> QED BY <1>4, <1>9, <1>11, <1>12, <2>2, <2>3, <2>4
<1>18. CASE WalletFails(r)
  <2>1. rec' \in [Purchases -> RecType] /\ scope' \in SomePurchase
    BY <1>1, <1>6, <1>18, RecordMoves DEF WalletFails
  <2>2. TabOK'
    BY <1>6, <1>7, <1>8, <1>18, RunEnds DEF WalletFails
  <2>3. UNCHANGED <<open, asks, call>> /\ At(r, "wallet") /\ Ends(r)
    BY <1>18 DEF WalletFails
  <2> QED BY <1>2, <1>4, <1>9, <1>11, <1>12, <2>1, <2>2, <2>3
<1>19. CASE WalletRedirects(r)
  <2>1. rec' \in [Purchases -> RecType] /\ scope' \in SomePurchase
    BY <1>1, <1>6, <1>10, <1>19, RecordMoves DEF WalletRedirects
  <2>2. TabOK'
    BY <1>8, <1>19, Leaves DEF WalletRedirects
  <2>3. UNCHANGED <<open, asks>> /\ call' = [call EXCEPT !.run = NoOne]
    BY <1>19 DEF WalletRedirects, Unloaded
  <2>4. AskedOK'
    BY <1>1, <2>3, AskedDetached
  <2> QED BY <1>2, <2>1, <2>2, <2>3, <2>4 DEF TabStep, TabOK, BrowserOK
<1> QED BY <1>13, <1>14, <1>15, <1>16, <1>17, <1>18, <1>19

\* The page hears of the failure, if it still waits.
LEMMA LostEnds ==
  ASSUME BrowserOK, HereOK, CallOK, AskedOK, Lost
  PROVE  TabOK' /\ rec' \in [Purchases -> RecType] /\ scope' \in SomePurchase
<1>1. CASE call.run = NoOne
  BY <1>1 DEF Lost, TabOK, BrowserOK, HereOK
<1>2. CASE call.run # NoOne /\ call.at = "intent"
  <2>1. call.run \in Runs /\ At(call.run, "intent") /\ NoIntentLeft(call.run)
    BY <1>2, CallStands DEF Lost
  <2> QED BY <2>1, NoIntentEnds
<1>3. CASE call.run # NoOne /\ call.at # "intent"
  <2>1. call.run \in Runs /\ At(call.run, "poll") /\ Refused(call.run)
    BY <1>3, CallStands DEF Lost
  <2> QED BY <2>1, WaitEnds
<1> QED BY <1>1, <1>2, <1>3

\* What a search leaves the shop with.
LEMMA SearchIs ==
  ASSUME NEW p, NEW m, NEW h, NEW r, Search(p, m, h, r)
  PROVE  \/ call' = NoCall
         \/ \E t \in Mined : /\ Memo(t) = m
                             /\ call' = [at |-> "record", for |-> p, memo |-> m, tx |-> t,
                                         run |-> r, older |-> {}, saw |-> {}, stale |-> FALSE]
BY DEF Search, Found, NoCall

\* What a request goes on with once its reservation stands.
LEMMA GrantedTab ==
  ASSUME BrowserOK, HereOK, CallOK, AskedOK, Granted, UNCHANGED <<page, rec, scope>>
  PROVE  TabStep
<1>1. CASE call.at = "submit" /\ UNCHANGED <<runs, open, asks>>
  <2>1. Search(call.for, call.memo, call.tx, call.run)
    BY <1>1 DEF Granted
  <2>2. call' = NoCall \/ (/\ call'.at = "record" /\ call'.for = call.for
                           /\ call'.memo = call.memo /\ call'.run = call.run)
    BY <2>1, SearchIs
  <2>3. AskedOK'
    BY <1>1, <2>2 DEF AskedOK, NoCall
  <2> QED BY <1>1, <2>3 DEF TabStep, BrowserOK, HereOK
<1>2. CASE call.at = "intent" /\ call' = NoCall
  <2>1. AskedOK'
    BY <1>2 DEF AskedOK, NoCall
  <2>2. CASE call.run # NoOne
    <3>1. call.run \in Runs /\ At(call.run, "intent") /\ asks < MaxAsks /\ ToWallet(call.run)
      BY <1>2, <2>2, CallStands DEF AskedOK, Granted
    <3>2. TabOK' /\ open' \subseteq Purchases \X Memos /\ asks' \in 0..MaxAsks
      BY <3>1, Signs
    <3> QED BY <2>1, <3>2 DEF TabStep, BrowserOK, TabOK
  <2>3. CASE call.run = NoOne
    <3>1. UNCHANGED <<runs, open, asks>>
      BY <1>2, <2>3 DEF Granted
    <3> QED BY <2>1, <3>1 DEF TabStep, BrowserOK, HereOK
  <2> QED BY <2>2, <2>3
<1> QED BY <1>1, <1>2 DEF Granted

\* A request of the tab is answered, or the shop loses it.
LEMMA AnswerSteps ==
  ASSUME TypeOK, HereOK, AskedOK,
         \/ \E q \in Purchases \X Memos : LateAnswer(q)
         \/ \E r \in Runs : SubmitKnown(r) \/ Submit(r) \/ AskFails(r) \/ AskEnds(r)
         \/ Persist \/ Retry \/ Record \/ Restart \/ \E t \in Txs : SettleCut(t)
  PROVE  TabStep
<1>1. BrowserOK /\ CallOK
  BY DEF TypeOK
<1>2. rec \in [Purchases -> RecType] /\ scope \in SomePurchase /\ page \in PageType
      /\ runs \in [Runs -> RunType] /\ open \subseteq Purchases \X Memos /\ asks \in 0..MaxAsks
  BY <1>1 DEF BrowserOK
<1>3. call.run # NoOne => call.run \in Runs
  BY <1>1, CallIs
<1>4. ASSUME UNCHANGED browser, AskedOK' PROVE TabStep
  BY <1>2, <1>4 DEF TabStep, BrowserOK, HereOK, browser
<1>5. NoCall.run = NoOne /\ NoCall.at = "none"
  BY DEF NoCall
<1>6. ASSUME TabOK', rec' \in [Purchases -> RecType], scope' \in SomePurchase,
             UNCHANGED <<open, asks>>, AskedOK'
      PROVE  TabStep
  BY <1>2, <1>6 DEF TabStep, TabOK, BrowserOK
<1>7. ASSUME NEW q \in Purchases \X Memos, LateAnswer(q) PROVE TabStep
  <2>1. UNCHANGED <<page, runs, rec, scope, asks, call>> /\ open' \subseteq open
    BY <1>7 DEF LateAnswer
  <2>2. AskedOK'
    BY <2>1, AskedKept DEF SameAsk, SameRun
  <2> QED BY <1>2, <2>1, <2>2 DEF TabStep, BrowserOK, HereOK
<1>8. ASSUME NEW r \in Runs, At(r, "poll"), Saved(r) \/ Refused(r) \/ GivesUp(r),
             UNCHANGED <<open, asks>>,
             (call.run # r /\ UNCHANGED call) \/ (call.run = r /\ call' = [call EXCEPT !.run = NoOne])
      PROVE  TabStep
  <2>1. TabOK' /\ rec' \in [Purchases -> RecType] /\ scope' \in SomePurchase
    BY <1>1, <1>8, WaitEnds
  <2>2. CASE call.run = r
    BY <1>1, <1>6, <1>8, <2>1, <2>2, AskedDetached
  <2>3. CASE call.run # r /\ UNCHANGED call
    <3>1. Ends(r)
      BY <1>8 DEF Saved, Refused, GivesUp
    <3>2. call.run # NoOne => SameRun(call.run)
      BY <1>2, <1>3, <2>3, <3>1 DEF Ends, SameRun
    <3>3. AskedOK'
      BY <1>8, <2>3, <3>2, AskedKept DEF SameAsk
    <3> QED BY <1>6, <1>8, <2>1, <3>3
  <2> QED BY <1>8, <2>2, <2>3
<1>9. ASSUME NEW r \in Runs, SubmitKnown(r) PROVE TabStep
  <2>1. At(r, "poll") /\ Saved(r) /\ UNCHANGED <<open, asks, call>> /\ call.run # r
    BY <1>5, <1>9, Bounds DEF SubmitKnown, Asks
  <2> QED BY <1>8, <2>1
<1>10. ASSUME NEW r \in Runs, AskFails(r) PROVE TabStep
  BY <1>8, <1>10 DEF AskFails, Detached
<1>11. ASSUME NEW r \in Runs, AskEnds(r) PROVE TabStep
  BY <1>8, <1>11 DEF AskEnds
<1>12. ASSUME NEW r \in Runs, Submit(r) PROVE TabStep
  <2>1. At(r, "poll") /\ UNCHANGED browser
    BY <1>12 DEF Submit, Asks
  <2>2. call' = NoCall \/ (/\ call'.at \in {"submit", "record"} /\ call'.for = runs[r].for
                           /\ call'.memo = runs[r].memo /\ call'.run = r)
    <3>1. CASE Open(r, "submit")
      BY <3>1 DEF Open
    <3>2. CASE Search(runs[r].for, runs[r].memo, runs[r].hash, r)
      BY <3>2, SearchIs
    <3> QED BY <1>12, <3>1, <3>2 DEF Submit
  <2>3. AskedOK'
    BY <1>5, <2>1, <2>2 DEF AskedOK, browser, At
  <2> QED BY <1>4, <2>1, <2>3
<1>13. ASSUME Lost, call' = NoCall, UNCHANGED <<open, asks>> PROVE TabStep
  <2>1. TabOK' /\ rec' \in [Purchases -> RecType] /\ scope' \in SomePurchase
    BY <1>1, <1>13, LostEnds
  <2> QED BY <1>1, <1>6, <1>13, <2>1, AskedDetached
<1>14. CASE Persist
  BY <1>1, <1>14, GrantedTab DEF Persist
<1>15. CASE Retry
  <2>1. CASE call' = [call EXCEPT !.saw = Matching(call.memo), !.stale = FALSE] /\ UNCHANGED browser
    <3>1. call # NoCall
      BY <1>5, <1>15 DEF Retry, Reserving
    <3>2. SameAsk
      BY <1>1, <2>1, <3>1, CallIs DEF SameAsk
    <3>3. AskedOK'
      BY <2>1, <3>2, AskedKept DEF browser, SameRun
    <3> QED BY <1>4, <2>1, <3>3
  <2>2. CASE Granted /\ UNCHANGED <<page, rec, scope>>
    BY <1>1, <2>2, GrantedTab
  <2>3. CASE Lost /\ call' = NoCall /\ UNCHANGED <<open, asks>>
    BY <1>13, <2>3
  <2>4. CASE call' = NoCall /\ UNCHANGED browser
    BY <1>1, <1>4, <2>4, AskedDetached DEF browser
  <2> QED BY <1>15, <2>1, <2>2, <2>3, <2>4 DEF Retry
<1>16. CASE Record
  <2>1. call' = NoCall /\ UNCHANGED <<open, asks>> /\ call.at = "record"
    BY <1>16 DEF Record
  <2>2. CASE Lost
    BY <1>13, <2>1, <2>2
  <2>3. CASE call.run # NoOne /\ Saved(call.run)
    <3>1. call.run \in Runs /\ At(call.run, "poll")
      BY <1>1, <2>1, <2>3, CallStands
    <3>2. TabOK' /\ rec' \in [Purchases -> RecType] /\ scope' \in SomePurchase
      BY <1>1, <2>3, <3>1, WaitEnds
    <3> QED BY <1>1, <1>6, <2>1, <3>2, AskedDetached
  <2>4. CASE UNCHANGED <<page, runs, rec, scope>>
    <3>1. AskedOK'
      BY <1>1, <2>1, AskedDetached
    <3> QED BY <1>2, <2>1, <2>4, <3>1 DEF TabStep, BrowserOK, HereOK
  <2> QED BY <1>16, <2>2, <2>3, <2>4 DEF Record
<1>17. CASE Restart
  BY <1>13, <1>17 DEF Restart
<1>18. ASSUME NEW t \in Txs, SettleCut(t) PROVE TabStep
  BY <1>13, <1>18 DEF SettleCut
<1> QED BY <1>7, <1>9, <1>10, <1>11, <1>12, <1>14, <1>15, <1>16, <1>17, <1>18

\* What the watcher, the chain and the operator do leaves the browser alone.
Outside == \/ ScanPage \/ Tick \/ Switch
           \/ \E p \in Purchases : Deliver(p)
           \/ \E t \in Txs : \/ Look(t) \/ Unconfirmed(t) \/ NodeFails(t) \/ Match(t)
                             \/ Settle(t) \/ Wake(t) \/ Mine(t)

LEMMA OutsideMarks ==
  ASSUME CallOK, Outside
  PROVE  UNCHANGED browser /\ Marked
<1>1. ASSUME UNCHANGED call PROVE Marked
  BY <1>1 DEF Marked
<1>2. CASE ScanPage \/ Tick \/ Switch
  BY <1>1, <1>2 DEF ScanPage, Tick, Switch
<1>3. ASSUME NEW p \in Purchases, Deliver(p) PROVE UNCHANGED browser /\ Marked
  BY <1>1, <1>3 DEF Deliver
<1>4. ASSUME NEW t \in Txs, NodeFails(t) \/ Wake(t) \/ Mine(t) PROVE UNCHANGED browser /\ Marked
  BY <1>1, <1>4 DEF NodeFails, Wake, Mine
<1>5. ASSUME NEW t \in Txs, Look(t) \/ Unconfirmed(t) PROVE UNCHANGED browser /\ Marked
  BY <1>1, <1>5, WritesMark DEF Look, Unconfirmed
<1>6. ASSUME NEW t \in Txs, Match(t) PROVE UNCHANGED browser /\ Marked
  BY <1>1, <1>6, WritesMark DEF Match
<1>7. ASSUME NEW t \in Txs, Settle(t) PROVE UNCHANGED browser /\ Marked
  BY <1>7, WritesMark DEF Settle
<1> QED BY <1>2, <1>3, <1>4, <1>5, <1>6, <1>7 DEF Outside

\* The ways a step may be taken.
LEMMA StepIs ==
  ASSUME [Next]_vars
  PROVE  \/ (\E p \in Purchases : Visit(p) \/ Expire(p)) \/ (\E m \in Memos : Rate(m))
              \/ Leave \/ Unload \/ Check
         \/ \E r \in Runs : \/ Intent(r) \/ IntentFails(r) \/ WalletPays(r) \/ WalletDenies(r)
                            \/ WalletUnknown(r) \/ WalletFails(r) \/ WalletRedirects(r)
         \/ \E q \in Purchases \X Memos : LateAnswer(q)
         \/ \E r \in Runs : SubmitKnown(r) \/ Submit(r) \/ AskFails(r) \/ AskEnds(r)
         \/ Persist \/ Retry \/ Record \/ Restart
         \/ \E t \in Txs : SettleCut(t)
         \/ Outside
         \/ UNCHANGED vars
BY DEF Next, Browser, Watcher, World, Outside

\* The browser, in every step.
LEMMA TabPreserved ==
  ASSUME TypeOK, HereOK, AskedOK, [Next]_vars
  PROVE  TabStep
<1>1. BrowserOK /\ CallOK
  BY DEF TypeOK
<1>2. ASSUME UNCHANGED browser, Marked PROVE TabStep
  <2>1. AskedOK'
    BY <1>1, <1>2, MarkedIs, AskedKept DEF browser, SameRun
  <2> QED BY <1>1, <1>2, <2>1 DEF TabStep, BrowserOK, HereOK, browser
<1>3. CASE Outside
  BY <1>1, <1>2, <1>3, OutsideMarks
<1>4. CASE UNCHANGED vars
  BY <1>2, <1>4 DEF vars, Marked
<1> QED BY <1>3, <1>4, StepIs, PageSteps, WalletSteps, AnswerSteps

-----------------------------------------------------------------------------
(* The payments and the books.                                             *)

\* The ledger only grows.
Grows == /\ LedgerOK' /\ Mined \subseteq Mined'
         /\ \A t \in Mined : txs'[t] = txs[t]

LEMMA BroadcastGrows ==
  ASSUME LedgerOK, NEW m \in Memos, Broadcast(m)
  PROVE  Grows /\ chain' = chain
<1>1. txs \in Seq(Memos) /\ txs' = Append(txs, m) /\ Len(txs) < MaxTxs
      /\ chain' = chain /\ seen' = seen
  BY DEF LedgerOK, Broadcast
<1>2. Len(txs') = Len(txs) + 1 /\ Len(txs) \in Nat /\ txs' \in Seq(Memos)
      /\ \A t \in 1..Len(txs) : txs'[t] = txs[t]
  BY <1>1
<1>3. chain' \in Seq(1..Len(txs'))
  <2>1. chain \in Seq(1..Len(txs)) /\ 1..Len(txs) \subseteq 1..Len(txs')
    BY <1>2 DEF LedgerOK
  <2> QED BY <1>1, <2>1
<1>4. Mined' = Mined
  BY <1>1 DEF Mined
<1>5. LedgerOK'
  BY <1>1, <1>2, <1>3, Bounds DEF LedgerOK
<1> QED BY <1>1, <1>2, <1>4, <1>5, MinedIs DEF Grows

LEMMA LedgerSteps ==
  ASSUME TypeOK, [Next]_vars
  PROVE  Grows
<1>1. LedgerOK /\ AdminOK /\ BrowserOK
  BY DEF TypeOK
<1>2. ASSUME UNCHANGED ledger PROVE Grows
  BY <1>1, <1>2 DEF ledger, Grows, LedgerOK, Mined
<1>3. ASSUME NEW t \in Txs, Mine(t) PROVE Grows
  BY <1>1, <1>3, MineGrows DEF Grows, Mine
<1>4. ASSUME NEW r \in Runs, WalletPays(r) \/ WalletUnknown(r) PROVE Grows
  <2>1. runs[r].memo \in Memos
    <3>1. runs[r].at = "wallet"
      BY <1>4 DEF WalletPays, WalletUnknown, At
    <3> QED BY <1>1, <3>1 DEF BrowserOK, RunType, NoRun
  <2> QED BY <1>1, <1>2, <1>4, <2>1, BroadcastGrows DEF WalletPays, WalletUnknown
<1>5. ASSUME NEW q \in Purchases \X Memos, LateAnswer(q) PROVE Grows
  BY <1>1, <1>2, <1>5, BroadcastGrows DEF LateAnswer
<1>6. ASSUME NEW r \in Runs,
             \/ Intent(r) \/ IntentFails(r) \/ WalletDenies(r) \/ WalletFails(r)
             \/ WalletRedirects(r) \/ SubmitKnown(r) \/ Submit(r) \/ AskFails(r)
             \/ AskEnds(r)
      PROVE  UNCHANGED ledger
  BY <1>6 DEF Intent, IntentFails, WalletDenies, WalletFails, WalletRedirects,
              SubmitKnown, Submit, AskFails, AskEnds
<1>7. ASSUME \/ \E p \in Purchases : Visit(p) \/ Expire(p)
             \/ \E m \in Memos : Rate(m)
             \/ Leave \/ Unload \/ Check \/ Record \/ Persist \/ Retry \/ Restart
             \/ \E t \in Txs : SettleCut(t)
      PROVE  UNCHANGED ledger
  BY <1>7 DEF Visit, Expire, Rate, Leave, Unload, Check, Record, Persist, Retry, Restart, SettleCut
<1>8. CASE Outside
  <2>1. ASSUME NEW t \in Txs,
               \/ Look(t) \/ Unconfirmed(t) \/ NodeFails(t) \/ Match(t) \/ Settle(t) \/ Wake(t)
        PROVE  UNCHANGED ledger
    BY <2>1 DEF Look, Unconfirmed, NodeFails, Match, Settle, Wake
  <2>2. ScanPage \/ Tick \/ Switch \/ (\E p \in Purchases : Deliver(p)) => UNCHANGED ledger
    BY DEF ScanPage, Tick, Switch, Deliver
  <2> QED BY <1>2, <1>3, <1>8, <2>1, <2>2 DEF Outside
<1>9. CASE UNCHANGED vars
  BY <1>2, <1>9 DEF vars
<1> QED BY <1>2, <1>4, <1>5, <1>6, <1>7, <1>8, <1>9, StepIs

\* What a step may do to the books: nothing, reserve a memo, release one, or
\* write a rating for a mined payment nobody was credited for.
Reserves == \E p \in Purchases, m \in Memos, older \in SUBSET Txs, saw \in SUBSET Txs :
              Reserve(p, m, older, saw) /\ UNCHANGED <<rating, proved>>
Releases == \E m \in Memos : Release(m) /\ UNCHANGED <<rating, proved>>
Applies == \E p \in Purchases, m \in Memos, t \in Txs :
             /\ Refusal(p, m, t) = "none" /\ Apply(p, m, t)
             /\ t \in Mined /\ Memo(t) = m

LEMMA MemoOf ==
  ASSUME LedgerOK, NEW t \in Mined
  PROVE  Memo(t) \in Memos /\ t \in Txs
<1>1. t \in 1..Len(txs) /\ txs \in Seq(Memos)
  BY MinedIs DEF LedgerOK
<1> QED BY <1>1, MinedIs DEF Memo

LEMMA RefusalNone ==
  ASSUME NEW p \in Purchases, NEW m \in Memos, NEW t \in Txs, Refusal(p, m, t) = "none"
  PROVE  /\ intent[m] # NoIntent /\ intent[m].for = p /\ rating[p].memo # m
         /\ ~(rating[p].edits >= MaxRatings) /\ proved[t] = NoPurchase
BY DEF Refusal

\* The entry in hand is a mined payment.
LEMMA ThisIs ==
  ASSUME LedgerOK, WatcherOK, NEW t \in Txs, This(t)
  PROVE  /\ t \in Mined /\ Memo(t) \in Memos /\ watch.for \in SomePurchase
         /\ inbox[t] = "pending" /\ t \in watch.batch
<1>1. t \in watch.batch /\ inbox[t] = "pending" /\ t \in Mined /\ watch.for \in SomePurchase
  BY DEF WatcherOK, This, First
<1> QED BY <1>1, MemoOf

\* The watcher's own reservation is for a purchase delivered when it was paid.
LEMMA MatchIs ==
  ASSUME LedgerOK, NEW t \in Txs, Match(t)
  PROVE  \/ UNCHANGED <<intent, entries, call>>
         \/ \E p \in Purchases : Reserve(p, Memo(t), {}, Matching(Memo(t)))
<1>1. Only(t) \subseteq Purchases
  BY DEF Only, LedgerOK
<1> QED BY <1>1 DEF Match

LEMMA BooksMove ==
  ASSUME TypeOK, [Next]_vars
  PROVE  UNCHANGED books \/ Reserves \/ Releases \/ Applies
<1>1. BrowserOK /\ LedgerOK /\ WatcherOK /\ CallOK /\ BooksOK
  BY DEF TypeOK
<1>2. ASSUME NEW r \in Runs, WalletDenies(r) PROVE UNCHANGED books \/ Releases
  <2>1. runs[r].memo \in Memos
    BY <1>1, <1>2 DEF WalletDenies, At, BrowserOK, RunType, NoRun
  <2> QED BY <1>2, <2>1 DEF WalletDenies, Releases, books
<1>3. ASSUME Persist PROVE Reserves
  <2>1. call # NoCall
    BY <1>3 DEF Persist, Reserving, NoCall
  <2>2. call.for \in Purchases /\ call.memo \in Memos /\ call.older \in SUBSET Txs
        /\ call.saw \in SUBSET Txs
    BY <1>1, <2>1, CallIs
  <2>3. Reserve(call.for, call.memo, call.older, call.saw) /\ UNCHANGED <<rating, proved>>
    BY <1>3 DEF Persist
  <2> QED BY <2>2, <2>3 DEF Reserves
<1>4. ASSUME Record PROVE UNCHANGED books \/ Applies
  <2>1. call # NoCall
    BY <1>4 DEF Record, NoCall
  <2>2. call.for \in Purchases /\ call.memo \in Memos
        /\ call.tx \in Mined /\ Memo(call.tx) = call.memo
    BY <1>1, <1>4, <2>1, CallIs DEF CallOK, Record
  <2>3. call.tx \in Txs
    BY <1>1, <2>2, MinedIs
  <2>4. CASE Refusal(call.for, call.memo, call.tx) = "none"
    BY <1>4, <2>2, <2>3, <2>4 DEF Record, Applies
  <2>5. CASE Refusal(call.for, call.memo, call.tx) # "none"
    BY <1>4, <2>5 DEF Record
  <2> QED BY <2>4, <2>5
<1>5. ASSUME NEW t \in Txs, Match(t) PROVE UNCHANGED books \/ Reserves
  <2>1. This(t) /\ UNCHANGED <<rating, proved>>
    BY <1>5 DEF Match
  <2>2. CASE UNCHANGED intent
    BY <2>1, <2>2 DEF books
  <2>3. CASE \E p \in Purchases : Reserve(p, Memo(t), {}, Matching(Memo(t)))
    <3>1. Memo(t) \in Memos
      BY <1>1, <2>1, ThisIs
    <3>2. Matching(Memo(t)) \in SUBSET Txs
      BY <1>1, MinedIs DEF Matching, WatcherOK
    <3> QED BY <2>1, <2>3, <3>1, <3>2 DEF Reserves
  <2> QED BY <1>1, <1>5, <2>2, <2>3, MatchIs
<1>6. ASSUME NEW t \in Txs, Settle(t) PROVE UNCHANGED books \/ Releases \/ Applies
  <2>1. t \in Mined /\ Memo(t) \in Memos /\ watch.for \in SomePurchase
    BY <1>1, <1>6, ThisIs DEF Settle
  <2>2. CASE UNCHANGED books
    BY <2>2
  <2>3. CASE Release(Memo(t)) /\ UNCHANGED <<rating, proved>>
    BY <2>1, <2>3 DEF Releases
  <2>4. CASE /\ watch.for # NoPurchase /\ Refusal(watch.for, Memo(t), t) = "none"
             /\ Apply(watch.for, Memo(t), t)
    BY <2>1, <2>4 DEF Applies, SomePurchase
  <2> QED BY <1>6, <2>2, <2>3, <2>4 DEF Settle
<1>7. ASSUME NEW t \in Txs, SettleCut(t) PROVE Applies
  <2>1. t \in Mined /\ Memo(t) \in Memos /\ watch.for \in SomePurchase
    BY <1>1, <1>7, ThisIs DEF SettleCut
  <2> QED BY <1>7, <2>1 DEF SettleCut, Applies, SomePurchase
<1>8. ASSUME NEW r \in Runs,
             \/ Intent(r) \/ IntentFails(r) \/ WalletPays(r) \/ WalletUnknown(r)
             \/ WalletFails(r) \/ WalletRedirects(r)
             \/ SubmitKnown(r) \/ Submit(r) \/ AskFails(r) \/ AskEnds(r)
      PROVE  UNCHANGED books
  BY <1>8 DEF Intent, IntentFails, WalletPays, WalletUnknown, WalletFails, WalletRedirects,
              SubmitKnown, Submit, AskFails, AskEnds
<1>9. ASSUME \/ \E p \in Purchases : Visit(p) \/ Expire(p)
             \/ \E m \in Memos : Rate(m)
             \/ \E q \in Purchases \X Memos : LateAnswer(q)
             \/ Leave \/ Unload \/ Check \/ Retry \/ Restart
      PROVE  UNCHANGED books
  BY <1>9 DEF Visit, Expire, Rate, Leave, Unload, Check, LateAnswer, Retry, Restart
<1>10. CASE Outside
  <2>1. ASSUME NEW t \in Txs, Look(t) \/ Unconfirmed(t) \/ NodeFails(t) \/ Wake(t) \/ Mine(t)
        PROVE  UNCHANGED books
    BY <2>1 DEF Look, Unconfirmed, NodeFails, Wake, Mine
  <2>2. ScanPage \/ Tick \/ Switch \/ (\E p \in Purchases : Deliver(p)) => UNCHANGED books
    BY DEF ScanPage, Tick, Switch, Deliver
  <2> QED BY <1>5, <1>6, <1>10, <2>1, <2>2 DEF Outside
<1>11. CASE UNCHANGED vars
  BY <1>11 DEF vars
<1> QED BY <1>2, <1>3, <1>4, <1>7, <1>8, <1>9, <1>10, <1>11, StepIs

\* The payments credited to a purchase are finitely many.
LEMMA CreditedIsFinite ==
  ASSUME NEW p
  PROVE  IsFiniteSet({t \in Txs : proved[t] = p})
<1>1. IsFiniteSet(Txs)
  BY Bounds, FS_Interval DEF Txs
<1> QED BY <1>1, FS_Subset

\* A new rating leaves every rating paid, by payments of its own.
LEMMA ApplyPays ==
  ASSUME LedgerOK, BooksOK, RatingsArePaid, Grows, Applies
  PROVE  BooksOK' /\ RatingsArePaid'
<1>1. PICK p \in Purchases, m \in Memos, t \in Txs :
        /\ Refusal(p, m, t) = "none" /\ Apply(p, m, t)
        /\ t \in Mined /\ Memo(t) = m
  BY DEF Applies
<1>2. /\ rating' = [rating EXCEPT ![p] = [memo |-> m, tx |-> t, edits |-> rating[p].edits + 1]]
      /\ proved' = [proved EXCEPT ![t] = p]
      /\ intent' = [intent EXCEPT ![m] = NoIntent]
  BY <1>1 DEF Apply, Release
<1>3. proved[t] = NoPurchase /\ ~(rating[p].edits >= MaxRatings)
  BY <1>1, RefusalNone
<1>4. /\ intent \in [Memos -> [for : SomePurchase, older : SUBSET Txs]]
      /\ rating \in [Purchases -> [memo : Memos \union {NoMemo}, tx : 0..MaxTxs,
                                   edits : 0..MaxRatings]]
      /\ proved \in [Txs -> SomePurchase]
      /\ \A u \in Txs : proved[u] # NoPurchase => u \in Mined
  BY DEF BooksOK
<1>5. BooksOK'
  <2>1. NoIntent \in [for : SomePurchase, older : SUBSET Txs]
    BY DEF NoIntent, SomePurchase
  <2>2. [memo |-> m, tx |-> t, edits |-> rating[p].edits + 1] \in
           [memo : Memos \union {NoMemo}, tx : 0..MaxTxs, edits : 0..MaxRatings]
    <3>1. rating[p].edits \in 0..MaxRatings /\ t \in 0..MaxTxs
      BY <1>4, Bounds DEF Txs
    <3>2. rating[p].edits + 1 \in 0..MaxRatings
      BY <1>3, <3>1, Bounds
    <3> QED BY <3>1, <3>2
  <2>3. \A u \in Txs : proved'[u] # NoPurchase => u \in Mined'
    BY <1>1, <1>2, <1>4 DEF Grows
  <2> QED BY <1>2, <1>4, <2>1, <2>2, <2>3 DEF BooksOK, SomePurchase
<1>6. ASSUME NEW q \in Purchases
      PROVE  /\ rating'[q].edits = Cardinality({u \in Txs : proved'[u] = q})
             /\ rating'[q].memo # NoMemo =>
                  /\ rating'[q].tx \in Mined' /\ proved'[rating'[q].tx] = q
                  /\ txs'[rating'[q].tx] = rating'[q].memo
  <2>1. CASE q = p
    <3>1. {u \in Txs : proved'[u] = p} = {u \in Txs : proved[u] = p} \union {t}
      BY <1>2, <1>4
    <3>2. t \notin {u \in Txs : proved[u] = p}
      BY <1>3, Bounds
    <3>3. Cardinality({u \in Txs : proved'[u] = p})
            = Cardinality({u \in Txs : proved[u] = p}) + 1
      <4> DEFINE Old == {u \in Txs : proved[u] = p}
      <4>1. IsFiniteSet(Old)
        BY CreditedIsFinite
      <4>2. t \notin Old
        BY <3>2
      <4> HIDE DEF Old
      <4>3. Cardinality(Old \union {t}) = Cardinality(Old) + 1
        BY <4>1, <4>2, FS_AddElement
      <4> QED BY <3>1, <4>3 DEF Old
    <3>4. rating'[p] = [memo |-> m, tx |-> t, edits |-> rating[p].edits + 1]
      BY <1>2, <1>4
    <3>5. rating[p].edits = Cardinality({u \in Txs : proved[u] = p})
      BY DEF RatingsArePaid
    <3>6. t \in Mined' /\ proved'[t] = p /\ txs'[t] = m
      BY <1>1, <1>2, <1>4 DEF Grows, Memo
    <3> QED BY <2>1, <3>3, <3>4, <3>5, <3>6
  <2>2. CASE q # p
    <3>1. {u \in Txs : proved'[u] = q} = {u \in Txs : proved[u] = q}
      BY <1>2, <1>3, <1>4, <2>2, Bounds
    <3>2. rating'[q] = rating[q]
      BY <1>2, <1>4, <2>2
    <3>3. rating[q].memo # NoMemo =>
                  /\ rating[q].tx \in Mined /\ proved[rating[q].tx] = q
                  /\ txs[rating[q].tx] = rating[q].memo
      BY DEF RatingsArePaid, Memo
    <3>4. rating[q].memo # NoMemo => rating[q].tx # t
      BY <1>3, <3>3, Bounds
    <3>5. rating[q].memo # NoMemo => rating[q].tx \in Txs
      BY <3>3, MinedIs
    <3>6. rating[q].memo # NoMemo => proved'[rating[q].tx] = q
      BY <1>2, <1>4, <3>3, <3>4, <3>5
    <3> QED BY <3>1, <3>2, <3>3, <3>6 DEF RatingsArePaid, Grows
  <2> QED BY <2>1, <2>2
<1> QED BY <1>5, <1>6 DEF RatingsArePaid, Memo

LEMMA BooksPreserved ==
  ASSUME TypeOK, RatingsArePaid, [Next]_vars
  PROVE  BooksOK' /\ RatingsArePaid'
<1>1. LedgerOK /\ BooksOK /\ Grows
  BY LedgerSteps DEF TypeOK
<1>2. ASSUME UNCHANGED <<rating, proved>> PROVE RatingsArePaid'
  <2>1. \A q \in Purchases : rating[q].memo # NoMemo =>
          /\ rating[q].tx \in Mined' /\ proved[rating[q].tx] = q
          /\ txs'[rating[q].tx] = rating[q].memo
    BY <1>1 DEF RatingsArePaid, Grows, Memo
  <2> QED BY <1>2, <2>1 DEF RatingsArePaid, Memo
<1>3. ASSUME UNCHANGED <<rating, proved>>,
             intent' \in [Memos -> [for : SomePurchase, older : SUBSET Txs]]
      PROVE  BooksOK' /\ RatingsArePaid'
  BY <1>1, <1>2, <1>3 DEF BooksOK, Grows
<1>4. CASE UNCHANGED books
  BY <1>1, <1>3, <1>4 DEF books, BooksOK
<1>5. CASE Reserves
  <2>1. intent' \in [Memos -> [for : SomePurchase, older : SUBSET Txs]]
    BY <1>1, <1>5 DEF Reserves, Reserve, BooksOK, SomePurchase
  <2> QED BY <1>3, <1>5, <2>1 DEF Reserves
<1>6. CASE Releases
  <2>1. NoIntent \in [for : SomePurchase, older : SUBSET Txs]
    BY DEF NoIntent, SomePurchase
  <2>2. intent' \in [Memos -> [for : SomePurchase, older : SUBSET Txs]]
    BY <1>1, <1>6, <2>1 DEF Releases, Release, BooksOK
  <2> QED BY <1>3, <1>6, <2>2 DEF Releases
<1>7. CASE Applies
  BY <1>1, <1>7, ApplyPays
<1> QED BY <1>4, <1>5, <1>6, <1>7, BooksMove

-----------------------------------------------------------------------------
(* The inbox.                                                              *)

Statuses == {"unseen", "pending", "unmatched", "applied", "ignored"}
InboxOK == /\ inbox \in [Txs -> Statuses]
           /\ \A t \in Txs : inbox[t] # "unseen" => t \in Mined
           /\ resting \subseteq {t \in Txs : inbox[t] = "pending"}
           /\ {t \in Txs : inbox[t] = "unmatched"} \subseteq filed /\ filed \subseteq Mined
\* no memo is newly reserved
Freed == \A m \in Memos : intent[m] = NoIntent => intent'[m] = NoIntent
\* no payment falls asleep
Awake == \A t \in Txs : Asleep(t)' => Asleep(t)
\* or it does in the one way there is
SleepOK == \A t \in Txs : ~Asleep(t) /\ Asleep(t)' =>
             Reserving /\ call.memo = Memo(t) /\ t \notin call.saw /\ Persist

LEMMA FreedBy ==
  ASSUME BooksOK, UNCHANGED intent \/ Releases \/ Applies
  PROVE  Freed
<1>1. CASE UNCHANGED intent
  BY <1>1 DEF Freed
<1>2. CASE Releases
  BY <1>2 DEF BooksOK, Freed, Releases, Release
<1>3. CASE Applies
  BY <1>3 DEF BooksOK, Freed, Applies, Apply, Release
<1> QED BY <1>1, <1>2, <1>3

LEMMA AwakeEnough == Awake => SleepOK
BY DEF Awake, SleepOK

\* Nothing is filed, and nothing put aside becomes wanted.
LEMMA InboxKept ==
  ASSUME LedgerOK, InboxOK, Grows, Freed,
         UNCHANGED <<inbox, filed>>, resting' \subseteq {t \in Txs : inbox[t] = "pending"}
  PROVE  InboxOK' /\ Awake
<1>1. \A t \in Mined : Memo(t)' = Memo(t) /\ Memo(t) \in Memos
  BY MemoOf DEF Grows, Memo
<1>2. \A t \in Txs : inbox[t] = "unmatched" => t \in Mined
  BY DEF InboxOK
<1>3. Awake
  BY <1>1, <1>2 DEF Awake, Asleep, Freed
<1> QED BY <1>3 DEF InboxOK, Grows

\* A reservation wakes what it saw waiting for its memo.
LEMMA InboxReserved ==
  ASSUME LedgerOK, BooksOK, InboxOK, Grows, NEW p \in Purchases,
         NEW m \in Memos, NEW older, NEW saw, Reserve(p, m, older, saw)
  PROVE  /\ InboxOK'
         /\ \A t \in Txs : Asleep(t)' => Asleep(t) \/ (Memo(t) = m /\ t \notin saw)
         /\ \A t \in Txs : inbox[t] = "pending" => inbox'[t] = "pending"
<1>1. \A t \in Mined : Memo(t)' = Memo(t) /\ Memo(t) \in Memos
  BY MemoOf DEF Grows, Memo
<1> DEFINE Woken == saw \intersect Wanted(m)
<1>2. /\ intent' = [intent EXCEPT ![m] = [for |-> p, older |-> older]]
      /\ inbox' = [t \in Txs |-> IF t \in Woken THEN "pending" ELSE inbox[t]]
      /\ resting' = resting \ Woken /\ filed' = filed
  BY DEF Reserve
<1>3. \A t \in Woken : t \in Txs /\ inbox[t] = "unmatched" /\ Memo(t) = m
  BY DEF Wanted
<1>4. \A t \in Txs : inbox[t] = "unmatched" /\ Memo(t) = m /\ t \in saw => t \in Woken
  BY DEF Wanted
<1> HIDE DEF Woken
<1>5. InboxOK'
  BY <1>2, <1>3 DEF InboxOK, Grows, Statuses
<1>6. ASSUME NEW t \in Txs, Asleep(t)', ~Asleep(t)
      PROVE  Memo(t) = m /\ t \notin saw
  <2>1. inbox[t] = "unmatched" /\ t \notin Woken /\ t \in Mined
    BY <1>2, <1>6 DEF Asleep, InboxOK
  <2>2. Memo(t) = m
    BY <1>1, <1>2, <1>6, <2>1 DEF Asleep, BooksOK
  <2> QED BY <1>4, <2>1, <2>2
<1> QED BY <1>2, <1>5, <1>6

\* An entry is filed, put aside only while nobody wants it.
LEMMA InboxFiled ==
  ASSUME LedgerOK, InboxOK, Grows, Freed,
         NEW t \in Txs, inbox[t] = "pending",
         NEW status \in {"pending", "unmatched", "applied", "ignored"}, File(t, status),
         status = "unmatched" => intent[Memo(t)] = NoIntent
  PROVE  /\ InboxOK' /\ Awake
         /\ \A u \in Txs : u # t => inbox'[u] = inbox[u]
<1>1. \A u \in Mined : Memo(u)' = Memo(u) /\ Memo(u) \in Memos
  BY MemoOf DEF Grows, Memo
<1>2. /\ inbox' = [inbox EXCEPT ![t] = status] /\ resting' = resting \ {t}
      /\ filed' = IF status = "unmatched" THEN filed \union {t} ELSE filed
  BY DEF File
<1>3. \A u \in Txs : u # t => inbox'[u] = inbox[u]
  BY <1>2 DEF InboxOK
<1>4. t \in Mined /\ inbox'[t] = status
  BY <1>2 DEF InboxOK
<1>5. InboxOK'
  BY <1>2, <1>3, <1>4 DEF InboxOK, Grows, Statuses
<1>6. ASSUME NEW u \in Txs, Asleep(u)' PROVE Asleep(u)
  <2>1. u \in Mined /\ Memo(u)' = Memo(u) /\ Memo(u) \in Memos
    BY <1>1, <1>3, <1>4, <1>6 DEF Asleep, InboxOK
  <2>2. intent[Memo(u)] # NoIntent
    BY <1>6, <2>1 DEF Freed, Asleep
  <2>3. u # t
    BY <1>4, <1>6, <2>2 DEF Asleep
  <2> QED BY <1>3, <1>6, <2>2, <2>3 DEF Asleep
<1> QED BY <1>3, <1>5, <1>6 DEF Awake

WatchType == [batch : SUBSET Txs, at : {"next", "proof", "intent"}, for : SomePurchase,
              older : BOOLEAN]

LEMMA WatcherParts ==
  WatcherOK <=> /\ InboxOK
                /\ scan \in [head : 0..MaxTxs, target : 0..MaxTxs, before : 0..MaxTxs]
                /\ {scan.head, scan.target, scan.before} \subseteq Mined \union {NoTx}
                /\ watch \in WatchType
                /\ watch.batch \subseteq {t \in Txs : inbox[t] = "pending"}
BY DEF WatcherOK, InboxOK, WatchType, Statuses

LEMMA WatcherPartsNext ==
  WatcherOK' <=> /\ InboxOK'
                 /\ scan' \in [head : 0..MaxTxs, target : 0..MaxTxs, before : 0..MaxTxs]
                 /\ {scan'.head, scan'.target, scan'.before} \subseteq Mined' \union {NoTx}
                 /\ watch' \in WatchType
                 /\ watch'.batch \subseteq {t \in Txs : inbox'[t] = "pending"}
BY DEF WatcherOK, InboxOK, WatchType, Statuses

\* The entry in hand is dropped from the tick.
LEMMA NextEntryIs ==
  ASSUME watch \in WatchType, NEW t \in Txs
  PROVE  /\ NextEntry(t) \in WatchType /\ NextEntry(t).batch = watch.batch \ {t}
         /\ Unread \in WatchType /\ Unread.batch = {}
BY DEF NextEntry, Unread, WatchType, SomePurchase

-----------------------------------------------------------------------------
(* The position in the history.                                            *)

LEMMA Positions ==
  ASSUME LedgerOK, WatcherOK
  PROVE  /\ Place(scan.head) \in 0..Len(chain) /\ Place(scan.target) \in 0..Len(chain)
         /\ Place(scan.before) \in 0..Len(chain)
         /\ scan.before # NoTx => Place(scan.before) \in 1..Len(chain)
         /\ scan.head = NoTx => Place(scan.head) = 0
         /\ Newest \in 0..Len(chain) /\ Len(chain) \in Nat
         /\ scan.before = NoTx => Newest = Len(chain)
         /\ scan.before # NoTx => Newest = Place(scan.before) - 1
<1>1. \A t \in Mined \union {NoTx} :
        Place(t) \in 0..Len(chain) /\ (t # NoTx => Place(t) \in 1..Len(chain))
  BY PlaceIs, MinedIs
<1>2. {scan.head, scan.target, scan.before} \subseteq Mined \union {NoTx}
  BY DEF WatcherOK
<1>3. Len(chain) \in Nat
  BY MinedIs
<1>4. Place(NoTx) = 0
  BY PlaceIs
<1> QED BY <1>1, <1>2, <1>3, <1>4 DEF Newest

LEMMA AdvanceIs ==
  ASSUME LedgerOK, WatcherOK
  PROVE  /\ Advance \in [head : 0..MaxTxs, target : 0..MaxTxs, before : 0..MaxTxs]
         /\ {Advance.head, Advance.target, Advance.before} \subseteq Mined \union {NoTx}
<1>1. Newest \in 0..Len(chain) /\ Len(chain) \in Nat
  BY Positions
<1>2. \A i \in 1..Len(chain) : chain[i] \in Mined
  BY MinedIs
<1>3. Mined \union {NoTx} \subseteq 0..MaxTxs
  BY MinedIs, Bounds DEF Txs, NoTx
<1>4. Read # {} => Newest \in 1..Len(chain)
  BY <1>1 DEF Read
<1>5. ~(Newest < PageSize) => Newest + 1 - PageSize \in 1..Len(chain)
  BY <1>1, Bounds
<1>6. {scan.head, scan.target, scan.before} \subseteq Mined \union {NoTx}
  BY DEF WatcherOK
<1> DEFINE target == IF scan.target = NoTx /\ Read # {} THEN chain[Newest] ELSE scan.target
<1>7. target \in Mined \union {NoTx}
  BY <1>2, <1>4, <1>6
<1> HIDE DEF target
<1>8. CASE Reached \/ Newest < PageSize
  <2>1. Advance = [head |-> IF target = NoTx THEN scan.head ELSE target,
                   target |-> NoTx, before |-> NoTx]
    BY <1>8 DEF Advance, target
  <2> QED BY <1>3, <1>6, <1>7, <2>1
<1>9. CASE ~(Reached \/ Newest < PageSize)
  <2>1. Advance = [head |-> scan.head, target |-> target, before |-> chain[Newest + 1 - PageSize]]
    BY <1>9 DEF Advance, target
  <2> QED BY <1>2, <1>3, <1>5, <1>6, <1>7, <1>9, <2>1
<1> QED BY <1>8, <1>9

\* A page lands in the inbox; what was there stays.
LEMMA PageRead ==
  ASSUME LedgerOK, WatcherOK, Grows, ScanPage
  PROVE  /\ WatcherOK' /\ Awake
         /\ \A t \in Txs : inbox[t] # "unseen" => inbox'[t] # "unseen"
<1>1. /\ inbox' = [t \in Txs |-> IF inbox[t] = "unseen" /\ \E i \in Fresh : chain[i] = t
                                 THEN "pending" ELSE inbox[t]]
      /\ scan' = Advance /\ UNCHANGED <<resting, filed, watch, intent, txs, chain>>
  BY DEF ScanPage, books, ledger
<1>2. Fresh \subseteq 1..Len(chain)
  BY Positions DEF Fresh, Read
<1>3. \A i \in Fresh : chain[i] \in Mined
  BY <1>2, MinedIs
<1>4. InboxOK
  BY WatcherParts
<1>5. \A t \in Txs : inbox[t] # "unseen" => inbox'[t] = inbox[t]
  BY <1>1
<1>6. Mined' = Mined
  BY <1>1 DEF Mined
<1>7. \A t \in Txs : inbox'[t] = "unmatched" => inbox[t] = "unmatched"
  BY <1>1
<1>8. InboxOK'
  BY <1>1, <1>3, <1>4, <1>6, <1>7 DEF InboxOK, Statuses
<1>9. Awake
  BY <1>1, <1>7 DEF Awake, Asleep, Memo
<1>10. watch' \in WatchType /\ watch'.batch \subseteq {t \in Txs : inbox'[t] = "pending"}
  BY <1>1, <1>5, WatcherParts
<1> QED BY <1>1, <1>5, <1>6, <1>8, <1>9, <1>10, AdvanceIs, WatcherPartsNext

LEMMA IndexedNext ==
  ASSUME UNCHANGED chain
  PROVE  Indexed' <=>
           /\ \A i \in 1..Place(scan'.head) : inbox'[chain[i]] # "unseen"
           /\ scan'.target = NoTx <=> scan'.before = NoTx
           /\ scan'.target # NoTx =>
                \A i \in Place(scan'.before)..Place(scan'.target) : inbox'[chain[i]] # "unseen"
<1>1. Place(scan.head)' = Place(scan'.head) /\ Place(scan.before)' = Place(scan'.before)
      /\ Place(scan.target)' = Place(scan'.target)
  BY DEF Place
<1> QED BY <1>1 DEF Indexed, HistoryIsIndexed

LEMMA PageIndexed ==
  ASSUME LedgerOK, WatcherOK, Indexed, ScanPage,
         \A t \in Txs : inbox[t] # "unseen" => inbox'[t] # "unseen"
  PROVE  Indexed'
<1>1. /\ inbox' = [t \in Txs |-> IF inbox[t] = "unseen" /\ \E i \in Fresh : chain[i] = t
                                 THEN "pending" ELSE inbox[t]]
      /\ scan' = Advance /\ UNCHANGED chain
  BY DEF ScanPage, ledger
<1> DEFINE N == Len(chain)
           H == Place(scan.head)
           In(i) == inbox'[chain[i]] # "unseen"
<1>2. N \in Nat /\ H \in 0..N /\ Newest \in 0..N
  BY Positions
<1>3. \A i \in 1..N : chain[i] \in Txs /\ chain[i] # NoTx /\ Place(chain[i]) = i
  BY MinedIs, PlaceIs
<1>4. \A i \in 1..N : inbox[chain[i]] # "unseen" => In(i)
  BY <1>3
<1>5. \A i \in 1..H : In(i)
  BY <1>2, <1>4 DEF Indexed, HistoryIsIndexed
<1>6. \A i \in 1..Newest : i + PageSize > Newest => In(i)
  <2> SUFFICES ASSUME NEW i \in 1..Newest, i + PageSize > Newest, i > H PROVE In(i)
    BY <1>2, <1>5
  <2>1. i \in Fresh /\ i \in 1..N
    BY <1>2 DEF Fresh, Read
  <2> QED BY <1>1, <1>3, <2>1
<1>7. Reached \/ Newest < PageSize => \A i \in 1..Newest : In(i)
  BY <1>2, <1>5, <1>6, Bounds DEF Reached, Read
<1> DEFINE target == IF scan.target = NoTx /\ Read # {} THEN chain[Newest] ELSE scan.target
           T == Place(target)
<1>8. /\ T \in 0..N
      /\ \A i \in 1..N : i > Newest /\ i <= T => In(i)
      /\ target = NoTx => T = 0 /\ Newest < PageSize
  <2>1. CASE scan.target = NoTx
    <3>1. Newest = N
      BY <2>1, Positions DEF Indexed
    <3>2. CASE Read = {}
      <4>0. Newest \in 1..Newest /\ Newest + PageSize > Newest => Newest \in Read
        BY DEF Read
      <4>1. Newest < 1
        BY <1>2, <3>2, <4>0, Bounds
      <4>2. T = 0
        BY <2>1, <3>2, PlaceIs
      <4> QED BY <1>2, <4>1, <4>2, Bounds
    <3>3. CASE Read # {}
      <4>1. Newest \in 1..N /\ target = chain[Newest]
        BY <1>2, <2>1, <3>3 DEF Read
      <4>2. T = Newest /\ target # NoTx
        BY <1>3, <4>1
      <4> QED BY <1>2, <4>1, <4>2
    <3> QED BY <3>2, <3>3
  <2>2. CASE scan.target # NoTx
    <3>1. T = Place(scan.target) /\ target = scan.target
      BY <2>2
    <3>2. scan.before # NoTx /\ Newest = Place(scan.before) - 1
          /\ Place(scan.before) \in 1..N
      BY <2>2, Positions DEF Indexed
    <3>3. \A i \in Place(scan.before)..T : inbox[chain[i]] # "unseen"
      BY <2>2, <3>1 DEF Indexed
    <3>4. T \in 0..N
      BY <3>1, Positions
    <3>5. \A i \in 1..N : i > Newest /\ i <= T => i \in Place(scan.before)..T
      BY <1>2, <3>2, <3>4
    <3> QED BY <1>4, <2>2, <3>1, <3>3, <3>4, <3>5
  <2> QED BY <2>1, <2>2
<1>9. CASE Reached \/ Newest < PageSize
  <2>1. scan' = [head |-> IF target = NoTx THEN scan.head ELSE target,
                 target |-> NoTx, before |-> NoTx]
    BY <1>1, <1>9 DEF Advance
  <2>2. \A i \in 1..T : In(i)
    BY <1>2, <1>7, <1>8, <1>9
  <2>3. Place(scan'.head) = H \/ Place(scan'.head) = T
    BY <2>1
  <2>4. \A i \in 1..Place(scan'.head) : In(i)
    BY <1>5, <2>2, <2>3
  <2> QED BY <1>1, <2>1, <2>4, IndexedNext
<1>10. CASE ~(Reached \/ Newest < PageSize)
  <2>1. scan' = [head |-> scan.head, target |-> target, before |-> chain[Newest + 1 - PageSize]]
    BY <1>1, <1>10 DEF Advance
  <2>2. Newest + 1 - PageSize \in 1..N
    BY <1>2, <1>10, Bounds
  <2>3. target # NoTx
    BY <1>8, <1>10
  <2>4. scan'.before # NoTx /\ Place(scan'.before) = Newest + 1 - PageSize
    BY <1>3, <2>1, <2>2
  <2>5. \A i \in (Newest + 1 - PageSize)..T : In(i)
    <3> SUFFICES ASSUME NEW i \in (Newest + 1 - PageSize)..T PROVE In(i)
      OBVIOUS
    <3>1. i \in 1..N /\ i <= T
      BY <1>2, <1>8, <2>2
    <3>2. CASE i > Newest
      BY <1>8, <3>1, <3>2
    <3>3. CASE ~(i > Newest)
      BY <1>2, <1>6, <2>2, <3>1, <3>3, Bounds
    <3> QED BY <3>2, <3>3
  <2>6. scan'.head = scan.head /\ scan'.target = target
    BY <2>1
  <2> HIDE DEF target
  <2> QED BY <1>1, <1>5, <2>3, <2>4, <2>5, <2>6, IndexedNext
<1> QED BY <1>9, <1>10

\* A new block leaves the places below it alone.
LEMMA MineIndexed ==
  ASSUME TypeOK, Indexed, NEW t \in Txs, Mine(t)
  PROVE  Indexed'
<1>1. LedgerOK /\ AdminOK /\ WatcherOK
  BY DEF TypeOK
<1>2. LedgerOK' /\ Len(chain') = Len(chain) + 1 /\ Len(chain) \in Nat
      /\ \A i \in 1..Len(chain) : chain'[i] = chain[i]
  BY <1>1, MineGrows, MinedIs
<1>3. UNCHANGED <<scan, inbox>>
  BY DEF Mine, watcher, entries
<1>4. ASSUME NEW u \in Mined \union {NoTx} PROVE Place(u)' = Place(u)
  <2>1. CASE u = NoTx
    BY <2>1 DEF Place
  <2>2. CASE u # NoTx
    <3>1. u \in Mined /\ Place(u) \in 1..Len(chain) /\ chain[Place(u)] = u
      BY <1>1, <2>2, PlaceIs
    <3>2. Place(u) \in 1..Len(chain') /\ chain'[Place(u)] = u
      BY <1>2, <3>1
    <3>3. DOMAIN chain' = 1..Len(chain')
      BY <1>2 DEF LedgerOK
    <3>4. \A i, j \in 1..Len(chain') : chain'[i] = chain'[j] => i = j
      BY <1>2, <3>3 DEF LedgerOK, IsInjective
    <3>5. \A i \in 1..Len(chain') : chain'[i] = u <=> i = Place(u)
      BY <3>2, <3>4
    <3>6. Place(u)' = CHOOSE i \in 1..Len(chain') : chain'[i] = u
      BY <2>2 DEF Place
    <3> HIDE DEF Place
    <3> QED BY <3>2, <3>5, <3>6
  <2> QED BY <2>1, <2>2
<1>5. /\ Place(scan.head)' = Place(scan.head) /\ Place(scan.target)' = Place(scan.target)
      /\ Place(scan.before)' = Place(scan.before)
  <2>1. scan.head \in Mined \union {NoTx} /\ scan.target \in Mined \union {NoTx}
        /\ scan.before \in Mined \union {NoTx}
    BY <1>1 DEF WatcherOK
  <2>2. Place(scan.head)' = Place(scan.head)
    BY <1>3, <1>4, <2>1 DEF Place
  <2>3. Place(scan.target)' = Place(scan.target)
    BY <1>3, <1>4, <2>1 DEF Place
  <2>4. Place(scan.before)' = Place(scan.before)
    BY <1>3, <1>4, <2>1 DEF Place
  <2> QED BY <2>2, <2>3, <2>4
<1>6. /\ \A i \in 1..Place(scan.head) : chain'[i] = chain[i]
      /\ scan.target # NoTx =>
           \A i \in Place(scan.before)..Place(scan.target) : chain'[i] = chain[i]
  <2>1. /\ Place(scan.head) \in 0..Len(chain) /\ Place(scan.target) \in 0..Len(chain)
        /\ scan.before # NoTx => Place(scan.before) \in 1..Len(chain)
        /\ Place(scan.before) \in 0..Len(chain)
    BY <1>1, Positions
  <2>2. scan.target # NoTx => scan.before # NoTx
    BY DEF Indexed
  <2> HIDE DEF Place
  <2> QED BY <1>2, <2>1, <2>2
<1> QED BY <1>3, <1>5, <1>6 DEF Indexed, HistoryIsIndexed

\* What a step keeps of the watcher.
WatchStep == WatcherOK' /\ SleepOK /\ Indexed'

\* Most steps leave the position and free no memo: what is left to show is the
\* inbox and the tick.
LEMMA WatchKept ==
  ASSUME TypeOK, Indexed, Grows, UNCHANGED <<chain, scan>>, InboxOK', SleepOK,
         watch' \in WatchType, watch'.batch \subseteq {t \in Txs : inbox'[t] = "pending"},
         \A t \in Txs : inbox[t] # "unseen" => inbox'[t] # "unseen"
  PROVE  WatchStep
<1>1. LedgerOK /\ WatcherOK
  BY DEF TypeOK
<1>2. Indexed'
  <2>1. \A i \in 1..Len(chain) : chain[i] \in Txs
    BY <1>1, MinedIs
  <2>2. /\ Place(scan.head) \in 0..Len(chain) /\ Place(scan.target) \in 0..Len(chain)
        /\ scan.before # NoTx => Place(scan.before) \in 1..Len(chain)
        /\ Place(scan.before) \in 0..Len(chain) /\ Len(chain) \in Nat
    BY <1>1, Positions
  <2>3. /\ \A i \in 1..Place(scan.head) : inbox[chain[i]] # "unseen" /\ chain[i] \in Txs
        /\ scan.target = NoTx <=> scan.before = NoTx
        /\ scan.target # NoTx =>
             \A i \in Place(scan.before)..Place(scan.target) :
               inbox[chain[i]] # "unseen" /\ chain[i] \in Txs
    BY <2>1, <2>2 DEF Indexed, HistoryIsIndexed
  <2> QED BY <2>3, IndexedNext
<1>3. WatcherOK'
  BY <1>1, WatcherParts, WatcherPartsNext DEF Grows
<1> QED BY <1>2, <1>3 DEF WatchStep

\* A step that frees memos at most, files nothing and drops at most entries of
\* the tick.
LEMMA WatchFreed ==
  ASSUME TypeOK, Indexed, Grows, UNCHANGED <<chain, scan, inbox, filed>>,
         resting' \subseteq {t \in Txs : inbox[t] = "pending"}, Freed,
         watch' \in WatchType, watch'.batch \subseteq {t \in Txs : inbox[t] = "pending"}
  PROVE  WatchStep
<1>1. LedgerOK /\ InboxOK
  BY WatcherParts DEF TypeOK
<1>2. InboxOK' /\ Awake
  BY <1>1, InboxKept
<1> QED BY <1>2, AwakeEnough, WatchKept

\* An entry of the tick is filed.
LEMMA WatchFiled ==
  ASSUME TypeOK, Indexed, Grows, UNCHANGED <<chain, scan>>, Freed,
         NEW t \in Txs, This(t), watch' = NextEntry(t),
         NEW status \in {"pending", "unmatched", "applied", "ignored"}, File(t, status),
         status = "unmatched" => intent[Memo(t)] = NoIntent
  PROVE  WatchStep
<1>1. /\ LedgerOK /\ InboxOK /\ watch \in WatchType
      /\ watch.batch \subseteq {u \in Txs : inbox[u] = "pending"}
      /\ inbox[t] = "pending"
  BY WatcherParts, ThisIs DEF TypeOK
<1>2. /\ InboxOK' /\ Awake
      /\ \A u \in Txs : u # t => inbox'[u] = inbox[u]
  BY <1>1, InboxFiled
<1>3. watch' \in WatchType /\ watch'.batch = watch.batch \ {t}
  BY <1>1, NextEntryIs
<1>4. inbox'[t] # "unseen"
  BY <1>1 DEF File, InboxOK
<1> QED BY <1>1, <1>2, <1>3, <1>4, AwakeEnough, WatchKept

\* A memo is reserved.
LEMMA WatchReserved ==
  ASSUME TypeOK, Indexed, Grows, UNCHANGED <<chain, scan>>,
         NEW p \in Purchases, NEW m \in Memos, NEW older, NEW saw, Reserve(p, m, older, saw),
         watch' \in WatchType, watch'.batch = watch.batch,
         \A t \in Txs : inbox[t] = "unmatched" /\ Memo(t) = m /\ t \notin saw
           => Reserving /\ call.memo = Memo(t) /\ t \notin call.saw /\ Persist
  PROVE  WatchStep
<1>1. /\ LedgerOK /\ BooksOK /\ InboxOK
      /\ watch.batch \subseteq {u \in Txs : inbox[u] = "pending"}
  BY WatcherParts DEF TypeOK
<1>2. /\ InboxOK'
      /\ \A t \in Txs : Asleep(t)' => Asleep(t) \/ (Memo(t) = m /\ t \notin saw)
      /\ \A t \in Txs : inbox[t] = "pending" => inbox'[t] = "pending"
  BY <1>1, InboxReserved
<1>3. \A t \in Txs : inbox[t] # "unseen" => inbox'[t] # "unseen"
  BY DEF Reserve
<1>4. SleepOK
  <2>1. SUFFICES ASSUME NEW t \in Txs, ~Asleep(t), Asleep(t)'
                 PROVE  Reserving /\ call.memo = Memo(t) /\ t \notin call.saw /\ Persist
    BY DEF SleepOK
  <2>2. inbox[t] = "unmatched"
    BY <2>1 DEF Asleep, Reserve
  <2> QED BY <1>2, <2>1, <2>2
<1> QED BY <1>1, <1>2, <1>3, <1>4, WatchKept

LEMMA SettleSteps ==
  ASSUME TypeOK, Indexed, Grows, NEW t \in Txs, Settle(t)
  PROVE  WatchStep
<1>1. LedgerOK /\ BooksOK /\ WatcherOK
  BY DEF TypeOK
<1>2. /\ This(t) /\ UNCHANGED <<scan, chain>>
      /\ Memo(t) \in Memos /\ t \in Mined /\ inbox[t] = "pending"
  BY <1>1, ThisIs DEF Settle, ledger
<1>3. ASSUME NEW status \in {"pending", "applied", "ignored"}, File(t, status),
             watch' = NextEntry(t), Freed
      PROVE  WatchStep
  BY <1>2, <1>3, WatchFiled
<1>4. UNCHANGED books => Freed
  BY DEF Freed, books
<1>5. Release(Memo(t)) => Freed
  BY <1>1, <1>2 DEF Freed, Release, BooksOK
<1>6. CASE Unmatched(t) /\ watch' = NextEntry(t) /\ UNCHANGED books
  <2>1. CASE intent[Memo(t)] # NoIntent
    BY <1>3, <1>4, <1>6, <2>1 DEF Unmatched
  <2>2. CASE intent[Memo(t)] = NoIntent
    <3>1. File(t, "unmatched")
      BY <1>6, <2>2 DEF Unmatched
    <3> QED BY <1>2, <1>4, <1>6, <2>2, <3>1, WatchFiled
  <2> QED BY <2>1, <2>2
<1>7. CASE File(t, "ignored") /\ watch' = NextEntry(t) /\ UNCHANGED books
  BY <1>3, <1>4, <1>7
<1>8. CASE Apply(watch.for, Memo(t), t) /\ File(t, "applied") /\ watch' = NextEntry(t)
  BY <1>3, <1>5, <1>8 DEF Apply
<1>9. CASE File(t, "applied") /\ watch' = NextEntry(t) /\ UNCHANGED books
  BY <1>3, <1>4, <1>9
<1>10. CASE File(t, "ignored") /\ Release(Memo(t)) /\ watch' = NextEntry(t)
  BY <1>3, <1>5, <1>10
<1>11. CASE Rest(t) /\ watch' = Unread /\ UNCHANGED books
  <2>1. watch \in WatchType /\ InboxOK
    BY <1>1, WatcherParts
  <2>2. Unread \in WatchType /\ Unread.batch = {}
    BY <2>1, NextEntryIs
  <2>3. UNCHANGED <<inbox, filed>> /\ resting' \subseteq {u \in Txs : inbox[u] = "pending"}
    BY <1>2, <1>11, <2>1 DEF Rest, InboxOK
  <2> QED BY <1>2, <1>4, <1>11, <2>2, <2>3, WatchFreed
<1> QED BY <1>6, <1>7, <1>8, <1>9, <1>10, <1>11 DEF Settle

LEMMA MatchSteps ==
  ASSUME TypeOK, Indexed, Grows, NEW t \in Txs, Match(t)
  PROVE  WatchStep
<1>1. LedgerOK /\ BooksOK /\ WatcherOK
  BY DEF TypeOK
<1>2. /\ This(t) /\ UNCHANGED <<scan, chain>>
      /\ Memo(t) \in Memos /\ t \in Mined
  BY <1>1, ThisIs DEF Match, ledger
<1>3. /\ InboxOK /\ watch \in WatchType
      /\ watch.batch \subseteq {u \in Txs : inbox[u] = "pending"}
  BY <1>1, WatcherParts
<1>4. watch' = [watch EXCEPT !.at = "intent", !.for = intent'[Memo(t)].for,
                             !.older = t \in intent'[Memo(t)].older]
  BY DEF Match
<1>5. intent' \in [Memos -> [for : SomePurchase, older : SUBSET Txs]]
  <2>1. CASE UNCHANGED intent
    BY <1>1, <2>1 DEF BooksOK
  <2>2. CASE \E p \in Purchases : Reserve(p, Memo(t), {}, Matching(Memo(t)))
    <3>1. PICK p \in Purchases : intent' = [intent EXCEPT ![Memo(t)] = [for |-> p, older |-> {}]]
      BY <2>2 DEF Reserve
    <3>2. [for |-> p, older |-> {}] \in [for : SomePurchase, older : SUBSET Txs]
      BY DEF SomePurchase
    <3> QED BY <1>1, <3>1, <3>2 DEF BooksOK
  <2> QED BY <1>1, <2>1, <2>2, MatchIs
<1>6. watch' \in WatchType /\ watch'.batch = watch.batch
  <2>1. intent'[Memo(t)].for \in SomePurchase
    BY <1>2, <1>5
  <2>2. (t \in intent'[Memo(t)].older) \in BOOLEAN
    OBVIOUS
  <2> QED BY <1>3, <1>4, <2>1, <2>2 DEF WatchType
<1>7. CASE UNCHANGED <<intent, entries>>
  <2>1. Freed /\ UNCHANGED <<inbox, filed>> /\ resting' \subseteq {u \in Txs : inbox[u] = "pending"}
    BY <1>3, <1>7 DEF Freed, entries, InboxOK
  <2> QED BY <1>2, <1>3, <1>6, <2>1, WatchFreed
<1>8. ASSUME NEW p \in Purchases, Reserve(p, Memo(t), {}, Matching(Memo(t)))
      PROVE  WatchStep
  <2>1. \A u \in Txs : inbox[u] = "unmatched" /\ Memo(u) = Memo(t) => u \in Matching(Memo(t))
    BY <1>3 DEF InboxOK, Matching
  <2> QED BY <1>2, <1>6, <1>8, <2>1, WatchReserved
<1> QED BY <1>1, <1>7, <1>8, MatchIs

LEMMA PersistSteps ==
  ASSUME TypeOK, Indexed, Grows, Persist
  PROVE  WatchStep
<1>1. CallOK /\ WatcherOK
  BY DEF TypeOK
<1>2. Reserving /\ Reserve(call.for, call.memo, call.older, call.saw)
      /\ UNCHANGED <<scan, watch, chain>>
  BY DEF Persist, ledger
<1>3. call # NoCall
  BY <1>2 DEF Reserving, NoCall
<1>4. call.for \in Purchases /\ call.memo \in Memos
  BY <1>1, <1>3, CallIs
<1>5. watch' \in WatchType
  BY <1>1, <1>2, WatcherParts
<1>6. \A t \in Txs : inbox[t] = "unmatched" /\ Memo(t) = call.memo /\ t \notin call.saw
        => Reserving /\ call.memo = Memo(t) /\ t \notin call.saw /\ Persist
  BY <1>2
<1>7. UNCHANGED <<chain, scan>> /\ watch'.batch = watch.batch
  BY <1>2
<1> QED BY <1>2, <1>4, <1>5, <1>6, <1>7, WatchReserved

LEMMA WatcherPreserved ==
  ASSUME TypeOK, Indexed, [Next]_vars
  PROVE  WatchStep
<1>1. LedgerOK /\ BooksOK /\ WatcherOK /\ BrowserOK /\ Grows
  BY LedgerSteps DEF TypeOK
<1>2. /\ InboxOK /\ watch \in WatchType
      /\ watch.batch \subseteq {t \in Txs : inbox[t] = "pending"}
  BY <1>1, WatcherParts
<1>3. /\ Unread \in WatchType /\ Unread.batch = {}
      /\ \A t \in Txs : NextEntry(t) \in WatchType /\ NextEntry(t).batch = watch.batch \ {t}
  <2>1. \A t \in Txs : NextEntry(t) \in WatchType /\ NextEntry(t).batch = watch.batch \ {t}
    BY <1>2, NextEntryIs
  <2> QED BY <2>1 DEF Unread, WatchType, SomePurchase
<1>4. UNCHANGED entries =>
        UNCHANGED <<inbox, filed>> /\ resting' \subseteq {u \in Txs : inbox[u] = "pending"}
  BY <1>2 DEF entries, InboxOK
<1>5. UNCHANGED intent => Freed
  BY DEF Freed
<1>6. ASSUME UNCHANGED <<watcher, chain>>, Freed PROVE WatchStep
  <2>1. UNCHANGED <<entries, scan, watch>>
    BY <1>6 DEF watcher
  <2> QED BY <1>1, <1>2, <1>4, <1>6, <2>1, WatchFreed
<1>7. ASSUME UNCHANGED <<entries, scan, chain>>, watch' = Unread, Freed PROVE WatchStep
  BY <1>1, <1>2, <1>3, <1>4, <1>7, WatchFreed
<1>8. CASE ScanPage
  BY <1>1, <1>8, PageRead, PageIndexed, AwakeEnough DEF WatchStep
<1>9. CASE Tick
  <2>1. watch' \in WatchType /\ watch'.batch \subseteq {t \in Txs : inbox[t] = "pending"}
    <3>1. watch' = [Unread EXCEPT !.batch = Batch] /\ Batch \subseteq {t \in Txs : inbox[t] = "pending"}
      BY <1>1, <1>9, MinedIs DEF Tick, Due, Batch
    <3>2. watch' = [batch |-> Batch, at |-> "next", for |-> NoPurchase, older |-> FALSE]
      BY <3>1 DEF Unread
    <3>3. Batch \in SUBSET Txs
      BY <3>1
    <3> HIDE DEF Batch
    <3>4. watch' \in WatchType
      BY <3>2, <3>3 DEF WatchType, SomePurchase
    <3>5. watch'.batch = Batch
      BY <3>2
    <3> QED BY <3>1, <3>4, <3>5
  <2>2. UNCHANGED <<entries, intent, chain, scan>>
    BY <1>9 DEF Tick, books, ledger
  <2> QED BY <1>1, <1>4, <1>5, <2>1, <2>2, WatchFreed
<1>10. ASSUME NEW t \in Txs, Look(t) PROVE WatchStep
  <2>1. This(t) /\ UNCHANGED <<scan, chain, intent>>
    BY <1>10 DEF Look, ledger, books
  <2>2. CASE File(t, "applied") /\ watch' = NextEntry(t)
    BY <1>1, <1>5, <2>1, <2>2, WatchFiled
  <2>3. CASE watch' = [watch EXCEPT !.at = "proof"] /\ UNCHANGED entries
    <3>1. watch' \in WatchType /\ watch'.batch = watch.batch
      BY <1>2, <2>3 DEF WatchType
    <3> QED BY <1>1, <1>2, <1>4, <1>5, <2>1, <2>3, <3>1, WatchFreed
  <2> QED BY <1>10, <2>2, <2>3 DEF Look
<1>11. ASSUME NEW t \in Txs, Unconfirmed(t) PROVE WatchStep
  <2>1. This(t) /\ Rest(t) /\ UNCHANGED <<scan, chain, intent>> /\ watch' = NextEntry(t)
    BY <1>11 DEF Unconfirmed, ledger, books
  <2>2. UNCHANGED <<inbox, filed>> /\ resting' \subseteq {u \in Txs : inbox[u] = "pending"}
    BY <1>1, <1>2, <2>1, ThisIs DEF Rest, InboxOK
  <2> QED BY <1>1, <1>2, <1>3, <1>5, <2>1, <2>2, WatchFreed
<1>12. ASSUME NEW t \in Txs, NodeFails(t) PROVE WatchStep
  <2>1. UNCHANGED <<entries, scan, chain, intent>> /\ watch' = Unread
    BY <1>12 DEF NodeFails, ledger, books
  <2> QED BY <1>5, <1>7, <2>1
<1>13. ASSUME NEW t \in Txs, SettleCut(t) PROVE WatchStep
  <2>1. This(t) /\ UNCHANGED <<entries, scan, chain>> /\ watch' = Unread
        /\ Release(Memo(t))
    BY <1>13 DEF SettleCut, ledger, Apply
  <2>2. Freed
    BY <1>1, <2>1, ThisIs DEF Freed, Release, BooksOK
  <2> QED BY <1>7, <2>1, <2>2
<1>14. ASSUME NEW t \in Txs, Wake(t) PROVE WatchStep
  <2>1. UNCHANGED <<inbox, filed, scan, watch, chain, intent>>
        /\ resting' \subseteq {u \in Txs : inbox[u] = "pending"}
    BY <1>2, <1>14 DEF Wake, books, ledger, InboxOK
  <2> QED BY <1>1, <1>2, <1>5, <2>1, WatchFreed
<1>15. ASSUME NEW t \in Txs, Mine(t) PROVE WatchStep
  <2>1. UNCHANGED <<watcher, intent>>
    BY <1>15 DEF Mine, books
  <2>2. UNCHANGED <<entries, scan, watch>>
    BY <2>1 DEF watcher
  <2>3. InboxOK' /\ Awake
    BY <1>1, <1>2, <1>4, <1>5, <2>1, <2>2, InboxKept
  <2>4. watch'.batch \subseteq {u \in Txs : inbox'[u] = "pending"} /\ watch' \in WatchType
    BY <1>2, <2>2 DEF entries
  <2>5. WatcherOK'
    BY <1>1, <2>2, <2>3, <2>4, WatcherParts, WatcherPartsNext DEF Grows
  <2> QED BY <1>15, <2>3, <2>5, MineIndexed, AwakeEnough DEF WatchStep
<1>16. ASSUME NEW r \in Runs, WalletDenies(r) PROVE WatchStep
  <2>1. UNCHANGED <<watcher, chain>> /\ (Release(runs[r].memo) \/ UNCHANGED intent)
    BY <1>16 DEF WalletDenies, ledger
  <2>2. Freed
    BY <1>1, <2>1, <1>5 DEF Freed, Release, BooksOK
  <2> QED BY <1>6, <2>1, <2>2
<1>17. CASE Record
  <2>1. UNCHANGED <<watcher, chain>> /\ (Release(call.memo) \/ UNCHANGED intent)
    BY <1>17 DEF Record, ledger, books, Apply
  <2>2. Freed
    BY <1>1, <2>1, <1>5 DEF Freed, Release, BooksOK
  <2> QED BY <1>6, <2>1, <2>2
<1>18. ASSUME NEW r \in Runs,
              \/ Intent(r) \/ IntentFails(r) \/ WalletPays(r) \/ WalletUnknown(r)
              \/ WalletFails(r) \/ WalletRedirects(r)
              \/ SubmitKnown(r) \/ Submit(r) \/ AskFails(r) \/ AskEnds(r)
       PROVE  UNCHANGED <<watcher, chain, intent>>
  BY <1>18 DEF Intent, IntentFails, WalletPays, WalletUnknown, WalletFails, WalletRedirects,
               SubmitKnown, Submit, AskFails, AskEnds, ledger, books, Broadcast
<1>19. ASSUME \/ \E p \in Purchases : Visit(p) \/ Expire(p) \/ Deliver(p)
              \/ \E m \in Memos : Rate(m)
              \/ \E q \in Purchases \X Memos : LateAnswer(q)
              \/ Leave \/ Unload \/ Check \/ Retry \/ Switch
       PROVE  UNCHANGED <<watcher, chain, intent>>
  BY <1>19 DEF Visit, Expire, Deliver, Rate, Leave, Unload, Check, LateAnswer, Retry, Switch,
               ledger, books, Broadcast
<1>20. CASE Restart
  <2>1. UNCHANGED <<entries, scan, chain, intent>> /\ watch' = Unread
    BY <1>20 DEF Restart, ledger, books
  <2> QED BY <1>5, <1>7, <2>1
<1>21. CASE UNCHANGED vars
  <2>1. UNCHANGED <<watcher, chain, intent>>
    BY <1>21 DEF vars, ledger, books
  <2> QED BY <1>5, <1>6, <2>1
<1>22. CASE Outside
  BY <1>1, <1>5, <1>6, <1>8, <1>9, <1>10, <1>11, <1>12, <1>14, <1>15, <1>19, <1>22,
     MatchSteps, SettleSteps DEF Outside
<1> QED BY <1>1, <1>5, <1>6, <1>13, <1>16, <1>17, <1>18, <1>19, <1>20, <1>21, <1>22,
           PersistSteps, StepIs

LEMMA AdminPreserved ==
  ASSUME TypeOK, [Next]_vars
  PROVE  AdminOK'
<1>1. AdminOK
  BY DEF TypeOK
<1>2. ASSUME UNCHANGED admin PROVE AdminOK'
  BY <1>1, <1>2 DEF AdminOK, admin
<1>3. ASSUME NEW r \in Runs,
             \/ Intent(r) \/ IntentFails(r) \/ WalletPays(r) \/ WalletDenies(r)
             \/ WalletUnknown(r) \/ WalletFails(r) \/ WalletRedirects(r)
             \/ SubmitKnown(r) \/ Submit(r) \/ AskFails(r) \/ AskEnds(r)
      PROVE  UNCHANGED admin
  BY <1>3 DEF Intent, IntentFails, WalletPays, WalletDenies, WalletUnknown, WalletFails,
              WalletRedirects, SubmitKnown, Submit, AskFails, AskEnds
<1>4. ASSUME \/ \E p \in Purchases : Visit(p) \/ Expire(p)
             \/ \E m \in Memos : Rate(m)
             \/ \E q \in Purchases \X Memos : LateAnswer(q)
             \/ Leave \/ Unload \/ Check \/ Persist \/ Retry \/ Record
      PROVE  UNCHANGED admin
  BY <1>4 DEF Visit, Expire, Rate, Leave, Unload, Check, LateAnswer, Persist, Retry, Record
<1>5. Restart \/ (\E t \in Txs : SettleCut(t)) => UNCHANGED admin
  BY DEF Restart, SettleCut, admin
<1>6. CASE Outside
  <2>1. ASSUME NEW t \in Txs,
               \/ Look(t) \/ Unconfirmed(t) \/ NodeFails(t) \/ Match(t) \/ Settle(t)
               \/ Wake(t) \/ Mine(t)
        PROVE  UNCHANGED admin
    BY <2>1 DEF Look, Unconfirmed, NodeFails, Match, Settle, Wake, Mine
  <2>2. ScanPage \/ Tick => UNCHANGED admin
    BY DEF ScanPage, Tick
  <2>3. ASSUME NEW p \in Purchases, Deliver(p) PROVE AdminOK'
    BY <1>1, <2>3 DEF Deliver, AdminOK
  <2>4. ASSUME Switch PROVE AdminOK'
    <3>1. commentsOn' \in BOOLEAN
      BY <2>4 DEF Switch
    <3>2. switches' \in 0..MaxSwitches
      BY <1>1, <2>4, Bounds DEF Switch, AdminOK
    <3> QED BY <1>1, <2>4, <3>1, <3>2 DEF Switch, AdminOK
  <2> QED BY <1>2, <1>6, <2>1, <2>2, <2>3, <2>4 DEF Outside
<1>7. CASE UNCHANGED vars
  BY <1>2, <1>7 DEF vars
<1> QED BY <1>2, <1>3, <1>4, <1>5, <1>6, <1>7, StepIs

\* The request the shop works on: a record is for a mined payment of its memo.
LEMMA CallPreserved ==
  ASSUME TypeOK, AskedOK, [Next]_vars
  PROVE  CallOK'
<1>1. CallOK /\ LedgerOK /\ BrowserOK /\ WatcherOK /\ Grows
  BY LedgerSteps DEF TypeOK
<1>2. call.at = "record" => call.tx \in Mined /\ Memo(call.tx) = call.memo
  BY <1>1 DEF CallOK
<1>3. ASSUME Marked PROVE CallOK'
  <2>1. SameAsk /\ call' \in CallType /\ call'.tx = call.tx
    BY <1>1, <1>3, MarkedIs
  <2> QED BY <1>1, <1>2, <2>1 DEF CallOK, SameAsk, Grows, Memo
<1>4. UNCHANGED call => CallOK'
  BY <1>3 DEF Marked
<1>5. ASSUME call' = NoCall PROVE CallOK'
  BY <1>5 DEF CallOK, CallType, NoCall
<1>6. ASSUME call' = [call EXCEPT !.run = NoOne] PROVE CallOK'
  <2>1. CASE call = NoCall
    BY <1>5, <1>6, <2>1 DEF NoCall
  <2>2. CASE call # NoCall
    <3>1. call \in [at : {"intent", "submit", "record"}, for : Purchases, memo : Memos,
                    tx : 0..MaxTxs, run : Runs \union {NoOne}, older : SUBSET Txs,
                    saw : SUBSET Txs, stale : BOOLEAN]
      BY <1>1, <2>2, CallIs
    <3>2. call' \in CallType /\ call'.tx = call.tx /\ call'.memo = call.memo /\ call'.at = call.at
      BY <1>6, <3>1 DEF CallType
    <3> QED BY <1>1, <1>2, <3>2 DEF CallOK, Grows, Memo
  <2> QED BY <2>1, <2>2
<1>7. ASSUME NEW m \in Memos PROVE Matching(m) \in SUBSET Txs
  BY <1>1, MinedIs DEF Matching, WatcherOK
<1>8. ASSUME NEW r \in Runs, runs[r].at # "over"
      PROVE  runs[r].for \in Purchases /\ runs[r].memo \in Memos /\ runs[r].hash \in 0..MaxTxs
  BY <1>1, <1>8 DEF BrowserOK, RunType, NoRun
<1>9. ASSUME NEW r \in Runs, runs[r].at # "over", NEW what \in {"intent", "submit"},
             Open(r, what)
      PROVE  CallOK'
  <2>1. PICK older \in MayBeOlder(runs[r].memo) :
          call' = [at |-> what, for |-> runs[r].for, memo |-> runs[r].memo, tx |-> runs[r].hash,
                   run |-> r, older |-> older, saw |-> Matching(runs[r].memo), stale |-> FALSE]
    BY <1>9 DEF Open
  <2>2. older \in SUBSET Txs
    BY <1>1, MinedIs DEF MayBeOlder
  <2>3. call' \in CallType /\ call'.at # "record"
    BY <1>7, <1>8, <1>9, <2>1, <2>2 DEF CallType
  <2> QED BY <2>3 DEF CallOK
<1>10. ASSUME NEW p \in Purchases, NEW m \in Memos, NEW h, NEW r \in Runs \union {NoOne},
              Search(p, m, h, r)
       PROVE  CallOK'
  <2>1. CASE \E t \in Mined : /\ Memo(t) = m
                              /\ call' = [at |-> "record", for |-> p, memo |-> m, tx |-> t,
                                          run |-> r, older |-> {}, saw |-> {}, stale |-> FALSE]
    <3>1. PICK t \in Mined : /\ Memo(t) = m
                              /\ call' = [at |-> "record", for |-> p, memo |-> m, tx |-> t,
                                          run |-> r, older |-> {}, saw |-> {}, stale |-> FALSE]
      BY <2>1
    <3>2. t \in 0..MaxTxs
      BY <1>1, MinedIs, Bounds DEF Txs
    <3>3. call' \in CallType /\ call'.tx = t /\ call'.memo = m
      BY <3>1, <3>2 DEF CallType
    <3>4. call'.tx \in Mined' /\ txs'[call'.tx] = call'.memo
      BY <1>1, <3>1, <3>3 DEF Grows, Memo
    <3> QED BY <3>3, <3>4 DEF CallOK, Memo
  <2> QED BY <1>5, <1>10, <2>1, SearchIs
<1>11. ASSUME Granted, Reserving PROVE CallOK'
  <2>1. call # NoCall
    BY <1>11 DEF Reserving, NoCall
  <2>2. call.for \in Purchases /\ call.memo \in Memos /\ call.run \in Runs \union {NoOne}
    BY <1>1, <2>1, CallIs
  <2> QED BY <1>5, <1>10, <1>11, <2>2 DEF Granted
<1>12. ASSUME NEW r \in Runs, Intent(r) PROVE CallOK'
  <2>1. runs[r].at # "over" /\ (Open(r, "intent") \/ UNCHANGED call)
    BY <1>12 DEF Intent, At
  <2> QED BY <1>4, <1>9, <2>1
<1>13. ASSUME NEW r \in Runs, Submit(r) PROVE CallOK'
  <2>1. runs[r].at # "over"
        /\ (Open(r, "submit") \/ Search(runs[r].for, runs[r].memo, runs[r].hash, r))
    BY <1>13 DEF Submit, Asks, At
  <2>2. runs[r].for \in Purchases /\ runs[r].memo \in Memos
    BY <1>8, <2>1
  <2> QED BY <1>9, <1>10, <2>1, <2>2
<1>14. ASSUME NEW r \in Runs, IntentFails(r) \/ AskFails(r) PROVE CallOK'
  BY <1>4, <1>6, <1>14 DEF IntentFails, AskFails, Detached
<1>15. ASSUME NEW r \in Runs, WalletDenies(r) PROVE CallOK'
  BY <1>1, <1>3, <1>4, <1>15, WritesMark DEF WalletDenies
<1>16. ASSUME NEW r \in Runs,
              \/ WalletPays(r) \/ WalletUnknown(r) \/ WalletFails(r)
              \/ SubmitKnown(r) \/ AskEnds(r)
       PROVE  UNCHANGED call
  BY <1>16 DEF WalletPays, WalletUnknown, WalletFails, SubmitKnown, AskEnds
<1>17. ASSUME \/ \E p \in Purchases : Visit(p) \/ Expire(p)
              \/ \E m \in Memos : Rate(m)
              \/ \E q \in Purchases \X Memos : LateAnswer(q)
              \/ Leave \/ Check
       PROVE  UNCHANGED call
  BY <1>17 DEF Visit, Expire, Rate, Leave, Check, LateAnswer
<1>18. Unload \/ (\E r \in Runs : WalletRedirects(r)) => call' = [call EXCEPT !.run = NoOne]
  BY DEF Unload, WalletRedirects, Unloaded
<1>19. Record \/ Restart \/ (\E t \in Txs : SettleCut(t)) => call' = NoCall
  BY DEF Record, Restart, SettleCut
<1>20. Persist => CallOK'
  BY <1>11 DEF Persist
<1>21. CASE Retry
  <2>1. Reserving /\ call # NoCall
    BY <1>21 DEF Retry, Reserving, NoCall
  <2>2. ASSUME call' = [call EXCEPT !.saw = Matching(call.memo), !.stale = FALSE]
        PROVE  CallOK'
    <3>1. call \in [at : {"intent", "submit", "record"}, for : Purchases, memo : Memos,
                    tx : 0..MaxTxs, run : Runs \union {NoOne}, older : SUBSET Txs,
                    saw : SUBSET Txs, stale : BOOLEAN]
      BY <1>1, <2>1, CallIs
    <3>2. Matching(call.memo) \in SUBSET Txs
      BY <1>7, <3>1
    <3>3. call' \in CallType /\ call'.at = call.at
      BY <2>2, <3>1, <3>2 DEF CallType
    <3> QED BY <2>1, <3>3 DEF CallOK, Reserving
  <2> QED BY <1>5, <1>11, <1>21, <2>1, <2>2 DEF Retry
<1>22. CASE UNCHANGED vars
  BY <1>4, <1>22 DEF vars
<1>23. CASE Outside
  BY <1>1, <1>3, <1>23, OutsideMarks
<1> QED BY <1>4, <1>5, <1>6, <1>12, <1>13, <1>14, <1>15, <1>16, <1>17, <1>18, <1>19, <1>20,
           <1>21, <1>22, <1>23, StepIs

-----------------------------------------------------------------------------
(* The invariant and its consequences.                                     *)

LEMMA InitInvariant == Init => IInv
<1> SUFFICES ASSUME Init PROVE IInv
  OBVIOUS
<1>1. BrowserOK /\ HereOK /\ AskedOK
  BY Bounds DEF Init, BrowserOK, HereOK, AskedOK, PageType, RunType, RecType, SomePurchase,
                NoRun, NoCall
<1>2. Len(<<>>) = 0 /\ chain = <<>> /\ txs = <<>> /\ Mined = {}
  BY DEF Init, Mined, Range
<1>3. LedgerOK
  BY <1>2, Bounds DEF Init, LedgerOK, IsInjective
<1>4. BooksOK
  BY Bounds DEF Init, BooksOK, NoIntent, SomePurchase, NoTx
<1>5. WatcherOK
  <2>1. Unread \in WatchType
    BY DEF Unread, WatchType, SomePurchase
  <2> QED BY <2>1, Bounds DEF Init, WatcherOK, WatchType, Unread, NoTx
<1>6. AdminOK /\ CallOK
  BY Bounds DEF Init, AdminOK, CallOK, CallType, NoCall
<1>7. RatingsArePaid
  <2>1. \A p \in Purchases : {t \in Txs : proved[t] = p} = {}
    BY Bounds DEF Init
  <2>2. Cardinality({}) = 0
    BY FS_EmptySet
  <2> QED BY <2>1, <2>2 DEF Init, RatingsArePaid
<1>8. Indexed
  BY DEF Init, Indexed, HistoryIsIndexed, Place, NoTx
<1> QED BY <1>1, <1>3, <1>4, <1>5, <1>6, <1>7, <1>8 DEF IInv, TypeOK

LEMMA NextInvariant == IInv /\ [Next]_vars => IInv'
<1> SUFFICES ASSUME IInv, [Next]_vars PROVE IInv'
  OBVIOUS
<1>1. BrowserOK' /\ HereOK' /\ AskedOK'
  BY TabPreserved DEF IInv, TabStep
<1>2. LedgerOK'
  BY LedgerSteps DEF IInv, Grows
<1>3. BooksOK' /\ RatingsArePaid'
  BY BooksPreserved DEF IInv
<1>4. WatcherOK' /\ Indexed'
  BY WatcherPreserved DEF IInv, WatchStep
<1>5. AdminOK' /\ CallOK'
  BY AdminPreserved, CallPreserved DEF IInv
<1> QED BY <1>1, <1>2, <1>3, <1>4, <1>5 DEF IInv, TypeOK

\* The inductive invariant: types, the runs of the tab and the request the shop
\* works on, the paid ratings and the position in the history, together.
THEOREM RatingInvariant == Spec => []IInv
BY InitInvariant, NextInvariant, PTL DEF Spec

\* The kinds of values, whatever the browser, the shop and the chain do
\* (RatingFlow.tsx, ratingPay.ts, ratings.go, rating_watch.go).
THEOREM RatingTypeOK == Spec => []TypeOK
<1>1. IInv => TypeOK
  BY DEF IInv
<1> QED BY <1>1, RatingInvariant, PTL

\* Every rating was paid by a mined payment of its own, for any number of pages,
\* watchers' ticks and restarts (ApplyRating, ratings.go).
THEOREM RatingRatingsArePaid == Spec => []RatingsArePaid
<1>1. IInv => RatingsArePaid
  BY DEF IInv
<1> QED BY <1>1, RatingInvariant, PTL

\* A payment put aside comes to sleep under a reserved memo only as a phantom of
\* the transaction that reserved it, filed after its snapshot; no payment filed
\* before is lost, for any number of memos, payments and requests
\* (SaveRatingChainInbox and SaveRatingIntent, rating_watch.go).
THEOREM RatingOnlyPhantomsSleep == Spec => OnlyPhantomsSleep
<1>1. IInv /\ [Next]_vars =>
        [\A t \in Txs : ~Asleep(t) /\ Asleep(t)' =>
           Reserving /\ call.memo = Memo(t) /\ t \notin call.saw /\ Persist]_vars
  BY WatcherPreserved DEF IInv, WatchStep, SleepOK
<1> QED BY <1>1, RatingInvariant, PTL DEF Spec, OnlyPhantomsSleep

\* The watcher skips no payment, for every page size and every history
\* (scan, worker.go).
THEOREM RatingHistoryIsIndexed == Spec => []HistoryIsIndexed
<1>1. IInv => HistoryIsIndexed
  BY DEF IInv, Indexed
<1> QED BY <1>1, RatingInvariant, PTL

-----------------------------------------------------------------------------
(* The record of a submitted payment, whatever runs are under way.          *)

\* No record of a submitted payment is dropped.
Keeps == \A p \in Purchases : Submitted(p) => rec'[p] # NoRec

\* A run ends that may drop one: its own memo could not be reserved, or the
\* rating it asked for is saved.
MayDrop(r) == /\ runs[r] # NoRun /\ runs'[r] = NoRun
              /\ At(r, "intent") \/ rating'[runs[r].for].memo = runs[r].memo

KeptStep == \A p \in Purchases :
  Submitted(p) /\ rec'[p] = NoRec => \E r \in Runs : MayDrop(r)

LEMMA KeptIs == Keeps \/ (\E r \in Runs : MayDrop(r)) => KeptStep
BY DEF Keeps, KeptStep

LEMMA SubmittedStands ==
  ASSUME NEW p \in Purchases, Submitted(p)
  PROVE  rec[p] # NoRec
BY DEF Submitted, NoRec

LEMMA StillKeeps ==
  ASSUME UNCHANGED rec
  PROVE  Keeps
BY SubmittedStands DEF Keeps

\* A run under way belongs to a purchase and pays for a memo.
LEMMA RunStands ==
  ASSUME BrowserOK, NEW r \in Runs, runs[r] # NoRun
  PROVE  /\ runs[r].for \in Purchases /\ runs[r].memo \in Memos
         /\ runs[r].at \in {"intent", "wallet", "poll"} /\ runs[r].hash \in 0..MaxTxs
BY DEF BrowserOK, RunType


\* Looking, marking and forgetting what was never submitted keep the records.
LEMMA MovesKeep ==
  ASSUME BrowserOK, NEW p \in Purchases, NEW h \in 0..MaxTxs,
         UNCHANGED rec \/ Touch(p) \/ Mark(p, h) \/ ForgetUnsubmitted(p)
  PROVE  Keeps
<1>1. rec \in [Purchases -> RecType]
  BY DEF BrowserOK
<1>2. CASE UNCHANGED rec
  BY <1>2, SubmittedStands DEF Keeps
<1>3. CASE Mark(p, h) /\ rec[p] # NoRec
  <2>1. rec' = [rec EXCEPT ![p].submitted = TRUE, ![p].hash = IF h = NoTx THEN @ ELSE h]
    BY <1>3 DEF Mark
  <2>2. rec[p] \in [memo : Memos, submitted : BOOLEAN, hash : 0..MaxTxs]
    BY <1>1, <1>3 DEF RecType
  <2>3. rec'[p].submitted = TRUE
    BY <1>1, <2>1, <2>2
  <2>4. \A q \in Purchases : q # p => rec'[q] = rec[q]
    BY <1>1, <2>1
  <2>5. NoRec.submitted = FALSE
    BY DEF NoRec
  <2> QED BY <2>3, <2>4, <2>5, SubmittedStands DEF Keeps
<1>4. CASE ForgetUnsubmitted(p) /\ ~Submitted(p)
  <2>1. rec' = [rec EXCEPT ![p] = NoRec]
    BY <1>4 DEF ForgetUnsubmitted, Forget
  <2>2. \A q \in Purchases : q # p => rec'[q] = rec[q]
    BY <1>1, <2>1
  <2> QED BY <1>4, <2>2, SubmittedStands DEF Keeps
<1> QED BY <1>2, <1>3, <1>4 DEF Mark, Touch, ForgetUnsubmitted

\* A wait that ends without the saved rating keeps the records.
LEMMA RefusalKeeps ==
  ASSUME BrowserOK, NEW r \in Runs, At(r, "poll"), Refused(r) \/ GivesUp(r)
  PROVE  Keeps /\ Ends(r)
<1>1. runs[r].for \in Purchases /\ NoTx \in 0..MaxTxs
  BY RunStands, Bounds DEF At, NoRun, NoTx
<1>2. CASE Ends(r) /\ UNCHANGED rec
  BY <1>1, <1>2, MovesKeep
<1>3. CASE ForgetUnsubmitted(runs[r].for) /\ Ends(r)
  BY <1>1, <1>3, MovesKeep
<1>4. CASE Mark(runs[r].for, NoTx) /\ Ends(r)
  BY <1>1, <1>4, MovesKeep
<1> QED BY <1>2, <1>3, <1>4 DEF Refused, GivesUp

\* A run that ends at the reservation may drop the record looked at last.
LEMMA NoIntentDrops ==
  ASSUME BrowserOK, NEW r \in Runs, At(r, "intent"), NoIntentLeft(r)
  PROVE  MayDrop(r)
<1>1. Ends(r) /\ runs[r] # NoRun
  BY DEF NoIntentLeft, At, NoRun
<1> QED BY <1>1 DEF MayDrop, Ends, BrowserOK

LEMMA LostKeeps ==
  ASSUME BrowserOK, CallOK, AskedOK, Lost
  PROVE  KeptStep
<1>1. CASE call.run = NoOne
  BY <1>1, StillKeeps, KeptIs DEF Lost
<1>2. CASE call.run # NoOne /\ call.at = "intent"
  <2>1. call.run \in Runs /\ At(call.run, "intent") /\ NoIntentLeft(call.run)
    BY <1>2, CallStands DEF Lost
  <2> QED BY <2>1, NoIntentDrops, KeptIs
<1>3. CASE call.run # NoOne /\ call.at # "intent"
  <2>1. call.run \in Runs /\ At(call.run, "poll") /\ Refused(call.run)
    BY <1>3, CallStands DEF Lost
  <2> QED BY <2>1, RefusalKeeps, KeptIs
<1> QED BY <1>1, <1>2, <1>3

\* A saved rating ends the run that asked for it.
LEMMA SavedDrops ==
  ASSUME BrowserOK, NEW r \in Runs, At(r, "poll"), Saved(r),
         rating'[runs[r].for].memo = runs[r].memo
  PROVE  KeptStep
<1>1. Ends(r) /\ runs[r] # NoRun
  BY DEF Saved, At, NoRun
<1>2. MayDrop(r)
  BY <1>1 DEF MayDrop, Ends, BrowserOK
<1> QED BY <1>2, KeptIs

LEMMA PageKeeps ==
  ASSUME BrowserOK,
         (\E p \in Purchases : Visit(p) \/ Expire(p)) \/ (\E m \in Memos : Rate(m))
           \/ Leave \/ Unload \/ Check
  PROVE  Keeps
<1>1. rec \in [Purchases -> RecType] /\ page \in PageType
  BY DEF BrowserOK
<1>2. (\E p \in Purchases : Visit(p)) \/ Leave \/ Unload \/ Check => UNCHANGED rec
  BY DEF Visit, Leave, Unload, Check, Touch
<1>3. ASSUME NEW p \in Purchases, Expire(p) PROVE Keeps
  <2>1. ~Submitted(p) /\ \A q \in Purchases : q # p => rec'[q] = rec[q]
    BY <1>1, <1>3 DEF Expire
  <2> QED BY <2>1, SubmittedStands DEF Keeps
<1>4. ASSUME NEW m \in Memos, Rate(m) PROVE Keeps
  <2>1. ~Submitted(Here) /\ rec' = [rec EXCEPT ![Here] = [memo |-> m, submitted |-> FALSE, hash |-> NoTx]]
    BY <1>4 DEF Rate
  <2>2. Here \in Purchases
    BY <1>1, <1>4 DEF Rate, Idle, PageType, Here
  <2>3. \A q \in Purchases : q # Here => rec'[q] = rec[q]
    BY <1>1, <2>1, <2>2
  <2> QED BY <2>1, <2>3, SubmittedStands DEF Keeps
<1> QED BY <1>2, <1>3, <1>4, StillKeeps

LEMMA WalletKeeps ==
  ASSUME TypeOK, NEW r \in Runs,
         \/ WalletPays(r) \/ WalletDenies(r)
         \/ WalletUnknown(r) \/ WalletFails(r) \/ WalletRedirects(r)
  PROVE  Keeps
<1>1. BrowserOK /\ LedgerOK /\ NoTx \in 0..MaxTxs
  BY Bounds DEF TypeOK, NoTx
<1>2. runs[r].for \in Purchases /\ runs[r].memo \in Memos
  <2>1. At(r, "wallet")
    BY DEF WalletPays, WalletDenies, WalletUnknown, WalletFails, WalletRedirects
  <2> QED BY <1>1, <2>1, RunStands DEF At, NoRun
<1>3. CASE WalletPays(r) \/ WalletUnknown(r)
  <2>1. Mark(runs[r].for, NoTx) \/ \E h \in 0..MaxTxs : Mark(runs[r].for, h)
    BY <1>1, <1>2, <1>3, BroadcastHash DEF WalletPays, WalletUnknown
  <2> QED BY <1>1, <1>2, <2>1, MovesKeep
<1>4. CASE WalletDenies(r) \/ WalletFails(r) \/ WalletRedirects(r)
  <2>1. ForgetUnsubmitted(runs[r].for) \/ Mark(runs[r].for, NoTx)
    BY <1>4 DEF WalletDenies, WalletFails, WalletRedirects
  <2> QED BY <1>1, <1>2, <2>1, MovesKeep
<1> QED BY <1>3, <1>4

LEMMA AnswerKeeps ==
  ASSUME TypeOK, AskedOK,
         \/ \E r \in Runs : \/ Intent(r) \/ IntentFails(r)
                            \/ SubmitKnown(r) \/ Submit(r) \/ AskFails(r) \/ AskEnds(r)
         \/ Persist \/ Retry \/ Record \/ Restart
         \/ \E t \in Txs : SettleCut(t)
  PROVE  KeptStep
<1>1. BrowserOK /\ CallOK /\ BooksOK
  BY DEF TypeOK
<1>2. ASSUME NEW r \in Runs, Intent(r) \/ Submit(r) PROVE KeptStep
  BY <1>2, StillKeeps, KeptIs DEF Intent, Submit, browser
<1>3. ASSUME NEW r \in Runs, IntentFails(r) PROVE KeptStep
  BY <1>1, <1>3, NoIntentDrops, KeptIs DEF IntentFails
<1>4. ASSUME NEW r \in Runs, AskFails(r) \/ AskEnds(r) PROVE KeptStep
  BY <1>1, <1>4, RefusalKeeps, KeptIs DEF AskFails, AskEnds
<1>5. ASSUME NEW r \in Runs, SubmitKnown(r) PROVE KeptStep
  <2>1. At(r, "poll") /\ Saved(r) /\ rating'[runs[r].for].memo = runs[r].memo
    BY <1>5 DEF SubmitKnown, Asks, AlreadySaved, books
  <2> QED BY <1>1, <2>1, SavedDrops
<1>6. Lost => KeptStep
  BY <1>1, LostKeeps
<1>7. CASE Record
  <2>1. CASE Lost
    BY <1>6, <2>1
  <2>2. CASE UNCHANGED rec
    BY <2>2, StillKeeps, KeptIs
  <2>3. CASE call.run # NoOne /\ Saved(call.run) /\ Apply(call.for, call.memo, call.tx)
    <3>1. /\ call.run \in Runs /\ At(call.run, "poll")
          /\ runs[call.run].for = call.for /\ runs[call.run].memo = call.memo
      BY <1>1, <1>7, <2>3, CallStands DEF Record
    <3>2. call.for \in Purchases
      BY <1>1, <3>1, RunStands DEF At, NoRun
    <3>3. rating'[call.for].memo = call.memo
      BY <1>1, <2>3, <3>2 DEF BooksOK, Apply
    <3> QED BY <1>1, <2>3, <3>1, <3>3, SavedDrops
  <2> QED BY <1>7, <2>1, <2>2, <2>3 DEF Record
<1>8. CASE Retry
  BY <1>6, <1>8, StillKeeps, KeptIs DEF Retry, browser
<1>9. Persist => KeptStep
  BY StillKeeps, KeptIs DEF Persist
<1>10. Restart \/ (\E t \in Txs : SettleCut(t)) => KeptStep
  BY <1>6 DEF Restart, SettleCut
<1> QED BY <1>2, <1>3, <1>4, <1>5, <1>7, <1>8, <1>9, <1>10

LEMMA StepKeeps ==
  ASSUME IInv, [Next]_vars
  PROVE  KeptStep
<1>1. TypeOK /\ AskedOK /\ BrowserOK /\ CallOK
  BY DEF IInv, TypeOK
<1>2. Outside \/ (\E q \in Purchases \X Memos : LateAnswer(q)) \/ UNCHANGED vars => UNCHANGED rec
  BY <1>1, OutsideMarks DEF LateAnswer, vars, browser
<1> QED BY <1>1, <1>2, StepIs, PageKeeps, WalletKeeps, AnswerKeeps, StillKeeps, KeptIs

\* The record of a submitted payment leaves the browser only with a run that
\* ends because its rating is saved or its own memo could not be reserved,
\* however many runs are under way in the tab (RatingFlow.tsx, ratingPay.ts).
THEOREM RatingRefusalsKeep == Spec => RefusalsKeep
<1>1. IInv /\ [Next]_vars =>
        [\A p \in Purchases : Submitted(p) /\ rec'[p] = NoRec =>
           \E r \in Runs : /\ runs[r] # NoRun /\ runs'[r] = NoRun
                           /\ \/ At(r, "intent")
                              \/ rating'[runs[r].for].memo = runs[r].memo]_vars
  BY StepKeeps DEF KeptStep, MayDrop
<1> QED BY <1>1, RatingInvariant, PTL DEF Spec, RefusalsKeep
=============================================================================
