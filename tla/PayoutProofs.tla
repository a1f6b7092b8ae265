----------------------------- MODULE PayoutProofs -----------------------------
(***************************************************************************)
(* Proofs about the payout worker: types, at most one credit per row, and  *)
(* that a paid row is backed by a final receipt, that a signature is only  *)
(* ever replaced when it is dead, and that the worker keeps the obligation *)
(* to each buyer, for every set of rows, window, skew, batch size and      *)
(* chain length.                                                           *)
(***************************************************************************)
EXTENDS Payout, FiniteSetTheorems, TLAPS

-----------------------------------------------------------------------------
(* Types.                                                                  *)

LEMMA CardinalityOfRows == Cardinality(Rows) \in Nat
BY FS_CardinalityType, RowsAssumption

\* Stamping a row keeps the ranks of UpdatedAt in range.
LEMMA TouchType ==
  ASSUME age \in [Rows -> 1 .. Cardinality(Rows)], NEW r \in Rows, Touch(r)
  PROVE  age' \in [Rows -> 1 .. Cardinality(Rows)]
BY CardinalityOfRows DEF Touch

LEMMA PatchType ==
  ASSUME RowTypes, NEW r \in Rows, NEW rec \in Row, Patch(r, rec)
  PROVE  RowTypes'
BY TouchType DEF Patch, RowTypes

\* Every store operation of the worker writes well-typed rows.
LEMMA ReadType ==
  ASSUME RowTypes, NEW r \in Rows
  PROVE  row[r] \in Row
BY DEF RowTypes

LEMMA NoWriteType == ASSUME RowTypes, NoWrite PROVE RowTypes'
BY DEF RowTypes, NoWrite

LEMMA ClaimType == ASSUME RowTypes, NEW r \in Rows, Claim(r) PROVE RowTypes'
<1>1. [row[r] EXCEPT !.status = "sending"] \in Row
  BY ReadType DEF Row, Statuses
<1> QED BY <1>1, PatchType DEF Claim

LEMMA FailType == ASSUME RowTypes, NEW r \in Rows, FailSend(r) PROVE RowTypes'
<1>1. [row[r] EXCEPT !.status = "queued"] \in Row
  BY ReadType DEF Row, Statuses
<1> QED BY <1>1, ReadType, PatchType DEF FailSend

LEMMA BroadcastType ==
  ASSUME RowTypes, NEW r \in Rows, NEW h \in Heights \cup {NoTx, TestHash},
         MarkBroadcast(r, h)
  PROVE  RowTypes'
<1>1. [row[r] EXCEPT !.status = "broadcast", !.hash = h] \in Row
  BY ReadType DEF Row, Statuses
<1> QED BY <1>1, NoWriteType, PatchType DEF MarkBroadcast

LEMMA AttachType ==
  ASSUME RowTypes, NEW r \in Rows, NEW h \in Heights, AttachSignedTx(r, h)
  PROVE  RowTypes'
<1>1. [row[r] EXCEPT !.signed = h, !.hash = h] \in Row
  BY ReadType DEF Row, Statuses
<1> QED BY <1>1, PatchType DEF AttachSignedTx

LEMMA RetireType ==
  ASSUME RowTypes, NEW r \in Rows, NEW h \in Heights, Retire(r, h)
  PROVE  RowTypes'
<1>1. [row[r] EXCEPT !.status = "queued", !.signed = NoTx, !.hash = NoTx,
                     !.expired = @ \cup {h}] \in Row
  BY ReadType DEF Row, Statuses
<1> QED BY <1>1, PatchType DEF Retire

LEMMA PaidType ==
  ASSUME RowTypes, NEW r \in Rows, NEW h, MarkPaid(r, h)
  PROVE  RowTypes'
<1>1. [row[r] EXCEPT !.status = "paid"] \in Row
  BY ReadType DEF Row, Statuses
<1> QED BY <1>1, NoWriteType, PatchType DEF MarkPaid

-----------------------------------------------------------------------------
(* The inductive invariant.  AtMostOneCredit alone is not inductive: it     *)
(* needs to know that whatever is on the wire is on record, that a retired *)
(* attempt is out of its window below a final block, and that the worker   *)
(* in the middle of a row holds exactly the row's current bytes.           *)

Real == Rows \ TestRows
InRebroadcast == {"lookup", "markpaid", "prove", "push", "accepted", "refused"}

\* Between two rows the worker holds none.
IdleHands == pc \in {"idle", "next"} => cur = NoRow

RowInv ==
  /\ \A r \in TestRows : row[r].signed = NoTx /\ row[r].expired = {}
  /\ \A r \in Real : /\ row[r].hash = row[r].signed
                     /\ row[r].status \in {"broadcast", "paid"} =>
                          row[r].signed \in Heights

WorkerInv ==
  /\ pc = "testsend" => cur \in TestRows
  /\ pc = "sign" => cur \in Real /\ row[cur].signed = NoTx
  /\ pc \in InRebroadcast =>
       cur \in Real /\ tx \in Heights /\ row[cur].signed = tx
  /\ pc = "idle" => todo = {}
  /\ IdleHands
  /\ \A cb \in todo :
       /\ cb.id # cur
       /\ row[cb.id].signed = cb.signed
       /\ phase = "confirm" /\ cb.id \in Real => cb.signed \in Heights
  /\ \A cb, db \in todo : cb.id = db.id => cb = db

LedgerInv ==
  /\ \A c \in ledger : /\ c.tx \in pushed
                       /\ c.block <= c.tx[2] + Window
  /\ \A c, d \in ledger : c.tx = d.tx => c = d

\* A retired attempt is out of its window at the last final block.
ExpiredIsSealed ==
  \A r \in Rows : \A s \in row[r].expired : s + Window < macro

PaidRows == \A r \in Real : row[r].status = "paid" =>
                              ConfirmedAt(<<r, row[r].signed>>, macro)

PaidPending == pc = "markpaid" => ConfirmedAt(<<cur, tx>>, macro)

ChainInv == /\ WireIsOnRecord /\ LedgerInv /\ ExpiredIsSealed /\ RetiredIsDead
            /\ TestStaysOffChain

IInv == TypeOK /\ RowInv /\ WorkerInv /\ ChainInv /\ PaidRows /\ PaidPending

-----------------------------------------------------------------------------
(* Type correctness.                                                       *)

LEMMA TypeInit == Init => TypeOK
<1> SUFFICES ASSUME Init PROVE TypeOK
  OBVIOUS
<1>1. row \in [Rows -> Row]
  BY DEF Init, Row, Statuses
<1>2. ChainTypes
  BY BoundsAssumption DEF Init, ChainTypes, Heights
<1> QED BY <1>1, <1>2, BoundsAssumption DEF TypeOK, Init, RowTypes, WorkerTypes

\* What the worker holds is well typed at every step that uses it.
Held ==
  /\ pc = "testsend" => cur \in Rows
  /\ pc = "sign" => cur \in Rows
  /\ pc \in InRebroadcast => cur \in Rows /\ tx \in Heights
  /\ \A cb \in todo : phase = "confirm" /\ cb.id \notin TestRows =>
                        cb.signed \in Heights

LEMMA WorkerHolds == IInv => Held
BY RowsAssumption DEF IInv, WorkerInv, Held, Real, TypeOK, WorkerTypes, Snapshot

LEMMA WorkerStepTypes ==
  ASSUME TypeOK, Held, WorkerStep
  PROVE  TypeOK'
<1> USE DEF TypeOK
<1>1. CASE StartTick
  <2>1. \A r \in Rows : SnapshotOf(r) \in Snapshot
    BY DEF SnapshotOf, Snapshot, RowTypes, Row
  <2>2. ListBoth("broadcast", BroadcastBatch) \subseteq Rows
    BY RowsAssumption DEF ListBoth, Listed
  <2> QED BY <1>1, <2>1, <2>2
      DEF StartTick, Goto, WorkerTypes, RowTypes, ChainTypes, rowVars, chainVars
<1>2. CASE ListSendable
  <2>1. \A r \in Rows : SnapshotOf(r) \in Snapshot
    BY DEF SnapshotOf, Snapshot, RowTypes, Row
  <2>2. ListBoth("queued", QueuedBatch) \cup ListBoth("sending", QueuedBatch)
          \subseteq Rows
    BY RowsAssumption DEF ListBoth, Listed
  <2> QED BY <1>2, <2>1, <2>2
      DEF ListSendable, WorkerTypes, RowTypes, ChainTypes, rowVars, chainVars
<1>3. CASE EndTick
  BY <1>3 DEF EndTick, Goto, WorkerTypes, RowTypes, ChainTypes, rowVars, chainVars
<1>4. ASSUME NEW cb \in todo,
             \/ SkipReal(cb) \/ ConfirmTest(cb) \/ ConfirmPaid(cb)
             \/ ConfirmRetry(cb) \/ SendTest(cb) \/ SendSigned(cb)
             \/ SendUnsigned(cb)
      PROVE  TypeOK'
  <2>0. cb.id \in Rows /\ cb.signed \in Heights \cup {NoTx}
    BY DEF WorkerTypes, Snapshot
  <2>1. ASSUME NEW p, Take(cb, p)
        PROVE  /\ ChainTypes' /\ calm' \in BOOLEAN /\ wallet' \in BOOLEAN
               /\ phase' \in {"idle", "confirm", "send"} /\ todo' \subseteq Snapshot
    BY <2>1 DEF Take, ChainTypes, WorkerTypes, chainVars
  <2>2. CASE SkipReal(cb)
    BY <2>0, <2>1, <2>2 DEF SkipReal, rowVars, RowTypes, WorkerTypes
  <2>3. CASE ConfirmTest(cb)
    <3>1. RowTypes'
      BY <2>0, <2>3, PaidType DEF ConfirmTest
    <3> QED BY <3>1, <2>1, <2>3 DEF ConfirmTest, WorkerTypes
  <2>4. CASE ConfirmPaid(cb)
    <3>1. RowTypes'
      BY <2>0, <2>4, PaidType DEF ConfirmPaid
    <3> QED BY <3>1, <2>1, <2>4 DEF ConfirmPaid, WorkerTypes
  <2>5. CASE ConfirmRetry(cb)
    <3>1. RowTypes'
      BY <2>0, <2>5, FailType, NoWriteType DEF ConfirmRetry
    <3> QED BY <3>1, <2>0, <2>1, <2>5 DEF ConfirmRetry, Goto, WorkerTypes
  <2>6. CASE SendTest(cb)
    <3>1. CASE CanClaim(cb.id)
      <4>1. Claim(cb.id)
        BY <2>6, <3>1 DEF SendTest
      <4>2. RowTypes' /\ recent' \subseteq Rows
        BY <4>1, <2>0, ClaimType DEF Claim
      <4> QED BY <4>2, <3>1, <2>0, <2>1, <2>6 DEF SendTest, Goto, WorkerTypes
    <3>2. CASE ~CanClaim(cb.id)
      BY <2>1, <2>6, <3>2 DEF SendTest, rowVars, RowTypes, WorkerTypes
    <3> QED BY <3>1, <3>2
  <2>7. CASE SendSigned(cb)
    BY <2>0, <2>1, <2>7 DEF SendSigned, Goto, rowVars, RowTypes, WorkerTypes
  <2>8. CASE SendUnsigned(cb)
    <3>1. CASE CanClaim(cb.id)
      <4>1. Claim(cb.id)
        BY <2>8, <3>1 DEF SendUnsigned
      <4>2. RowTypes' /\ recent' \subseteq Rows
        BY <4>1, <2>0, ClaimType DEF Claim
      <4> QED BY <4>2, <3>1, <2>0, <2>1, <2>8 DEF SendUnsigned, Goto, WorkerTypes
    <3>2. CASE ~CanClaim(cb.id)
      BY <2>1, <2>8, <3>2 DEF SendUnsigned, rowVars, RowTypes, WorkerTypes
    <3> QED BY <3>1, <3>2
  <2> QED BY <1>4, <2>2, <2>3, <2>4, <2>5, <2>6, <2>7, <2>8
<1>5. CASE BroadcastTest
  <2>1. RowTypes'
    BY <1>5, BroadcastType DEF BroadcastTest, Held
  <2> QED BY <1>5, <2>1 DEF BroadcastTest, Finish, Goto, Return, WorkerTypes,
                            ChainTypes, chainVars
<1>6. ASSUME NEW h \in Heights, SignAndPersist(h)
      PROVE  TypeOK'
  <2>1. RowTypes'
    BY <1>6, AttachType, NoWriteType DEF SignAndPersist, Held
  <2> QED BY <1>6, <2>1 DEF SignAndPersist, Finish, Goto, Return, WorkerTypes,
                            ChainTypes, chainVars
<1>7. CASE SignFails
  <2>1. RowTypes'
    BY <1>7, FailType DEF SignFails, Held
  <2> QED BY <1>7, <2>1 DEF SignFails, Finish, Goto, Return, WorkerTypes,
                            ChainTypes, chainVars
<1>8. CASE Lookup
  <2>1. RowTypes'
    BY <1>8, BroadcastType, NoWriteType, FailType DEF Lookup, Held, InRebroadcast
  <2> QED BY <1>8, <2>1 DEF Lookup, Goto, WorkerTypes, ChainTypes, chainVars
<1>9. CASE MarkPaidAfterLookup
  <2>1. RowTypes'
    BY <1>9, PaidType DEF MarkPaidAfterLookup, Held, InRebroadcast
  <2> QED BY <1>9, <2>1 DEF MarkPaidAfterLookup, Finish, Goto, Return,
                            WorkerTypes, ChainTypes, chainVars
<1>10. CASE Prove
  <2>1. RowTypes'
    BY <1>10, RetireType, NoWriteType, FailType DEF Prove, Held, InRebroadcast
  <2> QED BY <1>10, <2>1 DEF Prove, Finish, Goto, Return, WorkerTypes,
                             ChainTypes, chainVars
<1>11. CASE Push
  BY <1>11 DEF Push, Goto, Held, InRebroadcast, WorkerTypes, ChainTypes, Tx,
               RowTypes, rowVars
<1>12. CASE PushAccepted
  <2>1. RowTypes'
    BY <1>12, BroadcastType DEF PushAccepted, Held, InRebroadcast
  <2> QED BY <1>12, <2>1 DEF PushAccepted, Finish, Goto, Return, WorkerTypes,
                             ChainTypes, chainVars
<1>13. CASE PushRefused
  <2>1. RowTypes'
    BY <1>13, BroadcastType, FailType DEF PushRefused, Held, InRebroadcast
  <2> QED BY <1>13, <2>1 DEF PushRefused, Finish, Goto, Return, WorkerTypes,
                             ChainTypes, chainVars
<1> QED BY <1>1, <1>2, <1>3, <1>4, <1>5, <1>6, <1>7, <1>8, <1>9, <1>10, <1>11,
           <1>12, <1>13 DEF WorkerStep

LEMMA EnvironmentTypes ==
  ASSUME TypeOK,
         \/ Crash \/ Settle \/ ChainStep \/ (\E r \in Rows : ClaimAges(r))
         \/ UNCHANGED vars
  PROVE  TypeOK'
<1> USE DEF TypeOK, rowVars, workerVars, chainVars
<1>1. CASE Crash
  BY <1>1, BoundsAssumption DEF Crash, Return, RowTypes, WorkerTypes, ChainTypes
<1>2. CASE Settle
  BY <1>2 DEF Settle, RowTypes, WorkerTypes, ChainTypes
<1>3. CASE NewBlock
  BY <1>3, BoundsAssumption
     DEF NewBlock, RowTypes, WorkerTypes, ChainTypes, Heights
<1>4. CASE Finalize
  BY <1>4 DEF Finalize, RowTypes, WorkerTypes, ChainTypes, Heights
<1>5. CASE Reorg
  BY <1>5 DEF Reorg, RowTypes, WorkerTypes, ChainTypes
<1>6. ASSUME NEW t \in pushed, NEW ok \in BOOLEAN, Include(t, ok)
      PROVE  TypeOK'
  <2>1. [tx |-> t, block |-> height, ok |-> ok] \in Receipt
    BY DEF ChainTypes, Receipt
  <2> QED BY <1>6, <2>1 DEF Include, RowTypes, WorkerTypes, ChainTypes
<1>7. CASE \E r \in Rows : ClaimAges(r)
  BY <1>7 DEF ClaimAges, RowTypes, WorkerTypes, ChainTypes
<1>8. CASE UNCHANGED vars
  BY <1>8 DEF vars, RowTypes, WorkerTypes, ChainTypes
<1> QED BY <1>1, <1>2, <1>3, <1>4, <1>5, <1>6, <1>7, <1>8 DEF ChainStep

LEMMA TypeStep == IInv /\ [Next]_vars => TypeOK'
BY WorkerStepTypes, WorkerHolds, EnvironmentTypes DEF Next, IInv

-----------------------------------------------------------------------------
(* What the store operations leave alone.                                  *)

SameBytes == \A s \in Rows : /\ row'[s].signed = row[s].signed
                             /\ row'[s].expired = row[s].expired

SameElsewhere(r) == \A s \in Rows \ {r} : row'[s] = row[s]

LEMMA NoWriteFrame ==
  ASSUME RowTypes, NoWrite
  PROVE  SameBytes /\ row' = row
BY DEF RowTypes, NoWrite, SameBytes

\* Claiming, failing, and marking change only the status and the hash.
LEMMA ClaimFrame ==
  ASSUME RowTypes, NEW r \in Rows, Claim(r)
  PROVE  /\ SameBytes /\ SameElsewhere(r)
         /\ row'[r].status = "sending" /\ row'[r].hash = row[r].hash
BY ReadType DEF Claim, Patch, RowTypes, Row, SameBytes, SameElsewhere

LEMMA FailFrame ==
  ASSUME RowTypes, NEW r \in Rows, FailSend(r)
  PROVE  /\ SameBytes /\ SameElsewhere(r) /\ row'[r].hash = row[r].hash
         /\ row'[r].status \in {row[r].status, "queued"}
         /\ row'[r].status # row[r].status => row[r].status # "paid"
<1>1. row[r] \in Row
  BY ReadType
<1>2. CASE row' = [row EXCEPT ![r] = row[r]]
  BY <1>1, <1>2 DEF RowTypes, Row, SameBytes, SameElsewhere
<1>3. CASE /\ row' = [row EXCEPT ![r] = [row[r] EXCEPT !.status = "queued"]]
           /\ row[r].status # "paid"
  BY <1>1, <1>3 DEF RowTypes, Row, SameBytes, SameElsewhere
<1> QED BY <1>2, <1>3 DEF FailSend, Patch

LEMMA BroadcastFrame ==
  ASSUME RowTypes, NEW r \in Rows, NEW h, MarkBroadcast(r, h)
  PROVE  /\ SameBytes /\ SameElsewhere(r)
         /\ \/ row' = row
            \/ /\ row[r].status # "paid"
               /\ row'[r].status = "broadcast" /\ row'[r].hash = h
<1>1. row[r] \in Row
  BY ReadType
<1>2. CASE NoWrite
  BY <1>2, NoWriteFrame DEF SameElsewhere
<1>3. CASE /\ row' = [row EXCEPT ![r] = [row[r] EXCEPT !.status = "broadcast",
                                                       !.hash = h]]
           /\ row[r].status # "paid"
  BY <1>1, <1>3 DEF RowTypes, Row, SameBytes, SameElsewhere
<1> QED BY <1>2, <1>3 DEF MarkBroadcast, Patch

LEMMA PaidFrame ==
  ASSUME RowTypes, NEW r \in Rows, NEW h, MarkPaid(r, h)
  PROVE  /\ SameBytes /\ SameElsewhere(r)
         /\ \/ row' = row
            \/ /\ row[r].status \in {"broadcast", "paid"}
               /\ row[r].hash = h /\ row'[r].hash = h
               /\ row'[r].status = "paid"
<1>1. row[r] \in Row
  BY ReadType
<1>2. CASE NoWrite
  BY <1>2, NoWriteFrame DEF SameElsewhere
<1>3. CASE /\ row' = [row EXCEPT ![r] = [row[r] EXCEPT !.status = "paid"]]
           /\ row[r].hash = h /\ row[r].status \in {"broadcast", "paid"}
  BY <1>1, <1>3 DEF RowTypes, Row, SameBytes, SameElsewhere
<1> QED BY <1>2, <1>3 DEF MarkPaid, Patch

LEMMA AttachFrame ==
  ASSUME RowTypes, NEW r \in Rows, NEW h, AttachSignedTx(r, h)
  PROVE  /\ SameElsewhere(r) /\ row'[r].signed = h /\ row'[r].hash = h
         /\ row'[r].expired = row[r].expired /\ row'[r].status = row[r].status
BY ReadType DEF AttachSignedTx, Patch, RowTypes, Row, SameElsewhere

LEMMA RetireFrame ==
  ASSUME RowTypes, NEW r \in Rows, NEW h, Retire(r, h)
  PROVE  /\ SameElsewhere(r) /\ row'[r].signed = NoTx /\ row'[r].hash = NoTx
         /\ row'[r].expired = row[r].expired \cup {h}
         /\ row'[r].status = "queued"
BY ReadType DEF Retire, Patch, RowTypes, Row, SameElsewhere

-----------------------------------------------------------------------------
(* Steps that sign nothing and retire nothing keep the chain invariant.    *)

LEMMA SameBytesKeepChain ==
  ASSUME TypeOK, ChainInv, SameBytes, UNCHANGED <<pushed, ledger, macro>>
  PROVE  ChainInv'
<1> USE DEF TypeOK, ChainTypes, Receipt, Tx
<1>1. WireIsOnRecord'
  BY DEF ChainInv, WireIsOnRecord, SameBytes
<1>2. LedgerInv'
  BY DEF ChainInv, LedgerInv
<1>3. ExpiredIsSealed'
  BY DEF ChainInv, ExpiredIsSealed, SameBytes
<1>4. RetiredIsDead'
  BY DEF ChainInv, RetiredIsDead, SameBytes
<1>5. TestStaysOffChain'
  BY DEF ChainInv, TestStaysOffChain
<1> QED BY <1>1, <1>2, <1>3, <1>4, <1>5 DEF ChainInv

\* A step on one row that leaves all bytes alone keeps the row invariants when
\* it neither marks the row paid nor gives it a foreign hash.
LEMMA QuietRowKeeps ==
  ASSUME TypeOK, RowInv, PaidRows, SameBytes, UNCHANGED <<ledger, macro>>,
         NEW r \in Rows, SameElsewhere(r),
         r \in Real => row'[r].hash = row[r].signed,
         r \in Real /\ row'[r].status \in {"broadcast", "paid"} =>
           row[r].signed \in Heights,
         r \in Real /\ row'[r].status = "paid" =>
           ConfirmedAt(<<r, row[r].signed>>, macro)
  PROVE  RowInv' /\ PaidRows'
<1> USE RowsAssumption DEF Real
<1>1. \A s \in Rows : s # r => row'[s] = row[s]
  BY DEF SameElsewhere
<1>2. \A t : ConfirmedAt(t, macro)' = ConfirmedAt(t, macro)
  BY DEF ConfirmedAt
<1>3. RowInv'
  BY <1>1 DEF RowInv, SameBytes
<1>4. PaidRows'
  BY <1>1, <1>2 DEF PaidRows, SameBytes
<1> QED BY <1>3, <1>4

LEMMA NoWriteKeeps ==
  ASSUME TypeOK, RowInv, PaidRows, row' = row, UNCHANGED <<ledger, macro>>
  PROVE  RowInv' /\ PaidRows'
BY DEF RowInv, PaidRows, ConfirmedAt

LEMMA ClaimKeeps ==
  ASSUME TypeOK, RowInv, PaidRows, UNCHANGED <<ledger, macro>>,
         NEW r \in Rows, Claim(r)
  PROVE  RowInv' /\ PaidRows'
BY ClaimFrame, QuietRowKeeps DEF TypeOK, RowInv

LEMMA FailKeeps ==
  ASSUME TypeOK, RowInv, PaidRows, UNCHANGED <<ledger, macro>>,
         NEW r \in Rows, FailSend(r)
  PROVE  RowInv' /\ PaidRows'
BY FailFrame, QuietRowKeeps DEF TypeOK, RowInv, PaidRows

LEMMA BroadcastKeeps ==
  ASSUME TypeOK, RowInv, PaidRows, UNCHANGED <<ledger, macro>>,
         NEW r \in Rows, NEW h, MarkBroadcast(r, h),
         r \in Real => h = row[r].signed /\ h \in Heights
  PROVE  RowInv' /\ PaidRows'
BY BroadcastFrame, QuietRowKeeps, NoWriteKeeps DEF TypeOK

LEMMA PaidKeeps ==
  ASSUME TypeOK, RowInv, PaidRows, UNCHANGED <<ledger, macro>>,
         NEW r \in Rows, NEW h, MarkPaid(r, h),
         r \in Real => ConfirmedAt(<<r, h>>, macro)
  PROVE  RowInv' /\ PaidRows'
<1>1. CASE row' = row
  BY <1>1, NoWriteKeeps
<1>2. CASE /\ row[r].status \in {"broadcast", "paid"}
           /\ row[r].hash = h /\ row'[r].hash = h /\ row'[r].status = "paid"
  BY <1>2, PaidFrame, QuietRowKeeps DEF TypeOK, RowInv
<1> QED BY <1>1, <1>2, PaidFrame DEF TypeOK

\* A confirmation seen by a lagging node stands at the last final block.
LEMMA ConfirmedIsFinal ==
  ASSUME TypeOK, NEW t, NEW view \in Views, ConfirmedAt(t, view)
  PROVE  ConfirmedAt(t, macro)
BY DEF TypeOK, ChainTypes, Views, ConfirmedAt, Receipt, Heights

\* What is proved expired has not paid and cannot pay any more.
LEMMA ExpiryProofIsSound ==
  ASSUME TypeOK, LedgerInv, NEW r \in Rows, NEW h \in Heights,
         NEW view \in Views, ExpiredAt(<<r, h>>, view)
  PROVE  /\ h + Window < macro
         /\ \A c \in ledger : c.tx = <<r, h>> => ~c.ok
<1>1. view \in 0 .. macro /\ macro \in Nat /\ h + Window \in Nat
  BY BoundsAssumption DEF Views, TypeOK, ChainTypes, Heights
<1>2. h + Window < view
  BY <1>1 DEF ExpiredAt
<1>3. ASSUME NEW c \in ledger, c.tx = <<r, h>>
      PROVE  ~c.ok
  <2>1. c.block \in Nat /\ c.block <= h + Window
    BY <1>3 DEF LedgerInv, TypeOK, ChainTypes, Receipt, Heights
  <2> QED BY <2>1, <1>1, <1>2, <1>3 DEF ExpiredAt
<1> QED BY <1>1, <1>2, <1>3

-----------------------------------------------------------------------------
(* Every step keeps the inductive invariant.                               *)

LEMMA ListingKeeps ==
  ASSUME IInv, StartTick \/ ListSendable \/ EndTick
  PROVE  WorkerInv'
<1>0. cur = NoRow /\ NoRow \notin Rows /\ row' = row /\ cur' = cur
      /\ pc' \in {"idle", "next"}
  BY MarkersAssumption DEF IInv, WorkerInv, IdleHands, StartTick, ListSendable,
                           EndTick, Goto, rowVars
<1>1. ASSUME NEW S \in SUBSET Rows, todo' = {SnapshotOf(r) : r \in S},
             pc' # "idle",
             phase' = "confirm" => \A r \in S : row[r].status = "broadcast"
      PROVE  WorkerInv'
  <2>1. ASSUME NEW cb \in todo'
        PROVE  \E r \in S : /\ cb = SnapshotOf(r) /\ cb.id = r
                            /\ cb.signed = row[r].signed
    BY <1>1 DEF SnapshotOf
  <2>2. ASSUME NEW cb \in todo'
        PROVE  /\ cb.id # cur' /\ row'[cb.id].signed = cb.signed
               /\ phase' = "confirm" /\ cb.id \in Real => cb.signed \in Heights
    BY <1>0, <1>1, <2>1 DEF IInv, RowInv, Real
  <2>3. \A cb, db \in todo' : cb.id = db.id => cb = db
    BY <2>1
  <2> QED BY <1>0, <1>1, <2>2, <2>3 DEF WorkerInv, IdleHands, InRebroadcast
<1>2. CASE StartTick
  <2>1. ListBoth("broadcast", BroadcastBatch) \subseteq Rows
        /\ \A r \in ListBoth("broadcast", BroadcastBatch) :
             row[r].status = "broadcast"
    BY RowsAssumption DEF ListBoth, Listed
  <2> QED BY <1>1, <1>2, <2>1 DEF StartTick, Goto
<1>3. CASE ListSendable
  <2>1. ListBoth("queued", QueuedBatch) \cup ListBoth("sending", QueuedBatch)
          \subseteq Rows
    BY RowsAssumption DEF ListBoth, Listed
  <2> QED BY <1>1, <1>3, <2>1 DEF ListSendable
<1>4. CASE EndTick
  BY <1>0, <1>4 DEF EndTick, Goto, WorkerInv, IdleHands, InRebroadcast
<1> QED BY <1>2, <1>3, <1>4

\* Dropping a handled snapshot keeps what is known of the others, as long as
\* the step leaves all bytes alone.
LEMMA TakeKeeps ==
  ASSUME IInv, NEW cb \in todo, todo' = todo \ {cb}, phase' = phase,
         SameBytes, pc' # "idle",
         cur' \in {cur, cb.id},
         pc' = "next" => cur' = NoRow,
         pc' = "testsend" => cur' \in TestRows,
         pc' = "sign" => cur' \in Real /\ row[cur'].signed = NoTx,
         pc' \in InRebroadcast =>
           cur' \in Real /\ tx' \in Heights /\ row[cur'].signed = tx'
  PROVE  WorkerInv'
<1>1. \A db \in todo : db.id \in Rows
  BY DEF IInv, TypeOK, WorkerTypes, Snapshot
<1>2. ASSUME NEW db \in todo'
      PROVE  /\ db.id # cur' /\ row'[db.id].signed = db.signed
             /\ phase' = "confirm" /\ db.id \in Real => db.signed \in Heights
  BY <1>1 DEF IInv, WorkerInv, SameBytes
<1>3. \A db, eb \in todo' : db.id = eb.id => db = eb
  BY DEF IInv, WorkerInv
<1>4. /\ pc' = "sign" => row'[cur'].signed = NoTx
      /\ pc' \in InRebroadcast => row'[cur'].signed = tx'
  BY RowsAssumption DEF SameBytes, Real
<1> QED BY <1>2, <1>3, <1>4 DEF WorkerInv, IdleHands

LEMMA HandleKeeps ==
  ASSUME IInv, NEW cb \in todo,
         \/ SkipReal(cb) \/ ConfirmTest(cb) \/ ConfirmPaid(cb)
         \/ ConfirmRetry(cb) \/ SendTest(cb) \/ SendSigned(cb)
         \/ SendUnsigned(cb)
  PROVE  RowInv' /\ WorkerInv' /\ ChainInv' /\ PaidRows' /\ PaidPending'
<1>0. /\ pc = "next" /\ cur = NoRow /\ todo' = todo \ {cb} /\ phase' = phase
      /\ UNCHANGED <<pushed, ledger, macro>>
  BY DEF SkipReal, ConfirmTest, ConfirmPaid, ConfirmRetry, SendTest,
         SendSigned, SendUnsigned, Take, chainVars, IInv, WorkerInv, IdleHands
<1>1. /\ TypeOK /\ RowInv /\ PaidRows /\ ChainInv /\ RowTypes
      /\ cb.id \in Rows /\ row[cb.id].signed = cb.signed
  BY DEF IInv, TypeOK, WorkerTypes, Snapshot, WorkerInv
<1>2. SUFFICES /\ SameBytes /\ RowInv' /\ PaidRows' /\ pc' # "markpaid"
               /\ WorkerInv'
  BY <1>0, <1>1, SameBytesKeepChain DEF PaidPending
<1>3. ASSUME UNCHANGED <<row, pc, cur>>
      PROVE  /\ SameBytes /\ RowInv' /\ PaidRows' /\ pc' # "markpaid"
             /\ WorkerInv'
  <2>1. SameBytes
    BY <1>3 DEF SameBytes
  <2>2. WorkerInv'
    BY <1>0, <1>3, <2>1, TakeKeeps DEF InRebroadcast
  <2> QED BY <1>0, <1>1, <1>3, <2>1, <2>2, NoWriteKeeps
<1>4. CASE SkipReal(cb)
  BY <1>3, <1>4 DEF SkipReal, rowVars
<1>5. CASE ConfirmTest(cb)
  <2>1. MarkPaid(cb.id, row[cb.id].hash) /\ pc' = pc /\ cur' = cur
        /\ cb.id \notin Real
    BY <1>5 DEF ConfirmTest, Real
  <2>2. SameBytes
    BY <1>1, <2>1, PaidFrame
  <2>3. RowInv' /\ PaidRows'
    BY <1>0, <1>1, <2>1, PaidKeeps
  <2>4. WorkerInv'
    BY <1>0, <2>1, <2>2, TakeKeeps DEF InRebroadcast
  <2> QED BY <1>0, <2>1, <2>2, <2>3, <2>4
<1>6. CASE ConfirmPaid(cb)
  <2>1. MarkPaid(cb.id, cb.signed) /\ pc' = pc /\ cur' = cur
        /\ \E view \in Views : ConfirmedAt(<<cb.id, cb.signed>>, view)
    BY <1>6 DEF ConfirmPaid
  <2>2. SameBytes
    BY <1>1, <2>1, PaidFrame
  <2>3. ConfirmedAt(<<cb.id, cb.signed>>, macro)
    BY <1>1, <2>1, ConfirmedIsFinal
  <2>4. RowInv' /\ PaidRows'
    BY <1>0, <1>1, <2>1, <2>3, PaidKeeps
  <2>5. WorkerInv'
    BY <1>0, <2>1, <2>2, TakeKeeps DEF InRebroadcast
  <2> QED BY <1>0, <2>1, <2>2, <2>4, <2>5
<1>7. CASE ConfirmRetry(cb)
  <2>1. /\ NoWrite \/ FailSend(cb.id)
        /\ pc' = "lookup" /\ cur' = cb.id /\ tx' = cb.signed
        /\ cb.id \notin TestRows /\ phase = "confirm"
    BY <1>7 DEF ConfirmRetry, Goto, Take
  <2>2. SameBytes
    BY <1>1, <2>1, NoWriteFrame, FailFrame
  <2>3. RowInv' /\ PaidRows'
    BY <1>0, <1>1, <2>1, NoWriteFrame, NoWriteKeeps, FailKeeps
  <2>4. cb.id \in Real /\ cb.signed \in Heights
    BY <1>1, <2>1 DEF Real, IInv, WorkerInv
  <2>5. WorkerInv'
    BY <1>0, <1>1, <2>1, <2>2, <2>4, TakeKeeps DEF InRebroadcast
  <2> QED BY <2>1, <2>2, <2>3, <2>5
<1>8. CASE SendTest(cb)
  <2>1. CASE CanClaim(cb.id)
    <3>1. Claim(cb.id) /\ pc' = "testsend" /\ cur' = cb.id /\ cb.id \in TestRows
      BY <1>8, <2>1 DEF SendTest, Goto
    <3>2. SameBytes /\ RowInv' /\ PaidRows'
      BY <1>0, <1>1, <3>1, ClaimFrame, ClaimKeeps
    <3>3. WorkerInv'
      BY <1>0, <3>1, <3>2, TakeKeeps DEF InRebroadcast
    <3> QED BY <3>1, <3>2, <3>3
  <2>2. CASE ~CanClaim(cb.id)
    BY <1>3, <1>8, <2>2 DEF SendTest, rowVars
  <2> QED BY <2>1, <2>2
<1>9. CASE SendSigned(cb)
  <2>1. /\ row' = row /\ pc' = "lookup" /\ cur' = cb.id /\ tx' = cb.signed
        /\ cb.id \in Real /\ cb.signed \in Heights
    BY <1>1, <1>9 DEF SendSigned, Goto, rowVars, Real, TypeOK, WorkerTypes, Snapshot
  <2>2. SameBytes
    BY <2>1 DEF SameBytes
  <2>3. RowInv' /\ PaidRows'
    BY <1>0, <1>1, <2>1, NoWriteKeeps
  <2>4. WorkerInv'
    BY <1>0, <1>1, <2>1, <2>2, TakeKeeps DEF InRebroadcast
  <2> QED BY <2>1, <2>2, <2>3, <2>4
<1>10. CASE SendUnsigned(cb)
  <2>1. CASE CanClaim(cb.id)
    <3>1. /\ Claim(cb.id) /\ pc' = "sign" /\ cur' = cb.id /\ cb.signed = NoTx
          /\ cb.id \in Real
      BY <1>1, <1>10, <2>1 DEF SendUnsigned, Goto, Real
    <3>2. SameBytes /\ RowInv' /\ PaidRows'
      BY <1>0, <1>1, <3>1, ClaimFrame, ClaimKeeps
    <3>3. WorkerInv'
      BY <1>0, <1>1, <3>1, <3>2, TakeKeeps DEF InRebroadcast
    <3> QED BY <3>1, <3>2, <3>3
  <2>2. CASE ~CanClaim(cb.id)
    BY <1>3, <1>10, <2>2 DEF SendUnsigned, rowVars
  <2> QED BY <2>1, <2>2
<1> QED BY <1>4, <1>5, <1>6, <1>7, <1>8, <1>9, <1>10

\* A step that stays on the row in hand or lets go of it, all bytes unchanged.
LEMMA InHandKeeps ==
  ASSUME IInv, pc \notin {"idle", "next"}, UNCHANGED <<todo, phase>>, SameBytes,
         \/ pc' = "next" /\ cur' = NoRow
         \/ /\ pc \in InRebroadcast /\ pc' \in InRebroadcast
            /\ UNCHANGED <<cur, tx>>
  PROVE  WorkerInv'
<1>1. \A cb \in todo : cb.id \in Rows /\ cb.id # NoRow
  BY MarkersAssumption DEF IInv, TypeOK, WorkerTypes, Snapshot
<1>2. \A cb \in todo' : /\ cb.id # cur' /\ row'[cb.id].signed = cb.signed
                        /\ phase' = "confirm" /\ cb.id \in Real =>
                             cb.signed \in Heights
  BY <1>1 DEF IInv, WorkerInv, SameBytes
<1>3. pc' \in InRebroadcast => /\ cur' \in Real /\ tx' \in Heights
                               /\ row'[cur'].signed = tx'
  BY RowsAssumption DEF IInv, WorkerInv, SameBytes, Real, InRebroadcast
<1> QED BY <1>2, <1>3 DEF IInv, WorkerInv, IdleHands, InRebroadcast

LEMMA QuietStepKeeps ==
  ASSUME IInv,
         \/ BroadcastTest \/ SignFails \/ Lookup \/ MarkPaidAfterLookup
         \/ PushAccepted \/ PushRefused
  PROVE  RowInv' /\ WorkerInv' /\ ChainInv' /\ PaidRows' /\ PaidPending'
<1>0. /\ UNCHANGED <<todo, phase, pushed, ledger, macro>>
      /\ pc \notin {"idle", "next"}
      /\ \/ pc' = "next" /\ cur' = NoRow
         \/ /\ pc = "lookup" /\ pc' \in {"markpaid", "prove"}
            /\ UNCHANGED <<cur, tx>>
  BY DEF BroadcastTest, SignFails, Lookup, MarkPaidAfterLookup, PushAccepted,
         PushRefused, Finish, Return, Goto, chainVars
<1>1. TypeOK /\ RowInv /\ PaidRows /\ ChainInv /\ RowTypes /\ WorkerInv /\ PaidPending
  BY DEF IInv, TypeOK
<1>2. SUFFICES SameBytes /\ RowInv' /\ PaidRows' /\ PaidPending'
  <2>1. WorkerInv'
    BY <1>0, <1>2, InHandKeeps DEF InRebroadcast
  <2> QED BY <2>1, <1>0, <1>1, <1>2, SameBytesKeepChain
<1>3. pc \in InRebroadcast =>
        cur \in Rows /\ cur \in Real /\ tx = row[cur].signed /\ tx \in Heights
  BY <1>1 DEF WorkerInv, Real
<1>4. CASE BroadcastTest
  <2>1. MarkBroadcast(cur, TestHash) /\ cur \in Rows /\ cur \notin Real /\ pc' = "next"
    BY <1>1, <1>4, RowsAssumption DEF BroadcastTest, Finish, Goto, WorkerInv, Real
  <2> QED BY <1>0, <1>1, <2>1, BroadcastFrame, BroadcastKeeps DEF PaidPending
<1>5. CASE SignFails
  <2>1. FailSend(cur) /\ cur \in Rows /\ pc' = "next"
    BY <1>1, <1>5 DEF SignFails, Finish, Goto, WorkerInv, Real
  <2> QED BY <1>0, <1>1, <2>1, FailFrame, FailKeeps DEF PaidPending
<1>6. CASE Lookup
  <2>1. pc \in InRebroadcast /\ UNCHANGED <<cur, tx, ledger, macro>>
    BY <1>6 DEF Lookup, InRebroadcast, chainVars
  <2>2. MarkBroadcast(cur, tx) \/ NoWrite \/ FailSend(cur)
    BY <1>6 DEF Lookup
  <2>3. SameBytes /\ RowInv' /\ PaidRows'
    <3>1. CASE MarkBroadcast(cur, tx)
      BY <1>0, <1>1, <1>3, <2>1, <3>1, BroadcastFrame, BroadcastKeeps
    <3>2. CASE NoWrite
      BY <1>0, <1>1, <3>2, NoWriteFrame, NoWriteKeeps
    <3>3. CASE FailSend(cur)
      BY <1>0, <1>1, <1>3, <2>1, <3>3, FailFrame, FailKeeps
    <3> QED BY <2>2, <3>1, <3>2, <3>3
  <2>4. PaidPending'
    <3>1. pc' = "markpaid" =>
            \E view \in Views : ConfirmedAt(<<cur, tx>>, view)
      BY <1>6 DEF Lookup, Goto
    <3>2. pc' = "markpaid" => ConfirmedAt(<<cur, tx>>, macro)
      BY <1>1, <3>1, ConfirmedIsFinal
    <3> QED BY <2>1, <3>2 DEF PaidPending, ConfirmedAt
  <2> QED BY <2>3, <2>4
<1>7. CASE MarkPaidAfterLookup
  <2>1. MarkPaid(cur, tx) /\ pc = "markpaid" /\ pc' = "next"
    BY <1>7 DEF MarkPaidAfterLookup, Finish, Goto
  <2>2. ConfirmedAt(<<cur, tx>>, macro) /\ cur \in Rows
    BY <1>1, <1>3, <2>1 DEF PaidPending, InRebroadcast
  <2> QED BY <1>0, <1>1, <2>1, <2>2, PaidFrame, PaidKeeps DEF PaidPending
<1>8. CASE PushAccepted
  <2>1. MarkBroadcast(cur, tx) /\ pc \in InRebroadcast /\ pc' = "next"
    BY <1>8 DEF PushAccepted, Finish, Goto, InRebroadcast
  <2> QED BY <1>0, <1>1, <1>3, <2>1, BroadcastFrame, BroadcastKeeps DEF PaidPending
<1>9. CASE PushRefused
  <2>1. /\ MarkBroadcast(cur, tx) \/ FailSend(cur)
        /\ pc \in InRebroadcast /\ pc' = "next"
    BY <1>9 DEF PushRefused, Finish, Goto, InRebroadcast
  <2>2. CASE MarkBroadcast(cur, tx)
    BY <1>0, <1>1, <1>3, <2>1, <2>2, BroadcastFrame, BroadcastKeeps DEF PaidPending
  <2>3. CASE FailSend(cur)
    BY <1>0, <1>1, <1>3, <2>1, <2>3, FailFrame, FailKeeps DEF PaidPending
  <2> QED BY <2>1, <2>2, <2>3
<1> QED BY <1>4, <1>5, <1>6, <1>7, <1>8, <1>9

\* Signing gives an unsigned row bytes that were never used before.
LEMMA SignKeeps ==
  ASSUME IInv, NEW h \in Heights, SignAndPersist(h)
  PROVE  RowInv' /\ WorkerInv' /\ ChainInv' /\ PaidRows' /\ PaidPending'
<1> USE RowsAssumption DEF Real
<1>0. /\ UNCHANGED <<todo, phase, pushed, ledger, macro>> /\ pc = "sign"
      /\ cur \in Real /\ row[cur].signed = NoTx
      /\ TypeOK /\ RowInv /\ PaidRows /\ ChainInv /\ RowTypes /\ WorkerInv
  BY DEF IInv, TypeOK, WorkerInv, SignAndPersist, chainVars
<1>1. CASE ~CanAttach(cur, h)
  <2>1. NoWrite /\ pc' = "next" /\ cur' = NoRow
    BY <1>1 DEF SignAndPersist, Finish, Goto, Return
  <2>2. SameBytes /\ row' = row
    BY <1>0, <2>1, NoWriteFrame
  <2>3. WorkerInv'
    BY <1>0, <2>1, <2>2, InHandKeeps
  <2> QED BY <1>0, <2>1, <2>2, <2>3, NoWriteKeeps, SameBytesKeepChain DEF PaidPending
<1>2. CASE CanAttach(cur, h)
  <2>1. /\ AttachSignedTx(cur, h) /\ pc' = "lookup" /\ tx' = h /\ cur' = cur
        /\ h \notin row[cur].expired /\ row[cur].status \in {"sending", "queued"}
    BY <1>2 DEF SignAndPersist, Goto, CanAttach
  <2>2. /\ SameElsewhere(cur) /\ row'[cur].signed = h /\ row'[cur].hash = h
        /\ row'[cur].expired = row[cur].expired
        /\ row'[cur].status = row[cur].status
    BY <1>0, <2>1, AttachFrame
  <2>3. \A s \in Rows : s # cur => row'[s] = row[s]
    BY <2>2 DEF SameElsewhere
  <2>4. RowInv'
    BY <1>0, <2>2, <2>3 DEF RowInv
  <2>5. WorkerInv'
    <3>1. \A cb \in todo' : cb.id \in Rows /\ cb.id # cur
      BY <1>0 DEF TypeOK, WorkerTypes, Snapshot, WorkerInv
    <3> QED BY <1>0, <2>1, <2>2, <2>3, <3>1 DEF WorkerInv, IdleHands, InRebroadcast
  <2>6. WireIsOnRecord'
    <3>1. ASSUME NEW t \in pushed
          PROVE  t[2] = row'[t[1]].signed \/ t[2] \in row'[t[1]].expired
      <4>1. t[1] \in Rows /\ t[2] \in Heights
        BY <1>0 DEF TypeOK, ChainTypes, Tx
      <4>2. t[2] = row[t[1]].signed \/ t[2] \in row[t[1]].expired
        BY <1>0 DEF ChainInv, WireIsOnRecord
      <4>3. t[2] # NoTx
        BY <4>1, MarkersAssumption DEF Heights
      <4> QED BY <1>0, <2>2, <2>3, <4>1, <4>2, <4>3
    <3> QED BY <1>0, <3>1 DEF WireIsOnRecord
  <2>7. \A s \in Rows : row'[s].expired = row[s].expired
    BY <2>2, <2>3
  <2>8. ExpiredIsSealed' /\ LedgerInv' /\ TestStaysOffChain'
    BY <1>0, <2>7 DEF ChainInv, ExpiredIsSealed, LedgerInv, TestStaysOffChain
  <2>9. RetiredIsDead'
    BY <1>0, <2>7 DEF ChainInv, RetiredIsDead, TypeOK, ChainTypes, Receipt, Tx
  <2>10. PaidRows'
    BY <1>0, <2>1, <2>2, <2>3 DEF PaidRows, ConfirmedAt
  <2> QED BY <2>1, <2>4, <2>5, <2>6, <2>8, <2>9, <2>10 DEF ChainInv, PaidPending
<1> QED BY <1>1, <1>2

\* Retiring is the one step that gives bytes up, and it does so on a proof.
LEMMA ProveKeeps ==
  ASSUME IInv, Prove
  PROVE  RowInv' /\ WorkerInv' /\ ChainInv' /\ PaidRows' /\ PaidPending'
<1> USE RowsAssumption DEF Real
<1>0. /\ UNCHANGED <<todo, phase, pushed, ledger, macro>> /\ pc = "prove"
      /\ cur \in Real /\ tx \in Heights /\ row[cur].signed = tx
      /\ TypeOK /\ RowInv /\ PaidRows /\ ChainInv /\ RowTypes /\ WorkerInv
  BY DEF IInv, TypeOK, WorkerInv, Prove, chainVars, InRebroadcast
<1>1. \/ pc' = "next" /\ cur' = NoRow
      \/ pc' = "push" /\ UNCHANGED <<cur, tx>>
  BY DEF Prove, Finish, Goto, Return
<1>2. CASE NoWrite \/ FailSend(cur)
  <2>1. SameBytes /\ RowInv' /\ PaidRows'
    BY <1>0, <1>2, NoWriteFrame, NoWriteKeeps, FailFrame, FailKeeps
  <2>2. WorkerInv'
    BY <1>0, <1>1, <2>1, InHandKeeps DEF InRebroadcast
  <2> QED BY <1>0, <1>1, <2>1, <2>2, SameBytesKeepChain DEF PaidPending
<1>3. CASE /\ \E view \in Views : ExpiredAt(<<cur, tx>>, view)
           /\ CanRetire(cur, tx) /\ Retire(cur, tx) /\ pc' = "next" /\ cur' = NoRow
  <2>1. /\ SameElsewhere(cur) /\ row'[cur].signed = NoTx /\ row'[cur].hash = NoTx
        /\ row'[cur].expired = row[cur].expired \cup {tx}
        /\ row'[cur].status = "queued"
    BY <1>0, <1>3, RetireFrame
  <2>2. \A s \in Rows : s # cur => row'[s] = row[s]
    BY <2>1 DEF SameElsewhere
  <2>3. /\ tx + Window < macro
        /\ \A c \in ledger : c.tx = <<cur, tx>> => ~c.ok
    BY <1>0, <1>3, ExpiryProofIsSound DEF ChainInv
  <2>4. RowInv'
    BY <1>0, <2>1, <2>2 DEF RowInv
  <2>5. WorkerInv'
    <3>1. \A cb \in todo' : cb.id \in Rows /\ cb.id # cur /\ cb.id # NoRow
      BY <1>0, MarkersAssumption DEF TypeOK, WorkerTypes, Snapshot, WorkerInv
    <3> QED BY <1>0, <1>3, <2>2, <3>1 DEF WorkerInv, IdleHands, InRebroadcast
  <2>6. WireIsOnRecord'
    <3>1. \A t \in pushed : t[1] \in Rows
      BY <1>0 DEF TypeOK, ChainTypes, Tx
    <3> QED BY <1>0, <2>1, <2>2, <3>1 DEF ChainInv, WireIsOnRecord
  <2>7. ExpiredIsSealed'
    BY <1>0, <2>1, <2>2, <2>3 DEF ChainInv, ExpiredIsSealed
  <2>8. RetiredIsDead'
    <3>1. \A c \in ledger : /\ c.tx = <<c.tx[1], c.tx[2]>>
                            /\ c.tx[1] \in Rows
      BY <1>0 DEF TypeOK, ChainTypes, Receipt, Tx
    <3>2. ASSUME NEW c \in ledger, c.ok
          PROVE  c.tx[2] \notin row'[c.tx[1]].expired
      <4>1. CASE c.tx[1] = cur
        <5>1. c.tx[2] # tx
          BY <2>3, <3>1, <3>2, <4>1
        <5> QED BY <1>0, <2>1, <3>2, <4>1, <5>1 DEF ChainInv, RetiredIsDead
      <4>2. CASE c.tx[1] # cur
        BY <1>0, <2>2, <3>1, <3>2, <4>2 DEF ChainInv, RetiredIsDead
      <4> QED BY <4>1, <4>2
    <3> QED BY <1>0, <3>2 DEF RetiredIsDead
  <2>9. LedgerInv' /\ TestStaysOffChain'
    BY <1>0 DEF ChainInv, LedgerInv, TestStaysOffChain
  <2>10. PaidRows'
    BY <1>0, <2>1, <2>2 DEF PaidRows, ConfirmedAt
  <2> QED BY <1>3, <2>4, <2>5, <2>6, <2>7, <2>8, <2>9, <2>10
          DEF ChainInv, PaidPending
<1> QED BY <1>2, <1>3 DEF Prove, Finish, Goto, Return

\* Only bytes on record reach the wire.
LEMMA PushKeeps ==
  ASSUME IInv, Push
  PROVE  RowInv' /\ WorkerInv' /\ ChainInv' /\ PaidRows' /\ PaidPending'
<1>0. /\ UNCHANGED <<row, todo, phase, cur, tx, ledger, macro>> /\ pc = "push"
      /\ cur \in Real /\ tx \in Heights /\ row[cur].signed = tx
      /\ TypeOK /\ RowInv /\ PaidRows /\ ChainInv /\ WorkerInv
      /\ pushed' \in {pushed, pushed \cup {<<cur, tx>>}}
      /\ pc' \in {"accepted", "refused"}
  BY DEF IInv, TypeOK, WorkerInv, Push, rowVars, InRebroadcast, Goto
<1>1. WorkerInv'
  BY <1>0, InHandKeeps DEF SameBytes, InRebroadcast
<1>2. RowInv' /\ PaidRows'
  BY <1>0, NoWriteKeeps
<1>3. WireIsOnRecord' /\ TestStaysOffChain'
  BY <1>0, RowsAssumption DEF ChainInv, WireIsOnRecord, TestStaysOffChain, Real
<1>4. LedgerInv' /\ ExpiredIsSealed' /\ RetiredIsDead'
  BY <1>0 DEF ChainInv, LedgerInv, ExpiredIsSealed, RetiredIsDead
<1> QED BY <1>0, <1>1, <1>2, <1>3, <1>4 DEF ChainInv, PaidPending

\* Final successful receipts that stay final keep the paid rows paid.
LEMMA WitnessStays ==
  ASSUME PaidRows, PaidPending, UNCHANGED <<row, pc, cur, tx>>,
         \A c \in ledger : c.block <= macro => c \in ledger' /\ c.block <= macro'
  PROVE  PaidRows' /\ PaidPending'
<1>1. ASSUME NEW t, ConfirmedAt(t, macro)
      PROVE  \E c \in ledger' : c.tx = t /\ c.ok /\ c.block <= macro'
  BY <1>1 DEF ConfirmedAt
<1>2. PaidRows'
  BY <1>1 DEF PaidRows, ConfirmedAt
<1>3. PaidPending'
  <2>1. CASE pc = "markpaid"
    <3>1. ConfirmedAt(<<cur, tx>>, macro)
      BY <2>1 DEF PaidPending
    <3>2. <<cur', tx'>> = <<cur, tx>>
      OBVIOUS
    <3> QED BY <1>1, <3>1, <3>2 DEF PaidPending, ConfirmedAt
  <2>2. CASE pc # "markpaid"
    BY <2>2 DEF PaidPending
  <2> QED BY <2>1, <2>2
<1> QED BY <1>2, <1>3

\* Blocks are only added inside a transaction's window, and final blocks stay.
LEMMA EnvironmentKeeps ==
  ASSUME IInv,
         \/ Crash \/ Settle \/ ChainStep \/ (\E r \in Rows : ClaimAges(r))
         \/ UNCHANGED vars
  PROVE  RowInv' /\ WorkerInv' /\ ChainInv' /\ PaidRows' /\ PaidPending'
<1>0. /\ TypeOK /\ RowInv /\ PaidRows /\ ChainInv /\ WorkerInv /\ PaidPending
      /\ row' = row
  BY DEF IInv, Crash, Settle, ChainStep, ClaimAges, vars, NewBlock, Include,
         Finalize, Reorg, rowVars
<1>1. RowInv'
  BY <1>0 DEF RowInv
<1>2. WorkerInv'
  <2>1. CASE Crash
    BY <1>0, <2>1 DEF Crash, Return, WorkerInv, IdleHands, InRebroadcast
  <2>2. CASE UNCHANGED workerVars
    BY <1>0, <2>2 DEF workerVars, WorkerInv, IdleHands
  <2> QED BY <2>1, <2>2 DEF Settle, ChainStep, ClaimAges, vars, NewBlock, Include,
                            Finalize, Reorg
<1>3. ASSUME UNCHANGED <<pushed, ledger, macro>>
      PROVE  ChainInv'
  BY <1>0, <1>3, SameBytesKeepChain DEF SameBytes
<1>4. CASE Crash \/ Settle \/ NewBlock \/ (\E r \in Rows : ClaimAges(r))
           \/ UNCHANGED vars
  <2>1. CASE Crash
    <3>1. UNCHANGED <<pushed, ledger, macro>> /\ pc' = "idle"
      BY <2>1 DEF Crash, chainVars
    <3>2. ChainInv'
      BY <1>3, <3>1
    <3>3. PaidRows'
      BY <1>0, <3>1, NoWriteKeeps
    <3>4. PaidPending'
      BY <3>1 DEF PaidPending
    <3> QED BY <1>1, <1>2, <3>2, <3>3, <3>4
  <2>2. CASE Settle \/ NewBlock \/ (\E r \in Rows : ClaimAges(r))
             \/ UNCHANGED vars
    <3>1. UNCHANGED <<pushed, ledger, macro, pc, cur, tx>>
      BY <2>2 DEF Settle, NewBlock, ClaimAges, vars, workerVars, chainVars
    <3>2. ChainInv'
      BY <1>3, <3>1
    <3>3. PaidRows' /\ PaidPending'
      BY <1>0, <3>1 DEF PaidRows, PaidPending, ConfirmedAt
    <3> QED BY <1>1, <1>2, <3>2, <3>3
  <2> QED BY <1>4, <2>1, <2>2
<1>5. CASE Finalize
  <2>1. /\ UNCHANGED <<pushed, ledger, pc, cur, tx>>
        /\ macro \in Nat /\ macro' \in Nat /\ macro < macro'
    BY <1>0, <1>5 DEF Finalize, workerVars, TypeOK, ChainTypes, Heights
  <2>2. \A c \in ledger : c.block <= macro => c.block <= macro'
    BY <1>0, <2>1 DEF TypeOK, ChainTypes, Receipt, Heights
  <2>3. ExpiredIsSealed'
    BY <1>0, <2>1, BoundsAssumption
       DEF ChainInv, ExpiredIsSealed, TypeOK, RowTypes, Row, Heights
  <2>4. WireIsOnRecord' /\ LedgerInv' /\ RetiredIsDead' /\ TestStaysOffChain'
    BY <1>0, <2>1 DEF ChainInv, WireIsOnRecord, LedgerInv, RetiredIsDead,
                      TestStaysOffChain
  <2>5. PaidRows' /\ PaidPending'
    BY <1>0, <2>1, <2>2, WitnessStays
  <2> QED BY <1>1, <1>2, <2>3, <2>4, <2>5 DEF ChainInv
<1>6. CASE Reorg
  <2>1. /\ UNCHANGED <<pushed, macro, pc, cur, tx>>
        /\ ledger' = {c \in ledger : c.block <= macro}
    BY <1>6 DEF Reorg, workerVars
  <2>2. ChainInv'
    BY <1>0, <2>1 DEF ChainInv, WireIsOnRecord, LedgerInv, ExpiredIsSealed,
                      RetiredIsDead, TestStaysOffChain
  <2>3. PaidRows' /\ PaidPending'
    BY <1>0, <2>1, WitnessStays
  <2> QED BY <1>1, <1>2, <2>2, <2>3
<1>7. ASSUME NEW t \in pushed, NEW ok \in BOOLEAN, Include(t, ok)
      PROVE  ChainInv' /\ PaidRows' /\ PaidPending'
  <2> DEFINE new == [tx |-> t, block |-> height, ok |-> ok]
  <2>1. /\ UNCHANGED <<pushed, macro, pc, cur, tx>>
        /\ ledger' = ledger \cup {new}
        /\ height <= t[2] + Window /\ \A c \in ledger : c.tx # t
    BY <1>7 DEF Include, workerVars
  <2>2. t[1] \in Rows /\ t[2] \in Nat /\ macro \in Nat /\ height \in Nat
        /\ macro <= height
    BY <1>0 DEF TypeOK, ChainTypes, Tx, Heights
  <2>3. t[2] \notin row[t[1]].expired
    BY <1>0, <2>1, <2>2, BoundsAssumption DEF ChainInv, ExpiredIsSealed
  <2>4. RetiredIsDead'
    BY <1>0, <2>1, <2>3 DEF ChainInv, RetiredIsDead
  <2>5. LedgerInv'
    BY <1>0, <2>1 DEF ChainInv, LedgerInv
  <2>6. WireIsOnRecord' /\ ExpiredIsSealed' /\ TestStaysOffChain'
    BY <1>0, <2>1 DEF ChainInv, WireIsOnRecord, ExpiredIsSealed, TestStaysOffChain
  <2>7. PaidRows' /\ PaidPending'
    BY <1>0, <2>1, WitnessStays
  <2> QED BY <2>4, <2>5, <2>6, <2>7 DEF ChainInv
<1> QED BY <1>1, <1>2, <1>4, <1>5, <1>6, <1>7 DEF ChainStep

-----------------------------------------------------------------------------
(* Theorems.                                                               *)

LEMMA InvariantInit == Init => IInv
<1> SUFFICES ASSUME Init PROVE IInv
  OBVIOUS
<1>1. TypeOK
  BY TypeInit
<1>2. RowInv /\ PaidRows
  BY RowsAssumption DEF Init, RowInv, PaidRows, Real
<1>3. WorkerInv /\ PaidPending
  BY DEF Init, WorkerInv, PaidPending, InRebroadcast, IdleHands
<1>4. ChainInv
  BY DEF Init, ChainInv, WireIsOnRecord, LedgerInv, ExpiredIsSealed,
         RetiredIsDead, TestStaysOffChain
<1> QED BY <1>1, <1>2, <1>3, <1>4 DEF IInv

LEMMA InvariantStep == IInv /\ [Next]_vars => IInv'
<1> SUFFICES ASSUME IInv, [Next]_vars PROVE IInv'
  OBVIOUS
<1>1. TypeOK'
  BY TypeStep
<1>2. RowInv' /\ WorkerInv' /\ ChainInv' /\ PaidRows' /\ PaidPending'
  <2>1. CASE StartTick \/ ListSendable \/ EndTick
    <3>1. UNCHANGED <<row, pushed, ledger, macro>> /\ pc' # "markpaid"
      BY <2>1 DEF StartTick, ListSendable, EndTick, Goto, rowVars, chainVars
    <3>2. TypeOK /\ RowInv /\ PaidRows /\ ChainInv
      BY DEF IInv
    <3>3. ChainInv'
      BY <3>1, <3>2, SameBytesKeepChain DEF SameBytes
    <3> QED BY <2>1, <3>1, <3>2, <3>3, ListingKeeps, NoWriteKeeps DEF PaidPending
  <2>2. ASSUME NEW cb \in todo,
               \/ SkipReal(cb) \/ ConfirmTest(cb) \/ ConfirmPaid(cb)
               \/ ConfirmRetry(cb) \/ SendTest(cb) \/ SendSigned(cb)
               \/ SendUnsigned(cb)
        PROVE  RowInv' /\ WorkerInv' /\ ChainInv' /\ PaidRows' /\ PaidPending'
    BY <2>2, HandleKeeps
  <2>3. CASE \/ BroadcastTest \/ SignFails \/ Lookup \/ MarkPaidAfterLookup
             \/ PushAccepted \/ PushRefused
    BY <2>3, QuietStepKeeps
  <2>4. CASE \E h \in Heights : SignAndPersist(h)
    BY <2>4, SignKeeps
  <2>5. CASE Prove
    BY <2>5, ProveKeeps
  <2>6. CASE Push
    BY <2>6, PushKeeps
  <2>7. CASE \/ Crash \/ Settle \/ ChainStep \/ (\E r \in Rows : ClaimAges(r))
             \/ UNCHANGED vars
    BY <2>7, EnvironmentKeeps
  <2> QED BY <2>1, <2>2, <2>3, <2>4, <2>5, <2>6, <2>7 DEF Next, WorkerStep
<1> QED BY <1>1, <1>2 DEF IInv

THEOREM PayoutInvariant == Spec => []IInv
BY InvariantInit, InvariantStep, PTL DEF Spec

\* The rows, the worker's stack and the chain stay well typed.
THEOREM PayoutTypeOK == Spec => []TypeOK
<1>1. IInv => TypeOK
  BY DEF IInv
<1> QED BY <1>1, PayoutInvariant, PTL

\* Two successful receipts of one row carry the same bytes: both are on record,
\* neither is retired, so both are the row's current attempt.
LEMMA OneCredit == IInv => AtMostOneCredit
<1> SUFFICES ASSUME IInv, NEW c \in ledger, NEW d \in ledger,
                    c.ok, d.ok, c.tx[1] = d.tx[1]
             PROVE  c = d
  BY DEF AtMostOneCredit
<1>1. c.tx = <<c.tx[1], c.tx[2]>> /\ d.tx = <<d.tx[1], d.tx[2]>>
  BY DEF IInv, TypeOK, ChainTypes, Receipt, Tx
<1>2. c.tx[2] = row[c.tx[1]].signed /\ d.tx[2] = row[d.tx[1]].signed
  BY DEF IInv, ChainInv, LedgerInv, WireIsOnRecord, RetiredIsDead
<1>3. c.tx = d.tx
  BY <1>1, <1>2
<1> QED BY <1>3 DEF IInv, ChainInv, LedgerInv

\* No payout row is ever credited twice on the chain, whatever the
\* interleaving of crashes, lost replies, reorganisations and retries.
THEOREM PayoutAtMostOneCredit == Spec => []AtMostOneCredit
BY OneCredit, PayoutInvariant, PTL

\* Bytes that reached the network stay on record in their row.
THEOREM PayoutWireIsOnRecord == Spec => []WireIsOnRecord
<1>1. IInv => WireIsOnRecord
  BY DEF IInv, ChainInv
<1> QED BY <1>1, PayoutInvariant, PTL

\* An attempt that was replaced has not paid and never will.
THEOREM PayoutRetiredIsDead == Spec => []RetiredIsDead
<1>1. IInv => RetiredIsDead
  BY DEF IInv, ChainInv
<1> QED BY <1>1, PayoutInvariant, PTL

\* A simulated payout never reaches the network.
THEOREM PayoutTestStaysOffChain == Spec => []TestStaysOffChain
<1>1. IInv => TestStaysOffChain
  BY DEF IInv, ChainInv
<1> QED BY <1>1, PayoutInvariant, PTL

\* A real row shows "paid" only over a final, successful receipt of its hash.
THEOREM PayoutPaidIsFinal == Spec => []PaidIsFinal
<1>1. IInv => PaidIsFinal
  BY DEF IInv, PaidRows, RowInv, PaidIsFinal, ConfirmedAt, Real
<1> QED BY <1>1, PayoutInvariant, PTL

-----------------------------------------------------------------------------
(* What no single write may do, and that a step writes one row at most.    *)

RowRule ==
  \A r \in Rows :
    /\ row[r].expired \subseteq row'[r].expired
    /\ row[r].signed # NoTx /\ row'[r].signed # row[r].signed =>
         row'[r].signed = NoTx /\ row[r].signed \in row'[r].expired
    /\ row[r].status = "paid" => row'[r] = row[r]

Lawful == /\ RowRule
          /\ row' = row \/ \E r \in Rows : SameElsewhere(r)

LEMMA NoWriteLawful == ASSUME row' = row PROVE Lawful
BY DEF Lawful, RowRule

\* A write to one row answers for that row only.
LEMMA OneRowLawful ==
  ASSUME NEW r \in Rows, SameElsewhere(r),
         row[r].expired \subseteq row'[r].expired,
         row[r].signed # NoTx /\ row'[r].signed # row[r].signed =>
           row'[r].signed = NoTx /\ row[r].signed \in row'[r].expired,
         row[r].status = "paid" => row'[r] = row[r]
  PROVE  Lawful
BY DEF Lawful, RowRule, SameElsewhere

LEMMA ClaimLawful ==
  ASSUME RowTypes, NEW r \in Rows, CanClaim(r), Claim(r)
  PROVE  Lawful
<1>1. row[r].status # "paid"
  BY DEF CanClaim
<1>2. SameBytes /\ SameElsewhere(r)
  BY ClaimFrame
<1> QED BY <1>1, <1>2, OneRowLawful DEF SameBytes

LEMMA FailLawful ==
  ASSUME RowTypes, NEW r \in Rows, FailSend(r)
  PROVE  Lawful
<1>1. SameBytes /\ SameElsewhere(r)
  BY FailFrame
<1>2. row[r].status = "paid" => row'[r] = row[r]
  BY DEF FailSend, Patch, RowTypes
<1> QED BY <1>1, <1>2, OneRowLawful DEF SameBytes

LEMMA BroadcastLawful ==
  ASSUME RowTypes, NEW r \in Rows, NEW h, MarkBroadcast(r, h)
  PROVE  Lawful
<1>1. SameBytes /\ SameElsewhere(r)
  BY BroadcastFrame
<1>2. row[r].status = "paid" => row'[r] = row[r]
  BY BroadcastFrame
<1> QED BY <1>1, <1>2, OneRowLawful DEF SameBytes

LEMMA PaidLawful ==
  ASSUME RowTypes, NEW r \in Rows, NEW h, MarkPaid(r, h)
  PROVE  Lawful
<1>1. SameBytes /\ SameElsewhere(r)
  BY PaidFrame
<1>2. row[r].status = "paid" => row'[r] = row[r]
  <2>1. CASE NoWrite
    BY <2>1, NoWriteFrame
  <2>2. CASE row' = [row EXCEPT ![r] = [row[r] EXCEPT !.status = "paid"]]
    BY <2>2, ReadType DEF RowTypes, Row
  <2> QED BY <2>1, <2>2 DEF MarkPaid, Patch
<1> QED BY <1>1, <1>2, OneRowLawful DEF SameBytes

LEMMA AttachLawful ==
  ASSUME RowTypes, NEW r \in Rows, NEW h, CanAttach(r, h), AttachSignedTx(r, h)
  PROVE  Lawful
BY AttachFrame, OneRowLawful DEF CanAttach

LEMMA RetireLawful ==
  ASSUME RowTypes, NEW r \in Rows, NEW h, CanRetire(r, h), Retire(r, h)
  PROVE  Lawful
BY RetireFrame, OneRowLawful DEF CanRetire

LEMMA HandleLawful ==
  ASSUME IInv, NEW cb \in todo,
         \/ SkipReal(cb) \/ ConfirmTest(cb) \/ ConfirmPaid(cb)
         \/ ConfirmRetry(cb) \/ SendTest(cb) \/ SendSigned(cb)
         \/ SendUnsigned(cb)
  PROVE  Lawful
<1>1. RowTypes /\ cb.id \in Rows
  BY DEF IInv, TypeOK, WorkerTypes, Snapshot
<1>2. CASE SkipReal(cb) \/ SendSigned(cb)
  BY <1>2, NoWriteLawful DEF SkipReal, SendSigned, rowVars
<1>3. CASE ConfirmTest(cb) \/ ConfirmPaid(cb)
  BY <1>1, <1>3, PaidLawful DEF ConfirmTest, ConfirmPaid
<1>4. CASE ConfirmRetry(cb)
  BY <1>1, <1>4, NoWriteLawful, NoWriteFrame, FailLawful DEF ConfirmRetry
<1>5. CASE SendTest(cb) \/ SendUnsigned(cb)
  <2>1. CASE CanClaim(cb.id)
    BY <1>1, <1>5, <2>1, ClaimLawful DEF SendTest, SendUnsigned
  <2>2. CASE ~CanClaim(cb.id)
    BY <1>5, <2>2, NoWriteLawful DEF SendTest, SendUnsigned, rowVars
  <2> QED BY <2>1, <2>2
<1> QED BY <1>2, <1>3, <1>4, <1>5

LEMMA InHandLawful ==
  ASSUME IInv,
         \/ BroadcastTest \/ (\E h \in Heights : SignAndPersist(h)) \/ SignFails
         \/ Lookup \/ MarkPaidAfterLookup \/ Prove \/ PushAccepted \/ PushRefused
  PROVE  Lawful
<1>1. /\ RowTypes
      /\ pc \in InRebroadcast \cup {"testsend", "sign"} => cur \in Rows
  BY WorkerHolds DEF IInv, TypeOK, Held, InRebroadcast
<1>2. NoWrite => Lawful
  BY <1>1, NoWriteFrame, NoWriteLawful
<1>3. CASE BroadcastTest
  BY <1>1, <1>3, BroadcastLawful DEF BroadcastTest
<1>4. ASSUME NEW h \in Heights, SignAndPersist(h) PROVE Lawful
  BY <1>1, <1>2, <1>4, AttachLawful DEF SignAndPersist
<1>5. CASE SignFails
  BY <1>1, <1>5, FailLawful DEF SignFails
<1>6. CASE Lookup
  BY <1>1, <1>2, <1>6, BroadcastLawful, FailLawful DEF Lookup, InRebroadcast
<1>7. CASE MarkPaidAfterLookup
  BY <1>1, <1>7, PaidLawful DEF MarkPaidAfterLookup, InRebroadcast
<1>8. CASE Prove
  BY <1>1, <1>2, <1>8, RetireLawful, FailLawful DEF Prove, InRebroadcast
<1>9. CASE PushAccepted \/ PushRefused
  BY <1>1, <1>9, BroadcastLawful, FailLawful DEF PushAccepted, PushRefused, InRebroadcast
<1> QED BY <1>3, <1>4, <1>5, <1>6, <1>7, <1>8, <1>9

\* The rows are written by the worker only, one at a time and lawfully; the
\* chain moves in steps of its own.
LEMMA StepIsLawful ==
  ASSUME IInv, [Next]_vars
  PROVE  /\ Lawful
         /\ row' = row \/ UNCHANGED <<ledger, macro>>
<1>1. ASSUME NEW cb \in todo,
             \/ SkipReal(cb) \/ ConfirmTest(cb) \/ ConfirmPaid(cb)
             \/ ConfirmRetry(cb) \/ SendTest(cb) \/ SendSigned(cb)
             \/ SendUnsigned(cb)
      PROVE  Lawful /\ UNCHANGED <<ledger, macro>>
  <2>1. UNCHANGED <<ledger, macro>>
    BY <1>1 DEF SkipReal, ConfirmTest, ConfirmPaid, ConfirmRetry, SendTest,
                SendSigned, SendUnsigned, Take, chainVars
  <2> QED BY <1>1, <2>1, HandleLawful
<1>2. CASE \/ BroadcastTest \/ (\E h \in Heights : SignAndPersist(h)) \/ SignFails
           \/ Lookup \/ MarkPaidAfterLookup \/ Prove \/ PushAccepted \/ PushRefused
  <2>1. UNCHANGED <<ledger, macro>>
    BY <1>2 DEF BroadcastTest, SignAndPersist, SignFails, Lookup,
                MarkPaidAfterLookup, Prove, PushAccepted, PushRefused, chainVars
  <2> QED BY <1>2, <2>1, InHandLawful
<1>3. CASE \/ StartTick \/ ListSendable \/ EndTick \/ Push \/ Crash \/ Settle
           \/ ChainStep \/ (\E r \in Rows : ClaimAges(r)) \/ UNCHANGED vars
  <2>1. row' = row
    BY <1>3 DEF StartTick, ListSendable, EndTick, Push, Crash, Settle, ChainStep,
                ClaimAges, vars, NewBlock, Include, Finalize, Reorg, rowVars
  <2> QED BY <2>1, NoWriteLawful
<1> QED BY <1>1, <1>2, <1>3 DEF Next, WorkerStep

\* A signature is given up only into the audit trail, and a paid row is final,
\* whatever the worker was doing when it was interrupted.
THEOREM PayoutSignatureOnlyRetired == Spec => SignatureOnlyRetired
<1>1. IInv /\ [Next]_vars => [RowRule]_vars
  BY StepIsLawful DEF Lawful
<1> QED BY <1>1, PayoutInvariant, PTL DEF Spec, SignatureOnlyRetired, RowRule

-----------------------------------------------------------------------------
(* The worker implements PayoutObligation.                                 *)

FinalIn(receipts, block, r) ==
  {c \in {d \in receipts : d.tx[1] = r /\ d.ok} : c.block <= block}

\* At most one final credit per row, so the count is a yes or a no.
LEMMA CreditIsFlag ==
  ASSUME NEW receipts, NEW block, NEW r,
         \A c, d \in receipts : c.ok /\ d.ok /\ c.tx[1] = d.tx[1] => c = d
  PROVE  Cardinality(FinalIn(receipts, block, r)) =
           IF FinalIn(receipts, block, r) = {} THEN 0 ELSE 1
<1>1. CASE FinalIn(receipts, block, r) = {}
  BY <1>1, FS_EmptySet
<1>2. CASE FinalIn(receipts, block, r) # {}
  <2>1. PICK c \in FinalIn(receipts, block, r) : TRUE
    BY <1>2
  <2>2. FinalIn(receipts, block, r) = {c}
    BY <2>1 DEF FinalIn
  <2> QED BY <1>2, <2>2, FS_Singleton
<1> QED BY <1>1, <1>2

\* The mapped state: PayoutObligation's variables as the worker implements them.
MapCredits == [r \in Rows \ TestRows |->
                 Cardinality({c \in Credited(r) : c.block <= macro})]
MapBooked == {r \in Rows \ TestRows : row[r].status = "paid"}

\* The same, without counting.
Credits == [r \in Real |-> IF FinalIn(ledger, macro, r) = {} THEN 0 ELSE 1]
Booked == {r \in Real : row[r].status = "paid"}

LEMMA CreditsInState ==
  ASSUME IInv
  PROVE  MapCredits = Credits
<1>1. \A r : {c \in Credited(r) : c.block <= macro} = FinalIn(ledger, macro, r)
  BY DEF Credited, FinalIn
<1>2. \A r : Cardinality(FinalIn(ledger, macro, r)) =
               IF FinalIn(ledger, macro, r) = {} THEN 0 ELSE 1
  BY OneCredit, CreditIsFlag DEF AtMostOneCredit
<1> QED BY <1>1, <1>2 DEF MapCredits, Credits, Real

\* Finality only grows: a reorganisation takes back no final receipt.
LEMMA FinalityGrows ==
  ASSUME IInv, [Next]_vars, NEW r
  PROVE  FinalIn(ledger, macro, r) \subseteq FinalIn(ledger', macro', r)
<1>1. CASE UNCHANGED <<ledger, macro>>
  BY <1>1
<1>2. CASE Finalize
  <2>1. ledger' = ledger /\ macro \in Nat /\ macro' \in Nat /\ macro <= macro'
    BY <1>2 DEF Finalize, IInv, TypeOK, ChainTypes, Heights
  <2>2. \A c \in ledger : c.block \in Nat
    BY DEF IInv, TypeOK, ChainTypes, Receipt, Heights
  <2> QED BY <2>1, <2>2 DEF FinalIn
<1>3. CASE Reorg
  BY <1>3 DEF Reorg, FinalIn
<1>4. CASE \E t \in pushed, ok \in BOOLEAN : Include(t, ok)
  BY <1>4 DEF Include, FinalIn
<1>5. CASE WorkerStep
  BY <1>5, <1>1 DEF WorkerStep, StartTick, ListSendable, EndTick, SkipReal,
     ConfirmTest, ConfirmPaid, ConfirmRetry, SendTest, SendSigned, SendUnsigned,
     Take, BroadcastTest, SignAndPersist, SignFails, Lookup, MarkPaidAfterLookup,
     Prove, Push, PushAccepted, PushRefused, chainVars
<1>6. CASE Crash \/ Settle \/ NewBlock \/ (\E s \in Rows : ClaimAges(s))
           \/ UNCHANGED vars
  BY <1>6, <1>1 DEF Crash, Settle, NewBlock, ClaimAges, vars, chainVars
<1> QED BY <1>2, <1>3, <1>4, <1>5, <1>6 DEF Next, ChainStep

\* A step that moves no row credits the rows whose receipt becomes final.
LEMMA CreditStep ==
  ASSUME IInv, [Next]_vars, row' = row
  PROVE  \/ UNCHANGED <<Credits, Booked>>
         \/ \E S \in SUBSET Real :
              /\ S # {} /\ \A r \in S : Credits[r] = 0
              /\ Credits' = [r \in Real |-> IF r \in S THEN 1 ELSE Credits[r]]
              /\ UNCHANGED Booked
<1> DEFINE S == {r \in Real : Credits[r] = 0 /\ Credits'[r] = 1}
<1>1. Booked' = Booked
  BY DEF Booked
<1>2. \A r \in Real : Credits'[r] = IF r \in S THEN 1 ELSE Credits[r]
  BY FinalityGrows DEF Credits
<1>3. Credits' = [r \in Real |-> IF r \in S THEN 1 ELSE Credits[r]]
  BY <1>2 DEF Credits
<1>4. CASE S = {}
  <2>1. Credits' = [r \in Real |-> Credits[r]]
    BY <1>3, <1>4
  <2> QED BY <1>1, <2>1 DEF Credits
<1>5. CASE S # {}
  BY <1>1, <1>3, <1>5
<1> QED BY <1>4, <1>5

\* A step that writes a row books that row at most, over a final credit.
LEMMA BookStep ==
  ASSUME IInv, IInv', Lawful, row' # row, UNCHANGED <<ledger, macro>>
  PROVE  \/ UNCHANGED <<Credits, Booked>>
         \/ \E r \in Real : /\ Credits[r] = 1 /\ r \notin Booked
                            /\ Booked' = Booked \cup {r}
                            /\ UNCHANGED Credits
<1>1. Credits' = Credits
  BY DEF Credits
<1>2. PICK r \in Rows : SameElsewhere(r)
  BY DEF Lawful
<1>3. Booked \subseteq Booked' /\ Booked' \subseteq Booked \cup {r}
  BY <1>2 DEF Lawful, RowRule, SameElsewhere, Booked, Real
<1>4. CASE r \in Booked' /\ r \notin Booked
  <2>1. r \in Real /\ row'[r].status = "paid"
    BY <1>4 DEF Booked
  <2>2. ConfirmedAt(<<r, row'[r].signed>>, macro)
    BY <2>1 DEF IInv, PaidRows, ConfirmedAt
  <2>3. FinalIn(ledger, macro, r) # {}
    BY <2>2 DEF ConfirmedAt, FinalIn
  <2> QED BY <1>1, <1>3, <1>4, <2>1, <2>3 DEF Credits
<1>5. CASE ~(r \in Booked' /\ r \notin Booked)
  BY <1>1, <1>3, <1>5
<1> QED BY <1>4, <1>5

LEMMA ObligationInit == Init => Obligation!Init
<1> SUFFICES ASSUME Init PROVE Obligation!Init
  OBVIOUS
<1>1. \A r : {c \in Credited(r) : c.block <= macro} = {}
  BY DEF Init, Credited
<1>2. \A r \in Rows : row[r].status # "paid"
  BY DEF Init
<1> QED BY <1>1, <1>2, FS_EmptySet DEF Obligation!Init

RefinementInv == IInv /\ MapCredits = Credits

LEMMA ObligationStep ==
  RefinementInv /\ RefinementInv' /\ [Next]_vars =>
    [Obligation!Next]_<<MapCredits, MapBooked>>
<1> SUFFICES ASSUME RefinementInv, RefinementInv', [Next]_vars
             PROVE  Obligation!Next \/ UNCHANGED <<MapCredits, MapBooked>>
  OBVIOUS
<1>1. /\ IInv /\ IInv' /\ MapCredits = Credits /\ MapCredits' = Credits'
      /\ MapBooked = Booked /\ MapBooked' = Booked'
  BY DEF RefinementInv, MapBooked, Booked, Real
<1>2. ASSUME NEW S \in SUBSET Real, S # {}, \A r \in S : Credits[r] = 0,
             Credits' = [r \in Real |-> IF r \in S THEN 1 ELSE Credits[r]],
             UNCHANGED Booked
      PROVE  Obligation!Next
  <2>1. Obligation!Credit(S)
    BY <1>1, <1>2 DEF Obligation!Credit, Real, MapCredits, MapBooked
  <2> QED BY <2>1 DEF Obligation!Next, Real
<1>3. ASSUME NEW r \in Real, Credits[r] = 1, r \notin Booked,
             Booked' = Booked \cup {r}, UNCHANGED Credits
      PROVE  Obligation!Next
  <2>1. Obligation!Book(r)
    BY <1>1, <1>3 DEF Obligation!Book, MapCredits, MapBooked
  <2> QED BY <2>1 DEF Obligation!Next, Real
<1>4. CASE row' = row
  BY <1>1, <1>2, <1>4, CreditStep
<1>5. CASE row' # row
  <2>1. Lawful /\ UNCHANGED <<ledger, macro>>
    BY <1>1, <1>5, StepIsLawful
  <2> QED BY <1>1, <1>3, <1>5, <2>1, BookStep
<1> QED BY <1>4, <1>5

\* Whatever the worker, the network and the chain do, a row is credited at most
\* once and closed only after that: the detailed worker implements "one
\* obligation, one final credit, then the books".
THEOREM PayoutImplementsObligation == Spec => ImplementsObligation
<1>1. Init => Obligation!Init
  BY ObligationInit
<1>2. Spec => []RefinementInv
  <2>1. IInv => RefinementInv
    BY CreditsInState DEF RefinementInv
  <2> QED BY <2>1, PayoutInvariant, PTL
<1>3. RefinementInv /\ RefinementInv' /\ [Next]_vars =>
        [Obligation!Next]_<<MapCredits, MapBooked>>
  BY ObligationStep
<1> QED BY <1>1, <1>2, <1>3, PTL
        DEF Spec, ImplementsObligation, Obligation!Spec, MapCredits, MapBooked

=============================================================================
