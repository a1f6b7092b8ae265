------------------------------- MODULE Payout -------------------------------
(***************************************************************************)
(* The cashback payout worker (cashback/worker/worker.go), the durable     *)
(* payout rows it drives (db/cashback.go, db/quiz_payout.go,               *)
(* db/payout_recovery.go) and the chain it talks to through several RPCs   *)
(* (nimiq/client.go, nimiq/payout_recovery.go).                            *)
(*                                                                         *)
(* A row is one obligation.  A transaction is named by its row and its     *)
(* validity start height, because signing is deterministic in both; it is  *)
(* valid for Window blocks.  The worker may crash between any two steps.   *)
(*                                                                         *)
(* Reading an RPC and the store transaction that follows the answer are    *)
(* one step.  That loses nothing: an answer may come from a node that lags *)
(* (a view in 0..macro), so an answer used late is an answer of a lagging  *)
(* node, and a crash between the two is a crash before the first.          *)
(***************************************************************************)
EXTENDS Naturals, FiniteSets

CONSTANTS
  Rows,           \* payout rows (one per fulfilled quote or quiz winner)
  TestRows,       \* rows of admin test-center orders (TestMode)
  PrizeRows,      \* rows of the quiz prize store; the others are cashbacks
  WalletStates,   \* what Worker.Ready() may be after a restart
  Window,         \* transaction validity window in blocks (7200)
  Skew,           \* head height skew the RPC cross-check accepts
  QueuedBatch,    \* rows listed per status and store for sending (20)
  BroadcastBatch, \* rows listed per store for confirmation (50)
  MaxHeight,      \* bound on the modelled chain height
  NoTx,           \* no signed transaction, no hash
  NoRow,          \* the worker handles no row
  TestHash        \* the "TESTTX-..." hash of a simulated payout

ASSUME RowsAssumption ==
  /\ IsFiniteSet(Rows)
  /\ TestRows \subseteq Rows
  /\ PrizeRows \subseteq Rows \ TestRows
ASSUME BoundsAssumption ==
  /\ Window \in Nat /\ Skew \in Nat /\ MaxHeight \in Nat \ {0}
  /\ QueuedBatch \in Nat \ {0} /\ BroadcastBatch \in Nat \ {0}
  /\ WalletStates \subseteq BOOLEAN
ASSUME MarkersAssumption ==
  /\ NoRow \notin Rows
  /\ NoTx \notin Nat /\ TestHash \notin Nat /\ NoTx # TestHash

Heights == 1 .. MaxHeight
Statuses == {"queued", "sending", "broadcast", "paid"}
Row == [status : Statuses, signed : Heights \cup {NoTx},
        hash : Heights \cup {NoTx, TestHash}, expired : SUBSET Heights]
Snapshot == [id : Rows, status : Statuses, signed : Heights \cup {NoTx}]
Tx == Rows \X Heights
Receipt == [tx : Tx, block : Heights, ok : BOOLEAN]

VARIABLES
  row,      \* the durable payout rows
  age,      \* rank of each row's UpdatedAt, 1 = least recently written
  recent,   \* rows whose SendingAt is less than two minutes old
  pc, phase, todo, cur, tx, found, \* the worker's stack, lost in a crash
  height,   \* head block
  macro,    \* last finalized macro block
  pushed,   \* transactions that ever reached the network
  ledger,   \* receipts of included transactions
  calm,     \* the RPCs answer and the process stays up from now on
  wallet    \* Worker.Ready(): seed, RPC and CASHBACK_ENABLED are set

rowVars == <<row, age, recent>>
workerVars == <<pc, phase, todo, cur, tx, found>>
chainVars == <<height, macro, pushed, ledger>>
vars == <<rowVars, workerVars, chainVars, calm, wallet>>

Init ==
  /\ row = [r \in Rows |-> [status |-> "queued", signed |-> NoTx,
                            hash |-> NoTx, expired |-> {}]]
  /\ age \in {f \in [Rows -> 1 .. Cardinality(Rows)] :
                \A r, s \in Rows : f[r] = f[s] => r = s}
  /\ recent = {}
  /\ pc = "idle" /\ phase = "idle" /\ todo = {}
  /\ cur = NoRow /\ tx = NoTx /\ found = FALSE
  /\ height = 1 /\ macro = 0 /\ pushed = {} /\ ledger = {}
  /\ calm = FALSE /\ wallet \in WalletStates

-----------------------------------------------------------------------------
(* Store operations: what one transaction on row r writes.                 *)

\* patchCashback stamps UpdatedAt on every successful patch, even an empty one.
Touch(r) ==
  age' = [s \in Rows |-> IF s = r THEN Cardinality(Rows)
                         ELSE IF age[s] > age[r] THEN age[s] - 1 ELSE age[s]]

Patch(r, rec) ==
  /\ row' = [row EXCEPT ![r] = rec]
  /\ Touch(r)

NoWrite == UNCHANGED <<row, age>>

\* ListCashbacksByStatus: the least recently written rows of one store.
Listed(store, status, limit) ==
  LET Candidates == {r \in store : row[r].status = status}
  IN {r \in Candidates :
        Cardinality({s \in Candidates : age[s] < age[r]}) < limit}

\* quizStore.ListCashbacksByStatus appends the two stores' own batches.
ListBoth(status, limit) ==
  Listed(Rows \ PrizeRows, status, limit) \cup Listed(PrizeRows, status, limit)

SnapshotOf(r) == [id |-> r, status |-> row[r].status, signed |-> row[r].signed]

\* Seeded fault: an abandoned claim is never taken over.
CanClaimQueuedOnly(r) == row[r].status = "queued"

\* The states ClaimCashbackSend turns into a fresh "sending" claim.
CanClaim(r) ==
  \/ row[r].status = "queued"
  \/ row[r].status = "sending" /\ row[r].signed = NoTx /\ r \notin recent

Claim(r) ==
  /\ Patch(r, [row[r] EXCEPT !.status = "sending"])
  /\ recent' = recent \cup {r}

CanAttach(r, h) ==
  /\ h \notin row[r].expired
  /\ row[r].status \in {"sending", "queued"}
  /\ row[r].signed \in {NoTx, h}

AttachSignedTx(r, h) == Patch(r, [row[r] EXCEPT !.signed = h, !.hash = h])

\* MarkCashbackBroadcast: a conflict leaves the row as it is.
MarkBroadcast(r, h) ==
  IF /\ row[r].status \in {"sending", "broadcast"}
     /\ row[r].hash \in {NoTx, h}
  THEN Patch(r, [row[r] EXCEPT !.status = "broadcast", !.hash = h])
  ELSE NoWrite

\* MarkCashbackPaid: only from broadcast and only for the recorded hash.
MarkPaid(r, h) ==
  IF h # NoTx /\ row[r].hash = h /\ row[r].status \in {"broadcast", "paid"}
  THEN Patch(r, [row[r] EXCEPT !.status = "paid"])
  ELSE NoWrite

\* Seeded fault: every failure sends the row back to queued, unsigned.
FailSendUnsigns(r) ==
  Patch(r, [row[r] EXCEPT !.status = "queued", !.signed = NoTx, !.hash = NoTx])

\* FailCashbackSend: signed bytes stay; an unsigned claim goes back to queued.
\* The prize store requeues only from sending.
FailSend(r) ==
  IF /\ row[r].signed = NoTx
     /\ \/ row[r].status = "sending"
        \/ row[r].status = "broadcast" /\ r \notin PrizeRows
  THEN Patch(r, [row[r] EXCEPT !.status = "queued"])
  ELSE Patch(r, row[r])

\* retireExpiredPayout: the checks on the row; the proof is checked in Prove.
CanRetire(r, h) ==
  /\ row[r].status \in {"sending", "broadcast"}
  /\ r \notin TestRows
  /\ row[r].signed = h
  /\ row[r].hash \in {NoTx, h}

\* Seeded fault: the replaced attempt leaves no audit record.
RetireUnrecorded(r, h) ==
  Patch(r, [row[r] EXCEPT !.status = "queued", !.signed = NoTx, !.hash = NoTx])

Retire(r, h) ==
  Patch(r, [row[r] EXCEPT !.status = "queued", !.signed = NoTx, !.hash = NoTx,
                          !.expired = @ \cup {h}])

-----------------------------------------------------------------------------
(* What the RPCs can answer.  view is the last macro block of the node.    *)

Views == IF calm THEN {macro} ELSE 0 .. macro

\* Seeded fault: inclusion in any block counts as confirmation.
ConfirmedUnfinalized(t, view) == \E c \in ledger : c.tx = t /\ c.ok

\* A confirmed answer: executed, and in or below a finalized macro block.
ConfirmedAt(t, view) ==
  \E c \in ledger : c.tx = t /\ c.ok /\ c.block <= view

\* Seeded fault: the head, not the finalized block, is compared with the window.
ExpiredAtHead(t, view) ==
  /\ height > t[2] + Window
  /\ \A c \in ledger : c.tx = t /\ c.block <= view => ~c.ok

\* ProvePayoutExpired: the finalized block is past the window, and the node
\* that reports it knows no receipt of t except a failure below that block.
ExpiredAt(t, view) ==
  /\ view > t[2] + Window
  /\ \A c \in ledger : c.tx = t /\ c.block <= view => ~c.ok /\ c.block < view

-----------------------------------------------------------------------------
(* The worker.  tick lists, then handles the rows of the list one by one.  *)

Goto(p) == pc' = p

Return == cur' = NoRow /\ tx' = NoTx /\ found' = FALSE

Finish == Goto("next") /\ Return

StartTick ==
  /\ pc = "idle"
  /\ Goto("next") /\ phase' = "confirm"
  /\ todo' = {SnapshotOf(r) : r \in ListBoth("broadcast", BroadcastBatch)}
  /\ UNCHANGED <<rowVars, chainVars, calm, wallet, cur, tx, found>>

ListSendable ==
  /\ pc = "next" /\ phase = "confirm" /\ todo = {}
  /\ phase' = "send"
  /\ todo' = {SnapshotOf(r) : r \in ListBoth("queued", QueuedBatch)
                                      \cup ListBoth("sending", QueuedBatch)}
  /\ UNCHANGED <<rowVars, chainVars, calm, wallet, pc, cur, tx, found>>

EndTick ==
  /\ pc = "next" /\ phase = "send" /\ todo = {}
  /\ Goto("idle") /\ phase' = "idle"
  /\ UNCHANGED <<rowVars, chainVars, calm, wallet, todo, cur, tx, found>>

Take(cb, p) ==
  /\ pc = "next" /\ phase = p /\ cb \in todo
  /\ todo' = todo \ {cb}
  /\ UNCHANGED <<chainVars, calm, wallet, phase>>

\* A real payout cannot move without the wallet: the row is passed over.
SkipReal(cb) ==
  /\ Take(cb, phase)
  /\ cb.id \notin TestRows /\ ~wallet
  /\ UNCHANGED <<rowVars, pc, cur, tx, found>>

ConfirmTest(cb) ==
  /\ Take(cb, "confirm")
  /\ cb.id \in TestRows
  /\ MarkPaid(cb.id, row[cb.id].hash)
  /\ UNCHANGED <<recent, pc, cur, tx, found>>

\* confirm(): every RPC reports the transaction finalized.
ConfirmPaid(cb) ==
  /\ Take(cb, "confirm")
  /\ cb.id \notin TestRows /\ wallet
  /\ \E view \in Views : ConfirmedAt(<<cb.id, cb.signed>>, view)
  /\ MarkPaid(cb.id, cb.signed)
  /\ UNCHANGED <<recent, pc, cur, tx, found>>

\* confirm(): not confirmed, or no answer (recorded as LastError); either way
\* the persisted bytes go through rebroadcast.
ConfirmRetry(cb) ==
  /\ Take(cb, "confirm")
  /\ cb.id \notin TestRows /\ wallet
  /\ \/ /\ \E view \in Views : ~ConfirmedAt(<<cb.id, cb.signed>>, view)
        /\ NoWrite
     \/ ~calm /\ FailSend(cb.id)
  /\ Goto("lookup") /\ cur' = cb.id /\ tx' = cb.signed
  /\ UNCHANGED <<recent, found>>

SendTest(cb) ==
  /\ Take(cb, "send")
  /\ cb.id \in TestRows
  /\ IF CanClaim(cb.id)
     THEN /\ Claim(cb.id) /\ Goto("testsend") /\ cur' = cb.id
          /\ UNCHANGED <<tx, found>>
     ELSE UNCHANGED <<rowVars, pc, cur, tx, found>>

BroadcastTest ==
  /\ pc = "testsend"
  /\ MarkBroadcast(cur, TestHash)
  /\ Finish
  /\ UNCHANGED <<recent, phase, todo, chainVars, calm, wallet>>

\* sendOne() on a row that already carries signed bytes.
SendSigned(cb) ==
  /\ Take(cb, "send")
  /\ cb.id \notin TestRows /\ wallet
  /\ cb.signed # NoTx
  /\ Goto("lookup") /\ cur' = cb.id /\ tx' = cb.signed
  /\ UNCHANGED <<rowVars, found>>

\* Seeded fault: the simulated rows are not kept apart.
SendUnsignedAny(cb) ==
  /\ Take(cb, "send")
  /\ cb.signed = NoTx
  /\ IF CanClaim(cb.id)
     THEN /\ Claim(cb.id) /\ Goto("sign") /\ cur' = cb.id
          /\ UNCHANGED <<tx, found>>
     ELSE UNCHANGED <<rowVars, pc, cur, tx, found>>

\* sendOne() on an unsigned row: claim it, or leave it to its current claim.
SendUnsigned(cb) ==
  /\ Take(cb, "send")
  /\ cb.id \notin TestRows /\ wallet
  /\ cb.signed = NoTx
  /\ IF CanClaim(cb.id)
     THEN /\ Claim(cb.id) /\ Goto("sign") /\ cur' = cb.id
          /\ UNCHANGED <<tx, found>>
     ELSE UNCHANGED <<rowVars, pc, cur, tx, found>>

\* Balance and height are read, the bytes are signed and persisted; a conflict
\* in the store leaves the claim to age.
SignAndPersist(h) ==
  /\ pc = "sign"
  /\ h <= height /\ height <= h + Skew
  /\ IF CanAttach(cur, h)
     THEN /\ AttachSignedTx(cur, h) /\ Goto("lookup") /\ tx' = h
          /\ UNCHANGED <<cur, found>>
     ELSE NoWrite /\ Finish
  /\ UNCHANGED <<recent, phase, todo, chainVars, calm, wallet>>

\* Balance, height or signing failed, or the wallet is short.
SignFails ==
  /\ pc = "sign" /\ ~calm
  /\ FailSend(cur)
  /\ Finish
  /\ UNCHANGED <<recent, phase, todo, chainVars, calm, wallet>>

\* rebroadcast(): look the canonical hash up before any retry.
Lookup ==
  /\ pc = "lookup"
  /\ \/ /\ \E view \in Views : ConfirmedAt(<<cur, tx>>, view)
        /\ MarkBroadcast(cur, tx) /\ Goto("markpaid") /\ found' = TRUE
     \/ /\ <<cur, tx>> \in pushed
        /\ MarkBroadcast(cur, tx) /\ Goto("prove") /\ found' = TRUE
     \/ /\ \E view \in Views : ~ConfirmedAt(<<cur, tx>>, view)
        /\ NoWrite /\ Goto("prove") /\ found' = FALSE
     \/ /\ ~calm
        /\ FailSend(cur) /\ Goto("prove") /\ found' = FALSE
  /\ UNCHANGED <<recent, phase, todo, cur, tx, chainVars, calm, wallet>>

MarkPaidAfterLookup ==
  /\ pc = "markpaid"
  /\ MarkPaid(cur, tx)
  /\ Finish
  /\ UNCHANGED <<recent, phase, todo, chainVars, calm, wallet>>

\* rebroadcast(): replace the bytes only with a finalized proof of expiry.
Prove ==
  /\ pc = "prove"
  /\ \/ /\ \E view \in Views : ExpiredAt(<<cur, tx>>, view)
        /\ IF CanRetire(cur, tx) THEN Retire(cur, tx) ELSE NoWrite
        /\ Finish
     \/ /\ \/ (\E view \in Views : ~ExpiredAt(<<cur, tx>>, view)) /\ NoWrite
           \/ ~calm /\ FailSend(cur)
        /\ IF found THEN Finish ELSE Goto("push") /\ UNCHANGED <<cur, tx, found>>
  /\ UNCHANGED <<recent, phase, todo, chainVars, calm, wallet>>

\* The bytes reach the network whatever becomes of the reply; a request that
\* is refused or lost before it arrives changes nothing.
Push ==
  /\ pc = "push"
  /\ \/ /\ height <= tx + Window
        /\ pushed' = pushed \cup {<<cur, tx>>}
        /\ Goto("accepted")
     \/ /\ ~calm /\ pushed' = pushed \cup {<<cur, tx>>} /\ Goto("refused")
     \/ /\ ~calm \/ height > tx + Window
        /\ UNCHANGED pushed /\ Goto("refused")
  /\ UNCHANGED <<rowVars, phase, todo, cur, tx, found, height, macro, ledger,
                 calm, wallet>>

PushAccepted ==
  /\ pc = "accepted"
  /\ MarkBroadcast(cur, tx)
  /\ Finish
  /\ UNCHANGED <<recent, phase, todo, chainVars, calm, wallet>>

\* A refusal is no proof: the hash is looked up once more.
PushRefused ==
  /\ pc = "refused"
  /\ \/ <<cur, tx>> \in pushed /\ MarkBroadcast(cur, tx)
     \/ FailSend(cur)
  /\ Finish
  /\ UNCHANGED <<recent, phase, todo, chainVars, calm, wallet>>

WorkerStep ==
  \/ StartTick \/ ListSendable \/ EndTick
  \/ \E cb \in todo : \/ SkipReal(cb) \/ ConfirmTest(cb) \/ ConfirmPaid(cb)
                      \/ ConfirmRetry(cb) \/ SendTest(cb) \/ SendSigned(cb)
                      \/ SendUnsigned(cb)
  \/ BroadcastTest
  \/ \E h \in Heights : SignAndPersist(h)
  \/ SignFails \/ Lookup \/ MarkPaidAfterLookup \/ Prove \/ Push
  \/ PushAccepted \/ PushRefused

\* The process dies: the store and the network keep what they have.
Crash ==
  /\ ~calm /\ pc # "idle"
  /\ pc' = "idle" /\ phase' = "idle" /\ todo' = {} /\ Return
  /\ wallet' \in WalletStates
  /\ UNCHANGED <<rowVars, chainVars, calm>>

\* Two minutes pass since the claim of r.
ClaimAges(r) ==
  /\ r \in recent
  /\ recent' = recent \ {r}
  /\ UNCHANGED <<row, age, workerVars, chainVars, calm, wallet>>

-----------------------------------------------------------------------------
(* The chain, external to the shop.                                        *)

NewBlock ==
  /\ height < MaxHeight
  /\ height' = height + 1
  /\ UNCHANGED <<macro, pushed, ledger, rowVars, workerVars, calm, wallet>>

\* A transaction is included at most once and only inside its window.  It may
\* execute unsuccessfully; the bound keeps its expiry inside MaxHeight.  The last
\* modelled block stands for all later ones, so it still takes transactions when
\* it is final; no expiry can be proved for what is valid in it.
Include(t, ok) ==
  /\ t \in pushed
  /\ t[2] <= height /\ height <= t[2] + Window
  /\ \A c \in ledger : c.tx # t
  /\ macro < height \/ height = MaxHeight
  /\ ok \/ (~calm /\ t[2] + Window < MaxHeight)
  /\ ledger' = ledger \cup {[tx |-> t, block |-> height, ok |-> ok]}
  /\ UNCHANGED <<height, macro, pushed, rowVars, workerVars, calm, wallet>>

Finalize ==
  /\ macro < height
  /\ macro' = height
  /\ UNCHANGED <<height, pushed, ledger, rowVars, workerVars, calm, wallet>>

\* Blocks above the last macro block may be reverted.
Reorg ==
  /\ ~calm
  /\ \E c \in ledger : c.block > macro
  /\ ledger' = {c \in ledger : c.block <= macro}
  /\ UNCHANGED <<height, macro, pushed, rowVars, workerVars, calm, wallet>>

Settle == /\ ~calm /\ calm' = TRUE
          /\ UNCHANGED <<rowVars, workerVars, chainVars, wallet>>

ChainStep ==
  \/ NewBlock \/ Finalize \/ Reorg
  \/ \E t \in pushed, ok \in BOOLEAN : Include(t, ok)

Next == \/ WorkerStep \/ Crash \/ Settle \/ ChainStep
        \/ \E r \in Rows : ClaimAges(r)

Spec == Init /\ [][Next]_vars

\* The loop ticks forever, claims age and blocks keep coming (worker.Run); RPCs
\* and the process are only assumed to be well eventually, not throughout.
Fairness ==
  /\ WF_vars(WorkerStep)
  /\ WF_vars(Settle)
  /\ WF_vars(NewBlock)
  /\ WF_vars(Finalize)
  /\ WF_vars(\E t \in pushed : Include(t, TRUE))
  /\ \A r \in Rows : WF_vars(ClaimAges(r))

FairSpec == Spec /\ Fairness

-----------------------------------------------------------------------------
(* Properties.                                                             *)

RowTypes == /\ row \in [Rows -> Row]
            /\ age \in [Rows -> 1 .. Cardinality(Rows)]

WorkerTypes ==
  /\ pc \in {"idle", "next", "testsend", "sign", "lookup", "markpaid",
             "prove", "push", "accepted", "refused"}
  /\ phase \in {"idle", "confirm", "send"}
  /\ todo \subseteq Snapshot
  /\ cur \in Rows \cup {NoRow} /\ tx \in Heights \cup {NoTx} /\ found \in BOOLEAN

ChainTypes ==
  /\ height \in Heights /\ macro \in 0 .. height
  /\ pushed \subseteq Tx /\ ledger \subseteq Receipt

\* Types of the rows, the worker's stack and the chain.
TypeOK == /\ RowTypes /\ WorkerTypes /\ ChainTypes
          /\ recent \subseteq Rows /\ calm \in BOOLEAN /\ wallet \in BOOLEAN

Credited(r) == {c \in ledger : c.tx[1] = r /\ c.ok}

\* However often the worker crashes, re-reads, re-signs and re-broadcasts, the
\* chain never executes two successful transactions for one payout row
\* (worker.go "One obligation per quote/winner").
AtMostOneCredit ==
  \A c, d \in ledger : c.ok /\ d.ok /\ c.tx[1] = d.tx[1] => c = d

\* Bytes on the wire are always on record: either the row's current attempt or
\* one of its retired attempts (worker.go "persisted BEFORE the first
\* broadcast").
WireIsOnRecord ==
  \A t \in pushed : t[2] = row[t[1]].signed \/ t[2] \in row[t[1]].expired

\* A paid real row is backed by a final, successful receipt of exactly the hash
\* it shows (MarkCashbackPaid).
PaidIsFinal ==
  \A r \in Rows \ TestRows : row[r].status = "paid" =>
    \E c \in ledger : /\ c.tx = <<r, row[r].signed>> /\ c.ok
                      /\ c.block <= macro /\ row[r].hash = row[r].signed

\* A retired attempt has not paid and never will, even if an old request is
\* still on its way (RetireExpiredPayout).
RetiredIsDead ==
  \A c \in ledger : c.ok => c.tx[2] \notin row[c.tx[1]].expired

\* A simulated payout never reaches the network (Cashback.TestMode).
TestStaysOffChain == \A t \in pushed : t[1] \notin TestRows

\* A signature is given up only by moving it into the audit trail, and a paid
\* row never changes its identity again (AttachCashbackSignedTx,
\* retireExpiredPayout).
SignatureOnlyRetired ==
  [][\A r \in Rows :
       /\ row[r].expired \subseteq row'[r].expired
       /\ row[r].signed # NoTx /\ row'[r].signed # row[r].signed =>
            row'[r].signed = NoTx /\ row[r].signed \in row'[r].expired
       /\ row[r].status = "paid" => row'[r] = row[r]]_vars

\* The worker implements the abstract promise.
Obligation == INSTANCE PayoutObligation WITH
  Rows <- Rows \ TestRows,
  credits <- [r \in Rows \ TestRows |->
                Cardinality({c \in Credited(r) : c.block <= macro})],
  booked <- {r \in Rows \ TestRows : row[r].status = "paid"}
ImplementsObligation == Obligation!Spec

\* With a wallet, every payout is eventually paid once the RPCs and the process
\* are well, whatever happened before.
EventuallyPaid == \A r \in Rows : <>(row[r].status = "paid")

=============================================================================
