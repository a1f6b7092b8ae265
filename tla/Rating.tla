------------------------------- MODULE Rating -------------------------------
(* A star rating the buyer pays for on the chain, from the page to the ledger.

   The page (RatingFlow.tsx, ratingPay.ts) writes a pending record, asks the
   shop to reserve the memo for this purchase, hands the memo to the wallet and
   then asks the shop to save the rating until the chain shows the payment.
   Independently of every page, a watcher (ratingwatch/worker.go) reads the
   history of the shop's wallet page by page into a durable inbox and applies
   the payments whose memo somebody reserved. Both end in ApplyRating, one
   transaction of the store.

   The store detects conflicts key by key: a transaction reads at its snapshot
   and commits unless a key it read was written meanwhile. Only SaveRatingIntent
   reads a range of keys, so it alone is two steps, the snapshot (Intent, Submit,
   Retry) and the commit (Persist); every other transaction is as if it ran at
   its commit.

   One buyer with one browser tab; the shop works on one rating request of that
   buyer at a time. Pages come and go within the tab, what they
   started goes on until the document is left. A memo stands for the stars and
   the comment it spells; a payment is the number of its broadcast. Two clocks
   are choices: whether a pending record is older than 15 minutes (Expire), and
   which mined payments are more than 2 minutes older than a reservation. *)
EXTENDS Naturals, FiniteSets, SequencesExt

CONSTANTS Purchases,    \* the buyer's purchases
          Memos,        \* ratings the buyer may want to give: stars and comment
          Commented,    \* the memos that carry a comment
          MaxTxs,       \* bound: payments broadcast
          Runs,         \* bound: submissions and checks under way in the tab
          MaxAsks,      \* bound: signing requests shown by the wallet
          MaxSwitches,  \* bound: times the operator turns comments off or on
          MaxRatings,   \* ratings one purchase may take (5 in the code)
          PageSize,     \* history entries of one page (100 in the code)
          TickSize,     \* inbox entries of one tick (10 in the code)
          NoPurchase, NoMemo, NoOne

ASSUME RatingAssumption ==
  /\ NoPurchase \notin Purchases /\ NoMemo \notin Memos /\ NoOne \notin Runs
  /\ Commented \subseteq Memos
  /\ {MaxTxs, MaxAsks, MaxSwitches} \subseteq Nat
  /\ {MaxRatings, PageSize, TickSize} \subseteq Nat \ {0}

VARIABLES page,      \* the open page of one purchase
          runs,      \* what the pages of the tab have started
          rec,       \* purchase -> the pending record in the browser's storage
          scope,     \* pendingScope: the purchase whose record was last touched
          open,      \* signing requests the wallet still shows
          asks,      \* signing requests made
          txs,       \* the payments broadcast
          chain,     \* the mined payments, oldest first
          seen,      \* payment -> the purchases delivered when it was mined
          delivered, \* the purchases delivered so far
          commentsOn, switches,
          intent,    \* memo -> the purchase it is reserved for
          rating,    \* purchase -> its saved rating
          proved,    \* payment -> the purchase whose rating it proved
          inbox,     \* payment -> its entry in the watcher's inbox
          resting,   \* pending entries whose next attempt lies ahead
          filed,     \* payments that were ever filed as unmatched: their match keys
          scan,      \* the watcher's position in the history
          watch,     \* the entries of the running tick, the reservation it read
          call       \* the rating request the shop is working on

browser == <<page, runs, rec, scope, open, asks>>
ledger  == <<txs, chain, seen>>
books   == <<intent, rating, proved>>
entries == <<inbox, resting, filed>>
watcher == <<entries, scan, watch>>
admin   == <<delivered, commentsOn, switches>>
vars == <<browser, ledger, books, watcher, admin, call>>

Txs == 1..MaxTxs
NoTx == 0
NoRec == [memo |-> NoMemo, submitted |-> FALSE, hash |-> NoTx]
NoRun == [at |-> "over", for |-> NoPurchase, memo |-> NoMemo, hash |-> NoTx,
          from |-> "none", here |-> FALSE]
Away == [at |-> NoPurchase, memo |-> NoMemo, told |-> FALSE]
NoIntent == [for |-> NoPurchase, older |-> {}]
NoCall == [at |-> "none", for |-> NoPurchase, memo |-> NoMemo, tx |-> NoTx, run |-> NoOne,
           older |-> {}, saw |-> {}, stale |-> FALSE]
Unread == [batch |-> {}, at |-> "next", for |-> NoPurchase, older |-> FALSE]

-----------------------------------------------------------------------------
(* The store                                                                *)

Memo(t) == txs[t]
Mined == Range(chain)

\* prepareRating: what the shop refuses before it looks at the chain
Prepared(p, m) == /\ p \in delivered
                  /\ m \in Commented => commentsOn
                  /\ rating[p].memo # m
                  /\ rating[p].edits < MaxRatings

Busy(p, m) == intent[m] # NoIntent /\ intent[m].for # p

Wanted(m) == {t \in Txs : inbox[t] = "unmatched" /\ Memo(t) = m}

\* the match keys under a memo; they are never deleted
Matching(m) == {t \in filed : Memo(t) = m}

\* SaveRatingIntent writes: the memo is reserved, the payments among the seen
\* that wait for it are woken
Reserve(p, m, older, saw) ==
  /\ intent' = [intent EXCEPT ![m] = [for |-> p, older |-> older]]
  /\ inbox' = [t \in Txs |-> IF t \in saw \intersect Wanted(m) THEN "pending" ELSE inbox[t]]
  /\ resting' = resting \ (saw \intersect Wanted(m))
  /\ UNCHANGED filed

\* a request of the page whose SaveRatingIntent is open
Reserving == call.at \in {"intent", "submit"}

\* A commit that writes these reservations, ratings and inbox entries: the open
\* transaction cannot commit any more if it read one of them
Writes(memos, purchases, payments) ==
  call' = [call EXCEPT !.stale = @ \/ /\ Reserving
                                      /\ \/ call.memo \in memos
                                         \/ call.for \in purchases
                                         \/ call.saw \intersect payments # {}]

MayBeOlder(m) == SUBSET {t \in Mined : Memo(t) = m}

Release(m) == intent' = [intent EXCEPT ![m] = NoIntent]

\* ApplyRating: the first reason it refuses, in the order of the code
Refusal(p, m, t) ==
  CASE intent[m] = NoIntent \/ intent[m].for # p -> "conflict"
    [] p \notin delivered -> "conflict"
    [] m \in Commented /\ ~commentsOn -> "comments_off"
    [] rating[p].memo = m -> "repeat"
    [] rating[p].edits >= MaxRatings -> "limit"
    [] proved[t] # NoPurchase -> "used"
    [] OTHER -> "none"

\* Seeded fault: the payment is not marked as used
ApplyUnmarked(p, m, t) ==
  /\ rating' = [rating EXCEPT ![p] = [memo |-> m, tx |-> t, edits |-> @.edits + 1]]
  /\ UNCHANGED proved
  /\ Release(m)

Apply(p, m, t) ==
  /\ rating' = [rating EXCEPT ![p] = [memo |-> m, tx |-> t, edits |-> @.edits + 1]]
  /\ proved' = [proved EXCEPT ![t] = p]
  /\ Release(m)

-----------------------------------------------------------------------------
(* The page and the wallet                                                  *)

Here == page.at
Submitted(p) == rec[p].submitted
\* neither signing nor waiting
Idle == page # Away /\ \A r \in Runs : ~runs[r].here

\* clearPendingRating drops the record of whoever was looked at last
Clear == /\ rec' = IF scope = NoPurchase THEN rec ELSE [rec EXCEPT ![scope] = NoRec]
         /\ scope' = NoPurchase

\* readPendingRating looks at a purchase's record
Touch(p) == scope' = p /\ UNCHANGED rec

\* markPendingRatingSubmitted: only a record that is still there is marked
Mark(p, h) ==
  /\ rec' = IF rec[p] = NoRec THEN rec
            ELSE [rec EXCEPT ![p].submitted = TRUE, ![p].hash = IF h = NoTx THEN @ ELSE h]
  /\ scope' = p

Forget(p) == rec' = [rec EXCEPT ![p] = NoRec] /\ scope' = NoPurchase
\* Seeded fault: every final refusal drops the record, a paid one too
ForgetAnyway(p) == Forget(p)
ForgetUnsubmitted(p) == IF Submitted(p) THEN Touch(p) ELSE Forget(p)

\* a run begins on the open page
Begin(r, on, m, h, why) ==
  /\ runs[r] = NoRun
  /\ runs' = [runs EXCEPT ![r] = [at |-> on, for |-> Here, memo |-> m, hash |-> h,
                                  from |-> why, here |-> TRUE]]

\* told is pendingSubmission: the button reads "check status", the stars are
\* locked; a run of a page that is gone tells nobody
Tells(r, told) ==
  page' = IF runs[r].here
          THEN [page EXCEPT !.told = told, !.memo = IF told THEN runs[r].memo ELSE NoMemo]
          ELSE page
Ends(r) == runs' = [runs EXCEPT ![r] = NoRun]

\* The page of a delivered purchase; a pending record is taken up at once
Visit(p) ==
  /\ page = Away /\ p \in delivered
  /\ page' = [at |-> p, told |-> Submitted(p), memo |-> IF Submitted(p) THEN rec[p].memo ELSE NoMemo]
  /\ Touch(p)
  /\ \/ rec[p] = NoRec /\ UNCHANGED runs
     \/ /\ rec[p] # NoRec
        /\ \E r \in Runs : /\ runs[r] = NoRun
                           /\ runs' = [runs EXCEPT ![r] =
                                [at |-> "poll", for |-> p, memo |-> rec[p].memo, hash |-> rec[p].hash,
                                 from |-> "recover", here |-> TRUE]]
  /\ UNCHANGED <<open, asks, ledger, books, watcher, admin, call>>

\* Another page of the shop: what was started goes on
Leave ==
  /\ page # Away
  /\ page' = Away
  /\ runs' = [r \in Runs |-> IF runs[r] = NoRun THEN NoRun
                             ELSE [runs[r] EXCEPT !.here = FALSE]]
  /\ UNCHANGED <<rec, scope, open, asks, ledger, books, watcher, admin, call>>

Unloaded == /\ page' = Away
            /\ runs' = [r \in Runs |-> NoRun]
            /\ call' = [call EXCEPT !.run = NoOne]

\* The document is closed or loaded again: only the stored records are left
Unload ==
  /\ Unloaded
  /\ scope' = NoPurchase
  /\ UNCHANGED <<rec, open, asks, ledger, books, watcher, admin>>

\* readPendingRating drops a record of 15 minutes that was never submitted; it
\* is only ever looked at through that read
Expire(p) ==
  /\ rec[p] # NoRec /\ ~Submitted(p)
  /\ rec' = [rec EXCEPT ![p] = NoRec]
  /\ UNCHANGED <<page, runs, scope, open, asks, ledger, books, watcher, admin, call>>

\* submit: nothing submitted yet, so a record is written and the memo asked for
Rate(m) ==
  /\ Idle /\ ~Submitted(Here)
  /\ page.told => m = page.memo
  /\ rec' = [rec EXCEPT ![Here] = [memo |-> m, submitted |-> FALSE, hash |-> NoTx]]
  /\ scope' = Here
  /\ \E r \in Runs : Begin(r, "intent", m, NoTx, "submit")
  /\ UNCHANGED <<page, open, asks, ledger, books, watcher, admin, call>>

\* submit: a submitted payment is only asked about
Check ==
  /\ Idle /\ Submitted(Here)
  /\ \E r \in Runs : Begin(r, "poll", rec[Here].memo, rec[Here].hash, "check")
  /\ Touch(Here)
  /\ UNCHANGED <<page, open, asks, ledger, books, watcher, admin, call>>

Request(r) == <<runs[r].for, runs[r].memo>>
At(r, where) == runs[r].at = where

\* SaveRatingIntent begins: its snapshot
Open(r, what) ==
  \E older \in MayBeOlder(runs[r].memo) :
    call' = [at |-> what, for |-> runs[r].for, memo |-> runs[r].memo, tx |-> runs[r].hash,
             run |-> r, older |-> older, saw |-> Matching(runs[r].memo), stale |-> FALSE]

ToWallet(r) == /\ runs' = [runs EXCEPT ![r].at = "wallet"]
               /\ open' = open \union {Request(r)}
               /\ asks' = asks + 1

\* ratingIntent: the purchase's own reservation is kept, else the memo is reserved
Intent(r) ==
  /\ At(r, "intent") /\ call = NoCall /\ asks < MaxAsks
  /\ Prepared(runs[r].for, runs[r].memo) /\ ~Busy(runs[r].for, runs[r].memo)
  /\ \/ intent[runs[r].memo] = NoIntent /\ Open(r, "intent") /\ UNCHANGED <<runs, open, asks>>
     \/ intent[runs[r].memo] # NoIntent /\ ToWallet(r) /\ UNCHANGED call
  /\ UNCHANGED <<page, rec, scope, ledger, books, watcher, admin>>

NoIntentLeft(r) == Clear /\ Ends(r) /\ Tells(r, page.told)
Detached(r) == IF call.run = r THEN [call EXCEPT !.run = NoOne] ELSE call

\* refused, or the answer is lost; the shop's transaction goes on
IntentFails(r) ==
  /\ At(r, "intent")
  /\ NoIntentLeft(r)
  /\ call' = Detached(r)
  /\ UNCHANGED <<open, asks, ledger, books, watcher, admin>>

Broadcast(m) ==
  /\ Len(txs) < MaxTxs
  /\ txs' = Append(txs, m)
  /\ UNCHANGED <<chain, seen>>

\* The wallet pays and says so, with the hash or (an older host) without
WalletPays(r) ==
  /\ At(r, "wallet") /\ Request(r) \in open
  /\ Broadcast(runs[r].memo)
  /\ open' = open \ {Request(r)}
  /\ \E h \in {NoTx, Len(txs')} :
       /\ Mark(runs[r].for, h)
       /\ runs' = [runs EXCEPT ![r] = IF @.here THEN [@ EXCEPT !.at = "poll", !.hash = h]
                                                ELSE NoRun]
  /\ Tells(r, TRUE)
  /\ UNCHANGED <<asks, books, watcher, admin, call>>

\* The buyer declines: the reservation is given back, unless that call is lost
WalletDenies(r) ==
  /\ At(r, "wallet")
  /\ open' = open \ {Request(r)}
  /\ \/ /\ intent[runs[r].memo].for = runs[r].for
        /\ Release(runs[r].memo)
        /\ Writes({runs[r].memo}, {}, {})
     \/ UNCHANGED <<intent, call>>
  /\ ForgetUnsubmitted(runs[r].for)
  /\ Ends(r) /\ Tells(r, page.told)
  /\ UNCHANGED <<asks, ledger, rating, proved, watcher, admin>>

\* TRANSACTION_OUTCOME_UNKNOWN: paid or not, the page must not pay again
WalletUnknown(r) ==
  /\ At(r, "wallet")
  /\ \/ /\ Request(r) \in open
        /\ Broadcast(runs[r].memo)
        /\ open' = open \ {Request(r)}
        /\ \E h \in {NoTx, Len(txs')} : Mark(runs[r].for, h)
     \/ /\ Mark(runs[r].for, NoTx)
        /\ UNCHANGED <<open, asks, ledger>>
  /\ Ends(r) /\ Tells(r, TRUE)
  /\ UNCHANGED <<asks, books, watcher, admin, call>>

\* Any other wallet error, a host's timeout among them: the request may still
\* be answered, the reservation stays
WalletFails(r) ==
  /\ At(r, "wallet")
  /\ ForgetUnsubmitted(runs[r].for)
  /\ Ends(r) /\ Tells(r, page.told)
  /\ UNCHANGED <<open, asks, ledger, books, watcher, admin, call>>

\* On a phone the call returns before Hub takes the document over
WalletRedirects(r) ==
  /\ At(r, "wallet")
  /\ Mark(runs[r].for, NoTx)
  /\ Unloaded
  /\ UNCHANGED <<open, asks, ledger, books, watcher, admin>>

\* A request nobody waits for any more is paid or closed
LateAnswer(q) ==
  /\ q \in open
  /\ \A r \in Runs : ~(At(r, "wallet") /\ Request(r) = q)
  /\ open' = open \ {q}
  /\ Broadcast(q[2]) \/ UNCHANGED ledger
  /\ UNCHANGED <<page, runs, rec, scope, asks, books, watcher, admin, call>>

-----------------------------------------------------------------------------
(* awaitRatingSaved and the shop's submitRating                             *)

\* awaitRatingSaved returns: the rating is saved
Saved(r) == Clear /\ Ends(r) /\ Tells(r, FALSE)
\* what goes wrong is nothing to a resumed page that is gone, nor to a check
Heedless(r) == runs[r].from = "check" \/ (runs[r].from = "recover" /\ ~runs[r].here)
\* its attempts are used up while the shop still answers "pending"
GivesUp(r) == IF Heedless(r) THEN Ends(r) /\ UNCHANGED <<page, rec, scope>>
              ELSE Mark(runs[r].for, NoTx) /\ Ends(r) /\ Tells(r, TRUE)
\* any other answer, or none
Refused(r) == IF Heedless(r) THEN Ends(r) /\ UNCHANGED <<page, rec, scope>>
              ELSE ForgetUnsubmitted(runs[r].for) /\ Ends(r) /\ Tells(r, page.told)
Asks(r) == At(r, "poll") /\ call = NoCall

\* the payment the shop finds for the request: the one named, else any unused
\* one; mined, and carrying the memo
Found(m, h) == {t \in Mined : Memo(t) = m /\ IF h # NoTx THEN t = h
                                              ELSE proved[t] = NoPurchase}

\* the identical rating is already saved: acknowledged without a payment
AlreadySaved(p, m, h) == /\ rating[p].memo = m
                         /\ h \in {NoTx, rating[p].tx}

SubmitKnown(r) ==
  /\ Asks(r)
  /\ AlreadySaved(runs[r].for, runs[r].memo, runs[r].hash)
  /\ Saved(r)
  /\ UNCHANGED <<open, asks, ledger, books, watcher, admin, call>>

\* the chain is asked once the memo is reserved
Search(p, m, h, r) ==
  \/ Found(m, h) = {} /\ call' = NoCall
  \/ \E t \in Found(m, h) :
       call' = [NoCall EXCEPT !.at = "record", !.for = p, !.memo = m, !.tx = t, !.run = r]

Submit(r) ==
  LET p == runs[r].for
      m == runs[r].memo
  IN /\ Asks(r)
     /\ ~AlreadySaved(p, m, runs[r].hash)
     /\ Prepared(p, m) /\ ~Busy(p, m)
     /\ IF intent[m] = NoIntent THEN Open(r, "submit") ELSE Search(p, m, runs[r].hash, r)
     /\ UNCHANGED <<browser, ledger, books, watcher, admin>>

\* what the request goes on with
Granted ==
  \/ /\ call.at = "submit"
     /\ Search(call.for, call.memo, call.tx, call.run)
     /\ UNCHANGED <<runs, open, asks>>
  \/ /\ call.at = "intent" /\ call' = NoCall
     /\ IF call.run # NoOne THEN ToWallet(call.run) ELSE UNCHANGED <<runs, open, asks>>

\* SaveRatingIntent commits
Persist ==
  /\ Reserving /\ ~call.stale
  /\ Reserve(call.for, call.memo, call.older, call.saw)
  /\ Granted
  /\ UNCHANGED <<page, rec, scope, ledger, rating, proved, scan, watch, admin>>

\* the page hears that its request failed
Lost == CASE call.run = NoOne -> UNCHANGED <<page, runs, rec, scope>>
          [] call.run # NoOne /\ call.at = "intent" -> NoIntentLeft(call.run)
          [] call.run # NoOne /\ call.at # "intent" -> Refused(call.run)

\* SaveRatingIntent could not commit and runs again: with a new snapshot, or
\* somebody else's or its own reservation ends it; or it was the last attempt,
\* which awaitRatingSaved only takes for an outage
Retry ==
  /\ Reserving /\ call.stale
  /\ \/ /\ intent[call.memo] = NoIntent
        /\ call' = [call EXCEPT !.saw = Matching(call.memo), !.stale = FALSE]
        /\ UNCHANGED browser
     \/ /\ intent[call.memo].for = call.for
        /\ Granted
        /\ UNCHANGED <<page, rec, scope>>
     \/ /\ Busy(call.for, call.memo) \/ call.at = "intent"
        /\ Lost /\ call' = NoCall
        /\ UNCHANGED <<open, asks>>
     \/ /\ call.at = "submit" /\ call' = NoCall
        /\ UNCHANGED browser
  /\ UNCHANGED <<ledger, books, watcher, admin>>

\* the shop refuses (400, 403, 404, 409), or the request or its answer is lost
AskFails(r) ==
  /\ At(r, "poll")
  /\ Refused(r)
  /\ call' = Detached(r)
  /\ UNCHANGED <<open, asks, ledger, books, watcher, admin>>

\* thirty answers "pending" or "unavailable", or ninety seconds
AskEnds(r) ==
  /\ At(r, "poll") /\ call.run # r
  /\ GivesUp(r)
  /\ UNCHANGED <<open, asks, ledger, books, watcher, admin, call>>

\* the verified payment is written, unless the books have moved meanwhile
Record ==
  /\ call.at = "record"
  /\ call' = NoCall
  /\ IF Refusal(call.for, call.memo, call.tx) = "none"
     THEN /\ Apply(call.for, call.memo, call.tx)
          /\ IF call.run # NoOne THEN Saved(call.run) ELSE UNCHANGED <<page, runs, rec, scope>>
     ELSE UNCHANGED books /\ Lost
  /\ UNCHANGED <<open, asks, ledger, watcher, admin>>

-----------------------------------------------------------------------------
(* The watcher                                                              *)

Place(t) == IF t = NoTx THEN 0 ELSE CHOOSE i \in 1..Len(chain) : chain[i] = t
\* the entries of the next page: before the cursor, newest first
Newest == IF scan.before = NoTx THEN Len(chain) ELSE Place(scan.before) - 1
Read == {i \in 1..Newest : i + PageSize > Newest}
\* the entries of it that lie after the known head
Fresh == {i \in Read : i > Place(scan.head)}
Reached == scan.head # NoTx /\ Place(scan.head) \in Read
Quiet == watch.batch = {}

\* Seeded fault: the head moves to the newest payment with the first page
AdvanceEager ==
  IF Read = {} THEN scan
  ELSE [head |-> chain[Newest], target |-> NoTx, before |-> NoTx]

\* where the history stands after this page
Advance ==
  LET target == IF scan.target = NoTx /\ Read # {} THEN chain[Newest] ELSE scan.target
  IN IF Reached \/ Newest < PageSize            \* or a short page
     THEN [head |-> IF target = NoTx THEN scan.head ELSE target,
           target |-> NoTx, before |-> NoTx]
     ELSE [head |-> scan.head, target |-> target, before |-> chain[Newest + 1 - PageSize]]

\* scan: one page into the inbox, with the position, in one transaction
ScanPage ==
  /\ Quiet
  /\ Advance # scan
  /\ scan' = Advance
  /\ inbox' = [t \in Txs |-> IF inbox[t] = "unseen" /\ \E i \in Fresh : chain[i] = t
                             THEN "pending" ELSE inbox[t]]
  /\ UNCHANGED <<browser, ledger, books, resting, filed, watch, admin, call>>

\* Seeded fault: an entry that failed is due again at once
DueAtOnce == {t \in Mined : inbox[t] = "pending"}
Due == {t \in Mined : inbox[t] = "pending" /\ t \notin resting}
First(t, S) == t \in S /\ \A u \in S : Place(t) <= Place(u)

\* the oldest of them, as many as one tick takes
Batch == {t \in Due : Cardinality({u \in Due : Place(u) < Place(t)}) < TickSize}

\* Tick: once a page brought nothing more, the entries that are due, oldest first
Tick ==
  /\ Quiet /\ Due # {} /\ Advance = scan
  /\ watch' = [Unread EXCEPT !.batch = Batch]
  /\ UNCHANGED <<browser, ledger, books, entries, scan, admin, call>>

This(t) == First(t, watch.batch)
NextEntry(t) == [Unread EXCEPT !.batch = watch.batch \ {t}]
File(t, status) == /\ inbox' = [inbox EXCEPT ![t] = status]
                   /\ resting' = resting \ {t}
                   /\ filed' = IF status = "unmatched" THEN filed \union {t} ELSE filed
Rest(t) == /\ resting' = resting \union {t}
           /\ UNCHANGED <<inbox, filed>>

\* reconcile begins: a payment that proved a rating is filed
Look(t) ==
  /\ This(t) /\ watch.at = "next"
  /\ \/ /\ proved[t] # NoPurchase
        /\ File(t, "applied")
        /\ watch' = NextEntry(t)
        /\ Writes({}, {}, {t})
     \/ /\ proved[t] = NoPurchase
        /\ watch' = [watch EXCEPT !.at = "proof"]
        /\ UNCHANGED <<entries, call>>
  /\ UNCHANGED <<browser, ledger, books, scan, admin>>

\* The node is asked for the payment (also for an entry it vouched for before,
\* which the code spares). It has not seen the block yet: the entry is put off
Unconfirmed(t) ==
  /\ This(t) /\ watch.at = "proof"
  /\ Rest(t)
  /\ watch' = NextEntry(t)
  /\ Writes({}, {}, {t})
  /\ UNCHANGED <<browser, ledger, books, scan, admin>>

\* it answers with an error: the tick ends, the entry is due again at once
NodeFails(t) ==
  /\ This(t) /\ watch.at = "proof"
  /\ watch' = Unread
  /\ UNCHANGED <<browser, ledger, books, entries, scan, admin, call>>

\* legacyIntent: the one purchase that was delivered when the payment was made
Only(t) == {p \in seen[t] : Cardinality(seen[t]) = 1}

\* it vouches for the payment: the reservation of its memo is read, or made.
\* Only the watcher files payments, so none comes between its own snapshot and
\* its commit
Match(t) ==
  /\ This(t) /\ watch.at = "proof"
  /\ \/ /\ intent[Memo(t)] = NoIntent
        /\ \E p \in Only(t) : Reserve(p, Memo(t), {}, Matching(Memo(t)))
        /\ Writes({Memo(t)}, {}, Wanted(Memo(t)))
     \/ /\ intent[Memo(t)] # NoIntent \/ Only(t) = {}
        /\ UNCHANGED <<intent, entries, call>>
  /\ watch' = [watch EXCEPT !.at = "intent",
                            !.for = intent'[Memo(t)].for,
                            !.older = t \in intent'[Memo(t)].older]
  /\ UNCHANGED <<browser, ledger, rating, proved, scan, admin>>

\* Seeded fault: the reservation is not looked up again when the entry is filed
UnmatchedBlindly(t) == File(t, "unmatched")
\* SaveRatingChainInbox: nobody wants the payment, unless somebody does by now
Unmatched(t) == IF intent[Memo(t)] # NoIntent THEN File(t, "pending") ELSE File(t, "unmatched")

\* reconcile ends: what becomes of the entry
Settle(t) ==
  LET p == watch.for
      m == Memo(t)
      why == Refusal(p, m, t)
  IN /\ This(t) /\ watch.at = "intent"
     /\ \/ /\ p = NoPurchase
           /\ Unmatched(t)
           /\ watch' = NextEntry(t)
           /\ Writes({}, {}, {t})
           /\ UNCHANGED books
        \/ /\ p # NoPurchase /\ watch.older
           /\ File(t, "ignored")
           /\ watch' = NextEntry(t)
           /\ Writes({}, {}, {t})
           /\ UNCHANGED books
        \/ /\ p # NoPurchase /\ ~watch.older /\ why = "none"
           /\ Apply(p, m, t)
           /\ File(t, "applied")
           /\ watch' = NextEntry(t)
           /\ Writes({m}, {p}, {t})
        \/ /\ p # NoPurchase /\ ~watch.older /\ why = "used"
           /\ File(t, "applied")
           /\ watch' = NextEntry(t)
           /\ Writes({}, {}, {t})
           /\ UNCHANGED books
        \/ /\ p # NoPurchase /\ ~watch.older /\ why \in {"repeat", "limit"}
           /\ File(t, "ignored")
           /\ Release(m)
           /\ watch' = NextEntry(t)
           /\ Writes({m}, {}, {t})
           /\ UNCHANGED <<rating, proved>>
        \/ /\ p # NoPurchase /\ ~watch.older /\ why \in {"conflict", "comments_off"}
           /\ Rest(t)
           /\ watch' = Unread                  \* the tick ends with the error
           /\ Writes({}, {}, {t})
           /\ UNCHANGED books
     /\ UNCHANGED <<browser, ledger, scan, admin>>

\* the shop stops between the saved rating and the filed entry
SettleCut(t) ==
  /\ This(t) /\ watch.at = "intent"
  /\ watch.for # NoPurchase /\ ~watch.older
  /\ Refusal(watch.for, Memo(t), t) = "none"
  /\ Apply(watch.for, Memo(t), t)
  /\ watch' = Unread
  /\ Lost /\ call' = NoCall
  /\ UNCHANGED <<open, asks, ledger, entries, scan, delivered, commentsOn, switches>>

\* the attempt a resting entry waits for comes due
Wake(t) ==
  /\ t \in resting
  /\ resting' = resting \ {t}
  /\ UNCHANGED <<browser, ledger, books, inbox, filed, scan, watch, admin, call>>

-----------------------------------------------------------------------------
(* The world around                                                         *)

\* a broadcast payment is included in a block
Mine(t) ==
  /\ t \in 1..Len(txs) /\ t \notin Mined
  /\ chain' = Append(chain, t)
  /\ seen' = [seen EXCEPT ![t] = delivered]
  /\ UNCHANGED <<browser, txs, books, watcher, admin, call>>

Deliver(p) ==
  /\ p \notin delivered
  /\ delivered' = delivered \union {p}
  /\ UNCHANGED <<browser, ledger, books, watcher, commentsOn, switches, call>>

Switch ==
  /\ switches < MaxSwitches
  /\ switches' = switches + 1
  /\ commentsOn' = ~commentsOn
  /\ UNCHANGED <<browser, ledger, books, watcher, delivered, call>>

\* the shop restarts: the tick and the request it was working on are lost
Restart ==
  /\ watch' = Unread
  /\ Lost /\ call' = NoCall
  /\ UNCHANGED <<open, asks, ledger, books, entries, scan, delivered, commentsOn, switches>>

Init ==
  /\ page = Away /\ runs = [r \in Runs |-> NoRun] /\ rec = [p \in Purchases |-> NoRec]
  /\ scope = NoPurchase /\ open = {} /\ asks = 0
  /\ txs = <<>> /\ chain = <<>> /\ seen = [t \in Txs |-> {}]
  /\ delivered = {} /\ commentsOn = TRUE /\ switches = 0
  /\ intent = [m \in Memos |-> NoIntent]
  /\ rating = [p \in Purchases |-> [memo |-> NoMemo, tx |-> NoTx, edits |-> 0]]
  /\ proved = [t \in Txs |-> NoPurchase]
  /\ inbox = [t \in Txs |-> "unseen"] /\ resting = {} /\ filed = {}
  /\ scan = [head |-> NoTx, target |-> NoTx, before |-> NoTx]
  /\ watch = Unread /\ call = NoCall

Browser == \/ \E p \in Purchases : Visit(p) \/ Expire(p)
           \/ \E m \in Memos : Rate(m)
           \/ Leave \/ Unload \/ Check \/ Persist \/ Retry \/ Record
           \/ \E r \in Runs :
                \/ Intent(r) \/ IntentFails(r)
                \/ WalletPays(r) \/ WalletDenies(r) \/ WalletUnknown(r)
                \/ WalletFails(r) \/ WalletRedirects(r)
                \/ SubmitKnown(r) \/ Submit(r) \/ AskFails(r) \/ AskEnds(r)
           \/ \E q \in Purchases \X Memos : LateAnswer(q)
Watcher == \/ ScanPage \/ Tick
           \/ \E t \in Txs : \/ Look(t) \/ Unconfirmed(t) \/ NodeFails(t) \/ Match(t)
                             \/ Settle(t) \/ SettleCut(t) \/ Wake(t)
World == \/ \E t \in Txs : Mine(t)
         \/ \E p \in Purchases : Deliver(p)
         \/ Switch \/ Restart

Next == Browser \/ Watcher \/ World
Spec == Init /\ [][Next]_vars

\* The watcher runs every 30 seconds, a mined payment is at last confirmed by
\* every node without an error, a resting entry waits five minutes, long enough
\* for the entries behind it to get a tick, and the shop at last stays up.
Trouble == Restart \/ \E t \in Txs : Unconfirmed(t) \/ NodeFails(t) \/ SettleCut(t)
Fairness ==
  /\ WF_<<scan, watch>>(ScanPage \/ \E t \in Txs : Look(t) \/ Match(t) \/ Settle(t))
  /\ \A t \in Txs : SF_watch(First(t, Due) /\ Tick) /\ WF_resting(Wake(t))
  /\ <>[][~Trouble]_<<watch, call>>
FairSpec == Spec /\ Fairness

-----------------------------------------------------------------------------
(* Properties                                                               *)

SomePurchase == Purchases \union {NoPurchase}
PageType == {Away} \union [at : Purchases, memo : Memos \union {NoMemo}, told : BOOLEAN]
RunType == {NoRun} \union
  [at : {"intent", "wallet", "poll"}, for : Purchases, memo : Memos, hash : 0..MaxTxs,
   from : {"submit", "recover", "check"}, here : BOOLEAN]
RecType == {NoRec} \union [memo : Memos, submitted : BOOLEAN, hash : 0..MaxTxs]
CallType == {NoCall} \union
  [at : {"intent", "submit", "record"}, for : Purchases, memo : Memos, tx : 0..MaxTxs,
   run : Runs \union {NoOne}, older : SUBSET Txs, saw : SUBSET Txs, stale : BOOLEAN]

BrowserOK == /\ page \in PageType /\ runs \in [Runs -> RunType]
             /\ rec \in [Purchases -> RecType] /\ scope \in SomePurchase
             /\ open \subseteq Purchases \X Memos /\ asks \in 0..MaxAsks
LedgerOK == /\ txs \in Seq(Memos) /\ Len(txs) <= MaxTxs
            /\ chain \in Seq(1..Len(txs)) /\ IsInjective(chain)
            /\ seen \in [Txs -> SUBSET Purchases]
BooksOK == /\ intent \in [Memos -> [for : SomePurchase, older : SUBSET Txs]]
           /\ rating \in [Purchases -> [memo : Memos \union {NoMemo}, tx : 0..MaxTxs,
                                        edits : 0..MaxRatings]]
           /\ proved \in [Txs -> SomePurchase]
           /\ \A t \in Txs : proved[t] # NoPurchase => t \in Mined
WatcherOK == /\ inbox \in [Txs -> {"unseen", "pending", "unmatched", "applied", "ignored"}]
             /\ \A t \in Txs : inbox[t] # "unseen" => t \in Mined
             /\ resting \subseteq {t \in Txs : inbox[t] = "pending"}
             /\ {t \in Txs : inbox[t] = "unmatched"} \subseteq filed /\ filed \subseteq Mined
             /\ scan \in [head : 0..MaxTxs, target : 0..MaxTxs, before : 0..MaxTxs]
             /\ {scan.head, scan.target, scan.before} \subseteq Mined \union {NoTx}
             /\ watch \in [batch : SUBSET Txs, at : {"next", "proof", "intent"},
                            for : SomePurchase, older : BOOLEAN]
             /\ watch.batch \subseteq {t \in Txs : inbox[t] = "pending"}
AdminOK == /\ delivered \subseteq Purchases /\ commentsOn \in BOOLEAN
           /\ switches \in 0..MaxSwitches
CallOK == /\ call \in CallType
          /\ call.at = "record" => call.tx \in Mined /\ Memo(call.tx) = call.memo

\* The kinds of values the browser, the store and the watcher keep; what proved
\* a rating, rests or waits in the inbox was mined, and mined once.
TypeOK == BrowserOK /\ LedgerOK /\ BooksOK /\ WatcherOK /\ AdminOK /\ CallOK

\* A rating on the page is the one its payment spells, that payment proved this
\* purchase and no other, and every rating given to a purchase was paid by a
\* payment of its own: page, watcher and a restart between their two
\* transactions never count one payment twice (ApplyRating, ratings.go).
RatingsArePaid ==
  \A p \in Purchases :
    /\ rating[p].edits = Cardinality({t \in Txs : proved[t] = p})
    /\ rating[p].memo # NoMemo =>
         /\ rating[p].tx \in Mined /\ proved[rating[p].tx] = p
         /\ Memo(rating[p].tx) = rating[p].memo

\* The watcher never skips a payment: whatever lies at or below the head of its
\* history is in the inbox, however the pages, new payments and restarts fell
\* (scan and SaveRatingChainPage, worker.go).
HistoryIsIndexed ==
  \A i \in 1..Place(scan.head) : inbox[chain[i]] # "unseen"

Asleep(t) == inbox[t] = "unmatched" /\ intent[Memo(t)] # NoIntent

\* A payment put aside because nobody wanted it comes to sleep under a reserved
\* memo in one way only: it was filed for the first time after the snapshot of
\* the very transaction that then reserved its memo. Whatever was filed before
\* is woken or makes that transaction run again, and no other reservation,
\* refiling, release or restart loses one (SaveRatingChainInbox and
\* SaveRatingIntent, rating_watch.go).
OnlyPhantomsSleep ==
  [][\A t \in Txs : ~Asleep(t) /\ Asleep(t)' =>
       Reserving /\ call.memo = Memo(t) /\ t \notin call.saw /\ Persist]_vars

\* "An earlier payment can have arrived before this intent was persisted. Wake
\* its durable inbox record" (rating_watch.go:71): no payment sleeps under a
\* reserved memo. The race above refutes it.
UnmatchedIsUnwanted == \A t \in Txs : ~Asleep(t)

\* A pending record whose payment was submitted is given up only by a run that
\* ends, and only because the rating it asked for is saved or because its own
\* memo could not be reserved: no refusal, outage, unknown outcome of the
\* wallet, declined request, change of page or restart drops one, whichever
\* purchases the runs of the tab are for (RatingFlow.tsx, ratingPay.ts).
RefusalsKeep ==
  [][\A p \in Purchases : Submitted(p) /\ rec'[p] = NoRec =>
       \E r \in Runs : /\ runs[r] # NoRun /\ runs'[r] = NoRun
                       /\ \/ At(r, "intent")
                          \/ rating'[runs[r].for].memo = runs[r].memo]_vars

\* Every mined payment is in the end applied, ignored as a duplicate or put
\* aside as unmatched, unless its comment meets a closed comment switch
\* (Tick and reconcile, worker.go).
PaymentsAreSettled ==
  \A t \in Txs :
    t \in Mined ~> \/ inbox[t] \in {"applied", "ignored", "unmatched"}
                   \/ t \in Mined /\ Memo(t) \in Commented /\ ~commentsOn

\* A submitted record is given up only for its own saved rating. With one run in
\* the tab it holds; a run that ends for another purchase breaks it, and so does
\* a run of the same purchase whose reservation fails after an older run marked
\* the newer record (clearPendingRating, ratingPay.ts:95).
SubmittedIsKept ==
  [][\A p \in Purchases : Submitted(p) /\ rec'[p] = NoRec => rating'[p].memo = rec[p].memo]_vars

\* What the browser holds of a paid, unsaved review is never dropped by what
\* happens to another purchase (ratingPay.ts:178).
OtherReviewsAreKept ==
  [][\A p \in Purchases :
       /\ rec[p].hash # NoTx /\ rec'[p] = NoRec
       /\ \A r \in Runs : runs[r].for = p => runs'[r] = runs[r]
       => rating'[p].memo = rec[p].memo]_vars
=============================================================================
