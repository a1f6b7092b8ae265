---------------------------- MODULE QuoteLifecycle ----------------------------
(***************************************************************************)
(* One purchase from its write-ahead intent to its end: the quote record   *)
(* (db/quotes.go, db/checkout_safety.go) and everyone who writes it: the   *)
(* checkout handler (handlers/checkout_guard.go), the settlement tracker   *)
(* (settlement/track.go), and the readers of supplier answers: webhook,    *)
(* refresh, wallet launch, lapsed-invoice question, admin sync and cancel. *)
(*                                                                         *)
(* Every store transaction, every supplier call and every read of a quote  *)
(* that a later write relies on is a step of its own; an actor holds what  *)
(* it read in between, and loses it in a crash.  The grace and stale       *)
(* delays of the tracker may have passed at any moment.                    *)
(***************************************************************************)
EXTENDS SupplierOrder

CONSTANTS
  Quotes,           \* purchases
  Tracker,          \* the settlement tracker's goroutine
  Observers,        \* requests that read a supplier answer and apply it
  Requests,         \* the kinds of request that come in
  MaxStamp,         \* bound on the supplier's timestamps; 0: it sends none
  MayDeny,          \* the supplier may answer 404 for an order that exists
  WindowCloses,     \* the 72 h late-money window may close
  CalmsDown,        \* failures end some day (needed for liveness only)
  NoQuote, NoAnswer, NoOrder

ASSUME ActorsAssumption ==
  /\ Tracker \notin Quotes \cup Observers
  /\ Quotes \cap Observers = {}
ASSUME QuoteBoundsAssumption ==
  /\ Requests \subseteq {"observe", "lapsed", "launch", "cancel", "resolve"}
  /\ MaxStamp \in Nat /\ MayDeny \in BOOLEAN /\ WindowCloses \in BOOLEAN
  /\ CalmsDown \in BOOLEAN

Answer == [state : SupplierStates, money : BOOLEAN, at : 0 .. MaxStamp]
ASSUME QuoteMarkersAssumption ==
  NoQuote \notin Quotes /\ NoAnswer \notin Answer /\ NoOrder \notin Answer

\* The checkout request of quote q is the actor q itself.
Actors == Quotes \cup {Tracker} \cup Observers

Quote == [status : QuoteStatuses \cup {"absent"},
          sent : BOOLEAN,     \* SupplierRequestAt, and OrderAttempts = 1
          linked : BOOLEAN,   \* SupplierOrderID
          invoice : BOOLEAN,  \* WalletAddress and the amount
          state : SupplierStates \cup {"none"}, \* SupplierStatus
          at : 0 .. MaxStamp,                   \* SupplierUpdatedAt
          seen : BOOLEAN,     \* PaymentObserved
          held : BOOLEAN,     \* PaymentBlocked
          unknown : BOOLEAN]  \* SupplierUnknownAt

Stages == {"new", "idle", "claim", "call", "fail", "record", "attach", "hold",
           "apply", "told", "launch", "cancel", "sweep", "unknown", "review"}
Actor == [at : Stages, q : Quotes \cup {NoQuote}, ans : Answer \cup {NoAnswer},
          then : Stages]

VARIABLES
  quote,    \* the durable quotes
  clock,    \* each quote's payment window: open, lapsed, aged (72 h later)
  actor,    \* what each actor is about to do, with what it read
  order,    \* the supplier's own record of each quote's order
  posts,    \* order creations that left the shop, per quote
  calm      \* no crash and no failing store, call or supplier from now on

vars == <<quote, clock, actor, order, posts, calm>>

Idle == [at |-> "idle", q |-> NoQuote, ans |-> NoAnswer, then |-> "idle"]
NewQuote == [status |-> "absent", sent |-> FALSE, linked |-> FALSE,
             invoice |-> FALSE, state |-> "none", at |-> 0, seen |-> FALSE,
             held |-> FALSE, unknown |-> FALSE]

Init ==
  /\ quote = [q \in Quotes |-> NewQuote]
  /\ clock = [q \in Quotes |-> "open"]
  /\ actor = [a \in Actors |->
                IF a \in Quotes THEN [Idle EXCEPT !.at = "new", !.q = a]
                ELSE Idle]
  /\ order = [q \in Quotes |-> NoOrder]
  /\ posts = [q \in Quotes |-> 0]
  /\ calm = FALSE

-----------------------------------------------------------------------------
(* The quote record.                                                       *)

\* transitionQuote with a mutation: re-entry is allowed until the quote is
\* settled.
CanTransition(q, to) ==
  \/ to \in quoteTransitions(quote[q].status)
  \/ to = quote[q].status /\ to \notin Settled

\* A conflict leaves the quote as it is.
Transition(q, to) ==
  quote' = [quote EXCEPT ![q] =
              IF CanTransition(q, to) THEN [@ EXCEPT !.status = to] ELSE @]

HasPaymentEvidence(q) ==
  quote[q].seen \/ quote[q].held \/ IsPaidOrBeyond(quote[q].state)

BlocksNewPurchase(q) ==
  LET r == quote[q] IN
  \/ r.status \in {"order_creating", "payment_started", "payment_received",
                   "delivering"}
  \/ r.status = "awaiting_payment" /\ (clock[q] = "open" \/ HasPaymentEvidence(q))
  \/ r.status = "expired" /\ r.linked /\ r.seen
  \/ r.status = "failed" /\ r.linked /\ (r.seen \/ r.state # "PaymentSetupFailed")

LapsedUnpaidInvoice(q) ==
  /\ quote[q].status \notin {"absent", "payment_received", "delivering",
                             "manual_review", "fulfilled", "refunded"}
  /\ ~quote[q].seen /\ ~quote[q].held
  /\ clock[q] # "open"

\* Seeded fault: a local expiry closes the question of late money.
NeedsSupplierPollUnexpired(q) ==
  LET r == quote[q] IN
  /\ r.linked /\ r.status \notin Settled /\ ~r.unknown
  /\ r.status = "expired" => r.seen
  /\ r.status = "failed" => r.seen \/ r.state # "PaymentSetupFailed"

NeedsSupplierPoll(q) ==
  LET r == quote[q] IN
  /\ r.linked /\ r.status \notin Settled /\ ~r.unknown
  /\ r.status = "expired" => r.seen \/ clock[q] # "aged"
  /\ r.status = "failed" => r.seen \/ r.state # "PaymentSetupFailed"

CanPay(q) ==
  LET r == quote[q] IN
  /\ r.status = "awaiting_payment" /\ ~r.held /\ ~r.seen
  /\ r.invoice /\ r.linked
  /\ clock[q] = "open"
  /\ r.state \in {"none", "Waiting"}

\* Seeded fault: the supplier's timestamp is not looked at.
IsStaleUnstamped(q, ans) ==
  LET r == quote[q] local == MapToQuoteStatus(ans.state) IN
  \/ /\ local = r.status /\ r.state = ans.state
     /\ MoneyObserved(ans) => r.seen
  \/ local = "awaiting_payment" /\ (r.seen \/ r.held)

\* ApplySupplierOrder: an older answer, one that says nothing new, and one
\* that would offer a payment again are dropped.
IsStale(q, ans) ==
  LET r == quote[q] local == MapToQuoteStatus(ans.state) IN
  \/ ans.at # 0 /\ ans.at < r.at
  \/ /\ local = r.status /\ r.state = ans.state
     /\ MoneyObserved(ans) => r.seen
  \/ local = "awaiting_payment" /\ (r.seen \/ r.held)

\* ApplySupplierOrder returns true exactly here.
Changed(q, ans) ==
  /\ CanTransition(q, MapToQuoteStatus(ans.state))
  /\ quote[q].linked
  /\ ~IsStale(q, ans)

\* The quote r after the supplier's answer is accepted.
Updated(r, ans) ==
  [r EXCEPT !.status = MapToQuoteStatus(ans.state), !.state = ans.state,
            !.at = IF ans.at = 0 THEN r.at ELSE ans.at,
            !.seen = r.seen \/ MoneyObserved(ans), !.unknown = FALSE]

\* Seeded fault: the last answer overwrites the money evidence.
ApplySupplierOrderForgetful(q, ans) ==
  quote' = [quote EXCEPT ![q] =
    IF Changed(q, ans)
    THEN [Updated(@, ans) EXCEPT !.seen = MoneyObserved(ans)]
    ELSE [@ EXCEPT !.unknown = FALSE]]

\* Seeded fault: the supplier's own word is stored as the shop's status.
ApplySupplierOrderRaw(q, ans) ==
  quote' = [quote EXCEPT ![q] =
    IF Changed(q, ans)
    THEN [Updated(@, ans) EXCEPT !.status = ans.state]
    ELSE [@ EXCEPT !.unknown = FALSE]]

\* ApplySupplierOrderNotify: the 404 marker is cleared whatever the answer
\* changes.
ApplySupplierOrder(q, ans) ==
  quote' = [quote EXCEPT ![q] = IF Changed(q, ans) THEN Updated(@, ans)
                                ELSE [@ EXCEPT !.unknown = FALSE]]

-----------------------------------------------------------------------------
(* Actors.                                                                 *)

Goto(a, rec) == actor' = [actor EXCEPT ![a] = rec]
GoIdle(a) == Goto(a, Idle)
GoTo(a, stage) == Goto(a, [actor[a] EXCEPT !.at = stage])

\* An actor that held nothing has something to do about q.
TakeUp(a, stage, q, then) ==
  Goto(a, [at |-> stage, q |-> q, ans |-> NoAnswer, then |-> then])

\* The actor hands the rest of the request to the hold: nothing is applied.
GoHold(a) == Goto(a, [actor[a] EXCEPT !.at = "hold", !.ans = NoAnswer])

At(a, stage) == actor[a].at = stage
QuoteOf(a) == actor[a].q

\* A read of an order may be answered 404 although it exists.
NotFound == MayDeny /\ ~calm

Supplierless == UNCHANGED <<order, posts, calm>>
QuotesSame == UNCHANGED <<quote, clock>>

\* CreateQuoteWithPurchaseLimits: the write-ahead intent.
CreateIntent(q) ==
  /\ At(q, "new")
  /\ quote' = [quote EXCEPT ![q].status = "order_creating"]
  /\ GoTo(q, "claim")
  /\ UNCHANGED clock /\ Supplierless

\* Seeded fault: the dispatch claim ignores an earlier claim.
CanClaimAgain(q) == quote[q].status = "order_creating" /\ ~quote[q].linked

CanClaim(q) ==
  quote[q].status = "order_creating" /\ ~quote[q].sent /\ ~quote[q].linked

\* MarkSupplierRequestStarted, by the handler or by the tracker's redelivery.
\* A failing store sends the handler, not the tracker, to a hold.
ClaimDispatch(a) ==
  /\ At(a, "claim")
  /\ \/ /\ CanClaim(QuoteOf(a))
        /\ quote' = [quote EXCEPT ![QuoteOf(a)].sent = TRUE]
        /\ GoTo(a, "call")
     \/ /\ ~CanClaim(QuoteOf(a))
        /\ GoIdle(a) /\ UNCHANGED quote
     \/ /\ ~calm
        /\ IF a = Tracker THEN GoIdle(a) ELSE GoHold(a)
        /\ UNCHANGED quote
  /\ UNCHANGED clock /\ Supplierless

\* What a creation the supplier accepted may say of the new order.
Created == {[state |-> s, money |-> IsPaidOrBeyond(s),
             at |-> IF MaxStamp = 0 THEN 0 ELSE 1] :
              s \in {"Waiting", "PaymentReceived", "PaymentSetupFailed"}}

\* Seeded fault: a lost answer counts as a refusal.
CallSupplierUnsure(a) ==
  LET q == QuoteOf(a) IN
  /\ At(a, "call")
  /\ posts' = [posts EXCEPT ![q] = @ + 1]
  /\ \/ order' = order /\ GoTo(a, "fail")
     \/ \E new \in Created :
          /\ order' = [order EXCEPT ![q] = new]
          /\ \/ Goto(a, [actor[a] EXCEPT !.at = "record", !.ans = new])
             \/ ~calm /\ GoTo(a, "fail")
  /\ UNCHANGED calm /\ QuotesSame

\* CreateOrder: refused for certain, accepted and answered, or ambiguous, the
\* order existing or not.  Only the certain refusal fails the quote.  A request
\* refused for its key (401, 403) has created nothing; the client sends it once
\* more under the backup key, and the two are one call here.
CallSupplier(a) ==
  LET q == QuoteOf(a) IN
  /\ At(a, "call")
  /\ posts' = [posts EXCEPT ![q] = @ + 1]
  /\ \/ order' = order /\ GoTo(a, "fail")
     \/ \E new \in Created :
          /\ order' = [order EXCEPT ![q] = new]
          /\ \/ Goto(a, [actor[a] EXCEPT !.at = "record", !.ans = new])
             \/ ~calm /\ GoIdle(a)
     \/ ~calm /\ order' = order /\ GoIdle(a)
  /\ UNCHANGED calm /\ QuotesSame

MarkSupplierFailure(a) ==
  /\ At(a, "fail")
  /\ \/ Transition(QuoteOf(a), "failed")
     \/ ~calm /\ UNCHANGED quote
  /\ GoIdle(a)
  /\ UNCHANGED clock /\ Supplierless

\* RecordSupplierOrder, then ValidatePayableOrder on the same answer: an
\* invoice is attached only to an order that still waits for money; otherwise
\* it is held, and what the answer says beyond waiting is applied after that.
RecordSupplierOrder(a) ==
  LET q == QuoteOf(a) ans == actor[a].ans IN
  /\ At(a, "record")
  /\ \/ /\ quote' = [quote EXCEPT ![q].linked = TRUE,
                       ![q].state = IF @ = "none" THEN ans.state ELSE @]
        /\ \/ /\ ans.state = "Waiting" /\ ~ans.money
              /\ Goto(a, [actor[a] EXCEPT !.at = "attach", !.ans = NoAnswer])
           \/ IF ans.state = "Waiting" THEN GoHold(a) ELSE GoTo(a, "hold")
     \/ /\ ~calm
        /\ GoHold(a) /\ UNCHANGED quote
  /\ UNCHANGED clock /\ Supplierless

\* The first attachment opens the supplier's payment window.
AttachQuotePayment(a) ==
  LET q == QuoteOf(a) IN
  /\ At(a, "attach")
  /\ IF CanTransition(q, "awaiting_payment")
     THEN /\ quote' = [quote EXCEPT ![q].status = "awaiting_payment",
                                    ![q].invoice = TRUE]
          /\ clock' = IF quote[q].invoice THEN clock
                      ELSE [clock EXCEPT ![q] = "open"]
          /\ GoIdle(a)
     ELSE GoHold(a) /\ QuotesSame
  /\ Supplierless

AttachFails(a) ==
  /\ At(a, "attach") /\ ~calm
  /\ GoHold(a)
  /\ QuotesSame /\ Supplierless

\* HoldQuote.  The handler gives up when the hold fails; the tracker goes on.
Hold(a) ==
  LET q == QuoteOf(a) held == CanTransition(q, "manual_review") IN
  /\ At(a, "hold")
  /\ \/ /\ quote' = [quote EXCEPT ![q] =
                       IF held THEN [@ EXCEPT !.status = "manual_review",
                                              !.held = TRUE] ELSE @]
        /\ IF actor[a].ans # NoAnswer /\ (held \/ a = Tracker)
           THEN GoTo(a, "apply") ELSE GoIdle(a)
     \/ ~calm /\ GoIdle(a) /\ UNCHANGED quote
  /\ UNCHANGED clock /\ Supplierless

\* A supplier answer reaches the store; the actor then does what it came for.
Apply(a) ==
  LET stage == actor[a].then IN
  /\ At(a, "apply")
  /\ \/ /\ ApplySupplierOrder(QuoteOf(a), actor[a].ans)
        /\ IF stage = "idle" THEN GoIdle(a)
           ELSE Goto(a, [actor[a] EXCEPT !.at = stage, !.then = "idle",
                                         !.ans = NoAnswer])
     \/ ~calm /\ GoIdle(a) /\ UNCHANGED quote
  /\ UNCHANGED clock /\ Supplierless

ApplyAnswer(a, q, stage) ==
  Goto(a, [at |-> "apply", q |-> q, ans |-> order[q], then |-> stage])

\* MarkQuoteManualReview by the tracker.
Review(a) ==
  /\ At(a, "review")
  /\ \/ Transition(QuoteOf(a), "manual_review")
     \/ ~calm /\ UNCHANGED quote
  /\ GoIdle(a)
  /\ UNCHANGED clock /\ Supplierless

\* MarkSupplierOrderUnknown.
MarkUnknown(a) ==
  /\ At(a, "unknown")
  /\ quote' = [quote EXCEPT ![QuoteOf(a)].unknown = TRUE]
  /\ IF actor[a].then = "idle" THEN GoIdle(a)
     ELSE Goto(a, [actor[a] EXCEPT !.at = actor[a].then, !.then = "idle"])
  /\ UNCHANGED clock /\ Supplierless

-----------------------------------------------------------------------------
(* The tracker.  A tick reads quotes from lists and handles them one by    *)
(* one, so its writes may follow a read that is no longer true.            *)

TrackerIdle == At(Tracker, "idle")
TrackerTo(stage, q, then) == TakeUp(Tracker, stage, q, then)

\* SweepExpiredQuotes: the list.
SweepRead(q) ==
  /\ TrackerIdle
  /\ quote[q].status = "awaiting_payment" /\ clock[q] # "open"
  /\ quote[q].linked => ~quote[q].seen /\ ~IsPaidOrBeyond(quote[q].state)
  /\ TrackerTo("sweep", q, "idle")
  /\ QuotesSame /\ Supplierless

\* SweepExpiredQuotes: the transition, which looks at the status alone.
SweepWrite ==
  /\ At(Tracker, "sweep")
  /\ quote' = [quote EXCEPT ![QuoteOf(Tracker)] =
                 IF "expired" \in quoteTransitions(@.status)
                 THEN [@ EXCEPT !.status = "expired"] ELSE @]
  /\ GoIdle(Tracker)
  /\ UNCHANGED clock /\ Supplierless

\* No creation call is in the air: past the stale bound, which exceeds the
\* time limit of a call, none can be.
NoCallFor(q) == \A a \in Actors : ~(At(a, "call") /\ QuoteOf(a) = q)

\* Seeded fault: a request that left and was never answered is left alone.
ResolveCreatingUnanswered(q) ==
  /\ TrackerIdle
  /\ quote[q].status = "order_creating"
  /\ \/ /\ quote[q].linked
        /\ Goto(Tracker, [at |-> "record", q |-> q, ans |-> order[q],
                          then |-> "idle"])
     \/ /\ ~quote[q].linked /\ ~quote[q].sent
        /\ TrackerTo(IF clock[q] = "open" THEN "claim" ELSE "hold", q, "idle")
  /\ QuotesSame /\ Supplierless

\* resolveCreating: by what the intent shows, fetch and attach the order it is
\* linked to, redeliver a request that never left, hold one that is too old,
\* or put a request without an answer under review.
ResolveCreating(q) ==
  /\ TrackerIdle
  /\ quote[q].status = "order_creating"
  /\ \/ /\ quote[q].linked
        /\ Goto(Tracker, [at |-> "record", q |-> q, ans |-> order[q],
                          then |-> "idle"])
     \/ /\ ~quote[q].linked /\ ~quote[q].sent
        /\ TrackerTo(IF clock[q] = "open" THEN "claim" ELSE "hold", q, "idle")
     \/ /\ ~quote[q].linked /\ quote[q].sent /\ NoCallFor(q)
        /\ TrackerTo("review", q, "idle")
  /\ QuotesSame /\ Supplierless

MoneyPossible(q) ==
  \/ quote[q].seen
  \/ quote[q].status \in {"awaiting_payment", "payment_started",
                          "payment_received", "delivering"}

\* trackOne on a due quote: an answer, "no such order", or a refusal for good.
Poll(q) ==
  /\ TrackerIdle
  /\ quote[q].status \notin {"absent", "order_creating"} /\ NeedsSupplierPoll(q)
  /\ \/ ApplyAnswer(Tracker, q, "idle")
     \/ /\ NotFound
        /\ TrackerTo("unknown", q,
                     IF quote[q].status # "manual_review" /\ MoneyPossible(q)
                     THEN "review" ELSE "idle")
     \/ /\ ~calm /\ quote[q].status # "manual_review"
        /\ TrackerTo("review", q, "idle")
  /\ QuotesSame /\ Supplierless

-----------------------------------------------------------------------------
(* Requests that read the supplier.                                        *)

\* The webhook, RefreshQuote and AdminSyncOrder; the last one also marks a 404.
Observe(o, q) ==
  /\ "observe" \in Requests /\ At(o, "idle") /\ quote[q].linked
  /\ \/ ApplyAnswer(o, q, "idle")
     \/ /\ NotFound
        /\ TakeUp(o, "unknown", q, "idle")
  /\ QuotesSame /\ Supplierless

\* askSupplierAboutALapsedInvoice: an answer that shows money is applied, a 404
\* is marked, anything else is ignored.
AskLapsed(o, q) ==
  /\ "lapsed" \in Requests /\ At(o, "idle") /\ quote[q].linked
  /\ LapsedUnpaidInvoice(q)
  /\ quote[q].state = "none" \/ ~IsTerminal(quote[q].state)
  /\ \/ /\ MoneyObserved(order[q])
        /\ ApplyAnswer(o, q, "told")
     \/ /\ NotFound
        /\ TakeUp(o, "unknown", q, "idle")
  /\ QuotesSame /\ Supplierless

\* existingCheckout goes on with what it was told.
Told(o) == /\ At(o, "told") /\ GoIdle(o)
           /\ QuotesSame /\ Supplierless

\* PaymentLaunch: the invoice is read again before the wallet is opened.
Launch(o, q) ==
  /\ "launch" \in Requests /\ At(o, "idle") /\ CanPay(q)
  /\ ApplyAnswer(o, q, "launch")
  /\ QuotesSame /\ Supplierless

\* The answer shows another invoice than the one attached: hold the quote.
\* Otherwise the wallet opens, or not; neither changes the quote's state.
LaunchDecide(o) ==
  /\ At(o, "launch")
  /\ GoHold(o) \/ GoIdle(o)
  /\ QuotesSame /\ Supplierless

\* AdminCancelOrder: read, apply, then ask for the cancellation.
CancelRead(o, q) ==
  /\ "cancel" \in Requests /\ At(o, "idle") /\ quote[q].linked
  /\ \/ ApplyAnswer(o, q, "cancel")
     \/ /\ NotFound
        /\ TakeUp(o, "unknown", q, "idle")
  /\ QuotesSame /\ Supplierless

CanCancelPartnerOrder(q) ==
  LET r == quote[q] IN
  r.linked /\ ~r.unknown /\ ~r.seen /\ ~IsPaidOrBeyond(r.state)

\* The cancellation itself; the supplier refuses once it sees money, may not
\* know the order, and its answer may be lost.
Cancel(o) ==
  LET q == QuoteOf(o) IN
  /\ At(o, "cancel")
  /\ \/ /\ CanCancelPartnerOrder(q)
        /\ order[q].state = "Waiting" /\ ~order[q].money
        /\ \E t \in {order[q].at, order[q].at + 1} \cap 0 .. MaxStamp :
             /\ order' = [order EXCEPT ![q].state = "Expired", ![q].at = t]
             /\ \/ Goto(o, [actor[o] EXCEPT !.at = "apply", !.ans = order'[q],
                                            !.then = "idle"])
                \/ ~calm /\ GoIdle(o)
     \/ CanCancelPartnerOrder(q) /\ NotFound /\ order' = order
        /\ GoTo(o, "unknown")
     \/ order' = order /\ GoIdle(o)
  /\ UNCHANGED <<posts, calm>> /\ QuotesSame

\* AdminResolveQuote: an operator may only put a quote under review.
Resolve(o, q) ==
  /\ "resolve" \in Requests /\ At(o, "idle") /\ quote[q].status # "absent"
  /\ Transition(q, "manual_review")
  /\ UNCHANGED <<clock, actor>> /\ Supplierless

-----------------------------------------------------------------------------
(* The supplier and the world.                                             *)

SupplierMoves(q, to) ==
  /\ order[q] # NoOrder
  /\ CanSucceed(order[q], to)
  /\ \E t \in {order[q].at, order[q].at + 1} \cap 0 .. MaxStamp :
       order' = [order EXCEPT ![q] =
                   [state |-> to, at |-> t,
                    money |-> @.money \/ Funds(@.state, to)]]
  /\ UNCHANGED <<quote, clock, actor, posts, calm>>

\* The supplier works on an order it was paid for, and delivers it or returns
\* the money in the end.
SupplierSettles(q) == SupplierMoves(q, "Done") \/ SupplierMoves(q, "Refunded")
SupplierWorks(q) ==
  /\ order[q] # NoOrder /\ order[q].money
  /\ \E to \in SupplierStates \ {"Refunded"} : SupplierMoves(q, to)

TimePasses(q) ==
  /\ \/ clock[q] = "open" /\ clock' = [clock EXCEPT ![q] = "lapsed"]
     \/ /\ WindowCloses /\ clock[q] = "lapsed"
        /\ clock' = [clock EXCEPT ![q] = "aged"]
  /\ quote[q].status # "absent"
  /\ UNCHANGED <<quote, actor, order, posts, calm>>

\* The process dies and starts again; a request that has not come yet still may.
Crash ==
  /\ ~calm
  /\ actor' = [a \in Actors |-> IF At(a, "new") THEN actor[a] ELSE Idle]
  /\ actor' # actor
  /\ QuotesSame /\ Supplierless

Settle == /\ CalmsDown /\ ~calm /\ calm' = TRUE
          /\ UNCHANGED <<quote, clock, actor, order, posts>>

-----------------------------------------------------------------------------

\* What any actor may do next with what it holds.
Finish(a) ==
  \/ ClaimDispatch(a) \/ CallSupplier(a) \/ MarkSupplierFailure(a)
  \/ RecordSupplierOrder(a) \/ AttachQuotePayment(a) \/ AttachFails(a)
  \/ Hold(a) \/ Apply(a) \/ Review(a) \/ MarkUnknown(a)

TrackerStep ==
  \/ Finish(Tracker) \/ SweepWrite
  \/ \E q \in Quotes : SweepRead(q) \/ ResolveCreating(q) \/ Poll(q)

ObserverStep(o) ==
  \/ Finish(o) \/ Told(o) \/ LaunchDecide(o) \/ Cancel(o)
  \/ \E q \in Quotes : \/ Observe(o, q) \/ AskLapsed(o, q) \/ Launch(o, q)
                       \/ CancelRead(o, q) \/ Resolve(o, q)

WorldStep(q) ==
  \/ \E to \in SupplierStates : SupplierMoves(q, to)
  \/ TimePasses(q)

Next ==
  \/ \E q \in Quotes : CreateIntent(q) \/ Finish(q) \/ WorldStep(q)
  \/ TrackerStep
  \/ \E o \in Observers : ObserverStep(o)
  \/ Crash \/ Settle

Spec == Init /\ [][Next]_vars

\* The tracker's loop ticks forever and finishes what it began; the supplier
\* ends what it was paid for; crashes and failing calls end some day.
Fairness ==
  /\ WF_vars(TrackerStep)
  /\ WF_vars(Settle)
  /\ \A q \in Quotes : /\ WF_vars(Finish(q))
                       /\ WF_vars(SupplierWorks(q)) /\ WF_vars(SupplierSettles(q))

FairSpec == Spec /\ Fairness

-----------------------------------------------------------------------------
(* Properties.                                                             *)

\* Every record, actor and supplier order has the shape the code gives it.
TypeOK ==
  /\ quote \in [Quotes -> Quote]
  /\ clock \in [Quotes -> {"open", "lapsed", "aged"}]
  /\ actor \in [Actors -> Actor]
  /\ order \in [Quotes -> Answer \cup {NoOrder}]
  /\ posts \in [Quotes -> Nat]
  /\ calm \in BOOLEAN

\* However the handler, the tracker's redelivery and crashes interleave, at
\* most one order creation ever leaves the shop for one purchase (the supplier
\* has no idempotency key, track.go maxCreationAttempts).
DispatchedOnce == \A q \in Quotes : posts[q] <= 1

\* A purchase that failed without an order id was refused for certain: there is
\* no order at the supplier that a second purchase would duplicate
\* (CreateOutcomeAmbiguous).
RejectedNeverOrdered ==
  \A q \in Quotes :
    quote[q].status = "failed" /\ ~quote[q].linked => order[q] = NoOrder

\* Delivery, refund and money are only ever on record after the supplier has
\* them on its own record, whatever stale answers are still in the air
\* (AdminResolveQuote: outcomes come from verified supplier answers).
OutcomesAreReal ==
  \A q \in Quotes :
    /\ quote[q].status = "fulfilled" => order[q].state \in {"Done", "Refunded"}
    /\ quote[q].status = "refunded" => order[q].state = "Refunded"
    /\ quote[q].seen => order[q].money

\* Money evidence and a hold are for good, and a quote that has either is never
\* payable again (ApplySupplierOrder, HoldQuote, CanPay).
NeverPayableAgain ==
  [][\A q \in Quotes :
       /\ quote[q].seen => quote'[q].seen
       /\ quote[q].held => quote'[q].held
       /\ HasPaymentEvidence(q) /\ quote[q].invoice => ~CanPay(q)']_vars

\* An answer fetched earlier and applied later never overwrites a newer one: the
\* stamp on record only grows, and a settled quote keeps the answer that settled
\* it (errStaleSupplierObservation).
NewerAnswersStay ==
  [][\A q \in Quotes :
       /\ quote'[q].at >= quote[q].at
       /\ quote[q].status = "fulfilled" /\ quote'[q].state # quote[q].state =>
            quote'[q].status = "refunded"]_vars

\* A paid order the shop has the id of ends delivered or refunded, whatever
\* crashed before, as long as the supplier keeps showing it and the late-money
\* window is open.
MoneyIsSettled ==
  \A q \in Quotes :
    order[q] # NoOrder /\ order[q].money /\ quote[q].linked
      ~> quote[q].status \in Settled

\* No purchase stays in creation: a crash in the middle is resolved.
CreationIsResolved ==
  \A q \in Quotes :
    quote[q].status = "order_creating" ~> quote[q].status # "order_creating"

\* The outcome on the supplier's record, and the outcome on the shop's.
SupplierDone(o) ==
  CASE o # NoOrder /\ o.state = "Done" -> "delivered"
    [] o # NoOrder /\ o.state = "Refunded" -> "refunded"
    [] OTHER -> "open"
ShopBooked(r) ==
  CASE r.status = "fulfilled" -> "delivered"
    [] r.status = "refunded" -> "refunded"
    [] OTHER -> "open"

\* Whoever writes the quote, together they keep the abstract promise: one order
\* sent, each outcome booked once, in order, and after the supplier's.
Promise == INSTANCE PurchasePromise WITH
  orders <- posts,
  done <- [q \in Quotes |-> SupplierDone(order[q])],
  booked <- [q \in Quotes |-> ShopBooked(quote[q])]
ImplementsPromise == Promise!Spec

-----------------------------------------------------------------------------
(* What the repository's comments say of this code, and the code does not.  *)

\* "Money observed: the answer is applied here and the quote keeps blocking"
\* (askSupplierAboutALapsedInvoice): once the answer about a lapsed invoice is
\* applied, the old purchase blocks, is settled, or is under review.
MoneyKeepsBlocking ==
  [][\A o \in Observers :
       At(o, "apply") /\ actor[o].then = "told" /\ actor'[o].at = "told"
         /\ quote[QuoteOf(o)].invoice
       => \/ BlocksNewPurchase(QuoteOf(o))'
          \/ quote'[QuoteOf(o)].status \in Settled \cup {"manual_review"}]_vars

\* Clearing the 404 marker "makes a partner-key fix heal an order on its own"
\* (ApplySupplierOrderNotify): a paid order once answered 404 is settled after
\* the supplier shows it again.
KeyFixHeals ==
  \A q \in Quotes :
    quote[q].unknown /\ order[q] # NoOrder /\ order[q].money
      ~> quote[q].status \in Settled

=============================================================================
