------------------------- MODULE QuoteLifecycleProofs -------------------------
(***************************************************************************)
(* Proofs about one purchase and all its writers: types, one order at      *)
(* most, refusals that are certain, outcomes that are the supplier's, and  *)
(* the abstract promise, and that a purchase with evidence of money is     *)
(* never payable again, for any number of purchases, observers and         *)
(* timestamps.                                                             *)
(***************************************************************************)
EXTENDS QuoteLifecycle, TLAPS

-----------------------------------------------------------------------------
(* The inductive invariant.  DispatchedOnce alone is not inductive: it     *)
(* needs that only one actor can be about to call, that it claimed the     *)
(* dispatch, and that nothing was sent before.  OutcomesAreReal needs that *)
(* every answer still in somebody's hands is behind the supplier's record. *)

\* A supplier record with these states has the money.
Funded == {"PaymentStarted", "PaymentReceived", "WaitingForDelivery",
           "WaitingForManual", "Done", "Refunded"}

OrderOK(o) ==
  /\ o.state \in Funded => o.money
  /\ o.state = "PaymentSetupFailed" => ~o.money

\* What answer x says is not ahead of the supplier's record y.
Behind(x, y) ==
  /\ MoneyObserved(x) => y.money
  /\ x.state = "Done" => y.state \in {"Done", "Refunded"}
  /\ x.state = "Refunded" => y.state = "Refunded"
  /\ x.state = "PaymentSetupFailed" => y.state = "PaymentSetupFailed"

\* Quote record r, supplier record o and n creations sent agree.
Consistent(r, o, n) ==
  /\ n \in {0, 1}
  /\ n = 1 => r.sent
  /\ o # NoOrder => n = 1 /\ OrderOK(o)
  /\ r.linked => o # NoOrder
  /\ r.linked <=> r.state # "none"
  /\ r.seen => r.linked /\ o.money
  /\ IsPaidOrBeyond(r.state) => o.money
  /\ r.state = "PaymentSetupFailed" => o.state = "PaymentSetupFailed"
  /\ r.status = "failed" /\ ~r.linked => n = 1 /\ o = NoOrder
  /\ r.status = "fulfilled" =>
       r.state # "none" /\ o.state \in {"Done", "Refunded"}
  /\ r.status = "refunded" => r.linked /\ o.state = "Refunded"

Agreement == \A q \in Quotes : Consistent(quote[q], order[q], posts[q])

\* What actor a may hold about quote q.
Fits(a, rec, r, o, n) ==
  /\ rec.at = "new" => a \in Quotes /\ rec.q = a /\ r.status = "absent"
  /\ rec.at = "call" => r.sent /\ n = 0
  /\ rec.at = "fail" => n = 1 /\ o = NoOrder
  /\ rec.at \in {"record", "apply"} => rec.ans \in Answer
  /\ rec.ans # NoAnswer => o # NoOrder /\ Behind(rec.ans, o)

Held(a, rec) ==
  /\ rec.then \in {"idle", "told", "launch", "cancel", "review"}
  /\ rec = Idle \/
     (rec.q \in Quotes /\ Fits(a, rec, quote[rec.q], order[rec.q], posts[rec.q]))

Hands == \A a \in Actors : Held(a, actor[a])

\* Only one actor at a time is about to send a purchase's creation.
OneCaller ==
  \A a, b \in Actors :
    At(a, "call") /\ At(b, "call") /\ QuoteOf(a) = QuoteOf(b) => a = b

IInv == TypeOK /\ Agreement /\ Hands /\ OneCaller

-----------------------------------------------------------------------------
(* The supplier's states.                                                  *)

LEMMA MapFacts ==
  ASSUME NEW s \in SupplierStates
  PROVE  /\ MapToQuoteStatus(s) \in QuoteStatuses
         /\ MapToQuoteStatus(s) # "order_creating"
         /\ MapToQuoteStatus(s) = "fulfilled" => s = "Done"
         /\ MapToQuoteStatus(s) = "refunded" => s = "Refunded"
BY DEF MapToQuoteStatus, SupplierStates, QuoteStatuses

LEMMA TransitionFacts ==
  ASSUME NEW s \in QuoteStatuses \cup {"absent"}
  PROVE  /\ quoteTransitions(s) \subseteq QuoteStatuses
         /\ s = "absent" => quoteTransitions(s) = {}
         /\ s = "fulfilled" => quoteTransitions(s) = {"refunded"}
         /\ s = "refunded" => quoteTransitions(s) = {}
BY DEF quoteTransitions, QuoteStatuses

LEMMA NoFailBack == "failed" \notin quoteTransitions("failed")
BY DEF quoteTransitions

LEMMA BehindItself ==
  ASSUME NEW o \in Answer, OrderOK(o)
  PROVE  Behind(o, o)
BY DEF Behind, OrderOK, MoneyObserved, IsPaidOrBeyond, Funded

LEMMA BehindFurther ==
  ASSUME NEW x \in Answer, NEW y \in Answer, NEW z \in Answer,
         Behind(x, y), Behind(y, z)
  PROVE  Behind(x, z)
BY DEF Behind, MoneyObserved

LEMMA CreatedFacts ==
  ASSUME NEW new \in Created
  PROVE  /\ new \in Answer
         /\ OrderOK(new)
         /\ new.state \notin {"Done", "Refunded"}
<1> PICK s \in {"Waiting", "PaymentReceived", "PaymentSetupFailed"} :
       new = [state |-> s, money |-> IsPaidOrBeyond(s),
              at |-> IF MaxStamp = 0 THEN 0 ELSE 1]
  BY DEF Created
<1> DEFINE stamp == IF MaxStamp = 0 THEN 0 ELSE 1
<1>1. stamp \in 0 .. MaxStamp
  BY QuoteBoundsAssumption
<1>2. IsPaidOrBeyond(s) \in BOOLEAN
  BY DEF IsPaidOrBeyond
<1>3. s \in SupplierStates
  BY DEF SupplierStates
<1>4. new \in Answer
  BY <1>1, <1>2, <1>3 DEF Answer
<1>5. OrderOK(new)
  BY DEF OrderOK, Funded, IsPaidOrBeyond
<1> QED BY <1>4, <1>5

\* What the supplier does next never takes back what an answer said.
LEMMA SupplierGoesOn ==
  ASSUME NEW o \in Answer, OrderOK(o), NEW to \in SupplierStates,
         CanSucceed(o, to), NEW t \in 0 .. MaxStamp,
         NEW new, new = [state |-> to, at |-> t,
                         money |-> o.money \/ Funds(o.state, to)]
  PROVE  /\ new \in Answer
         /\ OrderOK(new)
         /\ Behind(o, new)
         /\ o.state = "Done" => to = "Refunded"
         /\ o.state # "Refunded"
<1>1. /\ new.state = to
      /\ o.money => new.money
      /\ Funds(o.state, to) => new.money
      /\ new.money => o.money \/ Funds(o.state, to)
  OBVIOUS
<1>2. to \in Successors[o.state] /\ o.state \in SupplierStates
  BY DEF CanSucceed, Answer
<1>0. new \in Answer
  <2>1. (o.money \/ Funds(o.state, to)) \in BOOLEAN
    OBVIOUS
  <2>2. new.money \in BOOLEAN
    BY <2>1
  <2> QED BY <2>2 DEF Answer
<1>3. CASE o.state = "Waiting"
  BY <1>1, <1>0, <1>2, <1>3 DEF CanSucceed, Successors, Funds, OrderOK, Behind, MoneyObserved,
         IsPaidOrBeyond, Funded
<1>4. CASE o.state = "PaymentStarted"
  <2>1. to \in {"PaymentReceived", "Expired", "PaymentFailed",
                "WaitingForManual"}
    BY <1>2, <1>4 DEF Successors
  <2> QED BY <1>1, <1>0, <1>4, <2>1 DEF OrderOK, Behind, Funded
<1>5. CASE o.state \in {"PaymentReceived", "WaitingForDelivery",
                         "WaitingForManual", "Done"}
  <2>1. /\ to \in {"WaitingForDelivery", "WaitingForManual", "Refunded", "Done"}
        /\ o.state = "Done" => to = "Refunded"
    BY <1>2, <1>5 DEF Successors
  <2> QED BY <1>1, <1>0, <1>5, <2>1 DEF OrderOK, Behind, Funded
<1>6. CASE o.state \in {"Expired", "PaymentFailed"}
  <2>1. to \in {"PaymentReceived", "Refunded"}
    BY <1>2, <1>6 DEF Successors
  <2> QED BY <1>1, <1>0, <1>6, <2>1 DEF CanSucceed, Funds, OrderOK, Behind,
                  MoneyObserved, IsPaidOrBeyond, Funded
<1>7. CASE o.state \in {"PaymentSetupFailed", "Refunded"}
  BY <1>2, <1>7 DEF Successors
<1> QED BY <1>0, <1>2, <1>3, <1>4, <1>5, <1>6, <1>7 DEF SupplierStates

-----------------------------------------------------------------------------
(* What each store operation does to one quote.                            *)

\* No write forgets a claimed dispatch or wakes a quote not yet created.
Grown(r, s) ==
  /\ r.sent => s.sent
  /\ r.status = "absent" => s.status = "absent"

GoodQuotes ==
  /\ quote' \in [Quotes -> Quote]
  /\ \A p \in Quotes : /\ Grown(quote[p], quote'[p])
                       /\ Consistent(quote'[p], order[p], posts[p])

LEMMA WriteOne ==
  ASSUME TypeOK, Agreement, NEW q \in Quotes, NEW r \in Quote,
         quote' = [quote EXCEPT ![q] = r],
         Grown(quote[q], r), Consistent(r, order[q], posts[q])
  PROVE  GoodQuotes
<1>1. quote' \in [Quotes -> Quote]
  BY DEF TypeOK
<1>2. ASSUME NEW p \in Quotes
      PROVE  Grown(quote[p], quote'[p]) /\ Consistent(quote'[p], order[p], posts[p])
  <2>1. CASE p = q
    BY <2>1 DEF TypeOK
  <2>2. CASE p # q
    <3>1. quote'[p] = quote[p]
      BY <2>2 DEF TypeOK
    <3> QED BY <3>1 DEF Agreement, Grown
  <2> QED BY <2>1, <2>2
<1> QED BY <1>1, <1>2 DEF GoodQuotes

LEMMA WriteNone ==
  ASSUME TypeOK, Agreement, UNCHANGED quote
  PROVE  GoodQuotes
BY DEF GoodQuotes, TypeOK, Agreement, Grown

\* A write that touches neither what the supplier said nor an outcome.
LEMMA ConsistentStill ==
  ASSUME NEW r, NEW s, NEW o, NEW n, Consistent(r, o, n),
         r.sent => s.sent, s.linked = r.linked, s.state = r.state,
         s.seen = r.seen,
         s.status = r.status \/ s.status \notin {"failed", "fulfilled", "refunded"}
  PROVE  Consistent(s, o, n)
BY DEF Consistent

LEMMA QuoteOne ==
  ASSUME TypeOK, Agreement, NEW q \in Quotes
  PROVE  quote[q] \in Quote /\ Consistent(quote[q], order[q], posts[q])
BY DEF TypeOK, Agreement

LEMMA ReviewGood ==
  ASSUME TypeOK, Agreement, NEW q \in Quotes, Transition(q, "manual_review")
  PROVE  GoodQuotes
<1> DEFINE r == quote[q]
           s == IF CanTransition(q, "manual_review")
                THEN [r EXCEPT !.status = "manual_review"] ELSE r
<1>1. r \in Quote /\ Consistent(r, order[q], posts[q])
  BY QuoteOne
<1>2. quote' = [quote EXCEPT ![q] = s]
  BY DEF Transition
<1>3. s \in Quote
  BY <1>1 DEF Quote, QuoteStatuses
<1>4. CanTransition(q, "manual_review") => r.status # "absent"
  BY TransitionFacts DEF CanTransition
<1>5. Grown(r, s)
  BY <1>1, <1>4 DEF Grown, Quote
<1>6. Consistent(s, order[q], posts[q])
  BY <1>1, ConsistentStill DEF Quote
<1> QED BY <1>2, <1>3, <1>5, <1>6, WriteOne

\* A refusal is certain only when one creation went out and made no order.
LEMMA FailureGood ==
  ASSUME TypeOK, Agreement, NEW q \in Quotes, Transition(q, "failed"),
         posts[q] = 1, order[q] = NoOrder
  PROVE  GoodQuotes
<1> DEFINE r == quote[q]
           s == IF CanTransition(q, "failed") THEN [r EXCEPT !.status = "failed"]
                ELSE r
<1>1. r \in Quote /\ Consistent(r, order[q], posts[q])
  BY QuoteOne
<1>2. quote' = [quote EXCEPT ![q] = s]
  BY DEF Transition
<1>3. s \in Quote
  BY <1>1 DEF Quote, QuoteStatuses
<1>4. CanTransition(q, "failed") => r.status # "absent"
  BY TransitionFacts DEF CanTransition
<1>5. Grown(r, s)
  BY <1>1, <1>4 DEF Grown, Quote
<1>6. Consistent(s, order[q], posts[q])
  BY <1>1 DEF Quote, Consistent
<1> QED BY <1>2, <1>3, <1>5, <1>6, WriteOne

LEMMA ClaimGood ==
  ASSUME TypeOK, Agreement, NEW q \in Quotes,
         quote' = [quote EXCEPT ![q].sent = TRUE]
  PROVE  GoodQuotes
<1> DEFINE r == quote[q]
           s == [r EXCEPT !.sent = TRUE]
<1>1. r \in Quote /\ Consistent(r, order[q], posts[q])
  BY QuoteOne
<1>2. quote' = [quote EXCEPT ![q] = s]
  BY DEF TypeOK
<1>3. s \in Quote /\ Grown(r, s)
  BY <1>1 DEF Quote, Grown
<1>6. Consistent(s, order[q], posts[q])
  BY <1>1, ConsistentStill DEF Quote
<1> QED BY <1>2, <1>3, <1>6, WriteOne

LEMMA UnknownGood ==
  ASSUME TypeOK, Agreement, NEW q \in Quotes,
         quote' = [quote EXCEPT ![q].unknown = TRUE]
  PROVE  GoodQuotes
<1> DEFINE r == quote[q]
           s == [r EXCEPT !.unknown = TRUE]
<1>1. r \in Quote /\ Consistent(r, order[q], posts[q])
  BY QuoteOne
<1>2. quote' = [quote EXCEPT ![q] = s]
  BY DEF TypeOK
<1>3. s \in Quote /\ Grown(r, s)
  BY <1>1 DEF Quote, Grown
<1>6. Consistent(s, order[q], posts[q])
  BY <1>1, ConsistentStill DEF Quote
<1> QED BY <1>2, <1>3, <1>6, WriteOne

LEMMA HoldGood ==
  ASSUME TypeOK, Agreement, NEW q \in Quotes,
         quote' = [quote EXCEPT ![q] =
                     IF CanTransition(q, "manual_review")
                     THEN [@ EXCEPT !.status = "manual_review", !.held = TRUE]
                     ELSE @]
  PROVE  GoodQuotes
<1> DEFINE r == quote[q]
           s == IF CanTransition(q, "manual_review")
                THEN [r EXCEPT !.status = "manual_review", !.held = TRUE] ELSE r
<1>1. r \in Quote /\ Consistent(r, order[q], posts[q])
  BY QuoteOne
<1>2. quote' = [quote EXCEPT ![q] = s]
  OBVIOUS
<1>3. s \in Quote
  BY <1>1 DEF Quote, QuoteStatuses
<1>4. CanTransition(q, "manual_review") => r.status # "absent"
  BY TransitionFacts DEF CanTransition
<1>5. Grown(r, s)
  BY <1>1, <1>4 DEF Grown, Quote
<1>6. /\ s.sent = r.sent /\ s.linked = r.linked /\ s.state = r.state
      /\ s.seen = r.seen /\ s.status \in {r.status, "manual_review"}
  BY <1>1 DEF Quote
<1> HIDE DEF s, r
<1>7. Consistent(s, order[q], posts[q])
  BY <1>1, <1>6, ConsistentStill
<1> QED BY <1>2, <1>3, <1>5, <1>7, WriteOne DEF r

LEMMA AttachGood ==
  ASSUME TypeOK, Agreement, NEW q \in Quotes, CanTransition(q, "awaiting_payment"),
         quote' = [quote EXCEPT ![q].status = "awaiting_payment",
                                ![q].invoice = TRUE]
  PROVE  GoodQuotes
<1> DEFINE r == quote[q]
           s == [r EXCEPT !.status = "awaiting_payment", !.invoice = TRUE]
<1>1. r \in Quote /\ Consistent(r, order[q], posts[q])
  BY QuoteOne
<1>2. quote' = [quote EXCEPT ![q] = s]
  BY DEF TypeOK
<1>3. s \in Quote
  BY <1>1 DEF Quote, QuoteStatuses
<1>4. r.status # "absent"
  BY TransitionFacts DEF CanTransition
<1>5. Grown(r, s)
  BY <1>1, <1>4 DEF Grown, Quote
<1>6. /\ s.sent = r.sent /\ s.linked = r.linked /\ s.state = r.state
      /\ s.seen = r.seen /\ s.status \in {r.status, "awaiting_payment"}
  BY <1>1 DEF Quote
<1> HIDE DEF s, r
<1>7. Consistent(s, order[q], posts[q])
  BY <1>1, <1>6, ConsistentStill
<1> QED BY <1>2, <1>3, <1>5, <1>7, WriteOne DEF r

LEMMA SweepGood ==
  ASSUME TypeOK, Agreement, NEW q \in Quotes,
         quote' = [quote EXCEPT ![q] =
                     IF "expired" \in quoteTransitions(@.status)
                     THEN [@ EXCEPT !.status = "expired"] ELSE @]
  PROVE  GoodQuotes
<1> DEFINE r == quote[q]
           s == IF "expired" \in quoteTransitions(r.status)
                THEN [r EXCEPT !.status = "expired"] ELSE r
<1>1. r \in Quote /\ Consistent(r, order[q], posts[q])
  BY QuoteOne
<1>2. quote' = [quote EXCEPT ![q] = s]
  OBVIOUS
<1>3. s \in Quote
  BY <1>1 DEF Quote, QuoteStatuses
<1>4. "expired" \in quoteTransitions(r.status) => r.status # "absent"
  BY TransitionFacts
<1>5. Grown(r, s)
  BY <1>1, <1>4 DEF Grown, Quote
<1>6. Consistent(s, order[q], posts[q])
  BY <1>1, ConsistentStill DEF Quote
<1> QED BY <1>2, <1>3, <1>5, <1>6, WriteOne

\* The supplier's id is stored with what its answer says.
LEMMA RecordGood ==
  ASSUME TypeOK, Agreement, NEW q \in Quotes, NEW ans \in Answer,
         order[q] # NoOrder, Behind(ans, order[q]),
         quote' = [quote EXCEPT ![q].linked = TRUE,
                     ![q].state = IF @ = "none" THEN ans.state ELSE @]
  PROVE  GoodQuotes
<1> DEFINE r == quote[q]
           s == [r EXCEPT !.linked = TRUE,
                          !.state = IF @ = "none" THEN ans.state ELSE @]
<1>1. r \in Quote /\ Consistent(r, order[q], posts[q])
  BY QuoteOne
<1>2. quote' = [quote EXCEPT ![q] = s]
  BY DEF TypeOK
<1>3. ans.state \in SupplierStates /\ "none" \notin SupplierStates
  BY DEF Answer, SupplierStates
<1>4. s \in Quote /\ Grown(r, s)
  BY <1>1, <1>3 DEF Quote, Grown
<1>5. Consistent(s, order[q], posts[q])
  BY <1>1, <1>3 DEF Quote, Consistent, Behind, MoneyObserved
<1> QED BY <1>2, <1>4, <1>5, WriteOne

\* An answer that is not ahead of the supplier leaves the quote consistent.
LEMMA ApplyGood ==
  ASSUME TypeOK, Agreement, NEW q \in Quotes, NEW ans \in Answer,
         order[q] # NoOrder, Behind(ans, order[q]), ApplySupplierOrder(q, ans)
  PROVE  GoodQuotes
<1> DEFINE r == quote[q]
           to == MapToQuoteStatus(ans.state)
           money == r.seen \/ MoneyObserved(ans)
           stamp == IF ans.at = 0 THEN r.at ELSE ans.at
<1>1. r \in Quote /\ Consistent(r, order[q], posts[q])
  BY QuoteOne
<1>2. CASE ~Changed(q, ans)
  <2> DEFINE s == [r EXCEPT !.unknown = FALSE]
  <2>1. quote' = [quote EXCEPT ![q] = s]
    BY <1>2 DEF ApplySupplierOrder
  <2>2. s \in Quote /\ Grown(r, s)
    BY <1>1 DEF Quote, Grown
  <2>3. Consistent(s, order[q], posts[q])
    BY <1>1, ConsistentStill DEF Quote
  <2> QED BY <2>1, <2>2, <2>3, WriteOne
<1>3. CASE Changed(q, ans)
  <2> DEFINE s == Updated(r, ans)
  <2>1. quote' = [quote EXCEPT ![q] = s]
    BY <1>3 DEF ApplySupplierOrder
  <2>2. /\ ans.state \in SupplierStates /\ "none" \notin SupplierStates
        /\ ans.at \in 0 .. MaxStamp
    BY DEF Answer, SupplierStates
  <2>3. r.linked /\ r.status # "absent"
    BY <1>3, <2>2, MapFacts, TransitionFacts
       DEF Changed, CanTransition, QuoteStatuses
  <2>4. to \in QuoteStatuses
    BY <2>2, MapFacts
  <2>5. money \in BOOLEAN
    OBVIOUS
  <2>6. stamp \in 0 .. MaxStamp
    BY <1>1, <2>2 DEF Quote
  <2>7. s = [r EXCEPT !.status = to, !.state = ans.state, !.at = stamp,
                      !.seen = money, !.unknown = FALSE]
    BY Zenon DEF Updated
  <2> HIDE DEF money, stamp, s, to
  <2>8. s \in Quote
    BY <1>1, <2>2, <2>4, <2>5, <2>6, <2>7 DEF Quote
  <2>9. /\ s.sent = r.sent /\ s.linked = r.linked /\ s.state = ans.state
        /\ s.status = to /\ s.seen = money
    BY <1>1, <2>7 DEF Quote
  <2>10. Grown(r, s)
    BY <2>3, <2>4, <2>9 DEF Grown, QuoteStatuses
  <2>11. /\ money => order[q].money
         /\ to = "fulfilled" => ans.state = "Done"
         /\ to = "refunded" => ans.state = "Refunded"
    BY <1>1, <2>2, MapFacts DEF money, to, Consistent, Behind
  <2>12. Consistent(s, order[q], posts[q])
    BY <1>1, <2>2, <2>3, <2>9, <2>11 DEF Consistent, Behind, MoneyObserved
  <2> QED BY <2>1, <2>8, <2>10, <2>12, WriteOne
<1> QED BY <1>2, <1>3

-----------------------------------------------------------------------------
(* What an actor holds after its step.                                     *)

Onward == {"idle", "told", "launch", "cancel", "review"}
ClockOK == clock \in [Quotes -> {"open", "lapsed", "aged"}]

HeldNext(a, rec) ==
  /\ rec \in Actor /\ rec.then \in Onward
  /\ rec = Idle \/
     (rec.q \in Quotes /\ Fits(a, rec, quote'[rec.q], order[rec.q], posts[rec.q]))

LEMMA FitsStill ==
  ASSUME NEW a, NEW rec, NEW r, NEW s, NEW o, NEW n,
         Fits(a, rec, r, o, n), Grown(r, s)
  PROVE  Fits(a, rec, s, o, n)
BY DEF Fits, Grown

\* One actor moves, and whatever it wrote is good: the invariant stays.
LEMMA ActorStep ==
  ASSUME IInv, GoodQuotes, NEW a \in Actors, NEW rec, Goto(a, rec),
         HeldNext(a, rec), ClockOK', UNCHANGED <<order, posts, calm>>,
         rec.at = "call" =>
           \/ At(a, "call") /\ QuoteOf(a) = rec.q
           \/ ~quote[rec.q].sent
  PROVE  IInv'
<1>1. /\ actor' \in [Actors -> Actor]
      /\ actor'[a] = rec
      /\ \A b \in Actors : b # a => actor'[b] = actor[b]
  BY DEF Goto, IInv, TypeOK, HeldNext
<1>2. TypeOK'
  BY <1>1 DEF IInv, TypeOK, GoodQuotes, ClockOK
<1>3. Agreement'
  BY DEF GoodQuotes, Agreement
<1>4. Hands'
  <2> SUFFICES ASSUME NEW b \in Actors
               PROVE  Held(b, actor[b])'
    BY DEF Hands
  <2>1. CASE b = a
    BY <1>1, <2>1 DEF HeldNext, Held, Onward
  <2>2. CASE b # a
    <3>1. actor'[b] = actor[b] /\ Held(b, actor[b])
      BY <1>1, <2>2 DEF IInv, Hands
    <3>2. actor[b].q \in Quotes =>
            Grown(quote[actor[b].q], quote'[actor[b].q])
      BY DEF GoodQuotes
    <3> QED BY <3>1, <3>2, FitsStill DEF Held
  <2> QED BY <2>1, <2>2
<1>5. OneCaller'
  <2> SUFFICES ASSUME NEW b \in Actors, NEW c \in Actors,
                      At(b, "call")', At(c, "call")', (QuoteOf(b) = QuoteOf(c))'
               PROVE  b = c
    BY DEF OneCaller
  <2>1. CASE b # a /\ c # a
    BY <1>1, <2>1 DEF IInv, OneCaller, At, QuoteOf
  <2>2. ASSUME NEW d \in Actors, d # a, At(d, "call")', At(a, "call")',
               (QuoteOf(d) = QuoteOf(a))'
        PROVE  FALSE
    <3>1. At(d, "call") /\ QuoteOf(d) = rec.q /\ rec.at = "call"
      BY <1>1, <2>2 DEF At, QuoteOf
    <3>2. CASE At(a, "call") /\ QuoteOf(a) = rec.q
      BY <2>2, <3>1, <3>2 DEF IInv, OneCaller
    <3>3. CASE ~quote[rec.q].sent
      BY <3>1, <3>3 DEF IInv, Hands, Held, Fits, At, QuoteOf, Idle
    <3> QED BY <3>1, <3>2, <3>3
  <2> QED BY <2>1, <2>2
<1> QED BY <1>2, <1>3, <1>4, <1>5 DEF IInv

LEMMA IdleHeld == ASSUME NEW a PROVE HeldNext(a, Idle)
BY DEF HeldNext, Idle, Actor, Stages, Onward

\* An actor with something in hand.
LEMMA HeldOne ==
  ASSUME IInv, NEW a \in Actors, ~At(a, "idle")
  PROVE  /\ actor[a] \in Actor /\ actor[a].then \in Onward
         /\ QuoteOf(a) \in Quotes
         /\ Fits(a, actor[a], quote[QuoteOf(a)], order[QuoteOf(a)],
                 posts[QuoteOf(a)])
BY DEF IInv, TypeOK, Hands, Held, At, QuoteOf, Idle, Onward

\* It keeps its quote, and its answer or none, and goes on.
LEMMA MoveHeld ==
  ASSUME IInv, GoodQuotes, NEW a \in Actors, ~At(a, "idle"),
         NEW rec \in Actor, rec.q = QuoteOf(a), rec.then \in Onward,
         rec.at \notin {"new", "call", "fail"},
         rec.at \in {"record", "apply"} => rec.ans \in Answer,
         rec.ans = actor[a].ans \/ rec.ans = NoAnswer
  PROVE  HeldNext(a, rec)
<1>1. QuoteOf(a) \in Quotes
  BY HeldOne
<1>2. Fits(a, rec, quote[rec.q], order[rec.q], posts[rec.q])
  BY HeldOne DEF Fits
<1>3. Grown(quote[rec.q], quote'[rec.q])
  BY <1>1 DEF GoodQuotes
<1> QED BY <1>1, <1>2, <1>3, FitsStill DEF HeldNext

\* It reads the supplier's record of a linked order.
LEMMA AskHeld ==
  ASSUME IInv, GoodQuotes, NEW a \in Actors, NEW q \in Quotes, quote[q].linked,
         NEW rec \in {"record", "apply"}, NEW then \in Onward
  PROVE  HeldNext(a, [at |-> rec, q |-> q, ans |-> order[q], then |-> then])
<1> DEFINE new == [at |-> rec, q |-> q, ans |-> order[q], then |-> then]
<1>1. order[q] \in Answer /\ OrderOK(order[q])
  BY DEF IInv, TypeOK, Agreement, Consistent
<1>2. Behind(order[q], order[q]) /\ order[q] # NoOrder
  BY <1>1, BehindItself, QuoteMarkersAssumption
<1>3. new \in Actor
  BY <1>1 DEF Actor, Stages, Onward
<1>4. Fits(a, new, quote'[q], order[q], posts[q])
  BY <1>1, <1>2 DEF Fits
<1> QED BY <1>3, <1>4 DEF HeldNext

-----------------------------------------------------------------------------
(* Every step of every actor keeps the invariant.                          *)

LEMMA SameClock == ASSUME IInv, UNCHANGED clock PROVE ClockOK'
BY DEF IInv, TypeOK, ClockOK

LEMMA SameQuotes == ASSUME IInv, UNCHANGED quote PROVE GoodQuotes
BY WriteNone DEF IInv

\* The actor ends its step idle, on a hold, or at another stage of its request.
LEMMA EndsIdle ==
  ASSUME IInv, GoodQuotes, NEW a \in Actors, GoIdle(a), UNCHANGED clock,
         Supplierless
  PROVE  IInv'
<1>1. Idle.at # "call"
  BY DEF Idle
<1> QED BY <1>1, IdleHeld, SameClock, ActorStep DEF GoIdle, Supplierless

LEMMA Advances ==
  ASSUME IInv, GoodQuotes, NEW a \in Actors, ~At(a, "idle"), ClockOK',
         NEW stage \in Stages \ {"new", "call", "fail"},
         NEW ans \in {actor[a].ans, NoAnswer}, NEW then \in Onward,
         stage \in {"record", "apply"} => ans \in Answer,
         NEW rec, rec = [actor[a] EXCEPT !.at = stage, !.ans = ans, !.then = then],
         Goto(a, rec), Supplierless
  PROVE  IInv'
<1>1. actor[a] \in Actor
  BY HeldOne
<1>2. /\ rec \in Actor /\ rec.at = stage /\ rec.q = QuoteOf(a)
      /\ rec.ans = ans /\ rec.then = then
  <2>1. ans \in Answer \cup {NoAnswer}
    BY <1>1 DEF Actor
  <2> QED BY <1>1, <2>1 DEF Actor, Onward, Stages, QuoteOf
<1>3. HeldNext(a, rec)
  BY <1>2, MoveHeld
<1> QED BY <1>2, <1>3, ActorStep DEF Supplierless

LEMMA GoesTo ==
  ASSUME IInv, GoodQuotes, NEW a \in Actors, ~At(a, "idle"), ClockOK',
         NEW stage \in Stages \ {"new", "call", "fail"}, GoTo(a, stage),
         stage \in {"record", "apply"} => actor[a].ans \in Answer, Supplierless
  PROVE  IInv'
<1>1. actor[a] \in Actor /\ actor[a].then \in Onward
  BY HeldOne
<1>2. [actor[a] EXCEPT !.at = stage] =
        [actor[a] EXCEPT !.at = stage, !.ans = actor[a].ans, !.then = actor[a].then]
  BY <1>1 DEF Actor
<1> QED BY <1>1, <1>2, Advances DEF GoTo

LEMMA GoesToHold ==
  ASSUME IInv, GoodQuotes, NEW a \in Actors, ~At(a, "idle"), ClockOK',
         GoHold(a), Supplierless
  PROVE  IInv'
<1>1. actor[a] \in Actor /\ actor[a].then \in Onward
  BY HeldOne
<1>2. [actor[a] EXCEPT !.at = "hold", !.ans = NoAnswer] =
        [actor[a] EXCEPT !.at = "hold", !.ans = NoAnswer, !.then = actor[a].then]
  BY <1>1 DEF Actor
<1>3. "hold" \in Stages \ {"new", "call", "fail"}
  BY DEF Stages
<1> QED BY <1>1, <1>2, <1>3, Advances DEF GoHold

LEMMA Asks ==
  ASSUME IInv, NEW a \in Actors, NEW q \in Quotes, quote[q].linked,
         NEW stage \in {"record", "apply"}, NEW then \in Onward,
         Goto(a, [at |-> stage, q |-> q, ans |-> order[q], then |-> then]),
         QuotesSame, Supplierless
  PROVE  IInv'
<1>1. GoodQuotes /\ ClockOK'
  BY SameQuotes, SameClock DEF QuotesSame
<1> DEFINE rec == [at |-> stage, q |-> q, ans |-> order[q], then |-> then]
<1>2. HeldNext(a, rec)
  BY <1>1, AskHeld
<1>3. rec.at # "call"
  OBVIOUS
<1> QED BY <1>1, <1>2, <1>3, ActorStep DEF Supplierless

\* An idle actor takes up a quote without an answer.
LEMMA TakesUp ==
  ASSUME IInv, NEW a \in Actors, NEW q \in Quotes, NEW then \in Onward,
         NEW stage \in {"sweep", "claim", "hold", "review", "unknown"},
         TakeUp(a, stage, q, then), QuotesSame, Supplierless
  PROVE  IInv'
<1>1. GoodQuotes /\ ClockOK'
  BY SameQuotes, SameClock DEF QuotesSame
<1> DEFINE rec == [at |-> stage, q |-> q, ans |-> NoAnswer, then |-> then]
<1>2. rec \in Actor
  BY DEF Actor, Stages, Onward
<1>3. Fits(a, rec, quote'[q], order[q], posts[q])
  BY DEF Fits
<1>4. HeldNext(a, rec)
  BY <1>2, <1>3 DEF HeldNext
<1> QED BY <1>1, <1>4, ActorStep DEF Supplierless, TakeUp

\* The claim finds a quote nobody claimed: nothing was sent, nobody is calling.
LEMMA ClaimInd == ASSUME IInv, NEW a \in Actors, ClaimDispatch(a) PROVE IInv'
<1> DEFINE q == QuoteOf(a)
<1>0. ~At(a, "idle") /\ UNCHANGED clock /\ Supplierless
  BY DEF ClaimDispatch, At
<1>1. q \in Quotes /\ actor[a] \in Actor /\ actor[a].then \in Onward
  BY <1>0, HeldOne
<1>2. CASE CanClaim(q) /\ quote' = [quote EXCEPT ![q].sent = TRUE]
             /\ GoTo(a, "call")
  <2>1. GoodQuotes
    BY <1>1, <1>2, ClaimGood DEF IInv
  <2> DEFINE rec == [actor[a] EXCEPT !.at = "call"]
  <2>2. /\ rec \in Actor /\ rec.at = "call" /\ rec.q = q
        /\ rec.ans = actor[a].ans /\ rec.then = actor[a].then
    BY <1>1 DEF Actor, Stages, QuoteOf
  <2>3. posts[q] = 0 /\ ~quote[q].sent
    BY <1>1, <1>2 DEF CanClaim, IInv, Agreement, Consistent
  <2>4. quote'[q].sent
    BY <1>1, <1>2 DEF IInv, TypeOK, Quote
  <2>5. Fits(a, rec, quote'[q], order[q], posts[q])
    BY <1>0, <2>2, <2>3, <2>4, HeldOne DEF Fits
  <2>6. HeldNext(a, rec)
    BY <1>1, <2>2, <2>5 DEF HeldNext
  <2> QED BY <1>0, <1>2, <2>1, <2>2, <2>3, <2>6, SameClock, ActorStep
          DEF GoTo, Supplierless
<1>3. CASE GoIdle(a) /\ UNCHANGED quote
  BY <1>0, <1>3, SameQuotes, EndsIdle
<1>4. CASE GoHold(a) /\ UNCHANGED quote
  BY <1>0, <1>4, SameQuotes, SameClock, GoesToHold
<1> QED BY <1>2, <1>3, <1>4 DEF ClaimDispatch

LEMMA FailureInd == ASSUME IInv, NEW a \in Actors, MarkSupplierFailure(a) PROVE IInv'
<1> DEFINE q == QuoteOf(a)
<1>1. /\ ~At(a, "idle") /\ At(a, "fail") /\ UNCHANGED clock /\ Supplierless
      /\ GoIdle(a)
  BY DEF MarkSupplierFailure, At
<1>2. q \in Quotes /\ posts[q] = 1 /\ order[q] = NoOrder
  BY <1>1, HeldOne DEF Fits, At
<1>3. GoodQuotes
  BY <1>2, FailureGood, SameQuotes DEF MarkSupplierFailure, IInv
<1> QED BY <1>1, <1>3, EndsIdle

LEMMA RecordInd == ASSUME IInv, NEW a \in Actors, RecordSupplierOrder(a) PROVE IInv'
<1> DEFINE q == QuoteOf(a)
           ans == actor[a].ans
<1>1. /\ ~At(a, "idle") /\ At(a, "record") /\ UNCHANGED clock /\ Supplierless
  BY DEF RecordSupplierOrder, At
<1>2. /\ q \in Quotes /\ ans \in Answer /\ order[q] # NoOrder
      /\ Behind(ans, order[q]) /\ actor[a] \in Actor /\ actor[a].then \in Onward
  BY <1>1, HeldOne, QuoteMarkersAssumption DEF Fits, At
<1>3. ClockOK'
  BY <1>1, SameClock
<1>4. CASE quote' = [quote EXCEPT ![q].linked = TRUE,
                       ![q].state = IF @ = "none" THEN ans.state ELSE @]
  <2>1. GoodQuotes
    BY <1>2, <1>4, RecordGood DEF IInv
  <2>2. CASE Goto(a, [actor[a] EXCEPT !.at = "attach", !.ans = NoAnswer])
    <3>1. [actor[a] EXCEPT !.at = "attach", !.ans = NoAnswer] =
            [actor[a] EXCEPT !.at = "attach", !.ans = NoAnswer,
                             !.then = actor[a].then]
      BY <1>2 DEF Actor
    <3>2. "attach" \in Stages \ {"new", "call", "fail"}
      BY DEF Stages
    <3> QED BY <1>1, <1>2, <1>3, <2>1, <2>2, <3>1, <3>2, Advances
  <2>3. CASE GoHold(a)
    BY <1>1, <1>3, <2>1, <2>3, GoesToHold
  <2>4. CASE GoTo(a, "hold")
    <3>1. "hold" \in Stages \ {"new", "call", "fail"}
      BY DEF Stages
    <3> QED BY <1>1, <1>2, <1>3, <2>1, <2>4, <3>1, GoesTo
  <2>5. \/ Goto(a, [actor[a] EXCEPT !.at = "attach", !.ans = NoAnswer])
        \/ GoHold(a) \/ GoTo(a, "hold")
    BY <1>1, <1>4 DEF RecordSupplierOrder
  <2> QED BY <2>2, <2>3, <2>4, <2>5
<1>5. CASE GoHold(a) /\ UNCHANGED quote
  BY <1>1, <1>3, <1>5, SameQuotes, GoesToHold
<1> QED BY <1>4, <1>5 DEF RecordSupplierOrder

LEMMA AttachInd == ASSUME IInv, NEW a \in Actors, AttachQuotePayment(a) PROVE IInv'
<1> DEFINE q == QuoteOf(a)
<1>1. ~At(a, "idle") /\ Supplierless
  BY DEF AttachQuotePayment, At
<1>2. q \in Quotes
  BY <1>1, HeldOne
<1>3. CASE CanTransition(q, "awaiting_payment")
  <2>1. GoodQuotes
    BY <1>2, <1>3, AttachGood DEF AttachQuotePayment, IInv
  <2>2. ClockOK'
    BY <1>2, <1>3 DEF AttachQuotePayment, IInv, TypeOK, ClockOK
  <2>3. GoIdle(a) /\ Idle.at # "call"
    BY <1>3 DEF AttachQuotePayment, Idle
  <2> QED BY <1>1, <2>1, <2>2, <2>3, IdleHeld, ActorStep DEF GoIdle, Supplierless
<1>4. CASE GoHold(a) /\ QuotesSame
  BY <1>1, <1>4, SameQuotes, SameClock, GoesToHold DEF QuotesSame
<1> QED BY <1>3, <1>4 DEF AttachQuotePayment

LEMMA AttachFailsInd == ASSUME IInv, NEW a \in Actors, AttachFails(a) PROVE IInv'
BY SameQuotes, SameClock, GoesToHold DEF AttachFails, QuotesSame, At

LEMMA HoldInd == ASSUME IInv, NEW a \in Actors, Hold(a) PROVE IInv'
<1> DEFINE q == QuoteOf(a)
<1>1. ~At(a, "idle") /\ UNCHANGED clock /\ Supplierless
  BY DEF Hold, At
<1>2. q \in Quotes /\ actor[a] \in Actor
  BY <1>1, HeldOne
<1>3. GoodQuotes
  BY <1>2, HoldGood, SameQuotes DEF Hold, IInv
<1>4. CASE GoIdle(a)
  BY <1>1, <1>3, <1>4, EndsIdle
<1>5. CASE GoTo(a, "apply") /\ actor[a].ans # NoAnswer
  <2>1. actor[a].ans \in Answer /\ "apply" \in Stages \ {"new", "call", "fail"}
    BY <1>2, <1>5 DEF Actor, Stages
  <2> QED BY <1>1, <1>3, <1>5, <2>1, SameClock, GoesTo
<1> QED BY <1>4, <1>5 DEF Hold

LEMMA ApplyInd == ASSUME IInv, NEW a \in Actors, Apply(a) PROVE IInv'
<1> DEFINE q == QuoteOf(a)
           ans == actor[a].ans
           stage == actor[a].then
<1>1. ~At(a, "idle") /\ At(a, "apply") /\ UNCHANGED clock /\ Supplierless
  BY DEF Apply, At
<1>2. /\ q \in Quotes /\ ans \in Answer /\ order[q] # NoOrder
      /\ Behind(ans, order[q]) /\ stage \in Onward
  BY <1>1, HeldOne, QuoteMarkersAssumption DEF Fits, At
<1>3. GoodQuotes
  BY <1>2, ApplyGood, SameQuotes DEF Apply, IInv
<1>4. CASE GoIdle(a)
  BY <1>1, <1>3, <1>4, EndsIdle
<1>5. CASE Goto(a, [actor[a] EXCEPT !.at = stage, !.then = "idle",
                                    !.ans = NoAnswer])
  <2>1. /\ stage \in Stages \ {"new", "call", "fail"}
        /\ stage \notin {"record", "apply"} /\ "idle" \in Onward
    BY <1>2 DEF Onward, Stages
  <2>2. [actor[a] EXCEPT !.at = stage, !.then = "idle", !.ans = NoAnswer] =
          [actor[a] EXCEPT !.at = stage, !.ans = NoAnswer, !.then = "idle"]
    OBVIOUS
  <2> QED BY <1>1, <1>3, <1>5, <2>1, <2>2, SameClock, Advances
<1> QED BY <1>4, <1>5 DEF Apply

LEMMA ReviewInd == ASSUME IInv, NEW a \in Actors, Review(a) PROVE IInv'
<1>1. /\ ~At(a, "idle") /\ UNCHANGED clock /\ Supplierless /\ GoIdle(a)
  BY DEF Review, At
<1>2. GoodQuotes
  BY <1>1, HeldOne, ReviewGood, SameQuotes DEF Review, IInv
<1> QED BY <1>1, <1>2, EndsIdle

LEMMA UnknownInd == ASSUME IInv, NEW a \in Actors, MarkUnknown(a) PROVE IInv'
<1> DEFINE stage == actor[a].then
<1>1. /\ ~At(a, "idle") /\ UNCHANGED clock /\ Supplierless
      /\ QuoteOf(a) \in Quotes /\ stage \in Onward /\ actor[a] \in Actor
  BY HeldOne DEF MarkUnknown, At
<1>2. GoodQuotes
  BY <1>1, UnknownGood DEF MarkUnknown, IInv
<1>3. CASE GoIdle(a)
  BY <1>1, <1>2, <1>3, EndsIdle
<1>4. CASE Goto(a, [actor[a] EXCEPT !.at = stage, !.then = "idle"])
  <2>1. /\ stage \in Stages \ {"new", "call", "fail"}
        /\ stage \notin {"record", "apply"} /\ "idle" \in Onward
    BY <1>1 DEF Onward, Stages
  <2>2. [actor[a] EXCEPT !.at = stage, !.then = "idle"] =
          [actor[a] EXCEPT !.at = stage, !.ans = actor[a].ans, !.then = "idle"]
    BY <1>1 DEF Actor
  <2> QED BY <1>1, <1>2, <1>4, <2>1, <2>2, SameClock, Advances
<1> QED BY <1>3, <1>4 DEF MarkUnknown

\* The supplier moves an order on: nobody's answer gets ahead of it.
LEMMA OrderMoves ==
  ASSUME IInv, NEW q \in Quotes, order[q] # NoOrder, NEW new \in Answer,
         OrderOK(new), Behind(order[q], new),
         order' = [order EXCEPT ![q] = new], UNCHANGED <<quote, posts>>
  PROVE  /\ order' \in [Quotes -> Answer \cup {NoOrder}]
         /\ Agreement'
         /\ \A a \in Actors : \A rec \in Actor :
              rec.q \in Quotes
              /\ Fits(a, rec, quote[rec.q], order[rec.q], posts[rec.q]) =>
                Fits(a, rec, quote'[rec.q], order'[rec.q], posts'[rec.q])
<1>1. order' \in [Quotes -> Answer \cup {NoOrder}]
  BY DEF IInv, TypeOK
<1>2. /\ order[q] \in Answer /\ order'[q] = new /\ new # NoOrder
      /\ \A p \in Quotes : p # q => order'[p] = order[p]
  BY QuoteMarkersAssumption DEF IInv, TypeOK
<1>3. ASSUME NEW p \in Quotes
      PROVE  Consistent(quote'[p], order'[p], posts'[p])
  <2>1. Consistent(quote[p], order[p], posts[p])
    BY DEF IInv, Agreement
  <2>2. CASE p = q
    BY <1>2, <2>1, <2>2 DEF Consistent, Behind, MoneyObserved
  <2>3. CASE p # q
    BY <1>2, <2>1, <2>3
  <2> QED BY <2>2, <2>3
<1>4. ASSUME NEW a \in Actors, NEW rec \in Actor, rec.q \in Quotes,
             Fits(a, rec, quote[rec.q], order[rec.q], posts[rec.q])
      PROVE  Fits(a, rec, quote'[rec.q], order'[rec.q], posts'[rec.q])
  <2>1. CASE rec.q # q
    BY <1>2, <1>4, <2>1
  <2>2. CASE rec.q = q
    <3>1. rec.ans # NoAnswer => rec.ans \in Answer /\ Behind(rec.ans, order[q])
      BY <1>4, <2>2 DEF Fits, Actor
    <3>2. rec.ans # NoAnswer => Behind(rec.ans, new)
      BY <1>2, <3>1, BehindFurther
    <3> QED BY <1>2, <1>4, <2>2, <3>2 DEF Fits
  <2> QED BY <2>1, <2>2
<1> QED BY <1>1, <1>3, <1>4 DEF Agreement

LEMMA SupplierInd ==
  ASSUME IInv, NEW q \in Quotes, NEW to \in SupplierStates, SupplierMoves(q, to)
  PROVE  IInv'
<1>1. PICK t \in {order[q].at, order[q].at + 1} \cap 0 .. MaxStamp :
        order' = [order EXCEPT ![q] =
                    [state |-> to, at |-> t,
                     money |-> @.money \/ Funds(@.state, to)]]
  BY DEF SupplierMoves
<1> DEFINE new == [state |-> to, at |-> t,
                   money |-> order[q].money \/ Funds(order[q].state, to)]
<1>2. order' = [order EXCEPT ![q] = new]
  BY <1>1
<1>3. /\ order[q] \in Answer /\ OrderOK(order[q]) /\ order[q] # NoOrder
      /\ CanSucceed(order[q], to)
  BY DEF SupplierMoves, IInv, TypeOK, Agreement, Consistent
<1>4. new \in Answer /\ OrderOK(new) /\ Behind(order[q], new)
  BY <1>3, SupplierGoesOn
<1> HIDE DEF new
<1>5. UNCHANGED <<quote, clock, actor, posts, calm>>
  BY DEF SupplierMoves
<1>6. /\ order' \in [Quotes -> Answer \cup {NoOrder}] /\ Agreement'
      /\ \A a \in Actors : \A rec \in Actor :
           rec.q \in Quotes
           /\ Fits(a, rec, quote[rec.q], order[rec.q], posts[rec.q]) =>
             Fits(a, rec, quote'[rec.q], order'[rec.q], posts'[rec.q])
  BY <1>2, <1>3, <1>4, <1>5, OrderMoves
<1>7. TypeOK'
  BY <1>5, <1>6 DEF IInv, TypeOK
<1>8. Hands'
  <2> SUFFICES ASSUME NEW a \in Actors PROVE Held(a, actor[a])'
    BY DEF Hands
  <2>1. actor[a] \in Actor /\ actor'[a] = actor[a] /\ Held(a, actor[a])
    BY <1>5 DEF IInv, TypeOK, Hands
  <2> QED BY <1>6, <2>1 DEF Held
<1>9. OneCaller'
  BY <1>5 DEF IInv, OneCaller, At, QuoteOf
<1> QED BY <1>6, <1>7, <1>8, <1>9 DEF IInv

\* The supplier accepts the cancellation of an order without money.
LEMMA CancelInd == ASSUME IInv, NEW a \in Actors, Cancel(a) PROVE IInv'
<1> DEFINE q == QuoteOf(a)
<1>1. /\ ~At(a, "idle") /\ UNCHANGED <<quote, clock, posts, calm>>
  BY DEF Cancel, At, QuotesSame
<1>2. q \in Quotes /\ actor[a] \in Actor
  BY <1>1, HeldOne
<1>3. CASE order' = order /\ GoIdle(a)
  BY <1>1, <1>3, SameQuotes, EndsIdle DEF Supplierless
<1>4. CASE order' = order /\ GoTo(a, "unknown")
  <2>1. "unknown" \in Stages \ {"new", "call", "fail"}
    BY DEF Stages
  <2> QED BY <1>1, <1>4, <2>1, SameQuotes, SameClock, GoesTo DEF Supplierless
<1>5. ASSUME order[q].state = "Waiting", ~order[q].money, quote[q].linked,
             NEW t \in {order[q].at, order[q].at + 1} \cap 0 .. MaxStamp,
             order' = [order EXCEPT ![q].state = "Expired", ![q].at = t],
             \/ Goto(a, [actor[a] EXCEPT !.at = "apply", !.ans = order'[q],
                                         !.then = "idle"])
             \/ GoIdle(a)
      PROVE  IInv'
  <2> DEFINE new == [order[q] EXCEPT !.state = "Expired", !.at = t]
             held == [actor[a] EXCEPT !.at = "apply", !.ans = new, !.then = "idle"]
  <2>1. order[q] \in Answer /\ OrderOK(order[q]) /\ order[q] # NoOrder
    BY <1>2, <1>5 DEF IInv, TypeOK, Agreement, Consistent
  <2>2. new \in Answer /\ new.state = "Expired" /\ new.money = order[q].money
    BY <2>1 DEF Answer, SupplierStates
  <2>3. OrderOK(new) /\ Behind(order[q], new) /\ Behind(new, new)
    BY <1>5, <2>2 DEF OrderOK, Behind, MoneyObserved, IsPaidOrBeyond, Funded
  <2>4. order' = [order EXCEPT ![q] = new] /\ order'[q] = new
    BY <1>2, <1>5 DEF IInv, TypeOK
  <2>5. /\ held \in Actor /\ held.at = "apply" /\ held.q = q /\ held.ans = new
        /\ held.then = "idle"
    BY <1>2, <2>2, <2>4 DEF Actor, Stages, QuoteOf
  <2>50. Goto(a, held) \/ Goto(a, Idle)
    BY <1>5, <2>4 DEF GoIdle, Goto
  <2>51. PICK rec \in {held, Idle} : Goto(a, rec)
    BY <2>50
  <2> HIDE DEF new, held
  <2>52. rec \in Actor /\ rec.at # "call"
    <3>1. Idle \in Actor /\ Idle.at # "call"
      BY IdleHeld DEF HeldNext, Idle
    <3> QED BY <2>5, <3>1
  <2>6. /\ order' \in [Quotes -> Answer \cup {NoOrder}] /\ Agreement'
        /\ \A b \in Actors : \A s \in Actor :
             s.q \in Quotes
             /\ Fits(b, s, quote[s.q], order[s.q], posts[s.q]) =>
               Fits(b, s, quote'[s.q], order'[s.q], posts'[s.q])
    BY <1>1, <1>2, <2>1, <2>2, <2>3, <2>4, OrderMoves
  <2>7. /\ actor' \in [Actors -> Actor] /\ actor'[a] = rec
        /\ \A b \in Actors : b # a => actor'[b] = actor[b]
    BY <2>51, <2>52 DEF Goto, IInv, TypeOK
  <2>8. TypeOK'
    BY <1>1, <2>6, <2>7 DEF IInv, TypeOK
  <2>9. Hands'
    <3> SUFFICES ASSUME NEW b \in Actors PROVE Held(b, actor[b])'
      BY DEF Hands
    <3>1. CASE b # a
      <4>1. actor[b] \in Actor /\ actor'[b] = actor[b] /\ Held(b, actor[b])
        BY <2>7, <3>1 DEF IInv, TypeOK, Hands
      <4> QED BY <2>6, <4>1 DEF Held
    <3>2. CASE b = a
      <4>1. Fits(a, held, quote'[q], order'[q], posts'[q])
        BY <2>2, <2>3, <2>4, <2>5, QuoteMarkersAssumption DEF Fits
      <4> QED BY <1>2, <2>5, <2>7, <3>2, <4>1 DEF Held, Idle
    <3> QED BY <3>1, <3>2
  <2>10. OneCaller'
    BY <2>52, <2>7 DEF IInv, OneCaller, At, QuoteOf
  <2> QED BY <2>6, <2>8, <2>9, <2>10 DEF IInv
<1> QED BY <1>3, <1>4, <1>5 DEF Cancel, CanCancelPartnerOrder

\* The one creation leaves; nobody else holds anything of this order.
LEMMA CallInd == ASSUME IInv, NEW a \in Actors, CallSupplier(a) PROVE IInv'
<1> DEFINE q == QuoteOf(a)
           r == quote[q]
<1>1. /\ ~At(a, "idle") /\ At(a, "call") /\ UNCHANGED <<quote, clock, calm>>
      /\ posts' = [posts EXCEPT ![q] = @ + 1]
  BY DEF CallSupplier, At, QuotesSame
<1>2. /\ q \in Quotes /\ actor[a] \in Actor /\ actor[a].then \in Onward
      /\ r.sent /\ posts[q] = 0
  BY <1>1, HeldOne DEF Fits, At
<1>3. Consistent(r, order[q], 0) /\ order[q] = NoOrder
  BY <1>2 DEF IInv, Agreement, Consistent
<1>4. /\ posts' \in [Quotes -> Nat] /\ posts'[q] = 1
      /\ \A p \in Quotes : p # q => posts'[p] = posts[p]
  BY <1>1, <1>2 DEF IInv, TypeOK
<1> DEFINE Sent(o, rec) ==
             /\ order' = [order EXCEPT ![q] = o] /\ Goto(a, rec)
             /\ (o \in Answer /\ OrderOK(o)) \/ o = NoOrder
             /\ rec \in Actor /\ rec.then \in Onward /\ rec.at # "call"
             /\ rec = Idle \/ (rec.q = q /\ Fits(a, rec, r, o, 1))
<1>5. ASSUME NEW o, NEW rec, Sent(o, rec)
      PROVE  IInv'
  <2>1. /\ order' \in [Quotes -> Answer \cup {NoOrder}] /\ order'[q] = o
        /\ \A p \in Quotes : p # q => order'[p] = order[p]
    BY <1>2, <1>5 DEF IInv, TypeOK
  <2>2. /\ actor' \in [Actors -> Actor] /\ actor'[a] = rec
        /\ \A b \in Actors : b # a => actor'[b] = actor[b]
    BY <1>5 DEF Goto, IInv, TypeOK
  <2>3. TypeOK'
    BY <1>1, <1>4, <2>1, <2>2 DEF IInv, TypeOK
  <2>4. Agreement'
    <3> SUFFICES ASSUME NEW p \in Quotes
                 PROVE  Consistent(quote[p], order'[p], posts'[p])
      BY <1>1 DEF Agreement
    <3>1. CASE p = q
      BY <1>2, <1>3, <1>4, <1>5, <2>1, <3>1 DEF Consistent, IsPaidOrBeyond
    <3>2. CASE p # q
      BY <1>4, <2>1, <3>2 DEF IInv, Agreement
    <3> QED BY <3>1, <3>2
  <2>5. Hands'
    <3> SUFFICES ASSUME NEW b \in Actors PROVE Held(b, actor[b])'
      BY DEF Hands
    <3>1. CASE b = a
      BY <1>1, <1>2, <1>4, <1>5, <2>1, <2>2, <3>1 DEF Held, Onward
    <3>2. CASE b # a
      <4>1. actor[b] \in Actor /\ actor'[b] = actor[b] /\ Held(b, actor[b])
        BY <2>2, <3>2 DEF IInv, TypeOK, Hands
      <4>2. CASE actor[b] = Idle \/ actor[b].q # q
        BY <1>1, <1>4, <2>1, <4>1, <4>2 DEF Held
      <4>3. CASE actor[b] # Idle /\ actor[b].q = q
        <5>1. Fits(b, actor[b], r, NoOrder, 0)
          BY <1>2, <1>3, <4>1, <4>3 DEF Held
        <5>2. actor[b].at # "call"
          BY <1>1, <3>2, <4>3 DEF IInv, OneCaller, At, QuoteOf
        <5>3. Fits(b, actor[b], r, o, 1)
          BY <5>1, <5>2, QuoteMarkersAssumption DEF Fits
        <5> QED BY <1>1, <1>4, <2>1, <4>1, <4>3, <5>3 DEF Held
      <4> QED BY <4>2, <4>3
    <3> QED BY <3>1, <3>2
  <2>6. OneCaller'
    BY <1>5, <2>2 DEF IInv, OneCaller, At, QuoteOf
  <2> QED BY <2>3, <2>4, <2>5, <2>6 DEF IInv
<1>6. order = [order EXCEPT ![q] = NoOrder]
  BY <1>2, <1>3 DEF IInv, TypeOK
<1>7. CASE order' = order /\ GoTo(a, "fail")
  <2> DEFINE rec == [actor[a] EXCEPT !.at = "fail"]
  <2>1. /\ rec \in Actor /\ rec.at = "fail" /\ rec.q = q
        /\ rec.ans = actor[a].ans /\ rec.then = actor[a].then
    BY <1>2 DEF Actor, Stages, QuoteOf
  <2>2. Fits(a, actor[a], r, NoOrder, 0)
    BY <1>1, <1>2, <1>3, HeldOne
  <2>3. Fits(a, rec, r, NoOrder, 1)
    BY <2>1, <2>2 DEF Fits
  <2>4. Sent(NoOrder, rec)
    BY <1>2, <1>6, <1>7, <2>1, <2>3 DEF GoTo
  <2> QED BY <1>5, <2>4
<1>8. CASE order' = order /\ GoIdle(a)
  <2>1. Idle \in Actor /\ Idle.at # "call" /\ Idle.then \in Onward
    BY IdleHeld DEF HeldNext, Idle
  <2>2. Sent(NoOrder, Idle)
    BY <1>6, <1>8, <2>1 DEF GoIdle
  <2> QED BY <1>5, <2>2
<1>9. ASSUME NEW new \in Created, order' = [order EXCEPT ![q] = new],
             \/ Goto(a, [actor[a] EXCEPT !.at = "record", !.ans = new])
             \/ GoIdle(a)
      PROVE  IInv'
  <2>1. new \in Answer /\ OrderOK(new) /\ Behind(new, new) /\ new # NoOrder
    BY CreatedFacts, BehindItself, QuoteMarkersAssumption
  <2>2. CASE GoIdle(a)
    <3>1. Idle \in Actor /\ Idle.at # "call" /\ Idle.then \in Onward
      BY IdleHeld DEF HeldNext, Idle
    <3>2. Sent(new, Idle)
      BY <1>9, <2>1, <2>2, <3>1 DEF GoIdle
    <3> QED BY <1>5, <3>2
  <2> DEFINE rec == [actor[a] EXCEPT !.at = "record", !.ans = new]
  <2>3. CASE Goto(a, rec)
    <3>1. /\ rec \in Actor /\ rec.at = "record" /\ rec.q = q
          /\ rec.ans = new /\ rec.then = actor[a].then
      BY <1>2, <2>1 DEF Actor, Stages, QuoteOf
    <3>2. Fits(a, rec, r, new, 1)
      BY <2>1, <3>1 DEF Fits
    <3>3. Sent(new, rec)
      BY <1>2, <1>9, <2>1, <2>3, <3>1, <3>2
    <3> QED BY <1>5, <3>3
  <2> QED BY <1>9, <2>2, <2>3
<1> QED BY <1>7, <1>8, <1>9 DEF CallSupplier

\* The write-ahead intent: no other actor knows the new quote yet.
LEMMA CreateInd == ASSUME IInv, NEW q \in Quotes, CreateIntent(q) PROVE IInv'
<1> DEFINE r == quote[q]
           s == [r EXCEPT !.status = "order_creating"]
           rec == [actor[q] EXCEPT !.at = "claim"]
<1>1. /\ q \in Actors /\ ~At(q, "idle") /\ At(q, "new")
      /\ quote' = [quote EXCEPT ![q].status = "order_creating"]
      /\ Goto(q, rec) /\ UNCHANGED <<clock, order, posts, calm>>
  <2>1. Goto(q, rec) /\ At(q, "new")
    BY DEF CreateIntent, GoTo
  <2>2. q \in Actors /\ ~At(q, "idle")
    BY <2>1 DEF Actors, At
  <2>3. UNCHANGED <<clock, order, posts, calm>>
    BY DEF CreateIntent, Supplierless
  <2>4. quote' = [quote EXCEPT ![q].status = "order_creating"]
    BY DEF CreateIntent
  <2> QED BY <2>1, <2>2, <2>3, <2>4
<1>2. /\ actor[q] \in Actor /\ actor[q].then \in Onward /\ QuoteOf(q) = q
      /\ Fits(q, actor[q], r, order[q], posts[q])
  <2>1. /\ actor[q] \in Actor /\ actor[q].then \in Onward
        /\ Fits(q, actor[q], quote[QuoteOf(q)], order[QuoteOf(q)],
                posts[QuoteOf(q)])
    BY <1>1, HeldOne
  <2>2. QuoteOf(q) = q
    BY <1>1, <2>1 DEF Fits, At, QuoteOf
  <2> QED BY <2>1, <2>2
<1>3. r \in Quote /\ Consistent(r, order[q], posts[q])
  BY QuoteOne DEF IInv
<1>4. /\ quote' \in [Quotes -> Quote] /\ quote'[q] = s
      /\ \A p \in Quotes : p # q => quote'[p] = quote[p]
  BY <1>1, <1>3 DEF IInv, TypeOK, Quote, QuoteStatuses
<1>5. /\ s.sent = r.sent /\ s.linked = r.linked /\ s.state = r.state
      /\ s.seen = r.seen /\ s.status = "order_creating"
  BY <1>3 DEF Quote
<1> HIDE DEF s
<1>6. Consistent(s, order[q], posts[q])
  BY <1>3, <1>5, ConsistentStill
<1>70. /\ rec \in Actor /\ rec.at = "claim" /\ rec.q = q
       /\ rec.ans = actor[q].ans /\ rec.then = actor[q].then
  BY <1>2 DEF Actor, Stages, QuoteOf
<1> HIDE DEF rec
<1>7. /\ actor' \in [Actors -> Actor] /\ actor'[q] = rec
      /\ \A b \in Actors : b # q => actor'[b] = actor[b]
      /\ rec.at = "claim" /\ rec.q = q /\ rec.ans = actor[q].ans
      /\ rec.then = actor[q].then
  BY <1>1, <1>70 DEF Goto, IInv, TypeOK
<1>8. TypeOK'
  BY <1>1, <1>4, <1>7 DEF IInv, TypeOK
<1>9. Agreement'
  BY <1>1, <1>4, <1>6 DEF IInv, Agreement
<1>10. Hands'
  <2> SUFFICES ASSUME NEW b \in Actors PROVE Held(b, actor[b])'
    BY DEF Hands
  <2>1. CASE b = q
    <3>1. Fits(q, rec, s, order[q], posts[q])
      BY <1>2, <1>7 DEF Fits
    <3> QED BY <1>1, <1>2, <1>4, <1>7, <2>1, <3>1 DEF Held, Onward
  <2>2. CASE b # q
    <3>1. actor'[b] = actor[b] /\ Held(b, actor[b])
      BY <1>7, <2>2 DEF IInv, Hands
    <3>2. CASE actor[b] = Idle \/ actor[b].q # q
      BY <1>1, <1>4, <3>1, <3>2 DEF Held
    <3>3. CASE actor[b] # Idle /\ actor[b].q = q
      <4>1. Fits(b, actor[b], r, order[q], posts[q])
        BY <3>1, <3>3 DEF Held
      <4>2. Fits(b, actor[b], s, order[q], posts[q])
        BY <1>5, <2>2, <3>3, <4>1 DEF Fits
      <4> QED BY <1>1, <1>4, <3>1, <3>3, <4>2 DEF Held
    <3> QED BY <3>2, <3>3
  <2> QED BY <2>1, <2>2
<1>11. OneCaller'
  BY <1>7 DEF IInv, OneCaller, At, QuoteOf
<1> QED BY <1>8, <1>9, <1>10, <1>11 DEF IInv

LEMMA TrackerInd ==
  ASSUME IInv, TrackerStep, ~Finish(Tracker)
  PROVE  IInv'
<1>1. Tracker \in Actors
  BY DEF Actors
<1>2. CASE SweepWrite
  <2>1. /\ ~At(Tracker, "idle") /\ UNCHANGED clock /\ Supplierless
        /\ GoIdle(Tracker)
    BY <1>2 DEF SweepWrite, At
  <2>2. QuoteOf(Tracker) \in Quotes
    BY <1>1, <2>1, HeldOne
  <2>3. GoodQuotes
    BY <1>2, <2>2, SweepGood DEF SweepWrite, IInv
  <2> QED BY <1>1, <2>1, <2>3, EndsIdle
<1>3. ASSUME NEW q \in Quotes, SweepRead(q)
      PROVE  IInv'
  BY <1>1, <1>3, TakesUp DEF SweepRead, TrackerTo, Onward
<1>4. ASSUME NEW q \in Quotes, ResolveCreating(q)
      PROVE  IInv'
  <2>1. QuotesSame /\ Supplierless /\ "idle" \in Onward
    BY <1>4 DEF ResolveCreating, Onward
  <2>2. CASE /\ quote[q].linked
             /\ Goto(Tracker, [at |-> "record", q |-> q, ans |-> order[q],
                               then |-> "idle"])
    BY <1>1, <2>1, <2>2, Asks
  <2>3. CASE TrackerTo("claim", q, "idle")
    BY <1>1, <2>1, <2>3, TakesUp DEF TrackerTo
  <2>4. CASE TrackerTo("hold", q, "idle")
    BY <1>1, <2>1, <2>4, TakesUp DEF TrackerTo
  <2>5. CASE TrackerTo("review", q, "idle")
    BY <1>1, <2>1, <2>5, TakesUp DEF TrackerTo
  <2> QED BY <1>4, <2>2, <2>3, <2>4, <2>5 DEF ResolveCreating
<1>5. ASSUME NEW q \in Quotes, Poll(q)
      PROVE  IInv'
  <2>1. /\ QuotesSame /\ Supplierless /\ quote[q].linked
        /\ "idle" \in Onward /\ "review" \in Onward
    BY <1>5 DEF Poll, NeedsSupplierPoll, Onward
  <2>2. CASE ApplyAnswer(Tracker, q, "idle")
    BY <1>1, <2>1, <2>2, Asks DEF ApplyAnswer
  <2>3. CASE TrackerTo("unknown", q, "review")
    BY <1>1, <2>1, <2>3, TakesUp DEF TrackerTo
  <2>4. CASE TrackerTo("unknown", q, "idle")
    BY <1>1, <2>1, <2>4, TakesUp DEF TrackerTo
  <2>5. CASE TrackerTo("review", q, "idle")
    BY <1>1, <2>1, <2>5, TakesUp DEF TrackerTo
  <2> QED BY <1>5, <2>2, <2>3, <2>4, <2>5 DEF Poll
<1> QED BY <1>2, <1>3, <1>4, <1>5 DEF TrackerStep

LEMMA ObserverInd ==
  ASSUME IInv, NEW o \in Observers, ObserverStep(o), ~Finish(o)
  PROVE  IInv'
<1>1. o \in Actors
  BY DEF Actors
<1>2. CASE Told(o)
  BY <1>1, <1>2, SameQuotes, EndsIdle DEF Told, QuotesSame
<1>3. CASE LaunchDecide(o)
  <2>1. ~At(o, "idle") /\ QuotesSame /\ Supplierless
    BY <1>3 DEF LaunchDecide, At
  <2>2. GoodQuotes /\ ClockOK' /\ UNCHANGED clock
    BY <2>1, SameQuotes, SameClock DEF QuotesSame
  <2> QED BY <1>1, <1>3, <2>1, <2>2, EndsIdle, GoesToHold DEF LaunchDecide
<1>4. CASE Cancel(o)
  BY <1>1, <1>4, CancelInd
<1>5. ASSUME NEW q \in Quotes, Observe(o, q)
      PROVE  IInv'
  BY <1>1, <1>5, Asks, TakesUp DEF Observe, ApplyAnswer, Onward
<1>6. ASSUME NEW q \in Quotes, AskLapsed(o, q)
      PROVE  IInv'
  BY <1>1, <1>6, Asks, TakesUp DEF AskLapsed, ApplyAnswer, Onward
<1>7. ASSUME NEW q \in Quotes, Launch(o, q)
      PROVE  IInv'
  BY <1>1, <1>7, Asks DEF Launch, ApplyAnswer, CanPay, Onward
<1>8. ASSUME NEW q \in Quotes, CancelRead(o, q)
      PROVE  IInv'
  BY <1>1, <1>8, Asks, TakesUp DEF CancelRead, ApplyAnswer, Onward
<1>9. ASSUME NEW q \in Quotes, Resolve(o, q)
      PROVE  IInv'
  <2>1. GoodQuotes
    BY <1>9, ReviewGood DEF Resolve, IInv
  <2>2. UNCHANGED <<clock, actor, order, posts, calm>>
    BY <1>9 DEF Resolve, Supplierless
  <2>3. Goto(o, actor[o])
    BY <1>1, <2>2 DEF Goto, IInv, TypeOK
  <2>4. actor[o] \in Actor /\ Held(o, actor[o])
    BY <1>1 DEF IInv, TypeOK, Hands
  <2>5. actor[o].q \in Quotes => Grown(quote[actor[o].q], quote'[actor[o].q])
    BY <2>1 DEF GoodQuotes
  <2>6. HeldNext(o, actor[o])
    BY <2>4, <2>5, FitsStill DEF Held, HeldNext, Onward
  <2> QED BY <1>1, <2>1, <2>2, <2>3, <2>6, SameClock, ActorStep DEF At, QuoteOf
<1> QED BY <1>2, <1>3, <1>4, <1>5, <1>6, <1>7, <1>8, <1>9 DEF ObserverStep

LEMMA FinishInd == ASSUME IInv, NEW a \in Actors, Finish(a) PROVE IInv'
BY ClaimInd, CallInd, FailureInd, RecordInd, AttachInd, AttachFailsInd, HoldInd,
   ApplyInd, ReviewInd, UnknownInd DEF Finish

\* A crash leaves the store and the supplier alone and empties every hand.
LEMMA CrashInd == ASSUME IInv, Crash PROVE IInv'
<1>1. /\ UNCHANGED <<quote, clock, order, posts, calm>>
      /\ actor' = [a \in Actors |-> IF At(a, "new") THEN actor[a] ELSE Idle]
  BY DEF Crash, QuotesSame, Supplierless
<1>2. Idle \in Actor /\ Idle.at # "call" /\ Idle.then \in Onward
  BY IdleHeld DEF HeldNext, Idle
<1>3. \A a \in Actors : actor'[a] = actor[a] \/ actor'[a] = Idle
  BY <1>1
<1>4. TypeOK'
  BY <1>1, <1>2 DEF IInv, TypeOK
<1>5. Hands'
  BY <1>1, <1>2, <1>3 DEF IInv, Hands, Held, Onward
<1>6. OneCaller'
  BY <1>2, <1>3 DEF IInv, OneCaller, At, QuoteOf
<1> QED BY <1>1, <1>4, <1>5, <1>6 DEF IInv, Agreement

LEMMA QuietInd ==
  ASSUME IInv, UNCHANGED <<quote, actor, order, posts>>, ClockOK', calm' \in BOOLEAN
  PROVE  IInv'
<1>1. TypeOK'
  BY DEF IInv, TypeOK, ClockOK
<1>2. Agreement' /\ Hands' /\ OneCaller'
  BY DEF IInv, Agreement, Hands, Held, OneCaller, At, QuoteOf
<1> QED BY <1>1, <1>2 DEF IInv

LEMMA WorldInd == ASSUME IInv, NEW q \in Quotes, WorldStep(q) PROVE IInv'
<1>1. CASE TimePasses(q)
  <2>1. ClockOK'
    BY <1>1 DEF TimePasses, IInv, TypeOK, ClockOK
  <2> QED BY <1>1, <2>1, QuietInd DEF TimePasses, IInv, TypeOK
<1> QED BY <1>1, SupplierInd DEF WorldStep

LEMMA StepInd == ASSUME IInv, [Next]_vars PROVE IInv'
<1>1. CASE UNCHANGED vars
  BY <1>1, QuietInd, SameClock DEF vars, IInv, TypeOK
<1>2. ASSUME NEW q \in Quotes, CreateIntent(q) \/ Finish(q) \/ WorldStep(q)
      PROVE  IInv'
  BY <1>2, CreateInd, FinishInd, WorldInd DEF Actors
<1>3. CASE TrackerStep
  BY <1>3, TrackerInd, FinishInd DEF Actors
<1>4. ASSUME NEW o \in Observers, ObserverStep(o) PROVE IInv'
  BY <1>4, ObserverInd, FinishInd DEF Actors
<1>5. CASE Crash
  BY <1>5, CrashInd
<1>6. CASE Settle
  BY <1>6, QuietInd, SameClock DEF Settle
<1> QED BY <1>1, <1>2, <1>3, <1>4, <1>5, <1>6 DEF Next

LEMMA InitInd == Init => IInv
<1> SUFFICES ASSUME Init PROVE IInv
  OBVIOUS
<1>1. NewQuote \in Quote /\ Idle \in Actor
  BY QuoteBoundsAssumption
  DEF NewQuote, Quote, QuoteStatuses, SupplierStates, Idle, Actor, Stages
<1>2. \A q \in Quotes :
        [Idle EXCEPT !.at = "new", !.q = q] \in Actor
  BY DEF Idle, Actor, Stages
<1>3. TypeOK
  BY <1>1, <1>2 DEF Init, TypeOK
<1>4. Agreement
  <2>1. ASSUME NEW q \in Quotes PROVE Consistent(quote[q], order[q], posts[q])
    <3>1. quote[q] = NewQuote /\ order[q] = NoOrder /\ posts[q] = 0
      BY <2>1 DEF Init
    <3> QED BY <3>1 DEF Consistent, NewQuote, IsPaidOrBeyond
  <2> QED BY <2>1 DEF Agreement
<1>5. ASSUME NEW a \in Actors PROVE Held(a, actor[a])
  <2>1. CASE a \notin Quotes
    BY <1>5, <2>1 DEF Init, Held, Idle
  <2>2. CASE a \in Quotes
    <3> DEFINE rec == [Idle EXCEPT !.at = "new", !.q = a]
    <3>1. /\ rec.at = "new" /\ rec.q = a /\ rec.ans = NoAnswer
          /\ rec.then = "idle"
      BY DEF Idle
    <3>2. actor[a] = rec /\ quote[a].status = "absent"
      BY <1>5, <2>2 DEF Init, NewQuote
    <3> HIDE DEF rec
    <3>3. Fits(a, rec, quote[a], order[a], posts[a])
      BY <2>2, <3>1, <3>2 DEF Fits
    <3> QED BY <2>2, <3>1, <3>2, <3>3 DEF Held
  <2> QED BY <2>1, <2>2
<1>6. OneCaller
  <2>1. \A a \in Actors : ~At(a, "call")
    BY DEF Init, At, Idle
  <2> QED BY <2>1 DEF OneCaller
<1> QED BY <1>3, <1>4, <1>5, <1>6 DEF IInv, Hands

-----------------------------------------------------------------------------
(* The theorems.                                                           *)

\* The inductive invariant holds in every reachable state.
THEOREM QuoteInvariant == Spec => []IInv
BY InitInd, StepInd, PTL DEF Spec

\* Records, actors, supplier orders and counters keep their types.
THEOREM QuoteTypeOK == Spec => []TypeOK
<1>1. IInv => TypeOK
  BY DEF IInv
<1> QED BY <1>1, QuoteInvariant, PTL

\* At most one order creation ever leaves the shop for one purchase, however
\* the handler, the tracker's redelivery and crashes interleave.
THEOREM QuoteDispatchedOnce == Spec => []DispatchedOnce
<1>1. IInv => DispatchedOnce
  BY DEF IInv, Agreement, Consistent, DispatchedOnce
<1> QED BY <1>1, QuoteInvariant, PTL

\* A purchase that failed without an order id has no order at the supplier.
THEOREM QuoteRejectedNeverOrdered == Spec => []RejectedNeverOrdered
<1>1. IInv => RejectedNeverOrdered
  BY DEF IInv, Agreement, Consistent, RejectedNeverOrdered
<1> QED BY <1>1, QuoteInvariant, PTL

\* Delivery, refund and money are on record only after the supplier has them.
THEOREM QuoteOutcomesAreReal == Spec => []OutcomesAreReal
<1>1. IInv => OutcomesAreReal
  BY DEF IInv, Agreement, Consistent, OutcomesAreReal
<1> QED BY <1>1, QuoteInvariant, PTL

-----------------------------------------------------------------------------
(* What a step may do to a quote that already has an answer on record.     *)

\* A state that shows money has left its evidence on the quote.
Evident(r) == IsPaidOrBeyond(r.state) => r.seen

\* Quote r may be replaced by s: the stamp grows, money evidence and a hold stay,
\* a later answer that shows money leaves its evidence, and an outcome stays,
\* except that a delivery may still be refunded.
Forward(r, s) ==
  /\ s.at >= r.at
  /\ r.seen => s.seen
  /\ r.held => s.held
  /\ s.state # r.state /\ r.state # "none" => Evident(s)
  /\ r.status = "fulfilled" => s.status \in {"fulfilled", "refunded"}
  /\ r.status = "fulfilled" /\ s.state # r.state => s.status = "refunded"
  /\ r.status = "refunded" => s.status = "refunded"

\* The quotes' next values, one of them at most moved forward.
OneMoves ==
  \/ quote' = quote
  \/ \E q \in Quotes, s \in Quote :
       quote' = [quote EXCEPT ![q] = s] /\ Forward(quote[q], s)

\* A write that leaves stamp and answer alone, from a status it may leave.
LEMMA PlainWrite ==
  ASSUME NEW q \in Quotes, NEW s, quote[q] \in Quote,
         quote' = [quote EXCEPT ![q] = s], s \in Quote,
         s.at = quote[q].at, s.state = quote[q].state,
         s.seen = quote[q].seen, quote[q].held => s.held,
         s.status = quote[q].status \/ quote[q].status \notin Settled
  PROVE  OneMoves
<1>1. Forward(quote[q], s)
  BY QuoteBoundsAssumption DEF Forward, Settled, Quote
<1> QED BY <1>1 DEF OneMoves

\* The table's way out of an outcome.
LEMMA NotFromOutcome ==
  ASSUME NEW q \in Quotes, quote[q] \in Quote,
         NEW to \in QuoteStatuses \ Settled, CanTransition(q, to)
  PROVE  quote[q].status \notin Settled
<1>1. quote[q].status \in QuoteStatuses \cup {"absent"}
  BY DEF Quote
<1>2. to # "refunded"
  BY DEF Settled
<1> QED BY <1>1, <1>2, TransitionFacts DEF CanTransition, Settled

LEMMA TransitionMoves ==
  ASSUME TypeOK, NEW q \in Quotes, NEW to \in QuoteStatuses \ Settled,
         Transition(q, to)
  PROVE  OneMoves
<1> DEFINE r == quote[q]
           s == IF CanTransition(q, to) THEN [r EXCEPT !.status = to] ELSE r
<1>1. r \in Quote /\ quote' = [quote EXCEPT ![q] = s]
  BY DEF TypeOK, Transition
<1>2. s \in Quote
  BY <1>1 DEF Quote
<1>3. /\ s.at = r.at /\ s.state = r.state
      /\ s.seen = r.seen /\ s.held = r.held
      /\ s.status = r.status \/ CanTransition(q, to)
  BY <1>1 DEF Quote
<1>4. s.status = r.status \/ r.status \notin Settled
  BY <1>1, <1>3, NotFromOutcome
<1> HIDE DEF s
<1> QED BY <1>1, <1>2, <1>3, <1>4, PlainWrite

LEMMA HoldMoves ==
  ASSUME TypeOK, NEW q \in Quotes,
         quote' = [quote EXCEPT ![q] =
                     IF CanTransition(q, "manual_review")
                     THEN [@ EXCEPT !.status = "manual_review", !.held = TRUE]
                     ELSE @]
  PROVE  OneMoves
<1> DEFINE r == quote[q]
           s == IF CanTransition(q, "manual_review")
                THEN [r EXCEPT !.status = "manual_review", !.held = TRUE] ELSE r
<1>1. r \in Quote /\ quote' = [quote EXCEPT ![q] = s]
  BY DEF TypeOK
<1>2. s \in Quote
  BY <1>1 DEF Quote, QuoteStatuses
<1>3. /\ s.at = r.at /\ s.state = r.state
      /\ s.seen = r.seen /\ (r.held => s.held)
      /\ s.status = r.status \/ CanTransition(q, "manual_review")
  BY <1>1 DEF Quote
<1>4. s.status = r.status \/ r.status \notin Settled
  BY <1>1, <1>3, NotFromOutcome DEF QuoteStatuses, Settled
<1> HIDE DEF s
<1> QED BY <1>1, <1>2, <1>3, <1>4, PlainWrite

LEMMA AttachMoves ==
  ASSUME TypeOK, NEW q \in Quotes, CanTransition(q, "awaiting_payment"),
         quote' = [quote EXCEPT ![q].status = "awaiting_payment",
                                ![q].invoice = TRUE]
  PROVE  OneMoves
<1> DEFINE r == quote[q]
           s == [r EXCEPT !.status = "awaiting_payment", !.invoice = TRUE]
<1>1. r \in Quote /\ quote' = [quote EXCEPT ![q] = s]
  BY DEF TypeOK
<1>2. /\ s \in Quote /\ s.at = r.at /\ s.state = r.state
      /\ s.seen = r.seen /\ s.held = r.held
  BY <1>1 DEF Quote, QuoteStatuses
<1>3. r.status \notin Settled
  BY <1>1, NotFromOutcome DEF QuoteStatuses, Settled
<1> HIDE DEF s
<1> QED BY <1>1, <1>2, <1>3, PlainWrite

\* The three flags that no status depends on.
LEMMA FlagMoves ==
  ASSUME TypeOK, NEW q \in Quotes,
         \/ quote' = [quote EXCEPT ![q].sent = TRUE]
         \/ quote' = [quote EXCEPT ![q].unknown = TRUE]
         \/ quote' = [quote EXCEPT ![q].unknown = FALSE]
  PROVE  OneMoves
<1> DEFINE r == quote[q]
<1>1. r \in Quote
  BY DEF TypeOK
<1>2. ASSUME NEW s \in {[r EXCEPT !.sent = TRUE], [r EXCEPT !.unknown = TRUE],
                        [r EXCEPT !.unknown = FALSE]}
      PROVE  /\ s \in Quote /\ s.at = r.at /\ s.state = r.state
             /\ s.seen = r.seen /\ s.held = r.held
             /\ s.status = r.status
  BY <1>1, <1>2 DEF Quote
<1>3. PICK s \in {[r EXCEPT !.sent = TRUE], [r EXCEPT !.unknown = TRUE],
                  [r EXCEPT !.unknown = FALSE]} :
        quote' = [quote EXCEPT ![q] = s]
  BY DEF TypeOK
<1> QED BY <1>1, <1>2, <1>3, PlainWrite

LEMMA SweepMoves ==
  ASSUME TypeOK, NEW q \in Quotes,
         quote' = [quote EXCEPT ![q] =
                     IF "expired" \in quoteTransitions(@.status)
                     THEN [@ EXCEPT !.status = "expired"] ELSE @]
  PROVE  OneMoves
<1> DEFINE r == quote[q]
           s == IF "expired" \in quoteTransitions(r.status)
                THEN [r EXCEPT !.status = "expired"] ELSE r
<1>1. r \in Quote /\ quote' = [quote EXCEPT ![q] = s]
  BY DEF TypeOK
<1>2. s \in Quote
  BY <1>1 DEF Quote, QuoteStatuses
<1>3. /\ s.at = r.at /\ s.state = r.state
      /\ s.seen = r.seen /\ s.held = r.held
      /\ s.status = r.status \/ "expired" \in quoteTransitions(r.status)
  BY <1>1 DEF Quote
<1>4. s.status = r.status \/ r.status \notin Settled
  BY <1>1, <1>3, NotFromOutcome DEF QuoteStatuses, Settled, CanTransition
<1> HIDE DEF s
<1> QED BY <1>1, <1>2, <1>3, <1>4, PlainWrite

\* The first answer that links the order cannot meet an outcome: an outcome has
\* an answer on record.
LEMMA RecordMoves ==
  ASSUME TypeOK, Agreement, NEW q \in Quotes, NEW ans \in Answer,
         quote' = [quote EXCEPT ![q].linked = TRUE,
                     ![q].state = IF @ = "none" THEN ans.state ELSE @]
  PROVE  OneMoves
<1> DEFINE r == quote[q]
           s == [r EXCEPT !.linked = TRUE,
                          !.state = IF @ = "none" THEN ans.state ELSE @]
<1>1. r \in Quote /\ Consistent(r, order[q], posts[q])
  BY QuoteOne
<1>2. quote' = [quote EXCEPT ![q] = s]
  BY DEF TypeOK
<1>3. ans.state \in SupplierStates
  BY DEF Answer
<1>4. s \in Quote
  BY <1>1, <1>3 DEF Quote
<1>5. /\ s.at = r.at /\ s.status = r.status
      /\ s.seen = r.seen /\ s.held = r.held
      /\ r.state # "none" => s.state = r.state
  BY <1>1 DEF Quote
<1>6. Forward(r, s)
  BY <1>1, <1>5, QuoteBoundsAssumption DEF Forward, Quote, Consistent
<1> QED BY <1>2, <1>4, <1>6 DEF OneMoves

\* An accepted answer is not older, and leaves an outcome only for a refund.
LEMMA ApplyMoves ==
  ASSUME TypeOK, NEW q \in Quotes, NEW ans \in Answer, ApplySupplierOrder(q, ans)
  PROVE  OneMoves
<1> DEFINE r == quote[q]
           to == MapToQuoteStatus(ans.state)
           money == r.seen \/ MoneyObserved(ans)
           stamp == IF ans.at = 0 THEN r.at ELSE ans.at
           s == Updated(r, ans)
<1>1. r \in Quote
  BY DEF TypeOK
<1>2. CASE ~Changed(q, ans)
  BY <1>2, FlagMoves DEF ApplySupplierOrder
<1>3. CASE Changed(q, ans)
  <2>1. quote' = [quote EXCEPT ![q] = s]
    BY <1>3 DEF ApplySupplierOrder
  <2>2. /\ ans.state \in SupplierStates /\ ans.at \in 0 .. MaxStamp
    BY DEF Answer
  <2>3. to \in QuoteStatuses
    BY <2>2, MapFacts
  <2>4. money \in BOOLEAN
    OBVIOUS
  <2>5. /\ stamp \in 0 .. MaxStamp /\ stamp >= r.at
    BY <1>1, <1>3, <2>2, QuoteBoundsAssumption DEF Quote, Changed, IsStale
  <2>6. CanTransition(q, to)
    BY <1>3 DEF Changed
  <2>7. /\ r.status = "fulfilled" => to = "refunded"
        /\ r.status # "refunded"
    BY <1>1, <2>6, TransitionFacts DEF Quote, CanTransition, QuoteStatuses, Settled
  <2>8. s = [r EXCEPT !.status = to, !.state = ans.state, !.at = stamp,
                      !.seen = money, !.unknown = FALSE]
    BY Zenon DEF Updated
  <2> HIDE DEF money, stamp, s, to
  <2>9. /\ s \in Quote /\ s.at = stamp /\ s.status = to
        /\ s.state = ans.state /\ s.seen = money /\ s.held = r.held
    BY <1>1, <2>2, <2>3, <2>4, <2>5, <2>8 DEF Quote
  <2>10. Evident(s) /\ (r.seen => s.seen)
    BY <2>9 DEF Evident, MoneyObserved, money
  <2>11. Forward(r, s)
    BY <2>5, <2>7, <2>9, <2>10 DEF Forward
  <2> QED BY <2>1, <2>9, <2>11 DEF OneMoves
<1> QED BY <1>2, <1>3

\* The writes an actor makes from what it holds.
LEMMA FinishMoves == ASSUME IInv, NEW a \in Actors, Finish(a) PROVE OneMoves
<1> DEFINE q == QuoteOf(a)
<1>1. TypeOK /\ Agreement
  BY DEF IInv
<1>2. ~At(a, "idle")
  BY DEF Finish, At, ClaimDispatch, CallSupplier, MarkSupplierFailure,
         RecordSupplierOrder, AttachQuotePayment, AttachFails, Hold, Apply,
         Review, MarkUnknown
<1>3. /\ q \in Quotes
      /\ Fits(a, actor[a], quote[q], order[q], posts[q])
  BY <1>2, HeldOne
<1>4. At(a, "record") \/ At(a, "apply") => actor[a].ans \in Answer
  BY <1>3 DEF Fits, At
<1> HIDE DEF q
<1>5. CASE ClaimDispatch(a)
  BY <1>1, <1>3, <1>5, FlagMoves DEF ClaimDispatch, OneMoves, q
<1>6. CASE CallSupplier(a)
  BY <1>6 DEF CallSupplier, QuotesSame, OneMoves
<1>7. CASE MarkSupplierFailure(a)
  BY <1>1, <1>3, <1>7, TransitionMoves
     DEF MarkSupplierFailure, OneMoves, QuoteStatuses, Settled, q
<1>8. CASE RecordSupplierOrder(a)
  BY <1>1, <1>3, <1>4, <1>8, RecordMoves DEF RecordSupplierOrder, OneMoves, q
<1>9. CASE AttachQuotePayment(a)
  BY <1>1, <1>3, <1>9, AttachMoves
     DEF AttachQuotePayment, QuotesSame, OneMoves, q
<1>10. CASE AttachFails(a)
  BY <1>10 DEF AttachFails, QuotesSame, OneMoves
<1>11. CASE Hold(a)
  BY <1>1, <1>3, <1>11, HoldMoves DEF Hold, OneMoves, q
<1>12. CASE Apply(a)
  BY <1>1, <1>3, <1>4, <1>12, ApplyMoves DEF Apply, OneMoves, q
<1>13. CASE Review(a)
  BY <1>1, <1>3, <1>13, TransitionMoves
     DEF Review, OneMoves, QuoteStatuses, Settled, q
<1>14. CASE MarkUnknown(a)
  BY <1>1, <1>3, <1>14, FlagMoves DEF MarkUnknown, q
<1> QED BY <1>5, <1>6, <1>7, <1>8, <1>9, <1>10, <1>11, <1>12, <1>13, <1>14
        DEF Finish

\* No step forgets a stamp or an outcome.
LEMMA StepMoves == ASSUME IInv, [Next]_vars PROVE OneMoves
<1>1. CASE UNCHANGED vars
  BY <1>1 DEF vars, OneMoves
<1>2. ASSUME NEW q \in Quotes, CreateIntent(q) PROVE OneMoves
  <2> DEFINE r == quote[q]
             s == [r EXCEPT !.status = "order_creating"]
  <2>1. /\ r \in Quote /\ quote' = [quote EXCEPT ![q] = s]
    BY <1>2 DEF IInv, TypeOK, CreateIntent
  <2>2. /\ ~At(q, "idle") /\ q \in Actors /\ At(q, "new")
    BY <1>2 DEF CreateIntent, At, Actors
  <2>3. /\ actor[q].q = QuoteOf(q)
        /\ Fits(q, actor[q], quote[QuoteOf(q)], order[QuoteOf(q)],
                posts[QuoteOf(q)])
    BY <2>2, HeldOne DEF QuoteOf
  <2>4. QuoteOf(q) = q
    BY <2>2, <2>3 DEF Fits, At
  <2>5. r.status = "absent"
    BY <2>2, <2>3, <2>4 DEF Fits, At
  <2>6. /\ s \in Quote /\ s.at = r.at /\ s.state = r.state
        /\ s.seen = r.seen /\ s.held = r.held
    BY <2>1 DEF Quote, QuoteStatuses
  <2> HIDE DEF s
  <2> QED BY <2>1, <2>5, <2>6, PlainWrite DEF Settled
<1>3. ASSUME NEW q \in Quotes, Finish(q) \/ WorldStep(q) PROVE OneMoves
  BY <1>3, FinishMoves
     DEF WorldStep, SupplierMoves, TimePasses, OneMoves, Actors
<1>4. CASE TrackerStep
  <2>1. CASE SweepWrite
    <3>1. At(Tracker, "sweep") /\ Tracker \in Actors
      BY <2>1 DEF SweepWrite, Actors
    <3>2. QuoteOf(Tracker) \in Quotes
      BY <3>1, HeldOne DEF At
    <3> QED BY <2>1, <3>2, SweepMoves DEF SweepWrite, IInv
  <2>2. ASSUME NEW q \in Quotes, SweepRead(q) \/ ResolveCreating(q) \/ Poll(q)
        PROVE  OneMoves
    BY <2>2 DEF SweepRead, ResolveCreating, Poll, QuotesSame, OneMoves
  <2> QED BY <1>4, <2>1, <2>2, FinishMoves DEF TrackerStep, Actors
<1>5. ASSUME NEW o \in Observers, ObserverStep(o) PROVE OneMoves
  <2>1. ASSUME NEW q \in Quotes, Resolve(o, q) PROVE OneMoves
    BY <2>1, TransitionMoves DEF Resolve, IInv, QuoteStatuses, Settled
  <2>2. ASSUME NEW q \in Quotes,
               \/ Observe(o, q) \/ AskLapsed(o, q) \/ Launch(o, q)
               \/ CancelRead(o, q)
        PROVE  OneMoves
    BY <2>2 DEF Observe, AskLapsed, Launch, CancelRead, QuotesSame, OneMoves
  <2>3. CASE Told(o) \/ LaunchDecide(o) \/ Cancel(o)
    BY <2>3 DEF Told, LaunchDecide, Cancel, QuotesSame, OneMoves
  <2> QED BY <1>5, <2>1, <2>2, <2>3, FinishMoves DEF ObserverStep, Actors
<1>6. CASE Crash \/ Settle
  BY <1>6 DEF Crash, Settle, QuotesSame, OneMoves
<1> QED BY <1>1, <1>2, <1>3, <1>4, <1>5, <1>6 DEF Next

\* Each quote by itself moves forward.
LEMMA EachForward ==
  ASSUME TypeOK, OneMoves, NEW q \in Quotes
  PROVE  quote'[q] \in Quote /\ Forward(quote[q], quote'[q])
<1>1. quote[q] \in Quote
  BY DEF TypeOK
<1>2. Forward(quote[q], quote[q])
  BY <1>1, QuoteBoundsAssumption DEF Forward, Quote
<1>3. CASE quote' = quote
  BY <1>1, <1>2, <1>3
<1>4. ASSUME NEW p \in Quotes, NEW s \in Quote,
             quote' = [quote EXCEPT ![p] = s], Forward(quote[p], s)
      PROVE  quote'[q] \in Quote /\ Forward(quote[q], quote'[q])
  <2>1. CASE q = p
    BY <1>4, <2>1 DEF TypeOK
  <2>2. CASE q # p
    <3>1. quote'[q] = quote[q]
      BY <1>4, <2>2 DEF TypeOK
    <3> QED BY <1>1, <1>2, <3>1
  <2> QED BY <2>1, <2>2
<1> QED BY <1>3, <1>4 DEF OneMoves

\* An answer fetched earlier and applied later never overwrites a newer one.
THEOREM QuoteNewerAnswersStay == Spec => NewerAnswersStay
<1> DEFINE Stays ==
      \A q \in Quotes :
        /\ quote'[q].at >= quote[q].at
        /\ quote[q].status = "fulfilled" /\ quote'[q].state # quote[q].state =>
             quote'[q].status = "refunded"
<1>1. ASSUME IInv, [Next]_vars PROVE Stays
  BY <1>1, StepMoves, EachForward DEF Forward, IInv
<1>2. IInv /\ [Next]_vars => [Stays]_vars
  BY <1>1
<1> QED BY <1>2, QuoteInvariant, PTL DEF Spec, NewerAnswersStay

-----------------------------------------------------------------------------
(* Money evidence.  A quote with an invoice would be payable again if its   *)
(* state showed money that left no evidence.  Only the answer of a creation *)
(* is recorded without evidence, so every invoice, and every actor about to *)
(* attach one, must be past that; and while a quote is unlinked only one    *)
(* actor can hold an answer about it.                                       *)

\* The actor attaches an invoice next, or records an answer that lets it.
Offers(rec) ==
  \/ rec.at = "attach"
  \/ rec.at = "record" /\ rec.ans.state = "Waiting" /\ ~rec.ans.money

InvoiceOK(q) == quote[q].invoice => quote[q].linked /\ Evident(quote[q])

OfferOK(a) ==
  /\ At(a, "attach") => quote[QuoteOf(a)].linked
  /\ Offers(actor[a]) => Evident(quote[QuoteOf(a)])

OneHolder ==
  \A a, b \in Actors :
    /\ actor[a].ans # NoAnswer /\ actor[b].ans # NoAnswer
    /\ QuoteOf(a) = QuoteOf(b) /\ ~quote[QuoteOf(a)].linked
    => a = b

EvidenceInv ==
  /\ IInv
  /\ \A q \in Quotes : InvoiceOK(q)
  /\ \A a \in Actors : OfferOK(a)
  /\ OneHolder

\* An actor keeps what it holds or drops it,
KeepsHand(rec, new) ==
  /\ new.q = rec.q
  /\ new.at = "attach" => rec.at = "attach"
  /\ Offers(new) => Offers(rec)
  /\ new.ans # NoAnswer => rec.ans # NoAnswer

\* or takes up a linked quote, or one without an answer.
FreshHand(new) ==
  /\ new.at # "attach"
  /\ Offers(new) => quote[new.q].linked /\ Evident(quote[new.q])
  /\ new.ans # NoAnswer => quote[new.q].linked

HandsKept ==
  \A a \in Actors : KeepsHand(actor[a], actor'[a]) \/ FreshHand(actor'[a])

\* No quote is linked, and an invoice comes only to a linked quote whose money
\* left its evidence.
LinksKept ==
  \A q \in Quotes :
    /\ quote'[q].linked = quote[q].linked
    /\ quote'[q].invoice =>
         quote[q].invoice \/ (quote[q].linked /\ Evident(quote[q]))

\* On a linked quote the evidence keeps up with the state.
LEMMA EvidentStays ==
  ASSUME IInv, OneMoves, NEW q \in Quotes, quote[q].linked, Evident(quote[q])
  PROVE  Evident(quote'[q])
<1>1. quote[q].state # "none"
  BY DEF IInv, Agreement, Consistent
<1>2. Forward(quote[q], quote'[q])
  BY EachForward DEF IInv
<1> QED BY <1>1, <1>2 DEF Forward, Evident

LEMMA UnlinkedEvident ==
  ASSUME NEW r, NEW o, NEW n, Consistent(r, o, n), ~r.linked
  PROVE  Evident(r)
<1>1. r.state = "none"
  BY DEF Consistent
<1> QED BY <1>1 DEF Evident, IsPaidOrBeyond

\* Whoever holds an answer or is about to offer holds a quote.
LEMMA HolderHasQuote ==
  ASSUME NEW a, NEW rec, Held(a, rec), rec.ans # NoAnswer \/ Offers(rec)
  PROVE  rec.q \in Quotes
<1>1. rec # Idle
  BY DEF Offers, Idle
<1> QED BY <1>1 DEF Held

LEMMA EvidenceStep ==
  ASSUME EvidenceInv, IInv', OneMoves, LinksKept, HandsKept
  PROVE  EvidenceInv'
<1>1. ASSUME NEW q \in Quotes PROVE InvoiceOK(q)'
  BY EvidentStays DEF InvoiceOK, LinksKept, EvidenceInv
<1>2. \A a \in Actors :
        actor'[a].ans # NoAnswer \/ Offers(actor'[a]) => actor'[a].q \in Quotes
  <2> SUFFICES ASSUME NEW a \in Actors,
                      actor'[a].ans # NoAnswer \/ Offers(actor'[a])
               PROVE  actor'[a].q \in Quotes
    OBVIOUS
  <2>1. actor'[a] # Idle
    BY DEF Offers, Idle
  <2> QED BY <2>1 DEF IInv, Hands, Held
<1>3. ASSUME NEW a \in Actors PROVE OfferOK(a)'
  <2> DEFINE rec == actor[a]
             new == actor'[a]
  <2>1. SUFFICES ASSUME Offers(new)
                 PROVE  /\ new.at = "attach" => quote'[new.q].linked
                        /\ Evident(quote'[new.q])
    BY DEF OfferOK, Offers, At, QuoteOf
  <2>2. new.q \in Quotes
    BY <1>2, <2>1
  <2>3. CASE FreshHand(new)
    BY <2>1, <2>2, <2>3, EvidentStays DEF FreshHand, EvidenceInv
  <2>4. CASE KeepsHand(rec, new)
    <3>1. new.q = rec.q /\ Offers(rec)
      BY <2>1, <2>4 DEF KeepsHand
    <3>2. Evident(quote[new.q]) /\ (new.at = "attach" => quote[new.q].linked)
      BY <2>4, <3>1 DEF EvidenceInv, OfferOK, KeepsHand, At, QuoteOf
    <3>3. CASE quote[new.q].linked
      BY <2>2, <3>2, <3>3, EvidentStays DEF LinksKept, EvidenceInv
    <3>4. CASE ~quote[new.q].linked
      <4>1. ~quote'[new.q].linked
        BY <2>2, <3>4 DEF LinksKept
      <4>2. Consistent(quote'[new.q], order'[new.q], posts'[new.q])
        BY <2>2 DEF IInv, Agreement
      <4>3. Evident(quote'[new.q])
        BY <4>1, <4>2, UnlinkedEvident
      <4> QED BY <3>2, <3>4, <4>3
    <3> QED BY <3>3, <3>4
  <2> QED BY <2>3, <2>4 DEF HandsKept
<1>4. OneHolder'
  <2> SUFFICES ASSUME NEW a \in Actors, NEW b \in Actors,
                      actor'[a].ans # NoAnswer, actor'[b].ans # NoAnswer,
                      actor'[a].q = actor'[b].q, ~quote'[actor'[a].q].linked
               PROVE  a = b
    BY DEF OneHolder, QuoteOf
  <2>1. actor'[a].q \in Quotes
    BY <1>2
  <2>2. ~quote[actor'[a].q].linked
    BY <2>1 DEF LinksKept
  <2>3. KeepsHand(actor[a], actor'[a]) /\ KeepsHand(actor[b], actor'[b])
    BY <2>2 DEF HandsKept, FreshHand
  <2> QED BY <2>2, <2>3 DEF KeepsHand, EvidenceInv, OneHolder, QuoteOf
<1> QED BY <1>1, <1>3, <1>4 DEF EvidenceInv

\* Ways in which an actor's hands stay harmless.
LEMMA OneHand ==
  ASSUME TypeOK, NEW a \in Actors, NEW rec, Goto(a, rec),
         KeepsHand(actor[a], rec) \/ FreshHand(rec)
  PROVE  HandsKept
<1>1. actor'[a] = rec /\ \A b \in Actors : b # a => actor'[b] = actor[b]
  BY DEF Goto, TypeOK
<1> QED BY <1>1 DEF HandsKept, KeepsHand

LEMMA SameHands == ASSUME UNCHANGED actor PROVE HandsKept
BY DEF HandsKept, KeepsHand

LEMMA IdleIsFresh == FreshHand(Idle)
BY DEF FreshHand, Idle, Offers

LEMMA IdleHand == ASSUME TypeOK, NEW a \in Actors, GoIdle(a) PROVE HandsKept
BY OneHand, IdleIsFresh DEF GoIdle

LEMMA NextStageHand ==
  ASSUME TypeOK, NEW a \in Actors, NEW stage \in Stages \ {"attach", "record"},
         NEW ans \in {actor[a].ans, NoAnswer}, NEW then \in Stages, NEW rec,
         rec = [actor[a] EXCEPT !.at = stage, !.ans = ans, !.then = then],
         Goto(a, rec)
  PROVE  HandsKept
<1>1. actor[a] \in Actor
  BY DEF TypeOK
<1>2. rec.at = stage /\ rec.q = actor[a].q /\ rec.ans = ans
  BY <1>1 DEF Actor
<1>3. KeepsHand(actor[a], rec)
  BY <1>2 DEF KeepsHand, Offers
<1> QED BY <1>3, OneHand

LEMMA GoToHand ==
  ASSUME TypeOK, NEW a \in Actors, NEW stage \in Stages \ {"attach", "record"},
         GoTo(a, stage)
  PROVE  HandsKept
<1>1. actor[a] \in Actor
  BY DEF TypeOK
<1>2. [actor[a] EXCEPT !.at = stage] =
        [actor[a] EXCEPT !.at = stage, !.ans = actor[a].ans, !.then = actor[a].then]
  BY <1>1 DEF Actor
<1> QED BY <1>1, <1>2, NextStageHand DEF GoTo, Actor

LEMMA GoHoldHand == ASSUME TypeOK, NEW a \in Actors, GoHold(a) PROVE HandsKept
<1>1. actor[a] \in Actor /\ "hold" \in Stages \ {"attach", "record"}
  BY DEF TypeOK, Stages
<1>2. [actor[a] EXCEPT !.at = "hold", !.ans = NoAnswer] =
        [actor[a] EXCEPT !.at = "hold", !.ans = NoAnswer, !.then = actor[a].then]
  BY <1>1 DEF Actor
<1> QED BY <1>1, <1>2, NextStageHand DEF GoHold, Actor

LEMMA TakeUpHand ==
  ASSUME TypeOK, NEW a \in Actors, NEW q,
         NEW stage \in {"sweep", "claim", "hold", "review", "unknown"}, NEW then,
         TakeUp(a, stage, q, then)
  PROVE  HandsKept
<1> DEFINE rec == [at |-> stage, q |-> q, ans |-> NoAnswer, then |-> then]
<1>1. FreshHand(rec)
  BY DEF FreshHand, Offers
<1> QED BY <1>1, OneHand DEF TakeUp

LEMMA AnswerHand ==
  ASSUME TypeOK, NEW a \in Actors, NEW q, quote[q].linked, NEW then,
         ApplyAnswer(a, q, then)
  PROVE  HandsKept
<1> DEFINE rec == [at |-> "apply", q |-> q, ans |-> order[q], then |-> then]
<1>1. FreshHand(rec)
  BY DEF FreshHand, Offers
<1> QED BY <1>1, OneHand DEF ApplyAnswer

\* A write to one quote that neither links it nor gives it an invoice.
LEMMA PlainLinks ==
  ASSUME TypeOK, NEW q \in Quotes, NEW s, quote' = [quote EXCEPT ![q] = s],
         s.linked = quote[q].linked, s.invoice = quote[q].invoice
  PROVE  LinksKept
<1> SUFFICES ASSUME NEW p \in Quotes
             PROVE  /\ quote'[p].linked = quote[p].linked
                    /\ quote'[p].invoice = quote[p].invoice
  BY DEF LinksKept
<1> QED BY DEF TypeOK

LEMMA SameLinks == ASSUME UNCHANGED quote PROVE LinksKept
BY DEF LinksKept

LEMMA TransitionLinks ==
  ASSUME TypeOK, NEW q \in Quotes, NEW to, Transition(q, to)
  PROVE  LinksKept
<1> DEFINE r == quote[q]
           s == IF CanTransition(q, to) THEN [r EXCEPT !.status = to] ELSE r
<1>1. r \in Quote /\ quote' = [quote EXCEPT ![q] = s]
  BY DEF TypeOK, Transition
<1>2. s.linked = r.linked /\ s.invoice = r.invoice
  BY <1>1 DEF Quote
<1> HIDE DEF s
<1> QED BY <1>1, <1>2, PlainLinks

\* The one answer to a creation: nobody else holds one, and the unlinked quote
\* shows no money yet.
LEMMA CallEvidence ==
  ASSUME EvidenceInv, IInv', NEW a \in Actors, CallSupplier(a)
  PROVE  EvidenceInv'
<1> DEFINE q == QuoteOf(a)
<1>1. /\ TypeOK /\ IInv /\ At(a, "call") /\ quote' = quote
      /\ OneMoves /\ LinksKept
  BY SameLinks DEF EvidenceInv, IInv, CallSupplier, QuotesSame, OneMoves
<1>2. CASE GoTo(a, "fail")
  <2>1. HandsKept
    BY <1>1, <1>2, GoToHand DEF Stages
  <2> QED BY <1>1, <2>1, EvidenceStep
<1>3. CASE GoIdle(a)
  BY <1>1, <1>3, IdleHand, EvidenceStep
<1>4. ASSUME NEW new \in Created, order' = [order EXCEPT ![q] = new],
             Goto(a, [actor[a] EXCEPT !.at = "record", !.ans = new])
      PROVE  EvidenceInv'
  <2> DEFINE rec == [actor[a] EXCEPT !.at = "record", !.ans = new]
  <2>1. /\ q \in Quotes /\ actor[a] \in Actor
        /\ Fits(a, actor[a], quote[q], order[q], posts[q])
    BY <1>1, HeldOne DEF At
  <2>2. order[q] = NoOrder /\ ~quote[q].linked
    BY <1>1, <2>1 DEF Fits, At, IInv, Agreement, Consistent
  <2>3. Evident(quote[q])
    BY <1>1, <2>1, <2>2, UnlinkedEvident DEF IInv, Agreement
  <2>4. rec.at = "record" /\ rec.q = q /\ rec.ans = new
    BY <2>1 DEF Actor, QuoteOf
  <2>5. /\ actor'[a] = rec
        /\ \A b \in Actors : b # a => actor'[b] = actor[b]
    BY <1>1, <1>4 DEF Goto, TypeOK
  <2> HIDE DEF rec
  <2>6. \A b \in Actors : b # a /\ actor[b].q = q => actor[b].ans = NoAnswer
    BY <1>1, <2>1, <2>2 DEF IInv, Hands, Held, Fits, Idle
  <2>7. OneHolder'
    BY <1>1, <2>4, <2>5, <2>6 DEF EvidenceInv, OneHolder, QuoteOf
  <2>8. ASSUME NEW b \in Actors PROVE OfferOK(b)'
    BY <1>1, <2>3, <2>4, <2>5 DEF EvidenceInv, OfferOK, At, QuoteOf
  <2>9. ASSUME NEW p \in Quotes PROVE InvoiceOK(p)'
    BY <1>1 DEF EvidenceInv, InvoiceOK
  <2> QED BY <2>7, <2>8, <2>9 DEF EvidenceInv
<1> QED BY <1>2, <1>3, <1>4 DEF CallSupplier

\* The answer that links a quote is the only one anybody holds; if it lets an
\* invoice be attached, it showed no money.
LEMMA RecordEvidence ==
  ASSUME EvidenceInv, IInv', NEW a \in Actors, RecordSupplierOrder(a)
  PROVE  EvidenceInv'
<1> DEFINE q == QuoteOf(a)
           ans == actor[a].ans
<1>1. /\ TypeOK /\ IInv /\ At(a, "record") /\ ~At(a, "idle") /\ OneMoves
  BY FinishMoves DEF EvidenceInv, IInv, RecordSupplierOrder, At, Finish
<1>2. /\ q \in Quotes /\ actor[a] \in Actor /\ ans \in Answer
      /\ quote[q] \in Quote
  BY <1>1, HeldOne DEF Fits, At, TypeOK
<1>3. CASE GoHold(a) /\ UNCHANGED quote
  BY <1>1, <1>3, SameLinks, GoHoldHand, EvidenceStep
<1>4. ASSUME quote' = [quote EXCEPT ![q].linked = TRUE,
                         ![q].state = IF @ = "none" THEN ans.state ELSE @],
             \/ /\ ans.state = "Waiting" /\ ~ans.money
                /\ Goto(a, [actor[a] EXCEPT !.at = "attach", !.ans = NoAnswer])
             \/ GoHold(a) \/ GoTo(a, "hold")
      PROVE  EvidenceInv'
  <2> DEFINE r == quote[q]
             s == [r EXCEPT !.linked = TRUE,
                            !.state = IF @ = "none" THEN ans.state ELSE @]
  <2>1. quote' = [quote EXCEPT ![q] = s]
    BY <1>1, <1>2, <1>4 DEF TypeOK
  <2>2. /\ quote'[q] = s /\ s.linked /\ s.invoice = r.invoice
        /\ s.state = IF r.state = "none" THEN ans.state ELSE r.state
        /\ \A p \in Quotes : p # q => quote'[p] = quote[p]
    BY <1>1, <1>2, <2>1 DEF TypeOK, Quote
  <2> HIDE DEF s
  <2>3. PICK rec \in {[actor[a] EXCEPT !.at = "attach", !.ans = NoAnswer],
                      [actor[a] EXCEPT !.at = "hold", !.ans = NoAnswer],
                      [actor[a] EXCEPT !.at = "hold"]} :
          /\ Goto(a, rec)
          /\ rec.at = "attach" => ans.state = "Waiting" /\ ~ans.money
    <3>1. CASE Goto(a, [actor[a] EXCEPT !.at = "attach", !.ans = NoAnswer])
               /\ ans.state = "Waiting" /\ ~ans.money
      BY <3>1
    <3>2. CASE GoHold(a)
      <4>1. [actor[a] EXCEPT !.at = "hold", !.ans = NoAnswer].at # "attach"
        BY <1>2 DEF Actor
      <4> QED BY <3>2, <4>1 DEF GoHold
    <3>3. CASE GoTo(a, "hold")
      <4>1. [actor[a] EXCEPT !.at = "hold"].at # "attach"
        BY <1>2 DEF Actor
      <4> QED BY <3>3, <4>1 DEF GoTo
    <3> QED BY <1>4, <3>1, <3>2, <3>3
  <2>4. rec.q = q /\ rec.at \in {"attach", "hold"}
    BY <1>2, <2>3 DEF Actor, QuoteOf
  <2>5. /\ actor'[a] = rec
        /\ \A b \in Actors : b # a => actor'[b] = actor[b]
    BY <1>1, <2>3 DEF Goto, TypeOK
  <2>6. ASSUME NEW p \in Quotes PROVE InvoiceOK(p)'
    <3>1. CASE p = q
      BY <1>1, <1>2, <2>2, <3>1, EvidentStays DEF EvidenceInv, InvoiceOK
    <3>2. CASE p # q
      BY <2>2, <3>2 DEF EvidenceInv, InvoiceOK
    <3> QED BY <3>1, <3>2
  <2>7. ASSUME NEW b \in Actors PROVE OfferOK(b)'
    <3>1. CASE b = a
      <4>1. SUFFICES ASSUME rec.at = "attach" PROVE Evident(s)
        BY <2>2, <2>4, <2>5, <3>1 DEF OfferOK, Offers, At, QuoteOf
      <4>2. ans.state = "Waiting" /\ ~ans.money
        BY <2>3, <4>1
      <4>3. Evident(r)
        BY <1>1, <4>2 DEF EvidenceInv, OfferOK, Offers, At
      <4>4. CASE r.linked
        BY <1>1, <1>2, <2>2, <4>3, <4>4, EvidentStays
      <4>5. CASE ~r.linked
        <5>1. r.state = "none"
          BY <1>1, <1>2, <4>5 DEF IInv, Agreement, Consistent
        <5> QED BY <2>2, <4>2, <5>1 DEF Evident, IsPaidOrBeyond
      <4> QED BY <4>4, <4>5
    <3>2. CASE b # a
      <4>1. SUFFICES ASSUME Offers(actor[b])
                     PROVE  /\ At(b, "attach") => quote'[QuoteOf(b)].linked
                            /\ Evident(quote'[QuoteOf(b)])
        BY <2>5, <3>2 DEF OfferOK, At, QuoteOf, Offers
      <4>2. QuoteOf(b) \in Quotes /\ OfferOK(b) /\ Evident(quote[QuoteOf(b)])
        BY <1>1, <4>1, HolderHasQuote DEF IInv, Hands, QuoteOf, EvidenceInv, OfferOK
      <4>3. CASE QuoteOf(b) # q
        BY <2>2, <4>2, <4>3 DEF OfferOK
      <4>4. CASE QuoteOf(b) = q /\ r.linked
        BY <1>1, <1>2, <2>2, <4>2, <4>4, EvidentStays
      <4>5. CASE QuoteOf(b) = q /\ ~r.linked
        <5>1. At(b, "record")
          BY <4>1, <4>2, <4>5 DEF OfferOK, Offers, At
        <5>2. actor[b].ans \in Answer
          BY <1>1, <5>1, HeldOne DEF Fits, At
        <5>3. actor[b].ans # NoAnswer /\ ans # NoAnswer
          BY <1>2, <5>2, QuoteMarkersAssumption
        <5> QED BY <3>2, <4>5, <5>3 DEF EvidenceInv, OneHolder
      <4> QED BY <4>3, <4>4, <4>5
    <3> QED BY <3>1, <3>2
  <2>8. OneHolder'
    <3> SUFFICES ASSUME NEW c \in Actors, NEW d \in Actors,
                        actor'[c].ans # NoAnswer, actor'[d].ans # NoAnswer,
                        actor'[c].q = actor'[d].q, ~quote'[actor'[c].q].linked
                 PROVE  c = d
      BY DEF OneHolder, QuoteOf
    <3>1. c # a /\ d # a /\ actor'[c].q # q
      BY <2>2, <2>4, <2>5
    <3>2. actor'[c] = actor[c] /\ actor'[d] = actor[d]
      BY <2>5, <3>1
    <3>3. actor[c].q \in Quotes
      BY <1>1, <3>2, HolderHasQuote DEF IInv, Hands
    <3>4. ~quote[actor[c].q].linked
      BY <2>2, <3>1, <3>2, <3>3
    <3> QED BY <3>2, <3>4 DEF EvidenceInv, OneHolder, QuoteOf
  <2> QED BY <2>6, <2>7, <2>8 DEF EvidenceInv
<1> QED BY <1>3, <1>4 DEF RecordSupplierOrder

\* An invoice comes to a linked quote whose money left its evidence.
LEMMA AttachEvidence ==
  ASSUME EvidenceInv, IInv', NEW a \in Actors, AttachQuotePayment(a)
  PROVE  EvidenceInv'
<1> DEFINE q == QuoteOf(a)
<1>1. /\ TypeOK /\ IInv /\ At(a, "attach") /\ OneMoves
  BY FinishMoves DEF EvidenceInv, IInv, AttachQuotePayment, Finish
<1>2. q \in Quotes
  BY <1>1, HeldOne DEF At
<1>3. CASE GoHold(a) /\ QuotesSame
  BY <1>1, <1>3, SameLinks, GoHoldHand, EvidenceStep DEF QuotesSame
<1>4. CASE /\ GoIdle(a)
           /\ quote' = [quote EXCEPT ![q].status = "awaiting_payment",
                                     ![q].invoice = TRUE]
  <2>1. quote[q].linked /\ Evident(quote[q])
    BY <1>1 DEF EvidenceInv, OfferOK, Offers, At
  <2> DEFINE s == [quote[q] EXCEPT !.status = "awaiting_payment", !.invoice = TRUE]
  <2>2. quote' = [quote EXCEPT ![q] = s] /\ s.linked = quote[q].linked
    BY <1>1, <1>2, <1>4 DEF TypeOK, Quote
  <2> HIDE DEF s
  <2>3. LinksKept
    <3> SUFFICES ASSUME NEW p \in Quotes
                 PROVE  /\ quote'[p].linked = quote[p].linked
                        /\ quote'[p].invoice =>
                             \/ quote[p].invoice
                             \/ quote[p].linked /\ Evident(quote[p])
      BY DEF LinksKept
    <3>1. CASE p = q
      BY <1>1, <2>1, <2>2, <3>1 DEF TypeOK
    <3>2. CASE p # q
      BY <1>1, <2>2, <3>2 DEF TypeOK
    <3> QED BY <3>1, <3>2
  <2> QED BY <1>1, <1>4, <2>3, IdleHand, EvidenceStep
<1> QED BY <1>3, <1>4 DEF AttachQuotePayment

LEMMA ApplyLinks ==
  ASSUME TypeOK, NEW q \in Quotes, NEW ans, ApplySupplierOrder(q, ans)
  PROVE  LinksKept
<1> DEFINE r == quote[q]
           s == IF Changed(q, ans) THEN Updated(r, ans)
                ELSE [r EXCEPT !.unknown = FALSE]
<1>1. r \in Quote /\ quote' = [quote EXCEPT ![q] = s]
  BY DEF TypeOK, ApplySupplierOrder
<1>2. /\ Updated(r, ans).linked = r.linked
      /\ Updated(r, ans).invoice = r.invoice
  BY <1>1 DEF Updated, Quote
<1>3. s.linked = r.linked /\ s.invoice = r.invoice
  BY <1>1, <1>2 DEF Quote
<1> HIDE DEF s
<1> QED BY <1>1, <1>3, PlainLinks

\* The other writes an actor makes leave links and invoices alone.
LEMMA FinishLinks ==
  ASSUME IInv, NEW a \in Actors,
         \/ ClaimDispatch(a) \/ MarkSupplierFailure(a) \/ AttachFails(a)
         \/ Hold(a) \/ Apply(a) \/ Review(a) \/ MarkUnknown(a)
  PROVE  LinksKept
<1> DEFINE q == QuoteOf(a)
           r == quote[q]
<1>1. ~At(a, "idle")
  BY DEF At, ClaimDispatch, MarkSupplierFailure, AttachFails, Hold, Apply,
         Review, MarkUnknown
<1>2. TypeOK /\ q \in Quotes /\ r \in Quote
  BY <1>1, HeldOne DEF IInv, TypeOK
<1> HIDE DEF q
<1>3. CASE quote' = quote
  BY <1>3, SameLinks
<1>4. CASE ClaimDispatch(a) /\ quote' # quote
  <2> DEFINE s == [r EXCEPT !.sent = TRUE]
  <2>1. quote' = [quote EXCEPT ![q] = s]
    BY <1>2, <1>4 DEF ClaimDispatch, TypeOK, q
  <2>2. s.linked = r.linked /\ s.invoice = r.invoice
    BY <1>2 DEF Quote
  <2> QED BY <1>2, <2>1, <2>2, PlainLinks
<1>5. CASE (MarkSupplierFailure(a) \/ Review(a)) /\ quote' # quote
  BY <1>2, <1>5, TransitionLinks DEF MarkSupplierFailure, Review, q
<1>6. CASE AttachFails(a)
  BY <1>6, SameLinks DEF AttachFails, QuotesSame
<1>7. CASE Hold(a) /\ quote' # quote
  <2> DEFINE s == IF CanTransition(q, "manual_review")
                  THEN [r EXCEPT !.status = "manual_review", !.held = TRUE]
                  ELSE r
  <2>1. quote' = [quote EXCEPT ![q] = s]
    BY <1>2, <1>7 DEF Hold, TypeOK, q
  <2>2. s.linked = r.linked /\ s.invoice = r.invoice
    BY <1>2 DEF Quote
  <2> HIDE DEF s
  <2> QED BY <1>2, <2>1, <2>2, PlainLinks
<1>8. CASE Apply(a) /\ quote' # quote
  BY <1>2, <1>8, ApplyLinks DEF Apply, q
<1>9. CASE MarkUnknown(a)
  <2> DEFINE s == [r EXCEPT !.unknown = TRUE]
  <2>1. quote' = [quote EXCEPT ![q] = s]
    BY <1>2, <1>9 DEF MarkUnknown, TypeOK, q
  <2>2. s.linked = r.linked /\ s.invoice = r.invoice
    BY <1>2 DEF Quote
  <2> QED BY <1>2, <2>1, <2>2, PlainLinks
<1> QED BY <1>3, <1>4, <1>5, <1>6, <1>7, <1>8, <1>9

LEMMA FinishHands ==
  ASSUME IInv, NEW a \in Actors,
         \/ ClaimDispatch(a) \/ MarkSupplierFailure(a) \/ AttachFails(a)
         \/ Hold(a) \/ Apply(a) \/ Review(a) \/ MarkUnknown(a)
  PROVE  HandsKept
<1>1. ~At(a, "idle")
  BY DEF At, ClaimDispatch, MarkSupplierFailure, AttachFails, Hold, Apply,
         Review, MarkUnknown
<1>2. TypeOK /\ actor[a] \in Actor /\ actor[a].then \in Onward
  BY <1>1, HeldOne DEF IInv
<1>3. /\ "call" \in Stages \ {"attach", "record"}
      /\ "apply" \in Stages \ {"attach", "record"}
      /\ Onward \subseteq Stages \ {"attach", "record"} /\ "idle" \in Onward
  BY DEF Stages, Onward
<1>4. CASE GoIdle(a) \/ GoHold(a)
  BY <1>2, <1>4, IdleHand, GoHoldHand
<1>5. CASE GoTo(a, "call") \/ GoTo(a, "apply")
  BY <1>2, <1>3, <1>5, GoToHand
<1> DEFINE stage == actor[a].then
<1>6. CASE Goto(a, [actor[a] EXCEPT !.at = stage, !.then = "idle",
                                    !.ans = NoAnswer])
  <2>1. [actor[a] EXCEPT !.at = stage, !.then = "idle", !.ans = NoAnswer] =
          [actor[a] EXCEPT !.at = stage, !.ans = NoAnswer, !.then = "idle"]
    OBVIOUS
  <2> QED BY <1>2, <1>3, <1>6, <2>1, NextStageHand
<1>7. CASE Goto(a, [actor[a] EXCEPT !.at = stage, !.then = "idle"])
  <2>1. [actor[a] EXCEPT !.at = stage, !.then = "idle"] =
          [actor[a] EXCEPT !.at = stage, !.ans = actor[a].ans, !.then = "idle"]
    BY <1>2 DEF Actor
  <2> QED BY <1>2, <1>3, <1>7, <2>1, NextStageHand
<1> QED BY <1>4, <1>5, <1>6, <1>7
        DEF ClaimDispatch, MarkSupplierFailure, AttachFails, Hold, Apply,
            Review, MarkUnknown

LEMMA FinishEvidence ==
  ASSUME EvidenceInv, IInv', NEW a \in Actors, Finish(a)
  PROVE  EvidenceInv'
<1>1. IInv /\ OneMoves
  BY FinishMoves DEF EvidenceInv
<1> QED BY <1>1, CallEvidence, RecordEvidence, AttachEvidence, FinishLinks,
           FinishHands, EvidenceStep DEF Finish

LEMMA TrackerEvidence ==
  ASSUME EvidenceInv, IInv', OneMoves, TrackerStep, ~Finish(Tracker)
  PROVE  EvidenceInv'
<1>1. TypeOK /\ IInv /\ Tracker \in Actors
  BY DEF EvidenceInv, IInv, Actors
<1>2. CASE SweepWrite
  <2> DEFINE q == QuoteOf(Tracker)
             r == quote[q]
             s == IF "expired" \in quoteTransitions(r.status)
                  THEN [r EXCEPT !.status = "expired"] ELSE r
  <2>1. q \in Quotes /\ r \in Quote
    BY <1>1, <1>2, HeldOne DEF SweepWrite, At, TypeOK
  <2>2. quote' = [quote EXCEPT ![q] = s]
    BY <1>2 DEF SweepWrite
  <2>3. s.linked = r.linked /\ s.invoice = r.invoice
    BY <2>1 DEF Quote
  <2> HIDE DEF s
  <2>4. LinksKept
    BY <1>1, <2>1, <2>2, <2>3, PlainLinks
  <2>5. HandsKept
    BY <1>1, <1>2, IdleHand DEF SweepWrite
  <2> QED BY <2>4, <2>5, EvidenceStep
<1>3. ASSUME NEW q \in Quotes, SweepRead(q) \/ ResolveCreating(q) \/ Poll(q)
      PROVE  EvidenceInv'
  <2>1. LinksKept
    BY <1>3, SameLinks DEF SweepRead, ResolveCreating, Poll, QuotesSame
  <2>2. CASE SweepRead(q)
    BY <1>1, <2>1, <2>2, TakeUpHand, EvidenceStep DEF SweepRead, TrackerTo
  <2>3. CASE ResolveCreating(q)
    <3> DEFINE rec == [at |-> "record", q |-> q, ans |-> order[q],
                       then |-> "idle"]
    <3>1. CASE quote[q].linked /\ Goto(Tracker, rec)
      <4>1. IsPaidOrBeyond(quote[q].state) => order[q].money
        BY <1>1 DEF IInv, Agreement, Consistent
      <4>2. FreshHand(rec)
        BY <3>1, <4>1 DEF FreshHand, Offers, Evident
      <4> QED BY <1>1, <2>1, <3>1, <4>2, OneHand, EvidenceStep
    <3>2. CASE \/ TrackerTo("claim", q, "idle") \/ TrackerTo("hold", q, "idle")
               \/ TrackerTo("review", q, "idle")
      BY <1>1, <2>1, <3>2, TakeUpHand, EvidenceStep DEF TrackerTo
    <3> QED BY <2>3, <3>1, <3>2 DEF ResolveCreating
  <2>4. CASE Poll(q)
    <3>1. quote[q].linked
      BY <2>4 DEF Poll, NeedsSupplierPoll
    <3>2. HandsKept
      BY <1>1, <2>4, <3>1, AnswerHand, TakeUpHand DEF Poll, TrackerTo
    <3> QED BY <2>1, <3>2, EvidenceStep
  <2> QED BY <1>3, <2>2, <2>3, <2>4
<1> QED BY <1>2, <1>3 DEF TrackerStep

LEMMA ObserverEvidence ==
  ASSUME EvidenceInv, IInv', OneMoves, NEW o \in Observers, ObserverStep(o),
         ~Finish(o)
  PROVE  EvidenceInv'
<1>1. TypeOK /\ IInv /\ o \in Actors
  BY DEF EvidenceInv, IInv, Actors
<1>2. CASE Told(o) \/ LaunchDecide(o)
  BY <1>1, <1>2, SameLinks, IdleHand, GoHoldHand, EvidenceStep
     DEF Told, LaunchDecide, QuotesSame
<1>3. CASE Cancel(o)
  <2> DEFINE q == QuoteOf(o)
  <2>1. LinksKept /\ actor[o] \in Actor
    BY <1>1, <1>3, SameLinks DEF Cancel, QuotesSame, TypeOK
  <2>2. CASE GoIdle(o) \/ GoTo(o, "unknown")
    <3>1. HandsKept
      BY <1>1, <2>2, IdleHand, GoToHand DEF Stages
    <3> QED BY <2>1, <3>1, EvidenceStep
  <2> DEFINE rec == [actor[o] EXCEPT !.at = "apply", !.ans = order'[q],
                                     !.then = "idle"]
  <2>3. CASE quote[q].linked /\ Goto(o, rec)
    <3>1. rec.at = "apply" /\ rec.q = q
      BY <2>1 DEF Actor, QuoteOf
    <3>2. FreshHand(rec)
      BY <2>3, <3>1 DEF FreshHand, Offers
    <3> QED BY <1>1, <2>1, <2>3, <3>2, OneHand, EvidenceStep
  <2> QED BY <1>3, <2>2, <2>3 DEF Cancel, CanCancelPartnerOrder
<1>4. ASSUME NEW q \in Quotes,
             \/ Observe(o, q) \/ AskLapsed(o, q) \/ Launch(o, q)
             \/ CancelRead(o, q)
      PROVE  EvidenceInv'
  <2>1. LinksKept
    BY <1>4, SameLinks DEF Observe, AskLapsed, Launch, CancelRead, QuotesSame
  <2>2. quote[q].linked
    BY <1>4 DEF Observe, AskLapsed, Launch, CancelRead, CanPay
  <2>3. HandsKept
    BY <1>1, <1>4, <2>2, AnswerHand, TakeUpHand
       DEF Observe, AskLapsed, Launch, CancelRead
  <2> QED BY <2>1, <2>3, EvidenceStep
<1>5. ASSUME NEW q \in Quotes, Resolve(o, q)
      PROVE  EvidenceInv'
  BY <1>1, <1>5, TransitionLinks, SameHands, EvidenceStep DEF Resolve
<1> QED BY <1>2, <1>3, <1>4, <1>5 DEF ObserverStep

LEMMA EvidenceInd == ASSUME EvidenceInv, [Next]_vars PROVE EvidenceInv'
<1>1. TypeOK /\ IInv /\ IInv' /\ OneMoves
  BY StepInd, StepMoves DEF EvidenceInv, IInv
<1>2. CASE UNCHANGED <<quote, actor>>
  BY <1>1, <1>2, SameLinks, SameHands, EvidenceStep
<1>3. ASSUME NEW q \in Quotes, CreateIntent(q) PROVE EvidenceInv'
  <2> DEFINE r == quote[q]
             s == [r EXCEPT !.status = "order_creating"]
  <2>1. /\ r \in Quote /\ quote' = [quote EXCEPT ![q] = s]
    BY <1>1, <1>3 DEF TypeOK, CreateIntent
  <2>2. s.linked = r.linked /\ s.invoice = r.invoice
    BY <2>1 DEF Quote
  <2> HIDE DEF s
  <2>3. LinksKept
    BY <1>1, <2>1, <2>2, PlainLinks
  <2>4. HandsKept
    BY <1>1, <1>3, GoToHand DEF CreateIntent, Actors, Stages
  <2> QED BY <1>1, <2>3, <2>4, EvidenceStep
<1>4. ASSUME NEW a \in Actors, Finish(a) PROVE EvidenceInv'
  BY <1>1, <1>4, FinishEvidence
<1>5. ASSUME NEW q \in Quotes, WorldStep(q) PROVE EvidenceInv'
  BY <1>2, <1>5 DEF WorldStep, SupplierMoves, TimePasses
<1>6. CASE Crash
  <2>1. HandsKept
    <3> SUFFICES ASSUME NEW a \in Actors
                 PROVE  KeepsHand(actor[a], actor'[a]) \/ FreshHand(actor'[a])
      BY DEF HandsKept
    <3>1. actor'[a] = actor[a] \/ actor'[a] = Idle
      BY <1>6 DEF Crash
    <3> QED BY <3>1, IdleIsFresh DEF KeepsHand
  <2> QED BY <1>1, <1>6, <2>1, SameLinks, EvidenceStep DEF Crash, QuotesSame
<1>7. CASE Settle
  BY <1>2, <1>7 DEF Settle
<1> QED BY <1>1, <1>2, <1>3, <1>4, <1>5, <1>6, <1>7, TrackerEvidence,
           ObserverEvidence DEF Next, vars, Actors

LEMMA EvidenceInit == Init => EvidenceInv
<1> SUFFICES ASSUME Init PROVE EvidenceInv
  OBVIOUS
<1>1. \A q \in Quotes : ~quote[q].invoice
  BY DEF Init, NewQuote
<1>2. \A a \in Actors : actor[a].ans = NoAnswer /\ actor[a].at \in {"new", "idle"}
  BY DEF Init, Idle
<1> QED BY <1>1, <1>2, InitInd
        DEF EvidenceInv, InvoiceOK, OfferOK, Offers, OneHolder, At

\* Every invoice, and every actor about to attach one, is past the one answer
\* that shows money without leaving evidence.
THEOREM QuoteEvidence == Spec => []EvidenceInv
BY EvidenceInit, EvidenceInd, PTL DEF Spec

\* Money evidence and a hold are for good, and a quote with an invoice that has
\* either is never payable again.
THEOREM QuoteNeverPayableAgain == Spec => NeverPayableAgain
<1> DEFINE Never ==
      \A q \in Quotes :
        /\ quote[q].seen => quote'[q].seen
        /\ quote[q].held => quote'[q].held
        /\ HasPaymentEvidence(q) /\ quote[q].invoice => ~CanPay(q)'
<1>1. ASSUME EvidenceInv, [Next]_vars PROVE Never
  <2> SUFFICES ASSUME NEW q \in Quotes
               PROVE  /\ quote[q].seen => quote'[q].seen
                      /\ quote[q].held => quote'[q].held
                      /\ HasPaymentEvidence(q) /\ quote[q].invoice => ~CanPay(q)'
    OBVIOUS
  <2>1. (quote[q].seen => quote'[q].seen) /\ (quote[q].held => quote'[q].held)
    BY <1>1, StepMoves, EachForward DEF Forward, EvidenceInv, IInv
  <2>2. HasPaymentEvidence(q) /\ quote[q].invoice => quote[q].seen \/ quote[q].held
    BY <1>1 DEF HasPaymentEvidence, EvidenceInv, InvoiceOK, Evident
  <2> QED BY <2>1, <2>2 DEF CanPay
<1>2. EvidenceInv /\ [Next]_vars => [Never]_vars
  BY <1>1
<1> QED BY <1>2, QuoteEvidence, PTL DEF Spec, NeverPayableAgain

-----------------------------------------------------------------------------
(* The lifecycle implements the purchase's promise.                        *)

\* The promise's own variables, as the lifecycle shows them.
Done == [q \in Quotes |-> SupplierDone(order[q])]
Booked == [q \in Quotes |-> ShopBooked(quote[q])]

LEMMA OutcomeFacts ==
  ASSUME NEW x
  PROVE  /\ SupplierDone(x) \in {"open", "delivered", "refunded"}
         /\ ShopBooked(x) \in {"open", "delivered", "refunded"}
         /\ ShopBooked(x) = "delivered" <=> x.status = "fulfilled"
         /\ ShopBooked(x) = "refunded" <=> x.status = "refunded"
         /\ SupplierDone(x) = "delivered" <=> x # NoOrder /\ x.state = "Done"
         /\ SupplierDone(x) = "refunded" <=> x # NoOrder /\ x.state = "Refunded"
BY DEF SupplierDone, ShopBooked

\* A write of the store books an outcome the supplier has, or nothing.
LEMMA WriteKeepsPromise ==
  ASSUME IInv, IInv', OneMoves, UNCHANGED <<order, posts>>
  PROVE  [Promise!Next]_Promise!vars
<1>1. Done' = Done
  BY DEF Done
<1>2. CASE Booked' = Booked
  BY <1>1, <1>2 DEF Promise!vars, Done, Booked
<1>3. CASE Booked' # Booked
  <2>1. PICK q \in Quotes, s \in Quote :
          quote' = [quote EXCEPT ![q] = s] /\ Forward(quote[q], s)
    BY <1>3 DEF OneMoves, Booked
  <2>2. /\ quote'[q] = s
        /\ \A p \in Quotes : p # q => quote'[p] = quote[p]
    BY <2>1 DEF IInv, TypeOK
  <2>3. Booked' = [Booked EXCEPT ![q] = ShopBooked(s)]
    BY <2>2 DEF Booked
  <2>4. ShopBooked(s) # ShopBooked(quote[q])
    BY <1>3, <2>2 DEF Booked
  <2>5. Consistent(s, order[q], posts[q])
    BY <2>2 DEF IInv, Agreement
  <2>6. Booked[q] = ShopBooked(quote[q]) /\ Done[q] = SupplierDone(order[q])
    BY DEF Booked, Done
  <2>7. CASE ShopBooked(s) = "delivered"
    <3>1. Booked[q] = "open"
      BY <2>1, <2>4, <2>6, <2>7, OutcomeFacts DEF Forward
    <3>2. Done[q] # "open"
      BY <2>5, <2>6, <2>7, OutcomeFacts DEF Consistent, SupplierDone
    <3> QED BY <1>1, <2>3, <2>7, <3>1, <3>2 DEF Promise!Next, Promise!Book,
               Done, Booked
  <2>8. CASE ShopBooked(s) = "refunded"
    <3>1. Booked[q] # "refunded"
      BY <2>4, <2>6, <2>8
    <3>2. Done[q] = "refunded"
      BY <2>5, <2>6, <2>8, OutcomeFacts DEF Consistent
    <3> QED BY <1>1, <2>3, <2>8, <3>1, <3>2 DEF Promise!Next, Promise!Book,
               Done, Booked
  <2>9. CASE ShopBooked(s) = "open"
    BY <2>1, <2>4, <2>9, OutcomeFacts DEF Forward
  <2> QED BY <2>7, <2>8, <2>9, OutcomeFacts
<1> QED BY <1>2, <1>3

\* The supplier moves an order it has, and takes back no outcome.
LEMMA SupplyKeepsPromise ==
  ASSUME IInv, NEW q \in Quotes, order[q] # NoOrder, NEW new, new # NoOrder,
         order' = [order EXCEPT ![q] = new], UNCHANGED <<quote, posts>>,
         order[q].state = "Done" => new.state \in {"Done", "Refunded"},
         order[q].state = "Refunded" => new.state = "Refunded"
  PROVE  [Promise!Next]_Promise!vars
<1>1. Booked' = Booked
  BY DEF Booked
<1>2. Done' = [Done EXCEPT ![q] = SupplierDone(new)]
  BY DEF Done, IInv, TypeOK
<1>3. posts[q] = 1
  BY DEF IInv, Agreement, Consistent
<1>4. Done[q] = SupplierDone(order[q])
  BY DEF Done
<1>5. CASE SupplierDone(new) = Done[q]
  <2>1. Done' = Done
    BY <1>2, <1>5 DEF Done
  <2> QED BY <1>1, <2>1 DEF Promise!vars, Done, Booked
<1>6. CASE SupplierDone(new) # Done[q]
  <2>1. \/ Done[q] = "open" /\ SupplierDone(new) = "delivered"
        \/ Done[q] # "refunded" /\ SupplierDone(new) = "refunded"
    BY <1>4, <1>6, OutcomeFacts
  <2> QED BY <1>1, <1>2, <1>3, <2>1 DEF Promise!Next, Promise!Supply,
             Done, Booked
<1> QED BY <1>5, <1>6

\* The one creation call: an order at most begins.
LEMMA CallKeepsPromise ==
  ASSUME IInv, NEW a \in Actors, CallSupplier(a)
  PROVE  [Promise!Next]_Promise!vars
<1> DEFINE q == QuoteOf(a)
<1>1. ~At(a, "idle") /\ At(a, "call")
  BY DEF CallSupplier, At
<1>2. q \in Quotes /\ posts[q] = 0
  BY <1>1, HeldOne DEF Fits, At
<1>3. order[q] = NoOrder
  BY <1>2 DEF IInv, Agreement, Consistent
<1>4. posts' = [posts EXCEPT ![q] = 1] /\ quote' = quote
  <2>1. posts' = [posts EXCEPT ![q] = posts[q] + 1] /\ quote' = quote
    BY DEF CallSupplier, QuotesSame
  <2> HIDE DEF q
  <2> QED BY <1>2, <2>1
<1>5. order' = order \/ \E new \in Created : order' = [order EXCEPT ![q] = new]
  BY DEF CallSupplier
<1> HIDE DEF q
<1>6. Done' = Done
  <2>1. ASSUME NEW new \in Created, order' = [order EXCEPT ![q] = new]
        PROVE  \A p \in Quotes : SupplierDone(order'[p]) = SupplierDone(order[p])
    <3>1. ASSUME NEW p \in Quotes
          PROVE  SupplierDone(order'[p]) = SupplierDone(order[p])
      <4>1. CASE p = q
        <5>1. order'[p] = new
          BY <1>2, <2>1, <4>1 DEF IInv, TypeOK
        <5>2. SupplierDone(new) = "open"
          BY CreatedFacts DEF SupplierDone
        <5>3. SupplierDone(order[p]) = "open"
          BY <1>3, <4>1 DEF SupplierDone
        <5> QED BY <5>1, <5>2, <5>3
      <4>2. CASE p # q
        <5>1. order'[p] = order[p]
          BY <2>1, <4>2 DEF IInv, TypeOK
        <5> QED BY <5>1
      <4> QED BY <4>1, <4>2
    <3> QED BY <3>1
  <2> QED BY <1>5, <2>1 DEF Done
<1>7. Booked' = Booked
  BY <1>4 DEF Booked
<1> QED BY <1>2, <1>4, <1>6, <1>7 DEF Promise!Next, Promise!Order, Done, Booked

\* Only the creation call, the supplier and a cancellation touch an order.
LEMMA WhoTouchesOrders ==
  ASSUME [Next]_vars
  PROVE  \/ UNCHANGED <<order, posts>>
         \/ \E a \in Actors : CallSupplier(a)
         \/ \E q \in Quotes, to \in SupplierStates : SupplierMoves(q, to)
         \/ \E o \in Observers : Cancel(o)
<1>1. CASE UNCHANGED vars
  BY <1>1 DEF vars
<1>2. ASSUME NEW a \in Actors, Finish(a)
      PROVE  UNCHANGED <<order, posts>> \/ CallSupplier(a)
  BY <1>2 DEF Finish, ClaimDispatch, MarkSupplierFailure, RecordSupplierOrder,
              AttachQuotePayment, AttachFails, Hold, Apply, Review, MarkUnknown,
              Supplierless
<1>3. ASSUME NEW q \in Quotes, CreateIntent(q) \/ TimePasses(q)
      PROVE  UNCHANGED <<order, posts>>
  BY <1>3 DEF CreateIntent, TimePasses, Supplierless
<1>4. CASE TrackerStep
  <2>1. ASSUME NEW q \in Quotes, SweepRead(q) \/ ResolveCreating(q) \/ Poll(q)
        PROVE  UNCHANGED <<order, posts>>
    BY <2>1 DEF SweepRead, ResolveCreating, Poll, Supplierless
  <2>2. CASE SweepWrite
    BY <2>2 DEF SweepWrite, Supplierless
  <2> QED BY <1>2, <1>4, <2>1, <2>2 DEF TrackerStep, Actors
<1>5. ASSUME NEW o \in Observers, ObserverStep(o), ~Cancel(o)
      PROVE  UNCHANGED <<order, posts>> \/ CallSupplier(o)
  <2>1. CASE \E q \in Quotes :
               \/ Observe(o, q) \/ AskLapsed(o, q) \/ Launch(o, q)
               \/ CancelRead(o, q) \/ Resolve(o, q)
    BY <2>1 DEF Observe, AskLapsed, Launch, CancelRead, Resolve, Supplierless
  <2>2. CASE Told(o) \/ LaunchDecide(o)
    BY <2>2 DEF Told, LaunchDecide, Supplierless
  <2> QED BY <1>2, <1>5, <2>1, <2>2 DEF ObserverStep, Actors
<1>6. CASE Crash \/ Settle
  BY <1>6 DEF Crash, Settle, Supplierless
<1> QED BY <1>1, <1>2, <1>3, <1>4, <1>5, <1>6 DEF Next, WorldStep, Actors

LEMMA StepKeepsPromise ==
  ASSUME IInv, IInv', [Next]_vars
  PROVE  [Promise!Next]_Promise!vars
<1>1. CASE UNCHANGED <<order, posts>>
  BY <1>1, StepMoves, WriteKeepsPromise
<1>2. ASSUME NEW q \in Quotes, NEW to \in SupplierStates, SupplierMoves(q, to)
      PROVE  [Promise!Next]_Promise!vars
  <2>1. PICK t \in {order[q].at, order[q].at + 1} \cap 0 .. MaxStamp :
          order' = [order EXCEPT ![q] =
                      [state |-> to, at |-> t,
                       money |-> order[q].money \/ Funds(order[q].state, to)]]
    BY <1>2 DEF SupplierMoves
  <2> DEFINE new == [state |-> to, at |-> t,
                     money |-> order[q].money \/ Funds(order[q].state, to)]
  <2>2. /\ order[q] # NoOrder /\ CanSucceed(order[q], to)
        /\ UNCHANGED <<quote, posts>>
    BY <1>2 DEF SupplierMoves
  <2>3. order[q] \in Answer /\ OrderOK(order[q])
    BY <2>2 DEF IInv, TypeOK, Agreement, Consistent
  <2>4. t \in 0 .. MaxStamp
    OBVIOUS
  <2>5. new.state = to
    OBVIOUS
  <2>6. new \in Answer
    BY <2>2, <2>3, <2>4, SupplierGoesOn
  <2>7. /\ order[q].state = "Done" => to = "Refunded"
        /\ order[q].state # "Refunded"
    BY <2>2, <2>3, <2>4, SupplierGoesOn
  <2>8. new # NoOrder
    BY <2>6, QuoteMarkersAssumption
  <2>9. order' = [order EXCEPT ![q] = new]
    BY <2>1
  <2> HIDE DEF new
  <2> QED BY <2>2, <2>5, <2>7, <2>8, <2>9, SupplyKeepsPromise
<1>3. ASSUME NEW o \in Observers, Cancel(o)
      PROVE  [Promise!Next]_Promise!vars
  <2> DEFINE q == QuoteOf(o)
  <2>1. /\ q \in Quotes /\ quote' = quote /\ posts' = posts
    <3>1. ~At(o, "idle") /\ o \in Actors
      BY <1>3 DEF Cancel, At, Actors
    <3> QED BY <1>3, <3>1, HeldOne DEF Cancel, QuotesSame
  <2>2. CASE order' = order
    BY <2>1, <2>2, StepMoves, WriteKeepsPromise
  <2>3. CASE order' # order
    <3>1. CanCancelPartnerOrder(q) /\ order[q].state = "Waiting"
      BY <1>3, <2>3 DEF Cancel
    <3>2. PICK t \in {order[q].at, order[q].at + 1} \cap 0 .. MaxStamp :
            order' = [order EXCEPT ![q].state = "Expired", ![q].at = t]
      BY <1>3, <2>3 DEF Cancel
    <3>3. order[q] # NoOrder /\ order[q] \in Answer
      BY <2>1, <3>1 DEF CanCancelPartnerOrder, IInv, TypeOK, Agreement, Consistent
    <3> DEFINE new == [order[q] EXCEPT !.state = "Expired", !.at = t]
    <3>4. order' = [order EXCEPT ![q] = new]
      BY <2>1, <3>2 DEF IInv, TypeOK
    <3>5. new \in Answer
      BY <3>3 DEF Answer, SupplierStates
    <3>6. new # NoOrder
      BY <3>5, QuoteMarkersAssumption
    <3> HIDE DEF new, q
    <3> QED BY <2>1, <3>1, <3>3, <3>4, <3>6, SupplyKeepsPromise
  <2> QED BY <2>2, <2>3
<1> QED BY <1>1, <1>2, <1>3, CallKeepsPromise, WhoTouchesOrders

LEMMA InitPromises == Init => Promise!Init
<1> SUFFICES ASSUME Init PROVE Promise!Init
  OBVIOUS
<1>1. ASSUME NEW q \in Quotes
      PROVE  /\ SupplierDone(order[q]) = "open"
             /\ ShopBooked(quote[q]) = "open"
             /\ posts[q] = 0
  BY <1>1 DEF Init, SupplierDone, ShopBooked, NewQuote
<1> QED BY <1>1 DEF Init, Promise!Init

\* The lifecycle implements the promise: one order sent at most, each outcome
\* booked once, in order, and after the supplier's.
THEOREM QuoteImplementsPromise == Spec => ImplementsPromise
<1>1. IInv /\ IInv' /\ [Next]_vars => [Promise!Next]_Promise!vars
  BY StepKeepsPromise
<1> QED BY <1>1, InitPromises, QuoteInvariant, PTL
        DEF Spec, ImplementsPromise, Promise!Spec

=============================================================================
