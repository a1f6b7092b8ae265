--------------------------- MODULE CheckoutFlow ---------------------------
(***************************************************************************)
(* The checkout of the storefront: the sheet that turns a cart into an     *)
(* order (CheckoutFlow.tsx), the durable key under which it asks for one   *)
(* (checkoutIntent.ts and createCheckout in api.ts), the pay screen with   *)
(* its poll and its renewals, and the shop's creation gate behind them     *)
(* (checkout_guard.go).  Browser tabs share the stored keys; the sheets of *)
(* one tab share the two resolvers on window and the renewal budget.       *)
(***************************************************************************)
EXTENDS Integers, FiniteSets

CONSTANTS
  Flows,        \* checkout sheets
  Tab,          \* the browser tab each sheet lives in
  Products,     \* what may be in a cart
  Wanted,       \* the carts a sheet is opened for
  MaxOrders,    \* bound: orders the shop creates
  MaxKeys,      \* bound: idempotency keys drawn
  Budget,       \* invoices a sheet renews without being asked
  MayRefuse,    \* refusals of the shop and the supplier that are explored
  NoFlow

Carts == (SUBSET Products) \ {{}}
Tabs == {Tab[f] : f \in Flows}
Orders == 1..MaxOrders
Keys == 1..MaxKeys
Refusals == {"limit", "blocked", "email", "refused"}
Invoices == {"none", "open", "over"}

ASSUME CheckoutAssumption ==
  /\ MaxOrders \in Nat /\ MaxKeys \in Nat /\ Budget \in Nat
  /\ IsFiniteSet(Products) /\ Wanted \subseteq Carts
  /\ MayRefuse \subseteq Refusals
  /\ NoFlow \notin Flows

VARIABLES
  order,   \* the shop's orders: cart, money, invoice, and the
           \* acknowledgement it was created under
  made,    \* how many orders exist
  bound,   \* the shop's key index: key -> order, 0 for none
  intent,  \* localStorage: cart -> [key, quote], 0 for none
  drawn,   \* how many keys were drawn
  flow,    \* runFlow of each sheet: where it stands and its refs
  req,     \* the createCheckout each sheet waits for
  screen,  \* the mounted PayScreen of each sheet
  pay,     \* window.__payResolver of each tab
  prompt,  \* window.__promptResolver of each tab
  budget,  \* window.__autoRenewBudget of each tab
  blocking \* blockingCheckout, the module variable of each tab

shop == <<order, made, bound>>
store == <<intent, drawn>>
vars == <<order, made, bound, intent, drawn, flow, req, screen, pay, prompt, budget, blocking>>

----------------------------------------------------------------------------
\* What the shop knows of an order

Paid == {"paid", "done"}

\* Seeded fault: an order nobody paid is never in the way.
SettledUnpaid(q) == order[q].money \in {"done", "none", "sent"}

\* An order has no invoice while it is being created or on hold, then one that
\* is open, and in the end one whose window is over.
Dead(q) == order[q].invoice = "over"

\* CheckoutSettledAt: delivered, or the window over and no money in evidence.
\* "sent" is money on its way that neither shop nor supplier shows yet.
Settled(q) ==
  \/ order[q].money = "done"
  \/ Dead(q) /\ order[q].money \in {"none", "sent"}

\* BlocksNewPurchaseAt over the orders of the buyer.
Unresolved == {q \in 1..made : ~Settled(q)}

\* Seeded fault: money on its way is a payment.
IsPaidSeen(m) == m \in Paid \cup {"seen"}
IsPaid(m) == m \in Paid

\* The status a read of the order shows: money on its way is invisible.
Shown(q) == IF order[q].money = "sent" THEN "none" ELSE order[q].money

\* CanPay: an open window and nothing observed.
Payable(q) == order[q].invoice = "open" /\ Shown(q) = "none"

NoOrder == [cart |-> {}, money |-> "none", invoice |-> "none", ack |-> FALSE]
NoIntent == [key |-> 0, quote |-> 0]
NoAnswer == [kind |-> "none", quote |-> 0, reused |-> FALSE, money |-> "none"]
NoRequest == [stage |-> "none", key |-> 0, quote |-> 0, ans |-> NoAnswer]
NoScreen == [on |-> FALSE, settled |-> FALSE, view |-> "none", polling |-> FALSE]
NewFlow == [pc |-> "closed", ask |-> "none", cart |-> {}, quote |-> 0, gone |-> TRUE,
            ack |-> FALSE, fresh |-> FALSE]

\* A cart of two products or more is one batch, and one invoice.
Batch(f) == Cardinality(flow[f].cart) > 1
Mounted(f) == ~flow[f].gone
At(f, pc) == flow[f].pc = pc

\* ackRef: the buyer chose a second order, or an invoice was renewed.
Acked(f) == flow[f].ack

\* What runFlow does next with the record r of a sheet.
Creating(r) == [r EXCEPT !.pc = "create", !.ask = "none", !.quote = 0]
Asking(r, kind) == [r EXCEPT !.pc = "prompt", !.ask = kind, !.quote = 0]
Ending(r, pc) == IF pc = "closed" THEN NewFlow
                 ELSE [r EXCEPT !.pc = pc, !.ask = "none", !.quote = IF pc = "success" THEN @ ELSE 0]

Init ==
  /\ order = [q \in Orders |-> NoOrder]
  /\ made = 0
  /\ bound = [k \in Keys |-> 0]
  /\ intent = [c \in Carts |-> NoIntent]
  /\ drawn = 0
  /\ flow = [f \in Flows |-> NewFlow]
  /\ req = [f \in Flows |-> NoRequest]
  /\ screen = [f \in Flows |-> NoScreen]
  /\ pay = [t \in Tabs |-> NoFlow]
  /\ prompt = [t \in Tabs |-> NoFlow]
  /\ budget = [t \in Tabs |-> 0]
  /\ blocking = [t \in Tabs |-> 0]

----------------------------------------------------------------------------
\* The sheet: opened, started once the delivery details are in, closed

\* openSingleBuyFlow and the cart sheet mount one checkout of a tab at a time;
\* the mount refills the renewal budget of the tab.  A sheet whose run is over
\* stands for the next one.
Open(f, c) ==
  /\ At(f, "closed") /\ req[f].stage = "none"
  /\ \A g \in Flows : Tab[g] = Tab[f] => ~Mounted(g)
  /\ flow' = [flow EXCEPT ![f] = [NewFlow EXCEPT !.pc = "delivery", !.cart = c, !.gone = FALSE]]
  /\ budget' = [budget EXCEPT ![Tab[f]] = Budget]
  /\ UNCHANGED <<shop, store, req, screen, pay, prompt, blocking>>

\* startCheckout: the delivery step is done and runFlow begins.
Start(f) ==
  /\ At(f, "delivery") /\ Mounted(f)
  /\ flow' = [flow EXCEPT ![f] = Creating(@)]
  /\ UNCHANGED <<shop, store, req, screen, pay, prompt, budget, blocking>>

\* The unmount: the two resolvers of the tab go, whoever they belong to, and a
\* creation under way goes on behind the closed sheet.
Close(f) ==
  /\ Mounted(f)
  /\ flow' = [flow EXCEPT ![f] = IF @.pc = "create" THEN [@ EXCEPT !.gone = TRUE] ELSE NewFlow]
  /\ screen' = [screen EXCEPT ![f] = NoScreen]
  /\ pay' = [pay EXCEPT ![Tab[f]] = NoFlow]
  /\ prompt' = [prompt EXCEPT ![Tab[f]] = NoFlow]
  /\ UNCHANGED <<shop, store, req, budget, blocking>>

----------------------------------------------------------------------------
\* createCheckout: one durable key per cart until its order is over

\* _quoteInflight: another sheet of the tab waits for the same cart.
Leaders(f) ==
  {g \in Flows \ {f} : /\ Tab[g] = Tab[f] /\ flow[g].cart = flow[f].cart
                       /\ req[g].stage \notin {"none", "joined"}}

\* The call: a request of this tab for this cart is shared; a fresh order drops
\* the stored key first, whatever it is bound to.
Ask(f) ==
  LET c == flow[f].cart IN
  /\ At(f, "create") /\ req[f].stage = "none"
  /\ flow' = [flow EXCEPT ![f].fresh = FALSE]
  /\ req' = [req EXCEPT ![f].stage = IF Leaders(f) # {} THEN "joined" ELSE "load"]
  /\ intent' = IF flow[f].fresh /\ Leaders(f) = {} THEN [intent EXCEPT ![c] = NoIntent] ELSE intent
  /\ UNCHANGED <<shop, drawn, screen, pay, prompt, budget, blocking>>

\* loadOrCreateIntent: read or create under the lock of the cart.  The intent
\* is held from here on, whatever another tab stores.
Load(f) ==
  LET c == flow[f].cart IN
  /\ req[f].stage \in {"load", "reload"}
  /\ \/ /\ intent[c].key # 0
        /\ req' = [req EXCEPT ![f].key = intent[c].key, ![f].quote = intent[c].quote,
                     ![f].stage = IF @ = "load" /\ intent[c].quote # 0 THEN "lookup" ELSE "post"]
        /\ UNCHANGED store
     \/ /\ intent[c].key = 0 /\ drawn < MaxKeys
        /\ drawn' = drawn + 1
        /\ intent' = [intent EXCEPT ![c] = [key |-> drawn + 1, quote |-> 0]]
        /\ req' = [req EXCEPT ![f].key = drawn + 1, ![f].quote = 0, ![f].stage = "post"]
  /\ UNCHANGED <<shop, flow, screen, pay, prompt, budget, blocking>>

\* intentOrderSettled: the shop says the order of the key is over; anything
\* else, a failed read too, keeps the key.
Lookup(f) ==
  /\ req[f].stage = "lookup"
  /\ \/ Settled(req[f].quote) /\ req' = [req EXCEPT ![f].stage = "told"]
     \/ req' = [req EXCEPT ![f].stage = "post"]
  /\ UNCHANGED <<shop, store, flow, screen, pay, prompt, budget, blocking>>

\* releaseIntentForQuote: every stored key that points at the order.
Released(q) == [c \in Carts |-> IF intent[c].quote = q THEN NoIntent ELSE intent[c]]

Release(f) ==
  /\ req[f].stage = "told"
  /\ intent' = Released(req[f].quote)
  /\ req' = [req EXCEPT ![f].stage = "reload"]
  /\ UNCHANGED <<shop, drawn, flow, screen, pay, prompt, budget, blocking>>

----------------------------------------------------------------------------
\* POST /quotes: what the shop does with a key and a cart

HandBack(q, again) ==
  [kind |-> "order", quote |-> q, reused |-> again, money |-> Shown(q)]
Refused(kind, q) == [NoAnswer EXCEPT !.kind = kind, !.quote = q]

Replays(f) == bound[req[f].key] # 0 /\ ~Settled(bound[req[f].key])

Answers(f, ans) ==
  /\ req' = [req EXCEPT ![f].stage = "answer", ![f].ans = ans]
  /\ UNCHANGED <<store, flow, screen, pay, prompt, budget, blocking>>

\* existingCheckout: the key's order is not over, so it is handed back.
Replay(f) ==
  /\ req[f].stage = "post" /\ Replays(f)
  /\ Answers(f, HandBack(bound[req[f].key], TRUE))
  /\ UNCHANGED shop

\* IDEMPOTENCY_MISMATCH: the key's order was asked for with another address, code
\* or gift text; nothing is handed back, and the order is not remembered.
Mismatch(f) ==
  /\ req[f].stage = "post" /\ Replays(f)
  /\ Answers(f, Refused("refused", 0))
  /\ UNCHANGED shop

\* askSupplierAboutALapsedInvoice: money on a lapsed order blocks again.
FindMoney(f, q) ==
  /\ req[f].stage = "post" /\ ~Replays(f)
  /\ Dead(q) /\ order[q].money = "sent"
  /\ order' = [order EXCEPT ![q].money = "seen"]
  /\ Answers(f, Refused("active", q))
  /\ UNCHANGED <<made, bound>>

\* Seeded fault: any unresolved order answers, whatever was in its cart.
ReuseAny(f, q) ==
  /\ req[f].stage = "post" /\ ~Replays(f)
  /\ q \in Unresolved /\ ~Acked(f)
  /\ bound' = [bound EXCEPT ![req[f].key] = q]
  /\ Answers(f, HandBack(q, TRUE))
  /\ UNCHANGED <<order, made>>

\* reuseCheckout: an unresolved order of the same cart answers for a new key.
Reuse(f, q) ==
  /\ req[f].stage = "post" /\ ~Replays(f)
  /\ q \in Unresolved /\ order[q].cart = flow[f].cart /\ ~Acked(f)
  /\ bound' = [bound EXCEPT ![req[f].key] = q]
  /\ Answers(f, HandBack(q, TRUE))
  /\ UNCHANGED <<order, made>>

\* activeCheckoutError: an unresolved order of another cart is in the way.
TurnAway(f, q) ==
  /\ req[f].stage = "post" /\ ~Replays(f)
  /\ q \in Unresolved /\ order[q].cart # flow[f].cart /\ ~Acked(f)
  /\ Answers(f, Refused("active", q))
  /\ UNCHANGED shop

\* The gate of CreateQuote lets the order through and moves the key onto it.
Create(f) ==
  /\ req[f].stage = "post" /\ ~Replays(f)
  /\ Acked(f) \/ Unresolved = {}
  /\ made < MaxOrders
  /\ made' = made + 1
  /\ order' = [order EXCEPT ![made + 1] = [NoOrder EXCEPT !.cart = flow[f].cart, !.ack = flow[f].ack]]
  /\ bound' = [bound EXCEPT ![req[f].key] = made + 1]
  /\ Answers(f, [kind |-> "order", quote |-> made + 1, reused |-> FALSE, money |-> "none"])

\* A limit, a refusal of the supplier, or a request that never arrived.
Refuse(f, why) ==
  /\ req[f].stage = "post" /\ why \in MayRefuse
  /\ why = "blocked" => Batch(f)
  /\ Answers(f, Refused(why, 0))
  /\ UNCHANGED shop

\* The shop answered and the answer never came: 90 seconds, then an error.
Lose(f) ==
  /\ req[f].stage = "answer" /\ req[f].ans.kind = "order"
  /\ Answers(f, Refused("refused", 0))
  /\ UNCHANGED shop

----------------------------------------------------------------------------
\* The answer comes back into runFlow

\* A refusal is asked about, an order that is already paid is not paid again, a
\* live one of the same cart is asked about, and anything else is to be paid.
IsLive(ans) == ans.reused /\ ans.money = "none" /\ order[ans.quote].invoice = "open"

\* saveIntentQuote writes the captured intent over whatever is stored now, and
\* the sheets that joined the request get the same answer.
Delivered(f) ==
  LET ans == req[f].ans IN
  /\ intent' = IF ans.kind = "order" /\ req[f].key # 0
               THEN [intent EXCEPT ![flow[f].cart] = [key |-> req[f].key, quote |-> ans.quote]]
               ELSE intent
  /\ req' = [g \in Flows |->
               IF g = f THEN NoRequest
               ELSE IF /\ req[g].stage = "joined" /\ Tab[g] = Tab[f]
                       /\ flow[g].cart = flow[f].cart
                    THEN [NoRequest EXCEPT !.stage = "answer", !.ans = ans]
                    ELSE req[g]]

\* A prompt or a pay screen of a closed sheet is shown nowhere, but its
\* resolver is set all the same.
ShowPrompt(f, r) ==
  /\ flow' = [flow EXCEPT ![f] = r]
  /\ screen' = [screen EXCEPT ![f] = NoScreen]
  /\ prompt' = [prompt EXCEPT ![Tab[f]] = f]
  /\ UNCHANGED pay

\* From one invoice to the next without a phase between them the screen stays
\* mounted, and with it what it settled.
ShowPay(f, q, money) ==
  /\ flow' = [flow EXCEPT ![f].pc = "pay", ![f].ask = "none", ![f].quote = q]
  /\ screen' = [screen EXCEPT ![f] =
                  IF flow[f].gone THEN NoScreen
                  ELSE [on |-> TRUE, settled |-> @.on /\ @.settled,
                        view |-> money, polling |-> TRUE]]
  /\ pay' = [pay EXCEPT ![Tab[f]] = f]
  /\ UNCHANGED prompt

EndWith(f, pc) ==
  /\ flow' = [flow EXCEPT ![f] = Ending(@, pc)]
  /\ screen' = [screen EXCEPT ![f] = NoScreen]
  /\ UNCHANGED <<pay, prompt>>

Receive(f) ==
  LET ans == req[f].ans IN
  /\ req[f].stage = "answer"
  /\ Delivered(f)
  /\ blocking' = IF ans.kind = "active"
                 THEN [blocking EXCEPT ![Tab[f]] = ans.quote] ELSE blocking
  /\ \/ /\ flow[f].gone /\ Batch(f)
        /\ EndWith(f, "closed")
     \/ /\ ~(flow[f].gone /\ Batch(f)) /\ ans.kind # "order"
        /\ ShowPrompt(f, Asking(flow[f], ans.kind))
     \/ /\ ~(flow[f].gone /\ Batch(f)) /\ ans.kind = "order"
        /\ \/ /\ IsPaid(ans.money)
              /\ EndWith(f, "already-paid")
           \/ /\ IsLive(ans)
              /\ ShowPrompt(f, [Asking(flow[f], "live") EXCEPT !.quote = ans.quote])
           \/ /\ ~IsPaid(ans.money) /\ ~IsLive(ans)
              /\ ShowPay(f, ans.quote, ans.money)
  /\ UNCHANGED <<shop, drawn, budget>>

----------------------------------------------------------------------------
\* The buyer's answers to a prompt

\* The buttons of each prompt; the way back to the cart is Close.
DailyLimitPrompt == {"retry"}
BlockedPrompt == {"details", "remove", "retry", "stop"}
EmailLimitButtons == {"email", "stop"}
LiveDuplicatePhase == {"existing", "new", "cart"}
FailurePrompt(active) == IF active THEN {"force", "stop"} ELSE {"stop"}
ItemFailedPrompt(active) == IF active THEN {"force", "stop"} ELSE {"retry", "stop"}

\* The prompt a sheet shows: a batch that failed has its own.
Buttons(f) ==
  CASE flow[f].ask = "limit" -> DailyLimitPrompt
    [] flow[f].ask = "blocked" -> BlockedPrompt
    [] flow[f].ask = "email" -> EmailLimitButtons
    [] flow[f].ask = "live" -> LiveDuplicatePhase
    [] flow[f].ask \in {"active", "refused", "unresolved"} ->
         IF Batch(f) THEN FailurePrompt(flow[f].ask = "active")
                     ELSE ItemFailedPrompt(flow[f].ask = "active")
    [] OTHER -> {}

\* resolvePrompt: button c of sheet f goes to whoever holds the resolver.
Pressed(f, g, c) ==
  /\ At(f, "prompt") /\ Mounted(f) /\ c \in Buttons(f)
  /\ g = prompt[Tab[f]] /\ g # NoFlow

Unprompted(g) == prompt' = [prompt EXCEPT ![Tab[g]] = NoFlow]

\* The prompts of a creation that failed.
Failed == {"active", "email", "refused"}

\* What each prompt answers to; any other button ends the checkout.
Understood(kind) ==
  {"retry"} \cup (IF kind \in Failed THEN {"force", "email"} ELSE {})
            \cup (IF kind = "blocked" THEN {"details", "remove"} ELSE {})

\* Again, with what the choice sets on the sheet.
Again(f, g, c) ==
  /\ Pressed(f, g, c) /\ flow[g].ask # "live" /\ c = "retry"
  /\ flow' = [flow EXCEPT ![g] = Creating(@)]
  /\ Unprompted(g)
  /\ UNCHANGED <<shop, store, req, screen, pay, budget, blocking>>

\* "Continue anyway": the order in the way is looked at first; one that is paid
\* ends the checkout, a read that fails does not.
Insist(f, g, c) ==
  LET q == blocking[Tab[g]] IN
  /\ Pressed(f, g, c) /\ c = "force" /\ flow[g].ask \in Failed
  /\ \/ /\ q # 0 /\ IsPaid(Shown(q))
        /\ flow' = [flow EXCEPT ![g] = Ending(@, "already-paid")]
     \/ /\ flow' = [flow EXCEPT ![g] = [Creating(@) EXCEPT !.ack = TRUE]]
  /\ Unprompted(g)
  /\ UNCHANGED <<shop, store, req, screen, pay, budget, blocking>>

\* "Open a new order": acknowledged, and under a key of its own.
TakeNew(f, g, c) ==
  /\ Pressed(f, g, c) /\ flow[g].ask = "live" /\ c = "new"
  /\ flow' = [flow EXCEPT ![g] = [Creating(@) EXCEPT !.ack = TRUE, !.fresh = TRUE]]
  /\ Unprompted(g)
  /\ UNCHANGED <<shop, store, req, screen, pay, budget, blocking>>

\* "Continue with that order", and any button that is not of this prompt.
TakeExisting(f, g, c) ==
  /\ Pressed(f, g, c) /\ flow[g].ask = "live" /\ c \notin {"new", "cart"}
  /\ flow' = [flow EXCEPT ![g].pc = "pay", ![g].ask = "none"]
  /\ screen' = [screen EXCEPT ![g] =
                  IF flow[g].gone THEN NoScreen
                  ELSE [on |-> TRUE, settled |-> FALSE, view |-> "none", polling |-> TRUE]]
  /\ pay' = [pay EXCEPT ![Tab[g]] = g]
  /\ Unprompted(g)
  /\ UNCHANGED <<shop, store, req, budget, blocking>>

\* Back to the delivery step: another address, or the missing details.
Redo(f, g, c) ==
  /\ Pressed(f, g, c)
  /\ \/ c = "email" /\ flow[g].ask \in Failed
     \/ c = "details" /\ flow[g].ask = "blocked"
  /\ flow' = [flow EXCEPT ![g] = Ending(@, "delivery")]
  /\ Unprompted(g)
  /\ UNCHANGED <<shop, store, req, screen, pay, budget, blocking>>

\* Without what the supplier blocks; one product left is a single order.
Remove(f, g, c) ==
  /\ Pressed(f, g, c) /\ flow[g].ask = "blocked" /\ c = "remove"
  /\ \E victims \in (SUBSET flow[g].cart) \ {{}, flow[g].cart} :
       flow' = [flow EXCEPT ![g] = [Creating(@) EXCEPT !.cart = flow[g].cart \ victims]]
  /\ Unprompted(g)
  /\ UNCHANGED <<shop, store, req, screen, pay, budget, blocking>>

\* The checkout ends: a batch, and an order that is left as it is, go back to the
\* cart, a single order to the summary of what was paid (nothing).
Stop(f, g, c) ==
  /\ Pressed(f, g, c)
  /\ IF flow[g].ask = "live" THEN c = "cart" ELSE c \notin Understood(flow[g].ask)
  /\ flow' = [flow EXCEPT ![g] = Ending(@, IF Batch(g) \/ flow[g].ask = "live" THEN "closed"
                                                       ELSE "summary")]
  /\ Unprompted(g)
  /\ UNCHANGED <<shop, store, req, screen, pay, budget, blocking>>

----------------------------------------------------------------------------
\* The pay screen

\* Seeded fault: a renewal keeps the screen of a single order as well.
LeavesScreenUnless(f, how) == how # "renew"

\* The screen goes when the phase changes, and a batch renews without one.
LeavesScreen(f, how) == how # "renew" \/ ~Batch(f)

\* finish and resolvePay: once per mounted screen, to whoever holds the
\* resolver of the tab.  r is the record of the sheet that is resolved.
Resolved(f, how) ==
  LET g == pay[Tab[f]]
      r == flow[g]
      next == CASE how = "paid" -> Ending(r, "success")
                [] how = "timeout" -> Asking(r, "unresolved")
                [] OTHER -> [Creating(r) EXCEPT !.ack = TRUE,
                                           !.quote = IF LeavesScreen(g, how) THEN @ ELSE r.quote]
      done == [screen EXCEPT ![f].settled = TRUE, ![f].polling = @ /\ how = "renew"]
  IN
  IF screen[f].settled \/ g = NoFlow
  THEN /\ screen' = done
       /\ UNCHANGED <<flow, pay, prompt, intent>>
  ELSE /\ flow' = [flow EXCEPT ![g] = next]
       /\ screen' = [done EXCEPT ![g] = IF LeavesScreen(g, how) THEN NoScreen ELSE @]
       /\ pay' = [pay EXCEPT ![Tab[f]] = NoFlow]
       /\ prompt' = IF how = "timeout" THEN [prompt EXCEPT ![Tab[f]] = g] ELSE prompt
       /\ intent' = IF how = "paid" THEN Released(r.quote) ELSE intent

\* usePaymentPoll: a paid status ends the checkout, a window over without money
\* ends the poll, and anything else is asked again.
Poll(f) ==
  LET q == flow[f].quote m == Shown(q) IN
  /\ screen[f].on /\ screen[f].polling
  /\ \/ IsPaid(m) /\ Resolved(f, "paid")
     \/ /\ ~IsPaid(m)
        /\ screen' = [screen EXCEPT ![f].view = m,
                                    ![f].polling = ~(Dead(q) /\ m = "none")]
        /\ UNCHANGED <<flow, pay, prompt, intent>>
  /\ UNCHANGED <<shop, drawn, req, budget, blocking>>

\* POLL_MAX_ATTEMPTS: the poll gives up on an order that is still in between.
GiveUp(f) ==
  /\ screen[f].on /\ screen[f].polling /\ ~IsPaid(screen[f].view)
  /\ Resolved(f, "timeout")
  /\ UNCHANGED <<shop, drawn, req, budget, blocking>>

\* A screen that saw no money has nothing to pay: it offers a new invoice.
Unpayable(f) ==
  /\ screen[f].on /\ screen[f].view = "none" /\ order[flow[f].quote].invoice # "open"

\* canRenewQuote: the window is over by the screen's own clock.
Renewable(f) == Unpayable(f) /\ Dead(flow[f].quote)

\* AutoRenewOnce: a dead invoice is replaced without a tap while the budget
\* lasts; the budget is spent even if the screen settled before.
AutoRenew(f) ==
  LET t == Tab[f] g == pay[t] IN
  /\ Renewable(f) /\ budget[t] > 0
  /\ budget' = [budget EXCEPT ![t] = @ - 1]
  /\ Resolved(f, "renew")
  /\ UNCHANGED <<shop, drawn, req, blocking>>

\* The button that is left: the budget is spent, or the order has no invoice yet
\* or is on hold, and then the button orders again beside it.
Renew(f) ==
  /\ Unpayable(f) /\ (Renewable(f) => budget[Tab[f]] = 0)
  /\ Resolved(f, "renew")
  /\ UNCHANGED <<shop, drawn, req, budget, blocking>>

----------------------------------------------------------------------------
\* Outside the sheet: the buyer's wallet, the shop's tracker, the clock

Send(q) ==
  /\ order[q].money = "none" /\ order[q].invoice = "open"
  /\ order' = [order EXCEPT ![q].money = "sent"]

\* The tracker and the webhooks: seen, paid for, delivered.
Observe(q) ==
  \/ order[q].money = "sent" /\ order' = [order EXCEPT ![q].money = "seen"]
  \/ order[q].money \in {"sent", "seen"} /\ order' = [order EXCEPT ![q].money = "paid"]
  \/ order[q].money = "paid" /\ order' = [order EXCEPT ![q].money = "done"]

\* The invoice comes, is held back while nobody has paid, comes again, or ends:
\* its window closes, or the order failed before it had one.
Bill(q, i) ==
  /\ ~Dead(q) /\ order[q].money # "done" /\ i # order[q].invoice
  /\ i = "none" => order[q].money = "none"
  /\ order' = [order EXCEPT ![q].invoice = i]

World ==
  /\ \E q \in 1..made : Send(q) \/ Observe(q) \/ (\E i \in Invoices : Bill(q, i))
  /\ UNCHANGED <<made, bound, store, flow, req, screen, pay, prompt, budget, blocking>>

Choice == {"retry", "details", "remove", "stop", "force", "email", "existing", "new", "cart"}

Next ==
  \/ World
  \/ \E f \in Flows :
       \/ \E c \in Wanted : Open(f, c)
       \/ Start(f) \/ Close(f)
       \/ Ask(f) \/ Load(f) \/ Lookup(f) \/ Release(f)
       \/ Replay(f) \/ Mismatch(f) \/ Create(f) \/ Lose(f) \/ Receive(f)
       \/ \E q \in 1..made : FindMoney(f, q) \/ Reuse(f, q) \/ TurnAway(f, q)
       \/ \E why \in MayRefuse : Refuse(f, why)
       \/ \E g \in Flows, c \in Choice :
            \/ Again(f, g, c) \/ Insist(f, g, c) \/ TakeNew(f, g, c)
            \/ TakeExisting(f, g, c) \/ Redo(f, g, c) \/ Remove(f, g, c) \/ Stop(f, g, c)
       \/ Poll(f) \/ GiveUp(f) \/ AutoRenew(f) \/ Renew(f)

Spec == Init /\ [][Next]_vars

----------------------------------------------------------------------------
Places == {"delivery", "create", "prompt", "pay", "already-paid", "success", "summary", "closed"}
Asks == {"none", "live", "active", "unresolved"} \cup Refusals
Stages == {"none", "joined", "load", "lookup", "told", "reload", "post", "answer"}
Answer == [kind : {"none", "order", "active"} \cup Refusals, quote : 0..made,
           reused : BOOLEAN, money : {"none", "seen", "paid", "done"}]

\* The kinds of values the shop, the browser and the sheets keep; whatever names
\* an order or a key names one that exists.
TypeOK ==
  /\ made \in 0..MaxOrders /\ drawn \in 0..MaxKeys
  /\ order \in [Orders -> [cart : Carts \cup {{}}, money : {"none", "sent", "seen", "paid", "done"},
                           invoice : Invoices, ack : BOOLEAN]]
  /\ bound \in [Keys -> 0..made]
  /\ intent \in [Carts -> [key : 0..drawn, quote : 0..made]]
  /\ flow \in [Flows -> [pc : Places, ask : Asks, cart : Carts \cup {{}}, quote : 0..made, gone : BOOLEAN,
                         ack : BOOLEAN, fresh : BOOLEAN]]
  /\ req \in [Flows -> [stage : Stages, key : 0..drawn, quote : 0..made, ans : Answer]]
  /\ screen \in [Flows -> [on : BOOLEAN, settled : BOOLEAN, polling : BOOLEAN,
                           view : {"none", "seen", "paid", "done"}]]
  /\ pay \in [Tabs -> Flows \cup {NoFlow}] /\ prompt \in [Tabs -> Flows \cup {NoFlow}]
  /\ budget \in [Tabs -> 0..Budget]
  /\ blocking \in [Tabs -> 0..made]

\* What a pay screen needs to be heard, and to say that its order was paid.
Heard(f) == pay[Tab[f]] = f /\ screen[f].on /\ ~screen[f].settled

\* A run goes on behind a closed sheet.
LeftBehind(g) == ~Mounted(g) /\ ~At(g, "closed")

\* The pay screen of a single order is heard, through every renewal and whatever
\* sheets its tab opened before.  Only a run that an earlier sheet of the tab left
\* behind may take the resolver from it.
ScreensAnswer ==
  \A f \in Flows : Mounted(f) /\ At(f, "pay") /\ ~Batch(f) =>
    Heard(f) \/ (\E g \in Flows : Tab[g] = Tab[f] /\ LeftBehind(g))

\* The same for the pay screen of a batch.
BatchScreensAnswer == \A f \in Flows : Mounted(f) /\ At(f, "pay") /\ Batch(f) => Heard(f)

\* A stored key leads to orders of its own cart and of no other.
KeysLeadToTheirCart ==
  \A c \in Carts : LET i == intent[c] IN
    /\ i.quote # 0 => order[i.quote].cart = c
    /\ i.key # 0 /\ bound[i.key] # 0 => order[bound[i.key]].cart = c

\* A sheet that shows success shows it for an order that is paid, whoever else
\* holds the resolver of its tab.
SuccessIsPaid ==
  \A f \in Flows : Mounted(f) /\ At(f, "success") => order[flow[f].quote].money \in Paid

\* Two orders of one cart can be paid at once only where the later one was
\* created under an acknowledgement.
Twins(p, q) ==
  p < q /\ Payable(p) /\ Payable(q) /\ order[p].cart = order[q].cart

SecondOrderIsAcknowledged == \A p, q \in 1..made : Twins(p, q) => order[q].ack

=============================================================================
