-------------------------- MODULE CheckoutFlowProofs --------------------------
(***************************************************************************)
(* Proofs about the checkout: for any number of sheets, tabs, products,    *)
(* orders, keys and renewals, two orders of one cart are payable at once   *)
(* only where the later one was acknowledged, a stored key leads to orders *)
(* of its own cart, the pay screen of a single order is heard unless a run *)
(* left behind in its tab took the resolver, and success on screen means   *)
(* that the order is paid.                                                 *)
(***************************************************************************)
EXTENDS CheckoutFlow, TLAPS

-----------------------------------------------------------------------------
(* The kinds of values, as sets of records.                                *)

OrderRec == [cart : Carts \cup {{}}, money : {"none", "sent", "seen", "paid", "done"},
             invoice : Invoices, ack : BOOLEAN]
IntentRec(n, d) == [key : 0..d, quote : 0..n]
AnswerRec(n) == [kind : {"none", "order", "active"} \cup Refusals, quote : 0..n,
                 reused : BOOLEAN, money : {"none", "seen", "paid", "done"}]
ReqRec(n, d) == [stage : Stages, key : 0..d, quote : 0..n, ans : AnswerRec(n)]
FlowRec(n) == [pc : Places, ask : Asks, cart : Carts \cup {{}}, quote : 0..n, gone : BOOLEAN,
               ack : BOOLEAN, fresh : BOOLEAN]
ScreenRec == [on : BOOLEAN, settled : BOOLEAN, polling : BOOLEAN,
              view : {"none", "seen", "paid", "done"}]
Holder == Flows \cup {NoFlow}

LEMMA TypeParts ==
  TypeOK <=> /\ made \in 0..MaxOrders /\ drawn \in 0..MaxKeys
             /\ order \in [Orders -> OrderRec]
             /\ bound \in [Keys -> 0..made]
             /\ intent \in [Carts -> IntentRec(made, drawn)]
             /\ flow \in [Flows -> FlowRec(made)]
             /\ req \in [Flows -> ReqRec(made, drawn)]
             /\ screen \in [Flows -> ScreenRec]
             /\ pay \in [Tabs -> Holder] /\ prompt \in [Tabs -> Holder]
             /\ budget \in [Tabs -> 0..Budget]
             /\ blocking \in [Tabs -> 0..made]
BY DEF TypeOK, OrderRec, IntentRec, FlowRec, ReqRec, AnswerRec, Answer, ScreenRec, Holder

LEMMA TypePartsNext ==
  TypeOK' <=> /\ made' \in 0..MaxOrders /\ drawn' \in 0..MaxKeys
              /\ order' \in [Orders -> OrderRec]
              /\ bound' \in [Keys -> 0..made']
              /\ intent' \in [Carts -> IntentRec(made', drawn')]
              /\ flow' \in [Flows -> FlowRec(made')]
              /\ req' \in [Flows -> ReqRec(made', drawn')]
              /\ screen' \in [Flows -> ScreenRec]
              /\ pay' \in [Tabs -> Holder] /\ prompt' \in [Tabs -> Holder]
              /\ budget' \in [Tabs -> 0..Budget]
              /\ blocking' \in [Tabs -> 0..made']
BY DEF TypeOK, OrderRec, IntentRec, FlowRec, ReqRec, AnswerRec, Answer, ScreenRec, Holder

\* What the records of a sheet become stays a record of a sheet.
LEMMA FlowMoves ==
  ASSUME NEW n \in Nat, NEW r \in FlowRec(n)
  PROVE  /\ Creating(r) \in FlowRec(n)
         /\ \A kind \in Asks : Asking(r, kind) \in FlowRec(n)
         /\ \A pc \in Places : Ending(r, pc) \in FlowRec(n)
         /\ \A q \in 0..n, kind \in Asks : [Asking(r, kind) EXCEPT !.quote = q] \in FlowRec(n)
<1>0. 0 \in 0..n
  OBVIOUS
<1>1. NewFlow \in FlowRec(n)
  BY DEF NewFlow, FlowRec, Places, Asks
<1>2. Creating(r) \in FlowRec(n)
  BY <1>0 DEF Creating, FlowRec, Places, Asks
<1>3. ASSUME NEW kind \in Asks
      PROVE  Asking(r, kind) \in FlowRec(n)
  BY <1>0 DEF Asking, FlowRec, Places
<1>4. ASSUME NEW pc \in Places
      PROVE  Ending(r, pc) \in FlowRec(n)
  BY <1>0, <1>1 DEF Ending, FlowRec, Asks
<1>5. ASSUME NEW q \in 0..n, NEW kind \in Asks
      PROVE  [Asking(r, kind) EXCEPT !.quote = q] \in FlowRec(n)
  BY DEF Asking, FlowRec, Places
<1> QED BY <1>2, <1>3, <1>4, <1>5

LEMMA EmptyRecords ==
  ASSUME NEW n \in Nat, NEW d \in Nat
  PROVE  /\ NewFlow \in FlowRec(n) /\ NoOrder \in OrderRec /\ NoIntent \in IntentRec(n, d)
         /\ NoAnswer \in AnswerRec(n) /\ NoRequest \in ReqRec(n, d) /\ NoScreen \in ScreenRec
<1>1. NewFlow \in FlowRec(n)
  BY DEF NewFlow, FlowRec, Places, Asks
<1>2. NoOrder \in OrderRec /\ NoIntent \in IntentRec(n, d) /\ NoScreen \in ScreenRec
  BY DEF NoOrder, OrderRec, Invoices, NoIntent, IntentRec, NoScreen, ScreenRec
<1>3. NoAnswer \in AnswerRec(n)
  BY DEF NoAnswer, AnswerRec
<1>4. NoRequest \in ReqRec(n, d)
  BY <1>3 DEF NoRequest, ReqRec, Stages
<1> QED BY <1>1, <1>2, <1>3, <1>4

LEMMA TabType == \A f \in Flows : Tab[f] \in Tabs
BY DEF Tabs

-----------------------------------------------------------------------------
(* The inductive invariant.                                                *)

\* A sheet that is anywhere but closed has a cart; one that pays, succeeded or
\* asks about a live order knows which; it waits for the shop only while it
\* creates, and shows a screen only while it pays or renews a batch.
Sheet(f) ==
  /\ ~At(f, "closed") => flow[f].cart # {}
  /\ At(f, "pay") \/ At(f, "success") \/ flow[f].ask = "live" => flow[f].quote # 0
  /\ req[f].stage # "none" => At(f, "create")
  /\ screen[f].on => flow[f].quote # 0 /\ (At(f, "pay") \/ (At(f, "create") /\ Batch(f)))

\* A request has what its stage needs.
Call(f) ==
  /\ req[f].stage = "none" => req[f] = NoRequest
  /\ req[f].stage \in {"lookup", "told"} => req[f].quote # 0
  /\ req[f].stage \in {"lookup", "post"} => req[f].key # 0
  /\ req[f].ans.kind = "order" => req[f].ans.quote # 0

Sheets == \A f \in Flows : Sheet(f) /\ Call(f)

\* A resolver belongs to a sheet of its tab that waits for it.
Resolvers ==
  \A t \in Tabs :
    /\ prompt[t] # NoFlow => Tab[prompt[t]] = t /\ At(prompt[t], "prompt")
    /\ pay[t] # NoFlow => Tab[pay[t]] = t /\ At(pay[t], "pay")

\* One key, one cart: wherever a key is stored or carried.
OneCartPerKey ==
  /\ \A c, d \in Carts : intent[c].key # 0 /\ intent[c].key = intent[d].key => c = d
  /\ \A f \in Flows, c \in Carts :
       req[f].key # 0 /\ req[f].key = intent[c].key => flow[f].cart = c
  /\ \A f, g \in Flows :
       req[f].key # 0 /\ req[f].key = req[g].key => flow[f].cart = flow[g].cart

\* What a key is bound to, and what an intent, a request or an answer names, is
\* an order of that cart.
OrdersOfTheCart ==
  /\ \A k \in Keys : k > drawn => bound[k] = 0
  /\ \A c \in Carts :
       /\ intent[c].quote # 0 => order[intent[c].quote].cart = c
       /\ intent[c].key # 0 /\ bound[intent[c].key] # 0 => order[bound[intent[c].key]].cart = c
  /\ \A f \in Flows :
       /\ req[f].quote # 0 => order[req[f].quote].cart = flow[f].cart
       /\ req[f].key # 0 /\ bound[req[f].key] # 0 =>
            order[bound[req[f].key]].cart = flow[f].cart
       /\ req[f].ans.kind = "order" => order[req[f].ans.quote].cart = flow[f].cart

Keyed == OneCartPerKey /\ OrdersOfTheCart

\* Before an order that nobody acknowledged, every other is delivered or dead.
Past(q) == Dead(q) \/ order[q].money = "done"

Gate == \A p, q \in 1..made : p < q /\ ~order[q].ack => Past(p)

IInv == TypeOK /\ Sheets /\ Resolvers /\ Keyed /\ Gate

-----------------------------------------------------------------------------
(* The world outside the sheet.                                            *)

LEMMA OrdersKnown ==
  ASSUME TypeOK, NEW q \in 1..made
  PROVE  q \in Orders /\ order[q] \in OrderRec
BY CheckoutAssumption DEF TypeOK, Orders, OrderRec

\* What an order may become: its cart and acknowledgement stay, and the end of
\* its invoice and its delivery are final.
Ages(q, r) ==
  /\ r \in OrderRec /\ r.cart = order[q].cart /\ r.ack = order[q].ack
  /\ Dead(q) => r.invoice = "over"
  /\ order[q].money = "done" => r.money = "done"
  /\ order[q].money \notin {"none", "sent"} => r.money \notin {"none", "sent"}
  /\ order[q].money \in Paid => r.money \in Paid

LEMMA AgeingKeepsTheGate ==
  ASSUME TypeOK, Gate, NEW q \in 1..made, NEW r, Ages(q, r),
         order' = [order EXCEPT ![q] = r], made' = made
  PROVE  Gate'
<1> SUFFICES ASSUME NEW a \in 1..made, NEW b \in 1..made, a < b, ~order'[b].ack
             PROVE  Past(a)'
  BY DEF Gate
<1>1. a \in Orders /\ b \in Orders /\ q \in Orders /\ order \in [Orders -> OrderRec]
  BY OrdersKnown, TypeParts
<1>2. \A x \in Orders : order'[x] = IF x = q THEN r ELSE order[x]
  BY <1>1
<1>3. order[b].ack = order'[b].ack
  BY <1>1, <1>2 DEF Ages
<1>4. Past(a)
  BY <1>3 DEF Gate
<1> QED BY <1>1, <1>2, <1>4 DEF Past, Dead, Ages

LEMMA AgeingKeepsTheRest ==
  ASSUME IInv, NEW q \in 1..made, NEW r, Ages(q, r),
         order' = [order EXCEPT ![q] = r],
         UNCHANGED <<made, bound, store, flow, req, screen, pay, prompt, budget, blocking>>
  PROVE  IInv'
<1>1. TypeOK /\ q \in Orders /\ order \in [Orders -> OrderRec] /\ r \in OrderRec
  BY OrdersKnown, TypeParts DEF IInv, Ages
<1>2. order' \in [Orders -> OrderRec]
  BY <1>1
<1>3. TypeOK'
  BY <1>1, <1>2, TypeParts, TypePartsNext DEF store
<1>4. \A x \in Orders : order'[x].cart = order[x].cart
  BY <1>1 DEF Ages
<1>5. Gate'
  BY <1>1, AgeingKeepsTheGate DEF IInv
<1>6. Sheets' /\ Resolvers'
  BY DEF IInv, Sheets, Sheet, Call, At, Batch, Resolvers
<1>7. OneCartPerKey'
  BY DEF IInv, Keyed, OneCartPerKey, store
<1>8. OrdersOfTheCart'
  <2>1. /\ \A c \in Carts : intent[c].quote \in 0..made /\ intent[c].key \in 0..drawn
        /\ \A f \in Flows : /\ req[f].quote \in 0..made /\ req[f].key \in 0..drawn
                            /\ req[f].ans.quote \in 0..made
    BY <1>1, TypeParts DEF IntentRec, ReqRec, AnswerRec
  <2>2. \A k \in 0..drawn : k # 0 => k \in Keys /\ bound[k] \in 0..made
    BY <1>1, CheckoutAssumption, TypeParts DEF Keys
  <2>3. \A x \in 0..made : x # 0 => x \in Orders
    BY <1>1, CheckoutAssumption, TypeParts DEF Orders
  <2>4. \A f \in Flows : req[f].ans.kind = "order" => req[f].ans.quote # 0
    BY DEF IInv, Sheets, Call
  <2> QED BY <1>4, <2>1, <2>2, <2>3, <2>4 DEF IInv, Keyed, OrdersOfTheCart, store
<1> QED BY <1>3, <1>5, <1>6, <1>7, <1>8 DEF IInv, Keyed

LEMMA WorldKeeps ==
  ASSUME IInv, World
  PROVE  IInv'
<1>1. PICK q \in 1..made : Send(q) \/ Observe(q) \/ (\E i \in Invoices : Bill(q, i))
  BY DEF World
<1>2. UNCHANGED <<made, bound, store, flow, req, screen, pay, prompt, budget, blocking>>
  BY DEF World
<1>3. q \in Orders /\ order[q] \in OrderRec
  BY OrdersKnown DEF IInv
<1>4. CASE Send(q)
  <2>1. Ages(q, [order[q] EXCEPT !.money = "sent"])
    BY <1>3, <1>4 DEF Send, Ages, Dead, OrderRec, Paid
  <2> QED BY <1>2, <1>4, <2>1, AgeingKeepsTheRest DEF Send
<1>5. CASE Observe(q)
  <2>1. order[q].money \in {"sent", "seen", "paid"}
    BY <1>5 DEF Observe
  <2>2. order[q].money = "sent" => Ages(q, [order[q] EXCEPT !.money = "seen"])
    BY <1>3 DEF Ages, Dead, OrderRec, Paid
  <2>3. Ages(q, [order[q] EXCEPT !.money = "paid"]) \/ order[q].money = "done"
    BY <1>3, <2>1 DEF Ages, Dead, OrderRec, Paid
  <2>4. order[q].money = "paid" => Ages(q, [order[q] EXCEPT !.money = "done"])
    BY <1>3 DEF Ages, Dead, OrderRec, Paid
  <2>5. \E m \in {"seen", "paid", "done"} :
          /\ order' = [order EXCEPT ![q] = [order[q] EXCEPT !.money = m]]
          /\ Ages(q, [order[q] EXCEPT !.money = m])
    BY <1>5, <2>1, <2>2, <2>3, <2>4 DEF Observe
  <2> QED BY <1>2, <2>5, AgeingKeepsTheRest
<1>6. ASSUME NEW i \in Invoices, Bill(q, i)
      PROVE  IInv'
  <2>1. Ages(q, [order[q] EXCEPT !.invoice = i])
    BY <1>3, <1>6 DEF Bill, Ages, Dead, OrderRec, Paid
  <2> QED BY <1>2, <1>6, <2>1, AgeingKeepsTheRest DEF Bill
<1> QED BY <1>1, <1>4, <1>5, <1>6

-----------------------------------------------------------------------------
(* Asking for an order.                                                    *)

\* A request that has what its stage needs, and names orders of its cart.
Fits(f, x) ==
  /\ x.stage # "none"
  /\ x.stage \in {"lookup", "told"} => x.quote # 0
  /\ x.stage \in {"lookup", "post"} => x.key # 0
  /\ x.ans.kind = "order" => x.ans.quote # 0 /\ order'[x.ans.quote].cart = flow[f].cart
  /\ x.quote # 0 => order'[x.quote].cart = flow[f].cart

LEMMA ReqFacts ==
  ASSUME IInv, NEW f \in Flows
  PROVE  /\ made \in Nat /\ drawn \in Nat
         /\ req[f] \in ReqRec(made, drawn) /\ flow[f] \in FlowRec(made)
         /\ req[f].ans \in AnswerRec(made)
         /\ req[f].stage # "none" => At(f, "create") /\ flow[f].cart \in Carts
         /\ Sheet(f) /\ Call(f)
<1>1. TypeOK /\ Sheet(f) /\ Call(f)
  BY DEF IInv, Sheets
<1>2. made \in Nat /\ drawn \in Nat /\ req[f] \in ReqRec(made, drawn) /\ flow[f] \in FlowRec(made)
  BY <1>1, CheckoutAssumption, TypeParts
<1>3. req[f].stage # "none" => At(f, "create") /\ flow[f].cart # {}
  BY <1>1 DEF Sheet, At
<1> QED BY <1>1, <1>2, <1>3 DEF ReqRec, FlowRec

LEMMA RequestKeepsSheets ==
  ASSUME IInv, NEW f \in Flows, NEW x, req' = [req EXCEPT ![f] = x], Fits(f, x),
         At(f, "create"), UNCHANGED <<flow, screen, pay, prompt>>
  PROVE  Sheets' /\ Resolvers'
<1>1. \A g \in Flows : req'[g] = IF g = f THEN x ELSE req[g]
  BY TypeParts DEF IInv
<1>2. Resolvers'
  BY DEF IInv, Resolvers, At
<1>3. ASSUME NEW g \in Flows PROVE Sheet(g)' /\ Call(g)'
  <2>1. Sheet(g) /\ Call(g)
    BY DEF IInv, Sheets
  <2>2. Sheet(g)'
    BY <1>1, <2>1 DEF Sheet, At, Batch
  <2>3. Call(g)'
    BY <1>1, <2>1 DEF Call, Fits
  <2> QED BY <2>2, <2>3
<1> QED BY <1>2, <1>3 DEF Sheets

\* A request that carries no other key than before, or the stored one.
LEMMA RequestKeeps ==
  ASSUME IInv, NEW f \in Flows, NEW x \in ReqRec(made, drawn),
         req' = [req EXCEPT ![f] = x], Fits(f, x), At(f, "create"),
         x.key \in {req[f].key, intent[flow[f].cart].key},
         UNCHANGED <<shop, store, flow, screen, pay, prompt, budget, blocking>>
  PROVE  IInv'
<1>1. TypeOK'
  BY TypeParts, TypePartsNext DEF IInv, shop, store
<1>2. Sheets' /\ Resolvers'
  BY RequestKeepsSheets
<1>3. Gate'
  BY DEF IInv, Gate, Past, Dead, shop
<1>4. \A g \in Flows : req'[g] = IF g = f THEN x ELSE req[g]
  BY TypeParts DEF IInv
<1>5. flow[f].cart \in Carts
  BY ReqFacts, TypeParts DEF IInv, Sheets, Sheet, At, FlowRec
<1>6. OneCartPerKey'
  BY <1>4, <1>5 DEF IInv, Keyed, OneCartPerKey, store
<1>7. OrdersOfTheCart'
  BY <1>4, <1>5 DEF IInv, Keyed, OrdersOfTheCart, store, shop, Fits
<1> QED BY <1>1, <1>2, <1>3, <1>6, <1>7 DEF IInv, Keyed

LEMMA AskKeeps ==
  ASSUME IInv, NEW f \in Flows, Ask(f)
  PROVE  IInv'
<1> DEFINE c == flow[f].cart
           x == [req[f] EXCEPT !.stage = IF Leaders(f) # {} THEN "joined" ELSE "load"]
<1>1. At(f, "create") /\ req[f] = NoRequest /\ flow[f] \in FlowRec(made) /\ c \in Carts
  <2>1. At(f, "create") /\ req[f].stage = "none"
    BY DEF Ask
  <2>2. c # {}
    BY <2>1 DEF IInv, Sheets, Sheet, At
  <2> QED BY <2>1, <2>2, ReqFacts DEF Call, FlowRec
<1>2. req' = [req EXCEPT ![f] = x]
  BY DEF Ask
<1>3. /\ x \in ReqRec(made, drawn) /\ x.key = 0 /\ x.quote = 0 /\ x.ans.kind = "none"
      /\ x.stage \in {"joined", "load"}
  BY <1>1, ReqFacts DEF ReqRec, Stages, NoRequest, NoAnswer
<1> HIDE DEF x
<1>4. flow' = [flow EXCEPT ![f] = [flow[f] EXCEPT !.fresh = FALSE]]
  BY DEF Ask
<1>5. [flow[f] EXCEPT !.fresh = FALSE] \in FlowRec(made)
  BY <1>1 DEF FlowRec
<1>6. /\ intent' \in [Carts -> IntentRec(made, drawn)]
      /\ \A d \in Carts : intent'[d] = intent[d] \/ intent'[d] = NoIntent
  BY <1>1, ReqFacts, EmptyRecords, TypeParts DEF IInv, Ask
<1>7. UNCHANGED <<shop, drawn, screen, pay, prompt, budget, blocking>>
  BY DEF Ask
<1>8. TypeOK'
  BY <1>2, <1>3, <1>4, <1>5, <1>6, <1>7, TypeParts, TypePartsNext DEF IInv, shop
<1>9. \A g \in Flows : /\ req'[g] = IF g = f THEN x ELSE req[g]
                       /\ flow'[g].pc = flow[g].pc /\ flow'[g].ask = flow[g].ask
                       /\ flow'[g].cart = flow[g].cart /\ flow'[g].quote = flow[g].quote
  BY <1>1, <1>2, <1>4, TypeParts DEF IInv, FlowRec
<1>10. Sheets'
  <2> SUFFICES ASSUME NEW g \in Flows PROVE Sheet(g)' /\ Call(g)'
    BY DEF Sheets
  <2>1. Sheet(g) /\ Call(g)
    BY DEF IInv, Sheets
  <2>2. Sheet(g)'
    BY <1>1, <1>3, <1>7, <1>9, <2>1 DEF Sheet, At, Batch
  <2>3. Call(g)'
    BY <1>3, <1>9, <2>1 DEF Call
  <2> QED BY <2>2, <2>3
<1>11. Resolvers'
  <2>1. \A t \in Tabs : prompt[t] \in Flows \cup {NoFlow} /\ pay[t] \in Flows \cup {NoFlow}
    BY TypeParts DEF IInv, Holder
  <2>2. \A g \in Flows, pc \in Places : At(g, pc) => At(g, pc)'
    BY <1>9 DEF At
  <2>3. UNCHANGED <<prompt, pay>> /\ "prompt" \in Places /\ "pay" \in Places
    BY <1>7 DEF Places
  <2> QED BY <2>1, <2>2, <2>3 DEF IInv, Resolvers
<1>12. OneCartPerKey'
  <2>1. OneCartPerKey
    BY DEF IInv, Keyed
  <2>2. \A d \in Carts : intent'[d].key # 0 => intent'[d].key = intent[d].key
    BY <1>6 DEF NoIntent
  <2>3. \A g \in Flows : req'[g].key # 0 => req'[g].key = req[g].key
    BY <1>3, <1>9
  <2> QED BY <1>9, <2>1, <2>2, <2>3 DEF OneCartPerKey
<1>13. OrdersOfTheCart'
  <2>1. OrdersOfTheCart /\ UNCHANGED <<bound, order, drawn>>
    BY <1>7 DEF IInv, Keyed, shop
  <2>0. NoIntent.key = 0 /\ NoIntent.quote = 0
    BY DEF NoIntent
  <2>2. \A d \in Carts : intent'[d] = intent[d] \/ (intent'[d].key = 0 /\ intent'[d].quote = 0)
    BY <1>6, <2>0
  <2>3. \A g \in Flows : req'[g] = req[g] \/ /\ req'[g].key = 0 /\ req'[g].quote = 0
                                             /\ req'[g].ans.kind # "order"
    BY <1>3, <1>9
  <2> QED BY <1>9, <2>1, <2>2, <2>3 DEF OrdersOfTheCart
<1>14. Gate'
  BY <1>7 DEF IInv, Gate, Past, Dead, shop
<1> QED BY <1>8, <1>10, <1>11, <1>12, <1>13, <1>14 DEF IInv, Keyed

\* A stored key is read, or a new one is drawn and stored.
LEMMA LoadKeeps ==
  ASSUME IInv, NEW f \in Flows, Load(f)
  PROVE  IInv'
<1> DEFINE c == flow[f].cart
<1>1. req[f].stage \in {"load", "reload"}
  BY DEF Load
<1>2. /\ At(f, "create") /\ c \in Carts /\ req[f] \in ReqRec(made, drawn)
      /\ req[f].ans \in AnswerRec(made) /\ Call(f) /\ made \in Nat /\ drawn \in Nat
  BY <1>1, ReqFacts
<1>3. intent[c] \in IntentRec(made, drawn)
  BY <1>2, TypeParts DEF IInv
<1>4. req[f].ans.kind = "order" => order[req[f].ans.quote].cart = c
  BY DEF IInv, Keyed, OrdersOfTheCart
<1>5. CASE intent[c].key # 0
  <2> DEFINE stage == IF req[f].stage = "load" /\ intent[c].quote # 0 THEN "lookup" ELSE "post"
             x == [req[f] EXCEPT !.key = intent[c].key, !.quote = intent[c].quote, !.stage = stage]
  <2>1. req' = [req EXCEPT ![f] = x] /\ UNCHANGED <<store, shop, flow, screen, pay, prompt, budget, blocking>>
    BY <1>5 DEF Load
  <2>2. /\ x \in ReqRec(made, drawn) /\ x.key = intent[c].key /\ x.quote = intent[c].quote
        /\ x.stage \in {"lookup", "post"} /\ (x.stage = "lookup" => x.quote # 0) /\ x.ans = req[f].ans
    BY <1>2, <1>3 DEF ReqRec, IntentRec, Stages
  <2> HIDE DEF x
  <2>3. x.quote # 0 => order[x.quote].cart = c
    BY <1>2, <2>2 DEF IInv, Keyed, OrdersOfTheCart
  <2>4. Fits(f, x)
    BY <1>2, <1>4, <1>5, <2>1, <2>2, <2>3 DEF Fits, Call, shop
  <2> QED BY <1>2, <2>1, <2>2, <2>4, RequestKeeps
<1>6. CASE intent[c].key = 0
  <2> DEFINE k == drawn + 1
             i == [key |-> k, quote |-> 0]
             x == [req[f] EXCEPT !.key = k, !.quote = 0, !.stage = "post"]
  <2>1. /\ drawn < MaxKeys /\ drawn' = k /\ intent' = [intent EXCEPT ![c] = i]
        /\ req' = [req EXCEPT ![f] = x] /\ UNCHANGED <<shop, flow, screen, pay, prompt, budget, blocking>>
    BY <1>6 DEF Load
  <2>2. /\ k \in Keys /\ k \in 0..MaxKeys /\ k # 0 /\ k > drawn /\ MaxKeys \in Nat
        /\ \A y \in 0..drawn : y \in 0..k /\ y # k
    BY <1>2, <2>1, CheckoutAssumption DEF Keys
  <2>a. k \in 0..k /\ 0 \in 0..made /\ "post" \in Stages
    BY <1>2 DEF Stages
  <2> HIDE DEF k
  <2>3. x \in ReqRec(made, k) /\ x.key = k /\ x.quote = 0 /\ x.stage = "post" /\ x.ans = req[f].ans
    BY <1>2, <2>a DEF ReqRec
  <2>4. i \in IntentRec(made, k) /\ i.key = k /\ i.quote = 0
    BY <1>2, <2>a DEF IntentRec
  <2> HIDE DEF x, i
  <2>5. Fits(f, x)
    BY <1>2, <1>4, <2>1, <2>2, <2>3 DEF Fits, Call, shop
  <2>6. Sheets' /\ Resolvers'
    BY <1>2, <2>1, <2>5, RequestKeepsSheets
  <2>7. /\ \A g \in Flows : req'[g] = IF g = f THEN x ELSE req[g]
        /\ \A d \in Carts : intent'[d] = IF d = c THEN i ELSE intent[d]
        /\ UNCHANGED <<order, made, bound, flow>>
    BY <1>2, <2>1, TypeParts DEF IInv, shop
  <2>8. TypeOK'
    <3>1. IntentRec(made, drawn) \subseteq IntentRec(made, k) /\ ReqRec(made, drawn) \subseteq ReqRec(made, k)
      BY <2>2 DEF IntentRec, ReqRec
    <3>2. intent' \in [Carts -> IntentRec(made, k)]
      BY <1>2, <2>1, <2>4, <3>1, TypeParts DEF IInv
    <3>3. req' \in [Flows -> ReqRec(made, k)]
      BY <2>1, <2>3, <3>1, TypeParts DEF IInv
    <3> QED BY <2>1, <2>2, <3>2, <3>3, TypeParts, TypePartsNext DEF IInv, shop
  <2>9. Gate'
    BY <2>7 DEF IInv, Gate, Past, Dead
  <2>10. /\ \A d \in Carts : intent[d].key # k
         /\ \A g \in Flows : req[g].key # k
    BY <2>2, TypeParts DEF IInv, IntentRec, ReqRec
  <2>11. OneCartPerKey'
    <3>1. OneCartPerKey
      BY DEF IInv, Keyed
    <3> QED BY <2>3, <2>4, <2>7, <2>10, <3>1 DEF OneCartPerKey
  <2>12. OrdersOfTheCart'
    <3>1. OrdersOfTheCart
      BY DEF IInv, Keyed
    <3>2. bound[k] = 0
      BY <2>2, <3>1 DEF OrdersOfTheCart
    <3>3. \A z \in Keys : z > k => z > drawn
      BY <1>2, <2>2 DEF Keys, k
    <3> QED BY <1>2, <1>4, <2>1, <2>3, <2>4, <2>7, <3>1, <3>2, <3>3 DEF OrdersOfTheCart
  <2> QED BY <2>6, <2>8, <2>9, <2>11, <2>12 DEF IInv, Keyed
<1> QED BY <1>5, <1>6

\* The shop answers without touching its books.
LEMMA AnswerKeeps ==
  ASSUME IInv, NEW f \in Flows, req[f].stage \in {"post", "answer"},
         NEW ans \in AnswerRec(made), Answers(f, ans), UNCHANGED shop,
         ans.kind = "order" => ans.quote # 0 /\ order[ans.quote].cart = flow[f].cart
  PROVE  IInv'
<1> DEFINE x == [req[f] EXCEPT !.stage = "answer", !.ans = ans]
<1>1. req' = [req EXCEPT ![f] = x] /\ UNCHANGED <<store, flow, screen, pay, prompt, budget, blocking>>
  BY DEF Answers
<1>2. At(f, "create") /\ req[f] \in ReqRec(made, drawn)
  BY ReqFacts
<1>3. /\ x \in ReqRec(made, drawn) /\ x.key = req[f].key /\ x.quote = req[f].quote
      /\ x.stage = "answer" /\ x.ans = ans
  BY <1>2 DEF ReqRec, Stages
<1> HIDE DEF x
<1>4. x.quote # 0 => order[x.quote].cart = flow[f].cart
  BY <1>3 DEF IInv, Keyed, OrdersOfTheCart
<1>5. Fits(f, x)
  BY <1>3, <1>4 DEF Fits, shop
<1> QED BY <1>1, <1>2, <1>3, <1>5, RequestKeeps

LEMMA LookupKeeps ==
  ASSUME IInv, NEW f \in Flows, Lookup(f)
  PROVE  IInv'
<1>1. PICK stage \in {"told", "post"} : req' = [req EXCEPT ![f].stage = stage]
  BY DEF Lookup
<1> DEFINE x == [req[f] EXCEPT !.stage = stage]
<1>2. req[f].stage = "lookup" /\ UNCHANGED <<shop, store, flow, screen, pay, prompt, budget, blocking>>
  BY DEF Lookup
<1>3. /\ At(f, "create") /\ req[f] \in ReqRec(made, drawn) /\ Call(f)
      /\ flow[f].cart \in Carts
  BY <1>2, ReqFacts
<1>4. /\ x \in ReqRec(made, drawn) /\ x.key = req[f].key /\ x.quote = req[f].quote
      /\ x.stage = stage /\ x.ans = req[f].ans
  BY <1>3 DEF ReqRec, Stages
<1>5. req' = [req EXCEPT ![f] = x]
  BY <1>1
<1> HIDE DEF x
<1>6. x.key # 0
  BY <1>2, <1>3, <1>4 DEF Call
<1>7. /\ x.quote # 0 => order[x.quote].cart = flow[f].cart
      /\ x.ans.kind = "order" => x.ans.quote # 0 /\ order[x.ans.quote].cart = flow[f].cart
  BY <1>3, <1>4 DEF IInv, Keyed, OrdersOfTheCart, Call
<1>8. Fits(f, x)
  BY <1>2, <1>3, <1>4, <1>6, <1>7 DEF Fits, Call, shop
<1> QED BY <1>2, <1>3, <1>4, <1>5, <1>8, RequestKeeps

\* An order is handed back, or the sheet is refused.
LEMMA HandBackType ==
  ASSUME TypeOK, NEW q \in 1..made, NEW again \in BOOLEAN
  PROVE  /\ HandBack(q, again) \in AnswerRec(made)
         /\ HandBack(q, again).kind = "order" /\ HandBack(q, again).quote = q
<1>1. order[q] \in OrderRec /\ q \in 0..made
  BY OrdersKnown
<1>2. Shown(q) \in {"none", "seen", "paid", "done"}
  BY <1>1 DEF Shown, OrderRec
<1> QED BY <1>1, <1>2 DEF HandBack, AnswerRec

LEMMA RefusedType ==
  ASSUME NEW n \in Nat, NEW kind \in {"active"} \cup Refusals, NEW q \in 0..n
  PROVE  Refused(kind, q) \in AnswerRec(n) /\ Refused(kind, q).kind # "order"
BY DEF Refused, NoAnswer, AnswerRec, Refusals

\* The order a key is bound to.
LEMMA BoundOrder ==
  ASSUME IInv, NEW f \in Flows, req[f].stage = "post"
  PROVE  /\ req[f].key \in Keys /\ req[f].key \in 1..drawn
         /\ bound[req[f].key] \in 0..made
         /\ bound[req[f].key] # 0 =>
              /\ bound[req[f].key] \in 1..made
              /\ order[bound[req[f].key]].cart = flow[f].cart
<1>1. /\ req[f].key \in 0..drawn /\ req[f].key # 0 /\ made \in Nat
      /\ drawn \in 0..MaxKeys /\ MaxKeys \in Nat
  BY ReqFacts, CheckoutAssumption, TypeParts DEF IInv, ReqRec, Call
<1>2. req[f].key \in Keys /\ req[f].key \in 1..drawn
  BY <1>1 DEF Keys
<1>3. bound[req[f].key] \in 0..made
  BY <1>2, TypeParts DEF IInv
<1>4. bound[req[f].key] # 0 => bound[req[f].key] \in 1..made
  BY <1>1, <1>3
<1> QED BY <1>1, <1>2, <1>3, <1>4 DEF IInv, Keyed, OrdersOfTheCart

LEMMA ReplayKeeps ==
  ASSUME IInv, NEW f \in Flows, Replay(f)
  PROVE  IInv'
<1> DEFINE q == bound[req[f].key]
<1>1. req[f].stage = "post" /\ q # 0 /\ Answers(f, HandBack(q, TRUE)) /\ UNCHANGED shop
  BY DEF Replay, Replays
<1>2. q \in 1..made /\ order[q].cart = flow[f].cart /\ q # 0
  BY <1>1, BoundOrder
<1>3. /\ HandBack(q, TRUE) \in AnswerRec(made)
      /\ HandBack(q, TRUE).kind = "order" /\ HandBack(q, TRUE).quote = q
  BY <1>2, HandBackType DEF IInv
<1> QED BY <1>1, <1>2, <1>3, AnswerKeeps

LEMMA RefusalKeeps ==
  ASSUME IInv, NEW f \in Flows,
         \/ \E q \in 1..made : TurnAway(f, q)
         \/ \E why \in MayRefuse : Refuse(f, why)
         \/ Lose(f) \/ Mismatch(f)
  PROVE  IInv'
<1>1. made \in Nat
  BY ReqFacts
<1>2. PICK kind \in {"active"} \cup Refusals, q \in 0..made :
        Answers(f, Refused(kind, q)) /\ UNCHANGED shop /\ req[f].stage \in {"post", "answer"}
  <2>0. 0 \in 0..made /\ (\A q \in 1..made : q \in 0..made) /\ "refused" \in Refusals
    BY <1>1 DEF Refusals
  <2>1. CASE \E q \in 1..made : TurnAway(f, q)
    <3>1. PICK q \in 1..made : TurnAway(f, q)
      BY <2>1
    <3>2. Answers(f, Refused("active", q)) /\ UNCHANGED shop /\ req[f].stage = "post"
      BY <3>1 DEF TurnAway
    <3> QED BY <2>0, <3>2
  <2>2. CASE \E why \in MayRefuse : Refuse(f, why)
    BY <2>0, <2>2, CheckoutAssumption DEF Refuse
  <2>3. CASE Lose(f) \/ Mismatch(f)
    BY <2>0, <2>3 DEF Lose, Mismatch
  <2> QED BY <2>1, <2>2, <2>3
<1>3. Refused(kind, q) \in AnswerRec(made) /\ Refused(kind, q).kind # "order"
  BY <1>1, RefusedType
<1> QED BY <1>2, <1>3, AnswerKeeps

\* The key is dropped, and every other that points at the settled order.
LEMMA ReleasedType ==
  ASSUME TypeOK, NEW q
  PROVE  /\ Released(q) \in [Carts -> IntentRec(made, drawn)]
         /\ \A c \in Carts : \/ Released(q)[c] = intent[c]
                            \/ (Released(q)[c].key = 0 /\ Released(q)[c].quote = 0)
<1>1. NoIntent.key = 0 /\ NoIntent.quote = 0
  BY DEF NoIntent
<1>2. NoIntent \in IntentRec(made, drawn)
  BY EmptyRecords, CheckoutAssumption, TypeParts
<1>3. intent \in [Carts -> IntentRec(made, drawn)]
  BY TypeParts
<1> QED BY <1>1, <1>2, <1>3 DEF Released

LEMMA ReleaseKeeps ==
  ASSUME IInv, NEW f \in Flows, Release(f)
  PROVE  IInv'
<1> DEFINE x == [req[f] EXCEPT !.stage = "reload"]
<1>1. /\ req' = [req EXCEPT ![f] = x] /\ intent' = Released(req[f].quote)
      /\ req[f].stage = "told"
      /\ UNCHANGED <<shop, drawn, flow, screen, pay, prompt, budget, blocking>>
  BY DEF Release
<1>2. /\ At(f, "create") /\ req[f] \in ReqRec(made, drawn) /\ Call(f)
      /\ flow[f].cart \in Carts
  BY <1>1, ReqFacts
<1>3. /\ x \in ReqRec(made, drawn) /\ x.key = req[f].key /\ x.quote = req[f].quote
      /\ x.stage = "reload" /\ x.ans = req[f].ans
  BY <1>2 DEF ReqRec, Stages
<1> HIDE DEF x
<1>4. /\ x.quote # 0 => order[x.quote].cart = flow[f].cart
      /\ x.ans.kind = "order" => x.ans.quote # 0 /\ order[x.ans.quote].cart = flow[f].cart
  BY <1>2, <1>3 DEF IInv, Keyed, OrdersOfTheCart, Call
<1>5. Fits(f, x)
  BY <1>1, <1>3, <1>4 DEF Fits, shop
<1>6. Sheets' /\ Resolvers'
  BY <1>1, <1>2, <1>5, RequestKeepsSheets
<1>7. /\ intent' \in [Carts -> IntentRec(made, drawn)]
      /\ \A c \in Carts : \/ intent'[c] = intent[c]
                         \/ (intent'[c].key = 0 /\ intent'[c].quote = 0)
  BY <1>1, ReleasedType DEF IInv
<1>8. TypeOK'
  BY <1>1, <1>3, <1>7, TypeParts, TypePartsNext DEF IInv, shop
<1>9. \A g \in Flows : req'[g] = IF g = f THEN x ELSE req[g]
  BY <1>1, TypeParts DEF IInv
<1>10. UNCHANGED <<order, made, bound, drawn, flow>>
  BY <1>1 DEF shop
<1>11. OneCartPerKey'
  <2>1. OneCartPerKey
    BY DEF IInv, Keyed
  <2> QED BY <1>3, <1>7, <1>9, <1>10, <2>1 DEF OneCartPerKey
<1>12. OrdersOfTheCart'
  <2>1. OrdersOfTheCart
    BY DEF IInv, Keyed
  <2> QED BY <1>3, <1>4, <1>7, <1>9, <1>10, <2>1 DEF OrdersOfTheCart
<1>13. Gate'
  BY <1>10 DEF IInv, Gate, Past, Dead
<1> QED BY <1>6, <1>8, <1>11, <1>12, <1>13 DEF IInv, Keyed

\* The shop moves a key onto an order of the cart and answers.
LEMMA PostKeeps ==
  ASSUME IInv, NEW f \in Flows, req[f].stage = "post",
         NEW ans \in AnswerRec(made'), Answers(f, ans), NEW q \in 0..made',
         made' \in 0..MaxOrders, made <= made',
         order' \in [Orders -> OrderRec],
         \A p \in 1..made : order'[p].cart = order[p].cart,
         bound' = [bound EXCEPT ![req[f].key] = q],
         q # 0 => order'[q].cart = flow[f].cart,
         ans.kind = "order" => ans.quote # 0 /\ order'[ans.quote].cart = flow[f].cart,
         Gate'
  PROVE  IInv'
<1> DEFINE x == [req[f] EXCEPT !.stage = "answer", !.ans = ans]
           k == req[f].key
<1>1. req' = [req EXCEPT ![f] = x] /\ UNCHANGED <<store, flow, screen, pay, prompt, budget, blocking>>
  BY DEF Answers
<1>2. /\ At(f, "create") /\ req[f] \in ReqRec(made, drawn) /\ k \in 1..drawn /\ k \in Keys
      /\ made \in Nat /\ drawn \in Nat /\ made' \in Nat
  BY ReqFacts, BoundOrder, CheckoutAssumption
<1>3. \A y \in 0..made : y \in 0..made'
  BY <1>2
<1>4. /\ x \in ReqRec(made', drawn) /\ x.key = k /\ x.quote = req[f].quote
      /\ x.stage = "answer" /\ x.ans = ans
  BY <1>2, <1>3 DEF ReqRec, Stages
<1> HIDE DEF x
<1>5. /\ \A g \in Flows : req'[g] = IF g = f THEN x ELSE req[g]
      /\ \A j \in Keys : bound'[j] = IF j = k THEN q ELSE bound[j]
      /\ UNCHANGED <<intent, drawn, flow>>
  BY <1>1, <1>2, TypeParts DEF IInv, store
<1>6. /\ \A c \in Carts : intent[c].quote \in 0..made /\ intent[c].key \in 0..drawn
      /\ \A g \in Flows : /\ req[g].quote \in 0..made /\ req[g].key \in 0..drawn
                          /\ req[g].ans.quote \in 0..made
      /\ \A j \in Keys : bound[j] \in 0..made
  BY TypeParts DEF IInv, IntentRec, ReqRec, AnswerRec
<1>7. TypeOK'
  <2>1. /\ IntentRec(made, drawn) \subseteq IntentRec(made', drawn)
        /\ FlowRec(made) \subseteq FlowRec(made')
    BY <1>3 DEF IntentRec, FlowRec
  <2>2. AnswerRec(made) \subseteq AnswerRec(made')
    BY <1>3 DEF AnswerRec
  <2>3. ReqRec(made, drawn) \subseteq ReqRec(made', drawn)
    BY <1>3, <2>2 DEF ReqRec
  <2>4. req' \in [Flows -> ReqRec(made', drawn)]
    BY <1>1, <1>4, <2>3, TypeParts DEF IInv
  <2>5. bound' \in [Keys -> 0..made']
    BY <1>3, TypeParts DEF IInv
  <2>6. intent \in [Carts -> IntentRec(made', drawn)] /\ flow \in [Flows -> FlowRec(made')]
    BY <2>1, TypeParts DEF IInv
  <2>7. blocking \in [Tabs -> 0..made']
    BY <1>3, TypeParts DEF IInv
  <2> QED BY <1>1, <2>4, <2>5, <2>6, <2>7, TypeParts, TypePartsNext DEF IInv, store
<1>8. x.quote # 0 => order'[x.quote].cart = flow[f].cart
  <2>1. x.quote # 0 => x.quote \in 1..made /\ order[x.quote].cart = flow[f].cart
    BY <1>2, <1>4, <1>6 DEF IInv, Keyed, OrdersOfTheCart
  <2> QED BY <2>1
<1>9. Fits(f, x)
  BY <1>4, <1>8 DEF Fits
<1>10. Sheets' /\ Resolvers'
  BY <1>1, <1>2, <1>9, RequestKeepsSheets
<1>11. OneCartPerKey'
  <2>1. OneCartPerKey
    BY DEF IInv, Keyed
  <2> QED BY <1>4, <1>5, <2>1 DEF OneCartPerKey
<1>12. OrdersOfTheCart'
  <2>1. OrdersOfTheCart /\ OneCartPerKey
    BY DEF IInv, Keyed
  <2>2. \A j \in Keys : j > drawn => bound'[j] = 0
    BY <1>2, <1>5, <2>1 DEF OrdersOfTheCart
  <2>3. \A y \in 0..made : y # 0 => y \in 1..made
    BY <1>2
  <2>4. \A y \in 0..drawn : y # 0 => y \in Keys
    <3>1. drawn \in 0..MaxKeys /\ MaxKeys \in Nat
      BY CheckoutAssumption, TypeParts DEF IInv
    <3> QED BY <3>1 DEF Keys
  <2>5. ASSUME NEW c \in Carts
        PROVE  /\ intent[c].quote # 0 => order'[intent[c].quote].cart = c
               /\ intent[c].key # 0 /\ bound'[intent[c].key] # 0 =>
                    order'[bound'[intent[c].key]].cart = c
    <3>1. intent[c].quote # 0 => order'[intent[c].quote].cart = c
      BY <1>6, <2>1, <2>3 DEF OrdersOfTheCart
    <3>2. CASE intent[c].key = k
      <4>1. flow[f].cart = c
        BY <1>2, <2>1, <3>2 DEF OneCartPerKey
      <4> QED BY <1>2, <1>5, <3>1, <3>2, <4>1
    <3>3. CASE intent[c].key # k /\ intent[c].key # 0
      <4>1. intent[c].key \in Keys /\ bound'[intent[c].key] = bound[intent[c].key]
        BY <1>5, <1>6, <2>4, <3>3
      <4> QED BY <1>6, <2>1, <2>3, <3>1, <3>3, <4>1 DEF OrdersOfTheCart
    <3> QED BY <3>1, <3>2, <3>3
  <2>6. ASSUME NEW g \in Flows
        PROVE  /\ req'[g].quote # 0 => order'[req'[g].quote].cart = flow[g].cart
               /\ req'[g].key # 0 /\ bound'[req'[g].key] # 0 =>
                    order'[bound'[req'[g].key]].cart = flow[g].cart
               /\ req'[g].ans.kind = "order" => order'[req'[g].ans.quote].cart = flow[g].cart
    <3>1. req'[g].key = req[g].key
      BY <1>4, <1>5
    <3>2. req'[g].quote # 0 => order'[req'[g].quote].cart = flow[g].cart
      <4>1. CASE g = f
        BY <1>5, <1>8, <4>1
      <4>2. CASE g # f
        BY <1>5, <1>6, <2>1, <2>3, <4>2 DEF OrdersOfTheCart
      <4> QED BY <4>1, <4>2
    <3>3. req'[g].ans.kind = "order" => order'[req'[g].ans.quote].cart = flow[g].cart
      <4>1. CASE g = f
        BY <1>4, <1>5, <4>1
      <4>2. CASE g # f
        <5>1. req[g].ans.kind = "order" => req[g].ans.quote # 0
          BY DEF IInv, Sheets, Call
        <5> QED BY <1>5, <1>6, <2>1, <2>3, <4>2, <5>1 DEF OrdersOfTheCart
      <4> QED BY <4>1, <4>2
    <3>4. CASE req[g].key = k
      <4>1. flow[f].cart = flow[g].cart
        BY <1>2, <2>1, <3>4 DEF OneCartPerKey
      <4> QED BY <1>2, <1>5, <3>1, <3>2, <3>3, <3>4, <4>1
    <3>5. CASE req[g].key # k /\ req[g].key # 0
      <4>1. req[g].key \in Keys /\ bound'[req[g].key] = bound[req[g].key]
        BY <1>5, <1>6, <2>4, <3>5
      <4> QED BY <1>6, <2>1, <2>3, <3>1, <3>2, <3>3, <3>5, <4>1 DEF OrdersOfTheCart
    <3> QED BY <3>1, <3>2, <3>3, <3>4, <3>5
  <2> QED BY <1>5, <2>2, <2>5, <2>6 DEF OrdersOfTheCart
<1> QED BY <1>7, <1>10, <1>11, <1>12 DEF IInv, Keyed

LEMMA FindMoneyKeeps ==
  ASSUME IInv, NEW f \in Flows, NEW q \in 1..made, FindMoney(f, q)
  PROVE  IInv'
<1> DEFINE r == [order[q] EXCEPT !.money = "seen"]
           k == req[f].key
<1>1. /\ req[f].stage = "post" /\ order[q].money = "sent" /\ order' = [order EXCEPT ![q] = r]
      /\ Answers(f, Refused("active", q)) /\ UNCHANGED <<made, bound>>
  BY DEF FindMoney
<1>2. q \in Orders /\ order[q] \in OrderRec /\ order \in [Orders -> OrderRec]
  BY OrdersKnown, TypeParts DEF IInv
<1>3. Ages(q, r)
  BY <1>1, <1>2 DEF Ages, Dead, OrderRec, Paid
<1> HIDE DEF r
<1>4. Gate'
  BY <1>1, <1>3, AgeingKeepsTheGate DEF IInv
<1>5. order' \in [Orders -> OrderRec] /\ \A p \in Orders : order'[p].cart = order[p].cart
  BY <1>1, <1>2, <1>3 DEF Ages
<1>6. Refused("active", q) \in AnswerRec(made) /\ Refused("active", q).kind # "order"
  <2>1. made \in Nat /\ q \in 0..made
    BY ReqFacts
  <2> QED BY <2>1, RefusedType
<1>7. /\ k \in Keys /\ bound[k] \in 0..made
      /\ bound[k] # 0 => bound[k] \in Orders /\ order[bound[k]].cart = flow[f].cart
  BY <1>1, BoundOrder, OrdersKnown DEF IInv
<1>8. bound' = [bound EXCEPT ![k] = bound[k]]
  BY <1>1, <1>7, TypeParts DEF IInv
<1>9. made' \in 0..MaxOrders /\ made <= made' /\ \A p \in 1..made : p \in Orders
  BY <1>1, ReqFacts, OrdersKnown, TypeParts DEF IInv
<1>10. /\ bound[k] # 0 => order'[bound[k]].cart = flow[f].cart
       /\ \A p \in 1..made : order'[p].cart = order[p].cart
       /\ made' = made /\ bound[k] \in 0..made'
  BY <1>1, <1>5, <1>7, <1>9
<1> QED BY <1>1, <1>4, <1>5, <1>6, <1>8, <1>9, <1>10, PostKeeps

LEMMA ReuseKeeps ==
  ASSUME IInv, NEW f \in Flows, NEW q \in 1..made, Reuse(f, q)
  PROVE  IInv'
<1>1. /\ req[f].stage = "post" /\ order[q].cart = flow[f].cart /\ UNCHANGED <<order, made>>
      /\ bound' = [bound EXCEPT ![req[f].key] = q] /\ Answers(f, HandBack(q, TRUE))
  BY DEF Reuse
<1>2. /\ HandBack(q, TRUE) \in AnswerRec(made)
      /\ HandBack(q, TRUE).kind = "order" /\ HandBack(q, TRUE).quote = q
  BY HandBackType DEF IInv
<1>3. Gate'
  BY <1>1 DEF IInv, Gate, Past, Dead
<1>4. made' \in 0..MaxOrders /\ made <= made' /\ q \in 0..made /\ q # 0
      /\ order \in [Orders -> OrderRec]
  BY <1>1, ReqFacts, TypeParts DEF IInv
<1> QED BY <1>1, <1>2, <1>3, <1>4, PostKeeps

\* A new order: without an acknowledgement every older one is out of the way.
LEMMA CreateKeeps ==
  ASSUME IInv, NEW f \in Flows, Create(f)
  PROVE  IInv'
<1> DEFINE q == made + 1
           r == [NoOrder EXCEPT !.cart = flow[f].cart, !.ack = flow[f].ack]
           ans == [kind |-> "order", quote |-> made + 1, reused |-> FALSE, money |-> "none"]
<1>1. /\ req[f].stage = "post" /\ (Acked(f) \/ Unresolved = {})
      /\ made < MaxOrders /\ made' = q /\ order' = [order EXCEPT ![q] = r]
      /\ bound' = [bound EXCEPT ![req[f].key] = q] /\ Answers(f, ans)
  BY DEF Create
<1>2. /\ made \in Nat /\ MaxOrders \in Nat /\ flow[f] \in FlowRec(made)
      /\ order \in [Orders -> OrderRec]
  BY ReqFacts, CheckoutAssumption, TypeParts DEF IInv
<1>3. q \in Orders /\ q \in 0..q /\ q # 0 /\ q \in 0..MaxOrders /\ made <= q
  BY <1>1, <1>2 DEF Orders
<1>4. r \in OrderRec /\ r.cart = flow[f].cart /\ r.ack = flow[f].ack
  BY <1>2 DEF OrderRec, Invoices, NoOrder, FlowRec
<1>5. ans \in AnswerRec(q) /\ ans.kind = "order" /\ ans.quote = q
  BY <1>3 DEF AnswerRec
<1> HIDE DEF r, ans
<1>6. \A p \in Orders : order'[p] = IF p = q THEN r ELSE order[p]
  BY <1>1, <1>2
<1>7. \A p \in 1..made : p \in Orders /\ p # q
  BY <1>2, OrdersKnown DEF IInv
<1>8. order' \in [Orders -> OrderRec]
  BY <1>1, <1>2, <1>4
<1>9. Gate'
  <2> SUFFICES ASSUME NEW a \in 1..q, NEW b \in 1..q, a < b, ~order'[b].ack
               PROVE  Past(a)'
    BY <1>1 DEF Gate
  <2>1. a \in 1..made /\ (b \in 1..made \/ b = q)
    BY <1>2
  <2>2. order'[a] = order[a] /\ (b \in 1..made => order'[b] = order[b])
    BY <1>6, <1>7, <2>1
  <2>3. CASE b \in 1..made
    <3>1. Past(a)
      BY <2>1, <2>2, <2>3 DEF IInv, Gate
    <3> QED BY <2>2, <3>1 DEF Past, Dead
  <2>4. CASE b = q
    <3>1. ~Acked(f)
      BY <1>3, <1>4, <1>6, <2>4 DEF Acked
    <3>2. Settled(a)
      BY <1>1, <2>1, <3>1 DEF Unresolved
    <3> QED BY <2>2, <3>2 DEF Past, Dead, Settled
  <2> QED BY <2>1, <2>3, <2>4
<1>10. order'[q].cart = flow[f].cart /\ \A p \in 1..made : order'[p].cart = order[p].cart
  BY <1>3, <1>4, <1>6, <1>7
<1>11. /\ made' = q /\ made' \in 0..MaxOrders /\ made <= made' /\ q \in 0..made'
       /\ ans \in AnswerRec(made') /\ order'[ans.quote].cart = flow[f].cart
  BY <1>1, <1>3, <1>5, <1>10
<1> HIDE DEF q
<1> QED BY <1>1, <1>3, <1>5, <1>8, <1>9, <1>10, <1>11, PostKeeps

-----------------------------------------------------------------------------
(* The sheet moves and the shop does not.                                  *)

\* Resolvers stay, go, or are taken by the sheet f that now waits for them.
Heeds(held, held2, f, waits) ==
  \A t \in Tabs : /\ held2[t] \in {NoFlow, held[t], f}
                  /\ held2[t] = f => t = Tab[f] /\ waits

LEMMA HeedsKeep ==
  ASSUME IInv, NEW f \in Flows, NEW r \in FlowRec(made),
         flow' = [flow EXCEPT ![f] = r],
         Heeds(prompt, prompt', f, r.pc = "prompt"), Heeds(pay, pay', f, r.pc = "pay")
  PROVE  Resolvers'
<1>1. /\ \A g \in Flows : flow'[g] = IF g = f THEN r ELSE flow[g]
      /\ prompt \in [Tabs -> Flows \cup {NoFlow}] /\ pay \in [Tabs -> Flows \cup {NoFlow}]
  BY TypeParts DEF IInv, Holder
<1> SUFFICES ASSUME NEW t \in Tabs
             PROVE  /\ prompt'[t] # NoFlow => Tab[prompt'[t]] = t /\ flow'[prompt'[t]].pc = "prompt"
                    /\ pay'[t] # NoFlow => Tab[pay'[t]] = t /\ flow'[pay'[t]].pc = "pay"
  BY DEF Resolvers, At
<1>2. /\ prompt[t] # NoFlow => Tab[prompt[t]] = t /\ flow[prompt[t]].pc = "prompt"
      /\ pay[t] # NoFlow => Tab[pay[t]] = t /\ flow[pay[t]].pc = "pay"
  BY DEF IInv, Resolvers, At
<1>3. prompt'[t] # NoFlow => Tab[prompt'[t]] = t /\ flow'[prompt'[t]].pc = "prompt"
  BY <1>1, <1>2 DEF Heeds
<1>4. pay'[t] # NoFlow => Tab[pay'[t]] = t /\ flow'[pay'[t]].pc = "pay"
  BY <1>1, <1>2 DEF Heeds
<1> QED BY <1>3, <1>4

\* The records of a sheet and its screen fit each other.
Stands(f, r, on) ==
  /\ r.pc # "closed" => r.cart # {}
  /\ r.pc \in {"pay", "success"} \/ r.ask = "live" => r.quote # 0
  /\ on => r.quote # 0 /\ (r.pc = "pay" \/ (r.pc = "create" /\ Cardinality(r.cart) > 1))

LEMMA SheetKeeps ==
  ASSUME IInv, NEW f \in Flows, NEW r \in FlowRec(made),
         flow' = [flow EXCEPT ![f] = r],
         req[f].stage = "none" \/ (r.pc = "create" /\ r.cart = flow[f].cart),
         screen' \in [Flows -> ScreenRec], \A g \in Flows \ {f} : screen'[g].on = screen[g].on,
         Stands(f, r, screen'[f].on),
         prompt' \in [Tabs -> Holder], pay' \in [Tabs -> Holder],
         Heeds(prompt, prompt', f, r.pc = "prompt"), Heeds(pay, pay', f, r.pc = "pay"),
         intent' = intent \/ \E q : intent' = Released(q),
         budget' \in [Tabs -> 0..Budget],
         UNCHANGED <<shop, drawn, req, blocking>>
  PROVE  IInv'
<1>1. /\ intent' \in [Carts -> IntentRec(made, drawn)]
      /\ \A c \in Carts : \/ intent'[c] = intent[c]
                         \/ (intent'[c].key = 0 /\ intent'[c].quote = 0)
  BY ReleasedType, TypeParts DEF IInv
<1>2. TypeOK'
  BY <1>1, TypeParts, TypePartsNext DEF IInv, shop
<1>3. Resolvers'
  BY HeedsKeep
<1>4. UNCHANGED <<order, made, bound, drawn, req>>
  BY DEF shop
<1>5. \A g \in Flows : flow'[g] = IF g = f THEN r ELSE flow[g]
  BY TypeParts DEF IInv
<1>6. Sheets'
  <2> SUFFICES ASSUME NEW g \in Flows PROVE Sheet(g)' /\ Call(g)'
    BY DEF Sheets
  <2>1. Sheet(g) /\ Call(g)
    BY DEF IInv, Sheets
  <2>2. Call(g)'
    BY <1>4, <2>1 DEF Call
  <2>3. CASE g = f
    BY <1>4, <1>5, <2>1, <2>2, <2>3 DEF Sheet, Stands, At, Batch
  <2>4. CASE g # f
    BY <1>4, <1>5, <2>1, <2>2, <2>4 DEF Sheet, At, Batch
  <2> QED BY <2>3, <2>4
<1>7. \A g \in Flows : flow'[g].cart = flow[g].cart \/ req[g] = NoRequest
  <2>1. req[f].stage = "none" => req[f] = NoRequest
    BY DEF IInv, Sheets, Call
  <2> QED BY <1>5, <2>1
<1>8. NoRequest.key = 0 /\ NoRequest.quote = 0 /\ NoRequest.ans.kind # "order"
  BY DEF NoRequest, NoAnswer
<1>9. OneCartPerKey'
  <2>1. OneCartPerKey
    BY DEF IInv, Keyed
  <2> QED BY <1>1, <1>4, <1>7, <1>8, <2>1 DEF OneCartPerKey
<1>10. OrdersOfTheCart'
  <2>1. OrdersOfTheCart
    BY DEF IInv, Keyed
  <2> QED BY <1>1, <1>4, <1>7, <1>8, <2>1 DEF OrdersOfTheCart
<1>11. Gate'
  BY <1>4 DEF IInv, Gate, Past, Dead
<1> QED BY <1>2, <1>3, <1>6, <1>9, <1>10, <1>11 DEF IInv, Keyed

LEMMA ResolverFacts ==
  ASSUME IInv, NEW f \in Flows, NEW t \in Tabs
  PROVE  /\ f # NoFlow /\ prompt[t] \in Holder /\ pay[t] \in Holder
         /\ prompt[t] = f => t = Tab[f] /\ At(f, "prompt")
         /\ pay[t] = f => t = Tab[f] /\ At(f, "pay")
<1>1. f # NoFlow /\ prompt[t] \in Holder /\ pay[t] \in Holder
  BY CheckoutAssumption, TypeParts DEF IInv
<1> QED BY <1>1 DEF IInv, Resolvers

LEMMA OpenKeeps ==
  ASSUME IInv, NEW f \in Flows, NEW c \in Wanted, Open(f, c)
  PROVE  IInv'
<1> DEFINE r == [NewFlow EXCEPT !.pc = "delivery", !.cart = c, !.gone = FALSE]
<1>1. /\ At(f, "closed") /\ req[f].stage = "none" /\ flow' = [flow EXCEPT ![f] = r]
      /\ budget' = [budget EXCEPT ![Tab[f]] = Budget]
      /\ UNCHANGED <<shop, store, req, screen, pay, prompt, blocking>>
  BY DEF Open
<1>2. c \in Carts /\ c # {}
  BY CheckoutAssumption DEF Carts
<1>3. r \in FlowRec(made) /\ r.pc = "delivery" /\ r.cart = c /\ r.ask = "none"
  BY <1>2, ReqFacts, EmptyRecords DEF NewFlow, FlowRec, Places
<1> HIDE DEF r
<1>4. ~screen[f].on
  BY <1>1 DEF IInv, Sheets, Sheet, At
<1>5. Stands(f, r, screen'[f].on)
  BY <1>1, <1>2, <1>3, <1>4 DEF Stands
<1>6. Heeds(prompt, prompt', f, r.pc = "prompt") /\ Heeds(pay, pay', f, r.pc = "pay")
  BY <1>1, ResolverFacts DEF Heeds, At
<1>7. budget' \in [Tabs -> 0..Budget]
  <2>1. Budget \in 0..Budget
    BY CheckoutAssumption
  <2> QED BY <1>1, <2>1, TypeParts DEF IInv
<1>8. screen' \in [Flows -> ScreenRec] /\ prompt' \in [Tabs -> Holder] /\ pay' \in [Tabs -> Holder]
  BY <1>1, TypeParts DEF IInv
<1>9. intent' = intent /\ UNCHANGED <<shop, drawn, req, screen, blocking>>
  BY <1>1 DEF store
<1> QED BY <1>1, <1>3, <1>5, <1>6, <1>7, <1>8, <1>9, SheetKeeps

LEMMA StartKeeps ==
  ASSUME IInv, NEW f \in Flows, Start(f)
  PROVE  IInv'
<1> DEFINE r == Creating(flow[f])
<1>1. /\ At(f, "delivery") /\ flow' = [flow EXCEPT ![f] = r]
      /\ UNCHANGED <<shop, store, req, screen, pay, prompt, budget, blocking>>
  BY DEF Start
<1>2. r \in FlowRec(made)
  BY ReqFacts, FlowMoves
<1>3. r.pc = "create" /\ r.cart = flow[f].cart /\ r.ask = "none"
  BY ReqFacts DEF Creating, FlowRec
<1> HIDE DEF r
<1>4. req[f].stage = "none" /\ ~screen[f].on /\ r.cart # {}
  BY <1>1, <1>3 DEF IInv, Sheets, Sheet, At
<1>5. Stands(f, r, screen'[f].on)
  BY <1>1, <1>3, <1>4 DEF Stands
<1>6. Heeds(prompt, prompt', f, r.pc = "prompt") /\ Heeds(pay, pay', f, r.pc = "pay")
  BY <1>1, ResolverFacts DEF Heeds, At
<1>7. /\ budget' \in [Tabs -> 0..Budget] /\ screen' \in [Flows -> ScreenRec]
      /\ prompt' \in [Tabs -> Holder] /\ pay' \in [Tabs -> Holder]
  BY <1>1, TypeParts DEF IInv
<1>8. intent' = intent /\ UNCHANGED <<shop, drawn, req, screen, blocking>>
  BY <1>1 DEF store
<1> QED BY <1>1, <1>2, <1>4, <1>5, <1>6, <1>7, <1>8, SheetKeeps

LEMMA CloseKeeps ==
  ASSUME IInv, NEW f \in Flows, Close(f)
  PROVE  IInv'
<1> DEFINE r == IF flow[f].pc = "create" THEN [flow[f] EXCEPT !.gone = TRUE] ELSE NewFlow
<1>1. /\ flow' = [flow EXCEPT ![f] = r] /\ screen' = [screen EXCEPT ![f] = NoScreen]
      /\ pay' = [pay EXCEPT ![Tab[f]] = NoFlow] /\ prompt' = [prompt EXCEPT ![Tab[f]] = NoFlow]
      /\ UNCHANGED <<shop, store, req, budget, blocking>>
  BY DEF Close
<1>2. /\ r \in FlowRec(made)
      /\ \/ r = NewFlow /\ flow[f].pc # "create"
         \/ r.pc = "create" /\ r.cart = flow[f].cart /\ r.ask = flow[f].ask
            /\ r.quote = flow[f].quote /\ flow[f].pc = "create"
  BY ReqFacts, EmptyRecords DEF FlowRec
<1> HIDE DEF r
<1>3. NewFlow.pc = "closed" /\ NewFlow.ask = "none" /\ ~NoScreen.on /\ NoScreen \in ScreenRec
  BY DEF NewFlow, NoScreen, ScreenRec
<1>4. req[f].stage = "none" \/ (r.pc = "create" /\ r.cart = flow[f].cart)
  BY <1>2 DEF IInv, Sheets, Sheet, At
<1>5. screen' \in [Flows -> ScreenRec] /\ ~screen'[f].on
      /\ \A g \in Flows \ {f} : screen'[g].on = screen[g].on
  BY <1>1, <1>3, TypeParts DEF IInv
<1>6. Stands(f, r, screen'[f].on)
  BY <1>2, <1>3, <1>5 DEF Stands, IInv, Sheets, Sheet, At
<1>7. prompt' \in [Tabs -> Holder] /\ pay' \in [Tabs -> Holder]
  BY <1>1, TypeParts DEF IInv, Holder
<1>8. Heeds(prompt, prompt', f, r.pc = "prompt") /\ Heeds(pay, pay', f, r.pc = "pay")
  <2>1. \A t \in Tabs : /\ prompt'[t] = IF t = Tab[f] THEN NoFlow ELSE prompt[t]
                       /\ pay'[t] = IF t = Tab[f] THEN NoFlow ELSE pay[t]
    BY <1>1, TypeParts DEF IInv
  <2> QED BY <2>1, ResolverFacts DEF Heeds
<1>9. intent' = intent /\ UNCHANGED <<shop, drawn, req, blocking>> /\ budget' \in [Tabs -> 0..Budget]
  BY <1>1, TypeParts DEF IInv, store
<1> QED BY <1>1, <1>2, <1>4, <1>5, <1>6, <1>7, <1>8, <1>9, SheetKeeps

-----------------------------------------------------------------------------
(* The buyer's answers.                                                    *)

LEMMA PressFacts ==
  ASSUME IInv, NEW f \in Flows, NEW g \in Flows, NEW c, Pressed(f, g, c)
  PROVE  /\ At(g, "prompt") /\ req[g].stage = "none" /\ ~screen[g].on
         /\ flow[g].cart # {} /\ flow[g] \in FlowRec(made)
         /\ flow[g].ask = "live" => flow[g].quote # 0
<1>1. At(g, "prompt")
  BY ResolverFacts, TabType DEF Pressed
<1>2. Sheet(g) /\ flow[g] \in FlowRec(made)
  BY ReqFacts
<1> QED BY <1>1, <1>2 DEF Sheet, At

LEMMA PressKeeps ==
  ASSUME IInv, NEW f \in Flows, NEW g \in Flows, NEW c, Pressed(f, g, c),
         NEW r \in FlowRec(made), flow' = [flow EXCEPT ![g] = r], Unprompted(g),
         r.pc \in {"create", "already-paid", "delivery", "closed", "summary"},
         r.ask = "none", r.pc # "closed" => r.cart # {},
         UNCHANGED <<shop, store, req, screen, pay, budget, blocking>>
  PROVE  IInv'
<1>1. At(g, "prompt") /\ req[g].stage = "none" /\ ~screen[g].on
  BY PressFacts
<1>2. Stands(g, r, screen'[g].on)
  BY <1>1 DEF Stands
<1>3. /\ prompt' \in [Tabs -> Holder] /\ pay' \in [Tabs -> Holder]
      /\ \A t \in Tabs : /\ prompt'[t] = IF t = Tab[g] THEN NoFlow ELSE prompt[t]
                         /\ pay'[t] = pay[t]
  BY TabType, TypeParts DEF IInv, Holder, Unprompted
<1>4. Heeds(prompt, prompt', g, r.pc = "prompt") /\ Heeds(pay, pay', g, r.pc = "pay")
  BY <1>1, <1>3, ResolverFacts DEF Heeds, At
<1>5. intent' = intent /\ screen' = screen /\ screen' \in [Flows -> ScreenRec]
      /\ UNCHANGED <<shop, drawn, req, blocking>> /\ budget' \in [Tabs -> 0..Budget]
  BY TypeParts DEF IInv, store
<1> QED BY <1>1, <1>2, <1>3, <1>4, <1>5, SheetKeeps

LEMMA AnswersKeep ==
  ASSUME IInv, NEW f \in Flows, NEW g \in Flows, NEW c \in Choice,
         \/ Again(f, g, c) \/ Insist(f, g, c) \/ TakeNew(f, g, c)
         \/ Redo(f, g, c) \/ Remove(f, g, c) \/ Stop(f, g, c)
  PROVE  IInv'
<1>1. /\ Pressed(f, g, c) /\ Unprompted(g)
      /\ UNCHANGED <<shop, store, req, screen, pay, budget, blocking>>
  BY DEF Again, Insist, TakeNew, Redo, Remove, Stop
<1>2. flow[g] \in FlowRec(made) /\ flow[g].cart # {} /\ made \in Nat
  BY <1>1, PressFacts, ReqFacts
<1> DEFINE s == Creating(flow[g])
<1>3. s \in FlowRec(made) /\ s.pc = "create" /\ s.ask = "none" /\ s.cart = flow[g].cart
  <2>1. s \in FlowRec(made)
    BY <1>2, FlowMoves
  <2> QED BY <1>2, <2>1 DEF Creating, FlowRec
<1>4. ASSUME NEW pc \in {"already-paid", "delivery", "closed", "summary"}
      PROVE  /\ Ending(flow[g], pc) \in FlowRec(made) /\ Ending(flow[g], pc).pc = pc
             /\ Ending(flow[g], pc).ask = "none"
             /\ pc # "closed" => Ending(flow[g], pc).cart = flow[g].cart
  <2>1. Ending(flow[g], pc) \in FlowRec(made)
    BY <1>2, FlowMoves DEF Places
  <2> QED BY <1>2, <2>1 DEF Ending, FlowRec, NewFlow
<1>5. PICK r \in FlowRec(made) :
        /\ flow' = [flow EXCEPT ![g] = r] /\ r.ask = "none"
        /\ r.pc \in {"create", "already-paid", "delivery", "closed", "summary"}
        /\ r.pc # "closed" => r.cart # {}
  <2>1. CASE Again(f, g, c)
    BY <1>2, <1>3, <2>1 DEF Again
  <2>2. CASE Insist(f, g, c)
    <3>1. CASE flow' = [flow EXCEPT ![g] = Ending(flow[g], "already-paid")]
      BY <1>2, <1>4, <3>1
    <3> DEFINE r == [s EXCEPT !.ack = TRUE]
    <3>2. r \in FlowRec(made) /\ r.pc = "create" /\ r.ask = "none" /\ r.cart = flow[g].cart
      BY <1>3 DEF FlowRec
    <3>3. CASE flow' = [flow EXCEPT ![g] = r]
      BY <1>2, <3>2, <3>3
    <3> QED BY <2>2, <3>1, <3>3 DEF Insist
  <2>3. CASE TakeNew(f, g, c)
    <3> DEFINE r == [s EXCEPT !.ack = TRUE, !.fresh = TRUE]
    <3>1. r \in FlowRec(made) /\ r.pc = "create" /\ r.ask = "none" /\ r.cart = flow[g].cart
      BY <1>3 DEF FlowRec
    <3> QED BY <1>2, <2>3, <3>1 DEF TakeNew
  <2>4. CASE Redo(f, g, c)
    <3>1. flow' = [flow EXCEPT ![g] = Ending(flow[g], "delivery")]
      BY <2>4 DEF Redo
    <3> QED BY <1>2, <1>4, <3>1
  <2>5. CASE Remove(f, g, c)
    <3>1. PICK victims \in (SUBSET flow[g].cart) \ {{}, flow[g].cart} :
            flow' = [flow EXCEPT ![g] = [s EXCEPT !.cart = flow[g].cart \ victims]]
      BY <2>5 DEF Remove
    <3> DEFINE r == [s EXCEPT !.cart = flow[g].cart \ victims]
    <3>2. flow[g].cart \ victims \in Carts /\ flow[g].cart \ victims # {}
      BY <1>2, <1>3, <3>1 DEF FlowRec, Carts
    <3>3. r \in FlowRec(made) /\ r.pc = "create" /\ r.ask = "none" /\ r.cart # {}
      BY <1>3, <3>2 DEF FlowRec
    <3> QED BY <3>1, <3>3
  <2>6. CASE Stop(f, g, c)
    <3>1. flow' = [flow EXCEPT ![g] = Ending(flow[g], "closed")]
          \/ flow' = [flow EXCEPT ![g] = Ending(flow[g], "summary")]
      BY <2>6 DEF Stop
    <3> QED BY <1>2, <1>4, <3>1
  <2> QED BY <2>1, <2>2, <2>3, <2>4, <2>5, <2>6
<1> QED BY <1>1, <1>5, PressKeeps

\* The order that is live already is paid: the screen is shown.
LEMMA TakeExistingKeeps ==
  ASSUME IInv, NEW f \in Flows, NEW g \in Flows, NEW c \in Choice, TakeExisting(f, g, c)
  PROVE  IInv'
<1> DEFINE r == [flow[g] EXCEPT !.pc = "pay", !.ask = "none"]
           s == IF flow[g].gone THEN NoScreen
                ELSE [on |-> TRUE, settled |-> FALSE, view |-> "none", polling |-> TRUE]
<1>1. /\ Pressed(f, g, c) /\ flow[g].ask = "live" /\ Unprompted(g)
      /\ screen' = [screen EXCEPT ![g] = s] /\ pay' = [pay EXCEPT ![Tab[g]] = g]
      /\ UNCHANGED <<shop, store, req, budget, blocking>>
  BY DEF TakeExisting
<1>2. flow' = [flow EXCEPT ![g] = r]
  BY DEF TakeExisting
<1>3. /\ At(g, "prompt") /\ req[g].stage = "none" /\ flow[g].quote # 0
      /\ flow[g].cart # {} /\ flow[g] \in FlowRec(made)
  BY <1>1, PressFacts
<1>4. /\ r \in FlowRec(made) /\ r.pc = "pay" /\ r.ask = "none"
      /\ r.cart = flow[g].cart /\ r.quote = flow[g].quote
  BY <1>3 DEF FlowRec, Places, Asks
<1>5. s \in ScreenRec
  BY DEF ScreenRec, NoScreen
<1> HIDE DEF r, s
<1>6. screen' \in [Flows -> ScreenRec] /\ \A h \in Flows \ {g} : screen'[h].on = screen[h].on
  BY <1>1, <1>5, TypeParts DEF IInv
<1>7. Stands(g, r, screen'[g].on)
  BY <1>3, <1>4 DEF Stands
<1>8. /\ prompt' \in [Tabs -> Holder] /\ pay' \in [Tabs -> Holder]
      /\ \A t \in Tabs : /\ prompt'[t] = IF t = Tab[g] THEN NoFlow ELSE prompt[t]
                         /\ pay'[t] = IF t = Tab[g] THEN g ELSE pay[t]
  BY <1>1, TabType, TypeParts DEF IInv, Holder, Unprompted
<1>9. Heeds(prompt, prompt', g, r.pc = "prompt") /\ Heeds(pay, pay', g, r.pc = "pay")
  BY <1>4, <1>8, ResolverFacts DEF Heeds
<1>10. intent' = intent /\ UNCHANGED <<shop, drawn, req, blocking>> /\ budget' \in [Tabs -> 0..Budget]
  BY <1>1, TypeParts DEF IInv, store
<1> QED BY <1>2, <1>3, <1>4, <1>6, <1>7, <1>8, <1>9, <1>10, SheetKeeps

-----------------------------------------------------------------------------
(* The pay screen.                                                         *)

\* The screen alone changes, and stays as mounted as it was.
LEMMA StayKeeps ==
  ASSUME IInv, NEW f \in Flows, NEW s \in ScreenRec, s.on = screen[f].on,
         screen' = [screen EXCEPT ![f] = s], budget' \in [Tabs -> 0..Budget],
         UNCHANGED <<shop, store, flow, req, pay, prompt, blocking>>
  PROVE  IInv'
<1> DEFINE r == flow[f]
<1>1. r \in FlowRec(made) /\ Sheet(f)
  BY ReqFacts
<1>2. flow' = [flow EXCEPT ![f] = r]
  BY TypeParts DEF IInv
<1>3. /\ screen' \in [Flows -> ScreenRec] /\ \A g \in Flows : screen'[g].on = screen[g].on
      /\ prompt' \in [Tabs -> Holder] /\ pay' \in [Tabs -> Holder]
  BY TypeParts DEF IInv
<1>4. Stands(f, r, screen'[f].on)
  BY <1>1, <1>3 DEF Stands, Sheet, At, Batch
<1>5. req[f].stage = "none" \/ (r.pc = "create" /\ r.cart = flow[f].cart)
  BY <1>1 DEF Sheet, At
<1>6. Heeds(prompt, prompt', f, r.pc = "prompt") /\ Heeds(pay, pay', f, r.pc = "pay")
  BY ResolverFacts DEF Heeds, At
<1>7. intent' = intent /\ UNCHANGED <<shop, drawn, req, blocking>>
  BY DEF store
<1> QED BY <1>1, <1>2, <1>3, <1>4, <1>5, <1>6, <1>7, SheetKeeps

LEMMA ResolvedKeeps ==
  ASSUME IInv, NEW f \in Flows, screen[f].on, NEW how \in {"paid", "timeout", "renew"},
         Resolved(f, how), UNCHANGED <<shop, drawn, req, blocking>>,
         budget' \in [Tabs -> 0..Budget]
  PROVE  IInv'
<1> DEFINE t == Tab[f]
           g == pay[t]
           r == flow[g]
           s == [screen[f] EXCEPT !.settled = TRUE, !.polling = @ /\ how = "renew"]
           done == [screen EXCEPT ![f] = s]
           next == CASE how = "paid" -> Ending(r, "success")
                     [] how = "timeout" -> Asking(r, "unresolved")
                     [] OTHER -> [Creating(r) EXCEPT !.ack = TRUE,
                                                !.quote = IF LeavesScreen(g, how) THEN @ ELSE r.quote]
<1>1. /\ t \in Tabs /\ g \in Holder /\ screen[f] \in ScreenRec
      /\ screen \in [Flows -> ScreenRec]
  BY TabType, ResolverFacts, TypeParts DEF IInv
<1>2. s \in ScreenRec /\ s.on /\ done \in [Flows -> ScreenRec]
  BY <1>1 DEF ScreenRec
<1>3. done = [screen EXCEPT ![f].settled = TRUE, ![f].polling = @ /\ how = "renew"]
  BY <1>1 DEF ScreenRec
<1>4. CASE screen[f].settled \/ g = NoFlow
  <2>1. screen' = done /\ UNCHANGED <<flow, pay, prompt, intent>>
    BY <1>3, <1>4 DEF Resolved
  <2> HIDE DEF s
  <2> QED BY <1>2, <2>1, StayKeeps DEF store
<1>5. CASE ~screen[f].settled /\ g # NoFlow
  <2>1. /\ flow' = [flow EXCEPT ![g] = next]
        /\ screen' = [done EXCEPT ![g] = IF LeavesScreen(g, how) THEN NoScreen ELSE @]
        /\ pay' = [pay EXCEPT ![t] = NoFlow]
        /\ prompt' = IF how = "timeout" THEN [prompt EXCEPT ![t] = g] ELSE prompt
        /\ intent' = IF how = "paid" THEN Released(r.quote) ELSE intent
    BY <1>3, <1>5 DEF Resolved
  <2>2. g \in Flows /\ Tab[g] = t /\ At(g, "pay")
    BY <1>1, <1>5, ResolverFacts DEF Holder
  <2>3. /\ r \in FlowRec(made) /\ r.quote # 0 /\ r.cart # {} /\ r.pc = "pay"
        /\ req[g].stage = "none" /\ made \in Nat
    BY <2>2, ReqFacts DEF Sheet, At
  <2>4. /\ next \in FlowRec(made) /\ next.ask # "live" /\ next.cart = r.cart
        /\ how = "paid" => next.pc = "success" /\ next.quote = r.quote
        /\ how = "timeout" => next.pc = "prompt"
        /\ how = "renew" => next.pc = "create" /\ (~LeavesScreen(g, how) => next.quote = r.quote)
    <3>1. CASE how = "paid"
      <4>1. next = Ending(r, "success") /\ "success" \in Places
        BY <3>1 DEF Places
      <4> HIDE DEF next
      <4>2. next \in FlowRec(made)
        BY <2>3, <4>1, FlowMoves
      <4> QED BY <2>3, <3>1, <4>1, <4>2 DEF Ending, FlowRec
    <3>2. CASE how = "timeout"
      <4>1. next = Asking(r, "unresolved") /\ "unresolved" \in Asks
        BY <3>2 DEF Asks
      <4> HIDE DEF next
      <4>2. next \in FlowRec(made)
        BY <2>3, <4>1, FlowMoves
      <4> QED BY <2>3, <3>2, <4>1, <4>2 DEF Asking, FlowRec
    <3>3. CASE how = "renew"
      <4> DEFINE q == IF LeavesScreen(g, how) THEN 0 ELSE r.quote
                 b == Creating(r)
      <4>1. /\ b \in FlowRec(made) /\ b.ack = r.ack /\ b.quote = 0 /\ b.pc = "create"
            /\ b.ask = "none" /\ b.cart = r.cart
        <5>1. b \in FlowRec(made)
          BY <2>3, FlowMoves
        <5> QED BY <2>3, <5>1 DEF Creating, FlowRec
      <4> HIDE DEF b
      <4>2. next = [b EXCEPT !.ack = TRUE, !.quote = q]
        BY <3>3, <4>1 DEF b, FlowRec
      <4>3. q \in 0..made
        BY <2>3 DEF FlowRec
      <4> HIDE DEF q, next
      <4> QED BY <3>3, <4>1, <4>2, <4>3 DEF FlowRec, q
    <3> QED BY <3>1, <3>2, <3>3
  <2> HIDE DEF next
  <2>5. NoScreen \in ScreenRec /\ ~NoScreen.on
    BY DEF NoScreen, ScreenRec
  <2>6. /\ screen' \in [Flows -> ScreenRec]
        /\ \A h \in Flows \ {g} : screen'[h].on = screen[h].on
        /\ screen'[g].on => ~LeavesScreen(g, how)
    BY <1>1, <1>2, <2>1, <2>2, <2>5
  <2>7. ~LeavesScreen(g, how) => how = "renew" /\ Cardinality(r.cart) > 1
    BY DEF LeavesScreen, Batch
  <2>8. Stands(g, next, screen'[g].on)
    BY <2>3, <2>4, <2>6, <2>7 DEF Stands
  <2>9. /\ prompt' \in [Tabs -> Holder] /\ pay' \in [Tabs -> Holder]
        /\ \A u \in Tabs : /\ prompt'[u] = IF u = t /\ how = "timeout" THEN g ELSE prompt[u]
                           /\ pay'[u] = IF u = t THEN NoFlow ELSE pay[u]
    BY <1>1, <2>1, TypeParts DEF IInv, Holder
  <2>10. Heeds(prompt, prompt', g, next.pc = "prompt") /\ Heeds(pay, pay', g, next.pc = "pay")
    <3>1. \A u \in Tabs : prompt[u] # g /\ g # NoFlow /\ (pay[u] = g => u = t)
      BY <2>2, ResolverFacts DEF At
    <3> QED BY <2>2, <2>4, <2>9, <3>1 DEF Heeds
  <2>11. intent' = intent \/ \E q : intent' = Released(q)
    BY <2>1
  <2> QED BY <2>1, <2>2, <2>3, <2>4, <2>6, <2>8, <2>9, <2>10, <2>11, SheetKeeps
<1> QED BY <1>4, <1>5

LEMMA ScreenKeeps ==
  ASSUME IInv, NEW f \in Flows, Poll(f) \/ GiveUp(f) \/ AutoRenew(f) \/ Renew(f)
  PROVE  IInv'
<1>1. screen[f].on /\ UNCHANGED <<shop, drawn, req, blocking>>
  BY DEF Poll, GiveUp, AutoRenew, Renew, Renewable, Unpayable
<1>2. Tab[f] \in Tabs /\ budget \in [Tabs -> 0..Budget] /\ screen[f] \in ScreenRec
  BY TabType, TypeParts DEF IInv
<1>3. CASE Poll(f)
  <2> DEFINE q == flow[f].quote
             m == Shown(q)
  <2>1. q \in 1..made
    BY <1>1, ReqFacts DEF Sheet, FlowRec
  <2>2. order[q] \in OrderRec
    BY <2>1, OrdersKnown DEF IInv
  <2>3. m \in {"none", "seen", "paid", "done"}
    BY <2>2 DEF Shown, OrderRec
  <2>4. CASE Resolved(f, "paid")
    BY <1>1, <1>2, <1>3, <2>4, ResolvedKeeps DEF Poll
  <2>5. CASE ~Resolved(f, "paid")
    <3> DEFINE p == ~(Dead(q) /\ m = "none")
               s == [screen[f] EXCEPT !.view = m, !.polling = p]
    <3>1. /\ screen' = [screen EXCEPT ![f] = s] /\ UNCHANGED <<flow, pay, prompt, intent, budget>>
      BY <1>3, <2>5 DEF Poll
    <3>2. s \in ScreenRec /\ s.on = screen[f].on
      BY <1>2, <2>3 DEF ScreenRec
    <3> HIDE DEF s
    <3> QED BY <1>1, <1>2, <3>1, <3>2, StayKeeps DEF store
  <2> QED BY <2>4, <2>5
<1>4. CASE GiveUp(f)
  BY <1>1, <1>2, <1>4, ResolvedKeeps DEF GiveUp
<1>5. CASE AutoRenew(f)
  <2>1. budget' \in [Tabs -> 0..Budget] /\ Resolved(f, "renew")
    BY <1>2, <1>5, CheckoutAssumption DEF AutoRenew
  <2> QED BY <1>1, <2>1, ResolvedKeeps
<1>6. CASE Renew(f)
  BY <1>1, <1>2, <1>6, ResolvedKeeps DEF Renew
<1> QED BY <1>3, <1>4, <1>5, <1>6

-----------------------------------------------------------------------------
(* The answer comes back.                                                  *)

\* What the sheet becomes: asked, paying or over, and nobody else is touched.
LEMMA ReceiveMoves ==
  ASSUME IInv, NEW f \in Flows, Receive(f)
  PROVE  \E r \in FlowRec(made), s \in ScreenRec :
           /\ flow' = [flow EXCEPT ![f] = r] /\ screen' = [screen EXCEPT ![f] = s]
           /\ Stands(f, r, s.on)
           /\ prompt' \in [Tabs -> Holder] /\ pay' \in [Tabs -> Holder]
           /\ Heeds(prompt, prompt', f, r.pc = "prompt") /\ Heeds(pay, pay', f, r.pc = "pay")
<1> DEFINE ans == req[f].ans
           r0 == flow[f]
<1>1. /\ req[f].stage = "answer" /\ At(f, "create") /\ r0 \in FlowRec(made) /\ r0.cart \in Carts
      /\ ans \in AnswerRec(made) /\ (ans.kind = "order" => ans.quote # 0) /\ made \in Nat
      /\ r0.cart # {} /\ screen[f] \in ScreenRec /\ ans.quote \in 0..made
  <2>1. req[f].stage = "answer"
    BY DEF Receive
  <2>2. /\ At(f, "create") /\ r0 \in FlowRec(made) /\ r0.cart \in Carts
        /\ ans \in AnswerRec(made) /\ made \in Nat /\ Sheet(f) /\ Call(f)
    BY <2>1, ReqFacts
  <2>3. ans.kind = "order" => ans.quote # 0
    BY <2>2 DEF Call
  <2>4. r0.cart # {} /\ screen[f] \in ScreenRec /\ ans.quote \in 0..made
    BY <2>2, TypeParts DEF IInv, Carts, AnswerRec
  <2> QED BY <2>1, <2>2, <2>3, <2>4
<1>2. /\ \A t \in Tabs : prompt[t] # f /\ pay[t] # f /\ f # NoFlow
      /\ prompt \in [Tabs -> Holder] /\ pay \in [Tabs -> Holder] /\ Tab[f] \in Tabs
      /\ f \in Holder
  BY <1>1, ResolverFacts, TabType, TypeParts DEF IInv, At, Holder
<1>3. NoScreen \in ScreenRec /\ ~NoScreen.on
  BY DEF NoScreen, ScreenRec
<1>4. ASSUME NEW pc \in {"closed", "already-paid"}, EndWith(f, pc)
      PROVE  \E r \in FlowRec(made), s \in ScreenRec :
               /\ flow' = [flow EXCEPT ![f] = r] /\ screen' = [screen EXCEPT ![f] = s]
               /\ Stands(f, r, s.on)
               /\ prompt' \in [Tabs -> Holder] /\ pay' \in [Tabs -> Holder]
               /\ Heeds(prompt, prompt', f, r.pc = "prompt") /\ Heeds(pay, pay', f, r.pc = "pay")
  <2> DEFINE r == Ending(r0, pc)
  <2>1. /\ flow' = [flow EXCEPT ![f] = r] /\ screen' = [screen EXCEPT ![f] = NoScreen]
        /\ UNCHANGED <<pay, prompt>>
    BY <1>4 DEF EndWith
  <2>2. r \in FlowRec(made)
    BY <1>1, FlowMoves DEF Places
  <2>3. r.pc = pc /\ r.ask = "none" /\ (pc # "closed" => r.cart = r0.cart)
    BY <1>1 DEF Ending, NewFlow, FlowRec
  <2> HIDE DEF r
  <2>4. Stands(f, r, NoScreen.on)
    BY <1>1, <1>3, <2>3 DEF Stands
  <2>5. Heeds(prompt, prompt', f, r.pc = "prompt") /\ Heeds(pay, pay', f, r.pc = "pay")
    BY <1>2, <2>1 DEF Heeds
  <2> QED BY <1>2, <1>3, <2>1, <2>2, <2>4, <2>5
<1>5. ASSUME NEW r \in FlowRec(made), ShowPrompt(f, r), r.pc = "prompt",
             r.cart = r0.cart, r.ask = "live" => r.quote # 0
      PROVE  \E s \in ScreenRec :
               /\ flow' = [flow EXCEPT ![f] = r] /\ screen' = [screen EXCEPT ![f] = s]
               /\ Stands(f, r, s.on)
               /\ prompt' \in [Tabs -> Holder] /\ pay' \in [Tabs -> Holder]
               /\ Heeds(prompt, prompt', f, r.pc = "prompt") /\ Heeds(pay, pay', f, r.pc = "pay")
  <2>1. /\ flow' = [flow EXCEPT ![f] = r] /\ screen' = [screen EXCEPT ![f] = NoScreen]
        /\ UNCHANGED pay /\ prompt' = [prompt EXCEPT ![Tab[f]] = f]
    BY <1>5 DEF ShowPrompt
  <2>2. Stands(f, r, NoScreen.on)
    BY <1>1, <1>3, <1>5 DEF Stands
  <2>3. Heeds(prompt, prompt', f, r.pc = "prompt") /\ Heeds(pay, pay', f, r.pc = "pay")
    BY <1>2, <1>5, <2>1 DEF Heeds
  <2>4. prompt' \in [Tabs -> Holder]
    BY <1>2, <2>1
  <2> QED BY <1>2, <1>3, <2>1, <2>2, <2>3, <2>4
<1>6. ASSUME NEW kind \in Asks \ {"live"}, ShowPrompt(f, Asking(r0, kind))
      PROVE  \E r \in FlowRec(made) : ShowPrompt(f, r) /\ r.pc = "prompt" /\ r.cart = r0.cart
                                      /\ (r.ask = "live" => r.quote # 0)
  <2>1. Asking(r0, kind) \in FlowRec(made)
    BY <1>1, FlowMoves
  <2>2. /\ Asking(r0, kind).pc = "prompt" /\ Asking(r0, kind).ask = kind
        /\ Asking(r0, kind).cart = r0.cart
    BY <1>1 DEF Asking, FlowRec
  <2> QED BY <1>6, <2>1, <2>2
<1>7. ASSUME ans.kind = "order", ShowPrompt(f, [Asking(r0, "live") EXCEPT !.quote = ans.quote])
      PROVE  \E r \in FlowRec(made) : ShowPrompt(f, r) /\ r.pc = "prompt" /\ r.cart = r0.cart
                                      /\ (r.ask = "live" => r.quote # 0)
  <2> DEFINE r == [Asking(r0, "live") EXCEPT !.quote = ans.quote]
  <2>1. r \in FlowRec(made)
    BY <1>1, FlowMoves DEF Asks
  <2>2. r.pc = "prompt" /\ r.quote = ans.quote /\ r.cart = r0.cart
    BY <1>1 DEF Asking, FlowRec
  <2> QED BY <1>1, <1>7, <2>1, <2>2
<1>8. ASSUME ans.kind = "order", ShowPay(f, ans.quote, ans.money)
      PROVE  \E r \in FlowRec(made), s \in ScreenRec :
               /\ flow' = [flow EXCEPT ![f] = r] /\ screen' = [screen EXCEPT ![f] = s]
               /\ Stands(f, r, s.on)
               /\ prompt' \in [Tabs -> Holder] /\ pay' \in [Tabs -> Holder]
               /\ Heeds(prompt, prompt', f, r.pc = "prompt") /\ Heeds(pay, pay', f, r.pc = "pay")
  <2> DEFINE r == [r0 EXCEPT !.pc = "pay", !.ask = "none", !.quote = ans.quote]
             s == IF flow[f].gone THEN NoScreen
                  ELSE [on |-> TRUE, settled |-> screen[f].on /\ screen[f].settled,
                        view |-> ans.money, polling |-> TRUE]
  <2>1. /\ screen' = [screen EXCEPT ![f] = s]
        /\ UNCHANGED prompt /\ pay' = [pay EXCEPT ![Tab[f]] = f]
    BY <1>8 DEF ShowPay
  <2>2. flow' = [flow EXCEPT ![f] = r]
    BY <1>8 DEF ShowPay
  <2>3. s \in ScreenRec
    BY <1>1, <1>3 DEF ScreenRec, AnswerRec
  <2>4. /\ r \in FlowRec(made) /\ r.pc = "pay" /\ r.ask = "none" /\ r.quote = ans.quote
        /\ r.cart = r0.cart
    BY <1>1 DEF FlowRec, Places, Asks
  <2> HIDE DEF r, s
  <2>5. Stands(f, r, s.on)
    BY <1>1, <1>8, <2>4 DEF Stands
  <2>6. Heeds(prompt, prompt', f, r.pc = "prompt") /\ Heeds(pay, pay', f, r.pc = "pay")
    BY <1>2, <2>1, <2>4 DEF Heeds
  <2>7. pay' \in [Tabs -> Holder]
    BY <1>2, <2>1
  <2> QED BY <1>2, <2>1, <2>2, <2>3, <2>4, <2>5, <2>6, <2>7
<1>9. ans.kind # "order" => ans.kind \in Asks \ {"live"}
  BY <1>1 DEF AnswerRec, Asks, Refusals
<1>10. \/ \E pc \in {"closed", "already-paid"} : EndWith(f, pc)
       \/ \E kind \in Asks \ {"live"} : ShowPrompt(f, Asking(r0, kind))
       \/ /\ ans.kind = "order"
          /\ ShowPrompt(f, [Asking(r0, "live") EXCEPT !.quote = ans.quote])
       \/ /\ ans.kind = "order"
          /\ ShowPay(f, ans.quote, ans.money)
  BY <1>9 DEF Receive
<1> HIDE DEF ans, r0
<1> QED BY <1>4, <1>5, <1>6, <1>7, <1>8, <1>10

LEMMA ReceiveKeeps ==
  ASSUME IInv, NEW f \in Flows, Receive(f)
  PROVE  IInv'
<1> DEFINE ans == req[f].ans
           c == flow[f].cart
           k == req[f].key
           Joins(g) == /\ req[g].stage = "joined" /\ Tab[g] = Tab[f]
                       /\ flow[g].cart = flow[f].cart
           y == [NoRequest EXCEPT !.stage = "answer", !.ans = ans]
           i == [key |-> k, quote |-> ans.quote]
<1>1. PICK r \in FlowRec(made), s \in ScreenRec :
           /\ flow' = [flow EXCEPT ![f] = r] /\ screen' = [screen EXCEPT ![f] = s]
           /\ Stands(f, r, s.on)
           /\ prompt' \in [Tabs -> Holder] /\ pay' \in [Tabs -> Holder]
           /\ Heeds(prompt, prompt', f, r.pc = "prompt") /\ Heeds(pay, pay', f, r.pc = "pay")
  BY ReceiveMoves
<1>2. /\ req[f].stage = "answer" /\ Delivered(f) /\ UNCHANGED <<shop, drawn, budget>>
      /\ blocking' = IF ans.kind = "active" THEN [blocking EXCEPT ![Tab[f]] = ans.quote] ELSE blocking
  BY DEF Receive
<1>3. UNCHANGED <<order, made, bound, drawn, budget>>
  BY <1>2 DEF shop
<1>4. /\ c \in Carts /\ ans \in AnswerRec(made) /\ k \in 0..drawn /\ ans.quote \in 0..made
      /\ made \in Nat /\ drawn \in Nat
      /\ ans.kind = "order" => ans.quote # 0 /\ order[ans.quote].cart = c
  <2>1. /\ c \in Carts /\ ans \in AnswerRec(made) /\ req[f] \in ReqRec(made, drawn)
        /\ made \in Nat /\ drawn \in Nat /\ Call(f)
    BY <1>2, ReqFacts
  <2>2. OrdersOfTheCart
    BY DEF IInv, Keyed
  <2> QED BY <2>1, <2>2 DEF ReqRec, AnswerRec, Call, OrdersOfTheCart
<1>5. /\ y \in ReqRec(made, drawn) /\ y.stage = "answer" /\ y.key = 0 /\ y.quote = 0 /\ y.ans = ans
      /\ i \in IntentRec(made, drawn) /\ i.key = k /\ i.quote = ans.quote
      /\ NoRequest \in ReqRec(made, drawn) /\ NoRequest.key = 0 /\ NoRequest.quote = 0
      /\ NoRequest.ans.kind # "order" /\ NoRequest.stage = "none"
  <2>1. NoRequest \in ReqRec(made, drawn) /\ NoRequest.key = 0 /\ NoRequest.quote = 0
        /\ NoRequest.stage = "none" /\ NoRequest.ans.kind # "order"
    BY <1>4, EmptyRecords DEF NoRequest, NoAnswer
  <2>2. /\ y \in ReqRec(made, drawn) /\ y.stage = "answer" /\ y.key = 0 /\ y.quote = 0
        /\ y.ans = ans
    BY <1>4, <2>1 DEF ReqRec, Stages
  <2>3. i \in IntentRec(made, drawn) /\ i.key = k /\ i.quote = ans.quote
    BY <1>4 DEF IntentRec
  <2> QED BY <2>1, <2>2, <2>3
<1>6. \A g \in Flows : req'[g] = IF g = f THEN NoRequest ELSE IF Joins(g) THEN y ELSE req[g]
  BY <1>2 DEF Delivered
<1>7. intent' = IF ans.kind = "order" /\ k # 0 THEN [intent EXCEPT ![c] = i] ELSE intent
  BY <1>2 DEF Delivered
<1>8. req' = [g \in Flows |-> IF g = f THEN NoRequest ELSE IF Joins(g) THEN y ELSE req[g]]
  BY <1>2 DEF Delivered
<1> HIDE DEF y, i, ans
<1>9. TypeOK'
  <2>1. req' \in [Flows -> ReqRec(made, drawn)]
    BY <1>5, <1>8, TypeParts DEF IInv
  <2>2. intent' \in [Carts -> IntentRec(made, drawn)]
    BY <1>5, <1>7, TypeParts DEF IInv
  <2>3. blocking' \in [Tabs -> 0..made]
    BY <1>2, <1>4, TypeParts DEF IInv
  <2>4. flow' \in [Flows -> FlowRec(made)] /\ screen' \in [Flows -> ScreenRec]
    BY <1>1, TypeParts DEF IInv
  <2> QED BY <1>1, <1>3, <2>1, <2>2, <2>3, <2>4, TypeParts, TypePartsNext DEF IInv
<1>10. Resolvers'
  BY <1>1, HeedsKeep
<1>11. /\ \A g \in Flows : flow'[g] = IF g = f THEN r ELSE flow[g]
       /\ \A g \in Flows : screen'[g] = IF g = f THEN s ELSE screen[g]
  BY <1>1, TypeParts DEF IInv
<1>12. Sheets'
  <2> SUFFICES ASSUME NEW g \in Flows PROVE Sheet(g)' /\ Call(g)'
    BY DEF Sheets
  <2>1. Sheet(g) /\ Call(g)
    BY DEF IInv, Sheets
  <2>2. CASE g = f
    <3>1. Sheet(g)'
      BY <1>1, <1>5, <1>6, <1>11, <2>2 DEF Sheet, Stands, At, Batch
    <3>2. Call(g)'
      BY <1>5, <1>6, <2>2 DEF Call
    <3> QED BY <3>1, <3>2
  <2>3. CASE g # f
    <3>1. Sheet(g)'
      BY <1>5, <1>6, <1>11, <2>1, <2>3 DEF Sheet, At, Batch
    <3>2. CASE Joins(g)
      BY <1>4, <1>5, <1>6, <2>3, <3>1, <3>2 DEF Call
    <3>3. CASE ~Joins(g)
      BY <1>6, <2>1, <2>3, <3>1, <3>3 DEF Call
    <3> QED BY <3>2, <3>3
  <2> QED BY <2>2, <2>3
<1>13. \A g \in Flows : /\ req'[g].key # 0 => /\ g # f /\ flow'[g].cart = flow[g].cart
                                             /\ req'[g].key = req[g].key
                        /\ req'[g].quote # 0 => /\ g # f /\ flow'[g].cart = flow[g].cart
                                               /\ req'[g].quote = req[g].quote
                        /\ req'[g].ans.kind = "order" =>
                             /\ flow'[g].cart = flow[g].cart
                             /\ order[req'[g].ans.quote].cart = flow[g].cart
  <2> SUFFICES ASSUME NEW g \in Flows
               PROVE  /\ req'[g].key # 0 => /\ g # f /\ flow'[g].cart = flow[g].cart
                                             /\ req'[g].key = req[g].key
                      /\ req'[g].quote # 0 => /\ g # f /\ flow'[g].cart = flow[g].cart
                                               /\ req'[g].quote = req[g].quote
                      /\ req'[g].ans.kind = "order" =>
                             /\ flow'[g].cart = flow[g].cart
                             /\ order[req'[g].ans.quote].cart = flow[g].cart
    OBVIOUS
  <2>1. CASE g = f
    BY <1>5, <1>6, <2>1
  <2>2. CASE g # f /\ Joins(g)
    BY <1>4, <1>5, <1>6, <1>11, <2>2
  <2>3. CASE g # f /\ ~Joins(g)
    <3>1. OrdersOfTheCart
      BY DEF IInv, Keyed
    <3> QED BY <1>6, <1>11, <2>3, <3>1 DEF OrdersOfTheCart
  <2> QED BY <2>1, <2>2, <2>3
<1>14. \A d \in Carts : intent'[d] = intent[d] \/ (d = c /\ intent'[d] = i /\ k # 0 /\ ans.kind = "order")
  BY <1>4, <1>7, TypeParts DEF IInv
<1>15. OneCartPerKey'
  <2>1. OneCartPerKey
    BY DEF IInv, Keyed
  <2>2. \A d \in Carts : intent'[d].key # 0 => intent'[d].key = intent[d].key \/ (d = c /\ intent'[d].key = k)
    BY <1>5, <1>14
  <2>3. \A d \in Carts : k # 0 /\ intent[d].key = k => d = c
    BY <2>1 DEF OneCartPerKey
  <2>4. \A g \in Flows : k # 0 /\ req[g].key = k => flow[g].cart = c
    BY <2>1 DEF OneCartPerKey
  <2>5. \A d, e \in Carts : intent'[d].key # 0 /\ intent'[d].key = intent'[e].key => d = e
    BY <2>1, <2>2, <2>3 DEF OneCartPerKey
  <2>6. \A g \in Flows, d \in Carts :
          req'[g].key # 0 /\ req'[g].key = intent'[d].key => flow'[g].cart = d
    BY <1>13, <2>1, <2>2, <2>4 DEF OneCartPerKey
  <2>7. \A g, h \in Flows :
          req'[g].key # 0 /\ req'[g].key = req'[h].key => flow'[g].cart = flow'[h].cart
    BY <1>13, <2>1 DEF OneCartPerKey
  <2> QED BY <2>5, <2>6, <2>7 DEF OneCartPerKey
<1>16. OrdersOfTheCart'
  <2>1. OrdersOfTheCart
    BY DEF IInv, Keyed
  <2>2. ASSUME NEW d \in Carts
        PROVE  /\ intent'[d].quote # 0 => order[intent'[d].quote].cart = d
               /\ intent'[d].key # 0 /\ bound[intent'[d].key] # 0 =>
                    order[bound[intent'[d].key]].cart = d
    <3>1. CASE intent'[d] = intent[d]
      BY <2>1, <3>1 DEF OrdersOfTheCart
    <3>2. CASE d = c /\ intent'[d] = i /\ k # 0 /\ ans.kind = "order"
      BY <1>4, <1>5, <2>1, <3>2 DEF OrdersOfTheCart
    <3> QED BY <1>14, <3>1, <3>2
  <2>3. ASSUME NEW g \in Flows
        PROVE  /\ req'[g].quote # 0 => order[req'[g].quote].cart = flow'[g].cart
               /\ req'[g].key # 0 /\ bound[req'[g].key] # 0 =>
                    order[bound[req'[g].key]].cart = flow'[g].cart
               /\ req'[g].ans.kind = "order" => order[req'[g].ans.quote].cart = flow'[g].cart
    BY <1>13, <2>1 DEF OrdersOfTheCart
  <2> QED BY <1>3, <2>1, <2>2, <2>3 DEF OrdersOfTheCart
<1>17. Gate'
  BY <1>3 DEF IInv, Gate, Past, Dead
<1> QED BY <1>9, <1>10, <1>12, <1>15, <1>16, <1>17 DEF IInv, Keyed

-----------------------------------------------------------------------------
(* The theorems.                                                           *)

LEMMA InitHolds == Init => IInv
<1> SUFFICES ASSUME Init PROVE IInv
  OBVIOUS
<1>1. MaxOrders \in Nat /\ MaxKeys \in Nat /\ Budget \in Nat /\ 0 \in Nat
  BY CheckoutAssumption
<1>2. /\ NewFlow \in FlowRec(0) /\ NoOrder \in OrderRec /\ NoIntent \in IntentRec(0, 0)
      /\ NoRequest \in ReqRec(0, 0) /\ NoScreen \in ScreenRec
  BY <1>1, EmptyRecords
<1>3. /\ made = 0 /\ drawn = 0
      /\ \A q \in Orders : order[q] = NoOrder
      /\ \A k \in Keys : bound[k] = 0
      /\ \A c \in Carts : intent[c] = NoIntent
      /\ \A f \in Flows : flow[f] = NewFlow /\ req[f] = NoRequest /\ screen[f] = NoScreen
      /\ \A t \in Tabs : pay[t] = NoFlow /\ prompt[t] = NoFlow
  BY DEF Init
<1>4. TypeOK
  BY <1>1, <1>2, TypeParts DEF Init, Holder
<1>5. Sheets
  BY <1>3 DEF Sheets, Sheet, Call, At, NewFlow, NoRequest, NoAnswer, NoScreen
<1>6. Resolvers
  BY <1>3 DEF Resolvers
<1>7. Keyed
  BY <1>3 DEF Keyed, OneCartPerKey, OrdersOfTheCart, NoIntent, NoRequest, NoAnswer
<1>8. Gate
  BY <1>3 DEF Gate
<1> QED BY <1>4, <1>5, <1>6, <1>7, <1>8 DEF IInv

LEMMA NextKeeps == IInv /\ [Next]_vars => IInv'
<1> SUFFICES ASSUME IInv, [Next]_vars PROVE IInv'
  OBVIOUS
<1>1. CASE UNCHANGED vars
  <2>1. UNCHANGED <<order, made, bound, intent, drawn, flow, req, screen, pay, prompt, budget, blocking>>
    BY <1>1 DEF vars
  <2>2. TypeOK'
    BY <2>1, TypeParts, TypePartsNext DEF IInv
  <2>3. Sheets' /\ Resolvers'
    BY <2>1 DEF IInv, Sheets, Sheet, Call, At, Batch, Resolvers
  <2>4. Keyed'
    BY <2>1 DEF IInv, Keyed, OneCartPerKey, OrdersOfTheCart
  <2>5. Gate'
    BY <2>1 DEF IInv, Gate, Past, Dead
  <2> QED BY <2>2, <2>3, <2>4, <2>5 DEF IInv
<1>2. CASE World
  BY <1>2, WorldKeeps
<1>3. ASSUME NEW f \in Flows,
             \/ \E c \in Wanted : Open(f, c)
             \/ Start(f) \/ Close(f)
             \/ Ask(f) \/ Load(f) \/ Lookup(f) \/ Release(f)
             \/ Replay(f) \/ Mismatch(f) \/ Create(f) \/ Lose(f) \/ Receive(f)
      PROVE  IInv'
  BY <1>3, OpenKeeps, StartKeeps, CloseKeeps, AskKeeps, LoadKeeps, LookupKeeps, ReleaseKeeps,
     ReplayKeeps, CreateKeeps, RefusalKeeps, ReceiveKeeps
<1>4. ASSUME NEW f \in Flows, NEW q \in 1..made, FindMoney(f, q) \/ Reuse(f, q) \/ TurnAway(f, q)
      PROVE  IInv'
  BY <1>4, FindMoneyKeeps, ReuseKeeps, RefusalKeeps
<1>5. ASSUME NEW f \in Flows, NEW why \in MayRefuse, Refuse(f, why)
      PROVE  IInv'
  BY <1>5, RefusalKeeps
<1>6. ASSUME NEW f \in Flows, NEW g \in Flows, NEW c \in Choice,
             \/ Again(f, g, c) \/ Insist(f, g, c) \/ TakeNew(f, g, c)
             \/ TakeExisting(f, g, c) \/ Redo(f, g, c) \/ Remove(f, g, c) \/ Stop(f, g, c)
      PROVE  IInv'
  BY <1>6, AnswersKeep, TakeExistingKeeps
<1>7. ASSUME NEW f \in Flows, Poll(f) \/ GiveUp(f) \/ AutoRenew(f) \/ Renew(f)
      PROVE  IInv'
  BY <1>7, ScreenKeeps
<1> QED BY <1>1, <1>2, <1>3, <1>4, <1>5, <1>6, <1>7 DEF Next

\* The inductive invariant holds of every run of the checkout.
THEOREM CheckoutInvariant == Spec => []IInv
BY InitHolds, NextKeeps, PTL DEF Spec

\* Every value the sheet, the browser and the shop keep is of its kind, however
\* many sheets and tabs there are.
THEOREM CheckoutTypeOK == Spec => []TypeOK
<1>1. IInv => TypeOK
  BY DEF IInv
<1> QED BY <1>1, CheckoutInvariant, PTL

\* Whatever the sheets, tabs and lost answers: of two orders of one cart that can
\* be paid at the same time, the later was created under an acknowledgement
\* (BlocksNewPurchaseAt, checkout_safety.go; ackRef, CheckoutFlow.tsx).
THEOREM CheckoutSecondOrderIsAcknowledged == Spec => []SecondOrderIsAcknowledged
<1>1. IInv => SecondOrderIsAcknowledged
  BY DEF IInv, Gate, Past, Dead, SecondOrderIsAcknowledged, Twins, Payable, Shown
<1> QED BY <1>1, CheckoutInvariant, PTL

\* A stored key and the order stored with it belong to the cart they are stored
\* under, whichever tab wrote last (checkoutIntent.ts).
THEOREM CheckoutKeysLeadToTheirCart == Spec => []KeysLeadToTheirCart
<1>1. IInv => KeysLeadToTheirCart
  BY DEF IInv, Keyed, OrdersOfTheCart, KeysLeadToTheirCart
<1> QED BY <1>1, CheckoutInvariant, PTL

-----------------------------------------------------------------------------
(* What a tab shows, whatever runs its sheets left behind.                 *)

\* A tab shows one sheet at a time.
Solo == \A f, g \in Flows : Tab[f] = Tab[g] /\ Mounted(f) /\ Mounted(g) => f = g

\* A run behind a closed sheet that may take the resolver of sheet f.
Stray(r) == r.gone /\ r.pc # "closed" /\ ~(Cardinality(r.cart) > 1)
Muted(f) == \E g \in Flows \ {f} : Tab[g] = Tab[f] /\ Stray(flow[g])

\* A mounted screen of a single order is heard or muted by a run left behind;
\* only mounted sheets have screens, and only single orders ask or pay behind one.
Lit == \A f \in Flows :
         /\ Mounted(f) /\ At(f, "pay") /\ ~Batch(f) => Heard(f) \/ Muted(f)
         /\ screen[f].on => Mounted(f)
         /\ ~Mounted(f) /\ (At(f, "prompt") \/ At(f, "pay")) => ~Batch(f)

HInv == Solo /\ Lit /\ SuccessIsPaid

\* What a sheet that becomes r needs, and what it owes to the sheet of its tab.
Loud(f, r) ==
  /\ ~r.gone => Mounted(f) \/ \A g \in Flows : Tab[g] = Tab[f] => ~Mounted(g)
  /\ ~r.gone /\ r.pc = "pay" /\ ~(Cardinality(r.cart) > 1) =>
       (pay'[Tab[f]] = f /\ screen'[f].on /\ ~screen'[f].settled) \/ Muted(f)
  /\ screen'[f].on => ~r.gone
  /\ r.gone /\ r.pc \in {"prompt", "pay"} => ~(Cardinality(r.cart) > 1)
  /\ ~r.gone /\ r.pc = "success" => order[r.quote].money \in Paid

Spares(f, r) ==
  \A h \in Flows \ {f} : Tab[h] = Tab[f] /\ Mounted(h) /\ At(h, "pay") =>
    \/ Stray(r)
    \/ /\ pay'[Tab[f]] = pay[Tab[f]] /\ screen'[h].settled = screen[h].settled
       /\ ~Stray(flow[f])

LEMMA MoveIsHeard ==
  ASSUME IInv, HInv, NEW f \in Flows, NEW r, flow' = [flow EXCEPT ![f] = r],
         Loud(f, r), Spares(f, r),
         \A h \in Flows \ {f} : screen'[h].on = screen[h].on,
         \A h \in Flows \ {f} : Tab[h] # Tab[f] => screen'[h].settled = screen[h].settled,
         \A t \in Tabs \ {Tab[f]} : pay'[t] = pay[t],
         UNCHANGED order
  PROVE  HInv'
<1>1. \A g \in Flows : flow'[g] = IF g = f THEN r ELSE flow[g]
  BY TypeParts DEF IInv
<1>2. Solo'
  BY <1>1 DEF HInv, Solo, Mounted, Loud
<1>3. SuccessIsPaid'
  BY <1>1 DEF HInv, SuccessIsPaid, Mounted, At, Loud
<1>4. ASSUME NEW h \in Flows, screen'[h].on
      PROVE  ~flow'[h].gone
  BY <1>1, <1>4 DEF HInv, Lit, Mounted, Loud
<1>5. ASSUME NEW h \in Flows, flow'[h].gone, flow'[h].pc \in {"prompt", "pay"}
      PROVE  ~(Cardinality(flow'[h].cart) > 1)
  BY <1>1, <1>5 DEF HInv, Lit, Mounted, At, Batch, Loud
<1>6. ASSUME NEW h \in Flows, ~flow'[h].gone, flow'[h].pc = "pay", ~(Cardinality(flow'[h].cart) > 1)
      PROVE  \/ pay'[Tab[h]] = h /\ screen'[h].on /\ ~screen'[h].settled
             \/ \E g \in Flows \ {h} : Tab[g] = Tab[h] /\ Stray(flow'[g])
  <2>1. CASE h = f
    BY <1>1, <1>6, <2>1 DEF Loud, Muted
  <2>2. CASE h # f
    <3>1. Mounted(h) /\ At(h, "pay") /\ ~Batch(h) /\ h \in Flows \ {f}
      BY <1>1, <1>6, <2>2 DEF Mounted, At, Batch
    <3>2. Heard(h) \/ Muted(h)
      BY <3>1 DEF HInv, Lit
    <3>3. CASE Tab[h] # Tab[f]
      BY <1>1, <2>2, <3>2, <3>3, TabType DEF Heard, Muted
    <3>4. CASE Tab[h] = Tab[f] /\ Stray(r)
      BY <1>1, <2>2, <3>4
    <3>5. CASE Tab[h] = Tab[f] /\ ~Stray(r)
      <4>1. pay'[Tab[f]] = pay[Tab[f]] /\ screen'[h].settled = screen[h].settled /\ ~Stray(flow[f])
        BY <3>1, <3>5 DEF Spares
      <4> QED BY <1>1, <2>2, <3>2, <3>5, <4>1 DEF Heard, Muted
    <3> QED BY <3>3, <3>4, <3>5
  <2> QED BY <2>1, <2>2
<1>7. Lit'
  BY <1>4, <1>5, <1>6 DEF Lit, Mounted, At, Batch, Heard, Muted, Stray
<1> QED BY <1>2, <1>3, <1>7 DEF HInv

\* A sheet on screen is alone in its tab, and owes nothing.
LEMMA MountedSpares ==
  ASSUME HInv, NEW f \in Flows, NEW r, NEW g \in Flows, Mounted(g), Tab[g] = Tab[f],
         g = f \/ ~At(g, "pay")
  PROVE  Spares(f, r)
BY DEF HInv, Solo, Spares

\* While the sheets stand still, what is paid stays paid.
LEMMA StillIsHeard ==
  ASSUME IInv, HInv, UNCHANGED <<screen, pay>>,
         \A f \in Flows : /\ flow'[f].pc = flow[f].pc /\ flow'[f].gone = flow[f].gone
                         /\ flow'[f].cart = flow[f].cart /\ flow'[f].quote = flow[f].quote,
         \A q \in 1..made : order[q].money \in Paid => order'[q].money \in Paid
  PROVE  HInv'
<1>1. Solo'
  BY DEF HInv, Solo, Mounted
<1>2. \A f \in Flows : /\ Mounted(f)' = Mounted(f) /\ Batch(f)' = Batch(f) /\ Heard(f)' = Heard(f)
                      /\ Stray(flow[f])' = Stray(flow[f])
                      /\ \A pc \in Places : At(f, pc)' = At(f, pc)
  BY DEF Mounted, Batch, Heard, Stray, At
<1>3. \A f \in Flows : Muted(f) => Muted(f)'
  BY <1>2 DEF Muted
<1>4. Lit'
  BY <1>2, <1>3 DEF HInv, Lit, Places
<1>5. SuccessIsPaid'
  <2> SUFFICES ASSUME NEW f \in Flows, ~flow[f].gone, flow[f].pc = "success"
               PROVE  order'[flow[f].quote].money \in Paid
    BY DEF SuccessIsPaid, Mounted, At
  <2>1. flow[f].quote \in 1..made
    BY ReqFacts DEF Sheet, At, FlowRec
  <2> QED BY <2>1 DEF HInv, SuccessIsPaid, Mounted, At
<1> QED BY <1>1, <1>4, <1>5 DEF HInv

LEMMA ShopIsHeard ==
  ASSUME IInv, HInv,
         \/ World
         \/ \E f \in Flows :
              \/ Ask(f) \/ Load(f) \/ Lookup(f) \/ Release(f)
              \/ Replay(f) \/ Mismatch(f) \/ Create(f) \/ Lose(f)
              \/ \E q \in 1..made : FindMoney(f, q) \/ Reuse(f, q) \/ TurnAway(f, q)
              \/ \E why \in MayRefuse : Refuse(f, why)
  PROVE  HInv'
<1>1. \A q \in 1..made : q \in Orders /\ order[q] \in OrderRec /\ q # made + 1
  <2>1. made \in Nat
    BY CheckoutAssumption, TypeParts DEF IInv
  <2> QED BY <2>1, OrdersKnown DEF IInv
<1>2. order \in [Orders -> OrderRec] /\ flow \in [Flows -> FlowRec(made)]
  BY TypeParts DEF IInv
<1>3. CASE World
  <2>1. UNCHANGED <<flow, screen, pay>>
    BY <1>3 DEF World
  <2>2. \A q \in 1..made : order[q].money \in Paid => order'[q].money \in Paid
    <3>1. PICK q \in 1..made : Send(q) \/ Observe(q) \/ (\E i \in Invoices : Bill(q, i))
      BY <1>3 DEF World
    <3>2. \E r \in OrderRec : /\ order' = [order EXCEPT ![q] = r]
                              /\ order[q].money \in Paid => r.money \in Paid
      <4>1. CASE Send(q)
        <5>1. [order[q] EXCEPT !.money = "sent"] \in OrderRec /\ order[q].money \notin Paid
          BY <1>1, <4>1 DEF Send, OrderRec, Paid
        <5> QED BY <4>1, <5>1 DEF Send
      <4>2. CASE Observe(q)
        <5>1. \A m \in {"seen", "paid", "done"} : /\ [order[q] EXCEPT !.money = m] \in OrderRec
                                                 /\ [order[q] EXCEPT !.money = m].money = m
          BY <1>1 DEF OrderRec
        <5>2. \E m \in {"seen", "paid", "done"} :
                /\ order' = [order EXCEPT ![q] = [order[q] EXCEPT !.money = m]]
                /\ order[q].money \in Paid => m \in Paid
          BY <4>2 DEF Observe, Paid
        <5> QED BY <5>1, <5>2
      <4>3. ASSUME NEW i \in Invoices, Bill(q, i)
            PROVE  \E r \in OrderRec : /\ order' = [order EXCEPT ![q] = r]
                                       /\ order[q].money \in Paid => r.money \in Paid
        <5>1. /\ [order[q] EXCEPT !.invoice = i] \in OrderRec
              /\ [order[q] EXCEPT !.invoice = i].money = order[q].money
          BY <1>1, <4>3 DEF OrderRec
        <5> QED BY <4>3, <5>1 DEF Bill
      <4> QED BY <3>1, <4>1, <4>2, <4>3
    <3> QED BY <1>1, <1>2, <3>2
  <2> QED BY <2>1, <2>2, StillIsHeard
<1>4. ASSUME NEW f \in Flows,
             \/ Load(f) \/ Lookup(f) \/ Release(f) \/ Replay(f) \/ Mismatch(f) \/ Lose(f)
             \/ \E q \in 1..made : Reuse(f, q) \/ TurnAway(f, q)
             \/ \E why \in MayRefuse : Refuse(f, why)
      PROVE  HInv'
  <2>1. UNCHANGED <<flow, screen, pay, order>>
    BY <1>4 DEF Load, Lookup, Release, Replay, Mismatch, Lose, Reuse, TurnAway, Refuse, Answers, shop
  <2> QED BY <2>1, StillIsHeard
<1>5. ASSUME NEW f \in Flows, Ask(f)
      PROVE  HInv'
  <2>1. /\ UNCHANGED <<screen, pay, order>>
        /\ flow' = [flow EXCEPT ![f] = [flow[f] EXCEPT !.fresh = FALSE]]
    BY <1>5 DEF Ask, shop
  <2>2. \A g \in Flows : /\ flow'[g].pc = flow[g].pc /\ flow'[g].gone = flow[g].gone
                         /\ flow'[g].cart = flow[g].cart /\ flow'[g].quote = flow[g].quote
    BY <1>2, <2>1 DEF FlowRec
  <2> QED BY <2>1, <2>2, StillIsHeard
<1>6. ASSUME NEW f \in Flows, NEW q \in 1..made, FindMoney(f, q)
      PROVE  HInv'
  <2>1. /\ UNCHANGED <<flow, screen, pay>> /\ order[q].money = "sent"
        /\ order' = [order EXCEPT ![q].money = "seen"]
    BY <1>6 DEF FindMoney, Answers
  <2> QED BY <1>1, <1>2, <2>1, StillIsHeard DEF Paid
<1>7. ASSUME NEW f \in Flows, Create(f)
      PROVE  HInv'
  <2>1. /\ UNCHANGED <<flow, screen, pay>>
        /\ \A q \in Orders : q # made + 1 => order'[q] = order[q]
    BY <1>2, <1>7 DEF Create, Answers
  <2> QED BY <1>1, <2>1, StillIsHeard
<1> QED BY <1>3, <1>4, <1>5, <1>6, <1>7

LEMMA MountIsHeard ==
  ASSUME IInv, HInv, NEW f \in Flows,
         (\E c \in Wanted : Open(f, c)) \/ Start(f) \/ Close(f)
  PROVE  HInv'
<1>1. /\ flow[f] \in FlowRec(made) /\ Sheet(f) /\ screen \in [Flows -> ScreenRec]
      /\ pay \in [Tabs -> Holder]
  BY ReqFacts, TypeParts DEF IInv
<1>2. ASSUME NEW c \in Wanted, Open(f, c)
      PROVE  HInv'
  <2> DEFINE r == [NewFlow EXCEPT !.pc = "delivery", !.cart = c, !.gone = FALSE]
  <2>1. /\ flow' = [flow EXCEPT ![f] = r] /\ At(f, "closed")
        /\ \A g \in Flows : Tab[g] = Tab[f] => ~Mounted(g)
        /\ UNCHANGED <<screen, pay, order>>
    BY <1>2 DEF Open, shop
  <2>2. r.pc = "delivery" /\ ~r.gone
    BY DEF NewFlow
  <2> HIDE DEF r
  <2>3. Loud(f, r)
    BY <2>1, <2>2 DEF Loud
  <2>4. Spares(f, r)
    BY <2>1 DEF Spares
  <2> QED BY <2>1, <2>3, <2>4, MoveIsHeard
<1>3. CASE Start(f)
  <2> DEFINE r == Creating(flow[f])
  <2>1. /\ flow' = [flow EXCEPT ![f] = r] /\ Mounted(f)
        /\ UNCHANGED <<screen, pay, order>>
    BY <1>3 DEF Start, shop
  <2>2. r.pc = "create" /\ ~r.gone
    BY <1>1, <2>1 DEF Creating, FlowRec, Mounted
  <2> HIDE DEF r
  <2>3. Loud(f, r)
    BY <2>1, <2>2 DEF Loud
  <2>4. Spares(f, r)
    BY <2>1, MountedSpares
  <2> QED BY <2>1, <2>3, <2>4, MoveIsHeard
<1>4. CASE Close(f)
  <2> DEFINE r == IF flow[f].pc = "create" THEN [flow[f] EXCEPT !.gone = TRUE] ELSE NewFlow
  <2>1. /\ flow' = [flow EXCEPT ![f] = r] /\ screen' = [screen EXCEPT ![f] = NoScreen]
        /\ pay' = [pay EXCEPT ![Tab[f]] = NoFlow] /\ Mounted(f)
        /\ UNCHANGED order
    BY <1>4 DEF Close, shop
  <2>2. r.pc \in {"create", "closed"} /\ r.gone /\ ~NoScreen.on
    BY <1>1 DEF FlowRec, NewFlow, NoScreen
  <2> HIDE DEF r
  <2>3. Loud(f, r)
    BY <1>1, <2>1, <2>2 DEF Loud
  <2>4. Spares(f, r)
    BY <2>1, MountedSpares
  <2>5. \A t \in Tabs \ {Tab[f]} : pay'[t] = pay[t]
    BY <1>1, <2>1
  <2> QED BY <1>1, <2>1, <2>3, <2>4, <2>5, MoveIsHeard
<1> QED BY <1>2, <1>3, <1>4

\* The sheet that answers a button is the one on screen or one left behind, and
\* the one on screen shows a prompt.
LEMMA PressIsHeard ==
  ASSUME IInv, HInv, NEW f \in Flows, NEW g \in Flows, NEW c \in Choice,
         \/ Again(f, g, c) \/ Insist(f, g, c) \/ TakeNew(f, g, c)
         \/ TakeExisting(f, g, c) \/ Redo(f, g, c) \/ Remove(f, g, c) \/ Stop(f, g, c)
  PROVE  HInv'
<1>1. Pressed(f, g, c) /\ UNCHANGED <<shop, store, req, budget, blocking>>
  BY DEF Again, Insist, TakeNew, TakeExisting, Redo, Remove, Stop
<1>2. /\ flow[g] \in FlowRec(made) /\ ~screen[g].on /\ screen \in [Flows -> ScreenRec]
      /\ pay \in [Tabs -> Holder] /\ Tab[g] \in Tabs /\ UNCHANGED order
      /\ At(g, "prompt")
  BY <1>1, PressFacts, TabType, TypeParts DEF IInv, shop
<1>3. Mounted(f) /\ At(f, "prompt") /\ Tab[f] = Tab[g] /\ ~At(f, "pay")
  BY <1>1, ResolverFacts, TabType DEF Pressed, At
<1>4. \A r : Spares(g, r)
  BY <1>3, MountedSpares
<1>5. CASE TakeExisting(f, g, c)
  <2> DEFINE r == [flow[g] EXCEPT !.pc = "pay", !.ask = "none"]
             s == IF flow[g].gone THEN NoScreen
                  ELSE [on |-> TRUE, settled |-> FALSE, view |-> "none", polling |-> TRUE]
  <2>1. /\ screen' = [screen EXCEPT ![g] = s] /\ pay' = [pay EXCEPT ![Tab[g]] = g]
    BY <1>5 DEF TakeExisting
  <2>2. flow' = [flow EXCEPT ![g] = r]
    BY <1>5 DEF TakeExisting
  <2>3. /\ r.pc = "pay" /\ r.gone = flow[g].gone /\ r.cart = flow[g].cart
        /\ (~flow[g].gone <=> s.on) /\ ~s.settled /\ pay'[Tab[g]] = g /\ screen'[g] = s
    BY <1>2, <2>1 DEF FlowRec, NoScreen
  <2>4. \A h \in Flows \ {g} : screen'[h] = screen[h]
    BY <1>2, <2>1
  <2> HIDE DEF r, s
  <2>5. flow[g].gone => ~(Cardinality(flow[g].cart) > 1)
    BY <1>2 DEF HInv, Lit, Mounted, Batch
  <2>6. Loud(g, r)
    BY <2>3, <2>5 DEF Loud, Mounted
  <2>7. \A t \in Tabs \ {Tab[g]} : pay'[t] = pay[t]
    BY <1>2, <2>1
  <2> QED BY <1>2, <1>4, <2>2, <2>4, <2>6, <2>7, MoveIsHeard
<1>6. CASE ~TakeExisting(f, g, c)
  <2>1. UNCHANGED <<screen, pay>>
    BY <1>6 DEF Again, Insist, TakeNew, Redo, Remove, Stop
  <2> DEFINE Goes(r) == r.pc \notin {"prompt", "pay", "success"} /\ (r.gone \/ ~flow[g].gone)
             s == Creating(flow[g])
  <2>2. \E r : flow' = [flow EXCEPT ![g] = r] /\ Goes(r)
    <3>1. s.pc = "create" /\ s \in FlowRec(made) /\ s.gone = flow[g].gone
      <4>1. s \in FlowRec(made)
        BY <1>2, ReqFacts, FlowMoves
      <4> QED BY <1>2, <4>1 DEF Creating, FlowRec
    <3>2. ASSUME NEW pc \in {"already-paid", "delivery", "closed", "summary"},
                 flow' = [flow EXCEPT ![g] = Ending(flow[g], pc)]
          PROVE  \E r : flow' = [flow EXCEPT ![g] = r] /\ Goes(r)
      <4>1. Ending(flow[g], pc).pc = pc /\ (Ending(flow[g], pc).gone \/ ~flow[g].gone)
        BY <1>2 DEF Ending, NewFlow, FlowRec
      <4> QED BY <3>2, <4>1
    <3>3. CASE Again(f, g, c)
      BY <3>1, <3>3 DEF Again
    <3>4. CASE Insist(f, g, c)
      <4>1. CASE flow' = [flow EXCEPT ![g] = Ending(flow[g], "already-paid")]
        BY <3>2, <4>1
      <4> DEFINE r == [s EXCEPT !.ack = TRUE]
      <4>2. CASE flow' = [flow EXCEPT ![g] = r]
        <5>1. r.pc = "create" /\ r.gone = flow[g].gone
          BY <3>1 DEF FlowRec
        <5> QED BY <4>2, <5>1
      <4> QED BY <3>4, <4>1, <4>2 DEF Insist
    <3>5. CASE TakeNew(f, g, c)
      <4> DEFINE r == [s EXCEPT !.ack = TRUE, !.fresh = TRUE]
      <4>1. r.pc = "create" /\ r.gone = flow[g].gone /\ flow' = [flow EXCEPT ![g] = r]
        BY <3>1, <3>5 DEF TakeNew, FlowRec
      <4> QED BY <4>1
    <3>6. CASE Redo(f, g, c)
      <4>1. flow' = [flow EXCEPT ![g] = Ending(flow[g], "delivery")]
        BY <3>6 DEF Redo
      <4> QED BY <3>2, <4>1
    <3>7. CASE Remove(f, g, c)
      <4>1. PICK victims : flow' = [flow EXCEPT ![g] = [s EXCEPT !.cart = flow[g].cart \ victims]]
        BY <3>7 DEF Remove
      <4> DEFINE r == [s EXCEPT !.cart = flow[g].cart \ victims]
      <4>2. r.pc = "create" /\ r.gone = flow[g].gone
        BY <3>1 DEF FlowRec
      <4> QED BY <4>1, <4>2
    <3>8. CASE Stop(f, g, c)
      <4>1. flow' = [flow EXCEPT ![g] = Ending(flow[g], "closed")]
            \/ flow' = [flow EXCEPT ![g] = Ending(flow[g], "summary")]
        BY <3>8 DEF Stop
      <4> QED BY <3>2, <4>1
    <3> QED BY <1>6, <3>3, <3>4, <3>5, <3>6, <3>7, <3>8
  <2>3. PICK r : flow' = [flow EXCEPT ![g] = r] /\ Goes(r)
    BY <2>2
  <2>4. Loud(g, r)
    BY <1>2, <2>1, <2>3 DEF Loud, Mounted
  <2> QED BY <1>2, <1>4, <2>1, <2>3, <2>4, MoveIsHeard
<1> QED BY <1>5, <1>6

\* The run that is resolved is the one on screen, or one left behind.
LEMMA ResolvedIsHeard ==
  ASSUME IInv, HInv, NEW f \in Flows, screen[f].on,
         NEW how \in {"paid", "timeout", "renew"}, Resolved(f, how), UNCHANGED order,
         how = "paid" => order[flow[f].quote].money \in Paid
  PROVE  HInv'
<1> DEFINE t == Tab[f]
           g == pay[t]
           r == flow[g]
           s == [screen[f] EXCEPT !.settled = TRUE, !.polling = @ /\ how = "renew"]
           done == [screen EXCEPT ![f] = s]
           b == [Creating(r) EXCEPT !.ack = TRUE,
                                    !.quote = IF LeavesScreen(g, how) THEN @ ELSE r.quote]
           next == CASE how = "paid" -> Ending(r, "success")
                     [] how = "timeout" -> Asking(r, "unresolved")
                     [] OTHER -> b
<1>1. /\ t \in Tabs /\ g \in Holder /\ screen[f] \in ScreenRec /\ screen \in [Flows -> ScreenRec]
      /\ pay \in [Tabs -> Holder] /\ Mounted(f) /\ f # NoFlow
  BY TabType, ResolverFacts, TypeParts DEF IInv, HInv, Lit
<1>2. s.on /\ s.settled
  BY <1>1 DEF ScreenRec
<1>3. done = [screen EXCEPT ![f].settled = TRUE, ![f].polling = @ /\ how = "renew"]
  BY <1>1 DEF ScreenRec
<1>4. CASE screen[f].settled \/ g = NoFlow
  <2>1. screen' = done /\ UNCHANGED <<flow, pay>>
    BY <1>3, <1>4 DEF Resolved
  <2>2. flow' = [flow EXCEPT ![f] = flow[f]]
    BY <2>1, TypeParts DEF IInv
  <2>3. ~Heard(f)
    BY <1>1, <1>4 DEF Heard
  <2> HIDE DEF s
  <2>4. Loud(f, flow[f])
    BY <1>1, <2>3 DEF Loud, HInv, Lit, SuccessIsPaid, At, Batch, Mounted
  <2>5. Spares(f, flow[f])
    BY <1>1, MountedSpares
  <2>6. \A h \in Flows \ {f} : screen'[h] = screen[h]
    BY <1>1, <2>1
  <2> QED BY <2>1, <2>2, <2>4, <2>5, <2>6, MoveIsHeard
<1>5. CASE ~screen[f].settled /\ g # NoFlow
  <2>1. /\ flow' = [flow EXCEPT ![g] = next]
        /\ screen' = [done EXCEPT ![g] = IF LeavesScreen(g, how) THEN NoScreen ELSE @]
        /\ pay' = [pay EXCEPT ![t] = NoFlow]
    BY <1>3, <1>5 DEF Resolved
  <2>2. g \in Flows /\ Tab[g] = t /\ At(g, "pay") /\ r \in FlowRec(made)
    BY <1>1, <1>5, ResolverFacts, ReqFacts DEF Holder
  <2>3. /\ next.gone = r.gone /\ next.cart = r.cart
        /\ how = "paid" => next.pc = "success" /\ next.quote = r.quote
        /\ how = "timeout" => next.pc = "prompt"
        /\ how = "renew" => next.pc = "create"
    <3>1. how = "paid" => next = Ending(r, "success")
      OBVIOUS
    <3>2. how = "timeout" => next = Asking(r, "unresolved")
      OBVIOUS
    <3>3. how = "renew" => next = b
      OBVIOUS
    <3>4. /\ Ending(r, "success").pc = "success" /\ Ending(r, "success").quote = r.quote
          /\ Ending(r, "success").gone = r.gone /\ Ending(r, "success").cart = r.cart
      BY <2>2 DEF Ending, FlowRec
    <3>5. /\ Asking(r, "unresolved").pc = "prompt" /\ Asking(r, "unresolved").gone = r.gone
          /\ Asking(r, "unresolved").cart = r.cart
      BY <2>2 DEF Asking, FlowRec
    <3>6. b.pc = "create" /\ b.gone = r.gone /\ b.cart = r.cart
      <4> DEFINE c == Creating(r)
      <4>1. c.pc = "create" /\ c.gone = r.gone /\ c.cart = r.cart /\ c \in FlowRec(made)
        <5>1. c \in FlowRec(made)
          BY <2>2, ReqFacts, FlowMoves
        <5> QED BY <2>2, <5>1 DEF Creating, FlowRec
      <4> HIDE DEF c
      <4>2. \A y : LET d == [c EXCEPT !.ack = TRUE, !.quote = y]
                  IN d.pc = c.pc /\ d.gone = c.gone /\ d.cart = c.cart
        BY <4>1 DEF FlowRec
      <4>3. b = [c EXCEPT !.ack = TRUE, !.quote = IF LeavesScreen(g, how) THEN c.quote ELSE r.quote]
        BY <4>1 DEF c, FlowRec
      <4> HIDE DEF b
      <4> QED BY <4>1, <4>2, <4>3
    <3> HIDE DEF next, b
    <3> QED BY <3>1, <3>2, <3>3, <3>4, <3>5, <3>6
  <2> HIDE DEF next, s
  <2>4. /\ screen'[g].on => screen[g].on \/ g = f
        /\ \A h \in Flows \ {f, g} : screen'[h] = screen[h]
        /\ f # g => screen'[f].on = screen[f].on
    BY <1>1, <1>2, <2>1, <2>2 DEF NoScreen
  <2>5. \A u \in Tabs \ {t} : pay'[u] = pay[u]
    BY <1>1, <2>1
  <2>6. how = "renew" \/ how = "paid" \/ how = "timeout"
    OBVIOUS
  <2>7. CASE g = f
    <3>1. Loud(f, next)
      BY <1>1, <2>3, <2>6, <2>7 DEF Loud, Mounted
    <3>2. Spares(f, next)
      BY <1>1, MountedSpares
    <3>3. \A h \in Flows \ {f} : screen'[h] = screen[h]
      BY <2>4, <2>7
    <3> QED BY <2>1, <2>5, <2>7, <3>1, <3>2, <3>3, MoveIsHeard
  <2>8. CASE g # f
    <3>1. ~Mounted(g) /\ ~Batch(g) /\ ~screen[g].on
      BY <1>1, <2>2, <2>8 DEF HInv, Solo, Lit
    <3>2. next.gone /\ Stray(next)
      BY <2>3, <2>6, <3>1 DEF Mounted, Batch, Stray
    <3>3. Loud(g, next) /\ Spares(g, next)
      BY <2>4, <2>8, <3>1, <3>2 DEF Loud, Spares, Stray
    <3>4. \A h \in Flows \ {g} : /\ screen'[h].on = screen[h].on
                                 /\ Tab[h] # Tab[g] => screen'[h].settled = screen[h].settled
      BY <2>2, <2>4, <2>8
    <3> QED BY <2>1, <2>2, <2>5, <3>3, <3>4, MoveIsHeard
  <2> QED BY <2>7, <2>8
<1> QED BY <1>4, <1>5

LEMMA ScreenIsHeard ==
  ASSUME IInv, HInv, NEW f \in Flows,
         Poll(f) \/ GiveUp(f) \/ AutoRenew(f) \/ Renew(f)
  PROVE  HInv'
<1>1. screen[f].on /\ UNCHANGED order
  BY DEF Poll, GiveUp, AutoRenew, Renew, Renewable, Unpayable, shop
<1>2. CASE Poll(f)
  <2> DEFINE q == flow[f].quote
             m == Shown(q)
  <2>1. CASE IsPaid(m) /\ Resolved(f, "paid")
    <3>1. order[q].money \in Paid
      BY <2>1 DEF IsPaid, Shown, Paid
    <3> QED BY <1>1, <2>1, <3>1, ResolvedIsHeard
  <2>2. CASE ~(IsPaid(m) /\ Resolved(f, "paid"))
    <3> DEFINE p == ~(Dead(q) /\ m = "none")
               s == [screen[f] EXCEPT !.view = m, !.polling = p]
    <3>1. /\ screen' = [screen EXCEPT ![f] = s] /\ UNCHANGED <<flow, pay>>
      BY <1>2, <2>2 DEF Poll
    <3>2. s.on = screen[f].on /\ s.settled = screen[f].settled
      BY TypeParts DEF IInv, ScreenRec
    <3> HIDE DEF s
    <3>3. flow' = [flow EXCEPT ![f] = flow[f]] /\ screen \in [Flows -> ScreenRec]
      BY <3>1, TypeParts DEF IInv
    <3>4. \A h \in Flows : screen'[h].on = screen[h].on /\ screen'[h].settled = screen[h].settled
      BY <3>1, <3>2, <3>3
    <3>5. Mounted(f) /\ Spares(f, flow[f])
      BY <1>1, MountedSpares DEF HInv, Lit
    <3>6. Loud(f, flow[f])
      BY <3>1, <3>4, <3>5 DEF Loud, HInv, Lit, Heard, SuccessIsPaid, At, Batch, Mounted
    <3> QED BY <1>1, <3>1, <3>3, <3>4, <3>5, <3>6, MoveIsHeard
  <2> QED BY <2>1, <2>2
<1>3. CASE GiveUp(f)
  BY <1>1, <1>3, ResolvedIsHeard DEF GiveUp
<1>4. CASE AutoRenew(f)
  <2>1. Resolved(f, "renew")
    BY <1>4 DEF AutoRenew
  <2> QED BY <1>1, <2>1, ResolvedIsHeard
<1>5. CASE Renew(f)
  BY <1>1, <1>5, ResolvedIsHeard DEF Renew
<1> QED BY <1>2, <1>3, <1>4, <1>5

\* The answer finds its sheet on screen, where it is alone, or left behind: then
\* a batch is dropped and a single order becomes what may mute the tab.
LEMMA ReceiveIsHeard ==
  ASSUME IInv, HInv, NEW f \in Flows, Receive(f)
  PROVE  HInv'
<1> DEFINE ans == req[f].ans
           r0 == flow[f]
           t == Tab[f]
<1>1. /\ r0 \in FlowRec(made) /\ screen \in [Flows -> ScreenRec] /\ t \in Tabs
      /\ pay \in [Tabs -> Holder] /\ UNCHANGED order /\ ~NoScreen.on
      /\ At(f, "create") /\ (~Batch(f) /\ r0.gone => Stray(r0))
  BY ReqFacts, TabType, TypeParts DEF IInv, Receive, shop, NoScreen, Stray, At, Batch
<1>2. CASE r0.gone /\ Batch(f)
  <2> DEFINE r == Ending(r0, "closed")
  <2>1. /\ flow' = [flow EXCEPT ![f] = r] /\ screen' = [screen EXCEPT ![f] = NoScreen]
        /\ UNCHANGED pay
    BY <1>2 DEF Receive, EndWith
  <2>2. r.pc = "closed" /\ r.gone
    BY DEF Ending, NewFlow
  <2> HIDE DEF r
  <2>3. \A h \in Flows \ {f} : screen'[h] = screen[h]
    BY <1>1, <2>1
  <2>4. Loud(f, r) /\ Spares(f, r)
    BY <1>1, <1>2, <2>1, <2>2, <2>3 DEF Loud, Spares, Stray, Batch
  <2> QED BY <1>1, <2>1, <2>3, <2>4, MoveIsHeard
<1>3. ASSUME ~(r0.gone /\ Batch(f)), NEW r, r.gone = r0.gone, r.cart = r0.cart,
             r.pc \notin {"closed", "success"},
             flow' = [flow EXCEPT ![f] = r],
             r.pc = "pay" /\ ~r.gone /\ ~Batch(f) =>
               pay'[t] = f /\ screen'[f].on /\ ~screen'[f].settled,
             screen'[f].on => ~r.gone,
             \A h \in Flows \ {f} : screen'[h] = screen[h],
             \A u \in Tabs \ {t} : pay'[u] = pay[u]
      PROVE  HInv'
  <2>1. Loud(f, r)
    BY <1>3 DEF Loud, Mounted, Batch
  <2>2. Spares(f, r)
    <3>1. CASE Mounted(f)
      BY <3>1, MountedSpares
    <3>2. CASE ~Mounted(f)
      BY <1>3, <3>2 DEF Spares, Stray, Mounted, Batch
    <3> QED BY <3>1, <3>2
  <2> QED BY <1>1, <1>3, <2>1, <2>2, MoveIsHeard
<1>4. ASSUME ~(r0.gone /\ Batch(f)), EndWith(f, "already-paid")
      PROVE  HInv'
  <2> DEFINE r == Ending(r0, "already-paid")
  <2>1. /\ flow' = [flow EXCEPT ![f] = r] /\ screen' = [screen EXCEPT ![f] = NoScreen]
        /\ UNCHANGED pay
    BY <1>4 DEF EndWith
  <2>2. r.pc = "already-paid" /\ r.gone = r0.gone /\ r.cart = r0.cart
    BY <1>1 DEF Ending, FlowRec
  <2> HIDE DEF r, r0
  <2>3. ~screen'[f].on /\ \A h \in Flows \ {f} : screen'[h] = screen[h]
    BY <1>1, <2>1
  <2> QED BY <1>3, <1>4, <2>1, <2>2, <2>3
<1>5. ASSUME ~(r0.gone /\ Batch(f)), NEW r, r.pc = "prompt", r.gone = r0.gone, r.cart = r0.cart,
             ShowPrompt(f, r)
      PROVE  HInv'
  <2>1. /\ flow' = [flow EXCEPT ![f] = r] /\ screen' = [screen EXCEPT ![f] = NoScreen]
        /\ UNCHANGED pay
    BY <1>5 DEF ShowPrompt
  <2> HIDE DEF r0
  <2>2. ~screen'[f].on /\ \A h \in Flows \ {f} : screen'[h] = screen[h]
    BY <1>1, <2>1
  <2> QED BY <1>3, <1>5, <2>1, <2>2
<1>6. ASSUME ~(r0.gone /\ Batch(f)), ShowPay(f, ans.quote, ans.money)
      PROVE  HInv'
  <2> DEFINE r == [r0 EXCEPT !.pc = "pay", !.ask = "none", !.quote = ans.quote]
             s == IF r0.gone THEN NoScreen
                  ELSE [on |-> TRUE, settled |-> screen[f].on /\ screen[f].settled,
                        view |-> ans.money, polling |-> TRUE]
  <2>1. screen' = [screen EXCEPT ![f] = s] /\ pay' = [pay EXCEPT ![t] = f]
    BY <1>6 DEF ShowPay
  <2>2. flow' = [flow EXCEPT ![f] = r]
    BY <1>6 DEF ShowPay
  <2>3. r.pc = "pay" /\ r.gone = r0.gone /\ r.cart = r0.cart
    BY <1>1 DEF FlowRec
  <2>4. screen[f].on => Batch(f)
    BY <1>1, ReqFacts DEF Sheet, At
  <2>5. s.on <=> ~r0.gone
    BY <1>1
  <2>6. ~Batch(f) => ~s.settled
    BY <2>4 DEF NoScreen
  <2>7. screen'[f] = s /\ pay'[t] = f
        /\ (\A h \in Flows \ {f} : screen'[h] = screen[h]) /\ \A u \in Tabs \ {t} : pay'[u] = pay[u]
    BY <1>1, <2>1
  <2> HIDE DEF r, s, r0
  <2> QED BY <1>3, <1>6, <2>2, <2>3, <2>5, <2>6, <2>7
<1>7. \/ r0.gone /\ Batch(f)
      \/ /\ ~(r0.gone /\ Batch(f))
         /\ \/ EndWith(f, "already-paid")
            \/ \E r : r.pc = "prompt" /\ r.gone = r0.gone /\ r.cart = r0.cart /\ ShowPrompt(f, r)
            \/ ShowPay(f, ans.quote, ans.money)
  <2>1. \A kind : /\ Asking(r0, kind).pc = "prompt" /\ Asking(r0, kind).gone = r0.gone
                  /\ Asking(r0, kind).cart = r0.cart
    BY <1>1 DEF Asking, FlowRec
  <2> DEFINE l == [Asking(r0, "live") EXCEPT !.quote = ans.quote]
  <2>2. l.pc = "prompt" /\ l.gone = r0.gone /\ l.cart = r0.cart
    BY <1>1 DEF Asking, FlowRec
  <2> QED BY <2>1, <2>2 DEF Receive
<1> HIDE DEF ans, r0, t
<1> QED BY <1>2, <1>4, <1>5, <1>6, <1>7

LEMMA HeardHolds ==
  /\ IInv /\ Init => HInv
  /\ IInv /\ HInv /\ [Next]_vars => HInv'
<1>1. ASSUME Init PROVE HInv
  <2>1. \A f \in Flows : flow[f] = NewFlow /\ screen[f] = NoScreen
    BY <1>1 DEF Init
  <2>2. NewFlow.pc = "closed" /\ NewFlow.gone /\ ~NoScreen.on
    BY DEF NewFlow, NoScreen
  <2> QED BY <2>1, <2>2 DEF HInv, Solo, Lit, SuccessIsPaid, At, Mounted
<1>2. ASSUME IInv, HInv, [Next]_vars
      PROVE  HInv'
  <2>1. CASE UNCHANGED vars
    BY <1>2, <2>1, StillIsHeard DEF vars
  <2>2. CASE World
    BY <1>2, <2>2, ShopIsHeard
  <2>3. ASSUME NEW f \in Flows,
               \/ \E c \in Wanted : Open(f, c)
               \/ Start(f) \/ Close(f)
        PROVE  HInv'
    BY <1>2, <2>3, MountIsHeard
  <2>4. ASSUME NEW f \in Flows,
               \/ Ask(f) \/ Load(f) \/ Lookup(f) \/ Release(f)
               \/ Replay(f) \/ Mismatch(f) \/ Create(f) \/ Lose(f)
               \/ \E q \in 1..made : FindMoney(f, q) \/ Reuse(f, q) \/ TurnAway(f, q)
               \/ \E why \in MayRefuse : Refuse(f, why)
        PROVE  HInv'
    BY <1>2, <2>4, ShopIsHeard
  <2>5. ASSUME NEW f \in Flows, Receive(f)
        PROVE  HInv'
    BY <1>2, <2>5, ReceiveIsHeard
  <2>6. ASSUME NEW f \in Flows, NEW g \in Flows, NEW c \in Choice,
               \/ Again(f, g, c) \/ Insist(f, g, c) \/ TakeNew(f, g, c)
               \/ TakeExisting(f, g, c) \/ Redo(f, g, c) \/ Remove(f, g, c) \/ Stop(f, g, c)
        PROVE  HInv'
    BY <1>2, <2>6, PressIsHeard
  <2>7. ASSUME NEW f \in Flows, Poll(f) \/ GiveUp(f) \/ AutoRenew(f) \/ Renew(f)
        PROVE  HInv'
    BY <1>2, <2>7, ScreenIsHeard
  <2> QED BY <1>2, <2>1, <2>2, <2>3, <2>4, <2>5, <2>6, <2>7 DEF Next
<1> QED BY <1>1, <1>2

\* In every reachable state a run that is heard nowhere belongs to a sheet that was
\* closed while its order was being created (the unmount of CheckoutFlow.tsx), a
\* pay screen stands only where its sheet does, and success means paid.
THEOREM CheckoutIsHeard == Spec => []HInv
BY HeardHolds, CheckoutInvariant, PTL DEF Spec

\* However many sheets a tab opened and closed: the pay screen of a single order is
\* heard and can still report the payment, through every renewal, unless a run
\* that an earlier sheet left behind took its resolver (window.__payResolver and
\* the settled flag of PayScreen, CheckoutFlow.tsx).
THEOREM CheckoutScreensAnswer == Spec => []ScreensAnswer
<1>1. HInv => ScreensAnswer
  <2> SUFFICES ASSUME HInv, NEW f \in Flows, Mounted(f), At(f, "pay"), ~Batch(f), ~Heard(f)
               PROVE  \E g \in Flows : Tab[g] = Tab[f] /\ LeftBehind(g)
    BY DEF ScreensAnswer
  <2> QED BY DEF HInv, Lit, Muted, Stray, LeftBehind, Mounted, At
<1> QED BY <1>1, CheckoutIsHeard, PTL

\* A sheet on screen that shows success shows it for an order that is paid, though
\* the shop, the poll, the clock, the renewals and the runs left behind in its tab
\* move between the look and the screen.
THEOREM CheckoutSuccessIsPaid == Spec => []SuccessIsPaid
<1>1. HInv => SuccessIsPaid
  BY DEF HInv
<1> QED BY <1>1, CheckoutIsHeard, PTL

=============================================================================
