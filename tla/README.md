# nimshop: a TLA+ verification project

nimshop sells gift cards, eSIMs and phone top-ups for NIM. A Go backend
(`src/backend`) keeps orders, cashback payouts, stake books and promotions in one
Badger store; a supplier (CryptoRefills) creates and fulfils the orders and is paid by
the buyer directly; the shop pays cashback from its own Nimiq wallet. A browser storefront
(`src/src`) keeps the keys under which it asks for orders and the records of payments the
shop has not acknowledged yet. This project models the parts of both that move money or
decide whether money may move, checks them with TLC on small instances, and proves the most
important invariants with TLAPS for every instance.

Paths below are relative to `src/backend/internal`, those of the storefront (`.ts`, `.tsx`) to
`src/src`, unless they start with `src/`.

- [1. Inventory](#1-inventory)
- [2. Modules](#2-modules)
- [3. Runs](#3-runs)
- [4. What the code does not do as it says](#4-what-the-code-does-not-do-as-it-says)
- [5. Proofs](#5-proofs)
- [6. What is left out](#6-what-is-left-out)
- [7. Plan](#7-plan)

## 1. Inventory

### The parts and what they keep

| Component | State it keeps | Operations | Hard part | What makes it correct |
|---|---|---|---|---|
| Quote store (`db/quotes.go`, `db/checkout_safety.go`) | one quote per purchase: status, supplier order id and status, money evidence, hold, invoice, stamps | create intent, claim dispatch, record order, attach invoice, hold, apply answer, sweep, cancel, resolve | six writers race: handler, tracker, webhook, page, operator, sweep | one supplier order per purchase; no outcome before the supplier's; money is never forgotten |
| Settlement tracker (`settlement/track.go`) | poll schedule, back-off, breaker | sweep, redeliver creations, poll, apply | an ambiguous creation, stale answers, a restart in the middle | a paid order is settled whatever happened |
| Checkout gate (`handlers/checkout_guard.go`, `handlers/quote_*.go`, `db/quote_index.go`, `db/limits.go`) | idempotency bindings, blocking index, limits | replay, block, renew, create, launch | two tabs, a retry, an index built while quotes change | one unresolved checkout per cart; limits are ceilings |
| Supplier client and queue (`cryptorefills/client.go`, `queue.go`) | request budgets, per-actor queues, cool-down, 3 s read cache | create, read, cancel, admit, throttle | a creation that times out after it was taken; starvation | only certain refusals fail a purchase |
| Cashback codes (`db/cashback_codes.go`) | counters of uses and budget, one reservation per quote | look up, reserve, commit, release, edit the rule | burst of checkouts, repeated and late ends | uses, accounts and budget are ceilings |
| Cashback rows (`db/cashback.go`) | one row per delivered order, one per top-up | enqueue, reconcile, patch by status | the worker and three reconcilers on one row | paid once, raised once, never lowered |
| Stake observations (`db/stakewatch.go`, `db/stake_recheck.go`, `poolstake`, `chainstake`) | watch per address, re-ask per delivery | observe, re-ask for an hour, expire | outages, lagging answers | no boost without a stake, no outage eats the window |
| Stake ledger (`stakeledger`, `db/stakeledger.go`) | boost book per address | accrue, debit, month end, reset | cumulative totals replayed and out of order | a fee is credited once, the book never negative |
| Payout worker (`cashback/worker`, `db/payout_recovery.go`, `nimiq/payout_recovery.go`) | the row it handles; rows' status, signed bytes, retired attempts | list, claim, sign, persist, broadcast, confirm, retire | crashes, lost replies, expiry, reverted blocks | an obligation is paid once and only finally |
| Quiz (`db/quiz*.go`) | competitions, attempts, prize rows, code grants | answer, finalize, grant, claim | finalization against one bad winner, last grants | each winner has one prize row |
| Ratings (`db/ratings.go`, `db/rating_watch.go`, `ratingwatch`, `handlers/ratings_handlers.go`) | memo reservations, chain cursor, inbox, used proofs, ratings | reserve, submit, scan, reconcile | page, watcher and restart at one payment; paging backwards while payments arrive | one payment, one rating; nothing skipped; a wanted payment wakes |
| Notifications (`notification`, `db/notif*.go`) | sent references, budgets | notify | check, broadcast, mark | a reference is sent once |
| Sessions and authentication (`auth`, `middleware`) | none beyond signed tokens | login, check | – | stateless |
| Admission, rate limits, memory guard (`httpx`, `middleware`, `memguard`, `memlimit`) | counters and buckets | admit, shed | limits at the boundary | a request is served or refused |
| Store substrate (`db/db.go` …) | Badger | Update with retries, View | conflicts | a transaction commits only if no key it read was written meanwhile |
| Chain client, signing, oracle (`nimiq`) | price cache | sign, read, broadcast | nodes that disagree | see Payout |
| Administration, test center, support, catalog, money, pages | settings, tickets, caches | operator actions, listings | – | operator writes to modelled state are modelled |
| Checkout sheet (`components/checkout/CheckoutFlow.tsx`, `lib/checkoutIntent.ts`, `lib/api.ts`, `lib/payment.ts`) | per cart a key in localStorage; per tab two resolvers on `window` and a renewal budget; per sheet where its run stands | ask for an order, prompt, pay, poll, renew | tabs that share keys, sheets that share globals, answers behind a closed sheet, an invoice that renews as it is paid | every screen is heard; success means paid; a second payable order only if acknowledged |
| Rating page (`components/rating/RatingFlow.tsx`, `lib/ratingPay.ts`, `lib/walletErrors.ts`) | a pending record per purchase in localStorage | rate, check, resume | wallet that redirects, times out or answers late; lost answers | no refusal or outage forgets a submitted payment |
| Payment submission queue, session (`lib/session.ts` …) | queued payment hashes, session and its expiry | submit, retry, sign in and out | several tabs and accounts | a hash is never lost |
| Storefront, the rest | carts, catalogue, settings, views | – | – | – |

`PROJECT.json` lists the same parts file by file, with the reason for each that is not
modelled.

### How they interact

The **checkout handler** writes an intent, claims its dispatch in a transaction, calls the
supplier, and stores what comes back in two more transactions (id, then invoice). The
**tracker** takes over intents whose handler is gone, polls the supplier for every quote
that may still change, and sweeps lapsed ones. **Webhooks, refreshes, wallet launches,
questions about a lapsed invoice, and an operator's sync or cancel** read the supplier and
apply the answer through the same `ApplySupplierOrder`. The transition of a quote, in its
own transaction, moves the **code reservation** and at delivery books the **cashback row**
(after a stake look-up made before the transaction) and the **re-ask**. **Reconcilers**
(deliveries, pages, the re-ask loop) list rows and raise each in a transaction of its own,
while the **payout worker** claims, signs and pays them. Everything durable is in the one
store; everything else is lost in a crash.

In the browser the **checkout sheet** draws a key per cart, keeps it in localStorage before it
asks, and asks the shop's **creation gate**, which replays the order of the key, hands back an
unresolved order of the same cart, turns the buyer away for one of another cart, or creates.
The sheet then prompts, or shows a pay screen that polls the order and renews it. The **rating
page** reserves a memo at the shop, hands it to the **wallet**, and asks the shop to save the
rating; the **rating watcher** reads the wallet's history on its own and may be first.

### What is hard here

Every supplier call, chain call and store transaction is a point where another actor may
run, the process may die, or the answer may be lost; almost no operation of the shop is one
transaction. The store is optimistic: a transaction reads at its snapshot and commits unless a
key it read was written meanwhile (`db/db.go:435` runs it again then). It tracks keys and has
no predicate locks (`db/quotes.go:189`), so a transaction that reads a range of keys does not
notice a key that appears in it. The limits of the gate read a lock key for that reason. Of the
modelled writers, `SaveRatingIntent` alone reads a range without one, and it is modelled in two
steps, the snapshot and the commit; every other transaction is one step. The hazards are
listed at their lines in `PROJECT.json` (`hazards`), each with the properties that catch
it or the reason why none does yet.

## 2. Modules

Six systems of modules, each with a concrete specification, an abstract promise where
there is one worth stating, and proofs in a module of their own.

| Module | What it is |
|---|---|
| `Payout` | payout rows, worker, chain seen through several RPCs |
| `PayoutObligation` | abstract: each obligation credited once, booked after |
| `PayoutProofs` | theorems about `Payout` |
| `SupplierOrder` | the supplier's states, their order, the local status table, the quote transitions; no variables |
| `QuoteLifecycle` | one purchase with all its writers |
| `PurchasePromise` | abstract: one order sent, each outcome booked once after the supplier's |
| `QuoteLifecycleProofs` | theorems about `QuoteLifecycle` |
| `CodeRedemption` | one code and the purchases that redeem it (uses `SupplierOrder` for the statuses) |
| `MCCodeRedemption` | symmetry of its run |
| `CodeRedemptionProofs` | theorems about `CodeRedemption` |
| `StakerCashback` | rows of one buyer, reconcilers, re-ask loop, coarse worker |
| `CashbackEntitlement` | abstract: booked once, raised at most once, never lowered |
| `MCStakerCashback` | the kinds of orders of its runs |
| `StakerCashbackProofs` | theorems about `StakerCashback` |
| `CheckoutFlow` | checkout sheets in browser tabs, the stored keys, the creation gate they meet |
| `MCCheckoutFlow` | the tabs and the carts of its runs |
| `CheckoutFlowProofs` | theorems about `CheckoutFlow` |
| `Rating` | the rating page, the wallet, the chain, the shop's books and its watcher |
| `MCRating` | symmetry of its run |
| `RatingProofs` | theorems about `Rating` |

A module keeps the names of the code; `PROJECT.json` `map` gives the lines behind each
definition. A definition whose comment says *Seeded fault* is not part of a specification:
it is the broken form of the definition after it, put in its place to see that a property
notices.

### Payout

`row` is the durable row (`status`, the start height of the signed transaction, the hash
shown, the retired attempts), `age` the rank of `UpdatedAt` that decides which rows a list
returns, `recent` the claims younger than two minutes. `pc`, `phase`, `todo`, `cur`, `tx`,
`found` are the worker's stack; `Crash` clears them and may bring the process back with or
without a wallet (`wallet`, `Worker.Ready`). The chain is `height`, `macro` (the last final
block), `pushed` (bytes that reached the network) and `ledger` (receipts). A transaction
is its row and start height, because signing is deterministic in both.

- `StartTick`, `ListSendable`, `EndTick`: one pass; first the broadcast rows are
  confirmed, then those to send are listed and handled one by one (`ConfirmPaid`, `ConfirmRetry`,
  `SendSigned`, `SendUnsigned`, …).
- `SignAndPersist`, `SignFails`, `Lookup`, `MarkPaidAfterLookup`, `Prove`, `Push`,
  `PushAccepted`, `PushRefused`: the steps of `sendOne`, each ending in at most one
  store transaction. `Push` may deliver the bytes and lose the reply.
- `NewBlock`, `Include`, `Finalize`, `Reorg`: the chain. A micro block can be reverted, a
  macro block cannot; a node's view is any height up to the head.

An RPC answer and the store transaction after it are one step; an answer used late is
the answer of a node that lags, which `Views` allows.

### SupplierOrder, QuoteLifecycle

`quote` is the durable record, `clock` its window (`open`, `lapsed`, `aged` after 72 h),
`order` the supplier's own record, `posts` the creations that left the shop, `actor` what
each actor holds: the checkout request of quote `q` is the actor `q`, there is one
tracker, and `Observers` are the requests that read an answer and apply it later. An
answer may be held for any time, so answers of all ages meet.

- `CreateIntent`, `ClaimDispatch`, `CallSupplier`, `MarkSupplierFailure`,
  `RecordSupplierOrder`, `AttachQuotePayment`, `AttachFails`, `Hold`: the creation, in
  the order of `finishSupplierCreation`, with the failure class of the call
  (`CreateOutcomeAmbiguous`) deciding between failed, and still in creation.
- `SweepRead`, `SweepWrite`, `ResolveCreating`, `Poll`, `MarkUnknown`, `Review`: the
  tracker. The sweep decides on one read and writes on another.
- `Observe`, `AskLapsed`, `Launch`, `LaunchDecide`, `CancelRead`, `Cancel`, `Resolve`:
  webhook and refresh, question about a lapsed invoice, wallet launch, operator.
- `Apply` is `ApplySupplierOrderNotify`: the 404 marker is cleared and the answer applied
  unless it is stale; both writes are one step.
- `SupplierMoves` moves the supplier's order along `Successors`; `TimePasses`; `Crash`
  loses what the actors hold.

`NoCallFor` in `ResolveCreating` stands for the grace period: `config.go:1036` keeps
`StaleAfter` at 25 s or more and a supplier call ends after 20 s, so the tracker never takes
over while the handler's call is in flight. Requests (`Requests`) choose which observers a
run has.

### CodeRedemption

`policy` is the operator's rule now, `checkout[q].limits` the rule as the request saw it,
`counter` and `use` the accounting of the code and of each account, `res` the reservation
of each quote, `row` the cashback the delivery books. `LookUp` reads, `ReserveCodeRedemption`
enforces again inside the quote's transaction, `TransitionQuote` moves the quote along the
table of `SupplierOrder` and its reservation with it (commit at delivery, release at an
unpaid end, nothing the second time), `ChangePolicy` edits the rule, `End` ends the
promotion.

The 32 shards of the counter are one counter: a quote always uses its own shard and reads
sum all. `LookUp` is optional in every behaviour, so a removed rule adds nothing; a store
error at look-up skips a check that the reservation repeats.

### StakerCashback

`row` has for each order its row and its top-up (and room for a second top-up, which only
a fault uses). Callers (`Ask`, `Deliver`) deliver an order or show a rate; `Look` is a
page that only observes; `Recheck` is one record of the re-ask pass, `PassDeadline` its
hour, `ClearStakeRecheck` its end. All run the same reconcile: `ListStatus` reads one
status at a time (five reads, in the order of the code, at most `ListCap` rows), `PatchRow`
raises one listed row in a transaction that looks at the row again. `Claim`, `FailSend`,
`Sign`, `Send`, `MarkPaid`, `Retire` are what `Payout` does to a row's status and amount.
Answers of the pool may be wrong as a lagging copy is: "not staked" at any time, "staked"
once the buyer has staked, with the pool's base or, from the chain, without one; or no
answer, then the stored observation stands in. `Abort` is a failing store.

Orders differ by `Kinds`: bought with a code, a test order, a recipient that can be paid.

### CheckoutFlow

`order`, `made`, `bound` are the shop's: orders with their cart, money, invoice (none yet or on
hold, open, over) and the acknowledgement they were created under, and the index from keys to orders. `intent` is
localStorage (cart → key and order) and `drawn` the keys drawn. Per sheet, `flow` is the run of
`runFlow` with its refs, `req` the `createCheckout` it waits for, `screen` the mounted
`PayScreen`. Per tab, `pay` and `prompt` are `window.__payResolver` and `__promptResolver` with
the sheet they belong to, `budget` the renewals left, `blocking` the order that was in the way.

- `Open`, `Start`, `Close`: a sheet is mounted, starts, and is closed; the close clears both
  resolvers of the tab, whoever they belong to, and a creation goes on behind it.
- `Ask`, `Load`, `Lookup`, `Release`: `createCheckout` up to the request, one step per `await`
  and per lock. A sheet of the same tab and cart joins a request under way.
- `Replay`, `Mismatch`, `Reuse`, `TurnAway`, `FindMoney`, `Create`, `Refuse`, `Lose`: what the shop
  answers, or that the answer never comes. The pre-check and the gate are one step: the gate reads
  and writes one lock key per buyer and repeats what the pre-check decided. `Mismatch` is the key
  that was asked for with other details; the details are not in the model, so it may always answer.
- `Receive`: the answer comes back into `runFlow`, which stores the order, and shows a prompt, a
  pay screen or an end, mounted or not.
- `Again`, `Insist`, `TakeNew`, `TakeExisting`, `Redo`, `Remove`, `Stop`: a button of the sheet
  `f` resolves whoever holds the resolver, the sheet `g`.
- `Poll`, `GiveUp`, `AutoRenew`, `Renew`: the pay screen, which resolves at most once per mount. The
  renewal button shows with an empty budget, and with any budget for an order that has no invoice
  to pay although its window is not over.
- `Send`, `Observe`, `Bill`: payment, tracker, and the invoice, which comes, is held while nobody has
  paid, comes again, and ends. Money that was `sent` is in nobody's view until the tracker, or a
  question about a lapsed invoice, has `seen` it.

### Rating

`page`, `runs`, `rec`, `scope`, `open`, `asks` are the tab: the open page, the executions the
pages of the tab have started (they outlive their page), the pending records, the purchase
whose record was last touched, and the requests the wallet still shows. `txs`, `chain`, `seen`
are payments, mined payments, and what had been delivered then. `intent`, `rating`, `proved` are
the books, `inbox`, `resting`, `filed`, `scan`, `watch` the watcher's: the inbox, the entries that wait
for their next attempt, the match keys (never deleted), the position in the history, and the running
tick with the reservation it read. `delivered`, `commentsOn`, `switches` are the operator's and the
world's, `call` the request the shop is working on: a `SaveRatingIntent` between its snapshot and
its commit (what it saw, and whether a key it read was written since), or a payment between the
chain's answer and the books.

- `Visit`, `Leave`, `Unload`, `Expire`, `Rate`, `Check`: the page and its record.
- `Intent`, `IntentFails`, `WalletPays`, `WalletDenies`, `WalletUnknown`, `WalletFails`,
  `WalletRedirects`, `LateAnswer`: the reservation and each way a wallet call ends, with what
  it does to the record; a request nobody waits for may still be paid.
- `Persist`, `Retry`: the reservation commits, waking the payments it saw, or starts over because a
  key it read was written (`Writes` marks that in every other transaction that writes such keys).
- `Submit`, `SubmitKnown`, `AskFails`, `AskEnds`, `Record`: `awaitRatingSaved` and the shop's
  handler. Prepare and reserve come before the chain is asked and `ApplyRating` after; the books
  may move in between.
- `ScanPage`, `Tick`, `Look`, `Unconfirmed`, `NodeFails`, `Match`, `Settle`, `SettleCut`, `Wake`: the
  watcher. A page and its position are one transaction. An entry takes three steps, with the node's
  answer between the first two: whether its payment is used (`Look`), which reservation it meets
  (`Match`), and what becomes of it (`Settle`, each case one transaction). A node that has not seen
  the block puts the entry off, one that fails ends the tick. `SettleCut` is the restart between the
  saved rating and the filed entry.
- `Mine`, `Deliver`, `Switch`, `Restart`: the world.

## 3. Runs

| Run | Configuration | Asks | Bounds | States |
|---|---|---|---|---|
| `payout_two` | `Payout_two.cfg` | nobody credited twice, paid is final, retired is dead, wire on record, signatures only retired, `PayoutObligation` implemented | a cashback and a prize, window 1, chain of 3 blocks, batches of 1, wallet comes and goes | 2.5 M |
| `payout_live` | `Payout_live.cfg` | every payout is paid once things are well; simulated ones never on the wire | a real and a simulated cashback, batches of 1 | 94 k |
| `quote_one` | `QuoteLifecycle_one.cfg` | one order, no false rejection, real outcomes, `PurchasePromise` implemented | one quote, tracker, one observer that observes, resolves or cancels; 404s; the late window closes | 1.8 M |
| `quote_pay` | `QuoteLifecycle_pay.cfg` | no invoice with money evidence is payable again; older answers change nothing | one quote, launches and lapsed questions, stamps up to 2 | 1.1 M |
| `quote_live` | `QuoteLifecycle_live.cfg` | paid orders settle, creations are resolved | the tracker alone, fairness | 39 k |
| `code_slots` | `CodeRedemption_slots.cfg` | counters are exact, limits are ceilings, slots follow quotes | 3 quotes, 2 accounts, limits 1 and 2, one per account, budget 2, symmetry on quotes and accounts | 211 k |
| `code_budget` (violated) | `CodeRedemption_budget.cfg` | a comment about the budget | 2 quotes, budget 1 | – |
| `rows` | `StakerCashback_rows.cfg` | no free boost, wire matches record, queued is payable, `CashbackEntitlement` implemented | one order of each kind, a caller, the re-ask loop, the worker | 328 k |
| `checkout` | `CheckoutFlow_sheet.cfg` | screens are heard, success is paid, keys lead to their cart, a second order is acknowledged | one sheet in its own tab, opened again and again for carts {p1} and {p1, p2}, 2 orders, 2 keys, 1 renewal, refusals `blocked` and `email` | 3.1 M |
| `checkout_renew` (violated) | `CheckoutFlow_renew.cfg` | a comment about the renewal of a batch | one sheet, one batch | – |
| `rating` | `Rating_pages.cfg` | each rating paid once, only phantoms sleep, no refusal drops a submitted review | 2 purchases, 1 memo (`rated`), 2 runs in the tab, 1 payment, 2 wallet requests, restarts without a bound, ticks of 1, symmetry | 2.5 M |
| `rating_live` | `Rating_live.cfg` | history is indexed, every mined payment is settled | 1 purchase, 2 memos (one with a comment), 2 payments, comments switched once, pages and ticks of 1, fairness | 569 k |

**Why the bounds are enough.** In `Payout` the rows meet only in the lists, the worker's
hands and the blocks; two rows are the least for which a batch of one leaves somebody out,
and three blocks the least in which a transaction of window 1 is signed, expires, is
retired, replaced and the replacement finalized. The two stores differ in how a list is
put together, hence a cashback and a prize. In `QuoteLifecycle` quotes meet only in the
gate, and `CreateIntent` is where one waits for another; an interleaving needs the handler,
the tracker and one reader that holds an older answer, which is what `quote_one` has; two
stamps are the least that tell an older from a newer answer. `code_slots` has three quotes
because a limit of two is overshot by a third. `rows` has one order because rows of
different orders share nothing but a listing, and its three actors are the least for which
a listing is acted on after both another reconcile and the worker; a second caller only
multiplies states, and the theorems hold for any number. Every counter that would grow is
bounded in a guard by a named constant (`MaxHeight`, `MaxStamp`, `ListCap`, `MaxOrders`,
`MaxKeys`, `MaxTxs`, `MaxAsks`, `MaxSwitches`; the set `Runs` bounds the runs of a tab); `posts` is bounded by the property
itself. In `checkout` the sheet meets its own past: a second order, a second key and a cart that
shrinks by `Remove` are the least for which stored keys, late money and renewals meet; the refusals
`limit` and `refused` take the ways of `email` and `blocked` and are left to the theorems, as are
more sheets, tabs and products. With two sheets in one tab (`Flows = {f1, f2}`, single orders, one key, no
refusals) the four properties hold by hand over 1.3 million states. In `rating` two
purchases want one memo, so a payment made for one may be claimed by the other, and two runs are the
least of which one may end for a purchase while another waits for a payment; one payment is enough to
be filed between a snapshot and its commit. With one run and two payments the same properties hold by
hand over 3.4 million states. In `rating_live` pages of one entry make every scan of two payments a scan
of several ticks, and ticks of one entry leave the other waiting. The limit of five ratings of the
code is the constant `MaxRatings`, one in `rating_live`, where the second payment is refused for it.
One rating request of the buyer is in the shop at a time: two would
meet in `SaveRatingIntent` as two writers of one intent key, of which the store lets one commit.

**Deadlock.** Payout, codes and rows never stop and are checked for it, as is `quote_one`.
The other quote runs say `CHECK_DEADLOCK FALSE`: without an observer that may cancel or
without the closing window a settled purchase has nothing more to do. So do the checkout and
rating runs: a buyer whose orders are delivered, or whose payments are settled, may leave for good.

**Fairness.** `payout_live`: weak fairness of the worker's step (the loop in `worker.go` ticks
as long as the process lives), of blocks, inclusion and finality (the chain makes progress
and includes what is valid), of a claim growing old (time passes), and of `Settle`, after
which the process stays up and the RPCs answer. Liveness is not promised without that
assumption and the code cannot: an RPC that is down for ever pays nobody. `quote_live`: weak fairness of the tracker's step (`Run` guards each tick against panics
and ticks for ever), of what a live request has begun, of the supplier ending what it
was paid for, and of `Settle`. No fairness is assumed of webhooks, pages or operators, so
what `quote_live` shows the tracker does alone. `rating_live`: weak fairness of the watcher's step
(a tick every 30 s), weak fairness of an entry's rest coming to an end, strong fairness of a
tick that begins with the entry at hand (an entry that failed rests five minutes, ten ticks, so
those behind it get theirs), and that trouble ends: from some time on the shop stays up and a mined
payment is confirmed by whichever node answers, without an error. The last is needed: a node that
fails for one entry at every tick ends each tick there (`ratingwatch/worker.go:153`) and starves
the entries behind it. None of the page: what `rating_live` shows the watcher does alone.

**Mutants.** Each property of a passing run has one definition of the model whose broken form
makes TLC refute it: a claim that is never taken over, expiry judged from the head instead of
a final block, bytes dropped on a failed send, a creation taken for refused when it timed
out, an answer applied without looking at its stamp, a slot released twice, a budget that
forgets open orders, an outage taken for a stake, a renewal that keeps its screen, money on its
way shown as payment, a payment not marked as used, a payment filed without a second look at its
reservation, a head that moves with the first page, a refusal that drops a paid review, and so on.

## 4. What the code does not do as it says

### Refuted by a run

1. **A code's budget is not used up by deliveries** (`code_budget`, `db/quotes.go:452`). The
   redemption is committed before the row exists whose amount it should record, so each delivery
   frees what was held and adds nothing. `db/cashback_codes.go:517` states the opposite order.
2. **A batch that renewed never notices that it is paid** (`checkout_renew`,
   `components/checkout/CheckoutFlow.tsx:613`). The phase stays `batch-pay`, so the pay screen is
   not mounted anew and its settled flag (`:1090`) stays set; `finish` (`:1095`) ignores what the
   poll reports of the new invoice, a payment included. `:614` says that the batch is created again
   and lands "back on a payable screen".

### Refuted with other constants

These properties are in the modules, and TLC refutes them when they are given as the one
property of a configuration with the constants named here.

3. **Late money that shows only in amounts is dropped** (`MoneyKeepsBlocking` in `QuoteLifecycle`,
   `db/checkout_safety.go:511`; `Spec`, one quote, one observer, `Requests = {"lapsed"}`,
   `MaxStamp = 0`, `MayDeny` and `WindowCloses` true, `CalmsDown` false). An answer that still waits
   for payment but shows an amount received maps to `awaiting_payment`. If the quote has expired by
   then the transition is refused and the evidence of the answer goes with it; the quote does not
   block and the same cart can be bought again. `handlers/checkout_guard.go:197` says the quote keeps
   blocking.
4. **A 404 is never healed by the tracker** (`KeyFixHeals` in `QuoteLifecycle`,
   `db/checkout_safety.go:223`; `FairSpec`, one quote, no observers, `MaxStamp = 0`, `MayDeny` and
   `CalmsDown` true, `WindowCloses` false). The marker that a 404 sets stops polling, and only a
   successful read clears it. `settlement/paid_notify.go:48` says that a key fix heals an order on
   its own.
5. **A test order can pay real money** (`TestStaysSimulated` in `StakerCashback`, `db/cashback.go:487`;
   the constants of `StakerCashback_rows.cfg` with the kind `TestKind`). The top-up of a test row is
   built without `TestMode`.
6. **The re-ask may end without raising** (`ResolvedIsRaised` in `StakerCashback`,
   `db/stake_recheck.go:148`; the same with `PlainKind`). The worker moves a row between the scans of
   the listing, or between listing and patch; the reconcile passes over it without an error and the
   record is cleared.
7. **A payment can sleep under a reserved memo** (`UnmatchedIsUnwanted` in `Rating`,
   `db/rating_watch.go:73`; the constants of `Rating_pages.cfg`). `SaveRatingIntent` reads the reservation
   and then the match keys under its memo, a range, without a lock key. `SaveRatingChainInbox` looks
   the reservation up (`:191`), finds none, writes a new match key and commits; nothing that the first
   transaction read has changed, so it commits too, the memo is reserved and the payment stays
   `unmatched`. A later request of the same purchase finds its own reservation and returns (`:59`)
   before the wake-up. `:71` says that a payment that came earlier is woken. The page still finds the
   payment while it asks itself; a buyer who left is not credited by the watcher.
   `OnlyPhantomsSleep`, checked and proved, says that this is the only way: whatever was filed before
   the snapshot is woken or makes the transaction run again.
8. **A paid review is dropped by another run of the tab** (`SubmittedIsKept` and `OtherReviewsAreKept` in
   `Rating`, `lib/ratingPay.ts:95`; the constants of `Rating_pages.cfg`). While the wallet shows the
   request for A, the buyer rates B; A's payment returns and marks A's record as the last one touched;
   B's request for a reservation is refused and `clearPendingRating()` drops the record last touched,
   A's. With both runs for one purchase, the second run's refused reservation drops the record that the
   first one marked. `lib/ratingPay.ts:178` says that an unsaved review must not be discarded.
   `RefusalsKeep`, checked with two runs and proved for any number, says which ends may drop a record:
   that of a run whose rating is saved, and that of a run whose reservation failed.

### Met while modelling

Behaviour that surprised, without a property of its own.

- *Payout.* Without a wallet, twenty real rows that wait keep a simulated row out of the batch for
  ever (`cashback/worker/worker.go:61` against `:157`: rows passed over are not written and stay at
  the head of the list), which is why `payout_live` has a wallet.
- *Quotes.* A linked quote whose hold failed in creation stays `order_creating` if the supplier
  refuses every read of it from then on (`settlement/track.go:457`, `db/quotes.go:884`), which is why
  `quote_live` has no 404s. A quote in `manual_review` with no money seen counts as settled, so its
  key is free (`db/checkout_safety.go:177`).
- *Codes.* Money that arrives after an expired quote gave its slot to another delivers an order
  above the limit (`db/quotes.go:455`). A limit on accounts switched on in the middle counts only
  later orders (`db/cashback_codes.go:497`).
- *Stake.* Every zero observation refreshes `LastSeenAt`, so the grace of 48 hours runs from the
  last zero (`db/stakewatch.go:82`). The month-end cut is applied lazily, and a writer with a clock
  behind can apply it after another has begun the new month (`stakeledger/ledger.go:83`).
- *Checkout.* Two sheets in one tab share the resolvers. The run of a sheet that was closed during its
  creation goes on, and when its answer comes it takes the resolver of the prompt or the pay screen
  that is open by then: a button of the one sheet is answered to the other's run, and a payment
  reported on the one screen ends the run left behind, while the screen that was paid stays. It is
  what `ScreensAnswer` allows and all that it allows; the success shown on a screen is that of its own
  order in every case (`SuccessIsPaid`). An automatic renewal acknowledges a second order although the
  buyer chose nothing (`CheckoutFlow.tsx:618`), and `SecondOrderIsAcknowledged` counts it as
  acknowledgement. `db/quotes.go:131` says that a live duplicate of the same cart is surfaced
  even when acknowledged; `:231` surfaces it only when not. The renewal button of an order that is
  being created or on hold (`CheckoutFlow.tsx:1182`) acknowledges as well and opens an order beside
  it; when the first gets its invoice both can be paid. The
  acknowledgement is sticky for the life of the sheet, the order remembered as being in the way may be
  an old one, and `saveIntentQuote` writes over another tab's newer key. A single purchase that is
  paid empties the cart of the other products too (`CheckoutFlow.tsx:816`).
- *Rating page.* A record expires after 15 minutes while the wallet is still open; marking it is then
  a no-op, and the page says "check status" but its button opens a new payment (`RatingFlow.tsx:193`,
  `lib/ratingPay.ts:88`). After an abandoned redirect, or a second payment, the buyer stays locked on
  "check status" (`RatingFlow.tsx:127`). A host's timeout counts as a failed wallet
  (`lib/walletErrors.ts:27`), which clears the record and allows a second payment while the first may
  still be made.
- *Rating watcher.* "Older payments are applied before newer revisions" (`ratingwatch/worker.go:72`)
  is not so when the older one rests. "Never attach an unrelated historical payment" (`:195`) is kept
  by the watcher, while the page's `findRatingTx` has no such check. An entry that fails ends the
  tick with all behind it (`:74`). A payment made for A proves B's rating if A's reservation was
  given back and B reserved the same memo.

## 5. Proofs

Every theorem is stated for the whole specification and for every value of the constants
under the named assumptions, and checked to the last leaf.

| Module | Assumptions | Inductive invariant | Theorems |
|---|---|---|---|
| `PayoutProofs` | finite rows, a positive batch, markers apart | types, and per row what its status says of its bytes, and of the chain what a final or expired transaction can still do | `PayoutTypeOK`, `PayoutWireIsOnRecord`, `PayoutRetiredIsDead`, `PayoutPaidIsFinal`, `PayoutAtMostOneCredit`, `PayoutTestStaysOffChain`, `PayoutSignatureOnlyRetired`, `PayoutImplementsObligation` |
| `QuoteLifecycleProofs` | actors apart, markers apart | `TypeOK /\ Agreement /\ Hands /\ OneCaller`; with it `InvoiceOK`, `OfferOK` and `OneHolder` | `QuoteTypeOK`, `QuoteDispatchedOnce`, `QuoteRejectedNeverOrdered`, `QuoteOutcomesAreReal`, `QuoteNewerAnswersStay`, `QuoteNeverPayableAgain`, `QuoteImplementsPromise` |
| `CodeRedemptionProofs` | finite quotes, naturals | types, the exact counts, and `EverySetWithin`; with it `HeldIsReserved /\ EverySetAffordable` | `RedemptionTypeOK`, `RedemptionSlotsAreCounted`, `RedemptionSlotsFollowQuotes`, `RedemptionUsesWithinLimit`, `RedemptionPerUserWithinLimit`, `RedemptionHeldIsReserved`, `RedemptionOpenWithinBudget` |
| `StakerCashbackProofs` | positive prices, natural rates, markers apart | `TypeOK /\ Honest /\ RowInv /\ ListingsHold` | `StakerTypeOK`, `StakerNoFreeBoost`, `StakerWireMatchesRecord`, `StakerQueuedIsPayable`, `StakerImplementsEntitlement` |
| `CheckoutFlowProofs` | finite products, refusals known, `NoFlow` no sheet | `TypeOK /\ Sheets /\ Resolvers /\ Keyed /\ Gate`; with it `Solo /\ Lit /\ SuccessIsPaid` | `CheckoutTypeOK`, `CheckoutSecondOrderIsAcknowledged`, `CheckoutKeysLeadToTheirCart`, `CheckoutScreensAnswer`, `CheckoutSuccessIsPaid` |
| `RatingProofs` | markers apart, positive limits | `TypeOK /\ HereOK /\ AskedOK /\ RatingsArePaid /\ Indexed` | `RatingTypeOK`, `RatingRatingsArePaid`, `RatingOnlyPhantomsSleep`, `RatingHistoryIsIndexed`, `RatingRefusalsKeep` |

Why the strengthenings are needed:

- **Payout.** That two attempts cannot both be credited is not inductive: it needs that an
  attempt was retired only when its last valid block was final without it (`RetiredIsDead`), that
  bytes on the wire are on record (`WireIsOnRecord`), and that what the worker's stack says of
  the row it handles is still so when it acts, although only the worker signs and retires.
  The refinement maps a row to "owed, credited, closed"; the step that closes it is an abstract
  step only because its receipt is the final one of the bytes on record, and every other write of a
  row is shown lawful (`Lawful`) once and for all, which also gives `PayoutSignatureOnlyRetired`.
- **Quotes.** `Agreement` relates each quote to the supplier's order (an id only for an
  order, an outcome only after the supplier's), `Hands` says the same of every answer an
  actor still holds, whatever its age, because answers only ever describe a past of an
  order that moves forward, and that whoever is about to send a creation finds none sent;
  `OneCaller` says that no two actors are about to send the same one. That a purchase with
  evidence of money is not payable again fails in one way only: an answer that shows money but carries
  no evidence flag, under an invoice attached later. `InvoiceOK` and `OfferOK` exclude it for the quote
  and for the hand that is about to attach one (a state beyond payment has left its evidence), and
  `OneHolder` says that before the quote knows its order only one actor holds an answer for it.
- **Codes.** A limit is enforced against the rule as a request saw it, and the rule may be
  lowered meanwhile, so "the slots are within the limit of one of them" is not inductive
  when that one is released. `EverySetWithin` states it for every set of slots and is. The
  theorem on accounts assumes that every rule limits accounts (`0 \notin UserLimits`): an
  account is only counted while the rule does. `EverySetAffordable` is the same for the budget.
  The amounts are a sum over a set, computed by recursion; `TotalIsUnits` shows it to be the size
  of the set of single units (a least set on which two solutions of the recursion differ cannot
  exist), and adding, removing and comparing are then facts about finite sets.
- **Rows.** `ListingsHold`: a listed amount is the row's amount until somebody reconciles
  it, and the patch checks exactly that. `Honest`: every positive answer held or stored
  goes back to a stake. `RowInv`: an order has a top-up only once it is marked as
  reconciled, never a second one, and only a row that is on its way out or paid has signed
  bytes, which is why a row that is raised in place has none.
- **Checkout.** That a key leads to its cart needs the same of every request under way and of every
  answer held (`Keyed`). That a later order was acknowledged is not inductive, because an order that is
  held has no invoice and may get one back: `Gate` says that every order before an unacknowledged one is
  over for good, delivered or with its window closed, which is what the creation gate saw. `Sheets` and
  `Resolvers` say which sheet a resolver may belong to; `Solo` that a tab shows one sheet at a time; `Lit`
  that the screen on which a payment is awaited is mounted, not settled, and holds the resolver unless
  a run left behind is there to take it. None of them assumes anything of the number of sheets of a tab.
- **Rating.** That nothing at or below the head is missing says nothing of a scan half done;
  `Indexed` adds that the pages read so far, from the target down to the cursor, are in the inbox,
  and a scan that ends joins the two. `HereOK` says whose page is open, `AskedOK` that the request in
  the shop is for the purchase and the memo of the run that waits for it: a saved rating that ends a
  run is then the one that run asked for, which `RatingRefusalsKeep` is about. `RatingOnlyPhantomsSleep`
  goes through every step that reserves a memo, files an entry or commits after a conflict, and is left
  with the commit of a reservation and a payment that was not among those it saw.

**Only proved.** The type invariants of `Payout`, `StakerCashback`, `CheckoutFlow` and `Rating` are theorems and
no run repeats them; those of the other two modules are both.

**Only model-checked.** Liveness (`EventuallyPaid`, `MoneyIsSettled`, `CreationIsResolved`,
`PaymentsAreSettled`): it needs fairness, and the prover has neither ENABLED nor the weak and strong
fairness rules. Every safety and action property of a passing run, and every refinement, is a theorem.
The two properties that a run refutes are of course not.

## 6. What is left out

- **Payout**: amounts, fees and balances; how the answers of several RPCs are compared (a
  read is the answer of some node within the accepted skew, an expiry proof needs one final
  view, which is what agreement of all archival RPCs gives); a second worker, which
  `tickMu` and the single process exclude.
- **Quotes**: the poll schedule, back-off and breaker (a poll may be late at will); the
  supplier-cancel marker; the sent amount; mails and memos; simulated orders; a stored
  request that no longer parses; the 3 s cache of reads (answers may be held for ever); the
  bound on attempts, which a claim already keeps at one; the client's second request under its backup
  key, which follows a 401 or 403 that created nothing (`cryptorefills/client.go:580`) and is one call
  with the first.
- **Codes**: the rule table and its parsing, the cap on the order value, quiz codes; money that
  comes after a release delivers an order without a redemption; a limit on accounts switched
  on in the middle of a promotion counts only later orders.
- **Rows**: the ledger boost and its debit, rounding to whole Luna, memos, manual rows, public
  totals; the staker base is constant while the operator's base may change; the recipient of an
  order is known or not from the beginning.
- **Integers** do not overflow in the modelled parts: amounts are 64-bit Luna below the
  coin's supply and counters count orders.
- **Checkout**: delivery details, prices, rounding and the cashback code of a cart; a failed batch's
  list of items; the limits of the gate and its start-up build of the blocking index
  (`db/quote_index.go:350`: a batch is read in one transaction and written in another); the question
  to the supplier inside the request is one step with the answer; the page's own clock agrees with
  the shop's; an order under review, which never blocks another (`db/checkout_safety.go:93`) and pays
  no invoice.
- **Rating**: failed executions and histories rewritten by a fork, more than one request at a time in
  the shop's handler, the copy of the record in sessionStorage (one tab), the aggregate, the comments
  shown and hidden, reminders. An entry that the node vouched for once is asked about again at each try,
  which the code spares. The page's own checks for an unchanged rating or a used-up limit read a copy
  that may be old, so the model does not rely on them. A reservation that is given back and made anew
  for the same purchase between `Match` and `Settle` counts as the same.
- **Submission queue and session of the browser**: read, not modelled. An entry posted under
  another account's cookie is answered 404 and blocks until the page is loaded again; a cookie that
  was renewed under an old local expiry signs out early; a late bootstrap answer can undo a
  sign-out; a lost logout signs the next load in again (`lib/session.ts:199`).
- **Listings, notifications, quiz**: the listing cap of 50, the check-broadcast-mark of
  `notification/notifier.go`, the cursor of the supplier's queue.
- Parts without behaviour over time (formatting, parsing, signatures, views, catalogue, some 27
  thousand lines of translations, scripts and end-to-end tests) are not modelled; `PROJECT.json` gives the reason for each.

The shop's money logic is in Go and most of what is modelled is, too; a count of mapped lines that
looks at TypeScript and JavaScript alone sees only the checkout sheet and the rating page, next to
views, translations, scripts and end-to-end tests that have no behaviour to model.

## 7. Plan

In order of what could cost money if it were wrong.

1. *Done*: payout worker, purchase, codes, rows, checkout sheet with the creation gate, ratings with
   their watcher. Their invariants are proved.
2. **QuoteIndex**: the start-up build of the blocking index and the limits behind the gate, composed
   with `QuoteLifecycle` through `BlocksNewPurchase`. Abstract: `OneCheckout`, at most one unresolved
   purchase per cart and key.
3. **StakeLedger**: cumulative profits per month that repeat and come out of order, stake
   changes, month end, the debit inside the delivery; in units instead of floats. With the
   clock of `stakewatch.go` in units of its grace. Abstract: each unit of profit credited at
   most once.
4. **SupplierQueue**: the dispatcher, per-actor queues with the cursor, budgets, cool-down,
   cancellation and close. Properties: every admitted call is answered once; an actor with a
   live head and a free budget is served; the window is never exceeded.
5. **Submissions**: the browser's queue of payment hashes with the sessions of several tabs.
6. **NotifyOnce**, **QuizAward**: two small ones around the modelled rows.
7. **Compositions**: a delivery with its code, its row and its ledger in one transaction
   (`CodeRedemption`, `StakerCashback`, `StakeLedger` over one `TransitionQuote`); the coarse
   worker of `StakerCashback` as an abstraction of `Payout`; the shop of `CheckoutFlow` as an
   abstraction of `QuoteLifecycle`.
8. **Proofs**: the safety side of the modelled parts is done. What would gain most are the compositions
   of 7, whose abstractions should be stated so that the theorems of the parts carry over.
