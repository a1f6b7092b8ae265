---------------------------- MODULE SupplierOrder ----------------------------
(***************************************************************************)
(* The supplier's order states and what the shop reads from them           *)
(* (cryptorefills/status.go).  An answer is the supplier's own record of   *)
(* one order: its state, explicit evidence of money, and its timestamp     *)
(* (0 when the supplier sends none).                                       *)
(***************************************************************************)
EXTENDS Naturals

SupplierStates == {"Waiting", "PaymentStarted", "PaymentReceived",
                   "WaitingForDelivery", "WaitingForManual", "Done", "Expired",
                   "PaymentFailed", "PaymentSetupFailed", "Refunded"}

QuoteStatuses == {"order_creating", "awaiting_payment", "payment_started",
                  "payment_received", "delivering", "fulfilled", "expired",
                  "failed", "manual_review", "refunded"}

\* Seeded fault: a delivery in progress is taken for a delivery.
MapDeliveryToFulfilled(state) ==
  [Waiting |-> "awaiting_payment", PaymentStarted |-> "payment_started",
   PaymentReceived |-> "payment_received",
   WaitingForDelivery |-> "fulfilled", WaitingForManual |-> "manual_review",
   Done |-> "fulfilled", Expired |-> "expired", PaymentFailed |-> "failed",
   PaymentSetupFailed |-> "failed", Refunded |-> "refunded"][state]

\* The supplier's several spellings of one state are one state here; Created
\* and WaitingForPayment, and the two PaymentStarted states, are read alike.
MapToQuoteStatus(state) ==
  [Waiting |-> "awaiting_payment", PaymentStarted |-> "payment_started",
   PaymentReceived |-> "payment_received",
   WaitingForDelivery |-> "delivering", WaitingForManual |-> "manual_review",
   Done |-> "fulfilled", Expired |-> "expired", PaymentFailed |-> "failed",
   PaymentSetupFailed |-> "failed", Refunded |-> "refunded"][state]

IsPaidOrBeyond(state) ==
  state \in {"PaymentStarted", "PaymentReceived", "WaitingForDelivery", "Done",
             "Refunded"}

IsTerminal(state) ==
  state \in {"Done", "Expired", "PaymentFailed", "PaymentSetupFailed",
             "Refunded"}

MoneyObserved(ans) == ans.money \/ IsPaidOrBeyond(ans.state)

-----------------------------------------------------------------------------
(* The quote's own states (db/quotes.go).                                   *)

Settled == {"fulfilled", "refunded"}

quoteTransitions(from) ==
  [absent |-> {},
   order_creating |-> {"awaiting_payment", "manual_review", "failed"},
   awaiting_payment |-> QuoteStatuses \ {"order_creating", "awaiting_payment"},
   payment_started |-> {"payment_received", "delivering", "fulfilled", "expired",
                        "failed", "manual_review", "refunded"},
   payment_received |-> {"delivering", "fulfilled", "failed", "manual_review",
                         "refunded"},
   delivering |-> {"fulfilled", "failed", "manual_review", "refunded"},
   expired |-> {"payment_started", "payment_received", "delivering", "fulfilled",
                "refunded", "manual_review", "failed"},
   failed |-> {"payment_started", "payment_received", "delivering", "fulfilled",
               "manual_review", "refunded"},
   manual_review |-> QuoteStatuses \ {"order_creating", "manual_review"},
   fulfilled |-> {"refunded"},
   refunded |-> {}][from]

-----------------------------------------------------------------------------
(* What the supplier may do with an order.  Money may arrive late, or show  *)
(* in the amounts before the state moves; it never disappears.              *)

Successors ==
  [Waiting |-> {"Waiting", "PaymentStarted", "PaymentReceived", "Expired",
                "PaymentFailed", "PaymentSetupFailed"},
   PaymentStarted |-> {"PaymentReceived", "Expired", "PaymentFailed",
                       "WaitingForManual"},
   PaymentReceived |-> {"WaitingForDelivery", "WaitingForManual", "Refunded"},
   WaitingForDelivery |-> {"Done", "WaitingForManual", "Refunded"},
   WaitingForManual |-> {"WaitingForDelivery", "Done", "Refunded"},
   Done |-> {"Refunded"},
   Expired |-> {"PaymentReceived", "Refunded"},
   PaymentFailed |-> {"Refunded"},
   PaymentSetupFailed |-> {},
   Refunded |-> {}]

\* Money is in the supplier's hands from the first sight of a payment.
Funds(from, to) ==
  \/ to \in {"PaymentStarted", "PaymentReceived"}
  \/ from = "Waiting" /\ to = "Waiting"

CanSucceed(order, to) ==
  /\ to \in Successors[order.state]
  /\ to = "Waiting" => ~order.money
  /\ to = "PaymentSetupFailed" => ~order.money
  /\ to = "Refunded" => order.money

=============================================================================
