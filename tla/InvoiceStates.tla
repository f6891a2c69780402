---------------------------- MODULE InvoiceStates ----------------------------
(***************************************************************************)
(* The invoice state machine as a table: which action leads where from     *)
(* which states (apps/backend/src/invoices/invoice-state-machine.ts), which *)
(* states tell the merchant (invoices.service.ts), and how a provider's    *)
(* status picks the next action (webhooks.service.ts for the pushed status,*)
(* detection-sweeper.processor.ts for the polled one).                     *)
(***************************************************************************)

States ==
  {"DRAFT", "AWAITING_PAYMENT", "RECEIVED", "CONVERTING", "COMPLIANCE_HOLD",
   "PAYOUT_SENT", "PAID_CONFIRMED", "UNDERPAID", "OVERPAID", "FAILED",
   "REFUNDED", "EXPIRED", "COOLDOWN"}

\* No action / no event: the null of the source.
None == "none"

(***************************************************************************)
(* TRANSITIONS: action |-> [from |-> legal states, to |-> next state].     *)
(***************************************************************************)
Transitions ==
  [issue           |-> [from |-> {"DRAFT"}, to |-> "AWAITING_PAYMENT"],
   depositDetected |-> [from |-> {"AWAITING_PAYMENT"}, to |-> "RECEIVED"],
   startConversion |-> [from |-> {"RECEIVED", "COMPLIANCE_HOLD"}, to |-> "CONVERTING"],
   complianceHold  |-> [from |-> {"RECEIVED", "CONVERTING"}, to |-> "COMPLIANCE_HOLD"],
   depositReorged  |-> [from |-> {"RECEIVED"}, to |-> "AWAITING_PAYMENT"],
   payoutSent      |-> [from |-> {"CONVERTING", "RECEIVED"}, to |-> "PAYOUT_SENT"],
   confirm         |-> [from |-> {"PAYOUT_SENT", "RECEIVED"}, to |-> "PAID_CONFIRMED"],
   underpaid       |-> [from |-> {"AWAITING_PAYMENT", "RECEIVED"}, to |-> "UNDERPAID"],
   overpaid        |-> [from |-> {"RECEIVED"}, to |-> "OVERPAID"],
   fail            |-> [from |-> {"AWAITING_PAYMENT", "RECEIVED", "CONVERTING", "PAYOUT_SENT"},
                        to   |-> "FAILED"],
   refund          |-> [from |-> {"FAILED", "UNDERPAID", "COMPLIANCE_HOLD"}, to |-> "REFUNDED"],
   expire          |-> [from |-> {"AWAITING_PAYMENT"}, to |-> "EXPIRED"],
   cooldown        |-> [from |-> {"EXPIRED"}, to |-> "COOLDOWN"]]

Actions == DOMAIN Transitions

\* isTerminalState
TerminalStates == {"PAID_CONFIRMED", "REFUNDED", "EXPIRED", "COOLDOWN"}

\* What transition() accepts of the state it has read: the terminal check of
\* invoices.service.ts, then the guard of applyTransition.
Accepts(s, a) == s \notin TerminalStates /\ s \in Transitions[a].from

\* The state applyTransition returns when it does not throw.
Target(a) == Transitions[a].to

\* STATE_WEBHOOK_EVENTS: the states whose entry writes an outbox row, and the
\* type of that row.
WebhookEvents ==
  [PAID_CONFIRMED  |-> "invoice.paid",
   FAILED          |-> "invoice.failed",
   EXPIRED         |-> "invoice.expired",
   UNDERPAID       |-> "invoice.underpaid",
   REFUNDED        |-> "invoice.refunded",
   COMPLIANCE_HOLD |-> "invoice.compliance_hold"]

Notifies(s) == s \in DOMAIN WebhookEvents

-----------------------------------------------------------------------------
(***************************************************************************)
(* The statuses a swap provider reports for one exchange.                  *)
(***************************************************************************)
ProviderStatuses ==
  {"waiting", "confirming", "exchanging", "verifying", "sending", "finished",
   "failed", "refunded"}

\* providerStatusAction: the action a pushed status asks for in state s.
ProviderStatusAction(s, status) ==
  CASE status = "confirming" /\ s = "AWAITING_PAYMENT"               -> "depositDetected"
    [] status = "exchanging" /\ s \in {"RECEIVED", "COMPLIANCE_HOLD"} -> "startConversion"
    [] status = "verifying"  /\ s \in {"RECEIVED", "CONVERTING"}      -> "complianceHold"
    [] status = "sending"    /\ s \in {"RECEIVED", "CONVERTING"}      -> "payoutSent"
    [] status = "finished"   /\ s \in {"PAYOUT_SENT", "RECEIVED"}     -> "confirm"
    [] status = "failed"                                              -> "fail"
    [] status = "refunded"   /\ s \in {"FAILED", "UNDERPAID", "COMPLIANCE_HOLD"} -> "refund"
    [] OTHER                                                          -> None

\* Mutant of RailStatus: a payout under way counts as settled.
RailStatusEarly(status) ==
  CASE status = "confirming"              -> "Received"
    [] status = "exchanging"              -> "Converting"
    [] status \in {"sending", "finished"} -> "Settled"
    [] OTHER                              -> "Awaiting"

\* mapStatus (swap-provider.rail.ts): a status the map does not list, such as
\* "verifying", is reported as Awaiting.
RailStatus(status) ==
  CASE status = "confirming" -> "Received"
    [] status = "exchanging" -> "Converting"
    [] status = "sending"    -> "PayoutSent"
    [] status = "finished"   -> "Settled"
    [] status = "failed"     -> "Failed"
    [] status = "refunded"   -> "Refunded"
    [] OTHER                 -> "Awaiting"

\* Mutant of DivergedAction: a first poll that already says Converting is missed.
DivergedSkipsConverting(s, railStatus) ==
  CASE s = "AWAITING_PAYMENT" /\ railStatus = "Received"             -> "depositDetected"
    [] s = "RECEIVED" /\ railStatus = "Converting"                  -> "startConversion"
    [] s \in {"RECEIVED", "CONVERTING"} /\ railStatus = "PayoutSent" -> "payoutSent"
    [] s = "PAYOUT_SENT" /\ railStatus = "Settled"                  -> "confirm"
    [] OTHER                                                        -> None

\* divergedAction: the action with which the sweeper catches up from state s.
DivergedAction(s, railStatus) ==
  CASE s = "AWAITING_PAYMENT" /\ railStatus \in {"Received", "Converting"} -> "depositDetected"
    [] s = "RECEIVED" /\ railStatus = "Converting"                        -> "startConversion"
    [] s \in {"RECEIVED", "CONVERTING"} /\ railStatus = "PayoutSent"       -> "payoutSent"
    [] s = "PAYOUT_SENT" /\ railStatus = "Settled"                        -> "confirm"
    [] OTHER                                                              -> None

\* The states in which the sweeper polls an invoice at all.
SweptStates == {"AWAITING_PAYMENT", "RECEIVED", "CONVERTING", "PAYOUT_SENT"}
=============================================================================
