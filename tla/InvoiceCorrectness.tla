------------------------- MODULE InvoiceCorrectness -------------------------
(***************************************************************************)
(* The properties of InvoiceLifecycle: type invariant, safety, the         *)
(* implementation of InvoicePromise, fairness and liveness.                *)
(***************************************************************************)
EXTENDS InvoiceLifecycle

Maybe(S) == S \cup {None}

LogEntry == [action : Actions, from : States, to : States]

Pcs == {"idle", "rail", "read", "commit", "schedule", "match", "record", "credit",
        "event", "advance", "poll"}

HandlerRecord ==
  [pc : Pcs, act : Maybe(Actions), read : Maybe(States), tx : Maybe(Txs),
   exchange : Maybe(Exchanges), status : Maybe(ProviderStatuses)]

\* Types of all variables: the columns of the rows the handlers share and the
\* locals of each handler.
TypeOK ==
  /\ state \in States
  /\ rail \in RailTypes \cup {"PENDING"}
  /\ railRef \in Maybe(Exchanges)
  /\ log \in Seq(LogEntry)
  /\ outbox \in Seq({WebhookEvents[s] : s \in DOMAIN WebhookEvents})
  /\ reserved \in {"no", "live", "dead"}
  /\ deposits \subseteq Txs /\ unmatched \subseteq Txs
  /\ mirror \in [Exchanges -> Maybe(ProviderStatuses)]
  /\ provEvents \subseteq Exchanges \X ProviderStatuses
  /\ expiry \in {"none", "waiting", "active", "done"}
  /\ handler \in [Workers -> HandlerRecord]
  /\ faults \in Nat
  /\ mined \subseteq Txs /\ answered \subseteq Txs
  /\ provider \in [Exchanges -> Maybe(ProviderStatuses)]
  /\ posted \subseteq Exchanges \X ProviderStatuses
  /\ phase \in {"open", "grace", "over"}

-----------------------------------------------------------------------------
\* The states in which the payer's money has been seen.
FundedStates == {"RECEIVED", "CONVERTING", "COMPLIANCE_HOLD", "PAYOUT_SENT", "PAID_CONFIRMED"}

\* However the handlers interleave, no state that presupposes the payer's
\* money is entered before a depositDetected transition has committed
\* (transition() acts on a row it read earlier, so this is not the guard of
\* applyTransition alone).
DepositBeforeProgress ==
  \A i \in 1..Len(log) :
    log[i].to \in FundedStates =>
      \E j \in 1..i : log[j].action = "depositDetected"

\* An exchange of this invoice has been through the status.
Reported(s) == \E e \in Exchanges : <<e, s>> \in posted

\* The status event has been recorded in the payment timeline.
RecordedStatus(s) == \E e \in Exchanges : <<e, s>> \in provEvents

\* What must be true of the world for a handler to ask for an action.
Cause(a) ==
  /\ a = "depositDetected" =>
       deposits # {} \/ Reported("confirming") \/ Reported("exchanging")
  /\ a = "startConversion" => Reported("exchanging")
  /\ a = "payoutSent" => Reported("sending")
  /\ a = "confirm" => Reported("finished")
  /\ a = "complianceHold" => RecordedStatus("verifying")
  /\ a = "fail" => RecordedStatus("failed")
  /\ a = "refund" => RecordedStatus("refunded")

\* Every transition the handlers commit has its cause in the world: a deposit
\* that was recorded or that a provider confirmed, a settlement step the
\* provider has really reached -- and for the steps only a webhook can cause,
\* the webhook is in the timeline before the transition is.
TransitionsHaveCause == \A i \in 1..Len(log) : Cause(log[i].action)

\* A Tatum webhook is answered 200 only when its transfer is on record, as a
\* deposit event or as an UnmatchedPayment (processTatumWebhook): crashes,
\* errors and redeliveries never drop it silently.
DepositsAccounted == answered \subseteq deposits \cup unmatched

-----------------------------------------------------------------------------
Promise == INSTANCE InvoicePromise

\* Under every interleaving and every failure, invoice row, audit trail and
\* outbox move together, along an edge that leaves a state the invoice has been
\* in: no event without its state, no notification without its event.  (The
\* state may have been left long ago: see TerminalStatesRest, NotifiedIffChanged.)
KeepsPromise == Promise!KeptSpec

\* What a handler holds between two of its database calls: the transition it
\* is about to commit is legal from a state the invoice has been in and has its
\* cause, the status it works on was posted (and, once it looks at the invoice,
\* recorded), and its deposit is on record unless that is its next step.
Holds(h) ==
  /\ h.pc \in {"match", "record"} => h.tx # None
  /\ h.tx # None => h.pc \in {"match", "record"} \/ h.tx \in deposits
  /\ h.pc = "credit" => h.tx # None
  /\ h.pc = "rail" => h.act = "issue"
  /\ h.pc \in {"read", "commit"} => h.act # None /\ Cause(h.act)
  /\ h.pc \in {"commit", "poll"} => h.read \in Promise!Visited
  /\ h.pc = "commit" => Accepts(h.read, h.act)
  /\ h.pc \in {"event", "advance"} => <<h.exchange, h.status>> \in posted
  /\ h.pc = "advance" => <<h.exchange, h.status>> \in provEvents
  /\ h.pc = "poll" => h.exchange # None

\* What makes the safety properties inductive: the row never leaves the logged
\* history, no handler holds more than Holds allows, and whatever status a
\* provider has, it has posted.
Grounded ==
  /\ state \in Promise!Visited
  /\ \A w \in Workers : Holds(handler[w])
  /\ \A e \in Exchanges : provider[e] \notin {None, "waiting"} => <<e, provider[e]>> \in posted

\* A settled invoice stays settled: no handler moves it out of a state that
\* isTerminalState lists.
TerminalStatesRest == [][state \notin TerminalStates]_state

\* The merchant is notified only of a change: "a merchant webhook fires iff the
\* state actually changed", every transition being idempotent.
NotifiedIffChanged == [][outbox' # outbox => state' # state]_vars

\* A deposit that is on record is credited, or a handler is still on its way
\* to credit it: an invoice with a recorded deposit does not sit in
\* AWAITING_PAYMENT with nobody working on it.
RecordedDepositCredited ==
  deposits # {} /\ state = "AWAITING_PAYMENT" =>
    \E w \in Workers : handler[w].tx \in deposits

\* While no process dies and no call fails, that is so under every interleaving.
CalmDepositCredited == faults = 0 => RecordedDepositCredited

\* A deposit that is on record in time while nobody works on it, and whose
\* redelivery has been answered 200 so that it will not be sent again, is
\* credited in the end: somebody makes up for what was interrupted.
AbandonedDepositCredited ==
  \A t \in Txs :
    (/\ t \in deposits \cap answered
     /\ state = "AWAITING_PAYMENT" /\ phase = "open"
     /\ \A w \in Workers : handler[w].tx # t)
      ~> \E i \in 1..Len(log) : log[i].action = "depositDetected"

-----------------------------------------------------------------------------
\* RateLockExpiryProcessor takes every error for "already resolved": an invoice
\* no longer awaits payment once the job is complete.
SkippedIsResolved == expiry = "done" => state # "AWAITING_PAYMENT"

\* While no process dies and no call fails, that is so under every interleaving.
ExpirySkipsOnlyResolved == faults = 0 /\ expiry = "done" => state # "AWAITING_PAYMENT"

-----------------------------------------------------------------------------
(***************************************************************************)
(* Fairness.  A handler that has started goes on (dying is a Crash); a     *)
(* request or job that is due gets a worker whenever one is repeatedly     *)
(* free: the event loop accepts every request, and BullMQ runs due jobs.   *)
(* The sweeper is a repeatable job, the expiry job a delayed one, and time *)
(* passes.  Nobody has to open the checkout or pay, no webhook has to      *)
(* arrive and the provider need not move.  Only ResentFairSpec, for a run  *)
(* that is violated even so, has Tatum send every event until it is        *)
(* answered.                                                               *)
(***************************************************************************)
Continue(w) ==
  \/ Transition(w)
  \/ CreateDirect(w) \/ CreateSwap(w) \/ NoProvider(w) \/ ScheduleExpiry(w)
  \/ MatchDeposit(w) \/ RecordDeposit(w) \/ CreditDeposit(w)
  \/ RecordStatus(w) \/ ChooseAction(w)
  \/ SweepPoll(w)

HandlersFinish == \A w \in Workers : WF_vars(Continue(w))

DirectFairSpec ==
  Spec /\ HandlersFinish /\ SF_vars(\E w \in Workers : StartExpiry(w)) /\ WF_vars(TimePasses)

SweepFairSpec ==
  Spec /\ HandlersFinish /\ SF_vars(\E w \in Workers : SweepSelect(w))

\* The expiry job, the sweeper and time together.
AllJobsFairSpec == DirectFairSpec /\ SF_vars(\E w \in Workers : SweepSelect(w))

ResentFairSpec ==
  AllJobsFairSpec
    /\ \A t \in Txs : SF_vars(t \notin answered /\ \E w \in Workers : ReceiveDeposit(w, t))

\* Every transfer that is mined while the invoice awaits payment ends on record,
\* as a deposit of the invoice or as an UnmatchedPayment, be its webhook lost:
\* the jobs of the backend make up for it.
DepositsGetRecorded ==
  \A t \in Txs :
    (t \in mined /\ state = "AWAITING_PAYMENT") ~> t \in deposits \cup unmatched

\* An invoice does not await payment for ever: a deposit or the expiry job
\* ends the wait (a crash or an error may lose the job).
WaitEnds == state = "AWAITING_PAYMENT" ~> state # "AWAITING_PAYMENT" \/ faults > 0

PolledStatus == IF railRef = None THEN None ELSE provider[railRef]

\* The provider statuses that are one step ahead of an open invoice.
Ahead ==
  [AWAITING_PAYMENT |-> {"confirming", "exchanging"},
   RECEIVED         |-> {"exchanging", "sending"},
   CONVERTING       |-> {"sending"},
   PAYOUT_SENT      |-> {"finished"}]

\* The sweeper's part of "a lost webhook delays a payment by a minute": while
\* the provider is one step ahead of the invoice, polling alone moves the
\* invoice (unless its window closes or the provider moves on meanwhile).
SweeperAdvances ==
  \A s \in SweptStates : \A p \in Ahead[s] :
    (state = s /\ PolledStatus = p)
      ~> (state # s \/ PolledStatus # p \/ phase = "over")

\* The provider statuses that are more than one step ahead of an open invoice.
FarAhead ==
  [AWAITING_PAYMENT |-> {"sending", "finished"}, RECEIVED |-> {"finished"},
   CONVERTING       |-> {"finished"}]

\* "A lost webhook delays a payment by a minute instead of losing it": so it does
\* when more than one webhook was lost.
SweeperCatchesUp ==
  \A s \in DOMAIN FarAhead : \A p \in FarAhead[s] :
    (state = s /\ PolledStatus = p)
      ~> (state # s \/ PolledStatus # p \/ phase = "over")
=============================================================================
