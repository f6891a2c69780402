-------------------------- MODULE InvoiceLifecycle --------------------------
(***************************************************************************)
(* One invoice and every handler that may move it, running concurrently:   *)
(* the checkout request that issues it, Tatum deposit webhooks, provider   *)
(* status webhooks, the detection sweeper and the rate-lock expiry job.    *)
(*                                                                         *)
(* Every process of the backend runs the HTTP handlers and the workers, so *)
(* handlers interleave at every await.  The unit of interleaving here is   *)
(* one database (or provider) call.  InvoicesService.transition reads the  *)
(* row (ReadState) and later writes it, the event and the outbox row in    *)
(* one transaction (CommitTransition) whose UPDATE names only the id: what *)
(* it decided on is the state it READ.                                     *)
(***************************************************************************)
EXTENDS InvoiceStates, Sequences, Naturals

CONSTANTS
  Workers,    \* concurrently running handlers (requests and jobs)
  Txs,        \* on-chain transfers that pay this invoice directly
  Exchanges,  \* exchanges a provider may create for this invoice
  Reports,    \* statuses the provider of this instance goes through
  Rails,      \* the rails RailRouter may select for this invoice
  MaxEvents,  \* bound: state events logged
  MaxFaults   \* bound: crashes, database errors and polls nobody answers

RailTypes == {"DIRECT_TRANSFER", "SWAP_PROVIDER"}

ASSUME RailsAssumption == Rails \subseteq RailTypes
ASSUME ReportsAssumption == Reports \subseteq ProviderStatuses
ASSUME BoundsAssumption == MaxEvents \in Nat /\ MaxFaults \in Nat
\* The null of the source is no transaction and no exchange.
ASSUME NoneAssumption == None \notin Txs /\ None \notin Exchanges

VARIABLES
  state,       \* Invoice.state
  rail,        \* Invoice.rail
  railRef,     \* Invoice.railRef: the exchange the sweeper polls
  log,         \* PaymentEvent rows of type state.*, in commit order
  outbox,      \* OutboxEvent rows of the invoice, in commit order
  reserved,    \* the AmountReservation row: "no", "live", or "dead" when it was
               \* made after expiresAt, and so never matches (invoiceId is unique)
  deposits,    \* transactions with a PaymentEvent row of the deposit leg
  unmatched,   \* transactions with an UnmatchedPayment row
  mirror,      \* ProviderTransaction.status by exchange, None: no row
  provEvents,  \* PaymentEvent rows of type provider.*
  expiry,      \* the rate-lock-expiry job of the invoice
  handler,     \* what each worker is doing
  faults,      \* crashes, database errors and unanswered polls so far
  mined,       \* environment: transactions mined
  answered,    \* environment: transactions whose webhook got its 200
  provider,    \* environment: the provider's own status by exchange
  posted,      \* environment: statuses an exchange has been through
  phase        \* environment: the invoice's time window

dbVars == <<state, rail, railRef, log, outbox, reserved, deposits, unmatched,
            mirror, provEvents>>
envVars == <<mined, provider, posted, phase>>
vars == <<dbVars, envVars, expiry, handler, faults, answered>>

\* A worker that runs no handler.
Idle == [pc |-> "idle", act |-> None, read |-> None, tx |-> None,
         exchange |-> None, status |-> None]

Init ==
  /\ state = "DRAFT" /\ rail = "PENDING" /\ railRef = None
  /\ log = <<>> /\ outbox = <<>>
  /\ reserved = "no" /\ deposits = {} /\ unmatched = {}
  /\ mirror = [e \in Exchanges |-> None] /\ provEvents = {}
  /\ expiry = "none" /\ handler = [w \in Workers |-> Idle] /\ faults = 0
  /\ mined = {} /\ answered = {} /\ posted = {} /\ phase = "open"
  /\ provider = [e \in Exchanges |-> None]

-----------------------------------------------------------------------------
(***************************************************************************)
(* How a handler moves on and how it ends.                                 *)
(***************************************************************************)
GoTo(w, h) == handler' = [handler EXCEPT ![w] = h]

\* The handler returns: a Tatum webhook is answered 200 and not sent again, a
\* job is complete.
Return(w) ==
  /\ GoTo(w, Idle)
  /\ answered' = answered \cup ({handler[w].tx} \ {None})
  /\ expiry' = IF handler[w].act = "expire" THEN "done" ELSE expiry

\* Mutant of Throw: the controller answers 200 although the handler failed.
ThrowAnswered(w) == Return(w)

\* The handler throws: a webhook is answered 500 and will be sent again; the
\* expiry job swallows the error and completes.
Throw(w) ==
  /\ GoTo(w, Idle)
  /\ expiry' = IF handler[w].act = "expire" THEN "done" ELSE expiry
  /\ UNCHANGED answered

-----------------------------------------------------------------------------
(***************************************************************************)
(* InvoicesService.transition                                              *)
(***************************************************************************)

\* Mutant of ReadState: the guards are dropped.
ReadStateUnchecked(w) ==
  /\ handler[w].pc = "read"
  /\ GoTo(w, [handler[w] EXCEPT !.pc = "commit", !.read = state])
  /\ UNCHANGED <<answered, expiry, dbVars, envVars, faults>>

\* findOrThrow, the terminal check and applyTransition.
ReadState(w) ==
  /\ handler[w].pc = "read"
  /\ IF Accepts(state, handler[w].act)
     THEN /\ GoTo(w, [handler[w] EXCEPT !.pc = "commit", !.read = state])
          /\ UNCHANGED <<answered, expiry>>
     ELSE Throw(w)
  /\ UNCHANGED <<dbVars, envVars, faults>>

\* Mutant of CommitTransition: the outbox row is chosen by the previous state.
CommitNotifiesPrevious(w) ==
  LET h == handler[w]
      to == Target(h.act)
  IN
  /\ h.pc = "commit"
  /\ Len(log) < MaxEvents
  /\ state' = to
  /\ log' = Append(log, [action |-> h.act, from |-> h.read, to |-> to])
  /\ outbox' = IF Notifies(h.read) THEN Append(outbox, WebhookEvents[h.read]) ELSE outbox
  /\ IF h.act = "issue"
     THEN /\ rail' = IF h.exchange = None THEN "DIRECT_TRANSFER" ELSE "SWAP_PROVIDER"
          /\ railRef' = IF h.exchange = None THEN railRef ELSE h.exchange
          /\ GoTo(w, [h EXCEPT !.pc = "schedule", !.read = None])
          /\ UNCHANGED <<answered, expiry>>
     ELSE Return(w) /\ UNCHANGED <<rail, railRef>>
  /\ UNCHANGED <<reserved, deposits, unmatched, mirror, provEvents, envVars, faults>>

\* Mutant of CommitTransition: the outbox row is written whatever the state is.
CommitAlwaysNotifies(w) ==
  LET h == handler[w]
      to == Target(h.act)
  IN
  /\ h.pc = "commit"
  /\ Len(log) < MaxEvents
  /\ state' = to
  /\ log' = Append(log, [action |-> h.act, from |-> h.read, to |-> to])
  /\ outbox' = Append(outbox, IF Notifies(to) THEN WebhookEvents[to] ELSE None)
  /\ IF h.act = "issue"
     THEN /\ rail' = IF h.exchange = None THEN "DIRECT_TRANSFER" ELSE "SWAP_PROVIDER"
          /\ railRef' = IF h.exchange = None THEN railRef ELSE h.exchange
          /\ GoTo(w, [h EXCEPT !.pc = "schedule", !.read = None])
          /\ UNCHANGED <<answered, expiry>>
     ELSE Return(w) /\ UNCHANGED <<rail, railRef>>
  /\ UNCHANGED <<reserved, deposits, unmatched, mirror, provEvents, envVars, faults>>

\* The transaction: invoice row, state event, outbox row.  An issue then goes
\* on to schedule the expiry job; every other caller returns.
CommitTransition(w) ==
  LET h == handler[w]
      to == Target(h.act)
  IN
  /\ h.pc = "commit"
  /\ Len(log) < MaxEvents
  /\ state' = to
  /\ log' = Append(log, [action |-> h.act, from |-> h.read, to |-> to])
  /\ outbox' = IF Notifies(to) THEN Append(outbox, WebhookEvents[to]) ELSE outbox
  /\ IF h.act = "issue"
     THEN /\ rail' = IF h.exchange = None THEN "DIRECT_TRANSFER" ELSE "SWAP_PROVIDER"
          /\ railRef' = IF h.exchange = None THEN railRef ELSE h.exchange
          /\ GoTo(w, [h EXCEPT !.pc = "schedule", !.read = None])
          /\ UNCHANGED <<answered, expiry>>
     ELSE Return(w) /\ UNCHANGED <<rail, railRef>>
  /\ UNCHANGED <<reserved, deposits, unmatched, mirror, provEvents, envVars, faults>>

-----------------------------------------------------------------------------
(***************************************************************************)
(* CheckoutService.issueInvoice: read DRAFT, createPayment on the selected *)
(* rail, transition "issue", schedule the expiry job.                      *)
(***************************************************************************)
OpenCheckout(w) ==
  /\ handler[w] = Idle
  /\ state = "DRAFT"
  /\ GoTo(w, [Idle EXCEPT !.pc = "rail", !.act = "issue"])
  /\ UNCHANGED <<dbVars, envVars, expiry, faults, answered>>

\* DirectTransferRail.createPayment: the reservation is unique per invoice, so
\* a second one throws.
CreateDirect(w) ==
  /\ handler[w].pc = "rail"
  /\ "DIRECT_TRANSFER" \in Rails
  /\ IF reserved # "no"
     THEN Throw(w) /\ UNCHANGED reserved
     ELSE /\ reserved' = IF phase = "open" THEN "live" ELSE "dead"
          /\ GoTo(w, [handler[w] EXCEPT !.pc = "read"])
          /\ UNCHANGED <<answered, expiry>>
  /\ UNCHANGED <<state, rail, railRef, log, outbox, deposits, unmatched, mirror,
                 provEvents, envVars, faults>>

\* SwapProviderRail.createPayment: a fresh exchange and its mirror row.  When
\* the row cannot be inserted and no other provider takes over, the exchange
\* is used without one.
CreateSwap(w) ==
  /\ handler[w].pc = "rail"
  /\ "SWAP_PROVIDER" \in Rails
  /\ \E e \in Exchanges, row \in {"waiting", None} :
       /\ provider[e] = None
       /\ provider' = [provider EXCEPT ![e] = "waiting"]
       /\ mirror' = [mirror EXCEPT ![e] = row]
       /\ GoTo(w, [handler[w] EXCEPT !.pc = "read", !.exchange = e])
  /\ UNCHANGED <<state, rail, railRef, log, outbox, reserved, deposits, unmatched,
                 provEvents, mined, posted, phase, expiry, faults, answered>>

\* Every provider refused or was out of reach: createPayment throws.
NoProvider(w) ==
  /\ handler[w].pc = "rail"
  /\ "SWAP_PROVIDER" \in Rails
  /\ Throw(w)
  /\ UNCHANGED <<dbVars, envVars, faults>>

\* Mutant of ScheduleExpiry: the job is never added.
ScheduleForgotten(w) ==
  /\ handler[w].pc = "schedule"
  /\ GoTo(w, Idle)
  /\ UNCHANGED <<dbVars, envVars, expiry, faults, answered>>

\* scheduleRateLockExpiry: BullMQ ignores an add whose jobId exists.
ScheduleExpiry(w) ==
  /\ handler[w].pc = "schedule"
  /\ expiry' = IF expiry = "none" THEN "waiting" ELSE expiry
  /\ GoTo(w, Idle)
  /\ UNCHANGED <<dbVars, envVars, faults, answered>>

-----------------------------------------------------------------------------
(***************************************************************************)
(* RateLockExpiryProcessor: the delayed job runs once expiresAt has passed.*)
(***************************************************************************)

\* Mutant of StartExpiry: the job counts as complete when it is picked up.
StartExpiryDone(w) ==
  /\ handler[w] = Idle
  /\ expiry = "waiting"
  /\ phase # "open"
  /\ expiry' = "done"
  /\ GoTo(w, [Idle EXCEPT !.pc = "read", !.act = "expire"])
  /\ UNCHANGED <<dbVars, envVars, faults, answered>>

StartExpiry(w) ==
  /\ handler[w] = Idle
  /\ expiry = "waiting"
  /\ phase # "open"
  /\ expiry' = "active"
  /\ GoTo(w, [Idle EXCEPT !.pc = "read", !.act = "expire"])
  /\ UNCHANGED <<dbVars, envVars, faults, answered>>

-----------------------------------------------------------------------------
(***************************************************************************)
(* WebhooksService.processTatumWebhook, for a transfer of this invoice.    *)
(***************************************************************************)

\* Delivery of a mined event, any number of times: a transaction that already
\* has a deposit event is ignored with a 200.
ReceiveDeposit(w, t) ==
  /\ handler[w] = Idle
  /\ t \in mined
  /\ IF t \in deposits
     THEN answered' = answered \cup {t} /\ UNCHANGED handler
     ELSE GoTo(w, [Idle EXCEPT !.pc = "match", !.tx = t]) /\ UNCHANGED answered
  /\ UNCHANGED <<dbVars, envVars, expiry, faults>>

\* matchDeposit finds the reservation until its cooldown is over; a deposit
\* that matches nothing is captured as an UnmatchedPayment.
MatchDeposit(w) ==
  /\ handler[w].pc = "match"
  /\ IF reserved = "live" /\ phase # "over"
     THEN /\ GoTo(w, [handler[w] EXCEPT !.pc = "record"])
          /\ UNCHANGED <<unmatched, answered, expiry>>
     ELSE unmatched' = unmatched \cup {handler[w].tx} /\ Return(w)
  /\ UNCHANGED <<state, rail, railRef, log, outbox, reserved, deposits, mirror,
                 provEvents, envVars, faults>>

\* recordEvent: from here on a redelivery is a duplicate.
RecordDeposit(w) ==
  /\ handler[w].pc = "record"
  /\ deposits' = deposits \cup {handler[w].tx}
  /\ GoTo(w, [handler[w] EXCEPT !.pc = "credit"])
  /\ UNCHANGED <<state, rail, railRef, log, outbox, reserved, unmatched, mirror,
                 provEvents, envVars, expiry, faults, answered>>

\* Mutant of CreditDeposit: the event is recorded and nothing else happens.
CreditForgotten(w) ==
  /\ handler[w].pc = "credit"
  /\ Return(w)
  /\ UNCHANGED <<dbVars, envVars, faults>>

\* The invoice is read again and credited if it still awaits payment.
CreditDeposit(w) ==
  /\ handler[w].pc = "credit"
  /\ IF state = "AWAITING_PAYMENT"
     THEN /\ GoTo(w, [handler[w] EXCEPT !.pc = "read", !.act = "depositDetected"])
          /\ UNCHANGED <<answered, expiry>>
     ELSE Return(w)
  /\ UNCHANGED <<dbVars, envVars, faults>>

-----------------------------------------------------------------------------
(***************************************************************************)
(* WebhooksService.processProviderWebhook.  A posted status may be         *)
(* delivered any number of times, late, or never.                          *)
(***************************************************************************)

\* An exchange without a mirror row is unknown and ignored; otherwise the
\* mirror takes the status of this delivery.
ReceiveStatus(w, e, s) ==
  /\ handler[w] = Idle
  /\ <<e, s>> \in posted
  /\ mirror[e] # None
  /\ mirror' = [mirror EXCEPT ![e] = s]
  /\ GoTo(w, [Idle EXCEPT !.pc = "event", !.exchange = e, !.status = s])
  /\ UNCHANGED <<state, rail, railRef, log, outbox, reserved, deposits, unmatched,
                 provEvents, envVars, expiry, faults, answered>>

\* recordEvent: the delivery is added to the timeline.
RecordStatus(w) ==
  /\ handler[w].pc = "event"
  /\ provEvents' = provEvents \cup {<<handler[w].exchange, handler[w].status>>}
  /\ GoTo(w, [handler[w] EXCEPT !.pc = "advance"])
  /\ UNCHANGED <<state, rail, railRef, log, outbox, reserved, deposits, unmatched,
                 mirror, envVars, expiry, faults, answered>>

\* Mutant of ChooseAction: the provider's word is applied whatever the state.
ChooseTrusting(w) ==
  LET word == [finished |-> "confirm", verifying |-> "complianceHold"]
  IN
  /\ handler[w].pc = "advance"
  /\ IF handler[w].status \notin DOMAIN word THEN Return(w)
     ELSE /\ GoTo(w, [handler[w] EXCEPT !.pc = "commit", !.read = state,
                                       !.act = word[handler[w].status]])
          /\ UNCHANGED <<answered, expiry>>
  /\ UNCHANGED <<dbVars, envVars, faults>>

\* The invoice is read and the status picks an action, or none.
ChooseAction(w) ==
  LET a == ProviderStatusAction(state, handler[w].status)
  IN
  /\ handler[w].pc = "advance"
  /\ IF a = None THEN Return(w)
     ELSE /\ GoTo(w, [handler[w] EXCEPT !.pc = "read", !.act = a])
          /\ UNCHANGED <<answered, expiry>>
  /\ UNCHANGED <<dbVars, envVars, faults>>

-----------------------------------------------------------------------------
(***************************************************************************)
(* DetectionSweeperProcessor.process, for this invoice: the state selected *)
(* by the batch query is kept while the provider is asked.                 *)
(***************************************************************************)
SweepSelect(w) ==
  /\ handler[w] = Idle
  /\ state \in SweptStates
  /\ rail = "SWAP_PROVIDER"
  /\ railRef # None
  /\ phase # "over"
  /\ GoTo(w, [Idle EXCEPT !.pc = "poll", !.read = state, !.exchange = railRef])
  /\ UNCHANGED <<dbVars, envVars, expiry, faults, answered>>

\* The provider is asked.  An outage of all providers is reported as "awaiting",
\* like a status that has not changed: the sweeper goes on to the next invoice.
SweepPoll(w) ==
  LET h == handler[w]
      a == DivergedAction(h.read, RailStatus(provider[h.exchange]))
  IN
  /\ h.pc = "poll"
  /\ \/ /\ a # None
        /\ GoTo(w, [h EXCEPT !.pc = "read", !.act = a, !.read = None])
        /\ UNCHANGED <<answered, expiry, faults>>
     \/ /\ a = None
        /\ Return(w)
        /\ UNCHANGED faults
     \/ /\ faults < MaxFaults
        /\ faults' = faults + 1
        /\ Return(w)
  /\ UNCHANGED <<dbVars, envVars>>

-----------------------------------------------------------------------------
(***************************************************************************)
(* Faults                                                                  *)
(***************************************************************************)

\* The process dies: what the handler held is gone; a job that was running is
\* stalled and runs again.
Crash(w) ==
  /\ handler[w] # Idle
  /\ faults < MaxFaults
  /\ faults' = faults + 1
  /\ GoTo(w, Idle)
  /\ expiry' = IF handler[w].act = "expire" THEN "waiting" ELSE expiry
  /\ UNCHANGED <<dbVars, envVars, answered>>

\* A call to the database rejects; a transaction is rolled back.
DbError(w) ==
  /\ handler[w].pc \notin {"idle", "poll", "schedule"}
  /\ faults < MaxFaults
  /\ faults' = faults + 1
  /\ Throw(w)
  /\ UNCHANGED <<dbVars, envVars>>

-----------------------------------------------------------------------------
(***************************************************************************)
(* Environment: the payer, the provider and time.                          *)
(***************************************************************************)

\* The payer has been shown the address and the amount.
Mine(t) ==
  /\ reserved # "no"
  /\ state # "DRAFT"
  /\ mined' = mined \cup {t}
  /\ UNCHANGED <<dbVars, provider, posted, phase, expiry, handler, faults, answered>>

\* Where an exchange may go from a status; a provider may skip a stage.
ProviderNext ==
  [waiting    |-> {"confirming", "failed"},
   confirming |-> {"exchanging", "verifying", "sending", "failed"},
   exchanging |-> {"verifying", "sending", "failed"},
   verifying  |-> {"exchanging", "sending", "refunded"},
   sending    |-> {"finished", "failed"},
   failed     |-> {"refunded"},
   finished   |-> {},
   refunded   |-> {}]

ProviderMoves(e) ==
  /\ provider[e] # None
  /\ state # "DRAFT"    \* nobody pays an address nobody has been shown
  /\ \E s \in ProviderNext[provider[e]] \cap Reports :
       /\ provider' = [provider EXCEPT ![e] = s]
       /\ posted' = posted \cup {<<e, s>>}
  /\ UNCHANGED <<dbVars, mined, phase, expiry, handler, faults, answered>>

\* expiresAt passes; later the sweeper's grace period and the reservation's
\* cooldown do.
TimePasses ==
  /\ phase # "over"
  /\ phase' = IF phase = "open" THEN "grace" ELSE "over"
  /\ UNCHANGED <<dbVars, mined, provider, posted, expiry, handler, faults, answered>>

-----------------------------------------------------------------------------
Transition(w) == ReadState(w) \/ CommitTransition(w)
Issue(w) ==
  OpenCheckout(w) \/ CreateDirect(w) \/ CreateSwap(w) \/ NoProvider(w) \/ ScheduleExpiry(w)
TatumWebhook(w) ==
  (\E t \in Txs : ReceiveDeposit(w, t)) \/ MatchDeposit(w) \/ RecordDeposit(w) \/ CreditDeposit(w)
ProviderWebhook(w) ==
  \/ \E e \in Exchanges, s \in ProviderStatuses : ReceiveStatus(w, e, s)
  \/ RecordStatus(w)
  \/ ChooseAction(w)
Sweeper(w) == SweepSelect(w) \/ SweepPoll(w)
Fault(w) == Crash(w) \/ DbError(w)
Environment == (\E t \in Txs : Mine(t)) \/ (\E e \in Exchanges : ProviderMoves(e)) \/ TimePasses

Next ==
  \/ \E w \in Workers : \/ Transition(w) \/ Issue(w) \/ StartExpiry(w)
                        \/ TatumWebhook(w) \/ ProviderWebhook(w) \/ Sweeper(w)
                        \/ Fault(w)
  \/ Environment

Spec == Init /\ [][Next]_vars
=============================================================================
