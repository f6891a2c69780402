---------------------------- MODULE OutboxDispatch ----------------------------
(***************************************************************************)
(* The transactional outbox and the way of an event to the merchant:       *)
(* OutboxService (rows, backoff, dead letters), OutboxDispatchProcessor    *)
(* (hands due rows to the merchant-webhook queue, then marks them),        *)
(* MerchantWebhookProcessor (POSTs, retried by BullMQ) and the operator's  *)
(* retryOutbox.  A row is written by the transaction that changes the      *)
(* invoice (CommitTransition of InvoiceLifecycle); here that is Emit.      *)
(*                                                                         *)
(* A tick that takes longer than its interval overlaps the next one, which *)
(* another process may run: there is one dispatcher per running tick.      *)
(***************************************************************************)
EXTENDS Naturals

CONSTANTS
  Keys,         \* (invoice, event type): what the job id is made of
  MaxRepeats,   \* times one key is emitted
  Dispatchers,  \* dispatch jobs that may run at the same time
  MaxAttempts,  \* MAX_ATTEMPTS
  MaxTries,     \* attempts of defaultJobOptions
  Outcomes,     \* what may become of a POST
  MaxFaults,    \* bound: Redis and database errors, crashes
  MaxRetries    \* bound: retries by an operator

ASSUME OutboxBounds ==
  /\ MaxRepeats \in Nat /\ MaxFaults \in Nat /\ MaxRetries \in Nat
  /\ MaxAttempts \in Nat \ {0} /\ MaxTries \in Nat \ {0}
\* "ok"; "lost": the merchant has it, but the answer is not 2xx or never comes, or
\* WebhookDelivery cannot be written; "error": the merchant does not have it;
\* "skipped": there is no URL, or safeFetch refuses it, and the job completes.
ASSUME OutcomesAssumption == Outcomes \subseteq {"ok", "lost", "error", "skipped"}

Events == Keys \X (1..MaxRepeats)
KeyOf(e) == e[1]

\* No row in hand.
None == <<>>

VARIABLES
  status,    \* OutboxEvent.status by event, "none" before the row exists
  attempts,  \* OutboxEvent.attempts
  due,       \* nextAttempt has come
  tick,      \* running dispatch jobs: pc, rows still to do, row in hand
  job,       \* merchant-webhook jobs by key: state, event carried, tries made
  admin,     \* the row an operator's retry has read
  retries, faults,
  handed,    \* history: events for which a job was really added
  dropped,   \* history: events never handed, whose add met the job of another
  received,  \* history: events the merchant has received
  skipped,   \* history: events whose job completed without a POST
  failures   \* history: failed dispatches by event

rowVars == <<status, attempts, due>>
toldVars == <<handed, dropped, received, skipped>>
vars == <<rowVars, tick, job, admin, retries, faults, toldVars, failures>>

NoTick == [pc |-> "idle", todo |-> {}, row |-> None]
NoJob == [state |-> "none", event |-> None, tries |-> 0]

Init ==
  /\ status = [e \in Events |-> "none"]
  /\ attempts = [e \in Events |-> 0]
  /\ due = [e \in Events |-> FALSE]
  /\ tick = [d \in Dispatchers |-> NoTick]
  /\ job = [k \in Keys |-> NoJob]
  /\ admin = None /\ retries = 0 /\ faults = 0
  /\ handed = {} /\ dropped = {} /\ received = {} /\ skipped = {}
  /\ failures = [e \in Events |-> 0]

-----------------------------------------------------------------------------
(***************************************************************************)
(* OutboxService.emit and the passing of a backoff                         *)
(***************************************************************************)
Emit(e) ==
  /\ status[e] = "none"
  /\ e[2] > 1 => status[<<e[1], e[2] - 1>>] # "none"
  /\ status' = [status EXCEPT ![e] = "pending"]
  /\ due' = [due EXCEPT ![e] = TRUE]
  /\ UNCHANGED <<attempts, tick, job, admin, retries, faults, toldVars, failures>>

BackoffEnds(e) ==
  /\ status[e] = "pending" /\ ~due[e]
  /\ due' = [due EXCEPT ![e] = TRUE]
  /\ UNCHANGED <<status, attempts, tick, job, admin, retries, faults, toldVars, failures>>

-----------------------------------------------------------------------------
(***************************************************************************)
(* OutboxDispatchProcessor.process                                         *)
(***************************************************************************)

\* Mutant of FetchDue: only rows that have never failed are fetched.
FetchUntried(d) ==
  LET rows == {e \in Events : status[e] = "pending" /\ due[e] /\ attempts[e] = 0}
  IN
  /\ tick[d].pc = "idle"
  /\ rows # {}
  /\ tick' = [tick EXCEPT ![d] = [pc |-> "loop", todo |-> {<<e, attempts[e]>> : e \in rows},
                                  row |-> None]]
  /\ UNCHANGED <<rowVars, job, admin, retries, faults, toldVars, failures>>

\* fetchDue: the rows and their attempts are as of now, whatever happens to
\* them while the loop runs.
FetchDue(d) ==
  LET rows == {e \in Events : status[e] = "pending" /\ due[e]}
  IN
  /\ tick[d].pc = "idle"
  /\ rows # {}
  /\ tick' = [tick EXCEPT ![d] = [pc |-> "loop", todo |-> {<<e, attempts[e]>> : e \in rows},
                                  row |-> None]]
  /\ UNCHANGED <<rowVars, job, admin, retries, faults, toldVars, failures>>

\* scheduleMerchantWebhook: BullMQ ignores an add whose jobId exists, in
\* whatever state that job is.
AddJob(d) ==
  /\ tick[d].pc = "loop"
  /\ \E x \in tick[d].todo :
       LET e == x[1]
           k == KeyOf(e)
       IN
       /\ tick' = [tick EXCEPT ![d].pc = "mark", ![d].row = x, ![d].todo = @ \ {x}]
       /\ IF job[k].state = "none"
          THEN /\ job' = [job EXCEPT ![k] = [state |-> "waiting", event |-> e, tries |-> 0]]
               /\ handed' = handed \cup {e} /\ dropped' = dropped \ {e}
          ELSE /\ dropped' = IF e \in handed THEN dropped ELSE dropped \cup {e}
               /\ UNCHANGED <<job, handed>>
  /\ UNCHANGED <<rowVars, admin, retries, faults, received, skipped, failures>>

\* Mutant of AddFails: the add is not awaited, and its error not seen.
AddUnawaited(d) ==
  /\ tick[d].pc = "loop"
  /\ faults < MaxFaults
  /\ faults' = faults + 1
  /\ \E x \in tick[d].todo :
       tick' = [tick EXCEPT ![d].pc = "mark", ![d].row = x, ![d].todo = @ \ {x}]
  /\ UNCHANGED <<rowVars, job, admin, retries, toldVars, failures>>

\* Redis does not answer: on to the catch clause.
AddFails(d) ==
  /\ tick[d].pc = "loop"
  /\ faults < MaxFaults
  /\ faults' = faults + 1
  /\ \E x \in tick[d].todo :
       tick' = [tick EXCEPT ![d].pc = "catch", ![d].row = x, ![d].todo = @ \ {x}]
  /\ UNCHANGED <<rowVars, job, admin, retries, toldVars, failures>>

\* The next row of the loop, or the end of the job.
NextRow(d) ==
  tick' = [tick EXCEPT ![d] = IF tick[d].todo = {} THEN NoTick
                              ELSE [@ EXCEPT !.pc = "loop", !.row = None]]

\* markDelivered
MarkDelivered(d) ==
  /\ tick[d].pc = "mark"
  /\ status' = [status EXCEPT ![tick[d].row[1]] = "delivered"]
  /\ NextRow(d)
  /\ UNCHANGED <<attempts, due, job, admin, retries, faults, toldVars, failures>>

MarkFails(d) ==
  /\ tick[d].pc = "mark"
  /\ faults < MaxFaults
  /\ faults' = faults + 1
  /\ tick' = [tick EXCEPT ![d].pc = "catch"]
  /\ UNCHANGED <<rowVars, job, admin, retries, toldVars, failures>>

\* Mutant of MarkFailed: the row is dead one failure early.
MarkFailedEarly(d) ==
  LET e == tick[d].row[1]
      n == tick[d].row[2] + 1
  IN
  /\ tick[d].pc = "catch"
  /\ attempts' = [attempts EXCEPT ![e] = n]
  /\ IF n + 1 >= MaxAttempts
     THEN status' = [status EXCEPT ![e] = "dead"] /\ UNCHANGED due
     ELSE due' = [due EXCEPT ![e] = FALSE] /\ UNCHANGED status
  /\ failures' = [failures EXCEPT ![e] = @ + 1]
  /\ NextRow(d)
  /\ UNCHANGED <<job, admin, retries, faults, toldVars>>

\* markFailed, with the attempts the row had when it was fetched.
MarkFailed(d) ==
  LET e == tick[d].row[1]
      n == tick[d].row[2] + 1
  IN
  /\ tick[d].pc = "catch"
  /\ attempts' = [attempts EXCEPT ![e] = n]
  /\ IF n >= MaxAttempts
     THEN status' = [status EXCEPT ![e] = "dead"] /\ UNCHANGED due
     ELSE due' = [due EXCEPT ![e] = FALSE] /\ UNCHANGED status
  /\ failures' = [failures EXCEPT ![e] = @ + 1]
  /\ NextRow(d)
  /\ UNCHANGED <<job, admin, retries, faults, toldVars>>

\* The process dies, or markFailed throws: the rest of the batch is left.
TickDies(d) ==
  /\ tick[d].pc # "idle"
  /\ faults < MaxFaults
  /\ faults' = faults + 1
  /\ tick' = [tick EXCEPT ![d] = NoTick]
  /\ UNCHANGED <<rowVars, job, admin, retries, toldVars, failures>>

-----------------------------------------------------------------------------
(***************************************************************************)
(* MerchantWebhookProcessor.process under BullMQ                           *)
(***************************************************************************)
Received(outcome) == outcome \in {"ok", "lost"}
Completes(outcome) == outcome \in {"ok", "skipped"}

\* When the processor throws, BullMQ backs off and tries again until the
\* attempts are used up; a failed job is kept.
StateAfter(outcome, tries) ==
  IF Completes(outcome) THEN "completed" ELSE IF tries >= MaxTries THEN "failed" ELSE "waiting"

\* Mutant of Post: an error is logged and completes the job.
PostOnce(k) ==
  /\ job[k].state = "waiting"
  /\ \E o \in Outcomes :
       /\ received' = IF Received(o) THEN received \cup {job[k].event} ELSE received
       /\ skipped' = IF o = "skipped" THEN skipped \cup {job[k].event} ELSE skipped
       /\ job' = [job EXCEPT ![k].state = "completed", ![k].tries = @ + 1]
  /\ UNCHANGED <<rowVars, tick, admin, retries, faults, handed, dropped, failures>>

\* One try of the job.
Post(k) ==
  /\ job[k].state = "waiting"
  /\ \E o \in Outcomes :
       /\ received' = IF Received(o) THEN received \cup {job[k].event} ELSE received
       /\ skipped' = IF o = "skipped" THEN skipped \cup {job[k].event} ELSE skipped
       /\ job' = [job EXCEPT ![k] = [state |-> StateAfter(o, job[k].tries + 1),
                                     event |-> job[k].event, tries |-> job[k].tries + 1]]
  /\ UNCHANGED <<rowVars, tick, admin, retries, faults, handed, dropped, failures>>

\* removeOnComplete: a completed job, and with it its id, is gone after a day.
Forget(k) ==
  /\ job[k].state = "completed"
  /\ job' = [job EXCEPT ![k] = NoJob]
  /\ UNCHANGED <<rowVars, tick, admin, retries, faults, toldVars, failures>>

-----------------------------------------------------------------------------
(***************************************************************************)
(* AdminOpsService.retryOutbox: reads the row, then arms it.               *)
(***************************************************************************)
AdminRead(e) ==
  /\ admin = None /\ retries < MaxRetries
  /\ status[e] \in {"pending", "dead"}
  /\ admin' = e /\ retries' = retries + 1
  /\ UNCHANGED <<rowVars, tick, job, faults, toldVars, failures>>

AdminArm ==
  /\ admin # None
  /\ status' = [status EXCEPT ![admin] = "pending"]
  /\ due' = [due EXCEPT ![admin] = TRUE]
  /\ admin' = None
  /\ UNCHANGED <<attempts, tick, job, retries, faults, toldVars, failures>>

-----------------------------------------------------------------------------
Dispatch(d) == AddJob(d) \/ MarkDelivered(d) \/ MarkFailed(d)

Next ==
  \/ \E e \in Events : Emit(e) \/ BackoffEnds(e) \/ AdminRead(e)
  \/ \E d \in Dispatchers :
       FetchDue(d) \/ Dispatch(d) \/ AddFails(d) \/ MarkFails(d) \/ TickDies(d)
  \/ \E k \in Keys : Post(k) \/ Forget(k)
  \/ AdminArm

Spec == Init /\ [][Next]_vars

\* A tick that runs goes on, the scheduler starts one every five seconds,
\* backoffs end and BullMQ runs waiting jobs.  Nothing has to be emitted, and
\* nobody has to retry.
Fairness ==
  /\ \A d \in Dispatchers : WF_vars(Dispatch(d)) /\ WF_vars(FetchDue(d))
  /\ \A e \in Events : WF_vars(BackoffEnds(e))
  /\ \A k \in Keys : WF_vars(Post(k))

FairSpec == Spec /\ Fairness

-----------------------------------------------------------------------------
(***************************************************************************)
(* Properties                                                              *)
(***************************************************************************)

\* "A merchant webhook is sent iff the state actually changed ... no silent
\* gaps" (outbox.service.ts): a row that says delivered has had a job of its own
\* added for the merchant.
NoSilentGap == \A e \in Events : status[e] = "delivered" => e \in handed

\* Through crashes, failed calls, overlapping ticks and operator retries there is
\* one such gap only: the add was dropped for the kept job of another event of
\* the same type and invoice (scheduleMerchantWebhook).
GapsAreRepeats == \A e \in Events : status[e] = "delivered" => e \in handed \cup dropped

\* Overlapping ticks that work on stale attempts never make a row a dead
\* letter before its dispatch has failed MAX_ATTEMPTS times (markFailed).
DeadOnlyAfterFailures ==
  \A e \in Events : status[e] = "dead" => failures[e] >= MaxAttempts

\* Whatever crashes or fails, a pending row is delivered or dead in the end.
EveryRowSettles ==
  \A e \in Events : status[e] = "pending" ~> status[e] \in {"delivered", "dead"}

\* Every row that is marked delivered reaches the merchant, unless its job was
\* dropped for another's, found no URL it may post to, or failed at every try.
MerchantIsTold ==
  \A e \in Events :
    status[e] = "delivered" ~> \/ e \in received \cup skipped \cup dropped
                               \/ job[KeyOf(e)].state = "failed" /\ job[KeyOf(e)].event = e
=============================================================================
