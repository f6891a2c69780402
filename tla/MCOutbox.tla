------------------------------- MODULE MCOutbox -------------------------------
(***************************************************************************)
(* An instance of OutboxDispatch for TLC that starts where it gets         *)
(* interesting: the first event of every key has been dealt with, without  *)
(* a fault, and its job is still kept under the id the next one will have. *)
(* Once the job is forgotten, all is as it was for the first event.        *)
(***************************************************************************)
EXTENDS OutboxDispatch

FirstEvents == {<<k, 1>> : k \in Keys}

\* Emit, FetchDue, AddJob, MarkDelivered and the tries of the job for each: they
\* reached every merchant, or none and the jobs have failed.
FirstIsSent ==
  /\ status = [e \in Events |-> IF e \in FirstEvents THEN "delivered" ELSE "none"]
  /\ attempts = [e \in Events |-> 0]
  /\ due = [e \in Events |-> e \in FirstEvents]
  /\ tick = [d \in Dispatchers |-> NoTick]
  /\ \/ /\ received = FirstEvents
        /\ job = [k \in Keys |-> [state |-> "completed", event |-> <<k, 1>>, tries |-> 1]]
     \/ /\ received = {}
        /\ job = [k \in Keys |-> [state |-> "failed", event |-> <<k, 1>>, tries |-> MaxTries]]
  /\ admin = None /\ retries = 0 /\ faults = 0
  /\ handed = FirstEvents /\ dropped = {} /\ skipped = {}
  /\ failures = [e \in Events |-> 0]

AgainSpec == FirstIsSent /\ [][Next]_vars /\ Fairness
=============================================================================
