------------------------ MODULE OutboxDispatch_proofs ------------------------
(***************************************************************************)
(* Theorems about OutboxDispatch, for every number of keys, repeats,       *)
(* dispatchers, faults and retries, and every limit of attempts.           *)
(***************************************************************************)
EXTENDS OutboxDispatch, TLAPS

\* A row as a tick holds it: the event and the attempts it was fetched with.
Rows == Events \X Nat

\* The types that the proofs need, with the row in hand where a tick has one.
OutboxTypeOK ==
  /\ status \in [Events -> {"none", "pending", "delivered", "dead"}]
  /\ attempts \in [Events -> Nat]
  /\ failures \in [Events -> Nat]
  /\ job \in [Keys -> [state : {"none", "waiting", "completed", "failed"},
                       event : Events \cup {None}, tries : Nat]]
  /\ tick \in [Dispatchers -> [pc : {"idle", "loop", "mark", "catch"}, todo : SUBSET Rows,
                               row : Rows \cup {None}]]
  /\ \A d \in Dispatchers : tick[d].pc \in {"mark", "catch"} => tick[d].row \in Rows
  /\ admin \in Events \cup {None}
  /\ handed \subseteq Events

\* The attempts a row carries, in the table or in the hands of a tick, never
\* exceed the dispatches that have failed: old attempts are too low, never too
\* high.
AttemptsCounted ==
  /\ \A e \in Events : attempts[e] <= failures[e]
  /\ \A d \in Dispatchers : \A x \in tick[d].todo : x[2] <= failures[x[1]]
  /\ \A d \in Dispatchers :
       tick[d].pc \in {"mark", "catch"} => tick[d].row[2] <= failures[tick[d].row[1]]

\* The event that a job carries has been handed over; a row about to be marked, and
\* a row that is marked delivered, was handed over or met another event's job.
HandedOver ==
  /\ \A k \in Keys : job[k].state # "none" => job[k].event \in handed
  /\ \A d \in Dispatchers : tick[d].pc = "mark" => tick[d].row[1] \in handed \cup dropped
  /\ GapsAreRepeats

\* What the theorem about dead letters rests on.
OutboxInv == OutboxTypeOK /\ AttemptsCounted /\ DeadOnlyAfterFailures

-----------------------------------------------------------------------------
\* The invariant holds before the first event.
LEMMA InitOutbox == Init => OutboxInv /\ HandedOver
<1> SUFFICES ASSUME Init PROVE OutboxInv /\ HandedOver
  OBVIOUS
<1>1. OutboxTypeOK
  BY DEF Init, OutboxTypeOK, NoTick, NoJob
<1>2. AttemptsCounted /\ DeadOnlyAfterFailures
  BY DEF Init, AttemptsCounted, DeadOnlyAfterFailures, NoTick
<1>3. HandedOver
  BY DEF Init, HandedOver, GapsAreRepeats, NoTick, NoJob
<1> QED BY <1>1, <1>2, <1>3 DEF OutboxInv

\* What a tick that goes on to its next row holds: the rows it still has, and
\* no row in hand.
LEMMA NextRowHolds ==
  ASSUME OutboxTypeOK, NEW d \in Dispatchers, NextRow(d)
  PROVE  /\ tick' \in [Dispatchers -> [pc : {"idle", "loop", "mark", "catch"},
                                       todo : SUBSET Rows, row : Rows \cup {None}]]
         /\ tick'[d].pc \in {"idle", "loop"} /\ tick'[d].todo \subseteq tick[d].todo
         /\ \A c \in Dispatchers \ {d} : tick'[c] = tick[c]
<1>1. CASE tick[d].todo = {}
  BY <1>1 DEF NextRow, OutboxTypeOK, NoTick
<1>2. CASE tick[d].todo # {}
  <2> DEFINE next == [tick[d] EXCEPT !.pc = "loop", !.row = None]
             Tick == [pc : {"idle", "loop", "mark", "catch"},
                      todo : SUBSET Rows, row : Rows \cup {None}]
  <2>1. tick' = [tick EXCEPT ![d] = next]
    BY <1>2 DEF NextRow
  <2>2. next \in Tick /\ next.pc = "loop" /\ next.todo = tick[d].todo /\ tick \in [Dispatchers -> Tick]
    BY DEF OutboxTypeOK
  <2> HIDE DEF next, Tick
  <2>3. /\ tick' \in [Dispatchers -> Tick] /\ tick'[d] = next
        /\ \A c \in Dispatchers \ {d} : tick'[c] = tick[c]
    BY <2>1, <2>2
  <2> QED BY <2>2, <2>3 DEF Tick
<1> QED BY <1>1, <1>2

\* Every step keeps the types.
LEMMA OutboxTypes ==
  ASSUME OutboxTypeOK, [Next]_vars PROVE OutboxTypeOK'
<1> USE OutboxBounds DEF OutboxTypeOK, rowVars, toldVars
<1>1. ASSUME NEW e \in Events, Emit(e) PROVE OutboxTypeOK'
  BY <1>1 DEF Emit
<1>2. ASSUME NEW e \in Events, BackoffEnds(e) PROVE OutboxTypeOK'
  BY <1>2 DEF BackoffEnds
<1>3. ASSUME NEW e \in Events, AdminRead(e) PROVE OutboxTypeOK'
  BY <1>3 DEF AdminRead
<1>4. ASSUME NEW d \in Dispatchers, FetchDue(d) PROVE OutboxTypeOK'
  <2> DEFINE rows == {e \in Events : status[e] = "pending" /\ due[e]}
             batch == {<<e, attempts[e]>> : e \in rows}
  <2>1. batch \subseteq Rows
    BY DEF Rows
  <2>2. tick' = [tick EXCEPT ![d] = [pc |-> "loop", todo |-> batch, row |-> None]]
    BY <1>4 DEF FetchDue
  <2> HIDE DEF batch
  <2> QED BY <1>4, <2>1, <2>2 DEF FetchDue
<1>5. ASSUME NEW d \in Dispatchers, AddJob(d) PROVE OutboxTypeOK'
  BY <1>5 DEF AddJob
<1>6. ASSUME NEW d \in Dispatchers, MarkDelivered(d) PROVE OutboxTypeOK'
  BY <1>6, NextRowHolds DEF MarkDelivered
<1>7. ASSUME NEW d \in Dispatchers, MarkFailed(d) PROVE OutboxTypeOK'
  <2> DEFINE e == tick[d].row[1]
             n == tick[d].row[2] + 1
  <2>1. e \in Events /\ n \in Nat
    BY <1>7 DEF MarkFailed, Rows
  <2>2. attempts' = [attempts EXCEPT ![e] = n] /\ failures' = [failures EXCEPT ![e] = @ + 1]
    BY <1>7 DEF MarkFailed
  <2>3. status' = status \/ status' = [status EXCEPT ![e] = "dead"]
    BY <1>7 DEF MarkFailed
  <2>4. UNCHANGED <<job, admin, handed>> /\ NextRow(d)
    BY <1>7 DEF MarkFailed
  <2> HIDE DEF e, n
  <2>5. attempts' \in [Events -> Nat] /\ failures' \in [Events -> Nat]
    BY <2>1, <2>2
  <2>6. status' \in [Events -> {"none", "pending", "delivered", "dead"}]
    BY <2>1, <2>3
  <2> QED BY <2>4, <2>5, <2>6, NextRowHolds
<1>8. ASSUME NEW d \in Dispatchers, AddFails(d) PROVE OutboxTypeOK'
  BY <1>8 DEF AddFails
<1>9. ASSUME NEW d \in Dispatchers, MarkFails(d) PROVE OutboxTypeOK'
  BY <1>9 DEF MarkFails
<1>10. ASSUME NEW d \in Dispatchers, TickDies(d) PROVE OutboxTypeOK'
  BY <1>10 DEF TickDies, NoTick
<1>11. ASSUME NEW k \in Keys, Post(k) PROVE OutboxTypeOK'
  <2>1. PICK o \in Outcomes :
          job' = [job EXCEPT ![k] = [state |-> StateAfter(o, job[k].tries + 1),
                                     event |-> job[k].event, tries |-> job[k].tries + 1]]
    BY <1>11 DEF Post
  <2>2. StateAfter(o, job[k].tries + 1) \in {"none", "waiting", "completed", "failed"}
    BY DEF StateAfter
  <2>3. job[k].event \in Events \cup {None} /\ job[k].tries + 1 \in Nat
    OBVIOUS
  <2>4. job' \in [Keys -> [state : {"none", "waiting", "completed", "failed"},
                          event : Events \cup {None}, tries : Nat]]
    BY <2>1, <2>2, <2>3
  <2> QED BY <1>11, <2>4 DEF Post
<1>12. ASSUME NEW k \in Keys, Forget(k) PROVE OutboxTypeOK'
  BY <1>12 DEF Forget, NoJob
<1>13. ASSUME AdminArm PROVE OutboxTypeOK'
  BY <1>13 DEF AdminArm
<1>14. CASE UNCHANGED vars
  BY <1>14 DEF vars, rowVars, toldVars
<1> QED
  BY <1>1, <1>2, <1>3, <1>4, <1>5, <1>6, <1>7, <1>8, <1>9, <1>10, <1>11, <1>12, <1>13, <1>14
  DEF Next, Dispatch

\* Every step keeps the attempts below the failures: a failure is counted where the
\* attempts are written.
LEMMA AttemptsStayCounted ==
  ASSUME OutboxTypeOK, AttemptsCounted, [Next]_vars PROVE AttemptsCounted'
<1> USE OutboxBounds DEF OutboxTypeOK, AttemptsCounted, rowVars, toldVars
<1>1. ASSUME NEW e \in Events, Emit(e) PROVE AttemptsCounted'
  BY <1>1 DEF Emit
<1>2. ASSUME NEW e \in Events, BackoffEnds(e) PROVE AttemptsCounted'
  BY <1>2 DEF BackoffEnds
<1>3. ASSUME NEW e \in Events, AdminRead(e) PROVE AttemptsCounted'
  BY <1>3 DEF AdminRead
<1>4. ASSUME NEW d \in Dispatchers, FetchDue(d) PROVE AttemptsCounted'
  BY <1>4 DEF FetchDue
<1>5. ASSUME NEW d \in Dispatchers, AddJob(d) PROVE AttemptsCounted'
  BY <1>5 DEF AddJob
<1>6. ASSUME NEW d \in Dispatchers, MarkDelivered(d) PROVE AttemptsCounted'
  <2>1. UNCHANGED <<attempts, failures>> /\ NextRow(d)
    BY <1>6 DEF MarkDelivered
  <2> QED BY <2>1, NextRowHolds
<1>7. ASSUME NEW d \in Dispatchers, MarkFailed(d) PROVE AttemptsCounted'
  <2> DEFINE e == tick[d].row[1]
             n == tick[d].row[2] + 1
  <2>1. e \in Events /\ n \in Nat /\ n <= failures[e] + 1
    BY <1>7 DEF MarkFailed, Rows
  <2>2. attempts' = [attempts EXCEPT ![e] = n] /\ failures' = [failures EXCEPT ![e] = @ + 1]
    BY <1>7 DEF MarkFailed
  <2>4. NextRow(d)
    BY <1>7 DEF MarkFailed
  <2> HIDE DEF e, n
  <2>5. \A x \in Events : attempts'[x] <= failures'[x]
    BY <2>1, <2>2
  <2>6. \A c \in Dispatchers : \A x \in tick'[c].todo : x \in Rows /\ x[2] <= failures[x[1]]
    BY <2>4, NextRowHolds
  <2>7. \A x \in Events : failures[x] <= failures'[x] /\ failures[x] \in Nat /\ failures'[x] \in Nat
    BY <2>1, <2>2
  <2>8. \A c \in Dispatchers : \A x \in tick'[c].todo : x[2] <= failures'[x[1]]
    BY <2>6, <2>7 DEF Rows
  <2>9. ASSUME NEW c \in Dispatchers, tick'[c].pc \in {"mark", "catch"}
        PROVE  tick'[c].row[2] <= failures'[tick'[c].row[1]]
    <3>1. c # d /\ tick'[c] = tick[c]
      BY <2>4, <2>9, NextRowHolds
    <3> QED BY <2>7, <2>9, <3>1 DEF Rows
  <2> QED BY <2>5, <2>8, <2>9
<1>8. ASSUME NEW d \in Dispatchers, AddFails(d) PROVE AttemptsCounted'
  BY <1>8 DEF AddFails
<1>9. ASSUME NEW d \in Dispatchers, MarkFails(d) PROVE AttemptsCounted'
  BY <1>9 DEF MarkFails
<1>10. ASSUME NEW d \in Dispatchers, TickDies(d) PROVE AttemptsCounted'
  BY <1>10 DEF TickDies, NoTick
<1>11. ASSUME NEW k \in Keys, Post(k) PROVE AttemptsCounted'
  BY <1>11 DEF Post
<1>12. ASSUME NEW k \in Keys, Forget(k) PROVE AttemptsCounted'
  BY <1>12 DEF Forget, NoJob
<1>13. ASSUME AdminArm PROVE AttemptsCounted'
  BY <1>13 DEF AdminArm
<1>14. CASE UNCHANGED vars
  BY <1>14 DEF vars, rowVars, toldVars
<1> QED
  BY <1>1, <1>2, <1>3, <1>4, <1>5, <1>6, <1>7, <1>8, <1>9, <1>10, <1>11, <1>12, <1>13, <1>14
  DEF Next, Dispatch

\* A row is declared dead with the failure that makes its attempts reach the limit.
LEMMA DeadStayFailed ==
  ASSUME OutboxTypeOK, AttemptsCounted, DeadOnlyAfterFailures, [Next]_vars
  PROVE  DeadOnlyAfterFailures'
<1> USE OutboxBounds DEF OutboxTypeOK, AttemptsCounted, DeadOnlyAfterFailures, rowVars, toldVars
<1>1. ASSUME NEW e \in Events, Emit(e) PROVE DeadOnlyAfterFailures'
  BY <1>1 DEF Emit
<1>2. ASSUME NEW e \in Events, BackoffEnds(e) PROVE DeadOnlyAfterFailures'
  BY <1>2 DEF BackoffEnds
<1>3. ASSUME NEW e \in Events, AdminRead(e) PROVE DeadOnlyAfterFailures'
  BY <1>3 DEF AdminRead
<1>4. ASSUME NEW d \in Dispatchers, FetchDue(d) PROVE DeadOnlyAfterFailures'
  BY <1>4 DEF FetchDue
<1>5. ASSUME NEW d \in Dispatchers, AddJob(d) PROVE DeadOnlyAfterFailures'
  BY <1>5 DEF AddJob
<1>6. ASSUME NEW d \in Dispatchers, MarkDelivered(d) PROVE DeadOnlyAfterFailures'
  BY <1>6, NextRowHolds DEF MarkDelivered
<1>7. ASSUME NEW d \in Dispatchers, MarkFailed(d) PROVE DeadOnlyAfterFailures'
  <2> DEFINE e == tick[d].row[1]
             n == tick[d].row[2] + 1
  <2>1. e \in Events /\ n \in Nat /\ n <= failures[e] + 1
    BY <1>7 DEF MarkFailed, Rows
  <2>2. attempts' = [attempts EXCEPT ![e] = n] /\ failures' = [failures EXCEPT ![e] = @ + 1]
    BY <1>7 DEF MarkFailed
  <2>4. NextRow(d)
    BY <1>7 DEF MarkFailed
  <2> HIDE DEF e, n
  <2>5. status' = status \/ (n >= MaxAttempts /\ status' = [status EXCEPT ![e] = "dead"])
    BY <1>7 DEF MarkFailed, e, n
  <2>6. n <= failures'[e] /\ n \in Nat
    BY <2>1, <2>2
  <2>7. \A x \in Events : failures[x] <= failures'[x] /\ failures[x] \in Nat /\ failures'[x] \in Nat
    BY <2>1, <2>2
  <2> QED BY <2>1, <2>5, <2>6, <2>7
<1>8. ASSUME NEW d \in Dispatchers, AddFails(d) PROVE DeadOnlyAfterFailures'
  BY <1>8 DEF AddFails
<1>9. ASSUME NEW d \in Dispatchers, MarkFails(d) PROVE DeadOnlyAfterFailures'
  BY <1>9 DEF MarkFails
<1>10. ASSUME NEW d \in Dispatchers, TickDies(d) PROVE DeadOnlyAfterFailures'
  BY <1>10 DEF TickDies, NoTick
<1>11. ASSUME NEW k \in Keys, Post(k) PROVE DeadOnlyAfterFailures'
  BY <1>11 DEF Post
<1>12. ASSUME NEW k \in Keys, Forget(k) PROVE DeadOnlyAfterFailures'
  BY <1>12 DEF Forget, NoJob
<1>13. ASSUME AdminArm PROVE DeadOnlyAfterFailures'
  BY <1>13 DEF AdminArm
<1>14. CASE UNCHANGED vars
  BY <1>14 DEF vars, rowVars, toldVars
<1> QED
  BY <1>1, <1>2, <1>3, <1>4, <1>5, <1>6, <1>7, <1>8, <1>9, <1>10, <1>11, <1>12, <1>13, <1>14
  DEF Next, Dispatch

\* A row is marked delivered only after an add that made its job or met another's.
LEMMA HandedStaysOver ==
  ASSUME OutboxTypeOK, HandedOver, [Next]_vars PROVE HandedOver'
<1> USE OutboxBounds DEF OutboxTypeOK, HandedOver, GapsAreRepeats, KeyOf, rowVars, toldVars
<1>1. ASSUME NEW e \in Events, Emit(e) PROVE HandedOver'
  BY <1>1 DEF Emit
<1>2. ASSUME NEW e \in Events, BackoffEnds(e) PROVE HandedOver'
  BY <1>2 DEF BackoffEnds
<1>3. ASSUME NEW e \in Events, AdminRead(e) PROVE HandedOver'
  BY <1>3 DEF AdminRead
<1>4. ASSUME NEW d \in Dispatchers, FetchDue(d) PROVE HandedOver'
  BY <1>4 DEF FetchDue
<1>5. ASSUME NEW d \in Dispatchers, AddJob(d) PROVE HandedOver'
  <2>1. PICK x \in tick[d].todo :
          /\ tick' = [tick EXCEPT ![d].pc = "mark", ![d].row = x, ![d].todo = @ \ {x}]
          /\ IF job[x[1][1]].state = "none"
             THEN /\ job' = [job EXCEPT ![x[1][1]] = [state |-> "waiting", event |-> x[1], tries |-> 0]]
                  /\ handed' = handed \cup {x[1]} /\ dropped' = dropped \ {x[1]}
             ELSE /\ dropped' = IF x[1] \in handed THEN dropped ELSE dropped \cup {x[1]}
                  /\ UNCHANGED <<job, handed>>
    BY <1>5 DEF AddJob
  <2>2. status' = status
    BY <1>5 DEF AddJob
  <2>3. x[1] \in handed' \cup dropped' /\ handed \cup dropped \subseteq handed' \cup dropped'
    BY <2>1
  <2>4. handed \subseteq handed'
    BY <2>1
  <2>5. x \in Rows /\ x[1][1] \in Keys /\ x[1] \in Events
    BY DEF Rows, Events
  <2>6. \A k \in Keys : job'[k].state # "none" => job'[k].event \in handed'
    BY <2>1, <2>4, <2>5
  <2>7. \A c \in Dispatchers : tick'[c].pc = "mark" => tick'[c].row[1] \in handed' \cup dropped'
    BY <2>1, <2>3
  <2>8. GapsAreRepeats'
    BY <2>2, <2>3
  <2> QED BY <2>6, <2>7, <2>8
<1>6. ASSUME NEW d \in Dispatchers, MarkDelivered(d) PROVE HandedOver'
  <2> DEFINE e == tick[d].row[1]
  <2>1. e \in handed \cup dropped /\ status' = [status EXCEPT ![e] = "delivered"]
    BY <1>6 DEF MarkDelivered
  <2>2. NextRow(d) /\ UNCHANGED <<job, handed, dropped>>
    BY <1>6 DEF MarkDelivered
  <2> HIDE DEF e
  <2>3. GapsAreRepeats'
    BY <2>1, <2>2
  <2>4. \A c \in Dispatchers : tick'[c].pc = "mark" => tick'[c].row[1] \in handed \cup dropped
    BY <2>2, NextRowHolds
  <2> QED BY <2>2, <2>3, <2>4
<1>7. ASSUME NEW d \in Dispatchers, MarkFailed(d) PROVE HandedOver'
  BY <1>7, NextRowHolds DEF MarkFailed
<1>8. ASSUME NEW d \in Dispatchers, AddFails(d) PROVE HandedOver'
  BY <1>8 DEF AddFails
<1>9. ASSUME NEW d \in Dispatchers, MarkFails(d) PROVE HandedOver'
  BY <1>9 DEF MarkFails
<1>10. ASSUME NEW d \in Dispatchers, TickDies(d) PROVE HandedOver'
  BY <1>10 DEF TickDies, NoTick
<1>11. ASSUME NEW k \in Keys, Post(k) PROVE HandedOver'
  BY <1>11 DEF Post
<1>12. ASSUME NEW k \in Keys, Forget(k) PROVE HandedOver'
  BY <1>12 DEF Forget, NoJob
<1>13. ASSUME AdminArm PROVE HandedOver'
  BY <1>13 DEF AdminArm
<1>14. CASE UNCHANGED vars
  BY <1>14 DEF vars, rowVars, toldVars
<1> QED
  BY <1>1, <1>2, <1>3, <1>4, <1>5, <1>6, <1>7, <1>8, <1>9, <1>10, <1>11, <1>12, <1>13, <1>14
  DEF Next, Dispatch

-----------------------------------------------------------------------------
\* The inductive invariant holds in every reachable state.
THEOREM OutboxInvariance == Spec => [](OutboxInv /\ HandedOver)
<1>1. OutboxInv /\ HandedOver /\ [Next]_vars => (OutboxInv /\ HandedOver)'
  BY OutboxTypes, AttemptsStayCounted, DeadStayFailed, HandedStaysOver DEF OutboxInv
<1> QED BY <1>1, InitOutbox, PTL DEF Spec

\* However ticks overlap and operators retry, markFailed makes a row a dead
\* letter only after MAX_ATTEMPTS failed dispatches of that row.
THEOREM DeadLettersHaveFailed == Spec => []DeadOnlyAfterFailures
<1>1. OutboxInv /\ HandedOver => DeadOnlyAfterFailures
  BY DEF OutboxInv
<1> QED BY <1>1, OutboxInvariance, PTL

\* However ticks overlap, crash and fail, a row is marked delivered only when a job of
\* its own was added or its add was dropped for the kept job of another event: the
\* drop in scheduleMerchantWebhook is the only silent gap.
THEOREM OnlyRepeatsLeaveGaps == Spec => []GapsAreRepeats
<1>1. OutboxInv /\ HandedOver => GapsAreRepeats
  BY DEF HandedOver
<1> QED BY <1>1, OutboxInvariance, PTL
=============================================================================
