------------------------ MODULE RequestPipeline_proofs ------------------------
(***************************************************************************)
(* Theorems about RequestPipeline, for any keys, merchants, handlers and   *)
(* connections, and any number of faults.                                  *)
(***************************************************************************)
EXTENDS RequestPipeline, TLAPS

HandlerType ==
  [pc : {"idle", "claim", "lookup", "begin", "commit", "store", "undo"},
   key : Keys \cup {None}, connection : Connections \cup {None}, body : Nat]
RedisType == [state : {"none", "inflight", "response"}, body : Nat]

\* A handler that is not idle serves a key, and its transaction has a connection.
Serving ==
  \A h \in Handlers :
    /\ handler[h].pc # "idle" => handler[h].key \in Keys
    /\ handler[h].pc = "commit" => handler[h].connection \in Connections

\* The handler has claimed its key and has not left it.
AtWork(h) == handler[h].pc \in {"begin", "commit", "store", "undo"}

\* The claim: a key at work is in flight, and one handler's.
Claimed ==
  /\ \A h \in Handlers : AtWork(h) => stored[handler[h].key].state = "inflight"
  /\ \A g, h \in Handlers : AtWork(g) /\ AtWork(h) /\ handler[g].key = handler[h].key => g = h

\* What the handlers and Redis know of the effects.
Known ==
  /\ \A k \in Keys : forgotten[k] <= effects[k]
  /\ \A k \in Keys : stored[k].state = "none" => forgotten[k] = effects[k]
  /\ \A k \in Keys : stored[k].state = "response" =>
       stored[k].body = effects[k] /\ forgotten[k] < effects[k]
  /\ \A h \in Handlers : handler[h].pc \in {"begin", "commit"} =>
       forgotten[handler[h].key] = effects[handler[h].key]
  /\ \A h \in Handlers : handler[h].pc = "store" =>
       /\ handler[h].body = effects[handler[h].key]
       /\ forgotten[handler[h].key] < effects[handler[h].key]

\* A transaction has a connection for itself, set to its tenant; a connection
\* that is free is set to none.
Isolated ==
  /\ \A h \in Handlers : handler[h].pc = "commit" =>
       /\ handler[h].connection \in inUse
       /\ setting[handler[h].connection] = Tenant(h)
  /\ \A g, h \in Handlers :
       g # h /\ handler[g].pc = "commit" /\ handler[h].pc = "commit" =>
         handler[g].connection # handler[h].connection
  /\ \A c \in Connections \ inUse : setting[c] = None

-----------------------------------------------------------------------------
(***************************************************************************)
(* Types                                                                   *)
(***************************************************************************)

\* The types hold at the start.
LEMMA InitTypes == Init => PipelineTypeOK /\ Serving
BY PipelineBounds DEF Init, PipelineTypeOK, Serving, Nothing, Resting

\* The steps change a handler like this.
LEMMA HandlerTypes ==
  ASSUME handler \in [Handlers -> HandlerType], NEW h \in Handlers
  PROVE  /\ [handler EXCEPT ![h] = Resting] \in [Handlers -> HandlerType]
         /\ \A p \in {"begin", "commit", "store", "undo", "lookup"} :
              [handler EXCEPT ![h].pc = p] \in [Handlers -> HandlerType]
         /\ \A p \in {"begin", "commit", "store", "undo"}, c \in Connections :
              [handler EXCEPT ![h].pc = p, ![h].connection = c] \in [Handlers -> HandlerType]
         /\ \A n \in Nat :
              [handler EXCEPT ![h].pc = "store", ![h].body = n] \in [Handlers -> HandlerType]
         /\ \A k \in Keys : [handler EXCEPT ![h] = [Resting EXCEPT !.pc = "claim", !.key = k]]
              \in [Handlers -> HandlerType]
<1> DEFINE into(x) == [handler EXCEPT ![h] = x]
           at(p) == [handler[h] EXCEPT !.pc = p]
           on(p, c) == [at(p) EXCEPT !.connection = c]
<1>1. \A x \in HandlerType : into(x) \in [Handlers -> HandlerType]
  <2> HIDE DEF HandlerType
  <2> QED OBVIOUS
<1>2. Resting \in HandlerType /\ handler[h] \in HandlerType
  BY DEF HandlerType, Resting
<1>3. \A p \in {"begin", "commit", "store", "undo", "lookup"} : at(p) \in HandlerType
  BY <1>2 DEF HandlerType
<1>4. \A p \in {"begin", "commit", "store", "undo"}, c \in Connections :
        on(p, c) \in HandlerType
  BY <1>2 DEF HandlerType
<1>5. \A n \in Nat : [at("store") EXCEPT !.body = n] \in HandlerType
  BY <1>2 DEF HandlerType
<1>6. \A k \in Keys : [Resting EXCEPT !.pc = "claim", !.key = k] \in HandlerType
  BY DEF HandlerType, Resting
<1>7. ASSUME NEW p \in {"begin", "commit", "store", "undo", "lookup"}
      PROVE  [handler EXCEPT ![h].pc = p] \in [Handlers -> HandlerType]
  <2>1. [handler EXCEPT ![h].pc = p] = into(at(p))
    OBVIOUS
  <2> HIDE DEF into, at, HandlerType
  <2> QED BY <1>1, <1>3, <2>1
<1>8. ASSUME NEW p \in {"begin", "commit", "store", "undo"}, NEW c \in Connections
      PROVE  [handler EXCEPT ![h].pc = p, ![h].connection = c] \in [Handlers -> HandlerType]
  <2>1. PICK x : x = on(p, c)
    OBVIOUS
  <2>2. [handler EXCEPT ![h].pc = p, ![h].connection = c] = [handler EXCEPT ![h] = x]
    BY <2>1
  <2>3. x \in HandlerType
    BY <1>4, <2>1
  <2> HIDE DEF at, on, HandlerType
  <2> QED BY <2>2, <2>3
<1>9. ASSUME NEW n \in Nat
      PROVE  [handler EXCEPT ![h].pc = "store", ![h].body = n] \in [Handlers -> HandlerType]
  <2>1. [handler EXCEPT ![h].pc = "store", ![h].body = n] = into([at("store") EXCEPT !.body = n])
    OBVIOUS
  <2> HIDE DEF into, at, HandlerType
  <2> QED BY <1>1, <1>5, <2>1
<1>10. /\ [handler EXCEPT ![h] = Resting] \in [Handlers -> HandlerType]
       /\ \A k \in Keys : [handler EXCEPT ![h] = [Resting EXCEPT !.pc = "claim", !.key = k]]
            \in [Handlers -> HandlerType]
  <2> HIDE DEF HandlerType
  <2> QED BY <1>2, <1>6
<1> QED BY <1>7, <1>8, <1>9, <1>10

\* A handler is done: its client has an answer, an error or nothing.
Done(h) ==
  LET k == handler[h].key
  IN  /\ handler' = [handler EXCEPT ![h] = Resting]
      /\ client' = client \/ client' = [client EXCEPT ![k] = "done"]
      /\ answers' = answers \/ \E n \in Nat : answers' = [answers EXCEPT ![k] = @ \cup {n}]
      /\ faults' = faults \/ faults' = faults + 1

\* Being done keeps the types.
LEMMA DoneTypes ==
  ASSUME PipelineTypeOK, NEW h \in Handlers, handler[h].key \in Keys, Done(h)
  PROVE  /\ handler' \in [Handlers -> HandlerType] /\ faults' \in Nat
         /\ client' \in [Keys -> {"new", "waiting", "done"}] /\ answers' \in [Keys -> SUBSET Nat]
<1>1. handler' \in [Handlers -> HandlerType]
  BY HandlerTypes DEF Done, PipelineTypeOK, HandlerType
<1>2. client' \in [Keys -> {"new", "waiting", "done"}]
  BY DEF Done, PipelineTypeOK
<1>3. faults' \in Nat
  <2>1. faults' = faults \/ faults' = faults + 1
    BY Zenon DEF Done
  <2> QED BY <2>1 DEF PipelineTypeOK
<1>4. answers' \in [Keys -> SUBSET Nat]
  <2>1. CASE UNCHANGED answers
    BY <2>1 DEF PipelineTypeOK
  <2>2. ASSUME NEW n \in Nat, answers' = [answers EXCEPT ![handler[h].key] = @ \cup {n}]
        PROVE  answers' \in [Keys -> SUBSET Nat]
    BY <2>2 DEF PipelineTypeOK
  <2> QED BY <2>1, <2>2 DEF Done
<1> QED BY <1>1, <1>2, <1>3, <1>4

\* Every step keeps the types.
LEMMA NextTypes ==
  ASSUME PipelineTypeOK, Serving, [Next]_vars PROVE PipelineTypeOK'
<1>a. handler \in [Handlers -> HandlerType] /\ stored \in [Keys -> RedisType]
  BY DEF PipelineTypeOK, HandlerType, RedisType
<1>b. ASSUME handler' \in [Handlers -> HandlerType], stored' \in [Keys -> RedisType],
             client' \in [Keys -> {"new", "waiting", "done"}], answers' \in [Keys -> SUBSET Nat],
             setting' \in [Connections -> Merchants \cup {None}], inUse' \subseteq Connections,
             effects' \in [Keys -> Nat], forgotten' \in [Keys -> Nat], faults' \in Nat,
             scopes' \subseteq (Merchants \cup {None}) \X (Merchants \cup {None}), UNCHANGED owner
      PROVE  PipelineTypeOK'
  BY <1>b DEF PipelineTypeOK, HandlerType, RedisType
<1>c. InFlight \in RedisType /\ Nothing \in RedisType /\ \A n \in Nat : Response(n) \in RedisType
  BY DEF InFlight, Nothing, Response, RedisType
<1>d. /\ client \in [Keys -> {"new", "waiting", "done"}] /\ answers \in [Keys -> SUBSET Nat]
      /\ setting \in [Connections -> Merchants \cup {None}] /\ inUse \subseteq Connections
      /\ effects \in [Keys -> Nat] /\ forgotten \in [Keys -> Nat] /\ faults \in Nat
      /\ scopes \subseteq (Merchants \cup {None}) \X (Merchants \cup {None})
      /\ owner \in [Keys -> Merchants]
  BY DEF PipelineTypeOK
<1>e. ASSUME NEW h \in Handlers, handler[h].pc # "idle"
      PROVE  handler[h].key \in Keys /\ handler[h].body \in Nat
  BY <1>a, <1>e DEF Serving, HandlerType
<1>f. ASSUME NEW k \in Keys, Lose(k)
      PROVE  stored' \in [Keys -> RedisType] /\ forgotten' \in [Keys -> Nat]
  BY <1>a, <1>c, <1>d, <1>f DEF Lose
<1>g. ASSUME NEW h \in Handlers, EndTransaction(h)
      PROVE  setting' \in [Connections -> Merchants \cup {None}] /\ inUse' \subseteq Connections
  BY <1>d, <1>g DEF EndTransaction
<1>1. ASSUME NEW k \in Keys, Send(k) PROVE PipelineTypeOK'
  <2>1. PICK h \in Handlers :
          handler' = [handler EXCEPT ![h] = [Resting EXCEPT !.pc = "claim", !.key = k]]
    BY <1>1 DEF Send
  <2>3. handler' \in [Handlers -> HandlerType]
    BY <1>a, <2>1, HandlerTypes
  <2>2. client' \in [Keys -> {"new", "waiting", "done"}]
    BY <1>d, <1>1 DEF Send
  <2> QED BY <1>a, <1>b, <1>d, <1>1, <2>2, <2>3 DEF Send, redisVars, poolVars
<1>2. ASSUME NEW h \in Handlers, Claim(h) \/ ClaimTwice(h) PROVE PipelineTypeOK'
  <2>1. handler[h].key \in Keys
    BY <1>e, <1>2 DEF Claim, ClaimTwice
  <2>2. handler' \in [Handlers -> HandlerType]
    <3>1. \E p \in {"begin", "lookup"} : handler' = [handler EXCEPT ![h].pc = p]
      BY <1>2 DEF Claim, ClaimTwice
    <3>2. CASE handler' = [handler EXCEPT ![h].pc = "begin"]
      BY <1>a, <3>2, HandlerTypes
    <3>3. CASE handler' = [handler EXCEPT ![h].pc = "lookup"]
      BY <1>a, <3>3, HandlerTypes
    <3> QED BY <3>1, <3>2, <3>3
  <2>3. stored' \in [Keys -> RedisType]
    BY <1>a, <1>c, <1>2, <2>1 DEF Claim, ClaimTwice
  <2> QED BY <1>b, <1>d, <1>2, <2>2, <2>3 DEF Claim, ClaimTwice, Fault, poolVars
<1>3. ASSUME NEW h \in Handlers, Lookup(h) PROVE PipelineTypeOK'
  <2>1. handler[h].key \in Keys /\ stored[handler[h].key].body \in Nat
    BY <1>a, <1>e, <1>3 DEF Lookup, RedisType
  <2>2. UNCHANGED <<owner, redisVars, poolVars, effects>>
    BY <1>3 DEF Lookup
  <2>3. Done(h)
    BY <1>3, <2>1 DEF Lookup, Reply, ReplyError, Done, Fault
  <2> QED BY <1>a, <1>b, <1>d, <2>1, <2>2, <2>3, DoneTypes DEF redisVars, poolVars
<1>4. ASSUME NEW h \in Handlers, Store(h) PROVE PipelineTypeOK'
  <2>1. handler[h].key \in Keys /\ handler[h].body \in Nat
    BY <1>e, <1>4 DEF Store
  <2>2. stored' \in [Keys -> RedisType]
    BY <1>a, <1>c, <1>4, <2>1 DEF Store
  <2>3. UNCHANGED <<owner, forgotten, poolVars, effects>>
    BY <1>4 DEF Store
  <2>4. Done(h)
    BY <1>4, <2>1 DEF Store, Reply, Done, Fault
  <2> QED BY <1>b, <1>d, <2>1, <2>2, <2>3, <2>4, DoneTypes DEF poolVars
<1>5. ASSUME NEW h \in Handlers, Throw(h) PROVE PipelineTypeOK'
  <2>1. handler' \in [Handlers -> HandlerType]
    BY <1>a, <1>5, HandlerTypes DEF Throw
  <2>2. UNCHANGED <<owner, client, stored, forgotten, setting, inUse, scopes, effects, answers>>
        /\ faults' = faults + 1
    BY <1>5 DEF Throw, Fault, redisVars, poolVars
  <2> QED BY <1>a, <1>b, <1>d, <2>1, <2>2
<1>6. ASSUME NEW h \in Handlers, Undo(h) \/ UndoFails(h) PROVE PipelineTypeOK'
  <2>1. handler[h].key \in Keys /\ handler[h].body \in Nat
    BY <1>e, <1>6 DEF Undo, UndoFails
  <2>2. Done(h)
    BY <1>6 DEF Undo, UndoFails, ReplyError, Done, Fault
  <2>3. stored' \in [Keys -> RedisType] /\ forgotten' \in [Keys -> Nat]
    BY <1>a, <1>d, <1>f, <1>6, <2>1 DEF Undo, UndoFails, redisVars
  <2>4. UNCHANGED <<owner, poolVars, effects>>
    BY <1>6 DEF Undo, UndoFails
  <2> QED BY <1>b, <1>d, <2>1, <2>2, <2>3, <2>4, DoneTypes DEF poolVars
<1>7. ASSUME NEW k \in Keys, Expire(k) PROVE PipelineTypeOK'
  <2>1. stored' \in [Keys -> RedisType] /\ forgotten' \in [Keys -> Nat]
    BY <1>f, <1>7 DEF Expire
  <2> QED BY <1>a, <1>b, <1>d, <1>7, <2>1 DEF Expire, poolVars
<1>8. ASSUME NEW h \in Handlers, Begin(h) PROVE PipelineTypeOK'
  <2>1. PICK c \in Connections \ inUse :
          /\ inUse' = inUse \cup {c}
          /\ setting' = [setting EXCEPT ![c] = Tenant(h)]
          /\ handler' = [handler EXCEPT ![h].pc = "commit", ![h].connection = c]
    BY <1>8 DEF Begin
  <2>2. handler' \in [Handlers -> HandlerType]
    BY <1>a, <2>1, HandlerTypes
  <2>3. Tenant(h) \in Merchants
    BY <1>d, <1>e, <1>8 DEF Begin, Tenant
  <2>4. setting' \in [Connections -> Merchants \cup {None}] /\ inUse' \subseteq Connections
    BY <1>d, <2>1, <2>3
  <2> QED BY <1>a, <1>b, <1>d, <1>8, <2>2, <2>4 DEF Begin, redisVars
<1>9. ASSUME NEW h \in Handlers, Commit(h) PROVE PipelineTypeOK'
  <2> DEFINE k == handler[h].key
             n == effects[k] + 1
             scope == <<Tenant(h), setting[handler[h].connection]>>
  <2>1. k \in Keys /\ n \in Nat
    BY <1>d, <1>e, <1>9 DEF Commit
  <2>2. handler' = [handler EXCEPT ![h].pc = "store", ![h].body = n]
        /\ effects' = [effects EXCEPT ![k] = n] /\ scopes' = scopes \cup {scope}
    BY <1>9 DEF Commit
  <2>3. handler' \in [Handlers -> HandlerType]
    <3> HIDE DEF n
    <3> QED BY <1>a, <2>1, <2>2, HandlerTypes
  <2>4. effects' \in [Keys -> Nat]
    BY <1>d, <2>1, <2>2
  <2>5. scope \in (Merchants \cup {None}) \X (Merchants \cup {None})
    <3>1. handler[h].connection \in Connections
      BY <1>9 DEF Commit, Serving
    <3> QED BY <1>d, <2>1, <3>1 DEF Tenant
  <2>6. scopes' \subseteq (Merchants \cup {None}) \X (Merchants \cup {None})
    BY <1>d, <2>2, <2>5
  <2>7. UNCHANGED <<owner, client, redisVars, answers, faults>> /\ EndTransaction(h)
    BY <1>9 DEF Commit
  <2> QED BY <1>a, <1>b, <1>d, <1>g, <2>3, <2>4, <2>6, <2>7 DEF redisVars
<1>10. ASSUME NEW h \in Handlers, Rollback(h) PROVE PipelineTypeOK'
  <2>1. handler' \in [Handlers -> HandlerType]
    BY <1>a, <1>10, HandlerTypes DEF Rollback
  <2> QED BY <1>a, <1>b, <1>d, <1>g, <1>10, <2>1 DEF Rollback, Fault, redisVars
<1>11. ASSUME PlainQuery PROVE PipelineTypeOK'
  <2>1. scopes' \subseteq (Merchants \cup {None}) \X (Merchants \cup {None})
    BY <1>d, <1>11 DEF PlainQuery
  <2> QED BY <1>a, <1>b, <1>d, <1>11, <2>1 DEF PlainQuery, redisVars
<1>12. ASSUME NEW h \in Handlers, Crash(h) PROVE PipelineTypeOK'
  <2>1. handler[h].key \in Keys /\ handler[h].body \in Nat
    BY <1>e, <1>12 DEF Crash
  <2>2. Done(h)
    BY <1>12 DEF Crash, ReplyError, Done, Fault
  <2>3. setting' \in [Connections -> Merchants \cup {None}] /\ inUse' \subseteq Connections
    BY <1>d, <1>g, <1>12 DEF Crash
  <2>4. UNCHANGED <<owner, redisVars, scopes, effects>>
    BY <1>12 DEF Crash
  <2> QED BY <1>a, <1>b, <1>d, <2>1, <2>2, <2>3, <2>4, DoneTypes DEF redisVars
<1>13. CASE UNCHANGED vars
  BY <1>13 DEF vars, redisVars, poolVars, PipelineTypeOK
<1> QED BY <1>1, <1>2, <1>3, <1>4, <1>5, <1>6, <1>7, <1>8, <1>9, <1>10, <1>11, <1>12, <1>13
        DEF Next, Serve

-----------------------------------------------------------------------------
(***************************************************************************)
(* The invariant                                                           *)
(***************************************************************************)
PipelineInv == Serving /\ Claimed /\ Known /\ Isolated

\* Only h is changed.
Others(h) == \A g \in Handlers \ {h} : handler'[g] = handler[g]

\* A handler goes on.
LEMMA Moved ==
  ASSUME PipelineTypeOK, NEW h \in Handlers,
         NEW p \in {"begin", "lookup", "commit", "store", "undo"},
         handler' = [handler EXCEPT ![h].pc = p]
  PROVE  /\ Others(h) /\ handler'[h].pc = p /\ handler'[h].key = handler[h].key
         /\ handler'[h].connection = handler[h].connection
         /\ handler'[h].body = handler[h].body
BY DEF PipelineTypeOK, Others

\* A handler is done.
LEMMA Rested ==
  ASSUME PipelineTypeOK, NEW h \in Handlers, handler' = [handler EXCEPT ![h] = Resting]
  PROVE  Others(h) /\ handler'[h].pc = "idle"
BY DEF PipelineTypeOK, Others, Resting

\* As long as transactions stay what they are, so do their connections.
LEMMA StaysIsolated ==
  ASSUME Isolated, UNCHANGED <<owner, setting, inUse>>,
         \A g \in Handlers : handler'[g].pc = "commit" => handler'[g] = handler[g]
  PROVE  Isolated'
<1>1. \A g \in Handlers : handler'[g].pc = "commit" => Tenant(g)' = Tenant(g)
  BY DEF Tenant
<1>2. \A g \in Handlers : handler'[g].pc = "commit" =>
        /\ handler'[g].connection \in inUse'
        /\ setting'[handler'[g].connection] = Tenant(g)'
  <2> HIDE DEF Tenant
  <2> QED BY <1>1 DEF Isolated
<1>3. \A f, g \in Handlers :
        f # g /\ handler'[f].pc = "commit" /\ handler'[g].pc = "commit" =>
          handler'[f].connection # handler'[g].connection
  BY DEF Isolated
<1>4. \A c \in Connections \ inUse' : setting'[c] = None
  BY DEF Isolated
<1> QED BY <1>2, <1>3, <1>4 DEF Isolated

\* A handler that leaves its work, with its transaction if it has one, and
\* leaves Redis as it is, keeps the invariant.
LEMMA LeavingKeeps ==
  ASSUME PipelineTypeOK, PipelineInv, NEW h \in Handlers, Others(h),
         \/ handler'[h].pc = "idle"
         \/ handler'[h].pc = "undo" /\ AtWork(h) /\ handler'[h].key = handler[h].key,
         UNCHANGED <<owner, stored, forgotten, effects>>,
         IF handler[h].pc = "commit" THEN EndTransaction(h) ELSE UNCHANGED <<setting, inUse>>
  PROVE  PipelineInv'
<1> USE DEF PipelineInv, Others
<1>1. Serving'
  BY DEF Serving, AtWork
<1>2. Claimed'
  BY DEF Claimed, AtWork
<1>3. Known'
  BY DEF Known
<1>4. Isolated'
  <2>1. CASE handler[h].pc # "commit"
    BY <2>1, StaysIsolated DEF AtWork
  <2>2. CASE handler[h].pc = "commit"
    <3> DEFINE c == handler[h].connection
    <3>1. inUse' = inUse \ {c} /\ c \in Connections /\ setting'[c] = None
          /\ \A d \in Connections \ {c} : setting'[d] = setting[d]
      BY <2>2 DEF EndTransaction, Serving, PipelineTypeOK
    <3>2. \A g \in Handlers : handler'[g].pc = "commit" =>
            g # h /\ handler[g].connection \in inUse \ {c} /\ handler'[g] = handler[g]
            /\ handler[g].connection \in Connections
      BY <2>2 DEF Isolated, Serving
    <3> HIDE DEF c
    <3> QED BY <3>1, <3>2 DEF Isolated, Tenant
  <2> QED BY <2>1, <2>2
<1> QED BY <1>1, <1>2, <1>3, <1>4

\* What losing a key does.
LEMMA Lost ==
  ASSUME PipelineTypeOK, NEW k \in Keys, Lose(k)
  PROVE  /\ stored'[k].state = "none" /\ forgotten'[k] = effects[k]
         /\ \A l \in Keys \ {k} : stored'[l] = stored[l] /\ forgotten'[l] = forgotten[l]
BY DEF PipelineTypeOK, Lose, Nothing

\* Every step keeps what keys, handlers and connections know of each other.
LEMMA NextInv ==
  ASSUME PipelineTypeOK, PipelineInv, [Next]_vars PROVE PipelineInv'
<1> USE DEF PipelineInv
<1>1. ASSUME NEW k \in Keys, Send(k) PROVE PipelineInv'
  <2>1. PICK h \in Handlers :
          handler' = [handler EXCEPT ![h] = [Resting EXCEPT !.pc = "claim", !.key = k]]
    BY <1>1 DEF Send
  <2>2. Others(h) /\ handler'[h].pc = "claim" /\ handler'[h].key = k
    BY <2>1 DEF PipelineTypeOK, Resting, Others
  <2>3. UNCHANGED <<owner, stored, forgotten, setting, inUse, effects>>
    BY <1>1 DEF Send, redisVars, poolVars
  <2>4. Serving' /\ Claimed'
    BY <2>2, <2>3 DEF Serving, Claimed, AtWork, Others
  <2>5. Known'
    BY <2>2, <2>3 DEF Known, Others
  <2>6. Isolated'
    BY <2>2, <2>3, StaysIsolated DEF Others
  <2> QED BY <2>4, <2>5, <2>6
<1>2. ASSUME NEW h \in Handlers, Claim(h) \/ ClaimTwice(h) PROVE PipelineInv'
  <2> DEFINE k == handler[h].key
  <2>1. k \in Keys /\ handler[h].pc = "claim"
    BY <1>2 DEF Claim, ClaimTwice, Serving
  <2>2. UNCHANGED <<owner, forgotten, setting, inUse, effects>>
    BY <1>2 DEF Claim, ClaimTwice, poolVars
  <2>3. CASE UNCHANGED stored /\ handler' = [handler EXCEPT ![h].pc = "lookup"]
    <3>1. Others(h) /\ handler'[h].pc = "lookup" /\ handler'[h].key = k
      BY <2>3, Moved
    <3>2. Serving' /\ Claimed'
      BY <2>1, <2>3, <3>1 DEF Serving, Claimed, AtWork, Others
    <3>3. Known'
      BY <2>2, <2>3, <3>1 DEF Known, Others
    <3>4. Isolated'
      BY <2>2, <3>1, StaysIsolated DEF Others
    <3> QED BY <3>2, <3>3, <3>4
  <2>4. CASE /\ stored[k] = Nothing /\ stored' = [stored EXCEPT ![k] = InFlight]
             /\ \/ handler' = [handler EXCEPT ![h].pc = "begin"]
                \/ handler' = [handler EXCEPT ![h].pc = "lookup"]
    <3>1. Others(h) /\ handler'[h].pc \in {"begin", "lookup"} /\ handler'[h].key = k
      <4>1. CASE handler' = [handler EXCEPT ![h].pc = "begin"]
        BY <4>1, Moved
      <4>2. CASE handler' = [handler EXCEPT ![h].pc = "lookup"]
        BY <4>2, Moved
      <4> QED BY <2>4, <4>1, <4>2
    <3>2. /\ stored[k].state = "none" /\ stored'[k].state = "inflight"
          /\ \A l \in Keys \ {k} : stored'[l] = stored[l]
      BY <2>1, <2>4 DEF PipelineTypeOK, Nothing, InFlight
    <3> HIDE DEF k
    <3>3. \A g \in Handlers : AtWork(g) => handler[g].key # k
      BY <3>2 DEF Claimed
    <3>4. Serving'
      BY <2>1, <3>1 DEF Serving, Others
    <3>5. Claimed'
      <4>1. \A g \in Handlers \ {h} : AtWork(g)' => AtWork(g) /\ handler'[g] = handler[g]
        BY <3>1 DEF AtWork, Others
      <4>2. \A g \in Handlers : AtWork(g)' => stored'[handler'[g].key].state = "inflight"
        BY <3>1, <3>2, <4>1 DEF Claimed, Serving, AtWork
      <4> QED BY <3>1, <3>3, <4>1, <4>2 DEF Claimed
    <3>6. Known'
      BY <2>1, <2>2, <3>1, <3>2 DEF Known, Others
    <3>7. Isolated'
      BY <2>2, <3>1, StaysIsolated DEF Others
    <3> QED BY <3>4, <3>5, <3>6, <3>7
  <2> QED BY <1>2, <2>3, <2>4 DEF Claim, ClaimTwice
<1>3. ASSUME NEW h \in Handlers, Lookup(h) PROVE PipelineInv'
  <2>1. handler' = [handler EXCEPT ![h] = Resting] /\ handler[h].pc # "commit"
        /\ UNCHANGED <<owner, stored, forgotten, setting, inUse, effects>>
    BY <1>3 DEF Lookup, Reply, ReplyError, redisVars, poolVars
  <2> QED BY <2>1, Rested, LeavingKeeps
<1>4. ASSUME NEW h \in Handlers, Store(h) PROVE PipelineInv'
  <2> DEFINE k == handler[h].key
  <2>1. handler[h].pc = "store" /\ k \in Keys
    BY <1>4 DEF Store, Serving
  <2>2. Others(h) /\ handler'[h].pc = "idle"
    BY <1>4, Rested DEF Store, Reply
  <2>3. UNCHANGED <<owner, forgotten, setting, inUse, effects>>
    BY <1>4 DEF Store, poolVars
  <2>4. /\ stored'[k].state = "response" /\ stored'[k].body = effects[k]
        /\ forgotten[k] < effects[k]
        /\ \A l \in Keys \ {k} : stored'[l] = stored[l]
    BY <1>4, <2>1 DEF Store, Response, Known, PipelineTypeOK
  <2>5. \A g \in Handlers \ {h} : AtWork(g) => handler[g].key # k
    BY <2>1 DEF Claimed, AtWork
  <2> HIDE DEF k
  <2>6. Serving'
    BY <2>2 DEF Serving, Others
  <2>7. Claimed'
    <3>1. \A g \in Handlers : AtWork(g)' => AtWork(g) /\ handler'[g] = handler[g] /\ g # h
      BY <2>2 DEF AtWork, Others
    <3> QED BY <2>4, <2>5, <3>1 DEF Claimed, Serving, AtWork
  <2>8. Known'
    BY <2>2, <2>3, <2>4 DEF Known, Others
  <2>9. Isolated'
    BY <2>2, <2>3, StaysIsolated DEF Others
  <2> QED BY <2>6, <2>7, <2>8, <2>9
<1>5. ASSUME NEW h \in Handlers, Throw(h) \/ Rollback(h) PROVE PipelineInv'
  <2>1. /\ handler' = [handler EXCEPT ![h].pc = "undo"] /\ AtWork(h)
        /\ UNCHANGED <<owner, stored, forgotten, effects>>
        /\ IF handler[h].pc = "commit" THEN EndTransaction(h) ELSE UNCHANGED <<setting, inUse>>
    BY <1>5 DEF Throw, Rollback, AtWork, redisVars, poolVars
  <2>2. Others(h) /\ handler'[h].pc = "undo" /\ handler'[h].key = handler[h].key
    BY <2>1, Moved
  <2> QED BY <2>1, <2>2, LeavingKeeps
<1>6. ASSUME NEW h \in Handlers, UndoFails(h) \/ Crash(h) PROVE PipelineInv'
  <2>1. handler' = [handler EXCEPT ![h] = Resting]
        /\ UNCHANGED <<owner, stored, forgotten, effects>>
        /\ IF handler[h].pc = "commit" THEN EndTransaction(h) ELSE UNCHANGED <<setting, inUse>>
    BY <1>6 DEF UndoFails, Crash, ReplyError, redisVars, poolVars
  <2> QED BY <2>1, Rested, LeavingKeeps
<1>7. ASSUME NEW h \in Handlers, Undo(h) PROVE PipelineInv'
  <2> DEFINE k == handler[h].key
  <2>1. handler[h].pc = "undo" /\ k \in Keys
    BY <1>7 DEF Undo, Serving
  <2>2. Others(h) /\ handler'[h].pc = "idle"
    BY <1>7, Rested DEF Undo, ReplyError
  <2>3. UNCHANGED <<owner, setting, inUse, effects>>
    BY <1>7 DEF Undo, poolVars
  <2>4. /\ stored'[k].state = "none" /\ forgotten'[k] = effects[k]
        /\ \A l \in Keys \ {k} : stored'[l] = stored[l] /\ forgotten'[l] = forgotten[l]
    <3>1. Lose(k)
      BY <1>7 DEF Undo
    <3> QED BY <2>1, <3>1 DEF PipelineTypeOK, Lose, Nothing
  <2>5. \A g \in Handlers \ {h} : AtWork(g) => handler[g].key # k
    BY <2>1 DEF Claimed, AtWork
  <2> HIDE DEF k
  <2>6. \A g \in Handlers : handler'[g].pc # "idle" => handler'[g] = handler[g] /\ g # h
    BY <2>2 DEF Others
  <2>7. Serving'
    BY <2>6 DEF Serving
  <2>8. Claimed'
    <3>1. \A g \in Handlers : AtWork(g)' => AtWork(g) /\ handler'[g] = handler[g] /\ g # h
      BY <2>6 DEF AtWork
    <3> QED BY <2>4, <2>5, <3>1 DEF Claimed, Serving, AtWork
  <2>9. Known'
    <3>1. \A l \in Keys : effects[l] \in Nat
      BY DEF PipelineTypeOK
    <3>2. \A g \in Handlers : handler'[g].pc \in {"begin", "commit", "store"} =>
            /\ handler[g].key \in Keys \ {k} /\ handler'[g] = handler[g]
      BY <2>5, <2>6 DEF AtWork, Serving
    <3> QED BY <2>3, <2>4, <3>1, <3>2 DEF Known
  <2>10. Isolated'
    BY <2>2, <2>3, StaysIsolated DEF Others
  <2> QED BY <2>7, <2>8, <2>9, <2>10
<1>8. ASSUME NEW k \in Keys, Expire(k) PROVE PipelineInv'
  <2>1. /\ stored'[k].state = "none" /\ forgotten'[k] = effects[k]
        /\ \A l \in Keys \ {k} : stored'[l] = stored[l] /\ forgotten'[l] = forgotten[l]
    BY <1>8, Lost DEF Expire
  <2>2. UNCHANGED <<owner, handler, setting, inUse, effects>>
    BY <1>8 DEF Expire, poolVars
  <2>3. \A g \in Handlers : AtWork(g) => handler[g].key \in Keys \ {k}
    BY <1>8 DEF Expire, Unattended, AtWork, Serving
  <2>4. Serving' /\ Claimed'
    BY <2>1, <2>2, <2>3 DEF Serving, Claimed, AtWork
  <2>5. Known'
    <3>1. \A l \in Keys : effects[l] \in Nat
      BY DEF PipelineTypeOK
    <3> QED BY <2>1, <2>2, <2>3, <3>1 DEF Known, AtWork
  <2>6. Isolated'
    BY <2>2, StaysIsolated
  <2> QED BY <2>4, <2>5, <2>6
<1>9. ASSUME NEW h \in Handlers, Begin(h) PROVE PipelineInv'
  <2>1. PICK c \in Connections \ inUse :
          /\ inUse' = inUse \cup {c}
          /\ setting' = [setting EXCEPT ![c] = Tenant(h)]
          /\ handler' = [handler EXCEPT ![h].pc = "commit", ![h].connection = c]
    BY <1>9 DEF Begin
  <2>2. handler[h].pc = "begin" /\ UNCHANGED <<owner, stored, forgotten, effects>>
    BY <1>9 DEF Begin, redisVars
  <2>3. Others(h) /\ handler'[h].pc = "commit" /\ handler'[h].key = handler[h].key
        /\ handler'[h].connection = c
    BY <2>1 DEF PipelineTypeOK, Others
  <2>4. setting'[c] = Tenant(h) /\ \A d \in Connections \ {c} : setting'[d] = setting[d]
    BY <2>1 DEF PipelineTypeOK
  <2>5. Serving' /\ Claimed'
    BY <2>2, <2>3 DEF Serving, Claimed, AtWork, Others
  <2>6. Known'
    BY <2>2, <2>3 DEF Known, Others
  <2>7. Isolated'
    <3>1. Tenant(h)' = Tenant(h)
      BY <2>2, <2>3 DEF Tenant
    <3>2. \A g \in Handlers \ {h} : handler'[g].pc = "commit" =>
            /\ handler'[g].connection = handler[g].connection
            /\ handler[g].connection \in Connections \ {c} /\ Tenant(g)' = Tenant(g)
      BY <2>1, <2>2, <2>3 DEF Isolated, Serving, Tenant, Others
    <3>3. \A g \in Handlers : handler'[g].pc = "commit" =>
            /\ handler'[g].connection \in inUse'
            /\ setting'[handler'[g].connection] = Tenant(g)'
      <4>1. handler'[h].connection \in inUse' /\ setting'[handler'[h].connection] = Tenant(h)'
        BY <2>1, <2>3, <2>4, <3>1
      <4>2. \A g \in Handlers \ {h} : handler'[g].pc = "commit" =>
              /\ handler[g].connection \in inUse'
              /\ setting'[handler[g].connection] = Tenant(g)
        BY <2>1, <2>3, <2>4, <3>2 DEF Isolated, Others
      <4> HIDE DEF Tenant
      <4> QED BY <3>2, <4>1, <4>2
    <3>4. \A f, g \in Handlers :
            f # g /\ handler'[f].pc = "commit" /\ handler'[g].pc = "commit" =>
              handler'[f].connection # handler'[g].connection
      BY <2>3, <3>2 DEF Isolated, Others
    <3>5. \A d \in Connections \ inUse' : setting'[d] = None
      BY <2>1, <2>4 DEF Isolated
    <3> QED BY <3>3, <3>4, <3>5 DEF Isolated
  <2> QED BY <2>5, <2>6, <2>7
<1>10. ASSUME NEW h \in Handlers, Commit(h) PROVE PipelineInv'
  <2> DEFINE k == handler[h].key
             c == handler[h].connection
  <2>1. handler[h].pc = "commit" /\ k \in Keys /\ c \in Connections
        /\ UNCHANGED <<owner, stored, forgotten>>
    BY <1>10 DEF Commit, Serving, redisVars
  <2>2. Others(h) /\ handler'[h].pc = "store" /\ handler'[h].key = k
        /\ handler'[h].body = effects[k] + 1
    BY <1>10 DEF Commit, PipelineTypeOK, Others
  <2>3. effects'[k] = effects[k] + 1 /\ \A l \in Keys \ {k} : effects'[l] = effects[l]
    BY <1>10, <2>1 DEF Commit, PipelineTypeOK
  <2>4. inUse' = inUse \ {c} /\ setting'[c] = None
        /\ \A d \in Connections \ {c} : setting'[d] = setting[d]
    BY <1>10, <2>1 DEF Commit, EndTransaction, PipelineTypeOK
  <2>5. \A g \in Handlers \ {h} : AtWork(g) => handler[g].key # k
    BY <2>1 DEF Claimed, AtWork
  <2>6. stored[k].state = "inflight" /\ forgotten[k] = effects[k] /\ effects[k] \in Nat
    BY <2>1 DEF Claimed, Known, AtWork, PipelineTypeOK
  <2> HIDE DEF k, c
  <2>7. Serving'
    BY <2>1, <2>2 DEF Serving, Others
  <2>8. Claimed'
    <3>1. \A g \in Handlers : AtWork(g)' => AtWork(g) /\ handler'[g].key = handler[g].key
      BY <2>1, <2>2 DEF AtWork, Others, k
    <3> QED BY <2>1, <3>1 DEF Claimed
  <2>9. Known'
    <3>1. \A g \in Handlers \ {h} : handler'[g].pc \in {"begin", "commit", "store"} =>
            handler[g].key \in Keys \ {k} /\ handler'[g] = handler[g]
      BY <2>2, <2>5 DEF AtWork, Serving, Others
    <3> QED BY <2>1, <2>2, <2>3, <2>6, <3>1 DEF Known
  <2>10. Isolated'
    <3>1. \A g \in Handlers : handler'[g].pc = "commit" =>
            g # h /\ handler[g].connection \in inUse \ {c} /\ handler'[g] = handler[g]
            /\ handler[g].connection \in Connections
      BY <2>1, <2>2 DEF Isolated, Serving, Others, c
    <3> QED BY <2>1, <2>4, <3>1 DEF Isolated, Tenant
  <2> QED BY <2>7, <2>8, <2>9, <2>10
<1>11. CASE PlainQuery
  BY <1>11 DEF PlainQuery, Serving, Claimed, Known, Isolated, AtWork, Tenant, redisVars
<1>12. CASE UNCHANGED vars
  BY <1>12 DEF vars, redisVars, poolVars, Serving, Claimed, Known, Isolated, AtWork, Tenant
<1> QED BY <1>1, <1>2, <1>3, <1>4, <1>5, <1>6, <1>7, <1>8, <1>9, <1>10, <1>11, <1>12
        DEF Next, Serve

\* Types of all variables, and the invariant, for every instance
\* (IdempotencyInterceptor, MerchantContextInterceptor, tenantGuard).
THEOREM PipelineSafe == Spec => [](PipelineTypeOK /\ PipelineInv)
<1>1. Init => PipelineTypeOK /\ PipelineInv
  <2>1. ASSUME Init PROVE Claimed /\ Known /\ Isolated
    BY <2>1 DEF Init, Claimed, Known, Isolated, AtWork, Resting, Nothing
  <2> QED BY <2>1, InitTypes DEF PipelineInv
<1>2. PipelineTypeOK /\ PipelineInv /\ [Next]_vars => (PipelineTypeOK /\ PipelineInv)'
  BY NextTypes, NextInv DEF PipelineInv
<1> QED BY <1>1, <1>2, PTL DEF Spec

-----------------------------------------------------------------------------
(***************************************************************************)
(* Tenants                                                                 *)
(***************************************************************************)

\* A query runs with the setting of its transaction, or of a free connection.
LEMMA NextScopes ==
  ASSUME PipelineInv, QueriesSeeTheirTenant, [Next]_vars PROVE QueriesSeeTheirTenant'
<1>1. CASE UNCHANGED scopes
  BY <1>1 DEF QueriesSeeTheirTenant
<1>2. ASSUME NEW h \in Handlers, Commit(h) PROVE QueriesSeeTheirTenant'
  <2>1. Tenant(h) = setting[handler[h].connection]
    BY <1>2 DEF Commit, PipelineInv, Isolated
  <2>2. scopes' = scopes \cup {<<Tenant(h), setting[handler[h].connection]>>}
    BY <1>2 DEF Commit
  <2> HIDE DEF Tenant
  <2> QED BY <2>1, <2>2 DEF QueriesSeeTheirTenant
<1>3. ASSUME PlainQuery PROVE QueriesSeeTheirTenant'
  <2>1. PICK c \in Connections \ inUse : scopes' = scopes \cup {<<None, setting[c]>>}
    BY <1>3 DEF PlainQuery
  <2>2. setting[c] = None
    BY DEF PipelineInv, Isolated
  <2> QED BY <2>1, <2>2 DEF QueriesSeeTheirTenant
<1> QED BY <1>1, <1>2, <1>3
        DEF Next, Serve, Send, Expire, Claim, ClaimTwice, Lookup, Begin, Store, Throw, Undo,
            UndoFails, Rollback, Crash, poolVars, vars

\* A query of a merchant's request sees that merchant's rows, and one without a
\* merchant all of them, whichever connection serves it (tenantGuard).
THEOREM TenantsStayApart == Spec => []QueriesSeeTheirTenant
<1>1. Init => QueriesSeeTheirTenant
  BY DEF Init, QueriesSeeTheirTenant
<1> QED BY <1>1, NextScopes, PipelineSafe, PTL DEF Spec

-----------------------------------------------------------------------------
(***************************************************************************)
(* The promise of an Idempotency-Key                                       *)
(***************************************************************************)
remembered == [k \in Keys |-> forgotten[k] < effects[k]]
promiseVars == <<effects, remembered, answers>>

\* The memory of one key changes.
LEMMA Remembering ==
  ASSUME NEW k \in Keys, NEW known \in BOOLEAN,
         (forgotten'[k] < effects'[k]) = known,
         \A l \in Keys \ {k} : forgotten'[l] = forgotten[l] /\ effects'[l] = effects[l]
  PROVE  remembered' = [remembered EXCEPT ![k] = known]
<1> DEFINE was(l) == forgotten[l] < effects[l]
           is(l) == forgotten'[l] < effects'[l]
<1>1. is(k) = known /\ \A l \in Keys \ {k} : is(l) = was(l)
  OBVIOUS
<1>2. remembered = [l \in Keys |-> was(l)] /\ remembered' = [l \in Keys |-> is(l)]
  BY DEF remembered
<1> HIDE DEF was, is
<1> QED BY <1>1, <1>2

\* A response given to the client is that of the last effect.
LEMMA Answers ==
  ASSUME PipelineTypeOK, PipelineInv, NEW h \in Handlers, handler[h].key \in Keys,
         UNCHANGED <<effects, forgotten>>, forgotten[handler[h].key] < effects[handler[h].key],
         \/ UNCHANGED answers
         \/ answers' = [answers EXCEPT ![handler[h].key] = @ \cup {effects[handler[h].key]}]
  PROVE  [Promise!Next]_promiseVars
<1>1. UNCHANGED <<effects, remembered>> /\ remembered[handler[h].key]
  BY DEF remembered
<1> QED BY <1>1 DEF promiseVars, remembered, Promise!Next, Promise!Answer

\* A key that is lost is forgotten, or was not remembered.
LEMMA Forgets ==
  ASSUME PipelineTypeOK, PipelineInv, NEW k \in Keys, Lose(k), UNCHANGED <<effects, answers>>
  PROVE  [Promise!Next]_promiseVars
<1>1. forgotten'[k] = effects[k] /\ \A l \in Keys \ {k} : forgotten'[l] = forgotten[l]
  BY Lost
<1>2. remembered' = [remembered EXCEPT ![k] = FALSE]
  <2>1. (forgotten'[k] < effects'[k]) = FALSE
    BY <1>1 DEF PipelineTypeOK
  <2> QED BY <1>1, <2>1, Remembering
<1>3. CASE remembered[k]
  BY <1>2, <1>3 DEF remembered, Promise!Next, Promise!Forget
<1>4. CASE ~remembered[k]
  <2>1. forgotten[k] = effects[k]
    <3>1. forgotten[k] \in Nat /\ effects[k] \in Nat
      BY DEF PipelineTypeOK
    <3>2. ~(forgotten[k] < effects[k])
      BY <1>4 DEF remembered
    <3>3. forgotten[k] <= effects[k]
      BY DEF PipelineInv, Known
    <3> QED BY <3>1, <3>2, <3>3
  <2>2. \A l \in Keys : forgotten'[l] = forgotten[l] /\ effects'[l] = effects[l]
    BY <1>1, <2>1
  <2>3. remembered' = remembered
    BY <2>2 DEF remembered
  <2> QED BY <2>3 DEF promiseVars
<1> QED BY <1>3, <1>4

\* Every step is a step of the promise or changes nothing of it.
LEMMA StepKeepsPromise ==
  ASSUME PipelineTypeOK, PipelineInv, [Next]_vars PROVE [Promise!Next]_promiseVars
<1>1. ASSUME UNCHANGED <<effects, forgotten, answers>> PROVE [Promise!Next]_promiseVars
  BY <1>1 DEF promiseVars, remembered
<1>2. ASSUME NEW h \in Handlers, Lookup(h) PROVE [Promise!Next]_promiseVars
  <2> DEFINE k == handler[h].key
  <2>1. k \in Keys /\ UNCHANGED <<effects, forgotten>>
    BY <1>2 DEF Lookup, PipelineInv, Serving, redisVars
  <2>2. CASE UNCHANGED answers
    BY <1>1, <2>1, <2>2
  <2>3. CASE /\ stored[k].state = "response"
             /\ answers' = [answers EXCEPT ![k] = @ \cup {stored[k].body}]
    <3>1. stored[k].body = effects[k] /\ forgotten[k] < effects[k]
      BY <2>1, <2>3 DEF PipelineInv, Known
    <3> QED BY <2>1, <2>3, <3>1, Answers
  <2> QED BY <1>2, <2>2, <2>3 DEF Lookup, Reply, ReplyError
<1>3. ASSUME NEW h \in Handlers, Store(h) PROVE [Promise!Next]_promiseVars
  <2> DEFINE k == handler[h].key
  <2>1. k \in Keys /\ UNCHANGED <<effects, forgotten>>
    BY <1>3 DEF Store, PipelineInv, Serving
  <2>2. handler[h].body = effects[k] /\ forgotten[k] < effects[k]
    BY <1>3 DEF Store, PipelineInv, Known
  <2>3. answers' = answers \/ answers' = [answers EXCEPT ![k] = @ \cup {handler[h].body}]
    BY <1>3 DEF Store, Reply
  <2> QED BY <2>1, <2>2, <2>3, Answers
<1>4. ASSUME NEW h \in Handlers, Undo(h) PROVE [Promise!Next]_promiseVars
  BY <1>4, Forgets DEF Undo, ReplyError, PipelineInv, Serving
<1>5. ASSUME NEW k \in Keys, Expire(k) PROVE [Promise!Next]_promiseVars
  BY <1>5, Forgets DEF Expire
<1>6. ASSUME NEW h \in Handlers, Commit(h) PROVE [Promise!Next]_promiseVars
  <2> DEFINE k == handler[h].key
  <2>1. k \in Keys /\ UNCHANGED <<forgotten, answers>>
        /\ effects' = [effects EXCEPT ![k] = @ + 1]
    BY <1>6 DEF Commit, PipelineInv, Serving, redisVars
  <2>2. forgotten[k] = effects[k]
    BY <1>6 DEF Commit, PipelineInv, Known
  <2> HIDE DEF k
  <2>3. effects[k] \in Nat /\ effects'[k] = effects[k] + 1
        /\ \A l \in Keys \ {k} : forgotten'[l] = forgotten[l] /\ effects'[l] = effects[l]
    BY <2>1 DEF PipelineTypeOK
  <2>4. ~(forgotten[k] < effects[k]) /\ (forgotten'[k] < effects'[k]) = TRUE
    BY <2>1, <2>2, <2>3
  <2>5. ~remembered[k]
    BY <2>1, <2>4 DEF remembered
  <2>6. remembered' = [remembered EXCEPT ![k] = TRUE]
    BY <2>1, <2>3, <2>4, Remembering
  <2> QED BY <2>1, <2>5, <2>6 DEF remembered, Promise!Next, Promise!TakeEffect
<1> QED BY <1>1, <1>2, <1>3, <1>4, <1>5, <1>6
        DEF Next, Serve, Send, Claim, ClaimTwice, Begin, Throw, UndoFails, Rollback, Crash,
            PlainQuery, ReplyError, redisVars, vars

\* "A retried request with the same key replays the original response instead of
\* creating a second invoice" (EgofiClient, IdempotencyInterceptor): the pipeline
\* implements OnceOnly.
THEOREM PipelineKeepsPromise == Spec => KeepsPromise
<1>1. Init => Promise!Init
  <2> SUFFICES ASSUME Init PROVE remembered = [k \in Keys |-> FALSE]
    BY DEF Init, Promise!Init, remembered
  <2> DEFINE was(k) == forgotten[k] < effects[k]
  <2>1. \A k \in Keys : was(k) = FALSE
    <3> SUFFICES ASSUME NEW k \in Keys PROVE (forgotten[k] < effects[k]) = FALSE
      OBVIOUS
    <3>1. forgotten[k] = 0 /\ effects[k] = 0
      BY DEF Init
    <3>2. ~(forgotten[k] < effects[k])
      BY <3>1
    <3> QED BY <3>2
  <2>2. remembered = [k \in Keys |-> was(k)]
    BY DEF remembered
  <2> HIDE DEF was
  <2> QED BY <2>1, <2>2
<1>2. PipelineTypeOK /\ PipelineInv /\ [Next]_vars => [Promise!Next]_promiseVars
  BY StepKeepsPromise
<1> QED BY <1>1, <1>2, PipelineSafe, PTL DEF Spec, KeepsPromise, Promise!Spec, promiseVars, remembered
=============================================================================
