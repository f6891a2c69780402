--------------------------- MODULE RequestPipeline ---------------------------
(***************************************************************************)
(* A mutating request on its way through the backend: the client sends it  *)
(* with an Idempotency-Key (EgofiClient.request), the interceptor claims   *)
(* the key in Redis, the handler's query runs as one batch with the        *)
(* tenant's setting on a pooled connection (tenantGuard), and the response *)
(* is stored and sent.  Workers and public endpoints use the same pool     *)
(* without a tenant.  Every action is one call to Redis or PostgreSQL.     *)
(***************************************************************************)
EXTENDS Naturals

CONSTANTS
  Keys,         \* (principal, method, url, Idempotency-Key)
  Merchants,
  Handlers,     \* requests being served at the same time
  Connections,  \* the pool
  MaxFaults     \* bound: crashes, failed calls, lost responses

ASSUME PipelineBounds == MaxFaults \in Nat

None == "none"
ASSUME NoneAssumption == None \notin Merchants

VARIABLES
  owner,     \* the merchant a key belongs to: the principal is part of it
  client,    \* what the client of a key is at: waiting, done
  stored,    \* the Redis value of a key
  handler,   \* requests being served: pc and locals
  setting,   \* app.current_merchant_id by connection
  inUse,     \* connections with a transaction open
  effects,   \* history: times the request of a key has taken effect
  forgotten, \* history: effects taken before the key was last lost
  answers,   \* history: effects whose response the client has received
  scopes,    \* history: (tenant of the caller, tenant of the query) pairs
  faults

redisVars == <<stored, forgotten>>
poolVars == <<setting, inUse, scopes>>
vars == <<owner, client, redisVars, handler, poolVars, effects, answers, faults>>

\* A Redis value: nothing, in flight, or the response to an effect.
Nothing == [state |-> "none", body |-> 0]
InFlight == [state |-> "inflight", body |-> 0]
Response(n) == [state |-> "response", body |-> n]

Resting == [pc |-> "idle", key |-> None, connection |-> None, body |-> 0]

Init ==
  /\ owner \in [Keys -> Merchants]
  /\ client = [k \in Keys |-> "new"]
  /\ stored = [k \in Keys |-> Nothing]
  /\ handler = [h \in Handlers |-> Resting]
  /\ setting = [c \in Connections |-> None] /\ inUse = {}
  /\ effects = [k \in Keys |-> 0] /\ forgotten = [k \in Keys |-> 0]
  /\ answers = [k \in Keys |-> {}]
  /\ scopes = {} /\ faults = 0

-----------------------------------------------------------------------------
(***************************************************************************)
(* The client                                                              *)
(***************************************************************************)
Fault == faults < MaxFaults /\ faults' = faults + 1

\* The request, first or again after a timeout or an error.  Handlers are
\* alike: any idle one takes it.
Send(k) ==
  /\ client[k] # "done"
  /\ \E h \in Handlers :
       /\ handler[h].pc = "idle"
       /\ h = CHOOSE o \in Handlers : handler[o].pc = "idle"
       /\ handler' = [handler EXCEPT ![h] = [Resting EXCEPT !.pc = "claim", !.key = k]]
  /\ client' = [client EXCEPT ![k] = "waiting"]
  /\ UNCHANGED <<owner, redisVars, poolVars, effects, answers, faults>>

\* The response of a handler reaches the client or is lost.  An error or a
\* conflict leaves it waiting: it may send the request again.
Reply(h, body) ==
  /\ handler' = [handler EXCEPT ![h] = Resting]
  /\ \/ /\ client' = [client EXCEPT ![handler[h].key] = "done"]
        /\ answers' = [answers EXCEPT ![handler[h].key] = @ \cup {body}]
        /\ UNCHANGED faults
     \/ Fault /\ UNCHANGED <<client, answers>>

ReplyError(h) == handler' = [handler EXCEPT ![h] = Resting] /\ UNCHANGED <<client, answers>>

-----------------------------------------------------------------------------
(***************************************************************************)
(* IdempotencyInterceptor.intercept                                        *)
(***************************************************************************)

\* Mutant of Claim: GET and SET in place of SET NX.
ClaimAnyway(h) ==
  /\ handler[h].pc = "claim"
  /\ IF stored[handler[h].key].state # "response"
     THEN /\ stored' = [stored EXCEPT ![handler[h].key] = InFlight]
          /\ handler' = [handler EXCEPT ![h].pc = "begin"]
     ELSE UNCHANGED stored /\ handler' = [handler EXCEPT ![h].pc = "lookup"]
  /\ UNCHANGED <<owner, client, forgotten, poolVars, effects, answers, faults>>

\* SET NX
Claim(h) ==
  /\ handler[h].pc = "claim"
  /\ IF stored[handler[h].key] = Nothing
     THEN /\ stored' = [stored EXCEPT ![handler[h].key] = InFlight]
          /\ handler' = [handler EXCEPT ![h].pc = "begin"]
     ELSE UNCHANGED stored /\ handler' = [handler EXCEPT ![h].pc = "lookup"]
  /\ UNCHANGED <<owner, client, forgotten, poolVars, effects, answers, faults>>

\* The connection drops after Redis has set the key: the command is sent once
\* more and told that the key exists.
ClaimTwice(h) ==
  /\ handler[h].pc = "claim"
  /\ stored[handler[h].key] = Nothing
  /\ Fault
  /\ stored' = [stored EXCEPT ![handler[h].key] = InFlight]
  /\ handler' = [handler EXCEPT ![h].pc = "lookup"]
  /\ UNCHANGED <<owner, client, forgotten, poolVars, effects, answers>>

\* GET: in flight, or gone since, is a conflict; else the response is replayed.
Lookup(h) ==
  LET value == stored[handler[h].key]
  IN
  /\ handler[h].pc = "lookup"
  /\ IF value.state = "response" THEN Reply(h, value.body)
     ELSE ReplyError(h) /\ UNCHANGED faults
  /\ UNCHANGED <<owner, redisVars, poolVars, effects>>

\* SET of the response, after the effect.
Store(h) ==
  /\ handler[h].pc = "store"
  /\ stored' = [stored EXCEPT ![handler[h].key] = Response(handler[h].body)]
  /\ Reply(h, handler[h].body)
  /\ UNCHANGED <<owner, forgotten, poolVars, effects>>

\* The handler throws, before or after its effect, or the SET does.
Throw(h) ==
  /\ handler[h].pc \in {"begin", "store"}
  /\ Fault
  /\ handler' = [handler EXCEPT ![h].pc = "undo"]
  /\ UNCHANGED <<owner, client, redisVars, poolVars, effects, answers>>

\* The key is gone; a request that had taken effect can take effect again.
Lose(k) ==
  /\ stored' = [stored EXCEPT ![k] = Nothing]
  /\ forgotten' = [forgotten EXCEPT ![k] = effects[k]]

\* DEL in the catch clause.
Undo(h) ==
  /\ handler[h].pc = "undo"
  /\ Lose(handler[h].key)
  /\ ReplyError(h)
  /\ UNCHANGED <<owner, poolVars, effects, faults>>

\* DEL fails, too: the key stays in flight.
UndoFails(h) ==
  /\ handler[h].pc = "undo"
  /\ Fault
  /\ ReplyError(h)
  /\ UNCHANGED <<owner, redisVars, poolVars, effects>>

\* No request is at work on the key.
Unattended(k) ==
  \A h \in Handlers :
    handler[h].key = k => handler[h].pc \in {"claim", "lookup"}

\* Mutant of Expire: the key in flight is set without EX.
ExpireResponse(k) ==
  /\ stored[k].state = "response" /\ Unattended(k)
  /\ Lose(k)
  /\ UNCHANGED <<owner, client, handler, poolVars, effects, answers, faults>>

\* TTL_SECONDS: a day, which no request lasts.
Expire(k) ==
  /\ stored[k] # Nothing /\ Unattended(k)
  /\ Lose(k)
  /\ UNCHANGED <<owner, client, handler, poolVars, effects, answers, faults>>

-----------------------------------------------------------------------------
(***************************************************************************)
(* The handler's query, and the queries of workers and public endpoints.   *)
(***************************************************************************)

\* MerchantContextInterceptor: the tenant of a request is its principal.
Tenant(h) == owner[handler[h].key]

\* set_config in the transaction of the batch.
Begin(h) ==
  /\ handler[h].pc = "begin"
  /\ \E c \in Connections \ inUse :
       /\ inUse' = inUse \cup {c}
       /\ setting' = [setting EXCEPT ![c] = Tenant(h)]
       /\ handler' = [handler EXCEPT ![h].pc = "commit", ![h].connection = c]
  /\ UNCHANGED <<owner, client, redisVars, scopes, effects, answers, faults>>

\* Mutant of EndTransaction: set_config(..., false).
EndTransactionSession(h) ==
  /\ inUse' = inUse \ {handler[h].connection}
  /\ UNCHANGED setting

\* The setting is local to the transaction.
EndTransaction(h) ==
  /\ inUse' = inUse \ {handler[h].connection}
  /\ setting' = [setting EXCEPT ![handler[h].connection] = None]

\* The query and the end of its transaction.
Commit(h) ==
  LET k == handler[h].key
  IN
  /\ handler[h].pc = "commit"
  /\ scopes' = scopes \cup {<<Tenant(h), setting[handler[h].connection]>>}
  /\ EndTransaction(h)
  /\ effects' = [effects EXCEPT ![k] = @ + 1]
  /\ handler' = [handler EXCEPT ![h].pc = "store", ![h].body = effects[k] + 1]
  /\ UNCHANGED <<owner, client, redisVars, answers, faults>>

\* The batch is rolled back.
Rollback(h) ==
  /\ handler[h].pc = "commit"
  /\ Fault
  /\ EndTransaction(h)
  /\ handler' = [handler EXCEPT ![h].pc = "undo"]
  /\ UNCHANGED <<owner, client, redisVars, scopes, effects, answers>>

\* A query outside a merchant's request opens no transaction.
PlainQuery ==
  /\ \E c \in Connections \ inUse : scopes' = scopes \cup {<<None, setting[c]>>}
  /\ UNCHANGED <<owner, client, redisVars, handler, setting, inUse, effects, answers, faults>>

\* The process dies: the open transaction is rolled back, the key stays.
Crash(h) ==
  /\ handler[h].pc # "idle"
  /\ Fault
  /\ IF handler[h].pc = "commit" THEN EndTransaction(h) ELSE UNCHANGED <<setting, inUse>>
  /\ ReplyError(h)
  /\ UNCHANGED <<owner, redisVars, scopes, effects>>

-----------------------------------------------------------------------------
Serve(h) == Claim(h) \/ Lookup(h) \/ Begin(h) \/ Commit(h) \/ Store(h) \/ Undo(h)

Next ==
  \/ \E k \in Keys : Send(k) \/ Expire(k)
  \/ \E h \in Handlers :
       Serve(h) \/ ClaimTwice(h) \/ Throw(h) \/ UndoFails(h) \/ Rollback(h) \/ Crash(h)
  \/ PlainQuery

Spec == Init /\ [][Next]_vars

\* A request that is served goes on, a client that has no answer sends again,
\* and Redis expires keys.
FairSpec ==
  /\ Spec
  /\ \A h \in Handlers : SF_vars(Serve(h))
  /\ \A k \in Keys : SF_vars(client[k] = "waiting" /\ Send(k)) /\ WF_vars(Expire(k))

-----------------------------------------------------------------------------
(***************************************************************************)
(* Properties                                                              *)
(***************************************************************************)

\* Types of all variables.
PipelineTypeOK ==
  /\ owner \in [Keys -> Merchants]
  /\ client \in [Keys -> {"new", "waiting", "done"}]
  /\ stored \in [Keys -> [state : {"none", "inflight", "response"}, body : Nat]]
  /\ handler \in [Handlers -> [pc : {"idle", "claim", "lookup", "begin", "commit", "store", "undo"},
                               key : Keys \cup {None}, connection : Connections \cup {None},
                               body : Nat]]
  /\ setting \in [Connections -> Merchants \cup {None}] /\ inUse \subseteq Connections
  /\ effects \in [Keys -> Nat] /\ forgotten \in [Keys -> Nat]
  /\ answers \in [Keys -> SUBSET Nat]
  /\ scopes \subseteq (Merchants \cup {None}) \X (Merchants \cup {None})
  /\ faults \in Nat

\* "A retried request with the same key replays the original response instead
\* of creating a second invoice": through retries, crashes and errors, a second
\* effect needs the key to have been deleted or to have expired after the
\* first, and the client is given the response of the last one.
Promise == INSTANCE OnceOnly
             WITH remembered <- [k \in Keys |-> forgotten[k] < effects[k]]
KeepsPromise == Promise!Spec

\* A query sees the rows of its caller's tenant, and one without a tenant all
\* of them, whichever connection of the pool it gets (tenantGuard).
QueriesSeeTheirTenant == \A s \in scopes : s[1] = s[2]

\* A client that keeps trying gets the response: a key left in flight by a
\* crash blocks it for a day, not for ever.
RetryIsAnswered == \A k \in Keys : client[k] = "waiting" ~> client[k] = "done"

\* Retries come before a key expires.
SameDaySpec == Init /\ [][Next /\ \A k \in Keys : ~Expire(k)]_vars

\* "Retrying with the same key replays the original response instead of creating
\* a duplicate" (README): within the day, a request takes effect once.
TakesEffectOnce == \A k \in Keys : effects[k] <= 1
=============================================================================
