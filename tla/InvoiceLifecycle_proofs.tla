----------------------- MODULE InvoiceLifecycle_proofs -----------------------
(***************************************************************************)
(* Theorems about InvoiceLifecycle, for every number of handlers,          *)
(* transfers, exchanges and faults and for every bound.                    *)
(*                                                                         *)
(* One inductive invariant, IInv, carries all of them: Grounded says what  *)
(* a handler may hold between its read of the row and its write, which is  *)
(* what the public invariants need of every commit.                        *)
(***************************************************************************)
EXTENDS InvoiceOverlap, TLAPS

IInv ==
  /\ TypeOK
  /\ Grounded
  /\ DepositBeforeProgress
  /\ TransitionsHaveCause
  /\ DepositsAccounted

-----------------------------------------------------------------------------
(***************************************************************************)
(* The transition table and the status tables                              *)
(***************************************************************************)
\* The actions are the domain of the transition table.
LEMMA ActionsList ==
  Actions = {"issue", "depositDetected", "startConversion", "complianceHold",
             "depositReorged", "payoutSent", "confirm", "underpaid", "overpaid",
             "fail", "refund", "expire", "cooldown"}
BY DEF Actions, Transitions

\* The null is no state, action or status.
LEMMA NoneIsNoData == None \notin States /\ None \notin Actions /\ None \notin ProviderStatuses
BY ActionsList DEF None, States, ProviderStatuses

\* Every action of the table leads to a state.
LEMMA TargetIsState == \A a \in Actions : Target(a) \in States
BY ActionsList DEF Target, Transitions, States

\* A funded state is only ever entered by a deposit or from a funded state.
LEMMA FundedFrom ==
  \A a \in Actions, s \in States :
    Accepts(s, a) /\ Target(a) \in FundedStates =>
      a = "depositDetected" \/ s \in FundedStates
BY ActionsList DEF Accepts, Target, Transitions, FundedStates

\* A pushed status picks an action whose cause that status is.
LEMMA StatusCauses ==
  ASSUME NEW s, NEW p
  PROVE  LET a == ProviderStatusAction(s, p)
         IN  /\ a \in Actions \cup {None}
             /\ a # None /\ (\E e \in Exchanges : <<e, p>> \in posted /\ <<e, p>> \in provEvents)
                  => Cause(a)
BY ActionsList DEF ProviderStatusAction, Cause, Reported, RecordedStatus, None

\* The rail status names one provider status each, except Awaiting.
LEMMA RailStatusInverse ==
  ASSUME NEW p
  PROVE  /\ RailStatus(p) = "Received" => p = "confirming"
         /\ RailStatus(p) = "Converting" => p = "exchanging"
         /\ RailStatus(p) = "PayoutSent" => p = "sending"
         /\ RailStatus(p) = "Settled" => p = "finished"
BY DEF RailStatus

\* A polled status picks an action it is the cause of, once it was posted.
LEMMA DivergedCauses ==
  ASSUME NEW s, NEW p
  PROVE  LET a == DivergedAction(s, RailStatus(p))
         IN  /\ a \in Actions \cup {None}
             /\ a # None /\ (\E e \in Exchanges : <<e, p>> \in posted) => Cause(a)
<1>1. DivergedAction(s, RailStatus(p)) \in Actions \cup {None}
  BY ActionsList DEF DivergedAction
<1>2. ASSUME DivergedAction(s, RailStatus(p)) # None, NEW e \in Exchanges, <<e, p>> \in posted
      PROVE  Cause(DivergedAction(s, RailStatus(p)))
  <2>1. /\ DivergedAction(s, RailStatus(p)) \in {"depositDetected", "startConversion", "payoutSent", "confirm"}
        /\ DivergedAction(s, RailStatus(p)) = "depositDetected" => p \in {"confirming", "exchanging"}
        /\ DivergedAction(s, RailStatus(p)) = "startConversion" => p = "exchanging"
        /\ DivergedAction(s, RailStatus(p)) = "payoutSent" => p = "sending"
        /\ DivergedAction(s, RailStatus(p)) = "confirm" => p = "finished"
    BY <1>2, RailStatusInverse DEF DivergedAction, None
  <2> QED BY <1>2, <2>1 DEF Cause, Reported
<1> QED BY <1>1, <1>2

\* Only a status that was posted makes the sweeper act.
LEMMA DivergedNeedsPosted ==
  \A s, p : p \in {None, "waiting"} => DivergedAction(s, RailStatus(p)) = None
BY DEF DivergedAction, RailStatus, None

-----------------------------------------------------------------------------
(***************************************************************************)
(* Stability: what a handler holds stays true while others move.           *)
(***************************************************************************)

\* The tables a cause is read from only grow.
Grows ==
  /\ deposits \subseteq deposits'
  /\ posted \subseteq posted'
  /\ provEvents \subseteq provEvents'
  /\ Promise!Visited \subseteq Promise!Visited'

HandlersOK == handler \in [Workers -> HandlerRecord] /\ \A w \in Workers : Holds(handler[w])

\* A cause that is there stays: what is recorded and posted only grows.
LEMMA CauseStable ==
  ASSUME Grows PROVE \A a : Cause(a) => Cause(a)'
BY DEF Grows, Cause, Reported, RecordedStatus

\* What a handler holds stays allowed while the records and the log grow.
LEMMA HoldsStable ==
  ASSUME Grows PROVE \A h : Holds(h) => Holds(h)'
BY CauseStable DEF Grows, Holds

\* A worker at rest has the type of a handler.
LEMMA IdleType == Idle \in HandlerRecord
BY DEF Idle, HandlerRecord, Pcs, Maybe

\* So is a handler that goes on with the state it has read or the action it is
\* to apply.
LEMMA HandlerFields ==
  ASSUME NEW h \in HandlerRecord
  PROVE  /\ \A s \in States : [h EXCEPT !.pc = "commit", !.read = s] \in HandlerRecord
         /\ \A a \in Actions : [h EXCEPT !.pc = "read", !.act = a] \in HandlerRecord
BY DEF HandlerRecord, Pcs, Maybe

\* A worker at rest holds nothing.
LEMMA IdleHolds == Holds(Idle)
BY DEF Idle, Holds

\* One handler moves to a record that Holds allows; the others stay.
LEMMA GoToStep ==
  ASSUME IInv, NEW w \in Workers, NEW h \in HandlerRecord, GoTo(w, h), Grows,
         Holds(handler[w])'
  PROVE  HandlersOK'
<1>1. handler' = [handler EXCEPT ![w] = h] /\ handler \in [Workers -> HandlerRecord]
  BY DEF GoTo, IInv, TypeOK
<1>2. ASSUME NEW x \in Workers, x # w PROVE Holds(handler[x])'
  <2>1. Holds(handler[x]) /\ handler'[x] = handler[x]
    BY <1>1, <1>2 DEF IInv, Grounded
  <2> QED BY <2>1, HoldsStable
<1>3. handler' \in [Workers -> HandlerRecord]
  BY <1>1
<1> QED BY <1>2, <1>3 DEF HandlersOK

\* A handler that ends leaves the others as they are.
LEMMA ToIdle ==
  ASSUME IInv, NEW w \in Workers, GoTo(w, Idle), Grows
  PROVE  HandlersOK'
<1>1. handler'[w] = Idle
  BY DEF GoTo, IInv, TypeOK
<1>2. Holds(handler[w])'
  BY <1>1 DEF Holds, Idle
<1> QED BY <1>2, GoToStep, IdleType

\* A handler returns with its transfer, if it has one, on record.
LEMMA ReturnStep ==
  ASSUME IInv, NEW w \in Workers, Return(w), Grows, unmatched \subseteq unmatched',
         handler[w].tx # None => handler[w].tx \in deposits' \cup unmatched'
  PROVE  /\ HandlersOK'
         /\ answered' \subseteq Txs
         /\ expiry' \in {"none", "waiting", "active", "done"}
         /\ DepositsAccounted'
<1>1. handler[w].tx \in Maybe(Txs)
  BY DEF IInv, TypeOK, HandlerRecord
<1>2. HandlersOK'
  BY ToIdle DEF Return
<1>3. answered' \subseteq Txs /\ expiry' \in {"none", "waiting", "active", "done"}
  BY <1>1 DEF Return, Maybe, IInv, TypeOK
<1>4. DepositsAccounted'
  BY DEF Return, DepositsAccounted, IInv, Grows
<1> QED BY <1>2, <1>3, <1>4

\* A handler that throws answers nothing and ends.
LEMMA ThrowStep ==
  ASSUME IInv, NEW w \in Workers, Throw(w), Grows, unmatched \subseteq unmatched'
  PROVE  /\ HandlersOK'
         /\ answered' \subseteq Txs
         /\ expiry' \in {"none", "waiting", "active", "done"}
         /\ DepositsAccounted'
<1>1. HandlersOK'
  BY ToIdle DEF Throw
<1> QED BY <1>1 DEF Throw, IInv, TypeOK, DepositsAccounted, Grows

\* Everything but the handlers and the accounting is kept by a step that
\* leaves the invoice row and its log alone.
LEMMA QuietStep ==
  ASSUME IInv, Grows, UNCHANGED <<state, log, outbox>>, TypeOK', HandlersOK',
         DepositsAccounted',
         (\A e \in Exchanges : provider[e] \notin {None, "waiting"} => <<e, provider[e]>> \in posted)'
  PROVE  IInv'
<1>1. (state \in Promise!Visited)'
  BY DEF IInv, Grounded, Grows
<1>2. DepositBeforeProgress'
  BY DEF IInv, DepositBeforeProgress
<1>3. TransitionsHaveCause'
  BY CauseStable DEF IInv, TransitionsHaveCause
<1>4. Grounded'
  BY <1>1 DEF Grounded, HandlersOK
<1> QED BY <1>2, <1>3, <1>4 DEF IInv

-----------------------------------------------------------------------------
(***************************************************************************)
(* The commit of a transition                                              *)
(***************************************************************************)

\* The row and the log after a commit.
LEMMA CommitEffect ==
  ASSUME IInv, NEW w \in Workers, CommitTransition(w)
  PROVE  /\ handler[w].act \in Actions /\ Cause(handler[w].act)
         /\ handler[w].read \in States \cap Promise!Visited
         /\ Accepts(handler[w].read, handler[w].act)
         /\ state' = Target(handler[w].act)
         /\ log' = Append(log, [action |-> handler[w].act, from |-> handler[w].read,
                                to |-> Target(handler[w].act)])
         /\ [action |-> handler[w].act, from |-> handler[w].read,
             to |-> Target(handler[w].act)] \in LogEntry
         /\ Grows
<1> DEFINE h == handler[w]
           entry == [action |-> h.act, from |-> h.read, to |-> Target(h.act)]
<1>1. h \in HandlerRecord /\ Holds(h) /\ h.pc = "commit" /\ log \in Seq(LogEntry)
  BY DEF IInv, TypeOK, Grounded, CommitTransition
<1>2. /\ h.act \in Actions /\ Cause(h.act)
      /\ h.read \in Promise!Visited /\ Accepts(h.read, h.act)
  BY <1>1 DEF Holds, HandlerRecord, Maybe
<1>3. h.read \in States
  <2>1. \A i \in 1..Len(log) : log[i] \in LogEntry
    BY <1>1
  <2>2. \A i \in 1..Len(log) : log[i].to \in States
    BY <2>1 DEF LogEntry
  <2> QED BY <1>2, <2>2 DEF Promise!Visited, States
<1>4. state' = Target(h.act) /\ log' = Append(log, entry)
  BY DEF CommitTransition
<1>5. entry \in LogEntry
  BY <1>2, <1>3, TargetIsState DEF LogEntry
<1>6. Promise!Visited \subseteq Promise!Visited'
  BY <1>1, <1>4, <1>5 DEF Promise!Visited
<1>7. Grows
  BY <1>6 DEF Grows, CommitTransition, envVars
<1> QED BY <1>2, <1>3, <1>4, <1>5, <1>7

\* The indices of a log with one entry more.
LEMMA LogIndices ==
  ASSUME NEW S, NEW s \in Seq(S), NEW x \in S
  PROVE  /\ Append(s, x) \in Seq(S)
         /\ Len(Append(s, x)) = Len(s) + 1
         /\ \A i \in 1..Len(s) : Append(s, x)[i] = s[i]
         /\ Append(s, x)[Len(s) + 1] = x
         /\ \A i \in 1..(Len(s) + 1) : i \in 1..Len(s) \/ i = Len(s) + 1
OBVIOUS

\* The transaction of transition() keeps every part of the invariant.
LEMMA CommitStep ==
  ASSUME IInv, NEW w \in Workers, CommitTransition(w)
  PROVE  IInv'
<1> DEFINE h == handler[w]
           entry == [action |-> h.act, from |-> h.read, to |-> Target(h.act)]
<1>e. /\ h.act \in Actions /\ Cause(h.act)
      /\ h.read \in States \cap Promise!Visited
      /\ Accepts(h.read, h.act)
      /\ state' = Target(h.act) /\ log' = Append(log, entry)
      /\ entry \in LogEntry
      /\ Grows
  BY CommitEffect
<1>h. h \in HandlerRecord /\ Holds(h) /\ h.pc = "commit" /\ log \in Seq(LogEntry)
  BY DEF IInv, TypeOK, Grounded, CommitTransition
<1>l. /\ log' \in Seq(LogEntry)
      /\ Len(log') = Len(log) + 1
      /\ \A i \in 1..Len(log) : log'[i] = log[i]
      /\ log'[Len(log) + 1] = entry
      /\ \A i \in 1..Len(log') : i \in 1..Len(log) \/ i = Len(log) + 1
      /\ Len(log) \in Nat
  <2> HIDE DEF entry
  <2> QED BY <1>e, <1>h, LogIndices
<1>1. /\ HandlersOK' /\ DepositsAccounted'
      /\ answered' \subseteq Txs /\ expiry' \in {"none", "waiting", "active", "done"}
  <2>1. CASE h.act = "issue"
    <3>1. [h EXCEPT !.pc = "schedule", !.read = None] \in HandlerRecord
      BY <1>h DEF HandlerRecord, Pcs, Maybe
    <3>2. GoTo(w, [h EXCEPT !.pc = "schedule", !.read = None])
      BY <2>1 DEF CommitTransition
    <3>3. /\ handler'[w].pc = "schedule" /\ handler'[w].tx = h.tx
      BY <1>h, <3>2 DEF GoTo, IInv, TypeOK, HandlerRecord
    <3>4. Holds(handler[w])'
      BY <1>h, <1>e, <3>3 DEF Holds, Grows
    <3>5. HandlersOK'
      BY <1>e, <3>1, <3>2, <3>4, GoToStep
    <3> QED
      BY <2>1, <3>5, <1>e DEF CommitTransition, IInv, TypeOK, DepositsAccounted, Grows
  <2>2. CASE h.act # "issue"
    <3>1. Return(w) /\ unmatched \subseteq unmatched'
      BY <2>2 DEF CommitTransition
    <3>2. h.tx # None => h.tx \in deposits' \cup unmatched'
      BY <1>h, <1>e DEF Holds, Grows
    <3> QED BY <1>e, <3>1, <3>2, ReturnStep
  <2> QED BY <2>1, <2>2
<1>2. TypeOK'
  <2>1. state' \in States
    BY <1>e, TargetIsState
  <2>2. outbox' \in Seq({WebhookEvents[s] : s \in DOMAIN WebhookEvents})
    BY <1>e DEF CommitTransition, Notifies, IInv, TypeOK
  <2>3. rail' \in RailTypes \cup {"PENDING"} /\ railRef' \in Maybe(Exchanges)
    BY <1>h DEF CommitTransition, IInv, TypeOK, RailTypes, HandlerRecord, Maybe
  <2> QED
    BY <1>1, <1>l, <2>1, <2>2, <2>3
    DEF CommitTransition, IInv, TypeOK, HandlersOK, envVars
<1>3. Grounded'
  <2>1. (state \in Promise!Visited)'
    BY <1>e, <1>l DEF Promise!Visited
  <2>2. (\A e \in Exchanges : provider[e] \notin {None, "waiting"} => <<e, provider[e]>> \in posted)'
    BY DEF CommitTransition, IInv, Grounded, envVars
  <2> QED BY <1>1, <2>1, <2>2 DEF Grounded, HandlersOK
<1>4. DepositBeforeProgress'
  <2> SUFFICES ASSUME NEW i \in 1..Len(log'), log'[i].to \in FundedStates
               PROVE  \E j \in 1..i : log'[j].action = "depositDetected"
    BY DEF DepositBeforeProgress
  <2>1. CASE i \in 1..Len(log)
    BY <1>l, <2>1 DEF IInv, DepositBeforeProgress
  <2>2. CASE i = Len(log) + 1
    <3>1. CASE h.act = "depositDetected"
      BY <1>l, <2>2, <3>1
    <3>2. CASE h.read \in FundedStates
      <4>1. PICK k \in 1..Len(log) : log[k].to = h.read
        BY <1>e, <3>2 DEF Promise!Visited, FundedStates
      <4>2. PICK j \in 1..k : log[j].action = "depositDetected"
        BY <3>2, <4>1 DEF IInv, DepositBeforeProgress
      <4> QED BY <1>l, <2>2, <4>1, <4>2
    <3> QED BY <1>e, <1>l, <2>2, <3>1, <3>2, FundedFrom
  <2> QED BY <1>l, <2>1, <2>2
<1>5. TransitionsHaveCause'
  <2> SUFFICES ASSUME NEW i \in 1..Len(log') PROVE Cause(log[i].action)'
    BY DEF TransitionsHaveCause
  <2>1. CASE i \in 1..Len(log)
    <3>1. Cause(log[i].action) /\ log'[i] = log[i]
      BY <1>l, <2>1 DEF IInv, TransitionsHaveCause
    <3> QED BY <1>e, <3>1, CauseStable
  <2>2. CASE i = Len(log) + 1
    <3>1. Cause(h.act) /\ log'[i].action = h.act
      BY <1>e, <1>l, <2>2
    <3> QED BY <1>e, <3>1, CauseStable
  <2> QED BY <1>l, <2>1, <2>2
<1> QED BY <1>1, <1>2, <1>3, <1>4, <1>5 DEF IInv


-----------------------------------------------------------------------------
(***************************************************************************)
(* Every action keeps the inductive invariant.                             *)
(***************************************************************************)
\* The invariant holds of a new invoice.
LEMMA InitIInv == Init => IInv
<1> SUFFICES ASSUME Init PROVE IInv
  OBVIOUS
<1>1. TypeOK
  <2>1. handler \in [Workers -> HandlerRecord]
    BY IdleType DEF Init
  <2>2. log \in Seq(LogEntry) /\ outbox \in Seq({WebhookEvents[s] : s \in DOMAIN WebhookEvents})
    BY DEF Init
  <2>3. /\ mirror \in [Exchanges -> Maybe(ProviderStatuses)]
        /\ provider \in [Exchanges -> Maybe(ProviderStatuses)]
    BY DEF Init, Maybe
  <2> QED BY <2>1, <2>2, <2>3 DEF Init, TypeOK, States, RailTypes, Maybe
<1>2. Grounded
  <2>1. \A w \in Workers : Holds(handler[w])
    BY IdleHolds DEF Init
  <2> QED BY <2>1 DEF Init, Grounded, Promise!Visited
<1>3. DepositBeforeProgress /\ TransitionsHaveCause /\ DepositsAccounted
  BY DEF Init, DepositBeforeProgress, TransitionsHaveCause, DepositsAccounted
<1> QED BY <1>1, <1>2, <1>3 DEF IInv

\* Every step of every handler, fault and environment keeps the invariant.
LEMMA NextIInv == IInv /\ [Next]_vars => IInv'
<1> SUFFICES ASSUME IInv, [Next]_vars PROVE IInv'
  OBVIOUS
<1>1. CASE Next
  <2>types. TypeOK
    BY DEF IInv
  <2>typed. handler \in [Workers -> HandlerRecord]
    BY DEF IInv, TypeOK
  <2>held. \A w \in Workers : Holds(handler[w])
    BY DEF IInv, Grounded
  <2>vis. state \in Promise!Visited
    BY DEF IInv, Grounded
  <2>acc. DepositsAccounted
    BY DEF IInv
  <2>post. \A e \in Exchanges : provider[e] \notin {None, "waiting"} => <<e, provider[e]>> \in posted
    BY DEF IInv, Grounded
  <2>tx. \A w \in Workers : handler[w].pc \in {"match", "record"} => handler[w].tx \in Txs
    BY <2>typed, <2>held DEF Holds, HandlerRecord, Maybe
  <2>ex. \A w \in Workers : handler[w].pc \in {"event", "advance"} =>
           <<handler[w].exchange, handler[w].status>> \in Exchanges \X ProviderStatuses
    BY <2>types, <2>held DEF Holds, TypeOK
  <2>st. \A w \in Workers : handler[w].pc = "advance" =>
           LET a == ProviderStatusAction(state, handler[w].status)
           IN  a \in Actions \cup {None} /\ (a # None => Cause(a))
    <3> SUFFICES ASSUME NEW w \in Workers, handler[w].pc = "advance"
                 PROVE  LET a == ProviderStatusAction(state, handler[w].status)
                        IN  a \in Actions \cup {None} /\ (a # None => Cause(a))
      OBVIOUS
    <3>1. handler[w].exchange \in Exchanges
      BY <2>ex
    <3>2. /\ <<handler[w].exchange, handler[w].status>> \in posted
          /\ <<handler[w].exchange, handler[w].status>> \in provEvents
      BY <2>held DEF Holds
    <3> QED BY <3>1, <3>2, StatusCauses
  <2>dv. \A w \in Workers : handler[w].pc = "poll" =>
           LET a == DivergedAction(handler[w].read, RailStatus(provider[handler[w].exchange]))
           IN  a \in Actions \cup {None} /\ (a # None => Cause(a))
    <3> SUFFICES ASSUME NEW w \in Workers, handler[w].pc = "poll"
                 PROVE  LET a == DivergedAction(handler[w].read, RailStatus(provider[handler[w].exchange]))
                        IN  a \in Actions \cup {None} /\ (a # None => Cause(a))
      OBVIOUS
    <3> DEFINE e == handler[w].exchange
    <3>1. e \in Exchanges
      BY <2>typed, <2>held DEF Holds, HandlerRecord, Maybe
    <3>2. CASE provider[e] \in {None, "waiting"}
      BY <3>2, DivergedNeedsPosted
    <3>3. CASE provider[e] \notin {None, "waiting"}
      <4>1. <<e, provider[e]>> \in posted
        BY <2>post, <3>1, <3>3
      <4> QED BY <3>1, <4>1, DivergedCauses
    <3> QED BY <3>2, <3>3
  <2>1. ASSUME NEW w \in Workers, ReadState(w) PROVE IInv'
    <3>g. Grows
      BY <2>1 DEF ReadState, Grows, Promise!Visited, dbVars, envVars
    <3>1. CASE Accepts(state, handler[w].act)
      <4>1. [handler[w] EXCEPT !.pc = "commit", !.read = state] \in HandlerRecord
        <5>1. state \in States /\ handler[w] \in HandlerRecord
          BY <2>typed, <2>types DEF TypeOK
        <5> QED BY <5>1, HandlerFields
      <4>2. GoTo(w, [handler[w] EXCEPT !.pc = "commit", !.read = state])
        BY <2>1, <3>1, <3>g DEF ReadState
      <4>3. /\ handler'[w].pc = "commit" /\ handler'[w].act = handler[w].act /\ handler'[w].read = state
             /\ handler'[w].tx = handler[w].tx /\ handler'[w].exchange = handler[w].exchange /\ handler'[w].status = handler[w].status
        BY <2>typed, <4>2 DEF GoTo, HandlerRecord, Idle
      <4>4. Holds(handler[w])'
        BY <2>1, <3>1, <3>g, <2>held, <4>3, CauseStable, <2>vis, <2>typed DEF ReadState, Holds, Accepts, Grows
      <4>5. HandlersOK'
        BY <3>g, <4>1, <4>2, <4>4, GoToStep
      <4>6. TypeOK'
        BY <2>1, <2>types, <3>1, <4>5 DEF ReadState, TypeOK, HandlersOK, dbVars, envVars
      <4> QED
        BY <2>1, <2>acc, <2>post, <3>g, <3>1, <4>5, <4>6, QuietStep
        DEF ReadState, DepositsAccounted, dbVars, envVars
    <3>2. CASE ~Accepts(state, handler[w].act)
      <4>1. /\ HandlersOK' /\ DepositsAccounted'
            /\ answered' \subseteq Txs /\ expiry' \in {"none", "waiting", "active", "done"}
        BY <2>1, <2>held, <3>2, <3>g, ThrowStep DEF ReadState, Holds, dbVars, envVars
      <4>2. TypeOK'
        BY <2>1, <2>types, <3>2, <4>1 DEF ReadState, TypeOK, HandlersOK, dbVars, envVars
      <4> QED
        BY <2>1, <2>post, <3>g, <3>2, <4>1, <4>2, QuietStep DEF ReadState, dbVars, envVars
    <3> QED BY <3>1, <3>2
  <2>2. ASSUME NEW w \in Workers, CommitTransition(w) PROVE IInv'
    BY <2>2, CommitStep
  <2>3. ASSUME NEW w \in Workers, OpenCheckout(w) PROVE IInv'
    <3>g. Grows
      BY <2>3 DEF OpenCheckout, Grows, Promise!Visited, dbVars, envVars
    <3>1. [Idle EXCEPT !.pc = "rail", !.act = "issue"] \in HandlerRecord
      BY <2>3, <3>g, <2>typed, ActionsList DEF HandlerRecord, Pcs, Maybe, Idle
    <3>2. GoTo(w, [Idle EXCEPT !.pc = "rail", !.act = "issue"])
      BY <2>3, <3>g DEF OpenCheckout
    <3>3. /\ handler'[w].pc = "rail" /\ handler'[w].act = "issue" /\ handler'[w].read = None
           /\ handler'[w].tx = None /\ handler'[w].exchange = None /\ handler'[w].status = None
      BY <2>typed, <3>2 DEF GoTo, HandlerRecord, Idle
    <3>4. Holds(handler[w])'
      BY <2>3, <3>g, <2>held, <3>3 DEF OpenCheckout, Holds, None
    <3>5. HandlersOK'
      BY <3>g, <3>1, <3>2, <3>4, GoToStep
    <3>6. TypeOK'
      BY <2>3, <2>types, <3>5 DEF OpenCheckout, TypeOK, HandlersOK, dbVars, envVars
    <3> QED
      BY <2>3, <2>acc, <2>post, <3>g, <3>5, <3>6, QuietStep
      DEF OpenCheckout, DepositsAccounted, dbVars, envVars
  <2>4. ASSUME NEW w \in Workers, CreateDirect(w) PROVE IInv'
    <3>g. Grows
      BY <2>4 DEF CreateDirect, Grows, Promise!Visited, envVars
    <3>1. CASE reserved = "no"
      <4>1. [handler[w] EXCEPT !.pc = "read"] \in HandlerRecord
        BY <2>4, <3>1, <3>g, <2>typed DEF HandlerRecord, Pcs, Maybe, Idle
      <4>2. GoTo(w, [handler[w] EXCEPT !.pc = "read"])
        BY <2>4, <3>1, <3>g DEF CreateDirect
      <4>3. /\ handler'[w].pc = "read" /\ handler'[w].act = handler[w].act /\ handler'[w].read = handler[w].read
             /\ handler'[w].tx = handler[w].tx /\ handler'[w].exchange = handler[w].exchange /\ handler'[w].status = handler[w].status
        BY <2>typed, <4>2 DEF GoTo, HandlerRecord, Idle
      <4>4. Holds(handler[w])'
        BY <2>4, <3>1, <3>g, <2>held, <4>3, CauseStable DEF CreateDirect, Holds, Cause, Grows, None
      <4>5. HandlersOK'
        BY <3>g, <4>1, <4>2, <4>4, GoToStep
      <4>6. TypeOK'
        BY <2>4, <2>types, <3>1, <4>5 DEF CreateDirect, TypeOK, HandlersOK, envVars
      <4> QED
        BY <2>4, <2>acc, <2>post, <3>g, <3>1, <4>5, <4>6, QuietStep
        DEF CreateDirect, DepositsAccounted, envVars
    <3>2. CASE reserved # "no"
      <4>1. /\ HandlersOK' /\ DepositsAccounted'
            /\ answered' \subseteq Txs /\ expiry' \in {"none", "waiting", "active", "done"}
        BY <2>4, <2>held, <3>2, <3>g, ThrowStep DEF CreateDirect, Holds, envVars
      <4>2. TypeOK'
        BY <2>4, <2>types, <3>2, <4>1 DEF CreateDirect, TypeOK, HandlersOK, envVars
      <4> QED
        BY <2>4, <2>post, <3>g, <3>2, <4>1, <4>2, QuietStep DEF CreateDirect, envVars
    <3> QED BY <3>1, <3>2
  <2>5. ASSUME NEW w \in Workers, CreateSwap(w) PROVE IInv'
    <3>g. Grows
      BY <2>5 DEF CreateSwap, Grows, Promise!Visited
    <3>0. PICK e \in Exchanges, row \in {"waiting", None} :
            /\ provider[e] = None
            /\ provider' = [provider EXCEPT ![e] = "waiting"]
            /\ mirror' = [mirror EXCEPT ![e] = row]
            /\ GoTo(w, [handler[w] EXCEPT !.pc = "read", !.exchange = e])
      BY <2>5 DEF CreateSwap
    <3>1. [handler[w] EXCEPT !.pc = "read", !.exchange = e] \in HandlerRecord
      BY <2>typed DEF HandlerRecord, Pcs, Maybe
    <3>2. GoTo(w, [handler[w] EXCEPT !.pc = "read", !.exchange = e])
      BY <3>0
    <3>3. /\ handler'[w].pc = "read" /\ handler'[w].act = handler[w].act /\ handler'[w].read = handler[w].read
           /\ handler'[w].tx = handler[w].tx /\ handler'[w].exchange = e /\ handler'[w].status = handler[w].status
      BY <2>typed, <3>2 DEF GoTo, HandlerRecord, Idle
    <3>4. Holds(handler[w])'
      BY <2>5, <3>0, <3>g, <2>held, <3>3 DEF CreateSwap, Holds, Cause, Grows, None
    <3>5. HandlersOK'
      BY <3>g, <3>1, <3>2, <3>4, GoToStep
    <3>6. /\ mirror' \in [Exchanges -> Maybe(ProviderStatuses)]
          /\ provider' \in [Exchanges -> Maybe(ProviderStatuses)]
      BY <3>0, <2>types DEF TypeOK, Maybe, ProviderStatuses
    <3>7. TypeOK'
      BY <2>5, <2>types, <3>5, <3>6 DEF CreateSwap, TypeOK, HandlersOK
    <3>8. (\A x \in Exchanges : provider[x] \notin {None, "waiting"} => <<x, provider[x]>> \in posted)'
      BY <2>5, <2>types, <2>post, <3>0 DEF CreateSwap, TypeOK
    <3> QED
      BY <2>5, <2>acc, <3>g, <3>5, <3>7, <3>8, QuietStep DEF CreateSwap, DepositsAccounted
  <2>6. ASSUME NEW w \in Workers, NoProvider(w) PROVE IInv'
    <3>g. Grows
      BY <2>6 DEF NoProvider, Grows, Promise!Visited, dbVars, envVars
    <3>1. /\ HandlersOK' /\ DepositsAccounted'
          /\ answered' \subseteq Txs /\ expiry' \in {"none", "waiting", "active", "done"}
      BY <2>6, <3>g, ThrowStep DEF NoProvider, dbVars, envVars
    <3>2. TypeOK'
      BY <2>6, <2>types, <3>1 DEF NoProvider, TypeOK, HandlersOK, dbVars, envVars
    <3> QED
      BY <2>6, <2>post, <3>g, <3>1, <3>2, QuietStep DEF NoProvider, dbVars, envVars
  <2>7. ASSUME NEW w \in Workers, ScheduleExpiry(w) PROVE IInv'
    <3>g. Grows
      BY <2>7 DEF ScheduleExpiry, Grows, Promise!Visited, dbVars, envVars
    <3>1. HandlersOK'
      BY <2>7, <3>g, ToIdle DEF ScheduleExpiry
    <3>2. TypeOK'
      BY <2>7, <2>types, <3>1 DEF ScheduleExpiry, TypeOK, HandlersOK, dbVars, envVars
    <3> QED
      BY <2>7, <2>acc, <2>post, <3>g, <3>1, <3>2, QuietStep DEF ScheduleExpiry, DepositsAccounted, dbVars, envVars
  <2>8. ASSUME NEW w \in Workers, StartExpiry(w) PROVE IInv'
    <3>g. Grows
      BY <2>8 DEF StartExpiry, Grows, Promise!Visited, dbVars, envVars
    <3>1. [Idle EXCEPT !.pc = "read", !.act = "expire"] \in HandlerRecord
      BY <2>8, <3>g, <2>typed, ActionsList DEF HandlerRecord, Pcs, Maybe, Idle
    <3>2. GoTo(w, [Idle EXCEPT !.pc = "read", !.act = "expire"])
      BY <2>8, <3>g DEF StartExpiry
    <3>3. /\ handler'[w].pc = "read" /\ handler'[w].act = "expire" /\ handler'[w].read = None
           /\ handler'[w].tx = None /\ handler'[w].exchange = None /\ handler'[w].status = None
      BY <2>typed, <3>2 DEF GoTo, HandlerRecord, Idle
    <3>4. Holds(handler[w])'
      BY <2>8, <3>g, <2>held, <3>3 DEF StartExpiry, Holds, Cause, None
    <3>5. HandlersOK'
      BY <3>g, <3>1, <3>2, <3>4, GoToStep
    <3>6. TypeOK'
      BY <2>8, <2>types, <3>5 DEF StartExpiry, TypeOK, HandlersOK, dbVars, envVars
    <3> QED
      BY <2>8, <2>acc, <2>post, <3>g, <3>5, <3>6, QuietStep
      DEF StartExpiry, DepositsAccounted, dbVars, envVars
  <2>9. ASSUME NEW w \in Workers, NEW t \in Txs, ReceiveDeposit(w, t) PROVE IInv'
    <3>g. Grows
      BY <2>9 DEF ReceiveDeposit, Grows, Promise!Visited, dbVars, envVars
    <3>1. CASE t \notin deposits
      <4>1. [Idle EXCEPT !.pc = "match", !.tx = t] \in HandlerRecord
        BY <2>9, <3>1, <3>g, <2>typed DEF HandlerRecord, Pcs, Maybe, Idle
      <4>2. GoTo(w, [Idle EXCEPT !.pc = "match", !.tx = t])
        BY <2>9, <3>1, <3>g DEF ReceiveDeposit
      <4>3. /\ handler'[w].pc = "match" /\ handler'[w].act = None /\ handler'[w].read = None
             /\ handler'[w].tx = t /\ handler'[w].exchange = None /\ handler'[w].status = None
        BY <2>typed, <4>2 DEF GoTo, HandlerRecord, Idle
      <4>4. Holds(handler[w])'
        BY <2>9, <3>1, <3>g, <2>held, <4>3, NoneAssumption DEF ReceiveDeposit, Holds, None
      <4>5. HandlersOK'
        BY <3>g, <4>1, <4>2, <4>4, GoToStep
      <4>6. TypeOK'
        BY <2>9, <2>types, <3>1, <4>5 DEF ReceiveDeposit, TypeOK, HandlersOK, dbVars, envVars
      <4> QED
        BY <2>9, <2>acc, <2>post, <3>g, <3>1, <4>5, <4>6, QuietStep
        DEF ReceiveDeposit, DepositsAccounted, dbVars, envVars
    <3>2. CASE t \in deposits
      <4>1. HandlersOK' /\ DepositsAccounted'
        BY <2>9, <2>typed, <2>held, <2>acc, <3>2, <3>g, HoldsStable
        DEF ReceiveDeposit, HandlersOK, DepositsAccounted, dbVars, envVars
      <4>2. TypeOK'
        BY <2>9, <2>types, <3>2, <4>1 DEF ReceiveDeposit, TypeOK, HandlersOK, dbVars, envVars
      <4> QED
        BY <2>9, <2>post, <3>g, <3>2, <4>1, <4>2, QuietStep DEF ReceiveDeposit, dbVars, envVars
    <3> QED BY <3>1, <3>2
  <2>10. ASSUME NEW w \in Workers, MatchDeposit(w) PROVE IInv'
    <3>g. Grows
      BY <2>10 DEF MatchDeposit, Grows, Promise!Visited, envVars
    <3>1. CASE reserved = "live" /\ phase # "over"
      <4>1. [handler[w] EXCEPT !.pc = "record"] \in HandlerRecord
        BY <2>10, <3>1, <3>g, <2>typed DEF HandlerRecord, Pcs, Maybe, Idle
      <4>2. GoTo(w, [handler[w] EXCEPT !.pc = "record"])
        BY <2>10, <3>1, <3>g DEF MatchDeposit
      <4>3. /\ handler'[w].pc = "record" /\ handler'[w].act = handler[w].act /\ handler'[w].read = handler[w].read
             /\ handler'[w].tx = handler[w].tx /\ handler'[w].exchange = handler[w].exchange /\ handler'[w].status = handler[w].status
        BY <2>typed, <4>2 DEF GoTo, HandlerRecord, Idle
      <4>4. Holds(handler[w])'
        BY <2>10, <3>1, <3>g, <2>held, <4>3 DEF MatchDeposit, Holds
      <4>5. HandlersOK'
        BY <3>g, <4>1, <4>2, <4>4, GoToStep
      <4>6. TypeOK'
        BY <2>10, <2>types, <2>tx, <3>1, <4>5 DEF MatchDeposit, TypeOK, HandlersOK, envVars
      <4> QED
        BY <2>10, <2>acc, <2>post, <3>g, <3>1, <4>5, <4>6, QuietStep
        DEF MatchDeposit, DepositsAccounted, envVars
    <3>2. CASE ~(reserved = "live" /\ phase # "over")
      <4>1. /\ HandlersOK' /\ DepositsAccounted'
            /\ answered' \subseteq Txs /\ expiry' \in {"none", "waiting", "active", "done"}
        BY <2>10, <2>held, <3>2, <3>g, ReturnStep DEF MatchDeposit, Holds, envVars
      <4>2. TypeOK'
        BY <2>10, <2>types, <2>tx, <3>2, <4>1 DEF MatchDeposit, TypeOK, HandlersOK, envVars
      <4> QED
        BY <2>10, <2>post, <3>g, <3>2, <4>1, <4>2, QuietStep DEF MatchDeposit, envVars
    <3> QED BY <3>1, <3>2
  <2>11. ASSUME NEW w \in Workers, RecordDeposit(w) PROVE IInv'
    <3>g. Grows
      BY <2>11 DEF RecordDeposit, Grows, Promise!Visited, envVars
    <3>1. [handler[w] EXCEPT !.pc = "credit"] \in HandlerRecord
      BY <2>11, <3>g, <2>typed DEF HandlerRecord, Pcs, Maybe, Idle
    <3>2. GoTo(w, [handler[w] EXCEPT !.pc = "credit"])
      BY <2>11, <3>g DEF RecordDeposit
    <3>3. /\ handler'[w].pc = "credit" /\ handler'[w].act = handler[w].act /\ handler'[w].read = handler[w].read
           /\ handler'[w].tx = handler[w].tx /\ handler'[w].exchange = handler[w].exchange /\ handler'[w].status = handler[w].status
      BY <2>typed, <3>2 DEF GoTo, HandlerRecord, Idle
    <3>4. Holds(handler[w])'
      BY <2>11, <3>g, <2>held, <3>3 DEF RecordDeposit, Holds
    <3>5. HandlersOK'
      BY <3>g, <3>1, <3>2, <3>4, GoToStep
    <3>6. TypeOK'
      BY <2>11, <2>types, <2>tx, <3>5 DEF RecordDeposit, TypeOK, HandlersOK, envVars
    <3> QED
      BY <2>11, <2>acc, <2>post, <3>g, <3>5, <3>6, QuietStep
      DEF RecordDeposit, DepositsAccounted, envVars
  <2>12. ASSUME NEW w \in Workers, CreditDeposit(w) PROVE IInv'
    <3>g. Grows
      BY <2>12 DEF CreditDeposit, Grows, Promise!Visited, dbVars, envVars
    <3>1. CASE state = "AWAITING_PAYMENT"
      <4>1. [handler[w] EXCEPT !.pc = "read", !.act = "depositDetected"] \in HandlerRecord
        <5>1. "depositDetected" \in Actions /\ handler[w] \in HandlerRecord
          BY <2>typed, ActionsList
        <5> QED BY <5>1, HandlerFields
      <4>2. GoTo(w, [handler[w] EXCEPT !.pc = "read", !.act = "depositDetected"])
        BY <2>12, <3>1, <3>g DEF CreditDeposit
      <4>3. /\ handler'[w].pc = "read" /\ handler'[w].act = "depositDetected" /\ handler'[w].read = handler[w].read
             /\ handler'[w].tx = handler[w].tx /\ handler'[w].exchange = handler[w].exchange /\ handler'[w].status = handler[w].status
        BY <2>typed, <4>2 DEF GoTo, HandlerRecord, Idle
      <4>4. Holds(handler[w])'
        BY <2>12, <3>1, <3>g, <2>held, <4>3 DEF CreditDeposit, Holds, Cause, None, Grows
      <4>5. HandlersOK'
        BY <3>g, <4>1, <4>2, <4>4, GoToStep
      <4>6. TypeOK'
        BY <2>12, <2>types, <3>1, <4>5 DEF CreditDeposit, TypeOK, HandlersOK, dbVars, envVars
      <4> QED
        BY <2>12, <2>acc, <2>post, <3>g, <3>1, <4>5, <4>6, QuietStep
        DEF CreditDeposit, DepositsAccounted, dbVars, envVars
    <3>2. CASE state # "AWAITING_PAYMENT"
      <4>1. /\ HandlersOK' /\ DepositsAccounted'
            /\ answered' \subseteq Txs /\ expiry' \in {"none", "waiting", "active", "done"}
        BY <2>12, <2>held, <3>2, <3>g, ReturnStep DEF CreditDeposit, Holds, dbVars, envVars
      <4>2. TypeOK'
        BY <2>12, <2>types, <3>2, <4>1 DEF CreditDeposit, TypeOK, HandlersOK, dbVars, envVars
      <4> QED
        BY <2>12, <2>post, <3>g, <3>2, <4>1, <4>2, QuietStep DEF CreditDeposit, dbVars, envVars
    <3> QED BY <3>1, <3>2
  <2>13. ASSUME NEW w \in Workers, NEW e \in Exchanges, NEW s \in ProviderStatuses, ReceiveStatus(w, e, s) PROVE IInv'
    <3>g. Grows
      BY <2>13 DEF ReceiveStatus, Grows, Promise!Visited, envVars
    <3>1. [Idle EXCEPT !.pc = "event", !.exchange = e, !.status = s] \in HandlerRecord
      BY <2>13, <3>g, <2>typed DEF HandlerRecord, Pcs, Maybe, Idle
    <3>2. GoTo(w, [Idle EXCEPT !.pc = "event", !.exchange = e, !.status = s])
      BY <2>13, <3>g DEF ReceiveStatus
    <3>3. /\ handler'[w].pc = "event" /\ handler'[w].act = None /\ handler'[w].read = None
           /\ handler'[w].tx = None /\ handler'[w].exchange = e /\ handler'[w].status = s
      BY <2>typed, <3>2 DEF GoTo, HandlerRecord, Idle
    <3>4. Holds(handler[w])'
      BY <2>13, <3>g, <2>held, <3>3 DEF ReceiveStatus, Holds, None, Grows
    <3>5. HandlersOK'
      BY <3>g, <3>1, <3>2, <3>4, GoToStep
    <3>m. mirror' \in [Exchanges -> Maybe(ProviderStatuses)]
      BY <2>13, <2>types DEF ReceiveStatus, TypeOK, Maybe
    <3>6. TypeOK'
      BY <2>13, <2>types, <3>5, <3>m DEF ReceiveStatus, TypeOK, HandlersOK, envVars
    <3> QED
      BY <2>13, <2>acc, <2>post, <3>g, <3>5, <3>6, QuietStep
      DEF ReceiveStatus, DepositsAccounted, envVars
  <2>14. ASSUME NEW w \in Workers, RecordStatus(w) PROVE IInv'
    <3>g. Grows
      BY <2>14 DEF RecordStatus, Grows, Promise!Visited, envVars
    <3>1. [handler[w] EXCEPT !.pc = "advance"] \in HandlerRecord
      BY <2>14, <3>g, <2>typed DEF HandlerRecord, Pcs, Maybe, Idle
    <3>2. GoTo(w, [handler[w] EXCEPT !.pc = "advance"])
      BY <2>14, <3>g DEF RecordStatus
    <3>3. /\ handler'[w].pc = "advance" /\ handler'[w].act = handler[w].act /\ handler'[w].read = handler[w].read
           /\ handler'[w].tx = handler[w].tx /\ handler'[w].exchange = handler[w].exchange /\ handler'[w].status = handler[w].status
      BY <2>typed, <3>2 DEF GoTo, HandlerRecord, Idle
    <3>4. Holds(handler[w])'
      BY <2>14, <3>g, <2>held, <3>3 DEF RecordStatus, Holds, Grows
    <3>5. HandlersOK'
      BY <3>g, <3>1, <3>2, <3>4, GoToStep
    <3>6. TypeOK'
      BY <2>14, <2>types, <2>ex, <3>5 DEF RecordStatus, TypeOK, HandlersOK, envVars
    <3> QED
      BY <2>14, <2>acc, <2>post, <3>g, <3>5, <3>6, QuietStep
      DEF RecordStatus, DepositsAccounted, envVars
  <2>15. ASSUME NEW w \in Workers, ChooseAction(w) PROVE IInv'
    <3>g. Grows
      BY <2>15 DEF ChooseAction, Grows, Promise!Visited, dbVars, envVars
    <3>1. CASE ProviderStatusAction(state, handler[w].status) # None
      <4>1. [handler[w] EXCEPT !.pc = "read", !.act = ProviderStatusAction(state, handler[w].status)] \in HandlerRecord
        <5>1. ProviderStatusAction(state, handler[w].status) \in Maybe(Actions)
          BY <2>15, <2>st DEF ChooseAction, Maybe
        <5>2. \A a \in Maybe(Actions) :
                /\ [handler[w] EXCEPT !.pc = "read", !.act = a] \in HandlerRecord
                /\ [handler[w] EXCEPT !.pc = "read", !.act = a, !.read = None] \in HandlerRecord
          BY <2>typed DEF HandlerRecord, Pcs, Maybe
        <5> QED BY <5>1, <5>2
      <4>2. GoTo(w, [handler[w] EXCEPT !.pc = "read", !.act = ProviderStatusAction(state, handler[w].status)])
        BY <2>15, <3>1, <3>g DEF ChooseAction
      <4>3. /\ handler'[w].pc = "read" /\ handler'[w].act = ProviderStatusAction(state, handler[w].status) /\ handler'[w].read = handler[w].read
             /\ handler'[w].tx = handler[w].tx /\ handler'[w].exchange = handler[w].exchange /\ handler'[w].status = handler[w].status
        BY <2>typed, <4>2 DEF GoTo, HandlerRecord, Idle
      <4>4. Holds(handler[w])'
        BY <2>15, <3>1, <3>g, <2>held, <4>3, <2>st, CauseStable DEF ChooseAction, Holds, Grows
      <4>5. HandlersOK'
        BY <3>g, <4>1, <4>2, <4>4, GoToStep
      <4>6. TypeOK'
        BY <2>15, <2>types, <3>1, <4>5 DEF ChooseAction, TypeOK, HandlersOK, dbVars, envVars
      <4> QED
        BY <2>15, <2>acc, <2>post, <3>g, <3>1, <4>5, <4>6, QuietStep
        DEF ChooseAction, DepositsAccounted, dbVars, envVars
    <3>2. CASE ProviderStatusAction(state, handler[w].status) = None
      <4>1. /\ HandlersOK' /\ DepositsAccounted'
            /\ answered' \subseteq Txs /\ expiry' \in {"none", "waiting", "active", "done"}
        BY <2>15, <2>held, <3>2, <3>g, ReturnStep DEF ChooseAction, Holds, dbVars, envVars
      <4>2. TypeOK'
        BY <2>15, <2>types, <3>2, <4>1 DEF ChooseAction, TypeOK, HandlersOK, dbVars, envVars
      <4> QED
        BY <2>15, <2>post, <3>g, <3>2, <4>1, <4>2, QuietStep DEF ChooseAction, dbVars, envVars
    <3> QED BY <3>1, <3>2
  <2>16. ASSUME NEW w \in Workers, SweepSelect(w) PROVE IInv'
    <3>g. Grows
      BY <2>16 DEF SweepSelect, Grows, Promise!Visited, dbVars, envVars
    <3>1. [Idle EXCEPT !.pc = "poll", !.read = state, !.exchange = railRef] \in HandlerRecord
      BY <2>16, <3>g, <2>typed, <2>types DEF HandlerRecord, Pcs, Maybe, Idle, TypeOK
    <3>2. GoTo(w, [Idle EXCEPT !.pc = "poll", !.read = state, !.exchange = railRef])
      BY <2>16, <3>g DEF SweepSelect
    <3>3. /\ handler'[w].pc = "poll" /\ handler'[w].act = None /\ handler'[w].read = state
           /\ handler'[w].tx = None /\ handler'[w].exchange = railRef /\ handler'[w].status = None
      BY <2>typed, <3>2 DEF GoTo, HandlerRecord, Idle
    <3>4. Holds(handler[w])'
      BY <2>16, <3>g, <2>held, <3>3, <2>vis DEF SweepSelect, Holds, Grows, None
    <3>5. HandlersOK'
      BY <3>g, <3>1, <3>2, <3>4, GoToStep
    <3>6. TypeOK'
      BY <2>16, <2>types, <3>5 DEF SweepSelect, TypeOK, HandlersOK, dbVars, envVars
    <3> QED
      BY <2>16, <2>acc, <2>post, <3>g, <3>5, <3>6, QuietStep
      DEF SweepSelect, DepositsAccounted, dbVars, envVars
  <2>17. ASSUME NEW w \in Workers, SweepPoll(w) PROVE IInv'
    <3>g. Grows
      BY <2>17 DEF SweepPoll, Grows, Promise!Visited, dbVars, envVars
    <3>1. CASE /\ DivergedAction(handler[w].read, RailStatus(provider[handler[w].exchange])) # None
               /\ GoTo(w, [handler[w] EXCEPT !.pc = "read", !.act = DivergedAction(handler[w].read, RailStatus(provider[handler[w].exchange])), !.read = None])
               /\ UNCHANGED <<answered, expiry, faults>>
      <4>1. [handler[w] EXCEPT !.pc = "read", !.act = DivergedAction(handler[w].read, RailStatus(provider[handler[w].exchange])), !.read = None] \in HandlerRecord
        <5>1. DivergedAction(handler[w].read, RailStatus(provider[handler[w].exchange])) \in Maybe(Actions)
          BY <2>17, <2>dv DEF SweepPoll, Maybe
        <5>2. \A a \in Maybe(Actions) :
                /\ [handler[w] EXCEPT !.pc = "read", !.act = a] \in HandlerRecord
                /\ [handler[w] EXCEPT !.pc = "read", !.act = a, !.read = None] \in HandlerRecord
          BY <2>typed DEF HandlerRecord, Pcs, Maybe
        <5> QED BY <5>1, <5>2
      <4>2. GoTo(w, [handler[w] EXCEPT !.pc = "read", !.act = DivergedAction(handler[w].read, RailStatus(provider[handler[w].exchange])), !.read = None])
        BY <2>17, <3>1, <3>g DEF SweepPoll
      <4>3. /\ handler'[w].pc = "read" /\ handler'[w].act = DivergedAction(handler[w].read, RailStatus(provider[handler[w].exchange])) /\ handler'[w].read = None
             /\ handler'[w].tx = handler[w].tx /\ handler'[w].exchange = handler[w].exchange /\ handler'[w].status = handler[w].status
        BY <2>typed, <4>2 DEF GoTo, HandlerRecord, Idle
      <4>4. Holds(handler[w])'
        BY <2>17, <3>1, <3>g, <2>held, <4>3, <2>dv, CauseStable DEF SweepPoll, Holds, Grows
      <4>5. HandlersOK'
        BY <3>g, <4>1, <4>2, <4>4, GoToStep
      <4>6. TypeOK'
        BY <2>17, <2>types, <3>1, <4>5 DEF SweepPoll, TypeOK, HandlersOK, dbVars, envVars
      <4> QED
        BY <2>17, <2>acc, <2>post, <3>g, <3>1, <4>5, <4>6, QuietStep
        DEF SweepPoll, DepositsAccounted, dbVars, envVars
    <3>2. CASE Return(w) /\ faults' \in {faults, faults + 1}
      <4>1. /\ HandlersOK' /\ DepositsAccounted'
            /\ answered' \subseteq Txs /\ expiry' \in {"none", "waiting", "active", "done"}
        BY <2>17, <2>held, <3>2, <3>g, ReturnStep DEF SweepPoll, Holds, dbVars, envVars
      <4>2. TypeOK'
        BY <2>17, <2>types, <3>2, <4>1 DEF SweepPoll, TypeOK, HandlersOK, dbVars, envVars
      <4> QED
        BY <2>17, <2>post, <3>g, <3>2, <4>1, <4>2, QuietStep DEF SweepPoll, dbVars, envVars
    <3> QED BY <2>17, <3>1, <3>2 DEF SweepPoll
  <2>18. ASSUME NEW w \in Workers, Crash(w) PROVE IInv'
    <3>g. Grows
      BY <2>18 DEF Crash, Grows, Promise!Visited, dbVars, envVars
    <3>1. HandlersOK'
      BY <2>18, <3>g, ToIdle DEF Crash
    <3>2. TypeOK'
      BY <2>18, <2>types, <3>1 DEF Crash, TypeOK, HandlersOK, dbVars, envVars
    <3> QED
      BY <2>18, <2>acc, <2>post, <3>g, <3>1, <3>2, QuietStep DEF Crash, DepositsAccounted, dbVars, envVars
  <2>19. ASSUME NEW w \in Workers, DbError(w) PROVE IInv'
    <3>g. Grows
      BY <2>19 DEF DbError, Grows, Promise!Visited, dbVars, envVars
    <3>1. /\ HandlersOK' /\ DepositsAccounted'
          /\ answered' \subseteq Txs /\ expiry' \in {"none", "waiting", "active", "done"}
      BY <2>19, <3>g, ThrowStep DEF DbError, dbVars, envVars
    <3>2. TypeOK'
      BY <2>19, <2>types, <3>1 DEF DbError, TypeOK, HandlersOK, dbVars, envVars
    <3> QED
      BY <2>19, <2>post, <3>g, <3>1, <3>2, QuietStep DEF DbError, dbVars, envVars
  <2>20. ASSUME NEW t \in Txs, Mine(t) PROVE IInv'
    <3>g. Grows
      BY <2>20 DEF Mine, Grows, Promise!Visited, dbVars
    <3>1. HandlersOK'
      BY <2>20, <2>typed, <2>held, <3>g, HoldsStable DEF Mine, HandlersOK
    <3>2. TypeOK'
      BY <2>20, <2>types, <3>1 DEF Mine, TypeOK, HandlersOK, dbVars
    <3> QED
      BY <2>20, <2>acc, <2>post, <3>g, <3>1, <3>2, QuietStep DEF Mine, DepositsAccounted, dbVars
  <2>21. ASSUME NEW e \in Exchanges, ProviderMoves(e) PROVE IInv'
    <3>g. Grows
      BY <2>21 DEF ProviderMoves, Grows, Promise!Visited, dbVars
    <3>0. PICK s \in Reports :
            provider' = [provider EXCEPT ![e] = s] /\ posted' = posted \cup {<<e, s>>}
      BY <2>21 DEF ProviderMoves
    <3>1. HandlersOK'
      BY <2>21, <2>typed, <2>held, <3>g, HoldsStable DEF ProviderMoves, HandlersOK
    <3>2. TypeOK'
      BY <2>21, <2>types, <3>0, <3>1, ReportsAssumption DEF ProviderMoves, TypeOK, HandlersOK, Maybe, dbVars
    <3>3. (\A x \in Exchanges : provider[x] \notin {None, "waiting"} => <<x, provider[x]>> \in posted)'
      BY <2>types, <2>post, <3>0 DEF TypeOK
    <3> QED
      BY <2>21, <2>acc, <3>g, <3>1, <3>2, <3>3, QuietStep DEF ProviderMoves, DepositsAccounted, dbVars
  <2>22. ASSUME TimePasses PROVE IInv'
    <3>g. Grows
      BY <2>22 DEF TimePasses, Grows, Promise!Visited, dbVars
    <3>1. HandlersOK'
      BY <2>22, <2>typed, <2>held, <3>g, HoldsStable DEF TimePasses, HandlersOK
    <3>2. TypeOK'
      BY <2>22, <2>types, <3>1 DEF TimePasses, TypeOK, HandlersOK, dbVars
    <3> QED
      BY <2>22, <2>acc, <2>post, <3>g, <3>1, <3>2, QuietStep DEF TimePasses, DepositsAccounted, dbVars
  <2> QED
    BY <1>1, <2>1, <2>2, <2>3, <2>4, <2>5, <2>6, <2>7, <2>8, <2>9, <2>10, <2>11, <2>12, <2>13, <2>14, <2>15, <2>16, <2>17, <2>18, <2>19, <2>20, <2>21, <2>22
    DEF Next, Transition, Issue, TatumWebhook, ProviderWebhook, Sweeper, Fault, Environment
<1>2. CASE UNCHANGED vars
  <2>1. Grows
    BY <1>2 DEF Grows, Promise!Visited, vars, dbVars, envVars
  <2>2. HandlersOK'
    BY <1>2, <2>1, HoldsStable DEF HandlersOK, IInv, TypeOK, Grounded, vars
  <2>3. TypeOK'
    BY <1>2, <2>2 DEF IInv, TypeOK, HandlersOK, vars, dbVars, envVars
  <2> QED
    BY <1>2, <2>1, <2>2, <2>3, QuietStep
    DEF IInv, Grounded, DepositsAccounted, vars, dbVars, envVars
<1> QED BY <1>1, <1>2

-----------------------------------------------------------------------------
(***************************************************************************)
(* Theorems                                                                *)
(***************************************************************************)
\* The inductive invariant holds in every reachable state, for every number of
\* handlers, transfers, exchanges, events and faults.
THEOREM Invariance == Spec => []IInv
BY InitIInv, NextIInv, PTL DEF Spec

\* Every reachable value of every variable has its type.
THEOREM TypeCorrect == Spec => []TypeOK
<1>1. IInv => TypeOK
  BY DEF IInv
<1> QED BY <1>1, Invariance, PTL

\* What a handler may hold, the history of the row and the reach of a provider's
\* word, as the runs check them.
THEOREM HandlersAreGrounded == Spec => []Grounded
<1>1. IInv => Grounded
  BY DEF IInv
<1> QED BY <1>1, Invariance, PTL

\* However many handlers run, whatever crashes and however often webhooks are
\* redelivered, no log entry reaches a funded state before a deposit has been
\* detected (transition() of invoices.service.ts with stale reads).
THEOREM NoProgressWithoutDeposit == Spec => []DepositBeforeProgress
<1>1. IInv => DepositBeforeProgress
  BY DEF IInv
<1> QED BY <1>1, Invariance, PTL

\* Every committed transition has its cause: the webhook and sweeper handlers
\* apply nothing the provider has not reported and no deposit that is not on
\* record (processProviderWebhook, divergedAction, processTatumWebhook).
THEOREM EveryTransitionHasItsCause == Spec => []TransitionsHaveCause
<1>1. IInv => TransitionsHaveCause
  BY DEF IInv
<1> QED BY <1>1, Invariance, PTL

\* processTatumWebhook never answers 200 for a transfer that is not on record.
THEOREM NoDepositAnsweredAndLost == Spec => []DepositsAccounted
<1>1. IInv => DepositsAccounted
  BY DEF IInv
<1> QED BY <1>1, Invariance, PTL

\* A commit takes an edge of the promise, out of a state the invoice has been in.
LEMMA CommitIsTaken ==
  ASSUME IInv, NEW w \in Workers, CommitTransition(w)
  PROVE  /\ handler[w].act \in Promise!Actions /\ handler[w].read \in Promise!Visited
         /\ Promise!Take(handler[w].act, handler[w].read)
<1> DEFINE a == handler[w].act
           s == handler[w].read
<1>1. /\ a \in Actions /\ s \in Promise!Visited /\ Accepts(s, a)
      /\ state' = Target(a)
      /\ log' = Append(log, [action |-> a, from |-> s, to |-> Target(a)])
  BY CommitEffect
<1>2. outbox' = IF Notifies(Target(a)) THEN Append(outbox, WebhookEvents[Target(a)]) ELSE outbox
  BY DEF CommitTransition
<1>3. Promise!Take(a, s)
  BY <1>1, <1>2
  DEF Promise!Take, Promise!Accepts, Promise!Target, Promise!Transitions,
      Promise!TerminalStates, Promise!Notifies, Promise!WebhookEvents,
      Accepts, Target, Transitions, TerminalStates, Notifies, WebhookEvents
<1>4. a \in Promise!Actions
  BY <1>1 DEF Promise!Actions, Promise!Transitions, Actions, Transitions
<1> QED BY <1>1, <1>3, <1>4

\* Nothing but a commit touches the row's state, the trail or the outbox.
LEMMA OnlyCommitsMove ==
  ASSUME [Next]_vars, \A w \in Workers : ~CommitTransition(w)
  PROVE  UNCHANGED <<state, log, outbox>>
<1>1. ASSUME NEW w \in Workers, Transition(w) PROVE UNCHANGED <<state, log, outbox>>
  BY <1>1 DEF Transition, ReadState, dbVars
<1>2. ASSUME NEW w \in Workers, Issue(w) \/ StartExpiry(w) PROVE UNCHANGED <<state, log, outbox>>
  BY <1>2 DEF Issue, OpenCheckout, CreateDirect, CreateSwap, NoProvider, ScheduleExpiry,
              StartExpiry, dbVars
<1>3. ASSUME NEW w \in Workers, TatumWebhook(w) PROVE UNCHANGED <<state, log, outbox>>
  BY <1>3 DEF TatumWebhook, ReceiveDeposit, MatchDeposit, RecordDeposit, CreditDeposit, dbVars
<1>4. ASSUME NEW w \in Workers, ProviderWebhook(w) PROVE UNCHANGED <<state, log, outbox>>
  BY <1>4 DEF ProviderWebhook, ReceiveStatus, RecordStatus, ChooseAction, dbVars
<1>5. ASSUME NEW w \in Workers, Sweeper(w) \/ Fault(w) PROVE UNCHANGED <<state, log, outbox>>
  BY <1>5 DEF Sweeper, SweepSelect, SweepPoll, Fault, Crash, DbError, dbVars
<1>6. CASE Environment \/ UNCHANGED vars
  BY <1>6 DEF Environment, Mine, ProviderMoves, TimePasses, vars, dbVars
<1> QED BY <1>1, <1>2, <1>3, <1>4, <1>5, <1>6 DEF Next

\* Every interleaving implements the promise of transition(): the invoice row,
\* its audit trail and the merchant notifications move together, one edge of
\* the table at a time, out of a state the invoice has been in.
THEOREM PromiseKept == Spec => KeepsPromise
<1>1. Init => Promise!PromiseInit
  BY DEF Init, Promise!PromiseInit
<1>2. IInv /\ [Next]_vars => [Promise!KeptNext]_(Promise!promiseVars)
  BY CommitIsTaken, OnlyCommitsMove DEF Promise!KeptNext, Promise!promiseVars
<1> QED BY <1>1, <1>2, Invariance, PTL DEF Spec, KeepsPromise, Promise!KeptSpec

-----------------------------------------------------------------------------
(***************************************************************************)
(* Commits that no other handler has overtaken                             *)
(***************************************************************************)
\* The handlers after one of them moved.
LEMMA MovedHandlers ==
  ASSUME handler \in [Workers -> HandlerRecord], NEW w \in Workers, NEW h, GoTo(w, h)
  PROVE  /\ handler'[w] = h
         /\ \A v \in Workers : v # w => handler'[v] = handler[v]
BY DEF GoTo

\* A handler that was not overtaken and is about to write has read the state the
\* invoice is in.
ReadIsFresh ==
  \A w \in Workers \ overtaken : handler[w].pc = "commit" => handler[w].read = state

\* A worker that is about to write was so before the step, or has read the row
\* in it.
LEMMA ToCommit ==
  ASSUME IInv, [Next]_vars, NEW v \in Workers, handler'[v].pc = "commit"
  PROVE  \/ handler[v].pc = "commit" /\ handler'[v] = handler[v]
         \/ handler'[v].read = state /\ UNCHANGED <<state, log>>
<1>t. /\ handler \in [Workers -> HandlerRecord]
      /\ \A w \in Workers : handler[w] \in HandlerRecord
  BY DEF IInv, TypeOK
<1>f. ASSUME NEW w \in Workers, NEW a
      PROVE  /\ handler'[w] = Idle => handler'[w].pc = "idle"
             /\ handler'[w] = [Idle EXCEPT !.pc = "match", !.tx = a] => handler'[w].pc = "match"
             /\ handler'[w] = [handler[w] EXCEPT !.pc = "schedule", !.read = a]
                  => handler'[w].pc = "schedule"
             /\ handler'[w] = [handler[w] EXCEPT !.pc = "commit", !.read = a]
                  => handler'[w].read = a
             /\ handler'[w] = [handler[w] EXCEPT !.pc = "read", !.act = a]
                  => handler'[w].pc = "read"
             /\ handler'[w] = [handler[w] EXCEPT !.pc = "read", !.act = a, !.read = None]
                  => handler'[w].pc = "read"
  <2>1. handler'[w] = Idle => handler'[w].pc = "idle"
    BY DEF Idle
  <2>2. ASSUME handler'[w] = [handler[w] EXCEPT !.pc = "commit", !.read = a]
        PROVE  handler'[w].read = a
    BY <1>t, <2>2 DEF HandlerRecord
  <2>3. ASSUME handler'[w] = [handler[w] EXCEPT !.pc = "read", !.act = a]
        PROVE  handler'[w].pc = "read"
    BY <1>t, <2>3 DEF HandlerRecord
  <2>4. ASSUME handler'[w] = [handler[w] EXCEPT !.pc = "read", !.act = a, !.read = None]
        PROVE  handler'[w].pc = "read"
    BY <1>t, <2>4 DEF HandlerRecord
  <2>5. handler'[w] = [Idle EXCEPT !.pc = "match", !.tx = a] => handler'[w].pc = "match"
    BY DEF Idle
  <2>6. ASSUME handler'[w] = [handler[w] EXCEPT !.pc = "schedule", !.read = a]
        PROVE  handler'[w].pc = "schedule"
    BY <1>t, <2>6 DEF HandlerRecord
  <2> QED BY <2>1, <2>2, <2>3, <2>4, <2>5, <2>6
<1>1. ASSUME NEW w \in Workers, ReadState(w) PROVE handler'[w].pc = "commit" => handler'[w].read = state /\ UNCHANGED <<state, log>>
  <2>1. handler'[w] = [handler[w] EXCEPT !.pc = "commit", !.read = state] \/ handler'[w] = Idle
    BY <1>1, <1>t, MovedHandlers DEF ReadState, Throw
  <2>2. handler'[w].pc = "commit" => handler'[w].read = state
    BY <1>f, <2>1
  <2> QED BY <1>1, <2>2 DEF ReadState, dbVars
<1>2. ASSUME NEW w \in Workers, CommitTransition(w) PROVE handler'[w].pc # "commit"
  <2>1. handler'[w] = [handler[w] EXCEPT !.pc = "schedule", !.read = None] \/ handler'[w] = Idle
    BY <1>2, <1>t, MovedHandlers DEF CommitTransition, Return
  <2> QED BY <1>f, <2>1, Zenon
<1>3. ASSUME NEW w \in Workers, Issue(w) \/ StartExpiry(w) PROVE handler'[w].pc # "commit"
  <2>1. CASE OpenCheckout(w)
    BY <1>t, <2>1 DEF OpenCheckout, GoTo, HandlerRecord, Idle
  <2>2. CASE CreateDirect(w)
    BY <1>t, <2>2 DEF CreateDirect, Throw, GoTo, HandlerRecord, Idle
  <2>3. CASE CreateSwap(w)
    BY <1>t, <2>3 DEF CreateSwap, GoTo, HandlerRecord, Idle
  <2>4. CASE NoProvider(w)
    BY <1>t, <2>4 DEF NoProvider, Throw, GoTo, HandlerRecord, Idle
  <2>5. CASE ScheduleExpiry(w)
    BY <1>t, <2>5 DEF ScheduleExpiry, GoTo, HandlerRecord, Idle
  <2>6. CASE StartExpiry(w)
    BY <1>t, <2>6 DEF StartExpiry, GoTo, HandlerRecord, Idle
  <2> QED BY <1>3, <2>1, <2>2, <2>3, <2>4, <2>5, <2>6 DEF Issue
<1>4. ASSUME NEW w \in Workers, TatumWebhook(w) PROVE handler'[w].pc # "commit"
  <2>1. CASE \E t \in Txs : ReceiveDeposit(w, t)
    <3>1. handler'[w] = Idle \/ \E t \in Txs : handler'[w] = [Idle EXCEPT !.pc = "match", !.tx = t]
      BY <1>t, <2>1, MovedHandlers DEF ReceiveDeposit
    <3> QED BY <1>f, <3>1, Zenon
  <2>2. CASE MatchDeposit(w)
    BY <1>t, <2>2 DEF MatchDeposit, Return, GoTo, HandlerRecord, Idle
  <2>3. CASE RecordDeposit(w)
    BY <1>t, <2>3 DEF RecordDeposit, GoTo, HandlerRecord, Idle
  <2>4. CASE CreditDeposit(w)
    <3>1. \/ handler'[w] = [handler[w] EXCEPT !.pc = "read", !.act = "depositDetected"]
          \/ handler'[w] = Idle
      BY <1>t, <2>4, MovedHandlers DEF CreditDeposit, Return
    <3> QED BY <1>f, <3>1, Zenon
  <2> QED BY <1>4, <2>1, <2>2, <2>3, <2>4 DEF TatumWebhook
<1>5. ASSUME NEW w \in Workers, ProviderWebhook(w) PROVE handler'[w].pc # "commit"
  <2>1. CASE \E e \in Exchanges, s \in ProviderStatuses : ReceiveStatus(w, e, s)
    BY <1>t, <2>1 DEF ReceiveStatus, GoTo, HandlerRecord, Idle
  <2>2. CASE RecordStatus(w)
    BY <1>t, <2>2 DEF RecordStatus, GoTo, HandlerRecord, Idle
  <2>3. CASE ChooseAction(w)
    <3>1. (\E a : handler'[w] = [handler[w] EXCEPT !.pc = "read", !.act = a]) \/ handler'[w] = Idle
      BY <1>t, <2>3, MovedHandlers DEF ChooseAction, Return
    <3> QED BY <1>f, <3>1, Zenon
  <2> QED BY <1>5, <2>1, <2>2, <2>3 DEF ProviderWebhook
<1>6. ASSUME NEW w \in Workers, Sweeper(w) \/ Fault(w) PROVE handler'[w].pc # "commit"
  <2>1. CASE SweepSelect(w)
    BY <1>t, <2>1 DEF SweepSelect, GoTo, HandlerRecord, Idle
  <2>2. CASE SweepPoll(w)
    <3>1. \/ \E a : handler'[w] = [handler[w] EXCEPT !.pc = "read", !.act = a, !.read = None]
          \/ handler'[w] = Idle
      BY <1>t, <2>2, MovedHandlers DEF SweepPoll, Return
    <3> QED BY <1>f, <3>1, Zenon
  <2>3. CASE Crash(w)
    BY <1>t, <2>3 DEF Crash, GoTo, HandlerRecord, Idle
  <2>4. CASE DbError(w)
    BY <1>t, <2>4 DEF DbError, Throw, GoTo, HandlerRecord, Idle
  <2> QED BY <1>6, <2>1, <2>2, <2>3, <2>4 DEF Sweeper, Fault
<1>7. CASE Environment \/ UNCHANGED vars
  <2>1. UNCHANGED handler
    BY <1>7 DEF Environment, Mine, ProviderMoves, TimePasses, vars
  <2> QED BY <2>1
<1>8. ASSUME NEW w \in Workers, NEW h, GoTo(w, h), w # v
      PROVE  handler[v].pc = "commit" /\ handler'[v] = handler[v]
  BY <1>8, <1>t, MovedHandlers
<1>9. ASSUME NEW w \in Workers, w # v,
             \/ Transition(w) \/ Issue(w) \/ StartExpiry(w)
             \/ TatumWebhook(w) \/ ProviderWebhook(w) \/ Sweeper(w) \/ Fault(w)
      PROVE  handler[v].pc = "commit" /\ handler'[v] = handler[v]
  <2>1. CASE Transition(w)
    BY <1>8, <1>9, <2>1 DEF Transition, ReadState, CommitTransition, Return, Throw
  <2>2. CASE Issue(w) \/ StartExpiry(w)
    BY <1>8, <1>9, <2>2 DEF Issue, OpenCheckout, CreateDirect, CreateSwap, NoProvider,
                            ScheduleExpiry, StartExpiry, Return, Throw
  <2>3. CASE TatumWebhook(w)
    <3>1. CASE \E t \in Txs : ReceiveDeposit(w, t)
      <4>1. UNCHANGED handler \/ \E t \in Txs : GoTo(w, [Idle EXCEPT !.pc = "match", !.tx = t])
        BY <3>1 DEF ReceiveDeposit
      <4> QED BY <1>8, <1>9, <4>1
    <3>2. CASE MatchDeposit(w) \/ RecordDeposit(w) \/ CreditDeposit(w)
      BY <1>8, <1>9, <3>2 DEF MatchDeposit, RecordDeposit, CreditDeposit, Return
    <3> QED BY <2>3, <3>1, <3>2 DEF TatumWebhook
  <2>4. CASE ProviderWebhook(w)
    BY <1>8, <1>9, <2>4 DEF ProviderWebhook, ReceiveStatus, RecordStatus, ChooseAction, Return
  <2>5. CASE Sweeper(w) \/ Fault(w)
    BY <1>8, <1>9, <2>5 DEF Sweeper, SweepSelect, SweepPoll, Fault, Crash, DbError, Return, Throw
  <2> QED BY <1>9, <2>1, <2>2, <2>3, <2>4, <2>5
<1> QED BY <1>1, <1>2, <1>3, <1>4, <1>5, <1>6, <1>7, <1>9 DEF Next, Transition

\* A handler that is not overtaken goes on to hold the state the invoice is in.
LEMMA NextReadIsFresh ==
  ASSUME IInv, ReadIsFresh, [OverlapNext]_overlapVars
  PROVE  ReadIsFresh'
<1>1. [Next]_vars
  BY DEF OverlapNext, overlapVars
<1> SUFFICES ASSUME NEW v \in Workers, v \notin overtaken', handler'[v].pc = "commit"
             PROVE  handler'[v].read = state'
  BY DEF ReadIsFresh
<1>2. CASE handler'[v].read = state /\ UNCHANGED <<state, log>>
  BY <1>2
<1>3. CASE handler[v].pc = "commit" /\ handler'[v] = handler[v]
  <2>1. v \notin overtaken /\ log' = log
    BY <1>3 DEF OverlapNext, Overtake, overlapVars, vars, dbVars
  <2>2. handler[v].read = state
    BY <1>3, <2>1 DEF ReadIsFresh
  <2>3. state' = state
    <3>1. ASSUME NEW w \in Workers, CommitTransition(w) PROVE log' # log
      <4>1. \E e \in LogEntry : log' = Append(log, e)
        BY <3>1, CommitEffect
      <4>2. log \in Seq(LogEntry)
        BY DEF IInv, TypeOK
      <4>3. Len(log') = Len(log) + 1
        BY <4>1, <4>2
      <4> QED BY <4>2, <4>3
    <3> QED BY <1>1, <2>1, <3>1, OnlyCommitsMove
  <2> QED BY <1>3, <2>2, <2>3
<1> QED BY <1>1, <1>2, <1>3, ToCommit

\* However many handlers overlap, a commit that no other has overtaken takes an
\* edge out of the state the invoice is in: what transition() loses -- settled
\* states, one notification per change -- is lost to overtaken commits only.
THEOREM SerialWhenNotOvertaken == OverlapSpec => SerialUnlessOvertaken
<1>1. OverlapInit => ReadIsFresh
  BY DEF OverlapInit, Init, ReadIsFresh, Idle
<1>2. IInv /\ ReadIsFresh /\ [OverlapNext]_overlapVars => ReadIsFresh'
  BY NextReadIsFresh
<1>3. ASSUME IInv, ReadIsFresh, [OverlapNext]_overlapVars,
             NEW w \in Workers \ overtaken, Commits(w)
      PROVE  Promise!SerialNext
  <2>1. [Next]_vars
    BY <1>3 DEF OverlapNext, overlapVars
  <2>2. PICK v \in Workers : CommitTransition(v)
    BY <1>3, <2>1, OnlyCommitsMove DEF Commits
  <2>3. v = w
    <3>1. CommitTransition(v) => \E h : GoTo(v, h)
      BY DEF CommitTransition, Return
    <3>2. handler \in [Workers -> HandlerRecord]
      BY <1>3 DEF IInv, TypeOK
    <3> QED BY <1>3, <2>2, <3>1, <3>2, MovedHandlers DEF Commits
  <2>4. handler[w].read = state
    BY <1>3 DEF ReadIsFresh, Commits
  <2> QED BY <1>3, <2>2, <2>3, <2>4, CommitIsTaken DEF Promise!SerialNext
<1>4. IInv /\ ReadIsFresh /\ [OverlapNext]_overlapVars
        => [\A w \in Workers \ overtaken : Commits(w) => Promise!SerialNext]_overlapVars
  BY <1>3
<1>5. OverlapSpec => Spec
  <2>1. OverlapInit => Init
    BY DEF OverlapInit
  <2>2. [OverlapNext]_overlapVars => [Next]_vars
    BY DEF OverlapNext, overlapVars
  <2> QED BY <2>1, <2>2, PTL DEF OverlapSpec, Spec
<1> QED BY <1>1, <1>2, <1>4, <1>5, Invariance, PTL DEF OverlapSpec, SerialUnlessOvertaken

-----------------------------------------------------------------------------
(***************************************************************************)
(* The direct rail: a recorded deposit is credited, and the expiry job     *)
(* gives up only on an invoice that is resolved.  Both need more than      *)
(* IInv: no commit may bring an invoice back to AWAITING_PAYMENT, which    *)
(* holds because the unique reservation lets one handler issue it.  (With  *)
(* the swap rail a second one may, from a DRAFT it read before the first   *)
(* committed.)                                                             *)
(***************************************************************************)
\* What a handler is doing when no exchange exists.
DirectHandler(h) ==
  /\ h.exchange = None
  /\ \/ h.pc = "idle" /\ h.act = None /\ h.tx = None
     \/ h.pc \in {"rail", "read", "commit", "schedule"} /\ h.act = "issue" /\ h.tx = None
     \/ h.pc \in {"read", "commit"} /\ h.act = "expire" /\ h.tx = None
     \/ h.pc \in {"match", "record", "credit"} /\ h.act = None /\ h.tx # None
     \/ h.pc \in {"read", "commit"} /\ h.act = "depositDetected" /\ h.tx # None

\* No exchange is ever made, so nothing is posted and nothing is polled.
OnlyDirect ==
  /\ posted = {} /\ railRef = None
  /\ \A e \in Exchanges : provider[e] = None
  /\ \A w \in Workers : DirectHandler(handler[w])

\* A handler that has the reservation and is about to issue the invoice.
Issuing(h) == h.act = "issue" /\ h.pc \in {"read", "commit"}

\* There is one of them, and it still finds the invoice a draft, as everybody
\* does while nothing is reserved.
OneIssue ==
  /\ reserved = "no" => state = "DRAFT"
  /\ \A w \in Workers : Issuing(handler[w]) =>
       /\ state = "DRAFT" /\ reserved # "no"
       /\ \A v \in Workers : Issuing(handler[v]) => v = w

\* Before it is issued, an invoice has neither deposits nor an expiry job.
BeforeIssue ==
  state = "DRAFT" =>
    /\ mined = {} /\ deposits = {} /\ expiry = "none"
    /\ \A w \in Workers :
         handler[w].act \in {None, "issue"} /\ handler[w].pc # "schedule" /\ handler[w].tx = None

\* The handler that will credit the deposits is past the match, which may
\* still give its transfer up.
OnItsWay ==
  faults = 0 /\ deposits # {} /\ state = "AWAITING_PAYMENT" =>
    \E w \in Workers : handler[w].tx \in deposits /\ handler[w].pc # "match"

DirectInv == OnlyDirect /\ OneIssue /\ BeforeIssue /\ OnItsWay /\ ExpirySkipsOnlyResolved

\* What is left of the next-state relation without exchanges.
DirectNext ==
  \/ \E w \in Workers :
       \/ ReadState(w) \/ CommitTransition(w)
       \/ OpenCheckout(w) \/ CreateDirect(w) \/ ScheduleExpiry(w) \/ StartExpiry(w)
       \/ TatumWebhook(w) \/ Fault(w)
  \/ (\E t \in Txs : Mine(t)) \/ TimePasses

\* Without the swap rail no step of an exchange, a provider's webhook or the
\* sweeper is ever enabled.
LEMMA NoSwapStep ==
  ASSUME "SWAP_PROVIDER" \notin Rails, OnlyDirect, Next PROVE DirectNext
<1>1. ASSUME NEW w \in Workers, Issue(w)
      PROVE  OpenCheckout(w) \/ CreateDirect(w) \/ ScheduleExpiry(w)
  BY <1>1 DEF Issue, CreateSwap, NoProvider
<1>2. ASSUME NEW w \in Workers PROVE ~ProviderWebhook(w)
  BY DEF ProviderWebhook, ReceiveStatus, RecordStatus, ChooseAction, OnlyDirect, DirectHandler
<1>3. ASSUME NEW w \in Workers PROVE ~Sweeper(w)
  BY DEF Sweeper, SweepSelect, SweepPoll, OnlyDirect, DirectHandler
<1>4. \A e \in Exchanges : ~ProviderMoves(e)
  BY DEF ProviderMoves, OnlyDirect
<1> QED BY <1>1, <1>2, <1>3, <1>4 DEF Next, DirectNext, Transition, Environment

\* A handler that ends, and changes nothing else but who is answered and the
\* job, keeps the invariant when the job is not done too early and the deposits
\* do not need it.
LEMMA EndStep ==
  ASSUME DirectInv, handler \in [Workers -> HandlerRecord], NEW w \in Workers, GoTo(w, Idle),
         UNCHANGED <<dbVars, envVars>>,
         state = "DRAFT" => expiry' = "none",
         ExpirySkipsOnlyResolved',
         \/ faults' > 0
         \/ faults' = faults /\ (state = "AWAITING_PAYMENT" => handler[w].tx \notin deposits)
  PROVE  DirectInv'
<1>1. handler'[w] = Idle /\ \A v \in Workers : v # w => handler'[v] = handler[v]
  BY MovedHandlers
<1>2. OnlyDirect'
  BY <1>1 DEF DirectInv, OnlyDirect, DirectHandler, Idle, dbVars, envVars
<1>3. OneIssue'
  BY <1>1 DEF DirectInv, OneIssue, Issuing, Idle, dbVars
<1>4. BeforeIssue'
  BY <1>1 DEF DirectInv, BeforeIssue, Idle, dbVars, envVars
<1>5. OnItsWay'
  BY <1>1 DEF DirectInv, OnItsWay, dbVars
<1> QED BY <1>2, <1>3, <1>4, <1>5 DEF DirectInv

\* Every step keeps the invariant of the direct rail.
LEMMA NextDirect ==
  ASSUME "SWAP_PROVIDER" \notin Rails, IInv, DirectInv, [Next]_vars
  PROVE  DirectInv'
<1>t. /\ handler \in [Workers -> HandlerRecord]
      /\ \A w \in Workers : Holds(handler[w]) /\ handler[w] \in HandlerRecord
      /\ faults \in Nat
  BY DEF IInv, TypeOK, Grounded
<1>1. ASSUME NEW w \in Workers, ReadState(w) PROVE DirectInv'
  <2>1. CASE Accepts(state, handler[w].act)
    <3> DEFINE h == [handler[w] EXCEPT !.pc = "commit", !.read = state]
    <3>1. /\ h.pc = "commit" /\ h.act = handler[w].act /\ h.tx = handler[w].tx
          /\ h.exchange = handler[w].exchange
      BY <1>t DEF HandlerRecord
    <3>2. handler'[w] = h /\ \A v \in Workers : v # w => handler'[v] = handler[v]
      BY <1>1, <1>t, <2>1, MovedHandlers DEF ReadState
    <3>3. UNCHANGED <<dbVars, envVars, expiry, faults>> /\ handler[w].pc = "read"
      BY <1>1, <2>1 DEF ReadState
    <3> HIDE DEF h
    <3>4. OnlyDirect' /\ OneIssue' /\ BeforeIssue'
      BY <3>1, <3>2, <3>3
      DEF DirectInv, OnlyDirect, DirectHandler, OneIssue, Issuing, BeforeIssue, dbVars, envVars
    <3>5. OnItsWay' /\ ExpirySkipsOnlyResolved'
      BY <3>1, <3>2, <3>3 DEF DirectInv, OnItsWay, ExpirySkipsOnlyResolved, dbVars
    <3> QED BY <3>4, <3>5 DEF DirectInv
  <2>2. CASE ~Accepts(state, handler[w].act)
    <3>1. Throw(w) /\ UNCHANGED <<dbVars, envVars, faults>> /\ handler[w].pc = "read"
      BY <1>1, <2>2 DEF ReadState
    <3>2. handler[w].act \in {"issue", "expire", "depositDetected"}
      BY <3>1 DEF DirectInv, OnlyDirect, DirectHandler
    <3>3. handler[w].act \in {"expire", "depositDetected"} => state # "AWAITING_PAYMENT"
      BY <2>2 DEF Accepts, TerminalStates, Transitions
    <3>4. state = "DRAFT" => expiry' = "none"
      BY <3>1 DEF Throw, DirectInv, BeforeIssue, None
    <3>5. ExpirySkipsOnlyResolved'
      BY <3>1, <3>3 DEF Throw, DirectInv, ExpirySkipsOnlyResolved, dbVars
    <3>6. handler[w].act = "issue" => handler[w].tx \notin deposits
      BY <1>t, <3>1 DEF DirectInv, OnlyDirect, DirectHandler, OneIssue, Issuing, BeforeIssue
    <3> QED BY <1>t, <3>1, <3>2, <3>3, <3>4, <3>5, <3>6, EndStep DEF Throw
  <2> QED BY <2>1, <2>2
<1>2. ASSUME NEW w \in Workers, CommitTransition(w) PROVE DirectInv'
  <2>1. /\ handler[w].pc = "commit" /\ state' = Target(handler[w].act)
        /\ UNCHANGED <<reserved, deposits, envVars, faults>>
    BY <1>2 DEF CommitTransition
  <2>2. CASE handler[w].act = "issue"
    <3> DEFINE h == [handler[w] EXCEPT !.pc = "schedule", !.read = None]
    <3>1. h.pc = "schedule" /\ h.act = "issue" /\ h.tx = handler[w].tx /\ h.exchange = handler[w].exchange
      BY <1>t, <2>2 DEF HandlerRecord
    <3>2. handler'[w] = h /\ \A v \in Workers : v # w => handler'[v] = handler[v]
      BY <1>2, <1>t, <2>2, MovedHandlers DEF CommitTransition
    <3>3. state' = "AWAITING_PAYMENT" /\ state = "DRAFT"
      BY <2>1, <2>2 DEF Target, Transitions, DirectInv, OneIssue, Issuing
    <3>4. UNCHANGED <<railRef, expiry>>
      BY <1>2, <2>2 DEF CommitTransition, DirectInv, OnlyDirect, DirectHandler
    <3> HIDE DEF h
    <3>5. OnlyDirect'
      BY <2>1, <2>2, <3>1, <3>2, <3>4 DEF DirectInv, OnlyDirect, DirectHandler, envVars
    <3>6. OneIssue'
      BY <2>1, <2>2, <3>1, <3>2 DEF DirectInv, OneIssue, Issuing
    <3>7. BeforeIssue' /\ OnItsWay' /\ ExpirySkipsOnlyResolved'
      BY <2>1, <3>3, <3>4 DEF DirectInv, BeforeIssue, OnItsWay, ExpirySkipsOnlyResolved
    <3> QED BY <3>5, <3>6, <3>7 DEF DirectInv
  <2>3. CASE handler[w].act # "issue"
    <3>1. handler[w].act \in {"expire", "depositDetected"}
      BY <2>1, <2>3 DEF DirectInv, OnlyDirect, DirectHandler
    <3>2. state' \in {"RECEIVED", "EXPIRED"} /\ state # "DRAFT"
      BY <2>1, <3>1 DEF Target, Transitions, DirectInv, BeforeIssue, None
    <3>3. handler'[w] = Idle /\ \A v \in Workers : v # w => handler'[v] = handler[v]
      BY <1>2, <1>t, <2>3, MovedHandlers DEF CommitTransition, Return
    <3>4. UNCHANGED railRef
      BY <1>2, <2>3 DEF CommitTransition
    <3>5. OnlyDirect'
      BY <2>1, <3>3, <3>4 DEF DirectInv, OnlyDirect, DirectHandler, Idle, envVars
    <3>6. OneIssue'
      BY <2>1, <3>2, <3>3 DEF DirectInv, OneIssue, Issuing, Idle
    <3>7. BeforeIssue' /\ OnItsWay' /\ ExpirySkipsOnlyResolved'
      BY <3>2 DEF BeforeIssue, OnItsWay, ExpirySkipsOnlyResolved
    <3> QED BY <3>5, <3>6, <3>7 DEF DirectInv
  <2> QED BY <2>2, <2>3
<1>3. ASSUME NEW w \in Workers, OpenCheckout(w) PROVE DirectInv'
  <2> DEFINE h == [Idle EXCEPT !.pc = "rail", !.act = "issue"]
  <2>1. h.pc = "rail" /\ h.act = "issue" /\ h.tx = None /\ h.exchange = None
    BY DEF Idle
  <2>2. handler'[w] = h /\ \A v \in Workers : v # w => handler'[v] = handler[v]
    BY <1>3, <1>t, MovedHandlers DEF OpenCheckout
  <2>3. UNCHANGED <<dbVars, envVars, expiry, faults>> /\ state = "DRAFT"
    BY <1>3 DEF OpenCheckout
  <2> HIDE DEF h
  <2> QED
    BY <2>1, <2>2, <2>3
    DEF DirectInv, OnlyDirect, DirectHandler, OneIssue, Issuing, BeforeIssue, OnItsWay,
        ExpirySkipsOnlyResolved, dbVars, envVars
<1>4. ASSUME NEW w \in Workers, CreateDirect(w) PROVE DirectInv'
  <2>0. handler[w].pc = "rail" /\ handler[w].act = "issue" /\ handler[w].tx = None
    BY <1>4 DEF CreateDirect, DirectInv, OnlyDirect, DirectHandler
  <2>1. CASE reserved # "no"
    <3>1. Throw(w) /\ UNCHANGED <<dbVars, envVars, expiry, faults>>
      BY <1>4, <2>0, <2>1 DEF CreateDirect, Throw, dbVars
    <3>2. (state = "DRAFT" => expiry' = "none") /\ ExpirySkipsOnlyResolved'
      BY <3>1 DEF DirectInv, BeforeIssue, ExpirySkipsOnlyResolved, dbVars
    <3>3. handler[w].tx \notin deposits
      BY <2>0, NoneAssumption DEF IInv, TypeOK
    <3> QED BY <1>t, <3>1, <3>2, <3>3, EndStep DEF Throw
  <2>2. CASE reserved = "no"
    <3> DEFINE h == [handler[w] EXCEPT !.pc = "read"]
    <3>1. h.pc = "read" /\ h.act = "issue" /\ h.tx = None /\ h.exchange = handler[w].exchange
      BY <1>t, <2>0 DEF HandlerRecord
    <3>2. handler'[w] = h /\ \A v \in Workers : v # w => handler'[v] = handler[v]
      BY <1>4, <1>t, <2>2, MovedHandlers DEF CreateDirect
    <3>3. /\ UNCHANGED <<state, railRef, deposits, envVars, expiry, faults>>
          /\ reserved' # "no"
      BY <1>4, <2>2 DEF CreateDirect
    <3> HIDE DEF h
    <3>4. state = "DRAFT"
      BY <2>2 DEF DirectInv, OneIssue
    <3>5. OnlyDirect' /\ OneIssue' /\ BeforeIssue'
      BY <2>2, <3>1, <3>2, <3>3, <3>4
      DEF DirectInv, OnlyDirect, DirectHandler, OneIssue, Issuing, BeforeIssue, envVars
    <3>6. OnItsWay' /\ ExpirySkipsOnlyResolved'
      BY <3>3, <3>4 DEF OnItsWay, ExpirySkipsOnlyResolved
    <3> QED BY <3>5, <3>6 DEF DirectInv
  <2> QED BY <2>1, <2>2
<1>5. ASSUME NEW w \in Workers, ScheduleExpiry(w) PROVE DirectInv'
  <2>1. /\ GoTo(w, Idle) /\ UNCHANGED <<dbVars, envVars, faults>>
        /\ handler[w].pc = "schedule" /\ handler[w].tx = None
        /\ expiry' \in {"waiting", expiry}
    BY <1>5 DEF ScheduleExpiry, DirectInv, OnlyDirect, DirectHandler
  <2>2. (state = "DRAFT" => expiry' = "none") /\ ExpirySkipsOnlyResolved'
    BY <2>1 DEF DirectInv, BeforeIssue, ExpirySkipsOnlyResolved, dbVars
  <2>3. handler[w].tx \notin deposits
    BY <2>1, NoneAssumption DEF IInv, TypeOK
  <2> QED BY <1>t, <2>1, <2>2, <2>3, EndStep
<1>6. ASSUME NEW w \in Workers, StartExpiry(w) PROVE DirectInv'
  <2> DEFINE h == [Idle EXCEPT !.pc = "read", !.act = "expire"]
  <2>1. h.pc = "read" /\ h.act = "expire" /\ h.tx = None /\ h.exchange = None
    BY DEF Idle
  <2>2. /\ handler'[w] = h /\ \A v \in Workers : v # w => handler'[v] = handler[v]
        /\ handler[w].tx = None
    BY <1>6, <1>t, MovedHandlers DEF StartExpiry, Idle
  <2>3. UNCHANGED <<dbVars, envVars, faults>> /\ expiry = "waiting" /\ expiry' = "active"
    BY <1>6 DEF StartExpiry
  <2>4. None \notin deposits
    BY NoneAssumption DEF IInv, TypeOK
  <2> HIDE DEF h
  <2>5. OnlyDirect' /\ OneIssue' /\ BeforeIssue'
    BY <2>1, <2>2, <2>3
    DEF DirectInv, OnlyDirect, DirectHandler, OneIssue, Issuing, BeforeIssue, dbVars, envVars
  <2>6. OnItsWay' /\ ExpirySkipsOnlyResolved'
    BY <2>1, <2>2, <2>3, <2>4 DEF DirectInv, OnItsWay, ExpirySkipsOnlyResolved, dbVars
  <2> QED BY <2>5, <2>6 DEF DirectInv
<1>7. ASSUME NEW w \in Workers, NEW t \in Txs, ReceiveDeposit(w, t) PROVE DirectInv'
  <2>1. UNCHANGED <<dbVars, envVars, expiry, faults>> /\ t \in mined /\ handler[w] = Idle
    BY <1>7 DEF ReceiveDeposit
  <2>2. state # "DRAFT" /\ t # None /\ None \notin deposits
    BY <2>1, NoneAssumption DEF DirectInv, BeforeIssue, IInv, TypeOK
  <2>3. CASE t \in deposits
    BY <1>7, <2>1, <2>3
    DEF ReceiveDeposit, DirectInv, OnlyDirect, DirectHandler, OneIssue, Issuing, BeforeIssue,
        OnItsWay, ExpirySkipsOnlyResolved, dbVars, envVars
  <2>4. CASE t \notin deposits
    <3> DEFINE h == [Idle EXCEPT !.pc = "match", !.tx = t]
    <3>1. h.pc = "match" /\ h.act = None /\ h.tx = t /\ h.exchange = None
      BY DEF Idle
    <3>2. /\ handler'[w] = h /\ \A v \in Workers : v # w => handler'[v] = handler[v]
          /\ handler[w].tx = None
      BY <1>7, <1>t, <2>1, <2>4, MovedHandlers DEF ReceiveDeposit, Idle
    <3> HIDE DEF h
    <3>3. OnlyDirect' /\ OneIssue' /\ BeforeIssue'
      BY <2>1, <2>2, <3>1, <3>2
      DEF DirectInv, OnlyDirect, DirectHandler, OneIssue, Issuing, BeforeIssue, dbVars, envVars, None
    <3>4. OnItsWay' /\ ExpirySkipsOnlyResolved'
      BY <2>1, <2>2, <3>2 DEF DirectInv, OnItsWay, ExpirySkipsOnlyResolved, dbVars
    <3> QED BY <3>3, <3>4 DEF DirectInv
  <2> QED BY <2>3, <2>4
<1>8. ASSUME NEW w \in Workers, NEW h, GoTo(w, h), handler[w].tx # None,
             UNCHANGED <<state, railRef, reserved, envVars, expiry, faults>>,
             DirectHandler(h), h.tx = handler[w].tx, h.pc # "match", ~Issuing(h),
             deposits \subseteq deposits', deposits' \subseteq deposits \cup {h.tx}
      PROVE  DirectInv'
  <2>1. handler'[w] = h /\ \A v \in Workers : v # w => handler'[v] = handler[v]
    BY <1>8, <1>t, MovedHandlers
  <2>2. state # "DRAFT"
    BY <1>8 DEF DirectInv, BeforeIssue
  <2>3. OnlyDirect' /\ OneIssue' /\ BeforeIssue'
    BY <1>8, <2>1, <2>2 DEF DirectInv, OnlyDirect, OneIssue, BeforeIssue, envVars
  <2>4. OnItsWay' /\ ExpirySkipsOnlyResolved'
    BY <1>8, <2>1 DEF DirectInv, OnItsWay, ExpirySkipsOnlyResolved
  <2> QED BY <2>3, <2>4 DEF DirectInv
<1>9. ASSUME NEW w \in Workers, MatchDeposit(w) PROVE DirectInv'
  <2>1. /\ handler[w].pc = "match" /\ handler[w].tx # None
        /\ handler[w].act = None /\ handler[w].exchange = None
    BY <1>9 DEF MatchDeposit, DirectInv, OnlyDirect, DirectHandler
  <2>2. CASE reserved = "live" /\ phase # "over"
    <3> DEFINE h == [handler[w] EXCEPT !.pc = "record"]
    <3>1. h.pc = "record" /\ h.tx = handler[w].tx /\ h.act = None /\ h.exchange = None
      BY <1>t, <2>1 DEF HandlerRecord
    <3>2. GoTo(w, h) /\ UNCHANGED <<state, railRef, reserved, deposits, envVars, expiry, faults>>
      BY <1>9, <2>2 DEF MatchDeposit
    <3> HIDE DEF h
    <3> QED BY <1>8, <2>1, <3>1, <3>2 DEF DirectHandler, Issuing
  <2>3. CASE ~(reserved = "live" /\ phase # "over")
    <3>1. /\ Return(w) /\ handler[w].act # "expire"
          /\ UNCHANGED <<state, railRef, reserved, deposits, envVars, faults>>
      BY <1>9, <2>1, <2>3 DEF MatchDeposit, None
    <3>2. GoTo(w, Idle) /\ UNCHANGED expiry
      BY <3>1 DEF Return
    <3>3. handler'[w] = Idle /\ \A v \in Workers : v # w => handler'[v] = handler[v]
      BY <1>t, <3>2, MovedHandlers
    <3>4. OnlyDirect' /\ OneIssue' /\ BeforeIssue'
      BY <3>1, <3>2, <3>3
      DEF DirectInv, OnlyDirect, DirectHandler, OneIssue, Issuing, BeforeIssue, Idle, envVars
    <3>5. OnItsWay' /\ ExpirySkipsOnlyResolved'
      BY <2>1, <3>1, <3>2, <3>3 DEF DirectInv, OnItsWay, ExpirySkipsOnlyResolved
    <3> QED BY <3>4, <3>5 DEF DirectInv
  <2> QED BY <2>2, <2>3
<1>10. ASSUME NEW w \in Workers, RecordDeposit(w) PROVE DirectInv'
  <2> DEFINE h == [handler[w] EXCEPT !.pc = "credit"]
  <2>1. handler[w].tx # None /\ handler[w].act = None /\ handler[w].exchange = None
    BY <1>10 DEF RecordDeposit, DirectInv, OnlyDirect, DirectHandler
  <2>2. h.pc = "credit" /\ h.tx = handler[w].tx /\ h.act = None /\ h.exchange = None
    BY <1>t, <2>1 DEF HandlerRecord
  <2>3. /\ GoTo(w, h) /\ UNCHANGED <<state, railRef, reserved, envVars, expiry, faults>>
        /\ deposits' = deposits \cup {handler[w].tx}
    BY <1>10 DEF RecordDeposit
  <2> HIDE DEF h
  <2> QED BY <1>8, <2>1, <2>2, <2>3 DEF DirectHandler, Issuing
<1>11. ASSUME NEW w \in Workers, CreditDeposit(w) PROVE DirectInv'
  <2>1. /\ handler[w].pc = "credit" /\ handler[w].tx # None
        /\ handler[w].act = None /\ handler[w].exchange = None
        /\ UNCHANGED <<dbVars, envVars, faults>>
    BY <1>11 DEF CreditDeposit, DirectInv, OnlyDirect, DirectHandler
  <2>2. CASE state = "AWAITING_PAYMENT"
    <3> DEFINE h == [handler[w] EXCEPT !.pc = "read", !.act = "depositDetected"]
    <3>1. /\ h.pc = "read" /\ h.tx = handler[w].tx /\ h.act = "depositDetected"
          /\ h.exchange = None
      BY <1>t, <2>1 DEF HandlerRecord
    <3>2. GoTo(w, h) /\ UNCHANGED expiry
      BY <1>11, <2>2 DEF CreditDeposit
    <3> HIDE DEF h
    <3> QED BY <1>8, <2>1, <3>1, <3>2 DEF DirectHandler, Issuing, dbVars
  <2>3. CASE state # "AWAITING_PAYMENT"
    <3>1. GoTo(w, Idle) /\ UNCHANGED expiry
      BY <1>11, <2>1, <2>3 DEF CreditDeposit, Return, None
    <3>2. (state = "DRAFT" => expiry' = "none") /\ ExpirySkipsOnlyResolved'
      BY <2>1, <3>1 DEF DirectInv, BeforeIssue, ExpirySkipsOnlyResolved, dbVars
    <3> QED BY <1>t, <2>1, <2>3, <3>1, <3>2, EndStep
  <2> QED BY <2>2, <2>3
<1>12. ASSUME NEW w \in Workers, Fault(w) PROVE DirectInv'
  <2>1. /\ GoTo(w, Idle) /\ UNCHANGED <<dbVars, envVars>> /\ faults' > 0
        /\ handler[w].act # "expire" => UNCHANGED expiry
    BY <1>12, <1>t DEF Fault, Crash, DbError, Throw
  <2>2. state = "DRAFT" => expiry' = "none"
    BY <2>1 DEF DirectInv, BeforeIssue, None
  <2>3. ExpirySkipsOnlyResolved'
    BY <2>1 DEF ExpirySkipsOnlyResolved
  <2> QED BY <1>t, <2>1, <2>2, <2>3, EndStep
<1>13. CASE (\E t \in Txs : Mine(t)) \/ TimePasses \/ UNCHANGED vars
  BY <1>13
  DEF Mine, TimePasses, DirectInv, OnlyDirect, OneIssue, BeforeIssue, OnItsWay,
      ExpirySkipsOnlyResolved, vars, dbVars, envVars
<1>14. DirectNext \/ UNCHANGED vars
  BY NoSwapStep DEF DirectInv
<1> QED BY <1>1, <1>2, <1>3, <1>4, <1>5, <1>6, <1>7, <1>9, <1>10, <1>11, <1>12, <1>13, <1>14
        DEF DirectNext, TatumWebhook

\* The invariant of the direct rail, for every number of handlers and transfers.
THEOREM DirectInvariance ==
  ASSUME "SWAP_PROVIDER" \notin Rails PROVE Spec => []DirectInv
<1>1. Init => DirectInv
  BY DEF Init, DirectInv, OnlyDirect, DirectHandler, OneIssue, Issuing, BeforeIssue, OnItsWay,
         ExpirySkipsOnlyResolved, Idle
<1>2. IInv /\ DirectInv /\ [Next]_vars => DirectInv'
  BY NextDirect
<1> QED BY <1>1, <1>2, Invariance, PTL DEF Spec

\* On the direct rail, while no process dies and no call fails, an invoice with
\* a recorded deposit never sits in AWAITING_PAYMENT with nobody working on it,
\* however webhooks, checkouts and the expiry job interleave.
THEOREM CalmDepositsAreCredited ==
  ASSUME "SWAP_PROVIDER" \notin Rails PROVE Spec => []CalmDepositCredited
<1>1. DirectInv => CalmDepositCredited
  BY DEF DirectInv, OnItsWay, CalmDepositCredited, RecordedDepositCredited
<1> QED BY <1>1, DirectInvariance, PTL

\* On the direct rail the expiry job, which swallows every error, is complete
\* only when the invoice is resolved, unless a call failed or a process died.
THEOREM ExpiryGivesUpOnResolvedOnly ==
  ASSUME "SWAP_PROVIDER" \notin Rails PROVE Spec => []ExpirySkipsOnlyResolved
<1>1. DirectInv => ExpirySkipsOnlyResolved
  BY DEF DirectInv
<1> QED BY <1>1, DirectInvariance, PTL
=============================================================================
