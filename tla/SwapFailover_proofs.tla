-------------------------- MODULE SwapFailover_proofs --------------------------
(***************************************************************************)
(* Theorems about SwapFailover,  for every number of providers, any order  *)
(* of them, any record of the last day and any number of failures.         *)
(***************************************************************************)
EXTENDS SwapFailover, WellFoundedInduction, TLAPS

\* The variables of createPayment; what is left to try may be anything.
CallShape ==
  /\ call = [pc |-> call.pc, left |-> call.left, degraded |-> call.degraded,
              exchange |-> call.exchange, min |-> call.min]
  /\ DOMAIN call.exchange = {"provider", "row", "quote", "payout"}

\* An exchange left over from an earlier turn of the loop is one whose insert
\* failed: its row, or after that its quote.
LeftOver(e) ==
  \/ e = NoExchange
  \/ /\ e.payout = "merchant" /\ InsertFailed(e.provider)
     /\ e.row \/ <<e.provider, "insert">> \in failed

\* The minimum in hand is the exchange's, or that of a provider that failed after it
\* had named it.
MinimumOf(e) ==
  e # NoExchange =>
    \/ call.min = e.provider
    \/ <<call.min, "minimum">> \in failed \/ <<call.min, "create">> \in failed

\* The exchange in hand is of the provider in hand.
InHand ==
  /\ call.exchange.payout = "merchant"
  /\ call.exchange.provider = Provider
  /\ call.min = Provider

\* What is known of the exchange, at each point of the loop.
LoopInvariant ==
  /\ call.pc = "rank" => call.exchange = NoExchange
  /\ call.pc \in {"minimum", "create"} => LeftOver(call.exchange)
  /\ call.pc = "minimum" => MinimumOf(call.exchange)
  /\ call.pc = "create" => call.min = Provider
  /\ call.pc \in {"insert", "quote"} => InHand
  /\ call.pc = "quote" => call.exchange.row
  /\ ShownIsWhole

-----------------------------------------------------------------------------
\* The shape holds at the start and is kept.
LEMMA NextShape == CallShape /\ [Next]_vars => CallShape'
<1> SUFFICES ASSUME CallShape, [Next]_vars PROVE CallShape'
  OBVIOUS
<1>1. ASSUME NEW p \in Providers, ComputeHealth(p) PROVE CallShape'
  BY <1>1 DEF ComputeHealth, CallShape
<1>2. CASE AskMinimum
  BY <1>2 DEF AskMinimum, NextProvider, CallShape
<1>a. \A step : NextProvider(call, step) => CallShape'
  BY DEF NextProvider, CallShape
<1>3. CASE CreateExchange
  <2>1. CASE \E payout : call' = [call EXCEPT !.pc = "insert", !.exchange =
                                    [NoExchange EXCEPT !.provider = Provider, !.payout = payout]]
    <3>1. PICK payout : call' = [call EXCEPT !.pc = "insert", !.exchange =
                                  [NoExchange EXCEPT !.provider = Provider, !.payout = payout]]
      BY <2>1
    <3> DEFINE new == [NoExchange EXCEPT !.provider = Provider, !.payout = payout]
    <3>2. DOMAIN new = {"provider", "row", "quote", "payout"}
      BY DEF NoExchange
    <3> HIDE DEF new
    <3>3. call' = [call EXCEPT !.pc = "insert", !.exchange = new]
      BY <3>1 DEF new
    <3> QED BY <3>2, <3>3 DEF CallShape
  <2> QED BY <1>a, <1>3, <2>1 DEF CreateExchange
<1>4. CASE InsertTransaction
  <2>1. CASE call' = [call EXCEPT !.exchange.row = TRUE, !.pc = "quote"]
    BY <2>1 DEF CallShape
  <2> QED BY <1>a, <1>4, <2>1 DEF InsertTransaction
<1>5. CASE InsertQuote
  <2>1. CASE call' = [call EXCEPT !.exchange.quote = TRUE, !.pc = "shown", !.left = {}]
    BY <2>1 DEF CallShape
  <2> QED BY <1>a, <1>5, <2>1 DEF InsertQuote
<1>6. CASE UNCHANGED call
  BY <1>6 DEF CallShape
<1> QED BY <1>1, <1>2, <1>3, <1>4, <1>5, <1>6
        DEF Next, CreatePayment, Arrive, Advance, Age, vars

\* The loop goes on, with an exchange that is left over.
LEMMA GoesOn ==
  ASSUME CallShape,
         call'.pc = "minimum" \/ call'.pc = "refused" \/ (call'.pc = "shown" /\ call'.exchange # NoExchange),
         LeftOver(call.exchange)', MinimumOf(call.exchange)'
  PROVE  LoopInvariant'
BY DEF LoopInvariant, LeftOver, MinimumOf, ShownIsWhole

\* NextProvider with a minimum: it goes on, or ends with what it has.
LEMMA NextProviderKeeps ==
  ASSUME CallShape, NEW m, NEW step, NextProvider([call EXCEPT !.min = m], step)
  PROVE  /\ call'.exchange = call.exchange /\ call'.min = m
         /\ failed' = failed \cup {<<Provider, step>>}
         /\ call'.pc = "minimum" \/ call'.pc = "refused"
            \/ (call'.pc = "shown" /\ call'.exchange # NoExchange)
BY DEF NextProvider, CallShape

\* Each step of createPayment keeps the invariant of its loop.
LEMMA NextLoop ==
  ASSUME CallShape, LoopInvariant, [Next]_vars PROVE LoopInvariant'
<1>a. \A e, step : LeftOver(e) /\ failed' = failed \cup {<<Provider, step>>} => LeftOver(e)'
  BY DEF LeftOver, InsertFailed
<1>b. \A step : NextProvider(call, step) => NextProvider([call EXCEPT !.min = call.min], step)
  BY DEF CallShape
<1>1. ASSUME NEW p \in Providers, ComputeHealth(p) PROVE LoopInvariant'
  <2>1. call'.pc \in {"rank", "minimum", "refused"} /\ call'.exchange = NoExchange
    BY <1>1 DEF ComputeHealth, CallShape, LoopInvariant
  <2> QED BY <2>1 DEF LoopInvariant, LeftOver, MinimumOf, ShownIsWhole
<1>2. CASE AskMinimum
  <2>1. LeftOver(call.exchange) /\ MinimumOf(call.exchange)
    BY <1>2 DEF AskMinimum, LoopInvariant
  <2>2. CASE NextProvider([call EXCEPT !.min = call.min], "minimum")
    <3>1. LeftOver(call.exchange)'
      BY <1>a, <2>1, <2>2, NextProviderKeeps
    <3>2. MinimumOf(call.exchange)'
      BY <2>1, <2>2, NextProviderKeeps DEF MinimumOf
    <3> QED BY <2>2, <3>1, <3>2, NextProviderKeeps, GoesOn
  <2>3. CASE NextProvider([call EXCEPT !.min = Provider], "minimum")
    <3>1. LeftOver(call.exchange)'
      BY <1>a, <2>1, <2>3, NextProviderKeeps
    <3>2. MinimumOf(call.exchange)'
      BY <2>3, NextProviderKeeps DEF MinimumOf
    <3> QED BY <2>3, <3>1, <3>2, NextProviderKeeps, GoesOn
  <2>4. CASE call' = [call EXCEPT !.min = Provider, !.pc = "create"] /\ UNCHANGED failed
    BY <1>2, <2>4
    DEF AskMinimum, CallShape, LoopInvariant, LeftOver, InsertFailed, Provider, ShownIsWhole
  <2> QED BY <1>2, <1>b, <2>2, <2>3, <2>4 DEF AskMinimum
<1>3. CASE CreateExchange
  <2>1. CASE NextProvider(call, "create")
    <3>1. NextProvider([call EXCEPT !.min = call.min], "create")
      BY <1>b, <2>1
    <3>2. LeftOver(call.exchange) /\ call.min = Provider
      BY <1>3 DEF CreateExchange, LoopInvariant
    <3>3. LeftOver(call.exchange)'
      BY <1>a, <3>1, <3>2, NextProviderKeeps
    <3>4. MinimumOf(call.exchange)'
      BY <3>1, <3>2, NextProviderKeeps DEF MinimumOf
    <3> QED BY <3>1, <3>3, <3>4, NextProviderKeeps, GoesOn
  <2>2. CASE /\ call' = [call EXCEPT !.pc = "insert", !.exchange =
                          [NoExchange EXCEPT !.provider = Provider, !.payout = "merchant"]]
             /\ UNCHANGED failed
    BY <1>3, <2>2 DEF CreateExchange, CallShape, LoopInvariant, InHand, NoExchange, Provider,
       ShownIsWhole
  <2> QED BY <1>3, <2>1, <2>2 DEF CreateExchange
<1>4. CASE InsertTransaction
  <2>1. CASE call' = [call EXCEPT !.exchange.row = TRUE, !.pc = "quote"]
    BY <1>4, <2>1 DEF InsertTransaction, CallShape, LoopInvariant, InHand, Provider, ShownIsWhole
  <2>2. CASE NextProvider(call, "insert")
    <3>1. NextProvider([call EXCEPT !.min = call.min], "insert") /\ InHand
      BY <1>4, <1>b, <2>2 DEF InsertTransaction, LoopInvariant
    <3>2. LeftOver(call.exchange)' /\ MinimumOf(call.exchange)'
      BY <3>1, NextProviderKeeps DEF LeftOver, MinimumOf, InHand, InsertFailed
    <3> QED BY <3>1, <3>2, NextProviderKeeps, GoesOn
  <2> QED BY <1>4, <2>1, <2>2 DEF InsertTransaction
<1>5. CASE InsertQuote
  <2>1. CASE call' = [call EXCEPT !.exchange.quote = TRUE, !.pc = "shown", !.left = {}]
    BY <1>5, <2>1 DEF InsertQuote, CallShape, LoopInvariant, InHand, ShownIsWhole
  <2>2. CASE NextProvider(call, "quote")
    <3>1. NextProvider([call EXCEPT !.min = call.min], "quote") /\ InHand /\ call.exchange.row
      BY <1>5, <1>b, <2>2 DEF InsertQuote, LoopInvariant
    <3>2. LeftOver(call.exchange)' /\ MinimumOf(call.exchange)'
      BY <3>1, NextProviderKeeps DEF LeftOver, MinimumOf, InHand, InsertFailed
    <3> QED BY <3>1, <3>2, NextProviderKeeps, GoesOn
  <2> QED BY <1>5, <2>1, <2>2 DEF InsertQuote
<1>6. CASE UNCHANGED <<call, failed>>
  BY <1>6 DEF LoopInvariant, LeftOver, MinimumOf, InHand, InsertFailed, Provider, ShownIsWhole
<1> QED BY <1>1, <1>2, <1>3, <1>4, <1>5, <1>6
        DEF Next, CreatePayment, Arrive, Advance, Age, vars

\* Whatever fails and whichever providers are tried, the customer is shown an
\* exchange that pays the merchant; a row or quote of it that is missing is one
\* whose insert failed, and a minimum of another provider is one that was named
\* after that failure (SwapProviderRail.createPayment).
THEOREM ShownInstructionsAreWhole == Spec => []ShownIsWhole
<1>1. Init => CallShape /\ LoopInvariant
  BY DEF Init, Idle, NoExchange, CallShape, LoopInvariant, ShownIsWhole
<1>2. CallShape /\ LoopInvariant /\ [Next]_vars => (CallShape /\ LoopInvariant)'
  BY NextShape, NextLoop
<1>3. LoopInvariant => ShownIsWhole
  BY DEF LoopInvariant
<1> QED BY <1>1, <1>2, <1>3, PTL DEF Spec

-----------------------------------------------------------------------------
(***************************************************************************)
(* Failover                                                                *)
(***************************************************************************)

\* A set of naturals has a least one.
LEMMA LeastNatural ==
  ASSUME NEW T \in SUBSET Nat, T # {}
  PROVE  \E n \in T : \A m \in T : n <= m
<1>1. PICK n \in T : \A m \in T : <<m, n>> \notin OpToRel(<, Nat)
  BY NatLessThanWellFounded, WFMin
<1>2. \A m \in T : <<m, n>> \in OpToRel(<, Nat) <=> m < n
  BY DEF OpToRel
<1>3. \A m \in T : ~(m < n)
  BY <1>1, <1>2, Zenon
<1>4. \A m \in T : m \in Nat /\ n \in Nat
  OBVIOUS
<1> QED BY <1>3, <1>4

\* The configured order is an order: no provider is configured twice.
LEMMA OneBeforeTheOther ==
  ASSUME NEW p, NEW q, Before(p, q) PROVE ~Before(q, p)
BY PriorityAssumption DEF Before

\* First gives a provider that is before all the others.
LEMMA FirstOfSome ==
  ASSUME NEW providers \in SUBSET Providers, providers # {}
  PROVE  /\ First(providers) \in providers
         /\ \A q \in providers : ~Before(q, First(providers))
<1> DEFINE places == {i \in 1..Len(Priority) : Priority[i] \in providers}
<1>1. \A q \in providers : \E i \in places : Priority[i] = q
  BY PriorityAssumption DEF ToSet
<1>2. places \in SUBSET Nat /\ places # {}
  BY <1>1
<1>3. PICK first \in places : \A i \in places : first <= i
  BY <1>2, LeastNatural
<1>4. Priority[first] \in providers
  OBVIOUS
<1>5. ASSUME NEW q \in providers \ {Priority[first]} PROVE Before(Priority[first], q)
  <2>1. PICK i \in places : Priority[i] = q
    BY <1>1
  <2>2. first < i
    BY <1>3, <2>1
  <2> QED BY <2>1, <2>2 DEF Before
<1>6. /\ First(providers) \in providers
      /\ \A q \in providers \ {First(providers)} : Before(First(providers), q)
  BY <1>4, <1>5 DEF First
<1>7. ~Before(First(providers), First(providers))
  BY OneBeforeTheOther
<1> QED BY <1>6, <1>7, OneBeforeTheOther

\* IsDegraded, of what the service counts, is what the ranking is for.
LEMMA DegradedIsUnreliable ==
  ASSUME NEW t \in [Statuses -> Nat] PROVE IsDegraded(t) <=> Unreliable(t)
<1>1. t["finished"] \in Nat /\ t["failed"] \in Nat
  BY DEF Statuses
<1> QED BY <1>1 DEF IsDegraded, Unreliable

\* What is known of the providers at each point of the loop: those no longer
\* left have failed.
AskedInOrder ==
  /\ tally \in [Providers -> [Statuses -> Nat]]
  /\ call.pc \in {"rank", "minimum", "create", "insert", "quote", "shown", "refused"}
  /\ call.left \subseteq Providers
  /\ call.degraded = suspect
  /\ call.pc \in {"minimum", "create", "insert", "quote"} =>
       call.left # {} /\ \A p \in Providers \ call.left : Failed(p)
  /\ FailsOver

\* The provider whose turn it is comes first of those that are left.
LEMMA TurnIsPreferred ==
  ASSUME call.left \subseteq Providers, call.left # {}, call.degraded = suspect
  PROVE  Provider \in call.left /\ \A p \in call.left : ~Preferred(p, Provider)
<1>1. CASE call.left \subseteq call.degraded
  <2>1. Provider = First(call.left)
    BY <1>1 DEF Provider
  <2>2. Provider \in call.left /\ \A p \in call.left : ~Before(p, Provider)
    BY <2>1, FirstOfSome
  <2> QED BY <1>1, <2>2 DEF Preferred
<1>2. CASE ~(call.left \subseteq call.degraded)
  <2> DEFINE healthy == call.left \ call.degraded
  <2>1. Provider = First(healthy)
    BY <1>2 DEF Provider
  <2>2. healthy \in SUBSET Providers /\ healthy # {}
    BY <1>2
  <2> HIDE DEF healthy
  <2>3. Provider \in healthy /\ \A p \in healthy : ~Before(p, Provider)
    BY <2>1, <2>2, FirstOfSome
  <2> USE DEF healthy
  <2>4. Provider \in call.left /\ Provider \notin suspect
    BY <2>3
  <2>5. \A p \in call.left : p \notin suspect => ~Before(p, Provider)
    BY <2>3
  <2> QED BY <2>4, <2>5 DEF Preferred
<1> QED BY <1>1, <1>2

\* The next turn: the provider has failed, too.
LEMMA NextTurn ==
  ASSUME CallShape, AskedInOrder, call.pc \in {"minimum", "create", "insert", "quote"},
         NEW step \in {"minimum", "create", "insert", "quote"},
         failed' = failed \cup {<<Provider, step>>}, suspect' = suspect,
         tally' \in [Providers -> [Statuses -> Nat]],
         call'.left = call.left \ {Provider}, call'.degraded = call.degraded,
         call'.pc = "minimum" \/ (call.left = {Provider} /\ call'.pc \in {"refused", "shown"}),
         call'.pc = "minimum" => call.left # {Provider}
  PROVE  AskedInOrder'
<1>1. Provider \in call.left
  BY TurnIsPreferred DEF AskedInOrder
<1>2. \A p \in Providers \ call'.left : Failed(p)'
  BY DEF AskedInOrder, Failed
<1>3. call'.pc \in {"refused", "shown"} => call'.left = {}
  BY <1>1
<1>4. FailsOver'
  <2>1. call'.pc \in {"refused", "shown"} => \A p \in Providers : Failed(p)'
    BY <1>2, <1>3
  <2> QED BY <2>1 DEF FailsOver
<1>5. call'.pc = "minimum" => call'.left # {}
  BY <1>1
<1>6. /\ call'.left \subseteq Providers /\ call'.degraded = suspect'
      /\ call'.pc \in {"minimum", "refused", "shown"}
  BY DEF AskedInOrder
<1> QED BY <1>2, <1>4, <1>5, <1>6 DEF AskedInOrder

\* NextProvider, with whatever exchange and minimum.
LEMMA NextProviderFields ==
  ASSUME CallShape, NEW m, NEW step, NextProvider([call EXCEPT !.min = m], step)
  PROVE  /\ failed' = failed \cup {<<Provider, step>>}
         /\ call'.left = call.left \ {Provider} /\ call'.degraded = call.degraded
         /\ call'.pc = "minimum" \/ (call.left = {Provider} /\ call'.pc \in {"refused", "shown"})
         /\ call'.pc = "minimum" => call.left # {Provider}
BY DEF NextProvider, CallShape

\* Each step of createPayment keeps it, and the records of the providers do
\* not matter once they are judged.
LEMMA NextAsked ==
  ASSUME CallShape, LoopInvariant, AskedInOrder, [Next]_vars PROVE AskedInOrder'
<1>t. /\ tally \in [Providers -> [Statuses -> Nat]] /\ call.left \subseteq Providers
      /\ call.degraded = suspect
  BY DEF AskedInOrder
<1>c. NextProvider(call, "create") \/ NextProvider(call, "insert") \/ NextProvider(call, "quote")
        \/ NextProvider(call, "minimum") =>
      \E step \in {"minimum", "create", "insert", "quote"} :
        NextProvider([call EXCEPT !.min = call.min], step)
  <2>1. call = [call EXCEPT !.min = call.min]
    BY DEF CallShape
  <2> QED BY <2>1
<1>n. ASSUME NEW m, NEW step \in {"minimum", "create", "insert", "quote"},
             NextProvider([call EXCEPT !.min = m], step), suspect' = suspect, tally' = tally,
             call.pc \in {"minimum", "create", "insert", "quote"}
      PROVE  AskedInOrder'
  BY <1>n, <1>t, NextProviderFields, NextTurn
<1>s. ASSUME call'.pc \in {"create", "insert", "quote"},
             call.pc \in {"minimum", "create", "insert"},
             call'.left = call.left, call'.degraded = call.degraded,
             failed' = failed, suspect' = suspect, tally' \in [Providers -> [Statuses -> Nat]]
      PROVE  AskedInOrder'
  BY <1>s DEF AskedInOrder, FailsOver, Failed
<1>1. ASSUME NEW p \in Providers, ComputeHealth(p) PROVE AskedInOrder'
  <2>a. CASE <<p, "health">> \in failed' /\ call' = [call EXCEPT !.left = {}, !.pc = "refused"]
             /\ UNCHANGED <<tally, suspect>>
    <3>1. call'.left = {} /\ call'.degraded = call.degraded /\ call'.pc = "refused"
      BY <2>a DEF CallShape
    <3> QED BY <1>t, <2>a, <3>1 DEF AskedInOrder, FailsOver
  <2>b. CASE /\ call' = [call EXCEPT
                  !.left = @ \cup {p},
                  !.degraded = IF IsDegraded(tally[p]) THEN @ \cup {p} ELSE @,
                  !.pc = IF call.left \cup {p} = Providers THEN "minimum" ELSE "rank"]
             /\ suspect' = IF Unreliable(tally[p]) THEN suspect \cup {p} ELSE suspect
             /\ UNCHANGED <<tally, failed>>
    <3>1. /\ call'.left = call.left \cup {p}
          /\ call'.degraded = IF IsDegraded(tally[p]) THEN call.degraded \cup {p}
                              ELSE call.degraded
          /\ call'.pc = IF call.left \cup {p} = Providers THEN "minimum" ELSE "rank"
      BY <2>b DEF CallShape
    <3>2. call'.degraded = suspect'
      BY <1>t, <2>b, <3>1, DegradedIsUnreliable
    <3>3. call'.pc = "minimum" => call'.left = Providers
      BY <3>1
    <3>4. call'.left # {} /\ call'.left \subseteq Providers /\ call'.pc \in {"minimum", "rank"}
      BY <1>t, <3>1
    <3> QED BY <1>t, <2>b, <3>2, <3>3, <3>4 DEF AskedInOrder, FailsOver
  <2> QED BY <1>1, <2>a, <2>b DEF ComputeHealth
<1>2. CASE AskMinimum
  <2>1. call.pc = "minimum" /\ UNCHANGED <<tally, suspect>>
    BY <1>2 DEF AskMinimum
  <2>2. CASE \E m : NextProvider([call EXCEPT !.min = m], "minimum")
    BY <1>n, <2>1, <2>2
  <2>3. CASE call' = [call EXCEPT !.min = Provider, !.pc = "create"] /\ UNCHANGED failed
    <3>1. call'.pc = "create" /\ call'.left = call.left /\ call'.degraded = call.degraded
      BY <2>3 DEF CallShape
    <3> QED BY <1>s, <1>t, <2>1, <2>3, <3>1
  <2> QED BY <1>2, <1>c, <1>n, <2>1, <2>2, <2>3 DEF AskMinimum
<1>3. CASE CreateExchange
  <2>1. call.pc = "create" /\ UNCHANGED <<tally, suspect>>
    BY <1>3 DEF CreateExchange
  <2>2. CASE NextProvider(call, "create")
    BY <1>c, <1>n, <2>1, <2>2
  <2>3. CASE /\ call' = [call EXCEPT !.pc = "insert", !.exchange =
                          [NoExchange EXCEPT !.provider = Provider, !.payout = "merchant"]]
             /\ UNCHANGED failed
    <3>1. call'.pc = "insert" /\ call'.left = call.left /\ call'.degraded = call.degraded
      BY <2>3 DEF CallShape
    <3> QED BY <1>s, <1>t, <2>1, <2>3, <3>1
  <2> QED BY <1>3, <2>2, <2>3 DEF CreateExchange
<1>4. CASE InsertTransaction
  <2>1. call.pc = "insert" /\ suspect' = suspect
    BY <1>4 DEF InsertTransaction
  <2>2. CASE /\ call' = [call EXCEPT !.exchange.row = TRUE, !.pc = "quote"]
             /\ tally' = [tally EXCEPT ![Provider]["open"] = @ + 1]
             /\ UNCHANGED failed
    <3>1. call'.pc = "quote" /\ call'.left = call.left /\ call'.degraded = call.degraded
      BY <2>2 DEF CallShape
    <3>2. tally' \in [Providers -> [Statuses -> Nat]]
      <4>1. Provider \in Providers
        BY <1>t, <2>1, TurnIsPreferred DEF AskedInOrder
      <4> DEFINE more == [tally[Provider] EXCEPT !["open"] = @ + 1]
      <4>2. more \in [Statuses -> Nat]
        BY <1>t, <4>1 DEF Statuses
      <4>3. tally' = [tally EXCEPT ![Provider] = more]
        BY <2>2
      <4> HIDE DEF more
      <4> QED BY <1>t, <4>2, <4>3
    <3> QED BY <1>s, <2>1, <2>2, <3>1, <3>2
  <2>3. CASE NextProvider(call, "insert") /\ tally' = tally
    BY <1>c, <1>n, <2>1, <2>3
  <2> QED BY <1>4, <2>2, <2>3 DEF InsertTransaction
<1>5. CASE InsertQuote
  <2>1. call.pc = "quote" /\ UNCHANGED <<tally, suspect>>
    BY <1>5 DEF InsertQuote
  <2>2. CASE call' = [call EXCEPT !.exchange.quote = TRUE, !.pc = "shown", !.left = {}]
             /\ UNCHANGED failed
    <3>1. /\ call'.pc = "shown" /\ call'.left = {} /\ call'.degraded = call.degraded
          /\ call'.exchange.provider = call.exchange.provider
      BY <2>2 DEF CallShape
    <3>2. call.exchange.provider = Provider
      BY <2>1 DEF LoopInvariant, InHand
    <3>3. \A p \in Providers : Preferred(p, Provider) => Failed(p)
      BY <2>1, TurnIsPreferred DEF AskedInOrder
    <3>4. FailsOver'
      BY <2>1, <2>2, <3>1, <3>2, <3>3 DEF FailsOver, Failed, Preferred
    <3> QED BY <1>t, <2>1, <3>1, <3>4 DEF AskedInOrder
  <2>3. CASE NextProvider(call, "quote")
    BY <1>c, <1>n, <2>1, <2>3
  <2> QED BY <1>5, <2>2, <2>3 DEF InsertQuote
<1>6. ASSUME UNCHANGED <<call, suspect, failed>>, tally' \in [Providers -> [Statuses -> Nat]]
      PROVE  AskedInOrder'
  BY <1>6 DEF AskedInOrder, FailsOver, Failed, Preferred
<1>7. ASSUME NEW p \in Providers, Arrive(p) \/ Advance(p) \/ Age(p)
      PROVE  UNCHANGED <<call, suspect, failed>> /\ tally' \in [Providers -> [Statuses -> Nat]]
  <2>1. UNCHANGED <<call, suspect, failed>>
    BY <1>7 DEF Arrive, Advance, Age
  <2>2. CASE Arrive(p)
    BY <1>t, <2>2 DEF Arrive, Statuses
  <2>3. CASE Advance(p)
    <3>1. PICK from \in Statuses, to \in Statuses :
            /\ tally[p][from] > 0
            /\ tally' = [tally EXCEPT ![p][from] = @ - 1, ![p][to] = @ + 1]
      BY <2>3 DEF Advance, Statuses
    <3> DEFINE moved == [tally[p] EXCEPT ![from] = @ - 1, ![to] = @ + 1]
    <3>2. tally' = [tally EXCEPT ![p] = moved]
      BY <1>t, <3>1
    <3>3. moved \in [Statuses -> Nat]
      BY <1>t, <3>1
    <3> HIDE DEF moved
    <3> QED BY <1>t, <2>1, <3>2, <3>3
  <2>4. CASE Age(p)
    <3>1. PICK s \in Statuses : tally[p][s] > 0 /\ tally' = [tally EXCEPT ![p][s] = @ - 1]
      BY <2>4 DEF Age
    <3>2. tally[p][s] - 1 \in Nat
      BY <1>t, <3>1
    <3> QED BY <1>t, <2>1, <3>1, <3>2
  <2> QED BY <1>7, <2>1, <2>2, <2>3, <2>4
<1>8. CASE UNCHANGED vars
  BY <1>t, <1>6, <1>8 DEF vars
<1> QED BY <1>1, <1>2, <1>3, <1>4, <1>5, <1>6, <1>7, <1>8 DEF Next, CreatePayment

\* A payment is refused only when every provider has failed or the record of one
\* could not be read, and shows an exchange of one only when each that its record puts
\* in front has failed, however the records change after they were read
\* (SwapProviderRail.createPayment, ProviderHealthService.rankProviders).
THEOREM FailoverIsInOrder == Spec => []FailsOver
<1>1. Init => CallShape /\ LoopInvariant /\ AskedInOrder
  BY DEF Init, Idle, NoExchange, CallShape, LoopInvariant, ShownIsWhole, AskedInOrder, FailsOver
<1>2. CallShape /\ LoopInvariant /\ AskedInOrder /\ [Next]_vars
        => (CallShape /\ LoopInvariant /\ AskedInOrder)'
  BY NextShape, NextLoop, NextAsked
<1>3. AskedInOrder => FailsOver
  BY DEF AskedInOrder
<1> QED BY <1>1, <1>2, <1>3, PTL DEF Spec
=============================================================================
