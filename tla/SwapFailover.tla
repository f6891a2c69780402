----------------------------- MODULE SwapFailover -----------------------------
(***************************************************************************)
(* SwapProviderRail.createPayment over unreliable swap providers:          *)
(* ProviderHealthService judges them by the ProviderTransaction rows of    *)
(* the last day, and the loop takes the first that gives an exchange which *)
(* can be stored.  Every action is one call to a provider or the database. *)
(* There is one call; other payments, whose calls are like it, add rows    *)
(* and their exchanges change status while it runs.                        *)
(***************************************************************************)
EXTENDS Naturals, Sequences, SequencesExt

CONSTANTS
  Providers,
  Priority,   \* the configured order of the providers
  MinSample,  \* MIN_SAMPLE_SIZE
  MaxRows,    \* bound: rows of the last day by provider
  MaxFaults   \* bound: failed queries of the database

ASSUME PriorityAssumption ==
  /\ Priority \in Seq(Providers) /\ ToSet(Priority) = Providers
  /\ \A i, j \in 1..Len(Priority) : Priority[i] = Priority[j] => i = j
ASSUME FailoverBounds == MinSample \in Nat \ {0} /\ MaxRows \in Nat /\ MaxFaults \in Nat

None == "none"
ASSUME NoneAssumption == None \notin Providers

VARIABLES
  tally,     \* ProviderTransaction rows of the last day by status
  call,      \* createPayment: pc, providers left to ask, those found degraded,
             \* exchange, selectedMinAmount
  suspect,   \* history: providers that were unreliable when the call judged them
  frozen,    \* history: providers that had frozen every swap when it judged them
  failed,    \* history: (provider, step) that failed in the call
  faults

vars == <<tally, call, suspect, frozen, failed, faults>>

\* "open": waiting, confirming, exchanging or sending.
Statuses == {"open", "finished", "failed", "verifying"}
Size(t) == t["open"] + t["finished"] + t["failed"] + t["verifying"]

\* An exchange: where it pays to, and what is stored of it.
NoExchange == [provider |-> None, row |-> FALSE, quote |-> FALSE, payout |-> None]
Idle == [pc |-> "rank", left |-> {}, degraded |-> {}, exchange |-> NoExchange, min |-> None]

Init ==
  /\ tally = [p \in Providers |-> [s \in Statuses |-> 0]]
  /\ call = Idle
  /\ suspect = {} /\ frozen = {}
  /\ failed = {}
  /\ faults = 0

-----------------------------------------------------------------------------
(***************************************************************************)
(* ProviderHealthService                                                   *)
(***************************************************************************)

\* Mutant of IsDegraded: the rate is taken over all rows.
IsDegradedOfAll(t) ==
  /\ Size(t) >= MinSample
  /\ 10 * t["finished"] < 9 * Size(t)

\* computeHealth and rankProviders: a success rate below 0.9, over the rows
\* that are settled (1 if there are none).  freezeRate is not looked at.
IsDegraded(t) ==
  /\ Size(t) >= MinSample
  /\ 10 * t["finished"] < 9 * (t["finished"] + t["failed"])

\* The first of some providers in the configured order.
Before(p, q) == \E i, j \in 1..Len(Priority) : i < j /\ Priority[i] = p /\ Priority[j] = q
First(providers) == CHOOSE p \in providers : \A q \in providers \ {p} : Before(p, q)

\* What the ranking is for: more than a tenth of what a provider has settled
\* failed.
Unreliable(t) == Size(t) >= MinSample /\ t["finished"] < 9 * t["failed"]

\* The clearest spike of the freeze rate: every swap of the day is held.
Spikes(t) == Size(t) >= MinSample /\ t["verifying"] = Size(t)

-----------------------------------------------------------------------------
(***************************************************************************)
(* createPayment                                                           *)
(***************************************************************************)
\* computeHealth of one of the providers, which are read at the same time.  A
\* query that is rejected rejects Promise.all: no provider is asked.
ComputeHealth(p) ==
  /\ call.pc = "rank" /\ p \notin call.left
  /\ \/ /\ call' = [call EXCEPT
             !.left = @ \cup {p},
             !.degraded = IF IsDegraded(tally[p]) THEN @ \cup {p} ELSE @,
             !.pc = IF call.left \cup {p} = Providers THEN "minimum" ELSE "rank"]
        /\ suspect' = IF Unreliable(tally[p]) THEN suspect \cup {p} ELSE suspect
        /\ frozen' = IF Spikes(tally[p]) THEN frozen \cup {p} ELSE frozen
        /\ UNCHANGED <<failed, faults>>
     \/ /\ faults < MaxFaults /\ faults' = faults + 1
        /\ failed' = failed \cup {<<p, "health">>}
        /\ call' = [call EXCEPT !.left = {}, !.pc = "refused"]
        /\ UNCHANGED <<suspect, frozen>>
  /\ UNCHANGED tally

\* The turn of the loop: [...healthy, ...degraded], each in the configured order.
Provider ==
  IF call.left \subseteq call.degraded THEN First(call.left)
  ELSE First(call.left \ call.degraded)

\* The catch clause, and the end of the loop: an exchange that was made before
\* the error is kept unless the next provider gives another.
NextProvider(c, step) ==
  /\ failed' = failed \cup {<<Provider, step>>}
  /\ call' = [c EXCEPT !.left = @ \ {Provider},
                       !.pc = IF c.left # {Provider} THEN "minimum"
                              ELSE IF c.exchange = NoExchange THEN "refused" ELSE "shown"]

\* getMinAmount: an error, an amount below the minimum, or a go.
AskMinimum ==
  /\ call.pc = "minimum"
  /\ \/ NextProvider(call, "minimum")
     \/ NextProvider([call EXCEPT !.min = Provider], "minimum")
     \/ /\ call' = [call EXCEPT !.min = Provider, !.pc = "create"]
        /\ UNCHANGED failed
  /\ UNCHANGED <<tally, suspect, frozen, faults>>

\* Mutant of CreateExchange: the address is compared after the assignment.
CreateUnchecked ==
  /\ call.pc = "create"
  /\ \/ NextProvider(call, "create")
     \/ \E payout \in {"merchant", "other"} :
          LET c == [call EXCEPT
                !.exchange = [NoExchange EXCEPT !.provider = Provider, !.payout = payout]]
          IN  IF payout = "other" THEN NextProvider(c, "create")
              ELSE call' = [c EXCEPT !.pc = "insert"] /\ UNCHANGED failed
  /\ UNCHANGED <<tally, suspect, frozen, faults>>

\* createExchange: an error (the provider may have made an exchange nobody
\* knows of), an exchange that pays another address, or one to keep.
CreateExchange ==
  /\ call.pc = "create"
  /\ \/ NextProvider(call, "create")
     \/ \E payout \in {"merchant", "other"} :
          LET candidate == [NoExchange EXCEPT !.provider = Provider, !.payout = payout]
          IN  IF payout = "other" THEN NextProvider(call, "create")
              ELSE /\ call' = [call EXCEPT !.pc = "insert", !.exchange = candidate]
                   /\ UNCHANGED failed
  /\ UNCHANGED <<tally, suspect, frozen, faults>>

\* providerTransaction.create
InsertTransaction ==
  /\ call.pc = "insert"
  /\ \/ /\ Size(tally[Provider]) <= MaxRows
        /\ tally' = [tally EXCEPT ![Provider]["open"] = @ + 1]
        /\ call' = [call EXCEPT !.exchange.row = TRUE, !.pc = "quote"]
        /\ UNCHANGED <<failed, faults>>
     \/ /\ faults < MaxFaults /\ faults' = faults + 1
        /\ NextProvider(call, "insert")
        /\ UNCHANGED tally
  /\ UNCHANGED <<suspect, frozen>>

\* Mutant of InsertQuote: the loop goes on after it.
InsertQuoteNoBreak ==
  /\ call.pc = "quote"
  /\ NextProvider([call EXCEPT !.exchange.quote = TRUE], "none")
  /\ UNCHANGED <<tally, suspect, frozen, faults>>

\* quote.create and break
InsertQuote ==
  /\ call.pc = "quote"
  /\ \/ /\ call' = [call EXCEPT !.exchange.quote = TRUE, !.pc = "shown", !.left = {}]
        /\ UNCHANGED <<failed, faults>>
     \/ /\ faults < MaxFaults /\ faults' = faults + 1
        /\ NextProvider(call, "quote")
  /\ UNCHANGED <<tally, suspect, frozen>>

-----------------------------------------------------------------------------
(***************************************************************************)
(* The rows change: another payment adds one, an exchange settles, is      *)
(* frozen or resumed, or is more than a day old.                           *)
(***************************************************************************)
Arrive(p) ==
  /\ Size(tally[p]) < MaxRows
  /\ tally' = [tally EXCEPT ![p]["open"] = @ + 1]
  /\ UNCHANGED <<call, suspect, frozen, failed, faults>>

Advance(p) ==
  /\ \E from \in {"open", "verifying"}, to \in {"finished", "failed", "verifying"} :
       /\ from # to /\ tally[p][from] > 0
       /\ tally' = [tally EXCEPT ![p][from] = @ - 1, ![p][to] = @ + 1]
  /\ UNCHANGED <<call, suspect, frozen, failed, faults>>

Age(p) ==
  /\ \E s \in Statuses : tally[p][s] > 0 /\ tally' = [tally EXCEPT ![p][s] = @ - 1]
  /\ UNCHANGED <<call, suspect, frozen, failed, faults>>

-----------------------------------------------------------------------------
CreatePayment ==
  \/ \E p \in Providers : ComputeHealth(p)
  \/ AskMinimum \/ CreateExchange \/ InsertTransaction \/ InsertQuote

Next ==
  \/ CreatePayment
  \/ \E p \in Providers : Arrive(p) \/ Advance(p) \/ Age(p)

Spec == Init /\ [][Next]_vars

-----------------------------------------------------------------------------
(***************************************************************************)
(* Properties                                                              *)
(***************************************************************************)
Failed(p) == \E step \in {"minimum", "create", "insert", "quote"} : <<p, step>> \in failed
InsertFailed(p) == <<p, "insert">> \in failed \/ <<p, "quote">> \in failed

\* What the customer is shown is of one piece, across failovers: the exchange pays
\* the merchant; its row and its quote are stored unless the insert of that very
\* exchange failed; and the minimum is its provider's unless, after that failure,
\* a later provider named a minimum and then gave no exchange.
ShownIsWhole ==
  call.pc = "shown" =>
    LET e == call.exchange
    IN  /\ e.payout = "merchant"
        /\ e.row \/ <<e.provider, "insert">> \in failed
        /\ e.quote \/ InsertFailed(e.provider)
        /\ \/ call.min = e.provider
           \/ /\ InsertFailed(e.provider)
              /\ <<call.min, "minimum">> \in failed \/ <<call.min, "create">> \in failed

\* "Persist the provider-side mirror + quote": an exchange that is shown has
\* its row, without which its webhooks are ignored, and its quote.
ShownIsStored == call.pc = "shown" => call.exchange.row /\ call.exchange.quote

\* p is asked before q: reliable ones first, each kind in the configured order.
Preferred(p, q) ==
  \/ p \notin suspect /\ q \in suspect
  \/ (p \in suspect <=> q \in suspect) /\ Before(p, q)

\* "Failover is automatic": a payment is refused only when every provider has
\* failed or a health query was rejected, and shows an exchange of one only when
\* each that its record of the last day puts in front has failed (the record of
\* what has settled: a spike of the freeze rate demotes nobody, see
\* FrozenIsDemoted).
FailsOver ==
  /\ call.pc = "refused" => \/ \A p \in Providers : Failed(p)
                            \/ \E p \in Providers : <<p, "health">> \in failed
  /\ call.pc = "shown" =>
       \A p \in Providers : Preferred(p, call.exchange.provider) => Failed(p)

\* "A degraded provider (freeze-rate spike, failing swaps) is automatically
\* demoted": one that had frozen every swap is used only when each that was
\* neither frozen nor unreliable has failed.
FrozenIsDemoted ==
  call.pc = "shown" /\ call.exchange.provider \in frozen =>
    \A p \in Providers \ (frozen \cup suspect) : Failed(p)
=============================================================================
