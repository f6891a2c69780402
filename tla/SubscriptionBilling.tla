------------------------- MODULE SubscriptionBilling -------------------------
(***************************************************************************)
(* SubscriptionsService for one plan: customers subscribe, the merchant    *)
(* edits and removes the plan and cancels subscriptions, and the hourly    *)
(* job bills what is due.  Every action is one call to the database; a     *)
(* billing run that outlasts its hour, or whose job has stalled and been   *)
(* started again, overlaps the next.                                       *)
(***************************************************************************)
EXTENDS BillingCalendar, Sequences, FiniteSets

CONSTANTS
  Requests,    \* POST /public/plans/:id/subscribe being served
  Runs,        \* billing jobs that may run at the same time
  Subs,        \* ids of Subscription rows
  Emails,      \* customers
  Terms,       \* what the merchant may set as the plan's period
  Start,       \* the first day
  Horizon,     \* bound: the last day
  Batch,       \* take: rows of one run
  MaxTrouble   \* bound: failed calls, crashes and overlaps

ASSUME TermsAssumption == Terms \subseteq [duration : Nat \ {0}, unit : Units]
ASSUME DatesAssumption == Start \in Date /\ Horizon \in Date /\ ~Before(Horizon, Start)
ASSUME BillingBounds == Batch \in Nat \ {0} /\ MaxTrouble \in Nat

Days == {d \in [month : 0..Horizon.month, day : 1..31] :
           d.day <= DaysIn(d.month) /\ ~Before(Horizon, d)}

None == "none"
ASSUME NoneAssumption == None \notin Subs \cup Emails

VARIABLES
  now,        \* today
  plan,       \* the SubscriptionPlan row: exists, active, terms
  sub,        \* Subscription rows by id
  request,    \* subscribe() calls: pc and locals
  run,        \* billDueSubscriptions() calls: rows still to do, row in hand
  removing,   \* remove() has counted no active subscription
  issued,     \* invoices by subscription: the first day of the period billed
  announced,  \* periods whose invoice is linked and in the outbox
  faults,     \* calls that failed, processes that died
  overlaps,   \* runs that started while another was at work
  doubles,    \* subscribe() calls that started while another was at work
  late        \* history: invoices issued by runs for a canceled subscription

vars == <<now, plan, sub, request, run, removing, issued, announced, faults, overlaps, doubles, late>>
books == <<issued, announced>>

\* What has gone wrong so far; at most MaxTrouble of it in an instance.
Trouble == faults + overlaps + doubles

NoSub == [status |-> "none", email |-> None, first |-> Start, start |-> Start, end |-> Start]
NoRow == [sub |-> None, end |-> Start, terms |-> CHOOSE t \in Terms : TRUE]
\* A new call or job is anybody's; it is given to the same idle one.
IsNext(h, handlers) ==
  /\ handlers[h].pc = "idle"
  /\ h = CHOOSE o \in DOMAIN handlers : handlers[o].pc = "idle"

Resting == [pc |-> "idle", email |-> None, terms |-> NoRow.terms, sub |-> None, first |-> Start]
NoRun == [pc |-> "idle", todo |-> {}, row |-> NoRow]

Init ==
  /\ now = Start
  /\ plan \in [exists : {TRUE}, active : {TRUE}, terms : Terms]
  /\ sub = [s \in Subs |-> NoSub]
  /\ request = [q \in Requests |-> Resting]
  /\ run = [r \in Runs |-> NoRun]
  /\ removing = FALSE
  /\ issued = [s \in Subs |-> <<>>] /\ announced = [s \in Subs |-> {}]
  /\ faults = 0 /\ overlaps = 0 /\ doubles = 0
  /\ late = [s \in Subs |-> 0]

-----------------------------------------------------------------------------
(***************************************************************************)
(* issueInvoiceFor: the invoice, then its link and the outbox event.       *)
(***************************************************************************)
CreateInvoice(s, period) == issued' = [issued EXCEPT ![s] = Append(@, period)]

\* The rows are there unless the plan was removed, which deletes them: then
\* the foreign key makes the transaction throw.
Present(s) == sub[s].status \in {"ACTIVE", "CANCELED"}

Announce(s, period) == announced' = [announced EXCEPT ![s] = @ \cup {period}]

-----------------------------------------------------------------------------
(***************************************************************************)
(* subscribe                                                               *)
(***************************************************************************)
FindPlan(q, e) ==
  /\ IsNext(q, request)
  /\ plan.exists /\ plan.active
  /\ LET others == \E o \in Requests \ {q} : request[o].pc # "idle"
     IN /\ others => Trouble < MaxTrouble
        /\ doubles' = IF others THEN doubles + 1 ELSE doubles
  /\ request' = [request EXCEPT ![q] = [Resting EXCEPT !.pc = "check", !.email = e,
                                                       !.terms = plan.terms]]
  /\ UNCHANGED <<now, plan, sub, run, removing, books, faults, overlaps, late>>

\* Mutant of FindExisting: the customer's rows are not looked at.
FindNothing(q) ==
  /\ request[q].pc = "check"
  /\ request' = [request EXCEPT ![q].pc = "insert"]
  /\ UNCHANGED <<now, plan, sub, run, removing, books, faults, overlaps, doubles, late>>

\* "This email is already subscribed to this plan", or on to the insert.
FindExisting(q) ==
  /\ request[q].pc = "check"
  /\ request' =
       [request EXCEPT ![q] =
          IF \E s \in Subs : sub[s].status = "ACTIVE" /\ sub[s].email = request[q].email
          THEN Resting ELSE [@ EXCEPT !.pc = "insert"]]
  /\ UNCHANGED <<now, plan, sub, run, removing, books, faults, overlaps, doubles, late>>

\* A fresh id.
Unused == {s \in Subs : sub[s].status = "none"}
FreshSub == CHOOSE s \in Unused : TRUE

\* The insert; without the plan its foreign key throws.
InsertSubscription(q) ==
  /\ request[q].pc = "insert"
  /\ IF plan.exists
     THEN LET s == FreshSub
          IN
            /\ Unused # {}
            /\ sub' = [sub EXCEPT ![s] =
                         [status |-> "ACTIVE", email |-> request[q].email, first |-> now,
                          start |-> now, end |-> AddPeriod(now, request[q].terms)]]
            /\ request' = [request EXCEPT ![q].pc = "issue", ![q].sub = s, ![q].first = now]
     ELSE request' = [request EXCEPT ![q] = Resting] /\ UNCHANGED sub
  /\ UNCHANGED <<now, plan, run, removing, books, faults, overlaps, doubles, late>>

IssueFirst(q) ==
  /\ request[q].pc = "issue"
  /\ CreateInvoice(request[q].sub, request[q].first)
  /\ request' = [request EXCEPT ![q].pc = "announce"]
  /\ UNCHANGED <<now, plan, sub, run, removing, announced, faults, overlaps, doubles, late>>

AnnounceFirst(q) ==
  LET s == request[q].sub
  IN
  /\ request[q].pc = "announce"
  /\ IF Present(s) THEN Announce(s, request[q].first) ELSE UNCHANGED announced
  /\ request' = [request EXCEPT ![q] = Resting]
  /\ UNCHANGED <<now, plan, sub, run, removing, issued, faults, overlaps, doubles, late>>

\* A call rejects or the process dies: what has been written stays.
RequestFails(q) ==
  /\ request[q].pc # "idle"
  /\ Trouble < MaxTrouble
  /\ faults' = faults + 1
  /\ request' = [request EXCEPT ![q] = Resting]
  /\ UNCHANGED <<now, plan, sub, run, removing, books, overlaps, doubles, late>>

Subscribing(q) == FindExisting(q) \/ InsertSubscription(q) \/ IssueFirst(q) \/ AnnounceFirst(q)

-----------------------------------------------------------------------------
(***************************************************************************)
(* The merchant: update, remove, cancelSubscription                        *)
(***************************************************************************)
UpdatePlan(active, terms) ==
  /\ plan.exists
  /\ plan' = [plan EXCEPT !.active = active, !.terms = terms]
  /\ UNCHANGED <<now, sub, request, run, removing, books, faults, overlaps, doubles, late>>

CountActive ==
  /\ plan.exists /\ ~removing
  /\ \A s \in Subs : sub[s].status # "ACTIVE"
  /\ removing' = TRUE
  /\ UNCHANGED <<now, plan, sub, request, run, books, faults, overlaps, doubles, late>>

\* deleteMany cascades to the subscriptions; their invoices stay, unlinked.
DeletePlan ==
  /\ removing
  /\ removing' = FALSE
  /\ plan' = [plan EXCEPT !.exists = FALSE, !.active = FALSE]
  /\ sub' = [s \in Subs |-> IF Present(s) THEN [NoSub EXCEPT !.status = "deleted"] ELSE sub[s]]
  /\ UNCHANGED <<now, request, run, books, faults, overlaps, doubles, late>>

CancelSubscription(s) ==
  /\ sub[s].status = "ACTIVE"
  /\ sub' = [sub EXCEPT ![s].status = "CANCELED"]
  /\ UNCHANGED <<now, plan, request, run, removing, books, faults, overlaps, doubles, late>>

-----------------------------------------------------------------------------
(***************************************************************************)
(* billDueSubscriptions                                                    *)
(***************************************************************************)
IsDue(s) == sub[s].status = "ACTIVE" /\ ~Before(now, sub[s].end)

\* A run takes at most Batch of the rows, whichever the database returns.
Takes(rows, due) ==
  /\ rows \subseteq due
  /\ Cardinality(rows) <= Batch
  /\ rows = due \/ Cardinality(rows) = Batch

StartRun(r, rows) ==
  LET others == \E o \in Runs \ {r} : run[o].pc # "idle"
  IN
  /\ IsNext(r, run)
  /\ rows # {}
  /\ others => Trouble < MaxTrouble
  /\ overlaps' = IF others THEN overlaps + 1 ELSE overlaps
  /\ run' = [run EXCEPT ![r] =
               [NoRun EXCEPT !.pc = "issue",
                  !.todo = {[sub |-> s, end |-> sub[s].end, terms |-> plan.terms] : s \in rows}]]
  /\ UNCHANGED <<now, plan, sub, request, removing, books, faults, doubles, late>>

\* Mutant of FetchDue: the query has no status.
FetchAnyStatus(r) ==
  \E rows \in SUBSET Subs :
    /\ Takes(rows, {s \in Subs : Present(s) /\ ~Before(now, sub[s].end)})
    /\ StartRun(r, rows)

\* Mutant of FetchDue: nextBillingAt equals now instead of lte.
FetchEndingToday(r) ==
  \E rows \in SUBSET Subs :
    /\ Takes(rows, {s \in Subs : IsDue(s) /\ sub[s].end = now})
    /\ StartRun(r, rows)

\* The rows, and their plan, are as of now, whatever happens to them while the
\* loop runs.
FetchDue(r) ==
  \E rows \in SUBSET Subs : Takes(rows, {s \in Subs : IsDue(s)}) /\ StartRun(r, rows)

\* On to the next row of the loop, or the end of the run.
NextRow(r, todo) ==
  run' = [run EXCEPT ![r] = IF todo = {} THEN NoRun
                            ELSE [NoRun EXCEPT !.pc = "issue", !.todo = todo]]

\* The invoice of the period that begins where the row's last one ended.
BillRow(r) ==
  /\ run[r].pc = "issue"
  /\ \E x \in run[r].todo :
       /\ CreateInvoice(x.sub, x.end)
       /\ run' = [run EXCEPT ![r] = [pc |-> "announce", todo |-> run[r].todo \ {x}, row |-> x]]
       /\ late' = IF sub[x.sub].status = "CANCELED" THEN [late EXCEPT ![x.sub] = @ + 1] ELSE late
  /\ UNCHANGED <<now, plan, sub, request, removing, announced, faults, overlaps, doubles>>

AnnounceRow(r) ==
  LET x == run[r].row
  IN
  /\ run[r].pc = "announce"
  /\ IF Present(x.sub)
     THEN Announce(x.sub, x.end) /\ run' = [run EXCEPT ![r].pc = "advance"]
     ELSE NextRow(r, run[r].todo) /\ UNCHANGED announced
  /\ UNCHANGED <<now, plan, sub, request, removing, issued, faults, overlaps, doubles, late>>

\* Mutant of AdvanceCursor: the period starts anew from today.
AdvanceFromToday(r) ==
  LET x == run[r].row
  IN
  /\ run[r].pc = "advance"
  /\ sub' = IF Present(x.sub)
            THEN [sub EXCEPT ![x.sub].start = now, ![x.sub].end = AddPeriod(now, x.terms)]
            ELSE sub
  /\ NextRow(r, run[r].todo)
  /\ UNCHANGED <<now, plan, request, removing, books, faults, overlaps, doubles, late>>

\* Mutant of AdvanceCursor: nextBillingAt is left where it was.
AdvanceNothing(r) ==
  /\ run[r].pc = "advance"
  /\ NextRow(r, run[r].todo)
  /\ UNCHANGED <<now, plan, sub, request, removing, books, faults, overlaps, doubles, late>>

\* currentPeriodStart, currentPeriodEnd and nextBillingAt, from the row as it
\* was read; the status is not touched.  A row that is gone throws.
AdvanceCursor(r) ==
  LET x == run[r].row
  IN
  /\ run[r].pc = "advance"
  /\ sub' = IF Present(x.sub)
            THEN [sub EXCEPT ![x.sub].start = x.end, ![x.sub].end = AddPeriod(x.end, x.terms)]
            ELSE sub
  /\ NextRow(r, run[r].todo)
  /\ UNCHANGED <<now, plan, request, removing, books, faults, overlaps, doubles, late>>

\* A call rejects: the error is logged, the loop goes on.
RowFails(r) ==
  /\ Trouble < MaxTrouble
  /\ faults' = faults + 1
  /\ \/ run[r].pc \in {"announce", "advance"} /\ NextRow(r, run[r].todo)
     \/ run[r].pc = "issue" /\ \E x \in run[r].todo : NextRow(r, run[r].todo \ {x})
  /\ UNCHANGED <<now, plan, sub, request, removing, books, overlaps, doubles, late>>

\* The process dies; the next run fetches again.
RunDies(r) ==
  /\ run[r].pc # "idle"
  /\ Trouble < MaxTrouble
  /\ faults' = faults + 1
  /\ run' = [run EXCEPT ![r] = NoRun]
  /\ UNCHANGED <<now, plan, sub, request, removing, books, overlaps, doubles, late>>

Billing(r) == BillRow(r) \/ AnnounceRow(r) \/ AdvanceCursor(r)

\* The days that matter are those on which a period ends.
TimePasses ==
  \E s \in Subs :
    /\ Present(s) /\ Before(now, sub[s].end) /\ ~Before(Horizon, sub[s].end)
    /\ \A o \in Subs : Present(o) /\ Before(now, sub[o].end) => ~Before(sub[o].end, sub[s].end)
    /\ now' = sub[s].end
    /\ UNCHANGED <<plan, sub, request, run, removing, books, faults, overlaps, doubles, late>>

Next ==
  \/ \E q \in Requests :
       (\E e \in Emails : FindPlan(q, e)) \/ Subscribing(q) \/ RequestFails(q)
  \/ \E active \in BOOLEAN, terms \in Terms : UpdatePlan(active, terms)
  \/ CountActive \/ DeletePlan
  \/ \E s \in Subs : CancelSubscription(s)
  \/ \E r \in Runs : FetchDue(r) \/ Billing(r) \/ RowFails(r) \/ RunDies(r)
  \/ TimePasses

Spec == Init /\ [][Next]_vars

\* The scheduler starts a run every hour, and some run goes on.  Nobody has to
\* subscribe, and the merchant does as they please.
FairSpec == Spec /\ WF_vars(\E r \in Runs : FetchDue(r) \/ Billing(r))

-----------------------------------------------------------------------------
(***************************************************************************)
(* Properties                                                              *)
(***************************************************************************)
Row == [sub : Subs \cup {None}, end : Date, terms : Terms]

\* Types of all variables.
BillingTypeOK ==
  /\ now \in Date
  /\ plan \in [exists : BOOLEAN, active : BOOLEAN, terms : Terms]
  /\ sub \in [Subs -> [status : {"none", "ACTIVE", "CANCELED", "deleted"},
                       email : Emails \cup {None}, first : Date, start : Date, end : Date]]
  /\ request \in [Requests -> [pc : {"idle", "check", "insert", "issue", "announce"},
                               email : Emails \cup {None}, terms : Terms,
                               sub : Subs \cup {None}, first : Date]]
  /\ run \in [Runs -> [pc : {"idle", "issue", "announce", "advance"},
                       todo : SUBSET Row, row : Row]]
  /\ removing \in BOOLEAN
  /\ issued \in [Subs -> Seq(Date)] /\ announced \in [Subs -> SUBSET Date]
  /\ faults \in Nat /\ overlaps \in Nat /\ doubles \in Nat /\ late \in [Subs -> Nat]

\* The periods the customer has been sent an invoice for, and the first.
Periods(s) == announced[s] \cup {sub[s].first}

\* "The cursor only advances once the invoice is created": whatever fails,
\* overlaps or is edited, the current period is the first or has been billed,
\* and every billed period follows on another.
NoPeriodSkipped ==
  \A s \in Subs : Present(s) =>
    /\ sub[s].start \in Periods(s)
    /\ \A p \in Periods(s) \ {sub[s].first} :
         \E b \in Periods(s), t \in Terms : p = AddPeriod(b, t)

\* addMonths "would skip a subscriber's February billing entirely": a plan by
\* the month or year bills in a month that follows by as many months, on a day
\* no later than the one of the subscription.
Months(t) == IF t.unit = "YEAR" THEN 12 * t.duration ELSE t.duration

NoMonthSkipped ==
  (\A t \in Terms : t.unit \in {"MONTH", "YEAR"}) =>
    \A s \in Subs : Present(s) => \A p \in Periods(s) \ {sub[s].first} :
      /\ p.day <= sub[s].first.day
      /\ \E b \in Periods(s), t \in Terms : p.month = b.month + Months(t)

\* "Idempotent per period: the cursor only advances once the invoice is created"
\* (billDueSubscriptions): no period has two invoices, whatever fails.
PeriodInvoicedOnce ==
  \A s \in Subs : \A i, j \in 1..Len(issued[s]) : issued[s][i] = issued[s][j] => i = j

\* A period has two invoices only if a call has failed or two runs have overlapped.
OncePerPeriod == faults = 0 /\ overlaps = 0 => PeriodInvoicedOnce

\* A customer has one active subscription to the plan, and one more for each
\* time subscribe() was called while another call was under way: a second
\* click can only win by racing the first.
NoSecondSubscription ==
  \A e \in Emails :
    Cardinality({s \in Subs : sub[s].status = "ACTIVE" /\ sub[s].email = e}) <= 1 + doubles

\* A canceled subscription gets at most one more invoice, from a run that had
\* fetched it, and one more for each run that overlapped another.
CanceledIsLeftAlone == \A s \in Subs : late[s] <= 1 + overlaps

\* The cursor of an active subscription catches up with the day: rows that
\* fail, rows beyond the batch and rows a run died on are billed by another.
CursorCatchesUp == \A s \in Subs : IsDue(s) ~> ~IsDue(s)
=============================================================================
