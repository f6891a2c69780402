---------------------- MODULE SubscriptionBilling_proofs ----------------------
(***************************************************************************)
(* Theorems about SubscriptionBilling, for every number of subscriptions,  *)
(* customers, requests and runs, every set of terms and every bound, and   *)
(* about the calendar of BillingCalendar.                                  *)
(***************************************************************************)
EXTENDS SubscriptionBilling, FiniteSetTheorems, WellFoundedInduction, TLAPS

Terming == [duration : Nat \ {0}, unit : Units]
SubType == [status : {"none", "ACTIVE", "CANCELED", "deleted"},
            email : Emails \cup {None}, first : Date, start : Date, end : Date]
RequestType == [pc : {"idle", "check", "insert", "issue", "announce"},
                email : Emails \cup {None}, terms : Terms, sub : Subs \cup {None}, first : Date]
\* A row in the hands of a run ends on a day of the model.
FetchedRow == [sub : Subs \cup {None}, end : Days, terms : Terms]
RunType == [pc : {"idle", "issue", "announce", "advance"},
            todo : SUBSET FetchedRow, row : FetchedRow]

\* The types, with the days on which a period may begin.
Typed ==
  /\ now \in Days
  /\ plan \in [exists : BOOLEAN, active : BOOLEAN, terms : Terms]
  /\ sub \in [Subs -> SubType]
  /\ request \in [Requests -> RequestType]
  /\ run \in [Runs -> RunType]
  /\ removing \in BOOLEAN
  /\ issued \in [Subs -> Seq(Date)] /\ announced \in [Subs -> SUBSET Date]
  /\ faults \in Nat /\ overlaps \in Nat /\ doubles \in Nat /\ late \in [Subs -> Nat]

-----------------------------------------------------------------------------
(***************************************************************************)
(* The calendar                                                            *)
(***************************************************************************)

\* A set of naturals has a least one.
LEMMA LeastNatural ==
  ASSUME NEW T \in SUBSET Nat, T # {}
  PROVE  \E n \in T : \A m \in T : n <= m
<1>1. PICK n \in T : \A m \in T : <<m, n>> \notin OpToRel(<, Nat)
  BY NatLessThanWellFounded, WFMin
<1>2. \A m \in T : <<m, n>> \in OpToRel(<, Nat) <=> m < n
  BY DEF OpToRel
<1>3. \A m \in T : ~(m < n)
  BY <1>1, <1>2, Zenon
<1>4. \A m \in T : m \in Nat /\ n \in Nat
  OBVIOUS
<1> QED BY <1>3, <1>4

\* What holds of zero and, with a number, of the next, holds of all numbers.
LEMMA AllNaturals ==
  ASSUME NEW S \in SUBSET Nat, 0 \in S, \A n \in S : n + 1 \in S
  PROVE  S = Nat
<1> SUFFICES ASSUME Nat \ S # {} PROVE FALSE
  OBVIOUS
<1>1. PICK n \in Nat \ S : \A m \in Nat \ S : n <= m
  BY LeastNatural
<1>2. n # 0 /\ n - 1 \in Nat
  BY <1>1
<1>3. n - 1 \in S
  BY <1>1, <1>2
<1> QED BY <1>1, <1>3

\* How long a month is.
LEMMA MonthLength == ASSUME NEW month \in Nat PROVE DaysIn(month) \in 28..31
BY DEF DaysIn

\* The next month, with the days that are left.
Over(d) == [month |-> d.month + 1, day |-> d.day - DaysIn(d.month)]
Turn(f, d) == IF d.day <= DaysIn(d.month) THEN d ELSE f[Over(d)]

\* A turn of Roll leaves fewer days.
LEMMA OverIsLess ==
  ASSUME NEW d \in Daylike, ~(d.day <= DaysIn(d.month))
  PROVE  Over(d) \in Daylike /\ Over(d).month = d.month + 1
         /\ Over(d).day = d.day - DaysIn(d.month) /\ Over(d).day < d.day /\ Over(d).day > 0
<1>1. DaysIn(d.month) \in 28..31
  BY MonthLength DEF Daylike
<1> QED BY <1>1 DEF Over, Daylike

\* A function that rolls the dates with at most n days.
Upto(n) == {d \in Daylike : d.day <= n}
Rolls(f, n) == f = [d \in Upto(n) |-> Turn(f, d)]

\* Two such functions agree.
LEMMA RollsAgree ==
  ASSUME NEW n \in Nat, NEW m \in Nat, NEW f, NEW g, Rolls(f, n), Rolls(g, m),
         NEW d \in Daylike, d.day <= n, d.day <= m
  PROVE  f[d] = g[d]
<1> SUFFICES ASSUME f[d] # g[d] PROVE FALSE
  OBVIOUS
<1> DEFINE Apart(k) == \E e \in Daylike : e.day = k /\ f[e] # g[e] /\ k <= n /\ k <= m
           T == {k \in Nat : Apart(k)}
<1>1. d.day \in T
  BY DEF Daylike
<1>2. PICK k \in T : \A l \in T : k <= l
  BY <1>1, LeastNatural
<1>3. PICK e \in Daylike : e.day = k /\ f[e] # g[e] /\ k <= n /\ k <= m
  OBVIOUS
<1>4. f[e] = Turn(f, e) /\ g[e] = Turn(g, e)
  BY <1>3 DEF Rolls, Upto
<1>5. ~(e.day <= DaysIn(e.month))
  BY <1>3, <1>4 DEF Turn
<1>6. Over(e) \in Daylike /\ Over(e).day \in Nat /\ Over(e).day < k
  BY <1>3, <1>5, OverIsLess DEF Daylike
<1>7. Over(e).day \notin T
  BY <1>2, <1>6
<1>8. f[Over(e)] = g[Over(e)]
  BY <1>3, <1>6, <1>7
<1> QED BY <1>3, <1>4, <1>5, <1>8 DEF Turn

\* There is one for every n.
LEMMA RollsExist == \A n \in Nat : \E f : Rolls(f, n)
<1> DEFINE S == {n \in Nat : \E f : Rolls(f, n)}
<1>1. 0 \in S
  <2> DEFINE f == [d \in Upto(0) |-> d]
  <2>1. \A d \in Upto(0) : d.day <= DaysIn(d.month)
    BY MonthLength DEF Upto, Daylike
  <2>2. \A d \in Upto(0) : Turn(f, d) = d
    BY <2>1 DEF Turn
  <2>3. Rolls(f, 0)
    BY <2>2 DEF Rolls
  <2> QED BY <2>3
<1>2. ASSUME NEW n \in S PROVE n + 1 \in S
  <2>1. PICK f : Rolls(f, n)
    OBVIOUS
  <2> DEFINE g == [d \in Upto(n + 1) |-> Turn(f, d)]
  <2>2. ASSUME NEW d \in Upto(n + 1) PROVE Turn(f, d) = Turn(g, d)
    <3>1. CASE d.day <= DaysIn(d.month)
      BY <3>1 DEF Turn
    <3>2. CASE ~(d.day <= DaysIn(d.month))
      <4>1. Over(d) \in Upto(n) /\ Over(d) \in Upto(n + 1)
        BY <3>2, OverIsLess DEF Upto, Daylike
      <4>2. g[Over(d)] = Turn(f, Over(d))
        BY <4>1
      <4>3. f[Over(d)] = Turn(f, Over(d))
        BY <2>1, <4>1 DEF Rolls
      <4> QED BY <3>2, <4>2, <4>3 DEF Turn
    <3> QED BY <3>1, <3>2
  <2>3. Rolls(g, n + 1)
    BY <2>2 DEF Rolls
  <2> QED BY <2>3
<1> HIDE DEF S
<1>3. S \in SUBSET Nat
  BY DEF S
<1>4. S = Nat
  BY <1>1, <1>2, <1>3, AllNaturals
<1> QED BY <1>4 DEF S

\* Roll is what its definition says.
LEMMA RollTurns == \A d \in Daylike : Roll[d] = Turn(Roll, d)
<1> DEFINE F == [d \in Daylike |-> (CHOOSE f : Rolls(f, d.day))[d]]
<1>1. ASSUME NEW d \in Daylike PROVE F[d] = Turn(F, d)
  <2> DEFINE f == CHOOSE f : Rolls(f, d.day)
  <2>1. Rolls(f, d.day)
    BY RollsExist DEF Daylike
  <2>2. F[d] = f[d]
    OBVIOUS
  <2>3. f[d] = Turn(f, d)
    <3>1. d \in Upto(d.day)
      BY DEF Upto, Daylike
    <3> HIDE DEF f
    <3> QED BY <2>1, <3>1 DEF Rolls
  <2>4. CASE d.day <= DaysIn(d.month)
    BY <2>2, <2>3, <2>4 DEF Turn
  <2>5. CASE ~(d.day <= DaysIn(d.month))
    <3> DEFINE e == Over(d)
               g == CHOOSE g : Rolls(g, e.day)
    <3>1. e \in Daylike /\ e.day <= d.day /\ e.day \in Nat /\ d.day \in Nat
      BY <2>5, OverIsLess DEF Daylike
    <3>2. Rolls(g, e.day)
      BY <3>1, RollsExist
    <3>3. F[e] = g[e]
      BY <3>1
    <3> HIDE DEF f, g, e, F
    <3>4. f[e] = g[e]
      BY <2>1, <3>1, <3>2, RollsAgree
    <3> QED BY <2>2, <2>3, <2>5, <3>3, <3>4 DEF Turn, e
  <2> QED BY <2>4, <2>5
<1>2. F = [d \in Daylike |-> Turn(F, d)]
  BY <1>1
<1>3. \E R : R = [d \in Daylike |-> Turn(R, d)]
  BY <1>2
<1>4. Roll = CHOOSE R : R = [d \in Daylike |-> Turn(R, d)]
  BY DEF Roll, Turn, Over
<1>5. Roll = [d \in Daylike |-> Turn(Roll, d)]
  BY <1>3, <1>4
<1> QED BY <1>5

\* Rolling ends on a date, and no earlier: in the same month only when there
\* was nothing to roll.
LEMMA RollEnds ==
  ASSUME NEW d \in Daylike, d.day > 0
  PROVE  /\ Roll[d] \in Date /\ Roll[d].month >= d.month
         /\ Roll[d].month = d.month => Roll[d] = d
<1> DEFINE Right(e) == /\ Roll[e] \in Date /\ Roll[e].month >= e.month
                       /\ Roll[e].month = e.month => Roll[e] = e
           T == {k \in Nat : \E e \in Daylike : e.day = k /\ k > 0 /\ ~Right(e)}
<1> SUFFICES ASSUME ~Right(d) PROVE FALSE
  OBVIOUS
<1>1. d.day \in T
  BY DEF Daylike
<1> HIDE DEF Right
<1>2. PICK k \in T : \A l \in T : k <= l
  BY <1>1, LeastNatural
<1>3. PICK e \in Daylike : e.day = k /\ k > 0 /\ ~Right(e)
  OBVIOUS
<1>4. DaysIn(e.month) \in 28..31 /\ e.month \in Nat /\ e.day \in Nat
  BY MonthLength DEF Daylike
<1>5. CASE e.day <= DaysIn(e.month)
  <2>1. Roll[e] = e
    BY <1>5, RollTurns DEF Turn
  <2>2. e \in Date
    BY <1>3, <1>4, <1>5 DEF Date, Daylike
  <2> QED BY <1>3, <1>4, <2>1, <2>2 DEF Right
<1>6. CASE ~(e.day <= DaysIn(e.month))
  <2>1. /\ Over(e) \in Daylike /\ Over(e).month = e.month + 1
        /\ Over(e).day < k /\ Over(e).day > 0 /\ Over(e).day \in Nat
    BY <1>3, <1>6, OverIsLess DEF Daylike
  <2>2. Right(Over(e))
    BY <1>2, <2>1
  <2>3. Roll[e] = Roll[Over(e)]
    BY <1>6, RollTurns DEF Turn
  <2>4. Roll[e] \in Date /\ Roll[e].month >= e.month + 1
    BY <2>1, <2>2, <2>3 DEF Right
  <2>5. Roll[e].month \in Nat
    BY <2>4 DEF Date
  <2> QED BY <1>3, <1>4, <2>4, <2>5 DEF Right
<1> QED BY <1>5, <1>6

\* Days more to roll may be added before or after.
LEMMA RollAgain ==
  ASSUME NEW d \in Daylike, d.day > 0, NEW n \in Nat
  PROVE  Roll[[Roll[d] EXCEPT !.day = @ + n]] = Roll[[d EXCEPT !.day = @ + n]]
<1> DEFINE More(e) == [e EXCEPT !.day = @ + n]
           T == {k \in Nat : \E e \in Daylike :
                   e.day = k /\ k > 0 /\ Roll[More(Roll[e])] # Roll[More(e)]}
<1> SUFFICES ASSUME Roll[More(Roll[d])] # Roll[More(d)] PROVE FALSE
  OBVIOUS
<1>0. \A e \in Daylike : /\ More(e) \in Daylike /\ More(e).month = e.month
                         /\ More(e).day = e.day + n
  BY DEF Daylike
<1> HIDE DEF More
<1>1. d.day \in T
  BY DEF Daylike
<1>2. PICK k \in T : \A l \in T : k <= l
  BY <1>1, LeastNatural
<1>3. PICK e \in Daylike : e.day = k /\ k > 0 /\ Roll[More(Roll[e])] # Roll[More(e)]
  OBVIOUS
<1>4. DaysIn(e.month) \in 28..31 /\ e.month \in Nat /\ e.day \in Nat
  BY MonthLength DEF Daylike
<1>5. CASE e.day <= DaysIn(e.month)
  BY <1>3, <1>5, RollTurns DEF Turn
<1>6. CASE ~(e.day <= DaysIn(e.month))
  <2>1. /\ Over(e) \in Daylike /\ Over(e).month = e.month + 1
        /\ Over(e).day = e.day - DaysIn(e.month)
        /\ Over(e).day < k /\ Over(e).day > 0 /\ Over(e).day \in Nat
    BY <1>3, <1>6, OverIsLess DEF Daylike
  <2>2. Roll[More(Roll[Over(e)])] = Roll[More(Over(e))]
    BY <1>2, <2>1
  <2>3. Roll[e] = Roll[Over(e)]
    BY <1>6, RollTurns DEF Turn
  <2>4. ~(More(e).day <= DaysIn(More(e).month)) /\ More(e) \in Daylike
    BY <1>0, <1>4, <1>6
  <2>5. Roll[More(e)] = Roll[Over(More(e))]
    BY <2>4, RollTurns DEF Turn
  <2>6. Over(More(e)) = More(Over(e))
    <3>1. /\ Over(More(e)).month = e.month + 1
          /\ Over(More(e)).day = e.day + n - DaysIn(e.month)
      <4> DEFINE x == More(e)
                 y == Over(x)
                 left == DaysIn(e.month)
      <4>1. y.month = x.month + 1 /\ y.day = x.day - DaysIn(x.month)
        BY DEF Over
      <4>2. x.month = e.month /\ x.day = e.day + n /\ x \in Daylike
        BY <1>0
      <4>3. DaysIn(x.month) = left /\ left \in 28..31
        BY <1>4, <4>2
      <4> HIDE DEF x, y, left
      <4>4. y.month = e.month + 1 /\ y.day = e.day + n - left
        BY <1>4, <4>1, <4>2, <4>3
      <4> QED BY <4>4 DEF x, y, left
    <3>2. /\ More(Over(e)).month = e.month + 1
          /\ More(Over(e)).day = e.day - DaysIn(e.month) + n
      BY <1>0, <2>1
    <3>3. Over(More(e)) \in Daylike /\ More(Over(e)) \in Daylike
      BY <1>0, <2>1, <2>4, OverIsLess
    <3>4. e.day + n - DaysIn(e.month) = e.day - DaysIn(e.month) + n
      BY <1>4
    <3> QED BY <3>1, <3>2, <3>3, <3>4 DEF Daylike
  <2> QED BY <1>3, <2>2, <2>3, <2>5, <2>6
<1> QED BY <1>5, <1>6

\* A date has days to roll.
LEMMA DatesRoll ==
  ASSUME NEW d \in Date, NEW n \in Nat
  PROVE  /\ d \in Daylike /\ d.day > 0
         /\ [d EXCEPT !.day = @ + n] \in Daylike
         /\ [d EXCEPT !.day = @ + n].month = d.month
         /\ [d EXCEPT !.day = @ + n].day = d.day + n
BY DEF Date, Daylike

\* Days are added to a date one after the other or at once: periods of days
\* and weeks do not drift, whatever months they cross (addPeriod, setUTCDate).
THEOREM DaysAddUp ==
  \A d \in Date, m, n \in Nat : AddDays(AddDays(d, m), n) = AddDays(d, m + n)
<1> SUFFICES ASSUME NEW d \in Date, NEW m \in Nat, NEW n \in Nat
             PROVE  AddDays(AddDays(d, m), n) = AddDays(d, m + n)
  OBVIOUS
<1> DEFINE e == [d EXCEPT !.day = @ + m]
<1>1. e \in Daylike /\ e.day > 0 /\ e.month = d.month /\ e.day = d.day + m
  BY DatesRoll DEF Daylike
<1>2. [e EXCEPT !.day = @ + n] = [d EXCEPT !.day = @ + (m + n)]
  <2> DEFINE once == [d EXCEPT !.day = @ + (m + n)]
             again == [e EXCEPT !.day = @ + n]
  <2>1. once \in Daylike /\ once.month = d.month /\ once.day = d.day + (m + n)
    BY DatesRoll
  <2>2. again \in Daylike /\ again.month = e.month /\ again.day = e.day + n
    <3> HIDE DEF e
    <3> QED BY <1>1 DEF Daylike
  <2>3. d.day \in Nat
    BY DatesRoll DEF Daylike
  <2> HIDE DEF e, once, again
  <2>4. again.day = once.day
    BY <1>1, <2>1, <2>2, <2>3
  <2> QED BY <1>1, <2>1, <2>2, <2>4 DEF once, again, Daylike
<1>3. AddDays(d, m) = Roll[e] /\ AddDays(d, m + n) = Roll[[d EXCEPT !.day = @ + (m + n)]]
  BY DEF AddDays
<1> HIDE DEF e
<1>4. Roll[[Roll[e] EXCEPT !.day = @ + n]] = Roll[[e EXCEPT !.day = @ + n]]
  BY <1>1, RollAgain
<1> QED BY <1>2, <1>3, <1>4 DEF AddDays

\* A period of at least a day ends on a date after it begins (addPeriod).
THEOREM PeriodsGoForward ==
  ASSUME NEW d \in Date, NEW t \in [duration : Nat \ {0}, unit : Units]
  PROVE  AddPeriod(d, t) \in Date /\ Before(d, AddPeriod(d, t))
<1>1. t.duration \in Nat \ {0} /\ t.unit \in {"DAY", "WEEK", "MONTH", "YEAR"}
  BY DEF Units
<1>2. ASSUME NEW n \in Nat \ {0} PROVE AddDays(d, n) \in Date /\ Before(d, AddDays(d, n))
  <2> DEFINE e == [d EXCEPT !.day = @ + n]
  <2>1. e \in Daylike /\ e.month = d.month /\ e.day = d.day + n /\ e.day > d.day /\ e.day > 0
    BY DatesRoll DEF Daylike
  <2> HIDE DEF e
  <2>2. Roll[e] \in Date /\ Roll[e].month >= d.month /\ (Roll[e].month = d.month => Roll[e] = e)
    BY <2>1, RollEnds
  <2>3. AddDays(d, n) = Roll[e]
    BY DEF AddDays, e
  <2> QED BY <2>1, <2>2, <2>3 DEF Before, Date
<1>3. ASSUME NEW n \in Nat \ {0} PROVE AddMonths(d, n) \in Date /\ Before(d, AddMonths(d, n))
  <2>1. d.month \in Nat /\ d.day \in 1..31 /\ d.month + n \in Nat
    BY DEF Date
  <2>2. DaysIn(d.month + n) \in 28..31
    BY <2>1, MonthLength
  <2> QED BY <2>1, <2>2 DEF AddMonths, Date, Before
<1>4. AddPeriod(d, t) \in {AddDays(d, t.duration), AddDays(d, 7 * t.duration),
                           AddMonths(d, 12 * t.duration), AddMonths(d, t.duration)}
  BY <1>1 DEF AddPeriod
<1>5. 7 * t.duration \in Nat \ {0} /\ 12 * t.duration \in Nat \ {0}
  BY <1>1
<1> QED BY <1>1, <1>2, <1>3, <1>4, <1>5

-----------------------------------------------------------------------------
(***************************************************************************)
(* Days and types                                                          *)
(***************************************************************************)

\* The days of the model are dates up to the horizon.
LEMMA DaysAreDates ==
  /\ Days \subseteq Date
  /\ Start \in Days
  /\ \A d \in Date : ~Before(Horizon, d) => d \in Days
<1>1. Days \subseteq Date
  BY DatesAssumption DEF Days, Date
<1>2. \A d \in Date : ~Before(Horizon, d) => d \in Days
  BY DatesAssumption DEF Days, Date, Before
<1>3. Start \in Days
  BY <1>2, DatesAssumption
<1> QED BY <1>1, <1>2, <1>3

\* What is due today is on a day of the model.
LEMMA DueIsADay ==
  ASSUME NEW d \in Days, NEW e \in Date, ~Before(d, e) PROVE e \in Days
<1>1. ~Before(Horizon, d) /\ d \in Date
  BY DaysAreDates DEF Days
<1>2. ~Before(Horizon, e)
  BY <1>1, DatesAssumption DEF Before, Date
<1> QED BY <1>2, DaysAreDates

\* A period that begins on such a day ends on a date after it.
LEMMA PeriodEnds ==
  \A d \in Days, t \in Terms : AddPeriod(d, t) \in Date /\ Before(d, AddPeriod(d, t))
BY PeriodsGoForward, DaysAreDates, TermsAssumption

\* The types hold at the start.
LEMMA InitTyped == Init => Typed
<1> SUFFICES ASSUME Init PROVE Typed
  OBVIOUS
<1>1. Terms # {}
  BY DEF Init
<1>2. NoRow.terms \in Terms /\ NoRow \in FetchedRow
  BY <1>1, DaysAreDates DEF NoRow, FetchedRow
<1>3. NoRun \in RunType
  BY <1>2 DEF NoRun, RunType
<1>4. Resting \in RequestType /\ NoSub \in SubType
  BY <1>2, DatesAssumption DEF Resting, NoSub, RequestType, SubType
<1>5. /\ sub \in [Subs -> SubType] /\ request \in [Requests -> RequestType]
      /\ run \in [Runs -> RunType]
  BY <1>3, <1>4 DEF Init
<1>6. plan \in [exists : BOOLEAN, active : BOOLEAN, terms : Terms]
  BY DEF Init
<1>7. issued \in [Subs -> Seq(Date)] /\ announced \in [Subs -> SUBSET Date]
  BY DEF Init
<1>8. late \in [Subs -> Nat] /\ faults \in Nat /\ overlaps \in Nat /\ doubles \in Nat
  BY DEF Init
<1>9. now \in Days /\ removing \in BOOLEAN
  BY DaysAreDates DEF Init
<1> QED BY <1>5, <1>6, <1>7, <1>8, <1>9 DEF Typed

\* What the steps of subscribe do to the types.
LEMMA SubscribeTyped ==
  ASSUME Typed, NEW q \in Requests,
         \/ \E e \in Emails : FindPlan(q, e)
         \/ FindExisting(q) \/ InsertSubscription(q) \/ IssueFirst(q) \/ AnnounceFirst(q)
         \/ RequestFails(q)
  PROVE  Typed'
<1> USE DEF Typed
<1>a. Resting \in RequestType
  <2>1. NoRow.terms \in Terms
    BY DEF NoRow
  <2> QED BY <2>1, DatesAssumption DEF Resting, RequestType
<1>b. request[q] \in RequestType
  OBVIOUS
<1>1. CASE \E e \in Emails : FindPlan(q, e)
  <2>1. PICK e \in Emails : FindPlan(q, e)
    BY <1>1
  <2> DEFINE new == [Resting EXCEPT !.pc = "check", !.email = e, !.terms = plan.terms]
  <2>2. new \in RequestType
    BY <1>a DEF RequestType
  <2> HIDE DEF new
  <2>3. request' = [request EXCEPT ![q] = new]
    BY <2>1 DEF FindPlan, new
  <2>4. request' \in [Requests -> RequestType]
    BY <2>2, <2>3
  <2>5. doubles' \in Nat
    <3>1. doubles' = doubles + 1 \/ doubles' = doubles
      BY <2>1 DEF FindPlan
    <3> QED BY <3>1
  <2> QED BY <2>1, <2>4, <2>5 DEF FindPlan, books
<1>2. CASE FindExisting(q)
  <2> DEFINE new == [request[q] EXCEPT !.pc = "insert"]
  <2>1. new \in RequestType
    BY <1>b DEF RequestType
  <2> HIDE DEF new
  <2>2. request' = [request EXCEPT ![q] = Resting] \/ request' = [request EXCEPT ![q] = new]
    BY <1>2 DEF FindExisting, new
  <2>3. request' \in [Requests -> RequestType]
    BY <1>a, <2>1, <2>2
  <2> QED BY <1>2, <2>3 DEF FindExisting, books
<1>3. CASE InsertSubscription(q)
  <2>1. CASE plan.exists
    <3> DEFINE s == FreshSub
               row == [status |-> "ACTIVE", email |-> request[q].email, first |-> now,
                       start |-> now, end |-> AddPeriod(now, request[q].terms)]
               new == [request[q] EXCEPT !.pc = "issue", !.sub = s, !.first = now]
    <3>1. s \in Subs
      BY <1>3, <2>1 DEF InsertSubscription, FreshSub, Unused
    <3>2. now \in Date
      BY DaysAreDates
    <3>3. row \in SubType
      BY <1>b, <3>2, PeriodEnds DEF SubType, RequestType
    <3>4. new \in RequestType
      BY <1>b, <3>1, <3>2 DEF RequestType
    <3>5. sub' = [sub EXCEPT ![s] = row]
      BY <1>3, <2>1 DEF InsertSubscription
    <3>6. request' = [request EXCEPT ![q] = new]
      BY <1>3, <2>1 DEF InsertSubscription
    <3> HIDE DEF s, row, new
    <3>7. sub' \in [Subs -> SubType] /\ request' \in [Requests -> RequestType]
      BY <3>3, <3>4, <3>5, <3>6
    <3> QED BY <1>3, <3>7 DEF InsertSubscription, books
  <2>2. CASE ~plan.exists
    <3>1. request' \in [Requests -> RequestType] /\ sub' = sub
      BY <1>3, <1>a, <2>2 DEF InsertSubscription
    <3> QED BY <1>3, <3>1 DEF InsertSubscription, books
  <2> QED BY <2>1, <2>2
<1>4. CASE IssueFirst(q)
  <2> DEFINE s == request[q].sub
             longer == Append(issued[s], request[q].first)
  <2>1. issued' = [issued EXCEPT ![s] = longer]
    BY <1>4 DEF IssueFirst, CreateInvoice
  <2>2. s \in Subs => longer \in Seq(Date)
    BY <1>b DEF RequestType
  <2> HIDE DEF longer
  <2>3. issued' \in [Subs -> Seq(Date)]
    BY <2>1, <2>2
  <2>4. request' \in [Requests -> RequestType]
    BY <1>4, <1>b DEF IssueFirst, RequestType
  <2> QED BY <1>4, <2>3, <2>4 DEF IssueFirst
<1>5. CASE AnnounceFirst(q)
  <2>1. announced' \in [Subs -> SUBSET Date]
    <3>1. request[q].first \in Date
      BY <1>b DEF RequestType
    <3> DEFINE s == request[q].sub
               more == announced[s] \cup {request[q].first}
    <3>2. announced' = announced \/ announced' = [announced EXCEPT ![s] = more]
      BY <1>5 DEF AnnounceFirst, Announce
    <3>3. s \in Subs => more \in SUBSET Date
      BY <3>1
    <3> HIDE DEF more
    <3> QED BY <3>2, <3>3
  <2>2. request' \in [Requests -> RequestType]
    BY <1>5, <1>a DEF AnnounceFirst
  <2> QED BY <1>5, <2>1, <2>2 DEF AnnounceFirst
<1>6. CASE RequestFails(q)
  <2>1. request' \in [Requests -> RequestType]
    BY <1>6, <1>a DEF RequestFails
  <2> QED BY <1>6, <2>1 DEF RequestFails, books
<1> QED BY <1>1, <1>2, <1>3, <1>4, <1>5, <1>6

\* What the merchant and the clock do to the types.
LEMMA MerchantTyped ==
  ASSUME Typed,
         \/ \E active \in BOOLEAN, terms \in Terms : UpdatePlan(active, terms)
         \/ CountActive \/ DeletePlan
         \/ \E s \in Subs : CancelSubscription(s)
         \/ TimePasses
  PROVE  Typed'
<1> USE DEF Typed
<1>1. CASE \E active \in BOOLEAN, terms \in Terms : UpdatePlan(active, terms)
  <2>1. PICK active \in BOOLEAN, terms \in Terms : UpdatePlan(active, terms)
    BY <1>1
  <2>2. plan' \in [exists : BOOLEAN, active : BOOLEAN, terms : Terms]
    BY <2>1 DEF UpdatePlan
  <2> QED BY <2>1, <2>2 DEF UpdatePlan, books
<1>2. CASE CountActive
  BY <1>2 DEF CountActive, books
<1>3. CASE DeletePlan
  <2>1. plan' \in [exists : BOOLEAN, active : BOOLEAN, terms : Terms]
    BY <1>3 DEF DeletePlan
  <2> DEFINE gone == [NoSub EXCEPT !.status = "deleted"]
  <2>2. gone \in SubType
    BY DatesAssumption DEF NoSub, SubType
  <2>3. sub' = [s \in Subs |-> IF Present(s) THEN gone ELSE sub[s]]
    BY <1>3 DEF DeletePlan
  <2> HIDE DEF gone
  <2>4. sub' \in [Subs -> SubType]
    BY <2>2, <2>3
  <2> QED BY <1>3, <2>1, <2>4 DEF DeletePlan, books
<1>4. CASE \E s \in Subs : CancelSubscription(s)
  <2>1. PICK s \in Subs : CancelSubscription(s)
    BY <1>4
  <2> DEFINE new == [sub[s] EXCEPT !.status = "CANCELED"]
  <2>3. new \in SubType
    <3>1. sub[s] \in SubType
      OBVIOUS
    <3> QED BY <3>1 DEF SubType
  <2>4. sub' = [sub EXCEPT ![s] = new]
    BY <2>1 DEF CancelSubscription
  <2> HIDE DEF new
  <2>2. sub' \in [Subs -> SubType]
    BY <2>3, <2>4
  <2> QED BY <2>1, <2>2 DEF CancelSubscription, books
<1>5. CASE TimePasses
  <2>1. PICK s \in Subs : ~Before(Horizon, sub[s].end) /\ now' = sub[s].end
    BY <1>5 DEF TimePasses
  <2>2. now' \in Days
    BY <2>1, DaysAreDates DEF SubType
  <2> QED BY <1>5, <2>2 DEF TimePasses, books
<1> QED BY <1>1, <1>2, <1>3, <1>4, <1>5

\* The loop of a run goes on with what is left of it.
LEMMA NextRowTyped ==
  ASSUME Typed, NEW r \in Runs, NEW todo \in SUBSET FetchedRow, NextRow(r, todo)
  PROVE  run' \in [Runs -> RunType]
<1>1. NoRun \in RunType
  <2>1. NoRow.terms \in Terms
    BY DEF NoRow, Typed
  <2>2. NoRow \in FetchedRow
    BY <2>1, DaysAreDates DEF NoRow, FetchedRow
  <2> QED BY <2>2 DEF NoRun, RunType
<1> DEFINE new == [NoRun EXCEPT !.pc = "issue", !.todo = todo]
<1>2. new \in RunType
  BY <1>1 DEF RunType
<1> HIDE DEF new
<1>3. run' = [run EXCEPT ![r] = NoRun] \/ run' = [run EXCEPT ![r] = new]
  BY DEF NextRow, new
<1> QED BY <1>1, <1>2, <1>3 DEF Typed

\* What the billing runs do to the types.
LEMMA RunTyped ==
  ASSUME Typed, NEW r \in Runs,
         FetchDue(r) \/ BillRow(r) \/ AnnounceRow(r) \/ AdvanceCursor(r) \/ RowFails(r) \/ RunDies(r)
  PROVE  Typed'
<1> USE DEF Typed
<1>a. NoRun \in RunType
  <2>1. NoRow.terms \in Terms
    BY DEF NoRow
  <2>2. NoRow \in FetchedRow
    BY <2>1, DaysAreDates DEF NoRow, FetchedRow
  <2> QED BY <2>2 DEF NoRun, RunType
<1>b. /\ run[r] \in RunType /\ run[r].row \in FetchedRow
      /\ run[r].todo \in SUBSET FetchedRow
  BY DEF RunType
<1>1. CASE FetchDue(r)
  <2>1. PICK rows \in SUBSET Subs : Takes(rows, {s \in Subs : IsDue(s)}) /\ StartRun(r, rows)
    BY <1>1 DEF FetchDue
  <2> DEFINE fetched == {[sub |-> s, end |-> sub[s].end, terms |-> plan.terms] : s \in rows}
             new == [NoRun EXCEPT !.pc = "issue", !.todo = fetched]
  <2>2. \A s \in rows : sub[s].end \in Days
    <3>1. \A s \in rows : sub[s].end \in Date /\ ~Before(now, sub[s].end)
      BY <2>1 DEF Takes, IsDue, SubType
    <3> QED BY <3>1, DueIsADay
  <2>3. fetched \in SUBSET FetchedRow
    BY <2>2 DEF FetchedRow
  <2>4. run' = [run EXCEPT ![r] = new]
    BY <2>1 DEF StartRun
  <2> HIDE DEF fetched
  <2>5. new \in RunType
    BY <1>a, <2>3 DEF RunType
  <2> HIDE DEF new
  <2>6. run' \in [Runs -> RunType]
    BY <2>4, <2>5
  <2>7. overlaps' \in Nat
    <3>1. overlaps' = overlaps + 1 \/ overlaps' = overlaps
      BY <2>1 DEF StartRun
    <3> QED BY <3>1
  <2> QED BY <2>1, <2>6, <2>7 DEF StartRun, books
<1>2. CASE BillRow(r)
  <2>1. PICK x \in run[r].todo :
          /\ CreateInvoice(x.sub, x.end)
          /\ run' = [run EXCEPT ![r] = [pc |-> "announce", todo |-> run[r].todo \ {x}, row |-> x]]
          /\ late' = IF sub[x.sub].status = "CANCELED" THEN [late EXCEPT ![x.sub] = @ + 1] ELSE late
    BY <1>2 DEF BillRow
  <2>2. x \in FetchedRow /\ x.end \in Date
    BY <1>b, DaysAreDates DEF FetchedRow
  <2> DEFINE new == [pc |-> "announce", todo |-> run[r].todo \ {x}, row |-> x]
             longer == Append(issued[x.sub], x.end)
  <2>3. new \in RunType
    BY <1>b, <2>2 DEF RunType
  <2>4. x.sub \in Subs => longer \in Seq(Date)
    BY <2>2
  <2>5. issued' = [issued EXCEPT ![x.sub] = longer]
    BY <2>1 DEF CreateInvoice
  <2> HIDE DEF new, longer
  <2>6. run' \in [Runs -> RunType]
    BY <2>1, <2>3 DEF new
  <2>7. issued' \in [Subs -> Seq(Date)]
    BY <2>4, <2>5
  <2>8. late' \in [Subs -> Nat]
    <3>1. late' = late \/ late' = [late EXCEPT ![x.sub] = late[x.sub] + 1]
      BY <2>1
    <3> DEFINE more == late[x.sub] + 1
    <3>2. x.sub \in Subs => more \in Nat
      OBVIOUS
    <3>3. late' = late \/ late' = [late EXCEPT ![x.sub] = more]
      BY <3>1
    <3> HIDE DEF more
    <3> QED BY <3>2, <3>3
  <2> QED BY <1>2, <2>6, <2>7, <2>8 DEF BillRow
<1>3. CASE AnnounceRow(r)
  <2> DEFINE x == run[r].row
             more == announced[x.sub] \cup {x.end}
             new == [run[r] EXCEPT !.pc = "advance"]
  <2>1. x.end \in Date
    BY <1>b, DaysAreDates DEF FetchedRow
  <2>2. x.sub \in Subs => more \in SUBSET Date
    BY <2>1
  <2>3. announced' = announced \/ announced' = [announced EXCEPT ![x.sub] = more]
    BY <1>3 DEF AnnounceRow, Announce
  <2>4. new \in RunType
    BY <1>b DEF RunType
  <2>5. run' = [run EXCEPT ![r] = new] \/ NextRow(r, run[r].todo)
    BY <1>3 DEF AnnounceRow
  <2> HIDE DEF more, new
  <2>6. announced' \in [Subs -> SUBSET Date]
    BY <2>2, <2>3
  <2>7. run' \in [Runs -> RunType]
    BY <1>b, <2>4, <2>5, NextRowTyped
  <2> QED BY <1>3, <2>6, <2>7 DEF AnnounceRow
<1>4. CASE AdvanceCursor(r)
  <2> DEFINE x == run[r].row
             new == [sub[x.sub] EXCEPT !.start = x.end, !.end = AddPeriod(x.end, x.terms)]
  <2>1. x.end \in Date /\ AddPeriod(x.end, x.terms) \in Date
    BY <1>b, DaysAreDates, PeriodEnds DEF FetchedRow
  <2>2. x.sub \in Subs => new \in SubType
    <3>1. x.sub \in Subs => sub[x.sub] \in SubType
      OBVIOUS
    <3> QED BY <2>1, <3>1 DEF SubType
  <2>3. sub' = sub \/ sub' = [sub EXCEPT ![x.sub] = new]
    BY <1>4 DEF AdvanceCursor
  <2>4. run' \in [Runs -> RunType]
    BY <1>4, <1>b, NextRowTyped DEF AdvanceCursor
  <2> HIDE DEF new
  <2>5. sub' \in [Subs -> SubType]
    BY <2>2, <2>3
  <2> QED BY <1>4, <2>4, <2>5 DEF AdvanceCursor, books
<1>5. CASE RowFails(r)
  <2>1. PICK todo \in SUBSET run[r].todo : NextRow(r, todo)
    BY <1>5 DEF RowFails
  <2>2. run' \in [Runs -> RunType]
    BY <1>b, <2>1, NextRowTyped
  <2> QED BY <1>5, <2>2 DEF RowFails, books
<1>6. CASE RunDies(r)
  <2>1. run' \in [Runs -> RunType]
    BY <1>6, <1>a DEF RunDies
  <2> QED BY <1>6, <2>1 DEF RunDies, books
<1> QED BY <1>1, <1>2, <1>3, <1>4, <1>5, <1>6

\* Every step keeps the types.
LEMMA NextTyped == Typed /\ [Next]_vars => Typed'
<1> SUFFICES ASSUME Typed, [Next]_vars PROVE Typed'
  OBVIOUS
<1>1. CASE UNCHANGED vars
  BY <1>1 DEF vars, books, Typed
<1> QED BY <1>1, SubscribeTyped, MerchantTyped, RunTyped DEF Next, Subscribing, Billing

\* The types of all variables; a row in hand and today are days of the model.
THEOREM BillingTypes == Spec => [](Typed /\ BillingTypeOK)
<1>1. ASSUME Typed PROVE BillingTypeOK
  <2>1. FetchedRow \subseteq Row
    BY DaysAreDates DEF FetchedRow, Row
  <2>2. run \in [Runs -> [pc : {"idle", "issue", "announce", "advance"},
                         todo : SUBSET Row, row : Row]]
    BY <1>1, <2>1 DEF Typed, RunType
  <2> QED BY <1>1, <2>2, DaysAreDates DEF Typed, BillingTypeOK, SubType, RequestType
<1> QED BY <1>1, InitTyped, NextTyped, PTL DEF Spec

-----------------------------------------------------------------------------
(***************************************************************************)
(* No period is skipped                                                    *)
(***************************************************************************)

\* Day p ends a period that the customer has been billed for.
Follows(p, s) == \E b \in Periods(s), t \in Terms : p = AddPeriod(b, t)

\* Billed periods follow on each other, and the cursor on them.
Chained ==
  \A s \in Subs :
    /\ sub[s].status = "none" => announced[s] = {}
    /\ Present(s) => /\ sub[s].start \in Periods(s)
                     /\ Follows(sub[s].end, s)
                     /\ \A p \in Periods(s) \ {sub[s].first} : Follows(p, s)

\* A row in hand, however old, follows on a billed period.
Fetched(x) ==
  x.sub \in Subs /\ sub[x.sub].status # "none" /\ (Present(x.sub) => Follows(x.end, x.sub))

\* The locals of the runs and of the subscribe calls agree with the rows.
RunsAgree ==
  \A r \in Runs :
    /\ \A x \in run[r].todo : Fetched(x)
    /\ run[r].pc \in {"announce", "advance"} => Fetched(run[r].row)
    /\ run[r].pc = "advance" /\ Present(run[r].row.sub) =>
         run[r].row.end \in announced[run[r].row.sub]

RequestsAgree ==
  \A q \in Requests :
    request[q].pc \in {"issue", "announce"} =>
      LET s == request[q].sub
      IN  s \in Subs /\ sub[s].status # "none" /\ (Present(s) => request[q].first = sub[s].first)

\* A subscription that exists keeps its first day and its billed periods; one
\* that is gone does not come back.
Keeps ==
  /\ \A s \in Subs : sub[s].status # "none" =>
       sub'[s].status # "none" /\ (Present(s)' => Present(s) /\ sub'[s].first = sub[s].first)
  /\ \A s \in Subs : announced[s] \subseteq announced'[s]

SameRows == sub' = sub /\ announced' = announced

\* Every step keeps them.
LEMMA NextKeeps == ASSUME Typed, [Next]_vars PROVE Keeps
<1> USE DEF Typed
<1>0. SameRows => Keeps
  BY DEF SameRows, Keeps, Present
<1>1. ASSUME NEW q \in Requests, InsertSubscription(q) PROVE Keeps
  <2>1. announced' = announced
    BY <1>1 DEF InsertSubscription, books
  <2>2. CASE sub' = sub
    BY <1>0, <2>1, <2>2 DEF SameRows
  <2>3. CASE sub' # sub
    <3>1. FreshSub \in Subs /\ sub[FreshSub].status = "none"
      BY <1>1, <2>3 DEF InsertSubscription, FreshSub, Unused
    <3>2. \A s \in Subs \ {FreshSub} : sub'[s] = sub[s]
      BY <1>1, <2>3 DEF InsertSubscription
    <3> QED BY <2>1, <3>1, <3>2 DEF Keeps, Present
  <2> QED BY <2>2, <2>3
<1>2. ASSUME NEW q \in Requests, AnnounceFirst(q) PROVE Keeps
  <2>1. sub' = sub
    BY <1>2 DEF AnnounceFirst
  <2> DEFINE o == request[q].sub
             more == announced[o] \cup {request[q].first}
  <2>2. \A s \in Subs : announced[s] \subseteq announced'[s]
    <3>1. announced' = announced \/ announced' = [announced EXCEPT ![o] = more]
      BY <1>2 DEF AnnounceFirst, Announce
    <3>2. announced[o] \subseteq more
      OBVIOUS
    <3> HIDE DEF o, more
    <3> QED BY <3>1, <3>2
  <2> QED BY <2>1, <2>2 DEF Keeps, Present
<1>3. CASE DeletePlan
  <2>1. announced' = announced /\ \A s \in Subs : sub'[s].status \in {sub[s].status, "deleted"}
    BY <1>3 DEF DeletePlan, NoSub, SubType, books, Present
  <2>2. \A s \in Subs : Present(s)' => FALSE
    BY <1>3 DEF DeletePlan, NoSub, Present
  <2> QED BY <2>1, <2>2 DEF Keeps
<1>4. ASSUME NEW s \in Subs, CancelSubscription(s) PROVE Keeps
  <2>1. announced' = announced
    BY <1>4 DEF CancelSubscription, books
  <2>2. \A o \in Subs : sub'[o].first = sub[o].first
    BY <1>4 DEF CancelSubscription, SubType
  <2>3. \A o \in Subs : o # s => sub'[o].status = sub[o].status
    BY <1>4 DEF CancelSubscription, SubType
  <2>4. sub'[s].status = "CANCELED" /\ sub[s].status = "ACTIVE"
    BY <1>4 DEF CancelSubscription, SubType
  <2> QED BY <2>1, <2>2, <2>3, <2>4 DEF Keeps, Present
<1>5. ASSUME NEW r \in Runs, AnnounceRow(r) PROVE Keeps
  <2>1. sub' = sub
    BY <1>5 DEF AnnounceRow
  <2>2. \A s \in Subs : announced[s] \subseteq announced'[s]
    <3> DEFINE x == run[r].row
               more == announced[x.sub] \cup {x.end}
    <3>1. announced' = announced \/ announced' = [announced EXCEPT ![x.sub] = more]
      BY <1>5 DEF AnnounceRow, Announce
    <3>2. announced[x.sub] \subseteq more
      OBVIOUS
    <3> HIDE DEF more
    <3> QED BY <3>1, <3>2
  <2> QED BY <2>1, <2>2 DEF Keeps, Present
<1>6. ASSUME NEW r \in Runs, AdvanceCursor(r) PROVE Keeps
  <2>1. announced' = announced
    BY <1>6 DEF AdvanceCursor, books
  <2>2. \A o \in Subs : sub'[o].first = sub[o].first /\ sub'[o].status = sub[o].status
    BY <1>6 DEF AdvanceCursor, SubType
  <2> QED BY <2>1, <2>2 DEF Keeps, Present
<1>7. ASSUME NEW q \in Requests,
             \/ \E e \in Emails : FindPlan(q, e)
             \/ FindExisting(q) \/ IssueFirst(q) \/ RequestFails(q)
      PROVE  SameRows
  BY <1>7 DEF FindPlan, FindExisting, IssueFirst, RequestFails, books, SameRows
<1>8. ASSUME NEW r \in Runs, FetchDue(r) \/ BillRow(r) \/ RowFails(r) \/ RunDies(r)
      PROVE  SameRows
  BY <1>8 DEF FetchDue, StartRun, BillRow, RowFails, RunDies, books, SameRows
<1>9. CASE \/ \E active \in BOOLEAN, terms \in Terms : UpdatePlan(active, terms)
           \/ CountActive \/ TimePasses \/ UNCHANGED vars
  BY <1>0, <1>9 DEF UpdatePlan, CountActive, TimePasses, vars, books, SameRows
<1> QED BY <1>0, <1>1, <1>2, <1>3, <1>4, <1>5, <1>6, <1>7, <1>8, <1>9
        DEF Next, Subscribing, Billing

\* So what follows on a billed period goes on doing so, and rows in hand stay
\* in order.
LEMMA FollowsStays ==
  ASSUME Keeps
  PROVE  /\ \A s \in Subs : \A p : sub[s].status # "none" /\ Present(s)' /\ Follows(p, s)
                                    => Follows(p, s)'
         /\ \A x : Fetched(x) => Fetched(x)'
<1>1. \A s \in Subs : sub[s].status # "none" /\ Present(s)' => Periods(s) \subseteq Periods(s)'
  BY DEF Keeps, Periods
<1>2. \A s \in Subs : \A p : sub[s].status # "none" /\ Present(s)' /\ Follows(p, s)
                                    => Follows(p, s)'
  BY <1>1 DEF Follows
<1>3. \A x : Fetched(x) => Fetched(x)'
  BY <1>2 DEF Fetched, Keeps
<1> QED BY <1>2, <1>3

\* Present and Fetched of what the next state holds.
PresentThen(s) == sub'[s].status \in {"ACTIVE", "CANCELED"}
FetchedThen(x) ==
  /\ x.sub \in Subs /\ sub'[x.sub].status # "none"
  /\ PresentThen(x.sub) =>
       \E b \in announced'[x.sub] \cup {sub'[x.sub].first}, t \in Terms : x.end = AddPeriod(b, t)

\* The rows in the hands of the runs stay in order, however long they are held.
LEMMA NextRunsAgree ==
  ASSUME Typed, Keeps, Chained, RunsAgree, [Next]_vars PROVE RunsAgree'
<1> USE DEF Typed
<1>a. \A x : Fetched(x) => FetchedThen(x)
  <2>1. \A x : Fetched(x)' <=> FetchedThen(x)
    BY DEF Fetched, FetchedThen, Follows, Periods, Present, PresentThen
  <2> QED BY <2>1, FollowsStays
<1>b. \A s \in Subs : sub[s].status # "none" /\ PresentThen(s) => Present(s)
  BY DEF Keeps, Present, PresentThen
<1>c. ASSUME \A o \in Runs : /\ \A x \in run'[o].todo : FetchedThen(x)
                             /\ run'[o].pc \in {"announce", "advance"} => FetchedThen(run'[o].row),
             \A o \in Runs : run'[o].pc = "advance" /\ PresentThen(run'[o].row.sub) =>
                             run'[o].row.end \in announced'[run'[o].row.sub]
      PROVE  RunsAgree'
  BY <1>c DEF RunsAgree, Fetched, FetchedThen, Follows, Periods, Present, PresentThen
<1>1. ASSUME NEW r \in Runs,
             \A o \in Runs \ {r} : run'[o] = run[o],
             \A x \in run'[r].todo : Fetched(x),
             run'[r].pc \in {"announce", "advance"} => Fetched(run'[r].row),
             run'[r].pc = "advance" /\ PresentThen(run'[r].row.sub) =>
               run'[r].row.end \in announced'[run'[r].row.sub]
      PROVE  RunsAgree'
  <2>1. \A o \in Runs : /\ \A x \in run'[o].todo : FetchedThen(x)
                        /\ run'[o].pc \in {"announce", "advance"} => FetchedThen(run'[o].row)
    BY <1>a, <1>1 DEF RunsAgree
  <2>2. ASSUME NEW o \in Runs \ {r}, run'[o].pc = "advance", PresentThen(run'[o].row.sub)
        PROVE  run'[o].row.end \in announced'[run'[o].row.sub]
    <3> DEFINE x == run[o].row
    <3>1. run'[o] = run[o] /\ run[o].pc = "advance" /\ Fetched(x)
      BY <1>1, <2>2 DEF RunsAgree
    <3>2. x.sub \in Subs /\ Present(x.sub)
      BY <1>b, <2>2, <3>1 DEF Fetched
    <3>3. x.end \in announced[x.sub]
      BY <3>1, <3>2 DEF RunsAgree
    <3> QED BY <3>1, <3>2, <3>3 DEF Keeps
  <2> QED BY <1>1, <1>c, <2>1, <2>2
<1>2. ASSUME run' = run PROVE RunsAgree'
  <2>1. \A o \in Runs : /\ \A x \in run'[o].todo : FetchedThen(x)
                        /\ run'[o].pc \in {"announce", "advance"} => FetchedThen(run'[o].row)
    BY <1>a, <1>2 DEF RunsAgree
  <2>2. ASSUME NEW o \in Runs, run'[o].pc = "advance", PresentThen(run'[o].row.sub)
        PROVE  run'[o].row.end \in announced'[run'[o].row.sub]
    <3> DEFINE x == run[o].row
    <3>1. run'[o] = run[o] /\ run[o].pc = "advance" /\ Fetched(x)
      BY <1>2, <2>2 DEF RunsAgree
    <3>2. x.sub \in Subs /\ Present(x.sub)
      BY <1>b, <2>2, <3>1 DEF Fetched
    <3>3. x.end \in announced[x.sub]
      BY <3>1, <3>2 DEF RunsAgree
    <3> QED BY <3>1, <3>2, <3>3 DEF Keeps
  <2> QED BY <1>c, <2>1, <2>2
<1>3. ASSUME NEW r \in Runs, NEW todo \in SUBSET run[r].todo, NextRow(r, todo)
      PROVE  RunsAgree'
  <2>1. /\ \A o \in Runs \ {r} : run'[o] = run[o]
        /\ run'[r].todo \subseteq todo /\ run'[r].pc \in {"idle", "issue"}
    BY <1>3 DEF NextRow, NoRun
  <2>2. \A x \in run'[r].todo : Fetched(x)
    BY <1>3, <2>1 DEF RunsAgree
  <2> QED BY <1>1, <2>1, <2>2
<1>4. ASSUME NEW r \in Runs, FetchDue(r) PROVE RunsAgree'
  <2>1. PICK rows \in SUBSET Subs : Takes(rows, {s \in Subs : IsDue(s)}) /\ StartRun(r, rows)
    BY <1>4 DEF FetchDue
  <2>2. /\ \A o \in Runs \ {r} : run'[o] = run[o]
        /\ run'[r].pc = "issue"
        /\ run'[r].todo = {[sub |-> s, end |-> sub[s].end, terms |-> plan.terms] : s \in rows}
    BY <2>1 DEF StartRun, NoRun
  <2>3. \A s \in rows : s \in Subs /\ sub[s].status = "ACTIVE"
    BY <2>1 DEF Takes, IsDue
  <2>4. \A x \in run'[r].todo : Fetched(x)
    BY <2>2, <2>3 DEF Fetched, Chained, Present
  <2> QED BY <1>1, <2>2, <2>4
<1>5. ASSUME NEW r \in Runs, BillRow(r) PROVE RunsAgree'
  <2>1. PICK x \in run[r].todo :
          run' = [run EXCEPT ![r] = [pc |-> "announce", todo |-> run[r].todo \ {x}, row |-> x]]
    BY <1>5 DEF BillRow
  <2>2. \A o \in Runs \ {r} : run'[o] = run[o]
    BY <2>1
  <2>3. run'[r].pc = "announce" /\ run'[r].todo \subseteq run[r].todo /\ run'[r].row = x
    BY <2>1
  <2> QED BY <1>1, <2>1, <2>2, <2>3 DEF RunsAgree
<1>6. ASSUME NEW r \in Runs, AnnounceRow(r) PROVE RunsAgree'
  <2> DEFINE x == run[r].row
             more == announced[x.sub] \cup {x.end}
  <2>1. Fetched(x)
    BY <1>6 DEF AnnounceRow, RunsAgree
  <2>2. CASE NextRow(r, run[r].todo)
    BY <1>3, <2>2
  <2>3. CASE Announce(x.sub, x.end) /\ run' = [run EXCEPT ![r].pc = "advance"]
    <3>1. announced' = [announced EXCEPT ![x.sub] = more]
      BY <2>3 DEF Announce
    <3>2. announced'[x.sub] = more /\ x.end \in more
      BY <2>1, <3>1 DEF Fetched
    <3>3. /\ \A o \in Runs \ {r} : run'[o] = run[o]
          /\ run'[r].todo = run[r].todo /\ run'[r].row = x
      BY <2>3 DEF RunType
    <3> QED BY <1>1, <2>1, <3>2, <3>3 DEF RunsAgree
  <2> QED BY <1>6, <2>2, <2>3 DEF AnnounceRow
<1>7. ASSUME NEW r \in Runs, AdvanceCursor(r) PROVE RunsAgree'
  BY <1>3, <1>7 DEF AdvanceCursor
<1>8. ASSUME NEW r \in Runs, RowFails(r) PROVE RunsAgree'
  BY <1>3, <1>8 DEF RowFails
<1>9. ASSUME NEW r \in Runs, RunDies(r) PROVE RunsAgree'
  <2>1. /\ \A o \in Runs \ {r} : run'[o] = run[o]
        /\ run'[r].todo = {} /\ run'[r].pc = "idle"
    BY <1>9 DEF RunDies, NoRun
  <2> QED BY <1>1, <2>1
<1>10. ASSUME NEW q \in Requests,
              (\E e \in Emails : FindPlan(q, e)) \/ Subscribing(q) \/ RequestFails(q)
       PROVE  RunsAgree'
  BY <1>2, <1>10 DEF FindPlan, Subscribing, FindExisting, InsertSubscription, IssueFirst,
     AnnounceFirst, RequestFails
<1>11. CASE \/ \E active \in BOOLEAN, terms \in Terms : UpdatePlan(active, terms)
            \/ CountActive \/ DeletePlan
            \/ \E s \in Subs : CancelSubscription(s)
            \/ TimePasses \/ UNCHANGED vars
  BY <1>2, <1>11 DEF UpdatePlan, CountActive, DeletePlan, CancelSubscription, TimePasses, vars
<1> QED BY <1>4, <1>5, <1>6, <1>7, <1>8, <1>9, <1>10, <1>11 DEF Next, Billing

\* A subscribe call knows the first day of the subscription it has inserted.
LEMMA NextRequestsAgree ==
  ASSUME Typed, Keeps, RequestsAgree, [Next]_vars PROVE RequestsAgree'
<1> USE DEF Typed
<1> DEFINE Agrees(q) ==
      LET s == request'[q].sub
      IN  /\ s \in Subs /\ sub'[s].status # "none"
          /\ PresentThen(s) => request'[q].first = sub'[s].first
<1>a. ASSUME NEW q \in Requests, request'[q].sub = request[q].sub,
             request'[q].first = request[q].first, request[q].pc \in {"issue", "announce"}
      PROVE  Agrees(q)
  BY <1>a DEF RequestsAgree, Keeps, Present, PresentThen
<1>b. (\A q \in Requests : request'[q].pc \in {"issue", "announce"} => Agrees(q)) => RequestsAgree'
  BY DEF RequestsAgree, Present, PresentThen
<1>c. ASSUME NEW q \in Requests, \A o \in Requests \ {q} : request'[o] = request[o],
             request'[q].pc \in {"issue", "announce"} => Agrees(q)
      PROVE  RequestsAgree'
  <2>1. \A o \in Requests \ {q} : request'[o].pc \in {"issue", "announce"} => Agrees(o)
    BY <1>a, <1>c
  <2> HIDE DEF Agrees
  <2> QED BY <1>b, <1>c, <2>1
<1>d. ASSUME request' = request PROVE RequestsAgree'
  <2>1. \A o \in Requests : request'[o].pc \in {"issue", "announce"} => Agrees(o)
    BY <1>a, <1>d
  <2> HIDE DEF Agrees
  <2> QED BY <1>b, <2>1
<1>1. ASSUME NEW q \in Requests, \E e \in Emails : FindPlan(q, e) PROVE RequestsAgree'
  <2>1. PICK e \in Emails : request' = [request EXCEPT ![q] =
               [Resting EXCEPT !.pc = "check", !.email = e, !.terms = plan.terms]]
    BY <1>1 DEF FindPlan
  <2>2. request'[q].pc = "check" /\ \A o \in Requests \ {q} : request'[o] = request[o]
    BY <2>1 DEF Resting
  <2> QED BY <1>c, <2>2
<1>2. ASSUME NEW q \in Requests, FindExisting(q) \/ AnnounceFirst(q) \/ RequestFails(q)
      PROVE  RequestsAgree'
  <2>1. request'[q].pc \in {"idle", "insert"} /\ \A o \in Requests \ {q} : request'[o] = request[o]
    BY <1>2 DEF FindExisting, AnnounceFirst, RequestFails, Resting, RequestType
  <2> QED BY <1>c, <2>1
<1>3. ASSUME NEW q \in Requests, InsertSubscription(q) PROVE RequestsAgree'
  <2>1. CASE ~plan.exists
    <3>1. request'[q].pc = "idle" /\ \A o \in Requests \ {q} : request'[o] = request[o]
      BY <1>3, <2>1 DEF InsertSubscription, Resting
    <3> QED BY <1>c, <3>1
  <2>2. CASE plan.exists
    <3>1. FreshSub \in Subs
      BY <1>3, <2>2 DEF InsertSubscription, FreshSub, Unused
    <3>2. sub'[FreshSub].status = "ACTIVE" /\ sub'[FreshSub].first = now
      BY <1>3, <2>2, <3>1 DEF InsertSubscription
    <3>3. /\ request'[q].sub = FreshSub /\ request'[q].first = now
          /\ \A o \in Requests \ {q} : request'[o] = request[o]
      BY <1>3, <2>2 DEF InsertSubscription, RequestType
    <3>4. Agrees(q)
      BY <3>1, <3>2, <3>3
    <3> QED BY <1>c, <3>3, <3>4
  <2> QED BY <2>1, <2>2
<1>4. ASSUME NEW q \in Requests, IssueFirst(q) PROVE RequestsAgree'
  <2>1. /\ request[q].pc = "issue" /\ request'[q].sub = request[q].sub
        /\ request'[q].first = request[q].first
        /\ \A o \in Requests \ {q} : request'[o] = request[o]
    BY <1>4 DEF IssueFirst, RequestType
  <2> QED BY <1>a, <1>c, <2>1
<1>5. ASSUME NEW r \in Runs, FetchDue(r) \/ Billing(r) \/ RowFails(r) \/ RunDies(r)
      PROVE  RequestsAgree'
  BY <1>5, <1>d DEF FetchDue, StartRun, Billing, BillRow, AnnounceRow, AdvanceCursor, RowFails, RunDies
<1>6. CASE \/ \E active \in BOOLEAN, terms \in Terms : UpdatePlan(active, terms)
           \/ CountActive \/ DeletePlan
           \/ \E s \in Subs : CancelSubscription(s)
           \/ TimePasses \/ UNCHANGED vars
  BY <1>6, <1>d DEF UpdatePlan, CountActive, DeletePlan, CancelSubscription, TimePasses, vars
<1> QED BY <1>1, <1>2, <1>3, <1>4, <1>5, <1>6 DEF Next, Subscribing

\* Billed periods stay chained, whatever is billed, announced, edited or removed.
LEMMA NextChained ==
  ASSUME Typed, Chained, RunsAgree, RequestsAgree, [Next]_vars PROVE Chained'
<1> USE DEF Typed
<1> DEFINE Of(s) == /\ sub[s].status = "none" => announced[s] = {}
                    /\ Present(s) => /\ sub[s].start \in Periods(s)
                                     /\ Follows(sub[s].end, s)
                                     /\ \A p \in Periods(s) \ {sub[s].first} : Follows(p, s)
<1>a. \A s \in Subs : Of(s)
  BY DEF Chained
<1>b. ASSUME NEW s \in Subs, Periods(s)' = Periods(s), announced'[s] = announced[s],
             sub'[s].first = sub[s].first, sub'[s].start = sub[s].start, sub'[s].end = sub[s].end,
             sub'[s].status = "none" => sub[s].status = "none", Present(s)' => Present(s)
      PROVE  Of(s)'
  BY <1>a, <1>b DEF Follows
<1>c. ASSUME NEW s \in Subs, sub'[s] = sub[s], announced'[s] = announced[s] PROVE Of(s)'
  BY <1>b, <1>c DEF Periods, Present
<1>d. SameRows => Chained'
  BY <1>c DEF SameRows, Chained
<1>1. ASSUME NEW q \in Requests, InsertSubscription(q) PROVE Chained'
  <2>0. announced' = announced
    BY <1>1 DEF InsertSubscription, books
  <2>1. CASE ~plan.exists
    BY <1>1, <1>d, <2>0, <2>1 DEF InsertSubscription, SameRows
  <2>2. CASE plan.exists
    <3>0. FreshSub \in Subs /\ sub[FreshSub].status = "none"
      BY <1>1, <2>2 DEF InsertSubscription, FreshSub, Unused
    <3>1. PICK n \in Subs : n = FreshSub /\ sub[n].status = "none"
      BY <3>0
    <3>2. /\ sub'[n].first = now /\ sub'[n].start = now /\ sub'[n].status = "ACTIVE"
          /\ sub'[n].end = AddPeriod(now, request[q].terms)
          /\ \A s \in Subs \ {n} : sub'[s] = sub[s]
      BY <1>1, <2>2, <3>1 DEF InsertSubscription
    <3>3. announced'[n] = {} /\ request[q].terms \in Terms
      BY <1>a, <2>0, <3>1 DEF RequestType
    <3>4. Of(n)'
      BY <3>1, <3>2, <3>3 DEF Follows, Periods
    <3>5. \A s \in Subs \ {n} : Of(s)'
      BY <1>c, <2>0, <3>2
    <3> HIDE DEF Of
    <3>6. \A s \in Subs : Of(s)'
      BY <3>4, <3>5
    <3> QED BY <3>6 DEF Chained, Of
  <2> QED BY <2>1, <2>2
<1>2. ASSUME NEW q \in Requests, AnnounceFirst(q) PROVE Chained'
  <2>0. sub' = sub /\ request[q].sub \in Subs
    BY <1>2 DEF AnnounceFirst, RequestsAgree
  <2>1. PICK s \in Subs : s = request[q].sub /\ sub' = sub
    BY <2>0
  <2> DEFINE more == announced[s] \cup {request[q].first}
  <2>2. CASE announced' = announced
    BY <1>d, <2>1, <2>2 DEF SameRows
  <2>3. CASE announced' # announced
    <3>1. Present(s) /\ announced' = [announced EXCEPT ![s] = more]
      BY <1>2, <2>1, <2>3 DEF AnnounceFirst, Announce
    <3>2. request[q].first = sub[s].first
      BY <1>2, <2>1, <3>1 DEF AnnounceFirst, RequestsAgree
    <3>3. announced'[s] = announced[s] \cup {sub[s].first}
          /\ \A o \in Subs \ {s} : announced'[o] = announced[o]
      BY <2>1, <3>1, <3>2
    <3>4. Periods(s)' = Periods(s)
      BY <2>1, <3>3 DEF Periods
    <3>5. (\A p : Follows(p, s) => Follows(p, s)') /\ sub'[s] = sub[s]
      BY <2>1, <3>4 DEF Follows
    <3>6. Of(s)'
      BY <1>a, <3>1, <3>4, <3>5 DEF Present
    <3>7. \A o \in Subs \ {s} : Of(o)'
      BY <1>c, <2>1, <3>3
    <3> HIDE DEF Of
    <3>8. \A o \in Subs : Of(o)'
      BY <3>6, <3>7
    <3> QED BY <3>8 DEF Chained, Of
  <2> QED BY <2>2, <2>3
<1>3. CASE DeletePlan
  <2>1. announced' = announced /\ \A s \in Subs : sub'[s].status = "none" => sub[s].status = "none"
    BY <1>3 DEF DeletePlan, NoSub, books
  <2>2. \A s \in Subs : ~Present(s)'
    BY <1>3 DEF DeletePlan, NoSub, Present
  <2> QED BY <1>a, <2>1, <2>2 DEF Chained
<1>4. ASSUME NEW s \in Subs, CancelSubscription(s) PROVE Chained'
  <2>1. announced' = announced /\ \A o \in Subs \ {s} : sub'[o] = sub[o]
    BY <1>4 DEF CancelSubscription, books
  <2>2. /\ sub'[s].first = sub[s].first /\ sub'[s].start = sub[s].start /\ sub'[s].end = sub[s].end
        /\ sub'[s].status = "CANCELED" /\ sub[s].status = "ACTIVE"
    BY <1>4 DEF CancelSubscription, SubType
  <2>3. Of(s)'
    BY <1>b, <2>1, <2>2 DEF Periods, Present
  <2>4. \A o \in Subs \ {s} : Of(o)'
    BY <1>c, <2>1
  <2> HIDE DEF Of
  <2>5. \A o \in Subs : Of(o)'
    BY <2>3, <2>4
  <2> QED BY <2>5 DEF Chained, Of
<1>5. ASSUME NEW r \in Runs, AnnounceRow(r) PROVE Chained'
  <2>0. sub' = sub /\ run[r].row.sub \in Subs
    BY <1>5 DEF AnnounceRow, RunsAgree, Fetched
  <2>1. PICK x : x = run[r].row /\ sub' = sub /\ x.sub \in Subs
    BY <2>0
  <2> DEFINE more == announced[x.sub] \cup {x.end}
  <2>2. CASE announced' = announced
    BY <1>d, <2>1, <2>2 DEF SameRows
  <2>3. CASE announced' # announced
    <3>1. Present(x.sub) /\ announced' = [announced EXCEPT ![x.sub] = more]
      BY <1>5, <2>1, <2>3 DEF AnnounceRow, Announce
    <3>2. Follows(x.end, x.sub)
      BY <1>5, <2>1, <3>1 DEF AnnounceRow, RunsAgree, Fetched
    <3>3. announced'[x.sub] = announced[x.sub] \cup {x.end}
          /\ \A o \in Subs \ {x.sub} : announced'[o] = announced[o]
      BY <2>1, <3>1
    <3>4. Periods(x.sub)' = Periods(x.sub) \cup {x.end}
      BY <2>1, <3>3 DEF Periods
    <3>5. \A p : Follows(p, x.sub) => \E b \in Periods(x.sub)', t \in Terms : p = AddPeriod(b, t)
      BY <3>4 DEF Follows
    <3>6. Of(x.sub)'
      BY <1>a, <2>1, <3>1, <3>2, <3>4, <3>5 DEF Follows, Present
    <3>7. \A o \in Subs \ {x.sub} : Of(o)'
      BY <1>c, <2>1, <3>3
    <3> HIDE DEF Of
    <3>8. \A o \in Subs : Of(o)'
      BY <3>6, <3>7
    <3> QED BY <3>8 DEF Chained, Of
  <2> QED BY <2>2, <2>3
<1>6. ASSUME NEW r \in Runs, AdvanceCursor(r) PROVE Chained'
  <2>0. announced' = announced /\ run[r].row.sub \in Subs /\ run[r].row.terms \in Terms
    BY <1>6 DEF AdvanceCursor, RunsAgree, Fetched, books, RunType, FetchedRow
  <2>1. PICK x : x = run[r].row /\ announced' = announced /\ x.sub \in Subs /\ x.terms \in Terms
    BY <2>0
  <2>2. CASE ~Present(x.sub)
    BY <1>6, <1>d, <2>1, <2>2 DEF AdvanceCursor, SameRows
  <2>3. CASE Present(x.sub)
    <3>1. x.end \in announced[x.sub]
      BY <1>6, <2>1, <2>3 DEF AdvanceCursor, RunsAgree
    <3>2. sub' = [sub EXCEPT ![x.sub].start = x.end, ![x.sub].end = AddPeriod(x.end, x.terms)]
      BY <1>6, <2>1, <2>3 DEF AdvanceCursor
    <3>3. /\ sub'[x.sub].first = sub[x.sub].first /\ sub'[x.sub].start = x.end
          /\ sub'[x.sub].end = AddPeriod(x.end, x.terms) /\ sub'[x.sub].status = sub[x.sub].status
          /\ \A o \in Subs \ {x.sub} : sub'[o] = sub[o]
      <4> DEFINE next == [sub[x.sub] EXCEPT !.start = x.end, !.end = AddPeriod(x.end, x.terms)]
      <4>1. sub' = [sub EXCEPT ![x.sub] = next]
        BY <3>2
      <4>2. /\ next.first = sub[x.sub].first /\ next.start = x.end
            /\ next.end = AddPeriod(x.end, x.terms) /\ next.status = sub[x.sub].status
        BY <2>1 DEF SubType
      <4> HIDE DEF next
      <4>3. sub'[x.sub] = next /\ \A o \in Subs \ {x.sub} : sub'[o] = sub[o]
        BY <2>1, <4>1
      <4> QED BY <4>2, <4>3
    <3>4. Periods(x.sub)' = Periods(x.sub) /\ x.end \in Periods(x.sub)
      BY <2>1, <3>1, <3>3 DEF Periods
    <3>5. Of(x.sub)'
      <4>1. sub[x.sub].status # "none"
            /\ \A p \in Periods(x.sub) \ {sub[x.sub].first} :
                  \E b \in Periods(x.sub), t \in Terms : p = AddPeriod(b, t)
        BY <1>a, <2>1, <2>3 DEF Follows, Present
      <4>2. \E b \in Periods(x.sub)', t \in Terms : sub'[x.sub].end = AddPeriod(b, t)
        BY <2>1, <3>3, <3>4
      <4>3. \A p \in Periods(x.sub)' \ {sub'[x.sub].first} :
              \E b \in Periods(x.sub)', t \in Terms : p = AddPeriod(b, t)
        BY <3>3, <3>4, <4>1
      <4>4. sub'[x.sub].start \in Periods(x.sub)' /\ sub'[x.sub].status # "none"
        BY <3>3, <3>4, <4>1
      <4> QED BY <4>2, <4>3, <4>4 DEF Follows
    <3>6. \A o \in Subs \ {x.sub} : Of(o)'
      BY <1>c, <2>1, <3>3
    <3> HIDE DEF Of
    <3>7. \A o \in Subs : Of(o)'
      BY <3>5, <3>6
    <3> QED BY <3>7 DEF Chained, Of
  <2> QED BY <2>2, <2>3
<1>7. ASSUME NEW q \in Requests,
             \/ \E e \in Emails : FindPlan(q, e)
             \/ FindExisting(q) \/ IssueFirst(q) \/ RequestFails(q)
      PROVE  Chained'
  BY <1>7, <1>d DEF FindPlan, FindExisting, IssueFirst, RequestFails, books, SameRows
<1>8. ASSUME NEW r \in Runs, FetchDue(r) \/ BillRow(r) \/ RowFails(r) \/ RunDies(r)
      PROVE  Chained'
  BY <1>8, <1>d DEF FetchDue, StartRun, BillRow, RowFails, RunDies, books, SameRows
<1>9. CASE \/ \E active \in BOOLEAN, terms \in Terms : UpdatePlan(active, terms)
           \/ CountActive \/ TimePasses \/ UNCHANGED vars
  BY <1>d, <1>9 DEF UpdatePlan, CountActive, TimePasses, vars, books, SameRows
<1> QED BY <1>1, <1>2, <1>3, <1>4, <1>5, <1>6, <1>7, <1>8, <1>9 DEF Next, Subscribing, Billing

\* All of it is kept by every step.
Billed == Chained /\ RunsAgree /\ RequestsAgree

\* The types and the order of what is billed hold throughout.
LEMMA BilledAlways == Spec => [](Typed /\ Billed)
<1>1. Init => Billed
  BY DEF Init, Billed, Chained, RunsAgree, RequestsAgree, NoSub, NoRun, Resting, Present
<1>2. Typed /\ Billed /\ [Next]_vars => Billed'
  BY NextKeeps, NextRunsAgree, NextRequestsAgree, NextChained DEF Billed
<1> QED BY <1>1, <1>2, BillingTypes, PTL DEF Spec

\* Whatever fails, overlaps or is edited between fetching a row and advancing
\* its cursor, no period is skipped (SubscriptionsService.billDueSubscriptions).
THEOREM NoPeriodIsSkipped == Spec => []NoPeriodSkipped
<1>1. Billed => NoPeriodSkipped
  BY DEF Billed, Chained, Follows, NoPeriodSkipped
<1> QED BY <1>1, BilledAlways, PTL

-----------------------------------------------------------------------------
(***************************************************************************)
(* No month is skipped                                                     *)
(***************************************************************************)

\* A month or a year on: that many months later, and no later in the month.
LEMMA MonthsOn ==
  ASSUME NEW b \in Date, NEW t \in Terms, t.unit \in {"MONTH", "YEAR"}
  PROVE  AddPeriod(b, t).month = b.month + Months(t) /\ AddPeriod(b, t).day <= b.day
<1>1. \A m : DaysIn(m) \in {28, 29, 30, 31}
  BY DEF DaysIn
<1>2. b.day \in Nat
  BY DEF Date
<1>3. \A m : AddMonths(b, m).month = b.month + m /\ AddMonths(b, m).day <= b.day
  BY <1>1, <1>2 DEF AddMonths
<1> QED BY <1>3 DEF AddPeriod, Months

\* A step adds no billed period but one that follows on a billed period.
LEMMA NextPeriods ==
  ASSUME Typed, Billed, [Next]_vars
  PROVE  \A s \in Subs : Present(s)' =>
           \A p \in Periods(s)' :
             p = sub'[s].first \/ p \in announced[s] \/ (Present(s) /\ Follows(p, s))
<1> USE DEF Typed
<1>1. ASSUME announced' = announced
      PROVE  \A s \in Subs : \A p \in Periods(s)' : p = sub'[s].first \/ p \in announced[s]
  BY <1>1 DEF Periods
<1>2. ASSUME NEW q \in Requests, AnnounceFirst(q), NEW s \in Subs, Present(s)', NEW p \in Periods(s)'
      PROVE  p = sub'[s].first \/ p \in announced[s]
  <2>1. sub' = sub /\ request[q].sub \in Subs
    BY <1>2 DEF AnnounceFirst, Billed, RequestsAgree
  <2>2. request[q].sub = s => request[q].first = sub[s].first
    BY <1>2, <2>1 DEF AnnounceFirst, Billed, RequestsAgree, Present
  <2> DEFINE more == announced[request[q].sub] \cup {request[q].first}
  <2>3. announced' = announced \/ announced' = [announced EXCEPT ![request[q].sub] = more]
    BY <1>2 DEF AnnounceFirst, Announce
  <2>4. announced'[s] \subseteq announced[s] \cup {sub[s].first}
    BY <2>1, <2>2, <2>3
  <2> QED BY <1>2, <2>1, <2>4 DEF Periods
<1>3. ASSUME NEW r \in Runs, AnnounceRow(r), NEW s \in Subs, Present(s)', NEW p \in Periods(s)'
      PROVE  p = sub'[s].first \/ p \in announced[s] \/ (Present(s) /\ Follows(p, s))
  <2>1. sub' = sub /\ Fetched(run[r].row)
    BY <1>3 DEF AnnounceRow, Billed, RunsAgree
  <2>2. PICK x : x = run[r].row /\ Fetched(x)
    BY <2>1
  <2> DEFINE more == announced[x.sub] \cup {x.end}
  <2>3. announced' = announced \/ announced' = [announced EXCEPT ![x.sub] = more]
    BY <1>3, <2>2 DEF AnnounceRow, Announce
  <2>4. x.sub \in Subs /\ (x.sub = s => Present(s) /\ Follows(x.end, s))
    BY <1>3, <2>1, <2>2 DEF Fetched, Present
  <2>5. \A d \in announced'[s] : d \in announced[s] \/ (x.sub = s /\ d = x.end)
    BY <2>3, <2>4
  <2> QED BY <1>3, <2>4, <2>5 DEF Periods
<1>4. ASSUME NEW q \in Requests,
             \/ \E e \in Emails : FindPlan(q, e)
             \/ FindExisting(q) \/ InsertSubscription(q) \/ IssueFirst(q) \/ RequestFails(q)
      PROVE  announced' = announced
  BY <1>4 DEF FindPlan, FindExisting, InsertSubscription, IssueFirst, RequestFails, books
<1>5. ASSUME NEW r \in Runs, FetchDue(r) \/ BillRow(r) \/ AdvanceCursor(r) \/ RowFails(r) \/ RunDies(r)
      PROVE  announced' = announced
  BY <1>5 DEF FetchDue, StartRun, BillRow, AdvanceCursor, RowFails, RunDies, books
<1>6. CASE \/ \E active \in BOOLEAN, terms \in Terms : UpdatePlan(active, terms)
           \/ CountActive \/ DeletePlan
           \/ \E s \in Subs : CancelSubscription(s)
           \/ TimePasses \/ UNCHANGED vars
  <2>1. announced' = announced
    BY <1>6 DEF UpdatePlan, CountActive, DeletePlan, CancelSubscription, TimePasses, vars, books
  <2> QED BY <1>1, <2>1
<1> QED BY <1>1, <1>2, <1>3, <1>4, <1>5, <1>6 DEF Next, Subscribing, Billing

\* No period of a plan by the month begins later in the month than the first.
NoLaterDay ==
  \A s \in Subs : Present(s) => \A p \in Periods(s) : p.day <= sub[s].first.day

ByTheMonth == \A t \in Terms : t.unit \in {"MONTH", "YEAR"}

\* Every step keeps that.
LEMMA NextNoLaterDay ==
  ASSUME ByTheMonth, Typed, Billed, NoLaterDay, [Next]_vars PROVE NoLaterDay'
<1> SUFFICES ASSUME NEW s \in Subs, Present(s)', NEW p \in Periods(s)'
             PROVE  p.day <= sub'[s].first.day
  BY DEF NoLaterDay
<1>1. Typed' /\ Keeps
  BY NextTyped, NextKeeps
<1>2. p = sub'[s].first \/ p \in announced[s] \/ (Present(s) /\ Follows(p, s))
  BY NextPeriods
<1>3. CASE p = sub'[s].first
  <2>1. sub'[s].first \in Date
    BY <1>1 DEF Typed, SubType
  <2> QED BY <1>3, <2>1 DEF Date
<1>4. CASE p # sub'[s].first
  <2>1. sub[s].status # "none"
    BY <1>2, <1>4 DEF Billed, Chained, Present
  <2>2. Present(s) /\ sub'[s].first = sub[s].first
    BY <1>1, <2>1 DEF Keeps
  <2>3. Periods(s) \subseteq Date /\ sub[s].first \in Date
    BY DEF Periods, Typed, SubType
  <2>4. CASE p \in announced[s]
    BY <2>2, <2>4 DEF NoLaterDay, Periods
  <2>5. CASE Follows(p, s)
    <3>1. PICK b \in Periods(s), t \in Terms : p = AddPeriod(b, t)
      BY <2>5 DEF Follows
    <3>2. b \in Date /\ p.day <= b.day
      BY <2>3, <3>1, MonthsOn DEF ByTheMonth
    <3>3. b.day <= sub[s].first.day
      BY <2>2 DEF NoLaterDay
    <3>4. p.day \in Nat
      <4>1. p \in Date
        BY <1>1 DEF Typed, SubType, Periods
      <4> QED BY <4>1 DEF Date
    <3> QED BY <2>2, <2>3, <3>2, <3>3, <3>4 DEF Date
  <2> QED BY <1>2, <1>4, <2>4, <2>5
<1> QED BY <1>3, <1>4

\* No month is skipped and the day of the month never gets later
\* (SubscriptionsService.billDueSubscriptions with addMonthsClamped).
THEOREM NoMonthIsSkipped == Spec => []NoMonthSkipped
<1>1. CASE ByTheMonth
  <2>1. Init => NoLaterDay
    BY DEF Init, NoLaterDay, Present, NoSub
  <2>2. Typed /\ Billed /\ NoLaterDay /\ [Next]_vars => NoLaterDay'
    BY <1>1, NextNoLaterDay
  <2>3. Typed /\ Billed /\ NoLaterDay => NoMonthSkipped
    <3> SUFFICES ASSUME Typed, Billed, NoLaterDay, NEW s \in Subs, Present(s),
                        NEW p \in Periods(s) \ {sub[s].first}
                 PROVE  /\ p.day <= sub[s].first.day
                        /\ \E b \in Periods(s), t \in Terms : p.month = b.month + Months(t)
      BY DEF NoMonthSkipped
    <3>1. PICK b \in Periods(s), t \in Terms : p = AddPeriod(b, t)
      BY DEF Billed, Chained, Follows
    <3>2. b \in Date
      BY DEF Periods, Typed, SubType
    <3>3. p.month = b.month + Months(t)
      BY <1>1, <3>1, <3>2, MonthsOn DEF ByTheMonth
    <3> QED BY <3>3 DEF NoLaterDay
  <2> QED BY <2>1, <2>2, <2>3, BilledAlways, PTL DEF Spec
<1>2. CASE ~ByTheMonth
  <2>1. NoMonthSkipped
    BY <1>2 DEF NoMonthSkipped, ByTheMonth
  <2> QED BY <2>1, PTL
<1> QED BY <1>1, <1>2

-----------------------------------------------------------------------------
(***************************************************************************)
(* Once per period                                                         *)
(***************************************************************************)

\* Days are ordered.
LEMMA BeforeOrders ==
  /\ \A d, e, f \in Date : Before(d, e) /\ Before(e, f) => Before(d, f)
  /\ \A d \in Date : ~Before(d, d)
<1> USE DEF Date, Before
<1>1. \A d, e, f \in Date : Before(d, e) /\ Before(e, f) => Before(d, f)
  OBVIOUS
<1>2. \A d \in Date : ~Before(d, d)
  OBVIOUS
<1> QED BY <1>1, <1>2

Calm == faults = 0 /\ overlaps = 0

\* The periods of the invoices, announced or not; none has two.
Invoiced(s) == {issued[s][i] : i \in 1..Len(issued[s])}
NoDouble(s) == \A i, j \in 1..Len(issued[s]) : issued[s][i] = issued[s][j] => i = j

Working(r) == run[r].pc \in {"announce", "advance"}
InHand(s) == \E r \in Runs : Working(r) /\ run[r].row.sub = s

\* A second run would be an overlap.
OneRun ==
  /\ \A r \in Runs : run[r].pc = "idle" => run[r].todo = {}
  /\ Calm => \A o, r \in Runs : run[o].pc # "idle" /\ run[r].pc # "idle" => o = r

\* What a run has still to do, one row for each subscription, is after all that
\* has been invoiced; the row in hand is the last of it.
TodoInOrder(r) ==
  \A x \in run[r].todo :
    /\ \A d \in Invoiced(x.sub) : Before(d, x.end)
    /\ \A y \in run[r].todo : y.sub = x.sub => y = x
HandInOrder(r) ==
  Working(r) =>
    /\ \A d \in Invoiced(run[r].row.sub) : d = run[r].row.end \/ Before(d, run[r].row.end)
    /\ \A y \in run[r].todo : y.sub # run[r].row.sub

\* The cursor of a row in nobody's hands is after all that has been invoiced.
CursorInOrder(s) ==
  Present(s) /\ ~InHand(s) => \A d \in Invoiced(s) : Before(d, sub[s].end)

\* A first invoice still to come is before all that run may have issued.
FirstInOrder(q) ==
  request[q].pc = "issue" =>
    /\ \A d \in Invoiced(request[q].sub) : Before(request[q].first, d)
    /\ Present(request[q].sub) => Before(request[q].first, sub[request[q].sub].end)
    /\ \A r \in Runs : \A x \in run[r].todo :
         x.sub = request[q].sub => Before(request[q].first, x.end)
    /\ \A r \in Runs : Working(r) /\ run[r].row.sub = request[q].sub =>
         Before(request[q].first, run[r].row.end)
    /\ \A p \in Requests \ {q} : request[p].pc = "issue" => request[p].sub # request[q].sub

InOrder ==
  /\ \A s \in Subs : NoDouble(s) /\ CursorInOrder(s) /\ (sub[s].status = "none" => issued[s] = <<>>)
  /\ \A r \in Runs : TodoInOrder(r) /\ HandInOrder(r)
  /\ \A q \in Requests : FirstInOrder(q)

\* What has failed has failed.
LEMMA FaultsStay == ASSUME Typed, [Next]_vars PROVE faults' = 0 => faults = 0
<1> USE DEF Typed
<1>1. ASSUME NEW q \in Requests, RequestFails(q) PROVE faults' # 0
  BY <1>1 DEF RequestFails
<1>2. ASSUME NEW r \in Runs, RowFails(r) \/ RunDies(r) PROVE faults' # 0
  BY <1>2 DEF RowFails, RunDies
<1>3. ASSUME NEW q \in Requests, (\E e \in Emails : FindPlan(q, e)) \/ Subscribing(q)
      PROVE faults' = faults
  BY <1>3 DEF FindPlan, Subscribing, FindExisting, InsertSubscription, IssueFirst, AnnounceFirst
<1>4. ASSUME NEW r \in Runs, FetchDue(r) \/ Billing(r) PROVE faults' = faults
  BY <1>4 DEF FetchDue, StartRun, Billing, BillRow, AnnounceRow, AdvanceCursor
<1> QED BY <1>1, <1>2, <1>3, <1>4
        DEF Next, UpdatePlan, CountActive, DeletePlan, CancelSubscription, TimePasses, vars

\* At most one run is at work while nothing has gone wrong.
LEMMA NextOneRun == ASSUME Typed, OneRun, [Next]_vars PROVE OneRun'
<1> USE DEF Typed
<1>a. faults' = 0 => faults = 0
  BY FaultsStay
<1>b. ASSUME NEW r \in Runs, overlaps' = overlaps,
             \A o \in Runs \ {r} : run'[o] = run[o], run[r].pc # "idle",
             run'[r].pc = "idle" => run'[r].todo = {}
      PROVE  OneRun'
  BY <1>a, <1>b DEF OneRun, Calm
<1>c. ASSUME run' = run, overlaps' = overlaps PROVE OneRun'
  BY <1>a, <1>c DEF OneRun, Calm
<1>d. ASSUME NEW r \in Runs, NEW todo, NextRow(r, todo)
      PROVE  /\ \A o \in Runs \ {r} : run'[o] = run[o]
             /\ run'[r].pc = "idle" => run'[r].todo = {}
  BY <1>d DEF NextRow, NoRun
<1>1. ASSUME NEW r \in Runs, FetchDue(r) PROVE OneRun'
  <2>1. PICK rows \in SUBSET Subs : StartRun(r, rows)
    BY <1>1 DEF FetchDue
  <2>2. /\ \A o \in Runs \ {r} : run'[o] = run[o]
        /\ run'[r].pc = "issue"
    BY <2>1 DEF StartRun, NoRun
  <2>3. ASSUME Calm' PROVE Calm /\ \A o \in Runs \ {r} : run[o].pc = "idle"
    <3>1. overlaps' = 0
      BY <2>3 DEF Calm
    <3>2. CASE \E o \in Runs \ {r} : run[o].pc # "idle"
      <4>1. overlaps' = overlaps + 1
        BY <2>1, <3>2 DEF StartRun
      <4> QED BY <3>1, <4>1
    <3>3. CASE ~\E o \in Runs \ {r} : run[o].pc # "idle"
      <4>1. overlaps' = overlaps
        BY <2>1, <3>3 DEF StartRun
      <4> QED BY <1>a, <2>3, <3>3, <4>1 DEF Calm
    <3> QED BY <3>2, <3>3
  <2>4. \A o \in Runs : run'[o].pc = "idle" => run'[o].todo = {}
    BY <2>2 DEF OneRun
  <2>5. Calm' => \A o \in Runs : run'[o].pc # "idle" => o = r
    BY <2>2, <2>3
  <2> QED BY <2>4, <2>5 DEF OneRun
<1>2. ASSUME NEW r \in Runs, BillRow(r) PROVE OneRun'
  BY <1>2, <1>b DEF BillRow
<1>3. ASSUME NEW r \in Runs, AnnounceRow(r) PROVE OneRun'
  <2>1. CASE NextRow(r, run[r].todo)
    BY <1>3, <1>b, <1>d, <2>1 DEF AnnounceRow
  <2>2. CASE run' = [run EXCEPT ![r].pc = "advance"]
    BY <1>3, <1>b, <2>2 DEF AnnounceRow, RunType
  <2> QED BY <1>3, <2>1, <2>2 DEF AnnounceRow
<1>4. ASSUME NEW r \in Runs, AdvanceCursor(r) PROVE OneRun'
  BY <1>4, <1>b, <1>d DEF AdvanceCursor
<1>5. ASSUME NEW r \in Runs, RowFails(r) PROVE OneRun'
  <2>1. run[r].pc # "idle"
    BY <1>5 DEF RowFails
  <2>2. PICK todo \in SUBSET run[r].todo : NextRow(r, todo)
    BY <1>5 DEF RowFails
  <2> QED BY <1>5, <1>b, <1>d, <2>1, <2>2 DEF RowFails
<1>6. ASSUME NEW r \in Runs, RunDies(r) PROVE OneRun'
  BY <1>6, <1>b DEF RunDies, NoRun
<1>7. ASSUME NEW q \in Requests,
             (\E e \in Emails : FindPlan(q, e)) \/ Subscribing(q) \/ RequestFails(q)
      PROVE  OneRun'
  BY <1>7, <1>c DEF FindPlan, Subscribing, FindExisting, InsertSubscription, IssueFirst,
     AnnounceFirst, RequestFails
<1>8. CASE \/ \E active \in BOOLEAN, terms \in Terms : UpdatePlan(active, terms)
           \/ CountActive \/ DeletePlan
           \/ \E s \in Subs : CancelSubscription(s)
           \/ TimePasses \/ UNCHANGED vars
  BY <1>8, <1>c DEF UpdatePlan, CountActive, DeletePlan, CancelSubscription, TimePasses, vars
<1> QED BY <1>1, <1>2, <1>3, <1>4, <1>5, <1>6, <1>7, <1>8 DEF Next, Billing

\* An invoice more.
LEMMA InvoicedGrows ==
  ASSUME Typed, NEW s \in Subs, NEW d \in Date, CreateInvoice(s, d)
  PROVE  /\ \A o \in Subs \ {s} : issued'[o] = issued[o]
         /\ \A e \in Invoiced(s)' : e = d \/ e \in Invoiced(s)
         /\ NoDouble(s) /\ d \notin Invoiced(s) => NoDouble(s)'
         /\ issued'[s] # <<>>
<1> DEFINE old == issued[s]
           new == Append(old, d)
<1>1. old \in Seq(Date)
  BY DEF Typed
<1>2. issued' = [issued EXCEPT ![s] = new]
  BY DEF CreateInvoice
<1>3. issued'[s] = new /\ \A o \in Subs \ {s} : issued'[o] = issued[o]
  BY <1>2 DEF Typed
<1>4. /\ Len(new) = Len(old) + 1 /\ Len(old) \in Nat /\ new[Len(new)] = d
      /\ \A i \in 1..Len(old) : new[i] = old[i]
  BY <1>1
<1>5. \A i \in 1..Len(new) : i \in 1..Len(old) \/ i = Len(new)
  BY <1>4
<1> HIDE DEF new
<1>6. \A e \in Invoiced(s)' : e = d \/ e \in Invoiced(s)
  BY <1>3, <1>4, <1>5 DEF Invoiced
<1>7. ASSUME NoDouble(s), d \notin Invoiced(s) PROVE NoDouble(s)'
  <2>1. \A i \in 1..Len(old) : new[i] # d
    BY <1>4, <1>7 DEF Invoiced
  <2>2. \A i, j \in 1..Len(new) : new[i] = new[j] => i = j
    BY <1>4, <1>5, <1>7, <2>1 DEF NoDouble
  <2> QED BY <1>3, <2>2 DEF NoDouble
<1>8. issued'[s] # <<>>
  BY <1>1, <1>3 DEF new
<1> QED BY <1>3, <1>6, <1>7, <1>8

\* What is invoiced, in hand or to do are days.
LEMMA OrderedDays ==
  ASSUME Typed, Billed
  PROVE  /\ \A s \in Subs : Invoiced(s) \subseteq Date /\ sub[s].end \in Date
         /\ \A r \in Runs : \A x \in run[r].todo : x.sub \in Subs /\ x.end \in Date
         /\ \A r \in Runs : run[r].row.end \in Days /\ run[r].row.end \in Date
         /\ \A r \in Runs : Working(r) => run[r].row.sub \in Subs
         /\ \A q \in Requests : request[q].first \in Date
         /\ \A q \in Requests : request[q].pc = "issue" => request[q].sub \in Subs
<1> USE DEF Typed
<1>1. \A s \in Subs : Invoiced(s) \subseteq Date
  <2> SUFFICES ASSUME NEW s \in Subs PROVE \A i \in 1..Len(issued[s]) : issued[s][i] \in Date
    BY DEF Invoiced
  <2>1. issued[s] \in Seq(Date)
    OBVIOUS
  <2> QED BY <2>1
<1>2. \A s \in Subs : sub[s].end \in Date
  BY DEF SubType
<1>3. \A r \in Runs : run[r] \in RunType
  OBVIOUS
<1>4. \A r \in Runs : \A x \in run[r].todo : x.sub \in Subs /\ x.end \in Date
  BY <1>3, DaysAreDates DEF RunType, FetchedRow, Billed, RunsAgree, Fetched
<1>5. \A r \in Runs : run[r].row.end \in Days /\ run[r].row.end \in Date
  BY <1>3, DaysAreDates DEF RunType, FetchedRow
<1>6. \A r \in Runs : Working(r) => run[r].row.sub \in Subs
  BY DEF Working, Billed, RunsAgree, Fetched
<1>7. \A q \in Requests : request[q].first \in Date
  BY DEF RequestType
<1>8. \A q \in Requests : request[q].pc = "issue" => request[q].sub \in Subs
  BY DEF Billed, RequestsAgree
<1> QED BY <1>1, <1>2, <1>4, <1>5, <1>6, <1>7, <1>8

\* Steps that leave invoices, runs and cursors alone.
LEMMA QuietOrder ==
  ASSUME Typed, Billed, InOrder, issued' = issued, run' = run,
         \A s \in Subs : /\ Present(s)' => Present(s) /\ sub'[s].end = sub[s].end
                         /\ sub'[s].status = "none" => sub[s].status = "none",
         \A q \in Requests : request'[q].pc = "issue" =>
           request[q].pc = "issue" /\ request'[q].sub = request[q].sub
             /\ request'[q].first = request[q].first
  PROVE  InOrder'
<1>1. \A s \in Subs : Invoiced(s)' = Invoiced(s) /\ InHand(s)' = InHand(s)
  BY DEF Invoiced, InHand, Working
<1>2. \A r \in Runs : TodoInOrder(r)' /\ HandInOrder(r)'
  <2>1. \A r \in Runs : TodoInOrder(r) /\ HandInOrder(r)
    BY DEF InOrder
  <2>2. \A r \in Runs : TodoInOrder(r)'
    BY <1>1, <2>1, OrderedDays DEF TodoInOrder
  <2>3. \A r \in Runs : HandInOrder(r)'
    BY <1>1, <2>1, OrderedDays DEF HandInOrder, Working
  <2> QED BY <2>2, <2>3
<1>3. \A s \in Subs : NoDouble(s)' /\ CursorInOrder(s)' /\ (sub'[s].status = "none" => issued'[s] = <<>>)
  BY <1>1 DEF InOrder, NoDouble, CursorInOrder
<1>4. ASSUME NEW q \in Requests PROVE FirstInOrder(q)'
  <2> SUFFICES ASSUME request'[q].pc = "issue" PROVE FirstInOrder(q)'
    BY DEF FirstInOrder
  <2>1. PICK s \in Subs : s = request[q].sub
    BY OrderedDays
  <2>2. /\ request[q].pc = "issue" /\ request'[q].sub = s /\ request'[q].first = request[q].first
        /\ \A p \in Requests : request'[p].pc = "issue" =>
             request[p].pc = "issue" /\ request'[p].sub = request[p].sub
    BY <2>1
  <2>3. FirstInOrder(q)
    BY DEF InOrder
  <2>4. \A d \in Invoiced(s)' : Before(request'[q].first, d)
    BY <1>1, <2>1, <2>2, <2>3 DEF FirstInOrder
  <2>5. Present(s)' => Before(request'[q].first, sub'[s].end)
    BY <2>1, <2>2, <2>3 DEF FirstInOrder
  <2>6. \A r \in Runs : \A x \in run'[r].todo : x.sub = s => Before(request'[q].first, x.end)
    BY <2>1, <2>2, <2>3 DEF FirstInOrder
  <2>7. \A r \in Runs : Working(r)' /\ run'[r].row.sub = s => Before(request'[q].first, run'[r].row.end)
    BY <2>1, <2>2, <2>3 DEF FirstInOrder, Working
  <2>8. \A p \in Requests \ {q} : request'[p].pc = "issue" => request'[p].sub # s
    BY <2>1, <2>2, <2>3 DEF FirstInOrder
  <2> QED BY <2>2, <2>4, <2>5, <2>6, <2>7, <2>8 DEF FirstInOrder
<1> QED BY <1>2, <1>3, <1>4 DEF InOrder

\* The first invoice of a subscription.
LEMMA IssueFirstOrder ==
  ASSUME Typed, Billed, InOrder, NEW q \in Requests, IssueFirst(q) PROVE InOrder'
<1>1. PICK s \in Subs : s = request[q].sub
  BY OrderedDays DEF IssueFirst
<1>2. PICK d \in Date : d = request[q].first
  BY OrderedDays
<1>3. /\ request[q].pc = "issue" /\ CreateInvoice(s, d) /\ sub' = sub /\ run' = run
      /\ request'[q].pc = "announce" /\ \A p \in Requests \ {q} : request'[p] = request[p]
  BY <1>1, <1>2 DEF IssueFirst, Typed, RequestType
<1>4. FirstInOrder(q) /\ NoDouble(s) /\ CursorInOrder(s)
  BY DEF InOrder
<1>5. d \notin Invoiced(s)
  BY <1>1, <1>2, <1>3, <1>4, BeforeOrders DEF FirstInOrder
<1>6. /\ \A o \in Subs \ {s} : issued'[o] = issued[o]
      /\ \A e \in Invoiced(s)' : e = d \/ e \in Invoiced(s)
      /\ NoDouble(s)'
  BY <1>3, <1>4, <1>5, InvoicedGrows
<1>7. \A o \in Subs \ {s} : Invoiced(o)' = Invoiced(o) /\ NoDouble(o)'
  BY <1>6 DEF Invoiced, NoDouble, InOrder
<1>8. \A o \in Subs : InHand(o)' = InHand(o) /\ Present(o)' = Present(o)
  BY <1>3 DEF InHand, Working, Present
<1>9. CursorInOrder(s)'
  BY <1>1, <1>2, <1>3, <1>4, <1>6, <1>8 DEF CursorInOrder, FirstInOrder
<1>10. \A o \in Subs \ {s} : CursorInOrder(o)' /\ (sub'[o].status = "none" => issued'[o] = <<>>)
  BY <1>3, <1>6, <1>7, <1>8 DEF CursorInOrder, InOrder
<1>11. sub'[s].status # "none"
  BY <1>1, <1>3 DEF Billed, RequestsAgree
<1>12. ASSUME NEW r \in Runs PROVE TodoInOrder(r)'
  <2> SUFFICES ASSUME NEW x \in run[r].todo, NEW e \in Invoiced(x.sub)' PROVE Before(e, x.end)
    BY <1>3 DEF InOrder, TodoInOrder
  <2>1. x.sub \in Subs /\ \A g \in Invoiced(x.sub) : Before(g, x.end)
    BY OrderedDays DEF InOrder, TodoInOrder
  <2> QED BY <1>1, <1>2, <1>3, <1>4, <1>6, <1>7, <2>1 DEF FirstInOrder
<1>13. ASSUME NEW r \in Runs PROVE HandInOrder(r)'
  <2> SUFFICES ASSUME Working(r), NEW e \in Invoiced(run[r].row.sub)'
               PROVE  e = run[r].row.end \/ Before(e, run[r].row.end)
    BY <1>3 DEF InOrder, HandInOrder, Working
  <2>1. PICK x : x = run[r].row
    OBVIOUS
  <2>2. x.sub \in Subs /\ \A g \in Invoiced(x.sub) : g = x.end \/ Before(g, x.end)
    BY <2>1, OrderedDays DEF InOrder, HandInOrder
  <2>3. x.sub = s => Before(d, x.end)
    BY <1>1, <1>2, <1>3, <1>4, <2>1 DEF FirstInOrder
  <2>4. e \in Invoiced(x.sub)'
    BY <1>3, <2>1 DEF Invoiced
  <2>5. e = x.end \/ Before(e, x.end)
    BY <1>6, <1>7, <2>2, <2>3, <2>4
  <2> QED BY <2>1, <2>5
<1>14. ASSUME NEW p \in Requests PROVE FirstInOrder(p)'
  <2> SUFFICES ASSUME request'[p].pc = "issue" PROVE FirstInOrder(p)'
    BY DEF FirstInOrder
  <2>1. p # q /\ request[p].pc = "issue" /\ request'[p] = request[p] /\ FirstInOrder(p)
    BY <1>3 DEF InOrder
  <2>2. PICK o \in Subs : o = request[p].sub
    BY <2>1, OrderedDays
  <2>3. o # s
    BY <1>1, <1>3, <2>1, <2>2 DEF FirstInOrder
  <2>4. Invoiced(o)' = Invoiced(o) /\ Present(o)' = Present(o)
    BY <1>7, <1>8, <2>3
  <2>5. \A n \in Requests : request'[n].pc = "issue" => request[n].pc = "issue" /\ request'[n] = request[n]
    BY <1>3
  <2>6. \A n \in Requests \ {p} : request'[n].pc = "issue" => request'[n].sub # o
    BY <2>1, <2>2, <2>5 DEF FirstInOrder
  <2>7. \A d2 \in Invoiced(o)' : Before(request'[p].first, d2)
    BY <2>1, <2>2, <2>4 DEF FirstInOrder
  <2>8. Present(o)' => Before(request'[p].first, sub'[o].end)
    BY <1>3, <2>1, <2>2, <2>4 DEF FirstInOrder
  <2>9. /\ \A r \in Runs : \A x \in run'[r].todo : x.sub = o => Before(request'[p].first, x.end)
        /\ \A r \in Runs : Working(r)' /\ run'[r].row.sub = o => Before(request'[p].first, run'[r].row.end)
    BY <1>3, <2>1, <2>2 DEF FirstInOrder, Working
  <2> QED BY <2>1, <2>2, <2>6, <2>7, <2>8, <2>9 DEF FirstInOrder
<1> QED BY <1>6, <1>7, <1>9, <1>10, <1>11, <1>12, <1>13, <1>14 DEF InOrder

\* A subscription more: nothing is invoiced for it, no run has its row.
LEMMA InsertOrder ==
  ASSUME Typed, Billed, InOrder, NEW q \in Requests, InsertSubscription(q) PROVE InOrder'
<1>1. CASE ~plan.exists
  <2>1. /\ issued' = issued /\ run' = run /\ sub' = sub
        /\ request'[q].pc = "idle" /\ \A p \in Requests \ {q} : request'[p] = request[p]
    BY <1>1 DEF InsertSubscription, books, Resting, Typed
  <2>2. /\ \A s \in Subs : /\ Present(s)' => Present(s) /\ sub'[s].end = sub[s].end
                           /\ sub'[s].status = "none" => sub[s].status = "none"
        /\ \A p \in Requests : request'[p].pc = "issue" => p # q
    BY <2>1 DEF Present
  <2> QED BY <2>1, <2>2, QuietOrder
<1>2. CASE plan.exists
  <2>0. FreshSub \in Subs /\ sub[FreshSub].status = "none"
    BY <1>2 DEF InsertSubscription, FreshSub, Unused
  <2>1. PICK n \in Subs : n = FreshSub /\ sub[n].status = "none"
    BY <2>0
  <2>2. /\ issued' = issued /\ run' = run
        /\ sub'[n].status = "ACTIVE" /\ sub'[n].end = AddPeriod(now, request[q].terms)
        /\ \A s \in Subs \ {n} : sub'[s] = sub[s]
    BY <1>2, <2>1 DEF InsertSubscription, books, Typed
  <2>3. /\ request'[q].sub = n /\ request'[q].first = now
        /\ \A p \in Requests \ {q} : request'[p] = request[p]
    BY <1>2, <2>1 DEF InsertSubscription, Typed, RequestType
  <2>4. Before(now, sub'[n].end)
    BY <2>2, PeriodEnds DEF Typed, RequestType
  <2>5. Invoiced(n) = {}
    <3>1. Len(issued[n]) = 0
      BY <2>1 DEF InOrder
    <3> QED BY <3>1 DEF Invoiced
  <2>6. \A s \in Subs : Invoiced(s)' = Invoiced(s) /\ InHand(s)' = InHand(s) /\ NoDouble(s)'
    BY <2>2 DEF Invoiced, InHand, Working, NoDouble, InOrder
  <2>7. \A s \in Subs : CursorInOrder(s)' /\ (sub'[s].status = "none" => issued'[s] = <<>>)
    BY <2>2, <2>5, <2>6 DEF CursorInOrder, InOrder, Present
  <2>8. \A r \in Runs : TodoInOrder(r)' /\ HandInOrder(r)'
    <3>1. \A r \in Runs : TodoInOrder(r) /\ HandInOrder(r)
      BY DEF InOrder
    <3>2. \A r \in Runs : TodoInOrder(r)'
      BY <2>2, <2>6, <3>1, OrderedDays DEF TodoInOrder
    <3>3. \A r \in Runs : HandInOrder(r)'
      BY <2>2, <2>6, <3>1, OrderedDays DEF HandInOrder, Working
    <3> QED BY <3>2, <3>3
  <2>9. /\ \A r \in Runs : \A x \in run[r].todo : x.sub # n
        /\ \A r \in Runs : Working(r) => run[r].row.sub # n
        /\ \A p \in Requests : request[p].pc = "issue" => request[p].sub # n
    BY <2>1 DEF Billed, RunsAgree, RequestsAgree, Fetched, Working
  <2>10. FirstInOrder(q)'
    BY <2>2, <2>3, <2>4, <2>5, <2>6, <2>9 DEF FirstInOrder, Working
  <2>11. ASSUME NEW p \in Requests \ {q} PROVE FirstInOrder(p)'
    <3> SUFFICES ASSUME request'[p].pc = "issue" PROVE FirstInOrder(p)'
      BY DEF FirstInOrder
    <3>1. request[p].pc = "issue" /\ request'[p] = request[p] /\ FirstInOrder(p)
      BY <2>3 DEF InOrder
    <3>2. PICK o \in Subs : o = request[p].sub /\ o # n
      BY <2>9, <3>1, OrderedDays
    <3>3. Invoiced(o)' = Invoiced(o) /\ (Present(o)' <=> Present(o)) /\ sub'[o] = sub[o]
      BY <2>2, <2>6, <3>2 DEF Present
    <3>4. \A m \in Requests \ {p} : request'[m].pc = "issue" => request'[m].sub # o
      BY <2>3, <3>1, <3>2 DEF FirstInOrder
    <3>5. \A d \in Invoiced(o)' : Before(request'[p].first, d)
      BY <3>1, <3>2, <3>3 DEF FirstInOrder
    <3>6. Present(o)' => Before(request'[p].first, sub'[o].end)
      BY <3>1, <3>2, <3>3 DEF FirstInOrder
    <3>7. /\ \A r \in Runs : \A x \in run'[r].todo : x.sub = o => Before(request'[p].first, x.end)
          /\ \A r \in Runs : Working(r)' /\ run'[r].row.sub = o => Before(request'[p].first, run'[r].row.end)
      BY <2>2, <3>1, <3>2 DEF FirstInOrder, Working
    <3> QED BY <3>1, <3>2, <3>4, <3>5, <3>6, <3>7 DEF FirstInOrder
  <2> QED BY <2>6, <2>7, <2>8, <2>10, <2>11 DEF InOrder
<1> QED BY <1>1, <1>2

\* Steps of a run that issue nothing: what the others hold is as before, and
\* what r holds is part of what it held.
LEMMA HeldOrder ==
  ASSUME Typed, Billed, InOrder, NEW r \in Runs,
         issued' = issued, request' = request,
         \A o \in Runs \ {r} : run'[o] = run[o],
         run'[r].todo \subseteq run[r].todo,
         Working(r)' => Working(r) /\ run'[r].row = run[r].row,
         \A s \in Subs : sub'[s].status = "none" => sub[s].status = "none",
         \A s \in Subs : CursorInOrder(s)',
         \A q \in Requests : request[q].pc = "issue" /\ Present(request[q].sub)' =>
           Before(request[q].first, sub'[request[q].sub].end)
  PROVE  InOrder'
<1>1. /\ \A s \in Subs : Invoiced(s)' = Invoiced(s) /\ NoDouble(s)'
      /\ \A o \in Runs : TodoInOrder(o) /\ HandInOrder(o)
  BY DEF Invoiced, InOrder, NoDouble
<1>2. \A o \in Runs : /\ run'[o].todo \subseteq run[o].todo
                       /\ Working(o)' => Working(o) /\ run'[o].row = run[o].row
  BY DEF Working
<1>3. ASSUME NEW o \in Runs PROVE TodoInOrder(o)'
  <2>1. ASSUME NEW x \in run'[o].todo
        PROVE  \A d \in Invoiced(x.sub)' : Before(d, x.end)
    <3>1. x \in run[o].todo /\ Invoiced(x.sub)' = Invoiced(x.sub)
      BY <1>1, <1>2, <2>1, OrderedDays
    <3> QED BY <1>1, <3>1 DEF TodoInOrder
  <2>2. \A x, y \in run'[o].todo : y.sub = x.sub => y = x
    BY <1>1, <1>2 DEF TodoInOrder
  <2> QED BY <2>1, <2>2 DEF TodoInOrder
<1>4. ASSUME NEW o \in Runs PROVE HandInOrder(o)'
  <2> SUFFICES ASSUME Working(o)' PROVE HandInOrder(o)'
    BY DEF HandInOrder
  <2>1. PICK x : x = run[o].row
    OBVIOUS
  <2>2. Working(o) /\ run'[o].row = x /\ x.sub \in Subs /\ run'[o].todo \subseteq run[o].todo
    BY <1>2, <2>1, OrderedDays
  <2>3. \A d \in Invoiced(x.sub)' : d = x.end \/ Before(d, x.end)
    BY <1>1, <2>1, <2>2 DEF HandInOrder
  <2>4. \A y \in run'[o].todo : y.sub # x.sub
    BY <1>1, <2>1, <2>2 DEF HandInOrder
  <2> QED BY <2>2, <2>3, <2>4 DEF HandInOrder, Invoiced
<1>5. ASSUME NEW q \in Requests PROVE FirstInOrder(q)'
  <2> SUFFICES ASSUME request[q].pc = "issue" PROVE FirstInOrder(q)'
    BY DEF FirstInOrder
  <2>1. PICK s \in Subs : s = request[q].sub
    BY OrderedDays
  <2>2. FirstInOrder(q)
    BY DEF InOrder
  <2>3. \A d \in Invoiced(s)' : Before(request'[q].first, d)
    BY <1>1, <2>1, <2>2 DEF FirstInOrder
  <2>4. Present(s)' => Before(request'[q].first, sub'[s].end)
    BY <2>1 DEF Present
  <2>5. \A o \in Runs : \A x \in run'[o].todo : x.sub = s => Before(request'[q].first, x.end)
    BY <1>2, <2>1, <2>2 DEF FirstInOrder
  <2>6. \A o \in Runs : Working(o)' /\ run'[o].row.sub = s => Before(request'[q].first, run'[o].row.end)
    BY <1>2, <2>1, <2>2 DEF FirstInOrder
  <2>7. \A p \in Requests \ {q} : request'[p].pc = "issue" => request'[p].sub # s
    BY <2>1, <2>2 DEF FirstInOrder
  <2> QED BY <2>1, <2>3, <2>4, <2>5, <2>6, <2>7 DEF FirstInOrder
<1> QED BY <1>1, <1>3, <1>4, <1>5 DEF InOrder

\* A run leaves a row: it is gone, or its cursor is now past its last invoice.
LEMMA LeaveRowOrder ==
  ASSUME Typed, Typed', Billed, InOrder, NEW r \in Runs, AnnounceRow(r) \/ AdvanceCursor(r)
  PROVE  InOrder'
<1>0. PICK x : x = run[r].row
  OBVIOUS
<1>1. /\ Working(r) /\ x.sub \in Subs /\ x.end \in Days /\ x.end \in Date
      /\ issued' = issued /\ request' = request /\ x.terms \in Terms
  BY <1>0, OrderedDays DEF AnnounceRow, AdvanceCursor, Working, books, Typed, RunType, FetchedRow
<1>a. NextRow(r, run[r].todo) =>
        /\ \A o \in Runs \ {r} : run'[o] = run[o]
        /\ run'[r].todo \subseteq run[r].todo /\ ~Working(r)'
  BY DEF NextRow, NoRun, Typed, Working
<1>b. Present(x.sub) /\ AnnounceRow(r) =>
        /\ \A o \in Runs \ {r} : run'[o] = run[o]
        /\ run'[r].todo = run[r].todo /\ run'[r].row = run[r].row /\ Working(r)'
  BY <1>0 DEF AnnounceRow, Typed, RunType, Working
<1>c. AdvanceCursor(r) \/ (AnnounceRow(r) /\ ~Present(x.sub)) => NextRow(r, run[r].todo)
  BY <1>0 DEF AnnounceRow, AdvanceCursor
<1>2. /\ \A o \in Runs \ {r} : run'[o] = run[o]
      /\ run'[r].todo \subseteq run[r].todo
      /\ Working(r)' => Working(r) /\ run'[r].row = run[r].row
  BY <1>1, <1>a, <1>b, <1>c
<1>d. AnnounceRow(r) => sub' = sub
  BY DEF AnnounceRow
<1>e. AdvanceCursor(r) => /\ \A s \in Subs \ {x.sub} : sub'[s] = sub[s]
                          /\ sub'[x.sub].status = sub[x.sub].status
                          /\ Present(x.sub) => sub'[x.sub].end = AddPeriod(x.end, x.terms)
  <2> DEFINE new == [sub[x.sub] EXCEPT !.start = x.end, !.end = AddPeriod(x.end, x.terms)]
  <2>1. sub[x.sub] \in SubType
    BY <1>1 DEF Typed
  <2>2. new.status = sub[x.sub].status /\ new.end = AddPeriod(x.end, x.terms)
    BY <2>1 DEF SubType
  <2>3. AdvanceCursor(r) => sub' = IF Present(x.sub) THEN [sub EXCEPT ![x.sub] = new] ELSE sub
    BY <1>0 DEF AdvanceCursor
  <2> HIDE DEF new
  <2> QED BY <1>1, <2>2, <2>3 DEF Typed
<1>3. /\ \A s \in Subs \ {x.sub} : sub'[s] = sub[s]
      /\ sub'[x.sub].status = sub[x.sub].status
  BY <1>d, <1>e
<1>4. Present(x.sub) /\ ~Working(r)' => Before(x.end, sub'[x.sub].end)
  BY <1>1, <1>b, <1>e, PeriodEnds
<1>5. Present(x.sub) /\ Working(r)' => sub' = sub
  BY <1>a, <1>c, <1>d
<1>6. \A s \in Subs : Invoiced(s)' = Invoiced(s) /\ (Present(s)' <=> Present(s))
  BY <1>1, <1>3 DEF Invoiced, Present
<1>7. HandInOrder(r) /\ \A s \in Subs : CursorInOrder(s)
  BY DEF InOrder
<1>8. sub'[x.sub].end \in Date /\ \A s \in Subs : Invoiced(s) \subseteq Date
  BY <1>1, OrderedDays DEF Typed, SubType
<1>9. ASSUME NEW s \in Subs PROVE CursorInOrder(s)'
  <2> SUFFICES ASSUME Present(s), ~InHand(s)', NEW d \in Invoiced(s) PROVE Before(d, sub'[s].end)
    BY <1>6 DEF CursorInOrder
  <2>1. CASE s = x.sub
    <3>1. ~Working(r)'
      BY <1>0, <1>2, <2>1 DEF InHand
    <3>2. d = x.end \/ Before(d, x.end)
      BY <1>0, <1>1, <1>7, <2>1 DEF HandInOrder
    <3> QED BY <1>1, <1>4, <1>8, <2>1, <3>1, <3>2, BeforeOrders
  <2>2. CASE s # x.sub
    <3>1. ~InHand(s)
      BY <1>0, <1>2, <2>2 DEF InHand, Working
    <3> QED BY <1>3, <1>7, <2>2, <3>1 DEF CursorInOrder
  <2> QED BY <2>1, <2>2
<1>10. ASSUME NEW q \in Requests, request[q].pc = "issue", Present(request[q].sub)'
       PROVE  Before(request[q].first, sub'[request[q].sub].end)
  <2>1. PICK s \in Subs : s = request[q].sub
    BY <1>10, OrderedDays
  <2>2. FirstInOrder(q) /\ request[q].first \in Date
    BY OrderedDays DEF InOrder
  <2>3. Present(s)
    BY <1>1, <1>6, <1>10, <2>1 DEF Present
  <2>4. CASE s = x.sub /\ ~Working(r)'
    <3>1. Before(request[q].first, x.end)
      BY <1>0, <1>1, <1>10, <2>1, <2>2, <2>4 DEF FirstInOrder
    <3> QED BY <1>1, <1>4, <1>8, <2>1, <2>2, <2>3, <2>4, <3>1, BeforeOrders
  <2>5. CASE s # x.sub \/ Working(r)'
    <3>1. sub'[s] = sub[s]
      BY <1>3, <1>5, <2>3, <2>5
    <3> QED BY <1>10, <2>1, <2>2, <2>3, <3>1 DEF FirstInOrder
  <2> QED BY <2>4, <2>5
<1>11. \A s \in Subs : sub'[s].status = "none" => sub[s].status = "none"
  BY <1>1, <1>3
<1> QED BY <1>1, <1>2, <1>9, <1>10, <1>11, HeldOrder

\* The next invoice of a subscription, by the only run at work.
LEMMA BillRowOrder ==
  ASSUME Typed, Billed, InOrder, NEW r \in Runs, BillRow(r),
         \A o \in Runs \ {r} : run[o].pc = "idle" /\ run[o].todo = {}
  PROVE  InOrder'
<1>1. PICK x \in run[r].todo :
        /\ CreateInvoice(x.sub, x.end)
        /\ run' = [run EXCEPT ![r] = [pc |-> "announce", todo |-> run[r].todo \ {x}, row |-> x]]
  BY DEF BillRow
<1>2. /\ run[r].pc = "issue" /\ sub' = sub /\ request' = request
      /\ run'[r].pc = "announce" /\ run'[r].todo = run[r].todo \ {x} /\ run'[r].row = x
      /\ \A o \in Runs \ {r} : run'[o] = run[o]
  BY <1>1 DEF BillRow, Typed
<1>3. x.sub \in Subs /\ x.end \in Date
  BY OrderedDays
<1>4. /\ \A d \in Invoiced(x.sub) : Before(d, x.end)
      /\ \A y \in run[r].todo \ {x} : y.sub # x.sub
  BY DEF InOrder, TodoInOrder
<1>5. x.end \notin Invoiced(x.sub)
  BY <1>3, <1>4, BeforeOrders
<1>6. /\ \A o \in Subs \ {x.sub} : issued'[o] = issued[o]
      /\ \A e \in Invoiced(x.sub)' : e = x.end \/ e \in Invoiced(x.sub)
      /\ NoDouble(x.sub)'
  BY <1>1, <1>3, <1>5, InvoicedGrows DEF InOrder
<1>7. \A o \in Subs \ {x.sub} : Invoiced(o)' = Invoiced(o) /\ NoDouble(o)'
  BY <1>6 DEF Invoiced, NoDouble, InOrder
<1>8. InHand(x.sub)' /\ \A o \in Subs : InHand(o) => InHand(o)'
  BY <1>2 DEF InHand, Working
<1>9. \A s \in Subs : CursorInOrder(s)' /\ (sub'[s].status = "none" => issued'[s] = <<>>)
  <2>1. sub'[x.sub].status # "none"
    BY <1>2 DEF Billed, RunsAgree, Fetched
  <2>2. CursorInOrder(x.sub)'
    BY <1>8 DEF CursorInOrder
  <2>3. ASSUME NEW s \in Subs \ {x.sub} PROVE CursorInOrder(s)' /\ (sub'[s].status = "none" => issued'[s] = <<>>)
    BY <1>2, <1>6, <1>7, <1>8 DEF CursorInOrder, Present, InOrder
  <2> QED BY <2>1, <2>2, <2>3
<1>10. \A o \in Runs : TodoInOrder(o)'
  <2>1. \A y \in run'[r].todo : y \in run[r].todo /\ y.sub \in Subs \ {x.sub}
    BY <1>2, <1>4, OrderedDays
  <2>2. \A y \in run'[r].todo : Invoiced(y.sub)' = Invoiced(y.sub)
    BY <1>7, <2>1
  <2>3. TodoInOrder(r)'
    BY <2>1, <2>2 DEF TodoInOrder, InOrder
  <2>4. \A o \in Runs \ {r} : TodoInOrder(o)'
    BY <1>2 DEF TodoInOrder
  <2> QED BY <2>3, <2>4
<1>11. \A o \in Runs : HandInOrder(o)'
  <2>1. \A e \in Invoiced(x.sub)' : e = x.end \/ Before(e, x.end)
    BY <1>4, <1>6
  <2>2. \A e \in Invoiced(run[r].row.sub)' : e = run'[r].row.end \/ Before(e, run'[r].row.end)
    BY <1>2, <2>1 DEF Invoiced
  <2>3. HandInOrder(r)'
    BY <1>2, <1>4, <2>2 DEF HandInOrder
  <2>4. \A o \in Runs \ {r} : HandInOrder(o)'
    BY <1>2 DEF HandInOrder, Working
  <2> QED BY <2>3, <2>4
<1>12. ASSUME NEW q \in Requests PROVE FirstInOrder(q)'
  <2> SUFFICES ASSUME request[q].pc = "issue" PROVE FirstInOrder(q)'
    BY <1>2 DEF FirstInOrder
  <2>1. PICK s \in Subs : s = request[q].sub
    BY OrderedDays
  <2>2. FirstInOrder(q)
    BY DEF InOrder
  <2>3. x.sub = s => Before(request[q].first, x.end)
    BY <2>1, <2>2 DEF FirstInOrder
  <2>4. \A d \in Invoiced(s)' : Before(request'[q].first, d)
    BY <1>2, <1>6, <1>7, <2>1, <2>2, <2>3 DEF FirstInOrder
  <2>5. Present(s)' => Before(request'[q].first, sub'[s].end)
    BY <1>2, <2>1, <2>2 DEF FirstInOrder, Present
  <2>6. \A o \in Runs : \A y \in run'[o].todo : y.sub = s => Before(request'[q].first, y.end)
    BY <1>2, <2>1, <2>2 DEF FirstInOrder
  <2>7. \A o \in Runs : Working(o)' /\ run'[o].row.sub = s => Before(request'[q].first, run'[o].row.end)
    BY <1>2, <2>1, <2>2, <2>3 DEF FirstInOrder, Working
  <2>8. \A p \in Requests \ {q} : request'[p].pc = "issue" => request'[p].sub # s
    BY <1>2, <2>1, <2>2 DEF FirstInOrder
  <2> QED BY <1>2, <2>1, <2>4, <2>5, <2>6, <2>7, <2>8 DEF FirstInOrder
<1> QED BY <1>6, <1>7, <1>9, <1>10, <1>11, <1>12 DEF InOrder

\* A run that finds no other at work fetches rows as they are.
LEMMA FetchOrder ==
  ASSUME Typed, Billed, InOrder, NEW r \in Runs, FetchDue(r),
         \A o \in Runs : run[o].pc = "idle" /\ run[o].todo = {}
  PROVE  InOrder'
<1>1. PICK rows \in SUBSET Subs : Takes(rows, {s \in Subs : IsDue(s)}) /\ StartRun(r, rows)
  BY DEF FetchDue
<1>2. /\ \A o \in Runs \ {r} : run'[o] = run[o]
      /\ run'[r].pc = "issue"
      /\ run'[r].todo = {[sub |-> s, end |-> sub[s].end, terms |-> plan.terms] : s \in rows}
  BY <1>1 DEF StartRun, NoRun, Typed
<1>3. issued' = issued /\ sub' = sub /\ request' = request
  BY <1>1 DEF StartRun, books
<1>4. \A x \in run'[r].todo : x.sub \in Subs /\ Present(x.sub) /\ x.end = sub[x.sub].end
  <2>1. \A s \in rows : s \in Subs /\ Present(s)
    BY <1>1 DEF Takes, IsDue, Present
  <2> QED BY <1>2, <2>1
<1>5. \A x, y \in run'[r].todo : x.sub = y.sub => x = y
  BY <1>2
<1>6. \A o \in Runs : ~Working(o) /\ ~Working(o)'
  BY <1>2 DEF Working
<1>7. \A s \in Subs : /\ ~InHand(s) /\ ~InHand(s)' /\ Invoiced(s)' = Invoiced(s)
                      /\ (Present(s)' <=> Present(s)) /\ NoDouble(s)'
  BY <1>3, <1>6 DEF InHand, Invoiced, Present, NoDouble, InOrder
<1>8. \A s \in Subs : CursorInOrder(s)' /\ (sub'[s].status = "none" => issued'[s] = <<>>)
  BY <1>3, <1>7 DEF CursorInOrder, InOrder
<1>9. \A o \in Runs : HandInOrder(o)'
  BY <1>6 DEF HandInOrder
<1>10. ASSUME NEW x \in run'[r].todo, NEW d \in Invoiced(x.sub)' PROVE Before(d, x.end)
  <2>1. d \in Invoiced(x.sub) /\ CursorInOrder(x.sub)
    BY <1>4, <1>7 DEF InOrder
  <2> QED BY <1>4, <1>7, <2>1 DEF CursorInOrder
<1>11. \A o \in Runs : TodoInOrder(o)'
  BY <1>2, <1>5, <1>10 DEF TodoInOrder
<1>12. ASSUME NEW q \in Requests PROVE FirstInOrder(q)'
  <2> SUFFICES ASSUME request[q].pc = "issue" PROVE FirstInOrder(q)'
    BY <1>3 DEF FirstInOrder
  <2>1. PICK s \in Subs : s = request[q].sub
    BY OrderedDays
  <2>2. FirstInOrder(q)
    BY DEF InOrder
  <2>3. \A d \in Invoiced(s)' : Before(request'[q].first, d)
    BY <1>3, <1>7, <2>1, <2>2 DEF FirstInOrder
  <2>4. Present(s)' => Before(request'[q].first, sub'[s].end)
    BY <1>3, <1>7, <2>1, <2>2 DEF FirstInOrder
  <2>5. \A x \in run'[r].todo : x.sub = s => Before(request'[q].first, x.end)
    BY <1>3, <1>4, <2>1, <2>2 DEF FirstInOrder
  <2>6. \A o \in Runs : \A x \in run'[o].todo : x.sub = s => Before(request'[q].first, x.end)
    BY <1>2, <2>5
  <2>7. \A p \in Requests \ {q} : request'[p].pc = "issue" => request'[p].sub # s
    BY <1>3, <2>1, <2>2 DEF FirstInOrder
  <2> QED BY <1>3, <1>6, <2>1, <2>3, <2>4, <2>6, <2>7 DEF FirstInOrder
<1> QED BY <1>7, <1>8, <1>9, <1>11, <1>12 DEF InOrder

\* Every step of a calm execution keeps the order.
LEMMA NextInOrder ==
  ASSUME Typed, Typed', Billed, OneRun, OneRun', Calm => InOrder, [Next]_vars, Calm' PROVE InOrder'
<1> USE DEF Typed
<1>a. faults = 0 /\ faults' = 0 /\ overlaps' = 0
  BY FaultsStay DEF Calm
<1>b. ASSUME overlaps' = overlaps PROVE InOrder
  BY <1>a, <1>b DEF Calm
<1>c. ASSUME issued' = issued, run' = run, overlaps' = overlaps, sub' = sub,
             \A q \in Requests : request'[q].pc = "issue" => request'[q] = request[q]
      PROVE  InOrder'
  BY <1>b, <1>c, QuietOrder DEF Present
<1>1. ASSUME NEW q \in Requests,
             (\E e \in Emails : FindPlan(q, e)) \/ FindExisting(q) \/ AnnounceFirst(q)
      PROVE  InOrder'
  <2>1. /\ issued' = issued /\ run' = run /\ overlaps' = overlaps /\ sub' = sub
        /\ \A p \in Requests \ {q} : request'[p] = request[p]
    BY <1>1 DEF FindPlan, FindExisting, AnnounceFirst, books
  <2>2. request'[q].pc \in {"idle", "check", "insert"}
    <3>1. CASE \E e \in Emails : FindPlan(q, e)
      BY <3>1 DEF FindPlan, Resting
    <3>2. CASE FindExisting(q)
      BY <3>2 DEF FindExisting, Resting, RequestType
    <3>3. CASE AnnounceFirst(q)
      BY <3>3 DEF AnnounceFirst, Resting
    <3> QED BY <1>1, <3>1, <3>2, <3>3
  <2> QED BY <1>c, <2>1, <2>2
<1>2. ASSUME NEW q \in Requests, InsertSubscription(q) \/ IssueFirst(q) PROVE InOrder'
  <2>1. overlaps' = overlaps
    BY <1>2 DEF InsertSubscription, IssueFirst
  <2> QED BY <1>2, <1>b, <2>1, InsertOrder, IssueFirstOrder
<1>3. ASSUME NEW q \in Requests, RequestFails(q) PROVE InOrder'
  BY <1>3, <1>a DEF RequestFails
<1>4. ASSUME NEW r \in Runs, RowFails(r) \/ RunDies(r) PROVE InOrder'
  BY <1>4, <1>a DEF RowFails, RunDies
<1>5. CASE DeletePlan
  <2>1. issued' = issued /\ run' = run /\ overlaps' = overlaps /\ request' = request
    BY <1>5 DEF DeletePlan, books
  <2>2. \A s \in Subs : ~Present(s)' /\ (sub'[s].status = "none" => sub[s].status = "none")
    BY <1>5 DEF DeletePlan, NoSub, Present
  <2> QED BY <1>b, <2>1, <2>2, QuietOrder
<1>6. ASSUME NEW s \in Subs, CancelSubscription(s) PROVE InOrder'
  <2>1. issued' = issued /\ run' = run /\ overlaps' = overlaps /\ request' = request
    BY <1>6 DEF CancelSubscription, books
  <2>2. \A o \in Subs \ {s} : sub'[o] = sub[o]
    BY <1>6 DEF CancelSubscription
  <2>3. sub'[s].end = sub[s].end /\ sub'[s].status = "CANCELED" /\ sub[s].status = "ACTIVE"
    BY <1>6 DEF CancelSubscription, SubType
  <2> QED BY <1>b, <2>1, <2>2, <2>3, QuietOrder DEF Present
<1>7. CASE \/ \E active \in BOOLEAN, terms \in Terms : UpdatePlan(active, terms)
           \/ CountActive \/ TimePasses \/ UNCHANGED vars
  BY <1>7, <1>c DEF UpdatePlan, CountActive, TimePasses, vars, books
<1>8. ASSUME NEW r \in Runs, FetchDue(r) PROVE InOrder'
  <2>1. PICK rows \in SUBSET Subs : StartRun(r, rows)
    BY <1>8 DEF FetchDue
  <2>2. ~\E o \in Runs \ {r} : run[o].pc # "idle"
    <3>1. (\E o \in Runs \ {r} : run[o].pc # "idle") => overlaps' = overlaps + 1
      BY <2>1 DEF StartRun
    <3> QED BY <1>a, <3>1
  <2>3. overlaps' = overlaps
    BY <2>1, <2>2 DEF StartRun
  <2>4. run[r].pc = "idle"
    BY <2>1 DEF StartRun, IsNext
  <2>5. \A o \in Runs : run[o].pc = "idle" /\ run[o].todo = {}
    BY <2>2, <2>4 DEF OneRun
  <2> QED BY <1>8, <1>b, <2>3, <2>5, FetchOrder
<1>9. ASSUME NEW r \in Runs, BillRow(r) PROVE InOrder'
  <2>1. run[r].pc # "idle" /\ overlaps' = overlaps
    BY <1>9 DEF BillRow
  <2>2. \A o \in Runs \ {r} : run[o].pc = "idle" /\ run[o].todo = {}
    BY <1>a, <2>1 DEF OneRun, Calm
  <2> QED BY <1>9, <1>b, <2>1, <2>2, BillRowOrder
<1>10. ASSUME NEW r \in Runs, AnnounceRow(r) \/ AdvanceCursor(r) PROVE InOrder'
  <2>1. overlaps' = overlaps
    BY <1>10 DEF AnnounceRow, AdvanceCursor
  <2> QED BY <1>10, <1>b, <2>1, LeaveRowOrder
<1> QED BY <1>1, <1>2, <1>3, <1>4, <1>5, <1>6, <1>7, <1>8, <1>9, <1>10 DEF Next, Subscribing, Billing

\* "Idempotent per period": unless a call fails or two runs overlap, a period
\* has one invoice (SubscriptionsService.billDueSubscriptions), whoever else
\* edits, cancels, removes or subscribes meanwhile.
THEOREM PeriodsAreBilledOnce == Spec => []OncePerPeriod
<1>1. Init => OneRun /\ (Calm => InOrder)
  <2> SUFFICES ASSUME Init PROVE OneRun /\ InOrder
    OBVIOUS
  <2>1. /\ \A r \in Runs : run[r].pc = "idle" /\ run[r].todo = {}
        /\ \A q \in Requests : request[q].pc = "idle"
        /\ \A s \in Subs : issued[s] = <<>> /\ ~Present(s)
    BY DEF Init, NoRun, Resting, NoSub, Present
  <2>2. OneRun
    BY <2>1 DEF OneRun
  <2>3. \A s \in Subs : NoDouble(s) /\ CursorInOrder(s)
    BY <2>1 DEF NoDouble, CursorInOrder
  <2>4. /\ \A r \in Runs : TodoInOrder(r) /\ HandInOrder(r)
        /\ \A q \in Requests : FirstInOrder(q)
    BY <2>1 DEF TodoInOrder, HandInOrder, FirstInOrder, Working
  <2> QED BY <2>1, <2>2, <2>3, <2>4 DEF InOrder
<1>2. /\ Typed /\ Billed /\ OneRun /\ (Calm => InOrder) /\ [Next]_vars /\ Typed'
      => OneRun' /\ (Calm => InOrder)'
  BY NextOneRun, NextInOrder
<1>3. (Calm => InOrder) => OncePerPeriod
  BY DEF Calm, InOrder, NoDouble, OncePerPeriod, PeriodInvoicedOnce
<1> QED BY <1>1, <1>2, <1>3, BilledAlways, PTL DEF Spec

-----------------------------------------------------------------------------
(***************************************************************************)
(* No second subscription                                                  *)
(***************************************************************************)

Busy == {q \in Requests : request[q].pc # "idle"}
ActiveOf(e) == {s \in Subs : sub[s].status = "ACTIVE" /\ sub[s].email = e}
InsertingOf(e) == {q \in Requests : request[q].pc = "insert" /\ request[q].email = e}

\* Each call that has found no subscription of its customer, and each active
\* one that was inserted, stands for a call that raced another, but for one.
RacesCounted ==
  /\ IsFiniteSet(Busy) /\ Cardinality(Busy) <= 1 + doubles
  /\ \A e \in Emails : /\ IsFiniteSet(ActiveOf(e)) /\ IsFiniteSet(InsertingOf(e))
                       /\ Cardinality(ActiveOf(e)) + Cardinality(InsertingOf(e)) <= 1 + doubles

\* Steps that add no call, no active subscription and no insert.
LEMMA FewerRaces ==
  ASSUME Typed, RacesCounted, doubles' = doubles, Busy' \subseteq Busy,
         \A e \in Emails : ActiveOf(e)' \subseteq ActiveOf(e) /\ InsertingOf(e)' \subseteq InsertingOf(e)
  PROVE  RacesCounted'
<1>1. IsFiniteSet(Busy') /\ Cardinality(Busy') <= Cardinality(Busy)
      /\ Cardinality(Busy) \in Nat /\ Cardinality(Busy') \in Nat
  BY FS_Subset, FS_CardinalityType DEF RacesCounted
<1>2. ASSUME NEW e \in Emails
      PROVE  /\ IsFiniteSet(ActiveOf(e)') /\ IsFiniteSet(InsertingOf(e)')
             /\ Cardinality(ActiveOf(e)') + Cardinality(InsertingOf(e)') <= 1 + doubles
  <2>1. /\ IsFiniteSet(ActiveOf(e)') /\ Cardinality(ActiveOf(e)') <= Cardinality(ActiveOf(e))
        /\ Cardinality(ActiveOf(e)) \in Nat /\ Cardinality(ActiveOf(e)') \in Nat
    BY FS_Subset, FS_CardinalityType DEF RacesCounted
  <2>2. /\ IsFiniteSet(InsertingOf(e)') /\ Cardinality(InsertingOf(e)') <= Cardinality(InsertingOf(e))
        /\ Cardinality(InsertingOf(e)) \in Nat /\ Cardinality(InsertingOf(e)') \in Nat
    BY FS_Subset, FS_CardinalityType DEF RacesCounted
  <2>3. Cardinality(ActiveOf(e)) + Cardinality(InsertingOf(e)) <= 1 + doubles /\ doubles \in Nat
    BY DEF RacesCounted, Typed
  <2> QED BY <2>1, <2>2, <2>3
<1>3. Cardinality(Busy) <= 1 + doubles /\ doubles \in Nat
  BY DEF RacesCounted, Typed
<1> QED BY <1>1, <1>2, <1>3 DEF RacesCounted

\* Every step keeps the count.
LEMMA NextRacesCounted == ASSUME Typed, RacesCounted, [Next]_vars PROVE RacesCounted'
<1> USE DEF Typed
<1>0. /\ IsFiniteSet(Busy) /\ Cardinality(Busy) \in Nat /\ Cardinality(Busy) <= 1 + doubles
      /\ doubles \in Nat
      /\ \A e \in Emails : /\ IsFiniteSet(ActiveOf(e)) /\ IsFiniteSet(InsertingOf(e))
                           /\ Cardinality(ActiveOf(e)) \in Nat /\ Cardinality(InsertingOf(e)) \in Nat
                           /\ Cardinality(ActiveOf(e)) + Cardinality(InsertingOf(e)) <= 1 + doubles
  BY FS_CardinalityType DEF RacesCounted
<1>a. ASSUME NEW q \in Requests, request'[q].pc \notin {"insert"},
             request'[q].pc # "idle" => request[q].pc # "idle",
             \A p \in Requests \ {q} : request'[p] = request[p],
             sub' = sub, doubles' = doubles
      PROVE  RacesCounted'
  <2>1. Busy' \subseteq Busy
    BY <1>a DEF Busy
  <2>2. \A e \in Emails : ActiveOf(e)' \subseteq ActiveOf(e) /\ InsertingOf(e)' \subseteq InsertingOf(e)
    BY <1>a DEF ActiveOf, InsertingOf
  <2> QED BY <1>a, <2>1, <2>2, FewerRaces
<1>b. ASSUME request' = request, doubles' = doubles,
             \A s \in Subs : sub'[s].status = "ACTIVE" =>
               sub[s].status = "ACTIVE" /\ sub'[s].email = sub[s].email
      PROVE  RacesCounted'
  <2>1. Busy' \subseteq Busy
    BY <1>b DEF Busy
  <2>2. \A e \in Emails : ActiveOf(e)' \subseteq ActiveOf(e) /\ InsertingOf(e)' \subseteq InsertingOf(e)
    BY <1>b DEF ActiveOf, InsertingOf
  <2> QED BY <1>b, <2>1, <2>2, FewerRaces
<1>1. ASSUME NEW q \in Requests, NEW e \in Emails, FindPlan(q, e) PROVE RacesCounted'
  <2>1. /\ request[q].pc = "idle" /\ request'[q].pc = "check" /\ sub' = sub
        /\ \A p \in Requests \ {q} : request'[p] = request[p]
    BY <1>1 DEF FindPlan, IsNext, Resting
  <2>2. Busy' = Busy \cup {q} /\ q \notin Busy
    BY <2>1 DEF Busy
  <2>3. IsFiniteSet(Busy') /\ Cardinality(Busy') = Cardinality(Busy) + 1
    BY <1>0, <2>2, FS_AddElement
  <2>4. \A f \in Emails : ActiveOf(f)' = ActiveOf(f) /\ InsertingOf(f)' = InsertingOf(f)
    BY <2>1 DEF ActiveOf, InsertingOf
  <2>5. CASE \E o \in Requests \ {q} : request[o].pc # "idle"
    <3>1. doubles' = doubles + 1
      BY <1>1, <2>5 DEF FindPlan
    <3> QED BY <1>0, <2>3, <2>4, <3>1 DEF RacesCounted
  <2>6. CASE ~\E o \in Requests \ {q} : request[o].pc # "idle"
    <3>1. doubles' = doubles
      BY <1>1, <2>6 DEF FindPlan
    <3>2. Busy = {}
      BY <2>1, <2>6 DEF Busy
    <3>3. Cardinality(Busy) = 0
      BY <3>2, FS_EmptySet
    <3> QED BY <1>0, <2>3, <2>4, <3>1, <3>3 DEF RacesCounted
  <2> QED BY <2>5, <2>6
<1>2. ASSUME NEW q \in Requests, FindExisting(q) PROVE RacesCounted'
  <2>0. /\ request[q].pc = "check" /\ sub' = sub /\ doubles' = doubles
        /\ \A p \in Requests \ {q} : request'[p] = request[p]
    BY <1>2 DEF FindExisting
  <2>1. CASE \E s \in Subs : sub[s].status = "ACTIVE" /\ sub[s].email = request[q].email
    <3>1. request'[q].pc = "idle"
      BY <1>2, <2>1 DEF FindExisting, Resting
    <3> QED BY <1>a, <2>0, <3>1
  <2>2. CASE ~\E s \in Subs : sub[s].status = "ACTIVE" /\ sub[s].email = request[q].email
    <3>1. request'[q].pc = "insert" /\ request'[q].email = request[q].email
      BY <1>2, <2>2 DEF FindExisting, RequestType
    <3>2. Busy' = Busy
      BY <2>0, <3>1 DEF Busy
    <3>3. ASSUME NEW e \in Emails
          PROVE  /\ IsFiniteSet(ActiveOf(e)') /\ IsFiniteSet(InsertingOf(e)')
                 /\ Cardinality(ActiveOf(e)') + Cardinality(InsertingOf(e)') <= 1 + doubles
      <4>1. ActiveOf(e)' = ActiveOf(e)
        BY <2>0 DEF ActiveOf
      <4>2. CASE e # request[q].email
        <5>1. InsertingOf(e)' = InsertingOf(e)
          BY <2>0, <3>1, <4>2 DEF InsertingOf
        <5> QED BY <1>0, <4>1, <5>1
      <4>3. CASE e = request[q].email
        <5>1. ActiveOf(e) = {}
          BY <2>2, <4>3 DEF ActiveOf
        <5>2. InsertingOf(e)' \subseteq Busy
          BY <2>0, <3>1 DEF InsertingOf, Busy
        <5>3. /\ IsFiniteSet(InsertingOf(e)') /\ Cardinality(InsertingOf(e)') <= Cardinality(Busy)
              /\ Cardinality(InsertingOf(e)') \in Nat
          BY <1>0, <5>2, FS_Subset, FS_CardinalityType
        <5>4. IsFiniteSet(ActiveOf(e)') /\ Cardinality(ActiveOf(e)') = 0
          BY <4>1, <5>1, FS_EmptySet
        <5> QED BY <1>0, <5>3, <5>4
      <4> QED BY <4>2, <4>3
    <3> QED BY <1>0, <2>0, <3>2, <3>3 DEF RacesCounted
  <2> QED BY <2>1, <2>2
<1>3. ASSUME NEW q \in Requests, InsertSubscription(q) PROVE RacesCounted'
  <2>0. /\ request[q].pc = "insert" /\ doubles' = doubles
        /\ \A p \in Requests \ {q} : request'[p] = request[p]
    BY <1>3 DEF InsertSubscription
  <2>1. CASE ~plan.exists
    <3>1. request'[q].pc = "idle" /\ sub' = sub
      BY <1>3, <2>1 DEF InsertSubscription, Resting
    <3> QED BY <1>a, <2>0, <3>1
  <2>2. CASE plan.exists
    <3>0. FreshSub \in Subs /\ sub[FreshSub].status = "none"
      BY <1>3, <2>2 DEF InsertSubscription, FreshSub, Unused
    <3>1. PICK n \in Subs : n = FreshSub /\ sub[n].status = "none"
      BY <3>0
    <3>2. /\ request'[q].pc = "issue"
          /\ sub'[n].status = "ACTIVE" /\ sub'[n].email = request[q].email
          /\ \A s \in Subs \ {n} : sub'[s] = sub[s]
      BY <1>3, <2>2, <3>1 DEF InsertSubscription, RequestType
    <3>3. Busy' = Busy
      BY <2>0, <3>2 DEF Busy
    <3>4. ASSUME NEW e \in Emails
          PROVE  /\ IsFiniteSet(ActiveOf(e)') /\ IsFiniteSet(InsertingOf(e)')
                 /\ Cardinality(ActiveOf(e)') + Cardinality(InsertingOf(e)') <= 1 + doubles
      <4>1. CASE e # request[q].email
        <5>1. InsertingOf(e)' = InsertingOf(e)
          BY <2>0, <3>2, <4>1 DEF InsertingOf
        <5>2. ActiveOf(e)' = ActiveOf(e)
          BY <3>1, <3>2, <4>1 DEF ActiveOf
        <5> QED BY <1>0, <5>1, <5>2
      <4>2. CASE e = request[q].email
        <5>1. ActiveOf(e)' = ActiveOf(e) \cup {n} /\ n \notin ActiveOf(e)
          BY <3>1, <3>2, <4>2 DEF ActiveOf
        <5>2. InsertingOf(e)' = InsertingOf(e) \ {q} /\ q \in InsertingOf(e)
          BY <2>0, <3>2, <4>2 DEF InsertingOf
        <5>3. IsFiniteSet(ActiveOf(e)') /\ Cardinality(ActiveOf(e)') = Cardinality(ActiveOf(e)) + 1
          BY <1>0, <5>1, FS_AddElement
        <5> DEFINE rest == InsertingOf(e) \ {q}
        <5>a. IsFiniteSet(rest) /\ Cardinality(rest) = Cardinality(InsertingOf(e)) - 1
          BY <1>0, <5>2, FS_RemoveElement
        <5>4. IsFiniteSet(InsertingOf(e)') /\ Cardinality(InsertingOf(e)') = Cardinality(InsertingOf(e)) - 1
          BY <5>2, <5>a
        <5> QED BY <1>0, <5>3, <5>4
      <4> QED BY <4>1, <4>2
    <3> QED BY <1>0, <2>0, <3>3, <3>4 DEF RacesCounted
  <2> QED BY <2>1, <2>2
<1>4. ASSUME NEW q \in Requests, IssueFirst(q) \/ AnnounceFirst(q) \/ RequestFails(q)
      PROVE  RacesCounted'
  <2>1. request'[q].pc \in {"idle", "announce"} /\ request[q].pc # "idle"
    BY <1>4 DEF IssueFirst, AnnounceFirst, RequestFails, Resting, RequestType
  <2>2. /\ \A p \in Requests \ {q} : request'[p] = request[p]
        /\ sub' = sub /\ doubles' = doubles
    BY <1>4 DEF IssueFirst, AnnounceFirst, RequestFails
  <2> QED BY <1>a, <2>1, <2>2
<1>5. CASE DeletePlan
  <2>1. \A s \in Subs : sub'[s].status = "ACTIVE" => FALSE
    BY <1>5 DEF DeletePlan, NoSub, Present
  <2> QED BY <1>5, <1>b, <2>1 DEF DeletePlan
<1>6. ASSUME NEW s \in Subs, CancelSubscription(s) PROVE RacesCounted'
  <2>1. /\ sub'[s].status = "CANCELED" /\ \A o \in Subs \ {s} : sub'[o] = sub[o]
    BY <1>6 DEF CancelSubscription, SubType
  <2> QED BY <1>6, <1>b, <2>1 DEF CancelSubscription
<1>7. ASSUME NEW r \in Runs, AdvanceCursor(r) PROVE RacesCounted'
  <2>1. \A s \in Subs : sub'[s].status = sub[s].status /\ sub'[s].email = sub[s].email
    BY <1>7 DEF AdvanceCursor, SubType
  <2> QED BY <1>7, <1>b, <2>1 DEF AdvanceCursor
<1>8. ASSUME NEW r \in Runs, FetchDue(r) \/ BillRow(r) \/ AnnounceRow(r) \/ RowFails(r) \/ RunDies(r)
      PROVE  RacesCounted'
  BY <1>8, <1>b DEF FetchDue, StartRun, BillRow, AnnounceRow, RowFails, RunDies
<1>9. CASE \/ \E active \in BOOLEAN, terms \in Terms : UpdatePlan(active, terms)
           \/ CountActive \/ TimePasses \/ UNCHANGED vars
  BY <1>9, <1>b DEF UpdatePlan, CountActive, TimePasses, vars
<1> QED BY <1>1, <1>2, <1>3, <1>4, <1>5, <1>6, <1>7, <1>8, <1>9 DEF Next, Subscribing, Billing

\* "This email is already subscribed to this plan": a customer has a second
\* active subscription only for a call of subscribe that raced another.
THEOREM SecondSubscriptionsRaced == Spec => []NoSecondSubscription
<1>1. Init => RacesCounted
  <2> SUFFICES ASSUME Init PROVE RacesCounted
    OBVIOUS
  <2>1. Busy = {} /\ \A e \in Emails : ActiveOf(e) = {} /\ InsertingOf(e) = {}
    BY DEF Init, Resting, NoSub, Busy, ActiveOf, InsertingOf
  <2>2. doubles = 0
    BY DEF Init
  <2> QED BY <2>1, <2>2, FS_EmptySet DEF RacesCounted
<1>2. Typed /\ RacesCounted /\ [Next]_vars => RacesCounted'
  BY NextRacesCounted
<1>3. Typed /\ RacesCounted => NoSecondSubscription
  <2> SUFFICES ASSUME Typed, RacesCounted, NEW e \in Emails
               PROVE  Cardinality(ActiveOf(e)) <= 1 + doubles
    BY DEF NoSecondSubscription, ActiveOf
  <2>1. /\ Cardinality(ActiveOf(e)) \in Nat /\ Cardinality(InsertingOf(e)) \in Nat /\ doubles \in Nat
        /\ Cardinality(ActiveOf(e)) + Cardinality(InsertingOf(e)) <= 1 + doubles
    BY FS_CardinalityType DEF RacesCounted, Typed
  <2> QED BY <2>1
<1> QED BY <1>1, <1>2, <1>3, BilledAlways, PTL DEF Spec

-----------------------------------------------------------------------------
(***************************************************************************)
(* A canceled subscription is left alone                                   *)
(***************************************************************************)

AtWork == {r \in Runs : run[r].pc # "idle"}
Holding(s) == {r \in Runs : \E x \in run[r].todo : x.sub = s}

\* A run holds a row once, and fetches only active ones: the late invoices of a
\* canceled subscription and those still to come are of different runs, which
\* were at work together.
LateCounted ==
  /\ IsFiniteSet(AtWork) /\ Cardinality(AtWork) <= 1 + overlaps
  /\ \A r \in Runs : /\ run[r].pc = "idle" => run[r].todo = {}
                     /\ \A x, y \in run[r].todo : x.sub = y.sub => x = y
  /\ \A s \in Subs : /\ sub[s].status \in {"none", "ACTIVE"} => late[s] = 0
                     /\ late[s] + Cardinality(Holding(s)) <= 1 + overlaps

\* Only runs at work hold rows.
LEMMA HoldersWork ==
  ASSUME Typed, LateCounted
  PROVE  /\ IsFiniteSet(AtWork) /\ Cardinality(AtWork) \in Nat
         /\ overlaps \in Nat /\ late \in [Subs -> Nat]
         /\ \A s \in Subs : /\ Holding(s) \subseteq AtWork
                            /\ IsFiniteSet(Holding(s)) /\ Cardinality(Holding(s)) \in Nat
<1>1. \A s \in Subs : Holding(s) \subseteq AtWork
  BY DEF Holding, AtWork, LateCounted
<1>2. IsFiniteSet(AtWork) /\ \A s \in Subs : IsFiniteSet(Holding(s))
  BY <1>1, FS_Subset DEF LateCounted
<1> QED BY <1>1, <1>2, FS_CardinalityType DEF Typed

\* Steps that bill nothing and fetch nothing.
LEMMA FewerHeld ==
  ASSUME Typed, LateCounted, overlaps' = overlaps, late' = late,
         \A r \in Runs : /\ run'[r].todo \subseteq run[r].todo
                         /\ run'[r].pc = "idle" => run'[r].todo = {}
                         /\ run'[r].pc # "idle" => run[r].pc # "idle",
         \A s \in Subs : sub'[s].status \in {"none", "ACTIVE"} => sub[s].status \in {"none", "ACTIVE"}
  PROVE  LateCounted'
<1>1. AtWork' \subseteq AtWork /\ \A s \in Subs : Holding(s)' \subseteq Holding(s)
  BY DEF AtWork, Holding
<1>2. /\ IsFiniteSet(AtWork') /\ Cardinality(AtWork') <= Cardinality(AtWork)
      /\ Cardinality(AtWork') \in Nat
  BY <1>1, HoldersWork, FS_Subset, FS_CardinalityType
<1>3. ASSUME NEW s \in Subs PROVE late'[s] + Cardinality(Holding(s)') <= 1 + overlaps'
  <2>1. Cardinality(Holding(s)') <= Cardinality(Holding(s)) /\ Cardinality(Holding(s)') \in Nat
    BY <1>1, HoldersWork, FS_Subset, FS_CardinalityType
  <2>2. late[s] + Cardinality(Holding(s)) <= 1 + overlaps /\ late[s] \in Nat
    BY HoldersWork DEF LateCounted
  <2> QED BY <2>1, <2>2, HoldersWork
<1>4. Cardinality(AtWork') <= 1 + overlaps'
  BY <1>2, HoldersWork DEF LateCounted
<1> QED BY <1>2, <1>3, <1>4 DEF LateCounted

\* Every step keeps the count.
LEMMA NextLateCounted == ASSUME Typed, LateCounted, [Next]_vars PROVE LateCounted'
<1> USE DEF Typed
<1>a. ASSUME run' = run, overlaps' = overlaps, late' = late,
             \A s \in Subs : sub'[s].status \in {"none", "ACTIVE"} => sub[s].status \in {"none", "ACTIVE"}
      PROVE  LateCounted'
  BY <1>a, FewerHeld DEF LateCounted
<1>b. ASSUME NEW r \in Runs, NEW todo \in SUBSET run[r].todo, NextRow(r, todo), run[r].pc # "idle",
             overlaps' = overlaps, late' = late, \A s \in Subs : sub'[s].status = sub[s].status
      PROVE  LateCounted'
  <2>1. /\ \A o \in Runs \ {r} : run'[o] = run[o]
        /\ run'[r].todo \subseteq todo /\ (run'[r].pc = "idle" => run'[r].todo = {})
    BY <1>b DEF NextRow, NoRun
  <2>2. \A o \in Runs : /\ run'[o].todo \subseteq run[o].todo
                        /\ run'[o].pc = "idle" => run'[o].todo = {}
                        /\ run'[o].pc # "idle" => run[o].pc # "idle"
    BY <1>b, <2>1 DEF LateCounted
  <2> QED BY <1>b, <2>2, FewerHeld
<1>1. ASSUME NEW r \in Runs, FetchDue(r) PROVE LateCounted'
  <2>1. PICK rows \in SUBSET Subs : Takes(rows, {s \in Subs : IsDue(s)}) /\ StartRun(r, rows)
    BY <1>1 DEF FetchDue
  <2>2. /\ \A o \in Runs \ {r} : run'[o] = run[o]
        /\ run[r].pc = "idle" /\ run'[r].pc = "issue"
        /\ run'[r].todo = {[sub |-> s, end |-> sub[s].end, terms |-> plan.terms] : s \in rows}
        /\ late' = late /\ sub' = sub
    BY <2>1 DEF StartRun, NoRun, IsNext
  <2>3. AtWork' = AtWork \cup {r} /\ r \notin AtWork
    BY <2>2 DEF AtWork
  <2>4. IsFiniteSet(AtWork') /\ Cardinality(AtWork') = Cardinality(AtWork) + 1
    BY <2>3, HoldersWork, FS_AddElement
  <2>5. /\ Cardinality(AtWork') <= 1 + overlaps' /\ overlaps' \in Nat /\ overlaps <= overlaps'
        /\ Cardinality(AtWork') \in Nat
    <3>1. CASE \E o \in Runs \ {r} : run[o].pc # "idle"
      <4>1. overlaps' = overlaps + 1
        BY <2>1, <3>1 DEF StartRun
      <4> QED BY <2>4, <4>1, HoldersWork DEF LateCounted
    <3>2. CASE ~\E o \in Runs \ {r} : run[o].pc # "idle"
      <4>1. overlaps' = overlaps
        BY <2>1, <3>2 DEF StartRun
      <4>2. AtWork = {}
        BY <2>2, <3>2 DEF AtWork
      <4>3. Cardinality(AtWork) = 0
        BY <4>2, FS_EmptySet
      <4> QED BY <2>4, <4>1, <4>3, HoldersWork
    <3> QED BY <3>1, <3>2
  <2>6. \A o \in Runs : /\ run'[o].pc = "idle" => run'[o].todo = {}
                        /\ \A x, y \in run'[o].todo : x.sub = y.sub => x = y
    <3>1. \A x, y \in run'[r].todo : x.sub = y.sub => x = y
      BY <2>2
    <3> QED BY <2>2, <3>1 DEF LateCounted
  <2>7. ASSUME NEW s \in Subs PROVE late'[s] + Cardinality(Holding(s)') <= 1 + overlaps'
    <3>1. CASE s \in rows
      <4>1. late'[s] = 0
        BY <2>1, <2>2, <3>1 DEF Takes, IsDue, LateCounted
      <4>2. Holding(s)' \subseteq AtWork'
        BY <2>2, <2>6 DEF Holding, AtWork
      <4>3. Cardinality(Holding(s)') <= Cardinality(AtWork') /\ Cardinality(Holding(s)') \in Nat
        BY <2>4, <4>2, FS_Subset, FS_CardinalityType
      <4> QED BY <2>5, <4>1, <4>3
    <3>2. CASE s \notin rows
      <4>1. \A x \in run'[r].todo : x.sub # s
        BY <2>2, <3>2
      <4>2. run[r].todo = {}
        BY <2>2 DEF LateCounted
      <4>3. Holding(s)' = Holding(s)
        BY <2>2, <4>1, <4>2 DEF Holding
      <4>4. late[s] + Cardinality(Holding(s)) <= 1 + overlaps /\ late[s] \in Nat
        BY DEF LateCounted
      <4> QED BY <2>2, <2>5, <4>3, <4>4, HoldersWork
    <3> QED BY <3>1, <3>2
  <2>8. \A s \in Subs : sub'[s].status \in {"none", "ACTIVE"} => late'[s] = 0
    BY <2>2 DEF LateCounted
  <2> QED BY <2>4, <2>5, <2>6, <2>7, <2>8 DEF LateCounted
<1>2. ASSUME NEW r \in Runs, BillRow(r) PROVE LateCounted'
  <2>1. PICK x \in run[r].todo :
          /\ run' = [run EXCEPT ![r] = [pc |-> "announce", todo |-> run[r].todo \ {x}, row |-> x]]
          /\ late' = IF sub[x.sub].status = "CANCELED" THEN [late EXCEPT ![x.sub] = @ + 1] ELSE late
    BY <1>2 DEF BillRow
  <2>2. /\ run[r].pc = "issue" /\ run'[r].pc = "announce" /\ run'[r].todo = run[r].todo \ {x}
        /\ \A o \in Runs \ {r} : run'[o] = run[o]
        /\ sub' = sub /\ overlaps' = overlaps
    BY <1>2, <2>1 DEF BillRow
  <2>3. AtWork' = AtWork
    BY <2>2 DEF AtWork
  <2>4. \A o \in Runs : /\ run'[o].pc = "idle" => run'[o].todo = {}
                        /\ \A y, z \in run'[o].todo : y.sub = z.sub => y = z
    BY <2>2 DEF LateCounted
  <2>5. ASSUME NEW s \in Subs
        PROVE  /\ sub'[s].status \in {"none", "ACTIVE"} => late'[s] = 0
               /\ late'[s] + Cardinality(Holding(s)') <= 1 + overlaps'
    <3>0. /\ late[s] + Cardinality(Holding(s)) <= 1 + overlaps /\ late[s] \in Nat
          /\ sub[s].status \in {"none", "ACTIVE"} => late[s] = 0
      BY DEF LateCounted
    <3>1. CASE s # x.sub
      <4>1. late'[s] = late[s]
        BY <2>1, <3>1
      <4>2. Holding(s)' = Holding(s)
        BY <2>2, <3>1 DEF Holding
      <4> QED BY <2>2, <3>0, <4>1, <4>2
    <3>2. CASE s = x.sub
      <4>1. Holding(s)' = Holding(s) \ {r} /\ r \in Holding(s)
        BY <2>2, <3>2 DEF Holding, LateCounted
      <4> DEFINE rest == Holding(s) \ {r}
      <4>2. Cardinality(rest) = Cardinality(Holding(s)) - 1
        BY <4>1, HoldersWork, FS_RemoveElement
      <4>3. (late'[s] = late[s] + 1 /\ sub[s].status = "CANCELED") \/ late'[s] = late[s]
        BY <2>1, <3>2
      <4>4. Cardinality(Holding(s)') = Cardinality(Holding(s)) - 1
        BY <4>1, <4>2
      <4> QED BY <2>2, <3>0, <4>3, <4>4, HoldersWork
    <3> QED BY <3>1, <3>2
  <2>6. IsFiniteSet(AtWork') /\ Cardinality(AtWork') <= 1 + overlaps'
    BY <2>2, <2>3 DEF LateCounted
  <2> QED BY <2>4, <2>5, <2>6 DEF LateCounted
<1>3. ASSUME NEW r \in Runs, AnnounceRow(r) PROVE LateCounted'
  <2>1. CASE NextRow(r, run[r].todo)
    BY <1>3, <1>b, <2>1 DEF AnnounceRow
  <2>2. CASE run' = [run EXCEPT ![r].pc = "advance"]
    <3>1. /\ run'[r].todo = run[r].todo /\ run'[r].pc = "advance" /\ run[r].pc = "announce"
          /\ \A o \in Runs \ {r} : run'[o] = run[o]
      BY <1>3, <2>2 DEF AnnounceRow, RunType
    <3>2. \A o \in Runs : /\ run'[o].todo \subseteq run[o].todo
                          /\ run'[o].pc = "idle" => run'[o].todo = {}
                          /\ run'[o].pc # "idle" => run[o].pc # "idle"
      BY <3>1 DEF LateCounted
    <3> QED BY <1>3, <3>2, FewerHeld DEF AnnounceRow
  <2> QED BY <1>3, <2>1, <2>2 DEF AnnounceRow
<1>4. ASSUME NEW r \in Runs, AdvanceCursor(r) PROVE LateCounted'
  <2>1. \A s \in Subs : sub'[s].status = sub[s].status
    BY <1>4 DEF AdvanceCursor, SubType
  <2> QED BY <1>4, <1>b, <2>1 DEF AdvanceCursor
<1>5. ASSUME NEW r \in Runs, RowFails(r) PROVE LateCounted'
  <2>1. PICK todo \in SUBSET run[r].todo : NextRow(r, todo)
    BY <1>5 DEF RowFails
  <2>2. run[r].pc # "idle" /\ overlaps' = overlaps /\ late' = late /\ sub' = sub
    BY <1>5 DEF RowFails
  <2> QED BY <1>b, <2>1, <2>2
<1>6. ASSUME NEW r \in Runs, RunDies(r) PROVE LateCounted'
  <2>1. /\ run'[r].todo = {} /\ run'[r].pc = "idle" /\ \A o \in Runs \ {r} : run'[o] = run[o]
        /\ overlaps' = overlaps /\ late' = late /\ sub' = sub
    BY <1>6 DEF RunDies, NoRun
  <2>2. \A o \in Runs : /\ run'[o].todo \subseteq run[o].todo
                        /\ run'[o].pc = "idle" => run'[o].todo = {}
                        /\ run'[o].pc # "idle" => run[o].pc # "idle"
    BY <2>1 DEF LateCounted
  <2> QED BY <2>1, <2>2, FewerHeld
<1>7. ASSUME NEW q \in Requests,
             (\E e \in Emails : FindPlan(q, e)) \/ Subscribing(q) \/ RequestFails(q)
      PROVE  LateCounted'
  <2>1. run' = run /\ overlaps' = overlaps /\ late' = late
    BY <1>7 DEF FindPlan, Subscribing, FindExisting, InsertSubscription, IssueFirst,
       AnnounceFirst, RequestFails
  <2>2. CASE ~InsertSubscription(q)
    <3>1. sub' = sub
      BY <1>7, <2>2 DEF FindPlan, Subscribing, FindExisting, IssueFirst, AnnounceFirst, RequestFails
    <3> QED BY <1>a, <2>1, <3>1
  <2>3. CASE InsertSubscription(q)
    <3>1. CASE ~plan.exists
      BY <1>a, <2>1, <2>3, <3>1 DEF InsertSubscription
    <3>2. CASE plan.exists
      <4>0. FreshSub \in Subs /\ sub[FreshSub].status = "none"
        BY <2>3, <3>2 DEF InsertSubscription, FreshSub, Unused
      <4>1. PICK n \in Subs : n = FreshSub /\ sub[n].status = "none"
        BY <4>0
      <4>2. \A s \in Subs \ {n} : sub'[s] = sub[s]
        BY <2>3, <3>2, <4>1 DEF InsertSubscription
      <4> QED BY <1>a, <2>1, <4>1, <4>2
    <3> QED BY <3>1, <3>2
  <2> QED BY <2>2, <2>3
<1>8. CASE DeletePlan
  <2>1. \A s \in Subs : sub'[s].status \in {sub[s].status, "deleted"}
    BY <1>8 DEF DeletePlan, NoSub
  <2> QED BY <1>8, <1>a, <2>1 DEF DeletePlan
<1>9. ASSUME NEW s \in Subs, CancelSubscription(s) PROVE LateCounted'
  <2>1. sub'[s].status = "CANCELED" /\ \A o \in Subs \ {s} : sub'[o] = sub[o]
    BY <1>9 DEF CancelSubscription, SubType
  <2> QED BY <1>9, <1>a, <2>1 DEF CancelSubscription
<1>10. CASE \/ \E active \in BOOLEAN, terms \in Terms : UpdatePlan(active, terms)
            \/ CountActive \/ TimePasses \/ UNCHANGED vars
  BY <1>10, <1>a DEF UpdatePlan, CountActive, TimePasses, vars
<1> QED BY <1>1, <1>2, <1>3, <1>4, <1>5, <1>6, <1>7, <1>8, <1>9, <1>10 DEF Next, Billing

\* A subscription that is canceled while runs hold its row gets one more
\* invoice at most from each of them (cancelSubscription beside the loop of
\* billDueSubscriptions, which does not look at the status again).
THEOREM CancellationTakesEffect == Spec => []CanceledIsLeftAlone
<1>1. Init => LateCounted
  <2> SUFFICES ASSUME Init PROVE LateCounted
    OBVIOUS
  <2>1. /\ \A r \in Runs : run[r].pc = "idle" /\ run[r].todo = {}
        /\ \A s \in Subs : late[s] = 0
        /\ overlaps = 0
    BY DEF Init, NoRun
  <2>2. AtWork = {} /\ \A s \in Subs : Holding(s) = {}
    BY <2>1 DEF AtWork, Holding
  <2> QED BY <2>1, <2>2, FS_EmptySet DEF LateCounted
<1>2. Typed /\ LateCounted /\ [Next]_vars => LateCounted'
  BY NextLateCounted
<1>3. Typed /\ LateCounted => CanceledIsLeftAlone
  <2> SUFFICES ASSUME Typed, LateCounted, NEW s \in Subs PROVE late[s] <= 1 + overlaps
    BY DEF CanceledIsLeftAlone
  <2>1. late[s] + Cardinality(Holding(s)) <= 1 + overlaps /\ late[s] \in Nat
    BY HoldersWork DEF LateCounted
  <2> QED BY <2>1, HoldersWork
<1> QED BY <1>1, <1>2, <1>3, BilledAlways, PTL DEF Spec

=============================================================================
