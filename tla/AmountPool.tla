----------------------------- MODULE AmountPool -----------------------------
(***************************************************************************)
(* AmountPoolService for one (address, asset, chain): every open invoice   *)
(* paid to a shared address is told apart by its exact amount.  allocate() *)
(* takes a Redis lock with a time to live, reads the amounts in use, picks *)
(* the first free one at or above the quote and inserts the reservation;   *)
(* matchDeposit() finds the invoice of an amount that has arrived.         *)
(*                                                                         *)
(* Amounts are counted in steps of STEP_UNITS, time in arbitrary ticks.    *)
(***************************************************************************)
EXTENDS Naturals, FiniteSets

CONSTANTS
  Workers,    \* requests being served
  Invoices,   \* invoices paid to this address
  Quotes,     \* quoted amounts, in steps
  MaxTime,    \* bound: last tick
  MaxLapses,  \* bound: locks that expire under a live holder
  MaxCrashes  \* bound: requests whose process dies

ASSUME QuotesAssumption == Quotes \subseteq Nat
ASSUME PoolBounds == MaxTime \in Nat /\ MaxLapses \in Nat /\ MaxCrashes \in Nat

\* No lock, no invoice.
None == "none"
ASSUME WorkersAreNotNone == None \notin Workers

VARIABLES
  now,           \* the clock
  deadline,      \* Invoice.expiresAt
  reservations,  \* AmountReservation rows
  lock,          \* the Redis lock; which worker set it is not in the value
  call,          \* allocate() calls: pc and locals, by worker
  lapses, crashes

vars == <<now, deadline, reservations, lock, call, lapses, crashes>>

Resting == [pc |-> "idle", invoice |-> None, quote |-> 0, candidate |-> 0, cooldownUntil |-> 0]

Init ==
  /\ now = 0
  /\ deadline \in [Invoices -> 0..MaxTime]
  /\ reservations = {}
  /\ lock = None
  /\ call = [w \in Workers |-> Resting]
  /\ lapses = 0 /\ crashes = 0

-----------------------------------------------------------------------------
\* The amounts allocate() takes for used: reservations not yet expired.  A
\* reservation in its cooldown is not among them.
Reserved == {r.amount : r \in {x \in reservations : x.expiresAt > now}}

\* Mutant of FirstFree: the candidate is stepped before it is tested.
FirstFreeStepped(q, used, a) ==
  /\ a \in (q + 1)..(q + 1 + Cardinality(used))
  /\ a \notin used
  /\ \A b \in (q + 1)..(a - 1) : b \in used

\* The loop of allocate: a is the first amount at or above q not in use.
FirstFree(q, used, a) ==
  /\ a \in q..(q + Cardinality(used))
  /\ a \notin used
  /\ \A b \in q..(a - 1) : b \in used

\* The reservations matchDeposit may find for an amount: findFirst names no
\* order.
Matches(a) ==
  {r \in reservations : r.amount = a /\ (r.expiresAt > now \/ r.cooldownUntil > now)}

-----------------------------------------------------------------------------
(***************************************************************************)
(* DirectTransferRail.createPayment and AmountPoolService.allocate         *)
(***************************************************************************)

\* The cooldown is twice what is left of the invoice's window; a window that
\* has closed leaves a cooldown that is over.
CooldownUntil(i) ==
  IF deadline[i] > now THEN deadline[i] + 2 * (deadline[i] - now) ELSE 0

\* SET NX: taken, or the request fails with "temporarily unavailable".
Acquire(w, i, q) ==
  /\ call[w].pc = "idle"
  /\ lock = None
  /\ lock' = w
  /\ call' = [call EXCEPT ![w] = [pc |-> "read", invoice |-> i, quote |-> q, candidate |-> 0,
                                  cooldownUntil |-> CooldownUntil(i)]]
  /\ UNCHANGED <<now, deadline, reservations, lapses, crashes>>

\* Mutant of ReadReserved: the set of used amounts is taken for empty.
ReadNothing(w) ==
  /\ call[w].pc = "read"
  /\ call' = [call EXCEPT ![w].pc = "create", ![w].candidate = call[w].quote]
  /\ UNCHANGED <<now, deadline, reservations, lock, lapses, crashes>>

ReadReserved(w) ==
  /\ call[w].pc = "read"
  /\ \E a \in call[w].quote..(call[w].quote + 1 + Cardinality(Reserved)) :
       /\ FirstFree(call[w].quote, Reserved, a)
       /\ call' = [call EXCEPT ![w].pc = "create", ![w].candidate = a]
  /\ UNCHANGED <<now, deadline, reservations, lock, lapses, crashes>>

\* The insert; invoiceId is unique, so an invoice that has a reservation makes
\* it throw, which releases the lock all the same.
Create(w) ==
  LET c == call[w]
      row == [invoice |-> c.invoice, quote |-> c.quote, amount |-> c.candidate,
              expiresAt |-> deadline[c.invoice], cooldownUntil |-> c.cooldownUntil]
  IN
  /\ c.pc = "create"
  /\ reservations' = IF \E r \in reservations : r.invoice = c.invoice
                     THEN reservations ELSE reservations \cup {row}
  /\ call' = [call EXCEPT ![w].pc = "release"]
  /\ UNCHANGED <<now, deadline, lock, lapses, crashes>>

\* finally: DEL, whoever holds the lock by now.
Release(w) ==
  /\ call[w].pc = "release"
  /\ lock' = None
  /\ call' = [call EXCEPT ![w] = Resting]
  /\ UNCHANGED <<now, deadline, reservations, lapses, crashes>>

\* The database call fails: the finally clause releases the lock.
Fail(w) ==
  /\ call[w].pc \in {"read", "create"}
  /\ call' = [call EXCEPT ![w].pc = "release"]
  /\ UNCHANGED <<now, deadline, reservations, lock, lapses, crashes>>

\* The process dies: nothing is released.
Crash(w) ==
  /\ call[w].pc # "idle"
  /\ crashes < MaxCrashes
  /\ crashes' = crashes + 1
  /\ call' = [call EXCEPT ![w] = Resting]
  /\ UNCHANGED <<now, deadline, reservations, lock, lapses>>

\* Mutant of Lapse: the lock is set without PX.
LapseNever == FALSE /\ UNCHANGED vars

\* The time to live runs out: of a lock whose holder is gone, or (MaxLapses)
\* of one whose holder is still at work.
Lapse ==
  /\ lock # None
  /\ lock' = None
  /\ IF call[lock].pc = "idle" THEN UNCHANGED lapses
     ELSE lapses < MaxLapses /\ lapses' = lapses + 1
  /\ UNCHANGED <<now, deadline, reservations, call, crashes>>

Tick ==
  /\ now < MaxTime
  /\ now' = now + 1
  /\ UNCHANGED <<deadline, reservations, lock, call, lapses, crashes>>

Step(w) == ReadReserved(w) \/ Create(w) \/ Release(w)

Next ==
  \/ \E w \in Workers :
       \/ \E i \in Invoices, q \in Quotes : Acquire(w, i, q)
       \/ Step(w) \/ Fail(w) \/ Crash(w)
  \/ Lapse
  \/ Tick

Spec == Init /\ [][Next]_vars

\* A call that holds the lock goes on, and Redis expires keys.
FairSpec == Spec /\ (\A w \in Workers : WF_vars(Step(w))) /\ WF_vars(Lapse)

-----------------------------------------------------------------------------
(***************************************************************************)
(* Properties                                                              *)
(***************************************************************************)
Reservation ==
  [invoice : Invoices, quote : Quotes, amount : Nat, expiresAt : Nat, cooldownUntil : Nat]

PoolTypeOK ==
  /\ now \in Nat
  /\ deadline \in [Invoices -> Nat]
  /\ reservations \subseteq Reservation
  /\ lock \in Workers \cup {None}
  /\ call \in [Workers -> [pc : {"idle", "read", "create", "release"},
                           invoice : Invoices \cup {None}, quote : Nat,
                           candidate : Nat, cooldownUntil : Nat]]
  /\ lapses \in Nat /\ crashes \in Nat

\* As long as no lock has expired under its holder, two open invoices never
\* ask for the same amount at the same address, whatever crashes, fails or is
\* retried: a deposit in time for both is not ambiguous (allocate).
OpenAmountsDistinct ==
  lapses = 0 =>
    \A r, s \in reservations :
      r.amount = s.amount /\ r.expiresAt > now /\ s.expiresAt > now => r = s

\* "Uses a Redis lock to prevent concurrent race on the same slot": the same,
\* with a holder slower than the lock's time to live.
SlotsNotShared ==
  \A r, s \in reservations :
    r.amount = s.amount /\ r.expiresAt > now /\ s.expiresAt > now => r = s

\* The amount of an expired invoice stays reserved through its cooldown, "so a
\* late straggler still attributes correctly": a deposit of that amount matches
\* the reservation of nobody else (matchDeposit).
StragglersAttribute ==
  \A r \in reservations :
    r.expiresAt <= now /\ now < r.cooldownUntil => Matches(r.amount) = {r}

\* The payer is never charged more steps above the quote than there are other
\* reservations at the address.
SurchargeBounded ==
  \A r \in reservations : r.amount - r.quote <= Cardinality(reservations) - 1

\* A lock is never left behind: the pool becomes available again after every
\* crash and every failure.
LockIsFreed == lock # None ~> lock = None
=============================================================================
