-------------------------- MODULE AmountPool_proofs --------------------------
(***************************************************************************)
(* Theorems about AmountPool, for every number of requests, invoices,      *)
(* ticks, crashes and lapsed locks.                                        *)
(***************************************************************************)
EXTENDS AmountPool, FiniteSetTheorems, TLAPS

\* While no lock has expired under its holder, a call that is under way holds
\* the lock, and a call about to insert holds an amount no open reservation has.
Exclusive ==
  lapses = 0 =>
    \A w \in Workers :
      /\ call[w].pc # "idle" => lock = w
      /\ call[w].pc = "create" =>
           \A r \in reservations : r.expiresAt > now => r.amount # call[w].candidate

\* A call that is under way is for an invoice and a quote that exist.
CallsServe ==
  \A w \in Workers :
    call[w].pc # "idle" => call[w].invoice \in Invoices /\ call[w].quote \in Quotes

PoolInv == PoolTypeOK /\ CallsServe /\ Exclusive /\ OpenAmountsDistinct

\* The invariant holds of an empty pool.
LEMMA InitPoolInv == Init => PoolInv
BY PoolBounds DEF Init, PoolInv, PoolTypeOK, CallsServe, Exclusive, OpenAmountsDistinct, Resting

\* The end of a cooldown is a tick.
LEMMA CooldownType ==
  ASSUME PoolTypeOK, NEW i \in Invoices PROVE CooldownUntil(i) \in Nat
BY DEF PoolTypeOK, CooldownUntil

\* Every step of every request, every failure and the clock keep the invariant.
LEMMA NextPoolInv == PoolInv /\ [Next]_vars => PoolInv'
<1> SUFFICES ASSUME PoolInv, [Next]_vars PROVE PoolInv'
  OBVIOUS
<1> USE WorkersAreNotNone, QuotesAssumption DEF PoolInv
<1>1. ASSUME NEW w \in Workers, NEW i \in Invoices, NEW q \in Quotes, Acquire(w, i, q)
      PROVE  PoolInv'
  <2>1. PoolTypeOK'
    BY <1>1, CooldownType DEF Acquire, PoolTypeOK
  <2>2. CallsServe'
    BY <1>1 DEF Acquire, PoolTypeOK, CallsServe
  <2>3. Exclusive'
    BY <1>1 DEF Acquire, PoolTypeOK, Exclusive
  <2> QED BY <1>1, <2>1, <2>2, <2>3 DEF Acquire, OpenAmountsDistinct
<1>2. ASSUME NEW w \in Workers, ReadReserved(w) PROVE PoolInv'
  <2>1. PICK a \in call[w].quote..(call[w].quote + 1 + Cardinality(Reserved)) :
          /\ FirstFree(call[w].quote, Reserved, a)
          /\ call' = [call EXCEPT ![w].pc = "create", ![w].candidate = a]
    BY <1>2 DEF ReadReserved
  <2>2. a \in Nat /\ a \notin Reserved
    <3>1. call[w].quote \in Nat
      BY DEF PoolTypeOK
    <3> QED BY <2>1, <3>1 DEF FirstFree
  <2>3. PoolTypeOK'
    <3>1. UNCHANGED <<now, deadline, reservations, lock, lapses, crashes>>
      BY <1>2 DEF ReadReserved
    <3> DEFINE next == [call[w] EXCEPT !.pc = "create", !.candidate = a]
    <3>2. call' = [call EXCEPT ![w] = next]
      BY <2>1
    <3>3. next \in [pc : {"idle", "read", "create", "release"},
                    invoice : Invoices \cup {None}, quote : Nat,
                    candidate : Nat, cooldownUntil : Nat]
      BY <2>2 DEF PoolTypeOK
    <3> HIDE DEF next
    <3> QED BY <3>1, <3>2, <3>3 DEF PoolTypeOK
  <2>4. CallsServe'
    BY <1>2, <2>1 DEF ReadReserved, PoolTypeOK, CallsServe
  <2>5. \A r \in reservations : r.expiresAt > now => r.amount # a
    BY <2>2 DEF Reserved
  <2>6. Exclusive'
    BY <1>2, <2>1, <2>5 DEF ReadReserved, PoolTypeOK, Exclusive
  <2> QED BY <1>2, <2>3, <2>4, <2>6 DEF ReadReserved, OpenAmountsDistinct
<1>3. ASSUME NEW w \in Workers, Create(w) PROVE PoolInv'
  <2> DEFINE c == call[w]
             row == [invoice |-> c.invoice, quote |-> c.quote, amount |-> c.candidate,
                     expiresAt |-> deadline[c.invoice], cooldownUntil |-> c.cooldownUntil]
  <2>1. c.invoice \in Invoices /\ c.quote \in Quotes /\ row \in Reservation
    BY <1>3 DEF Create, PoolTypeOK, CallsServe, Reservation
  <2>2. reservations' \subseteq reservations \cup {row}
    BY <1>3 DEF Create
  <2>3. PoolTypeOK'
    BY <1>3, <2>1, <2>2 DEF Create, PoolTypeOK
  <2>4. CallsServe'
    BY <1>3 DEF Create, PoolTypeOK, CallsServe
  <2>5. Exclusive'
    BY <1>3 DEF Create, PoolTypeOK, Exclusive
  <2>6. OpenAmountsDistinct'
    <3> SUFFICES ASSUME lapses = 0, NEW r \in reservations', NEW s \in reservations',
                        r.amount = s.amount, r.expiresAt > now, s.expiresAt > now
                 PROVE  r = s
      BY <1>3 DEF Create, OpenAmountsDistinct
    <3>1. \A x \in reservations : x.expiresAt > now => x.amount # c.candidate
      BY <1>3 DEF Create, Exclusive
    <3>2. row.amount = c.candidate
      OBVIOUS
    <3> HIDE DEF row
    <3> QED BY <2>2, <3>1, <3>2 DEF OpenAmountsDistinct
  <2> QED BY <2>3, <2>4, <2>5, <2>6
<1>4. ASSUME NEW w \in Workers, Release(w) PROVE PoolInv'
  <2>1. PoolTypeOK'
    BY <1>4 DEF Release, PoolTypeOK, Resting
  <2>2. CallsServe' /\ Exclusive'
    BY <1>4 DEF Release, PoolTypeOK, CallsServe, Exclusive, Resting
  <2> QED BY <1>4, <2>1, <2>2 DEF Release, OpenAmountsDistinct
<1>5. ASSUME NEW w \in Workers, Fail(w) PROVE PoolInv'
  <2>1. PoolTypeOK'
    BY <1>5 DEF Fail, PoolTypeOK
  <2>2. CallsServe' /\ Exclusive'
    BY <1>5 DEF Fail, PoolTypeOK, CallsServe, Exclusive
  <2> QED BY <1>5, <2>1, <2>2 DEF Fail, OpenAmountsDistinct
<1>6. ASSUME NEW w \in Workers, Crash(w) PROVE PoolInv'
  <2>1. PoolTypeOK'
    BY <1>6 DEF Crash, PoolTypeOK, Resting
  <2>2. CallsServe' /\ Exclusive'
    BY <1>6 DEF Crash, PoolTypeOK, CallsServe, Exclusive, Resting
  <2> QED BY <1>6, <2>1, <2>2 DEF Crash, OpenAmountsDistinct
<1>7. ASSUME Lapse PROVE PoolInv'
  <2>1. PoolTypeOK' /\ CallsServe'
    BY <1>7 DEF Lapse, PoolTypeOK, CallsServe
  <2>2. Exclusive'
    BY <1>7 DEF Lapse, PoolTypeOK, Exclusive
  <2> QED BY <1>7, <2>1, <2>2 DEF Lapse, PoolTypeOK, OpenAmountsDistinct
<1>8. ASSUME Tick PROVE PoolInv'
  <2>1. PoolTypeOK' /\ CallsServe'
    BY <1>8 DEF Tick, PoolTypeOK, CallsServe
  <2>2. \A r \in reservations : r.expiresAt > now' => r.expiresAt > now
    BY <1>8 DEF Tick, PoolTypeOK, Reservation
  <2>3. Exclusive'
    BY <1>8, <2>2 DEF Tick, Exclusive
  <2>4. OpenAmountsDistinct'
    BY <1>8, <2>2 DEF Tick, OpenAmountsDistinct
  <2> QED BY <2>1, <2>3, <2>4
<1>9. CASE UNCHANGED vars
  BY <1>9 DEF vars, PoolTypeOK, CallsServe, Exclusive, OpenAmountsDistinct
<1> QED BY <1>1, <1>2, <1>3, <1>4, <1>5, <1>6, <1>7, <1>8, <1>9 DEF Next, Step

\* The inductive invariant of allocate(): the lock excludes, and a candidate stays
\* free until it is inserted.
THEOREM PoolInvariance == Spec => []PoolInv
BY InitPoolInv, NextPoolInv, PTL DEF Spec

\* Open invoices at one address never ask for the same amount, for any number
\* of concurrent, failing and crashing allocate() calls, while no lock expires
\* under its holder.
THEOREM DepositsAreDistinguishable == Spec => []OpenAmountsDistinct
<1>1. PoolInv => OpenAmountsDistinct
  BY DEF PoolInv
<1> QED BY <1>1, PoolInvariance, PTL

-----------------------------------------------------------------------------
\* What the surcharge rests on: the rows are finitely many, none is above its
\* quote by more than the others are many, and neither is an amount a call is
\* about to insert.
WithinOthers(a, q, rows) == a <= q + Cardinality(rows)

SurchargeInv ==
  /\ IsFiniteSet(reservations)
  /\ \A w \in Workers :
       call[w].pc = "create" => WithinOthers(call[w].candidate, call[w].quote, reservations)
  /\ SurchargeBounded

\* There are no more amounts in use than rows.
LEMMA ReservedFewer ==
  ASSUME IsFiniteSet(reservations)
  PROVE  /\ IsFiniteSet(Reserved) /\ Cardinality(Reserved) \in Nat
         /\ Cardinality(reservations) \in Nat
         /\ Cardinality(Reserved) <= Cardinality(reservations)
<1> DEFINE open == {x \in reservations : x.expiresAt > now}
           amountOf == [x \in open |-> x.amount]
<1>1. open \in SUBSET reservations /\ IsFiniteSet(open) /\ Cardinality(open) <= Cardinality(reservations)
  <2>1. open \in SUBSET reservations
    OBVIOUS
  <2> HIDE DEF open
  <2> QED BY <2>1, FS_Subset
<1>2. Reserved = {r.amount : r \in open}
  BY DEF Reserved
<1> HIDE DEF open
<1>3. amountOf \in Surjection(open, Reserved)
  BY <1>2 DEF Surjection
<1>4. IsFiniteSet(Reserved) /\ Cardinality(Reserved) <= Cardinality(open)
  <2> HIDE DEF amountOf
  <2> QED BY <1>1, <1>3, FS_Surjection
<1>5. /\ Cardinality(Reserved) \in Nat /\ Cardinality(open) \in Nat
      /\ Cardinality(reservations) \in Nat
  BY <1>1, <1>4, FS_CardinalityType
<1> QED BY <1>1, <1>4, <1>5

\* A new row makes every bound larger by one.
LEMMA OneMoreRow ==
  ASSUME IsFiniteSet(reservations), NEW row, row \notin reservations
  PROVE  /\ IsFiniteSet(reservations \cup {row})
         /\ Cardinality(reservations) \in Nat
         /\ Cardinality(reservations \cup {row}) = Cardinality(reservations) + 1
BY FS_AddElement, FS_CardinalityType

\* Every step of every request keeps the bounds: only a new row changes them.
LEMMA NextSurcharge == PoolInv /\ SurchargeInv /\ [Next]_vars => SurchargeInv'
<1> SUFFICES ASSUME PoolInv, SurchargeInv, [Next]_vars PROVE SurchargeInv'
  OBVIOUS
<1> USE DEF PoolInv
<1>1. ASSUME NEW w \in Workers, ReadReserved(w) PROVE SurchargeInv'
  <2>1. PICK a \in call[w].quote..(call[w].quote + 1 + Cardinality(Reserved)) :
          /\ FirstFree(call[w].quote, Reserved, a)
          /\ call' = [call EXCEPT ![w].pc = "create", ![w].candidate = a]
    BY <1>1 DEF ReadReserved
  <2>2. call[w].quote \in Nat
    BY DEF PoolTypeOK
  <2>3. WithinOthers(a, call[w].quote, reservations)
    BY <2>1, <2>2, ReservedFewer DEF FirstFree, SurchargeInv, WithinOthers
  <2>4. UNCHANGED reservations
    BY <1>1 DEF ReadReserved
  <2>5. ASSUME NEW v \in Workers, call'[v].pc = "create"
        PROVE  WithinOthers(call'[v].candidate, call'[v].quote, reservations')
    BY <2>1, <2>3, <2>4, <2>5 DEF SurchargeInv, PoolTypeOK
  <2> QED BY <2>4, <2>5 DEF SurchargeInv, SurchargeBounded, WithinOthers
<1>2. ASSUME NEW w \in Workers, Create(w) PROVE SurchargeInv'
  <2> DEFINE c == call[w]
             row == [invoice |-> c.invoice, quote |-> c.quote, amount |-> c.candidate,
                     expiresAt |-> deadline[c.invoice], cooldownUntil |-> c.cooldownUntil]
  <2>1. call' = [call EXCEPT ![w].pc = "release"]
    BY <1>2 DEF Create
  <2>2. CASE reservations' = reservations
    BY <2>1, <2>2 DEF SurchargeInv, SurchargeBounded, WithinOthers, PoolTypeOK
  <2>3. CASE reservations' # reservations
    <3>1. reservations' = reservations \cup {row} /\ ~ \E r \in reservations : r.invoice = c.invoice
      BY <1>2, <2>3 DEF Create
    <3>2. row \notin reservations /\ row.invoice = c.invoice
      BY <3>1
    <3>3. /\ IsFiniteSet(reservations')
          /\ Cardinality(reservations) \in Nat
          /\ Cardinality(reservations') = Cardinality(reservations) + 1
      <4> HIDE DEF row
      <4> QED BY <3>1, <3>2, OneMoreRow DEF SurchargeInv
    <3>4. WithinOthers(row.amount, row.quote, reservations) /\ row.amount \in Nat /\ row.quote \in Nat
      BY <1>2 DEF Create, SurchargeInv, PoolTypeOK
    <3>5. ASSUME NEW v \in Workers, call'[v].pc = "create"
          PROVE  WithinOthers(call'[v].candidate, call'[v].quote, reservations')
      <4>1. call'[v] = call[v] /\ call[v].candidate \in Nat /\ call[v].quote \in Nat
        BY <2>1, <3>5 DEF PoolTypeOK
      <4> QED BY <3>3, <3>5, <4>1 DEF SurchargeInv, WithinOthers
    <3>6. ASSUME NEW r \in reservations' PROVE r.amount - r.quote <= Cardinality(reservations') - 1
      <4>1. CASE r = row
        <5> HIDE DEF row
        <5> QED BY <3>3, <3>4, <4>1 DEF WithinOthers
      <4>2. CASE r \in reservations
        <5>1. r.amount \in Nat /\ r.quote \in Nat
          BY <4>2, QuotesAssumption DEF PoolTypeOK, Reservation
        <5>2. r.amount - r.quote <= Cardinality(reservations) - 1
          BY <4>2 DEF SurchargeInv, SurchargeBounded
        <5> QED BY <3>3, <5>1, <5>2
      <4> QED BY <3>1, <4>1, <4>2
    <3> QED BY <3>3, <3>5, <3>6 DEF SurchargeInv, SurchargeBounded
  <2> QED BY <2>2, <2>3
<1>3. ASSUME UNCHANGED reservations, \A w \in Workers : call'[w].pc = "create" => call'[w] = call[w]
      PROVE  SurchargeInv'
  BY <1>3 DEF SurchargeInv, SurchargeBounded, WithinOthers
<1>4. ASSUME NEW w \in Workers, NEW i \in Invoices, NEW q \in Quotes, Acquire(w, i, q)
      PROVE  SurchargeInv'
  BY <1>3, <1>4 DEF Acquire, PoolTypeOK
<1>5. ASSUME NEW w \in Workers, Release(w) \/ Fail(w) \/ Crash(w) PROVE SurchargeInv'
  BY <1>3, <1>5 DEF Release, Fail, Crash, PoolTypeOK, Resting
<1>6. CASE Lapse \/ Tick \/ UNCHANGED vars
  BY <1>3, <1>6 DEF Lapse, Tick, vars
<1> QED BY <1>1, <1>2, <1>4, <1>5, <1>6 DEF Next, Step

\* The payer is never charged more steps above the quote than there are other
\* reservations at the address, whatever lapses, fails or crashes: the search of
\* allocate() stops within the rows it read, and rows are only added.
THEOREM SurchargeIsBounded == Spec => []SurchargeBounded
<1>1. Init => SurchargeInv
  BY FS_EmptySet DEF Init, SurchargeInv, SurchargeBounded, Resting
<1>2. SurchargeInv => SurchargeBounded
  BY DEF SurchargeInv
<1> QED BY <1>1, <1>2, NextSurcharge, PoolInvariance, PTL DEF Spec
=============================================================================
