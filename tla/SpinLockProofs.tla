--------------------------- MODULE SpinLockProofs ---------------------------
(***************************************************************************)
(* Proof that the ticket lock excludes and is first come, first served,    *)
(* for any number of processes and any width of the counters.              *)
(*                                                                         *)
(* The counters wrap, so nothing can be said about the order of tickets;   *)
(* the invariant speaks of their distance from the ticket being served     *)
(* instead, and the number of tickets given out is the number of processes *)
(* that hold one.  That number stays below Modulus because there are more  *)
(* tickets than processes.                                                 *)
(***************************************************************************)
EXTENDS SpinLock, Sequences, FiniteSetTheorems, TLAPS

IInv ==
    /\ TypeOK
    /\ Cardinality(Ticketed) = Dist(ticket, start)
    /\ \A p \in Ticketed : Dist(my[p], start) < Dist(ticket, start)
    /\ \A p, q \in Ticketed : my[p] = my[q] => p = q
    /\ \A p \in Proc : Inside(p) => my[p] = start
    /\ \A p \in Proc : pc[p] = "cas" =>
          Dist(ticket, my[p]) = Dist(start, my[p]) + Dist(ticket, start)

-----------------------------------------------------------------------------
\* The distance of two tickets is a ticket number, and 0 only if they are the
\* same.
LEMMA DistType ==
    ASSUME NEW a \in Tickets, NEW b \in Tickets
    PROVE  /\ Dist(a, b) \in Tickets
           /\ Dist(a, b) \in Nat
           /\ Dist(a, b) < Modulus
           /\ Dist(a, b) = 0 <=> a = b
  BY LockAssumption DEF Tickets, Dist

\* Handing out a ticket (ticket + 1U) moves ticket away from every other
\* ticket by one, unless it comes round to it.
LEMMA DistTake ==
    ASSUME NEW a \in Tickets, NEW b \in Tickets
    PROVE  /\ Succ(a) \in Tickets
           /\ Succ(a) # b => Dist(Succ(a), b) = Dist(a, b) + 1
           /\ Dist(a, b) + 1 < Modulus => Succ(a) # b
  BY LockAssumption DEF Tickets, Dist, Succ

\* Serving the next ticket (lock->start++) moves start one closer to every
\* other ticket.
LEMMA DistServe ==
    ASSUME NEW a \in Tickets, NEW b \in Tickets, a # b
    PROVE  Dist(a, Succ(b)) = Dist(a, b) - 1
  BY LockAssumption DEF Tickets, Dist, Succ

\* Everyone who holds a ticket is one of the processes, so fewer tickets are
\* out than there are.
LEMMA TicketedFinite ==
    /\ IsFiniteSet(Ticketed)
    /\ Cardinality(Ticketed) \in Nat
    /\ Cardinality(Ticketed) <= Cardinality(Proc)
    /\ Cardinality(Proc) \in Nat
  <1>1. Ticketed \subseteq Proc
    BY Zenon DEF Ticketed
  <1> QED
    BY <1>1, LockAssumption, FS_Subset, FS_CardinalityType, Zenon

-----------------------------------------------------------------------------
\* spin_lock_init establishes the invariant.
LEMMA InitInv == Init => IInv
  <1> SUFFICES ASSUME Init PROVE IInv
    BY Zenon
  <1>1. TypeOK
    BY LockAssumption, FS_CardinalityType DEF Init, TypeOK, Tickets
  <1>2. Ticketed = {}
    BY Zenon DEF Init, Ticketed
  <1>3. Cardinality(Ticketed) = Dist(ticket, start)
    BY <1>2, FS_EmptySet DEF Init, Dist
  <1> QED
    BY <1>1, <1>2, <1>3, Zenon DEF IInv, Init, Inside

\* spin_trylock's read of the ticket being served.
LEMMA TrylockLoadInv ==
    ASSUME IInv, NEW p \in Proc, trylock_load(p)
    PROVE  IInv'
  <1>1. /\ start' = start /\ ticket' = ticket
        /\ my' = [my EXCEPT ![p] = start]
        /\ pc[p] = "idle" /\ pc' = [pc EXCEPT ![p] = "cas"]
        /\ TypeOK
    BY Zenon DEF trylock_load, goto, IInv
  <1>2. TypeOK'
    BY <1>1, Zenon DEF TypeOK
  <1>3. Ticketed' = Ticketed /\ \A q \in Ticketed : my'[q] = my[q]
    BY <1>1, Zenon DEF Ticketed, TypeOK
  <1>4. Dist(start, start) = 0
    BY <1>1, DistType, Zenon DEF TypeOK
  <1>5. \A q \in Proc : Inside(q)' => my'[q] = start'
    BY <1>1, Zenon DEF IInv, Inside, TypeOK
  <1>6. \A q \in Proc : pc'[q] = "cas" =>
            Dist(ticket', my'[q]) = Dist(start', my'[q]) + Dist(ticket', start')
    <2> SUFFICES ASSUME NEW q \in Proc, pc'[q] = "cas"
                 PROVE  Dist(ticket', my'[q])
                            = Dist(start', my'[q]) + Dist(ticket', start')
      BY Zenon
    <2>1. CASE q = p
      <3>1. my'[p] = start /\ Dist(ticket, start) \in Nat
        BY <1>1, DistType, Zenon DEF TypeOK
      <3> QED
        BY <1>1, <1>4, <2>1, <3>1
    <2>2. CASE q # p
      BY <1>1, <2>2, Zenon DEF IInv, TypeOK
    <2> QED
      BY <2>1, <2>2, Zenon
  <1> QED
    BY <1>1, <1>2, <1>3, <1>5, <1>6 DEF IInv, Dist

\* A process that takes the next ticket, by either function, holds the last
\* of them, and there is one more.
LEMMA TakeTicket ==
    ASSUME IInv, NEW p \in Proc, p \notin Ticketed, NoLap(p),
           NEW l \in {"spin", "cs"},
           pc' = [pc EXCEPT ![p] = l],
           my' = [my EXCEPT ![p] = ticket],
           ticket' = Succ(ticket), start' = start,
           l = "cs" => ticket = start
    PROVE  IInv'
  <1>1. TypeOK /\ TypeOK'
    BY DistTake, Zenon DEF IInv, TypeOK
  <1>2. Ticketed' = Ticketed \cup {p}
    BY <1>1, Zenon DEF Ticketed, TypeOK
  <1>3. /\ Cardinality(Ticketed') = Cardinality(Ticketed) + 1
        /\ Cardinality(Ticketed') <= Cardinality(Proc)
    <2>1. Cardinality(Ticketed') = Cardinality(Ticketed) + 1
      BY <1>2, TicketedFinite, FS_AddElement, Zenon
    <2>2. Ticketed' \subseteq Proc
      BY Zenon DEF Ticketed
    <2> QED
      BY <2>1, <2>2, LockAssumption, FS_Subset, Zenon
  <1>4. /\ Dist(ticket, start) \in Nat
        /\ Dist(ticket, start) + 1 < Modulus
    BY <1>1, <1>3, TicketedFinite, LockAssumption, DistType DEF IInv, TypeOK
  <1>5. Dist(ticket', start') = Dist(ticket, start) + 1
    BY <1>1, <1>4, DistTake, Zenon DEF TypeOK
  <1>6. my'[p] = ticket /\ \A q \in Proc \ {p} : my'[q] = my[q] /\ pc'[q] = pc[q]
    BY <1>1, Zenon DEF TypeOK
  <1>7. \A q \in Ticketed' : Dist(my'[q], start') < Dist(ticket', start')
    <2> SUFFICES ASSUME NEW q \in Ticketed'
                 PROVE  Dist(my'[q], start) < Dist(ticket, start) + 1
      BY <1>5, Zenon
    <2>1. CASE q = p
      BY <1>4, <1>6, <2>1
    <2>2. CASE q # p
      <3>1. q \in Ticketed /\ q \in Proc \ {p}
        BY <1>2, <2>2, Zenon DEF Ticketed
      <3>2. Dist(my[q], start) < Dist(ticket, start) /\ Dist(my[q], start) \in Nat
        BY <1>1, <3>1, DistType, Zenon DEF IInv, TypeOK
      <3> QED
        BY <1>4, <1>6, <3>1, <3>2
    <2> QED
      BY <2>1, <2>2, Zenon
  <1>8. \A q \in Ticketed : my[q] # ticket
    BY <1>4 DEF IInv
  <1>9. \A q, r \in Ticketed' : my'[q] = my'[r] => q = r
    BY <1>2, <1>6, <1>8 DEF IInv, Ticketed
  <1>10. \A q \in Proc : Inside(q)' => my'[q] = start'
    BY <1>1, <1>6, Zenon DEF IInv, Inside, TypeOK
  <1>11. \A q \in Proc : pc'[q] = "cas" =>
            Dist(ticket', my'[q]) = Dist(start', my'[q]) + Dist(ticket', start')
    <2> SUFFICES ASSUME NEW q \in Proc, pc'[q] = "cas"
                 PROVE  Dist(ticket', my'[q])
                            = Dist(start', my'[q]) + Dist(ticket', start')
      BY Zenon
    <2>1. q # p /\ pc[q] = "cas" /\ my'[q] = my[q]
      BY <1>1, <1>6, Zenon DEF TypeOK
    <2>2. Dist(Succ(ticket), my[q]) = Dist(ticket, my[q]) + 1
      BY <1>1, <2>1, DistTake, Zenon DEF NoLap, TypeOK
    <2>3. /\ Dist(ticket, my[q]) = Dist(start, my[q]) + Dist(ticket, start)
          /\ Dist(start, my[q]) \in Nat
      BY <1>1, <2>1, DistType, Zenon DEF IInv, TypeOK
    <2> QED
      BY <1>4, <1>5, <2>1, <2>2, <2>3
  <1>12. Cardinality(Ticketed)' = Dist(ticket, start)'
    BY <1>3, <1>5, Zenon DEF IInv, Dist
  <1> QED
    BY <1>1, <1>7, <1>9, <1>10, <1>11, <1>12, Zenon DEF IInv, Dist

\* spin_trylock's exchange: when it succeeds, the ticket read is still the
\* one being served and nobody holds a ticket.
LEMMA TrylockCasInv ==
    ASSUME IInv, NEW p \in Proc, trylock_cas(p)
    PROVE  IInv'
  <1>1. TypeOK /\ pc[p] = "cas" /\ p \notin Ticketed
    BY Zenon DEF trylock_cas, IInv, Ticketed
  <1>2. CASE ticket = my[p]
    <2>1. /\ Dist(ticket, my[p]) = 0
          /\ Dist(start, my[p]) \in Nat /\ Dist(ticket, start) \in Nat
          /\ Dist(ticket, start) = 0 <=> ticket = start
      BY <1>1, <1>2, DistType, Zenon DEF TypeOK
    <2>2. Dist(ticket, my[p]) = Dist(start, my[p]) + Dist(ticket, start)
      BY <1>1, Zenon DEF IInv
    <2>3. ticket = start
      BY <2>1, <2>2
    <2>4. my' = [my EXCEPT ![p] = ticket]
      BY <1>1, <1>2, Zenon DEF trylock_cas, TypeOK
    <2> QED
      BY <1>1, <1>2, <2>3, <2>4, TakeTicket, Zenon DEF trylock_cas, goto
  <1>3. CASE ticket # my[p]
    <2>1. /\ pc' = [pc EXCEPT ![p] = "idle"]
          /\ start' = start /\ ticket' = ticket /\ my' = my
      BY <1>3, Zenon DEF trylock_cas, goto
    <2>2. TypeOK' /\ Ticketed' = Ticketed
      BY <1>1, <2>1, Zenon DEF TypeOK, Ticketed
    <2>3. \A q \in Proc : /\ Inside(q)' => Inside(q)
                          /\ pc'[q] = "cas" => pc[q] = "cas"
      BY <1>1, <2>1, Zenon DEF TypeOK, Inside
    <2> QED
      BY <2>1, <2>2, <2>3, Zenon DEF IInv, Dist
  <1> QED
    BY <1>2, <1>3, Zenon

\* spin_lock's fetch-and-add.
LEMMA FetchAddInv ==
    ASSUME IInv, NEW p \in Proc, lock_fetch_add(p)
    PROVE  IInv'
  <1>1. p \notin Ticketed
    BY Zenon DEF lock_fetch_add, Ticketed
  <1> QED
    BY <1>1, TakeTicket, Zenon DEF lock_fetch_add, goto

\* spin_lock sees its ticket served; spin_unlock reads the counter.
LEMMA StayTicketed ==
    ASSUME IInv, NEW p \in Proc, lock_spin(p) \/ unlock_load(p)
    PROVE  IInv'
  <1>1. /\ TypeOK /\ my[p] = start /\ p \in Ticketed
        /\ start' = start /\ ticket' = ticket
    BY Zenon DEF lock_spin, unlock_load, IInv, Inside, Ticketed
  <1>2. my' = my
    BY <1>1, Zenon DEF lock_spin, unlock_load, TypeOK
  <1>3. PICK l \in {"cs", "store"} : pc' = [pc EXCEPT ![p] = l]
    BY Zenon DEF lock_spin, unlock_load, goto
  <1>4. TypeOK'
    BY <1>1, <1>2, <1>3, Zenon DEF TypeOK
  <1>5. Ticketed' = Ticketed
    BY <1>1, <1>3, Zenon DEF TypeOK, Ticketed
  <1>6. \A q \in Proc : /\ Inside(q)' => Inside(q) \/ q = p
                        /\ pc'[q] = "cas" => pc[q] = "cas"
    BY <1>1, <1>3, Zenon DEF TypeOK, Inside
  <1> QED
    BY <1>1, <1>2, <1>4, <1>5, <1>6, Zenon DEF IInv, Dist

\* spin_unlock's write: the counter still has the value that was read, and
\* everyone who waits is one closer.
LEMMA UnlockStoreInv ==
    ASSUME IInv, NEW p \in Proc, unlock_store(p)
    PROVE  IInv'
  <1>1. /\ TypeOK /\ my[p] = start /\ p \in Ticketed /\ Inside(p)
        /\ start' = Succ(start) /\ ticket' = ticket /\ my' = my
        /\ pc' = [pc EXCEPT ![p] = "idle"]
    BY Zenon DEF unlock_store, goto, IInv, Inside, Ticketed
  <1>2. TypeOK'
    BY <1>1, DistTake, Zenon DEF TypeOK
  <1>3. Ticketed' = Ticketed \ {p}
    BY <1>1, Zenon DEF TypeOK, Ticketed
  <1>4. Cardinality(Ticketed') = Cardinality(Ticketed) - 1
    BY <1>1, <1>3, TicketedFinite, FS_RemoveElement, Zenon
  <1>5. Dist(ticket, start) \in Nat /\ Dist(ticket, start) > 0 /\ ticket # start
    <2>1. Dist(my[p], start) < Dist(ticket, start)
      BY <1>1, Zenon DEF IInv
    <2> QED
      BY <1>1, <2>1, DistType DEF TypeOK
  <1>6. Dist(ticket', start') = Dist(ticket, start) - 1
    BY <1>1, <1>5, DistServe, Zenon DEF TypeOK
  <1>7. \A q \in Ticketed' : my[q] # start
    BY <1>1, <1>3, Zenon DEF IInv
  <1>8. \A q \in Ticketed' : Dist(my'[q], start') < Dist(ticket', start')
    <2> SUFFICES ASSUME NEW q \in Ticketed'
                 PROVE  Dist(my[q], Succ(start)) < Dist(ticket, start) - 1
      BY <1>1, <1>6, Zenon
    <2>1. q \in Proc /\ q \in Ticketed
      BY <1>3, Zenon DEF Ticketed
    <2>2. Dist(my[q], Succ(start)) = Dist(my[q], start) - 1
      BY <1>1, <1>7, <2>1, DistServe, Zenon DEF TypeOK
    <2>3. Dist(my[q], start) < Dist(ticket, start) /\ Dist(my[q], start) \in Nat
      BY <1>1, <2>1, DistType, Zenon DEF IInv, TypeOK
    <2> QED
      BY <1>5, <2>2, <2>3
  <1>9. \A q, r \in Ticketed' : my'[q] = my'[r] => q = r
    BY <1>1, <1>3, Zenon DEF IInv
  <1>10. \A q \in Proc : ~Inside(q)'
    BY <1>1, <1>7, Zenon DEF IInv, Inside, TypeOK, Ticketed
  <1>11. \A q \in Proc : pc'[q] = "cas" =>
            Dist(ticket', my'[q]) = Dist(start', my'[q]) + Dist(ticket', start')
    <2> SUFFICES ASSUME NEW q \in Proc, pc'[q] = "cas"
                 PROVE  Dist(ticket, my[q])
                            = Dist(Succ(start), my[q]) + Dist(ticket, start) - 1
      BY <1>1, <1>6, <1>5, <1>2, DistType DEF TypeOK
    <2>1. pc[q] = "cas" /\ my[q] \in Tickets
      BY <1>1, Zenon DEF TypeOK
    <2>2. /\ Dist(ticket, my[q]) = Dist(start, my[q]) + Dist(ticket, start)
          /\ Dist(start, my[q]) \in Nat
          /\ Dist(ticket, my[q]) < Modulus
      BY <1>1, <2>1, DistType, Zenon DEF IInv, TypeOK
    <2>3. Dist(ticket, start) = 1 \/ Succ(start) # my[q]
      <3> SUFFICES ASSUME Dist(ticket, start) # 1
                   PROVE  Dist(start, my[q]) + 1 < Modulus
        BY <1>1, <2>1, DistTake, Zenon DEF TypeOK
      <3> QED
        BY <1>5, <2>2, LockAssumption
    <2>4. Succ(start) # my[q]
      <3> SUFFICES ASSUME Succ(start) = my[q], Dist(ticket, start) = 1
                   PROVE  FALSE
        BY <2>3, Zenon
      <3>1. ticket = Succ(start)
        BY <1>1, <1>2, <1>5, <1>6, DistType DEF TypeOK
      <3>2. Dist(ticket, my[q]) = 0
        BY <3>1, <1>1, <2>1, DistType, Zenon DEF TypeOK
      <3> QED
        BY <2>2, <3>2
    <2>5. Dist(Succ(start), my[q]) = Dist(start, my[q]) + 1
      BY <1>1, <2>1, <2>4, DistTake, Zenon DEF TypeOK
    <2> QED
      BY <1>5, <2>2, <2>5
  <1>12. Cardinality(Ticketed)' = Dist(ticket, start)'
    BY <1>4, <1>6, Zenon DEF IInv, Dist
  <1> QED
    BY <1>2, <1>8, <1>9, <1>10, <1>11, <1>12, Zenon DEF IInv, Dist

-----------------------------------------------------------------------------
\* Every access to the lock preserves the invariant.
LEMMA NextInv == IInv /\ [Next]_vars => IInv'
  <1> SUFFICES ASSUME IInv, [Next]_vars PROVE IInv'
    BY Zenon
  <1>1. ASSUME NEW p \in Proc, step(p) PROVE IInv'
    BY <1>1, TrylockLoadInv, TrylockCasInv, FetchAddInv, StayTicketed,
       UnlockStoreInv, Zenon DEF step
  <1>2. CASE UNCHANGED vars
    BY <1>2, Zenon DEF vars, IInv, TypeOK, Ticketed, Inside, Dist
  <1> QED
    BY <1>1, <1>2, Zenon DEF Next

\* The invariant of the ticket lock holds in every reachable state.
THEOREM Invariance == Spec => []IInv
  BY InitInv, NextInv, PTL DEF Spec

\* Tickets stay within unsigned int.
THEOREM TypeCorrect == Spec => []TypeOK
  <1>1. IInv => TypeOK
    BY Zenon DEF IInv
  <1> QED
    BY <1>1, Invariance, PTL

\* spin_lock, spin_trylock and spin_unlock exclude: two processes that are
\* both inside hold the ticket being served, and tickets are distinct.
THEOREM Exclusion == Spec => []MutualExclusion
  <1>1. IInv => MutualExclusion
    BY Zenon DEF IInv, MutualExclusion, Inside, Ticketed
  <1> QED
    BY <1>1, Invariance, PTL

-----------------------------------------------------------------------------
(***************************************************************************)
(* The lock implements FifoLock.                                           *)
(***************************************************************************)

held == \E p \in Proc : Inside(p)

\* The queue has a place for every ticket that is out.
LEMMA QueueShape ==
    ASSUME IInv
    PROVE  /\ queue \in Seq(SUBSET Proc)
           /\ Len(queue) = Dist(ticket, start)
           /\ \A i \in 1..Len(queue) :
                 queue[i] = {p \in Ticketed : Dist(my[p], start) = i - 1}
  <1>1. Cardinality(Ticketed) \in Nat /\ Ticketed \subseteq Proc
    BY TicketedFinite, Zenon DEF Ticketed
  <1> QED
    BY <1>1 DEF IInv, queue

\* ... and so it has after a step.
LEMMA QueueShapeNext ==
    ASSUME IInv'
    PROVE  /\ queue' \in Seq(SUBSET Proc)
           /\ Len(queue') = Dist(ticket', start')
           /\ \A i \in 1..Len(queue') :
                 queue'[i] = {p \in Ticketed' : Dist(my'[p], start') = i - 1}
  <1>1. Cardinality(Ticketed') \in Nat /\ Ticketed' \subseteq Proc
    <2>1. Ticketed' \subseteq Proc
      BY Zenon DEF Ticketed
    <2> QED
      BY <2>1, LockAssumption, FS_Subset, FS_CardinalityType, Zenon
  <1>2. Cardinality(Ticketed') = Dist(ticket', start')
    BY Zenon DEF IInv, Dist
  <1>3. queue' = [i \in 1..Cardinality(Ticketed') |->
                     {p \in Ticketed' : Dist(my'[p], start') = i - 1}]
    BY Zenon DEF queue, Dist
  <1> QED
    BY <1>1, <1>2, <1>3

\* Sequences are equal that have the same length and the same elements.
LEMMA SameSeq ==
    ASSUME NEW S, NEW s \in Seq(S), NEW t \in Seq(S), Len(s) = Len(t),
           \A i \in 1..Len(s) : s[i] = t[i]
    PROVE  s = t
  OBVIOUS

\* A step that leaves the tickets alone leaves the queue alone.
LEMMA QueueStays ==
    ASSUME Ticketed' = Ticketed, start' = start,
           \A p \in Ticketed : my'[p] = my[p]
    PROVE  queue' = queue
  BY Zenon DEF queue, Dist

\* A process that takes the next ticket joins the queue at its end.
LEMMA QueueJoin ==
    ASSUME IInv, IInv', NEW p \in Proc, p \notin Ticketed,
           NEW l \in {"spin", "cs"},
           pc' = [pc EXCEPT ![p] = l],
           my' = [my EXCEPT ![p] = ticket], start' = start
    PROVE  /\ queue' = Append(queue, {p})
           /\ \A i \in 1..Len(queue) : queue[i] # {p}
  <1> DEFINE n == Dist(ticket, start)
  <1>1. /\ Ticketed' = Ticketed \cup {p} /\ Ticketed \subseteq Proc
        /\ my'[p] = ticket /\ \A q \in Ticketed : my'[q] = my[q]
    BY DEF IInv, TypeOK, Ticketed
  <1>2. n \in Nat /\ \A q \in Ticketed : Dist(my[q], start) \in 0..(n - 1)
    BY <1>1, DistType DEF IInv, TypeOK
  <1>3. Dist(ticket', start') = n + 1
    <2>1. /\ Cardinality(Ticketed') = Cardinality(Ticketed) + 1
      BY <1>1, TicketedFinite, FS_AddElement, Zenon
    <2>2. Cardinality(Ticketed') = Dist(ticket', start')
      BY Zenon DEF IInv, Dist
    <2> QED
      BY <2>1, <2>2, Zenon DEF IInv
  <1> HIDE DEF n
  <1>4. /\ queue \in Seq(SUBSET Proc) /\ Len(queue) = n
        /\ \A i \in 1..n :
              queue[i] = {q \in Ticketed : Dist(my[q], start) = i - 1}
    BY QueueShape, Zenon DEF n
  <1>5. /\ queue' \in Seq(SUBSET Proc) /\ Len(queue') = n + 1
        /\ \A i \in 1..(n + 1) :
              queue'[i] = {q \in Ticketed' : Dist(my'[q], start) = i - 1}
    BY <1>3, QueueShapeNext
  <1>6. Dist(my'[p], start) = n
    BY <1>1, Zenon DEF n
  <1>7. \A i \in 1..n : queue'[i] = queue[i]
    <2> SUFFICES ASSUME NEW i \in 1..n
                 PROVE  queue'[i] = queue[i]
      BY Zenon
    <2>1. i - 1 # n /\ i \in 1..(n + 1)
      BY <1>2
    <2>2. {q \in Ticketed' : Dist(my'[q], start) = i - 1}
            = {q \in Ticketed : Dist(my[q], start) = i - 1}
      BY <1>1, <1>6, <2>1, Zenon
    <2> QED
      BY <1>4, <1>5, <2>1, <2>2, Zenon
  <1>8. queue'[n + 1] = {p}
    <2>1. {q \in Ticketed' : Dist(my'[q], start) = n} = {p}
      BY <1>1, <1>2, <1>6
    <2> QED
      BY <1>2, <1>5, <2>1
  <1>9. queue' = Append(queue, {p})
    <2>1. /\ Append(queue, {p}) \in Seq(SUBSET Proc)
          /\ Len(Append(queue, {p})) = n + 1
          /\ \A i \in 1..n : Append(queue, {p})[i] = queue[i]
          /\ Append(queue, {p})[n + 1] = {p}
      BY <1>4
    <2> QED
      BY <1>2, <1>5, <1>7, <1>8, <2>1, SameSeq
  <1>10. \A i \in 1..Len(queue) : queue[i] # {p}
    BY <1>4, Zenon
  <1> QED
    BY <1>9, <1>10, Zenon

\* The process that stops being served leaves the queue at its head: the
\* others are one place further on.
LEMMA QueueLeave ==
    ASSUME IInv, IInv', NEW p \in Proc, unlock_store(p)
    PROVE  queue # <<>> /\ queue' = Tail(queue)
  <1> DEFINE n == Dist(ticket, start)
  <1>1. /\ my[p] = start /\ p \in Ticketed /\ Ticketed \subseteq Proc
        /\ start' = Succ(start) /\ ticket' = ticket /\ my' = my
        /\ Ticketed' = Ticketed \ {p}
    BY Zenon DEF unlock_store, goto, IInv, TypeOK, Inside, Ticketed
  <1>2. /\ n \in Nat /\ n > 0 /\ Dist(start, start) = 0
        /\ ticket # start
    <2>1. Dist(my[p], start) < n
      BY <1>1, Zenon DEF IInv
    <2> QED
      BY <1>1, <2>1, DistType DEF IInv, TypeOK
  <1>3. Dist(ticket', start') = n - 1
    BY <1>1, <1>2, DistServe, Zenon DEF IInv, TypeOK
  <1>4. \A q \in Ticketed' :
           /\ Dist(my[q], start) \in Nat /\ Dist(my[q], start) # 0
           /\ Dist(my[q], Succ(start)) = Dist(my[q], start) - 1
    <2> SUFFICES ASSUME NEW q \in Ticketed \ {p}
                 PROVE  /\ Dist(my[q], start) \in Nat
                        /\ Dist(my[q], start) # 0
                        /\ Dist(my[q], Succ(start)) = Dist(my[q], start) - 1
      BY <1>1, Zenon
    <2>1. my[q] \in Tickets /\ start \in Tickets /\ my[q] # start
      BY <1>1, Zenon DEF IInv, TypeOK
    <2> QED
      BY <2>1, DistType, DistServe, Zenon
  <1> HIDE DEF n
  <1>5. /\ queue \in Seq(SUBSET Proc) /\ Len(queue) = n
        /\ \A i \in 1..n :
              queue[i] = {q \in Ticketed : Dist(my[q], start) = i - 1}
    BY QueueShape, Zenon DEF n
  <1>6. /\ queue' \in Seq(SUBSET Proc) /\ Len(queue') = n - 1
        /\ \A i \in 1..(n - 1) :
              queue'[i] = {q \in Ticketed' : Dist(my[q], Succ(start)) = i - 1}
    BY <1>1, <1>3, QueueShapeNext
  <1>7. \A i \in 1..(n - 1) : queue'[i] = queue[i + 1]
    <2> SUFFICES ASSUME NEW i \in 1..(n - 1)
                 PROVE  queue'[i] = queue[i + 1]
      BY Zenon
    <2>1. Dist(my[p], start) # i
      BY <1>1, <1>2
    <2>2. \A q \in Ticketed' :
             Dist(my[q], Succ(start)) = i - 1 <=> Dist(my[q], start) = i
      BY <1>2, <1>4
    <2>3. {q \in Ticketed' : Dist(my[q], Succ(start)) = i - 1}
            = {q \in Ticketed : Dist(my[q], start) = i}
      BY <1>1, <2>1, <2>2, Zenon
    <2>4. i + 1 \in 1..n /\ (i + 1) - 1 = i
      BY <1>2
    <2>5. queue[i + 1] = {q \in Ticketed : Dist(my[q], start) = (i + 1) - 1}
      BY <1>5, <2>4, Zenon
    <2> QED
      BY <1>6, <2>3, <2>4, <2>5, Zenon
  <1>8. /\ Tail(queue) \in Seq(SUBSET Proc) /\ Len(Tail(queue)) = n - 1
        /\ \A i \in 1..(n - 1) : Tail(queue)[i] = queue[i + 1]
        /\ queue # <<>>
    BY <1>2, <1>5
  <1> QED
    BY <1>6, <1>7, <1>8, SameSeq, Zenon

\* One access to the lock is a step of FifoLock or leaves the queue alone.
LEMMA FifoStep ==
    ASSUME IInv, IInv', NEW p \in Proc, step(p)
    PROVE  [Abstract!Next]_<<queue, held>>
  <1>1. CASE trylock_load(p)
    <2>1. /\ Ticketed' = Ticketed /\ start' = start
          /\ \A q \in Ticketed : my'[q] = my[q]
          /\ \A q \in Proc : Inside(q)' <=> Inside(q)
      BY <1>1, Zenon DEF trylock_load, goto, IInv, TypeOK, Ticketed, Inside
    <2> QED
      BY <2>1, QueueStays, Zenon DEF held
  <1>2. CASE trylock_cas(p) /\ ticket # my[p]
    <2>1. /\ Ticketed' = Ticketed /\ start' = start
          /\ \A q \in Ticketed : my'[q] = my[q]
          /\ \A q \in Proc : Inside(q)' <=> Inside(q)
      BY <1>2, Zenon DEF trylock_cas, goto, IInv, TypeOK, Ticketed, Inside
    <2> QED
      BY <2>1, QueueStays, Zenon DEF held
  <1>3. CASE trylock_cas(p) /\ ticket = my[p]
    <2>1. /\ p \notin Ticketed /\ pc' = [pc EXCEPT ![p] = "cs"]
          /\ my' = [my EXCEPT ![p] = ticket] /\ start' = start
      BY <1>3, Zenon DEF trylock_cas, goto, IInv, TypeOK, Ticketed
    <2>2. queue = <<>>
      <3>1. /\ Dist(ticket, my[p]) = 0
            /\ Dist(start, my[p]) \in Nat /\ Dist(ticket, start) \in Nat
        BY <1>3, DistType, Zenon DEF IInv, TypeOK
      <3>2. Dist(ticket, my[p]) = Dist(start, my[p]) + Dist(ticket, start)
        BY <1>3, Zenon DEF IInv, trylock_cas
      <3> QED
        BY <3>1, <3>2, QueueShape
    <2>3. queue' = <<{p}>>
      <3>1. queue' = Append(queue, {p})
        BY <2>1, QueueJoin, Zenon
      <3>2. Append(<<>>, {p}) = <<{p}>>
        OBVIOUS
      <3> QED
        BY <2>2, <3>1, <3>2, Zenon
    <2>4. held'
      BY <2>1, Zenon DEF held, Inside, IInv, TypeOK
    <2> QED
      BY <2>2, <2>3, <2>4, Zenon DEF Abstract!Next, Abstract!TryEnter, held
  <1>4. CASE lock_fetch_add(p)
    <2>1. /\ p \notin Ticketed /\ pc' = [pc EXCEPT ![p] = "spin"]
          /\ my' = [my EXCEPT ![p] = ticket] /\ start' = start
          /\ \A q \in Proc : Inside(q)' <=> Inside(q)
      BY <1>4, Zenon DEF lock_fetch_add, goto, IInv, TypeOK, Ticketed, Inside
    <2>2. /\ queue' = Append(queue, {p})
          /\ \A i \in 1..Len(queue) : queue[i] # {p}
      BY <2>1, QueueJoin, Zenon
    <2>3. held' = held
      BY <2>1, Zenon DEF held
    <2> QED
      BY <2>2, <2>3, Zenon DEF Abstract!Next, Abstract!Ask, held
  <1>5. CASE lock_spin(p)
    <2>1. /\ Ticketed' = Ticketed /\ start' = start /\ my' = my
          /\ p \in Ticketed /\ my[p] = start /\ ~Inside(p) /\ Inside(p)'
      BY <1>5, Zenon DEF lock_spin, goto, IInv, TypeOK, Ticketed, Inside
    <2>2. queue' = queue
      BY <2>1, QueueStays, Zenon
    <2>3. ~held /\ held'
      BY <2>1, Zenon DEF held, IInv, Ticketed, Inside
    <2>4. queue # <<>>
      <3>1. Dist(my[p], start) < Dist(ticket, start)
        BY <2>1, Zenon DEF IInv
      <3>2. Dist(my[p], start) \in Nat /\ Dist(ticket, start) \in Nat
        BY DistType, Zenon DEF IInv, TypeOK
      <3> QED
        BY <3>1, <3>2, QueueShape
    <2> QED
      BY <2>2, <2>3, <2>4, Zenon DEF Abstract!Next, Abstract!Enter, held
  <1>6. CASE unlock_load(p)
    <2>1. /\ Ticketed' = Ticketed /\ start' = start
          /\ \A q \in Ticketed : my'[q] = my[q]
          /\ \A q \in Proc : Inside(q)' <=> Inside(q)
      BY <1>6 DEF unlock_load, goto, IInv, TypeOK, Ticketed, Inside
    <2> QED
      BY <2>1, QueueStays, Zenon DEF held
  <1>7. CASE unlock_store(p)
    <2>1. queue' = Tail(queue)
      BY <1>7, QueueLeave, Zenon
    <2>2. Inside(p) /\ ~Inside(p)' /\ \A q \in Proc : Inside(q)' => Inside(q)
      BY <1>7, Zenon DEF unlock_store, goto, IInv, TypeOK, Inside
    <2>3. held /\ ~held'
      BY <2>2, Zenon DEF held, IInv, Inside, Ticketed
    <2> QED
      BY <2>1, <2>3, Zenon DEF Abstract!Next, Abstract!Leave, held
  <1> QED
    BY <1>1, <1>2, <1>3, <1>4, <1>5, <1>6, <1>7, Zenon DEF step

\* The ticket lock is first come, first served: it implements FifoLock, with
\* the processes in the order of their tickets as the queue, also when the
\* counters wrap.
THEOREM TicketsAreFifo == Spec => IsFifo
  <1>1. Init => Abstract!Init
    <2> SUFFICES ASSUME Init PROVE Abstract!Init
      BY Zenon
    <2>1. Dist(ticket, start) = 0 /\ \A p \in Proc : ~Inside(p)
      BY DEF Init, Dist, Inside
    <2>2. queue = <<>>
      BY <2>1, InitInv, QueueShape
    <2> QED
      BY <2>1, <2>2, Zenon DEF Abstract!Init
  <1>2. IInv /\ IInv' /\ [Next]_vars => [Abstract!Next]_<<queue, held>>
    <2> SUFFICES ASSUME IInv, IInv', [Next]_vars
                 PROVE  [Abstract!Next]_<<queue, held>>
      BY Zenon
    <2>1. CASE UNCHANGED vars
      <3>1. /\ Ticketed' = Ticketed /\ start' = start /\ my' = my
            /\ \A q \in Proc : Inside(q)' <=> Inside(q)
        BY <2>1, Zenon DEF vars, Ticketed, Inside
      <3> QED
        BY <3>1, QueueStays, Zenon DEF held
    <2> QED
      BY <2>1, FifoStep, Zenon DEF Next
  <1> QED
    BY <1>1, <1>2, Invariance, PTL DEF Spec, IsFifo, Abstract!Spec, held

=============================================================================
