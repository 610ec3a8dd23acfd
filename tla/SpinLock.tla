------------------------------ MODULE SpinLock ------------------------------
(***************************************************************************)
(* The ticket spinlock of src/src/util/spinlock.h, shared by processes.    *)
(*                                                                         *)
(* start and ticket are unsigned int and wrap: Modulus is 2^32 in the      *)
(* code.  An action is one access to shared memory; lock->start++ is a     *)
(* read and a write.  The fences make the accesses of the critical section *)
(* happen inside it, so memory is sequentially consistent here.            *)
(***************************************************************************)
EXTENDS Naturals, FiniteSets

CONSTANTS
    Proc,      \* the processes that share the lock
    Modulus    \* the number of values of unsigned int

\* There are more tickets than processes.
ASSUME LockAssumption ==
    /\ IsFiniteSet(Proc)
    /\ Modulus \in Nat
    /\ Cardinality(Proc) < Modulus

VARIABLES
    start,    \* lock->start: the ticket being served
    ticket,   \* lock->ticket: the next ticket
    pc,       \* where a process is in the functions of the lock
    my        \* the local variable ticket; in unlock, the value read

vars == <<start, ticket, pc, my>>

Tickets == 0..(Modulus - 1)

TypeOK ==
    /\ start \in Tickets
    /\ ticket \in Tickets
    /\ pc \in [Proc -> {"idle", "cas", "spin", "cs", "store"}]
    /\ my \in [Proc -> Tickets]

\* spin_lock_init
Init ==
    /\ start = 0
    /\ ticket = 0
    /\ pc = [p \in Proc |-> "idle"]
    /\ my = [p \in Proc |-> 0]

\* t + 1U
Succ(t) == IF t = Modulus - 1 THEN 0 ELSE t + 1

\* Bound.  A process is not kept between the two accesses of spin_trylock for
\* so long that the counter comes round to the ticket it has read: that takes
\* Modulus tickets, four thousand million acquisitions of the lock.
NoLap(p) == \A q \in Proc \ {p} : pc[q] = "cas" => my[q] # Succ(ticket)

goto(p, l) == pc' = [pc EXCEPT ![p] = l]

\* spin_trylock: read the ticket being served,
trylock_load(p) ==
    /\ pc[p] = "idle"
    /\ my' = [my EXCEPT ![p] = start]
    /\ goto(p, "cas")
    /\ UNCHANGED <<start, ticket>>

\* and take it if it is also the next one.
trylock_cas(p) ==
    /\ pc[p] = "cas"
    /\ IF ticket = my[p]
       THEN NoLap(p) /\ ticket' = Succ(ticket) /\ goto(p, "cs")
       ELSE goto(p, "idle") /\ UNCHANGED ticket
    /\ UNCHANGED <<start, my>>

\* spin_lock: take the next ticket,
lock_fetch_add(p) ==
    /\ pc[p] = "idle"
    /\ NoLap(p)
    /\ my' = [my EXCEPT ![p] = ticket]
    /\ ticket' = Succ(ticket)
    /\ goto(p, "spin")
    /\ UNCHANGED start

\* Mutant: the loop waits for any ticket but the last one served.
lock_spin_early(p) ==
    /\ pc[p] = "spin"
    /\ start = my[p] \/ Succ(start) = my[p]
    /\ goto(p, "cs")
    /\ UNCHANGED <<start, ticket, my>>

\* Mutant: a process that has to wait gives up.
lock_spin_gives_up(p) ==
    /\ pc[p] = "spin"
    /\ goto(p, IF start = my[p] THEN "cs" ELSE "idle")
    /\ UNCHANGED <<start, ticket, my>>

\* Mutant: a process whose turn it is lets other waiters go first.
lock_spin_polite(p) ==
    /\ pc[p] = "spin"
    /\ start = my[p]
    /\ IF \E q \in Proc \ {p} : pc[q] = "spin"
       THEN UNCHANGED vars
       ELSE goto(p, "cs") /\ UNCHANGED <<start, ticket, my>>

\* and wait until it is served.
lock_spin(p) ==
    /\ pc[p] = "spin"
    /\ start = my[p]
    /\ goto(p, "cs")
    /\ UNCHANGED <<start, ticket, my>>

\* spin_unlock: the read of lock->start++,
unlock_load(p) ==
    /\ pc[p] = "cs"
    /\ my' = [my EXCEPT ![p] = start]
    /\ goto(p, "store")
    /\ UNCHANGED <<start, ticket>>

\* and the write.
unlock_store(p) ==
    /\ pc[p] = "store"
    /\ start' = Succ(my[p])
    /\ goto(p, "idle")
    /\ UNCHANGED <<ticket, my>>

step(p) ==
    \/ trylock_load(p) \/ trylock_cas(p)
    \/ lock_fetch_add(p) \/ lock_spin(p)
    \/ unlock_load(p) \/ unlock_store(p)

Next == \E p \in Proc : step(p)

Spec == Init /\ [][Next]_vars

-----------------------------------------------------------------------------
Inside(p) == pc[p] \in {"cs", "store"}
Ticketed == {p \in Proc : pc[p] \in {"spin", "cs", "store"}}

\* How many tickets after b ticket a comes.
Dist(a, b) == IF a >= b THEN a - b ELSE a - b + Modulus

\* Two processes are never between lock and unlock at the same time, whether
\* they came in by spin_lock or by spin_trylock, also after the counters have
\* wrapped and although lock->start++ is not atomic.
MutualExclusion == \A p, q \in Proc : Inside(p) /\ Inside(q) => p = q

\* The queue the tickets stand for: for every ticket that is out, the set of
\* the processes that have it, which is a singleton.
queue == [i \in 1..Cardinality(Ticketed) |->
             {p \in Ticketed : Dist(my[p], start) = i - 1}]

Abstract == INSTANCE FifoLock WITH Proc <- {{p} : p \in Proc},
                                   held <- (\E p \in Proc : Inside(p))

\* The lock is first come, first served: it implements FifoLock.
IsFifo == Abstract!Spec

\* Every process that executes lock code is scheduled, and critical sections
\* end.
Fairness == \A p \in Proc :
    /\ WF_vars(trylock_cas(p)) /\ WF_vars(lock_spin(p))
    /\ WF_vars(unlock_load(p)) /\ WF_vars(unlock_store(p))

FairSpec == Spec /\ Fairness

\* A process in spin_lock gets the lock, however many others keep taking it.
WaiterEnters == \A p \in Proc : pc[p] = "spin" ~> pc[p] = "cs"

=============================================================================
