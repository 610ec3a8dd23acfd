----------------------------- MODULE WorkerInv ------------------------------
(***************************************************************************)
(* The inductive invariant of a worker process (Worker), and the lemmas    *)
(* that the steps by which a coroutine goes on, a connection changes hands *)
(* or the process ends preserve it.  WorkerProofs combines them.           *)
(***************************************************************************)
EXTENDS Worker, RuntimeInv

-----------------------------------------------------------------------------
(***************************************************************************)
(* The inductive invariant, on top of the runtime's IInv.                  *)
(***************************************************************************)

Busy == {c \in Coro : step[c] # "none"}

\* The sizes of sets of coroutines of the pool, which is finite.
PoolCounts ==
    \A S \in SUBSET Coro :
        /\ Cardinality(S) \in Nat /\ Cardinality(Coro) \in Nat
        /\ Cardinality(S) <= Cardinality(Coro)
        /\ Cardinality(S) = 0 <=> S = {}
        /\ \A c \in Coro \ S : Cardinality(S \cup {c}) = Cardinality(S) + 1
        /\ \A c \in S : Cardinality(S \ {c}) = Cardinality(S) - 1

\* A coroutine is in one of the two functions from its dispatch until it is
\* back in the idle list.
StepInv ==
    \A c \in Coro : step[c] = "none" <=> c \notin created \/ InList(c, idle)

\* Only the first coroutine, which owns the listening socket, is in the accept
\* cycle.
AcceptInv ==
    /\ owner[ListenFd] \in Coro
    /\ \A c \in Coro : step[c] \in AcceptSteps => owner[ListenFd] = c

\* The local connfd is a connection until it is closed.
ConnInv ==
    /\ ConnectionOwned
    /\ \A c \in Coro : connfd[c] # ListenFd
    /\ \A c \in Coro : step[c] = "closed" => connfd[c] = Nil

\* The count is exact while the process runs, the limit that worker_accept
\* checked still holds when accept returns, and the process does not end
\* between.
CountInv ==
    /\ exited = "no" => connection_count = Cardinality(Busy)
    /\ \A c \in Coro : step[c] \in {"accept", "got"} =>
          /\ exited = "no"
          /\ MultiProcess => connection_count < g_worker_connections

LockInv ==
    /\ LockOnlyInAccept
    /\ ~MultiProcess => accept_lock = "free"

WInv ==
    /\ WTypeOK
    /\ StepInv
    /\ AcceptInv
    /\ ConnInv
    /\ CountInv
    /\ LockInv
    /\ StopDrains

-----------------------------------------------------------------------------
(***************************************************************************)
(* Every step preserves WInv.  Most steps move one coroutine from a step   *)
(* of its function to another; the lemmas say which moves WInv allows.     *)
(***************************************************************************)

\* The runtime changes neither the owner of a descriptor nor which coroutines
\* are idle, except when one accepts, dispatches, closes or ends.
LEMMA Frame ==
    ASSUME NEW c \in Coro,
           \/ schedule_cycle \/ clock
           \/ \E o, f : enter_hook(c, o, f)
           \/ hook_returns(c) \/ hook_blocks(c) \/ hook_times_out(c)
           \/ hook_ready(c) \/ sleep(c) \/ sleep_returns(c)
    PROVE  owner' = owner /\ created' = created /\ idle' = idle
<1>1. CASE schedule_cycle
  BY <1>1, Zenon
     DEF schedule_cycle, timeout_coroutine_handler, check_timeout_done,
     run_active_coroutine, run_timers_done, event_cycle_wait, event_callback,
     wakeup_coro, wakeup_coro_priority, event_cycle_done, run_events_done,
     hookVars
<1>2. CASE clock
  BY <1>2, Zenon DEF clock, Tick, hookVars
<1>3. CASE \E o, f : enter_hook(c, o, f)
  BY <1>3, Zenon DEF enter_hook, schedVars
<1>4. CASE hook_returns(c) \/ hook_blocks(c) \/ sleep(c) \/ sleep_returns(c)
  BY <1>4, Zenon DEF hook_returns, hook_blocks, sleep, sleep_returns,
     schedule_timeout, schedVars
<1>5. CASE hook_times_out(c) \/ hook_ready(c)
  BY <1>5, Zenon DEF hook_times_out, hook_ready, is_wakeup_by_timeout
<1> QED BY <1>1, <1>2, <1>3, <1>4, <1>5, Zenon

\* A coroutine owns no connection before it has one, or after it closed it.
LEMMA OwnsNone ==
    ASSUME ConnInv, NEW c \in Coro,
           step[c] \in {"none", "loop", "sleep", "accept", "closed"}
    PROVE  \A f \in Fd \ {ListenFd} : owner[f] # c
<1> SUFFICES ASSUME NEW f \in Fd \ {ListenFd}, owner[f] = c
             PROVE  FALSE
  BY Zenon
<1>1. connfd[c] = f /\ step[c] \in HandlerSteps \cup {"got"}
  BY HookAssumption DEF ConnInv, ConnectionOwned
<1> QED BY <1>1, HookAssumption, Zenon DEF ConnInv, HandlerSteps

\* Steps that leave the worker's variables alone.
LEMMA QuietInv ==
    ASSUME WInv, TypeOK', UNCHANGED workerVars,
           owner' = owner, created' = created, idle' = idle
    PROVE  WInv'
<1> USE DEF WInv
<1>1. /\ g_worker_processes' = g_worker_processes /\ step' = step
      /\ connfd' = connfd /\ room' = room
      /\ connection_count' = connection_count
      /\ g_shall_stop' = g_shall_stop /\ g_shall_exit' = g_shall_exit
      /\ accept_lock' = accept_lock /\ exited' = exited
  BY Zenon DEF workerVars
<1> USE <1>1
<1>2. WTypeOK' /\ StepInv' /\ AcceptInv'
  BY Zenon DEF WTypeOK, StepInv, AcceptInv, g_worker_connections
<1>3. ConnInv' /\ StopDrains'
  BY Zenon DEF ConnInv, ConnectionOwned, StopDrains
<1>4. CountInv' /\ LockInv'
  BY Zenon DEF CountInv, LockInv, LockOnlyInAccept, Busy, MultiProcess,
     g_worker_connections
<1> QED BY <1>2, <1>3, <1>4, Zenon

\* handle_connection goes on to the next call, with its connection.
LEMMA HandlerMoves ==
    ASSUME WInv, TypeOK', NEW c \in Coro, NEW s \in {"recv", "send", "close"},
           step[c] \in {"start", "recv", "send"},
           step' = [step EXCEPT ![c] = s],
           room' \in [Coro -> 0..BufSize],
           owner' = owner, created' = created, idle' = idle,
           UNCHANGED <<g_worker_processes, connfd, connection_count,
                       g_shall_stop, g_shall_exit, accept_lock, exited>>
    PROVE  WInv'
<1> USE DEF WInv
<1>1. /\ step' \in [Coro -> {"none"} \cup AcceptSteps \cup HandlerSteps]
      /\ step'[c] = s /\ \A x \in Coro \ {c} : step'[x] = step[x]
  BY Zenon DEF WTypeOK, HandlerSteps
<1> USE <1>1
<1>2. WTypeOK' /\ StepInv' /\ AcceptInv'
  BY Zenon DEF WTypeOK, StepInv, AcceptInv, AcceptSteps, g_worker_connections
<1>3. ConnInv' /\ StopDrains'
  BY HookAssumption
     DEF ConnInv, ConnectionOwned, StopDrains, HandlerSteps, WTypeOK, TypeOK
<1>4. Busy' = Busy
  BY Zenon DEF Busy
<1>5. CountInv' /\ LockInv'
  BY <1>4, Zenon DEF CountInv, LockInv, LockOnlyInAccept, MultiProcess,
     g_worker_connections
<1> QED BY <1>2, <1>3, <1>5, Zenon

\* The accept cycle moves on without a connection: it goes into accept only
\* under the limit, and has the lock only there.
LEMMA AcceptMoves ==
    ASSUME WInv, TypeOK', exited = "no", NEW c \in Coro,
           NEW s \in {"loop", "accept", "sleep"},
           step[c] \in {"loop", "accept", "sleep"},
           step' = [step EXCEPT ![c] = s],
           s = "accept" /\ MultiProcess =>
               connection_count < g_worker_connections,
           accept_lock' \in {"free", "mine", "other"},
           accept_lock' = "mine" => s = "accept",
           ~MultiProcess => accept_lock' = "free",
           owner' = owner, created' = created, idle' = idle,
           UNCHANGED <<g_worker_processes, connfd, room, connection_count,
                       g_shall_stop, g_shall_exit, exited>>
    PROVE  WInv'
<1> USE DEF WInv
<1>1. /\ step' \in [Coro -> {"none"} \cup AcceptSteps \cup HandlerSteps]
      /\ step'[c] = s /\ \A x \in Coro \ {c} : step'[x] = step[x]
  BY Zenon DEF WTypeOK, AcceptSteps
<1> USE <1>1
<1>2. WTypeOK' /\ StepInv' /\ AcceptInv'
  BY Zenon DEF WTypeOK, StepInv, AcceptInv, AcceptSteps, g_worker_connections
<1>3. ConnInv' /\ StopDrains'
  BY HookAssumption
     DEF ConnInv, ConnectionOwned, StopDrains, HandlerSteps, WTypeOK, TypeOK
<1>4. Busy' = Busy
  BY Zenon DEF Busy
<1>5. CountInv' /\ LockInv'
  BY <1>4, Zenon DEF CountInv, LockInv, LockOnlyInAccept, MultiProcess,
     g_worker_connections
<1> QED BY <1>2, <1>3, <1>5, Zenon

\* accept returns a connection: a descriptor nobody owns, which therefore is
\* neither the listening socket nor anybody's connfd that is still in use.
LEMMA AcceptSucceedsInv ==
    ASSUME WInv, TypeOK', exited = "no", NEW c \in Coro, NEW f \in Fd,
           accept_succeeds(c, f), g_worker_processes' = g_worker_processes
    PROVE  WInv'
<1> USE DEF WInv
<1>1. /\ step[c] = "accept" /\ owner[f] = Nil
      /\ owner' = [owner EXCEPT ![f] = c]
      /\ created' = created /\ idle' = idle
      /\ accept_lock' = IF MultiProcess THEN "free" ELSE accept_lock
      /\ connfd' = [connfd EXCEPT ![c] = f]
      /\ step' = [step EXCEPT ![c] = "got"]
      /\ room' = room /\ connection_count' = connection_count
      /\ g_shall_stop' = g_shall_stop /\ g_shall_exit' = g_shall_exit
      /\ exited' = exited
  BY Zenon DEF accept_succeeds, accept_returns, spin_unlock_accept, goto,
     schedVars
<1> USE <1>1
<1>2. f # ListenFd
  BY HookAssumption, Zenon DEF AcceptInv
<1>3. /\ step' \in [Coro -> {"none"} \cup AcceptSteps \cup HandlerSteps]
      /\ step'[c] = "got" /\ \A x \in Coro \ {c} : step'[x] = step[x]
      /\ connfd' \in [Coro -> Fd \cup {Nil}]
      /\ connfd'[c] = f /\ \A x \in Coro \ {c} : connfd'[x] = connfd[x]
      /\ owner'[f] = c /\ \A g \in Fd \ {f} : owner'[g] = owner[g]
  BY DEF WTypeOK, TypeOK, AcceptSteps
<1> USE <1>3
<1>4. WTypeOK'
  BY Zenon DEF WTypeOK, g_worker_connections
<1>5. StepInv' /\ AcceptInv'
  BY <1>2, HookAssumption DEF StepInv, AcceptInv, AcceptSteps
<1>6. ConnInv' /\ StopDrains'
  <2>1. \A g \in Fd \ {ListenFd} : owner[g] # c
    BY OwnsNone, Zenon
  <2>2. \A x \in Coro : owner[f] # x
    BY HookAssumption, Zenon
  <2>3. ConnectionOwned'
    BY <1>2, <2>1, <2>2, HookAssumption
       DEF ConnInv, ConnectionOwned, HandlerSteps, WTypeOK, TypeOK
  <2> QED BY <1>2, <2>3, Zenon DEF ConnInv, StopDrains
<1>7. Busy' = Busy
  BY Zenon DEF Busy
<1>8. CountInv' /\ LockInv'
  BY <1>7, Zenon
     DEF CountInv, LockInv, LockOnlyInAccept, MultiProcess,
         g_worker_connections
<1> QED BY <1>4, <1>5, <1>6, <1>8, Zenon

\* A coroutine that was idle or did not exist starts with the connection, and
\* is counted.
LEMMA DispatchConnectionInv ==
    ASSUME WInv, IInv, TypeOK', PoolCounts, exited = "no",
           NEW c \in Coro, NEW d \in Coro,
           dispatch_connection(c, d), g_worker_processes' = g_worker_processes
    PROVE  WInv'
<1> USE DEF WInv
<1> DEFINE f == connfd[c]
<1>1. /\ step[c] = "got" /\ current = c /\ get_coroutine(d)
      /\ owner[f] = c /\ accept_lock' = accept_lock
      /\ room' = room /\ connection_count' = connection_count + 1
      /\ g_shall_stop' = g_shall_stop /\ g_shall_exit' = g_shall_exit
      /\ exited' = exited
  BY Zenon DEF dispatch_connection, dispatch, dispatch_coro
<1>2. f \in Fd /\ f # ListenFd
  BY <1>1, Zenon DEF ConnInv, ConnectionOwned
<1> HIDE DEF f
<1>3. /\ created' = created \cup {d}
      /\ \A x : InList(x, idle') <=> InList(x, idle) /\ x # d
      /\ step[d] = "none" /\ d # c
  <2>1. /\ created' = created \cup {d}
        /\ \A x : InList(x, idle') <=> InList(x, idle) /\ x # d
        /\ InList(d, idle) \/ d \notin created
    BY <1>1, GetCoroutine, Zenon DEF IInv
  <2> QED BY <2>1, <1>1, Zenon DEF StepInv
<1>4. /\ step' \in [Coro -> {"none"} \cup AcceptSteps \cup HandlerSteps]
      /\ step'[c] = "loop" /\ step'[d] = "start"
      /\ \A x \in Coro \ {c, d} : step'[x] = step[x]
      /\ connfd' \in [Coro -> Fd \cup {Nil}]
      /\ connfd'[c] = Nil /\ connfd'[d] = f
      /\ \A x \in Coro \ {c, d} : connfd'[x] = connfd[x]
      /\ owner'[f] = d /\ \A g \in Fd \ {f} : owner'[g] = owner[g]
  <2>1. /\ owner' = [owner EXCEPT ![f] = d]
        /\ connfd' = [connfd EXCEPT ![c] = Nil, ![d] = f]
        /\ step' = [step EXCEPT ![c] = "loop", ![d] = "start"]
    BY Zenon DEF dispatch_connection, dispatch, f
  <2>2. /\ step' \in [Coro -> {"none"} \cup AcceptSteps \cup HandlerSteps]
        /\ step'[c] = "loop" /\ step'[d] = "start"
        /\ \A x \in Coro \ {c, d} : step'[x] = step[x]
    BY <2>1, <1>3, Zenon DEF WTypeOK, AcceptSteps, HandlerSteps
  <2>3. /\ connfd' \in [Coro -> Fd \cup {Nil}]
        /\ connfd'[c] = Nil /\ connfd'[d] = f
        /\ \A x \in Coro \ {c, d} : connfd'[x] = connfd[x]
    BY <2>1, <1>2, <1>3, Zenon DEF WTypeOK
  <2>4. owner'[f] = d /\ \A g \in Fd \ {f} : owner'[g] = owner[g]
    BY <2>1, <1>2, Zenon DEF WTypeOK, TypeOK
  <2> QED BY <2>2, <2>3, <2>4, Zenon
<1>5. StepInv'
  BY <1>1, <1>3, <1>4 DEF StepInv
<1>6. AcceptInv'
  BY <1>1, <1>2, <1>4, HookAssumption DEF AcceptInv, AcceptSteps
<1>7. ConnectionOwned'
  <2>1. \A g \in Fd \ {ListenFd} : owner[g] # d
    BY <1>3, OwnsNone, Zenon
  <2>2. \A g \in Fd \ {ListenFd, f} : owner[g] # c
    BY <1>1, HookAssumption DEF ConnInv, ConnectionOwned, f
  <2>3. ASSUME NEW g \in Fd \ {ListenFd}, owner'[g] # Nil
        PROVE  /\ connfd'[owner'[g]] = g
               /\ step'[owner'[g]] \in HandlerSteps \cup {"got"}
    <3>1. CASE g = f
      BY <3>1, <1>4, Zenon DEF HandlerSteps
    <3>2. CASE g # f
      BY <2>1, <2>2, <2>3, <3>2, <1>4
         DEF ConnInv, ConnectionOwned, WTypeOK, TypeOK
    <3> QED BY <3>1, <3>2, Zenon
  <2>4. ASSUME NEW x \in Coro,
               step'[x] \in {"got", "start", "recv", "send", "close"}
        PROVE  connfd'[x] \in Fd /\ owner'[connfd'[x]] = x
    <3>1. CASE x = d
      BY <3>1, <1>2, <1>4, Zenon
    <3>2. CASE x # d
      BY <2>4, <3>2, <1>1, <1>4 DEF ConnInv, ConnectionOwned
    <3> QED BY <3>1, <3>2, Zenon
  <2> QED BY <2>3, <2>4, Zenon DEF ConnectionOwned
<1>8. ConnInv' /\ StopDrains'
  BY <1>1, <1>2, <1>4, <1>7, HookAssumption DEF ConnInv, StopDrains
<1>9. /\ Cardinality(Busy') = Cardinality(Busy) + 1
      /\ Cardinality(Busy') \in 0..Cardinality(Coro)
  <2>1. /\ Busy' = Busy \cup {d} /\ d \in Coro \ Busy
        /\ Busy \in SUBSET Coro /\ Busy' \in SUBSET Coro
    BY <1>1, <1>3, <1>4, Zenon DEF Busy
  <2> QED BY <2>1 DEF PoolCounts
<1>10. WTypeOK'
  BY <1>1, <1>4, <1>9
     DEF WTypeOK, CountInv, g_worker_connections
<1>11. CountInv' /\ LockInv'
  <2>1. \A x \in Coro : step'[x] \notin {"accept", "got"}
    BY <1>1, <1>4 DEF AcceptInv, AcceptSteps
  <2>2. accept_lock # "mine"
    BY <1>1, Zenon DEF LockInv, LockOnlyInAccept, AcceptInv, AcceptSteps
  <2> QED
    BY <1>1, <1>9, <2>1, <2>2, Zenon
       DEF CountInv, LockInv, LockOnlyInAccept, MultiProcess
<1> QED BY <1>5, <1>6, <1>8, <1>10, <1>11, Zenon

\* c closes its connection and goes to s.
Closes(c, s) ==
    /\ close_fd(c, connfd[c])
    /\ connfd' = [connfd EXCEPT ![c] = Nil]
    /\ goto(c, s)
    /\ UNCHANGED <<g_worker_processes, room, connection_count, g_shall_stop,
                   g_shall_exit, accept_lock, exited>>

\* The connection that could not be dispatched, or has been answered, is
\* closed by the coroutine that owns it.
LEMMA CloseConnectionInv ==
    ASSUME WInv, TypeOK', exited = "no", NEW c \in Coro,
           NEW s \in {"loop", "closed"}, Closes(c, s),
           \/ s = "loop" /\ step[c] = "got"
           \/ s = "closed" /\ step[c] = "close"
    PROVE  WInv'
<1> USE DEF WInv
<1> DEFINE f == connfd[c]
<1>1. /\ created' = created /\ idle' = idle /\ room' = room
      /\ g_worker_processes' = g_worker_processes
      /\ connection_count' = connection_count
      /\ g_shall_stop' = g_shall_stop /\ g_shall_exit' = g_shall_exit
      /\ accept_lock' = accept_lock /\ exited' = exited
  BY Zenon DEF Closes, close_fd, schedVars
<1> USE <1>1
<1>2. f \in Fd /\ f # ListenFd /\ owner[f] = c
  BY Zenon DEF ConnInv, ConnectionOwned
<1> HIDE DEF f
<1>3. /\ step' \in [Coro -> {"none"} \cup AcceptSteps \cup HandlerSteps]
      /\ step'[c] = s /\ \A x \in Coro \ {c} : step'[x] = step[x]
      /\ connfd' \in [Coro -> Fd \cup {Nil}]
      /\ connfd'[c] = Nil /\ \A x \in Coro \ {c} : connfd'[x] = connfd[x]
      /\ owner'[f] = Nil /\ \A g \in Fd \ {f} : owner'[g] = owner[g]
  <2>1. /\ owner' = [owner EXCEPT ![f] = Nil]
        /\ connfd' = [connfd EXCEPT ![c] = Nil]
        /\ step' = [step EXCEPT ![c] = s]
    BY Zenon DEF Closes, close_fd, goto, f
  <2> QED BY <2>1, <1>2 DEF WTypeOK, TypeOK, AcceptSteps, HandlerSteps
<1> USE <1>3
<1>4. WTypeOK'
  BY Zenon DEF WTypeOK, g_worker_connections
<1>5. StepInv' /\ AcceptInv'
  BY <1>2, HookAssumption DEF StepInv, AcceptInv, AcceptSteps
<1>6. ConnectionOwned'
  <2>1. \A g \in Fd \ {ListenFd, f} : owner[g] # c
    BY HookAssumption DEF ConnInv, ConnectionOwned, f
  <2>2. ASSUME NEW g \in Fd \ {ListenFd}, owner'[g] # Nil
        PROVE  /\ connfd'[owner'[g]] = g
               /\ step'[owner'[g]] \in HandlerSteps \cup {"got"}
    BY <2>1, <2>2 DEF ConnInv, ConnectionOwned, WTypeOK, TypeOK
  <2>3. ASSUME NEW x \in Coro,
               step'[x] \in {"got", "start", "recv", "send", "close"}
        PROVE  connfd'[x] \in Fd /\ owner'[connfd'[x]] = x
    BY <2>3, <1>2 DEF ConnInv, ConnectionOwned
  <2> QED BY <2>2, <2>3, Zenon DEF ConnectionOwned
<1>7. ConnInv' /\ StopDrains'
  BY <1>6, HookAssumption DEF ConnInv, StopDrains
<1>8. Busy' = Busy
  BY Zenon DEF Busy
<1>9. CountInv'
  BY <1>8, Zenon DEF CountInv, MultiProcess, g_worker_connections
<1>10. LockInv'
  BY Zenon DEF LockInv, LockOnlyInAccept, MultiProcess, AcceptInv,
     AcceptSteps
<1> QED BY <1>4, <1>5, <1>7, <1>9, <1>10, Zenon

\* decrease_conn_and_check, called by the accept cycle after a stop or by a
\* connection that is closed: the last one out finds no connection open, any
\* other goes to the idle list.
LEMMA DecreaseInv ==
    ASSUME WInv, IInv, TypeOK', PoolCounts, exited = "no", NEW c \in Coro,
           current = c, step[c] \in {"loop", "closed"},
           decrease_conn_and_check(c),
           room' \in [Coro -> 0..BufSize],
           UNCHANGED <<g_worker_processes, connfd, g_shall_stop, g_shall_exit,
                       accept_lock>>
    PROVE  WInv'
<1> USE DEF WInv
<1>1. /\ connection_count = Cardinality(Busy) /\ c \in Busy
      /\ connection_count \in Nat /\ connection_count # 0
      /\ connection_count' = connection_count - 1
      /\ connection_count' \in 0..g_worker_connections
      /\ g_worker_connections' = g_worker_connections
      /\ g_worker_connections \in Nat
  <2>1. connection_count = Cardinality(Busy) /\ c \in Busy
    BY Zenon DEF CountInv, Busy
  <2>2. /\ Busy \in SUBSET Coro /\ Busy # {}
        /\ g_worker_connections' = g_worker_connections
    BY <2>1, Zenon DEF Busy, g_worker_connections
  <2>3. Cardinality(Busy) # 0 /\ Cardinality(Busy) \in Nat
    BY <2>2, Zenon DEF PoolCounts
  <2>4. connection_count' = connection_count - 1
    BY Zenon DEF decrease_conn_and_check
  <2>5. /\ g_worker_connections \in Nat
        /\ connection_count \in 0..g_worker_connections
    BY <2>2, Zenon DEF WTypeOK, g_worker_connections, PoolCounts
  <2> QED BY <2>1, <2>2, <2>3, <2>4, <2>5
<1>0. \A f \in Fd \ {ListenFd} : owner[f] # c
  <2>1. ConnInv /\ step[c] \in {"none", "loop", "sleep", "accept", "closed"}
    BY Zenon
  <2> QED BY <2>1, OwnsNone, Zenon
<1>2. CASE connection_count = 1
  <2>1. /\ exited' = "stop" /\ step' = step
        /\ owner' = owner /\ created' = created /\ idle' = idle
    BY <1>2, Zenon DEF decrease_conn_and_check, vars, schedVars, hookVars
  <2>2. \A x \in Coro : step[x] # "none" => x = c
    <3>1. Busy \in SUBSET Coro /\ Busy \ {c} \in SUBSET Coro
      BY Zenon DEF Busy
    <3>2. Cardinality(Busy \ {c}) = Cardinality(Busy) - 1
      BY <3>1, <1>1, Zenon DEF PoolCounts
    <3>3. Cardinality(Busy \ {c}) = 0
      BY <3>2, <1>1, <1>2
    <3>4. Busy \ {c} = {}
      BY <3>1, <3>3, Zenon DEF PoolCounts
    <3> QED BY <3>4, Zenon DEF Busy
  <2>3. \A x \in Coro : step[x] \notin {"accept", "got"}
    BY <2>2, Zenon
  <2>4. accept_lock # "mine"
    BY <2>3, Zenon DEF LockInv, LockOnlyInAccept
  <2>5. StopDrains'
    <3>1. ASSUME NEW f \in Fd \ {ListenFd}, owner[f] # Nil PROVE FALSE
      <4>1. /\ owner[f] \in Coro
            /\ step[owner[f]] \in HandlerSteps \cup {"got"}
        BY <3>1 DEF ConnInv, ConnectionOwned, WTypeOK, TypeOK
      <4>2. owner[f] = c
        BY <4>1, <2>2, Zenon DEF HandlerSteps
      <4> QED BY <4>2, <1>0, Zenon
    <3> QED BY <3>1, <2>1, Zenon DEF StopDrains
  <2>6. WTypeOK'
    BY <1>1, <2>1, Zenon DEF WTypeOK, g_worker_connections
  <2>7. StepInv' /\ AcceptInv' /\ ConnInv'
    BY <2>1, Zenon DEF StepInv, AcceptInv, ConnInv, ConnectionOwned
  <2>8. CountInv' /\ LockInv'
    BY <2>1, <2>3, <2>4, Zenon
       DEF CountInv, LockInv, LockOnlyInAccept, MultiProcess
  <2> QED BY <2>5, <2>6, <2>7, <2>8, Zenon
<1>3. CASE connection_count # 1
  <2>1. /\ finish(c) /\ step' = [step EXCEPT ![c] = "none"]
        /\ exited' = exited
    BY <1>3, Zenon DEF decrease_conn_and_check, goto
  <2>2. /\ owner' = owner /\ created' = created /\ idle' = Append(idle, c)
        /\ idle \in Seq(Coro)
    BY <2>1, Zenon DEF finish, coro_routine_proxy, hookVars, WTypeOK, TypeOK,
       SchedTypeOK
  <2>3. \A x : InList(x, idle') <=> InList(x, idle) \/ x = c
    BY <2>2, AppendList, Zenon
  <2>4. /\ step' \in [Coro -> {"none"} \cup AcceptSteps \cup HandlerSteps]
        /\ step'[c] = "none" /\ \A x \in Coro \ {c} : step'[x] = step[x]
    BY <2>1, Zenon DEF WTypeOK
  <2>5. WTypeOK'
    BY <1>1, <2>1, <2>4, Zenon DEF WTypeOK, g_worker_connections
  <2>6. StepInv' /\ AcceptInv'
    BY <2>2, <2>3, <2>4, Zenon DEF StepInv, AcceptInv, AcceptSteps
  <2>7. ConnectionOwned'
    BY <1>0, <2>2, <2>4 DEF ConnInv, ConnectionOwned, WTypeOK, TypeOK
  <2>8. ConnInv' /\ StopDrains'
    BY <2>1, <2>2, <2>4, <2>7, Zenon DEF ConnInv, StopDrains
  <2>9. Cardinality(Busy') = connection_count'
    <3>1. Busy' = Busy \ {c} /\ Busy \in SUBSET Coro
      BY <2>4, Zenon DEF Busy
    <3> QED BY <3>1, <1>1, Zenon DEF PoolCounts
  <2>10. CountInv'
    BY <1>1, <2>1, <2>4, <2>9 DEF CountInv, MultiProcess
  <2>11. LockInv'
    BY <2>1, <2>4, Zenon DEF LockInv, LockOnlyInAccept, MultiProcess,
       AcceptInv,
       AcceptSteps
  <2> QED BY <2>5, <2>6, <2>8, <2>10, <2>11, Zenon
<1> QED BY <1>2, <1>3, Zenon

\* exit(0) in the accept cycle, which is then not in accept.
LEMMA AcceptExitsInv ==
    ASSUME WInv, TypeOK', exited = "no", NEW c \in Coro,
           accept_exits(c), g_worker_processes' = g_worker_processes
    PROVE  WInv'
<1> USE DEF WInv
<1>1. /\ step[c] = "loop" /\ exited' = "exit"
      /\ owner' = owner /\ created' = created /\ idle' = idle
      /\ step' = step /\ connfd' = connfd /\ room' = room
      /\ connection_count' = connection_count
      /\ g_shall_stop' = g_shall_stop /\ g_shall_exit' = g_shall_exit
      /\ accept_lock' = accept_lock
  BY Zenon DEF accept_exits, vars, schedVars, hookVars
<1> USE <1>1
<1>2. \A x \in Coro : step[x] \notin {"accept", "got"}
  BY Zenon DEF AcceptInv, AcceptSteps
<1>3. WTypeOK' /\ StepInv' /\ AcceptInv'
  BY Zenon DEF WTypeOK, StepInv, AcceptInv, g_worker_connections
<1>4. ConnInv' /\ StopDrains'
  BY Zenon DEF ConnInv, ConnectionOwned, StopDrains
<1>5. CountInv' /\ LockInv'
  BY <1>2, Zenon
     DEF CountInv, LockInv, LockOnlyInAccept, MultiProcess
<1> QED BY <1>3, <1>4, <1>5, Zenon

\* A signal, and what the other workers do with the lock.
LEMMA EnvironmentInv ==
    ASSUME WInv, TypeOK', worker_signal_handler \/ other_worker,
           g_worker_processes' = g_worker_processes
    PROVE  WInv'
<1> USE DEF WInv
<1>1. /\ owner' = owner /\ created' = created /\ idle' = idle
      /\ step' = step /\ connfd' = connfd /\ room' = room
      /\ connection_count' = connection_count /\ exited' = exited
      /\ \/ accept_lock' = accept_lock
         \/ MultiProcess /\ accept_lock' \in {"free", "other"}
  BY Zenon DEF worker_signal_handler, other_worker, vars, schedVars, hookVars
<1> USE <1>1
<1>2. g_shall_stop' \in BOOLEAN /\ g_shall_exit' \in BOOLEAN
  BY Zenon DEF worker_signal_handler, other_worker, WTypeOK
<1>3. WTypeOK' /\ StepInv' /\ AcceptInv'
  BY <1>2, Zenon
     DEF WTypeOK, StepInv, AcceptInv, g_worker_connections
<1>4. ConnInv' /\ StopDrains'
  BY Zenon DEF ConnInv, ConnectionOwned, StopDrains
<1>5. Busy' = Busy
  BY Zenon DEF Busy
<1>6. CountInv' /\ LockInv'
  BY <1>5, Zenon
     DEF CountInv, LockInv, LockOnlyInAccept, MultiProcess,
         g_worker_connections
<1> QED BY <1>3, <1>4, <1>6, Zenon

=============================================================================
