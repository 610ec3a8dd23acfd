---------------------------- MODULE WorkerProofs ----------------------------
(***************************************************************************)
(* A worker process implements the runtime SyscallHook, and what is proved *)
(* of its connections: the count, the limit, the accept lock, the owner of *)
(* each descriptor and the end after a stop, for any size of the pool, any *)
(* number of workers, any timeouts and any request buffer.                 *)
(***************************************************************************)
EXTENDS WorkerInv, RuntimeProofs, FiniteSetTheorems

-----------------------------------------------------------------------------
(***************************************************************************)
(* Every step of the worker is a step of the runtime.                      *)
(***************************************************************************)

\* worker_accept_cycle uses the runtime as SyscallHook's programs do.
LEMMA AcceptCycleStep ==
    ASSUME WInv, NEW c \in Coro, worker_accept_cycle(c)
    PROVE  program(c) \/ UNCHANGED vars
<1> USE HookAssumption, WorkerAssumption
<1>1. CASE accept_stops(c) \/ accept_exits(c)
  BY <1>1, Zenon DEF accept_stops, accept_exits, decrease_conn_and_check,
     program
<1>2. CASE worker_accept(c)
  <2>1. enter_hook(c, "accept", ListenFd)
    BY <1>2, Zenon DEF worker_accept
  <2> QED BY <2>1, Zenon DEF program
<1>3. CASE worker_accept_busy(c) \/ accept_sleep_over(c)
  BY <1>3, Zenon DEF worker_accept_busy, accept_sleep_over, program
<1>4. CASE accept_continues(c) \/ accept_fails(c)
  BY <1>4, Zenon DEF accept_continues, accept_fails, program
<1>5. CASE \E f \in Fd : accept_succeeds(c, f)
  BY <1>5, Zenon DEF accept_succeeds, program
<1>6. ASSUME step[c] = "got" PROVE connfd[c] \in Fd
  BY <1>6, Zenon DEF WInv, ConnInv, ConnectionOwned
<1>7. CASE \E d \in Coro : dispatch_connection(c, d)
  <2>1. PICK d \in Coro : step[c] = "got" /\ dispatch(c, d, connfd[c])
    BY <1>7, Zenon DEF dispatch_connection
  <2> QED BY <2>1, <1>6 DEF program
<1>8. CASE dispatch_fails(c)
  <2>1. step[c] = "got" /\ close_fd(c, connfd[c])
    BY <1>8, Zenon DEF dispatch_fails
  <2> QED BY <2>1, <1>6 DEF program
<1> QED
  BY <1>1, <1>2, <1>3, <1>4, <1>5, <1>7, <1>8 DEF worker_accept_cycle

\* ... and so does handle_connection.
LEMMA HandlerStep ==
    ASSUME WInv, NEW c \in Coro, handle_connection(c)
    PROVE  program(c) \/ UNCHANGED vars
<1> USE WorkerAssumption
<1>1. ASSUME step[c] \in {"recv", "send", "close"} PROVE connfd[c] \in Fd
  BY <1>1, Zenon DEF WInv, ConnInv, ConnectionOwned
<1>2. CASE request_starts(c) \/ buffer_full(c)
  BY <1>2 DEF request_starts, buffer_full
<1>3. CASE recv_http_request(c)
  <2>1. step[c] = "recv" /\ enter_hook(c, "recv", connfd[c])
    BY <1>3 DEF recv_http_request
  <2> QED BY <2>1, <1>1, Zenon DEF program
<1>4. CASE io_continues(c) \/ recv_succeeds(c) \/ recv_fails(c) \/ send_done(c)
  BY <1>4, Zenon DEF io_continues, recv_succeeds, recv_fails, send_done,
     program
<1>5. CASE send_response(c)
  <2>1. step[c] = "send" /\ enter_hook(c, "send", connfd[c])
    BY <1>5, Zenon DEF send_response
  <2> QED BY <2>1, <1>1 DEF program
<1>6. CASE close_connection(c)
  <2>1. step[c] = "close" /\ close_fd(c, connfd[c])
    BY <1>6, Zenon DEF close_connection
  <2> QED BY <2>1, <1>1 DEF program
<1>7. CASE connection_done(c)
  BY <1>7 DEF connection_done, decrease_conn_and_check, program
<1> QED
  BY <1>2, <1>3, <1>4, <1>5, <1>6, <1>7 DEF handle_connection

\* Any step.
LEMMA RuntimeStep ==
    ASSUME WInv, [WNext]_wvars
    PROVE  [Next]_vars
<1>1. CASE alive(scheduler) \/ alive(clock /\ UNCHANGED workerVars)
  BY <1>1, Zenon DEF alive, scheduler, Next
<1>2. ASSUME NEW c \in Coro, alive(coroutine_step(c)) PROVE [Next]_vars
  <2>1. program(c) \/ UNCHANGED vars
    BY <1>2, AcceptCycleStep, HandlerStep DEF alive, coroutine_step
  <2> QED BY <2>1, Zenon DEF Next
<1>3. CASE alive(worker_signal_handler) \/ alive(other_worker)
  BY <1>3, Zenon DEF alive, worker_signal_handler, other_worker
<1>4. CASE UNCHANGED wvars
  BY <1>4 DEF wvars
<1> QED BY <1>1, <1>2, <1>3, <1>4, Zenon DEF WNext

\* The pool is finite.
LEMMA PoolIsFinite == PoolCounts
<1> SUFFICES ASSUME NEW S \in SUBSET Coro
             PROVE  /\ Cardinality(S) \in Nat /\ Cardinality(Coro) \in Nat
                    /\ Cardinality(S) <= Cardinality(Coro)
                    /\ Cardinality(S) = 0 <=> S = {}
                    /\ \A c \in Coro \ S :
                          Cardinality(S \cup {c}) = Cardinality(S) + 1
                    /\ \A c \in S : Cardinality(S \ {c}) = Cardinality(S) - 1
  BY Zenon DEF PoolCounts
<1>1. IsFiniteSet(S) /\ Cardinality(S) <= Cardinality(Coro)
  BY FS_Subset, WorkerAssumption, Zenon
<1>2. Cardinality(S) \in Nat /\ Cardinality(Coro) \in Nat
  BY <1>1, FS_CardinalityType, WorkerAssumption
<1>3. Cardinality(S) = 0 <=> S = {}
  BY <1>1, FS_EmptySet, Zenon
<1>4. \A c \in Coro \ S : Cardinality(S \cup {c}) = Cardinality(S) + 1
  BY <1>1, FS_AddElement
<1>5. \A c \in S : Cardinality(S \ {c}) = Cardinality(S) - 1
  BY <1>1, FS_RemoveElement, Zenon
<1> QED BY <1>1, <1>2, <1>3, <1>4, <1>5, Zenon

\* The steps of one coroutine.
LEMMA CoroutineInv ==
    ASSUME WInv, IInv, TypeOK', PoolCounts, exited = "no", NEW c \in Coro,
           coroutine_step(c), g_worker_processes' = g_worker_processes
    PROVE  WInv'
<1>0. /\ step \in [Coro -> {"none"} \cup AcceptSteps \cup HandlerSteps]
      /\ room \in [Coro -> 0..BufSize] /\ BufSize \in Nat
      /\ ~MultiProcess => accept_lock = "free"
      /\ step[c] \in {"loop", "sleep"} => accept_lock # "mine"
      /\ accept_lock \in {"free", "mine", "other"}
  BY WorkerAssumption
     DEF WInv, WTypeOK, LockInv, LockOnlyInAccept, AcceptInv, AcceptSteps
<1>1. CASE accept_stops(c)
  BY <1>1, <1>0, DecreaseInv, Zenon DEF accept_stops
<1>2. CASE accept_exits(c)
  BY <1>2, AcceptExitsInv
<1>3. CASE worker_accept(c)
  <2>1. owner' = owner /\ created' = created /\ idle' = idle
    BY <1>3, Frame DEF worker_accept
  <2> QED
    BY <1>0, <1>3, <2>1, AcceptMoves, Zenon
       DEF worker_accept, goto, worker_can_accept
<1>4. CASE worker_accept_busy(c)
  <2>1. owner' = owner /\ created' = created /\ idle' = idle
    BY <1>4, Frame DEF worker_accept_busy
  <2> QED
    BY <1>0, <1>4, <2>1, AcceptMoves, Zenon DEF worker_accept_busy, goto
<1>5. CASE accept_sleep_over(c)
  <2>1. owner' = owner /\ created' = created /\ idle' = idle
    BY <1>5, Frame DEF accept_sleep_over
  <2> QED
    BY <1>0, <1>5, <2>1, AcceptMoves, Zenon DEF accept_sleep_over, goto
<1>6. CASE accept_fails(c)
  <2>1. owner' = owner /\ created' = created /\ idle' = idle
    BY <1>6, Frame DEF accept_fails
  <2> QED
    BY <1>0, <1>6, <2>1, AcceptMoves, Zenon
       DEF accept_fails, goto, spin_unlock_accept
<1>7. CASE accept_continues(c) \/ io_continues(c)
           \/ recv_http_request(c) \/ send_response(c)
  <2>1. owner' = owner /\ created' = created /\ idle' = idle
    BY <1>7, Frame
       DEF accept_continues, io_continues, recv_http_request, send_response
  <2>2. UNCHANGED workerVars
    BY <1>7, Zenon
       DEF accept_continues, io_continues, recv_http_request, send_response
  <2> QED BY <2>1, <2>2, QuietInv, Zenon
<1>8. ASSUME NEW f \in Fd, accept_succeeds(c, f) PROVE WInv'
  BY <1>8, AcceptSucceedsInv
<1>9. ASSUME NEW d \in Coro, dispatch_connection(c, d) PROVE WInv'
  BY <1>9, DispatchConnectionInv, Zenon
<1>10. CASE dispatch_fails(c) \/ close_connection(c)
  <2>1. \/ step[c] = "got" /\ Closes(c, "loop")
        \/ step[c] = "close" /\ Closes(c, "closed")
    BY <1>10, Zenon DEF dispatch_fails, close_connection, Closes
  <2> QED BY <2>1, CloseConnectionInv
<1>11. CASE request_starts(c) \/ buffer_full(c)
  <2>1. /\ owner' = owner /\ created' = created /\ idle' = idle
        /\ room' \in [Coro -> 0..BufSize]
    BY <1>11, <1>0
       DEF request_starts, buffer_full, vars, schedVars, hookVars
  <2> QED
    BY <1>11, <2>1, HandlerMoves DEF request_starts, buffer_full, goto
<1>12. CASE recv_succeeds(c) \/ recv_fails(c) \/ send_done(c)
  <2>1. owner' = owner /\ created' = created /\ idle' = idle
    BY <1>12, Frame, Zenon DEF recv_succeeds, recv_fails, send_done
  <2>2. room' \in [Coro -> 0..BufSize]
    BY <1>12, <1>0 DEF recv_succeeds, recv_fails, send_done
  <2> QED
    BY <1>12, <2>1, <2>2, HandlerMoves
       DEF recv_succeeds, recv_fails, send_done, goto
<1>13. CASE connection_done(c)
  <2>1. room' \in [Coro -> 0..BufSize]
    BY <1>13, <1>0 DEF connection_done
  <2> QED BY <1>13, <2>1, DecreaseInv, Zenon DEF connection_done
<1> QED
  BY <1>1, <1>2, <1>3, <1>4, <1>5, <1>6, <1>7, <1>8, <1>9, <1>10, <1>11,
     <1>12, <1>13
     DEF coroutine_step, worker_accept_cycle, handle_connection

\* Any step of the process, with the runtime's invariant.
LEMMA WNextInv ==
    ASSUME IInv, WInv, [WNext]_wvars
    PROVE  IInv' /\ WInv'
<1>1. IInv' /\ TypeOK'
  BY RuntimeStep, NextInv, Zenon DEF IInv
<1>2. CASE alive(scheduler) \/ alive(clock /\ UNCHANGED workerVars)
  <2>1. \/ schedule_cycle \/ clock
    BY <1>2, Zenon DEF alive, scheduler
  <2>2. UNCHANGED workerVars
    BY <1>2, Zenon DEF alive, scheduler
  <2>3. owner[ListenFd] \in Coro
    BY DEF WInv, AcceptInv
  <2>4. owner' = owner /\ created' = created /\ idle' = idle
    BY <2>1, <2>3, Frame, Zenon
  <2> QED BY <1>1, <2>2, <2>4, QuietInv, Zenon
<1>3. ASSUME NEW c \in Coro, alive(coroutine_step(c)) PROVE WInv'
  BY <1>1, <1>3, CoroutineInv, PoolIsFinite DEF alive
<1>4. CASE alive(worker_signal_handler) \/ alive(other_worker)
  BY <1>1, <1>4, EnvironmentInv, Zenon DEF alive
<1>5. CASE UNCHANGED wvars
  <2>1. /\ UNCHANGED workerVars
        /\ owner' = owner /\ created' = created /\ idle' = idle
    BY <1>5, Zenon DEF wvars, vars, schedVars, hookVars
  <2> QED BY <1>1, <2>1, QuietInv
<1> QED BY <1>1, <1>2, <1>3, <1>4, <1>5, Zenon DEF WNext

\* worker_process_cycle, before schedule_cycle: the accept coroutine is the
\* only one and is counted.
LEMMA WInitInv ==
    ASSUME WInit
    PROVE  IInv /\ WInv
<1>1. IInv /\ TypeOK
  BY InitInv, Zenon DEF WInit, IInv
<1>2. PICK first \in Coro :
         /\ created = {first} /\ idle = <<>>
         /\ owner = [f \in Fd |-> IF f = ListenFd THEN first ELSE Nil]
  BY DEF WInit, Init, schedule_init
<1>3. /\ \A x : ~InList(x, idle)
      /\ owner[ListenFd] = first
      /\ \A f \in Fd \ {ListenFd} : owner[f] = Nil
      /\ Nil \notin Fd /\ Nil \notin Coro
  BY <1>2, EmptyList, HookAssumption, Zenon
<1>4. /\ step \in [Coro -> {"none"} \cup AcceptSteps \cup HandlerSteps]
      /\ step[first] = "loop" /\ \A x \in Coro \ {first} : step[x] = "none"
      /\ \A x \in Coro : connfd[x] = Nil
      /\ connfd \in [Coro -> Fd \cup {Nil}]
      /\ room \in [Coro -> 0..BufSize]
  BY <1>2, WorkerAssumption DEF WInit, AcceptSteps
<1>5. /\ Busy = {first} /\ Cardinality(Busy) = 1
      /\ 1 \in 0..Cardinality(Coro)
  <2>1. Busy = {first} /\ {first} \in SUBSET Coro
    BY <1>4, Zenon DEF Busy
  <2>2. Cardinality({first}) = 1
    BY FS_Singleton, Zenon
  <2>3. Cardinality(Coro) \in Nat /\ Cardinality({first}) <= Cardinality(Coro)
    BY <2>1, FS_Subset, FS_CardinalityType, WorkerAssumption, Zenon
  <2> QED BY <2>1, <2>2, <2>3
<1>6. WTypeOK
  <2>1. /\ connection_count = 1 /\ g_worker_processes \in WorkerProcesses
        /\ g_shall_stop \in BOOLEAN /\ g_shall_exit \in BOOLEAN
        /\ accept_lock = "free" /\ exited = "no"
    BY Zenon DEF WInit
  <2> QED BY <1>1, <1>4, <1>5, <2>1, Zenon DEF WTypeOK, g_worker_connections
<1>7. StepInv /\ AcceptInv
  BY <1>2, <1>3, <1>4, Zenon DEF StepInv, AcceptInv, AcceptSteps
<1>8. ConnInv /\ StopDrains
  BY <1>3, <1>4, HookAssumption DEF ConnInv, ConnectionOwned, StopDrains
<1>9. CountInv /\ LockInv
  BY <1>4, <1>5, Zenon DEF WInit, CountInv, LockInv, LockOnlyInAccept
<1> QED BY <1>1, <1>6, <1>7, <1>8, <1>9 DEF WInv

-----------------------------------------------------------------------------
(***************************************************************************)
(* The theorems.                                                           *)
(***************************************************************************)

\* WInv and the runtime's invariant hold of every worker.
THEOREM WInvariance == WSpec => [](IInv /\ WInv)
<1>1. WInit => IInv /\ WInv
  BY WInitInv, Zenon
<1>2. (IInv /\ WInv) /\ [WNext]_wvars => (IInv /\ WInv)'
  BY WNextInv, Zenon
<1> QED BY <1>1, <1>2, PTL DEF WSpec

\* worker_accept_cycle and handle_connection implement SyscallHook: they do
\* I/O, dispatch and close only with descriptors they own and one hook at a
\* time, so the theorems about the runtime are theorems about the worker.
THEOREM WorkerImplementsRuntime == WSpec => ImplementsRuntime
<1>1. WInit => Init
  BY Zenon DEF WInit
<1>2. WInv /\ [WNext]_wvars => [Next]_vars
  BY RuntimeStep, Zenon
<1> QED
  BY <1>1, <1>2, WInvariance, PTL DEF WSpec, Spec, ImplementsRuntime

\* connection_count is the number of coroutines in the accept cycle and in
\* handle_connection, and within the pool; a recv stays inside its buffer.
THEOREM CountExact == WSpec => []CountIsExact
<1>1. ASSUME WInv PROVE CountIsExact
  <2>1. /\ Busy = Connections \cup Accepting
        /\ Connections \cap Accepting = {}
        /\ Connections \in SUBSET Coro /\ Accepting \in SUBSET Coro
    BY <1>1 DEF WInv, WTypeOK, Busy, Connections, Accepting, HandlerSteps,
       AcceptSteps
  <2>2. IsFiniteSet(Connections) /\ IsFiniteSet(Accepting)
    BY <2>1, FS_Subset, WorkerAssumption, Zenon
  <2>3. Cardinality(Busy) = Cardinality(Connections) + Cardinality(Accepting)
    <3>1. Cardinality(Connections \cap Accepting) = 0
      BY <2>1, FS_EmptySet, Zenon
    <3>2. Cardinality(Connections) \in Nat /\ Cardinality(Accepting) \in Nat
      BY <2>2, FS_CardinalityType, Zenon
    <3>3. Cardinality(Connections \cup Accepting) =
            Cardinality(Connections) + Cardinality(Accepting)
              - Cardinality(Connections \cap Accepting)
      BY <2>2, FS_Union
    <3> QED BY <2>1, <3>1, <3>2, <3>3
  <2> QED BY <1>1, <2>3, Zenon DEF WInv, CountInv, CountIsExact
<1>2. WInv => CountIsExact
  BY <1>1, Zenon
<1> QED BY <1>2, WInvariance, PTL

\* A connection is accepted, with several workers, only when a coroutine is
\* left for it: below the limit not every coroutine is in use, and one that is
\* not in use is idle or not yet created.
THEOREM AcceptedFits == WSpec => []AdmittedFits
<1>1. ASSUME WInv, MultiProcess, NEW c \in Coro, step[c] \in {"accept", "got"}
      PROVE  idle # <<>> \/ created # Coro
  <2>1. Cardinality(Busy) < Cardinality(Coro) /\ Cardinality(Coro) \in Nat
    BY <1>1, FS_CardinalityType, WorkerAssumption, Zenon
       DEF WInv, CountInv, g_worker_connections
  <2>2. Busy # Coro
    BY <2>1
  <2>3. PICK d \in Coro : step[d] = "none"
    BY <2>2, Zenon DEF Busy
  <2> QED BY <1>1, <2>3, EmptyList DEF WInv, StepInv
<1>2. WInv => AdmittedFits
  BY <1>1, Zenon DEF AdmittedFits
<1> QED BY <1>2, WInvariance, PTL

\* accept_lock is held only inside accept and never by a process that has
\* ended.
THEOREM LockHeldInAccept == WSpec => []LockOnlyInAccept
<1>1. WInv => LockOnlyInAccept
  BY DEF WInv, LockInv
<1> QED BY <1>1, WInvariance, PTL

\* A worker that was told to stop ends with every connection closed.
THEOREM StopIsDrained == WSpec => []StopDrains
<1>1. WInv => StopDrains
  BY Zenon DEF WInv
<1> QED BY <1>1, WInvariance, PTL

\* An open connection has exactly one coroutine that will close it.
THEOREM OneOwner == WSpec => []ConnectionOwned
<1>1. WInv => ConnectionOwned
  BY DEF WInv, ConnInv
<1> QED BY <1>1, WInvariance, PTL

\* As long as there is memory for timer nodes, no coroutine of a worker is
\* lost.
THEOREM WorkerStrandsNone == ~AllocFails => (WSpec => []NeverStranded)
  BY WorkerImplementsRuntime, NoneStranded, Zenon DEF ImplementsRuntime

=============================================================================
