------------------------------- MODULE Worker -------------------------------
(***************************************************************************)
(* A worker process: the accept coroutine and the connection coroutines of *)
(* src/src/process.c, with the control flow of http_request_handler        *)
(* (src/src/http/request.c), as a program of the runtime SyscallHook.      *)
(*                                                                         *)
(* The first coroutine runs worker_accept_cycle, every other one runs      *)
(* handle_connection for one descriptor.  What a request says is left out: *)
(* after each recv the parser may want more or be done.  The other workers *)
(* appear only through accept_lock, which they take and release.           *)
(***************************************************************************)
EXTENDS SyscallHook, FiniteSets

CONSTANTS
    WorkerProcesses,   \* the settings of worker_processes to look at
    BufSize            \* room in the request buffer, in units recv may fill

ASSUME WorkerAssumption ==
    /\ IsFiniteSet(Coro)
    /\ WorkerProcesses \subseteq Nat \ {0}
    /\ BufSize \in Nat
    /\ {"accept", "recv", "send"} \subseteq Op

VARIABLES
    g_worker_processes, \* from the configuration
    step,               \* where a coroutine is in its function
    connfd,             \* the local connfd of both functions
    room,               \* b->end - b->last of the connection's buffer
    connection_count,
    g_shall_stop,       \* (as a Boolean: a worker only tests for 0)
    g_shall_exit,
    accept_lock,        \* "free", "mine" or "other": a worker's view
    exited              \* "no", or the exit(0) taken: "stop" or "exit"

workerVars == <<g_worker_processes, step, connfd, room, connection_count,
                g_shall_stop, g_shall_exit, accept_lock, exited>>
wvars == <<vars, workerVars>>

AcceptSteps == {"loop", "accept", "got", "sleep"}
HandlerSteps == {"start", "recv", "send", "close", "closed"}

g_worker_connections == Cardinality(Coro)
MultiProcess == g_worker_processes > 1

WTypeOK ==
    /\ TypeOK
    /\ g_worker_processes \in WorkerProcesses
    /\ step \in [Coro -> {"none"} \cup AcceptSteps \cup HandlerSteps]
    /\ connfd \in [Coro -> Fd \cup {Nil}]
    /\ room \in [Coro -> 0..BufSize]
    /\ connection_count \in 0..g_worker_connections
    /\ g_shall_stop \in BOOLEAN
    /\ g_shall_exit \in BOOLEAN
    /\ accept_lock \in {"free", "mine", "other"}
    /\ exited \in {"no", "stop", "exit"}

\* worker_process_cycle; the flags are the master's at the time of the fork.
WInit ==
    /\ Init
    /\ g_worker_processes \in WorkerProcesses
    /\ step = [c \in Coro |-> IF c \in created THEN "loop" ELSE "none"]
    /\ connfd = [c \in Coro |-> Nil]
    /\ room = [c \in Coro |-> 0]
    /\ connection_count = 1
    /\ g_shall_stop \in BOOLEAN
    /\ g_shall_exit \in BOOLEAN
    /\ accept_lock = "free"
    /\ exited = "no"

goto(c, s) == step' = [step EXCEPT ![c] = s]

worker_can_accept == connection_count < g_worker_connections

spin_unlock_accept == accept_lock' = IF MultiProcess THEN "free" ELSE accept_lock

\* Mutant: the count is compared before it is decreased.
decrease_conn_and_check_early(c) ==
    /\ connection_count' = connection_count - 1
    /\ IF connection_count <= 2
       THEN exited' = "stop" /\ UNCHANGED <<vars, step>>
       ELSE finish(c) /\ goto(c, "none") /\ UNCHANGED exited

\* decrease_conn_and_check: the last one out ends the process, otherwise the
\* caller's function returns.
decrease_conn_and_check(c) ==
    /\ connection_count' = connection_count - 1
    /\ IF connection_count = 1
       THEN exited' = "stop" /\ UNCHANGED <<vars, step>>
       ELSE finish(c) /\ goto(c, "none") /\ UNCHANGED exited

-----------------------------------------------------------------------------
(***************************************************************************)
(* worker_accept_cycle                                                     *)
(***************************************************************************)

\* Mutant: the accept cycle stays counted.
accept_stops_counted(c) ==
    /\ current = c /\ step[c] = "loop"
    /\ g_shall_stop
    /\ finish(c)
    /\ goto(c, "none")
    /\ UNCHANGED <<connfd, room, connection_count, g_shall_stop, g_shall_exit,
                   accept_lock, exited>>

accept_stops(c) ==
    /\ current = c /\ step[c] = "loop"
    /\ g_shall_stop
    /\ decrease_conn_and_check(c)
    /\ UNCHANGED <<connfd, room, g_shall_stop, g_shall_exit, accept_lock>>

accept_exits(c) ==
    /\ current = c /\ step[c] = "loop"
    /\ ~g_shall_stop /\ g_shall_exit
    /\ exited' = "exit"
    /\ UNCHANGED <<vars, step, connfd, room, connection_count, g_shall_stop,
                   g_shall_exit, accept_lock>>

\* Mutant: the limit is not looked at.
worker_accept_unlimited(c) ==
    /\ current = c /\ step[c] = "loop"
    /\ ~g_shall_stop /\ ~g_shall_exit
    /\ IF MultiProcess
       THEN accept_lock = "free" /\ accept_lock' = "mine"
       ELSE UNCHANGED accept_lock
    /\ enter_hook(c, "accept", ListenFd)
    /\ goto(c, "accept")
    /\ UNCHANGED <<connfd, room, connection_count, g_shall_stop, g_shall_exit,
                   exited>>

\* worker_accept calls accept, with several workers only under the limit and
\* with the lock.
worker_accept(c) ==
    /\ current = c /\ step[c] = "loop"
    /\ ~g_shall_stop /\ ~g_shall_exit
    /\ IF MultiProcess
       THEN worker_can_accept /\ accept_lock = "free" /\ accept_lock' = "mine"
       ELSE UNCHANGED accept_lock
    /\ enter_hook(c, "accept", ListenFd)
    /\ goto(c, "accept")
    /\ UNCHANGED <<connfd, room, connection_count, g_shall_stop, g_shall_exit,
                   exited>>

\* Mutant: the loop continues without the sleep.
worker_accept_busy_spins(c) ==
    /\ current = c /\ step[c] = "loop"
    /\ ~g_shall_stop /\ ~g_shall_exit
    /\ MultiProcess
    /\ ~worker_can_accept \/ accept_lock # "free"
    /\ UNCHANGED wvars

\* worker_accept returns 0 and the coroutine sleeps for 200 ms.
worker_accept_busy(c) ==
    /\ current = c /\ step[c] = "loop"
    /\ ~g_shall_stop /\ ~g_shall_exit
    /\ MultiProcess
    /\ ~worker_can_accept \/ accept_lock # "free"
    /\ sleep(c)
    /\ goto(c, "sleep")
    /\ UNCHANGED <<connfd, room, connection_count, g_shall_stop, g_shall_exit,
                   accept_lock, exited>>

accept_sleep_over(c) ==
    /\ step[c] = "sleep"
    /\ sleep_returns(c)
    /\ goto(c, "loop")
    /\ UNCHANGED <<connfd, room, connection_count, g_shall_stop, g_shall_exit,
                   accept_lock, exited>>

\* accept suspends, or goes on after an event; the lock is kept.  Linux takes
\* the new descriptor first: when none is left accept does not answer EAGAIN
\* but EMFILE, even if no connection is waiting (accept_fails).
accept_continues(c) ==
    /\ step[c] = "accept"
    /\ \/ hook_blocks(c) /\ \E f \in Fd : owner[f] = Nil
       \/ hook_ready(c)
    /\ UNCHANGED workerVars

\* Mutant: the lock is released only if a connection was accepted.
accept_fails_keeps_lock(c) ==
    /\ step[c] = "accept"
    /\ hook_returns(c) \/ hook_times_out(c)
    /\ goto(c, "loop")
    /\ UNCHANGED <<connfd, room, connection_count, g_shall_stop, g_shall_exit,
                   accept_lock, exited>>

\* accept returns a negative value; the loop continues at once.
accept_fails(c) ==
    /\ step[c] = "accept"
    /\ hook_returns(c) \/ hook_times_out(c)
    /\ spin_unlock_accept
    /\ goto(c, "loop")
    /\ UNCHANGED <<connfd, room, connection_count, g_shall_stop, g_shall_exit,
                   exited>>

accept_succeeds(c, f) ==
    /\ step[c] = "accept"
    /\ accept_returns(c, f)
    /\ spin_unlock_accept
    /\ connfd' = [connfd EXCEPT ![c] = f]
    /\ goto(c, "got")
    /\ UNCHANGED <<room, connection_count, g_shall_stop, g_shall_exit, exited>>

\* Mutant: increase_conn is forgotten.
dispatch_connection_uncounted(c, d) ==
    /\ step[c] = "got"
    /\ dispatch(c, d, connfd[c])
    /\ step' = [step EXCEPT ![c] = "loop", ![d] = "start"]
    /\ connfd' = [connfd EXCEPT ![c] = Nil, ![d] = connfd[c]]
    /\ UNCHANGED <<room, connection_count, g_shall_stop, g_shall_exit,
                   accept_lock, exited>>

dispatch_connection(c, d) ==
    /\ step[c] = "got"
    /\ dispatch(c, d, connfd[c])
    /\ step' = [step EXCEPT ![c] = "loop", ![d] = "start"]
    /\ connfd' = [connfd EXCEPT ![c] = Nil, ![d] = connfd[c]]
    /\ connection_count' = connection_count + 1
    /\ UNCHANGED <<room, g_shall_stop, g_shall_exit, accept_lock, exited>>

\* Mutant: the connection that could not be dispatched is left open.
dispatch_fails_leaks(c) ==
    /\ current = c /\ step[c] = "got"
    /\ dispatch_coro_fails
    /\ connfd' = [connfd EXCEPT ![c] = Nil]
    /\ goto(c, "loop")
    /\ UNCHANGED <<eventVars, hookVars, room, connection_count, g_shall_stop,
                   g_shall_exit, accept_lock, exited>>

\* "system busy to handle request."
dispatch_fails(c) ==
    /\ step[c] = "got"
    /\ dispatch_coro_fails
    /\ close_fd(c, connfd[c])
    /\ connfd' = [connfd EXCEPT ![c] = Nil]
    /\ goto(c, "loop")
    /\ UNCHANGED <<room, connection_count, g_shall_stop, g_shall_exit,
                   accept_lock, exited>>

worker_accept_cycle(c) ==
    \/ accept_stops(c)
    \/ accept_exits(c)
    \/ worker_accept(c)
    \/ worker_accept_busy(c)
    \/ accept_sleep_over(c)
    \/ accept_continues(c)
    \/ accept_fails(c)
    \/ \E f \in Fd : accept_succeeds(c, f)
    \/ \E d \in Coro : dispatch_connection(c, d)
    \/ dispatch_fails(c)

-----------------------------------------------------------------------------
(***************************************************************************)
(* handle_connection                                                       *)
(***************************************************************************)

\* http_request_handler: without memory for the request it answers at once.
request_starts(c) ==
    /\ current = c /\ step[c] = "start"
    /\ \/ goto(c, "recv") /\ room' = [room EXCEPT ![c] = BufSize]
       \/ goto(c, "send") /\ UNCHANGED room
    /\ UNCHANGED <<vars, connfd, connection_count, g_shall_stop, g_shall_exit,
                   accept_lock, exited>>

\* recv_http_request
recv_http_request(c) ==
    /\ current = c /\ step[c] = "recv"
    /\ room[c] > 0
    /\ enter_hook(c, "recv", connfd[c])
    /\ UNCHANGED workerVars

\* A full buffer is an error, and an error is answered.
buffer_full(c) ==
    /\ current = c /\ step[c] = "recv" /\ stage[c] = "run"
    /\ room[c] = 0
    /\ goto(c, "send")
    /\ UNCHANGED <<vars, connfd, room, connection_count, g_shall_stop,
                   g_shall_exit, accept_lock, exited>>

io_continues(c) ==
    /\ step[c] \in {"recv", "send"}
    /\ hook_blocks(c) \/ hook_ready(c)
    /\ UNCHANGED workerVars

\* n bytes: the parser needs more, or the answer is next.
recv_succeeds(c) ==
    /\ step[c] = "recv"
    /\ hook_returns(c)
    /\ \E n \in 1..BufSize :
          n <= room[c] /\ room' = [room EXCEPT ![c] = @ - n]
    /\ goto(c, "recv") \/ goto(c, "send")
    /\ UNCHANGED <<connfd, connection_count, g_shall_stop, g_shall_exit,
                   accept_lock, exited>>

\* Mutant: the handler of a timeout returns before the event is removed.
recv_fails_keeps_event(c) ==
    /\ step[c] = "recv"
    /\ hook_returns(c) \/ hook_times_out_keeps_event(c)
    /\ goto(c, "send")
    /\ UNCHANGED <<connfd, room, connection_count, g_shall_stop, g_shall_exit,
                   accept_lock, exited>>

\* An error, a timeout, or the client closed: answered as well.
recv_fails(c) ==
    /\ step[c] = "recv"
    /\ hook_returns(c) \/ hook_times_out(c)
    /\ goto(c, "send")
    /\ UNCHANGED <<connfd, room, connection_count, g_shall_stop, g_shall_exit,
                   accept_lock, exited>>

\* http_finalize_request or http_fast_response: one send,
send_response(c) ==
    /\ current = c /\ step[c] = "send"
    /\ enter_hook(c, "send", connfd[c])
    /\ UNCHANGED workerVars

\* the result of which is ignored.
send_done(c) ==
    /\ step[c] = "send"
    /\ hook_returns(c) \/ hook_times_out(c)
    /\ goto(c, "close")
    /\ UNCHANGED <<connfd, room, connection_count, g_shall_stop, g_shall_exit,
                   accept_lock, exited>>

close_connection(c) ==
    /\ step[c] = "close"
    /\ close_fd(c, connfd[c])
    /\ connfd' = [connfd EXCEPT ![c] = Nil]
    /\ goto(c, "closed")
    /\ UNCHANGED <<room, connection_count, g_shall_stop, g_shall_exit,
                   accept_lock, exited>>

connection_done(c) ==
    /\ current = c /\ step[c] = "closed"
    /\ decrease_conn_and_check(c)
    /\ room' = [room EXCEPT ![c] = 0]
    /\ UNCHANGED <<connfd, g_shall_stop, g_shall_exit, accept_lock>>

handle_connection(c) ==
    \/ request_starts(c)
    \/ recv_http_request(c)
    \/ buffer_full(c)
    \/ io_continues(c)
    \/ recv_succeeds(c)
    \/ recv_fails(c)
    \/ send_response(c)
    \/ send_done(c)
    \/ close_connection(c)
    \/ connection_done(c)

-----------------------------------------------------------------------------
(***************************************************************************)
(* The environment: signals, and the other workers.                        *)
(***************************************************************************)
worker_signal_handler ==
    /\ \/ g_shall_stop' = TRUE /\ UNCHANGED g_shall_exit
       \/ g_shall_exit' = TRUE /\ UNCHANGED g_shall_stop
    /\ UNCHANGED <<vars, step, connfd, room, connection_count, accept_lock,
                   exited>>

other_worker ==
    /\ MultiProcess
    /\ \/ accept_lock = "free" /\ accept_lock' = "other"
       \/ accept_lock = "other" /\ accept_lock' = "free"
    /\ UNCHANGED <<vars, step, connfd, room, connection_count, g_shall_stop,
                   g_shall_exit, exited>>

scheduler == schedule_cycle /\ UNCHANGED workerVars

coroutine_step(c) == worker_accept_cycle(c) \/ handle_connection(c)

\* The process has not ended; the configuration does not change.
alive(A) == exited = "no" /\ UNCHANGED g_worker_processes /\ A

WNext ==
    \/ alive(scheduler)
    \/ \E c \in Coro : alive(coroutine_step(c))
    \/ alive(clock /\ UNCHANGED workerVars)
    \/ alive(worker_signal_handler)
    \/ alive(other_worker)

WSpec == WInit /\ [][WNext]_wvars

-----------------------------------------------------------------------------
(***************************************************************************)
(* Safety                                                                  *)
(***************************************************************************)

Connections == {c \in Coro : step[c] \in HandlerSteps}
Accepting == {c \in Coro : step[c] \in AcceptSteps}

\* connection_count ("if 0, worker exits") is 1 for the accept cycle as long
\* as it runs plus the number of connection coroutines; and the variables have
\* their types, so no recv goes past the end of its buffer.
CountIsExact ==
    /\ WTypeOK
    /\ exited = "no" =>
          connection_count = Cardinality(Connections) + Cardinality(Accepting)

\* With several workers a connection is only taken on if a coroutine is left
\* for it: the limit is checked before accept suspends, and still holds when
\* it returns a connection.  (dispatch_coro can then only fail for memory.)
AdmittedFits ==
    MultiProcess =>
        \A c \in Coro : step[c] \in {"accept", "got"} =>
            idle # <<>> \/ created # Coro

\* accept_lock is held across the suspensions inside accept, and by nothing
\* else: not while the accept cycle sleeps, and not when the process ends,
\* which would keep every other worker from accepting for good.
LockOnlyInAccept ==
    accept_lock = "mine" => exited = "no" /\ \E c \in Coro : step[c] = "accept"

\* A worker that was told to stop ends only when every connection it took on
\* has been answered and closed.
StopDrains ==
    exited = "stop" => \A f \in Fd \ {ListenFd} : owner[f] = Nil

\* Descriptors neither leak nor are used after close: an open connection
\* belongs to the one coroutine that will close it, and a coroutine that still
\* has its connection to serve owns it.
ConnectionOwned ==
    /\ \A f \in Fd \ {ListenFd} : owner[f] # Nil =>
          connfd[owner[f]] = f /\ step[owner[f]] \in HandlerSteps \cup {"got"}
    /\ \A c \in Coro : step[c] \in {"got", "start", "recv", "send", "close"} =>
          connfd[c] \in Fd /\ owner[connfd[c]] = c

-----------------------------------------------------------------------------
(***************************************************************************)
(* Liveness.  The process is scheduled, so the scheduler and the running   *)
(* coroutine take their steps, and time passes.  The kernel, asked again   *)
(* and again after reporting a descriptor ready, does not answer EAGAIN    *)
(* for ever (a connection has one reader, and the holder of accept_lock is *)
(* the only one to accept), and it does not fail every accept for ever as  *)
(* long as a descriptor is left for it.                                    *)
(***************************************************************************)
io_returns(c) == recv_succeeds(c) \/ recv_fails(c) \/ send_done(c)
accept_returns_connection(c) == \E f \in Fd : accept_succeeds(c, f)

Fairness ==
    /\ WF_wvars(alive(scheduler))
    /\ WF_wvars(alive(\E c \in Coro : coroutine_step(c)))
    /\ SF_wvars(alive(clock /\ UNCHANGED workerVars))
    /\ SF_wvars(alive(\E c \in Coro : io_returns(c)))
    /\ SF_wvars(alive(\E c \in Coro :
            accept_fails(c) \/ accept_returns_connection(c)))
    /\ SF_wvars(alive(\E c \in Coro :
            accept_continues(c) \/ accept_returns_connection(c)))

FairWSpec == WSpec /\ Fairness

\* A worker that is told to stop or to exit ends, whatever its clients do: the
\* accept cycle comes back to look at the flags, and after a stop the last
\* connection to end takes the process with it.
StopEnds == g_shall_stop \/ g_shall_exit ~> exited # "no"

\* A coroutine that is ready is switched to: no coroutine of the worker keeps
\* the processor for ever.
ReadyRuns ==
    \A c \in Coro : InList(c, active) ~> (current = c \/ exited # "no")

-----------------------------------------------------------------------------
\* worker_accept_cycle and handle_connection use the runtime the way
\* SyscallHook lets a program use it (I/O only on descriptors they own, one
\* hook at a time, a dispatch or a close only of their own connection), so
\* what holds of every such program holds of the worker.
ImplementsRuntime == Spec

=============================================================================
