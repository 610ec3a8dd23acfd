------------------------------ MODULE Process ------------------------------
(***************************************************************************)
(* The master process: master_process_cycle, fork_worker and               *)
(* worker_exit_handler of src/src/process.c with the signal handlers of    *)
(* src/src/signal.c, and the workers as the master sees them.              *)
(*                                                                         *)
(* A handler runs between any two steps of the main loop and to its end.   *)
(* SIGCHLD is pending as long as there is a zombie.  A worker that was     *)
(* told to stop or exit, or was forked with one of the flags set, ends     *)
(* some time later (Worker's StopEnds); it may also end by itself, because *)
(* its start failed or it crashed.                                         *)
(***************************************************************************)
EXTENDS Naturals, FiniteSets

CONSTANTS
    N,               \* g_worker_processes
    Pid,             \* process ids of workers; reaped ones are used again
    INVALID_PID,
    Faults           \* sets of what may go wrong: "fork" returns -1, "SIGCHLD"
                     \* arrives between fork and p->pid = pid

ASSUME ProcessAssumption ==
    /\ N \in Nat
    /\ INVALID_PID \notin Pid
    /\ Faults \subseteq SUBSET {"fork", "SIGCHLD"}

Index == 1..N

VARIABLES
    faults,               \* what may go wrong in this behaviour
    worker,               \* worker[i].pid
    g_shall_stop,
    g_shall_exit,
    all_workers_exit,
    shall_create_worker,
    pc,                   \* where the main loop is
    i,                    \* the loop index of the function it is in
    pid,                  \* fork_worker's local variable
    child,                \* a worker: "none", "live" or "zombie"
    told                  \* the flags a worker has: received or inherited

flags == <<g_shall_stop, g_shall_exit>>
vars == <<faults, worker, flags, all_workers_exit, shall_create_worker, pc,
          i, pid, child, told>>

TypeOK ==
    /\ faults \in Faults
    /\ worker \in [Index -> Pid \cup {INVALID_PID}]
    /\ g_shall_stop \in 0..2
    /\ g_shall_exit \in 0..2
    /\ all_workers_exit \in BOOLEAN
    /\ shall_create_worker \in BOOLEAN
    /\ pc \in {"stop", "send_stop", "exit", "send_exit", "all", "create",
               "spawn", "forked", "exited"}
    /\ i \in 1..(N + 1)
    /\ pid \in Pid \cup {INVALID_PID}
    /\ child \in [Pid -> {"none", "live", "zombie"}]
    /\ told \in [Pid -> SUBSET {"stop", "exit"}]

\* process_init
Init ==
    /\ faults \in Faults
    /\ worker = [k \in Index |-> INVALID_PID]
    /\ g_shall_stop = 0 /\ g_shall_exit = 0
    /\ all_workers_exit = FALSE
    /\ shall_create_worker = TRUE
    /\ pc = "stop" /\ i = 1 /\ pid = INVALID_PID
    /\ child = [p \in Pid |-> "none"]
    /\ told = [p \in Pid |-> {}]

worker_empty(w) == \A k \in Index : w[k] = INVALID_PID

-----------------------------------------------------------------------------
(***************************************************************************)
(* master_process_cycle                                                    *)
(***************************************************************************)
goto(l) == pc' = l /\ i' = 1

check_stop ==
    /\ pc = "stop"
    /\ goto(IF g_shall_stop = 1 THEN "send_stop" ELSE "exit")
    /\ UNCHANGED <<faults, worker, flags, all_workers_exit,
                   shall_create_worker, pid, child, told>>

check_exit ==
    /\ pc = "exit"
    /\ goto(IF g_shall_exit = 1 THEN "send_exit" ELSE "all")
    /\ UNCHANGED <<faults, worker, flags, all_workers_exit,
                   shall_create_worker, pid, child, told>>

\* One turn of send_signal_to_workers.  kill has no effect on a process that
\* has ended, and fails for one that has been reaped.
send_signal_to_workers(l, what) ==
    /\ pc = l
    /\ i <= N
    /\ i' = i + 1
    /\ IF worker[i] \in Pid /\ child[worker[i]] = "live"
       THEN told' = [told EXCEPT ![worker[i]] = @ \cup {what}]
       ELSE UNCHANGED told
    /\ UNCHANGED <<faults, worker, flags, all_workers_exit,
                   shall_create_worker, pc, pid, child>>

\* g_shall_stop = 2
stop_sent ==
    /\ pc = "send_stop" /\ i > N
    /\ g_shall_stop' = 2
    /\ goto("exit")
    /\ UNCHANGED <<faults, worker, g_shall_exit, all_workers_exit,
                   shall_create_worker, pid, child, told>>

\* g_shall_exit = 2
exit_sent ==
    /\ pc = "send_exit" /\ i > N
    /\ g_shall_exit' = 2
    /\ goto("all")
    /\ UNCHANGED <<faults, worker, g_shall_stop, all_workers_exit,
                   shall_create_worker, pid, child, told>>

check_all_exit ==
    /\ pc = "all"
    /\ goto(IF all_workers_exit THEN "exited" ELSE "create")
    /\ UNCHANGED <<faults, worker, flags, all_workers_exit,
                   shall_create_worker, pid, child, told>>

\* Without a worker to create: log_scan_write, usleep and the next turn.
check_create ==
    /\ pc = "create"
    /\ goto(IF shall_create_worker THEN "spawn" ELSE "stop")
    /\ shall_create_worker' = FALSE
    /\ UNCHANGED <<faults, worker, flags, all_workers_exit, pid, child, told>>

\* spawn_worker_process: a slot that is in use.
spawn_skips ==
    /\ pc = "spawn" /\ i <= N
    /\ worker[i] # INVALID_PID
    /\ i' = i + 1
    /\ UNCHANGED <<faults, worker, flags, all_workers_exit,
                   shall_create_worker, pc, pid, child, told>>

\* Mutant: a worker is forked for every slot.
fork_worker_every_slot(p) ==
    /\ pc = "spawn" /\ i <= N
    /\ child[p] = "none"
    /\ child' = [child EXCEPT ![p] = "live"]
    /\ told' = [told EXCEPT ![p] =
                    (IF g_shall_stop # 0 THEN {"stop"} ELSE {})
                      \cup (IF g_shall_exit # 0 THEN {"exit"} ELSE {})]
    /\ pid' = p
    /\ pc' = "forked"
    /\ UNCHANGED <<faults, worker, flags, all_workers_exit,
                   shall_create_worker, i>>

\* Mutant: a worker starts with the flags clear.
fork_worker_fresh(p) ==
    /\ pc = "spawn" /\ i <= N
    /\ worker[i] = INVALID_PID
    /\ child[p] = "none"
    /\ child' = [child EXCEPT ![p] = "live"]
    /\ told' = [told EXCEPT ![p] = {}]
    /\ pid' = p
    /\ pc' = "forked"
    /\ UNCHANGED <<faults, worker, flags, all_workers_exit,
                   shall_create_worker, i>>

\* fork: the child has the master's flags.
fork_worker(p) ==
    /\ pc = "spawn" /\ i <= N
    /\ worker[i] = INVALID_PID
    /\ child[p] = "none"
    /\ child' = [child EXCEPT ![p] = "live"]
    /\ told' = [told EXCEPT ![p] =
                    (IF g_shall_stop # 0 THEN {"stop"} ELSE {})
                      \cup (IF g_shall_exit # 0 THEN {"exit"} ELSE {})]
    /\ pid' = p
    /\ pc' = "forked"
    /\ UNCHANGED <<faults, worker, flags, all_workers_exit,
                   shall_create_worker, i>>

\* fork returned -1: an error is logged and the slot stays empty.
fork_fails ==
    /\ "fork" \in faults
    /\ pc = "spawn" /\ i <= N
    /\ worker[i] = INVALID_PID
    /\ i' = i + 1
    /\ UNCHANGED <<faults, worker, flags, all_workers_exit,
                   shall_create_worker, pc, pid, child, told>>

\* p->pid = pid
fork_returns ==
    /\ pc = "forked"
    /\ worker' = [worker EXCEPT ![i] = pid]
    /\ pid' = INVALID_PID
    /\ pc' = "spawn" /\ i' = i + 1
    /\ UNCHANGED <<faults, flags, all_workers_exit, shall_create_worker,
                   child, told>>

\* log_scan_write, usleep and the next turn.
spawn_done ==
    /\ pc = "spawn" /\ i > N
    /\ goto("stop")
    /\ UNCHANGED <<faults, worker, flags, all_workers_exit,
                   shall_create_worker, pid, child, told>>

master_process_cycle ==
    \/ check_stop \/ send_signal_to_workers("send_stop", "stop") \/ stop_sent
    \/ check_exit \/ send_signal_to_workers("send_exit", "exit") \/ exit_sent
    \/ check_all_exit
    \/ check_create
    \/ spawn_skips \/ (\E p \in Pid : fork_worker(p)) \/ fork_fails
    \/ fork_returns \/ spawn_done

-----------------------------------------------------------------------------
(***************************************************************************)
(* The master's signal handlers, and the workers.                          *)
(***************************************************************************)
master_signal_handler ==
    /\ pc # "exited"
    /\ \/ g_shall_stop' = 1 /\ UNCHANGED g_shall_exit
       \/ g_shall_exit' = 1 /\ UNCHANGED g_shall_stop
    /\ UNCHANGED <<faults, worker, all_workers_exit, shall_create_worker, pc,
                   i, pid, child, told>>

\* Mutant: only the first worker to end is replaced.
worker_exit_handler_once(p) ==
    /\ worker' = [k \in Index |->
                     IF worker[k] = p THEN INVALID_PID ELSE worker[k]]
    /\ shall_create_worker' = shall_create_worker
    /\ all_workers_exit' = (all_workers_exit \/
            (worker_empty(worker') /\ (g_shall_stop # 0 \/ g_shall_exit # 0)))

\* Mutant: the slots are looked at before the worker is removed.
worker_exit_handler_late(p) ==
    /\ worker' = [k \in Index |->
                     IF worker[k] = p THEN INVALID_PID ELSE worker[k]]
    /\ shall_create_worker' =
            (shall_create_worker \/ (g_shall_stop = 0 /\ g_shall_exit = 0))
    /\ all_workers_exit' = (all_workers_exit \/
            (worker_empty(worker) /\ (g_shall_stop # 0 \/ g_shall_exit # 0)))

worker_exit_handler(p) ==
    /\ worker' = [k \in Index |->
                     IF worker[k] = p THEN INVALID_PID ELSE worker[k]]
    /\ shall_create_worker' =
            (shall_create_worker \/ (g_shall_stop = 0 /\ g_shall_exit = 0))
    /\ all_workers_exit' = (all_workers_exit \/
            (worker_empty(worker') /\ (g_shall_stop # 0 \/ g_shall_exit # 0)))

\* SIGCHLD: one turn of the waitpid loop.
worker_process_get_status(p) ==
    /\ pc # "exited"
    /\ pc = "forked" => "SIGCHLD" \in faults
    /\ child[p] = "zombie"
    /\ child' = [child EXCEPT ![p] = "none"]
    /\ told' = [told EXCEPT ![p] = {}]
    /\ worker_exit_handler(p)
    /\ UNCHANGED <<faults, flags, pc, i, pid>>

\* A worker ends as it was told, or on its own account.
worker_ends(p) ==
    /\ child[p] = "live"
    /\ child' = [child EXCEPT ![p] = "zombie"]
    /\ UNCHANGED <<faults, worker, flags, all_workers_exit,
                   shall_create_worker, pc, i, pid, told>>

Next ==
    \/ master_process_cycle
    \/ master_signal_handler
    \/ \E p \in Pid : worker_process_get_status(p) \/ worker_ends(p)

Spec == Init /\ [][Next]_vars

-----------------------------------------------------------------------------
Live == {p \in Pid : child[p] = "live"}
Slots == {worker[k] : k \in Index}

\* The master knows every worker that runs: it is in a slot, or fork has just
\* returned it; and there are never more than worker_processes of them.
WorkersKnown ==
    /\ TypeOK
    /\ \A p \in Live : p \in Slots \/ p = pid
    /\ pc # "exited" => Cardinality(Live) <= N

\* Nobody misses the stop: once the master has notified its workers, every
\* worker that runs has the flag, whether it was signalled or forked before,
\* during or after the notification; and the master, when it ends, leaves no
\* worker behind that will not.
StopReachesAll ==
    /\ g_shall_stop = 2 => \A p \in Live : "stop" \in told[p]
    /\ g_shall_exit = 2 => \A p \in Live : "exit" \in told[p]
    /\ pc = "exited" => \A p \in Live : told[p] # {}

\* The main loop runs, SIGCHLD is delivered, and a worker that was told ends.
Fairness ==
    /\ WF_vars(master_process_cycle)
    /\ \A p \in Pid :
          /\ WF_vars(worker_process_get_status(p))
          /\ WF_vars(told[p] # {} /\ worker_ends(p))

FairSpec == Spec /\ Fairness

Stopping == g_shall_stop # 0 \/ g_shall_exit # 0

\* Told to stop, or to exit, the server ends ("wait for termination").
StopFinishes == Stopping ~> pc = "exited"

\* It does if fork works and SIGCHLD does not hit the middle of fork_worker:
\* workers being forked, signalled, reaped and replaced meanwhile are all
\* waited for, and the last SIGCHLD is not missed.
StopFinishesUnharmed == faults = {} /\ Stopping ~> pc = "exited"

\* A worker that "exits without receiving the signal" is replaced, under the
\* same condition.
Replaced ==
    \A k \in Index :
        faults = {} /\ worker[k] = INVALID_PID ~>
            worker[k] # INVALID_PID \/ Stopping

=============================================================================
