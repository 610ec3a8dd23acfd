---------------------------- MODULE SyscallHook ----------------------------
(***************************************************************************)
(* The coroutine runtime of a worker: the hooked system calls of           *)
(* src/src/syscall_hook.c on top of the scheduler (Sched) and the event    *)
(* table (Event).                                                          *)
(*                                                                         *)
(* The coroutines are any programs that use the runtime the way the server *)
(* does: a coroutine does I/O only on descriptors it owns, and ownership   *)
(* passes to the coroutine a descriptor is dispatched to.  Worker is one   *)
(* such program and is shown to implement this specification.              *)
(*                                                                         *)
(* Only one coroutine runs at a time, and it runs until it calls           *)
(* schedule_timeout or returns; an action is the code between two system   *)
(* calls or switches.  Retries after EINTR change nothing and are left     *)
(* out.                                                                    *)
(***************************************************************************)
EXTENDS Sched, Event

CONSTANTS
    Op,               \* the hooked calls that are used
    ListenFd,         \* open from the start and owned by the first coroutine
    ACCEPT_TIMEOUT,
    IO_TIMEOUT,       \* CONN_, READ_, RECV_, WRITE_ and SEND_TIMEOUT: all 10 s
    SleepTime         \* argument of a schedule_timeout outside any hook

ASSUME HookAssumption ==
    /\ Op \subseteq {"connect", "accept", "read", "recv", "write", "send"}
    /\ ListenFd \in Fd
    /\ Nil \notin Coro \cup {Main}
    /\ Nil \notin Fd
    /\ ACCEPT_TIMEOUT \in Nat /\ IO_TIMEOUT \in Nat /\ SleepTime \in Nat

VARIABLES
    owner,   \* the coroutine that uses an open descriptor, Nil if closed
    stage,   \* "run": in its own code; "call": about to make the real system
             \* call of a hook; "wait": in schedule_timeout
    op,      \* the hook a coroutine is in, "sleep" in a bare
             \* schedule_timeout, "none" otherwise
    fd       \* that hook's descriptor

hookVars == <<owner, stage, op, fd>>
vars == <<schedVars, eventVars, hookVars>>

what(o) == IF o \in {"accept", "read", "recv"} THEN "in" ELSE "out"
callback(o) == IF o \in {"connect", "accept"} THEN "conn" ELSE "rw"
timeout_of(o) == IF o = "accept" THEN ACCEPT_TIMEOUT ELSE IO_TIMEOUT

TypeOK ==
    /\ SchedTypeOK
    /\ EventTypeOK(Coro)
    /\ owner \in [Fd -> Coro \cup {Nil}]
    /\ stage \in [Coro -> {"run", "call", "wait"}]
    /\ op \in [Coro -> Op \cup {"sleep", "none"}]
    /\ fd \in [Coro -> Fd \cup {Nil}]

Init ==
    /\ event_loop_init
    /\ \E first \in Coro :
          /\ schedule_init(first)
          /\ owner = [f \in Fd |-> IF f = ListenFd THEN first ELSE Nil]
    /\ stage = [c \in Coro |-> "run"]
    /\ op = [c \in Coro |-> "none"]
    /\ fd = [c \in Coro |-> Nil]

-----------------------------------------------------------------------------
(***************************************************************************)
(* The hooks.                                                              *)
(***************************************************************************)

leave(c) ==
    /\ stage' = [stage EXCEPT ![c] = "run"]
    /\ op' = [op EXCEPT ![c] = "none"]
    /\ fd' = [fd EXCEPT ![c] = Nil]

\* A coroutine calls the hook of o on a descriptor of its own.
enter_hook(c, o, f) ==
    /\ current = c
    /\ stage[c] = "run"
    /\ owner[f] = c
    /\ stage' = [stage EXCEPT ![c] = "call"]
    /\ op' = [op EXCEPT ![c] = o]
    /\ fd' = [fd EXCEPT ![c] = f]
    /\ UNCHANGED <<owner, schedVars, eventVars>>

\* The hook returns without blocking: the real call succeeded, failed with
\* anything but EAGAIN (-1), or add_fd_event failed (-2).  For accept, also a
\* new connection whose socket options could not be set and that the hook
\* closed again (-4, -5, -6).
hook_returns(c) ==
    /\ current = c
    /\ stage[c] = "call"
    /\ leave(c)
    /\ UNCHANGED <<owner, schedVars, eventVars>>

\* accept returns the descriptor f of a new connection.
accept_returns(c, f) ==
    /\ current = c
    /\ stage[c] = "call"
    /\ op[c] = "accept"
    /\ owner[f] = Nil
    /\ owner' = [owner EXCEPT ![f] = c]
    /\ leave(c)
    /\ UNCHANGED <<schedVars, eventVars>>

\* EAGAIN (EINPROGRESS for connect): register for the event and suspend.
hook_blocks(c) ==
    /\ current = c
    /\ stage[c] = "call"
    /\ add_fd_event(fd[c], what(op[c]), callback(op[c]), c)
    /\ schedule_timeout(c, timeout_of(op[c]))
    /\ stage' = [stage EXCEPT ![c] = "wait"]
    /\ UNCHANGED <<owner, op, fd>>

\* Mutant: the hook returns before it removes its event.
hook_times_out_keeps_event(c) ==
    /\ current = c
    /\ stage[c] = "wait"
    /\ op[c] # "sleep"
    /\ active_by_timeout[c]
    /\ is_wakeup_by_timeout(c)
    /\ leave(c)
    /\ UNCHANGED <<owner, eventVars>>

\* Resumed because of the timer: errno is ETIME (ETIMEDOUT for connect) and
\* the hook returns -3.
hook_times_out(c) ==
    /\ current = c
    /\ stage[c] = "wait"
    /\ op[c] # "sleep"
    /\ del_fd_event(fd[c], what(op[c]))
    /\ active_by_timeout[c]
    /\ is_wakeup_by_timeout(c)
    /\ leave(c)
    /\ UNCHANGED owner

\* Resumed because of the event: try the call again; connect instead returns
\* what getsockopt says.
hook_ready(c) ==
    /\ current = c
    /\ stage[c] = "wait"
    /\ op[c] # "sleep"
    /\ del_fd_event(fd[c], what(op[c]))
    /\ ~active_by_timeout[c]
    /\ is_wakeup_by_timeout(c)
    /\ IF op[c] = "connect"
       THEN leave(c)
       ELSE stage' = [stage EXCEPT ![c] = "call"] /\ UNCHANGED <<op, fd>>
    /\ UNCHANGED owner

-----------------------------------------------------------------------------
(***************************************************************************)
(* What else a coroutine does with the runtime.                            *)
(***************************************************************************)

\* schedule_timeout outside a hook, as in worker_accept_cycle.
sleep(c) ==
    /\ current = c
    /\ stage[c] = "run"
    /\ schedule_timeout(c, SleepTime)
    /\ stage' = [stage EXCEPT ![c] = "wait"]
    /\ op' = [op EXCEPT ![c] = "sleep"]
    /\ UNCHANGED <<fd, owner, eventVars>>

\* ... returns; nobody looks at active_by_timeout.
sleep_returns(c) ==
    /\ current = c
    /\ stage[c] = "wait"
    /\ op[c] = "sleep"
    /\ leave(c)
    /\ UNCHANGED <<owner, schedVars, eventVars>>

\* A new coroutine d is given the descriptor f.
dispatch(c, d, f) ==
    /\ current = c
    /\ stage[c] = "run"
    /\ owner[f] = c
    /\ dispatch_coro(d)
    /\ owner' = [owner EXCEPT ![f] = d]
    /\ UNCHANGED <<stage, op, fd, eventVars>>

close_fd(c, f) ==
    /\ current = c
    /\ stage[c] = "run"
    /\ owner[f] = c
    /\ close(f)
    /\ owner' = [owner EXCEPT ![f] = Nil]
    /\ UNCHANGED <<stage, op, fd, schedVars>>

\* The coroutine's function returns.
finish(c) ==
    /\ stage[c] = "run"
    /\ coro_routine_proxy(c)
    /\ UNCHANGED <<hookVars, eventVars>>

-----------------------------------------------------------------------------
(***************************************************************************)
(* event_cycle, the policy of schedule_cycle.                              *)
(***************************************************************************)
event_cycle_wait ==
    /\ loop = "policy"
    /\ \E ready \in SUBSET Fd : epoll_wait(ready)
    /\ loop' = "events"
    /\ wait' = 0
    /\ UNCHANGED <<created, idle, active, inactive, timeout,
                   active_by_timeout, current, hookVars>>

\* fe->proc(fe->args) for one reported descriptor.
event_callback(f) ==
    /\ loop = "events"
    /\ f \in batch
    /\ batch' = batch \ {f}
    /\ IF proc[f] = "conn" THEN wakeup_coro_priority(args[f])
                           ELSE wakeup_coro(args[f])
    /\ UNCHANGED <<mask, proc, args, interest, hookVars>>

event_cycle_done ==
    /\ loop = "events"
    /\ batch = {}
    /\ loop' = "run_events"
    /\ UNCHANGED <<created, idle, active, inactive, timeout,
                   active_by_timeout, current, wait, eventVars, hookVars>>

schedule_cycle ==
    \/ \E c \in Coro : timeout_coroutine_handler(c) /\ UNCHANGED <<eventVars, hookVars>>
    \/ check_timeout_done /\ UNCHANGED <<eventVars, hookVars>>
    \/ run_active_coroutine /\ UNCHANGED <<eventVars, hookVars>>
    \/ run_timers_done /\ UNCHANGED <<eventVars, hookVars>>
    \/ event_cycle_wait
    \/ \E f \in Fd : event_callback(f)
    \/ event_cycle_done
    \/ run_events_done /\ UNCHANGED <<eventVars, hookVars>>

program(c) ==
    \/ \E o \in Op, f \in Fd : enter_hook(c, o, f)
    \/ hook_returns(c)
    \/ \E f \in Fd : accept_returns(c, f)
    \/ hook_blocks(c)
    \/ hook_times_out(c)
    \/ hook_ready(c)
    \/ sleep(c)
    \/ sleep_returns(c)
    \/ \E d \in Coro, f \in Fd : dispatch(c, d, f)
    \/ \E f \in Fd : close_fd(c, f)
    \/ finish(c)

clock == Tick /\ UNCHANGED <<eventVars, hookVars>>

Next ==
    \/ schedule_cycle
    \/ \E c \in Coro : program(c)
    \/ clock

Spec == Init /\ [][Next]_vars

-----------------------------------------------------------------------------
(***************************************************************************)
(* Properties                                                              *)
(***************************************************************************)

NoDup(s) == \A i, j \in 1..Len(s) : s[i] = s[j] => i = j

\* A coroutine that is suspended and that nothing has woken yet.
Blocked(c) == stage[c] = "wait" /\ c # current /\ ~InList(c, active)

\* The list heads of sched.c carry one link per coroutine: linking a
\* coroutine that is already linked, by waking it twice or by waking it while
\* it runs, would corrupt them.  A coroutine is in one place: a list holds it
\* once, the idle and active lists, the running coroutine and the timer tree
\* are disjoint, and only suspended coroutines are in the tree.
OnePlace ==
    /\ NoDup(idle) /\ NoDup(active)
    /\ \A c \in Coro :
          /\ InList(c, idle) => ~InList(c, active) /\ c # current
          /\ InList(c, active) => c # current
          /\ c \in inactive => Blocked(c) /\ ~InList(c, idle)
          /\ InList(c, idle) \/ InList(c, active) \/ c = current => c \in created

\* No coroutine is forgotten: one that is neither idle, nor active, nor
\* running is suspended, and its timer is in the tree.
NeverStranded ==
    \A c \in created :
        InList(c, idle) \/ InList(c, active) \/ c = current \/ c \in inactive

\* The table of event.c has one callback argument per descriptor and outlives
\* the descriptor.  Whenever a mask is set, its argument is the coroutine that
\* is suspended in a hook on this very descriptor, which is open; and a
\* coroutine suspended in a hook is registered for what it waits for.
Registered ==
    /\ \A f \in Fd : mask[f] # {} =>
          /\ args[f] \in Coro
          /\ owner[f] = args[f]
          /\ stage[args[f]] = "wait"
          /\ fd[args[f]] = f
    /\ \A c \in Coro : stage[c] = "wait" /\ op[c] # "sleep" =>
          /\ mask[fd[c]] = {what(op[c])}
          /\ args[fd[c]] = c
          /\ proc[fd[c]] = callback(op[c])

\* fe->mask is what the kernel has registered, through every sequence of
\* add_fd_event, del_fd_event, close and reuse of a descriptor number.
KernelAgrees == interest = mask

\* The table, the suspended coroutines and the kernel agree: add_fd_event picks
\* EPOLL_CTL_ADD or MOD, and event_cycle picks whom to wake, from the table.
TableAgrees == Registered /\ KernelAgrees

\* The callbacks of one epoll_wait wake distinct suspended coroutines: while
\* event_cycle works through its batch, no coroutine of the rest of the batch
\* has been woken by its timer or by another callback.
BatchIsBlocked ==
    \A f \in batch : /\ args[f] \in Coro
                     /\ Blocked(args[f])
                     /\ \A g \in batch : args[g] = args[f] => g = f

\* wakeup_coro_priority: at the end of the callbacks the coroutines suspended
\* in accept or connect come before those suspended in the other hooks.
AcceptFirst ==
    loop = "events" =>
        \A i, j \in 1..Len(active) :
            callback(op[active[i]]) = "rw" /\ callback(op[active[j]]) = "conn"
                => j < i

\* epoll_wait is never asked to block past the nearest deadline.
NoOversleep ==
    loop = "policy" => \A c \in inactive : wait <= timeout[c]

\* A hook gives up with a timeout only when its deadline has passed, although
\* worker_accept_cycle leaves active_by_timeout set when it sleeps.
TimeoutIsReal ==
    [][\A c \in Coro : hook_times_out(c) => timeout[c] = 0]_vars

\* The status of the coroutines as CoroStatus sees it.
status == [c \in Coro |->
              IF c \notin created THEN "new"
              ELSE IF c = current THEN "running"
              ELSE IF InList(c, idle) THEN "idle"
              ELSE IF InList(c, active) THEN "ready"
              ELSE "blocked"]

Abstract == INSTANCE CoroStatus WITH Coro <- Coro, status <- status

\* The runtime implements CoroStatus.
ImplementsCoroStatus == Abstract!Spec

=============================================================================
