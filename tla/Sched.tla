------------------------------- MODULE Sched -------------------------------
(***************************************************************************)
(* The coroutine scheduler of a worker process, src/src/coro/sched.c.      *)
(*                                                                         *)
(* A coroutine is linked in at most one of three places: the idle list     *)
(* (finished, stack kept for reuse), the active list (will be switched to) *)
(* and the tree of timers (suspended in schedule_timeout).  The operators  *)
(* below are the operations of sched.c; the module that composes them with *)
(* the event table and the system call hooks is SyscallHook.               *)
(*                                                                         *)
(* Time.  sched.c only compares deadlines with the clock and with one      *)
(* another, so timeout[c] holds what is left of the deadline, coro->timeout*)
(* - now, and is 0 from the moment it has passed.  Deadlines that have     *)
(* already passed are then equal; the order in which they are woken, which *)
(* in the code is by deadline and then by the shape of a red-black tree,   *)
(* is any order here.  Timer nodes with equal keys are one node, and the   *)
(* two levels of trees are the set of the coroutines linked in them.       *)
(***************************************************************************)
EXTENDS Naturals, Sequences

CONSTANTS
    Coro,           \* the max_coro_size coroutines the pool may hold
    Main,           \* sched.main_coro: the context that runs schedule_cycle
    DefaultWait,    \* epoll_wait's limit when no timer is set (10 s)
    AllocFails      \* may memory for a timer node run out?

ASSUME SchedAssumption ==
    /\ Main \notin Coro
    /\ DefaultWait \in Nat
    /\ AllocFails \in BOOLEAN

VARIABLES
    created,            \* the coroutines create_coroutine has made
    idle,               \* sched.idle
    active,             \* sched.active
    inactive,           \* the coroutines in the tree sched.inactive
    timeout,            \* coro->timeout, as time left (0: passed)
    active_by_timeout,  \* coro->active_by_timeout
    current,            \* sched.current
    loop,               \* where schedule_cycle is
    wait                \* time left for the epoll_wait in progress

schedVars == <<created, idle, active, inactive, timeout, active_by_timeout,
               current, loop, wait>>

Loops == {"check_timeout", "run_timers", "policy", "events", "run_events"}

InList(c, s) == \E i \in 1..Len(s) : s[i] = c

SchedTypeOK ==
    /\ created \subseteq Coro
    /\ idle \in Seq(Coro)
    /\ active \in Seq(Coro)
    /\ inactive \subseteq Coro
    /\ timeout \in [Coro -> Nat]
    /\ active_by_timeout \in [Coro -> BOOLEAN]
    /\ current \in Coro \cup {Main}
    /\ loop \in Loops
    /\ wait \in Nat

(***************************************************************************)
(* schedule_init, followed by the dispatch_coro of the worker's first      *)
(* coroutine (process.c:182-184): schedule_cycle starts with that          *)
(* coroutine in the active list.                                           *)
(***************************************************************************)
schedule_init(first) ==
    /\ created = {first}
    /\ idle = <<>>
    /\ active = <<first>>
    /\ inactive = {}
    /\ timeout = [c \in Coro |-> 0]
    /\ active_by_timeout = [c \in Coro |-> FALSE]
    /\ current = Main
    /\ loop = "check_timeout"
    /\ wait = 0

-----------------------------------------------------------------------------
(***************************************************************************)
(* Operations called by the running coroutine.                             *)
(***************************************************************************)

\* Mutant: a deadline that is already in the tree is not inserted again.
move_to_inactive_tree_drops(c, ms) ==
    inactive' = IF \E d \in inactive : timeout[d] = ms THEN inactive
                                                    ELSE inactive \cup {c}

\* A coroutine whose deadline equals that of a timer node joins the node;
\* otherwise a node is allocated, and on failure the function just returns.
move_to_inactive_tree(c, ms) ==
    \/ inactive' = inactive \cup {c}
    \/ /\ AllocFails
       /\ \A d \in inactive : timeout[d] # ms
       /\ inactive' = inactive

schedule_timeout(c, ms) ==
    /\ current = c
    /\ timeout' = [timeout EXCEPT ![c] = ms]
    /\ move_to_inactive_tree(c, ms)
    /\ current' = Main
    /\ UNCHANGED <<created, idle, active, active_by_timeout, loop, wait>>

\* Reads and clears the flag; the result is active_by_timeout[c].
is_wakeup_by_timeout(c) ==
    /\ current = c
    /\ active_by_timeout' = [active_by_timeout EXCEPT ![c] = FALSE]
    /\ UNCHANGED <<created, idle, active, inactive, timeout, current, loop,
                   wait>>

get_coroutine(d) ==
    \/ /\ idle # <<>>
       /\ d = Head(idle)
       /\ idle' = Tail(idle)
       /\ created' = created
    \/ /\ idle = <<>>
       /\ d \in Coro \ created
       /\ created' = created \cup {d}
       /\ idle' = idle

dispatch_coro(d) ==
    /\ current # Main
    /\ get_coroutine(d)
    /\ timeout' = [timeout EXCEPT ![d] = 0]
    /\ active_by_timeout' = [active_by_timeout EXCEPT ![d] = FALSE]
    /\ active' = Append(active, d)
    /\ UNCHANGED <<inactive, current, loop, wait>>

\* dispatch_coro returns -1: nothing to reuse, and either the pool is at
\* max_coro_size or memory for a new coroutine or its stack ran out.
dispatch_coro_fails ==
    /\ current # Main
    /\ idle = <<>>
    /\ UNCHANGED schedVars

\* Mutant: a coroutine that has finished is linked in the wrong list.
coro_routine_proxy_requeues(c) ==
    /\ current = c
    /\ active' = Append(active, c)
    /\ current' = Main
    /\ UNCHANGED <<created, idle, inactive, timeout, active_by_timeout, loop,
                   wait>>

\* coro->func has returned.
coro_routine_proxy(c) ==
    /\ current = c
    /\ idle' = Append(idle, c)
    /\ current' = Main
    /\ UNCHANGED <<created, active, inactive, timeout, active_by_timeout,
                   loop, wait>>

-----------------------------------------------------------------------------
(***************************************************************************)
(* schedule_cycle, run by Main.                                            *)
(***************************************************************************)

\* Mutant: the expired coroutine is put in the active list but stays in the
\* tree.
timeout_coroutine_handler_keeps(c) ==
    /\ loop = "check_timeout"
    /\ c \in inactive
    /\ timeout[c] = 0
    /\ ~InList(c, active)
    /\ active_by_timeout' = [active_by_timeout EXCEPT ![c] = TRUE]
    /\ active' = Append(active, c)
    /\ UNCHANGED <<created, idle, inactive, timeout, current, loop, wait>>

\* One coroutine of an expired timer node.
timeout_coroutine_handler(c) ==
    /\ loop = "check_timeout"
    /\ c \in inactive
    /\ timeout[c] = 0
    /\ inactive' = inactive \ {c}
    /\ active_by_timeout' = [active_by_timeout EXCEPT ![c] = TRUE]
    /\ active' = Append(active, c)
    /\ UNCHANGED <<created, idle, timeout, current, loop, wait>>

\* Mutant: coroutines woken by their timer are not run before events are
\* collected.
check_timeout_done_skips_run ==
    /\ loop = "check_timeout"
    /\ \A c \in inactive : timeout[c] > 0
    /\ loop' = "policy"
    /\ UNCHANGED <<created, idle, active, inactive, timeout,
                   active_by_timeout, current, wait>>

\* check_timeout_coroutine returns: no node is due.
check_timeout_done ==
    /\ loop = "check_timeout"
    /\ \A c \in inactive : timeout[c] > 0
    /\ loop' = "run_timers"
    /\ UNCHANGED <<created, idle, active, inactive, timeout,
                   active_by_timeout, current, wait>>

\* One turn of run_active_coroutine: switch to the head of the active list.
run_active_coroutine ==
    /\ loop \in {"run_timers", "run_events"}
    /\ current = Main
    /\ active # <<>>
    /\ current' = Head(active)
    /\ active' = Tail(active)
    /\ UNCHANGED <<created, idle, inactive, timeout, active_by_timeout, loop,
                   wait>>

\* Mutant: the limit does not look at the timers.
get_recent_timespan_fixed(w) == w = DefaultWait

\* w is the time epoll_wait may block: until the nearest deadline.
get_recent_timespan(w) ==
    \/ inactive = {} /\ w = DefaultWait
    \/ \E c \in inactive : /\ w = timeout[c]
                           /\ \A d \in inactive : timeout[c] <= timeout[d]

\* The first run_active_coroutine found the list empty: call the policy.
run_timers_done ==
    /\ loop = "run_timers"
    /\ current = Main
    /\ active = <<>>
    /\ loop' = "policy"
    /\ \E w \in {DefaultWait} \cup {timeout[c] : c \in inactive} :
          get_recent_timespan(w) /\ wait' = w
    /\ UNCHANGED <<created, idle, active, inactive, timeout,
                   active_by_timeout, current>>

\* The second one did: start the next cycle.
run_events_done ==
    /\ loop = "run_events"
    /\ current = Main
    /\ active = <<>>
    /\ loop' = "check_timeout"
    /\ UNCHANGED <<created, idle, active, inactive, timeout,
                   active_by_timeout, current, wait>>

-----------------------------------------------------------------------------
(***************************************************************************)
(* Operations called by event callbacks, inside the policy.                *)
(***************************************************************************)

remove_from_inactive_tree(c) == inactive \ {c}

wakeup_coro(c) ==
    /\ active_by_timeout' = [active_by_timeout EXCEPT ![c] = FALSE]
    /\ inactive' = remove_from_inactive_tree(c)
    /\ active' = Append(active, c)
    /\ UNCHANGED <<created, idle, timeout, current, loop, wait>>

\* Mutant: the flag left by an earlier timeout is not cleared.
wakeup_coro_priority_stale(c) ==
    /\ inactive' = remove_from_inactive_tree(c)
    /\ active' = <<c>> \o active
    /\ UNCHANGED <<created, idle, timeout, active_by_timeout, current, loop,
                   wait>>

\* Mutant: no priority.
wakeup_coro_priority_tail(c) == wakeup_coro(c)

wakeup_coro_priority(c) ==
    /\ active_by_timeout' = [active_by_timeout EXCEPT ![c] = FALSE]
    /\ inactive' = remove_from_inactive_tree(c)
    /\ active' = <<c>> \o active
    /\ UNCHANGED <<created, idle, timeout, current, loop, wait>>

-----------------------------------------------------------------------------
(***************************************************************************)
(* The clock (get_curr_mseconds).  Time passes while coroutines run and    *)
(* while epoll_wait blocks; check_timeout_coroutine reads the clock once,  *)
(* so a tick during it is the same as a tick after it, and the callbacks   *)
(* do not read it.                                                         *)
(***************************************************************************)

Left(t) == IF t > 0 THEN t - 1 ELSE 0

Tick ==
    /\ loop \in {"run_timers", "policy", "run_events"}
    /\ timeout' = [c \in Coro |-> Left(timeout[c])]
    /\ wait' = Left(wait)
    /\ UNCHANGED <<created, idle, active, inactive, active_by_timeout,
                   current, loop>>
=============================================================================
