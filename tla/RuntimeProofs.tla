--------------------------- MODULE RuntimeProofs ----------------------------
(***************************************************************************)
(* What is proved of the coroutine runtime.                                *)
(***************************************************************************)
EXTENDS RuntimeInv

\* The initial states.
LEMMA InitInv == Init => IInv
<1> SUFFICES ASSUME Init PROVE IInv
  BY Zenon
<1> USE SchedAssumption, HookAssumption
<1>1. PICK first \in Coro : schedule_init(first)
  BY Zenon DEF Init
<1>2. active = <<first>> /\ idle = <<>> /\ active \in Seq(Coro)
  BY <1>1 DEF schedule_init
<1>3. NoDup(active) /\ \A x : InList(x, active) <=> x = first
  <2>1. active = Append(<<>>, first)
    BY <1>2
  <2> QED BY <2>1, EmptyList, AppendList, Zenon
<1>4. NoDup(idle) /\ idle \in Seq(Coro) /\ \A x : ~InList(x, idle)
  BY <1>2, EmptyList, Zenon
<1>5. TypeOK
  BY <1>1, <1>2, <1>4 DEF Init, schedule_init, event_loop_init, TypeOK,
     SchedTypeOK, EventTypeOK, Loops
<1>6. OnePlace
  BY <1>1, <1>3, <1>4, Zenon DEF schedule_init, OnePlace
<1>7. Registered /\ KernelAgrees /\ BatchIsBlocked
  BY Zenon DEF Init, event_loop_init, Registered, KernelAgrees, BatchIsBlocked
<1>8. PhaseInv /\ StageInv
  BY <1>1, Zenon DEF Init, schedule_init, event_loop_init, PhaseInv, StageInv
<1> QED BY <1>5, <1>6, <1>7, <1>8, Zenon DEF IInv

\* Every step preserves the invariant.
LEMMA NextInv ==
    ASSUME IInv, [Next]_vars
    PROVE  IInv'
<1>1. CASE schedule_cycle
  BY <1>1, TimeoutHandlerInv, RunActiveInv, EventCycleWaitInv,
     EventCallbackInv, PhaseDoneInv, Zenon DEF schedule_cycle, event_cycle_done
<1>2. ASSUME NEW c \in Coro, program(c) PROVE IInv'
  BY <1>2, EnterHookInv, HookReturnsInv, AcceptReturnsInv, HookBlocksInv,
     HookResumesInv, SleepInv, SleepReturnsInv, DispatchInv,
     CloseInv, FinishInv, Zenon DEF program
<1>3. CASE clock
  BY <1>3, ClockInv, Zenon
<1>4. CASE UNCHANGED vars
  BY <1>4, PhaseMoves, Zenon
     DEF vars, schedVars, eventVars, IInv, TypeOK, SchedTypeOK, PhaseInv
<1> QED BY <1>1, <1>2, <1>3, <1>4, Zenon DEF Next

\* IInv is an invariant of the runtime.
THEOREM Invariance == Spec => []IInv
  BY InitInv, NextInv, PTL DEF Spec

\* Every variable of the runtime keeps its type.
THEOREM TypeCorrect == Spec => []TypeOK
<1>1. IInv => TypeOK
  BY Zenon DEF IInv
<1> QED BY <1>1, Invariance, PTL

\* A coroutine is in one place of the scheduler (the idle list, the active
\* list, running, or the timer tree), whatever the programs, the events and
\* the timers do, so no list link of sched.c is used twice.
THEOREM OnePlaceHolds == Spec => []OnePlace
<1>1. IInv => OnePlace
  BY Zenon DEF IInv
<1> QED BY <1>1, Invariance, PTL

\* The event table: a mask that is set belongs to the coroutine suspended on
\* that very descriptor, and the kernel has registered the same mask.
THEOREM TableIsCurrent == Spec => []TableAgrees
<1>1. IInv => TableAgrees
  BY Zenon DEF IInv, TableAgrees
<1> QED BY <1>1, Invariance, PTL

\* The callbacks of one epoll_wait wake distinct, suspended coroutines.
THEOREM NoDoubleWake == Spec => []BatchIsBlocked
<1>1. IInv => BatchIsBlocked
  BY Zenon DEF IInv
<1> QED BY <1>1, Invariance, PTL

-----------------------------------------------------------------------------
(***************************************************************************)
(* Timers, the order of wake-ups, and lost coroutines.                     *)
(***************************************************************************)

\* Coroutines woken by their timer are past their deadline.
LEMMA TimerStep ==
    ASSUME IInv, TimerInv, [Next]_vars
    PROVE  TimerInv'
<1> USE DEF IInv, TimerInv, Blocked
<1>1. CASE Quiet
  BY <1>1, Zenon DEF Quiet
<1>2. ASSUME NEW c \in Coro, hook_blocks(c) PROVE TimerInv'
  <2>1. /\ current = c /\ current' = Main /\ c # Main
        /\ active' = active /\ active_by_timeout' = active_by_timeout
        /\ timeout' = [timeout EXCEPT ![c] = timeout_of(op[c])]
        /\ stage' = [stage EXCEPT ![c] = "wait"]
    BY <1>2, SchedAssumption, Zenon DEF hook_blocks, schedule_timeout
  <2> QED BY <2>1, SchedAssumption, Zenon DEF TypeOK, SchedTypeOK, OnePlace
<1>3. ASSUME NEW c \in Coro, sleep(c) PROVE TimerInv'
  <2>1. /\ current = c /\ current' = Main /\ c # Main
        /\ active' = active /\ active_by_timeout' = active_by_timeout
        /\ timeout' = [timeout EXCEPT ![c] = SleepTime]
        /\ stage' = [stage EXCEPT ![c] = "wait"]
    BY <1>3, SchedAssumption, Zenon DEF sleep, schedule_timeout
  <2> QED BY <2>1, SchedAssumption, Zenon DEF TypeOK, SchedTypeOK, OnePlace
<1>4. ASSUME NEW c \in Coro, NEW d \in Coro, NEW f \in Fd, dispatch(c, d, f)
      PROVE  TimerInv'
  <2>1. /\ current' = current /\ active' = Append(active, d) /\ stage' = stage
        /\ timeout' = [timeout EXCEPT ![d] = 0]
        /\ active_by_timeout' = [active_by_timeout EXCEPT ![d] = FALSE]
    BY <1>4, Zenon DEF dispatch, dispatch_coro
  <2>2. active \in Seq(Coro)
    BY Zenon DEF TypeOK, SchedTypeOK
  <2>3. \A x : InList(x, active') <=> InList(x, active) \/ x = d
    BY <2>1, <2>2, AppendList, Zenon
  <2> QED BY <2>1, <2>3, Zenon DEF TypeOK, SchedTypeOK
<1>5. ASSUME NEW c \in Coro, finish(c) PROVE TimerInv'
  BY <1>5, SchedAssumption, Zenon DEF finish, coro_routine_proxy, hookVars
<1>6. ASSUME NEW c \in Coro, timeout_coroutine_handler(c), UNCHANGED hookVars
      PROVE  TimerInv'
  <2>1. /\ current' = current /\ active' = Append(active, c) /\ stage' = stage
        /\ timeout' = timeout /\ timeout[c] = 0
        /\ active_by_timeout' = [active_by_timeout EXCEPT ![c] = TRUE]
    BY <1>6, Zenon DEF timeout_coroutine_handler, hookVars
  <2>2. active \in Seq(Coro)
    BY Zenon DEF TypeOK, SchedTypeOK
  <2>3. \A x : InList(x, active') <=> InList(x, active) \/ x = c
    BY <2>1, <2>2, AppendList, Zenon
  <2> QED BY <2>1, <2>3, Zenon DEF TypeOK, SchedTypeOK
<1>7. CASE run_active_coroutine /\ UNCHANGED hookVars
  <2>1. /\ active # <<>> /\ active' = Tail(active) /\ current' = Head(active)
        /\ current = Main /\ stage' = stage /\ timeout' = timeout
        /\ active_by_timeout' = active_by_timeout
    BY <1>7, Zenon DEF run_active_coroutine, hookVars
  <2>2. active \in Seq(Coro)
    BY Zenon DEF TypeOK, SchedTypeOK
  <2>3. \A x : InList(x, active) <=> x = current' \/ InList(x, active')
    BY <2>1, <2>2, TailList, Zenon
  <2> QED BY <2>1, <2>3, SchedAssumption, Zenon
<1>8. ASSUME NEW f \in Fd, event_callback(f) PROVE TimerInv'
  <2>1. /\ current' = current /\ stage' = stage /\ timeout' = timeout
        /\ f \in batch
        /\ active_by_timeout' = [active_by_timeout EXCEPT ![args[f]] = FALSE]
        /\ active' = Append(active, args[f]) \/ active' = <<args[f]>> \o active
    BY <1>8, Zenon DEF event_callback, wakeup_coro, wakeup_coro_priority,
       hookVars
  <2>2. args[f] \in Coro /\ ~InList(args[f], active)
    BY <2>1, Zenon DEF BatchIsBlocked
  <2>3. \A x : InList(x, active') <=> InList(x, active) \/ x = args[f]
    BY <2>1, <2>2, Woken, Zenon DEF IInv
  <2> QED BY <2>1, <2>2, <2>3, Zenon DEF TypeOK, SchedTypeOK
<1> QED
  BY <1>1, <1>2, <1>3, <1>4, <1>5, <1>6, <1>7, <1>8, StepKinds, Zenon

\* A hook reports a timeout only when its deadline has passed, although
\* worker_accept_cycle's sleep leaves active_by_timeout set.
THEOREM TimeoutsAreReal == Spec => TimeoutIsReal
<1>1. Init => TimerInv
  BY Zenon DEF Init, TimerInv
<1>2. IInv /\ TimerInv /\ [Next]_vars => TimerInv'
  BY TimerStep, Zenon
<1>3. IInv /\ TimerInv => \A c \in Coro : hook_times_out(c) => timeout[c] = 0
  BY Zenon DEF IInv, TimerInv, Blocked, hook_times_out
<1> QED BY <1>1, <1>2, <1>3, Invariance, PTL DEF Spec, TimeoutIsReal

\* What a coroutine does, it does while it runs, and the phase of the loop
\* stays.
LEMMA ProgramStays ==
    ASSUME NEW c \in Coro, program(c)
    PROVE  current = c /\ loop' = loop
  BY Zenon DEF program, enter_hook, hook_returns, accept_returns, hook_blocks,
     hook_times_out, hook_ready, sleep, sleep_returns, dispatch, close_fd,
     finish, schedule_timeout, is_wakeup_by_timeout, dispatch_coro,
     coro_routine_proxy, schedVars

\* The limit given to epoll_wait, counted down while it blocks, never exceeds
\* the time to the nearest deadline.
LEMMA OversleepStep ==
    ASSUME IInv, NoOversleep, [Next]_vars
    PROVE  NoOversleep'
<1> USE DEF IInv, NoOversleep
<1>1. ASSUME NEW c \in Coro, program(c) PROVE NoOversleep'
  <2>1. current = c /\ loop' = loop
    BY <1>1, ProgramStays, Zenon
  <2> QED BY <2>1, RunningCoroutine, Zenon
<1>2. CASE run_timers_done
  <2>1. /\ inactive' = inactive /\ timeout' = timeout
        /\ get_recent_timespan(wait')
    BY <1>2, Zenon DEF run_timers_done
  <2> QED BY <2>1, Zenon DEF get_recent_timespan, TypeOK, SchedTypeOK
<1>3. CASE clock
  <2>1. /\ inactive' = inactive /\ loop' = loop /\ wait' = Left(wait)
        /\ \A c \in inactive : timeout'[c] = Left(timeout[c])
    BY <1>3, Zenon DEF clock, Tick, TypeOK, SchedTypeOK
  <2>2. \A s, t \in Nat : s <= t => Left(s) <= Left(t)
    BY DEF Left
  <2>3. wait \in Nat /\ \A c \in inactive : timeout[c] \in Nat
    BY Zenon DEF TypeOK, SchedTypeOK
  <2> QED BY <2>1, <2>2, <2>3, Zenon
<1>4. CASE schedule_cycle /\ ~run_timers_done
  <2>1. loop' # "policy"
    BY <1>4, Zenon DEF schedule_cycle, timeout_coroutine_handler,
       check_timeout_done,
       run_active_coroutine, event_cycle_wait, event_callback, wakeup_coro,
       wakeup_coro_priority, event_cycle_done, run_events_done
  <2> QED BY <2>1, Zenon
<1>5. CASE UNCHANGED vars
  BY <1>5, Zenon DEF vars, schedVars
<1> QED BY <1>1, <1>2, <1>3, <1>4, <1>5, Zenon DEF Next

\* get_recent_timespan: epoll_wait is never asked to block past the nearest
\* deadline, however many timers there are and whatever their lengths.
THEOREM NeverOversleeps == Spec => []NoOversleep
<1>1. Init => NoOversleep
  BY Zenon DEF Init, schedule_init, NoOversleep
<1>2. IInv /\ NoOversleep /\ [Next]_vars => NoOversleep'
  BY OversleepStep, Zenon
<1> QED BY <1>1, <1>2, Invariance, PTL DEF Spec

\* A callback puts a coroutine suspended in accept or connect before all the
\* others, and any other behind them.
LEMMA CallbackOrder ==
    ASSUME IInv, AcceptFirst, NEW f \in Fd, event_callback(f)
    PROVE  AcceptFirst'
<1> DEFINE d == args[f]
<1>1. /\ loop = "events" /\ f \in batch /\ op' = op
      /\ IF proc[f] = "conn" THEN active' = <<d>> \o active
                             ELSE active' = Append(active, d)
  BY Zenon DEF event_callback, wakeup_coro, wakeup_coro_priority, hookVars
<1>2. /\ d \in Coro /\ stage[d] = "wait" /\ fd[d] = f /\ op[d] # "sleep"
      /\ proc[f] = callback(op[d])
  BY <1>1, HookAssumption DEF IInv, PhaseInv, Registered, StageInv
<1> HIDE DEF d
<1>3. /\ active \in Seq(Coro)
      /\ \A i, j \in 1..Len(active) :
            callback(op[active[i]]) = "rw" /\ callback(op[active[j]]) = "conn"
                => j < i
  BY <1>1, Zenon DEF IInv, TypeOK, SchedTypeOK, AcceptFirst
<1> SUFFICES ASSUME NEW i \in 1..Len(active'), NEW j \in 1..Len(active'),
                    callback(op[active'[i]]) = "rw",
                    callback(op[active'[j]]) = "conn"
             PROVE  j < i
  BY <1>1, Zenon DEF AcceptFirst
<1>4. CASE proc[f] = "conn"
  <2>1. /\ Len(active') = Len(active) + 1 /\ active'[1] = d
        /\ \A k \in 2..Len(active') :
              k - 1 \in 1..Len(active) /\ active'[k] = active[k - 1]
    BY <1>1, <1>2, <1>3, <1>4
  <2>2. i # 1
    BY <2>1, <1>2, <1>4, Zenon
  <2>3. CASE j # 1
    <3>1. /\ i - 1 \in 1..Len(active) /\ active'[i] = active[i - 1]
          /\ j - 1 \in 1..Len(active) /\ active'[j] = active[j - 1]
      BY <2>1, <2>2, <2>3
    <3>2. j - 1 < i - 1
      BY <3>1, <1>3, Zenon
    <3> QED BY <3>2
  <2> QED BY <2>2, <2>3
<1>5. CASE proc[f] # "conn"
  <2>1. /\ Len(active') = Len(active) + 1 /\ active'[Len(active')] = d
        /\ \A k \in 1..Len(active) : active'[k] = active[k]
    BY <1>1, <1>2, <1>3, <1>5
  <2>2. j # Len(active')
    BY <2>1, <1>2, <1>5, Zenon
  <2> QED BY <2>1, <2>2, <1>3
<1> QED BY <1>4, <1>5, Zenon

\* wakeup_coro_priority: at the end of the callbacks the coroutines suspended
\* in accept or connect are at the head of the active list, whatever the order
\* in which epoll_wait reported the descriptors.
THEOREM AcceptsGoFirst == Spec => []AcceptFirst
<1>1. Init => AcceptFirst
  BY Zenon DEF Init, schedule_init, AcceptFirst
<1>2. ASSUME IInv, AcceptFirst, [Next]_vars PROVE AcceptFirst'
  <2> USE <1>2
  <2>1. ASSUME NEW c \in Coro, program(c) PROVE AcceptFirst'
    <3>1. current = c /\ loop' = loop
      BY <2>1, ProgramStays, Zenon
    <3>2. loop' # "events"
      BY <3>1, RunningCoroutine, Zenon DEF IInv
    <3> QED BY <3>2, Zenon DEF AcceptFirst
  <2>2. ASSUME NEW f \in Fd, event_callback(f) PROVE AcceptFirst'
    BY <2>2, CallbackOrder, Zenon
  <2>3. CASE event_cycle_wait
    <3>1. active' = <<>>
      BY <2>3, Zenon DEF event_cycle_wait, IInv, PhaseInv
    <3> QED BY <3>1 DEF AcceptFirst
  <2>4. CASE /\ schedule_cycle /\ ~event_cycle_wait
             /\ \A f \in Fd : ~event_callback(f)
    <3>1. loop' # "events"
      BY <2>4, Zenon DEF schedule_cycle, timeout_coroutine_handler,
         check_timeout_done, run_active_coroutine, run_timers_done,
         event_cycle_done, run_events_done
    <3> QED BY <3>1, Zenon DEF AcceptFirst
  <2>5. CASE clock
    <3>1. loop' = loop /\ active' = active /\ op' = op
      BY <2>5, Zenon DEF clock, Tick, hookVars
    <3> QED BY <3>1, Zenon DEF AcceptFirst
  <2>6. CASE UNCHANGED vars
    <3>1. loop' = loop /\ active' = active /\ op' = op
      BY <2>6, Zenon DEF vars, schedVars, hookVars
    <3> QED BY <3>1, Zenon DEF AcceptFirst
  <2> QED BY <2>1, <2>2, <2>3, <2>4, <2>5, <2>6, Zenon DEF Next
<1>3. IInv /\ AcceptFirst /\ [Next]_vars => AcceptFirst'
  BY <1>2, Zenon
<1> QED BY <1>1, <1>3, Invariance, PTL DEF Spec

\* As long as there is memory for timer nodes, no coroutine is lost: one that
\* exists is idle, active, running or in the timer tree.
THEOREM NoneStranded == ~AllocFails => (Spec => []NeverStranded)
<1> SUFFICES ASSUME ~AllocFails PROVE Spec => []NeverStranded
  BY Zenon
<1>1. Init => NeverStranded
  <2> SUFFICES ASSUME Init PROVE NeverStranded
    BY Zenon
  <2>1. PICK first \in Coro : schedule_init(first)
    BY Zenon DEF Init
  <2>2. active = Append(<<>>, first) /\ created = {first}
    BY <2>1 DEF schedule_init
  <2>3. \A x : InList(x, active) <=> x = first
    BY <2>2, EmptyList, AppendList, Zenon
  <2> QED BY <2>2, <2>3, Zenon DEF NeverStranded
<1>2. ASSUME IInv, NeverStranded, [Next]_vars PROVE NeverStranded'
  <2> USE <1>2 DEF NeverStranded
  <2>0. /\ created \subseteq Coro /\ idle \in Seq(Coro) /\ active \in Seq(Coro)
        /\ TypeOK
    BY Zenon DEF IInv, TypeOK, SchedTypeOK
  <2>1. CASE Quiet
    BY <2>1, Zenon DEF Quiet
  <2>2. ASSUME NEW c \in Coro, hook_blocks(c) \/ sleep(c) PROVE NeverStranded'
    <3>1. /\ current = c /\ inactive' = inactive \cup {c}
          /\ created' = created /\ idle' = idle /\ active' = active
      BY <2>2, Zenon DEF hook_blocks, sleep, schedule_timeout,
         move_to_inactive_tree
    <3> QED BY <3>1, Zenon
  <2>3. ASSUME NEW c \in Coro, NEW d \in Coro, NEW f \in Fd, dispatch(c, d, f)
        PROVE  NeverStranded'
    <3>1. /\ active' = Append(active, d) /\ current' = current
          /\ inactive' = inactive /\ get_coroutine(d)
      BY <2>3, Zenon DEF dispatch, dispatch_coro
    <3>2. \A x : InList(x, active') <=> InList(x, active) \/ x = d
      BY <3>1, <2>0, AppendList, Zenon
    <3>3. /\ created' = created \cup {d}
          /\ \A x : InList(x, idle') <=> InList(x, idle) /\ x # d
      BY <3>1, GetCoroutine, Zenon DEF IInv
    <3> QED BY <3>1, <3>2, <3>3, Zenon
  <2>4. ASSUME NEW c \in Coro, finish(c) PROVE NeverStranded'
    <3>1. /\ current = c /\ idle' = Append(idle, c)
          /\ created' = created /\ active' = active /\ inactive' = inactive
      BY <2>4, Zenon DEF finish, coro_routine_proxy
    <3>2. \A x : InList(x, idle') <=> InList(x, idle) \/ x = c
      BY <3>1, <2>0, AppendList, Zenon
    <3> QED BY <3>1, <3>2, Zenon
  <2>5. ASSUME NEW c \in Coro, timeout_coroutine_handler(c) PROVE NeverStranded'
    <3>1. /\ active' = Append(active, c) /\ inactive' = inactive \ {c}
          /\ created' = created /\ idle' = idle /\ current' = current
      BY <2>5, Zenon DEF timeout_coroutine_handler
    <3>2. \A x : InList(x, active') <=> InList(x, active) \/ x = c
      BY <3>1, <2>0, AppendList, Zenon
    <3> QED BY <3>1, <3>2, Zenon
  <2>6. CASE run_active_coroutine
    <3>1. /\ active # <<>> /\ active' = Tail(active) /\ current' = Head(active)
          /\ current = Main
          /\ created' = created /\ idle' = idle /\ inactive' = inactive
      BY <2>6, Zenon DEF run_active_coroutine
    <3>2. \A x : InList(x, active) <=> x = current' \/ InList(x, active')
      BY <3>1, <2>0, TailList, Zenon
    <3> QED BY <3>1, <3>2, <2>0, SchedAssumption, Zenon
  <2>7. ASSUME NEW f \in Fd, event_callback(f) PROVE NeverStranded'
    <3>1. /\ f \in batch /\ inactive' = inactive \ {args[f]}
          /\ active' = Append(active, args[f]) \/ active' = <<args[f]>> \o active
          /\ created' = created /\ idle' = idle /\ current' = current
      BY <2>7, Zenon DEF event_callback, wakeup_coro, wakeup_coro_priority,
         remove_from_inactive_tree
    <3>2. args[f] \in Coro /\ ~InList(args[f], active)
      BY <3>1, Zenon DEF IInv, BatchIsBlocked, Blocked
    <3>3. \A x : InList(x, active') <=> InList(x, active) \/ x = args[f]
      BY <3>1, <3>2, Woken, Zenon DEF IInv
    <3> QED BY <3>1, <3>3, Zenon
  <2> QED BY <2>0, <2>1, <2>2, <2>3, <2>4, <2>5, <2>6, <2>7, StepKinds, Zenon
<1> QED BY <1>1, <1>2, Invariance, PTL DEF Spec

-----------------------------------------------------------------------------
(***************************************************************************)
(* The runtime implements CoroStatus.                                      *)
(***************************************************************************)

\* A step that gives one coroutine another status.
LEMMA StatusExcept ==
    ASSUME NEW c \in Coro, NEW v,
           \A x \in Coro : status'[x] = IF x = c THEN v ELSE status[x]
    PROVE  status' = [status EXCEPT ![c] = v]
<1>1. status = [x \in Coro |-> status[x]] /\ status' = [x \in Coro |-> status'[x]]
  BY Zenon DEF status
<1> QED BY <1>1, Zenon

\* Waking: a coroutine that is in no list and does not run joins the active
\* list while Main runs.
LEMMA WakeStep ==
    ASSUME IInv, current = Main, NEW c \in Coro,
           c \in created, ~InList(c, idle), ~InList(c, active),
           \A x : InList(x, active') <=> InList(x, active) \/ x = c,
           created' = created, idle' = idle, current' = current
    PROVE  Abstract!Wake(c)
<1>1. \A x \in Coro : x # current /\ x # current'
  BY SchedAssumption, Zenon
<1>2. \A x \in Coro : status[x] # "running"
  BY <1>1, Zenon DEF status
<1>3. status[c] = "blocked"
  BY <1>1, Zenon DEF status
<1>4. \A x \in Coro : status'[x] = IF x = c THEN "ready" ELSE status[x]
  BY <1>1, Zenon DEF status
<1>5. status' = [status EXCEPT ![c] = "ready"]
  BY <1>4, StatusExcept, Zenon
<1> QED BY <1>2, <1>3, <1>5, Zenon DEF Abstract!Wake, Abstract!NoneRunning

\* Suspension: the running coroutine leaves for Main and joins no list.
LEMMA BlockStep ==
    ASSUME IInv, NEW c \in Coro, current = c, current' = Main,
           created' = created, idle' = idle, active' = active
    PROVE  Abstract!Block(c)
<1>1. c \in created /\ ~InList(c, idle) /\ ~InList(c, active)
  BY Zenon DEF IInv, OnePlace
<1>2. \A x \in Coro : x # current'
  BY SchedAssumption, Zenon
<1>3. status[c] = "running"
  BY <1>1, Zenon DEF status
<1>4. \A x \in Coro : status'[x] = IF x = c THEN "blocked" ELSE status[x]
  BY <1>1, <1>2, Zenon DEF status
<1>5. status' = [status EXCEPT ![c] = "blocked"]
  BY <1>4, StatusExcept, Zenon
<1> QED BY <1>3, <1>5, Zenon DEF Abstract!Block

\* Every step of the runtime is a step of CoroStatus or changes no status.
LEMMA StatusStep ==
    ASSUME IInv, [Next]_vars
    PROVE  [Abstract!Next]_status
<1>1. CASE Quiet
  BY <1>1, Zenon DEF Quiet, status
<1>2. ASSUME NEW c \in Coro, hook_blocks(c) \/ sleep(c) PROVE Abstract!Next
  <2>1. /\ current = c /\ current' = Main
        /\ created' = created /\ idle' = idle /\ active' = active
    BY <1>2, Zenon DEF hook_blocks, sleep, schedule_timeout
  <2> QED BY <2>1, BlockStep, Zenon DEF Abstract!Next
<1>3. ASSUME NEW c \in Coro, NEW d \in Coro, NEW f \in Fd, dispatch(c, d, f)
      PROVE  Abstract!Next
  <2>1. /\ current = c /\ current' = current /\ active' = Append(active, d)
        /\ get_coroutine(d)
    BY <1>3, Zenon DEF dispatch, dispatch_coro
  <2>2. TypeOK /\ OnePlace
    BY Zenon DEF IInv
  <2>3. /\ created' = created \cup {d}
        /\ \A x : InList(x, idle') <=> InList(x, idle) /\ x # d
        /\ \/ InList(d, idle)
           \/ d \notin created /\ \A x : ~InList(x, idle)
    BY <2>1, <2>2, GetCoroutine, Zenon
  <2>4. \A x : InList(x, active') <=> InList(x, active) \/ x = d
    BY <2>1, <2>2, AppendList, Zenon DEF TypeOK, SchedTypeOK
  <2>5. c \in created /\ c # d /\ ~InList(d, active)
    BY <2>1, <2>2, <2>3, Zenon DEF OnePlace, Blocked
  <2>6. status[c] = "running"
    BY <2>1, <2>5, Zenon DEF status
  <2>7. \/ status[d] = "idle"
        \/ status[d] = "new" /\ \A x \in Coro : status[x] # "idle"
    BY <2>1, <2>2, <2>3, <2>5, Zenon DEF status, OnePlace
  <2>8. \A x \in Coro : status'[x] = IF x = d THEN "ready" ELSE status[x]
    BY <2>1, <2>3, <2>4, <2>5, Zenon DEF status
  <2>9. status' = [status EXCEPT ![d] = "ready"]
    BY <2>8, StatusExcept, Zenon
  <2> QED
    BY <2>6, <2>7, <2>9, Zenon
       DEF Abstract!Next, Abstract!Spawn, Abstract!NoneRunning
<1>4. ASSUME NEW c \in Coro, finish(c) PROVE Abstract!Next
  <2>1. /\ current = c /\ current' = Main /\ idle' = Append(idle, c)
        /\ created' = created /\ active' = active
    BY <1>4, Zenon DEF finish, coro_routine_proxy
  <2>2. idle \in Seq(Coro) /\ c \in created
    BY <2>1, Zenon DEF IInv, TypeOK, SchedTypeOK, OnePlace
  <2>3. \A x : InList(x, idle') <=> InList(x, idle) \/ x = c
    BY <2>1, <2>2, AppendList, Zenon
  <2>4. \A x \in Coro : x # current'
    BY <2>1, SchedAssumption, Zenon
  <2>5. status[c] = "running"
    BY <2>1, <2>2, Zenon DEF status
  <2>6. \A x \in Coro : status'[x] = IF x = c THEN "idle" ELSE status[x]
    BY <2>1, <2>2, <2>3, <2>4, Zenon DEF status
  <2>7. status' = [status EXCEPT ![c] = "idle"]
    BY <2>6, StatusExcept, Zenon
  <2> QED BY <2>5, <2>7, Zenon DEF Abstract!Next, Abstract!Finish
<1>5. ASSUME NEW c \in Coro, timeout_coroutine_handler(c) PROVE Abstract!Next
  <2>1. /\ loop = "check_timeout" /\ c \in inactive /\ active' = Append(active, c)
        /\ created' = created /\ idle' = idle /\ current' = current
    BY <1>5, Zenon DEF timeout_coroutine_handler
  <2>2. /\ active \in Seq(Coro) /\ current = Main
        /\ ~InList(c, active) /\ ~InList(c, idle) /\ stage[c] = "wait"
    BY <2>1, Zenon DEF IInv, TypeOK, SchedTypeOK, OnePlace, Blocked, PhaseInv
  <2>3. \A x : InList(x, active') <=> InList(x, active) \/ x = c
    BY <2>1, <2>2, AppendList, Zenon
  <2>4. c \in created
    BY <2>2, Zenon DEF IInv, StageInv
  <2> QED BY <2>1, <2>2, <2>3, <2>4, WakeStep, Zenon DEF Abstract!Next
<1>6. CASE run_active_coroutine
  <2>1. /\ active # <<>> /\ active' = Tail(active) /\ current' = Head(active)
        /\ current = Main /\ created' = created /\ idle' = idle
    BY <1>6, Zenon DEF run_active_coroutine
  <2>2. active \in Seq(Coro) /\ NoDup(active)
    BY Zenon DEF IInv, TypeOK, SchedTypeOK, OnePlace
  <2>3. /\ current' \in Coro /\ ~InList(current', active')
        /\ \A x : InList(x, active) <=> x = current' \/ InList(x, active')
    BY <2>1, <2>2, TailList, Zenon
  <2>4. current' \in created /\ ~InList(current', idle)
    BY <2>3, Zenon DEF IInv, OnePlace
  <2>5. \A x \in Coro : x # current /\ status[x] # "running"
    BY <2>1, SchedAssumption, Zenon DEF status
  <2>6. status[current'] = "ready"
    BY <2>3, <2>4, <2>5, Zenon DEF status
  <2>7. \A x \in Coro : status'[x] = IF x = current' THEN "running" ELSE status[x]
    BY <2>1, <2>3, <2>4, <2>5, Zenon DEF status
  <2>8. status' = [status EXCEPT ![current'] = "running"]
    BY <2>3, <2>7, Zenon DEF status
  <2> QED
    BY <2>3, <2>5, <2>6, <2>8, Zenon
       DEF Abstract!Next, Abstract!Resume, Abstract!NoneRunning
<1>7. ASSUME NEW f \in Fd, event_callback(f) PROVE Abstract!Next
  <2>1. /\ loop = "events" /\ f \in batch
        /\ active' = Append(active, args[f]) \/ active' = <<args[f]>> \o active
        /\ created' = created /\ idle' = idle /\ current' = current
    BY <1>7, Zenon DEF event_callback, wakeup_coro, wakeup_coro_priority
  <2>2. /\ active \in Seq(Coro) /\ current = Main /\ args[f] \in Coro
        /\ ~InList(args[f], active) /\ stage[args[f]] = "wait"
    BY <2>1, Zenon DEF IInv, TypeOK, SchedTypeOK, BatchIsBlocked, Blocked,
       PhaseInv
  <2>3. \A x : InList(x, active') <=> InList(x, active) \/ x = args[f]
    BY <2>1, <2>2, Woken, Zenon DEF IInv
  <2>4. args[f] \in created /\ ~InList(args[f], idle)
    BY <2>2, Zenon DEF IInv, StageInv
  <2> QED BY <2>1, <2>2, <2>3, <2>4, WakeStep, Zenon DEF Abstract!Next
<1>8. TypeOK
  BY Zenon DEF IInv
<1> QED BY <1>1, <1>2, <1>3, <1>4, <1>5, <1>6, <1>7, <1>8, StepKinds, Zenon

\* The runtime implements CoroStatus: one coroutine runs at a time and until
\* it blocks or finishes, only blocked coroutines are woken, and finished ones
\* are reused before new ones are made.
THEOREM Refinement == Spec => ImplementsCoroStatus
<1>1. Init => Abstract!Init
  <2> SUFFICES ASSUME Init PROVE Abstract!Init
    BY Zenon
  <2>1. PICK first \in Coro : schedule_init(first)
    BY Zenon DEF Init
  <2>2. /\ active = Append(<<>>, first) /\ idle = <<>>
        /\ created = {first} /\ current = Main
    BY <2>1 DEF schedule_init
  <2>3. /\ \A x : InList(x, active) <=> x = first
        /\ \A x : ~InList(x, idle)
    BY <2>2, EmptyList, AppendList, Zenon
  <2>4. status = [c \in Coro |-> IF c = first THEN "ready" ELSE "new"]
    BY <2>2, <2>3, SchedAssumption, Zenon DEF status
  <2> QED BY <2>4, Zenon DEF Abstract!Init
<1>2. IInv /\ [Next]_vars => [Abstract!Next]_status
  BY StatusStep, Zenon
<1> QED
  BY <1>1, <1>2, Invariance, PTL
     DEF Spec, ImplementsCoroStatus, Abstract!Spec

=============================================================================
