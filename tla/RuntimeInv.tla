----------------------------- MODULE RuntimeInv -----------------------------
(***************************************************************************)
(* The inductive invariant of the coroutine runtime (SyscallHook), and the *)
(* proof that the steps of schedule_cycle, of the clock, of coroutines     *)
(* that sleep, start and end, and of the hooked system calls preserve it,  *)
(* for any sets of coroutines and descriptors, any timeouts, and with or   *)
(* without memory for timer nodes.                                         *)
(***************************************************************************)
EXTENDS SyscallHook, TLAPS

-----------------------------------------------------------------------------
(***************************************************************************)
(* Lists.  What list_add_tail, list_add and the removal of the head do to  *)
(* membership (InList) and to the absence of duplicates (NoDup).           *)
(***************************************************************************)

\* The empty list.
LEMMA EmptyList ==
    /\ <<>> \in Seq(Coro)
    /\ \A x : ~InList(x, <<>>)
    /\ NoDup(<<>>)
  BY DEF InList, NoDup

\* list_add_tail
LEMMA AppendList ==
    ASSUME NEW s \in Seq(Coro), NEW c \in Coro
    PROVE  /\ Append(s, c) \in Seq(Coro)
           /\ \A x : InList(x, Append(s, c)) <=> InList(x, s) \/ x = c
           /\ NoDup(s) /\ ~InList(c, s) => NoDup(Append(s, c))
<1> DEFINE t == Append(s, c)
<1>1. /\ t \in Seq(Coro)
      /\ Len(t) = Len(s) + 1
      /\ Len(s) \in Nat
      /\ \A i \in 1..Len(s) : t[i] = s[i]
      /\ t[Len(s) + 1] = c
  OBVIOUS
<1> HIDE DEF t
<1>2. ASSUME NEW x PROVE InList(x, t) <=> InList(x, s) \/ x = c
  BY <1>1 DEF InList
<1>3. ASSUME NoDup(s), ~InList(c, s) PROVE NoDup(t)
  BY <1>1, <1>3 DEF NoDup, InList
<1> QED BY <1>1, <1>2, <1>3, Zenon DEF t

\* list_add
LEMMA PrependList ==
    ASSUME NEW s \in Seq(Coro), NEW c \in Coro
    PROVE  /\ <<c>> \o s \in Seq(Coro)
           /\ \A x : InList(x, <<c>> \o s) <=> InList(x, s) \/ x = c
           /\ NoDup(s) /\ ~InList(c, s) => NoDup(<<c>> \o s)
<1> DEFINE t == <<c>> \o s
<1>1. /\ t \in Seq(Coro)
      /\ Len(t) = Len(s) + 1
      /\ Len(s) \in Nat
      /\ \A i \in 1..Len(s) : t[i + 1] = s[i]
      /\ t[1] = c
  OBVIOUS
<1> HIDE DEF t
<1>2. ASSUME NEW x PROVE InList(x, t) <=> InList(x, s) \/ x = c
  <2>1. ASSUME NEW i \in 1..Len(t), t[i] = x PROVE InList(x, s) \/ x = c
    <3>1. CASE i = 1
      BY <2>1, <3>1, <1>1, Zenon
    <3>2. CASE i # 1
      <4>1. i - 1 \in 1..Len(s) /\ t[(i - 1) + 1] = s[i - 1] /\ (i - 1) + 1 = i
        BY <3>2, <1>1
      <4> QED BY <4>1, <2>1, Zenon DEF InList
    <3> QED BY <3>1, <3>2, Zenon
  <2>2. ASSUME NEW i \in 1..Len(s), s[i] = x PROVE InList(x, t)
    <3>1. i + 1 \in 1..Len(t) /\ t[i + 1] = x
      BY <2>2, <1>1
    <3> QED BY <3>1, Zenon DEF InList
  <2>3. x = c => InList(x, t)
    BY <1>1 DEF InList
  <2> QED BY <2>1, <2>2, <2>3, Zenon DEF InList
<1>3. ASSUME NoDup(s), ~InList(c, s) PROVE NoDup(t)
  <2>1. ASSUME NEW i \in 1..Len(t), i # 1
        PROVE  i - 1 \in 1..Len(s) /\ t[i] = s[i - 1]
    <3>1. i - 1 \in 1..Len(s) /\ t[(i - 1) + 1] = s[i - 1] /\ (i - 1) + 1 = i
      BY <2>1, <1>1
    <3> QED BY <3>1, Zenon
  <2>2. ASSUME NEW i \in 1..Len(t), NEW j \in 1..Len(t), t[i] = t[j]
        PROVE  i = j
    <3>1. CASE i # 1 /\ j # 1
      <4>1. i - 1 = j - 1
        BY <2>1, <2>2, <3>1, <1>3, Zenon DEF NoDup
      <4> QED BY <4>1
    <3>2. CASE i = 1 /\ j # 1
      BY <2>1, <2>2, <3>2, <1>1, <1>3, Zenon DEF InList
    <3>3. CASE i # 1 /\ j = 1
      BY <2>1, <2>2, <3>3, <1>1, <1>3, Zenon DEF InList
    <3> QED BY <3>1, <3>2, <3>3, Zenon
  <2> QED BY <2>2, Zenon DEF NoDup
<1> QED BY <1>1, <1>2, <1>3, Zenon DEF t

\* Removal of the head.
LEMMA TailList ==
    ASSUME NEW s \in Seq(Coro), s # <<>>
    PROVE  /\ Head(s) \in Coro
           /\ Tail(s) \in Seq(Coro)
           /\ \A x : InList(x, s) <=> x = Head(s) \/ InList(x, Tail(s))
           /\ NoDup(s) => NoDup(Tail(s)) /\ ~InList(Head(s), Tail(s))
<1> DEFINE t == Tail(s)
           h == Head(s)
<1>1. /\ t \in Seq(Coro)
      /\ h \in Coro
      /\ Len(s) = Len(t) + 1
      /\ Len(t) \in Nat
      /\ \A i \in 1..Len(t) : t[i] = s[i + 1]
      /\ s[1] = h
  OBVIOUS
<1> HIDE DEF t, h
<1>2. ASSUME NEW i \in 1..Len(s), i # 1
      PROVE  i - 1 \in 1..Len(t) /\ t[i - 1] = s[i]
  <2>1. i - 1 \in 1..Len(t) /\ t[i - 1] = s[(i - 1) + 1] /\ (i - 1) + 1 = i
    BY <1>1, <1>2
  <2> QED BY <2>1, Zenon
<1>3. ASSUME NEW x PROVE InList(x, s) <=> x = h \/ InList(x, t)
  <2>1. ASSUME NEW i \in 1..Len(s), s[i] = x PROVE x = h \/ InList(x, t)
    BY <2>1, <1>1, <1>2, Zenon DEF InList
  <2>2. ASSUME NEW i \in 1..Len(t), t[i] = x PROVE InList(x, s)
    <3>1. i + 1 \in 1..Len(s) /\ s[i + 1] = x
      BY <2>2, <1>1
    <3> QED BY <3>1, Zenon DEF InList
  <2>3. x = h => InList(x, s)
    <3>1. 1 \in 1..Len(s)
      BY <1>1
    <3> QED BY <3>1, <1>1, Zenon DEF InList
  <2> QED BY <2>1, <2>2, <2>3, Zenon DEF InList
<1>4. ASSUME NoDup(s) PROVE NoDup(t) /\ ~InList(h, t)
  <2>1. ASSUME NEW i \in 1..Len(t)
        PROVE  i + 1 \in 1..Len(s) /\ i + 1 # 1 /\ t[i] = s[i + 1]
    BY <1>1
  <2>2. ASSUME NEW i \in 1..Len(t), NEW j \in 1..Len(t), t[i] = t[j]
        PROVE  i = j
    <3>1. i + 1 = j + 1
      BY <2>1, <2>2, <1>4, Zenon DEF NoDup
    <3> QED BY <3>1
  <2>3. 1 \in 1..Len(s)
    BY <1>1
  <2>4. ASSUME NEW i \in 1..Len(t), t[i] = h PROVE FALSE
    BY <2>1, <2>3, <2>4, <1>1, <1>4, Zenon DEF NoDup
  <2> QED BY <2>2, <2>4, Zenon DEF NoDup, InList
<1> QED BY <1>1, <1>3, <1>4, Zenon DEF t, h

-----------------------------------------------------------------------------
(***************************************************************************)
(* The inductive invariant.                                                *)
(***************************************************************************)

\* Where schedule_cycle is says who runs: coroutines run only inside
\* run_active_coroutine, the policy is called with the active list empty, and
\* there are events to handle only inside event_cycle, all of descriptors
\* that are still registered.
PhaseInv ==
    /\ loop \in {"check_timeout", "policy", "events"} => current = Main
    /\ loop = "policy" => active = <<>>
    /\ loop # "events" => batch = {}
    /\ \A f \in batch : mask[f] # {}

\* What the stage of a coroutine says about it.
StageInv ==
    \A c \in Coro :
        /\ stage[c] = "run" \/ op[c] = "sleep" => fd[c] = Nil
        /\ stage[c] = "call" => /\ current = c
                                /\ op[c] \in Op
                                /\ fd[c] \in Fd
                                /\ owner[fd[c]] = c
        /\ stage[c] = "wait" => /\ c \in created
                                /\ ~InList(c, idle)
                                /\ op[c] = "sleep" \/ op[c] \in Op
                                /\ op[c] = "sleep" \/ fd[c] \in Fd

\* A coroutine that its timer has woken is past its deadline.
TimerInv ==
    \A c \in Coro :
        stage[c] = "wait" /\ active_by_timeout[c] => \/ timeout[c] = 0
                                                    \/ Blocked(c)

IInv ==
    /\ TypeOK
    /\ OnePlace
    /\ Registered
    /\ KernelAgrees
    /\ BatchIsBlocked
    /\ PhaseInv
    /\ StageInv

-----------------------------------------------------------------------------
(***************************************************************************)
(* Every action preserves the inductive invariant.  The first step of each *)
(* proof lists what the action does; the others take the conjuncts of IInv *)
(* in turn.                                                                *)
(***************************************************************************)

\* A coroutine runs only inside run_active_coroutine, when no event is being
\* handled.
LEMMA RunningCoroutine ==
    ASSUME TypeOK, PhaseInv, NEW c \in Coro, current = c
    PROVE  loop \in {"run_timers", "run_events"} /\ batch = {} /\ c # Main
  BY SchedAssumption, Zenon DEF TypeOK, SchedTypeOK, Loops, PhaseInv

\* get_coroutine takes the head of the idle list, or a coroutine that did not
\* exist if the list is empty.
LEMMA GetCoroutine ==
    ASSUME TypeOK, OnePlace, NEW d \in Coro, get_coroutine(d)
    PROVE  /\ idle' \in Seq(Coro) /\ NoDup(idle')
           /\ created' = created \cup {d}
           /\ \A x : InList(x, idle') <=> InList(x, idle) /\ x # d
           /\ \/ InList(d, idle)
              \/ d \notin created /\ \A x : ~InList(x, idle)
<1>1. idle \in Seq(Coro) /\ NoDup(idle)
  BY Zenon DEF TypeOK, SchedTypeOK, OnePlace
<1>2. CASE /\ idle # <<>> /\ d = Head(idle)
           /\ idle' = Tail(idle) /\ created' = created
  <2>1. /\ idle' \in Seq(Coro) /\ NoDup(idle') /\ ~InList(d, idle')
        /\ \A x : InList(x, idle) <=> x = d \/ InList(x, idle')
    BY <1>1, <1>2, TailList, Zenon
  <2>2. d \in created
    BY <2>1, Zenon DEF OnePlace
  <2> QED BY <1>2, <2>1, <2>2, Zenon
<1>3. CASE /\ idle = <<>> /\ d \in Coro \ created
           /\ idle' = idle /\ created' = created \cup {d}
  BY <1>1, <1>3, EmptyList, Zenon
<1> QED BY <1>2, <1>3, Zenon DEF get_coroutine

\* Either way of waking adds the coroutine to the active list.
LEMMA Woken ==
    ASSUME TypeOK, OnePlace, NEW c \in Coro, ~InList(c, active),
           active' = Append(active, c) \/ active' = <<c>> \o active
    PROVE  /\ active' \in Seq(Coro) /\ NoDup(active')
           /\ \A x : InList(x, active') <=> InList(x, active) \/ x = c
<1>1. active \in Seq(Coro) /\ NoDup(active)
  BY Zenon DEF TypeOK, SchedTypeOK, OnePlace
<1>2. CASE active' = Append(active, c)
  BY <1>1, <1>2, AppendList, Zenon
<1>3. CASE active' = <<c>> \o active
  BY <1>1, <1>3, PrependList, Zenon
<1> QED BY <1>2, <1>3, Zenon

\* A coroutine in the timer tree is not in the active list.
LEMMA TimeoutHandlerInv ==
    ASSUME IInv, NEW c \in Coro, timeout_coroutine_handler(c),
           UNCHANGED <<eventVars, hookVars>>
    PROVE  IInv'
<1> USE DEF IInv
<1>1. /\ loop = "check_timeout" /\ c \in inactive
      /\ inactive' = inactive \ {c}
      /\ active_by_timeout' = [active_by_timeout EXCEPT ![c] = TRUE]
      /\ active' = Append(active, c)
      /\ created' = created /\ idle' = idle /\ timeout' = timeout
      /\ current' = current /\ loop' = loop /\ wait' = wait
      /\ owner' = owner /\ stage' = stage /\ op' = op /\ fd' = fd
      /\ mask' = mask /\ proc' = proc /\ args' = args
      /\ interest' = interest /\ batch' = batch
  BY Zenon DEF timeout_coroutine_handler, eventVars, hookVars
<1>2. /\ stage[c] = "wait" /\ c # current
      /\ ~InList(c, active) /\ ~InList(c, idle)
  BY <1>1, Zenon DEF OnePlace, Blocked
<1>3. /\ active' \in Seq(Coro) /\ NoDup(active')
      /\ \A x : InList(x, active') <=> InList(x, active) \/ x = c
  BY <1>1, <1>2, Woken, Zenon
<1>4. TypeOK'
  BY <1>1, <1>3, Zenon DEF TypeOK, SchedTypeOK, EventTypeOK
<1>5. OnePlace'
  BY <1>1, <1>2, <1>3, Zenon DEF OnePlace, Blocked, StageInv
<1>6. Registered' /\ KernelAgrees'
  BY <1>1, Zenon DEF Registered, KernelAgrees
<1>7. BatchIsBlocked'
  BY <1>1, Zenon DEF BatchIsBlocked, PhaseInv
<1>8. PhaseInv'
  BY <1>1, Zenon DEF PhaseInv
<1>9. StageInv'
  BY <1>1, Zenon DEF StageInv
<1> QED BY <1>4, <1>5, <1>6, <1>7, <1>8, <1>9, Zenon

\* The coroutine that is switched to leaves the active list.
LEMMA RunActiveInv ==
    ASSUME IInv, run_active_coroutine,
           UNCHANGED <<eventVars, hookVars>>
    PROVE  IInv'
<1> USE DEF IInv
<1>1. /\ loop \in {"run_timers", "run_events"}
      /\ current = Main /\ current' = Head(active)
      /\ active # <<>> /\ active' = Tail(active)
      /\ created' = created /\ idle' = idle /\ inactive' = inactive
      /\ timeout' = timeout /\ active_by_timeout' = active_by_timeout
      /\ loop' = loop /\ wait' = wait
      /\ owner' = owner /\ stage' = stage /\ op' = op /\ fd' = fd
      /\ mask' = mask /\ proc' = proc /\ args' = args
      /\ interest' = interest /\ batch' = batch
  BY Zenon DEF run_active_coroutine, eventVars, hookVars
<1>2. active \in Seq(Coro) /\ NoDup(active)
  BY Zenon DEF TypeOK, SchedTypeOK, OnePlace
<1>3. /\ active' \in Seq(Coro) /\ current' \in Coro
      /\ NoDup(active') /\ ~InList(current', active')
      /\ \A x : InList(x, active) <=> x = current' \/ InList(x, active')
  BY <1>1, <1>2, TailList, Zenon
<1>4. TypeOK'
  BY <1>1, <1>3, Zenon DEF TypeOK, SchedTypeOK, EventTypeOK
<1>5. OnePlace'
  BY <1>1, <1>3, Zenon DEF OnePlace, Blocked
<1>6. Registered' /\ KernelAgrees'
  BY <1>1, Zenon DEF Registered, KernelAgrees
<1>7. BatchIsBlocked'
  BY <1>1, Zenon DEF BatchIsBlocked, PhaseInv
<1>8. PhaseInv'
  BY <1>1, Zenon DEF PhaseInv
<1>9. StageInv'
  <2>1. ASSUME NEW x \in Coro PROVE stage[x] # "call"
    BY <1>1, <2>1, SchedAssumption, Zenon DEF StageInv
  <2> QED BY <1>1, <2>1, Zenon DEF StageInv
<1> QED BY <1>4, <1>5, <1>6, <1>7, <1>8, <1>9, Zenon

\* Every descriptor epoll_wait reports has a mask, hence a suspended
\* coroutine, which is not in the active list as the list is empty.
LEMMA EventCycleWaitInv ==
    ASSUME IInv, event_cycle_wait
    PROVE  IInv'
<1> USE DEF IInv
<1>1. /\ loop = "policy" /\ loop' = "events" /\ wait' = 0
      /\ created' = created /\ idle' = idle /\ active' = active
      /\ inactive' = inactive /\ timeout' = timeout
      /\ active_by_timeout' = active_by_timeout /\ current' = current
      /\ owner' = owner /\ stage' = stage /\ op' = op /\ fd' = fd
      /\ mask' = mask /\ proc' = proc /\ args' = args
      /\ interest' = interest
  BY Zenon DEF event_cycle_wait, epoll_wait, hookVars
<1>2. batch' \subseteq Fd /\ \A f \in batch' : mask[f] # {}
  BY Zenon DEF event_cycle_wait, epoll_wait, KernelAgrees
<1>3. current = Main /\ \A x : ~InList(x, active)
  BY <1>1, EmptyList, Zenon DEF PhaseInv
<1>4. TypeOK'
  BY <1>1, <1>2, Zenon DEF TypeOK, SchedTypeOK, EventTypeOK, Loops
<1>5. OnePlace'
  BY <1>1, Zenon DEF OnePlace, Blocked
<1>6. Registered' /\ KernelAgrees'
  BY <1>1, Zenon DEF Registered, KernelAgrees
<1>7. BatchIsBlocked'
  <2>1. ASSUME NEW f \in batch'
        PROVE  /\ f \in Fd /\ args[f] \in Coro /\ args[f] # Main
               /\ stage[args[f]] = "wait" /\ fd[args[f]] = f
    BY <1>2, <2>1, SchedAssumption DEF Registered
  <2> QED BY <1>1, <1>3, <2>1, Zenon DEF BatchIsBlocked, Blocked
<1>8. PhaseInv'
  BY <1>1, <1>2, <1>3, Zenon DEF PhaseInv
<1>9. StageInv'
  BY <1>1, Zenon DEF StageInv
<1> QED BY <1>4, <1>5, <1>6, <1>7, <1>8, <1>9, Zenon

\* A callback wakes a suspended coroutine that no other callback of the
\* batch wakes.
LEMMA EventCallbackInv ==
    ASSUME IInv, NEW f \in Fd, event_callback(f)
    PROVE  IInv'
<1> USE DEF IInv
<1>1. /\ loop = "events" /\ f \in batch /\ batch' = batch \ {f}
      /\ active' = Append(active, args[f]) \/ active' = <<args[f]>> \o active
      /\ inactive' = inactive \ {args[f]}
      /\ active_by_timeout' = [active_by_timeout EXCEPT ![args[f]] = FALSE]
      /\ created' = created /\ idle' = idle /\ timeout' = timeout
      /\ current' = current /\ loop' = loop /\ wait' = wait
      /\ owner' = owner /\ stage' = stage /\ op' = op /\ fd' = fd
      /\ mask' = mask /\ proc' = proc /\ args' = args
      /\ interest' = interest
  BY Zenon DEF event_callback, wakeup_coro, wakeup_coro_priority,
     remove_from_inactive_tree, hookVars
<1>2. /\ args[f] \in Coro /\ args[f] # current /\ stage[args[f]] = "wait"
      /\ ~InList(args[f], active)
      /\ \A g \in batch \ {f} : args[g] # args[f]
  BY <1>1, Zenon DEF BatchIsBlocked, Blocked
<1>3. /\ active' \in Seq(Coro) /\ NoDup(active')
      /\ \A x : InList(x, active') <=> InList(x, active) \/ x = args[f]
  BY <1>1, <1>2, Woken, Zenon
<1>4. TypeOK'
  <2>1. active_by_timeout' \in [Coro -> BOOLEAN]
    BY <1>1, Zenon DEF TypeOK, SchedTypeOK
  <2> QED BY <1>1, <1>3, <2>1, Zenon DEF TypeOK, SchedTypeOK, EventTypeOK
<1>5. OnePlace'
  BY <1>1, <1>2, <1>3, Zenon DEF OnePlace, Blocked, StageInv
<1>6. Registered' /\ KernelAgrees'
  BY <1>1, Zenon DEF Registered, KernelAgrees
<1>7. BatchIsBlocked'
  BY <1>1, <1>2, <1>3, Zenon DEF BatchIsBlocked, Blocked
<1>8. PhaseInv'
  BY <1>1, Zenon DEF PhaseInv
<1>9. StageInv'
  BY <1>1, Zenon DEF StageInv
<1> QED BY <1>4, <1>5, <1>6, <1>7, <1>8, <1>9, Zenon

\* A step that only takes schedule_cycle to its next phase, or the time on.
LEMMA PhaseMoves ==
    ASSUME IInv, SchedTypeOK', PhaseInv',
           created' = created, idle' = idle, active' = active,
           inactive' = inactive, current' = current,
           UNCHANGED <<eventVars, hookVars>>
    PROVE  IInv'
<1> USE DEF IInv
<1>1. /\ owner' = owner /\ stage' = stage /\ op' = op /\ fd' = fd
      /\ mask' = mask /\ proc' = proc /\ args' = args
      /\ interest' = interest /\ batch' = batch
  BY Zenon DEF eventVars, hookVars
<1>2. TypeOK'
  BY <1>1, Zenon DEF TypeOK, EventTypeOK
<1>3. OnePlace' /\ BatchIsBlocked'
  BY <1>1, Zenon DEF OnePlace, BatchIsBlocked, Blocked
<1>4. Registered' /\ KernelAgrees' /\ StageInv'
  BY <1>1, Zenon DEF Registered, KernelAgrees, StageInv
<1> QED BY <1>2, <1>3, <1>4, Zenon

\* The phases end: coroutines have stopped running before the policy is called
\* and before the next cycle, and the batch is empty after event_cycle.
LEMMA PhaseDoneInv ==
    ASSUME IInv, UNCHANGED <<eventVars, hookVars>>,
           \/ check_timeout_done \/ run_timers_done
           \/ event_cycle_done \/ run_events_done
    PROVE  IInv'
<1> USE DEF IInv
<1>1. /\ \/ loop = "check_timeout" /\ loop' = "run_timers"
         \/ loop = "run_timers" /\ loop' = "policy"
            /\ current = Main /\ active = <<>>
         \/ loop = "events" /\ loop' = "run_events" /\ batch = {}
         \/ loop = "run_events" /\ loop' = "check_timeout" /\ current = Main
      /\ created' = created /\ idle' = idle /\ active' = active
      /\ inactive' = inactive /\ timeout' = timeout
      /\ active_by_timeout' = active_by_timeout /\ current' = current
  BY Zenon DEF check_timeout_done, run_timers_done, event_cycle_done,
     run_events_done
<1>2. wait' \in Nat
  BY SchedAssumption
     DEF TypeOK, SchedTypeOK, check_timeout_done, run_timers_done,
         event_cycle_done, run_events_done
<1>3. SchedTypeOK'
  BY <1>1, <1>2, Zenon DEF TypeOK, SchedTypeOK, Loops
<1>4. PhaseInv'
  BY <1>1, Zenon DEF PhaseInv, eventVars
<1> QED BY <1>1, <1>3, <1>4, PhaseMoves, Zenon

\* The clock changes deadlines only.
LEMMA ClockInv ==
    ASSUME IInv, clock
    PROVE  IInv'
<1> USE DEF IInv
<1>1. /\ timeout' = [c \in Coro |-> Left(timeout[c])]
      /\ wait' = Left(wait)
      /\ created' = created /\ idle' = idle /\ active' = active
      /\ inactive' = inactive /\ active_by_timeout' = active_by_timeout
      /\ current' = current /\ loop' = loop
      /\ UNCHANGED <<eventVars, hookVars>>
  BY Zenon DEF clock, Tick
<1>2. SchedTypeOK'
  <2>1. \A t \in Nat : Left(t) \in Nat
    BY DEF Left
  <2> QED BY <1>1, <2>1, Zenon DEF TypeOK, SchedTypeOK
<1>3. PhaseInv'
  BY <1>1, Zenon DEF PhaseInv, eventVars
<1> QED BY <1>1, <1>2, <1>3, PhaseMoves, Zenon

\* A bare schedule_timeout touches the timers only.
LEMMA SleepInv ==
    ASSUME IInv, NEW c \in Coro, sleep(c)
    PROVE  IInv'
<1> USE DEF IInv
<1>1. /\ current = c /\ stage[c] = "run"
      /\ timeout' = [timeout EXCEPT ![c] = SleepTime]
      /\ inactive' = inactive \cup {c} \/ inactive' = inactive
      /\ current' = Main
      /\ stage' = [stage EXCEPT ![c] = "wait"]
      /\ op' = [op EXCEPT ![c] = "sleep"]
      /\ created' = created /\ idle' = idle /\ active' = active
      /\ active_by_timeout' = active_by_timeout /\ loop' = loop
      /\ wait' = wait /\ fd' = fd /\ owner' = owner
      /\ mask' = mask /\ proc' = proc /\ args' = args
      /\ interest' = interest /\ batch' = batch
  BY Zenon DEF sleep, schedule_timeout, move_to_inactive_tree, eventVars
<1>2. loop \in {"run_timers", "run_events"} /\ batch = {} /\ c # Main
  BY <1>1, RunningCoroutine, Zenon
<1>3. TypeOK'
  BY <1>1, HookAssumption, Zenon DEF TypeOK, SchedTypeOK, EventTypeOK
<1>4. OnePlace'
  BY <1>1, SchedAssumption, Zenon DEF TypeOK, OnePlace, Blocked
<1>5. Registered' /\ KernelAgrees'
  BY <1>1 DEF TypeOK, Registered, KernelAgrees, StageInv
<1>6. BatchIsBlocked' /\ PhaseInv'
  BY <1>1, <1>2, Zenon DEF BatchIsBlocked, PhaseInv
<1>7. StageInv'
  BY <1>1, <1>2 DEF TypeOK, OnePlace, StageInv
<1> QED BY <1>3, <1>4, <1>5, <1>6, <1>7, Zenon

\* A coroutine that slept is registered nowhere, as its fd is Nil.
LEMMA SleepReturnsInv ==
    ASSUME IInv, NEW c \in Coro, sleep_returns(c)
    PROVE  IInv'
<1> USE DEF IInv
<1>1. /\ current = c /\ stage[c] = "wait" /\ op[c] = "sleep"
      /\ stage' = [stage EXCEPT ![c] = "run"]
      /\ op' = [op EXCEPT ![c] = "none"]
      /\ fd' = [fd EXCEPT ![c] = Nil]
      /\ owner' = owner
      /\ created' = created /\ idle' = idle /\ active' = active
      /\ inactive' = inactive /\ timeout' = timeout
      /\ active_by_timeout' = active_by_timeout /\ current' = current
      /\ loop' = loop /\ wait' = wait
      /\ mask' = mask /\ proc' = proc /\ args' = args
      /\ interest' = interest /\ batch' = batch
  BY Zenon DEF sleep_returns, leave, schedVars, eventVars
<1>2. loop \in {"run_timers", "run_events"} /\ batch = {} /\ c # Main
  BY <1>1, RunningCoroutine, Zenon
<1>3. TypeOK'
  BY <1>1, Zenon DEF TypeOK, SchedTypeOK, EventTypeOK
<1>4. OnePlace'
  BY <1>1, <1>2, Zenon DEF TypeOK, OnePlace, Blocked
<1>5. Registered' /\ KernelAgrees'
  <2>1. fd[c] = Nil /\ Nil \notin Fd
    BY <1>1, HookAssumption, Zenon DEF StageInv
  <2> QED BY <1>1, <2>1 DEF TypeOK, Registered, KernelAgrees
<1>6. BatchIsBlocked' /\ PhaseInv'
  BY <1>1, <1>2, Zenon DEF BatchIsBlocked, PhaseInv
<1>7. StageInv'
  BY <1>1 DEF TypeOK, OnePlace, StageInv
<1> QED BY <1>3, <1>4, <1>5, <1>6, <1>7, Zenon

\* The dispatched coroutine was idle or did not exist, hence was in no other
\* place.
LEMMA DispatchInv ==
    ASSUME IInv, NEW c \in Coro, NEW d \in Coro, NEW f \in Fd,
           dispatch(c, d, f)
    PROVE  IInv'
<1> USE DEF IInv
<1>1. /\ current = c /\ stage[c] = "run" /\ owner[f] = c
      /\ active' = Append(active, d)
      /\ timeout' = [timeout EXCEPT ![d] = 0]
      /\ active_by_timeout' = [active_by_timeout EXCEPT ![d] = FALSE]
      /\ owner' = [owner EXCEPT ![f] = d]
      /\ inactive' = inactive /\ current' = current /\ loop' = loop
      /\ wait' = wait /\ stage' = stage /\ op' = op /\ fd' = fd
      /\ mask' = mask /\ proc' = proc /\ args' = args
      /\ interest' = interest /\ batch' = batch
  BY Zenon DEF dispatch, dispatch_coro, eventVars
<1>2. loop \in {"run_timers", "run_events"} /\ batch = {} /\ c # Main
  BY <1>1, RunningCoroutine, Zenon
<1>3. /\ idle' \in Seq(Coro) /\ NoDup(idle')
      /\ created' = created \cup {d}
      /\ \A x : InList(x, idle') <=> InList(x, idle) /\ x # d
      /\ InList(d, idle) \/ d \notin created
  BY GetCoroutine, Zenon DEF dispatch, dispatch_coro
<1>4. /\ ~InList(d, active) /\ d # current /\ d \notin inactive
      /\ stage[d] = "run"
  BY <1>3 DEF TypeOK, OnePlace, StageInv, Blocked
<1>5. /\ active' \in Seq(Coro) /\ NoDup(active')
      /\ \A x : InList(x, active') <=> InList(x, active) \/ x = d
  BY <1>1, <1>4, Woken, Zenon
<1>6. TypeOK'
  BY <1>1, <1>3, <1>5, Zenon DEF TypeOK, SchedTypeOK, EventTypeOK
<1>7. OnePlace'
  BY <1>1, <1>3, <1>4, <1>5, Zenon DEF OnePlace, Blocked
<1>8. Registered' /\ KernelAgrees'
  BY <1>1 DEF TypeOK, Registered, KernelAgrees
<1>9. BatchIsBlocked' /\ PhaseInv'
  BY <1>1, <1>2, Zenon DEF BatchIsBlocked, PhaseInv
<1>10. StageInv'
  BY <1>1, <1>3, Zenon DEF TypeOK, StageInv
<1> QED BY <1>6, <1>7, <1>8, <1>9, <1>10, Zenon

\* The running coroutine is in no list when it is put in the idle list.
LEMMA FinishInv ==
    ASSUME IInv, NEW c \in Coro, finish(c)
    PROVE  IInv'
<1> USE DEF IInv
<1>1. /\ current = c /\ stage[c] = "run"
      /\ idle' = Append(idle, c)
      /\ current' = Main
      /\ created' = created /\ active' = active /\ inactive' = inactive
      /\ timeout' = timeout /\ active_by_timeout' = active_by_timeout
      /\ loop' = loop /\ wait' = wait /\ owner' = owner /\ stage' = stage
      /\ op' = op /\ fd' = fd
      /\ mask' = mask /\ proc' = proc /\ args' = args
      /\ interest' = interest /\ batch' = batch
  BY Zenon DEF finish, coro_routine_proxy, eventVars, hookVars
<1>2. loop \in {"run_timers", "run_events"} /\ batch = {} /\ c # Main
  BY <1>1, RunningCoroutine, Zenon
<1>3. idle \in Seq(Coro) /\ NoDup(idle) /\ ~InList(c, idle)
  BY <1>1, Zenon DEF TypeOK, SchedTypeOK, OnePlace
<1>4. /\ idle' \in Seq(Coro) /\ NoDup(idle')
      /\ \A x : InList(x, idle') <=> InList(x, idle) \/ x = c
  BY <1>1, <1>3, AppendList, Zenon
<1>5. TypeOK'
  BY <1>1, <1>4, Zenon DEF TypeOK, SchedTypeOK, EventTypeOK
<1>6. OnePlace'
  BY <1>1, <1>4, SchedAssumption, Zenon DEF OnePlace, Blocked
<1>7. Registered' /\ KernelAgrees'
  BY <1>1, Zenon DEF Registered, KernelAgrees
<1>8. BatchIsBlocked' /\ PhaseInv'
  BY <1>1, <1>2, Zenon DEF BatchIsBlocked, PhaseInv
<1>9. StageInv'
  BY <1>1, <1>4, Zenon DEF StageInv
<1> QED BY <1>5, <1>6, <1>7, <1>8, <1>9, Zenon

-----------------------------------------------------------------------------
(***************************************************************************)
(* The hooked system calls and close preserve the invariant; and which     *)
(* steps of the runtime move a coroutine.                                  *)
(***************************************************************************)

\* A coroutine enters a hook: only its stage, op and fd change.
LEMMA EnterHookInv ==
    ASSUME IInv, NEW c \in Coro, NEW o \in Op, NEW f \in Fd,
           enter_hook(c, o, f)
    PROVE  IInv'
<1> USE DEF IInv
<1>1. /\ current = c /\ stage[c] = "run" /\ owner[f] = c
      /\ stage' = [stage EXCEPT ![c] = "call"]
      /\ op' = [op EXCEPT ![c] = o]
      /\ fd' = [fd EXCEPT ![c] = f]
      /\ owner' = owner
      /\ created' = created /\ idle' = idle /\ active' = active
      /\ inactive' = inactive /\ timeout' = timeout
      /\ active_by_timeout' = active_by_timeout /\ current' = current
      /\ loop' = loop /\ wait' = wait
      /\ mask' = mask /\ proc' = proc /\ args' = args
      /\ interest' = interest /\ batch' = batch
  BY Zenon DEF enter_hook, schedVars, eventVars
<1>2. loop \in {"run_timers", "run_events"} /\ batch = {} /\ c # Main
  BY <1>1, RunningCoroutine, Zenon
<1>3. TypeOK'
  BY <1>1, Zenon DEF TypeOK, SchedTypeOK, EventTypeOK
<1>4. OnePlace'
  BY <1>1, <1>2, Zenon DEF TypeOK, OnePlace, Blocked
<1>5. Registered' /\ KernelAgrees'
  BY <1>1 DEF TypeOK, Registered, KernelAgrees, StageInv
<1>6. BatchIsBlocked' /\ PhaseInv'
  BY <1>1, <1>2, Zenon DEF BatchIsBlocked, PhaseInv
<1>7. StageInv'
  BY <1>1, HookAssumption DEF TypeOK, StageInv
<1> QED BY <1>3, <1>4, <1>5, <1>6, <1>7, Zenon

\* A hook returns: its coroutine was not suspended, hence not registered.
LEMMA HookReturnsInv ==
    ASSUME IInv, NEW c \in Coro, hook_returns(c)
    PROVE  IInv'
<1> USE DEF IInv
<1>1. /\ current = c /\ stage[c] = "call"
      /\ stage' = [stage EXCEPT ![c] = "run"]
      /\ op' = [op EXCEPT ![c] = "none"]
      /\ fd' = [fd EXCEPT ![c] = Nil]
      /\ owner' = owner
      /\ created' = created /\ idle' = idle /\ active' = active
      /\ inactive' = inactive /\ timeout' = timeout
      /\ active_by_timeout' = active_by_timeout /\ current' = current
      /\ loop' = loop /\ wait' = wait
      /\ mask' = mask /\ proc' = proc /\ args' = args
      /\ interest' = interest /\ batch' = batch
  BY Zenon DEF hook_returns, leave, schedVars, eventVars
<1>2. loop \in {"run_timers", "run_events"} /\ batch = {} /\ c # Main
  BY <1>1, RunningCoroutine, Zenon
<1>3. TypeOK'
  BY <1>1, Zenon DEF TypeOK, SchedTypeOK, EventTypeOK
<1>4. OnePlace'
  BY <1>1, <1>2, Zenon DEF TypeOK, OnePlace, Blocked
<1>5. Registered' /\ KernelAgrees'
  BY <1>1 DEF TypeOK, Registered, KernelAgrees, StageInv
<1>6. BatchIsBlocked' /\ PhaseInv'
  BY <1>1, <1>2, Zenon DEF BatchIsBlocked, PhaseInv
<1>7. StageInv'
  BY <1>1 DEF TypeOK, OnePlace, StageInv
<1> QED BY <1>3, <1>4, <1>5, <1>6, <1>7, Zenon

\* accept takes a descriptor that was closed, hence not registered.
LEMMA AcceptReturnsInv ==
    ASSUME IInv, NEW c \in Coro, NEW f \in Fd, accept_returns(c, f)
    PROVE  IInv'
<1> USE DEF IInv
<1>1. /\ current = c /\ stage[c] = "call" /\ owner[f] = Nil
      /\ stage' = [stage EXCEPT ![c] = "run"]
      /\ op' = [op EXCEPT ![c] = "none"]
      /\ fd' = [fd EXCEPT ![c] = Nil]
      /\ owner' = [owner EXCEPT ![f] = c]
      /\ created' = created /\ idle' = idle /\ active' = active
      /\ inactive' = inactive /\ timeout' = timeout
      /\ active_by_timeout' = active_by_timeout /\ current' = current
      /\ loop' = loop /\ wait' = wait
      /\ mask' = mask /\ proc' = proc /\ args' = args
      /\ interest' = interest /\ batch' = batch
  BY Zenon DEF accept_returns, leave, schedVars, eventVars
<1>2. loop \in {"run_timers", "run_events"} /\ batch = {} /\ c # Main
  BY <1>1, RunningCoroutine, Zenon
<1>3. TypeOK'
  BY <1>1, Zenon DEF TypeOK, SchedTypeOK, EventTypeOK
<1>4. OnePlace'
  BY <1>1, <1>2, Zenon DEF TypeOK, OnePlace, Blocked
<1>5. Registered' /\ KernelAgrees'
  BY <1>1, HookAssumption DEF TypeOK, Registered, KernelAgrees, StageInv
<1>6. BatchIsBlocked' /\ PhaseInv'
  BY <1>1, <1>2, Zenon DEF BatchIsBlocked, PhaseInv
<1>7. StageInv'
  BY <1>1 DEF TypeOK, OnePlace, StageInv
<1> QED BY <1>3, <1>4, <1>5, <1>6, <1>7, Zenon

\* A hook blocks: its descriptor had no mask, as its owner was not
\* suspended, so the kernel accepts the registration.
LEMMA HookBlocksInv ==
    ASSUME IInv, NEW c \in Coro, hook_blocks(c)
    PROVE  IInv'
<1> USE DEF IInv
<1>1. /\ current = c /\ stage[c] = "call"
      /\ proc' = [proc EXCEPT ![fd[c]] = callback(op[c])]
      /\ args' = [args EXCEPT ![fd[c]] = c]
      /\ timeout' = [timeout EXCEPT ![c] = timeout_of(op[c])]
      /\ inactive' = inactive \cup {c} \/ inactive' = inactive
      /\ current' = Main
      /\ stage' = [stage EXCEPT ![c] = "wait"]
      /\ batch' = batch /\ created' = created /\ idle' = idle
      /\ active' = active /\ active_by_timeout' = active_by_timeout
      /\ loop' = loop /\ wait' = wait /\ owner' = owner /\ op' = op
      /\ fd' = fd
  BY Zenon DEF hook_blocks, add_fd_event, schedule_timeout,
     move_to_inactive_tree
<1>2. loop \in {"run_timers", "run_events"} /\ batch = {} /\ c # Main
  BY <1>1, RunningCoroutine, Zenon
<1>3. fd[c] \in Fd /\ op[c] \in Op /\ owner[fd[c]] = c
  BY <1>1, Zenon DEF StageInv
<1>4. mask[fd[c]] = {}
  BY <1>1, <1>3, Zenon DEF Registered
<1>5. /\ mask' = [mask EXCEPT ![fd[c]] = {what(op[c])}]
      /\ interest' = [interest EXCEPT ![fd[c]] = {what(op[c])}]
  <2>1. mask[fd[c]] \cup {what(op[c])} = {what(op[c])}
    BY <1>4, Zenon
  <2> QED BY <2>1, Zenon DEF hook_blocks, add_fd_event
<1>6. /\ callback(op[c]) \in {"rw", "conn"}
      /\ timeout_of(op[c]) \in Nat
  BY HookAssumption, Zenon DEF callback, timeout_of
<1>7. TypeOK'
  <2>1. SchedTypeOK'
    BY <1>1, <1>3, <1>5, <1>6, Zenon DEF TypeOK, SchedTypeOK, Loops
  <2>2. mask' \in [Fd -> SUBSET Events] /\ interest' \in [Fd -> SUBSET Events]
    <3>1. {what(op[c])} \in SUBSET Events /\ {} \in SUBSET Events
      BY Zenon DEF what, Events
    <3> QED BY <3>1, <1>1, <1>3, <1>5, <1>6, Zenon DEF TypeOK, EventTypeOK
  <2>3. /\ proc' \in [Fd -> {"null", "rw", "conn"}]
        /\ args' \in [Fd -> Coro \cup {Nil}]
        /\ batch' \subseteq Fd
    BY <1>1, <1>3, <1>5, <1>6, Zenon DEF TypeOK, EventTypeOK
  <2>4. /\ owner' \in [Fd -> Coro \cup {Nil}]
        /\ stage' \in [Coro -> {"run", "call", "wait"}]
        /\ op' \in [Coro -> Op \cup {"sleep", "none"}]
        /\ fd' \in [Coro -> Fd \cup {Nil}]
    BY <1>1, <1>3, <1>5, <1>6, Zenon DEF TypeOK
  <2> QED BY <2>1, <2>2, <2>3, <2>4, Zenon DEF TypeOK, EventTypeOK
<1>8. OnePlace'
  BY <1>1, SchedAssumption, Zenon DEF TypeOK, OnePlace, Blocked
<1>9. Registered' /\ KernelAgrees'
  <2>1. KernelAgrees'
    BY <1>1, <1>3, <1>4, <1>5, Zenon DEF KernelAgrees
  <2>2. ASSUME NEW g \in Fd, mask'[g] # {}
        PROVE  /\ args'[g] \in Coro
               /\ owner'[g] = args'[g]
               /\ stage'[args'[g]] = "wait"
               /\ fd'[args'[g]] = g
    <3>1. CASE g = fd[c]
      BY <2>2, <3>1, <1>1, <1>3, <1>4, <1>5, Zenon DEF TypeOK, EventTypeOK
    <3>2. CASE g # fd[c]
      BY <2>2, <3>2, <1>1, <1>3, <1>4, <1>5 DEF TypeOK, EventTypeOK, Registered
    <3> QED BY <3>1, <3>2, Zenon
  <2>3. ASSUME NEW x \in Coro, stage'[x] = "wait", op'[x] # "sleep"
        PROVE  /\ mask'[fd'[x]] = {what(op'[x])}
               /\ args'[fd'[x]] = x
               /\ proc'[fd'[x]] = callback(op'[x])
    <3>1. CASE x = c
      BY <2>3, <3>1, <1>1, <1>3, <1>4, <1>5, Zenon DEF TypeOK, EventTypeOK
    <3>2. CASE x # c
      <4>1. /\ stage[x] = "wait" /\ op[x] # "sleep"
            /\ op'[x] = op[x] /\ fd'[x] = fd[x]
        BY <2>3, <3>2, <1>1, <1>3, <1>4, <1>5, Zenon DEF TypeOK
      <4>2. /\ fd[x] \in Fd /\ args[fd[x]] = x
            /\ mask[fd[x]] = {what(op[x])}
            /\ proc[fd[x]] = callback(op[x])
        BY <4>1, Zenon DEF StageInv, Registered
      <4>3. fd[x] # fd[c]
        BY <4>2, <1>4, Zenon
      <4> QED
        BY <4>1, <4>2, <4>3, <1>1, <1>3, <1>4, <1>5, Zenon DEF TypeOK,
           EventTypeOK
    <3> QED BY <3>1, <3>2, Zenon
  <2> QED BY <2>1, <2>2, <2>3, Zenon DEF Registered
<1>10. BatchIsBlocked' /\ PhaseInv'
  BY <1>1, <1>2, Zenon DEF BatchIsBlocked, PhaseInv
<1>11. StageInv'
  BY <1>1, <1>2, <1>3, Zenon DEF TypeOK, OnePlace, StageInv
<1> QED BY <1>7, <1>8, <1>9, <1>10, <1>11, Zenon

\* A hook is resumed by its deadline or by its event: what del_fd_event
\* removes is exactly what the coroutine had registered.
LEMMA HookResumesInv ==
    ASSUME IInv, NEW c \in Coro, hook_times_out(c) \/ hook_ready(c)
    PROVE  IInv'
<1> USE DEF IInv
<1>1. /\ current = c /\ stage[c] = "wait" /\ op[c] # "sleep"
      /\ active_by_timeout' = [active_by_timeout EXCEPT ![c] = FALSE]
      /\ created' = created /\ idle' = idle /\ active' = active
      /\ inactive' = inactive /\ timeout' = timeout /\ current' = current
      /\ loop' = loop /\ wait' = wait /\ owner' = owner
  BY Zenon DEF hook_times_out, hook_ready, is_wakeup_by_timeout
<1>2. loop \in {"run_timers", "run_events"} /\ batch = {} /\ c # Main
  BY <1>1, RunningCoroutine, Zenon
<1>3. /\ fd[c] \in Fd /\ op[c] \in Op /\ owner[fd[c]] = c
      /\ mask[fd[c]] = {what(op[c])} /\ args[fd[c]] = c
  BY <1>1, Zenon DEF StageInv, Registered
<1>4. /\ mask' = [mask EXCEPT ![fd[c]] = {}]
      /\ interest' = [interest EXCEPT ![fd[c]] = {}]
      /\ proc' = proc /\ args' = args /\ batch' = batch
  <2>1. mask[fd[c]] # {} /\ mask[fd[c]] \ {what(op[c])} = {}
    BY <1>3, Zenon
  <2>2. interest[fd[c]] # {}
    BY <2>1, Zenon DEF KernelAgrees
  <2> QED BY <2>1, <2>2, Zenon DEF hook_times_out, hook_ready, del_fd_event
<1>5. \/ /\ stage' = [stage EXCEPT ![c] = "run"]
         /\ op' = [op EXCEPT ![c] = "none"]
         /\ fd' = [fd EXCEPT ![c] = Nil]
      \/ stage' = [stage EXCEPT ![c] = "call"] /\ op' = op /\ fd' = fd
  BY Zenon DEF hook_times_out, hook_ready, leave
<1>6. TypeOK'
  <2>1. SchedTypeOK'
    BY <1>1, <1>3, <1>4, <1>5, Zenon DEF TypeOK, SchedTypeOK, Loops
  <2>2. mask' \in [Fd -> SUBSET Events] /\ interest' \in [Fd -> SUBSET Events]
    <3>1. {what(op[c])} \in SUBSET Events /\ {} \in SUBSET Events
      BY Zenon DEF what, Events
    <3> QED BY <3>1, <1>1, <1>3, <1>4, <1>5, Zenon DEF TypeOK, EventTypeOK
  <2>3. /\ proc' \in [Fd -> {"null", "rw", "conn"}]
        /\ args' \in [Fd -> Coro \cup {Nil}]
        /\ batch' \subseteq Fd
    BY <1>1, <1>3, <1>4, <1>5, Zenon DEF TypeOK, EventTypeOK
  <2>4. /\ owner' \in [Fd -> Coro \cup {Nil}]
        /\ stage' \in [Coro -> {"run", "call", "wait"}]
        /\ op' \in [Coro -> Op \cup {"sleep", "none"}]
        /\ fd' \in [Coro -> Fd \cup {Nil}]
    BY <1>1, <1>3, <1>4, <1>5, Zenon DEF TypeOK
  <2> QED BY <2>1, <2>2, <2>3, <2>4, Zenon DEF TypeOK, EventTypeOK
<1>7. OnePlace'
  BY <1>1, <1>5, Zenon DEF TypeOK, OnePlace, Blocked
<1>8. Registered' /\ KernelAgrees'
  <2>1. KernelAgrees'
    BY <1>1, <1>3, <1>4, <1>5, Zenon DEF KernelAgrees
  <2>2. ASSUME NEW g \in Fd, mask'[g] # {}
        PROVE  /\ args'[g] \in Coro
               /\ owner'[g] = args'[g]
               /\ stage'[args'[g]] = "wait"
               /\ fd'[args'[g]] = g
    <3>1. CASE g = fd[c]
      BY <2>2, <3>1, <1>1, <1>3, <1>4, <1>5, Zenon DEF TypeOK, EventTypeOK
    <3>2. CASE g # fd[c]
      BY <2>2, <3>2, <1>1, <1>3, <1>4, <1>5 DEF TypeOK, EventTypeOK, Registered
    <3> QED BY <3>1, <3>2, Zenon
  <2>3. ASSUME NEW x \in Coro, stage'[x] = "wait", op'[x] # "sleep"
        PROVE  /\ mask'[fd'[x]] = {what(op'[x])}
               /\ args'[fd'[x]] = x
               /\ proc'[fd'[x]] = callback(op'[x])
    <3>1. CASE x = c
      BY <2>3, <3>1, <1>1, <1>3, <1>4, <1>5, Zenon DEF TypeOK, EventTypeOK
    <3>2. CASE x # c
      <4>1. /\ stage[x] = "wait" /\ op[x] # "sleep"
            /\ op'[x] = op[x] /\ fd'[x] = fd[x]
        BY <2>3, <3>2, <1>1, <1>3, <1>4, <1>5, Zenon DEF TypeOK
      <4>2. /\ fd[x] \in Fd /\ args[fd[x]] = x
            /\ mask[fd[x]] = {what(op[x])}
            /\ proc[fd[x]] = callback(op[x])
        BY <4>1, Zenon DEF StageInv, Registered
      <4>3. fd[x] # fd[c]
        BY <4>2, <3>2, <1>3, Zenon
      <4> QED
        BY <4>1, <4>2, <4>3, <1>1, <1>3, <1>4, <1>5, Zenon DEF TypeOK,
           EventTypeOK
    <3> QED BY <3>1, <3>2, Zenon
  <2> QED BY <2>1, <2>2, <2>3, Zenon DEF Registered
<1>9. BatchIsBlocked' /\ PhaseInv'
  BY <1>1, <1>2, <1>4, Zenon DEF BatchIsBlocked, PhaseInv
<1>10. StageInv'
  BY <1>1, <1>3, <1>5 DEF TypeOK, StageInv
<1> QED BY <1>6, <1>7, <1>8, <1>9, <1>10, Zenon

\* close is called by the owner, which is running, so the descriptor has no
\* mask that could go stale.
LEMMA CloseInv ==
    ASSUME IInv, NEW c \in Coro, NEW f \in Fd, close_fd(c, f)
    PROVE  IInv'
<1> USE DEF IInv
<1>1. /\ current = c /\ stage[c] = "run" /\ owner[f] = c
      /\ owner' = [owner EXCEPT ![f] = Nil]
      /\ interest' = [interest EXCEPT ![f] = {}]
      /\ mask' = mask /\ proc' = proc /\ args' = args /\ batch' = batch
      /\ stage' = stage /\ op' = op /\ fd' = fd
      /\ created' = created /\ idle' = idle /\ active' = active
      /\ inactive' = inactive /\ timeout' = timeout
      /\ active_by_timeout' = active_by_timeout /\ current' = current
      /\ loop' = loop /\ wait' = wait
  BY Zenon DEF close_fd, close, schedVars
<1>2. loop \in {"run_timers", "run_events"} /\ batch = {} /\ c # Main
  BY <1>1, RunningCoroutine, Zenon
<1>3. TypeOK'
  BY <1>1, Zenon DEF TypeOK, SchedTypeOK, EventTypeOK
<1>4. OnePlace'
  BY <1>1, <1>2, Zenon DEF TypeOK, OnePlace, Blocked
<1>5. Registered' /\ KernelAgrees'
  <2>1. mask[f] = {}
    BY <1>1, Zenon DEF Registered
  <2>2. KernelAgrees'
    BY <1>1, <2>1 DEF KernelAgrees, TypeOK, EventTypeOK
  <2>3. Registered'
    BY <1>1, <2>1 DEF TypeOK, Registered
  <2> QED BY <2>2, <2>3, Zenon
<1>6. BatchIsBlocked' /\ PhaseInv'
  BY <1>1, <1>2, Zenon DEF BatchIsBlocked, PhaseInv
<1>7. StageInv'
  BY <1>1, Zenon DEF TypeOK, StageInv
<1> QED BY <1>3, <1>4, <1>5, <1>6, <1>7, Zenon

-----------------------------------------------------------------------------
(***************************************************************************)
(* Few steps move a coroutine from one place of the scheduler to another.  *)
(***************************************************************************)

\* A step that moves no coroutine, suspends none, and at most clears
\* active_by_timeout and brings deadlines closer.
Quiet ==
    /\ created' = created /\ idle' = idle /\ active' = active
    /\ current' = current /\ inactive' = inactive
    /\ \A x \in Coro : /\ stage'[x] = "wait" => stage[x] = "wait"
                       /\ active_by_timeout'[x] => active_by_timeout[x]
                       /\ timeout[x] = 0 => timeout'[x] = 0

\* Which steps are not quiet.
LEMMA StepKinds ==
    ASSUME TypeOK, [Next]_vars
    PROVE  \/ Quiet
           \/ \E c \in Coro : hook_blocks(c)
           \/ \E c \in Coro : sleep(c)
           \/ \E c, d \in Coro, f \in Fd : dispatch(c, d, f)
           \/ \E c \in Coro : finish(c)
           \/ \E c \in Coro : timeout_coroutine_handler(c) /\ UNCHANGED hookVars
           \/ run_active_coroutine /\ UNCHANGED hookVars
           \/ \E f \in Fd : event_callback(f)
<1> USE DEF Quiet
<1>1. ASSUME NEW c \in Coro, NEW o \in Op, NEW f \in Fd, enter_hook(c, o, f)
      PROVE  Quiet
  BY <1>1, Zenon DEF TypeOK, enter_hook, schedVars
<1>2. ASSUME NEW c \in Coro, hook_returns(c) PROVE Quiet
  BY <1>2, Zenon DEF TypeOK, hook_returns, leave, schedVars
<1>3. ASSUME NEW c \in Coro, NEW f \in Fd, accept_returns(c, f) PROVE Quiet
  BY <1>3, Zenon DEF TypeOK, accept_returns, leave, schedVars
<1>4. ASSUME NEW c \in Coro, hook_times_out(c) PROVE Quiet
  BY <1>4, Zenon
     DEF TypeOK, SchedTypeOK, hook_times_out, is_wakeup_by_timeout, leave
<1>5. ASSUME NEW c \in Coro, hook_ready(c) PROVE Quiet
  <2>1. /\ created' = created /\ idle' = idle /\ active' = active
        /\ current' = current /\ inactive' = inactive /\ timeout' = timeout
        /\ active_by_timeout' = [active_by_timeout EXCEPT ![c] = FALSE]
    BY <1>5, Zenon DEF hook_ready, is_wakeup_by_timeout
  <2>2. ASSUME NEW x \in Coro, stage'[x] = "wait" PROVE stage[x] = "wait"
    BY <1>5, <2>2, Zenon DEF TypeOK, hook_ready, leave
  <2> QED BY <2>1, <2>2, Zenon DEF TypeOK, SchedTypeOK
<1>6. ASSUME NEW c \in Coro, sleep_returns(c) PROVE Quiet
  BY <1>6, Zenon DEF TypeOK, sleep_returns, leave, schedVars
<1>7. ASSUME NEW c \in Coro, NEW f \in Fd, close_fd(c, f) PROVE Quiet
  BY <1>7, Zenon DEF close_fd, schedVars
<1>8. CASE /\ check_timeout_done \/ run_timers_done \/ run_events_done
           /\ UNCHANGED hookVars
  BY <1>8, Zenon
     DEF check_timeout_done, run_timers_done, run_events_done, hookVars
<1>9. CASE event_cycle_wait \/ event_cycle_done
  BY <1>9, Zenon DEF event_cycle_wait, event_cycle_done, hookVars
<1>10. CASE clock
  <2>1. /\ created' = created /\ idle' = idle /\ active' = active
        /\ current' = current /\ inactive' = inactive /\ stage' = stage
        /\ active_by_timeout' = active_by_timeout
    BY <1>10, Zenon DEF clock, Tick, hookVars
  <2>2. ASSUME NEW x \in Coro, timeout[x] = 0 PROVE timeout'[x] = 0
    <3>1. timeout'[x] = Left(timeout[x])
      BY <1>10, Zenon DEF clock, Tick
    <3> QED BY <3>1, <2>2 DEF Left
  <2>3. Quiet
    BY <2>1, <2>2, Zenon
  <2> QED BY <2>3, Zenon
<1>11. CASE UNCHANGED vars
  BY <1>11, Zenon DEF vars, schedVars, hookVars
<1> QED
  BY <1>1, <1>2, <1>3, <1>4, <1>5, <1>6, <1>7, <1>8, <1>9, <1>10, <1>11, Zenon
     DEF Next, schedule_cycle, program

=============================================================================
