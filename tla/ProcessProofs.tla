--------------------------- MODULE ProcessProofs ---------------------------
(***************************************************************************)
(* Process: the master knows its workers and no worker misses a stop, for  *)
(* any number of workers and any process ids, with and without failing     *)
(* forks and a SIGCHLD in the middle of fork_worker.                       *)
(***************************************************************************)
EXTENDS Process, FiniteSetTheorems, TLAPS

-----------------------------------------------------------------------------
(***************************************************************************)
(* The inductive invariant.                                                *)
(***************************************************************************)

\* Every worker that runs is in a slot or about to be put into one, and the
\* slot fork_worker is filling is empty until it does: a SIGCHLD handler can
\* only empty slots.
SlotInv ==
    /\ \A p \in Live : p \in Slots \/ p = pid
    /\ pid # INVALID_PID => pc = "forked"
    /\ pc = "forked" => i <= N /\ worker[i] = INVALID_PID

AllHave(what) == \A p \in Live : what \in told[p]
AllTold == \A p \in Live : told[p] # {}

\* What send_signal_to_workers has done so far: no worker is forked during
\* the loop, so the slots it has passed stay notified.
SendInv(l, what) ==
    pc = l => \A k \in Index : k < i /\ worker[k] \in Live =>
                  what \in told[worker[k]]

\* all_workers_exit can be set too early, by a SIGCHLD between fork and
\* p->pid = pid when the other slots are empty.  The flag that was set then
\* still takes the main loop through a notification before it reads
\* all_workers_exit.
ExitInv ==
    /\ all_workers_exit => Stopping
    /\ all_workers_exit /\ pc = "exit" => g_shall_exit = 1 \/ AllTold
    /\ all_workers_exit /\ pc = "all" => AllTold
    /\ pc = "exited" => AllTold

IInv ==
    /\ TypeOK
    /\ SlotInv
    /\ SendInv("send_stop", "stop") /\ SendInv("send_exit", "exit")
    /\ g_shall_stop = 2 => AllHave("stop")
    /\ g_shall_exit = 2 => AllHave("exit")
    /\ ExitInv

-----------------------------------------------------------------------------
(***************************************************************************)
(* Every action preserves it.                                              *)
(***************************************************************************)

\* process_init: no worker and no signal yet.
LEMMA InitInv == Init => IInv
<1> SUFFICES ASSUME Init PROVE IInv
  OBVIOUS
<1>1. TypeOK
  <2>1. /\ worker \in [Index -> Pid \cup {INVALID_PID}]
        /\ child \in [Pid -> {"none", "live", "zombie"}]
        /\ told \in [Pid -> SUBSET {"stop", "exit"}]
        /\ all_workers_exit \in BOOLEAN /\ shall_create_worker \in BOOLEAN
        /\ faults \in Faults
    BY Zenon DEF Init
  <2>2. i \in 1..(N + 1) /\ g_shall_stop \in 0..2 /\ g_shall_exit \in 0..2
    BY ProcessAssumption DEF Init
  <2> QED BY <2>1, <2>2, Zenon DEF Init, TypeOK
<1>2. Live = {}
  BY DEF Init, Live
<1>3. SlotInv /\ ExitInv
  BY <1>2 DEF Init, SlotInv, ExitInv, AllTold
<1> QED BY <1>1, <1>2, <1>3 DEF Init, IInv, SendInv

\* The steps of the main loop that look at the flags or move on to the next
\* slot leave the slots and the workers alone.
LEMMA LoopInv ==
    ASSUME IInv,
           \/ check_stop \/ check_exit \/ check_all_exit \/ check_create
           \/ spawn_skips \/ fork_fails \/ spawn_done
    PROVE  IInv'
<1> USE DEF IInv
<1>1. /\ faults' = faults /\ worker' = worker /\ flags' = flags
      /\ all_workers_exit' = all_workers_exit /\ pid' = pid
      /\ child' = child /\ told' = told
  BY DEF check_stop, check_exit, check_all_exit, check_create, spawn_skips,
     fork_fails, spawn_done
<1>2. /\ g_shall_stop' = g_shall_stop /\ g_shall_exit' = g_shall_exit
      /\ Live' = Live /\ Slots' = Slots
  BY <1>1 DEF flags, Live, Slots
<1>3. TypeOK'
  <2>1. shall_create_worker' \in BOOLEAN
    BY Zenon DEF TypeOK, check_stop, check_exit, check_all_exit,
       check_create, spawn_skips, fork_fails, spawn_done
  <2>2. /\ i' \in 1..(N + 1)
        /\ pc' \in {"stop", "send_stop", "exit", "send_exit", "all", "create",
                    "spawn", "forked", "exited"}
    BY ProcessAssumption DEF TypeOK, check_stop, check_exit, check_all_exit,
       check_create, spawn_skips, fork_fails, spawn_done, goto
  <2> QED BY <1>1, <1>2, <2>1, <2>2 DEF TypeOK
<1>4. SlotInv'
  <2>1. pc # "forked" /\ pc' # "forked"
    BY DEF check_stop, check_exit, check_all_exit, check_create, spawn_skips,
       fork_fails, spawn_done, goto
  <2> QED BY <1>1, <1>2, <2>1 DEF SlotInv
<1>5. SendInv("send_stop", "stop")' /\ SendInv("send_exit", "exit")'
  <2>1. pc' \in {"send_stop", "send_exit"} => i' = 1
    BY DEF check_stop, check_exit, check_all_exit, check_create, spawn_skips,
       fork_fails, spawn_done, goto
  <2> QED BY <2>1 DEF SendInv, Index
<1>6. /\ g_shall_stop = 2 => AllHave("stop")'
      /\ g_shall_exit = 2 => AllHave("exit")'
      /\ AllTold => AllTold'
  BY <1>1, <1>2 DEF AllHave, AllTold
<1>7. g_shall_stop = 2 \/ g_shall_exit = 2 => AllTold
  BY DEF AllHave, AllTold
<1>8. ExitInv'
  <2>1. (all_workers_exit => Stopping)'
    BY <1>1, <1>2 DEF ExitInv, Stopping
  <2>2. CASE check_stop
    BY <2>1, <2>2, <1>1, <1>2, <1>6, <1>7
       DEF check_stop, goto, ExitInv, Stopping, TypeOK
  <2>3. CASE check_exit
    BY <2>1, <2>3, <1>1, <1>2, <1>6, <1>7 DEF check_exit, goto, ExitInv
  <2>4. CASE check_all_exit
    BY <2>1, <2>4, <1>1, <1>2, <1>6, <1>7 DEF check_all_exit, goto, ExitInv
  <2>5. CASE check_create \/ spawn_skips \/ fork_fails \/ spawn_done
    <3>1. pc' \notin {"exit", "all", "exited"}
      BY <2>5 DEF check_create, spawn_skips, fork_fails, spawn_done, goto
    <3> QED BY <2>1, <3>1 DEF ExitInv
  <2> QED BY <2>2, <2>3, <2>4, <2>5
<1> QED BY <1>2, <1>3, <1>4, <1>5, <1>6, <1>8

\* One turn of send_signal_to_workers: the worker of slot i, if it runs, has
\* the flag afterwards, and no worker loses one.
LEMMA SendStepInv ==
    ASSUME IInv,
           NEW l, NEW what,
           \/ l = "send_stop" /\ what = "stop"
           \/ l = "send_exit" /\ what = "exit",
           send_signal_to_workers(l, what)
    PROVE  IInv'
<1> USE DEF IInv
<1>1. /\ pc = l /\ i <= N /\ i' = i + 1
      /\ faults' = faults /\ worker' = worker /\ pc' = pc
      /\ g_shall_stop' = g_shall_stop /\ g_shall_exit' = g_shall_exit
      /\ all_workers_exit' = all_workers_exit
      /\ shall_create_worker' = shall_create_worker
      /\ pid' = pid /\ child' = child
      /\ Live' = Live /\ Slots' = Slots
  BY DEF send_signal_to_workers, flags, Live, Slots
<1>2. /\ i \in Index /\ worker[i] \in Pid \cup {INVALID_PID}
      /\ i \in Nat /\ N \in Nat
  BY <1>1, ProcessAssumption DEF TypeOK, Index
<1>3. /\ told' \in [Pid -> SUBSET {"stop", "exit"}]
      /\ \A p \in Pid : told[p] \subseteq told'[p]
      /\ worker[i] \in Live => what \in told'[worker[i]]
  <2>1. CASE worker[i] \in Live
    BY <2>1 DEF send_signal_to_workers, TypeOK, Live
  <2>2. CASE worker[i] \notin Live
    BY <2>2, <1>2 DEF send_signal_to_workers, TypeOK, Live
  <2> QED BY <2>1, <2>2
<1>4. TypeOK'
  BY <1>1, <1>2, <1>3 DEF TypeOK
<1>5. SlotInv'
  BY <1>1 DEF SlotInv
<1>6. SendInv("send_stop", "stop")' /\ SendInv("send_exit", "exit")'
  <2>1. ASSUME NEW k \in Index, k < i + 1, worker[k] \in Live
        PROVE  what \in told'[worker[k]]
    <3>1. CASE k = i
      BY <3>1, <2>1, <1>3
    <3>2. CASE k # i
      <4>1. k < i
        BY <3>2, <2>1, <1>2 DEF Index
      <4>2. what \in told[worker[k]] /\ worker[k] \in Pid
        BY <4>1, <2>1, <1>1 DEF SendInv, Live
      <4> QED BY <4>2, <1>3
    <3> QED BY <3>1, <3>2
  <2> QED BY <2>1, <1>1 DEF SendInv
<1>7. /\ AllHave("stop") => AllHave("stop")'
      /\ AllHave("exit") => AllHave("exit")'
      /\ AllTold => AllTold'
  BY <1>1, <1>3 DEF AllHave, AllTold, Live
<1>8. ExitInv'
  BY <1>1, <1>7 DEF ExitInv, Stopping
<1> QED BY <1>1, <1>4, <1>5, <1>6, <1>7, <1>8

\* After the last turn every slot, hence every worker that runs, is notified.
LEMMA SentInv ==
    ASSUME IInv, stop_sent \/ exit_sent
    PROVE  IInv'
<1> USE DEF IInv
<1>1. /\ i > N /\ i' = 1 /\ pc' \in {"exit", "all"}
      /\ faults' = faults /\ worker' = worker
      /\ all_workers_exit' = all_workers_exit
      /\ shall_create_worker' = shall_create_worker
      /\ pid' = pid /\ child' = child /\ told' = told
      /\ Live' = Live /\ Slots' = Slots
  BY DEF stop_sent, exit_sent, goto, Live, Slots
<1>2. TypeOK'
  <2>1. g_shall_stop' \in 0..2 /\ g_shall_exit' \in 0..2
    BY DEF stop_sent, exit_sent, TypeOK
  <2> QED BY <1>1, <2>1, ProcessAssumption DEF TypeOK
<1>3. pc # "forked" /\ pid = INVALID_PID
  BY DEF stop_sent, exit_sent, SlotInv
<1>4. SlotInv'
  BY <1>1, <1>3 DEF SlotInv
<1>5. SendInv("send_stop", "stop")' /\ SendInv("send_exit", "exit")'
  BY <1>1 DEF SendInv
<1>6. ASSUME NEW what,
             \A k \in Index : k < i /\ worker[k] \in Live =>
                 what \in told[worker[k]]
      PROVE  AllHave(what) /\ AllHave(what)' /\ AllTold'
  <2>1. ASSUME NEW p \in Live PROVE what \in told[p]
    <3>1. PICK k \in Index : worker[k] = p
      BY <1>3, ProcessAssumption DEF SlotInv, Slots, Live
    <3>2. k < i
      BY <1>1, ProcessAssumption DEF TypeOK, Index
    <3> QED BY <3>1, <3>2, <1>6
  <2> QED BY <2>1, <1>1 DEF AllHave, AllTold
<1>7. CASE stop_sent
  <2>1. /\ g_shall_stop' = 2 /\ g_shall_exit' = g_shall_exit
        /\ pc' = "exit" /\ pc = "send_stop"
    BY <1>7 DEF stop_sent, goto
  <2>2. AllHave("stop")' /\ AllTold'
    BY <2>1, <1>6 DEF SendInv
  <2>3. g_shall_exit' = 2 => AllHave("exit")'
    BY <2>1, <1>1 DEF AllHave
  <2>4. ExitInv'
    BY <2>1, <2>2 DEF ExitInv, Stopping
  <2> QED BY <1>2, <1>4, <1>5, <2>2, <2>3, <2>4
<1>8. CASE exit_sent
  <2>1. /\ g_shall_exit' = 2 /\ g_shall_stop' = g_shall_stop
        /\ pc' = "all" /\ pc = "send_exit"
    BY <1>8 DEF exit_sent, goto
  <2>2. AllHave("exit")' /\ AllTold'
    BY <2>1, <1>6 DEF SendInv
  <2>3. g_shall_stop' = 2 => AllHave("stop")'
    BY <2>1, <1>1 DEF AllHave
  <2>4. ExitInv'
    BY <2>1, <2>2 DEF ExitInv, Stopping
  <2> QED BY <1>2, <1>4, <1>5, <2>2, <2>3, <2>4
<1> QED BY <1>7, <1>8

\* fork: the new worker is fork_worker's pid, and has the flags of the master.
LEMMA ForkInv ==
    ASSUME IInv, NEW p \in Pid, fork_worker(p)
    PROVE  IInv'
<1> USE DEF IInv
<1>1. /\ pc = "spawn" /\ i <= N /\ worker[i] = INVALID_PID
      /\ pid' = p /\ pc' = "forked" /\ i' = i
      /\ child' = [child EXCEPT ![p] = "live"]
      /\ faults' = faults /\ worker' = worker
      /\ g_shall_stop' = g_shall_stop /\ g_shall_exit' = g_shall_exit
      /\ all_workers_exit' = all_workers_exit
      /\ shall_create_worker' = shall_create_worker
      /\ Slots' = Slots
  BY DEF fork_worker, flags, Slots
<1>2. /\ told' \in [Pid -> SUBSET {"stop", "exit"}]
      /\ g_shall_stop # 0 => "stop" \in told'[p]
      /\ g_shall_exit # 0 => "exit" \in told'[p]
      /\ \A q \in Pid \ {p} : told'[q] = told[q]
  BY DEF fork_worker, TypeOK
<1>3. Live' = Live \cup {p}
  BY <1>1 DEF Live, TypeOK
<1>4. TypeOK'
  BY <1>1, <1>2 DEF TypeOK
<1>5. SlotInv'
  <2>1. pid = INVALID_PID
    BY <1>1 DEF SlotInv
  <2>2. ASSUME NEW q \in Live' PROVE q \in Slots' \/ q = pid'
    BY <2>1, <2>2, <1>1, <1>3, ProcessAssumption DEF SlotInv, Live
  <2> QED BY <2>2, <1>1 DEF SlotInv
<1>6. SendInv("send_stop", "stop")' /\ SendInv("send_exit", "exit")'
  BY <1>1 DEF SendInv
<1>7. /\ g_shall_stop' = 2 => AllHave("stop")'
      /\ g_shall_exit' = 2 => AllHave("exit")'
  BY <1>1, <1>2, <1>3 DEF AllHave, Live
<1>8. ExitInv'
  BY <1>1 DEF ExitInv, Stopping
<1> QED BY <1>4, <1>5, <1>6, <1>7, <1>8

\* p->pid = pid: the slot was empty, so no worker is forgotten.
LEMMA ForkReturnsInv ==
    ASSUME IInv, fork_returns
    PROVE  IInv'
<1> USE DEF IInv
<1>1. /\ pc = "forked" /\ pc' = "spawn" /\ i' = i + 1
      /\ worker' = [worker EXCEPT ![i] = pid] /\ pid' = INVALID_PID
      /\ child' = child /\ told' = told /\ faults' = faults
      /\ g_shall_stop' = g_shall_stop /\ g_shall_exit' = g_shall_exit
      /\ all_workers_exit' = all_workers_exit
      /\ shall_create_worker' = shall_create_worker
      /\ Live' = Live
  BY DEF fork_returns, flags, Live
<1>2. i \in Index /\ worker[i] = INVALID_PID /\ i \in Nat /\ N \in Nat
  BY <1>1, ProcessAssumption DEF SlotInv, TypeOK, Index
<1>3. TypeOK'
  <2>1. i' \in 1..(N + 1)
    BY <1>1, <1>2 DEF Index
  <2>2. /\ worker' \in [Index -> Pid \cup {INVALID_PID}]
        /\ pid' \in Pid \cup {INVALID_PID}
    BY <1>1, <1>2 DEF TypeOK
  <2> QED BY <1>1, <2>1, <2>2 DEF TypeOK
<1>4. SlotInv'
  <2>1. ASSUME NEW q \in Live PROVE \E k \in Index : worker'[k] = q
    <3>1. CASE q = pid
      BY <3>1, <1>1, <1>2 DEF TypeOK
    <3>2. CASE q \in Slots
      <4>1. PICK k \in Index : worker[k] = q
        BY <3>2 DEF Slots
      <4>2. k # i
        BY <4>1, <1>2, ProcessAssumption DEF Live
      <4> QED BY <4>1, <4>2, <1>1 DEF TypeOK
    <3> QED BY <3>1, <3>2 DEF SlotInv
  <2>2. ASSUME NEW q \in Live' PROVE q \in Slots'
    BY <2>1, <1>1 DEF Slots
  <2> QED BY <2>2, <1>1 DEF SlotInv
<1>5. SendInv("send_stop", "stop")' /\ SendInv("send_exit", "exit")'
  BY <1>1 DEF SendInv
<1>6. /\ g_shall_stop' = 2 => AllHave("stop")'
      /\ g_shall_exit' = 2 => AllHave("exit")'
  BY <1>1 DEF AllHave
<1>7. ExitInv'
  BY <1>1 DEF ExitInv, Stopping
<1> QED BY <1>3, <1>4, <1>5, <1>6, <1>7

\* A signal only sets a flag to 1, which is the first notification or a new
\* one.
LEMMA SignalInv ==
    ASSUME IInv, master_signal_handler
    PROVE  IInv'
<1> USE DEF IInv
<1>1. /\ faults' = faults /\ worker' = worker /\ pc' = pc /\ i' = i
      /\ all_workers_exit' = all_workers_exit
      /\ shall_create_worker' = shall_create_worker
      /\ pid' = pid /\ child' = child /\ told' = told
      /\ Live' = Live /\ Slots' = Slots
      /\ \/ g_shall_stop' = 1 /\ g_shall_exit' = g_shall_exit
         \/ g_shall_exit' = 1 /\ g_shall_stop' = g_shall_stop
  BY DEF master_signal_handler, Live, Slots
<1>2. TypeOK'
  BY <1>1 DEF TypeOK
<1>3. SlotInv'
  BY <1>1 DEF SlotInv
<1>4. SendInv("send_stop", "stop")' /\ SendInv("send_exit", "exit")'
  BY <1>1 DEF SendInv
<1>5. /\ g_shall_stop' = 2 => AllHave("stop")'
      /\ g_shall_exit' = 2 => AllHave("exit")'
      /\ AllTold => AllTold'
  BY <1>1 DEF AllHave, AllTold
<1>6. ExitInv'
  BY <1>1, <1>5 DEF ExitInv, Stopping
<1> QED BY <1>2, <1>3, <1>4, <1>5, <1>6

\* worker_exit_handler empties the slots of a worker that has ended.  It finds
\* all slots empty only if no worker runs, except for one that fork_worker is
\* about to enter.
LEMMA ReapInv ==
    ASSUME IInv, NEW p \in Pid, worker_process_get_status(p)
    PROVE  IInv'
<1> USE DEF IInv
<1>1. /\ pc # "exited" /\ child[p] = "zombie"
      /\ child' = [child EXCEPT ![p] = "none"]
      /\ told' = [told EXCEPT ![p] = {}]
      /\ worker' = [k \in Index |->
                       IF worker[k] = p THEN INVALID_PID ELSE worker[k]]
      /\ faults' = faults /\ pc' = pc /\ i' = i /\ pid' = pid
      /\ g_shall_stop' = g_shall_stop /\ g_shall_exit' = g_shall_exit
  BY DEF worker_process_get_status, worker_exit_handler, flags
<1>2. /\ shall_create_worker' \in BOOLEAN /\ all_workers_exit' \in BOOLEAN
      /\ all_workers_exit' =>
            all_workers_exit \/ (worker_empty(worker') /\ Stopping)
  BY Zenon DEF worker_process_get_status, worker_exit_handler, Stopping, TypeOK
<1>3. Live' = Live /\ p \notin Live /\ Live \subseteq Pid
  BY <1>1 DEF Live, TypeOK
<1>4. TypeOK'
  <2>1. /\ worker' \in [Index -> Pid \cup {INVALID_PID}]
        /\ child' \in [Pid -> {"none", "live", "zombie"}]
        /\ told' \in [Pid -> SUBSET {"stop", "exit"}]
    BY <1>1 DEF TypeOK
  <2> QED BY <1>1, <1>2, <2>1 DEF TypeOK
<1>5. \A q \in Live : told'[q] = told[q] /\ (q \in Slots' <=> q \in Slots)
  BY <1>1, <1>3, ProcessAssumption DEF TypeOK, Slots
<1>6. SlotInv'
  <2>1. pc = "forked" => i \in Index
    BY ProcessAssumption DEF SlotInv, TypeOK, Index
  <2> QED BY <1>1, <1>3, <1>5, <2>1 DEF SlotInv
<1>7. SendInv("send_stop", "stop")' /\ SendInv("send_exit", "exit")'
  <2>1. \A k \in Index : worker'[k] \in Live =>
            worker'[k] = worker[k] /\ told'[worker[k]] = told[worker[k]]
    BY <1>1, <1>3, <1>5, ProcessAssumption
  <2> QED BY <1>1, <1>3, <2>1 DEF SendInv
<1>8. /\ g_shall_stop' = 2 => AllHave("stop")'
      /\ g_shall_exit' = 2 => AllHave("exit")'
      /\ AllTold => AllTold'
  BY <1>1, <1>3, <1>5 DEF AllHave, AllTold
<1>9. ExitInv'
  <2>1. worker_empty(worker') /\ pc # "forked" => AllTold'
    <3>1. ASSUME worker_empty(worker'), pc # "forked", NEW q \in Live
          PROVE  FALSE
      <4>1. PICK k \in Index : worker'[k] = q
        BY <3>1, <1>5, <1>3, ProcessAssumption DEF SlotInv, Slots
      <4> QED BY <4>1, <3>1, <1>3, ProcessAssumption DEF worker_empty
    <3> QED BY <3>1, <1>3 DEF AllTold
  <2>2. (all_workers_exit => Stopping)'
    BY <1>1, <1>2 DEF ExitInv, Stopping
  <2> QED BY <2>1, <2>2, <1>1, <1>2, <1>8 DEF ExitInv
<1> QED BY <1>4, <1>6, <1>7, <1>8, <1>9

\* A worker ends: one less to be known and told.
LEMMA EndsInv ==
    ASSUME IInv, NEW p \in Pid, worker_ends(p)
    PROVE  IInv'
<1> USE DEF IInv
<1>1. /\ child' = [child EXCEPT ![p] = "zombie"]
      /\ faults' = faults /\ worker' = worker /\ pc' = pc /\ i' = i
      /\ all_workers_exit' = all_workers_exit
      /\ shall_create_worker' = shall_create_worker
      /\ pid' = pid /\ told' = told /\ Slots' = Slots
      /\ g_shall_stop' = g_shall_stop /\ g_shall_exit' = g_shall_exit
  BY DEF worker_ends, flags, Slots
<1>2. Live' \subseteq Live
  BY <1>1 DEF Live, TypeOK
<1>3. TypeOK'
  BY <1>1 DEF TypeOK
<1>4. SlotInv'
  BY <1>1, <1>2 DEF SlotInv
<1>5. SendInv("send_stop", "stop")' /\ SendInv("send_exit", "exit")'
  BY <1>1, <1>2 DEF SendInv
<1>6. /\ g_shall_stop' = 2 => AllHave("stop")'
      /\ g_shall_exit' = 2 => AllHave("exit")'
      /\ AllTold => AllTold'
  BY <1>1, <1>2 DEF AllHave, AllTold
<1>7. ExitInv'
  BY <1>1, <1>6 DEF ExitInv, Stopping
<1> QED BY <1>3, <1>4, <1>5, <1>6, <1>7

\* Any step.
LEMMA NextInv == IInv /\ [Next]_vars => IInv'
<1> SUFFICES ASSUME IInv, [Next]_vars PROVE IInv'
  OBVIOUS
<1>1. CASE master_process_cycle
  <2>1. CASE \/ check_stop \/ check_exit \/ check_all_exit \/ check_create
             \/ spawn_skips \/ fork_fails \/ spawn_done
    BY <2>1, LoopInv
  <2>2. CASE send_signal_to_workers("send_stop", "stop")
    BY <2>2, SendStepInv
  <2>3. CASE send_signal_to_workers("send_exit", "exit")
    BY <2>3, SendStepInv
  <2>4. CASE stop_sent \/ exit_sent
    BY <2>4, SentInv
  <2>5. CASE \E p \in Pid : fork_worker(p)
    BY <2>5, ForkInv
  <2>6. CASE fork_returns
    BY <2>6, ForkReturnsInv
  <2> QED BY <1>1, <2>1, <2>2, <2>3, <2>4, <2>5, <2>6 DEF master_process_cycle
<1>2. CASE master_signal_handler
  BY <1>2, SignalInv
<1>3. CASE \E p \in Pid : worker_process_get_status(p) \/ worker_ends(p)
  BY <1>3, ReapInv, EndsInv
<1>4. CASE UNCHANGED vars
  BY <1>4 DEF vars, flags, IInv, TypeOK, SlotInv, SendInv, AllHave, AllTold,
     ExitInv, Stopping, Live, Slots
<1> QED BY <1>1, <1>2, <1>3, <1>4 DEF Next

-----------------------------------------------------------------------------
(***************************************************************************)
(* The theorems.                                                           *)
(***************************************************************************)

\* The inductive invariant holds in every behaviour of the master and its
\* workers.
THEOREM Invariance == Spec => []IInv
  BY InitInv, NextInv, PTL DEF Spec

\* The workers that run fit in the slots: together with the one in
\* fork_worker's pid they are the image of worker[0..N-1].
LEMMA AtMostN == IInv => Cardinality(Live) <= N
<1> SUFFICES ASSUME IInv PROVE Cardinality(Live) <= N
  OBVIOUS
<1> DEFINE seat == IF pc = "forked" THEN [worker EXCEPT ![i] = pid] ELSE worker
           Seats == {seat[k] : k \in Index}
<1>1. seat \in [Index -> Pid \cup {INVALID_PID}]
  BY DEF IInv, TypeOK
<1>2. ASSUME NEW p \in Live PROVE \E k \in Index : seat[k] = p
  <2>1. CASE p = pid
    <3>1. pc = "forked" /\ i \in Index
      BY <2>1, <1>2, ProcessAssumption
         DEF Live, IInv, SlotInv, TypeOK, Index
    <3> QED BY <2>1, <3>1 DEF IInv, TypeOK
  <2>2. CASE p # pid
    <3>1. PICK k \in Index : worker[k] = p
      BY <1>2, <2>2 DEF IInv, SlotInv, Slots
    <3>2. pc = "forked" => k # i
      BY <1>2, <3>1, ProcessAssumption DEF Live, IInv, SlotInv
    <3> QED BY <3>1, <3>2 DEF IInv, TypeOK
  <2> QED BY <2>1, <2>2
<1> HIDE DEF seat
<1>3. seat \in Surjection(Index, Seats)
  BY <1>1, Zenon DEF Surjection
<1>4. IsFiniteSet(Index) /\ Cardinality(Index) = N
  BY FS_Interval, ProcessAssumption DEF Index
<1>5. IsFiniteSet(Seats) /\ Cardinality(Seats) <= N
  BY <1>3, <1>4, FS_Surjection
<1>6. Live \in SUBSET Seats
  BY <1>2
<1>7. IsFiniteSet(Live) /\ Cardinality(Live) <= Cardinality(Seats)
  BY <1>5, <1>6, FS_Subset
<1> HIDE DEF Seats
<1> QED
  BY <1>5, <1>7, FS_CardinalityType, ProcessAssumption

\* master_process_cycle with the handlers of SIGCHLD: no worker runs that is
\* not in a slot or just forked, and never more than worker_processes run,
\* whatever ends, is reaped or is forked when.
THEOREM MasterKnowsWorkers == Spec => []WorkersKnown
<1>1. IInv => WorkersKnown
  BY AtMostN DEF IInv, SlotInv, WorkersKnown
<1> QED BY <1>1, Invariance, PTL

\* send_signal_to_workers and fork: no worker misses a stop or an exit, and
\* the master does not end leaving one behind that was told neither, also when
\* a SIGCHLD in the middle of fork_worker sets all_workers_exit too early.
THEOREM NobodyMissesStop == Spec => []StopReachesAll
<1>1. IInv => StopReachesAll
  BY DEF IInv, ExitInv, AllHave, AllTold, StopReachesAll
<1> QED BY <1>1, Invariance, PTL

=============================================================================
