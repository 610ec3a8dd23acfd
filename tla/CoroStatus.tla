----------------------------- MODULE CoroStatus -----------------------------
(***************************************************************************)
(* What the coroutine runtime promises, without lists, timers, events or   *)
(* system calls: every coroutine has one status, at most one runs, the     *)
(* running one keeps running until it blocks or finishes, only a blocked   *)
(* coroutine is woken, never while another one runs, and a new coroutine   *)
(* is made only if there is none to reuse.                                 *)
(***************************************************************************)
CONSTANT Coro

VARIABLE status

Statuses == {"new", "idle", "ready", "running", "blocked"}

Init == \E first \in Coro :
            status = [c \in Coro |-> IF c = first THEN "ready" ELSE "new"]

NoneRunning == \A c \in Coro : status[c] # "running"

Spawn(d) ==
    /\ ~NoneRunning
    /\ \/ status[d] = "idle"
       \/ status[d] = "new" /\ \A c \in Coro : status[c] # "idle"
    /\ status' = [status EXCEPT ![d] = "ready"]

Resume(c) ==
    /\ NoneRunning
    /\ status[c] = "ready"
    /\ status' = [status EXCEPT ![c] = "running"]

Block(c) ==
    /\ status[c] = "running"
    /\ status' = [status EXCEPT ![c] = "blocked"]

Finish(c) ==
    /\ status[c] = "running"
    /\ status' = [status EXCEPT ![c] = "idle"]

Wake(c) ==
    /\ NoneRunning
    /\ status[c] = "blocked"
    /\ status' = [status EXCEPT ![c] = "ready"]

Next == \E c \in Coro : Spawn(c) \/ Resume(c) \/ Block(c) \/ Finish(c) \/ Wake(c)

Spec == Init /\ [][Next]_status

=============================================================================
