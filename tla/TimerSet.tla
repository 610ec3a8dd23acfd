------------------------------ MODULE TimerSet ------------------------------
(***************************************************************************)
(* What the timers of the scheduler promise: every parked coroutine has    *)
(* one deadline, a cancelled one has none, and a check takes exactly the   *)
(* coroutines whose deadline has come, the earliest first.                 *)
(***************************************************************************)
EXTENDS Integers, Sequences, FiniteSets

CONSTANTS Coro, None

VARIABLES deadline,    \* time left of each parked coroutine, or None
          due          \* what the last check found, in order

Init == deadline = [c \in Coro |-> None] /\ due = <<>>

Parked == {c \in Coro : deadline[c] # None}

\* Without memory the coroutine gets no deadline.
Park(c) ==
    /\ deadline[c] = None
    /\ deadline' = [deadline EXCEPT ![c] = deadline'[c]]
    /\ deadline'[c] = None \/ deadline'[c] \in Int
    /\ UNCHANGED due

Cancel(c) == deadline' = [deadline EXCEPT ![c] = None] /\ UNCHANGED due

Check ==
    LET late == {c \in Parked : deadline[c] <= 0}
    IN  /\ deadline' = [c \in Coro |-> IF c \in late THEN None ELSE deadline[c]]
        /\ {due'[i] : i \in DOMAIN due'} = late
        /\ Len(due') = Cardinality(late)
        /\ \A i, j \in DOMAIN due' :
              i < j => deadline[due'[i]] <= deadline[due'[j]]

Run == due' = <<>> /\ UNCHANGED deadline

\* The wall clock moves, on or back.
Shift ==
    /\ UNCHANGED due
    /\ \A c \in Coro : deadline[c] = None <=> deadline'[c] = None
    /\ \A c, d \in Parked : deadline'[c] - deadline[c] = deadline'[d] - deadline[d]

Next == \/ \E c \in Coro : Park(c) \/ Cancel(c)
        \/ Check \/ Run \/ Shift

Spec == Init /\ [][Next]_<<deadline, due>>

=============================================================================
