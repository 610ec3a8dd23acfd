------------------------------ MODULE FifoLock ------------------------------
(***************************************************************************)
(* What a lock with a queue promises: at most one process is inside, those *)
(* that wait enter in the order they asked, and an attempt that does not   *)
(* wait succeeds only when nobody is inside or waiting.                    *)
(***************************************************************************)
EXTENDS Naturals, Sequences

CONSTANT Proc

VARIABLES
    queue,   \* the process inside, if any, and those that wait
    held     \* is the head of the queue inside?

Init == queue = <<>> /\ held = FALSE

Ask(p) ==
    /\ \A i \in 1..Len(queue) : queue[i] # p
    /\ queue' = Append(queue, p)
    /\ UNCHANGED held

Enter ==
    /\ queue # <<>> /\ ~held
    /\ held' = TRUE
    /\ UNCHANGED queue

TryEnter(p) ==
    /\ queue = <<>>
    /\ queue' = <<p>>
    /\ held' = TRUE

Leave ==
    /\ held
    /\ queue' = Tail(queue)
    /\ held' = FALSE

Next == Enter \/ Leave \/ \E p \in Proc : Ask(p) \/ TryEnter(p)

Spec == Init /\ [][Next]_<<queue, held>>

=============================================================================
