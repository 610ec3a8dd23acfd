------------------------------ MODULE MCWorker ------------------------------
(***************************************************************************)
(* Model checking Worker: the coroutines and the connection descriptors    *)
(* are interchangeable.                                                    *)
(***************************************************************************)
EXTENDS Worker, TLC

Symmetry == Permutations(Coro) \cup Permutations(Fd \ {ListenFd})
=============================================================================
