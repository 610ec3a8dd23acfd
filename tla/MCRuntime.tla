----------------------------- MODULE MCRuntime -----------------------------
(***************************************************************************)
(* Model checking SyscallHook: any programs, interchangeable coroutines.   *)
(***************************************************************************)
EXTENDS SyscallHook, TLC

Symmetry == Permutations(Coro) \cup Permutations(Fd \ {ListenFd})
=============================================================================
