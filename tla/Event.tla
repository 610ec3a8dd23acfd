------------------------------- MODULE Event -------------------------------
(***************************************************************************)
(* The event table of a worker process, src/src/event.c, and the kernel    *)
(* object behind it.                                                       *)
(*                                                                         *)
(* evloop.array holds for every descriptor ONE mask, callback and argument.*)
(* interest is the kernel's side, what epoll_ctl has registered; the empty *)
(* set stands for a descriptor that is not registered, as the code never   *)
(* registers one with no events.                                           *)
(***************************************************************************)
EXTENDS Naturals

CONSTANTS
    Fd,      \* descriptors below evloop.max_conn
    Nil      \* NULL, and the owner of a closed descriptor

VARIABLES
    mask,       \* fe->mask
    proc,       \* fe->proc: "rw" event_rw_callback, "conn" event_conn_callback
    args,       \* fe->args: the coroutine to wake
    interest,   \* registered with epoll
    batch       \* descriptors epoll_wait reported whose callback is to run

eventVars == <<mask, proc, args, interest, batch>>

Events == {"in", "out"}

EventTypeOK(Args) ==
    /\ mask \in [Fd -> SUBSET Events]
    /\ proc \in [Fd -> {"null", "rw", "conn"}]
    /\ args \in [Fd -> Args \cup {Nil}]
    /\ interest \in [Fd -> SUBSET Events]
    /\ batch \subseteq Fd

event_loop_init ==
    /\ mask = [f \in Fd |-> {}]
    /\ proc = [f \in Fd |-> "null"]
    /\ args = [f \in Fd |-> Nil]
    /\ interest = [f \in Fd |-> {}]
    /\ batch = {}

\* add_fd_event returns 0.  EPOLL_CTL_ADD succeeds for a descriptor that is
\* not registered, EPOLL_CTL_MOD for one that is.  The error returns (-1 for
\* a descriptor out of range, -2 when epoll_ctl fails) change nothing.
add_fd_event(f, what, cb, c) ==
    /\ (mask[f] = {}) <=> (interest[f] = {})
    /\ mask' = [mask EXCEPT ![f] = @ \cup {what}]
    /\ interest' = [interest EXCEPT ![f] = mask[f] \cup {what}]
    /\ proc' = [proc EXCEPT ![f] = cb]
    /\ args' = [args EXCEPT ![f] = c]
    /\ batch' = batch

\* epoll_ctl's result is ignored: on a descriptor that is not registered both
\* DEL and MOD fail and leave it so.
del_fd_event(f, what) ==
    IF mask[f] = {}
    THEN UNCHANGED eventVars
    ELSE /\ mask' = [mask EXCEPT ![f] = @ \ {what}]
         /\ interest' = [interest EXCEPT
                ![f] = IF @ = {} THEN {} ELSE mask[f] \ {what}]
         /\ UNCHANGED <<proc, args, batch>>

\* close(): the kernel forgets the registration, the table is not touched.
close(f) ==
    /\ interest' = [interest EXCEPT ![f] = {}]
    /\ UNCHANGED <<mask, proc, args, batch>>

\* epoll_wait reports any registered descriptors, or none: the time is up or
\* a signal interrupted it.
epoll_wait(ready) ==
    /\ ready \subseteq {f \in Fd : interest[f] # {}}
    /\ batch' = ready
    /\ UNCHANGED <<mask, proc, args, interest>>

=============================================================================
