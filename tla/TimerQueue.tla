----------------------------- MODULE TimerQueue -----------------------------
(***************************************************************************)
(* The timers of src/src/coro/sched.c as they are stored: a red-black tree *)
(* of timer nodes ordered by deadline, in each node a red-black tree of    *)
(* the coroutines with that deadline ordered by coro_id, and a cache of    *)
(* unused nodes.  Sched sees all this as a set of deadlines.               *)
(*                                                                         *)
(* Deadlines are kept as time left, so that a step of the wall clock moves *)
(* every stored deadline.  The clock is gettimeofday, which may be set     *)
(* back.                                                                   *)
(***************************************************************************)
EXTENDS RbTree, MemCache

CONSTANTS Coro,        \* coro_id of the coroutines
          Block,       \* the timer nodes malloc has memory for
          Setups,      \* the instances looked at: the coroutines in use, the
                       \* milliseconds passed to schedule_timeout, and how
                       \* far a deadline may be in the past or the future
          IntBits,     \* width of int
          None         \* no deadline

max_coro_size(setup) == Cardinality(setup.coro)
CacheSize(setup) == max_coro_size(setup) \div 2

ASSUME BoundsFit ==
    \A setup \in Setups :
        /\ setup.coro \subseteq Coro
        /\ setup.ms \subseteq 0..setup.left
        /\ create_asserts(CacheSize(setup))
        /\ setup.left + setup.late < 2 ^ (IntBits - 1)

VARIABLES setup,
          timeout,     \* timeout of a suspended coroutine, 0 for the others
          suspended,   \* coroutines inside schedule_timeout
          inactive,    \* sched.inactive
          tm_node,     \* the linked timer nodes: timeout and root
          cache,       \* sched.cache
          active       \* what check_timeout_coroutine added to sched.active

vars == <<setup, timeout, suspended, inactive, tm_node, cache, active>>

\* schedule_init
Init ==
    /\ setup \in Setups
    /\ timeout = [c \in Coro |-> 0]
    /\ suspended = {}
    /\ inactive = RB_ROOT
    /\ tm_node = <<>>
    /\ \E pre \in [1..prefilled(CacheSize(setup)) -> Block] :
          /\ IsInjective(pre)
          /\ cache = memcache_create(CacheSize(setup), pre)
    /\ active = <<>>

-----------------------------------------------------------------------------
\* int timespan = a long long.
ToInt(x) == ((x + 2 ^ (IntBits - 1)) % 2 ^ IntBits) - 2 ^ (IntBits - 1)

find_timer_node(ms) ==
    descend(inactive, [x \in DOMAIN tm_node |-> ms - tm_node[x].timeout],
            inactive.root, Nil).found

find_in_timer(root, c) ==
    descend(root, [x \in DOMAIN root.n |-> c - x], root.root, Nil).found

add_to_timer_node(root, c) ==
    LET at == descend(root, [x \in DOMAIN root.n |-> c - x], root.root, Nil)
    IN  rb_insert_color(rb_link_node(root, c, at.parent, at.side), c)

drop_node(x) == [y \in DOMAIN tm_node \ {x} |-> tm_node[y]]

\* The search loop of move_to_inactive_tree, with its differences as int.
insertion_point(ms) ==
    descend(inactive, [x \in DOMAIN tm_node |-> ToInt(ms - tm_node[x].timeout)],
            inactive.root, Nil)

\* A node with this deadline is there.
joins_timer_node(c, ms) ==
    LET at == insertion_point(ms)
    IN  /\ at.found # Nil
        /\ tm_node' = [tm_node EXCEPT ![at.found].root =
                                          add_to_timer_node(@, c)]
        /\ UNCHANGED <<inactive, cache>>

\* A new node, out of the cache or from malloc.
links_timer_node(c, ms) ==
    LET at == insertion_point(ms)
        tmp == allocated(cache, Block)
    IN  /\ at.found = Nil
        /\ cache.elements # <<>> \/ ~(Block \subseteq cache.heap)
        /\ cache' = memcache_alloc(cache, Block)
        /\ tm_node' = [y \in DOMAIN tm_node \cup {tmp} |->
                         IF y = tmp
                         THEN [timeout |-> ms,
                               root |-> add_to_timer_node(RB_ROOT, c)]
                         ELSE tm_node[y]]
        /\ inactive' = rb_insert_color(
                         rb_link_node(inactive, tmp, at.parent, at.side), tmp)

\* memcache_alloc returned NULL: the coroutine is switched out all the same.
timer_alloc_fails(c, ms) ==
    /\ insertion_point(ms).found = Nil
    /\ cache.elements = <<>> /\ Block \subseteq cache.heap
    /\ UNCHANGED <<inactive, tm_node, cache>>

schedule_timeout(c, ms) ==
    /\ active = <<>>
    /\ c \notin suspended
    /\ timeout' = [timeout EXCEPT ![c] = ms]
    /\ suspended' = suspended \cup {c}
    /\ \/ joins_timer_node(c, ms)
       \/ links_timer_node(c, ms)
       \/ timer_alloc_fails(c, ms)
    /\ UNCHANGED active

-----------------------------------------------------------------------------
remove_from_timer_node(root, c) ==
    IF find_in_timer(root, c) = Nil THEN root ELSE rb_erase(root, c)

remove_from_inactive_tree(c) ==
    LET x == find_timer_node(timeout[c])
        rest == remove_from_timer_node(tm_node[x].root, c)
    IN  IF x = Nil THEN UNCHANGED <<inactive, tm_node, cache>>
        ELSE IF RB_EMPTY_ROOT(rest)
        THEN /\ inactive' = rb_erase(inactive, x)
             /\ tm_node' = drop_node(x)
             /\ cache' = memcache_free(cache, x)
        ELSE /\ tm_node' = [tm_node EXCEPT ![x].root = rest]
             /\ UNCHANGED <<inactive, cache>>

\* An event wakes the coroutine before its timer does.
wakeup_coro(c) ==
    /\ active = <<>>
    /\ c \in suspended
    /\ remove_from_inactive_tree(c)
    /\ suspended' = suspended \ {c}
    /\ timeout' = [timeout EXCEPT ![c] = 0]
    /\ UNCHANGED active

-----------------------------------------------------------------------------
get_recent_timer_node(tree) == rb_first(tree)

RECURSIVE timeout_coroutine_handler(_)
\* The coroutines of a node in the order they go to the active list: the
\* root of what is left, each time.
timeout_coroutine_handler(root) ==
    IF RB_EMPTY_ROOT(root) THEN <<>>
    ELSE <<root.root>> \o timeout_coroutine_handler(rb_erase(root, root.root))

RECURSIVE fire(_, _)
\* Mutant: due only after the deadline.
fire_strict(s, now) ==
    LET x == get_recent_timer_node(s.tree)
    IN  IF x = Nil \/ now <= tm_node[x].timeout THEN s
        ELSE fire([tree |-> rb_erase(s.tree, x),
                   moved |-> s.moved \o timeout_coroutine_handler(tm_node[x].root),
                   cache |-> memcache_free(s.cache, x)], now)

\* The loop of check_timeout_coroutine at time now: the tree, the cache and
\* the coroutines moved, when it is over.
fire(s, now) ==
    LET x == get_recent_timer_node(s.tree)
    IN  IF x = Nil \/ now < tm_node[x].timeout THEN s
        ELSE fire([tree |-> rb_erase(s.tree, x),
                   moved |-> s.moved \o timeout_coroutine_handler(tm_node[x].root),
                   cache |-> memcache_free(s.cache, x)], now)

check_timeout_coroutine ==
    LET s == fire([tree |-> inactive, moved |-> <<>>, cache |-> cache], 0)
    IN  /\ active = <<>>
        /\ s.moved # <<>>
        /\ inactive' = s.tree
        /\ cache' = s.cache
        /\ tm_node' = [x \in DOMAIN s.tree.n |-> tm_node[x]]
        /\ active' = s.moved
        /\ UNCHANGED <<suspended, timeout>>

\* The coroutines on the active list run, out of schedule_timeout.
run_active_coroutine ==
    /\ active # <<>>
    /\ suspended' = suspended \ Range(active)
    /\ timeout' = [c \in Coro |-> IF c \in Range(active) THEN 0 ELSE timeout[c]]
    /\ active' = <<>>
    /\ UNCHANGED <<inactive, tm_node, cache>>

\* Mutant: the root instead of the first node.
get_recent_timespan_root(tree) ==
    LET x == tree.root
        timespan == ToInt(tm_node[x].timeout)
    IN  IF x = Nil THEN 10 * 1000
        ELSE IF timespan < 0 THEN 0 ELSE timespan

get_recent_timespan(tree) ==
    LET x == get_recent_timer_node(tree)
        timespan == ToInt(tm_node[x].timeout)
    IN  IF x = Nil THEN 10 * 1000
        ELSE IF timespan < 0 THEN 0 ELSE timespan

\* get_curr_mseconds() moves by step.
clock_moves(step) ==
    /\ active = <<>>
    /\ suspended # {}
    /\ \A c \in suspended : timeout[c] - step \in (-setup.late)..setup.left
    /\ timeout' = [c \in Coro |->
                     IF c \in suspended THEN timeout[c] - step ELSE 0]
    /\ tm_node' = [x \in DOMAIN tm_node |->
                     [tm_node[x] EXCEPT !.timeout = @ - step]]
    /\ UNCHANGED <<suspended, inactive, cache, active>>

Next ==
    /\ UNCHANGED setup
    /\ \/ \E c \in setup.coro : \E ms \in setup.ms : schedule_timeout(c, ms)
       \/ \E c \in suspended : wakeup_coro(c)
       \/ check_timeout_coroutine
       \/ run_active_coroutine
       \/ \E step \in {-1, 1} : clock_moves(step)

Spec == Init /\ [][Next]_vars

-----------------------------------------------------------------------------
NodeOf(c) == {x \in DOMAIN tm_node : c \in DOMAIN tm_node[x].root.n}

\* The tree of timer nodes and the tree in every node are red-black search
\* trees after any mix of insertions and removals, no linked node is empty,
\* and a coroutine sits in a node with its own deadline.  No node leaks, is
\* cached while it is linked, or is cached twice (rbtree.c, sched.c,
\* memcache.c).
TreesAreSound ==
    /\ DOMAIN inactive.n = DOMAIN tm_node
    /\ IsRedBlack(inactive, [x \in DOMAIN tm_node |-> tm_node[x].timeout])
    /\ \A x \in DOMAIN tm_node :
          /\ ~RB_EMPTY_ROOT(tm_node[x].root)
          /\ IsRedBlack(tm_node[x].root, [c \in Coro |-> c])
          /\ \A c \in DOMAIN tm_node[x].root.n : timeout[c] = tm_node[x].timeout
    /\ Accounted(cache, DOMAIN tm_node)

\* The time event_cycle is told to wait reaches exactly to the nearest
\* deadline, whatever the shape of the tree (get_recent_timespan).
TimespanIsNearest ==
    LET left == {tm_node[x].timeout : x \in DOMAIN tm_node}
        span == get_recent_timespan(inactive)
    IN  IF left = {} THEN span = 10000
        ELSE /\ \A d \in left : span <= d \/ span = 0
             /\ \E d \in left : span = d \/ (span = 0 /\ d <= 0)

\* The trees implement a set of deadlines: an event cancels the timer of its
\* own coroutine and no other, also when that coroutine never got a timer
\* node, and a check takes all coroutines that are due and only those,
\* earliest deadline first, when the clock has been set back or on.
timers == INSTANCE TimerSet WITH
            deadline <- [c \in Coro |-> IF NodeOf(c) = {} THEN None
                                        ELSE tm_node[CHOOSE x \in NodeOf(c) : TRUE].timeout],
            due <- active
ImplementsTimerSet == timers!Spec

=============================================================================
