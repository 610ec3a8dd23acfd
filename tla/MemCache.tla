------------------------------ MODULE MemCache ------------------------------
(***************************************************************************)
(* The cache of equal blocks of src/src/util/memcache.c: a stack of freed  *)
(* blocks in front of malloc and free.  Operators on the pair              *)
(*                                                                         *)
(*    [elements |-> the stack, cache_size |-> its limit, heap |-> the      *)
(*     blocks malloc has given out and free has not taken back]            *)
(***************************************************************************)
EXTENDS Naturals, Sequences, SequencesExt

add_element(m, element) ==
    IF Len(m.elements) < m.cache_size
    THEN [m EXCEPT !.elements = Append(@, element)]
    ELSE [m EXCEPT !.heap = @ \ {element}]

\* memcache_create from the blocks pre: the limit is assert()ed, and a
\* quarter of the cache is filled.
create_asserts(max_cache_size) == max_cache_size >= 2
prefilled(max_cache_size) == max_cache_size \div 4
memcache_create(max_cache_size, pre) ==
    [elements |-> pre, cache_size |-> max_cache_size, heap |-> Range(pre)]

\* The block memcache_alloc returns: the last one freed, or one from malloc
\* (which one makes no difference).
allocated(m, Block) ==
    IF m.elements # <<>> THEN Last(m.elements)
    ELSE CHOOSE element \in Block : element \notin m.heap
memcache_alloc(m, Block) ==
    IF m.elements # <<>> THEN [m EXCEPT !.elements = Front(@)]
    ELSE [m EXCEPT !.heap = @ \cup {allocated(m, Block)}]

memcache_free(m, element) == add_element(m, element)

\* Every block in the heap is in the cache or in the set used, never in both
\* and never cached twice; the stack stays within its array.
Accounted(m, used) ==
    /\ m.heap = Range(m.elements) \cup used
    /\ Range(m.elements) \cap used = {}
    /\ IsInjective(m.elements)
    /\ Len(m.elements) <= m.cache_size

=============================================================================
