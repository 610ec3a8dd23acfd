----------------------------- MODULE HashTable -----------------------------
(***************************************************************************)
(* The chained table of src/src/util/hashtable.c: a list per bucket,       *)
(* sorted by key.  Its size is a power of two, as hash_table_create wants, *)
(* and malloc works: the worker does not start otherwise.                  *)
(***************************************************************************)
EXTENDS Naturals, Sequences, SequencesExt

hash_table_create(bucket_size) ==
    [bucket_size |-> bucket_size,
     buckets |-> [i \in 0..(bucket_size - 1) |-> <<>>]]

bucket(ht, key) == ht.buckets[key % ht.bucket_size]

\* Where the loops stop: at the first key not below this one, or 0.
stops_at(ht, key) == SelectInSeq(bucket(ht, key), LAMBDA e : e.key >= key)

hash_table_find(ht, key, none) ==
    LET i == stops_at(ht, key)
    IN  IF i # 0 /\ bucket(ht, key)[i].key = key
        THEN bucket(ht, key)[i].object ELSE none

\* The key is there: hash_table_add returns -2 and leaves the table.
add_conflicts(ht, key) ==
    stops_at(ht, key) # 0 /\ bucket(ht, key)[stops_at(ht, key)].key = key

hash_table_add(ht, key, object) ==
    LET i == IF stops_at(ht, key) = 0 THEN Len(bucket(ht, key)) + 1
             ELSE stops_at(ht, key)
    IN  IF add_conflicts(ht, key) THEN ht
        ELSE [ht EXCEPT !.buckets[key % ht.bucket_size] =
                            InsertAt(@, i, [key |-> key, object |-> object])]

=============================================================================
