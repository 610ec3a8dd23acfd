------------------------------- MODULE CirBuf -------------------------------
(***************************************************************************)
(* The circular buffer of src/src/util/cirbuf.h, as operators on a record  *)
(* q with the fields start, end and elem.  Producer and consumer run in    *)
(* different processes, so each access to shared memory that the other     *)
(* side can notice is an operator of its own.                              *)
(***************************************************************************)
EXTENDS Naturals

CONSTANT ElemCount   \* queue->elem_count

ASSUME CirBufAssumption == ElemCount \in Nat \ {0}

Cells == 0..(ElemCount - 1)

Next1(k) == (k + 1) % ElemCount

cirbuf_is_empty(q) == q.start = q.end

cirbuf_is_full(q) == Next1(q.end) = q.start

\* cirbuf_write: the callback fills the cell, then the cell is published.
fill(q, m) == [q EXCEPT !.elem[q.end] = m]
publish(q) == [q EXCEPT !.end = Next1(@)]

\* cirbuf_read: the callback takes the cell, then the cell is given back.
front(q) == q.elem[q.start]
release(q) == [q EXCEPT !.start = Next1(@)]

\* What is between start and end.
queued(q) == {q.elem[k] : k \in {j \in Cells :
                 (j + ElemCount - q.start) % ElemCount
                     < (q.end + ElemCount - q.start) % ElemCount}}

=============================================================================
