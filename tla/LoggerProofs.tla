---------------------------- MODULE LoggerProofs ----------------------------
(***************************************************************************)
(* What is proved of the logger (Logger), for any number of processes,     *)
(* slots, cells and messages: a slot has one writer, whatever the signal   *)
(* handlers log; and, as long as they do not, no message that a process    *)
(* wrote to a slot of its own is lost, repeated or reordered.              *)
(***************************************************************************)
EXTENDS LoggerInv

-----------------------------------------------------------------------------
(***************************************************************************)
(* The steps of the workers preserve QInv.                                 *)
(***************************************************************************)

\* What a worker does in a step that leaves the buffers.
Moves(w) ==
    /\ pc[w] = "reaped" => pc'[w] = "reaped"
    /\ pc'[w] \in {"none", "alloc", "start", "end"} => logger_id[w] = 0
    /\ pc'[w] = "zombie" /\ logger_id[w] # 0
          => log_object'[logger_id[w]].pid = w
    /\ pc'[w] \in {"desc", "write", "publish"} => logdesc'[w] = <<w, sent'[w]>>
    /\ pc'[w] = "write" => pc[w] = "write" \/ ~cirbuf_is_full(log(w))
    /\ pc'[w] = "publish" => pc[w] = "publish" /\ logdesc'[w] = logdesc[w]

\* Steps that change no buffer, the log and what was taken.
LEMMA QuietStep ==
    ASSUME IInv, IInv', QInv, logger_id' = logger_id, accepted' = accepted,
           Logged' = Logged,
           \A k \in Slot : /\ SameIndices(k)
                           /\ log_object'[k].elem = log_object[k].elem
                           /\ ReaderMoves(k)
                           /\ Copied(k)' = Copied(k),
           \A p \in Proc : Latest(p) <= Latest(p)',
           \A w \in Worker : Moves(w)
    PROVE  QInv'
<1> USE DEF QInv
<1>1. IdInv'
  BY Zenon DEF IdInv, Moves
<1>2. AuthorInv'
  BY <1>1, AuthorStep, Zenon
<1>3. UnusedInv'
  BY UnusedStep, Zenon
<1>4. \A p \in Proc : Quiet(p)
  <2>1. \A p \in Proc : logger_id[p] \in Slot
    BY Zenon DEF IInv, TypeOK
  <2> QED BY <2>1, Zenon DEF Quiet, Moves
<1>5. QueueInv'
  BY <1>4, QueueStep, Zenon DEF Moves
<1> QED BY <1>1, <1>2, <1>3, <1>5, Zenon

\* A worker is forked, ends, or finds its buffer full or not.
LEMMA ForkQueue ==
    ASSUME IInv, IInv', QInv, NEW w \in Worker,
           fork(w) \/ alloc_fails(w) \/ worker_ends(w) \/ write_check(w)
    PROVE  QInv'
<1>1. /\ \/ pc[w] = "none" /\ pc' = [pc EXCEPT ![w] = "alloc"]
         \/ pc[w] \in {"alloc", "run", "desc", "write", "publish"}
            /\ pc' = [pc EXCEPT ![w] = "zombie"]
         \/ pc[w] = "desc" /\ pc' = [pc EXCEPT ![w] = "run"]
         \/ /\ pc[w] = "desc" /\ pc' = [pc EXCEPT ![w] = "write"]
            /\ ~cirbuf_is_full(log(w))
      /\ log_object' = log_object /\ logger_lock' = logger_lock
      /\ logger_id' = logger_id /\ logdesc' = logdesc /\ mpc' = mpc
      /\ index' = index /\ flush_page' = flush_page /\ written' = written
      /\ sent' = sent /\ accepted' = accepted
  BY Zenon DEF fork, alloc_fails, worker_ends, write_check, goto, masterVars,
     scanVars, fileVars, ghosts
<1>2. \A k \in Slot : /\ SameIndices(k)
                      /\ log_object'[k].elem = log_object[k].elem
                      /\ ReaderMoves(k) /\ Copied(k)' = Copied(k)
  BY <1>1, Zenon DEF SameIndices, ReaderMoves, Reads, Copied
<1>3. Logged' = Logged
  BY <1>1, Zenon DEF Logged
<1>4. pc \in [Worker -> {"none", "alloc", "start", "end", "run", "desc",
                         "write", "publish", "zombie", "reaped"}]
  BY Zenon DEF IInv, TypeOK
<1>5. \A p \in Proc : Latest(p) <= Latest(p)'
  <2>1. \A p \in Proc : sent[p] \in Int
    BY LoggerAssumption DEF IInv, TypeOK
  <2> QED BY <1>1, <1>4, <2>1 DEF Latest
<1>6. \A v \in Worker : Moves(v)
  <2>1. \A v \in Worker : v # w => Moves(v)
    <3>1. \A v \in Worker : v # w => pc'[v] = pc[v]
      BY <1>1, <1>4, Zenon
    <3> QED BY <1>1, <3>1, Zenon DEF QInv, IdInv, Moves
  <2>2. Moves(w)
    <3>1. /\ pc[w] # "reaped"
          /\ pc'[w] \in {"alloc", "zombie", "run", "write"}
          /\ pc'[w] = "alloc" => pc[w] = "none"
          /\ pc'[w] = "write" => pc[w] = "desc" /\ ~cirbuf_is_full(log(w))
          /\ pc'[w] = "zombie" => pc[w] = "alloc" \/ w \in Running
      BY <1>1, <1>4, Zenon DEF Running
    <3>2. w \in Running => log_object[logger_id[w]].pid = w
      BY Zenon DEF IInv, SlotInv
    <3> QED BY <1>1, <3>1, <3>2, Zenon DEF QInv, IdInv, Moves
  <2> QED BY <2>1, <2>2, Zenon
<1> QED BY <1>1, <1>2, <1>3, <1>5, <1>6, QuietStep, Zenon

\* A free slot is taken: no process that can still log had it.
LEMMA AllocTakesQueue ==
    ASSUME IInv, IInv', QInv, NEW w \in Worker, NEW k \in Slot,
           alloc_takes(w, k)
    PROVE  QInv'
<1>1. /\ pc[w] = "alloc" /\ log_object[k].pid = Nil
      /\ log_object' = [log_object EXCEPT ![k].pid = w,
                                          ![k].need_init = FALSE]
      /\ pc' = [pc EXCEPT ![w] = "start"]
      /\ logger_id' = logger_id /\ logdesc' = logdesc /\ mpc' = mpc
      /\ index' = index /\ flush_page' = flush_page /\ written' = written
      /\ sent' = sent /\ accepted' = accepted
  BY Zenon DEF alloc_takes, Free, goto, masterVars, scanVars, fileVars, ghosts
<1>2. /\ log_object \in [Slot -> Object] /\ logger_id \in [Proc -> Slot]
      /\ pc \in [Worker -> {"none", "alloc", "start", "end", "run", "desc",
                         "write", "publish", "zombie", "reaped"}]
  BY ObjectType, Zenon DEF IInv, TypeOK
<1>3. \A l \in Slot : /\ SameIndices(l)
                      /\ log_object'[l].elem = log_object[l].elem
                      /\ l # k => log_object'[l].pid = log_object[l].pid
  BY <1>1, <1>2 DEF SameIndices, Object
<1>4. \A l \in Slot : ReaderMoves(l) /\ Copied(l)' = Copied(l)
  BY <1>1, Zenon DEF ReaderMoves, Reads, Copied
<1>5. Logged' = Logged
  BY <1>1, Zenon DEF Logged
<1>6. \A p \in Proc : Latest(p) <= Latest(p)'
  <2>1. \A p \in Proc : sent[p] \in Int
    BY LoggerAssumption DEF IInv, TypeOK
  <2> QED BY <1>1, <1>2, <2>1 DEF Latest
<1>7. \A v \in Worker : Moves(v)
  <2>1. ASSUME NEW v \in Worker, v # w PROVE Moves(v)
    <3>1. pc'[v] = pc[v]
      BY <1>1, <1>2, <2>1, Zenon
    <3>2. pc[v] = "zombie" /\ logger_id[v] # 0
             => log_object'[logger_id[v]].pid = v
      <4>1. logger_id[v] \in Slot /\ v # Nil
        BY <1>2, LoggerAssumption, Zenon DEF Proc
      <4> QED BY <1>1, <1>3, <4>1, Zenon DEF QInv, IdInv
    <3> QED BY <1>1, <3>1, <3>2, Zenon DEF QInv, IdInv, Moves
  <2>2. Moves(w)
    BY <1>1, <1>2, Zenon DEF QInv, IdInv, Moves
  <2> QED BY <2>1, <2>2, Zenon
<1> QED BY <1>1, <1>3, <1>4, <1>5, <1>6, <1>7, QuietStep, Zenon

\* A message is composed.
LEMMA LogOutQueue ==
    ASSUME IInv, IInv', QInv, NEW w \in Worker, log_out(w)
    PROVE  QInv'
<1>1. /\ pc[w] = "run" /\ pc' = [pc EXCEPT ![w] = "desc"]
      /\ sent' = [sent EXCEPT ![w] = sent[w] + 1]
      /\ logdesc' = [logdesc EXCEPT ![w] = <<w, sent[w] + 1>>]
      /\ log_object' = log_object
      /\ logger_id' = logger_id /\ mpc' = mpc
      /\ index' = index /\ flush_page' = flush_page /\ written' = written
      /\ accepted' = accepted
  BY Zenon DEF log_out, goto, masterVars, scanVars, fileVars
<1>2. \A k \in Slot : /\ SameIndices(k)
                      /\ log_object'[k].elem = log_object[k].elem
                      /\ ReaderMoves(k) /\ Copied(k)' = Copied(k)
  BY <1>1, Zenon DEF SameIndices, ReaderMoves, Reads, Copied
<1>3. Logged' = Logged
  BY <1>1, Zenon DEF Logged
<1>4. /\ w \in Proc /\ Worker \subseteq Proc
      /\ sent \in [Proc -> 0..MaxMsg] /\ MaxMsg \in Nat
      /\ logdesc \in [Proc -> Msg \cup {Nil}]
      /\ pc \in [Worker -> {"none", "alloc", "start", "end", "run", "desc",
                         "write", "publish", "zombie", "reaped"}]
  BY LoggerAssumption, Zenon DEF IInv, TypeOK, Proc
<1>5. /\ pc'[w] = "desc" /\ sent'[w] = sent[w] + 1
      /\ logdesc'[w] = <<w, sent[w] + 1>>
      /\ \A v \in Worker : v # w => pc'[v] = pc[v] /\ logdesc'[v] = logdesc[v]
      /\ \A v \in Proc : v # w => sent'[v] = sent[v]
  BY <1>1, <1>4, Zenon
<1>6. \A p \in Proc : Latest(p) <= Latest(p)'
  <2>1. \A p \in Proc : sent[p] \in Int
    BY <1>4
  <2> QED BY <1>1, <1>5, <2>1 DEF Latest
<1>7. \A v \in Worker : Moves(v)
  <2>1. \A v \in Worker : v # w => Moves(v)
    BY <1>1, <1>4, <1>5, Zenon DEF QInv, IdInv, Moves
  <2>2. Moves(w)
    BY <1>1, <1>5, Zenon DEF Moves
  <2> QED BY <2>1, <2>2, Zenon
<1> QED BY <1>1, <1>2, <1>3, <1>6, <1>7, QuietStep, Zenon

\* cirbuf_init of a slot: it has the pid of the process that starts.
LEMMA InitStartQueue ==
    ASSUME IInv, IInv', QInv, NEW w \in Worker, NEW k \in Slot,
           init_start(w, k)
    PROVE  QInv'
<1> USE DEF QInv
<1>1. /\ pc[w] = "start" /\ log_object[k].pid = w
      /\ log_object' = [log_object EXCEPT ![k].start = 0]
      /\ pc' = [pc EXCEPT ![w] = "end"]
      /\ logger_id' = logger_id /\ logdesc' = logdesc /\ mpc' = mpc
      /\ index' = index /\ flush_page' = flush_page /\ written' = written
      /\ sent' = sent /\ accepted' = accepted
  BY Zenon DEF init_start, goto, masterVars, scanVars, fileVars, ghosts
<1>2. /\ log_object \in [Slot -> Object] /\ logger_id \in [Proc -> Slot]
      /\ pc \in [Worker -> {"none", "alloc", "start", "end", "run", "desc",
                         "write", "publish", "zombie", "reaped"}]
      /\ w # Master /\ w \in Proc /\ Worker \subseteq Proc
  BY ObjectType, LoggerAssumption, Zenon DEF IInv, TypeOK, Proc
<1>3. /\ log_object'[k].start = 0 /\ log_object'[k].end = log_object[k].end
      /\ \A l \in Slot : /\ l # k => SameIndices(l)
                         /\ log_object'[l].elem = log_object[l].elem
                         /\ log_object'[l].pid = log_object[l].pid
  BY <1>1, <1>2 DEF SameIndices, Object
<1>4. /\ pc'[w] = "end" /\ logger_id[w] = 0
      /\ \A v \in Worker : v # w => pc'[v] = pc[v]
  BY <1>1, <1>2, Zenon DEF IdInv
<1>5. /\ Logged' = Logged
      /\ \A l : (Reads(l)' <=> Reads(l)) /\ Copied(l)' = Copied(l)
  BY <1>1, Zenon DEF Logged, Reads, Copied
<1>6. IdInv'
  <2>1. ASSUME NEW v \in Worker, v # w, pc'[v] = "zombie", logger_id'[v] # 0
        PROVE  log_object'[logger_id'[v]].pid = v
    BY <1>1, <1>2, <1>3, <1>4, <2>1 DEF IdInv
  <2> QED BY <1>1, <1>4, <2>1, Zenon DEF IdInv
<1>7. AuthorInv'
  BY <1>1, <1>3, <1>5, <1>6, AuthorStep, Zenon
<1>8. UnusedInv'
  BY <1>1, <1>3, <1>5, Zenon DEF UnusedInv, SameIndices
<1>9. ASSUME NEW p \in Proc, Steady(p) PROVE Quiet(p)
  <2>1. logger_id[p] \in Slot /\ log_object[logger_id[p]].pid = p /\ p # w
    BY <1>2, <1>4, <1>9, OwnSlot, Zenon DEF Steady
  <2>2. SameIndices(logger_id[p]) /\ ReaderMoves(logger_id[p])
    BY <1>1, <1>3, <1>5, <2>1, Zenon DEF ReaderMoves
  <2>3. Latest(p)' = Latest(p)
    BY <1>1, <1>4, <2>1, Zenon DEF Latest
  <2>4. Latest(p) <= Latest(p)'
    BY <2>3, LatestType
  <2> QED BY <1>1, <1>3, <1>4, <1>5, <2>1, <2>2, <2>4, Zenon DEF Quiet
<1>10. QueueInv'
  BY <1>1, <1>4, <1>9, QueueStep, Zenon
<1> QED BY <1>6, <1>7, <1>8, <1>10, Zenon

\* The process gets its logger_id.  If no process had the slot before, its
\* buffer is empty and nobody reads it.
LEMMA InitEndQueue ==
    ASSUME IInv, IInv', QInv, NEW w \in Worker, NEW k \in Slot,
           init_end(w, k)
    PROVE  QInv'
<1> USE DEF QInv
<1>1. /\ pc[w] = "end" /\ log_object[k].pid = w
      /\ log_object' = [log_object EXCEPT ![k].end = 0]
      /\ pc' = [pc EXCEPT ![w] = "run"]
      /\ logger_id' = [logger_id EXCEPT ![w] = k]
      /\ logdesc' = logdesc /\ mpc' = mpc
      /\ index' = index /\ flush_page' = flush_page /\ written' = written
      /\ sent' = sent /\ accepted' = accepted
  BY Zenon DEF init_end, goto, masterVars, scanVars, fileVars, ghosts
<1>2. /\ log_object \in [Slot -> Object] /\ logger_id \in [Proc -> Slot]
      /\ pc \in [Worker -> {"none", "alloc", "start", "end", "run", "desc",
                         "write", "publish", "zombie", "reaped"}]
      /\ w # Master /\ w \in Proc /\ Worker \subseteq Proc
  BY ObjectType, LoggerAssumption, Zenon DEF IInv, TypeOK, Proc
<1>3. /\ log_object'[k].end = 0 /\ log_object'[k].start = log_object[k].start
      /\ \A l \in Slot : /\ l # k => SameIndices(l)
                         /\ log_object'[l].elem = log_object[l].elem
                         /\ log_object'[l].pid = log_object[l].pid
  BY <1>1, <1>2 DEF SameIndices, Object
<1>4. /\ pc'[w] = "run" /\ logger_id[w] = 0 /\ logger_id'[w] = k /\ k # 0
      /\ \A v \in Worker : v # w => pc'[v] = pc[v]
      /\ \A v \in Proc : v # w => logger_id'[v] = logger_id[v]
  BY <1>1, <1>2 DEF IdInv, IInv, SlotInv
<1>5. /\ Logged' = Logged
      /\ \A l : (Reads(l)' <=> Reads(l)) /\ Copied(l)' = Copied(l)
  BY <1>1, Zenon DEF Logged, Reads, Copied
<1>6. IdInv'
  <2>1. ASSUME NEW v \in Worker, v # w, pc'[v] = "zombie", logger_id'[v] # 0
        PROVE  log_object'[logger_id'[v]].pid = v
    BY <1>1, <1>2, <1>3, <1>4, <2>1 DEF IdInv
  <2>2. logger_id'[Master] = 0
    BY <1>2, <1>4, Zenon DEF Proc, IdInv
  <2> QED BY <1>1, <1>2, <1>4, <2>1, <2>2, Zenon DEF IdInv
<1>7. AuthorInv'
  <2>1. \A v \in Proc : logger_id[v] # 0 => logger_id'[v] = logger_id[v]
    BY <1>4, Zenon
  <2> QED BY <1>1, <1>3, <1>5, <1>6, <2>1, AuthorStep, Zenon
<1>8. UnusedInv'
  <2> SUFFICES ASSUME NEW l \in Slot \ {0},
                      \A v \in Worker : logger_id'[v] # l
               PROVE  /\ log_object'[l].start = 0 /\ log_object'[l].end = 0
                      /\ ~Reads(l)'
    BY Zenon DEF UnusedInv
  <2>1. l # k /\ \A v \in Worker : logger_id[v] # l
    BY <1>2, <1>4, Zenon
  <2> QED BY <1>3, <1>5, <2>1, Zenon DEF UnusedInv, SameIndices
<1>9. ASSUME NEW p \in Proc, Steady(p)', p # w
      PROVE  Orderly(p, log(p).start, log(p).end, log(p).elem)'
  <2>1. Steady(p)
    BY <1>2, <1>4, <1>9, Zenon DEF Steady, Proc
  <2>2. logger_id[p] \in Slot /\ log_object[logger_id[p]].pid = p
    BY <2>1, OwnSlot, Zenon
  <2>3. SameIndices(logger_id[p]) /\ ReaderMoves(logger_id[p])
    BY <1>1, <1>3, <1>5, <1>9, <2>2 DEF ReaderMoves
  <2>4. Latest(p)' = Latest(p)
    BY <1>1, <1>4, <1>9, Zenon DEF Latest
  <2>5. Latest(p) <= Latest(p)'
    BY <2>4, LatestType
  <2>6. Quiet(p)
    BY <1>1, <1>3, <1>4, <1>5, <1>9, <2>2, <2>3, <2>5, Zenon DEF Quiet
  <2>7. Orderly(p, log(p).start, log(p).end, log(p).elem)
    BY <2>1, Zenon DEF QueueInv
  <2> QED BY <1>4, <1>9, <2>6, <2>7, QuietOrderly, Zenon
<1>10. ASSUME Steady(w)'
       PROVE  Orderly(w, log(w).start, log(w).end, log(w).elem)'
  <2>1. /\ log_object[k].start = 0 /\ ~Reads(k)
    <3>1. \A v \in Worker : logger_id[v] # k
      BY <1>2, <1>4, <1>10, Zenon DEF Steady
    <3> QED BY <1>4, <3>1, Zenon DEF UnusedInv
  <2>2. /\ \A m \in accepted' : m[1] # w
        /\ \A a \in 1..Len(Logged') : ~By(w, Logged'[a])
    <3>1. \A m \in Msg : Known(m) => m[1] # w
      BY <1>2, <1>4, Zenon DEF Known
    <3>2. \A m \in accepted' : m[1] # w
      BY <1>1, <3>1, Zenon DEF AuthorInv, IInv, TypeOK
    <3>3. ASSUME NEW a \in 1..Len(Logged), By(w, Logged[a]) PROVE FALSE
      <4>1. Logged[a] \in Msg
        BY <3>3, LogTypes DEF By
      <4> QED BY <3>1, <3>3, <4>1, Zenon DEF AuthorInv, InLog, By
    <3> QED BY <1>5, <3>2, <3>3, Zenon DEF By
  <2>3. 0 \in Cells
    BY CirBufAssumption DEF Cells
  <2>4. PICK x : x = log_object'[logger_id'[w]].elem
    BY Zenon
  <2>5. ~Reads(logger_id[w])'
    BY <1>4, <1>5, <2>1, Zenon
  <2>6. Orderly(w, 0, 0, x)'
    BY <1>4, <2>2, <2>3, <2>5, FirstOrderly, Zenon
  <2>7. log_object'[logger_id'[w]].start = 0 /\ log_object'[logger_id'[w]].end = 0
    BY <1>3, <1>4, <2>1, Zenon
  <2> QED BY <2>4, <2>6, <2>7, Parts, Zenon
<1>11. QueueInv'
  BY <1>9, <1>10, Zenon DEF QueueInv
<1> QED BY <1>6, <1>7, <1>8, <1>11, Zenon

\* What cirbuf_write and cirbuf_read do to the parts of a buffer.
LEMMA BufferParts ==
    ASSUME NEW q \in Object, NEW m \in Msg \cup {Nil}
    PROVE  /\ fill(q, m).start = q.start /\ fill(q, m).end = q.end
           /\ fill(q, m).elem = [q.elem EXCEPT ![q.end] = m]
           /\ publish(q).start = q.start /\ publish(q).end = Next1(q.end)
           /\ publish(q).elem = q.elem
           /\ release(q).start = Next1(q.start) /\ release(q).end = q.end
           /\ release(q).elem = q.elem
           /\ front(q) = q.elem[q.start]
<1>1. /\ fill(q, m).start = q.start /\ fill(q, m).end = q.end
      /\ fill(q, m).elem = [q.elem EXCEPT ![q.end] = m]
  BY Zenon DEF fill, Object
<1>2. /\ publish(q).start = q.start /\ publish(q).end = Next1(q.end)
      /\ publish(q).elem = q.elem
  BY Zenon DEF publish, Object
<1>3. /\ release(q).start = Next1(q.start) /\ release(q).end = q.end
      /\ release(q).elem = q.elem
  BY Zenon DEF release, Object
<1> QED BY <1>1, <1>2, <1>3, Zenon DEF front

\* Whoever runs has a slot that no steady process but it has.
LEMMA WriterSlot ==
    ASSUME IInv, QInv, NEW w \in Running
    PROVE  /\ w \in Worker /\ w \in Proc /\ w # Master
           /\ logger_id[w] \in Slot /\ logger_id[w] # 0
           /\ log_object[logger_id[w]].pid = w
           /\ \A p \in Proc : Steady(p) /\ p # w => logger_id[p] # logger_id[w]
<1>1. w \in Worker /\ w \in Proc /\ w # Master
  BY LoggerAssumption, Zenon DEF Running, Proc
<1>2. logger_id[w] \in Slot /\ log_object[logger_id[w]].pid = w
  BY <1>1, Zenon DEF IInv, TypeOK, SlotInv
<1> QED BY <1>1, <1>2, OwnSlot, Zenon DEF QInv, IInv, SlotInv

\* A step of one worker leaves the others and their buffers.
LEMMA OthersQuiet ==
    ASSUME IInv, IInv', NEW w \in Worker, NEW k \in Slot,
           NEW p \in Proc, p # w, logger_id[p] \in Slot, logger_id[p] # k,
           logger_id' = logger_id,
           \A l \in Slot : l # k => log_object'[l] = log_object[l],
           \A v \in Worker : v # w => pc'[v] = pc[v] /\ logdesc'[v] = logdesc[v],
           sent' = sent, mpc' = mpc, index' = index, Logged' = Logged,
           \A m \in accepted' : m \in accepted \/ m[1] = w
    PROVE  Quiet(p)
<1>1. Latest(p)' = Latest(p)
  BY Zenon DEF Latest
<1>2. Latest(p) <= Latest(p)'
  BY <1>1, LatestType
<1>3. SameIndices(logger_id[p]) /\ ReaderMoves(logger_id[p])
  BY Zenon DEF SameIndices, ReaderMoves, Reads
<1> QED BY <1>2, <1>3, Zenon DEF Quiet, Copied

\* The callback of cirbuf_write.
LEMMA WriteQueue ==
    ASSUME IInv, IInv', QInv, NEW w \in Worker, log_write(w)
    PROVE  QInv'
<1> USE DEF QInv
<1> DEFINE k == logger_id[w]
           q == log_object[k]
<1>1. /\ pc[w] = "write"
      /\ log_object' = [log_object EXCEPT ![k] = fill(q, logdesc[w])]
      /\ pc' = [pc EXCEPT ![w] = "publish"]
      /\ logger_id' = logger_id /\ logdesc' = logdesc /\ mpc' = mpc
      /\ index' = index /\ flush_page' = flush_page /\ written' = written
      /\ sent' = sent /\ accepted' = accepted
  BY Zenon DEF log_write, goto, masterVars, scanVars, fileVars, ghosts
<1>2. /\ log_object \in [Slot -> Object] /\ logger_id \in [Proc -> Slot]
      /\ pc \in [Worker -> {"none", "alloc", "start", "end", "run", "desc",
                         "write", "publish", "zombie", "reaped"}]
      /\ logdesc[w] \in Msg /\ Worker \subseteq Proc
  BY <1>1, ObjectType, Zenon DEF IInv, TypeOK, Proc, ScanInv
<1>3. w \in Running
  BY <1>1, Zenon DEF Running
<1>4. /\ w \in Proc /\ w # Master /\ k \in Slot /\ k # 0 /\ q.pid = w
      /\ \A p \in Proc : Steady(p) /\ p # w => logger_id[p] # k
  BY <1>3, WriterSlot, Zenon
<1>5. q \in Object
  BY <1>2, <1>4, Zenon
<1>6. /\ fill(q, logdesc[w]).start = q.start /\ fill(q, logdesc[w]).end = q.end
      /\ fill(q, logdesc[w]).elem = [q.elem EXCEPT ![q.end] = logdesc[w]]
      /\ fill(q, logdesc[w]).pid = q.pid
  BY <1>2, <1>5, BufferParts, BufferType
<1>7. /\ log_object'[k] = fill(q, logdesc[w])
      /\ \A l \in Slot : l # k => log_object'[l] = log_object[l]
  BY <1>1, <1>2, <1>4, Zenon
<1>8. /\ \A l \in Slot : SameIndices(l) /\ log_object'[l].pid = log_object[l].pid
      /\ log_object'[k].elem = [q.elem EXCEPT ![q.end] = logdesc[w]]
  BY <1>6, <1>7, Zenon DEF SameIndices
<1>9. /\ pc'[w] = "publish"
      /\ \A v \in Worker : v # w => pc'[v] = pc[v]
  BY <1>1, <1>2, Zenon
<1>10. /\ Logged' = Logged
       /\ \A l : (Reads(l)' <=> Reads(l)) /\ Copied(l)' = Copied(l)
  BY <1>1, Zenon DEF Logged, Reads, Copied
<1>11. logdesc[w] = <<w, sent[w]>>
  BY <1>1, Zenon DEF IdInv
<1> HIDE DEF k, q
<1>12. IdInv'
  <2>1. ASSUME NEW v \in Worker, v # w, pc'[v] = "zombie", logger_id'[v] # 0
        PROVE  log_object'[logger_id'[v]].pid = v
    BY <1>1, <1>2, <1>8, <1>9, <2>1, Zenon DEF IdInv
  <2> QED BY <1>1, <1>9, <1>11, <2>1, Zenon DEF IdInv
<1>13. AuthorInv'
  <2>1. \A m \in Msg, l \in Slot, c \in Cells : log_object'[l].elem[c] = m =>
           \/ log_object[l].elem[c] = m
           \/ Known(m)' /\ logger_id'[m[1]] = l
    <3>1. Known(logdesc[w])' /\ logger_id'[logdesc[w][1]] = k
      BY <1>1, <1>4, <1>11 DEF Known, k
    <3>2. q.elem \in [Cells -> Cell] /\ log_object[k] = q
      BY <1>2, <1>4, BufferOf, Zenon DEF q
    <3>3. \A c \in Cells : log_object'[k].elem[c] \in {q.elem[c], logdesc[w]}
      BY <1>8, <3>2, Zenon
    <3>4. \A m \in Msg, c \in Cells : log_object'[k].elem[c] = m =>
             \/ log_object[k].elem[c] = m
             \/ Known(m)' /\ logger_id'[m[1]] = k
      <4>1. ASSUME NEW m \in Msg, m = logdesc[w]
            PROVE  Known(m)' /\ logger_id'[m[1]] = k
        BY <1>1, <3>1, <4>1, Zenon DEF Known
      <4> QED BY <3>2, <3>3, <4>1, Zenon
    <3> QED BY <1>7, <3>4
  <2> QED BY <1>1, <1>10, <1>12, <2>1, AuthorStep, Zenon
<1>14. UnusedInv'
  BY <1>1, <1>8, <1>10, UnusedStep, Zenon DEF ReaderMoves
<1>15. ASSUME NEW p \in Proc, Steady(p)
       PROVE  Quiet(p) \/ Orderly(p, log(p).start, log(p).end, log(p).elem)'
  <2>1. CASE p # w
    <3>1. logger_id[p] \in Slot /\ logger_id[p] # k
      BY <1>2, <1>4, <1>15, <2>1, Zenon
    <3> QED BY <1>1, <1>4, <1>7, <1>9, <1>10, <2>1, <3>1, OthersQuiet, Zenon
  <2>2. CASE p = w
    <3>1. PICK s, e, x, y : /\ s = q.start /\ e = q.end /\ x = q.elem
                            /\ y = [x EXCEPT ![e] = logdesc[w]]
      BY Zenon
    <3>2. /\ s \in Cells /\ e \in Cells /\ x \in [Cells -> Cell]
      BY <1>2, <1>4, <3>1, BufferOf, Zenon DEF q
    <3>3. y \in [Cells -> Cell]
      BY <1>2, <3>1, <3>2, Zenon DEF Cell
    <3>4. Orderly(w, s, e, x)
      BY <1>15, <2>2, <3>1, Zenon DEF QueueInv, log, q, k
    <3>5. SameReader(w)
      BY <1>1, <1>10, Zenon DEF SameReader
    <3>6. Orderly(w, s, e, y)'
      BY <1>1, <1>9, <3>1, <3>2, <3>3, <3>4, <3>5, FillOrderly, Zenon
    <3>7. /\ s = log_object'[logger_id'[w]].start
          /\ e = log_object'[logger_id'[w]].end
          /\ y = log_object'[logger_id'[w]].elem
      BY <1>1, <1>4, <1>8, <3>1 DEF SameIndices, k, q
    <3> QED BY <2>2, <3>6, <3>7, Parts, Zenon
  <2> QED BY <2>1, <2>2, Zenon
<1>16. QueueInv'
  BY <1>1, <1>9, <1>15, QueueStep, Zenon
<1> QED BY <1>12, <1>13, <1>14, <1>16, Zenon

\* The end of cirbuf_write.
LEMMA PublishQueue ==
    ASSUME IInv, IInv', QInv, NEW w \in Worker, write_done(w)
    PROVE  QInv'
<1> USE DEF QInv
<1> DEFINE k == logger_id[w]
           q == log_object[k]
<1>1. /\ pc[w] = "publish"
      /\ log_object' = [log_object EXCEPT ![k] = publish(q)]
      /\ pc' = [pc EXCEPT ![w] = "run"]
      /\ logger_id' = logger_id /\ logdesc' = logdesc /\ mpc' = mpc
      /\ index' = index /\ flush_page' = flush_page /\ written' = written
      /\ sent' = sent /\ accepted' = accepted \cup {logdesc[w]}
  BY Zenon DEF write_done, goto, masterVars, scanVars, fileVars
<1>2. /\ log_object \in [Slot -> Object] /\ logger_id \in [Proc -> Slot]
      /\ pc \in [Worker -> {"none", "alloc", "start", "end", "run", "desc",
                         "write", "publish", "zombie", "reaped"}]
      /\ logdesc[w] \in Msg /\ Worker \subseteq Proc
  BY <1>1, ObjectType, Zenon DEF IInv, TypeOK, Proc, ScanInv
<1>3. w \in Running
  BY <1>1, Zenon DEF Running
<1>4. /\ w \in Proc /\ w # Master /\ k \in Slot /\ k # 0 /\ q.pid = w
      /\ \A p \in Proc : Steady(p) /\ p # w => logger_id[p] # k
  BY <1>3, WriterSlot, Zenon
<1>5. q \in Object
  BY <1>2, <1>4, Zenon
<1>6. /\ publish(q).start = q.start /\ publish(q).end = Next1(q.end)
      /\ publish(q).elem = q.elem /\ publish(q).pid = q.pid
  BY <1>2, <1>5, BufferParts, BufferType, Zenon
<1>7. /\ log_object'[k] = publish(q)
      /\ \A l \in Slot : l # k => log_object'[l] = log_object[l]
  BY <1>1, <1>2, <1>4, Zenon
<1>8. \A l \in Slot : /\ l # k => SameIndices(l)
                      /\ log_object'[l].pid = log_object[l].pid
                      /\ log_object'[l].elem = log_object[l].elem
  BY <1>6, <1>7, Zenon DEF SameIndices
<1>9. /\ pc'[w] = "run"
      /\ \A v \in Worker : v # w => pc'[v] = pc[v]
  BY <1>1, <1>2, Zenon
<1>10. /\ Logged' = Logged
       /\ \A l : (Reads(l)' <=> Reads(l)) /\ Copied(l)' = Copied(l)
  BY <1>1, Zenon DEF Logged, Reads, Copied
<1>11. /\ logdesc[w] = <<w, sent[w]>> /\ logdesc[w][1] = w
       /\ logdesc[w][2] = sent[w]
  BY <1>1 DEF IdInv
<1>12. \A m \in accepted' : m \in accepted \/ m = logdesc[w]
  BY <1>1, Zenon
<1> HIDE DEF k, q
<1>13. IdInv'
  <2>1. ASSUME NEW v \in Worker, v # w, pc'[v] = "zombie", logger_id'[v] # 0
        PROVE  log_object'[logger_id'[v]].pid = v
    BY <1>1, <1>2, <1>8, <1>9, <2>1, Zenon DEF IdInv
  <2> QED BY <1>1, <1>9, <1>11, <2>1, Zenon DEF IdInv
<1>14. AuthorInv'
  <2>1. ASSUME NEW m \in accepted' PROVE m \in accepted \/ Known(m)'
    BY <1>1, <1>4, <1>11, <1>12, <2>1, Zenon DEF Known, k
  <2> QED BY <1>1, <1>8, <1>10, <1>13, <2>1, AuthorStep, Zenon
<1>15. UnusedInv'
  BY <1>1, <1>8, <1>10, UnusedStep, Zenon DEF ReaderMoves, k
<1>16. ASSUME NEW p \in Proc, Steady(p)
       PROVE  Quiet(p) \/ Orderly(p, log(p).start, log(p).end, log(p).elem)'
  <2>1. CASE p # w
    <3>1. logger_id[p] \in Slot /\ logger_id[p] # k
      BY <1>2, <1>4, <1>16, <2>1, Zenon
    <3>2. \A m \in accepted' : m \in accepted \/ m[1] = w
      BY <1>11, <1>12, Zenon
    <3>3. \A v \in Worker : v # w => pc'[v] = pc[v] /\ logdesc'[v] = logdesc[v]
      BY <1>1, <1>9, Zenon
    <3>4. /\ sent' = sent /\ mpc' = mpc /\ index' = index
          /\ logger_id' = logger_id /\ Logged' = Logged
      BY <1>1, <1>10, Zenon
    <3> QED BY <1>4, <1>7, <2>1, <3>1, <3>2, <3>3, <3>4, OthersQuiet
  <2>2. CASE p = w
    <3>1. PICK s, e, x, m : /\ s = q.start /\ e = q.end /\ x = q.elem
                            /\ m = logdesc[w]
      BY Zenon
    <3>2. /\ s \in Cells /\ e \in Cells /\ x \in [Cells -> Cell]
      BY <1>2, <1>4, <3>1, BufferOf, Zenon DEF q
    <3>3. Orderly(w, s, e, x)
      BY <1>16, <2>2, <3>1, Zenon DEF QueueInv, log, q, k
    <3>4. Next1(e) # s /\ x[e] = m
      BY <1>1, <3>1, <3>3, Zenon DEF Orderly, WriteInv
    <3>5. SameReader(w)
      BY <1>1, <1>10, Zenon DEF SameReader
    <3>6. m[1] = w /\ Latest(w) < m[2] /\ m[2] <= Latest(w)'
      <4>1. sent[w] \in Int
        BY <1>4, LoggerAssumption DEF IInv, TypeOK
      <4> QED BY <1>1, <1>9, <1>11, <3>1, <4>1 DEF Latest
    <3>7. /\ m \in Msg /\ accepted' = accepted \cup {m}
          /\ pc'[w] \notin {"write", "publish"}
      BY <1>1, <1>2, <1>9, <3>1, Zenon
    <3>8. Orderly(w, s, Next1(e), x)'
      BY <1>4, <3>2, <3>3, <3>4, <3>5, <3>6, <3>7, PublishOrderly, Zenon
    <3>9. /\ s = log_object'[logger_id'[w]].start
          /\ Next1(e) = log_object'[logger_id'[w]].end
          /\ x = log_object'[logger_id'[w]].elem
      BY <1>1, <1>6, <1>7, <3>1, Zenon DEF k
    <3> QED BY <2>2, <3>8, <3>9, Parts, Zenon
  <2> QED BY <2>1, <2>2, Zenon
<1>17. QueueInv'
  BY <1>1, <1>9, <1>16, QueueStep, Zenon
<1> QED BY <1>13, <1>14, <1>15, <1>17, Zenon

\* A whole log_out in a signal handler: only the buffer of its process changes.
LEMMA NestedParts ==
    ASSUME IInv, NEW p \in Proc, sent[p] < MaxMsg
    PROVE  /\ \A k \in Slot : k # logger_id[p] => NestedLog(p)[k] = log_object[k]
           /\ NestedLog(p)[logger_id[p]].start = log(p).start
           /\ cirbuf_is_full(log(p)) =>
                 /\ NestedLog(p)[logger_id[p]].end = log(p).end
                 /\ NestedLog(p)[logger_id[p]].elem = log(p).elem
           /\ ~cirbuf_is_full(log(p)) =>
                 /\ NestedLog(p)[logger_id[p]].end = Next1(log(p).end)
                 /\ NestedLog(p)[logger_id[p]].elem
                       = [log(p).elem EXCEPT ![log(p).end] = <<p, sent[p] + 1>>]
<1> DEFINE m == <<p, sent[p] + 1>>
           j == logger_id[p]
           q == log_object[j]
           f == fill(q, m)
<1>1. log_object \in [Slot -> Object] /\ j \in Slot /\ m \in Msg \cup {Nil}
  BY ObjectType, MessageType, Zenon DEF IInv, TypeOK
<1>2. q \in Object
  BY <1>1, Zenon
<1>3. NestedLog(p) = IF cirbuf_is_full(q) THEN log_object
                     ELSE [log_object EXCEPT ![j] = publish(f)]
  BY Zenon DEF NestedLog, log
<1>4. log(p) = q
  BY Zenon DEF log
<1> HIDE DEF m, j, q
<1>5. f \in Object /\ f.start = q.start /\ f.end = q.end
      /\ f.elem = [q.elem EXCEPT ![q.end] = m]
  BY <1>1, <1>2, BufferParts, BufferType, Zenon
<1> HIDE DEF f
<1>6. /\ publish(f).start = q.start /\ publish(f).end = Next1(q.end)
      /\ publish(f).elem = [q.elem EXCEPT ![q.end] = m]
  BY <1>1, <1>5, BufferParts
<1>7. CASE cirbuf_is_full(q)
  BY <1>3, <1>4, <1>7, Zenon DEF j, q
<1>8. CASE ~cirbuf_is_full(q)
  <2>1. /\ NestedLog(p)[j] = publish(f)
        /\ \A k \in Slot : k # j => NestedLog(p)[k] = log_object[k]
    BY <1>1, <1>3, <1>8, Zenon
  <2> QED BY <1>4, <1>6, <1>8, <2>1, Zenon DEF j, m
<1> QED BY <1>7, <1>8, Zenon

\* SIGCHLD: the master logs the end of the process, in the middle of its scan.
LEMMA ReapQueue ==
    ASSUME IInv, IInv', QInv, NEW w \in Worker, worker_process_get_status(w)
    PROVE  QInv'
<1> USE DEF QInv
<1>1. /\ pc[w] = "zombie" /\ pc' = [pc EXCEPT ![w] = "reaped"]
      /\ nested_log_out(Master) /\ sent[Master] < MaxMsg /\ Master \in Proc
      /\ log_object' = [k \in Slot |->
            IF NestedLog(Master)[k].pid = w
            THEN [NestedLog(Master)[k] EXCEPT !.need_init = TRUE]
            ELSE NestedLog(Master)[k]]
      /\ logger_id' = logger_id
      /\ mpc' = mpc /\ index' = index
      /\ flush_page' = flush_page /\ written' = written
  BY Zenon DEF worker_process_get_status, nested_log_out, goto, masterVars,
     scanVars, fileVars, Proc
<1>2. /\ log_object \in [Slot -> Object] /\ logger_id \in [Proc -> Slot]
      /\ pc \in [Worker -> {"none", "alloc", "start", "end", "run", "desc",
                         "write", "publish", "zombie", "reaped"}]
      /\ logdesc \in [Proc -> Msg \cup {Nil}] /\ sent \in [Proc -> 0..MaxMsg]
      /\ Worker \subseteq Proc /\ 0 \in Slot /\ logger_id[Master] = 0
      /\ Master \notin Worker
  BY ObjectType, LoggerAssumption, Zenon DEF IInv, TypeOK, Proc, Slot, IdInv
<1>3. PICK m : m = <<Master, sent[Master] + 1>>
  BY Zenon
<1>4. /\ m \in Msg /\ m[1] = Master /\ m[2] = sent[Master] + 1
      /\ sent[Master] \in Int
  <2>1. MaxMsg \in Nat /\ sent[Master] \in 0..MaxMsg
    BY <1>1, <1>2, LoggerAssumption, Zenon
  <2>2. m \in Msg
    BY <1>1, <1>3, MessageType, Zenon DEF IInv
  <2> QED BY <1>3, <2>1, <2>2
<1>5. \A k \in Slot :
         /\ log_object'[k].start = NestedLog(Master)[k].start
         /\ log_object'[k].end = NestedLog(Master)[k].end
         /\ log_object'[k].elem = NestedLog(Master)[k].elem
         /\ log_object'[k].pid = log_object[k].pid
  <2>1. ASSUME NEW k \in Slot, NEW q, q = NestedLog(Master)[k]
        PROVE  /\ log_object'[k].start = q.start
               /\ log_object'[k].end = q.end /\ log_object'[k].elem = q.elem
               /\ log_object'[k].pid = q.pid
    <3>1. q \in Object
      BY <1>1, <2>1, NestedType, Zenon DEF IInv
    <3>2. log_object'[k] \in {q, [q EXCEPT !.need_init = TRUE]}
      BY <1>1, <2>1, Zenon
    <3>3. [q EXCEPT !.need_init = TRUE].pid = q.pid
          /\ [q EXCEPT !.need_init = TRUE].start = q.start
          /\ [q EXCEPT !.need_init = TRUE].end = q.end
          /\ [q EXCEPT !.need_init = TRUE].elem = q.elem
      BY <3>1, Zenon DEF Object
    <3> QED BY <3>2, <3>3, Zenon
  <2>2. \A k \in Slot : NestedLog(Master)[k].pid = log_object[k].pid
    BY <1>1, NestedType, Zenon DEF IInv
  <2> QED BY <2>1, <2>2
<1>6. PICK s, e, x : /\ s = log_object[0].start /\ e = log_object[0].end
                     /\ x = log_object[0].elem
  BY Zenon
<1>7. /\ s \in Cells /\ e \in Cells /\ x \in [Cells -> Cell]
  BY <1>2, <1>6, BufferOf, Zenon
<1>8. /\ \A k \in Slot \ {0} : /\ SameIndices(k)
                               /\ log_object'[k].elem = log_object[k].elem
      /\ log_object'[0].start = s
      /\ Next1(e) = s =>
            log_object'[0].end = e /\ log_object'[0].elem = x
      /\ Next1(e) # s =>
            /\ log_object'[0].end = Next1(e)
            /\ log_object'[0].elem = [x EXCEPT ![e] = m]
  <2>1. log(Master) = log_object[0]
    BY <1>2, Zenon DEF log
  <2>2. cirbuf_is_full(log(Master)) <=> Next1(e) = s
    BY <1>6, <2>1, Zenon DEF cirbuf_is_full
  <2>3. \A k \in Slot \ {0} : NestedLog(Master)[k] = log_object[k]
    BY <1>1, <1>2, NestedParts, Zenon
  <2>4. /\ NestedLog(Master)[0].start = s
        /\ Next1(e) = s => /\ NestedLog(Master)[0].end = e
                           /\ NestedLog(Master)[0].elem = x
        /\ Next1(e) # s =>
              /\ NestedLog(Master)[0].end = Next1(e)
              /\ NestedLog(Master)[0].elem = [x EXCEPT ![e] = m]
    <3>1. /\ NestedLog(Master)[logger_id[Master]].start = log(Master).start
          /\ cirbuf_is_full(log(Master)) =>
                /\ NestedLog(Master)[logger_id[Master]].end = log(Master).end
                /\ NestedLog(Master)[logger_id[Master]].elem = log(Master).elem
          /\ ~cirbuf_is_full(log(Master)) =>
                /\ NestedLog(Master)[logger_id[Master]].end
                      = Next1(log(Master).end)
                /\ NestedLog(Master)[logger_id[Master]].elem
                      = [log(Master).elem EXCEPT ![log(Master).end]
                                              = <<Master, sent[Master] + 1>>]
      BY <1>1, NestedParts, Zenon
    <3> QED BY <1>2, <1>3, <1>6, <2>1, <2>2, <3>1, Zenon
  <2> QED BY <1>2, <1>5, <2>3, <2>4 DEF SameIndices
<1>9. /\ pc'[w] = "reaped" /\ \A v \in Worker : v # w => pc'[v] = pc[v]
      /\ \A v \in Worker : logdesc'[v] = logdesc[v] /\ sent'[v] = sent[v]
      /\ sent'[Master] = sent[Master] + 1
      /\ accepted' = IF Next1(e) = s THEN accepted ELSE accepted \cup {m}
  BY <1>1, <1>2, <1>3, <1>6, Zenon DEF nested_log_out, cirbuf_is_full, log
<1>10. /\ Logged' = Logged
       /\ \A l : (Reads(l)' <=> Reads(l)) /\ Copied(l)' = Copied(l)
  BY <1>1, Zenon DEF Logged, Reads, Copied
<1>11. IdInv'
  <2>1. ASSUME NEW v \in Worker, v # w, pc'[v] = "zombie", logger_id'[v] # 0
        PROVE  log_object'[logger_id'[v]].pid = v
    BY <1>1, <1>2, <1>5, <1>9, <2>1 DEF IdInv
  <2> QED BY <1>1, <1>9, <2>1, Zenon DEF IdInv
<1>12. AuthorInv'
  <2>1. Known(m)' /\ logger_id'[m[1]] = 0
    BY <1>1, <1>2, <1>4, Zenon DEF Known
  <2>2. ASSUME NEW l \in accepted' PROVE l \in accepted \/ Known(l)'
    BY <1>9, <2>1, <2>2, Zenon
  <2>3. ASSUME NEW l \in Msg, NEW k \in Slot, NEW c \in Cells,
               log_object'[k].elem[c] = l
        PROVE  \/ log_object[k].elem[c] = l
               \/ Known(l)' /\ logger_id'[l[1]] = k
    <3>1. \A d \in Cells : log_object'[0].elem[d] \in {x[d], m}
      BY <1>7, <1>8, Zenon
    <3> QED BY <1>6, <1>8, <2>1, <2>3, <3>1, Zenon
  <2> QED BY <1>1, <1>10, <1>11, <2>2, <2>3, AuthorStep, Zenon
<1>13. UnusedInv'
  BY <1>1, <1>8, <1>10, UnusedStep, Zenon DEF ReaderMoves
<1>14. ASSUME NEW p \in Proc, Steady(p)
       PROVE  Quiet(p) \/ Orderly(p, log(p).start, log(p).end, log(p).elem)'
  <2>1. CASE p # Master
    <3>1. p \in Worker /\ logger_id[p] \in Slot \ {0}
      BY <1>2, <1>14, <2>1, Zenon DEF Steady, Proc
    <3>2. Latest(p)' = Latest(p)
      BY <1>1, <1>9, <3>1, Zenon DEF Latest
    <3>3. Latest(p) <= Latest(p)'
      BY <3>2, LatestType
    <3>4. \A l \in accepted' : l[1] = p => l \in accepted
      BY <1>4, <1>9, <2>1, Zenon
    <3>5. pc'[p] = "write" \/ pc'[p] = "publish" => pc'[p] = pc[p]
      BY <1>9, <3>1, Zenon
    <3>6. ReaderMoves(logger_id[p]) /\ Copied(logger_id[p])' = Copied(logger_id[p])
      BY <1>1, <1>10, Zenon DEF ReaderMoves
    <3> QED BY <1>8, <1>9, <1>10, <3>1, <3>3, <3>4, <3>5, <3>6 DEF Quiet
  <2>2. Latest(Master) = sent[Master] /\ Latest(Master)' = sent[Master] + 1
    BY <1>2, <1>9, Zenon DEF Latest
  <2>3. CASE p = Master /\ Next1(e) = s
    <3>1. ReaderMoves(logger_id[p]) /\ Copied(logger_id[p])' = Copied(logger_id[p])
      BY <1>1, <1>10, Zenon DEF ReaderMoves
    <3>2. /\ SameIndices(logger_id[p])
          /\ log_object'[logger_id[p]].elem = log_object[logger_id[p]].elem
      BY <1>2, <1>6, <1>8, <2>3, Zenon DEF SameIndices
    <3>3. p \notin Worker /\ accepted' = accepted /\ Latest(p) <= Latest(p)'
      BY <1>2, <1>4, <1>9, <2>2, <2>3
    <3> QED BY <1>10, <3>1, <3>2, <3>3, Zenon DEF Quiet
  <2>4. CASE p = Master /\ Next1(e) # s
    <3>1. PICK y : y = [x EXCEPT ![e] = m]
      BY Zenon
    <3>2. /\ y \in [Cells -> Cell] /\ y[e] = m
          /\ \A c \in Cells : c # e => y[c] = x[c]
      BY <1>4, <1>7, <3>1, Zenon DEF Cell
    <3>3. Orderly(Master, s, e, x)
      BY <1>1, <1>2, <1>6, <1>14, <2>4, Zenon DEF QueueInv, log
    <3>4. SameReader(Master)
      BY <1>1, <1>10, Zenon DEF SameReader
    <3>5. Latest(Master) < m[2] /\ m[2] <= Latest(Master)'
      BY <1>4, <2>2
    <3>6. accepted' = accepted \cup {m}
      BY <1>9, <2>4, Zenon
    <3>7. Orderly(Master, s, Next1(e), y)'
      BY <1>1, <1>2, <1>4, <1>7, <2>4, <3>2, <3>3, <3>4, <3>5, <3>6,
         PublishOrderly, Zenon
    <3>8. /\ s = log_object'[logger_id'[Master]].start
          /\ Next1(e) = log_object'[logger_id'[Master]].end
          /\ y = log_object'[logger_id'[Master]].elem
      BY <1>1, <1>2, <1>8, <2>4, <3>1, Zenon
    <3> QED BY <2>4, <3>7, <3>8, Parts, Zenon
  <2> QED BY <2>1, <2>3, <2>4, Zenon
<1>15. QueueInv'
  BY <1>1, <1>9, <1>14, QueueStep, Zenon
<1> QED BY <1>11, <1>12, <1>13, <1>15, Zenon

-----------------------------------------------------------------------------
(***************************************************************************)
(* The steps of the scan preserve QInv.                                    *)
(***************************************************************************)

\* The scan changes nothing of the processes.
LEMMA ScanFrame ==
    ASSUME log_scan_write
    PROVE  /\ logger_id' = logger_id /\ pc' = pc /\ logdesc' = logdesc
           /\ sent' = sent /\ accepted' = accepted
  BY Zenon DEF log_scan_write, scan_starts, scan_slot, scan_done, read_check,
     log_read, read_done, release_slot, clear_need_init, workerVars, ghosts

\* What has been read stays where it was in the log when the page is written.
LEMMA PageLogged ==
    ASSUME IInv
    PROVE  /\ scan_done => Logged' = Logged
           /\ log_read => LogStep(front(log_object[index]))
<1> DEFINE M == Msg \cup {Nil}
           m == front(log_object[index])
<1>1. flush_page \in Seq(M) /\ written \in Seq(M)
  BY Zenon DEF IInv, ScanInv
<1>2. log_read => m \in M
  BY ObjectType, BufferType, Zenon DEF IInv, ScanInv, log_read
<1> HIDE DEF M, m
<1>3. scan_done => Logged' = Logged
  BY <1>1 DEF scan_done, log_flush, Logged
<1>4. ASSUME log_read PROVE LogStep(m)
  <2>1. CASE written' = written \o flush_page /\ flush_page' = <<m>>
    BY <1>1, <1>2, <1>4, <2>1 DEF LogStep, Logged
  <2>2. CASE written' = written /\ flush_page' = Append(flush_page, m)
    BY <1>1, <1>2, <1>4, <2>2 DEF LogStep, Logged
  <2> QED BY <1>4, <2>1, <2>2, Zenon DEF log_read, to_page, log_flush, m
<1> QED BY <1>3, <1>4, Zenon DEF m

\* The scan goes to the next slot, looks into a buffer, or releases its slot.
LEMMA ScanQueue ==
    ASSUME IInv, IInv', QInv,
           \/ scan_starts \/ scan_slot \/ scan_done \/ read_check
           \/ release_slot \/ clear_need_init
    PROVE  QInv'
<1>1. /\ logger_id' = logger_id /\ pc' = pc /\ logdesc' = logdesc
      /\ sent' = sent /\ accepted' = accepted
  BY ScanFrame, Zenon DEF log_scan_write
<1>2. Logged' = Logged
  BY PageLogged, Zenon DEF scan_starts, scan_slot, read_check, release_slot,
     clear_need_init, fileVars, Logged
<1>3. /\ log_object \in [Slot -> Object]
      /\ mpc \in {"check", "clear"} => index \in Slot
  BY ObjectType, Zenon DEF IInv, ScanInv
<1>4. \A k \in Slot : /\ SameIndices(k)
                      /\ log_object'[k].elem = log_object[k].elem
  <2>1. CASE log_object' = log_object
    BY <2>1, Zenon DEF SameIndices
  <2>2. CASE /\ index \in Slot
             /\ log_object' = [log_object EXCEPT ![index].pid = Nil]
    BY <1>3, <2>2, Zenon DEF SameIndices, Object
  <2>3. CASE /\ index \in Slot
             /\ log_object' = [log_object EXCEPT ![index].need_init = FALSE]
    BY <1>3, <2>3, Zenon DEF SameIndices, Object
  <2> QED BY <1>3, <2>1, <2>2, <2>3, Zenon
          DEF scan_starts, scan_slot, scan_done, read_check, release_slot,
              clear_need_init
<1>5. \A k \in Slot : ReaderMoves(k) /\ Copied(k)' = Copied(k)
  BY Zenon DEF scan_starts, scan_slot, scan_done, read_check, release_slot,
         clear_need_init, ReaderMoves, Reads, Copied, cirbuf_is_empty
<1>6. \A p \in Proc : Latest(p) <= Latest(p)'
  <2>1. \A p \in Proc : Latest(p)' = Latest(p)
    BY <1>1, Zenon DEF Latest
  <2> QED BY <2>1, LatestType
<1>7. ASSUME NEW v \in Worker PROVE Moves(v)
  <2>1. pc[v] = "zombie" /\ logger_id[v] # 0
           => log_object'[logger_id[v]].pid = v
    <3>1. ASSUME NEW k \in Slot, log_object[k].pid = v, pc[v] = "zombie"
          PROVE  log_object'[k].pid = v
      <4>1. CASE log_object' = log_object
        BY <3>1, <4>1
      <4>2. CASE release_slot /\ log_object[index].need_init
        <5>1. k # index
          BY <3>1, <4>2, LoggerAssumption DEF IInv, SlotInv
        <5> QED BY <1>3, <3>1, <4>2, <5>1, Zenon DEF release_slot
      <4>3. CASE clear_need_init
        BY <1>3, <3>1, <4>3, Zenon DEF clear_need_init, Object
      <4> QED BY <4>1, <4>2, <4>3, Zenon
              DEF scan_starts, scan_slot, scan_done, read_check, release_slot
    <3>2. logger_id[v] \in Slot
      BY Zenon DEF IInv, TypeOK, Proc
    <3> QED BY <3>1, <3>2, Zenon DEF QInv, IdInv
  <2> QED BY <1>1, <2>1, Zenon DEF QInv, IdInv, Moves
<1> QED BY <1>1, <1>2, <1>4, <1>5, <1>6, <1>7, QuietStep, Zenon

\* The callback of cirbuf_read: the oldest message goes to the page.
LEMMA CopyQueue ==
    ASSUME IInv, IInv', QInv, log_read
    PROVE  QInv'
<1> USE DEF QInv
<1>1. /\ logger_id' = logger_id /\ pc' = pc /\ logdesc' = logdesc
      /\ sent' = sent /\ accepted' = accepted
  BY ScanFrame, Zenon DEF log_scan_write
<1>2. /\ mpc = "copy" /\ mpc' = "advance" /\ index' = index
      /\ log_object' = log_object /\ index \in Slot
  BY Zenon DEF log_read, IInv, ScanInv
<1>3. PICK s, e, x : /\ s = log_object[index].start
                     /\ e = log_object[index].end /\ x = log_object[index].elem
  BY Zenon
<1>4. /\ s \in Cells /\ e \in Cells /\ x \in [Cells -> Cell]
  BY <1>2, <1>3, ObjectType, BufferOf, Zenon DEF IInv
<1>5. LogStep(x[s])
  BY <1>3, PageLogged, Zenon DEF front
<1>6. \A k : /\ Reads(k)' <=> Reads(k)
             /\ k # index => Copied(k)' = Copied(k)
  BY <1>2, Zenon DEF Reads, Copied
<1>7. x[s] \in Msg => Known(x[s]) /\ logger_id[x[s][1]] = index
  BY <1>2, <1>3, <1>4 DEF AuthorInv
<1>8. IdInv'
  BY <1>1, <1>2, Zenon DEF IdInv
<1>9. AuthorInv'
  BY <1>1, <1>2, <1>5, <1>7, <1>8, AuthorStep, Zenon
<1>10. UnusedInv'
  BY <1>1, <1>2, <1>6, UnusedStep, Zenon DEF SameIndices, ReaderMoves
<1>11. ASSUME NEW p \in Proc, Steady(p)
       PROVE  Quiet(p) \/ Orderly(p, log(p).start, log(p).end, log(p).elem)'
  <2>1. Latest(p) <= Latest(p)'
    <3>1. Latest(p)' = Latest(p)
      BY <1>1, Zenon DEF Latest
    <3> QED BY <3>1, LatestType
  <2>2. CASE logger_id[p] # index
    <3>1. ~By(p, x[s])
      BY <1>4, <1>7, <2>2 DEF By, Cell
    <3>2. /\ SameIndices(logger_id[p]) /\ ReaderMoves(logger_id[p])
          /\ Copied(logger_id[p])' = Copied(logger_id[p])
      BY <1>1, <1>2, <1>6, <2>2, Zenon DEF SameIndices, ReaderMoves
    <3> QED BY <1>1, <1>2, <1>5, <2>1, <3>1, <3>2, Zenon DEF Quiet
  <2>3. CASE logger_id[p] = index
    <3>1. Orderly(p, s, e, x)
      BY <1>3, <1>11, <2>3, Zenon DEF QueueInv, log
    <3>2. SameWriter(p)
      BY <1>1 DEF SameWriter
    <3>3. Orderly(p, s, e, x)'
      BY <1>2, <1>4, <1>5, <2>3, <3>1, <3>2, CopyOrderly
    <3> QED BY <1>1, <1>2, <1>3, <2>3, <3>3, Parts
  <2> QED BY <2>2, <2>3, Zenon
<1>12. QueueInv'
  BY <1>1, <1>11, QueueStep
<1> QED BY <1>8, <1>9, <1>10, <1>12, Zenon

\* The end of cirbuf_read.
LEMMA ReleaseQueue ==
    ASSUME IInv, IInv', QInv, read_done
    PROVE  QInv'
<1> USE DEF QInv
<1>1. /\ logger_id' = logger_id /\ pc' = pc /\ logdesc' = logdesc
      /\ sent' = sent /\ accepted' = accepted
  BY ScanFrame, Zenon DEF log_scan_write
<1>2. /\ mpc = "advance" /\ mpc' = "read" /\ index' = index
      /\ log_object' = [log_object EXCEPT ![index] = release(log_object[index])]
      /\ index \in Slot /\ Logged' = Logged
      /\ log_object \in [Slot -> Object]
  BY ObjectType, Zenon DEF read_done, IInv, ScanInv, fileVars, Logged
<1>3. PICK s, e, x : /\ s = log_object[index].start
                     /\ e = log_object[index].end /\ x = log_object[index].elem
  BY Zenon
<1>4. /\ s \in Cells /\ e \in Cells /\ x \in [Cells -> Cell]
  BY <1>2, <1>3, BufferOf, Zenon
<1>5. /\ log_object'[index].start = Next1(s) /\ log_object'[index].end = e
      /\ log_object'[index].elem = x
      /\ log_object'[index].pid = log_object[index].pid
  <2> DEFINE q == log_object[index]
  <2>1. q \in Object /\ log_object'[index] = release(q)
    BY <1>2, Zenon
  <2> HIDE DEF q
  <2>2. /\ release(q).start = Next1(q.start) /\ release(q).end = q.end
        /\ release(q).elem = q.elem /\ release(q).pid = q.pid
    BY <2>1, BufferParts, BufferType, Zenon
  <2> QED BY <1>3, <2>1, <2>2, Zenon DEF q
<1>6. \A k \in Slot : k # index => log_object'[k] = log_object[k]
  BY <1>2, Zenon
<1>7. \A k \in Slot : /\ log_object'[k].elem = log_object[k].elem
                      /\ log_object'[k].pid = log_object[k].pid
  BY <1>3, <1>5, <1>6, Zenon
<1>8. \A k : ~Reads(k)' /\ ~Copied(k)' /\ (k # index => ~Copied(k))
  BY <1>2, Zenon DEF Reads, Copied
<1>9. IdInv'
  <2>1. \A v \in Worker : logger_id[v] \in Slot
    BY Zenon DEF IInv, TypeOK, Proc
  <2> QED BY <1>1, <1>7, <2>1, Zenon DEF IdInv
<1>10. AuthorInv'
  BY <1>1, <1>2, <1>7, <1>9, AuthorStep
<1>11. UnusedInv'
  <2>1. Reads(index)
    BY <1>2 DEF Reads
  <2> QED BY <1>1, <1>6, <1>8, <2>1, Zenon DEF UnusedInv
<1>12. ASSUME NEW p \in Proc, Steady(p)
       PROVE  Quiet(p) \/ Orderly(p, log(p).start, log(p).end, log(p).elem)'
  <2>1. logger_id[p] \in Slot
    BY Zenon DEF IInv, TypeOK
  <2>2. Latest(p) <= Latest(p)'
    <3>1. Latest(p)' = Latest(p)
      BY <1>1, Zenon DEF Latest
    <3> QED BY <3>1, LatestType
  <2>3. CASE logger_id[p] # index
    <3>1. /\ ReaderMoves(logger_id[p])
          /\ Copied(logger_id[p])' = Copied(logger_id[p])
      BY <1>2, <2>3, Zenon DEF ReaderMoves, Reads, Copied
    <3>2. SameIndices(logger_id[p])
      BY <1>6, <2>1, <2>3 DEF SameIndices
    <3> QED BY <1>1, <1>2, <1>7, <2>1, <2>2, <3>1, <3>2 DEF Quiet
  <2>4. CASE logger_id[p] = index
    <3>1. Orderly(p, s, e, x)
      BY <1>3, <1>12, <2>4, Zenon DEF QueueInv, log
    <3>2. SameWriter(p)
      BY <1>1, Zenon DEF SameWriter
    <3>3. Orderly(p, Next1(s), e, x)'
      BY <1>2, <1>4, <2>4, <3>1, <3>2, ReleaseOrderly, Zenon
    <3> QED BY <1>1, <1>5, <2>4, <3>3, Parts
  <2> QED BY <2>3, <2>4, Zenon
<1>13. QueueInv'
  BY <1>1, <1>12, QueueStep, Zenon
<1> QED BY <1>9, <1>10, <1>11, <1>13, Zenon

\* The initial states.
LEMMA InitQueue == Init => QInv
<1> SUFFICES ASSUME Init PROVE QInv
  BY Zenon
<1>1. IInv /\ 0 \in Slot /\ 0 \in Cells
  BY InitInv, LoggerAssumption, CirBufAssumption DEF Slot, Cells
<1>2. /\ \A p \in Proc : logger_id[p] = 0 /\ sent[p] = 0
      /\ \A w \in Worker : pc[w] = "none"
      /\ \A k \in Slot : /\ log_object[k].start = 0 /\ log_object[k].end = 0
                         /\ \A c \in Cells : log_object[k].elem[c] = Nil
      /\ accepted = {} /\ mpc = "loop" /\ Logged = <<>>
      /\ Worker \subseteq Proc /\ Master \in Proc
  BY DEF Init, Logged, Proc
<1>3. IdInv
  BY <1>2, Zenon DEF IdInv
<1>4. AuthorInv
  BY <1>2, LoggerAssumption DEF AuthorInv, InLog, Msg, Proc
<1>5. UnusedInv
  BY <1>2, Zenon DEF UnusedInv, Reads
<1>6. \A c \in Cells : ~Holds(c, 0, 0)
  <2>1. \A c \in Cells : Ahead(c, 0) = IF 0 <= c THEN c - 0
                                       ELSE c + ElemCount - 0
    BY <1>1, CellOrder, Zenon
  <2> QED BY <1>1, <2>1, CirBufAssumption DEF Holds, Cells
<1>7. ASSUME NEW p \in Proc, Steady(p)
      PROVE  Orderly(p, log(p).start, log(p).end, log(p).elem)
  <2>1. p = Master /\ p \notin Worker
    BY <1>2, <1>7, LoggerAssumption, Zenon DEF Steady, Proc
  <2>2. log(p).start = 0 /\ log(p).end = 0
    BY <1>1, <1>2, Zenon DEF log
  <2>3. \A a \in 1..Len(Logged) : FALSE
    BY <1>2
  <2>4. ~Reads(logger_id[p]) /\ ~Copied(logger_id[p]) /\ accepted = {}
    BY <1>2, Zenon DEF Reads, Copied
  <2> QED BY <1>6, <2>1, <2>2, <2>3, <2>4, Zenon
          DEF Orderly, WriteInv, ReadInv, TakenInv, SortInv, LogInv
<1>8. QueueInv
  BY <1>7, Zenon DEF QueueInv
<1> QED BY <1>3, <1>4, <1>5, <1>8, Zenon DEF QInv

\* All steps.
LEMMA NextQueue ==
    ASSUME ~SignalsLog, IInv, QInv, [Next]_vars
    PROVE  IInv' /\ QInv'
<1>1. IInv'
  BY NextInv, Zenon
<1>2. CASE log_scan_write
  BY <1>1, <1>2, ScanQueue, CopyQueue, ReleaseQueue, Zenon DEF log_scan_write
<1>3. ASSUME NEW w \in Worker,
             \/ fork(w) \/ worker(w) \/ worker_signal_handler(w)
             \/ worker_ends(w) \/ worker_process_get_status(w)
      PROVE  QInv'
  BY <1>1, <1>3, ForkQueue, AllocTakesQueue, InitStartQueue, InitEndQueue,
     LogOutQueue, WriteQueue, PublishQueue, ReapQueue, Zenon
     DEF worker, worker_signal_handler
<1>4. CASE UNCHANGED vars
  <2>1. /\ log_object' = log_object /\ logger_id' = logger_id /\ pc' = pc
        /\ logdesc' = logdesc /\ sent' = sent /\ accepted' = accepted
        /\ mpc' = mpc /\ index' = index /\ Logged' = Logged
    BY <1>4, Zenon DEF vars, workerVars, masterVars, scanVars, fileVars,
       ghosts,
       Logged
  <2>2. \A k \in Slot : /\ SameIndices(k)
                        /\ log_object'[k].elem = log_object[k].elem
                        /\ ReaderMoves(k) /\ Copied(k)' = Copied(k)
    BY <2>1, Zenon DEF SameIndices, ReaderMoves, Reads, Copied
  <2>3. \A p \in Proc : Latest(p) <= Latest(p)'
    <3>1. \A p \in Proc : Latest(p)' = Latest(p)
      BY <2>1, Zenon DEF Latest
    <3> QED BY <1>1, <3>1, LatestType
  <2>4. \A w \in Worker : Moves(w)
    BY <2>1, Zenon DEF QInv, IdInv, Moves
  <2> QED BY <1>1, <2>1, <2>2, <2>3, <2>4, QuietStep
<1> QED BY <1>1, <1>2, <1>3, <1>4, Zenon DEF Next

-----------------------------------------------------------------------------
(***************************************************************************)
(* The theorems.                                                           *)
(***************************************************************************)

\* The slots, the flags and the loop of the scan agree at every moment.
THEOREM Invariance == Spec => []IInv
  BY InitInv, NextInv, PTL DEF Spec

\* Every process that runs writes to a slot of its own, through every order of
\* exits, scans, releases and starts, whatever the signal handlers log.
THEOREM SlotHasOneWriter == Spec => []OneWriter
<1>1. IInv => OneWriter
  <2> SUFFICES ASSUME IInv PROVE OneWriter
    BY Zenon
  <2> USE DEF IInv
  <2>1. ASSUME NEW w \in Running
        PROVE  /\ log_object[logger_id[w]].pid = w
               /\ logger_id[w] # 0
               /\ \A v \in Running : logger_id[v] = logger_id[w] => v = w
    BY LoggerAssumption, Zenon DEF SlotInv, Running
  <2>2. ASSUME NEW k \in Slot, log_object[k].need_init
        PROVE  log_object[k].pid
                  \in {Nil} \cup {w \in Worker : pc[w] = "reaped"}
    BY <2>2, Zenon DEF SlotInv
  <2> QED BY <2>1, <2>2, Zenon DEF OneWriter
<1> QED BY <1>1, Invariance, PTL

\* QInv is an invariant, if no signal handler of a worker logs.
THEOREM QueueInvariance ==
    ASSUME ~SignalsLog
    PROVE  Spec => [](IInv /\ QInv)
<1>1. Init => IInv /\ QInv
  BY InitInv, InitQueue, Zenon
<1>2. IInv /\ QInv /\ [Next]_vars => (IInv /\ QInv)'
  BY NextQueue, Zenon
<1> QED BY <1>1, <1>2, PTL DEF Spec

\* An author whose slot nobody else has had is covered by QueueInv.
LEMMA UndisturbedIsSteady ==
    ASSUME NEW m, Known(m), Undisturbed(m[1])
    PROVE  Steady(m[1])
  BY Zenon DEF Known, Undisturbed, Steady

\* A message that cirbuf_write took is in the buffer of its process or in the
\* log, although log_scan_write reads the buffer without a lock, SIGCHLD makes
\* the master log in the middle of a scan, and processes end at any point.  As
\* in NoneLost, the process is not reaped and its slot had no other before; and
\* no signal handler of a worker logs inside log_out.
THEOREM NothingIsLost ==
    ASSUME ~SignalsLog
    PROVE  Spec => []NoneLost
<1>1. IInv /\ QInv => NoneLost
  <2> SUFFICES ASSUME IInv, QInv, NEW m \in accepted, Undisturbed(m[1])
               PROVE  m \in queued(log(m[1])) \/ InLog(m)
    BY Zenon DEF NoneLost
  <2>1. m \in Msg /\ m[1] \in Proc
    BY Zenon DEF IInv, TypeOK, Msg
  <2>2. Steady(m[1])
    BY <2>1, UndisturbedIsSteady, Zenon DEF QInv, AuthorInv
  <2>3. TakenInv(m[1], log(m[1]).start, log(m[1]).end, log(m[1]).elem)
    BY <2>1, <2>2 DEF QInv, QueueInv, Orderly
  <2> QED BY <2>3, Zenon DEF TakenInv, Holds, Ahead, queued
<1> QED BY <1>1, QueueInvariance, PTL

\* The log has the messages of a process in the order it wrote them, none
\* twice, if its slot had no other process before and no signal handler of a
\* worker logs inside log_out.
THEOREM LogIsInOrder ==
    ASSUME ~SignalsLog
    PROVE  Spec => []InOrder
<1>1. IInv /\ QInv => InOrder
  <2> SUFFICES ASSUME IInv, QInv,
                      NEW a \in 1..Len(Logged), NEW b \in 1..Len(Logged),
                      a < b, Logged[a] \in Msg, Logged[b] \in Msg,
                      Logged[a][1] = Logged[b][1], Undisturbed(Logged[a][1])
               PROVE  Logged[a][2] < Logged[b][2]
    BY Zenon DEF InOrder
  <2> DEFINE p == Logged[a][1]
  <2>1. p \in Proc /\ Logged[a] # Nil /\ Logged[b] # Nil
    BY LoggerAssumption, Zenon DEF Msg, Proc
  <2>2. Steady(p)
    BY UndisturbedIsSteady, Zenon DEF QInv, AuthorInv, InLog
  <2>3. LogInv(p, log(p).start, log(p).end, log(p).elem)
    BY <2>1, <2>2, Zenon DEF QInv, QueueInv, Orderly
  <2>4. By(p, Logged[a]) /\ By(p, Logged[b]) /\ a \in 1..(b - 1)
    BY <2>1, LogTypes DEF By
  <2> QED BY <2>3, <2>4, Zenon DEF LogInv
<1> QED BY <1>1, QueueInvariance, PTL

=============================================================================
