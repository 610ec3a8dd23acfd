----------------------------- MODULE LoggerInv ------------------------------
(***************************************************************************)
(* The inductive invariants of the logger (Logger): IInv is about the slots*)
(* and who writes to them, QInv about the messages in the buffers and in   *)
(* the log.  Here are the proof that IInv is invariant, and the lemmas     *)
(* about one buffer; LoggerProofs has the steps that preserve QInv.        *)
(***************************************************************************)
EXTENDS Logger, Integers, TLAPS

Object == [pid : Proc \cup {Nil}, need_init : BOOLEAN, start : Cells,
           end : Cells, elem : [Cells -> Msg \cup {Nil}]]

\* Whoever is inside log_out has composed a message, the master is at a slot
\* whenever it looks into one, and the page and the file are lists of messages.
ScanInv ==
    /\ \A w \in Worker : pc[w] \in {"desc", "write", "publish"}
                            => logdesc[w] \in Msg
    /\ mpc \in {"read", "copy", "advance", "check", "clear"}
          => index \in Slot
    /\ flush_page \in Seq(Msg \cup {Nil})
    /\ written \in Seq(Msg \cup {Nil})

\* Slot 0 is the master's.  No two slots have the same process; a process that
\* has not been through log_worker_alloc has none; one that runs has the slot
\* of its logger_id; and only the slot of a process that was reaped is flagged.
SlotInv ==
    /\ log_object[0].pid = Master
    /\ \A k, l \in Slot : log_object[k].pid = log_object[l].pid
                            => k = l \/ log_object[k].pid = Nil
    /\ \A w \in Worker, k \in Slot :
          pc[w] \in {"none", "alloc"} => log_object[k].pid # w
    /\ \A w \in Running : log_object[logger_id[w]].pid = w
    /\ \A k \in Slot : log_object[k].need_init =>
          \/ log_object[k].pid = Nil
          \/ log_object[k].pid \in Worker /\ pc[log_object[k].pid] = "reaped"

IInv == TypeOK /\ ScanInv /\ SlotInv

-----------------------------------------------------------------------------
(***************************************************************************)
(* Buffers.  Writing to a buffer and reading from it leave the pid and the *)
(* flag of its slot.                                                       *)
(***************************************************************************)

\* The pids and the flags of the slots stay.
SlotsStay ==
    /\ log_object' \in [Slot -> Object]
    /\ \A k \in Slot : /\ log_object'[k].pid = log_object[k].pid
                       /\ log_object'[k].need_init = log_object[k].need_init

\* An index stays in the buffer.
LEMMA CellType == \A k \in Cells : Next1(k) \in Cells
  BY CirBufAssumption DEF Cells, Next1

\* cirbuf_write and cirbuf_read.
LEMMA BufferType ==
    ASSUME NEW q \in Object, NEW m \in Msg \cup {Nil}
    PROVE  /\ fill(q, m) \in Object /\ publish(q) \in Object
           /\ release(q) \in Object
           /\ fill(q, m).pid = q.pid /\ fill(q, m).need_init = q.need_init
           /\ publish(q).pid = q.pid /\ publish(q).need_init = q.need_init
           /\ release(q).pid = q.pid /\ release(q).need_init = q.need_init
           /\ front(q) \in Msg \cup {Nil}
<1>1. /\ Next1(q.end) \in Cells /\ Next1(q.start) \in Cells
  BY CellType, Zenon DEF Object
<1>2. fill(q, m) \in Object
  BY Zenon DEF fill, Object
<1>3. publish(q) \in Object /\ release(q) \in Object
  BY <1>1, Zenon DEF publish, release, Object
<1>4. /\ fill(q, m).pid = q.pid /\ fill(q, m).need_init = q.need_init
      /\ publish(q).pid = q.pid /\ publish(q).need_init = q.need_init
      /\ release(q).pid = q.pid /\ release(q).need_init = q.need_init
  BY Zenon DEF fill, publish, release, Object
<1>5. front(q) \in Msg \cup {Nil}
  BY Zenon DEF front, Object
<1> QED BY <1>2, <1>3, <1>4, <1>5, Zenon

\* One slot gets another buffer.
LEMMA OneBuffer ==
    ASSUME log_object \in [Slot -> Object], NEW k \in Slot, NEW q \in Object,
           q.pid = log_object[k].pid,
           q.need_init = log_object[k].need_init,
           log_object' = [log_object EXCEPT ![k] = q]
    PROVE  SlotsStay
  BY Zenon DEF SlotsStay

\* A message that is composed is one.
LEMMA MessageType ==
    ASSUME TypeOK, NEW p \in Proc, sent[p] < MaxMsg
    PROVE  /\ sent[p] + 1 \in 1..MaxMsg
           /\ <<p, sent[p] + 1>> \in Msg
  BY LoggerAssumption DEF TypeOK, Msg

\* log_out in a signal handler.
LEMMA NestedType ==
    ASSUME TypeOK, NEW p \in Proc, sent[p] < MaxMsg
    PROVE  /\ NestedLog(p) \in [Slot -> Object]
           /\ \A k \in Slot :
                 /\ NestedLog(p)[k].pid = log_object[k].pid
                 /\ NestedLog(p)[k].need_init = log_object[k].need_init
<1> DEFINE m == <<p, sent[p] + 1>>
           j == logger_id[p]
           q == publish(fill(log_object[j], m))
<1>1. log_object \in [Slot -> Object] /\ j \in Slot /\ m \in Msg \cup {Nil}
  BY MessageType, Zenon DEF TypeOK, Object
<1>2. /\ q \in Object /\ q.pid = log_object[j].pid
      /\ q.need_init = log_object[j].need_init
  <2>1. log_object[j] \in Object
    BY <1>1, Zenon
  <2>2. /\ fill(log_object[j], m) \in Object
        /\ fill(log_object[j], m).pid = log_object[j].pid
        /\ fill(log_object[j], m).need_init = log_object[j].need_init
    BY <1>1, <2>1, BufferType, Zenon
  <2> QED BY <1>1, <2>2, BufferType, Zenon
<1>3. \/ NestedLog(p) = log_object
      \/ NestedLog(p) = [log_object EXCEPT ![j] = q]
  BY Zenon DEF NestedLog
<1> HIDE DEF m, j, q
<1> QED BY <1>1, <1>2, <1>3, Zenon

-----------------------------------------------------------------------------
(***************************************************************************)
(* Every action preserves the invariant.                                   *)
(***************************************************************************)

\* Steps that neither take nor release a slot, flag only the slot of a process
\* that is reaped, and after which no process is new, runs or is back that was
\* not before.
LEMMA PidsStayInv ==
    ASSUME TypeOK, SlotInv, logger_id' = logger_id,
           \A k \in Slot :
              /\ log_object'[k].pid = log_object[k].pid
              /\ log_object'[k].need_init =>
                    \/ log_object[k].need_init
                    \/ log_object[k].pid \in Worker
                       /\ pc'[log_object[k].pid] = "reaped",
           \A w \in Worker :
              /\ pc'[w] \in {"none", "alloc"} => pc[w] \in {"none", "alloc"}
              /\ w \in Running' => w \in Running
              /\ pc[w] = "reaped" => pc'[w] = "reaped"
    PROVE  SlotInv'
<1>1. log_object'[0].pid = Master
  <2>1. 0 \in Slot
    BY LoggerAssumption DEF Slot
  <2> QED BY <2>1, Zenon DEF SlotInv
<1>2. \A k, l \in Slot : log_object'[k].pid = log_object'[l].pid
                            => k = l \/ log_object'[k].pid = Nil
  BY DEF SlotInv
<1>3. \A w \in Worker, k \in Slot :
          pc'[w] \in {"none", "alloc"} => log_object'[k].pid # w
  BY DEF SlotInv
<1>4. \A k \in Slot : log_object'[k].need_init =>
          \/ log_object'[k].pid = Nil
          \/ log_object'[k].pid \in Worker
             /\ pc'[log_object'[k].pid] = "reaped"
  BY DEF SlotInv
<1>5. \A w \in Running' : log_object'[logger_id'[w]].pid = w
  BY Zenon DEF TypeOK, Proc, SlotInv, Running
<1> QED BY <1>1, <1>2, <1>3, <1>4, <1>5, Zenon DEF SlotInv

\* The same when no slot is flagged.
LEMMA SlotsStayInv ==
    ASSUME TypeOK, SlotInv, SlotsStay, logger_id' = logger_id,
           \A w \in Worker :
              /\ pc'[w] \in {"none", "alloc"} => pc[w] \in {"none", "alloc"}
              /\ w \in Running' => w \in Running
              /\ pc[w] = "reaped" => pc'[w] = "reaped"
    PROVE  SlotInv'
<1>1. \A k \in Slot : /\ log_object'[k].pid = log_object[k].pid
                      /\ log_object'[k].need_init => log_object[k].need_init
  BY Zenon DEF SlotsStay
<1> QED BY <1>1, PidsStayInv, Zenon

\* The slots as TypeOK has them.
LEMMA ObjectType ==
    /\ TypeOK => log_object \in [Slot -> Object]
    /\ SlotsStay => log_object' \in [Slot -> [pid : Proc \cup {Nil},
                       need_init : BOOLEAN, start : Cells, end : Cells,
                       elem : [Cells -> Msg \cup {Nil}]]]
  BY Zenon DEF TypeOK, Object, SlotsStay

\* A worker is forked, or ends without a slot.
LEMMA ForkInv ==
    ASSUME IInv, NEW w \in Worker,
           fork(w) \/ alloc_fails(w) \/ worker_ends(w) \/ write_check(w)
    PROVE  IInv'
<1> USE DEF IInv
<1>1. /\ \/ pc[w] = "none" /\ pc' = [pc EXCEPT ![w] = "alloc"]
         \/ pc[w] \in {"alloc", "run", "desc", "write", "publish"}
            /\ pc' = [pc EXCEPT ![w] = "zombie"]
         \/ pc[w] = "desc" /\ pc' = [pc EXCEPT ![w] = "run"]
         \/ pc[w] = "desc" /\ pc' = [pc EXCEPT ![w] = "write"]
      /\ log_object' = log_object /\ logger_lock' = logger_lock
      /\ logger_id' = logger_id /\ logdesc' = logdesc /\ mpc' = mpc
      /\ index' = index /\ flush_page' = flush_page /\ written' = written
      /\ sent' = sent /\ accepted' = accepted
  BY Zenon DEF fork, alloc_fails, worker_ends, write_check, goto, masterVars,
     scanVars, fileVars, ghosts
<1>2. TypeOK'
  BY <1>1, Zenon DEF TypeOK
<1>3. ScanInv'
  BY <1>1, Zenon DEF TypeOK, ScanInv
<1>4. SlotInv'
  <2>1. SlotsStay
    BY <1>1, ObjectType, Zenon DEF SlotsStay
  <2>2. \A v \in Worker :
           /\ pc'[v] \in {"none", "alloc"} => pc[v] \in {"none", "alloc"}
           /\ v \in Running' => v \in Running
           /\ pc[v] = "reaped" => pc'[v] = "reaped"
    BY <1>1, Zenon DEF TypeOK, Running
  <2> QED BY <1>1, <2>1, <2>2, SlotsStayInv, Zenon
<1> QED BY <1>2, <1>3, <1>4, Zenon

\* log_worker_alloc takes a slot: nobody else has it, and the worker has no
\* other.
LEMMA AllocTakesInv ==
    ASSUME IInv, NEW w \in Worker, NEW k \in Slot, alloc_takes(w, k)
    PROVE  IInv'
<1> USE DEF IInv
<1>1. /\ pc[w] = "alloc" /\ log_object[k].pid = Nil
      /\ logger_lock' = w
      /\ log_object' = [log_object EXCEPT ![k].pid = w,
                                          ![k].need_init = FALSE]
      /\ pc' = [pc EXCEPT ![w] = "start"]
      /\ logger_id' = logger_id /\ logdesc' = logdesc /\ mpc' = mpc
      /\ index' = index /\ flush_page' = flush_page /\ written' = written
      /\ sent' = sent /\ accepted' = accepted
  BY Zenon DEF alloc_takes, Free, goto, masterVars, scanVars, fileVars, ghosts
<1>2. /\ log_object' \in [Slot -> Object]
      /\ log_object'[k].pid = w /\ log_object'[k].need_init = FALSE
      /\ \A l \in Slot : l # k => log_object'[l] = log_object[l]
  <2>1. log_object \in [Slot -> Object]
    BY ObjectType, Zenon
  <2>2. w \in Proc \cup {Nil}
    BY Zenon DEF Proc
  <2> DEFINE q == [log_object[k] EXCEPT !.pid = w, !.need_init = FALSE]
  <2>3. q \in Object /\ q.pid = w /\ q.need_init = FALSE
    BY <2>1, <2>2, Zenon DEF Object
  <2>4. log_object' = [log_object EXCEPT ![k] = q]
    BY <1>1, <2>1, Zenon
  <2> HIDE DEF q
  <2> QED BY <2>1, <2>3, <2>4, Zenon
<1>3. TypeOK'
  BY <1>1, <1>2, Zenon DEF TypeOK, Object
<1>4. ScanInv'
  BY <1>1, Zenon DEF TypeOK, ScanInv
<1>5. SlotInv'
  <2>1. w # Master /\ w # Nil /\ Master # Nil /\ 0 \in Slot
    BY LoggerAssumption DEF Slot
  <2>2. \A l \in Slot : log_object[l].pid # w
    BY <1>1, Zenon DEF SlotInv
  <2>3. log_object'[0].pid = Master
    BY <1>1, <1>2, <2>1, Zenon DEF SlotInv
  <2>4. \A i, l \in Slot : log_object'[i].pid = log_object'[l].pid
                              => i = l \/ log_object'[i].pid = Nil
    BY <1>2, <2>2 DEF SlotInv
  <2>5. \A v \in Worker, l \in Slot :
           pc'[v] \in {"none", "alloc"} => log_object'[l].pid # v
    BY <1>1, <1>2 DEF TypeOK, SlotInv
  <2>6. \A v \in Running' : log_object'[logger_id'[v]].pid = v
    <3> SUFFICES ASSUME NEW v \in Running'
                 PROVE  log_object'[logger_id'[v]].pid = v
      BY Zenon
    <3>1. v \in Running /\ logger_id[v] \in Slot /\ v # Nil
      BY <1>1, LoggerAssumption, Zenon DEF TypeOK, Running, Proc
    <3>2. logger_id[v] # k
      BY <1>1, <3>1, Zenon DEF SlotInv
    <3> QED BY <1>1, <1>2, <3>1, <3>2, Zenon DEF SlotInv
  <2>7. \A l \in Slot : log_object'[l].need_init =>
           \/ log_object'[l].pid = Nil
           \/ log_object'[l].pid \in Worker
              /\ pc'[log_object'[l].pid] = "reaped"
    <3> SUFFICES ASSUME NEW l \in Slot, log_object'[l].need_init
                 PROVE  \/ log_object'[l].pid = Nil
                        \/ log_object'[l].pid \in Worker
                           /\ pc'[log_object'[l].pid] = "reaped"
      BY Zenon
    <3>1. l # k /\ log_object'[l] = log_object[l]
      BY <1>2, Zenon
    <3> QED BY <1>1, <2>2, <3>1, Zenon DEF TypeOK, SlotInv
  <2> QED BY <2>3, <2>4, <2>5, <2>6, <2>7, Zenon DEF SlotInv
<1> QED BY <1>3, <1>4, <1>5, Zenon

\* cirbuf_init and the new logger_id: the worker runs with the slot that has
\* its pid.
LEMMA AllocInitInv ==
    ASSUME IInv, NEW w \in Worker, NEW k \in Slot,
           init_start(w, k) \/ init_end(w, k)
    PROVE  IInv'
<1> USE DEF IInv
<1>1. /\ log_object[k].pid = w /\ pc[w] \in {"start", "end"}
      /\ logger_lock' \in {logger_lock, Nil}
      /\ \/ /\ log_object' = [log_object EXCEPT ![k].start = 0]
            /\ pc' = [pc EXCEPT ![w] = "end"]
            /\ logger_id' = logger_id
         \/ /\ log_object' = [log_object EXCEPT ![k].end = 0]
            /\ pc' = [pc EXCEPT ![w] = "run"]
            /\ logger_id' = [logger_id EXCEPT ![w] = k]
      /\ logdesc' = logdesc /\ mpc' = mpc
      /\ index' = index /\ flush_page' = flush_page /\ written' = written
      /\ sent' = sent /\ accepted' = accepted
  BY Zenon DEF init_start, init_end, goto, masterVars, scanVars, fileVars,
     ghosts
<1>2. SlotsStay
  <2>1. 0 \in Cells
    BY CirBufAssumption DEF Cells
  <2>2. log_object \in [Slot -> Object] /\ log_object[k] \in Object
    BY ObjectType, Zenon
  <2>3. \E q \in Object : /\ q.pid = log_object[k].pid
                          /\ q.need_init = log_object[k].need_init
                          /\ log_object' = [log_object EXCEPT ![k] = q]
    <3>1. /\ [log_object[k] EXCEPT !.start = 0] \in Object
          /\ [log_object[k] EXCEPT !.end = 0] \in Object
      BY <2>1, <2>2, Zenon DEF Object
    <3>2. /\ [log_object[k] EXCEPT !.start = 0].pid = log_object[k].pid
          /\ [log_object[k] EXCEPT !.end = 0].pid = log_object[k].pid
          /\ [log_object[k] EXCEPT !.start = 0].need_init
                = log_object[k].need_init
          /\ [log_object[k] EXCEPT !.end = 0].need_init
                = log_object[k].need_init
      BY <2>2, Zenon DEF Object
    <3> QED BY <1>1, <3>1, <3>2, Zenon
  <2> QED BY <2>2, <2>3, OneBuffer, Zenon
<1>3. TypeOK'
  <2>1. /\ pc' \in [Worker -> {"none", "alloc", "start", "end", "run", "desc",
                                "write", "publish", "zombie", "reaped"}]
    BY <1>1, Zenon DEF TypeOK
  <2>2. logger_id' \in [Proc -> Slot]
    BY <1>1, Zenon DEF TypeOK
  <2>3. logger_lock' \in Worker \cup {Nil}
    BY <1>1, Zenon DEF TypeOK
  <2> QED BY <1>1, <1>2, <2>1, <2>2, <2>3, ObjectType, Zenon DEF TypeOK
<1>4. ScanInv'
  BY <1>1, Zenon DEF TypeOK, ScanInv
<1>5. SlotInv'
  <2>1. 0 \in Slot
    BY LoggerAssumption DEF Slot
  <2>2. log_object'[0].pid = Master
    BY <1>2, <2>1, Zenon DEF SlotInv, SlotsStay
  <2>3. \A i, l \in Slot : log_object'[i].pid = log_object'[l].pid
                              => i = l \/ log_object'[i].pid = Nil
    BY <1>2 DEF SlotInv, SlotsStay
  <2>4. \A v \in Worker, l \in Slot :
           pc'[v] \in {"none", "alloc"} => log_object'[l].pid # v
    BY <1>1, <1>2 DEF TypeOK, SlotInv, SlotsStay
  <2>5. \A v \in Running' : log_object'[logger_id'[v]].pid = v
    BY <1>1, <1>2 DEF TypeOK, Running, Proc, SlotInv, SlotsStay
  <2>6. \A l \in Slot : log_object'[l].need_init =>
           \/ log_object'[l].pid = Nil
           \/ log_object'[l].pid \in Worker
              /\ pc'[log_object'[l].pid] = "reaped"
    BY <1>1, <1>2 DEF TypeOK, SlotInv, SlotsStay
  <2> QED BY <2>2, <2>3, <2>4, <2>5, <2>6, Zenon DEF SlotInv
<1> QED BY <1>3, <1>4, <1>5, Zenon

\* log_out, with its cirbuf_write, touches the buffer of its own slot only.
LEMMA LogOutInv ==
    ASSUME IInv, NEW w \in Worker,
           log_out(w) \/ log_write(w) \/ write_done(w)
    PROVE  IInv'
<1> USE DEF IInv
<1>1. /\ w \in Running /\ w \in Proc
      /\ \/ pc' = [pc EXCEPT ![w] = "desc"] /\ logdesc'[w] \in Msg
         \/ pc' = [pc EXCEPT ![w] = "publish"] /\ logdesc[w] \in Msg
         \/ pc' = [pc EXCEPT ![w] = "run"]
      /\ logger_lock' = logger_lock /\ logger_id' = logger_id
      /\ mpc' = mpc /\ index' = index
      /\ flush_page' = flush_page /\ written' = written
  <2>1. w \in Proc
    BY Zenon DEF Proc
  <2>2. log_out(w) => <<w, sent[w] + 1>> \in Msg
    BY <2>1, MessageType, Zenon DEF log_out
  <2> QED BY <2>1, <2>2, Zenon
          DEF log_out, log_write, write_done, goto, Running, TypeOK, ScanInv,
              masterVars, scanVars, fileVars, ghosts
<1>2. SlotsStay
  <2>1. /\ log_object \in [Slot -> Object] /\ logger_id[w] \in Slot
        /\ logdesc[w] \in Msg \cup {Nil}
    BY <1>1, ObjectType, Zenon DEF TypeOK
  <2>2. CASE log_out(w)
    BY <2>1, <2>2, Zenon DEF log_out, SlotsStay
  <2>3. CASE log_write(w)
    BY <2>1, <2>3, BufferType, OneBuffer, Zenon DEF log_write
  <2>4. CASE write_done(w)
    BY <2>1, <2>4, BufferType, OneBuffer, Zenon DEF write_done
  <2> QED BY <2>2, <2>3, <2>4, Zenon
<1>3. /\ sent' \in [Proc -> 0..MaxMsg] /\ logdesc' \in [Proc -> Msg \cup {Nil}]
      /\ accepted' \subseteq Msg
  <2>1. CASE log_out(w)
    <3>1. sent[w] + 1 \in 0..MaxMsg /\ <<w, sent[w] + 1>> \in Msg
      BY <2>1, <1>1, MessageType DEF log_out
    <3> QED BY <2>1, <3>1, Zenon DEF log_out, TypeOK
  <2>2. CASE log_write(w)
    BY <2>2, Zenon DEF log_write, TypeOK, ghosts
  <2>3. CASE write_done(w)
    BY <2>3, Zenon DEF write_done, TypeOK, ScanInv
  <2> QED BY <2>1, <2>2, <2>3, Zenon
<1>4. TypeOK'
  BY <1>1, <1>2, <1>3, ObjectType, Zenon DEF TypeOK
<1>5. ScanInv'
  <2>1. \A v \in Worker : v # w => logdesc'[v] = logdesc[v] /\ pc'[v] = pc[v]
    BY <1>1, Zenon DEF log_out, log_write, write_done, TypeOK, Proc
  <2>2. pc'[w] = "publish" => logdesc'[w] = logdesc[w]
    BY <1>1, Zenon DEF log_out, log_write, write_done, TypeOK, goto
  <2> QED BY <1>1, <2>1, <2>2, Zenon DEF TypeOK, ScanInv
<1>6. SlotInv'
  <2>1. \A v \in Worker :
           /\ pc'[v] \in {"none", "alloc"} => pc[v] \in {"none", "alloc"}
           /\ v \in Running' => v \in Running
           /\ pc[v] = "reaped" => pc'[v] = "reaped"
    BY <1>1, Zenon DEF TypeOK, Running
  <2> QED BY <1>1, <1>2, <2>1, SlotsStayInv, Zenon
<1> QED BY <1>4, <1>5, <1>6, Zenon

\* A whole log_out in a signal handler, at any point of the process, is typed.
LEMMA NestedLogInv ==
    ASSUME IInv, NEW p \in Proc, nested_log_out(p)
    PROVE  /\ sent' \in [Proc -> 0..MaxMsg]
           /\ logdesc' \in [Proc -> Msg \cup {Nil}]
           /\ accepted' \subseteq Msg
           /\ \A v \in Worker : logdesc[v] \in Msg => logdesc'[v] \in Msg
<1> USE DEF IInv
<1>1. /\ sent[p] + 1 \in 0..MaxMsg /\ <<p, sent[p] + 1>> \in Msg
  BY MessageType DEF nested_log_out
<1>2. sent' \in [Proc -> 0..MaxMsg]
  BY <1>1, Zenon DEF TypeOK, nested_log_out
<1>3. logdesc' \in [Proc -> Msg \cup {Nil}]
  BY <1>1, Zenon DEF TypeOK, nested_log_out
<1>4. accepted' \subseteq Msg
  BY <1>1, Zenon DEF TypeOK, nested_log_out
<1>5. \A v \in Worker : logdesc[v] \in Msg => logdesc'[v] \in Msg
  <2>1. ASSUME NEW v \in Worker, logdesc[v] \in Msg PROVE logdesc'[v] \in Msg
    <3>1. v \in Proc /\ logdesc \in [Proc -> Msg \cup {Nil}]
      BY Zenon DEF TypeOK, Proc
    <3> QED BY <1>1, <2>1, <3>1, Zenon DEF nested_log_out
  <2> QED BY <2>1, Zenon
<1> QED BY <1>2, <1>3, <1>4, <1>5, Zenon

\* A worker is told to stop, and logs that, wherever it is.
LEMMA SignalInv ==
    ASSUME IInv, NEW w \in Worker, worker_signal_handler(w)
    PROVE  IInv'
<1> USE DEF IInv
<1>1. /\ log_object' = NestedLog(w) /\ nested_log_out(w)
      /\ sent[w] < MaxMsg /\ w \in Proc
      /\ logger_lock' = logger_lock /\ logger_id' = logger_id /\ pc' = pc
      /\ mpc' = mpc /\ index' = index
      /\ flush_page' = flush_page /\ written' = written
  BY Zenon DEF worker_signal_handler, nested_log_out, Proc, masterVars,
     scanVars,
     fileVars
<1>2. SlotsStay
  BY <1>1, NestedType, Zenon DEF SlotsStay
<1>3. TypeOK'
  BY <1>1, <1>2, NestedLogInv, ObjectType, Zenon DEF TypeOK
<1>4. ScanInv'
  BY <1>1, NestedLogInv, Zenon DEF ScanInv
<1>5. SlotInv'
  BY <1>1, <1>2, SlotsStayInv, Zenon DEF Running
<1> QED BY <1>3, <1>4, <1>5, Zenon

\* SIGCHLD: the slot of the process that ended is flagged, and no other.
LEMMA ReapInv ==
    ASSUME IInv, NEW w \in Worker, worker_process_get_status(w)
    PROVE  IInv'
<1> USE DEF IInv
<1>1. /\ pc[w] = "zombie" /\ pc' = [pc EXCEPT ![w] = "reaped"]
      /\ nested_log_out(Master) /\ sent[Master] < MaxMsg /\ Master \in Proc
      /\ log_object' = [k \in Slot |->
            IF NestedLog(Master)[k].pid = w
            THEN [NestedLog(Master)[k] EXCEPT !.need_init = TRUE]
            ELSE NestedLog(Master)[k]]
      /\ logger_lock' = logger_lock /\ logger_id' = logger_id
      /\ mpc' = mpc /\ index' = index
      /\ flush_page' = flush_page /\ written' = written
  BY Zenon DEF worker_process_get_status, nested_log_out, goto, Proc,
     masterVars,
     scanVars, fileVars
<1>2. /\ NestedLog(Master) \in [Slot -> Object]
      /\ \A k \in Slot :
            /\ NestedLog(Master)[k].pid = log_object[k].pid
            /\ NestedLog(Master)[k].need_init = log_object[k].need_init
  BY <1>1, NestedType, Zenon
<1>3. /\ log_object' \in [Slot -> Object]
      /\ \A k \in Slot :
            /\ log_object'[k].pid = log_object[k].pid
            /\ log_object[k].pid # w
                  => log_object'[k].need_init = log_object[k].need_init
  <2>1. ASSUME NEW q \in Object
        PROVE  /\ [q EXCEPT !.need_init = TRUE] \in Object
               /\ [q EXCEPT !.need_init = TRUE].pid = q.pid
    BY Zenon DEF Object
  <2> QED BY <1>1, <1>2, <2>1, Zenon
<1>4. TypeOK'
  <2>1. pc' \in [Worker -> {"none", "alloc", "start", "end", "run", "desc",
                            "write", "publish", "zombie", "reaped"}]
    BY <1>1, Zenon DEF TypeOK
  <2> QED BY <1>1, <1>3, <2>1, NestedLogInv, Zenon DEF TypeOK, Object
<1>5. ScanInv'
  <2>1. \A v \in Worker : pc'[v] \in {"desc", "write", "publish"}
                             => pc[v] \in {"desc", "write", "publish"}
    BY <1>1, Zenon DEF TypeOK
  <2> QED BY <1>1, <2>1, NestedLogInv, Zenon DEF ScanInv
<1>6. SlotInv'
  <2>1. \A v \in Worker :
           /\ pc'[v] \in {"none", "alloc"} => pc[v] \in {"none", "alloc"}
           /\ v \in Running' => v \in Running
           /\ pc[v] = "reaped" => pc'[v] = "reaped"
           /\ v = w => pc'[v] = "reaped"
    BY <1>1, Zenon DEF TypeOK, Running
  <2>2. \A k \in Slot :
           /\ log_object'[k].pid = log_object[k].pid
           /\ log_object'[k].need_init =>
                 \/ log_object[k].need_init
                 \/ log_object[k].pid \in Worker
                    /\ pc'[log_object[k].pid] = "reaped"
    BY <1>3, <2>1, Zenon
  <2> QED BY <1>1, <2>1, <2>2, PidsStayInv, Zenon
<1> QED BY <1>4, <1>5, <1>6, Zenon

-----------------------------------------------------------------------------
(***************************************************************************)
(* The steps of log_scan_write: what they do to the slots, to the loop and *)
(* to the page is taken apart, as no step does all three.                  *)
(***************************************************************************)

\* The scan is at a slot when it reads one, and ends behind the last.
LEMMA ScanMoves ==
    ASSUME IInv, log_scan_write
    PROVE  /\ mpc' \in {"loop", "scan", "read", "copy", "advance", "check",
                        "clear"}
           /\ index' \in 0..LoggerNum
           /\ mpc' \in {"read", "copy", "advance", "check", "clear"}
                 => index' \in Slot
<1> USE LoggerAssumption DEF IInv, TypeOK, ScanInv, Slot
<1>1. CASE scan_starts
  BY <1>1 DEF scan_starts
<1>2. CASE scan_slot
  BY <1>2 DEF scan_slot
<1>3. CASE scan_done
  BY <1>3 DEF scan_done
<1>4. CASE read_check
  BY <1>4, Zenon DEF read_check
<1>5. CASE log_read
  BY <1>5, Zenon DEF log_read
<1>6. CASE read_done
  BY <1>6, Zenon DEF read_done
<1>7. CASE release_slot
  BY <1>7 DEF release_slot
<1>8. CASE clear_need_init
  BY <1>8 DEF clear_need_init
<1> QED BY <1>1, <1>2, <1>3, <1>4, <1>5, <1>6, <1>7, <1>8, Zenon
           DEF log_scan_write

\* The page never has more than its room, and what goes to the file are
\* messages, or cells that were never filled.
LEMMA PageInv ==
    ASSUME IInv, log_scan_write
    PROVE  /\ flush_page' \in Seq(Msg \cup {Nil})
           /\ written' \in Seq(Msg \cup {Nil})
           /\ Len(flush_page') <= PageRoom
<1> USE DEF IInv
<1>1. /\ flush_page \in Seq(Msg \cup {Nil}) /\ written \in Seq(Msg \cup {Nil})
      /\ Len(flush_page) <= PageRoom
  BY Zenon DEF TypeOK, ScanInv
<1>2. written \o flush_page \in Seq(Msg \cup {Nil})
  BY <1>1
<1>3. CASE scan_done
  BY <1>2, <1>3, LoggerAssumption DEF scan_done, log_flush
<1>4. CASE log_read
  <2> DEFINE m == front(log_object[index])
  <2>1. m \in Msg \cup {Nil}
    <3>1. log_object[index] \in Object
      BY <1>4, ObjectType, Zenon DEF log_read, ScanInv
    <3> QED BY <3>1, Zenon DEF front, Object
  <2>2. \/ written' = written \o flush_page /\ flush_page' = <<m>>
        \/ /\ Len(flush_page) # PageRoom /\ written' = written
           /\ flush_page' = Append(flush_page, m)
    BY <1>4, Zenon DEF log_read, to_page, log_flush
  <2> HIDE DEF m
  <2>3. CASE written' = written \o flush_page /\ flush_page' = <<m>>
    <3>1. <<m>> \in Seq(Msg \cup {Nil}) /\ Len(<<m>>) = 1
      BY <2>1
    <3> QED BY <1>2, <2>3, <3>1, LoggerAssumption
  <2>4. CASE /\ Len(flush_page) # PageRoom /\ written' = written
             /\ flush_page' = Append(flush_page, m)
    BY <1>1, <2>1, <2>4, LoggerAssumption
  <2> QED BY <2>2, <2>3, <2>4, Zenon
<1>5. CASE UNCHANGED fileVars
  BY <1>1, <1>5, Zenon DEF fileVars
<1> QED BY <1>3, <1>4, <1>5, Zenon
        DEF log_scan_write, scan_starts, scan_slot, read_check, read_done,
            release_slot, clear_need_init

\* The scan releases the slot of a process that was reaped, and no other.
LEMMA ReleaseInv ==
    ASSUME IInv, log_scan_write
    PROVE  log_object' \in [Slot -> Object] /\ SlotInv'
<1> USE DEF IInv
<1>1. /\ pc' = pc /\ logger_id' = logger_id
      /\ log_object \in [Slot -> Object]
  BY ObjectType, Zenon
     DEF log_scan_write, scan_starts, scan_slot, scan_done, read_check,
         log_read, read_done, release_slot, clear_need_init, workerVars
<1>2. CASE log_object' = log_object
  <2>1. SlotsStay
    BY <1>1, <1>2, Zenon DEF SlotsStay
  <2> QED BY <1>1, <2>1, SlotsStayInv, Zenon DEF SlotsStay, Running
<1>3. CASE read_done
  <2>1. index \in Slot /\ log_object[index] \in Object
    BY <1>1, <1>3, Zenon DEF read_done, ScanInv
  <2>2. SlotsStay
    BY <1>1, <1>3, <2>1, BufferType, OneBuffer, Zenon DEF read_done
  <2> QED BY <1>1, <2>2, SlotsStayInv, Zenon DEF SlotsStay, Running
<1>4. ASSUME release_slot, log_object' # log_object
      PROVE  log_object' \in [Slot -> Object] /\ SlotInv'
  <2>1. /\ index \in Slot /\ log_object[index].need_init
        /\ log_object' = [log_object EXCEPT ![index].pid = Nil]
    BY <1>4, Zenon DEF release_slot, ScanInv
  <2>2. /\ log_object' \in [Slot -> Object]
        /\ log_object'[index].pid = Nil
        /\ \A l \in Slot : l # index => log_object'[l] = log_object[l]
    <3>1. /\ [log_object[index] EXCEPT !.pid = Nil] \in Object
          /\ [log_object[index] EXCEPT !.pid = Nil].pid = Nil
      BY <1>1, <2>1, Zenon DEF Object
    <3> QED BY <1>1, <2>1, <3>1, Zenon
  <2>3. /\ index # 0
        /\ \A w \in Running : logger_id[w] \in Slot /\ logger_id[w] # index
    <3>1. \A w \in Running : /\ logger_id[w] \in Slot /\ w \in Worker
                             /\ w # Nil /\ pc[w] # "reaped"
      BY LoggerAssumption, Zenon DEF TypeOK, Running, Proc
    <3>2. Master # Nil /\ Master \notin Worker
      BY LoggerAssumption, Zenon
    <3> QED BY <2>1, <3>1, <3>2 DEF SlotInv
  <2>4. 0 \in Slot
    BY LoggerAssumption DEF Slot
  <2>5. log_object'[0].pid = Master
    BY <2>2, <2>3, <2>4, Zenon DEF SlotInv
  <2>6. \A i, l \in Slot : log_object'[i].pid = log_object'[l].pid
                              => i = l \/ log_object'[i].pid = Nil
    BY <2>1, <2>2, Zenon DEF SlotInv
  <2>7. \A v \in Worker, l \in Slot :
           pc'[v] \in {"none", "alloc"} => log_object'[l].pid # v
    BY <1>1, <2>1, <2>2, LoggerAssumption DEF SlotInv
  <2>8. \A v \in Running' : log_object'[logger_id'[v]].pid = v
    BY <1>1, <2>2, <2>3, Zenon DEF Running, SlotInv
  <2>9. \A l \in Slot : log_object'[l].need_init =>
           \/ log_object'[l].pid = Nil
           \/ log_object'[l].pid \in Worker
              /\ pc'[log_object'[l].pid] = "reaped"
    BY <1>1, <2>2, Zenon DEF SlotInv
  <2> QED BY <2>2, <2>5, <2>6, <2>7, <2>8, <2>9, Zenon DEF SlotInv
<1>5. CASE clear_need_init
  <2>1. /\ index \in Slot
        /\ log_object' = [log_object EXCEPT ![index].need_init = FALSE]
    BY <1>5, Zenon DEF clear_need_init, ScanInv
  <2>2. /\ log_object' \in [Slot -> Object]
        /\ \A k \in Slot :
              /\ log_object'[k].pid = log_object[k].pid
              /\ log_object'[k].need_init => log_object[k].need_init
    <3>1. /\ [log_object[index] EXCEPT !.need_init = FALSE] \in Object
          /\ [log_object[index] EXCEPT !.need_init = FALSE].pid
                = log_object[index].pid
          /\ [log_object[index] EXCEPT !.need_init = FALSE].need_init = FALSE
      BY <1>1, <2>1, Zenon DEF Object
    <3> QED BY <1>1, <2>1, <3>1, Zenon
  <2> QED BY <1>1, <2>2, PidsStayInv, Zenon DEF Running
<1> QED BY <1>2, <1>3, <1>4, <1>5, Zenon
        DEF log_scan_write, scan_starts, scan_slot, scan_done, read_check,
            log_read

\* log_scan_write.
LEMMA ScanStep ==
    ASSUME IInv, log_scan_write
    PROVE  IInv'
<1>1. /\ logger_lock' = logger_lock /\ logger_id' = logger_id /\ pc' = pc
      /\ logdesc' = logdesc /\ sent' = sent /\ accepted' = accepted
  BY Zenon DEF log_scan_write, scan_starts, scan_slot, scan_done, read_check,
     log_read, read_done, release_slot, clear_need_init, workerVars, ghosts
<1>2. TypeOK'
  <2>1. flush_page' \o written' \in Seq(Msg \cup {Nil})
    BY PageInv
  <2> QED BY <1>1, <2>1, ScanMoves, PageInv, ReleaseInv, Zenon
          DEF IInv, TypeOK, Object
<1>3. ScanInv'
  BY <1>1, ScanMoves, PageInv, Zenon DEF IInv, ScanInv
<1> QED BY <1>2, <1>3, ReleaseInv, Zenon DEF IInv

-----------------------------------------------------------------------------
(***************************************************************************)
(* Conclusions.                                                            *)
(***************************************************************************)

\* log_init, and the slot of the master.
LEMMA InitInv == Init => IInv
<1> SUFFICES ASSUME Init PROVE IInv
  BY Zenon
<1> USE DEF Init
<1>1. 0 \in Slot /\ 0 \in Cells /\ 0 \in 0..LoggerNum /\ 0 \in 0..MaxMsg
  BY LoggerAssumption, CirBufAssumption DEF Slot, Cells
<1>2. TypeOK
  <2>1. log_object \in [Slot -> [pid : Proc \cup {Nil}, need_init : BOOLEAN,
                                start : Cells, end : Cells,
                                elem : [Cells -> Msg \cup {Nil}]]]
    BY <1>1, Zenon DEF Proc
  <2>2. flush_page \o written \in Seq(Msg \cup {Nil}) /\ Len(flush_page) = 0
    OBVIOUS
  <2>3. Len(flush_page) <= PageRoom
    BY <2>2, LoggerAssumption
  <2> QED BY <1>1, <2>1, <2>2, <2>3, Zenon DEF TypeOK
<1>3. ScanInv
  BY DEF ScanInv
<1>4. SlotInv
  <2>1. \A k \in Slot : log_object[k].need_init = FALSE
    BY Zenon
  <2>2. \A k \in Slot : log_object[k].pid = IF k = 0 THEN Master ELSE Nil
    BY Zenon
  <2>3. Running = {}
    BY Zenon DEF Running
  <2> QED BY <1>1, <2>1, <2>2, <2>3, LoggerAssumption, Zenon DEF SlotInv
<1> QED BY <1>2, <1>3, <1>4, Zenon DEF IInv

\* Every step preserves the invariant.
LEMMA NextInv ==
    ASSUME IInv, [Next]_vars
    PROVE  IInv'
<1>1. CASE log_scan_write
  BY <1>1, ScanStep, Zenon
<1>2. ASSUME NEW w \in Worker,
             \/ fork(w) \/ worker(w) \/ worker_signal_handler(w)
             \/ worker_ends(w) \/ worker_process_get_status(w)
      PROVE  IInv'
  BY <1>2, ForkInv, AllocTakesInv, AllocInitInv, LogOutInv, SignalInv,
     ReapInv, Zenon
     DEF worker
<1>3. CASE UNCHANGED vars
  BY <1>3, Zenon DEF IInv, TypeOK, ScanInv, SlotInv, Running, vars, workerVars,
     masterVars, scanVars, fileVars, ghosts
<1> QED BY <1>1, <1>2, <1>3, Zenon DEF Next

-----------------------------------------------------------------------------
(***************************************************************************)
(* The cells of one buffer, between its indices.                           *)
(***************************************************************************)

\* A number below twice the size, modulo the size.
LEMMA ModSmall ==
    ASSUME NEW i \in 0..(2 * ElemCount - 1)
    PROVE  /\ i < ElemCount => i % ElemCount = i
           /\ ~(i < ElemCount) => i % ElemCount = i - ElemCount
<1> USE CirBufAssumption
<1>1. /\ i % ElemCount \in 0..(ElemCount - 1) /\ i \div ElemCount \in Int
      /\ i = (ElemCount * (i \div ElemCount)) + (i % ElemCount)
  OBVIOUS
<1>2. i \div ElemCount \in {0, 1}
  BY <1>1
<1> QED BY <1>1, <1>2

\* How far cell c is ahead of cell s, and whether it is between s and e.
Ahead(c, s) == (c + ElemCount - s) % ElemCount
Holds(c, s, e) == Ahead(c, s) < Ahead(e, s)

\* The two without modulo.
LEMMA CellOrder ==
    ASSUME NEW c \in Cells, NEW s \in Cells
    PROVE  /\ Next1(c) = IF c = ElemCount - 1 THEN 0 ELSE c + 1
           /\ Ahead(c, s) = IF s <= c THEN c - s ELSE c + ElemCount - s
<1>1. /\ ElemCount \in Nat \ {0} /\ c \in Nat /\ s \in Nat
      /\ c < ElemCount /\ s < ElemCount
  BY CirBufAssumption DEF Cells
<1> DEFINE i == c + 1
           j == c + ElemCount - s
<1>3. i \in 0..(2 * ElemCount - 1) /\ j \in 0..(2 * ElemCount - 1)
  BY <1>1
<1> HIDE DEF i, j
<1>4. /\ i < ElemCount => i % ElemCount = i
      /\ ~(i < ElemCount) => i % ElemCount = i - ElemCount
  BY <1>3, ModSmall, Zenon
<1>5. /\ j < ElemCount => j % ElemCount = j
      /\ ~(j < ElemCount) => j % ElemCount = j - ElemCount
  BY <1>3, ModSmall, Zenon
<1> QED BY <1>1, <1>4, <1>5 DEF Next1, Ahead, i, j

\* The cell at end is outside, the one at start inside unless the buffer is
\* empty, and before the others.
LEMMA HoldsEnds ==
    ASSUME NEW s \in Cells, NEW e \in Cells
    PROVE  /\ ~Holds(e, s, e)
           /\ s # e => Holds(s, s, e)
           /\ \A c \in Cells : c # s => Ahead(s, s) < Ahead(c, s)
<1>1. /\ ElemCount \in Nat \ {0} /\ \A c \in Cells : c \in 0..(ElemCount - 1)
  BY CirBufAssumption, Zenon DEF Cells
<1>2. \A c \in Cells : Ahead(c, s) = IF s <= c THEN c - s ELSE c + ElemCount - s
  BY CellOrder, Zenon
<1> QED BY <1>1, <1>2 DEF Holds

\* publish adds the cell at end, behind the others.
LEMMA HoldsPublish ==
    ASSUME NEW s \in Cells, NEW e \in Cells, Next1(e) # s, NEW c \in Cells
    PROVE  Holds(c, s, Next1(e)) <=> Holds(c, s, e) \/ c = e
<1>1. /\ ElemCount \in Nat \ {0} /\ c \in 0..(ElemCount - 1)
      /\ s \in 0..(ElemCount - 1) /\ e \in 0..(ElemCount - 1)
  BY CirBufAssumption, Zenon DEF Cells
<1>2. Next1(e) \in Cells
  BY CellType, Zenon
<1>3. /\ Next1(e) = IF e = ElemCount - 1 THEN 0 ELSE e + 1
      /\ Ahead(c, s) = IF s <= c THEN c - s ELSE c + ElemCount - s
      /\ Ahead(e, s) = IF s <= e THEN e - s ELSE e + ElemCount - s
      /\ Ahead(Next1(e), s) = IF s <= Next1(e) THEN Next1(e) - s
                              ELSE Next1(e) + ElemCount - s
  BY <1>2, CellOrder, Zenon
<1> QED BY <1>1, <1>3 DEF Holds

\* release drops the cell at start and leaves the order of the others.
LEMMA HoldsRelease ==
    ASSUME NEW s \in Cells, NEW e \in Cells, s # e
    PROVE  /\ \A c \in Cells : Holds(c, Next1(s), e) <=> Holds(c, s, e) /\ c # s
           /\ \A c \in Cells : c # s => Ahead(c, Next1(s)) = Ahead(c, s) - 1
<1>1. /\ ElemCount \in Nat \ {0} /\ \A c \in Cells : c \in 0..(ElemCount - 1)
  BY CirBufAssumption, Zenon DEF Cells
<1>2. Next1(s) \in Cells
  BY CellType, Zenon
<1>3. /\ Next1(s) = IF s = ElemCount - 1 THEN 0 ELSE s + 1
      /\ \A c \in Cells :
            /\ Ahead(c, s) = IF s <= c THEN c - s ELSE c + ElemCount - s
            /\ Ahead(c, Next1(s)) = IF Next1(s) <= c THEN c - Next1(s)
                                    ELSE c + ElemCount - Next1(s)
  BY <1>2, CellOrder, Zenon
<1>4. \A c \in Cells : c # s => Ahead(c, Next1(s)) = Ahead(c, s) - 1
  BY <1>1, <1>3
<1>5. Ahead(s, Next1(s)) = ElemCount - 1 /\ Ahead(s, s) = 0
  BY <1>1, <1>3
<1>6. \A c \in Cells : Ahead(c, s) \in 0..(ElemCount - 1)
  BY <1>1, <1>3
<1> QED BY <1>1, <1>4, <1>5, <1>6 DEF Holds

-----------------------------------------------------------------------------
(***************************************************************************)
(* The messages of a process whose slot no other process has had.          *)
(***************************************************************************)

\* The scan is inside the cirbuf_read of slot k, and has copied the cell.
Reads(k) == index = k /\ mpc \in {"copy", "advance"}
Copied(k) == index = k /\ mpc = "advance"

\* The last message that p has written or dropped.
Latest(p) ==
    IF p \in Worker /\ pc[p] \in {"desc", "write", "publish"}
    THEN sent[p] - 1 ELSE sent[p]

By(p, m) == m # Nil /\ m[1] = p

\* The buffer of p, with the indices s and e and the cells x: a cell that is
\* being written is free and is what will be published;
WriteInv(p, s, e, x) ==
    p \in Worker => /\ pc[p] \in {"write", "publish"} => Next1(e) # s
                    /\ pc[p] = "publish" => x[e] = logdesc[p]

\* a cell that is being read has been published, and is in the log once it is
\* copied;
ReadInv(p, s, e, x) ==
    /\ Reads(logger_id[p]) => s # e
    /\ Copied(logger_id[p]) => InLog(x[s])

\* what was taken is in the buffer or in the log;
TakenInv(p, s, e, x) ==
    \A m \in accepted : m[1] = p =>
        InLog(m) \/ \E c \in Cells : Holds(c, s, e) /\ x[c] = m

\* the buffer has messages of p in their order;
SortInv(p, s, e, x) ==
    \A c \in Cells : Holds(c, s, e) =>
        /\ x[c] # Nil /\ x[c][1] = p /\ x[c][2] <= Latest(p)
        /\ \A d \in Cells : Holds(d, s, e) /\ Ahead(c, s) < Ahead(d, s)
              => x[c][2] < x[d][2]

\* and the log has them in their order, before those of the buffer.
LogInv(p, s, e, x) ==
    \A a \in 1..Len(Logged) : By(p, Logged[a]) =>
        /\ Logged[a][2] <= Latest(p)
        /\ \A c \in Cells : Holds(c, s, e) =>
              \/ Logged[a][2] < x[c][2]
              \/ Copied(logger_id[p]) /\ c = s /\ Logged[a][2] = x[c][2]
        /\ \A b \in 1..(a - 1) : By(p, Logged[b])
              => Logged[b][2] < Logged[a][2]

Orderly(p, s, e, x) ==
    /\ WriteInv(p, s, e, x)
    /\ ReadInv(p, s, e, x)
    /\ TakenInv(p, s, e, x)
    /\ SortInv(p, s, e, x)
    /\ LogInv(p, s, e, x)

\* What a step may add to the log.
LogStep(m) == Logged' = Append(Logged, m)

\* The log is a list of messages.
LEMMA LogTypes ==
    ASSUME IInv
    PROVE  Logged \in Seq(Msg \cup {Nil})
  BY DEF IInv, ScanInv, Logged

\* The number of a message.
LEMMA LatestType ==
    ASSUME IInv, IInv', NEW p \in Proc
    PROVE  Latest(p) \in Int /\ Latest(p)' \in Int
<1>1. sent[p] \in 0..MaxMsg /\ sent'[p] \in 0..MaxMsg /\ MaxMsg \in Nat
  BY LoggerAssumption, Zenon DEF IInv, TypeOK
<1> QED BY <1>1 DEF Latest

\* A step that adds a message to the log.
LEMMA LogGrows ==
    ASSUME IInv, NEW m \in Msg \cup {Nil}, LogStep(m)
    PROVE  /\ Len(Logged) \in Nat /\ Len(Logged') = Len(Logged) + 1
           /\ Logged'[Len(Logged) + 1] = m
           /\ \A a \in 1..Len(Logged) : Logged'[a] = Logged[a]
           /\ InLog(m)' /\ \A n : InLog(n) => InLog(n)'
<1>1. Logged \in Seq(Msg \cup {Nil})
  BY LogTypes, Zenon
<1>2. /\ Len(Logged) \in Nat /\ Len(Logged') = Len(Logged) + 1
      /\ Logged'[Len(Logged) + 1] = m
      /\ \A a \in 1..Len(Logged) : Logged'[a] = Logged[a]
  BY <1>1 DEF LogStep
<1> QED BY <1>2 DEF InLog

\* What is in the log stays there.
LEMMA LogKeeps ==
    ASSUME IInv, Logged' = Logged \/ \E m : LogStep(m)
    PROVE  /\ Len(Logged') >= Len(Logged)
           /\ \A a \in 1..Len(Logged) : Logged'[a] = Logged[a]
           /\ \A m : InLog(m) => InLog(m)'
<1>1. Logged \in Seq(Msg \cup {Nil})
  BY LogTypes, Zenon
<1>2. /\ Len(Logged') \in Nat /\ Len(Logged) \in Nat
      /\ Len(Logged') >= Len(Logged)
      /\ \A a \in 1..Len(Logged) : Logged'[a] = Logged[a]
  BY <1>1 DEF LogStep
<1> QED BY <1>2 DEF InLog

\* Steps that leave the buffer, write no message of p to the log, and at most
\* let p begin to write to a buffer with room or the scan to read from one with
\* messages.
LEMMA OrderlyStays ==
    ASSUME IInv, IInv', NEW p \in Proc, NEW s, NEW e, NEW x,
           Orderly(p, s, e, x),
           logger_id'[p] = logger_id[p],
           p \in Worker =>
              /\ pc'[p] = "write" => pc[p] = "write" \/ Next1(e) # s
              /\ pc'[p] = "publish" => pc[p] = "publish"
                                       /\ logdesc'[p] = logdesc[p],
           Reads(logger_id[p])' => Reads(logger_id[p]) \/ s # e,
           Copied(logger_id[p])' = Copied(logger_id[p]),
           \A m \in accepted' : m[1] = p => m \in accepted,
           Logged' = Logged \/ \E m : LogStep(m) /\ ~By(p, m),
           Latest(p) <= Latest(p)',
           \A c \in Cells : x[c] \in Msg \cup {Nil}
    PROVE  Orderly(p, s, e, x)'
<1> USE DEF Orderly
<1>1. \A m : InLog(m) => InLog(m)'
  BY LogKeeps, Zenon
<1>2. WriteInv(p, s, e, x)'
  BY Zenon DEF WriteInv
<1>3. ReadInv(p, s, e, x)'
  BY <1>1, Zenon DEF ReadInv
<1>4. TakenInv(p, s, e, x)'
  BY <1>1, Zenon DEF TakenInv
<1>5. Latest(p) \in Int /\ Latest(p)' \in Int
  BY LatestType, Zenon
<1>6. SortInv(p, s, e, x)'
  BY <1>5 DEF SortInv, Msg
<1>7. LogInv(p, s, e, x)'
  <2> SUFFICES ASSUME NEW a \in 1..Len(Logged'), By(p, Logged'[a])
               PROVE  /\ Logged'[a][2] <= Latest(p)'
                      /\ \A c \in Cells : Holds(c, s, e) =>
                            \/ Logged'[a][2] < x[c][2]
                            \/ /\ Copied(logger_id[p])' /\ c = s
                               /\ Logged'[a][2] = x[c][2]
                      /\ \A b \in 1..(a - 1) : By(p, Logged'[b])
                            => Logged'[b][2] < Logged'[a][2]
    BY Zenon DEF LogInv, By
  <2>1. /\ a \in 1..Len(Logged) /\ Logged'[a] = Logged[a]
        /\ \A b \in 1..(a - 1) : Logged'[b] = Logged[b]
    BY LogTypes DEF LogStep
  <2>2. Logged[a] \in Msg
    BY <2>1, LogTypes DEF By
  <2>3. Logged[a][2] \in Int
    BY <2>2 DEF Msg
  <2> QED BY <1>5, <2>1, <2>3 DEF LogInv
<1> QED BY <1>2, <1>3, <1>4, <1>6, <1>7, Zenon

Cell == Msg \cup {Nil}

\* Steps of others, as far as p can tell.
SameReader(p) ==
    /\ logger_id'[p] = logger_id[p] /\ index' = index /\ mpc' = mpc
    /\ Logged' = Logged

\* The callback of cirbuf_write fills the cell at end, which is free.
LEMMA FillOrderly ==
    ASSUME IInv, IInv', NEW p \in Worker, NEW s \in Cells, NEW e \in Cells,
           NEW x \in [Cells -> Cell], NEW y \in [Cells -> Cell],
           Orderly(p, s, e, x), SameReader(p),
           pc[p] = "write", pc'[p] = "publish",
           logdesc' = logdesc, sent' = sent, accepted' = accepted,
           y = [x EXCEPT ![e] = logdesc[p]]
    PROVE  Orderly(p, s, e, y)'
<1> USE DEF Orderly
<1>1. /\ y[e] = logdesc[p] /\ \A c \in Cells : c # e => y[c] = x[c]
  BY Zenon
<1>2. \A c \in Cells : Holds(c, s, e) => y[c] = x[c]
  BY <1>1, HoldsEnds, Zenon
<1>3. Latest(p)' = Latest(p)
  BY Zenon DEF Latest
<1>4. \A m : InLog(m)' <=> InLog(m)
  BY Zenon DEF InLog, SameReader
<1>5. WriteInv(p, s, e, y)'
  BY <1>1, Zenon DEF WriteInv
<1>6. ReadInv(p, s, e, y)'
  BY <1>1, <1>4, Zenon DEF ReadInv, Reads, Copied, SameReader
<1>7. TakenInv(p, s, e, y)'
  BY <1>2, <1>4, Zenon DEF TakenInv
<1>8. SortInv(p, s, e, y)'
  BY <1>2, <1>3, Zenon DEF SortInv
<1>9. LogInv(p, s, e, y)'
  <2>1. Logged' = Logged /\ Copied(logger_id[p])' = Copied(logger_id[p])
    BY Zenon DEF SameReader, Copied
  <2> QED BY <1>2, <1>3, <2>1 DEF LogInv, By
<1> QED BY <1>5, <1>6, <1>7, <1>8, <1>9, Zenon

\* The cell is published: its message is newer than those before it.
LEMMA PublishOrderly ==
    ASSUME IInv, IInv', NEW p \in Proc, NEW s \in Cells, NEW e \in Cells,
           NEW x \in [Cells -> Cell], NEW y \in [Cells -> Cell],
           NEW m \in Msg,
           Orderly(p, s, e, x), SameReader(p), Next1(e) # s,
           y[e] = m, \A c \in Cells : c # e => y[c] = x[c],
           m[1] = p, Latest(p) < m[2], m[2] <= Latest(p)',
           p \in Worker => pc'[p] \notin {"write", "publish"},
           accepted' = accepted \cup {m}
    PROVE  Orderly(p, s, Next1(e), y)'
<1> USE DEF Orderly
<1>1. \A c \in Cells : Holds(c, s, e) => c # e /\ y[c] = x[c]
  BY HoldsEnds, Zenon
<1>2. \A c \in Cells : Holds(c, s, Next1(e)) <=> Holds(c, s, e) \/ c = e
  BY HoldsPublish, Zenon
<1>3. Latest(p) \in Int /\ Latest(p)' \in Int /\ m[2] \in Int
  BY LatestType DEF Msg
<1>4. \A n : InLog(n)' <=> InLog(n)
  BY Zenon DEF InLog, SameReader
<1>5. WriteInv(p, s, Next1(e), y)'
  BY Zenon DEF WriteInv
<1>6. ReadInv(p, s, Next1(e), y)'
  BY <1>4, Zenon DEF ReadInv, Reads, Copied, SameReader
<1>7. TakenInv(p, s, Next1(e), y)'
  <2> SUFFICES ASSUME NEW n \in accepted \cup {m}, n[1] = p, ~InLog(n)'
               PROVE  \E c \in Cells : Holds(c, s, Next1(e)) /\ y[c] = n
    BY Zenon DEF TakenInv
  <2>1. CASE n = m
    BY <1>2, <2>1, Zenon
  <2>2. CASE n \in accepted
    BY <1>1, <1>2, <1>4, <2>2, Zenon DEF TakenInv
  <2> QED BY <2>1, <2>2, Zenon
<1>8. SortInv(p, s, Next1(e), y)'
  <2> SUFFICES ASSUME NEW c \in Cells, Holds(c, s, Next1(e))
               PROVE  /\ y[c] # Nil /\ y[c][1] = p /\ y[c][2] <= Latest(p)'
                      /\ \A d \in Cells :
                            /\ Holds(d, s, Next1(e))
                            /\ Ahead(c, s) < Ahead(d, s)
                            => y[c][2] < y[d][2]
    BY Zenon DEF SortInv
  <2>1. m # Nil
    BY LoggerAssumption, Zenon DEF Msg, Proc
  <2>2. CASE c = e
    <3>1. ASSUME NEW d \in Cells, Holds(d, s, Next1(e)),
                 Ahead(e, s) < Ahead(d, s)
          PROVE  FALSE
      <4>1. Ahead(e, s) \in Int /\ Ahead(d, s) \in Int
        BY CirBufAssumption DEF Ahead, Cells
      <4> QED BY <1>2, <3>1, <4>1 DEF Holds
    <3> QED BY <2>1, <2>2, <3>1, Zenon
  <2>3. CASE c # e
    <3>1. /\ Holds(c, s, e) /\ y[c] = x[c] /\ x[c] # Nil /\ x[c][1] = p
          /\ x[c][2] <= Latest(p)
      BY <1>1, <1>2, <2>3, Zenon DEF SortInv
    <3>2. x[c] \in Msg /\ x[c][2] \in Int
      BY <3>1 DEF Cell, Msg
    <3>3. x[c][2] < m[2] /\ x[c][2] <= Latest(p)'
      BY <1>3, <3>1, <3>2
    <3>4. ASSUME NEW d \in Cells, Holds(d, s, Next1(e)),
                 Ahead(c, s) < Ahead(d, s)
          PROVE  y[c][2] < y[d][2]
      BY <1>1, <1>2, <3>1, <3>3, <3>4, Zenon DEF SortInv
    <3> QED BY <3>1, <3>3, <3>4, Zenon
  <2> QED BY <2>2, <2>3, Zenon
<1>9. LogInv(p, s, Next1(e), y)'
  <2>1. Logged' = Logged /\ Copied(logger_id[p])' = Copied(logger_id[p])
    BY Zenon DEF SameReader, Copied
  <2> SUFFICES ASSUME NEW a \in 1..Len(Logged), By(p, Logged[a])
               PROVE  /\ Logged[a][2] <= Latest(p)'
                      /\ \A c \in Cells : Holds(c, s, Next1(e)) =>
                            \/ Logged[a][2] < y[c][2]
                            \/ /\ Copied(logger_id[p]) /\ c = s
                               /\ Logged[a][2] = y[c][2]
                      /\ \A b \in 1..(a - 1) : By(p, Logged[b])
                            => Logged[b][2] < Logged[a][2]
    BY <2>1 DEF LogInv, By
  <2>2. Logged[a] \in Msg
    BY LogTypes DEF By
  <2>3. Logged[a][2] \in Int
    BY <2>2 DEF Msg
  <2>4. Logged[a][2] <= Latest(p)
    BY Zenon DEF LogInv
  <2>5. Logged[a][2] < m[2] /\ Logged[a][2] <= Latest(p)'
    BY <1>3, <2>3, <2>4
  <2>6. ASSUME NEW c \in Cells, Holds(c, s, Next1(e))
        PROVE  \/ Logged[a][2] < y[c][2]
               \/ /\ Copied(logger_id[p]) /\ c = s
                  /\ Logged[a][2] = y[c][2]
    <3>1. CASE c = e
      BY <2>5, <3>1, Zenon
    <3>2. CASE c # e
      <4>1. Holds(c, s, e) /\ y[c] = x[c]
        BY <1>1, <1>2, <2>6, <3>2, Zenon
      <4>2. \/ Logged[a][2] < x[c][2]
            \/ /\ Copied(logger_id[p]) /\ c = s
               /\ Logged[a][2] = x[c][2]
        BY <4>1, Zenon DEF LogInv
      <4> QED BY <4>1, <4>2, Zenon
    <3> QED BY <3>1, <3>2, Zenon
  <2> QED BY <2>5, <2>6, Zenon DEF LogInv
<1> QED BY <1>5, <1>6, <1>7, <1>8, <1>9, Zenon

\* Nothing of p but its place in the scan changes.
SameWriter(p) ==
    /\ logger_id'[p] = logger_id[p] /\ pc' = pc /\ logdesc' = logdesc
    /\ sent' = sent /\ accepted' = accepted

\* The callback of cirbuf_read copies the oldest message: it comes behind those
\* in the log.
LEMMA CopyOrderly ==
    ASSUME IInv, IInv', NEW p \in Proc, NEW s \in Cells, NEW e \in Cells,
           NEW x \in [Cells -> Cell],
           Orderly(p, s, e, x), SameWriter(p),
           index = logger_id[p], index' = index,
           mpc = "copy", mpc' = "advance", LogStep(x[s])
    PROVE  Orderly(p, s, e, x)'
<1> USE DEF Orderly
<1>1. s # e /\ Holds(s, s, e)
  BY HoldsEnds, Zenon DEF ReadInv, Reads
<1>2. Latest(p)' = Latest(p) /\ Latest(p) \in Int
  BY LatestType, Zenon DEF Latest, SameWriter
<1>3. /\ x[s] \in Msg /\ x[s] # Nil /\ x[s][1] = p /\ x[s][2] <= Latest(p)
      /\ x[s][2] \in Int
      /\ \A c \in Cells : Holds(c, s, e) /\ c # s => x[s][2] < x[c][2]
  <2>1. /\ x[s] # Nil /\ x[s][1] = p /\ x[s][2] <= Latest(p)
        /\ \A c \in Cells : Holds(c, s, e) /\ Ahead(s, s) < Ahead(c, s)
              => x[s][2] < x[c][2]
    BY <1>1, Zenon DEF SortInv
  <2>2. x[s] \in Msg /\ x[s][2] \in Int
    BY <2>1 DEF Cell, Msg
  <2> QED BY <2>1, <2>2, HoldsEnds, Zenon
<1>4. PICK n : n = Len(Logged)
  BY Zenon
<1>5. /\ n \in Nat /\ Len(Logged') = n + 1 /\ Logged'[n + 1] = x[s]
      /\ \A a \in 1..n : Logged'[a] = Logged[a]
      /\ InLog(x[s])' /\ \A m : InLog(m) => InLog(m)'
  BY <1>3, <1>4, LogGrows, Zenon
<1>6. WriteInv(p, s, e, x)'
  BY Zenon DEF WriteInv, SameWriter
<1>7. ReadInv(p, s, e, x)'
  BY <1>1, <1>5, Zenon DEF ReadInv
<1>8. TakenInv(p, s, e, x)'
  BY <1>5, Zenon DEF TakenInv, SameWriter
<1>9. SortInv(p, s, e, x)'
  BY <1>2, Zenon DEF SortInv
<1>10. LogInv(p, s, e, x)'
  <2>1. ~Copied(logger_id[p]) /\ Copied(logger_id[p])'
    BY Zenon DEF Copied, SameWriter
  <2>2. \A a \in 1..n : By(p, Logged[a]) =>
           /\ Logged[a][2] <= Latest(p)
           /\ \A c \in Cells : Holds(c, s, e) => Logged[a][2] < x[c][2]
           /\ \A b \in 1..(a - 1) : By(p, Logged[b])
                 => Logged[b][2] < Logged[a][2]
    BY <1>4, <2>1, Zenon DEF LogInv
  <2> SUFFICES ASSUME NEW a \in 1..(n + 1), By(p, Logged'[a])
               PROVE  /\ Logged'[a][2] <= Latest(p)
                      /\ \A c \in Cells : Holds(c, s, e) =>
                            \/ Logged'[a][2] < x[c][2]
                            \/ c = s /\ Logged'[a][2] = x[c][2]
                      /\ \A b \in 1..(a - 1) : By(p, Logged'[b])
                            => Logged'[b][2] < Logged'[a][2]
    BY <1>2, <1>5, <2>1 DEF LogInv, By
  <2>3. CASE a \in 1..n
    <3>1. Logged'[a] = Logged[a] /\ \A b \in 1..(a - 1) : Logged'[b] = Logged[b]
      BY <1>5, <2>3
    <3> QED BY <2>2, <2>3, <3>1, Zenon
  <2>4. CASE a = n + 1
    <3>1. /\ Logged'[a] = x[s]
          /\ \A b \in 1..(a - 1) : b \in 1..n /\ Logged'[b] = Logged[b]
      BY <1>5, <2>4
    <3> QED BY <1>1, <1>3, <2>2, <3>1, Zenon
  <2>5. a \in 1..n \/ a = n + 1
    BY <1>5
  <2> QED BY <2>3, <2>4, <2>5, Zenon
<1> QED BY <1>6, <1>7, <1>8, <1>9, <1>10, Zenon

\* The cell is given back: its message is in the log.
LEMMA ReleaseOrderly ==
    ASSUME IInv, IInv', NEW p \in Proc, NEW s \in Cells, NEW e \in Cells,
           NEW x \in [Cells -> Cell],
           Orderly(p, s, e, x), SameWriter(p),
           index = logger_id[p], mpc = "advance", mpc' = "read",
           Logged' = Logged
    PROVE  Orderly(p, Next1(s), e, x)'
<1> USE DEF Orderly
<1>1. s # e /\ InLog(x[s])
  BY Zenon DEF ReadInv, Reads, Copied
<1>2. Latest(p)' = Latest(p)
  BY Zenon DEF Latest, SameWriter
<1>3. /\ \A c \in Cells : Holds(c, Next1(s), e) <=> Holds(c, s, e) /\ c # s
      /\ \A c \in Cells : /\ c # s => Ahead(c, Next1(s)) = Ahead(c, s) - 1
                          /\ Ahead(c, s) \in Int
  <2>1. \A c \in Cells : Ahead(c, s) \in Int
    BY CirBufAssumption DEF Ahead, Cells
  <2> QED BY <1>1, <2>1, HoldsRelease, Zenon
<1>4. \A m : InLog(m)' <=> InLog(m)
  BY Zenon DEF InLog
<1>5. WriteInv(p, Next1(s), e, x)'
  <2>1. Next1(e) # Next1(s)
    <3>1. /\ Next1(e) = IF e = ElemCount - 1 THEN 0 ELSE e + 1
          /\ Next1(s) = IF s = ElemCount - 1 THEN 0 ELSE s + 1
      BY CellOrder, Zenon
    <3> QED BY <1>1, <3>1, CirBufAssumption DEF Cells
  <2> QED BY <2>1, Zenon DEF WriteInv, SameWriter
<1>6. ReadInv(p, Next1(s), e, x)'
  BY Zenon DEF ReadInv, Reads, Copied
<1>7. TakenInv(p, Next1(s), e, x)'
  BY <1>1, <1>3, <1>4, Zenon DEF TakenInv, SameWriter
<1>8. SortInv(p, Next1(s), e, x)'
  BY <1>2, <1>3 DEF SortInv
<1>9. LogInv(p, Next1(s), e, x)'
  BY <1>2, <1>3 DEF LogInv, By
<1> QED BY <1>5, <1>6, <1>7, <1>8, <1>9, Zenon

\* The first worker on a slot begins with an empty buffer.
LEMMA FirstOrderly ==
    ASSUME NEW p \in Worker, NEW s \in Cells, NEW x,
           pc'[p] = "run", ~Reads(logger_id[p])',
           \A m \in accepted' : m[1] # p,
           \A a \in 1..Len(Logged') : ~By(p, Logged'[a])
    PROVE  Orderly(p, s, s, x)'
<1>1. \A c \in Cells : ~Holds(c, s, s)
  <2>1. \A c \in Cells : Ahead(c, s) \in Nat /\ Ahead(s, s) = 0
    <3>1. \A c \in Cells : Ahead(c, s) = IF s <= c THEN c - s
                                         ELSE c + ElemCount - s
      BY CellOrder, Zenon
    <3> QED BY <3>1, CirBufAssumption DEF Cells
  <2> QED BY <2>1 DEF Holds
<1>2. WriteInv(p, s, s, x)' /\ TakenInv(p, s, s, x)'
  BY Zenon DEF WriteInv, TakenInv
<1>3. ReadInv(p, s, s, x)'
  BY Zenon DEF ReadInv, Reads, Copied
<1>4. SortInv(p, s, s, x)'
  BY <1>1, Zenon DEF SortInv
<1>5. LogInv(p, s, s, x)'
  BY Zenon DEF LogInv, By
<1> QED BY <1>2, <1>3, <1>4, <1>5, Zenon DEF Orderly

-----------------------------------------------------------------------------
(***************************************************************************)
(* The second inductive invariant.                                         *)
(***************************************************************************)

\* A process whose buffer no other process has used.
Steady(p) ==
    p = Master \/ /\ pc[p] # "reaped" /\ logger_id[p] # 0
                  /\ \A v \in Worker \ {p} : logger_id[v] # logger_id[p]

\* The author of a message has a slot.
Known(m) == m[1] = Master \/ logger_id[m[1]] # 0

\* A process has no slot before log_worker_alloc; it keeps the slot until it is
\* reaped; and inside log_out it has its newest message in hand.
IdInv ==
    /\ logger_id[Master] = 0
    /\ \A w \in Worker :
          /\ pc[w] \in {"none", "alloc", "start", "end"} => logger_id[w] = 0
          /\ pc[w] = "zombie" /\ logger_id[w] # 0
                => log_object[logger_id[w]].pid = w
          /\ pc[w] \in {"desc", "write", "publish"}
                => logdesc[w] = <<w, sent[w]>>

\* Only processes with a slot have messages, and a buffer has only messages of
\* processes that had its slot.
AuthorInv ==
    \A m \in Msg :
        /\ m \in accepted \/ InLog(m) => Known(m)
        /\ \A k \in Slot, c \in Cells : log_object[k].elem[c] = m
              => Known(m) /\ logger_id[m[1]] = k

\* A slot that no process has had is empty, and not being read.
UnusedInv ==
    \A k \in Slot \ {0} :
        (\A v \in Worker : logger_id[v] # k) =>
            /\ log_object[k].start = 0 /\ log_object[k].end = 0
            /\ ~Reads(k)

\* The messages of a process with a buffer of its own are in order.
QueueInv ==
    \A p \in Proc : Steady(p) =>
        Orderly(p, log(p).start, log(p).end, log(p).elem)

QInv == IdInv /\ AuthorInv /\ UnusedInv /\ QueueInv

\* A process with a buffer of its own has its pid in the slot.
LEMMA OwnSlot ==
    ASSUME IInv, IdInv, NEW p \in Proc, Steady(p)
    PROVE  /\ logger_id[p] \in Slot
           /\ log_object[logger_id[p]].pid = p
<1>1. CASE p = Master
  BY <1>1, LoggerAssumption DEF IInv, SlotInv, IdInv, Slot
<1>2. CASE p # Master
  <2>1. p \in Worker /\ logger_id[p] \in Slot
    BY <1>2, Zenon DEF Proc, IInv, TypeOK
  <2>2. pc[p] \in {"none", "alloc", "start", "end", "run", "desc", "write",
                   "publish", "zombie", "reaped"}
    BY <2>1, Zenon DEF IInv, TypeOK
  <2>3. p \in Running \/ pc[p] = "zombie"
    BY <1>2, <2>1, <2>2, Zenon DEF Steady, IdInv, Running
  <2> QED BY <1>2, <2>1, <2>3, Zenon DEF Steady, IdInv, IInv, SlotInv
<1> QED BY <1>1, <1>2, Zenon

\* The parts of a buffer.
LEMMA BufferOf ==
    ASSUME log_object \in [Slot -> Object], NEW k \in Slot
    PROVE  /\ log_object[k].start \in Cells /\ log_object[k].end \in Cells
           /\ log_object[k].elem \in [Cells -> Cell]
  BY Zenon DEF Object, Cell

\* The buffer after the step, given by its parts.
LEMMA Parts ==
    ASSUME NEW p, NEW s, NEW e, NEW x, Orderly(p, s, e, x)',
           s = log_object'[logger_id'[p]].start,
           e = log_object'[logger_id'[p]].end,
           x = log_object'[logger_id'[p]].elem
    PROVE  Orderly(p, log(p).start, log(p).end, log(p).elem)'
<1> USE DEF Orderly
<1>1. WriteInv(p, log(p).start, log(p).end, log(p).elem)'
  BY Zenon DEF WriteInv, log
<1>2. ReadInv(p, log(p).start, log(p).end, log(p).elem)'
  BY Zenon DEF ReadInv, log
<1>3. TakenInv(p, log(p).start, log(p).end, log(p).elem)'
  BY Zenon DEF TakenInv, log
<1>4. SortInv(p, log(p).start, log(p).end, log(p).elem)'
  BY Zenon DEF SortInv, log
<1>5. LogInv(p, log(p).start, log(p).end, log(p).elem)'
  BY Zenon DEF LogInv, log
<1> QED BY <1>1, <1>2, <1>3, <1>4, <1>5, Zenon

-----------------------------------------------------------------------------
(***************************************************************************)
(* What a step of the whole system has to show.                            *)
(***************************************************************************)

SameIndices(k) ==
    /\ log_object'[k].start = log_object[k].start
    /\ log_object'[k].end = log_object[k].end

\* The scan begins to read a buffer only if it has messages.
ReaderMoves(k) ==
    Reads(k)' => Reads(k) \/ log_object[k].start # log_object[k].end

\* A step that does nothing to the buffer of p and to its messages, but may
\* bring p to its next write or the scan to its next read.
Quiet(p) ==
    LET k == logger_id[p]
    IN  /\ SameIndices(k)
        /\ log_object'[k].elem = log_object[k].elem
        /\ p \in Worker =>
              /\ pc'[p] = "write" => pc[p] = "write" \/ ~cirbuf_is_full(log(p))
              /\ pc'[p] = "publish" => pc[p] = "publish"
                                       /\ logdesc'[p] = logdesc[p]
        /\ ReaderMoves(k)
        /\ Copied(k)' = Copied(k)
        /\ \A m \in accepted' : m[1] = p => m \in accepted
        /\ Logged' = Logged \/ \E m : LogStep(m) /\ ~By(p, m)
        /\ Latest(p) <= Latest(p)'

\* A quiet step keeps the messages of the process in order.
LEMMA QuietOrderly ==
    ASSUME IInv, IInv', NEW p \in Proc, logger_id'[p] = logger_id[p],
           Quiet(p), Orderly(p, log(p).start, log(p).end, log(p).elem)
    PROVE  Orderly(p, log(p).start, log(p).end, log(p).elem)'
<1>1. PICK s, e, x : /\ s = log_object[logger_id[p]].start
                     /\ e = log_object[logger_id[p]].end
                     /\ x = log_object[logger_id[p]].elem
  BY Zenon
<1>2. /\ s = log_object'[logger_id'[p]].start
      /\ e = log_object'[logger_id'[p]].end
      /\ x = log_object'[logger_id'[p]].elem
  BY <1>1, Zenon DEF Quiet, SameIndices
<1>3. /\ p \in Worker =>
              /\ pc'[p] = "write" => pc[p] = "write" \/ Next1(e) # s
              /\ pc'[p] = "publish" => pc[p] = "publish"
                                       /\ logdesc'[p] = logdesc[p]
      /\ Reads(logger_id[p])' => Reads(logger_id[p]) \/ s # e
      /\ Copied(logger_id[p])' = Copied(logger_id[p])
      /\ \A m \in accepted' : m[1] = p => m \in accepted
      /\ Logged' = Logged \/ \E m : LogStep(m) /\ ~By(p, m)
      /\ Latest(p) <= Latest(p)'
  BY <1>1, Zenon DEF Quiet, ReaderMoves, cirbuf_is_full, log
<1>4. Orderly(p, s, e, x)
  BY <1>1, Zenon DEF log
<1>5. \A c \in Cells : x[c] \in Msg \cup {Nil}
  <2>1. log_object \in [Slot -> Object] /\ logger_id[p] \in Slot
    BY ObjectType, Zenon DEF IInv, TypeOK
  <2> QED BY <1>1, <2>1, BufferOf, Zenon DEF Cell
<1>6. Orderly(p, s, e, x)'
  BY <1>3, <1>4, <1>5, OrderlyStays, Zenon
<1> QED BY <1>2, <1>6, Parts, Zenon

\* Who has messages: a step adds messages only of processes that have a slot,
\* and to a buffer only those of the process whose slot it is.
LEMMA AuthorStep ==
    ASSUME IInv, IInv', AuthorInv, IdInv, IdInv',
           \A v \in Proc : logger_id[v] # 0 => logger_id'[v] = logger_id[v],
           \A m \in accepted' : m \in accepted \/ Known(m)',
           \/ Logged' = Logged
           \/ \E m : LogStep(m) /\ (m \in Msg => Known(m)),
           \A m \in Msg, k \in Slot, c \in Cells : log_object'[k].elem[c] = m =>
              \/ log_object[k].elem[c] = m
              \/ Known(m)' /\ logger_id'[m[1]] = k
    PROVE  AuthorInv'
<1> USE DEF AuthorInv
<1> SUFFICES ASSUME NEW m \in Msg
             PROVE  /\ m \in accepted' \/ InLog(m)' => Known(m)'
                    /\ \A k \in Slot, c \in Cells : log_object'[k].elem[c] = m
                          => Known(m)' /\ logger_id'[m[1]] = k
  BY Zenon
<1>1. m[1] \in Proc
  BY Zenon DEF Msg
<1>2. Known(m) => Known(m)' /\ logger_id'[m[1]] = logger_id[m[1]]
  BY <1>1, Zenon DEF Known, IdInv
<1>3. InLog(m)' => Known(m)
  <2>1. CASE Logged' = Logged
    BY <2>1, Zenon DEF InLog
  <2>2. ASSUME NEW l, LogStep(l), l \in Msg => Known(l), InLog(m)'
        PROVE  Known(m)
    <3>1. InLog(m) \/ m = l
      BY <2>2, LogTypes DEF LogStep, InLog
    <3> QED BY <2>2, <3>1, Zenon
  <2> QED BY <2>1, <2>2, Zenon
<1> QED BY <1>2, <1>3

\* A slot that no process has had stays as log_init left it.
LEMMA UnusedStep ==
    ASSUME UnusedInv, logger_id' = logger_id,
           \A k \in Slot \ {0} : (\A v \in Worker : logger_id[v] # k) =>
              SameIndices(k) /\ ReaderMoves(k)
    PROVE  UnusedInv'
  BY Zenon DEF UnusedInv, SameIndices, ReaderMoves

\* Every process with a buffer of its own is covered, if the step is quiet for it
\* or handles its buffer.
LEMMA QueueStep ==
    ASSUME IInv, IInv', QueueInv, logger_id' = logger_id,
           \A w \in Worker : pc[w] = "reaped" => pc'[w] = "reaped",
           \A p \in Proc : Steady(p) =>
              Quiet(p) \/ Orderly(p, log(p).start, log(p).end, log(p).elem)'
    PROVE  QueueInv'
<1>1. \A p \in Proc : Steady(p)' => Steady(p)
  BY Zenon DEF Steady, Proc
<1>2. ASSUME NEW p \in Proc, Steady(p)'
      PROVE  Orderly(p, log(p).start, log(p).end, log(p).elem)'
  <2>1. Orderly(p, log(p).start, log(p).end, log(p).elem)
    BY <1>1, <1>2, Zenon DEF QueueInv
  <2> QED BY <1>1, <1>2, <2>1, QuietOrderly, Zenon
<1> QED BY <1>2, Zenon DEF QueueInv

=============================================================================
