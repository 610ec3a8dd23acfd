------------------------------- MODULE Logger -------------------------------
(***************************************************************************)
(* The logger of src/src/logger.c: every process writes to a circular      *)
(* buffer in shared memory, and the master copies the buffers to the log   *)
(* file.  Buffers are handed out when a worker starts and taken back after *)
(* the master has seen it end (SIGCHLD, signal.c).                         *)
(*                                                                         *)
(* A worker is one life of a worker process; a process that replaces one   *)
(* that ended is another worker.  A message is a pair: its author and how  *)
(* many it wrote before; a message above the log level is never composed.  *)
(* The page in front of the file has room for PageRoom messages.           *)
(***************************************************************************)
EXTENDS CirBuf, Sequences, FiniteSets

CONSTANTS
    Worker,          \* lives of worker processes
    Master,
    Nil,             \* pid 0, and the lock when it is free
    LoggerNum,       \* logger_num: worker_processes + 1
    PageRoom,        \* messages that fit in flush_page
    MaxMsg,          \* bound: messages per process
    SignalsLog       \* may a signal make a worker log (INFO in its handler)?

ASSUME LoggerAssumption ==
    /\ Master \notin Worker
    /\ Nil \notin Worker \cup {Master}
    /\ LoggerNum \in Nat \ {0}
    /\ PageRoom \in Nat \ {0}
    /\ MaxMsg \in Nat
    /\ Nil \notin (Worker \cup {Master}) \X (1..MaxMsg)
    /\ SignalsLog \in BOOLEAN

VARIABLES
    log_object,    \* the slots: pid, need_init and the buffer
    logger_lock,
    logger_id,     \* per process
    pc,            \* where a worker is
    logdesc,       \* the static logdesc of a process
    mpc,           \* where the master is
    index,         \* its loop variable in log_scan_write
    flush_page,    \* messages it has read and not yet written
    written,       \* the log file
    sent,          \* ghost: how many messages a process has composed
    accepted       \* ghost: messages whose cirbuf_write returned 0

workerVars == <<logger_lock, logger_id, pc, logdesc>>
scanVars == <<mpc, index>>
fileVars == <<flush_page, written>>
masterVars == <<scanVars, fileVars>>
ghosts == <<sent, accepted>>
vars == <<log_object, workerVars, masterVars, ghosts>>

Proc == Worker \cup {Master}
Slot == 0..(LoggerNum - 1)
Msg == Proc \X (1..MaxMsg)

TypeOK ==
    /\ log_object \in [Slot -> [pid : Proc \cup {Nil}, need_init : BOOLEAN,
                                start : Cells, end : Cells,
                                elem : [Cells -> Msg \cup {Nil}]]]
    /\ logger_lock \in Worker \cup {Nil}
    /\ logger_id \in [Proc -> Slot]
    /\ pc \in [Worker -> {"none", "alloc", "start", "end", "run",
                          "desc", "write", "publish", "zombie", "reaped"}]
    /\ logdesc \in [Proc -> Msg \cup {Nil}]
    /\ mpc \in {"loop", "scan", "read", "copy", "advance", "check", "clear"}
    /\ index \in 0..LoggerNum
    /\ sent \in [Proc -> 0..MaxMsg]
    /\ accepted \subseteq Msg
    /\ Len(flush_page) <= PageRoom
    /\ flush_page \o written \in Seq(Msg \cup {Nil})

\* log_init, and the log_worker_alloc of the master in process_init.
Init ==
    /\ log_object = [k \in Slot |->
            [pid |-> IF k = 0 THEN Master ELSE Nil, need_init |-> FALSE,
             start |-> 0, end |-> 0, elem |-> [c \in Cells |-> Nil]]]
    /\ logger_lock = Nil
    /\ logger_id = [p \in Proc |-> 0]
    /\ pc = [w \in Worker |-> "none"]
    /\ logdesc = [p \in Proc |-> Nil]
    /\ mpc = "loop" /\ index = 0
    /\ sent = [p \in Proc |-> 0]
    /\ flush_page = <<>> /\ written = <<>>
    /\ accepted = {}

goto(w, l) == pc' = [pc EXCEPT ![w] = l]
log(p) == log_object[logger_id[p]]

-----------------------------------------------------------------------------
(***************************************************************************)
(* A worker starts: log_worker_alloc.                                      *)
(***************************************************************************)

\* The master forks between two scans, at most worker_processes at a time.
fork(w) ==
    /\ mpc = "loop"
    /\ pc[w] = "none"
    /\ Cardinality({v \in Worker : pc[v] \notin {"none", "reaped"}})
            < LoggerNum - 1
    /\ goto(w, "alloc")
    /\ UNCHANGED <<log_object, logger_lock, logger_id, logdesc, masterVars,
                   ghosts>>

Free(k) == log_object[k].pid = Nil

\* With the lock: a free slot gets the pid.  The master may release slots
\* behind the search, so it need not be the first free one.
alloc_takes(w, k) ==
    /\ pc[w] = "alloc"
    /\ logger_lock = Nil
    /\ Free(k)
    /\ logger_lock' = w
    /\ log_object' = [log_object EXCEPT ![k].pid = w, ![k].need_init = FALSE]
    /\ goto(w, "start")
    /\ UNCHANGED <<logger_id, logdesc, masterVars, ghosts>>

\* cirbuf_init: queue->start = 0,
init_start(w, k) ==
    /\ pc[w] = "start" /\ log_object[k].pid = w
    /\ log_object' = [log_object EXCEPT ![k].start = 0]
    /\ goto(w, "end")
    /\ UNCHANGED <<logger_lock, logger_id, logdesc, masterVars, ghosts>>

\* queue->end = 0; then logger_id is set and the lock released.
init_end(w, k) ==
    /\ pc[w] = "end" /\ log_object[k].pid = w
    /\ log_object' = [log_object EXCEPT ![k].end = 0]
    /\ logger_id' = [logger_id EXCEPT ![w] = k]
    /\ logger_lock' = Nil
    /\ goto(w, "run")
    /\ UNCHANGED <<logdesc, masterVars, ghosts>>

\* No free slot: the process exits.
alloc_fails(w) ==
    /\ pc[w] = "alloc"
    /\ logger_lock = Nil
    /\ \A k \in Slot : ~Free(k)
    /\ goto(w, "zombie")
    /\ UNCHANGED <<log_object, logger_lock, logger_id, logdesc, masterVars,
                   ghosts>>

-----------------------------------------------------------------------------
(***************************************************************************)
(* A worker logs: log_out.                                                 *)
(***************************************************************************)
log_out(w) ==
    /\ pc[w] = "run"
    /\ sent[w] < MaxMsg
    /\ sent' = [sent EXCEPT ![w] = @ + 1]
    /\ logdesc' = [logdesc EXCEPT ![w] = <<w, sent[w] + 1>>]
    /\ goto(w, "desc")
    /\ UNCHANGED <<log_object, logger_lock, logger_id, masterVars, accepted>>

\* cirbuf_write: a full buffer drops the message.
write_check(w) ==
    /\ pc[w] = "desc"
    /\ goto(w, IF cirbuf_is_full(log(w)) THEN "run" ELSE "write")
    /\ UNCHANGED <<log_object, logger_lock, logger_id, logdesc, masterVars,
                   ghosts>>

log_write(w) ==
    /\ pc[w] = "write"
    /\ log_object' = [log_object EXCEPT ![logger_id[w]] = fill(@, logdesc[w])]
    /\ goto(w, "publish")
    /\ UNCHANGED <<logger_lock, logger_id, logdesc, masterVars, ghosts>>

write_done(w) ==
    /\ pc[w] = "publish"
    /\ log_object' = [log_object EXCEPT ![logger_id[w]] = publish(@)]
    /\ accepted' = accepted \cup {logdesc[w]}
    /\ goto(w, "run")
    /\ UNCHANGED <<logger_lock, logger_id, logdesc, masterVars, sent>>

\* A whole log_out inside a signal handler of p: the slots after it.  Only p
\* itself and the master's reads can tell its steps apart; p waits, and the
\* reads see the cell when it is published.
NestedLog(p) ==
    LET m == <<p, sent[p] + 1>>
    IN  IF cirbuf_is_full(log(p)) THEN log_object
        ELSE [log_object EXCEPT ![logger_id[p]] = publish(fill(@, m))]

nested_log_out(p) ==
    /\ sent[p] < MaxMsg
    /\ sent' = [sent EXCEPT ![p] = @ + 1]
    /\ logdesc' = [logdesc EXCEPT ![p] = <<p, sent[p] + 1>>]
    /\ accepted' = IF cirbuf_is_full(log(p)) THEN accepted
                   ELSE accepted \cup {<<p, sent[p] + 1>>}

\* worker_signal_handler: SIGQUIT, SIGTERM or SIGINT at any time.  Before
\* init_end the process still has the master's logger_id.
worker_signal_handler(w) ==
    /\ SignalsLog
    /\ pc[w] \notin {"none", "zombie", "reaped"}
    /\ log_object' = NestedLog(w)
    /\ nested_log_out(w)
    /\ UNCHANGED <<logger_lock, logger_id, pc, masterVars>>

\* A worker exits or crashes, though not while it has the lock.
worker_ends(w) ==
    /\ pc[w] \in {"alloc", "run", "desc", "write", "publish"}
    /\ goto(w, "zombie")
    /\ UNCHANGED <<log_object, logger_lock, logger_id, logdesc, masterVars,
                   ghosts>>

-----------------------------------------------------------------------------
(***************************************************************************)
(* The master: log_scan_write.                                             *)
(***************************************************************************)
\* The page goes to the file, and the page is left with rest.
log_flush(rest) == written' = written \o flush_page /\ flush_page' = rest

to_page(m) ==
    IF Len(flush_page) = PageRoom THEN log_flush(<<m>>)
    ELSE flush_page' = Append(flush_page, m) /\ UNCHANGED written

scan_starts ==
    /\ mpc = "loop"
    /\ mpc' = "scan" /\ index' = 0
    /\ UNCHANGED <<log_object, workerVars, fileVars, ghosts>>

scan_slot ==
    /\ mpc = "scan" /\ index < LoggerNum
    /\ IF log_object[index].pid = Nil
       THEN index' = index + 1 /\ UNCHANGED mpc
       ELSE mpc' = "read" /\ UNCHANGED index
    /\ UNCHANGED <<log_object, workerVars, fileVars, ghosts>>

\* Mutant: the page is left for the next scan.
scan_done_unflushed ==
    /\ mpc = "scan" /\ index = LoggerNum
    /\ mpc' = "loop" /\ index' = 0
    /\ UNCHANGED <<log_object, workerVars, fileVars, ghosts>>

scan_done ==
    /\ mpc = "scan" /\ index = LoggerNum
    /\ mpc' = "loop" /\ index' = 0
    /\ log_flush(<<>>)
    /\ UNCHANGED <<log_object, workerVars, ghosts>>

\* Mutant: the cell is given back before it is read.
read_check_gives_back ==
    /\ mpc = "read"
    /\ IF cirbuf_is_empty(log_object[index])
       THEN mpc' = "check" /\ UNCHANGED <<log_object, fileVars>>
       ELSE /\ log_object' = [log_object EXCEPT ![index] = release(@)]
            /\ to_page(front(log_object'[index]))
            /\ UNCHANGED mpc
    /\ UNCHANGED <<workerVars, index, ghosts>>

\* copy_to_cache: cirbuf_read,
read_check ==
    /\ mpc = "read"
    /\ mpc' = IF cirbuf_is_empty(log_object[index]) THEN "check" ELSE "copy"
    /\ UNCHANGED <<log_object, workerVars, index, fileVars, ghosts>>

log_read ==
    /\ mpc = "copy"
    /\ to_page(front(log_object[index]))
    /\ mpc' = "advance"
    /\ UNCHANGED <<log_object, workerVars, index, ghosts>>

\* Mutant: start is not advanced.
read_done_stays ==
    /\ mpc = "advance"
    /\ mpc' = "read"
    /\ UNCHANGED <<log_object, workerVars, index, fileVars, ghosts>>

read_done ==
    /\ mpc = "advance"
    /\ log_object' = [log_object EXCEPT ![index] = release(@)]
    /\ mpc' = "read"
    /\ UNCHANGED <<workerVars, index, fileVars, ghosts>>

\* Mutant: a slot is released once it has been read.
release_slot_always ==
    /\ mpc = "check"
    /\ log_object' = [log_object EXCEPT ![index].pid = Nil]
    /\ mpc' = "clear"
    /\ UNCHANGED <<index, workerVars, fileVars, ghosts>>

\* and, with need_init, log->pid = 0
release_slot ==
    /\ mpc = "check"
    /\ IF log_object[index].need_init
       THEN /\ log_object' = [log_object EXCEPT ![index].pid = Nil]
            /\ mpc' = "clear" /\ UNCHANGED index
       ELSE /\ mpc' = "scan" /\ index' = index + 1
            /\ UNCHANGED log_object
    /\ UNCHANGED <<workerVars, fileVars, ghosts>>

\* and log->need_init = false.
clear_need_init ==
    /\ mpc = "clear"
    /\ log_object' = [log_object EXCEPT ![index].need_init = FALSE]
    /\ mpc' = "scan" /\ index' = index + 1
    /\ UNCHANGED <<workerVars, fileVars, ghosts>>

log_scan_write ==
    \/ scan_starts \/ scan_slot \/ scan_done
    \/ read_check \/ log_read \/ read_done
    \/ release_slot \/ clear_need_init

\* SIGCHLD, between any two steps of the master: WARN, then
\* log_worker_flush_and_reset.
worker_process_get_status(w) ==
    /\ pc[w] = "zombie"
    /\ logger_lock = Nil
    /\ LET after == NestedLog(Master)
       IN  log_object' = [k \in Slot |->
              IF after[k].pid = w THEN [after[k] EXCEPT !.need_init = TRUE]
                                  ELSE after[k]]
    /\ nested_log_out(Master)
    /\ goto(w, "reaped")
    /\ UNCHANGED <<logger_lock, logger_id, masterVars>>

worker(w) ==
    \/ \E k \in Slot : alloc_takes(w, k) \/ init_start(w, k) \/ init_end(w, k)
    \/ alloc_fails(w)
    \/ log_out(w) \/ write_check(w) \/ log_write(w) \/ write_done(w)

Next ==
    \/ log_scan_write
    \/ \E w \in Worker :
          \/ fork(w) \/ worker(w) \/ worker_signal_handler(w)
          \/ worker_ends(w) \/ worker_process_get_status(w)

Spec == Init /\ [][Next]_vars

-----------------------------------------------------------------------------
Running == {w \in Worker : pc[w] \in {"run", "desc", "write", "publish"}}

Logged == written \o flush_page
InLog(m) == \E a \in 1..Len(Logged) : Logged[a] = m

\* The master, and a worker until it is reaped, if no other worker had its slot
\* before: the next one initialises the buffer while the master may read it.
Undisturbed(p) ==
    p = Master \/ /\ pc[p] # "reaped"
                  /\ \A v \in Worker \ {p} : logger_id[v] = logger_id[p]
                                                => logger_id[p] = 0

\* A slot has one writer at a time: a worker that runs has a slot with its
\* pid, other than the master's, that nobody else has, through every order of
\* exits, scans, releases and starts; and no flag is left that would release
\* it under its next process.
OneWriter ==
    /\ TypeOK
    /\ \A w \in Running :
          /\ log_object[logger_id[w]].pid = w
          /\ logger_id[w] # 0
          /\ \A v \in Running : logger_id[v] = logger_id[w] => v = w
    /\ \A k \in Slot : log_object[k].need_init =>
          log_object[k].pid \in {Nil} \cup {w \in Worker : pc[w] = "reaped"}

\* log_scan_write: the log has the messages of a process in the order it wrote
\* them, each at most once, unless its buffer had an earlier life.
InOrder ==
    \A a, b \in 1..Len(Logged) :
        a < b /\ Logged[a] \in Msg /\ Logged[b] \in Msg
              /\ Logged[a][1] = Logged[b][1] /\ Undisturbed(Logged[a][1])
            => Logged[a][2] < Logged[b][2]

\* A message that cirbuf_write took is in the file, in the page before it or in
\* the buffer of its process as long as the process is not reaped, although the
\* master reads the buffer without a lock; again unless the buffer had an
\* earlier life.
NoneLost ==
    \A m \in accepted :
        Undisturbed(m[1]) => m \in queued(log(m[1])) \/ InLog(m)

\* need_init: "if true, server would flush logs before termination".  When the
\* slot of a worker that ended is taken back, its messages are in the log.
FlushedBeforeReset ==
    \A m \in accepted :
        m[1] \in Worker /\ (\A k \in Slot : log_object[k].pid # m[1])
            => \E a \in 1..Len(Logged) : Logged[a] = m

\* The master keeps scanning.
FairSpec == Spec /\ WF_vars(log_scan_write)

\* Every message that was taken gets to the file, unless its process ends first
\* or had a used buffer: log_scan_write leaves nothing in the page.
Delivered ==
    \A m \in Msg : m \in accepted ~>
        (\E a \in 1..Len(written) : written[a] = m)
            \/ (m[1] \in Worker /\ pc[m[1]] \in {"zombie", "reaped"})
            \/ ~Undisturbed(m[1])

=============================================================================
