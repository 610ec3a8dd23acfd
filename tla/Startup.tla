------------------------------ MODULE Startup ------------------------------
(***************************************************************************)
(* The commands start and stop, src/src/main.c, and what start does until  *)
(* the master and its workers run: read and check the configuration, lay   *)
(* out the shared page, listen, write the pid file.  Several starts may    *)
(* run at once, next to one stop command.                                  *)
(*                                                                         *)
(* The file is a sequence of parsed lines and stays as it is.  A value is  *)
(* the word "default", "number" (the others, by what atoi makes of them),  *)
(* "too_long", or "unknown" for a log level that is none.  A daemon stands *)
(* for its pid.                                                            *)
(***************************************************************************)
EXTENDS Conf, MemCache, FiniteSets

CONSTANTS Daemon,      \* the start commands
          Files,       \* the configuration files
          PageKbytes,  \* page size
          NCpu,        \* number of processors
          Absent, Empty, Nobody

VARIABLES file,
          pc,          \* where a daemon is in main
          shm,         \* its shared page
          listening,   \* the daemons whose socket listens
          pidfile,     \* Absent, Empty, or the pid in it
          stop,        \* the pid the stop command has read, or Nobody
          told,        \* the masters that have got SIGQUIT
          worker       \* the state of a daemon's workers

vars == <<file, pc, shm, listening, pidfile, stop, told, worker>>

NoShm == [offset |-> 0, regions |-> <<>>]

Init ==
    /\ file \in Files
    /\ pc = [d \in Daemon |-> "off"] /\ shm = [d \in Daemon |-> NoShm]
    /\ listening = {} /\ pidfile = Absent
    /\ stop = Nobody /\ told = {} /\ worker = [d \in Daemon |-> "none"]

-----------------------------------------------------------------------------
(***************************************************************************)
(* The configuration, src/src/env.c.                                       *)
(***************************************************************************)
MAX_WORKER_PROCESS == 64

config == load_conf(file)
value(key) == get_conf_entry(config, key).value
has(key) == get_conf_entry(config, key).ret = 0

g_worker_processes ==
    IF value("worker_processes").word = "default" THEN NCpu
    ELSE value("worker_processes").n
g_worker_connections == value("worker_connections").n

\* atoi(c) * 1024 is an int: in KiB it keeps 22 bits.
kbytes(n) == ((n + 2 ^ 21) % 2 ^ 22) - 2 ^ 21
align(x) == ((x + PageKbytes - 1) \div PageKbytes) * PageKbytes
g_coro_stack_kbytes ==
    IF value("coroutine_stack_kbytes").word = "default" THEN PageKbytes
    ELSE align(kbytes(value("coroutine_stack_kbytes").n))

g_server_port == value("listen").n

\* Mutant: no limit.
worker_processes_admitted_unlimited == g_worker_processes >= 0

worker_processes_admitted ==
    g_worker_processes >= 0 /\ g_worker_processes <= MAX_WORKER_PROCESS

\* load_conf and conf_env_init come to their end.
conf_env_admits ==
    /\ \A e \in Range(config) : e.value.word # "too_long"
    /\ has("log_path") /\ has("log_level")
    /\ has("worker_processes") /\ worker_processes_admitted
    /\ has("worker_connections") /\ g_worker_connections > 0
    /\ has("coroutine_stack_kbytes")
    /\ g_coro_stack_kbytes > 0 /\ g_coro_stack_kbytes <= 10240
    /\ has("listen") /\ g_server_port > 0

-----------------------------------------------------------------------------
(***************************************************************************)
(* The shared page, src/src/util/shm.c, in bytes as on a 64-bit machine.   *)
(***************************************************************************)
MEM_ALIGN == 8
sizeof_spinlock == 72                    \* start, padding, ticket
sizeof_shm == 24 + sizeof_spinlock
sizeof_logger == 56                      \* pid, need_init, struct cirbuf
ROUND_UP(x) == ((x + MEM_ALIGN - 1) \div MEM_ALIGN) * MEM_ALIGN

shm_alloc_fails(s, size) == s.offset + ROUND_UP(size) > PageKbytes * 1024
shm_alloc(s, size) ==
    [offset |-> s.offset + ROUND_UP(size),
     regions |-> Append(s.regions, [at |-> s.offset, size |-> size])]

-----------------------------------------------------------------------------
(***************************************************************************)
(* start.                                                                  *)
(***************************************************************************)
goto(d, where) == pc' = [pc EXCEPT ![d] = where]

start(d) ==
    /\ pc[d] = "off"
    /\ goto(d, IF conf_env_admits THEN "shm_init" ELSE "refused")
    /\ UNCHANGED <<file, shm, listening, pidfile, stop, told, worker>>

shm_init(d) ==
    /\ pc[d] = "shm_init"
    /\ goto(d, "log_init")
    /\ shm' = [shm EXCEPT ![d] = shm_alloc(NoShm, sizeof_shm)]
    /\ UNCHANGED <<file, listening, pidfile, stop, told, worker>>

log_str_level_knows == value("log_level").word # "unknown"

\* The result of the first shm_alloc is not looked at.
log_init(d) ==
    /\ pc[d] = "log_init"
    /\ LET lock == shm_alloc(shm[d], sizeof_spinlock)
           size == sizeof_logger * (g_worker_processes + 1)
       IN  IF ~log_str_level_knows THEN goto(d, "failed") /\ UNCHANGED shm
           ELSE IF shm_alloc_fails(shm[d], sizeof_spinlock) \/ shm_alloc_fails(lock, size)
           THEN goto(d, "no_memory") /\ UNCHANGED shm
           ELSE goto(d, "bind") /\ shm' = [shm EXCEPT ![d] = shm_alloc(lock, size)]
    /\ UNCHANGED <<file, listening, pidfile, stop, told, worker>>

\* htons keeps 16 bits; port 0 is any free port.
sin_port == g_server_port % 2 ^ 16
\* With SO_REUSEADDR only a socket that listens is in the way.
port_free(d) == sin_port = 0 \/ listening \subseteq {d}

bind(d) ==
    /\ pc[d] = "bind"
    /\ goto(d, IF port_free(d) THEN "listen" ELSE "in_use")
    /\ UNCHANGED <<file, shm, listening, pidfile, stop, told, worker>>

\* Mutant: the result of listen is not looked at.
listen_unchecked(d) ==
    /\ pc[d] = "listen"
    /\ goto(d, "open_pidfile") /\ listening' = listening \cup {d}
    /\ shm' = [shm EXCEPT ![d] = shm_alloc(shm[d], sizeof_spinlock)]
    /\ UNCHANGED <<file, pidfile, stop, told, worker>>

\* listen, and the accept_lock of tcp_srv_init.
listen(d) ==
    /\ pc[d] = "listen"
    /\ IF ~port_free(d) THEN goto(d, "in_use") /\ UNCHANGED <<shm, listening>>
       ELSE IF shm_alloc_fails(shm[d], sizeof_spinlock)
       THEN goto(d, "no_memory") /\ UNCHANGED <<shm, listening>>
       ELSE /\ goto(d, "open_pidfile") /\ listening' = listening \cup {d}
            /\ shm' = [shm EXCEPT ![d] = shm_alloc(shm[d], sizeof_spinlock)]
    /\ UNCHANGED <<file, pidfile, stop, told, worker>>

\* process_init: fopen has emptied the file, fclose writes the pid to it.
open_pidfile(d) ==
    /\ pc[d] = "open_pidfile"
    /\ goto(d, "write_pidfile") /\ pidfile' = Empty
    /\ UNCHANGED <<file, shm, listening, stop, told, worker>>
write_pidfile(d) ==
    /\ pc[d] = "write_pidfile"
    /\ goto(d, "master") /\ pidfile' = d
    /\ UNCHANGED <<file, shm, listening, stop, told, worker>>

\* fork, malloc, mmap, open, socket or fopen fails: exit(0).
system_call_fails(d) ==
    /\ pc[d] \in {"shm_init", "log_init", "bind", "listen", "open_pidfile"}
    /\ goto(d, "failed") /\ listening' = listening \ {d}
    /\ UNCHANGED <<file, shm, pidfile, stop, told, worker>>

-----------------------------------------------------------------------------
(***************************************************************************)
(* The workers, as far as worker_process_cycle initialises them, and the   *)
(* end of the server (Process has them one by one).                        *)
(***************************************************************************)
\* worker_process_init of http.c; a negative number is a large size_t.
header_buffer_admitted ==
    \/ value("client_header_buffer_kbytes").word = "default"
    \/ value("client_header_buffer_kbytes").n \in 1..4

\* http_request_init and schedule_init.
asserts_hold ==
    /\ create_asserts(g_worker_connections)
    /\ g_worker_connections >= 2 /\ create_asserts(g_worker_connections \div 2)

worker_process_cycle(d) ==
    /\ pc[d] = "master" /\ worker[d] = "none" /\ g_worker_processes > 0
    /\ worker' = [worker EXCEPT ![d] =
                    CASE ~has("client_header_buffer_kbytes") -> "exited"
                      [] has("client_header_buffer_kbytes") ->
                           IF ~header_buffer_admitted THEN "exited"
                           ELSE IF asserts_hold THEN "serving" ELSE "aborted"]
    /\ UNCHANGED <<file, pc, shm, listening, pidfile, stop, told>>

\* The last worker ends; without the master the port is free only now.  Only
\* after a stop is it the end of the server, otherwise others follow.
workers_end(d) ==
    /\ worker[d] \in {"serving", "exited", "aborted"}
    /\ worker' = [worker EXCEPT ![d] = IF d \in told THEN "all_workers_exit"
                                       ELSE "none"]
    /\ listening' = IF pc[d] = "killed" THEN listening \ {d} ELSE listening
    /\ UNCHANGED <<file, pc, shm, pidfile, stop, told>>

\* Where no workers are configured nothing leads here: no SIGCHLD comes.
delete_pidfile(d) ==
    /\ pc[d] = "master" /\ worker[d] = "all_workers_exit"
    /\ goto(d, "exit") /\ pidfile' = Absent
    /\ UNCHANGED <<file, shm, listening, stop, told, worker>>

master_exits(d) ==
    /\ pc[d] = "exit"
    /\ goto(d, "ended") /\ listening' = listening \ {d}
    /\ UNCHANGED <<file, shm, pidfile, stop, told, worker>>

\* SIGKILL: the file stays, and so do the workers with their socket.
master_killed(d) ==
    /\ pc[d] = "master"
    /\ goto(d, "killed")
    /\ listening' = IF worker[d] \in {"none", "all_workers_exit"}
                     THEN listening \ {d} ELSE listening
    /\ UNCHANGED <<file, shm, pidfile, stop, told, worker>>

-----------------------------------------------------------------------------
(***************************************************************************)
(* stop.                                                                   *)
(***************************************************************************)
\* Mutant: the result of fgets is not looked at.
read_pidfile_unchecked ==
    /\ stop = Nobody /\ pidfile # Absent /\ stop' = pidfile
    /\ UNCHANGED <<file, pc, shm, listening, pidfile, told, worker>>

\* Without a file, or with an empty one, the command ends.
read_pidfile ==
    /\ stop = Nobody /\ pidfile \in Daemon /\ stop' = pidfile
    /\ UNCHANGED <<file, pc, shm, listening, pidfile, told, worker>>

\* kill of send_signal; pids are not used again.
send_signal ==
    /\ stop # Nobody
    /\ told' = told \cup ({stop} \cap {d \in Daemon : pc[d] = "master"})
    /\ stop' = Nobody
    /\ UNCHANGED <<file, pc, shm, listening, pidfile, worker>>

main(d) == start(d) \/ shm_init(d) \/ log_init(d) \/ bind(d) \/ listen(d)
           \/ open_pidfile(d) \/ write_pidfile(d) \/ system_call_fails(d)

Next ==
    \/ \E d \in Daemon : \/ main(d) \/ worker_process_cycle(d) \/ workers_end(d)
                         \/ delete_pidfile(d) \/ master_exits(d) \/ master_killed(d)
    \/ read_pidfile \/ send_signal

Spec == Init /\ [][Next]_vars

-----------------------------------------------------------------------------
\* Keys and values are read as they are written, and of two lines with one key
\* the last one counts (parse_conf, load_conf, get_conf_entry).
ConfIsRead ==
    pc = [d \in Daemon |-> "off"] =>
        /\ ParsesWhatIsWritten(2)
        /\ \A i \in DOMAIN file :
              (/\ file[i].ret = 0
               /\ \A j \in (i + 1)..Len(file) :
                     file[j].key # file[i].key \/ file[j].ret # 0)
                  => value(file[i].key) = file[i].value

\* As long as the configuration names a real port, the pid file holds the pid
\* of the master that runs: a second start fails on the port before it touches
\* the file, and the master deletes the file before it gives up the port.
PidfileNamesMaster ==
    \A d \in Daemon : (pc[d] = "master" /\ sin_port # 0) => pidfile = d

\* stop signals nobody but a daemon that has become master, also when it reads
\* the file while start is writing it (kill of pid 0 would hit the whole group
\* of the command).
StopHitsMaster ==
    stop # Nobody => /\ stop \in Daemon
                     /\ pc[stop] \in {"master", "exit", "ended", "killed"}

\* Whatever number of workers is admitted, the locks and the log slots fit in
\* the one shared page, apart from each other (MAX_WORKER_PROCESS against
\* shm_alloc, whose first result log_init does not check).
PageSuffices ==
    \A d \in Daemon :
        /\ pc[d] # "no_memory"
        /\ \A i, j \in DOMAIN shm[d].regions :
              LET a == shm[d].regions[i]
                  b == shm[d].regions[j]
              IN  /\ a.at % MEM_ALIGN = 0
                  /\ a.at + a.size <= PageKbytes * 1024
                  /\ i < j => a.at + a.size <= b.at

\* A stack is a whole number of pages, at least what the file asks for unless
\* its bytes overflow an int, and at most 10 MiB (set_worker_env).
StackIsWhole ==
    \A d \in Daemon : pc[d] = "master" =>
        /\ g_coro_stack_kbytes % PageKbytes = 0
        /\ g_coro_stack_kbytes \in PageKbytes..10240
        /\ value("coroutine_stack_kbytes").n \in 1..(2 ^ 21 - 1) =>
              g_coro_stack_kbytes >= value("coroutine_stack_kbytes").n

\* With an admitted configuration workers abort exactly if they have fewer than
\* four connections (the assertions of memcache_create and schedule_init
\* against the limit of set_worker_env).
AbortsBelowFour ==
    \A d \in Daemon : /\ worker[d] = "aborted" => g_worker_connections < 4
                      /\ worker[d] = "serving" => g_worker_connections >= 4

\* What conf_env_init admits is enough for the server to run, but for the
\* workers with fewer than four connections.
AdmittedSuffices == PageSuffices /\ StackIsWhole /\ AbortsBelowFour

=============================================================================
