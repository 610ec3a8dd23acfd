----------------------------- MODULE MCStartup -----------------------------
(***************************************************************************)
(* An instance of Startup for TLC: a good file, and files that differ from *)
(* it in one value, lack a line, or have a second line for a key.          *)
(***************************************************************************)
EXTENDS Startup

Entry(key, word, n) ==
    [key |-> key, value |-> [word |-> word, n |-> n], ret |-> 0]

Good == << Entry("log_path", "number", 0), Entry("log_level", "number", 0),
           Entry("worker_processes", "default", 0),
           Entry("worker_connections", "number", 1024),
           Entry("coroutine_stack_kbytes", "default", 0),
           Entry("listen", "number", 8081),
           Entry("client_header_buffer_kbytes", "default", 0) >>

Numbers == << {}, {}, {-1, 0, 1, 64, 65, 128}, {-1, 0, 1, 2, 3, 4, 100000},
              {-1, 0, 1, 4, 5, 10240, 10241, 2 ^ 22 + 1},
              {-1, 0, 1, 65535, 65536, 65537}, {-1, 0, 1, 4, 5} >>

Comment == [Entry("listen", "number", 1) EXCEPT !.ret = -1]
Changed(i, n) == Entry(Good[i].key, "number", n)

MCFiles ==
    {Good} \cup {RemoveAt(Good, i) : i \in DOMAIN Good}
    \cup UNION {{ReplaceAt(Good, i, Changed(i, n)) : n \in Numbers[i]} : i \in DOMAIN Good}
    \cup {ReplaceAt(Good, 2, Entry("log_level", "unknown", 0)),
          Append(Good, Changed(3, 2)), Append(Good, Changed(3, 65)),
          Append(Good, Comment), Append(Good, Entry("other", "too_long", 0))}

=============================================================================
