\* Two start commands and any number of stop commands, on a machine with
\* pages of 4 KiB.  Commands end: the system may stop.
CONSTANTS
  Daemon = {d1, d2}
  Files <- MCFiles
  PageKbytes = 4
  NCpu = 2
  Absent = Absent
  Empty = Empty
  Nobody = Nobody
SPECIFICATION Spec
INVARIANTS ConfIsRead PidfileNamesMaster StopHitsMaster
           
CHECK_DEADLOCK FALSE
