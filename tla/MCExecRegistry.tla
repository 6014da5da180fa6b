--------------------------- MODULE MCExecRegistry ---------------------------
(* The instance of ExecRegistry that TLC checks: the loads of one guest, each*)
(* small enough that every interleaving of it is explored.                   *)
EXTENDS ExecRegistryProperties

CONSTANTS t1, t2, timed, ssh, init, c, d, k, l

L(execs, clients, ops, faults, closers) ==
  [execs |-> execs, clients |-> clients, ops |-> ops, faults |-> faults,
   closers |-> closers]

MCLoads == {
  L({t1, t2}, {c, d}, {"attach"}, {}, {}),         \* retention and eviction
  L({t1}, {c, d}, {"attach"}, {"read", "drop"}, {k}), \* readers and shutdown
  L({timed}, {}, {"input"}, {"drop"}, {k}),        \* deadlines, stdin, drops
  L({t1, init}, {c, d}, {"wait", "kill"}, {}, {}), \* waits and the end of init
  L({init, ssh}, {c}, {"wait"}, {"drop"}, {k}),    \* the SSH bridge
  L({t1}, {c}, {"wait"}, {"drop"}, {k, l})}        \* two shutdowns
=============================================================================
