-------------------------- MODULE MCBoxReconciler --------------------------
(* BoxReconciler with its properties, for TLC. *)
EXTENDS BoxReconcilerProperties

Load(requests, reports, faults) ==
    [requests |-> requests, reports |-> reports, faults |-> faults]

\* Every fault once: in the jobs of two requests, or in those of one request
\* with a report of the runner in between. The last load lets a report of a
\* box that was never booted come when the box is stopped.
MCLoads ==
    {Load(2, 0, {f}) : f \in FaultNames \ {"again", "api", "unlock", "expiry", "overtaken"}}
        \union {Load(1, 1, {f}) : f \in FaultNames \ {"op", "runner", "expiry", "overtaken"}}
        \union {Load(1, 0, {"expiry"}), Load(2, 1, {"overtaken"}),
                Load(1, 1, {"op", "runner", "overtaken"})}
=============================================================================
