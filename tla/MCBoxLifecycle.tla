--------------------------- MODULE MCBoxLifecycle ---------------------------
(* The instances of BoxLifecycle that TLC checks. Handles are               *)
(* interchangeable, and so are shims: no action or property names one.      *)
EXTENDS BoxLifecycleProperties, TLC

Symmetry == Permutations(Handles) \cup Permutations(Shims)
=============================================================================
