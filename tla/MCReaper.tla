------------------------------ MODULE MCReaper ------------------------------
(* The instance of Reaper that TLC checks. It asks for liveness, so it takes *)
(* no symmetry.                                                              *)
EXTENDS ReaperProperties
=============================================================================
