---------------------------- MODULE MCBaseDisks ----------------------------
(* BaseDisks with its properties, for TLC. *)
EXTENDS BaseDisksProperties, TLC

Load(b, k, s, e) == [boxes |-> b, bases |-> k, snaps |-> s, ephemeral |-> e]

SnapshotLoads == {Load(1, 0, 2, FALSE)}
MCLoads == {Load(3, 2, 0, FALSE), Load(2, 2, 2, FALSE), Load(2, 1, 1, TRUE)}

Symmetry == Permutations(Boxes) \union Permutations(Bases) \union Permutations(Names)
=============================================================================
