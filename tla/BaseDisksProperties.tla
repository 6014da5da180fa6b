------------------------ MODULE BaseDisksProperties ------------------------
(* What the disks of a host's boxes promise (see BaseDisks). *)
EXTENDS BaseDisks

(* Every variable stays in its domain. *)
TypeOK ==
    /\ DOMAIN files \subseteq Paths
    /\ \A p \in DOMAIN files : files[p] \in [back : Paths \union {NoPath}, sound : BOOLEAN]
    /\ dirs \subseteq Boxes /\ rows \subseteq dirs
    /\ snaps \subseteq Boxes \X Names
    /\ DOMAIN bases \subseteq Bases /\ \A k \in DOMAIN bases : bases[k] \in Boxes
    /\ refs \subseteq Bases \X Boxes
    /\ marker \in [Boxes -> Names \union {NoName}]
    /\ op \in [Boxes -> [at : OpSteps, name : Names \union {NoName}, base : Bases \union {NoName},
                         dest : Boxes \union {NoName}, staged : SUBSET Boxes]]
    /\ rem \in [Boxes -> [at : RemSteps, todo : SUBSET Bases]]
    /\ torn \in BOOLEAN /\ load \in Loads

\* The file p and everything below it is what it was built on, to the end of
\* the chain however long it is.
Whole(p) ==
    LET below[i \in 0..Cardinality(Paths)] ==
            IF i = 0 THEN p ELSE Under(files, below[i - 1])
        chain == {below[i] : i \in 0..Cardinality(Paths)} \ {NoPath}
    IN  Exists(p) /\ \A q \in chain : files[q].sound

\* Inside an operation the disk may be on its way.
Between == {"snap_moved", "restoring", "clone_moved"}

(* A box at rest has its disk, and every file the disk is built on is there  *)
(* and is the one it was built on: no snapshot, base or box was removed,     *)
(* collected or overwritten under it, by whatever interleaving of other      *)
(* boxes' operations, crashes inside a snapshot or a removal included. It is *)
(* not claimed where a crash falls inside a clone or a restore, the child of *)
(* a fork fails, a removal races or is forced, a snapshot takes a used name, *)
(* or a reference is not recorded (snapshot_mgr.rs:193, base_disk.rs:333,    *)
(* rt_impl.rs:1724, local_snapshot.rs:181).                                  *)
DisksWhole ==
    \A b \in rows : op[b].at \notin Between => Whole(Disk(b))

(* A snapshot that is listed can be restored: its file is there and whole,   *)
(* though boxes, bases and other snapshots come and go (snapshot_mgr.rs:193, *)
(* base_disk.rs:178).                                                        *)
SnapshotsWhole ==
    \A s \in snaps : s[1] \in rows => Whole(Snap(s[1], s[2]))

(* Whatever a box or a snapshot is built on stays.                           *)
FilesWhole == DisksWhole /\ SnapshotsWhole

(* A base is kept for somebody: once no operation is under way, every base   *)
(* file has its row and a living box that refers to it, unless a removal was *)
(* left half done, by a crash inside it or by a recovery that deletes        *)
(* remove-on-stop boxes itself (base_disk.rs:333, rt_impl.rs:1072, 1346).    *)
BasesCollected ==
    (~torn /\ op = [b \in Boxes |-> Idle] /\ Removing = {}) =>
        \A k \in Bases :
            Exists(Base(k)) \/ k \in DOMAIN bases =>
                /\ k \in DOMAIN bases /\ Exists(Base(k))
                /\ \E c \in rows : <<k, c>> \in refs

(* A base is deleted when nothing is built on it, whoever decided so: the    *)
(* references say no less than the files (base_disk.rs:349, 246).            *)
NeverUnderfoot ==
    [][\A k \in Bases :
        Exists(Base(k)) /\ Base(k) \notin DOMAIN files' =>
            \A b \in rows : Base(k) \notin Chain(files, Disk(b))]_vars

-----------------------------------------------------------------------------
(* Statements of the code that its behaviour contradicts.                    *)

(* "Remove marker on success" (local_snapshot.rs:66): a disk that was moved  *)
(* aside is on its way back, or the marker still says where it went, so that *)
(* no failure of a snapshot loses it.                                        *)
DiskAtHand ==
    \A b \in rows :
        Exists(Disk(b)) \/ op[b].at \in Between \/ marker[b] # NoName
=============================================================================
