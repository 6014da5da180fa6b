----------------------------- MODULE BaseDisks -----------------------------
(* The disk files of a host's boxes and the records about them: snapshots,   *)
(* clones and the bases they share, removal, and recovery after a crash.     *)
(*                                                                           *)
(* A file is named by its path, as the qcow2 headers name their backing      *)
(* files. Contents are abstracted to one bit: a file is sound while its      *)
(* backing path still names the file it was created on.                      *)
(* The VM, the status checks and the quiesce bracket are in BoxLifecycle: a  *)
(* box is restored and removed here while it is stopped.                     *)
EXTENDS Naturals, FiniteSets

CONSTANTS
    Boxes,      \* box ids
    Bases,      \* ids of clone bases
    Names,      \* snapshot names
    NoPath,     \* no backing file
    NoName,     \* an operation without a snapshot name or a base
    MaxDepth,   \* MAX_BACKING_CHAIN_DEPTH
    MaxCalls,   \* a bound on the calls under way at a time
    Loads,      \* bounds on the boxes, bases and snapshots at a time, and whether
                \* the boxes are removed when they stop
    Faults      \* what may go wrong, a subset of FaultNames

FaultNames ==
    {"crash",         \* the runtime dies outside the following
     "crash_clone",   \* ... inside a clone
     "crash_restore", \* ... inside a restore
     "crash_remove",  \* ... inside a removal
     "child",         \* a COW child cannot be created
     "db",            \* the row of a snapshot or a box cannot be saved
     "base_db",       \* the row or a reference of a base cannot be saved
     "force",         \* a box is removed though clones depend on it
     "race",          \* a removal overlaps the box's operations or a clone into it
     "retry"}         \* a snapshot takes a name whose file still exists

ASSUME FaultsAssumption == Faults \subseteq FaultNames
ASSUME LoadsAssumption ==
    Loads \subseteq [boxes : Nat, bases : Nat, snaps : Nat, ephemeral : BOOLEAN]
ASSUME MaxDepthAssumption == MaxDepth \in Nat \ {0}

VARIABLES
    files,      \* path -> [back, sound], for the files that exist
    dirs,       \* boxes whose directory exists
    rows,       \* boxes with a row in box_config
    snaps,      \* rows of the snapshot table, <<box, name>>
    bases,      \* rows of base_disk: base -> its source box
    refs,       \* rows of base_disk_ref, <<base, box>>
    marker,     \* box -> the name in its .snapshot_pending, or NoName
    op,         \* box -> the operation that holds its disk_ops
    rem,        \* box -> how far remove_box got with it
    load,       \* the bounds of this behaviour, and what its boxes are
    torn        \* a removal has been left half done, by a crash or by recovery

vars == <<files, dirs, rows, snaps, bases, refs, marker, op, rem, torn, load>>

Disk(b) == <<"disk", b>>
Snap(b, n) == <<"snap", b, n>>
Base(k) == <<"base", k>>

DiskPaths == {Disk(b) : b \in Boxes}
BasePaths == {Base(k) : k \in Bases}
Home(b) == {Disk(b)} \union {Snap(b, n) : n \in Names}
Paths == BasePaths \union UNION {Home(b) : b \in Boxes}

ASSUME NoPathAssumption == NoPath \notin Paths
ASSUME NoNameAssumption == NoName \notin Boxes \union Bases \union Names

(* ------------------------------- files --------------------------------- *)

Exists(p) == p \in DOMAIN files

\* f with v at x.
With(f, x, v) == [y \in DOMAIN f \union {x} |-> IF y = x THEN v ELSE f[y]]

\* fs without ps. What was backed by one of them is not sound any more.
Without(fs, ps) ==
    [p \in DOMAIN fs \ ps |->
        IF fs[p].back \in ps THEN [fs[p] EXCEPT !.sound = FALSE] ELSE fs[p]]

\* rename(2): the target is replaced, and paths to the source go stale.
Renamed(fs, from, to) ==
    LET replaced == Without(fs, {to})
    IN  With(Without(replaced, {from}), to, replaced[from])

\* create_cow_child_disk: an existing child is returned as it is.
WithChild(fs, child, base) ==
    IF child \in DOMAIN fs THEN fs
    ELSE With(fs, child, [back |-> base, sound |-> base \in DOMAIN fs])

\* The backing path of the existing file p, if it exists itself.
Under(fs, p) ==
    IF p \in DOMAIN fs /\ fs[p].back \in DOMAIN fs THEN fs[p].back ELSE NoPath

\* read_backing_chain: the i-th path of the walk from p.
Walk(fs, p) ==
    LET at[i \in 0..MaxDepth] == IF i = 0 THEN p ELSE Under(fs, at[i - 1])
    IN  at

Chain(fs, p) == {Walk(fs, p)[i] : i \in 1..MaxDepth} \ {NoPath}

\* find_parent_base: the first base on the chain.
ParentBases(fs, p) ==
    {k \in Bases : \E i \in 1..MaxDepth :
        /\ Walk(fs, p)[i] = Base(k)
        /\ \A j \in 1..(i - 1) : Walk(fs, p)[j] \notin BasePaths}

(* ------------------------------ operations ------------------------------ *)

Idle == [at |-> "idle", name |-> NoName, base |-> NoName, dest |-> NoName, staged |-> {}]

CloneSteps == {"clone_moved", "clone_forked", "clone_inserted", "clone_based",
               "clone_staging", "clone_provisioned", "clone_staged"}
OpSteps == {"idle", "snap_marked", "snap_moved", "snap_forked", "snap_done",
            "snap_deleting", "restoring"} \union CloneSteps

Cloning(b) == op[b].at \in CloneSteps
RemSteps == {"no", "row", "refs", "disks"}
NotRemoving == [at |-> "no", todo |-> {}]

Init ==
    \E b \in Boxes :
        /\ files = [p \in {Disk(b)} |-> [back |-> NoPath, sound |-> TRUE]]
        /\ dirs = {b}
        /\ rows = {b}
        /\ snaps = {}
        /\ bases = [k \in {} |-> b]
        /\ refs = {}
        /\ marker = [c \in Boxes |-> NoName]
        /\ op = [c \in Boxes |-> Idle]
        /\ rem = [c \in Boxes |-> NotRemoving]
        /\ torn = FALSE
        /\ load \in Loads

Outcomes(fault) == IF fault \in Faults THEN BOOLEAN ELSE {TRUE}

Removing == {b \in Boxes : rem[b] # NotRemoving}

Underway == {b \in Boxes : op[b] # Idle} \union Removing

\* disk_ops is taken by one operation at a time. It belongs to the handle: a
\* box is reached through one handle here, while it has a row or is losing it.
Takes(b) ==
    /\ op[b] = Idle /\ Cardinality(Underway) < MaxCalls
    /\ b \in rows \/ (b \in Removing /\ "race" \in Faults)

(* --- snapshot_create --- *)

SnapMark(b, n) ==
    /\ Takes(b) /\ b \in dirs
    /\ Cardinality({m \in Names : <<b, m>> \in snaps}) < load.snaps
    /\ <<b, n>> \notin snaps
    /\ Exists(Snap(b, n)) => "retry" \in Faults
    /\ marker' = [marker EXCEPT ![b] = n]
    /\ op' = [op EXCEPT ![b] = [Idle EXCEPT !.at = "snap_marked", !.name = n]]
    /\ UNCHANGED <<files, dirs, rows, snaps, bases, refs, rem, torn, load>>

Step(b, at) == op' = [op EXCEPT ![b].at = at]

\* fork_qcow2's rename, the bracket around it left to BoxLifecycle.
SnapMove(b) ==
    /\ op[b].at = "snap_marked"
    /\ IF Exists(Disk(b))
       THEN /\ files' = Renamed(files, Disk(b), Snap(b, op[b].name))
            /\ Step(b, "snap_moved")
       ELSE UNCHANGED files /\ Step(b, "snap_done")
    /\ UNCHANGED <<dirs, rows, snaps, bases, refs, marker, rem, torn, load>>

SnapChild(b) ==
    /\ op[b].at = "snap_moved"
    /\ \E ok \in Outcomes("child") :
        IF ok
        THEN /\ files' = WithChild(files, Disk(b), Snap(b, op[b].name))
             /\ Step(b, "snap_forked")
        ELSE UNCHANGED files /\ Step(b, "snap_done")
    /\ UNCHANGED <<dirs, rows, snaps, bases, refs, marker, rem, torn, load>>

SnapSave(b) ==
    /\ op[b].at = "snap_forked"
    /\ \E ok \in Outcomes("db") :
        snaps' = snaps \union IF ok THEN {<<b, op[b].name>>} ELSE {}
    /\ Step(b, "snap_done")
    /\ UNCHANGED <<files, dirs, rows, bases, refs, marker, rem, torn, load>>

\* The marker goes, whatever the result.
SnapUnmark(b) ==
    /\ op[b].at = "snap_done"
    /\ marker' = [marker EXCEPT ![b] = NoName]
    /\ op' = [op EXCEPT ![b] = Idle]
    /\ UNCHANGED <<files, dirs, rows, snaps, bases, refs, rem, torn, load>>

(* --- snapshot_remove --- *)

NeededByListed(b, n) ==
    \E m \in Names \ {n} : <<b, m>> \in snaps /\ Snap(b, n) \in Chain(files, Snap(b, m))

\* Whether snapshot n of b may not go: the box's disk, another of its
\* snapshots or a base has it on its chain.
Needed(b, n) ==
    \E p \in {Disk(b)} \union {Snap(b, m) : m \in {m \in Names \ {n} : <<b, m>> \in snaps}}
             \union BasePaths :
        Snap(b, n) \in Chain(files, p)

SnapDelete(b, n) ==
    /\ Takes(b) /\ <<b, n>> \in snaps
    /\ ~Needed(b, n)
    /\ snaps' = snaps \ {<<b, n>>}
    /\ op' = IF Exists(Snap(b, n))
             THEN [op EXCEPT ![b] = [Idle EXCEPT !.at = "snap_deleting", !.name = n]]
             ELSE op
    /\ UNCHANGED <<files, dirs, rows, bases, refs, marker, rem, torn, load>>

SnapUnlink(b) ==
    /\ op[b].at = "snap_deleting"
    /\ files' = Without(files, {Snap(b, op[b].name)})
    /\ op' = [op EXCEPT ![b] = Idle]
    /\ UNCHANGED <<dirs, rows, snaps, bases, refs, marker, rem, torn, load>>

(* --- snapshot_restore --- *)

RestoreBegin(b, n) ==
    /\ Takes(b) /\ <<b, n>> \in snaps /\ Exists(Snap(b, n))
    /\ files' = Without(files, {Disk(b)})
    /\ op' = [op EXCEPT ![b] = [Idle EXCEPT !.at = "restoring", !.name = n]]
    /\ UNCHANGED <<dirs, rows, snaps, bases, refs, marker, rem, torn, load>>

RestoreChild(b) ==
    /\ op[b].at = "restoring"
    /\ \E ok \in Outcomes("child") :
        files' = IF ok THEN WithChild(files, Disk(b), Snap(b, op[b].name)) ELSE files
    /\ op' = [op EXCEPT ![b] = Idle]
    /\ UNCHANGED <<dirs, rows, snaps, bases, refs, marker, rem, torn, load>>

(* --- clone_boxes --- *)

\* Ids are minted at random, so never twice: one is free when nothing names it.
FreeBase(k) ==
    /\ Cardinality(DOMAIN bases) < load.bases
    /\ k \notin DOMAIN bases /\ ~Exists(Base(k))
    /\ \A p \in DOMAIN files : files[p].back # Base(k)
    /\ \A c \in Boxes : op[c].base # k /\ <<k, c>> \notin refs /\ k \notin rem[c].todo
FreeBox(d) ==
    /\ Cardinality(dirs) < load.boxes
    /\ d \notin rows \union dirs \union Underway
    /\ Home(d) \intersect DOMAIN files = {}
    /\ \A k \in Bases : <<k, d>> \notin refs /\ (k \in DOMAIN bases => bases[k] # d)
    /\ \A n \in Names : <<d, n>> \notin snaps

CloneMove(b, k) ==
    /\ Takes(b) /\ Exists(Disk(b)) /\ FreeBase(k)
    /\ files' = Renamed(files, Disk(b), Base(k))
    /\ op' = [op EXCEPT ![b] = [Idle EXCEPT !.at = "clone_moved", !.base = k]]
    /\ UNCHANGED <<dirs, rows, snaps, bases, refs, marker, rem, torn, load>>

CloneChild(b) ==
    /\ op[b].at = "clone_moved"
    /\ \E ok \in Outcomes("child") :
        IF ok
        THEN /\ files' = WithChild(files, Disk(b), Base(op[b].base))
             /\ Step(b, "clone_forked")
        ELSE /\ op' = [op EXCEPT ![b] = Idle]
             /\ UNCHANGED files
    /\ UNCHANGED <<dirs, rows, snaps, bases, refs, marker, rem, torn, load>>

CloneInsert(b) ==
    /\ op[b].at = "clone_forked"
    /\ \E ok \in Outcomes("base_db") :
        IF ok
        THEN bases' = With(bases, op[b].base, b) /\ Step(b, "clone_inserted")
        ELSE op' = [op EXCEPT ![b] = Idle] /\ UNCHANGED bases
    /\ UNCHANGED <<files, dirs, rows, snaps, refs, marker, rem, torn, load>>

CloneRef(b) ==
    /\ op[b].at = "clone_inserted"
    /\ \E ok \in Outcomes("base_db") :
        IF ok
        THEN refs' = refs \union {<<op[b].base, b>>} /\ Step(b, "clone_based")
        ELSE op' = [op EXCEPT ![b] = Idle] /\ UNCHANGED refs
    /\ UNCHANGED <<files, dirs, rows, snaps, bases, marker, rem, torn, load>>

CloneStageUnmade(b, d) ==
    /\ op[b].at \in {"clone_based", "clone_staging"}
    /\ FreeBox(d)
    /\ files' = WithChild(files, Disk(d), Base(op[b].base))
    /\ op' = [op EXCEPT ![b].at = "clone_staging", ![b].staged = @ \union {d}]
    /\ UNCHANGED <<dirs, rows, snaps, bases, refs, marker, rem, torn, load>>

\* Phase B, once per clone: a staging directory with an overlay. It lies in
\* boxes_dir from the start; here it has the new box's id from the start, too.
CloneStage(b, d) ==
    /\ op[b].at \in {"clone_based", "clone_staging"}
    /\ FreeBox(d)
    /\ dirs' = dirs \union {d}
    /\ files' = WithChild(files, Disk(d), Base(op[b].base))
    /\ op' = [op EXCEPT ![b].at = "clone_staging", ![b].staged = @ \union {d}]
    /\ UNCHANGED <<rows, snaps, bases, refs, marker, rem, torn, load>>

\* Phase C, once per clone: provision_box, and then its reference. A box that
\* cannot be persisted ends the call and leaves the other staging directories.
CloneProvision(b, d) ==
    /\ op[b].at \in {"clone_staging", "clone_staged"} /\ d \in op[b].staged
    /\ \E ok \in Outcomes("db") :
        IF ok
        THEN /\ rows' = rows \union {d}
             /\ op' = [op EXCEPT ![b].at = "clone_provisioned", ![b].dest = d,
                                 ![b].staged = @ \ {d}]
             /\ UNCHANGED <<files, dirs>>
        ELSE /\ files' = Without(files, Home(d))
             /\ dirs' = dirs \ {d}
             /\ op' = [op EXCEPT ![b] = Idle]
             /\ UNCHANGED rows
    /\ UNCHANGED <<snaps, bases, refs, marker, rem, torn, load>>

\* The reference of a clone; that it cannot be recorded is only logged.
CloneRefer(b) ==
    /\ op[b].at = "clone_provisioned"
    /\ \E ok \in Outcomes("base_db") :
        refs' = refs \union IF ok THEN {<<op[b].base, op[b].dest>>} ELSE {}
    /\ op' = IF op[b].staged = {} THEN [op EXCEPT ![b] = Idle]
             ELSE [op EXCEPT ![b].at = "clone_staged", ![b].dest = NoName]
    /\ UNCHANGED <<files, dirs, rows, snaps, bases, marker, rem, torn, load>>

(* --- remove_box --- *)

\* find_boxes_depending_on
Dependents(b) ==
    {c \in Boxes \ {b} : \E k \in DOMAIN bases : bases[k] = b /\ <<k, c>> \in refs}

Busy(b) ==
    \/ op[b] # Idle
    \/ \E c \in Boxes : Cloning(c) /\ (op[c].dest = b \/ b \in op[c].staged)

\* No lock of the box is taken.
RemoveRow(b) ==
    /\ b \in rows /\ Cardinality(Underway) < MaxCalls
    /\ Dependents(b) = {} \/ "force" \in Faults
    /\ Busy(b) => "race" \in Faults
    /\ rows' = rows \ {b}
    /\ rem' = [rem EXCEPT ![b] = [at |-> "row", todo |-> {}]]
    /\ UNCHANGED <<files, dirs, snaps, bases, refs, marker, op, torn, load>>

RemoveRefsUnlisted(b) ==
    /\ rem[b].at = "row"
    /\ rem' = [rem EXCEPT ![b] = [at |-> "refs", todo |-> {}]]
    /\ refs' = {r \in refs : r[2] # b}
    /\ UNCHANGED <<files, dirs, rows, snaps, bases, marker, op, torn, load>>

\* The affected bases are read before the references go.
RemoveRefs(b) ==
    /\ rem[b].at = "row"
    /\ rem' = [rem EXCEPT ![b] = [at |-> "refs", todo |-> {k \in Bases : <<k, b>> \in refs}]]
    /\ refs' = {r \in refs : r[2] # b}
    /\ UNCHANGED <<files, dirs, rows, snaps, bases, marker, op, torn, load>>

RemoveDisks(b) ==
    /\ rem[b].at = "refs"
    /\ files' = Without(files, Home(b))
    /\ snaps' = {s \in snaps : s[1] # b}
    /\ rem' = [rem EXCEPT ![b].at = "disks"]
    /\ UNCHANGED <<dirs, rows, bases, refs, marker, op, torn, load>>

CollectableAlways(k) == k \in DOMAIN bases

\* try_gc_base: a base goes if no box refers to it, and then its parent, and so
\* on: the least set that the recursion closes.
Collectable(k) == k \in DOMAIN bases /\ \A c \in Boxes : <<k, c>> \notin refs
Closed(K, k) ==
    /\ Collectable(k) => k \in K
    /\ \A c \in K : \A j \in ParentBases(files, Base(c)) : Collectable(j) => j \in K
Doomed(k) == {j \in Bases : \A K \in SUBSET Bases : Closed(K, k) => j \in K}

CollectBase(b, k) ==
    /\ rem[b].at = "disks" /\ k \in rem[b].todo
    /\ rem' = [rem EXCEPT ![b].todo = @ \ {k}]
    /\ bases' = [j \in DOMAIN bases \ Doomed(k) |-> bases[j]]
    /\ files' = Without(files, {Base(j) : j \in Doomed(k)})
    /\ UNCHANGED <<dirs, rows, snaps, refs, marker, op, torn, load>>

RemoveDir(b) ==
    /\ rem[b].at = "disks" /\ rem[b].todo = {}
    /\ files' = Without(files, Home(b))
    /\ dirs' = dirs \ {b}
    /\ marker' = [marker EXCEPT ![b] = NoName]
    /\ rem' = [rem EXCEPT ![b] = NotRemoving]
    /\ UNCHANGED <<rows, snaps, bases, refs, op, torn, load>>

(* ------------------------------ recovery ------------------------------- *)

\* recover_pending_snapshot, for every box that has a marker: a disk that was
\* moved and not replaced goes back, whatever else remains stays.
Restored(fs) ==
    LET back == {b \in rows : /\ marker[b] # NoName
                              /\ Disk(b) \notin DOMAIN fs
                              /\ Snap(b, marker[b]) \in DOMAIN fs}
        moved == {Snap(b, marker[b]) : b \in back}
        rest == Without(fs, moved)
    IN  [p \in {Disk(b) : b \in back} \union DOMAIN rest |->
            IF p \in DOMAIN rest THEN rest[p] ELSE fs[Snap(p[2], marker[p[2]])]]

\* gc_orphans: the settled base files that no row names and nothing is backed by.
Referenced(fs) == UNION {Chain(fs, p) : p \in DiskPaths \union BasePaths}
Orphans(fs) ==
    {Base(k) : k \in {k \in Bases \ DOMAIN bases :
        Base(k) \in DOMAIN fs /\ Base(k) \notin Referenced(fs)}}

\* Whether a crash is among the faults wherever the operations stand.
MayCrash ==
    /\ "crash" \in Faults
    /\ (\E b \in Boxes : Cloning(b)) => "crash_clone" \in Faults
    /\ (\E b \in Boxes : op[b].at = "restoring") => "crash_restore" \in Faults
    /\ Removing # {} => "crash_remove" \in Faults

\* removes_on_stop, an option of the box that its clones inherit: recovery
\* deletes such a box's directory and row and nothing else of it. (The active
\* box whose directory is missing needs a hand from outside, not modelled.)
Survivors == IF load.ephemeral THEN {} ELSE rows

\* The runtime dies at any point and recover_boxes runs at the next start:
\* directories without a row, boxes that are not kept, pending snapshots,
\* orphaned bases.
Restart ==
    /\ MayCrash
    /\ op' = [b \in Boxes |-> Idle]
    /\ rem' = [b \in Boxes |-> NotRemoving]
    /\ torn' = (torn \/ Removing # {} \/ Survivors # rows)
    /\ rows' = Survivors
    /\ dirs' = dirs \intersect Survivors
    /\ LET swept == Without(files, UNION {Home(b) : b \in Boxes \ Survivors})
           whole == Restored(swept)
       IN  \E settled \in SUBSET Orphans(whole) : files' = Without(whole, settled)
    /\ marker' = [b \in Boxes |-> NoName]
    /\ UNCHANGED <<snaps, bases, refs, load>>

(* ------------------------------------------------------------------------ *)

Operate(b) ==
    \/ \E n \in Names : SnapMark(b, n) \/ SnapDelete(b, n)
                        \/ RestoreBegin(b, n)
    \/ SnapMove(b) \/ SnapChild(b) \/ SnapSave(b) \/ SnapUnmark(b)
    \/ SnapUnlink(b) \/ RestoreChild(b)
    \/ \E k \in Bases : CloneMove(b, k)
    \/ CloneChild(b) \/ CloneInsert(b) \/ CloneRef(b) \/ CloneRefer(b)
    \/ \E d \in Boxes : CloneStage(b, d) \/ CloneProvision(b, d)
    \/ RemoveRow(b) \/ RemoveRefs(b) \/ RemoveDisks(b) \/ RemoveDir(b)
    \/ \E k \in Bases : CollectBase(b, k)

Next == (\E b \in Boxes : Operate(b)) \/ Restart

Spec == Init /\ [][Next]_vars
=============================================================================
