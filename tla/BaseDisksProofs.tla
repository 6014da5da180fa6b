-------------------------- MODULE BaseDisksProofs --------------------------
(* Theorems of BaseDisks: its types, bases that are collected and never      *)
(* underfoot, and files that stay whole.                                     *)
EXTENDS BaseDisksProperties, FiniteSetTheorems, WellFoundedInduction, TLAPS

(* Paths of different kinds differ, and a box's home is its own.             *)
LEMMA PathsApart ==
    /\ \A b, c : Disk(b) = Disk(c) => b = c
    /\ \A k, j : Base(k) = Base(j) => k = j
    /\ \A b, n, c, m : Snap(b, n) = Snap(c, m) => b = c /\ n = m
    /\ \A b, k : Disk(b) # Base(k)
    /\ \A b, c, n : Disk(b) # Snap(c, n)
    /\ \A b, n, k : Snap(b, n) # Base(k)
BY DEF Disk, Snap, Base

LEMMA Homes ==
    /\ \A b : Disk(b) \in Home(b)
    /\ \A b : \A n \in Names : Snap(b, n) \in Home(b)
    /\ \A b, p : p \in Home(b) => p = Disk(b) \/ \E n \in Names : p = Snap(b, n)
    /\ \A b, c, p : p \in Home(b) /\ p \in Home(c) => b = c
    /\ \A b, k : Base(k) \notin Home(b)
    /\ \A b \in Boxes : Home(b) \subseteq Paths
    /\ \A k \in Bases : Base(k) \in Paths
    /\ \A p \in Paths : (\E k \in Bases : p = Base(k)) \/ \E b \in Boxes : p \in Home(b)
<1>1. \A b, p : p \in Home(b) <=> p = Disk(b) \/ \E n \in Names : p = Snap(b, n)
    BY DEF Home
<1>2. \A b, c, p : p \in Home(b) /\ p \in Home(c) => b = c
    BY <1>1, PathsApart
<1>3. \A b, k : Base(k) \notin Home(b)
    BY <1>1, PathsApart
<1>4. \A p : p \in Paths <=> (\E k \in Bases : p = Base(k)) \/ \E b \in Boxes : p \in Home(b)
    BY DEF Paths, BasePaths
<1> QED BY <1>1, <1>2, <1>3, <1>4

-----------------------------------------------------------------------------
(* What becomes of the files.                                                *)

(* Two files with the same backing path, sound or not.                       *)
File == [back : Paths \union {NoPath}, sound : BOOLEAN]
IsFiles(fs) == DOMAIN fs \subseteq Paths /\ \A p \in DOMAIN fs : fs[p] \in File

LEMMA WithoutFiles ==
    ASSUME NEW fs, NEW ps, IsFiles(fs)
    PROVE  /\ IsFiles(Without(fs, ps))
           /\ DOMAIN Without(fs, ps) = DOMAIN fs \ ps
           /\ \A p \in DOMAIN fs \ ps : Without(fs, ps)[p].back = fs[p].back
<1>1. DOMAIN Without(fs, ps) = DOMAIN fs \ ps
    BY DEF Without
<1>2. ASSUME NEW p \in DOMAIN fs \ ps
      PROVE  Without(fs, ps)[p] \in File /\ Without(fs, ps)[p].back = fs[p].back
    <2>1. fs[p] \in File
        BY DEF IsFiles
    <2>2. Without(fs, ps)[p] = IF fs[p].back \in ps THEN [fs[p] EXCEPT !.sound = FALSE] ELSE fs[p]
        BY DEF Without
    <2> QED BY <2>1, <2>2 DEF File
<1> QED BY <1>1, <1>2 DEF IsFiles

LEMMA RenamedFiles ==
    ASSUME NEW fs, NEW from \in DOMAIN fs, NEW to \in Paths, from # to, IsFiles(fs)
    PROVE  /\ IsFiles(Renamed(fs, from, to))
           /\ DOMAIN Renamed(fs, from, to) = (DOMAIN fs \ {from}) \union {to}
           /\ Renamed(fs, from, to)[to].back = fs[from].back
           /\ \A p \in DOMAIN fs \ {from, to} : Renamed(fs, from, to)[p].back = fs[p].back
<1> DEFINE replaced == Without(fs, {to})
           rest == Without(replaced, {from})
<1>1. /\ IsFiles(replaced) /\ DOMAIN replaced = DOMAIN fs \ {to}
      /\ \A p \in DOMAIN fs \ {to} : replaced[p].back = fs[p].back
    BY WithoutFiles
<1>2. /\ IsFiles(rest) /\ DOMAIN rest = DOMAIN replaced \ {from}
      /\ \A p \in DOMAIN replaced \ {from} : rest[p].back = replaced[p].back
    BY <1>1, WithoutFiles
<1>3. replaced[from] \in File /\ replaced[from].back = fs[from].back
    BY <1>1 DEF IsFiles
<1>4. Renamed(fs, from, to) = With(rest, to, replaced[from])
    BY DEF Renamed
<1> HIDE DEF replaced, rest
<1>5. /\ DOMAIN Renamed(fs, from, to) = {to} \union DOMAIN rest
      /\ Renamed(fs, from, to)[to] = replaced[from]
      /\ \A p \in DOMAIN rest \ {to} : Renamed(fs, from, to)[p] = rest[p]
    BY <1>4 DEF With
<1> QED BY <1>1, <1>2, <1>3, <1>5 DEF IsFiles

LEMMA ChildFiles ==
    ASSUME NEW fs, NEW child \in Paths, NEW base \in Paths, IsFiles(fs)
    PROVE  /\ IsFiles(WithChild(fs, child, base))
           /\ DOMAIN WithChild(fs, child, base) = DOMAIN fs \union {child}
           /\ child \notin DOMAIN fs => WithChild(fs, child, base)[child].back = base
           /\ \A p \in DOMAIN fs : WithChild(fs, child, base)[p].back = fs[p].back
<1>1. CASE child \in DOMAIN fs
    BY <1>1 DEF WithChild
<1>2. CASE child \notin DOMAIN fs
    <2> DEFINE new == [back |-> base, sound |-> base \in DOMAIN fs]
    <2>1. new \in File /\ new.back = base
        BY DEF File
    <2>2. WithChild(fs, child, base) = With(fs, child, new)
        BY <1>2 DEF WithChild
    <2> HIDE DEF new
    <2>3. /\ DOMAIN WithChild(fs, child, base) = {child} \union DOMAIN fs
          /\ WithChild(fs, child, base)[child] = new
          /\ \A p \in DOMAIN fs : WithChild(fs, child, base)[p] = fs[p]
        BY <1>2, <2>2 DEF With
    <2> QED BY <1>2, <2>1, <2>3 DEF IsFiles
<1> QED BY <1>1, <1>2

\* A disk that a pending snapshot moved aside is put back, and files stay.
LEMMA RestoredFiles ==
    ASSUME NEW fs, IsFiles(fs), rows \subseteq Boxes, marker \in [Boxes -> Names \union {NoName}]
    PROVE  /\ IsFiles(Restored(fs))
           /\ \A k : Base(k) \in DOMAIN fs => Base(k) \in DOMAIN Restored(fs)
           /\ \A p \in DOMAIN Restored(fs) :
                \/ p \in DOMAIN fs /\ Restored(fs)[p].back = fs[p].back
                \/ \E b \in rows : /\ p = Disk(b) /\ Snap(b, marker[b]) \in DOMAIN fs
                                   /\ marker[b] \in Names
                                   /\ Restored(fs)[p].back = fs[Snap(b, marker[b])].back
<1> DEFINE back == {b \in rows : /\ marker[b] # NoName
                                 /\ Disk(b) \notin DOMAIN fs
                                 /\ Snap(b, marker[b]) \in DOMAIN fs}
           moved == {Snap(b, marker[b]) : b \in back}
           rest == Without(fs, moved)
<1>1. /\ IsFiles(rest) /\ DOMAIN rest = DOMAIN fs \ moved
      /\ \A p \in DOMAIN rest : rest[p].back = fs[p].back
    <2>1. PICK ms : ms = moved
        OBVIOUS
    <2>2. /\ IsFiles(Without(fs, ms)) /\ DOMAIN Without(fs, ms) = DOMAIN fs \ ms
          /\ \A p \in DOMAIN fs \ ms : Without(fs, ms)[p].back = fs[p].back
        BY WithoutFiles
    <2> HIDE DEF moved
    <2> QED BY <2>1, <2>2
<1>2. Restored(fs) = [p \in {Disk(b) : b \in back} \union DOMAIN rest |->
                        IF p \in DOMAIN rest THEN rest[p] ELSE fs[Snap(p[2], marker[p[2]])]]
    BY DEF Restored
<1>3. \A k : Base(k) \notin moved
    BY PathsApart
<1>4. \A b \in back : /\ b \in rows /\ marker[b] \in Names /\ Snap(b, marker[b]) \in DOMAIN fs
                      /\ Disk(b)[2] = b /\ Disk(b) \in Paths
    BY Homes DEF Disk
<1> HIDE DEF back, moved, rest
<1>5. DOMAIN Restored(fs) = {Disk(b) : b \in back} \union DOMAIN rest
    BY <1>2
<1>6. ASSUME NEW p \in DOMAIN rest
      PROVE  p \in DOMAIN fs /\ Restored(fs)[p] \in File /\ Restored(fs)[p].back = fs[p].back
    BY <1>1, <1>2, <1>5 DEF IsFiles
<1>7. ASSUME NEW b \in back, Disk(b) \notin DOMAIN rest
      PROVE  Restored(fs)[Disk(b)] = fs[Snap(b, marker[b])]
    BY <1>2, <1>4, <1>5, <1>7
<1>8. DOMAIN Restored(fs) \subseteq Paths
    BY <1>1, <1>4, <1>5 DEF IsFiles
<1>9. ASSUME NEW p \in DOMAIN Restored(fs)
      PROVE  /\ Restored(fs)[p] \in File
             /\ \/ p \in DOMAIN fs /\ Restored(fs)[p].back = fs[p].back
                \/ \E b \in rows : /\ p = Disk(b) /\ Snap(b, marker[b]) \in DOMAIN fs
                                   /\ marker[b] \in Names
                                   /\ Restored(fs)[p].back = fs[Snap(b, marker[b])].back
    <2>1. CASE p \in DOMAIN rest
        BY <1>6, <2>1
    <2>2. ASSUME p \notin DOMAIN rest, NEW b \in back, p = Disk(b)
          PROVE  /\ Restored(fs)[p] = fs[Snap(b, marker[b])] /\ Restored(fs)[p] \in File
        BY <1>4, <1>7, <2>2 DEF IsFiles
    <2> QED BY <1>4, <1>5, <2>1, <2>2
<1>10. \A k : Base(k) \in DOMAIN fs => Base(k) \in DOMAIN Restored(fs)
    BY <1>1, <1>3, <1>5
<1> QED BY <1>8, <1>9, <1>10 DEF IsFiles

-----------------------------------------------------------------------------
(* Types. They rest on what each step of an operation carries, and on a      *)
(* staged clone being nobody else's.                                         *)

NameSteps == {"snap_marked", "snap_moved", "snap_forked", "snap_done", "snap_deleting", "restoring"}

Op == [at : OpSteps, name : Names \union {NoName}, base : Bases \union {NoName},
       dest : Boxes \union {NoName}, staged : SUBSET Boxes]

\* What the operation o carries at its step.
Shaped(o) ==
    /\ o.at \in NameSteps => o.name \in Names
    /\ IF o.at \in CloneSteps THEN o.base \in Bases ELSE o.base = NoName /\ o.staged = {}
    /\ IF o.at = "clone_provisioned" THEN o.dest \in Boxes ELSE o.dest = NoName

OpsTyped == op \in [Boxes -> Op] /\ \A b \in Boxes : Shaped(op[b])

StagedApart ==
    \A c \in Boxes : \A d \in op[c].staged :
        /\ d \in dirs /\ d \notin rows /\ rem[d] = NotRemoving /\ op[d] = Idle
        /\ \A b \in Boxes \ {c} : d \notin op[b].staged

RemovedLast == \A b \in Removing : b \notin rows

Typed == TypeOK /\ OpsTyped /\ StagedApart /\ RemovedLast

(* How the operation of a box moves on.                                      *)
OpMoves(c) ==
    \/ op'[c] = op[c] \/ op'[c] = Idle
    \/ /\ Takes(c) /\ UNCHANGED <<dirs, rows, bases, refs, rem>>
       /\ op'[c] \in Op /\ Shaped(op'[c]) /\ op'[c].at \in NameSteps /\ op'[c].staged = {}
    \/ /\ op[c].at \in NameSteps /\ UNCHANGED <<dirs, rows, bases, refs, rem>>
       /\ \E at \in NameSteps : op'[c] = [op[c] EXCEPT !.at = at]
    \/ \E k \in Bases : CloneMove(c, k) /\ op'[c] = [Idle EXCEPT !.at = "clone_moved", !.base = k]
    \/ CloneChild(c) /\ op'[c] = [op[c] EXCEPT !.at = "clone_forked"]
    \/ CloneInsert(c) /\ bases' = With(bases, op[c].base, c) /\ op'[c] = [op[c] EXCEPT !.at = "clone_inserted"]
    \/ CloneRef(c) /\ refs' = refs \union {<<op[c].base, c>>} /\ op'[c] = [op[c] EXCEPT !.at = "clone_based"]
    \/ \E d \in Boxes : /\ CloneStage(c, d)
                        /\ op'[c] = [op[c] EXCEPT !.at = "clone_staging", !.staged = @ \union {d}]
    \/ \E d \in Boxes : /\ CloneProvision(c, d) /\ rows' = rows \union {d}
                        /\ op'[c] = [op[c] EXCEPT !.at = "clone_provisioned", !.dest = d, !.staged = @ \ {d}]
    \/ CloneRefer(c) /\ op'[c] = [op[c] EXCEPT !.at = "clone_staged", !.dest = NoName]

(* An operation moves alone.                                                 *)
LEMMA OpMovesOn ==
    ASSUME OpsTyped, [Next]_vars
    PROVE  /\ op' = [x \in Boxes |-> op'[x]]
           /\ \A c \in Boxes : OpMoves(c)
           /\ \/ Restart
              \/ \E b \in Boxes : Operate(b) /\ \A c \in Boxes \ {b} : op'[c] = op[c]
              \/ UNCHANGED vars
<1> DEFINE Alone(b) == op' = [x \in Boxes |-> op'[x]] /\ \A c \in Boxes \ {b} : op'[c] = op[c]
<1>1. op \in [Boxes -> Op] /\ \A b \in Boxes : Shaped(op[b])
    BY DEF OpsTyped
<1>2. Idle \in Op /\ Shaped(Idle)
    BY DEF Idle, Op, Shaped, OpSteps, CloneSteps, NameSteps
<1>3. ASSUME NEW b \in Boxes, NEW o, op' = [op EXCEPT ![b] = o]
      PROVE  Alone(b) /\ op'[b] = o
    BY <1>1, <1>3
<1>4. ASSUME NEW b \in Boxes, NEW at, Step(b, at)
      PROVE  Alone(b) /\ op'[b] = [op[b] EXCEPT !.at = at]
    BY <1>1, <1>4 DEF Step
<1>5. ASSUME NEW b \in Boxes, NEW n \in Names, SnapMark(b, n) \/ SnapDelete(b, n) \/ RestoreBegin(b, n)
      PROVE  Alone(b) /\ OpMoves(b)
    <2> DEFINE o(at) == [Idle EXCEPT !.at = at, !.name = n]
    <2>1. ASSUME NEW at \in NameSteps
          PROVE  o(at) \in Op /\ Shaped(o(at)) /\ o(at).at \in NameSteps /\ o(at).staged = {}
        BY DEF Idle, Op, Shaped, OpSteps, CloneSteps, NameSteps
    <2>2. "snap_marked" \in NameSteps /\ "snap_deleting" \in NameSteps /\ "restoring" \in NameSteps
        BY DEF NameSteps
    <2>3. /\ Takes(b) /\ UNCHANGED <<dirs, rows, bases, refs, rem>>
          /\ \/ op' = [op EXCEPT ![b] = o("snap_marked")] \/ op' = [op EXCEPT ![b] = o("snap_deleting")]
             \/ op' = [op EXCEPT ![b] = o("restoring")] \/ op' = op
        BY <1>5 DEF SnapMark, SnapDelete, RestoreBegin
    <2> HIDE DEF o
    <2>4. /\ Alone(b)
          /\ op'[b] = op[b] \/ \E at \in NameSteps : op'[b] = o(at)
        BY <1>1, <1>3, <2>2, <2>3
    <2> QED BY <2>1, <2>3, <2>4 DEF OpMoves
<1>6. ASSUME NEW b \in Boxes,
             \/ SnapMove(b) \/ SnapChild(b) \/ SnapSave(b) \/ SnapUnmark(b) \/ SnapUnlink(b) \/ RestoreChild(b)
      PROVE  Alone(b) /\ OpMoves(b)
    <2>1. /\ op[b].at \in NameSteps /\ UNCHANGED <<dirs, rows, bases, refs, rem>>
          /\ \/ \E at \in {"snap_moved", "snap_forked", "snap_done"} : Step(b, at)
             \/ op' = [op EXCEPT ![b] = Idle]
        BY <1>6 DEF SnapMove, SnapChild, SnapSave, SnapUnmark, SnapUnlink, RestoreChild, NameSteps
    <2>2. /\ Alone(b)
          /\ op'[b] = Idle \/ \E at \in NameSteps : op'[b] = [op[b] EXCEPT !.at = at]
        BY <1>3, <1>4, <2>1 DEF NameSteps
    <2> QED BY <2>1, <2>2 DEF OpMoves
<1>7. ASSUME NEW b \in Boxes, NEW k \in Bases, CloneMove(b, k) PROVE Alone(b) /\ OpMoves(b)
    BY <1>3, <1>7 DEF CloneMove, OpMoves
<1>8. ASSUME NEW b \in Boxes, CloneChild(b) \/ CloneInsert(b) \/ CloneRef(b)
      PROVE  Alone(b) /\ OpMoves(b)
    <2>1. CASE op' = [op EXCEPT ![b] = Idle]
        BY <1>3, <2>1 DEF OpMoves
    <2>2. CASE CloneChild(b) /\ Step(b, "clone_forked")
        BY <1>4, <2>2 DEF OpMoves
    <2>3. CASE CloneInsert(b) /\ bases' = With(bases, op[b].base, b) /\ Step(b, "clone_inserted")
        BY <1>4, <2>3 DEF OpMoves
    <2>4. CASE CloneRef(b) /\ refs' = refs \union {<<op[b].base, b>>} /\ Step(b, "clone_based")
        BY <1>4, <2>4 DEF OpMoves
    <2> QED BY <1>8, <2>1, <2>2, <2>3, <2>4 DEF CloneChild, CloneInsert, CloneRef
<1>9. ASSUME NEW b \in Boxes, NEW d \in Boxes, CloneStage(b, d) PROVE Alone(b) /\ OpMoves(b)
    <2>1. op' = [op EXCEPT ![b].at = "clone_staging", ![b].staged = @ \union {d}]
        BY <1>9 DEF CloneStage
    <2>2. Alone(b) /\ op'[b] = [op[b] EXCEPT !.at = "clone_staging", !.staged = @ \union {d}]
        BY <1>1, <2>1
    <2> QED BY <1>9, <2>2 DEF OpMoves
<1>10. ASSUME NEW b \in Boxes, NEW d \in Boxes, CloneProvision(b, d) PROVE Alone(b) /\ OpMoves(b)
    <2>1. CASE op' = [op EXCEPT ![b] = Idle]
        BY <1>3, <2>1 DEF OpMoves
    <2>2. ASSUME rows' = rows \union {d},
                 op' = [op EXCEPT ![b].at = "clone_provisioned", ![b].dest = d, ![b].staged = @ \ {d}]
          PROVE  Alone(b) /\ OpMoves(b)
        <3>1. /\ Alone(b)
              /\ op'[b] = [op[b] EXCEPT !.at = "clone_provisioned", !.dest = d, !.staged = @ \ {d}]
            BY <1>1, <2>2
        <3> QED BY <1>10, <2>2, <3>1 DEF OpMoves
    <2> QED BY <1>10, <2>1, <2>2 DEF CloneProvision
<1>11. ASSUME NEW b \in Boxes, CloneRefer(b) PROVE Alone(b) /\ OpMoves(b)
    <2>1. CASE op' = [op EXCEPT ![b] = Idle]
        BY <1>3, <2>1 DEF OpMoves
    <2>2. ASSUME op' = [op EXCEPT ![b].at = "clone_staged", ![b].dest = NoName]
          PROVE  Alone(b) /\ OpMoves(b)
        <3>1. Alone(b) /\ op'[b] = [op[b] EXCEPT !.at = "clone_staged", !.dest = NoName]
            BY <1>1, <2>2
        <3> QED BY <1>11, <3>1 DEF OpMoves
    <2> QED BY <1>11, <2>1, <2>2 DEF CloneRefer
<1>12. ASSUME NEW b \in Boxes,
              \/ RemoveRow(b) \/ RemoveRefs(b) \/ RemoveDisks(b) \/ RemoveDir(b)
              \/ \E k \in Bases : CollectBase(b, k)
       PROVE  Alone(b) /\ OpMoves(b)
    <2>1. op' = op
        BY <1>12 DEF RemoveRow, RemoveRefs, RemoveDisks, RemoveDir, CollectBase
    <2> QED BY <1>1, <2>1 DEF OpMoves
<1>13. ASSUME NEW b \in Boxes, Operate(b) PROVE Alone(b) /\ OpMoves(b)
    BY <1>5, <1>6, <1>7, <1>8, <1>9, <1>10, <1>11, <1>12, <1>13 DEF Operate
<1>14. CASE Restart
    <2>1. op' = [c \in Boxes |-> Idle]
        BY <1>14 DEF Restart
    <2> QED BY <1>14, <2>1 DEF OpMoves
<1>15. CASE UNCHANGED vars
    BY <1>1, <1>15 DEF vars, OpMoves
<1>16. ASSUME NEW b \in Boxes, Operate(b)
       PROVE  op' = [x \in Boxes |-> op'[x]] /\ \A c \in Boxes : OpMoves(c)
    <2>1. \A c \in Boxes : op'[c] = op[c] => OpMoves(c)
        BY DEF OpMoves
    <2> QED BY <1>13, <1>16, <2>1
<1> QED BY <1>13, <1>14, <1>15, <1>16 DEF Next

LEMMA OpsTypedStep == OpsTyped /\ [Next]_vars => OpsTyped'
<1> SUFFICES ASSUME OpsTyped, [Next]_vars, NEW c \in Boxes
             PROVE  op'[c] \in Op /\ Shaped(op'[c])
    BY OpMovesOn DEF OpsTyped
<1>1. OpMoves(c) /\ op[c] \in Op /\ Shaped(op[c])
    BY OpMovesOn DEF OpsTyped
<1>2. CASE op'[c] = op[c]
    BY <1>1, <1>2
<1>3. Idle \in Op /\ Shaped(Idle)
    BY DEF Idle, Op, Shaped, OpSteps, CloneSteps, NameSteps
<1>4. ASSUME op'[c] \in Op, Shaped(op'[c]) PROVE op'[c] \in Op /\ Shaped(op'[c])
    BY <1>4
<1>5. ASSUME op[c].at \in NameSteps, NEW at \in NameSteps, op'[c] = [op[c] EXCEPT !.at = at]
      PROVE  op'[c] \in Op /\ Shaped(op'[c])
    BY <1>1, <1>5 DEF Op, Shaped, OpSteps, CloneSteps, NameSteps
<1>6. ASSUME NEW k \in Bases, op'[c] = [Idle EXCEPT !.at = "clone_moved", !.base = k]
      PROVE  op'[c] \in Op /\ Shaped(op'[c])
    BY <1>6 DEF Op, Idle, Shaped, OpSteps, CloneSteps, NameSteps
<1>7. ASSUME NEW at \in {"clone_forked", "clone_inserted", "clone_based"},
             op[c].at \in {"clone_moved", "clone_forked", "clone_inserted"}, op'[c] = [op[c] EXCEPT !.at = at]
      PROVE  op'[c] \in Op /\ Shaped(op'[c])
    BY <1>1, <1>7 DEF Op, Shaped, OpSteps, CloneSteps, NameSteps
<1>8. ASSUME NEW d \in Boxes, op[c].at \in {"clone_based", "clone_staging"},
             op'[c] = [op[c] EXCEPT !.at = "clone_staging", !.staged = @ \union {d}]
      PROVE  op'[c] \in Op /\ Shaped(op'[c])
    <2>1. op[c].staged \union {d} \in SUBSET Boxes
        BY <1>1 DEF Op
    <2>2. PICK more : more = op[c].staged \union {d}
        OBVIOUS
    <2>3. op'[c] = [op[c] EXCEPT !.at = "clone_staging", !.staged = more] /\ more \in SUBSET Boxes
        BY <1>8, <2>1, <2>2
    <2> QED BY <1>1, <1>8, <2>3 DEF Op, Shaped, OpSteps, CloneSteps, NameSteps
<1>9. ASSUME NEW d \in Boxes, op[c].at \in {"clone_staging", "clone_staged"},
             op'[c] = [op[c] EXCEPT !.at = "clone_provisioned", !.dest = d, !.staged = @ \ {d}]
      PROVE  op'[c] \in Op /\ Shaped(op'[c])
    BY <1>1, <1>9 DEF Op, Shaped, OpSteps, CloneSteps, NameSteps
<1>10. ASSUME op[c].at = "clone_provisioned", op'[c] = [op[c] EXCEPT !.at = "clone_staged", !.dest = NoName]
       PROVE  op'[c] \in Op /\ Shaped(op'[c])
    BY <1>1, <1>10 DEF Op, Shaped, OpSteps, CloneSteps, NameSteps
<1>11. /\ CloneChild(c) => op[c].at = "clone_moved"
       /\ CloneInsert(c) => op[c].at = "clone_forked"
       /\ CloneRef(c) => op[c].at = "clone_inserted"
       /\ CloneRefer(c) => op[c].at = "clone_provisioned"
       /\ \A d \in Boxes : CloneStage(c, d) => op[c].at \in {"clone_based", "clone_staging"}
       /\ \A d \in Boxes : CloneProvision(c, d) => op[c].at \in {"clone_staging", "clone_staged"}
    BY DEF CloneChild, CloneInsert, CloneRef, CloneRefer, CloneStage, CloneProvision
<1> QED BY <1>1, <1>2, <1>3, <1>4, <1>5, <1>6, <1>7, <1>8, <1>9, <1>10, <1>11 DEF OpMoves

(* How rows, bases, references and removals come and go.                     *)
LEMMA RowsMove ==
    ASSUME [Next]_vars, NEW d
    PROVE  /\ d \in rows' => d \in rows \/ \E c \in Boxes : /\ CloneProvision(c, d) /\ d \in Boxes
                                                            /\ rows' = rows \union {d}
           /\ d \in rows => d \in rows' \/ (RemoveRow(d) /\ d \in Boxes) \/ (Restart /\ rows' = {})
<1>1. ASSUME NEW b \in Boxes, RemoveRow(b) PROVE rows' = rows \ {b}
    BY <1>1 DEF RemoveRow
<1>2. ASSUME NEW c \in Boxes, NEW e \in Boxes, CloneProvision(c, e)
      PROVE  rows' = rows \/ rows' = rows \union {e}
    BY <1>2 DEF CloneProvision
<1>3. CASE rows' = rows
    BY <1>3
<1>4. ASSUME NEW b \in Boxes, Operate(b)
      PROVE  \/ rows' = rows \/ RemoveRow(b)
             \/ \E e \in Boxes : CloneProvision(b, e)
    BY <1>4 DEF Operate, SnapMark, SnapDelete, RestoreBegin, SnapMove, SnapChild, SnapSave, SnapUnmark,
           SnapUnlink, RestoreChild, CloneMove, CloneChild, CloneInsert, CloneRef, CloneRefer, CloneStage,
           RemoveRefs, RemoveDisks, RemoveDir, CollectBase
<1>5. Restart => rows' = {} \/ rows' = rows
    BY DEF Restart, Survivors
<1>6. CASE UNCHANGED vars
    BY <1>3, <1>6 DEF vars
<1> QED BY <1>1, <1>2, <1>3, <1>4, <1>5, <1>6 DEF Next

LEMMA BasesMove ==
    ASSUME [Next]_vars, NEW k
    PROVE  /\ k \in DOMAIN bases' => \/ k \in DOMAIN bases /\ bases'[k] = bases[k]
                                     \/ \E b \in Boxes : /\ CloneInsert(b) /\ k = op[b].base /\ bases'[k] = b
                                                         /\ Step(b, "clone_inserted")
           /\ k \in DOMAIN bases => \/ k \in DOMAIN bases'
                                    \/ \E b \in Boxes, j \in Bases : CollectBase(b, j) /\ k \in Doomed(j)
<1>1. ASSUME NEW b \in Boxes, CloneInsert(b)
      PROVE  \/ bases' = bases
             \/ bases' = With(bases, op[b].base, b) /\ Step(b, "clone_inserted")
    BY <1>1 DEF CloneInsert
<1>2. ASSUME NEW b \in Boxes, bases' = With(bases, op[b].base, b)
      PROVE  /\ DOMAIN bases' = DOMAIN bases \union {op[b].base}
             /\ bases'[op[b].base] = b
             /\ k \in DOMAIN bases /\ k # op[b].base => bases'[k] = bases[k]
    BY <1>2 DEF With
<1>3. ASSUME NEW b \in Boxes, NEW j \in Bases, CollectBase(b, j)
      PROVE  /\ DOMAIN bases' = DOMAIN bases \ Doomed(j)
             /\ k \in DOMAIN bases \ Doomed(j) => bases'[k] = bases[k]
    <2>1. PICK gone : gone = Doomed(j)
        OBVIOUS
    <2>2. bases' = [i \in DOMAIN bases \ gone |-> bases[i]]
        BY <1>3, <2>1 DEF CollectBase
    <2> QED BY <2>1, <2>2
<1>4. CASE bases' = bases
    BY <1>4
<1>5. ASSUME NEW b \in Boxes, Operate(b)
      PROVE  \/ bases' = bases \/ CloneInsert(b)
             \/ \E j \in Bases : CollectBase(b, j)
    BY <1>5 DEF Operate, SnapMark, SnapDelete, RestoreBegin, SnapMove, SnapChild, SnapSave, SnapUnmark,
           SnapUnlink, RestoreChild, CloneMove, CloneChild, CloneRef, CloneRefer, CloneStage, CloneProvision,
           RemoveRow, RemoveRefs, RemoveDisks, RemoveDir
<1>6. CASE Restart \/ UNCHANGED vars
    BY <1>4, <1>6 DEF Restart, vars
<1>7. ASSUME NEW b \in Boxes, CloneInsert(b), bases' = With(bases, op[b].base, b), Step(b, "clone_inserted")
      PROVE  /\ k \in DOMAIN bases' => \/ k \in DOMAIN bases /\ bases'[k] = bases[k]
                                       \/ k = op[b].base /\ bases'[k] = b
             /\ k \in DOMAIN bases => k \in DOMAIN bases'
    BY <1>2, <1>7
<1>8. ASSUME NEW b \in Boxes, NEW j \in Bases, CollectBase(b, j)
      PROVE  /\ k \in DOMAIN bases' => k \in DOMAIN bases /\ bases'[k] = bases[k]
             /\ k \in DOMAIN bases => k \in DOMAIN bases' \/ k \in Doomed(j)
    BY <1>3, <1>8
<1> QED BY <1>1, <1>4, <1>5, <1>6, <1>7, <1>8 DEF Next

LEMMA RefsMove ==
    ASSUME [Next]_vars, NEW k, NEW c
    PROVE  /\ <<k, c>> \in refs' =>
                \/ <<k, c>> \in refs
                \/ CloneRef(c) /\ c \in Boxes /\ k = op[c].base /\ Step(c, "clone_based")
                \/ \E b \in Boxes : CloneRefer(b) /\ k = op[b].base /\ c = op[b].dest
           /\ <<k, c>> \in refs => <<k, c>> \in refs' \/ (RemoveRefs(c) /\ c \in Boxes)
<1>1. ASSUME NEW b \in Boxes, RemoveRefs(b)
      PROVE  <<k, c>> \in refs' <=> <<k, c>> \in refs /\ c # b
    <2>1. refs' = {r \in refs : r[2] # b} /\ <<k, c>>[2] = c
        BY <1>1 DEF RemoveRefs
    <2> QED BY <2>1
<1>2. ASSUME NEW b \in Boxes, CloneRef(b)
      PROVE  refs' = refs \/ (refs' = refs \union {<<op[b].base, b>>} /\ Step(b, "clone_based"))
    BY <1>2 DEF CloneRef
<1>3. ASSUME NEW b \in Boxes, CloneRefer(b)
      PROVE  refs' = refs \/ refs' = refs \union {<<op[b].base, op[b].dest>>}
    BY <1>3 DEF CloneRefer
<1>4. ASSUME NEW b \in Boxes, Operate(b)
      PROVE  refs' = refs \/ CloneRef(b) \/ CloneRefer(b) \/ RemoveRefs(b)
    BY <1>4 DEF Operate, SnapMark, SnapDelete, RestoreBegin, SnapMove, SnapChild, SnapSave, SnapUnmark,
           SnapUnlink, RestoreChild, CloneMove, CloneChild, CloneInsert, CloneStage, CloneProvision,
           RemoveRow, RemoveDisks, RemoveDir, CollectBase
<1>5. CASE Restart \/ UNCHANGED vars
    BY <1>5 DEF Restart, vars
<1> QED BY <1>1, <1>2, <1>3, <1>4, <1>5 DEF Next

LEMMA RemMoves ==
    ASSUME rem \in [Boxes -> [at : RemSteps, todo : SUBSET Bases]], [Next]_vars, NEW b \in Boxes
    PROVE  /\ rem' = [c \in Boxes |-> rem'[c]]
           /\ \/ rem'[b] = rem[b]
              \/ rem'[b] = NotRemoving /\ (RemoveDir(b) \/ Restart)
              \/ RemoveRow(b) /\ rem'[b] = [at |-> "row", todo |-> {}]
              \/ RemoveRefs(b) /\ rem'[b] = [at |-> "refs", todo |-> {k \in Bases : <<k, b>> \in refs}]
              \/ RemoveDisks(b) /\ rem'[b] = [rem[b] EXCEPT !.at = "disks"]
              \/ \E k \in Bases : CollectBase(b, k) /\ rem'[b] = [rem[b] EXCEPT !.todo = @ \ {k}]
<1> DEFINE Same == rem' = [c \in Boxes |-> rem'[c]]
<1>1. ASSUME NEW c \in Boxes, NEW r, rem' = [rem EXCEPT ![c] = r]
      PROVE  Same /\ rem'[c] = r /\ (c # b => rem'[b] = rem[b])
    BY <1>1
<1>2. CASE rem' = rem
    BY <1>2
<1>3. ASSUME NEW c \in Boxes, RemoveRow(c) PROVE rem' = [rem EXCEPT ![c] = [at |-> "row", todo |-> {}]]
    BY <1>3 DEF RemoveRow
<1>4. ASSUME NEW c \in Boxes, RemoveRefs(c)
      PROVE  rem' = [rem EXCEPT ![c] = [at |-> "refs", todo |-> {k \in Bases : <<k, c>> \in refs}]]
    BY <1>4 DEF RemoveRefs
<1>5. ASSUME NEW c \in Boxes, RemoveDisks(c)
      PROVE  rem' = [rem EXCEPT ![c].at = "disks"]
    BY <1>5 DEF RemoveDisks
<1>6. ASSUME NEW c \in Boxes, NEW k \in Bases, CollectBase(c, k)
      PROVE  rem' = [rem EXCEPT ![c].todo = @ \ {k}]
    BY <1>6 DEF CollectBase
<1>7. ASSUME NEW c \in Boxes, RemoveDir(c) PROVE rem' = [rem EXCEPT ![c] = NotRemoving]
    BY <1>7 DEF RemoveDir
<1>8. ASSUME NEW c \in Boxes, Operate(c)
      PROVE  \/ rem' = rem \/ RemoveRow(c) \/ RemoveRefs(c) \/ RemoveDisks(c) \/ RemoveDir(c)
             \/ \E k \in Bases : CollectBase(c, k)
    BY <1>8 DEF Operate, SnapMark, SnapDelete, RestoreBegin, SnapMove, SnapChild, SnapSave, SnapUnmark,
           SnapUnlink, RestoreChild, CloneMove, CloneChild, CloneInsert, CloneRef, CloneRefer, CloneStage,
           CloneProvision
<1>9. CASE Restart
    <2>1. rem' = [c \in Boxes |-> NotRemoving]
        BY <1>9 DEF Restart
    <2> QED BY <1>9, <2>1
<1>10. CASE UNCHANGED vars
    BY <1>2, <1>10 DEF vars
<1>11. ASSUME NEW c \in Boxes, RemoveDisks(c)
       PROVE  Same /\ rem'[c] = [rem[c] EXCEPT !.at = "disks"] /\ (c # b => rem'[b] = rem[b])
    BY <1>5, <1>11
<1>12. ASSUME NEW c \in Boxes, NEW k \in Bases, CollectBase(c, k)
       PROVE  Same /\ rem'[c] = [rem[c] EXCEPT !.todo = @ \ {k}] /\ (c # b => rem'[b] = rem[b])
    <2>1. PICK less : less = rem[c].todo \ {k}
        OBVIOUS
    <2>2. rem' = [rem EXCEPT ![c].todo = less]
        BY <1>6, <1>12, <2>1
    <2>3. Same /\ rem'[c] = [rem[c] EXCEPT !.todo = less] /\ (c # b => rem'[b] = rem[b])
        BY <2>2
    <2> QED BY <2>1, <2>3
<1>13. ASSUME NEW c \in Boxes, RemoveRow(c) \/ RemoveRefs(c) \/ RemoveDir(c)
       PROVE  /\ Same /\ (c # b => rem'[b] = rem[b])
              /\ \/ RemoveRow(c) /\ rem'[c] = [at |-> "row", todo |-> {}]
                 \/ RemoveRefs(c) /\ rem'[c] = [at |-> "refs", todo |-> {k \in Bases : <<k, c>> \in refs}]
                 \/ RemoveDir(c) /\ rem'[c] = NotRemoving
    <2>1. CASE RemoveRow(c)
        BY <1>1, <1>3, <2>1
    <2>2. CASE RemoveRefs(c)
        BY <1>1, <1>4, <2>2
    <2>3. CASE RemoveDir(c)
        BY <1>1, <1>7, <2>3
    <2> QED BY <1>13, <2>1, <2>2, <2>3
<1> QED BY <1>2, <1>8, <1>9, <1>10, <1>11, <1>12, <1>13 DEF Next

(* Where a file and its backing path come from.                              *)
Comes(p) ==
    \/ p \in DOMAIN files /\ files'[p].back = files[p].back
    \/ \E b \in Boxes :
        /\ Disk(b) \in DOMAIN files /\ files'[p].back = files[Disk(b)].back
        /\ \/ SnapMove(b) /\ op[b].at \in NameSteps /\ op[b].name \in Names /\ p = Snap(b, op[b].name)
           \/ \E k \in Bases : CloneMove(b, k) /\ p = Base(k)
    \/ \E b \in Boxes, n \in Names :
        op[b].at \in NameSteps /\ p = Disk(b) /\ files'[p].back = Snap(b, n)
    \/ \E b \in Boxes :
        CloneChild(b) /\ Step(b, "clone_forked") /\ p = Disk(b) /\ files'[p].back = Base(op[b].base)
    \/ \E b, d \in Boxes : CloneStage(b, d) /\ p = Disk(d) /\ files'[p].back = Base(op[b].base)
    \/ \E b \in rows, n \in Names :
        Restart /\ p = Disk(b) /\ Snap(b, n) \in DOMAIN files /\ files'[p].back = files[Snap(b, n)].back

LEMMA FilesMove ==
    ASSUME Typed, [Next]_vars
    PROVE  IsFiles(files') /\ \A p \in DOMAIN files' : Comes(p)
<1>1. /\ IsFiles(files) /\ rows \subseteq Boxes /\ marker \in [Boxes -> Names \union {NoName}]
      /\ \A b \in Boxes : op[b] \in Op /\ Shaped(op[b])
    BY DEF Typed, TypeOK, OpsTyped, IsFiles, File
<1> DEFINE Good == IsFiles(files') /\ \A p \in DOMAIN files' : Comes(p)
<1>2. ASSUME NEW ps, files' = Without(files, ps) PROVE Good
    <2>1. IsFiles(files)
        BY <1>1
    <2>2. /\ IsFiles(Without(files, ps)) /\ DOMAIN Without(files, ps) = DOMAIN files \ ps
          /\ \A p \in DOMAIN files \ ps : Without(files, ps)[p].back = files[p].back
        BY <2>1, WithoutFiles
    <2> QED BY <1>2, <2>2 DEF Comes
<1>3. CASE files' = files
    BY <1>1, <1>3 DEF Comes
<1>4. ASSUME NEW b \in Boxes, SnapMove(b), files' # files PROVE Good
    <2>1. /\ Disk(b) \in DOMAIN files /\ files' = Renamed(files, Disk(b), Snap(b, op[b].name))
          /\ op[b].at \in NameSteps
        BY <1>4 DEF SnapMove, Exists, NameSteps
    <2>2. op[b].name \in Names /\ Snap(b, op[b].name) \in Paths /\ Disk(b) # Snap(b, op[b].name)
        BY <1>1, <2>1, Homes, PathsApart DEF Shaped
    <2>3. /\ IsFiles(files')
          /\ DOMAIN files' = (DOMAIN files \ {Disk(b)}) \union {Snap(b, op[b].name)}
          /\ files'[Snap(b, op[b].name)].back = files[Disk(b)].back
          /\ \A p \in DOMAIN files \ {Disk(b), Snap(b, op[b].name)} : files'[p].back = files[p].back
        <3>1. IsFiles(files)
            BY <1>1
        <3>2. /\ IsFiles(Renamed(files, Disk(b), Snap(b, op[b].name)))
              /\ DOMAIN Renamed(files, Disk(b), Snap(b, op[b].name)) = (DOMAIN files \ {Disk(b)}) \union {Snap(b, op[b].name)}
              /\ Renamed(files, Disk(b), Snap(b, op[b].name))[Snap(b, op[b].name)].back = files[Disk(b)].back
              /\ \A p \in DOMAIN files \ {Disk(b), Snap(b, op[b].name)} :
                    Renamed(files, Disk(b), Snap(b, op[b].name))[p].back = files[p].back
            BY <2>1, <2>2, <3>1, RenamedFiles
        <3> QED BY <2>1, <3>2
    <2>4. Comes(Snap(b, op[b].name))
        BY <1>4, <2>1, <2>2, <2>3 DEF Comes
    <2>5. ASSUME NEW p \in DOMAIN files' PROVE Comes(p)
        BY <2>3, <2>4, <2>5 DEF Comes
    <2> QED BY <2>3, <2>5
<1>5. ASSUME NEW b \in Boxes, NEW k \in Bases, CloneMove(b, k) PROVE Good
    <2>1. Disk(b) \in DOMAIN files /\ files' = Renamed(files, Disk(b), Base(k))
        BY <1>5 DEF CloneMove, Exists
    <2>2. Base(k) \in Paths /\ Disk(b) # Base(k)
        BY Homes, PathsApart
    <2>3. /\ IsFiles(files')
          /\ DOMAIN files' = (DOMAIN files \ {Disk(b)}) \union {Base(k)}
          /\ files'[Base(k)].back = files[Disk(b)].back
          /\ \A p \in DOMAIN files \ {Disk(b), Base(k)} : files'[p].back = files[p].back
        <3>1. IsFiles(files)
            BY <1>1
        <3>2. /\ IsFiles(Renamed(files, Disk(b), Base(k)))
              /\ DOMAIN Renamed(files, Disk(b), Base(k)) = (DOMAIN files \ {Disk(b)}) \union {Base(k)}
              /\ Renamed(files, Disk(b), Base(k))[Base(k)].back = files[Disk(b)].back
              /\ \A p \in DOMAIN files \ {Disk(b), Base(k)} :
                    Renamed(files, Disk(b), Base(k))[p].back = files[p].back
            BY <2>1, <2>2, <3>1, RenamedFiles
        <3> QED BY <2>1, <3>2
    <2>4. Comes(Base(k))
        BY <1>5, <2>1, <2>3 DEF Comes
    <2>5. ASSUME NEW p \in DOMAIN files' PROVE Comes(p)
        BY <2>3, <2>4, <2>5 DEF Comes
    <2> QED BY <2>3, <2>5
<1>6. ASSUME NEW b \in Boxes, NEW q \in Paths, files' = WithChild(files, Disk(b), q),
             \A p : p = Disk(b) /\ files'[p].back = q => Comes(p)
      PROVE  Good
    <2>1. /\ IsFiles(files') /\ DOMAIN files' = DOMAIN files \union {Disk(b)}
          /\ Disk(b) \notin DOMAIN files => files'[Disk(b)].back = q
          /\ \A p \in DOMAIN files : files'[p].back = files[p].back
        <3>1. IsFiles(files) /\ Disk(b) \in Paths
            BY <1>1, Homes
        <3>2. /\ IsFiles(WithChild(files, Disk(b), q))
              /\ DOMAIN WithChild(files, Disk(b), q) = DOMAIN files \union {Disk(b)}
              /\ Disk(b) \notin DOMAIN files => WithChild(files, Disk(b), q)[Disk(b)].back = q
              /\ \A p \in DOMAIN files : WithChild(files, Disk(b), q)[p].back = files[p].back
            BY <3>1, ChildFiles
        <3> QED BY <1>6, <3>2
    <2>2. ASSUME NEW p \in DOMAIN files' PROVE Comes(p)
        <3>1. CASE p \in DOMAIN files
            BY <2>1, <3>1 DEF Comes
        <3>2. CASE p \notin DOMAIN files
            BY <1>6, <2>1, <2>2, <3>2
        <3> QED BY <3>1, <3>2
    <2> QED BY <2>1, <2>2
<1>7. ASSUME NEW b \in Boxes, SnapChild(b) \/ RestoreChild(b) PROVE Good
    <2>1. /\ op[b].at \in NameSteps
          /\ files' = files \/ files' = WithChild(files, Disk(b), Snap(b, op[b].name))
        BY <1>7 DEF SnapChild, RestoreChild, NameSteps
    <2>2. op[b].name \in Names /\ Snap(b, op[b].name) \in Paths
        BY <1>1, <2>1, Homes DEF Shaped
    <2>3. \A p : p = Disk(b) /\ files'[p].back = Snap(b, op[b].name) => Comes(p)
        BY <2>1, <2>2 DEF Comes
    <2> QED BY <1>3, <1>6, <2>1, <2>2, <2>3
<1>8. ASSUME NEW b \in Boxes, CloneChild(b) PROVE Good
    <2>1. /\ op[b].at = "clone_moved"
          /\ \/ files' = files
             \/ Step(b, "clone_forked") /\ files' = WithChild(files, Disk(b), Base(op[b].base))
        BY <1>8 DEF CloneChild
    <2>2. Base(op[b].base) \in Paths
        BY <1>1, <2>1, Homes DEF Shaped, CloneSteps
    <2>3. Step(b, "clone_forked") => \A p : p = Disk(b) /\ files'[p].back = Base(op[b].base) => Comes(p)
        BY <1>8 DEF Comes
    <2> QED BY <1>3, <1>6, <2>1, <2>2, <2>3
<1>9. ASSUME NEW b \in Boxes, NEW d \in Boxes, CloneStage(b, d) PROVE Good
    <2>1. /\ op[b].at \in {"clone_based", "clone_staging"}
          /\ files' = WithChild(files, Disk(d), Base(op[b].base))
        BY <1>9 DEF CloneStage
    <2>2. Base(op[b].base) \in Paths
        BY <1>1, <2>1, Homes DEF Shaped, CloneSteps
    <2>3. \A p : p = Disk(d) /\ files'[p].back = Base(op[b].base) => Comes(p)
        BY <1>9 DEF Comes
    <2> QED BY <1>6, <2>1, <2>2, <2>3
<1>10. CASE Restart
    <2> DEFINE swept == Without(files, UNION {Home(b) : b \in Boxes \ Survivors})
               whole == Restored(swept)
    <2>1. PICK settled : files' = Without(whole, settled)
        BY <1>10 DEF Restart
    <2>2. /\ IsFiles(swept) /\ DOMAIN swept \subseteq DOMAIN files
          /\ \A p \in DOMAIN swept : swept[p].back = files[p].back
        <3>1. PICK homes : homes = UNION {Home(b) : b \in Boxes \ Survivors}
            OBVIOUS
        <3>2. swept = Without(files, homes)
            BY <3>1
        <3> HIDE DEF swept
        <3>3. IsFiles(files)
            BY <1>1
        <3>4. /\ IsFiles(Without(files, homes)) /\ DOMAIN Without(files, homes) = DOMAIN files \ homes
              /\ \A p \in DOMAIN files \ homes : Without(files, homes)[p].back = files[p].back
            BY <3>3, WithoutFiles
        <3> QED BY <3>2, <3>4
    <2> HIDE DEF swept
    <2>3. /\ IsFiles(whole)
          /\ \A p \in DOMAIN whole :
               \/ p \in DOMAIN swept /\ whole[p].back = swept[p].back
               \/ \E b \in rows : /\ p = Disk(b) /\ Snap(b, marker[b]) \in DOMAIN swept
                                  /\ marker[b] \in Names
                                  /\ whole[p].back = swept[Snap(b, marker[b])].back
        BY <1>1, <2>2, RestoredFiles
    <2> HIDE DEF whole
    <2>4. /\ IsFiles(files') /\ DOMAIN files' \subseteq DOMAIN whole
          /\ \A p \in DOMAIN files' : files'[p].back = whole[p].back
        <3>1. IsFiles(whole)
            BY <2>3
        <3>2. /\ IsFiles(Without(whole, settled)) /\ DOMAIN Without(whole, settled) = DOMAIN whole \ settled
              /\ \A p \in DOMAIN whole \ settled : Without(whole, settled)[p].back = whole[p].back
            BY <3>1, WithoutFiles
        <3> QED BY <2>1, <3>2
    <2>5. ASSUME NEW p \in DOMAIN files' PROVE Comes(p)
        <3>1. CASE p \in DOMAIN swept /\ whole[p].back = swept[p].back
            BY <2>2, <2>4, <3>1 DEF Comes
        <3>2. ASSUME NEW b \in rows, p = Disk(b), Snap(b, marker[b]) \in DOMAIN swept, marker[b] \in Names,
                     whole[p].back = swept[Snap(b, marker[b])].back
              PROVE  Comes(p)
            <4>1. files'[p].back = files[Snap(b, marker[b])].back /\ Snap(b, marker[b]) \in DOMAIN files
                BY <2>2, <2>4, <3>2
            <4> QED BY <1>10, <3>2, <4>1 DEF Comes
        <3> QED BY <2>3, <2>4, <3>1, <3>2
    <2> QED BY <2>4, <2>5
<1>11. ASSUME NEW b \in Boxes, Operate(b)
       PROVE  \/ files' = files \/ (\E ps : files' = Without(files, ps))
              \/ SnapMove(b) \/ SnapChild(b) \/ RestoreChild(b) \/ CloneChild(b)
              \/ (\E k \in Bases : CloneMove(b, k)) \/ (\E d \in Boxes : CloneStage(b, d))
    <2>1. ASSUME NEW d \in Boxes, CloneProvision(b, d)
          PROVE  files' = files \/ \E ps : files' = Without(files, ps)
        BY <2>1 DEF CloneProvision
    <2>2. ASSUME NEW n \in Names, SnapMark(b, n) \/ SnapDelete(b, n) \/ RestoreBegin(b, n)
          PROVE  files' = files \/ \E ps : files' = Without(files, ps)
        BY <2>2 DEF SnapMark, SnapDelete, RestoreBegin
    <2>3. ASSUME \/ SnapSave(b) \/ SnapUnmark(b) \/ SnapUnlink(b) \/ CloneInsert(b) \/ CloneRef(b)
                 \/ CloneRefer(b) \/ RemoveRow(b) \/ RemoveRefs(b) \/ RemoveDisks(b) \/ RemoveDir(b)
          PROVE  files' = files \/ \E ps : files' = Without(files, ps)
        BY <2>3 DEF SnapSave, SnapUnmark, SnapUnlink, CloneInsert, CloneRef, CloneRefer, RemoveRow,
               RemoveRefs, RemoveDisks, RemoveDir
    <2>4. ASSUME NEW k \in Bases, CollectBase(b, k)
          PROVE  \E ps : files' = Without(files, ps)
        BY <2>4 DEF CollectBase
    <2> QED BY <1>11, <2>1, <2>2, <2>3, <2>4 DEF Operate
<1>12. CASE UNCHANGED vars
    BY <1>3, <1>12 DEF vars
<1> QED BY <1>2, <1>3, <1>4, <1>5, <1>7, <1>8, <1>9, <1>10, <1>11, <1>12 DEF Next

(* An idle box that takes no operation stays idle.                           *)
LEMMA IdleStays ==
    ASSUME OpsTyped, [Next]_vars, NEW d \in Boxes, op[d] = Idle, ~Takes(d)
    PROVE  op'[d] = Idle
<1>1. OpMoves(d)
    BY OpMovesOn
<1>2. op[d].at = "idle" /\ "idle" \notin NameSteps \union CloneSteps
    BY DEF Idle, NameSteps, CloneSteps
<1> QED BY <1>1, <1>2 DEF OpMoves, CloneMove, CloneChild, CloneInsert, CloneRef, CloneRefer, CloneStage,
           CloneProvision, NameSteps

(* What an operation has staged.                                             *)
LEMMA StagedMoves ==
    ASSUME OpsTyped, [Next]_vars, NEW c \in Boxes, NEW d \in op'[c].staged
    PROVE  /\ op'[c].at \in CloneSteps
           /\ \/ d \in op[c].staged /\ op'[c] = op[c]
              \/ d \in op[c].staged /\ op'[c].base = op[c].base /\ op[c].at \in CloneSteps
              \/ /\ d \in Boxes /\ CloneStage(c, d) /\ op[c].at \in CloneSteps
                 /\ op'[c] = [op[c] EXCEPT !.at = "clone_staging", !.staged = @ \union {d}]
<1>1. OpMoves(c) /\ op[c] \in Op /\ Shaped(op[c]) /\ Shaped(op'[c]) /\ op'[c] \in Op
    BY OpMovesOn, OpsTypedStep DEF OpsTyped
<1>2. op'[c].at \in CloneSteps
    BY <1>1 DEF Shaped
<1>3. op'[c] # Idle
    BY DEF Idle
<1>4. \A at \in NameSteps : at \notin CloneSteps
    BY DEF NameSteps, CloneSteps
<1>5. CASE op'[c] = op[c]
    BY <1>2, <1>5
<1>6. ASSUME op[c].at \in NameSteps, NEW at \in NameSteps, op'[c] = [op[c] EXCEPT !.at = at]
      PROVE  FALSE
    BY <1>1, <1>2, <1>4, <1>6 DEF Op
<1>7. ASSUME NEW k \in Bases, op'[c] = [Idle EXCEPT !.at = "clone_moved", !.base = k]
      PROVE  FALSE
    BY <1>7 DEF Idle
<1>8. ASSUME NEW at, op'[c] = [op[c] EXCEPT !.at = at], op[c].at \in CloneSteps
      PROVE  d \in op[c].staged /\ op'[c].base = op[c].base
    BY <1>1, <1>8 DEF Op
<1>9. ASSUME NEW e \in Boxes, CloneStage(c, e),
             op'[c] = [op[c] EXCEPT !.at = "clone_staging", !.staged = @ \union {e}]
      PROVE  d \in op[c].staged \/ d = e
    BY <1>1, <1>9 DEF Op
<1>10. ASSUME NEW e \in Boxes, op[c].at \in CloneSteps,
              op'[c] = [op[c] EXCEPT !.at = "clone_provisioned", !.dest = e, !.staged = @ \ {e}]
       PROVE  d \in op[c].staged /\ op'[c].base = op[c].base
    BY <1>1, <1>10 DEF Op
<1>11. ASSUME op[c].at \in CloneSteps, op'[c] = [op[c] EXCEPT !.at = "clone_staged", !.dest = NoName]
       PROVE  d \in op[c].staged /\ op'[c].base = op[c].base
    BY <1>1, <1>11 DEF Op
<1>12. /\ CloneChild(c) \/ CloneInsert(c) \/ CloneRef(c) \/ CloneRefer(c) => op[c].at \in CloneSteps
       /\ \A e : CloneStage(c, e) \/ CloneProvision(c, e) => op[c].at \in CloneSteps
    BY DEF CloneChild, CloneInsert, CloneRef, CloneRefer, CloneStage, CloneProvision, CloneSteps
<1>13. ASSUME NEW e \in Boxes, CloneStage(c, e),
              op'[c] = [op[c] EXCEPT !.at = "clone_staging", !.staged = @ \union {e}]
       PROVE  op'[c].base = op[c].base
    BY <1>1, <1>13 DEF Op
<1> QED BY <1>1, <1>2, <1>3, <1>4, <1>5, <1>6, <1>7, <1>8, <1>9, <1>10, <1>11, <1>12, <1>13 DEF OpMoves

(* What a removal has reached.                                               *)
LEMMA RemovalAt ==
    /\ NotRemoving.at = "no"
    /\ \A b : RemoveRow(b) => b \in rows
    /\ \A b : RemoveRefs(b) => rem[b].at = "row"
    /\ \A b : RemoveDisks(b) => rem[b].at = "refs"
    /\ \A b, k : CollectBase(b, k) => rem[b].at = "disks"
    /\ \A b : RemoveDir(b) => rem[b].at = "disks"
BY DEF NotRemoving, RemoveRow, RemoveRefs, RemoveDisks, CollectBase, RemoveDir

LEMMA DirsMove ==
    ASSUME [Next]_vars, NEW d
    PROVE  /\ d \in dirs' => d \in dirs \/ \E c \in Boxes : CloneStage(c, d) /\ d \in Boxes
           /\ d \in dirs => \/ d \in dirs' \/ (RemoveDir(d) /\ d \in Boxes) \/ (Restart /\ d \notin rows')
                            \/ \E c \in Boxes : CloneProvision(c, d) /\ rows' = rows /\ op' = [op EXCEPT ![c] = Idle]
<1>1. ASSUME NEW b \in Boxes, RemoveDir(b) PROVE dirs' = dirs \ {b}
    BY <1>1 DEF RemoveDir
<1>2. ASSUME NEW c \in Boxes, NEW e \in Boxes, CloneProvision(c, e)
      PROVE  dirs' = dirs \/ (dirs' = dirs \ {e} /\ rows' = rows /\ op' = [op EXCEPT ![c] = Idle])
    BY <1>2 DEF CloneProvision
<1>3. ASSUME NEW c \in Boxes, NEW e \in Boxes, CloneStage(c, e)
      PROVE  dirs' = dirs \union {e}
    BY <1>3 DEF CloneStage
<1>4. ASSUME NEW b \in Boxes, Operate(b)
      PROVE  \/ dirs' = dirs \/ RemoveDir(b)
             \/ \E e \in Boxes : CloneProvision(b, e) \/ CloneStage(b, e)
    BY <1>4 DEF Operate, SnapMark, SnapDelete, RestoreBegin, SnapMove, SnapChild, SnapSave, SnapUnmark,
           SnapUnlink, RestoreChild, CloneMove, CloneChild, CloneInsert, CloneRef, CloneRefer,
           RemoveRow, RemoveRefs, RemoveDisks, CollectBase
<1>5. Restart => dirs' = dirs \intersect rows'
    BY DEF Restart
<1>6. UNCHANGED vars => dirs' = dirs
    BY DEF vars
<1> QED BY <1>1, <1>2, <1>3, <1>4, <1>5, <1>6 DEF Next

LEMMA StagedApartStep == Typed /\ [Next]_vars => StagedApart'
<1> SUFFICES ASSUME Typed, [Next]_vars, NEW c \in Boxes, NEW d \in op'[c].staged
             PROVE  /\ d \in dirs' /\ d \notin rows' /\ rem'[d] = NotRemoving /\ op'[d] = Idle
                    /\ \A b \in Boxes \ {c} : d \notin op'[b].staged
    BY DEF StagedApart
<1>1. /\ OpsTyped /\ OpsTyped' /\ dirs \subseteq Boxes
      /\ rem \in [Boxes -> [at : RemSteps, todo : SUBSET Bases]]
    BY OpsTypedStep DEF Typed, TypeOK
<1>2. CASE d \in op[c].staged
    <2>1. /\ d \in dirs /\ d \notin rows /\ rem[d] = NotRemoving /\ op[d] = Idle /\ d \in Boxes
          /\ \A b \in Boxes \ {c} : d \notin op[b].staged
        BY <1>1, <1>2 DEF Typed, StagedApart
    <2>2. ~Takes(d)
        BY <2>1 DEF Takes, Removing
    <2>3. op'[d] = Idle
        BY <1>1, <2>1, <2>2, IdleStays
    <2>4. rem'[d] = NotRemoving
        <3>1. /\ ~RemoveRow(d) /\ ~RemoveRefs(d) /\ ~RemoveDisks(d)
              /\ \A k : ~CollectBase(d, k)
            BY <2>1, RemovalAt
        <3> QED BY <1>1, <2>1, <3>1, RemMoves
    <2>5. ASSUME NEW b \in Boxes, CloneProvision(b, d) PROVE FALSE
        <3>1. b = c
            BY <2>1, <2>5 DEF CloneProvision
        <3>2. CASE op' = [op EXCEPT ![b] = Idle]
            BY <1>1, <3>1, <3>2 DEF OpsTyped, Idle
        <3>3. CASE op' = [op EXCEPT ![b].at = "clone_provisioned", ![b].dest = d, ![b].staged = @ \ {d}]
            <4>1. op'[c].staged = op[c].staged \ {d}
                BY <1>1, <3>1, <3>3 DEF OpsTyped, Op
            <4> QED BY <4>1
        <3> QED BY <2>5, <3>2, <3>3 DEF CloneProvision
    <2>6. d \notin rows'
        BY <2>1, <2>5, RowsMove
    <2>7. d \in dirs'
        <3>1. ~RemoveDir(d)
            BY <2>1 DEF RemoveDir, NotRemoving
        <3>2. ~Restart
            BY DEF Restart, Idle
        <3> QED BY <2>1, <2>5, <3>1, <3>2, DirsMove
    <2>8. ASSUME NEW b \in Boxes \ {c}, d \in op'[b].staged PROVE FALSE
        <3>1. ~CloneStage(b, d)
            BY <2>1 DEF CloneStage, FreeBox
        <3> QED BY <1>1, <2>1, <2>8, <3>1, StagedMoves
    <2> QED BY <2>3, <2>4, <2>6, <2>7, <2>8
<1>3. CASE /\ d \in Boxes /\ CloneStage(c, d) /\ op[c].at \in CloneSteps
    <2>1. /\ d \notin rows /\ d \notin dirs /\ op[d] = Idle /\ rem[d] = NotRemoving
          /\ dirs' = dirs \union {d} /\ rows' = rows /\ rem' = rem
        BY <1>3 DEF CloneStage, FreeBox, Underway, Removing
    <2>2. c # d
        BY <1>3, <2>1 DEF Idle, CloneSteps
    <2>3. \A b \in Boxes \ {c} : op'[b] = op[b]
        <3>1. op' = [op EXCEPT ![c].at = "clone_staging", ![c].staged = @ \union {d}]
            BY <1>3 DEF CloneStage
        <3> QED BY <1>1, <3>1 DEF OpsTyped
    <2>4. \A b \in Boxes : d \notin op[b].staged
        BY <2>1 DEF Typed, StagedApart
    <2> QED BY <1>3, <2>1, <2>2, <2>3, <2>4
<1> QED BY <1>1, <1>2, <1>3, StagedMoves

LEMMA RemovedLastStep == Typed /\ [Next]_vars => RemovedLast'
<1> SUFFICES ASSUME Typed, [Next]_vars, NEW b \in Boxes, rem'[b] # NotRemoving PROVE b \notin rows'
    BY DEF RemovedLast, Removing
<1>1. rem \in [Boxes -> [at : RemSteps, todo : SUBSET Bases]]
    BY DEF Typed, TypeOK
<1>2. CASE RemoveRow(b)
    BY <1>2 DEF RemoveRow
<1>3. CASE rem[b] # NotRemoving
    <2>1. b \notin rows
        BY <1>3 DEF Typed, RemovedLast, Removing
    <2>2. \A c \in Boxes : ~CloneProvision(c, b)
        BY <1>3 DEF Typed, StagedApart, CloneProvision
    <2> QED BY <2>1, <2>2, RowsMove
<1>4. RemoveRefs(b) \/ RemoveDisks(b) \/ (\E k \in Bases : CollectBase(b, k)) => rem[b] # NotRemoving
    BY RemovalAt
<1> QED BY <1>1, <1>2, <1>3, <1>4, RemMoves

LEMMA TypedStep == Typed /\ [Next]_vars => Typed'
<1> SUFFICES ASSUME Typed, [Next]_vars PROVE TypeOK'
    BY OpsTypedStep, StagedApartStep, RemovedLastStep DEF Typed
<1>1. TypeOK /\ OpsTyped /\ OpsTyped' /\ StagedApart /\ RemovedLast
    BY OpsTypedStep DEF Typed
<1>2. /\ DOMAIN files' \subseteq Paths
      /\ \A p \in DOMAIN files' : files'[p] \in [back : Paths \union {NoPath}, sound : BOOLEAN]
    BY FilesMove DEF IsFiles, File
<1>3. dirs' \subseteq Boxes
    BY <1>1, DirsMove DEF TypeOK
<1>4. ASSUME NEW d \in rows' PROVE d \in dirs'
    <2>1. CASE d \in rows
        <3>1. rem[d] = NotRemoving /\ d \in dirs
            BY <1>1, <2>1 DEF TypeOK, RemovedLast, Removing
        <3>2. ~RemoveDir(d)
            BY <3>1 DEF RemoveDir, NotRemoving
        <3>3. \A c \in Boxes : ~CloneProvision(c, d)
            BY <1>1, <2>1 DEF StagedApart, CloneProvision
        <3> QED BY <2>1, <3>1, <3>2, <3>3, DirsMove
    <2>2. CASE d \notin rows
        <3>1. PICK c \in Boxes : CloneProvision(c, d) /\ rows' = rows \union {d} /\ d \in Boxes
            BY <2>2, RowsMove
        <3>2. d \in op[c].staged /\ d \in dirs
            BY <1>1, <3>1 DEF StagedApart, CloneProvision
        <3>3. dirs' = dirs
            BY <2>2, <3>1 DEF CloneProvision
        <3> QED BY <3>2, <3>3
    <2> QED BY <2>1, <2>2
<1>5. snaps' \subseteq Boxes \X Names
    <2>1. ASSUME NEW b \in Boxes, SnapSave(b) PROVE snaps' \subseteq Boxes \X Names
        <3>1. op[b].name \in Names
            BY <1>1, <2>1 DEF SnapSave, OpsTyped, Shaped, NameSteps
        <3> QED BY <1>1, <2>1, <3>1 DEF SnapSave, TypeOK
    <2>2. ASSUME NEW b \in Boxes, Operate(b), ~SnapSave(b) PROVE snaps' \subseteq snaps
        BY <2>2 DEF Operate, SnapMark, SnapDelete, RestoreBegin, SnapMove, SnapChild, SnapUnmark,
               SnapUnlink, RestoreChild, CloneMove, CloneChild, CloneInsert, CloneRef, CloneRefer, CloneStage,
               CloneProvision, RemoveRow, RemoveRefs, RemoveDisks, RemoveDir, CollectBase
    <2>3. Restart \/ UNCHANGED vars => snaps' = snaps
        BY DEF Restart, vars
    <2> QED BY <1>1, <2>1, <2>2, <2>3 DEF Next, TypeOK
<1>6. ASSUME NEW k \in DOMAIN bases' PROVE k \in Bases /\ bases'[k] \in Boxes
    <2>1. ASSUME NEW b \in Boxes, CloneInsert(b), k = op[b].base PROVE k \in Bases
        BY <1>1, <2>1 DEF CloneInsert, OpsTyped, Shaped, CloneSteps
    <2> QED BY <1>1, <2>1, BasesMove DEF TypeOK
<1>7. refs' \subseteq Bases \X Boxes
    <2>1. ASSUME NEW b \in Boxes, CloneRef(b) \/ CloneRefer(b) PROVE refs' \subseteq Bases \X Boxes
        <3>1. op[b].base \in Bases /\ (CloneRefer(b) => op[b].dest \in Boxes)
            BY <1>1, <2>1 DEF CloneRef, CloneRefer, OpsTyped, Shaped, CloneSteps
        <3>2. refs \subseteq Bases \X Boxes
            BY <1>1 DEF TypeOK
        <3>3. CASE CloneRef(b)
            BY <3>1, <3>2, <3>3 DEF CloneRef
        <3>4. CASE CloneRefer(b)
            <4>1. <<op[b].base, op[b].dest>> \in Bases \X Boxes
                BY <3>1, <3>4
            <4> QED BY <3>2, <3>4, <4>1 DEF CloneRefer
        <3> QED BY <2>1, <3>3, <3>4
    <2>2. ASSUME NEW b \in Boxes, Operate(b), ~CloneRef(b), ~CloneRefer(b) PROVE refs' \subseteq refs
        BY <2>2 DEF Operate, SnapMark, SnapDelete, RestoreBegin, SnapMove, SnapChild, SnapSave, SnapUnmark,
               SnapUnlink, RestoreChild, CloneMove, CloneChild, CloneInsert, CloneStage,
               CloneProvision, RemoveRow, RemoveRefs, RemoveDisks, RemoveDir, CollectBase
    <2>3. Restart \/ UNCHANGED vars => refs' = refs
        BY DEF Restart, vars
    <2> QED BY <1>1, <2>1, <2>2, <2>3 DEF Next, TypeOK
<1>8. marker' \in [Boxes -> Names \union {NoName}]
    <2>1. ASSUME NEW b \in Boxes, Operate(b)
          PROVE  \/ marker' = marker
                 \/ \E n \in Names \union {NoName} : marker' = [marker EXCEPT ![b] = n]
        BY <2>1 DEF Operate, SnapMark, SnapDelete, RestoreBegin, SnapMove, SnapChild, SnapSave, SnapUnmark,
               SnapUnlink, RestoreChild, CloneMove, CloneChild, CloneInsert, CloneRef, CloneRefer, CloneStage,
               CloneProvision, RemoveRow, RemoveRefs, RemoveDisks, RemoveDir, CollectBase
    <2>2. Restart \/ UNCHANGED vars => marker' = marker \/ marker' = [b \in Boxes |-> NoName]
        BY DEF Restart, vars
    <2> QED BY <1>1, <2>1, <2>2 DEF Next, TypeOK
<1>9. rem' \in [Boxes -> [at : RemSteps, todo : SUBSET Bases]]
    <2>1. rem \in [Boxes -> [at : RemSteps, todo : SUBSET Bases]]
        BY <1>1 DEF TypeOK
    <2>2. ASSUME NEW b \in Boxes PROVE rem'[b] \in [at : RemSteps, todo : SUBSET Bases]
        <3>1. NotRemoving \in [at : RemSteps, todo : SUBSET Bases]
            BY DEF NotRemoving, RemSteps
        <3>2. ASSUME NEW todo \in SUBSET Bases, NEW at \in RemSteps
              PROVE  [at |-> at, todo |-> todo] \in [at : RemSteps, todo : SUBSET Bases]
            OBVIOUS
        <3>3. {k \in Bases : <<k, b>> \in refs} \in SUBSET Bases /\ {} \in SUBSET Bases
            OBVIOUS
        <3>4. ASSUME NEW k PROVE [rem[b] EXCEPT !.todo = @ \ {k}] \in [at : RemSteps, todo : SUBSET Bases]
            <4>1. rem[b] \in [at : RemSteps, todo : SUBSET Bases] /\ rem[b].todo \ {k} \in SUBSET Bases
                BY <2>1
            <4> QED BY <4>1
        <3>5. [rem[b] EXCEPT !.at = "disks"] \in [at : RemSteps, todo : SUBSET Bases]
            BY <2>1 DEF RemSteps
        <3>6. "row" \in RemSteps /\ "refs" \in RemSteps
            BY DEF RemSteps
        <3>7. rem[b] \in [at : RemSteps, todo : SUBSET Bases]
            BY <2>1
        <3>8. /\ [at |-> "row", todo |-> {}] \in [at : RemSteps, todo : SUBSET Bases]
              /\ [at |-> "refs", todo |-> {k \in Bases : <<k, b>> \in refs}]
                    \in [at : RemSteps, todo : SUBSET Bases]
            BY <3>2, <3>3, <3>6
        <3>9. \/ rem'[b] = rem[b] \/ rem'[b] = NotRemoving
              \/ rem'[b] = [at |-> "row", todo |-> {}]
              \/ rem'[b] = [at |-> "refs", todo |-> {k \in Bases : <<k, b>> \in refs}]
              \/ rem'[b] = [rem[b] EXCEPT !.at = "disks"]
              \/ \E k : rem'[b] = [rem[b] EXCEPT !.todo = @ \ {k}]
            BY <2>1, RemMoves
        <3> QED BY <3>1, <3>4, <3>5, <3>7, <3>8, <3>9
    <2>3. rem' = [b \in Boxes |-> rem'[b]]
        <3>1. \A b \in Boxes : rem' = [c \in Boxes |-> rem'[c]]
            BY <2>1, RemMoves
        <3>2. CASE Boxes = {}
            <4>1. rem' = rem \/ rem' = [b \in Boxes |-> NotRemoving]
                BY <3>2 DEF Next, Restart, vars
            <4> QED BY <2>1, <4>1
        <3> QED BY <3>1, <3>2
    <2> QED BY <2>2, <2>3
<1>10. torn' \in BOOLEAN
    <2>1. torn' = torn \/ torn' = (torn \/ Removing # {} \/ Survivors # rows)
        BY DEF Next, Restart, vars, Operate, SnapMark, SnapDelete, RestoreBegin, SnapMove, SnapChild, SnapSave,
               SnapUnmark, SnapUnlink, RestoreChild, CloneMove, CloneChild, CloneInsert, CloneRef, CloneRefer,
               CloneStage, CloneProvision, RemoveRow, RemoveRefs, RemoveDisks, RemoveDir, CollectBase
    <2>2. torn \in BOOLEAN /\ (torn \/ Removing # {} \/ Survivors # rows) \in BOOLEAN
        BY <1>1 DEF TypeOK
    <2> QED BY <2>1, <2>2
<1>11. load' = load
    BY DEF Next, Restart, vars, Operate, SnapMark, SnapDelete, RestoreBegin, SnapMove, SnapChild, SnapSave,
           SnapUnmark, SnapUnlink, RestoreChild, CloneMove, CloneChild, CloneInsert, CloneRef, CloneRefer,
           CloneStage, CloneProvision, RemoveRow, RemoveRefs, RemoveDisks, RemoveDir, CollectBase
<1>12. op' \in [Boxes -> Op]
    BY <1>1 DEF OpsTyped
<1> QED BY <1>1, <1>2, <1>3, <1>4, <1>5, <1>6, <1>7, <1>8, <1>9, <1>10, <1>11, <1>12 DEF TypeOK, Op

LEMMA InitTyped == Init => Typed
<1> SUFFICES ASSUME Init PROVE Typed
    OBVIOUS
<1>1. PICK b \in Boxes :
        /\ files = [p \in {Disk(b)} |-> [back |-> NoPath, sound |-> TRUE]]
        /\ dirs = {b} /\ rows = {b} /\ snaps = {} /\ bases = [k \in {} |-> b] /\ refs = {}
        /\ marker = [c \in Boxes |-> NoName] /\ op = [c \in Boxes |-> Idle]
        /\ rem = [c \in Boxes |-> NotRemoving] /\ torn = FALSE /\ load \in Loads
    BY DEF Init
<1>2. Idle \in Op /\ Shaped(Idle) /\ Idle.staged = {}
    BY DEF Idle, Op, Shaped, OpSteps, CloneSteps, NameSteps
<1>3. Disk(b) \in Paths
    BY Homes
<1>4. NotRemoving \in [at : RemSteps, todo : SUBSET Bases]
    BY DEF NotRemoving, RemSteps
<1>5. TypeOK
    BY <1>1, <1>2, <1>3, <1>4 DEF TypeOK, Op
<1>6. OpsTyped /\ StagedApart /\ RemovedLast
    BY <1>1, <1>2 DEF OpsTyped, StagedApart, RemovedLast, Removing
<1> QED BY <1>5, <1>6 DEF Typed

(* Every variable stays in its domain, under every fault: a box that has a   *)
(* row has its directory, because a staged clone is one operation's alone    *)
(* and a box is removed after its row (local_snapshot.rs:240, rt_impl.rs).   *)
THEOREM DisksTyped == Spec => []TypeOK
<1>1. Typed /\ [Next]_vars => Typed'
    BY TypedStep
<1>2. Typed => TypeOK
    BY DEF Typed
<1> QED BY <1>1, <1>2, InitTyped, PTL DEF Spec

-----------------------------------------------------------------------------
(* Backing chains.                                                           *)

LEMMA LeastExists ==
    ASSUME NEW S, S \subseteq Nat, S # {}
    PROVE  \E n \in S : \A m \in S : ~(m < n)
<1>1. PICK n \in S : \A m \in S : ~(<<m, n>> \in OpToRel(<, Nat))
    BY WFMin, NatLessThanWellFounded
<1>2. \A m \in S : m < n => <<m, n>> \in OpToRel(<, Nat)
    BY DEF OpToRel
<1> QED BY <1>1, <1>2

\* An iteration is the function its recursion describes.
LEMMA Iterates ==
    ASSUME NEW fs, NEW q, NEW N \in Nat
    PROVE  LET at == CHOOSE w : w = [i \in 0..N |-> IF i = 0 THEN q ELSE Under(fs, w[i - 1])]
           IN  at = [i \in 0..N |-> IF i = 0 THEN q ELSE Under(fs, at[i - 1])]
<1> DEFINE Walks(n, w) == w = [i \in 0..n |-> IF i = 0 THEN q ELSE Under(fs, w[i - 1])]
           Stuck == {n \in Nat : ~\E w : Walks(n, w)}
<1>1. ASSUME NEW n \in Nat, NEW w, Walks(n, w) PROVE \E v : Walks(n + 1, v)
    <2> DEFINE v == [i \in 0..(n + 1) |-> IF i = 0 THEN q ELSE Under(fs, w[i - 1])]
    <2>1. \A i \in 0..n : v[i] = w[i]
        BY <1>1
    <2>2. v = [i \in 0..(n + 1) |-> IF i = 0 THEN q ELSE Under(fs, v[i - 1])]
        <3>1. \A i \in 0..(n + 1) : i # 0 => i - 1 \in 0..n
            OBVIOUS
        <3>2. \A i \in 0..(n + 1) : v[i] = IF i = 0 THEN q ELSE Under(fs, v[i - 1])
            BY <2>1, <3>1
        <3> QED BY <3>2
    <2> HIDE DEF v
    <2> QED BY <2>2
<1>2. \E w : Walks(0, w)
    <2>1. Walks(0, [i \in {0} |-> q])
        OBVIOUS
    <2> HIDE DEF Walks
    <2> QED BY <2>1
<1> HIDE DEF Walks
<1>3. Stuck = {}
    <2>1. SUFFICES ASSUME Stuck # {} PROVE FALSE
        OBVIOUS
    <2>2. PICK n \in Stuck : \A m \in Stuck : ~(m < n)
        BY <2>1, LeastExists
    <2>3. n \in Nat /\ n # 0
        BY <1>2, <2>2
    <2>4. n - 1 \in Nat /\ n - 1 < n /\ (n - 1) + 1 = n
        BY <2>3
    <2>5. \E w : Walks(n - 1, w)
        BY <2>2, <2>4
    <2> QED BY <1>1, <2>2, <2>4, <2>5
<1>5. PICK w : Walks(N, w)
    BY <1>3
<1> DEFINE at == CHOOSE w0 : Walks(N, w0)
<1>7. Walks(N, at)
    BY <1>5
<1> QED BY <1>7 DEF Walks

(* So is the walk along backing paths.                                       *)
LEMMA WalkSteps ==
    ASSUME NEW fs, NEW q
    PROVE  /\ DOMAIN Walk(fs, q) = 0..MaxDepth /\ Walk(fs, q)[0] = q
           /\ \A i \in 1..MaxDepth : Walk(fs, q)[i] = Under(fs, Walk(fs, q)[i - 1])
<1>1. MaxDepth \in Nat
    BY MaxDepthAssumption
<1>2. Walk(fs, q) = [i \in 0..MaxDepth |-> IF i = 0 THEN q ELSE Under(fs, Walk(fs, q)[i - 1])]
    BY <1>1, Iterates DEF Walk
<1> QED BY <1>1, <1>2

(* Whatever holds of the first file and passes on to the next holds of all.  *)
LEMMA WalkStays ==
    ASSUME NEW fs, NEW q, NEW S, q \in S, NoPath \in S,
           \A p \in S : p \in DOMAIN fs => Under(fs, p) \in S
    PROVE  \A i \in 0..MaxDepth : Walk(fs, q)[i] \in S
<1> DEFINE Out == {i \in 0..MaxDepth : Walk(fs, q)[i] \notin S}
<1>1. SUFFICES ASSUME Out # {} PROVE FALSE
    OBVIOUS
<1>2. PICK i \in Out : \A j \in Out : ~(j < i)
    <2>1. Out \subseteq Nat
        BY MaxDepthAssumption
    <2> HIDE DEF Out
    <2> QED BY <1>1, <2>1, LeastExists
<1>3. i \in 1..MaxDepth /\ i - 1 \in 0..MaxDepth /\ i - 1 < i
    BY <1>2, WalkSteps, MaxDepthAssumption
<1>4. Walk(fs, q)[i - 1] \in S
    BY <1>2, <1>3
<1>5. Walk(fs, q)[i] = Under(fs, Walk(fs, q)[i - 1])
    BY <1>3, WalkSteps
<1>6. Under(fs, Walk(fs, q)[i - 1]) \in S
    BY <1>1, <1>4 DEF Under
<1> QED BY <1>2, <1>5, <1>6

(* A path on a chain backs a file that the walk reaches.                     *)
LEMMA ChainEdge ==
    ASSUME NEW fs, NEW q, NEW i \in 1..MaxDepth, Walk(fs, q)[i] # NoPath
    PROVE  /\ i - 1 \in 0..MaxDepth
           /\ Walk(fs, q)[i - 1] \in DOMAIN fs
           /\ fs[Walk(fs, q)[i - 1]].back = Walk(fs, q)[i]
           /\ Walk(fs, q)[i] \in DOMAIN fs
BY WalkSteps, MaxDepthAssumption DEF Under
-----------------------------------------------------------------------------
(* Clones. Where no removal overlaps a box's operations, a base belongs to   *)
(* the clone that makes it until boxes refer to it, and what is staged is    *)
(* nobody else's.                                                            *)

Fresh == {"clone_moved", "clone_forked", "clone_inserted"}
Bound == {"clone_based", "clone_staging", "clone_provisioned", "clone_staged"}

OpsOfRows ==
    \A b \in Boxes : /\ op[b] # Idle => b \in rows
                     /\ op[b].at = "clone_provisioned" => op[b].dest \in rows

RefsGone == \A b \in Boxes : rem[b].at \in {"refs", "disks"} => \A k \in Bases : <<k, b>> \notin refs

RefsNamed == \A k, c : <<k, c>> \in refs => k \in DOMAIN bases

\* A new base backs its source's disk only, and nobody refers to it.
FreshBases ==
    \A c \in Boxes : op[c].at \in Fresh =>
        /\ \A b \in Boxes : <<op[c].base, b>> \notin refs /\ op[c].base \notin rem[b].todo
        /\ \A p \in DOMAIN files : files[p].back = Base(op[c].base) => p = Disk(c)
        /\ IF op[c].at = "clone_inserted"
           THEN op[c].base \in DOMAIN bases /\ bases[op[c].base] = c
           ELSE op[c].base \notin DOMAIN bases

NoneOnDisk == \A p \in DOMAIN files : files[p].back \notin DiskPaths

BoundBases ==
    \A c \in Boxes : op[c].at \in Bound =>
        op[c].base \in DOMAIN bases /\ bases[op[c].base] = c /\ <<op[c].base, c>> \in refs

OneBase == \A b, c \in Boxes : op[b].base = op[c].base /\ op[b].base # NoName => b = c

StagedFresh ==
    \A c \in Boxes : \A d \in op[c].staged :
        /\ \A k : <<k, d>> \notin refs /\ (k \in DOMAIN bases => bases[k] # d)
        /\ \A p \in Home(d) \intersect DOMAIN files : files[p].back = Base(op[c].base)

ClonesInv ==
    /\ OpsOfRows /\ RefsGone /\ RefsNamed /\ FreshBases /\ BoundBases
    /\ OneBase /\ NoneOnDisk /\ StagedFresh

LEMMA ClonesInit == Init => ClonesInv
<1> SUFFICES ASSUME Init PROVE ClonesInv
    OBVIOUS
<1>1. PICK b \in Boxes :
        /\ files = [p \in {Disk(b)} |-> [back |-> NoPath, sound |-> TRUE]]
        /\ bases = [k \in {} |-> b] /\ refs = {}
        /\ op = [c \in Boxes |-> Idle] /\ rem = [c \in Boxes |-> NotRemoving]
    BY DEF Init
<1>2. \A c \in Boxes : op[c].at = "idle" /\ op[c] = Idle /\ op[c].staged = {} /\ op[c].base = NoName
    BY <1>1 DEF Idle
<1>3. NoneOnDisk
    <2>1. DiskPaths \subseteq Paths
        BY Homes DEF DiskPaths
    <2> QED BY <1>1, <2>1, NoPathAssumption DEF NoneOnDisk
<1> QED BY <1>1, <1>2, <1>3 DEF ClonesInv, OpsOfRows, RefsGone, RefsNamed, FreshBases, BoundBases, OneBase,
           StagedFresh, Fresh, Bound

(* A busy box is not removed, and it takes a call only while it has a row.   *)
LEMMA NoRace ==
    ASSUME "race" \notin Faults, Typed
    PROVE  /\ \A b \in Boxes : Takes(b) => b \in rows
           /\ \A b \in Boxes : RemoveRow(b) => ~Busy(b) /\ UNCHANGED op
BY DEF Takes, RemoveRow

LEMMA OpsOfRowsStep ==
    ASSUME "race" \notin Faults, Typed, OpsOfRows, [Next]_vars
    PROVE  OpsOfRows'
<1> SUFFICES ASSUME NEW b \in Boxes
             PROVE  /\ op'[b] # Idle => b \in rows'
                    /\ op'[b].at = "clone_provisioned" => op'[b].dest \in rows'
    BY DEF OpsOfRows
<1>1. OpMoves(b) /\ op[b] \in Op /\ Shaped(op[b])
    BY OpMovesOn DEF Typed, OpsTyped
<1>2. ASSUME op'[b] # Idle PROVE b \in rows'
    <2>1. op[b] # Idle \/ Takes(b)
        BY <1>2, IdleStays DEF Typed
    <2>2. b \in rows
        BY <2>1, NoRace DEF OpsOfRows
    <2>3. RemoveRow(b) => op'[b] = Idle
        BY NoRace DEF Busy
    <2>4. Restart => op'[b] = Idle
        BY DEF Restart
    <2> QED BY <1>2, <2>2, <2>3, <2>4, RowsMove
<1>3. ASSUME op'[b].at = "clone_provisioned" PROVE op'[b].dest \in rows'
    <2>1. CASE op'[b] = op[b]
        <3>1. op[b].dest \in rows /\ Cloning(b)
            BY <1>3, <2>1 DEF OpsOfRows, Cloning, CloneSteps
        <3>2. ~RemoveRow(op[b].dest)
            <4>1. op[b].dest \in Boxes
                BY <3>1 DEF Typed, TypeOK
            <4> QED BY <3>1, <4>1, NoRace DEF Busy
        <3>3. ~Restart
            BY <1>3 DEF Restart, Idle
        <3> QED BY <2>1, <3>1, <3>2, <3>3, RowsMove
    <2>2. ASSUME NEW d \in Boxes, rows' = rows \union {d},
                 op'[b] = [op[b] EXCEPT !.at = "clone_provisioned", !.dest = d, !.staged = @ \ {d}]
          PROVE  op'[b].dest \in rows'
        BY <1>1, <2>2 DEF Op
    <2>3. op'[b].at \notin NameSteps \union {"idle", "clone_moved", "clone_forked", "clone_inserted",
                                            "clone_based", "clone_staging", "clone_staged"}
        BY <1>3 DEF NameSteps
    <2>4. Idle.at = "idle"
        BY DEF Idle
    <2>5. ASSUME NEW at, op'[b] = [op[b] EXCEPT !.at = at] PROVE op'[b].at = at
        BY <1>1, <2>5 DEF Op
    <2>6. ASSUME NEW k, op'[b] = [Idle EXCEPT !.at = "clone_moved", !.base = k] PROVE op'[b].at = "clone_moved"
        BY <2>6 DEF Idle
    <2>7. ASSUME NEW d, op'[b] = [op[b] EXCEPT !.at = "clone_staging", !.staged = @ \union {d}]
          PROVE  op'[b].at = "clone_staging"
        BY <1>1, <2>7 DEF Op
    <2>8. ASSUME op'[b] = [op[b] EXCEPT !.at = "clone_staged", !.dest = NoName]
          PROVE  op'[b].at = "clone_staged"
        BY <1>1, <2>8 DEF Op
    <2> QED BY <1>1, <2>1, <2>2, <2>3, <2>4, <2>5, <2>6, <2>7, <2>8 DEF OpMoves
<1> QED BY <1>2, <1>3

(* What a collection dooms has no references, and is never a fresh base.     *)
LEMMA DoomedUnreferred ==
    ASSUME Typed, NEW j, NEW k \in Doomed(j)
    PROVE  k \in DOMAIN bases /\ \A c \in Boxes : <<k, c>> \notin refs
<1> DEFINE K == {i \in Bases : Collectable(i)}
<1>1. ASSUME NEW i, Collectable(i) PROVE i \in K
    BY <1>1 DEF Typed, TypeOK, Collectable
<1>2. Closed(K, j) /\ K \in SUBSET Bases
    BY <1>1 DEF Closed
<1>3. k \in K
    BY <1>2 DEF Doomed
<1> QED BY <1>3 DEF Collectable

LEMMA FreshNotDoomed ==
    ASSUME Typed, FreshBases, NoneOnDisk, NEW b \in Boxes, NEW j \in rem[b].todo,
           NEW c \in Boxes, op[c].at \in Fresh
    PROVE  op[c].base \notin Doomed(j)
<1> DEFINE k == op[c].base
           K == {i \in Bases : Collectable(i)} \ {k}
<1>1. k # j /\ k \in Bases
    BY DEF FreshBases, Typed, OpsTyped, Shaped, Fresh, CloneSteps
<1>2. ASSUME NEW i \in K, k \in ParentBases(files, Base(i)) PROVE FALSE
    <2>1. PICK n \in 1..MaxDepth : Walk(files, Base(i))[n] = Base(k)
        BY <1>2 DEF ParentBases
    <2>2. Base(k) \in Paths /\ Base(k) # NoPath
        BY <1>1, Homes, NoPathAssumption
    <2>3. /\ n - 1 \in 0..MaxDepth /\ Walk(files, Base(i))[n - 1] \in DOMAIN files
          /\ files[Walk(files, Base(i))[n - 1]].back = Base(k)
        BY <2>1, <2>2, ChainEdge
    <2>4. Walk(files, Base(i))[n - 1] = Disk(c)
        BY <2>3 DEF FreshBases
    <2>5. CASE n - 1 = 0
        BY <2>4, <2>5, WalkSteps, PathsApart
    <2>6. CASE n - 1 \in 1..MaxDepth
        <3>1. Disk(c) # NoPath /\ Disk(c) \in DiskPaths
            BY Homes, NoPathAssumption DEF DiskPaths
        <3>2. \E p \in DOMAIN files : files[p].back = Disk(c)
            BY <2>4, <2>6, <3>1, ChainEdge
        <3> QED BY <3>1, <3>2 DEF NoneOnDisk
    <2> QED BY <2>3, <2>5, <2>6, MaxDepthAssumption
<1>3. ASSUME NEW i, Collectable(i), i # k PROVE i \in K
    BY <1>3 DEF Typed, TypeOK, Collectable
<1>4. Closed(K, j) /\ K \in SUBSET Bases
    BY <1>1, <1>2, <1>3 DEF Closed
<1>5. k \notin K
    OBVIOUS
<1> QED BY <1>4, <1>5 DEF Doomed

(* A clone's base through its phases.                                        *)
LEMMA BaseMoves ==
    ASSUME OpsTyped, [Next]_vars, NEW c \in Boxes
    PROVE  \/ op'[c].base = NoName /\ op'[c].at \notin CloneSteps
           \/ \E k \in Bases : CloneMove(c, k) /\ op'[c].base = k /\ op'[c].at = "clone_moved"
           \/ /\ op'[c].base = op[c].base
              /\ \/ op'[c].at = op[c].at
                 \/ CloneChild(c) /\ op[c].at = "clone_moved" /\ op'[c].at = "clone_forked"
                 \/ /\ CloneInsert(c) /\ bases' = With(bases, op[c].base, c)
                    /\ op[c].at = "clone_forked" /\ op'[c].at = "clone_inserted"
                 \/ /\ CloneRef(c) /\ refs' = refs \union {<<op[c].base, c>>}
                    /\ op[c].at = "clone_inserted" /\ op'[c].at = "clone_based"
                 \/ op[c].at \in Bound /\ op'[c].at \in Bound
<1>1. OpMoves(c) /\ op[c] \in Op /\ op'[c] \in Op /\ Shaped(op[c]) /\ Shaped(op'[c])
    BY OpMovesOn, OpsTypedStep DEF OpsTyped
<1>2. \A at \in NameSteps : at \notin CloneSteps
    BY DEF NameSteps, CloneSteps
<1>3. op'[c].at \in NameSteps \/ op'[c] = Idle => op'[c].at \notin CloneSteps /\ op'[c].base = NoName
    BY <1>1, <1>2 DEF Shaped, Idle, CloneSteps
<1>4. ASSUME NEW at, op'[c] = [op[c] EXCEPT !.at = at] PROVE op'[c].at = at /\ op'[c].base = op[c].base
    BY <1>1, <1>4 DEF Op
<1>5. ASSUME NEW k \in Bases, op'[c] = [Idle EXCEPT !.at = "clone_moved", !.base = k]
      PROVE  op'[c].base = k /\ op'[c].at = "clone_moved"
    BY <1>5 DEF Idle
<1>6. ASSUME NEW d, CloneStage(c, d), op'[c] = [op[c] EXCEPT !.at = "clone_staging", !.staged = @ \union {d}]
      PROVE  op'[c].base = op[c].base /\ op[c].at \in Bound /\ op'[c].at \in Bound
    BY <1>1, <1>6 DEF Op, CloneStage, Bound
<1>7. ASSUME NEW d, CloneProvision(c, d),
             op'[c] = [op[c] EXCEPT !.at = "clone_provisioned", !.dest = d, !.staged = @ \ {d}]
      PROVE  op'[c].base = op[c].base /\ op[c].at \in Bound /\ op'[c].at \in Bound
    BY <1>1, <1>7 DEF Op, CloneProvision, Bound
<1>8. ASSUME CloneRefer(c), op'[c] = [op[c] EXCEPT !.at = "clone_staged", !.dest = NoName]
      PROVE  op'[c].base = op[c].base /\ op[c].at \in Bound /\ op'[c].at \in Bound
    BY <1>1, <1>8 DEF Op, CloneRefer, Bound
<1>9. /\ CloneChild(c) => op[c].at = "clone_moved"
      /\ CloneInsert(c) => op[c].at = "clone_forked"
      /\ CloneRef(c) => op[c].at = "clone_inserted"
    BY DEF CloneChild, CloneInsert, CloneRef
<1> QED BY <1>1, <1>3, <1>4, <1>5, <1>6, <1>7, <1>8, <1>9 DEF OpMoves

(* The steps of a clone that is under way name its base.                     *)
LEMMA ClonersBase ==
    ASSUME OpsTyped, NEW c \in Boxes
    PROVE  /\ op[c].at \in Fresh \union Bound <=> op[c].at \in CloneSteps
           /\ op[c].at \in CloneSteps => op[c].base \in Bases /\ op[c].base # NoName /\ op[c] # Idle
           /\ CloneChild(c) => op[c].at = "clone_moved"
           /\ CloneInsert(c) => op[c].at = "clone_forked"
           /\ CloneRef(c) => op[c].at = "clone_inserted"
           /\ CloneRefer(c) => op[c].at = "clone_provisioned"
           /\ \A d : CloneStage(c, d) => op[c].at \in {"clone_based", "clone_staging"} /\ FreeBox(d)
           /\ \A k : CloneMove(c, k) => op[c] = Idle /\ FreeBase(k)
<1>1. Shaped(op[c]) /\ op[c].at \in OpSteps
    BY DEF OpsTyped, Op
<1>2. op[c].at \in CloneSteps => op[c].base \in Bases /\ op[c].base # NoName /\ op[c] # Idle
    BY <1>1, NoNameAssumption DEF Shaped, Idle, CloneSteps
<1> QED BY <1>1, <1>2 DEF Fresh, Bound, CloneSteps, CloneChild, CloneInsert, CloneRef, CloneRefer, CloneStage,
           CloneMove, Takes

LEMMA OneBaseStep == Typed /\ OneBase /\ [Next]_vars => OneBase'
<1> SUFFICES ASSUME Typed, OneBase, [Next]_vars, NEW b \in Boxes, NEW c \in Boxes,
                    op'[b].base = op'[c].base, op'[b].base # NoName, b # c
             PROVE  FALSE
    BY DEF OneBase
<1>1. OpsTyped
    BY DEF Typed
<1>2. ASSUME NEW x \in Boxes, NEW y \in Boxes, x # y, op'[x] = op[x], op'[y].base = op'[x].base, op'[x].base # NoName
      PROVE  FALSE
    <2>1. op[x].base # op[y].base
        BY <1>2 DEF OneBase
    <2>2. PICK k \in Bases : CloneMove(y, k) /\ op'[y].base = k
        BY <1>1, <1>2, <2>1, BaseMoves
    <2>3. op[x].base # k
        BY <1>1, <2>2, ClonersBase DEF FreeBase
    <2> QED BY <1>2, <2>2, <2>3
<1>3. CASE Restart
    BY <1>3 DEF Restart, Idle
<1>4. CASE UNCHANGED vars
    BY <1>4 DEF vars, OneBase
<1>5. ASSUME NEW x \in Boxes, \A y \in Boxes \ {x} : op'[y] = op[y]
      PROVE  FALSE
    BY <1>2, <1>5
<1> QED BY <1>1, <1>3, <1>4, <1>5, OpMovesOn

LEMMA NoneOnDiskStep == Typed /\ NoneOnDisk /\ [Next]_vars => NoneOnDisk'
<1> SUFFICES ASSUME Typed, NoneOnDisk, [Next]_vars, NEW p \in DOMAIN files'
             PROVE  files'[p].back \notin DiskPaths
    BY DEF NoneOnDisk, DiskPaths
<1>1. Comes(p) /\ rows \subseteq Boxes
    BY FilesMove DEF Typed, TypeOK
<1>2. \A q \in DOMAIN files : files[q].back \notin DiskPaths
    BY DEF NoneOnDisk
<1>3. \A b, n, k : Snap(b, n) \notin DiskPaths /\ Base(k) \notin DiskPaths
    BY PathsApart DEF DiskPaths
<1> QED BY <1>1, <1>2, <1>3 DEF Comes

LEMMA RefsGoneStep ==
    ASSUME Typed, OpsOfRows, RefsGone, [Next]_vars
    PROVE  RefsGone'
<1> SUFFICES ASSUME NEW b \in Boxes, rem'[b].at \in {"refs", "disks"}, NEW k \in Bases, <<k, b>> \in refs'
             PROVE  FALSE
    BY DEF RefsGone
<1>1. OpsTyped /\ rem \in [Boxes -> [at : RemSteps, todo : SUBSET Bases]]
    BY DEF Typed, TypeOK
<1>2. ~RemoveRefs(b)
    <2>1. RemoveRefs(b) => refs' = {r \in refs : r[2] # b}
        BY DEF RemoveRefs
    <2>2. <<k, b>>[2] = b
        OBVIOUS
    <2> QED BY <2>1, <2>2
<1>3. rem[b].at \in {"refs", "disks"}
    <2>1. \A i : [rem[b] EXCEPT !.todo = @ \ {i}].at = rem[b].at
        BY <1>1
    <2>2. [at |-> "row", todo |-> {}].at = "row"
        OBVIOUS
    <2> QED BY <1>1, <1>2, <2>1, <2>2, RemMoves, RemovalAt
<1>4. rem[b] # NotRemoving
    BY <1>3, RemovalAt
<1>5. b \notin rows
    BY <1>4 DEF Typed, RemovedLast, Removing
<1>6. ~CloneRef(b)
    BY <1>1, <1>5, ClonersBase DEF OpsOfRows, CloneSteps
<1>7. \A c \in Boxes : CloneRefer(c) => op[c].dest # b
    BY <1>5 DEF OpsOfRows, CloneRefer
<1> QED BY <1>3, <1>6, <1>7, RefsMove DEF RefsGone

LEMMA RefsNamedStep ==
    ASSUME Typed, ClonesInv, [Next]_vars
    PROVE  RefsNamed'
<1> SUFFICES ASSUME NEW k, NEW c, <<k, c>> \in refs' PROVE k \in DOMAIN bases'
    BY DEF RefsNamed
<1>1. OpsTyped /\ refs \subseteq Bases \X Boxes
    BY DEF Typed, TypeOK
<1>2. k \in DOMAIN bases
    <2>1. ASSUME CloneRef(c), c \in Boxes, k = op[c].base PROVE k \in DOMAIN bases
        BY <1>1, <2>1, ClonersBase DEF ClonesInv, FreshBases, Fresh
    <2>2. ASSUME NEW b \in Boxes, CloneRefer(b), k = op[b].base PROVE k \in DOMAIN bases
        BY <1>1, <2>2, ClonersBase DEF ClonesInv, BoundBases, Bound
    <2> QED BY <2>1, <2>2, RefsMove DEF ClonesInv, RefsNamed
<1>3. ASSUME NEW b \in Boxes, NEW j \in Bases, CollectBase(b, j), k \in Doomed(j) PROVE FALSE
    <2>1. <<k, c>> \in refs
        BY <1>3 DEF CollectBase
    <2> QED BY <1>1, <1>3, <2>1, DoomedUnreferred
<1> QED BY <1>2, <1>3, BasesMove

LEMMA BoundBasesStep ==
    ASSUME Typed, ClonesInv, [Next]_vars
    PROVE  BoundBases'
<1> SUFFICES ASSUME NEW c \in Boxes, op'[c].at \in Bound
             PROVE  op'[c].base \in DOMAIN bases' /\ bases'[op'[c].base] = c /\ <<op'[c].base, c>> \in refs'
    BY DEF BoundBases
<1> DEFINE k == op[c].base
<1>1. OpsTyped
    BY DEF Typed
<1>2. "clone_moved" \notin Bound /\ "clone_forked" \notin Bound /\ "clone_inserted" \notin Bound
      /\ Bound \subseteq CloneSteps
    BY DEF Bound, CloneSteps
<1>3. /\ op'[c].base = k
      /\ \/ op[c].at \in Bound
         \/ CloneRef(c) /\ refs' = refs \union {<<k, c>>} /\ op[c].at = "clone_inserted"
    BY <1>1, <1>2, BaseMoves
<1>4. CASE CloneRef(c) /\ refs' = refs \union {<<k, c>>} /\ op[c].at = "clone_inserted"
    <2>1. k \in DOMAIN bases /\ bases[k] = c
        BY <1>4 DEF ClonesInv, FreshBases, Fresh
    <2>2. bases' = bases
        BY <1>4 DEF CloneRef
    <2> QED BY <1>3, <1>4, <2>1, <2>2
<1>5. CASE op[c].at \in Bound
    <2>1. k \in DOMAIN bases /\ bases[k] = c /\ <<k, c>> \in refs /\ c \in rows /\ k # NoName
        BY <1>1, <1>2, <1>5, ClonersBase DEF ClonesInv, BoundBases, OpsOfRows
    <2>2. <<k, c>> \in refs'
        <3>1. ~RemoveRefs(c)
            BY <2>1, RemovalAt DEF Typed, RemovedLast, Removing
        <3> QED BY <2>1, <3>1, RefsMove
    <2>3. k \in DOMAIN bases'
        BY <2>1, DoomedUnreferred, BasesMove
    <2>4. ASSUME NEW b \in Boxes, CloneInsert(b), k = op[b].base PROVE FALSE
        <3>1. b = c
            BY <2>1, <2>4 DEF ClonesInv, OneBase
        <3> QED BY <1>1, <1>2, <1>5, <2>4, <3>1, ClonersBase DEF Bound
    <2>5. bases'[k] = c
        BY <2>1, <2>3, <2>4, BasesMove
    <2> QED BY <1>3, <2>2, <2>3, <2>5
<1> QED BY <1>3, <1>4, <1>5

LEMMA FreshBasesStep ==
    ASSUME Typed, ClonesInv, OneBase', OpsTyped', [Next]_vars
    PROVE  FreshBases'
<1> SUFFICES ASSUME NEW c \in Boxes, op'[c].at \in Fresh
             PROVE  /\ \A b \in Boxes : <<op'[c].base, b>> \notin refs' /\ op'[c].base \notin rem'[b].todo
                    /\ \A p \in DOMAIN files' : files'[p].back = Base(op'[c].base) => p = Disk(c)
                    /\ IF op'[c].at = "clone_inserted"
                       THEN op'[c].base \in DOMAIN bases' /\ bases'[op'[c].base] = c
                       ELSE op'[c].base \notin DOMAIN bases'
    BY DEF FreshBases
<1> DEFINE k == op'[c].base
<1>1. /\ OpsTyped /\ rem \in [Boxes -> [at : RemSteps, todo : SUBSET Bases]]
      /\ refs \subseteq Bases \X Boxes /\ rows \subseteq Boxes
    BY DEF Typed, TypeOK
<1>2. Fresh \subseteq CloneSteps /\ Fresh \intersect Bound = {}
    BY DEF Fresh, Bound, CloneSteps
<1>3. k \in Bases /\ k # NoName
    BY <1>2, NoNameAssumption DEF OpsTyped, Shaped
<1>4. \/ CloneMove(c, k) /\ op'[c].at = "clone_moved"
      \/ /\ op[c].base = k /\ op[c].at \in Fresh
         /\ \/ op'[c].at = op[c].at
            \/ CloneChild(c) /\ op[c].at = "clone_moved" /\ op'[c].at = "clone_forked"
            \/ /\ CloneInsert(c) /\ bases' = With(bases, k, c)
               /\ op[c].at = "clone_forked" /\ op'[c].at = "clone_inserted"
    BY <1>1, <1>2, BaseMoves DEF Fresh

\* Nobody else's clone has this base.
<1>5. ASSUME NEW b \in Boxes, op[b].base = k
      PROVE  b = c /\ op[c].at \in Fresh /\ ~CloneMove(c, k)
    <2>1. ~CloneMove(c, k)
        BY <1>1, <1>5, ClonersBase DEF FreeBase
    <2> QED BY <1>3, <1>4, <1>5, <2>1 DEF ClonesInv, OneBase
<1>6. /\ \A b \in Boxes : <<k, b>> \notin refs /\ k \notin rem[b].todo
      /\ \A p \in DOMAIN files : files[p].back = Base(k) => p = Disk(c) /\ op[c].at \in Fresh
    <2>1. CASE CloneMove(c, k)
        BY <1>1, <2>1, ClonersBase DEF FreeBase
    <2>2. CASE op[c].base = k /\ op[c].at \in Fresh
        BY <2>2 DEF ClonesInv, FreshBases
    <2> QED BY <1>4, <2>1, <2>2
<1>7. ASSUME NEW b \in Boxes PROVE <<k, b>> \notin refs'
    <2>1. ASSUME CloneRef(b), k = op[b].base, Step(b, "clone_based") PROVE FALSE
        <3>1. b = c
            BY <1>5, <2>1
        <3>2. op'[c].at = "clone_based"
            BY <1>1, <2>1, <3>1 DEF Step, OpsTyped, Op
        <3> QED BY <3>2 DEF Fresh
    <2>2. ASSUME NEW e \in Boxes, CloneRefer(e), k = op[e].base PROVE FALSE
        <3>1. e = c /\ op[c].at \in Fresh
            BY <1>5, <2>2
        <3> QED BY <1>1, <2>2, <3>1, ClonersBase DEF Fresh
    <2> QED BY <1>6, <2>1, <2>2, RefsMove
<1>8. ASSUME NEW b \in Boxes PROVE k \notin rem'[b].todo
    <2>1. k \notin rem[b].todo /\ rem[b] \in [at : RemSteps, todo : SUBSET Bases]
        BY <1>1, <1>6
    <2>2. k \notin NotRemoving.todo
        BY DEF NotRemoving
    <2>3. k \notin {i \in Bases : <<i, b>> \in refs}
        BY <1>6
    <2>4. k \notin [rem[b] EXCEPT !.at = "disks"].todo
        BY <2>1
    <2>5. \A i : k \notin [rem[b] EXCEPT !.todo = @ \ {i}].todo
        BY <2>1
    <2>6. /\ k \notin [at |-> "row", todo |-> {}].todo
          /\ k \notin [at |-> "refs", todo |-> {i \in Bases : <<i, b>> \in refs}].todo
        BY <2>3
    <2>7. \/ rem'[b] = rem[b] \/ rem'[b] = NotRemoving
          \/ rem'[b] = [at |-> "row", todo |-> {}]
          \/ rem'[b] = [at |-> "refs", todo |-> {i \in Bases : <<i, b>> \in refs}]
          \/ rem'[b] = [rem[b] EXCEPT !.at = "disks"]
          \/ \E i : rem'[b] = [rem[b] EXCEPT !.todo = @ \ {i}]
        BY <1>1, RemMoves
    <2> QED BY <2>1, <2>2, <2>4, <2>5, <2>6, <2>7
<1>9. ASSUME NEW p \in DOMAIN files', files'[p].back = Base(k) PROVE p = Disk(c)
    <2>1. Comes(p)
        BY FilesMove
    <2>2. CASE p \in DOMAIN files /\ files'[p].back = files[p].back
        BY <1>6, <1>9, <2>2
    <2>3. ASSUME NEW b \in Boxes, Disk(b) \in DOMAIN files, files[Disk(b)].back = Base(k),
                 op[b].at \in NameSteps \/ \E j : CloneMove(b, j)
          PROVE  FALSE
        <3>1. b = c /\ op[c].at \in Fresh
            BY <1>6, <2>3, PathsApart
        <3>2. op[c].at \notin NameSteps /\ op[c] # Idle
            BY <3>1 DEF Fresh, NameSteps, Idle
        <3> QED BY <1>1, <2>3, <3>1, <3>2, ClonersBase
    <2>4. \A b, n : Snap(b, n) # Base(k)
        BY PathsApart
    <2>5. ASSUME NEW b \in Boxes, CloneChild(b), p = Disk(b), Base(op[b].base) = Base(k)
          PROVE  p = Disk(c)
        BY <1>5, <2>5, PathsApart
    <2>6. ASSUME NEW b \in Boxes, NEW d \in Boxes, CloneStage(b, d), Base(op[b].base) = Base(k)
          PROVE  FALSE
        <3>1. op[b].base = k
            BY <2>6, PathsApart
        <3>2. op[b].at \in Fresh
            BY <1>5, <3>1
        <3> QED BY <1>1, <2>6, <3>2, ClonersBase DEF Fresh
    <2>7. ~Restart
        BY <1>2 DEF Restart, Idle, CloneSteps
    <2> QED BY <1>9, <2>1, <2>2, <2>3, <2>4, <2>5, <2>6, <2>7 DEF Comes
<1>10. IF op'[c].at = "clone_inserted" THEN k \in DOMAIN bases' /\ bases'[k] = c ELSE k \notin DOMAIN bases'
    <2>1. ASSUME NEW b \in Boxes, CloneInsert(b), k = op[b].base, Step(b, "clone_inserted")
          PROVE  op'[c].at = "clone_inserted" /\ b = c
        BY <1>1, <1>5, <2>1 DEF Step, OpsTyped, Op
    <2>2. CASE CloneMove(c, k) /\ op'[c].at = "clone_moved"
        <3>1. k \notin DOMAIN bases
            BY <1>1, <2>2, ClonersBase DEF FreeBase
        <3> QED BY <2>1, <2>2, <3>1, BasesMove
    <2>3. CASE CloneInsert(c) /\ bases' = With(bases, k, c) /\ op'[c].at = "clone_inserted"
        BY <2>3 DEF With
    <2>4. ASSUME op[c].base = k, op[c].at \in Fresh, op'[c].at # "clone_inserted", op[c].at # "clone_inserted"
          PROVE  k \notin DOMAIN bases'
        <3>1. k \notin DOMAIN bases
            BY <2>4 DEF ClonesInv, FreshBases
        <3> QED BY <2>1, <2>4, <3>1, BasesMove
    <2>5. ASSUME op[c].base = k, op[c].at = "clone_inserted"
          PROVE  k \in DOMAIN bases' /\ bases'[k] = c
        <3>1. k \in DOMAIN bases /\ bases[k] = c
            BY <2>5 DEF ClonesInv, FreshBases, Fresh
        <3>2. ASSUME NEW b \in Boxes, NEW j \in Bases, CollectBase(b, j) PROVE k \notin Doomed(j)
            BY <2>5, <3>2, FreshNotDoomed DEF CollectBase, ClonesInv, Fresh
        <3> QED BY <2>1, <3>1, <3>2, BasesMove
    <2> QED BY <1>4, <2>2, <2>3, <2>4, <2>5
<1> QED BY <1>7, <1>8, <1>9, <1>10

LEMMA StagedFreshStep ==
    ASSUME Typed, ClonesInv, StagedApart', OpsTyped', [Next]_vars
    PROVE  StagedFresh'
<1> SUFFICES ASSUME NEW c \in Boxes, NEW d \in op'[c].staged
             PROVE  /\ \A k : <<k, d>> \notin refs' /\ (k \in DOMAIN bases' => bases'[k] # d)
                    /\ \A p \in Home(d) \intersect DOMAIN files' : files'[p].back = Base(op'[c].base)
    BY DEF StagedFresh
<1>1. OpsTyped /\ refs \subseteq Bases \X Boxes /\ \A k \in DOMAIN bases : k \in Bases
    BY DEF Typed, TypeOK
<1>2. d \in Boxes
    BY DEF OpsTyped, Op
<1>3. ASSUME d \in op[c].staged, op'[c].base = op[c].base
      PROVE  /\ op[d] = Idle /\ d \notin rows /\ d \in dirs
             /\ \A k : <<k, d>> \notin refs /\ (k \in DOMAIN bases => bases[k] # d)
             /\ \A p \in Home(d) \intersect DOMAIN files : files[p].back = Base(op'[c].base)
    BY <1>3 DEF Typed, StagedApart, ClonesInv, StagedFresh
<1>4. ASSUME CloneStage(c, d)
      PROVE  /\ op[d] = Idle /\ d \notin rows
             /\ \A k : <<k, d>> \notin refs /\ (k \in DOMAIN bases => bases[k] # d)
             /\ \A p \in Home(d) \intersect DOMAIN files : files[p].back = Base(op'[c].base)
    <2>1. FreeBox(d)
        BY <1>4 DEF CloneStage
    <2> QED BY <1>1, <1>2, <2>1 DEF FreeBox, Underway
<1>5. /\ op[d] = Idle /\ d \notin rows
      /\ \A k : <<k, d>> \notin refs /\ (k \in DOMAIN bases => bases[k] # d)
      /\ \A p \in Home(d) \intersect DOMAIN files : files[p].back = Base(op'[c].base)
    BY <1>1, <1>3, <1>4, StagedMoves
<1>6. /\ op[d].at \notin NameSteps
      /\ ~CloneChild(d) /\ ~CloneRef(d) /\ ~CloneInsert(d)
    BY <1>1, <1>2, <1>5, ClonersBase DEF Idle, NameSteps
<1>7. ASSUME NEW k PROVE <<k, d>> \notin refs'
    <2>1. \A b \in Boxes : CloneRefer(b) => op[b].dest # d
        BY <1>5 DEF ClonesInv, OpsOfRows, CloneRefer
    <2> QED BY <1>5, <1>6, <2>1, RefsMove
<1>8. ASSUME NEW k, k \in DOMAIN bases', bases'[k] = d PROVE FALSE
    BY <1>5, <1>6, <1>8, BasesMove
<1>9. ASSUME NEW p \in Home(d), p \in DOMAIN files' PROVE files'[p].back = Base(op'[c].base)
    <2>1. Comes(p)
        BY <1>9, FilesMove
    <2>2. CASE p \in DOMAIN files /\ files'[p].back = files[p].back
        BY <1>5, <1>9, <2>2
    <2>3. \A b \in Boxes : p = Disk(b) => b = d
        BY <1>9, Homes
    <2>4. \A b \in Boxes, n \in Names : p = Snap(b, n) => b = d
        BY <1>9, Homes
    <2>5. \A k : p # Base(k)
        BY <1>9, Homes
    <2>6. ASSUME NEW b \in Boxes, CloneStage(b, d), files'[p].back = Base(op[b].base)
          PROVE  files'[p].back = Base(op'[c].base)
        <3>1. /\ op' = [op EXCEPT ![b].at = "clone_staging", ![b].staged = @ \union {d}]
            BY <2>6 DEF CloneStage
        <3>2. d \in op'[b].staged /\ op'[b].base = op[b].base
            BY <1>1, <3>1 DEF OpsTyped, Op
        <3>3. b = c
            BY <3>2 DEF StagedApart
        <3> QED BY <2>6, <3>2, <3>3
    <2>7. ~Restart
        BY DEF Restart, Idle
    <2> QED BY <1>6, <2>1, <2>2, <2>3, <2>4, <2>5, <2>6, <2>7 DEF Comes
<1> QED BY <1>7, <1>8, <1>9

LEMMA ClonesStep ==
    ASSUME "race" \notin Faults, Typed, ClonesInv, [Next]_vars
    PROVE  ClonesInv'
<1>1. Typed' /\ OpsTyped' /\ StagedApart'
    BY TypedStep DEF Typed
<1>2. OpsOfRows' /\ RefsGone' /\ OneBase' /\ NoneOnDisk'
    BY OpsOfRowsStep, RefsGoneStep, OneBaseStep, NoneOnDiskStep DEF ClonesInv
<1>3. RefsNamed' /\ BoundBases' /\ FreshBases' /\ StagedFresh'
    BY <1>1, <1>2, RefsNamedStep, BoundBasesStep, FreshBasesStep, StagedFreshStep
<1> QED BY <1>2, <1>3 DEF ClonesInv

(* Where no removal overlaps a box's operations, the bases of clones under   *)
(* way are theirs.                                                           *)
THEOREM ClonesInvariance ==
    ASSUME "race" \notin Faults PROVE Spec => [](Typed /\ ClonesInv)
<1>1. Init => Typed /\ ClonesInv
    BY InitTyped, ClonesInit
<1>2. Typed /\ ClonesInv /\ [Next]_vars => (Typed /\ ClonesInv)'
    BY TypedStep, ClonesStep
<1> QED BY <1>1, <1>2, PTL DEF Spec
-----------------------------------------------------------------------------
(* What a living box is built on is referred to.                             *)

\* Faults under which the references fall behind the files.
Referring == Faults \intersect {"race", "force", "base_db", "crash_clone"} = {}

\* The files of a box: its home, the bases made of its disk.
Own(p, b) ==
    \/ p \in Home(b)
    \/ \E k \in Bases : p = Base(k) /\ (op[b].base = k \/ (k \in DOMAIN bases /\ bases[k] = b))

\* Box b refers to base k, or a clone under way is about to.
Held(k, b) ==
    \/ k \in DOMAIN bases /\ <<k, b>> \in refs
    \/ op[b].at \in {"clone_forked", "clone_inserted"} /\ op[b].base = k
    \/ \E c \in Boxes : op[c].at = "clone_provisioned" /\ op[c].dest = b /\ op[c].base = k

EdgesHeld ==
    \A b \in rows : \A p \in DOMAIN files : Own(p, b) =>
        \/ files[p].back = NoPath \/ files[p].back \in Home(b)
        \/ \E k \in Bases : files[p].back = Base(k) /\ Held(k, b)

\* The box a base was made of stays while another living box refers to it.
SourceStays == \A k \in DOMAIN bases : \A c \in rows : <<k, c>> \in refs => bases[k] \in rows

EdgesInv == Typed /\ ClonesInv /\ EdgesHeld /\ SourceStays

LEMMA EdgesInit == Init => EdgesInv
<1> SUFFICES ASSUME Init PROVE EdgesHeld /\ SourceStays
    BY InitTyped, ClonesInit DEF EdgesInv
<1>1. \A p \in DOMAIN files : files[p].back = NoPath
    BY DEF Init
<1>2. refs = {}
    BY DEF Init
<1> QED BY <1>1, <1>2 DEF EdgesHeld, SourceStays

\* How a clone comes to its end.
LEMMA CloneEnds ==
    ASSUME OpsTyped, [Next]_vars, NEW c \in Boxes, op[c].at \in CloneSteps, op'[c] = Idle
    PROVE  \/ "crash_clone" \in Faults \/ "base_db" \in Faults
           \/ op[c].at \notin {"clone_forked", "clone_inserted", "clone_provisioned"}
           \/ /\ CloneRefer(c) /\ op[c].at = "clone_provisioned"
              /\ refs' = refs \union {<<op[c].base, op[c].dest>>}
<1>1. SUFFICES ASSUME "crash_clone" \notin Faults, "base_db" \notin Faults,
                      op[c].at \in {"clone_forked", "clone_inserted", "clone_provisioned"}
               PROVE  /\ CloneRefer(c) /\ op[c].at = "clone_provisioned"
                      /\ refs' = refs \union {<<op[c].base, op[c].dest>>}
    OBVIOUS
<1>2. Outcomes("base_db") = {TRUE}
    BY <1>1 DEF Outcomes
<1>3. ~Restart
    BY <1>1 DEF Restart, MayCrash, Cloning
<1>4. op'[c] # op[c]
    BY ClonersBase
<1>5. PICK b \in Boxes : Operate(b) /\ \A e \in Boxes \ {b} : op'[e] = op[e]
    <2>1. ~UNCHANGED vars
        BY <1>4 DEF vars
    <2> QED BY <1>3, <2>1, OpMovesOn
<1>6. b = c
    BY <1>4, <1>5
<1>7. op[c] \in Op /\ op \in [Boxes -> Op]
    BY DEF OpsTyped
<1>8. ~CloneInsert(c) /\ ~CloneRef(c)
    <2>1. ASSUME NEW at, Step(c, at) PROVE at = "idle"
        BY <1>7, <2>1 DEF Step, Op, Idle
    <2> QED BY <1>2, <2>1 DEF CloneInsert, CloneRef
<1>9. CASE CloneRefer(c)
    BY <1>2, <1>9 DEF CloneRefer
<1>10. /\ op[c].at \notin {"idle", "snap_marked", "snap_moved", "snap_forked", "snap_done", "snap_deleting",
                          "restoring", "clone_moved", "clone_based", "clone_staging", "clone_staged"}
       /\ op[c] # Idle
    BY <1>1, ClonersBase
<1>11. CASE CloneRefer(c) \/ RemoveRow(c) \/ RemoveRefs(c) \/ RemoveDisks(c) \/ RemoveDir(c)
            \/ (\E k \in Bases : CollectBase(c, k))
    BY <1>4, <1>9, <1>11 DEF RemoveRow, RemoveRefs, RemoveDisks, RemoveDir, CollectBase
<1> QED BY <1>5, <1>6, <1>8, <1>10, <1>11 DEF Operate, SnapMark, SnapDelete, RestoreBegin, SnapMove, SnapChild,
           SnapSave, SnapUnmark, SnapUnlink, RestoreChild, CloneMove, CloneChild, CloneStage, CloneProvision, Takes

LEMMA HeldStays ==
    ASSUME Referring, EdgesInv, [Next]_vars, NEW b \in rows, NEW k \in Bases, Held(k, b)
    PROVE  Held(k, b)'
<1>1. /\ Typed /\ OpsTyped /\ b \in Boxes
      /\ "base_db" \notin Faults /\ "crash_clone" \notin Faults
    BY DEF EdgesInv, Typed, TypeOK, Referring
<1>2. k # NoName
    BY NoNameAssumption
<1>3. CASE k \in DOMAIN bases /\ <<k, b>> \in refs
    <2>1. ~RemoveRefs(b)
        BY <1>1, RemovalAt DEF Typed, RemovedLast, Removing
    <2>2. <<k, b>> \in refs'
        BY <1>3, <2>1, RefsMove
    <2>3. k \in DOMAIN bases'
        BY <1>1, <1>3, DoomedUnreferred, BasesMove
    <2> QED BY <2>2, <2>3 DEF Held
<1>4. CASE op[b].at \in {"clone_forked", "clone_inserted"} /\ op[b].base = k
    <2>1. op[b].at \in CloneSteps /\ op[b].at \notin Bound
        BY <1>4 DEF CloneSteps, Bound
    <2>2. op'[b] # Idle
        BY <1>1, <1>4, <2>1, CloneEnds
    <2>3. op'[b].base = k
        <3>1. ~(\E j \in Bases : CloneMove(b, j))
            BY <1>1, <2>1, ClonersBase
        <3>2. OpMoves(b) /\ op[b] \in Op
            BY <1>1, OpMovesOn DEF OpsTyped
        <3>3. op[b].at \notin NameSteps /\ ~Takes(b)
            BY <1>1, <1>4, <2>1, ClonersBase DEF NameSteps, Takes
        <3>4. \A at : [op[b] EXCEPT !.at = at].base = k
            BY <1>4, <3>2 DEF Op
        <3>5. /\ ~CloneRefer(b)
              /\ \A d : ~CloneStage(b, d) /\ ~CloneProvision(b, d)
            BY <1>4 DEF CloneRefer, CloneStage, CloneProvision
        <3> QED BY <1>4, <2>2, <3>1, <3>2, <3>3, <3>4, <3>5 DEF OpMoves
    <2>4. CASE op'[b].at \in {"clone_forked", "clone_inserted"}
        BY <2>3, <2>4 DEF Held
    <2>5. CASE CloneRef(b) /\ refs' = refs \union {<<k, b>>} /\ op[b].at = "clone_inserted"
        <3>1. k \in DOMAIN bases /\ bases' = bases
            BY <1>1, <1>4, <2>5 DEF EdgesInv, ClonesInv, FreshBases, Fresh, CloneRef
        <3> QED BY <2>5, <3>1 DEF Held
    <2> QED BY <1>1, <1>2, <1>4, <2>1, <2>3, <2>4, <2>5, BaseMoves, ClonersBase
<1>5. ASSUME NEW c \in Boxes, op[c].at = "clone_provisioned", op[c].dest = b, op[c].base = k
      PROVE  Held(k, b)'
    <2>1. op[c].at \in CloneSteps /\ op[c].at \in Bound
        BY <1>5 DEF CloneSteps, Bound
    <2>2. CASE op'[c] = op[c]
        BY <1>5, <2>2 DEF Held
    <2>3. CASE CloneRefer(c) /\ refs' = refs \union {<<op[c].base, op[c].dest>>}
        <3>1. k \in DOMAIN bases /\ bases' = bases
            BY <1>5, <2>1, <2>3 DEF EdgesInv, ClonesInv, BoundBases, CloneRefer
        <3> QED BY <1>5, <2>3, <3>1 DEF Held
    <2>4. CASE CloneRefer(c)
        <3>1. Outcomes("base_db") = {TRUE}
            BY <1>1 DEF Outcomes
        <3>2. refs' = refs \union {<<op[c].base, op[c].dest>>}
            BY <2>4, <3>1 DEF CloneRefer
        <3> QED BY <2>3, <2>4, <3>2
    <2>5. CASE op'[c] = Idle
        BY <1>1, <1>5, <2>1, <2>3, <2>5, CloneEnds
    <2>6. op[c].at \notin NameSteps /\ ~Takes(c) /\ \A j : ~CloneMove(c, j)
        BY <1>1, <1>5, <2>1, ClonersBase DEF NameSteps, Takes
    <2>7. /\ ~CloneChild(c) /\ ~CloneInsert(c) /\ ~CloneRef(c)
          /\ \A d : ~CloneStage(c, d) /\ ~CloneProvision(c, d)
        BY <1>5 DEF CloneChild, CloneInsert, CloneRef, CloneStage, CloneProvision
    <2> QED BY <1>1, <2>2, <2>4, <2>5, <2>6, <2>7, OpMovesOn DEF OpMoves
<1> QED BY <1>3, <1>4, <1>5 DEF Held

LEMMA SourceStaysStep ==
    ASSUME Referring, EdgesInv, [Next]_vars
    PROVE  SourceStays'
<1> SUFFICES ASSUME NEW k \in DOMAIN bases', NEW c \in rows', <<k, c>> \in refs'
             PROVE  bases'[k] \in rows'
    BY DEF SourceStays
<1>1. /\ Typed /\ OpsTyped /\ refs \subseteq Bases \X Boxes /\ rows \subseteq Boxes
      /\ "force" \notin Faults /\ "race" \notin Faults
    BY DEF EdgesInv, Typed, TypeOK, Referring
<1>2. CASE <<k, c>> \in refs
    <2>1. k \in DOMAIN bases /\ c \in Boxes
        BY <1>1, <1>2 DEF EdgesInv, ClonesInv, RefsNamed
    <2>2. c \in rows
        <3>1. ASSUME NEW b \in Boxes, CloneProvision(b, c) PROVE FALSE
            BY <1>2, <3>1 DEF CloneProvision, EdgesInv, ClonesInv, StagedFresh
        <3> QED BY <3>1, RowsMove
    <2>3. bases[k] \in rows
        BY <1>2, <2>1, <2>2 DEF EdgesInv, SourceStays
    <2>4. ~RemoveRow(bases[k])
        <3>1. SUFFICES ASSUME RemoveRow(bases[k]) PROVE FALSE
            OBVIOUS
        <3>2. Dependents(bases[k]) = {} /\ rows' = rows \ {bases[k]}
            BY <1>1, <3>1 DEF RemoveRow
        <3>3. c # bases[k]
            BY <3>2
        <3>4. c \in Dependents(bases[k])
            BY <1>2, <2>1, <3>3 DEF Dependents
        <3> QED BY <3>2, <3>4
    <2>5. ASSUME NEW b \in Boxes, CloneInsert(b), k = op[b].base PROVE FALSE
        <3>1. op[b].at \in Fresh
            BY <1>1, <2>5, ClonersBase DEF Fresh
        <3> QED BY <1>2, <2>1, <2>5, <3>1 DEF EdgesInv, ClonesInv, FreshBases
    <2> QED BY <2>3, <2>4, <2>5, BasesMove, RowsMove
<1>3. CASE CloneRef(c) /\ c \in Boxes /\ k = op[c].base
    <2>1. op[c].at \in Fresh /\ op[c].at = "clone_inserted"
        BY <1>1, <1>3, ClonersBase DEF Fresh
    <2>2. bases[k] = c /\ bases' = bases
        BY <1>3, <2>1 DEF EdgesInv, ClonesInv, FreshBases, CloneRef
    <2> QED BY <2>2
<1>4. ASSUME NEW b \in Boxes, CloneRefer(b), k = op[b].base, c = op[b].dest
      PROVE  bases'[k] \in rows'
    <2>1. op[b].at \in Bound /\ op[b] # Idle
        BY <1>1, <1>4, ClonersBase DEF Bound, CloneSteps
    <2>2. bases[k] = b /\ b \in rows /\ bases' = bases /\ rows' = rows
        BY <1>4, <2>1 DEF EdgesInv, ClonesInv, BoundBases, OpsOfRows, CloneRefer
    <2> QED BY <2>2
<1> QED BY <1>2, <1>3, <1>4, RefsMove

\* What stands of an edge of a living box stands after the step.
LEMMA EdgeStays ==
    ASSUME Referring, EdgesInv, [Next]_vars, NEW b \in rows, NEW p \in DOMAIN files, Own(p, b)
    PROVE  \/ files[p].back = NoPath \/ files[p].back \in Home(b)
           \/ \E k \in Bases : files[p].back = Base(k) /\ Held(k, b)'
BY HeldStays DEF EdgesInv, EdgesHeld

LEMMA EdgesHeldStep ==
    ASSUME Referring, EdgesInv, [Next]_vars
    PROVE  EdgesHeld'
<1> SUFFICES ASSUME NEW b \in rows', NEW p \in DOMAIN files', Own(p, b)'
             PROVE  \/ files'[p].back = NoPath \/ files'[p].back \in Home(b)
                    \/ \E k \in Bases : files'[p].back = Base(k) /\ Held(k, b)'
    BY DEF EdgesHeld, Home, Disk, Snap
<1>1. /\ Typed /\ OpsTyped /\ rows \subseteq Boxes /\ \A k \in DOMAIN bases : k \in Bases
      /\ "race" \notin Faults /\ NoName \notin Bases
    BY NoNameAssumption DEF EdgesInv, Typed, TypeOK, Referring
<1>2. /\ OpsTyped' /\ ClonesInv' /\ b \in Boxes
      /\ Comes(p)
    BY <1>1, TypedStep, ClonesStep, FilesMove DEF EdgesInv, Typed, TypeOK
<1>3. p \in Home(b) \/ \E k \in Bases : p = Base(k) /\ (op'[b].base = k \/ (k \in DOMAIN bases' /\ bases'[k] = b))
    BY DEF Own, Home, Disk, Snap, Base
<1>4. CASE p \in DOMAIN files /\ files'[p].back = files[p].back
    <2>1. ASSUME NEW k \in Bases, p = Base(k), op'[b].base = k \/ (k \in DOMAIN bases' /\ bases'[k] = b)
          PROVE  Own(p, b)
        <3>1. CASE op'[b].base = k
            <4>1. ~CloneMove(b, k)
                BY <1>1, <1>2, <1>4, <2>1, ClonersBase DEF FreeBase, Exists
            <4>2. op[b].base = k
                BY <1>1, <1>2, <2>1, <3>1, <4>1, BaseMoves
            <4> QED BY <2>1, <4>2 DEF Own
        <3>2. CASE k \in DOMAIN bases' /\ bases'[k] = b
            BY <2>1, <3>2, BasesMove DEF Own
        <3> QED BY <2>1, <3>1, <3>2
    <2>2. Own(p, b)
        BY <1>3, <2>1 DEF Own
    <2>3. CASE b \in rows
        BY <1>4, <2>2, <2>3, EdgeStays
    <2>4. CASE b \notin rows
        <3>1. PICK c \in Boxes : CloneProvision(c, b) /\ rows' = rows \union {b}
            BY <2>4, RowsMove
        <3>2. /\ b \in op[c].staged /\ op[b] = Idle /\ op[c].at \in CloneSteps
              /\ \A k : k \in DOMAIN bases => bases[k] # b
              /\ \A q \in Home(b) \intersect DOMAIN files : files[q].back = Base(op[c].base)
            BY <1>1, <3>1 DEF EdgesInv, ClonesInv, StagedFresh, Typed, StagedApart, CloneProvision, CloneSteps
        <3>3. op[b].base = NoName
            BY <3>2 DEF Idle
        <3>4. files'[p].back = Base(op[c].base)
            BY <1>1, <1>4, <2>2, <3>2, <3>3 DEF Own
        <3>5. op' = [op EXCEPT ![c].at = "clone_provisioned", ![c].dest = b, ![c].staged = @ \ {b}]
            BY <2>4, <3>1 DEF CloneProvision
        <3>6. op'[c].at = "clone_provisioned" /\ op'[c].dest = b /\ op'[c].base = op[c].base
            BY <1>1, <3>5 DEF OpsTyped, Op
        <3>7. op[c].base \in Bases
            BY <1>1, <3>2, ClonersBase
        <3> QED BY <3>4, <3>6, <3>7 DEF Held
    <2> QED BY <2>3, <2>4
<1>5. ASSUME NEW c \in Boxes, Disk(c) \in DOMAIN files, files'[p].back = files[Disk(c)].back, c \in rows, b = c
      PROVE  \/ files'[p].back = NoPath \/ files'[p].back \in Home(b)
             \/ \E k \in Bases : files'[p].back = Base(k) /\ Held(k, b)'
    <2>1. Own(Disk(c), c)
        BY Homes DEF Own
    <2> QED BY <1>5, <2>1, EdgeStays
<1>6. ASSUME NEW c \in Boxes, Disk(c) \in DOMAIN files, files'[p].back = files[Disk(c)].back,
             op[c].at \in NameSteps, op[c].name \in Names, p = Snap(c, op[c].name)
      PROVE  b = c /\ c \in rows
    <2>1. p \in Home(c) /\ \A k : p # Base(k)
        BY <1>6, Homes
    <2>2. op[c] # Idle
        BY <1>6 DEF Idle, NameSteps
    <2> QED BY <1>3, <2>1, <2>2, Homes DEF EdgesInv, ClonesInv, OpsOfRows
<1>7. ASSUME NEW c \in Boxes, NEW k \in Bases, CloneMove(c, k), p = Base(k)
      PROVE  b = c /\ c \in rows
    <2>1. op'[c].base = k /\ op'[c].at = "clone_moved"
        <3>1. op' = [op EXCEPT ![c] = [Idle EXCEPT !.at = "clone_moved", !.base = k]]
            BY <1>7 DEF CloneMove
        <3> QED BY <1>1, <3>1 DEF OpsTyped, Idle
    <2>2. k \notin DOMAIN bases'
        BY <1>2, <2>1 DEF ClonesInv, FreshBases, Fresh
    <2>3. p \notin Home(b)
        BY <1>7, Homes
    <2>4. op'[b].base = k
        BY <1>3, <1>7, <2>2, <2>3, PathsApart
    <2>5. b = c
        BY <1>1, <1>2, <2>1, <2>4 DEF ClonesInv, OneBase
    <2>6. c \in rows
        BY <1>1, <1>7, NoRace DEF CloneMove
    <2> QED BY <2>5, <2>6
<1>8. ASSUME NEW c \in Boxes, NEW n \in Names, p = Disk(c), files'[p].back = Snap(c, n)
      PROVE  files'[p].back \in Home(b)
    BY <1>3, <1>8, Homes
<1>9. ASSUME NEW c \in Boxes, CloneChild(c), Step(c, "clone_forked"), p = Disk(c),
             files'[p].back = Base(op[c].base)
      PROVE  \E k \in Bases : files'[p].back = Base(k) /\ Held(k, b)'
    <2>1. b = c
        BY <1>3, <1>9, Homes
    <2>2. op'[c].at = "clone_forked" /\ op'[c].base = op[c].base
        BY <1>1, <1>9 DEF Step, OpsTyped, Op
    <2>3. op[c].base \in Bases
        BY <1>1, <1>9, ClonersBase DEF CloneSteps
    <2> QED BY <1>9, <2>1, <2>2, <2>3 DEF Held
<1>10. ASSUME NEW c \in Boxes, NEW d \in Boxes, CloneStage(c, d), p = Disk(d) PROVE FALSE
    <2>1. b = d
        BY <1>3, <1>10, Homes
    <2> QED BY <1>10, <2>1 DEF CloneStage, FreeBox
<1>11. ASSUME NEW c \in rows, NEW n \in Names, p = Disk(c), Snap(c, n) \in DOMAIN files,
              files'[p].back = files[Snap(c, n)].back
       PROVE  \/ files'[p].back = NoPath \/ files'[p].back \in Home(b)
              \/ \E k \in Bases : files'[p].back = Base(k) /\ Held(k, b)'
    <2>1. b = c
        BY <1>3, <1>11, Homes
    <2>2. Own(Snap(c, n), c)
        BY Homes DEF Own
    <2> QED BY <1>11, <2>1, <2>2, EdgeStays
<1> QED BY <1>2, <1>4, <1>5, <1>6, <1>7, <1>8, <1>9, <1>10, <1>11 DEF Comes

\* A living box's chain lies in files of living boxes.
LEMMA ChainsLive ==
    ASSUME EdgesInv, NEW b \in rows, NEW i \in 0..MaxDepth
    PROVE  Walk(files, Disk(b))[i] = NoPath \/ \E c \in rows : Own(Walk(files, Disk(b))[i], c)
<1> DEFINE S == {NoPath} \union {p \in Paths : \E c \in rows : Own(p, c)}
<1>1. rows \subseteq Boxes /\ Disk(b) \in S
    <2>1. Own(Disk(b), b) /\ rows \subseteq Boxes
        BY Homes DEF Own, EdgesInv, Typed, TypeOK
    <2>2. Disk(b) \in Paths
        BY <2>1, Homes
    <2> QED BY <2>1, <2>2
<1>2. ASSUME NEW p \in S, p \in DOMAIN files PROVE Under(files, p) \in S
    <2>1. SUFFICES ASSUME Under(files, p) # NoPath PROVE Under(files, p) \in S
        OBVIOUS
    <2>2. /\ Under(files, p) = files[p].back /\ files[p].back \in DOMAIN files
          /\ files[p].back # NoPath
        BY <1>2, <2>1 DEF Under
    <2>3. p # NoPath /\ files[p].back \in Paths
        BY <1>2, <2>2, NoPathAssumption DEF EdgesInv, Typed, TypeOK
    <2>4. PICK c \in rows : Own(p, c)
        BY <2>3
    <2>5. CASE files[p].back \in Home(c)
        BY <2>2, <2>3, <2>5 DEF Own
    <2>6. ASSUME NEW k \in Bases, files[p].back = Base(k), Held(k, c)
          PROVE  \E d \in rows : Own(Base(k), d)
        <3>1. CASE k \in DOMAIN bases /\ <<k, c>> \in refs
            BY <3>1 DEF EdgesInv, SourceStays, Own
        <3>2. CASE op[c].base = k
            BY <3>2 DEF Own
        <3>3. ASSUME NEW d \in Boxes, op[d].at = "clone_provisioned", op[d].base = k
              PROVE  \E e \in rows : Own(Base(k), e)
            <4>1. d \in rows
                BY <3>3 DEF EdgesInv, ClonesInv, OpsOfRows, Idle
            <4> QED BY <3>3, <4>1 DEF Own
        <3> QED BY <2>6, <3>1, <3>2, <3>3 DEF Held
    <2> QED BY <1>2, <2>2, <2>3, <2>4, <2>5, <2>6 DEF EdgesInv, EdgesHeld
<1>3. \A j \in 0..MaxDepth : Walk(files, Disk(b))[j] \in S
    <2> HIDE DEF S
    <2>1. NoPath \in S
        BY DEF S
    <2> QED BY <1>1, <1>2, <2>1, WalkStays
<1> QED BY <1>3

\* How a base file goes.
LEMMA BaseGoes ==
    ASSUME Typed, [Next]_vars, NEW k \in Bases, Base(k) \in DOMAIN files, Base(k) \notin DOMAIN files'
    PROVE  \/ \E b \in Boxes, j \in Bases : CollectBase(b, j) /\ k \in Doomed(j)
           \/ Restart /\ k \notin DOMAIN bases
<1>1. /\ IsFiles(files) /\ rows \subseteq Boxes /\ marker \in [Boxes -> Names \union {NoName}]
      /\ \A b \in Boxes : op[b] \in Op /\ Shaped(op[b])
    BY DEF Typed, TypeOK, OpsTyped, IsFiles, File
<1>2. ASSUME NEW ps, files' = Without(files, ps) PROVE Base(k) \in ps
    <2>1. DOMAIN Without(files, ps) = DOMAIN files \ ps
        BY <1>1, WithoutFiles
    <2> QED BY <1>2, <2>1
<1>3. \A b : Base(k) \notin Home(b) /\ Base(k) # Disk(b)
    BY Homes, PathsApart
<1>4. ASSUME NEW b, NEW to \in Paths, Disk(b) \in DOMAIN files, files' = Renamed(files, Disk(b), to), Disk(b) # to
      PROVE  FALSE
    <2>1. DOMAIN Renamed(files, Disk(b), to) = (DOMAIN files \ {Disk(b)}) \union {to}
        <3>1. IsFiles(files) /\ Disk(b) \in DOMAIN files /\ Disk(b) # to
            BY <1>1, <1>4
        <3>2. PICK from : from = Disk(b)
            OBVIOUS
        <3>3. DOMAIN Renamed(files, from, to) = (DOMAIN files \ {from}) \union {to}
            BY <3>1, <3>2, RenamedFiles
        <3> QED BY <3>2, <3>3
    <2> QED BY <1>3, <1>4, <2>1
<1>5. ASSUME NEW child, NEW base, files' = WithChild(files, child, base) PROVE FALSE
    BY <1>5 DEF WithChild, With
<1>6. ASSUME NEW b \in Boxes, SnapMove(b) PROVE FALSE
    <2>1. /\ Disk(b) \in DOMAIN files /\ files' = Renamed(files, Disk(b), Snap(b, op[b].name))
          /\ op[b].at \in NameSteps
        BY <1>6 DEF SnapMove, Exists, NameSteps
    <2>2. Snap(b, op[b].name) \in Paths /\ Disk(b) # Snap(b, op[b].name)
        BY <1>1, <2>1, Homes, PathsApart DEF Shaped
    <2> QED BY <1>4, <2>1, <2>2
<1>7. ASSUME NEW b \in Boxes, NEW j \in Bases, CloneMove(b, j) PROVE FALSE
    BY <1>4, <1>7, Homes, PathsApart DEF CloneMove, Exists
<1>8. ASSUME NEW b \in Boxes, NEW j \in Bases, CollectBase(b, j) PROVE k \in Doomed(j)
    <2>1. Base(k) \in {Base(i) : i \in Doomed(j)}
        <3>1. PICK ps : ps = {Base(i) : i \in Doomed(j)}
            OBVIOUS
        <3>2. files' = Without(files, ps)
            BY <1>8, <3>1 DEF CollectBase
        <3> QED BY <1>2, <3>1, <3>2
    <2> QED BY <2>1, PathsApart
<1>9. CASE Restart
    <2> DEFINE homes == UNION {Home(b) : b \in Boxes \ Survivors}
               whole == Restored(Without(files, homes))
    <2>1. PICK settled \in SUBSET Orphans(whole) : files' = Without(whole, settled)
        BY <1>9 DEF Restart
    <2>2. Base(k) \notin homes
        BY <1>3
    <2>3. PICK hs : hs = homes
        OBVIOUS
    <2>4. IsFiles(Without(files, hs)) /\ DOMAIN Without(files, hs) = DOMAIN files \ hs
        BY <1>1, WithoutFiles
    <2>5. PICK swept : swept = Without(files, hs)
        OBVIOUS
    <2>6. IsFiles(Restored(swept)) /\ Base(k) \in DOMAIN Restored(swept)
        BY <1>1, <2>2, <2>3, <2>4, <2>5, RestoredFiles
    <2>7. whole = Restored(swept)
        BY <2>3, <2>5
    <2> HIDE DEF whole
    <2>8. DOMAIN Without(whole, settled) = DOMAIN whole \ settled
        BY <2>6, <2>7, WithoutFiles
    <2>9. Base(k) \in settled
        BY <2>1, <2>6, <2>7, <2>8
    <2>10. \E j \in Bases \ DOMAIN bases : Base(k) = Base(j)
        BY <2>1, <2>9 DEF Orphans
    <2> QED BY <1>9, <2>10, PathsApart
<1>10. ASSUME NEW b \in Boxes, \E ps \in {{Snap(b, op[b].name)}, {Disk(b)}, Home(b)} : files' = Without(files, ps)
       PROVE  FALSE
    BY <1>2, <1>3, <1>10, PathsApart
<1>11. ASSUME NEW b \in Boxes, NEW d \in Boxes, CloneProvision(b, d) PROVE FALSE
    <2>1. files' = files \/ files' = Without(files, Home(d))
        BY <1>11 DEF CloneProvision
    <2> QED BY <1>2, <1>3, <2>1
<1>12. ASSUME NEW b \in Boxes, Operate(b) PROVE \E j \in Bases : CollectBase(b, j) /\ k \in Doomed(j)
    <2>1. ASSUME \/ SnapChild(b) \/ RestoreChild(b) \/ CloneChild(b)
                 \/ \E d \in Boxes : CloneStage(b, d)
          PROVE  FALSE
        <3>1. files' = files \/ \E child, base : files' = WithChild(files, child, base)
            BY <2>1 DEF SnapChild, RestoreChild, CloneChild, CloneStage
        <3> QED BY <1>5, <3>1
    <2>2. ASSUME SnapUnlink(b) \/ RemoveDisks(b) \/ RemoveDir(b) \/ \E n \in Names : RestoreBegin(b, n)
          PROVE  FALSE
        BY <1>10, <2>2 DEF SnapUnlink, RemoveDisks, RemoveDir, RestoreBegin
    <2>3. ASSUME \/ SnapSave(b) \/ SnapUnmark(b) \/ CloneInsert(b) \/ CloneRef(b) \/ CloneRefer(b)
                 \/ RemoveRow(b) \/ RemoveRefs(b) \/ \E n \in Names : SnapMark(b, n) \/ SnapDelete(b, n)
          PROVE  FALSE
        BY <2>3 DEF SnapSave, SnapUnmark, CloneInsert, CloneRef, CloneRefer, RemoveRow, RemoveRefs, SnapMark,
               SnapDelete
    <2> QED BY <1>6, <1>7, <1>8, <1>11, <1>12, <2>1, <2>2, <2>3 DEF Operate
<1>13. ~UNCHANGED vars
    BY DEF vars
<1> QED BY <1>9, <1>12, <1>13 DEF Next

LEMMA NoneUnderfoot ==
    ASSUME Referring, EdgesInv, [Next]_vars, NEW k \in Bases, Exists(Base(k)), Base(k) \notin DOMAIN files',
           NEW b \in rows
    PROVE  Base(k) \notin Chain(files, Disk(b))
<1> SUFFICES ASSUME Base(k) \in Chain(files, Disk(b)) PROVE FALSE
    OBVIOUS
<1>1. Typed /\ OpsTyped /\ rows \subseteq Boxes
    BY DEF EdgesInv, Typed, TypeOK
<1>2. Base(k) \in Paths /\ Base(k) # NoPath
    BY Homes, NoPathAssumption
<1>3. PICK i \in 1..MaxDepth : Walk(files, Disk(b))[i] = Base(k)
    BY DEF Chain
<1> DEFINE p == Walk(files, Disk(b))[i - 1]
<1>4. i - 1 \in 0..MaxDepth /\ p \in DOMAIN files /\ files[p].back = Base(k)
    BY <1>2, <1>3, ChainEdge
<1>5. p # NoPath
    BY <1>4, NoPathAssumption DEF EdgesInv, Typed, TypeOK
<1>6. PICK c \in rows : Own(p, c)
    BY <1>4, <1>5, ChainsLive
<1>7. Held(k, c)
    <2>1. Base(k) \notin Home(c)
        BY Homes
    <2> QED BY <1>2, <1>4, <1>6, <2>1, PathsApart DEF EdgesInv, EdgesHeld
<1>8. CASE Restart /\ k \notin DOMAIN bases
    <2>1. \A d \in Boxes : ~Cloning(d)
        BY <1>8 DEF Referring, Restart, MayCrash
    <2>2. \A d \in Boxes : op[d].at \notin {"clone_forked", "clone_inserted", "clone_provisioned"}
        BY <2>1 DEF Cloning, CloneSteps
    <2> QED BY <1>1, <1>7, <1>8, <2>2 DEF Held
<1>9. ASSUME NEW a \in Boxes, NEW j \in Bases, CollectBase(a, j), k \in Doomed(j) PROVE FALSE
    <2>1. k \in DOMAIN bases /\ \A d \in Boxes : <<k, d>> \notin refs
        BY <1>1, <1>9, DoomedUnreferred
    <2>2. \A d \in Boxes : op[d].at \in Bound => op[d].base # k
        BY <2>1 DEF EdgesInv, ClonesInv, BoundBases
    <2>3. op[c].at = "clone_inserted" /\ op[c].base = k
        <3>1. CASE op[c].at \in {"clone_forked", "clone_inserted"} /\ op[c].base = k
            BY <1>1, <2>1, <3>1 DEF EdgesInv, ClonesInv, FreshBases, Fresh
        <3> QED BY <1>1, <1>7, <2>1, <2>2, <3>1 DEF Held, Bound
    <2>4. j \in rem[a].todo
        BY <1>9 DEF CollectBase
    <2> QED BY <1>1, <1>9, <2>3, <2>4, FreshNotDoomed DEF EdgesInv, ClonesInv, Fresh
<1> QED BY <1>1, <1>8, <1>9, BaseGoes DEF Exists

(* No base is deleted under a living box, however clones, removals and       *)
(* collections of several boxes are interleaved, wherever a crash outside a  *)
(* clone falls and however deep the chains are (base_disk.rs:349, 246).      *)
THEOREM BasesNeverUnderfoot ==
    ASSUME Faults \intersect {"race", "force", "base_db", "crash_clone"} = {}
    PROVE  Spec => NeverUnderfoot
<1>1. Referring
    BY DEF Referring
<1>2. EdgesInv /\ [Next]_vars => EdgesInv'
    BY <1>1, TypedStep, ClonesStep, EdgesHeldStep, SourceStaysStep DEF EdgesInv, Referring
<1>3. EdgesInv /\ [Next]_vars =>
        [\A k \in Bases : Exists(Base(k)) /\ Base(k) \notin DOMAIN files' =>
            \A b \in rows : Base(k) \notin Chain(files, Disk(b))]_vars
    BY <1>1, NoneUnderfoot
<1> QED BY <1>2, <1>3, EdgesInit, PTL DEF Spec, NeverUnderfoot

-----------------------------------------------------------------------------
(* Bases are collected.                                                      *)

\* Faults under which a base is left without a row or a reference.
Collecting == Faults \intersect {"race", "child", "base_db", "crash_clone"} = {}

\* A base file has its row, or the clone that makes it.
BasesFiled ==
    \A k \in Bases :
        /\ k \in DOMAIN bases => Exists(Base(k))
        /\ Exists(Base(k)) => k \in DOMAIN bases \/ \E c \in Boxes : op[c].at \in Fresh /\ op[c].base = k
        /\ \A c \in Boxes : op[c].at \in Fresh /\ op[c].base = k => Exists(Base(k))

\* A base has a reference, a removal that will look at it, or the clone that
\* makes it; and the boxes that refer are there.
Accounted ==
    ~torn =>
        /\ \A k \in DOMAIN bases :
            \/ \E c \in Boxes : <<k, c>> \in refs \/ k \in rem[c].todo
            \/ \E c \in Boxes : op[c].at = "clone_inserted" /\ op[c].base = k
        /\ \A k, c : <<k, c>> \in refs => c \in rows \/ rem[c].at = "row"

\* A removal learns of the bases to look at as it drops the references.
TodoLater == \A b \in Boxes : rem[b].at \in {"no", "row"} => rem[b].todo = {}

CollectedInv == Typed /\ ClonesInv /\ BasesFiled /\ TodoLater /\ Accounted

LEMMA CollectedInit == Init => CollectedInv
<1> SUFFICES ASSUME Init PROVE BasesFiled /\ TodoLater /\ Accounted
    BY InitTyped, ClonesInit DEF CollectedInv
<1>1. PICK b \in Boxes :
        /\ files = [p \in {Disk(b)} |-> [back |-> NoPath, sound |-> TRUE]]
        /\ bases = [k \in {} |-> b] /\ refs = {} /\ op = [c \in Boxes |-> Idle]
        /\ rem = [c \in Boxes |-> NotRemoving]
    BY DEF Init
<1>2. \A c \in Boxes : op[c].at \notin Fresh
    BY <1>1 DEF Idle, Fresh
<1>3. DOMAIN bases = {} /\ DOMAIN files = {Disk(b)} /\ refs = {}
    BY <1>1
<1>4. BasesFiled
    BY <1>2, <1>3, PathsApart DEF BasesFiled, Exists
<1>5. TodoLater
    BY <1>1 DEF TodoLater, NotRemoving
<1> QED BY <1>3, <1>4, <1>5 DEF Accounted

\* Without the faults that end it early, a clone takes its base to a reference.
LEMMA FreshGoesOn ==
    ASSUME Collecting, OpsTyped, [Next]_vars, NEW c \in Boxes, op[c].at \in Fresh
    PROVE  /\ op'[c].base = op[c].base
           /\ \/ op'[c].at \in Fresh /\ (op[c].at = "clone_inserted" => op'[c].at = "clone_inserted")
              \/ /\ CloneRef(c) /\ refs' = refs \union {<<op[c].base, c>>}
                 /\ op[c].at = "clone_inserted"
<1>1. /\ op[c].at \in CloneSteps /\ op[c].at \notin Bound /\ op[c].at \notin NameSteps
      /\ op[c].base # NoName /\ op[c] # Idle /\ ~Takes(c)
    BY ClonersBase DEF Fresh, Bound, CloneSteps, NameSteps, Takes
<1>2. ~Restart
    BY <1>1 DEF Restart, MayCrash, Cloning, Collecting
<1>3. op'[c] # Idle
    <2>1. SUFFICES ASSUME op'[c] = Idle PROVE FALSE
        OBVIOUS
    <2>2. op[c].at = "clone_moved"
        BY <1>1, <2>1, CloneEnds DEF Collecting, Fresh
    <2>3. op'[c] # op[c]
        BY <1>1, <2>1
    <2>4. PICK b \in Boxes : Operate(b) /\ \A e \in Boxes \ {b} : op'[e] = op[e]
        <3>1. ~UNCHANGED vars
            BY <2>3 DEF vars
        <3> QED BY <1>2, <3>1, OpMovesOn
    <2>5. Operate(c)
        BY <2>3, <2>4
    <2>6. ~CloneChild(c)
        <3>1. Outcomes("child") = {TRUE}
            BY DEF Outcomes, Collecting
        <3>2. Step(c, "clone_forked") => op'[c].at = "clone_forked"
            BY DEF Step, OpsTyped, Op
        <3>3. Idle.at # "clone_forked"
            BY DEF Idle
        <3>4. ASSUME CloneChild(c) PROVE Step(c, "clone_forked")
            <4>1. PICK ok \in Outcomes("child") :
                        IF ok THEN Step(c, "clone_forked") ELSE op' = [op EXCEPT ![c] = Idle]
                BY <3>4 DEF CloneChild
            <4> QED BY <3>1, <4>1
        <3>5. op'[c].at # "clone_forked"
            BY <2>1, <3>3
        <3> QED BY <3>2, <3>4, <3>5
    <2>7. ~RemoveRow(c) /\ ~RemoveRefs(c) /\ ~RemoveDisks(c) /\ ~RemoveDir(c) /\ \A k : ~CollectBase(c, k)
        BY <2>3 DEF RemoveRow, RemoveRefs, RemoveDisks, RemoveDir, CollectBase
    <2> QED BY <1>1, <2>2, <2>5, <2>6, <2>7 DEF Operate, SnapMark, SnapDelete, RestoreBegin, SnapMove, SnapChild,
               SnapSave, SnapUnmark, SnapUnlink, RestoreChild, CloneMove, CloneInsert, CloneRef, CloneRefer,
               CloneStage, CloneProvision
<1>4. \A k : ~CloneMove(c, k)
    BY <1>1, ClonersBase
<1>5. op'[c].base = op[c].base
    <2>1. OpMoves(c) /\ op[c] \in Op
        BY OpMovesOn DEF OpsTyped
    <2>2. \A at : [op[c] EXCEPT !.at = at].base = op[c].base
        BY <2>1 DEF Op
    <2>3. /\ ~CloneRefer(c)
          /\ \A d : ~CloneStage(c, d) /\ ~CloneProvision(c, d)
        BY DEF Fresh, CloneRefer, CloneStage, CloneProvision
    <2> QED BY <1>1, <1>3, <1>4, <2>1, <2>2, <2>3 DEF OpMoves
<1> QED BY <1>1, <1>4, <1>5, BaseMoves DEF Fresh

\* A collection takes the file with the row.
LEMMA CollectsFiles ==
    ASSUME Typed, NEW b, NEW j, CollectBase(b, j), NEW k \in Doomed(j)
    PROVE  Base(k) \notin DOMAIN files' /\ k \notin DOMAIN bases'
<1>1. PICK gone : gone = Doomed(j)
    OBVIOUS
<1>2. bases' = [i \in DOMAIN bases \ gone |-> bases[i]] /\ files' = Without(files, {Base(i) : i \in gone})
    BY <1>1 DEF CollectBase
<1>3. DOMAIN files' = DOMAIN files \ {Base(i) : i \in gone}
    BY <1>2 DEF Without
<1> QED BY <1>1, <1>2, <1>3

LEMMA BasesFiledStep ==
    ASSUME Collecting, CollectedInv, [Next]_vars
    PROVE  BasesFiled'
<1>1. /\ Typed /\ OpsTyped /\ "race" \notin Faults /\ DOMAIN bases \subseteq Bases
    BY DEF CollectedInv, Typed, TypeOK, Collecting
<1>2. Typed' /\ OpsTyped' /\ ClonesInv'
    BY <1>1, TypedStep, ClonesStep DEF CollectedInv, Typed
<1> SUFFICES ASSUME NEW k \in Bases
             PROVE  /\ k \in DOMAIN bases' => Base(k) \in DOMAIN files'
                    /\ Base(k) \in DOMAIN files' =>
                        k \in DOMAIN bases' \/ \E c \in Boxes : op'[c].at \in Fresh /\ op'[c].base = k
                    /\ \A c \in Boxes : op'[c].at \in Fresh /\ op'[c].base = k => Base(k) \in DOMAIN files'
    BY DEF BasesFiled, Exists, Base
<1>3. Fresh \subseteq CloneSteps /\ k # NoName /\ Fresh \intersect Bound = {}
    BY NoNameAssumption DEF Fresh, Bound, CloneSteps
<1>4. /\ k \in DOMAIN bases => Base(k) \in DOMAIN files
      /\ Base(k) \in DOMAIN files => k \in DOMAIN bases \/ \E c \in Boxes : op[c].at \in Fresh /\ op[c].base = k
      /\ \A c \in Boxes : op[c].at \in Fresh /\ op[c].base = k => Base(k) \in DOMAIN files
    BY DEF CollectedInv, BasesFiled, Exists
<1>5. ASSUME Base(k) \in DOMAIN files, Base(k) \notin DOMAIN files'
      PROVE  k \notin DOMAIN bases' /\ \A c \in Boxes : op'[c].at \in Fresh => op'[c].base # k
    <2>1. ASSUME NEW b \in Boxes, NEW j \in Bases, CollectBase(b, j), k \in Doomed(j)
          PROVE  k \notin DOMAIN bases' /\ \A c \in Boxes : op'[c].at \in Fresh => op'[c].base # k
        <3>1. op' = op /\ j \in rem[b].todo
            BY <2>1 DEF CollectBase
        <3>2. k \notin DOMAIN bases'
            BY <1>1, <2>1, CollectsFiles
        <3>3. \A c \in Boxes : op[c].at \in Fresh => op[c].base # k
            BY <1>1, <2>1, <3>1, FreshNotDoomed DEF CollectedInv, ClonesInv
        <3> QED BY <3>1, <3>2, <3>3
    <2>2. CASE Restart /\ k \notin DOMAIN bases
        <3>1. bases' = bases /\ \A c \in Boxes : op'[c].at = "idle"
            BY <2>2 DEF Restart, Idle
        <3> QED BY <2>2, <3>1 DEF Fresh
    <2> QED BY <1>1, <1>5, <2>1, <2>2, BaseGoes
<1>6. ASSUME NEW c \in Boxes, op'[c].at \in Fresh, op'[c].base = k PROVE Base(k) \in DOMAIN files'
    <2>1. CASE CloneMove(c, k)
        BY <2>1 DEF CloneMove, Renamed, With
    <2>2. CASE op[c].at \in Fresh /\ op[c].base = k
        BY <1>4, <1>5, <1>6, <2>2
    <2> QED BY <1>1, <1>3, <1>6, <2>1, <2>2, BaseMoves DEF Fresh
<1>7. ASSUME k \in DOMAIN bases' PROVE Base(k) \in DOMAIN files'
    <2>1. Base(k) \in DOMAIN files
        <3>1. ASSUME NEW b \in Boxes, CloneInsert(b), k = op[b].base PROVE Base(k) \in DOMAIN files
            BY <1>1, <1>4, <3>1, ClonersBase DEF Fresh
        <3> QED BY <1>4, <1>7, <3>1, BasesMove
    <2> QED BY <1>5, <1>7, <2>1
<1>8. ASSUME Base(k) \in DOMAIN files'
      PROVE  k \in DOMAIN bases' \/ \E c \in Boxes : op'[c].at \in Fresh /\ op'[c].base = k
    <2>1. CASE k \in DOMAIN bases
        BY <1>1, <1>8, <2>1, CollectsFiles, BasesMove
    <2>2. ASSUME k \notin DOMAIN bases, NEW c \in Boxes, op[c].at \in Fresh, op[c].base = k
          PROVE  op'[c].at \in Fresh /\ op'[c].base = k
        <3>1. op[c].at # "clone_inserted"
            BY <2>2 DEF CollectedInv, ClonesInv, FreshBases
        <3> QED BY <1>1, <2>2, <3>1, FreshGoesOn
    <2>3. CASE Base(k) \notin DOMAIN files
        <3>1. Comes(Base(k))
            BY <1>1, <1>8, FilesMove
        <3>2. PICK b \in Boxes, j \in Bases : CloneMove(b, j) /\ Base(k) = Base(j)
            BY <2>3, <3>1, PathsApart DEF Comes
        <3>3. CloneMove(b, k)
            BY <3>2, PathsApart
        <3>4. op' = [op EXCEPT ![b] = [Idle EXCEPT !.at = "clone_moved", !.base = k]]
            BY <3>3 DEF CloneMove
        <3>5. op'[b].at = "clone_moved" /\ op'[b].base = k
            BY <1>1, <3>4 DEF OpsTyped, Idle
        <3> QED BY <3>5 DEF Fresh
    <2> QED BY <1>4, <2>1, <2>2, <2>3
<1> QED BY <1>6, <1>7, <1>8

\* Nothing is left to look at before the references have gone.
LEMMA TodoLaterStep == Typed /\ TodoLater /\ [Next]_vars => TodoLater'
<1> SUFFICES ASSUME Typed, TodoLater, [Next]_vars, NEW b \in Boxes, rem'[b].at \in {"no", "row"}
             PROVE  rem'[b].todo = {}
    BY DEF TodoLater
<1>1. rem \in [Boxes -> [at : RemSteps, todo : SUBSET Bases]]
    BY DEF Typed, TypeOK
<1>2. NotRemoving.todo = {} /\ [at |-> "row", todo |-> {}].todo = {}
    BY DEF NotRemoving
<1>3. [rem[b] EXCEPT !.at = "disks"].at = "disks"
    BY <1>1
<1>4. [at |-> "refs", todo |-> {k \in Bases : <<k, b>> \in refs}].at = "refs"
    OBVIOUS
<1>5. ASSUME NEW k, CollectBase(b, k) PROVE [rem[b] EXCEPT !.todo = @ \ {k}].at = "disks"
    BY <1>1, <1>5, RemovalAt
<1> QED BY <1>1, <1>2, <1>3, <1>4, <1>5, RemMoves DEF TodoLater

LEMMA TornStays ==
    ASSUME Typed, [Next]_vars, ~torn'
    PROVE  ~torn /\ (Restart => Removing = {} /\ rows' = rows)
<1>1. torn \in BOOLEAN
    BY DEF Typed, TypeOK
<1>2. Restart => torn' = (torn \/ Removing # {} \/ Survivors # rows) /\ rows' = Survivors
    BY DEF Restart
<1>3. ~Restart => torn' = torn
    BY DEF Next, vars, Operate, SnapMark, SnapDelete, RestoreBegin, SnapMove, SnapChild, SnapSave,
           SnapUnmark, SnapUnlink, RestoreChild, CloneMove, CloneChild, CloneInsert, CloneRef, CloneRefer,
           CloneStage, CloneProvision, RemoveRow, RemoveRefs, RemoveDisks, RemoveDir, CollectBase
<1> QED BY <1>1, <1>2, <1>3

LEMMA AccountedStep ==
    ASSUME Collecting, CollectedInv, [Next]_vars
    PROVE  Accounted'
<1> SUFFICES ASSUME ~torn'
             PROVE  /\ \A k \in DOMAIN bases' :
                        \/ \E c \in Boxes : <<k, c>> \in refs' \/ k \in rem'[c].todo
                        \/ \E c \in Boxes : op'[c].at = "clone_inserted" /\ op'[c].base = k
                    /\ \A k, c : <<k, c>> \in refs' => c \in rows' \/ rem'[c].at = "row"
    BY DEF Accounted
<1>1. /\ Typed /\ OpsTyped /\ rem \in [Boxes -> [at : RemSteps, todo : SUBSET Bases]]
      /\ refs \subseteq Bases \X Boxes /\ \A k \in DOMAIN bases : k \in Bases
    BY DEF CollectedInv, Typed, TypeOK
<1>2. /\ \A k \in DOMAIN bases :
            \/ \E c \in Boxes : <<k, c>> \in refs \/ k \in rem[c].todo
            \/ \E c \in Boxes : op[c].at = "clone_inserted" /\ op[c].base = k
      /\ \A k, c : <<k, c>> \in refs => c \in rows \/ rem[c].at = "row"
    BY <1>1, TornStays DEF CollectedInv, Accounted
<1>3. ASSUME NEW b \in Boxes, rem[b] # NotRemoving PROVE ~Restart
    BY <1>1, <1>3, TornStays DEF Removing
<1>4. ASSUME NEW k \in DOMAIN bases', k \in DOMAIN bases
      PROVE  \/ \E c \in Boxes : <<k, c>> \in refs' \/ k \in rem'[c].todo
             \/ \E c \in Boxes : op'[c].at = "clone_inserted" /\ op'[c].base = k
    <2>1. ASSUME NEW c \in Boxes, <<k, c>> \in refs, <<k, c>> \notin refs' PROVE k \in rem'[c].todo
        <3>1. RemoveRefs(c)
            BY <2>1, RefsMove
        <3>2. rem' = [rem EXCEPT ![c] = [at |-> "refs", todo |-> {i \in Bases : <<i, c>> \in refs}]]
            BY <3>1 DEF RemoveRefs
        <3>3. rem'[c].todo = {i \in Bases : <<i, c>> \in refs}
            BY <1>1, <3>2
        <3> QED BY <1>1, <1>4, <2>1, <3>3
    <2>2. ASSUME NEW c \in Boxes, k \in rem[c].todo
          PROVE  k \in rem'[c].todo \/ \E e \in Boxes : <<k, e>> \in refs'
        <3>1. rem[c].at \notin {"no", "row"} /\ rem[c] # NotRemoving
            BY <2>2, RemovalAt DEF CollectedInv, TodoLater
        <3>2. c \notin rows
            BY <1>1, <3>1 DEF Typed, RemovedLast, Removing
        <3>3. ~RemoveRow(c) /\ ~RemoveRefs(c) /\ ~Restart
            BY <1>3, <3>1, <3>2, RemovalAt
        <3>4. ~RemoveDir(c)
            BY <2>2 DEF RemoveDir
        <3>5. [rem[c] EXCEPT !.at = "disks"].todo = rem[c].todo
            BY <1>1
        <3>6. ASSUME NEW j \in Bases, CollectBase(c, j), rem'[c] = [rem[c] EXCEPT !.todo = @ \ {j}]
              PROVE  k \in rem'[c].todo \/ \E e \in Boxes : <<k, e>> \in refs'
            <4>1. rem'[c].todo = rem[c].todo \ {j}
                <5>1. PICK less : less = rem[c].todo \ {j}
                    OBVIOUS
                <5>2. rem'[c] = [rem[c] EXCEPT !.todo = less]
                    BY <3>6, <5>1
                <5> QED BY <1>1, <5>1, <5>2
            <4>2. CASE k = j
                <5>1. k \notin Doomed(j)
                    BY <1>1, <1>4, <3>6, CollectsFiles
                <5>2. ~Collectable(k)
                    BY <1>1, <1>4, <4>2, <5>1 DEF Doomed, Closed
                <5>3. refs' = refs
                    BY <3>6 DEF CollectBase
                <5> QED BY <1>4, <5>2, <5>3 DEF Collectable
            <4> QED BY <2>2, <4>1, <4>2
        <3> QED BY <1>1, <2>2, <3>3, <3>4, <3>5, <3>6, RemMoves
    <2>3. ASSUME NEW c \in Boxes, op[c].at = "clone_inserted", op[c].base = k
          PROVE  (op'[c].at = "clone_inserted" /\ op'[c].base = k) \/ <<k, c>> \in refs'
        BY <1>1, <2>3, FreshGoesOn DEF Fresh
    <2> QED BY <1>2, <1>4, <2>1, <2>2, <2>3
<1>5. ASSUME NEW k \in DOMAIN bases', k \notin DOMAIN bases
      PROVE  \E c \in Boxes : op'[c].at = "clone_inserted" /\ op'[c].base = k
    <2>1. PICK b \in Boxes : CloneInsert(b) /\ k = op[b].base /\ Step(b, "clone_inserted")
        BY <1>5, BasesMove
    <2>2. op'[b].at = "clone_inserted" /\ op'[b].base = k
        BY <1>1, <2>1 DEF Step, OpsTyped, Op
    <2> QED BY <2>2
<1>6. ASSUME NEW k, NEW c, <<k, c>> \in refs' PROVE c \in rows' \/ rem'[c].at = "row"
    <2>1. ASSUME c \in rows, ~(c \in rows') PROVE rem'[c].at = "row"
        <3>1. RemoveRow(c) /\ c \in Boxes
            BY <1>1, <2>1, RowsMove, TornStays
        <3>2. rem' = [rem EXCEPT ![c] = [at |-> "row", todo |-> {}]]
            BY <3>1 DEF RemoveRow
        <3> QED BY <1>1, <3>1, <3>2
    <2>2. ASSUME <<k, c>> \in refs, rem[c].at = "row", c \in Boxes PROVE rem'[c].at = "row"
        <3>1. ~RemoveRefs(c)
            <4>1. RemoveRefs(c) => refs' = {r \in refs : r[2] # c}
                BY DEF RemoveRefs
            <4>2. <<k, c>>[2] = c
                OBVIOUS
            <4> QED BY <1>6, <4>1, <4>2
        <3>2. ~Restart /\ ~RemoveDir(c) /\ ~RemoveDisks(c) /\ \A j : ~CollectBase(c, j)
            BY <1>3, <2>2, RemovalAt
        <3>3. \/ rem'[c] = rem[c]
              \/ rem'[c] = NotRemoving /\ (RemoveDir(c) \/ Restart)
              \/ RemoveRow(c) /\ rem'[c] = [at |-> "row", todo |-> {}]
              \/ RemoveRefs(c)
              \/ RemoveDisks(c)
              \/ \E j \in Bases : CollectBase(c, j)
            <4>1. [Next]_vars /\ c \in Boxes
                BY <2>2
            <4> QED BY <1>1, <4>1, RemMoves
        <3>4. rem'[c] = rem[c] \/ rem'[c] = [at |-> "row", todo |-> {}]
            BY <3>1, <3>2, <3>3
        <3> QED BY <2>2, <3>4
    <2>3. CASE <<k, c>> \in refs
        BY <1>1, <1>2, <2>1, <2>2, <2>3
    <2>4. CASE CloneRef(c) /\ c \in Boxes
        <3>1. op[c] # Idle
            BY <1>1, <2>4, ClonersBase DEF CloneSteps
        <3> QED BY <2>1, <2>4, <3>1 DEF CollectedInv, ClonesInv, OpsOfRows
    <2>5. ASSUME NEW b \in Boxes, CloneRefer(b), c = op[b].dest PROVE c \in rows' \/ rem'[c].at = "row"
        <3>1. c \in rows
            BY <2>5 DEF CollectedInv, ClonesInv, OpsOfRows, CloneRefer
        <3> QED BY <2>1, <3>1
    <2> QED BY <1>6, <2>3, <2>4, <2>5, RefsMove
<1> QED BY <1>4, <1>5, <1>6

(* Every base is kept for a living box once all is quiet, however clones,    *)
(* removals and crashes outside a clone fall together, unless a removal was  *)
(* left half done: a crash tore it apart, or recovery deleted the row of a   *)
(* remove-on-stop box (base_disk.rs:333, rt_impl.rs:1072, 1346).             *)
THEOREM BasesAreCollected ==
    ASSUME Faults \intersect {"race", "child", "base_db", "crash_clone"} = {}
    PROVE  Spec => []BasesCollected
<1>1. Collecting /\ "race" \notin Faults
    BY DEF Collecting
<1>2. CollectedInv /\ [Next]_vars => CollectedInv'
    BY <1>1, TypedStep, ClonesStep, BasesFiledStep, TodoLaterStep, AccountedStep DEF CollectedInv
<1>3. CollectedInv => BasesCollected
    <2> SUFFICES ASSUME CollectedInv, ~torn, op = [b \in Boxes |-> Idle], Removing = {}, NEW k \in Bases,
                        Exists(Base(k)) \/ k \in DOMAIN bases
                 PROVE  /\ k \in DOMAIN bases /\ Exists(Base(k))
                        /\ \E c \in rows : <<k, c>> \in refs
        BY DEF BasesCollected
    <2>1. \A b \in Boxes : op[b].at = "idle" /\ rem[b].at = "no" /\ rem[b].todo = {}
        <3>1. \A b \in Boxes : rem[b] = NotRemoving
            BY DEF Removing
        <3> QED BY <3>1 DEF Idle, NotRemoving
    <2>2. k \in DOMAIN bases /\ Exists(Base(k))
        BY <2>1 DEF CollectedInv, BasesFiled, Fresh
    <2>3. PICK c \in Boxes : <<k, c>> \in refs
        BY <2>1, <2>2 DEF CollectedInv, Accounted
    <2>4. c \in rows
        BY <2>1, <2>3 DEF CollectedInv, Accounted
    <2> QED BY <2>2, <2>3, <2>4
<1> QED BY <1>2, <1>3, CollectedInit, PTL DEF Spec

-----------------------------------------------------------------------------
(* Files stay whole. A set K of files is sound with all they are built on,   *)
(* and each box finds in it what its step of its operation needs. A step     *)
(* takes K to another such set: what goes is not in it, or is not in it any  *)
(* more. K is of living boxes' files, so that a removed box's are not in it. *)

\* A set of files with everything they are built on, as it was built.
Sound(K, fs) ==
    /\ K \subseteq DOMAIN fs
    /\ \A p \in K : fs[p].sound = TRUE /\ (fs[p].back = NoPath \/ fs[p].back \in K)

LEMMA WithoutSound ==
    ASSUME NEW fs, NEW ps, NEW K, Sound(K, fs), K \intersect ps = {}, NoPath \notin ps
    PROVE  Sound(K, Without(fs, ps)) /\ \A p \in K : Without(fs, ps)[p] = fs[p]
<1>1. DOMAIN Without(fs, ps) = DOMAIN fs \ ps
    BY DEF Without
<1>2. ASSUME NEW p \in K PROVE Without(fs, ps)[p] = fs[p]
    <2>1. p \in DOMAIN fs \ ps /\ fs[p].back \notin ps
        BY <1>2 DEF Sound
    <2>2. Without(fs, ps)[p] = IF fs[p].back \in ps THEN [fs[p] EXCEPT !.sound = FALSE] ELSE fs[p]
        BY <2>1 DEF Without
    <2> QED BY <2>1, <2>2
<1> QED BY <1>1, <1>2 DEF Sound

\* What of the sound files K of fs are in new, where to has taken from's place.
Moved(K, fs, from, to, new) ==
    /\ Sound((K \ {from}) \union {to}, new)
    /\ new[to] = fs[from] /\ \A p \in K \ {from} : new[p] = fs[p]
    /\ DOMAIN new = (DOMAIN fs \ {from}) \union {to}

LEMMA RenamedSound ==
    ASSUME NEW fs, NEW from, NEW to, NEW K, IsFiles(fs), Sound(K, fs), from \in K, to \in Paths, to \notin DOMAIN fs,
           \A p \in K : fs[p].back # from
    PROVE  Moved(K, fs, from, to, Renamed(fs, from, to))
<1> DEFINE replaced == Without(fs, {to})
           rest == Without(replaced, {from})
           L == (K \ {from}) \union {to}
           new == Renamed(fs, from, to)
<1>1. from \in DOMAIN fs /\ from # to /\ to \notin K /\ to # NoPath /\ from # NoPath
    BY NoPathAssumption DEF Sound, IsFiles
<1>2. Sound(K, replaced) /\ \A p \in K : replaced[p] = fs[p]
    <2>1. K \intersect {to} = {} /\ NoPath \notin {to}
        BY <1>1
    <2> QED BY <2>1, WithoutSound
<1>3. \A p \in K \ {from} : rest[p] = fs[p]
    <2>1. ASSUME NEW p \in K \ {from} PROVE rest[p] = fs[p]
        <3>1. p \in DOMAIN replaced \ {from} /\ replaced[p].back # from /\ replaced[p] = fs[p]
            BY <1>2 DEF Sound
        <3>2. PICK r : r = replaced
            OBVIOUS
        <3>3. Without(r, {from})[p] = r[p]
            BY <3>1, <3>2 DEF Without
        <3> QED BY <3>1, <3>2, <3>3
    <2> QED BY <2>1
<1>4. DOMAIN rest = DOMAIN fs \ {to, from}
    BY DEF Without
<1>5. new = With(rest, to, replaced[from])
    BY DEF Renamed
<1> HIDE DEF replaced, rest, new
<1>6. /\ DOMAIN new = DOMAIN rest \union {to} /\ new[to] = replaced[from]
      /\ \A p \in DOMAIN rest \ {to} : new[p] = rest[p]
    BY <1>5 DEF With
<1>7. new[to] = fs[from] /\ \A p \in K \ {from} : new[p] = fs[p]
    <2>1. K \subseteq DOMAIN fs
        BY DEF Sound
    <2> QED BY <1>1, <1>2, <1>3, <1>4, <1>6, <2>1
<1>8. DOMAIN new = (DOMAIN fs \ {from}) \union {to}
    BY <1>1, <1>4, <1>6
<1>9. Sound(L, new)
    <2>1. L \subseteq DOMAIN new
        BY <1>8 DEF Sound
    <2>2. ASSUME NEW p \in K PROVE fs[p].sound = TRUE /\ (fs[p].back = NoPath \/ fs[p].back \in K \ {from})
        BY DEF Sound
    <2>3. ASSUME NEW p \in L PROVE new[p].sound = TRUE /\ (new[p].back = NoPath \/ new[p].back \in L)
        BY <1>7, <2>2
    <2> HIDE DEF L
    <2> QED BY <2>1, <2>3 DEF Sound
<1> QED BY <1>7, <1>8, <1>9 DEF new, Moved

\* What of the sound files K of fs are in new, where child has been made on base.
Grown(K, fs, child, base, new) ==
    /\ Sound(K \union {child}, new)
    /\ new[child].back = base /\ \A p \in K : new[p] = fs[p]
    /\ DOMAIN new = DOMAIN fs \union {child}

LEMMA ChildSound ==
    ASSUME NEW fs, NEW child, NEW base, NEW K, Sound(K, fs), base \in K, child \notin DOMAIN fs
    PROVE  Grown(K, fs, child, base, WithChild(fs, child, base))
<1> DEFINE new == WithChild(fs, child, base)
           file == [back |-> base, sound |-> TRUE]
<1>1. base \in DOMAIN fs /\ K \subseteq DOMAIN fs
    BY DEF Sound
<1>2. new = With(fs, child, file)
    BY <1>1 DEF WithChild
<1>3. file.back = base /\ file.sound = TRUE
    OBVIOUS
<1> HIDE DEF new, file
<1>4. /\ DOMAIN new = DOMAIN fs \union {child} /\ new[child] = file
      /\ \A p \in DOMAIN fs : new[p] = fs[p]
    BY <1>2 DEF With
<1>5. Sound(K \union {child}, new)
    BY <1>1, <1>3, <1>4 DEF Sound
<1> QED BY <1>1, <1>3, <1>4, <1>5 DEF new, Grown

\* No chain of files is too long for the walk.
Shallow == \A p \in DOMAIN files : Walk(files, p)[MaxDepth] = NoPath

\* What the next file's chain leads to, the file's own leads to.
LEMMA ChainNext ==
    ASSUME NEW fs, NEW q, NEW r, Under(fs, q) = r, Walk(fs, q)[MaxDepth] = NoPath, NoPath \notin DOMAIN fs,
           NEW s \in Chain(fs, r)
    PROVE  s \in Chain(fs, q)
<1> DEFINE Off == {i \in 0..(MaxDepth - 1) : Walk(fs, r)[i] # Walk(fs, q)[i + 1]}
<1>1. MaxDepth \in Nat /\ MaxDepth >= 1
    BY MaxDepthAssumption
<1>2. Off = {}
    <2>1. SUFFICES ASSUME Off # {} PROVE FALSE
        OBVIOUS
    <2>2. PICK i \in Off : \A j \in Off : ~(j < i)
        <3>1. Off \subseteq Nat
            BY <1>1
        <3> HIDE DEF Off
        <3> QED BY <2>1, <3>1, LeastExists
    <2>3. CASE i = 0
        BY <1>1, <2>2, <2>3, WalkSteps
    <2>4. CASE i # 0
        <3>1. i \in 1..MaxDepth /\ i + 1 \in 1..MaxDepth /\ i - 1 \in 0..(MaxDepth - 1) /\ i - 1 < i
              /\ (i - 1) + 1 = i /\ (i + 1) - 1 = i
            BY <1>1, <2>2, <2>4
        <3>2. Walk(fs, r)[i - 1] = Walk(fs, q)[i]
            BY <2>2, <3>1
        <3>3. Walk(fs, r)[i] = Under(fs, Walk(fs, r)[i - 1])
            BY <3>1, WalkSteps
        <3>4. Walk(fs, q)[i + 1] = Under(fs, Walk(fs, q)[(i + 1) - 1])
            <4>1. PICK j \in 1..MaxDepth : j = i + 1
                BY <3>1
            <4>2. Walk(fs, q)[j] = Under(fs, Walk(fs, q)[j - 1])
                BY WalkSteps
            <4> QED BY <4>1, <4>2
        <3> QED BY <2>2, <3>1, <3>2, <3>3, <3>4
    <2> QED BY <2>3, <2>4
<1>3. PICK i \in 1..MaxDepth : Walk(fs, r)[i] = s /\ s # NoPath
    BY DEF Chain
<1>4. CASE i < MaxDepth
    <2>1. i \in 0..(MaxDepth - 1) /\ i + 1 \in 1..MaxDepth
        BY <1>1, <1>3, <1>4
    <2>2. Walk(fs, q)[i + 1] = s
        BY <1>2, <1>3, <2>1
    <2>3. PICK j \in 1..MaxDepth : Walk(fs, q)[j] = s
        BY <2>1, <2>2
    <2> QED BY <1>3, <2>3 DEF Chain
<1>5. CASE i = MaxDepth
    <2>1. MaxDepth - 1 \in 0..(MaxDepth - 1) /\ (MaxDepth - 1) + 1 = MaxDepth
        BY <1>1
    <2>2. Walk(fs, r)[MaxDepth - 1] = NoPath
        BY <1>2, <2>1
    <2>3. Walk(fs, r)[i] = NoPath
        BY <1>3, <1>5, <2>2, WalkSteps DEF Under
    <2> QED BY <1>3, <2>3
<1> QED BY <1>1, <1>3, <1>4, <1>5

\* A file backed by another has it on its chain.
LEMMA ChainFirst ==
    ASSUME NEW fs, NEW q, Under(fs, q) # NoPath
    PROVE  Under(fs, q) \in Chain(fs, q)
<1>1. 1 \in 1..MaxDepth /\ 1 - 1 = 0
    BY MaxDepthAssumption
<1>2. Walk(fs, q)[1] = Under(fs, q)
    BY <1>1, WalkSteps
<1> QED BY <1>1, <1>2 DEF Chain

\* What a set of sound files holds is whole.
LEMMA WholeOfSound ==
    ASSUME IsFiniteSet(Paths), Typed, NEW K, Sound(K, files), NEW p \in K
    PROVE  Whole(p)
<1> DEFINE N == Cardinality(Paths)
           below == CHOOSE w : w = [i \in 0..N |-> IF i = 0 THEN p ELSE Under(files, w[i - 1])]
<1>1. N \in Nat
    BY FS_CardinalityType
<1>2. PICK n \in Nat : n = N
    BY <1>1
<1>3. below = [i \in 0..N |-> IF i = 0 THEN p ELSE Under(files, below[i - 1])]
    BY <1>2, Iterates
<1>4. Whole(p) <=> Exists(p) /\ \A q \in {below[i] : i \in 0..N} \ {NoPath} : files[q].sound
    BY DEF Whole
<1> HIDE DEF below, N
<1>5. ASSUME NEW i \in 0..N PROVE below[i] \in K \union {NoPath}
    <2> DEFINE Out == {j \in 0..N : below[j] \notin K \union {NoPath}}
    <2>1. SUFFICES ASSUME Out # {} PROVE FALSE
        OBVIOUS
    <2>2. PICK j \in Out : \A m \in Out : ~(m < j)
        <3>1. Out \subseteq Nat
            BY <1>1
        <3> HIDE DEF Out
        <3> QED BY <2>1, <3>1, LeastExists
    <2>3. j \in 1..N /\ j - 1 \in 0..N /\ j - 1 < j
        <3>1. j \in 0..N /\ (j = 0 => below[j] = p)
            BY <1>1, <1>3, <2>2
        <3> QED BY <1>1, <2>2, <3>1
    <2>4. below[j - 1] \in K \union {NoPath}
        BY <2>2, <2>3
    <2>5. below[j] = Under(files, below[j - 1])
        BY <1>1, <1>3, <2>3
    <2>6. below[j] \in K \union {NoPath}
        BY <2>4, <2>5, NoPathAssumption DEF Under, Sound, Typed, TypeOK
    <2> QED BY <2>2, <2>6
<1>6. \A q \in {below[i] : i \in 0..N} \ {NoPath} : files[q].sound
    BY <1>5 DEF Sound
<1> QED BY <1>4, <1>6 DEF Sound, Exists

\* What box c needs of the sound files K while it has a row, and of its
\* snapshots and files at each step of an operation.
Kept(K, c) ==
    /\ c \in rows =>
        /\ op[c].at \notin Between => Disk(c) \in K
        /\ op[c].at \in {"snap_moved", "snap_forked"} => Snap(c, op[c].name) \in K
        /\ op[c].base # NoName => Base(op[c].base) \in K
        /\ \A n \in Names : <<c, n>> \in snaps => Snap(c, n) \in K
    /\ \A d \in op[c].staged : Disk(d) \in K
    /\ op[c].at = "snap_deleting" => Snap(c, op[c].name) \notin K
    /\ op[c].at = "snap_moved" => \A p \in K : files[p].back # Snap(c, op[c].name)
Ready(c) ==
    /\ \A d \in op[c].staged : \A n \in Names : <<d, n>> \notin snaps
    /\ op[c].at \in Between => ~Exists(Disk(c))
    /\ op[c].at = "snap_marked" => ~Exists(Snap(c, op[c].name))
    /\ op[c].at \in {"snap_marked", "snap_moved"} => marker[c] = op[c].name
    /\ op[c].at \in {"snap_marked", "snap_moved", "snap_forked"} => <<c, op[c].name>> \notin snaps
    /\ op[c].at = "restoring" => <<c, op[c].name>> \in snaps

AllKept(K) == Sound(K, files) /\ \A c \in Boxes : Kept(K, c) /\ Ready(c)
FilesInv == EdgesInv /\ \E K : AllKept(K)

\* The files that are living boxes' or stand for one: their homes and those of
\* their clones to be, and the bases they refer to or make.
Living(p) ==
    \E c \in rows :
        \/ p \in Home(c) \/ \E d \in op[c].staged : p \in Home(d)
        \/ \E k \in Bases : p = Base(k) /\ (Held(k, c) \/ op[c].base = k)

LEMMA LivingClosed ==
    ASSUME EdgesInv, NEW p \in DOMAIN files, Living(p), files[p].back # NoPath
    PROVE  /\ Living(files[p].back)
           /\ \A c \in Boxes : p \in Home(c) =>
                files[p].back \in Home(c) \/ \E k \in Bases : files[p].back = Base(k)
           /\ \A c \in Boxes : files[p].back \in Home(c) => c \in rows
<1>1. /\ Typed /\ OpsTyped /\ rows \subseteq Boxes
      /\ \A c \in Boxes : op[c].staged \subseteq Boxes /\ (op[c].staged # {} => op[c].at \in CloneSteps)
    BY DEF EdgesInv, Typed, TypeOK, OpsTyped, Op, Shaped
<1>2. ASSUME NEW c \in rows, Own(p, c)
      PROVE  files[p].back \in Home(c) \/ \E k \in Bases : files[p].back = Base(k) /\ Held(k, c)
    BY <1>2 DEF EdgesInv, EdgesHeld
<1>3. ASSUME NEW c \in rows, NEW d \in op[c].staged, p \in Home(d)
      PROVE  op[c].base \in Bases /\ files[p].back = Base(op[c].base)
    <2>1. op[c].base \in Bases
        BY <1>1, <1>3, ClonersBase
    <2> QED BY <1>1, <1>3, <2>1 DEF EdgesInv, ClonesInv, StagedFresh
<1>4. ASSUME NEW c \in rows, NEW k \in Bases, p = Base(k), Held(k, c) \/ op[c].base = k
      PROVE  \E d \in rows : Own(p, d)
    <2>1. CASE k \in DOMAIN bases /\ <<k, c>> \in refs
        BY <1>4, <2>1 DEF EdgesInv, SourceStays, Own
    <2>2. CASE op[c].base = k
        BY <1>4, <2>2 DEF Own
    <2>3. ASSUME NEW d \in Boxes, op[d].at = "clone_provisioned", op[d].base = k PROVE \E e \in rows : Own(p, e)
        <3>1. d \in rows
            BY <2>3 DEF EdgesInv, ClonesInv, OpsOfRows, Idle
        <3> QED BY <1>4, <2>3, <3>1 DEF Own
    <2> QED BY <1>4, <2>1, <2>2, <2>3 DEF Held
<1>5. PICK c \in rows :
        \/ p \in Home(c) \/ \E d \in op[c].staged : p \in Home(d)
        \/ \E k \in Bases : p = Base(k) /\ (Held(k, c) \/ op[c].base = k)
    BY DEF Living
<1>6. ASSUME NEW d \in rows, Own(p, d)
      PROVE  Living(files[p].back) /\ \A e \in Boxes : files[p].back \in Home(e) => e \in rows
    BY <1>1, <1>2, <1>6, Homes DEF Living
<1>7. CASE p \in Home(c)
    <2>1. Own(p, c) /\ \A d \in Boxes : p \in Home(d) => d = c
        BY <1>7, Homes DEF Own
    <2> QED BY <1>2, <1>6, <2>1
<1>8. ASSUME NEW d \in op[c].staged, p \in Home(d)
      PROVE  /\ Living(files[p].back)
             /\ \A e \in Boxes : p \in Home(e) =>
                  files[p].back \in Home(e) \/ \E k \in Bases : files[p].back = Base(k)
             /\ \A e \in Boxes : files[p].back \notin Home(e)
    BY <1>3, <1>8, Homes DEF Living
<1>9. ASSUME NEW k \in Bases, p = Base(k), Held(k, c) \/ op[c].base = k
      PROVE  /\ Living(files[p].back) /\ \A e \in Boxes : p \notin Home(e)
             /\ \A e \in Boxes : files[p].back \in Home(e) => e \in rows
    BY <1>4, <1>6, <1>9, Homes
<1> QED BY <1>5, <1>7, <1>8, <1>9

\* The sound files that are needed are living ones.
LEMMA KeptLiving ==
    ASSUME FilesInv
    PROVE  \E K : AllKept(K) /\ \A p \in K : Living(p)
<1>1. EdgesInv /\ Typed /\ OpsTyped /\ rows \subseteq Boxes /\ \A c \in Boxes : op[c].staged \subseteq Boxes
    BY DEF FilesInv, EdgesInv, Typed, TypeOK, OpsTyped, Op
<1>2. PICK K : AllKept(K)
    BY DEF FilesInv
<1> DEFINE L == {p \in K : Living(p)}
<1>3. Sound(L, files)
    <2>1. L \subseteq DOMAIN files
        BY <1>2 DEF AllKept, Sound
    <2>2. ASSUME NEW p \in L PROVE files[p].sound = TRUE /\ (files[p].back = NoPath \/ files[p].back \in L)
        <3>1. p \in K /\ p \in DOMAIN files /\ Living(p)
            BY <2>1, <2>2
        <3>2. files[p].back # NoPath => Living(files[p].back)
            BY <1>1, <3>1, LivingClosed
        <3> QED BY <1>2, <3>1, <3>2 DEF AllKept, Sound
    <2> QED BY <2>1, <2>2 DEF Sound
<1>4. ASSUME NEW c \in Boxes PROVE Kept(L, c) /\ Ready(c)
    <2>1. Kept(K, c) /\ Ready(c) /\ Shaped(op[c]) /\ op[c] \in Op
        BY <1>1, <1>2 DEF AllKept, OpsTyped
    <2>2. c \in rows => Living(Disk(c)) /\ \A n \in Names : Living(Snap(c, n))
        BY Homes DEF Living
    <2>3. op[c].at \in {"snap_moved", "snap_forked"} => op[c].name \in Names
        BY <2>1 DEF Shaped, NameSteps
    <2>4. c \in rows /\ op[c].base # NoName => Living(Base(op[c].base))
        BY <2>1 DEF Living, Op
    <2>5. ASSUME NEW d \in op[c].staged PROVE Living(Disk(d))
        <3>1. c \in rows
            BY <1>1, <2>5 DEF EdgesInv, ClonesInv, OpsOfRows, Idle
        <3> QED BY <2>5, <3>1, Homes DEF Living
    <2> QED BY <2>1, <2>2, <2>3, <2>4, <2>5 DEF Kept
<1>5. AllKept(L)
    <2> HIDE DEF L
    <2> QED BY <1>3, <1>4 DEF AllKept
<1> QED BY <1>5

\* Faults that leave a box without its disk, or a disk without its base.
Preserving ==
    Faults \intersect {"race", "force", "base_db", "crash_clone", "crash_restore", "child", "retry"} = {}

\* A step of the boxes B, which takes the sound files from K to L.
Aside(B, K, L) ==
    /\ \A c \in Boxes \ B :
        /\ op'[c] = op[c] /\ marker'[c] = marker[c] /\ (c \in rows' => c \in rows)
        /\ \A n \in Names : <<c, n>> \in snaps' <=> <<c, n>> \in snaps
        /\ \A p \in Home(c) : (p \in DOMAIN files' <=> p \in DOMAIN files) /\ (p \in K <=> p \in L)
        /\ \A d \in op[c].staged : Disk(d) \in L /\ \A n \in Names : <<d, n>> \notin snaps'
        /\ \A p \in L : \A n \in Names : files'[p].back = Snap(c, n) => \E q \in K : files[q].back = Snap(c, n)
    /\ \A k \in Bases : Base(k) \in K => Base(k) \in L

LEMMA AsideKept ==
    ASSUME OpsTyped, NEW K, AllKept(K), NEW B, NEW L, Aside(B, K, L), NEW c \in Boxes \ B
    PROVE  Kept(L, c)' /\ Ready(c)'
<1>1. /\ op[c] \in Op /\ Shaped(op[c]) /\ Kept(K, c) /\ Ready(c)
      /\ op[c].at \in {"snap_marked", "snap_moved", "snap_forked", "snap_deleting", "restoring"} => op[c].name \in Names
      /\ op[c].base # NoName => op[c].base \in Bases
    BY DEF OpsTyped, AllKept, Shaped, NameSteps, Op
<1>2. /\ Disk(c) \in Home(c) /\ \A n \in Names : Snap(c, n) \in Home(c)
    BY Homes
<1>3. /\ op'[c] = op[c] /\ marker'[c] = marker[c] /\ (c \in rows' => c \in rows)
      /\ \A n \in Names : <<c, n>> \in snaps' <=> <<c, n>> \in snaps
      /\ \A d \in op[c].staged : Disk(d) \in L /\ \A n \in Names : <<d, n>> \notin snaps'
      /\ \A k \in Bases : Base(k) \in K => Base(k) \in L
    BY DEF Aside
<1>4. ASSUME NEW p \in Home(c) PROVE (p \in DOMAIN files' <=> p \in DOMAIN files) /\ (p \in K <=> p \in L)
    BY <1>4 DEF Aside
<1>5. Disk(c) \in K <=> Disk(c) \in L
    BY <1>2, <1>4
<1>6. \A n \in Names : Snap(c, n) \in K <=> Snap(c, n) \in L
    BY <1>2, <1>4
<1>7. op[c].at = "snap_moved" => \A p \in L : files'[p].back # Snap(c, op[c].name)
    <2>1. SUFFICES ASSUME op[c].at = "snap_moved", NEW p \in L, files'[p].back = Snap(c, op[c].name) PROVE FALSE
        OBVIOUS
    <2>2. \E q \in K : files[q].back = Snap(c, op[c].name)
        BY <1>1, <2>1 DEF Aside
    <2> QED BY <1>1, <2>1, <2>2 DEF Kept
<1>8. Kept(L, c)'
    <2>1. c \in rows' =>
            /\ op'[c].at \notin Between => Disk(c) \in L
            /\ op'[c].at \in {"snap_moved", "snap_forked"} => Snap(c, op'[c].name) \in L
            /\ op'[c].base # NoName => Base(op'[c].base) \in L
            /\ \A n \in Names : <<c, n>> \in snaps' => Snap(c, n) \in L
        BY <1>1, <1>3, <1>5, <1>6 DEF Kept
    <2>2. op'[c].at = "snap_deleting" => Snap(c, op'[c].name) \notin L
        BY <1>1, <1>3, <1>6 DEF Kept
    <2> QED BY <1>3, <1>7, <2>1, <2>2 DEF Kept, Between, Disk, Snap, Base
<1>9. (Disk(c) \in DOMAIN files' <=> Disk(c) \in DOMAIN files)
      /\ \A n \in Names : Snap(c, n) \in DOMAIN files' <=> Snap(c, n) \in DOMAIN files
    BY <1>2, <1>4
<1>10. Ready(c)'
    <2>1. /\ op[c].at \in Between => Disk(c) \notin DOMAIN files'
          /\ op[c].at = "snap_marked" => Snap(c, op[c].name) \notin DOMAIN files'
        BY <1>1, <1>9 DEF Ready, Exists
    <2>2. /\ op[c].at \in {"snap_marked", "snap_moved"} => marker'[c] = op[c].name
          /\ op[c].at \in {"snap_marked", "snap_moved", "snap_forked"} => <<c, op[c].name>> \notin snaps'
          /\ op[c].at = "restoring" => <<c, op[c].name>> \in snaps'
        BY <1>1, <1>3 DEF Ready
    <2> QED BY <1>3, <2>1, <2>2 DEF Ready, Exists, Disk, Snap, Between
<1> QED BY <1>8, <1>10

LEMMA BoxShape ==
    ASSUME EdgesInv, NEW c \in Boxes
    PROVE  /\ op \in [Boxes -> Op] /\ op[c] \in Op /\ Shaped(op[c]) /\ rows \subseteq Boxes
           /\ op[c].at \in NameSteps => op[c].name \in Names /\ op[c].base = NoName /\ op[c].staged = {}
           /\ op[c].at # "idle" => c \in rows
           /\ op[c] = Idle => op[c].at = "idle" /\ op[c].base = NoName /\ op[c].staged = {}
           /\ (c \in rows \/ op[c] # Idle \/ rem[c] # NotRemoving) => \A d \in Boxes : c \notin op[d].staged
           /\ \A d \in op[c].staged : d \in Boxes /\ op[d] = Idle /\ d \notin rows /\ c \in rows
<1>1. /\ op \in [Boxes -> Op] /\ op[c] \in Op /\ Shaped(op[c]) /\ rows \subseteq Boxes
    BY DEF EdgesInv, Typed, TypeOK, OpsTyped
<1>2. op[c].at \in NameSteps => op[c].name \in Names /\ op[c].base = NoName /\ op[c].staged = {}
    BY <1>1 DEF Shaped, NameSteps, CloneSteps
<1>3. Idle.at = "idle" /\ Idle.base = NoName /\ Idle.staged = {}
    BY DEF Idle
<1>4. \A d \in Boxes : op[d] # Idle => d \in rows
    BY DEF EdgesInv, ClonesInv, OpsOfRows
<1>5. \A d \in op[c].staged : d \in Boxes /\ op[d] = Idle /\ d \notin rows /\ c \in rows
    BY <1>1, <1>3, <1>4 DEF Op, EdgesInv, Typed, StagedApart
<1>6. (c \in rows \/ op[c] # Idle \/ rem[c] # NotRemoving) => \A d \in Boxes : c \notin op[d].staged
    BY DEF EdgesInv, Typed, StagedApart
<1> QED BY <1>1, <1>2, <1>3, <1>4, <1>5, <1>6

LEMMA StepTo ==
    ASSUME op \in [Boxes -> Op], NEW b \in Boxes, NEW at, Step(b, at)
    PROVE  /\ op'[b].at = at /\ op'[b].name = op[b].name /\ op'[b].base = op[b].base
           /\ op'[b].dest = op[b].dest /\ op'[b].staged = op[b].staged
           /\ \A c \in Boxes \ {b} : op'[c] = op[c]
BY DEF Step, Op

LEMMA TakesOp ==
    ASSUME op \in [Boxes -> Op], NEW b \in Boxes, NEW at, NEW n,
           op' = [op EXCEPT ![b] = [Idle EXCEPT !.at = at, !.name = n]]
    PROVE  /\ op'[b].at = at /\ op'[b].name = n /\ op'[b].base = NoName /\ op'[b].staged = {}
           /\ \A c \in Boxes \ {b} : op'[c] = op[c]
BY DEF Idle

LEMMA EndsOp ==
    ASSUME op \in [Boxes -> Op], NEW b \in Boxes, op' = [op EXCEPT ![b] = Idle]
    PROVE  /\ op'[b].at = "idle" /\ op'[b].base = NoName /\ op'[b].staged = {}
           /\ \A c \in Boxes \ {b} : op'[c] = op[c]
BY DEF Idle

\* A step of one box that touches no file.
LEMMA QuietKept ==
    ASSUME EdgesInv, NEW K, AllKept(K), NEW b \in Boxes, files' = files,
           \A c \in Boxes \ {b} :
               /\ op'[c] = op[c] /\ marker'[c] = marker[c] /\ (c \in rows' => c \in rows)
               /\ \A n \in Names : <<c, n>> \in snaps' <=> <<c, n>> \in snaps,
           \A c \in Boxes : b \notin op[c].staged,
           Kept(K, b)', Ready(b)'
    PROVE  AllKept(K)'
<1>1. OpsTyped
    BY DEF EdgesInv, Typed
<1>2. ASSUME NEW c \in Boxes \ {b}, NEW d \in op[c].staged
      PROVE  Disk(d) \in K /\ \A n \in Names : <<d, n>> \notin snaps'
    <2>1. d \in Boxes \ {b}
        BY <1>2, BoxShape
    <2> QED BY <1>2, <2>1 DEF AllKept, Kept, Ready
<1>3. Aside({b}, K, K)
    BY <1>2 DEF Aside
<1>4. \A c \in Boxes : Kept(K, c)' /\ Ready(c)'
    BY <1>1, <1>3, AsideKept
<1> QED BY <1>4 DEF AllKept

LEMMA QuietSnapshots ==
    ASSUME Preserving, EdgesInv, NEW K, AllKept(K), NEW b \in Boxes,
           SnapSave(b) \/ SnapUnmark(b) \/ \E n \in Names : SnapMark(b, n)
    PROVE  AllKept(K)'
<1>1. /\ Kept(K, b) /\ Ready(b) /\ op \in [Boxes -> Op] /\ op[b] \in Op /\ "retry" \notin Faults
      /\ marker \in [Boxes -> Names \union {NoName}] /\ snaps \subseteq Boxes \X Names /\ Typed
    BY BoxShape DEF AllKept, Preserving, EdgesInv, Typed, TypeOK
<1>2. CASE SnapSave(b)
    <2>1. op[b].at = "snap_forked" /\ Step(b, "snap_done") /\ op[b].name \in Names
        BY <1>2, BoxShape DEF SnapSave, NameSteps
    <2>2. /\ b \in rows /\ op[b].base = NoName /\ op[b].staged = {} /\ \A c \in Boxes : b \notin op[c].staged
        BY <2>1, BoxShape DEF NameSteps
    <2>3. /\ files' = files /\ rows' = rows /\ marker' = marker
          /\ snaps' = snaps \/ snaps' = snaps \union {<<b, op[b].name>>}
        BY <1>2 DEF SnapSave
    <2>4. /\ op'[b].at = "snap_done" /\ op'[b].base = NoName /\ op'[b].staged = {}
          /\ \A c \in Boxes \ {b} : op'[c] = op[c]
        BY <1>1, <2>1, <2>2, StepTo
    <2>5. Disk(b) \in K /\ Snap(b, op[b].name) \in K
        BY <1>1, <2>1, <2>2 DEF Kept, Between
    <2>6. \A n \in Names : <<b, n>> \in snaps' => Snap(b, n) \in K
        BY <1>1, <2>2, <2>3, <2>5 DEF Kept
    <2>7. Kept(K, b)'
        BY <2>4, <2>5, <2>6 DEF Kept, Disk, Snap
    <2>8. Ready(b)'
        BY <2>4 DEF Ready, Between
    <2> QED BY <2>2, <2>3, <2>4, <2>7, <2>8, QuietKept
<1>3. CASE SnapUnmark(b)
    <2>1. op[b].at = "snap_done" /\ op' = [op EXCEPT ![b] = Idle] /\ marker' = [marker EXCEPT ![b] = NoName]
        BY <1>3 DEF SnapUnmark
    <2>2. b \in rows /\ \A c \in Boxes : b \notin op[c].staged
        BY <2>1, BoxShape
    <2>3. files' = files /\ rows' = rows /\ snaps' = snaps /\ \A c \in Boxes \ {b} : marker'[c] = marker[c]
        BY <1>1, <1>3, <2>1 DEF SnapUnmark
    <2>4. /\ op'[b].at = "idle" /\ op'[b].base = NoName /\ op'[b].staged = {}
          /\ \A c \in Boxes \ {b} : op'[c] = op[c]
        BY <1>1, <2>1, EndsOp
    <2>5. Kept(K, b)'
        BY <1>1, <2>1, <2>2, <2>3, <2>4 DEF Kept, Between, Disk, Snap
    <2>6. Ready(b)'
        BY <2>4 DEF Ready, Between
    <2> QED BY <2>2, <2>3, <2>4, <2>5, <2>6, QuietKept
<1>4. ASSUME NEW n \in Names, SnapMark(b, n) PROVE AllKept(K)'
    <2>1. /\ op[b] = Idle /\ b \in rows /\ <<b, n>> \notin snaps /\ ~Exists(Snap(b, n))
        BY <1>1, <1>4, NoRace DEF SnapMark, Takes, Preserving
    <2>2. /\ op[b].at = "idle" /\ \A c \in Boxes : b \notin op[c].staged
        BY <2>1, BoxShape
    <2>3. /\ op' = [op EXCEPT ![b] = [Idle EXCEPT !.at = "snap_marked", !.name = n]]
          /\ marker' = [marker EXCEPT ![b] = n] /\ files' = files /\ rows' = rows /\ snaps' = snaps
        BY <1>4 DEF SnapMark
    <2>4. /\ op'[b].at = "snap_marked" /\ op'[b].name = n /\ op'[b].base = NoName /\ op'[b].staged = {}
          /\ \A c \in Boxes \ {b} : op'[c] = op[c]
        BY <1>1, <2>3, TakesOp
    <2>5. marker'[b] = n /\ \A c \in Boxes \ {b} : marker'[c] = marker[c]
        BY <1>1, <2>3
    <2>6. Kept(K, b)'
        BY <1>1, <2>1, <2>2, <2>3, <2>4 DEF Kept, Between, Disk, Snap
    <2>7. Ready(b)'
        BY <2>1, <2>3, <2>4, <2>5 DEF Ready, Between, Exists, Snap
    <2> QED BY <2>2, <2>3, <2>4, <2>5, <2>6, <2>7, QuietKept
<1> QED BY <1>2, <1>3, <1>4

LEMMA QuietClones ==
    ASSUME Preserving, EdgesInv, NEW K, AllKept(K), NEW b \in Boxes,
           CloneInsert(b) \/ CloneRef(b) \/ CloneRefer(b)
    PROVE  AllKept(K)'
<1>1. /\ Kept(K, b) /\ Ready(b) /\ op \in [Boxes -> Op] /\ op[b] \in Op
    BY BoxShape DEF AllKept
<1>2. op[b].at \in {"clone_forked", "clone_inserted", "clone_provisioned"}
    BY DEF CloneInsert, CloneRef, CloneRefer
<1>3. b \in rows /\ \A c \in Boxes : b \notin op[c].staged
    BY <1>2, BoxShape
<1>4. files' = files /\ rows' = rows /\ marker' = marker /\ snaps' = snaps
    BY DEF CloneInsert, CloneRef, CloneRefer
<1>5. /\ op'[b].at \in {"idle", "clone_inserted", "clone_based", "clone_staged"}
      /\ op'[b].base \in {op[b].base, NoName} /\ op'[b].staged \subseteq op[b].staged
      /\ \A c \in Boxes \ {b} : op'[c] = op[c]
    <2>1. CASE Step(b, "clone_inserted") \/ Step(b, "clone_based")
        BY <1>1, <2>1, StepTo
    <2>2. CASE op' = [op EXCEPT ![b] = Idle]
        BY <1>1, <2>2, EndsOp
    <2>3. CASE op' = [op EXCEPT ![b].at = "clone_staged", ![b].dest = NoName]
        BY <1>1, <2>3 DEF Op
    <2> QED BY <2>1, <2>2, <2>3 DEF CloneInsert, CloneRef, CloneRefer
<1>6. Kept(K, b)'
    BY <1>1, <1>2, <1>3, <1>4, <1>5 DEF Kept, Between, Disk, Snap, Base
<1>7. Ready(b)'
    BY <1>1, <1>4, <1>5 DEF Ready, Between
<1> QED BY <1>3, <1>4, <1>5, <1>6, <1>7, QuietKept

LEMMA QuietRemovals ==
    ASSUME Preserving, EdgesInv, NEW K, AllKept(K), NEW b \in Boxes, RemoveRow(b) \/ RemoveRefs(b)
    PROVE  AllKept(K)'
<1>1. Kept(K, b) /\ Ready(b)
    BY DEF AllKept
<1>2. files' = files /\ marker' = marker /\ snaps' = snaps /\ op' = op /\ rows' \subseteq rows
    BY DEF RemoveRow, RemoveRefs
<1>3. \A c \in Boxes : b \notin op[c].staged
    BY BoxShape DEF RemoveRow, RemoveRefs, NotRemoving
<1>4. Kept(K, b)' /\ Ready(b)'
    BY <1>1, <1>2 DEF Kept, Ready, Disk, Snap, Base, Exists
<1> QED BY <1>2, <1>3, <1>4, QuietKept

\* The other boxes' operations, rows and snapshots are left alone.
OthersAlone(b) ==
    \A c \in Boxes \ {b} :
        /\ op'[c] = op[c] /\ marker'[c] = marker[c] /\ (c \in rows' => c \in rows)
        /\ \A n \in Names : <<c, n>> \in snaps' <=> <<c, n>> \in snaps

\* A step that touches the files of box b and adds bases.
OwnStep(K, L, b) ==
    /\ Sound(L, files')
    /\ \A p \in L : (\E q \in K : files'[p].back = files[q].back) \/ files'[p].back \in Home(b) \union BasePaths
    /\ \A c \in Boxes \ {b} : \A p \in Home(c) :
         (p \in DOMAIN files' <=> p \in DOMAIN files) /\ (p \in K <=> p \in L)
    /\ \A k \in Bases : Base(k) \in K => Base(k) \in L

LEMMA OwnKept ==
    ASSUME EdgesInv, NEW K, AllKept(K), NEW b \in Boxes, NEW L, OwnStep(K, L, b), OthersAlone(b),
           \A c \in Boxes : b \notin op[c].staged,
           Kept(L, b)', Ready(b)'
    PROVE  \E M : AllKept(M)'
<1>1. OpsTyped
    BY DEF EdgesInv, Typed
<1>2. ASSUME NEW c \in Boxes \ {b}, NEW d \in op[c].staged
      PROVE  Disk(d) \in L /\ \A n \in Names : <<d, n>> \notin snaps'
    <2>1. d \in Boxes \ {b}
        BY <1>2, BoxShape
    <2>2. Disk(d) \in K /\ \A n \in Names : <<d, n>> \notin snaps
        BY <1>2 DEF AllKept, Kept, Ready
    <2> QED BY <2>1, <2>2, Homes DEF OwnStep, OthersAlone
<1>3. ASSUME NEW c \in Boxes \ {b}, NEW p \in L, NEW n \in Names, files'[p].back = Snap(c, n)
      PROVE  \E q \in K : files[q].back = Snap(c, n)
    <2>1. Snap(c, n) \notin Home(b) /\ Snap(c, n) \notin BasePaths
        BY <1>3, Homes, PathsApart DEF BasePaths
    <2> QED BY <1>3, <2>1 DEF OwnStep
<1>4. Aside({b}, K, L)
    BY <1>2, <1>3 DEF Aside, OwnStep, OthersAlone
<1>5. \A c \in Boxes : Kept(L, c)' /\ Ready(c)'
    BY <1>1, <1>4, AsideKept
<1>6. AllKept(L)'
    BY <1>5 DEF AllKept, OwnStep
<1> QED BY <1>6

\* The disk of box b has moved to a path that was free.
DiskMoved(K, L, b, to) ==
    /\ OwnStep(K, L, b)
    /\ L = (K \ {Disk(b)}) \union {to} /\ Disk(b) \notin DOMAIN files'
    /\ \A p \in L : files'[p].back # to

LEMMA MovedKept ==
    ASSUME EdgesInv, NEW K, AllKept(K), NEW b \in Boxes, b \in rows, op[b].at \notin Between,
           NEW to \in Paths, to \notin DOMAIN files, files' = Renamed(files, Disk(b), to),
           to \in Home(b) \/ to \in BasePaths
    PROVE  \E L : DiskMoved(K, L, b, to)
<1> DEFINE L == (K \ {Disk(b)}) \union {to}
<1>1. /\ Disk(b) \in K /\ Sound(K, files) /\ IsFiles(files) /\ Disk(b) \in DiskPaths
      /\ \A p \in DOMAIN files : files[p].back \notin DiskPaths
    BY DEF AllKept, Kept, EdgesInv, Typed, TypeOK, IsFiles, File, ClonesInv, NoneOnDisk, DiskPaths
<1>2. \A p \in K : p \in DOMAIN files /\ files[p].back # Disk(b) /\ files[p].back # to
    BY <1>1, NoPathAssumption DEF Sound
<1>3. PICK from : from = Disk(b)
    OBVIOUS
<1>4. PICK fs : fs = files
    OBVIOUS
<1>5. /\ Sound(L, files') /\ files'[to] = files[Disk(b)]
      /\ \A p \in K \ {Disk(b)} : files'[p] = files[p]
      /\ DOMAIN files' = (DOMAIN files \ {Disk(b)}) \union {to}
    <2>1. IsFiles(fs)
        BY <1>1, <1>4
    <2>2. Sound(K, fs) /\ from \in K /\ to \in Paths /\ to \notin DOMAIN fs
        BY <1>1, <1>3, <1>4
    <2>3. \A p \in K : fs[p].back # from
        BY <1>2, <1>3, <1>4
    <2>4. Moved(K, fs, from, to, Renamed(fs, from, to))
        BY <2>1, <2>2, <2>3, RenamedSound
    <2> QED BY <1>3, <1>4, <2>4 DEF Moved
<1>6. \A p \in L : (\E q \in K : files'[p].back = files[q].back) /\ files'[p].back # to
    BY <1>1, <1>2, <1>5
<1>7. ASSUME NEW c \in Boxes \ {b}, NEW p \in Home(c) PROVE p # Disk(b) /\ p # to
    BY <1>7, Homes DEF BasePaths
<1>8. \A k \in Bases : Base(k) # Disk(b)
    BY PathsApart
<1>9. Disk(b) # to
    BY <1>1 DEF Sound
<1>10. DiskMoved(K, L, b, to)
    BY <1>1, <1>5, <1>6, <1>7, <1>8, <1>9 DEF DiskMoved, OwnStep
<1> QED BY <1>10

LEMMA SnapMoveKept ==
    ASSUME Preserving, EdgesInv, NEW K, AllKept(K), NEW b \in Boxes, SnapMove(b)
    PROVE  \E L : AllKept(L)'
<1>1. op[b].at = "snap_marked" /\ op \in [Boxes -> Op]
    BY BoxShape DEF SnapMove
<1>2. PICK n \in Names : n = op[b].name
    BY <1>1, BoxShape DEF NameSteps
<1> DEFINE to == Snap(b, n)
<1>3. /\ b \in rows /\ op[b].base = NoName /\ op[b].staged = {} /\ \A c \in Boxes : b \notin op[c].staged
      /\ Kept(K, b) /\ Ready(b) /\ op[b].at \notin Between
    BY <1>1, BoxShape DEF NameSteps, AllKept, Between
<1>4. Disk(b) \in K /\ Exists(Disk(b)) /\ to \notin DOMAIN files
    BY <1>1, <1>2, <1>3 DEF Kept, Ready, AllKept, Sound, Exists
<1>5. /\ files' = Renamed(files, Disk(b), to) /\ Step(b, "snap_moved")
      /\ rows' = rows /\ snaps' = snaps /\ marker' = marker
    BY <1>2, <1>4 DEF SnapMove
<1>6. /\ op'[b].at = "snap_moved" /\ op'[b].name = n /\ op'[b].base = NoName /\ op'[b].staged = {}
      /\ \A c \in Boxes \ {b} : op'[c] = op[c]
    BY <1>1, <1>2, <1>3, <1>5, StepTo
<1>7. to \in Paths /\ to \in Home(b) /\ \A m \in Names : Snap(b, m) # Disk(b)
    BY Homes, PathsApart
<1>8. PICK L : DiskMoved(K, L, b, to)
    BY <1>3, <1>4, <1>5, <1>7, MovedKept
<1> HIDE DEF to
<1>9. /\ to \in L /\ Disk(b) \notin DOMAIN files' /\ \A p \in L : files'[p].back # to
      /\ \A m \in Names : <<b, m>> \in snaps' => Snap(b, m) \in L
    BY <1>3, <1>5, <1>7, <1>8 DEF Kept, DiskMoved
<1>10. Kept(L, b)'
    BY <1>6, <1>9 DEF Kept, Between, Disk, Snap, to
<1>11. Ready(b)'
    BY <1>1, <1>2, <1>3, <1>5, <1>6, <1>9 DEF Ready, Between, Exists, Disk
<1>12. OthersAlone(b) /\ OwnStep(K, L, b)
    BY <1>5, <1>6, <1>8 DEF OthersAlone, DiskMoved
<1> QED BY <1>3, <1>10, <1>11, <1>12, OwnKept

LEMMA CloneMoveKept ==
    ASSUME Preserving, EdgesInv, NEW K, AllKept(K), NEW b \in Boxes, NEW k \in Bases, CloneMove(b, k)
    PROVE  \E L : AllKept(L)'
<1> DEFINE to == Base(k)
<1>1. op[b] = Idle /\ b \in rows /\ FreeBase(k) /\ op \in [Boxes -> Op] /\ k # NoName
    <2>1. Takes(b) => b \in rows
        BY NoRace DEF Preserving, EdgesInv
    <2> QED BY <2>1, BoxShape, NoNameAssumption DEF CloneMove, Takes
<1>2. /\ op[b].at = "idle" /\ \A c \in Boxes : b \notin op[c].staged
      /\ Kept(K, b) /\ Ready(b) /\ op[b].at \notin Between
    BY <1>1, BoxShape DEF AllKept, Between
<1>3. to \notin DOMAIN files
    BY <1>1 DEF FreeBase, Exists
<1>4. /\ files' = Renamed(files, Disk(b), to)
      /\ op' = [op EXCEPT ![b] = [Idle EXCEPT !.at = "clone_moved", !.base = k]]
      /\ rows' = rows /\ snaps' = snaps /\ marker' = marker
    BY DEF CloneMove
<1>5. /\ op'[b].at = "clone_moved" /\ op'[b].base = k /\ op'[b].staged = {}
      /\ \A c \in Boxes \ {b} : op'[c] = op[c]
    BY <1>1, <1>4 DEF Idle
<1>6. to \in Paths /\ to \in BasePaths /\ \A m \in Names : Snap(b, m) # Disk(b)
    BY Homes, PathsApart DEF BasePaths
<1>7. PICK L : DiskMoved(K, L, b, to)
    BY <1>1, <1>2, <1>3, <1>4, <1>6, MovedKept
<1> HIDE DEF to
<1>8. /\ to \in L /\ Disk(b) \notin DOMAIN files'
      /\ \A m \in Names : <<b, m>> \in snaps' => Snap(b, m) \in L
    BY <1>1, <1>2, <1>4, <1>6, <1>7 DEF Kept, DiskMoved
<1>9. Kept(L, b)'
    BY <1>5, <1>8 DEF Kept, Between, Disk, Snap, Base, to
<1>10. Ready(b)'
    BY <1>5, <1>8 DEF Ready, Between, Exists, Disk
<1>11. OthersAlone(b) /\ OwnStep(K, L, b)
    BY <1>4, <1>5, <1>7 DEF OthersAlone, DiskMoved
<1> QED BY <1>2, <1>9, <1>10, <1>11, OwnKept

\* The disk of a box is made anew.
LEMMA ChildKept ==
    ASSUME NEW K, Sound(K, files), NEW b \in Boxes, NEW base \in K, base \in Home(b) \union BasePaths,
           Disk(b) \notin DOMAIN files, files' = WithChild(files, Disk(b), base)
    PROVE  OwnStep(K, K \union {Disk(b)}, b)
<1> DEFINE L == K \union {Disk(b)}
<1>1. PICK fs : fs = files
    OBVIOUS
<1>2. PICK child : child = Disk(b)
    OBVIOUS
<1>3. Grown(K, fs, child, base, WithChild(fs, child, base))
    <2>1. Sound(K, fs) /\ child \notin DOMAIN fs
        BY <1>1, <1>2
    <2> QED BY <2>1, ChildSound
<1>4. /\ Sound(L, files') /\ files'[Disk(b)].back = base
      /\ \A p \in K : files'[p] = files[p]
      /\ DOMAIN files' = DOMAIN files \union {Disk(b)}
    BY <1>1, <1>2, <1>3 DEF Grown
<1>5. \A p \in L : (\E q \in K : files'[p].back = files[q].back) \/ files'[p].back \in Home(b) \union BasePaths
    BY <1>4
<1>6. ASSUME NEW c \in Boxes \ {b}, NEW p \in Home(c) PROVE p # Disk(b)
    BY <1>6, Homes
<1> QED BY <1>4, <1>5, <1>6 DEF OwnStep

LEMMA ChildrenKept ==
    ASSUME Preserving, EdgesInv, NEW K, AllKept(K), NEW b \in Boxes,
           SnapChild(b) \/ RestoreChild(b) \/ CloneChild(b)
    PROVE  \E L : AllKept(L)'
<1> DEFINE L == K \union {Disk(b)}
<1>1. /\ Kept(K, b) /\ Ready(b) /\ op \in [Boxes -> Op] /\ op[b] \in Op /\ Sound(K, files)
      /\ op[b].at \in Between /\ b \in rows /\ \A c \in Boxes : b \notin op[c].staged
    <2>1. op[b].at \in Between
        BY DEF SnapChild, RestoreChild, CloneChild, Between
    <2>2. op[b].at # "idle"
        BY <2>1 DEF Between
    <2> QED BY <2>1, <2>2, BoxShape DEF AllKept
<1>2. Disk(b) \notin DOMAIN files /\ Outcomes("child") = {TRUE}
    BY <1>1 DEF Ready, Exists, Outcomes, Preserving
<1>3. rows' = rows /\ snaps' = snaps /\ marker' = marker
    BY DEF SnapChild, RestoreChild, CloneChild
<1>4. ASSUME NEW base \in K, base \in Home(b) \union BasePaths, files' = WithChild(files, Disk(b), base),
             \A c \in Boxes \ {b} : op'[c] = op[c],
             op'[b].at \in {"snap_forked", "idle", "clone_forked"}, op'[b].staged \subseteq op[b].staged,
             op'[b].at = "snap_forked" => Snap(b, op'[b].name) \in K /\ <<b, op'[b].name>> \notin snaps,
             op'[b].base # NoName => Base(op'[b].base) \in K
      PROVE  \E M : AllKept(M)'
    <2>1. OwnStep(K, L, b)
        BY <1>1, <1>2, <1>4, ChildKept
    <2>2. \A n \in Names : <<b, n>> \in snaps' => Snap(b, n) \in L
        BY <1>1, <1>3 DEF Kept
    <2>3. PICK M : M = L
        OBVIOUS
    <2>4. Disk(b) \in M /\ \A p \in K : p \in M
        BY <2>3
    <2>5. Kept(M, b)'
        BY <1>1, <1>4, <2>2, <2>3, <2>4 DEF Kept, Between, Disk, Snap, Base
    <2>6. Ready(b)'
        BY <1>1, <1>3, <1>4 DEF Ready, Between
    <2>7. OthersAlone(b)
        BY <1>3, <1>4 DEF OthersAlone
    <2> QED BY <1>1, <2>1, <2>3, <2>5, <2>6, <2>7, OwnKept
<1>5. CASE SnapChild(b)
    <2>1. /\ op[b].at = "snap_moved" /\ Step(b, "snap_forked")
          /\ files' = WithChild(files, Disk(b), Snap(b, op[b].name))
        BY <1>2, <1>5 DEF SnapChild
    <2>2. op[b].name \in Names /\ op[b].base = NoName /\ op[b].staged = {}
        BY <2>1, BoxShape DEF NameSteps
    <2>3. /\ op'[b].at = "snap_forked" /\ op'[b].name = op[b].name /\ op'[b].base = NoName /\ op'[b].staged = {}
          /\ \A c \in Boxes \ {b} : op'[c] = op[c]
        BY <1>1, <2>1, <2>2, StepTo
    <2>4. PICK base : base = Snap(b, op[b].name)
        OBVIOUS
    <2>5. base \in K /\ base \in Home(b) /\ <<b, op[b].name>> \notin snaps
        BY <1>1, <2>1, <2>2, <2>4, Homes DEF Kept, Ready
    <2> QED BY <1>4, <2>1, <2>3, <2>4, <2>5
<1>6. CASE RestoreChild(b)
    <2>1. /\ op[b].at = "restoring" /\ op' = [op EXCEPT ![b] = Idle]
          /\ files' = WithChild(files, Disk(b), Snap(b, op[b].name))
        BY <1>2, <1>6 DEF RestoreChild
    <2>2. op[b].name \in Names
        BY <2>1, BoxShape DEF NameSteps
    <2>3. /\ op'[b].at = "idle" /\ op'[b].base = NoName /\ op'[b].staged = {}
          /\ \A c \in Boxes \ {b} : op'[c] = op[c]
        BY <1>1, <2>1, EndsOp
    <2>4. PICK base : base = Snap(b, op[b].name)
        OBVIOUS
    <2>5. base \in K /\ base \in Home(b)
        BY <1>1, <2>1, <2>2, <2>4, Homes DEF Kept, Ready
    <2> QED BY <1>4, <2>1, <2>3, <2>4, <2>5
<1>7. CASE CloneChild(b)
    <2>1. /\ op[b].at = "clone_moved" /\ Step(b, "clone_forked")
          /\ files' = WithChild(files, Disk(b), Base(op[b].base))
        BY <1>2, <1>7 DEF CloneChild
    <2>2. op[b].base \in Bases /\ op[b].base # NoName
        BY <1>1, <2>1, BoxShape, NoNameAssumption DEF Shaped, CloneSteps
    <2>3. /\ op'[b].at = "clone_forked" /\ op'[b].base = op[b].base /\ op'[b].staged = op[b].staged
          /\ \A c \in Boxes \ {b} : op'[c] = op[c]
        BY <1>1, <2>1, <2>2, StepTo
    <2>4. PICK base : base = Base(op[b].base)
        OBVIOUS
    <2>5. base \in K /\ base \in BasePaths
        BY <1>1, <2>1, <2>2, <2>4 DEF Kept, BasePaths
    <2> QED BY <1>4, <2>1, <2>3, <2>4, <2>5
<1> QED BY <1>5, <1>6, <1>7

\* Files of a box are dropped that nothing needed is.
LEMMA DroppedKept ==
    ASSUME EdgesInv, NEW K, NEW L, Sound(L, files), NEW b \in Boxes, NEW ps, ps \subseteq Home(b),
           L \subseteq K, L \intersect ps = {}, \A p \in K \ L : p \in Home(b), files' = Without(files, ps)
    PROVE  OwnStep(K, L, b)
<1>1. PICK fs : fs = files
    OBVIOUS
<1>2. Sound(L, fs) /\ NoPath \notin ps
    BY <1>1, Homes, NoPathAssumption
<1>3. Sound(L, Without(fs, ps)) /\ \A p \in L : Without(fs, ps)[p] = fs[p]
    BY <1>2, WithoutSound
<1>4. DOMAIN Without(fs, ps) = DOMAIN fs \ ps
    BY DEF Without
<1>5. Sound(L, files') /\ (\A p \in L : files'[p] = files[p]) /\ DOMAIN files' = DOMAIN files \ ps
    BY <1>1, <1>3, <1>4
<1>6. ASSUME NEW c \in Boxes \ {b}, NEW p \in Home(c) PROVE p \notin Home(b)
    BY <1>6, Homes
<1>7. \A k \in Bases : Base(k) \notin Home(b)
    BY Homes
<1> QED BY <1>5, <1>6, <1>7 DEF OwnStep

LEMMA RestoreBeginKept ==
    ASSUME Preserving, EdgesInv, NEW K, AllKept(K), NEW b \in Boxes, NEW n \in Names, RestoreBegin(b, n)
    PROVE  \E L : AllKept(L)'
<1>1. /\ op[b] = Idle /\ b \in rows /\ <<b, n>> \in snaps /\ op \in [Boxes -> Op]
      /\ Kept(K, b) /\ Sound(K, files) /\ IsFiles(files)
    <2>1. Takes(b) => b \in rows
        BY NoRace DEF Preserving, EdgesInv
    <2>2. Kept(K, b) /\ Sound(K, files) /\ op \in [Boxes -> Op]
        BY BoxShape DEF AllKept
    <2> QED BY <2>1, <2>2 DEF RestoreBegin, Takes, EdgesInv, Typed, TypeOK, IsFiles, File
<1>2. op[b].at = "idle" /\ \A c \in Boxes : b \notin op[c].staged
    BY <1>1, BoxShape
<1>3. /\ files' = Without(files, {Disk(b)})
      /\ op' = [op EXCEPT ![b] = [Idle EXCEPT !.at = "restoring", !.name = n]]
      /\ rows' = rows /\ snaps' = snaps /\ marker' = marker
    BY DEF RestoreBegin
<1>4. /\ op'[b].at = "restoring" /\ op'[b].name = n /\ op'[b].base = NoName /\ op'[b].staged = {}
      /\ \A c \in Boxes \ {b} : op'[c] = op[c]
    BY <1>1, <1>3, TakesOp
<1>5. PICK disk : disk = Disk(b)
    OBVIOUS
<1>6. PICK L : L = K \ {disk}
    OBVIOUS
<1>7. \A p \in K : files[p].back # disk
    BY <1>1, <1>5 DEF Sound, EdgesInv, ClonesInv, NoneOnDisk, DiskPaths
<1>8. Sound(L, files)
    BY <1>1, <1>6, <1>7 DEF Sound
<1>9. OwnStep(K, L, b) /\ DOMAIN files' = DOMAIN files \ {disk}
    <2>1. PICK ps : ps = {disk}
        OBVIOUS
    <2>2. ps \subseteq Home(b) /\ L \subseteq K /\ L \intersect ps = {} /\ \A p \in K \ L : p \in Home(b)
        BY <1>5, <1>6, <2>1, Homes
    <2>3. files' = Without(files, ps)
        BY <1>3, <1>5, <2>1
    <2>4. OwnStep(K, L, b)
        BY <1>8, <2>2, <2>3, DroppedKept
    <2>5. DOMAIN files' = DOMAIN files \ ps
        BY <2>3 DEF Without
    <2> QED BY <2>1, <2>4, <2>5
<1>10. \A m \in Names : <<b, m>> \in snaps' => Snap(b, m) \in L
    BY <1>1, <1>3, <1>5, <1>6, PathsApart DEF Kept
<1>11. Kept(L, b)'
    BY <1>4, <1>10 DEF Kept, Between, Disk, Snap
<1>12. Ready(b)'
    BY <1>1, <1>3, <1>4, <1>5, <1>9 DEF Ready, Between, Exists, Disk
<1>13. OthersAlone(b)
    BY <1>3, <1>4 DEF OthersAlone
<1> QED BY <1>2, <1>9, <1>11, <1>12, <1>13, OwnKept

LEMMA SnapUnlinkKept ==
    ASSUME EdgesInv, NEW K, AllKept(K), NEW b \in Boxes, SnapUnlink(b)
    PROVE  \E L : AllKept(L)'
<1>1. /\ op[b].at = "snap_deleting" /\ op' = [op EXCEPT ![b] = Idle]
      /\ files' = Without(files, {Snap(b, op[b].name)})
      /\ rows' = rows /\ snaps' = snaps /\ marker' = marker
    BY DEF SnapUnlink
<1>2. /\ op \in [Boxes -> Op] /\ op[b].name \in Names /\ b \in rows /\ \A c \in Boxes : b \notin op[c].staged
      /\ Kept(K, b) /\ Sound(K, files)
    BY <1>1, BoxShape DEF NameSteps, AllKept
<1>3. /\ op'[b].at = "idle" /\ op'[b].base = NoName /\ op'[b].staged = {}
      /\ \A c \in Boxes \ {b} : op'[c] = op[c]
    BY <1>1, <1>2, EndsOp
<1>4. PICK ps : ps = {Snap(b, op[b].name)}
    OBVIOUS
<1>5. ps \subseteq Home(b) /\ K \intersect ps = {}
    BY <1>1, <1>2, <1>4, Homes DEF Kept
<1>6. OwnStep(K, K, b)
    BY <1>1, <1>2, <1>4, <1>5, DroppedKept
<1>7. Kept(K, b)'
    BY <1>1, <1>2, <1>3 DEF Kept, Between, Disk, Snap
<1>8. Ready(b)'
    BY <1>3 DEF Ready, Between
<1>9. OthersAlone(b)
    BY <1>1, <1>3 DEF OthersAlone
<1> QED BY <1>2, <1>6, <1>7, <1>8, <1>9, OwnKept

\* A removed box's home holds no file that is needed.
LEMMA HomeApart ==
    ASSUME EdgesInv, NEW K, \A p \in K : Living(p), NEW b, b \notin rows, \A c \in Boxes : b \notin op[c].staged
    PROVE  K \intersect Home(b) = {}
<1>1. rows \subseteq Boxes
    BY DEF EdgesInv, Typed, TypeOK
<1>2. SUFFICES ASSUME NEW p \in K, p \in Home(b) PROVE FALSE
    OBVIOUS
<1>3. PICK c \in rows :
        \/ p \in Home(c) \/ \E d \in op[c].staged : p \in Home(d)
        \/ \E k \in Bases : p = Base(k)
    BY <1>2 DEF Living
<1> QED BY <1>1, <1>2, <1>3, Homes

LEMMA RemovalKept ==
    ASSUME EdgesInv, NEW K, AllKept(K), \A p \in K : Living(p), NEW b \in Boxes, RemoveDisks(b) \/ RemoveDir(b)
    PROVE  \E L : AllKept(L)'
<1>1. /\ files' = Without(files, Home(b)) /\ rows' = rows /\ op' = op
      /\ \A s \in snaps' : s \in snaps
      /\ \A c \in Boxes \ {b}, n \in Names : <<c, n>> \in snaps' <=> <<c, n>> \in snaps
      /\ rem[b] # NotRemoving
    BY DEF RemoveDisks, RemoveDir, NotRemoving
<1>2. \A c \in Boxes \ {b} : marker'[c] = marker[c]
    <2>1. marker' = marker \/ marker' = [marker EXCEPT ![b] = NoName]
        BY DEF RemoveDisks, RemoveDir
    <2> QED BY <2>1 DEF EdgesInv, Typed, TypeOK
<1>3. /\ b \notin rows /\ \A c \in Boxes : b \notin op[c].staged
      /\ op[b] = Idle /\ op[b].at = "idle" /\ op[b].staged = {} /\ Sound(K, files)
    <2>1. b \notin rows
        BY <1>1 DEF EdgesInv, Typed, RemovedLast, Removing
    <2>2. op[b] = Idle
        BY <2>1 DEF EdgesInv, ClonesInv, OpsOfRows
    <2> QED BY <1>1, <2>1, <2>2, BoxShape DEF AllKept
<1>4. PICK ps : ps = Home(b)
    OBVIOUS
<1>5. K \intersect ps = {} /\ files' = Without(files, ps) /\ ps \subseteq Home(b)
    BY <1>1, <1>3, <1>4, HomeApart
<1>6. OwnStep(K, K, b)
    BY <1>3, <1>5, DroppedKept
<1>7. Kept(K, b)'
    BY <1>1, <1>3 DEF Kept
<1>8. Ready(b)'
    BY <1>1, <1>3 DEF Ready, Between
<1>9. OthersAlone(b)
    BY <1>1, <1>2 DEF OthersAlone
<1> QED BY <1>3, <1>6, <1>7, <1>8, <1>9, OwnKept

\* A clone of b begins, whose home is d.
LEMMA CloneStageKept ==
    ASSUME EdgesInv, NEW K, AllKept(K), NEW b \in Boxes, NEW d \in Boxes, CloneStage(b, d)
    PROVE  \E L : AllKept(L)'
<1>1. /\ op[b].at \in {"clone_based", "clone_staging"} /\ FreeBox(d)
      /\ files' = WithChild(files, Disk(d), Base(op[b].base))
      /\ op' = [op EXCEPT ![b].at = "clone_staging", ![b].staged = @ \union {d}]
      /\ rows' = rows /\ snaps' = snaps /\ marker' = marker
    BY DEF CloneStage
<1>2. /\ b \in rows /\ op \in [Boxes -> Op] /\ op[b].base \in Bases /\ op[b].base # NoName
      /\ Kept(K, b) /\ Ready(b) /\ Sound(K, files) /\ OpsTyped
    BY <1>1, BoxShape, NoNameAssumption DEF Shaped, CloneSteps, AllKept, EdgesInv, Typed
<1>3. /\ d \notin rows /\ op[d] = Idle /\ (\A n \in Names : <<d, n>> \notin snaps) /\ Disk(d) \notin DOMAIN files
    BY <1>1, Homes DEF FreeBox, Underway
<1>4. /\ b # d /\ op[d].at = "idle" /\ op[d].staged = {}
    BY <1>2, <1>3, BoxShape
<1>5. /\ op'[b].at = "clone_staging" /\ op'[b].base = op[b].base /\ op'[b].staged = op[b].staged \union {d}
      /\ \A c \in Boxes \ {b} : op'[c] = op[c]
    BY <1>1, <1>2 DEF Op
<1>6. PICK fs : fs = files
    OBVIOUS
<1>7. PICK child : child = Disk(d)
    OBVIOUS
<1>8. PICK base : base = Base(op[b].base)
    OBVIOUS
<1>9. Disk(b) \in K /\ base \in K /\ base \in BasePaths
    BY <1>1, <1>2, <1>8 DEF Kept, Between, BasePaths
<1>10. PICK L : L = K \union {child}
    OBVIOUS
<1>11. /\ Sound(L, files') /\ files'[child] .back = base
       /\ \A p \in K : files'[p] = files[p]
       /\ DOMAIN files' = DOMAIN files \union {child}
    <2>1. Sound(K, fs) /\ base \in K /\ child \notin DOMAIN fs
        BY <1>2, <1>3, <1>6, <1>7, <1>9
    <2>2. Grown(K, fs, child, base, WithChild(fs, child, base))
        BY <2>1, ChildSound
    <2> QED BY <1>1, <1>6, <1>7, <1>8, <1>10, <2>2 DEF Grown
<1>12. Aside({b, d}, K, L)
    <2>1. ASSUME NEW c \in Boxes \ {b, d}, NEW p \in Home(c) PROVE p # child /\ base # p
        BY <1>7, <1>9, <2>1, Homes DEF BasePaths
    <2>2. ASSUME NEW c \in Boxes \ {b, d}, NEW e \in op[c].staged
          PROVE  Disk(e) \in L /\ \A n \in Names : <<e, n>> \notin snaps'
        BY <1>1, <1>10, <2>2 DEF AllKept, Kept, Ready
    <2>3. ASSUME NEW c \in Boxes \ {b, d}, NEW p \in L, NEW n \in Names, files'[p].back = Snap(c, n)
          PROVE  \E q \in K : files[q].back = Snap(c, n)
        <3>1. Snap(c, n) # base
            BY <2>1, <2>3, Homes
        <3> QED BY <1>10, <1>11, <2>3, <3>1
    <2>4. \A c \in Boxes \ {b, d} :
            /\ op'[c] = op[c] /\ marker'[c] = marker[c] /\ (c \in rows' => c \in rows)
            /\ \A n \in Names : <<c, n>> \in snaps' <=> <<c, n>> \in snaps
            /\ \A p \in Home(c) : (p \in DOMAIN files' <=> p \in DOMAIN files) /\ (p \in K <=> p \in L)
        BY <1>1, <1>5, <1>10, <1>11, <2>1
    <2>5. \A k \in Bases : Base(k) \in K => Base(k) \in L
        BY <1>10
    <2> QED BY <2>2, <2>3, <2>4, <2>5 DEF Aside
<1>13. Kept(L, b)' /\ Ready(b)'
    <2>1. Kept(L, b)'
        BY <1>1, <1>2, <1>5, <1>7, <1>8, <1>9, <1>10 DEF Kept, Between, Disk, Snap, Base
    <2>2. Ready(b)'
        BY <1>1, <1>2, <1>3, <1>5 DEF Ready, Between
    <2> QED BY <2>1, <2>2
<1>14. Kept(L, d)' /\ Ready(d)'
    <2>1. d \notin rows' /\ op'[d] = op[d]
        BY <1>1, <1>3, <1>4, <1>5
    <2> QED BY <1>4, <2>1 DEF Kept, Ready, Between
<1>15. \A c \in Boxes : Kept(L, c)' /\ Ready(c)'
    BY <1>2, <1>12, <1>13, <1>14, AsideKept
<1>16. AllKept(L)'
    BY <1>11, <1>15 DEF AllKept
<1> QED BY <1>16

\* A clone of b becomes a box, or is given up.
LEMMA CloneProvisionKept ==
    ASSUME EdgesInv, NEW K, AllKept(K), \A p \in K : Living(p),
           NEW b \in Boxes, NEW d \in Boxes, CloneProvision(b, d)
    PROVE  \E L : AllKept(L)'
<1>1. /\ op[b].at \in {"clone_staging", "clone_staged"} /\ d \in op[b].staged
      /\ snaps' = snaps /\ marker' = marker
    BY DEF CloneProvision
<1>2. /\ b \in rows /\ op \in [Boxes -> Op] /\ op[b] \in Op
      /\ Kept(K, b) /\ Ready(b) /\ Sound(K, files) /\ OpsTyped
    BY <1>1, BoxShape DEF AllKept, EdgesInv, Typed
<1>3. /\ d \notin rows /\ op[d].at = "idle" /\ op[d].base = NoName /\ op[d].staged = {} /\ b # d
      /\ \A c \in Boxes \ {b} : d \notin op[c].staged
    BY <1>1, <1>2, BoxShape DEF EdgesInv, Typed, StagedApart
<1>4. CASE files' = files /\ rows' = rows \union {d}
           /\ op' = [op EXCEPT ![b].at = "clone_provisioned", ![b].dest = d, ![b].staged = @ \ {d}]
    <2>1. /\ op'[b].at = "clone_provisioned" /\ op'[b].base = op[b].base /\ op'[b].staged = op[b].staged \ {d}
          /\ \A c \in Boxes \ {b} : op'[c] = op[c]
        BY <1>2, <1>4 DEF Op
    <2>2. Aside({b, d}, K, K)
        <3>1. \A c \in Boxes \ {b, d} : \A e \in op[c].staged : Disk(e) \in K /\ \A n \in Names : <<e, n>> \notin snaps'
            BY <1>1 DEF AllKept, Kept, Ready
        <3> QED BY <1>1, <1>4, <2>1, <3>1 DEF Aside
    <2>3. Kept(K, b)'
        BY <1>1, <1>2, <1>4, <2>1 DEF Kept, Between, Disk, Snap, Base
    <2>4. Ready(b)'
        BY <1>1, <1>2, <2>1 DEF Ready, Between
    <2>5. Disk(d) \in K /\ \A n \in Names : <<d, n>> \notin snaps'
        BY <1>1, <1>2 DEF Kept, Ready
    <2>6. op'[d] = op[d]
        BY <1>3, <2>1
    <2>7. Kept(K, d)'
        BY <1>3, <2>5, <2>6 DEF Kept, Disk
    <2>8. Ready(d)'
        BY <1>3, <2>6 DEF Ready, Between
    <2>9. \A c \in Boxes : Kept(K, c)' /\ Ready(c)'
        BY <1>2, <2>2, <2>3, <2>4, <2>7, <2>8, AsideKept
    <2>10. AllKept(K)'
        BY <1>2, <1>4, <2>9 DEF AllKept
    <2> QED BY <2>10
<1>5. CASE files' = Without(files, Home(d)) /\ rows' = rows /\ op' = [op EXCEPT ![b] = Idle]
    <2>1. /\ op'[b].at = "idle" /\ op'[b].base = NoName /\ op'[b].staged = {}
          /\ \A c \in Boxes \ {b} : op'[c] = op[c]
        BY <1>2, <1>5, EndsOp
    <2>2. PICK ps : ps = Home(d)
        OBVIOUS
    <2>3. PICK L : L = K \ ps
        OBVIOUS
    <2>4. PICK fs : fs = files
        OBVIOUS
    <2>5. Sound(L, fs)
        <3>1. \A p \in K : files[p].back \notin Home(d)
            <4>1. SUFFICES ASSUME NEW p \in K, files[p].back \in Home(d) PROVE FALSE
                OBVIOUS
            <4>2. p \in DOMAIN files /\ Living(p)
                BY <1>2 DEF Sound
            <4>3. files[p].back # NoPath
                BY <4>1, Homes, NoPathAssumption
            <4> QED BY <1>3, <4>1, <4>2, <4>3, LivingClosed
        <3> QED BY <1>2, <2>2, <2>3, <2>4, <3>1 DEF Sound
    <2>6. L \intersect ps = {} /\ NoPath \notin ps
        BY <2>2, <2>3, Homes, NoPathAssumption
    <2>7. Sound(L, Without(fs, ps)) /\ \A p \in L : Without(fs, ps)[p] = fs[p]
        BY <2>5, <2>6, WithoutSound
    <2>8. Sound(L, files') /\ (\A p \in L : files'[p] = files[p]) /\ DOMAIN files' = DOMAIN files \ ps
        BY <1>5, <2>2, <2>4, <2>7 DEF Without
    <2>9. ASSUME NEW c \in Boxes \ {d}, NEW p \in Home(c) PROVE p \notin ps
        BY <2>2, <2>9, Homes
    <2>10. Aside({b, d}, K, L)
        <3>1. ASSUME NEW c \in Boxes \ {b, d}, NEW e \in op[c].staged
              PROVE  Disk(e) \in L /\ \A n \in Names : <<e, n>> \notin snaps'
            <4>1. e \in Boxes /\ e # d
                BY <1>3, <3>1, BoxShape
            <4>2. Disk(e) \in K /\ \A n \in Names : <<e, n>> \notin snaps'
                BY <1>1, <3>1 DEF AllKept, Kept, Ready
            <4> QED BY <2>3, <2>9, <4>1, <4>2, Homes
        <3>2. \A k \in Bases : Base(k) \notin ps
            BY <2>2, Homes
        <3>3. \A c \in Boxes \ {b, d} :
                /\ op'[c] = op[c] /\ marker'[c] = marker[c] /\ (c \in rows' => c \in rows)
                /\ \A n \in Names : <<c, n>> \in snaps' <=> <<c, n>> \in snaps
            BY <1>1, <1>5, <2>1
        <3>4. \A c \in Boxes \ {b, d} : \A p \in Home(c) :
                (p \in DOMAIN files' <=> p \in DOMAIN files) /\ (p \in K <=> p \in L)
            BY <2>3, <2>8, <2>9
        <3>5. \A p \in L : \A q : files'[p].back = q => \E r \in K : files[r].back = q
            BY <2>3, <2>8
        <3> QED BY <2>3, <3>1, <3>2, <3>3, <3>4, <3>5 DEF Aside
    <2>11. Kept(L, b)'
        <3>1. Disk(b) \in L /\ \A n \in Names : Snap(b, n) \in K => Snap(b, n) \in L
            <4>1. Disk(b) \in K
                BY <1>1, <1>2 DEF Kept, Between
            <4> QED BY <1>3, <2>3, <2>9, <4>1, Homes
        <3> QED BY <1>1, <1>2, <2>1, <3>1 DEF Kept, Between, Disk, Snap
    <2>12. Ready(b)'
        BY <2>1 DEF Ready, Between
    <2>13. Kept(L, d)' /\ Ready(d)'
        <3>1. d \notin rows' /\ op'[d] = op[d]
            BY <1>3, <1>5, <2>1
        <3> QED BY <1>3, <3>1 DEF Kept, Ready, Between
    <2>14. \A c \in Boxes : Kept(L, c)' /\ Ready(c)'
        BY <1>2, <2>10, <2>11, <2>12, <2>13, AsideKept
    <2>15. AllKept(L)'
        BY <2>8, <2>14 DEF AllKept
    <2> QED BY <2>15
<1>6. \/ files' = files /\ rows' = rows \union {d}
         /\ op' = [op EXCEPT ![b].at = "clone_provisioned", ![b].dest = d, ![b].staged = @ \ {d}]
      \/ files' = Without(files, Home(d)) /\ rows' = rows /\ op' = [op EXCEPT ![b] = Idle]
    BY DEF CloneProvision
<1> QED BY <1>4, <1>5, <1>6

\* A base that is collected is none that is needed.
LEMMA DoomedApart ==
    ASSUME EdgesInv, NEW K, \A p \in K : Living(p), NEW b \in Boxes, NEW j \in rem[b].todo, NEW k \in Doomed(j)
    PROVE  Base(k) \notin K
<1> SUFFICES ASSUME Base(k) \in K PROVE FALSE
    OBVIOUS
<1>1. Typed /\ OpsTyped /\ rows \subseteq Boxes /\ \A c \in Boxes : op[c].staged \subseteq Boxes
    BY DEF EdgesInv, Typed, TypeOK, OpsTyped, Op
<1>2. k \in Bases /\ k \in DOMAIN bases /\ \A c \in Boxes : <<k, c>> \notin refs
    BY <1>1, DoomedUnreferred DEF Doomed
<1>3. PICK c \in rows : Held(k, c) \/ op[c].base = k
    BY Homes, PathsApart DEF Living
<1>4. \E d \in Boxes : op[d].base = k /\ op[d].at \in CloneSteps
    <2>1. \A d \in Boxes : op[d].base = k => op[d].at \in CloneSteps
        BY <1>1, <1>2, NoNameAssumption DEF OpsTyped, Shaped
    <2> QED BY <1>1, <1>2, <1>3, <2>1 DEF Held
<1>5. PICK d \in Boxes : op[d].base = k /\ op[d].at \in CloneSteps
    BY <1>4
<1>6. CASE op[d].at \in Bound
    BY <1>2, <1>5, <1>6 DEF EdgesInv, ClonesInv, BoundBases
<1>7. CASE op[d].at \in Fresh
    BY <1>1, <1>5, <1>7, FreshNotDoomed DEF EdgesInv, ClonesInv
<1> QED BY <1>5, <1>6, <1>7 DEF CloneSteps, Fresh, Bound

LEMMA CollectKept ==
    ASSUME EdgesInv, NEW K, AllKept(K), \A p \in K : Living(p), NEW b \in Boxes, NEW k \in Bases, CollectBase(b, k)
    PROVE  \E L : AllKept(L)'
<1>1. /\ k \in rem[b].todo /\ files' = Without(files, {Base(j) : j \in Doomed(k)})
      /\ rows' = rows /\ snaps' = snaps /\ marker' = marker /\ op' = op
    BY DEF CollectBase
<1>2. Sound(K, files) /\ OpsTyped
    BY DEF AllKept, EdgesInv, Typed
<1>3. PICK ps : ps = {Base(j) : j \in Doomed(k)}
    OBVIOUS
<1>4. PICK fs : fs = files
    OBVIOUS
<1>5. K \intersect ps = {} /\ NoPath \notin ps
    <2>1. \A p \in ps : \E j \in Doomed(k) : p = Base(j)
        BY <1>3
    <2>2. \A j \in Doomed(k) : Base(j) \notin K /\ Base(j) # NoPath
        BY <1>1, DoomedApart, Homes, NoPathAssumption DEF Doomed
    <2> QED BY <2>1, <2>2
<1>6. Sound(K, Without(fs, ps)) /\ \A p \in K : Without(fs, ps)[p] = fs[p]
    BY <1>2, <1>4, <1>5, WithoutSound
<1>7. Sound(K, files') /\ (\A p \in K : files'[p] = files[p]) /\ DOMAIN files' = DOMAIN files \ ps
    BY <1>1, <1>3, <1>4, <1>6 DEF Without
<1>8. \A c, p : p \in Home(c) => p \notin ps
    BY <1>3, Homes
<1>9. Aside({}, K, K)
    <2>1. \A c \in Boxes : \A d \in op[c].staged : Disk(d) \in K /\ \A n \in Names : <<d, n>> \notin snaps'
        BY <1>1 DEF AllKept, Kept, Ready
    <2> QED BY <1>1, <1>7, <1>8, <2>1 DEF Aside
<1>10. \A c \in Boxes : Kept(K, c)' /\ Ready(c)'
    BY <1>2, <1>9, AsideKept
<1>11. AllKept(K)'
    BY <1>7, <1>10 DEF AllKept
<1> QED BY <1>11

\* A file that does not have x on its chain is built on none that has.
LEMMA ChainClean ==
    ASSUME Shallow, EdgesInv, NEW p \in DOMAIN files, NEW x, x \notin Chain(files, p), Under(files, p) # NoPath
    PROVE  Under(files, p) # x /\ x \notin Chain(files, Under(files, p))
<1>1. PICK fs : fs = files
    OBVIOUS
<1>2. PICK r : r = Under(fs, p)
    OBVIOUS
<1>3. NoPath \notin DOMAIN fs /\ Walk(fs, p)[MaxDepth] = NoPath
    BY <1>1, NoPathAssumption DEF Shallow, EdgesInv, Typed, TypeOK
<1>4. x \notin Chain(fs, r)
    BY <1>1, <1>2, <1>3, ChainNext
<1>5. r # x
    BY <1>1, <1>2, ChainFirst
<1> QED BY <1>1, <1>2, <1>4, <1>5

LEMMA SnapDeleteKept ==
    ASSUME Preserving, Shallow, EdgesInv, NEW K, AllKept(K), \A p \in K : Living(p),
           NEW b \in Boxes, NEW n \in Names, SnapDelete(b, n)
    PROVE  \E L : AllKept(L)'
<1> DEFINE Clean(p) == p # Snap(b, n) /\ Snap(b, n) \notin Chain(files, p)
<1>1. /\ op[b] = Idle /\ b \in rows /\ op \in [Boxes -> Op] /\ Kept(K, b) /\ Sound(K, files) /\ rows \subseteq Boxes
      /\ files' = files /\ rows' = rows /\ marker' = marker /\ snaps' = snaps \ {<<b, n>>} /\ ~Needed(b, n)
    <2>1. Takes(b) => b \in rows
        BY NoRace DEF Preserving, EdgesInv
    <2>2. Kept(K, b) /\ Sound(K, files) /\ op \in [Boxes -> Op] /\ rows \subseteq Boxes
        BY BoxShape DEF AllKept
    <2> QED BY <2>1, <2>2 DEF SnapDelete, Takes
<1>2. /\ op[b].at = "idle" /\ op[b].base = NoName /\ op[b].staged = {} /\ \A c \in Boxes : b \notin op[c].staged
    BY <1>1, BoxShape
<1>3. /\ op'[b].at = "idle" \/ (op'[b].at = "snap_deleting" /\ op'[b].name = n)
      /\ op'[b].base = NoName /\ op'[b].staged = {}
      /\ \A c \in Boxes \ {b} : op'[c] = op[c]
    <2>1. CASE op' = op
        BY <1>2, <2>1
    <2>2. CASE op' = [op EXCEPT ![b] = [Idle EXCEPT !.at = "snap_deleting", !.name = n]]
        <3>1. /\ op'[b].at = "snap_deleting" /\ op'[b].name = n /\ op'[b].base = NoName /\ op'[b].staged = {}
              /\ \A c \in Boxes \ {b} : op'[c] = op[c]
            BY <1>1, <2>2, TakesOp
        <3> QED BY <3>1
    <2> QED BY <2>1, <2>2 DEF SnapDelete
<1>4. \A k \in Bases : Clean(Base(k))
    <2>1. \A k \in Bases : Base(k) \in BasePaths
        BY DEF BasePaths
    <2> QED BY <1>1, <2>1, PathsApart DEF Needed
<1>5. Clean(Disk(b)) /\ \A m \in Names \ {n} : <<b, m>> \in snaps => Clean(Snap(b, m))
    BY <1>1, PathsApart DEF Needed
<1>6. \A p \in DOMAIN files : Clean(p) /\ Under(files, p) # NoPath => Clean(Under(files, p))
    BY ChainClean
<1>7. Snap(b, n) # NoPath /\ Snap(b, n) \in Home(b)
    BY Homes, NoPathAssumption
<1>8. ASSUME NEW c \in Boxes \ {b}, NEW p \in Home(c), p \in K PROVE Clean(p)
    <2> DEFINE S == {NoPath} \union {q \in K : q \in Home(c)} \union {q \in DOMAIN files : Clean(q)}
    <2>1. Snap(b, n) \notin S
        <3>1. Snap(b, n) \notin Home(c)
            BY <1>7, <1>8, Homes
        <3> QED BY <1>7, <3>1
    <2>2. ASSUME NEW q \in S, q \in DOMAIN files PROVE Under(files, q) \in S
        <3>1. SUFFICES ASSUME Under(files, q) # NoPath PROVE Under(files, q) \in S
            OBVIOUS
        <3>2. Under(files, q) = files[q].back /\ files[q].back \in DOMAIN files /\ files[q].back # NoPath
            BY <3>1 DEF Under
        <3>3. q # NoPath
            BY <2>2, NoPathAssumption DEF EdgesInv, Typed, TypeOK
        <3>4. CASE Clean(q)
            BY <1>6, <2>2, <3>1, <3>2, <3>4
        <3>5. CASE q \in K /\ q \in Home(c)
            <4>1. files[q].back \in Home(c) \/ \E k \in Bases : files[q].back = Base(k)
                BY <2>2, <3>2, <3>5, LivingClosed
            <4>2. files[q].back \in K
                BY <1>1, <3>2, <3>5 DEF Sound
            <4> QED BY <1>4, <3>2, <4>1, <4>2
        <3> QED BY <3>3, <3>4, <3>5
    <2>3. p \in S /\ NoPath \in S
        BY <1>8
    <2>4. PICK T : T = S
        OBVIOUS
    <2> HIDE DEF S
    <2>5. \A i \in 0..MaxDepth : Walk(files, p)[i] \in T
        <3>1. PICK fs : fs = files
            OBVIOUS
        <3>2. \A q \in T : q \in DOMAIN fs => Under(fs, q) \in T
            BY <2>2, <2>4, <3>1
        <3>3. \A i \in 0..MaxDepth : Walk(fs, p)[i] \in T
            BY <2>3, <2>4, <3>2, WalkStays
        <3> QED BY <3>1, <3>3
    <2>6. \A i \in 1..MaxDepth : Walk(files, p)[i] # Snap(b, n)
        <3>1. \A i \in 1..MaxDepth : i \in 0..MaxDepth
            BY MaxDepthAssumption
        <3> QED BY <2>1, <2>4, <2>5, <3>1
    <2>7. p # Snap(b, n)
        BY <1>7, <1>8, Homes
    <2> QED BY <2>6, <2>7 DEF Chain
<1>9. PICK L : L = {p \in K : Clean(p)}
    OBVIOUS
<1>10. Sound(L, files)
    <2>1. ASSUME NEW p \in L, files[p].back # NoPath PROVE files[p].back \in L
        <3>1. p \in DOMAIN files /\ Clean(p) /\ files[p].back \in K /\ files[p].back \in DOMAIN files
            BY <1>1, <1>9, <2>1 DEF Sound
        <3>2. Under(files, p) = files[p].back
            BY <3>1 DEF Under
        <3>3. Clean(files[p].back)
            BY <1>6, <2>1, <3>1, <3>2
        <3> QED BY <1>9, <3>1, <3>3
    <2> QED BY <1>1, <1>9, <2>1 DEF Sound
<1>11. /\ Disk(b) \in L /\ Snap(b, n) \notin L
       /\ \A m \in Names : <<b, m>> \in snaps' => Snap(b, m) \in L
    <2>1. Disk(b) \in K
        BY <1>1, <1>2 DEF Kept, Between
    <2>2. \A m \in Names : <<b, m>> \in snaps' => m # n /\ <<b, m>> \in snaps
        BY <1>1
    <2>3. \A m \in Names : <<b, m>> \in snaps => Snap(b, m) \in K
        BY <1>1 DEF Kept
    <2> QED BY <1>5, <1>9, <2>1, <2>2, <2>3
<1>12. /\ \A c \in Boxes \ {b} : \A p \in Home(c) : p \in K <=> p \in L
       /\ \A k \in Bases : Base(k) \in K => Base(k) \in L
       /\ L \subseteq K
    BY <1>4, <1>8, <1>9
<1> HIDE DEF Clean
<1>13. OwnStep(K, L, b)
    BY <1>1, <1>10, <1>12 DEF OwnStep
<1>14. Kept(L, b)'
    BY <1>3, <1>11 DEF Kept, Between, Disk, Snap
<1>15. Ready(b)'
    BY <1>3 DEF Ready, Between
<1>16. OthersAlone(b)
    BY <1>1, <1>3 DEF OthersAlone
<1> QED BY <1>2, <1>13, <1>14, <1>15, <1>16, OwnKept

\* Where the files are once the pending snapshots are undone: back is the
\* boxes whose disk was on its way.
LEMMA RestoredSound ==
    ASSUME NEW fs, NEW K, Sound(K, fs), NEW back,
           back = {b \in rows : /\ marker[b] # NoName
                                /\ Disk(b) \notin DOMAIN fs
                                /\ Snap(b, marker[b]) \in DOMAIN fs},
           \A b \in back : Snap(b, marker[b]) \in K /\ marker[b] \in Names /\ b \in Boxes,
           \A p \in K : \A b \in back : fs[p].back # Snap(b, marker[b])
    PROVE  Sound((K \ {Snap(b, marker[b]) : b \in back}) \union {Disk(b) : b \in back}, Restored(fs))
<1> DEFINE moved == {Snap(b, marker[b]) : b \in back}
           rest == Without(fs, moved)
           whole == Restored(fs)
<1>1. whole = [p \in {Disk(b) : b \in back} \union DOMAIN rest |->
                 IF p \in DOMAIN rest THEN rest[p] ELSE fs[Snap(p[2], marker[p[2]])]]
    BY DEF Restored
<1>2. PICK ps : ps = moved
    OBVIOUS
<1>3. PICK M : M = K \ ps
    OBVIOUS
<1>4. /\ NoPath \notin ps /\ \A p \in K : fs[p].back \notin ps
      /\ \A b \in back : Disk(b) \notin DOMAIN fs /\ Disk(b) \notin ps /\ Disk(b)[2] = b
    <2>1. \A p \in ps : \E b \in back : p = Snap(b, marker[b])
        BY <1>2
    <2>2. \A b \in back : Snap(b, marker[b]) # NoPath
        BY Homes, NoPathAssumption
    <2>3. \A b, c : Disk(b) # Snap(c, marker[c]) /\ Disk(b)[2] = b
        BY PathsApart DEF Disk
    <2> QED BY <2>1, <2>2, <2>3
<1>5. Sound(M, fs)
    BY <1>3, <1>4 DEF Sound
<1>6. Sound(M, Without(fs, ps)) /\ \A p \in M : Without(fs, ps)[p] = fs[p]
    <2>1. M \intersect ps = {}
        BY <1>3
    <2> QED BY <1>4, <1>5, <2>1, WithoutSound
<1>7. PICK re : re = rest
    OBVIOUS
<1>8. M \subseteq DOMAIN re /\ (\A p \in M : re[p] = fs[p]) /\ DOMAIN re \subseteq DOMAIN fs
    BY <1>2, <1>6, <1>7 DEF Sound, Without
<1>9. PICK new : new = whole
    OBVIOUS
<1>10. new = [p \in {Disk(b) : b \in back} \union DOMAIN re |->
                 IF p \in DOMAIN re THEN re[p] ELSE fs[Snap(p[2], marker[p[2]])]]
    BY <1>1, <1>7, <1>9
<1> HIDE DEF moved, rest, whole
<1>11. \A p \in M : p \in DOMAIN new /\ new[p] = fs[p]
    BY <1>8, <1>10
<1>12. \A b \in back : Disk(b) \in DOMAIN new /\ new[Disk(b)] = fs[Snap(b, marker[b])]
    <2>1. ASSUME NEW b \in back PROVE Disk(b) \in DOMAIN new /\ new[Disk(b)] = fs[Snap(b, marker[b])]
        <3>1. PICK disk : disk = Disk(b)
            OBVIOUS
        <3>2. disk \notin DOMAIN re /\ disk[2] = b /\ disk \in {Disk(c) : c \in back}
            BY <1>4, <1>8, <3>1
        <3>3. disk \in DOMAIN new /\ new[disk] = fs[Snap(disk[2], marker[disk[2]])]
            BY <1>10, <3>2
        <3> QED BY <3>1, <3>2, <3>3
    <2> QED BY <2>1
<1>13. PICK L : L = M \union {Disk(b) : b \in back}
    OBVIOUS
<1>14. ASSUME NEW p \in K PROVE fs[p].sound = TRUE /\ (fs[p].back = NoPath \/ fs[p].back \in M)
    BY <1>3, <1>4 DEF Sound
<1>15. \A p \in L : /\ p \in DOMAIN new /\ new[p].sound = TRUE
                    /\ new[p].back = NoPath \/ new[p].back \in L
    <2>1. \A p \in L : p \in M \/ \E b \in back : p = Disk(b)
        BY <1>13
    <2>2. \A p \in L : p \in DOMAIN new /\ \E q \in K : new[p] = fs[q]
        BY <1>3, <1>11, <1>12, <2>1
    <2>3. \A p \in M : p \in L
        BY <1>13
    <2> QED BY <1>14, <2>2, <2>3
<1>16. Sound(L, new)
    BY <1>15 DEF Sound
<1> QED BY <1>2, <1>3, <1>9, <1>13, <1>16 DEF moved, whole

LEMMA RestartKept ==
    ASSUME Preserving, EdgesInv, NEW K, AllKept(K), \A p \in K : Living(p), Restart, Survivors = rows
    PROVE  \E L : AllKept(L)'
<1> DEFINE homes == UNION {Home(b) : b \in Boxes \ rows}
<1>1. /\ op' = [b \in Boxes |-> Idle] /\ rows' = rows /\ snaps' = snaps /\ rows \subseteq Boxes
      /\ Sound(K, files) /\ \A c \in Boxes : Kept(K, c) /\ Ready(c) /\ op[c] \in Op /\ Shaped(op[c])
    BY BoxShape DEF Restart, AllKept, EdgesInv, Typed, TypeOK
<1>2. \A c \in Boxes : op[c].at \notin CloneSteps /\ op[c].at # "restoring"
    BY DEF Preserving, Restart, MayCrash, Cloning
<1>3. \A c \in Boxes : op[c].staged = {} /\ op[c].base = NoName
    BY <1>1, <1>2 DEF Shaped
<1>4. \A p \in K : \E c \in rows : p \in Home(c) \/ \E k \in Bases : p = Base(k) /\ k \in DOMAIN bases
    <2>1. SUFFICES ASSUME NEW p \in K
                   PROVE  \E c \in rows : p \in Home(c) \/ \E k \in Bases : p = Base(k) /\ k \in DOMAIN bases
        OBVIOUS
    <2>2. PICK c \in rows :
            \/ p \in Home(c) \/ \E d \in op[c].staged : p \in Home(d)
            \/ \E k \in Bases : p = Base(k) /\ (Held(k, c) \/ op[c].base = k)
        BY DEF Living
    <2>3. \A k \in Bases : ~(op[c].base = k) /\ (Held(k, c) => k \in DOMAIN bases)
        BY <1>1, <1>2, <1>3, NoNameAssumption DEF Held, CloneSteps
    <2>4. op[c].staged = {}
        BY <1>1, <1>3
    <2> QED BY <2>2, <2>3, <2>4
<1>5. PICK hs : hs = homes
    OBVIOUS
<1>6. K \intersect hs = {} /\ NoPath \notin hs /\ \A c \in rows : \A p \in Home(c) : p \notin hs
    <2>1. \A p \in hs : \E b \in Boxes \ rows : p \in Home(b)
        BY <1>5
    <2> QED BY <1>1, <1>4, <2>1, Homes, NoPathAssumption
<1>7. PICK fs : fs = files
    OBVIOUS
<1>8. Sound(K, Without(fs, hs)) /\ \A p \in K : Without(fs, hs)[p] = fs[p]
    BY <1>1, <1>6, <1>7, WithoutSound
<1>9. PICK swept : swept = Without(fs, hs)
    OBVIOUS
<1>10. /\ Sound(K, swept) /\ (\A p \in K : swept[p] = files[p]) /\ DOMAIN swept = DOMAIN files \ hs
    BY <1>7, <1>8, <1>9 DEF Without
<1>11. PICK back : back = {b \in rows : /\ marker[b] # NoName
                                        /\ Disk(b) \notin DOMAIN swept
                                        /\ Snap(b, marker[b]) \in DOMAIN swept}
    OBVIOUS
<1>12. \A c \in rows : c \in back <=> op[c].at = "snap_moved"
    <2>1. ASSUME NEW c \in rows, op[c].at = "snap_moved" PROVE c \in back
        <3>1. op[c].name \in Names /\ op[c].name # NoName
            BY <1>1, <2>1, NoNameAssumption DEF Shaped, NameSteps
        <3>2. marker[c] = op[c].name /\ Disk(c) \notin DOMAIN files /\ Snap(c, op[c].name) \in K
            BY <1>1, <2>1 DEF Kept, Ready, Between, Exists
        <3> QED BY <1>10, <1>11, <3>1, <3>2 DEF Sound
    <2>2. ASSUME NEW c \in rows, c \in back PROVE op[c].at = "snap_moved"
        <3>1. Disk(c) \notin K
            BY <1>10, <1>11, <2>2 DEF Sound
        <3> QED BY <1>1, <1>2, <3>1 DEF Kept, Between, CloneSteps
    <2> QED BY <2>1, <2>2
<1>13. /\ \A b \in back : /\ b \in rows /\ b \in Boxes /\ marker[b] = op[b].name /\ marker[b] \in Names
                          /\ Snap(b, marker[b]) \in K /\ <<b, marker[b]>> \notin snaps
                          /\ \A p \in K : files[p].back # Snap(b, marker[b])
    <2>1. SUFFICES ASSUME NEW b \in back
                   PROVE  /\ b \in rows /\ b \in Boxes /\ marker[b] = op[b].name /\ marker[b] \in Names
                          /\ Snap(b, marker[b]) \in K /\ <<b, marker[b]>> \notin snaps
                          /\ \A p \in K : files[p].back # Snap(b, marker[b])
        OBVIOUS
    <2>2. b \in rows /\ b \in Boxes /\ op[b].at = "snap_moved"
        BY <1>1, <1>11, <1>12
    <2>3. op[b].name \in Names /\ marker[b] = op[b].name
        BY <1>1, <2>2 DEF Ready, Shaped, NameSteps
    <2> QED BY <1>1, <2>2, <2>3 DEF Kept, Ready
<1>14. PICK L : L = (K \ {Snap(b, marker[b]) : b \in back}) \union {Disk(b) : b \in back}
    OBVIOUS
<1>15. Sound(L, Restored(swept))
    <2>1. \A b \in back : Snap(b, marker[b]) \in K /\ marker[b] \in Names /\ b \in Boxes
        BY <1>13
    <2>2. \A p \in K : \A b \in back : swept[p].back # Snap(b, marker[b])
        BY <1>10, <1>13
    <2>3. Sound((K \ {Snap(b, marker[b]) : b \in back}) \union {Disk(b) : b \in back}, Restored(swept))
        BY <1>10, <1>11, <2>1, <2>2, RestoredSound
    <2> QED BY <1>14, <2>3
<1>16. PICK whole : whole = Restored(swept)
    OBVIOUS
<1>17. PICK settled \in SUBSET Orphans(whole) : files' = Without(whole, settled)
    <2>1. \E settled \in SUBSET Orphans(Restored(Without(files, homes))) :
            files' = Without(Restored(Without(files, homes)), settled)
        BY DEF Restart
    <2>2. whole = Restored(Without(files, homes))
        BY <1>5, <1>7, <1>9, <1>16
    <2> QED BY <2>1, <2>2
<1>18. \A p \in settled : p # NoPath /\ \E k \in Bases : k \notin DOMAIN bases /\ p = Base(k)
    <2>1. \A p \in settled : \E k \in Bases : k \notin DOMAIN bases /\ p = Base(k)
        BY <1>17 DEF Orphans
    <2> QED BY <2>1, Homes, NoPathAssumption
<1>19. L \intersect settled = {}
    <2>1. SUFFICES ASSUME NEW p \in L, p \in settled PROVE FALSE
        OBVIOUS
    <2>2. PICK k \in Bases : k \notin DOMAIN bases /\ p = Base(k)
        BY <1>18, <2>1
    <2>3. p \in K
        BY <1>14, <2>2, PathsApart
    <2> QED BY <1>4, <2>2, <2>3, Homes, PathsApart
<1>20. Sound(L, files')
    <2>1. Sound(L, whole) /\ NoPath \notin settled
        BY <1>15, <1>16, <1>18
    <2> QED BY <1>17, <1>19, <2>1, WithoutSound
<1>21. ASSUME NEW c \in Boxes PROVE Kept(L, c)' /\ Ready(c)'
    <2>1. op'[c].at = "idle" /\ op'[c].staged = {} /\ op'[c].base = NoName
        BY <1>1 DEF Idle
    <2>2. c \in rows => Disk(c) \in L
        <3>1. c \in rows /\ op[c].at # "snap_moved" => Disk(c) \in K
            BY <1>1, <1>2 DEF Kept, Between, CloneSteps
        <3>2. \A b : Disk(c) # Snap(b, marker[b])
            BY PathsApart
        <3> QED BY <1>12, <1>14, <3>1, <3>2
    <2>3. ASSUME c \in rows, NEW n \in Names, <<c, n>> \in snaps PROVE Snap(c, n) \in L
        <3>1. Snap(c, n) \in K
            BY <1>1, <2>3 DEF Kept
        <3>2. \A b \in back : Snap(c, n) # Snap(b, marker[b])
            BY <1>13, <2>3, PathsApart
        <3> QED BY <1>14, <3>1, <3>2
    <2>4. Kept(L, c)'
        BY <1>1, <2>1, <2>2, <2>3 DEF Kept, Disk, Snap
    <2>5. Ready(c)'
        BY <2>1 DEF Ready, Between
    <2> QED BY <2>4, <2>5
<1>22. AllKept(L)'
    BY <1>20, <1>21 DEF AllKept
<1> QED BY <1>22

LEMMA FilesInit == Init => FilesInv
<1> SUFFICES ASSUME Init PROVE \E K : AllKept(K)
    BY EdgesInit DEF FilesInv
<1>1. PICK b \in Boxes :
        /\ files = [p \in {Disk(b)} |-> [back |-> NoPath, sound |-> TRUE]]
        /\ rows = {b} /\ snaps = {} /\ op = [c \in Boxes |-> Idle]
    BY DEF Init
<1>2. PICK K : K = {Disk(b)}
    OBVIOUS
<1>3. Sound(K, files)
    BY <1>1, <1>2 DEF Sound
<1>4. ASSUME NEW c \in Boxes PROVE Kept(K, c) /\ Ready(c)
    <2>1. op[c].at = "idle" /\ op[c].staged = {} /\ op[c].base = NoName
        BY <1>1 DEF Idle
    <2>2. c \in rows => Disk(c) \in K
        BY <1>1, <1>2
    <2> QED BY <1>1, <2>1, <2>2 DEF Kept, Ready, Between
<1>5. AllKept(K)
    BY <1>3, <1>4 DEF AllKept
<1> QED BY <1>5

\* Recovery has deleted every box: nothing is left to stand for.
LEMMA NoneKept ==
    ASSUME Restart, rows' = {}
    PROVE  \E L : AllKept(L)'
<1>1. op' = [b \in Boxes |-> Idle]
    BY DEF Restart
<1>2. Sound({}, files')
    BY DEF Sound
<1>3. \A c \in Boxes : Kept({}, c)' /\ Ready(c)'
    BY <1>1 DEF Kept, Ready, Idle, Between
<1>4. AllKept({})'
    BY <1>2, <1>3 DEF AllKept
<1> QED BY <1>4

LEMMA FilesStep ==
    ASSUME Preserving, Shallow, FilesInv, [Next]_vars
    PROVE  FilesInv'
<1>1. PICK K : AllKept(K) /\ \A p \in K : Living(p)
    BY KeptLiving
<1>2. EdgesInv
    BY DEF FilesInv
<1>3. ASSUME NEW b \in Boxes, Operate(b) PROVE \E L : AllKept(L)'
    <2>1. CASE \E n \in Names : SnapMark(b, n)
        BY <1>1, <1>2, <2>1, QuietSnapshots
    <2>2. CASE SnapSave(b) \/ SnapUnmark(b)
        BY <1>1, <1>2, <2>2, QuietSnapshots
    <2>3. CASE \E n \in Names : SnapDelete(b, n)
        BY <1>1, <1>2, <2>3, SnapDeleteKept
    <2>4. CASE \E n \in Names : RestoreBegin(b, n)
        BY <1>1, <1>2, <2>4, RestoreBeginKept
    <2>5. CASE SnapMove(b)
        BY <1>1, <1>2, <2>5, SnapMoveKept
    <2>6. CASE SnapChild(b) \/ RestoreChild(b) \/ CloneChild(b)
        BY <1>1, <1>2, <2>6, ChildrenKept
    <2>7. CASE SnapUnlink(b)
        BY <1>1, <1>2, <2>7, SnapUnlinkKept
    <2>8. CASE \E k \in Bases : CloneMove(b, k)
        BY <1>1, <1>2, <2>8, CloneMoveKept
    <2>9. CASE CloneInsert(b) \/ CloneRef(b) \/ CloneRefer(b)
        BY <1>1, <1>2, <2>9, QuietClones
    <2>10. CASE \E d \in Boxes : CloneStage(b, d)
        BY <1>1, <1>2, <2>10, CloneStageKept
    <2>11. CASE \E d \in Boxes : CloneProvision(b, d)
        BY <1>1, <1>2, <2>11, CloneProvisionKept
    <2>12. CASE RemoveRow(b) \/ RemoveRefs(b)
        BY <1>1, <1>2, <2>12, QuietRemovals
    <2>13. CASE RemoveDisks(b) \/ RemoveDir(b)
        BY <1>1, <1>2, <2>13, RemovalKept
    <2>14. CASE \E k \in Bases : CollectBase(b, k)
        BY <1>1, <1>2, <2>14, CollectKept
    <2> QED BY <1>3, <2>1, <2>2, <2>3, <2>4, <2>5, <2>6, <2>7, <2>8, <2>9, <2>10, <2>11, <2>12, <2>13, <2>14
            DEF Operate
<1>4. ASSUME Restart PROVE \E L : AllKept(L)'
    <2>1. CASE Survivors = rows
        BY <1>1, <1>2, <1>4, <2>1, RestartKept
    <2>2. CASE rows' = {}
        BY <1>4, <2>2, NoneKept
    <2>3. rows' = Survivors /\ (Survivors = rows \/ Survivors = {})
        BY <1>4 DEF Restart, Survivors
    <2> QED BY <2>1, <2>2, <2>3
<1>5. ASSUME UNCHANGED vars PROVE \E L : AllKept(L)'
    <2>1. Sound(K, files') /\ \A c \in Boxes : Kept(K, c) /\ Ready(c)
        BY <1>1, <1>5 DEF vars, AllKept
    <2>2. \A c \in Boxes : Kept(K, c)' /\ Ready(c)'
        BY <1>5, <2>1 DEF vars, Kept, Ready, Exists, Disk, Snap, Base
    <2> QED BY <2>1, <2>2 DEF AllKept
<1>6. EdgesInv'
    BY <1>2, TypedStep, ClonesStep, EdgesHeldStep, SourceStaysStep DEF EdgesInv, Preserving, Referring
<1>7. (\E K1 : AllKept(K1))'
    BY <1>3, <1>4, <1>5 DEF Next
<1> QED BY <1>6, <1>7 DEF FilesInv

LEMMA FilesOfInv ==
    ASSUME IsFiniteSet(Paths), FilesInv
    PROVE  FilesWhole
<1>1. PICK K : AllKept(K)
    BY DEF FilesInv
<1>2. Typed /\ Sound(K, files) /\ \A c \in Boxes : Kept(K, c)
    BY <1>1 DEF FilesInv, EdgesInv, AllKept
<1>3. \A p \in K : Whole(p)
    BY <1>2, WholeOfSound
<1>4. rows \subseteq Boxes /\ snaps \subseteq Boxes \X Names
    BY <1>2 DEF Typed, TypeOK
<1>5. DisksWhole
    BY <1>2, <1>3, <1>4 DEF DisksWhole, Kept
<1>6. SnapshotsWhole
    <2>1. ASSUME NEW s \in snaps, s[1] \in rows PROVE Whole(Snap(s[1], s[2]))
        <3>1. PICK c \in Boxes, n \in Names : s = <<c, n>>
            BY <1>4
        <3>2. Snap(c, n) \in K
            BY <1>2, <2>1, <3>1 DEF Kept
        <3> QED BY <1>3, <3>1, <3>2
    <2> QED BY <2>1 DEF SnapshotsWhole
<1> QED BY <1>5, <1>6 DEF FilesWhole

(* Whatever a box or a listed snapshot is built on stays, to the end of the  *)
(* chain: by whatever interleaving of snapshots, clones, restores, removals  *)
(* and collections, and wherever a crash outside a clone or a restore falls, *)
(* inside a snapshot's move and a removal too. It needs what the code counts *)
(* on without checking: that no chain is longer than read_backing_chain      *)
(* walks (snapshot_mgr.rs:193, base_disk.rs:333, local_snapshot.rs:181).     *)
THEOREM FilesStayWhole ==
    ASSUME IsFiniteSet(Paths),
           Faults \intersect {"race", "force", "base_db", "crash_clone", "crash_restore", "child", "retry"} = {}
    PROVE  Spec /\ []Shallow => []FilesWhole
<1>1. Preserving
    BY DEF Preserving
<1>2. Shallow /\ FilesInv /\ [Next]_vars => FilesInv'
    BY <1>1, FilesStep
<1>3. FilesInv => FilesWhole
    BY FilesOfInv
<1> QED BY <1>2, <1>3, FilesInit, PTL DEF Spec
=============================================================================
