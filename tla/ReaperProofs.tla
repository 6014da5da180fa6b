---------------------------- MODULE ReaperProofs ----------------------------
(***************************************************************************)
(* Theorems about Reaper, for every set of processes and pids: a waiter    *)
(* hears the exit of its own process, none is stranded, and an init's      *)
(* follow-up is never lost.                                                *)
(***************************************************************************)
EXTENDS ReaperProperties, TLAPS

(* A process has a pid from its birth, and shares it with no other until   *)
(* the sweep or its spawner has collected it and its spawn is over.        *)
Owns(p) == os[p] # "unborn" /\ (Alive(p) \/ client[p] = "spawning")
PidsTrue ==
  /\ \A p \in Procs : os[p] = "unborn" <=> pid[p] = NoPid
  /\ \A p \in Procs : os[p] = "unborn" => client[p] \in {"idle", "spawning"}
  /\ \A p \in Procs : client[p] = "spawning" => kind[p] \in {"exec", "init"}
  /\ \A p, q \in Procs : Owns(p) /\ Owns(q) /\ pid[p] = pid[q] => p = q
(* The exit in hand is the only reaped one, an action in the batch has the *)
(* status of its own process, and spawned_at comes before the own exit.    *)
HandTrue ==
  /\ \A p \in Procs : os[p] = "reaped" <=> hand = p
  /\ \A p, q \in Procs : <<p, q>> \in batch => p = q
  /\ \A p \in Procs : before[p] \subseteq Delivered /\ p \notin before[p]
(* A slot's receivers have heard what it holds; a settled one holds an exit *)
(* of its pid, an unsettled one belongs to a living, registered process.   *)
SlotTrue(i, s) ==
  /\ \A r \in s.readers :
       client[r] = "holding" /\ pid[r] = i /\ heard[r] = s.exit
  /\ s.exit # NoProc =>
       pid[s.exit] = i /\ os[s.exit] = "delivered" /\ s.action = NoProc
  /\ s.exit = NoProc =>
       /\ ~s.stray
       /\ \E q \in Procs : Alive(q) /\ pid[q] = i
                          /\ client[q] \in {"holding", "done"}
  /\ s.action # NoProc => pid[s.action] = i /\ Alive(s.action)
SlotsTrue == \A i \in Pids : slots[i] # NoSlot => SlotTrue(i, slots[i])
(* What a spawner that has yet to register will find under its pid: the    *)
(* remains of a past owner it can tell by their time, or its own exit.     *)
SpawnersSlot ==
  \A p \in Procs : client[p] = "spawning" /\ os[p] # "unborn" =>
    /\ os[p] # "gone"
    /\ kind[p] = "init" => os[p] = "running"
    /\ Alive(p) =>
         \/ slots[pid[p]] = NoSlot
         \/ /\ slots[pid[p]].exit # NoProc
            /\ kind[p] = "exec" => slots[pid[p]].exit \in before[p]
    /\ os[p] = "delivered" =>
         slots[pid[p]] # NoSlot /\ slots[pid[p]].exit = p

IInv == /\ TypeOK /\ PidsTrue /\ HandTrue /\ SlotsTrue /\ SpawnersSlot
        /\ OwnStatus /\ NoneStranded /\ ActionKept

-----------------------------------------------------------------------------
(* A registration finds a fresh slot or, if the sweep was faster, its own
   exit: never that of a past owner of the pid. *)
LEMMA SpawnerFinds ==
  ASSUME IInv, NEW p \in Procs, client[p] = "spawning", os[p] # "unborn",
         NEW time, time = IF kind[p] = "exec" THEN before[p] ELSE Delivered
  PROVE  LET s == SlotAt(pid[p], time) IN
         /\ pid[p] \in Pids /\ s \in Slot
         /\ \/ s = NewSlot(FALSE) /\ Alive(p)
            \/ /\ s.exit = p /\ os[p] = "delivered" /\ kind[p] = "exec"
               /\ s = [slots[pid[p]] EXCEPT !.stray = FALSE]
               /\ slots[pid[p]] \in Slot /\ slots[pid[p]].exit = p
<1> DEFINE i == pid[p]
<1>1. i \in Pids
  BY ReaperAssumption DEF IInv, TypeOK, PidsTrue
<1>2. NewSlot(FALSE) \in Slot
  BY DEF NewSlot, Slot
<1>3. slots[i] # NoSlot => slots[i] \in Slot
  BY <1>1 DEF IInv, TypeOK
<1>4. CASE Alive(p)
  <2>1. slots[i] = NoSlot \/ slots[i].exit \in time
    <3>1. SUFFICES ASSUME slots[i] # NoSlot PROVE slots[i].exit \in time
      OBVIOUS
    <3>2. slots[i].exit # NoProc /\ (kind[p] = "exec" => slots[i].exit \in before[p])
      BY <1>4, <3>1 DEF IInv, SpawnersSlot
    <3>3. slots[i].exit \in Delivered
      BY <1>1, <1>3, <3>1, <3>2 DEF IInv, SlotsTrue, SlotTrue, Delivered, Slot
    <3> QED BY <3>2, <3>3
  <2> QED BY <1>1, <1>2, <1>4, <2>1 DEF SlotAt
<1>5. CASE ~Alive(p)
  <2>1. os[p] = "delivered" /\ kind[p] = "exec"
    BY <1>5 DEF IInv, TypeOK, ProcStates, SpawnersSlot, PidsTrue, Alive
  <2>2. slots[i] # NoSlot /\ slots[i].exit = p
    BY <2>1 DEF IInv, SpawnersSlot
  <2>3. p \notin time
    BY <2>1 DEF IInv, HandTrue
  <2> QED BY <1>1, <1>3, <2>1, <2>2, <2>3 DEF SlotAt, Slot
<1> QED BY <1>4, <1>5

(* The exit in hand goes to a slot that only its own process reads. *)
LEMMA DeliveryFinds ==
  ASSUME IInv, NEW p \in Procs, hand = p
  PROVE  LET s == Delivery(pid[p]) IN
         /\ pid[p] \in Pids /\ s \in Slot /\ s.exit = NoProc
         /\ s.readers \subseteq {p} /\ s.action \in {NoProc, p}
         /\ os[p] = "reaped"
         /\ s # NewSlot(TRUE) => s = slots[pid[p]]
<1> DEFINE i == pid[p]
<1>1. i \in Pids /\ os[p] = "reaped" /\ Alive(p)
  BY ReaperAssumption DEF IInv, TypeOK, PidsTrue, HandTrue, Alive
<1>2. CASE slots[i] = NoSlot \/ slots[i].exit # NoProc
  BY <1>1, <1>2 DEF Delivery, SettledDetached, NewSlot, Slot
<1>3. CASE slots[i] # NoSlot /\ slots[i].exit = NoProc
  <2>1. Delivery(i) = slots[i] /\ slots[i] \in Slot
    BY <1>1, <1>3 DEF Delivery, SettledDetached, IInv, TypeOK
  <2>2. ASSUME NEW r \in slots[i].readers PROVE r = p
    <3>1. r \in Procs /\ client[r] = "holding" /\ pid[r] = i /\ heard[r] = NoProc
      BY <1>1, <1>3, <2>1 DEF IInv, SlotsTrue, SlotTrue, Slot
    <3> QED BY <1>1, <3>1 DEF IInv, NoneStranded, PidsTrue, Owns, Alive
  <2>3. slots[i].action # NoProc => slots[i].action = p
    BY <1>1, <1>3, <2>1 DEF IInv, SlotsTrue, SlotTrue, PidsTrue, Owns, Slot
  <2> QED BY <1>1, <1>3, <2>1, <2>2, <2>3
<1> QED BY <1>2, <1>3

(* A child is born under a free pid: what lies under it is a past owner's. *)
LEMMA ForkKeeps ==
  ASSUME IInv, NEW p \in Procs, NEW i \in Pids, Fork(p, i)
  PROVE  IInv'
<1>1. TypeOK'
  BY DEF IInv, Fork, Born, clientVars, loopVars, TypeOK, ProcStates
<1>2. PidsTrue'
  BY DEF IInv, Fork, Born, Free, clientVars, TypeOK, PidsTrue, Owns, Alive
<1>3. HandTrue'
  BY DEF IInv, Fork, Born, clientVars, loopVars, HandTrue, Delivered
<1>4. SlotsTrue'
  BY DEF IInv, Fork, Born, clientVars, SlotsTrue, SlotTrue, Alive
<1>5. SpawnersSlot'
  <2> SUFFICES ASSUME NEW q \in Procs, client[q] = "spawning", os'[q] # "unborn"
      PROVE  /\ os'[q] # "gone"
             /\ kind[q] = "init" => os'[q] = "running"
             /\ Alive(q)' => \/ slots[pid'[q]] = NoSlot
                            \/ /\ slots[pid'[q]].exit # NoProc
                               /\ kind[q] = "exec" => slots[pid'[q]].exit \in before[q]
             /\ os'[q] = "delivered" => slots[pid'[q]] # NoSlot /\ slots[pid'[q]].exit = q
    BY DEF SpawnersSlot, Fork, clientVars, loopVars
  <2>1. CASE q = p
    <3>1. os'[q] = "running" /\ pid'[q] = i
      BY <2>1 DEF IInv, TypeOK, Fork, Born
    <3>2. ASSUME slots[i] # NoSlot
          PROVE  slots[i].exit # NoProc /\ (kind[p] = "exec" => slots[i].exit \in before[p])
      BY <3>2 DEF IInv, SlotsTrue, SlotTrue, TypeOK, Slot, Fork, Free, Alive
    <3> QED BY <2>1, <3>1, <3>2 DEF IInv, PidsTrue
  <2>2. CASE q # p
    BY <2>2 DEF IInv, SpawnersSlot, Fork, Born, Alive
  <2> QED BY <2>1, <2>2
<1>6. OwnStatus'
  BY DEF IInv, Fork, clientVars, OwnStatus
<1>7. NoneStranded'
  BY DEF IInv, Fork, Born, clientVars, NoneStranded, Alive
<1>8. ActionKept'
  BY DEF IInv, Fork, Born, clientVars, loopVars, ActionKept
<1> QED BY <1>1, <1>2, <1>3, <1>4, <1>5, <1>6, <1>7, <1>8 DEF IInv

(* A stray is born; nobody will register it. *)
LEMMA OrphanKeeps ==
  ASSUME IInv, NEW p \in Procs, NEW i \in Pids, Orphan(p, i)
  PROVE  IInv'
<1>1. TypeOK'
  BY DEF IInv, Orphan, Born, loopVars, TypeOK, Kinds, ProcStates, ClientStates
<1>2. PidsTrue'
  BY DEF IInv, Orphan, Born, Free, TypeOK, PidsTrue, Owns, Alive
<1>3. HandTrue'
  BY DEF IInv, Orphan, Born, loopVars, HandTrue, Delivered
<1>4. SlotsTrue'
  BY DEF IInv, Orphan, Born, SlotsTrue, SlotTrue, Alive
<1>5. SpawnersSlot'
  BY DEF IInv, Orphan, Born, SpawnersSlot, Alive
<1>6. OwnStatus'
  BY DEF IInv, Orphan, OwnStatus
<1>7. NoneStranded'
  BY DEF IInv, Orphan, Born, NoneStranded, Alive
<1>8. ActionKept'
  BY DEF IInv, Orphan, Born, loopVars, ActionKept
<1> QED BY <1>1, <1>2, <1>3, <1>4, <1>5, <1>6, <1>7, <1>8 DEF IInv

(* A fenced helper is born; it has no slot until the sweep takes it. *)
LEMMA SelfSpawnKeeps ==
  ASSUME IInv, NEW p \in Procs, NEW i \in Pids, SelfSpawn(p, i)
  PROVE  IInv'
<1>1. TypeOK'
  BY DEF IInv, SelfSpawn, Born, loopVars, TypeOK, Kinds, ProcStates, ClientStates
<1>2. PidsTrue'
  BY DEF IInv, SelfSpawn, Born, Free, TypeOK, PidsTrue, Owns, Alive
<1>3. HandTrue'
  BY DEF IInv, SelfSpawn, Born, loopVars, HandTrue, Delivered
<1>4. SlotsTrue'
  BY DEF IInv, SelfSpawn, Born, SlotsTrue, SlotTrue, Alive
<1>5. SpawnersSlot'
  BY DEF IInv, SelfSpawn, Born, SpawnersSlot, Alive
<1>6. OwnStatus'
  BY DEF IInv, SelfSpawn, OwnStatus
<1>7. NoneStranded'
  BY DEF IInv, SelfSpawn, Born, NoneStranded, Alive
<1>8. ActionKept'
  BY DEF IInv, SelfSpawn, Born, loopVars, ActionKept
<1> QED BY <1>1, <1>2, <1>3, <1>4, <1>5, <1>6, <1>7, <1>8 DEF IInv

(* An exit leaves the child its pid until somebody collects it. *)
LEMMA ExitKeeps ==
  ASSUME IInv, NEW p \in Procs, Exit(p)
  PROVE  IInv'
<1>1. TypeOK'
  BY DEF IInv, Exit, clientVars, TypeOK, ProcStates
<1>2. PidsTrue'
  BY DEF IInv, Exit, clientVars, PidsTrue, Owns, Alive
<1>3. HandTrue'
  BY DEF IInv, Exit, clientVars, HandTrue, Delivered
<1>4. SlotsTrue'
  BY DEF IInv, Exit, clientVars, SlotsTrue, SlotTrue, Alive
<1>5. SpawnersSlot'
  BY DEF IInv, Exit, clientVars, SpawnersSlot, Alive
<1>6. OwnStatus'
  BY DEF IInv, Exit, clientVars, OwnStatus
<1>7. NoneStranded'
  BY DEF IInv, Exit, clientVars, NoneStranded, Alive
<1>8. ActionKept'
  BY DEF IInv, Exit, clientVars, ActionKept
<1> QED BY <1>1, <1>2, <1>3, <1>4, <1>5, <1>6, <1>7, <1>8 DEF IInv

(* A spawner's own wait frees the pid without touching the slots. *)
LEMMA SelfWaitKeeps ==
  ASSUME IInv, NEW p \in Procs, SelfWait(p)
  PROVE  IInv'
<1>1. TypeOK'
  BY DEF IInv, SelfWait, loopVars, TypeOK, ProcStates, ClientStates
<1>2. PidsTrue'
  BY DEF IInv, SelfWait, TypeOK, PidsTrue, Owns, Alive
<1>3. HandTrue'
  BY DEF IInv, SelfWait, loopVars, TypeOK, HandTrue, Delivered
<1>4. SlotsTrue'
  BY DEF IInv, SelfWait, TypeOK, Slot, PidsTrue, SlotsTrue, SlotTrue, Owns, Alive
<1>5. SpawnersSlot'
  BY DEF IInv, SelfWait, TypeOK, SpawnersSlot, Alive
<1>6. OwnStatus'
  BY DEF IInv, SelfWait, OwnStatus
<1>7. NoneStranded'
  BY DEF IInv, SelfWait, TypeOK, NoneStranded, Alive
<1>8. ActionKept'
  BY DEF IInv, SelfWait, loopVars, TypeOK, ActionKept
<1> QED BY <1>1, <1>2, <1>3, <1>4, <1>5, <1>6, <1>7, <1>8 DEF IInv

(* A request starts: every exit deposited so far is before its time. *)
LEMMA BeginSpawnKeeps ==
  ASSUME IInv, NEW p \in Procs, NEW k \in {"exec", "init"}, BeginSpawn(p, k)
  PROVE  IInv'
<1>1. TypeOK'
  BY DEF IInv, BeginSpawn, procVars, loopVars, TypeOK, Kinds, ClientStates, Delivered
<1>2. PidsTrue'
  BY DEF IInv, BeginSpawn, procVars, TypeOK, PidsTrue, Owns, Alive
<1>3. HandTrue'
  BY DEF IInv, BeginSpawn, procVars, loopVars, HandTrue, Delivered
<1>4. SlotsTrue'
  BY DEF IInv, BeginSpawn, procVars, SlotsTrue, SlotTrue, Alive
<1>5. SpawnersSlot'
  BY DEF IInv, BeginSpawn, procVars, SpawnersSlot, Alive
<1>6. OwnStatus'
  BY DEF IInv, BeginSpawn, OwnStatus
<1>7. NoneStranded'
  BY DEF IInv, BeginSpawn, procVars, NoneStranded, Alive
<1>8. ActionKept'
  BY DEF IInv, BeginSpawn, procVars, loopVars, ActionKept
<1> QED BY <1>1, <1>2, <1>3, <1>4, <1>5, <1>6, <1>7, <1>8 DEF IInv

(* register hands p a slot of its own (SpawnerFinds). *)
LEMMA RegisterKeeps ==
  ASSUME IInv, NEW p \in Procs, Register(p)
  PROVE  IInv'
<1> DEFINE s == SlotAt(pid[p], before[p])
<1>a. /\ pid[p] \in Pids /\ s \in Slot
      /\ \/ s = NewSlot(FALSE) /\ Alive(p)
         \/ /\ s.exit = p /\ os[p] = "delivered" /\ kind[p] = "exec"
            /\ s = [slots[pid[p]] EXCEPT !.stray = FALSE]
            /\ slots[pid[p]] \in Slot /\ slots[pid[p]].exit = p
  BY SpawnerFinds DEF Register
<1> DEFINE n == [s EXCEPT !.readers = @ \cup {p}]
<1>b. n \in Slot /\ n.exit = s.exit /\ n.readers = s.readers \cup {p}
      /\ s.exit \in Procs \cup {NoProc}
  BY <1>a DEF Slot
<1>c. /\ slots' = [slots EXCEPT ![pid[p]] = n]
      /\ heard' = [heard EXCEPT ![p] = s.exit]
      /\ UNCHANGED <<os, pid, kind>>
  BY DEF Register, procVars
<1>1. TypeOK'
  <2>1. slots' \in [Pids -> Slot \cup {NoSlot}] /\ heard' \in [Procs -> Procs \cup {NoProc}]
    BY <1>a, <1>b, <1>c DEF IInv, TypeOK
  <2>2. fired' \in [Procs -> Procs \cup {NoProc}]
    BY <1>b DEF IInv, TypeOK, Register
  <2> QED BY <2>1, <2>2 DEF IInv, TypeOK, ClientStates, Register, procVars, loopVars
<1>2. PidsTrue'
  BY DEF IInv, Register, procVars, PidsTrue, Owns, Alive
<1>3. HandTrue'
  BY DEF IInv, Register, procVars, loopVars, HandTrue, Delivered
<1>4. SlotsTrue'
  BY DEF IInv, Register, SlotAt, NewSlot, procVars, TypeOK, ProcStates, HandTrue,
       SlotsTrue, SlotTrue, SpawnersSlot, Alive
<1>5. SpawnersSlot'
  <2>1. ASSUME NEW q \in Procs, client'[q] = "spawning", os[q] # "unborn"
        PROVE  client[q] = "spawning" /\ slots'[pid[q]] = slots[pid[q]]
                 /\ before'[q] = before[q]
    <3>1. q # p /\ client[q] = "spawning"
      BY <2>1 DEF IInv, TypeOK, Register
    <3>2. pid[q] # pid[p] /\ before'[q] = before[q]
      BY <2>1, <3>1 DEF IInv, PidsTrue, Owns, Register
    <3> QED BY <1>a, <2>1, <3>1, <3>2 DEF IInv, TypeOK, Register
  <2>2. SpawnersSlot /\ os' = os /\ pid' = pid /\ kind' = kind
    BY <1>c DEF IInv
  <2> HIDE DEF s, n
  <2> QED BY <2>1, <2>2 DEF SpawnersSlot, Alive
<1>6. OwnStatus'
  BY DEF IInv, Register, SlotAt, NewSlot, TypeOK, ProcStates, SpawnersSlot,
       OwnStatus, Alive
<1>7. NoneStranded'
  <2> SUFFICES ASSUME NEW q \in Procs, client'[q] = "holding", heard'[q] = NoProc
      PROVE  /\ Alive(q) /\ slots'[pid[q]] # NoSlot
             /\ q \in slots'[pid[q]].readers /\ slots'[pid[q]].exit = NoProc
    BY DEF NoneStranded, Alive, Register, procVars
  <2>1. CASE q = p
    <3>1. s.exit = NoProc /\ Alive(p)
      BY <1>a, <2>1, ReaperAssumption DEF Register, IInv, TypeOK
    <3>2. slots'[pid[p]] = n
      BY <1>a, <1>c DEF IInv, TypeOK
    <3> QED BY <1>b, <2>1, <3>1, <3>2, ReaperAssumption DEF Register
  <2>2. CASE q # p
    <3>1. /\ client[q] = "holding" /\ heard[q] = NoProc /\ Alive(q)
          /\ slots[pid[q]] # NoSlot /\ q \in slots[pid[q]].readers
          /\ slots[pid[q]].exit = NoProc
      BY <2>2 DEF IInv, TypeOK, NoneStranded, Register
    <3>2. pid[q] # pid[p]
      BY <2>2, <3>1 DEF IInv, PidsTrue, Owns, Register
    <3> QED BY <1>a, <3>1, <3>2 DEF IInv, TypeOK, Register
  <2> QED BY <2>1, <2>2
<1>8. ActionKept'
  BY ReaperAssumption
     DEF IInv, Register, procVars, loopVars, TypeOK, ProcStates, SpawnersSlot,
       ActionKept, Alive
<1> QED BY <1>1, <1>2, <1>3, <1>4, <1>5, <1>6, <1>7, <1>8 DEF IInv

(* on_exit finds init unexited, hence a fresh slot, and parks the action. *)
LEMMA OnExitKeeps ==
  ASSUME IInv, NEW p \in Procs, OnExit(p)
  PROVE  IInv'
<1> DEFINE s == SlotAt(pid[p], Delivered)
<1>a. /\ pid[p] \in Pids /\ s \in Slot
      /\ \/ s = NewSlot(FALSE) /\ Alive(p)
         \/ /\ s.exit = p /\ os[p] = "delivered" /\ kind[p] = "exec"
            /\ s = [slots[pid[p]] EXCEPT !.stray = FALSE]
            /\ slots[pid[p]] \in Slot /\ slots[pid[p]].exit = p
  BY SpawnerFinds DEF OnExit
<1> DEFINE n == [s EXCEPT !.readers = @ \cup {p}, !.action = IF s.exit = NoProc THEN p ELSE @]
<1>b. n \in Slot /\ n.exit = s.exit /\ n.readers = s.readers \cup {p}
      /\ s.exit \in Procs \cup {NoProc}
  BY <1>a DEF Slot
<1>c. /\ slots' = [slots EXCEPT ![pid[p]] = n]
      /\ heard' = [heard EXCEPT ![p] = s.exit]
      /\ UNCHANGED <<os, pid, kind>>
  BY DEF OnExit, procVars
<1>1. TypeOK'
  <2>1. slots' \in [Pids -> Slot \cup {NoSlot}] /\ heard' \in [Procs -> Procs \cup {NoProc}]
    BY <1>a, <1>b, <1>c DEF IInv, TypeOK
  <2>2. fired' \in [Procs -> Procs \cup {NoProc}]
    BY <1>b DEF IInv, TypeOK, OnExit
  <2> QED BY <2>1, <2>2 DEF IInv, TypeOK, ClientStates, OnExit, vars, procVars, clientVars, loopVars
<1>2. PidsTrue'
  BY DEF IInv, OnExit, procVars, PidsTrue, Owns, Alive
<1>3. HandTrue'
  BY DEF IInv, OnExit, procVars, loopVars, HandTrue, Delivered
<1>4. SlotsTrue'
  BY DEF IInv, OnExit, SlotAt, NewSlot, procVars, TypeOK, SlotsTrue, SlotTrue,
       SpawnersSlot, Alive
<1>5. SpawnersSlot'
  <2>1. ASSUME NEW q \in Procs, client'[q] = "spawning", os[q] # "unborn"
        PROVE  client[q] = "spawning" /\ slots'[pid[q]] = slots[pid[q]]
                 /\ before'[q] = before[q]
    <3>1. q # p /\ client[q] = "spawning"
      BY <2>1 DEF IInv, TypeOK, OnExit
    <3>2. pid[q] # pid[p] /\ before'[q] = before[q]
      BY <2>1, <3>1 DEF IInv, PidsTrue, Owns, OnExit
    <3> QED BY <1>a, <2>1, <3>1, <3>2 DEF IInv, TypeOK, OnExit
  <2>2. SpawnersSlot /\ os' = os /\ pid' = pid /\ kind' = kind
    BY <1>c DEF IInv
  <2> HIDE DEF s, n
  <2> QED BY <2>1, <2>2 DEF SpawnersSlot, Alive
<1>6. OwnStatus'
  BY DEF IInv, OnExit, SlotAt, NewSlot, TypeOK, Slot, PidsTrue, SlotsTrue, SlotTrue,
       OwnStatus, Delivered
<1>7. NoneStranded'
  <2> SUFFICES ASSUME NEW q \in Procs, client'[q] = "holding", heard'[q] = NoProc
      PROVE  /\ Alive(q) /\ slots'[pid[q]] # NoSlot
             /\ q \in slots'[pid[q]].readers /\ slots'[pid[q]].exit = NoProc
    BY DEF NoneStranded, Alive, OnExit, procVars
  <2>1. CASE q = p
    <3>1. s.exit = NoProc /\ Alive(p)
      BY <1>a, <2>1, ReaperAssumption DEF OnExit, IInv, TypeOK
    <3>2. slots'[pid[p]] = n
      BY <1>a, <1>c DEF IInv, TypeOK
    <3> QED BY <1>b, <2>1, <3>1, <3>2, ReaperAssumption DEF OnExit
  <2>2. CASE q # p
    <3>1. /\ client[q] = "holding" /\ heard[q] = NoProc /\ Alive(q)
          /\ slots[pid[q]] # NoSlot /\ q \in slots[pid[q]].readers
          /\ slots[pid[q]].exit = NoProc
      BY <2>2 DEF IInv, TypeOK, NoneStranded, OnExit
    <3>2. pid[q] # pid[p]
      BY <2>2, <3>1 DEF IInv, PidsTrue, Owns, OnExit
    <3> QED BY <1>a, <3>1, <3>2 DEF IInv, TypeOK, OnExit
  <2> QED BY <2>1, <2>2
<1>8. ActionKept'
  <2> SUFFICES ASSUME NEW q \in Procs, client'[q] = "holding", kind[q] = "init"
      PROVE  \/ fired'[q] = q
             \/ <<q, q>> \in batch
             \/ /\ slots'[pid[q]] # NoSlot /\ slots'[pid[q]].action = q
                /\ slots'[pid[q]].exit = NoProc
    BY DEF ActionKept, OnExit, loopVars, procVars
  <2>1. CASE q = p
    <3>1. s.exit = NoProc
      BY <1>a, <2>1 DEF OnExit, NewSlot
    <3>2. slots'[pid[p]] = n /\ n.action = p
      BY <1>a, <1>c, <3>1 DEF IInv, TypeOK, Slot
    <3> QED BY <1>b, <2>1, <3>1, <3>2, ReaperAssumption
  <2>2. CASE q # p
    <3>1. client[q] = "holding" /\ fired'[q] = fired[q]
      BY <2>2 DEF IInv, TypeOK, OnExit
    <3>2. ASSUME slots[pid[q]] # NoSlot, slots[pid[q]].action = q,
                 slots[pid[q]].exit = NoProc
          PROVE  pid[q] # pid[p]
      <4>1. pid[q] \in Pids
        BY <3>1, ReaperAssumption DEF IInv, TypeOK, PidsTrue
      <4>2. Alive(q)
        BY <3>2, <4>1, ReaperAssumption DEF IInv, SlotsTrue, SlotTrue
      <4> QED BY <2>2, <4>2 DEF IInv, PidsTrue, Owns, Alive, OnExit
    <3>3. pid[q] # pid[p] => slots'[pid[q]] = slots[pid[q]]
      BY <1>c, <3>1, ReaperAssumption DEF IInv, TypeOK, PidsTrue
    <3> QED BY <3>1, <3>2, <3>3 DEF IInv, ActionKept, OnExit
  <2> QED BY <2>1, <2>2
<1> QED BY <1>1, <1>2, <1>3, <1>4, <1>5, <1>6, <1>7, <1>8 DEF IInv

(* A failed spawner never registers, so no slot is its. *)
LEMMA HandleFailedKeeps ==
  ASSUME IInv, NEW p \in Procs, HandleFailed(p)
  PROVE  IInv'
<1>1. TypeOK'
  BY DEF IInv, HandleFailed, procVars, loopVars, TypeOK, ClientStates
<1>2. PidsTrue'
  BY DEF IInv, HandleFailed, procVars, PidsTrue, Owns, Alive
<1>3. HandTrue'
  BY DEF IInv, HandleFailed, procVars, loopVars, HandTrue, Delivered
<1>4. SlotsTrue'
  BY DEF IInv, HandleFailed, procVars, SlotsTrue, SlotTrue, Alive
<1>5. SpawnersSlot'
  BY DEF IInv, HandleFailed, procVars, TypeOK, SpawnersSlot, Alive
<1>6. OwnStatus'
  BY DEF IInv, HandleFailed, OwnStatus
<1>7. NoneStranded'
  BY DEF IInv, HandleFailed, procVars, NoneStranded, Alive
<1>8. ActionKept'
  BY DEF IInv, HandleFailed, procVars, loopVars, ActionKept
<1> QED BY <1>1, <1>2, <1>3, <1>4, <1>5, <1>6, <1>7, <1>8 DEF IInv

(* release_slot removes p's slot, which nobody else reads. *)
LEMMA ReleaseKeeps ==
  ASSUME IInv, NEW p \in Procs, Release(p)
  PROVE  IInv'
<1>1. TypeOK'
  BY DEF IInv, Release, ReleaseSlot, procVars, loopVars, TypeOK, ClientStates
<1>2. PidsTrue'
  BY DEF IInv, Release, procVars, PidsTrue, Owns, Alive
<1>3. HandTrue'
  BY DEF IInv, Release, procVars, loopVars, HandTrue, Delivered
<1>4. SlotsTrue'
  BY DEF IInv, Release, ReleaseSlot, procVars, SlotsTrue, SlotTrue, Alive
<1>5. SpawnersSlot'
  <2> SUFFICES ASSUME NEW q \in Procs, client'[q] = "spawning", os[q] # "unborn"
      PROVE  client[q] = "spawning" /\ slots'[pid[q]] \in {slots[pid[q]], NoSlot}
                /\ (os[q] = "delivered" => slots'[pid[q]] = slots[pid[q]])
    BY DEF IInv, SpawnersSlot, Alive, Release, procVars
  <2>1. q # p /\ client[q] = "spawning" /\ pid[q] \in Pids
    BY ReaperAssumption DEF IInv, TypeOK, PidsTrue, Release
  <2>2. slots'[pid[q]] \in {slots[pid[q]], NoSlot}
    BY <2>1 DEF Release, ReleaseSlot
  <2>3. ASSUME os[q] = "delivered" PROVE slots'[pid[q]] = slots[pid[q]]
    <3>1. slots[pid[q]] # NoSlot /\ slots[pid[q]].exit = q
      BY <2>1, <2>3 DEF IInv, SpawnersSlot
    <3>2. p \notin slots[pid[q]].readers
      BY <2>1, <3>1, ReaperAssumption DEF IInv, SlotsTrue, SlotTrue, OwnStatus
    <3> QED BY <2>1, <3>2 DEF Release, ReleaseSlot
  <2> QED BY <2>1, <2>2, <2>3
<1>6. OwnStatus'
  BY DEF IInv, Release, OwnStatus
<1>7. NoneStranded'
  BY DEF IInv, Release, ReleaseSlot, procVars, TypeOK, PidsTrue, SlotsTrue,
       SlotTrue, NoneStranded, Owns, Alive
<1>8. ActionKept'
  BY ReaperAssumption
     DEF IInv, Release, ReleaseSlot, procVars, loopVars, TypeOK, PidsTrue,
       SlotsTrue, SlotTrue, NoneStranded, ActionKept, Owns
<1> QED BY <1>1, <1>2, <1>3, <1>4, <1>5, <1>6, <1>7, <1>8 DEF IInv

(* A dropped request takes its receiver along and leaves the slot. *)
LEMMA DropKeeps ==
  ASSUME IInv, NEW p \in Procs, Drop(p)
  PROVE  IInv'
<1>1. TypeOK'
  BY DEF IInv, Drop, Readerless, procVars, loopVars, TypeOK, Slot, ClientStates
<1>2. PidsTrue'
  BY DEF IInv, Drop, procVars, PidsTrue, Owns, Alive
<1>3. HandTrue'
  BY DEF IInv, Drop, procVars, loopVars, HandTrue, Delivered
<1>4. SlotsTrue'
  BY DEF IInv, Drop, Readerless, procVars, SlotsTrue, SlotTrue, Alive
<1>0. ASSUME NEW i \in Pids
      PROVE  /\ slots'[i] = NoSlot <=> slots[i] = NoSlot
             /\ slots[i] # NoSlot =>
                  slots'[i] = [slots[i] EXCEPT !.readers = @ \ {p}]
                  /\ slots[i] \in Slot
  <2>1. slots[i] # NoSlot => slots[i] \in Slot
    BY DEF IInv, TypeOK
  <2>2. slots[i] # NoSlot => [slots[i] EXCEPT !.readers = @ \ {p}] \in Slot
    BY <2>1 DEF Slot
  <2> QED BY <2>1, <2>2, ReaperAssumption DEF Drop, Readerless
<1>5. SpawnersSlot'
  <2> SUFFICES ASSUME NEW q \in Procs, client'[q] = "spawning", os[q] # "unborn"
      PROVE  /\ os[q] # "gone"
             /\ kind[q] = "init" => os[q] = "running"
             /\ Alive(q) => \/ slots'[pid[q]] = NoSlot
                            \/ /\ slots'[pid[q]].exit # NoProc
                               /\ kind[q] = "exec" => slots'[pid[q]].exit \in before'[q]
             /\ os[q] = "delivered" => slots'[pid[q]] # NoSlot /\ slots'[pid[q]].exit = q
    BY DEF SpawnersSlot, Drop, procVars, Alive
  <2>1. client[q] = "spawning" /\ before'[q] = before[q] /\ pid[q] \in Pids
    BY ReaperAssumption DEF IInv, Drop, TypeOK, PidsTrue
  <2>2. slots[pid[q]] # NoSlot => slots'[pid[q]].exit = slots[pid[q]].exit
    BY <1>0, <2>1 DEF Slot
  <2> QED BY <1>0, <2>1, <2>2 DEF IInv, SpawnersSlot
<1>6. OwnStatus'
  BY DEF IInv, Drop, OwnStatus
<1>7. NoneStranded'
  <2> SUFFICES ASSUME NEW q \in Procs, client'[q] = "holding", heard'[q] = NoProc
      PROVE  /\ Alive(q) /\ slots'[pid[q]] # NoSlot
             /\ q \in slots'[pid[q]].readers /\ slots'[pid[q]].exit = NoProc
    BY DEF NoneStranded, Drop, procVars, Alive
  <2>1. q # p /\ client[q] = "holding" /\ heard[q] = NoProc
    BY DEF IInv, Drop, TypeOK
  <2>2. Alive(q) /\ slots[pid[q]] # NoSlot /\ pid[q] \in Pids
        /\ q \in slots[pid[q]].readers /\ slots[pid[q]].exit = NoProc
    BY <2>1, ReaperAssumption DEF IInv, NoneStranded, TypeOK, PidsTrue, Alive
  <2>3. slots'[pid[q]] = [slots[pid[q]] EXCEPT !.readers = @ \ {p}]
        /\ slots[pid[q]] \in Slot /\ slots'[pid[q]] # NoSlot
    BY <1>0, <2>2
  <2>4. q \in slots'[pid[q]].readers /\ slots'[pid[q]].exit = NoProc
    BY <2>1, <2>2, <2>3 DEF Slot
  <2> QED BY <2>2, <2>3, <2>4
<1>8. ActionKept'
  BY ReaperAssumption
     DEF IInv, Drop, Readerless, procVars, loopVars, TypeOK, Slot, PidsTrue,
       ActionKept
<1> QED BY <1>1, <1>2, <1>3, <1>4, <1>5, <1>6, <1>7, <1>8 DEF IInv

(* Taking the lock changes no slot. *)
LEMMA SweepBeginKeeps ==
  ASSUME IInv, SweepBegin
  PROVE  IInv'
<1>1. TypeOK'
  BY DEF IInv, SweepBegin, procVars, clientVars, TypeOK
<1>2. PidsTrue'
  BY DEF IInv, SweepBegin, procVars, clientVars, PidsTrue, Owns, Alive
<1>3. HandTrue'
  BY DEF IInv, SweepBegin, procVars, clientVars, HandTrue, Delivered
<1>4. SlotsTrue'
  BY DEF IInv, SweepBegin, procVars, clientVars, SlotsTrue, SlotTrue, Alive
<1>5. SpawnersSlot'
  BY DEF IInv, SweepBegin, procVars, clientVars, SpawnersSlot, Alive
<1>6. OwnStatus'
  BY DEF IInv, SweepBegin, clientVars, OwnStatus
<1>7. NoneStranded'
  BY DEF IInv, SweepBegin, procVars, clientVars, NoneStranded, Alive
<1>8. ActionKept'
  BY DEF IInv, SweepBegin, procVars, clientVars, ActionKept
<1> QED BY <1>1, <1>2, <1>3, <1>4, <1>5, <1>6, <1>7, <1>8 DEF IInv

(* waitpid returns a zombie: from here to deliver it is the exit in hand. *)
LEMMA ReapKeeps ==
  ASSUME IInv, NEW p \in Procs, Reap(p)
  PROVE  IInv'
<1>1. TypeOK'
  BY DEF IInv, Reap, clientVars, TypeOK, ProcStates
<1>2. PidsTrue'
  BY DEF IInv, Reap, clientVars, PidsTrue, Owns, Alive
<1>3. HandTrue'
  BY ReaperAssumption DEF IInv, Reap, clientVars, TypeOK, HandTrue, Delivered
<1>4. SlotsTrue'
  BY DEF IInv, Reap, clientVars, SlotsTrue, SlotTrue, Alive
<1>5. SpawnersSlot'
  BY DEF IInv, Reap, clientVars, SpawnersSlot, Alive
<1>6. OwnStatus'
  BY DEF IInv, Reap, clientVars, OwnStatus
<1>7. NoneStranded'
  BY DEF IInv, Reap, clientVars, NoneStranded, Alive
<1>8. ActionKept'
  BY DEF IInv, Reap, clientVars, ActionKept
<1> QED BY <1>1, <1>2, <1>3, <1>4, <1>5, <1>6, <1>7, <1>8 DEF IInv

(* deliver settles a slot that only the exit's own process reads
   (DeliveryFinds); pruned strays have no readers. *)
LEMMA DeliverKeeps ==
  ASSUME IInv, NEW p \in Procs, Deliver(p)
  PROVE  IInv'
<1> DEFINE i == pid[p]
           s == Delivery(i)
           n == [s EXCEPT !.exit = p, !.action = NoProc]
<1>a. /\ i \in Pids /\ s \in Slot /\ s.exit = NoProc
      /\ s.readers \subseteq {p} /\ s.action \in {NoProc, p}
      /\ os[p] = "reaped" /\ (s # NewSlot(TRUE) => s = slots[i])
  BY DeliveryFinds DEF Deliver
<1>b. n \in Slot /\ n.exit = p /\ n.readers = s.readers /\ n.action = NoProc
  BY <1>a DEF Slot
<1>c. PICK old \in SUBSET Pruned(i) :
        slots' = [j \in Pids |-> IF j = i THEN n
                                 ELSE IF j \in old THEN NoSlot ELSE slots[j]]
  BY DEF Deliver
<1>d. \A q \in Procs : heard'[q] = IF q \in s.readers THEN p ELSE heard[q]
  BY DEF Deliver
<1>e. os' = [os EXCEPT ![p] = "delivered"] /\ hand' = NoProc
      /\ batch' \in {batch, batch \cup {<<p, p>>}}
      /\ UNCHANGED <<pid, kind, client, before, fired, sigchld, sweep>>
  BY <1>a DEF Deliver
<1> HIDE DEF s, n
<1>1. TypeOK'
  <2>1. slots' \in [Pids -> Slot \cup {NoSlot}]
    BY <1>b, <1>c DEF IInv, TypeOK
  <2>2. heard' \in [Procs -> Procs \cup {NoProc}]
    BY <1>d DEF IInv, TypeOK, Deliver
  <2>3. batch' \in SUBSET (Procs \X Procs)
    BY <1>e DEF IInv, TypeOK
  <2>4. os' \in [Procs -> ProcStates] /\ hand' \in Procs \cup {NoProc}
    BY <1>e DEF IInv, TypeOK, ProcStates
  <2> QED BY <1>e, <2>1, <2>2, <2>3, <2>4 DEF IInv, TypeOK
<1>2. PidsTrue'
  BY <1>a, <1>e DEF IInv, TypeOK, PidsTrue, Owns, Alive
<1>3. HandTrue'
  <2>1. \A q \in Procs : os'[q] = "reaped" <=> hand' = q
    BY <1>a, <1>e, ReaperAssumption DEF IInv, TypeOK, HandTrue
  <2>2. Delivered \subseteq Delivered'
    BY <1>e DEF IInv, TypeOK, Delivered
  <2> QED BY <1>e, <2>1, <2>2 DEF IInv, HandTrue
<1>4. SlotsTrue'
  BY ReaperAssumption
     DEF IInv, Deliver, Delivery, SettledDetached, NewSlot, TypeOK, Slot,
       PidsTrue, HandTrue, SlotsTrue, SlotTrue, Alive
<1>5. SpawnersSlot'
  <2> SUFFICES ASSUME NEW q \in Procs, client[q] = "spawning", os'[q] # "unborn"
      PROVE  /\ os'[q] # "gone"
             /\ kind[q] = "init" => os'[q] = "running"
             /\ Alive(q)' => \/ slots'[pid[q]] = NoSlot
                            \/ /\ slots'[pid[q]].exit # NoProc
                               /\ kind[q] = "exec" => slots'[pid[q]].exit \in before[q]
             /\ os'[q] = "delivered" => slots'[pid[q]] # NoSlot /\ slots'[pid[q]].exit = q
    BY <1>e DEF SpawnersSlot
  <2>1. pid[q] \in Pids /\ os[q] # "unborn"
    BY <1>a, <1>e, ReaperAssumption DEF IInv, TypeOK, PidsTrue
  <2>2. CASE q = p
    <3>1. slots'[pid[q]] = n /\ n # NoSlot
      BY <1>b, <1>c, <2>1, <2>2, ReaperAssumption
    <3> QED BY <1>a, <1>b, <1>e, <2>2, <3>1 DEF IInv, TypeOK, SpawnersSlot, Alive
  <2>3. CASE q # p
    <3>1. os'[q] = os[q] /\ pid[q] # i
      BY <1>a, <1>e, <2>1, <2>3 DEF IInv, TypeOK, PidsTrue, Owns, Alive
    <3>2. slots'[pid[q]] \in {slots[pid[q]], NoSlot}
      BY <1>c, <2>1, <3>1
    <3>3. ASSUME os[q] = "delivered" PROVE slots'[pid[q]] = slots[pid[q]]
      <4>1. slots[pid[q]].exit = q
        BY <2>1, <3>3 DEF IInv, SpawnersSlot
      <4>2. pid[q] \notin Pruned(i)
        BY <4>1 DEF Pruned, Prunable
      <4> QED BY <1>c, <2>1, <3>1, <4>2
    <3> QED BY <2>1, <3>1, <3>2, <3>3 DEF IInv, SpawnersSlot, Alive
  <2> QED BY <2>2, <2>3
<1>6. OwnStatus'
  BY DEF IInv, Deliver, Delivery, SettledDetached, NewSlot, TypeOK, PidsTrue,
       HandTrue, SlotsTrue, SlotTrue, OwnStatus, NoneStranded, Owns, Alive
<1>7. NoneStranded'
  BY ReaperAssumption
     DEF IInv, Deliver, Delivery, Pruned, SettledDetached, NewSlot, Prunable,
       TypeOK, PidsTrue, SlotsTrue, SlotTrue, NoneStranded, Alive
<1>8. ActionKept'
  BY ReaperAssumption
     DEF IInv, Deliver, Delivery, Pruned, SettledDetached, NewSlot, Prunable,
       TypeOK, PidsTrue, HandTrue, SlotsTrue, SlotTrue, ActionKept, Owns, Alive
<1> QED BY <1>1, <1>2, <1>3, <1>4, <1>5, <1>6, <1>7, <1>8 DEF IInv

(* Releasing the lock changes no slot. *)
LEMMA SweepEndKeeps ==
  ASSUME IInv, SweepEnd
  PROVE  IInv'
<1>1. TypeOK'
  BY DEF IInv, SweepEnd, procVars, clientVars, TypeOK
<1>2. PidsTrue'
  BY DEF IInv, SweepEnd, procVars, clientVars, PidsTrue, Owns, Alive
<1>3. HandTrue'
  BY DEF IInv, SweepEnd, procVars, clientVars, HandTrue, Delivered
<1>4. SlotsTrue'
  BY DEF IInv, SweepEnd, procVars, clientVars, SlotsTrue, SlotTrue, Alive
<1>5. SpawnersSlot'
  BY DEF IInv, SweepEnd, procVars, clientVars, SpawnersSlot, Alive
<1>6. OwnStatus'
  BY DEF IInv, SweepEnd, clientVars, OwnStatus
<1>7. NoneStranded'
  BY DEF IInv, SweepEnd, procVars, clientVars, NoneStranded, Alive
<1>8. ActionKept'
  BY DEF IInv, SweepEnd, procVars, clientVars, ActionKept
<1> QED BY <1>1, <1>2, <1>3, <1>4, <1>5, <1>6, <1>7, <1>8 DEF IInv

(* An action runs with the exit it was collected with. *)
LEMMA FireKeeps ==
  ASSUME IInv, Fire
  PROVE  IInv'
<1>1. TypeOK'
  BY DEF IInv, Fire, procVars, TypeOK
<1>2. PidsTrue'
  BY DEF IInv, Fire, procVars, PidsTrue, Owns, Alive
<1>3. HandTrue'
  BY DEF IInv, Fire, procVars, HandTrue, Delivered
<1>4. SlotsTrue'
  BY DEF IInv, Fire, procVars, SlotsTrue, SlotTrue, Alive
<1>5. SpawnersSlot'
  BY DEF IInv, Fire, procVars, SpawnersSlot, Alive
<1>6. OwnStatus'
  BY DEF IInv, Fire, TypeOK, HandTrue, OwnStatus
<1>7. NoneStranded'
  BY DEF IInv, Fire, procVars, NoneStranded, Alive
<1>8. ActionKept'
  BY DEF IInv, Fire, procVars, TypeOK, HandTrue, ActionKept
<1> QED BY <1>1, <1>2, <1>3, <1>4, <1>5, <1>6, <1>7, <1>8 DEF IInv

-----------------------------------------------------------------------------
(* The invariant holds when the reaper is installed. *)
LEMMA InitHolds == Init => IInv
<1> SUFFICES ASSUME Init PROVE IInv
  OBVIOUS
<1>1. TypeOK
  BY DEF Init, TypeOK, Kinds, ProcStates, ClientStates
<1>2. PidsTrue /\ HandTrue /\ SlotsTrue /\ SpawnersSlot
  BY ReaperAssumption
  DEF Init, PidsTrue, Owns, Alive, HandTrue, Delivered, SlotsTrue, SpawnersSlot
<1>3. OwnStatus /\ NoneStranded /\ ActionKept
  BY DEF Init, OwnStatus, NoneStranded, ActionKept
<1> QED BY <1>1, <1>2, <1>3 DEF IInv

(* Every step keeps the invariant. *)
LEMMA StepKeeps == IInv /\ [Next]_vars => IInv'
<1> SUFFICES ASSUME IInv, [Next]_vars PROVE IInv'
  OBVIOUS
<1>1. CASE LoopStep
  BY <1>1, SweepBeginKeeps, SweepEndKeeps, FireKeeps, ReapKeeps, DeliverKeeps
  DEF LoopStep
<1>2. ASSUME NEW p \in Procs, SpawnerStep(p) PROVE IInv'
  BY <1>2, BeginSpawnKeeps, RegisterKeeps, OnExitKeeps, HandleFailedKeeps,
     ReleaseKeeps, DropKeeps, SelfWaitKeeps
  DEF SpawnerStep
<1>3. ASSUME NEW p \in Procs, KernelStep(p) PROVE IInv'
  BY <1>3, ForkKeeps, OrphanKeeps, SelfSpawnKeeps, ExitKeeps DEF KernelStep
<1>4. CASE UNCHANGED vars
  BY <1>4 DEF IInv, TypeOK, PidsTrue, Owns, Alive, HandTrue, Delivered,
     SlotsTrue, SlotTrue, SpawnersSlot, OwnStatus, NoneStranded, ActionKept,
     vars, procVars, clientVars, loopVars
<1> QED BY <1>1, <1>2, <1>3, <1>4 DEF Next

(* The conjunction of the named invariants holds always: who owns a pid,
   what a slot under it may hold, and who reads it. *)
THEOREM ReaperInvariance == Spec => []IInv
<1> QED BY InitHolds, StepKeeps, PTL DEF Spec

(* Every variable stays in its domain: the registry holds slots of the     *)
(* processes there are, and the loop never has two exits in hand.          *)
THEOREM ReaperTypes == Spec => []TypeOK
<1>1. IInv => TypeOK
  BY DEF IInv
<1> QED BY <1>1, ReaperInvariance, PTL

(* A waiter reads, and an init's action is given, only the exit of its own *)
(* process: ExitSlot::get never answers with that of another owner of the  *)
(* pid, for any number of processes, pids and reuses.                      *)
THEOREM StatusIsOwn == Spec => []OwnStatus
<1>1. IInv => OwnStatus
  BY DEF IInv
<1> QED BY <1>1, ReaperInvariance, PTL

(* register, deliver, prune_stale and release_slot never take away the     *)
(* slot of a holder that has yet to hear its exit.                         *)
THEOREM HoldersHear == Spec => []NoneStranded
<1>1. IInv => NoneStranded
  BY DEF IInv
<1> QED BY <1>1, ReaperInvariance, PTL

(* The follow-up on_exit took for an init is parked, in a sweep's batch or *)
(* done as long as the session is held.                                    *)
THEOREM ActionsStay == Spec => []ActionKept
<1>1. IInv => ActionKept
  BY DEF IInv
<1> QED BY <1>1, ReaperInvariance, PTL

(* A helper waited for under the fence is out of the sweep's reach ...     *)
Fenced == \A p \in Procs : client[p] = "fenced" /\ kind[p] = "self" =>
            os[p] \in {"running", "zombie"} /\ sweep # "sweeping"
(* ... so reap_fence() taken before the spawn keeps the child for its      *)
(* spawner, for any number of fenced spawners and of exits per sweep.      *)
THEOREM FenceHolds == Spec => []NeverRobbed
<1> DEFINE Inv == IInv /\ Fenced /\ NeverRobbed
<1>1. Init => Inv
  BY InitHolds DEF Init, Fenced, NeverRobbed
<1>2. Inv /\ [Next]_vars => Inv'
  <2> SUFFICES ASSUME Inv, [Next]_vars PROVE Fenced' /\ NeverRobbed'
    BY StepKeeps
  <2> USE DEF IInv, TypeOK, Fenced, NeverRobbed
  <2>1. CASE LoopStep
    <3>1. CASE SweepBegin
      BY <3>1 DEF SweepBegin, LockFree, Fence, clientVars, procVars
    <3>2. CASE SweepEnd
      BY <3>2 DEF SweepEnd, clientVars, procVars
    <3>3. CASE Fire
      BY <3>3 DEF Fire, procVars
    <3>4. ASSUME NEW p \in Procs, Reap(p) PROVE Fenced' /\ NeverRobbed'
      BY <3>4 DEF Reap, clientVars
    <3>5. ASSUME NEW p \in Procs, Deliver(p) PROVE Fenced' /\ NeverRobbed'
      BY <3>5 DEF Deliver, HandTrue
    <3> QED BY <2>1, <3>1, <3>2, <3>3, <3>4, <3>5 DEF LoopStep
  <2>2. ASSUME NEW p \in Procs, SpawnerStep(p) PROVE Fenced' /\ NeverRobbed'
    <3>1. ASSUME NEW k \in {"exec", "init"}, BeginSpawn(p, k)
          PROVE  Fenced' /\ NeverRobbed'
      BY <3>1 DEF BeginSpawn, PidsTrue, procVars, loopVars
    <3>2. CASE Register(p)
      BY <3>2 DEF Register, procVars, loopVars
    <3>3. CASE OnExit(p)
      BY <3>3 DEF OnExit, procVars, loopVars
    <3>4. CASE Release(p)
      BY <3>4 DEF Release, procVars, loopVars
    <3>5. CASE Drop(p)
      BY <3>5 DEF Drop, procVars, loopVars
    <3>6. CASE SelfWait(p)
      BY <3>6 DEF SelfWait, loopVars
    <3>7. CASE HandleFailed(p)
      BY <3>7 DEF HandleFailed, PidsTrue, procVars, loopVars
    <3> QED BY <2>2, <3>1, <3>2, <3>3, <3>4, <3>5, <3>6, <3>7 DEF SpawnerStep
  <2>3. ASSUME NEW p \in Procs, KernelStep(p) PROVE Fenced' /\ NeverRobbed'
    <3>1. ASSUME NEW i \in Pids, Fork(p, i) \/ Orphan(p, i) \/ SelfSpawn(p, i)
          PROVE  Fenced' /\ NeverRobbed'
      BY <3>1 DEF Fork, Orphan, SelfSpawn, Born, clientVars, loopVars
    <3>2. CASE Exit(p)
      BY <3>2 DEF Exit, clientVars
    <3> QED BY <2>3, <3>1, <3>2 DEF KernelStep
  <2>4. CASE UNCHANGED vars
    BY <2>4 DEF vars, procVars, clientVars, loopVars
  <2> QED BY <2>1, <2>2, <2>3, <2>4 DEF Next
<1>3. Inv => NeverRobbed
  OBVIOUS
<1> QED BY <1>1, <1>2, <1>3, PTL DEF Spec
=============================================================================
