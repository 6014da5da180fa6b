------------------------- MODULE ExecRegistryProofs -------------------------
(***************************************************************************)
(* Theorems about ExecRegistry, for every set of executions, clients and   *)
(* closers, every load and every cap.                                      *)
(***************************************************************************)
EXTENDS ExecRegistryProperties, FiniteSetTheorems, TLAPS

(* Who is where: only tenants reserve and only timed ones are armed, and a    *)
(* call that is under way names its execution.                               *)
Placed ==
  /\ \A e \in Execs : /\ entry[e] = "reserved" => e \in Tenants
                      /\ request[e] = "arming" => e \in Timed
  /\ \A c \in Clients : client[c].pc \notin {"idle", "cut"} => client[c].exec \in Execs
Typed == TypeOK /\ Placed
(* A request that has not spawned has touched nothing but its reservation ... *)
Fresh(e) == /\ proc[e] = "none" /\ slot[e] = "none"
            /\ entry[e] \in {"none", "reserved"}
Unseen(e) == /\ verdict[e] = "none" /\ observer[e] = "none"
             /\ e \notin owed /\ e \notin released
(* ... and one that has not published is known to nobody: only shutdown takes *)
(* its reservation away before it is dropped.                                *)
RequestsTrue ==
  \A e \in Execs :
    /\ request[e] \in {"idle", "spawning"} => Fresh(e)
    /\ request[e] \in {"idle", "spawning", "spawned", "refused"} => Unseen(e)
    /\ request[e] \in {"spawned", "refused"} => entry[e] \in {"none", "reserved"}
    /\ request[e] \in {"spawning", "spawned"} => AdmittedWhileClosing(e) \/ closing
    /\ request[e] = "refused" => closing
    /\ e \in unreserve => request[e] = "dropped"
    /\ observer[e] # "none" => request[e] = "done"
(* A settled slot is that of a dead process; the exit of a session that is   *)
(* given up was settled, unless shutdown took it.                            *)
SlotsTrue ==
  \A e \in Execs :
    /\ slot[e] = "settled" => ~Alive(e)
    /\ slot[e] = "lost" => closing /\ e \in released
    /\ slot[e] = "pending" /\ e \in owed => closing
(* A verdict was read from the slot; an observer past the exit has made it,  *)
(* and with it the entries that are kept.                                    *)
VerdictsTrue ==
  \A e \in Execs :
    /\ verdict[e] # "none" => slot[e] \in {"settled", "lost"}
    /\ verdict[e] = "lost" => slot[e] = "lost"
    /\ observer[e] \in {"output", "retain", "done"} => verdict[e] # "none"
    /\ e \in Kept => verdict[e] # "none"
(* A call is on a published execution; a Wait is told its verdict.           *)
AnswersTrue ==
  \A c \in Clients :
    /\ client[c].pc \notin {"idle", "cut"} =>
         /\ request[client[c].exec] \in {"arming", "done", "dropped"}
         /\ c \in load.clients
    /\ client[c].pc = "answered" =>
         client[c].got = verdict[client[c].exec] /\ client[c].got # "none"
(* Shutdown: what is live when it has terminated it names, what it has       *)
(* killed is doomed, and nobody else gives up a process that may run on.     *)
Published(e) == request[e] \in {"arming", "done"}
Runs(e) == e \notin Inits /\ Alive(e) /\ proc[e] # "doomed"
ClosersTrue ==
  /\ \A k \in Closers :
       /\ closer[k].pc # "idle" => closing
       /\ closer[k].pc = "term" =>
            \A e \in Execs : Runs(e) /\ entry[e] = "live" => e \in closer[k].targets
       /\ closer[k].pc \in {"take", "release", "done"} =>
            \A e \in Execs : Runs(e) => entry[e] # "live"
  /\ \A e \in Execs : Runs(e) => e \notin owed /\ e \notin released
  /\ \A e \in Execs : Runs(e) /\ Published(e) => entry[e] = "live"
(* Who has a session's lease reads it, and its forwarder is the reader's.    *)
LeasesTrue ==
  /\ \A e \in Execs : lease[e] # NoClient =>
       client[lease[e]].pc \in {"leased", "streaming"} /\ client[lease[e]].exec = e
  /\ \A e \in Execs : forwarder[e] # NoClient => lease[e] = forwarder[e]
  /\ \A c \in Clients : client[c].pc \in {"leased", "streaming"} =>
       lease[client[c].exec] = c
(* The kept sessions are ordered by their last access.                       *)
RanksTrue == older \in Orders(Kept)

IInv == /\ Typed /\ RequestsTrue /\ SlotsTrue /\ VerdictsTrue /\ AnswersTrue
        /\ ReleasedHoldsNothing /\ ClosersTrue /\ LeasesTrue /\ RanksTrue

-----------------------------------------------------------------------------
(* The order of access. *)

(* A part of an order is an order ...                                        *)
LEMMA OrderRestricted ==
  ASSUME NEW S, NEW T \in SUBSET S, NEW o \in Orders(S)
  PROVE  o \cap (T \X T) \in Orders(T)
BY DEF Orders

(* ... and so is one to which the sessions of `es` are added as the latest.  *)
LEMMA OrderAccessed ==
  ASSUME NEW S, NEW es, NEW o \in Orders(S), NEW among \in Orders(es)
  PROVE  Accessed(o, S, es, among) \in Orders(S \cup es)
<1> DEFINE rest == S \ es
           new == (o \cap (rest \X rest)) \cup (rest \X es) \cup among
<1>1. among \in SUBSET (es \X es) /\ o \in SUBSET (S \X S)
  BY DEF Orders
<1>2. \A x, y \in S \cup es :
        <<x, y>> \in new <=> \/ x \in rest /\ y \in rest /\ <<x, y>> \in o
                             \/ x \in rest /\ y \in es
                             \/ x \in es /\ y \in es /\ <<x, y>> \in among
  <2> TAKE x, y \in S \cup es
  <2>1. <<x, y>> \in o \cap (rest \X rest) <=> x \in rest /\ y \in rest /\ <<x, y>> \in o
    OBVIOUS
  <2>2. <<x, y>> \in rest \X es <=> x \in rest /\ y \in es
    OBVIOUS
  <2>3. <<x, y>> \in among <=> x \in es /\ y \in es /\ <<x, y>> \in among
    BY <1>1
  <2>4. <<x, y>> \in new <=> \/ <<x, y>> \in o \cap (rest \X rest)
                             \/ <<x, y>> \in rest \X es \/ <<x, y>> \in among
    <3> HIDE DEF rest
    <3> QED BY Zenon
  <2> HIDE DEF rest, new
  <2> QED BY <2>1, <2>2, <2>3, <2>4, Zenon
<1>3. new \in SUBSET ((S \cup es) \X (S \cup es))
  BY <1>1
<1>4. \A x, y \in S : /\ x # y => (<<x, y>> \in o <=> <<y, x>> \notin o)
                      /\ <<x, x>> \notin o
                      /\ \A z \in S : <<x, y>> \in o /\ <<y, z>> \in o => <<x, z>> \in o
  BY DEF Orders
<1>5. \A x, y \in es : /\ x # y => (<<x, y>> \in among <=> <<y, x>> \notin among)
                       /\ <<x, x>> \notin among
                       /\ \A z \in es : <<x, y>> \in among /\ <<y, z>> \in among
                                         => <<x, z>> \in among
  BY DEF Orders
<1>6. ASSUME NEW x \in S \cup es, NEW y \in S \cup es
      PROVE  /\ x # y => (<<x, y>> \in new <=> <<y, x>> \notin new)
             /\ <<x, x>> \notin new
             /\ \A z \in S \cup es : <<x, y>> \in new /\ <<y, z>> \in new
                                      => <<x, z>> \in new
  <2>1. /\ (<<x, y>> \in new <=> \/ x \in rest /\ y \in rest /\ <<x, y>> \in o
                                 \/ x \in rest /\ y \in es
                                 \/ x \in es /\ y \in es /\ <<x, y>> \in among)
        /\ (<<y, x>> \in new <=> \/ y \in rest /\ x \in rest /\ <<y, x>> \in o
                                 \/ y \in rest /\ x \in es
                                 \/ y \in es /\ x \in es /\ <<y, x>> \in among)
        /\ (<<x, x>> \in new <=> \/ x \in rest /\ x \in rest /\ <<x, x>> \in o
                                 \/ x \in rest /\ x \in es
                                 \/ x \in es /\ x \in es /\ <<x, x>> \in among)
    <3> HIDE DEF new, rest
    <3> QED BY <1>2
  <2>2. (x # y => (<<x, y>> \in new <=> <<y, x>> \notin new)) /\ <<x, x>> \notin new
    <3>1. x \in rest => x \in S /\ x \notin es
      OBVIOUS
    <3>2. y \in rest => y \in S /\ y \notin es
      OBVIOUS
    <3>3. (x \in es \/ x \in S) /\ (y \in es \/ y \in S)
      OBVIOUS
    <3> HIDE DEF new, rest
    <3>4. CASE x \in es /\ y \in es
      BY <3>4, <2>1, <1>5, <3>1, <3>2
    <3>5. CASE x \in es /\ y \notin es
      BY <3>5, <2>1, <1>5, <3>1, <3>2, <3>3 DEF rest
    <3>6. CASE x \notin es /\ y \in es
      BY <3>6, <2>1, <1>4, <1>5, <3>1, <3>2, <3>3 DEF rest
    <3>7. CASE x \notin es /\ y \notin es
      BY <3>7, <2>1, <1>4, <1>5, <3>1, <3>2, <3>3 DEF rest
    <3> QED BY <3>4, <3>5, <3>6, <3>7
  <2>3. ASSUME NEW z \in S \cup es, <<x, y>> \in new, <<y, z>> \in new
        PROVE  <<x, z>> \in new
    <3>1. /\ \/ x \in rest /\ y \in rest /\ <<x, y>> \in o
             \/ x \in rest /\ y \in es
             \/ x \in es /\ y \in es /\ <<x, y>> \in among
          /\ \/ y \in rest /\ z \in rest /\ <<y, z>> \in o
             \/ y \in rest /\ z \in es
             \/ y \in es /\ z \in es /\ <<y, z>> \in among
      <4> HIDE DEF new, rest
      <4> QED BY <1>2, <2>3
    <3>2. \/ x \in rest /\ z \in rest /\ <<x, z>> \in o
          \/ x \in rest /\ z \in es
          \/ x \in es /\ z \in es /\ <<x, z>> \in among
      <4> HIDE DEF new
      <4> QED BY <3>1, <1>4, <1>5
    <3> HIDE DEF new, rest
    <3> QED BY <3>2, <1>2, Zenon
  <2> QED BY <2>2, <2>3
<1>7. new \in Orders(S \cup es)
  <2> HIDE DEF new
  <2> QED BY <1>3, <1>6 DEF Orders
<1> QED BY <1>7 DEF Accessed

-----------------------------------------------------------------------------
(* Typing. *)

LEMMA TypedInitially == Init => TypeOK
<1> SUFFICES ASSUME Init PROVE TypeOK
  OBVIOUS
<1>1. /\ entry \in [Execs -> {"none", "reserved", "live", "retained", "tombstone"}]
      /\ request \in [Execs -> {"idle", "spawning", "spawned", "refused", "arming",
                                "done", "dropped"}]
      /\ proc \in [Execs -> {"none", "running", "termed", "doomed", "exited", "slain"}]
      /\ slot \in [Execs -> {"none", "pending", "settled", "lost"}]
      /\ verdict \in [Execs -> Answers]
      /\ drain \in [Execs -> {"open", "ended", "failed", "aborted"}]
  BY DEF Init, Answers
<1>2. /\ lease \in [Execs -> Clients \cup {NoClient}]
      /\ forwarder \in [Execs -> Clients \cup {NoClient}]
      /\ stdin \in [Execs -> {"held", "loose", "tracked", "closed"}]
      /\ timer \in [Execs -> {"none", "waiting", "grace", "gone"}]
      /\ observer \in [Execs -> {"none", "new", "exit", "output", "retain", "done"}]
  BY DEF Init
<1>3. client \in [Clients ->
         [pc : {"idle", "live", "kept", "leased", "streaming", "cut", "waiting",
                "answered", "killing"},
          exec : Execs \cup {NoClient}, got : Answers]]
  BY DEF Init, Idle, Answers
<1>4. closer \in [Closers ->
         [pc : {"idle", "joining", "collect", "term", "take", "release", "done"},
          targets : SUBSET Execs]]
  BY DEF Init
<1> QED BY <1>1, <1>2, <1>3, <1>4 DEF Init, TypeOK

LEMMA PlacedInitially == Init => Placed
BY DEF Init, Placed, Idle

(* Of what a retirement leaves behind: entries, order and expiries.          *)
LEMMA RetireTyped ==
  ASSUME TypeOK, NEW dead \in SUBSET Execs, NEW gone, NEW kept,
         NEW held \in SUBSET Execs, NEW order \in SUBSET (Execs \X Execs),
         NEW among \in SUBSET (Execs \X Execs),
         Retire(dead, gone, kept, held, order, among)
  PROVE  /\ entry' \in [Execs -> {"none", "reserved", "live", "retained", "tombstone"}]
         /\ older' \subseteq Execs \X Execs
         /\ aged' \subseteq Execs
<1> DEFINE after == Accessed(order, held, dead, among)
           graves == (Entries("tombstone") \ gone) \cup dead
           over == Oldest(Excess(graves, MaxTombstones), graves, after)
           left == (held \cup dead) \ (gone \cup over)
<1>1. /\ entry' = [e \in Execs |->
           IF e \in gone \cup over THEN "none"
           ELSE IF e \in dead THEN "tombstone"
           ELSE IF e \in kept THEN "retained" ELSE entry[e]]
      /\ older' = after \cap (left \X left)
      /\ aged' = aged \ (dead \cup gone \cup over)
  BY DEF Retire
<1> HIDE DEF after, over, left
<1>2. entry' \in [Execs -> {"none", "reserved", "live", "retained", "tombstone"}]
  BY <1>1 DEF TypeOK
<1>3. after \subseteq Execs \X Execs
  BY DEF after, Accessed
<1> QED BY <1>1, <1>2, <1>3 DEF TypeOK

(* ... and what it does to one entry.                                        *)
LEMMA RetireMoves ==
  ASSUME TypeOK, NEW dead, NEW gone, NEW kept, NEW held, NEW order, NEW among,
         Retire(dead, gone, kept, held, order, among), NEW e \in Execs
  PROVE  \/ entry'[e] = entry[e]
         \/ entry'[e] = "none" /\ (e \in gone \/ e \in dead \/ entry[e] = "tombstone")
         \/ entry'[e] = "tombstone" /\ e \in dead
         \/ entry'[e] = "retained" /\ e \in kept
<1> DEFINE after == Accessed(order, held, dead, among)
           graves == (Entries("tombstone") \ gone) \cup dead
           over == Oldest(Excess(graves, MaxTombstones), graves, after)
<1>1. entry' = [f \in Execs |->
           IF f \in gone \cup over THEN "none"
           ELSE IF f \in dead THEN "tombstone"
           ELSE IF f \in kept THEN "retained" ELSE entry[f]]
  BY DEF Retire
<1>2. e \in over => e \in dead \/ entry[e] = "tombstone"
  <2> HIDE DEF after
  <2> QED BY DEF Oldest, Entries
<1> HIDE DEF over
<1> QED BY <1>1, <1>2

LEMMA RequestTyped ==
  ASSUME Typed, NEW e \in Execs,
         Begin(e) \/ RequestSteps(e) \/ ReleaseReserved(e)
  PROVE  TypeOK'
<1> USE DEF Typed, TypeOK, registryVars, requestVars, procVars, outputVars, stateVars,
            taskVars, callVars
<1>1. CASE Begin(e)
  BY <1>1 DEF Begin
<1>2. CASE Spawn(e)
  BY <1>2 DEF Spawn
<1>3. CASE Reject(e)
  BY <1>3 DEF Reject
<1>4. CASE SpawnFails(e)
  BY <1>4 DEF SpawnFails
<1>5. CASE Publish(e)
  <2>1. CASE e \in Timed /\ proc[e] # "none"
    <3>1. entry' \in [Execs -> {"none", "reserved", "live", "retained", "tombstone"}]
      BY <1>5 DEF Publish
    <3>2. timer' \in [Execs -> {"none", "waiting", "grace", "gone"}]
      BY <1>5, <2>1 DEF Publish
    <3>3. request' \in [Execs -> {"idle", "spawning", "spawned", "refused", "arming",
                                  "done", "dropped"}]
      BY <1>5, <2>1 DEF Publish
    <3> QED BY <1>5, <2>1, <3>1, <3>2, <3>3 DEF Publish
  <2>2. CASE ~(e \in Timed /\ proc[e] # "none")
    BY <1>5, <2>2 DEF Publish
  <2> QED BY <2>1, <2>2
<1>6. CASE Track(e)
  <2>1. CASE e \in released
    BY <1>6, <2>1 DEF Track
  <2>2. CASE e \notin released
    BY <1>6, <2>2 DEF Track, Placed
  <2> QED BY <2>1, <2>2
<1>7. CASE Refuse(e)
  BY <1>7 DEF Refuse
<1>8. CASE AbortUnpublished(e)
  BY <1>8 DEF AbortUnpublished, Signalled
<1>9. CASE DropRequest(e)
  <2>1. proc' \in [Execs -> {"none", "running", "termed", "doomed", "exited", "slain"}]
    BY <1>9 DEF DropRequest
  <2>2. unreserve' \subseteq Tenants
    BY <1>9 DEF DropRequest, Unreserved, Placed
  <2> QED BY <1>9, <2>1, <2>2 DEF DropRequest
<1>10. CASE ReleaseReserved(e)
  BY <1>10 DEF ReleaseReserved
<1> QED BY <1>1, <1>2, <1>3, <1>4, <1>5, <1>6, <1>7, <1>8, <1>9, <1>10
        DEF RequestSteps

LEMMA SystemTyped ==
  ASSUME Typed, NEW e \in Execs,
         SystemSteps(e) \/ TimerSteps(e) \/ StdinSteps(e) \/ SshSignals(e)
         \/ SshReleases(e)
  PROVE  TypeOK'
<1> USE DEF Typed, TypeOK, registryVars, requestVars, procVars, outputVars, stateVars,
            taskVars, callVars
<1>1. CASE ProcExits(e)
  BY <1>1 DEF ProcExits
<1>2. CASE Settle(e)
  BY <1>2 DEF Settle
<1>3. CASE DrainEnds(e)
  BY <1>3 DEF DrainEnds
<1>4. CASE Expire(e)
  BY <1>4 DEF Expire
<1>5. CASE Deadline(e)
  BY <1>5 DEF Deadline
<1>6. CASE DeadlineKill(e)
  BY <1>6 DEF DeadlineKill
<1>7. CASE TakeStdin(e)
  BY <1>7 DEF TakeStdin
<1>8. CASE TrackStdin(e)
  BY <1>8 DEF TrackStdin
<1>9. CASE StdinEnds(e)
  BY <1>9 DEF StdinEnds
<1>10. CASE SshSignals(e)
  BY <1>10 DEF SshSignals, Signalled
<1>11. CASE SshReleases(e)
  BY <1>11 DEF SshReleases
<1> QED BY <1>1, <1>2, <1>3, <1>4, <1>5, <1>6, <1>7, <1>8, <1>9, <1>10, <1>11
        DEF SystemSteps, TimerSteps, StdinSteps

LEMMA VerdictTyped ==
  ASSUME TypeOK, NEW e \in Execs
  PROVE  Verdict(e) \in Answers
BY DEF TypeOK, Verdict, Classified, Answers

LEMMA TouchTyped ==
  ASSUME TypeOK, NEW e \in Execs
  PROVE  Touch(e) \in SUBSET (Execs \X Execs)
BY DEF TypeOK, Touch, Accessed, Kept, Entries

LEMMA ObserverTyped ==
  ASSUME Typed, NEW e \in Execs, ObserverSteps(e)
  PROVE  TypeOK'
<1> USE DEF Typed, registryVars, requestVars, procVars, outputVars, stateVars,
            taskVars, callVars
<1>1. CASE ObserverStarts(e)
  BY <1>1 DEF ObserverStarts, TypeOK
<1>2. CASE ObserverSeesExit(e)
  BY <1>2, VerdictTyped DEF ObserverSeesExit, TypeOK
<1>3. CASE ObserverSeals(e)
  BY <1>3 DEF ObserverSeals, TypeOK
<1>4. CASE Retain(e)
  <2>1. observer' \in [Execs -> {"none", "new", "exit", "output", "retain", "done"}]
    BY <1>4 DEF Retain, TypeOK
  <2>2. CASE closing \/ entry[e] # "live"
    BY <1>4, <2>1, <2>2 DEF Retain, TypeOK
  <2>3. CASE ~(closing \/ entry[e] # "live")
    <3> DEFINE dead == IF drain[e] = "failed" THEN {e}
                       ELSE Evicted(Entries("retained") \cup {e}, Touch(e))
    <3>1. dead \in SUBSET Execs
      BY DEF Evicted, Oldest, Entries
    <3>2. Kept \cup {e} \in SUBSET Execs
      BY DEF Kept, Entries
    <3>3. /\ Retire(dead, {}, {e}, Kept \cup {e}, Touch(e),
                    Touch(e) \cap (dead \X dead))
          /\ owed' = owed \cup dead
      BY <1>4, <2>3 DEF Retain
    <3> HIDE DEF dead
    <3>4. /\ entry' \in [Execs -> {"none", "reserved", "live", "retained", "tombstone"}]
          /\ older' \subseteq Execs \X Execs
          /\ aged' \subseteq Execs
      BY <3>1, <3>2, <3>3, TouchTyped, RetireTyped
    <3> QED BY <1>4, <2>1, <3>1, <3>3, <3>4 DEF Retain, TypeOK
  <2> QED BY <2>2, <2>3
<1> QED BY <1>1, <1>2, <1>3, <1>4 DEF ObserverSteps

LEMMA ReleaseTyped ==
  ASSUME Typed, NEW e \in Execs, Release(e)
  PROVE  TypeOK'
<1> USE DEF Typed, TypeOK
<1>1. released' \subseteq Execs /\ tracked' \subseteq Timed
  BY DEF Release, Releases
<1>2. client' \in [Clients ->
       [pc : {"idle", "live", "kept", "leased", "streaming", "cut", "waiting",
              "answered", "killing"},
        exec : Execs \cup {NoClient}, got : Answers]]
  BY DEF Release, Releases, Idle, Answers
<1>3. /\ lease' \in [Execs -> Clients \cup {NoClient}]
      /\ forwarder' \in [Execs -> Clients \cup {NoClient}]
  BY DEF Release, Releases
<1>4. /\ stdin' \in [Execs -> {"held", "loose", "tracked", "closed"}]
      /\ timer' \in [Execs -> {"none", "waiting", "grace", "gone"}]
      /\ drain' \in [Execs -> {"open", "ended", "failed", "aborted"}]
      /\ slot' \in [Execs -> {"none", "pending", "settled", "lost"}]
  BY DEF Release, Releases
<1> QED BY <1>1, <1>2, <1>3, <1>4 DEF Release, requestVars

LEMMA ManagerTyped ==
  ASSUME Typed, Prune \/ ManagerStops
  PROVE  TypeOK'
<1> USE DEF Typed, registryVars, requestVars, procVars, outputVars, stateVars,
            taskVars, callVars
<1>1. CASE Prune
  <2>1. PICK among \in Orders(Expired) :
          Retire(Expired, Entries("tombstone") \cap aged, {}, Kept, older, among)
    BY <1>1 DEF Prune
  <2>2. Expired \in SUBSET Execs /\ Kept \in SUBSET Execs
    BY DEF Expired, Kept, Entries, TypeOK
  <2>3. older \in SUBSET (Execs \X Execs) /\ among \in SUBSET (Execs \X Execs)
    BY <2>2 DEF TypeOK, Orders
  <2>4. /\ entry' \in [Execs -> {"none", "reserved", "live", "retained", "tombstone"}]
        /\ older' \subseteq Execs \X Execs
        /\ aged' \subseteq Execs
    BY <2>1, <2>2, <2>3, RetireTyped
  <2> QED BY <1>1, <2>2, <2>4 DEF Prune, TypeOK
<1>2. CASE ManagerStops
  BY <1>2 DEF ManagerStops, TypeOK
<1> QED BY <1>1, <1>2

(* A call goes on with the same execution.                                   *)
CallState == [pc : {"idle", "live", "kept", "leased", "streaming", "cut", "waiting",
                    "answered", "killing"},
              exec : Execs \cup {NoClient}, got : Answers]
LEMMA CallMoves ==
  ASSUME NEW r \in CallState
  PROVE  /\ Idle \in CallState
         /\ \A pc \in {"idle", "live", "kept", "leased", "streaming", "cut", "waiting",
                       "answered", "killing"} :
              /\ [r EXCEPT !.pc = pc] \in CallState
              /\ \A got \in Answers : [r EXCEPT !.pc = pc, !.got = got] \in CallState
BY DEF CallState, Idle, Answers

LEMMA ClientTyped ==
  ASSUME Typed, NEW c \in Clients, ClientSteps(c)
  PROVE  TypeOK'
<1> USE DEF Typed, registryVars, requestVars, procVars, outputVars, stateVars,
            taskVars, callVars
<1>1. CASE \E e \in Execs : LookupAttach(c, e) \/ LookupWait(c, e) \/ LookupKill(c, e)
  <2>1. PICK e \in Execs : LookupAttach(c, e) \/ LookupWait(c, e) \/ LookupKill(c, e)
    BY <1>1
  <2>2. Looks(e) /\ OnlyClient
    BY <2>1 DEF LookupAttach, LookupWait, LookupKill
  <2>3. older' \subseteq Execs \X Execs
    BY <2>2, TouchTyped DEF Looks, TypeOK
  <2>4. client' \in [Clients ->
       [pc : {"idle", "live", "kept", "leased", "streaming", "cut", "waiting",
              "answered", "killing"},
        exec : Execs \cup {NoClient}, got : Answers]]
    BY <2>1 DEF LookupAttach, LookupWait, LookupKill, Call, TypeOK, Answers
  <2> QED BY <2>2, <2>3, <2>4 DEF Looks, OnlyClient, TypeOK
<1>2. CASE Answer(c)
  <2>1. client[c].exec \in Execs
    BY <1>2 DEF Answer, Placed
  <2>2. Verdict(client[c].exec) \in Answers
    BY <2>1, VerdictTyped
  <2>3. client[c] \in CallState /\ client \in [Clients -> CallState]
    BY DEF TypeOK, CallState
  <2>4. client' \in [Clients -> CallState]
    BY <1>2, <2>2, <2>3, CallMoves DEF Answer
  <2>5. verdict' \in [Execs -> Answers]
    BY <1>2, <2>2 DEF Answer, TypeOK
  <2> QED BY <1>2, <2>4, <2>5 DEF Answer, TypeOK, CallState
<1>3. CASE Kill(c)
  BY <1>3 DEF Kill, TypeOK, Signalled, Idle, Answers
<1>4. CASE Attach(c)
  <2>1. client[c] \in CallState /\ client \in [Clients -> CallState]
    BY DEF TypeOK, CallState
  <2>2. client' \in [Clients -> CallState]
    BY <1>4, <2>1, CallMoves DEF Attach
  <2>3. lease' \in [Execs -> Clients \cup {NoClient}]
    BY <1>4 DEF Attach, TypeOK
  <2> QED BY <1>4, <2>2, <2>3 DEF Attach, TypeOK, CallState
<1>5. CASE Stream(c)
  <2>1. client[c] \in CallState /\ client \in [Clients -> CallState]
    BY DEF TypeOK, CallState
  <2>2. client' \in [Clients -> CallState]
    BY <1>5, <2>1, CallMoves DEF Stream
  <2>3. /\ lease' \in [Execs -> Clients \cup {NoClient}]
        /\ forwarder' \in [Execs -> Clients \cup {NoClient}]
    BY <1>5 DEF Stream, TypeOK
  <2> QED BY <1>5, <2>2, <2>3 DEF Stream, TypeOK, CallState
<1>6. CASE StreamEnds(c) \/ HangUp(c)
  <2>1. Detach(c)
    BY <1>6 DEF StreamEnds, HangUp
  <2>2. client[c] \in CallState /\ client \in [Clients -> CallState]
    BY DEF TypeOK, CallState
  <2>3. client' \in [Clients -> CallState]
    BY <2>1, <2>2, CallMoves DEF Detach
  <2>4. /\ lease' \in [Execs -> Clients \cup {NoClient}]
        /\ forwarder' \in [Execs -> Clients \cup {NoClient}]
    BY <2>1 DEF Detach, TypeOK
  <2> QED BY <2>1, <2>3, <2>4 DEF Detach, TypeOK, CallState
<1>7. CASE Forget(c)
  BY <1>7 DEF Forget, OnlyClient, TypeOK, Idle, Answers
<1> QED BY <1>1, <1>2, <1>3, <1>4, <1>5, <1>6, <1>7 DEF ClientSteps, Serve

LEMMA CloserTyped ==
  ASSUME Typed, NEW k \in Closers, CloseBegins(k) \/ Close(k)
  PROVE  TypeOK'
<1> USE DEF Typed, TypeOK, registryVars, requestVars, procVars, outputVars, stateVars,
            taskVars, callVars, Step
<1>1. CASE CloseBegins(k)
  BY <1>1 DEF CloseBegins
<1>2. CASE CloseJoins(k)
  BY <1>2 DEF CloseJoins
<1>3. CASE CloseTerminates(k)
  BY <1>3 DEF CloseTerminates, Signalled, Entries
<1>4. CASE CloseKills(k)
  BY <1>4 DEF CloseKills, Signalled
<1>5. CASE CloseTakes(k)
  BY <1>5 DEF CloseTakes, Entries
<1>6. CASE CloseEnds(k)
  BY <1>6 DEF CloseEnds
<1> QED BY <1>1, <1>2, <1>3, <1>4, <1>5, <1>6 DEF Close

(* Who is where after a step: entries are reserved, and requests armed, by   *)
(* their own actions; a call keeps its execution.                            *)
LEMMA PlacedRequest ==
  ASSUME Typed, NEW e \in Execs,
         Begin(e) \/ RequestSteps(e) \/ ReleaseReserved(e)
  PROVE  Placed'
<1> USE DEF Typed, TypeOK, Placed, callVars
<1>1. CASE Begin(e)
  BY <1>1 DEF Begin
<1>2. CASE Spawn(e)
  BY <1>2 DEF Spawn, registryVars
<1>3. CASE Reject(e)
  BY <1>3 DEF Reject, registryVars
<1>4. CASE SpawnFails(e)
  BY <1>4 DEF SpawnFails
<1>5. CASE Publish(e)
  BY <1>5 DEF Publish
<1>6. CASE Track(e)
  BY <1>6 DEF Track, registryVars
<1>7. CASE Refuse(e)
  BY <1>7 DEF Refuse, registryVars
<1>8. CASE AbortUnpublished(e)
  BY <1>8 DEF AbortUnpublished
<1>9. CASE DropRequest(e)
  BY <1>9 DEF DropRequest, registryVars
<1>10. CASE ReleaseReserved(e)
  BY <1>10 DEF ReleaseReserved
<1> QED BY <1>1, <1>2, <1>3, <1>4, <1>5, <1>6, <1>7, <1>8, <1>9, <1>10
        DEF RequestSteps

LEMMA PlacedClient ==
  ASSUME Typed, NEW c \in Clients, ClientSteps(c)
  PROVE  Placed'
<1> USE DEF Typed, Placed
<1>1. UNCHANGED <<entry, request>>
  BY DEF ClientSteps, Serve, LookupAttach, LookupWait, LookupKill, Looks, OnlyClient,
         Answer, Kill, Attach, Stream, StreamEnds, HangUp, Detach, Forget,
         registryVars, requestVars
<1>2. \A d \in Clients \ {c} : client'[d] = client[d]
  BY DEF ClientSteps, Serve, LookupAttach, LookupWait, LookupKill, Call, TypeOK,
         Answer, Kill, Attach, Stream, StreamEnds, HangUp, Detach, Forget
<1>3. client'[c].pc \notin {"idle", "cut"} => client'[c].exec \in Execs
  <2>1. CASE \E e \in Execs : LookupAttach(c, e) \/ LookupWait(c, e) \/ LookupKill(c, e)
    BY <2>1 DEF LookupAttach, LookupWait, LookupKill, Call, TypeOK
  <2>2. CASE Answer(c)
    BY <2>2 DEF Answer, TypeOK
  <2>3. CASE Kill(c)
    BY <2>3 DEF Kill, TypeOK, Idle
  <2>4. CASE Attach(c)
    BY <2>4 DEF Attach, TypeOK, Idle
  <2>5. CASE Stream(c)
    BY <2>5 DEF Stream, TypeOK, Idle
  <2>6. CASE StreamEnds(c) \/ HangUp(c)
    BY <2>6 DEF StreamEnds, HangUp, Detach, TypeOK, Idle
  <2>7. CASE Forget(c)
    BY <2>7 DEF Forget, TypeOK, Idle
  <2> QED BY <2>1, <2>2, <2>3, <2>4, <2>5, <2>6, <2>7 DEF ClientSteps, Serve
<1> QED BY <1>1, <1>2, <1>3

(* Every step keeps the types.                                               *)
LEMMA TypedStep ==
  ASSUME Typed, [Next]_vars
  PROVE  Typed'
<1>1. CASE \E e \in Execs : Begin(e) \/ RequestSteps(e) \/ ReleaseReserved(e)
  BY <1>1, RequestTyped, PlacedRequest DEF Typed
<1>2. CASE \E e \in Execs : SystemSteps(e) \/ TimerSteps(e) \/ StdinSteps(e)
                            \/ SshSignals(e) \/ SshReleases(e)
  <2>1. PICK e \in Execs : SystemSteps(e) \/ TimerSteps(e) \/ StdinSteps(e)
                           \/ SshSignals(e) \/ SshReleases(e)
    BY <1>2
  <2>2. TypeOK'
    BY <2>1, SystemTyped
  <2>3. UNCHANGED <<request, client>> /\ (entry' = entry \/ entry' = [entry EXCEPT ![e] = "none"])
    BY <2>1 DEF SystemSteps, TimerSteps, StdinSteps, ProcExits, Settle, DrainEnds,
       Expire, Deadline, DeadlineKill, TakeStdin, TrackStdin, StdinEnds, SshSignals,
       SshReleases, registryVars, requestVars, callVars
  <2> QED BY <2>2, <2>3 DEF Typed, TypeOK, Placed
<1>3. CASE \E e \in Execs : ObserverSteps(e)
  <2>1. PICK e \in Execs : ObserverSteps(e)
    BY <1>3
  <2>2. TypeOK'
    BY <2>1, ObserverTyped
  <2>3. UNCHANGED <<request, client>>
    BY <2>1 DEF ObserverSteps, ObserverStarts, ObserverSeesExit, ObserverSeals, Retain,
       requestVars, callVars
  <2>4. CASE UNCHANGED entry
    BY <2>2, <2>3, <2>4 DEF Typed, Placed
  <2>5. CASE ~ UNCHANGED entry
    <3> DEFINE dead == IF drain[e] = "failed" THEN {e}
                       ELSE Evicted(Entries("retained") \cup {e}, Touch(e))
    <3>1. Retire(dead, {}, {e}, Kept \cup {e}, Touch(e), Touch(e) \cap (dead \X dead))
      BY <2>1, <2>5 DEF ObserverSteps, ObserverStarts, ObserverSeesExit, ObserverSeals,
         Retain, registryVars
    <3>2. \A f \in Execs : entry'[f] = "reserved" => entry[f] = "reserved"
      <4> HIDE DEF dead
      <4> QED BY <3>1, RetireMoves DEF Typed
    <3> QED BY <2>2, <2>3, <3>2 DEF Typed, Placed
  <2> QED BY <2>4, <2>5
<1>4. CASE \E e \in Execs : Release(e)
  <2>1. PICK e \in Execs : Release(e)
    BY <1>4
  <2>2. UNCHANGED <<entry, request>>
    BY <2>1 DEF Release, requestVars
  <2>3. \A c \in Clients : client'[c] = client[c] \/ client'[c].pc = "cut"
    BY <2>1 DEF Release, Releases, Idle
  <2> QED BY <2>1, <2>2, <2>3, ReleaseTyped DEF Typed, Placed
<1>5. CASE Prune \/ ManagerStops
  <2>1. UNCHANGED <<request, client>>
    BY <1>5 DEF Prune, ManagerStops, requestVars, callVars
  <2>2. \A f \in Execs : entry'[f] = "reserved" => entry[f] = "reserved"
    <3>1. CASE Prune
      BY <3>1, RetireMoves DEF Prune, Typed
    <3>2. CASE ManagerStops
      BY <3>2 DEF ManagerStops
    <3> QED BY <1>5, <3>1, <3>2
  <2> QED BY <1>5, <2>1, <2>2, ManagerTyped DEF Typed, Placed
<1>6. CASE \E c \in Clients : ClientSteps(c)
  BY <1>6, ClientTyped, PlacedClient DEF Typed
<1>7. CASE \E k \in Closers : CloseBegins(k) \/ Close(k)
  <2>1. PICK k \in Closers : CloseBegins(k) \/ Close(k)
    BY <1>7
  <2>2. UNCHANGED <<request, client>> /\ (entry' = entry \/ entry' = [f \in Execs |-> "none"])
    BY <2>1 DEF CloseBegins, Close, CloseJoins, CloseTerminates, CloseKills, CloseTakes,
       CloseEnds, registryVars, requestVars
  <2> QED BY <2>1, <2>2, CloserTyped DEF Typed, Placed
<1>8. CASE UNCHANGED vars
  BY <1>8 DEF vars, registryVars, requestVars, procVars, outputVars, stateVars,
     taskVars, callVars, Typed, TypeOK, Placed
<1> QED BY <1>1, <1>2, <1>3, <1>4, <1>5, <1>6, <1>7, <1>8 DEF Next

(* TypeOK: every variable keeps to the values the code's types give it.      *)
THEOREM TypeInvariance == Spec => []TypeOK
<1>1. Init => Typed
  BY TypedInitially, PlacedInitially DEF Typed
<1>2. Typed /\ [Next]_vars => Typed'
  BY TypedStep
<1>3. Typed => TypeOK
  BY DEF Typed
<1> QED BY <1>1, <1>2, <1>3, PTL DEF Spec

-----------------------------------------------------------------------------
(* Release. *)

(* What is handed to a session after its release is refused or aborted.      *)
LEMMA HoldsNothingStep ==
  ASSUME Typed, ReleasedHoldsNothing, [Next]_vars
  PROVE  ReleasedHoldsNothing'
<1> USE DEF Typed, ReleasedHoldsNothing
<1>1. ASSUME NEW e \in Execs, Reject(e)  PROVE ReleasedHoldsNothing'
  BY <1>1 DEF Reject, TypeOK, taskVars
<1>2. ASSUME NEW e \in Execs, Track(e)  PROVE ReleasedHoldsNothing'
  BY <1>2 DEF Track, TypeOK, stateVars, outputVars
<1>3. ASSUME NEW e \in Execs, DrainEnds(e)  PROVE ReleasedHoldsNothing'
  BY <1>3 DEF DrainEnds, TypeOK, taskVars
<1>4. ASSUME NEW e \in Execs, ObserverSeesExit(e)  PROVE ReleasedHoldsNothing'
  BY <1>4 DEF ObserverSeesExit, TypeOK, outputVars
<1>5. ASSUME NEW e \in Execs, Release(e)  PROVE ReleasedHoldsNothing'
  BY <1>5 DEF Release, Releases, TypeOK
<1>6. ASSUME NEW e \in Execs, StdinSteps(e)  PROVE ReleasedHoldsNothing'
  BY <1>6 DEF StdinSteps, TakeStdin, TrackStdin, StdinEnds, TypeOK, outputVars, taskVars
<1>7. ASSUME NEW c \in Clients, Stream(c)  PROVE ReleasedHoldsNothing'
  BY <1>7 DEF Stream, GoneSince, TypeOK, taskVars
<1>8. ASSUME NEW c \in Clients, Detach(c)  PROVE ReleasedHoldsNothing'
  BY <1>8 DEF Detach, TypeOK, taskVars
<1>9. CASE UNCHANGED <<released, forwarder, stdin, tracked, drain>>
  BY <1>9
<1>10. \/ UNCHANGED <<released, forwarder, stdin, tracked, drain>>
       \/ \E e \in Execs : \/ Reject(e) \/ Track(e) \/ DrainEnds(e) \/ ObserverSeesExit(e)
                           \/ Release(e) \/ StdinSteps(e)
       \/ \E c \in Clients : Stream(c) \/ Detach(c)
  <2> USE DEF stateVars, outputVars, taskVars
  <2>1. CASE \E e \in Execs : \/ Begin(e) \/ RequestSteps(e) \/ ReleaseReserved(e)
                              \/ SystemSteps(e) \/ TimerSteps(e)
    BY <2>1 DEF Begin, RequestSteps, Spawn, SpawnFails, Publish, Refuse, AbortUnpublished,
       DropRequest, ReleaseReserved, SystemSteps, ProcExits, Settle, Expire, TimerSteps,
       Deadline, DeadlineKill
  <2>2. CASE \E e \in Execs : \/ ObserverSteps(e) \/ Release(e) \/ StdinSteps(e)
                              \/ SshSignals(e) \/ SshReleases(e)
    BY <2>2 DEF ObserverSteps, ObserverStarts, ObserverSeals, Retain, SshSignals,
       SshReleases
  <2>3. CASE \E c \in Clients : ClientSteps(c)
    BY <2>3 DEF ClientSteps, LookupAttach, LookupWait, LookupKill, Serve, Answer, Kill,
       Attach, StreamEnds, HangUp, Forget, OnlyClient
  <2>4. CASE \E k \in Closers : CloseBegins(k) \/ Close(k)
    BY <2>4 DEF CloseBegins, Close, CloseJoins, CloseTerminates, CloseKills, CloseTakes,
       CloseEnds
  <2>5. CASE Prune \/ ManagerStops \/ UNCHANGED vars
    BY <2>5 DEF Prune, ManagerStops, vars
  <2> QED BY <2>1, <2>2, <2>3, <2>4, <2>5 DEF Next
<1> QED BY <1>1, <1>2, <1>3, <1>4, <1>5, <1>6, <1>7, <1>8, <1>9, <1>10

-----------------------------------------------------------------------------
(* The inductive invariant, part by part. *)

LEMMA TrueInitially == Init => IInv
<1> SUFFICES ASSUME Init PROVE IInv
  OBVIOUS
<1>1. RequestsTrue /\ SlotsTrue /\ VerdictsTrue
  BY DEF Init, RequestsTrue, SlotsTrue, VerdictsTrue, Fresh, Unseen, Kept, Entries
<1>2. AnswersTrue /\ ClosersTrue /\ LeasesTrue
  BY DEF Init, AnswersTrue, ClosersTrue, LeasesTrue, Idle, Runs, Alive
<1>3. RanksTrue
  BY DEF Init, RanksTrue, Orders, Kept, Entries
<1>4. ReleasedHoldsNothing
  BY DEF Init, ReleasedHoldsNothing
<1> QED BY <1>1, <1>2, <1>3, <1>4, TypedInitially, PlacedInitially DEF IInv, Typed

(* Only kept sessions and the one retained change their entries or are given *)
(* up when one is retained ...                                               *)
LEMMA RetainMoves ==
  ASSUME Typed, NEW e \in Execs, Retain(e), NEW f \in Execs
  PROVE  /\ \/ entry'[f] = entry[f]
            \/ /\ entry'[f] \in {"none", "tombstone", "retained"}
               /\ f \in Kept \/ (f = e /\ entry[e] = "live")
         /\ f \in owed' => f \in owed \/ f \in Kept \/ (f = e /\ entry[e] = "live")
<1>1. CASE closing \/ entry[e] # "live"
  BY <1>1 DEF Retain
<1>2. CASE ~(closing \/ entry[e] # "live")
  <2> DEFINE dead == IF drain[e] = "failed" THEN {e}
                     ELSE Evicted(Entries("retained") \cup {e}, Touch(e))
  <2>1. /\ Retire(dead, {}, {e}, Kept \cup {e}, Touch(e), Touch(e) \cap (dead \X dead))
        /\ owed' = owed \cup dead
    BY <1>2 DEF Retain
  <2>2. f \in dead => f = e \/ f \in Kept
    BY DEF Evicted, Oldest, Entries, Kept
  <2> HIDE DEF dead
  <2> QED BY <1>2, <2>1, <2>2, RetireMoves DEF Typed, Kept, Entries
<1> QED BY <1>1, <1>2

(* ... and none but kept ones at a tick of the manager.                      *)
LEMMA PruneMoves ==
  ASSUME Typed, Prune, NEW f \in Execs
  PROVE  /\ entry'[f] = entry[f] \/ (entry'[f] \in {"none", "tombstone"} /\ f \in Kept)
         /\ f \in owed' => f \in owed \/ f \in Kept
<1>1. f \in Expired => f \in Kept
  BY DEF Expired, Kept, Entries
<1>2. f \in Entries("tombstone") \cap aged => f \in Kept
  BY DEF Kept
<1> QED BY <1>1, <1>2, RetireMoves DEF Prune, Typed, Kept, Entries

(* Signals kill nobody at once and revive nobody.                            *)
LEMMA SignalMoves ==
  ASSUME Typed, NEW es, NEW s \in {"termed", "doomed"}, proc' = Signalled(es, s),
         NEW e \in Execs
  PROVE  /\ Alive(e)' <=> Alive(e)
         /\ proc[e] = "none" <=> proc'[e] = "none"
         /\ Runs(e)' => Runs(e)
         /\ s = "doomed" /\ e \in es \ released => ~Runs(e)'
BY DEF Typed, TypeOK, Signalled, Alive, Runs

LEMMA DeadlineMoves ==
  ASSUME Typed, NEW f \in Execs, TimerSteps(f), NEW e \in Execs
  PROVE  /\ Alive(e)' <=> Alive(e)
         /\ proc[e] = "none" <=> proc'[e] = "none"
         /\ Runs(e)' => Runs(e)
BY DEF Typed, TypeOK, TimerSteps, Deadline, DeadlineKill, Alive, Runs

LEMMA ExitMoves ==
  ASSUME Typed, NEW f \in Execs, ProcExits(f), NEW e \in Execs
  PROVE  /\ Alive(e)' => Alive(e)
         /\ proc[e] = "none" <=> proc'[e] = "none"
         /\ Runs(e)' => Runs(e)
BY DEF Typed, TypeOK, ProcExits, Alive, Runs

(* So no step but a spawn starts a process, and no step at all revives one.  *)
LEMMA ProcMoves ==
  ASSUME Typed, [Next]_vars, NEW e \in Execs
  PROVE  \/ /\ Alive(e)' => Alive(e)
            /\ proc[e] = "none" <=> proc'[e] = "none"
            /\ Runs(e)' => Runs(e)
         \/ /\ request[e] = "spawning" /\ request'[e] \in {"spawned", "dropped"}
            /\ Spawn(e) \/ DropRequest(e)
<1> USE DEF procVars
<1>1. CASE UNCHANGED proc
  BY <1>1 DEF Alive, Runs
<1>2. ASSUME NEW f \in Execs, Spawn(f) \/ DropRequest(f)
      PROVE  \/ f = e /\ request[e] = "spawning" /\ request'[e] \in {"spawned", "dropped"}
             \/ proc'[e] = proc[e]
  BY <1>2 DEF Spawn, DropRequest, Typed, TypeOK
<1>3. ASSUME NEW f \in Execs, Spawn(f) \/ DropRequest(f), proc'[e] = proc[e]
      PROVE  /\ Alive(e)' => Alive(e)
             /\ proc[e] = "none" <=> proc'[e] = "none"
             /\ Runs(e)' => Runs(e)
  BY <1>3 DEF Alive, Runs
<1>4. ASSUME NEW f \in Execs, AbortUnpublished(f) \/ SshSignals(f)
      PROVE  \E es : \E s \in {"termed", "doomed"} : proc' = Signalled(es, s)
  BY <1>4 DEF AbortUnpublished, SshSignals
<1>5. ASSUME NEW c \in Clients, Kill(c)
      PROVE  \E es : \E s \in {"termed", "doomed"} : proc' = Signalled(es, s)
  BY <1>5 DEF Kill
<1>6. ASSUME NEW k \in Closers, CloseTerminates(k) \/ CloseKills(k)
      PROVE  \E es : \E s \in {"termed", "doomed"} : proc' = Signalled(es, s)
  BY <1>6 DEF CloseTerminates, CloseKills
<1>7. \/ UNCHANGED proc
      \/ \E f \in Execs : \/ Spawn(f) \/ DropRequest(f) \/ AbortUnpublished(f)
                          \/ SshSignals(f) \/ TimerSteps(f) \/ ProcExits(f)
      \/ \E c \in Clients : Kill(c)
      \/ \E k \in Closers : CloseTerminates(k) \/ CloseKills(k)
  <2>1. CASE \E f \in Execs : Begin(f) \/ RequestSteps(f) \/ ReleaseReserved(f)
    BY <2>1 DEF Begin, RequestSteps, Reject, SpawnFails, Publish, Track, Refuse,
       ReleaseReserved
  <2>2. CASE \E f \in Execs : SystemSteps(f) \/ TimerSteps(f) \/ ObserverSteps(f)
    BY <2>2 DEF SystemSteps, Settle, DrainEnds, Expire, ObserverSteps, ObserverStarts,
       ObserverSeesExit, ObserverSeals, Retain
  <2>3. CASE \E f \in Execs : Release(f) \/ StdinSteps(f) \/ SshSignals(f) \/ SshReleases(f)
    BY <2>3 DEF Release, StdinSteps, TakeStdin, TrackStdin, StdinEnds, SshReleases
  <2>4. CASE \E c \in Clients : ClientSteps(c)
    BY <2>4 DEF ClientSteps, LookupAttach, LookupWait, LookupKill, Serve, Answer,
       Attach, Stream, StreamEnds, HangUp, Detach, Forget, OnlyClient
  <2>5. CASE \E k \in Closers : CloseBegins(k) \/ Close(k)
    BY <2>5 DEF CloseBegins, Close, CloseJoins, CloseTakes, CloseEnds
  <2>6. CASE Prune \/ ManagerStops \/ UNCHANGED vars
    BY <2>6 DEF Prune, ManagerStops, vars
  <2> QED BY <2>1, <2>2, <2>3, <2>4, <2>5, <2>6 DEF Next
<1> QED BY <1>1, <1>2, <1>3, <1>4, <1>5, <1>6, <1>7, SignalMoves, DeadlineMoves, ExitMoves

(* Requests.                                                                 *)
LEMMA RequestsStep ==
  ASSUME Typed, RequestsTrue, AnswersTrue, ClosersTrue, [Next]_vars
  PROVE  RequestsTrue'
<1> USE DEF Typed, RequestsTrue, Fresh, Unseen, AdmittedWhileClosing, registryVars, requestVars,
            procVars, outputVars, stateVars, taskVars
<1>1. ASSUME NEW e \in Execs, Begin(e)  PROVE RequestsTrue'
  BY <1>1 DEF Begin, TypeOK
<1>2. ASSUME NEW e \in Execs, Spawn(e)  PROVE RequestsTrue'
  BY <1>2 DEF Spawn, TypeOK
<1>3. ASSUME NEW e \in Execs, Reject(e)  PROVE RequestsTrue'
  BY <1>3 DEF Reject, TypeOK
<1>4. ASSUME NEW e \in Execs, SpawnFails(e)  PROVE RequestsTrue'
  BY <1>4 DEF SpawnFails, TypeOK
<1>5. ASSUME NEW e \in Execs, Publish(e)  PROVE RequestsTrue'
  BY <1>5 DEF Publish, TypeOK
<1>6. ASSUME NEW e \in Execs, Track(e)  PROVE RequestsTrue'
  BY <1>6 DEF Track, TypeOK
<1>7. ASSUME NEW e \in Execs, Refuse(e)  PROVE RequestsTrue'
  BY <1>7 DEF Refuse, Admitted, TypeOK
<1>8. ASSUME NEW e \in Execs, AbortUnpublished(e)  PROVE RequestsTrue'
  <2>1. \A f \in Execs : proc[f] = "none" <=> proc'[f] = "none"
    BY <1>8, SignalMoves DEF AbortUnpublished
  <2>2. /\ UNCHANGED <<slot, verdict, observer, released, closing, unreserve>>
        /\ owed' = owed \cup {e} /\ request' = [request EXCEPT ![e] = "done"]
        /\ entry' = IF entry[e] = "reserved" THEN [entry EXCEPT ![e] = "none"] ELSE entry
    BY <1>8 DEF AbortUnpublished
  <2>3. \A f \in Execs \ {e} : request'[f] = request[f] /\ entry'[f] = entry[f]
    BY <2>2 DEF TypeOK
  <2>4. request'[e] = "done" /\ request[e] = "refused"
    BY <2>2, <1>8 DEF AbortUnpublished, TypeOK
  <2> QED BY <2>1, <2>2, <2>3, <2>4
<1>9. ASSUME NEW e \in Execs, DropRequest(e)  PROVE RequestsTrue'
  BY <1>9 DEF DropRequest, Unreserved, TypeOK
<1>10. ASSUME NEW e \in Execs, ReleaseReserved(e)  PROVE RequestsTrue'
  BY <1>10 DEF ReleaseReserved, TypeOK
<1>11. ASSUME NEW e \in Execs, ProcExits(e) \/ TimerSteps(e)  PROVE RequestsTrue'
  <2>1. \A f \in Execs : proc[f] = "none" <=> proc'[f] = "none"
    BY <1>11, ExitMoves, DeadlineMoves
  <2>2. UNCHANGED <<slot, entry, verdict, observer, owed, released, request, closing, unreserve>>
    BY <1>11 DEF ProcExits, TimerSteps, Deadline, DeadlineKill
  <2> QED BY <2>1, <2>2
<1>12. ASSUME NEW e \in Execs, Settle(e)  PROVE RequestsTrue'
  BY <1>12 DEF Settle, TypeOK
<1>13. ASSUME NEW e \in Execs, ObserverStarts(e) \/ ObserverSeals(e)  PROVE RequestsTrue'
  BY <1>13 DEF ObserverStarts, ObserverSeals, TypeOK
<1>14. ASSUME NEW e \in Execs, ObserverSeesExit(e)  PROVE RequestsTrue'
  BY <1>14 DEF ObserverSeesExit, TypeOK
<1>15. ASSUME NEW e \in Execs, Retain(e)  PROVE RequestsTrue'
  <2>1. UNCHANGED <<proc, slot, verdict, released, request, closing, unreserve>>
        /\ observer' = [observer EXCEPT ![e] = "done"] /\ observer[e] = "retain"
    BY <1>15 DEF Retain
  <2>2. \A f \in Execs : request[f] # "done" =>
          \/ entry'[f] = entry[f] /\ (f \in owed' => f \in owed)
          \/ request[f] \in {"arming", "dropped"}
    BY <1>15, RetainMoves, <2>1 DEF TypeOK, Kept, Entries
  <2> QED BY <2>1, <2>2 DEF TypeOK
<1>16. ASSUME NEW e \in Execs, Release(e)  PROVE RequestsTrue'
  <2>1. UNCHANGED <<proc, entry, verdict, observer, request, closing, unreserve>>
        /\ e \in owed /\ owed' \subseteq owed
        /\ released' \subseteq released \cup {e}
    BY <1>16 DEF Release, Releases
  <2>2. \A f \in Execs : slot[f] = "none" => slot'[f] = "none"
    BY <1>16 DEF Release, Releases
  <2> QED BY <2>1, <2>2
<1>17. ASSUME NEW e \in Execs, SshSignals(e)  PROVE RequestsTrue'
  BY <1>17, SignalMoves DEF SshSignals
<1>18. ASSUME NEW e \in Execs, SshReleases(e)  PROVE RequestsTrue'
  BY <1>18 DEF SshReleases, TypeOK
<1>19. ASSUME NEW c \in Clients, Answer(c)  PROVE RequestsTrue'
  BY <1>19 DEF Answer, AnswersTrue, Placed, TypeOK
<1>20. ASSUME NEW c \in Clients, Kill(c)  PROVE RequestsTrue'
  BY <1>20, SignalMoves DEF Kill
<1>21. ASSUME NEW k \in Closers, CloseBegins(k)  PROVE RequestsTrue'
  BY <1>21 DEF CloseBegins, TypeOK
<1>22. ASSUME NEW k \in Closers, CloseTerminates(k) \/ CloseKills(k)  PROVE RequestsTrue'
  BY <1>22, SignalMoves DEF CloseTerminates, CloseKills
<1>23. ASSUME NEW k \in Closers, CloseTakes(k)  PROVE RequestsTrue'
  <2>1. closing
    BY <1>23 DEF CloseTakes, ClosersTrue
  <2> QED BY <1>23, <2>1 DEF CloseTakes, Entries, TypeOK
<1>24. CASE Prune
  <2>1. UNCHANGED <<proc, slot, verdict, released, request, closing, unreserve, observer>>
    BY <1>24 DEF Prune
  <2>2. \A f \in Execs : request[f] # "done" =>
          \/ entry'[f] = entry[f] /\ (f \in owed' => f \in owed)
          \/ request[f] \in {"arming", "dropped"}
    BY <1>24, PruneMoves DEF TypeOK, Kept, Entries
  <2> QED BY <2>1, <2>2 DEF TypeOK
<1>25. CASE UNCHANGED <<proc, slot, entry, verdict, observer, owed, released, request,
                        closing, unreserve>>
  BY <1>25
<1> QED
  <2>1. CASE \E e \in Execs : Begin(e) \/ RequestSteps(e) \/ ReleaseReserved(e)
    BY <2>1, <1>1, <1>2, <1>3, <1>4, <1>5, <1>6, <1>7, <1>8, <1>9, <1>10 DEF RequestSteps
  <2>2. CASE \E e \in Execs : SystemSteps(e) \/ TimerSteps(e) \/ ObserverSteps(e)
    BY <2>2, <1>11, <1>12, <1>13, <1>14, <1>15, <1>25 DEF SystemSteps, DrainEnds, Expire,
       ObserverSteps
  <2>3. CASE \E e \in Execs : Release(e) \/ StdinSteps(e) \/ SshSignals(e) \/ SshReleases(e)
    BY <2>3, <1>16, <1>17, <1>18, <1>25 DEF StdinSteps, TakeStdin, TrackStdin, StdinEnds
  <2>4. CASE \E c \in Clients : ClientSteps(c)
    BY <2>4, <1>19, <1>20, <1>25 DEF ClientSteps, LookupAttach, LookupWait, LookupKill, Looks,
       Serve, Attach, Stream, StreamEnds, HangUp, Detach, Forget, OnlyClient
  <2>5. CASE \E k \in Closers : CloseBegins(k) \/ Close(k)
    BY <2>5, <1>21, <1>22, <1>23, <1>25 DEF Close, CloseJoins, CloseEnds
  <2>6. CASE Prune \/ ManagerStops \/ UNCHANGED vars
    BY <2>6, <1>24, <1>25 DEF ManagerStops, vars
  <2> QED BY <2>1, <2>2, <2>3, <2>4, <2>5, <2>6 DEF Next

(* Exit slots.                                                               *)
LEMMA SlotsStep ==
  ASSUME IInv, [Next]_vars
  PROVE  SlotsTrue'
<1> USE DEF IInv, Typed, SlotsTrue, registryVars, requestVars, procVars, outputVars,
            stateVars, taskVars
<1>1. \A e \in Execs : slot[e] = "settled" => ~Alive(e)'
  BY ProcMoves DEF RequestsTrue, Fresh
<1>2. ASSUME NEW e \in Execs, Spawn(e)  PROVE SlotsTrue'
  BY <1>1, <1>2 DEF Spawn, RequestsTrue, Unseen, TypeOK
<1>3. ASSUME NEW e \in Execs, Reject(e)  PROVE SlotsTrue'
  BY <1>1, <1>3 DEF Reject, RequestsTrue, Fresh, Alive, TypeOK
<1>4. ASSUME NEW e \in Execs, AbortUnpublished(e)  PROVE SlotsTrue'
  BY <1>1, <1>4 DEF AbortUnpublished, RequestsTrue
<1>5. ASSUME NEW e \in Execs, Settle(e)  PROVE SlotsTrue'
  BY <1>1, <1>5 DEF Settle, Alive, TypeOK
<1>6. ASSUME NEW e \in Execs, Retain(e)  PROVE SlotsTrue'
  <2>1. UNCHANGED <<slot, released, closing>>
    BY <1>6 DEF Retain
  <2>2. \A f \in Execs : slot[f] = "pending" /\ f \in owed' => f \in owed
    BY <1>6, RetainMoves DEF Retain, VerdictsTrue
  <2> QED BY <1>1, <2>1, <2>2
<1>7. ASSUME NEW e \in Execs, Release(e)  PROVE SlotsTrue'
  <2>1. /\ UNCHANGED <<proc, closing>> /\ e \in owed /\ owed' \subseteq owed
        /\ released' = released \cup {e}
    BY <1>7 DEF Release, Releases
  <2>2. \A f \in Execs : \/ slot'[f] = slot[f]
                         \/ f = e /\ slot[f] = "pending" /\ slot'[f] = "lost"
    BY <1>7 DEF Release, Releases
  <2> QED BY <1>1, <2>1, <2>2
<1>8. ASSUME NEW e \in Execs, SshReleases(e)  PROVE SlotsTrue'
  BY <1>1, <1>8 DEF SshReleases, SshEnded
<1>9. ASSUME NEW k \in Closers, CloseBegins(k)  PROVE SlotsTrue'
  BY <1>1, <1>9 DEF CloseBegins
<1>10. ASSUME NEW k \in Closers, CloseTakes(k)  PROVE SlotsTrue'
  BY <1>1, <1>10 DEF CloseTakes, ClosersTrue
<1>11. CASE Prune
  <2>1. UNCHANGED <<slot, released, closing>>
    BY <1>11 DEF Prune
  <2>2. \A f \in Execs : slot[f] = "pending" /\ f \in owed' => f \in owed
    BY <1>11, PruneMoves DEF VerdictsTrue
  <2> QED BY <1>1, <2>1, <2>2
<1>12. CASE UNCHANGED <<slot, owed, released, closing>>
  BY <1>1, <1>12
<1> QED
  <2>1. CASE \E e \in Execs : Begin(e) \/ RequestSteps(e) \/ ReleaseReserved(e)
    BY <2>1, <1>2, <1>3, <1>4, <1>12 DEF Begin, RequestSteps, SpawnFails, Publish, Track,
       Refuse, DropRequest, ReleaseReserved
  <2>2. CASE \E e \in Execs : SystemSteps(e) \/ TimerSteps(e) \/ ObserverSteps(e)
    BY <2>2, <1>5, <1>6, <1>12 DEF SystemSteps, ProcExits, DrainEnds, Expire, TimerSteps,
       Deadline, DeadlineKill, ObserverSteps, ObserverStarts, ObserverSeesExit, ObserverSeals
  <2>3. CASE \E e \in Execs : Release(e) \/ StdinSteps(e) \/ SshSignals(e) \/ SshReleases(e)
    BY <2>3, <1>7, <1>8, <1>12 DEF StdinSteps, TakeStdin, TrackStdin, StdinEnds, SshSignals
  <2>4. CASE \E c \in Clients : ClientSteps(c)
    BY <2>4, <1>12 DEF ClientSteps, LookupAttach, LookupWait, LookupKill, Looks,
       Serve, Answer, Kill, Attach, Stream, StreamEnds, HangUp, Detach, Forget, OnlyClient
  <2>5. CASE \E k \in Closers : CloseBegins(k) \/ Close(k)
    BY <2>5, <1>9, <1>10, <1>12 DEF Close, CloseJoins, CloseTerminates, CloseKills, CloseEnds
  <2>6. CASE Prune \/ ManagerStops \/ UNCHANGED vars
    BY <2>6, <1>11, <1>12 DEF ManagerStops, vars
  <2> QED BY <2>1, <2>2, <2>3, <2>4, <2>5, <2>6 DEF Next

(* Verdicts: the slot they were read from is never rewritten.                *)
LEMMA VerdictRead ==
  ASSUME Typed, VerdictsTrue, NEW e \in Execs, Verdict(e) # "none"
  PROVE  /\ slot[e] \in {"settled", "lost"}
         /\ Verdict(e) = "lost" => slot[e] = "lost"
         /\ verdict[e] # "none" => Verdict(e) = verdict[e]
BY DEF Typed, TypeOK, VerdictsTrue, Verdict, Classified

LEMMA VerdictsStep ==
  ASSUME IInv, [Next]_vars
  PROVE  VerdictsTrue'
<1> USE DEF IInv, Typed, VerdictsTrue, registryVars, requestVars, procVars, outputVars,
            stateVars, taskVars
<1>1. \A e \in Execs : e \in Kept <=> entry[e] \in {"retained", "tombstone"}
  BY DEF Kept, Entries
<1>2. \A e \in Execs : (e \in Kept)' <=> entry'[e] \in {"retained", "tombstone"}
  BY DEF Kept, Entries
<1>3. ASSUME NEW e \in Execs, Spawn(e) \/ Reject(e)  PROVE VerdictsTrue'
  BY <1>1, <1>2, <1>3 DEF Spawn, Reject, RequestsTrue, Unseen, TypeOK
<1>4. ASSUME NEW e \in Execs, Begin(e) \/ SpawnFails(e) \/ AbortUnpublished(e)
                              \/ ReleaseReserved(e) \/ SshReleases(e)
      PROVE VerdictsTrue'
  BY <1>1, <1>2, <1>4 DEF Begin, SpawnFails, AbortUnpublished, ReleaseReserved, SshReleases,
     TypeOK
<1>5. ASSUME NEW e \in Execs, Publish(e)  PROVE VerdictsTrue'
  BY <1>1, <1>2, <1>5 DEF Publish, TypeOK
<1>6. ASSUME NEW e \in Execs, Track(e)  PROVE VerdictsTrue'
  BY <1>1, <1>2, <1>6 DEF Track, TypeOK
<1>7. ASSUME NEW e \in Execs, Settle(e)  PROVE VerdictsTrue'
  BY <1>1, <1>2, <1>7 DEF Settle, TypeOK
<1>8. ASSUME NEW e \in Execs, ObserverStarts(e) \/ ObserverSeals(e)  PROVE VerdictsTrue'
  BY <1>1, <1>2, <1>8 DEF ObserverStarts, ObserverSeals, TypeOK
<1>9. ASSUME NEW e \in Execs, ObserverSeesExit(e)  PROVE VerdictsTrue'
  BY <1>1, <1>2, <1>9, VerdictRead DEF ObserverSeesExit, TypeOK
<1>10. ASSUME NEW e \in Execs, Retain(e)  PROVE VerdictsTrue'
  <2>1. /\ UNCHANGED <<slot, verdict>> /\ observer[e] = "retain"
        /\ observer' = [observer EXCEPT ![e] = "done"]
    BY <1>10 DEF Retain
  <2>2. \A f \in Execs : entry'[f] \in {"retained", "tombstone"} => f \in Kept \/ f = e
    BY <1>1, <1>10, RetainMoves
  <2> QED BY <1>1, <1>2, <2>1, <2>2 DEF TypeOK
<1>11. ASSUME NEW e \in Execs, Release(e)  PROVE VerdictsTrue'
  <2>1. UNCHANGED <<entry, verdict, observer>>
    BY <1>11 DEF Release
  <2>2. \A f \in Execs : slot[f] \in {"settled", "lost"} => slot'[f] = slot[f]
    BY <1>11 DEF Release, Releases
  <2> QED BY <1>1, <1>2, <2>1, <2>2
<1>12. ASSUME NEW c \in Clients, Answer(c)  PROVE VerdictsTrue'
  BY <1>1, <1>2, <1>12, VerdictRead DEF Answer, Placed, TypeOK
<1>13. ASSUME NEW k \in Closers, CloseTakes(k)  PROVE VerdictsTrue'
  BY <1>1, <1>2, <1>13 DEF CloseTakes
<1>14. CASE Prune
  <2>1. UNCHANGED <<slot, verdict, observer>>
    BY <1>14 DEF Prune
  <2>2. \A f \in Execs : entry'[f] \in {"retained", "tombstone"} => f \in Kept
    BY <1>1, <1>14, PruneMoves
  <2> QED BY <1>1, <1>2, <2>1, <2>2
<1>15. CASE UNCHANGED <<slot, verdict, observer, entry>>
  BY <1>1, <1>2, <1>15
<1> QED
  <2>1. CASE \E e \in Execs : Begin(e) \/ RequestSteps(e) \/ ReleaseReserved(e)
    BY <2>1, <1>3, <1>4, <1>5, <1>6, <1>15 DEF RequestSteps, Refuse, DropRequest
  <2>2. CASE \E e \in Execs : SystemSteps(e) \/ TimerSteps(e) \/ ObserverSteps(e)
    BY <2>2, <1>7, <1>8, <1>9, <1>10, <1>15 DEF SystemSteps, ProcExits, DrainEnds, Expire,
       TimerSteps, Deadline, DeadlineKill, ObserverSteps
  <2>3. CASE \E e \in Execs : Release(e) \/ StdinSteps(e) \/ SshSignals(e) \/ SshReleases(e)
    BY <2>3, <1>4, <1>11, <1>15 DEF StdinSteps, TakeStdin, TrackStdin, StdinEnds, SshSignals
  <2>4. CASE \E c \in Clients : ClientSteps(c)
    BY <2>4, <1>12, <1>15 DEF ClientSteps, LookupAttach, LookupWait, LookupKill, Looks,
       Serve, Kill, Attach, Stream, StreamEnds, HangUp, Detach, Forget, OnlyClient
  <2>5. CASE \E k \in Closers : CloseBegins(k) \/ Close(k)
    BY <2>5, <1>13, <1>15 DEF CloseBegins, Close, CloseJoins, CloseTerminates, CloseKills,
       CloseEnds
  <2>6. CASE Prune \/ ManagerStops \/ UNCHANGED vars
    BY <2>6, <1>14, <1>15 DEF ManagerStops, vars
  <2> QED BY <2>1, <2>2, <2>3, <2>4, <2>5, <2>6 DEF Next

(* Nobody goes back to a request that is not published.                      *)
LEMMA RequestMoves ==
  ASSUME Typed, [Next]_vars, NEW e \in Execs,
         request[e] \in {"arming", "done", "dropped"}
  PROVE  request'[e] \in {"arming", "done", "dropped"}
<1> USE DEF Typed, requestVars
<1>1. CASE \E f \in Execs : Begin(f) \/ RequestSteps(f) \/ ReleaseReserved(f)
  BY <1>1 DEF Begin, RequestSteps, Spawn, Reject, SpawnFails, Publish, Track, Refuse,
     AbortUnpublished, DropRequest, ReleaseReserved, TypeOK
<1>2. CASE UNCHANGED request
  BY <1>2
<1>3. CASE \E f \in Execs : SystemSteps(f) \/ TimerSteps(f) \/ ObserverSteps(f)
  BY <1>2, <1>3 DEF SystemSteps, ProcExits, Settle, DrainEnds, Expire, TimerSteps, Deadline,
     DeadlineKill, ObserverSteps, ObserverStarts, ObserverSeesExit, ObserverSeals, Retain
<1>4. CASE \E f \in Execs : Release(f) \/ StdinSteps(f) \/ SshSignals(f) \/ SshReleases(f)
  BY <1>2, <1>4 DEF Release, StdinSteps, TakeStdin, TrackStdin, StdinEnds, SshSignals,
     SshReleases
<1>5. CASE \E c \in Clients : ClientSteps(c)
  BY <1>2, <1>5 DEF ClientSteps, LookupAttach, LookupWait, LookupKill, Serve, Answer, Kill,
     Attach, Stream, StreamEnds, HangUp, Detach, Forget, OnlyClient
<1>6. CASE \E k \in Closers : CloseBegins(k) \/ Close(k)
  BY <1>2, <1>6 DEF CloseBegins, Close, CloseJoins, CloseTerminates, CloseKills, CloseTakes,
     CloseEnds
<1>7. CASE Prune \/ ManagerStops \/ UNCHANGED vars
  BY <1>2, <1>7 DEF Prune, ManagerStops, vars
<1> QED BY <1>1, <1>3, <1>4, <1>5, <1>6, <1>7 DEF Next

(* A verdict that has been made stays.                                       *)
LEMMA VerdictStays ==
  ASSUME Typed, [Next]_vars, NEW e \in Execs, verdict[e] # "none"
  PROVE  verdict'[e] = verdict[e]
<1> USE DEF Typed, stateVars
<1>1. CASE UNCHANGED verdict
  BY <1>1
<1>2. ASSUME NEW f \in Execs, ObserverSeesExit(f)  PROVE verdict'[e] = verdict[e]
  BY <1>2 DEF ObserverSeesExit, Verdict, TypeOK
<1>3. ASSUME NEW c \in Clients, Answer(c)  PROVE verdict'[e] = verdict[e]
  BY <1>3 DEF Answer, Verdict, TypeOK
<1>4. CASE \E f \in Execs : Begin(f) \/ RequestSteps(f) \/ ReleaseReserved(f)
  BY <1>1, <1>4 DEF Begin, RequestSteps, Spawn, Reject, SpawnFails, Publish, Track, Refuse,
     AbortUnpublished, DropRequest, ReleaseReserved
<1>5. CASE \E f \in Execs : SystemSteps(f) \/ TimerSteps(f) \/ ObserverSteps(f)
  BY <1>1, <1>2, <1>5 DEF SystemSteps, ProcExits, Settle, DrainEnds, Expire, TimerSteps,
     Deadline, DeadlineKill, ObserverSteps, ObserverStarts, ObserverSeals, Retain
<1>6. CASE \E f \in Execs : Release(f) \/ StdinSteps(f) \/ SshSignals(f) \/ SshReleases(f)
  BY <1>1, <1>6 DEF Release, StdinSteps, TakeStdin, TrackStdin, StdinEnds, SshSignals,
     SshReleases
<1>7. CASE \E c \in Clients : ClientSteps(c)
  BY <1>1, <1>3, <1>7 DEF ClientSteps, LookupAttach, LookupWait, LookupKill, Serve, Kill,
     Attach, Stream, StreamEnds, HangUp, Detach, Forget, OnlyClient
<1>8. CASE \E k \in Closers : CloseBegins(k) \/ Close(k)
  BY <1>1, <1>8 DEF CloseBegins, Close, CloseJoins, CloseTerminates, CloseKills, CloseTakes,
     CloseEnds
<1>9. CASE Prune \/ ManagerStops \/ UNCHANGED vars
  BY <1>1, <1>9 DEF Prune, ManagerStops, vars
<1> QED BY <1>4, <1>5, <1>6, <1>7, <1>8, <1>9 DEF Next

(* What a call does to the client that makes it: it looks up an entry, goes  *)
(* on with the execution it has, or ends.                                    *)
LEMMA CallGoesOn ==
  ASSUME Typed, NEW c \in Clients, ClientSteps(c)
  PROVE  /\ \A d \in Clients \ {c} : client'[d] = client[d]
         /\ \/ client'[c].pc = "idle" \/ client'[c] = client[c]
            \/ /\ client[c].pc \notin {"idle", "cut", "answered"}
               /\ client'[c].pc \in {"kept", "leased", "streaming"}
               /\ client'[c].exec = client[c].exec
            \/ /\ Answer(c) /\ client'[c].exec = client[c].exec
               /\ client'[c].pc = "answered" /\ client'[c].got = Verdict(client[c].exec)
            \/ \E e \in Execs :
                 /\ c \in load.clients /\ client'[c].exec = e
                 /\ \/ /\ entry[e] \in {"live", "retained"}
                       /\ client'[c].pc \in {"live", "kept", "waiting", "killing"}
                    \/ /\ entry[e] \in {"retained", "tombstone"}
                       /\ client'[c].pc = "answered" /\ client'[c].got = verdict[e]
<1> USE DEF Typed
<1>1. \A d \in Clients \ {c} : client'[d] = client[d]
  BY DEF ClientSteps, Serve, LookupAttach, LookupWait, LookupKill, Call, TypeOK,
         Answer, Kill, Attach, Stream, StreamEnds, HangUp, Detach, Forget
<1>2. ASSUME NEW e \in Execs, LookupAttach(c, e)
      PROVE  \/ client'[c] = client[c]
             \/ /\ c \in load.clients /\ client'[c].exec = e
                /\ entry[e] \in {"live", "retained"} /\ client'[c].pc \in {"live", "kept"}
  BY <1>2 DEF LookupAttach, Free, Call, TypeOK
<1>3. ASSUME NEW e \in Execs, LookupWait(c, e)
      PROVE  /\ c \in load.clients /\ client'[c].exec = e
             /\ \/ entry[e] = "live" /\ client'[c].pc = "waiting"
                \/ /\ entry[e] \in {"retained", "tombstone"}
                   /\ client'[c].pc = "answered" /\ client'[c].got = verdict[e]
  BY <1>3 DEF LookupWait, Free, Call, TypeOK
<1>4. ASSUME NEW e \in Execs, LookupKill(c, e)
      PROVE  /\ c \in load.clients /\ client'[c].exec = e
             /\ entry[e] = "live" /\ client'[c].pc = "killing"
  BY <1>4 DEF LookupKill, Free, Call, TypeOK
<1>5. ASSUME Answer(c)
      PROVE  /\ client'[c].exec = client[c].exec /\ client'[c].pc = "answered"
             /\ client'[c].got = Verdict(client[c].exec)
  BY <1>5 DEF Answer, TypeOK
<1>6. ASSUME Kill(c) \/ StreamEnds(c) \/ HangUp(c) \/ Forget(c)
      PROVE  client'[c].pc = "idle"
  BY <1>6 DEF Kill, StreamEnds, HangUp, Detach, Forget, Idle, TypeOK
<1>7. ASSUME Attach(c)
      PROVE  \/ client'[c].pc = "idle"
             \/ /\ client[c].pc \notin {"idle", "cut", "answered"}
                /\ client'[c].pc \in {"kept", "leased"}
                /\ client'[c].exec = client[c].exec
  BY <1>7 DEF Attach, Idle, TypeOK
<1>8. ASSUME Stream(c)
      PROVE  \/ client'[c].pc = "idle"
             \/ /\ client[c].pc \notin {"idle", "cut", "answered"}
                /\ client'[c].pc = "streaming"
                /\ client'[c].exec = client[c].exec
  BY <1>8 DEF Stream, Idle, TypeOK
<1>9. CASE \E e \in Execs : LookupAttach(c, e) \/ LookupWait(c, e) \/ LookupKill(c, e)
  BY <1>1, <1>2, <1>3, <1>4, <1>9
<1>10. CASE Answer(c)
  BY <1>1, <1>5, <1>10
<1>11. CASE Kill(c) \/ StreamEnds(c) \/ HangUp(c) \/ Forget(c) \/ Attach(c) \/ Stream(c)
  BY <1>1, <1>6, <1>7, <1>8, <1>11
<1> QED BY <1>9, <1>10, <1>11 DEF ClientSteps, Serve

(* Calls and what they are told.                                             *)
LEMMA AnswersStep ==
  ASSUME IInv, [Next]_vars
  PROVE  AnswersTrue'
<1> USE DEF IInv, Typed, AnswersTrue, Placed
<1>1. ASSUME NEW c \in Clients, client[c].pc \notin {"idle", "cut"}
      PROVE  /\ client[c].exec \in Execs
             /\ request'[client[c].exec] \in {"arming", "done", "dropped"}
  BY <1>1, RequestMoves
<1>2. ASSUME NEW c \in Clients, client[c].pc = "answered"
      PROVE  client[c].got = verdict'[client[c].exec] /\ client[c].got # "none"
  BY <1>2, VerdictStays
<1>3. load' = load
  <2> USE DEF callVars
  <2>1. CASE \E f \in Execs : Begin(f) \/ RequestSteps(f) \/ ReleaseReserved(f)
    BY <2>1 DEF Begin, RequestSteps, Spawn, Reject, SpawnFails, Publish, Track, Refuse,
       AbortUnpublished, DropRequest, ReleaseReserved
  <2>2. CASE \E f \in Execs : SystemSteps(f) \/ TimerSteps(f) \/ ObserverSteps(f)
    BY <2>2 DEF SystemSteps, ProcExits, Settle, DrainEnds, Expire, TimerSteps, Deadline,
       DeadlineKill, ObserverSteps, ObserverStarts, ObserverSeesExit, ObserverSeals, Retain
  <2>3. CASE \E f \in Execs : Release(f) \/ StdinSteps(f) \/ SshSignals(f) \/ SshReleases(f)
    BY <2>3 DEF Release, StdinSteps, TakeStdin, TrackStdin, StdinEnds, SshSignals,
       SshReleases
  <2>4. CASE \E c \in Clients : ClientSteps(c)
    BY <2>4 DEF ClientSteps, LookupAttach, LookupWait, LookupKill, Serve, Answer, Kill,
       Attach, Stream, StreamEnds, HangUp, Detach, Forget, OnlyClient
  <2>5. CASE \E k \in Closers : CloseBegins(k) \/ Close(k)
    BY <2>5 DEF CloseBegins, Close, CloseJoins, CloseTerminates, CloseKills, CloseTakes,
       CloseEnds
  <2>6. CASE Prune \/ ManagerStops \/ UNCHANGED vars
    BY <2>6 DEF Prune, ManagerStops, vars
  <2> QED BY <2>1, <2>2, <2>3, <2>4, <2>5, <2>6 DEF Next
<1>4. ASSUME NEW c \in Clients, ClientSteps(c)  PROVE AnswersTrue'
  <2>1. \A d \in Clients \ {c} : client'[d] = client[d]
    BY <1>4, CallGoesOn
  <2>2. CASE client'[c].pc = "idle" \/ client'[c] = client[c]
    BY <1>1, <1>2, <1>3, <2>1, <2>2
  <2>3. CASE /\ client[c].pc \notin {"idle", "cut", "answered"}
             /\ client'[c].pc \in {"kept", "leased", "streaming"}
             /\ client'[c].exec = client[c].exec
    BY <1>1, <1>2, <1>3, <2>1, <2>3
  <2>4. CASE /\ Answer(c) /\ client'[c].exec = client[c].exec
             /\ client'[c].pc = "answered" /\ client'[c].got = Verdict(client[c].exec)
    <3>1. client[c].pc = "waiting" /\ Verdict(client[c].exec) # "none"
      BY <2>4 DEF Answer
    <3>2. verdict'[client[c].exec] = Verdict(client[c].exec)
      BY <1>1, <2>4, <3>1 DEF Answer, TypeOK
    <3> QED BY <1>1, <1>2, <1>3, <2>1, <2>4, <3>1, <3>2
  <2>5. ASSUME NEW e \in Execs,
               /\ c \in load.clients /\ client'[c].exec = e
               /\ \/ /\ entry[e] \in {"live", "retained"}
                     /\ client'[c].pc \in {"live", "kept", "waiting", "killing"}
                  \/ /\ entry[e] \in {"retained", "tombstone"}
                     /\ client'[c].pc = "answered" /\ client'[c].got = verdict[e]
        PROVE  AnswersTrue'
    <3>1. request[e] \in {"arming", "done", "dropped"}
      BY <2>5 DEF RequestsTrue, Fresh, TypeOK
    <3>2. request'[e] \in {"arming", "done", "dropped"}
      BY <3>1, RequestMoves
    <3>3. client'[c].pc = "answered" => verdict[e] # "none" /\ verdict'[e] = verdict[e]
      BY <2>5, VerdictStays DEF VerdictsTrue, Kept, Entries
    <3> QED BY <1>1, <1>2, <1>3, <2>1, <2>5, <3>2, <3>3
  <2> QED BY <1>4, <2>2, <2>3, <2>4, <2>5, CallGoesOn
<1>5. CASE \A c \in Clients : client'[c] = client[c] \/ client'[c].pc = "cut"
  BY <1>1, <1>2, <1>3, <1>5
<1> QED
  <2> USE DEF callVars
  <2>1. CASE \E f \in Execs : Begin(f) \/ RequestSteps(f) \/ ReleaseReserved(f)
    BY <1>5, <2>1 DEF Begin, RequestSteps, Spawn, Reject, SpawnFails, Publish, Track, Refuse,
       AbortUnpublished, DropRequest, ReleaseReserved
  <2>2. CASE \E f \in Execs : SystemSteps(f) \/ TimerSteps(f) \/ ObserverSteps(f)
    BY <1>5, <2>2 DEF SystemSteps, ProcExits, Settle, DrainEnds, Expire, TimerSteps, Deadline,
       DeadlineKill, ObserverSteps, ObserverStarts, ObserverSeesExit, ObserverSeals, Retain
  <2>3. CASE \E f \in Execs : StdinSteps(f) \/ SshSignals(f) \/ SshReleases(f)
    BY <1>5, <2>3 DEF StdinSteps, TakeStdin, TrackStdin, StdinEnds, SshSignals, SshReleases
  <2>4. CASE \E f \in Execs : Release(f)
    BY <1>5, <2>4 DEF Release, Releases, Idle
  <2>5. CASE \E k \in Closers : CloseBegins(k) \/ Close(k)
    BY <1>5, <2>5 DEF CloseBegins, Close, CloseJoins, CloseTerminates, CloseKills,
       CloseTakes, CloseEnds
  <2>6. CASE Prune \/ ManagerStops \/ UNCHANGED vars
    BY <1>5, <2>6 DEF Prune, ManagerStops, vars
  <2> QED BY <1>4, <2>1, <2>2, <2>3, <2>4, <2>5, <2>6 DEF Next

(* Shutdown. A process that may run on has an exit slot nobody has settled,  *)
(* so its session is not kept.                                               *)
LEMMA RunsOn ==
  ASSUME IInv, NEW e \in Execs, Runs(e)
  PROVE  /\ slot[e] \notin {"settled", "lost"} /\ verdict[e] = "none"
         /\ e \notin Kept /\ observer[e] \notin {"output", "retain", "done"}
         /\ e \notin owed /\ e \notin released
         /\ request[e] \notin {"idle", "spawning"}
BY DEF IInv, SlotsTrue, VerdictsTrue, ClosersTrue, RequestsTrue, Fresh, Runs, Alive

(* Only a session that is published, given up or retained changes its entry, *)
(* and none is published while the registry closes.                          *)
LEMMA LiveMoves ==
  ASSUME IInv, [Next]_vars, NEW e \in Execs
  PROVE  /\ entry'[e] = "live" => entry[e] = "live" \/ (Publish(e) /\ ~closing)
         /\ Runs(e) /\ entry[e] = "live" /\ entry'[e] # "live" =>
              \E k \in Closers : CloseTakes(k)
         /\ Runs(e) /\ e \in owed' =>
              \/ AbortUnpublished(e)
              \/ entry[e] = "live" /\ \E k \in Closers : CloseTakes(k)
<1> DEFINE Goal == /\ entry'[e] = "live" => entry[e] = "live" \/ (Publish(e) /\ ~closing)
                   /\ Runs(e) /\ entry[e] = "live" /\ entry'[e] # "live" =>
                        \E k \in Closers : CloseTakes(k)
                   /\ Runs(e) /\ e \in owed' =>
                        \/ AbortUnpublished(e)
                        \/ entry[e] = "live" /\ \E k \in Closers : CloseTakes(k)
<1> USE DEF IInv, Typed, registryVars
<1>1. ASSUME UNCHANGED <<entry, owed>>  PROVE Goal
  BY <1>1, RunsOn
<1>2. ASSUME NEW f \in Execs, Begin(f)  PROVE Goal
  BY <1>2, RunsOn DEF Begin, TypeOK
<1>3. ASSUME NEW f \in Execs, SpawnFails(f) \/ ReleaseReserved(f)  PROVE Goal
  BY <1>3, RunsOn DEF SpawnFails, ReleaseReserved, TypeOK
<1>4. ASSUME NEW f \in Execs, Publish(f)  PROVE Goal
  <2>1. /\ UNCHANGED owed /\ ~closing /\ entry' = [entry EXCEPT ![f] = "live"]
    BY <1>4 DEF Publish, Admitted
  <2>2. entry'[e] = entry[e] \/ (e = f /\ entry'[e] = "live")
    BY <2>1 DEF TypeOK
  <2> QED BY <1>4, <2>1, <2>2, RunsOn
<1>5. ASSUME NEW f \in Execs, AbortUnpublished(f)  PROVE Goal
  BY <1>5, RunsOn DEF AbortUnpublished, TypeOK
<1>6. ASSUME NEW f \in Execs, Retain(f)  PROVE Goal
  <2>1. observer[f] = "retain"
    BY <1>6 DEF Retain
  <2>2. Runs(e) => e # f /\ e \notin Kept
    BY <2>1, RunsOn
  <2>3. entry'[e] = entry[e] \/ entry'[e] # "live"
    BY <1>6, RetainMoves
  <2> QED BY <1>6, <2>2, <2>3, RetainMoves, RunsOn
<1>7. ASSUME NEW f \in Execs, SshReleases(f)  PROVE Goal
  BY <1>7, RunsOn DEF SshReleases, SshEnded, TypeOK
<1>8. ASSUME NEW f \in Execs, Release(f)  PROVE Goal
  BY <1>8, RunsOn DEF Release
<1>9. ASSUME NEW k \in Closers, CloseTakes(k)  PROVE Goal
  <2>1. entry'[e] = "none"
    BY <1>9 DEF CloseTakes
  <2>2. e \in owed' => e \in owed \/ entry[e] = "live" \/ e \in Kept
    BY <1>9 DEF CloseTakes, Entries, Kept
  <2> QED BY <1>9, <2>1, <2>2, RunsOn
<1>10. ASSUME Prune  PROVE Goal
  <2>1. entry'[e] = entry[e] \/ (entry'[e] # "live" /\ e \in Kept)
    BY <1>10, PruneMoves
  <2>2. e \in owed' => e \in owed \/ e \in Kept
    BY <1>10, PruneMoves
  <2> QED BY <2>1, <2>2, RunsOn
<1>11. Goal
  <2> HIDE DEF Goal
  <2>1. ASSUME UNCHANGED <<entry, owed>>  PROVE Goal
    BY <1>1, <2>1
  <2>2. CASE \E f \in Execs : Begin(f) \/ RequestSteps(f) \/ ReleaseReserved(f)
    BY <2>1, <2>2, <1>2, <1>3, <1>4, <1>5 DEF RequestSteps, Spawn, Reject, Track, Refuse,
       DropRequest
  <2>3. CASE \E f \in Execs : SystemSteps(f) \/ TimerSteps(f) \/ ObserverSteps(f)
    BY <2>1, <2>3, <1>6 DEF SystemSteps, ProcExits, Settle, DrainEnds, Expire, TimerSteps,
       Deadline, DeadlineKill, ObserverSteps, ObserverStarts, ObserverSeesExit, ObserverSeals
  <2>4. CASE \E f \in Execs : Release(f) \/ StdinSteps(f) \/ SshSignals(f) \/ SshReleases(f)
    BY <2>1, <2>4, <1>7, <1>8 DEF StdinSteps, TakeStdin, TrackStdin, StdinEnds, SshSignals
  <2>5. CASE \E c \in Clients : ClientSteps(c)
    BY <2>1, <2>5 DEF ClientSteps, LookupAttach, LookupWait, LookupKill, Looks, Serve, Answer,
       Kill, Attach, Stream, StreamEnds, HangUp, Detach, Forget
  <2>6. CASE \E k \in Closers : CloseBegins(k) \/ Close(k)
    BY <2>1, <2>6, <1>9 DEF CloseBegins, Close, CloseJoins, CloseTerminates, CloseKills,
       CloseEnds
  <2>7. CASE Prune \/ ManagerStops \/ UNCHANGED vars
    BY <2>1, <2>7, <1>10 DEF ManagerStops, vars
  <2> QED BY <2>2, <2>3, <2>4, <2>5, <2>6, <2>7 DEF Next
<1> QED BY <1>11

LEMMA ClosersStep ==
  ASSUME IInv, [Next]_vars
  PROVE  ClosersTrue'
<1> USE DEF IInv, Typed, ClosersTrue
<1>1. ASSUME NEW e \in Execs, Runs(e)'
      PROVE  \/ Runs(e)
             \/ /\ request[e] = "spawning" /\ request'[e] \in {"spawned", "dropped"}
                /\ UNCHANGED <<entry, owed, released, closer, closing>>
                /\ entry[e] # "live" /\ e \notin owed /\ e \notin released
  <2>1. CASE Runs(e)
    BY <2>1
  <2>2. CASE ~Runs(e)
    BY <1>1, <2>2, ProcMoves DEF Spawn, DropRequest, registryVars, stateVars, callVars,
       RequestsTrue, Fresh, Unseen
  <2> QED BY <2>1, <2>2
(* A process that runs on is given up neither by an abort, which dooms it,   *)
(* nor by a shutdown, which has doomed all that were live.                   *)
<1>2. ASSUME NEW e \in Execs, Runs(e), Runs(e)'
      PROVE  /\ ~AbortUnpublished(e)
             /\ \A k \in Closers : CloseTakes(k) => entry[e] # "live"
  <2>1. ~AbortUnpublished(e)
    <3>1. SUFFICES ASSUME AbortUnpublished(e) PROVE FALSE
      OBVIOUS
    <3>2. proc' = Signalled({e} \ Inits, "doomed") /\ e \in ({e} \ Inits) \ released
      BY <1>2, <3>1 DEF AbortUnpublished, Runs
    <3> QED BY <1>2, <3>2, SignalMoves
  <2> QED BY <1>2, <2>1 DEF CloseTakes
<1>3. \A e \in Execs : Runs(e)' => e \notin owed' /\ e \notin released'
  <2> TAKE e \in Execs
  <2> HAVE Runs(e)'
  <2>1. CASE Runs(e)
    <3>1. e \notin owed'
      BY <1>2, <2>1, LiveMoves
    <3>2. released' \subseteq released \cup owed
      <4> USE DEF stateVars
      <4>1. CASE UNCHANGED released
        BY <4>1
      <4>2. CASE \E f \in Execs : Begin(f) \/ RequestSteps(f) \/ ReleaseReserved(f)
        BY <4>1, <4>2 DEF Begin, RequestSteps, Spawn, Reject, SpawnFails, Publish, Track,
           Refuse, AbortUnpublished, DropRequest, ReleaseReserved
      <4>3. CASE \E f \in Execs : SystemSteps(f) \/ TimerSteps(f) \/ ObserverSteps(f)
        BY <4>1, <4>3 DEF SystemSteps, ProcExits, Settle, DrainEnds, Expire, TimerSteps,
           Deadline, DeadlineKill, ObserverSteps, ObserverStarts, ObserverSeesExit,
           ObserverSeals, Retain
      <4>4. CASE \E f \in Execs : StdinSteps(f) \/ SshSignals(f) \/ SshReleases(f)
        BY <4>1, <4>4 DEF StdinSteps, TakeStdin, TrackStdin, StdinEnds, SshSignals,
           SshReleases
      <4>5. CASE \E f \in Execs : Release(f)
        BY <4>5 DEF Release, Releases
      <4>6. CASE \E c \in Clients : ClientSteps(c)
        BY <4>1, <4>6 DEF ClientSteps, LookupAttach, LookupWait, LookupKill, Serve, Answer,
           Kill, Attach, Stream, StreamEnds, HangUp, Detach, Forget, OnlyClient
      <4>7. CASE \E k \in Closers : CloseBegins(k) \/ Close(k)
        BY <4>1, <4>7 DEF CloseBegins, Close, CloseJoins, CloseTerminates, CloseKills,
           CloseTakes, CloseEnds
      <4>8. CASE Prune \/ ManagerStops \/ UNCHANGED vars
        BY <4>1, <4>8 DEF Prune, ManagerStops, vars
      <4> QED BY <4>2, <4>3, <4>4, <4>5, <4>6, <4>7, <4>8 DEF Next
    <3> QED BY <2>1, <3>1, <3>2
  <2>2. CASE ~Runs(e)
    BY <1>1, <2>2
  <2> QED BY <2>1, <2>2
<1>4. \A e \in Execs : Runs(e)' /\ Published(e)' => entry'[e] = "live"
  <2> TAKE e \in Execs
  <2> HAVE Runs(e)' /\ Published(e)'
  <2>1. Runs(e)
    BY <1>1 DEF Published
  <2>2. CASE Published(e)
    BY <1>2, <2>1, <2>2, LiveMoves
  <2>3. CASE ~Published(e)
    <3>1. Publish(e)
      <4> USE <2>3 DEF Published, requestVars
      <4>1. request'[e] # request[e]
        OBVIOUS
      <4>2. request[e] # "spawning" /\ ~AbortUnpublished(e)
        BY <1>2, <2>1, RunsOn
      <4>3. \E f \in Execs : Begin(f) \/ RequestSteps(f)
        <5>1. CASE \E f \in Execs : SystemSteps(f) \/ TimerSteps(f) \/ ObserverSteps(f)
                                    \/ ReleaseReserved(f)
          BY <4>1, <5>1 DEF SystemSteps, ProcExits, Settle, DrainEnds, Expire, TimerSteps,
             Deadline, DeadlineKill, ObserverSteps, ObserverStarts, ObserverSeesExit,
             ObserverSeals, Retain, ReleaseReserved
        <5>2. CASE \E f \in Execs : Release(f) \/ StdinSteps(f) \/ SshSignals(f)
                                    \/ SshReleases(f)
          BY <4>1, <5>2 DEF Release, StdinSteps, TakeStdin, TrackStdin, StdinEnds, SshSignals,
             SshReleases
        <5>3. CASE \E c \in Clients : ClientSteps(c)
          BY <4>1, <5>3 DEF ClientSteps, LookupAttach, LookupWait, LookupKill, Serve, Answer,
             Kill, Attach, Stream, StreamEnds, HangUp, Detach, Forget, OnlyClient
        <5>4. CASE \E k \in Closers : CloseBegins(k) \/ Close(k)
          BY <4>1, <5>4 DEF CloseBegins, Close, CloseJoins, CloseTerminates, CloseKills,
             CloseTakes, CloseEnds
        <5>5. CASE Prune \/ ManagerStops \/ UNCHANGED vars
          BY <4>1, <5>5 DEF Prune, ManagerStops, vars
        <5> QED BY <5>1, <5>2, <5>3, <5>4, <5>5 DEF Next
      <4>4. PICK f \in Execs : Begin(f) \/ RequestSteps(f)
        BY <4>3
      <4>5. f = e
        BY <4>1, <4>4 DEF Begin, RequestSteps, Spawn, Reject, SpawnFails, Publish, Track,
           Refuse, AbortUnpublished, DropRequest, TypeOK
      <4>6. request[e] # "arming" /\ request'[e] \in {"arming", "done"}
        OBVIOUS
      <4> QED BY <4>2, <4>4, <4>5, <4>6 DEF Begin, RequestSteps, Spawn, Reject, SpawnFails,
                 Track, Refuse, DropRequest, TypeOK
    <3> QED BY <3>1 DEF Publish, TypeOK
  <2> QED BY <2>2, <2>3
(* The closers. *)
<1>5. ASSUME NEW e \in Execs, Runs(e)', entry'[e] = "live", closing
      PROVE  Runs(e) /\ entry[e] = "live"
  BY <1>1, <1>5, LiveMoves
<1>6. closing => closing'
  <2> USE DEF registryVars
  <2>1. CASE \E f \in Execs : Begin(f) \/ RequestSteps(f) \/ ReleaseReserved(f)
    BY <2>1 DEF Begin, RequestSteps, Spawn, Reject, SpawnFails, Publish, Track, Refuse,
       AbortUnpublished, DropRequest, ReleaseReserved
  <2>2. CASE \E f \in Execs : SystemSteps(f) \/ TimerSteps(f) \/ ObserverSteps(f)
    BY <2>2 DEF SystemSteps, ProcExits, Settle, DrainEnds, Expire, TimerSteps, Deadline,
       DeadlineKill, ObserverSteps, ObserverStarts, ObserverSeesExit, ObserverSeals, Retain
  <2>3. CASE \E f \in Execs : Release(f) \/ StdinSteps(f) \/ SshSignals(f) \/ SshReleases(f)
    BY <2>3 DEF Release, StdinSteps, TakeStdin, TrackStdin, StdinEnds, SshSignals, SshReleases
  <2>4. CASE \E c \in Clients : ClientSteps(c)
    BY <2>4 DEF ClientSteps, LookupAttach, LookupWait, LookupKill, Looks, Serve, Answer, Kill,
       Attach, Stream, StreamEnds, HangUp, Detach, Forget
  <2>5. CASE \E k \in Closers : CloseBegins(k) \/ Close(k)
    BY <2>5 DEF CloseBegins, Close, CloseJoins, CloseTerminates, CloseKills, CloseTakes,
       CloseEnds
  <2>6. CASE Prune \/ ManagerStops \/ UNCHANGED vars
    BY <2>6 DEF Prune, ManagerStops, vars
  <2> QED BY <2>1, <2>2, <2>3, <2>4, <2>5, <2>6 DEF Next
<1> DEFINE Served(k) ==
             /\ closer'[k].pc # "idle" => closing'
             /\ closer'[k].pc = "term" =>
                  \A e \in Execs : Runs(e)' /\ entry'[e] = "live" => e \in closer'[k].targets
             /\ closer'[k].pc \in {"take", "release", "done"} =>
                  \A e \in Execs : Runs(e)' => entry'[e] # "live"
<1>7. ASSUME NEW k \in Closers, closer'[k] = closer[k]  PROVE Served(k)
  BY <1>5, <1>6, <1>7
<1>8. ASSUME NEW k \in Closers, CloseBegins(k) \/ CloseJoins(k)  PROVE Served(k)
  BY <1>6, <1>8 DEF CloseBegins, CloseJoins, Step, TypeOK
<1>9. ASSUME NEW k \in Closers, CloseTerminates(k)  PROVE Served(k)
  <2> DEFINE targets == {e \in Entries("live") \ released : Managed(e) /\ Alive(e)}
  <2>1. closing /\ closer'[k] = [pc |-> "term", targets |-> targets]
    BY <1>9 DEF CloseTerminates, Step, TypeOK
  <2>2. \A e \in Execs : Runs(e) /\ entry[e] = "live" => e \in targets
    BY RunsOn DEF Entries, Managed, Runs, Alive
  <2> HIDE DEF targets
  <2> QED BY <1>5, <1>6, <2>1, <2>2
<1>10. ASSUME NEW k \in Closers, CloseKills(k)  PROVE Served(k)
  <2>1. /\ closing /\ closer[k].pc = "term" /\ closer'[k].pc = "take"
        /\ proc' = Signalled(closer[k].targets, "doomed")
    BY <1>10 DEF CloseKills, Step, TypeOK
  <2>2. ASSUME NEW e \in Execs, Runs(e)', entry'[e] = "live"  PROVE FALSE
    <3>1. Runs(e) /\ entry[e] = "live"
      BY <1>5, <2>1, <2>2
    <3>2. e \in closer[k].targets \ released
      BY <2>1, <3>1
    <3> QED BY <2>1, <2>2, <3>2, SignalMoves
  <2> QED BY <1>6, <2>1, <2>2
<1>11. ASSUME NEW k \in Closers, CloseTakes(k)  PROVE Served(k)
  BY <1>6, <1>11 DEF CloseTakes, Step, TypeOK
<1>12. ASSUME NEW k \in Closers, CloseEnds(k)  PROVE Served(k)
  BY <1>5, <1>6, <1>12 DEF CloseEnds, Step, TypeOK
<1>13. ASSUME NEW k \in Closers  PROVE Served(k)
  <2> HIDE DEF Served
  <2> USE DEF callVars
  <2>1. CASE \E f \in Execs : Begin(f) \/ RequestSteps(f) \/ ReleaseReserved(f)
    BY <1>7, <2>1 DEF Begin, RequestSteps, Spawn, Reject, SpawnFails, Publish, Track, Refuse,
       AbortUnpublished, DropRequest, ReleaseReserved
  <2>2. CASE \E f \in Execs : SystemSteps(f) \/ TimerSteps(f) \/ ObserverSteps(f)
    BY <1>7, <2>2 DEF SystemSteps, ProcExits, Settle, DrainEnds, Expire, TimerSteps, Deadline,
       DeadlineKill, ObserverSteps, ObserverStarts, ObserverSeesExit, ObserverSeals, Retain
  <2>3. CASE \E f \in Execs : Release(f) \/ StdinSteps(f) \/ SshSignals(f) \/ SshReleases(f)
    BY <1>7, <2>3 DEF Release, StdinSteps, TakeStdin, TrackStdin, StdinEnds, SshSignals,
       SshReleases
  <2>4. CASE \E c \in Clients : ClientSteps(c)
    BY <1>7, <2>4 DEF ClientSteps, LookupAttach, LookupWait, LookupKill, Serve, Answer, Kill,
       Attach, Stream, StreamEnds, HangUp, Detach, Forget, OnlyClient
  <2>5. ASSUME NEW j \in Closers, CloseBegins(j) \/ Close(j)  PROVE Served(k)
    <3>1. CASE j = k
      BY <1>8, <1>9, <1>10, <1>11, <1>12, <2>5, <3>1 DEF Close
    <3>2. CASE j # k
      <4>1. closer'[k] = closer[k]
        BY <2>5, <3>2 DEF CloseBegins, Close, CloseJoins, CloseTerminates, CloseKills,
           CloseTakes, CloseEnds, Step, TypeOK
      <4> QED BY <1>7, <4>1
    <3> QED BY <3>1, <3>2
  <2>6. CASE Prune \/ ManagerStops \/ UNCHANGED vars
    BY <1>7, <2>6 DEF Prune, ManagerStops, vars
  <2> QED BY <2>1, <2>2, <2>3, <2>4, <2>5, <2>6 DEF Next
<1> QED BY <1>3, <1>4, <1>13

(* Leases: only the calls of readers and a release that cuts one off touch   *)
(* them.                                                                     *)
LEMMA LeasesStep ==
  ASSUME IInv, [Next]_vars
  PROVE  LeasesTrue'
<1> USE DEF IInv, Typed, LeasesTrue
<1>0. /\ \A f \in Execs : /\ lease[f] \in Clients \cup {NoClient}
                          /\ forwarder[f] \in Clients \cup {NoClient}
      /\ NoClient \notin Clients
  BY ExecRegistryAssumption DEF TypeOK
<1>1. ASSUME NEW e \in Execs, Release(e)  PROVE LeasesTrue'
  <2> DEFINE cut == {c \in Clients : \E f \in {e} \ released : forwarder[f] = c}
  <2>1. /\ \A c \in Clients : client'[c] = IF c \in cut THEN [Idle EXCEPT !.pc = "cut"]
                                           ELSE client[c]
        /\ \A f \in Execs : /\ lease'[f] = IF lease[f] \in cut THEN NoClient ELSE lease[f]
                            /\ forwarder'[f] = IF f \in {e} \ released THEN NoClient
                                               ELSE forwarder[f]
    BY <1>1 DEF Release, Releases
  <2>2. ASSUME NEW f \in Execs, NEW c \in cut, lease[f] = c
        PROVE  f \in {e} \ released
    <3>1. e \notin released /\ forwarder[e] = c
      OBVIOUS
    <3>2. lease[e] = c
      BY <3>1, <1>0
    <3>3. client[c].exec = e /\ client[c].exec = f
      BY <2>2, <3>2, <1>0
    <3> QED BY <3>1, <3>3
  <2>4. \A f \in Execs : forwarder'[f] # NoClient => lease'[f] = forwarder'[f]
    <3> HIDE DEF cut
    <3> QED BY <2>1, <2>2
  <2>5. \A c \in Clients : c \in cut => client'[c].pc = "cut"
    BY <2>1 DEF Idle
  <2>6. \A f \in Execs : lease'[f] # NoClient =>
          client'[lease'[f]].pc \in {"leased", "streaming"} /\ client'[lease'[f]].exec = f
    <3> HIDE DEF cut
    <3> QED BY <2>1, <1>0
  <2>7. \A c \in Clients : client'[c].pc \in {"leased", "streaming"} =>
          lease'[client'[c].exec] = c
    <3> HIDE DEF cut
    <3> QED BY <2>1, <2>5 DEF Placed
  <2> QED BY <2>4, <2>6, <2>7
<1>2. ASSUME NEW c \in Clients, Attach(c)  PROVE LeasesTrue'
  <2> DEFINE e == client[c].exec
  <2>1. /\ e \in Execs /\ client[c].pc \in {"live", "kept"} /\ UNCHANGED forwarder
        /\ \A d \in Clients \ {c} : client'[d] = client[d]
    BY <1>2 DEF Attach, Placed, TypeOK
  <2>2. \A f \in Execs : lease[f] # c
    BY <2>1, <1>0
  <2>3. \/ /\ client'[c].pc = "leased" /\ client'[c].exec = e /\ lease[e] = NoClient
           /\ lease' = [lease EXCEPT ![e] = c]
        \/ client'[c].pc \notin {"leased", "streaming"} /\ UNCHANGED lease
    BY <1>2, <2>1 DEF Attach, TypeOK, Idle
  <2> HIDE DEF e
  <2>4. CASE /\ client'[c].pc = "leased" /\ client'[c].exec = e /\ lease[e] = NoClient
             /\ lease' = [lease EXCEPT ![e] = c]
    <3>1. lease'[e] = c /\ \A f \in Execs \ {e} : lease'[f] = lease[f]
      BY <2>1, <2>4 DEF TypeOK
    <3>2. \A f \in Execs : lease'[f] # NoClient =>
            client'[lease'[f]].pc \in {"leased", "streaming"} /\ client'[lease'[f]].exec = f
      BY <1>0, <2>1, <2>2, <2>4, <3>1
    <3>3. \A f \in Execs : forwarder'[f] # NoClient => lease'[f] = forwarder'[f]
      BY <1>0, <2>1, <2>2, <2>4, <3>1
    <3>4. \A d \in Clients : client'[d].pc \in {"leased", "streaming"} =>
            lease'[client'[d].exec] = d
      BY <1>0, <2>1, <2>4, <3>1 DEF Placed
    <3> QED BY <3>2, <3>3, <3>4
  <2>5. CASE client'[c].pc \notin {"leased", "streaming"} /\ UNCHANGED lease
    BY <1>0, <2>1, <2>2, <2>5
  <2> QED BY <2>3, <2>4, <2>5
<1>3. ASSUME NEW c \in Clients, Stream(c)  PROVE LeasesTrue'
  <2> DEFINE e == client[c].exec
  <2>1. /\ e \in Execs /\ client[c].pc = "leased" /\ lease[e] = c
        /\ \A d \in Clients \ {c} : client'[d] = client[d]
    BY <1>3 DEF Stream, Placed, TypeOK
  <2>2. \A f \in Execs \ {e} : lease[f] # c
    BY <2>1, <1>0
  <2>3. \/ /\ client'[c].pc = "idle" /\ UNCHANGED forwarder
           /\ lease' = [lease EXCEPT ![e] = NoClient] /\ e \in released
        \/ /\ client'[c].pc = "streaming" /\ client'[c].exec = e /\ UNCHANGED lease
           /\ forwarder' = [forwarder EXCEPT ![e] = c]
    BY <1>3, <2>1 DEF Stream, TypeOK, Idle, GoneSince
  <2> HIDE DEF e
  <2>4. CASE /\ client'[c].pc = "idle" /\ UNCHANGED forwarder
             /\ lease' = [lease EXCEPT ![e] = NoClient] /\ e \in released
    <3>1. lease'[e] = NoClient /\ \A f \in Execs \ {e} : lease'[f] = lease[f]
      BY <2>1, <2>4 DEF TypeOK
    <3>2. \A f \in Execs : lease'[f] # NoClient =>
            client'[lease'[f]].pc \in {"leased", "streaming"} /\ client'[lease'[f]].exec = f
      BY <1>0, <2>1, <2>2, <2>4, <3>1
    <3>3. \A f \in Execs : forwarder'[f] # NoClient => lease'[f] = forwarder'[f]
      BY <1>0, <2>1, <2>2, <2>4, <3>1 DEF ReleasedHoldsNothing
    <3>4. \A d \in Clients : client'[d].pc \in {"leased", "streaming"} =>
            lease'[client'[d].exec] = d
      BY <1>0, <2>1, <2>4, <3>1 DEF Placed
    <3> QED BY <3>2, <3>3, <3>4
  <2>5. CASE /\ client'[c].pc = "streaming" /\ client'[c].exec = e /\ UNCHANGED lease
             /\ forwarder' = [forwarder EXCEPT ![e] = c]
    <3>1. forwarder'[e] = c /\ \A f \in Execs \ {e} : forwarder'[f] = forwarder[f]
      BY <2>1, <2>5 DEF TypeOK
    <3> QED BY <1>0, <2>1, <2>2, <2>5, <3>1
  <2> QED BY <2>3, <2>4, <2>5
<1>4. ASSUME NEW c \in Clients, StreamEnds(c) \/ HangUp(c)  PROVE LeasesTrue'
  <2>1. /\ client[c].exec \in Execs /\ client[c].pc \in {"leased", "streaming"}
        /\ lease[client[c].exec] = c /\ Detach(c)
    BY <1>4 DEF StreamEnds, HangUp, Placed
  <2> QED BY <2>1 DEF Detach, TypeOK, Idle, Placed
<1>5. ASSUME NEW c \in Clients, Answer(c) \/ Kill(c) \/ Forget(c)  PROVE LeasesTrue'
  <2>1. UNCHANGED <<lease, forwarder>> /\ client[c].pc \notin {"leased", "streaming"}
    BY <1>5 DEF Answer, Kill, Forget, OnlyClient, stateVars, outputVars
  <2>2. /\ client'[c].pc \notin {"leased", "streaming"}
        /\ \A d \in Clients \ {c} : client'[d] = client[d]
    BY <1>5 DEF Answer, Kill, Forget, Idle, TypeOK
  <2> QED BY <2>1, <2>2 DEF TypeOK
<1>6. ASSUME NEW c \in Clients, NEW e \in Execs,
             LookupAttach(c, e) \/ LookupWait(c, e) \/ LookupKill(c, e)
      PROVE  LeasesTrue'
  <2>1. UNCHANGED <<lease, forwarder>> /\ client[c].pc = "idle"
    BY <1>6 DEF LookupAttach, LookupWait, LookupKill, Free, OnlyClient, stateVars, outputVars
  <2>2. /\ client'[c].pc \notin {"leased", "streaming"}
        /\ \A d \in Clients \ {c} : client'[d] = client[d]
    BY <1>6, <2>1 DEF LookupAttach, LookupWait, LookupKill, Call, TypeOK
  <2> QED BY <1>0, <2>1, <2>2
<1>7. ASSUME UNCHANGED <<client, lease, forwarder>>  PROVE LeasesTrue'
  BY <1>7
<1> QED
  <2> HIDE DEF LeasesTrue
  <2> USE DEF callVars, stateVars, outputVars
  <2>1. CASE \E f \in Execs : Begin(f) \/ RequestSteps(f) \/ ReleaseReserved(f)
    BY <1>7, <2>1 DEF Begin, RequestSteps, Spawn, Reject, SpawnFails, Publish, Track, Refuse,
       AbortUnpublished, DropRequest, ReleaseReserved
  <2>2. CASE \E f \in Execs : SystemSteps(f) \/ TimerSteps(f) \/ ObserverSteps(f)
    BY <1>7, <2>2 DEF SystemSteps, ProcExits, Settle, DrainEnds, Expire, TimerSteps, Deadline,
       DeadlineKill, ObserverSteps, ObserverStarts, ObserverSeesExit, ObserverSeals, Retain
  <2>3. CASE \E f \in Execs : StdinSteps(f) \/ SshSignals(f) \/ SshReleases(f)
    BY <1>7, <2>3 DEF StdinSteps, TakeStdin, TrackStdin, StdinEnds, SshSignals, SshReleases
  <2>4. CASE \E c \in Clients : ClientSteps(c)
    BY <1>2, <1>3, <1>4, <1>5, <1>6, <2>4 DEF ClientSteps, Serve
  <2>5. CASE \E k \in Closers : CloseBegins(k) \/ Close(k)
    BY <1>7, <2>5 DEF CloseBegins, Close, CloseJoins, CloseTerminates, CloseKills, CloseTakes,
       CloseEnds
  <2>6. CASE Prune \/ ManagerStops \/ UNCHANGED vars
    BY <1>7, <2>6 DEF Prune, ManagerStops, vars
  <2> QED BY <1>1, <2>1, <2>2, <2>3, <2>4, <2>5, <2>6 DEF Next

(* The order of access: what a retirement leaves is the order of what is     *)
(* kept after it ...                                                         *)
LEMMA RetireKeeps ==
  ASSUME TypeOK, NEW dead \in SUBSET Execs, NEW gone \in SUBSET Kept, NEW kept \in SUBSET Execs,
         NEW order \in Orders(Kept \cup kept), NEW among \in Orders(dead),
         dead \subseteq Kept \cup kept,
         Retire(dead, gone, kept, Kept \cup kept, order, among)
  PROVE  RanksTrue'
<1> DEFINE held == Kept \cup kept
           after == Accessed(order, held, dead, among)
           graves == (Entries("tombstone") \ gone) \cup dead
           over == Oldest(Excess(graves, MaxTombstones), graves, after)
           left == (held \cup dead) \ (gone \cup over)
<1>1. /\ entry' = [e \in Execs |->
           IF e \in gone \cup over THEN "none"
           ELSE IF e \in dead THEN "tombstone"
           ELSE IF e \in kept THEN "retained" ELSE entry[e]]
      /\ older' = after \cap (left \X left)
  BY DEF Retire
<1>2. after \in Orders(held \cup dead)
  BY OrderAccessed
<1>3. held \subseteq Execs
  BY DEF Kept, Entries
<1> HIDE DEF after, over, graves
<1>4. after \cap (left \X left) \in Orders(left)
  <2> HIDE DEF held
  <2> QED BY <1>2, OrderRestricted
<1>5. Kept' = left
  <2>1. Kept' = {e \in Execs : entry'[e] \in {"retained", "tombstone"}}
    BY DEF Kept, Entries
  <2>2. Kept = {e \in Execs : entry[e] \in {"retained", "tombstone"}}
    BY DEF Kept, Entries
  <2>3. \A e \in Execs : entry'[e] \in {"retained", "tombstone"} <=>
          /\ e \notin gone \cup over
          /\ e \in dead \/ e \in kept \/ entry[e] \in {"retained", "tombstone"}
    BY <1>1
  <2> QED BY <1>3, <2>1, <2>2, <2>3
<1> QED BY <1>1, <1>4, <1>5 DEF RanksTrue

(* ... and a session that is accessed becomes the latest.                    *)
LEMMA TouchOrders ==
  ASSUME RanksTrue, NEW e
  PROVE  Touch(e) \in Orders(Kept \cup {e})
<1>1. {} \in Orders({e})
  BY DEF Orders
<1> QED BY <1>1, OrderAccessed DEF Touch, RanksTrue

LEMMA RanksStep ==
  ASSUME IInv, [Next]_vars
  PROVE  RanksTrue'
<1> USE DEF IInv, Typed
<1>1. ASSUME UNCHANGED older, \A e \in Execs : e \in Kept <=> (e \in Kept)'
      PROVE  RanksTrue'
  <2>1. Kept' = Kept
    BY <1>1 DEF Kept, Entries
  <2> QED BY <1>1, <2>1 DEF RanksTrue
<1>2. ASSUME UNCHANGED older,
             \/ UNCHANGED entry
             \/ \E e \in Execs : /\ entry[e] \in {"none", "reserved", "live"}
                                 /\ \E s \in {"none", "reserved", "live"} :
                                      entry' = [entry EXCEPT ![e] = s]
      PROVE  RanksTrue'
  BY <1>1, <1>2 DEF Kept, Entries, TypeOK
<1>3. ASSUME NEW e \in Execs, Begin(e) \/ SpawnFails(e) \/ AbortUnpublished(e)
                              \/ ReleaseReserved(e)
      PROVE  RanksTrue'
  BY <1>2, <1>3 DEF Begin, SpawnFails, AbortUnpublished, ReleaseReserved
<1>4. ASSUME NEW e \in Execs, Publish(e)  PROVE RanksTrue'
  <2>1. entry[e] \in {"none", "reserved", "live"}
    BY <1>4 DEF Publish, RequestsTrue
  <2>2. UNCHANGED older /\ entry' = [entry EXCEPT ![e] = "live"]
    BY <1>4 DEF Publish
  <2> QED BY <1>2, <2>1, <2>2
<1>5. ASSUME NEW e \in Execs, SshReleases(e)  PROVE RanksTrue'
  BY <1>2, <1>5 DEF SshReleases
<1>6. ASSUME NEW e \in Execs, Retain(e)  PROVE RanksTrue'
  <2>1. CASE closing \/ entry[e] # "live"
    BY <1>2, <1>6, <2>1 DEF Retain
  <2>2. CASE ~(closing \/ entry[e] # "live")
    <3> DEFINE dead == IF drain[e] = "failed" THEN {e}
                       ELSE Evicted(Entries("retained") \cup {e}, Touch(e))
    <3>1. Retire(dead, {}, {e}, Kept \cup {e}, Touch(e), Touch(e) \cap (dead \X dead))
      BY <1>6, <2>2 DEF Retain
    <3>2. dead \subseteq Kept \cup {e} /\ dead \in SUBSET Execs
      BY DEF Evicted, Oldest, Entries, Kept
    <3>3. Touch(e) \in Orders(Kept \cup {e})
      BY TouchOrders
    <3> HIDE DEF dead
    <3>4. Touch(e) \cap (dead \X dead) \in Orders(dead)
      BY <3>2, <3>3, OrderRestricted
    <3> QED BY <3>1, <3>2, <3>3, <3>4, RetireKeeps
  <2> QED BY <2>1, <2>2
<1>7. ASSUME NEW e \in Execs, Looks(e)  PROVE RanksTrue'
  <2>1. CASE e \in Kept
    <3>1. Kept \cup {e} = Kept /\ Kept' = Kept
      BY <1>7, <2>1 DEF Looks, Kept, Entries
    <3> QED BY <1>7, <2>1, <3>1, TouchOrders DEF Looks, RanksTrue
  <2>2. CASE e \notin Kept
    BY <1>2, <1>7, <2>2 DEF Looks
  <2> QED BY <2>1, <2>2
<1>8. ASSUME NEW k \in Closers, CloseTakes(k)  PROVE RanksTrue'
  <2>1. older' = {} /\ Kept' = {}
    BY <1>8 DEF CloseTakes, Kept, Entries
  <2> QED BY <2>1 DEF RanksTrue, Orders
<1>9. ASSUME Prune  PROVE RanksTrue'
  <2>1. PICK among \in Orders(Expired) :
          Retire(Expired, Entries("tombstone") \cap aged, {}, Kept, older, among)
    BY <1>9 DEF Prune
  <2>2. /\ Expired \subseteq Kept /\ Expired \in SUBSET Execs
        /\ Entries("tombstone") \cap aged \in SUBSET Kept /\ Kept \cup {} = Kept
    BY DEF Expired, Kept, Entries, TypeOK
  <2> QED BY <2>1, <2>2, RetireKeeps DEF RanksTrue
<1> QED
  <2> USE DEF registryVars
  <2>1. CASE \E f \in Execs : Begin(f) \/ RequestSteps(f) \/ ReleaseReserved(f)
    BY <1>2, <1>3, <1>4, <2>1 DEF RequestSteps, Spawn, Reject, Track, Refuse, DropRequest
  <2>2. CASE \E f \in Execs : SystemSteps(f) \/ TimerSteps(f) \/ ObserverSteps(f)
    BY <1>2, <1>6, <2>2 DEF SystemSteps, ProcExits, Settle, DrainEnds, Expire, TimerSteps,
       Deadline, DeadlineKill, ObserverSteps, ObserverStarts, ObserverSeesExit, ObserverSeals
  <2>3. CASE \E f \in Execs : Release(f) \/ StdinSteps(f) \/ SshSignals(f) \/ SshReleases(f)
    BY <1>2, <1>5, <2>3 DEF Release, StdinSteps, TakeStdin, TrackStdin, StdinEnds, SshSignals
  <2>4. CASE \E c \in Clients : ClientSteps(c)
    BY <1>2, <1>7, <2>4 DEF ClientSteps, LookupAttach, LookupWait, LookupKill, Serve, Answer,
       Kill, Attach, Stream, StreamEnds, HangUp, Detach, Forget
  <2>5. CASE \E k \in Closers : CloseBegins(k) \/ Close(k)
    BY <1>2, <1>8, <2>5 DEF CloseBegins, Close, CloseJoins, CloseTerminates, CloseKills,
       CloseEnds
  <2>6. CASE Prune \/ ManagerStops \/ UNCHANGED vars
    BY <1>2, <1>9, <2>6 DEF ManagerStops, vars
  <2> QED BY <2>1, <2>2, <2>3, <2>4, <2>5, <2>6 DEF Next

(* The invariant holds in every state the registry reaches.                  *)
THEOREM RegistryInvariance == Spec => []IInv
<1>1. Init => IInv
  BY TrueInitially
<1>2. IInv /\ [Next]_vars => IInv'
  <2> SUFFICES ASSUME IInv, [Next]_vars PROVE IInv'
    OBVIOUS
  <2>1. Typed' /\ RequestsTrue'
    BY TypedStep, RequestsStep DEF IInv
  <2>2. SlotsTrue' /\ VerdictsTrue' /\ AnswersTrue'
    BY SlotsStep, VerdictsStep, AnswersStep
  <2>3. ReleasedHoldsNothing' /\ ClosersTrue' /\ LeasesTrue' /\ RanksTrue'
    BY HoldsNothingStep, ClosersStep, LeasesStep, RanksStep DEF IInv
  <2> QED BY <2>1, <2>2, <2>3 DEF IInv
<1> QED BY <1>1, <1>2, PTL DEF Spec

(* ReleasedHoldsNothing: for every load, whatever order the release, the     *)
(* attach, the input task, the deadline watcher and the drain come in.       *)
THEOREM ReleaseInvariance == Spec => []ReleasedHoldsNothing
<1>1. IInv => ReleasedHoldsNothing
  BY DEF IInv
<1> QED BY <1>1, RegistryInvariance, PTL

(* NoneSurvives: shutdown_all leaves no execution it owns running, whatever  *)
(* is being spawned, retained, pruned or signalled around it.                *)
THEOREM ShutdownIsComplete == Spec => []NoneSurvives
<1>1. IInv => NoneSurvives
  BY DEF IInv, Typed, TypeOK, ClosersTrue, Published, Runs, NoneSurvives, RequestsTrue,
         Fresh, Alive
<1> QED BY <1>1, RegistryInvariance, PTL

(* WaitsTold: all who wait for an execution are told the same, and its exit  *)
(* status is lost to nobody before the guest shuts down.                     *)
THEOREM WaitsAreTold == Spec => []WaitsTold
<1>1. IInv => WaitsTold
  BY DEF IInv, Typed, Placed, AnswersTrue, VerdictsTrue, SlotsTrue, WaitsTold, WaitsAgree,
         NoLostWait
<1> QED BY <1>1, RegistryInvariance, PTL

-----------------------------------------------------------------------------
(* The cap on retained sessions. *)

(* Of a finite order, as many are among the n oldest as there are, up to n:  *)
(* the ranks of its elements are all different and below its size.           *)
LEMMA OldestCounted ==
  ASSUME NEW S, IsFiniteSet(S), NEW o \in Orders(S), NEW n \in Nat, n <= Cardinality(S)
  PROVE  IsFiniteSet(Oldest(n, S, o)) /\ Cardinality(Oldest(n, S, o)) = n
<1> DEFINE before(e) == {x \in S : <<x, e>> \in o}
           size == Cardinality(S)
           rank == [e \in S |-> Cardinality(before(e))]
           low == {e \in S : rank[e] < n}
<1>1. size \in Nat /\ IsFiniteSet(0 .. size - 1) /\ Cardinality(0 .. size - 1) = size
  <2>1. size \in Nat
    BY FS_CardinalityType
  <2> HIDE DEF size
  <2>2. 0 \in Int /\ size - 1 \in Int
    BY <2>1
  <2> QED BY <2>1, <2>2, FS_Interval
<1>2. ASSUME NEW e \in S
      PROVE  /\ IsFiniteSet(before(e)) /\ Cardinality(before(e)) \in Nat
             /\ Cardinality(before(e)) < size
  <2>1. before(e) \in SUBSET S /\ e \notin before(e)
    BY DEF Orders
  <2>2. IsFiniteSet(before(e)) /\ Cardinality(before(e)) <= size /\ before(e) # S
        /\ (Cardinality(S) = Cardinality(before(e)) => S = before(e))
    BY <2>1, FS_Subset
  <2> HIDE DEF before
  <2> QED BY <1>1, <2>2, FS_CardinalityType
<1>3. rank \in [S -> 0 .. size - 1]
  <2>1. \A e \in S : Cardinality(before(e)) \in 0 .. size - 1
    <3> HIDE DEF before, size
    <3> QED BY <1>1, <1>2
  <2> HIDE DEF before, size
  <2> QED BY <2>1
<1>4. ASSUME NEW x \in S, NEW y \in S, <<x, y>> \in o
      PROVE  rank[x] < rank[y]
  <2>1. before(x) \in SUBSET before(y) /\ x \in before(y) /\ x \notin before(x)
    BY <1>4 DEF Orders
  <2>2. /\ Cardinality(before(x)) <= Cardinality(before(y))
        /\ Cardinality(before(y)) = Cardinality(before(x)) => before(y) = before(x)
    BY <1>2, <2>1, FS_Subset
  <2>3. before(y) # before(x)
    BY <2>1
  <2>4. rank[x] = Cardinality(before(x)) /\ rank[y] = Cardinality(before(y))
    OBVIOUS
  <2> HIDE DEF before, rank
  <2> QED BY <1>2, <2>2, <2>3, <2>4
<1>5. \A x, y \in S : x # y => rank[x] # rank[y]
  <2> SUFFICES ASSUME NEW x \in S, NEW y \in S, x # y  PROVE rank[x] # rank[y]
    OBVIOUS
  <2>1. <<x, y>> \in o \/ <<y, x>> \in o
    BY DEF Orders
  <2>2. rank[x] \in Int /\ rank[y] \in Int
    BY <1>1, <1>3
  <2> HIDE DEF rank
  <2> QED BY <1>4, <2>1, <2>2
<1> HIDE DEF rank
<1>6. rank \in Injection(S, 0 .. size - 1)
  BY <1>3, <1>5 DEF Injection, IsInjective
<1>7. rank \in Surjection(S, 0 .. size - 1)
  BY <1>1, <1>6, FS_Injection
<1>8. [e \in low |-> rank[e]] \in Injection(low, 0 .. n - 1)
  BY <1>1, <1>3, <1>5 DEF Injection, IsInjective
<1>9. [e \in low |-> rank[e]] \in Surjection(low, 0 .. n - 1)
  <2>1. \A i \in 0 .. n - 1 : \E e \in S : rank[e] = i
    BY <1>1, <1>7 DEF Surjection
  <2>2. \A i \in 0 .. n - 1 : \E e \in low : rank[e] = i
    BY <2>1
  <2> QED BY <1>8, <2>2 DEF Surjection, Injection
<1>10. IsFiniteSet(0 .. n - 1) /\ Cardinality(0 .. n - 1) = n
  BY FS_Interval
<1>11. IsFiniteSet(low) /\ Cardinality(low) = n
  BY <1>8, <1>9, <1>10, FS_Injection
<1>12. low = Oldest(n, S, o)
  BY DEF Oldest, rank
<1> QED BY <1>11, <1>12

(* An eviction leaves the cap, or nothing but the sessions being read.       *)
LEMMA EvictedEnough ==
  ASSUME NEW T, NEW es \in SUBSET T, IsFiniteSet(es), NEW o \in Orders(T)
  PROVE  LET left == es \ Evicted(es, o)
         IN  \/ Cardinality(left) <= MaxRetained
             \/ \A e \in left : lease[e] # NoClient
<1> DEFINE unread == {e \in es : lease[e] = NoClient}
           n == Excess(es, MaxRetained)
           dead == Oldest(n, unread, o)
           o2 == o \cap (unread \X unread)
<1>0. MaxRetained \in Nat
  BY ExecRegistryAssumption
<1>1. /\ IsFiniteSet(unread) /\ Cardinality(unread) \in Nat /\ Cardinality(es) \in Nat
      /\ Cardinality(unread) <= Cardinality(es)
  BY FS_Subset, FS_CardinalityType
<1>2. n \in Nat /\ (n = 0 \/ n = Cardinality(es) - MaxRetained)
      /\ (n = 0 => Cardinality(es) <= MaxRetained)
  BY <1>0, <1>1 DEF Excess
<1>3. o2 \in Orders(unread)
  BY OrderRestricted
<1>4. \A e \in unread : {x \in unread : <<x, e>> \in o} = {x \in unread : <<x, e>> \in o2}
  OBVIOUS
<1>5. dead = Oldest(n, unread, o2)
  BY <1>4 DEF Oldest
<1>6. CASE n <= Cardinality(unread)
  <2>1. IsFiniteSet(dead) /\ Cardinality(dead) = n /\ dead \in SUBSET es
    <3> HIDE DEF n, o2
    <3>1. IsFiniteSet(dead) /\ Cardinality(dead) = n
      BY <1>1, <1>2, <1>3, <1>5, <1>6, OldestCounted
    <3>2. dead \in SUBSET es
      BY DEF Oldest
    <3> QED BY <3>1, <3>2
  <2>2. Cardinality(es \ dead) = Cardinality(es) - Cardinality(es \cap dead)
    BY FS_Difference
  <2>3. es \cap dead = dead
    BY <2>1
  <2>4. Cardinality(es \ dead) = Cardinality(es) - n
    <3> HIDE DEF n, dead
    <3> QED BY <2>1, <2>2, <2>3
  <2>5. Cardinality(es \ dead) <= MaxRetained
    <3> HIDE DEF n, dead, unread
    <3>1. CASE n = 0
      BY <3>1, <1>0, <1>1, <1>2, <2>4
    <3>2. CASE n = Cardinality(es) - MaxRetained
      BY <3>2, <1>0, <1>1, <2>4
    <3> QED BY <3>1, <3>2, <1>2
  <2> QED BY <2>5 DEF Evicted
<1>7. CASE ~(n <= Cardinality(unread))
  <2>1. ASSUME NEW e \in unread  PROVE e \in dead
    <3> DEFINE b == {x \in unread : <<x, e>> \in o}
    <3>1. IsFiniteSet(b) /\ Cardinality(b) <= Cardinality(unread) /\ Cardinality(b) \in Nat
      BY <1>1, FS_Subset, FS_CardinalityType
    <3>2. Cardinality(b) < n
      <4> HIDE DEF b, n, unread
      <4> QED BY <1>1, <1>2, <1>7, <3>1
    <3> QED BY <3>2 DEF Oldest
  <2> QED BY <2>1 DEF Evicted
<1> QED BY <1>6, <1>7

(* Retaining a session keeps to the cap, or all that is retained is read.    *)
KeptForReaders ==
  Cardinality(Entries("retained")') > MaxRetained
    => \/ Entries("retained")' \subseteq Entries("retained")
       \/ \A e \in Entries("retained")' : lease'[e] # NoClient

LEMMA RetainBounded ==
  ASSUME IInv, NEW e \in Execs, Retain(e)
  PROVE  KeptForReaders
<1> DEFINE kept == Entries("retained")
           dead == IF drain[e] = "failed" THEN {e} ELSE Evicted(kept \cup {e}, Touch(e))
           left == (kept \cup {e}) \ dead
<1> USE DEF IInv, Typed
<1>1. MaxRetained \in Nat /\ IsFiniteSet(kept) /\ IsFiniteSet(kept \cup {e})
  BY ExecRegistryAssumption, FS_Subset DEF Entries
<1>2. CASE closing \/ entry[e] # "live"
  BY <1>2 DEF Retain, KeptForReaders, Entries
<1>3. CASE ~(closing \/ entry[e] # "live")
  <2>1. Retire(dead, {}, {e}, Kept \cup {e}, Touch(e), Touch(e) \cap (dead \X dead))
    BY <1>3 DEF Retain
  <2>2. Entries("retained")' \subseteq left
    <3>1. ASSUME NEW f \in Execs, entry'[f] = "retained"
          PROVE  (entry[f] = "retained" \/ f = e) /\ f \notin dead
      <4> HIDE DEF dead
      <4> QED BY <2>1, <3>1 DEF Retire
    <3> HIDE DEF dead
    <3> QED BY <3>1 DEF Entries
  <2>3. CASE drain[e] = "failed"
    <3>1. left \subseteq kept
      BY <2>3
    <3> QED BY <2>2, <3>1 DEF KeptForReaders
  <2>4. CASE drain[e] # "failed"
    <3> DEFINE es == kept \cup {e}
               all == Kept \cup {e}
    <3>1. IsFiniteSet(es) /\ es \in SUBSET all /\ Touch(e) \in Orders(all)
      BY <1>1, TouchOrders DEF Kept
    <3>2. left = es \ Evicted(es, Touch(e))
      BY <2>4
    <3>3. IsFiniteSet(left)
      BY <1>1, FS_Subset
    <3> HIDE DEF es, all
    <3>4. \/ Cardinality(es \ Evicted(es, Touch(e))) <= MaxRetained
          \/ \A f \in es \ Evicted(es, Touch(e)) : lease[f] # NoClient
      BY <3>1, EvictedEnough
    <3> HIDE DEF left
    <3>5. /\ Cardinality(Entries("retained")') <= Cardinality(left) /\ Cardinality(left) \in Nat
          /\ Cardinality(Entries("retained")') \in Nat
      BY <2>2, <3>3, FS_Subset, FS_CardinalityType
    <3>6. lease' = lease
      BY DEF Retain, stateVars, outputVars
    <3> QED BY <1>1, <2>2, <3>2, <3>4, <3>5, <3>6 DEF KeptForReaders
  <2> QED BY <2>3, <2>4
<1> QED BY <1>2, <1>3

LEMMA BoundedStep ==
  ASSUME IInv, [Next]_vars
  PROVE  KeptForReaders
<1> USE DEF IInv, Typed
<1>1. ASSUME \A f \in Execs : entry'[f] = "retained" => entry[f] = "retained"
      PROVE  KeptForReaders
  BY <1>1 DEF Entries, KeptForReaders
<1>2. CASE \E e \in Execs : Begin(e) \/ RequestSteps(e) \/ ReleaseReserved(e)
  BY <1>1, <1>2 DEF Begin, RequestSteps, Spawn, Reject, SpawnFails, Publish, Track, Refuse,
     AbortUnpublished, DropRequest, ReleaseReserved, registryVars, callVars, TypeOK
<1>3. CASE \E e \in Execs : SystemSteps(e) \/ TimerSteps(e)
  BY <1>1, <1>3 DEF SystemSteps, ProcExits, Settle, DrainEnds, Expire, TimerSteps, Deadline,
     DeadlineKill, registryVars, callVars
<1>4. CASE \E e \in Execs : ObserverSteps(e)
  BY <1>1, <1>4, RetainBounded DEF ObserverSteps, ObserverStarts, ObserverSeesExit,
     ObserverSeals, registryVars, callVars
<1>5. CASE \E e \in Execs : Release(e) \/ StdinSteps(e) \/ SshSignals(e) \/ SshReleases(e)
  BY <1>1, <1>5 DEF Release, StdinSteps, TakeStdin, TrackStdin, StdinEnds, SshSignals,
     SshReleases, registryVars, callVars, TypeOK
<1>6. CASE \E c \in Clients : ClientSteps(c)
  BY <1>1, <1>6 DEF ClientSteps, LookupAttach, LookupWait, LookupKill, Looks, Serve, Answer,
     Kill, Attach, Stream, StreamEnds, HangUp, Detach, Forget, OnlyClient, registryVars
<1>7. CASE \E k \in Closers : CloseBegins(k) \/ Close(k)
  BY <1>1, <1>7 DEF CloseBegins, Close, CloseJoins, CloseTerminates, CloseKills, CloseTakes,
     CloseEnds, registryVars
<1>8. CASE Prune
  <2>1. \A f \in Execs : entry'[f] = "retained" => entry[f] = "retained"
    BY <1>8, PruneMoves
  <2> QED BY <1>1, <2>1
<1>9. CASE ManagerStops \/ UNCHANGED vars
  BY <1>1, <1>9 DEF ManagerStops, vars, registryVars, callVars
<1> QED BY <1>2, <1>3, <1>4, <1>5, <1>6, <1>7, <1>8, <1>9 DEF Next

(* RetainedBounded: the cap is newly exceeded only with every session read.  *)
THEOREM RetentionIsBounded == Spec => RetainedBounded
<1>1. IInv /\ [Next]_vars => [KeptForReaders]_vars
  BY BoundedStep
<1> QED BY <1>1, RegistryInvariance, PTL DEF Spec, RetainedBounded, KeptForReaders

=============================================================================
