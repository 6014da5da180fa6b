---------------------------- MODULE ExecRegistry ----------------------------
(***************************************************************************)
(* The guest's registry of executions: how an Exec request reserves its id,*)
(* spawns and publishes, how the session is retained after its process has *)
(* exited, shortened to a tombstone and forgotten, and how Attach, Wait,   *)
(* Kill and SendInput, the SSH bridge, the deadline watcher, the lifecycle *)
(* manager and shutdown_all meet on it.                                    *)
(*                                                                         *)
(* An execution stands for its id: the guest draws a fresh UUID for each.  *)
(* The registry's mutex makes a step of every section under it; what a     *)
(* caller does after it has released that mutex with the session it cloned *)
(* is a later step. Time is two flags: an entry's expiry passes (Expire),  *)
(* a deadline or a grace period ends (the timer's and the closer's steps). *)
(* The count and the byte caps on retained sessions are one cap.           *)
(*                                                                         *)
(* Assumed of the reaper: the exit of a registered process reaches its     *)
(* slot (Settle), which module Reaper shows.                               *)
(***************************************************************************)
EXTENDS Naturals, FiniteSets

CONSTANTS
  Tenants,            \* executions an Exec RPC starts: reserved, then observed
  SshExecs,           \* those the SSH bridge starts and releases itself
  Inits,              \* the container's init session
  Timed,              \* the executions with a deadline
  Clients,            \* concurrent Attach, Wait and Kill calls
  Closers,            \* concurrent callers of shutdown_all
  Loads,              \* what may be asked of one guest
  MaxRetained, MaxTombstones,
  NoClient

Execs == Tenants \cup SshExecs \cup Inits

(* A load: the executions requested, the clients and the kinds of calls they *)
(* make, what goes wrong ("drop": a request is dropped, "read": a drain      *)
(* fails), and the callers of shutdown_all.                                  *)
Load == [execs : SUBSET Execs, clients : SUBSET Clients,
         ops : SUBSET {"attach", "wait", "kill", "input"},
         faults : SUBSET {"drop", "read"}, closers : SUBSET Closers]

ASSUME ExecRegistryAssumption ==
  /\ Tenants \cap SshExecs = {} /\ Tenants \cap Inits = {}
  /\ SshExecs \cap Inits = {} /\ Timed \subseteq Tenants
  /\ NoClient \notin Clients /\ IsFiniteSet(Execs) /\ IsFiniteSet(Clients)
  /\ MaxRetained \in Nat /\ MaxTombstones \in Nat
  /\ Loads \subseteq Load

VARIABLES
  \* RegistryInner: the entries, those past their expiry, the retained and the
  \* tombstoned ones by last access, and is_shutting_down
  entry, aged, older, closing,
  \* the lifecycle manager and the batch of its prune that it must release
  manager, batch,
  \* sessions taken out of the registry whose release_resources is still due
  owed,
  \* each start request; reservations whose drop has spawned their release
  request, unreserve,
  \* each execution's process and its exit slot
  proc, slot,
  \* its ExecutionState: the OnceCell of the classified exit, the drains, the
  \* seal, the lease, the tracked forwarder, stdin and `released`
  verdict, drain, sealed, lease, forwarder, stdin, released,
  \* its deadline watcher, whether the session tracks it, and its observer
  timer, tracked, observer,
  client, closer,
  \* the load of this guest; it does not change
  load

registryVars == <<entry, aged, older, closing, manager, batch, owed>>
requestVars == <<request, unreserve>>
procVars == <<proc, slot>>
outputVars == <<drain, sealed, lease, forwarder>>
stateVars == <<verdict, outputVars, stdin, released>>
taskVars == <<timer, tracked, observer>>
callVars == <<client, closer, load>>
vars == <<registryVars, requestVars, procVars, stateVars, taskVars, callVars>>

Answers == {"none", "code", "killed", "died", "lost"}
Idle == [pc |-> "idle", exec |-> NoClient, got |-> "none"]

TypeOK ==
  /\ entry \in [Execs -> {"none", "reserved", "live", "retained", "tombstone"}]
  /\ aged \subseteq Execs /\ older \subseteq Execs \X Execs /\ closing \in BOOLEAN
  /\ manager \in {"none", "running", "stopped"}
  /\ batch \subseteq Execs /\ owed \subseteq Execs /\ unreserve \subseteq Tenants
  /\ request \in [Execs -> {"idle", "spawning", "spawned", "refused", "arming",
                            "done", "dropped"}]
  /\ proc \in [Execs -> {"none", "running", "termed", "doomed", "exited", "slain"}]
  /\ slot \in [Execs -> {"none", "pending", "settled", "lost"}]
  /\ verdict \in [Execs -> Answers]
  /\ drain \in [Execs -> {"open", "ended", "failed", "aborted"}]
  /\ sealed \subseteq Execs /\ released \subseteq Execs /\ tracked \subseteq Timed
  /\ lease \in [Execs -> Clients \cup {NoClient}]
  /\ forwarder \in [Execs -> Clients \cup {NoClient}]
  /\ stdin \in [Execs -> {"held", "loose", "tracked", "closed"}]
  /\ timer \in [Execs -> {"none", "waiting", "grace", "gone"}]
  /\ observer \in [Execs -> {"none", "new", "exit", "output", "retain", "done"}]
  /\ client \in [Clients ->
       [pc : {"idle", "live", "kept", "leased", "streaming", "cut", "waiting",
              "answered", "killing"},
        exec : Execs \cup {NoClient}, got : Answers]]
  /\ load \in Loads
  /\ closer \in [Closers ->
       [pc : {"idle", "joining", "collect", "term", "take", "release", "done"},
        targets : SUBSET Execs]]

Init ==
  /\ entry = [e \in Execs |-> "none"]
  /\ aged = {} /\ older = {} /\ closing = FALSE
  /\ manager = "none" /\ batch = {} /\ owed = {} /\ unreserve = {}
  /\ request = [e \in Execs |-> "idle"]
  /\ proc = [e \in Execs |-> "none"] /\ slot = [e \in Execs |-> "none"]
  /\ verdict = [e \in Execs |-> "none"]
  /\ drain = [e \in Execs |-> "open"]
  /\ sealed = {} /\ released = {} /\ tracked = {}
  /\ lease = [e \in Execs |-> NoClient]
  /\ forwarder = [e \in Execs |-> NoClient]
  /\ stdin = [e \in Execs |-> "held"]
  /\ timer = [e \in Execs |-> "none"] /\ observer = [e \in Execs |-> "none"]
  /\ client = [c \in Clients |-> Idle]
  /\ closer = [k \in Closers |-> [pc |-> "idle", targets |-> {}]]
  /\ load \in Loads

-----------------------------------------------------------------------------
(* Processes. "termed" and "doomed" have SIGTERM and SIGKILL pending.       *)

Alive(e) == proc[e] \in {"running", "termed", "doomed"}
(* A rejected command has a session, but no process for shutdown to own.    *)
Managed(e) == e \notin Inits /\ proc[e] # "none"
(* Signals reach a session's process until its resources are released.      *)
Signalled(es, s) ==
  [e \in Execs |->
     IF e \in es \ released /\ Alive(e) /\ proc[e] # "doomed" THEN s ELSE proc[e]]

(* A process ends by itself, or by a signal it does not survive. The end of  *)
(* init ends every process of its pid namespace.                             *)
ProcExits(e) ==
  /\ Alive(e)
  /\ \E end \in IF proc[e] = "doomed" THEN {"slain"} ELSE {"exited"} :
       proc' = [p \in Execs |->
         IF p = e THEN end
         ELSE IF e \in Inits /\ Alive(p) THEN "slain" ELSE proc[p]]
  /\ UNCHANGED <<registryVars, requestVars, slot, stateVars, taskVars, callVars>>

Settle(e) ==
  /\ slot[e] = "pending" /\ ~Alive(e)
  /\ slot' = [slot EXCEPT ![e] = "settled"]
  /\ UNCHANGED <<registryVars, requestVars, proc, stateVars, taskVars, callVars>>

(* The drain reads the end of the pipe, or fails to read it. That may be     *)
(* before the process ends, or long after it or never: a descendant that     *)
(* inherited the pipe keeps it open.                                         *)
DrainEnds(e) ==
  /\ drain[e] = "open" /\ proc[e] # "none"
  /\ \E end \in {"ended"} \cup (IF "read" \in load.faults THEN {"failed"} ELSE {}) :
       drain' = [drain EXCEPT ![e] = end]
  /\ UNCHANGED <<registryVars, requestVars, procVars, verdict, sealed, lease,
                 forwarder, stdin, released, taskVars, callVars>>

-----------------------------------------------------------------------------
(* Starting an execution. *)

(* exists() is asked for the SSH bridge, reserve() for the rest.             *)
Begin(e) ==
  /\ e \in load.execs /\ request[e] = "idle" /\ entry[e] = "none"
  /\ e \in Tenants => ~closing
  /\ e \notin Inits => \A i \in Inits \cap load.execs : request[i] = "done"
  /\ entry' = IF e \in Tenants THEN [entry EXCEPT ![e] = "reserved"] ELSE entry
  /\ request' = [request EXCEPT ![e] = "spawning"]
  /\ UNCHANGED <<aged, older, closing, manager, batch, owed, unreserve,
                 procVars, stateVars, taskVars, callVars>>

(* The process is spawned, its identity taken and its exit slot registered.  *)
(* A process that is born into a container whose init has ended is killed    *)
(* with it.                                                                  *)
Spawn(e) ==
  /\ request[e] = "spawning"
  /\ \A i \in (Inits \cap load.execs) \ {e} : Alive(i)
  /\ proc' = [proc EXCEPT ![e] = "running"]
  /\ slot' = [slot EXCEPT ![e] = "pending"]
  /\ request' = [request EXCEPT ![e] = "spawned"]
  /\ UNCHANGED <<registryVars, unreserve, stateVars, taskVars, callVars>>

(* A command that could not be launched: a settled exit and its diagnostic.  *)
Reject(e) ==
  /\ request[e] = "spawning" /\ e \notin Inits
  /\ slot' = [slot EXCEPT ![e] = "settled"]
  /\ drain' = [drain EXCEPT ![e] = "ended"]
  /\ stdin' = [stdin EXCEPT ![e] = "closed"]
  /\ request' = [request EXCEPT ![e] = "spawned"]
  /\ UNCHANGED <<registryVars, unreserve, proc, verdict, sealed, lease,
                 forwarder, released, taskVars, callVars>>

SpawnFails(e) ==
  /\ request[e] = "spawning"
  /\ entry' = IF entry[e] = "reserved" THEN [entry EXCEPT ![e] = "none"] ELSE entry
  /\ request' = [request EXCEPT ![e] = "done"]
  /\ UNCHANGED <<aged, older, closing, manager, batch, owed, unreserve,
                 procVars, stateVars, taskVars, callVars>>

(* publish() and register(): the entry becomes live unless the registry is   *)
(* shutting down, the deadline watcher is spawned and the observer too, the  *)
(* latter after the session has taken the watcher (arming).                  *)
AdmittedWhileClosing(e) ==
  entry[e] = IF e \in Tenants THEN "reserved" ELSE "none"
Admitted(e) ==
  /\ ~closing
  /\ entry[e] = IF e \in Tenants THEN "reserved" ELSE "none"

Publish(e) ==
  /\ request[e] = "spawned" /\ Admitted(e)
  /\ entry' = [entry EXCEPT ![e] = "live"]
  /\ IF e \in Timed /\ proc[e] # "none"
     THEN /\ timer' = [timer EXCEPT ![e] = "waiting"]
          /\ request' = [request EXCEPT ![e] = "arming"]
          /\ UNCHANGED observer
     ELSE /\ observer' = IF e \in Tenants THEN [observer EXCEPT ![e] = "new"]
                         ELSE observer
          /\ request' = [request EXCEPT ![e] = "done"]
          /\ UNCHANGED timer
  /\ UNCHANGED <<aged, older, closing, manager, batch, owed, unreserve,
                 procVars, stateVars, tracked, callVars>>

Track(e) ==
  /\ request[e] = "arming"
  /\ IF e \in released
     THEN /\ timer' = [timer EXCEPT ![e] = "gone"] /\ UNCHANGED tracked
     ELSE /\ tracked' = tracked \cup {e} /\ UNCHANGED timer
  /\ observer' = [observer EXCEPT ![e] = "new"]
  /\ request' = [request EXCEPT ![e] = "done"]
  /\ UNCHANGED <<registryVars, unreserve, procVars, stateVars, callVars>>

Refuse(e) ==
  /\ request[e] = "spawned" /\ ~Admitted(e)
  /\ request' = [request EXCEPT ![e] = "refused"]
  /\ UNCHANGED <<registryVars, unreserve, procVars, stateVars, taskVars, callVars>>

(* abort_unpublished(): the process is killed, its session released, and the *)
(* reservation, if shutdown has not swept it away, given back.               *)
AbortUnpublished(e) ==
  /\ request[e] = "refused"
  /\ proc' = Signalled({e} \ Inits, "doomed")
  /\ owed' = owed \cup {e}
  /\ entry' = IF entry[e] = "reserved" THEN [entry EXCEPT ![e] = "none"] ELSE entry
  /\ request' = [request EXCEPT ![e] = "done"]
  /\ UNCHANGED <<aged, older, closing, manager, batch, unreserve, slot,
                 stateVars, taskVars, callVars>>

(* The transport drops the request: a spawn under way still produces its     *)
(* process, and the reservation's drop spawns the release of the id.         *)
ReservationLeaked(e) == {}
ReservationAssumed(e) == {e}
Unreserved(e) == IF entry[e] = "reserved" THEN {e} ELSE {}

DropRequest(e) ==
  /\ "drop" \in load.faults /\ e \notin Inits
  /\ request[e] \in {"spawning", "spawned", "arming"}
  /\ unreserve' = unreserve \cup Unreserved(e)
  /\ \/ UNCHANGED proc
     \/ /\ request[e] = "spawning" /\ \A i \in Inits \cap load.execs : Alive(i)
        /\ proc' = [proc EXCEPT ![e] = "running"]
  /\ request' = [request EXCEPT ![e] = "dropped"]
  /\ UNCHANGED <<registryVars, slot, stateVars, taskVars, callVars>>

ReleaseReserved(e) ==
  /\ e \in unreserve
  /\ entry' = IF entry[e] = "reserved" THEN [entry EXCEPT ![e] = "none"] ELSE entry
  /\ unreserve' = unreserve \ {e}
  /\ UNCHANGED <<aged, older, closing, manager, batch, owed, request, procVars,
                 stateVars, taskVars, callVars>>

-----------------------------------------------------------------------------
(* The deadline watcher: SIGTERM, a grace period, SIGKILL, each only if the  *)
(* process it was given still runs.                                          *)

Deadline(e) ==
  /\ timer[e] = "waiting"
  /\ proc' = IF Alive(e) /\ proc[e] # "doomed" THEN [proc EXCEPT ![e] = "termed"]
             ELSE proc
  /\ timer' = [timer EXCEPT ![e] = IF Alive(e) THEN "grace" ELSE "gone"]
  /\ UNCHANGED <<registryVars, requestVars, slot, stateVars, tracked, observer,
                 callVars>>

DeadlineKill(e) ==
  /\ timer[e] = "grace"
  /\ proc' = IF Alive(e) THEN [proc EXCEPT ![e] = "doomed"] ELSE proc
  /\ timer' = [timer EXCEPT ![e] = "gone"]
  /\ UNCHANGED <<registryVars, requestVars, slot, stateVars, tracked, observer,
                 callVars>>

-----------------------------------------------------------------------------
(* Retention. *)

Entries(s) == {e \in Execs : entry[e] = s}
Kept == Entries("retained") \cup Entries("tombstone")
(* next_access: `older` orders the kept sessions by their last access; those *)
(* in `es` are accessed now, in the order `among`.                           *)
Accessed(order, held, es, among) ==
  LET rest == held \ es
  IN (order \cap (rest \X rest)) \cup (rest \X es) \cup among
Touch(e) == Accessed(older, Kept, {e}, {})
Orders(es) ==
  {o \in SUBSET (es \X es) : \A x, y \in es :
     /\ x # y => (<<x, y>> \in o <=> <<y, x>> \notin o)
     /\ <<x, x>> \notin o
     /\ \A z \in es : <<x, y>> \in o /\ <<y, z>> \in o => <<x, z>> \in o}
Oldest(n, es, order) ==
  {e \in es : Cardinality({x \in es : <<x, e>> \in order}) < n}
Excess(es, cap) == IF Cardinality(es) > cap THEN Cardinality(es) - cap ELSE 0

(* The oldest retained sessions nobody reads, as many as the cap asks for.   *)
EvictedUpToReader(es, order) ==
  IF \E e \in Oldest(1, es, order) : lease[e] # NoClient THEN {}
  ELSE Oldest(Excess(es, MaxRetained), es, order)
Evicted(es, order) ==
  Oldest(Excess(es, MaxRetained), {e \in es : lease[e] = NoClient}, order)

(* Of the sessions `held`, accessed in `order`, the retained ones in `dead`  *)
(* become tombstones in the order `among`, expired tombstones `gone` go, and *)
(* the oldest tombstones above their own cap; `kept` is retained.            *)
Retire(dead, gone, kept, held, order, among) ==
  LET after == Accessed(order, held, dead, among)
      graves == (Entries("tombstone") \ gone) \cup dead
      over == Oldest(Excess(graves, MaxTombstones), graves, after)
      left == (held \cup dead) \ (gone \cup over)
  IN /\ entry' = [e \in Execs |->
           IF e \in gone \cup over THEN "none"
           ELSE IF e \in dead THEN "tombstone"
           ELSE IF e \in kept THEN "retained" ELSE entry[e]]
     /\ older' = after \cap (left \X left)
     /\ aged' = aged \ (dead \cup gone \cup over)

ObserverStarts(e) ==
  /\ observer[e] = "new"
  /\ manager' = IF ~closing /\ manager = "none" THEN "running" ELSE manager
  /\ observer' = [observer EXCEPT ![e] = "exit"]
  /\ UNCHANGED <<entry, aged, older, closing, batch, owed, requestVars, procVars,
                 stateVars, timer, tracked, callVars>>

(* wait_exit: the first caller classifies the exit, later ones read its      *)
(* verdict. SIGKILL with the container dead is put down to its death, unless *)
(* the session, and its health checker, were released before.               *)
Classified(e) ==
  CASE slot[e] = "lost" -> "lost"
    [] slot[e] = "settled" /\ proc[e] # "slain" -> "code"
    [] slot[e] = "settled" /\ proc[e] = "slain" ->
         IF e \notin Inits \cup released /\ \E i \in Inits \cap load.execs : ~Alive(i)
         THEN "died" ELSE "killed"
    [] OTHER -> "none"
VerdictAgain(e) == Classified(e)
Verdict(e) == IF verdict[e] = "none" THEN Classified(e) ELSE verdict[e]

ObserverSeesExit(e) ==
  /\ observer[e] = "exit" /\ Verdict(e) # "none"
  /\ verdict' = [verdict EXCEPT ![e] = Verdict(e)]
  /\ timer' = IF e \in tracked THEN [timer EXCEPT ![e] = "gone"] ELSE timer
  /\ tracked' = tracked \ {e}
  /\ observer' = [observer EXCEPT ![e] = "output"]
  /\ UNCHANGED <<registryVars, requestVars, procVars, outputVars, stdin, released,
                 callVars>>

ObserverSeals(e) ==
  /\ observer[e] = "output" /\ drain[e] \in {"ended", "failed"}
  /\ sealed' = sealed \cup {e}
  /\ observer' = [observer EXCEPT ![e] = "retain"]
  /\ UNCHANGED <<registryVars, requestVars, procVars, verdict, drain, lease,
                 forwarder, stdin, released, timer, tracked, callVars>>

(* retain(): a session whose drain failed goes straight to its tombstone.    *)
Retain(e) ==
  /\ observer[e] = "retain"
  /\ observer' = [observer EXCEPT ![e] = "done"]
  /\ IF closing \/ entry[e] # "live" THEN UNCHANGED <<entry, aged, older, owed>>
     ELSE LET dead == IF drain[e] = "failed" THEN {e}
                      ELSE Evicted(Entries("retained") \cup {e}, Touch(e))
          IN /\ Retire(dead, {}, {e}, Kept \cup {e}, Touch(e),
                       Touch(e) \cap (dead \X dead))
             /\ owed' = owed \cup dead
  /\ UNCHANGED <<closing, manager, batch, requestVars, procVars, stateVars, timer,
                 tracked, callVars>>

Expire(e) ==
  /\ entry[e] \in {"retained", "tombstone"} /\ e \notin aged
  /\ aged' = aged \cup {e}
  /\ UNCHANGED <<entry, older, closing, manager, batch, owed, requestVars,
                 procVars, stateVars, taskVars, callVars>>

(* A tick of the lifecycle manager: expired sessions nobody reads become     *)
(* tombstones under the lock and are released after it.                      *)
Expired == {e \in aged : entry[e] = "retained" /\ lease[e] = NoClient}
Prune ==
  /\ manager = "running" /\ batch = {} /\ aged # {}
  /\ \E among \in Orders(Expired) :
       Retire(Expired, Entries("tombstone") \cap aged, {}, Kept, older, among)
  /\ batch' = Expired /\ owed' = owed \cup Expired
  /\ UNCHANGED <<closing, manager, requestVars, procVars, stateVars, taskVars,
                 callVars>>

(* The manager leaves its loop between two ticks, never inside one.          *)
BatchDone == batch = {}
ManagerStops ==
  /\ manager = "running" /\ closing /\ BatchDone
  /\ manager' = "stopped"
  /\ UNCHANGED <<entry, aged, older, closing, batch, owed, requestVars, procVars,
                 stateVars, taskVars, callVars>>

(* release_resources(): the first caller takes the handle and the tasks,     *)
(* aborts forwarder, input, watcher and drains, and gives up the exit slot.  *)
Releases(es) ==
  LET first == es \ released
      cut == {c \in Clients : \E e \in first : forwarder[e] = c}
  IN /\ released' = released \cup first
     /\ client' = [c \in Clients |->
          IF c \in cut THEN [Idle EXCEPT !.pc = "cut"] ELSE client[c]]
     /\ lease' = [e \in Execs |-> IF lease[e] \in cut THEN NoClient ELSE lease[e]]
     /\ forwarder' = [e \in Execs |-> IF e \in first THEN NoClient ELSE forwarder[e]]
     /\ stdin' = [e \in Execs |->
          IF e \in first /\ stdin[e] # "loose" THEN "closed" ELSE stdin[e]]
     /\ timer' = [e \in Execs |-> IF e \in first \cap tracked THEN "gone" ELSE timer[e]]
     /\ tracked' = tracked \ first
     /\ drain' = [e \in Execs |->
          IF e \in first /\ drain[e] = "open" THEN "aborted" ELSE drain[e]]
     /\ slot' = [e \in Execs |->
          IF e \in first /\ Managed(e) /\ slot[e] = "pending" THEN "lost" ELSE slot[e]]

Release(e) ==
  /\ e \in owed /\ (e \in batch => manager = "running")
  /\ Releases({e})
  /\ owed' = owed \ {e} /\ batch' = batch \ {e}
  /\ UNCHANGED <<entry, aged, older, closing, manager, requestVars, proc, verdict,
                 sealed, observer, closer, load>>

-----------------------------------------------------------------------------
(* The SSH bridge keeps one owner per execution: it may terminate the        *)
(* process, waits for its exit and for its output, and releases the entry.   *)

SshSignals(e) ==
  /\ e \in SshExecs /\ request[e] = "done" /\ entry[e] = "live"
  /\ \E s \in {"termed", "doomed"} : proc[e] # s /\ proc' = Signalled({e}, s)
  /\ proc' # proc
  /\ UNCHANGED <<registryVars, requestVars, slot, stateVars, taskVars, callVars>>

SshEnded(e) == slot[e] \in {"settled", "lost"}
SshReleases(e) ==
  /\ e \in SshExecs /\ request[e] = "done" /\ entry[e] = "live" /\ SshEnded(e)
  /\ lease[e] = NoClient
  /\ entry' = [entry EXCEPT ![e] = "none"]
  /\ owed' = owed \cup {e}
  /\ UNCHANGED <<aged, older, closing, manager, batch, requestVars, procVars,
                 stateVars, taskVars, callVars>>

-----------------------------------------------------------------------------
(* The calls on a session: each looks its entry up and acts on the session   *)
(* it cloned, after the registry's lock is released.                         *)

OnlyClient == UNCHANGED <<requestVars, procVars, stateVars, taskVars, closer, load>>
Looks(e) ==
  /\ older' = IF e \in Kept THEN Touch(e) ELSE older
  /\ UNCHANGED <<entry, aged, closing, manager, batch, owed>>
Call(c, e, pc, got) ==
  client' = [client EXCEPT ![c] = [pc |-> pc, exec |-> e, got |-> got]]

Free(c) == c \in load.clients /\ client[c].pc = "idle"

LookupAttach(c, e) ==
  /\ "attach" \in load.ops /\ Free(c)
  /\ \/ entry[e] = "live" /\ Call(c, e, "live", "none")
     \/ entry[e] = "retained" /\ Call(c, e, "kept", "none")
     \/ entry[e] = "tombstone" /\ UNCHANGED client
  /\ Looks(e) /\ OnlyClient

LookupWait(c, e) ==
  /\ "wait" \in load.ops /\ Free(c)
  /\ \/ entry[e] = "live" /\ Call(c, e, "waiting", "none")
     \/ entry[e] \in {"retained", "tombstone"} /\ Call(c, e, "answered", verdict[e])
  /\ Looks(e) /\ OnlyClient

LookupKill(c, e) ==
  /\ "kill" \in load.ops /\ Free(c) /\ entry[e] = "live"
  /\ Call(c, e, "killing", "none")
  /\ Looks(e) /\ OnlyClient

Answer(c) ==
  LET e == client[c].exec IN
  /\ client[c].pc = "waiting" /\ Verdict(e) # "none"
  /\ verdict' = [verdict EXCEPT ![e] = Verdict(e)]
  /\ client' = [client EXCEPT ![c].pc = "answered", ![c].got = Verdict(e)]
  /\ UNCHANGED <<registryVars, requestVars, procVars, outputVars, stdin, released,
                 taskVars, closer, load>>

Kill(c) ==
  /\ client[c].pc = "killing"
  /\ \E s \in {"termed", "doomed"} : proc' = Signalled({client[c].exec}, s)
  /\ client' = [client EXCEPT ![c] = Idle]
  /\ UNCHANGED <<registryVars, requestVars, slot, stateVars, taskVars, closer, load>>

(* attach_output up to the claim of the lease. A released session answers    *)
(* with a summary or an error. A live attach refused once, by another reader *)
(* or by the seal, is tried again as a retained one.                         *)
Attach(c) ==
  LET e == client[c].exec
      mode == client[c].pc
      refused == lease[e] # NoClient \/ (mode = "live" /\ e \in sealed)
  IN /\ mode \in {"live", "kept"}
     /\ client' = [client EXCEPT ![c] =
          IF e \in released THEN Idle
          ELSE IF ~refused THEN [@ EXCEPT !.pc = "leased"]
          ELSE IF mode = "live" THEN [@ EXCEPT !.pc = "kept"] ELSE Idle]
     /\ lease' = IF e \in released \/ refused THEN lease ELSE [lease EXCEPT ![e] = c]
     /\ UNCHANGED <<registryVars, requestVars, procVars, verdict, drain, sealed,
                    forwarder, stdin, released, taskVars, closer, load>>

(* The forwarder is stored, or aborted if the session was released since.    *)
GoneSinceNever(e) == FALSE
GoneSince(e) == e \in released
Stream(c) ==
  LET e == client[c].exec IN
  /\ client[c].pc = "leased"
  /\ IF GoneSince(e)
     THEN /\ client' = [client EXCEPT ![c] = Idle]
          /\ lease' = [lease EXCEPT ![e] = NoClient] /\ UNCHANGED forwarder
     ELSE /\ client' = [client EXCEPT ![c].pc = "streaming"]
          /\ forwarder' = [forwarder EXCEPT ![e] = c] /\ UNCHANGED lease
  /\ UNCHANGED <<registryVars, requestVars, procVars, verdict, drain, sealed,
                 stdin, released, taskVars, closer, load>>

Detach(c) ==
  LET e == client[c].exec IN
  /\ client' = [client EXCEPT ![c] = Idle]
  /\ lease' = [lease EXCEPT ![e] = NoClient]
  /\ forwarder' = [forwarder EXCEPT ![e] = NoClient]
  /\ UNCHANGED <<registryVars, requestVars, procVars, verdict, drain, sealed,
                 stdin, released, taskVars, closer, load>>

(* The reader gets the end of the output, or the drain's failure.            *)
StreamEnds(c) ==
  /\ client[c].pc = "streaming" /\ drain[client[c].exec] \in {"ended", "failed"}
  /\ Detach(c)

(* A client that goes away, or whose request is dropped before the stream    *)
(* is handed out, ends the forwarder.                                        *)
HangUp(c) ==
  \/ client[c].pc = "streaming" /\ Detach(c)
  \/ client[c].pc = "leased" /\ "drop" \in load.faults /\ Detach(c)

Forget(c) ==
  /\ client[c].pc \in {"cut", "answered"}
  /\ client' = [client EXCEPT ![c] = Idle]
  /\ UNCHANGED registryVars /\ OnlyClient

(* send_input: stdin moves out of the handle into a task, then the session   *)
(* tracks the task, or aborts it if it was released since.                   *)
TakeStdin(e) ==
  /\ "input" \in load.ops /\ entry[e] = "live" /\ stdin[e] = "held"
  /\ stdin' = [stdin EXCEPT ![e] = "loose"]
  /\ UNCHANGED <<registryVars, requestVars, procVars, verdict, outputVars, released,
                 taskVars, callVars>>

TrackStdin(e) ==
  /\ stdin[e] = "loose"
  /\ stdin' = [stdin EXCEPT ![e] = IF e \in released THEN "closed" ELSE "tracked"]
  /\ UNCHANGED <<registryVars, requestVars, procVars, verdict, outputVars, released,
                 taskVars, callVars>>

StdinEnds(e) ==
  /\ stdin[e] = "tracked"
  /\ stdin' = [stdin EXCEPT ![e] = "closed"]
  /\ UNCHANGED <<registryVars, requestVars, procVars, verdict, outputVars, released,
                 taskVars, callVars>>

-----------------------------------------------------------------------------
(* shutdown_all: the Shutdown call and the end of init may both be in it.    *)

Step(k, pc, targets) ==
  closer' = [closer EXCEPT ![k] = [pc |-> pc, targets |-> targets]]

CloseBegins(k) ==
  /\ k \in load.closers /\ closer[k].pc = "idle"
  /\ closing' = TRUE
  /\ Step(k, IF ~closing /\ manager = "running" THEN "joining" ELSE "collect", {})
  /\ UNCHANGED <<entry, aged, older, manager, batch, owed, requestVars, procVars,
                 stateVars, taskVars, client, load>>

CloseJoins(k) ==
  /\ closer[k].pc = "joining" /\ manager = "stopped"
  /\ Step(k, "collect", {})
  /\ UNCHANGED <<registryVars, requestVars, procVars, stateVars, taskVars, client, load>>

CloseTerminates(k) ==
  LET targets == {e \in Entries("live") \ released : Managed(e) /\ Alive(e)} IN
  /\ closer[k].pc = "collect"
  /\ proc' = Signalled({e \in targets : proc[e] = "running"}, "termed")
  /\ Step(k, "term", targets)
  /\ UNCHANGED <<registryVars, requestVars, slot, stateVars, taskVars, client, load>>

CloseKills(k) ==
  /\ closer[k].pc = "term"
  /\ proc' = Signalled(closer[k].targets, "doomed")
  /\ Step(k, "take", {})
  /\ UNCHANGED <<registryVars, requestVars, slot, stateVars, taskVars, client, load>>

CloseTakes(k) ==
  LET taken == {e \in Entries("live") \cup Entries("retained") : Managed(e)} IN
  /\ closer[k].pc = "take"
  /\ entry' = [e \in Execs |-> "none"]
  /\ older' = {} /\ aged' = {}
  /\ owed' = owed \cup taken
  /\ Step(k, "release", taken)
  /\ UNCHANGED <<closing, manager, batch, requestVars, procVars, stateVars,
                 taskVars, client, load>>

CloseEnds(k) ==
  /\ closer[k].pc = "release" /\ closer[k].targets \cap owed = {}
  /\ Step(k, "done", {})
  /\ UNCHANGED <<registryVars, requestVars, procVars, stateVars, taskVars, client, load>>

-----------------------------------------------------------------------------
RequestSteps(e) ==
  \/ Spawn(e) \/ Reject(e) \/ SpawnFails(e) \/ Publish(e) \/ Track(e) \/ Refuse(e)
  \/ AbortUnpublished(e) \/ DropRequest(e)
SystemSteps(e) == ProcExits(e) \/ Settle(e) \/ DrainEnds(e) \/ Expire(e)
TimerSteps(e) == Deadline(e) \/ DeadlineKill(e)
ObserverSteps(e) ==
  ObserverStarts(e) \/ ObserverSeesExit(e) \/ ObserverSeals(e) \/ Retain(e)
StdinSteps(e) == TakeStdin(e) \/ TrackStdin(e) \/ StdinEnds(e)
Serve(c) == Answer(c) \/ Kill(c) \/ Attach(c) \/ Stream(c) \/ StreamEnds(c)
ClientSteps(c) ==
  \/ \E e \in Execs : LookupAttach(c, e) \/ LookupWait(c, e) \/ LookupKill(c, e)
  \/ Serve(c) \/ HangUp(c) \/ Forget(c)
Close(k) ==
  \/ CloseJoins(k) \/ CloseTerminates(k) \/ CloseKills(k) \/ CloseTakes(k)
  \/ CloseEnds(k)

Next ==
  \/ \E e \in Execs :
       \/ Begin(e) \/ RequestSteps(e) \/ ReleaseReserved(e) \/ SystemSteps(e)
       \/ TimerSteps(e) \/ ObserverSteps(e) \/ Release(e) \/ StdinSteps(e)
       \/ SshSignals(e) \/ SshReleases(e)
  \/ \E c \in Clients : ClientSteps(c)
  \/ \E k \in Closers : CloseBegins(k) \/ Close(k)
  \/ Prune \/ ManagerStops

Spec == Init /\ [][Next]_vars

(* Tasks and admitted requests are polled; a process that was sent SIGKILL   *)
(* ends; the reaper deposits what has exited; expiries pass. Nothing makes a *)
(* process exit by itself, a pipe reach its end, a request arrive or a       *)
(* client call, read on or hang up; the SSH bridge releases once it has read *)
(* the output to its end. One condition per task is enough: a task is at one *)
(* place at a time.                                                          *)
Fairness ==
  /\ \A e \in Tenants \cup SshExecs :
       /\ WF_vars(RequestSteps(e)) /\ WF_vars(Release(e))
       /\ WF_vars(proc[e] = "doomed" /\ ProcExits(e)) /\ WF_vars(Settle(e))
  /\ \A e \in Tenants :
       /\ WF_vars(ReleaseReserved(e)) /\ WF_vars(ObserverSteps(e))
       /\ WF_vars(Expire(e))
  /\ \A e \in Timed : WF_vars(TimerSteps(e))
  /\ \A e \in SshExecs : WF_vars(drain[e] # "open" /\ SshReleases(e))
  /\ \A e \in Inits : WF_vars(RequestSteps(e)) /\ WF_vars(Settle(e))
  /\ \A c \in Clients : WF_vars(Serve(c))
  /\ \A k \in Closers : WF_vars(Close(k))
  /\ WF_vars(Prune) /\ WF_vars(ManagerStops)

FairSpec == Spec /\ Fairness
=============================================================================
