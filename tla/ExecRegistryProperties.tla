----------------------- MODULE ExecRegistryProperties -----------------------
(***************************************************************************)
(* What the registry promises the callers of Exec, Attach, Wait and Kill,  *)
(* and the guest that shuts down around them.                              *)
(***************************************************************************)
EXTENDS ExecRegistry

(* When shutdown_all has returned, no execution it owns runs on: published   *)
(* ones were signalled, and one that was still being spawned is refused and  *)
(* killed. Only a process whose request was dropped before it was published  *)
(* escapes.                                                                  *)
NoneSurvives ==
  (\E k \in Closers : closer[k].pc = "done") =>
    \A e \in Execs \ Inits :
      Alive(e) => \/ proc[e] = "doomed"
                  \/ request[e] \in {"spawned", "refused", "dropped"}

(* Every Wait of an execution gets the same answer, whether it asks the      *)
(* session, its snapshot or its tombstone, and whenever init dies: the       *)
(* diagnosis cannot be made twice (ExecutionState::terminal_exit).           *)
WaitsAgree ==
  \A c, d \in Clients :
    /\ client[c].pc = "answered" /\ client[d].pc = "answered"
    /\ client[c].exec = client[d].exec
    => client[c].got = client[d].got

(* A Wait loses its exit status only to a shutdown or an unpublished session:*)
(* retention, eviction, pruning and the SSH bridge release a session only    *)
(* after its exit is in the slot.                                            *)
NoLostWait ==
  \A c \in Clients :
    client[c].pc = "answered" /\ client[c].got = "lost" => closing

(* So what a Wait is told is true, for everyone who asks.                    *)
WaitsTold == WaitsAgree /\ NoLostWait

(* A released session holds no descriptor and no task: whatever was handed   *)
(* to it after the release was refused or aborted.                           *)
ReleasedHoldsNothing ==
  \A e \in released :
    /\ forwarder[e] = NoClient /\ stdin[e] \notin {"held", "tracked"}
    /\ e \notin tracked /\ drain[e] # "open"

(* A session is retained beyond the cap only when each of the retained ones  *)
(* is being read at that moment: retain() evicts every other one first,      *)
(* whoever attaches, reads on, hangs up or comes back between two exits.     *)
RetainedBounded ==
  [][Cardinality(Entries("retained")') > MaxRetained
       => \/ Entries("retained")' \subseteq Entries("retained")
          \/ \A e \in Entries("retained")' : lease'[e] # NoClient]_vars

-----------------------------------------------------------------------------
(* Liveness, under FairSpec. "P ends whenever it begins" is []<>~P.          *)

(* A reserved id is published or given back, even when the client goes away. *)
ReservationEnds == \A e \in Tenants : []<>(entry[e] # "reserved")

(* An Attach or a Wait on a process that has ended is answered, and a reader *)
(* of it reaches the end of its stream, whatever releases, retentions and    *)
(* shutdowns the session goes through meanwhile. Only an output that some    *)
(* descendant of the process holds open keeps its reader.                    *)
CallsAnswered ==
  \A c \in Clients :
    LET e == client[c].exec IN
    []<>(\/ client[c].pc \in {"idle", "cut", "answered"}
         \/ Alive(e)
         \/ client[c].pc = "streaming" /\ drain[e] = "open")

(* The session of a process that has ended gives its resources back unless   *)
(* it is being read: retention, pruning, refusal and a shutdown in the midst *)
(* of them strand none. Before a shutdown an output that a descendant holds  *)
(* open keeps its session. (A rejected command's session holds none.)        *)
SessionsReleased ==
  \A e \in Execs \ Inits :
    []<>~(/\ Managed(e) /\ ~Alive(e) /\ request[e] = "done"
          /\ e \notin released /\ lease[e] = NoClient
          /\ \/ drain[e] # "open"
             \/ \E k \in Closers : closer[k].pc = "done")

(* Readers may keep more sessions than the cap allows, but for no longer     *)
(* than they read: the others expire and are pruned.                         *)
ExcessEnds ==
  []<>(\/ Cardinality(Entries("retained")) <= MaxRetained
       \/ \A e \in Entries("retained") : lease[e] # NoClient)

(* What a request took, its id, its session's resources and its place among  *)
(* the retained sessions, is given back.                                     *)
GivenBack == ReservationEnds /\ SessionsReleased /\ ExcessEnds

=============================================================================
