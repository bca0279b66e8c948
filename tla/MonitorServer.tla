--------------------------- MODULE MonitorServer ---------------------------
(***************************************************************************)
(* The monitor (internal/monitor): HTTP handlers that record signed events *)
(* concurrently, in two critical sections each, the state they keep in     *)
(* memory and replace on disk, the loss of either by a process crash or a  *)
(* power failure, and the separate process that registers a node in the    *)
(* same file (cmd/sbackup-monitor -add-node).                               *)
(*                                                                         *)
(* Clients and the network are external: an event is sent in several       *)
(* attempts, each under a nonce of its own, and a request may be lost,     *)
(* delayed, reordered or repeated, so any of them may arrive at any time.  *)
(* A request that is refused at once changes nothing and is left out.      *)
(***************************************************************************)
EXTENDS Integers, SequencesExt

CONSTANTS Handler,      \* goroutines that serve POST /api/v1/report
          Node,
          Report,       \* the events: [node, kind], in the order they occurred
          Window,       \* len(Reports) is cut to this (10000)
          Attempt,      \* attempts to send an event
          MaxRecorded,  \* bound: events recorded in one behaviour
          None

Kind == {"heartbeat", "running", "success", "warning", "failed"}

ASSUME MonitorAssumption ==
  /\ Report \in Seq([node : Node, kind : Kind])
  /\ Window \in Nat \ {0}
  /\ MaxRecorded \in Nat

Event == DOMAIN Report
Request == [event : Event, attempt : Attempt]
Time == 0 .. Len(Report)     \* an event's number is also its OccurredAt

\* A Node with its one job: LastHeartbeat, Status, LastSuccess, and
\* ConsecutiveFailures
NodeState == [heartbeat : Time, status : Kind \cup {"", "unknown"},
              success : Time, failures : Nat]

ASSUME NoneAssumption == None \notin Node /\ None \notin NodeState

\* State.  Two histories travel with each copy of it: log, every event recorded
\* in it (Reports is its end), and outdated, the nodes that a failed save put
\* back as they were before a concurrent request changed them.
State == [nodes : [Node -> NodeState \cup {None}], reports : Seq(Event),
          log : Seq(Event), outdated : SUBSET Node]

VARIABLES
  up,          \* whether the server runs
  mem,         \* its State in memory
  nonces,      \* requests it accepted
  disk,        \* state.json
  durable,     \* state.json as a power failure may leave it
  pc,          \* what each handler does
  request,     \* the request it serves, or None
  view,        \* the copy of the node its first critical section took
  adder,       \* what a process that adds a node loaded, or None
  added,       \* history: nodes a process reported as added
  accepted,    \* history: events answered with ok, duplicates included
  unsynced,    \* history: events answered so from a file not yet durable
  undone,      \* history: those of them that a power failure undid since
  overwritten  \* history: events dropped from state.json by a node's addition

answerVars == <<accepted, unsynced, undone>>
serverVars == <<up, mem, nonces, pc, request, view, answerVars>>
fileVars   == <<disk, durable>>
adderVars  == <<adder, added, overwritten>>
vars == <<serverVars, fileVars, adderVars>>

Fresh == [heartbeat |-> 0, status |-> "", success |-> 0, failures |-> 0]
Empty == [nodes |-> [n \in Node |-> None], reports |-> <<>>, log |-> <<>>,
          outdated |-> {}]

Init ==
  /\ up = TRUE /\ mem = Empty /\ nonces = {}
  /\ disk = Empty /\ durable = Empty
  /\ pc = [h \in Handler |-> "idle"]
  /\ request = [h \in Handler |-> None]
  /\ view = [h \in Handler |-> None]
  /\ adder = None /\ added = {}
  /\ accepted = {} /\ unsynced = {} /\ undone = {} /\ overwritten = {}

---------------------------------------------------------------------------
(* What an event does to the state *)

\* Mutation: a success takes one failure back instead of resetting the count
UpdatedCountingDown(s, e) ==
  CASE Report[e].kind = "heartbeat" -> [s EXCEPT !.heartbeat = e]
    [] Report[e].kind = "failed" ->
         [s EXCEPT !.status = "failed", !.failures = @ + 1]
    [] OTHER ->
         [s EXCEPT !.status = Report[e].kind, !.success = e, !.failures = @ - 1]

Updated(s, e) ==
  CASE Report[e].kind = "heartbeat" -> [s EXCEPT !.heartbeat = e]
    [] Report[e].kind = "running" -> [s EXCEPT !.status = "running"]
    [] Report[e].kind = "failed" ->
         [s EXCEPT !.status = "failed", !.failures = @ + 1]
    [] OTHER ->
         [s EXCEPT !.status = Report[e].kind, !.success = e, !.failures = 0]

Trimmed(s) == IF Len(s) > Window THEN SubSeq(s, Len(s) - Window + 1, Len(s)) ELSE s

Recorded(s, e) ==
  [nodes |-> [s.nodes EXCEPT ![Report[e].node] = Updated(@, e)],
   reports |-> Trimmed(Append(s.reports, e)),
   log |-> Append(s.log, e),
   outdated |-> s.outdated]

\* Mutation: only nonces are compared, not event identifiers
DuplicateIgnored(e) == FALSE

Duplicate(e) == \E i \in DOMAIN mem.reports : mem.reports[i] = e

\* Whether an event was recorded in a state
Holds(s, e) == \E i \in DOMAIN s.log : s.log[i] = e

(* saveLocked: a temporary file, fsync, rename over state.json, fsync of   *)
(* the directory; until that last one a power failure may undo the rename  *)

\* Mutation: the directory is not synchronised
SavedUnsynced(s) == disk' = s /\ UNCHANGED durable

Saved(s) == disk' = s /\ durable' = s
SaveFails(s) == UNCHANGED durable /\ disk' \in {disk, s}

---------------------------------------------------------------------------
(* A request *)

\* First critical section: node and nonce are looked up, the node is copied
Look(h, x) ==
  LET n == Report[x.event].node
  IN /\ up /\ pc[h] = "idle"
     /\ mem.nodes[n] # None /\ x \notin nonces
     /\ pc' = [pc EXCEPT ![h] = "looked"]
     /\ request' = [request EXCEPT ![h] = x]
     /\ view' = [view EXCEPT ![h] = mem.nodes[n]]
     /\ UNCHANGED <<up, mem, nonces, answerVars, fileVars, adderVars>>

Done(h) ==
  /\ pc' = [pc EXCEPT ![h] = "idle"]
  /\ request' = [request EXCEPT ![h] = None]
  /\ view' = [view EXCEPT ![h] = None]

\* Second critical section, when the request was accepted in the meantime: 401
RefuseReplay(h) ==
  /\ pc[h] = "looked" /\ request[h] \in nonces
  /\ Done(h)
  /\ UNCHANGED <<up, mem, nonces, answerVars, fileVars, adderVars>>

\* Second critical section, when the event is among the reports: ok, as a
\* duplicate, which its sender takes for a delivery; nothing is saved
AnswerDuplicate(h) ==
  LET e == request[h].event
  IN /\ pc[h] = "looked" /\ request[h] \notin nonces /\ Duplicate(e)
     /\ accepted' = accepted \cup {e}
     /\ unsynced' = IF Holds(durable, e) THEN unsynced ELSE unsynced \cup {e}
     /\ undone' = undone \ {e}
     /\ Done(h)
     /\ UNCHANGED <<up, mem, nonces, fileVars, adderVars>>

\* Mutation: a failed save restores the reports, not the node
RolledBackReports(h) ==
  [mem EXCEPT !.nodes[Report[request[h].event].node] = Updated(@, request[h].event)]

\* After a failed save: the node as the first section copied it
RolledBack(h) ==
  LET n == Report[request[h].event].node
  IN [mem EXCEPT !.nodes[n] = view[h],
                 !.outdated = IF view[h] = mem.nodes[n] THEN @ ELSE @ \cup {n}]

\* Second critical section, for a new event
Record(h) ==
  LET e == request[h].event
      new == Recorded(mem, e)
  IN /\ pc[h] = "looked" /\ request[h] \notin nonces /\ ~Duplicate(e)
     /\ Len(mem.log) < MaxRecorded
     /\ \/ /\ Saved(new)
           /\ mem' = new
           /\ nonces' = nonces \cup {request[h]}
           /\ accepted' = accepted \cup {e}
           /\ unsynced' = {x \in unsynced : ~Holds(durable', x)}
           /\ undone' = undone \cap unsynced'
        \/ /\ SaveFails(new)
           /\ mem' = RolledBack(h)
           /\ UNCHANGED <<nonces, answerVars>>
     /\ Done(h)
     /\ UNCHANGED <<up, adderVars>>

\* An accepted nonce is forgotten after ten minutes.  That its timestamp is
\* refused by then is not assumed: the request may arrive once more.
ExpireNonce(x) ==
  /\ x \in nonces
  /\ nonces' = nonces \ {x}
  /\ UNCHANGED <<up, mem, pc, request, view, answerVars, fileVars, adderVars>>

---------------------------------------------------------------------------
(* Crashes, restarts, and the addition of a node by another process *)

ServerStops ==
  /\ up' = FALSE /\ mem' = Empty /\ nonces' = {}
  /\ pc' = [h \in Handler |-> "idle"]
  /\ request' = [h \in Handler |-> None]
  /\ view' = [h \in Handler |-> None]

Crash ==
  /\ up
  /\ ServerStops
  /\ UNCHANGED <<answerVars, fileVars, adderVars>>

PowerFailure ==
  /\ ServerStops
  /\ disk' \in {disk, durable} /\ durable' = disk'
  /\ unsynced' = {x \in unsynced : ~Holds(durable', x)} /\ undone' = unsynced'
  /\ adder' = None
  /\ UNCHANGED <<accepted, added, overwritten>>

\* New, with load
Start ==
  /\ ~up
  /\ up' = TRUE /\ mem' = disk
  /\ UNCHANGED <<nonces, pc, request, view, answerVars, fileVars, adderVars>>

LoadToAdd(n) ==
  /\ adder = None
  /\ adder' = [node |-> n, state |-> disk]
  /\ UNCHANGED <<serverVars, fileVars, added, overwritten>>

\* AddNode: a node that exists keeps its jobs
AddNode ==
  LET new == [adder.state EXCEPT !.nodes[adder.node] = IF @ = None THEN Fresh ELSE @]
      dropped == {e \in Event : Holds(disk, e) /\ ~Holds(new, e)}
  IN /\ adder # None
     /\ \/ Saved(new) /\ added' = added \cup {adder.node}
        \/ SaveFails(new) /\ UNCHANGED added
     /\ overwritten' = IF disk' = disk THEN overwritten ELSE overwritten \cup dropped
     /\ adder' = None
     /\ UNCHANGED serverVars

---------------------------------------------------------------------------
Next ==
  \/ \E h \in Handler, x \in Request : Look(h, x)
  \/ \E h \in Handler : RefuseReplay(h) \/ AnswerDuplicate(h) \/ Record(h)
  \/ \E x \in nonces : ExpireNonce(x)
  \/ Crash \/ PowerFailure \/ Start
  \/ \E n \in Node : LoadToAdd(n)
  \/ AddNode

Spec == Init /\ [][Next]_vars
---------------------------------------------------------------------------
(* Correctness *)

TypeOK ==
  /\ up \in BOOLEAN
  /\ {mem, disk, durable} \subseteq State
  /\ nonces \subseteq Request
  /\ pc \in [Handler -> {"idle", "looked"}]
  /\ request \in [Handler -> Request \cup {None}]
  /\ view \in [Handler -> NodeState \cup {None}]
  /\ adder \in [node : Node, state : State] \cup {None}
  /\ added \subseteq Node
  /\ {accepted, unsynced, undone, overwritten} \subseteq SUBSET Event

\* However often an event is sent, by whichever handlers, across restarts and
\* failed saves, it counts again only once Window newer reports pushed it out
CountedOnce ==
  \A s \in {mem, disk, durable} :
    \A i, j \in DOMAIN s.log : i < j /\ s.log[i] = s.log[j] => j - i > Window

\* An event answered with ok, as new or as a duplicate, stays in state.json
\* through crashes, restarts, the failed saves of later events and power failures,
\* unless a node's addition overwrote it.  One answered as a duplicate out of a
\* file whose save had failed is lost if a power failure undoes that save, and
\* only then: not by a crash, nor after the next save that succeeds
AcceptedIsDurable ==
  \A e \in accepted \ overwritten :
    /\ Holds(disk, e) \/ e \in undone
    /\ Holds(durable, e) \/ e \in unsynced

\* The positions in a log of the events of some kinds that are about a node
At(l, n, kinds) ==
  {i \in DOMAIN l : Report[l[i]].node = n /\ Report[l[i]].kind \in kinds}
Latest(i, positions) == i \in positions /\ \A j \in positions : j <= i

Successes == {"success", "warning"}

\* Failures after the last run that succeeded
Unmended(l, n) ==
  {i \in At(l, n, {"failed"}) : \A j \in At(l, n, Successes) : j < i}

\* What a log says of a node: when it was last heard of, how its last run went,
\* which run was the last to succeed and how many failed since
Summary(node, l, n) ==
  LET beats == At(l, n, {"heartbeat"})
      runs == At(l, n, Kind \ {"heartbeat"})
      successes == At(l, n, Successes)
  IN /\ IF beats = {} THEN node.heartbeat = 0
        ELSE \E i \in beats : Latest(i, beats) /\ node.heartbeat = l[i]
     /\ IF runs = {} THEN node.status = ""
        ELSE \E i \in runs : Latest(i, runs) /\ node.status = Report[l[i]].kind
     /\ IF successes = {} THEN node.success = 0
        ELSE \E i \in successes : Latest(i, successes) /\ node.success = l[i]
     /\ node.failures = Cardinality(Unmended(l, n))

\* What the panel shows of a node, its consecutive failures included, is what
\* the recorded events say, through crashes, failed saves and additions of
\* nodes.  Excepted are only the nodes that a failed save put back as they were
\* before a concurrent request for the same node, in the copies made since.
NodeMatchesLog ==
  \A s \in {mem, disk, durable}, n \in Node :
    s.nodes[n] # None /\ n \notin s.outdated => Summary(s.nodes[n], s.log, n)

---------------------------------------------------------------------------
(* A claim of the documentation that the code does not keep *)

\* A node registered while the monitor runs (docs/TESTING.md) stays registered
RegistrationLasts == \A n \in added : disk.nodes[n] # None
=============================================================================
