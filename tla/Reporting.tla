----------------------------- MODULE Reporting -----------------------------
(***************************************************************************)
(* What a host tells others: the callbacks of a job's runs (serviceFor),   *)
(* the outbox table (internal/store) and the processes that empty it       *)
(* (sbackup maintenance), over a network that loses and delays requests.   *)
(*                                                                         *)
(* An item is an event for the monitor or a notice for a notification      *)
(* destination.  A row of the outbox is known by its item: no item is      *)
(* queued twice.  The monitor is what MonitorServer checks of it: it       *)
(* records an event once and keeps it.  Runs of one job never overlap      *)
(* (JobExclusion in BackupRun), so one process stands for all of them.     *)
(***************************************************************************)
EXTENDS Integers, SequencesExt, FiniteSetsExt

CONSTANTS Maintainer,     \* processes that run sbackup maintenance
          Backup,         \* the process that runs the job
          Destination,    \* the job's enabled notifications, in order
          Monitor,        \* the monitor, as a destination
          BatchLimit,     \* rows DueOutbox returns at most (100)
          MaxPending,     \* monitoring.max_pending_events
          MaxRuns,        \* bound: runs in one behaviour
          MaxHeartbeats,  \* bound: heartbeats in one behaviour
          MaxCrashes,     \* bound: processes that die or exit on a database error
          MaxSwitches,    \* bound: changes of monitoring.enabled
          MaxDelayed      \* bound: requests given up and under way at once

ASSUME ReportingAssumption ==
  /\ Backup \notin Maintainer
  /\ Destination \in Seq(ToSet(Destination)) /\ Monitor \notin ToSet(Destination)
  /\ IsInjective(Destination)
  /\ {BatchLimit, MaxPending} \subseteq Nat \ {0}
  /\ {MaxRuns, MaxHeartbeats, MaxCrashes, MaxSwitches, MaxDelayed} \subseteq Nat

Process == Maintainer \cup {Backup}
RunId   == 1 .. MaxRuns

Started(r)   == [kind |-> "started", n |-> r, to |-> Monitor]
Completed(r) == [kind |-> "completed", n |-> r, to |-> Monitor]
Heartbeat(h) == [kind |-> "heartbeat", n |-> h, to |-> Monitor]
Notice(r, d) == [kind |-> "notice", n |-> r, to |-> d]

Item == {Started(r) : r \in RunId} \cup {Completed(r) : r \in RunId}
        \cup {Heartbeat(h) : h \in 1 .. MaxHeartbeats}
        \cup {Notice(r, d) : r \in RunId, d \in ToSet(Destination)}

VARIABLES
  enabled,   \* monitoring.enabled in config.yaml
  sees,      \* the value of it that each process loaded
  pc,        \* what each process does
  todo,      \* the items it has yet to send, the present one first
  run,       \* the number of runs begun
  ended,     \* whether the last of them has ended
  beats,     \* heartbeats made
  outbox,    \* rows [item, rank], ranked by created_at
  waiting,   \* items whose row has its next_attempt_at in the future
  inflight,  \* requests the sender gave up and that may still arrive
  log,       \* the events the monitor recorded, in the order they arrived
  notified,  \* notices that arrived
  issued,    \* history: items made
  lost,      \* history: items dropped: pruned, taken for sent while monitoring
             \* was off, not inserted, or in the memory of a dead process
  left,      \* history: items whose row was deleted
  crashes,   \* number of processes that died or exited early
  switches   \* number of changes of enabled

hostVars == <<sees, pc, todo>>
runVars  == <<run, ended, beats, issued>>
boxVars  == <<outbox, waiting, left>>
netVars  == <<inflight, log, notified>>
envVars  == <<enabled, crashes, switches>>
vars == <<hostVars, runVars, boxVars, netVars, envVars, lost>>

Init ==
  /\ enabled \in BOOLEAN
  /\ sees = [p \in Process |-> enabled]
  /\ pc = [p \in Process |-> "idle"]
  /\ todo = [p \in Process |-> <<>>]
  /\ run = 0 /\ ended = FALSE /\ beats = 0
  /\ outbox = {} /\ waiting = {} /\ left = {}
  /\ inflight = {} /\ log = <<>> /\ notified = {}
  /\ issued = {} /\ lost = {} /\ crashes = 0 /\ switches = 0

Goto(p, location, items) ==
  /\ pc' = [pc EXCEPT ![p] = location]
  /\ todo' = [todo EXCEPT ![p] = items]

---------------------------------------------------------------------------
(* Sending one item *)

\* The receiver gets the request; the monitor ignores an event it has
Received(i) ==
  /\ log' = IF i.to = Monitor /\ i \notin ToSet(log) THEN Append(log, i) ELSE log
  /\ notified' = IF i.to = Monitor THEN notified ELSE notified \cup {i}

\* Client.Send sends nothing, and reports no error, while monitoring is off
Ignored(p, i) == i.to = Monitor /\ ~sees[p]

SendSucceeds(p, i) ==
  /\ UNCHANGED inflight
  /\ IF Ignored(p, i) THEN UNCHANGED <<log, notified>> ELSE Received(i)

\* Refused, or given up after a timeout: it may have arrived, or yet arrive
SendFails(p, i) ==
  /\ ~Ignored(p, i)
  /\ inflight' \in {inflight, inflight \cup {i}}
  /\ Cardinality(inflight') <= MaxDelayed
  /\ UNCHANGED <<log, notified>>

Arrive(i) ==
  /\ i \in inflight
  /\ inflight' = inflight \ {i}
  /\ Received(i)
  /\ UNCHANGED <<hostVars, runVars, boxVars, envVars, lost>>

---------------------------------------------------------------------------
(* The table *)

Queued == {row.item : row \in outbox}
Due    == {row \in outbox : row.item \notin waiting}

Inserted(i) == outbox \cup {[item |-> i, rank |-> Cardinality(outbox) + 1]}

\* The place of a row among some rows, the oldest being the first
Place(row, rows) == Cardinality({q \in rows : q.rank <= row.rank})

\* The n oldest of some rows, in order
Oldest(rows, n) ==
  LET chosen == {r \in rows : Place(r, rows) <= n}
  IN [k \in 1 .. Cardinality(chosen) |->
        (CHOOSE r \in chosen : Place(r, rows) = k).item]

Newest(rows, n) ==
  {r \in rows : Cardinality({q \in rows : q.rank >= r.rank}) <= n}

Delete(items) ==
  LET kept == {row \in outbox : row.item \notin items}
  IN /\ outbox' = {[row EXCEPT !.rank = Place(row, kept)] : row \in kept}
     /\ waiting' = waiting \ items
     /\ left' = left \cup (items \cap Queued)

---------------------------------------------------------------------------
(* A run of the job, with its callbacks *)

BeginRun ==
  /\ pc[Backup] = "idle" /\ run < MaxRuns
  /\ run' = run + 1 /\ ended' = FALSE
  /\ sees' = [sees EXCEPT ![Backup] = enabled]
  /\ Goto(Backup, "reporting", IF enabled THEN <<Started(run + 1)>> ELSE <<>>)
  /\ issued' = issued \cup ToSet(todo'[Backup])
  /\ UNCHANGED <<beats, boxVars, netVars, envVars, lost>>

\* The notices, destination by destination, and then the event
Announcements(r) ==
  [k \in DOMAIN Destination |-> Notice(r, Destination[k])]
    \o (IF sees[Backup] THEN <<Completed(r)>> ELSE <<>>)

EndRun ==
  /\ pc[Backup] = "reporting" /\ todo[Backup] = <<>> /\ ~ended
  /\ ended' = TRUE
  /\ Goto(Backup, "reporting", Announcements(run))
  /\ issued' = issued \cup ToSet(Announcements(run))
  /\ UNCHANGED <<sees, run, beats, boxVars, netVars, envVars, lost>>

RunReturns ==
  /\ pc[Backup] = "reporting" /\ todo[Backup] = <<>> /\ ended
  /\ Goto(Backup, "idle", <<>>)
  /\ UNCHANGED <<sees, runVars, boxVars, netVars, envVars, lost>>

---------------------------------------------------------------------------
(* SendOrQueue and SendIDs *)

\* Maintenance goes on to prune once its heartbeat is sent or queued
AfterReport(p) == IF p = Backup THEN "reporting" ELSE "pruning"

Report(p) ==
  /\ pc[p] = "reporting" /\ todo[p] # <<>>
  /\ \/ SendSucceeds(p, Head(todo[p])) /\ Goto(p, AfterReport(p), Tail(todo[p]))
     \/ SendFails(p, Head(todo[p])) /\ Goto(p, "queueing", todo[p])
  /\ UNCHANGED <<sees, runVars, boxVars, envVars, lost>>

\* When the row cannot be inserted a run goes on to its next item, while
\* maintenance exits
Enqueue(p) ==
  LET i == Head(todo[p])
  IN /\ pc[p] = "queueing"
     /\ \/ /\ outbox' = Inserted(i)
           /\ Goto(p, AfterReport(p), Tail(todo[p]))
           /\ UNCHANGED lost
        \/ /\ lost' = lost \cup {i}
           /\ IF p = Backup THEN Goto(p, "reporting", Tail(todo[p]))
                            ELSE Goto(p, "idle", <<>>)
           /\ UNCHANGED outbox
     /\ UNCHANGED <<sees, runVars, waiting, left, netVars, envVars>>

---------------------------------------------------------------------------
(* sbackup maintenance *)

Maintain(p) ==
  /\ pc[p] = "idle"
  /\ sees' = [sees EXCEPT ![p] = enabled]
  /\ Goto(p, "draining", Oldest(Due, BatchLimit))
  /\ UNCHANGED <<runVars, boxVars, netVars, envVars, lost>>

DrainTo(p, i, location) ==
  /\ pc[p] = "draining" /\ todo[p] # <<>> /\ i = Head(todo[p])
  /\ Goto(p, location, todo[p])
  /\ UNCHANGED <<sees, runVars, boxVars, envVars, lost>>

Delivered(p, i) == SendSucceeds(p, i) /\ DrainTo(p, i, "completing")

\* Mutation: the error of Send stays in a variable of an inner block
UndeliveredUnseen(p, i) == SendFails(p, i) /\ DrainTo(p, i, "completing")

Undelivered(p, i) == SendFails(p, i) /\ DrainTo(p, i, "postponing")

\* Mutation: the row is the first of the table, not the one that was sent
CompleteFirst(p, i) ==
  /\ pc[p] = "completing" /\ i = Head(todo[p])
  /\ Delete(ToSet(Oldest(outbox, 1)))
  /\ lost' = IF Ignored(p, i) THEN lost \cup ({i} \cap Queued) ELSE lost
  /\ Goto(p, "draining", Tail(todo[p]))
  /\ UNCHANGED <<sees, runVars, netVars, envVars>>

\* CompleteOutbox, of a row that another process may have deleted already
Complete(p, i) ==
  /\ pc[p] = "completing" /\ i = Head(todo[p])
  /\ Delete({i})
  /\ lost' = IF Ignored(p, i) THEN lost \cup ({i} \cap Queued) ELSE lost
  /\ Goto(p, "draining", Tail(todo[p]))
  /\ UNCHANGED <<sees, runVars, netVars, envVars>>

\* Mutation: the whole row is written back
PostponeRow(p, i) ==
  /\ pc[p] = "postponing" /\ i = Head(todo[p])
  /\ waiting' = waiting \cup {i}
  /\ outbox' = IF i \in Queued THEN outbox ELSE Inserted(i)
  /\ Goto(p, "draining", Tail(todo[p]))
  /\ UNCHANGED <<sees, runVars, left, netVars, envVars, lost>>

\* Mutation: the time of the next attempt is kept although the row is gone
PostponeGone(p, i) ==
  /\ pc[p] = "postponing" /\ i = Head(todo[p])
  /\ waiting' = waiting \cup {i}
  /\ Goto(p, "draining", Tail(todo[p]))
  /\ UNCHANGED <<sees, runVars, outbox, left, netVars, envVars, lost>>

\* FailOutbox is an update: it does nothing to a row that is gone
Postpone(p, i) ==
  /\ pc[p] = "postponing" /\ i = Head(todo[p])
  /\ waiting' = waiting \cup ({i} \cap Queued)
  /\ Goto(p, "draining", Tail(todo[p]))
  /\ UNCHANGED <<sees, runVars, outbox, left, netVars, envVars, lost>>

\* Either statement may fail, and the process exits
Fatal(p) ==
  /\ crashes < MaxCrashes /\ pc[p] \in {"completing", "postponing"}
  /\ crashes' = crashes + 1
  /\ Goto(p, "idle", <<>>)
  /\ UNCHANGED <<sees, runVars, boxVars, netVars, enabled, switches, lost>>

\* monitoring.heartbeat_enabled may be set or not
Beat(p) ==
  /\ pc[p] = "draining" /\ todo[p] = <<>>
  /\ \/ /\ sees[p] /\ beats < MaxHeartbeats
        /\ beats' = beats + 1
        /\ issued' = issued \cup {Heartbeat(beats + 1)}
        /\ Goto(p, "reporting", <<Heartbeat(beats + 1)>>)
     \/ Goto(p, "pruning", <<>>) /\ UNCHANGED <<beats, issued>>
  /\ UNCHANGED <<sees, run, ended, boxVars, netVars, envVars, lost>>

\* By age, then by number; each statement may fail without the other
Prune(p) ==
  /\ pc[p] = "pruning"
  /\ \E expired \in 0 .. Cardinality(outbox) :
       LET fresh == {row \in outbox : row.rank > expired}
       IN \E kept \in {fresh, Newest(fresh, MaxPending)} :
            LET pruned == {row.item : row \in outbox \ kept}
            IN Delete(pruned) /\ lost' = lost \cup pruned
  /\ Goto(p, "idle", <<>>)
  /\ UNCHANGED <<sees, runVars, netVars, envVars>>

---------------------------------------------------------------------------
(* Time, the administrator, and crashes *)

\* next_attempt_at has come
Wake(i) ==
  /\ i \in waiting
  /\ waiting' = waiting \ {i}
  /\ UNCHANGED <<hostVars, runVars, outbox, left, netVars, envVars, lost>>

SwitchMonitoring ==
  /\ switches < MaxSwitches
  /\ enabled' = ~enabled /\ switches' = switches + 1
  /\ UNCHANGED <<hostVars, runVars, boxVars, netVars, crashes, lost>>

\* What the process had made and neither sent nor queued is gone
Crash(p) ==
  /\ crashes < MaxCrashes /\ pc[p] # "idle"
  /\ crashes' = crashes + 1
  /\ lost' = IF pc[p] \in {"reporting", "queueing"} THEN lost \cup ToSet(todo[p])
                                                    ELSE lost
  /\ Goto(p, "idle", <<>>)
  /\ UNCHANGED <<sees, runVars, boxVars, netVars, enabled, switches>>

---------------------------------------------------------------------------
Work(p) ==
  \/ Maintain(p) \/ Report(p) \/ Enqueue(p) \/ Beat(p) \/ Prune(p)
  \/ \E i \in Item :
       Delivered(p, i) \/ Undelivered(p, i) \/ Complete(p, i) \/ Postpone(p, i)

Next ==
  \/ BeginRun \/ EndRun \/ RunReturns \/ Report(Backup) \/ Enqueue(Backup)
  \/ \E p \in Maintainer : Work(p) \/ Fatal(p)
  \/ \E p \in Process : Crash(p)
  \/ \E i \in Item : Arrive(i) \/ Wake(i)
  \/ SwitchMonitoring

Spec == Init /\ [][Next]_vars

---------------------------------------------------------------------------
(* Correctness *)

TypeOK ==
  /\ enabled \in BOOLEAN /\ sees \in [Process -> BOOLEAN]
  /\ pc \in [Process -> {"idle", "reporting", "queueing", "draining",
                         "completing", "postponing", "pruning"}]
  /\ todo \in [Process -> Seq(Item)]
  /\ run \in 0 .. MaxRuns /\ ended \in BOOLEAN
  /\ beats \in 0 .. MaxHeartbeats
  /\ outbox \subseteq [item : Item, rank : Nat \ {0}]
  /\ waiting \subseteq Queued
  /\ inflight \cup notified \cup issued \cup lost \cup left \subseteq Item
  /\ log \in Seq(Item)
  /\ crashes \in 0 .. MaxCrashes /\ switches \in 0 .. MaxSwitches

\* What a process has made and neither sent nor queued
Making(location) == location \in {"reporting", "queueing"}
Hand(p) == IF Making(pc[p]) THEN ToSet(todo[p]) ELSE {}

InHand == UNION {Hand(p) : p \in Process}
Arrived == ToSet(log) \cup notified

\* Whatever a run or maintenance has to say arrives, waits in the outbox or is
\* still being sent, unless it was dropped for a reason the code accepts: not
\* because two processes worked on one row, because one died between the
\* sending and the update, or because an earlier item failed
NothingLost == issued \subseteq Arrived \cup Queued \cup InHand \cup lost

\* A row that was deleted, by the process that sent it or by pruning, never
\* comes back, although another process may still work on its copy of it
DeletedStaysDeleted == left \cap Queued = {}

\* Although nothing claims a row while it is worked on, the processes together
\* keep the promise of AtLeastOnce: only the maker of an item queues it, and
\* once; a row goes when its item arrived or is dropped; and nothing arrives
\* that was not made
Promise == INSTANCE AtLeastOnce WITH
  made <- issued, held <- InHand, queued <- Queued,
  arrived <- Arrived, dropped <- lost
PromiseKept == Promise!Spec

---------------------------------------------------------------------------
(* Claims of the documentation that the code does not keep *)

\* The run the panel shows the state of: the one of the last event recorded
RunEvents == SelectSeq(log, LAMBDA e : e.kind \in {"started", "completed"})

\* run.started makes the panel show a run as running (docs/MONITOR-PROTOCOL.md):
\* not after the monitor learned that the run has ended
EndedRunNotShownRunning ==
  RunEvents # <<>> /\ Last(RunEvents).kind = "started"
    => Completed(Last(RunEvents).n) \notin ToSet(log)
=============================================================================
