---------------------------- MODULE AtLeastOnce ----------------------------
(***************************************************************************)
(* What the outbox promises for whatever sbackup has to say, with the      *)
(* processes, the requests and the order of rows abstracted away: an item  *)
(* is made once; it is in some process's hands until it was told, queued   *)
(* or given up; and it leaves the queue for good, when it has arrived or   *)
(* is dropped.  It may arrive again at any later time.  Reporting          *)
(* implements this with processes that work on copies of the rows.         *)
(***************************************************************************)
CONSTANT Item       \* events and notices

VARIABLES made,     \* items there have been
          held,     \* those yet to be told or queued
          queued,   \* those that wait in the outbox
          arrived,  \* those that reached their destination
          dropped   \* those that were given up

vars == <<made, held, queued, arrived, dropped>>

Init == made = {} /\ held = {} /\ queued = {} /\ arrived = {} /\ dropped = {}

Make(items) ==
  /\ made' = made \cup items /\ held' = held \cup items
  /\ UNCHANGED <<queued, arrived, dropped>>

LetGo(items) == held' = held \ items /\ UNCHANGED made

Tell(i) == LetGo({i}) /\ arrived' = arrived \cup {i} /\ UNCHANGED <<queued, dropped>>

Queue(i) == LetGo({i}) /\ queued' = queued \cup {i} /\ UNCHANGED <<arrived, dropped>>

\* A process dies, or the row of an item cannot be inserted
Abandon(items) ==
  LetGo(items) /\ dropped' = dropped \cup items /\ UNCHANGED <<queued, arrived>>

\* A queued item is sent, or a request given up earlier gets through after all
Arrive(i) ==
  arrived' = arrived \cup {i} /\ UNCHANGED <<made, held, queued, dropped>>

\* The row of an item that has arrived goes
Settle(i) ==
  /\ i \in arrived
  /\ queued' = queued \ {i}
  /\ UNCHANGED <<made, held, arrived, dropped>>

\* Too old, one too many, or not wanted while monitoring is off
Discard(items) ==
  /\ queued' = queued \ items /\ dropped' = dropped \cup items
  /\ UNCHANGED <<made, held, arrived>>

Next ==
  \/ \E items \in SUBSET held : Abandon(items)
  \/ \E i \in held : Tell(i) \/ Queue(i)
  \/ \E i \in made : Arrive(i)
  \/ \E i \in queued : Settle(i)
  \/ \E items \in SUBSET queued : Discard(items)
  \/ \E items \in SUBSET (Item \ made) : Make(items)

Spec == Init /\ [][Next]_vars
=============================================================================
