-------------------------- MODULE ReportingProofs --------------------------
(***************************************************************************)
(* Theorems of Reporting for every set of maintenance processes and        *)
(* destinations and every bound: nothing that was to be said is lost       *)
(* unnoticed, no deleted row of the outbox comes back, the table keeps its *)
(* order, and the processes together keep the promise of AtLeastOnce.      *)
(***************************************************************************)
EXTENDS Reporting, FiniteSetTheorems, TLAPS

Location == {"idle", "reporting", "queueing", "draining", "completing", "postponing",
             "pruning"}

\* What is in the hand of p, which sees the monitor on or not, can be sent, and
\* none of it twice
Sendable(p, l, items, on) ==
  Making(l) =>
    /\ items \in Seq(Item)
    /\ \A j, k \in 1..Len(items) : items[j] = items[k] => j = k
    /\ l = "queueing" => items # <<>>
    /\ p \in Maintainer => Len(items) <= 1
    /\ \A k \in 1..Len(items) : items[k].to = Monitor => on

HostOK ==
  /\ pc \in [Process -> Location]
  /\ todo = [p \in Process |-> todo[p]] /\ sees = [p \in Process |-> sees[p]]
  /\ pc[Backup] \in {"idle", "reporting", "queueing"}
  /\ run \in 0..MaxRuns /\ (pc[Backup] # "idle" => run \in RunId)
  /\ ended \in BOOLEAN /\ beats \in 0..MaxHeartbeats
  /\ log \in Seq(Item)
  /\ \A row \in outbox : row = [item |-> row.item, rank |-> row.rank]
  /\ \A p \in Process : Sendable(p, pc[p], todo[p], sees[p])

\* An item that was made belongs to a run or heartbeat there has been
Made(i) ==
  /\ i.kind = "started" => i.n <= run
  /\ i.kind \in {"completed", "notice"} => i.n < run \/ (i.n = run /\ ended)
  /\ i.kind = "heartbeat" => i.n <= beats

IssuedOK ==
  /\ issued \subseteq Item /\ \A i \in issued : Made(i)
  /\ Queued \cup left \subseteq issued
  /\ \A p \in Process : Hand(p) \subseteq issued

\* What a process holds is new to the outbox, and no one else holds it
HandOK ==
  /\ \A p \in Process : Hand(p) \cap (Queued \cup left) = {}
  /\ \A p, q \in Process : p # q => Hand(p) \cap Hand(q) = {}

\* A row is deleted as sent only when it was, or as ignored
CompletingOK ==
  \A p \in Process : pc[p] = "completing" =>
    Head(todo[p]) \in Arrived \/ Ignored(p, Head(todo[p]))

IInv ==
  /\ HostOK /\ IssuedOK /\ HandOK /\ CompletingOK
  /\ DeletedStaysDeleted /\ NothingLost

---------------------------------------------------------------------------
(* Sequences of items *)

\* Taking the first item away
LEMMA TailOf ==
  ASSUME NEW S, NEW s \in Seq(S), s # <<>>,
         \A j, k \in 1..Len(s) : s[j] = s[k] => j = k
  PROVE  /\ Head(s) \in ToSet(s) /\ ToSet(Tail(s)) = ToSet(s) \ {Head(s)}
         /\ Head(s) \in S /\ Tail(s) \in Seq(S) /\ Len(Tail(s)) = Len(s) - 1
         /\ Head(s) = s[1] /\ Len(s) \in Nat \ {0} /\ ToSet(s) = {s[k] : k \in 1..Len(s)}
         /\ \A k \in 1..Len(Tail(s)) : Tail(s)[k] = s[k + 1]
         /\ \A j, k \in 1..Len(Tail(s)) : Tail(s)[j] = Tail(s)[k] => j = k
<1>1. Len(s) \in Nat \ {0} /\ DOMAIN s = 1..Len(s) /\ Head(s) = s[1]
  OBVIOUS
<1>2. /\ Tail(s) \in Seq(S) /\ Len(Tail(s)) = Len(s) - 1
      /\ DOMAIN Tail(s) = 1..(Len(s) - 1)
      /\ \A k \in 1..(Len(s) - 1) : Tail(s)[k] = s[k + 1]
  BY <1>1
<1>3. Head(s) \in ToSet(s) /\ Head(s) \in S
  BY <1>1 DEF ToSet
<1>4. ToSet(Tail(s)) = ToSet(s) \ {Head(s)}
  <2>1. ASSUME NEW x \in ToSet(Tail(s)) PROVE x \in ToSet(s) \ {Head(s)}
    <3>1. PICK k \in 1..(Len(s) - 1) : x = s[k + 1]
      BY <1>2 DEF ToSet
    <3>2. k + 1 \in 1..Len(s) /\ k + 1 # 1 /\ 1 \in 1..Len(s)
      BY <1>1
    <3> QED BY <1>1, <3>1, <3>2 DEF ToSet
  <2>2. ASSUME NEW x \in ToSet(s) \ {Head(s)} PROVE x \in ToSet(Tail(s))
    <3>1. PICK k \in 1..Len(s) : x = s[k]
      BY <1>1 DEF ToSet
    <3>2. k # 1
      BY <1>1, <3>1
    <3>3. k - 1 \in 1..(Len(s) - 1) /\ (k - 1) + 1 = k
      BY <1>1, <3>2
    <3>4. Tail(s)[k - 1] = x
      BY <1>2, <3>1, <3>3
    <3> QED BY <1>2, <3>3, <3>4 DEF ToSet
  <2> QED BY <2>1, <2>2
<1>5. \A j, k \in 1..Len(Tail(s)) : Tail(s)[j] = Tail(s)[k] => j = k
  <2> SUFFICES ASSUME NEW j \in 1..(Len(s) - 1), NEW k \in 1..(Len(s) - 1),
                      Tail(s)[j] = Tail(s)[k]
               PROVE  j = k
    BY <1>2
  <2>1. j + 1 \in 1..Len(s) /\ k + 1 \in 1..Len(s)
    BY <1>1
  <2>2. s[j + 1] = s[k + 1]
    BY <1>2
  <2>3. j + 1 = k + 1
    BY <2>1, <2>2
  <2> QED BY <2>3
<1> QED BY <1>1, <1>2, <1>3, <1>4, <1>5 DEF ToSet

\* Receiving an item adds it to what has arrived
LEMMA ReceivedArrives ==
  ASSUME log \in Seq(Item), NEW i \in Item, Received(i)
  PROVE  log' \in Seq(Item) /\ Arrived' = Arrived \cup {i}
<1>1. /\ Append(log, i) \in Seq(Item)
      /\ ToSet(Append(log, i)) = ToSet(log) \cup {i}
  <2>1. /\ DOMAIN log = 1..Len(log) /\ Len(log) \in Nat
        /\ DOMAIN Append(log, i) = 1..(Len(log) + 1)
        /\ Append(log, i)[Len(log) + 1] = i
        /\ \A k \in 1..Len(log) : Append(log, i)[k] = log[k]
        /\ Append(log, i) \in Seq(Item)
    OBVIOUS
  <2>2. \A k \in 1..(Len(log) + 1) : k \in 1..Len(log) \/ k = Len(log) + 1
    BY <2>1
  <2> QED BY <2>1, <2>2 DEF ToSet
<1>2. CASE i.to = Monitor /\ i \notin ToSet(log)
  <2>1. log' = Append(log, i) /\ notified' = notified
    BY <1>2 DEF Received
  <2>2. ToSet(log)' = ToSet(log')
    BY DEF ToSet
  <2> QED BY <1>1, <2>1, <2>2 DEF Arrived
<1>3. CASE i.to # Monitor
  <2>1. log' = log /\ notified' = notified \cup {i}
    BY <1>3 DEF Received
  <2> QED BY <2>1 DEF Arrived, ToSet
<1>4. CASE i.to = Monitor /\ i \in ToSet(log)
  <2>1. log' = log /\ notified' = notified
    BY <1>4 DEF Received
  <2> QED BY <1>4, <2>1 DEF Arrived, ToSet
<1> QED BY <1>2, <1>3, <1>4

---------------------------------------------------------------------------
(* Steps of one process *)

\* What a step of p may do to the rows, to what is held and to the histories
Moves(p) ==
  /\ Hand(p)' \subseteq Hand(p) \cup (Item \ issued)
  /\ issued' = issued \cup Hand(p)'
  /\ Queued' \subseteq Queued \cup (Hand(p) \ Hand(p)')
  /\ left' = left \cup (Queued \ Queued')
  /\ Arrived \subseteq Arrived' /\ lost \subseteq lost'
  /\ Hand(p) \subseteq Hand(p)' \cup Arrived' \cup Queued' \cup lost'
  /\ Queued \subseteq Queued' \cup Arrived' \cup lost'

\* Where a step of p takes p, and what else it changes of the host
Places(p) ==
  /\ pc' = [pc EXCEPT ![p] = pc'[p]] /\ pc'[p] \in Location
  /\ todo' = [todo EXCEPT ![p] = todo'[p]] /\ sees' = [sees EXCEPT ![p] = sees'[p]]
  /\ p = Backup => pc'[p] \in {"idle", "reporting", "queueing"}
  /\ Sendable(p, pc[p], todo[p], sees[p])'
  /\ pc'[p] = "completing" =>
       Head(todo'[p]) \in Arrived' \/ (Head(todo'[p]).to = Monitor /\ ~sees'[p])
  /\ run' \in 0..MaxRuns /\ ended' \in BOOLEAN /\ beats' \in 0..MaxHeartbeats
  /\ pc'[Backup] # "idle" => run' \in RunId
  /\ log' \in Seq(Item)
  /\ \A row \in outbox' : row = [item |-> row.item, rank |-> row.rank]
  /\ \A i \in issued' : Made(i)'

\* A step within Places leaves what other processes hold alone
LEMMA PlacesHost ==
  ASSUME HostOK, NEW p \in Process, Places(p)
  PROVE  /\ HostOK'
         /\ \A q \in Process : q # p => Hand(q)' = Hand(q)
<1>1. /\ pc' \in [Process -> Location]
      /\ todo' = [q \in Process |-> todo'[q]] /\ sees' = [q \in Process |-> sees'[q]]
  BY DEF HostOK, Places
<1>2. \A q \in Process : q # p =>
        pc'[q] = pc[q] /\ todo'[q] = todo[q] /\ sees'[q] = sees[q]
  BY DEF HostOK, Places
<1>3. pc'[Backup] \in {"idle", "reporting", "queueing"}
  BY <1>2 DEF HostOK, Places, Process
<1>4. ASSUME NEW q \in Process PROVE Sendable(q, pc[q], todo[q], sees[q])'
  <2>1. CASE q = p
    BY <2>1 DEF Places
  <2>2. CASE q # p
    <3>1. Sendable(q, pc[q], todo[q], sees[q])
      BY DEF HostOK
    <3> QED BY <1>2, <2>2, <3>1 DEF Sendable, Making
  <2> QED BY <2>1, <2>2
<1>5. \A q \in Process : q # p => Hand(q)' = Hand(q)
  BY <1>2 DEF Hand, Making, ToSet
<1>6. HostOK'
  BY <1>1, <1>3, <1>4 DEF HostOK, Places
<1> QED BY <1>5, <1>6

\* A step within Places and Moves keeps the invariant
LEMMA ProcessStep ==
  ASSUME IInv, NEW p \in Process, Places(p), Moves(p)
  PROVE  IInv'
<1>1. HostOK' /\ \A q \in Process : q # p => Hand(q)' = Hand(q)
  BY PlacesHost DEF IInv
<1>2. IssuedOK'
  <2>1. issued \subseteq issued' /\ issued' \subseteq Item
    BY DEF Moves, IInv, IssuedOK
  <2>2. (Queued \cup left)' \subseteq issued'
    BY <2>1 DEF Moves, IInv, IssuedOK
  <2>3. \A q \in Process : Hand(q)' \subseteq issued'
    BY <1>1, <2>1 DEF Moves, IInv, IssuedOK
  <2> QED BY <2>1, <2>2, <2>3 DEF IssuedOK, Places
<1>3. HandOK'
  <2>1. ASSUME NEW q \in Process PROVE Hand(q)' \cap (Queued \cup left)' = {}
    BY <1>1 DEF Moves, IInv, HandOK, IssuedOK, DeletedStaysDeleted
  <2>2. ASSUME NEW q \in Process, NEW r \in Process, q # r
        PROVE  Hand(q)' \cap Hand(r)' = {}
    BY <1>1, <2>2 DEF Moves, IInv, HandOK, IssuedOK
  <2> QED BY <2>1, <2>2 DEF HandOK
<1>4. CompletingOK'
  <2> SUFFICES ASSUME NEW q \in Process, pc'[q] = "completing"
               PROVE  Head(todo'[q]) \in Arrived' \/ (Head(todo'[q]).to = Monitor /\ ~sees'[q])
    BY DEF CompletingOK, Ignored
  <2>1. CASE q = p
    BY <2>1 DEF Places
  <2>2. CASE q # p
    <3>1. pc[q] = "completing" /\ todo'[q] = todo[q] /\ sees'[q] = sees[q]
      BY <2>2 DEF Places, IInv, HostOK
    <3> QED BY <3>1 DEF Moves, IInv, CompletingOK, Ignored
  <2> QED BY <2>1, <2>2
<1>5. DeletedStaysDeleted'
  BY DEF DeletedStaysDeleted, Moves, IInv, HandOK
<1>6. NothingLost'
  <2>1. \A q \in Process : Hand(q) \subseteq InHand
    BY DEF Hand, Making, InHand
  <2>2. InHand = UNION {Hand(q) : q \in Process}
    BY DEF Hand, Making, InHand
  <2>3. InHand' = UNION {Hand(q)' : q \in Process}
    BY DEF Hand, Making, InHand
  <2> QED BY <1>1, <2>2, <2>3 DEF NothingLost, Moves, IInv
<1> QED BY <1>1, <1>2, <1>3, <1>4, <1>5, <1>6 DEF IInv

---------------------------------------------------------------------------
(* What the actions are made of *)

\* A process goes to a location with what it has yet to send
LEMMA Going ==
  ASSUME HostOK, NEW p \in Process, NEW l \in Location, NEW items, Goto(p, l, items)
  PROVE  /\ pc'[p] = l /\ todo'[p] = items
         /\ pc' = [pc EXCEPT ![p] = pc'[p]] /\ todo' = [todo EXCEPT ![p] = todo'[p]]
         /\ \A q \in Process : q # p => pc'[q] = pc[q]
BY DEF HostOK, Goto

\* Runs and heartbeats made stay so while none begins or ends
LEMMA RunsStay ==
  ASSUME IInv, UNCHANGED runVars
  PROVE  /\ run' \in 0..MaxRuns /\ ended' \in BOOLEAN /\ beats' \in 0..MaxHeartbeats
         /\ issued' = issued /\ \A i \in issued' : Made(i)'
BY DEF IInv, HostOK, IssuedOK, Made, runVars

\* A request that ends well has delivered its item, unless it was not sent
LEMMA Succeeds ==
  ASSUME HostOK, NEW p \in Process, NEW i \in Item, SendSucceeds(p, i)
  PROVE  /\ log' \in Seq(Item) /\ Arrived \subseteq Arrived'
         /\ i \in Arrived' \/ Ignored(p, i)
<1>1. CASE Ignored(p, i)
  <2>1. log' = log /\ notified' = notified
    BY <1>1 DEF SendSucceeds
  <2> QED BY <1>1, <2>1 DEF HostOK, Arrived, ToSet
<1>2. CASE ~Ignored(p, i)
  <2>1. Received(i)
    BY <1>2 DEF SendSucceeds
  <2> QED BY <2>1, ReceivedArrives DEF HostOK
<1> QED BY <1>1, <1>2

\* The network stays as it is, or only loses what it may
LEMMA Quiet ==
  ASSUME HostOK, UNCHANGED <<log, notified>>
  PROVE  log' \in Seq(Item) /\ Arrived' = Arrived
BY DEF HostOK, Arrived, ToSet

\* Deleting rows deletes these and nothing else
LEMMA Deletes ==
  ASSUME HostOK, NEW items, Delete(items)
  PROVE  /\ Queued' = Queued \ items /\ left' = left \cup (Queued \ Queued')
         /\ \A row \in outbox' : row = [item |-> row.item, rank |-> row.rank]
<1> DEFINE kept == {row \in outbox : row.item \notin items}
           rank(row) == Place(row, kept)
<1>1. outbox' = {[row EXCEPT !.rank = rank(row)] : row \in kept}
  BY DEF Delete
<1>2. \A row \in kept : [row EXCEPT !.rank = rank(row)]
                          = [item |-> row.item, rank |-> rank(row)]
  BY DEF HostOK
<1> HIDE DEF rank
<1>3. outbox' = {[item |-> row.item, rank |-> rank(row)] : row \in kept}
  BY <1>1, <1>2
<1>4. Queued' = {row.item : row \in outbox'}
  BY DEF Queued
<1>5. Queued' = Queued \ items
  <2>1. ASSUME NEW i \in Queued' PROVE i \in Queued \ items
    <3>1. PICK row \in kept : i = [item |-> row.item, rank |-> rank(row)].item
      BY <1>3, <1>4
    <3> QED BY <3>1 DEF Queued
  <2>2. ASSUME NEW i \in Queued \ items PROVE i \in Queued'
    <3>1. PICK row \in outbox : row.item = i
      BY DEF Queued
    <3>2. [item |-> row.item, rank |-> rank(row)] \in outbox'
      BY <1>3, <2>2, <3>1
    <3>3. [item |-> row.item, rank |-> rank(row)].item = i
      BY <3>1
    <3> QED BY <1>4, <3>2, <3>3
  <2> QED BY <2>1, <2>2
<1>6. left' = left \cup (items \cap Queued)
  BY DEF Delete
<1> QED BY <1>3, <1>5, <1>6

\* Inserting a row inserts its item
LEMMA Inserts ==
  ASSUME HostOK, NEW i, outbox' = Inserted(i)
  PROVE  /\ Queued' = Queued \cup {i}
         /\ \A row \in outbox' : row = [item |-> row.item, rank |-> row.rank]
<1> DEFINE n == Cardinality(outbox) + 1
<1>1. outbox' = outbox \cup {[item |-> i, rank |-> n]}
  BY DEF Inserted
<1> HIDE DEF n
<1>2. [item |-> i, rank |-> n].item = i /\ [item |-> i, rank |-> n].rank = n
  OBVIOUS
<1>3. Queued' = {row.item : row \in outbox'}
  BY DEF Queued
<1>4. Queued' = Queued \cup {i}
  BY <1>1, <1>2, <1>3 DEF Queued
<1>5. \A row \in outbox' : row = [item |-> row.item, rank |-> row.rank]
  BY <1>1, <1>2 DEF HostOK
<1> QED BY <1>4, <1>5

\* The rows stay as they are
LEMMA BoxStays ==
  ASSUME HostOK, UNCHANGED outbox
  PROVE  /\ Queued' = Queued
         /\ \A row \in outbox' : row = [item |-> row.item, rank |-> row.rank]
BY DEF HostOK, Queued

\* A step of p after which it holds nothing: what it held is dropped
LEMMA LetsGo ==
  ASSUME ReportingAssumption, IInv, NEW p \in Process, NEW l \in Location, NEW items,
         Goto(p, l, items), ~Making(l), p \in Maintainer \/ l = "idle",
         Hand(p) \subseteq lost', UNCHANGED runVars,
         sees' = [sees EXCEPT ![p] = sees'[p]],
         l = "completing" =>
           Head(items) \in Arrived' \/ (Head(items).to = Monitor /\ ~sees'[p]),
         log' \in Seq(Item), Arrived \subseteq Arrived', lost \subseteq lost',
         \A row \in outbox' : row = [item |-> row.item, rank |-> row.rank],
         Queued' \subseteq Queued, left' = left \cup (Queued \ Queued'),
         Queued \subseteq Queued' \cup Arrived' \cup lost'
  PROVE  IInv'
<1>1. /\ pc'[p] = l /\ todo'[p] = items
      /\ pc' = [pc EXCEPT ![p] = pc'[p]] /\ todo' = [todo EXCEPT ![p] = todo'[p]]
      /\ \A q \in Process : q # p => pc'[q] = pc[q]
  BY Going DEF IInv
<1>2. Hand(p)' = {}
  BY <1>1 DEF Hand, Making
<1>3. /\ run' \in 0..MaxRuns /\ ended' \in BOOLEAN /\ beats' \in 0..MaxHeartbeats
      /\ issued' = issued /\ \A i \in issued' : Made(i)'
  BY RunsStay
<1>4. Moves(p)
  BY <1>2, <1>3 DEF Moves
<1>5. pc'[Backup] # "idle" => run' \in RunId
  <2>1. pc'[Backup] # "idle" => pc[Backup] # "idle"
    BY <1>1 DEF ReportingAssumption, Process
  <2>2. pc[Backup] # "idle" => run \in RunId
    BY DEF IInv, HostOK
  <2>3. run' = run
    BY DEF runVars
  <2> QED BY <2>1, <2>2, <2>3 DEF RunId
<1>6. p = Backup => pc'[p] \in {"idle", "reporting", "queueing"}
  BY <1>1 DEF ReportingAssumption
<1>7. Sendable(p, pc[p], todo[p], sees[p])'
  BY <1>1 DEF Sendable
<1>8. Places(p)
  BY <1>1, <1>3, <1>5, <1>6, <1>7 DEF Places
<1> QED BY <1>4, <1>8, ProcessStep

\* Nothing is in hand outside of reporting and queueing
LEMMA NothingInHand ==
  ASSUME NEW p \in Process, ~Making(pc[p])
  PROVE  Hand(p) = {}
BY DEF Hand, Making

---------------------------------------------------------------------------
(* The actions after which a process holds nothing *)

\* A run whose items are all sent or queued ends
LEMMA RunReturnsStep ==
  ASSUME ReportingAssumption, IInv, RunReturns
  PROVE  IInv'
<1>1. Hand(Backup) = {} /\ Backup \in Process /\ "idle" \in Location /\ ~Making("idle")
  BY DEF RunReturns, Hand, Making, ToSet, Process, Location
<1>2. sees' = [sees EXCEPT ![Backup] = sees'[Backup]]
  BY <1>1 DEF RunReturns, IInv, HostOK
<1>3. Queued' = Queued /\ log' \in Seq(Item) /\ Arrived' = Arrived
      /\ \A row \in outbox' : row = [item |-> row.item, rank |-> row.rank]
  BY Quiet, BoxStays DEF RunReturns, boxVars, netVars, IInv
<1> QED BY <1>1, <1>2, <1>3, LetsGo DEF RunReturns, boxVars

\* Maintenance takes a copy of the oldest due rows
LEMMA MaintainStep ==
  ASSUME ReportingAssumption, IInv, NEW p \in Maintainer, Maintain(p)
  PROVE  IInv'
<1>1. /\ Hand(p) = {} /\ p \in Process
      /\ "draining" \in Location /\ ~Making("draining")
  BY NothingInHand DEF Maintain, Process, Location, Making
<1>2. sees' = [sees EXCEPT ![p] = sees'[p]]
  BY <1>1 DEF Maintain, IInv, HostOK
<1>3. Queued' = Queued /\ log' \in Seq(Item) /\ Arrived' = Arrived
      /\ \A row \in outbox' : row = [item |-> row.item, rank |-> row.rank]
  BY Quiet, BoxStays DEF Maintain, boxVars, netVars, IInv
<1> DEFINE items == Oldest(Due, BatchLimit)
<1>4. Goto(p, "draining", items)
  BY DEF Maintain
<1> HIDE DEF items
<1> QED BY <1>1, <1>2, <1>3, <1>4, LetsGo DEF Maintain, boxVars

\* A copied row is sent, or passed over with monitoring off
LEMMA DeliveredStep ==
  ASSUME ReportingAssumption, IInv, NEW p \in Maintainer, NEW i \in Item, Delivered(p, i)
  PROVE  IInv'
<1>1. /\ Hand(p) = {} /\ p \in Process
      /\ "completing" \in Location /\ ~Making("completing")
  BY NothingInHand DEF Delivered, DrainTo, Process, Location, Making
<1>2. sees' = [sees EXCEPT ![p] = sees'[p]]
  BY <1>1 DEF Delivered, DrainTo, IInv, HostOK
<1>3. /\ Queued' = Queued
      /\ \A row \in outbox' : row = [item |-> row.item, rank |-> row.rank]
  BY BoxStays DEF Delivered, DrainTo, boxVars, IInv
<1>4. /\ log' \in Seq(Item) /\ Arrived \subseteq Arrived'
      /\ i \in Arrived' \/ (i.to = Monitor /\ ~sees'[p])
  BY <1>1, Succeeds DEF Delivered, DrainTo, IInv, Ignored
<1>5. Goto(p, "completing", todo[p]) /\ i = Head(todo[p])
  BY DEF Delivered, DrainTo
<1> QED BY <1>1, <1>2, <1>3, <1>4, <1>5, LetsGo DEF Delivered, DrainTo, boxVars

\* A copied row could not be sent
LEMMA UndeliveredStep ==
  ASSUME ReportingAssumption, IInv, NEW p \in Maintainer, NEW i \in Item, Undelivered(p, i)
  PROVE  IInv'
<1>1. /\ Hand(p) = {} /\ p \in Process
      /\ "postponing" \in Location /\ ~Making("postponing")
  BY NothingInHand DEF Undelivered, DrainTo, Process, Location, Making
<1>2. sees' = [sees EXCEPT ![p] = sees'[p]]
  BY <1>1 DEF Undelivered, DrainTo, IInv, HostOK
<1>3. Queued' = Queued /\ log' \in Seq(Item) /\ Arrived' = Arrived
      /\ \A row \in outbox' : row = [item |-> row.item, rank |-> row.rank]
  BY Quiet, BoxStays DEF Undelivered, SendFails, DrainTo, boxVars, IInv
<1>4. Goto(p, "postponing", todo[p])
  BY DEF Undelivered, DrainTo
<1> QED BY <1>1, <1>2, <1>3, <1>4, LetsGo DEF Undelivered, DrainTo, boxVars

\* A row that was sent is deleted, unless another process did
LEMMA CompleteStep ==
  ASSUME ReportingAssumption, IInv, NEW p \in Maintainer, NEW i \in Item, Complete(p, i)
  PROVE  IInv'
<1>1. /\ Hand(p) = {} /\ p \in Process
      /\ "draining" \in Location /\ ~Making("draining")
  BY NothingInHand DEF Complete, Process, Location, Making
<1>2. sees' = [sees EXCEPT ![p] = sees'[p]]
  BY <1>1 DEF Complete, IInv, HostOK
<1>3. /\ Queued' = Queued \ {i} /\ left' = left \cup (Queued \ Queued')
      /\ \A row \in outbox' : row = [item |-> row.item, rank |-> row.rank]
  BY Deletes DEF Complete, IInv
<1>4. log' \in Seq(Item) /\ Arrived' = Arrived
  BY Quiet DEF Complete, netVars, IInv
<1>5. (i \in Queued => i \in Arrived \cup lost') /\ lost \subseteq lost'
  BY <1>1 DEF IInv, CompletingOK, Complete
<1>6. Goto(p, "draining", Tail(todo[p]))
  BY DEF Complete
<1> QED BY <1>1, <1>2, <1>3, <1>4, <1>5, <1>6, LetsGo DEF Complete

\* A row that was not sent waits, unless another process deleted it
LEMMA PostponeStep ==
  ASSUME ReportingAssumption, IInv, NEW p \in Maintainer, NEW i \in Item, Postpone(p, i)
  PROVE  IInv'
<1>1. /\ Hand(p) = {} /\ p \in Process
      /\ "draining" \in Location /\ ~Making("draining")
  BY NothingInHand DEF Postpone, Process, Location, Making
<1>2. sees' = [sees EXCEPT ![p] = sees'[p]]
  BY <1>1 DEF Postpone, IInv, HostOK
<1>3. Queued' = Queued /\ log' \in Seq(Item) /\ Arrived' = Arrived
      /\ \A row \in outbox' : row = [item |-> row.item, rank |-> row.rank]
  BY Quiet, BoxStays DEF Postpone, netVars, IInv
<1>4. Goto(p, "draining", Tail(todo[p]))
  BY DEF Postpone
<1> QED BY <1>1, <1>2, <1>3, <1>4, LetsGo DEF Postpone

\* Maintenance gives up when SQLite fails; its rows stay
LEMMA FatalStep ==
  ASSUME ReportingAssumption, IInv, NEW p \in Maintainer, Fatal(p)
  PROVE  IInv'
<1>1. /\ Hand(p) = {} /\ p \in Process
      /\ "idle" \in Location /\ ~Making("idle")
  BY NothingInHand DEF Fatal, Process, Location, Making
<1>2. sees' = [sees EXCEPT ![p] = sees'[p]]
  BY <1>1 DEF Fatal, IInv, HostOK
<1>3. Queued' = Queued /\ log' \in Seq(Item) /\ Arrived' = Arrived
      /\ \A row \in outbox' : row = [item |-> row.item, rank |-> row.rank]
  BY Quiet, BoxStays DEF Fatal, netVars, boxVars, IInv
<1>4. Goto(p, "idle", <<>>)
  BY DEF Fatal
<1> QED BY <1>1, <1>2, <1>3, <1>4, LetsGo DEF Fatal, boxVars

\* Rows past the limit or their age are deleted, and counted as lost
LEMMA PruneStep ==
  ASSUME ReportingAssumption, IInv, NEW p \in Maintainer, Prune(p)
  PROVE  IInv'
<1>1. /\ Hand(p) = {} /\ p \in Process
      /\ "idle" \in Location /\ ~Making("idle")
  BY NothingInHand DEF Prune, Process, Location, Making
<1>2. sees' = [sees EXCEPT ![p] = sees'[p]]
  BY <1>1 DEF Prune, IInv, HostOK
<1>3. \E pruned : Delete(pruned) /\ lost' = lost \cup pruned
  BY DEF Prune
<1>4. PICK pruned : Delete(pruned) /\ lost' = lost \cup pruned
  BY <1>3
<1>5. /\ Queued' = Queued \ pruned /\ left' = left \cup (Queued \ Queued')
      /\ \A row \in outbox' : row = [item |-> row.item, rank |-> row.rank]
  BY <1>4, Deletes DEF IInv
<1>6. log' \in Seq(Item) /\ Arrived' = Arrived
  BY Quiet DEF Prune, netVars, IInv
<1>7. Goto(p, "idle", <<>>)
  BY DEF Prune
<1> QED BY <1>1, <1>2, <1>4, <1>5, <1>6, <1>7, LetsGo DEF Prune

\* What a process that dies has not sent or queued is counted as lost
LEMMA CrashStep ==
  ASSUME ReportingAssumption, IInv, NEW p \in Process, Crash(p)
  PROVE  IInv'
<1>1. Hand(p) \subseteq lost' /\ lost \subseteq lost' /\ "idle" \in Location /\ ~Making("idle")
  BY DEF Crash, Hand, Making, Process, Location
<1>2. sees' = [sees EXCEPT ![p] = sees'[p]]
  BY DEF Crash, IInv, HostOK
<1>3. Queued' = Queued /\ log' \in Seq(Item) /\ Arrived' = Arrived
      /\ \A row \in outbox' : row = [item |-> row.item, rank |-> row.rank]
  BY Quiet, BoxStays DEF Crash, netVars, boxVars, IInv
<1>4. Goto(p, "idle", <<>>)
  BY DEF Crash
<1> QED BY <1>1, <1>2, <1>3, <1>4, LetsGo DEF Crash, boxVars

\* The receiver, time and the administrator
LEMMA OutsideStep ==
  ASSUME ReportingAssumption, IInv,
         UNCHANGED <<pc, todo, sees, runVars, outbox, left, lost>>,
         log' \in Seq(Item), Arrived \subseteq Arrived'
  PROVE  IInv'
<1>1. Backup \in Process
  BY DEF Process
<1>2. /\ pc' = [pc EXCEPT ![Backup] = pc'[Backup]]
      /\ todo' = [todo EXCEPT ![Backup] = todo'[Backup]]
      /\ sees' = [sees EXCEPT ![Backup] = sees'[Backup]]
  BY <1>1 DEF IInv, HostOK
<1>3. Queued' = Queued /\ \A row \in outbox' : row = [item |-> row.item, rank |-> row.rank]
  BY BoxStays DEF IInv
<1>4. Hand(Backup)' = Hand(Backup) /\ Hand(Backup) \subseteq issued
  BY <1>1 DEF Hand, Making, ToSet, IInv, IssuedOK
<1>5. Moves(Backup)
  BY <1>1, <1>3, <1>4 DEF Moves, runVars
<1>6. Sendable(Backup, pc[Backup], todo[Backup], sees[Backup])'
  BY <1>1 DEF IInv, HostOK, Sendable, Making
<1>7. /\ pc'[Backup] \in {"idle", "reporting", "queueing"}
      /\ pc'[Backup] # "idle" => run' \in RunId
  BY DEF IInv, HostOK, runVars, RunId
<1>8. /\ run' \in 0..MaxRuns /\ ended' \in BOOLEAN /\ beats' \in 0..MaxHeartbeats
      /\ issued' = issued /\ \A i \in issued' : Made(i)'
  BY RunsStay
<1>9. Places(Backup)
  BY <1>2, <1>3, <1>6, <1>7, <1>8 DEF Places, Location
<1> QED BY <1>1, <1>5, <1>9, ProcessStep

---------------------------------------------------------------------------
(* The actions of a process that holds something *)

\* A step of p that makes items, sends one or queues one
LEMMA Holds ==
  ASSUME ReportingAssumption, IInv, NEW p \in Process, NEW l \in Location, NEW items,
         Goto(p, l, items), p = Backup => l \in {"reporting", "queueing"},
         l # "completing", Sendable(p, l, items, sees'[p]),
         sees' = [sees EXCEPT ![p] = sees'[p]],
         run' \in 0..MaxRuns, ended' \in BOOLEAN, beats' \in 0..MaxHeartbeats,
         IF p = Backup THEN run' \in RunId ELSE run' = run,
         log' \in Seq(Item),
         \A row \in outbox' : row = [item |-> row.item, rank |-> row.rank],
         \A i \in issued' : Made(i)', Moves(p)
  PROVE  IInv'
<1>1. /\ pc'[p] = l /\ todo'[p] = items
      /\ pc' = [pc EXCEPT ![p] = pc'[p]] /\ todo' = [todo EXCEPT ![p] = todo'[p]]
      /\ \A q \in Process : q # p => pc'[q] = pc[q]
  BY Going DEF IInv
<1>2. pc'[Backup] # "idle" => run' \in RunId
  <2>1. CASE p = Backup
    BY <2>1
  <2>2. CASE p # Backup
    <3>1. pc'[Backup] = pc[Backup] /\ run' = run
      BY <1>1, <2>2 DEF Process
    <3> QED BY <3>1 DEF IInv, HostOK, RunId
  <2> QED BY <2>1, <2>2
<1>3. Sendable(p, pc[p], todo[p], sees[p])'
  BY <1>1 DEF Sendable
<1>4. Places(p)
  BY <1>1, <1>2, <1>3 DEF Places
<1> QED BY <1>4, ProcessStep

\* What p holds after a step, having held nothing before, was made in that step
Fresh(p) ==
  /\ Hand(p) = {} /\ Hand(p)' \subseteq Item \ issued
  /\ issued' = issued \cup Hand(p)'

\* A step that makes items moves nothing else
LEMMA Makes ==
  ASSUME IInv, NEW p \in Process, Fresh(p), UNCHANGED <<left, outbox, log, notified, lost>>
  PROVE  Moves(p)
<1>1. Queued' = Queued /\ Arrived' = Arrived
  BY Quiet, BoxStays DEF IInv
<1> QED BY <1>1 DEF Moves, Fresh

\* A run begins and has its start to report
LEMMA BeginRunStep ==
  ASSUME ReportingAssumption, IInv, BeginRun
  PROVE  IInv' /\ Fresh(Backup)
<1> DEFINE items == IF enabled THEN <<Started(run + 1)>> ELSE <<>>
<1>1. Backup \in Process /\ Backup \notin Maintainer /\ "reporting" \in Location
      /\ Making("reporting") /\ Hand(Backup) = {}
  BY DEF ReportingAssumption, Process, Location, Making, BeginRun, Hand, Making
<1>2. Goto(Backup, "reporting", items) /\ pc'[Backup] = "reporting" /\ todo'[Backup] = items
  BY <1>1, Going DEF BeginRun, IInv
<1>3. run' \in RunId /\ run' \in 0..MaxRuns /\ run' = run + 1 /\ run \in Nat
      /\ ended' = FALSE /\ beats' = beats /\ beats \in 0..MaxHeartbeats
  BY DEF ReportingAssumption, BeginRun, RunId, IInv, HostOK
<1>4. Started(run + 1) \in Item /\ Started(run + 1).to = Monitor
      /\ Started(run + 1).kind = "started" /\ Started(run + 1).n = run + 1
  BY <1>3 DEF Item, Started
<1>5. Started(run + 1) \notin issued
  BY <1>3, <1>4 DEF IInv, IssuedOK, Made
<1>6. ToSet(items) = IF enabled THEN {Started(run + 1)} ELSE {}
  BY DEF ToSet
<1>7. Hand(Backup)' = ToSet(items)
  BY <1>1, <1>2 DEF Hand, Making, ToSet
<1>8. issued' = issued \cup Hand(Backup)'
  BY <1>2, <1>7 DEF BeginRun, ToSet
<1>f. Fresh(Backup)
  BY <1>1, <1>4, <1>5, <1>6, <1>7, <1>8 DEF Fresh
<1>9. Moves(Backup)
  BY <1>1, <1>f, Makes DEF BeginRun, boxVars, netVars
<1>10. ASSUME NEW i \in issued' PROVE Made(i)'
  <2>1. CASE i \in issued
    <3>1. Made(i) /\ i \in Item
      BY <2>1 DEF IInv, IssuedOK
    <3>2. i.n \in Int
      BY <3>1 DEF Item, Started, Completed, Heartbeat, Notice, RunId
    <3> QED BY <1>3, <3>1, <3>2 DEF Made
  <2>2. CASE i = Started(run + 1)
    BY <1>3, <1>4, <2>2 DEF Made
  <2> QED BY <1>6, <1>7, <1>8, <2>1, <2>2
<1>11. sees' = [sees EXCEPT ![Backup] = sees'[Backup]] /\ sees'[Backup] = enabled
  BY <1>1 DEF BeginRun, IInv, HostOK
<1>12. Sendable(Backup, "reporting", items, sees'[Backup])
  <2>1. CASE enabled
    <3>1. items = <<Started(run + 1)>>
      BY <2>1
    <3>2. items \in Seq(Item) /\ Len(items) = 1 /\ items[1] = Started(run + 1)
      BY <1>4, <3>1
    <3> HIDE DEF items
    <3> QED BY <1>1, <1>11, <2>1, <3>2 DEF Sendable
  <2>2. CASE ~enabled
    BY <2>2 DEF Sendable
  <2> QED BY <2>1, <2>2
<1>13. log' \in Seq(Item) /\ \A row \in outbox' : row = [item |-> row.item, rank |-> row.rank]
  BY Quiet, BoxStays DEF BeginRun, boxVars, netVars, IInv
<1> QED
  BY <1>1, <1>2, <1>3, <1>f, <1>9, <1>10, <1>11, <1>12, <1>13, Holds DEF BeginRun

\* The items run r announces when it ends: no two are the same
Announced(r, s) ==
  /\ s \in Seq(Item)
  /\ \A j, k \in 1..Len(s) : s[j] = s[k] => j = k
  /\ \A k \in 1..Len(s) : /\ s[k].kind \in {"notice", "completed"} /\ s[k].n = r
                          /\ s[k].to = Monitor => sees[Backup]
  /\ ToSet(s) = {s[k] : k \in 1..Len(s)}

\* What a run announces: a notice per destination, then its completion
LEMMA AnnouncementsAre ==
  ASSUME ReportingAssumption, NEW r \in RunId
  PROVE  Announced(r, Announcements(r))
<1> DEFINE s == Announcements(r)
<1> DEFINE n == Len(Destination)
           notices == [k \in 1..n |-> Notice(r, Destination[k])]
           event == IF sees[Backup] THEN <<Completed(r)>> ELSE <<>>
<1>1. /\ n \in Nat /\ DOMAIN Destination = 1..n
      /\ \A k \in 1..n : Destination[k] \in ToSet(Destination)
      /\ \A j, k \in 1..n : Destination[j] = Destination[k] => j = k
  BY DEF ReportingAssumption, IsInjective, ToSet
<1>2. \A d : Notice(r, d).kind = "notice" /\ Notice(r, d).n = r /\ Notice(r, d).to = d
  BY DEF Notice
<1>3. /\ Completed(r) \in Item /\ Completed(r).kind = "completed"
      /\ Completed(r).n = r /\ Completed(r).to = Monitor
  BY DEF Completed, Item
<1>4. s = notices \o event
  BY <1>1 DEF Announcements
<1>5. /\ notices \in Seq(Item) /\ Len(notices) = n
      /\ \A k \in 1..n : notices[k] = Notice(r, Destination[k])
  <2>1. \A k \in 1..n : Notice(r, Destination[k]) \in Item
    BY <1>1 DEF Item
  <2> HIDE DEF n
  <2> QED BY <1>1, <2>1
<1>6. \A k \in 1..n : Destination[k] # Monitor
  BY <1>1 DEF ReportingAssumption
<1> HIDE DEF notices, n
<1> SUFFICES Announced(r, s)
  OBVIOUS
<1> HIDE DEF s
<1>7. CASE sees[Backup]
  <2>1. event = <<Completed(r)>>
    BY <1>7
  <2>2. /\ s \in Seq(Item) /\ Len(s) = n + 1 /\ s[n + 1] = Completed(r)
        /\ \A k \in 1..n : s[k] = Notice(r, Destination[k])
    <3>1. <<Completed(r)>> \in Seq(Item) /\ Len(<<Completed(r)>>) = 1
          /\ <<Completed(r)>>[1] = Completed(r)
      BY <1>3
    <3> QED BY <1>1, <1>4, <1>5, <2>1, <3>1
  <2>3. \A k \in 1..(n + 1) : k \in 1..n \/ k = n + 1
    BY <1>1
  <2>4. \A k \in 1..n : s[k].kind = "notice" /\ s[k].n = r /\ s[k].to = Destination[k]
    BY <1>2, <2>2
  <2>5. \A j, k \in 1..(n + 1) : s[j] = s[k] => j = k
    <3>1. \A j, k \in 1..n : s[j] = s[k] => j = k
      BY <1>1, <2>4
    <3>2. \A k \in 1..n : s[k] # s[n + 1]
      BY <1>3, <2>2, <2>4
    <3> QED BY <2>3, <3>1, <3>2
  <2>6. \A k \in 1..(n + 1) : /\ s[k].kind \in {"notice", "completed"} /\ s[k].n = r
                              /\ s[k].to = Monitor => sees[Backup]
    BY <1>3, <1>7, <2>2, <2>3, <2>4
  <2>7. Len(s) = n + 1 /\ DOMAIN s = 1..Len(s)
    BY <2>2
  <2>8. ToSet(s) = {s[k] : k \in 1..Len(s)}
    BY <2>7 DEF ToSet
  <2> QED BY <2>2, <2>5, <2>6, <2>7, <2>8 DEF Announced
<1>8. CASE ~sees[Backup]
  <2>1. event = <<>>
    BY <1>8
  <2>2. s \in Seq(Item) /\ Len(s) = n /\ \A k \in 1..n : s[k] = Notice(r, Destination[k])
    BY <1>1, <1>4, <1>5, <2>1
  <2>3. \A k \in 1..n : s[k].kind = "notice" /\ s[k].n = r /\ s[k].to = Destination[k]
    BY <1>2, <2>2
  <2>4. \A j, k \in 1..n : s[j] = s[k] => j = k
    BY <1>1, <2>3
  <2>5. Len(s) = n /\ DOMAIN s = 1..Len(s)
    BY <2>2
  <2>6. ToSet(s) = {s[k] : k \in 1..Len(s)}
    BY <2>5 DEF ToSet
  <2>7. \A k \in 1..Len(s) : /\ s[k].kind \in {"notice", "completed"} /\ s[k].n = r
                             /\ s[k].to = Monitor => sees[Backup]
    BY <1>6, <2>2, <2>3
  <2>8. \A j, k \in 1..Len(s) : s[j] = s[k] => j = k
    BY <2>2, <2>4
  <2> QED BY <2>2, <2>6, <2>7, <2>8 DEF Announced
<1> QED BY <1>7, <1>8

\* A run ends and has its announcements to make
LEMMA EndRunStep ==
  ASSUME ReportingAssumption, IInv, EndRun
  PROVE  IInv' /\ Fresh(Backup)
<1> DEFINE items == Announcements(run)
<1>1. Backup \in Process /\ Backup \notin Maintainer /\ "reporting" \in Location
      /\ Making("reporting") /\ Hand(Backup) = {}
  BY DEF ReportingAssumption, Process, Location, Making, EndRun, Hand, Making, ToSet
<1>2. Goto(Backup, "reporting", items) /\ pc'[Backup] = "reporting" /\ todo'[Backup] = items
  BY <1>1, Going DEF EndRun, IInv
<1>3. run \in RunId /\ run' = run /\ run \in 0..MaxRuns /\ ended' = TRUE /\ ~ended
      /\ beats' = beats /\ beats \in 0..MaxHeartbeats
  BY DEF EndRun, IInv, HostOK
<1>0. Announced(run, items) /\ issued' = issued \cup ToSet(items)
  BY <1>3, AnnouncementsAre DEF EndRun
<1> HIDE DEF items
<1>4. /\ items \in Seq(Item)
      /\ \A j, k \in 1..Len(items) : items[j] = items[k] => j = k
      /\ \A k \in 1..Len(items) : /\ items[k].kind \in {"notice", "completed"}
                                  /\ items[k].n = run
                                  /\ items[k].to = Monitor => sees[Backup]
      /\ ToSet(items) = {items[k] : k \in 1..Len(items)}
  BY <1>0 DEF Announced
<1>6. Hand(Backup)' = ToSet(items)
  BY <1>1, <1>2 DEF Hand, Making, ToSet
<1>7. \A i \in ToSet(items) : i \in Item /\ i.kind \in {"notice", "completed"} /\ i.n = run
  BY <1>4
<1>8. \A i \in ToSet(items) : i \notin issued
  <2>1. \A i \in issued : i.kind \in {"completed", "notice"} => i.n < run
    BY <1>3 DEF IInv, IssuedOK, Made
  <2>2. ~(run < run)
    BY <1>3
  <2> QED BY <1>7, <2>1, <2>2
<1>f. Fresh(Backup)
  BY <1>0, <1>1, <1>6, <1>7, <1>8 DEF Fresh
<1>9. Moves(Backup)
  BY <1>1, <1>f, Makes DEF EndRun, boxVars, netVars
<1>10. ASSUME NEW i \in issued' PROVE Made(i)'
  <2>1. CASE i \in issued
    <3>1. Made(i)
      BY <2>1 DEF IInv, IssuedOK
    <3> QED BY <1>3, <3>1 DEF Made
  <2>2. CASE i \in ToSet(items)
    BY <1>3, <1>7, <2>2 DEF Made
  <2> QED BY <1>0, <2>1, <2>2
<1>11. sees' = [sees EXCEPT ![Backup] = sees'[Backup]] /\ sees' = sees
  BY <1>1 DEF EndRun, IInv, HostOK
<1>12. Sendable(Backup, "reporting", items, sees'[Backup])
  BY <1>1, <1>4, <1>11 DEF Sendable
<1>13. log' \in Seq(Item) /\ \A row \in outbox' : row = [item |-> row.item, rank |-> row.rank]
  BY Quiet, BoxStays DEF EndRun, boxVars, netVars, IInv
<1> QED
  BY <1>1, <1>2, <1>3, <1>f, <1>9, <1>10, <1>11, <1>12, <1>13, Holds DEF EndRun

\* Maintenance has a heartbeat to report
LEMMA BeatStep ==
  ASSUME ReportingAssumption, IInv, NEW p \in Maintainer, Beat(p)
  PROVE  IInv' /\ Fresh(p)
<1> DEFINE beat == Heartbeat(beats + 1)
           items == <<beat>>
<1>1. /\ p \in Process /\ p # Backup /\ Hand(p) = {}
      /\ sees' = sees /\ sees' = [sees EXCEPT ![p] = sees'[p]]
  BY NothingInHand DEF ReportingAssumption, Process, Making, Beat, IInv, HostOK
<1>2. Queued' = Queued /\ log' \in Seq(Item) /\ Arrived' = Arrived
      /\ \A row \in outbox' : row = [item |-> row.item, rank |-> row.rank]
  BY Quiet, BoxStays DEF Beat, netVars, boxVars, IInv
<1>3. run' = run /\ run \in 0..MaxRuns /\ ended' = ended /\ ended \in BOOLEAN
      /\ beats \in 0..MaxHeartbeats
  BY DEF Beat, IInv, HostOK
<1>4. CASE Goto(p, "pruning", <<>>) /\ UNCHANGED <<beats, issued>>
  <2>1. "pruning" \in Location /\ ~Making("pruning")
    BY DEF Location, Making
  <2>2. UNCHANGED runVars /\ UNCHANGED boxVars /\ UNCHANGED lost
    BY <1>4 DEF Beat, runVars
  <2>3. Fresh(p)
    <3>1. pc'[p] = "pruning" /\ issued' = issued
      BY <1>1, <1>4, <2>1, Going DEF IInv
    <3> QED BY <1>1, <2>1, <3>1 DEF Fresh, Hand
  <2> QED BY <1>1, <1>2, <1>4, <2>1, <2>2, <2>3, LetsGo DEF boxVars
<1>5. CASE /\ sees[p] /\ beats < MaxHeartbeats /\ beats' = beats + 1
           /\ issued' = issued \cup {beat} /\ Goto(p, "reporting", items)
  <2>1. "reporting" \in Location /\ Making("reporting")
    BY DEF Location, Making
  <2>2. beats' = beats + 1 /\ beats \in Nat /\ beats' \in 0..MaxHeartbeats
    BY <1>3, <1>5 DEF ReportingAssumption
  <2>3. /\ beat \in Item /\ beat.kind = "heartbeat" /\ beat.n = beats + 1 /\ beat.to = Monitor
    BY <2>2 DEF Item, Heartbeat
  <2> HIDE DEF beat
  <2>4. /\ items \in Seq(Item) /\ Len(items) = 1 /\ items[1] = beat /\ ToSet(items) = {beat}
    BY <2>3 DEF ToSet
  <2> HIDE DEF items
  <2>5. beat \notin issued
    BY <2>2, <2>3 DEF IInv, IssuedOK, Made
  <2>6. pc'[p] = "reporting" /\ todo'[p] = items
    BY <1>1, <1>5, <2>1, Going DEF IInv
  <2>7. Hand(p)' = {beat}
    <3>1. ToSet(todo'[p]) = {beat}
      BY <2>4, <2>6
    <3> QED BY <2>1, <2>6, <3>1 DEF Hand, Making, ToSet
  <2>f. Fresh(p)
    BY <1>1, <1>5, <2>3, <2>5, <2>7 DEF Fresh
  <2>8. Moves(p)
    BY <1>1, <2>f, Makes DEF Beat, boxVars, netVars
  <2>9. ASSUME NEW i \in issued' PROVE Made(i)'
    <3>1. CASE i \in issued
      <4>1. Made(i) /\ i \in Item
        BY <3>1 DEF IInv, IssuedOK
      <4>2. i.n \in Int
        BY <4>1 DEF Item, Started, Completed, Heartbeat, Notice, RunId
      <4> QED BY <1>3, <2>2, <4>1, <4>2 DEF Made
    <3>2. CASE i = beat
      BY <2>2, <2>3, <3>2 DEF Made
    <3> QED BY <1>5, <3>1, <3>2
  <2>10. Sendable(p, "reporting", items, sees'[p])
    BY <1>1, <1>5, <2>4 DEF Sendable
  <2> QED
    BY <1>1, <1>2, <1>3, <1>5, <2>1, <2>2, <2>f, <2>8, <2>9, <2>10, Holds
<1> QED BY <1>4, <1>5 DEF Beat

\* What is left to send, once the first item is sent or queued
LEMMA RestIsSendable ==
  ASSUME NEW p \in Process, NEW l \in {"reporting", "queueing"}, NEW items, items # <<>>,
         NEW on, Sendable(p, l, items, on)
  PROVE  /\ Sendable(p, "reporting", Tail(items), on)
         /\ Head(items) \in Item /\ Head(items) \in ToSet(items)
         /\ ToSet(Tail(items)) = ToSet(items) \ {Head(items)}
         /\ p \in Maintainer => ToSet(items) = {Head(items)}
         /\ Head(items).to = Monitor => on
<1>1. /\ items \in Seq(Item) /\ \A j, k \in 1..Len(items) : items[j] = items[k] => j = k
      /\ p \in Maintainer => Len(items) <= 1
      /\ \A k \in 1..Len(items) : items[k].to = Monitor => on
  BY DEF Sendable, Making
<1>2. /\ Head(items) \in ToSet(items) /\ ToSet(Tail(items)) = ToSet(items) \ {Head(items)}
      /\ Head(items) \in Item /\ Tail(items) \in Seq(Item)
      /\ Len(Tail(items)) = Len(items) - 1
      /\ Head(items) = items[1] /\ Len(items) \in Nat \ {0}
      /\ ToSet(items) = {items[k] : k \in 1..Len(items)}
      /\ \A k \in 1..Len(Tail(items)) : Tail(items)[k] = items[k + 1]
      /\ \A j, k \in 1..Len(Tail(items)) : Tail(items)[j] = Tail(items)[k] => j = k
  BY <1>1, TailOf
<1> DEFINE rest == Tail(items)
           n == Len(items)
<1> HIDE DEF rest, n
<1>3. \A k \in 1..Len(rest) : rest[k].to = Monitor => on
  <2>1. Len(rest) = n - 1 /\ n \in Nat \ {0} /\ \A k \in 1..Len(rest) : rest[k] = items[k + 1]
    BY <1>2 DEF rest, n
  <2>2. \A k \in 1..Len(rest) : k + 1 \in 1..n
    BY <2>1
  <2> QED BY <1>1, <2>1, <2>2 DEF n
<1>4. p \in Maintainer => Len(rest) <= 1 /\ ToSet(items) = {Head(items)}
  <2>1. n \in Nat \ {0} /\ Len(rest) = n - 1 /\ ToSet(items) = {items[k] : k \in 1..n}
        /\ Head(items) = items[1] /\ (p \in Maintainer => n <= 1)
    BY <1>1, <1>2 DEF rest, n
  <2>2. p \in Maintainer => n = 1
    BY <2>1
  <2> QED BY <2>1, <2>2
<1>5. /\ Tail(items) = rest /\ rest \in Seq(Item)
      /\ \A j, k \in 1..Len(rest) : rest[j] = rest[k] => j = k
  BY <1>2 DEF rest
<1>6. Sendable(p, "reporting", rest, on)
  BY <1>3, <1>4, <1>5 DEF Sendable
<1>7. Head(items).to = Monitor => on
  BY <1>1, <1>2
<1> QED BY <1>2, <1>4, <1>5, <1>6, <1>7

\* A step that disposes of the first item p holds
LEMMA HeadLeaves ==
  ASSUME ReportingAssumption, IInv, NEW p \in Process,
         pc[p] \in {"reporting", "queueing"}, todo[p] # <<>>,
         \/ Goto(p, "reporting", Tail(todo[p]))
         \/ p \in Maintainer /\ \E l \in {"pruning", "idle"} : \E items : Goto(p, l, items),
         UNCHANGED <<sees, runVars, left>>,
         log' \in Seq(Item), Arrived \subseteq Arrived', lost \subseteq lost',
         \A row \in outbox' : row = [item |-> row.item, rank |-> row.rank],
         Queued \subseteq Queued', Queued' \subseteq Queued \cup {Head(todo[p])},
         Head(todo[p]) \in Arrived' \cup Queued' \cup lost'
  PROVE  IInv'
<1> DEFINE i == Head(todo[p])
<1> PICK l, items : /\ Goto(p, l, items)
                    /\ \/ l = "reporting" /\ items = Tail(todo[p])
                       \/ l \in {"pruning", "idle"} /\ p \in Maintainer
  OBVIOUS
<1>1. /\ l \in Location /\ l # "completing" /\ Making(pc[p])
      /\ p = Backup => l \in {"reporting", "queueing"}
  BY DEF Location, ReportingAssumption, Making
<1>2. Sendable(p, pc[p], todo[p], sees[p])
  BY DEF IInv, HostOK
<1>3. /\ Sendable(p, "reporting", Tail(todo[p]), sees[p])
      /\ i \in Item /\ i \in ToSet(todo[p])
      /\ ToSet(Tail(todo[p])) = ToSet(todo[p]) \ {i}
      /\ p \in Maintainer => ToSet(todo[p]) = {i}
  BY <1>2, RestIsSendable
<1>4. pc'[p] = l /\ todo'[p] = items
  BY <1>1, Going DEF IInv
<1>5. Hand(p) = ToSet(todo[p])
  BY <1>1 DEF Hand, Making
<1>6. Hand(p)' = Hand(p) \ {i}
  <2>1. Hand(p)' = IF Making(l) THEN ToSet(items) ELSE {}
    BY <1>4 DEF Hand, Making, ToSet
  <2> HIDE DEF i
  <2> QED BY <1>3, <1>5, <2>1 DEF Making
<1>7. Hand(p) \subseteq issued
  BY DEF IInv, IssuedOK
<1>8. /\ run' \in 0..MaxRuns /\ ended' \in BOOLEAN /\ beats' \in 0..MaxHeartbeats
      /\ issued' = issued /\ \A j \in issued' : Made(j)'
  BY RunsStay
<1>9. Moves(p)
  BY <1>3, <1>5, <1>6, <1>7, <1>8 DEF Moves
<1>10. Sendable(p, l, items, sees'[p])
  <2>1. sees' = sees
    OBVIOUS
  <2>2. CASE l = "reporting" /\ items = Tail(todo[p])
    BY <1>3, <2>1, <2>2
  <2>3. CASE l \in {"pruning", "idle"}
    BY <2>3 DEF Sendable, Making
  <2> QED BY <2>2, <2>3
<1>11. sees' = [sees EXCEPT ![p] = sees'[p]]
  BY DEF IInv, HostOK
<1>12. IF p = Backup THEN run' \in RunId ELSE run' = run
  <2>1. run' = run
    BY DEF runVars
  <2>2. p = Backup => run \in RunId
    BY DEF IInv, HostOK
  <2> QED BY <2>1, <2>2
<1> QED BY <1>1, <1>8, <1>9, <1>10, <1>11, <1>12, Holds

\* A process attempts to send what it holds
LEMMA ReportStep ==
  ASSUME ReportingAssumption, IInv, NEW p \in Process, Report(p)
  PROVE  IInv'
<1> DEFINE i == Head(todo[p])
<1>1. Sendable(p, "reporting", todo[p], sees[p]) /\ todo[p] # <<>> /\ pc[p] = "reporting"
  BY DEF IInv, HostOK, Report
<1>2. i \in Item /\ (i.to = Monitor => sees[p])
  BY <1>1, RestIsSendable
<1>3. Queued' = Queued /\ \A row \in outbox' : row = [item |-> row.item, rank |-> row.rank]
  BY BoxStays DEF Report, boxVars, IInv
<1>4. CASE SendSucceeds(p, i) /\ Goto(p, AfterReport(p), Tail(todo[p]))
  <2>1. log' \in Seq(Item) /\ Arrived \subseteq Arrived' /\ i \in Arrived'
    BY <1>2, <1>4, Succeeds DEF IInv, Ignored
  <2>2. \/ AfterReport(p) = "reporting"
        \/ AfterReport(p) = "pruning" /\ p \in Maintainer
    BY DEF AfterReport, Process
  <2>3. UNCHANGED <<sees, runVars, left, lost>>
    BY DEF Report, boxVars
  <2> QED BY <1>1, <1>3, <1>4, <2>1, <2>2, <2>3, HeadLeaves
<1>5. CASE SendFails(p, i) /\ Goto(p, "queueing", todo[p])
  <2>1. log' \in Seq(Item) /\ Arrived' = Arrived
    BY <1>5, Quiet DEF SendFails, IInv
  <2>2. "queueing" \in Location /\ "queueing" # "completing"
    BY DEF Location
  <2>3. /\ run' \in 0..MaxRuns /\ ended' \in BOOLEAN /\ beats' \in 0..MaxHeartbeats
        /\ issued' = issued /\ \A j \in issued' : Made(j)'
    BY RunsStay DEF Report
  <2>4. pc'[p] = "queueing" /\ todo'[p] = todo[p]
    BY <1>5, <2>2, Going DEF IInv
  <2>5. Hand(p)' = Hand(p) /\ Hand(p) \subseteq issued
    <3>1. Hand(p) = ToSet(todo[p])
      BY <1>1 DEF Hand, Making
    <3>2. Hand(p)' = ToSet(todo[p])
      BY <2>4 DEF Hand, Making, ToSet
    <3> QED BY <3>1, <3>2 DEF IInv, IssuedOK
  <2>6. Moves(p)
    BY <1>3, <2>1, <2>3, <2>5 DEF Moves, Report, boxVars
  <2>7. sees' = sees /\ sees' = [sees EXCEPT ![p] = sees'[p]]
    BY DEF Report, IInv, HostOK
  <2>8. Sendable(p, "queueing", todo[p], sees'[p])
    BY <1>1, <2>7 DEF Sendable, Making
  <2>9. IF p = Backup THEN run' \in RunId ELSE run' = run
    <3>1. run' = run
      BY DEF Report, runVars
    <3>2. p = Backup => run \in RunId
      BY <1>1 DEF IInv, HostOK
    <3> QED BY <3>1, <3>2
  <2> QED
    BY <1>3, <1>5, <2>1, <2>2, <2>3, <2>6, <2>7, <2>8, <2>9, Holds
<1> QED BY <1>4, <1>5 DEF Report

\* A process queues what it could not send
LEMMA EnqueueStep ==
  ASSUME ReportingAssumption, IInv, NEW p \in Process, Enqueue(p)
  PROVE  IInv'
<1> DEFINE i == Head(todo[p])
<1>1. pc[p] = "queueing" /\ todo[p] # <<>>
  BY DEF IInv, HostOK, Enqueue, Sendable, Making
<1>2. log' \in Seq(Item) /\ Arrived' = Arrived /\ UNCHANGED <<sees, runVars, left>>
  BY Quiet DEF Enqueue, netVars, IInv
<1>3. CASE outbox' = Inserted(i) /\ Goto(p, AfterReport(p), Tail(todo[p])) /\ UNCHANGED lost
  <2>1. Queued' = Queued \cup {i}
        /\ \A row \in outbox' : row = [item |-> row.item, rank |-> row.rank]
    BY <1>3, Inserts DEF IInv
  <2>2. \/ AfterReport(p) = "reporting"
        \/ AfterReport(p) = "pruning" /\ p \in Maintainer
    BY DEF AfterReport, Process
  <2> QED BY <1>1, <1>2, <1>3, <2>1, <2>2, HeadLeaves
<1>4. CASE /\ lost' = lost \cup {i} /\ UNCHANGED outbox
           /\ IF p = Backup THEN Goto(p, "reporting", Tail(todo[p]))
                            ELSE Goto(p, "idle", <<>>)
  <2>1. Queued' = Queued /\ \A row \in outbox' : row = [item |-> row.item, rank |-> row.rank]
    BY <1>4, BoxStays DEF IInv
  <2>2. CASE p = Backup
    BY <1>1, <1>2, <1>4, <2>1, <2>2, HeadLeaves
  <2>3. CASE p # Backup
    <3>1. p \in Maintainer
      BY <2>3 DEF Process
    <3> QED BY <1>1, <1>2, <1>4, <2>1, <2>3, <3>1, HeadLeaves
  <2> QED BY <2>2, <2>3
<1> QED BY <1>3, <1>4 DEF Enqueue

---------------------------------------------------------------------------
(* The invariant holds in every behaviour *)

\* The invariant holds at first
LEMMA IInvInit ==
  ASSUME ReportingAssumption, Init
  PROVE  IInv
<1>1. HostOK
  <2>1. /\ Backup \in Process
        /\ \A p \in Process : pc[p] = "idle" /\ pc[Backup] = "idle"
    BY DEF Init, Process
  <2>2. pc \in [Process -> Location]
    BY DEF Init, Location
  <2>3. todo = [p \in Process |-> todo[p]] /\ sees = [p \in Process |-> sees[p]]
    BY DEF Init
  <2>4. \A p \in Process : Sendable(p, pc[p], todo[p], sees[p])
    BY <2>1 DEF Sendable, Making
  <2>5. run \in 0..MaxRuns /\ ended \in BOOLEAN /\ beats \in 0..MaxHeartbeats
    <3>1. MaxRuns \in Nat /\ MaxHeartbeats \in Nat
      BY DEF ReportingAssumption
    <3>2. run = 0 /\ beats = 0
      BY DEF Init
    <3>3. ended \in BOOLEAN
      BY DEF Init
    <3> QED BY <3>1, <3>2, <3>3
  <2>6. log \in Seq(Item) /\ outbox = {}
    BY DEF Init
  <2> QED BY <2>1, <2>2, <2>3, <2>4, <2>5, <2>6 DEF HostOK
<1>2. \A p \in Process : Hand(p) = {}
  BY DEF Init, Hand, Making
<1>3. Queued = {} /\ left = {} /\ issued = {}
  BY DEF Init, Queued
<1> QED
  BY <1>1, <1>2, <1>3 DEF Init, IInv, IssuedOK, HandOK, CompletingOK, DeletedStaysDeleted,
                          NothingLost

\* Every step keeps the invariant
LEMMA IInvNext ==
  ASSUME ReportingAssumption, IInv, [Next]_vars
  PROVE  IInv'
<1>1. CASE BeginRun \/ EndRun \/ RunReturns
  BY <1>1, BeginRunStep, EndRunStep, RunReturnsStep
<1>2. CASE Report(Backup) \/ Enqueue(Backup)
  BY <1>2, ReportStep, EnqueueStep DEF Process
<1>3. CASE \E p \in Maintainer : Work(p) \/ Fatal(p)
  <2> SUFFICES ASSUME NEW p \in Maintainer, Work(p) \/ Fatal(p)
               PROVE  IInv'
    BY <1>3
  <2>1. p \in Process
    BY DEF Process
  <2>2. CASE Report(p) \/ Enqueue(p)
    BY <2>1, <2>2, ReportStep, EnqueueStep
  <2>3. CASE Maintain(p) \/ Beat(p) \/ Prune(p) \/ Fatal(p)
    BY <2>3, MaintainStep, BeatStep, PruneStep, FatalStep
  <2>4. CASE \E i \in Item : Delivered(p, i) \/ Undelivered(p, i) \/ Complete(p, i)
                               \/ Postpone(p, i)
    BY <2>4, DeliveredStep, UndeliveredStep, CompleteStep, PostponeStep
  <2> QED BY <2>2, <2>3, <2>4 DEF Work
<1>4. CASE \E p \in Process : Crash(p)
  BY <1>4, CrashStep
<1>5. CASE \E i \in Item : Arrive(i)
  <2> PICK i \in Item : Arrive(i)
    BY <1>5
  <2>1. log' \in Seq(Item) /\ Arrived \subseteq Arrived'
    BY ReceivedArrives DEF Arrive, IInv, HostOK
  <2> QED BY <2>1, OutsideStep DEF Arrive, hostVars, boxVars
<1>6. CASE (\E i \in Item : Wake(i)) \/ SwitchMonitoring \/ UNCHANGED vars
  <2>1. /\ UNCHANGED <<pc, todo, sees, runVars, outbox, left, lost>>
        /\ UNCHANGED <<log, notified>>
    BY <1>6 DEF Wake, SwitchMonitoring, vars, hostVars, boxVars, netVars, runVars
  <2>2. log' \in Seq(Item) /\ Arrived' = Arrived
    BY <2>1, Quiet DEF IInv
  <2> QED BY <2>1, <2>2, OutsideStep
<1> QED BY <1>1, <1>2, <1>3, <1>4, <1>5, <1>6 DEF Next

\* The invariant holds in every behaviour
LEMMA IInvInvariant == Spec => []IInv
<1>1. Init => IInv
  BY IInvInit, ReportingAssumption
<1>2. IInv /\ [Next]_vars => IInv'
  BY IInvNext, ReportingAssumption
<1> QED BY <1>1, <1>2, PTL DEF Spec

---------------------------------------------------------------------------
(* The theorems *)

\* However many maintenance processes work on copies of one row and however
\* they and the run are interrupted, a deleted row of the outbox stays deleted
THEOREM DeletedRowsStay == Spec => []DeletedStaysDeleted
<1>1. IInv => DeletedStaysDeleted
  BY DEF IInv
<1> QED BY <1>1, IInvInvariant, PTL

\* Nothing that a run or maintenance has to say disappears but for the reasons
\* the code accepts, for any number of processes, destinations and limits
THEOREM NothingDisappears == Spec => []NothingLost
<1>1. IInv => NothingLost
  BY DEF IInv
<1> QED BY <1>1, IInvInvariant, PTL

---------------------------------------------------------------------------
(***************************************************************************)
(* The table and its order: every row has its own age, so that "the oldest *)
(* rows" is well defined, whichever rows were deleted in between.          *)
(***************************************************************************)
Aged(rows) ==
  /\ IsFiniteSet(rows) /\ \A r \in rows : r.rank \in Nat
  /\ \A q, r \in rows : q.rank = r.rank => q = r

\* The places of the rows of a table are the numbers up to their count, each
\* taken once
LEMMA Places1ToN ==
  ASSUME NEW rows, Aged(rows)
  PROVE  /\ Cardinality(rows) \in Nat
         /\ \A r \in rows : Place(r, rows) \in 1..Cardinality(rows)
         /\ \A q, r \in rows : /\ q.rank < r.rank => Place(q, rows) < Place(r, rows)
                               /\ Place(q, rows) = Place(r, rows) => q = r
         /\ \A k \in 1..Cardinality(rows) : \E r \in rows : Place(r, rows) = k
<1> DEFINE n == Cardinality(rows)
           upto(r) == {q \in rows : q.rank <= r.rank}
<1>1. n \in Nat /\ IsFiniteSet(rows) /\ \A r \in rows : r.rank \in Nat
  BY FS_CardinalityType DEF Aged
<1>2. \A r \in rows : /\ IsFiniteSet(upto(r)) /\ Cardinality(upto(r)) \in Nat
                      /\ Cardinality(upto(r)) <= n /\ Cardinality(upto(r)) # 0
  <2> SUFFICES ASSUME NEW r \in rows
               PROVE  /\ IsFiniteSet(upto(r)) /\ Cardinality(upto(r)) \in Nat
                      /\ Cardinality(upto(r)) <= n /\ Cardinality(upto(r)) # 0
    OBVIOUS
  <2>1. upto(r) \in SUBSET rows /\ r \in upto(r)
    BY <1>1
  <2>2. IsFiniteSet(upto(r)) /\ Cardinality(upto(r)) <= n
    BY <1>1, <2>1, FS_Subset
  <2>3. Cardinality(upto(r)) \in Nat
    BY <2>2, FS_CardinalityType
  <2>4. Cardinality(upto(r)) # 0
    BY <2>1, <2>2, FS_EmptySet
  <2> QED BY <2>2, <2>3, <2>4
<1>3. \A r \in rows : Place(r, rows) = Cardinality(upto(r))
  BY DEF Place
<1> HIDE DEF upto, n
<1>4. \A r \in rows : Place(r, rows) \in 1..n
  <2> SUFFICES ASSUME NEW r \in rows
               PROVE  Cardinality(upto(r)) \in 1..n
    BY <1>3
  <2>1. /\ Cardinality(upto(r)) \in Nat /\ Cardinality(upto(r)) <= n
        /\ Cardinality(upto(r)) # 0
    BY <1>2
  <2> QED BY <1>1, <2>1
<1>5. ASSUME NEW q \in rows, NEW r \in rows, q.rank < r.rank
      PROVE  Place(q, rows) < Place(r, rows)
  <2>1. upto(q) \in SUBSET upto(r)
    BY <1>1, <1>5 DEF upto
  <2>2. r \in upto(r) /\ r \notin upto(q)
    BY <1>1, <1>5 DEF upto
  <2>3. /\ Cardinality(upto(q)) <= Cardinality(upto(r))
        /\ Cardinality(upto(q)) # Cardinality(upto(r))
    BY <1>2, <2>1, <2>2, FS_Subset
  <2>4. Cardinality(upto(q)) \in Nat /\ Cardinality(upto(r)) \in Nat
    BY <1>2
  <2>5. Cardinality(upto(q)) < Cardinality(upto(r))
    BY <2>3, <2>4
  <2> QED BY <1>3, <2>5
<1>6. ASSUME NEW q \in rows, NEW r \in rows, Place(q, rows) = Place(r, rows)
      PROVE  q = r
  <2>1. ~(q.rank < r.rank) /\ ~(r.rank < q.rank)
    BY <1>4, <1>5, <1>6
  <2>2. q.rank = r.rank
    BY <1>1, <2>1
  <2> QED BY <2>2 DEF Aged
<1>7. ASSUME NEW k \in 1..n
      PROVE  \E r \in rows : Place(r, rows) = k
  <2> DEFINE f == [r \in rows |-> Place(r, rows)]
  <2>1. f \in Injection(rows, 1..n)
    BY <1>4, <1>6 DEF Injection, IsInjective
  <2>2. IsFiniteSet(1..n) /\ Cardinality(1..n) = n
    BY <1>1, FS_Interval
  <2>3. f \in Surjection(rows, 1..n)
    <3>1. Cardinality(rows) = n
      BY DEF n
    <3> HIDE DEF f
    <3> QED BY <2>1, <2>2, <3>1, FS_Injection
  <2> QED BY <1>7, <2>3 DEF Surjection
<1> QED BY <1>1, <1>4, <1>5, <1>6, <1>7 DEF n

\* The rows that DueOutbox takes first: as many as it may, from the oldest on,
\* each once
LEMMA OldestInOrder ==
  ASSUME NEW rows, Aged(rows), NEW n \in Nat
  PROVE  LET s == Oldest(rows, n)
         IN /\ s \in Seq({r.item : r \in rows})
            /\ Len(s) = IF Cardinality(rows) <= n THEN Cardinality(rows) ELSE n
            /\ \A k \in 1..Len(s) :
                 \E r \in rows : Place(r, rows) = k /\ s[k] = r.item
<1> DEFINE N == Cardinality(rows)
           m == IF N <= n THEN N ELSE n
           chosen == {r \in rows : Place(r, rows) <= n}
           row(k) == CHOOSE r \in chosen : Place(r, rows) = k
<1>1. /\ N \in Nat /\ m \in Nat /\ m <= n /\ m <= N
      /\ \A r \in rows : Place(r, rows) \in 1..N
      /\ \A q, r \in rows : Place(q, rows) = Place(r, rows) => q = r
      /\ \A k \in 1..N : \E r \in rows : Place(r, rows) = k
  BY Places1ToN
<1>2. \A k \in 1..m : row(k) \in chosen /\ Place(row(k), rows) = k
  <2> SUFFICES ASSUME NEW k \in 1..m
               PROVE  \E r \in chosen : Place(r, rows) = k
    OBVIOUS
  <2> HIDE DEF m
  <2>1. k \in 1..N /\ k <= n
    BY <1>1
  <2> QED BY <1>1, <2>1
<1>3. \A r \in chosen : Place(r, rows) \in 1..m
  BY <1>1
<1>4. Cardinality(chosen) = m
  <2> DEFINE f == [r \in chosen |-> Place(r, rows)]
  <2>1. f \in Injection(chosen, 1..m)
    BY <1>1, <1>3 DEF Injection, IsInjective
  <2>2. f \in Surjection(chosen, 1..m)
    <3>1. \A k \in 1..m : row(k) \in chosen /\ f[row(k)] = k
      BY <1>2
    <3>2. \A k \in 1..m : \E r \in chosen : f[r] = k
      BY <3>1
    <3> QED BY <2>1, <3>2 DEF Injection, Surjection
  <2> HIDE DEF f, m, chosen
  <2>3. IsFiniteSet(1..m) /\ Cardinality(1..m) = m
    BY <1>1, FS_Interval
  <2> QED BY <2>1, <2>2, <2>3, FS_Injection
<1> DEFINE s == Oldest(rows, n)
<1>5. s = [k \in 1..m |-> row(k).item]
  BY <1>4 DEF Oldest
<1>6. \A k \in 1..m : row(k) \in rows
  BY <1>2
<1> HIDE DEF row, m, s
<1>7. s \in Seq({r.item : r \in rows}) /\ Len(s) = m
  BY <1>1, <1>5, <1>6
<1>8. \A k \in 1..Len(s) : \E r \in rows : Place(r, rows) = k /\ s[k] = r.item
  BY <1>2, <1>5, <1>6, <1>7
<1> QED BY <1>7, <1>8 DEF s, m

---------------------------------------------------------------------------
(* The types of the variables, and what they rest on *)

\* Every row has an item of its own and its own age
TableOK ==
  /\ outbox \subseteq [item : Item, rank : Nat \ {0}] /\ Aged(outbox)
  /\ \A r \in outbox : r.rank <= Cardinality(outbox)
  /\ \A q, r \in outbox : q.item = r.item => q = r

\* A process that completes or postpones a row has it first in its list
ListsOK ==
  /\ todo \in [Process -> Seq(Item)]
  /\ \A p \in Process : pc[p] \in {"completing", "postponing"} => todo[p] # <<>>

SettingsOK ==
  /\ enabled \in BOOLEAN /\ sees \in [Process -> BOOLEAN]
  /\ crashes \in 0..MaxCrashes /\ switches \in 0..MaxSwitches

ItemsOK == inflight \cup notified \cup lost \subseteq Item

TypeInv == TableOK /\ ListsOK /\ SettingsOK /\ ItemsOK /\ waiting \subseteq Queued

\* The steps there are, one by one
LEMMA Steps ==
  ASSUME Next
  PROVE  \/ BeginRun \/ EndRun \/ RunReturns \/ SwitchMonitoring
         \/ \E p \in Process : Report(p) \/ Enqueue(p) \/ Crash(p)
         \/ \E p \in Maintainer : Maintain(p) \/ Beat(p) \/ Prune(p) \/ Fatal(p)
         \/ \E p \in Maintainer, i \in Item :
              Delivered(p, i) \/ Undelivered(p, i) \/ Complete(p, i) \/ Postpone(p, i)
         \/ \E i \in Item : Arrive(i) \/ Wake(i)
BY DEF Next, Work, Process

\* A deletion keeps the order of the rows that stay, and their items
LEMMA DeleteKeepsTable ==
  ASSUME HostOK, TableOK, NEW items, Delete(items)
  PROVE  TableOK'
<1> DEFINE kept == {row \in outbox : row.item \notin items}
           n == Cardinality(kept)
<1>1. kept \in SUBSET outbox /\ Aged(kept)
  <2>1. kept \in SUBSET outbox
    OBVIOUS
  <2>2. IsFiniteSet(kept)
    BY <2>1, FS_Subset DEF TableOK, Aged
  <2> QED BY <2>1, <2>2 DEF TableOK, Aged
<1>2. outbox' = {[row EXCEPT !.rank = Place(row, kept)] : row \in kept}
  BY DEF Delete
<1> HIDE DEF kept
<1> DEFINE moved(row) == [item |-> row.item, rank |-> Place(row, kept)]
<1>3. \A row \in kept : /\ [row EXCEPT !.rank = Place(row, kept)] = moved(row)
                        /\ row.item \in Item
  BY <1>1 DEF HostOK, TableOK
<1>4. outbox' = {moved(row) : row \in kept}
  BY <1>2, <1>3
<1>5. /\ n \in Nat
      /\ \A r \in kept : Place(r, kept) \in 1..n
      /\ \A q, r \in kept : Place(q, kept) = Place(r, kept) => q = r
  BY <1>1, Places1ToN
<1>6. \A r \in kept : moved(r).item = r.item /\ moved(r).rank = Place(r, kept)
  OBVIOUS
<1>7. IsFiniteSet(outbox') /\ Cardinality(outbox') = n
  <2> DEFINE f == [r \in kept |-> moved(r)]
  <2>1. \A q, r \in kept : moved(q) = moved(r) => q = r
    BY <1>5, <1>6
  <2> HIDE DEF moved
  <2>2. f \in Surjection(kept, outbox') /\ f \in Injection(kept, outbox')
    BY <1>4, <2>1 DEF Surjection, Injection, IsInjective
  <2> HIDE DEF f
  <2> QED BY <1>1, <2>2, FS_Surjection DEF Aged
<1>8. \A r \in kept : moved(r) \in [item : Item, rank : Nat \ {0}] /\ moved(r).rank <= n
  <2> HIDE DEF n
  <2>1. \A r \in kept : Place(r, kept) \in Nat \ {0} /\ Place(r, kept) <= n
    BY <1>5
  <2> QED BY <1>3, <1>6, <2>1
<1>9. \A q, r \in kept : q.item = r.item => q = r
  BY <1>1 DEF TableOK
<1> HIDE DEF moved, n
<1>10. /\ outbox' \subseteq [item : Item, rank : Nat \ {0}]
       /\ \A r \in outbox' : r.rank <= Cardinality(outbox')
  BY <1>4, <1>7, <1>8
<1>11. \A q, r \in outbox' : \/ q.rank = r.rank \/ q.item = r.item
                             => q = r
  <2> SUFFICES ASSUME NEW a \in kept, NEW b \in kept,
                      moved(a).rank = moved(b).rank \/ moved(a).item = moved(b).item
               PROVE  a = b
    BY <1>4
  <2> QED BY <1>5, <1>6, <1>9
<1>12. Aged(outbox')
  BY <1>7, <1>10, <1>11 DEF Aged
<1>13. Aged(outbox)'
  BY <1>12 DEF Aged
<1> QED BY <1>10, <1>11, <1>13 DEF TableOK

\* A row that is inserted is the youngest
LEMMA InsertKeepsTable ==
  ASSUME TableOK, NEW i \in Item, i \notin Queued, outbox' = Inserted(i)
  PROVE  TableOK'
<1> DEFINE n == Cardinality(outbox)
           new == [item |-> i, rank |-> n + 1]
<1>1. /\ n \in Nat /\ IsFiniteSet(outbox) /\ outbox \subseteq [item : Item, rank : Nat \ {0}]
      /\ \A r \in outbox : r.rank <= n /\ r.item # i
      /\ \A q, r \in outbox : (q.rank = r.rank \/ q.item = r.item) => q = r
  BY FS_CardinalityType DEF TableOK, Aged, Queued
<1>2. outbox' = outbox \cup {new}
  BY DEF Inserted
<1>3. new.item = i /\ new.rank = n + 1
  OBVIOUS
<1> HIDE DEF n
<1>4. new \in [item : Item, rank : Nat \ {0}] /\ new \notin outbox
  <2>1. n + 1 \in Nat \ {0}
    BY <1>1
  <2>2. new \notin outbox
    BY <1>1, <1>3
  <2> QED BY <2>1, <2>2
<1> HIDE DEF new
<1>5. IsFiniteSet(outbox') /\ Cardinality(outbox') = n + 1
  BY <1>1, <1>2, <1>4, FS_AddElement DEF n
<1>6. \A r \in outbox : r.rank \in Nat /\ r.rank < n + 1
  BY <1>1
<1>7. /\ outbox' \subseteq [item : Item, rank : Nat \ {0}]
      /\ \A r \in outbox' : r.rank <= Cardinality(outbox') /\ r.rank \in Nat
  BY <1>1, <1>2, <1>3, <1>4, <1>5, <1>6
<1>8. \A q, r \in outbox' : (q.rank = r.rank \/ q.item = r.item) => q = r
  BY <1>1, <1>2, <1>3, <1>6
<1> QED BY <1>5, <1>7, <1>8 DEF TableOK, Aged

\* What is queued was in the hand of its process, and new to the table
LEMMA QueuedIsNew ==
  ASSUME ReportingAssumption, IInv, NEW p \in Process, pc[p] \in {"reporting", "queueing"},
         todo[p] # <<>>
  PROVE  Head(todo[p]) \in Item /\ Head(todo[p]) \notin Queued
<1>1. Sendable(p, pc[p], todo[p], sees[p])
  BY DEF IInv, HostOK
<1>2. Head(todo[p]) \in Item /\ Head(todo[p]) \in Hand(p)
  BY <1>1, RestIsSendable DEF Hand, Making
<1> QED BY <1>2 DEF IInv, HandOK

\* A process that is queueing has an item to queue
LEMMA QueueingHasItem ==
  ASSUME IInv, NEW p \in Process, pc[p] = "queueing"
  PROVE  todo[p] # <<>>
BY DEF IInv, HostOK, Sendable, Making

\* Every step keeps the table in order and what waits in the table
LEMMA TableStep ==
  ASSUME ReportingAssumption, IInv, TypeInv, [Next]_vars
  PROVE  TableOK' /\ (waiting \subseteq Queued)'
<1>1. CASE UNCHANGED outbox /\ \E i : waiting' \subseteq waiting \cup ({i} \cap Queued)
  <2>1. Queued' = Queued
    BY <1>1 DEF Queued
  <2> QED BY <1>1, <2>1 DEF TypeInv, TableOK, Aged
<1>2. CASE \E items : Delete(items)
  <2> PICK items : Delete(items)
    BY <1>2
  <2>1. Queued' = Queued \ items /\ waiting' = waiting \ items
    BY Deletes DEF IInv, Delete
  <2> QED BY <2>1, DeleteKeepsTable DEF TypeInv, IInv
<1>3. ASSUME NEW p \in Process, Enqueue(p)
      PROVE  TableOK' /\ (waiting \subseteq Queued)'
  <2>1. todo[p] # <<>> /\ Head(todo[p]) \in Item /\ Head(todo[p]) \notin Queued
    BY <1>3, QueueingHasItem, QueuedIsNew DEF Enqueue
  <2>2. CASE outbox' = Inserted(Head(todo[p]))
    <3>1. Queued' = Queued \cup {Head(todo[p])} /\ waiting' = waiting
      BY <1>3, <2>2, Inserts DEF IInv, Enqueue
    <3> QED BY <2>1, <2>2, <3>1, InsertKeepsTable DEF TypeInv
  <2>3. CASE UNCHANGED outbox
    <3>1. waiting' = waiting
      BY <1>3 DEF Enqueue
    <3> QED BY <1>1, <2>3, <3>1
  <2> QED BY <1>3, <2>2, <2>3 DEF Enqueue
<1>4. ASSUME Next
      PROVE  \/ UNCHANGED outbox /\ \E i : waiting' \subseteq waiting \cup ({i} \cap Queued)
             \/ \E items : Delete(items)
             \/ \E p \in Process : Enqueue(p)
  <2>1. CASE \/ BeginRun \/ EndRun \/ RunReturns \/ SwitchMonitoring
             \/ \E p \in Process : Report(p) \/ Crash(p)
    BY <2>1 DEF BeginRun, EndRun, RunReturns, SwitchMonitoring, Report, Crash, boxVars
  <2>2. CASE \E p \in Maintainer : Maintain(p) \/ Beat(p) \/ Fatal(p)
    BY <2>2 DEF Maintain, Beat, Fatal, boxVars
  <2>3. CASE \E p \in Maintainer, i \in Item : Delivered(p, i) \/ Undelivered(p, i)
    BY <2>3 DEF Delivered, Undelivered, DrainTo, boxVars
  <2>4. CASE \E p \in Maintainer, i \in Item : Complete(p, i) \/ Postpone(p, i)
    BY <2>4 DEF Complete, Postpone
  <2>5. CASE \E p \in Maintainer : Prune(p)
    BY <2>5 DEF Prune
  <2>6. CASE \E i \in Item : Arrive(i) \/ Wake(i)
    BY <2>6 DEF Arrive, Wake, boxVars
  <2> QED BY <1>4, <2>1, <2>2, <2>3, <2>4, <2>5, <2>6, Steps
<1>5. CASE UNCHANGED vars
  BY <1>1, <1>5 DEF vars, boxVars
<1> QED BY <1>1, <1>2, <1>3, <1>4, <1>5

\* A process that goes somewhere takes a list of items along
LEMMA GoingKeepsLists ==
  ASSUME HostOK, ListsOK, NEW p \in Process, NEW l \in Location, NEW items \in Seq(Item),
         Goto(p, l, items), l \in {"completing", "postponing"} => items # <<>>
  PROVE  ListsOK'
<1>1. todo' = [todo EXCEPT ![p] = items] /\ pc' = [pc EXCEPT ![p] = l]
  BY DEF Goto
<1>2. todo' \in [Process -> Seq(Item)]
  BY <1>1 DEF ListsOK
<1>3. \A q \in Process : pc'[q] \in {"completing", "postponing"} => todo'[q] # <<>>
  BY <1>1 DEF ListsOK, HostOK
<1> QED BY <1>2, <1>3 DEF ListsOK

\* Every step keeps the lists of the processes
LEMMA ListsStep ==
  ASSUME ReportingAssumption, IInv, TypeInv, [Next]_vars
  PROVE  ListsOK'
<1> USE DEF IInv
<1>e. ListsOK /\ TableOK /\ <<>> \in Seq(Item) /\ Backup \in Process
  BY DEF TypeInv, Process
<1>t. \A p \in Process : todo[p] # <<>> =>
        Head(todo[p]) \in Item /\ Tail(todo[p]) \in Seq(Item)
  <2> SUFFICES ASSUME NEW p \in Process, todo[p] # <<>>
               PROVE  Head(todo[p]) \in Item /\ Tail(todo[p]) \in Seq(Item)
    OBVIOUS
  <2>1. todo[p] \in Seq(Item)
    BY <1>e DEF ListsOK
  <2> QED BY <2>1
<1>l. {"idle", "reporting", "queueing", "draining", "completing", "postponing",
       "pruning"} \subseteq Location
  BY DEF Location
<1>1. CASE BeginRun
  <2>1. run + 1 \in RunId
    BY <1>1 DEF BeginRun, HostOK, RunId, ReportingAssumption
  <2>2. Started(run + 1) \in Item
    BY <2>1 DEF Item
  <2>3. <<Started(run + 1)>> \in Seq(Item)
    BY <2>2
  <2>4. \E items \in Seq(Item) : Goto(Backup, "reporting", items)
    BY <1>1, <1>e, <2>3 DEF BeginRun
  <2> QED BY <1>e, <1>l, <2>4, GoingKeepsLists
<1>2. CASE EndRun
  <2>1. run \in RunId
    BY <1>2 DEF EndRun, HostOK
  <2>2. Announcements(run) \in Seq(Item)
    BY <2>1, AnnouncementsAre DEF Announced
  <2> QED BY <1>2, <1>e, <1>l, <2>2, GoingKeepsLists DEF EndRun
<1>3. CASE RunReturns
  BY <1>3, <1>e, <1>l, GoingKeepsLists DEF RunReturns
<1>4. ASSUME NEW p \in Process, Report(p)
      PROVE  ListsOK'
  <2>1. todo[p] # <<>> /\ todo[p] \in Seq(Item) /\ AfterReport(p) \in {"reporting", "pruning"}
    BY <1>4, <1>e DEF Report, ListsOK, AfterReport
  <2>2. \/ Goto(p, AfterReport(p), Tail(todo[p]))
        \/ Goto(p, "queueing", todo[p])
    BY <1>4 DEF Report
  <2> QED BY <1>e, <1>l, <1>t, <2>1, <2>2, GoingKeepsLists
<1>5. ASSUME NEW p \in Process, Enqueue(p)
      PROVE  ListsOK'
  <2>1. todo[p] # <<>> /\ AfterReport(p) \in {"reporting", "pruning"}
    BY <1>5, QueueingHasItem DEF Enqueue, AfterReport
  <2>2. \/ \E l \in {"reporting", "pruning"} : Goto(p, l, Tail(todo[p]))
        \/ Goto(p, "idle", <<>>)
    BY <1>5, <2>1 DEF Enqueue
  <2> QED BY <1>e, <1>l, <1>t, <2>1, <2>2, GoingKeepsLists
<1>6. ASSUME NEW p \in Process, Crash(p)
      PROVE  ListsOK'
  BY <1>6, <1>e, <1>l, GoingKeepsLists DEF Crash
<1>7. ASSUME NEW p \in Maintainer, Maintain(p)
      PROVE  ListsOK'
  <2>1. Aged(Due)
    <3>1. Due \in SUBSET outbox
      BY DEF Due
    <3>2. IsFiniteSet(Due)
      BY <1>e, <3>1, FS_Subset DEF TableOK, Aged
    <3> QED BY <1>e, <3>1, <3>2 DEF TableOK, Aged
  <2>2. Oldest(Due, BatchLimit) \in Seq({r.item : r \in Due})
    BY <2>1, OldestInOrder DEF ReportingAssumption
  <2>3. {r.item : r \in Due} \subseteq Item
    BY <1>e DEF TableOK, Due
  <2> DEFINE items == Oldest(Due, BatchLimit)
             due == {r.item : r \in Due}
  <2>4. items \in Seq(due) /\ due \subseteq Item
    BY <2>2, <2>3
  <2>5. Goto(p, "draining", items) /\ p \in Process
    BY <1>7 DEF Maintain, Process
  <2> HIDE DEF items, due
  <2>6. items \in Seq(Item)
    BY <2>4
  <2> QED BY <1>e, <1>l, <2>5, <2>6, GoingKeepsLists
<1>8. ASSUME NEW p \in Maintainer, Beat(p)
      PROVE  ListsOK'
  <2>1. \/ beats < MaxHeartbeats /\ Goto(p, "reporting", <<Heartbeat(beats + 1)>>)
        \/ Goto(p, "pruning", <<>>)
    BY <1>8 DEF Beat
  <2>2. beats < MaxHeartbeats => Heartbeat(beats + 1) \in Item
    <3>1. beats < MaxHeartbeats => beats + 1 \in 1..MaxHeartbeats
      BY DEF HostOK, ReportingAssumption
    <3> QED BY <3>1 DEF Item
  <2>3. \A i \in Item : <<i>> \in Seq(Item)
    OBVIOUS
  <2>4. p \in Process
    BY DEF Process
  <2> QED BY <1>e, <1>l, <2>1, <2>2, <2>3, <2>4, GoingKeepsLists
<1>9. ASSUME NEW p \in Maintainer, Prune(p) \/ Fatal(p)
      PROVE  ListsOK'
  <2>1. Goto(p, "idle", <<>>) /\ p \in Process
    BY <1>9 DEF Prune, Fatal, Process
  <2> QED BY <1>e, <1>l, <2>1, GoingKeepsLists
<1>10. ASSUME NEW p \in Maintainer, NEW i \in Item, Delivered(p, i) \/ Undelivered(p, i)
       PROVE  ListsOK'
  <2>1. /\ p \in Process /\ todo[p] # <<>> /\ todo[p] \in Seq(Item)
        /\ Goto(p, "completing", todo[p]) \/ Goto(p, "postponing", todo[p])
    BY <1>10, <1>e DEF Delivered, Undelivered, DrainTo, Process, ListsOK
  <2> QED BY <1>e, <1>l, <2>1, GoingKeepsLists
<1>11. ASSUME NEW p \in Maintainer, NEW i \in Item, Complete(p, i) \/ Postpone(p, i)
       PROVE  ListsOK'
  <2>1. p \in Process /\ todo[p] # <<>> /\ Goto(p, "draining", Tail(todo[p]))
    BY <1>11, <1>e DEF Complete, Postpone, Process, ListsOK
  <2> QED BY <1>e, <1>l, <1>t, <2>1, GoingKeepsLists
<1>12. CASE SwitchMonitoring \/ (\E i \in Item : Arrive(i) \/ Wake(i)) \/ UNCHANGED vars
  <2>1. UNCHANGED <<pc, todo>>
    BY <1>12 DEF SwitchMonitoring, Arrive, Wake, vars, hostVars
  <2> QED BY <1>e, <2>1 DEF ListsOK
<1> QED
  BY <1>1, <1>2, <1>3, <1>4, <1>5, <1>6, <1>7, <1>8, <1>9, <1>10, <1>11, <1>12, Steps

\* Every step keeps the settings and the counts of what happens outside
LEMMA SettingsStep ==
  ASSUME ReportingAssumption, IInv, TypeInv, [Next]_vars
  PROVE  SettingsOK'
<1>e. /\ enabled \in BOOLEAN /\ sees \in [Process -> BOOLEAN]
      /\ crashes \in 0..MaxCrashes /\ switches \in 0..MaxSwitches
  BY DEF TypeInv, SettingsOK
<1>1. CASE UNCHANGED <<sees, envVars>>
  BY <1>1, <1>e DEF SettingsOK, envVars
<1>2. CASE \E p \in Process : sees' = [sees EXCEPT ![p] = enabled] /\ UNCHANGED envVars
  BY <1>2, <1>e DEF SettingsOK, envVars
<1>3. CASE /\ crashes < MaxCrashes /\ crashes' = crashes + 1
           /\ UNCHANGED <<sees, enabled, switches>>
  BY <1>3, <1>e DEF SettingsOK, ReportingAssumption
<1>4. CASE SwitchMonitoring
  BY <1>4, <1>e DEF SwitchMonitoring, hostVars, SettingsOK, ReportingAssumption
<1>5. CASE BeginRun \/ EndRun \/ RunReturns
  BY <1>1, <1>2, <1>5 DEF BeginRun, EndRun, RunReturns, Process
<1>6. CASE \E p \in Process : Report(p) \/ Enqueue(p) \/ Crash(p)
  BY <1>1, <1>3, <1>6 DEF Report, Enqueue, Crash
<1>7. CASE \E p \in Maintainer : Maintain(p) \/ Beat(p) \/ Prune(p) \/ Fatal(p)
  BY <1>1, <1>2, <1>3, <1>7 DEF Maintain, Beat, Prune, Fatal, Process
<1>8. CASE \E p \in Maintainer, i \in Item :
             Delivered(p, i) \/ Undelivered(p, i) \/ Complete(p, i) \/ Postpone(p, i)
  BY <1>1, <1>8 DEF Delivered, Undelivered, DrainTo, Complete, Postpone
<1>9. CASE (\E i \in Item : Arrive(i) \/ Wake(i)) \/ UNCHANGED vars
  BY <1>1, <1>9 DEF Arrive, Wake, vars, hostVars
<1> QED BY <1>4, <1>5, <1>6, <1>7, <1>8, <1>9, Steps

\* What is under way, notified or dropped are items that were made
LEMMA ItemsStep ==
  ASSUME ReportingAssumption, IInv, TypeInv, [Next]_vars
  PROVE  ItemsOK'
<1>e. inflight \subseteq Item /\ notified \subseteq Item /\ lost \subseteq Item
  BY DEF TypeInv, ItemsOK
<1>h. \A p \in Process : todo[p] # <<>> => Head(todo[p]) \in Item
  <2> SUFFICES ASSUME NEW p \in Process, todo[p] # <<>>
               PROVE  Head(todo[p]) \in Item
    OBVIOUS
  <2>1. todo[p] \in Seq(Item)
    BY DEF TypeInv, ListsOK
  <2> QED BY <2>1
<1>s. ASSUME NEW p, NEW i \in Item, SendSucceeds(p, i) \/ SendFails(p, i)
      PROVE  inflight' \subseteq Item /\ notified' \subseteq Item
  BY <1>s, <1>e DEF SendSucceeds, SendFails, Received
<1>1. CASE UNCHANGED <<inflight, notified, lost>>
  BY <1>1, <1>e DEF ItemsOK
<1>2. CASE BeginRun \/ EndRun \/ RunReturns \/ SwitchMonitoring
  BY <1>1, <1>2 DEF BeginRun, EndRun, RunReturns, SwitchMonitoring, netVars
<1>3. ASSUME NEW p \in Process, Report(p)
      PROVE  ItemsOK'
  <2>1. todo[p] # <<>> /\ lost' = lost
        /\ (SendSucceeds(p, Head(todo[p])) \/ SendFails(p, Head(todo[p])))
    BY <1>3 DEF Report
  <2> QED BY <1>e, <1>h, <1>s, <2>1 DEF ItemsOK
<1>4. ASSUME NEW p \in Process, Enqueue(p)
      PROVE  ItemsOK'
  <2>1. Head(todo[p]) \in Item
    BY <1>4, <1>h, QueueingHasItem DEF Enqueue
  <2>2. UNCHANGED <<inflight, notified>> /\ lost' \subseteq lost \cup {Head(todo[p])}
    BY <1>4 DEF Enqueue, netVars
  <2> QED BY <1>e, <2>1, <2>2 DEF ItemsOK
<1>5. ASSUME NEW p \in Process, Crash(p)
      PROVE  ItemsOK'
  <2>1. todo[p] \in Seq(Item)
    BY DEF TypeInv, ListsOK
  <2>2. ToSet(todo[p]) \subseteq Item
    BY <2>1 DEF ToSet
  <2>3. UNCHANGED <<inflight, notified>> /\ lost' \subseteq lost \cup ToSet(todo[p])
    BY <1>5 DEF Crash, netVars
  <2> QED BY <1>e, <2>2, <2>3 DEF ItemsOK
<1>6. CASE \E p \in Maintainer : Maintain(p) \/ Beat(p) \/ Fatal(p)
  BY <1>1, <1>6 DEF Maintain, Beat, Fatal, netVars
<1>7. ASSUME NEW p \in Maintainer, Prune(p)
      PROVE  ItemsOK'
  <2>1. \E kept : lost' = lost \cup {row.item : row \in outbox \ kept}
    BY <1>7 DEF Prune
  <2>2. \A row \in outbox : row.item \in Item
    BY DEF TypeInv, TableOK
  <2>3. lost' \subseteq Item /\ UNCHANGED <<inflight, notified>>
    BY <1>7, <1>e, <2>1, <2>2 DEF Prune, netVars
  <2> QED BY <1>e, <2>3 DEF ItemsOK
<1>8. ASSUME NEW p \in Maintainer, NEW i \in Item, Delivered(p, i) \/ Undelivered(p, i)
      PROVE  ItemsOK'
  <2>1. lost' = lost /\ (SendSucceeds(p, i) \/ SendFails(p, i))
    BY <1>8 DEF Delivered, Undelivered, DrainTo
  <2> QED BY <1>e, <1>s, <2>1 DEF ItemsOK
<1>9. ASSUME NEW p \in Maintainer, NEW i \in Item, Complete(p, i) \/ Postpone(p, i)
      PROVE  ItemsOK'
  BY <1>9, <1>e DEF Complete, Postpone, netVars, ItemsOK
<1>10. ASSUME NEW i \in Item, Arrive(i)
       PROVE  ItemsOK'
  BY <1>10, <1>e DEF Arrive, Received, ItemsOK
<1>11. CASE (\E i \in Item : Wake(i)) \/ UNCHANGED vars
  BY <1>1, <1>11 DEF Wake, vars, netVars
<1> QED
  BY <1>2, <1>3, <1>4, <1>5, <1>6, <1>7, <1>8, <1>9, <1>10, <1>11, Steps

\* The types hold at first
LEMMA TypeInvInit ==
  ASSUME ReportingAssumption, Init
  PROVE  TypeInv
<1>1. TableOK /\ waiting \subseteq Queued
  <2>1. outbox = {} /\ waiting = {} /\ IsFiniteSet({})
    BY FS_EmptySet DEF Init
  <2> QED BY <2>1 DEF TableOK, Aged
<1>2. ListsOK
  <2>1. <<>> \in Seq(Item)
    OBVIOUS
  <2> QED BY <2>1 DEF Init, ListsOK
<1>3. SettingsOK /\ ItemsOK
  BY DEF Init, SettingsOK, ItemsOK, ReportingAssumption
<1> QED BY <1>1, <1>2, <1>3 DEF TypeInv

\* The types hold in every behaviour
LEMMA TypeInvInvariant == Spec => [](IInv /\ TypeInv)
<1>1. Init => TypeInv
  BY TypeInvInit, ReportingAssumption
<1>2. IInv /\ TypeInv /\ [Next]_vars => TypeInv'
  BY TableStep, ListsStep, SettingsStep, ItemsStep, ReportingAssumption DEF TypeInv
<1> QED BY IInvInvariant, <1>1, <1>2, PTL DEF Spec

\* Every variable keeps its type: what is taken from the outbox, sent, dropped
\* or deleted are items that were made, and only rows there are wait
THEOREM TypeCorrect == Spec => []TypeOK
<1>1. IInv /\ TypeInv => TypeOK
  <2> SUFFICES ASSUME IInv, TypeInv PROVE TypeOK
    OBVIOUS
  <2>1. issued \subseteq Item /\ left \subseteq Item
    BY DEF IInv, IssuedOK
  <2> QED BY <2>1 DEF IInv, HostOK, Location, TypeInv, TableOK, ListsOK, SettingsOK,
                      ItemsOK, TypeOK
<1> QED BY <1>1, TypeInvInvariant, PTL

\* No item is queued twice and no two rows are of one age, whatever was sent,
\* deleted and queued before: a row is known by its item, and the oldest rows
\* are the same for every process that looks
THEOREM RowsDiffer ==
  Spec => [](\A q, r \in outbox : (q.item = r.item \/ q.rank = r.rank) => q = r)
<1>1. TypeInv => \A q, r \in outbox : (q.item = r.item \/ q.rank = r.rank) => q = r
  BY DEF TypeInv, TableOK, Aged
<1> QED BY <1>1, TypeInvInvariant, PTL
---------------------------------------------------------------------------
(***************************************************************************)
(* The promise of AtLeastOnce: whatever process takes a step, and however  *)
(* old its copy of a row is, the step is one of that module's or changes   *)
(* nothing there.                                                          *)
(***************************************************************************)

\* Whatever is being sent, by whichever process or as a late request, was made
MadeOK ==
  /\ inflight \subseteq issued
  /\ \A p \in Process : ToSet(todo[p]) \subseteq issued

\* A process that goes somewhere takes items along that were made
LEMMA GoingKeepsMade ==
  ASSUME HostOK, MadeOK, NEW p \in Process, NEW l, NEW items, Goto(p, l, items),
         ToSet(items) \subseteq issued', issued \subseteq issued', inflight' \subseteq issued'
  PROVE  MadeOK'
<1>1. todo' = [todo EXCEPT ![p] = items] /\ todo = [q \in Process |-> todo[q]]
  BY DEF Goto, HostOK
<1>2. ASSUME NEW q \in Process PROVE ToSet(todo'[q]) \subseteq issued'
  <2>1. CASE q = p
    <3>1. todo'[q] = items
      BY <1>1, <2>1
    <3> QED BY <3>1
  <2>2. CASE q # p
    <3>1. todo'[q] = todo[q]
      BY <1>1, <2>2
    <3> QED BY <3>1 DEF MadeOK
  <2> QED BY <2>1, <2>2
<1>3. \A q \in Process : ToSet(todo[q])' = ToSet(todo'[q])
  BY DEF ToSet
<1> QED BY <1>2, <1>3 DEF MadeOK

\* What is in the rest of a list is in the list
LEMMA RestOfList ==
  ASSUME ListsOK, NEW p \in Process, todo[p] # <<>>
  PROVE  Head(todo[p]) \in ToSet(todo[p]) /\ ToSet(Tail(todo[p])) \subseteq ToSet(todo[p])
<1> DEFINE s == todo[p]
<1>1. s \in Seq(Item) /\ s # <<>>
  BY DEF ListsOK
<1> HIDE DEF s
<1>2. /\ Len(s) \in Nat \ {0} /\ DOMAIN s = 1..Len(s) /\ Head(s) = s[1]
      /\ DOMAIN Tail(s) = 1..(Len(s) - 1)
      /\ \A k \in 1..(Len(s) - 1) : Tail(s)[k] = s[k + 1] /\ k + 1 \in 1..Len(s)
  BY <1>1
<1>3. Head(s) \in ToSet(s) /\ ToSet(Tail(s)) \subseteq ToSet(s)
  BY <1>2 DEF ToSet
<1> QED BY <1>3 DEF s

\* What DueOutbox takes is queued
LEMMA TakenIsQueued ==
  ASSUME ReportingAssumption, TableOK
  PROVE  ToSet(Oldest(Due, BatchLimit)) \subseteq Queued
<1>1. Aged(Due)
  <2>1. Due \in SUBSET outbox
    BY DEF Due
  <2>2. IsFiniteSet(Due)
    BY <2>1, FS_Subset DEF TableOK, Aged
  <2> QED BY <2>1, <2>2 DEF TableOK, Aged
<1> DEFINE s == Oldest(Due, BatchLimit)
<1>2. s \in Seq({r.item : r \in Due}) /\ \A k \in 1..Len(s) : \E r \in Due : s[k] = r.item
  BY <1>1, OldestInOrder DEF ReportingAssumption
<1> HIDE DEF s
<1>3. DOMAIN s = 1..Len(s)
  BY <1>2
<1>4. \A k \in 1..Len(s) : s[k] \in Queued
  BY <1>2 DEF Due, Queued
<1>5. ToSet(s) \subseteq Queued
  BY <1>3, <1>4 DEF ToSet
<1> QED BY <1>5 DEF s

\* Every step keeps it so: what is copied from the outbox was made, and what is
\* still under way was in some process's hands
LEMMA MadeStep ==
  ASSUME ReportingAssumption, IInv, TypeInv, MadeOK, [Next]_vars
  PROVE  MadeOK'
<1> USE DEF IInv
<1>e. /\ ListsOK /\ TableOK /\ Backup \in Process /\ ToSet(<<>>) = {}
      /\ Maintainer \subseteq Process /\ HostOK
      /\ inflight \subseteq issued /\ \A p \in Process : ToSet(todo[p]) \subseteq issued
  BY DEF TypeInv, Process, ToSet, MadeOK
<1>t. \A p \in Process : todo[p] # <<>> =>
        Head(todo[p]) \in issued /\ ToSet(Tail(todo[p])) \subseteq issued
  BY <1>e, RestOfList
<1>s. ASSUME NEW p \in Process, NEW i \in issued, SendSucceeds(p, i) \/ SendFails(p, i)
      PROVE  inflight' \subseteq issued
  BY <1>e, <1>s DEF SendSucceeds, SendFails
<1>1. CASE BeginRun
  <2>1. /\ todo' = [todo EXCEPT ![Backup] = IF enabled THEN <<Started(run + 1)>> ELSE <<>>]
        /\ issued' = issued \cup ToSet(todo'[Backup]) /\ inflight' = inflight
    BY <1>1 DEF BeginRun, Goto, netVars, ToSet
  <2> DEFINE items == IF enabled THEN <<Started(run + 1)>> ELSE <<>>
  <2>2. Goto(Backup, "reporting", items)
    BY <1>1 DEF BeginRun
  <2> HIDE DEF items
  <2>3. todo'[Backup] = items
    BY <1>e, <2>2 DEF HostOK, Goto
  <2>4. ToSet(items) \subseteq issued'
    BY <2>1, <2>3
  <2> QED BY <1>e, <2>1, <2>2, <2>4, GoingKeepsMade
<1>2. CASE EndRun
  <2> DEFINE items == Announcements(run)
  <2>1. Goto(Backup, "reporting", items) /\ issued' = issued \cup ToSet(items)
        /\ inflight' = inflight
    BY <1>2 DEF EndRun, netVars
  <2> HIDE DEF items
  <2> QED BY <1>e, <2>1, GoingKeepsMade
<1>3. CASE RunReturns
  <2>1. Goto(Backup, "idle", <<>>) /\ issued' = issued /\ inflight' = inflight
    BY <1>3 DEF RunReturns, runVars, netVars
  <2> QED BY <1>e, <2>1, GoingKeepsMade
<1>4. ASSUME NEW p \in Process, Report(p)
      PROVE  MadeOK'
  <2>1. /\ todo[p] # <<>> /\ issued' = issued
        /\ SendSucceeds(p, Head(todo[p])) \/ SendFails(p, Head(todo[p]))
    BY <1>4 DEF Report, runVars
  <2>2. inflight' \subseteq issued
    BY <1>s, <1>t, <2>1
  <2>3. \/ Goto(p, AfterReport(p), Tail(todo[p]))
        \/ Goto(p, "queueing", todo[p])
    BY <1>4 DEF Report
  <2> QED BY <1>e, <1>t, <2>1, <2>2, <2>3, GoingKeepsMade
<1>5. ASSUME NEW p \in Process, Enqueue(p)
      PROVE  MadeOK'
  <2>1. todo[p] # <<>> /\ issued' = issued /\ inflight' = inflight
    BY <1>5, QueueingHasItem DEF Enqueue, runVars, netVars
  <2>2. \/ \E l : Goto(p, l, Tail(todo[p]))
        \/ Goto(p, "idle", <<>>)
    BY <1>5 DEF Enqueue
  <2> QED BY <1>e, <1>t, <2>1, <2>2, GoingKeepsMade
<1>6. ASSUME NEW p \in Process,
             Crash(p) \/ (p \in Maintainer /\ (Prune(p) \/ Fatal(p)))
      PROVE  MadeOK'
  <2>1. Goto(p, "idle", <<>>) /\ issued' = issued /\ inflight' = inflight
    BY <1>6 DEF Crash, Prune, Fatal, runVars, netVars
  <2> QED BY <1>e, <2>1, GoingKeepsMade
<1>7. ASSUME NEW p \in Maintainer, Maintain(p)
      PROVE  MadeOK'
  <2> DEFINE items == Oldest(Due, BatchLimit)
  <2>1. Goto(p, "draining", items) /\ issued' = issued /\ inflight' = inflight
    BY <1>7 DEF Maintain, runVars, netVars
  <2>2. ToSet(items) \subseteq issued
    <3>1. Queued \subseteq issued
      BY DEF IssuedOK
    <3> QED BY <1>e, <3>1, TakenIsQueued
  <2> HIDE DEF items
  <2> QED BY <1>e, <2>1, <2>2, GoingKeepsMade
<1>8. ASSUME NEW p \in Maintainer, Beat(p)
      PROVE  MadeOK'
  <2> DEFINE beat == Heartbeat(beats + 1)
  <2>1. /\ inflight' = inflight
        /\ \/ Goto(p, "reporting", <<beat>>) /\ issued' = issued \cup {beat}
           \/ Goto(p, "pruning", <<>>) /\ issued' = issued
    BY <1>8 DEF Beat, netVars
  <2>2. ToSet(<<beat>>) = {beat}
    BY DEF ToSet
  <2> HIDE DEF beat
  <2> QED BY <1>e, <2>1, <2>2, GoingKeepsMade
<1>9. ASSUME NEW p \in Maintainer, NEW i \in Item, Delivered(p, i) \/ Undelivered(p, i)
      PROVE  MadeOK'
  <2>1. /\ todo[p] # <<>> /\ i = Head(todo[p]) /\ issued' = issued
        /\ SendSucceeds(p, i) \/ SendFails(p, i)
        /\ \E l : Goto(p, l, todo[p])
    BY <1>9 DEF Delivered, Undelivered, DrainTo, runVars
  <2>2. inflight' \subseteq issued
    BY <1>e, <1>s, <1>t, <2>1
  <2> QED BY <1>e, <2>1, <2>2, GoingKeepsMade
<1>10. ASSUME NEW p \in Maintainer, NEW i \in Item, Complete(p, i) \/ Postpone(p, i)
       PROVE  MadeOK'
  <2>1. /\ Goto(p, "draining", Tail(todo[p])) /\ issued' = issued /\ inflight' = inflight
        /\ todo[p] # <<>>
    BY <1>10, <1>e DEF Complete, Postpone, runVars, netVars, ListsOK
  <2> QED BY <1>e, <1>t, <2>1, GoingKeepsMade
<1>11. CASE SwitchMonitoring \/ (\E i \in Item : Arrive(i) \/ Wake(i)) \/ UNCHANGED vars
  <2>1. todo' = todo /\ issued' = issued /\ inflight' \subseteq inflight
    BY <1>11 DEF SwitchMonitoring, Arrive, Wake, vars, hostVars, runVars, netVars
  <2> QED BY <1>e, <2>1 DEF MadeOK, ToSet
<1> QED
  BY <1>1, <1>2, <1>3, <1>4, <1>5, <1>6, <1>7, <1>8, <1>9, <1>10, <1>11, <1>e, Steps
\* A process that goes somewhere changes what it holds, and nothing else in hand
LEMMA HandsMove ==
  ASSUME IInv, NEW p \in Process, NEW l \in Location, NEW items, Goto(p, l, items)
  PROVE  /\ Hand(p)' = IF Making(l) THEN ToSet(items) ELSE {}
         /\ Hand(p) \subseteq InHand /\ InHand' = (InHand \ Hand(p)) \cup Hand(p)'
<1>1. /\ pc'[p] = l /\ todo'[p] = items
      /\ \A q \in Process : q # p => pc'[q] = pc[q] /\ todo'[q] = todo[q]
  BY DEF Goto, IInv, HostOK
<1>2. Hand(p)' = IF Making(l) THEN ToSet(items) ELSE {}
  BY <1>1 DEF Hand, Making, ToSet
<1>3. ASSUME NEW q \in Process, q # p
      PROVE  Hand(q)' = Hand(q) /\ Hand(q) \cap Hand(p) = {}
  <2>1. Hand(q)' = Hand(q)
    BY <1>1, <1>3 DEF Hand, Making, ToSet
  <2>2. Hand(q) \cap Hand(p) = {}
    BY <1>3 DEF IInv, HandOK
  <2> QED BY <2>1, <2>2
<1>4. InHand' = UNION {Hand(q)' : q \in Process}
  BY DEF InHand
<1>5. InHand' = (InHand \ Hand(p)) \cup Hand(p)'
  <2>1. ASSUME NEW i \in InHand' PROVE i \in (InHand \ Hand(p)) \cup Hand(p)'
    <3>1. PICK q \in Process : i \in Hand(q)'
      BY <1>4
    <3> QED BY <1>3, <3>1 DEF InHand
  <2>2. ASSUME NEW i \in (InHand \ Hand(p)) \cup Hand(p)' PROVE i \in InHand'
    <3>1. CASE i \in Hand(p)'
      BY <1>4, <3>1
    <3>2. CASE i \in InHand \ Hand(p)
      <4>1. PICK q \in Process : i \in Hand(q)
        BY <3>2 DEF InHand
      <4> QED BY <1>3, <1>4, <3>2, <4>1
    <3> QED BY <2>2, <3>1, <3>2
  <2> QED BY <2>1, <2>2
<1> QED BY <1>2, <1>5 DEF InHand

\* A step after which a process holds nothing leaves the hands of the others
LEMMA HandEmpties ==
  ASSUME IInv, NEW p \in Process, NEW l \in Location, ~Making(l), NEW items,
         Goto(p, l, items)
  PROVE  Hand(p) \subseteq InHand /\ InHand' = InHand \ Hand(p)
BY HandsMove

\* A step that disposes of the first item of a process takes it out of hand
LEMMA HandLoses ==
  ASSUME ReportingAssumption, IInv, NEW p \in Process,
         pc[p] \in {"reporting", "queueing"}, todo[p] # <<>>,
         \/ Goto(p, "reporting", Tail(todo[p]))
         \/ p \in Maintainer /\ \E l \in {"pruning", "idle"} : \E items : Goto(p, l, items)
  PROVE  Head(todo[p]) \in InHand /\ InHand' = InHand \ {Head(todo[p])}
<1>1. Sendable(p, pc[p], todo[p], sees[p])
  BY DEF IInv, HostOK
<1> DEFINE i == Head(todo[p])
<1>2. /\ i \in ToSet(todo[p]) /\ ToSet(Tail(todo[p])) = ToSet(todo[p]) \ {i}
      /\ p \in Maintainer => ToSet(todo[p]) = {i}
  BY <1>1, RestIsSendable
<1>3. Hand(p) = ToSet(todo[p])
  BY DEF Hand, Making
<1> HIDE DEF i
<1>4. CASE Goto(p, "reporting", Tail(todo[p]))
  <2>1. "reporting" \in Location /\ Making("reporting")
    BY DEF Location, Making
  <2> QED BY <1>2, <1>3, <1>4, <2>1, HandsMove DEF i
<1>5. CASE p \in Maintainer /\ \E l \in {"pruning", "idle"} : \E items : Goto(p, l, items)
  <2>1. {"pruning", "idle"} \subseteq Location /\ ~Making("pruning") /\ ~Making("idle")
    BY DEF Location, Making
  <2> QED BY <1>2, <1>3, <1>5, <2>1, HandEmpties DEF i
<1> QED BY <1>4, <1>5

\* A process makes items, once the last of those it had is out of its hands
LEMMA MakingKeepsPromise ==
  ASSUME ReportingAssumption, IInv, NEW p \in Process, NEW items,
         Goto(p, "reporting", items) \/ Goto(p, "pruning", items), Fresh(p),
         UNCHANGED <<boxVars, netVars, lost>>
  PROVE  Promise!Next
<1>1. {"reporting", "pruning"} \subseteq Location
  BY DEF Location
<1>2. InHand' = InHand \cup Hand(p)'
  BY <1>1, HandsMove DEF Fresh
<1>3. Queued' = Queued /\ Arrived' = Arrived /\ lost' = lost
  BY Quiet, BoxStays DEF IInv, boxVars, netVars
<1>4. Promise!Make(Hand(p)') /\ Hand(p)' \in SUBSET (Item \ issued)
  BY <1>2, <1>3 DEF Promise!Make, Fresh
<1> QED BY <1>4 DEF Promise!Next

\* An attempt to send what a process holds tells it or changes nothing
LEMMA ReportKeepsPromise ==
  ASSUME ReportingAssumption, IInv, NEW p \in Process, Report(p)
  PROVE  Promise!Next \/ UNCHANGED Promise!vars
<1> DEFINE i == Head(todo[p])
<1>1. pc[p] = "reporting" /\ todo[p] # <<>> /\ Sendable(p, "reporting", todo[p], sees[p])
  BY DEF Report, IInv, HostOK
<1>2. i \in Item /\ ~Ignored(p, i)
  BY <1>1, RestIsSendable DEF Ignored
<1>3. issued' = issued /\ Queued' = Queued /\ lost' = lost
  BY BoxStays DEF Report, runVars, boxVars, IInv
<1>4. CASE SendSucceeds(p, i) /\ Goto(p, AfterReport(p), Tail(todo[p]))
  <2>1. Arrived' = Arrived \cup {i}
    BY <1>2, <1>4, ReceivedArrives DEF SendSucceeds, IInv, HostOK
  <2>2. \/ AfterReport(p) = "reporting"
        \/ AfterReport(p) = "pruning" /\ p \in Maintainer
    BY DEF AfterReport, Process
  <2>3. i \in InHand /\ InHand' = InHand \ {i}
    BY <1>1, <1>4, <2>2, HandLoses
  <2>4. Promise!Tell(i)
    BY <1>3, <2>1, <2>3 DEF Promise!Tell, Promise!LetGo
  <2> QED BY <2>3, <2>4 DEF Promise!Next
<1>5. CASE SendFails(p, i) /\ Goto(p, "queueing", todo[p])
  <2>1. Arrived' = Arrived
    BY <1>5, Quiet DEF SendFails, IInv
  <2>2. InHand' = InHand
    <3>1. "queueing" \in Location /\ Making("queueing") /\ Hand(p) = ToSet(todo[p])
      BY <1>1 DEF Location, Making, Hand
    <3> QED BY <1>5, <3>1, HandsMove
  <2> QED BY <1>3, <2>1, <2>2 DEF Promise!vars
<1> QED BY <1>4, <1>5 DEF Report

\* An insertion queues an item or, when it fails, gives it up
LEMMA EnqueueKeepsPromise ==
  ASSUME ReportingAssumption, IInv, NEW p \in Process, Enqueue(p)
  PROVE  Promise!Next
<1> DEFINE i == Head(todo[p])
<1>1. pc[p] = "queueing" /\ todo[p] # <<>>
  BY QueueingHasItem DEF Enqueue
<1>2. issued' = issued /\ Arrived' = Arrived
  BY Quiet DEF Enqueue, runVars, netVars, IInv
<1>3. CASE outbox' = Inserted(i) /\ Goto(p, AfterReport(p), Tail(todo[p])) /\ UNCHANGED lost
  <2>1. \/ AfterReport(p) = "reporting"
        \/ AfterReport(p) = "pruning" /\ p \in Maintainer
    BY DEF AfterReport, Process
  <2>2. i \in InHand /\ InHand' = InHand \ {i}
    BY <1>1, <1>3, <2>1, HandLoses
  <2>3. Queued' = Queued \cup {i}
    BY <1>3, Inserts DEF IInv
  <2>4. Promise!Queue(i)
    BY <1>2, <1>3, <2>2, <2>3 DEF Promise!Queue, Promise!LetGo
  <2> QED BY <2>2, <2>4 DEF Promise!Next
<1>4. CASE /\ lost' = lost \cup {i} /\ UNCHANGED outbox
           /\ IF p = Backup THEN Goto(p, "reporting", Tail(todo[p]))
                            ELSE Goto(p, "idle", <<>>)
  <2>1. p = Backup \/ p \in Maintainer
    BY DEF Process
  <2>2. i \in InHand /\ InHand' = InHand \ {i}
    BY <1>1, <1>4, <2>1, HandLoses
  <2>3. Queued' = Queued
    BY <1>4, BoxStays DEF IInv
  <2>4. Promise!Abandon({i}) /\ {i} \in SUBSET InHand
    BY <1>2, <1>4, <2>2, <2>3 DEF Promise!Abandon, Promise!LetGo
  <2> QED BY <2>4 DEF Promise!Next
<1> QED BY <1>3, <1>4 DEF Enqueue

\* A row is sent, which its destination has seen before or not
LEMMA DeliveredKeepsPromise ==
  ASSUME ReportingAssumption, IInv, TypeInv, MadeOK,
         NEW p \in Maintainer, NEW i \in Item, Delivered(p, i)
  PROVE  Promise!Next \/ UNCHANGED Promise!vars
<1>1. /\ pc[p] = "draining" /\ todo[p] # <<>> /\ i = Head(todo[p])
      /\ Goto(p, "completing", todo[p]) /\ SendSucceeds(p, i) /\ p \in Process
      /\ issued' = issued /\ UNCHANGED boxVars /\ lost' = lost
  BY DEF Delivered, DrainTo, runVars, Process
<1>2. InHand' = InHand
  <2>1. "completing" \in Location /\ ~Making("completing") /\ Hand(p) = {}
    BY <1>1 DEF Location, Making, Hand
  <2> QED BY <1>1, <2>1, HandEmpties
<1>3. Queued' = Queued
  BY <1>1, BoxStays DEF boxVars, IInv
<1>4. i \in issued
  <2>1. Head(todo[p]) \in ToSet(todo[p])
    BY <1>1, RestOfList DEF TypeInv
  <2> QED BY <1>1, <2>1 DEF MadeOK
<1>5. CASE Ignored(p, i)
  <2>1. Arrived' = Arrived
    BY <1>1, <1>5, Quiet DEF SendSucceeds, IInv
  <2> QED BY <1>1, <1>2, <1>3, <2>1 DEF Promise!vars
<1>6. CASE ~Ignored(p, i)
  <2>1. Arrived' = Arrived \cup {i}
    BY <1>1, <1>6, ReceivedArrives DEF SendSucceeds, IInv, HostOK
  <2>2. Promise!Arrive(i)
    BY <1>1, <1>2, <1>3, <2>1 DEF Promise!Arrive
  <2> QED BY <1>4, <2>2 DEF Promise!Next
<1> QED BY <1>5, <1>6

\* A row that was sent goes, if another process has not deleted it
LEMMA CompleteKeepsPromise ==
  ASSUME ReportingAssumption, IInv, NEW p \in Maintainer, NEW i \in Item, Complete(p, i)
  PROVE  Promise!Next \/ UNCHANGED Promise!vars
<1>1. /\ pc[p] = "completing" /\ i = Head(todo[p]) /\ p \in Process
      /\ Goto(p, "draining", Tail(todo[p])) /\ issued' = issued
      /\ lost' = IF Ignored(p, i) THEN lost \cup ({i} \cap Queued) ELSE lost
  BY DEF Complete, runVars, Process
<1>2. InHand' = InHand
  <2>1. "draining" \in Location /\ ~Making("draining") /\ Hand(p) = {}
    BY <1>1 DEF Location, Making, Hand
  <2> QED BY <1>1, <2>1, HandEmpties
<1>3. Queued' = Queued \ {i} /\ Arrived' = Arrived
  BY Deletes, Quiet DEF Complete, netVars, IInv
<1>4. CASE Ignored(p, i)
  <2> DEFINE items == {i} \cap Queued
  <2>1. Promise!Discard(items) /\ items \in SUBSET Queued
    BY <1>1, <1>2, <1>3, <1>4 DEF Promise!Discard
  <2> QED BY <2>1 DEF Promise!Next
<1>5. CASE ~Ignored(p, i)
  <2>1. i \in Arrived
    BY <1>1, <1>5 DEF IInv, CompletingOK
  <2>2. CASE i \in Queued
    BY <1>1, <1>2, <1>3, <1>5, <2>1, <2>2 DEF Promise!Settle, Promise!Next
  <2>3. CASE i \notin Queued
    BY <1>1, <1>2, <1>3, <1>5, <2>3 DEF Promise!vars
  <2> QED BY <2>2, <2>3
<1> QED BY <1>4, <1>5

\* Pruning drops rows, whichever they are
LEMMA PruneKeepsPromise ==
  ASSUME ReportingAssumption, IInv, NEW p \in Maintainer, Prune(p)
  PROVE  Promise!Next
<1>1. /\ pc[p] = "pruning" /\ Goto(p, "idle", <<>>) /\ p \in Process /\ issued' = issued
      /\ \E rows \in SUBSET outbox :
           LET pruned == {row.item : row \in rows}
           IN Delete(pruned) /\ lost' = lost \cup pruned
  BY DEF Prune, runVars, Process
<1>2. PICK rows \in SUBSET outbox :
        LET pruned == {row.item : row \in rows}
        IN Delete(pruned) /\ lost' = lost \cup pruned
  BY <1>1
<1> DEFINE pruned == {row.item : row \in rows}
<1>3. InHand' = InHand
  <2>1. "idle" \in Location /\ ~Making("idle") /\ Hand(p) = {}
    BY <1>1 DEF Location, Making, Hand
  <2> QED BY <1>1, <2>1, HandEmpties
<1>4. Queued' = Queued \ pruned /\ Arrived' = Arrived
  BY <1>2, Deletes, Quiet DEF Prune, netVars, IInv
<1>5. Promise!Discard(pruned) /\ pruned \in SUBSET Queued
  BY <1>1, <1>2, <1>3, <1>4 DEF Promise!Discard, Queued
<1> QED BY <1>5 DEF Promise!Next

\* A process that dies gives up what it held
LEMMA CrashKeepsPromise ==
  ASSUME ReportingAssumption, IInv, NEW p \in Process, Crash(p)
  PROVE  Promise!Next
<1>1. Goto(p, "idle", <<>>) /\ issued' = issued /\ lost' = lost \cup Hand(p)
  BY DEF Crash, runVars, Hand, Making
<1>2. Hand(p) \subseteq InHand /\ InHand' = InHand \ Hand(p)
  BY <1>1, HandEmpties DEF Location, Making
<1>3. Queued' = Queued /\ Arrived' = Arrived
  BY Quiet, BoxStays DEF Crash, boxVars, netVars, IInv
<1>4. Promise!Abandon(Hand(p)) /\ Hand(p) \in SUBSET InHand
  BY <1>1, <1>2, <1>3 DEF Promise!Abandon, Promise!LetGo
<1> QED BY <1>4 DEF Promise!Next

\* Looking for rows, failing to send or to postpone one, and the end of a run
\* that has nothing left to say change nothing that was promised
LEMMA OthersKeepPromise ==
  ASSUME ReportingAssumption, IInv, NEW p \in Process,
         \/ RunReturns /\ p = Backup
         \/ Maintain(p) \/ Fatal(p) \/ \E i \in Item : Undelivered(p, i) \/ Postpone(p, i)
  PROVE  UNCHANGED Promise!vars
<1>1. UNCHANGED <<issued, outbox, log, notified, lost>>
  BY DEF RunReturns, Maintain, Fatal, Undelivered, Postpone, DrainTo, SendFails, runVars,
         boxVars, netVars
<1>2. Hand(p) = {}
  BY DEF RunReturns, Maintain, Fatal, Undelivered, Postpone, DrainTo, Hand, Making, ToSet
<1>3. \E l \in Location : ~Making(l) /\ \E items : Goto(p, l, items)
  <2>1. /\ {"idle", "draining", "postponing"} \subseteq Location
        /\ \A l \in {"idle", "draining", "postponing"} : ~Making(l)
    BY DEF Location, Making
  <2>2. \E l \in {"idle", "draining", "postponing"} : \E items : Goto(p, l, items)
    BY DEF RunReturns, Maintain, Fatal, Undelivered, Postpone, DrainTo
  <2> QED BY <2>1, <2>2
<1>4. InHand' = InHand
  BY <1>2, <1>3, HandEmpties
<1>5. Queued' = Queued /\ Arrived' = Arrived
  BY <1>1, Quiet, BoxStays DEF IInv
<1> QED BY <1>1, <1>4, <1>5 DEF Promise!vars

\* Time, the administrator and the network
LEMMA OutsideKeepsPromise ==
  ASSUME ReportingAssumption, IInv, MadeOK,
         SwitchMonitoring \/ (\E i \in Item : Arrive(i) \/ Wake(i)) \/ UNCHANGED vars
  PROVE  Promise!Next \/ UNCHANGED Promise!vars
<1>1. UNCHANGED <<pc, todo, issued, outbox, lost>>
  BY DEF SwitchMonitoring, Arrive, Wake, vars, hostVars, runVars, boxVars
<1>2. InHand' = InHand /\ Queued' = Queued
  BY <1>1 DEF InHand, Hand, Making, ToSet, Queued
<1>3. CASE UNCHANGED <<log, notified>>
  BY <1>1, <1>2, <1>3, Quiet DEF Promise!vars, IInv
<1>4. CASE \E i \in Item : Arrive(i)
  <2>1. PICK i \in Item : Arrive(i)
    BY <1>4
  <2>2. i \in issued /\ Arrived' = Arrived \cup {i}
    BY <2>1, ReceivedArrives DEF Arrive, MadeOK, IInv, HostOK
  <2>3. Promise!Arrive(i)
    BY <1>1, <1>2, <2>2 DEF Promise!Arrive
  <2> QED BY <2>2, <2>3 DEF Promise!Next
<1> QED BY <1>3, <1>4 DEF SwitchMonitoring, Wake, vars, netVars

\* The outbox keeps its promise with any number of processes that claim no row:
\* an item is queued once, by who made it, its row goes when it arrived or was
\* dropped, and never comes back, and nothing arrives that was not made
THEOREM ImplementsPromise == Spec => PromiseKept
<1>1. Init => MadeOK /\ Promise!Init
  <2> SUFFICES ASSUME Init PROVE MadeOK /\ Promise!Init
    OBVIOUS
  <2>1. \A p \in Process : pc[p] = "idle" /\ todo[p] = <<>>
    BY DEF Init
  <2>2. ToSet(<<>>) = {}
    BY DEF ToSet
  <2>3. InHand = {} /\ Queued = {} /\ Arrived = {}
    BY <2>1, <2>2 DEF Init, InHand, Hand, Making, Queued, Arrived
  <2> QED BY <2>1, <2>2, <2>3 DEF Init, MadeOK, Promise!Init
<1>2. IInv /\ TypeInv /\ MadeOK /\ [Next]_vars => MadeOK'
  BY MadeStep, ReportingAssumption
<1>3. IInv /\ TypeInv /\ MadeOK /\ [Next]_vars => [Promise!Next]_(Promise!vars)
  <2> SUFFICES ASSUME IInv, TypeInv, MadeOK, [Next]_vars
               PROVE  Promise!Next \/ UNCHANGED Promise!vars
    OBVIOUS
  <2> USE ReportingAssumption
  <2>1. Backup \in Process /\ Maintainer \subseteq Process
    BY DEF Process
  <2>2. CASE BeginRun
    BY <2>1, <2>2, BeginRunStep, MakingKeepsPromise DEF BeginRun
  <2>3. CASE EndRun
    BY <2>1, <2>3, EndRunStep, MakingKeepsPromise DEF EndRun
  <2>4. CASE \E p \in Maintainer : Beat(p)
    <3>1. PICK p \in Maintainer : Beat(p)
      BY <2>4
    <3> QED BY <2>1, <3>1, BeatStep, MakingKeepsPromise DEF Beat
  <2>5. CASE \E p \in Process : Report(p) \/ Enqueue(p) \/ Crash(p)
    BY <2>5, ReportKeepsPromise, EnqueueKeepsPromise, CrashKeepsPromise
  <2>6. CASE \E p \in Maintainer : Prune(p)
    BY <2>6, PruneKeepsPromise
  <2>7. CASE \E p \in Maintainer, i \in Item : Delivered(p, i) \/ Complete(p, i)
    BY <2>7, DeliveredKeepsPromise, CompleteKeepsPromise
  <2>8. CASE RunReturns
    BY <2>1, <2>8, OthersKeepPromise
  <2>9. CASE \E p \in Maintainer : \/ Maintain(p) \/ Fatal(p)
                                   \/ \E i \in Item : Undelivered(p, i) \/ Postpone(p, i)
    BY <2>1, <2>9, OthersKeepPromise
  <2>10. CASE SwitchMonitoring \/ (\E i \in Item : Arrive(i) \/ Wake(i)) \/ UNCHANGED vars
    BY <2>10, OutsideKeepsPromise
  <2> QED
    BY <2>2, <2>3, <2>4, <2>5, <2>6, <2>7, <2>8, <2>9, <2>10, Steps
<1> QED
  BY <1>1, <1>2, <1>3, TypeInvInvariant, PTL DEF Spec, PromiseKept, Promise!Spec
=============================================================================
