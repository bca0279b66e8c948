------------------------ MODULE MonitorServerProofs ------------------------
(***************************************************************************)
(* Theorems of MonitorServer for every set of handlers, nodes and events,  *)
(* every window and any number of attempts, crashes and failed saves: an   *)
(* event is counted once, what was answered with ok is kept, and a node is *)
(* shown as the recorded events say.                                       *)
(***************************************************************************)
EXTENDS MonitorServer, FiniteSetTheorems, TLAPS

\* The reports r are the end of the log l, as long as the window allows
EndOf(r, l) ==
  /\ Len(r) <= Window /\ Len(r) <= Len(l)
  /\ Len(r) < Window => Len(r) = Len(l)
  /\ \A k \in 1..Len(r) : r[k] = l[Len(l) - Len(r) + k]

NoRepeat(l) == \A i, j \in 1..Len(l) : i < j /\ l[i] = l[j] => j - i > Window

LogOK(s) == EndOf(s.reports, s.log) /\ NoRepeat(s.log)

\* A handler between its critical sections serves a request of a node that
\* the server knows, and that it will go on knowing
HandlerOK ==
  \A h \in Handler : pc[h] = "looked" =>
    /\ up /\ request[h] \in Request /\ view[h] \in NodeState
    /\ mem.nodes[Report[request[h].event].node] \in NodeState

\* What was answered with ok and not undone is also in memory, from where it is saved again,
\* and what memory holds is in the file, from where it is loaded again
AcceptedOK ==
  /\ AcceptedIsDurable /\ undone \subseteq unsynced
  /\ up => /\ \A e \in accepted \ (overwritten \cup undone) : Holds(mem, e)
           /\ \A e \in Event \ overwritten : Holds(mem, e) => Holds(disk, e)

IInv ==
  /\ TypeOK /\ HandlerOK /\ AcceptedOK
  /\ LogOK(mem) /\ LogOK(disk) /\ LogOK(durable)
  /\ adder # None => LogOK(adder.state)

---------------------------------------------------------------------------
(* What an event does to a state *)

\* An event's node, and the node's state after it, have their types
LEMMA UpdatedType ==
  ASSUME NEW s \in NodeState, NEW e \in Event
  PROVE  Updated(s, e) \in NodeState /\ Report[e].node \in Node
<1>1. Report[e] \in [node : Node, kind : Kind] /\ e \in Time
  <2> DEFINE R == [node : Node, kind : Kind]
  <2>1. Report \in Seq(R)
    BY MonitorAssumption
  <2> HIDE DEF R
  <2>2. Len(Report) \in Nat /\ DOMAIN Report = 1..Len(Report)
    BY <2>1
  <2>3. e \in 1..Len(Report)
    BY <2>2 DEF Event
  <2>4. Report[e] \in R
    BY <2>1, <2>3
  <2>5. e \in Time
    BY <2>2, <2>3 DEF Time
  <2> QED BY <2>4, <2>5 DEF R
<1>2. Report[e].kind \in Kind /\ Report[e].node \in Node
  BY <1>1
<1>3. /\ [s EXCEPT !.heartbeat = e] \in NodeState
      /\ [s EXCEPT !.status = "running"] \in NodeState
      /\ [s EXCEPT !.status = "failed", !.failures = @ + 1] \in NodeState
      /\ [s EXCEPT !.status = Report[e].kind, !.success = e, !.failures = 0] \in NodeState
  <2>1. [s EXCEPT !.heartbeat = e] \in NodeState
    BY <1>1 DEF NodeState
  <2>2. [s EXCEPT !.status = "running"] \in NodeState
    BY DEF NodeState, Kind
  <2>3. [s EXCEPT !.status = "failed", !.failures = @ + 1] \in NodeState
    <3>1. s.failures + 1 \in Nat
      <4>1. s.failures \in Nat
        BY DEF NodeState
      <4> QED BY <4>1
    <3> QED BY <3>1 DEF NodeState, Kind
  <2>4. [s EXCEPT !.status = Report[e].kind, !.success = e, !.failures = 0] \in NodeState
    BY <1>1, <1>2 DEF NodeState
  <2> QED BY <2>1, <2>2, <2>3, <2>4
<1>4. \/ Updated(s, e) = [s EXCEPT !.heartbeat = e]
      \/ Updated(s, e) = [s EXCEPT !.status = "running"]
      \/ Updated(s, e) = [s EXCEPT !.status = "failed", !.failures = @ + 1]
      \/ Updated(s, e) = [s EXCEPT !.status = Report[e].kind, !.success = e, !.failures = 0]
  BY DEF Updated
<1> QED BY <1>2, <1>3, <1>4

\* A sequence that is cut keeps its end
LEMMA TrimmedEnd ==
  ASSUME NEW S, NEW t \in Seq(S)
  PROVE  /\ Trimmed(t) \in Seq(S)
         /\ Len(t) <= Window => Trimmed(t) = t
         /\ Len(t) > Window =>
              /\ Len(Trimmed(t)) = Window
              /\ \A k \in 1..Window : Trimmed(t)[k] = t[Len(t) - Window + k]
<1>1. Window \in Nat /\ Window > 0 /\ Len(t) \in Nat
  BY MonitorAssumption
<1>2. CASE Len(t) <= Window
  BY <1>1, <1>2 DEF Trimmed
<1>3. CASE Len(t) > Window
  <2> DEFINE from == Len(t) - Window + 1
  <2>1. from \in 1..Len(t) /\ Len(t) - from + 1 = Window
    BY <1>1, <1>3
  <2> HIDE DEF from
  <2>2. /\ SubSeq(t, from, Len(t)) \in Seq(S)
        /\ Len(SubSeq(t, from, Len(t))) = Window
        /\ \A k \in 1..Window : SubSeq(t, from, Len(t))[k] = t[from + k - 1]
    BY <1>1, <2>1
  <2>3. Trimmed(t) = SubSeq(t, from, Len(t))
    BY <1>3 DEF Trimmed, from
  <2>4. \A k \in 1..Window : from + k - 1 = Len(t) - Window + k
    BY <1>1 DEF from
  <2> QED BY <1>1, <1>3, <2>2, <2>3, <2>4
<1> QED BY <1>1, <1>2, <1>3

\* Appending what is not in the window to the log repeats nothing within it
LEMMA AppendOnce ==
  ASSUME NEW S, NEW r \in Seq(S), NEW l \in Seq(S), NEW e \in S,
         EndOf(r, l), NoRepeat(l), \A i \in 1..Len(r) : r[i] # e
  PROVE  NoRepeat(Append(l, e)) /\ EndOf(Trimmed(Append(r, e)), Append(l, e))
<1>1. Window \in Nat /\ Window > 0 /\ Len(r) \in Nat /\ Len(l) \in Nat
  BY MonitorAssumption
<1>2. /\ Len(r) <= Window /\ Len(r) <= Len(l)
      /\ Len(r) < Window => Len(r) = Len(l)
      /\ \A k \in 1..Len(r) : r[k] = l[Len(l) - Len(r) + k]
  BY DEF EndOf
<1>3. /\ Append(l, e) \in Seq(S) /\ Len(Append(l, e)) = Len(l) + 1
      /\ Append(l, e)[Len(l) + 1] = e
      /\ \A k \in 1..Len(l) : Append(l, e)[k] = l[k]
  OBVIOUS
<1>4. /\ Append(r, e) \in Seq(S) /\ Len(Append(r, e)) = Len(r) + 1
      /\ Append(r, e)[Len(r) + 1] = e
      /\ \A k \in 1..Len(r) : Append(r, e)[k] = r[k]
  OBVIOUS
<1>5. NoRepeat(Append(l, e))
  <2> SUFFICES ASSUME NEW i \in 1..(Len(l) + 1), NEW j \in 1..(Len(l) + 1),
                      i < j, Append(l, e)[i] = Append(l, e)[j]
               PROVE  j - i > Window
    BY <1>3 DEF NoRepeat
  <2>1. i \in 1..Len(l)
    BY <1>1
  <2>2. CASE j \in 1..Len(l)
    BY <1>3, <2>1, <2>2 DEF NoRepeat
  <2>3. CASE j = Len(l) + 1
    <3>1. l[i] = e
      BY <1>3, <2>1, <2>3
    <3>2. \A k \in 1..Len(r) : Len(l) - Len(r) + k # i
      BY <1>2, <3>1
    <3>3. i <= Len(l) - Len(r)
      <4> SUFFICES ASSUME ~(i <= Len(l) - Len(r)) PROVE FALSE
        OBVIOUS
      <4> DEFINE k == i - (Len(l) - Len(r))
      <4>1. k \in 1..Len(r) /\ Len(l) - Len(r) + k = i
        BY <1>1, <1>2, <2>1
      <4> HIDE DEF k
      <4> QED BY <3>2, <4>1
    <3> QED BY <1>1, <1>2, <2>1, <2>3, <3>3
  <2> QED BY <1>1, <2>2, <2>3
<1>6. \A k \in 1..(Len(r) + 1) : Append(r, e)[k] = Append(l, e)[Len(l) - Len(r) + k]
  <2> TAKE k \in 1..(Len(r) + 1)
  <2>1. CASE k \in 1..Len(r)
    <3>1. Len(l) - Len(r) + k \in 1..Len(l)
      BY <1>1, <1>2, <2>1
    <3>2. \A x \in 1..Len(l) : x = Len(l) - Len(r) + k => r[k] = Append(l, e)[x]
      BY <1>2, <1>3, <2>1
    <3>3. r[k] = Append(l, e)[Len(l) - Len(r) + k]
      BY <3>1, <3>2
    <3> QED BY <1>4, <2>1, <3>3
  <2>2. CASE k = Len(r) + 1
    <3>1. Len(l) - Len(r) + k = Len(l) + 1
      BY <1>1, <2>2
    <3> QED BY <1>3, <1>4, <2>2, <3>1
  <2>3. k \in 1..Len(r) \/ k = Len(r) + 1
    BY <1>1
  <2> QED BY <2>1, <2>2, <2>3
<1> DEFINE t == Trimmed(Append(r, e))
<1>7. CASE Len(r) < Window
  <2>1. t = Append(r, e) /\ Len(t) = Len(r) + 1
    <3> DEFINE a == Append(r, e)
    <3>1. a \in Seq(S) /\ Len(a) = Len(r) + 1 /\ Len(a) <= Window
      BY <1>1, <1>4, <1>7
    <3> HIDE DEF a
    <3>2. Trimmed(a) = a
      BY <3>1, TrimmedEnd
    <3> QED BY <3>1, <3>2 DEF a
  <2>2. Len(r) = Len(l)
    BY <1>2, <1>7
  <2>3. \A k \in 1..(Len(r) + 1) : t[k] = Append(l, e)[Len(l) + 1 - (Len(r) + 1) + k]
    <3>1. \A k \in 1..(Len(r) + 1) : Len(l) + 1 - (Len(r) + 1) + k = Len(l) - Len(r) + k
      BY <1>1
    <3> QED BY <1>6, <2>1, <3>1
  <2> HIDE DEF t
  <2>4. EndOf(t, Append(l, e))
    BY <1>1, <1>3, <1>7, <2>1, <2>2, <2>3 DEF EndOf
  <2> QED BY <1>5, <2>4 DEF t
<1>8. CASE Len(r) = Window
  <2>1. /\ Len(t) = Window
        /\ \A k \in 1..Window : t[k] = Append(r, e)[k + 1]
    <3>1. \A k \in 1..Window : Len(r) + 1 - Window + k = k + 1
      BY <1>1, <1>8
    <3> DEFINE a == Append(r, e)
    <3>2. a \in Seq(S) /\ Len(a) = Len(r) + 1 /\ Len(a) > Window
      BY <1>1, <1>4, <1>8
    <3> HIDE DEF a
    <3>3. /\ Len(Trimmed(a)) = Window
          /\ \A k \in 1..Window : Trimmed(a)[k] = a[Len(a) - Window + k]
      BY <3>2, TrimmedEnd
    <3>4. \A k \in 1..Window : Trimmed(a)[k] = a[k + 1]
      BY <3>1, <3>2, <3>3
    <3> QED BY <3>3, <3>4 DEF a
  <2>2. \A k \in 1..Window : t[k] = Append(l, e)[Len(l) + 1 - Window + k]
    <3>1. \A k \in 1..Window : /\ k + 1 \in 1..(Len(r) + 1)
                               /\ Len(l) - Len(r) + (k + 1) = Len(l) + 1 - Window + k
      BY <1>1, <1>8
    <3> HIDE DEF t
    <3> QED BY <1>6, <2>1, <3>1
  <2> HIDE DEF t
  <2> DEFINE b == Append(l, e)
  <2>3. Len(b) = Len(l) + 1 /\ Window <= Len(l) + 1
    BY <1>1, <1>2, <1>3, <1>8
  <2> HIDE DEF b
  <2>4. EndOf(t, b)
    <3>1. \A k \in 1..Len(t) : t[k] = b[Len(b) - Len(t) + k]
      BY <2>1, <2>2, <2>3 DEF b
    <3>2. Len(t) <= Window /\ Len(t) <= Len(b) /\ ~(Len(t) < Window)
      BY <1>1, <2>1, <2>3
    <3> QED BY <3>1, <3>2 DEF EndOf
  <2> QED BY <1>5, <2>4 DEF t, b
<1> QED BY <1>1, <1>2, <1>7, <1>8

\* Recording an event keeps a state's type, log and known nodes
LEMMA RecordedOK ==
  ASSUME NEW s \in State, NEW e \in Event, s.nodes[Report[e].node] \in NodeState,
         LogOK(s), ~\E i \in DOMAIN s.reports : s.reports[i] = e
  PROVE  /\ Recorded(s, e) \in State /\ LogOK(Recorded(s, e))
         /\ Recorded(s, e).log = Append(s.log, e)
         /\ \A n \in Node :
              s.nodes[n] \in NodeState => Recorded(s, e).nodes[n] \in NodeState
<1> DEFINE n == Report[e].node
           nodes == [s.nodes EXCEPT ![n] = Updated(@, e)]
           reports == Trimmed(Append(s.reports, e))
           log == Append(s.log, e)
<1>1. n \in Node /\ Updated(s.nodes[n], e) \in NodeState
  BY UpdatedType
<1>2. /\ s.nodes \in [Node -> NodeState \cup {None}]
      /\ s.reports \in Seq(Event) /\ s.log \in Seq(Event) /\ s.outdated \in SUBSET Node
  BY DEF State
<1>3. /\ nodes \in [Node -> NodeState \cup {None}]
      /\ \A k \in Node : s.nodes[k] \in NodeState => nodes[k] \in NodeState
  BY <1>1, <1>2
<1>4. log \in Seq(Event) /\ reports \in Seq(Event)
  <2>1. Append(s.reports, e) \in Seq(Event) /\ Append(s.log, e) \in Seq(Event)
    BY <1>2
  <2> QED BY <2>1, TrimmedEnd
<1>5. Recorded(s, e) = [nodes |-> nodes, reports |-> reports, log |-> log,
                        outdated |-> s.outdated]
  BY DEF Recorded
<1>6. NoRepeat(log) /\ EndOf(reports, log)
  <2>1. \A i \in 1..Len(s.reports) : s.reports[i] # e
    BY <1>2
  <2> QED BY <1>2, <2>1, AppendOnce DEF LogOK
<1> HIDE DEF n, nodes, reports, log
<1>7. /\ Recorded(s, e).nodes = nodes /\ Recorded(s, e).reports = reports
      /\ Recorded(s, e).log = log
  BY <1>5
<1>8. Recorded(s, e) \in State
  BY <1>2, <1>3, <1>4, <1>5 DEF State
<1>9. LogOK(Recorded(s, e))
  BY <1>6, <1>7 DEF LogOK
<1>10. log = Append(s.log, e)
  BY DEF log
<1> QED BY <1>3, <1>7, <1>8, <1>9, <1>10

\* What was in the log stays there, and the event is there too
LEMMA AppendHolds ==
  ASSUME NEW s \in State, NEW t \in State, NEW e \in Event, t.log = Append(s.log, e)
  PROVE  Holds(t, e) /\ \A x : Holds(s, x) => Holds(t, x)
<1>1. s.log \in Seq(Event)
  BY DEF State
<1> DEFINE l == s.log
<1>2. l \in Seq(Event)
  BY <1>1
<1> HIDE DEF l
<1>3. /\ DOMAIN Append(l, e) = 1..(Len(l) + 1) /\ DOMAIN l = 1..Len(l) /\ Len(l) \in Nat
      /\ Append(l, e)[Len(l) + 1] = e
      /\ \A k \in 1..Len(l) : Append(l, e)[k] = l[k]
  BY <1>2
<1>4. t.log = Append(l, e)
  BY DEF l
<1>5. Holds(t, e)
  BY <1>3, <1>4 DEF Holds
<1>6. ASSUME NEW x, Holds(s, x) PROVE Holds(t, x)
  <2>1. PICK i \in DOMAIN l : l[i] = x
    BY <1>6 DEF Holds, l
  <2> QED BY <1>3, <1>4, <2>1 DEF Holds
<1> QED BY <1>5, <1>6

\* The empty state and the roll-back keep what recording keeps
LEMMA EmptyOK == Empty \in State /\ LogOK(Empty)
<1>1. /\ Empty.nodes = [n \in Node |-> None] /\ Empty.reports = <<>> /\ Empty.log = <<>>
      /\ Empty = [nodes |-> [n \in Node |-> None], reports |-> <<>>, log |-> <<>>,
                  outdated |-> {}]
  BY DEF Empty
<1>2. Empty \in State
  BY <1>1 DEF State
<1>3. Window \in Nat /\ Window > 0
  BY MonitorAssumption
<1>4. EndOf(<<>>, <<>>) /\ NoRepeat(<<>>)
  BY <1>3 DEF EndOf, NoRepeat
<1> QED BY <1>1, <1>2, <1>4 DEF LogOK

\* A node that was just added has a state like every other
LEMMA FreshType == Fresh \in NodeState
<1>1. 0 \in Time
  <2> DEFINE R == [node : Node, kind : Kind]
  <2>1. Report \in Seq(R)
    BY MonitorAssumption
  <2> HIDE DEF R
  <2> QED BY <2>1 DEF Time
<1> QED BY <1>1 DEF Fresh, NodeState

\* What a request names
LEMMA RequestType ==
  ASSUME NEW x \in Request
  PROVE  x.event \in Event /\ Report[x.event].node \in Node
<1>1. x.event \in Event
  BY DEF Request
<1> QED BY <1>1, FreshType, UpdatedType

\* The state after a failed save: another copy of one node, the same events
LEMMA RolledBackOK ==
  ASSUME IInv, NEW h \in Handler, pc[h] = "looked"
  PROVE  /\ RolledBack(h) \in State /\ LogOK(RolledBack(h))
         /\ RolledBack(h).log = mem.log
         /\ \A n \in Node :
              mem.nodes[n] \in NodeState => RolledBack(h).nodes[n] \in NodeState
<1> DEFINE n == Report[request[h].event].node
           nodes == [mem.nodes EXCEPT ![n] = view[h]]
           outdated == IF view[h] = mem.nodes[n] THEN mem.outdated
                       ELSE mem.outdated \cup {n}
<1>1. mem \in State /\ view[h] \in NodeState /\ LogOK(mem) /\ n \in Node
  BY RequestType DEF IInv, TypeOK, HandlerOK
<1>2. /\ mem.nodes \in [Node -> NodeState \cup {None}]
      /\ mem.reports \in Seq(Event) /\ mem.log \in Seq(Event)
      /\ mem.outdated \in SUBSET Node
  BY <1>1 DEF State
<1>3. /\ nodes \in [Node -> NodeState \cup {None}] /\ outdated \in SUBSET Node
      /\ \A k \in Node : mem.nodes[k] \in NodeState => nodes[k] \in NodeState
  BY <1>1, <1>2
<1>4. RolledBack(h) = [nodes |-> nodes, reports |-> mem.reports, log |-> mem.log,
                       outdated |-> outdated]
  <2>1. RolledBack(h) = [mem EXCEPT !.nodes = nodes, !.outdated = outdated]
    BY DEF RolledBack
  <2> HIDE DEF nodes, outdated
  <2> QED BY <1>1, <2>1 DEF State
<1> HIDE DEF nodes, outdated
<1> QED BY <1>1, <1>2, <1>3, <1>4 DEF State, LogOK

---------------------------------------------------------------------------
(* The steps *)

\* A handler takes up a request
LEMMA LookStep ==
  ASSUME IInv, NEW h \in Handler, NEW x \in Request, Look(h, x)
  PROVE  IInv'
<1> USE DEF IInv
<1> DEFINE n == Report[x.event].node
<1>0. /\ up /\ pc' = [pc EXCEPT ![h] = "looked"]
      /\ request' = [request EXCEPT ![h] = x]
      /\ view' = [view EXCEPT ![h] = mem.nodes[n]]
      /\ UNCHANGED <<up, mem, nonces, accepted, unsynced, undone, disk, durable, adder, added,
                     overwritten>>
  BY DEF Look, answerVars, fileVars, adderVars
<1>1. AcceptedOK' /\ LogOK(mem)' /\ LogOK(disk)' /\ LogOK(durable)'
      /\ (adder # None => LogOK(adder.state))'
  BY <1>0 DEF AcceptedOK, AcceptedIsDurable, Holds, LogOK, EndOf, NoRepeat
<1>2. n \in Node /\ mem.nodes[n] \in NodeState
  <2>1. n \in Node
    BY RequestType
  <2>2. mem.nodes \in [Node -> NodeState \cup {None}]
    BY DEF TypeOK, State
  <2> QED BY <2>1, <2>2 DEF Look
<1> HIDE DEF n
<1>3. TypeOK'
  BY <1>0, <1>2 DEF TypeOK
<1>4. HandlerOK'
  <2> SUFFICES ASSUME NEW k \in Handler, pc'[k] = "looked"
               PROVE  /\ up /\ request'[k] \in Request /\ view'[k] \in NodeState
                      /\ mem.nodes[Report[request'[k].event].node] \in NodeState
    BY <1>0 DEF HandlerOK
  <2>1. CASE k = h
    <3>1. request'[k] = x /\ view'[k] = mem.nodes[n]
      BY <1>0, <2>1 DEF TypeOK
    <3> QED BY <1>0, <1>2, <3>1 DEF n
  <2>2. CASE k # h
    <3>1. pc[k] = "looked" /\ request'[k] = request[k] /\ view'[k] = view[k]
      BY <1>0, <2>2 DEF TypeOK
    <3> QED BY <3>1 DEF HandlerOK
  <2> QED BY <2>1, <2>2
<1> QED BY <1>1, <1>3, <1>4

\* A report is in the log, whose end the reports are
LEMMA ReportIsHeld ==
  ASSUME NEW s \in State, LogOK(s), NEW e, NEW i \in DOMAIN s.reports, s.reports[i] = e
  PROVE  Holds(s, e)
<1> DEFINE R == s.reports
           L == s.log
<1>1. R \in Seq(Event) /\ L \in Seq(Event)
  BY DEF State
<1>2. /\ Len(R) <= Len(L)
      /\ \A k \in 1..Len(R) : R[k] = L[Len(L) - Len(R) + k]
  BY DEF LogOK, EndOf
<1>3. i \in DOMAIN R /\ R[i] = e
  OBVIOUS
<1> HIDE DEF R, L
<1>4. i \in 1..Len(R) /\ DOMAIN L = 1..Len(L) /\ Len(R) \in Nat /\ Len(L) \in Nat
  BY <1>1, <1>3
<1>5. Len(L) - Len(R) + i \in DOMAIN L
  BY <1>2, <1>4
<1>6. L[Len(L) - Len(R) + i] = e
  BY <1>2, <1>3, <1>4
<1> QED BY <1>5, <1>6 DEF Holds, L

\* A handler answers without recording anything: a replay is refused, and a
\* duplicate is answered with ok
LEMMA AnswerStep ==
  ASSUME IInv, NEW h \in Handler, RefuseReplay(h) \/ AnswerDuplicate(h)
  PROVE  IInv'
<1> USE DEF IInv
<1> DEFINE e == request[h].event
<1>1. /\ pc[h] = "looked" /\ pc' = [pc EXCEPT ![h] = "idle"]
      /\ request' = [request EXCEPT ![h] = None] /\ view' = [view EXCEPT ![h] = None]
      /\ UNCHANGED <<up, mem, nonces, disk, durable, adder, added, overwritten>>
      /\ \/ UNCHANGED <<accepted, unsynced, undone>>
         \/ /\ Duplicate(e) /\ accepted' = accepted \cup {e}
            /\ unsynced' = IF Holds(durable, e) THEN unsynced ELSE unsynced \cup {e}
            /\ undone' = undone \ {e}
  BY DEF RefuseReplay, AnswerDuplicate, Done, answerVars, fileVars, adderVars
<1>2. up /\ e \in Event
  BY <1>1, RequestType DEF HandlerOK
<1>3. Duplicate(e) => Holds(mem, e)
  BY ReportIsHeld DEF Duplicate, TypeOK
<1> HIDE DEF e
<1>4. TypeOK'
  BY <1>1, <1>2 DEF TypeOK
<1>5. HandlerOK'
  BY <1>1 DEF HandlerOK, TypeOK
<1>6. AcceptedOK'
  <2>1. /\ undone \subseteq unsynced
        /\ \A x \in accepted \ overwritten :
              /\ x \in undone \/ (Holds(disk, x) /\ Holds(mem, x))
              /\ x \in unsynced \/ Holds(durable, x)
        /\ \A x \in Event \ overwritten : Holds(mem, x) => Holds(disk, x)
    BY <1>2 DEF AcceptedOK, AcceptedIsDurable
  <2>2. /\ undone' \subseteq unsynced'
        /\ \A x \in accepted' \ overwritten' :
              /\ x \in undone' \/ (Holds(disk, x) /\ Holds(mem, x))
              /\ x \in unsynced' \/ Holds(durable, x)
    BY <1>1, <1>2, <1>3, <2>1
  <2> QED BY <1>1, <2>1, <2>2 DEF AcceptedOK, AcceptedIsDurable, Holds
<1>7. /\ LogOK(mem)' /\ LogOK(disk)' /\ LogOK(durable)'
      /\ (adder # None => LogOK(adder.state))'
  BY <1>1 DEF LogOK, EndOf, NoRepeat
<1> QED BY <1>4, <1>5, <1>6, <1>7

\* An event is recorded in memory and on disk, or in neither for good
LEMMA RecordStep ==
  ASSUME IInv, NEW h \in Handler, Record(h)
  PROVE  IInv'
<1> DEFINE e == request[h].event
           new == Recorded(mem, e)
<1> USE DEF IInv
<1>1. /\ pc[h] = "looked" /\ up /\ request[h] \in Request
      /\ e \in Event /\ mem.nodes[Report[e].node] \in NodeState
      /\ mem \in State /\ ~\E i \in DOMAIN mem.reports : mem.reports[i] = e
  <2>1. pc[h] = "looked" /\ ~Duplicate(e)
    BY DEF Record
  <2>2. /\ up /\ request[h] \in Request
        /\ mem.nodes[Report[e].node] \in NodeState
    BY <2>1 DEF HandlerOK
  <2>3. e \in Event
    BY <2>2, RequestType
  <2> QED BY <2>1, <2>2, <2>3 DEF TypeOK, Duplicate
<1>2. /\ new \in State /\ LogOK(new) /\ new.log = Append(mem.log, e)
      /\ \A n \in Node : mem.nodes[n] \in NodeState => new.nodes[n] \in NodeState
  BY <1>1, RecordedOK
<1>3. Holds(new, e) /\ \A x : Holds(mem, x) => Holds(new, x)
  BY <1>1, <1>2, AppendHolds
<1>4. /\ RolledBack(h) \in State /\ LogOK(RolledBack(h)) /\ RolledBack(h).log = mem.log
      /\ \A n \in Node : mem.nodes[n] \in NodeState => RolledBack(h).nodes[n] \in NodeState
  BY <1>1, RolledBackOK
<1>5. /\ UNCHANGED <<up, adder, added, overwritten>>
      /\ pc' = [pc EXCEPT ![h] = "idle"] /\ request' = [request EXCEPT ![h] = None]
      /\ view' = [view EXCEPT ![h] = None]
      /\ \/ /\ disk' = new /\ durable' = new /\ mem' = new
            /\ nonces' = nonces \cup {request[h]}
            /\ accepted' = accepted \cup {e}
            /\ unsynced' = {x \in unsynced : ~Holds(durable', x)}
            /\ undone' = undone \cap unsynced'
         \/ /\ durable' = durable /\ disk' \in {disk, new} /\ mem' = RolledBack(h)
            /\ UNCHANGED <<nonces, accepted, unsynced, undone>>
  BY DEF Record, Done, Saved, SaveFails, answerVars, adderVars
<1> HIDE DEF e, new
<1>6. /\ mem' \in State /\ disk' \in State /\ durable' \in State
      /\ LogOK(mem') /\ LogOK(disk') /\ LogOK(durable')
      /\ \A n \in Node : mem.nodes[n] \in NodeState => mem'.nodes[n] \in NodeState
  BY <1>2, <1>4, <1>5 DEF TypeOK
<1>7. TypeOK'
  <2>1. /\ pc' \in [Handler -> {"idle", "looked"}]
        /\ request' \in [Handler -> Request \cup {None}]
        /\ view' \in [Handler -> NodeState \cup {None}]
    BY <1>5 DEF TypeOK
  <2>2. nonces' \subseteq Request /\ accepted' \subseteq Event
        /\ unsynced' \subseteq Event /\ undone' \subseteq Event
    BY <1>1, <1>5 DEF TypeOK
  <2> QED BY <1>5, <1>6, <2>1, <2>2 DEF TypeOK
<1>8. HandlerOK'
  <2> SUFFICES ASSUME NEW k \in Handler, pc'[k] = "looked"
               PROVE  /\ up' /\ request'[k] \in Request /\ view'[k] \in NodeState
                      /\ mem'.nodes[Report[request'[k].event].node] \in NodeState
    BY DEF HandlerOK
  <2>1. pc[k] = "looked" /\ request'[k] = request[k] /\ view'[k] = view[k]
    BY <1>5 DEF TypeOK
  <2>2. /\ up /\ request[k] \in Request /\ view[k] \in NodeState
        /\ mem.nodes[Report[request[k].event].node] \in NodeState
    BY <2>1 DEF HandlerOK
  <2>3. Report[request[k].event].node \in Node
    BY <2>2, RequestType
  <2> QED BY <1>5, <1>6, <2>1, <2>2, <2>3
<1>9. AcceptedOK'
  <2>0. /\ undone \subseteq unsynced
        /\ \A x \in accepted \ overwritten :
              /\ x \in undone \/ (Holds(disk, x) /\ Holds(mem, x))
              /\ x \in unsynced \/ Holds(durable, x)
        /\ \A x \in Event \ overwritten : Holds(mem, x) => Holds(disk, x)
    BY <1>1 DEF AcceptedOK, AcceptedIsDurable
  <2>1. \A x : Holds(RolledBack(h), x) <=> Holds(mem, x)
    BY <1>4 DEF Holds
  <2>2. /\ undone' \subseteq unsynced'
        /\ \A x \in accepted' \ overwritten' :
              /\ x \in undone' \/ (Holds(disk', x) /\ Holds(mem', x))
              /\ x \in unsynced' \/ Holds(durable', x)
    <3>1. CASE disk' = new /\ durable' = new /\ mem' = new
      BY <1>3, <1>5, <2>0, <3>1
    <3>2. CASE durable' = durable /\ disk' \in {disk, new} /\ mem' = RolledBack(h)
               /\ UNCHANGED <<accepted, unsynced, undone>>
      BY <1>3, <1>5, <2>0, <2>1, <3>2
    <3> QED BY <1>5, <3>1, <3>2
  <2>3. \A x \in Event \ overwritten' : Holds(mem', x) => Holds(disk', x)
    BY <1>3, <1>5, <2>0, <2>1
  <2> QED BY <2>2, <2>3 DEF AcceptedOK, AcceptedIsDurable, Holds
<1>10. LogOK(mem)' /\ LogOK(disk)' /\ LogOK(durable)' /\ (adder # None => LogOK(adder.state))'
  BY <1>5, <1>6 DEF LogOK, EndOf, NoRepeat
<1> QED BY <1>7, <1>8, <1>9, <1>10

\* The server stops or starts; the file is one of those it may have left
LEMMA ServerStep ==
  ASSUME IInv, Crash \/ PowerFailure \/ Start
  PROVE  IInv'
<1> USE DEF IInv
<1>1. CASE Crash \/ PowerFailure
  <2>1. /\ up' = FALSE /\ mem' = Empty /\ nonces' = {}
        /\ pc' = [h \in Handler |-> "idle"] /\ request' = [h \in Handler |-> None]
        /\ view' = [h \in Handler |-> None]
        /\ disk' \in {disk, durable} /\ durable' \in {disk', durable}
        /\ adder' \in {adder, None} /\ UNCHANGED <<accepted, added, overwritten>>
        /\ \/ UNCHANGED <<disk, durable, unsynced, undone>>
           \/ /\ durable' = disk'
              /\ unsynced' = {x \in unsynced : ~Holds(durable', x)}
              /\ undone' = unsynced'
    BY <1>1 DEF Crash, PowerFailure, ServerStops, answerVars, fileVars, adderVars
  <2>2. TypeOK'
    BY <2>1, EmptyOK DEF TypeOK
  <2>3. HandlerOK'
    BY <2>1 DEF HandlerOK
  <2>4. AcceptedOK'
    <3>1. /\ undone \subseteq unsynced
          /\ \A x \in accepted \ overwritten :
                (x \in undone \/ Holds(disk, x)) /\ (x \in unsynced \/ Holds(durable, x))
      BY DEF AcceptedOK, AcceptedIsDurable
    <3>2. /\ undone' \subseteq unsynced'
          /\ \A x \in accepted' \ overwritten' :
                (x \in undone' \/ Holds(disk', x)) /\ (x \in unsynced' \/ Holds(durable', x))
      BY <2>1, <3>1
    <3> QED BY <2>1, <3>2 DEF AcceptedOK, AcceptedIsDurable, Holds
  <2>5. LogOK(mem') /\ LogOK(disk') /\ LogOK(durable') /\ (adder' # None => LogOK(adder'.state))
    BY <2>1, EmptyOK
  <2>6. /\ LogOK(mem)' /\ LogOK(disk)' /\ LogOK(durable)'
        /\ (adder # None => LogOK(adder.state))'
    BY <2>5 DEF LogOK, EndOf, NoRepeat
  <2> QED BY <2>2, <2>3, <2>4, <2>6
<1>2. CASE Start
  <2>1. /\ up' = TRUE /\ mem' = disk /\ ~up
        /\ UNCHANGED <<nonces, pc, request, view, accepted, unsynced, undone, disk, durable, adder,
                       added, overwritten>>
    BY <1>2 DEF Start, answerVars, fileVars, adderVars
  <2>2. TypeOK' /\ HandlerOK'
    BY <2>1 DEF TypeOK, HandlerOK
  <2>3. AcceptedOK'
    BY <2>1 DEF AcceptedOK, AcceptedIsDurable, Holds
  <2>4. /\ LogOK(mem)' /\ LogOK(disk)' /\ LogOK(durable)'
        /\ (adder # None => LogOK(adder.state))'
    BY <2>1 DEF LogOK, EndOf, NoRepeat
  <2> QED BY <2>2, <2>3, <2>4
<1> QED BY <1>1, <1>2

\* Another process adds a node to the state it loaded
LEMMA AdderStep ==
  ASSUME IInv, (\E n \in Node : LoadToAdd(n)) \/ AddNode
  PROVE  IInv'
<1> USE DEF IInv
<1>1. CASE \E n \in Node : LoadToAdd(n)
  <2>1. PICK n \in Node : LoadToAdd(n)
    BY <1>1
  <2>2. /\ adder' = [node |-> n, state |-> disk] /\ adder'.state = disk
        /\ UNCHANGED <<up, mem, nonces, pc, request, view, accepted, unsynced, undone, disk, durable,
                       added, overwritten>>
    BY <2>1 DEF LoadToAdd, answerVars, serverVars, fileVars
  <2>3. TypeOK' /\ HandlerOK' /\ AcceptedOK'
    BY <2>2 DEF TypeOK, HandlerOK, AcceptedOK, AcceptedIsDurable, Holds
  <2>4. /\ LogOK(mem)' /\ LogOK(disk)' /\ LogOK(durable)'
        /\ (adder # None => LogOK(adder.state))'
    BY <2>2 DEF LogOK, EndOf, NoRepeat
  <2> QED BY <2>3, <2>4
<1>2. CASE AddNode
  <2> DEFINE s == adder.state
             n == adder.node
             nodes == [s.nodes EXCEPT ![n] = IF @ = None THEN Fresh ELSE @]
             new == [s EXCEPT !.nodes[n] = IF @ = None THEN Fresh ELSE @]
             dropped == {e \in Event : Holds(disk, e) /\ ~Holds(new, e)}
  <2>1. adder # None /\ s \in State /\ n \in Node /\ LogOK(s)
    BY <1>2 DEF AddNode, TypeOK
  <2>2. new \in State /\ new.log = s.log /\ new.reports = s.reports
    <3>1. Fresh \in NodeState
      BY FreshType
    <3>2. s.nodes \in [Node -> NodeState \cup {None}]
      BY <2>1 DEF State
    <3>3. nodes \in [Node -> NodeState \cup {None}]
      BY <2>1, <3>1, <3>2
    <3>4. new = [s EXCEPT !.nodes = nodes]
      OBVIOUS
    <3> HIDE DEF nodes, new, s
    <3> QED BY <2>1, <3>3, <3>4 DEF State
  <2>3. /\ \/ disk' = new /\ durable' = new /\ added' = added \cup {n}
           \/ durable' = durable /\ disk' \in {disk, new} /\ UNCHANGED added
        /\ overwritten' = IF disk' = disk THEN overwritten ELSE overwritten \cup dropped
        /\ adder' = None
        /\ UNCHANGED <<up, mem, nonces, pc, request, view, accepted, unsynced, undone>>
    BY <1>2 DEF AddNode, Saved, SaveFails, answerVars, serverVars
  <2>4. dropped \subseteq Event
        /\ \A e \in Event : Holds(disk, e) /\ e \notin dropped => Holds(new, e)
    OBVIOUS
  <2> HIDE DEF s, n, nodes, new, dropped
  <2>5. TypeOK'
    BY <2>1, <2>2, <2>3, <2>4 DEF TypeOK
  <2>6. HandlerOK'
    BY <2>3 DEF HandlerOK
  <2>7. AcceptedOK'
    <3>1. /\ \A e \in accepted \ overwritten :
                /\ e \in Event
                /\ e \in undone \/ Holds(disk, e)
                /\ e \in unsynced \/ Holds(durable, e)
          /\ undone \subseteq unsynced
          /\ up => \A e \in Event \ overwritten : Holds(mem, e) => Holds(disk, e)
      BY DEF AcceptedOK, AcceptedIsDurable, TypeOK
    <3>2. /\ \A e \in accepted' \ overwritten' :
                (e \in undone \/ Holds(disk', e)) /\ (e \in unsynced \/ Holds(durable', e))
          /\ up => \A e \in Event \ overwritten' : Holds(mem, e) => Holds(disk', e)
      <4>1. CASE disk' = disk
        BY <2>3, <3>1, <4>1
      <4>2. CASE disk' # disk
        <5>1. disk' = new /\ durable' \in {durable, new} /\ overwritten' = overwritten \cup dropped
          BY <2>3, <4>2
        <5>2. /\ \A e \in accepted \ overwritten' : e \in undone \/ Holds(new, e)
              /\ up => \A e \in Event \ overwritten' : Holds(mem, e) => Holds(new, e)
          BY <2>4, <3>1, <5>1
        <5> QED BY <2>3, <3>1, <5>1, <5>2
      <4> QED BY <4>1, <4>2
    <3>3. up' => \A e \in accepted' \ (overwritten' \cup undone) : Holds(mem, e)
      BY <2>3 DEF AcceptedOK
    <3> QED BY <2>3, <3>1, <3>2, <3>3 DEF AcceptedOK, AcceptedIsDurable, Holds
  <2>8. LogOK(mem') /\ LogOK(disk') /\ LogOK(durable')
    <3>1. LogOK(new)
      BY <2>1, <2>2 DEF LogOK
    <3> QED BY <2>3, <3>1
  <2>9. /\ LogOK(mem)' /\ LogOK(disk)' /\ LogOK(durable)'
        /\ (adder # None => LogOK(adder.state))'
    BY <2>3, <2>8 DEF LogOK, EndOf, NoRepeat
  <2> QED BY <2>5, <2>6, <2>7, <2>9
<1> QED BY <1>1, <1>2

\* A nonce is forgotten
LEMMA NonceStep ==
  ASSUME IInv, NEW x, ExpireNonce(x)
  PROVE  IInv'
<1> USE DEF IInv
<1>1. /\ nonces' \subseteq nonces
      /\ UNCHANGED <<up, mem, pc, request, view, accepted, unsynced, undone, disk, durable, adder,
                     added, overwritten>>
  BY DEF ExpireNonce, answerVars, fileVars, adderVars
<1>2. TypeOK' /\ HandlerOK'
  BY <1>1 DEF TypeOK, HandlerOK
<1>3. AcceptedOK'
  BY <1>1 DEF AcceptedOK, AcceptedIsDurable, Holds
<1>4. /\ LogOK(mem)' /\ LogOK(disk)' /\ LogOK(durable)'
      /\ (adder # None => LogOK(adder.state))'
  BY <1>1 DEF LogOK, EndOf, NoRepeat
<1> QED BY <1>2, <1>3, <1>4

\* The invariant holds at first
LEMMA InitIInv == Init => IInv
<1> SUFFICES ASSUME Init PROVE IInv
  OBVIOUS
<1>1. TypeOK
  BY EmptyOK DEF Init, TypeOK
<1>2. HandlerOK /\ AcceptedOK
  BY DEF Init, HandlerOK, AcceptedOK, AcceptedIsDurable
<1>3. LogOK(mem) /\ LogOK(disk) /\ LogOK(durable) /\ (adder # None => LogOK(adder.state))
  BY EmptyOK DEF Init
<1> QED BY <1>1, <1>2, <1>3 DEF IInv

\* The invariant holds in every behaviour
LEMMA IInvInvariant == Spec => []IInv
<1>1. IInv /\ [Next]_vars => IInv'
  <2>1. IInv /\ Next => IInv'
    BY LookStep, AnswerStep, RecordStep, NonceStep, ServerStep, AdderStep DEF Next
  <2>2. ASSUME IInv, UNCHANGED vars
        PROVE  IInv'
    <3>0. UNCHANGED <<up, mem, nonces, pc, request, view, accepted, unsynced, undone, disk, durable,
                      adder, added, overwritten>>
      BY <2>2 DEF vars, answerVars, serverVars, fileVars, adderVars
    <3>1. TypeOK' /\ HandlerOK'
      BY <2>2, <3>0 DEF IInv, TypeOK, HandlerOK
    <3>2. AcceptedOK'
      BY <2>2, <3>0 DEF IInv, AcceptedOK, AcceptedIsDurable, Holds
    <3>3. /\ LogOK(mem)' /\ LogOK(disk)' /\ LogOK(durable)'
          /\ (adder # None => LogOK(adder.state))'
      BY <2>2, <3>0 DEF IInv, LogOK, EndOf, NoRepeat
    <3> QED BY <3>1, <3>2, <3>3 DEF IInv
  <2> QED BY <2>1, <2>2
<1> QED BY InitIInv, <1>1, PTL DEF Spec

---------------------------------------------------------------------------
\* Every variable keeps its type, in particular each state a node's state
THEOREM TypeCorrect == Spec => []TypeOK
<1>1. IInv => TypeOK
  BY DEF IInv
<1> QED BY <1>1, IInvInvariant, PTL

\* No event is counted twice within the window, in memory or in state.json,
\* whatever is sent again, crashes, fails to be saved or is overwritten
THEOREM EventsCountOnce == Spec => []CountedOnce
<1>1. IInv => CountedOnce
  <2> SUFFICES ASSUME IInv, NEW s \in {mem, disk, durable}
               PROVE  \A i, j \in DOMAIN s.log :
                        i < j /\ s.log[i] = s.log[j] => j - i > Window
    BY DEF CountedOnce
  <2>1. s \in State /\ NoRepeat(s.log)
    BY DEF IInv, TypeOK, LogOK
  <2>2. DOMAIN s.log = 1..Len(s.log)
    <3>1. s.log \in Seq(Event)
      BY <2>1 DEF State
    <3> QED BY <3>1
  <2> QED BY <2>1, <2>2 DEF NoRepeat
<1> QED BY <1>1, IInvInvariant, PTL

\* What was answered with ok, a duplicate included, is in state.json and survives
\* a power failure, unless a node's addition overwrote it, or the answer was that
\* to a duplicate and came from a file whose save had failed: then it is there
\* until a power failure undoes that save
THEOREM AcceptedIsKept == Spec => []AcceptedIsDurable
<1>1. IInv => AcceptedIsDurable
  BY DEF IInv, AcceptedOK
<1> QED BY <1>1, IInvInvariant, PTL

---------------------------------------------------------------------------
(* What the panel shows *)

\* What a state says of every node: a node without a state has no events, and
\* one that was not put back outdated is shown as its events say
NodesOK(s) ==
  \A n \in Node : IF s.nodes[n] = None THEN At(s.log, n, Kind) = {}
                  ELSE n \in s.outdated \/ Summary(s.nodes[n], s.log, n)

\* All four copies of the state agree with their logs
NInv ==
  /\ NodesOK(mem) /\ NodesOK(disk) /\ NodesOK(durable)
  /\ adder # None => NodesOK(adder.state)

\* The events a node's log has after one more
LEMMA AppendAt ==
  ASSUME NEW l \in Seq(Event), NEW e \in Event, NEW n \in Node, NEW kinds
  PROVE  /\ At(l, n, kinds) \subseteq 1..Len(l)
         /\ At(Append(l, e), n, kinds) =
              IF Report[e].node = n /\ Report[e].kind \in kinds
              THEN At(l, n, kinds) \cup {Len(l) + 1} ELSE At(l, n, kinds)
<1> DEFINE a == Append(l, e)
<1>1. /\ DOMAIN l = 1..Len(l) /\ DOMAIN a = 1..(Len(l) + 1) /\ Len(l) \in Nat
      /\ a[Len(l) + 1] = e /\ \A k \in 1..Len(l) : a[k] = l[k]
  OBVIOUS
<1>2. 1..(Len(l) + 1) = (1..Len(l)) \cup {Len(l) + 1}
  BY <1>1
<1> HIDE DEF a
<1>3. At(a, n, kinds) = {i \in 1..Len(l) : Report[a[i]].node = n /\ Report[a[i]].kind \in kinds}
        \cup {i \in {Len(l) + 1} : Report[a[i]].node = n /\ Report[a[i]].kind \in kinds}
  BY <1>1, <1>2 DEF At
<1>4. {i \in 1..Len(l) : Report[a[i]].node = n /\ Report[a[i]].kind \in kinds} = At(l, n, kinds)
  BY <1>1 DEF At
<1>5. At(l, n, kinds) \subseteq 1..Len(l)
  BY <1>1 DEF At
<1>6. At(a, n, kinds) =
        IF Report[e].node = n /\ Report[e].kind \in kinds
        THEN At(l, n, kinds) \cup {Len(l) + 1} ELSE At(l, n, kinds)
  BY <1>1, <1>3, <1>4
<1> QED BY <1>5, <1>6 DEF a

\* Among positions up to one, that one is the latest
LEMMA LatestAdded ==
  ASSUME NEW N \in Nat, NEW S \in SUBSET (1..N)
  PROVE  Latest(N + 1, S \cup {N + 1})
BY DEF Latest

\* The failures a node's log counts after one more event
LEMMA AppendUnmended ==
  ASSUME NEW l \in Seq(Event), NEW e \in Event, NEW n \in Node
  PROVE  /\ Cardinality(Unmended(l, n)) \in Nat
         /\ Cardinality(Unmended(Append(l, e), n)) =
              IF Report[e].node # n \/ Report[e].kind \notin {"failed"} \cup Successes
              THEN Cardinality(Unmended(l, n))
              ELSE IF Report[e].kind = "failed"
              THEN Cardinality(Unmended(l, n)) + 1 ELSE 0
<1> DEFINE a == Append(l, e)
           N == Len(l)
           U == Unmended(l, n)
<1>1. N \in Nat
  OBVIOUS
<1>2. /\ At(l, n, {"failed"}) \subseteq 1..N /\ At(l, n, Successes) \subseteq 1..N
      /\ At(a, n, {"failed"}) =
           IF Report[e].node = n /\ Report[e].kind \in {"failed"}
           THEN At(l, n, {"failed"}) \cup {N + 1} ELSE At(l, n, {"failed"})
      /\ At(a, n, Successes) =
           IF Report[e].node = n /\ Report[e].kind \in Successes
           THEN At(l, n, Successes) \cup {N + 1} ELSE At(l, n, Successes)
  <2>1. ASSUME NEW K
        PROVE  /\ At(l, n, K) \subseteq 1..N
               /\ At(a, n, K) = IF Report[e].node = n /\ Report[e].kind \in K
                                THEN At(l, n, K) \cup {N + 1} ELSE At(l, n, K)
    BY AppendAt
  <2> HIDE DEF a, N
  <2> QED BY <2>1
<1> HIDE DEF a, N
<1>3. U \subseteq 1..N
  BY <1>2 DEF Unmended
<1>4. IsFiniteSet(U) /\ Cardinality(U) \in Nat
  <2>1. IsFiniteSet(1..N)
    BY <1>1, FS_Interval
  <2>2. IsFiniteSet(U)
    BY <2>1, <1>3, FS_Subset
  <2> QED BY <2>2, FS_CardinalityType
<1>5. CASE Report[e].node # n \/ Report[e].kind \notin {"failed"} \cup Successes
  <2>1. Unmended(a, n) = U
    BY <1>2, <1>5 DEF Unmended
  <2> QED BY <1>4, <1>5, <2>1 DEF a
<1>6. CASE Report[e].node = n /\ Report[e].kind = "failed"
  <2>1. "failed" \notin Successes
    BY DEF Successes
  <2>2. At(a, n, Successes) = At(l, n, Successes)
    BY <1>2, <1>6, <2>1
  <2>3. \A j \in At(l, n, Successes) : j < N + 1
    BY <1>1, <1>2
  <2>4. Unmended(a, n) = U \cup {N + 1} /\ N + 1 \notin U
    BY <1>1, <1>2, <1>3, <1>6, <2>2, <2>3 DEF Unmended
  <2>5. Cardinality(U \cup {N + 1}) = Cardinality(U) + 1
    BY <1>4, <2>4, FS_AddElement
  <2> QED BY <1>4, <1>6, <2>1, <2>4, <2>5 DEF a
<1>7. CASE Report[e].node = n /\ Report[e].kind \in Successes
  <2>1. Report[e].kind # "failed"
    BY <1>7 DEF Successes
  <2>2. N + 1 \in At(a, n, Successes) /\ At(a, n, {"failed"}) \subseteq 1..N
    BY <1>2, <1>7, <2>1
  <2>3. Unmended(a, n) = {}
    BY <1>1, <2>2 DEF Unmended
  <2> QED BY <1>4, <1>7, <2>1, <2>3, FS_EmptySet DEF a
<1> QED BY <1>5, <1>6, <1>7

\* An event changes a node's state as it changes what its log says
LEMMA SummaryOfAppend ==
  ASSUME NEW l \in Seq(Event), NEW e \in Event, NEW n \in Node,
         NEW node \in NodeState, Summary(node, l, n)
  PROVE  Summary(IF Report[e].node = n THEN Updated(node, e) ELSE node, Append(l, e), n)
<1> DEFINE a == Append(l, e)
           N == Len(l)
           kind == Report[e].kind
           new == IF Report[e].node = n THEN Updated(node, e) ELSE node
<1>1. N \in Nat /\ a[N + 1] = e /\ \A k \in 1..N : a[k] = l[k]
  OBVIOUS
<1>2. \A K : /\ At(l, n, K) \subseteq 1..N
             /\ At(a, n, K) = IF Report[e].node = n /\ kind \in K
                              THEN At(l, n, K) \cup {N + 1} ELSE At(l, n, K)
  BY AppendAt
<1>3. /\ Cardinality(Unmended(l, n)) \in Nat
      /\ Cardinality(Unmended(a, n)) =
              IF Report[e].node # n \/ kind \notin {"failed"} \cup Successes
              THEN Cardinality(Unmended(l, n))
              ELSE IF kind = "failed"
              THEN Cardinality(Unmended(l, n)) + 1 ELSE 0
  BY AppendUnmended
<1>4. kind \in Kind
  <2> DEFINE R == [node : Node, kind : Kind]
  <2>1. Report \in Seq(R)
    BY MonitorAssumption
  <2> HIDE DEF R
  <2>2. Report[e] \in R
    BY <2>1 DEF Event
  <2> QED BY <2>2 DEF R
<1>n. /\ DOMAIN node = {"heartbeat", "status", "success", "failures"}
      /\ node = [heartbeat |-> node.heartbeat, status |-> node.status,
                 success |-> node.success, failures |-> node.failures]
  BY DEF NodeState
<1> HIDE DEF a, N
<1>o. \* what the latest event of some kinds says, before and after
  ASSUME NEW K
  PROVE  /\ Report[e].node # n \/ kind \notin K =>
              /\ At(a, n, K) = At(l, n, K)
              /\ \A i \in At(l, n, K) : a[i] = l[i]
         /\ Report[e].node = n /\ kind \in K =>
              /\ N + 1 \in At(a, n, K) /\ Latest(N + 1, At(a, n, K)) /\ a[N + 1] = e
  <2>1. At(l, n, K) \in SUBSET (1..N)
    BY <1>2
  <2>2. /\ \A i \in At(l, n, K) : a[i] = l[i]
        /\ Latest(N + 1, At(l, n, K) \cup {N + 1})
    BY <1>1, <2>1, LatestAdded
  <2> HIDE DEF kind
  <2> QED BY <1>1, <1>2, <2>2
<1>5. IF At(a, n, {"heartbeat"}) = {} THEN new.heartbeat = 0
      ELSE \E i \in At(a, n, {"heartbeat"}) :
             Latest(i, At(a, n, {"heartbeat"})) /\ new.heartbeat = a[i]
  <2>1. CASE Report[e].node # n \/ kind \notin {"heartbeat"}
    <3>1. new.heartbeat = node.heartbeat
      BY <1>n, <1>4, <2>1 DEF Updated, Kind
    <3>2. /\ At(a, n, {"heartbeat"}) = At(l, n, {"heartbeat"})
          /\ \A i \in At(l, n, {"heartbeat"}) : a[i] = l[i]
      BY <2>1, <1>o
    <3> HIDE DEF new, kind
    <3> QED BY <3>1, <3>2 DEF Summary
  <2>2. CASE Report[e].node = n /\ kind \in {"heartbeat"}
    <3>1. new.heartbeat = e
      BY <1>n, <2>2 DEF Updated
    <3> HIDE DEF new, kind
    <3> QED BY <2>2, <3>1, <1>o
  <2> QED BY <2>1, <2>2
<1>6. IF At(a, n, Kind \ {"heartbeat"}) = {} THEN new.status = ""
      ELSE \E i \in At(a, n, Kind \ {"heartbeat"}) :
             Latest(i, At(a, n, Kind \ {"heartbeat"})) /\ new.status = Report[a[i]].kind
  <2> DEFINE K == Kind \ {"heartbeat"}
  <2>1. CASE Report[e].node # n \/ kind \notin K
    <3>1. new.status = node.status
      BY <1>n, <1>4, <2>1 DEF Updated
    <3>2. At(a, n, K) = At(l, n, K) /\ \A i \in At(l, n, K) : a[i] = l[i]
      BY <2>1, <1>o
    <3> HIDE DEF new, kind
    <3> QED BY <3>1, <3>2 DEF Summary
  <2>2. CASE Report[e].node = n /\ kind \in K
    <3>1. new.status = kind
      BY <1>n, <2>2 DEF Updated, Kind
    <3>2. N + 1 \in At(a, n, K) /\ Latest(N + 1, At(a, n, K)) /\ a[N + 1] = e
      BY <2>2, <1>o
    <3> HIDE DEF new
    <3> QED BY <3>1, <3>2
  <2> QED BY <2>1, <2>2
<1>7. IF At(a, n, Successes) = {} THEN new.success = 0
      ELSE \E i \in At(a, n, Successes) :
             Latest(i, At(a, n, Successes)) /\ new.success = a[i]
  <2>1. CASE Report[e].node # n \/ kind \notin Successes
    <3>1. new.success = node.success
      BY <1>n, <1>4, <2>1 DEF Updated, Kind, Successes
    <3>2. At(a, n, Successes) = At(l, n, Successes) /\ \A i \in At(l, n, Successes) : a[i] = l[i]
      BY <2>1, <1>o
    <3> HIDE DEF new, kind
    <3> QED BY <3>1, <3>2 DEF Summary
  <2>2. CASE Report[e].node = n /\ kind \in Successes
    <3>1. new.success = e
      BY <1>n, <2>2 DEF Updated, Successes
    <3> HIDE DEF new, kind
    <3> QED BY <2>2, <3>1, <1>o
  <2> QED BY <2>1, <2>2
<1>8. new.failures = Cardinality(Unmended(a, n))
  <2>0. node.failures = Cardinality(Unmended(l, n)) /\ node.failures \in Nat
    BY <1>3 DEF Summary
  <2>1. CASE Report[e].node # n \/ kind \notin {"failed"} \cup Successes
    <3>1. new.failures = node.failures
      BY <1>n, <1>4, <2>1 DEF Updated, Kind, Successes
    <3> QED BY <1>3, <2>0, <2>1, <3>1
  <2>2. CASE Report[e].node = n /\ kind = "failed"
    <3>1. new.failures = node.failures + 1
      BY <1>n, <2>2 DEF Updated
    <3> QED BY <1>3, <2>0, <2>2, <3>1
  <2>3. CASE Report[e].node = n /\ kind \in Successes
    <3>1. new.failures = 0 /\ kind # "failed"
      BY <1>n, <2>3 DEF Updated, Successes
    <3> QED BY <1>3, <2>3, <3>1
  <2> QED BY <2>1, <2>2, <2>3
<1> HIDE DEF new
<1>9. Summary(new, a, n)
  BY <1>5, <1>6, <1>7, <1>8 DEF Summary
<1> QED BY <1>9 DEF a, new
\* None is no state of a node
LEMMA NoneIsNoState == None \notin NodeState
BY NoneAssumption

\* Recording an event keeps what all nodes show
LEMMA RecordedNodes ==
  ASSUME NEW s \in State, NEW e \in Event, s.nodes[Report[e].node] \in NodeState,
         NodesOK(s)
  PROVE  NodesOK(Recorded(s, e))
<1> DEFINE m == Report[e].node
           new == Recorded(s, e)
<1>1. /\ s.nodes \in [Node -> NodeState \cup {None}] /\ s.log \in Seq(Event)
      /\ m \in Node /\ Updated(s.nodes[m], e) \in NodeState /\ None \notin NodeState
  <2>1. None \notin NodeState
    BY NoneIsNoState
  <2> QED BY <2>1, UpdatedType DEF State
<1>2. /\ new.nodes = [s.nodes EXCEPT ![m] = Updated(@, e)]
      /\ new.log = Append(s.log, e) /\ new.outdated = s.outdated
  BY DEF Recorded
<1> HIDE DEF new
<1>3. ASSUME NEW n \in Node
      PROVE  IF new.nodes[n] = None THEN At(new.log, n, Kind) = {}
             ELSE n \in new.outdated \/ Summary(new.nodes[n], new.log, n)
  <2>1. CASE s.nodes[n] = None
    <3>1. n # m
      BY <1>1, <2>1
    <3>2. new.nodes[n] = None /\ At(s.log, n, Kind) = {}
      BY <1>1, <1>2, <2>1, <3>1 DEF NodesOK
    <3>3. At(Append(s.log, e), n, Kind) = At(s.log, n, Kind)
      BY <1>1, <3>1, AppendAt
    <3> QED BY <1>2, <3>2, <3>3
  <2>2. CASE s.nodes[n] # None
    <3>1. s.nodes[n] \in NodeState /\ (n \in s.outdated \/ Summary(s.nodes[n], s.log, n))
      BY <1>1, <2>2 DEF NodesOK
    <3>2. new.nodes[n] = IF m = n THEN Updated(s.nodes[n], e) ELSE s.nodes[n]
      BY <1>1, <1>2
    <3>3. n \in s.outdated \/ Summary(new.nodes[n], Append(s.log, e), n)
      BY <1>1, <3>1, <3>2, SummaryOfAppend
    <3>4. new.nodes[n] # None
      BY <1>1, <3>1, <3>2
    <3> QED BY <1>2, <3>3, <3>4
  <2> QED BY <2>1, <2>2
<1> QED BY <1>3 DEF NodesOK, new

\* The empty state knows no node and has no event
LEMMA EmptyNodes == NodesOK(Empty)
<1>1. /\ Empty.log = <<>> /\ \A n \in Node : Empty.nodes[n] = None
  BY DEF Empty
<1> QED BY <1>1 DEF NodesOK, At

\* A node that is new has no events to be told of
LEMMA AddedNodes ==
  ASSUME NEW s \in State, NEW n \in Node, NodesOK(s)
  PROVE  NodesOK([s EXCEPT !.nodes[n] = IF @ = None THEN Fresh ELSE @])
<1> DEFINE nodes == [s.nodes EXCEPT ![n] = IF @ = None THEN Fresh ELSE @]
           new == [s EXCEPT !.nodes[n] = IF @ = None THEN Fresh ELSE @]
<1>1. s.nodes \in [Node -> NodeState \cup {None}] /\ s.log \in Seq(Event)
  BY DEF State
<1>2. new.nodes = nodes /\ new.log = s.log /\ new.outdated = s.outdated
  BY DEF State
<1>3. ASSUME At(s.log, n, Kind) = {}
      PROVE  Fresh # None => Summary(Fresh, s.log, n)
  <2>1. \A K \in SUBSET Kind : At(s.log, n, K) = {}
    BY <1>3 DEF At
  <2>2. {"failed"} \subseteq Kind /\ Successes \subseteq Kind /\ {"heartbeat"} \subseteq Kind
    BY DEF Kind, Successes
  <2>3. /\ At(s.log, n, {"heartbeat"}) = {} /\ At(s.log, n, Kind \ {"heartbeat"}) = {}
        /\ At(s.log, n, Successes) = {} /\ At(s.log, n, {"failed"}) = {}
    BY <2>1, <2>2
  <2>4. Unmended(s.log, n) = {}
    BY <2>3 DEF Unmended
  <2>5. Cardinality(Unmended(s.log, n)) = 0
    BY <2>4, FS_EmptySet
  <2> QED BY <2>3, <2>5 DEF Summary, Fresh
<1>4. ASSUME NEW k \in Node
      PROVE  IF nodes[k] = None THEN At(s.log, k, Kind) = {}
             ELSE k \in s.outdated \/ Summary(nodes[k], s.log, k)
  <2>1. IF s.nodes[k] = None THEN At(s.log, k, Kind) = {}
        ELSE k \in s.outdated \/ Summary(s.nodes[k], s.log, k)
    BY DEF NodesOK
  <2>2. nodes[k] = IF k = n /\ s.nodes[k] = None THEN Fresh ELSE s.nodes[k]
    BY <1>1
  <2> HIDE DEF nodes
  <2> QED BY <1>3, <2>1, <2>2
<1> HIDE DEF nodes, new
<1>5. NodesOK(new)
  BY <1>2, <1>4 DEF NodesOK
<1> QED BY <1>5 DEF new

\* Putting a node back outdates it, unless nothing changed in between
LEMMA RolledBackNodes ==
  ASSUME IInv, NEW h \in Handler, pc[h] = "looked", NodesOK(mem)
  PROVE  NodesOK(RolledBack(h))
<1> DEFINE m == Report[request[h].event].node
           old == RolledBack(h)
<1>1. /\ mem \in State /\ view[h] \in NodeState /\ m \in Node
      /\ mem.nodes[m] \in NodeState /\ None \notin NodeState
  <2>1. None \notin NodeState
    BY NoneIsNoState
  <2> QED BY <2>1, RequestType DEF IInv, TypeOK, HandlerOK
<1>2. /\ old.nodes = [mem.nodes EXCEPT ![m] = view[h]] /\ old.log = mem.log
      /\ old.outdated = IF view[h] = mem.nodes[m] THEN mem.outdated
                        ELSE mem.outdated \cup {m}
  BY <1>1 DEF RolledBack, State
<1>3. mem.nodes \in [Node -> NodeState \cup {None}]
  BY <1>1 DEF State
<1> HIDE DEF m, old
<1>4. ASSUME NEW n \in Node
      PROVE  IF old.nodes[n] = None THEN At(old.log, n, Kind) = {}
             ELSE n \in old.outdated \/ Summary(old.nodes[n], old.log, n)
  <2>1. IF mem.nodes[n] = None THEN At(mem.log, n, Kind) = {}
        ELSE n \in mem.outdated \/ Summary(mem.nodes[n], mem.log, n)
    BY DEF NodesOK
  <2> QED BY <1>1, <1>2, <1>3, <2>1
<1> QED BY <1>4 DEF NodesOK, old

\* Every step keeps what the nodes show
LEMMA NodesStay ==
  ASSUME IInv, NInv, Next
  PROVE  NInv'
<1> DEFINE Good == /\ NodesOK(mem') /\ NodesOK(disk') /\ NodesOK(durable')
                   /\ adder' # None => NodesOK(adder'.state)
<1> SUFFICES Good
  BY DEF NInv, NodesOK
<1> USE DEF IInv
<1>0. /\ NodesOK(mem) /\ NodesOK(disk) /\ NodesOK(durable)
      /\ adder # None => NodesOK(adder.state)
  BY DEF NInv
<1>1. ASSUME NEW h \in Handler, Record(h) PROVE Good
  <2> DEFINE e == request[h].event
             new == Recorded(mem, e)
  <2>1. /\ e \in Event /\ mem \in State /\ mem.nodes[Report[e].node] \in NodeState
        /\ pc[h] = "looked"
    BY <1>1, RequestType DEF Record, HandlerOK, TypeOK
  <2>2. /\ adder' = adder
        /\ \/ disk' = new /\ durable' = new /\ mem' = new
           \/ durable' = durable /\ disk' \in {disk, new} /\ mem' = RolledBack(h)
    BY <1>1 DEF Record, Saved, SaveFails, adderVars
  <2>3. NodesOK(new) /\ NodesOK(RolledBack(h))
    BY <1>0, <2>1, RecordedNodes, RolledBackNodes
  <2> HIDE DEF new, e
  <2> QED BY <1>0, <2>2, <2>3
<1>2. CASE Crash \/ PowerFailure
  <2>1. /\ mem' = Empty /\ disk' \in {disk, durable} /\ durable' \in {disk', durable}
        /\ adder' \in {adder, None}
    BY <1>2 DEF Crash, PowerFailure, ServerStops, answerVars, fileVars, adderVars
  <2> QED BY <1>0, <2>1, EmptyNodes
<1>3. CASE Start
  <2>1. mem' = disk /\ UNCHANGED <<disk, durable, adder>>
    BY <1>3 DEF Start, answerVars, fileVars, adderVars
  <2> QED BY <1>0, <2>1
<1>4. ASSUME NEW n \in Node, LoadToAdd(n) PROVE Good
  <2>1. adder'.state = disk /\ UNCHANGED <<mem, disk, durable>>
    BY <1>4 DEF LoadToAdd, answerVars, serverVars, fileVars
  <2> QED BY <1>0, <2>1
<1>5. CASE AddNode
  <2> DEFINE new == [adder.state EXCEPT !.nodes[adder.node] = IF @ = None THEN Fresh ELSE @]
  <2>1. adder # None /\ adder.state \in State /\ adder.node \in Node
    BY <1>5 DEF AddNode, TypeOK
  <2>2. /\ {disk', durable'} \subseteq {disk, durable, new} /\ adder' = None
        /\ UNCHANGED mem
    BY <1>5 DEF AddNode, Saved, SaveFails, answerVars, serverVars
  <2>3. NodesOK(new)
    BY <1>0, <2>1, <2>2, AddedNodes
  <2> HIDE DEF new
  <2> QED BY <1>0, <2>2, <2>3
<1>6. ASSUME \/ \E h \in Handler, x \in Request : Look(h, x)
             \/ \E h \in Handler : RefuseReplay(h) \/ AnswerDuplicate(h)
             \/ \E x \in nonces : ExpireNonce(x)
      PROVE  Good
  <2>1. UNCHANGED <<mem, disk, durable, adder>>
    BY <1>6 DEF Look, RefuseReplay, AnswerDuplicate, ExpireNonce, answerVars, fileVars, adderVars
  <2> QED BY <1>0, <2>1
<1> QED BY <1>1, <1>2, <1>3, <1>4, <1>5, <1>6 DEF Next

\* What the panel shows of a node is what the events recorded say of it, for
\* every mixture of events, nodes, crashes, failed saves and additions of nodes,
\* unless a failed save put that node back outdated
THEOREM NodesAreShownRight == Spec => []NodeMatchesLog
<1>1. Init => NInv
  BY EmptyNodes DEF Init, NInv
<1>2. IInv /\ NInv /\ [Next]_vars => NInv'
  <2>1. ASSUME NInv, UNCHANGED vars PROVE NInv'
    BY <2>1 DEF vars, answerVars, serverVars, fileVars, adderVars, NInv, NodesOK
  <2> QED BY <2>1, NodesStay
<1>3. NInv => NodeMatchesLog
  BY DEF NInv, NodesOK, NodeMatchesLog
<1> QED BY <1>1, <1>2, <1>3, IInvInvariant, PTL DEF Spec
=============================================================================
