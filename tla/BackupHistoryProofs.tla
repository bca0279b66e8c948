------------------------ MODULE BackupHistoryProofs ------------------------
(***************************************************************************)
(* Theorems of BackupRun on what a run leaves behind, for every set of     *)
(* processes and jobs and every number of runs: its row, its log, its      *)
(* notice and its staging directory.                                       *)
(***************************************************************************)
EXTENDS BackupRunProofs

Fresh(l)      == l \in {"idle", "locking", "slotting", "beginning"}
Unfinished(l) == l \in {"announcing", "preflight", "saving", "working", "failing"}
Staging(l)    == l \in {"saving", "working", "failing", "notifying", "cleaning"}

\* A row or run names a snapshot as its outcome requires
Sound(r) ==
  r.status # "running" =>
    IF r.status = "failed" THEN r.snap => r.code = "STATE_SAVE_FAILED" ELSE r.snap

\* What a run is at each location
Coherent(l, r) ==
  /\ Fresh(l) => r.id = 0
  /\ Fresh(l) \/ l \in {"announcing", "preflight"} =>
       r.phase = "preflight" /\ r.status = "running" /\ ~r.snap
  /\ l \in {"saving", "working"} =>
       /\ r.phase # "preflight" /\ (r.snap <=> r.phase \notin {"preparing_sources", "backing_up"})
       /\ IF r.phase = "completed" THEN r.status \in {"success", "warning"}
                                   ELSE r.status = "running"
  /\ l = "working" => r.phase # "completed"
  /\ l = "failing" => r.status = "failed"
  /\ l \in {"failing", "notifying"} => r.status # "running" /\ Sound(r)

\* Run identifiers are given out once
IdsOK ==
  /\ \A p \in Process : run[p].id <= lastId
  /\ \A p, q \in Process : p # q /\ run[p].id # 0 => run[p].id # run[q].id
  /\ \A id \in RunId : id > lastId => runs[id] = None /\ notice[id] = None

\* The row and the notice of the run p executes
RowFits(p) ==
  LET id == run[p].id
  IN /\ HasRow(p) /\ runs[id] # None => runs[id].job = run[p].job
     /\ Unfinished(pc[p]) => ~Ended(id) /\ notice[id] = None
     /\ pc[p] = "notifying" => runs[id] \in {None, RowOf(run[p])} /\ notice[id] = None

Told(id) ==
  notice[id] # None /\ runs[id] # None =>
    CASE notice[id] = "failure" -> runs[id].status = "failed"
      [] notice[id] = "warning" -> runs[id].status = "warning"
      [] OTHER -> runs[id].status = "success"

\* A purge removes logs of rows it has deleted
PurgeOK ==
  purge # None =>
    /\ purge.step = "delete" => purge.ids \subseteq RowsOf(purge.job)
    /\ purge.step = "logs" => purge.ids \subseteq deleted

Logged == \A id \in RunId : id <= lastId => id \in logs \cup deleted

HInv ==
  /\ IdsOK
  /\ \A p \in Process : Coherent(pc[p], run[p]) /\ RowFits(p)
  /\ \A id \in RunId : (runs[id] # None => Sound(runs[id])) /\ Told(id)
  /\ PurgeOK /\ Logged /\ StageOwned

---------------------------------------------------------------------------
(* A step of one process *)

\* What a step of p may do to its own run and may not do to any other
Steps(p) ==
  /\ \A q \in Process : q # p => pc'[q] = pc[q] /\ run'[q] = run[q]
  /\ Coherent(pc[p], run[p])' /\ RowFits(p)'
  /\ \/ run'[p].id \in {0, run[p].id} /\ lastId' = lastId
     \/ run'[p].id = lastId + 1 /\ lastId' = lastId + 1 /\ lastId' \in logs'
  /\ \A id \in RunId : id # run'[p].id => runs'[id] = runs[id] /\ notice'[id] = notice[id]
  /\ \A id \in RunId : id = run'[p].id =>
       /\ runs'[id] # None => Sound(runs'[id])
       /\ Told(id)'
       /\ runs[id] # None => /\ runs'[id] # None /\ runs'[id].job = runs[id].job
                             /\ runs[id].status # "running" => runs'[id] = runs[id]
  /\ \A id \in staged' \ crashed' : \/ id \in staged \ crashed /\ id # run[p].id
                                    \/ id = run'[p].id /\ Staging(pc'[p])
  /\ logs \subseteq logs' /\ UNCHANGED <<deleted, purge>>

\* No ended row was changed in the step
EndedKept == \A id \in RunId : Ended(id) => runs'[id] \in {runs[id], None}

\* A step of one process within Steps keeps the invariant and every ended row
LEMMA StepKeepsHistory ==
  ASSUME TypeOK, TypeOK', LocalOK, HInv, NEW p \in Process, Steps(p)
  PROVE  HInv' /\ EndedKept
<1>1. \A q \in Process : run[q].id \in 0..MaxRuns /\ run'[q].id \in 0..MaxRuns
  BY DEF TypeOK, LocalRun
<1>2. lastId \in Nat /\ MaxRuns \in Nat
  BY BackupRunAssumption DEF TypeOK
<1>3. \A q \in Process : q # p => pc'[q] = pc[q] /\ run'[q] = run[q]
  BY DEF Steps
<1>4. \A id \in RunId : id # run'[p].id => runs'[id] = runs[id] /\ notice'[id] = notice[id]
  BY DEF Steps
<1>5. \/ run'[p].id \in {0, run[p].id} /\ lastId' = lastId
      \/ run'[p].id = lastId + 1 /\ lastId' = lastId + 1 /\ lastId' \in logs'
  BY DEF Steps
<1>6. /\ \A q \in Process : run[q].id <= lastId
      /\ \A q, r \in Process : q # r /\ run[q].id # 0 => run[q].id # run[r].id
      /\ \A id \in RunId : id > lastId => runs[id] = None /\ notice[id] = None
  BY DEF HInv, IdsOK
<1>7. \A q \in Process : q # p /\ run'[q].id # 0 => run'[q].id # run'[p].id
  BY <1>1, <1>2, <1>3, <1>5, <1>6
<1>8. IdsOK'
  <2>1. \A q \in Process : run'[q].id <= lastId'
    BY <1>1, <1>2, <1>3, <1>5, <1>6
  <2>2. ASSUME NEW q \in Process, NEW r \in Process, q # r, run'[q].id # 0
        PROVE  run'[q].id # run'[r].id
    BY <1>1, <1>3, <1>6, <1>7, <2>2
  <2>3. ASSUME NEW id \in RunId, id > lastId' PROVE runs'[id] = None /\ notice'[id] = None
    <3>1. id > lastId /\ id # run'[p].id
      BY <1>1, <1>2, <1>5, <1>6, <2>3 DEF RunId
    <3> QED BY <1>4, <1>6, <3>1
  <2> QED BY <2>1, <2>2, <2>3 DEF IdsOK
<1>9. ASSUME NEW q \in Process PROVE (Coherent(pc[q], run[q]) /\ RowFits(q))'
  <2>1. CASE q = p
    BY <2>1 DEF Steps
  <2>2. CASE q # p
    <3>1. Coherent(pc[q], run[q]) /\ RowFits(q)
      BY DEF HInv
    <3>2. pc'[q] = pc[q] /\ run'[q] = run[q]
      BY <1>3, <2>2
    <3>3. HasRow(q) => run[q].id \in RunId /\ run[q].id # run'[p].id
      BY <1>7, <2>2, <3>2 DEF LocalOK, RunId
    <3>4. HasRow(q) => runs'[run[q].id] = runs[run[q].id]
                       /\ notice'[run[q].id] = notice[run[q].id]
      BY <1>4, <3>3
    <3>5. Unfinished(pc[q]) \/ pc[q] = "notifying" => HasRow(q)
      BY DEF Unfinished, HasRow
    <3> QED BY <3>1, <3>2, <3>4, <3>5 DEF Coherent, RowFits, HasRow, Ended, RowOf
  <2> QED BY <2>1, <2>2
<1>10. ASSUME NEW id \in RunId PROVE (runs'[id] # None => Sound(runs'[id])) /\ Told(id)'
  <2>1. CASE id = run'[p].id
    BY <2>1 DEF Steps
  <2>2. CASE id # run'[p].id
    BY <1>4, <2>2 DEF HInv, Told
  <2> QED BY <2>1, <2>2
<1>11. \A id \in RunId : runs[id] # None =>
         /\ runs'[id] # None /\ runs'[id].job = runs[id].job
         /\ runs[id].status # "running" => runs'[id] = runs[id]
  BY <1>4 DEF Steps
<1>12. PurgeOK'
  <2>1. RowsOf(purge.job) \subseteq RowsOf(purge.job)'
    BY <1>11 DEF RowsOf, Steps
  <2> QED BY <2>1 DEF HInv, PurgeOK, Steps
<1>13. Logged'
  <2>1. \A id \in RunId : id <= lastId' => id <= lastId \/ (id = lastId' /\ lastId' \in logs')
    BY <1>2, <1>5 DEF RunId
  <2> QED BY <2>1 DEF HInv, Logged, Steps
<1>14. StageOwned'
  <2> SUFFICES ASSUME NEW id \in staged' \ crashed'
               PROVE  \E q \in Process : run'[q].id = id /\ Staging(pc'[q])
    BY DEF StageOwned, Staging
  <2>1. CASE id = run'[p].id /\ Staging(pc'[p])
    BY <2>1
  <2>2. CASE id \in staged \ crashed /\ id # run[p].id
    <3>1. PICK q \in Process : run[q].id = id /\ Staging(pc[q])
      BY <2>2 DEF HInv, StageOwned, Staging
    <3> QED BY <1>3, <2>2, <3>1
  <2> QED BY <2>1, <2>2 DEF Steps
<1>15. EndedKept
  BY <1>11 DEF EndedKept, Ended
<1> QED BY <1>8, <1>9, <1>10, <1>12, <1>13, <1>14, <1>15 DEF HInv

\* Every run but the one p executes stays out of reach of p
LEMMA OwnRun ==
  ASSUME TypeOK, HInv, NEW p \in Process, NEW id \in staged \ crashed, ~Staging(pc[p])
  PROVE  id # run[p].id
<1>1. PICK q \in Process : run[q].id = id /\ Staging(pc[q])
  BY DEF HInv, StageOwned, Staging
<1>2. q # p /\ run[q].id # 0
  BY <1>1 DEF TypeOK, RunId
<1> QED BY <1>1, <1>2 DEF HInv, IdsOK

\* A step that writes neither the table nor a notice
LEMMA SilentStep ==
  ASSUME TypeOK, LocalOK, HInv, NEW p \in Process, NEW l \in Location, NEW r \in LocalRun,
         Goto(p, l, r),
         r.id = run[p].id \/ (r.id = 0 /\ l = "idle"), Coherent(l, r),
         l \in {"announcing", "preflight", "saving", "working", "failing", "cleaning"} =>
           HasRow(p) /\ r.id = run[p].id /\ r.job = run[p].job,
         Unfinished(l) => Unfinished(pc[p]), l # "notifying",
         UNCHANGED <<runs, lastId, logs, notice, deleted, purge>>,
         staged' \subseteq staged, crashed \subseteq crashed',
         Staging(l) \/ ~Staging(pc[p]) \/ run[p].id \notin staged' \ crashed'
  PROVE  Steps(p)
<1>1. /\ pc'[p] = l /\ run'[p] = r
      /\ \A q \in Process : q # p => pc'[q] = pc[q] /\ run'[q] = run[q]
  BY GotoMoves
<1>2. Coherent(pc[p], run[p])'
  BY <1>1 DEF Coherent, Fresh, Sound
<1>3. RowFits(p)'
  BY <1>1 DEF HInv, RowFits, HasRow, Unfinished, Ended
<1>4. run'[p].id \in {0, run[p].id}
  BY <1>1
<1>5. \A id \in RunId : runs'[id] = runs[id] /\ notice'[id] = notice[id]
  OBVIOUS
<1>6. \A id \in RunId : (runs'[id] # None => Sound(runs'[id])) /\ Told(id)'
  BY <1>5 DEF HInv, Told
<1>7. ASSUME NEW id \in staged' \ crashed'
      PROVE  \/ id \in staged \ crashed /\ id # run[p].id
             \/ id = run'[p].id /\ Staging(pc'[p])
  <2>1. id \in staged \ crashed
    OBVIOUS
  <2>2. CASE id # run[p].id
    BY <2>1, <2>2
  <2>3. CASE id = run[p].id
    <3>1. Staging(pc[p])
      BY <2>1, <2>3, OwnRun
    <3>2. Staging(l) /\ l # "idle"
      BY <2>3, <3>1 DEF Staging
    <3> QED BY <1>1, <2>3, <3>2
  <2> QED BY <2>2, <2>3
<1> QED BY <1>1, <1>2, <1>3, <1>4, <1>5, <1>6, <1>7 DEF Steps

\* A step in which p saves its row, which was not final
LEMMA SavingStep ==
  ASSUME TypeOK, LocalOK, HInv, NEW p \in Process, NEW l \in {"working", "notifying"},
         Goto(p, l, run[p]), SaveRun(run[p]), Unfinished(pc[p]),
         Coherent(l, run[p]), l = "working" => run[p].status = "running",
         UNCHANGED <<lastId, logs, notice, deleted, purge, staged, crashed>>,
         Staging(pc[p])
  PROVE  Steps(p)
<1> DEFINE id == run[p].id
<1>1. /\ pc'[p] = l /\ run'[p] = run[p]
      /\ \A q \in Process : q # p => pc'[q] = pc[q] /\ run'[q] = run[q]
  <2>1. l \in Location /\ run[p] \in LocalRun
    BY DEF Location, TypeOK
  <2> QED BY <2>1, GotoMoves
<1>2. HasRow(p) /\ id \in RunId
  BY DEF Unfinished, HasRow, LocalOK
<1>3. /\ runs'[id] = RowOf(run[p]) /\ RowOf(run[p]) \in Row
      /\ \A k \in RunId : k # id => runs'[k] = runs[k]
  <2>1. run[p] \in LocalRun /\ run[p].job \in Job
    BY <1>2 DEF TypeOK, LocalOK, HasRow
  <2>2. RowOf(run[p]) \in Row
    BY <2>1 DEF RowOf, Row, LocalRun
  <2> QED BY <1>2, <2>2 DEF SaveRun, TypeOK
<1>4. /\ RowOf(run[p]).job = run[p].job /\ RowOf(run[p]).status = run[p].status
      /\ RowOf(run[p]).snap = run[p].snap /\ RowOf(run[p]).code = run[p].code
  BY DEF RowOf
<1>5. runs[id] # None => runs[id].job = run[p].job
  BY <1>2 DEF HInv, RowFits
<1>6. ~Ended(id) /\ notice[id] = None
  BY <1>2 DEF HInv, RowFits
<1>7. Sound(RowOf(run[p]))
  BY <1>4 DEF Sound, Coherent
<1>8. runs'[id] # None
  BY <1>3, NoneIsNoRow
<1>9. Coherent(pc[p], run[p])'
  BY <1>1 DEF Coherent, Fresh, Sound
<1>10. RowFits(p)'
  BY <1>1, <1>3, <1>4, <1>6 DEF RowFits, HasRow, Unfinished, Ended, RowOf
<1>11. Told(id)'
  BY <1>1, <1>6 DEF Told
<1>12. \A k \in staged' \ crashed' : \/ k \in staged \ crashed /\ k # run[p].id
                                     \/ k = run'[p].id /\ Staging(pc'[p])
  BY <1>1 DEF Staging
<1>13. \A k \in RunId : k # id => runs'[k] = runs[k] /\ notice'[k] = notice[k]
  BY <1>3
<1>14. runs[id] # None => runs[id].status = "running"
  BY <1>6 DEF Ended
<1> QED
  BY <1>1, <1>3, <1>4, <1>5, <1>7, <1>8, <1>9, <1>10, <1>11, <1>12, <1>13, <1>14 DEF Steps

---------------------------------------------------------------------------
(* The actions *)

\* A run that gets its next phase, and one that fails
LEMMA NextIsCoherent ==
  ASSUME NEW r \in LocalRun, r.status = "running", r.phase # "completed",
         r.snap <=> r.phase \notin {"preflight", "preparing_sources"}
  PROVE  Coherent("saving", Advanced(r))
<1> DEFINE next == NextPhase(r)
           status == IF next # "completed" THEN r.status
                     ELSE IF r.warned THEN "warning" ELSE "success"
<1>1. /\ next \in Phase /\ next # "preflight"
      /\ r.snap <=> next \notin {"preparing_sources", "backing_up"}
  BY DEF NextPhase, LocalRun, Phase
<1>2. /\ Advanced(r).phase = next /\ Advanced(r).status = status
      /\ Advanced(r).snap = r.snap
  BY DEF Advanced, LocalRun
<1>3. IF next = "completed" THEN status \in {"success", "warning"} ELSE status = "running"
  OBVIOUS
<1> HIDE DEF next, status
<1> QED BY <1>1, <1>2, <1>3 DEF Coherent, Fresh

\* What fail makes of a run, in every phase
LEMMA FailedIsCoherent ==
  ASSUME NEW r \in LocalRun, NEW code \in ErrorCode, r.snap => code = "STATE_SAVE_FAILED"
  PROVE  Coherent("failing", FailedRun(r, code))
BY DEF Coherent, Fresh, FailedRun, LocalRun, Sound

\* A process that turns to another request has no run
LEMMA IdleIsCoherent ==
  ASSUME NEW l, Fresh(l)
  PROVE  Coherent(l, NoRun) /\ \A j : Coherent(l, [NoRun EXCEPT !.job = j])
BY DEF Coherent, Fresh, NoRun

\* Admission and the deferred calls do not touch the table
LEMMA AdmissionKeepsHistory ==
  ASSUME IInv, HInv, NEW p \in Process,
         \/ \E j \in Job : Request(p, j)
         \/ AcquireJob(p) \/ AcquireSlot(p) \/ RemoveStage(p) \/ ReleaseSlot(p)
         \/ ReleaseJob(p) \/ Crash(p)
  PROVE  Steps(p)
<1> USE NoRunType DEF IInv
<1>r. /\ run[p] \in LocalRun /\ Coherent(pc[p], run[p])
      /\ NoRun \in LocalRun /\ NoRun.id = 0 /\ NoRun.slot = 0
  BY DEF HInv, TypeOK, NoRun
<1>l. {"idle", "locking", "slotting", "beginning", "releasing", "unlocking"} \subseteq Location
  BY DEF Location
<1>i. Coherent("idle", NoRun)
  BY IdleIsCoherent DEF Fresh
<1>1. CASE \E j \in Job : Request(p, j)
  <2> PICK j \in Job : Request(p, j)
    BY <1>1
  <2> DEFINE r == [NoRun EXCEPT !.job = j]
  <2>1. r \in LocalRun /\ r.id = 0
    <3>1. \A q \in LocalRun : [q EXCEPT !.job = j] \in LocalRun
                              /\ [q EXCEPT !.job = j].id = q.id
      BY DEF LocalRun
    <3> QED BY <1>r, <3>1
  <2>2. Coherent("locking", r)
    BY IdleIsCoherent DEF Fresh
  <2>3. run[p].id = 0 /\ pc[p] = "idle"
    BY <1>r DEF Request, Coherent, Fresh
  <2>4. Goto(p, "locking", r)
        /\ UNCHANGED <<runs, lastId, logs, staged, notice, crashed, deleted, purge>>
    BY DEF Request, history, adminVars
  <2> HIDE DEF r
  <2> QED
    BY <1>l, <2>1, <2>2, <2>3, <2>4, SilentStep DEF Unfinished, Staging
<1>2. CASE AcquireJob(p)
  <2>1. UNCHANGED <<runs, lastId, logs, staged, notice, crashed, deleted, purge>>
    BY <1>2 DEF AcquireJob, history, adminVars
  <2>2. Coherent("slotting", run[p])
    BY <1>2, <1>r DEF AcquireJob, Coherent, Fresh
  <2>3. CASE Goto(p, "slotting", run[p])
    BY <1>2, <1>l, <1>r, <2>1, <2>2, <2>3, SilentStep DEF AcquireJob, Unfinished, Staging
  <2>4. CASE Goto(p, "idle", NoRun)
    BY <1>2, <1>l, <1>r, <1>i, <2>1, <2>4, SilentStep DEF AcquireJob, Unfinished, Staging
  <2> QED BY <1>2, <2>3, <2>4 DEF AcquireJob
<1>3. CASE AcquireSlot(p)
  <2>1. UNCHANGED <<runs, lastId, logs, staged, notice, crashed, deleted, purge>>
    BY <1>3 DEF AcquireSlot, history, adminVars
  <2>2. pc[p] = "slotting"
    BY <1>3 DEF AcquireSlot
  <2>3. CASE Goto(p, "beginning", run[p])
    <3>1. Coherent("beginning", run[p])
      BY <2>2, <1>r DEF Coherent, Fresh
    <3> QED BY <1>l, <1>r, <2>1, <2>2, <2>3, <3>1, SilentStep DEF Unfinished, Staging
  <2>4. CASE Goto(p, "unlocking", run[p])
    <3>1. Coherent("unlocking", run[p])
      BY <2>2, <1>r DEF Coherent, Fresh
    <3> QED BY <1>l, <1>r, <2>1, <2>2, <2>4, <3>1, SilentStep DEF Unfinished, Staging
  <2>5. CASE /\ Goto(p, "slotting", [run[p] EXCEPT !.slot = run[p].slot + 1])
    <3> DEFINE r == [run[p] EXCEPT !.slot = run[p].slot + 1]
    <3>1. /\ r \in LocalRun /\ r.id = run[p].id /\ r.phase = run[p].phase
          /\ r.status = run[p].status /\ r.snap = run[p].snap
      BY <1>r DEF LocalRun
    <3>2. Coherent("slotting", r)
      BY <2>2, <1>r, <3>1 DEF Coherent, Fresh
    <3>3. Goto(p, "slotting", r)
      BY <2>5
    <3> HIDE DEF r
    <3> QED BY <1>l, <2>1, <2>2, <3>1, <3>2, <3>3, SilentStep DEF Unfinished, Staging
  <2> QED BY <1>3, <2>3, <2>4, <2>5 DEF AcquireSlot
<1>4. CASE RemoveStage(p)
  <2>1. UNCHANGED <<runs, lastId, logs, notice, crashed, deleted, purge>>
        /\ staged' = staged \ {run[p].id} /\ pc[p] = "cleaning"
        /\ Goto(p, "releasing", run[p])
    BY <1>4 DEF RemoveStage, history, adminVars
  <2>2. Coherent("releasing", run[p])
    BY DEF Coherent, Fresh
  <2> QED BY <1>l, <1>r, <2>1, <2>2, SilentStep DEF Unfinished
<1>5. CASE ReleaseSlot(p)
  <2>1. UNCHANGED <<runs, lastId, logs, staged, notice, crashed, deleted, purge>>
        /\ pc[p] = "releasing" /\ Goto(p, "unlocking", run[p])
    BY <1>5 DEF ReleaseSlot, history, adminVars
  <2>2. Coherent("unlocking", run[p])
    BY DEF Coherent, Fresh
  <2> QED BY <1>l, <1>r, <2>1, <2>2, SilentStep DEF Unfinished, Staging
<1>6. CASE ReleaseJob(p)
  <2>1. UNCHANGED <<runs, lastId, logs, staged, notice, crashed, deleted, purge>>
        /\ pc[p] = "unlocking" /\ Goto(p, "idle", NoRun)
    BY <1>6 DEF ReleaseJob, history, adminVars
  <2> QED BY <1>l, <1>r, <1>i, <2>1, SilentStep DEF Unfinished, Staging
<1>7. CASE Crash(p)
  <2>1. UNCHANGED <<runs, lastId, logs, staged, notice, deleted, purge>>
        /\ crashed \subseteq crashed' /\ Goto(p, "idle", NoRun)
        /\ (run[p].id # 0 => run[p].id \in crashed')
    BY <1>7 DEF Crash, adminVars
  <2>2. run[p].id \notin staged' \ crashed'
    BY <2>1 DEF TypeOK, RunId
  <2> QED BY <1>l, <1>r, <1>i, <2>1, <2>2, SilentStep DEF Unfinished
<1> QED BY <1>1, <1>2, <1>3, <1>4, <1>5, <1>6, <1>7

\* A run begins with a row of its own and a log
LEMMA BeginKeepsHistory ==
  ASSUME IInv, HInv, NEW p \in Process, Begin(p)
  PROVE  Steps(p)
<1> USE DEF IInv
<1>1. /\ pc[p] = "beginning" /\ run[p] \in LocalRun /\ Coherent(pc[p], run[p])
      /\ run[p].job \in Job
  BY DEF Begin, TypeOK, LocalOK, HInv
<1>2. UNCHANGED <<staged, notice, crashed, deleted, purge>>
  BY DEF Begin, history, adminVars
<1>3. CASE Goto(p, "releasing", run[p]) /\ UNCHANGED <<lastId, logs, runs>>
  <2>1. Coherent("releasing", run[p]) /\ "releasing" \in Location
    BY DEF Coherent, Fresh, Location
  <2> QED BY <1>1, <1>2, <1>3, <2>1, SilentStep DEF Unfinished, Staging
<1> DEFINE r == [run[p] EXCEPT !.id = lastId + 1]
<1>4. CASE /\ lastId < MaxRuns /\ lastId' = lastId + 1 /\ logs' = logs \cup {r.id}
           /\ SaveRun(r) /\ Goto(p, "announcing", r)
  <2>1. /\ lastId < MaxRuns /\ lastId' = lastId + 1 /\ logs' = logs \cup {r.id}
        /\ SaveRun(r) /\ Goto(p, "announcing", r)
    BY <1>4
  <2>2. /\ lastId + 1 \in RunId /\ lastId \in Nat /\ lastId + 1 \in 0..MaxRuns
    BY <2>1, BackupRunAssumption DEF TypeOK, RunId
  <2>3. /\ r \in LocalRun /\ r.id = lastId + 1 /\ r.job = run[p].job
        /\ r.phase = run[p].phase /\ r.status = run[p].status /\ r.snap = run[p].snap
    BY <1>1, <2>2 DEF LocalRun
  <2> HIDE DEF r
  <2>4. /\ pc'[p] = "announcing" /\ run'[p] = r
        /\ \A q \in Process : q # p => pc'[q] = pc[q] /\ run'[q] = run[q]
    BY <2>1, <2>3, GotoMoves DEF Location
  <2>5. r.phase = "preflight" /\ r.status = "running" /\ ~r.snap
    BY <1>1, <2>3 DEF Coherent, Fresh
  <2>6. Coherent("announcing", r)
    BY <2>5 DEF Coherent, Fresh
  <2>7. /\ runs'[lastId + 1] = RowOf(r) /\ RowOf(r) \in Row /\ RowOf(r).job = r.job
        /\ RowOf(r).status = "running"
        /\ \A id \in RunId : id # lastId + 1 => runs'[id] = runs[id]
    <3>1. RowOf(r) \in Row /\ RowOf(r).job = r.job /\ RowOf(r).status = r.status
      BY <1>1, <2>3 DEF RowOf, Row, LocalRun
    <3> QED BY <2>1, <2>2, <2>3, <2>5, <3>1 DEF SaveRun, TypeOK
  <2>8. runs[lastId + 1] = None /\ notice[lastId + 1] = None
    BY <2>2 DEF HInv, IdsOK
  <2>9. Coherent(pc[p], run[p])'
    BY <2>4, <2>6 DEF Coherent, Fresh, Sound
  <2>10. RowFits(p)'
    BY <1>2, <2>2, <2>3, <2>4, <2>7, <2>8 DEF RowFits, HasRow, Unfinished, Ended
  <2>11. Sound(runs'[lastId + 1])
    BY <2>7 DEF Sound
  <2>12. \A id \in RunId : id = lastId + 1 => Told(id)'
    BY <1>2, <2>8 DEF Told
  <2>13. lastId + 1 \in logs' /\ logs \subseteq logs'
    BY <2>1, <2>3
  <2>14. \A id \in staged' \ crashed' : id \in staged \ crashed /\ id # run[p].id
    BY <1>1, <1>2, OwnRun DEF Staging
  <2>15. run'[p].id = lastId + 1
    BY <2>3, <2>4
  <2>16. \A id \in RunId : id # run'[p].id => runs'[id] = runs[id] /\ notice'[id] = notice[id]
    BY <1>2, <2>7, <2>15
  <2>17. \A id \in RunId : id = run'[p].id =>
           /\ runs'[id] # None => Sound(runs'[id])
           /\ Told(id)'
           /\ runs[id] # None => /\ runs'[id] # None /\ runs'[id].job = runs[id].job
                                 /\ runs[id].status # "running" => runs'[id] = runs[id]
    BY <2>8, <2>11, <2>12, <2>15
  <2>18. \/ run'[p].id \in {0, run[p].id} /\ lastId' = lastId
         \/ run'[p].id = lastId + 1 /\ lastId' = lastId + 1 /\ lastId' \in logs'
    BY <2>1, <2>13, <2>15
  <2>19. \A q \in Process : q # p => pc'[q] = pc[q] /\ run'[q] = run[q]
    BY <2>4
  <2>20. logs \subseteq logs' /\ UNCHANGED <<deleted, purge>>
    BY <1>2, <2>13
  <2> QED BY <2>9, <2>10, <2>14, <2>16, <2>17, <2>18, <2>19, <2>20 DEF Steps
<1> QED BY <1>3, <1>4 DEF Begin

\* The phases of a run, before the row is final
LEMMA PhasesKeepHistory ==
  ASSUME IInv, HInv, NEW p \in Process,
         \/ Announce(p) \/ DumpDatabases(p) \/ BackUp(p) \/ Forget(p) \/ Verify(p)
         \/ Expire(p)
  PROVE  Steps(p)
<1> USE DEF IInv
<1>0. /\ run[p] \in LocalRun /\ Coherent(pc[p], run[p])
      /\ UNCHANGED <<runs, lastId, logs, staged, notice, crashed, deleted, purge>>
  BY DEF TypeOK, HInv, Announce, DumpDatabases, BackUp, Forget, Verify, Expire, history,
         adminVars
<1>l. {"preflight", "saving", "working", "failing"} \subseteq Location
  BY DEF Location
<1>w. ASSUME pc[p] = "working"
      PROVE  /\ HasRow(p) /\ Unfinished(pc[p]) /\ Staging(pc[p])
             /\ run[p].status = "running" /\ run[p].phase # "completed"
             /\ run[p].phase # "preflight"
             /\ run[p].snap <=> run[p].phase \notin {"preparing_sources", "backing_up"}
  BY <1>0, <1>w DEF HasRow, Unfinished, Staging, Coherent
\* Two ways on from a command: to the next phase, with what it found ...
<1>a. ASSUME NEW r \in LocalRun, pc[p] = "working", Goto(p, "saving", Advanced(r)),
             r.id = run[p].id, r.job = run[p].job, r.phase = run[p].phase,
             r.status = run[p].status, r.snap <=> r.phase # "preparing_sources"
      PROVE  Steps(p)
  <2>1. Coherent("saving", Advanced(r))
    BY <1>a, <1>w, NextIsCoherent
  <2>2. Advanced(r) \in LocalRun /\ Advanced(r).id = run[p].id /\ Advanced(r).job = run[p].job
    BY <1>a, RunChanges
  <2> DEFINE next == Advanced(r)
  <2>3. Goto(p, "saving", next)
    BY <1>a
  <2> HIDE DEF next
  <2> QED
    BY <1>0, <1>a, <1>l, <1>w, <2>1, <2>2, <2>3, SilentStep DEF Staging, next
\* ... and to failure
<1>f. ASSUME NEW code \in ErrorCode, pc[p] = "working", ~run[p].snap,
             Goto(p, "failing", FailedRun(run[p], code))
      PROVE  Steps(p)
  <2> DEFINE r == FailedRun(run[p], code)
  <2>1. r \in LocalRun /\ r.id = run[p].id /\ r.job = run[p].job
    BY <1>0, RunChanges
  <2>2. Coherent("failing", r)
    BY <1>0, <1>f, FailedIsCoherent
  <2>3. Goto(p, "failing", r)
    BY <1>f
  <2> HIDE DEF r
  <2> QED BY <1>0, <1>f, <1>l, <1>w, <2>1, <2>2, <2>3, SilentStep DEF Staging
\* What a command changes of the run
<1>e. /\ \A b \in BOOLEAN : LET r == [run[p] EXCEPT !.snap = b]
                            IN /\ r \in LocalRun /\ r.id = run[p].id /\ r.job = run[p].job
                               /\ r.phase = run[p].phase /\ r.status = run[p].status
                               /\ r.snap = b
      /\ LET r == [run[p] EXCEPT !.warned = TRUE]
         IN /\ r \in LocalRun /\ r.id = run[p].id /\ r.job = run[p].job
            /\ r.phase = run[p].phase /\ r.status = run[p].status /\ r.snap = run[p].snap
      /\ LET r == [run[p] EXCEPT !.expired = TRUE]
         IN /\ r \in LocalRun /\ r.id = run[p].id /\ r.job = run[p].job
            /\ r.phase = run[p].phase /\ r.status = run[p].status /\ r.snap = run[p].snap
            /\ r.code = run[p].code
  BY <1>0 DEF LocalRun
<1>1. CASE Announce(p)
  <2>1. pc[p] = "announcing" /\ Goto(p, "preflight", run[p])
    BY <1>1 DEF Announce
  <2>2. Coherent("preflight", run[p])
    BY <1>0, <2>1 DEF Coherent, Fresh
  <2> QED BY <1>0, <1>l, <2>1, <2>2, SilentStep DEF HasRow, Unfinished, Staging
<1>2. CASE DumpDatabases(p)
  <2>1. pc[p] = "working" /\ run[p].phase = "preparing_sources"
    BY <1>2 DEF DumpDatabases, Working
  <2>2. "NOT_PREPARED" \in ErrorCode
    BY DEF ErrorCode
  <2> QED BY <1>0, <1>2, <1>a, <1>f, <1>w, <2>1, <2>2 DEF DumpDatabases
<1>3. CASE BackUp(p)
  <2>1. pc[p] = "working" /\ run[p].phase = "backing_up"
    BY <1>3 DEF BackUp, Working
  <2> DEFINE r == [run[p] EXCEPT !.snap = TRUE]
  <2>2. CASE Goto(p, "saving", Advanced(r))
    <3>1. /\ r \in LocalRun /\ r.id = run[p].id /\ r.job = run[p].job
          /\ r.phase = run[p].phase /\ r.status = run[p].status /\ r.snap = TRUE
      BY <1>e
    <3> HIDE DEF r
    <3> QED BY <1>a, <2>1, <2>2, <3>1
  <2>3. CASE \E code \in ErrorCode : Goto(p, "failing", FailedRun(run[p], code))
    BY <1>f, <1>w, <2>1, <2>3
  <2>4. {"TASK_TIMEOUT", "RESTIC_FAILED"} \subseteq ErrorCode
    BY DEF ErrorCode
  <2> QED BY <1>3, <2>2, <2>3, <2>4 DEF BackUp
<1>4. CASE Forget(p) \/ Verify(p)
  <2>1. pc[p] = "working" /\ run[p].phase \in {"retention", "verifying_metadata"}
    BY <1>4 DEF Forget, Verify, Working
  <2>2. run[p].snap
    BY <1>w, <2>1
  <2>3. CASE Goto(p, "saving", Advanced(run[p]))
    BY <1>0, <1>a, <2>1, <2>2, <2>3
  <2> DEFINE r == [run[p] EXCEPT !.warned = TRUE]
  <2>4. CASE Goto(p, "saving", Advanced(r))
    <3>1. /\ r \in LocalRun /\ r.id = run[p].id /\ r.job = run[p].job
          /\ r.phase = run[p].phase /\ r.status = run[p].status /\ r.snap = run[p].snap
      BY <1>e
    <3> HIDE DEF r
    <3> QED BY <1>a, <2>1, <2>2, <2>4, <3>1
  <2> QED BY <1>4, <2>3, <2>4 DEF Forget, Verify
<1>5. CASE Expire(p)
  <2> DEFINE r == [run[p] EXCEPT !.expired = TRUE]
  <2>1. /\ pc[p] \in {"preflight", "saving", "working"} /\ Goto(p, pc[p], r)
    BY <1>5 DEF Expire
  <2>2. /\ r \in LocalRun /\ r.id = run[p].id /\ r.job = run[p].job
        /\ r.phase = run[p].phase /\ r.status = run[p].status /\ r.snap = run[p].snap
        /\ r.code = run[p].code
    BY <1>e
  <2> HIDE DEF r
  <2>3. Coherent(pc[p], r)
    BY <1>0, <2>1, <2>2 DEF Coherent, Fresh
  <2> DEFINE l == pc[p]
  <2>4. l \in {"preflight", "saving", "working"} /\ l = pc[p] /\ l \in Location
    BY <1>l, <2>1
  <2> HIDE DEF l
  <2> QED
    BY <1>0, <2>1, <2>2, <2>3, <2>4, SilentStep DEF HasRow, Unfinished, Staging
<1> QED BY <1>1, <1>2, <1>3, <1>4, <1>5

\* The staging directory is made, or the run fails without one
LEMMA PreflightKeepsHistory ==
  ASSUME IInv, HInv, NEW p \in Process, Preflight(p)
  PROVE  Steps(p)
<1> USE DEF IInv
<1>1. /\ pc[p] = "preflight" /\ run[p] \in LocalRun /\ Coherent(pc[p], run[p])
      /\ HasRow(p) /\ run[p].id \in RunId /\ RowFits(p)
      /\ UNCHANGED <<runs, lastId, logs, notice, crashed, deleted, purge>>
  BY DEF Preflight, TypeOK, LocalOK, HInv, HasRow, history, adminVars
<1>2. run[p].phase = "preflight" /\ run[p].status = "running" /\ ~run[p].snap
  BY <1>1 DEF Coherent
<1>3. CASE Goto(p, "failing", FailedRun(run[p], "NOT_PREPARED")) /\ UNCHANGED staged
  <2> DEFINE r == FailedRun(run[p], "NOT_PREPARED")
  <2>1. r \in LocalRun /\ r.id = run[p].id /\ r.job = run[p].job
    BY <1>1, RunChanges DEF ErrorCode
  <2>2. Coherent("failing", r) /\ "failing" \in Location
    BY <1>1, <1>2, FailedIsCoherent DEF ErrorCode, Location
  <2>3. Goto(p, "failing", r) /\ UNCHANGED staged
    BY <1>3
  <2> HIDE DEF r
  <2> QED BY <1>1, <2>1, <2>2, <2>3, SilentStep DEF Unfinished, Staging
<1>4. CASE staged' = staged \cup {run[p].id} /\ Goto(p, "saving", Advanced(run[p]))
  <2> DEFINE r == Advanced(run[p])
  <2>1. r \in LocalRun /\ r.id = run[p].id /\ r.job = run[p].job
    BY <1>1, RunChanges
  <2>2. Coherent("saving", r) /\ "saving" \in Location
    BY <1>1, <1>2, NextIsCoherent DEF Location
  <2>3. Goto(p, "saving", r)
    BY <1>4
  <2> HIDE DEF r
  <2>4. /\ pc'[p] = "saving" /\ run'[p] = r
        /\ \A q \in Process : q # p => pc'[q] = pc[q] /\ run'[q] = run[q]
    BY <2>1, <2>2, <2>3, GotoMoves
  <2>5. Coherent(pc[p], run[p])'
    BY <2>2, <2>4 DEF Coherent, Fresh, Sound
  <2>6. RowFits(p)'
    BY <1>1, <2>1, <2>4 DEF RowFits, HasRow, Unfinished, Ended
  <2>7. \A id \in RunId : /\ runs'[id] = runs[id] /\ notice'[id] = notice[id]
                          /\ runs'[id] # None => Sound(runs'[id])
                          /\ Told(id)'
    BY <1>1 DEF HInv, Told
  <2>8. ASSUME NEW id \in staged' \ crashed'
        PROVE  \/ id \in staged \ crashed /\ id # run[p].id
               \/ id = run'[p].id /\ Staging(pc'[p])
    BY <1>1, <1>4, <2>1, <2>4 DEF Staging
  <2> QED BY <1>1, <2>1, <2>4, <2>5, <2>6, <2>7, <2>8 DEF Steps
<1> QED BY <1>3, <1>4 DEF Preflight

\* The saves of the row
LEMMA SavesKeepHistory ==
  ASSUME IInv, HInv, NEW p \in Process, SavePhase(p) \/ SaveFailure(p)
  PROVE  Steps(p)
<1> USE DEF IInv
<1>1. /\ run[p] \in LocalRun /\ Coherent(pc[p], run[p])
      /\ UNCHANGED <<lastId, logs, staged, notice, crashed, deleted, purge>>
      /\ pc[p] \in {"saving", "failing"}
  BY DEF SavePhase, SaveFailure, TypeOK, HInv, history, adminVars
<1>2. HasRow(p) /\ Unfinished(pc[p]) /\ Staging(pc[p])
  BY <1>1 DEF HasRow, Unfinished, Staging
<1>3. CASE pc[p] = "saving" /\ SaveRun(run[p])
           /\ Goto(p, IF run[p].phase = "completed" THEN "notifying" ELSE "working", run[p])
  <2> DEFINE l == IF run[p].phase = "completed" THEN "notifying" ELSE "working"
  <2>1. /\ l \in {"working", "notifying"} /\ Coherent(l, run[p])
        /\ l = "working" => run[p].status = "running"
    BY <1>1, <1>3 DEF Coherent, Fresh, Sound
  <2>2. Goto(p, l, run[p])
    BY <1>3
  <2> HIDE DEF l
  <2> QED BY <1>1, <1>2, <1>3, <2>1, <2>2, SavingStep
<1>4. CASE /\ pc[p] = "saving" /\ UNCHANGED runs
           /\ Goto(p, "failing", FailedRun(run[p], "STATE_SAVE_FAILED"))
  <2> DEFINE r == FailedRun(run[p], "STATE_SAVE_FAILED")
  <2>1. r \in LocalRun /\ r.id = run[p].id /\ r.job = run[p].job
    BY <1>1, RunChanges DEF ErrorCode
  <2>2. Coherent("failing", r) /\ "failing" \in Location
    BY <1>1, FailedIsCoherent DEF ErrorCode, Location
  <2>3. Goto(p, "failing", r)
    BY <1>4
  <2> HIDE DEF r
  <2> QED BY <1>1, <1>2, <1>4, <2>1, <2>2, <2>3, SilentStep DEF Staging
<1>5. CASE pc[p] = "failing" /\ SaveRun(run[p]) /\ Goto(p, "notifying", run[p])
  <2>1. Coherent("notifying", run[p])
    BY <1>1, <1>5 DEF Coherent, Fresh
  <2> QED BY <1>1, <1>2, <1>5, <2>1, SavingStep
<1>6. CASE pc[p] = "failing" /\ UNCHANGED runs /\ Goto(p, "cleaning", run[p])
  <2>1. Coherent("cleaning", run[p]) /\ "cleaning" \in Location
    BY DEF Coherent, Fresh, Location
  <2> QED BY <1>1, <1>2, <1>6, <2>1, SilentStep DEF Staging, Unfinished
<1> QED BY <1>3, <1>4, <1>5, <1>6 DEF SavePhase, SaveFailure

\* The notice says what the row says, if the row is still there
LEMMA NotifyKeepsHistory ==
  ASSUME IInv, HInv, NEW p \in Process, Notify(p)
  PROVE  Steps(p)
<1> USE DEF IInv
<1> DEFINE id == run[p].id
<1>0. PICK read \in BOOLEAN : notice' = [notice EXCEPT ![id] = NoticeFor(run[p], read)]
  BY DEF Notify, Tell
<1>1. /\ pc[p] = "notifying" /\ run[p] \in LocalRun /\ Coherent(pc[p], run[p])
      /\ RowFits(p) /\ HasRow(p) /\ id \in RunId
      /\ Tell(run[p]) /\ notice \in [RunId -> Notice \cup {None}]
      /\ Goto(p, "cleaning", run[p])
      /\ UNCHANGED <<runs, lastId, logs, staged, crashed, deleted, purge>>
  BY DEF Notify, TypeOK, LocalOK, HInv, HasRow, adminVars
<1>2. /\ pc'[p] = "cleaning" /\ run'[p] = run[p]
      /\ \A q \in Process : q # p => pc'[q] = pc[q] /\ run'[q] = run[q]
  BY <1>1, GotoMoves DEF Location
<1>3. run[p].status \in {"success", "warning", "failed"}
  BY <1>1 DEF Coherent, LocalRun, Status
<1>4. /\ runs[id] # None => runs[id].status = run[p].status
      /\ notice'[id] = NoticeFor(run[p], read)
      /\ \A k \in RunId : k # id => notice'[k] = notice[k]
  BY <1>0, <1>1 DEF RowFits, RowOf, TypeOK
<1>5. /\ run[p].status = "warning" => NoticeFor(run[p], read) = "warning"
      /\ run[p].status = "failed" => NoticeFor(run[p], read) = "failure"
      /\ run[p].status = "success" => NoticeFor(run[p], read) \in {"recovery", "success"}
  BY DEF NoticeFor
<1>6. Told(id)'
  BY <1>1, <1>2, <1>3, <1>4, <1>5 DEF Told
<1>7. Coherent(pc[p], run[p])' /\ RowFits(p)'
  BY <1>1, <1>2 DEF Coherent, Fresh, RowFits, HasRow, Unfinished
<1>8. \A k \in RunId : runs'[k] # None => Sound(runs'[k])
  BY <1>1 DEF HInv
<1>9. \A k \in staged' \ crashed' : \/ k \in staged \ crashed /\ k # run[p].id
                                    \/ k = run'[p].id /\ Staging(pc'[p])
  BY <1>1, <1>2 DEF Staging
<1> QED BY <1>1, <1>2, <1>4, <1>6, <1>7, <1>8, <1>9 DEF Steps

---------------------------------------------------------------------------
(* The administrator, and commands that outlived their process *)

\* The removal of a job or of its history, retention by hand, and orphans
LEMMA AdminKeepsHistory ==
  ASSUME IInv, HInv,
         \/ \E o \in orphans : OrphanEnds(o)
         \/ \E j \in Job : RemoveJob(j) \/ ForgetByHand(j)
         \/ SelectRows \/ DeleteRows \/ DeleteLogs \/ UNCHANGED vars
  PROVE  HInv' /\ EndedKept
<1> USE DEF IInv
<1>1. UNCHANGED <<pc, run, lastId, notice, staged, crashed>>
  BY DEF OrphanEnds, RemoveJob, ForgetByHand, SelectRows, DeleteRows, DeleteLogs, vars,
         history, adminVars
<1>2. \A id \in RunId : runs'[id] \in {runs[id], None}
  BY DEF OrphanEnds, RemoveJob, ForgetByHand, SelectRows, DeleteRows, DeleteLogs, vars,
         TypeOK
<1>3. EndedKept
  BY <1>2 DEF EndedKept
<1>4. IdsOK'
  BY <1>1, <1>2 DEF HInv, IdsOK
<1>5. ASSUME NEW p \in Process PROVE (Coherent(pc[p], run[p]) /\ RowFits(p))'
  <2>1. Coherent(pc[p], run[p]) /\ RowFits(p)
    BY DEF HInv
  <2>2. HasRow(p) => run[p].id \in RunId
    BY DEF LocalOK
  <2>3. Coherent(pc[p], run[p])'
    BY <1>1, <2>1 DEF Coherent, Fresh, Sound
  <2>4. RowFits(p)'
    BY <1>1, <1>2, <2>1, <2>2 DEF RowFits, HasRow, Unfinished, Ended, RowOf
  <2> QED BY <2>3, <2>4
<1>6. \A id \in RunId : (runs'[id] # None => Sound(runs'[id])) /\ Told(id)'
  BY <1>1, <1>2 DEF HInv, Told
<1>7. StageOwned'
  BY <1>1 DEF HInv, StageOwned
<1>8. PurgeOK' /\ Logged'
  <2>0. PurgeOK /\ Logged
    BY DEF HInv
  <2>1. CASE SelectRows
    <3>1. purge' = None \/ purge' = [purge EXCEPT !.ids = RowsOf(purge.job), !.step = "delete"]
      BY <2>1 DEF SelectRows
    <3>2. purge \in [job : Job, ids : SUBSET RunId, step : {"select", "delete", "logs"}]
          /\ UNCHANGED <<runs, logs, deleted, lastId>>
      BY <2>1 DEF SelectRows, TypeOK, history
    <3> DEFINE rows == RowsOf(purge.job)
               after == [purge EXCEPT !.ids = rows, !.step = "delete"]
    <3>3. after.ids = rows /\ after.step = "delete" /\ after.job = purge.job
      BY <3>2
    <3>4. \A j : RowsOf(j)' = RowsOf(j)
      BY <3>2 DEF RowsOf
    <3>5. PurgeOK'
      <4>1. CASE purge' = None
        BY <4>1 DEF PurgeOK
      <4>2. CASE purge' = after
        <5>1. purge'.ids = RowsOf(purge.job) /\ purge'.step = "delete" /\ purge'.job = purge.job
          BY <3>3, <4>2
        <5>2. purge'.ids = {id \in RunId : runs'[id] # None /\ runs'[id].job = purge'.job}
          BY <3>2, <5>1 DEF RowsOf
        <5> QED BY <5>1, <5>2 DEF PurgeOK, RowsOf
      <4> QED BY <3>1, <4>1, <4>2
    <3> QED BY <2>0, <3>2, <3>5 DEF Logged
  <2>2. CASE DeleteRows
    <3>1. purge # None /\ purge.step = "delete"
          /\ UNCHANGED <<logs, lastId>> /\ deleted \subseteq deleted'
      BY <2>2 DEF DeleteRows, history
    <3>2. purge.ids \subseteq RowsOf(purge.job)
      BY <2>0, <3>1 DEF PurgeOK
    <3>3. CASE purge' = None
      BY <2>0, <3>1, <3>3 DEF PurgeOK, Logged
    <3>4. CASE deleted' = deleted \cup RowsOf(purge.job)
               /\ purge' = [purge EXCEPT !.step = "logs"]
      <4>1. purge \in [job : Job, ids : SUBSET RunId, step : {"select", "delete", "logs"}]
        BY <3>1 DEF TypeOK
      <4>2. purge'.ids = purge.ids /\ purge'.step = "logs"
        BY <3>4, <4>1
      <4> QED BY <2>0, <3>1, <3>2, <3>4, <4>2 DEF PurgeOK, Logged
    <3> QED BY <2>2, <3>3, <3>4 DEF DeleteRows
  <2>3. CASE DeleteLogs
    <3>1. purge # None /\ purge.step = "logs" /\ purge' = None
          /\ UNCHANGED <<deleted, lastId>>
          /\ \E gone \in SUBSET purge.ids : logs' = logs \ gone
      BY <2>3 DEF DeleteLogs, history
    <3> QED BY <2>0, <3>1 DEF PurgeOK, Logged
  <2>4. CASE \E j \in Job : RemoveJob(j)
    <3> PICK j \in Job : RemoveJob(j)
      BY <2>4
    <3>1. /\ purge' \in {None, [job |-> j, ids |-> {}, step |-> "select"]}
          /\ UNCHANGED <<logs, deleted, lastId>>
      BY DEF RemoveJob, history
    <3>2. purge' # None => purge'.step = "select"
      BY <3>1
    <3> QED BY <2>0, <3>1, <3>2 DEF PurgeOK, Logged
  <2>5. CASE (\E o \in orphans : OrphanEnds(o)) \/ (\E j \in Job : ForgetByHand(j))
             \/ UNCHANGED vars
    <3>1. UNCHANGED <<purge, deleted, runs, logs, lastId>>
      BY <2>5 DEF OrphanEnds, ForgetByHand, vars, adminVars, history
    <3> QED BY <2>0, <3>1 DEF PurgeOK, Logged, RowsOf
  <2> QED BY <2>1, <2>2, <2>3, <2>4, <2>5
<1> QED BY <1>3, <1>4, <1>5, <1>6, <1>7, <1>8 DEF HInv

---------------------------------------------------------------------------
(* The invariant, and the theorems *)

\* The invariant holds at first
LEMMA InitHistory == Init => HInv
<1> SUFFICES ASSUME Init PROVE HInv
  OBVIOUS
<1>1. \A p \in Process : pc[p] = "idle" /\ run[p] = NoRun
  BY DEF Init
<1>2. NoRun.id = 0
  BY DEF NoRun
<1>3. IdsOK
  BY <1>1, <1>2 DEF Init, IdsOK
<1>4. \A p \in Process : Coherent(pc[p], run[p]) /\ RowFits(p)
  BY <1>1, IdleIsCoherent DEF Fresh, RowFits, HasRow, Unfinished
<1>5. \A id \in RunId : (runs[id] # None => Sound(runs[id])) /\ Told(id)
  BY DEF Init, Told
<1>6. PurgeOK /\ StageOwned
  BY DEF Init, PurgeOK, StageOwned
<1>7. Logged
  BY DEF Init, Logged, RunId
<1> QED BY <1>3, <1>4, <1>5, <1>6, <1>7 DEF HInv

\* Every step keeps the invariant, and every ended row
LEMMA NextKeepsHistory ==
  ASSUME IInv, HInv, [Next]_vars
  PROVE  HInv' /\ EndedKept
<1>1. TypeOK /\ LocalOK /\ TypeOK'
  BY IInvInductive DEF IInv
<1>2. CASE \E p \in Process :
             \/ Advance(p) \/ Notify(p) \/ Command(p) \/ Expire(p) \/ Crash(p)
             \/ \E j \in Job : Request(p, j)
  <2> PICK p \in Process :
        \/ Advance(p) \/ Notify(p) \/ Command(p) \/ Expire(p) \/ Crash(p)
        \/ \E j \in Job : Request(p, j)
    BY <1>2
  <2>1. Steps(p)
    BY AdmissionKeepsHistory, BeginKeepsHistory, PhasesKeepHistory, PreflightKeepsHistory,
       SavesKeepHistory, NotifyKeepsHistory DEF Advance, Command
  <2> QED BY <1>1, <2>1, StepKeepsHistory
<1>3. CASE \/ \E o \in orphans : OrphanEnds(o)
           \/ \E j \in Job : RemoveJob(j) \/ ForgetByHand(j)
           \/ SelectRows \/ DeleteRows \/ DeleteLogs \/ UNCHANGED vars
  BY <1>3, AdminKeepsHistory
<1> QED BY <1>2, <1>3 DEF Next

\* The invariant holds in every behaviour
LEMMA HistoryInvariant == Spec => [](IInv /\ HInv)
<1>1. Init => IInv /\ HInv
  BY InitIInv, InitHistory
<1>2. IInv /\ HInv /\ [Next]_vars => IInv' /\ HInv'
  BY IInvInductive, NextKeepsHistory
<1> QED BY <1>1, <1>2, PTL DEF Spec

\* A staging directory with database dumps never outlives its run, for any
\* number of runs at once, unless the process died
THEOREM DumpsAreRemoved == Spec => []StageOwned
<1>1. HInv => StageOwned
  BY DEF HInv
<1> QED BY <1>1, HistoryInvariant, PTL

\* Success and warning always stand for a snapshot, whichever phase failed,
\* timed out or could not be saved
THEOREM OutcomesAreSound == Spec => []OutcomeMatchesSnapshot
<1>1. HInv => OutcomeMatchesSnapshot
  BY DEF HInv, OutcomeMatchesSnapshot, Ended, Sound
<1> QED BY <1>1, HistoryInvariant, PTL

\* The user is never told anything but what the table says
THEOREM NoticesAreTrue == Spec => []NoticeMatchesRow
<1>1. HInv => NoticeMatchesRow
  BY DEF HInv, NoticeMatchesRow, Told
<1> QED BY <1>1, HistoryInvariant, PTL

\* Rows keep their logs while a job's history is deleted around its runs
THEOREM LogsStay == Spec => []RowsHaveLogs
<1>1. IInv /\ HInv => RowsHaveLogs
  <2> SUFFICES ASSUME IInv, HInv, NEW id \in RunId \ deleted, runs[id] # None
               PROVE  id \in logs
    BY DEF RowsHaveLogs
  <2>1. id <= lastId
    BY BackupRunAssumption DEF HInv, IdsOK, IInv, TypeOK, RunId
  <2> QED BY <2>1 DEF HInv, Logged
<1> QED BY <1>1, HistoryInvariant, PTL

\* No error path of any run reopens or rewrites a row saved with its outcome
THEOREM EndedRowsStay == Spec => EndedRowFinal
<1>1. IInv /\ HInv /\ [Next]_vars
        => [\A id \in RunId : Ended(id) => runs'[id] \in {runs[id], None}]_runs
  BY NextKeepsHistory DEF EndedKept
<1> QED BY <1>1, HistoryInvariant, PTL DEF Spec, EndedRowFinal
=============================================================================
