-------------------------- MODULE BackupRunProofs --------------------------
(***************************************************************************)
(* Theorems of BackupRun for every set of processes and jobs, every limit  *)
(* of parallel jobs and every number of runs: type correctness, mutual     *)
(* exclusion per job, the bound on parallel runs, and the refinement of    *)
(* JobAdmission.                                                           *)
(***************************************************************************)
EXTENDS BackupRun, FiniteSetTheorems, TLAPS

\* Locations at which the run has an identifier and a row to save
HasRow(p) == pc[p] \in {"announcing", "preflight", "saving", "working", "failing",
                        "notifying", "cleaning"}

\* What the locations say about the local variables
LocalOK ==
  \A p \in Process :
    /\ pc[p] # "idle" => run[p].job \in Job
    /\ pc[p] \in {"locking", "slotting"} => run[p].slot \in Slot
    /\ HasRow(p) => run[p].id \in RunId

\* What the locations say about the lock files: the holder of a lock is named
\* by the file.  This is what makes exclusion inductive.
LockOK ==
  \A p \in Process :
    /\ HoldsJob(p)  => jobLock[run[p].job] = p
    /\ HoldsSlot(p) => run[p].slot \in Slot /\ slotLock[run[p].slot] = p

IInv == TypeOK /\ LocalOK /\ LockOK

---------------------------------------------------------------------------
\* The two ways a run record changes keep its type, identity and locks
LEMMA RunChanges ==
  ASSUME NEW r \in LocalRun
  PROVE  /\ Advanced(r) \in LocalRun
         /\ Advanced(r).id = r.id /\ Advanced(r).job = r.job
         /\ Advanced(r).slot = r.slot
         /\ \A code \in ErrorCode :
              /\ FailedRun(r, code) \in LocalRun
              /\ FailedRun(r, code).id = r.id /\ FailedRun(r, code).job = r.job
              /\ FailedRun(r, code).slot = r.slot
<1>1. NextPhase(r) \in Phase
  BY DEF NextPhase, Phase
<1>2. Advanced(r) \in LocalRun
  BY <1>1 DEF Advanced, LocalRun, Status
<1>3. Advanced(r).id = r.id /\ Advanced(r).job = r.job /\ Advanced(r).slot = r.slot
  BY DEF Advanced, LocalRun
<1>4. ASSUME NEW code \in ErrorCode
      PROVE  /\ FailedRun(r, code) \in LocalRun
             /\ FailedRun(r, code).id = r.id /\ FailedRun(r, code).job = r.job
             /\ FailedRun(r, code).slot = r.slot
  BY DEF FailedRun, LocalRun, Status, Phase
<1> QED BY <1>2, <1>3, <1>4

\* A step of p moves p alone
LEMMA GotoMoves ==
  ASSUME TypeOK, NEW p \in Process, NEW l \in Location, NEW r \in LocalRun,
         Goto(p, l, r)
  PROVE  /\ pc' \in [Process -> Location] /\ run' \in [Process -> LocalRun]
         /\ pc'[p] = l /\ run'[p] = r
         /\ \A q \in Process \ {p} : pc'[q] = pc[q] /\ run'[q] = run[q]
BY DEF Goto, TypeOK

\* The row of a run that has an identifier is a row of the table
LEMMA SaveRunType ==
  ASSUME runs \in [RunId -> Row \cup {None}], NEW r \in LocalRun,
         r.job \in Job, SaveRun(r)
  PROVE  runs' \in [RunId -> Row \cup {None}]
<1>1. RowOf(r) \in Row
  BY DEF RowOf, Row, LocalRun
<1> QED BY <1>1 DEF SaveRun

\* An idle process has a well-formed record
LEMMA NoRunType == NoRun \in LocalRun
  BY BackupRunAssumption DEF NoRun, LocalRun, Phase, Status, ErrorCode

\* Nothing is held at first
LEMMA InitIInv == Init => IInv
<1> SUFFICES ASSUME Init PROVE IInv
  OBVIOUS
<1>1. TypeOK
  BY NoRunType, BackupRunAssumption DEF Init, TypeOK, Location
<1>2. LocalOK /\ LockOK
  BY DEF Init, LocalOK, LockOK, HasRow, HoldsJob, HoldsSlot
<1> QED BY <1>1, <1>2 DEF IInv

---------------------------------------------------------------------------
\* A step that leaves the lock files alone and takes p no further into the
\* locked region than it was keeps the lock invariant
LEMMA StepKeepsLocks ==
  ASSUME IInv, NEW p \in Process, NEW l \in Location, NEW r \in LocalRun,
         Goto(p, l, r), UNCHANGED lockVars,
         r.job = run[p].job, r.slot = run[p].slot,
         l # "idle" => r.job \in Job,
         l \in {"locking", "slotting"} => r.slot \in Slot,
         l \notin {"idle", "locking"} => HoldsJob(p),
         l \notin {"idle", "locking", "slotting", "unlocking"} => HoldsSlot(p),
         l \notin {"idle", "locking", "slotting", "beginning", "releasing", "unlocking"}
           => r.id \in RunId
  PROVE  LocalOK' /\ LockOK'
<1>1. /\ pc'[p] = l /\ run'[p] = r
      /\ \A q \in Process \ {p} : pc'[q] = pc[q] /\ run'[q] = run[q]
  BY GotoMoves DEF IInv
<1>2. LocalOK'
  BY <1>1 DEF IInv, LocalOK, HasRow
<1>3. LockOK'
  BY <1>1 DEF IInv, LockOK, HoldsJob, HoldsSlot, lockVars
<1> QED BY <1>2, <1>3

\* The steps that take and give back locks keep the lock invariant: a lock is
\* taken only when it is free, and given back only by its holder
LEMMA AdmissionKeepsLocks ==
  ASSUME IInv, NEW p \in Process,
         \/ \E j \in Job : Request(p, j)
         \/ AcquireJob(p) \/ AcquireSlot(p) \/ ReleaseSlot(p) \/ ReleaseJob(p)
         \/ Crash(p)
  PROVE  LocalOK' /\ LockOK'
<1> USE NoRunType DEF IInv
<1>r. run[p] \in LocalRun
  BY DEF TypeOK
<1>1. CASE \E j \in Job : Request(p, j)
  <2> PICK j \in Job : Request(p, j)
    BY <1>1
  <2> DEFINE r == [NoRun EXCEPT !.job = j]
  <2>1. r \in LocalRun /\ r.job = j /\ r.slot \in Slot
    <3>1. r \in LocalRun /\ r.job = j /\ r.slot = NoRun.slot
      <4>1. \A q \in LocalRun : /\ [q EXCEPT !.job = j] \in LocalRun
                               /\ [q EXCEPT !.job = j].job = j
                               /\ [q EXCEPT !.job = j].slot = q.slot
        BY DEF LocalRun
      <4> QED BY <4>1, NoRunType
    <3>2. NoRun.slot \in Slot
      <4>1. NoRun.slot = 0
        BY DEF NoRun
      <4>2. 0 \in Slot
        BY BackupRunAssumption DEF Slot
      <4> QED BY <4>1, <4>2
    <3> QED BY <3>1, <3>2
  <2>2. Goto(p, "locking", r) /\ UNCHANGED lockVars
    BY DEF Request
  <2>3. /\ pc'[p] = "locking" /\ run'[p] = r
        /\ \A q \in Process \ {p} : pc'[q] = pc[q] /\ run'[q] = run[q]
    BY <2>1, <2>2, GotoMoves DEF Location
  <2>4. LocalOK'
    BY <2>1, <2>3 DEF LocalOK, HasRow
  <2>5. LockOK'
    BY <2>2, <2>3 DEF LockOK, HoldsJob, HoldsSlot, lockVars
  <2> QED BY <2>4, <2>5
<1>2. CASE AcquireJob(p)
  <2>1. CASE /\ jobLock[run[p].job] = None /\ Goto(p, "slotting", run[p])
             /\ jobLock' = [jobLock EXCEPT ![run[p].job] = p]
    <3>1. /\ pc'[p] = "slotting" /\ run'[p] = run[p]
          /\ \A q \in Process \ {p} : pc'[q] = pc[q] /\ run'[q] = run[q]
      BY <1>r, <2>1, GotoMoves DEF Location
    <3>2. run[p].job \in Job /\ pc[p] = "locking" /\ slotLock' = slotLock
      BY <1>2 DEF LocalOK, AcquireJob
    <3>3. \A q \in Process : HoldsJob(q) => run[q].job # run[p].job
      BY <2>1, BackupRunAssumption DEF LockOK
    <3>4. run[p].slot \in Slot
      BY <3>2 DEF LocalOK
    <3>5. LocalOK'
      BY <3>1, <3>2, <3>4 DEF LocalOK, HasRow
    <3>6. LockOK'
      BY <3>1, <3>2, <3>3, <2>1 DEF LockOK, HoldsJob, HoldsSlot, TypeOK
    <3> QED BY <3>5, <3>6
  <2>2. CASE Goto(p, "idle", NoRun) /\ UNCHANGED jobLock
    <3>1. UNCHANGED lockVars
      BY <1>2, <2>2 DEF AcquireJob, lockVars
    <3>2. /\ pc'[p] = "idle"
          /\ \A q \in Process \ {p} : pc'[q] = pc[q] /\ run'[q] = run[q]
      BY <2>2, GotoMoves DEF Location
    <3> QED
      BY <3>1, <3>2 DEF LocalOK, LockOK, HasRow, HoldsJob, HoldsSlot, lockVars
  <2> QED
    BY <1>2, <2>1, <2>2 DEF AcquireJob
<1>3. CASE AcquireSlot(p)
  <2>1. /\ pc[p] = "slotting" /\ run[p].slot \in Slot /\ run[p].job \in Job
        /\ jobLock' = jobLock /\ HoldsJob(p)
    BY <1>3 DEF AcquireSlot, LocalOK, HoldsJob
  <2>2. CASE /\ slotLock[run[p].slot] = None /\ Goto(p, "beginning", run[p])
             /\ slotLock' = [slotLock EXCEPT ![run[p].slot] = p]
    <3>1. /\ pc'[p] = "beginning" /\ run'[p] = run[p]
          /\ \A q \in Process \ {p} : pc'[q] = pc[q] /\ run'[q] = run[q]
      BY <1>r, <2>2, GotoMoves DEF Location
    <3>2. \A q \in Process : HoldsSlot(q) => run[q].slot # run[p].slot
      BY <2>2, BackupRunAssumption DEF LockOK
    <3>3. LocalOK'
      BY <2>1, <3>1 DEF LocalOK, HasRow
    <3>4. LockOK'
      BY <2>1, <2>2, <3>1, <3>2 DEF LockOK, HoldsJob, HoldsSlot, TypeOK
    <3> QED BY <3>3, <3>4
  <2>3. CASE /\ run[p].slot + 1 \in Slot /\ UNCHANGED slotLock
             /\ Goto(p, "slotting", [run[p] EXCEPT !.slot = run[p].slot + 1])
    <3> DEFINE r == [run[p] EXCEPT !.slot = run[p].slot + 1]
    <3>1. r \in LocalRun /\ r.slot \in Slot /\ r.job = run[p].job
      BY <1>r, <2>3 DEF LocalRun, Slot
    <3>2. /\ pc'[p] = "slotting" /\ run'[p] = r
          /\ \A q \in Process \ {p} : pc'[q] = pc[q] /\ run'[q] = run[q]
      BY <3>1, <2>3, GotoMoves DEF Location
    <3> HIDE DEF r
    <3>3. LocalOK'
      BY <2>1, <3>1, <3>2 DEF LocalOK, HasRow
    <3>4. LockOK'
      BY <2>1, <2>3, <3>1, <3>2 DEF LockOK, HoldsJob, HoldsSlot
    <3> QED BY <3>3, <3>4
  <2>4. CASE UNCHANGED slotLock /\ Goto(p, "unlocking", run[p])
    BY <1>r, <2>1, <2>4, StepKeepsLocks DEF Location, lockVars
  <2> QED
    BY <1>3, <2>2, <2>3, <2>4 DEF AcquireSlot
<1>4. CASE ReleaseSlot(p)
  <2>1. /\ pc[p] = "releasing" /\ HoldsSlot(p) /\ HoldsJob(p) /\ run[p].job \in Job
        /\ jobLock' = jobLock /\ slotLock' = [slotLock EXCEPT ![run[p].slot] = None]
    BY <1>4 DEF ReleaseSlot, HoldsSlot, HoldsJob, LocalOK
  <2>2. /\ pc'[p] = "unlocking" /\ run'[p] = run[p]
        /\ \A q \in Process \ {p} : pc'[q] = pc[q] /\ run'[q] = run[q]
    BY <1>r, <1>4, GotoMoves DEF Location, ReleaseSlot
  <2>3. \A q \in Process \ {p} : HoldsSlot(q) => run[q].slot # run[p].slot
    BY <2>1 DEF LockOK
  <2>4. LocalOK'
    BY <2>1, <2>2 DEF LocalOK, HasRow
  <2>5. LockOK'
    BY <2>1, <2>2, <2>3 DEF LockOK, HoldsJob, HoldsSlot, TypeOK
  <2> QED BY <2>4, <2>5
<1>5. CASE ReleaseJob(p)
  <2>1. /\ HoldsJob(p) /\ slotLock' = slotLock
        /\ jobLock' = [jobLock EXCEPT ![run[p].job] = None]
    BY <1>5 DEF ReleaseJob, HoldsJob
  <2>2. /\ pc'[p] = "idle"
        /\ \A q \in Process \ {p} : pc'[q] = pc[q] /\ run'[q] = run[q]
    BY <1>5, GotoMoves DEF Location, ReleaseJob
  <2>3. \A q \in Process \ {p} : HoldsJob(q) => run[q].job # run[p].job
    BY <2>1 DEF LockOK
  <2>4. LocalOK'
    BY <2>2 DEF LocalOK, HasRow
  <2>5. LockOK'
    BY <2>1, <2>2, <2>3 DEF LockOK, HoldsJob, HoldsSlot, LocalOK, TypeOK
  <2> QED BY <2>4, <2>5
<1>6. CASE Crash(p)
  <2>1. /\ jobLock' = [j \in Job |-> IF jobLock[j] = p THEN None ELSE jobLock[j]]
        /\ slotLock' = [i \in Slot |-> IF slotLock[i] = p THEN None ELSE slotLock[i]]
    BY <1>6 DEF Crash
  <2>2. /\ pc'[p] = "idle"
        /\ \A q \in Process \ {p} : pc'[q] = pc[q] /\ run'[q] = run[q]
    BY <1>6, GotoMoves DEF Location, Crash
  <2>3. LocalOK'
    BY <2>2 DEF LocalOK, HasRow
  <2>4. LockOK'
    BY <2>1, <2>2 DEF LockOK, HoldsJob, HoldsSlot, LocalOK
  <2> QED BY <2>3, <2>4
<1> QED
  BY <1>1, <1>2, <1>3, <1>4, <1>5, <1>6

---------------------------------------------------------------------------
\* A step that moves p within the region past admission, on the same job,
\* changes no one's admission
LEMMA StepKeepsActive ==
  ASSUME IInv, NEW p \in Process, NEW l \in Location, NEW r \in LocalRun,
         Goto(p, l, r),
         l \in {"beginning", "announcing", "preflight", "saving", "working", "failing",
                "notifying", "cleaning", "releasing"} <=> HoldsSlot(p),
         HoldsSlot(p) => r.job = run[p].job
  PROVE  Active' = Active
<1>1. /\ pc'[p] = l /\ run'[p] = r
      /\ \A q \in Process \ {p} : pc'[q] = pc[q] /\ run'[q] = run[q]
  BY GotoMoves DEF IInv
<1>2. ASSUME NEW q \in Process
      PROVE  /\ HoldsSlot(q)' <=> HoldsSlot(q)
             /\ HoldsSlot(q) => run'[q].job = run[q].job
  BY <1>1 DEF HoldsSlot
<1> QED BY <1>2 DEF Active

\* The steps of an admitted run stay within its locks
LEMMA PhaseKeepsLocks ==
  ASSUME IInv, NEW p \in Process,
         \/ Begin(p) \/ Announce(p) \/ Preflight(p) \/ SavePhase(p)
         \/ SaveFailure(p) \/ Notify(p) \/ RemoveStage(p)
         \/ Command(p) \/ Expire(p)
  PROVE  LocalOK' /\ LockOK' /\ Active' = Active
<1>r. /\ run[p] \in LocalRun
      /\ \A code \in ErrorCode : FailedRun(run[p], code) \in LocalRun
  BY RunChanges DEF IInv, TypeOK
<1> DEFINE Keeps(r) == /\ r \in LocalRun /\ r.id = run[p].id
                       /\ r.job = run[p].job /\ r.slot = run[p].slot
<1>k. /\ Keeps(run[p]) /\ Keeps(Advanced(run[p]))
      /\ \A code \in ErrorCode : Keeps(FailedRun(run[p], code))
  BY <1>r, RunChanges
<1>w. \A r \in LocalRun :
        /\ Keeps(r) => /\ Keeps([r EXCEPT !.snap = TRUE])
                       /\ Keeps([r EXCEPT !.warned = TRUE])
                       /\ Keeps([r EXCEPT !.expired = TRUE])
  BY DEF LocalRun
<1>a. \A r \in LocalRun : Keeps(r) => Keeps(Advanced(r))
  BY RunChanges
<1> HIDE DEF Keeps
<1>s. ASSUME NEW l \in Location, NEW r, Keeps(r), Goto(p, l, r),
             UNCHANGED lockVars, HasRow(p),
             l \in {"preflight", "saving", "working", "failing", "notifying",
                    "cleaning", "releasing"}
      PROVE  LocalOK' /\ LockOK' /\ Active' = Active
  <2>1. /\ run[p].job \in Job /\ run[p].id \in RunId
        /\ HoldsJob(p) /\ HoldsSlot(p)
    BY <1>s DEF IInv, LocalOK, HasRow, HoldsJob, HoldsSlot
  <2>2. Active' = Active
    BY <1>s, <2>1, StepKeepsActive DEF Keeps
  <2>3. LocalOK' /\ LockOK'
    BY <1>s, <2>1, StepKeepsLocks DEF Keeps
  <2> QED BY <2>2, <2>3
<1>1. CASE Begin(p)
  <2> DEFINE r == [run[p] EXCEPT !.id = lastId + 1]
  <2>1. /\ pc[p] = "beginning" /\ HoldsJob(p) /\ HoldsSlot(p) /\ run[p].job \in Job
        /\ UNCHANGED lockVars
    BY <1>1 DEF Begin, HoldsJob, HoldsSlot, IInv, LocalOK
  <2>2. CASE lastId < MaxRuns /\ Goto(p, "announcing", r)
    <3>1. lastId + 1 \in RunId
      BY <2>2, BackupRunAssumption DEF IInv, TypeOK, RunId
    <3>2. /\ r \in LocalRun /\ r.id = lastId + 1
          /\ r.job = run[p].job /\ r.slot = run[p].slot
      BY <1>r, <3>1 DEF LocalRun, RunId
    <3> HIDE DEF r
    <3>3. Active' = Active
      BY <2>1, <2>2, <3>2, StepKeepsActive DEF Location
    <3>4. LocalOK' /\ LockOK'
      BY <2>1, <2>2, <3>1, <3>2, StepKeepsLocks DEF Location
    <3> QED BY <3>3, <3>4
  <2>3. CASE Goto(p, "releasing", run[p])
    <3>1. Active' = Active
      BY <1>r, <2>1, <2>3, StepKeepsActive DEF Location
    <3>2. LocalOK' /\ LockOK'
      BY <1>r, <2>1, <2>3, StepKeepsLocks DEF Location
    <3> QED BY <3>1, <3>2
  <2> QED
    BY <1>1, <2>2, <2>3 DEF Begin
<1>2. CASE Announce(p)
  BY <1>2, <1>k, <1>s DEF Announce, HasRow, Location
<1>3. CASE Preflight(p)
  <2>1. HasRow(p) /\ UNCHANGED lockVars
    BY <1>3 DEF Preflight, HasRow
  <2> QED
    BY <1>3, <2>1, <1>k, <1>s DEF Preflight, Location, ErrorCode
<1>4. CASE SavePhase(p)
  <2>1. HasRow(p) /\ UNCHANGED lockVars
    BY <1>4 DEF SavePhase, HasRow
  <2> QED
    BY <1>4, <2>1, <1>k, <1>s DEF SavePhase, Location, ErrorCode
<1>5. CASE SaveFailure(p)
  <2>1. HasRow(p) /\ UNCHANGED lockVars
    BY <1>5 DEF SaveFailure, HasRow
  <2> QED
    BY <1>5, <2>1, <1>k, <1>s DEF SaveFailure, Location
<1>6. CASE Notify(p)
  BY <1>6, <1>k, <1>s DEF Notify, HasRow, Location
<1>7. CASE RemoveStage(p)
  BY <1>7, <1>k, <1>s DEF RemoveStage, HasRow, Location
<1>8. CASE Command(p)
  <2>1. HasRow(p) /\ UNCHANGED lockVars
    BY <1>8 DEF Command, DumpDatabases, BackUp, Forget, Verify, Working, HasRow
  <2>2. \E r : /\ Keeps(r)
               /\ Goto(p, "saving", r) \/ Goto(p, "failing", r)
    <3>1. CASE DumpDatabases(p)
      BY <3>1, <1>k DEF DumpDatabases, ErrorCode
    <3>2. CASE BackUp(p)
      <4>1. Keeps(Advanced([run[p] EXCEPT !.snap = TRUE]))
        BY <1>k, <1>w, <1>a, <1>r DEF Keeps
      <4>2. \A code \in {"TASK_TIMEOUT", "RESTIC_FAILED"} : Keeps(FailedRun(run[p], code))
        BY <1>k DEF ErrorCode
      <4> QED
        BY <3>2, <4>1, <4>2 DEF BackUp
    <3>3. CASE Forget(p)
      <4>1. Keeps(Advanced([run[p] EXCEPT !.warned = TRUE]))
        BY <1>k, <1>w, <1>a, <1>r DEF Keeps
      <4> QED
        BY <3>3, <4>1, <1>k DEF Forget
    <3>4. CASE Verify(p)
      <4>1. Keeps(Advanced([run[p] EXCEPT !.warned = TRUE]))
        BY <1>k, <1>w, <1>a, <1>r DEF Keeps
      <4> QED
        BY <3>4, <4>1, <1>k DEF Verify
    <3> QED BY <1>8, <3>1, <3>2, <3>3, <3>4 DEF Command
  <2> QED
    BY <2>1, <2>2, <1>s DEF Location
<1>9. CASE Expire(p)
  <2>1. HasRow(p) /\ UNCHANGED lockVars /\ pc[p] \in {"preflight", "saving", "working"}
    BY <1>9 DEF Expire, HasRow
  <2>2. Goto(p, pc[p], [run[p] EXCEPT !.expired = TRUE])
    BY <1>9 DEF Expire
  <2>3. Keeps([run[p] EXCEPT !.expired = TRUE])
    BY <1>k, <1>w, <1>r
  <2> QED
    BY <2>1, <2>2, <2>3, <1>s DEF Location
<1> QED
  BY <1>1, <1>2, <1>3, <1>4, <1>5, <1>6, <1>7, <1>8, <1>9

---------------------------------------------------------------------------
\* Type correctness is preserved, given that a run past admission has a job
\* and an identifier: its rows, snapshots and logs are then well formed
LEMMA StepKeepsTypes ==
  ASSUME IInv, Next
  PROVE  TypeOK'
<1> USE NoRunType DEF IInv
<1>r. \A p \in Process :
        /\ run[p] \in LocalRun /\ Advanced(run[p]) \in LocalRun
        /\ \A code \in ErrorCode : FailedRun(run[p], code) \in LocalRun
  BY RunChanges DEF TypeOK
<1>g. ASSUME NEW p \in Process, NEW l \in Location, NEW r \in LocalRun, Goto(p, l, r)
      PROVE  pc' \in [Process -> Location] /\ run' \in [Process -> LocalRun]
  BY <1>g, GotoMoves
<1>w. \A r \in LocalRun :
        /\ [r EXCEPT !.snap = TRUE] \in LocalRun
        /\ [r EXCEPT !.warned = TRUE] \in LocalRun
        /\ [r EXCEPT !.expired = TRUE] \in LocalRun
        /\ \A j \in Job : [r EXCEPT !.job = j] \in LocalRun
        /\ \A i \in Nat : [r EXCEPT !.slot = i] \in LocalRun
        /\ \A id \in 0 .. MaxRuns : [r EXCEPT !.id = id] \in LocalRun
  BY DEF LocalRun
<1>i. RunId \subseteq 0 .. MaxRuns /\ Slot \subseteq Nat
  BY BackupRunAssumption DEF RunId, Slot
<1>1. ASSUME NEW p \in Process, Advance(p) \/ Notify(p)
      PROVE  TypeOK'
  <2>1. CASE AcquireJob(p)
    <3>1. pc' \in [Process -> Location] /\ run' \in [Process -> LocalRun]
      BY <2>1, <1>r, <1>g DEF AcquireJob, Location
    <3>2. jobLock' \in [Job -> Process \cup {None}]
      BY <2>1 DEF AcquireJob, TypeOK
    <3> QED
      BY <2>1, <3>1, <3>2 DEF AcquireJob, TypeOK, history, adminVars
  <2>2. CASE AcquireSlot(p)
    <3>1. run[p].slot + 1 \in Slot => [run[p] EXCEPT !.slot = run[p].slot + 1] \in LocalRun
      BY <1>r, <1>w, <1>i
    <3>2. pc' \in [Process -> Location] /\ run' \in [Process -> LocalRun]
      BY <2>2, <3>1, <1>r, <1>g DEF AcquireSlot, Location
    <3>3. slotLock' \in [Slot -> Process \cup {None}]
      BY <2>2 DEF AcquireSlot, TypeOK
    <3> QED
      BY <2>2, <3>2, <3>3 DEF AcquireSlot, TypeOK, history, adminVars
  <2>3. CASE Begin(p)
    <3> DEFINE r == [run[p] EXCEPT !.id = lastId + 1]
    <3>1. CASE /\ lastId < MaxRuns /\ lastId' = lastId + 1 /\ logs' = logs \cup {r.id}
               /\ SaveRun(r) /\ Goto(p, "announcing", r)
      <4>1. lastId + 1 \in RunId
        BY <3>1, BackupRunAssumption DEF TypeOK, RunId
      <4>2. r \in LocalRun /\ r.id \in RunId /\ r.job \in Job
        <5>1. run[p].job \in Job
          BY <2>3 DEF Begin, LocalOK
        <5>2. r \in LocalRun
          BY <1>r, <1>w, <1>i, <4>1
        <5>3. r.id = lastId + 1 /\ r.job = run[p].job
          BY <1>r DEF LocalRun
        <5> QED BY <4>1, <5>1, <5>2, <5>3
      <4> HIDE DEF r
      <4>3. runs' \in [RunId -> Row \cup {None}]
        BY <3>1, <4>2, SaveRunType DEF TypeOK
      <4>4. pc' \in [Process -> Location] /\ run' \in [Process -> LocalRun]
        BY <3>1, <4>2, <1>g DEF Location
      <4>5. lastId' \in 0 .. MaxRuns /\ logs' \subseteq RunId
        <5>1. lastId' \in 0 .. MaxRuns
          BY <3>1, <4>1, <1>i
        <5>2. logs' \subseteq RunId
          BY <3>1, <4>2 DEF TypeOK
        <5> QED BY <5>1, <5>2
      <4> QED
        BY <2>3, <4>3, <4>4, <4>5 DEF Begin, TypeOK, lockVars, history, adminVars
    <3>2. CASE Goto(p, "releasing", run[p]) /\ UNCHANGED <<lastId, logs, runs>>
      <4>1. pc' \in [Process -> Location] /\ run' \in [Process -> LocalRun]
        BY <3>2, <1>r, <1>g DEF Location
      <4> QED
        BY <2>3, <3>2, <4>1 DEF Begin, TypeOK, lockVars, history, adminVars
    <3> QED BY <2>3, <3>1, <3>2 DEF Begin
  <2>4. CASE Announce(p)
    <3>1. pc' \in [Process -> Location] /\ run' \in [Process -> LocalRun]
      BY <2>4, <1>r, <1>g DEF Announce, Location
    <3>2. announced' \subseteq RunId
      BY <2>4 DEF Announce, TypeOK, LocalOK, HasRow
    <3> QED
      BY <2>4, <3>1, <3>2 DEF Announce, TypeOK, lockVars, adminVars
  <2>5. CASE Preflight(p)
    <3>1. pc' \in [Process -> Location] /\ run' \in [Process -> LocalRun]
      BY <2>5, <1>r, <1>g DEF Preflight, Location, ErrorCode
    <3>2. staged' \subseteq RunId
      BY <2>5 DEF Preflight, TypeOK, LocalOK, HasRow
    <3> QED
      BY <2>5, <3>1, <3>2 DEF Preflight, TypeOK, lockVars, history, adminVars
  <2>6. CASE SavePhase(p)
    <3>1. pc' \in [Process -> Location] /\ run' \in [Process -> LocalRun]
      BY <2>6, <1>r, <1>g DEF SavePhase, Location, ErrorCode
    <3>2. runs' \in [RunId -> Row \cup {None}]
      BY <2>6, <1>r, SaveRunType DEF SavePhase, TypeOK, LocalOK
    <3> QED
      BY <2>6, <3>1, <3>2 DEF SavePhase, TypeOK, lockVars, history, adminVars
  <2>7. CASE SaveFailure(p)
    <3>1. pc' \in [Process -> Location] /\ run' \in [Process -> LocalRun]
      BY <2>7, <1>r, <1>g DEF SaveFailure, Location
    <3>2. runs' \in [RunId -> Row \cup {None}]
      BY <2>7, <1>r, SaveRunType DEF SaveFailure, TypeOK, LocalOK
    <3>3. unsaved' \subseteq RunId
      BY <2>7 DEF SaveFailure, TypeOK, LocalOK, HasRow
    <3> QED
      BY <2>7, <3>1, <3>2, <3>3 DEF SaveFailure, TypeOK, lockVars, adminVars
  <2>8. CASE Notify(p)
    <3>1. pc' \in [Process -> Location] /\ run' \in [Process -> LocalRun]
      BY <2>8, <1>r, <1>g DEF Notify, Location
    <3>2. notice' \in [RunId -> Notice \cup {None}]
      <4>1. \A read \in BOOLEAN : NoticeFor(run[p], read) \in Notice
        BY DEF NoticeFor, Notice
      <4> QED BY <2>8, <4>1 DEF Notify, Tell, TypeOK
    <3>3. unread' \subseteq RunId
      BY <2>8 DEF Notify, Tell, TypeOK, LocalOK, HasRow
    <3> QED
      BY <2>8, <3>1, <3>2, <3>3 DEF Notify, TypeOK, lockVars, adminVars
  <2>9. CASE RemoveStage(p)
    <3>1. pc' \in [Process -> Location] /\ run' \in [Process -> LocalRun]
      BY <2>9, <1>r, <1>g DEF RemoveStage, Location
    <3> QED
      BY <2>9, <3>1 DEF RemoveStage, TypeOK, lockVars, history, adminVars
  <2>10. CASE ReleaseSlot(p)
    <3>1. pc' \in [Process -> Location] /\ run' \in [Process -> LocalRun]
      BY <2>10, <1>r, <1>g DEF ReleaseSlot, Location
    <3>2. slotLock' \in [Slot -> Process \cup {None}]
      BY <2>10 DEF ReleaseSlot, TypeOK
    <3> QED
      BY <2>10, <3>1, <3>2 DEF ReleaseSlot, TypeOK, history, adminVars
  <2>11. CASE ReleaseJob(p)
    <3>1. pc' \in [Process -> Location] /\ run' \in [Process -> LocalRun]
      BY <2>11, <1>r, <1>g DEF ReleaseJob, Location
    <3>2. jobLock' \in [Job -> Process \cup {None}]
      BY <2>11 DEF ReleaseJob, TypeOK
    <3> QED
      BY <2>11, <3>1, <3>2 DEF ReleaseJob, TypeOK, history, adminVars
  <2> QED
    BY <1>1, <2>1, <2>2, <2>3, <2>4, <2>5, <2>6, <2>7, <2>8, <2>9, <2>10, <2>11
       DEF Advance
<1>2. ASSUME NEW p \in Process, Command(p)
      PROVE  TypeOK'
  <2>1. /\ run[p].id \in RunId /\ run[p].job \in Job
        /\ [id |-> run[p].id, job |-> run[p].job] \in Snapshot
    BY <1>2 DEF Command, DumpDatabases, BackUp, Forget, Verify, Working, LocalOK,
                HasRow, Snapshot
  <2>2. /\ Advanced([run[p] EXCEPT !.snap = TRUE]) \in LocalRun
        /\ Advanced([run[p] EXCEPT !.warned = TRUE]) \in LocalRun
    BY <1>r, <1>w, RunChanges
  <2>3. CASE DumpDatabases(p)
    <3>1. pc' \in [Process -> Location] /\ run' \in [Process -> LocalRun]
      BY <2>3, <1>r, <1>g DEF DumpDatabases, Location, ErrorCode
    <3> QED
      BY <2>3, <3>1 DEF DumpDatabases, TypeOK, lockVars, history, adminVars
  <2>4. CASE BackUp(p)
    <3>1. pc' \in [Process -> Location] /\ run' \in [Process -> LocalRun]
      BY <2>4, <2>2, <1>r, <1>g DEF BackUp, Location, ErrorCode
    <3>2. snapshots' \subseteq Snapshot
      BY <2>4, <2>1 DEF BackUp, TypeOK
    <3> QED
      BY <2>4, <3>1, <3>2 DEF BackUp, TypeOK, lockVars, history, adminVars
  <2>5. CASE Forget(p)
    <3>1. pc' \in [Process -> Location] /\ run' \in [Process -> LocalRun]
      BY <2>5, <2>2, <1>r, <1>g DEF Forget, Location
    <3>2. snapshots' \subseteq Snapshot
      BY <2>5 DEF Forget, Thinned, TypeOK
    <3> QED
      BY <2>5, <3>1, <3>2 DEF Forget, TypeOK, lockVars, history, adminVars
  <2>6. CASE Verify(p)
    <3>1. pc' \in [Process -> Location] /\ run' \in [Process -> LocalRun]
      BY <2>6, <2>2, <1>r, <1>g DEF Verify, Location
    <3> QED
      BY <2>6, <3>1 DEF Verify, TypeOK, lockVars, history, adminVars
  <2> QED
    BY <1>2, <2>3, <2>4, <2>5, <2>6 DEF Command
<1>3. ASSUME NEW p \in Process, Expire(p)
      PROVE  TypeOK'
  <2>1. pc' \in [Process -> Location] /\ run' \in [Process -> LocalRun]
    BY <1>3, <1>r, <1>w, <1>g DEF Expire, Location
  <2> QED
    BY <1>3, <2>1 DEF Expire, TypeOK, lockVars, history, adminVars
<1>4. ASSUME NEW p \in Process, Crash(p)
      PROVE  TypeOK'
  <2>1. pc' \in [Process -> Location] /\ run' \in [Process -> LocalRun]
    BY <1>4, <1>g DEF Crash, Location
  <2>2. /\ jobLock' \in [Job -> Process \cup {None}]
        /\ slotLock' \in [Slot -> Process \cup {None}]
    BY <1>4 DEF Crash, TypeOK
  <2>3. crashed' \subseteq RunId
    <3>1. run[p].id \in 0 .. MaxRuns
      BY <1>r DEF LocalRun
    <3>2. run[p].id # 0 => run[p].id \in RunId
      BY <3>1, BackupRunAssumption DEF RunId
    <3> QED BY <1>4, <3>2 DEF Crash, TypeOK
  <2>4. orphans' \subseteq [id : RunId, job : Job, phase : {"backing_up", "retention"}]
    BY <1>4 DEF Crash, TypeOK, Working, LocalOK, HasRow
  <2> QED
    BY <1>4, <2>1, <2>2, <2>3, <2>4 DEF Crash, TypeOK, adminVars
<1>5. ASSUME NEW p \in Process, NEW j \in Job, Request(p, j)
      PROVE  TypeOK'
  <2>1. pc' \in [Process -> Location] /\ run' \in [Process -> LocalRun]
    BY <1>5, <1>w, <1>g DEF Request, Location
  <2> QED
    BY <1>5, <2>1 DEF Request, TypeOK, lockVars, history, adminVars
<1>6. ASSUME NEW o \in orphans, OrphanEnds(o)
      PROVE  TypeOK'
  <2>1. o.id \in RunId /\ o.job \in Job
    BY DEF TypeOK
  <2>2. snapshots' \subseteq Snapshot
    BY <1>6, <2>1 DEF OrphanEnds, TypeOK, Snapshot
  <2>3. orphans' \subseteq [id : RunId, job : Job, phase : {"backing_up", "retention"}]
    BY <1>6 DEF OrphanEnds, TypeOK
  <2> QED
    BY <1>6, <2>2, <2>3 DEF OrphanEnds, TypeOK, lockVars, history, adminVars
<1>7. ASSUME NEW j \in Job, RemoveJob(j)
      PROVE  TypeOK'
  <2>1. /\ removed' \subseteq Job
        /\ purge' \in [job : Job, ids : SUBSET RunId, step : {"select", "delete", "logs"}]
                     \cup {None}
    BY <1>7 DEF RemoveJob, TypeOK
  <2> QED
    BY <1>7, <2>1 DEF RemoveJob, TypeOK, lockVars, history
<1>9. ASSUME NEW j \in Job, ForgetByHand(j)
      PROVE  TypeOK'
  <2>1. snapshots' \subseteq Snapshot
    BY <1>9 DEF ForgetByHand, Thinned, TypeOK
  <2> QED
    BY <1>9, <2>1 DEF ForgetByHand, TypeOK, lockVars, history
<1>8. ASSUME SelectRows \/ DeleteRows \/ DeleteLogs
      PROVE  TypeOK'
  <2>1. \A j : RowsOf(j) \subseteq RunId
    BY DEF RowsOf
  <2>2. purge # None => purge \in [job : Job, ids : SUBSET RunId,
                                   step : {"select", "delete", "logs"}]
    BY DEF TypeOK
  <2>3. CASE SelectRows
    <3>1. ASSUME NEW r \in [job : Job, ids : SUBSET RunId,
                            step : {"select", "delete", "logs"}],
                 NEW S \in SUBSET RunId
          PROVE  [r EXCEPT !.ids = S, !.step = "delete"]
                   \in [job : Job, ids : SUBSET RunId, step : {"select", "delete", "logs"}]
      OBVIOUS
    <3>2. purge' \in [job : Job, ids : SUBSET RunId, step : {"select", "delete", "logs"}]
                     \cup {None}
      <4>1. purge # None /\ RowsOf(purge.job) \in SUBSET RunId
        BY <2>1, <2>3 DEF SelectRows
      <4>2. [purge EXCEPT !.ids = RowsOf(purge.job), !.step = "delete"]
              \in [job : Job, ids : SUBSET RunId, step : {"select", "delete", "logs"}]
        BY <2>2, <3>1, <4>1
      <4> QED BY <2>3, <4>2 DEF SelectRows
    <3> QED
      BY <2>3, <3>2 DEF SelectRows, TypeOK, lockVars, history
  <2>4. CASE DeleteRows
    <3>1. purge' \in [job : Job, ids : SUBSET RunId, step : {"select", "delete", "logs"}]
                     \cup {None}
      BY <2>2, <2>4 DEF DeleteRows
    <3>2. runs' \in [RunId -> Row \cup {None}]
      BY <2>4 DEF DeleteRows, TypeOK
    <3>3. deleted' \subseteq RunId
      BY <2>1, <2>4 DEF DeleteRows, TypeOK
    <3> QED
      BY <2>4, <3>1, <3>2, <3>3 DEF DeleteRows, TypeOK, lockVars, history
  <2>5. CASE DeleteLogs
    BY <2>5 DEF DeleteLogs, TypeOK, lockVars, history
  <2> QED
    BY <1>8, <2>3, <2>4, <2>5
<1> QED
  BY <1>1, <1>2, <1>3, <1>4, <1>5, <1>6, <1>7, <1>8, <1>9 DEF Next

---------------------------------------------------------------------------
\* Every step keeps the inductive invariant
LEMMA IInvInductive == IInv /\ [Next]_vars => IInv'
<1> SUFFICES ASSUME IInv, [Next]_vars PROVE IInv'
  OBVIOUS
<1>1. CASE Next
  <2>1. TypeOK'
    BY <1>1, StepKeepsTypes
  <2>2. ASSUME NEW p \in Process, Advance(p) \/ Notify(p) \/ Command(p) \/ Expire(p) \/ Crash(p)
        PROVE  LocalOK' /\ LockOK'
    BY <2>2, AdmissionKeepsLocks, PhaseKeepsLocks DEF Advance
  <2>3. ASSUME NEW p \in Process, NEW j \in Job, Request(p, j)
        PROVE  LocalOK' /\ LockOK'
    BY <2>3, AdmissionKeepsLocks
  <2>4. ASSUME UNCHANGED <<pc, run, lockVars>>
        PROVE  LocalOK' /\ LockOK'
    BY <2>4 DEF IInv, LocalOK, LockOK, HasRow, HoldsJob, HoldsSlot, lockVars
  <2>5. \/ \E o \in orphans : OrphanEnds(o)
        \/ \E j \in Job : RemoveJob(j) \/ ForgetByHand(j)
        \/ SelectRows \/ DeleteRows \/ DeleteLogs
        => UNCHANGED <<pc, run, lockVars>>
    BY DEF OrphanEnds, RemoveJob, ForgetByHand, SelectRows, DeleteRows, DeleteLogs
  <2>6. LocalOK' /\ LockOK'
    BY <1>1, <2>2, <2>3, <2>4, <2>5 DEF Next
  <2> QED BY <2>1, <2>6 DEF IInv
<1>2. CASE UNCHANGED vars
  <2>1. TypeOK'
    BY <1>2 DEF IInv, TypeOK, vars, lockVars, history, adminVars
  <2>2. LocalOK' /\ LockOK'
    BY <1>2 DEF IInv, LocalOK, LockOK, HasRow, HoldsJob, HoldsSlot, vars, lockVars
  <2> QED BY <2>1, <2>2 DEF IInv
<1> QED BY <1>1, <1>2

\* The inductive invariant holds throughout
LEMMA IInvInvariant == Spec => []IInv
<1> QED BY InitIInv, IInvInductive, PTL DEF Spec

\* The state of every run, row, lock and purge keeps its type
THEOREM TypeCorrect == Spec => []TypeOK
<1>1. IInv => TypeOK
  BY DEF IInv
<1> QED BY <1>1, IInvInvariant, PTL

\* No two invocations run the same job at once: the flock on job-<id>.lock
\* names its holder for as long as the holder is in RunWithMode
THEOREM ExclusiveJobs == Spec => []JobExclusion
<1>1. IInv => JobExclusion
  BY DEF IInv, LockOK, JobExclusion
<1> QED BY <1>1, IInvInvariant, PTL

---------------------------------------------------------------------------
Holders == {p \in Process : HoldsSlot(p)}

\* The map from the processes past admission to the slots they hold is an
\* injection, so there are no more of them than slots they may hold
LEMMA HoldersBound ==
  ASSUME IInv, NEW S \in SUBSET Slot, \A p \in Holders : run[p].slot \in S
  PROVE  /\ IsFiniteSet(S) /\ Cardinality(Holders) <= Cardinality(S)
         /\ IsFiniteSet(Slot) /\ Cardinality(Slot) = MaxParallelJobs
         /\ IsFiniteSet(Holders)
<1> DEFINE slotOf == [p \in Holders |-> run[p].slot]
<1>1. slotOf \in Injection(Holders, S)
  <2>1. slotOf \in [Holders -> S]
    OBVIOUS
  <2>2. \A p, q \in Holders : slotOf[p] = slotOf[q] => p = q
    BY DEF IInv, LockOK, Holders
  <2> QED BY <2>1, <2>2 DEF Injection, IsInjective
<1>2. IsFiniteSet(Slot) /\ Cardinality(Slot) = MaxParallelJobs
  BY FS_Interval, BackupRunAssumption DEF Slot
<1>3. IsFiniteSet(S)
  BY <1>2, FS_Subset
<1>4. Cardinality(Holders) <= Cardinality(S) /\ IsFiniteSet(Holders)
  BY <1>1, <1>3, FS_Injection
<1> QED BY <1>2, <1>3, <1>4

\* At most MaxParallelJobs invocations are past admission, however their
\* scans of the slot files interleave
THEOREM BoundedRuns == Spec => []SlotBound
<1>1. IInv => SlotBound
  <2> SUFFICES ASSUME IInv PROVE SlotBound
    OBVIOUS
  <2>1. \A p \in Holders : run[p].slot \in Slot
    BY DEF Holders, IInv, LockOK
  <2> QED BY <2>1, HoldersBound DEF SlotBound, Holders
<1> QED BY <1>1, IInvInvariant, PTL

---------------------------------------------------------------------------
\* Taking a free slot while holding the job's lock is admission
LEMMA TakingASlotAdmits ==
  ASSUME IInv, NEW p \in Process, pc[p] = "slotting",
         slotLock[run[p].slot] = None, Goto(p, "beginning", run[p])
  PROVE  Admission!Admit(p, run[p].job)
<1>1. /\ pc'[p] = "beginning" /\ run'[p] = run[p]
      /\ \A q \in Process \ {p} : pc'[q] = pc[q] /\ run'[q] = run[q]
  BY GotoMoves DEF IInv, TypeOK, Location
<1>2. run[p].slot \in Slot /\ HoldsJob(p) /\ ~HoldsSlot(p) /\ run[p].job \in Job
  BY DEF IInv, LocalOK, HoldsJob, HoldsSlot
<1>3. Active[p] = None
  BY <1>2 DEF Active
<1>4. \A q \in Process : Active[q] # run[p].job
  <2>1. \A q \in Process : HoldsSlot(q) => HoldsJob(q) /\ run[q].job # run[p].job
    BY <1>2 DEF IInv, LockOK, HoldsJob, HoldsSlot
  <2> QED BY <1>2, <2>1, BackupRunAssumption DEF Active
<1>5. Cardinality({q \in Process : Active[q] # None}) < MaxParallelJobs
  <2>1. {q \in Process : Active[q] # None} = Holders
    BY BackupRunAssumption DEF Active, Holders, IInv, LocalOK, HoldsSlot
  <2>2. \A q \in Holders : run[q].slot \in Slot \ {run[p].slot}
    BY BackupRunAssumption DEF Holders, IInv, LockOK
  <2>3. /\ Cardinality(Holders) <= Cardinality(Slot \ {run[p].slot})
        /\ IsFiniteSet(Slot) /\ Cardinality(Slot) = MaxParallelJobs
        /\ IsFiniteSet(Holders)
    BY <2>2, HoldersBound
  <2>4. Cardinality(Slot \ {run[p].slot}) = MaxParallelJobs - 1
    BY <1>2, <2>3, FS_RemoveElement
  <2>5. Cardinality(Holders) \in Nat
    BY <2>3, FS_CardinalityType
  <2>6. Cardinality(Holders) < MaxParallelJobs
    BY <2>3, <2>4, <2>5, BackupRunAssumption
  <2> QED BY <2>1, <2>6
<1>6. Active' = [Active EXCEPT ![p] = run[p].job]
  <2>1. \A q \in Process \ {p} : HoldsSlot(q)' <=> HoldsSlot(q)
    BY <1>1 DEF HoldsSlot
  <2>2. HoldsSlot(p)'
    BY <1>1 DEF HoldsSlot
  <2> QED BY <1>1, <2>1, <2>2 DEF Active
<1>7. ASSUME NEW S PROVE Admission!Cardinality(S) = Cardinality(S)
  BY DEF Admission!Cardinality, Cardinality
<1> QED BY <1>3, <1>4, <1>5, <1>6, <1>7 DEF Admission!Admit

\* A step of p from a location that holds a slot to one that does not
LEMMA GivingASlotBackLeaves ==
  ASSUME IInv, NEW p \in Process, HoldsSlot(p), NEW l \in {"idle", "unlocking"},
         NEW r \in LocalRun, Goto(p, l, r)
  PROVE  Admission!Leave(p)
<1>1. /\ pc'[p] = l
      /\ \A q \in Process \ {p} : pc'[q] = pc[q] /\ run'[q] = run[q]
  BY GotoMoves DEF IInv, Location
<1>2. Active[p] # None
  BY BackupRunAssumption DEF Active, IInv, LocalOK, HoldsSlot
<1>3. \A q \in Process \ {p} : HoldsSlot(q)' <=> HoldsSlot(q)
  BY <1>1 DEF HoldsSlot
<1>4. ~HoldsSlot(p)'
  BY <1>1 DEF HoldsSlot
<1>5. Active' = [Active EXCEPT ![p] = None]
  BY <1>1, <1>3, <1>4 DEF Active
<1> QED BY <1>2, <1>5 DEF Admission!Leave

\* The steps before, at and after admission
LEMMA AdmissionStepRefines ==
  ASSUME IInv, NEW p \in Process,
         \/ \E j \in Job : Request(p, j)
         \/ AcquireJob(p) \/ AcquireSlot(p) \/ ReleaseSlot(p) \/ ReleaseJob(p)
         \/ Crash(p)
  PROVE  Active' = Active \/ Admission!Leave(p) \/ \E j \in Job : Admission!Admit(p, j)
<1>r. run[p] \in LocalRun /\ NoRun \in LocalRun
      /\ \A j \in Job : [NoRun EXCEPT !.job = j] \in LocalRun
  <2>1. \A r \in LocalRun, j \in Job : [r EXCEPT !.job = j] \in LocalRun
    BY DEF LocalRun
  <2> QED BY <2>1, NoRunType DEF IInv, TypeOK
<1>1. CASE \E j \in Job : Request(p, j)
  BY <1>1, <1>r, StepKeepsActive DEF Request, HoldsSlot, Location
<1>2. CASE AcquireJob(p)
  BY <1>2, <1>r, StepKeepsActive DEF AcquireJob, HoldsSlot, Location
<1>3. CASE AcquireSlot(p)
  <2>1. pc[p] = "slotting" /\ run[p].job \in Job /\ ~HoldsSlot(p)
    BY <1>3 DEF AcquireSlot, IInv, LocalOK, HoldsSlot
  <2>2. CASE slotLock[run[p].slot] = None /\ Goto(p, "beginning", run[p])
    BY <2>1, <2>2, TakingASlotAdmits
  <2>3. CASE /\ run[p].slot + 1 \in Slot
             /\ Goto(p, "slotting", [run[p] EXCEPT !.slot = run[p].slot + 1])
    <3>1. [run[p] EXCEPT !.slot = run[p].slot + 1] \in LocalRun
      BY <1>r, <2>3 DEF LocalRun, Slot
    <3> QED BY <2>1, <2>3, <3>1, StepKeepsActive DEF Location
  <2>4. CASE Goto(p, "unlocking", run[p])
    BY <2>1, <2>4, <1>r, StepKeepsActive DEF Location
  <2> QED BY <1>3, <2>2, <2>3, <2>4 DEF AcquireSlot
<1>4. CASE ReleaseSlot(p)
  BY <1>4, <1>r, GivingASlotBackLeaves DEF ReleaseSlot, HoldsSlot
<1>5. CASE ReleaseJob(p)
  BY <1>5, <1>r, StepKeepsActive DEF ReleaseJob, HoldsSlot, Location
<1>6. CASE Crash(p)
  <2>1. Goto(p, "idle", NoRun)
    BY <1>6 DEF Crash
  <2>2. CASE HoldsSlot(p)
    BY <2>1, <2>2, <1>r, GivingASlotBackLeaves
  <2>3. CASE ~HoldsSlot(p)
    BY <2>1, <2>3, <1>r, StepKeepsActive DEF Location
  <2> QED BY <2>2, <2>3
<1> QED
  BY <1>1, <1>2, <1>3, <1>4, <1>5, <1>6

\* The lock files implement JobAdmission: a process is past admission only if
\* no other process backs up its job and fewer than MaxParallelJobs back up
\* anything at the moment it is admitted
THEOREM ImplementsAdmission == Spec => AdmissionSpec
<1>1. Init => Admission!Init
  BY DEF Init, Admission!Init, Active, HoldsSlot
<1>2. IInv /\ [Next]_vars => [Admission!Next]_Active
  <2> SUFFICES ASSUME IInv, [Next]_vars PROVE Admission!Next \/ Active' = Active
    OBVIOUS
  <2>1. ASSUME NEW p \in Process, Advance(p) \/ Notify(p) \/ Command(p) \/ Expire(p) \/ Crash(p)
        PROVE  Admission!Next \/ Active' = Active
    BY <2>1, AdmissionStepRefines, PhaseKeepsLocks DEF Advance, Admission!Next
  <2>2. ASSUME NEW p \in Process, NEW j \in Job, Request(p, j)
        PROVE  Admission!Next \/ Active' = Active
    BY <2>2, AdmissionStepRefines DEF Admission!Next
  <2>3. ASSUME UNCHANGED <<pc, run>>
        PROVE  Active' = Active
    BY <2>3 DEF Active, HoldsSlot
  <2>4. \/ \E o \in orphans : OrphanEnds(o)
        \/ \E j \in Job : RemoveJob(j) \/ ForgetByHand(j)
        \/ SelectRows \/ DeleteRows \/ DeleteLogs
        \/ UNCHANGED vars
        => UNCHANGED <<pc, run>>
    BY DEF OrphanEnds, RemoveJob, ForgetByHand, SelectRows, DeleteRows, DeleteLogs, vars
  <2> QED BY <2>1, <2>2, <2>3, <2>4 DEF Next
<1> QED
  BY <1>1, <1>2, IInvInvariant, PTL DEF Spec, AdmissionSpec, Admission!Spec
=============================================================================
