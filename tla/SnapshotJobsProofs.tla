-------------------------- MODULE SnapshotJobsProofs --------------------------
(***************************************************************************)
(* What SnapshotJobs guarantees for any number of jobs, sections and paths.*)
(* Type correctness holds in general.  Everything else is proved for jobs  *)
(* that own their paths (OwnPaths), from one inductive invariant that ties *)
(* the point a thread has reached to the files it has written so far.      *)
(***************************************************************************)
EXTENDS SnapshotJobs, FiniteSetTheorems, TLAPS

\* A thread that has been started writes to a path of the file system.
DestIsPath == \A j \in Job : thr[j].pc # "none" => thr[j].dest \in Path

TypeInv == TypeOK /\ DestIsPath

\* The points of a thread that has not published anything.
Unpublished == {"none", "step", "query", "prepare", "open", "write", "replace", "fail"}

\* A thread writes to a destination that its job was given.
DestIsTarget(j) == thr[j].pc # "none" => /\ thr[j].encryption \in Encryption
                                         /\ thr[j].dest \in Target[j][thr[j].encryption]

\* The job store is in step with the thread.
StoreInStep(j) == /\ thr[j].pc \in {"none", "dead"} => jobs[j] = None
                  /\ thr[j].pc \in Alive => Status(j) = "running"
                  /\ thr[j].pc = "done" => Status(j) \in {"completed", "failed"}

\* What the thread has written is still there when it goes on.
WrittenSoFar(j) == /\ thr[j].pc = "write" => fs[Tmp(j)] = Empty
                   /\ thr[j].pc = "replace" => fs[Tmp(j)] = j
                   /\ thr[j].pc = "complete" => fs[thr[j].dest] = j

\* What a completed job reports is what its thread has done.
ReportIsThreads(j) == Status(j) = "completed" =>
                          /\ jobs[j].file_path = thr[j].dest
                          /\ fs[thr[j].dest] = j
                          /\ jobs[j].sections_collected = Cardinality(thr[j].payload)
                          /\ jobs[j].sections_failed = thr[j].sections_failed

\* No snapshot is there before it is published, nor after its job has failed.
NothingEarly(j) == thr[j].pc \in Unpublished \/ Status(j) = "failed"
                       => \A p \in SnapshotPath : fs[p] # j

\* A section is collected or has failed, and not before its turn.
SectionsOnce(j) == /\ thr[j].sections_failed \cap thr[j].payload = {}
                   /\ thr[j].pc \in {"none", "step", "query"} =>
                         \A i \in thr[j].payload \cup thr[j].sections_failed : i < thr[j].idx

JobInv(j) == /\ DestIsTarget(j)
             /\ StoreInStep(j)
             /\ WrittenSoFar(j)
             /\ ReportIsThreads(j)
             /\ NothingEarly(j)
             /\ SectionsOnce(j)

IInv == /\ TypeInv
        /\ NoTornSnapshot
        /\ \A j \in Job : JobInv(j)
-----------------------------------------------------------------------------
(* Type correctness. *)

\* A set of sections can be counted, and there are at most NSections.
LEMMA SectionsAreFew ==
    ASSUME NEW S \in SUBSET Section
    PROVE  IsFiniteSet(S) /\ Cardinality(S) \in 0 .. NSections
<1>1. /\ IsFiniteSet(Section)
      /\ Cardinality(Section) = NSections
  BY FS_Interval, JobsAssumption DEF Section
<1>2. IsFiniteSet(S) /\ Cardinality(S) <= Cardinality(Section)
  BY <1>1, FS_Subset
<1>3. Cardinality(S) \in Nat
  BY <1>2, FS_CardinalityType
<1> QED
  BY <1>1, <1>2, <1>3, JobsAssumption

\* What Goto changes and what it leaves alone.
LEMMA GotoMoves ==
    ASSUME TypeOK, NEW j \in Job, NEW l, Goto(j, l)
    PROVE  /\ thr'[j].pc = l
           /\ thr'[j].dest = thr[j].dest
           /\ thr'[j].encryption = thr[j].encryption
           /\ thr'[j].idx = thr[j].idx
           /\ thr'[j].payload = thr[j].payload
           /\ thr'[j].sections_failed = thr[j].sections_failed
           /\ \A k \in Job \ {j} : thr'[k] = thr[k]
           /\ l \in PC => thr' \in [Job -> Thread]
  BY DEF TypeOK, Goto, Thread

\* The steps of a thread that prepare, write and publish its file.
FileStep(j) == Prepare(j) \/ OpenTmp(j) \/ WriteTmp(j) \/ ReplaceDest(j)

\* A step on the file is a Goto of a live thread, to another point of its life.
LEMMA FileStepMoves ==
    ASSUME TypeInv, NEW j \in Job, FileStep(j)
    PROVE  /\ thr[j].pc \in {"prepare", "open", "write", "replace"}
           /\ thr[j].dest \in Path
           /\ TmpOf[thr[j].dest] \in Path \ SnapshotPath
           /\ \E l \in {"open", "write", "replace", "complete", "fail"} : Goto(j, l)
           /\ UNCHANGED <<jobs, restarts>>
<1>1. thr[j].dest \in Path
  BY DEF FileStep, Prepare, OpenTmp, WriteTmp, ReplaceDest, TypeInv, DestIsPath, Alive
<1> QED
  BY <1>1, JobsAssumption DEF FileStep, Prepare, OpenTmp, WriteTmp, ReplaceDest

\* Every action keeps the types, and a started thread's destination a path.
LEMMA TypeInvInductive == TypeInv /\ [Next]_vars => TypeInv'
<1> SUFFICES ASSUME TypeInv, [Next]_vars
             PROVE  TypeInv'
  OBVIOUS
<1> USE DEF TypeInv, TypeOK
<1>1. CASE UNCHANGED vars
  BY <1>1 DEF vars, DestIsPath
<1>2. CASE Restart
  <2>1. ASSUME NEW t \in Thread
        PROVE  [t EXCEPT !.pc = "dead"] \in Thread
    BY DEF Thread, PC
  <2>2. thr' \in [Job -> Thread]
    BY <1>2, <2>1 DEF Restart
  <2>3. DestIsPath'
    BY <1>2 DEF Restart, DestIsPath, Alive, Thread
  <2> QED
    BY <1>2, <2>2, <2>3, JobsAssumption DEF Restart
<1>3. ASSUME NEW j \in Job, CreateSnapshot(j)
      PROVE  TypeInv'
  <2>1. PICK e \in Encryption : \E d \in Target[j][e] :
           thr' = [thr EXCEPT ![j].pc = "step", ![j].dest = d, ![j].encryption = e]
    BY <1>3 DEF CreateSnapshot
  <2>2. PICK d \in Target[j][e] :
           thr' = [thr EXCEPT ![j].pc = "step", ![j].dest = d, ![j].encryption = e]
    BY <2>1
  <2>3. d \in Path
    BY JobsAssumption
  <2>4. jobs' \in [Job -> JobRecord \cup {None}]
    BY <1>3, JobsAssumption DEF CreateSnapshot, create_job, JobRecord
  <2>5. ASSUME NEW t \in Thread
        PROVE  [t EXCEPT !.pc = "step", !.dest = d, !.encryption = e] \in Thread
    BY <2>3 DEF Thread, PC, Alive
  <2>6. thr' \in [Job -> Thread]
    BY <2>2, <2>5
  <2>7. DestIsPath'
    BY <2>2, <2>3 DEF Thread, DestIsPath
  <2> QED
    BY <1>3, <2>4, <2>6, <2>7 DEF CreateSnapshot
<1>4. ASSUME NEW j \in Job, StartSection(j)
      PROVE  TypeInv'
  <2>1. thr[j].idx \in 0 .. NSections
    BY DEF Thread
  <2>2. jobs' \in [Job -> JobRecord \cup {None}]
    <3>1. ASSUME NEW r \in JobRecord
          PROVE  [r EXCEPT !.step_index = thr[j].idx] \in JobRecord
      BY <2>1 DEF JobRecord
    <3> QED
      BY <1>4, <3>1 DEF StartSection, update_job_step
  <2>3. DestIsPath' /\ thr' \in [Job -> Thread]
    BY <1>4, GotoMoves DEF StartSection, PC, Alive, DestIsPath
  <2> QED
    BY <1>4, <2>2, <2>3 DEF StartSection
<1>5. ASSUME NEW j \in Job, QuerySection(j)
      PROVE  TypeInv'
  <2>1. thr' \in [Job -> Thread]
    <3>1. PICK got \in {"rows", "nothing", "exception"} : thr' =
             [thr EXCEPT
                ![j].payload = IF got = "rows" THEN @ \cup {thr[j].idx} ELSE @,
                ![j].sections_failed = IF got = "exception" THEN @ \cup {thr[j].idx} ELSE @,
                ![j].idx = IF @ < NSections THEN @ + 1 ELSE @,
                ![j].pc = IF thr[j].idx < NSections THEN "step" ELSE "prepare"]
      BY <1>5 DEF QuerySection
    <3> DEFINE p == IF got = "rows" THEN thr[j].payload \cup {thr[j].idx} ELSE thr[j].payload
               f == IF got = "exception" THEN thr[j].sections_failed \cup {thr[j].idx}
                    ELSE thr[j].sections_failed
               i == IF thr[j].idx < NSections THEN thr[j].idx + 1 ELSE thr[j].idx
               l == IF thr[j].idx < NSections THEN "step" ELSE "prepare"
    <3>2. thr[j] \in Thread /\ thr[j].idx \in 1 .. NSections
          /\ thr[j].payload \in SUBSET Section /\ thr[j].sections_failed \in SUBSET Section
      BY DEF Thread
    <3>3. p \in SUBSET Section /\ f \in SUBSET Section /\ i \in 1 .. NSections /\ l \in PC
      BY <3>2, JobsAssumption DEF Section, PC, Alive
    <3>4. thr' = [thr EXCEPT ![j] =
                    [thr[j] EXCEPT !.payload = p, !.sections_failed = f, !.idx = i, !.pc = l]]
      BY <3>1, <3>2 DEF Thread
    <3> HIDE DEF p, f, i, l
    <3>5. [thr[j] EXCEPT !.payload = p, !.sections_failed = f, !.idx = i, !.pc = l] \in Thread
      BY <3>2, <3>3 DEF Thread
    <3> QED
      BY <3>4, <3>5
  <2>2. DestIsPath'
    BY <1>5 DEF QuerySection, PC, Alive, DestIsPath, Thread
  <2> QED
    BY <1>5, <2>1, <2>2 DEF QuerySection
<1>6. ASSUME NEW j \in Job, FileStep(j)
      PROVE  TypeInv'
  <2>1. fs[Tmp(j)] \in Job \cup {None, Empty, Torn}
    BY <1>6, FileStepMoves DEF Tmp
  <2>2. fs' \in [Path -> Job \cup {None, Empty, Torn}]
    BY <1>6, <2>1 DEF FileStep, Prepare, OpenTmp, WriteTmp, ReplaceDest
  <2>3. PICK l \in {"open", "write", "replace", "complete", "fail"} : Goto(j, l)
    BY <1>6, FileStepMoves
  <2>4. DestIsPath' /\ thr' \in [Job -> Thread]
    BY <1>6, <2>3, FileStepMoves, GotoMoves DEF PC, Alive, DestIsPath
  <2> QED
    BY <1>6, <2>2, <2>4, FileStepMoves
<1>7. ASSUME NEW j \in Job, CompleteJob(j)
      PROVE  TypeInv'
  <2>1. Cardinality(thr[j].payload) \in 0 .. NSections
    BY SectionsAreFew DEF Thread
  <2>2. thr[j].dest \in Path \cup {None} /\ thr[j].sections_failed \in SUBSET Section
    BY DEF Thread
  <2>3. ASSUME NEW r \in JobRecord
        PROVE  [r EXCEPT !.status = "completed", !.file_path = thr[j].dest,
                         !.sections_collected = Cardinality(thr[j].payload),
                         !.sections_failed = thr[j].sections_failed] \in JobRecord
    BY <2>1, <2>2 DEF JobRecord
  <2>4. jobs' \in [Job -> JobRecord \cup {None}]
    BY <1>7, <2>3 DEF CompleteJob, complete_job
  <2>5. DestIsPath' /\ thr' \in [Job -> Thread]
    BY <1>7, GotoMoves DEF CompleteJob, PC, Alive, DestIsPath
  <2> QED
    BY <1>7, <2>4, <2>5 DEF CompleteJob
<1>8. ASSUME NEW j \in Job, FailJob(j)
      PROVE  TypeInv'
  <2>1. jobs' \in [Job -> JobRecord \cup {None}]
    BY <1>8 DEF FailJob, fail_job, JobRecord
  <2>2. DestIsPath' /\ thr' \in [Job -> Thread]
    BY <1>8, GotoMoves DEF FailJob, PC, Alive, DestIsPath
  <2> QED
    BY <1>8, <2>1, <2>2 DEF FailJob
<1> QED
  BY <1>1, <1>2, <1>3, <1>4, <1>5, <1>6, <1>7, <1>8 DEF Next, WorkerStep, FileStep

LEMMA TypeInvInitially == Init => TypeInv
  BY JobsAssumption
  DEF Init, TypeInv, TypeOK, DestIsPath, Alive, NewThread, Thread, PC

\* The job store, the threads and the files always have the form that the declarations say.
THEOREM TypeCorrect == Spec => []TypeOK
<1>1. TypeInv => TypeOK
  BY DEF TypeInv
<1> QED
  BY <1>1, TypeInvInitially, TypeInvInductive, PTL DEF Spec
-----------------------------------------------------------------------------
(* Jobs that own their paths. *)

\* The paths of two started jobs are four different ones.
LEMMA PathsApart ==
    ASSUME OwnPaths, IInv, NEW j \in Job, thr[j].pc # "none"
    PROVE  /\ thr[j].dest \in SnapshotPath
           /\ Tmp(j) \in Path \ SnapshotPath
           /\ \A k \in Job \ {j} : thr[k].pc # "none" =>
                 /\ thr[j].dest # thr[k].dest
                 /\ Tmp(j) # Tmp(k)
<1>1. \A k \in Job : thr[k].pc # "none" =>
         /\ thr[k].encryption \in Encryption /\ thr[k].dest \in Target[k][thr[k].encryption]
  BY DEF IInv, JobInv, DestIsTarget
<1>2. thr[j].dest \in SnapshotPath
  BY <1>1 DEF OwnPaths
<1>3. Tmp(j) \in Path \ SnapshotPath
  BY <1>2, JobsAssumption DEF Tmp, SnapshotPath
<1>4. ASSUME NEW k \in Job \ {j}, thr[k].pc # "none"
      PROVE  thr[j].dest # thr[k].dest /\ Tmp(j) # Tmp(k)
  BY <1>1, <1>4 DEF OwnPaths, Tmp
<1> QED
  BY <1>2, <1>3, <1>4

\* What one thread does leaves the invariant of every other job alone.
LEMMA OthersKeep ==
    ASSUME OwnPaths, IInv, NEW j \in Job, thr[j].pc # "none",
           \A p \in Path : fs'[p] # fs[p] => p = Tmp(j) \/ (p = thr[j].dest /\ fs'[p] = j),
           NEW k \in Job \ {j}, thr'[k] = thr[k], jobs'[k] = jobs[k]
    PROVE  JobInv(k)'
<1>1. CASE thr[k].pc = "none"
  BY <1>1, PathsApart
  DEF IInv, JobInv, DestIsTarget, StoreInStep, WrittenSoFar, ReportIsThreads, NothingEarly,
      SectionsOnce, Status, Tmp, SnapshotPath
<1>2. CASE thr[k].pc # "none"
  <2>1. fs'[thr[k].dest] = fs[thr[k].dest] /\ fs'[Tmp(k)] = fs[Tmp(k)]
    BY <1>2, PathsApart DEF SnapshotPath
  <2>2. \A p \in SnapshotPath : fs'[p] = fs[p] \/ fs'[p] = j
    BY PathsApart DEF SnapshotPath
  <2>3. JobInv(k)
    BY DEF IInv
  <2> QED
    BY <2>1, <2>2, <2>3
    DEF JobInv, DestIsTarget, StoreInStep, WrittenSoFar, ReportIsThreads, NothingEarly,
        SectionsOnce, Status, Tmp
<1> QED
  BY <1>1, <1>2

\* Nor does it tear a snapshot.
LEMMA NoneTorn ==
    ASSUME OwnPaths, IInv, NEW j \in Job, thr[j].pc # "none",
           \A p \in Path : fs'[p] # fs[p] => p = Tmp(j) \/ (p = thr[j].dest /\ fs'[p] = j)
    PROVE  NoTornSnapshot'
  BY PathsApart, JobsAssumption DEF IInv, NoTornSnapshot, SnapshotPath

LEMMA CreateKeeps ==
    ASSUME OwnPaths, IInv, TypeInv', NEW j \in Job, CreateSnapshot(j)
    PROVE  IInv'
<1>1. PICK e \in Encryption : \E d \in Target[j][e] :
         thr' = [thr EXCEPT ![j].pc = "step", ![j].dest = d, ![j].encryption = e]
  BY DEF CreateSnapshot
<1>2. PICK d \in Target[j][e] :
         thr' = [thr EXCEPT ![j].pc = "step", ![j].dest = d, ![j].encryption = e]
  BY <1>1
<1>3. /\ thr'[j].pc = "step" /\ thr'[j].dest = d /\ thr'[j].encryption = e
      /\ thr'[j].payload = thr[j].payload /\ thr'[j].sections_failed = thr[j].sections_failed
      /\ thr'[j].idx = thr[j].idx
      /\ \A k \in Job \ {j} : thr'[k] = thr[k]
  BY <1>2 DEF IInv, TypeInv, TypeOK, Thread
<1>4. /\ thr[j].pc = "none" /\ fs' = fs
      /\ \A k \in Job \ {j} : jobs'[k] = jobs[k]
  BY DEF CreateSnapshot, create_job, IInv, TypeInv, TypeOK
<1>5. Status(j)' = "running"
  <2>1. jobs'[j] = [status |-> "running", step_index |-> 0, file_path |-> None,
                    sections_collected |-> 0, sections_failed |-> {}]
    BY DEF CreateSnapshot, create_job, IInv, TypeInv, TypeOK
  <2>2. jobs'[j] \in JobRecord
    BY <2>1, JobsAssumption DEF JobRecord
  <2> QED
    BY <2>1, <2>2, NoneIsNoRecord DEF Status
<1>6. JobInv(j)'
  BY <1>3, <1>4, <1>5
  DEF IInv, JobInv, DestIsTarget, StoreInStep, WrittenSoFar, ReportIsThreads, NothingEarly,
      SectionsOnce, Alive, Unpublished
<1>7. ASSUME NEW k \in Job \ {j}
      PROVE  JobInv(k)'
  BY <1>3, <1>4, <1>7
  DEF IInv, JobInv, DestIsTarget, StoreInStep, WrittenSoFar, ReportIsThreads, NothingEarly,
      SectionsOnce, Status, Tmp
<1>8. NoTornSnapshot'
  BY <1>4 DEF IInv, NoTornSnapshot
<1> QED
  BY <1>6, <1>7, <1>8 DEF IInv

LEMMA StartSectionKeeps ==
    ASSUME OwnPaths, IInv, TypeInv', NEW j \in Job, StartSection(j)
    PROVE  IInv'
<1> USE DEF IInv, TypeInv
<1>1. /\ thr[j].pc = "step" /\ fs' = fs
      /\ \A k \in Job \ {j} : jobs'[k] = jobs[k]
  BY DEF StartSection, update_job_step, TypeOK
<1>2. Goto(j, "query")
  BY DEF StartSection
<1>3. Status(j)' = "running"
  <2>1. Status(j) = "running"
    BY <1>1 DEF JobInv, StoreInStep, Alive
  <2>2. jobs[j] \in JobRecord
    BY <2>1 DEF Status, TypeOK
  <2>3. jobs'[j] = [jobs[j] EXCEPT !.step_index = thr[j].idx]
    BY <2>2, NoneIsNoRecord DEF StartSection, update_job_step, TypeOK
  <2>4. jobs'[j].status = "running" /\ jobs'[j] # None
    <3>1. thr[j].idx \in 0 .. NSections
      BY DEF TypeOK, Thread
    <3>2. jobs'[j] \in JobRecord
      BY <2>2, <2>3, <3>1 DEF JobRecord
    <3> QED
      BY <2>1, <2>2, <2>3, <3>2, NoneIsNoRecord DEF Status, JobRecord
  <2> QED
    BY <2>4 DEF Status
<1>4. JobInv(j)'
  BY <1>1, <1>2, <1>3, GotoMoves
  DEF JobInv, DestIsTarget, StoreInStep, WrittenSoFar, ReportIsThreads, NothingEarly,
      SectionsOnce, Alive, Unpublished
<1>5. ASSUME NEW k \in Job \ {j}
      PROVE  JobInv(k)'
  BY <1>1, <1>2, GotoMoves, OthersKeep
<1>6. NoTornSnapshot'
  BY <1>1 DEF NoTornSnapshot
<1> QED
  BY <1>4, <1>5, <1>6

LEMMA QuerySectionKeeps ==
    ASSUME OwnPaths, IInv, TypeInv', NEW j \in Job, QuerySection(j)
    PROVE  IInv'
<1> USE DEF IInv, TypeInv
<1>1. /\ thr[j].pc = "query" /\ fs' = fs /\ jobs' = jobs
  BY DEF QuerySection
<1>2. PICK got \in {"rows", "nothing", "exception"} : thr' =
         [thr EXCEPT
            ![j].payload = IF got = "rows" THEN @ \cup {thr[j].idx} ELSE @,
            ![j].sections_failed = IF got = "exception" THEN @ \cup {thr[j].idx} ELSE @,
            ![j].idx = IF @ < NSections THEN @ + 1 ELSE @,
            ![j].pc = IF thr[j].idx < NSections THEN "step" ELSE "prepare"]
  BY DEF QuerySection
<1>3. /\ thr'[j].pc = IF thr[j].idx < NSections THEN "step" ELSE "prepare"
      /\ thr'[j].dest = thr[j].dest /\ thr'[j].encryption = thr[j].encryption
      /\ thr'[j].payload =
            IF got = "rows" THEN thr[j].payload \cup {thr[j].idx} ELSE thr[j].payload
      /\ thr'[j].sections_failed =
            IF got = "exception" THEN thr[j].sections_failed \cup {thr[j].idx}
            ELSE thr[j].sections_failed
      /\ thr'[j].idx = IF thr[j].idx < NSections THEN thr[j].idx + 1 ELSE thr[j].idx
      /\ \A k \in Job \ {j} : thr'[k] = thr[k]
  BY <1>2 DEF TypeOK, Thread
<1>4. SectionsOnce(j)'
  <2>1. /\ thr[j].idx \in Int /\ thr[j].payload \subseteq Int
        /\ thr[j].sections_failed \subseteq Int /\ NSections \in Int
    BY JobsAssumption DEF TypeOK, Thread, Section
  <2>2. /\ thr[j].sections_failed \cap thr[j].payload = {}
        /\ \A i \in thr[j].payload \cup thr[j].sections_failed : i < thr[j].idx
    BY <1>1 DEF JobInv, SectionsOnce
  <2> QED
    BY <1>3, <2>1, <2>2 DEF SectionsOnce
<1>5. JobInv(j)'
  BY <1>1, <1>3, <1>4
  DEF JobInv, DestIsTarget, StoreInStep, WrittenSoFar, ReportIsThreads, NothingEarly,
      Alive, Unpublished, Status
<1>6. ASSUME NEW k \in Job \ {j}
      PROVE  JobInv(k)'
  BY <1>1, <1>3, OthersKeep
<1>7. NoTornSnapshot'
  BY <1>1 DEF NoTornSnapshot
<1> QED
  BY <1>5, <1>6, <1>7

\* The four steps on the file.  The rest of the step is the same for all of them.
LEMMA FileStepKeeps ==
    ASSUME OwnPaths, IInv, TypeInv', NEW j \in Job, FileStep(j)
    PROVE  IInv'
<1> USE DEF IInv, TypeInv
<1>1. PICK l \in {"open", "write", "replace", "complete", "fail"} : Goto(j, l)
  BY FileStepMoves
<1>2. /\ thr[j].pc \in {"prepare", "open", "write", "replace"}
      /\ thr[j].dest \in SnapshotPath /\ Tmp(j) \in Path \ SnapshotPath
      /\ jobs' = jobs
  BY FileStepMoves, PathsApart
<1>3. /\ WrittenSoFar(j)'
      /\ \A p \in Path : fs'[p] # fs[p] => p = Tmp(j) \/ (p = thr[j].dest /\ fs'[p] = j)
      /\ thr'[j].pc \in Unpublished => \A p \in SnapshotPath : fs'[p] = fs[p]
  <2>1. /\ thr'[j].pc = l /\ Tmp(j)' = Tmp(j) /\ thr'[j].dest = thr[j].dest
        /\ \A m : Goto(j, m) => thr'[j].pc = m
    BY <1>1, GotoMoves DEF Tmp
  <2>2. fs \in [Path -> Job \cup {None, Empty, Torn}]
    BY DEF TypeOK
  <2>3. /\ l = "write" => fs'[Tmp(j)] = Empty
        /\ l = "replace" => fs'[Tmp(j)] = j
        /\ l = "complete" => fs'[thr[j].dest] = j
        /\ \A p \in Path : fs'[p] # fs[p] => p = Tmp(j) \/ (p = thr[j].dest /\ fs'[p] = j)
        /\ l # "complete" => \A p \in SnapshotPath : fs'[p] = fs[p]
    <3> USE DEF SnapshotPath
    <3>1. CASE fs' = fs /\ l \in {"open", "fail"}
      BY <3>1
    <3>2. CASE OpenTmp(j) /\ l = "write"
      <4>1. fs' = [fs EXCEPT ![Tmp(j)] = Empty]
        BY <2>1, <3>2 DEF OpenTmp
      <4> QED
        BY <1>2, <2>2, <3>2, <4>1
    <3>3. CASE WriteTmp(j)
      <4>1. fs[Tmp(j)] = Empty
        BY <3>3 DEF WriteTmp, JobInv, WrittenSoFar
      <4>2. PICK c : fs' = [fs EXCEPT ![Tmp(j)] = c] /\ (l = "replace" => c = j)
                     /\ l \in {"replace", "fail"}
        BY <2>1, <3>3, <4>1 DEF WriteTmp
      <4> QED
        BY <1>2, <2>2, <4>2
    <3>4. CASE ReplaceDest(j) /\ l = "complete"
      <4>1. fs[Tmp(j)] = j /\ fs' = [fs EXCEPT ![Tmp(j)] = None, ![thr[j].dest] = fs[Tmp(j)]]
        BY <2>1, <3>4 DEF ReplaceDest, JobInv, WrittenSoFar
      <4> QED
        BY <1>2, <2>2, <3>4, <4>1
    <3> QED
      BY <2>1, <3>1, <3>2, <3>3, <3>4 DEF FileStep, Prepare, OpenTmp, ReplaceDest
  <2> QED
    BY <2>1, <2>3 DEF WrittenSoFar, Unpublished
<1>4. JobInv(j)'
  <2>1. Status(j) = "running" /\ Status(j)' = "running"
    BY <1>2 DEF JobInv, StoreInStep, Alive, Status
  <2>2. NothingEarly(j)'
    BY <1>2, <1>3, <2>1 DEF JobInv, NothingEarly, Unpublished
  <2>3. DestIsTarget(j)' /\ StoreInStep(j)' /\ SectionsOnce(j)' /\ ReportIsThreads(j)'
    BY <1>1, <1>2, <2>1, GotoMoves
    DEF JobInv, DestIsTarget, StoreInStep, SectionsOnce, ReportIsThreads, Alive
  <2> QED
    BY <1>3, <2>2, <2>3 DEF JobInv
<1>5. ASSUME NEW k \in Job \ {j}
      PROVE  JobInv(k)'
  BY <1>1, <1>2, <1>3, GotoMoves, OthersKeep
<1>6. NoTornSnapshot'
  BY <1>2, <1>3, NoneTorn
<1> QED
  BY <1>4, <1>5, <1>6

LEMMA CompleteKeeps ==
    ASSUME OwnPaths, IInv, TypeInv', NEW j \in Job, CompleteJob(j)
    PROVE  IInv' /\ Status(j)' = "completed"
<1> USE DEF IInv, TypeInv
<1>1. /\ thr[j].pc = "complete" /\ fs' = fs /\ Goto(j, "done")
      /\ \A k \in Job \ {j} : jobs'[k] = jobs[k]
  BY DEF CompleteJob, complete_job, TypeOK
<1>2. /\ jobs[j] \in JobRecord /\ jobs[j] # None
  BY <1>1, NoneIsNoRecord DEF JobInv, StoreInStep, Alive, Status, TypeOK
<1>3. /\ jobs'[j].status = "completed"
      /\ jobs'[j].file_path = thr[j].dest
      /\ jobs'[j].sections_collected = Cardinality(thr[j].payload)
      /\ jobs'[j].sections_failed = thr[j].sections_failed
  BY <1>2 DEF CompleteJob, complete_job, TypeOK, JobRecord
<1>4. jobs'[j] # None
  <2>1. jobs'[j] = [jobs[j] EXCEPT !.status = "completed", !.file_path = thr[j].dest,
                                   !.sections_collected = Cardinality(thr[j].payload),
                                   !.sections_failed = thr[j].sections_failed]
    BY <1>2 DEF CompleteJob, complete_job, TypeOK
  <2>2. Cardinality(thr[j].payload) \in 0 .. NSections
    BY SectionsAreFew DEF TypeOK, Thread
  <2>3. thr[j].dest \in Path \cup {None} /\ thr[j].sections_failed \in SUBSET Section
    BY DEF TypeOK, Thread
  <2>4. jobs'[j] \in JobRecord
    BY <1>2, <2>1, <2>2, <2>3 DEF JobRecord
  <2> QED
    BY <2>4, NoneIsNoRecord
<1>5. Status(j)' = "completed"
  BY <1>3, <1>4 DEF Status
<1>6. JobInv(j)'
  BY <1>1, <1>3, <1>5, GotoMoves
  DEF JobInv, DestIsTarget, StoreInStep, WrittenSoFar, ReportIsThreads, NothingEarly,
      SectionsOnce, Alive, Unpublished
<1>7. ASSUME NEW k \in Job \ {j}
      PROVE  JobInv(k)'
  BY <1>1, GotoMoves, OthersKeep
<1>8. NoTornSnapshot'
  BY <1>1 DEF NoTornSnapshot
<1> QED
  BY <1>5, <1>6, <1>7, <1>8

LEMMA FailKeeps ==
    ASSUME OwnPaths, IInv, TypeInv', NEW j \in Job, FailJob(j)
    PROVE  IInv' /\ Status(j)' = "failed"
<1> USE DEF IInv, TypeInv
<1>1. /\ thr[j].pc = "fail" /\ fs' = fs /\ Goto(j, "done")
      /\ \A k \in Job \ {j} : jobs'[k] = jobs[k]
  BY DEF FailJob, fail_job, TypeOK
<1>2. /\ jobs[j] \in JobRecord /\ jobs[j] # None
  BY <1>1, NoneIsNoRecord DEF JobInv, StoreInStep, Alive, Status, TypeOK
<1>3. Status(j)' = "failed"
  <2>1. jobs'[j] = [jobs[j] EXCEPT !.status = "failed"]
    BY <1>2 DEF FailJob, fail_job, TypeOK
  <2>2. jobs'[j] \in JobRecord /\ jobs'[j].status = "failed"
    BY <1>2, <2>1 DEF JobRecord
  <2> QED
    BY <2>2, NoneIsNoRecord DEF Status
<1>4. JobInv(j)'
  BY <1>1, <1>3, GotoMoves
  DEF JobInv, DestIsTarget, StoreInStep, WrittenSoFar, ReportIsThreads, NothingEarly,
      SectionsOnce, Alive, Unpublished
<1>5. ASSUME NEW k \in Job \ {j}
      PROVE  JobInv(k)'
  BY <1>1, GotoMoves, OthersKeep
<1>6. NoTornSnapshot'
  BY <1>1 DEF NoTornSnapshot
<1> QED
  BY <1>3, <1>4, <1>5, <1>6

LEMMA RestartKeeps ==
    ASSUME IInv, TypeInv', Restart
    PROVE  IInv'
<1> USE DEF IInv, TypeInv
<1>1. ASSUME NEW j \in Job
      PROVE  JobInv(j)'
  <2>1. /\ jobs'[j] = None /\ fs' = fs
        /\ thr'[j] = IF thr[j].pc = "none" THEN thr[j] ELSE [thr[j] EXCEPT !.pc = "dead"]
    BY DEF Restart
  <2>2. /\ thr'[j].pc = IF thr[j].pc = "none" THEN "none" ELSE "dead"
        /\ thr'[j].dest = thr[j].dest /\ thr'[j].encryption = thr[j].encryption
        /\ thr'[j].payload = thr[j].payload
        /\ thr'[j].sections_failed = thr[j].sections_failed
        /\ thr'[j].idx = thr[j].idx
    BY <2>1 DEF TypeOK, Thread
  <2> QED
    BY <2>1, <2>2
    DEF JobInv, DestIsTarget, StoreInStep, WrittenSoFar, ReportIsThreads, NothingEarly,
        SectionsOnce, Alive, Unpublished, Status
<1>2. NoTornSnapshot'
  BY DEF Restart, NoTornSnapshot
<1> QED
  BY <1>1, <1>2

LEMMA IInvInitially == Init => IInv
<1> SUFFICES ASSUME Init
             PROVE  IInv
  OBVIOUS
<1>1. ASSUME NEW j \in Job
      PROVE  JobInv(j)
  BY JobsAssumption
  DEF Init, NewThread, JobInv, DestIsTarget, StoreInStep, WrittenSoFar, ReportIsThreads,
      NothingEarly, SectionsOnce, Alive, Unpublished, Status, SnapshotPath
<1>2. NoTornSnapshot
  BY JobsAssumption DEF Init, NoTornSnapshot, SnapshotPath
<1> QED
  BY <1>1, <1>2, TypeInvInitially DEF IInv

LEMMA IInvInductive ==
    ASSUME OwnPaths
    PROVE  IInv /\ [Next]_vars => IInv'
<1> SUFFICES ASSUME IInv, [Next]_vars
             PROVE  IInv'
  OBVIOUS
<1>1. TypeInv'
  BY TypeInvInductive DEF IInv
<1>2. CASE UNCHANGED vars
  BY <1>1, <1>2
  DEF vars, IInv, JobInv, DestIsTarget, StoreInStep, WrittenSoFar, ReportIsThreads,
      NothingEarly, SectionsOnce, Status, Tmp, NoTornSnapshot
<1>3. CASE Next
  BY <1>1, <1>3, CreateKeeps, StartSectionKeeps, QuerySectionKeeps, FileStepKeeps,
     CompleteKeeps, FailKeeps, RestartKeeps
  DEF Next, WorkerStep, FileStep
<1> QED
  BY <1>2, <1>3

LEMMA IInvAlways ==
    ASSUME OwnPaths
    PROVE  Spec => []IInv
  BY IInvInitially, IInvInductive, PTL DEF Spec

\* Jobs that own their paths: whatever get_snapshot_status says of a completed job is true
\* of the file it names.
THEOREM ReportsAreTrue ==
    ASSUME OwnPaths
    PROVE  Spec => []ReportMatchesFile
<1>1. IInv => ReportMatchesFile
  BY DEF IInv, JobInv, ReportIsThreads, SectionsOnce, ReportMatchesFile
<1> QED
  BY <1>1, IInvAlways, PTL

\* Jobs that own their paths: at no moment does a path that the server reads hold a torn file.
THEOREM SnapshotsAreWhole ==
    ASSUME OwnPaths
    PROVE  Spec => []NoTornSnapshot
<1>1. IInv => NoTornSnapshot
  BY DEF IInv
<1> QED
  BY <1>1, IInvAlways, PTL

\* Jobs that own their paths: one that is reported failed has left no snapshot behind.
THEOREM FailuresLeaveNothing ==
    ASSUME OwnPaths
    PROVE  Spec => []FailedPublishesNothing
<1>1. IInv => FailedPublishesNothing
  BY DEF IInv, JobInv, NothingEarly, FailedPublishesNothing
<1> QED
  BY <1>1, IInvAlways, PTL

\* A plain .json name is given to plain snapshots only, as the default names are.
NamesTellEncryption ==
    \A j \in Job : \A e \in Encryption : \A p \in Target[j][e] : Suffix[p] = "json" => e = "none"

\* Jobs that own their paths, and whose names tell how they are encrypted: list_snapshots finds
\* every completed snapshot, after any number of other jobs.
THEOREM CompletedAreListed ==
    ASSUME OwnPaths, NamesTellEncryption
    PROVE  Spec => []CompletedIsListed
<1>1. ASSUME IInv, NEW j \in Job, Status(j) = "completed"
      PROVE  jobs[j].file_path \in Listing
  <2>1. /\ jobs[j].file_path = thr[j].dest /\ fs[thr[j].dest] = j
        /\ DestIsTarget(j) /\ StoreInStep(j)
    BY <1>1 DEF IInv, JobInv, ReportIsThreads
  <2>2. thr[j].pc # "none"
    BY <1>1, <2>1 DEF StoreInStep, Status
  <2>3. /\ thr[j].dest \in SnapshotPath
        /\ Suffix[thr[j].dest] = "json" => thr[j].encryption = "none"
    BY <2>1, <2>2, PathsApart, <1>1 DEF DestIsTarget, NamesTellEncryption
  <2>4. fs[thr[j].dest] # None
    BY <2>1, JobsAssumption
  <2>5. Suffix[thr[j].dest] = "json" => Parses(thr[j].dest)
    BY <2>1, <2>3 DEF Parses
  <2> QED
    BY <2>1, <2>3, <2>4, <2>5 DEF Listing, SnapshotPath
<1>2. IInv => CompletedIsListed
  BY <1>1 DEF CompletedIsListed
<1> QED
  BY <1>2, IInvAlways, PTL

\* Jobs that own their paths: once a client has been told an outcome it is told the same
\* until the server restarts.
THEOREM OutcomesAreFinal ==
    ASSUME OwnPaths
    PROVE  Spec => OutcomeIsFinal
<1>1. IInv /\ [Next]_vars
        => [\A j \in Job : Status(j) \in {"completed", "failed"} => jobs'[j] \in {jobs[j], None}]_vars
  <2> SUFFICES ASSUME IInv, Next, NEW j \in Job, Status(j) \in {"completed", "failed"}
               PROVE  jobs'[j] \in {jobs[j], None}
    OBVIOUS
  <2>1. jobs \in [Job -> JobRecord \cup {None}]
    BY DEF IInv, TypeInv, TypeOK
  <2>2. thr[j].pc = "done"
    <3>1. thr[j].pc \in PC
      BY DEF IInv, TypeInv, TypeOK, Thread
    <3> QED
      BY <3>1 DEF IInv, JobInv, StoreInStep, Status, PC, Alive
  <2>3. CASE Restart
    BY <2>3 DEF Restart
  <2>4. ASSUME NEW k \in Job, CreateSnapshot(k) \/ WorkerStep(k)
        PROVE  jobs'[j] = jobs[j]
    BY <2>1, <2>2, <2>4
    DEF CreateSnapshot, create_job, WorkerStep, StartSection, update_job_step, QuerySection,
        Prepare, OpenTmp, WriteTmp, ReplaceDest, CompleteJob, complete_job, FailJob, fail_job
  <2> QED
    BY <2>3, <2>4 DEF Next
<1> QED
  BY <1>1, IInvAlways, PTL DEF Spec, OutcomeIsFinal
-----------------------------------------------------------------------------
(* Refinement: the jobs implement SnapshotStore.                           *)

\* A job's phase depends on its own thread and record.
LEMMA PhaseKept ==
    ASSUME NEW k \in Job, thr'[k] = thr[k], jobs'[k] = jobs[k]
    PROVE  Phase(k)' = Phase(k)
  BY DEF Phase, Status

\* A step of one job maps to a step on the phase of that job.
LEMMA PhaseStep ==
    ASSUME NEW j \in Job, \A k \in Job \ {j} : thr'[k] = thr[k] /\ jobs'[k] = jobs[k]
    PROVE  [k \in Job |-> Phase(k)]' = [[k \in Job |-> Phase(k)] EXCEPT ![j] = Phase(j)']
  BY PhaseKept

\* The steps of a thread that leave the store as it is.
LEMMA StoreStutters ==
    ASSUME NEW j \in Job, \A k \in Job \ {j} : thr'[k] = thr[k] /\ jobs'[k] = jobs[k],
           Phase(j)' = Phase(j), \A p \in SnapshotPath : fs'[p] = fs[p]
    PROVE  UNCHANGED Store!vars
<1>1. [k \in Job |-> Phase(k)]' = [k \in Job |-> Phase(k)]
  BY PhaseStep
<1> QED
  BY <1>1 DEF Store!vars

LEMMA StoreStep ==
    ASSUME OwnPaths, IInv, IInv', Next
    PROVE  [Store!Next]_(Store!vars)
<1> USE DEF IInv, TypeInv
<1>1. CASE Restart
  <2>1. ASSUME NEW j \in Job
        PROVE  Phase(j)' = IF Phase(j) = "new" THEN "new" ELSE "lost"
    <3>1. thr'[j].pc = IF thr[j].pc = "none" THEN "none" ELSE "dead"
      BY <1>1 DEF Restart, TypeOK, Thread
    <3>2. Phase(j) = "new" <=> thr[j].pc = "none"
      BY DEF JobInv, StoreInStep, Phase
    <3> QED
      BY <3>1, <3>2 DEF Phase
  <2>2. Store!Restart
    BY <1>1, <2>1 DEF Store!Restart, Restart
  <2> QED
    BY <2>2 DEF Store!Next
<1>2. ASSUME NEW j \in Job, CreateSnapshot(j)
      PROVE  Store!Request(j)
  <2>1. /\ thr[j].pc = "none" /\ thr'[j].pc = "step" /\ fs' = fs
        /\ \A k \in Job \ {j} : thr'[k] = thr[k] /\ jobs'[k] = jobs[k]
    BY <1>2 DEF CreateSnapshot, create_job, TypeOK, Thread
  <2>2. Phase(j) = "new" /\ Phase(j)' = "running"
    BY <2>1 DEF Phase
  <2> QED
    BY <2>1, <2>2, PhaseStep DEF Store!Request
<1>3. ASSUME NEW j \in Job, StartSection(j) \/ QuerySection(j)
      PROVE  UNCHANGED Store!vars
  <2>1. /\ thr[j].pc \in {"step", "query"} /\ thr'[j].pc \in {"step", "query", "prepare"}
        /\ fs' = fs
        /\ \A k \in Job \ {j} : thr'[k] = thr[k] /\ jobs'[k] = jobs[k]
    BY <1>3 DEF StartSection, QuerySection, update_job_step, Goto, TypeOK, Thread
  <2>2. Phase(j)' = Phase(j)
    BY <2>1 DEF Phase
  <2> QED
    BY <2>1, <2>2, StoreStutters
<1>4. ASSUME NEW j \in Job, FileStep(j)
      PROVE  UNCHANGED Store!vars \/ \E p \in SnapshotPath : Store!Publish(j, p)
  <2>1. PICK l \in {"open", "write", "replace", "complete", "fail"} : Goto(j, l)
    BY <1>4, FileStepMoves
  <2>2. /\ thr[j].pc \in {"prepare", "open", "write", "replace"}
        /\ thr[j].dest \in SnapshotPath /\ Tmp(j) \in Path \ SnapshotPath
        /\ jobs' = jobs /\ thr'[j].pc = l /\ \A k \in Job \ {j} : thr'[k] = thr[k]
    BY <1>4, <2>1, FileStepMoves, PathsApart, GotoMoves
  <2>3. Phase(j) = "running"
    BY <2>2 DEF Phase
  <2>4. CASE l = "complete"
    <3>1. fs[Tmp(j)] = j /\ fs' = [fs EXCEPT ![Tmp(j)] = None, ![thr[j].dest] = fs[Tmp(j)]]
      BY <1>4, <2>2, <2>4, GotoMoves
      DEF FileStep, Prepare, OpenTmp, WriteTmp, ReplaceDest, JobInv, WrittenSoFar
    <3>2. fs \in [Path -> Job \cup {None, Empty, Torn}]
      BY DEF TypeOK
    <3>3. [p \in SnapshotPath |-> fs[p]]' = [[p \in SnapshotPath |-> fs[p]] EXCEPT ![thr[j].dest] = j]
      BY <2>2, <3>1, <3>2 DEF SnapshotPath
    <3>4. Phase(j)' = "published"
      BY <2>2, <2>4 DEF Phase
    <3> QED
      BY <2>2, <2>3, <3>3, <3>4, PhaseStep DEF Store!Publish
  <2>5. CASE l # "complete"
    <3>1. \A p \in SnapshotPath : fs'[p] = fs[p]
      <4>1. thr'[j].pc # "complete" /\ thr'[j].pc = l
        BY <2>2, <2>5
      <4>2. fs' = fs \/ \E c : fs' = [fs EXCEPT ![Tmp(j)] = c]
        BY <1>4, <4>1, GotoMoves DEF FileStep, Prepare, OpenTmp, WriteTmp, ReplaceDest
      <4> QED
        BY <2>2, <4>2 DEF SnapshotPath, TypeOK
    <3>2. Phase(j)' = "running"
      BY <2>2, <2>5 DEF Phase
    <3> QED
      BY <2>2, <2>3, <3>1, <3>2, StoreStutters
  <2> QED
    BY <2>4, <2>5
<1>5. ASSUME NEW j \in Job, CompleteJob(j)
      PROVE  Store!ReportCompleted(j)
  <2>1. /\ thr[j].pc = "complete" /\ thr'[j].pc = "done" /\ fs' = fs
        /\ \A k \in Job \ {j} : thr'[k] = thr[k] /\ jobs'[k] = jobs[k]
    BY <1>5 DEF CompleteJob, complete_job, Goto, TypeOK, Thread
  <2>2. Phase(j) = "published" /\ Phase(j)' = "completed"
    BY <1>5, <2>1, CompleteKeeps DEF Phase
  <2> QED
    BY <2>1, <2>2, PhaseStep DEF Store!ReportCompleted
<1>6. ASSUME NEW j \in Job, FailJob(j)
      PROVE  Store!ReportFailed(j)
  <2>1. /\ thr[j].pc = "fail" /\ thr'[j].pc = "done" /\ fs' = fs
        /\ \A k \in Job \ {j} : thr'[k] = thr[k] /\ jobs'[k] = jobs[k]
    BY <1>6 DEF FailJob, fail_job, Goto, TypeOK, Thread
  <2>2. Phase(j) = "running" /\ Phase(j)' = "failed"
    BY <1>6, <2>1, FailKeeps DEF Phase
  <2> QED
    BY <2>1, <2>2, PhaseStep DEF Store!ReportFailed
<1>7. ASSUME NEW j \in Job, FileStep(j)
      PROVE  [Store!Next]_(Store!vars)
  <2>1. CASE UNCHANGED Store!vars
    BY <2>1
  <2>2. CASE \E p \in SnapshotPath : Store!Publish(j, p)
    BY <2>2 DEF Store!Next
  <2> QED
    BY <1>4, <1>7, <2>1, <2>2
<1> QED
  BY <1>1, <1>2, <1>3, <1>5, <1>6, <1>7 DEF Next, WorkerStep, FileStep, Store!Next

\* Jobs that own their paths implement the store: a snapshot appears whole and at once, or
\* not at all.
THEOREM JobsImplementStore ==
    ASSUME OwnPaths
    PROVE  Spec => StoreSpec
<1>1. Init => Store!Init
  <2> SUFFICES ASSUME Init
               PROVE  Store!Init
    OBVIOUS
  <2>1. \A j \in Job : Phase(j) = "new"
    BY DEF Init, NewThread, Phase
  <2> QED
    BY <2>1 DEF Init, Store!Init, SnapshotPath
<1>2. IInv /\ IInv' /\ [Next]_vars => [Store!Next]_(Store!vars)
  <2> SUFFICES ASSUME IInv, IInv', [Next]_vars
               PROVE  [Store!Next]_(Store!vars)
    OBVIOUS
  <2>1. CASE UNCHANGED vars
    <3>1. \A j \in Job : Phase(j)' = Phase(j)
      BY <2>1, PhaseKept DEF vars
    <3>2. UNCHANGED Store!vars
      BY <2>1, <3>1 DEF vars, Store!vars
    <3> QED
      BY <3>2
  <2> QED
    BY <2>1, StoreStep
<1> QED
  BY <1>1, <1>2, IInvAlways, PTL DEF Spec, StoreSpec, Store!Spec
-----------------------------------------------------------------------------
(* Jobs that race for one file: no assumption on the paths.                *)

\* A job that has published, and one that has not managed to; the others have not ended yet.
Won(j) == thr[j].pc = "complete" \/ (thr[j].pc = "done" /\ Status(j) = "completed")

Lost(j) == thr[j].pc = "fail" \/ (thr[j].pc = "done" /\ Status(j) = "failed")

Underway(j) == thr[j].pc \in {"step", "query", "prepare", "open", "write", "replace"}

\* A completed job names the destination of its thread.
ReportNamesDest == \A j \in Job : Status(j) = "completed" => jobs[j].file_path = thr[j].dest

\* Of those that have published, the last one's file is there.
WinnerHasFile == \A j \in Job : Won(j) => \E k \in Job : Won(k) /\ fs[thr[k].dest] # None

\* Only a job that publishes takes a temporary file away.
TmpStays == (\A j \in Job : ~Won(j)) =>
                \A j \in Job : thr[j].pc \in {"write", "replace"} => fs[Tmp(j)] # None

\* A job loses to one that has published, or to one that is still under way.
LosesToSomeone ==
    ~IOErrors => \A j \in Job : Lost(j) => \E k \in Job : Won(k) \/ Underway(k)

RaceInv == /\ TypeInv
           /\ \A j \in Job : StoreInStep(j)
           /\ ReportNamesDest /\ WinnerHasFile /\ TmpStays /\ LosesToSomeone

\* What does not change a job leaves it where it was in the race.
LEMMA RaceOfOthers ==
    ASSUME NEW k \in Job, thr'[k] = thr[k], jobs'[k] = jobs[k]
    PROVE  /\ Won(k)' <=> Won(k)
           /\ Lost(k)' <=> Lost(k)
           /\ Underway(k)' <=> Underway(k)
           /\ StoreInStep(k)' <=> StoreInStep(k)
           /\ Status(k)' = Status(k) /\ Tmp(k)' = Tmp(k)
  BY DEF Won, Lost, Underway, StoreInStep, Status, Tmp

\* The steps before a job's file is touched.
EarlyStep(j) == CreateSnapshot(j) \/ StartSection(j) \/ QuerySection(j)

LEMMA EarlyStepMoves ==
    ASSUME RaceInv, NEW j \in Job, EarlyStep(j)
    PROVE  /\ fs' = fs /\ \A k \in Job \ {j} : thr'[k] = thr[k] /\ jobs'[k] = jobs[k]
           /\ thr[j].pc \in {"none", "step", "query"} /\ thr'[j].pc \in {"step", "query", "prepare"}
           /\ Status(j)' = "running"
<1> USE DEF RaceInv, TypeInv, TypeOK
<1>1. CASE CreateSnapshot(j)
  <2>1. jobs'[j] = [status |-> "running", step_index |-> 0, file_path |-> None,
                    sections_collected |-> 0, sections_failed |-> {}]
    BY <1>1 DEF CreateSnapshot, create_job
  <2>2. jobs'[j] \in JobRecord
    BY <2>1, JobsAssumption DEF JobRecord
  <2>3. Status(j)' = "running"
    BY <2>1, <2>2, NoneIsNoRecord DEF Status
  <2>4. thr[j].pc = "none" /\ thr'[j].pc = "step"
    BY <1>1 DEF CreateSnapshot, Thread
  <2> QED
    BY <1>1, <2>3, <2>4 DEF CreateSnapshot, create_job
<1>2. CASE StartSection(j)
  <2>1. Status(j) = "running" /\ thr[j].pc = "step"
    BY <1>2 DEF StoreInStep, Alive, StartSection
  <2>2. jobs[j] \in JobRecord /\ jobs[j] # None /\ jobs[j].status = "running"
    BY <2>1 DEF Status
  <2>3. jobs'[j] = [jobs[j] EXCEPT !.step_index = thr[j].idx]
    BY <1>2, <2>2 DEF StartSection, update_job_step
  <2>4. thr[j].idx \in 0 .. NSections
    BY DEF Thread
  <2>5. jobs'[j] \in JobRecord /\ jobs'[j].status = "running"
    BY <2>2, <2>3, <2>4 DEF JobRecord
  <2>6. Status(j)' = "running"
    BY <2>5, NoneIsNoRecord DEF Status
  <2> QED
    BY <1>2, <2>1, <2>6, GotoMoves DEF StartSection, update_job_step
<1>3. CASE QuerySection(j)
  <2>1. Status(j) = "running" /\ thr[j].pc = "query"
    BY <1>3 DEF StoreInStep, Alive, QuerySection
  <2>2. Status(j)' = Status(j)
    BY <1>3 DEF QuerySection, Status
  <2>3. thr'[j].pc \in {"step", "prepare"} /\ \A k \in Job \ {j} : thr'[k] = thr[k]
    BY <1>3 DEF QuerySection, Thread
  <2> QED
    BY <1>3, <2>1, <2>2, <2>3 DEF QuerySection
<1> QED
  BY <1>1, <1>2, <1>3 DEF EarlyStep

LEMMA EarlyStepRaces ==
    ASSUME RaceInv, TypeInv', NEW j \in Job, EarlyStep(j)
    PROVE  RaceInv'
<1>1. /\ fs' = fs /\ \A k \in Job \ {j} : thr'[k] = thr[k] /\ jobs'[k] = jobs[k]
      /\ thr[j].pc \in {"none", "step", "query"} /\ thr'[j].pc \in {"step", "query", "prepare"}
      /\ Status(j)' = "running"
  BY EarlyStepMoves
<1>2. ~Won(j) /\ ~Won(j)' /\ ~Lost(j)' /\ Underway(j)' /\ StoreInStep(j)'
  BY <1>1 DEF Won, Lost, Underway, StoreInStep, Alive
<1>3. \A k \in Job \ {j} : /\ Won(k)' <=> Won(k)
                           /\ Lost(k)' <=> Lost(k)
                           /\ StoreInStep(k)' <=> StoreInStep(k)
                           /\ Status(k)' = Status(k) /\ Tmp(k)' = Tmp(k)
  BY <1>1, RaceOfOthers
<1>4. \A k \in Job : StoreInStep(k)'
  BY <1>2, <1>3 DEF RaceInv
<1>5. ReportNamesDest'
  BY <1>1, <1>3 DEF RaceInv, ReportNamesDest
<1>6. WinnerHasFile'
  BY <1>1, <1>2, <1>3 DEF RaceInv, WinnerHasFile
<1>7. TmpStays'
  BY <1>1, <1>2, <1>3 DEF RaceInv, TmpStays
<1>8. LosesToSomeone'
  BY <1>2 DEF LosesToSomeone
<1> QED
  BY <1>4, <1>5, <1>6, <1>7, <1>8 DEF RaceInv

\* What a step on the file leaves: a file that is gone has been published elsewhere.
LEMMA FileStepEffect ==
    ASSUME RaceInv, NEW j \in Job, FileStep(j)
    PROVE  /\ thr'[j].pc \in {"open", "write", "replace", "complete", "fail"}
           /\ thr'[j].pc # "complete" => \A p \in Path : fs[p] # None => fs'[p] # None
           /\ thr'[j].pc = "write" => fs'[Tmp(j)] # None
           /\ thr'[j].pc = "replace" => thr[j].pc = "write"
           /\ thr'[j].pc = "complete" => fs'[thr[j].dest] # None
           /\ thr'[j].pc = "fail" /\ ~IOErrors => thr[j].pc = "replace" /\ ~CanReplace(j)
<1>1. PICK l \in {"open", "write", "replace", "complete", "fail"} : Goto(j, l)
  BY FileStepMoves DEF RaceInv
<1>2. /\ thr[j].pc \in {"prepare", "open", "write", "replace"}
      /\ thr[j].dest \in Path /\ Tmp(j) \in Path
  BY FileStepMoves DEF RaceInv, Tmp
<1>3. fs \in [Path -> Job \cup {None, Empty, Torn}] /\ thr'[j].pc = l
      /\ \A m : Goto(j, m) => m = l
  BY <1>1, GotoMoves DEF RaceInv, TypeInv, TypeOK
<1>4. CASE Prepare(j)
  BY <1>3, <1>4 DEF Prepare
<1>5. CASE OpenTmp(j)
  BY <1>2, <1>3, <1>5, JobsAssumption DEF OpenTmp
<1>6. CASE WriteTmp(j)
  <2>1. PICK c : fs' = [fs EXCEPT ![Tmp(j)] = c] /\ c \in {j, Torn, fs[Tmp(j)]}
    BY <1>6 DEF WriteTmp
  <2>2. \A p \in Path : fs[p] # None => fs'[p] # None
    BY <1>2, <1>3, <2>1, JobsAssumption
  <2> QED
    BY <1>3, <1>6, <2>2 DEF WriteTmp
<1>7. CASE ReplaceDest(j)
  BY <1>2, <1>3, <1>7 DEF ReplaceDest, CanReplace
<1> QED
  BY <1>4, <1>5, <1>6, <1>7 DEF FileStep

LEMMA FileStepRaces ==
    ASSUME RaceInv, TypeInv', NEW j \in Job, FileStep(j)
    PROVE  RaceInv'
<1>1. PICK l \in {"open", "write", "replace", "complete", "fail"} : Goto(j, l)
  BY FileStepMoves DEF RaceInv
<1>2. /\ thr[j].pc \in {"prepare", "open", "write", "replace"} /\ jobs' = jobs
      /\ thr'[j].dest = thr[j].dest /\ Tmp(j)' = Tmp(j)
      /\ \A k \in Job \ {j} : thr'[k] = thr[k]
  BY <1>1, FileStepMoves, GotoMoves DEF RaceInv, TypeInv, Tmp
<1>3. /\ \A k \in Job \ {j} : /\ Won(k)' <=> Won(k)
                              /\ Lost(k)' <=> Lost(k)
                              /\ Underway(k)' <=> Underway(k)
                              /\ StoreInStep(k)' <=> StoreInStep(k)
                              /\ Status(k)' = Status(k) /\ Tmp(k)' = Tmp(k)
      /\ \A k \in Job : Status(k)' = Status(k)
  BY <1>2, RaceOfOthers DEF Status
<1>4. /\ Status(j) = "running" /\ ~Won(j) /\ ~Lost(j)
      /\ Won(j)' <=> thr'[j].pc = "complete"
      /\ Lost(j)' <=> thr'[j].pc = "fail"
      /\ Underway(j)' <=> thr'[j].pc \in {"open", "write", "replace"}
      /\ thr'[j].pc \in {"open", "write", "replace", "complete", "fail"}
  BY <1>2, <1>3, FileStepEffect DEF RaceInv, StoreInStep, Alive, Won, Lost, Underway
<1>5. \A k \in Job : StoreInStep(k)'
  BY <1>3, <1>4 DEF RaceInv, StoreInStep, Alive
<1>6. ReportNamesDest'
  BY <1>2, <1>3, <1>4 DEF RaceInv, ReportNamesDest
<1>7. WinnerHasFile'
  <2>1. CASE thr'[j].pc = "complete"
    BY <1>2, <1>4, <2>1, FileStepEffect DEF WinnerHasFile
  <2>2. CASE thr'[j].pc # "complete"
    <3>1. \A k \in Job : Won(k) => thr[k].dest \in Path
      BY DEF Won, RaceInv, TypeInv, DestIsPath
    <3> QED
      BY <1>2, <1>3, <1>4, <2>2, <3>1, FileStepEffect DEF RaceInv, WinnerHasFile
  <2> QED
    BY <2>1, <2>2
<1>8. TmpStays'
  <2> SUFFICES ASSUME \A k \in Job : ~Won(k)', NEW k \in Job, thr'[k].pc \in {"write", "replace"}
               PROVE  fs'[Tmp(k)'] # None
    BY DEF TmpStays
  <2>1. \A i \in Job : ~Won(i)
    BY <1>3, <1>4
  <2>2. \A i \in Job : thr[i].pc \in {"write", "replace"} => fs[Tmp(i)] # None /\ Tmp(i) \in Path
    BY <2>1, JobsAssumption DEF RaceInv, TmpStays, TypeInv, DestIsPath, Alive, Tmp
  <2>3. \A p \in Path : fs[p] # None => fs'[p] # None
    BY <1>4, FileStepEffect
  <2>4. CASE k = j
    BY <1>2, <2>2, <2>3, <2>4, FileStepEffect
  <2>5. CASE k # j
    BY <1>2, <1>3, <2>2, <2>3, <2>5
  <2> QED
    BY <2>4, <2>5
<1>9. LosesToSomeone'
  <2> SUFFICES ASSUME ~IOErrors, NEW i \in Job, Lost(i)'
               PROVE  \E k \in Job : Won(k)' \/ Underway(k)'
    BY DEF LosesToSomeone
  <2>1. CASE thr'[j].pc # "fail"
    BY <1>4, <2>1
  <2>2. CASE thr'[j].pc = "fail"
    <3>1. thr[j].pc = "replace" /\ ~CanReplace(j)
      BY <2>2, FileStepEffect
    <3>2. CASE fs[Tmp(j)] = None
      <4>1. PICK k \in Job : Won(k)
        BY <3>1, <3>2 DEF RaceInv, TmpStays
      <4> QED
        BY <1>3, <1>4, <4>1
    <3>3. CASE \E k \in Job : OpenedBy(k, Tmp(j)) \/ OpenedBy(k, thr[j].dest)
      <4>1. PICK k \in Job : thr[k].pc = "write"
        BY <3>3 DEF OpenedBy
      <4>2. k # j /\ Underway(k)
        BY <3>1, <4>1 DEF Underway
      <4> QED
        BY <1>3, <4>2
    <3> QED
      BY <3>1, <3>2, <3>3 DEF CanReplace
  <2> QED
    BY <2>1, <2>2
<1> QED
  BY <1>5, <1>6, <1>7, <1>8, <1>9 DEF RaceInv

\* A job that ends stays what it was, or becomes a loser for the record.
LEMMA EndStepRaces ==
    ASSUME RaceInv, TypeInv', NEW j \in Job, CompleteJob(j) \/ FailJob(j)
    PROVE  RaceInv'
<1>1. /\ fs' = fs /\ Goto(j, "done") /\ thr[j].pc \in {"complete", "fail"}
      /\ \A k \in Job \ {j} : jobs'[k] = jobs[k]
  BY DEF CompleteJob, complete_job, FailJob, fail_job, RaceInv, TypeInv, TypeOK
<1>2. /\ thr'[j].pc = "done" /\ thr'[j].dest = thr[j].dest
      /\ \A k \in Job \ {j} : thr'[k] = thr[k]
  BY <1>1, GotoMoves DEF RaceInv, TypeInv
<1>3. /\ thr[j].pc = "complete" => Status(j)' = "completed" /\ jobs'[j].file_path = thr[j].dest
      /\ thr[j].pc = "fail" => Status(j)' = "failed"
  <2>1. jobs[j] \in JobRecord /\ jobs[j] # None
    BY <1>1, NoneIsNoRecord DEF RaceInv, StoreInStep, Alive, Status, TypeInv, TypeOK
  <2>2. CASE CompleteJob(j)
    <3>1. jobs'[j] = [jobs[j] EXCEPT !.status = "completed", !.file_path = thr[j].dest,
                                     !.sections_collected = Cardinality(thr[j].payload),
                                     !.sections_failed = thr[j].sections_failed]
      BY <2>1, <2>2 DEF CompleteJob, complete_job, RaceInv, TypeInv, TypeOK
    <3>2. Cardinality(thr[j].payload) \in 0 .. NSections
      BY SectionsAreFew DEF RaceInv, TypeInv, TypeOK, Thread
    <3>3. thr[j].dest \in Path \cup {None} /\ thr[j].sections_failed \in SUBSET Section
      BY DEF RaceInv, TypeInv, TypeOK, Thread
    <3>4. /\ jobs'[j] \in JobRecord /\ jobs'[j].status = "completed"
          /\ jobs'[j].file_path = thr[j].dest
      BY <2>1, <3>1, <3>2, <3>3 DEF JobRecord
    <3> QED
      BY <2>2, <3>4, NoneIsNoRecord DEF Status, CompleteJob
  <2>3. CASE FailJob(j)
    <3>1. jobs'[j] = [jobs[j] EXCEPT !.status = "failed"]
      BY <2>1, <2>3 DEF FailJob, fail_job, RaceInv, TypeInv, TypeOK
    <3>2. jobs'[j] \in JobRecord /\ jobs'[j].status = "failed"
      BY <2>1, <3>1 DEF JobRecord
    <3> QED
      BY <2>3, <3>2, NoneIsNoRecord DEF Status, FailJob
  <2> QED
    BY <2>2, <2>3
<1>4. \A k \in Job \ {j} : /\ Won(k)' <=> Won(k)
                           /\ Lost(k)' <=> Lost(k)
                           /\ Underway(k)' <=> Underway(k)
                           /\ StoreInStep(k)' <=> StoreInStep(k)
                           /\ Status(k)' = Status(k) /\ Tmp(k)' = Tmp(k)
  BY <1>1, <1>2, RaceOfOthers
<1>5. /\ Won(j)' <=> Won(j)
      /\ Lost(j)' <=> Lost(j)
      /\ ~Underway(j) /\ ~Underway(j)' /\ StoreInStep(j)'
  BY <1>1, <1>2, <1>3 DEF Won, Lost, Underway, StoreInStep, Alive
<1>6. \A k \in Job : StoreInStep(k)'
  BY <1>4, <1>5 DEF RaceInv
<1>7. ReportNamesDest'
  BY <1>1, <1>2, <1>3, <1>4 DEF RaceInv, ReportNamesDest
<1>8. WinnerHasFile'
  <2>1. \A k \in Job : (Won(k)' <=> Won(k)) /\ thr'[k].dest = thr[k].dest
    BY <1>2, <1>4, <1>5
  <2> QED
    BY <1>1, <2>1 DEF RaceInv, WinnerHasFile
<1>9. TmpStays'
  BY <1>1, <1>2, <1>4, <1>5 DEF RaceInv, TmpStays
<1>10. LosesToSomeone'
  BY <1>4, <1>5 DEF RaceInv, LosesToSomeone
<1> QED
  BY <1>6, <1>7, <1>8, <1>9, <1>10 DEF RaceInv

LEMMA RestartRaces ==
    ASSUME RaceInv, TypeInv', Restart
    PROVE  RaceInv'
<1>1. ASSUME NEW j \in Job
      PROVE  jobs'[j] = None /\ thr'[j].pc \in {"none", "dead"}
  BY DEF Restart, RaceInv, TypeInv, TypeOK, Thread
<1>2. \A j \in Job : /\ ~Won(j)' /\ ~Lost(j)' /\ StoreInStep(j)'
                     /\ Status(j)' = "not_found" /\ thr'[j].pc \notin {"write", "replace"}
  BY <1>1 DEF Won, Lost, StoreInStep, Status, Alive
<1> QED
  BY <1>2 DEF RaceInv, ReportNamesDest, WinnerHasFile, TmpStays, LosesToSomeone

LEMMA RaceInitially == Init => RaceInv
<1> SUFFICES ASSUME Init
             PROVE  RaceInv
  OBVIOUS
<1>1. \A j \in Job : jobs[j] = None /\ thr[j].pc = "none"
  BY DEF Init, NewThread
<1>2. \A j \in Job : /\ ~Won(j) /\ ~Lost(j) /\ StoreInStep(j)
                     /\ Status(j) = "not_found" /\ thr[j].pc \notin {"write", "replace"}
  BY <1>1 DEF Won, Lost, StoreInStep, Status, Alive
<1> QED
  BY <1>2, TypeInvInitially
  DEF RaceInv, ReportNamesDest, WinnerHasFile, TmpStays, LosesToSomeone

LEMMA RaceInductive == RaceInv /\ [Next]_vars => RaceInv'
<1> SUFFICES ASSUME RaceInv, [Next]_vars
             PROVE  RaceInv'
  OBVIOUS
<1>1. TypeInv'
  BY TypeInvInductive DEF RaceInv
<1>2. CASE UNCHANGED vars
  <2>1. \A k \in Job : /\ Won(k)' <=> Won(k)
                       /\ Lost(k)' <=> Lost(k)
                       /\ Underway(k)' <=> Underway(k)
                       /\ StoreInStep(k)' <=> StoreInStep(k)
                       /\ Status(k)' = Status(k) /\ Tmp(k)' = Tmp(k)
    BY <1>2, RaceOfOthers DEF vars
  <2> QED
    BY <1>1, <1>2, <2>1
    DEF vars, RaceInv, ReportNamesDest, WinnerHasFile, TmpStays, LosesToSomeone
<1>3. CASE Next
  BY <1>1, <1>3, EarlyStepRaces, FileStepRaces, EndStepRaces, RestartRaces
  DEF Next, WorkerStep, EarlyStep, FileStep
<1> QED
  BY <1>2, <1>3

\* However many jobs race for whatever paths: if nothing but each other can make them fail, then
\* when those that this server has started have ended, one has published and its file is there.
THEOREM RacesHaveWinners == Spec => []SomeJobPublishes
<1>1. ASSUME RaceInv
      PROVE  SomeJobPublishes
  <2> SUFFICES ASSUME \A j \in Job : thr[j].pc \in {"none", "done", "dead"},
                      NEW j \in Job, thr[j].pc = "done", ~IOErrors
               PROVE  \E k \in Job : Status(k) = "completed" /\ fs[jobs[k].file_path] # None
    BY DEF SomeJobPublishes
  <2>1. \A k \in Job : ~Underway(k) /\ thr[k].pc # "complete"
    BY DEF Underway
  <2>2. Won(j) \/ Lost(j)
    BY <1>1 DEF RaceInv, StoreInStep, Won, Lost
  <2>3. PICK i \in Job : Won(i)
    BY <1>1, <2>1, <2>2 DEF RaceInv, LosesToSomeone
  <2>4. PICK k \in Job : Won(k) /\ fs[thr[k].dest] # None
    BY <1>1, <2>3 DEF RaceInv, WinnerHasFile
  <2>5. Status(k) = "completed"
    BY <2>1, <2>4 DEF Won
  <2> QED
    BY <1>1, <2>4, <2>5 DEF RaceInv, ReportNamesDest
<1> QED
  BY <1>1, RaceInitially, RaceInductive, PTL DEF Spec
=============================================================================
