----------------------------- MODULE SnapshotJobs -----------------------------
(***************************************************************************)
(* The background snapshot jobs of the MCP server (tools/snapshot.py,      *)
(* tools/snapshot_jobs.py).  create_snapshot registers a job and starts a  *)
(* daemon thread for it; the thread collects the sections one by one,      *)
(* writes a temporary file, renames it over the destination and reports    *)
(* the outcome in a job store kept in memory.  Threads run concurrently    *)
(* with each other, share the job store (under a lock) and the file system *)
(* (under none), and die with the server process.                          *)
(*                                                                         *)
(* A job and its thread have one name: a job id is a timestamp with a      *)
(* random suffix, taken to be unique.  The file system is that of Windows, *)
(* where the server is deployed: a file that somebody has open cannot be   *)
(* renamed or replaced.                                                    *)
(***************************************************************************)
EXTENDS Integers, FiniteSets

CONSTANTS Job,          \* job ids
          NSections,    \* how many KNOWN_SECTIONS there are
          Path,         \* paths of snapshot files and temporary files
          Suffix,       \* the extension of a path, as list_snapshots tests it
          TmpOf,        \* dest.with_suffix(".tmp")
          Target,       \* the destinations a job may be given, by its encryption: the
                        \* default name, or the paths a client may pass as output_path
          Encryption,   \* the encryptions it may ask for
          IOErrors,     \* may the steps of preparing and writing the file fail?
          MaxRestarts,  \* bound: how often the server process is restarted
          None,         \* no job record, no such file
          Empty,        \* a file of no bytes
          Torn          \* a file that is no job's whole snapshot

Section == 1 .. NSections
SnapshotPath == {p \in Path : Suffix[p] \in {"json", "json.dpapi"}}

ASSUME JobsAssumption ==
    /\ NSections \in Nat \ {0}
    /\ Suffix \in [Path -> {"json", "json.dpapi", "other"}]
    /\ TmpOf \in [Path -> Path \ SnapshotPath]
    /\ Target \in [Job -> [Encryption -> SUBSET Path]]
    /\ Encryption \subseteq {"none", "dpapi"}
    /\ IOErrors \in BOOLEAN
    /\ MaxRestarts \in Nat
    /\ Job \cap {None, Empty, Torn} = {}
    /\ None # Empty /\ None # Torn /\ Empty # Torn

VARIABLES jobs,      \* _jobs: the job store
          thr,       \* the worker threads: where each is, and its local variables
          fs,        \* what each path holds
          restarts   \* how often the process has been restarted

vars == <<jobs, thr, fs, restarts>>

Alive == {"step", "query", "prepare", "open", "write", "replace", "complete", "fail"}
PC == Alive \cup {"none", "done", "dead"}

JobRecord == [status : {"running", "completed", "failed"}, step_index : 0 .. NSections,
              file_path : Path \cup {None}, sections_collected : 0 .. NSections,
              sections_failed : SUBSET Section]

Thread == [pc : PC, dest : Path \cup {None}, encryption : Encryption \cup {"none"},
           idx : 1 .. NSections, payload : SUBSET Section, sections_failed : SUBSET Section]

NewThread == [pc |-> "none", dest |-> None, encryption |-> "none",
              idx |-> 1, payload |-> {}, sections_failed |-> {}]

ASSUME NoneIsNoRecord == None \notin JobRecord

Init == /\ jobs = [j \in Job |-> None]
        /\ thr = [j \in Job |-> NewThread]
        /\ fs = [p \in Path |-> None]
        /\ restarts = 0
-----------------------------------------------------------------------------
(* snapshot_jobs.py: every function holds the lock from start to end.      *)
(* A definition whose comment begins with "Slip" is a plausible mistake in *)
(* the one that follows it.  The specification does not use it; it serves  *)
(* to see a property fail.                                                 *)

create_job(j) ==
    jobs' = [jobs EXCEPT ![j] = [status |-> "running", step_index |-> 0, file_path |-> None,
                                 sections_collected |-> 0, sections_failed |-> {}]]

\* Slip: the index counts the finished sections, and the last one twice.
StepCountsFromOne(j, i) ==
    jobs' = IF jobs[j] = None THEN jobs ELSE [jobs EXCEPT ![j].step_index = i + 1]

update_job_step(j, i) ==
    jobs' = IF jobs[j] = None THEN jobs ELSE [jobs EXCEPT ![j].step_index = i]

\* Slip: a section that failed is counted as collected.
CountsFailedSections(j) ==
    jobs' = IF jobs[j] = None THEN jobs
            ELSE [jobs EXCEPT ![j].status = "completed",
                              ![j].file_path = thr[j].dest,
                              ![j].sections_collected =
                                  Cardinality(thr[j].payload \cup thr[j].sections_failed)]

complete_job(j) ==
    jobs' = IF jobs[j] = None THEN jobs
            ELSE [jobs EXCEPT ![j].status = "completed",
                              ![j].file_path = thr[j].dest,
                              ![j].sections_collected = Cardinality(thr[j].payload),
                              ![j].sections_failed = thr[j].sections_failed]

fail_job(j) ==
    jobs' = IF jobs[j] = None THEN jobs ELSE [jobs EXCEPT ![j].status = "failed"]
-----------------------------------------------------------------------------
(* create_snapshot, on the event loop.  A call it refuses (keyvault, an    *)
(* unknown encryption or forest) changes nothing.                          *)

CreateSnapshot(j) ==
    /\ thr[j].pc = "none"
    /\ create_job(j)
    /\ \E e \in Encryption : \E d \in Target[j][e] :
          thr' = [thr EXCEPT ![j].pc = "step", ![j].dest = d, ![j].encryption = e]
    /\ UNCHANGED <<fs, restarts>>
-----------------------------------------------------------------------------
(* _run_snapshot_job, on the job's own thread.                             *)

Goto(j, l) == thr' = [thr EXCEPT ![j].pc = l]

\* Slip: the destination is written in place.
InPlace(j) == thr[j].dest
Tmp(j) == TmpOf[thr[j].dest]

\* A file handle is held between open() and the end of write_bytes().
OpenedBy(k, p) == thr[k].pc = "write" /\ Tmp(k) = p

StartSection(j) ==
    /\ thr[j].pc = "step"
    /\ update_job_step(j, thr[j].idx)
    /\ Goto(j, "query")
    /\ UNCHANGED <<fs, restarts>>

\* connector.query(section): rows, no rows, or an exception that is noted.
QuerySection(j) ==
    /\ thr[j].pc = "query"
    /\ \E got \in {"rows", "nothing", "exception"} :
          thr' = [thr EXCEPT
            ![j].payload = IF got = "rows" THEN @ \cup {thr[j].idx} ELSE @,
            ![j].sections_failed = IF got = "exception" THEN @ \cup {thr[j].idx} ELSE @,
            ![j].idx = IF @ < NSections THEN @ + 1 ELSE @,
            ![j].pc = IF thr[j].idx < NSections THEN "step" ELSE "prepare"]
    /\ UNCHANGED <<jobs, fs, restarts>>

\* json.dumps, mkdir and, for dpapi, the platform test, the import and CryptProtectData.
Prepare(j) ==
    /\ thr[j].pc = "prepare"
    /\ \/ Goto(j, "open")
       \/ IOErrors /\ Goto(j, "fail")
    /\ UNCHANGED <<jobs, fs, restarts>>

\* Slip: the temporary file is created exclusively (open mode "x").
OpenExclusive(j) ==
    /\ thr[j].pc = "open"
    /\ IF fs[Tmp(j)] = None
       THEN fs' = [fs EXCEPT ![Tmp(j)] = Empty] /\ Goto(j, "write")
       ELSE Goto(j, "fail") /\ UNCHANGED fs
    /\ UNCHANGED <<jobs, restarts>>

\* tmp.write_bytes: opening truncates, whoever else has the file open.
OpenTmp(j) ==
    /\ thr[j].pc = "open"
    /\ \/ /\ fs' = [fs EXCEPT ![Tmp(j)] = Empty]
          /\ Goto(j, "write")
       \/ /\ IOErrors
          /\ Goto(j, "fail")
          /\ UNCHANGED fs
    /\ UNCHANGED <<jobs, restarts>>

\* Written from offset 0: over the bytes of another writer the longer of the two shows.
WriteTmp(j) ==
    /\ thr[j].pc = "write"
    /\ \/ /\ \E c \in {j} \cup (IF fs[Tmp(j)] = Empty THEN {} ELSE {Torn}) :
                fs' = [fs EXCEPT ![Tmp(j)] = c]
          /\ Goto(j, "replace")
       \/ /\ IOErrors
          /\ \E c \in {fs[Tmp(j)], Torn} : fs' = [fs EXCEPT ![Tmp(j)] = c]
          /\ Goto(j, "fail")
    /\ UNCHANGED <<jobs, restarts>>

CanReplace(j) ==
    /\ fs[Tmp(j)] # None
    /\ \A k \in Job : ~OpenedBy(k, Tmp(j)) /\ ~OpenedBy(k, thr[j].dest)

\* Slip: a copy, after which removing the temporary file may fail.
CopyThenRemove(j) ==
    /\ thr[j].pc = "replace"
    /\ CanReplace(j)
    /\ fs' = [fs EXCEPT ![thr[j].dest] = fs[Tmp(j)]]
    /\ \E l \in {"complete", "fail"} : Goto(j, l)
    /\ UNCHANGED <<jobs, restarts>>

\* os.replace(tmp, dest)
ReplaceDest(j) ==
    /\ thr[j].pc = "replace"
    /\ \/ /\ CanReplace(j)
          /\ fs' = [fs EXCEPT ![Tmp(j)] = None, ![thr[j].dest] = fs[Tmp(j)]]
          /\ Goto(j, "complete")
       \/ /\ ~CanReplace(j) \/ IOErrors
          /\ Goto(j, "fail")
          /\ UNCHANGED fs
    /\ UNCHANGED <<jobs, restarts>>

\* Slip: something after complete_job raises, and the outer handler reports a failure.
CompleteThenRaise(j) ==
    /\ thr[j].pc = "complete"
    /\ complete_job(j)
    /\ Goto(j, "fail")
    /\ UNCHANGED <<fs, restarts>>

CompleteJob(j) ==
    /\ thr[j].pc = "complete"
    /\ complete_job(j)
    /\ Goto(j, "done")
    /\ UNCHANGED <<fs, restarts>>

\* Slip: the outer handler logs the exception and does not report it.
FailSilently(j) == thr[j].pc = "fail" /\ Goto(j, "done") /\ UNCHANGED <<jobs, fs, restarts>>

FailJob(j) ==
    /\ thr[j].pc = "fail"
    /\ fail_job(j)
    /\ Goto(j, "done")
    /\ UNCHANGED <<fs, restarts>>

WorkerStep(j) == \/ StartSection(j) \/ QuerySection(j)
                 \/ Prepare(j) \/ OpenTmp(j) \/ WriteTmp(j) \/ ReplaceDest(j)
                 \/ CompleteJob(j) \/ FailJob(j)

\* The process ends, wherever its daemon threads are, and a new one starts.
Restart ==
    /\ restarts < MaxRestarts
    /\ restarts' = restarts + 1
    /\ jobs' = [j \in Job |-> None]
    /\ thr' = [j \in Job |-> IF thr[j].pc = "none" THEN thr[j] ELSE [thr[j] EXCEPT !.pc = "dead"]]
    /\ UNCHANGED fs

Next == Restart \/ \E j \in Job : CreateSnapshot(j) \/ WorkerStep(j)

Spec == Init /\ [][Next]_vars

\* A started thread is scheduled: every step of it ends, because a query does (a local
\* SQLite query, or a PowerShell child process with a timeout).
FairSpec == Spec /\ \A j \in Job : WF_vars(WorkerStep(j))
-----------------------------------------------------------------------------
(* list_snapshots: a .json.dpapi file is listed unread, a .json file when  *)
(* it parses.                                                              *)

Parses(p) == fs[p] \in Job /\ thr[fs[p]].encryption = "none"

Listing == {p \in Path : fs[p] # None /\ \/ Suffix[p] = "json.dpapi"
                                         \/ Suffix[p] = "json" /\ Parses(p)}
-----------------------------------------------------------------------------
(* Properties. *)

TypeOK == /\ jobs \in [Job -> JobRecord \cup {None}]
          /\ thr \in [Job -> Thread]
          /\ fs \in [Path -> Job \cup {None, Empty, Torn}]
          /\ restarts \in 0 .. MaxRestarts

\* No two jobs are given paths that meet, nor a destination that is its own temporary file.
\* The default names have this: each is made from the job id.  (A temporary file is never
\* a snapshot path.)
OwnPaths ==
    \A j, k \in Job : \A e, f \in Encryption : \A p \in Target[j][e], q \in Target[k][f] :
        /\ p \in SnapshotPath
        /\ j # k => p # q /\ TmpOf[p] # TmpOf[q]

Status(j) == IF jobs[j] = None THEN "not_found" ELSE jobs[j].status

\* What get_snapshot_status says of a completed job is true of the file it names: the file
\* holds that job's snapshot, whole, and the report counts the sections in it; a section
\* reported failed is not in it.
ReportMatchesFile ==
    \A j \in Job : Status(j) = "completed" =>
        /\ fs[jobs[j].file_path] = j
        /\ jobs[j].sections_collected = Cardinality(thr[j].payload)
        /\ jobs[j].sections_failed \cap thr[j].payload = {}

\* At no moment, the death of the process included, does a name that list_snapshots or
\* load_snapshot would read hold a truncated or a mixed file: readers need no lock.
NoTornSnapshot == \A p \in SnapshotPath : fs[p] \notin {Empty, Torn}

\* A job reported failed has left no snapshot behind (what follows os.replace cannot fail).
FailedPublishesNothing ==
    \A j \in Job : Status(j) = "failed" => \A p \in SnapshotPath : fs[p] # j

\* Every completed snapshot is found by list_snapshots.
CompletedIsListed ==
    \A j \in Job : Status(j) = "completed" => jobs[j].file_path \in Listing

\* Once a client has been told the outcome of a job, it is told the same until the server
\* restarts and forgets the job.
OutcomeIsFinal ==
    [][\A j \in Job : Status(j) \in {"completed", "failed"} => jobs'[j] \in {jobs[j], None}]_vars

\* However jobs race for one destination, they do not all lose to each other, nor to what a
\* dead server left behind: when nothing else can fail and all jobs that this server has
\* started have ended, one of them has published, and its file is there.
SomeJobPublishes ==
    (/\ \A j \in Job : thr[j].pc \in {"none", "done", "dead"}
     /\ \E j \in Job : thr[j].pc = "done"
     /\ ~IOErrors)
    => \E j \in Job : Status(j) = "completed" /\ fs[jobs[j].file_path] # None

\* Every job that is running is reported completed or failed, or the server has restarted.
EveryJobEnds == \A j \in Job : Status(j) = "running" ~> Status(j) # "running"

-----------------------------------------------------------------------------
(* The jobs implement the store: a job is published when os.replace has    *)
(* succeeded, and a snapshot path holds what it holds.                     *)

Phase(j) == CASE thr[j].pc = "none" -> "new"
              [] thr[j].pc = "dead" -> "lost"
              [] thr[j].pc = "complete" -> "published"
              [] thr[j].pc = "done" -> Status(j)
              [] OTHER -> "running"

Store == INSTANCE SnapshotStore WITH
            Path <- SnapshotPath, NoFile <- None,
            phase <- [j \in Job |-> Phase(j)], file <- [p \in SnapshotPath |-> fs[p]]

StoreSpec == Store!Spec
=============================================================================
