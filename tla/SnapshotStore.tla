---------------------------- MODULE SnapshotStore ----------------------------
(***************************************************************************)
(* What the snapshot tools promise to a client, with no thread, temporary  *)
(* file or job record in sight: a requested snapshot either appears whole  *)
(* under its path in one step and is then reported completed, or is        *)
(* reported failed and leaves nothing behind; a restart of the server      *)
(* forgets the reports and keeps the files.  SnapshotJobs implements it    *)
(* when no two jobs share a path.                                          *)
(***************************************************************************)
CONSTANTS Job,      \* the snapshots a client may ask for
          Path,     \* the paths they may be written to
          NoFile    \* what a path that does not exist holds

VARIABLES phase,    \* what has become of each job
          file      \* which job's snapshot each path holds

vars == <<phase, file>>

Init == /\ phase = [j \in Job |-> "new"]
        /\ file = [p \in Path |-> NoFile]

Request(j) == /\ phase[j] = "new"
              /\ phase' = [phase EXCEPT ![j] = "running"]
              /\ UNCHANGED file

\* The whole snapshot appears at once.
Publish(j, p) == /\ phase[j] = "running"
                 /\ phase' = [phase EXCEPT ![j] = "published"]
                 /\ file' = [file EXCEPT ![p] = j]

ReportCompleted(j) == /\ phase[j] = "published"
                      /\ phase' = [phase EXCEPT ![j] = "completed"]
                      /\ UNCHANGED file

ReportFailed(j) == /\ phase[j] = "running"
                   /\ phase' = [phase EXCEPT ![j] = "failed"]
                   /\ UNCHANGED file

Restart == /\ phase' = [j \in Job |-> IF phase[j] = "new" THEN "new" ELSE "lost"]
           /\ UNCHANGED file

Next == \/ Restart
        \/ \E j \in Job : \/ Request(j)
                          \/ ReportCompleted(j)
                          \/ ReportFailed(j)
                          \/ \E p \in Path : Publish(j, p)

Spec == Init /\ [][Next]_vars
=============================================================================
