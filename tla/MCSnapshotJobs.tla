---------------------------- MODULE MCSnapshotJobs ----------------------------
(***************************************************************************)
(* Instances of SnapshotJobs.  Default names: each job has a .json and a   *)
(* .json.dpapi name of its own.  Shared names: every job may be told to    *)
(* write x.json or x.txt, which have the one temporary file x.tmp.         *)
(***************************************************************************)
EXTENDS SnapshotJobs, TLC

CONSTANTS j1, j2, j3

OwnPath == {"1.json", "1.json.dpapi", "1.tmp", "1.json.tmp",
            "2.json", "2.json.dpapi", "2.tmp", "2.json.tmp"}
OwnTmp == ("1.json" :> "1.tmp" @@ "1.json.dpapi" :> "1.json.tmp" @@
           "2.json" :> "2.tmp" @@ "2.json.dpapi" :> "2.json.tmp")
OwnTmpOf == [p \in OwnPath |-> IF p \in DOMAIN OwnTmp THEN OwnTmp[p] ELSE p]
OwnSuffix == [p \in OwnPath |-> CASE p \in {"1.json", "2.json"} -> "json"
                                  [] p \in {"1.json.dpapi", "2.json.dpapi"} -> "json.dpapi"
                                  [] OTHER -> "other"]
OwnTarget == [j \in Job |-> [e \in Encryption |->
                 {CASE e = "none" -> IF j = j1 THEN "1.json" ELSE "2.json"
                    [] e = "dpapi" -> IF j = j1 THEN "1.json.dpapi" ELSE "2.json.dpapi"}]]

SharedPath == {"x.json", "x.txt", "x.tmp"}
SharedTmpOf == [p \in SharedPath |-> "x.tmp"]
SharedSuffix == [p \in SharedPath |-> IF p = "x.json" THEN "json" ELSE "other"]
SharedTarget == [j \in Job |-> [e \in Encryption |-> {"x.json", "x.txt"}]]
=============================================================================
