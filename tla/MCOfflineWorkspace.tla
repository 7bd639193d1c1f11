-------------------------- MODULE MCOfflineWorkspace --------------------------
(***************************************************************************)
(* Instances of OfflineWorkspace: one or two forests of config.yaml, an    *)
(* alias for load_snapshot; without and with snapshot threads.             *)
(***************************************************************************)
EXTENDS OfflineWorkspace

OneForest == <<"a">>
LiveAndOffline == <<"l", "a">>
Inherit == [f \in Forest |-> "inherit"]
LiveOverride == [f \in Forest |-> IF f = "l" THEN "live" ELSE "inherit"]
=============================================================================
