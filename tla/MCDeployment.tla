----------------------------- MODULE MCDeployment ------------------------------
(* The template has one live forest, and its certificate paths point to files  *)
(* that are not there.                                                         *)
EXTENDS Deployment

Forest(mode, file, dc) == [mode |-> mode, file |-> file, dc |-> dc]

MCTemplate == [profile |-> "B-core", mode |-> None, ssl |-> "elsewhere", port |-> "8000",
               forests |-> <<Forest(None, FALSE, TRUE)>>]

\* A forest beside it that is offline, which profile B allows and profile A does not; a deprecated
\* mode; nothing at all, which is profile A.
MCConfigSet ==
    {[MCTemplate EXCEPT !.forests = Append(@, Forest("offline", TRUE, FALSE))],
     [MCTemplate EXCEPT !.profile = "A", !.forests = Append(@, Forest("offline", TRUE, FALSE))],
     [MCTemplate EXCEPT !.profile = None, !.mode = "live"],
     [MCTemplate EXCEPT !.profile = None]}
================================================================================
