------------------------------ MODULE MCLiveQuery ------------------------------
(* Three DCs, of which more than two are "many", and two groups that share a   *)
(* member.                                                                     *)
EXTENDS LiveQuery

MCDcList == <<"dc1", "dc2", "dc3">>
MCGroupList == <<"g1", "g2">>
MCMembersOf == [g \in {"g1", "g2"} |-> IF g = "g1" THEN {"u1", "u2"} ELSE {"u2"}]
================================================================================
