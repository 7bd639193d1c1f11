----------------------------- MODULE MCQueryTools ------------------------------
(* Four accounts that between them take every value of every field, and three  *)
(* rows in every other section.                                                *)
EXTENDS QueryTools

MCAccount ==
    {[name |-> "ann", uac |-> {"enabled", "trusted"}, locked |-> FALSE, logon |-> "recent",
      admin |-> Number("1"), sids |-> "[]", delegate |-> "", pgid |-> Number("513"),
      cannot |-> "True"],
     [name |-> "bob", uac |-> {"never_expires", "not_required"}, locked |-> TRUE,
      logon |-> "old", admin |-> Number("0"), sids |-> "[S-1-5-21]", delegate |-> "http/x",
      pgid |-> Number("512"), cannot |-> "False"],
     [name |-> "cid", uac |-> {"unreadable"}, locked |-> FALSE, logon |-> "never",
      admin |-> Null, sids |-> "[]", delegate |-> "", pgid |-> List("[513]"),
      cannot |-> "null"],
     [name |-> "dan", uac |-> {"enabled", "trusted_to_auth"}, locked |-> FALSE,
      logon |-> "recent", admin |-> Number("1"), sids |-> "[S-1-5-21]", delegate |-> "",
      pgid |-> List("[]"), cannot |-> "True"]}

Named(n) == CHOOSE a \in MCAccount : a.name = n

MCFirstDir == <<Named("ann"), Named("bob"), Named("cid")>>

\* What the walking client filters by; the properties of a state go over all the filters.
MCFilterSets == {{}, {"enabled"}, {"stale_only"}, {"uac_unreadable", "not_enabled"}}

\* A row of any section but users and computers.
Plain(id, dc, group, orphan) ==
    [Id |-> Str(id), DC |-> Str(dc), GroupName |-> Str(group), IsOrphaned |-> Bool(orphan)]

Computer(id, enabled, logon, delegate) ==
    [Id |-> Str(id), Enabled |-> enabled, LastLogonDate |-> JsonDate(logon, "5.1"),
     IsCNO |-> Bool(id = "cno"), IsVCO |-> Bool(id = "vco"),
     TrustedForDelegation |-> Bool(id = "cno"), TrustedToAuthForDelegation |-> Bool(FALSE),
     AllowedToDelegateTo |-> delegate]

MCFixed ==
    [s \in KNOWN_SECTIONS \ {"users"} |->
        IF s = "computers"
        THEN <<Computer("cno", Bool(TRUE), "recent", List("[]")),
               Computer("vco", Bool(FALSE), "never", List("[S-1-5-21]")),
               Computer("pc", Null, "old", List("[]"))>>
        ELSE <<Plain("r1", "dc1", "Staff", TRUE), Plain("r2", "dc2", "others", FALSE),
               Plain("r3", "dc1", "staff", TRUE)>>]
================================================================================
