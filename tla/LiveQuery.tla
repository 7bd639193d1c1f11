------------------------------- MODULE LiveQuery -------------------------------
(***************************************************************************)
(* One call of a live connector (modes/live.py).  Every step runs a        *)
(* powershell.exe: on the entry-point DC, on each DC in turn for an        *)
(* inventory section, or on the server for the DNS sections.  Any of them  *)
(* may exit with an error, time out, or print what is not JSON; a section  *)
(* script may itself catch a failure and carry on.  The group scripts call *)
(* the expansion of Membership once per group; here a group is expanded or *)
(* fails as a whole.  Simplified: a row has the columns DC and Status and  *)
(* one of data (two for sysvol).                                           *)
(***************************************************************************)
EXTENDS Storage

CONSTANTS DcList,     \* the domain controllers, in the order they are enumerated
          Entry,      \* forest.dc
          Many,       \* 10: a forest with more DCs gets a warning row
          GroupList,  \* the groups of the domain
          MembersOf,  \* their members, all resolved
          Cap         \* 500: schema objects that are returned

ASSUME LiveAssumption ==
    /\ DcList \in Seq(STRING) /\ DcList # <<>> /\ Entry = DcList[1]
    /\ \A i, j \in DOMAIN DcList : DcList[i] = DcList[j] => i = j
    /\ \A i \in DOMAIN DcList : DcList[i] \notin ListText
    /\ Many \in Nat /\ Cap \in Nat

VARIABLES call,    \* the call that is running
          events,  \* what it wrote to the event log
          answer   \* what the last call returned

vars == <<call, events, answer>>

\* _DC_INVENTORY_SECTIONS and the column of data of each script.
InventoryColumns ==
    [dc_windows_features |-> {"Features"}, dc_services |-> {"Services"},
     dc_installed_software |-> {"Software"}, sysvol |-> {"Mechanism", "State"},
     ntp_config |-> {"NtpServer"}, eventlog_config |-> {"LogName"},
     dc_file_locations |-> {"DatabasePath"}, dc_network_config |-> {"Adapters"}]

Inventory == DOMAIN InventoryColumns

\* Slip: one entry left out.
EmptyFieldsShort(section) ==
    IF section \in {"eventlog_config", "ntp_config"} THEN {} ELSE InventoryColumns[section]

\* _DC_INVENTORY_EMPTY_FIELDS
EmptyFields(section) == IF section = "eventlog_config" THEN {} ELSE InventoryColumns[section]

\* The scripts that catch whatever goes wrong and print '[]'.
EmptyOnError == {"gpos", "dns", "dns_forwarders", "pki", "gpo_links", "fsp"}

GroupSections == {"group_members", "privileged_groups", "privileged_accounts"}

\* Sections of each kind.  "no_such" stands for one that has no script.
Sections == Inventory \cup GroupSections \cup {"gpos", "dns", "groups", "schema", "no_such"}

Row(dc, status, columns) ==
    [c \in {"DC", "Status"} \cup columns |->
        IF c = "DC" THEN Str(dc)
        ELSE IF c = "Status" THEN Str(status)
        ELSE IF status = "OK" THEN Str("data") ELSE Null]

WarningRow == [warning |-> Str("many DCs")]

\* The row collect_dc_inventory writes for a DC whose PowerShell failed.
Fallback(section, dc) == Row(dc, "Unreachable", EmptyFields(section))

\* What the catch of the script of an inventory section may say of a DC; eventlog_config skips a log
\* that it cannot read.
CaughtStatuses(section) ==
    IF section = "eventlog_config" THEN {}
    ELSE {"Unreachable"} \cup
         (IF section \in {"dc_services", "dc_network_config"} THEN {"PermissionDenied"} ELSE {})

\* The columns of data that the catch prints, with null in them: ntp_config's prints none.
CaughtColumns(section) == IF section = "ntp_config" THEN {} ELSE InventoryColumns[section]

\* What a script may print on a DC that runs it: for eventlog_config one row for each of two logs
\* that can be read, for the others one row, of the data or of the catch.
ScriptRows(section, dc) ==
    {[i \in 1 .. n |-> Row(dc, "OK", InventoryColumns[section])] :
        n \in IF section = "eventlog_config" THEN 0 .. 2 ELSE {1}}
    \cup {<<Row(dc, status, CaughtColumns(section))>> : status \in CaughtStatuses(section)}
-----------------------------------------------------------------------------
Idle == [pc |-> "idle", section |-> "", api |-> "", dcs |-> <<>>, next |-> 1, rows |-> <<>>,
         failed |-> {}, silent |-> {}]

NoAnswer == [kind |-> "none", section |-> "", rows |-> <<>>, warnings |-> {},
             missing |-> {}, cause |-> "ok"]

Init == call = Idle /\ events = {} /\ answer = NoAnswer

\* A tool calls query_page, or query; a section that has no script gets an empty page at once.
Begin == /\ call.pc = "idle"
         /\ \E section \in Sections, api \in {"page", "query"} :
              IF section = "no_such"
              THEN /\ api = "page"
                   /\ answer' = [NoAnswer EXCEPT !.kind = "page", !.section = section]
                   /\ UNCHANGED call
              ELSE /\ call' = [Idle EXCEPT !.section = section, !.api = api,
                                           !.pc = IF section \in Inventory THEN "enumerate"
                                                  ELSE "run"]
                   /\ answer' = NoAnswer
         /\ events' = {}

\* _run_subprocess did not return rows.  Only an exit code is written to the event log.
Failures == {"exit", "timeout", "garbage"}

FailureEvents(failure, dc) == IF failure = "exit" THEN {<<"error", dc>>} ELSE {}

Return(kind, rows, warnings, missing, cause) ==
    /\ call' = Idle
    /\ answer' = [kind |-> kind, section |-> call.section, rows |-> rows,
                  warnings |-> warnings, missing |-> missing, cause |-> cause]
-----------------------------------------------------------------------------
Start(dcs) == call' = [call EXCEPT !.pc = "collect", !.dcs = dcs,
                                   !.rows = IF Len(dcs) > Many THEN <<WarningRow>> ELSE <<>>]

\* enumerate_dcs: how many DCs there are may differ from call to call; empty output is no DC.
Enumerate == /\ call.pc = "enumerate"
             /\ \E n \in 0 .. Len(DcList) : Start(SubSeq(DcList, 1, n))
             /\ UNCHANGED <<events, answer>>

EnumerateFails == /\ call.pc = "enumerate"
                  /\ Start(<<Entry>>)
                  /\ \E failure \in Failures :
                       events' = events \cup FailureEvents(failure, Entry)
                                        \cup {<<"enumeration failed", Entry>>}
                  /\ UNCHANGED answer

Dc == call.dcs[call.next]

Collect == /\ call.pc = "collect" /\ call.next \in DOMAIN call.dcs
           /\ \E rows \in ScriptRows(call.section, Dc) :
                call' = [call EXCEPT !.rows = @ \o rows, !.next = @ + 1,
                                     !.silent = IF rows = <<>> THEN @ \cup {Dc} ELSE @]
           /\ UNCHANGED <<events, answer>>

\* Slip: except: break, what is collected so far is enough.
CollectStops == /\ call.pc = "collect" /\ call.next \in DOMAIN call.dcs
                /\ call' = [call EXCEPT !.rows = @ \o <<Fallback(call.section, Dc)>>,
                                        !.next = Len(call.dcs) + 1, !.failed = @ \cup {Dc}]
                /\ events' = events \cup {<<"unreachable", Dc>>}
                /\ UNCHANGED answer

\* Slip: a DC that does not answer is asked again.
CollectRetries == /\ call.pc = "collect" /\ call.next \in DOMAIN call.dcs
                  /\ call' = [call EXCEPT !.failed = @ \cup {Dc}]
                  /\ events' = events \cup {<<"unreachable", Dc>>}
                  /\ UNCHANGED answer

\* Slip: after a failure the DCs are enumerated again.
CollectRestarts == /\ call.pc = "collect" /\ call.next \in DOMAIN call.dcs
                   /\ call' = [Idle EXCEPT !.section = call.section, !.api = call.api,
                                           !.pc = "enumerate"]
                   /\ events' = events \cup {<<"unreachable", Dc>>}
                   /\ UNCHANGED answer

CollectFails == /\ call.pc = "collect" /\ call.next \in DOMAIN call.dcs
                /\ call' = [call EXCEPT !.rows = @ \o <<Fallback(call.section, Dc)>>,
                                        !.next = @ + 1, !.failed = @ \cup {Dc}]
                /\ \E failure \in Failures :
                     events' = events \cup FailureEvents(failure, Dc)
                                      \cup {<<"unreachable", Dc>>}
                /\ UNCHANGED answer

\* The rows of an inventory section are returned without warnings.
CollectEnds ==
    /\ call.pc = "collect" /\ call.next \notin DOMAIN call.dcs
    /\ call' = [call EXCEPT !.pc = "returned"]
    /\ answer' = [kind |-> call.api, section |-> call.section, rows |-> call.rows,
                  warnings |-> {}, missing |-> call.silent, cause |-> "ok"]
    /\ UNCHANGED events

Done == call.pc = "returned" /\ call' = Idle /\ UNCHANGED <<events, answer>>
-----------------------------------------------------------------------------
Groups == {GroupList[i] : i \in DOMAIN GroupList}

\* Slip: every warning that begins with "Group" is filtered, in every section.
JsonDropsGroups(section, warnings) == {w \in warnings : w[1] \notin {"group", "failed groups"}}

\* _warnings_for_json
WarningsForJson(section, warnings) ==
    IF section = "group_members" THEN {w \in warnings : w[1] # "group"} ELSE warnings

\* What the three group scripts write to the warning stream.
GroupWarnings(section, failed, orphans) ==
    {<<"group", g>> : g \in failed}
    \cup {<<"unresolvable", "">> : g \in orphans}
    \cup (IF section = "privileged_groups" THEN {} ELSE {<<"failed groups", "">> : g \in failed})

\* Their rows: the groups that were expanded (group_members), all of them, failed ones with their
\* error (privileged_groups), or each member once (privileged_accounts).
GroupRows(section, failed) ==
    CASE section = "group_members" -> Filtered(GroupList, LAMBDA g : g \notin failed)
      [] section = "privileged_groups" -> GroupList
      [] section = "privileged_accounts" ->
            LET members == UNION {MembersOf[g] : g \in Groups \ failed}
            IN  CHOOSE s \in [1 .. Cardinality(members) -> members] :
                    {s[i] : i \in DOMAIN s} = members

\* A group section: some groups cannot be read, some have members that cannot be resolved.
RunGroups ==
    /\ call.pc = "run" /\ call.section \in GroupSections
    /\ \E failed \in SUBSET Groups : \E orphans \in SUBSET (Groups \ failed) :
         LET warnings == GroupWarnings(call.section, failed, orphans)
         IN  /\ events' = events \cup warnings
             /\ Return(call.api, GroupRows(call.section, failed),
                       IF call.api = "page" THEN WarningsForJson(call.section, warnings) ELSE {},
                       failed, "ok")

\* Any other section: its rows, or none because its script caught the error; schema is capped.
RunPlain ==
    /\ call.pc = "run" /\ call.section \notin GroupSections
    /\ \E n \in 0 .. Cap + 1, caught \in BOOLEAN :
         LET capped == call.section = "schema" /\ n > Cap
             warnings == IF capped THEN {<<"truncated", "">>} ELSE {}
         IN  /\ caught => call.section \in EmptyOnError /\ n = 0
             /\ events' = events \cup warnings
             /\ Return(call.api, [i \in 1 .. (IF capped THEN Cap ELSE n) |-> call.section],
                       IF call.api = "page" THEN warnings ELSE {},
                       IF capped THEN {"rows"} ELSE {}, IF caught THEN "caught" ELSE "ok")

\* query_page turns a RuntimeError or a ValueError into an empty page; query raises it.
RunFails ==
    /\ call.pc = "run"
    /\ \E failure \in Failures :
         /\ events' = events \cup FailureEvents(failure, Entry)
         /\ Return(IF call.api = "page" THEN "page" ELSE "raised", <<>>, {}, {}, failure)

Next == \/ Begin \/ Enumerate \/ EnumerateFails
        \/ Collect \/ CollectFails \/ CollectEnds \/ Done
        \/ RunGroups \/ RunPlain \/ RunFails

\* The connector runs by itself once called, and subprocess.run has a timeout.
Fairness == /\ WF_vars(Enumerate \/ EnumerateFails)
            /\ WF_vars(Collect \/ CollectFails \/ CollectEnds \/ Done)
            /\ WF_vars(RunGroups \/ RunPlain \/ RunFails)

Spec == Init /\ [][Next]_vars /\ Fairness
-----------------------------------------------------------------------------
Kinds == {"none", "page", "query", "raised"}

TypeOK ==
    /\ call.pc \in {"idle", "enumerate", "collect", "returned", "run"}
    /\ call.section \in Sections \cup {""}
    /\ call.api \in {"", "page", "query"}
    /\ call.next \in 1 .. Len(call.dcs) + 1
    /\ call.dcs \in {SubSeq(DcList, 1, n) : n \in 0 .. Len(DcList)}
    /\ call.failed \cup call.silent \subseteq {call.dcs[k] : k \in 1 .. call.next - 1}
    /\ answer.kind \in Kinds

\* The positions of the rows about a DC.
About(dc) == {i \in DOMAIN call.rows : Get(call.rows[i], "DC", Null) = Str(dc)}

\* Every DC that was enumerated is accounted for when the call returns: one row that says
\* Unreachable if its PowerShell failed, the rows of its script if not, DC after DC; a failure of
\* one loses nothing of the others (collect_dc_inventory).
InventoryIsComplete ==
    call.pc = "returned" =>
        /\ \A k \in DOMAIN call.dcs :
              LET dc == call.dcs[k] IN
              /\ dc \in call.failed => /\ Cardinality(About(dc)) = 1
                                       /\ \A i \in About(dc) :
                                             call.rows[i]["Status"] = Str("Unreachable")
              /\ dc \notin call.failed \cup call.silent => About(dc) # {}
        /\ \A k, l \in DOMAIN call.dcs :
              k < l => \A i \in About(call.dcs[k]), j \in About(call.dcs[l]) : i < j

\* A DC whose PowerShell failed has a row that flags it and a line in the event log from that
\* moment on, whatever happens to the DCs after it.
FailedIsFlagged ==
    \A dc \in call.failed :
        /\ \E i \in DOMAIN call.rows : call.rows[i] = Fallback(call.section, dc)
        /\ <<"unreachable", dc>> \in events

\* An answer that lacks groups or schema objects says so in its warnings, all of them are in the
\* event log, and the log names each group, although the warning of a single group is kept out of
\* the answer of group_members (_warnings_for_json).
MissingIsWarned ==
    answer.kind = "page" /\ answer.section \in GroupSections \cup {"schema"} /\ answer.missing # {} =>
        /\ answer.warnings # {} /\ answer.warnings \subseteq events
        /\ answer.section = "schema" \/ \A g \in answer.missing : <<"group", g>> \in events

\* What the rows of a call say is still there when they have been through a file and its tables.
Survives(section, rows) ==
    \A i \in DOMAIN rows : \A c \in DOMAIN rows[i] :
        Get(Loaded(section, rows)[i], c, Null) = rows[i][c]

\* When the PowerShell of the very first DC fails, the table that is built from its row loses nothing
\* of the DCs that answer: the row has the columns of theirs (_DC_INVENTORY_EMPTY_FIELDS with
\* _create_and_insert).  Not claimed of eventlog_config, whose row has none of them, nor when a
\* warning row or a row that ntp_config's own catch printed comes first (InventorySurvivesStorage).
FallbackFitsTable ==
    /\ call.section \in Inventory \ {"eventlog_config"}
    /\ call.dcs # <<>> /\ Len(call.dcs) <= Many /\ call.dcs[1] \in call.failed
    => Survives(call.section, call.rows)

\* "Live Mode snapshots and Offline Mode JSON files share the same format, enabling ... full
\* interoperability between modes": what the tools show live of the DCs is still there when the
\* snapshot is loaded.
InventorySurvivesStorage == call.pc = "returned" => Survives(call.section, call.rows)

\* "partial data is always explicit": a page that is empty because PowerShell failed says so.
PartialIsExplicit ==
    answer.kind = "page" /\ answer.cause # "ok" => answer.warnings # {}

\* A call of a tool ends, however its scripts fail.
CallReturns == call.pc # "idle" ~> call.pc = "idle"
================================================================================
