------------------------------ MODULE QueryTools -------------------------------
(***************************************************************************)
(* The tools that answer from one section (tools/ users, computers,       *)
(* groups, dcs, fsp and the rest), asked page by page while the directory  *)
(* changes and the JSON file behind an offline forest is loaded again.  A  *)
(* live tool runs the section's script at every call; an offline one reads *)
(* the table loaded last.  The users are rows with all their fields; the   *)
(* other sections have the fixed rows of the constant Fixed.               *)
(***************************************************************************)
EXTENDS Storage

CONSTANTS Account,     \* the user objects that can exist: records, see QueryAssumption
          FirstDir,    \* the users at first, in the order AD returns them
          Fixed,       \* the rows of every section but users
          Limit,       \* the page sizes a client asks for
          MaxChanges,  \* bound: changes of the directory
          FilterSets,  \* the sets of filters a client gives to get_users
          MaxLoads     \* bound: loads of the JSON file

\* An account has a name, the flags of its userAccountControl or {"unreadable"}, and the values
\* of the other fields as the script reads them; a section has rows.
ASSUME QueryAssumption ==
    /\ \A a \in Account :
          /\ a.uac = {"unreadable"} \/ a.uac \subseteq {"enabled", "never_expires", "trusted",
                                                        "trusted_to_auth", "not_required"}
          /\ a.locked \in BOOLEAN
          /\ a.logon \in {"never", "old", "recent"} /\ a.name \notin ListText
          /\ a.sids \in ListText /\ a.delegate \notin ListText /\ JsonValue(a.pgid)
    /\ FirstDir \in Seq(Account)
    /\ DOMAIN Fixed = KNOWN_SECTIONS \ {"users"}
    /\ \A s \in DOMAIN Fixed : Fixed[s] \in Seq({Fixed[s][i] : i \in DOMAIN Fixed[s]})
    /\ Limit \subseteq Nat \ {0} /\ MaxChanges \in Nat /\ MaxLoads \in Nat

Modes == {"live", "offline"}

\* Windows PowerShell 5.1 (live.py, and the collector) or PowerShell 7 (the collector).
Shells == {"5.1", "7"}

VARIABLES dir,      \* the users in AD now
          loaded,   \* what the offline connector loaded: the table of users, and the directory
                    \* and the shell that it comes from
          walk,     \* one client that asks a tool for page after page
          changes, loads

vars == <<dir, loaded, walk, changes, loads>>
-----------------------------------------------------------------------------
\* ConvertTo-Json of a DateTime: 5.1 writes /Date(ms)/, 7 writes ISO 8601.
JsonDate(when, shell) ==
    IF when = "never" THEN Null
    ELSE IF shell = "7" THEN Str(when)
    ELSE Str(IF when = "old" THEN "/Date(old)/" ELSE "/Date(recent)/")

\* A field computed from userAccountControl: null if that could not be read.
UacField(account, flag) ==
    IF account.uac = {"unreadable"} THEN Null ELSE Bool(flag \in account.uac)

\* What the users script (and Users.psm1) makes of an object.
UserRow(account, shell) ==
    [SamAccountName |-> Str(account.name),
     Enabled |-> UacField(account, "enabled"),
     PasswordNeverExpires |-> UacField(account, "never_expires"),
     TrustedForDelegation |-> UacField(account, "trusted"),
     TrustedToAuthForDelegation |-> UacField(account, "trusted_to_auth"),
     PasswordNotRequired |-> UacField(account, "not_required"),
     LockedOut |-> Bool(account.locked),
     LastLogonDate |-> JsonDate(account.logon, shell),
     AdminCount |-> account.admin,
     SIDHistory |-> List(account.sids),
     AllowedToDelegateTo |-> Str(account.delegate),
     PrimaryGroupID |-> account.pgid,
     CannotChangePassword |-> Bool(account.cannot = "True")]

Users(accounts, shell) == [i \in DOMAIN accounts |-> UserRow(accounts[i], shell)]

FixedStored == [s \in DOMAIN Fixed |-> Loaded(s, Fixed[s])]

\* The rows a tool gets from the connector.
Rows(mode, section) ==
    IF section = "users" THEN IF mode = "live" THEN Users(dir, "5.1") ELSE loaded.users
    ELSE IF mode = "live" THEN Fixed[section] ELSE FixedStored[section]

LoadOf(accounts, shell) ==
    [dir |-> accounts, shell |-> shell, users |-> Loaded("users", Users(accounts, shell))]
-----------------------------------------------------------------------------
\* (now - fromisoformat(value)).days > 90, for the texts of the model
Parses(v) == v[2] \in {"old", "recent"}
Over90Days(v) == v[2] = "old"

\* The staleness test of get_user_summary, get_users and get_computers.
IsStale(row) == LET last == row.LastLogonDate
                IN  Truthy(last) /\ Parses(last) => Over90Days(last)

\* The one of get_computer_summary: a date that does not parse is skipped.
CountsStale(row) == LET last == row.LastLogonDate
                    IN  Truthy(last) => Parses(last) /\ Over90Days(last)

\* A date that fromisoformat refuses: get_computers lists the computer as stale, its summary does
\* not count it.
DateUnread(row) == Truthy(row.LastLogonDate) /\ ~Parses(row.LastLogonDate)

\* _get_primary_group_id(u) == 513
PrimaryGroupIsDomainUsers(v) == v \in {Null, Number("513"), Str("513"), List("[513]"), List("[]")}

Delegated(row) == \/ is_true(row.TrustedForDelegation)
                  \/ is_true(row.TrustedToAuthForDelegation)
                  \/ Truthy(row.AllowedToDelegateTo)

\* One filter of get_users: "enabled" asks for enabled=True, "not_enabled" for enabled=False.
Matches(row, filter) ==
    CASE filter = "enabled" -> is_true(row.Enabled)
      [] filter = "not_enabled" -> is_false(row.Enabled)
      [] filter = "uac_unreadable" -> row.Enabled = Null
      [] filter = "admin_count" -> is_admin_count_set(row.AdminCount)
      [] filter = "not_admin_count" -> ~is_admin_count_set(row.AdminCount)
      [] filter = "stale_only" -> IsStale(row)
      [] filter = "delegation_only" -> Delegated(row)
      [] filter = "password_never_expires" -> is_true(row.PasswordNeverExpires)
      [] filter = "not_password_never_expires" -> is_false(row.PasswordNeverExpires)
      [] filter = "password_not_required" -> is_true(row.PasswordNotRequired)
      [] filter = "not_password_not_required" -> is_false(row.PasswordNotRequired)
      [] filter = "locked_out" -> is_true(row.LockedOut)
      [] filter = "not_locked_out" -> ~is_true(row.LockedOut)
      [] filter = "has_sid_history" -> Truthy(row.SIDHistory)
      [] filter = "not_has_sid_history" -> ~Truthy(row.SIDHistory)
      [] filter = "no_last_logon" -> ~Truthy(row.LastLogonDate)
      [] filter = "primary_group_not_domain_users" ->
            ~PrimaryGroupIsDomainUsers(row.PrimaryGroupID)
      [] filter = "cannot_change_password" -> is_true(row.CannotChangePassword)

UserFilters ==
    {"enabled", "not_enabled", "uac_unreadable", "admin_count", "not_admin_count",
     "stale_only", "delegation_only", "password_never_expires",
     "not_password_never_expires", "password_not_required", "not_password_not_required",
     "locked_out", "not_locked_out", "has_sid_history", "not_has_sid_history",
     "no_last_logon", "primary_group_not_domain_users", "cannot_change_password"}

\* A client can only give filters that get_users has.
ASSUME FilterAssumption == FilterSets \subseteq SUBSET UserFilters

\* Slip: if enabled: in place of if enabled is not None:.
EnabledIfTrue(rows, filters) ==
    Filtered(rows, LAMBDA u : \A f \in filters \ {"not_enabled"} : Matches(u, f))

\* get_users: the filters are applied one after the other.
get_users(rows, filters) ==
    Filtered(rows, LAMBDA u : \A f \in filters : Matches(u, f))

Count(rows, Test(_)) == Cardinality(Kept(rows, Test))

\* get_user_summary: each number under the name of the filter that lists the same accounts.
get_user_summary(rows) ==
    [total |-> Len(rows),
     enabled |-> Count(rows, LAMBDA u : is_true(u.Enabled)),
     not_enabled |-> Count(rows, LAMBDA u : is_false(u.Enabled)),
     uac_unreadable |-> Count(rows, LAMBDA u : u.Enabled = Null),
     password_never_expires |-> Count(rows, LAMBDA u : is_true(u.PasswordNeverExpires)),
     password_not_required |-> Count(rows, LAMBDA u : is_true(u.PasswordNotRequired)),
     locked_out |-> Count(rows, LAMBDA u : is_true(u.LockedOut)),
     delegation_only |-> Count(rows, Delegated),
     stale_only |-> Count(rows, IsStale),
     no_last_logon |-> Count(rows, LAMBDA u : ~Truthy(u.LastLogonDate)),
     primary_group_not_domain_users |->
        Count(rows, LAMBDA u : ~PrimaryGroupIsDomainUsers(u.PrimaryGroupID)),
     cannot_change_password |-> Count(rows, LAMBDA u : is_true(u.CannotChangePassword))]
-----------------------------------------------------------------------------
\* get_computers with at most one filter
get_computers(rows, filters) ==
    Filtered(rows, LAMBDA c :
        \A f \in filters :
            CASE f = "enabled" -> is_true(c.Enabled)
              [] f = "not_enabled" -> ~is_true(c.Enabled)
              [] f = "stale_only" -> IsStale(c)
              [] f = "delegation_only" -> Delegated(c))

get_computer_summary(rows) ==
    [total |-> Len(rows),
     enabled |-> Count(rows, LAMBDA c : is_true(c.Enabled)),
     not_enabled |-> Count(rows, LAMBDA c : ~is_true(c.Enabled)),
     stale_90d |-> Count(rows, CountsStale),
     cno |-> Count(rows, LAMBDA c : is_true(c.IsCNO)),
     vco |-> Count(rows, LAMBDA c : is_true(c.IsVCO)),
     trusted_for_delegation |-> Count(rows, LAMBDA c : is_true(c.TrustedForDelegation))]
-----------------------------------------------------------------------------
\* The tools that return query_page(section, offset, limit), with the section each one names.
UserTools == {<<"get_privileged_accounts", "privileged_accounts">>}
GroupTools == {<<"get_groups", "groups">>}
DcTools == {<<"get_domain_controllers", "dcs">>, <<"get_eventlog_config", "eventlog_config">>,
            <<"get_ntp_config", "ntp_config">>}
GpoTools == {<<"get_gpos", "gpos">>, <<"get_gpo_links", "gpo_links">>,
             <<"get_blocked_inheritance_ous", "blocked_inheritance">>}
SiteTools == {<<"get_sites", "sites">>, <<"get_site_links", "site_links">>}
ForestTools == {<<"get_schema_extensions", "schema">>}
DomainTools == {<<"get_domains", "domains">>}
DnsTools == {<<"get_dns_zones", "dns">>}
OuTools == {<<"get_ous", "ous">>}
PkiTools == {<<"get_certification_authorities", "pki">>}
FgppTools == {<<"get_fgpp", "fgpp">>}
TrustTools == {<<"get_trusts", "trusts">>}
SysvolTools == {<<"get_sysvol_state", "sysvol">>}

PlainTools == UNION {UserTools, GroupTools, DcTools, GpoTools, SiteTools, ForestTools,
                     DomainTools, DnsTools, OuTools, PkiTools, FgppTools, TrustTools,
                     SysvolTools}

\* The tools that return a whole section, or its first row.
ForestLists == {<<"get_optional_features", "optional_features">>, <<"get_forest_info", "forest">>,
                <<"get_schema_product_presence", "schema_products">>}
DcLists == {<<"get_fsmo_roles", "fsmo_roles">>}
GroupLists == {<<"get_privileged_groups", "privileged_groups">>}
DnsLists == {<<"get_dns_forwarders", "dns_forwarders">>}
DomainLists == {<<"get_default_password_policy", "default_password_policy">>}

ListTools == UNION {ForestLists, DcLists, GroupLists, DnsLists, DomainLists}

\* The tools that take dc_name and slice the rows themselves when it is given.
DcNameTools == {<<"get_dc_features", "dc_windows_features">>, <<"get_dc_services", "dc_services">>,
                <<"get_dc_software", "dc_installed_software">>,
                <<"get_dc_file_locations", "dc_file_locations">>,
                <<"get_dc_network_config", "dc_network_config">>}

\* What a client can ask for page by page: a tool, its section and one argument.
Asks == {<<tool[1], tool[2], {}>> : tool \in PlainTools}
        \cup {<<tool[1], tool[2], {dc}>> : tool \in DcNameTools, dc \in {"DC1", "dc2"}}
        \cup {<<"get_users", "users", fs>> : fs \in FilterSets}
        \cup {<<"get_fsp", "fsp", fs>> : fs \in {{}, {"orphaned_only"}}}
        \cup {<<"get_group_members", "group_members", {g}>> : g \in {"Staff", "nobody"}}

\* The rows that match, before they are cut into pages.
AnswerOf(rows, ask) ==
    CASE ask[1] = "get_users" -> get_users(rows, ask[3])
      [] ask[1] = "get_fsp" ->
            Filtered(rows, LAMBDA r : ask[3] # {} => is_true(Get(r, "IsOrphaned", Null)))
      [] ask[1] = "get_group_members" ->
            ByColumn(rows, "GroupName", CHOOSE g \in ask[3] : TRUE)
      [] <<ask[1], ask[2]>> \in DcNameTools -> ByColumn(rows, "DC", CHOOSE dc \in ask[3] : TRUE)
      [] OTHER -> rows

Answer(ask, mode) == AnswerOf(Rows(mode, ask[2]), ask)

\* The page of a tool that was given dc_name.
DcPage(answer, offset, limit) ==
    [items |-> Slice(answer, offset, limit), total |-> Len(answer),
     has_more |-> offset + limit < Len(answer)]

PageOf(ask, answer, offset, limit) ==
    IF <<ask[1], ask[2]>> \in DcNameTools THEN DcPage(answer, offset, limit)
    ELSE Page(answer, offset, limit)
-----------------------------------------------------------------------------
NoWalk == [open |-> FALSE, ask |-> <<>>, mode |-> "live", limit |-> 1, got |-> <<>>,
           first |-> <<>>, steady |-> TRUE, more |-> FALSE]

Init == /\ dir = FirstDir
        /\ loaded \in {LoadOf(FirstDir, shell) : shell \in Shells}
        /\ walk = NoWalk
        /\ changes = 0 /\ loads = 0

\* An account is created anywhere in the order of the answer, or deleted.
Change == /\ changes < MaxChanges
          /\ \/ \E a \in Account, k \in 0 .. Len(dir) :
                  /\ \A i \in DOMAIN dir : dir[i] # a
                  /\ dir' = SubSeq(dir, 1, k) \o <<a>> \o SubSeq(dir, k + 1, Len(dir))
             \/ \E k \in DOMAIN dir :
                  dir' = SubSeq(dir, 1, k - 1) \o SubSeq(dir, k + 1, Len(dir))
          /\ changes' = changes + 1
          /\ walk' = [walk EXCEPT !.steady = @ /\ walk.mode # "live"]
          /\ UNCHANGED <<loaded, loads>>

\* The directory is collected, by a snapshot or by the collector, and the offline connector
\* loads the file.
Load == /\ loads < MaxLoads
        /\ \E shell \in Shells : loaded' = LoadOf(dir, shell)
        /\ loads' = loads + 1
        /\ walk' = [walk EXCEPT !.steady = @ /\ walk.mode # "offline"]
        /\ UNCHANGED <<dir, changes>>

\* A client starts to ask a tool for pages.
Begin == /\ ~walk.open
         /\ \E ask \in Asks, mode \in Modes, limit \in Limit :
              walk' = [NoWalk EXCEPT !.open = TRUE, !.ask = ask, !.mode = mode, !.limit = limit,
                                     !.first = Answer(ask, mode), !.more = TRUE]
         /\ UNCHANGED <<dir, loaded, changes, loads>>

\* One call of the tool, for what follows the rows that the client has; it goes on while has_more
\* says so.
NextPage ==
    /\ walk.open /\ walk.more
    /\ LET page == PageOf(walk.ask, Answer(walk.ask, walk.mode), Len(walk.got), walk.limit)
       IN  walk' = [walk EXCEPT !.got = @ \o page.items, !.more = page.has_more]
    /\ UNCHANGED <<dir, loaded, changes, loads>>

End == /\ walk.open /\ ~walk.more
       /\ walk' = NoWalk
       /\ UNCHANGED <<dir, loaded, changes, loads>>

Next == Change \/ Load \/ Begin \/ NextPage \/ End

\* A client that was told has_more asks again, and stops when it was not.
Fairness == WF_vars(NextPage) /\ WF_vars(End)

Spec == Init /\ [][Next]_vars /\ Fairness
-----------------------------------------------------------------------------
Accounts == UNION {[1 .. n -> Account] : n \in 0 .. Len(FirstDir) + MaxChanges}

\* What SQLite gives back is null, a text or a list.
TypeOK ==
    /\ dir \in Accounts
    /\ loaded.dir \in Accounts /\ loaded.shell \in Shells
    /\ walk.open \in BOOLEAN /\ walk.more \in BOOLEAN /\ walk.steady \in BOOLEAN
    /\ walk.open => walk.ask \in Asks /\ walk.mode \in Modes /\ walk.limit \in Limit
    /\ \A i \in DOMAIN loaded.users : \A c \in DOMAIN loaded.users[i] :
          loaded.users[i][c][1] \in {"null", "str", "list"}
    /\ changes \in 0 .. MaxChanges /\ loads \in 0 .. MaxLoads

\* Pages put together give each matching row once, in order, and nothing is left over when
\* has_more turns false, whatever the page size, as long as the source did not change under
\* the walk; in a live forest that is the directory, in an offline one the loaded file.
WalkIsExact ==
    walk.open /\ walk.steady =>
        /\ walk.got = Slice(walk.first, 0, Len(walk.got))
        /\ Len(walk.got) < Len(walk.first) => walk.more
        /\ walk.more => Len(walk.got) < Len(walk.first) \/ walk.got = <<>>

\* The four properties that follow are about the tools' answers over the rows of a state, which
\* a walk does not change: they are evaluated between walks.

\* Live Mode and Offline Mode answer alike: a tool reads the same records, under every filter,
\* from the rows of the script and from what SQLite gives back of the same rows (the claim of
\* _normalize.py).
Names(rows) == [i \in DOMAIN rows |-> rows[i][IF "SamAccountName" \in DOMAIN rows[i]
                                              THEN "SamAccountName" ELSE "Id"][2]]

ModesAgree ==
    ~walk.open /\ loaded.dir = dir /\ loaded.shell = "5.1" =>
        /\ \A ask \in Asks : Names(Answer(ask, "live")) = Names(Answer(ask, "offline"))
        /\ \A f, g \in UserFilters :
              Names(get_users(Rows("live", "users"), {f, g}))
                = Names(get_users(Rows("offline", "users"), {f, g}))
        /\ \A tool \in ListTools :
              Names(Rows("live", tool[2])) = Names(Rows("offline", tool[2]))
        /\ \A f \in {"enabled", "not_enabled", "stale_only", "delegation_only"} :
              Names(get_computers(Rows("live", "computers"), {f}))
                = Names(get_computers(Rows("offline", "computers"), {f}))

\* Each number of get_user_summary but the total, and enabled and disabled of get_computer_summary,
\* is the length of the list that the filter of the same meaning gives.  stale_90d of
\* get_computer_summary is not: it falls short of the list of stale computers by exactly those whose
\* date does not parse.
SummaryMatchesLists ==
    ~walk.open => \A mode \in Modes :
        LET users == Rows(mode, "users")
            summary == get_user_summary(users)
            computers == Rows(mode, "computers")
            counts == get_computer_summary(computers)
        IN  /\ \A f \in DOMAIN summary \ {"total"} : summary[f] = Len(get_users(users, {f}))
            /\ \A f \in {"enabled", "not_enabled"} :
                  counts[f] = Len(get_computers(computers, {f}))
            /\ Len(get_computers(computers, {"stale_only"}))
                  = counts.stale_90d + Count(computers, DateUnread)

\* enabled + disabled + uac_unreadable_count = total: no account whose userAccountControl could
\* not be read is counted as enabled or disabled, nor lost (docstring of get_user_summary).
UacPartition ==
    ~walk.open => \A mode \in Modes :
        LET summary == get_user_summary(Rows(mode, "users"))
        IN  summary.enabled + summary.not_enabled + summary.uac_unreadable = summary.total

\* An account that has not logged on for 90 days, or ever, is never missing from
\* get_users(stale_only=True), however its date was written.
StaleIsFound ==
    ~walk.open => \A mode \in Modes :
        LET accounts == IF mode = "live" THEN dir ELSE loaded.dir
            found == get_users(Rows(mode, "users"), {"stale_only"})
        IN  \A i \in DOMAIN accounts :
                accounts[i].logon # "recent" =>
                    \E k \in DOMAIN found : found[k].SamAccountName = Str(accounts[i].name)

\* "If True, return only accounts with no logon in 90+ days or that have never logged on"
\* (get_users, and the same of get_computers).
StaleIsOld ==
    \A mode \in Modes :
        LET accounts == IF mode = "live" THEN dir ELSE loaded.dir
            found == get_users(Rows(mode, "users"), {"stale_only"})
        IN  \A i \in DOMAIN accounts, k \in DOMAIN found :
                found[k].SamAccountName = Str(accounts[i].name) => accounts[i].logon # "recent"

\* Accounts that are created or deleted while a client walks through get_users of a live forest
\* shift what is behind them: when the client is told that there is no more, each change has cost it
\* at most one account, skipped though it was there all along or given twice.
ChangesCostOne ==
    walk.open /\ ~walk.more /\ walk.mode = "live" /\ walk.ask[1] = "get_users" =>
        LET NamesOf(rows) == {Names(rows)[i] : i \in DOMAIN rows}
            skipped == (NamesOf(walk.first) \cap NamesOf(Answer(walk.ask, "live"))) \ NamesOf(walk.got)
            repeats == Len(walk.got) - Cardinality(NamesOf(walk.got))
        IN  Cardinality(skipped) + repeats <= changes

\* A client that follows has_more comes to the end of every tool, even when accounts are created
\* and deleted between its calls.
WalkEnds == walk.open ~> ~walk.open
================================================================================
