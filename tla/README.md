# LegacyMCP in TLA+

LegacyMCP is a Model Context Protocol server that exposes Active Directory data as tools. This
directory models the parts of it in which several activities meet (tool calls, snapshot
threads, the collector, the directory, clients that repeat their requests, the installer and
the service that restarts its server), and the parts where many small cases must agree (the
query tools over two data sources). It checks them with TLC on small instances, and proves the
most important results with TLAPS for every instance.

Paths below are relative to the repository. `snapshot.py` without a directory is in
`src/legacy_mcp/tools/`.

## 1. Inventory of the system

| Component | State | Operations | What is hard | What makes it correct |
|---|---|---|---|---|
| Snapshot jobs (`snapshot.py`, `snapshot_jobs.py`) | `_jobs`, a dictionary under a lock; daemon threads; snapshot files | `create_snapshot`, `_run_snapshot_job`, `get_snapshot_status`, `list_snapshots` | threads share the file system with no lock; they die with the process; every step of the file's life can fail | reports are true of the files; nobody reads half a file; every job is reported |
| Workspace and offline connector (`workspace/workspace.py`, `modes/offline.py`, `workspace_info.py`, `load_snapshot`) | list of forests, connectors by name, `_engine` cache per connector | `from_config`, `connector`, `query`, `list_workspaces`, `reload_workspace`, `load_snapshot` | the cache is filled and cleared with no lock, by tool calls and by snapshot threads; the files change underneath | a reload is followed by fresh answers; a query never meets an empty cache; names resolve |
| Membership expansion (`collector/modules/Membership.psm1`, copied in `modes/live.py`) | visited, collected and unresolved names; the recursion | `Expand-ADGroupMembership`, `Resolve-ADMemberByDN`, `Get-RawGroupMemberDNs` | cyclic and shared nesting, members that do not resolve, a directory that changes meanwhile | terminates; finds exactly what is reachable; a broken member costs itself only |
| OAuth endpoints and Bearer check (`oauth.py`, `auth.py`) | `_pending_codes`, `_NONCE_STORE` in memory | `/register`, `/authorize`, `/token` | repeated requests, expiry, the cap on pending codes, restarts | each credential is good once, until it expires; stores do not grow |
| Live connector (`modes/live.py`) | none between calls; within one the DCs done, the rows, the warnings | `query`, `query_page`, `query_with_warnings`, `collect_dc_inventory`, `enumerate_dcs` | errors become rows, warnings or nothing; one DC or one group of many fails; every step is a process with a timeout | partial data says that it is partial; one failure costs nothing else; the call returns |
| Storage (`storage/loader.py`, `storage/queries.py`, `tools/_normalize.py`) | an in-memory SQLite database per connector | `load`, `query`, `query_page`, `count` | columns come from the first row; values are encoded on the way in and decoded on the way out | a tool cannot tell a stored row from a live one; paging covers everything once |
| Query tools (`tools/users.py`, `dcs.py`, `groups.py`, `computers.py`, ...) | none | one or more tools per section | paging of a source that changes, filters on three-valued flags, two date notations | counts, lists and pages agree; live and offline answers agree |
| Configuration and start (`server.py`, `config.py`, `config_registry.py`) | `config.yaml`, registry values, environment | `load`, `_validate`, `main`, `_run_with_tls` | sources with precedence; profiles that fix the mode; decryption that may fail, for good or in passing | no start without what is configured; the port and the key are those of the registry |
| Event log writer (`eventlog/writer.py`) | the Windows event log | `write`, `warn` | none: it swallows its own errors | never disturbs its caller |
| Windows service (`service/windows_service.py`) | a thread, an event | `start`, `stop` | the server's thread may be dead while the service is Running | a stop stops, a death shows |
| Collector run (`collector/Collect-ADData.ps1`, `Logging.psm1`) | the output file, its backup, counters | one run: probe, collect sections, back up, write, verify | stopped at any point; files written in place; clashing backup names | the old or the new data is there |
| Collector sections (`DomainControllers.psm1`, `Computers.psm1`, `DNS.psm1`, `GPO.psm1`, `Forest.psm1`, `Groups.psm1`, `Users.psm1`) | none of their own | directory queries | per-object failures | a failure is a row or a warning |
| Workspace script (`installer/Manage-Workspaces.ps1`) | `config.yaml` and backups of it | list, add, remove, validate, repair | read, change, write of one file with no lock | no forest is lost; the file always loads |
| Setup (`installer/Setup-LegacyMCP.ps1` and its modules) | registry, certificate and key files, service, `config.yaml` | Install (with [K]eep or [R]egenerate), Configure, Uninstall | a dozen steps with effects outside the process, any of which may be the last | certificate, key, password, account and API key agree; a run that is repeated repairs one that was stopped |
| Wizard (`LegacyMCP.Gui*.psm1`) | the page, the answers | next, back, run | an answer changed after a later page was filled from it | what runs is what is shown |
| Permission scripts (`Set-`, `Remove-`, `Test-LegacyMCPPermissions.ps1`) | group memberships and ACLs | grant, revoke, test | partial application | revoke undoes grant; test tells the truth |

How they meet: an MCP client calls tools on the event loop of the server, one at a time (the
tools are plain functions, so FastMCP runs each to its end). A tool asks the `Workspace` for a
connector. `create_snapshot` starts a daemon thread that queries the *same connector object*
while the event loop goes on. `load_snapshot` adds a connector for a file that such a thread
has written. The collector runs as another process, often on another machine, and rewrites the
JSON file that an offline connector reads. The OAuth endpoints share the HTTP server and nothing
else. A tool that lists a section calls `query_page` of its connector, which is a SELECT offline
and a PowerShell process live; a snapshot stores the live rows as JSON, and the loader makes
tables of them. The scripts of the installer work on the files and registry values that the
server reads when it starts, and the service manager starts the server again whenever it exits.

The hazards that follow from this are listed in `PROJECT.json`, each at the line where it bites
and with the properties that would catch it.

## 2. Modules

| Module | Models | Remarks |
|---|---|---|
| `SnapshotStore` | what the snapshot tools promise | abstract: no threads, no temporary files, no job records |
| `SnapshotJobs` | the job store, the worker threads and the files | implements `SnapshotStore` |
| `MCSnapshotJobs` | instances of it | default names, and names that clash |
| `SnapshotJobsProofs` | theorems about it | |
| `OfflineWorkspace` | workspace, connectors, `_engine`, tool calls, threads, collector | |
| `OfflineWorkspaceProofs` | theorems about it | |
| `MCOfflineWorkspace` | instances of it | |
| `Membership` | the recursive expansion, and a directory that changes | parameterised enough to be its own instance |
| `MembershipProofs` | theorems about it | |
| `OAuth` | both stores and the endpoints that change them | likewise |
| `OAuthProofs` | theorems about it | |
| `Storage` | values on their way through SQLite, filters, pages | operators only |
| `QueryTools` | the tools, one client that walks through pages, a directory and a file that change | extends `Storage` |
| `QueryToolsProofs` | theorems about it | |
| `MCQueryTools` | the accounts and rows of its instance | |
| `LiveQuery` | one call of a live connector, process by process | extends `Storage`; its group scripts use the expansion of `Membership` as one step |
| `LiveQueryProofs` | theorems about it | |
| `MCLiveQuery` | the DCs and groups of its instance | |
| `ServerStart` | configuration, profiles, precedence, the Bearer check | operators only |
| `Deployment` | Setup, the service manager and the start of the server on one machine | extends `ServerStart` |
| `DeploymentProofs` | theorems about it | |
| `CleanSetupProofs` | what holds while every run of Setup goes well | extends `DeploymentProofs` |
| `MCDeployment` | the configurations of its instance | |

Definitions whose comment begins with "Slip" are not part of a specification. Each is a
plausible mistake in the definition that follows it (a guard dropped, an order swapped, a reset
forgotten) and is kept beside it to see the properties fail; `PROJECT.json` says which property
fails with which slip.

### SnapshotJobs

One action per step of `_run_snapshot_job` that other activities can tell apart: report the
step (`StartSection`), query the section (`QuerySection`), build and encrypt the payload
(`Prepare`), open the temporary file (`OpenTmp`), fill it (`WriteTmp`), `os.replace` it
(`ReplaceDest`), and report (`CompleteJob`, `FailJob`). `thr[j]` is the thread's program counter
and its local variables, `jobs` the store, `fs` the files. `Restart` ends the process between any
two steps and starts it again: files stay, `_jobs` and threads do not.

What a snapshot holds is abstracted to whose it is: a path holds a job (its whole snapshot),
nothing, an empty file, or a `Torn` one. Opening truncates at once; between opening and the end
of the write the handle is open; a write over another writer's bytes leaves either writer's
snapshot or a mixture. `os.replace` has Windows semantics, since the server is deployed there: it
fails when the source is gone or when anybody has either file open. A job id (a timestamp to the
second with 16 random bits) is taken to be unique. The event log calls that follow the rename
are left out: `eventlog.warn` catches everything.

`Suffix`, `TmpOf` and `Target` are constants, so one module serves both the default names, where
each job's paths are its own (`OwnPaths`), and a client that passes one `output_path` to several
jobs. `x.json` and `x.txt` have the same `with_suffix(".tmp")`.

### OfflineWorkspace

A file is a version number; an engine is the version it was built from, 0 for `None`.
`_ensure_loaded` is four steps (`Check`, `Load`, `Assign`, `Return`), because another activity
can come in between any two of them: the event loop and a snapshot thread both run it, with no
lock. A tool call takes many steps but no other tool call starts before it ends. `promised` is
a history variable: the version that a completed reload lets a client expect.

`disk` says whether the file is there and parses. The collector first renames the old file away,
then writes in place; a reader may meet no file, or a partial one.

### Membership

The recursion is a stack of groups, each with the members its `foreach` has still to visit, and
the group being entered. A lookup is answered according to `kind`: a group, a principal, no such
object (which the code records), or any other failure (which it lets pass up). `Delete` makes an
object vanish between two requests.

### OAuth

A handler has no `await` after it has read its request, so each is one action. A code or a
secret may be presented any number of times, with the right verifier or signature or the wrong
one. `codeUses` and `secretUses` count how often each was turned into the API key. Codes are
numbered in the order they are issued, so the oldest pending codes are the lowest.

### Storage and QueryTools

A JSON value is a pair of its kind and of the text that `str()` gives, since that is all SQLite
keeps of it; `Serialize` and `Deserialize` are the two conversions, and `Stored` composes them with
the rule that a table has the columns of its first row. An account has, for each field that a
filter looks at, the values that the collecting script can make of it, among them
`{"unreadable"}` for a `userAccountControl` that gave an error, and dates in the notation of either
PowerShell. Every list tool is an operator from rows and filters to rows, the summaries are
records. `Begin`, `NextPage` and `End` are a client that follows `has_more`; `Change` and `Load`
come in between. `walk.steady` is a history variable: the source has not changed since the walk
began. `Filtered` says what the list comprehensions keep by positions, so that its length can be
proved.

### LiveQuery

Each action is one `powershell.exe`: `Enumerate`, one `Collect` per DC, `RunGroups`, `RunPlain`. Each
has a failing twin (`EnumerateFails`, `CollectFails`, `RunFails`), for the three ways in which
`_run_subprocess` gives no rows: an exit code, the time limit, output that is not JSON. What a
script itself catches is among its answers: rows that say Unreachable, no rows, warnings.
`call.failed` and `call.silent` note what happened to each DC, `answer.missing` and `answer.cause`
what the answer lacks and why; they are history variables.

### ServerStart and Deployment

`Deployment` is one machine. A run of Setup is its list of steps and the number of the next; each
step is an action on what outlives the process: certificate and key file, `config.yaml`, venv,
registry, service. A key pair is a number, the password of a key file has the number of its pair,
and a secret is a number together with the account that can decrypt it. `Interrupt` stops
Setup between two steps or in the middle of writing a file (which is then torn), `Reboot` the
machine with it. The start of the server is one action per thing it reads; whatever it refuses
ends the process, and the service manager launches it again. `Glitch` bounds the failures without
lasting reason: the decryption helper timing out, the registry not being readable.
`srv.current` says that the registry has not been written since the server read it, `srv.whole` that
it could be read; `hist` notes how Setup's runs ended and for which accounts.

## 3. Runs

| Run | Question | Instance and why it is enough |
|---|---|---|
| `snapshot_own` | Are reports, files and the end of each job right when every job has its own paths? Do the jobs implement the store? | two jobs (all interactions are pairwise), two sections (one collected, one failed), both encryptions, every I/O step may fail, one restart |
| `snapshot_shared` | What still holds when jobs race for one file? | three jobs, so that a pair can collide while a third is between its steps; I/O does not fail by itself, so that failures are the jobs' own doing |
| `workspace` | Are tool calls right while a snapshot thread uses the same connector and the collector rewrites its file? | one live forest, one offline forest, one alias to load, so that a tour goes past a forest that fails; one thread of two sections; two versions of each file |
| `workspace_stale` | Is every query fresh after a reload? | **violated**: a snapshot thread puts the old engine back |
| `membership` | Does the expansion end, and find exactly what is reachable? | every directory over three names, in which all of self-membership, cycles with and without the root, diamonds and unresolved members occur; two deletions |
| `oauth` | Is each credential good once and until it expires? Are the stores bounded? | five codes against a cap of four, so that trimming occurs, and after it; two secrets; a time to live of 1 on a clock of 4; one restart |
| `query` | Are pages exact, what does a change between two of them cost, do both modes answer alike, do summaries agree with lists? | four accounts that between them take every value of every field, pages of one and of two rows over sections of three, one change of the directory, one load of the file; every tool, with filters alone and in pairs (`ChangesCostOne` was checked once with three changes, for get_users alone, and shows nothing else) |
| `query_stale` | Does `stale_only` list stale accounts only? | **violated**: the dates of Windows PowerShell 5.1 do not parse |
| `live` | What does a call return when its processes fail? | three DCs, more than two of which are "many", so that the warning row occurs and does not; two groups with a member in common; a cap of two schema objects; every section that differs from the others |
| `live_silent` | Does an empty page say why it is empty? | **violated**: `query_page` swallows the error |
| `live_interop` | Is what the tools show live still there after a snapshot is loaded? | **violated**: the first row decides the columns |
| `deployment` | Does a machine that Setup has left start its server, with the right key and port? | two runs of Setup in every mode, so that the second meets whatever the first can leave; two service accounts; one interruption or reboot, one edit (four configurations, TLS paths kept, removed or half removed, two profiles in the environment), one passing failure; three runs of Setup were checked once (4 million states) and show nothing else |

Every bound is a constant with "bound:" in its comment. `CHECK_DEADLOCK FALSE` is set where the
system may come to rest: all jobs done, the versions used up, the expansion ended, the
credentials issued, and in `deployment` a machine that nobody touches any more. A
`QueryTools` client and a live connector can always be called again, so their runs check deadlock.

The violated properties are what a docstring, a comment or the README of the repository says; each
is a finding in `PROJECT.json` with the quotation. What does hold beside them is checked in a passing run, or proved:

- `ReloadAloneIsFresh` in an offline workspace, while no snapshot job has been started;
- `StaleIsFound`: no stale account is missing, though others are listed; and `SummaryMatchesLists`, which
  says by how much `stale_90d` of the computers falls short of their list;
- `MissingIsWarned`: an answer of which some groups or schema objects are missing says so;
- `FallbackFitsTable`: a row of a failed DC that comes first costs the others nothing. It is not
  claimed when a warning row comes first, or a row that `ntp_config` printed from its own catch (DC and
  Status only), and not of the event log section, whose fallback row has no columns of data.

Other places where the code does not do what its documents say, met while modelling and not
given a run of their own:

- Two jobs whose `output_path` differ at most in the extension share one temporary file
  (`snapshot.py:98`). Both can write it at once, and the first `os.replace` publishes the mixture
  under a report of completion, although the docstring says that the file "can be loaded back". TLC finds
  this with two jobs of `snapshot_shared` and `NoTornSnapshot`; of jobs that race, only
  `SomeJobPublishes` is claimed.
- `reload_workspace` never clears the cache of a snapshot that was loaded into a live workspace: its
  connector is offline, but its effective mode is live (`workspace_info.py:87`), while the docstring says
  that each connector's cache is cleared. `ReloadAloneIsFresh` fails there and is claimed of offline workspaces only.
- `get_computer_summary` counts none of the computers whose LastLogonDate does not parse as stale
  (`computers.py:49`), and `get_computers(stale_only)` lists all of them (`computers.py:112`). Both
  docstrings (`computers.py:23-24` and `83-84`) speak of the same computers.
- The comment at the schema script says that the truncation warning is "silently discarded before it reaches
  Python. Not fixed here" (`live.py:973-975`). It is not: `_run_subprocess` returns the warnings of a process that succeeds
  (`live.py:1382`) and `query_page` puts them into the page (`live.py:1577`), so a client is told, and
  `MissingIsWarned` holds for the schema too. The comment is from before the warnings were read.
- [K], the recommended answer, says "Existing clients will continue to work without reconfiguration"
  (`Setup-LegacyMCP.ps1:432-436`), but it does not make the password of an encrypted key anew
  (`Setup-LegacyMCP.ps1:580`): after an Install that was stopped between its key file and its registry step,
  it ends without an error with a server that refuses to start. `KeepServes` says that this, a missing
  certificate or key, and pairs that do not fit are all that [K] cannot repair; [R] repairs these as well (`RegenerateRecovers`).
- A DPAPI snapshot written to an `output_path` does not get the extension `.json.dpapi`
  (`snapshot.py:187`).
- A tool that omits `forest_name` raises once `load_snapshot` has added a second forest
  (`workspace/workspace.py:97`).
- A nested group deleted between its lookup and the read of its members costs the whole group
  (`Membership.psm1:214`).
- A certificate imported in Install leaves the key file plain and stores no password, where
  `docs/setup-reference.md:79` says that it is encrypted; the server accepts either.
- [K], or an imported certificate, with another service account than the blobs in the registry were
  made for leaves a server that refuses to start (`KeepServes` and `CleanSetupServes` are about one
  account).
- Configure of an API key on a machine without an installation makes the registry key by which
  Install later recognises one.
- `LEGACYMCP_PORT`, `LEGACYMCP_HOST` and `LEGACYMCP_TRANSPORT` set top-level keys that nothing reads
  (`create_server` reads the section `server`, `main` the registry), although `config.py:27` says that
  environment variables override config values. Only `profile` is read again.
- Without a certificate the server runs plain HTTP and its API key is not asked for;
  `ServesWhatIsSet` is about TLS only. A registry that cannot be read is treated as empty.

### Fairness

`SnapshotJobs`: weak fairness of each thread's steps. They are ordinary threads that nobody
suspends, and each step ends: an offline query is local, a live one is a child process with a
timeout. Nothing is assumed of clients or restarts.
`OfflineWorkspace`: weak fairness of the event loop's steps and of each thread. Nothing is
assumed of the collector, which may stop for ever with a partial file.
`Membership`: weak fairness of the expansion. Nothing is assumed of deletions.
`QueryTools`: weak fairness of the client that is told `has_more`; nothing of the directory or of loads.
`LiveQuery`: weak fairness of the call's steps: `subprocess.run` has a timeout.
`Deployment`: weak fairness of the server process, which the service manager restarts. Setup waits for a
person, so nothing is assumed of it; `ServesAfterSetup` allows that someone runs it again.

## 4. Theorems

TLAPS proves the following for every value of the constants that satisfies the assumptions of
the module.

**SnapshotJobs** (`SnapshotJobsProofs`). `TypeCorrect` and `RacesHaveWinners` need nothing else. The
others assume `OwnPaths`: no two jobs are given the same destination or temporary file, as is the
case for default names. None of the properties is inductive: that a published file is whole depends on
what the temporary file held when it was renamed, hence on nobody having touched it since it was
opened, hence on whose paths are whose. The inductive invariant `IInv` says for every job which
destination its thread has, how far the job store follows the thread (`StoreInStep`), what the
thread has written so far and still finds there (`WrittenSoFar`), what a completed report repeats
(`ReportIsThreads`), that no snapshot exists early or after a failure (`NothingEarly`), and that
sections are accounted for in order (`SectionsOnce`). `OthersKeep` is the heart of it: a step of
one thread, which writes to its own temporary file or publishes its own snapshot, disturbs none of
this for another job. From `IInv` follow `ReportsAreTrue`, `SnapshotsAreWhole`,
`FailuresLeaveNothing`, `OutcomesAreFinal` and, step by step, `JobsImplementStore`: the jobs
implement `SnapshotStore` under the mapping of `Phase`. `CompletedAreListed` needs a second hypothesis,
`NamesTellEncryption` (a name that ends in .json is given to plain snapshots only), because
`list_snapshots` parses a .json file and would pass over an encrypted one.

`RacesHaveWinners` is about the jobs that do share paths, where most of the above is false, and has
an invariant of its own, `RaceInv`: the file that the last one published is there, a temporary file that
a job has opened is only ever taken away by somebody's `os.replace`, and so a job loses only to
one that has published or to one that is still under way; when none is under way, somebody has
won.

**OfflineWorkspace** (`OfflineWorkspaceProofs`). The invariant has the shape of a tool call
(`CallInv`: between calls the event loop is in no connector; in a tour of the forests it is at
the first of those left, and none of those left has been reported), what the cache holds at each
point of a call (`CacheInv`), and small facts on jobs and files. `CacheInv` is inductive because
only the event loop clears a cache, and only for the forest it is at, which is not reported yet;
a snapshot job only ever replaces an engine by another. Hence `ToolCallsHaveEngines` and
`ReportsStayTrue` hold with any number of snapshot jobs and no lock. `FreshInv` adds how old
engines may be, and is where the assumption Mode = "offline" is used: in a live workspace `ReloadIsFreshAlone` fails with the first loaded snapshot (section 3). The condition that no
snapshot job has been started cannot be dropped either (`workspace_stale`). `ToursReachAll` is that a
forest that fails to load costs a tour nothing but itself: at every point of it, of the forests exactly those still to be visited have no entry.

**Membership** (`MembershipProofs`). `ReachInv` says that everything met so far is reachable,
`PendingInv` that every member of a visited group has been found, or is being entered, or waits in
the `foreach` of a group that is on the stack; so when the stack is empty nothing is missing.
Together with `KindInv`, which holds until something is deleted, the names found form a closed
set inside the least closed set, which is `Reachable`: `ExpansionIsExact`. That the depth of the
recursion is bounded (`RecursionIsBounded`) is proved; that the expansion ends is not.

`NobodyIsDropped` is what is left of that when objects are deleted meanwhile: every member of every group
that was entered is in the result of an expansion that ends.

`CyclesAreExact` counts. `CountInv` says at every step that the nestings whose turn has come are as many as
the skips plus the groups entered through a nesting (all visited groups but the root); `TodoInv` says
that what waits in a `foreach` was read as a member and that a group nobody has entered waits
for nothing. A step that takes a member adds one pair to the set of nestings followed, or none, and
one to exactly one of the two numbers.

**OAuth** (`OAuthProofs`). A pending code or stored nonce has been issued and never used, one not issued yet is nowhere, hence `CredentialsAreSingleUse`. `ExpiryIsObserved`: the sweep and the test
agree at the second of expiry, so a secret is accepted exactly as long as it should be. `PendingStaysBounded` and
`FreshCodesAreKept` count: a full store has a lowest code, so trimming removes something, and what
it removes is among the `Evict` lowest of at least `Cap` codes. The assumptions are those of the
module: 0 < Evict < Cap.

**QueryTools** (`QueryToolsProofs`), from `QueryAssumption` and `FilterAssumption`: a list of an account
is written like a JSON list and no other field is, page sizes are positive, and filters are
filters of `get_users`. The invariant `Sourced` says that the loaded table is `Loaded` of
the directory that was collected, by one of the two shells; `Exact`, for a walk whose source has
not changed, that its answer is still the one of its beginning, of which it holds a prefix.
`UacNumbersAddUp` and `SummariesMatchLists` need no more of the rows than that a flag is read the same
way by both sides, after SQLite as well as before; of the stale computers, where the two sides differ, that
the list has the counted ones and those whose date does not parse (`StaleComputersListed`); the length of `Filtered` is a lemma, and the
partition a count of three disjoint sets of positions. `StaleAlwaysFound` is where both date
notations are used: what does not parse counts as stale.

`ModesAnswerAlike` goes over all tools and filters. SQLite gives back the text of every value
(`AnyThrough`); so each test of `_normalize.py` says the same before and after (`JsonThrough`), and the
fields whose truth value is tested come back as they were, since none of them is a number or a
flag (`FieldsAreJson`). Then each filter keeps the same positions of both tables (`UsersAlike`,
`SectionAlike`), and the rows at the same positions are of the same records (`SameNames`). Of the sections
with fixed rows it assumes `SectionsInForm`: a column that a tool looks up is in the first row if it
is in any, every row names its record by the same column, and a computer has the fields of its
script. The condition on the first row is what the loader needs, which takes the columns of a
table from there; the run `live_interop` shows a section that does not meet it. The rows of
`MCQueryTools` satisfy the hypothesis.

**LiveQuery** (`LiveQueryProofs`), from `LiveAssumption`: the DCs are distinct and the entry point is the
first. `Collected` is the invariant of the loop over the DCs: each row is the warning row or about a
DC before the next one (`RowsKnown`), each DC before the next one has its outcome
(`OutcomesKnown`), rows are in the order of the DCs (`RowsOrdered`), and nothing is noted of a DC
before its turn (`HadTheirTurn`). From it follow `InventoriesAreComplete` and `FallbackAlwaysFits`, for
any number of DCs: the first row is the fallback row if the first DC failed (`FirstIsFallback`), and every
row after it has at most its columns (`UniformRows`, `ScriptFacts`). `MissingAlwaysWarned` needs only the shape of the three scripts' warnings.

**Deployment** (`DeploymentProofs`), from `DeploymentAssumption` alone (what stands for "not
set" is no account and no port; every configuration has the five fields and some forest).  The
inductive invariant is the form of each variable, and

- `InstallUnderway`: an Install past its service step has made the service, for its account;
- `Midway`: what an Install that makes new credentials has in place at each of its eleven
  numbered steps, whatever was there before it.  It is why the plan of a run is data (its steps,
  and the number of the next): a lemma (`RegenerateSteps`) gives the place of each of its steps;
- `Recovered`: what such an Install leaves, and what stays so until Setup is run again: neither
  an edit of config.yaml, nor a reboot, nor anything the server does can undo it;
- `Current`: what the server has read, unless it was written since, is what is there.

It gives `TypeOK`, `RegenerateRecovers` and `ServesWhatIsSet` for any accounts, ports and
configurations, and for any number of runs of Setup, edits, stops, reboots and passing failures:
the bounds are guards of the model and the proofs use none of them.

`CleanRunsServe` (`CleanSetupProofs`) is about runs of Setup that neither stopped nor warned. During a
run the files do not agree, so the invariant says of each kind of run what is in order at which of
its steps: an Install that keeps what is there (`KeptInv`) never takes anything out of order, one
that imports (`ImportInv`) has the certificate after its second step and the matching plain key
after its third, Configure (`ConfigureInv`) replaces or rotates in an order in which each step
repairs one thing, Uninstall (`UninstallInv`) removes the service before the files it needs.
`UsedInv` ties every secret and the service to an account that some run has named, so that one
account means that the service can decrypt everything. The plans are again data, and a lemma for
each (`ImportPlanFacts`, `KeptPlanFacts`, `ConfigurePlanFacts`, `UninstallPlanFacts`) gives the places of its steps.

`KeepingRepairs` needs nothing of that: `NamedInv` and `InstallUnderway` hold wherever earlier runs were
stopped, so an Install that ends has named its certificate and made its service, and `UsedInv` does
the rest, if the files and the password fit (`InOrderStarts`).

What only TLC shows is liveness (`EveryJobEnds`, `ToolCallReturns`, `ExpansionEnds`, `WalkEnds`,
`CallReturns`, `ServesAfterSetup`), which is beyond the proof system. Every invariant and every action
property of a passing run is proved, but one: `ChangesCostOne` compares a walk with the directory at its beginning
and with the one at its end, and its induction over both is left to TLC.

Some theorems have no property among the runs. Some are the invariants behind one that has
(`FoundIsReachable`, `NoGroupTwiceOnStack`, `PendingIsBounded`, `IssueLeavesNoExpired`, `LiveSecretIsKept`,
`FailedIsFlagged`, `FailedPublishesNothing`, `NamesResolve`), and `CyclesCounted`, `CompletedIsListed` and `StaleIsFound` are
proved for every instance, which makes their runs on a small one superfluous.

## 5. Plan

Modelled first were the parts where concurrency and failure meet state that clients depend on,
then the two data sources of the tools and the machine that the server is installed on. What
would come next:

1. `CollectorRun`: one run with its rename, write and verification, stopped anywhere, and the
   next, of which the three collector actions of `OfflineWorkspace` would be the abstraction.
2. `ManageWorkspaces`: two concurrent invocations on one `config.yaml`, with backups.
3. The client modes of Setup, and several options of Configure in one run.
4. The permission scripts as inverse operations.

Theorems to come: that each of the liveness properties rests on a step that is always open (the safety
half of it), and what more survives among jobs that share paths.

## 6. Not modelled, and why

Output that nobody reads back (event log, console, progress), HTTP parsing, cryptography (a
signature, a verifier or a password fits or does not), the text of PowerShell scripts sent to domain
controllers, `mcp-remote-live.ps1` (a start script without state). Two jobs with one id are left
out: they need the same second and a coincidence of 1 in 65536.

Of `QueryTools`: point lookups by name and the operating system breakdown, which are one
filter more; pages asked for with a limit of 0 or less, which the code does not guard; the
artefacts that Windows PowerShell adds to strings and `query_page` strips.
Of `LiveQuery`: connection parameters; the CLIXML decoding, except that warnings arrive.
Of `ServerStart`: the stdio and sse transports, and paths and hosts, which the service is always given.
`ServiceStep` of `Deployment` is one step, although the settings of NSSM are written one by one: stopped among them,
Install has not reached its end, and the next run removes the service and makes it anew.
Left out of `Deployment`: the firewall rule, the event log source, Python and NSSM themselves, the snapshot path,
several Configure options in one run, and the client modes.
The collector's run is modelled only as the server sees it (`OfflineWorkspace`), its section modules by
the live scripts they correspond to. The Windows service wrapper is not installed by anything in
the repository. `Manage-Workspaces.ps1`, the wizard and the permission scripts are interactive, or
one-shot changes of state that the server does not read back.
