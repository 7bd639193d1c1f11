--------------------------- MODULE OfflineWorkspace ---------------------------
(***************************************************************************)
(* The workspace of the MCP server, its connectors and the cache of the    *)
(* Offline Mode connector (workspace/workspace.py, modes/offline.py,       *)
(* tools/workspace_info.py, load_snapshot of tools/snapshot.py).           *)
(*                                                                         *)
(* Tool calls run one at a time on the event loop.  A snapshot job runs on *)
(* a thread of its own and queries the same connector object; the cache    *)
(* field _engine has no lock.  The PowerShell collector is another process *)
(* that rewrites a forest's JSON file whenever somebody runs it.  A file's *)
(* contents are abstracted to a version number.                            *)
(***************************************************************************)
EXTENDS Integers, Sequences, SequencesExt

CONSTANTS Forest,       \* forest names: configured ones, and aliases of loaded snapshots
          Configured,   \* the forests of config.yaml, in order
          Mode,         \* mode of the workspace
          Override,     \* per-forest mode of config.yaml, "inherit" where absent
          Thread,       \* snapshot jobs
          NSections,    \* how many sections a snapshot job queries
          MaxVersion    \* bound: how many versions of a file the collector produces

Loop == "event loop"
Actor == {Loop} \cup Thread

ASSUME WorkspaceAssumption ==
    /\ Configured \in Seq(Forest) /\ Configured # <<>> /\ IsInjective(Configured)
    /\ Mode \in {"live", "offline"}
    /\ Override \in [Forest -> {"inherit", "live", "offline"}]
    /\ \A f \in Forest : f \notin ToSet(Configured) => Override[f] = "inherit"
    /\ NSections \in Nat \ {0} /\ MaxVersion \in Nat \ {0}
    /\ Loop \notin Thread

VARIABLES forests,    \* workspace.forests, by name
          connector,  \* workspace._connectors: the kind of connector behind a name
          engine,     \* OfflineConnector._engine: the version it holds, 0 for None
          version,    \* the newest version of each forest's JSON file
          disk,       \* whether that file is there and parses
          tool,       \* the tool call on the event loop
          todo,       \* the forests the call has still to visit
          report,     \* the entries of the last list_workspaces or reload_workspace
          at,         \* where each actor is in OfflineConnector.query
          on,         \* the forest it is querying
          local,      \* the version it has in a local variable
          sections,   \* how many sections a snapshot job has still to query
          promised    \* history: the version a completed reload promises at least

vars == <<forests, connector, engine, version, disk, tool, todo, report, at, on, local,
          sections, promised>>
file == <<version, disk>>
setup == <<forests, connector>>

effective_mode(f) == IF Override[f] = "inherit" THEN Mode ELSE Override[f]

At == {"idle", "clear", "probe", "check", "load", "assign", "return", "use", "raised"}

TypeOK == /\ forests \in Seq(Forest)
          /\ connector \in [Forest -> {"none", "live", "offline"}]
          /\ engine \in [Forest -> 0 .. MaxVersion]
          /\ version \in [Forest -> 1 .. MaxVersion]
          /\ disk \in [Forest -> {"ok", "missing", "partial"}]
          /\ tool \in {"none", "query", "list", "reload"}
          /\ todo \in Seq(Forest)
          /\ report \in [Forest -> {"unset", "loaded", "error"}]
          /\ at \in [Actor -> At]
          /\ on \in [Actor -> Forest]
          /\ local \in [Actor -> 0 .. MaxVersion]
          /\ sections \in [Thread -> 0 .. NSections]
          /\ promised \in [Forest -> 0 .. MaxVersion]

\* Workspace._init_connectors
init_connectors == [f \in Forest |-> IF f \in ToSet(Configured) THEN effective_mode(f) ELSE "none"]

\* Workspace.from_config.  No connector has loaded anything yet.
Init == /\ forests = Configured
        /\ connector = init_connectors
        /\ engine = [f \in Forest |-> 0]
        /\ version = [f \in Forest |-> 1]
        /\ disk \in {d \in [Forest -> {"ok", "missing"}] : \A f \in Forest :
                         connector[f] = "live" => d[f] = "missing"}
        /\ tool = "none" /\ todo = <<>>
        /\ report = [f \in Forest |-> "unset"]
        /\ at = [a \in Actor |-> "idle"]
        /\ on = [a \in Actor |-> Head(Configured)]
        /\ local = [a \in Actor |-> 0]
        /\ sections = [t \in Thread |-> NSections]
        /\ promised = [f \in Forest |-> 0]
-----------------------------------------------------------------------------
(* The collector, another process: it renames the old file away, writes    *)
(* the new one in place, and may be stopped in between.                    *)

CollectorRenames(f) == /\ connector[f] # "live" /\ disk[f] # "missing" /\ version[f] < MaxVersion
                       /\ disk' = [disk EXCEPT ![f] = "missing"]
                       /\ UNCHANGED <<setup, engine, version, tool, todo, report, at, on, local, sections, promised>>

CollectorWrites(f) == /\ connector[f] # "live" /\ disk[f] = "missing" /\ version[f] < MaxVersion
                      /\ disk' = [disk EXCEPT ![f] = "partial"]
                      /\ UNCHANGED <<setup, engine, version, tool, todo, report, at, on, local, sections, promised>>

CollectorEnds(f) == /\ disk[f] = "partial"
                    /\ disk' = [disk EXCEPT ![f] = "ok"]
                    /\ version' = [version EXCEPT ![f] = @ + 1]
                    /\ UNCHANGED <<setup, engine, tool, todo, report, at, on, local, sections, promised>>
-----------------------------------------------------------------------------
(* OfflineConnector._ensure_loaded and query, by any actor.                *)

Goto(a, l) == at' = [at EXCEPT ![a] = l]

\* if self._engine is None
Check(a) == /\ at[a] = "check"
            /\ Goto(a, IF engine[on[a]] = 0 THEN "load" ELSE "return")
            /\ UNCHANGED <<setup, file, engine, tool, todo, report, on, local, sections, promised>>

\* A definition whose comment begins with "Slip" is a plausible mistake in the one that
\* follows it, kept to see a property fail; the specification does not use it.

\* Slip: a failed load resets the cache, which may hold what another actor has loaded.
LoadResets(a) == /\ at[a] = "load"
                 /\ IF disk[on[a]] = "ok"
                    THEN /\ Goto(a, "assign") /\ local' = [local EXCEPT ![a] = version[on[a]]]
                         /\ UNCHANGED engine
                    ELSE /\ Goto(a, "raised") /\ engine' = [engine EXCEPT ![on[a]] = 0]
                         /\ UNCHANGED local
                 /\ UNCHANGED <<setup, file, tool, todo, report, on, sections, promised>>

\* db = loader.load(): the whole file is read into a local
Load(a) == /\ at[a] = "load"
           /\ IF disk[on[a]] = "ok"
              THEN Goto(a, "assign") /\ local' = [local EXCEPT ![a] = version[on[a]]]
              ELSE Goto(a, "raised") /\ UNCHANGED local
           /\ UNCHANGED <<setup, file, engine, tool, todo, report, on, sections, promised>>

\* self._engine = QueryEngine(db, ...)
Assign(a) == /\ at[a] = "assign"
             /\ engine' = [engine EXCEPT ![on[a]] = local[a]]
             /\ Goto(a, "return")
             /\ UNCHANGED <<setup, file, tool, todo, report, on, local, sections, promised>>

\* return self._engine: the field is read again
Return(a) == /\ at[a] = "return"
             /\ local' = [local EXCEPT ![a] = engine[on[a]]]
             /\ Goto(a, "use")
             /\ UNCHANGED <<setup, file, engine, tool, todo, report, on, sections, promised>>

Ensure(a) == Check(a) \/ Load(a) \/ Assign(a) \/ Return(a)
-----------------------------------------------------------------------------
(* Snapshot jobs.                                                          *)

\* create_snapshot of an offline forest
StartSnapshot(t, f) == /\ tool = "none" /\ at[t] = "idle" /\ sections[t] = NSections
                       /\ connector[f] = "offline"
                       /\ on' = [on EXCEPT ![t] = f]
                       /\ Goto(t, "check")
                       /\ UNCHANGED <<setup, file, engine, tool, todo, report, local, sections, promised>>

\* Slip: the job does not stop after the last section.
NoLastSection(t) == /\ at[t] \in {"use", "raised"}
                    /\ sections' = [sections EXCEPT ![t] = @ - 1]
                    /\ Goto(t, "check")
                    /\ UNCHANGED <<setup, file, engine, tool, todo, report, on, local, promised>>

\* A section has been queried, or has failed; the job goes on to the next.
SectionEnds(t) == /\ at[t] \in {"use", "raised"}
                  /\ sections' = [sections EXCEPT ![t] = @ - 1]
                  /\ Goto(t, IF sections[t] = 1 THEN "idle" ELSE "check")
                  /\ UNCHANGED <<setup, file, engine, tool, todo, report, on, local, promised>>
-----------------------------------------------------------------------------
(* Tool calls on the event loop.                                           *)

\* Any get_* tool, on a forest in Offline Mode.
BeginQuery(f) == /\ tool = "none" /\ connector[f] = "offline"
                 /\ tool' = "query" /\ todo' = <<f>>
                 /\ on' = [on EXCEPT ![Loop] = f]
                 /\ Goto(Loop, "check")
                 /\ UNCHANGED <<setup, file, engine, report, local, sections, promised>>

EndQuery == /\ tool = "query" /\ at[Loop] \in {"use", "raised"}
            /\ tool' = "none" /\ todo' = <<>>
            /\ Goto(Loop, "idle")
            /\ UNCHANGED <<setup, file, engine, report, on, local, sections, promised>>

\* list_workspaces or reload_workspace
BeginTour(name) == /\ tool = "none"
                   /\ tool' = name /\ todo' = forests
                   /\ report' = [f \in Forest |-> "unset"]
                   /\ UNCHANGED <<setup, file, engine, at, on, local, sections, promised>>

\* The next forest; a live one is reported loaded with no further work.
Visit == /\ tool \in {"list", "reload"} /\ todo # <<>> /\ at[Loop] = "idle"
         /\ IF effective_mode(Head(todo)) = "offline"
            THEN /\ on' = [on EXCEPT ![Loop] = Head(todo)]
                 /\ Goto(Loop, IF tool = "reload" THEN "clear" ELSE "probe")
                 /\ UNCHANGED <<todo, report, promised>>
            ELSE /\ report' = [report EXCEPT ![Head(todo)] = "loaded"]
                 /\ todo' = Tail(todo)
                 /\ promised' = IF tool = "reload"
                                THEN [promised EXCEPT ![Head(todo)] = version[Head(todo)]]
                                ELSE promised
                 /\ UNCHANGED <<at, on>>
         /\ UNCHANGED <<setup, file, engine, tool, local, sections>>

\* Slip: the forest is probed again with its cache as it is.
ClearNothing == /\ at[Loop] = "clear"
                /\ promised' = [promised EXCEPT ![on[Loop]] = version[on[Loop]]]
                /\ Goto(Loop, "probe")
                /\ UNCHANGED <<setup, file, engine, tool, todo, report, on, local, sections>>

\* conn._engine = None.  The promise made here is withdrawn if the forest fails to load.
Clear == /\ at[Loop] = "clear"
         /\ engine' = [engine EXCEPT ![on[Loop]] = 0]
         /\ promised' = [promised EXCEPT ![on[Loop]] = version[on[Loop]]]
         /\ Goto(Loop, "probe")
         /\ UNCHANGED <<setup, file, tool, todo, report, on, local, sections>>

\* _probe_forest: the file must be there before the connector is asked
Probe == /\ at[Loop] = "probe"
         /\ Goto(Loop, IF disk[on[Loop]] = "missing" THEN "raised" ELSE "check")
         /\ UNCHANGED <<setup, file, engine, tool, todo, report, on, local, sections, promised>>

\* Slip: a forest is reported loaded once its file has been seen.
ReportUnchecked == /\ tool \in {"list", "reload"} /\ at[Loop] \in {"use", "raised"}
                   /\ report' = [report EXCEPT ![on[Loop]] = "loaded"]
                   /\ todo' = Tail(todo)
                   /\ Goto(Loop, "idle")
                   /\ UNCHANGED <<setup, file, engine, tool, on, local, sections, promised>>

\* Slip: a forest that fails to load is probed until it does.
ProbeUntilLoaded == /\ tool \in {"list", "reload"} /\ at[Loop] \in {"use", "raised"}
                    /\ todo' = IF at[Loop] = "use" THEN Tail(todo) ELSE todo
                    /\ Goto(Loop, "idle")
                    /\ UNCHANGED <<setup, file, engine, tool, report, on, local, sections, promised>>

\* Slip: an error of one forest leaves the loop over the others.
AbortTour == /\ tool \in {"list", "reload"} /\ at[Loop] \in {"use", "raised"}
             /\ report' = [report EXCEPT ![on[Loop]] = IF at[Loop] = "use" THEN "loaded" ELSE "error"]
             /\ todo' = IF at[Loop] = "use" THEN Tail(todo) ELSE <<>>
             /\ Goto(Loop, "idle")
             /\ UNCHANGED <<setup, file, engine, tool, on, local, sections, promised>>

\* conn.scalar("forest") has returned or raised; None has no query method
EndProbe == /\ tool \in {"list", "reload"} /\ at[Loop] \in {"use", "raised"}
            /\ LET f == on[Loop]
                   ok == at[Loop] = "use" /\ local[Loop] # 0
               IN  /\ report' = [report EXCEPT ![f] = IF ok THEN "loaded" ELSE "error"]
                   /\ promised' = IF ok \/ tool = "list" THEN promised
                                  ELSE [promised EXCEPT ![f] = 0]
            /\ todo' = Tail(todo)
            /\ Goto(Loop, "idle")
            /\ UNCHANGED <<setup, file, engine, tool, on, local, sections>>

EndTour == /\ tool \in {"list", "reload"} /\ todo = <<>>
           /\ tool' = "none"
           /\ UNCHANGED <<setup, file, engine, todo, report, at, on, local, sections, promised>>

\* load_snapshot, which checks that the file parses and that the alias is free.  The
\* connector it adds has read nothing; the ForestConfig has no mode and inherits.
LoadSnapshot(alias) == /\ tool = "none"
                       /\ disk[alias] = "ok"
                       /\ connector[alias] = "none"
                       /\ forests' = Append(forests, alias)
                       /\ connector' = [connector EXCEPT ![alias] = "offline"]
                       /\ UNCHANGED <<file, engine, tool, todo, report, at, on, local, sections, promised>>

LoopStep == Ensure(Loop) \/ EndQuery \/ Visit \/ Clear \/ Probe \/ EndProbe \/ EndTour

Next == \/ \E f \in Forest : CollectorRenames(f) \/ CollectorWrites(f) \/ CollectorEnds(f)
        \/ \E f \in Forest : BeginQuery(f) \/ LoadSnapshot(f)
        \/ \E name \in {"list", "reload"} : BeginTour(name)
        \/ LoopStep
        \/ \E t \in Thread : Ensure(t) \/ SectionEnds(t) \/ \E f \in Forest : StartSnapshot(t, f)

Spec == Init /\ [][Next]_vars

\* The event loop and the threads run on: reading a local file ends.
FairSpec == Spec /\ WF_vars(LoopStep) /\ \A t \in Thread : WF_vars(Ensure(t) \/ SectionEnds(t))
-----------------------------------------------------------------------------
(* Properties. *)

\* Every forest the workspace lists can be queried under its name, and names are unique.
NamesResolve == /\ IsInjective(forests)
                /\ \A f \in Forest : f \in ToSet(forests) <=> connector[f] # "none"

\* _ensure_loaded may return None when reload_workspace clears the cache under a snapshot
\* job, but never to a tool call: only the event loop clears, one call at a time.
ToolCallHasEngine == at[Loop] = "use" => local[Loop] # 0

\* A forest reported as loaded is loaded, and stays so until the next reload.
ReportedIsLoaded ==
    \A f \in Forest : report[f] = "loaded" /\ effective_mode(f) = "offline" => engine[f] # 0

\* "A failure on one forest does not prevent the others from reloading" (reload_workspace): of the
\* forests of the workspace exactly those that list_workspaces or reload_workspace has still to
\* visit have no entry, so that none is left without one when it returns.
TourReachesAll ==
    tool \in {"list", "reload"} =>
        \A f \in ToSet(forests) : report[f] = "unset" <=> f \in ToSet(todo)

\* Every tool call on the event loop returns.
ToolCallReturns == (tool # "none") ~> (tool = "none")

\* reload_workspace: "Each forest connector cache is cleared and the JSON is re-read from
\* disk".  After a reload that reported a forest loaded, no query is answered from a version
\* older than the one that was on disk when the reload came to the forest.
ReloadIsFresh ==
    \A f \in Forest : tool # "reload" /\ engine[f] # 0 => engine[f] >= promised[f]

\* The same, as long as no snapshot job has been started.  It holds in an offline workspace; in a
\* live one reload_workspace takes a forest that load_snapshot added for a live one and keeps its
\* cache.
ReloadAloneIsFresh == (\A t \in Thread : at[t] = "idle" /\ sections[t] = NSections) => ReloadIsFresh
=============================================================================
