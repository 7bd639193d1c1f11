------------------------ MODULE OfflineWorkspaceProofs ------------------------
(***************************************************************************)
(* What OfflineWorkspace guarantees for any forests, any number of         *)
(* snapshot jobs and of versions.  The invariant has three parts: the      *)
(* shape of a tool call on the event loop, what the cache holds at each    *)
(* point of it, and, in an offline workspace, how old that may be.         *)
(***************************************************************************)
EXTENDS OfflineWorkspace, SequenceTheorems, TLAPS

Touring == tool \in {"list", "reload"}

\* Between tool calls the event loop is not in a connector; in a tour it is at the first of
\* the forests that are left, none of which has been reported.
CallInv == /\ tool = "none" => at[Loop] = "idle"
           /\ Touring /\ at[Loop] # "idle" => todo # <<>> /\ on[Loop] = Head(todo)
           /\ at[Loop] = "clear" => tool = "reload"
           /\ at[Loop] = "probe" => Touring
           /\ Touring => /\ IsInjective(todo)
                         /\ \A i \in 1 .. Len(todo) : report[todo[i]] # "loaded"
                                                      /\ connector[todo[i]] # "none"

\* A snapshot job that is in a connector has a section to query.
JobInv == \A t \in Thread : at[t] # "idle" => sections[t] >= 1

\* The collector does not write a version beyond the last.
DiskInv == \A f \in Forest : disk[f] = "partial" => version[f] < MaxVersion

TypeInv == TypeOK /\ CallInv /\ JobInv /\ DiskInv

\* Nobody assigns None, and nobody takes the cache away from a tool call.
CacheInv == /\ \A a \in Actor : at[a] = "assign" => local[a] # 0
            /\ at[Loop] = "return" => engine[on[Loop]] # 0
            /\ at[Loop] = "use" => local[Loop] # 0 /\ engine[on[Loop]] # 0
            /\ ReportedIsLoaded

IInv == TypeInv /\ NamesResolve /\ CacheInv

\* No snapshot job has been started.
Alone == \A t \in Thread : at[t] = "idle" /\ sections[t] = NSections

\* In an offline workspace modes are what they seem, only offline connectors are used, and
\* without snapshot jobs nothing older than promised is cached or about to be.
FreshInv == /\ \A f \in Forest : connector[f] # "none" => connector[f] = effective_mode(f)
            /\ \A f \in Forest : connector[f] = "none" => Override[f] = "inherit"
            /\ \A f \in Forest : connector[f] # "offline" => engine[f] = 0
            /\ \A a \in Actor : at[a] # "idle" => connector[on[a]] = "offline"
            /\ \A f \in Forest : promised[f] <= version[f]
            /\ Alone => /\ \A f \in Forest : engine[f] # 0 => engine[f] >= promised[f]
                        /\ at[Loop] = "assign" => local[Loop] >= promised[on[Loop]]
-----------------------------------------------------------------------------
(* Sequences of forests. *)

\* The first of a sequence is one of its elements, and the rest has the others.
LEMMA RestOfSeq ==
    ASSUME NEW S, NEW s \in Seq(S), s # <<>>
    PROVE  /\ Head(s) \in S /\ Head(s) = s[1] /\ 1 \in 1 .. Len(s)
           /\ Tail(s) \in Seq(S)
           /\ \A i \in 1 .. Len(Tail(s)) : i + 1 \in 1 .. Len(s) /\ Tail(s)[i] = s[i + 1]
           /\ IsInjective(s) => /\ IsInjective(Tail(s))
                                /\ \A i \in 1 .. Len(Tail(s)) : Tail(s)[i] # Head(s)
<1>1. /\ Head(s) \in S /\ Tail(s) \in Seq(S) /\ Len(Tail(s)) = Len(s) - 1
      /\ \A i \in 1 .. Len(Tail(s)) : Tail(s)[i] = s[i + 1]
  BY HeadTailProperties
<1>2. Len(s) \in Nat /\ Len(s) # 0 /\ DOMAIN s = 1 .. Len(s) /\ DOMAIN Tail(s) = 1 .. Len(Tail(s))
  BY <1>1, LenProperties
<1>3. Head(s) = s[1]
  BY <1>2
<1>4. \A i \in 1 .. Len(Tail(s)) : i + 1 \in 1 .. Len(s) /\ i + 1 # 1
  BY <1>1, <1>2
<1>5. ASSUME IsInjective(s)
      PROVE  IsInjective(Tail(s)) /\ \A i \in 1 .. Len(Tail(s)) : Tail(s)[i] # Head(s)
  BY <1>1, <1>2, <1>3, <1>4, <1>5 DEF IsInjective
<1> QED
  BY <1>1, <1>2, <1>3, <1>4, <1>5

\* The names of a sequence that gains one.
LEMMA NamesOfAppend ==
    ASSUME NEW S, NEW s \in Seq(S), NEW e \in S
    PROVE  /\ Append(s, e) \in Seq(S)
           /\ ToSet(Append(s, e)) = ToSet(s) \cup {e}
           /\ IsInjective(s) /\ e \notin ToSet(s) => IsInjective(Append(s, e))
<1>1. /\ Append(s, e) \in Seq(S) /\ Len(Append(s, e)) = Len(s) + 1
      /\ \A i \in 1 .. Len(s) : Append(s, e)[i] = s[i]
      /\ Append(s, e)[Len(s) + 1] = e
  BY AppendProperties
<1>2. Len(s) \in Nat /\ DOMAIN s = 1 .. Len(s) /\ DOMAIN Append(s, e) = 1 .. Len(s) + 1
  BY <1>1, LenProperties
<1>3. \A i : i \in 1 .. Len(s) + 1 <=> i \in 1 .. Len(s) \/ i = Len(s) + 1
  BY <1>2
<1>4. ToSet(Append(s, e)) = ToSet(s) \cup {e}
  BY <1>1, <1>2, <1>3 DEF ToSet
<1>5. ASSUME IsInjective(s), e \notin ToSet(s)
      PROVE  IsInjective(Append(s, e))
  BY <1>1, <1>2, <1>3, <1>5 DEF IsInjective, ToSet
<1> QED
  BY <1>1, <1>4, <1>5
-----------------------------------------------------------------------------
(* Types, the shape of a call, and names. *)

LEMMA WorkspaceBounds == MaxVersion \in Nat \ {0} /\ NSections \in Nat \ {0}
  BY WorkspaceAssumption

LEMMA TypeStep == IInv /\ [Next]_vars => TypeOK'
<1> SUFFICES ASSUME TypeOK, CallInv, JobInv, DiskInv, [Next]_vars
             PROVE  TypeOK'
  BY DEF IInv, TypeInv
<1> USE WorkspaceBounds DEF TypeOK, setup, file
<1>1. CASE UNCHANGED vars
  BY <1>1 DEF vars
<1>2. ASSUME NEW f \in Forest, CollectorRenames(f)
      PROVE  TypeOK'
  BY <1>2 DEF CollectorRenames
<1>3. ASSUME NEW f \in Forest, CollectorWrites(f)
      PROVE  TypeOK'
  BY <1>3 DEF CollectorWrites
<1>4. ASSUME NEW f \in Forest, CollectorEnds(f)
      PROVE  TypeOK'
  <2>1. disk' \in [Forest -> {"ok", "missing", "partial"}]
    BY <1>4 DEF CollectorEnds
  <2>2. version' = [version EXCEPT ![f] = version[f] + 1]
    BY <1>4 DEF CollectorEnds
  <2>3. version[f] + 1 \in 1 .. MaxVersion
    BY <1>4 DEF CollectorEnds, DiskInv
  <2>4. version' \in [Forest -> 1 .. MaxVersion]
    BY <2>2, <2>3
  <2> QED
    BY <1>4, <2>1, <2>4 DEF CollectorEnds
<1>5. ASSUME NEW f \in Forest, BeginQuery(f)
      PROVE  TypeOK'
  <2>1. todo' \in Seq(Forest)
    BY <1>5 DEF BeginQuery
  <2>2. at' \in [Actor -> At]
    BY <1>5 DEF BeginQuery, Goto, At
  <2>3. on' \in [Actor -> Forest]
    BY <1>5 DEF BeginQuery
  <2> QED
    BY <1>5, <2>1, <2>2, <2>3 DEF BeginQuery
<1>6. ASSUME NEW f \in Forest, LoadSnapshot(f)
      PROVE  TypeOK'
  BY <1>6, NamesOfAppend DEF LoadSnapshot
<1>7. ASSUME NEW name \in {"list", "reload"}, BeginTour(name)
      PROVE  TypeOK'
  BY <1>7 DEF BeginTour
<1>8. ASSUME NEW a \in Actor, Check(a)
      PROVE  TypeOK'
  BY <1>8 DEF Check, Goto, At
<1>9. ASSUME NEW a \in Actor, Load(a)
      PROVE  TypeOK'
  <2>1. \/ at' = [at EXCEPT ![a] = "assign"] /\ local' = [local EXCEPT ![a] = version[on[a]]]
        \/ at' = [at EXCEPT ![a] = "raised"] /\ local' = local
    BY <1>9 DEF Load, Goto
  <2>2. version[on[a]] \in 0 .. MaxVersion /\ "assign" \in At /\ "raised" \in At
    BY DEF At
  <2>3. at' \in [Actor -> At]
    BY <2>1, <2>2
  <2>4. local' \in [Actor -> 0 .. MaxVersion]
    BY <2>1, <2>2
  <2> QED
    BY <1>9, <2>3, <2>4 DEF Load
<1>10. ASSUME NEW a \in Actor, Assign(a)
       PROVE  TypeOK'
  BY <1>10 DEF Assign, Goto, At
<1>11. ASSUME NEW a \in Actor, Return(a)
       PROVE  TypeOK'
  BY <1>11 DEF Return, Goto, At
<1>12. ASSUME NEW t \in Thread, SectionEnds(t)
      PROVE  TypeOK'
  <2>1. at' \in [Actor -> At]
    BY <1>12 DEF SectionEnds, Goto, At
  <2>2. sections[t] \in 1 .. NSections
    BY <1>12 DEF SectionEnds, JobInv
  <2>3. sections' \in [Thread -> 0 .. NSections]
    BY <1>12, <2>2 DEF SectionEnds
  <2> QED
    BY <1>12, <2>1, <2>3 DEF SectionEnds
<1>13. ASSUME NEW t \in Thread, NEW f \in Forest, StartSnapshot(t, f)
      PROVE  TypeOK'
  BY <1>13 DEF StartSnapshot, Goto, At
<1>14. CASE EndQuery
  <2>1. todo' \in Seq(Forest)
    BY <1>14 DEF EndQuery
  <2>2. at' \in [Actor -> At]
    BY <1>14 DEF EndQuery, Goto, At
  <2> QED
    BY <1>14, <2>1, <2>2 DEF EndQuery
<1>15. CASE EndTour
  BY <1>15 DEF EndTour
<1>16. CASE Probe
  BY <1>16 DEF Probe, Goto, At
<1>17. CASE Visit
  <2>1. Head(todo) \in Forest /\ Tail(todo) \in Seq(Forest)
    BY <1>17, RestOfSeq DEF Visit
  <2>2. todo' \in Seq(Forest)
    BY <1>17, <2>1 DEF Visit
  <2>3. on' \in [Actor -> Forest]
    BY <1>17, <2>1 DEF Visit
  <2>4. at' \in [Actor -> At]
    BY <1>17 DEF Visit, Goto, At
  <2>5. report' \in [Forest -> {"unset", "loaded", "error"}]
    BY <1>17 DEF Visit
  <2>6. promised' \in [Forest -> 0 .. MaxVersion]
    <3>1. promised' = promised \/ promised' = [promised EXCEPT ![Head(todo)] = version[Head(todo)]]
      BY <1>17 DEF Visit
    <3>2. version[Head(todo)] \in 0 .. MaxVersion
      BY <2>1
    <3> QED
      BY <3>1, <3>2
  <2> QED
    BY <1>17, <2>2, <2>3, <2>4, <2>5, <2>6 DEF Visit
<1>18. CASE Clear
  <2>1. at' \in [Actor -> At]
    BY <1>18 DEF Clear, Goto, At
  <2>2. engine' \in [Forest -> 0 .. MaxVersion]
    <3>1. engine' = [engine EXCEPT ![on[Loop]] = 0] /\ 0 \in 0 .. MaxVersion
      BY <1>18 DEF Clear
    <3> QED
      BY <3>1
  <2>3. promised' \in [Forest -> 0 .. MaxVersion]
    <3>1. promised' = [promised EXCEPT ![on[Loop]] = version[on[Loop]]]
      BY <1>18 DEF Clear
    <3>2. version[on[Loop]] \in 0 .. MaxVersion
      BY DEF Actor
    <3> QED
      BY <3>1, <3>2
  <2> QED
    BY <1>18, <2>1, <2>2, <2>3 DEF Clear
<1>19. CASE EndProbe
  <2>1. Tail(todo) \in Seq(Forest)
    BY <1>19, RestOfSeq DEF EndProbe, CallInv, Touring
  <2>2. at' \in [Actor -> At]
    BY <1>19 DEF EndProbe, Goto, At
  <2>3. report' \in [Forest -> {"unset", "loaded", "error"}]
    BY <1>19 DEF EndProbe
  <2>4. promised' \in [Forest -> 0 .. MaxVersion]
    <3>1. promised' = promised \/ promised' = [promised EXCEPT ![on[Loop]] = 0]
      BY <1>19 DEF EndProbe
    <3>2. 0 \in 0 .. MaxVersion /\ promised \in [Forest -> 0 .. MaxVersion]
      OBVIOUS
    <3> QED
      BY <3>1, <3>2
  <2> QED
    BY <1>19, <2>1, <2>2, <2>3, <2>4 DEF EndProbe
<1> QED
  BY <1>1, <1>2, <1>3, <1>4, <1>5, <1>6, <1>7, <1>8, <1>9, <1>10, <1>11, <1>12, <1>13, <1>14,
     <1>15, <1>16, <1>17, <1>18, <1>19
  DEF Next, LoopStep, Ensure, Actor
-----------------------------------------------------------------------------
(* What an action may change. *)

LEMMA FrameOfSetup == [Next]_vars => UNCHANGED setup \/ \E f \in Forest : LoadSnapshot(f)
<1> SUFFICES ASSUME [Next]_vars, \A f \in Forest : ~LoadSnapshot(f)
             PROVE  UNCHANGED setup
  OBVIOUS
<1> QED
  BY DEF Next, LoopStep, Ensure, vars, setup, CollectorRenames, CollectorWrites, CollectorEnds,
         BeginQuery, BeginTour, Check, Load, Assign, Return, EndQuery, Visit, Clear, Probe,
         EndProbe, EndTour, SectionEnds, StartSnapshot

LEMMA FrameOfFile ==
    [Next]_vars => \/ UNCHANGED file
                   \/ \E f \in Forest : CollectorRenames(f) \/ CollectorWrites(f) \/ CollectorEnds(f)
<1> SUFFICES ASSUME [Next]_vars,
                    \A f \in Forest : ~CollectorRenames(f) /\ ~CollectorWrites(f) /\ ~CollectorEnds(f)
             PROVE  UNCHANGED file
  OBVIOUS
<1> QED
  BY DEF Next, LoopStep, Ensure, vars, file, LoadSnapshot,
         BeginQuery, BeginTour, Check, Load, Assign, Return, EndQuery, Visit, Clear, Probe,
         EndProbe, EndTour, SectionEnds, StartSnapshot

\* A step of the connector moves one actor from one point of it to another.
LEMMA EnsureMoves ==
    ASSUME NEW a \in Actor, TypeOK, Ensure(a)
    PROVE  /\ at[a] \in {"check", "load", "assign", "return"}
           /\ at'[a] \in {"load", "assign", "return", "use", "raised"}
           /\ \A b \in Actor : b # a => at'[b] = at[b] /\ local'[b] = local[b]
           /\ UNCHANGED <<setup, file, tool, todo, report, on, sections, promised>>
<1>1. CASE Check(a)
  BY <1>1 DEF Check, Goto, TypeOK
<1>2. CASE Load(a)
  BY <1>2 DEF Load, Goto, TypeOK
<1>3. CASE Assign(a)
  BY <1>3 DEF Assign, Goto, TypeOK
<1>4. CASE Return(a)
  BY <1>4 DEF Return, Goto, TypeOK
<1> QED
  BY <1>1, <1>2, <1>3, <1>4 DEF Ensure

\* A step of a snapshot job outside the connector moves that job alone.
LEMMA JobMoves ==
    ASSUME NEW t \in Thread, TypeOK, SectionEnds(t) \/ \E f \in Forest : StartSnapshot(t, f)
    PROVE  /\ t # Loop
           /\ at'[t] \in {"check", "idle"}
           /\ \A b \in Actor : b # t => at'[b] = at[b] /\ on'[b] = on[b]
           /\ sections'[t] # NSections \/ at'[t] # "idle"
           /\ UNCHANGED <<setup, file, engine, tool, todo, report, local, promised>>
<1>1. t # Loop /\ t \in Actor
  BY WorkspaceAssumption DEF Actor
<1>2. CASE SectionEnds(t)
  BY <1>1, <1>2, WorkspaceBounds DEF SectionEnds, Goto, TypeOK
<1>3. ASSUME NEW f \in Forest, StartSnapshot(t, f)
      PROVE  /\ at'[t] \in {"check", "idle"}
             /\ \A b \in Actor : b # t => at'[b] = at[b] /\ on'[b] = on[b]
             /\ sections'[t] # NSections \/ at'[t] # "idle"
             /\ UNCHANGED <<setup, file, engine, tool, todo, report, local, promised>>
  BY <1>1, <1>3 DEF StartSnapshot, Goto, TypeOK
<1> QED
  BY <1>1, <1>2, <1>3
-----------------------------------------------------------------------------
(* The parts of the invariant that do not depend on the cache. *)

LEMMA NamesStep == IInv /\ [Next]_vars => NamesResolve'
<1> SUFFICES ASSUME TypeOK, NamesResolve, [Next]_vars
             PROVE  NamesResolve'
  BY DEF IInv, TypeInv
<1>1. CASE UNCHANGED setup
  BY <1>1 DEF setup, NamesResolve
<1>2. ASSUME NEW f \in Forest, LoadSnapshot(f)
      PROVE  NamesResolve'
  <2>1. /\ connector[f] = "none" /\ forests' = Append(forests, f)
        /\ connector' = [connector EXCEPT ![f] = "offline"]
    BY <1>2 DEF LoadSnapshot
  <2>2. f \notin ToSet(forests) /\ forests \in Seq(Forest)
    BY <2>1 DEF NamesResolve, TypeOK
  <2>3. IsInjective(forests') /\ ToSet(forests') = ToSet(forests) \cup {f}
    BY <2>1, <2>2, NamesOfAppend DEF NamesResolve
  <2>4. \A g \in Forest : g \in ToSet(forests') <=> connector'[g] # "none"
    BY <2>1, <2>3 DEF NamesResolve, TypeOK
  <2> QED
    BY <2>3, <2>4 DEF NamesResolve
<1> QED
  BY <1>1, <1>2, FrameOfSetup

LEMMA DiskStep == IInv /\ [Next]_vars => DiskInv'
<1> SUFFICES ASSUME TypeOK, DiskInv, [Next]_vars
             PROVE  DiskInv'
  BY DEF IInv, TypeInv
<1>1. CASE UNCHANGED file
  BY <1>1 DEF file, DiskInv
<1>2. ASSUME NEW f \in Forest, CollectorRenames(f) \/ CollectorWrites(f) \/ CollectorEnds(f)
      PROVE  DiskInv'
  BY <1>2 DEF CollectorRenames, CollectorWrites, CollectorEnds, DiskInv, TypeOK
<1> QED
  BY <1>1, <1>2, FrameOfFile

LEMMA JobStep == IInv /\ [Next]_vars => JobInv'
<1> SUFFICES ASSUME TypeOK, JobInv, [Next]_vars
             PROVE  JobInv'
  BY DEF IInv, TypeInv
<1>1. \A t \in Thread : t \in Actor /\ t # Loop
  BY WorkspaceAssumption DEF Actor
<1>2. CASE UNCHANGED <<at, sections>>
  BY <1>2 DEF JobInv
<1>3. ASSUME NEW a \in Actor, Ensure(a)
      PROVE  JobInv'
  BY <1>1, <1>3, EnsureMoves DEF JobInv
<1>4. ASSUME NEW t \in Thread, SectionEnds(t)
      PROVE  JobInv'
  BY <1>1, <1>4, WorkspaceBounds DEF SectionEnds, Goto, JobInv, TypeOK
<1>5. ASSUME NEW t \in Thread, NEW f \in Forest, StartSnapshot(t, f)
      PROVE  JobInv'
  BY <1>1, <1>5, WorkspaceBounds DEF StartSnapshot, Goto, JobInv, TypeOK
<1>6. ASSUME NEW l, at' = [at EXCEPT ![Loop] = l], UNCHANGED sections
      PROVE  JobInv'
  BY <1>1, <1>6 DEF JobInv, TypeOK
<1>7. CASE \E f \in Forest : \/ CollectorRenames(f) \/ CollectorWrites(f) \/ CollectorEnds(f)
                             \/ LoadSnapshot(f)
  BY <1>2, <1>7 DEF CollectorRenames, CollectorWrites, CollectorEnds, LoadSnapshot
<1>8. CASE (\E name \in {"list", "reload"} : BeginTour(name)) \/ EndTour \/ UNCHANGED vars
  BY <1>2, <1>8 DEF BeginTour, EndTour, vars
<1>9. CASE (\E f \in Forest : BeginQuery(f)) \/ EndQuery \/ Visit \/ Clear \/ Probe \/ EndProbe
  <2>1. UNCHANGED sections /\ (UNCHANGED at \/ \E l \in At : at' = [at EXCEPT ![Loop] = l])
    BY <1>9 DEF BeginQuery, EndQuery, Visit, Clear, Probe, EndProbe, Goto, At
  <2> QED
    BY <2>1, <1>2, <1>6
<1> QED
  BY <1>3, <1>4, <1>5, <1>7, <1>8, <1>9 DEF Next, LoopStep, Actor

\* The forests of a tour after the next one.
LEMMA RestOfTour ==
    ASSUME TypeOK, CallInv, Touring, todo # <<>>
    PROVE  /\ Head(todo) \in Forest /\ report[Head(todo)] # "loaded" /\ connector[Head(todo)] # "none"
           /\ IsInjective(Tail(todo))
           /\ \A i \in 1 .. Len(Tail(todo)) : /\ Tail(todo)[i] \in Forest
                                             /\ Tail(todo)[i] # Head(todo)
                                             /\ report[Tail(todo)[i]] # "loaded"
                                             /\ connector[Tail(todo)[i]] # "none"
<1>1. /\ IsInjective(todo) /\ todo \in Seq(Forest)
      /\ \A i \in 1 .. Len(todo) : report[todo[i]] # "loaded" /\ connector[todo[i]] # "none"
  BY DEF CallInv, TypeOK
<1>2. /\ Head(todo) \in Forest /\ Head(todo) = todo[1] /\ 1 \in 1 .. Len(todo)
      /\ Tail(todo) \in Seq(Forest) /\ IsInjective(Tail(todo))
      /\ \A i \in 1 .. Len(Tail(todo)) : i + 1 \in 1 .. Len(todo) /\ Tail(todo)[i] = todo[i + 1]
                                         /\ Tail(todo)[i] # Head(todo)
  BY <1>1, RestOfSeq
<1>3. \A i \in 1 .. Len(Tail(todo)) : Tail(todo)[i] \in Forest
  BY <1>2, ElementOfSeq
<1> QED
  BY <1>1, <1>2, <1>3

LEMMA CallStep == IInv /\ [Next]_vars => CallInv'
<1> SUFFICES ASSUME TypeOK, CallInv, NamesResolve, [Next]_vars
             PROVE  CallInv'
  BY DEF IInv, TypeInv
<1>1. Loop \in Actor /\ \A t \in Thread : t \in Actor /\ t # Loop
  BY WorkspaceAssumption DEF Actor
<1>2. CASE UNCHANGED <<tool, at, on, todo, report, connector>>
  BY <1>2 DEF CallInv, Touring
<1>3. ASSUME NEW f \in Forest, CollectorRenames(f) \/ CollectorWrites(f) \/ CollectorEnds(f)
      PROVE  CallInv'
  BY <1>2, <1>3 DEF CollectorRenames, CollectorWrites, CollectorEnds, setup
<1>4. ASSUME NEW a \in Actor, Ensure(a)
      PROVE  CallInv'
  <2>1. UNCHANGED <<tool, on, todo, report, connector>>
    BY <1>4, EnsureMoves DEF setup
  <2>2. \/ at'[Loop] = at[Loop]
        \/ at[Loop] # "idle" /\ at'[Loop] \notin {"idle", "clear", "probe"}
    BY <1>1, <1>4, EnsureMoves
  <2> QED
    BY <2>1, <2>2 DEF CallInv, Touring
<1>5. ASSUME NEW t \in Thread, SectionEnds(t) \/ \E f \in Forest : StartSnapshot(t, f)
      PROVE  CallInv'
  <2>1. UNCHANGED <<tool, todo, report, connector>> /\ at'[Loop] = at[Loop] /\ on'[Loop] = on[Loop]
    BY <1>1, <1>5, JobMoves DEF setup
  <2> QED
    BY <2>1 DEF CallInv, Touring
<1>6. ASSUME NEW f \in Forest, BeginQuery(f)
      PROVE  CallInv'
  <2>1. tool' = "query" /\ at'[Loop] = "check"
    BY <1>1, <1>6 DEF BeginQuery, Goto, TypeOK
  <2> QED
    BY <2>1 DEF CallInv, Touring
<1>7. ASSUME NEW f \in Forest, LoadSnapshot(f)
      PROVE  CallInv'
  <2>1. tool = "none" /\ UNCHANGED <<tool, at, on, todo>>
    BY <1>7 DEF LoadSnapshot
  <2> QED
    BY <2>1 DEF CallInv, Touring
<1>8. ASSUME NEW name \in {"list", "reload"}, BeginTour(name)
      PROVE  CallInv'
  <2>1. /\ tool = "none" /\ tool' = name /\ todo' = forests
        /\ report' = [f \in Forest |-> "unset"]
        /\ UNCHANGED <<at, on, connector>>
    BY <1>8 DEF BeginTour, setup
  <2>2. at'[Loop] = "idle"
    BY <2>1 DEF CallInv
  <2>3. \A i \in 1 .. Len(forests) : forests[i] \in Forest /\ forests[i] \in ToSet(forests)
    <3>1. DOMAIN forests = 1 .. Len(forests) /\ \A i \in 1 .. Len(forests) : forests[i] \in Forest
      BY LenProperties, ElementOfSeq DEF TypeOK
    <3> QED
      BY <3>1 DEF ToSet
  <2>4. IsInjective(todo') /\ \A i \in 1 .. Len(todo') : /\ report'[todo'[i]] # "loaded"
                                                        /\ connector'[todo'[i]] # "none"
    BY <2>1, <2>3 DEF NamesResolve
  <2> QED
    BY <2>1, <2>2, <2>4 DEF CallInv, Touring
<1>9. CASE EndQuery
  <2>1. tool' = "none" /\ at'[Loop] = "idle"
    BY <1>1, <1>9 DEF EndQuery, Goto, TypeOK
  <2> QED
    BY <2>1 DEF CallInv, Touring
<1>10. CASE Visit
  <2>1. Touring /\ Touring' /\ tool' = tool /\ connector' = connector /\ at[Loop] = "idle"
    BY <1>10 DEF Visit, Touring, setup
  <2>2. CASE effective_mode(Head(todo)) = "offline"
    <3>1. /\ todo # <<>> /\ todo' = todo /\ report' = report /\ on'[Loop] = Head(todo)
          /\ at'[Loop] = IF tool = "reload" THEN "clear" ELSE "probe"
      BY <1>1, <1>10, <2>2 DEF Visit, Goto, TypeOK
    <3> QED
      BY <2>1, <3>1 DEF CallInv, Touring
  <2>3. CASE effective_mode(Head(todo)) # "offline"
    <3>1. /\ todo # <<>> /\ todo' = Tail(todo) /\ at' = at
          /\ report' = [report EXCEPT ![Head(todo)] = "loaded"]
      BY <1>10, <2>3 DEF Visit
    <3>2. IsInjective(todo') /\ \A i \in 1 .. Len(todo') : /\ report'[todo'[i]] # "loaded"
                                                          /\ connector'[todo'[i]] # "none"
      <4>1. \A f \in Forest : f # Head(todo) => report'[f] = report[f]
        BY <3>1 DEF TypeOK
      <4> QED
        BY <2>1, <3>1, <4>1, RestOfTour
    <3> QED
      BY <2>1, <3>1, <3>2 DEF CallInv, Touring
  <2> QED
    BY <2>2, <2>3
<1>11. CASE Clear
  <2>1. at[Loop] = "clear" /\ at'[Loop] = "probe" /\ UNCHANGED <<tool, on, todo, report, connector>>
    BY <1>1, <1>11 DEF Clear, Goto, TypeOK, setup
  <2> QED
    BY <2>1 DEF CallInv, Touring
<1>12. CASE Probe
  <2>1. /\ at[Loop] = "probe" /\ at'[Loop] \in {"raised", "check"}
        /\ UNCHANGED <<tool, on, todo, report, connector>>
    BY <1>1, <1>12 DEF Probe, Goto, TypeOK, setup
  <2> QED
    BY <2>1 DEF CallInv, Touring
<1>13. CASE EndProbe
  <2>1. /\ Touring /\ tool' = tool /\ connector' = connector /\ at[Loop] # "idle"
        /\ todo' = Tail(todo) /\ at'[Loop] = "idle"
    BY <1>1, <1>13 DEF EndProbe, Touring, setup, Goto, TypeOK
  <2>2. todo # <<>> /\ on[Loop] = Head(todo)
    BY <2>1 DEF CallInv
  <2>3. \A f \in Forest : f # on[Loop] => report'[f] = report[f]
    BY <1>13 DEF EndProbe, TypeOK
  <2>4. IsInjective(todo') /\ \A i \in 1 .. Len(todo') : /\ report'[todo'[i]] # "loaded"
                                                        /\ connector'[todo'[i]] # "none"
    BY <2>1, <2>2, <2>3, RestOfTour
  <2> QED
    BY <2>1, <2>4 DEF CallInv, Touring
<1>14. CASE EndTour
  <2>1. Touring /\ todo = <<>> /\ tool' = "none" /\ at' = at
    BY <1>14 DEF EndTour, Touring
  <2>2. at[Loop] = "idle"
    BY <2>1 DEF CallInv
  <2> QED
    BY <2>1, <2>2 DEF CallInv, Touring
<1>15. CASE UNCHANGED vars
  BY <1>2, <1>15 DEF vars
<1> QED
  BY <1>3, <1>4, <1>5, <1>6, <1>7, <1>8, <1>9, <1>10, <1>11, <1>12, <1>13, <1>14, <1>15
  DEF Next, LoopStep, Actor
-----------------------------------------------------------------------------
(* What the cache holds. *)

LEMMA CacheStep == IInv /\ [Next]_vars => CacheInv'
<1> SUFFICES ASSUME TypeOK, CallInv, CacheInv, [Next]_vars
             PROVE  CacheInv'
  BY DEF IInv, TypeInv
<1>1. Loop \in Actor /\ \A t \in Thread : t \in Actor /\ t # Loop
  BY WorkspaceAssumption DEF Actor
<1>2. CASE UNCHANGED <<engine, report, at, on, local>>
  BY <1>2 DEF CacheInv, ReportedIsLoaded
<1>3. ASSUME NEW f \in Forest, \/ CollectorRenames(f) \/ CollectorWrites(f) \/ CollectorEnds(f)
                               \/ LoadSnapshot(f)
      PROVE  CacheInv'
  BY <1>2, <1>3 DEF CollectorRenames, CollectorWrites, CollectorEnds, LoadSnapshot
<1>4. ASSUME NEW a \in Actor, Check(a)
      PROVE  CacheInv'
  <2>1. /\ UNCHANGED <<engine, report, on, local>>
        /\ at' = [at EXCEPT ![a] = IF engine[on[a]] = 0 THEN "load" ELSE "return"]
    BY <1>4 DEF Check, Goto
  <2> QED
    BY <1>1, <2>1 DEF CacheInv, ReportedIsLoaded, TypeOK
<1>5. ASSUME NEW a \in Actor, Load(a)
      PROVE  CacheInv'
  <2>1. /\ UNCHANGED <<engine, report, on>>
        /\ \/ at' = [at EXCEPT ![a] = "assign"] /\ local' = [local EXCEPT ![a] = version[on[a]]]
           \/ at' = [at EXCEPT ![a] = "raised"] /\ local' = local
    BY <1>5 DEF Load, Goto
  <2>2. version[on[a]] # 0
    BY WorkspaceBounds DEF TypeOK
  <2>3. /\ \A b \in Actor : at'[b] = "assign" => local'[b] # 0
        /\ at'[Loop] \notin {"return", "use"} \/ (at'[Loop] = at[Loop] /\ local'[Loop] = local[Loop])
    BY <1>1, <2>1, <2>2 DEF CacheInv, TypeOK
  <2> QED
    BY <2>1, <2>3 DEF CacheInv, ReportedIsLoaded
<1>6. ASSUME NEW a \in Actor, Assign(a)
      PROVE  CacheInv'
  <2>1. /\ UNCHANGED <<report, on, local>>
        /\ at[a] = "assign" /\ at' = [at EXCEPT ![a] = "return"]
        /\ engine' = [engine EXCEPT ![on[a]] = local[a]]
    BY <1>6 DEF Assign, Goto
  <2>2. local[a] # 0 /\ on[a] \in Forest
    BY <2>1 DEF CacheInv, TypeOK
  <2>3. engine'[on[a]] # 0 /\ \A f \in Forest : engine[f] # 0 => engine'[f] # 0
    BY <2>1, <2>2 DEF TypeOK
  <2>4. /\ \A b \in Actor : at'[b] = "assign" => at[b] = "assign"
        /\ at'[Loop] = "return" => a = Loop \/ at[Loop] = "return"
        /\ at'[Loop] = "use" => at[Loop] = "use"
        /\ on[Loop] \in Forest
    BY <1>1, <2>1 DEF TypeOK
  <2> QED
    BY <2>1, <2>3, <2>4 DEF CacheInv, ReportedIsLoaded
<1>7. ASSUME NEW a \in Actor, Return(a)
      PROVE  CacheInv'
  <2>1. /\ UNCHANGED <<engine, report, on>>
        /\ at[a] = "return" /\ at' = [at EXCEPT ![a] = "use"]
        /\ local' = [local EXCEPT ![a] = engine[on[a]]]
    BY <1>7 DEF Return, Goto
  <2> QED
    BY <1>1, <2>1 DEF CacheInv, ReportedIsLoaded, TypeOK
<1>8. ASSUME NEW t \in Thread, SectionEnds(t) \/ \E f \in Forest : StartSnapshot(t, f)
      PROVE  CacheInv'
  <2>1. /\ UNCHANGED <<engine, report, local>>
        /\ at'[Loop] = at[Loop] /\ on'[Loop] = on[Loop]
        /\ \A b \in Actor : at'[b] = "assign" => at[b] = "assign"
    BY <1>1, <1>8, JobMoves
  <2> QED
    BY <2>1 DEF CacheInv, ReportedIsLoaded
<1>9. ASSUME NEW l \in {"idle", "check", "clear", "probe", "raised"},
             at' = [at EXCEPT ![Loop] = l], UNCHANGED <<engine, local>>, ReportedIsLoaded'
      PROVE  CacheInv'
  BY <1>1, <1>9 DEF CacheInv, TypeOK
<1>10. ASSUME NEW f \in Forest, BeginQuery(f)
       PROVE  CacheInv'
  <2>1. at' = [at EXCEPT ![Loop] = "check"] /\ UNCHANGED <<engine, report, local>>
    BY <1>10 DEF BeginQuery, Goto
  <2>2. ReportedIsLoaded'
    BY <2>1 DEF CacheInv, ReportedIsLoaded
  <2> QED
    BY <2>1, <2>2, <1>9
<1>11. ASSUME NEW name \in {"list", "reload"}, BeginTour(name)
       PROVE  CacheInv'
  <2>1. report' = [f \in Forest |-> "unset"] /\ UNCHANGED <<engine, at, on, local>>
    BY <1>11 DEF BeginTour
  <2> QED
    BY <2>1 DEF CacheInv, ReportedIsLoaded
<1>12. CASE EndQuery \/ Probe
  <2>1. /\ UNCHANGED <<engine, report, local>>
        /\ \E l \in {"idle", "raised", "check"} : at' = [at EXCEPT ![Loop] = l]
    BY <1>12 DEF EndQuery, Probe, Goto
  <2>2. ReportedIsLoaded'
    BY <2>1 DEF CacheInv, ReportedIsLoaded
  <2> QED
    BY <2>1, <2>2, <1>9
<1>13. CASE Visit
  <2>1. CASE effective_mode(Head(todo)) = "offline"
    <3>1. /\ UNCHANGED <<engine, report, local>>
          /\ \E l \in {"clear", "probe"} : at' = [at EXCEPT ![Loop] = l]
      BY <1>13, <2>1 DEF Visit, Goto
    <3>2. ReportedIsLoaded'
      BY <3>1 DEF CacheInv, ReportedIsLoaded
    <3> QED
      BY <3>1, <3>2, <1>9
  <2>2. CASE effective_mode(Head(todo)) # "offline"
    <3>1. /\ UNCHANGED <<engine, at, on, local>>
          /\ report' = [report EXCEPT ![Head(todo)] = "loaded"]
      BY <1>13, <2>2 DEF Visit
    <3>2. \A f \in Forest : f # Head(todo) => report'[f] = report[f]
      BY <3>1 DEF TypeOK
    <3> QED
      BY <2>2, <3>1, <3>2 DEF CacheInv, ReportedIsLoaded
  <2> QED
    BY <2>1, <2>2
<1>14. CASE Clear
  <2>1. /\ at[Loop] = "clear" /\ at' = [at EXCEPT ![Loop] = "probe"]
        /\ engine' = [engine EXCEPT ![on[Loop]] = 0]
        /\ UNCHANGED <<report, on, local>>
    BY <1>14 DEF Clear, Goto
  <2>2. report[on[Loop]] # "loaded"
    <3>1. Touring /\ todo # <<>> /\ on[Loop] = Head(todo)
      BY <2>1 DEF CallInv, Touring
    <3> QED
      BY <3>1, RestOfTour
  <2>3. \A f \in Forest : f # on[Loop] => engine'[f] = engine[f]
    BY <2>1 DEF TypeOK
  <2>4. ReportedIsLoaded'
    BY <2>1, <2>2, <2>3 DEF CacheInv, ReportedIsLoaded
  <2> QED
    BY <1>1, <2>1, <2>4 DEF CacheInv, TypeOK
<1>15. CASE EndProbe
  <2>1. /\ at' = [at EXCEPT ![Loop] = "idle"] /\ UNCHANGED <<engine, on, local>>
        /\ \A f \in Forest : f # on[Loop] => report'[f] = report[f]
        /\ report'[on[Loop]] = "loaded" => at[Loop] = "use"
    BY <1>1, <1>15 DEF EndProbe, Goto, TypeOK
  <2>2. ReportedIsLoaded'
    BY <2>1 DEF CacheInv, ReportedIsLoaded
  <2> QED
    BY <2>1, <2>2, <1>9
<1>16. CASE EndTour \/ UNCHANGED vars
  BY <1>2, <1>16 DEF EndTour, vars
<1> QED
  BY <1>3, <1>4, <1>5, <1>6, <1>7, <1>8, <1>10, <1>11, <1>12, <1>13, <1>14, <1>15, <1>16
  DEF Next, LoopStep, Ensure, Actor
-----------------------------------------------------------------------------
(* The invariant holds. *)

LEMMA InitInv == Init => IInv
<1> SUFFICES ASSUME Init
             PROVE  IInv
  OBVIOUS
<1>1. /\ Configured \in Seq(Forest) /\ Configured # <<>> /\ IsInjective(Configured)
      /\ Mode \in {"live", "offline"} /\ Override \in [Forest -> {"inherit", "live", "offline"}]
  BY WorkspaceAssumption
<1>2. Head(Configured) \in Forest
  BY <1>1, RestOfSeq
<1>3. \A f \in Forest : effective_mode(f) \in {"live", "offline"}
  BY <1>1 DEF effective_mode
<1>4. TypeOK
  <2>1. forests \in Seq(Forest) /\ todo \in Seq(Forest)
    BY <1>1 DEF Init
  <2>2. connector \in [Forest -> {"none", "live", "offline"}]
    BY <1>3 DEF Init, init_connectors
  <2>3. /\ engine \in [Forest -> 0 .. MaxVersion] /\ version \in [Forest -> 1 .. MaxVersion]
        /\ promised \in [Forest -> 0 .. MaxVersion] /\ local \in [Actor -> 0 .. MaxVersion]
        /\ sections \in [Thread -> 0 .. NSections]
    BY WorkspaceBounds DEF Init
  <2>4. /\ disk \in [Forest -> {"ok", "missing", "partial"}] /\ tool = "none"
        /\ report \in [Forest -> {"unset", "loaded", "error"}]
        /\ at \in [Actor -> At] /\ on \in [Actor -> Forest]
    BY <1>2 DEF Init, At
  <2> QED
    BY <2>1, <2>2, <2>3, <2>4 DEF TypeOK
<1>5. Loop \in Actor /\ \A t \in Thread : t \in Actor
  BY DEF Actor
<1>6. \A a \in Actor : at[a] = "idle"
  BY DEF Init
<1>7. CallInv /\ JobInv
  BY <1>5, <1>6 DEF Init, CallInv, JobInv, Touring
<1>8. DiskInv
  BY DEF Init, DiskInv
<1>9. NamesResolve
  BY <1>1, <1>3 DEF Init, NamesResolve, init_connectors
<1>10. CacheInv
  BY <1>5, <1>6 DEF Init, CacheInv, ReportedIsLoaded
<1> QED
  BY <1>4, <1>7, <1>8, <1>9, <1>10 DEF IInv, TypeInv

LEMMA InvStep == IInv /\ [Next]_vars => IInv'
  BY TypeStep, NamesStep, DiskStep, JobStep, CallStep, CacheStep DEF IInv, TypeInv

LEMMA Invariance == Spec => []IInv
  BY InitInv, InvStep, PTL DEF Spec

\* Every variable has its type; the versions a file goes through stay within the bound.
THEOREM TypeCorrect == Spec => []TypeOK
<1>1. IInv => TypeOK
  BY DEF IInv, TypeInv
<1> QED
  BY <1>1, Invariance, PTL

\* However configured forests and loaded snapshots follow each other, every listed name has
\* a connector, every connector a listed name, and no name is listed twice.
THEOREM NamesAlwaysResolve == Spec => []NamesResolve
<1>1. IInv => NamesResolve
  BY DEF IInv
<1> QED
  BY <1>1, Invariance, PTL

\* Although _ensure_loaded reads the field again after its check, a tool call never gets
\* None from it: of all the actors only the event loop clears the field.
THEOREM ToolCallsHaveEngines == Spec => []ToolCallHasEngine
<1>1. IInv => ToolCallHasEngine
  BY DEF IInv, CacheInv, ToolCallHasEngine
<1> QED
  BY <1>1, Invariance, PTL

\* A forest that list_workspaces or reload_workspace reports as loaded stays loaded until
\* the next reload, whatever collector and snapshot jobs do.
THEOREM ReportsStayTrue == Spec => []ReportedIsLoaded
<1>1. IInv => ReportedIsLoaded
  BY DEF IInv, CacheInv
<1> QED
  BY <1>1, Invariance, PTL
-----------------------------------------------------------------------------
(* Freshness, in a workspace whose mode is offline. *)

LEMMA InitFresh == Mode = "offline" /\ Init => FreshInv
<1> SUFFICES ASSUME Mode = "offline", Init
             PROVE  FreshInv
  OBVIOUS
<1>1. \A f \in Forest : f \notin ToSet(Configured) => Override[f] = "inherit"
  BY WorkspaceAssumption
<1>2. \A f \in Forest : effective_mode(f) # "none"
  BY WorkspaceAssumption DEF effective_mode
<1>3. \A a \in Actor : at[a] = "idle"
  BY DEF Init
<1>4. Loop \in Actor
  BY DEF Actor
<1>5. /\ \A f \in Forest : engine[f] = 0 /\ promised[f] = 0 /\ version[f] = 1
      /\ \A f \in Forest : connector[f] = IF f \in ToSet(Configured) THEN effective_mode(f)
                                          ELSE "none"
  BY DEF Init, init_connectors
<1> QED
  BY <1>1, <1>2, <1>3, <1>4, <1>5 DEF FreshInv

\* A step of a snapshot job leaves behind a job that has been started.
LEMMA NoLongerAlone ==
    ASSUME NEW t \in Thread, TypeOK,
           Ensure(t) \/ SectionEnds(t) \/ \E f \in Forest : StartSnapshot(t, f)
    PROVE  ~Alone'
<1>1. t \in Actor
  BY DEF Actor
<1>2. CASE Ensure(t)
  BY <1>1, <1>2, EnsureMoves DEF Alone
<1>3. CASE SectionEnds(t) \/ \E f \in Forest : StartSnapshot(t, f)
  BY <1>3, JobMoves DEF Alone
<1> QED
  BY <1>2, <1>3

\* What the step of any actor does to the modes behind names.
LEMMA ModesStep ==
    Mode = "offline" /\ IInv /\ FreshInv /\ [Next]_vars =>
        \A f \in Forest : /\ connector'[f] # "none" => connector'[f] = effective_mode(f)
                          /\ connector'[f] = "none" => Override[f] = "inherit"
                          /\ connector[f] = "offline" => connector'[f] = "offline"
                          /\ connector'[f] # "offline" => connector[f] # "offline"
<1> SUFFICES ASSUME Mode = "offline", TypeOK, FreshInv, [Next]_vars, NEW f \in Forest
             PROVE  /\ connector'[f] # "none" => connector'[f] = effective_mode(f)
                    /\ connector'[f] = "none" => Override[f] = "inherit"
                    /\ connector[f] = "offline" => connector'[f] = "offline"
                    /\ connector'[f] # "offline" => connector[f] # "offline"
  BY DEF IInv, TypeInv
<1>1. CASE connector' = connector
  BY <1>1 DEF FreshInv
<1>2. ASSUME NEW g \in Forest, LoadSnapshot(g)
      PROVE  /\ connector'[f] # "none" => connector'[f] = effective_mode(f)
             /\ connector'[f] = "none" => Override[f] = "inherit"
             /\ connector[f] = "offline" => connector'[f] = "offline"
             /\ connector'[f] # "offline" => connector[f] # "offline"
  <2>1. connector[g] = "none" /\ connector' = [connector EXCEPT ![g] = "offline"]
    BY <1>2 DEF LoadSnapshot
  <2>2. effective_mode(g) = "offline"
    BY <2>1 DEF FreshInv, effective_mode
  <2> QED
    BY <2>1, <2>2 DEF FreshInv, TypeOK
<1> QED
  BY <1>1, <1>2, FrameOfSetup DEF setup

LEMMA FreshStep == Mode = "offline" /\ IInv /\ FreshInv /\ [Next]_vars => FreshInv'
<1> SUFFICES ASSUME Mode = "offline", IInv, FreshInv, [Next]_vars
             PROVE  FreshInv'
  OBVIOUS
<1> USE DEF FreshInv
<1>1. TypeOK /\ CallInv
  BY DEF IInv, TypeInv
<1>2. Loop \in Actor /\ \A t \in Thread : t \in Actor /\ t # Loop
  BY WorkspaceAssumption DEF Actor
<1>3. \A f \in Forest : /\ engine[f] \in Nat /\ version[f] \in Nat /\ promised[f] \in Nat
                        /\ version[f] # 0
  BY <1>1, WorkspaceBounds DEF TypeOK
<1>4. /\ \A f \in Forest : connector'[f] # "none" => connector'[f] = effective_mode(f)
      /\ \A f \in Forest : connector'[f] = "none" => Override[f] = "inherit"
      /\ \A f \in Forest : connector[f] = "offline" => connector'[f] = "offline"
      /\ \A f \in Forest : connector'[f] # "offline" => connector[f] # "offline"
  BY ModesStep
<1> HIDE DEF FreshInv
<1>5. CASE UNCHANGED <<engine, version, promised, at, on, local, sections>>
  BY <1>4, <1>5, <1>1 DEF FreshInv, Alone, TypeOK
<1>6. ASSUME NEW f \in Forest, CollectorEnds(f)
      PROVE  FreshInv'
  <2>1. /\ version' = [version EXCEPT ![f] = @ + 1]
        /\ UNCHANGED <<engine, promised, at, on, local, sections, connector>>
    BY <1>6 DEF CollectorEnds, setup
  <2>2. \A g \in Forest : version'[g] >= version[g]
    BY <1>1, <1>3, <2>1 DEF TypeOK
  <2>3. \A g \in Forest : promised'[g] <= version'[g]
    <3>1. \A g \in Forest : version'[g] \in Nat
      BY <1>1, <1>3, <2>1 DEF TypeOK
    <3> QED
      BY <1>3, <2>1, <2>2, <3>1 DEF FreshInv
  <2> QED
    BY <2>1, <2>3 DEF FreshInv, Alone
<1>7. ASSUME NEW t \in Thread, Ensure(t) \/ SectionEnds(t) \/ \E f \in Forest : StartSnapshot(t, f)
      PROVE  FreshInv'
  <2>1. ~Alone'
    BY <1>1, <1>7, NoLongerAlone
  <2>2. UNCHANGED <<connector, version, promised>>
    BY <1>1, <1>2, <1>7, EnsureMoves, JobMoves DEF setup, file
  <2>3. \A a \in Actor : at'[a] # "idle" => connector[on'[a]] = "offline"
    <3>1. CASE Ensure(t)
      BY <1>1, <1>2, <3>1, EnsureMoves DEF FreshInv
    <3>2. CASE SectionEnds(t)
      <4>1. at[t] # "idle" /\ on' = on /\ \A a \in Actor : a # t => at'[a] = at[a]
        BY <1>1, <3>2 DEF SectionEnds, Goto, TypeOK
      <4> QED
        BY <1>2, <4>1 DEF FreshInv
    <3>3. ASSUME NEW f \in Forest, StartSnapshot(t, f)
          PROVE  \A a \in Actor : at'[a] # "idle" => connector[on'[a]] = "offline"
      <4>1. /\ connector[f] = "offline" /\ on'[t] = f
            /\ \A a \in Actor : a # t => at'[a] = at[a] /\ on'[a] = on[a]
        BY <1>1, <1>2, <3>3 DEF StartSnapshot, Goto, TypeOK
      <4> QED
        BY <4>1 DEF FreshInv
    <3> QED
      BY <1>7, <3>1, <3>2, <3>3
  <2>4. \A f \in Forest : connector[f] # "offline" => engine'[f] = 0
    <3>1. UNCHANGED engine \/ (at[t] = "assign" /\ engine' = [engine EXCEPT ![on[t]] = local[t]])
      BY <1>1, <1>7, JobMoves DEF Ensure, Check, Load, Assign, Return
    <3> QED
      BY <1>1, <1>2, <3>1 DEF FreshInv, TypeOK
  <2> QED
    BY <1>4, <2>1, <2>2, <2>3, <2>4 DEF FreshInv
<1>8. CASE Ensure(Loop)
  <2>1. /\ UNCHANGED <<connector, version, promised, on, sections>>
        /\ \A a \in Actor : at'[a] # "idle" => at[a] # "idle"
        /\ \A t \in Thread : at'[t] = at[t]
    BY <1>1, <1>2, <1>8, EnsureMoves DEF setup, file
  <2>2. Alone' => Alone
    BY <2>1 DEF Alone
  <2>3. connector[on[Loop]] = "offline" /\ on[Loop] \in Forest
    BY <1>1, <1>2, <1>8, EnsureMoves DEF FreshInv, TypeOK
  <2>4. CASE Assign(Loop)
    <3>1. /\ at[Loop] = "assign" /\ at'[Loop] = "return"
          /\ engine' = [engine EXCEPT ![on[Loop]] = local[Loop]]
      BY <1>1, <1>2, <2>4 DEF Assign, Goto, TypeOK
    <3>2. \A f \in Forest : engine'[f] = IF f = on[Loop] THEN local[Loop] ELSE engine[f]
      BY <1>1, <3>1 DEF TypeOK
    <3>3. \A f \in Forest : connector[f] # "offline" => engine'[f] = 0
      BY <2>3, <3>2 DEF FreshInv
    <3>4. Alone => \A f \in Forest : engine'[f] # 0 => engine'[f] >= promised[f]
      BY <3>1, <3>2 DEF FreshInv
    <3> QED
      BY <1>4, <2>1, <2>2, <3>1, <3>3, <3>4 DEF FreshInv
  <2>5. CASE Load(Loop)
    <3>1. UNCHANGED engine /\ (at'[Loop] = "assign" => local'[Loop] = version[on[Loop]])
      BY <1>1, <1>2, <2>5 DEF Load, Goto, TypeOK
    <3>2. version[on[Loop]] >= promised[on[Loop]]
      BY <1>3, <2>3 DEF FreshInv
    <3> QED
      BY <1>4, <2>1, <2>2, <3>1, <3>2 DEF FreshInv
  <2>6. CASE Check(Loop) \/ Return(Loop)
    <3>1. UNCHANGED engine /\ at'[Loop] # "assign"
      BY <1>1, <1>2, <2>6 DEF Check, Return, Goto, TypeOK
    <3> QED
      BY <1>4, <2>1, <2>2, <3>1 DEF FreshInv
  <2> QED
    BY <1>8, <2>4, <2>5, <2>6 DEF Ensure
<1>9. ASSUME UNCHANGED <<connector, version, engine, sections>>,
             \A t \in Thread : at'[t] = at[t] /\ on'[t] = on[t],
             at'[Loop] # "assign",
             at'[Loop] # "idle" => connector[on'[Loop]] = "offline",
             \A f \in Forest : promised'[f] \in {0, promised[f]}
      PROVE  FreshInv'
  <2>1. Alone' => Alone
    BY <1>9 DEF Alone
  <2>2. \A f \in Forest : promised'[f] <= promised[f] /\ promised'[f] \in Nat
    BY <1>3, <1>9
  <2>3. \A f \in Forest : promised'[f] <= version[f]
    BY <1>3, <2>2 DEF FreshInv
  <2>4. Alone => \A f \in Forest : engine[f] # 0 => engine[f] >= promised'[f]
    BY <1>3, <2>2 DEF FreshInv
  <2>5. \A a \in Actor : at'[a] # "idle" => connector[on'[a]] = "offline"
    BY <1>2, <1>9 DEF FreshInv, Actor
  <2> QED
    BY <1>4, <1>9, <2>1, <2>3, <2>4, <2>5 DEF FreshInv
<1>10. ASSUME NEW f \in Forest, BeginQuery(f)
       PROVE  FreshInv'
  <2>1. /\ UNCHANGED <<connector, version, engine, sections, promised>> /\ connector[f] = "offline"
        /\ \A t \in Thread : at'[t] = at[t] /\ on'[t] = on[t]
        /\ at'[Loop] = "check" /\ on'[Loop] = f
    BY <1>1, <1>2, <1>10 DEF BeginQuery, Goto, TypeOK, setup, file
  <2> QED
    BY <1>9, <2>1
<1>11. CASE EndQuery \/ Probe \/ EndProbe
  <2>1. /\ UNCHANGED <<connector, version, engine, sections, on>>
        /\ \A t \in Thread : at'[t] = at[t]
        /\ at'[Loop] # "assign" /\ (at'[Loop] # "idle" => at[Loop] # "idle")
    BY <1>1, <1>2, <1>11 DEF EndQuery, Probe, EndProbe, Goto, TypeOK, setup, file
  <2>2. \A f \in Forest : promised'[f] \in {0, promised[f]}
    BY <1>1, <1>11 DEF EndQuery, Probe, EndProbe, TypeOK
  <2>3. at'[Loop] # "idle" => connector[on'[Loop]] = "offline"
    BY <1>2, <2>1 DEF FreshInv
  <2> QED
    BY <1>9, <2>1, <2>2, <2>3
<1>12. CASE Visit
  <2>1. /\ UNCHANGED <<connector, version, engine, sections, local>> /\ at[Loop] = "idle"
        /\ Touring /\ todo # <<>>
    BY <1>12 DEF Visit, setup, file, Touring
  <2>2. Head(todo) \in Forest /\ connector[Head(todo)] = effective_mode(Head(todo))
    BY <1>1, <2>1, RestOfTour DEF FreshInv
  <2>3. CASE effective_mode(Head(todo)) = "offline"
    <3>1. /\ UNCHANGED promised /\ on'[Loop] = Head(todo) /\ at'[Loop] \in {"clear", "probe"}
          /\ \A t \in Thread : at'[t] = at[t] /\ on'[t] = on[t]
      BY <1>1, <1>2, <1>12, <2>3 DEF Visit, Goto, TypeOK
    <3> QED
      BY <1>9, <2>1, <2>2, <2>3, <3>1
  <2>4. CASE effective_mode(Head(todo)) # "offline"
    <3>1. /\ UNCHANGED <<at, on>>
          /\ \/ UNCHANGED promised
             \/ promised' = [promised EXCEPT ![Head(todo)] = version[Head(todo)]]
      BY <1>12, <2>4 DEF Visit
    <3>2. engine[Head(todo)] = 0
      BY <2>2, <2>4 DEF FreshInv
    <3>3. \A f \in Forest : \/ promised'[f] = promised[f]
                            \/ promised'[f] = version[f] /\ engine[f] = 0
      BY <1>1, <2>2, <3>1, <3>2 DEF TypeOK
    <3>4. \A f \in Forest : promised'[f] <= version[f]
      BY <1>3, <3>3 DEF FreshInv
    <3>5. Alone' => Alone
      BY <2>1, <3>1 DEF Alone
    <3> QED
      BY <1>4, <2>1, <3>1, <3>3, <3>4, <3>5 DEF FreshInv
  <2> QED
    BY <2>3, <2>4
<1>13. CASE Clear
  <2>1. /\ UNCHANGED <<connector, version, sections, on>> /\ at[Loop] = "clear"
        /\ at'[Loop] = "probe" /\ \A t \in Thread : at'[t] = at[t]
    BY <1>1, <1>2, <1>13 DEF Clear, Goto, TypeOK, setup, file
  <2>2. \A f \in Forest :
            \/ f # on[Loop] /\ engine'[f] = engine[f] /\ promised'[f] = promised[f]
            \/ f = on[Loop] /\ engine'[f] = 0 /\ promised'[f] = version[f]
    BY <1>1, <1>13 DEF Clear, TypeOK
  <2>3. \A f \in Forest : promised'[f] <= version[f]
    BY <1>3, <2>2 DEF FreshInv
  <2>4. Alone' => Alone
    BY <2>1 DEF Alone
  <2>5. \A a \in Actor : at'[a] # "idle" => connector[on'[a]] = "offline"
    BY <1>2, <2>1 DEF FreshInv, Actor
  <2> QED
    BY <1>4, <2>1, <2>2, <2>3, <2>4, <2>5 DEF FreshInv
<1>14. CASE \/ \E f \in Forest : CollectorRenames(f) \/ CollectorWrites(f) \/ LoadSnapshot(f)
            \/ \E name \in {"list", "reload"} : BeginTour(name)
            \/ EndTour \/ UNCHANGED vars
  BY <1>5, <1>14 DEF CollectorRenames, CollectorWrites, LoadSnapshot, BeginTour, EndTour, vars, file
<1> QED
  BY <1>6, <1>7, <1>8, <1>10, <1>11, <1>12, <1>13, <1>14 DEF Next, LoopStep

LEMMA FreshAlways ==
    ASSUME Mode = "offline"
    PROVE  Spec => [](IInv /\ FreshInv)
<1>1. Init => IInv /\ FreshInv
  BY InitInv, InitFresh
<1>2. IInv /\ FreshInv /\ [Next]_vars => (IInv /\ FreshInv)'
  BY InvStep, FreshStep
<1> QED
  BY <1>1, <1>2, PTL DEF Spec

\* In an offline workspace in which no snapshot job runs, reload_workspace keeps its
\* promise: no query is answered from a version older than the one that was on disk when
\* the reload came to the forest, however collector, queries and reloads interleave.
THEOREM ReloadIsFreshAlone ==
    ASSUME Mode = "offline"
    PROVE  Spec => []ReloadAloneIsFresh
<1>1. FreshInv => ReloadAloneIsFresh
  BY DEF FreshInv, Alone, ReloadAloneIsFresh, ReloadIsFresh
<1> QED
  BY <1>1, FreshAlways, PTL

-----------------------------------------------------------------------------
(* Tours of all the forests. *)

\* A tour has an entry for those it has visited, and only for those.
LEMMA TourStep == IInv /\ TourReachesAll /\ [Next]_vars => TourReachesAll'
<1> SUFFICES ASSUME TypeOK, CallInv, TourReachesAll, [Next]_vars
             PROVE  TourReachesAll'
  BY DEF IInv, TypeInv
<1>1. Loop \in Actor
  BY DEF Actor
<1>2. CASE UNCHANGED <<tool, todo, report, forests>>
  BY <1>2 DEF TourReachesAll
<1>3. CASE tool' \in {"none", "query"}
  BY <1>3 DEF TourReachesAll
<1>4. ASSUME NEW f \in Forest, CollectorRenames(f) \/ CollectorWrites(f) \/ CollectorEnds(f)
      PROVE  TourReachesAll'
  BY <1>2, <1>4 DEF CollectorRenames, CollectorWrites, CollectorEnds, setup
<1>5. ASSUME NEW a \in Actor, Ensure(a)
      PROVE  TourReachesAll'
  BY <1>2, <1>5, EnsureMoves DEF setup
<1>6. ASSUME NEW t \in Thread, SectionEnds(t) \/ \E f \in Forest : StartSnapshot(t, f)
      PROVE  TourReachesAll'
  BY <1>2, <1>6, JobMoves DEF setup
<1>7. ASSUME NEW f \in Forest, BeginQuery(f) \/ LoadSnapshot(f)
      PROVE  TourReachesAll'
  BY <1>3, <1>7 DEF BeginQuery, LoadSnapshot
<1>8. CASE EndQuery \/ EndTour
  BY <1>3, <1>8 DEF EndQuery, EndTour
<1>9. CASE Clear \/ Probe
  BY <1>2, <1>9 DEF Clear, Probe, setup
<1>10. ASSUME NEW name \in {"list", "reload"}, BeginTour(name)
       PROVE  TourReachesAll'
  <2>1. /\ todo' = forests /\ forests' = forests
        /\ report' = [f \in Forest |-> "unset"]
    BY <1>10 DEF BeginTour, setup
  <2>2. ToSet(forests) \subseteq Forest
    <3>1. DOMAIN forests = 1 .. Len(forests) /\ \A i \in 1 .. Len(forests) : forests[i] \in Forest
      BY LenProperties, ElementOfSeq DEF TypeOK
    <3> QED
      BY <3>1 DEF ToSet
  <2> QED
    BY <2>1, <2>2 DEF TourReachesAll
\* The first of the forests that are left gets its entry.
<1>11. ASSUME Touring, todo # <<>>, todo' = Tail(todo), tool' = tool, forests' = forests,
              NEW entry \in {"loaded", "error"}, report' = [report EXCEPT ![Head(todo)] = entry]
       PROVE  TourReachesAll'
  <2>1. /\ Head(todo) \in Forest /\ Head(todo) = todo[1] /\ 1 \in 1 .. Len(todo)
        /\ Tail(todo) \in Seq(Forest) /\ Len(Tail(todo)) = Len(todo) - 1 /\ Len(todo) \in Nat
        /\ \A i \in 1 .. Len(Tail(todo)) : i + 1 \in 1 .. Len(todo) /\ Tail(todo)[i] = todo[i + 1]
                                           /\ Tail(todo)[i] # Head(todo)
    BY <1>11, RestOfSeq, HeadTailProperties, LenProperties DEF TypeOK, CallInv
  <2>2. DOMAIN todo = 1 .. Len(todo) /\ DOMAIN Tail(todo) = 1 .. Len(Tail(todo))
    BY <2>1, LenProperties DEF TypeOK
  <2>3. ToSet(Tail(todo)) = ToSet(todo) \ {Head(todo)}
    <3>1. \A i \in 1 .. Len(todo) : i = 1 \/ (i - 1 \in 1 .. Len(Tail(todo)) /\ (i - 1) + 1 = i)
      BY <2>1
    <3>2. ASSUME NEW f \in ToSet(todo)
          PROVE  f = Head(todo) \/ f \in ToSet(Tail(todo))
      <4>1. PICK i \in 1 .. Len(todo) : f = todo[i]
        BY <2>2 DEF ToSet
      <4>2. CASE i = 1
        BY <2>1, <4>1, <4>2
      <4>3. CASE i # 1
        <5>1. i - 1 \in DOMAIN Tail(todo) /\ Tail(todo)[i - 1] = todo[i]
          BY <2>1, <2>2, <3>1, <4>3
        <5> QED
          BY <4>1, <5>1 DEF ToSet
      <4> QED
        BY <4>2, <4>3
    <3>3. \A f \in ToSet(Tail(todo)) : f \in ToSet(todo) /\ f # Head(todo)
      BY <2>1, <2>2 DEF ToSet
    <3> QED
      BY <3>2, <3>3
  <2>4. /\ report'[Head(todo)] # "unset"
        /\ \A f \in Forest : f # Head(todo) => report'[f] = report[f]
    BY <1>11, <2>1 DEF TypeOK
  <2>5. ToSet(forests) \subseteq Forest
    <3>1. DOMAIN forests = 1 .. Len(forests) /\ \A i \in 1 .. Len(forests) : forests[i] \in Forest
      BY LenProperties, ElementOfSeq DEF TypeOK
    <3> QED
      BY <3>1 DEF ToSet
  <2>6. \A f \in ToSet(forests) : report[f] = "unset" <=> f \in ToSet(todo)
    BY <1>11 DEF TourReachesAll, Touring
  <2> QED
    BY <1>11, <2>3, <2>4, <2>5, <2>6 DEF TourReachesAll
<1>12. CASE Visit
  <2>1. Touring /\ todo # <<>> /\ tool' = tool /\ forests' = forests
    BY <1>12 DEF Visit, Touring, setup
  <2>2. CASE effective_mode(Head(todo)) = "offline"
    BY <1>2, <1>12, <2>1, <2>2 DEF Visit
  <2>3. CASE effective_mode(Head(todo)) # "offline"
    BY <1>11, <1>12, <2>1, <2>3 DEF Visit
  <2> QED
    BY <2>2, <2>3
<1>13. CASE EndProbe
  <2>1. /\ Touring /\ tool' = tool /\ forests' = forests /\ at[Loop] # "idle"
        /\ todo' = Tail(todo)
    BY <1>13 DEF EndProbe, Touring, setup
  <2>2. todo # <<>> /\ on[Loop] = Head(todo)
    BY <2>1 DEF CallInv
  <2>3. PICK entry \in {"loaded", "error"} : report' = [report EXCEPT ![Head(todo)] = entry]
    BY <1>13, <2>2 DEF EndProbe
  <2> QED
    BY <1>11, <2>1, <2>2, <2>3
<1>14. CASE UNCHANGED vars
  BY <1>2, <1>14 DEF vars
<1> QED
  BY <1>4, <1>5, <1>6, <1>7, <1>8, <1>9, <1>10, <1>12, <1>13, <1>14 DEF Next, LoopStep, Actor

\* "A failure on one forest does not prevent the others from reloading": for any forests, whatever
\* becomes of their files meanwhile, a tour that returns has an entry for every forest of the
\* workspace, and on its way for exactly those it has passed (list_workspaces, reload_workspace).
THEOREM ToursReachAll == Spec => []TourReachesAll
<1>1. Init => TourReachesAll
  BY DEF Init, TourReachesAll
<1>2. IInv /\ TourReachesAll /\ [Next]_vars => TourReachesAll'
  BY TourStep
<1> QED
  BY <1>1, <1>2, Invariance, PTL DEF Spec
=============================================================================
