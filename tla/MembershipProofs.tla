--------------------------- MODULE MembershipProofs ---------------------------
(***************************************************************************)
(* What Membership guarantees for any directory: any number of objects,    *)
(* members and deletions.  Every name that may still add to the result is  *)
(* either the group being entered or waits in the foreach of a group on    *)
(* the stack; when the stack is empty, nothing is left out.                *)
(***************************************************************************)
EXTENDS Membership, SequenceTheorems, FiniteSetTheorems, TLAPS

Found == visited \cup collected \cup unresolved

\* The group being entered, as a set.
Entering == IF pc = "call" THEN {callee} ELSE {}

StackInv == /\ pc = "loop" => stack # <<>>
            /\ pc = "done" => stack = <<>>
            /\ \A i \in 1 .. Len(stack) : stack[i] \in visited
            /\ NoGroupTwiceOnStack

\* Everything met so far is reachable.
ReachInv == /\ callee \in Reachable
            /\ \A g \in DN : todo[g] \subseteq Reachable
            /\ FoundIsReachable

\* What has not been found yet will be.
PendingInv == /\ \A g \in DN : todo[g] # {} => \E i \in 1 .. Len(stack) : stack[i] = g
              /\ pc # "error" =>
                     /\ Root \in visited \cup Entering
                     /\ \A g \in visited : member[g] \subseteq Found \cup Entering \cup todo[g]

\* As long as nothing has been deleted, everything is where its kind belongs.
KindInv == deletes = 0 =>
               /\ \A d \in DN : kind[d] # "group" => member[d] = {}
               /\ pc = "call" => kind[callee] = "group"
               /\ \A d \in collected : kind[d] = "principal"
               /\ \A d \in unresolved : kind[d] = "missing"
               /\ pc # "error" => \A d \in visited : kind[d] = "group"
               /\ BrokenMemberCostsOneMember

IInv == TypeOK /\ StackInv /\ ReachInv /\ PendingInv /\ KindInv
-----------------------------------------------------------------------------
(* Reachability and the stack. *)

\* Reachable is itself closed.
LEMMA ReachableIsClosed == TypeOK => Root \in Reachable /\ \A g \in Reachable : member[g] \subseteq Reachable
<1> SUFFICES ASSUME TypeOK
             PROVE  Root \in Reachable /\ \A g \in Reachable : member[g] \subseteq Reachable
  OBVIOUS
<1>1. Root \in Reachable
  BY MembershipAssumption DEF Reachable, Closed
<1>2. ASSUME NEW g \in Reachable, NEW d \in member[g]
      PROVE  d \in Reachable
  <2>1. d \in DN /\ g \in DN
    BY <1>2 DEF Reachable, TypeOK
  <2>2. ASSUME NEW C \in SUBSET DN, Closed(C)
        PROVE  d \in C
    <3>1. g \in C
      BY <1>2, <2>2 DEF Reachable
    <3> QED
      BY <1>2, <2>2, <3>1 DEF Closed
  <2> QED
    BY <2>1, <2>2 DEF Reachable
<1> QED
  BY <1>1, <1>2

\* It is contained in every closed set.
LEMMA ReachableIsLeast ==
    ASSUME NEW C \in SUBSET DN, Closed(C)
    PROVE  Reachable \subseteq C
  BY DEF Reachable

\* It depends on the member attributes alone.
LEMMA ReachableIsStable == UNCHANGED member => Reachable' = Reachable
<1> SUFFICES ASSUME member' = member
             PROVE  Reachable' = Reachable
  OBVIOUS
<1>1. \A C : Closed(C)' <=> Closed(C)
  BY DEF Closed
<1> QED
  BY <1>1 DEF Reachable

\* Entering a group puts it on the stack.
LEMMA Pushed ==
    ASSUME TypeOK, NEW d \in DN
    PROVE  /\ Append(stack, d) \in Seq(DN) /\ Append(stack, d) # <<>>
           /\ Len(Append(stack, d)) = Len(stack) + 1 /\ Len(stack) \in Nat
           /\ \A i \in 1 .. Len(stack) : Append(stack, d)[i] = stack[i]
           /\ Append(stack, d)[Len(stack) + 1] = d
<1>1. stack \in Seq(DN) /\ Len(stack) \in Nat
  BY LenProperties DEF TypeOK
<1>2. /\ Append(stack, d) \in Seq(DN) /\ Len(Append(stack, d)) = Len(stack) + 1
      /\ \A i \in 1 .. Len(stack) : Append(stack, d)[i] = stack[i]
      /\ Append(stack, d)[Len(stack) + 1] = d
  BY <1>1, AppendProperties
<1>3. Len(<<>>) = 0
  BY EmptySeq
<1> QED
  BY <1>1, <1>2, <1>3

\* Ending a group takes it, the last, from the stack.
Popped == SubSeq(stack, 1, Len(stack) - 1)

LEMMA PoppedIsRest ==
    ASSUME TypeOK, stack # <<>>
    PROVE  /\ Popped \in Seq(DN) /\ Len(Popped) = Len(stack) - 1 /\ Len(stack) \in Nat \ {0}
           /\ \A i \in 1 .. Len(Popped) : Popped[i] = stack[i]
           /\ Top \in DN
<1>1. stack \in Seq(DN) /\ Len(stack) \in Nat \ {0} /\ \A i \in 1 .. Len(stack) : stack[i] \in DN
  BY EmptySeq, ElementOfSeq DEF TypeOK
<1>2. \A i \in 1 .. Len(stack) - 1 : stack[i] \in DN
  BY <1>1
<1>3. /\ Popped \in Seq(DN)
      /\ Len(Popped) = IF 1 <= Len(stack) - 1 THEN Len(stack) - 1 - 1 + 1 ELSE 0
      /\ \A i \in 1 .. Len(stack) - 1 - 1 + 1 : Popped[i] = stack[1 + i - 1]
  BY <1>1, <1>2, SubSeqProperties DEF Popped
<1>4. Len(Popped) = Len(stack) - 1
  <2>1. \A n \in Nat \ {0} : n - 1 = IF 1 <= n - 1 THEN n - 1 - 1 + 1 ELSE 0
    OBVIOUS
  <2> QED
    BY <1>1, <1>3, <2>1
<1>5. \A i \in 1 .. Len(Popped) : Popped[i] = stack[i]
  BY <1>1, <1>3, <1>4
<1> QED
  BY <1>1, <1>3, <1>4, <1>5 DEF Top
-----------------------------------------------------------------------------
(* Initial states. *)

LEMMA InitInv == Init => IInv
<1> SUFFICES ASSUME Init
             PROVE  IInv
  OBVIOUS
<1>1. Root \in DN /\ MaxDeletes \in Nat
  BY MembershipAssumption
<1>2. TypeOK
  BY <1>1 DEF Init, TypeOK, Kind
<1>3. StackInv
  <2>1. Len(stack) = 0 /\ pc = "call"
    BY EmptySeq DEF Init
  <2> QED
    BY <2>1 DEF StackInv, NoGroupTwiceOnStack
<1>4. ReachInv
  BY <1>2, ReachableIsClosed DEF Init, ReachInv, FoundIsReachable
<1>5. PendingInv
  BY DEF Init, PendingInv, Entering
<1>6. KindInv
  <2>1. \A d \in DN : kind[d] # "group" => member[d] = {}
    BY DEF Init
  <2> QED
    BY <2>1 DEF Init, KindInv, BrokenMemberCostsOneMember
<1> QED
  BY <1>2, <1>3, <1>4, <1>5, <1>6 DEF IInv
-----------------------------------------------------------------------------
(* Steps.  Members that are taken from a foreach one after the other. *)

\* What Take leaves in the foreach of each group.
LEMMA TakeLeaves ==
    ASSUME TypeOK, StackInv, NEW d \in DN, Take(d)
    PROVE  /\ todo' \in [DN -> SUBSET DN] /\ Top \in DN /\ d \in todo[Top]
           /\ \A g \in DN : todo[g] = todo'[g] \cup IF g = Top THEN {d} ELSE {}
<1>1. stack # <<>>
  BY DEF Take, StackInv
<1>2. Top \in DN
  BY <1>1, PoppedIsRest
<1>3. /\ d \in todo[Top] /\ todo' = [todo EXCEPT ![Top] = todo[Top] \ {d}]
  BY DEF Take
<1> QED
  BY <1>2, <1>3 DEF TypeOK

LEMMA TypeStep == IInv /\ [Next]_vars => TypeOK'
<1> SUFFICES ASSUME TypeOK, StackInv, [Next]_vars
             PROVE  TypeOK'
  BY DEF IInv
<1>1. CASE UNCHANGED vars
  BY <1>1 DEF vars, directory, results, TypeOK
<1>2. CASE SkipVisited
  <2>1. cycles' = cycles + 1 /\ cycles' \in Nat
    BY <1>2 DEF SkipVisited, TypeOK
  <2> QED
    BY <1>2, <2>1 DEF SkipVisited, Resume, directory, TypeOK
<1>3. CASE EnterGroup
  <2>1. stack' \in Seq(DN) /\ pc' \in {"done", "loop"}
    BY <1>3, Pushed DEF EnterGroup, Resume, TypeOK
  <2>2. todo' \in [DN -> SUBSET DN] /\ visited' \subseteq DN
    BY <1>3 DEF EnterGroup, TypeOK
  <2> QED
    BY <1>3, <2>1, <2>2 DEF EnterGroup, directory, TypeOK
<1>4. CASE ReadFails
  BY <1>4 DEF ReadFails, directory, TypeOK
<1>5. CASE EndGroup
  <2>1. stack' \in Seq(DN) /\ pc' \in {"done", "loop"}
    BY <1>5, PoppedIsRest DEF EndGroup, Resume, Popped, StackInv
  <2> QED
    BY <1>5, <2>1 DEF EndGroup, directory, results, TypeOK
<1>6. ASSUME NEW d \in DN, MemberMissing(d) \/ MemberPrincipal(d) \/ MemberGroup(d) \/ MemberFails(d)
      PROVE  TypeOK'
  <2>1. Take(d)
    BY <1>6 DEF MemberMissing, MemberPrincipal, MemberGroup, MemberFails
  <2>2. todo' \in [DN -> SUBSET DN] /\ UNCHANGED <<kind, member, deletes, stack, visited, cycles>>
    BY <2>1, TakeLeaves DEF Take, directory
  <2>3. /\ collected' \subseteq DN /\ unresolved' \subseteq DN /\ callee' \in DN
        /\ pc' \in {"call", "loop", "done", "error"}
    BY <1>6 DEF MemberMissing, MemberPrincipal, MemberGroup, MemberFails, TypeOK
  <2> QED
    BY <2>2, <2>3 DEF TypeOK
<1>7. ASSUME NEW d \in DN, Delete(d)
      PROVE  TypeOK'
  <2>1. kind' \in [DN -> Kind]
    BY <1>7 DEF Delete, Kind, TypeOK
  <2>2. deletes' \in 0 .. MaxDeletes
    BY <1>7, MembershipAssumption DEF Delete, TypeOK
  <2> QED
    BY <1>7, <2>1, <2>2 DEF Delete, results, TypeOK
<1> QED
  BY <1>1, <1>2, <1>3, <1>4, <1>5, <1>6, <1>7 DEF Next, Expand

LEMMA StackStep == IInv /\ [Next]_vars => StackInv'
<1> SUFFICES ASSUME TypeOK, StackInv, [Next]_vars
             PROVE  StackInv'
  BY DEF IInv
<1>1. CASE UNCHANGED <<stack, visited>> /\ pc' \notin {"loop", "done"}
  BY <1>1 DEF StackInv, NoGroupTwiceOnStack
<1>2. CASE UNCHANGED <<stack, visited, pc>>
  BY <1>2 DEF StackInv, NoGroupTwiceOnStack
<1>3. CASE SkipVisited
  BY <1>3 DEF SkipVisited, Resume, StackInv, NoGroupTwiceOnStack
<1>4. CASE EnterGroup
  <2>1. /\ callee \notin visited /\ callee \in DN /\ visited' = visited \cup {callee}
        /\ stack' = Append(stack, callee) /\ pc' = "loop"
    BY <1>4, Pushed DEF EnterGroup, Resume, TypeOK
  <2>2. /\ stack' # <<>> /\ Len(stack') = Len(stack) + 1 /\ Len(stack) \in Nat
        /\ \A i \in 1 .. Len(stack) : stack'[i] = stack[i]
        /\ stack'[Len(stack) + 1] = callee
    BY <2>1, Pushed
  <2>3. \A i : i \in 1 .. Len(stack') <=> i \in 1 .. Len(stack) \/ i = Len(stack) + 1
    BY <2>2
  <2>4. \A i \in 1 .. Len(stack') : stack'[i] \in visited'
    BY <2>1, <2>2, <2>3 DEF StackInv
  <2>5. NoGroupTwiceOnStack'
    BY <2>1, <2>2, <2>3 DEF StackInv, NoGroupTwiceOnStack
  <2> QED
    BY <2>1, <2>2, <2>4, <2>5 DEF StackInv
<1>5. CASE ReadFails
  <2>1. UNCHANGED stack /\ pc' = "error" /\ visited \subseteq visited'
    BY <1>5 DEF ReadFails
  <2> QED
    BY <2>1 DEF StackInv, NoGroupTwiceOnStack
<1>6. CASE EndGroup
  <2>1. /\ stack # <<>> /\ stack' = Popped /\ visited' = visited
        /\ pc' = IF Popped = <<>> THEN "done" ELSE "loop"
    BY <1>6 DEF EndGroup, Resume, Popped, StackInv, results
  <2>2. /\ Len(stack') = Len(stack) - 1 /\ Len(stack) \in Nat
        /\ \A i \in 1 .. Len(stack') : i \in 1 .. Len(stack) /\ stack'[i] = stack[i]
    BY <2>1, PoppedIsRest
  <2> QED
    BY <2>1, <2>2 DEF StackInv, NoGroupTwiceOnStack
<1>7. ASSUME NEW d \in DN, MemberMissing(d) \/ MemberPrincipal(d) \/ MemberGroup(d) \/ MemberFails(d)
      PROVE  StackInv'
  <2>1. UNCHANGED <<stack, visited>> /\ (pc' = pc \/ pc' \in {"call", "error"})
    BY <1>7 DEF Take, MemberMissing, MemberPrincipal, MemberGroup, MemberFails
  <2> QED
    BY <1>1, <1>2, <2>1
<1>8. CASE UNCHANGED vars \/ \E d \in DN : Delete(d)
  BY <1>2, <1>8 DEF Delete, vars, results
<1> QED
  BY <1>3, <1>4, <1>5, <1>6, <1>7, <1>8 DEF Next, Expand

LEMMA ReachStep == IInv /\ [Next]_vars => ReachInv'
<1> SUFFICES ASSUME TypeOK, StackInv, ReachInv, [Next]_vars
             PROVE  ReachInv'
  BY DEF IInv
<1>1. UNCHANGED member
  BY DEF Next, Expand, SkipVisited, EnterGroup, ReadFails, EndGroup, MemberMissing, MemberPrincipal,
         MemberGroup, MemberFails, Take, Delete, vars, directory
<1>2. Reachable' = Reachable
  BY <1>1, ReachableIsStable
<1>3. CASE UNCHANGED <<callee, todo, visited, collected, unresolved>>
  BY <1>2, <1>3 DEF ReachInv, FoundIsReachable
<1>4. CASE EnterGroup
  <2>1. callee \in Reachable /\ callee \in DN /\ member[callee] \subseteq Reachable
    BY ReachableIsClosed DEF ReachInv, TypeOK
  <2>2. \A g \in DN : todo'[g] \subseteq Reachable
    BY <1>4, <2>1 DEF EnterGroup, ReachInv, TypeOK
  <2>3. visited' \cup collected' \cup unresolved' \subseteq Reachable
    BY <1>4, <2>1 DEF EnterGroup, ReachInv, FoundIsReachable
  <2>4. callee' \in Reachable
    BY <1>4, <2>1 DEF EnterGroup
  <2> QED
    BY <1>2, <2>2, <2>3, <2>4 DEF ReachInv, FoundIsReachable
<1>5. CASE ReadFails
  BY <1>2, <1>5 DEF ReadFails, ReachInv, FoundIsReachable
<1>6. ASSUME NEW d \in DN, MemberMissing(d) \/ MemberPrincipal(d) \/ MemberGroup(d) \/ MemberFails(d)
      PROVE  ReachInv'
  <2>1. Take(d)
    BY <1>6 DEF MemberMissing, MemberPrincipal, MemberGroup, MemberFails
  <2>2. d \in Reachable /\ \A g \in DN : todo'[g] \subseteq Reachable
    BY <2>1, TakeLeaves DEF ReachInv
  <2>3. visited' \cup collected' \cup unresolved' \subseteq visited \cup collected \cup unresolved \cup {d}
    BY <1>6 DEF MemberMissing, MemberPrincipal, MemberGroup, MemberFails, Take
  <2>4. callee' \in {callee, d}
    BY <1>6 DEF MemberMissing, MemberPrincipal, MemberGroup, MemberFails
  <2> QED
    BY <1>2, <2>2, <2>3, <2>4 DEF ReachInv, FoundIsReachable
<1>7. CASE SkipVisited \/ EndGroup \/ UNCHANGED vars \/ \E d \in DN : Delete(d)
  BY <1>3, <1>7 DEF SkipVisited, EndGroup, Delete, vars, results
<1> QED
  BY <1>4, <1>5, <1>6, <1>7 DEF Next, Expand

LEMMA PendingStep == IInv /\ [Next]_vars => PendingInv'
<1> SUFFICES ASSUME TypeOK, StackInv, PendingInv, [Next]_vars
             PROVE  PendingInv'
  BY DEF IInv
<1>1. UNCHANGED member /\ visited \subseteq DN
  BY DEF Next, Expand, SkipVisited, EnterGroup, ReadFails, EndGroup, MemberMissing, MemberPrincipal,
         MemberGroup, MemberFails, Take, Delete, vars, directory, TypeOK
<1>2. CASE UNCHANGED <<pc, callee, stack, todo, visited, collected, unresolved>>
  BY <1>1, <1>2 DEF PendingInv, Found, Entering
<1>3. CASE SkipVisited
  <2>1. /\ pc = "call" /\ pc' # "call" /\ callee \in visited
        /\ UNCHANGED <<stack, todo, visited, collected, unresolved>>
    BY <1>3 DEF SkipVisited, Resume
  <2> QED
    BY <1>1, <2>1 DEF PendingInv, Found, Entering
<1>4. CASE EnterGroup
  <2>1. /\ pc = "call" /\ pc' = "loop" /\ callee \in DN /\ stack' = Append(stack, callee)
        /\ visited' = visited \cup {callee} /\ UNCHANGED <<collected, unresolved>>
        /\ callee \notin visited
    BY <1>4, Pushed DEF EnterGroup, Resume, TypeOK
  <2>2. \A g \in DN : todo'[g] = IF g = callee THEN member[callee] ELSE todo[g]
    BY <1>4 DEF EnterGroup, TypeOK
  <2>3. /\ Len(stack') = Len(stack) + 1 /\ Len(stack) \in Nat /\ stack'[Len(stack) + 1] = callee
        /\ \A i \in 1 .. Len(stack) : stack'[i] = stack[i]
    BY <2>1, Pushed
  <2>4. ASSUME NEW g \in DN, todo'[g] # {}
        PROVE  \E i \in 1 .. Len(stack') : stack'[i] = g
    <3>1. CASE g = callee
      BY <2>3, <3>1
    <3>2. CASE g # callee
      <4>1. PICK i \in 1 .. Len(stack) : stack[i] = g
        BY <2>2, <2>4, <3>2 DEF PendingInv
      <4> QED
        BY <2>3, <4>1
    <3> QED
      BY <3>1, <3>2
  <2>5. Root \in visited' /\ \A g \in visited' : member'[g] \subseteq Found' \cup todo'[g]
    BY <1>1, <2>1, <2>2 DEF PendingInv, Found, Entering
  <2> QED
    BY <2>4, <2>5 DEF PendingInv, Entering
<1>5. CASE ReadFails
  BY <1>5 DEF ReadFails, PendingInv
<1>6. CASE EndGroup
  <2>1. /\ stack # <<>> /\ stack' = Popped /\ todo[Top] = {} /\ pc = "loop"
        /\ pc' \in {"done", "loop"}
        /\ UNCHANGED <<todo, visited, collected, unresolved>>
    BY <1>6 DEF EndGroup, Resume, Popped, StackInv, results
  <2>2. /\ Len(stack') = Len(stack) - 1 /\ Len(stack) \in Nat
        /\ \A i \in 1 .. Len(stack') : stack'[i] = stack[i]
    BY <2>1, PoppedIsRest
  <2>3. ASSUME NEW g \in DN, todo'[g] # {}
        PROVE  \E i \in 1 .. Len(stack') : stack'[i] = g
    <3>1. PICK i \in 1 .. Len(stack) : stack[i] = g
      BY <2>1, <2>3 DEF PendingInv
    <3>2. i # Len(stack)
      BY <2>1, <2>3, <3>1 DEF Top
    <3>3. i \in 1 .. Len(stack')
      BY <2>2, <3>2
    <3> QED
      BY <2>2, <3>1, <3>3
  <2> QED
    BY <1>1, <2>1, <2>3 DEF PendingInv, Found, Entering
<1>7. ASSUME NEW d \in DN, MemberMissing(d) \/ MemberPrincipal(d) \/ MemberGroup(d) \/ MemberFails(d)
      PROVE  PendingInv'
  <2>1. Take(d) /\ pc = "loop" /\ UNCHANGED <<stack, visited>>
    BY <1>7 DEF Take, MemberMissing, MemberPrincipal, MemberGroup, MemberFails
  <2>2. \A g \in DN : todo'[g] \subseteq todo[g] /\ todo[g] \subseteq todo'[g] \cup {d}
    BY <2>1, TakeLeaves
  <2>3. pc' # "error" => Found \cup {d} \subseteq Found' \cup Entering'
    BY <1>7, <2>1 DEF MemberMissing, MemberPrincipal, MemberGroup, MemberFails, Found, Entering
  <2>4. pc # "error" /\ Entering = {}
    BY <2>1 DEF Entering
  <2>5. \A g \in DN : todo'[g] # {} => \E i \in 1 .. Len(stack') : stack'[i] = g
    BY <2>1, <2>2 DEF PendingInv
  <2>6. pc' # "error" => /\ Root \in visited' \cup Entering'
                         /\ \A g \in visited' : member'[g] \subseteq Found' \cup Entering' \cup todo'[g]
    BY <1>1, <2>1, <2>2, <2>3, <2>4 DEF PendingInv
  <2> QED
    BY <2>5, <2>6 DEF PendingInv
<1>8. CASE UNCHANGED vars \/ \E d \in DN : Delete(d)
  BY <1>2, <1>8 DEF Delete, vars, results
<1> QED
  BY <1>3, <1>4, <1>5, <1>6, <1>7, <1>8 DEF Next, Expand

LEMMA KindStep == IInv /\ [Next]_vars => KindInv'
<1> SUFFICES ASSUME TypeOK, KindInv, [Next]_vars, deletes' = 0
             PROVE  KindInv'
  BY DEF IInv, KindInv
<1>1. ASSUME NEW d \in DN, Delete(d)
      PROVE  FALSE
  BY <1>1, MembershipAssumption DEF Delete, TypeOK
<1>2. deletes = 0 /\ UNCHANGED <<kind, member>>
  BY <1>1 DEF Next, Expand, SkipVisited, EnterGroup, ReadFails, EndGroup, MemberMissing,
     MemberPrincipal, MemberGroup, MemberFails, Take, vars, directory
<1>3. /\ \A d \in DN : kind[d] # "group" => member[d] = {}
      /\ pc = "call" => kind[callee] = "group"
      /\ \A d \in collected : kind[d] = "principal"
      /\ \A d \in unresolved : kind[d] = "missing"
      /\ pc # "error" => \A d \in visited : kind[d] = "group"
      /\ BrokenMemberCostsOneMember
  BY <1>2 DEF KindInv
<1>4. CASE SkipVisited \/ EnterGroup \/ EndGroup
  <2>1. /\ pc # "error" /\ pc' \in {"loop", "done"} /\ UNCHANGED <<collected, unresolved>>
        /\ visited' \subseteq visited \cup IF pc = "call" THEN {callee} ELSE {}
    BY <1>4 DEF SkipVisited, EnterGroup, EndGroup, Resume, results
  <2> QED
    BY <1>2, <1>3, <2>1 DEF KindInv, BrokenMemberCostsOneMember
<1>5. CASE ReadFails
  BY <1>3, <1>5 DEF ReadFails
<1>6. ASSUME NEW d \in DN, MemberMissing(d) \/ MemberPrincipal(d) \/ MemberGroup(d) \/ MemberFails(d)
      PROVE  KindInv'
  <2>1. /\ pc # "error" /\ UNCHANGED visited
        /\ collected' \subseteq collected \cup IF kind[d] = "principal" THEN {d} ELSE {}
        /\ unresolved' \subseteq unresolved \cup IF kind[d] = "missing" THEN {d} ELSE {}
        /\ pc' = "call" => kind[callee'] = "group"
        /\ pc' = "error" => kind[d] = "fails"
    BY <1>6 DEF MemberMissing, MemberPrincipal, MemberGroup, MemberFails, Take
  <2>2. BrokenMemberCostsOneMember'
    BY <1>2, <2>1 DEF BrokenMemberCostsOneMember, OfKind
  <2> QED
    BY <1>2, <1>3, <2>1, <2>2 DEF KindInv
<1>7. CASE UNCHANGED vars
  BY <1>3, <1>7 DEF KindInv, BrokenMemberCostsOneMember, OfKind, vars, directory, results
<1> QED
  BY <1>1, <1>4, <1>5, <1>6, <1>7 DEF Next, Expand
-----------------------------------------------------------------------------
(* The theorems. *)

LEMMA Invariance == Spec => []IInv
<1>1. IInv /\ [Next]_vars => IInv'
  BY TypeStep, StackStep, ReachStep, PendingStep, KindStep DEF IInv
<1> QED
  BY InitInv, <1>1, PTL DEF Spec

\* Every variable has its type.
THEOREM TypeCorrect == Spec => []TypeOK
<1>1. IInv => TypeOK
  BY DEF IInv
<1> QED
  BY <1>1, Invariance, PTL

\* Whatever the directory and whatever is deleted meanwhile, an expansion finds only names
\* that are reachable from its group.
THEOREM NothingIsInvented == Spec => []FoundIsReachable
<1>1. IInv => FoundIsReachable
  BY DEF IInv, ReachInv
<1> QED
  BY <1>1, Invariance, PTL

\* No group is entered while it is being expanded, so the recursion is no deeper than there
\* are groups.
THEOREM RecursionIsBounded == Spec => []NoGroupTwiceOnStack
<1>1. IInv => NoGroupTwiceOnStack
  BY DEF IInv, StackInv
<1> QED
  BY <1>1, Invariance, PTL

LEMMA AllAreAccountedFor == IInv => MembersAccountedFor
<1> SUFFICES ASSUME IInv, pc = "done"
             PROVE  \A g \in visited : member[g] \subseteq visited \cup collected \cup unresolved
  BY DEF MembersAccountedFor
<1>1. Len(stack) = 0
  BY EmptySeq DEF IInv, StackInv
<1>2. \A g \in DN : todo[g] = {}
  BY <1>1 DEF IInv, PendingInv
<1>3. visited \subseteq DN /\ Entering = {}
  BY DEF IInv, TypeOK, Entering
<1> QED
  BY <1>2, <1>3 DEF IInv, PendingInv, Found

\* In a directory that changes, too, no member of a group that was read is dropped.
THEOREM NobodyIsDropped == Spec => []MembersAccountedFor
  BY AllAreAccountedFor, Invariance, PTL

\* In a directory that does not change, the expansion finds exactly what is reachable, each
\* name in the set that its kind calls for.
THEOREM ExpansionIsExact == Spec => []ExpansionIsComplete
<1>1. IInv => ExpansionIsComplete
  <2> SUFFICES ASSUME IInv, pc = "done", deletes = 0
               PROVE  /\ Reachable \cap OfKind("group") = visited
                      /\ Reachable \cap OfKind("principal") = collected
                      /\ Reachable \cap OfKind("missing") = unresolved
                      /\ Reachable \cap OfKind("fails") = {}
    BY DEF ExpansionIsComplete
  <2>1. /\ \A d \in collected : kind[d] = "principal"
        /\ \A d \in unresolved : kind[d] = "missing"
        /\ \A d \in visited : kind[d] = "group"
        /\ \A d \in DN : kind[d] # "group" => member[d] = {}
    BY DEF IInv, KindInv
  <2>2. Root \in Found /\ Found \subseteq DN /\ \A g \in visited : member[g] \subseteq Found
    BY AllAreAccountedFor DEF IInv, PendingInv, MembersAccountedFor, Found, Entering, TypeOK
  <2>3. Closed(Found)
    BY <2>1, <2>2 DEF Closed, Found
  <2>4. Reachable = Found
    BY <2>2, <2>3, ReachableIsLeast DEF IInv, ReachInv, FoundIsReachable, Found
  <2> QED
    BY <2>1, <2>2, <2>4 DEF Found, OfKind
<1> QED
  BY <1>1, Invariance, PTL

\* As long as nothing is deleted, an expansion is only given up when a lookup fails for
\* another reason than a missing object: a broken member costs itself.
THEOREM BrokenMembersAreContained == Spec => []BrokenMemberAloneCostsOne
<1>1. IInv => BrokenMemberAloneCostsOne
  BY DEF IInv, KindInv, BrokenMemberAloneCostsOne
<1> QED
  BY <1>1, Invariance, PTL
-----------------------------------------------------------------------------
(* Counting the nestings.  As long as nothing is deleted, every nesting the descent has    *)
(* taken up was the way into a group or is a skip, except the one being followed.          *)

\* What a foreach has still to visit are members of its group.
TodoInv == \A g \in DN : todo[g] \subseteq member[g]

\* The nestings whose turn has come.
Followed == {e \in visited \X DN : e[2] \in member[e[1]] \ todo[e[1]] /\ kind[e[2]] = "group"}

\* How many groups have been entered through a nesting: all but the root.
EnteredThrough == Cardinality(visited) - (IF pc = "call" THEN 0 ELSE 1)

CountInv == deletes = 0 /\ pc # "error" => Cardinality(Followed) = cycles + EnteredThrough

CInv == IInv /\ TodoInv /\ CountInv

LEMMA TodoStep == IInv /\ TodoInv /\ [Next]_vars => TodoInv'
<1> SUFFICES ASSUME TypeOK, StackInv, TodoInv, [Next]_vars
             PROVE  TodoInv'
  BY DEF IInv
<1>1. UNCHANGED member
  BY DEF Next, Expand, SkipVisited, EnterGroup, ReadFails, EndGroup, MemberMissing, MemberPrincipal,
         MemberGroup, MemberFails, Take, Delete, vars, directory
<1>2. CASE UNCHANGED todo
  BY <1>1, <1>2 DEF TodoInv
<1>3. CASE EnterGroup
  BY <1>1, <1>3 DEF EnterGroup, TodoInv, TypeOK
<1>4. ASSUME NEW d \in DN, Take(d)
      PROVE  TodoInv'
  BY <1>1, <1>4, TakeLeaves DEF TodoInv
<1> QED
  BY <1>2, <1>3, <1>4 DEF Next, Expand, SkipVisited, ReadFails, EndGroup, MemberMissing, MemberPrincipal,
     MemberGroup, MemberFails, Delete, vars, results

\* There are finitely many of each.
LEMMA CountsAreNumbers ==
    ASSUME TypeOK
    PROVE  /\ IsFiniteSet(visited) /\ IsFiniteSet(Followed)
           /\ Cardinality(visited) \in Nat /\ Cardinality(Followed) \in Nat
<1>1. IsFiniteSet(DN) /\ visited \subseteq DN
  BY MembershipAssumption DEF TypeOK
<1>2. IsFiniteSet(visited)
  BY <1>1, FS_Subset
<1>3. IsFiniteSet(visited \X DN)
  BY <1>1, <1>2, FS_Product
<1>4. IsFiniteSet(Followed)
  BY <1>3, FS_Subset DEF Followed
<1> QED
  BY <1>2, <1>4, FS_CardinalityType

\* A nesting that the descent takes up adds one to them, whatever else it was; other members
\* add nothing.
LEMMA TakeFollows ==
    ASSUME TypeOK, StackInv, TodoInv, NEW d \in DN, Take(d)
    PROVE  /\ kind[d] = "group" => /\ <<Top, d>> \notin Followed
                                   /\ Followed' = Followed \cup {<<Top, d>>}
           /\ kind[d] # "group" => Followed' = Followed
<1>1. /\ UNCHANGED <<kind, member, visited>> /\ Top \in DN /\ d \in todo[Top] /\ d \in member[Top]
      /\ \A g \in DN : todo[g] = todo'[g] \cup IF g = Top THEN {d} ELSE {}
      /\ todo' = [todo EXCEPT ![Top] = todo[Top] \ {d}]
  BY TakeLeaves DEF Take, directory, TodoInv
<1>2. Top \in visited
  BY LenProperties, EmptySeq DEF TypeOK, StackInv, Take, Top
<1>3. \A g \in DN : todo'[g] = IF g = Top THEN todo[Top] \ {d} ELSE todo[g]
  BY <1>1 DEF TypeOK
<1>4. visited \subseteq DN
  BY DEF TypeOK
<1>5. ASSUME NEW e \in visited \X DN
      PROVE  e[1] \in DN /\ (e[2] \in member[e[1]] \ todo'[e[1]]
                               <=> e[2] \in member[e[1]] \ todo[e[1]] \/ (e[1] = Top /\ e[2] = d))
  BY <1>1, <1>3, <1>4, <1>5
<1>6. <<Top, d>> \in visited \X DN /\ <<Top, d>>[1] = Top /\ <<Top, d>>[2] = d
  BY <1>2
<1>7. \A e \in visited \X DN : e = <<Top, d>> <=> e[1] = Top /\ e[2] = d
  BY <1>2
<1>8. CASE kind[d] = "group"
  <2>1. <<Top, d>> \notin Followed
    BY <1>1, <1>6 DEF Followed
  <2>2. Followed' = Followed \cup {<<Top, d>>}
    BY <1>1, <1>5, <1>6, <1>7, <1>8 DEF Followed
  <2> QED
    BY <1>8, <2>1, <2>2
<1>9. CASE kind[d] # "group"
  <2>1. Followed' = Followed
    BY <1>1, <1>5, <1>9 DEF Followed
  <2> QED
    BY <1>9, <2>1
<1> QED
  BY <1>8, <1>9

LEMMA CountStep == CInv /\ [Next]_vars => CountInv'
<1> SUFFICES ASSUME TypeOK, StackInv, TodoInv, KindInv, CountInv, [Next]_vars, deletes' = 0, pc' # "error"
             PROVE  Cardinality(Followed)' = cycles' + EnteredThrough'
  BY DEF CInv, IInv, CountInv
<1>1. ASSUME NEW d \in DN, Delete(d)
      PROVE  FALSE
  BY <1>1, MembershipAssumption DEF Delete, TypeOK
<1>2. deletes = 0 /\ UNCHANGED <<kind, member>>
  BY <1>1 DEF Next, Expand, SkipVisited, EnterGroup, ReadFails, EndGroup, MemberMissing,
     MemberPrincipal, MemberGroup, MemberFails, Take, vars, directory
<1>3. /\ pc # "error" => Cardinality(Followed) = cycles + EnteredThrough
      /\ Cardinality(visited) \in Nat /\ Cardinality(Followed) \in Nat /\ cycles \in Nat
      /\ IsFiniteSet(visited) /\ IsFiniteSet(Followed)
  BY <1>2, CountsAreNumbers DEF CountInv, TypeOK
<1>4. CASE SkipVisited
  <2>1. /\ pc = "call" /\ pc' # "call" /\ cycles' = cycles + 1 /\ UNCHANGED <<todo, visited>>
    BY <1>4 DEF SkipVisited, Resume
  <2>2. Followed' = Followed
    BY <1>2, <2>1 DEF Followed
  <2> QED
    BY <1>3, <2>1, <2>2 DEF EnteredThrough
<1>5. CASE EnterGroup
  <2>1. /\ pc = "call" /\ pc' = "loop" /\ callee \notin visited /\ callee \in DN
        /\ visited' = visited \cup {callee} /\ UNCHANGED cycles
        /\ todo' = [todo EXCEPT ![callee] = member[callee]]
    BY <1>5, Pushed DEF EnterGroup, Resume, TypeOK
  <2>2. Cardinality(visited') = Cardinality(visited) + 1
    BY <1>3, <2>1, FS_AddElement
  <2>3. \A g \in DN : todo'[g] = IF g = callee THEN member[callee] ELSE todo[g]
    BY <2>1 DEF TypeOK
  <2>4. ASSUME NEW e
        PROVE  e \in Followed' <=> e \in Followed
    <3>1. visited \subseteq DN
      BY DEF TypeOK
    <3>2. e \in visited' \X DN => e[1] \in visited' /\ e[1] \in DN /\ e[2] \in DN
      BY <2>1, <3>1
    <3>3. e \in visited \X DN <=> e \in visited' \X DN /\ e[1] # callee
      BY <2>1
    <3>4. e \in Followed' => e[1] # callee
      BY <1>2, <2>1, <2>3 DEF Followed
    <3> QED
      BY <1>2, <2>3, <3>2, <3>3, <3>4 DEF Followed
  <2>5. Followed' = Followed
    BY <2>4
  <2> QED
    BY <1>3, <2>1, <2>2, <2>5 DEF EnteredThrough
<1>6. CASE ReadFails
  BY <1>6 DEF ReadFails
<1>7. CASE EndGroup \/ UNCHANGED vars
  <2>1. /\ UNCHANGED <<todo, visited, cycles>> /\ pc # "error"
        /\ (pc = "call") = (pc' = "call")
    BY <1>7 DEF EndGroup, Resume, results, vars
  <2>2. Followed' = Followed
    BY <1>2, <2>1 DEF Followed
  <2> QED
    BY <1>3, <2>1, <2>2 DEF EnteredThrough
<1>8. ASSUME NEW d \in DN, MemberMissing(d) \/ MemberPrincipal(d)
      PROVE  Cardinality(Followed)' = cycles' + EnteredThrough'
  <2>1. Take(d) /\ kind[d] # "group" /\ pc = "loop" /\ pc' = "loop" /\ UNCHANGED <<visited, cycles>>
    BY <1>8 DEF MemberMissing, MemberPrincipal, Take
  <2>2. Followed' = Followed
    BY <2>1, TakeFollows
  <2> QED
    BY <1>3, <2>1, <2>2 DEF EnteredThrough
<1>9. ASSUME NEW d \in DN, MemberGroup(d)
      PROVE  Cardinality(Followed)' = cycles' + EnteredThrough'
  <2>1. Take(d) /\ kind[d] = "group" /\ pc = "loop" /\ pc' = "call" /\ UNCHANGED <<visited, cycles>>
    BY <1>9 DEF MemberGroup, Take
  <2>2. Cardinality(Followed') = Cardinality(Followed) + 1
    BY <1>3, <2>1, TakeFollows, FS_AddElement
  <2> QED
    BY <1>3, <2>1, <2>2 DEF EnteredThrough
<1> QED
  BY <1>1, <1>4, <1>5, <1>6, <1>7, <1>8, <1>9 DEF Next, Expand, MemberFails

\* The cycle counter of a finished expansion is exact: each nesting of a visited group in a
\* visited group was the way in or has been counted as a skip.
THEOREM CyclesAreExact == Spec => []CyclesCounted
<1>1. Init => CInv
  <2> SUFFICES ASSUME Init
               PROVE  TodoInv /\ CountInv
    BY InitInv DEF CInv
  <2>1. TodoInv
    BY DEF Init, TodoInv
  <2>2. Followed = {} /\ visited = {} /\ cycles = 0 /\ pc = "call"
    BY DEF Init, Followed
  <2> QED
    BY <2>1, <2>2, FS_EmptySet DEF CountInv, EnteredThrough
<1>2. CInv /\ [Next]_vars => CInv'
  BY TypeStep, StackStep, ReachStep, PendingStep, KindStep, TodoStep, CountStep DEF CInv, IInv
<1>3. CInv => CyclesCounted
  <2> SUFFICES ASSUME CInv, pc = "done", deletes = 0
               PROVE  Cardinality({e \in visited \X visited : e[2] \in member[e[1]]})
                        = cycles + Cardinality(visited) - 1
    BY DEF CyclesCounted
  <2>1. /\ \A g \in visited : member[g] \subseteq visited \cup collected \cup unresolved
        /\ visited \subseteq DN /\ IInv
    BY AllAreAccountedFor DEF CInv, IInv, TypeOK, MembersAccountedFor
  <2>2. /\ \A d \in collected : kind[d] = "principal"
        /\ \A d \in unresolved : kind[d] = "missing"
        /\ \A d \in visited : kind[d] = "group"
    BY <2>1 DEF IInv, KindInv
  <2>3. \A g \in DN : todo[g] = {}
    <3>1. Len(stack) = 0
      BY <2>1, EmptySeq DEF IInv, StackInv
    <3> QED
      BY <2>1, <3>1 DEF IInv, PendingInv
  <2>4. Followed = {e \in visited \X visited : e[2] \in member[e[1]]}
    BY <2>1, <2>2, <2>3 DEF Followed
  <2>5. Cardinality(Followed) = cycles + (Cardinality(visited) - 1)
    BY <2>1 DEF CInv, CountInv, EnteredThrough
  <2>6. cycles \in Nat /\ Cardinality(visited) \in Nat
    BY <2>1, CountsAreNumbers DEF IInv, TypeOK
  <2> QED
    BY <2>4, <2>5, <2>6
<1> QED
  BY <1>1, <1>2, <1>3, PTL DEF Spec
=============================================================================
