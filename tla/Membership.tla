------------------------------ MODULE Membership ------------------------------
(***************************************************************************)
(* The recursive expansion of a privileged group's membership              *)
(* (collector/modules/Membership.psm1, and its copy in live.py that is     *)
(* sent to the domain controller).  Expand-ADGroupMembership descends into *)
(* nested groups depth first; Visited, Collected and Unresolved are shared *)
(* by the whole descent.  Each lookup is a request to the directory, which *)
(* may answer, say that the object does not exist, or fail (connection     *)
(* lost, access denied); the directory may change in between.              *)
(***************************************************************************)
EXTENDS Integers, Sequences, FiniteSets

CONSTANTS DN,          \* distinguished names
          Root,        \* the privileged group
          MaxMembers,  \* bound: how many members a group has
          MaxDeletes   \* bound: how many objects are deleted during the expansion

ASSUME MembershipAssumption ==
    Root \in DN /\ IsFiniteSet(DN) /\ MaxMembers \in Nat /\ MaxDeletes \in Nat

VARIABLES kind,        \* the directory: what an object is, or how a lookup of it ends
          member,      \* the directory: the member attribute of each group
          deletes,     \* how many objects have been deleted
          pc,          \* call: a group is being entered; loop: in its foreach
          callee,      \* the group being entered
          stack,       \* the groups being expanded, innermost last
          todo,        \* the members the foreach of each group has still to visit
          visited, collected, unresolved, cycles

directory == <<kind, member, deletes>>
results == <<visited, collected, unresolved, cycles>>
vars == <<directory, pc, callee, stack, todo, results>>

Kind == {"group", "principal", "missing", "fails"}

TypeOK == /\ kind \in [DN -> Kind]
          /\ member \in [DN -> SUBSET DN]
          /\ deletes \in 0 .. MaxDeletes
          /\ pc \in {"call", "loop", "done", "error"}
          /\ callee \in DN
          /\ stack \in Seq(DN)
          /\ todo \in [DN -> SUBSET DN]
          /\ visited \subseteq DN
          /\ collected \subseteq DN
          /\ unresolved \subseteq DN
          /\ cycles \in Nat

\* Get-GroupMembersRecursive starts the descent in a group that has just been found.
Init == /\ kind \in {k \in [DN -> Kind] : k[Root] = "group"}
        /\ member \in {m \in [DN -> SUBSET DN] :
                          \A d \in DN : /\ Cardinality(m[d]) <= MaxMembers
                                        /\ kind[d] # "group" => m[d] = {}}
        /\ deletes = 0
        /\ pc = "call" /\ callee = Root
        /\ stack = <<>> /\ todo = [d \in DN |-> {}]
        /\ visited = {} /\ collected = {} /\ unresolved = {} /\ cycles = 0
-----------------------------------------------------------------------------
Top == stack[Len(stack)]

\* Back in the caller's foreach, or in Get-GroupMembersRecursive.
Resume(s) == /\ stack' = s
             /\ pc' = IF s = <<>> THEN "done" ELSE "loop"

\* A definition whose comment begins with "Slip" is a plausible mistake in the one that
\* follows it, kept to see a property fail; the specification does not use it.

\* Slip: the counter runs the wrong way.
SkipCountsDown == /\ pc = "call" /\ callee \in visited
                  /\ cycles' = cycles - 1
                  /\ Resume(stack)
                  /\ UNCHANGED <<directory, callee, todo, visited, collected, unresolved>>

\* The cycle guard: the group has been entered before.
SkipVisited == /\ pc = "call" /\ callee \in visited
               /\ cycles' = cycles + 1
               /\ Resume(stack)
               /\ UNCHANGED <<directory, callee, todo, visited, collected, unresolved>>

\* Get-RawGroupMemberDNs succeeds, and the foreach begins.
EnterGroup == /\ pc = "call" /\ callee \notin visited /\ kind[callee] = "group"
              /\ visited' = visited \cup {callee}
              /\ todo' = [todo EXCEPT ![callee] = member[callee]]
              /\ Resume(Append(stack, callee))
              /\ UNCHANGED <<directory, callee, collected, unresolved, cycles>>

\* Slip: a group that cannot be read is taken for one without members.
ReadFailsQuietly == /\ pc = "call" /\ callee \notin visited /\ kind[callee] # "group"
                    /\ visited' = visited \cup {callee}
                    /\ Resume(stack)
                    /\ UNCHANGED <<directory, callee, todo, collected, unresolved, cycles>>

\* Get-RawGroupMemberDNs throws, for whatever reason: nothing in the descent catches it.
ReadFails == /\ pc = "call" /\ callee \notin visited /\ kind[callee] # "group"
             /\ visited' = visited \cup {callee}
             /\ pc' = "error"
             /\ UNCHANGED <<directory, callee, stack, todo, collected, unresolved, cycles>>

\* The next member of the foreach; Resolve-ADMemberByDN has one of four answers.
Take(d) == /\ pc = "loop" /\ d \in todo[Top]
              /\ todo' = [todo EXCEPT ![Top] = @ \ {d}]
              /\ UNCHANGED <<directory, stack, visited, cycles>>

\* Slip: the lookup is repeated until it succeeds.
RetryMissing(d) == /\ pc = "loop" /\ d \in todo[Top] /\ kind[d] = "missing"
                   /\ unresolved' = unresolved \cup {d}
                   /\ UNCHANGED <<directory, stack, todo, visited, cycles, pc, callee, collected>>

\* Slip: the lookup throws, as one broken member made Get-ADGroupMember throw.
ThrowOnMissing(d) == /\ Take(d) /\ kind[d] = "missing"
                     /\ pc' = "error"
                     /\ UNCHANGED <<callee, collected, unresolved>>

MemberMissing(d) == /\ Take(d) /\ kind[d] = "missing"
                    /\ unresolved' = unresolved \cup {d}
                    /\ UNCHANGED <<pc, callee, collected>>

MemberPrincipal(d) == /\ Take(d) /\ kind[d] = "principal"
                      /\ collected' = collected \cup {d}
                      /\ UNCHANGED <<pc, callee, unresolved>>

\* Slip: nested groups are listed and not entered.
NotRecursive(d) == /\ Take(d) /\ kind[d] = "group"
                   /\ collected' = collected \cup {d}
                   /\ UNCHANGED <<pc, callee, unresolved>>

MemberGroup(d) == /\ Take(d) /\ kind[d] = "group"
                  /\ pc' = "call" /\ callee' = d
                  /\ UNCHANGED <<collected, unresolved>>

MemberFails(d) == /\ Take(d) /\ kind[d] = "fails"
                  /\ pc' = "error"
                  /\ UNCHANGED <<callee, collected, unresolved>>

EndGroup == /\ pc = "loop" /\ todo[Top] = {}
            /\ Resume(SubSeq(stack, 1, Len(stack) - 1))
            /\ UNCHANGED <<directory, callee, todo, results>>

\* Somebody deletes an object.  (Group DNs already read keep pointing to it.)
Delete(d) == /\ deletes < MaxDeletes /\ d # Root
             /\ kind[d] \in {"group", "principal"}
             /\ kind' = [kind EXCEPT ![d] = "missing"]
             /\ deletes' = deletes + 1
             /\ UNCHANGED <<member, pc, callee, stack, todo, results>>

Expand == \/ SkipVisited \/ EnterGroup \/ ReadFails \/ EndGroup
          \/ \E d \in DN : MemberMissing(d) \/ MemberPrincipal(d) \/ MemberGroup(d) \/ MemberFails(d)

Next == Expand \/ \E d \in DN : Delete(d)

Spec == Init /\ [][Next]_vars

FairSpec == Spec /\ WF_vars(Expand)
-----------------------------------------------------------------------------
(* Properties. *)

OfKind(k) == {d \in DN : kind[d] = k}

\* A set of names that holds the root and, with a group, the group's members.
Closed(C) == Root \in C /\ \A g \in C : member[g] \subseteq C

\* The names reachable from the root: those in every closed set.
Reachable == {d \in DN : \A C \in SUBSET DN : Closed(C) => d \in C}

\* Nothing is invented: whatever has been found so far is reachable from the root.  (What
\* was deleted keeps its members here: a group may have been read before.)
FoundIsReachable == visited \cup collected \cup unresolved \subseteq Reachable

\* Nothing is dropped, in nested groups, shared groups and cycles alike: if nothing was
\* deleted meanwhile, an expansion that ends has visited every reachable group, collected
\* every reachable principal and recorded every name that did not resolve.
ExpansionIsComplete ==
    pc = "done" /\ deletes = 0 =>
        /\ Reachable \cap OfKind("group") = visited
        /\ Reachable \cap OfKind("principal") = collected
        /\ Reachable \cap OfKind("missing") = unresolved
        /\ Reachable \cap OfKind("fails") = {}

\* No group is being expanded twice at a time: the depth of the recursion is bounded by the
\* number of groups, in cyclic nestings too.
NoGroupTwiceOnStack == \A i, j \in 1 .. Len(stack) : i # j => stack[i] # stack[j]

\* Cycles = nested groups skipped because already visited: if nothing was deleted meanwhile,
\* each nesting of a visited group in a visited group was either the way in or a skip.
CyclesCounted ==
    pc = "done" /\ deletes = 0 =>
        LET nestings == {e \in visited \X visited : e[2] \in member[e[1]]}
        IN  Cardinality(nestings) = cycles + Cardinality(visited) - 1

\* Also while objects are being deleted, the group that is about to be read among them: of every
\* group that an expansion which ends has entered, each member is in the result, as it was found
\* when its turn came; an expansion that loses a group ends with its error (Get-RawGroupMemberDNs).
MembersAccountedFor ==
    pc = "done" => \A g \in visited : member[g] \subseteq visited \cup collected \cup unresolved

\* Membership.psm1: "one broken member costs one member -- not the whole group".  Unless a
\* lookup fails for a reason other than a missing object, the expansion is not given up.
BrokenMemberCostsOneMember == OfKind("fails") = {} => pc # "error"

\* The same, as long as nothing is deleted.
BrokenMemberAloneCostsOne == deletes = 0 => BrokenMemberCostsOneMember

\* The expansion ends, whatever the nesting.
ExpansionEnds == <>(pc \in {"done", "error"})
=============================================================================
