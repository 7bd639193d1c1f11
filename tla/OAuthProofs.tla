------------------------------ MODULE OAuthProofs ------------------------------
(***************************************************************************)
(* What OAuth guarantees for any number of codes, secrets and restarts,    *)
(* any cap and any time to live.  A credential that can still be presented *)
(* has been issued and not been used; what has been used, trimmed or lost  *)
(* never comes back, for a new credential has a new name.                  *)
(***************************************************************************)
EXTENDS OAuth, FiniteSetTheorems, WellFoundedInduction, TLAPS

CodeInv == /\ \A c \in pending : c <= codes /\ codeUses[c] = 0
           /\ \A c \in Code : c > codes => codeUses[c] = 0
           /\ \A c \in Code : codeUses[c] <= 1

SecretInv == /\ \A n \in Nonce : stored[n] # 0 => stored[n] = expiry[n] /\ secretUses[n] = 0
             /\ \A n \in Nonce : n > nonces => stored[n] = 0 /\ secretUses[n] = 0
             /\ \A n \in Nonce : secretUses[n] <= 1
             /\ LiveSecretIsKept

IInv == TypeOK /\ CodeInv /\ SecretInv /\ PendingIsBounded
-----------------------------------------------------------------------------
(* The oldest of a set of codes. *)

LEMMA Bounds == /\ MaxCodes \in Nat /\ MaxNonces \in Nat /\ MaxTime \in Nat /\ MaxRestarts \in Nat
                /\ Cap \in Nat /\ Evict \in Nat /\ TTL \in Nat /\ 0 < Evict /\ Evict < Cap
  BY OAuthAssumption

LEMMA CodesAreFinite == \A S \in SUBSET Code : IsFiniteSet(S) /\ Cardinality(S) \in Nat
<1>1. IsFiniteSet(Code)
  BY Bounds, FS_Interval DEF Code
<1> QED
  BY <1>1, FS_Subset, FS_CardinalityType

\* Some element of a finite set of numbers is the lowest.
LEMMA LowestExists ==
    ASSUME NEW S \in SUBSET Nat, IsFiniteSet(S), S # {}
    PROVE  \E c \in S : \A d \in S : c <= d
<1> DEFINE Below(c) == {d \in S : d <= c}
           T == {Below(c) : c \in S}
<1>1. IsWellFoundedOn(StrictSubsetOrdering(S), FiniteSubsetsOf(S))
  BY FS_StrictSubsetOrderingWellFounded
<1>2. T \subseteq FiniteSubsetsOf(S) /\ T # {}
  <2>1. \A c \in S : Below(c) \in SUBSET S
    OBVIOUS
  <2>2. \A U \in SUBSET S : IsFiniteSet(U)
    BY FS_Subset
  <2> QED
    BY <2>1, <2>2 DEF FiniteSubsetsOf
<1>3. PICK U \in T : \A V \in T : ~(<<V, U>> \in StrictSubsetOrdering(S))
  BY <1>1, <1>2, WFMin
<1>4. PICK c \in S : U = Below(c)
  BY <1>3
<1>5. ASSUME NEW d \in S, d < c
      PROVE  FALSE
  <2>1. Below(d) \subseteq Below(c) /\ c \in Below(c) /\ c \notin Below(d)
    <3>1. c \in Nat /\ d \in Nat /\ c <= c /\ ~(c <= d)
      BY <1>5
    <3>2. \A e \in S : e <= d => e <= c
      BY <1>5, <3>1
    <3> QED
      BY <3>1, <3>2
  <2>2. <<Below(d), Below(c)>> \in StrictSubsetOrdering(S)
    BY <2>1 DEF StrictSubsetOrdering
  <2> QED
    BY <1>3, <1>4, <2>2
<1> QED
  BY <1>5

\* Trimming takes at least one code from a full store.
LEMMA TrimMakesRoom ==
    ASSUME NEW S \in SUBSET Code, Cardinality(S) <= Cap
    PROVE  Trim(S) \subseteq S /\ Cardinality(Trim(S)) < Cap
<1>1. IsFiniteSet(S) /\ Cardinality(S) \in Nat
  BY CodesAreFinite
<1>2. CASE Cardinality(S) >= Cap
  <2>1. S # {} /\ S \in SUBSET Nat
    BY <1>2, Bounds, FS_EmptySet DEF Code
  <2>2. PICK c \in S : \A d \in S : c <= d
    BY <1>1, <2>1, LowestExists
  <2>3. {d \in S : d <= c} = {c}
    <3>1. c <= c /\ \A d \in S : d <= c => d = c
      BY <2>1, <2>2
    <3> QED
      BY <3>1
  <2>4. c \in Oldest(S)
    BY <2>3, Bounds, FS_Singleton DEF Oldest
  <2>5. S \ Oldest(S) \in SUBSET (S \ {c})
    BY <2>4
  <2>6. IsFiniteSet(S \ {c}) /\ Cardinality(S \ {c}) = Cardinality(S) - 1
    BY <1>1, FS_RemoveElement
  <2>7. Cardinality(S \ Oldest(S)) <= Cardinality(S) - 1 /\ Cardinality(S \ Oldest(S)) \in Nat
    BY <2>5, <2>6, FS_Subset, FS_CardinalityType
  <2> QED
    BY <1>1, <1>2, <2>7, Bounds DEF Trim
<1>3. CASE ~(Cardinality(S) >= Cap)
  BY <1>1, <1>3, Bounds DEF Trim
<1> QED
  BY <1>2, <1>3

\* What trimming takes from a full store is older than all but Evict of its codes.
LEMMA TrimTakesOldest ==
    ASSUME NEW S \in SUBSET Code, NEW m \in Nat, \A d \in S : d <= m,
           NEW c \in S, c \notin Trim(S)
    PROVE  m - c >= Cap - Evict
<1>1. IsFiniteSet(S) /\ Cardinality(S) \in Nat /\ Cardinality(S) >= Cap /\ c \in Oldest(S)
  BY CodesAreFinite DEF Trim
<1> DEFINE Old == {d \in S : d <= c}
           New == {d \in S : d > c}
<1>2. Old \in SUBSET Code /\ New \in SUBSET Code /\ Old \cup New = S /\ Old \cap New = {}
  <2>1. \A d \in S : d > c <=> ~(d <= c)
    BY DEF Code
  <2> QED
    BY <2>1
<1>3. /\ IsFiniteSet(Old) /\ IsFiniteSet(New) /\ Cardinality(Old) \in Nat /\ Cardinality(New) \in Nat
  BY <1>2, CodesAreFinite
<1>4. Cardinality(S) = Cardinality(Old) + Cardinality(New)
  <2>1. Cardinality(Old \cup New) = Cardinality(Old) + Cardinality(New) - Cardinality(Old \cap New)
    BY <1>3, FS_Union
  <2> HIDE DEF Old, New
  <2>2. Cardinality(Old \cap New) = 0 /\ Cardinality(Old \cup New) = Cardinality(S)
    BY <1>2, FS_EmptySet
  <2> QED
    BY <1>3, <2>1, <2>2
<1>5. Cardinality(Old) <= Evict
  BY <1>1 DEF Oldest
<1>6. Cardinality(New) <= m - c
  <2>1. c \in Nat /\ c <= m
    BY DEF Code
  <2>2. New \in SUBSET ((c + 1) .. m)
    BY <1>2, <2>1 DEF Code
  <2>3. /\ IsFiniteSet((c + 1) .. m)
        /\ Cardinality((c + 1) .. m) = IF c + 1 > m THEN 0 ELSE m - (c + 1) + 1
    BY <2>1, FS_Interval
  <2>4. Cardinality(New) <= Cardinality((c + 1) .. m)
    BY <2>2, <2>3, FS_Subset
  <2>5. Cardinality((c + 1) .. m) = m - c
    BY <2>1, <2>3
  <2> HIDE DEF New
  <2> QED
    BY <2>4, <2>5
<1> HIDE DEF Old, New
<1>7. m - c \in Int
  BY DEF Code
<1> QED
  BY <1>1, <1>3, <1>4, <1>5, <1>6, <1>7, Bounds
-----------------------------------------------------------------------------
(* The inductive invariant. *)

LEMMA InitInv == Init => IInv
<1> SUFFICES ASSUME Init
             PROVE  IInv
  OBVIOUS
<1>1. TypeOK
  BY Bounds DEF Init, TypeOK
<1>2. CodeInv
  BY DEF Init, CodeInv
<1>3. SecretInv
  BY DEF Init, SecretInv, LiveSecretIsKept
<1>4. PendingIsBounded
  BY Bounds, FS_EmptySet DEF Init, PendingIsBounded
<1> QED
  BY <1>1, <1>2, <1>3, <1>4 DEF IInv

LEMMA AuthorizeInv == IInv /\ Authorize => IInv'
<1> SUFFICES ASSUME TypeOK, CodeInv, SecretInv, PendingIsBounded, Authorize
             PROVE  IInv'
  BY DEF IInv
<1> DEFINE S == pending \cup {codes + 1}
<1>1. /\ codes < MaxCodes /\ codes' = codes + 1 /\ pending' = Trim(S)
      /\ UNCHANGED <<stored, now, nonces, restarts, expiry, codeUses, secretUses>>
  BY DEF Authorize, uses
<1>2. codes + 1 \in Code /\ S \in SUBSET Code /\ codes \in Nat
  BY <1>1, Bounds DEF TypeOK, Code
<1>3. Cardinality(S) <= Cap
  <2>1. IsFiniteSet(pending) /\ Cardinality(pending) \in Nat
    BY CodesAreFinite DEF TypeOK
  <2>2. Cardinality(S) = IF codes + 1 \in pending THEN Cardinality(pending) ELSE Cardinality(pending) + 1
    BY <2>1, FS_AddElement
  <2> HIDE DEF S
  <2> QED
    BY <2>1, <2>2, Bounds DEF PendingIsBounded
<1>4. pending' \subseteq S /\ Cardinality(pending') < Cap
  BY <1>1, <1>2, <1>3, TrimMakesRoom
<1>5. TypeOK'
  BY <1>1, <1>2, <1>4, Bounds DEF TypeOK
<1>6. CodeInv'
  <2>1. codeUses[codes + 1] = 0 /\ \A c \in Code : c \in Nat
    BY <1>2 DEF CodeInv, Code
  <2>2. \A c \in pending' : c <= codes + 1 /\ codeUses[c] = 0
    BY <1>2, <1>4, <2>1 DEF CodeInv, TypeOK
  <2>3. \A c \in Code : c > codes + 1 => codeUses[c] = 0
    BY <1>2, <2>1 DEF CodeInv
  <2> QED
    BY <1>1, <2>2, <2>3 DEF CodeInv
<1>7. SecretInv'
  BY <1>1 DEF SecretInv, LiveSecretIsKept
<1> QED
  BY <1>4, <1>5, <1>6, <1>7 DEF IInv, PendingIsBounded

LEMMA RegisterInv == IInv /\ Register => IInv'
<1> SUFFICES ASSUME TypeOK, CodeInv, SecretInv, PendingIsBounded, Register
             PROVE  IInv'
  BY DEF IInv
<1>1. /\ nonces < MaxNonces /\ now <= MaxTime /\ nonces' = nonces + 1
      /\ expiry' = [expiry EXCEPT ![nonces + 1] = now + TTL]
      /\ UNCHANGED <<pending, now, codes, restarts, codeUses, secretUses>>
  BY DEF Register, uses
<1>2. nonces + 1 \in Nonce /\ nonces \in Nat /\ now \in Nat /\ now # 0
  BY <1>1, Bounds DEF TypeOK, Nonce
<1>3. now + TTL \in 0 .. MaxTime + TTL /\ now + TTL # 0
  BY <1>1, <1>2, Bounds
<1>4. \A n \in Nonce : stored'[n] = IF n = nonces + 1 THEN now + TTL
                                    ELSE IF stored[n] < now THEN 0 ELSE stored[n]
  BY <1>2 DEF Register, Sweep
<1>5. TypeOK'
  <2>1. expiry' \in [Nonce -> 0 .. MaxTime + TTL]
    BY <1>1, <1>3 DEF TypeOK
  <2>2. stored' \in [Nonce -> 0 .. MaxTime + TTL]
    <3>1. Sweep(stored) \in [Nonce -> 0 .. MaxTime + TTL]
      BY Bounds DEF Sweep, TypeOK
    <3>2. stored' = [Sweep(stored) EXCEPT ![nonces + 1] = now + TTL]
      BY DEF Register
    <3> QED
      BY <1>3, <3>1, <3>2
  <2> QED
    BY <1>1, <1>2, <2>1, <2>2, Bounds DEF TypeOK
<1>6. CodeInv'
  BY <1>1 DEF CodeInv
<1>7. \A n \in Nonce : expiry'[n] = IF n = nonces + 1 THEN now + TTL ELSE expiry[n]
  BY <1>1 DEF TypeOK
<1>8. \A n \in Nonce : stored'[n] # 0 => stored'[n] = expiry'[n] /\ secretUses'[n] = 0
  BY <1>1, <1>2, <1>4, <1>7 DEF SecretInv, Nonce
<1>9. \A n \in Nonce : n > nonces' => stored'[n] = 0 /\ secretUses'[n] = 0
  BY <1>1, <1>2, <1>4 DEF SecretInv, Nonce
<1>10. LiveSecretIsKept'
  <2> SUFFICES ASSUME NEW n \in 1 .. nonces', restarts = 0, secretUses[n] = 0, now <= expiry'[n]
               PROVE  stored'[n] = expiry'[n]
    BY <1>1 DEF LiveSecretIsKept
  <2>1. n \in Nonce /\ (n = nonces + 1 \/ n \in 1 .. nonces)
    BY <1>1, <1>2, Bounds DEF Nonce
  <2>2. CASE n = nonces + 1
    BY <1>4, <1>7, <2>1, <2>2
  <2>3. CASE n # nonces + 1
    <3>1. now <= expiry[n] /\ n \in 1 .. nonces
      BY <1>7, <2>1, <2>3
    <3>2. stored[n] = expiry[n] /\ expiry[n] \in Nat
      BY <2>1, <3>1 DEF SecretInv, LiveSecretIsKept, TypeOK
    <3> QED
      BY <1>2, <1>4, <1>7, <2>1, <2>3, <3>1, <3>2
  <2> QED
    BY <2>2, <2>3
<1>11. SecretInv'
  BY <1>1, <1>8, <1>9, <1>10 DEF SecretInv
<1> QED
  BY <1>1, <1>5, <1>6, <1>11 DEF IInv, PendingIsBounded

LEMMA TokenForCodeInv ==
    ASSUME IInv, NEW c \in Code, NEW fits \in BOOLEAN, TokenForCode(c, fits)
    PROVE  IInv'
<1> USE DEF IInv
<1>1. /\ pending' = pending \ {c}
      /\ UNCHANGED <<stored, now, codes, nonces, restarts, expiry, secretUses>>
  BY DEF TokenForCode
<1>2. \/ UNCHANGED codeUses
      \/ c \in pending /\ codeUses' = [codeUses EXCEPT ![c] = codeUses[c] + 1]
  BY DEF TokenForCode
<1>3. TypeOK'
  BY <1>1, <1>2 DEF TypeOK
<1>4. CodeInv'
  <2>1. \A d \in Code : d # c => codeUses'[d] = codeUses[d]
    BY <1>2 DEF TypeOK
  <2>2. codeUses'[c] <= 1 /\ (c > codes => codeUses'[c] = 0)
    <3>1. c \in pending => codeUses[c] = 0 /\ ~(c > codes)
      BY DEF CodeInv, TypeOK, Code
    <3>2. c \in pending => codeUses'[c] \in {0, 1}
      BY <1>2, <3>1 DEF TypeOK
    <3>3. c \notin pending => codeUses' = codeUses
      BY <1>2
    <3> QED
      BY <3>1, <3>2, <3>3 DEF CodeInv
  <2> QED
    BY <1>1, <2>1, <2>2 DEF CodeInv, TypeOK
<1>5. SecretInv'
  BY <1>1 DEF SecretInv, LiveSecretIsKept
<1>6. PendingIsBounded'
  <2>1. IsFiniteSet(pending) /\ Cardinality(pending) \in Nat
    BY CodesAreFinite DEF TypeOK
  <2>2. Cardinality(pending \ {c}) = IF c \in pending THEN Cardinality(pending) - 1 ELSE Cardinality(pending)
    BY <2>1, FS_RemoveElement
  <2> QED
    BY <1>1, <2>1, <2>2, Bounds DEF PendingIsBounded
<1> QED
  BY <1>3, <1>4, <1>5, <1>6

LEMMA TokenForSecretInv ==
    ASSUME IInv, NEW n \in Nonce, NEW signed \in BOOLEAN, TokenForSecret(n, signed)
    PROVE  IInv'
<1>1. UNCHANGED <<pending, now, codes, nonces, restarts, expiry, codeUses>>
  BY DEF TokenForSecret, Accepts
<1>2. /\ TypeOK /\ CodeInv /\ SecretInv /\ PendingIsBounded
      /\ n <= nonces /\ now \in Nat
  BY DEF TokenForSecret, Accepts, IInv, TypeOK
<1> DEFINE swept == Sweep(stored)
<1>3. swept \in [Nonce -> 0 .. MaxTime + TTL]
  BY <1>2, Bounds DEF Sweep, TypeOK
<1>4. \A m \in Nonce : swept[m] = IF stored[m] < now THEN 0 ELSE stored[m]
  BY DEF Sweep
<1>5. \/ stored' = swept /\ secretUses' = secretUses
      \/ /\ swept[n] # 0
         /\ stored' = [swept EXCEPT ![n] = 0]
         /\ secretUses' = [secretUses EXCEPT ![n] = secretUses[n] + 1]
  BY DEF TokenForSecret, Accepts
<1>6. TypeOK'
  <2>1. stored' \in [Nonce -> 0 .. MaxTime + TTL]
    <3>1. 0 \in 0 .. MaxTime + TTL
      BY Bounds
    <3> HIDE DEF swept
    <3> QED
      BY <1>3, <1>5, <3>1
  <2>2. secretUses' \in [Nonce -> Nat]
    <3>1. secretUses[n] + 1 \in Nat /\ secretUses \in [Nonce -> Nat]
      BY <1>2 DEF TypeOK
    <3> QED
      BY <1>5, <3>1
  <2> QED
    BY <1>1, <1>2, <2>1, <2>2 DEF TypeOK
<1>7. CodeInv' /\ PendingIsBounded'
  BY <1>1, <1>2 DEF CodeInv, PendingIsBounded
<1>8. \A m \in Nonce : /\ stored[m] \in Nat /\ secretUses[m] \in Nat /\ expiry[m] \in Nat
                       /\ stored[m] # 0 => stored[m] = expiry[m] /\ secretUses[m] = 0
                       /\ m > nonces => stored[m] = 0 /\ secretUses[m] = 0
                       /\ secretUses[m] <= 1
  BY <1>2, Bounds DEF TypeOK, SecretInv
<1> HIDE DEF swept
<1>9. ASSUME NEW m \in Nonce
      PROVE  \/ stored'[m] = swept[m] /\ secretUses'[m] = secretUses[m]
             \/ swept[m] # 0 /\ stored'[m] = 0 /\ secretUses'[m] = 1
  <2>1. swept[n] # 0 => secretUses[n] + 1 = 1
    BY <1>4, <1>8
  <2> QED
    BY <1>2, <1>3, <1>5, <2>1 DEF TypeOK
<1>10. LiveSecretIsKept'
  <2> SUFFICES ASSUME NEW m \in 1 .. nonces, restarts = 0, secretUses'[m] = 0, now <= expiry[m]
               PROVE  stored'[m] = expiry[m]
    BY <1>1 DEF LiveSecretIsKept
  <2>1. m \in Nonce
    BY <1>2, Bounds DEF Nonce, TypeOK
  <2>2. stored'[m] = swept[m] /\ secretUses[m] = 0
    BY <1>9, <2>1
  <2>3. stored[m] = expiry[m]
    BY <1>2, <2>2 DEF SecretInv, LiveSecretIsKept
  <2> QED
    BY <1>2, <1>4, <1>8, <2>1, <2>2, <2>3
<1>11. SecretInv'
  <2>1. /\ \A m \in Nonce : stored'[m] # 0 => stored'[m] = expiry[m] /\ secretUses'[m] = 0
        /\ \A m \in Nonce : m > nonces => stored'[m] = 0 /\ secretUses'[m] = 0
        /\ \A m \in Nonce : secretUses'[m] <= 1
    BY <1>4, <1>8, <1>9
  <2> QED
    BY <1>1, <1>10, <2>1 DEF SecretInv
<1> QED
  BY <1>6, <1>7, <1>11 DEF IInv

LEMMA TickInv == IInv /\ Tick => IInv'
<1> SUFFICES ASSUME TypeOK, CodeInv, SecretInv, PendingIsBounded, Tick
             PROVE  IInv'
  BY DEF IInv
<1>1. /\ now' = now + 1 /\ now <= MaxTime
      /\ UNCHANGED <<pending, stored, codes, nonces, restarts, expiry, codeUses, secretUses>>
  BY DEF Tick, uses
<1>2. TypeOK'
  BY <1>1, Bounds DEF TypeOK
<1>3. LiveSecretIsKept'
  <2> SUFFICES ASSUME NEW n \in 1 .. nonces, restarts = 0, secretUses[n] = 0, now + 1 <= expiry[n]
               PROVE  stored[n] = expiry[n]
    BY <1>1 DEF LiveSecretIsKept
  <2>1. n \in Nonce
    BY Bounds DEF Nonce, TypeOK
  <2>2. now <= expiry[n]
    BY <2>1, Bounds DEF TypeOK
  <2> QED
    BY <2>2 DEF SecretInv, LiveSecretIsKept
<1> QED
  BY <1>1, <1>2, <1>3 DEF IInv, CodeInv, SecretInv, PendingIsBounded

LEMMA RestartInv == IInv /\ Restart => IInv'
<1> SUFFICES ASSUME TypeOK, CodeInv, SecretInv, Restart
             PROVE  IInv'
  BY DEF IInv
<1>1. /\ restarts < MaxRestarts /\ restarts' = restarts + 1
      /\ pending' = {} /\ stored' = [n \in Nonce |-> 0]
      /\ UNCHANGED <<now, codes, nonces, expiry, codeUses, secretUses>>
  BY DEF Restart, uses
<1>2. TypeOK' /\ restarts' # 0
  BY <1>1, Bounds DEF TypeOK
<1>3. CodeInv'
  BY <1>1 DEF CodeInv
<1>4. SecretInv'
  BY <1>1, <1>2 DEF SecretInv, LiveSecretIsKept
<1>5. PendingIsBounded'
  BY <1>1, Bounds, FS_EmptySet DEF PendingIsBounded
<1> QED
  BY <1>2, <1>3, <1>4, <1>5 DEF IInv

LEMMA InvStep == IInv /\ [Next]_vars => IInv'
<1> SUFFICES ASSUME IInv, [Next]_vars
             PROVE  IInv'
  OBVIOUS
<1>1. CASE UNCHANGED vars
  BY <1>1 DEF vars, uses, IInv, TypeOK, CodeInv, SecretInv, PendingIsBounded, LiveSecretIsKept
<1> QED
  BY <1>1, AuthorizeInv, RegisterInv, TickInv, RestartInv, TokenForCodeInv, TokenForSecretInv
  DEF Next

LEMMA Invariance == Spec => []IInv
  BY InitInv, InvStep, PTL DEF Spec
-----------------------------------------------------------------------------
(* The theorems. *)

\* Every variable has its type.
THEOREM TypeCorrect == Spec => []TypeOK
<1>1. IInv => TypeOK
  BY DEF IInv
<1> QED
  BY <1>1, Invariance, PTL

\* However requests are repeated and interleaved, with restarts, expiry and trimming in
\* between, no code and no client_secret is turned into the API key twice.
THEOREM CredentialsAreSingleUse == Spec => []SingleUse
<1>1. IInv => SingleUse
  BY DEF IInv, CodeInv, SecretInv, SingleUse
<1> QED
  BY <1>1, Invariance, PTL

\* Until the server restarts, a client_secret that has not been used stays good until the
\* very second of its expiry.
THEOREM LiveSecretsAreKept == Spec => []LiveSecretIsKept
<1>1. IInv => LiveSecretIsKept
  BY DEF IInv, SecretInv
<1> QED
  BY <1>1, Invariance, PTL

\* The store of codes never reaches its cap.
THEOREM PendingStaysBounded == Spec => []PendingIsBounded
<1>1. IInv => PendingIsBounded
  BY DEF IInv
<1> QED
  BY <1>1, Invariance, PTL

\* For any clock and any time to live: a client_secret that is accepted has been neither used nor
\* expired, and until the server restarts each such secret is accepted.
THEOREM ExpiryIsObserved == Spec => []ExpiryIsExact
<1>1. IInv => ExpiryIsExact
  <2> SUFFICES ASSUME IInv, NEW n \in 1 .. nonces
               PROVE  /\ Accepts(n) => secretUses[n] = 0 /\ now <= expiry[n]
                      /\ restarts = 0 /\ secretUses[n] = 0 /\ now <= expiry[n] => Accepts(n)
    BY DEF ExpiryIsExact
  <2>1. /\ n \in Nonce /\ now \in Nat /\ now # 0 /\ stored[n] \in Nat /\ expiry[n] \in Nat
        /\ Sweep(stored)[n] = IF stored[n] < now THEN 0 ELSE stored[n]
    BY Bounds DEF IInv, TypeOK, Nonce, Sweep
  <2>2. ASSUME Accepts(n)
        PROVE  secretUses[n] = 0 /\ now <= expiry[n]
    BY <2>1, <2>2 DEF Accepts, IInv, SecretInv
  <2>3. ASSUME restarts = 0, secretUses[n] = 0, now <= expiry[n]
        PROVE  Accepts(n)
    <3>1. stored[n] = expiry[n]
      BY <2>3 DEF IInv, SecretInv, LiveSecretIsKept
    <3> QED
      BY <2>1, <2>3, <3>1 DEF Accepts
  <2> QED
    BY <2>2, <2>3
<1> QED
  BY <1>1, Invariance, PTL

\* The cap does not drop a code while fewer than Cap - Evict others have been issued after it.
THEOREM FreshCodesAreKept == Spec => FreshCodeIsKept
<1>1. IInv /\ [Next]_vars =>
          [\A c \in Code : c \in pending /\ c \notin pending' /\ codes' # codes
                               => codes' - c >= Cap - Evict]_vars
  <2> SUFFICES ASSUME IInv, Next, NEW c \in pending, c \notin pending', codes' # codes
               PROVE  codes' - c >= Cap - Evict
    OBVIOUS
  <2>1. Authorize
    BY DEF Next, Register, Tick, Restart, TokenForCode, TokenForSecret
  <2>2. codes \in Nat /\ codes' = codes + 1 /\ codes + 1 \in Code /\ pending \in SUBSET Code
    BY <2>1, Bounds DEF Authorize, IInv, TypeOK, Code
  <2>3. \A d \in pending \cup {codes + 1} : d <= codes + 1
    BY <2>2 DEF IInv, CodeInv, Code
  <2>4. c \notin Trim(pending \cup {codes + 1})
    BY <2>1 DEF Authorize
  <2> QED
    BY <2>2, <2>3, <2>4, TrimTakesOldest
<1> QED
  BY <1>1, Invariance, PTL DEF Spec, FreshCodeIsKept

\* SEC-L2: an issue sweeps every expired secret out of the store.
THEOREM IssuesSweep == Spec => IssueLeavesNoExpired
<1>1. IInv /\ [Next]_vars =>
          [nonces' # nonces => \A n \in Nonce : stored'[n] # 0 => stored'[n] >= now]_vars
  <2> SUFFICES ASSUME IInv, Next, nonces' # nonces, NEW n \in Nonce, stored'[n] # 0
               PROVE  stored'[n] >= now
    OBVIOUS
  <2>1. Register
    BY DEF Next, Authorize, Tick, Restart, TokenForCode, TokenForSecret
  <2>2. now \in Nat /\ now + TTL >= now /\ stored[n] \in Nat
    BY Bounds DEF IInv, TypeOK
  <2>3. stored'[n] \in {now + TTL, Sweep(stored)[n]}
    BY <2>1 DEF Register, Sweep
  <2>4. Sweep(stored)[n] = IF stored[n] < now THEN 0 ELSE stored[n]
    BY DEF Sweep
  <2> QED
    BY <2>2, <2>3, <2>4
<1> QED
  BY <1>1, Invariance, PTL DEF Spec, IssueLeavesNoExpired
=============================================================================
