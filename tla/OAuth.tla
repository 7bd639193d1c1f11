--------------------------------- MODULE OAuth ---------------------------------
(***************************************************************************)
(* The OAuth endpoints of the HTTP server and the Bearer check in front of *)
(* them (oauth.py, auth.py).  An authorised client gets a PKCE code from   *)
(* /authorize or a client_secret with an expiry from /register, and turns  *)
(* either into the API key at /token, which has no Bearer check.  Both     *)
(* stores are module-level dictionaries: a restart of the server loses     *)
(* them.  Each handler runs without an await once it has read its request, *)
(* so a request is one step.  Responses may be lost: a client may repeat   *)
(* any request.                                                            *)
(***************************************************************************)
EXTENDS Integers, FiniteSets

CONSTANTS MaxCodes,     \* bound: how many codes are issued
          MaxNonces,    \* bound: how many client secrets are issued
          Cap,          \* _pending_codes is trimmed when it reaches this size (100)
          Evict,        \* by this many (10)
          TTL,          \* _TOKEN_TTL_SECONDS (3600)
          MaxTime,      \* bound: the clock
          MaxRestarts   \* bound: restarts of the server

Code == 1 .. MaxCodes
Nonce == 1 .. MaxNonces

ASSUME OAuthAssumption ==
    /\ MaxCodes \in Nat /\ MaxNonces \in Nat /\ MaxTime \in Nat /\ MaxRestarts \in Nat
    /\ Cap \in Nat /\ Evict \in Nat /\ TTL \in Nat
    /\ 0 < Evict /\ Evict < Cap

VARIABLES pending,    \* _pending_codes; codes are numbered as issued, so the lowest is the oldest
          stored,     \* _NONCE_STORE: the expiry of each nonce in it, 0 if it is not
          now,        \* the clock
          codes,      \* how many codes have been issued
          nonces,     \* how many nonces have been issued
          restarts,
          expiry,     \* history: the expiry each client_secret was issued with
          codeUses,   \* history: how often the API key was given for each code
          secretUses  \* history: and for each client_secret

uses == <<codeUses, secretUses>>
vars == <<pending, stored, now, codes, nonces, restarts, expiry, uses>>

TypeOK == /\ pending \subseteq Code
          /\ stored \in [Nonce -> 0 .. MaxTime + TTL]
          /\ now \in 1 .. MaxTime + 1
          /\ codes \in 0 .. MaxCodes
          /\ nonces \in 0 .. MaxNonces
          /\ restarts \in 0 .. MaxRestarts
          /\ expiry \in [Nonce -> 0 .. MaxTime + TTL]
          /\ codeUses \in [Code -> Nat]
          /\ secretUses \in [Nonce -> Nat]

Init == /\ pending = {}
        /\ stored = [n \in Nonce |-> 0]
        /\ now = 1
        /\ codes = 0 /\ nonces = 0 /\ restarts = 0
        /\ expiry = [n \in Nonce |-> 0]
        /\ codeUses = [c \in Code |-> 0]
        /\ secretUses = [n \in Nonce |-> 0]
-----------------------------------------------------------------------------
\* A definition whose comment begins with "Slip" is a plausible mistake in the one that
\* follows it, kept to see a property fail; the specification does not use it.

\* The loop both functions begin with: nonces that have expired are dropped.
Sweep(s) == [n \in Nonce |-> IF s[n] < now THEN 0 ELSE s[n]]

\* BearerApiKeyMiddleware: /register and /authorize need the API key in the header.  A
\* request without it is answered 401 and changes nothing.

\* list(_pending_codes.keys())[:10]
Oldest(s) == {c \in s : Cardinality({d \in s : d <= c}) <= Evict}

\* Slip: the newest are dropped.
TrimNewest(s) == IF Cardinality(s) >= Cap
                 THEN {c \in s : Cardinality({d \in s : d >= c}) > Evict} ELSE s

\* The codes the cap leaves.
Trim(s) == IF Cardinality(s) >= Cap THEN s \ Oldest(s) ELSE s

\* GET /authorize
Authorize == /\ codes < MaxCodes
             /\ codes' = codes + 1
             /\ pending' = Trim(pending \cup {codes + 1})
             /\ UNCHANGED <<stored, now, nonces, restarts, expiry, uses>>

\* Slip: the time to live is added twice.
RegisterTwiceTTL == /\ nonces < MaxNonces /\ now <= MaxTime
                    /\ nonces' = nonces + 1
                    /\ stored' = [Sweep(stored) EXCEPT ![nonces + 1] = now + TTL + TTL]
                    /\ expiry' = [expiry EXCEPT ![nonces + 1] = now + TTL]
                    /\ UNCHANGED <<pending, now, codes, restarts, uses>>

\* POST /register: _make_derived_token
Register == /\ nonces < MaxNonces /\ now <= MaxTime
            /\ nonces' = nonces + 1
            /\ stored' = [Sweep(stored) EXCEPT ![nonces + 1] = now + TTL]
            /\ expiry' = [expiry EXCEPT ![nonces + 1] = now + TTL]
            /\ UNCHANGED <<pending, now, codes, restarts, uses>>

\* Slip: the code is looked up and stays.
CodeStays(c, fits) == /\ c <= codes
                      /\ codeUses' = IF c \in pending /\ fits
                                     THEN [codeUses EXCEPT ![c] = @ + 1] ELSE codeUses
                      /\ UNCHANGED <<pending, stored, now, codes, nonces, restarts, expiry, secretUses>>

\* POST /token, authorization_code: the code is popped whether or not the verifier fits.
TokenForCode(c, fits) == /\ c <= codes
                         /\ pending' = pending \ {c}
                         /\ codeUses' = IF c \in pending /\ fits
                                        THEN [codeUses EXCEPT ![c] = @ + 1] ELSE codeUses
                         /\ UNCHANGED <<stored, now, codes, nonces, restarts, expiry, secretUses>>

\* Slip: the last second is refused.
AcceptsBefore(n) == LET swept == Sweep(stored) IN swept[n] # 0 /\ now < swept[n]

\* _verify_derived_token up to the signature: the sweep, and the two tests of the nonce.
Accepts(n) == LET swept == Sweep(stored) IN swept[n] # 0 /\ now <= swept[n]

\* POST /token, client_credentials: _verify_derived_token.  A wrong signature uses nothing up.
TokenForSecret(n, signed) ==
    /\ n <= nonces
    /\ LET swept == Sweep(stored)
           valid == Accepts(n) /\ signed
       IN  /\ stored' = IF valid THEN [swept EXCEPT ![n] = 0] ELSE swept
           /\ secretUses' = IF valid THEN [secretUses EXCEPT ![n] = @ + 1] ELSE secretUses
    /\ UNCHANGED <<pending, now, codes, nonces, restarts, expiry, codeUses>>

Tick == /\ now <= MaxTime
        /\ now' = now + 1
        /\ UNCHANGED <<pending, stored, codes, nonces, restarts, expiry, uses>>

Restart == /\ restarts < MaxRestarts
           /\ restarts' = restarts + 1
           /\ pending' = {}
           /\ stored' = [n \in Nonce |-> 0]
           /\ UNCHANGED <<now, codes, nonces, expiry, uses>>

Next == \/ Authorize \/ Register \/ Tick \/ Restart
        \/ \E c \in Code, fits \in BOOLEAN : TokenForCode(c, fits)
        \/ \E n \in Nonce, signed \in BOOLEAN : TokenForSecret(n, signed)

Spec == Init /\ [][Next]_vars
-----------------------------------------------------------------------------
(* Properties. *)

\* "Single-use": whatever is repeated, expired, trimmed or lost in a restart, no code and no
\* client_secret is turned into the API key twice.
SingleUse == /\ \A c \in Code : codeUses[c] <= 1
             /\ \A n \in Nonce : secretUses[n] <= 1

\* A client_secret is accepted up to the very second of its expiry and not after it, whether or not
\* something has swept the store since: accepted means neither used nor expired, and while the server
\* has not restarted one that is neither is accepted (the sweep and the test in
\* _verify_derived_token).
ExpiryIsExact ==
    \A n \in 1 .. nonces :
        LET good == secretUses[n] = 0 /\ now <= expiry[n]
        IN  (Accepts(n) => good) /\ (restarts = 0 /\ good => Accepts(n))

\* Until the server restarts, no sweep takes a client_secret out of the store that has been neither
\* used nor expired (_make_derived_token and _verify_derived_token).
LiveSecretIsKept ==
    \A n \in 1 .. nonces :
        restarts = 0 /\ secretUses[n] = 0 /\ now <= expiry[n] => stored[n] = expiry[n]

\* The store of codes stays below the cap.
PendingIsBounded == Cardinality(pending) < Cap

\* "cap pending codes": trimming reaches the oldest codes only.  While fewer than Cap - Evict
\* codes have been issued after it, a code that nobody has presented is still good.
FreshCodeIsKept ==
    [][\A c \in Code :
          c \in pending /\ c \notin pending' /\ codes' # codes
              => codes' - c >= Cap - Evict]_vars

\* SEC-L2: "tokens that are issued but never verified cannot accumulate indefinitely".  After
\* an issue only nonces are left that could still be verified.
IssueLeavesNoExpired ==
    [][nonces' # nonces => \A n \in Nonce : stored'[n] # 0 => stored'[n] >= now]_vars
=============================================================================
