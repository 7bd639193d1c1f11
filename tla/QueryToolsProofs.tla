---------------------------- MODULE QueryToolsProofs ----------------------------
(***************************************************************************)
(* That pages put together are the answer, that the numbers of the user    *)
(* summary add up, and that both modes answer alike, holds for any         *)
(* accounts, rows, filters and limits.                                     *)
(***************************************************************************)
EXTENDS QueryTools, FiniteSetTheorems, TLAPS

IsSeq(s) == s \in Seq({s[i] : i \in DOMAIN s})

Sourced == /\ dir \in Seq(Account) /\ Len(dir) <= Len(FirstDir) + changes
           /\ loaded.dir \in Seq(Account) /\ Len(loaded.dir) <= Len(FirstDir) + changes
           /\ loaded.shell \in Shells
           /\ loaded.users = Loaded("users", Users(loaded.dir, loaded.shell))

Fields == {"open", "ask", "mode", "limit", "got", "first", "steady", "more"}

\* Where a client is that has asked for pages of an answer that did not change.
Exact == /\ Answer(walk.ask, walk.mode) = walk.first
         /\ IsSeq(walk.first) /\ IsSeq(walk.got) /\ Len(walk.got) <= Len(walk.first)
         /\ walk.got = SubSeq(walk.first, 1, Len(walk.got))
         /\ Len(walk.got) < Len(walk.first) => walk.more
         /\ walk.more => Len(walk.got) < Len(walk.first) \/ walk.got = <<>>

IInv == /\ changes \in 0 .. MaxChanges /\ loads \in 0 .. MaxLoads
        /\ Sourced
        /\ DOMAIN walk = Fields
        /\ walk.open \in BOOLEAN /\ walk.more \in BOOLEAN /\ walk.steady \in BOOLEAN
        /\ walk.open => walk.ask \in Asks /\ walk.mode \in Modes /\ walk.limit \in Limit
        /\ walk.open /\ walk.steady => Exact
-----------------------------------------------------------------------------
LEMMA Constants ==
    /\ FirstDir \in Seq(Account) /\ Len(FirstDir) \in Nat
    /\ DOMAIN Fixed = KNOWN_SECTIONS \ {"users"}
    /\ \A s \in DOMAIN Fixed : IsSeq(Fixed[s])
    /\ Limit \subseteq Nat \ {0} /\ MaxChanges \in Nat /\ MaxLoads \in Nat
  BY QueryAssumption DEF IsSeq

\* What is indexed from 1 is a sequence.
LEMMA IndexedIsSeq ==
    ASSUME NEW n \in Nat, NEW s, DOMAIN s = 1 .. n, s = [i \in 1 .. n |-> s[i]]
    PROVE  IsSeq(s) /\ Len(s) = n
  BY SMT DEF IsSeq

LEMMA SeqIsIndexed ==
    ASSUME NEW s, IsSeq(s)
    PROVE  /\ Len(s) \in Nat /\ DOMAIN s = 1 .. Len(s) /\ s = [i \in 1 .. Len(s) |-> s[i]]
  BY SMT DEF IsSeq

\* One more page: what it holds follows what the client has.
LEMMA PageFollows ==
    ASSUME NEW s, IsSeq(s), NEW n \in 0 .. Len(s), NEW limit \in Nat \ {0}
    PROVE  LET items == Slice(s, n, limit)
               joined == SubSeq(s, 1, n) \o items
           IN  /\ IsSeq(items) /\ Len(items) \in Nat
               /\ n + Len(items) = IF n + limit < Len(s) THEN n + limit ELSE Len(s)
               /\ IsSeq(joined) /\ Len(joined) = n + Len(items)
               /\ joined = SubSeq(s, 1, n + Len(items))
  <1> DEFINE items == Slice(s, n, limit)
             m == IF n + limit < Len(s) THEN n + limit ELSE Len(s)
             joined == SubSeq(s, 1, n) \o items
             S == {s[i] : i \in DOMAIN s}
  <1>1. /\ s \in Seq(S) /\ Len(s) \in Nat /\ n \in Nat /\ n <= Len(s) /\ limit \in Nat /\ limit > 0
    BY SMT DEF IsSeq
  <1>2. m \in Nat /\ n <= m /\ m <= Len(s)
    BY <1>1, SMT
  <1> HIDE DEF m, S
  <1>3. items = SubSeq(s, n + 1, m)
    BY DEF Slice, m
  <1>4. /\ items \in Seq(S) /\ Len(items) = m - n
        /\ \A i \in 1 .. m - n : items[i] = s[n + i]
    BY <1>1, <1>2, <1>3, SMT
  <1>5. /\ SubSeq(s, 1, n) \in Seq(S) /\ Len(SubSeq(s, 1, n)) = n
        /\ \A i \in 1 .. n : SubSeq(s, 1, n)[i] = s[i]
    BY <1>1, SMT
  <1>6. /\ SubSeq(s, 1, m) \in Seq(S) /\ Len(SubSeq(s, 1, m)) = m
        /\ \A i \in 1 .. m : SubSeq(s, 1, m)[i] = s[i]
    BY <1>1, <1>2, SMT
  <1> HIDE DEF items
  <1>7. joined \in Seq(S) /\ Len(joined) = m /\ \A i \in 1 .. m : joined[i] = s[i]
    BY <1>1, <1>2, <1>4, <1>5, SMT
  <1> HIDE DEF joined
  <1>8. joined = SubSeq(s, 1, m)
    BY <1>6, <1>7, SMT
  <1>9. IsSeq(joined) /\ IsSeq(items)
    <2>1. \A t \in Seq(S) : Len(t) \in Nat /\ DOMAIN t = 1 .. Len(t) /\ t = [i \in 1 .. Len(t) |-> t[i]]
      BY SMT
    <2>2. QED
      BY <1>4, <1>7, <2>1, IndexedIsSeq
  <1>10. n + Len(items) = m /\ Len(items) \in Nat
    BY <1>1, <1>2, <1>4, SMT
  <1>11. QED
    BY <1>7, <1>8, <1>9, <1>10 DEF items, joined, m

\* The positions that a filter keeps are counted.
LEMMA KeptIsFinite ==
    ASSUME NEW rows, IsSeq(rows), NEW kept \in SUBSET DOMAIN rows
    PROVE  IsFiniteSet(kept) /\ Cardinality(kept) \in Nat
  <1>1. Len(rows) \in Nat /\ DOMAIN rows = 1 .. Len(rows)
    BY SeqIsIndexed
  <1>2. IsFiniteSet(1 .. Len(rows))
    BY <1>1, FS_Interval, SMT
  <1>3. QED
    BY <1>1, <1>2, FS_Subset, FS_CardinalityType

LEMMA FilteredIsSeq ==
    ASSUME NEW rows, IsSeq(rows), NEW kept \in SUBSET DOMAIN rows, NEW s,
           DOMAIN s = 1 .. Cardinality(kept), s = [k \in 1 .. Cardinality(kept) |-> s[k]]
    PROVE  IsSeq(s) /\ Len(s) = Cardinality(kept)
  BY KeptIsFinite, IndexedIsSeq

\* What get_users gives for any filters, as a list of the rows it keeps.
LEMMA UsersListed ==
    ASSUME NEW rows, IsSeq(rows), NEW filters
    PROVE  /\ IsSeq(get_users(rows, filters))
           /\ Len(get_users(rows, filters))
                 = Cardinality({i \in DOMAIN rows : \A f \in filters : Matches(rows[i], f)})
  <1> DEFINE kept == {i \in DOMAIN rows : \A f \in filters : Matches(rows[i], f)}
  <1>1. kept \in SUBSET DOMAIN rows
    OBVIOUS
  <1>2. get_users(rows, filters)
          = [k \in 1 .. Cardinality(kept) |->
                rows[CHOOSE i \in kept : Cardinality({j \in kept : j <= i}) = k]]
    BY DEF get_users, Filtered, Kept
  <1>3. PICK t : t = get_users(rows, filters)
    OBVIOUS
  <1>4. /\ DOMAIN t = 1 .. Cardinality(kept)
        /\ t = [k \in 1 .. Cardinality(kept) |-> t[k]]
    BY <1>2, <1>3
  <1> HIDE DEF kept
  <1>5. IsSeq(t) /\ Len(t) = Cardinality(kept)
    BY <1>1, <1>4, FilteredIsSeq
  <1>6. QED
    BY <1>3, <1>5 DEF kept

LEMMA ColumnListed ==
    ASSUME NEW rows, IsSeq(rows), NEW column, NEW text
    PROVE  IsSeq(ByColumn(rows, column, text))
  <1> DEFINE kept == {i \in DOMAIN rows : SameName(Get(rows[i], column, Str(""))[2], text)}
  <1>1. kept \in SUBSET DOMAIN rows
    OBVIOUS
  <1>2. ByColumn(rows, column, text)
          = [k \in 1 .. Cardinality(kept) |->
                rows[CHOOSE i \in kept : Cardinality({j \in kept : j <= i}) = k]]
    BY DEF ByColumn, Filtered, Kept
  <1>3. PICK t : t = ByColumn(rows, column, text)
    OBVIOUS
  <1>4. /\ DOMAIN t = 1 .. Cardinality(kept)
        /\ t = [k \in 1 .. Cardinality(kept) |-> t[k]]
    BY <1>2, <1>3
  <1> HIDE DEF kept
  <1>5. IsSeq(t) /\ Len(t) = Cardinality(kept)
    BY <1>1, <1>4, FilteredIsSeq
  <1>6. QED
    BY <1>3, <1>5 DEF kept

LEMMA AnswerIsSeq ==
    ASSUME NEW rows, IsSeq(rows), NEW ask
    PROVE  IsSeq(AnswerOf(rows, ask))
  <1>1. IsSeq(get_users(rows, ask[3]))
    BY UsersListed
  <1>3. IsSeq(Filtered(rows, LAMBDA r : ask[3] # {} => is_true(Get(r, "IsOrphaned", Null))))
    <2> DEFINE kept == {i \in DOMAIN rows : ask[3] # {} => is_true(Get(rows[i], "IsOrphaned", Null))}
    <2>1. kept \in SUBSET DOMAIN rows
      OBVIOUS
    <2>2. Filtered(rows, LAMBDA r : ask[3] # {} => is_true(Get(r, "IsOrphaned", Null)))
            = [k \in 1 .. Cardinality(kept) |->
                rows[CHOOSE i \in kept : Cardinality({j \in kept : j <= i}) = k]]
      BY DEF Filtered, Kept
    <2>3. PICK t : t = Filtered(rows, LAMBDA r : ask[3] # {} => is_true(Get(r, "IsOrphaned", Null)))
      OBVIOUS
    <2>4. /\ DOMAIN t = 1 .. Cardinality(kept)
          /\ t = [k \in 1 .. Cardinality(kept) |-> t[k]]
      BY <2>2, <2>3
    <2> HIDE DEF kept
    <2>5. IsSeq(t)
      BY <2>1, <2>4, FilteredIsSeq
    <2>6. QED
      BY <2>3, <2>5
  <1>4. /\ IsSeq(ByColumn(rows, "GroupName", CHOOSE g \in ask[3] : TRUE))
        /\ IsSeq(ByColumn(rows, "DC", CHOOSE dc \in ask[3] : TRUE))
    BY ColumnListed
  <1>5. QED
    BY <1>1, <1>3, <1>4, Zenon DEF AnswerOf

LEMMA UsersIsSeq ==
    ASSUME NEW accounts \in Seq(Account), NEW shell
    PROVE  IsSeq(Users(accounts, shell)) /\ Len(Users(accounts, shell)) = Len(accounts)
  <1>1. Len(accounts) \in Nat /\ DOMAIN accounts = 1 .. Len(accounts)
    BY SMT
  <1>2. PICK t : t = Users(accounts, shell)
    OBVIOUS
  <1>3. DOMAIN t = 1 .. Len(accounts) /\ t = [i \in 1 .. Len(accounts) |-> t[i]]
    BY <1>1, <1>2 DEF Users
  <1>4. QED
    BY <1>1, <1>2, <1>3, IndexedIsSeq

LEMMA LoadedIsSeq ==
    ASSUME NEW rows, IsSeq(rows), NEW section
    PROVE  /\ IsSeq(Loaded(section, rows))
           /\ section \in KNOWN_SECTIONS => Len(Loaded(section, rows)) = Len(rows)
  <1>1. Len(rows) \in Nat /\ DOMAIN rows = 1 .. Len(rows)
    BY SeqIsIndexed
  <1>2. IsSeq(<<>>)
    BY SMT DEF IsSeq
  <1>3. PICK t : t = Stored(rows)
    OBVIOUS
  <1>4. DOMAIN t = 1 .. Len(rows) /\ t = [i \in 1 .. Len(rows) |-> t[i]]
    BY <1>1, <1>3 DEF Stored
  <1>5. IsSeq(t) /\ Len(t) = Len(rows)
    BY <1>1, <1>4, IndexedIsSeq
  <1>6. QED
    BY <1>2, <1>3, <1>5 DEF Loaded

LEMMA SectionsKnown ==
    ASSUME NEW ask \in Asks
    PROVE  ask[2] \in KNOWN_SECTIONS
  <1>1. \A tool \in PlainTools : tool[2] \in KNOWN_SECTIONS
    BY SMT DEF PlainTools, UserTools, GroupTools, DcTools, GpoTools, SiteTools, ForestTools,
               DomainTools, DnsTools, OuTools, PkiTools, FgppTools, TrustTools, SysvolTools,
               KNOWN_SECTIONS
  <1>2. \A tool \in DcNameTools : tool[2] \in KNOWN_SECTIONS
    BY SMT DEF DcNameTools, KNOWN_SECTIONS
  <1>3. "users" \in KNOWN_SECTIONS /\ "fsp" \in KNOWN_SECTIONS /\ "group_members" \in KNOWN_SECTIONS
    BY SMT DEF KNOWN_SECTIONS
  <1>4. \/ \E tool \in PlainTools : ask = <<tool[1], tool[2], {}>>
        \/ \E tool \in DcNameTools, dc \in {"DC1", "dc2"} : ask = <<tool[1], tool[2], {dc}>>
        \/ \E fs \in FilterSets : ask = <<"get_users", "users", fs>>
        \/ \E fs \in {{}, {"orphaned_only"}} : ask = <<"get_fsp", "fsp", fs>>
        \/ \E g \in {"Staff", "nobody"} : ask = <<"get_group_members", "group_members", {g}>>
    BY SMT DEF Asks
  <1>5. \A a, b, c : <<a, b, c>>[2] = b
    BY SMT
  <1>6. ASSUME NEW tool \in PlainTools, ask = <<tool[1], tool[2], {}>>
        PROVE  ask[2] \in KNOWN_SECTIONS
    BY <1>1, <1>5, <1>6
  <1>7. ASSUME NEW tool \in DcNameTools, NEW dc, ask = <<tool[1], tool[2], {dc}>>
        PROVE  ask[2] \in KNOWN_SECTIONS
    BY <1>2, <1>5, <1>7
  <1>8. ASSUME NEW a, NEW c, NEW section \in {"users", "fsp", "group_members"},
               ask = <<a, section, c>>
        PROVE  ask[2] \in KNOWN_SECTIONS
    BY <1>3, <1>5, <1>8
  <1>9. QED
    BY <1>4, <1>6, <1>7, <1>8

LEMMA RowsAreSeq ==
    ASSUME Sourced, NEW mode \in Modes, NEW section \in KNOWN_SECTIONS
    PROVE  IsSeq(Rows(mode, section))
  <1>1. IsSeq(Users(dir, "5.1"))
    BY UsersIsSeq DEF Sourced
  <1>2. IsSeq(loaded.users)
    BY UsersIsSeq, LoadedIsSeq DEF Sourced
  <1>3. section # "users" => section \in DOMAIN Fixed
    BY Constants
  <1>4. section # "users" => IsSeq(Fixed[section]) /\ IsSeq(FixedStored[section])
    BY <1>3, Constants, LoadedIsSeq DEF FixedStored
  <1>5. QED
    BY <1>1, <1>2, <1>4 DEF Rows

LEMMA AnswersAreSeq ==
    ASSUME Sourced, NEW mode \in Modes, NEW ask \in Asks
    PROVE  IsSeq(Answer(ask, mode))
  BY SectionsKnown, RowsAreSeq, AnswerIsSeq DEF Answer
-----------------------------------------------------------------------------
LEMMA LoadIsSourced ==
    ASSUME NEW accounts \in Seq(Account), NEW shell \in Shells
    PROVE  /\ LoadOf(accounts, shell).dir = accounts /\ LoadOf(accounts, shell).shell = shell
           /\ LoadOf(accounts, shell).users = Loaded("users", Users(accounts, shell))
  BY DEF LoadOf

LEMMA InitEstablishes == Init => IInv
  <1> SUFFICES ASSUME Init PROVE IInv
    OBVIOUS
  <1>1. changes = 0 /\ loads = 0 /\ dir = FirstDir /\ walk = NoWalk
    BY DEF Init
  <1>2. changes \in 0 .. MaxChanges /\ loads \in 0 .. MaxLoads
    BY <1>1, Constants, SMT
  <1>3. PICK shell \in Shells : loaded = LoadOf(FirstDir, shell)
    BY DEF Init
  <1>4. Len(FirstDir) <= Len(FirstDir) + 0
    BY Constants, SMT
  <1>5. Sourced
    BY <1>1, <1>3, <1>4, Constants, LoadIsSourced DEF Sourced
  <1>6. /\ DOMAIN walk = Fields /\ walk.open = FALSE /\ walk.more \in BOOLEAN
        /\ walk.steady \in BOOLEAN
    BY <1>1 DEF NoWalk, Fields
  <1>7. QED
    BY <1>2, <1>5, <1>6 DEF IInv

\* The source of a walk changes, or the other source does.
LEMMA SourceChanges ==
    ASSUME IInv, Sourced', changes' \in 0 .. MaxChanges, loads' \in 0 .. MaxLoads,
           NEW same \in BOOLEAN, walk' = [walk EXCEPT !.steady = @ /\ same],
           walk.open /\ same => Answer(walk.ask, walk.mode)' = Answer(walk.ask, walk.mode)
    PROVE  IInv'
  <1>1. DOMAIN walk = Fields /\ walk.steady \in BOOLEAN
    BY DEF IInv
  <1>2. /\ DOMAIN walk' = Fields /\ walk'.steady = (walk.steady /\ same)
        /\ walk'.open = walk.open /\ walk'.ask = walk.ask /\ walk'.mode = walk.mode
        /\ walk'.limit = walk.limit /\ walk'.got = walk.got /\ walk'.first = walk.first
        /\ walk'.more = walk.more
    BY <1>1 DEF Fields
  <1>3. walk'.open /\ walk'.steady => Exact'
    <2> SUFFICES ASSUME walk'.open, walk'.steady PROVE Exact'
      OBVIOUS
    <2>1. Exact /\ same /\ walk.open
      BY <1>1, <1>2 DEF IInv
    <2>2. Answer(walk.ask, walk.mode)' = Answer(walk.ask, walk.mode)
      BY <2>1
    <2>3. QED
      BY <1>2, <2>1, <2>2 DEF Exact
  <1>4. QED
    BY <1>1, <1>2, <1>3 DEF IInv

\* What offline answers does not depend on the directory, nor what live answers on the file.
LEMMA OtherSource ==
    ASSUME NEW ask, NEW mode \in Modes,
           \/ mode = "live" /\ dir' = dir
           \/ mode = "offline" /\ loaded' = loaded
    PROVE  Answer(ask, mode)' = Answer(ask, mode)
  BY DEF Answer, Rows, Modes

LEMMA ChangeKeeps == IInv /\ Change => IInv'
  <1> SUFFICES ASSUME IInv, Change PROVE IInv'
    OBVIOUS
  <1>1. /\ dir \in Seq(Account) /\ Len(dir) <= Len(FirstDir) + changes
        /\ changes \in 0 .. MaxChanges /\ loads \in 0 .. MaxLoads /\ Sourced
        /\ loaded.dir \in Seq(Account) /\ Len(loaded.dir) <= Len(FirstDir) + changes
    BY DEF IInv, Sourced
  <1>2. /\ changes < MaxChanges /\ changes' = changes + 1 /\ loaded' = loaded /\ loads' = loads
    BY DEF Change
  <1>3. dir' \in Seq(Account) /\ Len(dir') <= Len(dir) + 1
    <2>1. CASE \E a \in Account, k \in 0 .. Len(dir) :
                  dir' = SubSeq(dir, 1, k) \o <<a>> \o SubSeq(dir, k + 1, Len(dir))
      <3>1. PICK a \in Account, k \in 0 .. Len(dir) :
               dir' = SubSeq(dir, 1, k) \o <<a>> \o SubSeq(dir, k + 1, Len(dir))
        BY <2>1
      <3>2. /\ SubSeq(dir, 1, k) \in Seq(Account) /\ Len(SubSeq(dir, 1, k)) = k
            /\ <<a>> \in Seq(Account) /\ Len(<<a>>) = 1
            /\ SubSeq(dir, k + 1, Len(dir)) \in Seq(Account)
            /\ Len(SubSeq(dir, k + 1, Len(dir))) = Len(dir) - k
        BY <1>1, SMT
      <3>3. /\ SubSeq(dir, 1, k) \o <<a>> \in Seq(Account)
            /\ Len(SubSeq(dir, 1, k) \o <<a>>) = k + 1
        BY <3>2, SMT
      <3>4. PICK l, r : l = SubSeq(dir, 1, k) \o <<a>> /\ r = SubSeq(dir, k + 1, Len(dir))
        OBVIOUS
      <3>5. /\ dir' = l \o r /\ l \in Seq(Account) /\ r \in Seq(Account)
            /\ Len(l) = k + 1 /\ Len(r) = Len(dir) - k
        BY <3>1, <3>2, <3>3, <3>4
      <3>6. l \o r \in Seq(Account) /\ Len(l \o r) = Len(l) + Len(r)
        <4>1. \A b, c \in Seq(Account) : b \o c \in Seq(Account) /\ Len(b \o c) = Len(b) + Len(c)
          BY SMT
        <4>2. QED
          BY <3>5, <4>1, Zenon
      <3>7. QED
        BY <1>1, <3>5, <3>6, SMT
    <2>2. CASE \E k \in DOMAIN dir : dir' = SubSeq(dir, 1, k - 1) \o SubSeq(dir, k + 1, Len(dir))
      <3>1. PICK k \in DOMAIN dir : dir' = SubSeq(dir, 1, k - 1) \o SubSeq(dir, k + 1, Len(dir))
        BY <2>2
      <3>2. /\ SubSeq(dir, 1, k - 1) \in Seq(Account) /\ Len(SubSeq(dir, 1, k - 1)) = k - 1
            /\ SubSeq(dir, k + 1, Len(dir)) \in Seq(Account)
            /\ Len(SubSeq(dir, k + 1, Len(dir))) = Len(dir) - k
        BY <1>1, SMT
      <3>3. QED
        BY <1>1, <3>1, <3>2, SMT
    <2>3. QED
      BY <2>1, <2>2 DEF Change
  <1>4. changes' \in 0 .. MaxChanges /\ Len(dir') <= Len(FirstDir) + changes'
        /\ Len(loaded.dir) <= Len(FirstDir) + changes'
    BY <1>1, <1>2, <1>3, Constants, SMT
  <1>5. Sourced'
    BY <1>1, <1>2, <1>3, <1>4 DEF Sourced
  <1>6. PICK same \in BOOLEAN : same <=> walk.mode # "live"
    BY Zenon
  <1>7. walk' = [walk EXCEPT !.steady = @ /\ same]
    <2>1. walk' = [walk EXCEPT !.steady = @ /\ walk.mode # "live"]
      BY DEF Change
    <2>2. (walk.steady /\ walk.mode # "live") = (walk.steady /\ same)
      BY <1>6
    <2>3. QED
      BY <2>1, <2>2
  <1>8. walk.open /\ same => Answer(walk.ask, walk.mode)' = Answer(walk.ask, walk.mode)
    <2> SUFFICES ASSUME walk.open, same
                 PROVE  Answer(walk.ask, walk.mode)' = Answer(walk.ask, walk.mode)
      OBVIOUS
    <2>1. walk.mode = "offline" /\ walk'.mode = walk.mode /\ walk'.ask = walk.ask
      BY <1>6, <1>7 DEF IInv, Modes, Fields
    <2>2. QED
      BY <1>2, <2>1 DEF Answer, Rows
  <1>9. QED
    BY <1>1, <1>2, <1>4, <1>5, <1>7, <1>8, SourceChanges

LEMMA LoadKeeps == IInv /\ Load => IInv'
  <1> SUFFICES ASSUME IInv, Load PROVE IInv'
    OBVIOUS
  <1>1. /\ dir \in Seq(Account) /\ Len(dir) <= Len(FirstDir) + changes
        /\ changes \in 0 .. MaxChanges /\ loads \in 0 .. MaxLoads /\ Sourced
    BY DEF IInv, Sourced
  <1>2. /\ loads < MaxLoads /\ loads' = loads + 1 /\ dir' = dir /\ changes' = changes
    BY DEF Load
  <1>3. PICK shell \in Shells : loaded' = LoadOf(dir, shell)
    BY DEF Load
  <1>4. loads' \in 0 .. MaxLoads
    BY <1>1, <1>2, Constants, SMT
  <1>5. Sourced'
    BY <1>1, <1>2, <1>3, LoadIsSourced DEF Sourced
  <1>6. PICK same \in BOOLEAN : same <=> walk.mode # "offline"
    BY Zenon
  <1>7. walk' = [walk EXCEPT !.steady = @ /\ same]
    <2>1. walk' = [walk EXCEPT !.steady = @ /\ walk.mode # "offline"]
      BY DEF Load
    <2>2. (walk.steady /\ walk.mode # "offline") = (walk.steady /\ same)
      BY <1>6
    <2>3. QED
      BY <2>1, <2>2
  <1>8. walk.open /\ same => Answer(walk.ask, walk.mode)' = Answer(walk.ask, walk.mode)
    <2> SUFFICES ASSUME walk.open, same
                 PROVE  Answer(walk.ask, walk.mode)' = Answer(walk.ask, walk.mode)
      OBVIOUS
    <2>1. walk.mode = "live" /\ walk'.mode = walk.mode /\ walk'.ask = walk.ask
      BY <1>6, <1>7 DEF IInv, Modes, Fields
    <2>2. QED
      BY <1>2, <2>1 DEF Answer, Rows
  <1>9. QED
    BY <1>1, <1>2, <1>4, <1>5, <1>7, <1>8, SourceChanges

LEMMA BeginKeeps == IInv /\ Begin => IInv'
  <1> SUFFICES ASSUME IInv, Begin PROVE IInv'
    OBVIOUS
  <1>1. PICK ask \in Asks, mode \in Modes, limit \in Limit :
          walk' = [NoWalk EXCEPT !.open = TRUE, !.ask = ask, !.mode = mode, !.limit = limit,
                                 !.first = Answer(ask, mode), !.more = TRUE]
    BY DEF Begin
  <1>2. dir' = dir /\ loaded' = loaded /\ changes' = changes /\ loads' = loads
    BY DEF Begin
  <1>3. Sourced /\ Sourced'
    BY <1>2 DEF IInv, Sourced
  <1>4. /\ DOMAIN walk' = Fields /\ walk'.open = TRUE /\ walk'.more = TRUE /\ walk'.steady = TRUE
        /\ walk'.ask = ask /\ walk'.mode = mode /\ walk'.limit = limit
        /\ walk'.first = Answer(ask, mode) /\ walk'.got = <<>>
    BY <1>1 DEF NoWalk, Fields
  <1>5. Answer(walk.ask, walk.mode)' = Answer(ask, mode)
    BY <1>2, <1>4 DEF Answer, Rows
  <1>6. IsSeq(walk'.first) /\ Len(walk'.first) \in Nat
    BY <1>3, <1>4, AnswersAreSeq, SeqIsIndexed
  <1>7. IsSeq(walk'.got) /\ Len(walk'.got) = 0 /\ SubSeq(walk'.first, 1, 0) = <<>>
    BY <1>4, <1>6, SMT DEF IsSeq
  <1>8. Exact'
    BY <1>4, <1>5, <1>6, <1>7 DEF Exact
  <1>9. QED
    BY <1>2, <1>3, <1>4, <1>8 DEF IInv

\* A page of the tools, whatever the way it is cut.
LEMMA PageIsSlice ==
    ASSUME NEW ask, NEW answer, IsSeq(answer), NEW n \in 0 .. Len(answer), NEW limit \in Nat \ {0}
    PROVE  /\ PageOf(ask, answer, n, limit).items = Slice(answer, n, limit)
           /\ PageOf(ask, answer, n, limit).has_more
                <=> n + Len(Slice(answer, n, limit)) < Len(answer)
  <1>1. Len(answer) \in Nat
    BY SeqIsIndexed
  <1>2. n + Len(Slice(answer, n, limit)) = IF n + limit < Len(answer) THEN n + limit ELSE Len(answer)
    BY PageFollows
  <1>3. CASE <<ask[1], ask[2]>> \in DcNameTools
    <2>1. /\ PageOf(ask, answer, n, limit).items = Slice(answer, n, limit)
          /\ PageOf(ask, answer, n, limit).has_more <=> n + limit < Len(answer)
      BY <1>3 DEF PageOf, DcPage
    <2>2. QED
      BY <1>1, <1>2, <2>1, SMT
  <1>4. CASE <<ask[1], ask[2]>> \notin DcNameTools
    BY <1>4 DEF PageOf, Page
  <1>5. QED
    BY <1>3, <1>4

LEMMA NextPageKeeps == IInv /\ NextPage => IInv'
  <1> SUFFICES ASSUME IInv, NextPage PROVE IInv'
    OBVIOUS
  <1> DEFINE page == PageOf(walk.ask, Answer(walk.ask, walk.mode), Len(walk.got), walk.limit)
  <1>1. /\ walk.open /\ walk.ask \in Asks /\ walk.mode \in Modes /\ walk.limit \in Limit
        /\ DOMAIN walk = Fields /\ walk.steady \in BOOLEAN
    BY DEF IInv, NextPage
  <1>2. walk' = [walk EXCEPT !.got = walk.got \o page.items, !.more = page.has_more]
    BY DEF NextPage
  <1>3. dir' = dir /\ loaded' = loaded /\ changes' = changes /\ loads' = loads
    BY DEF NextPage
  <1>4. page.has_more \in BOOLEAN
    <2>1. CASE <<walk.ask[1], walk.ask[2]>> \in DcNameTools
      BY <2>1 DEF PageOf, DcPage
    <2>2. CASE <<walk.ask[1], walk.ask[2]>> \notin DcNameTools
      BY <2>2 DEF PageOf, Page
    <2>3. QED
      BY <2>1, <2>2
  <1>5. /\ DOMAIN walk' = Fields /\ walk'.open = walk.open /\ walk'.more = page.has_more
        /\ walk'.steady = walk.steady /\ walk'.ask = walk.ask /\ walk'.mode = walk.mode
        /\ walk'.limit = walk.limit /\ walk'.first = walk.first
        /\ walk'.got = walk.got \o page.items
    BY <1>1, <1>2 DEF Fields
  <1>6. Sourced'
    BY <1>3 DEF IInv, Sourced
  <1>7. walk'.open /\ walk'.steady => Exact'
    <2> SUFFICES ASSUME walk'.open, walk'.steady PROVE Exact'
      OBVIOUS
    <2>1. Exact
      BY <1>1, <1>5 DEF IInv
    <2>2. PICK answer, n, got, ask, limit :
             /\ answer = walk.first /\ n = Len(walk.got) /\ got = walk.got
             /\ ask = walk.ask /\ limit = walk.limit
      OBVIOUS
    <2>3. /\ IsSeq(answer) /\ n \in 0 .. Len(answer) /\ limit \in Nat \ {0}
          /\ got = SubSeq(answer, 1, n) /\ Len(answer) \in Nat
      <3>1. IsSeq(answer) /\ IsSeq(got) /\ n <= Len(answer) /\ got = SubSeq(answer, 1, n)
        BY <2>1, <2>2 DEF Exact
      <3>2. n \in Nat /\ Len(answer) \in Nat
        BY <2>2, <3>1, SeqIsIndexed
      <3>3. limit \in Nat \ {0}
        BY <1>1, <2>2, Constants
      <3>4. QED
        BY <3>1, <3>2, <3>3, SMT
    <2>4. page = PageOf(ask, answer, n, limit)
      BY <2>1, <2>2 DEF Exact
    <2> HIDE DEF page
    <2>5. /\ page.items = Slice(answer, n, limit)
          /\ page.has_more <=> n + Len(Slice(answer, n, limit)) < Len(answer)
      BY <2>3, <2>4, PageIsSlice
    <2>6. /\ IsSeq(SubSeq(answer, 1, n) \o Slice(answer, n, limit))
          /\ Len(SubSeq(answer, 1, n) \o Slice(answer, n, limit)) = n + Len(Slice(answer, n, limit))
          /\ SubSeq(answer, 1, n) \o Slice(answer, n, limit)
                = SubSeq(answer, 1, n + Len(Slice(answer, n, limit)))
          /\ n + Len(Slice(answer, n, limit))
                = IF n + limit < Len(answer) THEN n + limit ELSE Len(answer)
      BY <2>3, PageFollows
    <2>7. n + Len(Slice(answer, n, limit)) <= Len(answer)
      BY <2>3, <2>6, SMT
    <2>8. walk'.got = SubSeq(answer, 1, n) \o Slice(answer, n, limit)
      BY <1>5, <2>2, <2>3, <2>5
    <2>9. /\ IsSeq(walk'.got) /\ Len(walk'.got) = n + Len(Slice(answer, n, limit))
          /\ walk'.got = SubSeq(answer, 1, Len(walk'.got)) /\ Len(walk'.got) <= Len(answer)
      BY <2>6, <2>7, <2>8
    <2>10. Answer(walk.ask, walk.mode)' = Answer(walk.ask, walk.mode)
      BY <1>3, <1>5 DEF Answer, Rows
    <2>11. walk'.more <=> Len(walk'.got) < Len(answer)
      BY <1>5, <2>5, <2>9
    <2>12. Answer(walk.ask, walk.mode)' = walk'.first /\ walk'.first = answer
      BY <1>5, <2>1, <2>2, <2>10 DEF Exact
    <2>13. QED
      BY <1>5, <2>3, <2>9, <2>11, <2>12 DEF Exact
  <1>8. QED
    BY <1>1, <1>3, <1>4, <1>5, <1>6, <1>7 DEF IInv

LEMMA InvariantKept == IInv /\ [Next]_vars => IInv'
  <1> SUFFICES ASSUME IInv, [Next]_vars PROVE IInv'
    OBVIOUS
  <1>1. CASE Change
    BY <1>1, ChangeKeeps
  <1>2. CASE Load
    BY <1>2, LoadKeeps
  <1>3. CASE Begin
    BY <1>3, BeginKeeps
  <1>4. CASE NextPage
    BY <1>4, NextPageKeeps
  <1>5. CASE End
    <2>1. /\ walk' = NoWalk /\ dir' = dir /\ loaded' = loaded /\ changes' = changes
          /\ loads' = loads
      BY <1>5 DEF End
    <2>2. /\ DOMAIN walk' = Fields /\ walk'.open = FALSE /\ walk'.more \in BOOLEAN
          /\ walk'.steady \in BOOLEAN
      BY <2>1 DEF NoWalk, Fields
    <2>3. QED
      BY <2>1, <2>2 DEF IInv, Sourced
  <1>6. CASE UNCHANGED vars
    BY <1>6 DEF vars, IInv, Sourced, Exact, Answer, Rows
  <1>7. QED
    BY <1>1, <1>2, <1>3, <1>4, <1>5, <1>6 DEF Next

LEMMA Invariance == Spec => []IInv
  <1>1. Init => IInv
    BY InitEstablishes
  <1>2. IInv /\ [Next]_vars => IInv'
    BY InvariantKept
  <1>3. QED
    BY <1>1, <1>2, PTL DEF Spec
-----------------------------------------------------------------------------
LEMMA TextsOnly == \A v : Deserialize(Serialize(v))[1] \in {"null", "str", "list"}
  <1> TAKE v
  <1>1. Serialize(v) = Null \/ Serialize(v) = Str(v[2])
    BY DEF Serialize
  <1>2. Deserialize(Null)[1] \in {"null", "str", "list"}
    BY SMT DEF Deserialize, Null, List
  <1>3. Deserialize(Str(v[2]))[1] \in {"null", "str", "list"}
    BY SMT DEF Deserialize, Str, List
  <1>4. QED
    BY <1>1, <1>2, <1>3

\* Whatever accounts there are and however often the source changes: what a walk holds stays in
\* form, and SQLite gives back null, texts and lists only.
THEOREM TypeCorrect == Spec => []TypeOK
  <1>1. IInv => TypeOK
    <2> SUFFICES ASSUME IInv PROVE TypeOK
      OBVIOUS
    <2>1. \A s \in Seq(Account) : Len(s) <= Len(FirstDir) + changes => s \in Accounts
      <3> SUFFICES ASSUME NEW s \in Seq(Account), Len(s) <= Len(FirstDir) + changes
                   PROVE  \E n \in 0 .. Len(FirstDir) + MaxChanges : s \in [1 .. n -> Account]
        BY DEF Accounts
      <3>1. Len(s) \in 0 .. Len(FirstDir) + MaxChanges /\ s \in [1 .. Len(s) -> Account]
        BY Constants, SMT DEF IInv
      <3>2. QED
        BY <3>1
    <2>2. dir \in Accounts /\ loaded.dir \in Accounts /\ loaded.shell \in Shells
      BY <2>1 DEF IInv, Sourced
    <2>3. ASSUME NEW i \in DOMAIN loaded.users, NEW c \in DOMAIN loaded.users[i]
          PROVE  loaded.users[i][c][1] \in {"null", "str", "list"}
      <3>1. PICK rows : rows = Users(loaded.dir, loaded.shell)
        OBVIOUS
      <3>2. loaded.users = Loaded("users", rows)
        BY <3>1 DEF IInv, Sourced
      <3>3. "users" \in KNOWN_SECTIONS
        BY SMT DEF KNOWN_SECTIONS
      <3>4. loaded.users = Stored(rows)
        BY <3>2, <3>3 DEF Loaded
      <3>5. loaded.users[i][c] = Deserialize(Serialize(Get(rows[i], c, Null)))
        BY <2>3, <3>4 DEF Stored
      <3>6. QED
        BY <3>5, TextsOnly
    <2>4. QED
      BY <2>2, <2>3 DEF TypeOK, IInv
  <1>2. QED
    BY <1>1, Invariance, PTL

\* For any tool, filters, page size and rows: the pages a client has put together are the beginning
\* of the answer, and has_more says whether there is a rest (query_page, and the tools that cut
\* their rows themselves).
THEOREM WalksAreExact == Spec => []WalkIsExact
  <1>1. IInv => WalkIsExact
    <2> SUFFICES ASSUME IInv, walk.open, walk.steady
                 PROVE  /\ walk.got = Slice(walk.first, 0, Len(walk.got))
                        /\ Len(walk.got) < Len(walk.first) => walk.more
                        /\ walk.more => Len(walk.got) < Len(walk.first) \/ walk.got = <<>>
      BY DEF WalkIsExact
    <2>1. Exact
      BY DEF IInv
    <2>2. Len(walk.got) \in Nat /\ Len(walk.first) \in Nat
      BY <2>1, SeqIsIndexed DEF Exact
    <2>3. Slice(walk.first, 0, Len(walk.got)) = SubSeq(walk.first, 1, Len(walk.got))
      <3>1. /\ 0 + 1 = 1 /\ 0 + Len(walk.got) = Len(walk.got)
            /\ Len(walk.got) < Len(walk.first) \/ Len(walk.got) = Len(walk.first)
        BY <2>1, <2>2, SMT DEF Exact
      <3>2. QED
        BY <3>1 DEF Slice
    <2>4. QED
      BY <2>1, <2>3 DEF Exact
  <1>2. QED
    BY <1>1, Invariance, PTL
-----------------------------------------------------------------------------
\* What the connectors may say of userAccountControl.
UacTexts == {Null, Bool(TRUE), Bool(FALSE), Str("True"), Str("False")}

UacKnown(rows) == \A i \in DOMAIN rows : rows[i].Enabled \in UacTexts

LEMMA UacOfRow ==
    ASSUME NEW account, NEW shell
    PROVE  UserRow(account, shell).Enabled \in {Null, Bool(TRUE), Bool(FALSE)}
  <1>1. UserRow(account, shell).Enabled = UacField(account, "enabled")
    BY DEF UserRow
  <1>2. UacField(account, "enabled") \in {Null, Bool(TRUE), Bool(FALSE)}
    BY DEF UacField, Bool
  <1>3. QED
    BY <1>1, <1>2

LEMMA UacStored ==
    ASSUME NEW v \in {Null, Bool(TRUE), Bool(FALSE)}
    PROVE  Deserialize(Serialize(v)) \in UacTexts
  <1>1. Serialize(v) \in {Null, Str("True"), Str("False")}
    BY SMT DEF Serialize, Null, Bool, Str
  <1>2. \A w \in {Null, Str("True"), Str("False")} : Deserialize(w) = w
    BY SMT DEF Deserialize, Null, Str, ListText
  <1>3. QED
    BY <1>1, <1>2 DEF UacTexts

\* Rows of users have the columns of a user, before and after SQLite.
LEMMA UserColumns ==
    ASSUME NEW account, NEW shell
    PROVE  {"SamAccountName", "Enabled", "LastLogonDate"} \subseteq DOMAIN UserRow(account, shell)
  BY DEF UserRow

LEMMA StoredUsers ==
    ASSUME NEW accounts \in Seq(Account), NEW shell, NEW i \in DOMAIN accounts,
           NEW c \in {"SamAccountName", "Enabled", "LastLogonDate"}
    PROVE  /\ i \in DOMAIN Loaded("users", Users(accounts, shell))
           /\ Loaded("users", Users(accounts, shell))[i][c]
                 = Deserialize(Serialize(UserRow(accounts[i], shell)[c]))
  <1>1. "users" \in KNOWN_SECTIONS
    BY SMT DEF KNOWN_SECTIONS
  <1>2. PICK rows : rows = Users(accounts, shell)
    OBVIOUS
  <1>3. DOMAIN rows = DOMAIN accounts /\ \A j \in DOMAIN accounts : rows[j] = UserRow(accounts[j], shell)
    BY <1>2 DEF Users
  <1>4. 1 \in DOMAIN accounts
    BY SMT
  <1>5. c \in DOMAIN rows[1] /\ c \in DOMAIN rows[i]
    BY <1>3, <1>4, UserColumns
  <1>6. Stored(rows)[i][c] = Deserialize(Serialize(Get(rows[i], c, Null)))
    BY <1>3, <1>5 DEF Stored
  <1>7. Get(rows[i], c, Null) = UserRow(accounts[i], shell)[c]
    BY <1>3, <1>5 DEF Get
  <1>8. DOMAIN Stored(rows) = DOMAIN accounts
    BY <1>3 DEF Stored
  <1>9. QED
    BY <1>1, <1>2, <1>6, <1>7, <1>8 DEF Loaded

LEMMA UsersKnown ==
    ASSUME IInv, NEW mode \in Modes
    PROVE  IsSeq(Rows(mode, "users")) /\ UacKnown(Rows(mode, "users"))
  <1>1. Sourced /\ "users" \in KNOWN_SECTIONS
    BY SMT DEF IInv, KNOWN_SECTIONS
  <1>2. IsSeq(Rows(mode, "users"))
    BY <1>1, RowsAreSeq
  <1>3. UacKnown(Users(dir, "5.1"))
    BY UacOfRow DEF UacKnown, UacTexts, Users
  <1>4. UacKnown(loaded.users)
    <2>1. PICK accounts, shell : accounts = loaded.dir /\ shell = loaded.shell
      OBVIOUS
    <2>2. accounts \in Seq(Account) /\ loaded.users = Loaded("users", Users(accounts, shell))
      BY <1>1, <2>1 DEF Sourced
    <2>3. DOMAIN Loaded("users", Users(accounts, shell)) = DOMAIN accounts
      BY <1>1 DEF Loaded, Stored, Users
    <2>4. ASSUME NEW i \in DOMAIN accounts
          PROVE  Loaded("users", Users(accounts, shell))[i].Enabled \in UacTexts
      <3>1. UserRow(accounts[i], shell).Enabled \in {Null, Bool(TRUE), Bool(FALSE)}
        BY UacOfRow
      <3>2. Loaded("users", Users(accounts, shell))[i]["Enabled"]
               = Deserialize(Serialize(UserRow(accounts[i], shell)["Enabled"]))
        BY <2>2, <2>4, StoredUsers
      <3>3. QED
        BY <3>1, <3>2, UacStored
    <2>5. QED
      BY <2>2, <2>3, <2>4 DEF UacKnown
  <1>5. QED
    BY <1>2, <1>3, <1>4 DEF Rows

LEMMA UacTests ==
    ASSUME NEW v \in UacTexts
    PROVE  /\ is_true(v) \/ is_false(v) \/ v = Null
           /\ ~(is_true(v) /\ is_false(v)) /\ ~(is_true(v) /\ v = Null) /\ ~(is_false(v) /\ v = Null)
  BY SMT DEF UacTexts, is_true, is_false, Null, Bool, Str

LEMMA SummaryOfUac ==
    ASSUME NEW rows
    PROVE  LET summary == get_user_summary(rows)
           IN  /\ summary.total = Len(rows)
               /\ summary.enabled = Cardinality({i \in DOMAIN rows : is_true(rows[i].Enabled)})
               /\ summary.not_enabled = Cardinality({i \in DOMAIN rows : is_false(rows[i].Enabled)})
               /\ summary.uac_unreadable = Cardinality({i \in DOMAIN rows : rows[i].Enabled = Null})
  BY DEF get_user_summary, Count, Kept

LEMMA UacAddsUp ==
    ASSUME NEW rows, IsSeq(rows), UacKnown(rows)
    PROVE  LET summary == get_user_summary(rows)
           IN  summary.enabled + summary.not_enabled + summary.uac_unreadable = summary.total
  <1> DEFINE E == {i \in DOMAIN rows : is_true(rows[i].Enabled)}
             D == {i \in DOMAIN rows : is_false(rows[i].Enabled)}
             U == {i \in DOMAIN rows : rows[i].Enabled = Null}
  <1>1. Len(rows) \in Nat /\ DOMAIN rows = 1 .. Len(rows)
    BY SeqIsIndexed
  <1>2. E \in SUBSET DOMAIN rows /\ D \in SUBSET DOMAIN rows /\ U \in SUBSET DOMAIN rows
    OBVIOUS
  <1>3. /\ (E \cup D) \cup U = DOMAIN rows /\ E \cap D = {} /\ (E \cup D) \cap U = {}
    BY UacTests DEF UacKnown
  <1>4. LET summary == get_user_summary(rows)
        IN  /\ summary.total = Len(rows) /\ summary.enabled = Cardinality(E)
            /\ summary.not_enabled = Cardinality(D) /\ summary.uac_unreadable = Cardinality(U)
    BY SummaryOfUac
  <1> HIDE DEF E, D, U
  <1>5. IsFiniteSet(E) /\ IsFiniteSet(D) /\ IsFiniteSet(U)
    BY <1>2, KeptIsFinite
  <1>6. /\ Cardinality(E) \in Nat /\ Cardinality(D) \in Nat /\ Cardinality(U) \in Nat
        /\ Cardinality({}) = 0
    BY <1>5, FS_CardinalityType, FS_EmptySet
  <1>7. /\ IsFiniteSet(E \cup D)
        /\ Cardinality(E \cup D) = Cardinality(E) + Cardinality(D) - Cardinality(E \cap D)
    BY <1>5, FS_Union
  <1>8. Cardinality((E \cup D) \cup U)
           = Cardinality(E \cup D) + Cardinality(U) - Cardinality((E \cup D) \cap U)
    BY <1>5, <1>7, FS_Union
  <1>9. Cardinality(DOMAIN rows) = Len(rows)
    <2>1. PICK n \in Nat : n = Len(rows)
      BY <1>1
    <2>2. Cardinality(1 .. n) = IF 1 > n THEN 0 ELSE n - 1 + 1
      BY FS_Interval
    <2>3. (IF 1 > n THEN 0 ELSE n - 1 + 1) = n
      BY SMT
    <2>4. QED
      BY <1>1, <2>1, <2>2, <2>3, Zenon
  <1>10. Cardinality(E) + Cardinality(D) + Cardinality(U) = Len(rows)
    <2>1. Cardinality(E \cup D) = Cardinality(E) + Cardinality(D) - 0
      BY <1>3, <1>6, <1>7, Zenon
    <2>2. Len(rows) = Cardinality(E \cup D) + Cardinality(U) - 0
      BY <1>3, <1>6, <1>8, <1>9, Zenon
    <2>3. QED
      BY <1>6, <2>1, <2>2, SMT
  <1>11. QED
    BY <1>4, <1>10

\* For any accounts, live or loaded: no account whose userAccountControl could not be read is
\* counted as enabled or disabled, nor lost (docstring of get_user_summary).
THEOREM UacNumbersAddUp == Spec => []UacPartition
  <1>1. IInv => UacPartition
    <2> SUFFICES ASSUME IInv, NEW mode \in Modes
                 PROVE  LET summary == get_user_summary(Rows(mode, "users"))
                        IN  summary.enabled + summary.not_enabled + summary.uac_unreadable
                              = summary.total
      BY DEF UacPartition
    <2>1. PICK rows : rows = Rows(mode, "users")
      OBVIOUS
    <2>2. IsSeq(rows) /\ UacKnown(rows)
      BY <2>1, UsersKnown
    <2>3. QED
      BY <2>1, <2>2, UacAddsUp
  <1>2. QED
    BY <1>1, Invariance, PTL
-----------------------------------------------------------------------------
\* What the filters of the summary's names ask for.
LEMMA MatchesFacts ==
    \A r : /\ Matches(r, "enabled") <=> is_true(r.Enabled)
           /\ Matches(r, "not_enabled") <=> is_false(r.Enabled)
           /\ Matches(r, "uac_unreadable") <=> r.Enabled = Null
           /\ Matches(r, "password_never_expires") <=> is_true(r.PasswordNeverExpires)
           /\ Matches(r, "password_not_required") <=> is_true(r.PasswordNotRequired)
           /\ Matches(r, "locked_out") <=> is_true(r.LockedOut)
           /\ Matches(r, "delegation_only") <=> Delegated(r)
           /\ Matches(r, "stale_only") <=> IsStale(r)
           /\ Matches(r, "no_last_logon") <=> ~Truthy(r.LastLogonDate)
           /\ Matches(r, "primary_group_not_domain_users")
                 <=> ~PrimaryGroupIsDomainUsers(r.PrimaryGroupID)
           /\ Matches(r, "cannot_change_password") <=> is_true(r.CannotChangePassword)
  <1> TAKE r
  <1>1. Matches(r, "enabled") <=> is_true(r.Enabled)
    BY DEF Matches
  <1>2. Matches(r, "not_enabled") <=> is_false(r.Enabled)
    BY DEF Matches
  <1>3. Matches(r, "uac_unreadable") <=> r.Enabled = Null
    BY DEF Matches
  <1>4. Matches(r, "password_never_expires") <=> is_true(r.PasswordNeverExpires)
    BY DEF Matches
  <1>5. Matches(r, "password_not_required") <=> is_true(r.PasswordNotRequired)
    BY DEF Matches
  <1>6. Matches(r, "locked_out") <=> is_true(r.LockedOut)
    BY DEF Matches
  <1>7. Matches(r, "delegation_only") <=> Delegated(r)
    BY DEF Matches
  <1>8. Matches(r, "stale_only") <=> IsStale(r)
    BY DEF Matches
  <1>9. Matches(r, "no_last_logon") <=> ~Truthy(r.LastLogonDate)
    BY DEF Matches
  <1>10. Matches(r, "primary_group_not_domain_users") <=> ~PrimaryGroupIsDomainUsers(r.PrimaryGroupID)
    BY DEF Matches
  <1>11. Matches(r, "cannot_change_password") <=> is_true(r.CannotChangePassword)
    BY DEF Matches
  <1>12. QED
    BY <1>1, <1>2, <1>3, <1>4, <1>5, <1>6, <1>7, <1>8, <1>9, <1>10, <1>11

\* The positions that one filter keeps.
Matching(rows, f) == {i \in DOMAIN rows : Matches(rows[i], f)}

LEMMA CountsOfSummary ==
    ASSUME NEW rows
    PROVE  LET summary == get_user_summary(rows)
           IN  \A f \in DOMAIN summary \ {"total"} : summary[f] = Cardinality(Matching(rows, f))
  <1> DEFINE summary == get_user_summary(rows)
  <1>1. /\ summary["enabled"] = Cardinality({i \in DOMAIN rows : is_true(rows[i].Enabled)})
        /\ summary["not_enabled"] = Cardinality({i \in DOMAIN rows : is_false(rows[i].Enabled)})
        /\ summary["uac_unreadable"] = Cardinality({i \in DOMAIN rows : rows[i].Enabled = Null})
        /\ summary["password_never_expires"]
              = Cardinality({i \in DOMAIN rows : is_true(rows[i].PasswordNeverExpires)})
        /\ summary["password_not_required"]
              = Cardinality({i \in DOMAIN rows : is_true(rows[i].PasswordNotRequired)})
        /\ summary["locked_out"] = Cardinality({i \in DOMAIN rows : is_true(rows[i].LockedOut)})
        /\ summary["delegation_only"] = Cardinality({i \in DOMAIN rows : Delegated(rows[i])})
        /\ summary["stale_only"] = Cardinality({i \in DOMAIN rows : IsStale(rows[i])})
        /\ summary["no_last_logon"]
              = Cardinality({i \in DOMAIN rows : ~Truthy(rows[i].LastLogonDate)})
        /\ summary["primary_group_not_domain_users"]
              = Cardinality({i \in DOMAIN rows : ~PrimaryGroupIsDomainUsers(rows[i].PrimaryGroupID)})
        /\ summary["cannot_change_password"]
              = Cardinality({i \in DOMAIN rows : is_true(rows[i].CannotChangePassword)})
    BY DEF get_user_summary, Count, Kept
  <1>2. DOMAIN summary \ {"total"} =
            {"enabled", "not_enabled", "uac_unreadable", "password_never_expires",
             "password_not_required", "locked_out", "delegation_only", "stale_only",
             "no_last_logon", "primary_group_not_domain_users", "cannot_change_password"}
    BY DEF get_user_summary
  <1>3. /\ Matching(rows, "enabled") = {i \in DOMAIN rows : is_true(rows[i].Enabled)}
        /\ Matching(rows, "not_enabled") = {i \in DOMAIN rows : is_false(rows[i].Enabled)}
        /\ Matching(rows, "uac_unreadable") = {i \in DOMAIN rows : rows[i].Enabled = Null}
        /\ Matching(rows, "password_never_expires")
              = {i \in DOMAIN rows : is_true(rows[i].PasswordNeverExpires)}
        /\ Matching(rows, "password_not_required")
              = {i \in DOMAIN rows : is_true(rows[i].PasswordNotRequired)}
        /\ Matching(rows, "locked_out") = {i \in DOMAIN rows : is_true(rows[i].LockedOut)}
        /\ Matching(rows, "delegation_only") = {i \in DOMAIN rows : Delegated(rows[i])}
        /\ Matching(rows, "stale_only") = {i \in DOMAIN rows : IsStale(rows[i])}
        /\ Matching(rows, "no_last_logon") = {i \in DOMAIN rows : ~Truthy(rows[i].LastLogonDate)}
        /\ Matching(rows, "primary_group_not_domain_users")
              = {i \in DOMAIN rows : ~PrimaryGroupIsDomainUsers(rows[i].PrimaryGroupID)}
        /\ Matching(rows, "cannot_change_password")
              = {i \in DOMAIN rows : is_true(rows[i].CannotChangePassword)}
    BY MatchesFacts DEF Matching
  <1> HIDE DEF summary
  <1>4. \A f \in DOMAIN summary \ {"total"} : summary[f] = Cardinality(Matching(rows, f))
    BY <1>1, <1>2, <1>3
  <1>5. QED
    BY <1>4 DEF summary

LEMMA ListOfFilter ==
    ASSUME NEW rows, IsSeq(rows), NEW f
    PROVE  Len(get_users(rows, {f})) = Cardinality(Matching(rows, f))
  <1>1. {i \in DOMAIN rows : \A g \in {f} : Matches(rows[i], g)} = Matching(rows, f)
    BY DEF Matching
  <1>2. QED
    BY <1>1, UsersListed

\* get_computers with the one filter that has a number of the same meaning.
LEMMA ComputersListed ==
    ASSUME NEW rows, IsSeq(rows), NEW f \in {"enabled", "not_enabled"}
    PROVE  get_computer_summary(rows)[f] = Len(get_computers(rows, {f}))
  <1> DEFINE kept == {i \in DOMAIN rows : \A g \in {f} :
                        CASE g = "enabled" -> is_true(rows[i].Enabled)
                          [] g = "not_enabled" -> ~is_true(rows[i].Enabled)
                          [] g = "stale_only" -> IsStale(rows[i])
                          [] g = "delegation_only" -> Delegated(rows[i])}
  <1>1. kept \in SUBSET DOMAIN rows
    OBVIOUS
  <1>2. get_computers(rows, {f})
          = [k \in 1 .. Cardinality(kept) |->
                rows[CHOOSE i \in kept : Cardinality({j \in kept : j <= i}) = k]]
    BY DEF get_computers, Filtered, Kept
  <1>3. kept = IF f = "enabled" THEN {i \in DOMAIN rows : is_true(rows[i].Enabled)}
               ELSE {i \in DOMAIN rows : ~is_true(rows[i].Enabled)}
    <2>1. CASE f = "enabled"
      BY <2>1
    <2>2. CASE f = "not_enabled"
      BY <2>2
    <2>3. QED
      BY <2>1, <2>2
  <1>4. get_computer_summary(rows)[f]
          = IF f = "enabled" THEN Cardinality({i \in DOMAIN rows : is_true(rows[i].Enabled)})
            ELSE Cardinality({i \in DOMAIN rows : ~is_true(rows[i].Enabled)})
    BY DEF get_computer_summary, Count, Kept
  <1>5. PICK t : t = get_computers(rows, {f})
    OBVIOUS
  <1>6. /\ DOMAIN t = 1 .. Cardinality(kept)
        /\ t = [k \in 1 .. Cardinality(kept) |-> t[k]]
    BY <1>2, <1>5
  <1> HIDE DEF kept
  <1>7. Len(t) = Cardinality(kept)
    BY <1>1, <1>6, FilteredIsSeq
  <1>8. QED
    BY <1>3, <1>4, <1>5, <1>7

\* get_computers lists as stale those that get_computer_summary counts, and those whose date does not
\* parse.
LEMMA StaleComputersListed ==
    ASSUME NEW rows, IsSeq(rows)
    PROVE  Len(get_computers(rows, {"stale_only"}))
              = get_computer_summary(rows).stale_90d + Count(rows, DateUnread)
  <1> DEFINE kept == {i \in DOMAIN rows : \A g \in {"stale_only"} :
                        CASE g = "enabled" -> is_true(rows[i].Enabled)
                          [] g = "not_enabled" -> ~is_true(rows[i].Enabled)
                          [] g = "stale_only" -> IsStale(rows[i])
                          [] g = "delegation_only" -> Delegated(rows[i])}
             counted == {i \in DOMAIN rows : CountsStale(rows[i])}
             unread == {i \in DOMAIN rows : DateUnread(rows[i])}
  <1>1. kept \in SUBSET DOMAIN rows
    OBVIOUS
  <1>2. get_computers(rows, {"stale_only"})
          = [k \in 1 .. Cardinality(kept) |->
                rows[CHOOSE i \in kept : Cardinality({j \in kept : j <= i}) = k]]
    BY DEF get_computers, Filtered, Kept
  <1>3. kept = {i \in DOMAIN rows : IsStale(rows[i])}
    OBVIOUS
  <1>4. /\ get_computer_summary(rows).stale_90d = Cardinality(counted)
        /\ Count(rows, DateUnread) = Cardinality(unread)
    BY DEF get_computer_summary, Count, Kept
  <1>5. /\ kept = counted \cup unread /\ counted \cap unread = {}
        /\ counted \in SUBSET DOMAIN rows /\ unread \in SUBSET DOMAIN rows
    <2>1. \A i \in DOMAIN rows : /\ IsStale(rows[i]) <=> CountsStale(rows[i]) \/ DateUnread(rows[i])
                                 /\ ~(CountsStale(rows[i]) /\ DateUnread(rows[i]))
      BY DEF IsStale, CountsStale, DateUnread
    <2>2. QED
      BY <1>3, <2>1
  <1>6. PICK t : t = get_computers(rows, {"stale_only"})
    OBVIOUS
  <1>7. /\ DOMAIN t = 1 .. Cardinality(kept)
        /\ t = [k \in 1 .. Cardinality(kept) |-> t[k]]
    BY <1>2, <1>6
  <1> HIDE DEF kept, counted, unread
  <1>8. Len(t) = Cardinality(kept)
    BY <1>1, <1>7, FilteredIsSeq
  <1>9. Cardinality(kept) = Cardinality(counted) + Cardinality(unread)
    <2>1. IsFiniteSet(counted) /\ IsFiniteSet(unread)
      BY <1>5, KeptIsFinite
    <2>2. Cardinality(counted \cup unread)
             = Cardinality(counted) + Cardinality(unread) - Cardinality(counted \cap unread)
      BY <2>1, FS_Union
    <2>3. Cardinality(counted \cap unread) = 0
      BY <1>5, FS_EmptySet
    <2>4. Cardinality(counted) \in Nat /\ Cardinality(unread) \in Nat
      BY <2>1, FS_CardinalityType
    <2>5. PICK n, m \in Nat : n = Cardinality(counted) /\ m = Cardinality(unread)
      BY <2>4
    <2>6. n + m - 0 = n + m
      BY SMT
    <2>7. QED
      BY <1>5, <2>2, <2>3, <2>5, <2>6
  <1>10. QED
    BY <1>4, <1>6, <1>8, <1>9

\* For any accounts and computers, live or loaded: each number of get_user_summary but the total, and
\* enabled and disabled of get_computer_summary, is the length of the list that the filter of the same
\* meaning gives; the list of stale computers is longer than stale_90d by those whose date does not
\* parse.
THEOREM SummariesMatchLists == Spec => []SummaryMatchesLists
  <1>1. IInv => SummaryMatchesLists
    <2> SUFFICES ASSUME IInv, NEW mode \in Modes
                 PROVE  LET users == Rows(mode, "users")
                            summary == get_user_summary(users)
                            computers == Rows(mode, "computers")
                            counts == get_computer_summary(computers)
                        IN  /\ \A f \in DOMAIN summary \ {"total"} :
                                  summary[f] = Len(get_users(users, {f}))
                            /\ \A f \in {"enabled", "not_enabled"} :
                                  counts[f] = Len(get_computers(computers, {f}))
                            /\ Len(get_computers(computers, {"stale_only"}))
                                  = counts.stale_90d + Count(computers, DateUnread)
      BY DEF SummaryMatchesLists
    <2>1. PICK users, computers : users = Rows(mode, "users") /\ computers = Rows(mode, "computers")
      OBVIOUS
    <2>2. "computers" \in KNOWN_SECTIONS
      BY SMT DEF KNOWN_SECTIONS
    <2>3. IsSeq(users) /\ IsSeq(computers)
      BY <2>1, <2>2, UsersKnown, RowsAreSeq DEF IInv
    <2>4. \A f \in DOMAIN get_user_summary(users) \ {"total"} :
             get_user_summary(users)[f] = Cardinality(Matching(users, f))
      BY CountsOfSummary
    <2>5. \A f : Len(get_users(users, {f})) = Cardinality(Matching(users, f))
      BY <2>3, ListOfFilter
    <2>6. \A f \in {"enabled", "not_enabled"} :
             get_computer_summary(computers)[f] = Len(get_computers(computers, {f}))
      BY <2>3, ComputersListed
    <2>7. Len(get_computers(computers, {"stale_only"}))
             = get_computer_summary(computers).stale_90d + Count(computers, DateUnread)
      BY <2>3, StaleComputersListed
    <2>8. QED
      BY <2>1, <2>4, <2>5, <2>6, <2>7
  <1>2. QED
    BY <1>1, Invariance, PTL
-----------------------------------------------------------------------------
\* A position that a filter keeps is the one chosen for its number among those kept.
LEMMA EachIsChosen ==
    ASSUME NEW rows, IsSeq(rows), NEW kept \in SUBSET DOMAIN rows, NEW i \in kept
    PROVE  \E k \in 1 .. Cardinality(kept) :
              i = CHOOSE h \in kept : Cardinality({j \in kept : j <= h}) = k
  <1> DEFINE upTo(h) == {j \in kept : j <= h}
             k == Cardinality(upTo(i))
  <1>1. /\ IsFiniteSet(kept) /\ Cardinality(kept) \in Nat /\ kept \subseteq Nat
    <2>1. Len(rows) \in Nat /\ DOMAIN rows = 1 .. Len(rows)
      BY SeqIsIndexed
    <2>2. kept \subseteq Nat
      BY <2>1, SMT
    <2>3. QED
      BY <2>2, KeptIsFinite
  <1>2. \A h : upTo(h) \subseteq kept
    OBVIOUS
  <1>3. \A h : /\ IsFiniteSet(upTo(h)) /\ Cardinality(upTo(h)) \in Nat
               /\ Cardinality(upTo(h)) <= Cardinality(kept)
    <2> TAKE h
    <2> HIDE DEF upTo
    <2>1. upTo(h) \subseteq kept
      BY <1>2
    <2>2. QED
      BY <1>1, <2>1, FS_Subset, FS_CardinalityType
  <1>4. k \in 1 .. Cardinality(kept)
    <2>1. i \in upTo(i)
      BY <1>1, SMT
    <2>2. Cardinality(upTo(i)) # 0
      <3> HIDE DEF upTo
      <3>1. QED
        BY <1>3, <2>1, FS_EmptySet
    <2> HIDE DEF upTo
    <2>3. QED
      BY <1>1, <1>3, <2>2, SMT
  <1>5. ASSUME NEW g \in kept, NEW h \in kept, g < h
        PROVE  Cardinality(upTo(g)) < Cardinality(upTo(h))
    <2>1. upTo(g) \subseteq upTo(h) /\ h \in upTo(h) /\ h \notin upTo(g)
      BY <1>1, <1>5, SMT
    <2> HIDE DEF upTo
    <2>2. QED
      BY <1>3, <2>1, FS_Subset
  <1>6. \A h \in kept : Cardinality(upTo(h)) = k => h = i
    <2> SUFFICES ASSUME NEW h \in kept, Cardinality(upTo(h)) = k, h # i PROVE FALSE
      OBVIOUS
    <2>1. h < i \/ i < h
      BY <1>1, SMT
    <2>2. Cardinality(upTo(h)) < k \/ k < Cardinality(upTo(h))
      BY <1>5, <2>1
    <2> HIDE DEF upTo
    <2>3. QED
      BY <1>3, <2>2, SMT
  <1>7. i = CHOOSE h \in kept : Cardinality({j \in kept : j <= h}) = k
    <2>1. Cardinality({j \in kept : j <= i}) = k
      OBVIOUS
    <2>2. \A h \in kept : Cardinality({j \in kept : j <= h}) = k => h = i
      BY <1>6
    <2>3. PICK n : n = k
      OBVIOUS
    <2>4. Cardinality({j \in kept : j <= i}) = n
          /\ \A h \in kept : Cardinality({j \in kept : j <= h}) = n => h = i
      BY <2>1, <2>2, <2>3
    <2>5. i = CHOOSE h \in kept : Cardinality({j \in kept : j <= h}) = n
      BY <2>4
    <2>6. QED
      BY <2>3, <2>5
  <1>8. QED
    BY <1>4, <1>7

LEMMA MatchIsFound ==
    ASSUME NEW rows, IsSeq(rows), NEW f, NEW i \in DOMAIN rows, Matches(rows[i], f)
    PROVE  \E k \in DOMAIN get_users(rows, {f}) : get_users(rows, {f})[k] = rows[i]
  <1> DEFINE kept == {h \in DOMAIN rows : \A g \in {f} : Matches(rows[h], g)}
  <1>1. kept \in SUBSET DOMAIN rows /\ i \in kept
    OBVIOUS
  <1>2. get_users(rows, {f})
          = [k \in 1 .. Cardinality(kept) |->
                rows[CHOOSE h \in kept : Cardinality({j \in kept : j <= h}) = k]]
    BY DEF get_users, Filtered, Kept
  <1> HIDE DEF kept
  <1>3. PICK K : K = kept
    OBVIOUS
  <1>4. K \in SUBSET DOMAIN rows /\ i \in K
    BY <1>1, <1>3
  <1>5. PICK k \in 1 .. Cardinality(K) : i = CHOOSE h \in K : Cardinality({j \in K : j <= h}) = k
    BY <1>4, EachIsChosen
  <1>6. get_users(rows, {f})
          = [n \in 1 .. Cardinality(K) |->
                rows[CHOOSE h \in K : Cardinality({j \in K : j <= h}) = n]]
    BY <1>2, <1>3
  <1>7. QED
    BY <1>5, <1>6

LEMMA StaleDates ==
    \A row : row.LastLogonDate \in {Null, Str("/Date(old)/"), Str("old")} => IsStale(row)
  <1>1. ~Truthy(Null)
    BY DEF Truthy
  <1>2. \A t : Str(t)[2] = t
    BY SMT DEF Str
  <1>3. ~Parses(Str("/Date(old)/")) /\ Over90Days(Str("old"))
    BY <1>2 DEF Parses, Over90Days
  <1>4. QED
    BY <1>1, <1>3 DEF IsStale

LEMMA DatesOfStale ==
    ASSUME NEW account \in Account, account.logon # "recent", NEW shell \in Shells
    PROVE  /\ UserRow(account, shell)["LastLogonDate"] \in {Null, Str("/Date(old)/"), Str("old")}
           /\ UserRow(account, shell)["SamAccountName"] = Str(account.name)
  <1>1. account.logon \in {"never", "old"}
    BY QueryAssumption
  <1>2. JsonDate(account.logon, shell) \in {Null, Str("/Date(old)/"), Str("old")}
    BY <1>1 DEF JsonDate, Shells
  <1>3. QED
    BY <1>2 DEF UserRow

LEMMA TextsSurvive ==
    /\ \A v \in {Null, Str("/Date(old)/"), Str("old")} : Deserialize(Serialize(v)) = v
    /\ \A t : t \notin ListText => Deserialize(Serialize(Str(t))) = Str(t)
  <1>1. \A t : Serialize(Str(t)) = Str(t)
    BY SMT DEF Serialize, Str, Null
  <1>2. \A t : t \notin ListText => Deserialize(Str(t)) = Str(t)
    BY SMT DEF Deserialize, Str
  <1>3. Deserialize(Serialize(Null)) = Null
    <2>1. Serialize(Null) = Null
      BY DEF Serialize
    <2>2. Deserialize(Null) = Null
      BY SMT DEF Deserialize, Null
    <2>3. QED
      BY <2>1, <2>2
  <1>4. "/Date(old)/" \notin ListText /\ "old" \notin ListText
    BY SMT DEF ListText
  <1>5. QED
    BY <1>1, <1>2, <1>3, <1>4

\* For any accounts, live or loaded from either shell: an account that has not logged on for 90
\* days, or ever, is never missing from get_users(stale_only=True).
THEOREM StaleAlwaysFound == Spec => []StaleIsFound
  <1>1. IInv => StaleIsFound
    <2> SUFFICES ASSUME IInv, NEW mode \in Modes,
                        NEW i \in DOMAIN (IF mode = "live" THEN dir ELSE loaded.dir),
                        (IF mode = "live" THEN dir ELSE loaded.dir)[i].logon # "recent"
                 PROVE  \E k \in DOMAIN get_users(Rows(mode, "users"), {"stale_only"}) :
                            get_users(Rows(mode, "users"), {"stale_only"})[k].SamAccountName
                              = Str((IF mode = "live" THEN dir ELSE loaded.dir)[i].name)
      BY DEF StaleIsFound
    <2>1. PICK accounts, shell, rows :
             /\ accounts = IF mode = "live" THEN dir ELSE loaded.dir
             /\ shell = IF mode = "live" THEN "5.1" ELSE loaded.shell
             /\ rows = Rows(mode, "users")
      OBVIOUS
    <2>2. /\ accounts \in Seq(Account) /\ shell \in Shells
          /\ i \in DOMAIN accounts /\ accounts[i].logon # "recent" /\ IsSeq(rows)
      BY <2>1, UsersKnown DEF IInv, Sourced, Shells
    <2>3. accounts[i] \in Account
      BY <2>2, SMT
    <2>4. PICK account : account = accounts[i]
      OBVIOUS
    <2>5. /\ account \in Account /\ account.logon # "recent" /\ account.name \notin ListText
      BY <2>2, <2>3, <2>4, QueryAssumption
    <2>6. /\ UserRow(account, shell)["LastLogonDate"] \in {Null, Str("/Date(old)/"), Str("old")}
          /\ UserRow(account, shell)["SamAccountName"] = Str(account.name)
      BY <2>2, <2>5, DatesOfStale
    <2>7. /\ i \in DOMAIN rows /\ rows[i]["SamAccountName"] = Str(account.name)
          /\ rows[i]["LastLogonDate"] \in {Null, Str("/Date(old)/"), Str("old")}
      <3>1. CASE mode = "live"
        <4>1. rows = Users(accounts, shell)
          BY <2>1, <3>1 DEF Rows
        <4>2. QED
          BY <2>2, <2>4, <2>6, <4>1 DEF Users
      <3>2. CASE mode # "live"
        <4>1. rows = Loaded("users", Users(accounts, shell))
          BY <2>1, <3>2 DEF Rows, IInv, Sourced
        <4>2. /\ i \in DOMAIN rows
              /\ rows[i]["SamAccountName"]
                    = Deserialize(Serialize(UserRow(account, shell)["SamAccountName"]))
              /\ rows[i]["LastLogonDate"]
                    = Deserialize(Serialize(UserRow(account, shell)["LastLogonDate"]))
          BY <2>2, <2>4, <4>1, StoredUsers
        <4>3. QED
          BY <2>5, <2>6, <4>2, TextsSurvive
      <3>3. QED
        BY <3>1, <3>2
    <2>8. Matches(rows[i], "stale_only")
      BY <2>7, StaleDates, MatchesFacts
    <2>9. \E k \in DOMAIN get_users(rows, {"stale_only"}) :
             get_users(rows, {"stale_only"})[k] = rows[i]
      BY <2>2, <2>7, <2>8, MatchIsFound
    <2>10. QED
      BY <2>1, <2>4, <2>7, <2>9
  <1>2. QED
    BY <1>1, Invariance, PTL
-----------------------------------------------------------------------------
(***************************************************************************)
(* That Live Mode and Offline Mode answer alike.  A filter that keeps the  *)
(* same positions of both gives the same records, and what SQLite gives    *)
(* back of a value passes the same tests as the value.                     *)
(***************************************************************************)
Through(v) == Deserialize(Serialize(v))

\* The record a row is about.
NameOf(row) == row[IF "SamAccountName" \in DOMAIN row THEN "SamAccountName" ELSE "Id"][2]

\* As many numbers as positions kept: each number is that of a position.
LEMMA EachNumberChooses ==
    ASSUME NEW rows, IsSeq(rows), NEW kept \in SUBSET DOMAIN rows,
           NEW k \in 1 .. Cardinality(kept)
    PROVE  (CHOOSE i \in kept : Cardinality({j \in kept : j <= i}) = k) \in kept
  <1> DEFINE upTo(h) == {j \in kept : j <= h}
             n == Cardinality(kept)
             place == [h \in kept |-> Cardinality(upTo(h))]
  <1>1. /\ IsFiniteSet(kept) /\ n \in Nat /\ kept \subseteq Nat
    <2>1. Len(rows) \in Nat /\ DOMAIN rows = 1 .. Len(rows)
      BY SeqIsIndexed
    <2>2. kept \subseteq Nat
      BY <2>1, SMT
    <2>3. QED
      BY <2>2, KeptIsFinite
  <1>2. \A h \in kept : /\ IsFiniteSet(upTo(h)) /\ Cardinality(upTo(h)) \in Nat
                        /\ Cardinality(upTo(h)) <= n /\ Cardinality(upTo(h)) # 0
    <2> TAKE h \in kept
    <2>1. upTo(h) \subseteq kept /\ h \in upTo(h)
      BY <1>1, SMT
    <2> HIDE DEF upTo
    <2>2. IsFiniteSet(upTo(h)) /\ Cardinality(upTo(h)) \in Nat /\ Cardinality(upTo(h)) <= n
      BY <1>1, <2>1, FS_Subset, FS_CardinalityType
    <2>3. QED
      BY <2>1, <2>2, FS_EmptySet
  <1>3. ASSUME NEW g \in kept, NEW h \in kept, g < h
        PROVE  Cardinality(upTo(g)) < Cardinality(upTo(h))
    <2>1. upTo(g) \subseteq upTo(h) /\ h \in upTo(h) /\ h \notin upTo(g)
      BY <1>1, <1>3, SMT
    <2> HIDE DEF upTo
    <2>2. QED
      BY <1>2, <2>1, FS_Subset
  <1>4. place \in [kept -> 1 .. n]
    <2>1. \A h \in kept : Cardinality(upTo(h)) \in 1 .. n
      <3> TAKE h \in kept
      <3> HIDE DEF upTo, n
      <3>1. QED
        BY <1>1, <1>2, SMT
    <2> HIDE DEF upTo, n
    <2>2. QED
      BY <2>1
  <1>5. IsInjective(place)
    <2> SUFFICES ASSUME NEW g \in kept, NEW h \in kept, place[g] = place[h], g # h PROVE FALSE
      BY DEF IsInjective
    <2>1. g < h \/ h < g
      BY <1>1, SMT
    <2>2. Cardinality(upTo(g)) = Cardinality(upTo(h))
      OBVIOUS
    <2>3. Cardinality(upTo(g)) < Cardinality(upTo(h)) \/ Cardinality(upTo(h)) < Cardinality(upTo(g))
      BY <1>3, <2>1
    <2> HIDE DEF upTo
    <2>4. QED
      BY <1>2, <2>2, <2>3, SMT
  <1>6. IsFiniteSet(1 .. n) /\ Cardinality(1 .. n) = n
    <2>1. PICK m \in Nat : m = n
      BY <1>1
    <2>2. IsFiniteSet(1 .. m) /\ Cardinality(1 .. m) = IF 1 > m THEN 0 ELSE m - 1 + 1
      BY FS_Interval
    <2>3. (IF 1 > m THEN 0 ELSE m - 1 + 1) = m
      BY SMT
    <2>4. QED
      BY <2>1, <2>2, <2>3, Zenon
  <1>7. PICK f \in Injection(kept, 1 .. n) : f = place
    BY <1>4, <1>5 DEF Injection
  <1>8. f \in Surjection(kept, 1 .. n)
    BY <1>6, FS_Injection
  <1>9. PICK h \in kept : f[h] = k
    BY <1>8 DEF Surjection
  <1>10. Cardinality({j \in kept : j <= h}) = k
    BY <1>7, <1>9
  <1>11. QED
    BY <1>10

LEMMA SameRecords ==
    ASSUME NEW p, NEW q, DOMAIN p = DOMAIN q, \A k \in DOMAIN p : NameOf(p[k]) = NameOf(q[k])
    PROVE  Names(p) = Names(q)
  <1>1. \A rows : Names(rows) = [i \in DOMAIN rows |-> NameOf(rows[i])]
    BY DEF Names, NameOf
  <1>2. PICK S : S = DOMAIN p
    OBVIOUS
  <1>3. Names(p) = [i \in S |-> NameOf(p[i])] /\ Names(q) = [i \in S |-> NameOf(q[i])]
    BY <1>1, <1>2, Zenon
  <1>4. QED
    BY <1>2, <1>3

\* The position with the number k among those kept.
Chosen(kept, k) == CHOOSE i \in kept : Cardinality({j \in kept : j <= i}) = k

\* Two tables of the same records, and of each the rows at the positions that are kept.
Paired(live, file, kept, p, q) ==
    /\ IsSeq(live) /\ DOMAIN file = DOMAIN live
    /\ \A i \in DOMAIN live : NameOf(file[i]) = NameOf(live[i])
    /\ kept \in SUBSET DOMAIN live
    /\ p = [k \in 1 .. Cardinality(kept) |-> live[Chosen(kept, k)]]
    /\ q = [k \in 1 .. Cardinality(kept) |-> file[Chosen(kept, k)]]

LEMMA SameNames ==
    ASSUME NEW live, NEW file, NEW kept, NEW p, NEW q, Paired(live, file, kept, p, q)
    PROVE  Names(p) = Names(q)
  <1>1. /\ IsSeq(live) /\ kept \in SUBSET DOMAIN live
        /\ \A i \in DOMAIN live : NameOf(file[i]) = NameOf(live[i])
    BY DEF Paired
  <1>2. /\ DOMAIN p = 1 .. Cardinality(kept) /\ DOMAIN q = 1 .. Cardinality(kept)
        /\ \A k \in 1 .. Cardinality(kept) :
              p[k] = live[Chosen(kept, k)] /\ q[k] = file[Chosen(kept, k)]
    BY DEF Paired
  <1>3. \A k \in DOMAIN p : NameOf(p[k]) = NameOf(q[k])
    <2> TAKE k \in DOMAIN p
    <2>1. k \in 1 .. Cardinality(kept)
      BY <1>2
    <2>2. Chosen(kept, k) \in kept
      BY <1>1, <2>1, EachNumberChooses DEF Chosen
    <2>3. QED
      BY <1>1, <1>2, <2>1, <2>2
  <1>4. QED
    BY <1>2, <1>3, SameRecords

LEMMA AnyThrough ==
    ASSUME NEW v
    PROVE  /\ Through(v)[2] = v[2]
           /\ Through(v) = Null <=> v = Null
           /\ Through(v)[1] # "bool"
           /\ is_admin_count_set(Through(v)) <=> is_admin_count_set(v)
  <1>1. Serialize(v) = IF v = Null THEN Null ELSE Str(v[2])
    BY DEF Serialize
  <1>2. \A t : /\ Str(t)[1] = "str" /\ Str(t)[2] = t /\ List(t)[2] = t /\ List(t)[1] = "list"
    BY SMT DEF Str, List
  <1>3. Null[1] = "null" /\ Null[2] = "None"
    BY SMT DEF Null
  <1>4. Deserialize(Null) = Null
    BY <1>3 DEF Deserialize
  <1>5. \A t : Deserialize(Str(t)) = Str(t) \/ Deserialize(Str(t)) = List(t)
    BY <1>2 DEF Deserialize
  <1>6. CASE v = Null
    BY <1>1, <1>3, <1>4, <1>6 DEF Through
  <1>7. CASE v # Null
    <2>1. Through(v) = Str(v[2]) \/ Through(v) = List(v[2])
      BY <1>1, <1>5, <1>7 DEF Through
    <2>2. Through(v)[1] \in {"str", "list"} /\ Through(v)[2] = v[2]
      BY <1>2, <2>1
    <2>3. Through(v) # Null
      BY <1>3, <2>2
    <2>4. QED
      BY <1>7, <2>2, <2>3 DEF is_admin_count_set
  <1>8. is_admin_count_set(Through(v)) <=> is_admin_count_set(v)
    BY <1>6, <1>7 DEF is_admin_count_set
  <1>9. QED
    BY <1>6, <1>7, <1>8

LEMMA JsonKinds ==
    ASSUME NEW v, JsonValue(v)
    PROVE  \/ v = Null \/ v = Bool(TRUE) \/ v = Bool(FALSE)
           \/ \E t : t \notin ListText /\ (v = Number(t) \/ v = Str(t))
           \/ \E t \in ListText : v = List(t)
  BY DEF JsonValue

\* What comes back of each kind of value.
LEMMA ThroughKinds ==
    /\ Through(Null) = Null /\ Through(Bool(TRUE)) = Str("True")
    /\ Through(Bool(FALSE)) = Str("False")
    /\ \A t : t \notin ListText => Through(Number(t)) = Str(t) /\ Through(Str(t)) = Str(t)
    /\ \A t \in ListText : Through(List(t)) = List(t)
  <1>1. \A t : /\ Str(t)[1] = "str" /\ Str(t)[2] = t /\ List(t)[1] = "list" /\ List(t)[2] = t
               /\ Number(t)[1] = "int" /\ Number(t)[2] = t
    BY SMT DEF Str, List, Number
  <1>2. /\ Bool(TRUE)[1] = "bool" /\ Bool(TRUE)[2] = "True"
        /\ Bool(FALSE)[1] = "bool" /\ Bool(FALSE)[2] = "False" /\ Null[1] = "null"
    BY SMT DEF Bool, Null
  <1>3. "True" \notin ListText /\ "False" \notin ListText
    BY SMT DEF ListText
  <1>4. \A v : v[1] # "null" => Serialize(v) = Str(v[2])
    BY <1>2 DEF Serialize
  <1>5. /\ \A t : t \notin ListText => Deserialize(Str(t)) = Str(t)
        /\ \A t \in ListText : Deserialize(Str(t)) = List(t)
        /\ Deserialize(Null) = Null /\ Serialize(Null) = Null
    BY <1>1, <1>2 DEF Deserialize, Serialize
  <1>6. Through(Null) = Null
    BY <1>5 DEF Through
  <1>7. Through(Bool(TRUE)) = Str("True") /\ Through(Bool(FALSE)) = Str("False")
    BY <1>2, <1>3, <1>4, <1>5 DEF Through
  <1>8. ASSUME NEW t, t \notin ListText
        PROVE  Through(Number(t)) = Str(t) /\ Through(Str(t)) = Str(t)
    BY <1>1, <1>4, <1>5, <1>8 DEF Through
  <1>9. ASSUME NEW t \in ListText
        PROVE  Through(List(t)) = List(t)
    BY <1>1, <1>4, <1>5 DEF Through
  <1>10. QED
    BY <1>6, <1>7, <1>8, <1>9

\* The tests of _normalize.py and of the tools say the same of a value and of what comes back of it.
LEMMA JsonThrough ==
    ASSUME NEW v, JsonValue(v)
    PROVE  /\ is_true(Through(v)) <=> is_true(v)
           /\ is_false(Through(v)) <=> is_false(v)
           /\ PrimaryGroupIsDomainUsers(Through(v)) <=> PrimaryGroupIsDomainUsers(v)
  <1>1. /\ is_true(Null) = is_true(Null) /\ is_true(Bool(TRUE)) /\ ~is_true(Bool(FALSE))
        /\ is_false(Bool(FALSE)) /\ ~is_false(Bool(TRUE))
        /\ is_true(Str("True")) /\ ~is_true(Str("False"))
        /\ is_false(Str("False")) /\ ~is_false(Str("True"))
    BY SMT DEF is_true, is_false, Null, Bool, Str
  <1>2. \A t : (is_true(Number(t)) <=> is_true(Str(t))) /\ (is_false(Number(t)) <=> is_false(Str(t)))
    BY SMT DEF is_true, is_false, Number, Str
  <1>3. /\ ~PrimaryGroupIsDomainUsers(Bool(TRUE)) /\ ~PrimaryGroupIsDomainUsers(Bool(FALSE))
        /\ ~PrimaryGroupIsDomainUsers(Str("True")) /\ ~PrimaryGroupIsDomainUsers(Str("False"))
    BY SMT DEF PrimaryGroupIsDomainUsers, Bool, Str, Null, Number, List
  <1>4. \A t : PrimaryGroupIsDomainUsers(Number(t)) <=> PrimaryGroupIsDomainUsers(Str(t))
    BY SMT DEF PrimaryGroupIsDomainUsers, Str, Null, Number, List
  <1>5. CASE v = Null
    BY <1>5, ThroughKinds
  <1>6. CASE v = Bool(TRUE) \/ v = Bool(FALSE)
    BY <1>1, <1>3, <1>6, ThroughKinds
  <1>7. ASSUME NEW t, t \notin ListText, v = Number(t) \/ v = Str(t)
        PROVE  /\ is_true(Through(v)) <=> is_true(v)
               /\ is_false(Through(v)) <=> is_false(v)
               /\ PrimaryGroupIsDomainUsers(Through(v)) <=> PrimaryGroupIsDomainUsers(v)
    BY <1>2, <1>4, <1>7, ThroughKinds
  <1>8. ASSUME NEW t \in ListText, v = List(t)
        PROVE  Through(v) = v
    BY <1>8, ThroughKinds
  <1>9. QED
    BY <1>5, <1>6, <1>7, <1>8, JsonKinds
\* The filters of get_users that the summary has no number for.
LEMMA OtherMatches ==
    \A r : /\ Matches(r, "admin_count") <=> is_admin_count_set(r.AdminCount)
           /\ Matches(r, "not_admin_count") <=> ~is_admin_count_set(r.AdminCount)
           /\ Matches(r, "not_password_never_expires") <=> is_false(r.PasswordNeverExpires)
           /\ Matches(r, "not_password_not_required") <=> is_false(r.PasswordNotRequired)
           /\ Matches(r, "not_locked_out") <=> ~is_true(r.LockedOut)
           /\ Matches(r, "has_sid_history") <=> Truthy(r.SIDHistory)
           /\ Matches(r, "not_has_sid_history") <=> ~Truthy(r.SIDHistory)
  <1> TAKE r
  <1>1. Matches(r, "admin_count") <=> is_admin_count_set(r.AdminCount)
    BY DEF Matches
  <1>2. Matches(r, "not_admin_count") <=> ~is_admin_count_set(r.AdminCount)
    BY DEF Matches
  <1>3. Matches(r, "not_password_never_expires") <=> is_false(r.PasswordNeverExpires)
    BY DEF Matches
  <1>4. Matches(r, "not_password_not_required") <=> is_false(r.PasswordNotRequired)
    BY DEF Matches
  <1>5. Matches(r, "not_locked_out") <=> ~is_true(r.LockedOut)
    BY DEF Matches
  <1>6. Matches(r, "has_sid_history") <=> Truthy(r.SIDHistory)
    BY DEF Matches
  <1>7. Matches(r, "not_has_sid_history") <=> ~Truthy(r.SIDHistory)
    BY DEF Matches
  <1>8. QED
    BY <1>1, <1>2, <1>3, <1>4, <1>5, <1>6, <1>7

\* The fields of a user that are only tested, and those that come back as they are.
TestedFields == {"Enabled", "PasswordNeverExpires", "TrustedForDelegation",
                 "TrustedToAuthForDelegation", "PasswordNotRequired", "LockedOut",
                 "PrimaryGroupID", "CannotChangePassword"}
KeptFields == {"LastLogonDate", "SIDHistory", "AllowedToDelegateTo"}
UserFields == TestedFields \cup KeptFields \cup {"SamAccountName", "AdminCount"}

LEMMA UserFieldsAreAll ==
    ASSUME NEW account, NEW shell
    PROVE  DOMAIN UserRow(account, shell) = UserFields
  BY DEF UserRow, UserFields, TestedFields, KeptFields

LEMMA FieldsAreJson ==
    ASSUME NEW account \in Account
    PROVE  /\ \A c \in TestedFields : JsonValue(UserRow(account, "5.1")[c])
           /\ \A c \in KeptFields : Through(UserRow(account, "5.1")[c]) = UserRow(account, "5.1")[c]
  <1> DEFINE row == UserRow(account, "5.1")
  <1>1. \A flag : UacField(account, flag) \in {Null, Bool(TRUE), Bool(FALSE)}
    <2> TAKE flag
    <2>1. (flag \in account.uac) \in BOOLEAN
      OBVIOUS
    <2>2. \A b \in BOOLEAN : Bool(b) \in {Bool(TRUE), Bool(FALSE)}
      OBVIOUS
    <2>3. QED
      BY <2>1, <2>2 DEF UacField
  <1>2. /\ row["Enabled"] = UacField(account, "enabled")
        /\ row["PasswordNeverExpires"] = UacField(account, "never_expires")
        /\ row["TrustedForDelegation"] = UacField(account, "trusted")
        /\ row["TrustedToAuthForDelegation"] = UacField(account, "trusted_to_auth")
        /\ row["PasswordNotRequired"] = UacField(account, "not_required")
        /\ row["PrimaryGroupID"] = account.pgid
        /\ row["SIDHistory"] = List(account.sids)
        /\ row["AllowedToDelegateTo"] = Str(account.delegate)
        /\ row["LastLogonDate"] = JsonDate(account.logon, "5.1")
    BY DEF UserRow
  <1>3. row["LockedOut"] = Bool(account.locked)
    BY DEF UserRow
  <1>4. row["CannotChangePassword"] \in {Bool(TRUE), Bool(FALSE)}
    <2>1. row["CannotChangePassword"] = Bool(account.cannot = "True")
      BY DEF UserRow
    <2>2. QED
      BY <2>1, Zenon DEF Bool
  <1>5. row["LockedOut"] \in {Bool(TRUE), Bool(FALSE)}
    BY <1>3, QueryAssumption
  <1>6. \A v \in {Null, Bool(TRUE), Bool(FALSE)} : JsonValue(v)
    BY DEF JsonValue
  <1>7. JsonValue(account.pgid) /\ account.sids \in ListText /\ account.delegate \notin ListText
        /\ account.logon \in {"never", "old", "recent"}
    BY QueryAssumption
  <1>8. row["LastLogonDate"] \in {Null, Str("/Date(old)/"), Str("/Date(recent)/")}
    BY <1>2, <1>7 DEF JsonDate
  <1>9. "/Date(old)/" \notin ListText /\ "/Date(recent)/" \notin ListText
    BY SMT DEF ListText
  <1> HIDE DEF row
  <1>10. \A c \in TestedFields : JsonValue(row[c])
    BY <1>1, <1>2, <1>4, <1>5, <1>6, <1>7 DEF TestedFields
  <1>11. Through(row["LastLogonDate"]) = row["LastLogonDate"]
    BY <1>8, <1>9, ThroughKinds
  <1>12. Through(row["SIDHistory"]) = row["SIDHistory"]
    BY <1>2, <1>7, ThroughKinds
  <1>13. Through(row["AllowedToDelegateTo"]) = row["AllowedToDelegateTo"]
    BY <1>2, <1>7, ThroughKinds
  <1>14. QED
    BY <1>10, <1>11, <1>12, <1>13 DEF row, KeptFields

\* A filter takes a user's row if and only if it takes what comes back of it.
LEMMA FilterAlike ==
    ASSUME NEW account \in Account, NEW s,
           \A c \in UserFields : s[c] = Through(UserRow(account, "5.1")[c]),
           NEW f \in UserFilters
    PROVE  Matches(s, f) <=> Matches(UserRow(account, "5.1"), f)
  <1>1. PICK r : r = UserRow(account, "5.1")
    OBVIOUS
  <1>2. /\ \A c \in TestedFields : JsonValue(r[c]) /\ s[c] = Through(r[c])
        /\ \A c \in KeptFields : s[c] = r[c]
        /\ s["AdminCount"] = Through(r["AdminCount"])
    BY <1>1, FieldsAreJson DEF UserFields
  <1>3. \A c \in TestedFields : /\ is_true(s[c]) <=> is_true(r[c])
                                /\ is_false(s[c]) <=> is_false(r[c])
                                /\ s[c] = Null <=> r[c] = Null
                                /\ PrimaryGroupIsDomainUsers(s[c]) <=> PrimaryGroupIsDomainUsers(r[c])
    BY <1>2, JsonThrough, AnyThrough
  <1>4. is_admin_count_set(s.AdminCount) <=> is_admin_count_set(r.AdminCount)
    BY <1>2, AnyThrough
  <1>5. /\ s.LastLogonDate = r.LastLogonDate /\ s.SIDHistory = r.SIDHistory
        /\ s.AllowedToDelegateTo = r.AllowedToDelegateTo
    BY <1>2 DEF KeptFields
  <1>6. /\ is_true(s.Enabled) <=> is_true(r.Enabled)
        /\ is_false(s.Enabled) <=> is_false(r.Enabled)
        /\ s.Enabled = Null <=> r.Enabled = Null
        /\ is_true(s.PasswordNeverExpires) <=> is_true(r.PasswordNeverExpires)
        /\ is_false(s.PasswordNeverExpires) <=> is_false(r.PasswordNeverExpires)
        /\ is_true(s.PasswordNotRequired) <=> is_true(r.PasswordNotRequired)
        /\ is_false(s.PasswordNotRequired) <=> is_false(r.PasswordNotRequired)
        /\ is_true(s.LockedOut) <=> is_true(r.LockedOut)
        /\ is_true(s.CannotChangePassword) <=> is_true(r.CannotChangePassword)
        /\ is_true(s.TrustedForDelegation) <=> is_true(r.TrustedForDelegation)
        /\ is_true(s.TrustedToAuthForDelegation) <=> is_true(r.TrustedToAuthForDelegation)
        /\ PrimaryGroupIsDomainUsers(s.PrimaryGroupID) <=> PrimaryGroupIsDomainUsers(r.PrimaryGroupID)
    BY <1>3 DEF TestedFields
  <1>7. (IsStale(s) <=> IsStale(r)) /\ (Delegated(s) <=> Delegated(r))
    BY <1>5, <1>6 DEF IsStale, Delegated
  <1>8. Matches(s, f) <=> Matches(r, f)
    <2>1. CASE f = "enabled"
      BY <1>6, <2>1, MatchesFacts, OtherMatches
    <2>2. CASE f = "not_enabled"
      BY <1>6, <2>2, MatchesFacts, OtherMatches
    <2>3. CASE f = "uac_unreadable"
      BY <1>6, <2>3, MatchesFacts, OtherMatches
    <2>4. CASE f = "locked_out"
      BY <1>6, <2>4, MatchesFacts, OtherMatches
    <2>5. CASE f = "not_locked_out"
      BY <1>6, <2>5, MatchesFacts, OtherMatches
    <2>6. CASE f = "cannot_change_password"
      BY <1>6, <2>6, MatchesFacts, OtherMatches
    <2>7. CASE f = "admin_count"
      BY <1>4, <2>7, MatchesFacts, OtherMatches
    <2>8. CASE f = "not_admin_count"
      BY <1>4, <2>8, MatchesFacts, OtherMatches
    <2>9. CASE f = "has_sid_history"
      BY <1>5, <2>9, MatchesFacts, OtherMatches
    <2>10. CASE f = "not_has_sid_history"
      BY <1>5, <2>10, MatchesFacts, OtherMatches
    <2>11. CASE f = "stale_only"
      BY <1>7, <2>11, MatchesFacts, OtherMatches
    <2>12. CASE f = "delegation_only"
      BY <1>7, <2>12, MatchesFacts, OtherMatches
    <2>13. CASE f = "no_last_logon"
      BY <1>5, <2>13, MatchesFacts, OtherMatches
    <2>14. CASE f = "primary_group_not_domain_users"
      BY <1>6, <2>14, MatchesFacts, OtherMatches
    <2>15. CASE f = "password_never_expires"
      BY <1>6, <2>15, MatchesFacts, OtherMatches
    <2>16. CASE f = "not_password_never_expires"
      BY <1>6, <2>16, MatchesFacts, OtherMatches
    <2>17. CASE f = "password_not_required"
      BY <1>6, <2>17, MatchesFacts, OtherMatches
    <2>18. CASE f = "not_password_not_required"
      BY <1>6, <2>18, MatchesFacts, OtherMatches
    <2>19. QED
      BY <2>1, <2>2, <2>3, <2>4, <2>5, <2>6, <2>7, <2>8, <2>9, <2>10, <2>11,
         <2>12, <2>13, <2>14, <2>15, <2>16, <2>17, <2>18 DEF UserFilters
  <1>9. QED
    BY <1>1, <1>8

\* The tables that the two modes read, as far as a tool tells them apart.
LEMMA UsersAlike ==
    ASSUME NEW accounts \in Seq(Account), NEW live, NEW file,
           live = Users(accounts, "5.1"), file = Loaded("users", Users(accounts, "5.1"))
    PROVE  /\ IsSeq(live) /\ DOMAIN file = DOMAIN live
           /\ \A i \in DOMAIN live :
                 /\ NameOf(file[i]) = NameOf(live[i])
                 /\ \A f \in UserFilters : Matches(file[i], f) <=> Matches(live[i], f)
  <1>1. DOMAIN live = DOMAIN accounts /\ \A i \in DOMAIN accounts : live[i] = UserRow(accounts[i], "5.1")
    BY DEF Users
  <1>2. "users" \in KNOWN_SECTIONS
    BY SMT DEF KNOWN_SECTIONS
  <1>3. file = Stored(live)
    BY <1>2 DEF Loaded
  <1>4. DOMAIN file = DOMAIN live
    BY <1>3 DEF Stored
  <1>5. ASSUME NEW i \in DOMAIN accounts
        PROVE  /\ accounts[i] \in Account /\ DOMAIN file[i] = UserFields
               /\ \A c \in UserFields : file[i][c] = Through(live[i][c])
    <2>1. accounts[i] \in Account /\ 1 \in DOMAIN accounts
      BY SMT
    <2>2. DOMAIN live[1] = UserFields /\ DOMAIN live[i] = UserFields
      BY <1>1, <2>1, UserFieldsAreAll
    <2>3. file[i] = [c \in DOMAIN live[1] |-> Deserialize(Serialize(Get(live[i], c, Null)))]
      BY <1>1, <1>3 DEF Stored
    <2>4. \A c \in UserFields : file[i][c] = Deserialize(Serialize(Get(live[i], c, Null)))
      BY <2>2, <2>3
    <2>5. \A c \in UserFields : Get(live[i], c, Null) = live[i][c]
      BY <2>2 DEF Get
    <2>6. DOMAIN file[i] = UserFields
      BY <2>2, <2>3
    <2>7. QED
      BY <2>1, <2>4, <2>5, <2>6 DEF Through
  <1>6. ASSUME NEW i \in DOMAIN accounts
        PROVE  NameOf(file[i]) = NameOf(live[i])
    <2>1. "SamAccountName" \in UserFields /\ DOMAIN live[i] = UserFields
      BY <1>1, UserFieldsAreAll DEF UserFields
    <2>2. file[i]["SamAccountName"] = Through(live[i]["SamAccountName"])
      BY <1>5, <2>1
    <2>3. NameOf(file[i]) = file[i]["SamAccountName"][2] /\ NameOf(live[i]) = live[i]["SamAccountName"][2]
      BY <1>5, <2>1 DEF NameOf
    <2>4. QED
      BY <2>2, <2>3, AnyThrough
  <1>7. ASSUME NEW i \in DOMAIN accounts, NEW f \in UserFilters
        PROVE  Matches(file[i], f) <=> Matches(live[i], f)
    <2>1. PICK a \in Account : a = accounts[i]
      BY <1>5
    <2>2. \A c \in UserFields : file[i][c] = Through(UserRow(a, "5.1")[c])
      BY <1>1, <1>5, <2>1
    <2>3. Matches(file[i], f) <=> Matches(UserRow(a, "5.1"), f)
      BY <2>2, FilterAlike
    <2>4. QED
      BY <1>1, <2>1, <2>3
  <1>8. IsSeq(live)
    BY UsersIsSeq
  <1>9. QED
    BY <1>1, <1>4, <1>6, <1>7, <1>8
-----------------------------------------------------------------------------
ComputerFields == {"Enabled", "TrustedForDelegation", "TrustedToAuthForDelegation",
                   "LastLogonDate", "AllowedToDelegateTo"}

\* What the scripts say of the rows of a section: a column that a tool looks up is in the first
\* row, whose columns are those of the table, if it is in any; a record is named by the same
\* column in every row; a row of a computer has the columns of its script, of which the last
\* logon is a date or null and the delegation a list, a text or null.
SectionsInForm ==
    \A section \in DOMAIN Fixed : \A i \in DOMAIN Fixed[section] :
        LET row == Fixed[section][i]
            first == Fixed[section][1]
        IN  /\ \A c \in {"DC", "GroupName", "IsOrphaned"} : c \in DOMAIN row => c \in DOMAIN first
            /\ "IsOrphaned" \in DOMAIN row => JsonValue(row["IsOrphaned"])
            /\ "SamAccountName" \in DOMAIN row <=> "SamAccountName" \in DOMAIN first
            /\ "SamAccountName" \in DOMAIN row \/ "Id" \in DOMAIN row
            /\ section = "computers" =>
                  /\ ComputerFields \subseteq DOMAIN row
                  /\ \A c \in ComputerFields : JsonValue(row[c])
                  /\ \A c \in {"LastLogonDate", "AllowedToDelegateTo"} :
                        row[c][1] \in {"null", "str", "list"}

\* No name that a client asks for is that of a field that is missing or null.
LEMMA NobodyIsNone ==
    ASSUME NEW text \in {"DC1", "dc2", "Staff", "nobody"}
    PROVE  ~SameName("", text) /\ ~SameName("None", text)
  <1>1. /\ DOMAIN Spelt = {"staff", "dc1", "dc2"}
        /\ Spelt["staff"] = {"staff", "Staff"} /\ Spelt["dc1"] = {"dc1", "DC1"}
        /\ Spelt["dc2"] = {"dc2"}
    BY DEF Spelt
  <1>2. /\ "" \notin {"staff", "Staff"} /\ "" \notin {"dc1", "DC1"} /\ "" \notin {"dc2"}
        /\ "None" \notin {"staff", "Staff"} /\ "None" \notin {"dc1", "DC1"} /\ "None" \notin {"dc2"}
    BY Zenon
  <1>3. \A n \in DOMAIN Spelt : "" \notin Spelt[n] /\ "None" \notin Spelt[n]
    BY <1>1, <1>2
  <1>4. QED
    BY <1>3 DEF SameName

\* The text that a table is searched by, and the flag.
TextOf(row, column) == Get(row, column, Str(""))[2]
Orphan(row) == is_true(Get(row, "IsOrphaned", Null))

LEMMA SectionAlike ==
    ASSUME SectionsInForm, NEW section \in DOMAIN Fixed, NEW live, NEW file,
           live = Fixed[section], file = FixedStored[section]
    PROVE  /\ IsSeq(live) /\ DOMAIN file = DOMAIN live
           /\ \A i \in DOMAIN live :
                 /\ NameOf(file[i]) = NameOf(live[i])
                 /\ \A c \in {"DC", "GroupName"}, text \in {"DC1", "dc2", "Staff", "nobody"} :
                       SameName(TextOf(file[i], c), text) <=> SameName(TextOf(live[i], c), text)
                 /\ Orphan(file[i]) <=> Orphan(live[i])
                 /\ section = "computers" =>
                       \A c \in ComputerFields : file[i][c] = Through(live[i][c])
  <1>1. section \in KNOWN_SECTIONS /\ IsSeq(live)
    BY Constants
  <1>2. file = Stored(live)
    BY <1>1 DEF FixedStored, Loaded
  <1>3. DOMAIN file = DOMAIN live
    BY <1>2 DEF Stored
  <1>4. ASSUME NEW i \in DOMAIN live
        PROVE  /\ 1 \in DOMAIN live /\ DOMAIN file[i] = DOMAIN live[1]
               /\ \A c \in DOMAIN live[1] : file[i][c] = Through(Get(live[i], c, Null))
    <2>1. 1 \in DOMAIN live
      BY <1>1, SeqIsIndexed, SMT
    <2>2. file[i] = [c \in DOMAIN live[1] |-> Deserialize(Serialize(Get(live[i], c, Null)))]
      BY <1>2 DEF Stored
    <2>3. QED
      BY <2>1, <2>2 DEF Through
  <1>5. ASSUME NEW i \in DOMAIN live
        PROVE  /\ \A c \in {"DC", "GroupName", "IsOrphaned"} :
                     c \in DOMAIN live[i] => c \in DOMAIN live[1]
               /\ "IsOrphaned" \in DOMAIN live[i] => JsonValue(live[i]["IsOrphaned"])
               /\ "SamAccountName" \in DOMAIN live[i] <=> "SamAccountName" \in DOMAIN live[1]
               /\ "SamAccountName" \in DOMAIN live[i] \/ "Id" \in DOMAIN live[i]
               /\ section = "computers" => ComputerFields \subseteq DOMAIN live[i]
    <2>1. i \in DOMAIN Fixed[section]
      OBVIOUS
    <2> USE <2>1 DEF SectionsInForm
    <2>2. \A c \in {"DC", "GroupName", "IsOrphaned"} : c \in DOMAIN live[i] => c \in DOMAIN live[1]
      OBVIOUS
    <2>3. "IsOrphaned" \in DOMAIN live[i] => JsonValue(live[i]["IsOrphaned"])
      OBVIOUS
    <2>4. /\ "SamAccountName" \in DOMAIN live[i] <=> "SamAccountName" \in DOMAIN live[1]
          /\ "SamAccountName" \in DOMAIN live[i] \/ "Id" \in DOMAIN live[i]
      OBVIOUS
    <2>5. section = "computers" => ComputerFields \subseteq DOMAIN live[i]
      OBVIOUS
    <2>6. QED
      BY <2>2, <2>3, <2>4, <2>5
  <1>6. ASSUME NEW i \in DOMAIN live
        PROVE  NameOf(file[i]) = NameOf(live[i])
    <2>1. CASE "SamAccountName" \in DOMAIN live[i]
      <3>1. "SamAccountName" \in DOMAIN live[1]
        BY <1>5, <2>1
      <3>2. file[i]["SamAccountName"] = Through(live[i]["SamAccountName"])
        BY <1>4, <2>1, <3>1 DEF Get
      <3>3. NameOf(file[i]) = file[i]["SamAccountName"][2] /\ NameOf(live[i]) = live[i]["SamAccountName"][2]
        BY <1>4, <2>1, <3>1 DEF NameOf
      <3>4. QED
        BY <3>2, <3>3, AnyThrough
    <2>2. CASE "SamAccountName" \notin DOMAIN live[i]
      <3>1. /\ "Id" \in DOMAIN live[i] /\ "SamAccountName" \notin DOMAIN live[1]
            /\ "Id" \in DOMAIN live[1]
        BY <1>4, <1>5, <2>2
      <3>2. file[i]["Id"] = Through(live[i]["Id"])
        BY <1>4, <3>1 DEF Get
      <3>3. NameOf(file[i]) = file[i]["Id"][2] /\ NameOf(live[i]) = live[i]["Id"][2]
        BY <1>4, <2>2, <3>1 DEF NameOf
      <3>4. QED
        BY <3>2, <3>3, AnyThrough
    <2>3. QED
      BY <2>1, <2>2
  <1>7. Str("")[2] = "" /\ Null[2] = "None"
    BY SMT DEF Str, Null
  <1>8. ASSUME NEW i \in DOMAIN live, NEW c \in {"DC", "GroupName"},
               NEW text \in {"DC1", "dc2", "Staff", "nobody"}
        PROVE  SameName(TextOf(file[i], c), text) <=> SameName(TextOf(live[i], c), text)
    <2>1. CASE c \in DOMAIN live[i]
      <3>1. c \in DOMAIN live[1]
        BY <1>5, <2>1
      <3>2. file[i][c] = Through(live[i][c]) /\ c \in DOMAIN file[i]
        BY <1>4, <2>1, <3>1 DEF Get
      <3>3. TextOf(file[i], c) = file[i][c][2] /\ TextOf(live[i], c) = live[i][c][2]
        BY <2>1, <3>2 DEF TextOf, Get
      <3>4. QED
        BY <3>2, <3>3, AnyThrough
    <2>2. CASE c \notin DOMAIN live[i]
      <3>1. TextOf(live[i], c) = ""
        BY <1>7, <2>2 DEF TextOf, Get
      <3>2. TextOf(file[i], c) \in {"", "None"}
        <4>1. CASE c \in DOMAIN live[1]
          <5>1. file[i][c] = Through(Null) /\ c \in DOMAIN file[i]
            BY <1>4, <2>2, <4>1 DEF Get
          <5>2. QED
            BY <1>7, <5>1, ThroughKinds DEF TextOf, Get
        <4>2. CASE c \notin DOMAIN live[1]
          BY <1>4, <1>7, <4>2 DEF TextOf, Get
        <4>3. QED
          BY <4>1, <4>2
      <3>3. QED
        BY <3>1, <3>2, NobodyIsNone
    <2>3. QED
      BY <2>1, <2>2
  <1>9. ASSUME NEW i \in DOMAIN live
        PROVE  Orphan(file[i]) <=> Orphan(live[i])
    <2>1. CASE "IsOrphaned" \in DOMAIN live[i]
      <3>1. "IsOrphaned" \in DOMAIN live[1] /\ JsonValue(live[i]["IsOrphaned"])
        BY <1>5, <2>1
      <3>2. /\ Get(file[i], "IsOrphaned", Null) = Through(live[i]["IsOrphaned"])
            /\ Get(live[i], "IsOrphaned", Null) = live[i]["IsOrphaned"]
        BY <1>4, <2>1, <3>1 DEF Get
      <3>3. QED
        BY <3>1, <3>2, JsonThrough DEF Orphan
    <2>2. CASE "IsOrphaned" \notin DOMAIN live[i]
      <3>1. Get(live[i], "IsOrphaned", Null) = Null
        BY <2>2 DEF Get
      <3>2. Get(file[i], "IsOrphaned", Null) = Null
        <4>1. CASE "IsOrphaned" \in DOMAIN live[1]
          BY <1>4, <3>1, <4>1, ThroughKinds DEF Get
        <4>2. CASE "IsOrphaned" \notin DOMAIN live[1]
          BY <1>4, <4>2 DEF Get
        <4>3. QED
          BY <4>1, <4>2
      <3>3. QED
        BY <3>1, <3>2 DEF Orphan
    <2>3. QED
      BY <2>1, <2>2
  <1>10. ASSUME NEW i \in DOMAIN live, section = "computers", NEW c \in ComputerFields
         PROVE  file[i][c] = Through(live[i][c])
    <2>1. c \in DOMAIN live[i] /\ c \in DOMAIN live[1]
      BY <1>4, <1>5, <1>10
    <2>2. QED
      BY <1>4, <2>1 DEF Get
  <1>11. QED
    BY <1>1, <1>3, <1>6, <1>8, <1>9, <1>10
-----------------------------------------------------------------------------
LEMMA UserListsAlike ==
    ASSUME NEW accounts \in Seq(Account), NEW live, NEW file,
           live = Users(accounts, "5.1"), file = Loaded("users", Users(accounts, "5.1")),
           NEW filters \in SUBSET UserFilters
    PROVE  Names(get_users(live, filters)) = Names(get_users(file, filters))
  <1>1. /\ IsSeq(live) /\ DOMAIN file = DOMAIN live
        /\ \A i \in DOMAIN live : NameOf(file[i]) = NameOf(live[i])
        /\ \A i \in DOMAIN live, f \in UserFilters : Matches(file[i], f) <=> Matches(live[i], f)
    BY UsersAlike
  <1> DEFINE kept == {i \in DOMAIN live : \A f \in filters : Matches(live[i], f)}
             keptFile == {i \in DOMAIN file : \A f \in filters : Matches(file[i], f)}
  <1>2. kept \in SUBSET DOMAIN live
    OBVIOUS
  <1>3. keptFile = kept
    BY <1>1
  <1>4. get_users(live, filters)
          = [k \in 1 .. Cardinality(kept) |-> live[Chosen(kept, k)]]
    BY DEF get_users, Filtered, Kept, Chosen
  <1>5. get_users(file, filters)
          = [k \in 1 .. Cardinality(keptFile) |-> file[Chosen(keptFile, k)]]
    BY DEF get_users, Filtered, Kept, Chosen
  <1> HIDE DEF kept, keptFile
  <1>6. PICK K, p, q : K = kept /\ p = get_users(live, filters) /\ q = get_users(file, filters)
    OBVIOUS
  <1>7. /\ p = [k \in 1 .. Cardinality(K) |-> live[Chosen(K, k)]]
        /\ q = [k \in 1 .. Cardinality(K) |-> file[Chosen(K, k)]]
    BY <1>3, <1>4, <1>5, <1>6
  <1>8. Paired(live, file, K, p, q)
    BY <1>1, <1>2, <1>6, <1>7 DEF Paired
  <1>9. QED
    BY <1>6, <1>8, SameNames

LEMMA ColumnsAlike ==
    ASSUME SectionsInForm, NEW section \in DOMAIN Fixed,
           NEW c \in {"DC", "GroupName"}, NEW text \in {"DC1", "dc2", "Staff", "nobody"}
    PROVE  Names(ByColumn(Fixed[section], c, text))
             = Names(ByColumn(FixedStored[section], c, text))
  <1>0. PICK live, file : live = Fixed[section] /\ file = FixedStored[section]
    OBVIOUS
  <1>1. /\ IsSeq(live) /\ DOMAIN file = DOMAIN live
        /\ \A i \in DOMAIN live : NameOf(file[i]) = NameOf(live[i])
        /\ \A i \in DOMAIN live :
              SameName(TextOf(file[i], c), text) <=> SameName(TextOf(live[i], c), text)
    BY <1>0, SectionAlike
  <1> DEFINE kept == {i \in DOMAIN live : SameName(TextOf(live[i], c), text)}
             keptFile == {i \in DOMAIN file : SameName(TextOf(file[i], c), text)}
  <1>2. kept \in SUBSET DOMAIN live
    OBVIOUS
  <1>3. keptFile = kept
    BY <1>1
  <1>4. ByColumn(live, c, text)
          = [k \in 1 .. Cardinality(kept) |-> live[Chosen(kept, k)]]
    BY DEF ByColumn, Filtered, Kept, Chosen, TextOf
  <1>5. ByColumn(file, c, text)
          = [k \in 1 .. Cardinality(keptFile) |-> file[Chosen(keptFile, k)]]
    BY DEF ByColumn, Filtered, Kept, Chosen, TextOf
  <1> HIDE DEF kept, keptFile
  <1>6. PICK K, p, q : K = kept /\ p = ByColumn(live, c, text) /\ q = ByColumn(file, c, text)
    OBVIOUS
  <1>7. /\ p = [k \in 1 .. Cardinality(K) |-> live[Chosen(K, k)]]
        /\ q = [k \in 1 .. Cardinality(K) |-> file[Chosen(K, k)]]
    BY <1>3, <1>4, <1>5, <1>6
  <1>8. Paired(live, file, K, p, q)
    BY <1>1, <1>2, <1>6, <1>7 DEF Paired
  <1>9. QED
    BY <1>0, <1>6, <1>8, SameNames

\* get_fsp, with orphaned_only in what was asked for or not
Orphans(rows, asked) ==
    Filtered(rows, LAMBDA r : asked # {} => is_true(Get(r, "IsOrphaned", Null)))

LEMMA OrphansAlike ==
    ASSUME SectionsInForm, NEW section \in DOMAIN Fixed, NEW asked
    PROVE  Names(Orphans(Fixed[section], asked))
             = Names(Orphans(FixedStored[section], asked))
  <1>0. PICK live, file : live = Fixed[section] /\ file = FixedStored[section]
    OBVIOUS
  <1>1. /\ IsSeq(live) /\ DOMAIN file = DOMAIN live
        /\ \A i \in DOMAIN live : NameOf(file[i]) = NameOf(live[i])
        /\ \A i \in DOMAIN live : Orphan(file[i]) <=> Orphan(live[i])
    BY <1>0, SectionAlike
  <1> DEFINE kept == {i \in DOMAIN live : asked # {} => Orphan(live[i])}
             keptFile == {i \in DOMAIN file : asked # {} => Orphan(file[i])}
  <1>2. kept \in SUBSET DOMAIN live
    OBVIOUS
  <1>3. keptFile = kept
    BY <1>1
  <1>4. Orphans(live, asked)
          = [k \in 1 .. Cardinality(kept) |-> live[Chosen(kept, k)]]
    BY DEF Orphans, Filtered, Kept, Chosen, Orphan
  <1>5. Orphans(file, asked)
          = [k \in 1 .. Cardinality(keptFile) |-> file[Chosen(keptFile, k)]]
    BY DEF Orphans, Filtered, Kept, Chosen, Orphan
  <1> HIDE DEF kept, keptFile
  <1>6. PICK K, p, q : K = kept /\ p = Orphans(live, asked) /\ q = Orphans(file, asked)
    OBVIOUS
  <1>7. /\ p = [k \in 1 .. Cardinality(K) |-> live[Chosen(K, k)]]
        /\ q = [k \in 1 .. Cardinality(K) |-> file[Chosen(K, k)]]
    BY <1>3, <1>4, <1>5, <1>6
  <1>8. Paired(live, file, K, p, q)
    BY <1>1, <1>2, <1>6, <1>7 DEF Paired
  <1>9. QED
    BY <1>0, <1>6, <1>8, SameNames

\* One filter of get_computers
ComputerMatches(row, f) ==
    CASE f = "enabled" -> is_true(row.Enabled)
      [] f = "not_enabled" -> ~is_true(row.Enabled)
      [] f = "stale_only" -> IsStale(row)
      [] f = "delegation_only" -> Delegated(row)

LEMMA ComputersAlike ==
    ASSUME SectionsInForm,
           NEW f \in {"enabled", "not_enabled", "stale_only", "delegation_only"}
    PROVE  Names(get_computers(Fixed["computers"], {f}))
             = Names(get_computers(FixedStored["computers"], {f}))
  <1>0. PICK live, file : live = Fixed["computers"] /\ file = FixedStored["computers"]
    OBVIOUS
  <1>1. "computers" \in DOMAIN Fixed
    BY Constants, Zenon DEF KNOWN_SECTIONS
  <1>2. /\ IsSeq(live) /\ DOMAIN file = DOMAIN live
        /\ \A i \in DOMAIN live : NameOf(file[i]) = NameOf(live[i])
        /\ \A i \in DOMAIN live, c \in ComputerFields : file[i][c] = Through(live[i][c])
    BY <1>0, <1>1, SectionAlike
  <1>3. ASSUME NEW i \in DOMAIN live
        PROVE  ComputerMatches(file[i], f) <=> ComputerMatches(live[i], f)
    <2>1. PICK r, s : r = live[i] /\ s = file[i]
      OBVIOUS
    <2>2. /\ \A c \in ComputerFields : JsonValue(r[c]) /\ s[c] = Through(r[c])
          /\ \A c \in {"LastLogonDate", "AllowedToDelegateTo"} : r[c][1] \in {"null", "str", "list"}
      <3>1. i \in DOMAIN Fixed["computers"] /\ r = Fixed["computers"][i]
        BY <1>0, <2>1
      <3>2. \A c \in ComputerFields : JsonValue(r[c])
        BY <1>1, <3>1 DEF SectionsInForm
      <3>3. \A c \in {"LastLogonDate", "AllowedToDelegateTo"} : r[c][1] \in {"null", "str", "list"}
        BY <1>1, <3>1 DEF SectionsInForm
      <3>4. \A c \in ComputerFields : s[c] = Through(r[c])
        BY <1>2, <2>1
      <3>5. QED
        BY <3>2, <3>3, <3>4
    <2>3. \A c \in ComputerFields : is_true(s[c]) <=> is_true(r[c])
      BY <2>2, JsonThrough
    <2>4. ASSUME NEW v, JsonValue(v), v[1] \in {"null", "str", "list"}
          PROVE  Through(v) = v
      <3>1. \A t : Number(t)[1] = "int"
        BY SMT DEF Number
      <3>2. Bool(TRUE)[1] = "bool" /\ Bool(FALSE)[1] = "bool"
        BY SMT DEF Bool
      <3>3. v # Bool(TRUE) /\ v # Bool(FALSE) /\ \A t : v # Number(t)
        BY <2>4, <3>1, <3>2
      <3>4. QED
        BY <2>4, <3>3, JsonKinds, ThroughKinds
    <2>5. s["LastLogonDate"] = r["LastLogonDate"] /\ s["AllowedToDelegateTo"] = r["AllowedToDelegateTo"]
      BY <2>2, <2>4 DEF ComputerFields
    <2>6. /\ is_true(s.Enabled) <=> is_true(r.Enabled)
          /\ is_true(s.TrustedForDelegation) <=> is_true(r.TrustedForDelegation)
          /\ is_true(s.TrustedToAuthForDelegation) <=> is_true(r.TrustedToAuthForDelegation)
      BY <2>3 DEF ComputerFields
    <2>7. (IsStale(s) <=> IsStale(r)) /\ (Delegated(s) <=> Delegated(r))
      BY <2>5, <2>6 DEF IsStale, Delegated
    <2>8. CASE f = "enabled"
      BY <2>1, <2>6, <2>8 DEF ComputerMatches
    <2>9. CASE f = "not_enabled"
      BY <2>1, <2>6, <2>9 DEF ComputerMatches
    <2>10. CASE f = "stale_only"
      BY <2>1, <2>7, <2>10 DEF ComputerMatches
    <2>11. CASE f = "delegation_only"
      BY <2>1, <2>7, <2>11 DEF ComputerMatches
    <2>12. QED
      BY <2>8, <2>9, <2>10, <2>11
  <1> DEFINE kept == {i \in DOMAIN live : \A g \in {f} : ComputerMatches(live[i], g)}
             keptFile == {i \in DOMAIN file : \A g \in {f} : ComputerMatches(file[i], g)}
  <1>4. kept \in SUBSET DOMAIN live
    OBVIOUS
  <1>5. keptFile = kept
    BY <1>2, <1>3
  <1>6. get_computers(live, {f})
          = [k \in 1 .. Cardinality(kept) |-> live[Chosen(kept, k)]]
    BY DEF get_computers, Filtered, Kept, Chosen, ComputerMatches
  <1>7. get_computers(file, {f})
          = [k \in 1 .. Cardinality(keptFile) |-> file[Chosen(keptFile, k)]]
    BY DEF get_computers, Filtered, Kept, Chosen, ComputerMatches
  <1> HIDE DEF kept, keptFile
  <1>8. PICK K, p, q : K = kept /\ p = get_computers(live, {f}) /\ q = get_computers(file, {f})
    OBVIOUS
  <1>9. /\ p = [k \in 1 .. Cardinality(K) |-> live[Chosen(K, k)]]
        /\ q = [k \in 1 .. Cardinality(K) |-> file[Chosen(K, k)]]
    BY <1>5, <1>6, <1>7, <1>8
  <1>10. Paired(live, file, K, p, q)
    BY <1>2, <1>4, <1>8, <1>9 DEF Paired
  <1>11. QED
    BY <1>0, <1>8, <1>10, SameNames
-----------------------------------------------------------------------------
\* What each ask is about, and how it is answered.
AskKind(ask) ==
    \/ ask[2] \in DOMAIN Fixed /\ \A rows : AnswerOf(rows, ask) = rows
    \/ /\ ask[2] \in DOMAIN Fixed
       /\ \E c \in {"DC", "GroupName"}, text \in {"DC1", "dc2", "Staff", "nobody"} :
             \A rows : AnswerOf(rows, ask) = ByColumn(rows, c, text)
    \/ ask[2] \in DOMAIN Fixed /\ \A rows : AnswerOf(rows, ask) = Orphans(rows, ask[3])
    \/ /\ ask[2] = "users" /\ ask[3] \in SUBSET UserFilters
       /\ \A rows : AnswerOf(rows, ask) = get_users(rows, ask[3])

OwnNames == {"get_users", "get_fsp", "get_group_members"}

LEMMA ToolNames ==
    /\ \A tool \in PlainTools : /\ tool[1] \notin OwnNames /\ <<tool[1], tool[2]>> \notin DcNameTools
                                /\ tool[2] \in DOMAIN Fixed
    /\ \A tool \in DcNameTools : /\ tool[1] \notin OwnNames /\ <<tool[1], tool[2]>> \in DcNameTools
                                 /\ tool[2] \in DOMAIN Fixed
    /\ \A tool \in ListTools : tool[2] \in DOMAIN Fixed
    /\ "fsp" \in DOMAIN Fixed /\ "group_members" \in DOMAIN Fixed
  <1> DEFINE DcNames == {"get_dc_features", "get_dc_services", "get_dc_software",
                         "get_dc_file_locations", "get_dc_network_config"}
  <1>1. DOMAIN Fixed = KNOWN_SECTIONS \ {"users"}
    BY Constants
  <1>2. /\ \A tool \in PlainTools : tool[2] \in KNOWN_SECTIONS \ {"users"}
        /\ \A tool \in DcNameTools : tool[2] \in KNOWN_SECTIONS \ {"users"}
        /\ \A tool \in ListTools : tool[2] \in KNOWN_SECTIONS \ {"users"}
        /\ {"fsp", "group_members"} \subseteq KNOWN_SECTIONS \ {"users"}
    <2>1. \A tool \in PlainTools : tool[2] \in KNOWN_SECTIONS \ {"users"}
      BY SMT DEF PlainTools, UserTools, GroupTools, DcTools, GpoTools, SiteTools, ForestTools,
                 DomainTools, DnsTools, OuTools, PkiTools, FgppTools, TrustTools, SysvolTools,
                 KNOWN_SECTIONS
    <2>2. \A tool \in DcNameTools : tool[2] \in KNOWN_SECTIONS \ {"users"}
      BY SMT DEF DcNameTools, KNOWN_SECTIONS
    <2>3. \A tool \in ListTools : tool[2] \in KNOWN_SECTIONS \ {"users"}
      BY SMT DEF ListTools, ForestLists, DcLists, GroupLists, DnsLists, DomainLists,
                 KNOWN_SECTIONS
    <2>4. {"fsp", "group_members"} \subseteq KNOWN_SECTIONS \ {"users"}
      BY SMT DEF KNOWN_SECTIONS
    <2>5. QED
      BY <2>1, <2>2, <2>3, <2>4
  <1>3. \A tool \in PlainTools : tool[1] \notin OwnNames \cup DcNames
    BY SMT DEF PlainTools, UserTools, GroupTools, DcTools, GpoTools, SiteTools, ForestTools,
               DomainTools, DnsTools, OuTools, PkiTools, FgppTools, TrustTools, SysvolTools,
               OwnNames
  <1>4. \A tool \in DcNameTools : tool[1] \in DcNames /\ tool[1] \notin OwnNames
    BY SMT DEF DcNameTools, OwnNames
  <1>5. \A a, b : <<a, b>>[1] = a /\ <<a, b>>[2] = b
    BY SMT
  <1>6. \A tool \in PlainTools : <<tool[1], tool[2]>> \notin DcNameTools
    <2> HIDE DEF DcNames
    <2>1. QED
      BY <1>3, <1>4, <1>5
  <1>7. ASSUME NEW tool \in DcNameTools
        PROVE  <<tool[1], tool[2]>> \in DcNameTools
    <2>1. \E a, b : tool = <<a, b>>
      BY Zenon DEF DcNameTools
    <2>2. <<tool[1], tool[2]>> = tool
      BY <1>5, <2>1
    <2>3. QED
      BY <2>2
  <1>8. QED
    BY <1>1, <1>2, <1>3, <1>4, <1>6, <1>7

LEMMA AsksAreKinds ==
    ASSUME NEW ask \in Asks
    PROVE  AskKind(ask)
  <1>1. \/ \E tool \in PlainTools : ask = <<tool[1], tool[2], {}>>
        \/ \E tool \in DcNameTools, dc \in {"DC1", "dc2"} : ask = <<tool[1], tool[2], {dc}>>
        \/ \E fs \in FilterSets : ask = <<"get_users", "users", fs>>
        \/ \E fs \in {{}, {"orphaned_only"}} : ask = <<"get_fsp", "fsp", fs>>
        \/ \E g \in {"Staff", "nobody"} : ask = <<"get_group_members", "group_members", {g}>>
    BY SMT DEF Asks
  <1>2. \A a, b, c : <<a, b, c>>[1] = a /\ <<a, b, c>>[2] = b /\ <<a, b, c>>[3] = c
    BY SMT
  <1>3. \A t : (CHOOSE x \in {t} : TRUE) = t
    OBVIOUS
  <1>4. \A a, b : a \in OwnNames => <<a, b>> \notin DcNameTools
    <2>1. \A a, b : <<a, b>>[1] = a
      BY SMT
    <2>2. QED
      BY <2>1, ToolNames
  <1>5. ASSUME NEW tool \in PlainTools, ask = <<tool[1], tool[2], {}>>
        PROVE  AskKind(ask)
    <2>1. /\ ask[1] \notin OwnNames /\ <<ask[1], ask[2]>> \notin DcNameTools
          /\ ask[2] \in DOMAIN Fixed
      BY <1>2, <1>5, ToolNames
    <2>2. \A rows : AnswerOf(rows, ask) = rows
      BY <2>1 DEF AnswerOf, OwnNames
    <2>3. QED
      BY <2>1, <2>2 DEF AskKind
  <1>6. ASSUME NEW tool \in DcNameTools, NEW dc \in {"DC1", "dc2"}, ask = <<tool[1], tool[2], {dc}>>
        PROVE  AskKind(ask)
    <2>1. /\ ask[1] \notin OwnNames /\ <<ask[1], ask[2]>> \in DcNameTools
          /\ ask[2] \in DOMAIN Fixed /\ ask[3] = {dc}
      BY <1>2, <1>6, ToolNames
    <2>2. (CHOOSE x \in ask[3] : TRUE) = dc
      BY <1>3, <2>1
    <2>3. \A rows : AnswerOf(rows, ask) = ByColumn(rows, "DC", CHOOSE x \in ask[3] : TRUE)
      BY <2>1 DEF AnswerOf, OwnNames
    <2>4. \A rows : AnswerOf(rows, ask) = ByColumn(rows, "DC", dc)
      BY <2>2, <2>3
    <2>5. QED
      BY <2>1, <2>4 DEF AskKind
  <1>7. ASSUME NEW fs \in FilterSets, ask = <<"get_users", "users", fs>>
        PROVE  AskKind(ask)
    <2>1. ask[1] = "get_users" /\ ask[2] = "users" /\ ask[3] = fs
      BY <1>2, <1>7
    <2>2. <<ask[1], ask[2]>> \notin DcNameTools
      BY <1>4, <2>1 DEF OwnNames
    <2>3. \A rows : AnswerOf(rows, ask) = get_users(rows, ask[3])
      BY <2>1, <2>2 DEF AnswerOf
    <2>4. QED
      BY <2>1, <2>3, FilterAssumption DEF AskKind
  <1>8. ASSUME NEW fs \in {{}, {"orphaned_only"}}, ask = <<"get_fsp", "fsp", fs>>
        PROVE  AskKind(ask)
    <2>1. ask[1] = "get_fsp" /\ ask[2] \in DOMAIN Fixed
      BY <1>2, <1>8, ToolNames
    <2>2. <<ask[1], ask[2]>> \notin DcNameTools
      BY <1>4, <2>1 DEF OwnNames
    <2>3. \A rows : AnswerOf(rows, ask) = Orphans(rows, ask[3])
      BY <2>1, <2>2 DEF AnswerOf, Orphans
    <2>4. QED
      BY <2>1, <2>3 DEF AskKind
  <1>9. ASSUME NEW g \in {"Staff", "nobody"}, ask = <<"get_group_members", "group_members", {g}>>
        PROVE  AskKind(ask)
    <2>1. ask[1] = "get_group_members" /\ ask[2] \in DOMAIN Fixed /\ ask[3] = {g}
      BY <1>2, <1>9, ToolNames
    <2>2. <<ask[1], ask[2]>> \notin DcNameTools /\ (CHOOSE x \in ask[3] : TRUE) = g
      BY <1>3, <1>4, <2>1 DEF OwnNames
    <2>3. \A rows : AnswerOf(rows, ask) = ByColumn(rows, "GroupName", CHOOSE x \in ask[3] : TRUE)
      BY <2>1, <2>2 DEF AnswerOf
    <2>4. \A rows : AnswerOf(rows, ask) = ByColumn(rows, "GroupName", g)
      BY <2>2, <2>3
    <2>5. QED
      BY <2>1, <2>4 DEF AskKind
  <1>10. QED
    BY <1>1, <1>5, <1>6, <1>7, <1>8, <1>9

LEMMA WholeSections ==
    ASSUME SectionsInForm, NEW section \in DOMAIN Fixed
    PROVE  Names(Fixed[section]) = Names(FixedStored[section])
  <1>1. PICK live, file : live = Fixed[section] /\ file = FixedStored[section]
    OBVIOUS
  <1>2. DOMAIN file = DOMAIN live /\ \A i \in DOMAIN live : NameOf(file[i]) = NameOf(live[i])
    BY <1>1, SectionAlike
  <1>3. QED
    BY <1>1, <1>2, SameRecords

\* For any accounts and filters, and any rows of the other sections in the form of their scripts:
\* when what is loaded comes from the directory as it is, through Windows PowerShell, every tool
\* gives the same records in Live Mode and in Offline Mode (the claim of _normalize.py).
THEOREM ModesAnswerAlike ==
    ASSUME SectionsInForm
    PROVE  Spec => []ModesAgree
  <1>1. IInv => ModesAgree
    <2> SUFFICES ASSUME IInv, loaded.dir = dir, loaded.shell = "5.1"
                 PROVE  /\ \A ask \in Asks :
                              Names(Answer(ask, "live")) = Names(Answer(ask, "offline"))
                        /\ \A f, g \in UserFilters :
                              Names(get_users(Rows("live", "users"), {f, g}))
                                = Names(get_users(Rows("offline", "users"), {f, g}))
                        /\ \A tool \in ListTools :
                              Names(Rows("live", tool[2])) = Names(Rows("offline", tool[2]))
                        /\ \A f \in {"enabled", "not_enabled", "stale_only", "delegation_only"} :
                              Names(get_computers(Rows("live", "computers"), {f}))
                                = Names(get_computers(Rows("offline", "computers"), {f}))
      BY DEF ModesAgree
    <2>1. PICK accounts \in Seq(Account) : accounts = dir
      BY DEF IInv, Sourced
    <2>2. /\ Rows("live", "users") = Users(accounts, "5.1")
          /\ Rows("offline", "users") = Loaded("users", Users(accounts, "5.1"))
      BY <2>1 DEF Rows, IInv, Sourced
    <2>3. \A section \in DOMAIN Fixed : /\ Rows("live", section) = Fixed[section]
                                        /\ Rows("offline", section) = FixedStored[section]
      BY Constants DEF Rows
    <2>4. \A filters \in SUBSET UserFilters :
             Names(get_users(Rows("live", "users"), filters))
               = Names(get_users(Rows("offline", "users"), filters))
      BY <2>2, UserListsAlike
    <2>5. ASSUME NEW ask \in Asks
          PROVE  Names(Answer(ask, "live")) = Names(Answer(ask, "offline"))
      <3>1. AskKind(ask)
        BY AsksAreKinds
      <3>2. CASE ask[2] \in DOMAIN Fixed /\ \A rows : AnswerOf(rows, ask) = rows
        BY <2>3, <3>2, WholeSections DEF Answer
      <3>3. CASE /\ ask[2] \in DOMAIN Fixed
                 /\ \E c \in {"DC", "GroupName"}, text \in {"DC1", "dc2", "Staff", "nobody"} :
                       \A rows : AnswerOf(rows, ask) = ByColumn(rows, c, text)
        <4>1. PICK c \in {"DC", "GroupName"}, text \in {"DC1", "dc2", "Staff", "nobody"} :
                 \A rows : AnswerOf(rows, ask) = ByColumn(rows, c, text)
          BY <3>3
        <4>2. Names(ByColumn(Fixed[ask[2]], c, text)) = Names(ByColumn(FixedStored[ask[2]], c, text))
          BY <3>3, ColumnsAlike
        <4>3. QED
          BY <2>3, <3>3, <4>1, <4>2 DEF Answer
      <3>4. CASE ask[2] \in DOMAIN Fixed /\ \A rows : AnswerOf(rows, ask) = Orphans(rows, ask[3])
        BY <2>3, <3>4, OrphansAlike DEF Answer
      <3>5. CASE /\ ask[2] = "users" /\ ask[3] \in SUBSET UserFilters
                 /\ \A rows : AnswerOf(rows, ask) = get_users(rows, ask[3])
        BY <2>4, <3>5 DEF Answer
      <3>6. QED
        BY <3>1, <3>2, <3>3, <3>4, <3>5 DEF AskKind
    <2>6. ASSUME NEW f \in UserFilters, NEW g \in UserFilters
          PROVE  Names(get_users(Rows("live", "users"), {f, g}))
                   = Names(get_users(Rows("offline", "users"), {f, g}))
      BY <2>4
    <2>7. ASSUME NEW tool \in ListTools
          PROVE  Names(Rows("live", tool[2])) = Names(Rows("offline", tool[2]))
      BY <2>3, ToolNames, WholeSections
    <2>8. ASSUME NEW f \in {"enabled", "not_enabled", "stale_only", "delegation_only"}
          PROVE  Names(get_computers(Rows("live", "computers"), {f}))
                   = Names(get_computers(Rows("offline", "computers"), {f}))
      <3>1. "computers" \in DOMAIN Fixed
        BY Constants, Zenon DEF KNOWN_SECTIONS
      <3>2. QED
        BY <2>3, <3>1, ComputersAlike
    <2>9. QED
      BY <2>5, <2>6, <2>7, <2>8
  <1>2. QED
    BY <1>1, Invariance, PTL
================================================================================
