---------------------------- MODULE LiveQueryProofs ----------------------------
(***************************************************************************)
(* What LiveQuery promises of an inventory and of its warnings holds for   *)
(* any list of domain controllers, any groups and any limits.              *)
(***************************************************************************)
EXTENDS LiveQuery, FiniteSetTheorems, TLAPS

Statuses == {"OK", "Unreachable", "PermissionDenied"}

Columns == {{}} \cup {InventoryColumns[section] : section \in Inventory}

AnyRow == {WarningRow} \cup
          {Row(dc, status, columns) : dc \in STRING, status \in Statuses, columns \in Columns}

Calls == [pc : {"idle", "enumerate", "collect", "returned", "run"},
          section : Sections \cup {""}, api : {"", "page", "query"},
          dcs : Seq(STRING), next : Nat \ {0}, rows : Seq(AnyRow),
          failed : SUBSET STRING, silent : SUBSET STRING]

\* Nothing is collected yet.
Fresh == /\ call.dcs = <<>> /\ call.next = 1 /\ call.rows = <<>>
         /\ call.failed = {} /\ call.silent = {}

\* The connector goes through the DCs of an inventory section one after the other.
Phases == /\ call.pc = "idle" => call = Idle
          /\ call.pc \in {"enumerate", "run"} => Fresh
          /\ call.pc \in {"enumerate", "collect", "returned"} => call.section \in Inventory
          /\ call.pc # "idle" => call.api \in {"page", "query"}
          /\ call.dcs \in {SubSeq(DcList, 1, n) : n \in 0 .. Len(DcList)}
          /\ call.next \in 1 .. Len(call.dcs) + 1
          /\ call.pc = "returned" => call.next = Len(call.dcs) + 1

\* The positions of the rows about a DC in any rows.
AboutIn(rows, dc) == {i \in DOMAIN rows : Get(rows[i], "DC", Null) = Str(dc)}

\* A row is the warning, or one of the script or of the fallback for a DC that has had its turn.
RowsKnown ==
    \A i \in DOMAIN call.rows :
        \/ call.rows[i] = WarningRow /\ Len(call.dcs) > Many
        \/ \E k \in 1 .. call.next - 1, status \in Statuses :
             \E columns \in {{}, InventoryColumns[call.section]} :
                call.rows[i] = Row(call.dcs[k], status, columns)

OutcomesKnown ==
    \A k \in 1 .. call.next - 1 :
        /\ call.dcs[k] \in call.failed =>
              \E i \in DOMAIN call.rows : /\ AboutIn(call.rows, call.dcs[k]) = {i}
                                          /\ call.rows[i]["Status"] = Str("Unreachable")
        /\ call.dcs[k] \notin call.failed \cup call.silent => AboutIn(call.rows, call.dcs[k]) # {}

RowsOrdered ==
    \A k, l \in 1 .. call.next - 1 :
        k < l => \A i \in AboutIn(call.rows, call.dcs[k]), j \in AboutIn(call.rows, call.dcs[l]) :
                    i < j

HadTheirTurn == call.failed \cup call.silent \subseteq {call.dcs[k] : k \in 1 .. call.next - 1}

Collected == RowsKnown /\ OutcomesKnown /\ RowsOrdered /\ HadTheirTurn

IInv == /\ call \in Calls /\ answer.kind \in Kinds
        /\ Phases /\ Collected /\ FailedIsFlagged
-----------------------------------------------------------------------------
LEMMA Constants ==
    /\ DcList \in Seq(STRING) /\ Len(DcList) \in Nat \ {0} /\ Entry = DcList[1] /\ Entry \in STRING
    /\ DOMAIN DcList = 1 .. Len(DcList)
    /\ \A i, j \in DOMAIN DcList : DcList[i] = DcList[j] => i = j
    /\ \A i \in DOMAIN DcList : DcList[i] \notin ListText
    /\ Many \in Nat /\ Cap \in Nat
  BY LiveAssumption, SMT

LEMMA StrIsInjective ==
    /\ \A a, b : Str(a) = Str(b) => a = b
    /\ \A a : Str(a) # Null
  BY SMT DEF Str, Null

\* What a row of the connector says of its DC.
LEMMA RowFacts ==
    \A dc, status, columns :
        /\ Get(Row(dc, status, columns), "DC", Null) = Str(dc)
        /\ Row(dc, status, columns)["Status"] = Str(status)
        /\ DOMAIN Row(dc, status, columns) = {"DC", "Status"} \cup columns
  BY SMT DEF Row, Get

LEMMA WarningFacts == Get(WarningRow, "DC", Null) = Null
  BY SMT DEF WarningRow, Get

LEMMA ColumnFacts ==
    ASSUME NEW section \in Inventory
    PROVE  /\ InventoryColumns[section] \in Columns /\ EmptyFields(section) \in Columns
           /\ EmptyFields(section) \in {{}, InventoryColumns[section]}
           /\ "DC" \notin InventoryColumns[section] /\ "Status" \notin InventoryColumns[section]
  <1>1. InventoryColumns[section] \in
            {{"Features"}, {"Services"}, {"Software"}, {"Mechanism", "State"}, {"NtpServer"},
             {"LogName"}, {"DatabasePath"}, {"Adapters"}}
    BY SMT DEF Inventory, InventoryColumns
  <1>2. InventoryColumns[section] \subseteq
            {"Features", "Services", "Software", "Mechanism", "State", "NtpServer", "LogName",
             "DatabasePath", "Adapters"}
    BY <1>1
  <1>3. EmptyFields(section) \in {{}, InventoryColumns[section]}
    BY DEF EmptyFields
  <1>4. "DC" \notin InventoryColumns[section] /\ "Status" \notin InventoryColumns[section]
    BY <1>2, SMT
  <1>5. InventoryColumns[section] \in Columns /\ EmptyFields(section) \in Columns
    BY <1>3 DEF Columns
  <1>6. QED
    BY <1>3, <1>4, <1>5

\* Rows that are all the same make a sequence of rows.
LEMMA UniformRows ==
    ASSUME NEW row \in AnyRow, NEW n \in Nat
    PROVE  /\ [i \in 1 .. n |-> row] \in Seq(AnyRow)
           /\ \A j \in DOMAIN [i \in 1 .. n |-> row] : [i \in 1 .. n |-> row][j] = row
  BY SMT

\* What the script of a section may print about a DC: rows with its columns, or a short one.
LEMMA ScriptFacts ==
    ASSUME NEW section \in Inventory, NEW dc \in STRING, NEW new \in ScriptRows(section, dc)
    PROVE  /\ new \in Seq(AnyRow)
           /\ \E columns \in {{}, InventoryColumns[section]} :
                 \A j \in DOMAIN new : \E status \in Statuses : new[j] = Row(dc, status, columns)
  <1>1. /\ InventoryColumns[section] \in Columns /\ {} \in Columns
        /\ CaughtColumns(section) \in {{}, InventoryColumns[section]}
    BY ColumnFacts DEF Columns, CaughtColumns
  <1>2. "OK" \in Statuses /\ CaughtStatuses(section) \subseteq Statuses
    BY DEF Statuses, CaughtStatuses
  <1>3. CASE \E n \in Nat : new = [i \in 1 .. n |-> Row(dc, "OK", InventoryColumns[section])]
    <2>1. PICK n \in Nat : new = [i \in 1 .. n |-> Row(dc, "OK", InventoryColumns[section])]
      BY <1>3
    <2>2. PICK row : row = Row(dc, "OK", InventoryColumns[section])
      OBVIOUS
    <2>3. row \in AnyRow
      BY <1>1, <1>2, <2>2 DEF AnyRow
    <2>4. new = [i \in 1 .. n |-> row]
      BY <2>1, <2>2
    <2>5. new \in Seq(AnyRow) /\ \A j \in DOMAIN new : new[j] = row
      BY <2>3, <2>4, UniformRows
    <2>6. QED
      BY <1>2, <2>2, <2>5
  <1>4. CASE \E status \in CaughtStatuses(section) : new = <<Row(dc, status, CaughtColumns(section))>>
    <2>1. PICK status \in CaughtStatuses(section) : new = <<Row(dc, status, CaughtColumns(section))>>
      BY <1>4
    <2>2. PICK columns \in {{}, InventoryColumns[section]} : columns = CaughtColumns(section)
      BY <1>1
    <2>3. status \in Statuses /\ columns \in Columns
      BY <1>1, <1>2, <2>2
    <2>4. Row(dc, status, columns) \in AnyRow
      BY <2>3 DEF AnyRow
    <2>5. PICK row : row = Row(dc, status, columns)
      OBVIOUS
    <2>6. new = <<row>> /\ row \in AnyRow
      BY <2>1, <2>2, <2>4, <2>5
    <2>7. new \in Seq(AnyRow) /\ DOMAIN new = {1} /\ new[1] = row
      BY <2>6, SMT
    <2>8. QED
      BY <2>3, <2>5, <2>7
  <1>5. \/ \E n \in 0 .. 2 \cup {1} : new = [i \in 1 .. n |-> Row(dc, "OK", InventoryColumns[section])]
        \/ \E status \in CaughtStatuses(section) : new = <<Row(dc, status, CaughtColumns(section))>>
    BY DEF ScriptRows
  <1>6. 0 .. 2 \cup {1} \subseteq Nat
    BY SMT
  <1>7. QED
    BY <1>3, <1>4, <1>5, <1>6

\* DC after DC, a prefix of the list names each of its members once.
LEMMA Prefixes ==
    ASSUME NEW dcs \in {SubSeq(DcList, 1, n) : n \in 0 .. Len(DcList)}
    PROVE  /\ dcs \in Seq(STRING)
           /\ \A k \in DOMAIN dcs : dcs[k] \in STRING /\ dcs[k] \notin ListText
           /\ \A k, l \in DOMAIN dcs : dcs[k] = dcs[l] => k = l
  <1>1. PICK n \in 0 .. Len(DcList) : dcs = SubSeq(DcList, 1, n)
    OBVIOUS
  <1>2. /\ dcs \in Seq(STRING) /\ Len(dcs) = n /\ DOMAIN dcs = 1 .. n
        /\ \A k \in 1 .. n : dcs[k] = DcList[k]
    BY <1>1, Constants, SMT
  <1>3. QED
    BY <1>2, Constants, SMT

LEMMA EntryIsPrefix == <<Entry>> \in {SubSeq(DcList, 1, n) : n \in 0 .. Len(DcList)}
  <1>1. /\ SubSeq(DcList, 1, 1) = [i \in 1 .. 1 |-> DcList[1]]
        /\ <<Entry>> = [i \in 1 .. 1 |-> DcList[1]]
    BY Constants, SMT
  <1>2. QED
    BY <1>1, Constants, SMT

\* Rows about one DC that are put behind others.
LEMMA AboutAppended ==
    \A dc : \A rows, new \in Seq(AnyRow) :
        (\A j \in DOMAIN new : Get(new[j], "DC", Null) = Str(dc)) =>
            /\ \A other : other # dc => AboutIn(rows \o new, other) = AboutIn(rows, other)
            /\ AboutIn(rows \o new, dc)
                 = AboutIn(rows, dc) \cup (Len(rows) + 1 .. Len(rows) + Len(new))
  <1> SUFFICES ASSUME NEW dc, NEW rows \in Seq(AnyRow), NEW new \in Seq(AnyRow),
                      \A j \in DOMAIN new : Get(new[j], "DC", Null) = Str(dc)
               PROVE  /\ \A other : other # dc => AboutIn(rows \o new, other) = AboutIn(rows, other)
                      /\ AboutIn(rows \o new, dc)
                           = AboutIn(rows, dc) \cup (Len(rows) + 1 .. Len(rows) + Len(new))
    OBVIOUS
  <1>1. /\ rows \o new \in Seq(AnyRow)
        /\ DOMAIN (rows \o new) = 1 .. Len(rows) + Len(new)
        /\ \A i \in 1 .. Len(rows) : (rows \o new)[i] = rows[i]
        /\ \A i \in Len(rows) + 1 .. Len(rows) + Len(new) :
              /\ (rows \o new)[i] = new[i - Len(rows)] /\ i - Len(rows) \in DOMAIN new
        /\ DOMAIN rows = 1 .. Len(rows) /\ Len(rows) \in Nat /\ Len(new) \in Nat
    BY SMT
  <1>2. \A i \in DOMAIN (rows \o new) : i \in DOMAIN rows \/ i \in Len(rows) + 1 .. Len(rows) + Len(new)
    BY <1>1, SMT
  <1>3. \A i \in Len(rows) + 1 .. Len(rows) + Len(new) : Get((rows \o new)[i], "DC", Null) = Str(dc)
    BY <1>1
  <1>4. ASSUME NEW other, other # dc
        PROVE  AboutIn(rows \o new, other) = AboutIn(rows, other)
    <2>1. Str(other) # Str(dc)
      BY <1>4, StrIsInjective
    <2>2. QED
      BY <1>1, <1>2, <1>3, <2>1, SMT DEF AboutIn
  <1>5. AboutIn(rows \o new, dc) = AboutIn(rows, dc) \cup (Len(rows) + 1 .. Len(rows) + Len(new))
    BY <1>1, <1>2, <1>3, SMT DEF AboutIn
  <1>6. QED
    BY <1>4, <1>5
-----------------------------------------------------------------------------
LEMMA Shapes ==
    ASSUME IInv
    PROVE  /\ call.pc \in {"enumerate", "collect", "returned"} => call.section \in Inventory
           /\ call.dcs \in Seq(STRING) /\ call.rows \in Seq(AnyRow) /\ call.next \in Nat \ {0}
           /\ Len(call.dcs) \in Nat /\ DOMAIN call.dcs = 1 .. Len(call.dcs)
           /\ \A k \in DOMAIN call.dcs : call.dcs[k] \in STRING /\ call.dcs[k] \notin ListText
           /\ \A k, l \in DOMAIN call.dcs : call.dcs[k] = call.dcs[l] => k = l
  <1>1. /\ call \in Calls
        /\ call.pc \in {"enumerate", "collect", "returned"} => call.section \in Inventory
        /\ call.dcs \in {SubSeq(DcList, 1, n) : n \in 0 .. Len(DcList)}
    BY DEF IInv, Phases
  <1>2. call.dcs \in Seq(STRING) /\ call.rows \in Seq(AnyRow) /\ call.next \in Nat \ {0}
    BY <1>1 DEF Calls
  <1>3. Len(call.dcs) \in Nat /\ DOMAIN call.dcs = 1 .. Len(call.dcs)
    BY <1>2, SMT
  <1>4. QED
    BY <1>1, <1>2, <1>3, Prefixes

\* No row is about a DC that has not had its turn yet.
LEMMA NotYetAbout ==
    ASSUME IInv, call.pc = "collect", call.next \in DOMAIN call.dcs
    PROVE  AboutIn(call.rows, Dc) = {}
  <1> DEFINE section == call.section
  <1>1. /\ section \in Inventory
        /\ call.next \in Nat \ {0} /\ DOMAIN call.dcs = 1 .. Len(call.dcs)
        /\ \A k, l \in DOMAIN call.dcs : call.dcs[k] = call.dcs[l] => k = l
    BY Shapes
  <1>2. ASSUME NEW i \in DOMAIN call.rows, Get(call.rows[i], "DC", Null) = Str(Dc)
        PROVE  FALSE
    <2>1. call.rows[i] # WarningRow
      BY <1>2, WarningFacts, StrIsInjective
    <2>2. PICK k \in 1 .. call.next - 1, status \in Statuses :
             \E columns \in {{}, InventoryColumns[section]} :
                call.rows[i] = Row(call.dcs[k], status, columns)
      BY <2>1 DEF IInv, Collected, RowsKnown
    <2>3. PICK columns \in {{}, InventoryColumns[section]} :
             call.rows[i] = Row(call.dcs[k], status, columns)
      BY <2>2
    <2>5. Str(call.dcs[k]) = Str(Dc)
      BY <1>2, <2>3, RowFacts
    <2>6. call.dcs[k] = call.dcs[call.next]
      BY <2>5, StrIsInjective DEF Dc
    <2>7. k \in DOMAIN call.dcs /\ k # call.next
      BY <1>1, SMT
    <2>8. QED
      BY <1>1, <2>6, <2>7
  <1>3. QED
    BY <1>2 DEF AboutIn

\* A DC has its turn: its rows are appended, and it may be noted as failed or silent.
LEMMA Gathers ==
    ASSUME IInv, call.pc = "collect", call.next \in DOMAIN call.dcs,
           NEW new \in Seq(AnyRow),
           NEW columns \in {{}, InventoryColumns[call.section]},
           \A j \in DOMAIN new : \E status \in Statuses : new[j] = Row(Dc, status, columns),
           NEW failed \in SUBSET {Dc}, NEW silent \in SUBSET {Dc},
           failed = {Dc} => new = <<Row(Dc, "Unreachable", columns)>>,
           new = <<>> => silent = {Dc},
           call' \in Calls,
           call'.pc = call.pc, call'.api = call.api, call'.section = call.section, call'.dcs = call.dcs,
           call'.rows = call.rows \o new, call'.next = call.next + 1,
           call'.failed = call.failed \cup failed, call'.silent = call.silent \cup silent
    PROVE  Phases' /\ Collected'
  <1>1. /\ call.section \in Inventory
        /\ call.dcs \in Seq(STRING) /\ call.rows \in Seq(AnyRow) /\ call.next \in Nat \ {0}
        /\ call.next \in 1 .. Len(call.dcs)
        /\ DOMAIN call.dcs = 1 .. Len(call.dcs) /\ Len(call.dcs) \in Nat
        /\ \A k, l \in DOMAIN call.dcs : call.dcs[k] = call.dcs[l] => k = l
    BY Shapes
  <1>2. Phases'
    BY <1>1, SMT DEF IInv, Phases
  <1>4. \A j \in DOMAIN new : Get(new[j], "DC", Null) = Str(Dc)
    BY RowFacts
  <1>5. /\ \A other : other # Dc => AboutIn(call'.rows, other) = AboutIn(call.rows, other)
        /\ AboutIn(call'.rows, Dc) = Len(call.rows) + 1 .. Len(call.rows) + Len(new)
    <2>1. AboutIn(call.rows, Dc) = {}
      BY NotYetAbout
    <2>2. /\ \A other : other # Dc => AboutIn(call.rows \o new, other) = AboutIn(call.rows, other)
          /\ AboutIn(call.rows \o new, Dc)
               = AboutIn(call.rows, Dc) \cup (Len(call.rows) + 1 .. Len(call.rows) + Len(new))
      <3>1. call.rows \in Seq(AnyRow) /\ new \in Seq(AnyRow)
        BY <1>1
      <3>2. \A rows, more \in Seq(AnyRow) :
               (\A j \in DOMAIN more : Get(more[j], "DC", Null) = Str(Dc)) =>
                  /\ \A other : other # Dc => AboutIn(rows \o more, other) = AboutIn(rows, other)
                  /\ AboutIn(rows \o more, Dc)
                       = AboutIn(rows, Dc) \cup (Len(rows) + 1 .. Len(rows) + Len(more))
        BY AboutAppended, Zenon
      <3>3. (\A j \in DOMAIN new : Get(new[j], "DC", Null) = Str(Dc)) =>
               /\ \A other : other # Dc => AboutIn(call.rows \o new, other) = AboutIn(call.rows, other)
               /\ AboutIn(call.rows \o new, Dc)
                    = AboutIn(call.rows, Dc) \cup (Len(call.rows) + 1 .. Len(call.rows) + Len(new))
        BY <3>1, <3>2, Zenon
      <3>4. QED
        BY <3>3, <1>4, Zenon
    <2>3. QED
      BY <2>1, <2>2, Zenon
  <1>6. \A k \in 1 .. call.next - 1 :
            /\ call'.dcs[k] = call.dcs[k] /\ call.dcs[k] # Dc
            /\ AboutIn(call'.rows, call.dcs[k]) = AboutIn(call.rows, call.dcs[k])
    <2>1. \A k \in 1 .. call.next - 1 : k \in DOMAIN call.dcs /\ k # call.next
      BY <1>1, SMT
    <2>2. \A k \in 1 .. call.next - 1 : call.dcs[k] # Dc
      BY <1>1, <2>1, Zenon DEF Dc
    <2>3. QED
      BY <1>5, <2>2
  <1>7. \A k \in 1 .. call'.next - 1 :
            k \in 1 .. call.next - 1 \/ (k = call.next /\ call'.dcs[k] = Dc)
    BY <1>1, SMT DEF Dc
  <1>8. /\ Len(call.rows) \in Nat /\ Len(new) \in Nat
        /\ DOMAIN call.rows = 1 .. Len(call.rows)
        /\ DOMAIN call'.rows = 1 .. Len(call.rows) + Len(new)
        /\ \A i \in DOMAIN call.rows : i \in DOMAIN call'.rows /\ call'.rows[i] = call.rows[i]
        /\ \A i \in DOMAIN call'.rows \ DOMAIN call.rows :
              i - Len(call.rows) \in DOMAIN new /\ call'.rows[i] = new[i - Len(call.rows)]
    BY <1>1, SMT
  <1>9. RowsKnown'
    <2> SUFFICES ASSUME NEW i \in DOMAIN call'.rows
                 PROVE  \/ call'.rows[i] = WarningRow /\ Len(call'.dcs) > Many
                        \/ \E k \in 1 .. call'.next - 1, status \in Statuses :
                             \E cs \in {{}, InventoryColumns[call'.section]} :
                                call'.rows[i] = Row(call'.dcs[k], status, cs)
      BY DEF RowsKnown
    <2>1. CASE i \in DOMAIN call.rows
      <3>1. 1 .. call.next - 1 \subseteq 1 .. call'.next - 1
        BY <1>1, SMT
      <3>2. /\ call'.rows[i] = call.rows[i] /\ call'.section = call.section
            /\ call'.dcs = call.dcs
        BY <2>1, <1>8
      <3>3. RowsKnown
        BY DEF IInv, Collected
      <3>4. CASE call.rows[i] = WarningRow /\ Len(call.dcs) > Many
        BY <3>2, <3>4
      <3>5. CASE \E k \in 1 .. call.next - 1, st \in Statuses :
                    \E cs \in {{}, InventoryColumns[call.section]} :
                        call.rows[i] = Row(call.dcs[k], st, cs)
        BY <3>1, <3>2, <3>5
      <3>6. QED
        BY <2>1, <3>3, <3>4, <3>5 DEF RowsKnown
    <2>2. CASE i \notin DOMAIN call.rows
      <3>1. PICK status \in Statuses : call'.rows[i] = Row(Dc, status, columns)
        BY <2>2, <1>8
      <3>2. call.next \in 1 .. call'.next - 1 /\ Dc = call'.dcs[call.next]
        BY <1>1, SMT DEF Dc
      <3>3. QED
        BY <3>1, <3>2
    <2>3. QED
      BY <2>1, <2>2
  <1>10. HadTheirTurn'
    <2>1. Dc \in {call'.dcs[k] : k \in 1 .. call'.next - 1}
      BY <1>1, SMT DEF Dc
    <2>2. {call.dcs[k] : k \in 1 .. call.next - 1} \subseteq {call'.dcs[k] : k \in 1 .. call'.next - 1}
      BY <1>1, SMT
    <2>3. call.failed \cup call.silent \subseteq {call.dcs[k] : k \in 1 .. call.next - 1}
      BY DEF IInv, Collected, HadTheirTurn
    <2>4. call'.failed \cup call'.silent \subseteq call.failed \cup call.silent \cup {Dc}
      OBVIOUS
    <2>5. QED
      BY <2>1, <2>2, <2>3, <2>4, Zenon DEF HadTheirTurn
  <1>11. Dc \notin call.failed \cup call.silent
    <2>1. call.failed \cup call.silent \subseteq {call.dcs[k] : k \in 1 .. call.next - 1}
      BY DEF IInv, Collected, HadTheirTurn
    <2>2. \A k \in 1 .. call.next - 1 : call.dcs[k] # Dc
      BY <1>6
    <2>3. ASSUME Dc \in {call.dcs[k] : k \in 1 .. call.next - 1}
          PROVE  FALSE
      <3>1. PICK k \in 1 .. call.next - 1 : Dc = call.dcs[k]
        BY <2>3
      <3>2. QED
        BY <3>1, <2>2
    <2>4. QED
      BY <2>1, <2>3
  <1>12. OutcomesKnown'
    <2>1. ASSUME NEW k \in 1 .. call.next - 1
          PROVE  /\ call'.dcs[k] \in call'.failed =>
                       \E i \in DOMAIN call'.rows :
                            /\ AboutIn(call'.rows, call'.dcs[k]) = {i}
                            /\ call'.rows[i]["Status"] = Str("Unreachable")
                 /\ call'.dcs[k] \notin call'.failed \cup call'.silent =>
                       AboutIn(call'.rows, call'.dcs[k]) # {}
      <3>1. call'.dcs[k] = call.dcs[k] /\ call.dcs[k] # Dc
            /\ AboutIn(call'.rows, call.dcs[k]) = AboutIn(call.rows, call.dcs[k])
        BY <1>6
      <3>2. call.dcs[k] \in call'.failed => call.dcs[k] \in call.failed
        BY <3>1
      <3>3. call.dcs[k] \notin call'.failed \cup call'.silent =>
               call.dcs[k] \notin call.failed \cup call.silent
        OBVIOUS
      <3>4. OutcomesKnown
        BY DEF IInv, Collected
      <3>5. ASSUME call.dcs[k] \in call.failed
            PROVE  \E i \in DOMAIN call'.rows :
                        /\ AboutIn(call'.rows, call'.dcs[k]) = {i}
                        /\ call'.rows[i]["Status"] = Str("Unreachable")
        <4>1. PICK i \in DOMAIN call.rows : /\ AboutIn(call.rows, call.dcs[k]) = {i}
                                           /\ call.rows[i]["Status"] = Str("Unreachable")
          BY <3>4, <3>5 DEF OutcomesKnown
        <4>2. i \in DOMAIN call'.rows /\ call'.rows[i] = call.rows[i]
          BY <1>8
        <4>3. QED
          BY <3>1, <4>1, <4>2
      <3>6. call.dcs[k] \notin call.failed \cup call.silent => AboutIn(call.rows, call.dcs[k]) # {}
        BY <3>4 DEF OutcomesKnown
      <3>7. QED
        BY <3>1, <3>2, <3>3, <3>5, <3>6
    <2>2. Dc \in call'.failed =>
             \E i \in DOMAIN call'.rows : /\ AboutIn(call'.rows, Dc) = {i}
                                          /\ call'.rows[i]["Status"] = Str("Unreachable")
      <3> HAVE Dc \in call'.failed
      <3>1. new = <<Row(Dc, "Unreachable", columns)>>
        BY <1>11
      <3>2. Len(new) = 1 /\ new[1] = Row(Dc, "Unreachable", columns)
        BY <3>1, SMT
      <3>3. AboutIn(call'.rows, Dc) = {Len(call.rows) + 1}
        BY <3>2, <1>5, <1>8, SMT
      <3>4. /\ Len(call.rows) + 1 \in DOMAIN call'.rows
            /\ call'.rows[Len(call.rows) + 1] = new[1]
        BY <3>2, <1>1, <1>8, SMT
      <3>5. call'.rows[Len(call.rows) + 1]["Status"] = Str("Unreachable")
        BY <3>2, <3>4, RowFacts
      <3>6. QED
        BY <3>3, <3>4, <3>5
    <2>3. Dc \notin call'.failed \cup call'.silent => AboutIn(call'.rows, Dc) # {}
      <3> HAVE Dc \notin call'.failed \cup call'.silent
      <3>1. new # <<>>
        OBVIOUS
      <3>2. Len(new) >= 1
        BY <3>1, SMT
      <3>3. Len(call.rows) + 1 \in Len(call.rows) + 1 .. Len(call.rows) + Len(new)
        BY <3>2, <1>8, SMT
      <3>4. QED
        BY <3>3, <1>5, Zenon
    <2>4. QED
      BY <1>7, <2>1, <2>2, <2>3 DEF OutcomesKnown
  <1>13. RowsOrdered'
    <2> SUFFICES ASSUME NEW k \in 1 .. call'.next - 1, NEW l \in 1 .. call'.next - 1, k < l,
                        NEW i \in AboutIn(call'.rows, call'.dcs[k]),
                        NEW j \in AboutIn(call'.rows, call'.dcs[l])
                 PROVE  i < j
      BY DEF RowsOrdered
    <2>1. k \in 1 .. call.next - 1
      BY <1>1, SMT
    <2>2. i \in AboutIn(call.rows, call.dcs[k])
      BY <2>1, <1>6
    <2>3. CASE l \in 1 .. call.next - 1
      <3>1. j \in AboutIn(call.rows, call.dcs[l])
        BY <2>3, <1>6
      <3>2. QED
        BY <2>1, <2>2, <2>3, <3>1 DEF IInv, Collected, RowsOrdered
    <2>4. CASE call'.dcs[l] = Dc
      <3>1. j \in Len(call.rows) + 1 .. Len(call.rows) + Len(new)
        BY <2>4, <1>5
      <3>2. i \in 1 .. Len(call.rows)
        BY <2>2, <1>8 DEF AboutIn
      <3>3. QED
        BY <3>1, <3>2, <1>8, SMT
    <2>5. QED
      BY <1>7, <2>3, <2>4
  <1>14. QED
    BY <1>2, <1>9, <1>10, <1>12, <1>13 DEF Collected

\* Before the DCs are enumerated nothing can be wrong.
LEMMA Starts ==
    ASSUME call' \in Calls, Fresh', call'.pc \in {"idle", "enumerate", "run"},
           call'.pc = "idle" => call' = Idle,
           call'.pc = "enumerate" => call'.section \in Inventory,
           call'.pc # "idle" => call'.api \in {"page", "query"}
    PROVE  Phases' /\ Collected' /\ FailedIsFlagged'
  <1>1. /\ call'.dcs = <<>> /\ call'.next = 1 /\ call'.rows = <<>>
        /\ call'.failed = {} /\ call'.silent = {}
    BY DEF Fresh
  <1>2. call'.dcs \in {SubSeq(DcList, 1, n) : n \in 0 .. Len(DcList)}
    <2>1. 0 \in 0 .. Len(DcList) /\ SubSeq(DcList, 1, 0) = <<>>
      BY Constants, SMT
    <2>2. QED
      BY <1>1, <2>1
  <1>3. call'.next \in 1 .. Len(call'.dcs) + 1
    BY <1>1, SMT
  <1>4. Phases'
    BY <1>2, <1>3 DEF Phases
  <1>5. 1 .. call'.next - 1 = {} /\ DOMAIN call'.rows = {}
    BY <1>1, SMT
  <1>6. Collected' /\ FailedIsFlagged'
    BY <1>1, <1>5, Zenon
      DEF Collected, RowsKnown, OutcomesKnown, RowsOrdered, HadTheirTurn, FailedIsFlagged
  <1>7. QED
    BY <1>4, <1>6

LEMMA IdleIsACall == Idle \in Calls
  <1>1. <<>> \in Seq(STRING) /\ <<>> \in Seq(AnyRow)
    BY SMT
  <1>2. "" \in Sections \cup {""} /\ {} \in SUBSET STRING /\ 1 \in Nat \ {0}
    BY SMT
  <1>3. QED
    BY <1>1, <1>2 DEF Idle, Calls

LEMMA IdleIsFresh ==
    ASSUME call' = Idle
    PROVE  call' \in Calls /\ Phases' /\ Collected' /\ FailedIsFlagged'
  <1>1. Idle \in Calls
    BY IdleIsACall
  <1>2. Fresh'
    BY DEF Fresh, Idle
  <1>3. call'.pc = "idle"
    BY DEF Idle
  <1>4. QED
    BY <1>1, <1>2, <1>3, Starts

LEMMA InitEstablishes == Init => IInv
  <1> SUFFICES ASSUME Init PROVE IInv
    OBVIOUS
  <1>1. Idle \in Calls /\ Fresh /\ call = Idle /\ call.pc = "idle"
    BY IdleIsACall DEF Init, Idle, Fresh
  <1>2. answer.kind \in Kinds
    BY DEF Init, NoAnswer, Kinds
  <1>3. /\ call.dcs = <<>> /\ call.next = 1 /\ call.rows = <<>>
        /\ call.failed = {} /\ call.silent = {}
    BY <1>1 DEF Fresh
  <1>4. call.dcs \in {SubSeq(DcList, 1, n) : n \in 0 .. Len(DcList)}
    <2>1. 0 \in 0 .. Len(DcList) /\ SubSeq(DcList, 1, 0) = <<>>
      BY Constants, SMT
    <2>2. QED
      BY <1>3, <2>1
  <1>5. call.next \in 1 .. Len(call.dcs) + 1
    BY <1>3, SMT
  <1>6. Phases
    BY <1>1, <1>4, <1>5 DEF Phases
  <1>7. 1 .. call.next - 1 = {} /\ DOMAIN call.rows = {}
    BY <1>3, SMT
  <1>8. Collected /\ FailedIsFlagged
    BY <1>3, <1>7, Zenon
      DEF Collected, RowsKnown, OutcomesKnown, RowsOrdered, HadTheirTurn, FailedIsFlagged
  <1>9. QED
    BY <1>1, <1>2, <1>6, <1>8 DEF IInv

LEMMA BeginKeeps == IInv /\ Begin => IInv'
  <1> SUFFICES ASSUME IInv, Begin PROVE IInv'
    OBVIOUS
  <1>1. call = Idle
    BY DEF IInv, Phases, Begin
  <1>2. PICK section \in Sections, api \in {"page", "query"} :
          IF section = "no_such"
          THEN /\ answer' = [NoAnswer EXCEPT !.kind = "page", !.section = section]
               /\ UNCHANGED call
          ELSE /\ call' = [Idle EXCEPT !.section = section, !.api = api,
                                       !.pc = IF section \in Inventory THEN "enumerate" ELSE "run"]
               /\ answer' = NoAnswer
    BY DEF Begin
  <1>3. answer'.kind \in Kinds
    <2>1. CASE section = "no_such"
      <3>1. answer' = [NoAnswer EXCEPT !.kind = "page", !.section = section]
        BY <1>2, <2>1
      <3>2. answer'.kind = "page"
        BY <3>1 DEF NoAnswer
      <3>3. QED
        BY <3>2 DEF Kinds
    <2>2. CASE section # "no_such"
      <3>1. answer' = NoAnswer
        BY <1>2, <2>2
      <3>2. QED
        BY <3>1 DEF NoAnswer, Kinds
    <2>3. QED
      BY <2>1, <2>2
  <1>4. CASE section = "no_such"
    BY <1>1, <1>2, <1>3, <1>4, IdleIsFresh DEF IInv
  <1>5. CASE section # "no_such"
    <2>1. /\ call'.pc = IF section \in Inventory THEN "enumerate" ELSE "run"
          /\ call'.section = section /\ call'.api = api
      BY <1>2, <1>5 DEF Idle
    <2>2. Fresh'
      BY <1>2, <1>5 DEF Idle, Fresh
    <2>3. call' \in Calls
      <3>1. call' = [Idle EXCEPT !.section = section, !.api = api,
                                 !.pc = IF section \in Inventory THEN "enumerate" ELSE "run"]
        BY <1>2, <1>5
      <3>2. QED
        BY <3>1, IdleIsACall DEF Calls
    <2>4. QED
      BY <1>3, <2>1, <2>2, <2>3, Starts DEF IInv
  <1>6. QED
    BY <1>4, <1>5

\* The enumeration ends, with the DCs it lists or with the entry point alone.
LEMMA Begun ==
    ASSUME IInv, call.pc = "enumerate", answer' = answer,
           NEW dcs \in {SubSeq(DcList, 1, n) : n \in 0 .. Len(DcList)}, Start(dcs)
    PROVE  IInv'
  <1>1. /\ Fresh /\ call.section \in Inventory /\ call \in Calls /\ answer.kind \in Kinds
    BY DEF IInv, Phases
  <1>2. call' = [call EXCEPT !.pc = "collect", !.dcs = dcs,
                             !.rows = IF Len(dcs) > Many THEN <<WarningRow>> ELSE <<>>]
    BY DEF Start
  <1>3. dcs \in Seq(STRING)
    BY Prefixes
  <1>4. WarningRow \in AnyRow
    BY DEF AnyRow
  <1>5. (IF Len(dcs) > Many THEN <<WarningRow>> ELSE <<>>) \in Seq(AnyRow)
    BY <1>4
  <1>6. call' \in Calls
    BY <1>1, <1>2, <1>3, <1>5 DEF Calls
  <1>7. /\ call'.pc = "collect" /\ call'.section = call.section /\ call'.dcs = dcs
        /\ call'.api = call.api
        /\ call'.next = 1 /\ call'.failed = {} /\ call'.silent = {}
        /\ call'.rows = IF Len(dcs) > Many THEN <<WarningRow>> ELSE <<>>
    BY <1>1, <1>2 DEF Calls, Fresh
  <1>8. Phases'
    <2>1. call.api \in {"page", "query"} /\ 1 \in 1 .. Len(dcs) + 1
      BY <1>3, SMT DEF IInv, Phases
    <2>2. QED
      BY <1>1, <1>7, <2>1 DEF Phases
  <1>9. RowsKnown'
    BY <1>7, SMT DEF RowsKnown
  <1>10. 1 .. call'.next - 1 = {}
    BY <1>7, SMT
  <1>11. OutcomesKnown' /\ RowsOrdered' /\ HadTheirTurn' /\ FailedIsFlagged'
    BY <1>7, <1>10, Zenon DEF OutcomesKnown, RowsOrdered, HadTheirTurn, FailedIsFlagged
  <1>12. QED
    BY <1>1, <1>6, <1>8, <1>9, <1>11 DEF IInv, Collected

\* What is flagged stays flagged: rows and events are only added.
LEMMA StaysFlagged ==
    ASSUME call.rows \in Seq(AnyRow), FailedIsFlagged, NEW new \in Seq(AnyRow),
           call'.rows = call.rows \o new, call'.section = call.section, events \subseteq events',
           \A dc \in call'.failed \ call.failed :
                /\ \E j \in DOMAIN new : new[j] = Fallback(call.section, dc)
                /\ <<"unreachable", dc>> \in events'
    PROVE  FailedIsFlagged'
  <1>1. /\ \A i \in DOMAIN call.rows : i \in DOMAIN call'.rows /\ call'.rows[i] = call.rows[i]
        /\ \A j \in DOMAIN new : /\ Len(call.rows) + j \in DOMAIN call'.rows
                                 /\ call'.rows[Len(call.rows) + j] = new[j]
    BY SMT
  <1>2. ASSUME NEW dc \in call'.failed
        PROVE  /\ \E i \in DOMAIN call'.rows : call'.rows[i] = Fallback(call'.section, dc)
               /\ <<"unreachable", dc>> \in events'
    <2>1. CASE dc \in call.failed
      <3>1. /\ \E i \in DOMAIN call.rows : call.rows[i] = Fallback(call.section, dc)
            /\ <<"unreachable", dc>> \in events
        BY <2>1 DEF FailedIsFlagged
      <3>2. QED
        BY <3>1, <1>1
    <2>2. CASE dc \notin call.failed
      <3>1. PICK j \in DOMAIN new : new[j] = Fallback(call.section, dc)
        BY <1>2, <2>2
      <3>2. <<"unreachable", dc>> \in events'
        BY <1>2, <2>2
      <3>3. QED
        BY <3>1, <3>2, <1>1
    <2>3. QED
      BY <2>1, <2>2
  <1>3. QED
    BY <1>2 DEF FailedIsFlagged

LEMMA CollectKeeps == IInv /\ Collect => IInv'
  <1> SUFFICES ASSUME IInv, Collect PROVE IInv'
    OBVIOUS
  <1>1. /\ call.pc = "collect" /\ call.next \in DOMAIN call.dcs
        /\ call.section \in Inventory /\ call.rows \in Seq(AnyRow) /\ Dc \in STRING
        /\ call \in Calls /\ answer' = answer /\ events' = events
    BY Shapes DEF Collect, Dc, IInv
  <1>2. PICK new \in ScriptRows(call.section, Dc) :
          call' = [call EXCEPT !.rows = @ \o new, !.next = @ + 1,
                               !.silent = IF new = <<>> THEN @ \cup {Dc} ELSE @]
    BY DEF Collect
  <1> DEFINE silent == IF new = <<>> THEN {Dc} ELSE {}
             none == {}
  <1>14. new \in Seq(AnyRow)
    BY <1>1, ScriptFacts
  <1>15. PICK columns \in {{}, InventoryColumns[call.section]} :
           \A j \in DOMAIN new : \E status \in Statuses : new[j] = Row(Dc, status, columns)
    BY <1>1, ScriptFacts
  <1>3. /\ new \in Seq(AnyRow)
        /\ \A j \in DOMAIN new : \E status \in Statuses : new[j] = Row(Dc, status, columns)
    BY <1>14, <1>15
  <1>4. /\ call'.pc = call.pc /\ call'.section = call.section /\ call'.api = call.api
        /\ call'.dcs = call.dcs /\ call'.rows = call.rows \o new /\ call'.next = call.next + 1
        /\ call'.failed = call.failed /\ call'.silent = call.silent \cup silent
    BY <1>1, <1>2 DEF Calls
  <1>5. /\ call.rows \o new \in Seq(AnyRow) /\ call.next + 1 \in Nat \ {0}
        /\ call.silent \cup silent \in SUBSET STRING
    <2>1. call.rows \o new \in Seq(AnyRow)
      BY <1>1, <1>3, SMT
    <2>2. call.next \in Nat \ {0} /\ call.silent \in SUBSET STRING
      BY <1>1 DEF Calls
    <2>3. call.next + 1 \in Nat \ {0}
      BY <2>2, SMT
    <2>4. QED
      BY <1>1, <2>1, <2>2, <2>3
  <1>6. call' \in Calls
    <2>1. call' = [call EXCEPT !.rows = call.rows \o new, !.next = call.next + 1,
                               !.silent = call.silent \cup silent]
      BY <1>1, <1>2 DEF Calls
    <2> HIDE DEF silent
    <2>2. QED
      BY <1>1, <1>5, <2>1 DEF Calls
  <1>7. Phases' /\ Collected'
    <2>1. /\ columns \in {{}, InventoryColumns[call.section]}
          /\ none \in SUBSET {Dc} /\ silent \in SUBSET {Dc} /\ none # {Dc}
          /\ new = <<>> => silent = {Dc} /\ call'.failed = call.failed \cup none
      BY <1>4
    <2> HIDE DEF silent, none
    <2>2. PICK cs, f, q : cs = columns /\ f = none /\ q = silent
      OBVIOUS
    <2>3. /\ cs \in {{}, InventoryColumns[call.section]}
          /\ f \in SUBSET {Dc} /\ q \in SUBSET {Dc} /\ f # {Dc}
          /\ new = <<>> => q = {Dc}
          /\ call'.failed = call.failed \cup f /\ call'.silent = call.silent \cup q
          /\ \A j \in DOMAIN new : \E status \in Statuses : new[j] = Row(Dc, status, cs)
      BY <1>3, <1>4, <2>1, <2>2
    <2>4. QED
      BY <1>1, <1>3, <1>4, <1>6, <2>3, Gathers
  <1>8. FailedIsFlagged'
    <2>1. FailedIsFlagged /\ events \subseteq events' /\ call'.failed \ call.failed = {}
      BY <1>1, <1>4 DEF IInv
    <2>2. \A dc \in call'.failed \ call.failed :
             /\ \E j \in DOMAIN new : new[j] = Fallback(call.section, dc)
             /\ <<"unreachable", dc>> \in events'
      BY <2>1, Zenon
    <2> HIDE DEF silent, none
    <2>3. QED
      BY <1>1, <1>3, <1>4, <2>1, <2>2, StaysFlagged
  <1>9. QED
    BY <1>1, <1>6, <1>7, <1>8 DEF IInv

LEMMA CollectFailsKeeps == IInv /\ CollectFails => IInv'
  <1> SUFFICES ASSUME IInv, CollectFails PROVE IInv'
    OBVIOUS
  <1> DEFINE new == <<Fallback(call.section, Dc)>>
             columns == EmptyFields(call.section)
             both == {Dc}
             none == {}
  <1>1. /\ call.pc = "collect" /\ call.next \in DOMAIN call.dcs
        /\ call.section \in Inventory /\ call.rows \in Seq(AnyRow) /\ Dc \in STRING
        /\ call \in Calls /\ answer' = answer
    BY Shapes DEF CollectFails, Dc, IInv
  <1>2. /\ call' = [call EXCEPT !.rows = @ \o new, !.next = @ + 1, !.failed = @ \cup {Dc}]
        /\ events \subseteq events' /\ <<"unreachable", Dc>> \in events'
    BY DEF CollectFails
  <1>3. /\ "Unreachable" \in Statuses /\ columns \in Columns
        /\ Fallback(call.section, Dc) = Row(Dc, "Unreachable", columns)
    BY <1>1, ColumnFacts DEF Statuses, Fallback
  <1>4. Fallback(call.section, Dc) \in AnyRow
    BY <1>1, <1>3 DEF AnyRow
  <1>5. /\ new \in Seq(AnyRow) /\ new = <<Row(Dc, "Unreachable", columns)>> /\ new # <<>>
        /\ DOMAIN new = {1} /\ new[1] = Fallback(call.section, Dc)
    <2> HIDE DEF columns
    <2>1. QED
      BY <1>3, <1>4, SMT
  <1>6. \A j \in DOMAIN new : \E status \in Statuses : new[j] = Row(Dc, status, columns)
    BY <1>3, <1>5
  <1>7. /\ call'.pc = call.pc /\ call'.section = call.section /\ call'.api = call.api
        /\ call'.dcs = call.dcs /\ call'.rows = call.rows \o new /\ call'.next = call.next + 1
        /\ call'.failed = call.failed \cup {Dc} /\ call'.silent = call.silent
    BY <1>1, <1>2 DEF Calls
  <1> HIDE DEF new
  <1>8. call.rows \o new \in Seq(AnyRow) /\ call.next + 1 \in Nat \ {0}
    <2>1. call.rows \o new \in Seq(AnyRow)
      BY <1>1, <1>5, SMT
    <2>2. call.next \in Nat \ {0}
      BY <1>1 DEF Calls
    <2>3. QED
      BY <2>1, <2>2, SMT
  <1>9. call' \in Calls
    <2>1. call.failed \cup {Dc} \in SUBSET STRING
      BY <1>1 DEF Calls
    <2>2. call' = [call EXCEPT !.rows = call.rows \o new, !.next = call.next + 1,
                               !.failed = call.failed \cup {Dc}]
      BY <1>1, <1>2 DEF Calls
    <2>3. QED
      BY <1>1, <1>8, <2>1, <2>2 DEF Calls
  <1>10. Phases' /\ Collected'
    <2>1. /\ columns \in {{}, InventoryColumns[call.section]}
          /\ none \in SUBSET {Dc} /\ both \in SUBSET {Dc}
          /\ call'.failed = call.failed \cup both /\ call'.silent = call.silent \cup none
      BY <1>1, <1>7, ColumnFacts
    <2> HIDE DEF both, columns, none
    <2>2. PICK cs, f, q, more : cs = columns /\ f = both /\ q = none /\ more = new
      OBVIOUS
    <2>3. /\ cs \in {{}, InventoryColumns[call.section]}
          /\ f \in SUBSET {Dc} /\ q \in SUBSET {Dc}
          /\ call'.failed = call.failed \cup f /\ call'.silent = call.silent \cup q
      BY <1>7, <2>1, <2>2
    <2>4. /\ more \in Seq(AnyRow)
          /\ f = {Dc} => more = <<Row(Dc, "Unreachable", cs)>>
          /\ more = <<>> => q = {Dc}
          /\ call'.rows = call.rows \o more
          /\ \A j \in DOMAIN more : \E status \in Statuses : more[j] = Row(Dc, status, cs)
      BY <1>5, <1>6, <1>7, <2>2
    <2>5. QED
      <3>1. /\ IInv /\ call.pc = "collect" /\ call.next \in DOMAIN call.dcs /\ call' \in Calls
            /\ call'.pc = call.pc /\ call'.api = call.api /\ call'.section = call.section
            /\ call'.dcs = call.dcs /\ call'.next = call.next + 1
        BY <1>1, <1>7, <1>9
      <3>2. QED
        BY <2>3, <2>4, <3>1, Gathers, Zenon
  <1>11. FailedIsFlagged'
    <2>1. FailedIsFlagged
      BY DEF IInv
    <2>2. \A dc \in call'.failed \ call.failed :
             /\ \E j \in DOMAIN new : new[j] = Fallback(call.section, dc)
             /\ <<"unreachable", dc>> \in events'
      BY <1>2, <1>5, <1>7
    <2>3. QED
      BY <1>1, <1>2, <1>5, <1>7, <2>1, <2>2, StaysFlagged
  <1>12. QED
    BY <1>1, <1>9, <1>10, <1>11 DEF IInv

LEMMA CollectEndsKeeps == IInv /\ CollectEnds => IInv'
  <1> SUFFICES ASSUME IInv, CollectEnds PROVE IInv'
    OBVIOUS
  <1>1. /\ call.pc = "collect" /\ call.section \in Inventory /\ call \in Calls
        /\ call.next \notin DOMAIN call.dcs /\ call.next \in Nat \ {0}
        /\ DOMAIN call.dcs = 1 .. Len(call.dcs) /\ Len(call.dcs) \in Nat
    BY Shapes DEF CollectEnds, IInv
  <1> /\ call.api \in {"page", "query"} /\ Phases /\ Collected /\ FailedIsFlagged
    BY <1>1 DEF IInv, Phases
  <1>2. /\ call' = [call EXCEPT !.pc = "returned"] /\ events' = events
        /\ answer'.kind = call.api
    BY DEF CollectEnds
  <1>3. /\ call'.pc = "returned" /\ call'.section = call.section /\ call'.dcs = call.dcs
        /\ call'.next = call.next /\ call'.rows = call.rows /\ call'.failed = call.failed
        /\ call'.silent = call.silent /\ call'.api = call.api /\ call' \in Calls
    BY <1>1, <1>2 DEF Calls
  <1>4. Phases'
    BY <1>1, <1>3, SMT DEF Phases
  <1>5. Collected' /\ FailedIsFlagged'
    BY <1>1, <1>2, <1>3
      DEF Collected, RowsKnown, OutcomesKnown, RowsOrdered, HadTheirTurn, FailedIsFlagged, AboutIn
  <1>6. QED
    BY <1>2, <1>3, <1>4, <1>5 DEF IInv, Kinds

LEMMA ReturnKeeps ==
    ASSUME IInv, call' = Idle, answer'.kind \in Kinds
    PROVE  IInv'
  BY IdleIsFresh DEF IInv

LEMMA InvariantKept == IInv /\ [Next]_vars => IInv'
  <1> SUFFICES ASSUME IInv, [Next]_vars PROVE IInv'
    OBVIOUS
  <1>1. call.pc = "run" => call.api \in {"page", "query"}
    BY DEF IInv, Phases
  <1>2. CASE Begin
    BY <1>2, BeginKeeps
  <1>3. CASE Enumerate
    <2>1. PICK n \in 0 .. Len(DcList) : Start(SubSeq(DcList, 1, n))
      BY <1>3 DEF Enumerate
    <2>2. QED
      BY <1>3, <2>1, Begun DEF Enumerate
  <1>4. CASE EnumerateFails
    BY <1>4, EntryIsPrefix, Begun DEF EnumerateFails
  <1>5. CASE Collect
    BY <1>5, CollectKeeps
  <1>6. CASE CollectFails
    BY <1>6, CollectFailsKeeps
  <1>7. CASE CollectEnds
    BY <1>7, CollectEndsKeeps
  <1>8. CASE Done
    <2>1. call' = Idle /\ answer' = answer
      BY <1>8 DEF Done
    <2>2. answer'.kind \in Kinds
      BY <2>1 DEF IInv
    <2>3. QED
      BY <2>1, <2>2, ReturnKeeps
  <1>9. CASE RunGroups
    <2>1. call' = Idle /\ answer'.kind = call.api /\ call.pc = "run"
      BY <1>9 DEF RunGroups, Return
    <2>2. QED
      BY <1>1, <2>1, ReturnKeeps DEF Kinds
  <1>10. CASE RunPlain
    <2>1. call.pc = "run"
      BY <1>10 DEF RunPlain
    <2>2. \E rows, warnings, missing, cause : Return(call.api, rows, warnings, missing, cause)
      BY <1>10, Zenon DEF RunPlain
    <2>3. call' = Idle /\ answer'.kind = call.api
      BY <2>2 DEF Return
    <2>4. QED
      BY <1>1, <2>1, <2>3, ReturnKeeps DEF Kinds
  <1>11. CASE RunFails
    <2>1. call' = Idle /\ answer'.kind \in {"page", "raised"}
      BY <1>11 DEF RunFails, Return
    <2>2. QED
      BY <2>1, ReturnKeeps DEF Kinds
  <1>12. CASE UNCHANGED vars
    <2>1. call' = call /\ events' = events /\ answer' = answer
      BY <1>12 DEF vars
    <2>2. Phases' <=> Phases
      BY <2>1 DEF Phases, Fresh
    <2>3. (RowsKnown' <=> RowsKnown) /\ (OutcomesKnown' <=> OutcomesKnown)
      BY <2>1 DEF RowsKnown, OutcomesKnown, AboutIn
    <2>4. (RowsOrdered' <=> RowsOrdered) /\ (HadTheirTurn' <=> HadTheirTurn)
      BY <2>1 DEF RowsOrdered, HadTheirTurn, AboutIn
    <2>5. FailedIsFlagged' <=> FailedIsFlagged
      BY <2>1 DEF FailedIsFlagged
    <2>6. QED
      BY <2>1, <2>2, <2>3, <2>4, <2>5 DEF IInv, Collected
  <1>13. QED
    BY <1>2, <1>3, <1>4, <1>5, <1>6, <1>7, <1>8, <1>9, <1>10, <1>11, <1>12 DEF Next

LEMMA Invariance == Spec => []IInv
  <1>1. Init => IInv
    BY InitEstablishes
  <1>2. IInv /\ [Next]_vars => IInv'
    BY InvariantKept
  <1>3. QED
    BY <1>1, <1>2, PTL DEF Spec
-----------------------------------------------------------------------------
\* The call goes through the DCs of its list and notes the outcome of none before its turn, in any
\* forest (collect_dc_inventory).
THEOREM TypeCorrect == Spec => []TypeOK
  <1>1. IInv => TypeOK
    BY DEF IInv, TypeOK, Calls, Phases, Collected, HadTheirTurn
  <1>2. QED
    BY <1>1, Invariance, PTL

\* In any forest, a DC whose PowerShell failed has its row and its line in the event log from that
\* moment on (the except branch of collect_dc_inventory).
THEOREM FailedDcsAreFlagged == Spec => []FailedIsFlagged
  <1>1. IInv => FailedIsFlagged
    BY DEF IInv
  <1>2. QED
    BY <1>1, Invariance, PTL

LEMMA CompleteAtTheEnd == IInv => InventoryIsComplete
  <1> SUFFICES ASSUME IInv, call.pc = "returned"
               PROVE  /\ \A k \in DOMAIN call.dcs :
                            LET dc == call.dcs[k] IN
                            /\ dc \in call.failed =>
                                  /\ Cardinality(About(dc)) = 1
                                  /\ \A i \in About(dc) : call.rows[i]["Status"] = Str("Unreachable")
                            /\ dc \notin call.failed \cup call.silent => About(dc) # {}
                      /\ \A k, l \in DOMAIN call.dcs :
                            k < l => \A i \in About(call.dcs[k]), j \in About(call.dcs[l]) : i < j
    BY DEF InventoryIsComplete
  <1>1. OutcomesKnown /\ RowsOrdered
    BY DEF IInv, Collected
  <1>2. 1 .. call.next - 1 = DOMAIN call.dcs
    <2>1. call.next = Len(call.dcs) + 1
      BY DEF IInv, Phases
    <2>2. QED
      BY <2>1, Shapes, SMT
  <1>3. \A dc : About(dc) = AboutIn(call.rows, dc)
    BY DEF About, AboutIn
  <1>4. ASSUME NEW k \in DOMAIN call.dcs, call.dcs[k] \in call.failed
        PROVE  /\ Cardinality(About(call.dcs[k])) = 1
               /\ \A i \in About(call.dcs[k]) : call.rows[i]["Status"] = Str("Unreachable")
    <2>1. PICK i \in DOMAIN call.rows : /\ AboutIn(call.rows, call.dcs[k]) = {i}
                                       /\ call.rows[i]["Status"] = Str("Unreachable")
      BY <1>1, <1>2, <1>4 DEF OutcomesKnown
    <2>2. Cardinality({i}) = 1
      BY FS_Singleton
    <2>3. QED
      BY <1>3, <2>1, <2>2
  <1>5. ASSUME NEW k \in DOMAIN call.dcs, call.dcs[k] \notin call.failed \cup call.silent
        PROVE  About(call.dcs[k]) # {}
    BY <1>1, <1>2, <1>3, <1>5 DEF OutcomesKnown
  <1>6. ASSUME NEW k \in DOMAIN call.dcs, NEW l \in DOMAIN call.dcs, k < l,
               NEW i \in About(call.dcs[k]), NEW j \in About(call.dcs[l])
        PROVE  i < j
    BY <1>1, <1>2, <1>3, <1>6 DEF RowsOrdered
  <1>7. QED
    BY <1>4, <1>5, <1>6

\* In any forest, when the inventory of the DCs returns, none of those that were enumerated is
\* missing, none that failed has a second row, and the rows keep the order of the DCs.
THEOREM InventoriesAreComplete == Spec => []InventoryIsComplete
  BY CompleteAtTheEnd, Invariance, PTL
-----------------------------------------------------------------------------
LEMMA WarnedFromTheStart == Init => MissingIsWarned
  <1>1. NoAnswer.missing = {}
    BY DEF NoAnswer
  <1>2. QED
    BY <1>1 DEF Init, MissingIsWarned

\* What the filter of the answers lets through of the warnings of a group section.
LEMMA WarningsRemain ==
    ASSUME NEW section \in GroupSections, NEW failed, NEW orphans, failed # {}
    PROVE  LET warnings == GroupWarnings(section, failed, orphans)
           IN  /\ WarningsForJson(section, warnings) # {}
               /\ WarningsForJson(section, warnings) \subseteq warnings
               /\ \A g \in failed : <<"group", g>> \in warnings
  <1> DEFINE warnings == GroupWarnings(section, failed, orphans)
  <1>1. PICK g : g \in failed
    OBVIOUS
  <1>2. \A h \in failed : <<"group", h>> \in warnings
    BY DEF GroupWarnings
  <1>3. section # "privileged_groups" => <<"failed groups", "">> \in warnings
    BY <1>1 DEF GroupWarnings
  <1> HIDE DEF warnings
  <1>4. WarningsForJson(section, warnings) \subseteq warnings
    BY DEF WarningsForJson
  <1>5. WarningsForJson(section, warnings) # {}
    <2>1. CASE section = "group_members"
      <3>1. <<"failed groups", "">> \in {w \in warnings : w[1] # "group"}
        BY <1>3, <2>1
      <3>2. QED
        BY <2>1, <3>1 DEF WarningsForJson
    <2>2. CASE section # "group_members"
      BY <1>1, <1>2, <2>2 DEF WarningsForJson
    <2>3. QED
      BY <2>1, <2>2
  <1>6. QED
    BY <1>2, <1>4, <1>5 DEF warnings

LEMMA WarnedStill ==
    IInv /\ MissingIsWarned /\ [Next]_vars => MissingIsWarned'
  <1> SUFFICES ASSUME IInv, MissingIsWarned, [Next]_vars PROVE MissingIsWarned'
    OBVIOUS
  <1>1. ASSUME answer' = answer, events \subseteq events' PROVE MissingIsWarned'
    BY <1>1 DEF MissingIsWarned
  <1>2. ASSUME answer'.missing = {} PROVE MissingIsWarned'
    BY <1>2 DEF MissingIsWarned
  <1>3. CASE Begin
    <2>1. answer'.missing = {}
      <3>1. PICK section \in Sections : \/ answer' = NoAnswer
                                       \/ answer' = [NoAnswer EXCEPT !.kind = "page",
                                                                     !.section = section]
        BY <1>3 DEF Begin
      <3>2. CASE answer' = NoAnswer
        BY <3>2 DEF NoAnswer
      <3>3. CASE answer' = [NoAnswer EXCEPT !.kind = "page", !.section = section]
        BY <3>3 DEF NoAnswer
      <3>4. QED
        BY <3>1, <3>2, <3>3
    <2>2. QED
      BY <1>2, <2>1
  <1>4. CASE Enumerate \/ EnumerateFails \/ Collect \/ CollectFails \/ Done
    <2>1. answer' = answer
      BY <1>4 DEF Enumerate, EnumerateFails, Collect, CollectFails, Done
    <2>2. events \subseteq events'
      BY <1>4 DEF Enumerate, EnumerateFails, Collect, CollectFails, Done
    <2>3. QED
      BY <1>1, <2>1, <2>2
  <1>5. CASE CollectEnds
    <2>1. answer'.section \in Inventory
      BY <1>5 DEF CollectEnds, IInv, Phases
    <2>2. Inventory \cap (GroupSections \cup {"schema"}) = {}
      BY SMT DEF Inventory, InventoryColumns, GroupSections
    <2>3. QED
      BY <2>1, <2>2 DEF MissingIsWarned
  <1>6. CASE RunGroups
    <2>1. call.section \in GroupSections
      BY <1>6 DEF RunGroups
    <2>2. PICK failed \in SUBSET Groups : \E orphans \in SUBSET (Groups \ failed) :
             LET warnings == GroupWarnings(call.section, failed, orphans)
             IN  /\ events' = events \cup warnings
                 /\ Return(call.api, GroupRows(call.section, failed),
                           IF call.api = "page" THEN WarningsForJson(call.section, warnings) ELSE {},
                           failed, "ok")
      BY <1>6 DEF RunGroups
    <2>3. PICK orphans \in SUBSET (Groups \ failed) :
             LET warnings == GroupWarnings(call.section, failed, orphans)
             IN  /\ events' = events \cup warnings
                 /\ Return(call.api, GroupRows(call.section, failed),
                           IF call.api = "page" THEN WarningsForJson(call.section, warnings) ELSE {},
                           failed, "ok")
      BY <2>2
    <2>4. /\ answer'.missing = failed /\ answer'.kind = call.api
          /\ answer'.kind = "page" =>
                answer'.warnings = WarningsForJson(call.section,
                                                   GroupWarnings(call.section, failed, orphans))
          /\ GroupWarnings(call.section, failed, orphans) \subseteq events'
      BY <2>3 DEF Return
    <2>5. CASE failed = {}
      BY <1>2, <2>4, <2>5
    <2>6. CASE failed # {}
      <3>1. /\ WarningsForJson(call.section, GroupWarnings(call.section, failed, orphans)) # {}
            /\ WarningsForJson(call.section, GroupWarnings(call.section, failed, orphans))
                  \subseteq GroupWarnings(call.section, failed, orphans)
            /\ \A g \in failed : <<"group", g>> \in GroupWarnings(call.section, failed, orphans)
        BY <2>1, <2>6, WarningsRemain
      <3>2. QED
        BY <2>4, <3>1 DEF MissingIsWarned
    <2>7. QED
      BY <2>5, <2>6
  <1>7. CASE RunPlain
    <2>1. PICK n \in 0 .. Cap + 1, caught \in BOOLEAN :
             LET capped == call.section = "schema" /\ n > Cap
                 warnings == IF capped THEN {<<"truncated", "">>} ELSE {}
             IN  /\ events' = events \cup warnings
                 /\ Return(call.api, [i \in 1 .. (IF capped THEN Cap ELSE n) |-> call.section],
                           IF call.api = "page" THEN warnings ELSE {},
                           IF capped THEN {"rows"} ELSE {}, IF caught THEN "caught" ELSE "ok")
      BY <1>7 DEF RunPlain
    <2>2. CASE call.section = "schema" /\ n > Cap
      <3>1. /\ events' = events \cup {<<"truncated", "">>} /\ answer'.section = "schema"
            /\ answer'.kind = "page" => answer'.warnings = {<<"truncated", "">>}
        BY <2>1, <2>2 DEF Return
      <3>2. QED
        BY <3>1 DEF MissingIsWarned
    <2>3. CASE ~(call.section = "schema" /\ n > Cap)
      <3>1. answer'.missing = {}
        BY <2>1, <2>3 DEF Return
      <3>2. QED
        BY <1>2, <3>1
    <2>4. QED
      BY <2>2, <2>3
  <1>8. CASE RunFails
    <2>1. answer'.missing = {}
      BY <1>8 DEF RunFails, Return
    <2>2. QED
      BY <1>2, <2>1
  <1>9. CASE UNCHANGED vars
    BY <1>1, <1>9 DEF vars
  <1>10. QED
    BY <1>3, <1>4, <1>5, <1>6, <1>7, <1>8, <1>9 DEF Next

\* For any groups and any cap: an answer that lacks groups or schema objects says so, and the event
\* log names each group although the answer of group_members does not (_warnings_for_json).
THEOREM MissingAlwaysWarned == Spec => []MissingIsWarned
  BY WarnedFromTheStart, WarnedStill, Invariance, PTL DEF Spec
-----------------------------------------------------------------------------
\* Null and a text that is not a JSON list come back from the table as they were.
LEMMA TextSurvives ==
    /\ Deserialize(Serialize(Null)) = Null
    /\ \A t : t \notin ListText => Deserialize(Serialize(Str(t))) = Str(t)
  <1>1. Serialize(Null) = Null
    BY DEF Serialize
  <1>2. Deserialize(Null) = Null
    BY SMT DEF Deserialize, Null
  <1>3. ASSUME NEW t, t \notin ListText
        PROVE  Deserialize(Serialize(Str(t))) = Str(t)
    <2>1. Serialize(Str(t)) = Str(t)
      BY SMT DEF Serialize, Str, Null
    <2>2. Deserialize(Str(t)) = Str(t)
      BY <1>3, SMT DEF Deserialize, Str
    <2>3. QED
      BY <2>1, <2>2
  <1>4. QED
    BY <1>1, <1>2, <1>3

LEMMA RowSurvives ==
    ASSUME NEW dc, dc \notin ListText, NEW status \in Statuses, NEW columns,
           NEW c \in {"DC", "Status"} \cup columns
    PROVE  Deserialize(Serialize(Get(Row(dc, status, columns), c, Null)))
              = Row(dc, status, columns)[c]
  <1>1. Row(dc, status, columns)[c] \in {Str(dc), Str(status), Str("data"), Null}
    BY DEF Row
  <1>2. Get(Row(dc, status, columns), c, Null) = Row(dc, status, columns)[c]
    <2>1. c \in DOMAIN Row(dc, status, columns)
      BY RowFacts
    <2>2. QED
      BY <2>1 DEF Get
  <1>3. status \notin ListText /\ "data" \notin ListText
    BY SMT DEF Statuses, ListText
  <1>4. QED
    BY <1>1, <1>2, <1>3, TextSurvives

\* The first row is about the first DC when there is no warning row and that DC failed.
LEMMA FirstIsFallback ==
    ASSUME IInv, call.section \in Inventory, call.dcs # <<>>, Len(call.dcs) <= Many,
           call.dcs[1] \in call.failed
    PROVE  1 \in DOMAIN call.rows /\ call.rows[1] = Fallback(call.section, call.dcs[1])
  <1>1. /\ call.rows \in Seq(AnyRow) /\ Len(call.dcs) \in Nat /\ DOMAIN call.dcs = 1 .. Len(call.dcs)
        /\ call.next \in Nat \ {0}
        /\ \A k, l \in DOMAIN call.dcs : call.dcs[k] = call.dcs[l] => k = l
    BY Shapes
  <1>2. call.next \in 1 .. Len(call.dcs) + 1 /\ RowsKnown /\ OutcomesKnown /\ RowsOrdered /\ HadTheirTurn
    BY DEF IInv, Phases, Collected
  <1>3. 1 \in 1 .. call.next - 1
    <2>1. call.dcs[1] \in {call.dcs[k] : k \in 1 .. call.next - 1}
      BY <1>2 DEF HadTheirTurn
    <2>2. PICK k \in 1 .. call.next - 1 : call.dcs[1] = call.dcs[k]
      BY <2>1
    <2>3. QED
      BY <1>1, <2>2, SMT
  <1>4. PICK i \in DOMAIN call.rows : call.rows[i] = Fallback(call.section, call.dcs[1])
    BY DEF IInv, FailedIsFlagged
  <1>5. 1 \in DOMAIN call.rows /\ i >= 1
    BY <1>1, SMT
  <1>6. i \in AboutIn(call.rows, call.dcs[1])
    BY <1>4, RowFacts DEF AboutIn, Fallback
  <1>7. PICK k \in 1 .. call.next - 1 : 1 \in AboutIn(call.rows, call.dcs[k])
    <2>1. ~(Len(call.dcs) > Many)
      BY <1>1, Constants, SMT
    <2>2. PICK k \in 1 .. call.next - 1, status \in Statuses :
             \E cs \in {{}, InventoryColumns[call.section]} :
                call.rows[1] = Row(call.dcs[k], status, cs)
      BY <1>2, <1>5, <2>1 DEF RowsKnown
    <2>3. QED
      BY <1>5, <2>2, RowFacts DEF AboutIn
  <1>8. k = 1
    <2>1. 1 < k => i < 1
      BY <1>2, <1>3, <1>6, <1>7 DEF RowsOrdered
    <2>2. ~(i < 1) /\ (k # 1 => 1 < k)
      BY <1>1, <1>5, SMT
    <2>3. QED
      BY <2>1, <2>2
  <1>9. i = 1
    <2>1. PICK n \in DOMAIN call.rows : AboutIn(call.rows, call.dcs[1]) = {n}
      BY <1>2, <1>3 DEF OutcomesKnown
    <2>2. QED
      BY <2>1, <1>6, <1>7, <1>8
  <1>10. QED
    BY <1>4, <1>5, <1>9

LEMMA FitsTable == IInv => FallbackFitsTable
  <1> SUFFICES ASSUME IInv, call.section \in Inventory \ {"eventlog_config"},
                      call.dcs # <<>>, Len(call.dcs) <= Many, call.dcs[1] \in call.failed,
                      NEW i \in DOMAIN call.rows, NEW c \in DOMAIN call.rows[i]
               PROVE  Get(Loaded(call.section, call.rows)[i], c, Null) = call.rows[i][c]
    BY DEF FallbackFitsTable, Survives
  <1> DEFINE columns == InventoryColumns[call.section]
  <1>1. call.section \in KNOWN_SECTIONS
    BY SMT DEF KNOWN_SECTIONS, Inventory, InventoryColumns
  <1>2. /\ Len(call.dcs) \in Nat /\ DOMAIN call.dcs = 1 .. Len(call.dcs)
        /\ \A k \in DOMAIN call.dcs : call.dcs[k] \notin ListText
        /\ call.next \in Nat \ {0} /\ call.next \in 1 .. Len(call.dcs) + 1
    BY Shapes DEF IInv, Phases
  <1>3. DOMAIN call.rows[1] = {"DC", "Status"} \cup columns
    <2>1. call.rows[1] = Row(call.dcs[1], "Unreachable", columns)
      <3>1. call.section \in Inventory /\ call.section # "eventlog_config"
        OBVIOUS
      <3>2. call.rows[1] = Fallback(call.section, call.dcs[1])
        BY <3>1, FirstIsFallback
      <3>3. QED
        BY <3>1, <3>2, Zenon DEF Fallback, EmptyFields
    <2>2. \A cs : DOMAIN Row(call.dcs[1], "Unreachable", cs) = {"DC", "Status"} \cup cs
      BY RowFacts
    <2> HIDE DEF columns
    <2>3. QED
      BY <2>1, <2>2, Zenon
  <1>4. PICK k \in 1 .. call.next - 1, status \in Statuses, cs \in {{}, columns} :
           call.rows[i] = Row(call.dcs[k], status, cs)
    <2>1. ~(Len(call.dcs) > Many)
      BY <1>2, Constants, SMT
    <2>2. QED
      BY <2>1 DEF IInv, Collected, RowsKnown
  <1> HIDE DEF columns
  <1>5. c \in {"DC", "Status"} \cup cs
    <2>1. DOMAIN Row(call.dcs[k], status, cs) = {"DC", "Status"} \cup cs
      BY RowFacts, Zenon
    <2>2. QED
      BY <1>4, <2>1, Zenon
  <1>6. Deserialize(Serialize(Get(call.rows[i], c, Null))) = call.rows[i][c]
    <2>1. call.dcs[k] \notin ListText
      <3>1. PICK n, m \in Nat : n = Len(call.dcs) /\ m = call.next
        BY <1>2
      <3>2. m \in 1 .. n + 1 /\ k \in 1 .. m - 1 /\ DOMAIN call.dcs = 1 .. n
        BY <1>2, <3>1
      <3>3. k \in 1 .. n
        BY <3>2, SMT
      <3>4. QED
        BY <1>2, <3>2, <3>3
    <2>2. PICK dc : dc = call.dcs[k]
      OBVIOUS
    <2>3. Deserialize(Serialize(Get(Row(dc, status, cs), c, Null))) = Row(dc, status, cs)[c]
      BY <1>5, <2>1, <2>2, RowSurvives
    <2>4. QED
      BY <1>4, <2>2, <2>3
  <1>7. Loaded(call.section, call.rows)[i]
           = [d \in DOMAIN call.rows[1] |-> Deserialize(Serialize(Get(call.rows[i], d, Null)))]
    BY <1>1 DEF Loaded, Stored
  <1>8. c \in DOMAIN call.rows[1]
    BY <1>3, <1>5
  <1>9. /\ c \in DOMAIN Loaded(call.section, call.rows)[i]
        /\ Loaded(call.section, call.rows)[i][c] = call.rows[i][c]
    BY <1>6, <1>7, <1>8
  <1>10. QED
    BY <1>9 DEF Get

\* In any forest that does not get the warning row: when the PowerShell of the first DC fails, every
\* value of every row, of the DCs that answer too, is still there after a file and its tables
\* (_DC_INVENTORY_EMPTY_FIELDS with _create_and_insert).  eventlog_config is not among the sections
\* the theorem is about.
THEOREM FallbackAlwaysFits == Spec => []FallbackFitsTable
  BY FitsTable, Invariance, PTL
================================================================================
