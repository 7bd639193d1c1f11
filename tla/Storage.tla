-------------------------------- MODULE Storage --------------------------------
(***************************************************************************)
(* What becomes of rows on their way through SQLite (storage/loader.py,    *)
(* storage/queries.py) and how the tools read a field afterwards           *)
(* (tools/_normalize.py).  A row is a function from column names to JSON   *)
(* values; a value is a pair of its kind and of the text str() gives.      *)
(***************************************************************************)
EXTENDS Integers, Sequences, FiniteSets

Null == <<"null", "None">>
Bool(b) == <<"bool", IF b THEN "True" ELSE "False">>
Number(t) == <<"int", t>>
Str(t) == <<"str", t>>
List(t) == <<"list", t>>

\* The texts in the model that json.loads turns into a list.
ListText == {"[]", "[513]", "[S-1-5-21]"}

KNOWN_SECTIONS ==
    {"forest", "optional_features", "schema", "domains", "default_password_policy", "dcs",
     "fsmo_roles", "eventlog_config", "ntp_config", "sysvol", "sites", "site_links", "users",
     "privileged_accounts", "groups", "privileged_groups", "group_members", "ous", "gpos",
     "gpo_links", "blocked_inheritance", "trusts", "fgpp", "dns", "dns_forwarders",
     "computers", "pki", "dc_windows_features", "dc_services", "dc_installed_software",
     "schema_products", "fsp", "dc_file_locations", "dc_network_config"}

\* A value of a field: a list is written like one, and nothing else is (the loader would take it for
\* a list).
JsonValue(v) == \/ v \in {Null, Bool(TRUE), Bool(FALSE)}
                \/ v \in {Number(v[2]), Str(v[2])} /\ v[2] \notin ListText
                \/ v = List(v[2]) /\ v[2] \in ListText

\* row.get(column, default)
Get(row, column, default) == IF column \in DOMAIN row THEN row[column] ELSE default

\* bool(value)
Truthy(v) == v \notin {Null, Bool(FALSE), Number("0"), Str(""), List("[]")}
-----------------------------------------------------------------------------
\* Slip: only a list is dumped, SQLite takes the rest.
SerializeLists(v) == IF v[1] = "list" THEN Str(v[2]) ELSE v

\* _serialize: a list is dumped as JSON, everything else but None becomes its str().
Serialize(v) == IF v = Null THEN Null ELSE Str(v[2])

\* _deserialize_json_columns
Deserialize(v) == IF v[1] = "str" /\ v[2] \in ListText THEN List(v[2]) ELSE v

\* _create_and_insert, and SELECT * later: the columns are those of the first row.
Stored(rows) ==
    [i \in DOMAIN rows |->
        [c \in DOMAIN rows[1] |-> Deserialize(Serialize(Get(rows[i], c, Null)))]]

\* JsonLoader.load, and QueryEngine.query of the result: a section that the loader does not know,
\* or that is empty, has no table.
Loaded(section, rows) == IF section \in KNOWN_SECTIONS THEN Stored(rows) ELSE <<>>
-----------------------------------------------------------------------------
\* Slip: val is True.
TrueIsBool(v) == v = Bool(TRUE)

is_true(v) == IF v[1] = "bool" THEN v = Bool(TRUE) ELSE v[2] = "True"

\* Slip: not is_true(val).
FalseIsNotTrue(v) == ~is_true(v)

is_false(v) == IF v[1] = "bool" THEN v = Bool(FALSE) ELSE v[2] = "False"

is_admin_count_set(v) == v # Null /\ v[2] = "1"
-----------------------------------------------------------------------------
\* The positions of the rows a filter keeps.
Kept(rows, Keep(_)) == {i \in DOMAIN rows : Keep(rows[i])}

\* [r for r in rows if Keep(r)].  SelectSeq by positions, so that its length can be proved.
Filtered(rows, Keep(_)) ==
    LET kept == Kept(rows, Keep)
    IN  [k \in 1 .. Cardinality(kept) |->
            rows[CHOOSE i \in kept : Cardinality({j \in kept : j <= i}) = k]]

\* The texts that str(...).lower() maps to each lower-case name of the model.
Spelt == [staff |-> {"staff", "Staff"}, dc1 |-> {"dc1", "DC1"}, dc2 |-> {"dc2"}]

SameName(a, b) == a = b \/ \E n \in DOMAIN Spelt : {a, b} \subseteq Spelt[n]

\* query(section, column=value) and the same loop of query_page
ByColumn(rows, column, text) ==
    Filtered(rows, LAMBDA r : SameName(Get(r, column, Str(""))[2], text))

\* rows[offset : offset + limit] for offset and limit not below 0
Slice(answer, offset, limit) ==
    SubSeq(answer, offset + 1,
           IF offset + limit < Len(answer) THEN offset + limit ELSE Len(answer))

\* Slip: rows[offset + 1 :].
SkipFirst(answer, offset, limit) ==
    [items |-> Slice(answer, offset + 1, limit), total |-> Len(answer),
     has_more |-> offset + Len(Slice(answer, offset, limit)) < Len(answer)]

\* Slip: there is more than a page.
MoreThanLimit(answer, offset, limit) ==
    [items |-> Slice(answer, offset, limit), total |-> Len(answer),
     has_more |-> Len(answer) > limit]

\* QueryEngine.query_page once the rows are read and filtered
Page(answer, offset, limit) ==
    [items |-> Slice(answer, offset, limit), total |-> Len(answer),
     has_more |-> offset + Len(Slice(answer, offset, limit)) < Len(answer)]
================================================================================
