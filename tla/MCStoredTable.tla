--------------------------- MODULE MCStoredTable ---------------------------
(* Records and rows of at most 47 cells.  A declaration of nine columns,   *)
(* whose null bitmap takes two bytes, has a record of 47; ten are refused. *)
(* The longest text and bytes fill a row of 47 together with the columns   *)
(* of the second declaration; with the text one byte longer it is refused. *)
EXTENDS StoredTable

Byte255 == 0 .. 255

Required(name, type) ==
    [name |-> <<name>>, type |-> type, nullable |-> FALSE, primaryKey |-> FALSE]
Nullable(name, type) == [Required(name, type) EXCEPT !.nullable = TRUE]
PrimaryKey(name, type) == [Required(name, type) EXCEPT !.primaryKey = TRUE]

Wide(n) == <<PrimaryKey(97, "int")>> \o [i \in 1 .. n - 1 |->
              IF i < n - 2 THEN Required(97 + i, "float") ELSE Nullable(97 + i, "bool")]

MCDeclarations == {
    <<PrimaryKey(97, "bool")>>,
    <<Nullable(97, "bytes"), PrimaryKey(98, "text"), Nullable(99, "bool")>>,
    Wide(9), Wide(10)}

Repeat(n, byte) == [i \in 1 .. n |-> byte]

MCValuesOf == [
    int |-> {<<"int", 0>>},
    float |-> {<<"float", 7>>},
    bool |-> {<<"bool", b>> : b \in BOOLEAN},
    text |-> {<<"text", s>> : s \in {<<>>, <<98>>, Repeat(20, 98), Repeat(21, 98)}},
    bytes |-> {<<"bytes", s>> : s \in {<<>>, Repeat(20, 200)}}]

MCCell == 0 .. 9 \cup {47, 65, 98, 128, 255}
=============================================================================
