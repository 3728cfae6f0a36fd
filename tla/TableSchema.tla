---------------------------- MODULE TableSchema ----------------------------
(***************************************************************************)
(* Table declarations (schema/table.rs): what TableSchema::new accepts,    *)
(* and the NSCH encoding of a declaration, cells as in RowLayout.  An      *)
(* identifier is the sequence of its bytes.  What decode returns is a set  *)
(* of one schema, or of none when it answers an error.                     *)
(***************************************************************************)
EXTENDS RowLayout

CONSTANTS
    MaxColumns,        \* MAX_COLUMNS
    MaxIdentifier      \* MAX_IDENTIFIER_BYTES

SchemaMagic == 78      \* the four bytes of NSCH
SchemaVersion == 1

Letter == 65 .. 90 \cup 97 .. 122 \cup {95}    \* _ counts as one
Digit == 48 .. 57

TypeTag == [int |-> 1, float |-> 2, bool |-> 3, text |-> 4, bytes |-> 5]

-----------------------------------------------------------------------------
(* TableSchema::new                                                        *)
ValidIdentifier(string) ==
    /\ Len(string) \in 1 .. MaxIdentifier
    /\ string[1] \in Letter
    /\ \A i \in DOMAIN string : string[i] \in Letter \cup Digit

PrimaryKeys(columns) == {i \in DOMAIN columns : columns[i].primaryKey}

\* mutant: nobody looks at the flag of the primary key
NullableKeyAccepted(columns) == Cardinality(PrimaryKeys(columns)) = 1
ValidPrimaryKey(columns) ==
    /\ Cardinality(PrimaryKeys(columns)) = 1
    /\ \A i \in PrimaryKeys(columns) : ~columns[i].nullable

ValidSchema(name, columns) ==
    /\ ValidIdentifier(name)
    /\ Len(columns) \in 1 .. MaxColumns
    /\ \A i \in DOMAIN columns : ValidIdentifier(columns[i].name)
    /\ \A i, j \in DOMAIN columns : columns[i].name = columns[j].name => i = j
    /\ ValidPrimaryKey(columns)
    /\ MinimumRowSize(columns) <= MaxRowSize

-----------------------------------------------------------------------------
(* encode                                                                  *)
EncodedString(string) == <<Len(string)>> \o string

\* mutant: the two flags exchanged
FlagsExchanged(column) ==
    (IF column.nullable THEN 2 ELSE 0) + (IF column.primaryKey THEN 1 ELSE 0)
EncodedFlags(column) ==
    (IF column.nullable THEN 1 ELSE 0) + (IF column.primaryKey THEN 2 ELSE 0)

EncodedColumn(column) ==
    EncodedString(column.name) \o <<TypeTag[column.type], EncodedFlags(column)>>

EncodedSchema(name, columns) ==
    <<SchemaMagic, SchemaVersion, Len(columns)>> \o EncodedString(name)
        \o FlattenSeq([i \in DOMAIN columns |-> EncodedColumn(columns[i])])

-----------------------------------------------------------------------------
(* decode: a cursor is how many cells were taken; each read returns what   *)
(* it took and where it stopped, or nothing when the encoding is cut short *)
(* or wrong there.                                                         *)
ReadString(cells, at) ==
    IF at >= Len(cells) \/ at + 1 + cells[at + 1] > Len(cells) THEN {}
    ELSE LET string == SubSeq(cells, at + 2, at + 1 + cells[at + 1])
         IN  IF IsText(string) THEN {[taken |-> string, at |-> at + 1 + Len(string)]} ELSE {}

ColumnOf(name, type, flags) ==
    [name |-> name, type |-> type, nullable |-> flags % 2 = 1, primaryKey |-> (flags \div 2) % 2 = 1]

\* mutant: bits that name no flag are ignored
AnyFlags(flags) == TRUE
KnownFlags(flags) == flags <= 3

\* Another column behind those taken before.
ReadColumn(cells, before) ==
    UNION {
        {[taken |-> Append(before.taken, ColumnOf(name.taken, type, cells[name.at + 2])),
          at |-> name.at + 2] :
            type \in {t \in DataType : TypeTag[t] = cells[name.at + 1]
                                         /\ KnownFlags(cells[name.at + 2])}} :
        name \in {n \in ReadString(cells, before.at) : n.at + 2 <= Len(cells)}}

ReadColumns(cells, count, at) ==
    LET read[k \in 0 .. count] ==
          IF k = 0 THEN {[taken |-> <<>>, at |-> at]}
          ELSE UNION {ReadColumn(cells, before) : before \in read[k - 1]}
    IN  read[count]

DecodedSchemas(cells) ==
    LET walks(name) == {w \in ReadColumns(cells, cells[3], name.at) : w.at = Len(cells)}
        declared == UNION {{[name |-> name.taken, columns |-> walk.taken] : walk \in walks(name)} :
                             name \in ReadString(cells, 3)}
    IN  IF /\ Len(cells) >= 3
           /\ cells[1] = SchemaMagic /\ cells[2] = SchemaVersion
           /\ cells[3] \in 1 .. MaxColumns
        THEN {schema \in declared : ValidSchema(schema.name, schema.columns)} ELSE {}
=============================================================================
