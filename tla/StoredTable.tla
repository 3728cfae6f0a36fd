---------------------------- MODULE StoredTable ----------------------------
(***************************************************************************)
(* One table as bytes at rest: its declaration in a record of the catalog  *)
(* (catalog/mod.rs) and a row of it (schema/row.rs), through declaration,  *)
(* reopening, writing and reading, when the media change, cut or extend    *)
(* either of them.                                                         *)
(***************************************************************************)
EXTENDS TableSchema

CONSTANTS
    Declarations,    \* the columns of the tables declared
    ValuesOf,        \* the values given to columns of a type, Null apart
    Cell,            \* what damage may leave in a cell
    MaxDamage        \* bound on the damages

ASSUME StoredTableAssumption ==
    /\ Declarations \subseteq Seq(Column)
    /\ \A type \in DataType : ValuesOf[type] \subseteq ValueOf(type)
    /\ Cell \subseteq 0 .. 255
    /\ MaxDamage \in Nat

VARIABLES
    record,      \* the table's record in the catalog, <<>> before create_table
    tables,      \* the table as a Catalog holds it: a set of one, or of none
    row,         \* a row of the table, <<>> before it is written
    declared,    \* history: the table declared, unless its record was damaged
    written,     \* history: columns and values of the row, unless it was damaged
    damages      \* damages so far

vars == <<record, tables, row, declared, written, damages>>

-----------------------------------------------------------------------------
(* encode_table_record and decode_table_record.                            *)
RecordMagic == 84      \* the four bytes of NTBL
RecordVersion == 1
RecordHeaderSize == 6
FirstTableId == 1

EncodedRecord(table) ==
    LET schema == EncodedSchema(table.name, table.columns)
    IN  <<RecordMagic, RecordVersion, 0, table.id, table.heap, Len(schema)>> \o schema

TableOf(cells, schema) ==
    [id |-> cells[4], heap |-> cells[5], name |-> schema.name, columns |-> schema.columns]

DecodedTables(cells) ==
    IF /\ Len(cells) >= RecordHeaderSize
       /\ cells[1] = RecordMagic /\ cells[2] = RecordVersion /\ cells[3] = 0
       /\ cells[4] >= FirstTableId /\ cells[5] # 0
       /\ RecordHeaderSize + cells[6] = Len(cells)
    THEN {TableOf(cells, schema) :
            schema \in DecodedSchemas(SubSeq(cells, RecordHeaderSize + 1, Len(cells)))}
    ELSE {}

-----------------------------------------------------------------------------
\* Every list of one value per column.
Longer(lists, type) ==
    {Append(list, value) : list \in lists, value \in {Null} \cup ValuesOf[type]}

ValueLists(columns) ==
    LET lists[i \in 0 .. Len(columns)] ==
          IF i = 0 THEN {<<>>} ELSE Longer(lists[i - 1], columns[i].type)
    IN  lists[Len(columns)]

TypeOK ==
    /\ record \in Seq(Nat) /\ row \in Seq(Nat)
    /\ Cardinality(tables) <= 1
    /\ \A table \in tables :
         ValidSchema(table.name, table.columns) /\ table.id >= FirstTableId /\ table.heap # 0
    /\ damages \in 0 .. MaxDamage

Init ==
    /\ record = <<>> /\ tables = {} /\ row = <<>>
    /\ declared = {} /\ written = {}
    /\ damages = 0

\* TableSchema::new, and the part of create_table between its checks and the heap.
Declare(table) ==
    /\ record = <<>>
    /\ ValidSchema(table.name, table.columns)
    /\ Len(EncodedRecord(table)) <= MaxRowSize
    /\ record' = EncodedRecord(table)
    /\ tables' = {table} /\ declared' = {table}
    /\ UNCHANGED <<row, written, damages>>

\* Catalog::open meets the record.
Reopen ==
    /\ record # <<>>
    /\ tables' = DecodedTables(record)
    /\ UNCHANGED <<record, row, declared, written, damages>>

\* encode_row: any values of the right number and types.  What it refuses at once
\* (other counts or types, a missing required value) changes nothing: no step.
WriteRow(table, values) ==
    /\ EncodesRow(table.columns, values)
    /\ row' = EncodedRow(table.columns, values)
    /\ written' = {[columns |-> table.columns, values |-> values]}
    /\ UNCHANGED <<record, tables, declared, damages>>

Damaged(cells) ==
    {[cells EXCEPT ![i] = c] : i \in DOMAIN cells, c \in Cell}
        \cup {SubSeq(cells, 1, n) : n \in 1 .. Len(cells) - 1}
        \cup {Append(cells, c) : c \in Cell}

DamageRecord ==
    /\ damages < MaxDamage /\ damages' = damages + 1
    /\ record # <<>> /\ record' \in Damaged(record) \ {record}
    /\ declared' = {}
    /\ UNCHANGED <<tables, row, written>>

DamageRow ==
    /\ damages < MaxDamage /\ damages' = damages + 1
    /\ row # <<>> /\ row' \in Damaged(row) \ {row}
    /\ written' = {}
    /\ UNCHANGED <<record, tables, declared>>

Next ==
    \/ \E columns \in Declarations :
         Declare([id |-> FirstTableId, heap |-> 2, name |-> <<84>>, columns |-> columns])
    \/ Reopen
    \/ \E table \in tables : \E values \in ValueLists(table.columns) : WriteRow(table, values)
    \/ DamageRecord
    \/ DamageRow

Spec == Init /\ [][Next]_vars

-----------------------------------------------------------------------------
(* A catalog that is opened again holds each table as it was declared:     *)
(* columns in their order, with their types and flags, id and heap; and a  *)
(* catalog holds no table, damaged record or not, that new would refuse.   *)
DeclarationsSurvive ==
    TypeOK /\ \A table \in declared : DecodedTables(record) = {table}

(* Open accepts a record only if it is what create_table writes for the    *)
(* table it decodes to: damage that is not noticed gives another table,    *)
(* never a second encoding of one.                                         *)
RecordsCanonical ==
    record # <<>> => \A table \in DecodedTables(record) : EncodedRecord(table) = record

(* A row reads back as the values it was written with, under the catalog's *)
(* table before and after it is opened again.                              *)
RowsSurvive ==
    \A list \in written, table \in tables :
        table.columns = list.columns => DecodedRows(table.columns, row) = {list.values}

\* The row with the bits of its null bitmap that belong to no column cleared.
PaddingCleared(columns, cells) ==
    [cells EXCEPT ![BitmapSize(columns) + 1] = @ % (2 * BitmapBit(Len(columns)))]

(* decode accepts a row only if encode writes it for the values it decodes *)
(* to, padding bits of the bitmap apart: payloads neither overlap nor leave *)
(* a gap or a rest, and null columns hide nothing; under every table that  *)
(* opens, a damaged one included.                                          *)
RowsCanonical ==
    row # <<>> => \A table \in tables : \A values \in DecodedRows(table.columns, row) :
        EncodedRow(table.columns, values) = PaddingCleared(table.columns, row)

(* "Rows have a canonical, schema-dependent layout"; "invalid null         *)
(* encodings are rejected as corruption" (ARCHITECTURE.md, Row encoding).  *)
EachRowOneEncoding ==
    row # <<>> => \A table \in tables : \A values \in DecodedRows(table.columns, row) :
        EncodedRow(table.columns, values) = row

(* Whatever table opens and whatever row decodes under it, the primary key *)
(* of the row has a value.                                                 *)
PrimaryKeyNeverNull ==
    row # <<>> => \A table \in tables : \A values \in DecodedRows(table.columns, row) :
        \E i \in PrimaryKeys(table.columns) : values[i] # Null

(* encode_row takes exactly the rows that an empty heap page takes, and    *)
(* create_table the records: none that HeapFile could never store, and     *)
(* none less.                                                              *)
TakesWhatAPageTakes ==
    /\ record # <<>> /\ declared # {} => Insert(EmptyPage, record).res = "Ok"
    /\ row = <<>> => \A table \in tables : \A values \in ValueLists(table.columns) :
         Conforms(table.columns, values) =>
            (EncodesRow(table.columns, values)
               <=> Insert(EmptyPage, EncodedRow(table.columns, values)).res = "Ok")
=============================================================================
