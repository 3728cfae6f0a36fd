----------------------------- MODULE RowLayout -----------------------------
(***************************************************************************)
(* The row codec (schema/row.rs): a row is a sequence of cells, one for    *)
(* each byte, and one for each little-endian word, that the layout names:  *)
(*   the version, the null bitmap with eight columns to a byte, one slot   *)
(*   per column, and the payloads of text and bytes columns, whose slots   *)
(*   hold a descriptor of two cells: offset in the row, and length.        *)
(* Offsets count cells from 0, as the code's count bytes.  A column is     *)
(*   [name, type, nullable, primaryKey]                                    *)
(* and a value <<type, value>>, or Null.  Ints and floats are opaque.      *)
(***************************************************************************)
EXTENDS SlottedPage, SequencesExt, FiniteSetsExt

Null == <<"null">>

DataType == {"int", "float", "bool", "text", "bytes"}
Variable == {"text", "bytes"}

\* The values of a type.
ValueOf(type) ==
    {type} \X CASE type = "bool" -> BOOLEAN
                [] type = "text" -> Seq(0 .. 127)
                [] type = "bytes" -> Seq(0 .. 255)
                [] OTHER -> Nat

Column == [name : Seq(Nat), type : DataType, nullable : BOOLEAN, primaryKey : BOOLEAN]

RowVersion == 1

\* mutant: the whole area of a page, which also has to hold the slot entry
WholePage == PageSize - HeaderSize
MaxRowSize == PageSize - HeaderSize - SlotSize

\* from_utf8 of bytes of which none is part of a longer character.
IsText(cells) == \A i \in DOMAIN cells : cells[i] < 128

-----------------------------------------------------------------------------
(* compile: where each column's slot is.                                   *)
BitmapSize(columns) == (Len(columns) + 7) \div 8

Width(type) == IF type \in Variable THEN 2 ELSE 1

ColumnOffset(columns, i) ==
    1 + BitmapSize(columns) + MapThenSumSet(LAMBDA j : Width(columns[j].type), 1 .. i - 1)

MinimumRowSize(columns) == ColumnOffset(columns, Len(columns) + 1)

\* The bitmap byte and the bit of a column, counted from 0.
FirstByteOnly(i) == 1                                 \* mutant
BitmapByte(i) == 1 + (i - 1) \div 8
BitmapBit(i) == 2 ^ ((i - 1) % 8)

-----------------------------------------------------------------------------
(* encode, in one expression: what set_null, the copies into slots and     *)
(* append_variable leave in the row.                                       *)
Payload(value) == IF value[1] \in Variable THEN value[2] ELSE <<>>

PayloadOffset(columns, values, i) ==
    MinimumRowSize(columns) + MapThenSumSet(LAMBDA j : Len(Payload(values[j])), 1 .. i - 1)

NullBitmap(values) ==
    [b \in 1 .. BitmapSize(values) |->
        MapThenSumSet(BitmapBit, {i \in DOMAIN values : values[i] = Null /\ BitmapByte(i) = b})]

EncodedSlot(columns, values, i) ==
    LET value == values[i] IN
    CASE value = Null -> [c \in 1 .. Width(columns[i].type) |-> 0]
      [] value[1] = "bool" -> <<IF value[2] THEN 1 ELSE 0>>
      [] value[1] \in Variable -> <<PayloadOffset(columns, values, i), Len(value[2])>>
      [] OTHER -> <<value[2]>>

EncodedRow(columns, values) ==
    <<RowVersion>> \o NullBitmap(values)
        \o FlattenSeq([i \in DOMAIN values |-> EncodedSlot(columns, values, i)])
        \o FlattenSeq([i \in DOMAIN values |-> Payload(values[i])])

\* The values a row of these columns may be given, and whether encode takes them.
Conforms(columns, values) ==
    /\ Len(values) = Len(columns)
    /\ \A i \in DOMAIN values :
         \/ values[i] = Null /\ columns[i].nullable
         \/ values[i][1] = columns[i].type

EncodesRow(columns, values) ==
    Conforms(columns, values) /\ Len(EncodedRow(columns, values)) <= MaxRowSize

-----------------------------------------------------------------------------
(* validate, then decode.                                                  *)
IsNull(row, i) == (row[BitmapByte(i) + 1] \div BitmapBit(i)) % 2 = 1

\* A cell of column i's slot.
SlotCell(columns, row, i, c) == row[ColumnOffset(columns, i) + c]

\* expected_payload_offset when validate reaches column i.
ExpectedOffset(columns, row) ==
    LET expected[i \in 1 .. Len(columns) + 1] ==
          IF i = 1 THEN MinimumRowSize(columns)
          ELSE IF IsNull(row, i - 1) \/ columns[i - 1].type \notin Variable THEN expected[i - 1]
          ELSE expected[i - 1] + SlotCell(columns, row, i - 1, 2)
    IN  expected

\* mutant: the slot of a null column may hold anything
NullSlotUnchecked(columns, row, i) == columns[i].nullable
ValidNull(columns, row, i) ==
    /\ columns[i].nullable
    /\ \A c \in 1 .. Width(columns[i].type) : SlotCell(columns, row, i, c) = 0

DecodedPayload(columns, row, i) ==
    LET offset == SlotCell(columns, row, i, 1)
    IN  SubSeq(row, offset + 1, offset + SlotCell(columns, row, i, 2))

ValidVariable(columns, row, i) ==
    /\ SlotCell(columns, row, i, 1) = ExpectedOffset(columns, row)[i]
    /\ SlotCell(columns, row, i, 1) + SlotCell(columns, row, i, 2) <= Len(row)
    /\ columns[i].type = "text" => IsText(DecodedPayload(columns, row, i))

ValidColumn(columns, row, i) ==
    IF IsNull(row, i) THEN ValidNull(columns, row, i)
    ELSE CASE columns[i].type = "bool" -> SlotCell(columns, row, i, 1) \in {0, 1}
           [] columns[i].type \in Variable -> ValidVariable(columns, row, i)
           [] OTHER -> TRUE

ValidRow(columns, row) ==
    /\ Len(row) \in MinimumRowSize(columns) .. MaxRowSize
    /\ row[1] = RowVersion
    /\ \A i \in DOMAIN columns : ValidColumn(columns, row, i)
    /\ ExpectedOffset(columns, row)[Len(columns) + 1] = Len(row)

\* decode_column_unchecked
DecodedColumn(columns, row, i) ==
    LET type == columns[i].type
        value == SlotCell(columns, row, i, 1)
    IN  IF IsNull(row, i) THEN Null
        ELSE CASE type = "bool" -> <<type, value = 1>>
               [] type \in Variable -> <<type, DecodedPayload(columns, row, i)>>
               [] OTHER -> <<type, value>>

\* project, of decode's columns or of others: nothing when the row is corrupt
\* or a column out of bounds.
ProjectedRows(columns, row, indices) ==
    IF (\A k \in DOMAIN indices : indices[k] \in DOMAIN columns) /\ ValidRow(columns, row)
    THEN {[k \in DOMAIN indices |-> DecodedColumn(columns, row, indices[k])]} ELSE {}

DecodedRows(columns, row) == ProjectedRows(columns, row, [i \in DOMAIN columns |-> i])
=============================================================================
