------------------------------- MODULE Tables -------------------------------
(***************************************************************************)
(* FMG text tables and PARAM row tables: the passes of their writers and   *)
(* readers.  A document is one of                                          *)
(*   FMG    [version, be, unicode, reuse_offsets, entries]                 *)
(*   PARAM  [format2d, be, unicode, type, rows]                            *)
(* An entry is [id, text, len]: text 0 is none, entries with the same text *)
(* have the same string, of len characters with its terminator.  A row is  *)
(* [size, name, len]: name 0 is the empty one.                             *)
(***************************************************************************)
EXTENDS Archives

Chars(d, n) == n * (IF d.unicode THEN 2 ELSE 1)

\* The first index whose element has the same string: where the string is,
\* when strings are shared.
FirstWith(s, i) == CHOOSE j \in 1 .. i : s[j] = s[i] /\ \A k \in 1 .. j - 1 : s[k] # s[i]
-----------------------------------------------------------------------------
(***************************************************************************)
(* FMG.  Entries are sorted by ID (entries of the same ID in any order:    *)
(* here as they are) and runs of consecutive IDs are stored as groups.     *)
(***************************************************************************)
wide(d) == d.version = "DARK_SOULS_3"
varint(d) == IF wide(d) THEN "VARINT_8" ELSE "VARINT_4"
per_offset(d) == KindWidth[varint(d)]

View(d) == LET ids == SetToSortSeq(DOMAIN d.entries,
                                   LAMBDA i, j : \/ d.entries[i].id < d.entries[j].id
                                                 \/ d.entries[i].id = d.entries[j].id /\ i < j)
           IN  [k \in DOMAIN ids |-> d.entries[ids[k]]]

\* The indices at which a group begins, in order, and the last one of a group.
GroupStarts(v) == SetToSortSeq({i \in DOMAIN v : i = 1 \/ v[i].id # v[i - 1].id + 1}, <)
GroupLast(v, i) == CHOOSE j \in i .. Len(v) : /\ j = Len(v) \/ v[j + 1].id # v[j].id + 1
                                              /\ \A k \in i .. j - 1 : v[k + 1].id = v[k].id + 1

FmgStart(d) == <<Zeros(1), Bool("big_endian", d.be)>>
FmgVersion(d) == <<Raw(d.version, 0, 0, 1), Zeros(1)>>
FmgFlags(d) == <<Bool("unicode", d.unicode), V("aux", IF d.version = "DEMONS_SOULS" THEN 255 ELSE 0, 1), Zeros(1), Zeros(1)>>
Group(d, v, g) ==
    LET i == GroupStarts(v)[g]
    IN  <<Num("offset_index", g, i - 1, 4), Num("first_id", g, v[i].id, 4), Num("last_id", g, v[GroupLast(v, i)].id, 4)>>
        \o When(wide(d), <<Const(0, 4)>>)

FmgString(d, v, i) == Raw("text", v[i].text, 0, Chars(d, v[i].len))
Texts(v) == [i \in DOMAIN v |-> v[i].text]

\* Which string the i-th offset refers to.
StringMark(d, v, i) == IF d.reuse_offsets THEN FirstWith(Texts(v), i) ELSE i

\* fmg_emit_strings_simple and fmg_emit_strings_dedup.
fmg_emit_strings(d, v) ==
    Each([i \in DOMAIN v |-> When(v[i].text # 0 /\ StringMark(d, v, i) = i, <<At(i), FmgString(d, v, i)>>)])

\* The table of offsets is written as a block of 0xFE, and written again when
\* the places of the strings are known.
fmg_write_body(d) ==
    LET v == View(d)
        n == Len(v)
    IN  <<Base("file"), Endian(d.be)>> \o FmgStart(d) \o FmgVersion(d) \o <<Reserve("FileSize", 0, "I32")>> \o FmgFlags(d)
        \o <<Reserve("GroupCount", 0, "I32"), V("string_count", n, 4)>> \o When(wide(d), <<Const(255, 4)>>)
        \o <<Reserve("StringOffsets", 0, varint(d)), Const(0, per_offset(d))>>
        \o Each([g \in DOMAIN GroupStarts(v) |-> Group(d, v, g)])
        \o <<Fill("GroupCount", 0, Len(GroupStarts(v)), "I32"), FillPos("StringOffsets", 0, varint(d)), Mark("string_table", 0)>>
        \o [i \in 1 .. n |-> Raw("pattern", i, 0, per_offset(d))]
        \o fmg_emit_strings(d, v)
        \o When(n > 0, <<StepAt("string_table", 0)>>
                       \o [i \in 1 .. n |-> IF v[i].text = 0 THEN Num("string_offset", i, 0, per_offset(d))
                                             ELSE Ref("string_offset", i, <<"at", StringMark(d, v, i)>>, "file", per_offset(d))]
                       \o <<StepBack>>)
        \o <<FillPos("FileSize", 0, "I32")>>

\* The i-th string: an offset of zero is an entry without text.
ReadString(d, v, i) ==
    IF v[i].text = 0 THEN <<Num("string_offset", i, 0, per_offset(d))>>
    ELSE <<Offset("string_offset", i, per_offset(d))>> \o Get("string_offset", i, <<FmgString(d, v, i)>>)

fmg_read(d) ==
    LET v == View(d)
        starts == GroupStarts(v)
    IN  FmgStart(d) \o <<Endian(d.be)>> \o FmgVersion(d) \o <<Skip(4)>> \o FmgFlags(d)
        \o <<V("GroupCount", Len(starts), 4), Skip(4)>> \o When(wide(d), <<Const(255, 4)>>)
        \o <<Offset("StringOffsets", 0, per_offset(d)), Const(0, per_offset(d))>>
        \o Each([g \in DOMAIN starts |->
                Group(d, v, g)
                \o <<StepInto("StringOffsets", 0, (starts[g] - 1) * per_offset(d))>>
                \o Each([j \in 1 .. GroupLast(v, starts[g]) - starts[g] + 1 |-> ReadString(d, v, starts[g] + j - 1)])
                \o <<StepBack>>])
-----------------------------------------------------------------------------
(***************************************************************************)
(* PARAM.  The flags of format2d choose the width of the offsets and where *)
(* the start of the data and the name of the type are kept.                *)
(***************************************************************************)
FLAG01(d)            == Bit(d.format2d, 0)
INT_DATA_OFFSET(d)   == Bit(d.format2d, 1)
LONG_DATA_OFFSET(d)  == Bit(d.format2d, 2)
OFFSET_PARAM_TYPE(d) == Bit(d.format2d, 7)
Offsets32(d) == INT_DATA_OFFSET(d) \/ LONG_DATA_OFFSET(d)

row_header_size(d) == IF LONG_DATA_OFFSET(d) THEN 24 ELSE 12
RowOffsetKind(d) == IF LONG_DATA_OFFSET(d) THEN "I64" ELSE IF INT_DATA_OFFSET(d) THEN "I32" ELSE "U16"
NameOffsetKind(d) == IF LONG_DATA_OFFSET(d) THEN "I64" ELSE "U32"

\* Which placeholder holds the start of the data.
DataStartKind(d) == IF FLAG01(d) /\ INT_DATA_OFFSET(d) THEN "U32"
                    ELSE IF LONG_DATA_OFFSET(d) THEN "I64" ELSE "U16"

ParamVersions(d) == <<F("unk06", 2), F("paramdef_data_version", 2), V("row_count", Len(d.rows), 2)>>
ParamFormat(d) == <<V("format2d", d.format2d, 1), Bool("format2e", d.unicode), F("paramdef_format_version", 1)>>
EndianByte(d) == V("endian", IF d.be THEN 255 ELSE 0, 1)
TypeName(d, n) == Raw("param_type", 0, 0, n)

write_row_header(d, i) ==
    <<FI("id", i, 4)>> \o When(LONG_DATA_OFFSET(d), <<Const(0, 4)>>)
    \o <<Reserve("RowOffset", i, RowOffsetKind(d))>>
    \o When(~Offsets32(d), <<Const(0, 2)>>)
    \o <<Reserve("NameOffset", i, NameOffsetKind(d))>>

RowNames(d) == [i \in DOMAIN d.rows |-> d.rows[i].name]
RowName(d, i) == Raw("row_name", d.rows[i].name, 0, Chars(d, d.rows[i].len))

\* Equal names are written once; a row without one has the offset 0.
write_row_names(d) ==
    Each([i \in DOMAIN d.rows |->
         LET first == FirstWith(RowNames(d), i)
         IN  IF d.rows[i].name = 0 THEN <<Fill("NameOffset", i, 0, NameOffsetKind(d))>>
             ELSE When(first = i, <<At(i), RowName(d, i)>>)
                  \o <<FillMark("NameOffset", i, first, NameOffsetKind(d))>>])
    \o <<Const(0, 2)>>

param_write(d) ==
    LET n == Len(d.rows)
    IN  <<Endian(d.be), Reserve("StringsOffset", 0, "U32")>>
        \o (IF DataStartKind(d) = "U16" THEN <<Reserve("DataStart", 0, "U16")>> ELSE <<Const(0, 2)>>)
        \o ParamVersions(d)
        \o (CASE OFFSET_PARAM_TYPE(d) -> <<Const(0, 4), Reserve("ParamTypeOffset", 0, "I64"), Zeros(20)>>
              [] ~OFFSET_PARAM_TYPE(d) /\ Offsets32(d) -> <<Reserve("ParamTypeOffset", 0, "U32"), Zeros(28)>>
              [] OTHER -> <<TypeName(d, 32)>>)
        \o <<EndianByte(d)>> \o ParamFormat(d)
        \o (CASE DataStartKind(d) = "U32" -> <<Reserve("DataStart", 0, "U32"), Const(0, 4), Const(0, 4), Const(0, 4)>>
              [] DataStartKind(d) = "I64" -> <<Reserve("DataStart", 0, "I64"), Const(0, 8)>>
              [] DataStartKind(d) = "U16" -> <<>>)
        \o Each([i \in 1 .. n |-> write_row_header(d, i)])
        \o When(d.format2d = 1, <<Zeros(32)>>)
        \o <<FillPos("DataStart", 0, DataStartKind(d))>>
        \o Each([i \in 1 .. n |-> <<FillPos("RowOffset", i, RowOffsetKind(d)), Raw("row", i, 0, d.rows[i].size)>>])
        \o <<FillPos("StringsOffset", 0, "U32")>>
        \o (CASE OFFSET_PARAM_TYPE(d) -> <<FillPos("ParamTypeOffset", 0, "I64"), TypeName(d, d.type)>>
              [] ~OFFSET_PARAM_TYPE(d) /\ Offsets32(d) -> <<FillPos("ParamTypeOffset", 0, "U32"), TypeName(d, d.type)>>
              [] OTHER -> <<>>)
        \o write_row_names(d)

read_param_type(d) ==
    CASE OFFSET_PARAM_TYPE(d) ->
           <<Const(0, 4), Offset("ParamTypeOffset", 0, 8), Zeros(20)>>
           \o Get("ParamTypeOffset", 0, <<TypeName(d, d.type)>>)
      [] ~OFFSET_PARAM_TYPE(d) /\ Offsets32(d) ->
           <<Offset("ParamTypeOffset", 0, 4)>>
           \o Get("ParamTypeOffset", 0, <<TypeName(d, d.type)>>) \o <<Seek(44)>>
      [] OTHER -> <<TypeName(d, 32)>>

read_data_start(d) ==
    <<Seek(44), Skip(4)>>
    \o (CASE INT_DATA_OFFSET(d) -> <<Offset("DataStart", 0, 4), Const(0, 4), Const(0, 4), Const(0, 4)>>
          [] ~INT_DATA_OFFSET(d) /\ LONG_DATA_OFFSET(d) -> <<Offset("DataStart", 0, 8), Const(0, 8)>>
          [] OTHER -> <<>>)

read_row(d, i) ==
    <<FI("id", i, 4)>> \o When(LONG_DATA_OFFSET(d), <<Skip(4)>>)
    \o <<Offset("RowOffset", i, KindWidth[RowOffsetKind(d)])>> \o When(~Offsets32(d), <<Skip(2)>>)
    \o (IF d.rows[i].name = 0 THEN <<Num("NameOffset", i, 0, KindWidth[NameOffsetKind(d)])>>
        ELSE <<Offset("NameOffset", i, KindWidth[NameOffsetKind(d)])>> \o Get("NameOffset", i, <<RowName(d, i)>>))

\* A row ends where the next begins, the last one where the strings do.
capture_row_data(d) ==
    LET n == Len(d.rows)
    IN  Each([i \in 1 .. n |-> <<Apart("RowOffset", i, IF i < n THEN <<"RowOffset", i + 1>> ELSE <<"StringsOffset", 0>>,
                                   d.rows[i].size)>>])
        \o Each([i \in 1 .. n |-> When(d.rows[i].size > 0, <<Goto("RowOffset", i), Raw("row", i, 0, d.rows[i].size)>>)])

param_read(d) ==
    <<Seek(44), EndianByte(d), Endian(d.be)>> \o ParamFormat(d)
    \o <<Seek(0), Offset("StringsOffset", 0, 4)>>
    \o (IF Offsets32(d) THEN <<Skip(2)>> ELSE <<Offset("DataStart", 0, 2)>>)
    \o ParamVersions(d) \o read_param_type(d) \o read_data_start(d)
    \o When(Len(d.rows) > 0, <<Room("DataStart", 0, Len(d.rows) * row_header_size(d))>>)
    \o Each([i \in DOMAIN d.rows |-> read_row(d, i)])
    \o capture_row_data(d)
-----------------------------------------------------------------------------
FormatWrites(d) == CASE d.fmt = "FMG"   -> fmg_write_body(d)
                     [] d.fmt = "PARAM" -> param_write(d)
                     [] OTHER -> ArchiveWrites(d)
FormatReads(d) == CASE d.fmt = "FMG"   -> fmg_read(d)
                    [] d.fmt = "PARAM" -> param_read(d)
                    [] OTHER -> ArchiveReads(d)
=============================================================================
