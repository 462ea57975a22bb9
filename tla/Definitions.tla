---------------------------- MODULE Definitions -----------------------------
(***************************************************************************)
(* Definitions of params: PARAMDEF, and the rows that one describes, whose *)
(* bit fields share windows of 8, 16 or 32 bits.  Documents:               *)
(*   PARAMDEF  [version, unicode, type, fields]                            *)
(*             fields are [type, array, bits, display, desc, itype, iname],*)
(*             the last four lengths of texts with their terminators       *)
(*   ROW       [be, aware, fields]                                         *)
(*             fields are [type, array, bits, removed, value]; value is    *)
(*             the number of a bit field, and the length of a text         *)
(* bits is -1 where a field is not a bit field.                            *)
(***************************************************************************)
EXTENDS Materials

sf_param_util_get_value_size(type) == CASE type \in {"s8", "u8", "dummy8", "fixstr"}              -> 1
                                        [] type \in {"s16", "u16", "fixstrW"}                     -> 2
                                        [] type \in {"s32", "u32", "b32", "f32", "angle32"}       -> 4
                                        [] type \in {"f64", "s64", "u64"}                         -> 8
sf_param_util_is_bit_type(type) == type \in {"s8", "u8", "s16", "u16", "s32", "u32", "dummy8"}
sf_param_util_get_bit_limit(type) == IF sf_param_util_is_bit_type(type) THEN 8 * sf_param_util_get_value_size(type) ELSE 0
is_array_type(type) == type \in {"u8", "dummy8", "fixstr", "fixstrW"}
IsBitField(f) == sf_param_util_is_bit_type(f.type) /\ f.bits # -1
ValueBytes(f) == sf_param_util_get_value_size(f.type) * (IF is_array_type(f.type) THEN f.array ELSE 1)
-----------------------------------------------------------------------------
(***************************************************************************)
(* PARAMDEF.  The version decides whether texts are kept in the records or *)
(* after them, and the width of offsets.                                   *)
(***************************************************************************)
indirect_strings(d) == d.version >= 202 \/ (d.version >= 106 /\ d.version < 200)
DefLong(d) == d.version >= 200
DefKind(d) == IF DefLong(d) THEN "VARINT_8" ELSE "VARINT_4"
DefWidth(d) == KindWidth[DefKind(d)]
expected_field_size(version) == CASE version = 104 -> 176 [] version = 106 -> 72 [] version = 201 -> 208
                                  [] version = 202 -> 104 [] version = 203 -> 136

\* The name of a field ends in :bits or [array].
make_internal_name(f) == CASE f.bits # -1           -> <<"bits", f.bits>>
                           [] is_array_type(f.type) -> <<"array", f.array>>
                           [] OTHER                 -> <<"plain", 0>>
NameEnd(f) == LET e == make_internal_name(f) IN CASE e[1] = "bits" -> 1000 + e[2] [] e[1] = "array" -> 2000 + e[2] [] OTHER -> 0
\* What is made of it, given the length found from the size of the field.
parse_internal_name(end, type, array) ==
    [bits  |-> IF end[1] = "bits" THEN end[2] ELSE -1,
     array |-> CASE end[1] # "array" \/ ~is_array_type(type) -> array
                 [] type \notin {"u8", "dummy8"}             -> end[2]
                 [] end[2] < array                           -> end[2]
                 [] OTHER                                    -> array]

DefName(d, k, place) ==
    IF indirect_strings(d) THEN <<place>> ELSE <<Raw("display_name", k, 0, 64)>>
DefText(d, n, k, value, place) == IF indirect_strings(d) THEN <<place>> ELSE <<Raw(n, k, value, 32)>>
DefRange(d, k) == IF d.version >= 203 THEN <<Zeros(16)>> ELSE Fs(k, 4, <<"default_value", "minimum", "maximum", "increment">>)
write_variable_value(n, f, k) ==
    CASE f.type \in {"s64", "u64", "f64"}            -> <<Num(n, k, 0, 8)>>
      [] f.type \in {"dummy8", "fixstr", "fixstrW"}  -> <<Const(0, 8)>>
      [] OTHER                                       -> <<Num(n, k, 0, 4), Const(0, 4)>>
VariableValues(d, k) ==
    Each([v \in 1 .. 4 |-> write_variable_value(<<"default_value", "minimum", "maximum", "increment">>[v], d.fields[k], k)])

DefRecord(d, k, display, description, itype, iname, unknown) ==
    LET f == d.fields[k]
    IN  DefName(d, k, display) \o <<Raw(f.type, k, 0, 8), Raw("display_format", k, 0, 8)>> \o DefRange(d, k)
        \o <<FI("edit_flags", k, 4), Num("byte_count", k, ValueBytes(f), 4), description>>
        \o DefText(d, "internal_type", k, 0, itype) \o DefText(d, "internal_name", k, NameEnd(f), iname)
        \o <<FI("sort_id", k, 4)>>
        \o (CASE DefLong(d)      -> <<Const(0, 4)>> \o unknown
              [] d.version = 106 -> Repeated(3, <<Const(0, 4)>>)
              [] OTHER           -> <<>>)
        \o When(d.version >= 203, VariableValues(d, k))

Unknowns == <<"UnkB8Offset", "UnkC0Offset", "UnkC8Offset">>
write_field_record(d, k) ==
    LET slot(n) == Reserve(n, k, DefKind(d))
    IN  DefRecord(d, k, slot("DisplayNameOffset"), slot("DescriptionOffset"), slot("InternalTypeOffset"), slot("InternalNameOffset"),
                  [u \in 1 .. 3 |-> Reserve(Unknowns[u], k, "I64")])

DescriptionChars(d, f) == IF d.unicode THEN 2 * f.desc ELSE f.desc
write_field_strings(d, k) ==
    LET f == d.fields[k]
        fill(n) == <<FillPos(n, k, DefKind(d))>>
    IN  When(indirect_strings(d), fill("DisplayNameOffset") \o <<Text16("display_name", k, f.display)>>)
        \o (IF f.desc > 1
            THEN <<At(k), Raw("description", k, 0, DescriptionChars(d, f)), FillMark("DescriptionOffset", k, k, DefKind(d))>>
            ELSE <<Fill("DescriptionOffset", k, 0, DefKind(d))>>)
        \o When(indirect_strings(d), fill("InternalTypeOffset") \o <<Raw("internal_type", k, 0, f.itype)>>
                                     \o fill("InternalNameOffset") \o <<Raw("internal_name", k, NameEnd(f), f.iname)>>)
        \o When(DefLong(d), [u \in 1 .. 3 |-> Fill(Unknowns[u], k, 0, "I64")])

DefParamType(d, place) ==
    CASE d.version >= 202 -> <<Const(0, 4), place, Const(0, 8), Const(0, 8), Const(0, 4)>>
      [] d.version = 106  -> <<place, Const(0, 8), Const(0, 8), Const(0, 8), Const(0, 4)>>
      [] OTHER            -> <<Magic("param_type", 32)>>
DefHeader(d, size, type) ==
    <<size, V("header_size", IF DefLong(d) THEN 255 ELSE 48, 2), F("data_version", 2), V("field_count", Len(d.fields), 2),
      V("field_size", expected_field_size(d.version), 2)>>
    \o DefParamType(d, type)
DefMode(d) == <<V("endian", 0, 1), Bool("unicode", d.unicode), V("version", d.version, 2)>>
DefFields(d) == When(DefLong(d), <<Const(56, 8)>>)

\* From 202 on there is padding even where none is needed: up to the multiple of
\* 16 after the next byte.
DefPadding(d) == CASE d.version \in {104, 201} -> <<PadFrom(1, 16)>>
                   [] d.version >= 202         -> <<Zeros(1), Pad(16)>>
                   [] OTHER                    -> <<Pad(16)>>

paramdef_write_to_writer(d) ==
    DefHeader(d, Reserve("FileSize", 0, "I32"), Reserve("ParamTypeOffset", 0, DefKind(d))) \o DefMode(d) \o DefFields(d)
    \o Each([k \in DOMAIN d.fields |-> write_field_record(d, k)])
    \o When(indirect_strings(d), <<FillPos("ParamTypeOffset", 0, DefKind(d)), Magic("param_type", d.type)>>)
    \o <<Base(1)>> \o Each([k \in DOMAIN d.fields |-> write_field_strings(d, k)])
    \o DefPadding(d) \o <<FillPos("FileSize", 0, "I32")>>

\* Texts are read where their offsets are met, in the middle of the record.
DefGet(n, k, w, text) == <<Offset(n, k, w), Given(n, k)>> \o Get(n, k, text)
read_nonzero_string_at(d, k) ==
    LET f == d.fields[k]
    IN  <<Offset("DescriptionOffset", k, DefWidth(d))>>
        \o (IF f.desc > 1 THEN <<Given("DescriptionOffset", k)>> \o Get("DescriptionOffset", k, <<Raw("description", k, 0, DescriptionChars(d, f))>>)
            ELSE <<Absent("DescriptionOffset", k)>>)
paramdef_read_field(d, k) ==
    LET f == d.fields[k]
        w == DefWidth(d)
        size == sf_param_util_get_value_size(f.type)
        parsed == parse_internal_name(make_internal_name(f), f.type, ValueBytes(f) \div size)
        place(n) == Op("place", n, k, 0, 0)
        at == [DisplayNameOffset  |-> DefGet("DisplayNameOffset", k, w, <<Text16("display_name", k, f.display)>>),
               DescriptionOffset  |-> read_nonzero_string_at(d, k),
               InternalTypeOffset |-> DefGet("InternalTypeOffset", k, w, <<Raw("internal_type", k, 0, f.itype)>>),
               InternalNameOffset |-> DefGet("InternalNameOffset", k, w, <<Raw("internal_name", k, NameEnd(f), f.iname)>>)]
        record == DefRecord(d, k, place("DisplayNameOffset"), place("DescriptionOffset"), place("InternalTypeOffset"),
                            place("InternalNameOffset"), [u \in 1 .. 3 |-> Offset(Unknowns[u], k, 8)])
    IN  Each([r \in DOMAIN record |-> IF record[r].op = "place" THEN at[record[r].name] ELSE <<record[r]>>])
        \o <<Require(/\ IF is_array_type(f.type) THEN ValueBytes(f) % size = 0 ELSE ValueBytes(f) = size
                     /\ parsed.bits = f.bits
                     /\ is_array_type(f.type) => parsed.array = f.array)>>

paramdef_read_param_type(d) ==
    LET header == DefHeader(d, Offset("FileSize", 0, 4), Op("place", "", 0, 0, 0))
    IN  Each([r \in DOMAIN header |-> IF header[r].op = "place" THEN DefGet("ParamTypeOffset", 0, DefWidth(d), <<Magic("param_type", d.type)>>)
                                      ELSE <<header[r]>>])
paramdef_read(d) ==
    <<Seek(44), DefMode(d)[1], Endian(FALSE), Seek(46), DefMode(d)[3], Seek(0)>>
    \o paramdef_read_param_type(d) \o DefMode(d) \o DefFields(d)
    \o Each([k \in DOMAIN d.fields |-> paramdef_read_field(d, k)])
-----------------------------------------------------------------------------
(***************************************************************************)
(* Rows.  Which bit fields share a window is found out three times: when   *)
(* the size of a row is computed, when the cells are read by a layout, and *)
(* when they are written one after the other.                              *)
(***************************************************************************)
\* Fields removed from a definition that knows versions have no cell.
field_valid_for_unversioned_apply(d, f) == ~(d.aware /\ f.removed)
Cells(d) == SelectSeq(d.fields, LAMBDA f : field_valid_for_unversioned_apply(d, f))

\* The first field of a window counts, and those that fit in behind it do not.
\* The walk is over all fields; a removed one neither counts nor ends a window.
compute_row_size(d) ==
    LET start(s, f) == [size |-> s.size + ValueBytes(f), limit |-> IF IsBitField(f) THEN sf_param_util_get_bit_limit(f.type) ELSE 0, used |-> f.bits]
        folds(s, f) == IsBitField(f) /\ s.limit = sf_param_util_get_bit_limit(f.type) /\ s.used + f.bits <= s.limit
        step(s, f) == CASE d.aware /\ f.removed -> s
                        [] folds(s, f)          -> [s EXCEPT !.used = s.used + f.bits]
                        [] OTHER                -> start(s, f)
    IN  FoldLeft(step, [size |-> 0, limit |-> 0, used |-> 0], d.fields).size

\* The layout: where each cell is, and which is the last of its window.
NoBits == [active |-> FALSE, at |-> 0, limit |-> 0]
layout_flush_bits(s) ==
    IF ~s.bits.active THEN s
    ELSE [s EXCEPT !.entries = [@ EXCEPT ![Len(@)].last = TRUE], !.offset = @ + s.bits.limit \div 8, !.bits = NoBits]
LayoutBits(s, f) ==
    LET limit == sf_param_util_get_bit_limit(f.type)
        fits == s.bits.active /\ s.bits.limit = limit /\ s.bits.at + f.bits <= limit
        t == IF fits THEN s ELSE [layout_flush_bits(s) EXCEPT !.bits = [active |-> TRUE, at |-> 0, limit |-> limit]]
    IN  [t EXCEPT !.entries = Append(@, [byte |-> t.offset, bit |-> t.bits.at, last |-> FALSE]), !.bits.at = @ + f.bits]
LayoutBytes(s, f) ==
    LET t == layout_flush_bits(s)
    IN  [t EXCEPT !.entries = Append(@, [byte |-> t.offset, bit |-> 0, last |-> FALSE]), !.offset = @ + ValueBytes(f)]
build_field_layout(d) ==
    layout_flush_bits(FoldLeft(LAMBDA s, f : IF IsBitField(f) THEN LayoutBits(s, f) ELSE LayoutBytes(s, f),
                               [entries |-> <<>>, offset |-> 0, bits |-> NoBits], Cells(d)))

\* Values of up to 30 bits; a negative one is stored as its lowest bits.
is_signed_bit_type(type) == type \in {"s8", "s16", "s32"}
cell_bit_value(f) == f.value % (2 ^ f.bits)
insert_bits(window, at, f) == window + cell_bit_value(f) * 2 ^ at
extract_bits(window, at, f) ==
    LET u == (window \div 2 ^ at) % (2 ^ f.bits)
    IN  IF is_signed_bit_type(f.type) /\ u >= 2 ^ (f.bits - 1) THEN u - 2 ^ f.bits ELSE u
detect_orphaned_bits(window, at) == window \div (2 ^ at) # 0

Window(value, limit) == Num("window", 0, value, limit \div 8)
\* A cell that is not a bit field.  A text longer than its cell is cut, a shorter one is followed by zeros.
ByteCell(f, k) ==
    LET size == ValueBytes(f)
        text == IF f.value < size THEN f.value ELSE size
    IN  CASE f.type \in {"fixstr", "fixstrW"}                              -> <<Raw("text", k, 0, text), Zeros(size - text)>>
          [] f.type = "dummy8" \/ (f.type = "u8" /\ f.array > 1)           -> <<Raw("bytes", k, 0, size)>>
          [] OTHER                                                         -> <<Num(f.type, k, 0, size)>>

\* The cells are written in order, the bits of a window collected until the next
\* cell does not go into it.
flush_write_bits(s) ==
    IF ~s.active THEN s ELSE [s EXCEPT !.ops = Append(@, Window(s.window, s.limit)), !.active = FALSE, !.at = 0, !.window = 0]
next_requires_bit_flush(cells, k, at, limit) ==
    \/ k = Len(cells)
    \/ ~IsBitField(cells[k + 1])
    \/ sf_param_util_get_bit_limit(cells[k + 1].type) # limit
    \/ cells[k + 1].bits <= 0
    \/ at + cells[k + 1].bits > limit
write_bit_cell(cells, k, s) ==
    LET f == cells[k]
        limit == sf_param_util_get_bit_limit(f.type)
        open == [s EXCEPT !.active = TRUE, !.limit = IF s.active THEN s.limit ELSE limit]
        room == IF open.limit # limit \/ open.at + f.bits > limit THEN [flush_write_bits(open) EXCEPT !.active = TRUE, !.limit = limit] ELSE open
        put == [room EXCEPT !.window = insert_bits(room.window, room.at, f), !.at = room.at + f.bits]
    IN  IF next_requires_bit_flush(cells, k, put.at, put.limit) THEN flush_write_bits(put) ELSE put
write_nonbit_cell(cells, k, s) == LET t == flush_write_bits(s) IN [t EXCEPT !.ops = @ \o ByteCell(cells[k], k)]
sfi_param_row_cells_to_bytes(d) ==
    LET cells == Cells(d)
        step(s, k) == IF IsBitField(cells[k]) THEN write_bit_cell(cells, k, s) ELSE write_nonbit_cell(cells, k, s)
        start == [ops |-> <<Endian(d.be)>>, active |-> FALSE, at |-> 0, limit |-> 0, window |-> 0]
    IN  flush_write_bits(FoldLeft(step, start, [k \in DOMAIN cells |-> k])).ops

\* The window an entry lies in, as its layout has it: it goes from its first
\* entry to the one marked as the last.
WindowOf(cells, entries, k) ==
    LET mates == {m \in DOMAIN cells : IsBitField(cells[m]) /\ entries[m].byte = entries[k].byte}
    IN  FoldLeft(LAMBDA window, m : IF m \in mates THEN insert_bits(window, entries[m].bit, cells[m]) ELSE window, 0, [m \in DOMAIN cells |-> m])
read_layout_bit_cell(cells, entries, k) ==
    LET f == cells[k]
        e == entries[k]
        window == WindowOf(cells, entries, k)
    IN  When(e.bit = 0, <<Seek(e.byte), Window(window, sf_param_util_get_bit_limit(f.type))>>)
        \o <<Require(/\ extract_bits(window, e.bit, f) = f.value
                     /\ e.last => ~detect_orphaned_bits(window, e.bit + f.bits))>>
read_nonbit_cell(cells, entries, k) == <<Seek(entries[k].byte)>> \o ByteCell(cells[k], k)
sfi_param_apply_paramdef_to_row(d, layout) ==
    LET cells == Cells(d)
    IN  Each([k \in DOMAIN cells |-> IF IsBitField(cells[k]) THEN read_layout_bit_cell(cells, layout.entries, k)
                                     ELSE read_nonbit_cell(cells, layout.entries, k)])
\* Applied with care, a definition must have the size that the rows have.
sf_param_apply_paramdef(d) ==
    LET layout == build_field_layout(d)
    IN  <<Endian(d.be), Require(compute_row_size(d) = layout.offset)>> \o sfi_param_apply_paramdef_to_row(d, layout)

DefinitionWrites(d) == CASE d.fmt = "PARAMDEF" -> paramdef_write_to_writer(d)
                         [] d.fmt = "ROW"      -> sfi_param_row_cells_to_bytes(d)
                         [] OTHER              -> MaterialWrites(d)
DefinitionReads(d) == CASE d.fmt = "PARAMDEF" -> paramdef_read(d)
                        [] d.fmt = "ROW"      -> sf_param_apply_paramdef(d)
                        [] OTHER              -> MaterialReads(d)
=============================================================================
