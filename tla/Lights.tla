------------------------------- MODULE Lights -------------------------------
(***************************************************************************)
(* The lighting formats: PMDCL decals, BTAB lightmap atlases, BTL light    *)
(* banks and GPARAM graphics parameters, all little-endian.  Texts are     *)
(* lengths in characters with the terminator.  A document is one of        *)
(*   PMDCL   [decals]              their number                            *)
(*   BTAB    [long, entries]       an entry is [part, material]            *)
(*   BTL     [version, long, names]                                        *)
(*   GPARAM  [version, params, data30, extras]                             *)
(* A parameter of GPARAM is [key, name, fields, comments], a field is      *)
(* [type, values, key, name], an extra is its number of IDs.               *)
(***************************************************************************)
EXTENDS Scripts

\* Plain fields of one width, in order.
Fs(i, w, names) == [k \in DOMAIN names |-> FI(names[k], i, w)]
Text16(n, i, len) == Raw(n, i, 0, 2 * len)
-----------------------------------------------------------------------------
(***************************************************************************)
(* PMDCL.                                                                  *)
(***************************************************************************)
PmdclHeader(d) == <<V("decal_count", d.decals, 8), Const(32, 8), Const(0, 8), Const(0, 8)>>

sf_pmdcl_decal(i) ==
    <<FI("x_angles", i, 12), Const(0, 4), FI("y_angles", i, 12), Const(0, 4), FI("z_angles", i, 12), Const(0, 4),
      FI("position", i, 12), FI("unk3c", i, 4), FI("decal_param_id", i, 4), FI("size1", i, 2), FI("size2", i, 2),
      Const(0, 8), Const(0, 8), Const(0, 8)>>

sf_pmdcl_write_to_buffer(d) ==
    PmdclHeader(d) \o Each([i \in 1 .. d.decals |-> <<Reserve("Decal", i, "I64")>>]) \o <<Pad(32)>>
    \o Each([i \in 1 .. d.decals |-> <<FillPos("Decal", i, "I64")>> \o sf_pmdcl_decal(i)])

sf_pmdcl_read_from_memory(d) ==
    PmdclHeader(d) \o Each([i \in 1 .. d.decals |-> <<Offset("Decal", i, 8)>> \o Get("Decal", i, sf_pmdcl_decal(i))])
-----------------------------------------------------------------------------
(***************************************************************************)
(* BTAB.  Names come first, then the entries with offsets into the names.  *)
(***************************************************************************)
Names == 0                        \* mark: the start of the names
AfterNames(n) == <<Base(Names), GotoFrom(n, 0, <<"base", Names>>)>>
NameAt(n, i, text, len) == GetFrom(n, i, <<"base", Names>>, <<Text16(text, i, len)>>)

BtabHeader(d, strings) ==
    <<Const(1, 4), Const(0, 4), V("entry_count", Len(d.entries), 4), strings, V("big_endian", 0, 1), Zeros(1), Zeros(1), Zeros(1),
      V("entry_size", IF d.long THEN 40 ELSE 28, 4), Zeros(36)>>
BtabWidth(d) == IF d.long THEN 8 ELSE 4
BtabFields(d, i) == <<FI("atlas_id", i, 4), FI("uv_offset", i, 8), FI("uv_scale", i, 8)>> \o When(d.long, <<Const(0, 4)>>)

sf_btab_write_to_buffer(d) ==
    BtabHeader(d, Reserve("StringsLength", 0, "I32")) \o <<Base(Names)>>
    \o Each([i \in DOMAIN d.entries |->
          <<Mark("part", i), Text16("part_name", i, d.entries[i].part), PadFrom(Names, 8),
            Mark("material", i), Text16("material_name", i, d.entries[i].material), PadFrom(Names, 8)>>])
    \o <<FillFrom("StringsLength", 0, Names, "I32")>>
    \o Each([i \in DOMAIN d.entries |->
          <<Ref("part_offset", i, <<"part", i>>, Names, BtabWidth(d)), Ref("mat_offset", i, <<"material", i>>, Names, BtabWidth(d))>>
          \o BtabFields(d, i)])

\* A name starts inside the names.
BtabName(n, i, text, len) == <<Below(n, i, <<"StringsLength", 0>>)>> \o NameAt(n, i, text, len)
\* The reader looks at the byte order first.
sf_btab_read_from_memory(d) ==
    <<Seek(16), V("big_endian", 0, 1), Seek(0)>>
    \o BtabHeader(d, Offset("StringsLength", 0, 4)) \o AfterNames("StringsLength")
    \o Each([i \in DOMAIN d.entries |->
          <<Offset("part_offset", i, BtabWidth(d)), Offset("mat_offset", i, BtabWidth(d))>> \o BtabFields(d, i)])
    \o Each([i \in DOMAIN d.entries |->
          BtabName("part_offset", i, "part_name", d.entries[i].part)
          \o BtabName("mat_offset", i, "material_name", d.entries[i].material)])
-----------------------------------------------------------------------------
(***************************************************************************)
(* BTL.  The padding after a name is computed from where the name begins,  *)
(* as in the original.                                                     *)
(***************************************************************************)
light_size(d) == IF d.version >= 16 THEN 232 ELSE IF d.long THEN 200 ELSE 192
BtlHeader(d, names) ==
    <<Const(2, 4), V("version", d.version, 4), V("light_count", Len(d.names), 4), names, Const(0, 4),
      V("light_size", light_size(d), 4), Zeros(36)>>
\* The reader takes the width of offsets from the size of a light.
BtlLong(d) == light_size(d) # 192

sf_btl_light_fields(d, i, long) ==
    <<FI("type", i, 4), FI("unk1c", i, 1), Raw("diffuse_color", i, 0, 3), FI("diffuse_power", i, 4), Raw("specular_color", i, 0, 3),
      FI("cast_shadows", i, 1)>> \o Fs(i, 4, <<"specular_power", "cone_angle", "unk30", "unk34">>)
    \o Fs(i, 12, <<"position", "rotation">>) \o Fs(i, 4, <<"unk50", "unk54", "radius", "unk5c">>) \o <<Const(0, 4)>>
    \o Fs(i, 4, <<"unk64", "unk68", "shadow_color", "unk70", "flicker_interval_min", "flicker_interval_max",
                  "flicker_brightness_mult", "unk80", "unk84", "unk88">>)
    \o <<Const(0, 4), FI("unk90", i, 4), Const(0, 4)>> \o Fs(i, 4, <<"unk98", "near_clip", "unk_a0", "sharpness">>)
    \o <<Const(0, 4), FI("unk_ac", i, 4), Const(0, IF long THEN 8 ELSE 4)>> \o Fs(i, 4, <<"width", "unk_bc", "unk_c0", "unk_c4">>)
    \o When(d.version >= 16, Fs(i, 4, <<"unk_c8", "unk_cc", "unk_d0", "unk_d4", "unk_d8", "unk_dc", "unk_e0", "unk_e4">>))

\* Where the names begin.
BtlNameStart(d) ==
    LET at[i \in DOMAIN d.names] == IF i = 1 THEN 0 ELSE at[i - 1] + 2 * d.names[i - 1] + PadWidth(at[i - 1], 16) IN at

sf_btl_write_to_buffer(d) ==
    LET w == IF d.long THEN 8 ELSE 4
    IN  BtlHeader(d, Reserve("NamesLength", 0, "I32")) \o <<Base(Names)>>
        \o Each([i \in DOMAIN d.names |->
              <<Mark("name", i), Text16("name", i, d.names[i]), Zeros(PadWidth(BtlNameStart(d)[i], 16))>>])
        \o <<FillFrom("NamesLength", 0, Names, "I32")>>
        \o Each([i \in DOMAIN d.names |->
              <<Raw("unk00", i, 0, 16), Ref("name_offset", i, <<"name", i>>, Names, w)>> \o sf_btl_light_fields(d, i, d.long)])

sf_btl_read_from_memory(d) ==
    LET w == IF BtlLong(d) THEN 8 ELSE 4
    IN  BtlHeader(d, Offset("NamesLength", 0, 4)) \o AfterNames("NamesLength")
        \o Each([i \in DOMAIN d.names |->
              <<Raw("unk00", i, 0, 16), Offset("name_offset", i, w)>> \o sf_btl_light_fields(d, i, BtlLong(d))])
        \o Each([i \in DOMAIN d.names |-> NameAt("name_offset", i, "name", d.names[i])])
-----------------------------------------------------------------------------
(***************************************************************************)
(* GPARAM.  Twelve sections; offsets within them are relative to their     *)
(* start, which is mark b and placeholder Bases[b].                        *)
(***************************************************************************)
Bases == <<"ParamOffsetsBase", "ParamsBase", "FieldOffsetsBase", "FieldsBase", "ValuesBase", "ValueIdsBase", "Unk30Base",
           "ParamExtrasBase", "ParamExtraIdsBase", "ParamCommentsOffsetsBase", "CommentOffsetsBase", "CommentsBase">>
BaseKey(b) == <<Bases[b], 0>>

\* The header, with what stands for the offset of section b.
GparamHeader(d, base) ==
    <<Magic("filt", 8), V("version", d.version, 4), Zeros(1), F("unk0d", 1), Const(0, 2),
      V("param_count", Len(d.params), 4), F("count14", 4)>>
    \o SubSeq(base, 1, 7) \o <<V("extra_count", Len(d.extras), 4)>> \o SubSeq(base, 8, 9) \o <<F("unk40", 4)>>
    \o SubSeq(base, 10, 12) \o When(d.version >= 5, <<F("unk50", 4)>>)

TypeString == 16
VEC2 == 12
VEC3 == 13
PayloadWidth == <<1, 2, 4, 8, 1, 2, 4, 8, 4, 8, 1, 8, 12, 16, 4>>
\* One value, texts of different lengths; vectors of two and three are filled up to 16 bytes.
value_payload(type, i) ==
    IF type = TypeString THEN <<Text16("value", i, (i % 3) + 1)>>
    ELSE <<FI("value", i, PayloadWidth[type])>>
         \o When(type = VEC2, <<Const(0, 8)>>) \o When(type = VEC3, <<Const(0, 4)>>)
Values(field, ix) == Each([v \in 1 .. field.values |-> value_payload(field.type, Ix(ix, v))])

ValueIds(d, field, ix) ==
    Each([v \in 1 .. field.values |-> <<FI("id", Ix(ix, v), 4)>> \o When(d.version >= 5, <<FI("unk04", Ix(ix, v), 4)>>)])

\* Order and widths of type and capacity depend on the version.
FieldKind(d, field, ix) ==
    (IF d.version < 6 THEN <<Num("type", ix, field.type, 1), Num("capacity", ix, field.values, 1), Const(0, 2)>>
     ELSE <<Num("capacity", ix, field.values, 2), Num("type", ix, field.type, 1), FI("unk", ix, 1)>>)
    \o <<Text16("field_key", ix, field.key), Text16("field_name", ix, field.name)>>

ExtraIds(d, x) == [k \in 1 .. d.extras[x] |-> FI("extra_id", Ix(x, k), 4)]

\* Section b begins here, and what n, i points to begins here.
GparamBase(b) == <<FillPos(Bases[b], 0, "I32"), Base(b)>>
FillIn(n, i, b) == <<FillFrom(n, i, b, "I32")>>
FieldsOf(d, p) == DOMAIN d.params[p].fields

write_param(d, p) ==
    FillIn("ParamOffset", p, 2)
    \o <<Num("field_count", p, Len(d.params[p].fields), 4), Reserve("FieldOffsetsOffset", p, "I32"),
         Text16("param_key", p, d.params[p].key), Text16("param_name", p, d.params[p].name), Pad(4)>>
write_field_offsets(d, p) ==
    FillIn("FieldOffsetsOffset", p, 3) \o Each([f \in FieldsOf(d, p) |-> <<Reserve("FieldOffset", Ix(p, f), "I32")>>])
write_fields(d, p) ==
    Each([f \in FieldsOf(d, p) |->
        FillIn("FieldOffset", Ix(p, f), 4)
        \o <<Reserve("ValuesOffset", Ix(p, f), "I32"), Reserve("ValueIdsOffset", Ix(p, f), "I32")>>
        \o FieldKind(d, d.params[p].fields[f], Ix(p, f)) \o <<Pad(4)>>])
write_values(d, p) ==
    Each([f \in FieldsOf(d, p) |->
        FillIn("ValuesOffset", Ix(p, f), 5) \o Values(d.params[p].fields[f], Ix(p, f)) \o <<Pad(4)>>])
write_value_ids(d, p) ==
    Each([f \in FieldsOf(d, p) |-> FillIn("ValueIdsOffset", Ix(p, f), 6) \o ValueIds(d, d.params[p].fields[f], Ix(p, f))])

\* An empty list of IDs has offset 0, whatever comes before it.
write_extras(d) ==
    GparamBase(8)
    \o Each([x \in DOMAIN d.extras |->
          <<FI("extra_unk00", x, 4), Num("id_count", x, d.extras[x], 4), Reserve("IdsOffset", x, "I32")>>
          \o When(d.version >= 5, <<FI("extra_unk0c", x, 4)>>)])
    \o GparamBase(9)
    \o Each([x \in DOMAIN d.extras |->
          (IF d.extras[x] = 0 THEN <<Fill("IdsOffset", x, 0, "I32")>> ELSE FillIn("IdsOffset", x, 9)) \o ExtraIds(d, x)])

write_comments(d) ==
    GparamBase(10)
    \o Each([p \in DOMAIN d.params |-> <<Reserve("CommentOffsetsOffset", p, "I32")>>])
    \o GparamBase(11)
    \o Each([p \in DOMAIN d.params |->
          FillIn("CommentOffsetsOffset", p, 11)
          \o Each([c \in DOMAIN d.params[p].comments |-> <<Reserve("CommentOffset", Ix(p, c), "I32")>>])])
    \o GparamBase(12)
    \o Each([p \in DOMAIN d.params |->
          Each([c \in DOMAIN d.params[p].comments |->
              FillIn("CommentOffset", Ix(p, c), 12) \o <<Text16("comment", Ix(p, c), d.params[p].comments[c]), Pad(4)>>])])

sf_gparam_write_to_buffer(d) ==
    GparamHeader(d, [b \in 1 .. 12 |-> Reserve(Bases[b], 0, "I32")])
    \o GparamBase(1) \o Each([p \in DOMAIN d.params |-> <<Reserve("ParamOffset", p, "I32")>>])
    \o GparamBase(2) \o Each([p \in DOMAIN d.params |-> write_param(d, p)])
    \o GparamBase(3) \o Each([p \in DOMAIN d.params |-> write_field_offsets(d, p)])
    \o GparamBase(4) \o Each([p \in DOMAIN d.params |-> write_fields(d, p)])
    \o GparamBase(5) \o Each([p \in DOMAIN d.params |-> write_values(d, p)])
    \o GparamBase(6) \o Each([p \in DOMAIN d.params |-> write_value_ids(d, p)])
    \o GparamBase(7) \o <<Raw("data30", 0, 0, d.data30), Pad(4)>>
    \o write_extras(d) \o write_comments(d)

\* A table of offsets, one for each of s.
OffsetsIn(n, p, s) == [k \in DOMAIN s |-> Offset(n, Ix(p, k), 4)]

read_param(d, p) ==
    GetFrom("ParamOffset", p, BaseKey(2),
            <<Num("field_count", p, Len(d.params[p].fields), 4), Offset("FieldOffsetsOffset", p, 4),
              Text16("param_key", p, d.params[p].key), Text16("param_name", p, d.params[p].name)>>)
    \o When(d.params[p].fields # <<>>,
            GetFrom("FieldOffsetsOffset", p, BaseKey(3), OffsetsIn("FieldOffset", p, d.params[p].fields)))

read_field(d, p, f) ==
    LET field == d.params[p].fields[f]
        ix == Ix(p, f)
    IN  GetFrom("FieldOffset", ix, BaseKey(4),
                <<Offset("ValuesOffset", ix, 4), Offset("ValueIdsOffset", ix, 4)>> \o FieldKind(d, field, ix))
        \o When(field.values > 0, GetFrom("ValuesOffset", ix, BaseKey(5), Values(field, ix))
                                  \o GetFrom("ValueIdsOffset", ix, BaseKey(6), ValueIds(d, field, ix)))

\* The opaque block reaches to the next section; its size is not stored.
read_extras(d) ==
    <<Apart(Bases[7], 0, BaseKey(8), d.data30)>> \o When(d.data30 > 0, Get(Bases[7], 0, <<Raw("data30", 0, 0, d.data30)>>))
    \o When(d.extras # <<>>,
            Get(Bases[8], 0, Each([x \in DOMAIN d.extras |->
                <<FI("extra_unk00", x, 4), Num("id_count", x, d.extras[x], 4), Offset("IdsOffset", x, 4)>>
                \o When(d.version >= 5, <<FI("extra_unk0c", x, 4)>>)
                \o When(d.extras[x] > 0, GetFrom("IdsOffset", x, BaseKey(9), ExtraIds(d, x)))])))

\* The number of a parameter's comments is not stored either: the next
\* parameter's offsets follow its own, and the texts those of the last.
CommentCount(d, p) ==
    LET w == 4 * Len(d.params[p].comments)
    IN  IF p = Len(d.params) THEN <<Points("CommentOffsetsOffset", p, BaseKey(12), BaseKey(11), w)>>
        ELSE <<Apart("CommentOffsetsOffset", p, <<"CommentOffsetsOffset", p + 1>>, w)>>
read_comments(d, p) ==
    LET texts == d.params[p].comments
    IN  CommentCount(d, p)
        \o When(texts # <<>>, GetFrom("CommentOffsetsOffset", p, BaseKey(11), OffsetsIn("CommentOffset", p, texts)))
        \o Each([c \in DOMAIN texts |-> GetFrom("CommentOffset", Ix(p, c), BaseKey(12), <<Text16("comment", Ix(p, c), texts[c])>>)])

sf_gparam_read_from_memory(d) ==
    GparamHeader(d, [b \in 1 .. 12 |-> Offset(Bases[b], 0, 4)])
    \o When(d.params # <<>>, Get(Bases[1], 0, [p \in DOMAIN d.params |-> Offset("ParamOffset", p, 4)]))
    \o Each([p \in DOMAIN d.params |->
          read_param(d, p) \o Each([f \in FieldsOf(d, p) |-> read_field(d, p, f)])])
    \o read_extras(d)
    \o When(d.params # <<>>, Get(Bases[10], 0, [p \in DOMAIN d.params |-> Offset("CommentOffsetsOffset", p, 4)]))
    \o Each([p \in DOMAIN d.params |-> read_comments(d, p)])
-----------------------------------------------------------------------------
LightWrites(d) == CASE d.fmt = "PMDCL"  -> sf_pmdcl_write_to_buffer(d)
                    [] d.fmt = "BTAB"   -> sf_btab_write_to_buffer(d)
                    [] d.fmt = "BTL"    -> sf_btl_write_to_buffer(d)
                    [] d.fmt = "GPARAM" -> sf_gparam_write_to_buffer(d)
                    [] OTHER -> ScriptWrites(d)
LightReads(d) == CASE d.fmt = "PMDCL"  -> sf_pmdcl_read_from_memory(d)
                   [] d.fmt = "BTAB"   -> sf_btab_read_from_memory(d)
                   [] d.fmt = "BTL"    -> sf_btl_read_from_memory(d)
                   [] d.fmt = "GPARAM" -> sf_gparam_read_from_memory(d)
                   [] OTHER -> ScriptReads(d)
=============================================================================
