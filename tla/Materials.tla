----------------------------- MODULE Materials ------------------------------
(***************************************************************************)
(* Materials: MTD, blocks within blocks that each begin with their length, *)
(* and MATBIN, records whose offsets are written as zeros and then again.  *)
(* Documents:                                                              *)
(*   MTD     [shader, description, params, textures]                       *)
(*           params are [type, name], textures [type, extended, path,      *)
(*           floats]; texts are numbers of bytes                           *)
(*   MATBIN  [shader, source, params, samplers]                            *)
(*           params are [type, name], samplers [type, path]; texts are     *)
(*           numbers of UTF-16 units, the terminator among them            *)
(***************************************************************************)
EXTENDS Navigation

(***************************************************************************)
(* MTD.  A block is known by where it starts, so the names of reservations *)
(* differ although blocks of one kind are open inside each other; here it  *)
(* is known by its kind and the entry it belongs to.                       *)
(***************************************************************************)
MtdMarker(m) == <<Raw("marker", 0, m, 1), Pad(4)>>
MtdString(n, ix, len, m) == <<Num("length", ix, len, 4), Raw(n, ix, 0, len)>> \o MtdMarker(m)

MtdBlockStart(type, version, m) == <<Num("block_type", 0, type, 4), Num("block_version", 0, version, 4)>> \o MtdMarker(m)
mtd_block_write(b, type, version, m) ==
    <<Const(0, 4), Reserve("Block", b, "U32"), Base(b)>> \o MtdBlockStart(type, version, m)
mtd_block_finish(b) == <<FillFrom("Block", b, b, "U32")>>
\* A reader keeps the length and does not use it.
mtd_block_read(b, type, version, m) == <<Const(0, 4), Offset("Block", b, 4)>> \o MtdBlockStart(type, version, m)

FileBlock == 1
HeaderBlock == 2
DataBlock == 3
ListsBlock == 4
ParamBlock(p) == Ix(5, p)
ValueBlock(p) == Ix(6, p)
TextureBlock(t) == Ix(7, t)

MTD_COUNT == [bool |-> 1, int |-> 1, int2 |-> 2, float |-> 1, float2 |-> 2, float3 |-> 3, float4 |-> 4]
MtdValueType(type) == CASE type = "bool"            -> 4096
                        [] type \in {"int", "int2"} -> 4097
                        [] OTHER                    -> 4098
MtdValueMarker(type) == CASE type = "bool"            -> 192
                          [] type \in {"int", "int2"} -> 197
                          [] OTHER                    -> 202
MtdValue(p, k) ==
    <<Num("value_count", k, MTD_COUNT[p.type], 4),
      IF p.type = "bool" THEN Raw("bool", k, 0, 1) ELSE Num(p.type, k, 0, 4 * MTD_COUNT[p.type])>>
mtd_write_param_value(p, k) ==
    mtd_block_write(ValueBlock(k), MtdValueType(p.type), 1, MtdValueMarker(p.type)) \o MtdValue(p, k) \o mtd_block_finish(ValueBlock(k))
mtd_read_param_value(p, k) ==
    mtd_block_read(ValueBlock(k), MtdValueType(p.type), 1, MtdValueMarker(p.type)) \o MtdValue(p, k)

MTD_TYPE_LENGTH == [bool |-> 4, int |-> 3, int2 |-> 4, float |-> 5, float2 |-> 6, float3 |-> 6, float4 |-> 6]
MtdParam(p, k, value) ==
    MtdString("param_name", k, p.name, 163) \o MtdString(p.type, k, MTD_TYPE_LENGTH[p.type], 4) \o <<Const(1, 4)>>
    \o value \o MtdMarker(4) \o <<Const(0, 4)>>
mtd_write_param(p, k) ==
    mtd_block_write(ParamBlock(k), 4, 4, 163) \o MtdParam(p, k, mtd_write_param_value(p, k)) \o mtd_block_finish(ParamBlock(k))
mtd_read_param(p, k) == mtd_block_read(ParamBlock(k), 4, 4, 163) \o MtdParam(p, k, mtd_read_param_value(p, k))

MtdTextureVersion(t) == IF t.extended THEN 5 ELSE 3
MtdTexture(t, k) ==
    MtdString("texture_type", k, t.type, 53) \o <<FI("uv_number", k, 4)>> \o MtdMarker(53) \o <<FI("shader_data_index", k, 4)>>
    \o When(t.extended, <<Const(163, 4)>> \o MtdString("texture_path", k, t.path, 186)
                        \o <<Num("float_count", k, t.floats, 4), Num("floats", k, 0, 4 * t.floats)>>)
mtd_write_texture(t, k) ==
    mtd_block_write(TextureBlock(k), 8192, MtdTextureVersion(t), 163) \o MtdTexture(t, k) \o mtd_block_finish(TextureBlock(k))
mtd_read_texture(t, k) == mtd_block_read(TextureBlock(k), 8192, MtdTextureVersion(t), 163) \o MtdTexture(t, k)

MtdHeader == MtdString("MTD ", 0, 4, 52) \o <<Const(1000, 4)>>
MtdPaths(d) == MtdString("shader_path", 0, d.shader, 163) \o MtdString("description", 0, d.description, 3) \o <<Const(1, 4)>>
MtdEnd == MtdMarker(4) \o <<Const(0, 4)>>
MtdLists(d, params, textures) ==
    <<Const(0, 4)>> \o MtdMarker(3) \o <<V("param_count", Len(d.params), 4)>> \o params
    \o MtdMarker(3) \o <<V("texture_count", Len(d.textures), 4)>> \o textures \o MtdEnd
mtd_write_to_writer(d) ==
    mtd_block_write(FileBlock, 0, 3, 1)
    \o mtd_block_write(HeaderBlock, 1, 2, 176) \o MtdHeader \o mtd_block_finish(HeaderBlock) \o MtdMarker(1)
    \o mtd_block_write(DataBlock, 2, 4, 163) \o MtdPaths(d)
    \o mtd_block_write(ListsBlock, 3, 4, 163)
    \o MtdLists(d, Each([k \in DOMAIN d.params |-> mtd_write_param(d.params[k], k)]),
                   Each([k \in DOMAIN d.textures |-> mtd_write_texture(d.textures[k], k)]))
    \o mtd_block_finish(ListsBlock) \o MtdEnd \o mtd_block_finish(DataBlock) \o MtdEnd \o mtd_block_finish(FileBlock)
mtd_read_to_object(d) ==
    mtd_block_read(FileBlock, 0, 3, 1)
    \o mtd_block_read(HeaderBlock, 1, 2, 176) \o MtdHeader \o MtdMarker(1)
    \o mtd_block_read(DataBlock, 2, 4, 163) \o MtdPaths(d)
    \o mtd_block_read(ListsBlock, 3, 4, 163)
    \o MtdLists(d, Each([k \in DOMAIN d.params |-> mtd_read_param(d.params[k], k)]),
                   Each([k \in DOMAIN d.textures |-> mtd_read_texture(d.textures[k], k)]))
    \o MtdEnd \o MtdEnd
-----------------------------------------------------------------------------
(***************************************************************************)
(* MATBIN.  The places of the offsets are kept in arrays meanwhile.        *)
(***************************************************************************)
Slot64(n, ix) == <<Mark(n, ix), Num(n, ix, 0, 8)>>
matbin_write_i64_at(n, ix) == <<Mark("here", 0), StepAt(n, ix), Ref(n, ix, <<"here", 0>>, 0, 8), StepBack>>
TextAt(n, ix, len) == matbin_write_i64_at(n, ix) \o <<Text16(n, ix, len)>>
TextFrom(n, ix, len) == Get(n, ix, <<Text16(n, ix, len)>>)

MATBIN_COUNT == [int |-> 1, int2 |-> 2, float |-> 1, float2 |-> 2, float3 |-> 3, float4 |-> 4, float5 |-> 5]
matbin_read_param_value(p, k) ==
    <<IF p.type = "bool" THEN Raw("bool", k, 0, 1) ELSE Num(p.type, k, 0, 4 * MATBIN_COUNT[p.type])>>
\* Three numbers are followed by two ones, which the reader leaves.
matbin_write_param_value(p, k) == matbin_read_param_value(p, k) \o When(p.type = "float3", <<Const(1, 4), Const(1, 4)>>)

MatbinHeader(d, shader, source) ==
    <<Magic("MAB", 4), Const(2, 4)>> \o shader \o source
    \o <<F("key", 4), V("param_count", Len(d.params), 4), V("sampler_count", Len(d.samplers), 4), Zeros(20)>>
MatbinParam(p, k, name, value) == name \o value \o <<FI("param_key", k, 4), Num(p.type, k, 0, 4), Zeros(16)>>
MatbinSampler(k, type, path) == type \o path \o <<FI("sampler_key", k, 4), FI("unk14", k, 8), Zeros(20)>>

matbin_write_to_writer(d) ==
    <<Base(0)>> \o MatbinHeader(d, Slot64("shader_path", 0), Slot64("source_path", 0))
    \o Each([k \in DOMAIN d.params |-> MatbinParam(d.params[k], k, Slot64("param_name", k), Slot64("param_value", k))])
    \o Each([k \in DOMAIN d.samplers |-> MatbinSampler(k, Slot64("sampler_type", k), Slot64("sampler_path", k))])
    \o Each([k \in DOMAIN d.params |-> TextAt("param_name", k, d.params[k].name)
                \o matbin_write_i64_at("param_value", k) \o matbin_write_param_value(d.params[k], k)])
    \o Each([k \in DOMAIN d.samplers |-> TextAt("sampler_type", k, d.samplers[k].type) \o TextAt("sampler_path", k, d.samplers[k].path)])
    \o TextAt("shader_path", 0, d.shader) \o TextAt("source_path", 0, d.source)

Found64(n, ix) == <<Offset(n, ix, 8)>>
matbin_read_from_reader(d) ==
    MatbinHeader(d, Found64("shader_path", 0), Found64("source_path", 0))
    \o Each([k \in DOMAIN d.params |-> MatbinParam(d.params[k], k, Found64("param_name", k), Found64("param_value", k))
                \o TextFrom("param_name", k, d.params[k].name) \o Get("param_value", k, matbin_read_param_value(d.params[k], k))])
    \o Each([k \in DOMAIN d.samplers |-> MatbinSampler(k, Found64("sampler_type", k), Found64("sampler_path", k))
                \o TextFrom("sampler_type", k, d.samplers[k].type) \o TextFrom("sampler_path", k, d.samplers[k].path)])
    \o TextFrom("shader_path", 0, d.shader) \o TextFrom("source_path", 0, d.source)

MaterialWrites(d) == CASE d.fmt = "MTD"    -> mtd_write_to_writer(d)
                       [] d.fmt = "MATBIN" -> matbin_write_to_writer(d)
                       [] OTHER            -> NavigationWrites(d)
MaterialReads(d) == CASE d.fmt = "MTD"    -> mtd_read_to_object(d)
                      [] d.fmt = "MATBIN" -> matbin_read_from_reader(d)
                      [] OTHER            -> NavigationReads(d)
=============================================================================
