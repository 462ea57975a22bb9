---------------------------- MODULE LegacyMaps ----------------------------
(***************************************************************************)
(* The map files (MSB) of the games up to Dark Souls 3, with 32-bit        *)
(* offsets.  A map is a chain of lists, each with offsets of its entries,  *)
(* of the next list and of its own name; an entry is a head and what the   *)
(* offsets in it, relative to the entry, point to.  A document is          *)
(*   MSB  [game, models, events, regions, parts, routes, layers]           *)
(* and an entry is [kind, type, shape, name, path]; name and path are      *)
(* lengths with the terminator, kind is the kind of a model.               *)
(***************************************************************************)
EXTENDS Lights

(***************************************************************************)
(* Entries.  A slot of the head stands for the offset of a piece, unread   *)
(* bytes are skipped by the reader.  A piece is a text, data, "skipped"    *)
(* (the reader checks that there is an offset and leaves it at that),      *)
(* "null" (there is none, and the reader checks it) or "ignored" (none is  *)
(* written, the reader does not look).                                     *)
(***************************************************************************)
Slot(n) == Op("slot", n, 0, 0, 0)
Unread(w) == Op("unread", "unread", 0, 0, w)
Piece(slot, how, ops, after) == [slot |-> slot, how |-> how, ops |-> ops, after |-> after]
Block(slot, ops) == Piece(slot, "data", ops, <<>>)
Label(slot, len, after) == Piece(slot, "text", <<Raw(slot, 0, 1, len)>>, after)
Skipped(slot, ops) == Piece(slot, "skipped", ops, <<>>)
Null(slot) == Piece(slot, "null", <<>>, <<>>)
Ignored(slot) == Piece(slot, "ignored", <<>>, <<>>)

WriteOps(ops, ix, k) ==
    [o \in DOMAIN ops |-> CASE ops[o].op = "slot"   -> Reserve(ops[o].name, ix, k)
                            [] ops[o].op = "unread" -> Raw("unread", ix, 0, ops[o].w)
                            [] OTHER -> [ops[o] EXCEPT !.i = ix]]
ReadOps(ops, ix, k) ==
    [o \in DOMAIN ops |-> CASE ops[o].op = "slot"   -> Offset(ops[o].name, ix, KindWidth[k])
                            [] ops[o].op = "unread" -> Skip(ops[o].w)
                            [] OTHER -> [ops[o] EXCEPT !.i = ix]]

\* Mutant: the offset of a piece is filled after it.
write_piece_Late(p, ix, k) == WriteOps(p.ops, ix, k) \o p.after \o <<FillFrom(p.slot, ix, ix, k)>>
write_piece(p, ix, k) ==
    <<IF p.how \in {"null", "ignored"} THEN Fill(p.slot, ix, 0, k) ELSE FillFrom(p.slot, ix, ix, k)>>
    \o WriteOps(p.ops, ix, k) \o p.after
write_entry(e, ix, k) ==
    <<Base(ix)>> \o WriteOps(e.head, ix, k) \o Each([p \in DOMAIN e.pieces |-> write_piece(e.pieces[p], ix, k)])

check_piece(p, ix) == CASE p.how = "null" -> <<Absent(p.slot, ix)>>
                        [] p.how = "ignored" -> <<>>
                        [] OTHER -> <<Given(p.slot, ix)>>
read_piece(p, ix, k) ==
    CASE p.how = "text" -> GetFrom(p.slot, ix, <<"Entry", ix>>, ReadOps(p.ops, ix, k))
      [] p.how = "data" -> <<GotoFrom(p.slot, ix, <<"Entry", ix>>)>> \o ReadOps(p.ops, ix, k)
      [] OTHER -> <<>>
read_entry(e, ix, k) ==
    <<Goto("Entry", ix)>> \o ReadOps(e.seen, ix, k) \o e.checks
    \o Each([p \in DOMAIN e.pieces |-> check_piece(e.pieces[p], ix)])
    \o Each([p \in DOMAIN e.pieces |-> read_piece(e.pieces[p], ix, k)])

EntryOf(head, pieces) == [head |-> head, seen |-> head, checks |-> <<>>, pieces |-> pieces]
Checked(e, check) == [e EXCEPT !.checks = <<check>>]
-----------------------------------------------------------------------------
(***************************************************************************)
(* The chain of lists.                                                     *)
(***************************************************************************)
MSB_MAX_LISTS == 16
ListNameWidth == [MODEL_PARAM_ST |-> 15, EVENT_PARAM_ST |-> 15, POINT_PARAM_ST |-> 15, ROUTE_PARAM_ST |-> 15,
              LAYER_PARAM_ST |-> 15, PARTS_PARAM_ST |-> 15, MAPSTUDIO_TREE_ST |-> 18,
              MAPSTUDIO_PARTS_POSE_ST |-> 24, MAPSTUDIO_BONE_NAME_STRING |-> 27]
List(name, entries) == [name |-> name, entries |-> entries]
EmptyList(name) == List(name, <<>>)

msb_legacy_write_header == <<Magic("MSB ", 4), Const(1, 4), Const(16, 4), Const(0, 1), Const(0, 1), Const(1, 1), Const(255, 1)>>
msb_legacy_assert_header == msb_legacy_write_header

ListName(list) == Raw(list.name, 0, 0, ListNameWidth[list.name])
OffsetCount(l, list) == Num("offset_count", l, Len(list.entries) + 1, 4)

msb_legacy_entry_list_write(l, list) ==
    <<Const(0, 4), Reserve("ListName", l, "I32"), OffsetCount(l, list)>>
    \o [k \in DOMAIN list.entries |-> Reserve("Entry", Ix(l, k), "I32")]
    \o <<Reserve("NextList", l, "I32"), FillPos("ListName", l, "I32"), ListName(list), Pad(4)>>
    \o Each([k \in DOMAIN list.entries |->
          <<FillPos("Entry", Ix(l, k), "I32")>> \o write_entry(list.entries[k], Ix(l, k), "I32")])

\* Mutant: the offset of the next list is taken after its beginning.
msb_legacy_write_Late(lists) ==
    Each([l \in DOMAIN lists |->
        msb_legacy_entry_list_write(l, lists[l]) \o When(l > 1, <<FillPos("NextList", l - 1, "I32")>>)])
    \o <<Fill("NextList", Len(lists), 0, "I32")>>
msb_legacy_write(lists) ==
    Each([l \in DOMAIN lists |->
        When(l > 1, <<FillPos("NextList", l - 1, "I32")>>) \o msb_legacy_entry_list_write(l, lists[l])])
    \o <<Fill("NextList", Len(lists), 0, "I32")>>

\* The headers are read first; the offsets of entries are passed over.
msb_legacy_read_header(lists) ==
    Each([l \in DOMAIN lists |->
        <<Require(l <= MSB_MAX_LISTS), Const(0, 4), Offset("ListName", l, 4), OffsetCount(l, lists[l]), Mark("data", l),
          Skip(4 * Len(lists[l].entries)), Offset("NextList", l, 4)>>
        \o Get("ListName", l, <<ListName(lists[l])>>)
        \o (IF l = Len(lists) THEN <<Absent("NextList", l)>> ELSE <<Given("NextList", l), Goto("NextList", l)>>)])
msb_legacy_iter_lists(lists) ==
    Each([l \in DOMAIN lists |->
        <<Goto("data", l)>> \o [k \in DOMAIN lists[l].entries |-> Offset("Entry", Ix(l, k), 4)]
        \o Each([k \in DOMAIN lists[l].entries |-> read_entry(lists[l].entries[k], Ix(l, k), "I32")])])
msb_legacy_read(lists) == msb_legacy_read_header(lists) \o msb_legacy_iter_lists(lists)
-----------------------------------------------------------------------------
(***************************************************************************)
(* Dark Souls (MSB1).                                                      *)
(***************************************************************************)
\* The type of a model stands for its kind.
msb1_model_type_from_kind ==
    [MAP_PIECE |-> 0, OBJECT |-> 1, CHARACTER |-> 2, PLAYER |-> 4, COLLISION |-> 5, NAVMESH |-> 6]
KindIsBack(types, kind) == Require(\A k \in DOMAIN types : types[k] = types[kind] => k = kind)

LegacyModel(types, m) ==
    Checked(EntryOf(<<Slot("Name"), V("type", types[m.kind], 4), F("id", 4), Slot("Sib"), F("instance_count", 4), Zeros(12)>>,
                    <<Label("Name", m.name, <<>>), Label("Sib", m.path, <<Pad(4)>>)>>),
            KindIsBack(types, m.kind))
msb1_model(m) == LegacyModel(msb1_model_type_from_kind, m)

Referents == <<F("part_index", 4), F("region_index", 4), F("entity_id", 4), Const(0, 4)>>
msb1_event_type_data(v) == <<F("type_value0", 4)>>
msb1_event(v) ==
    EntryOf(<<Slot("Name"), F("event_id", 4), V("type", v.type, 4), F("id", 4), Slot("Base"), Slot("Type"), Const(0, 4)>>,
           <<Label("Name", v.name, <<Pad(4)>>), Block("Base", Referents), Block("Type", msb1_event_type_data(v))>>)

Transform == <<F("position", 12), F("rotation", 12)>>
\* Circle, sphere, cylinder, rectangle and box; a point has no data.
ShapeWidth == <<4, 4, 8, 8, 12>>
msb1_region_shape_data(g) == IF g.shape = 0 THEN Null("Shape") ELSE Block("Shape", <<F("shape", ShapeWidth[g.shape])>>)
SoulsRegion(g, shape) ==
    EntryOf(<<Slot("Name"), Const(0, 4), F("id", 4), V("shape_type", g.shape, 4)>> \o Transform
            \o <<Slot("UnkA"), Slot("UnkB"), Slot("Shape"), Slot("Entity"), Const(0, 4)>>,
            <<Label("Name", g.name, <<Pad(4)>>), Block("UnkA", <<Const(0, 4)>>), Block("UnkB", <<Const(0, 4)>>),
              shape, Block("Entity", <<F("entity_id", 4)>>)>>)
msb1_region(g) == SoulsRegion(g, msb1_region_shape_data(g))

\* The texts of a part take 20 bytes at least.
TextsRest(p) == LET n == p.name + p.path + PadWidth(p.name + p.path, 4) IN IF n < 20 THEN 20 - n ELSE 0
PartModel(p) == <<Slot("Name"), V("type", p.type, 4), F("id", 4), F("model_index", 4)>>
Placement == Transform \o <<F("scale", 12)>>
MSB1_PART_PLAYER == 4
msb1_part_entity_data(p) == <<F("entity_id", 4), Raw("lights", 0, 0, 10), Const(0, 1), Raw("flags", 0, 0, 7), Const(0, 1), Const(0, 1)>>
msb1_part_type_data(p) == <<Zeros(IF p.type = MSB1_PART_PLAYER THEN 16 ELSE 8)>>
SoulsPart(p, entity, type) ==
    EntryOf(PartModel(p) \o <<Slot("Sib")>> \o Placement
            \o <<F("draw_groups", 16), F("disp_groups", 16), Slot("Entity"), Slot("Type"), Const(0, 4)>>,
            <<Label("Name", p.name, <<>>), Label("Sib", p.path, <<Pad(4), Zeros(TextsRest(p))>>),
              Block("Entity", entity), Block("Type", type)>>)
msb1_part(p) == SoulsPart(p, msb1_part_entity_data(p), msb1_part_type_data(p))

Models(entries) == List("MODEL_PARAM_ST", entries)
Events(entries) == List("EVENT_PARAM_ST", entries)
Regions(entries) == List("POINT_PARAM_ST", entries)
Parts(entries) == List("PARTS_PARAM_ST", entries)

msb1_read_list_cb(d) ==
    <<Models([k \in DOMAIN d.models |-> msb1_model(d.models[k])]), Events([k \in DOMAIN d.events |-> msb1_event(d.events[k])]),
      Regions([k \in DOMAIN d.regions |-> msb1_region(d.regions[k])]), Parts([k \in DOMAIN d.parts |-> msb1_part(d.parts[k])])>>

sf_msb1_write_to_memory(d) == msb_legacy_write(msb1_read_list_cb(d))
\* The byte order is guessed from the first offset.
sf_msb1_read_from_memory(d) ==
    <<Seek(4), Offset("ListName", 1, 4), AtMost("ListName", 1, 65535), Seek(0)>> \o msb_legacy_read(msb1_read_list_cb(d))
-----------------------------------------------------------------------------
(***************************************************************************)
(* Bloodborne, Demon's Souls and Deracine have entries like those of MSB1, *)
(* the last two a list of trees as well, which is always empty.            *)
(***************************************************************************)
msbb_model(m) == LegacyModel(msb1_model_type_from_kind, m)
msbb_event(v) == msb1_event(v)
msbb_region_shape_data(g) == msb1_region_shape_data(g)
msbb_region(g) == SoulsRegion(g, msbb_region_shape_data(g))
msbb_part_entity_data(p) == msb1_part_entity_data(p)
msbb_part_type_data(p) == msb1_part_type_data(p)
msbb_part(p) == SoulsPart(p, msbb_part_entity_data(p), msbb_part_type_data(p))
msbb_read_list_cb(d) ==
    <<Models([k \in DOMAIN d.models |-> msbb_model(d.models[k])]), Events([k \in DOMAIN d.events |-> msbb_event(d.events[k])]),
      Regions([k \in DOMAIN d.regions |-> msbb_region(d.regions[k])]), Parts([k \in DOMAIN d.parts |-> msbb_part(d.parts[k])])>>
sf_msbb_write_to_memory(d) == msb_legacy_write_header \o msb_legacy_write(msbb_read_list_cb(d))
sf_msbb_read_from_memory(d) == msb_legacy_assert_header \o msb_legacy_read(msbb_read_list_cb(d))

msbd_model(m) == LegacyModel(msb1_model_type_from_kind, m)
msbd_event(v) == msb1_event(v)
msbd_region_shape_data(g) == msb1_region_shape_data(g)
msbd_region(g) == SoulsRegion(g, msbd_region_shape_data(g))
msbd_part_entity_data(p) == msb1_part_entity_data(p)
msbd_part_type_data(p) == msb1_part_type_data(p)
msbd_part(p) == SoulsPart(p, msbd_part_entity_data(p), msbd_part_type_data(p))
msbd_read_list_cb(d) ==
    <<Models([k \in DOMAIN d.models |-> msbd_model(d.models[k])]), Events([k \in DOMAIN d.events |-> msbd_event(d.events[k])]),
      Regions([k \in DOMAIN d.regions |-> msbd_region(d.regions[k])]), Parts([k \in DOMAIN d.parts |-> msbd_part(d.parts[k])]),
      EmptyList("MAPSTUDIO_TREE_ST")>>
sf_msbd_write_to_memory(d) == <<Endian(TRUE)>> \o msb_legacy_write(msbd_read_list_cb(d))
sf_msbd_read_from_memory(d) == <<Endian(TRUE)>> \o msb_legacy_read(msbd_read_list_cb(d))

msbdr_model(m) == LegacyModel(msb1_model_type_from_kind, m)
msbdr_event(v) == msb1_event(v)
msbdr_region_shape_data(g) == msb1_region_shape_data(g)
msbdr_region(g) == SoulsRegion(g, msbdr_region_shape_data(g))
msbdr_part_entity_data(p) == msb1_part_entity_data(p)
msbdr_part_type_data(p) == msb1_part_type_data(p)
msbdr_part(p) == SoulsPart(p, msbdr_part_entity_data(p), msbdr_part_type_data(p))
msbdr_read_list_cb(d) ==
    <<Models([k \in DOMAIN d.models |-> msbdr_model(d.models[k])]), Events([k \in DOMAIN d.events |-> msbdr_event(d.events[k])]),
      Regions([k \in DOMAIN d.regions |-> msbdr_region(d.regions[k])]), Parts([k \in DOMAIN d.parts |-> msbdr_part(d.parts[k])]),
      EmptyList("MAPSTUDIO_TREE_ST")>>
sf_msbdr_write_to_memory(d) == msb_legacy_write_header \o msb_legacy_write(msbdr_read_list_cb(d))
sf_msbdr_read_from_memory(d) == msb_legacy_assert_header \o msb_legacy_read(msbdr_read_list_cb(d))
-----------------------------------------------------------------------------
(***************************************************************************)
(* Dark Souls 2 (MSB2): one type of each entry is supported.               *)
(***************************************************************************)
msb2_model_type_from_kind == [MAP_PIECE |-> 0, OBJECT |-> 1, COLLISION |-> 3, NAVMESH |-> 4]
MSB2_EVENT_LIGHT == 1
MSB2_REGION_START_POINT == 5
MSB_PART_MAP_PIECE == 0

EventHead(type) ==
    <<Slot("Name"), F("event_id", 4), V("type", type, 4), F("id", 4), Const(0, 4), Slot("Base"), Slot("Type")>>
\* A region is a point.
RegionHead(type) == <<Slot("Name"), V("type", type, 4), F("id", 4), V("shape_type", 0, 4)>> \o Transform
                    \o <<F("unk2c", 4), Slot("Base1"), Slot("Base2"), Const(-1, 4)>>
PartHead == <<Slot("Name"), V("type", MSB_PART_MAP_PIECE, 4), F("id", 4), F("model_index", 4), Const(0, 4), Slot("Sib")>> \o Placement
PartTexts(p) == <<Label("Name", p.name, <<>>), Label("Sib", p.path, <<Pad(4)>>)>>

msb2_model(m) == LegacyModel(msb2_model_type_from_kind, m)
msb2_event(v) ==
    EntryOf(EventHead(MSB2_EVENT_LIGHT),
            <<Label("Name", v.name, <<Pad(4)>>), Block("Base", Referents), Block("Type", <<F("type_value0", 4)>>)>>)
msb2_region(g) ==
    EntryOf(RegionHead(MSB2_REGION_START_POINT) \o <<Slot("Shape"), Slot("Type")>>,
            <<Label("Name", g.name, <<Pad(4)>>), Block("Base1", <<Const(0, 4)>>), Block("Base2", <<F("entity_id", 4)>>),
              Null("Shape"), Block("Type", <<F("type_value0", 4)>>)>>)
msb2_part(p) ==
    EntryOf(PartHead \o <<F("draw_groups", 16), F("disp_groups", 16), Slot("Entity"), Slot("Type")>>,
            PartTexts(p) \o <<Block("Entity", <<F("entity_id", 4)>>), Block("Type", <<Const(0, 4)>>)>>)
msb2_read_list_cb(d) ==
    <<Models([k \in DOMAIN d.models |-> msb2_model(d.models[k])]), Events([k \in DOMAIN d.events |-> msb2_event(d.events[k])]),
      Regions([k \in DOMAIN d.regions |-> msb2_region(d.regions[k])]), Parts([k \in DOMAIN d.parts |-> msb2_part(d.parts[k])]),
      EmptyList("MAPSTUDIO_PARTS_POSE_ST")>>
sf_msb2_write_to_memory(d) == msb_legacy_write_header \o msb_legacy_write(msb2_read_list_cb(d))
sf_msb2_read_from_memory(d) == msb_legacy_assert_header \o msb_legacy_read(msb2_read_list_cb(d))
-----------------------------------------------------------------------------
(***************************************************************************)
(* Dark Souls 3 (MSB3).                                                    *)
(***************************************************************************)
msb3_model_type_from_kind == [MAP_PIECE |-> 0, OBJECT |-> 1, CHARACTER |-> 2, PLAYER |-> 4, COLLISION |-> 5]
MSB3_EVENT_TREASURE == 4
MSB3_REGION_SPAWN_POINT == 8

msb3_model(m) == LegacyModel(msb3_model_type_from_kind, m)
msb3_event(v) ==
    EntryOf(EventHead(MSB3_EVENT_TREASURE),
            <<Label("Name", v.name, <<Pad(4)>>), Block("Base", Referents),
              Block("Type", <<F("treasure_part_index", 4), F("item_lot1", 4)>>)>>)
msb3_region(g) ==
    EntryOf(RegionHead(MSB3_REGION_SPAWN_POINT) \o <<F("layer", 4), Slot("Shape"), Slot("Base3"), Slot("Type")>>,
            <<Label("Name", g.name, <<Pad(4)>>), Piece("Base1", "data", <<Const(0, 2)>>, <<Pad(4)>>),
              Piece("Base2", "data", <<Const(0, 2)>>, <<Pad(4)>>), Null("Shape"),
              Block("Base3", <<F("activation_part_index", 4), F("entity_id", 4)>>), Block("Type", <<F("type_value0", 4), Zeros(12)>>)>>)
msb3_part(p) ==
    EntryOf(PartHead \o <<Const(-1, 4), F("layer", 4), F("draw_groups", 32), F("disp_groups", 32), F("backread_groups", 32),
                          Const(0, 4), Slot("Entity"), Slot("Type"), Slot("Gparam"), Slot("SceneGparam")>>,
            PartTexts(p)
            \o <<Block("Entity", <<F("entity_id", 4), Unread(16), F("entity_groups", 32), Const(0, 4)>>), Block("Type", <<Zeros(8)>>),
                 Null("Gparam"), Null("SceneGparam")>>)
msb3_read_list_cb(d) ==
    <<Models([k \in DOMAIN d.models |-> msb3_model(d.models[k])]), Events([k \in DOMAIN d.events |-> msb3_event(d.events[k])]),
      Regions([k \in DOMAIN d.regions |-> msb3_region(d.regions[k])]), EmptyList("ROUTE_PARAM_ST"), EmptyList("LAYER_PARAM_ST"),
      Parts([k \in DOMAIN d.parts |-> msb3_part(d.parts[k])]),
      EmptyList("MAPSTUDIO_PARTS_POSE_ST"), EmptyList("MAPSTUDIO_BONE_NAME_STRING")>>
sf_msb3_write_to_memory(d) == msb_legacy_write_header \o msb_legacy_write(msb3_read_list_cb(d))
sf_msb3_read_from_memory(d) == msb_legacy_assert_header \o msb_legacy_read(msb3_read_list_cb(d))
-----------------------------------------------------------------------------
(***************************************************************************)
(* Armored Core 4 (MSBAC4); For Answer, V and Verdict Day have the same    *)
(* entries and lists.                                                      *)
(***************************************************************************)
msbac4_model_type_from_kind == [MAP_PIECE |-> 0, OBJECT |-> 1, CHARACTER |-> 2, PLAYER |-> 4]
MSBAC4_EVENT_SCRIPT == 5
MSBAC4_REGION_SPAWN == 200

ResourceModel(types, m) ==
    Checked(EntryOf(<<Slot("Name"), V("type", types[m.kind], 4), F("id", 4), Slot("Resource"), F("instance_count", 4),
                      Slot("Render"), Slot("Row")>>,
                    <<Label("Name", m.name, <<>>), Label("Resource", m.path, <<Pad(4)>>), Block("Render", <<Const(0, 4)>>),
                      Null("Row")>>),
            KindIsBack(types, m.kind))
msbac4_model(m) == ResourceModel(msbac4_model_type_from_kind, m)
msbac4_event(v) ==
    EntryOf(<<Slot("Name"), F("unique_id", 4), V("type", MSBAC4_EVENT_SCRIPT, 4), F("id", 4), Slot("Type")>>,
            <<Label("Name", v.name, <<Pad(4)>>), Null("Type")>>)
msbac4_region(g) ==
    EntryOf(<<Slot("Name"), V("shape_type", 0, 4), V("type", MSBAC4_REGION_SPAWN, 4), F("id", 4)>> \o Transform
            \o <<F("unique_id", 4), F("point_id", 4), Slot("Shape"), Slot("Point")>>,
            <<Label("Name", g.name, <<Pad(4)>>), Null("Shape"), Block("Point", <<Const(0, 4)>>)>>)
\* A part names its model "m00" and forgets the name it reads.
msbac4_part(p) ==
    EntryOf(<<Slot("Name"), V("type", MSB_PART_MAP_PIECE, 4), F("id", 4), Slot("Model"), Slot("Resource")>> \o Placement
            \o <<F("entity_group_id", 4), F("entity_id", 4), Unread(4), Slot("Config")>>,
            <<Label("Name", p.name, <<>>), Label("Model", 4, <<>>), Label("Resource", p.path, <<Pad(4)>>),
              Block("Config", <<Const(0, 4)>>)>>)
msbac4_read_list_cb(d) ==
    <<Models([k \in DOMAIN d.models |-> msbac4_model(d.models[k])]), Events([k \in DOMAIN d.events |-> msbac4_event(d.events[k])]),
      Regions([k \in DOMAIN d.regions |-> msbac4_region(d.regions[k])]), EmptyList("ROUTE_PARAM_ST"), EmptyList("LAYER_PARAM_ST"),
      Parts([k \in DOMAIN d.parts |-> msbac4_part(d.parts[k])]), EmptyList("MAPSTUDIO_TREE_ST"), EmptyList("MAPSTUDIO_TREE_ST")>>
sf_msbac4_write_to_memory(d) == msb_legacy_write_header \o msb_legacy_write(msbac4_read_list_cb(d))
sf_msbac4_read_from_memory(d) == msb_legacy_assert_header \o msb_legacy_read(msbac4_read_list_cb(d))

msbfa_model(m) == ResourceModel(msbac4_model_type_from_kind, m)
msbfa_event(v) == msbac4_event(v)
msbfa_region(g) == msbac4_region(g)
msbfa_part(p) == msbac4_part(p)
msbfa_read_list_cb(d) ==
    <<Models([k \in DOMAIN d.models |-> msbfa_model(d.models[k])]), Events([k \in DOMAIN d.events |-> msbfa_event(d.events[k])]),
      Regions([k \in DOMAIN d.regions |-> msbfa_region(d.regions[k])]), EmptyList("ROUTE_PARAM_ST"), EmptyList("LAYER_PARAM_ST"),
      Parts([k \in DOMAIN d.parts |-> msbfa_part(d.parts[k])]), EmptyList("MAPSTUDIO_TREE_ST"), EmptyList("MAPSTUDIO_TREE_ST")>>
sf_msbfa_write_to_memory(d) == msb_legacy_write_header \o msb_legacy_write(msbfa_read_list_cb(d))
sf_msbfa_read_from_memory(d) == msb_legacy_assert_header \o msb_legacy_read(msbfa_read_list_cb(d))

msbv_model(m) == ResourceModel(msbac4_model_type_from_kind, m)
msbv_event(v) == msbac4_event(v)
msbv_region(g) == msbac4_region(g)
msbv_part(p) == msbac4_part(p)
msbv_read_list_cb(d) ==
    <<Models([k \in DOMAIN d.models |-> msbv_model(d.models[k])]), Events([k \in DOMAIN d.events |-> msbv_event(d.events[k])]),
      Regions([k \in DOMAIN d.regions |-> msbv_region(d.regions[k])]), EmptyList("ROUTE_PARAM_ST"), EmptyList("LAYER_PARAM_ST"),
      Parts([k \in DOMAIN d.parts |-> msbv_part(d.parts[k])]), EmptyList("MAPSTUDIO_TREE_ST"), EmptyList("MAPSTUDIO_TREE_ST")>>
sf_msbv_write_to_memory(d) == msb_legacy_write_header \o msb_legacy_write(msbv_read_list_cb(d))
sf_msbv_read_from_memory(d) == msb_legacy_assert_header \o msb_legacy_read(msbv_read_list_cb(d))

msbvd_model(m) == ResourceModel(msbac4_model_type_from_kind, m)
msbvd_event(v) == msbac4_event(v)
msbvd_region(g) == msbac4_region(g)
msbvd_part(p) == msbac4_part(p)
msbvd_read_list_cb(d) ==
    <<Models([k \in DOMAIN d.models |-> msbvd_model(d.models[k])]), Events([k \in DOMAIN d.events |-> msbvd_event(d.events[k])]),
      Regions([k \in DOMAIN d.regions |-> msbvd_region(d.regions[k])]), EmptyList("ROUTE_PARAM_ST"), EmptyList("LAYER_PARAM_ST"),
      Parts([k \in DOMAIN d.parts |-> msbvd_part(d.parts[k])]), EmptyList("MAPSTUDIO_TREE_ST"), EmptyList("MAPSTUDIO_TREE_ST")>>
sf_msbvd_write_to_memory(d) == msb_legacy_write_header \o msb_legacy_write(msbvd_read_list_cb(d))
sf_msbvd_read_from_memory(d) == msb_legacy_assert_header \o msb_legacy_read(msbvd_read_list_cb(d))
-----------------------------------------------------------------------------
(***************************************************************************)
(* Ninja Blade (MSBN): models and parts only, and no header.               *)
(***************************************************************************)
MSBN_MAP_PIECE == 1
msbn_model(m) == EntryOf(<<Slot("Name"), V("type", MSBN_MAP_PIECE, 4)>>, <<Label("Name", m.name, <<Pad(4)>>)>>)
msbn_part(p) ==
    EntryOf(<<Slot("Name"), V("type", MSBN_MAP_PIECE, 4), F("id", 4), F("model_index", 4), Const(0, 4)>> \o Placement,
            <<Label("Name", p.name, <<Pad(4)>>)>>)
msbn_read_list_cb(d) == <<Models([k \in DOMAIN d.models |-> msbn_model(d.models[k])]), Parts([k \in DOMAIN d.parts |-> msbn_part(d.parts[k])])>>
sf_msbn_write_to_memory(d) == msb_legacy_write(msbn_read_list_cb(d))
sf_msbn_read_from_memory(d) == msb_legacy_read(msbn_read_list_cb(d))
-----------------------------------------------------------------------------
LegacyMapWrites(d) ==
    CASE d.fmt # "MSB"      -> LightWrites(d)
      [] d.game = "msb1"    -> sf_msb1_write_to_memory(d)
      [] d.game = "msbb"    -> sf_msbb_write_to_memory(d)
      [] d.game = "msbd"    -> sf_msbd_write_to_memory(d)
      [] d.game = "msbdr"   -> sf_msbdr_write_to_memory(d)
      [] d.game = "msb2"    -> sf_msb2_write_to_memory(d)
      [] d.game = "msb3"    -> sf_msb3_write_to_memory(d)
      [] d.game = "msbac4"  -> sf_msbac4_write_to_memory(d)
      [] d.game = "msbfa"   -> sf_msbfa_write_to_memory(d)
      [] d.game = "msbv"    -> sf_msbv_write_to_memory(d)
      [] d.game = "msbvd"   -> sf_msbvd_write_to_memory(d)
      [] d.game = "msbn"    -> sf_msbn_write_to_memory(d)
LegacyMapReads(d) ==
    CASE d.fmt # "MSB"      -> LightReads(d)
      [] d.game = "msb1"    -> sf_msb1_read_from_memory(d)
      [] d.game = "msbb"    -> sf_msbb_read_from_memory(d)
      [] d.game = "msbd"    -> sf_msbd_read_from_memory(d)
      [] d.game = "msbdr"   -> sf_msbdr_read_from_memory(d)
      [] d.game = "msb2"    -> sf_msb2_read_from_memory(d)
      [] d.game = "msb3"    -> sf_msb3_read_from_memory(d)
      [] d.game = "msbac4"  -> sf_msbac4_read_from_memory(d)
      [] d.game = "msbfa"   -> sf_msbfa_read_from_memory(d)
      [] d.game = "msbv"    -> sf_msbv_read_from_memory(d)
      [] d.game = "msbvd"   -> sf_msbvd_read_from_memory(d)
      [] d.game = "msbn"    -> sf_msbn_read_from_memory(d)
=============================================================================
