------------------------------- MODULE Maps --------------------------------
(***************************************************************************)
(* The map files (MSB) of the later games, with 64-bit offsets and UTF-16  *)
(* texts: Sekiro (MSBS), Elden Ring (MSBE) and Armored Core VI (MSBVI).    *)
(* Documents are those of LegacyMaps; the path of a region of MSBS is the  *)
(* length of its two lists.                                                *)
(***************************************************************************)
EXTENDS LegacyMaps

UINT32_MAX == -1      \* as its four bytes
Wide(slot, len, after) == Label(slot, 2 * len, after)
Ones(n) == Raw("ones", 0, 255, n)          \* n bytes 255, asserted
Bytes(n) == Raw("bytes", 0, 0, n)          \* single bytes
Passed(slot, w, after) == Piece(slot, "skipped", <<Unread(w)>>, after)   \* written, and not read
Optional(present, slot, ops) == IF present THEN Block(slot, ops) ELSE Null(slot)
Repeated(n, ops) == Each([k \in 1 .. n |-> ops])
Known(types, e, x) == Checked(x, Require(e.type \in types))
-----------------------------------------------------------------------------
(***************************************************************************)
(* The chain of lists; the version of a list is not looked at.             *)
(***************************************************************************)
Versioned(v, list) == [name |-> list.name, entries |-> list.entries, version |-> v]

msb_common_write_header == <<Magic("MSB ", 4), Const(1, 4), Const(16, 4), Const(0, 1), Const(0, 1), Const(1, 1), Const(255, 1)>>
msb_common_assert_header == msb_common_write_header

WideName(list) == Raw(list.name, 0, 0, 2 * ListNameWidth[list.name])

\* Mutant: the offset of the name is taken before the next list's is reserved.
msb_entry_list_write_Early(l, list) ==
    <<V("version", list.version, 4), OffsetCount(l, list), Reserve("ListName", l, "I64")>>
    \o [k \in DOMAIN list.entries |-> Reserve("Entry", Ix(l, k), "I64")]
    \o <<FillPos("ListName", l, "I64"), Reserve("NextList", l, "I64"), WideName(list), Pad(8)>>
    \o Each([k \in DOMAIN list.entries |->
          <<FillPos("Entry", Ix(l, k), "I64")>> \o write_entry(list.entries[k], Ix(l, k), "I64")])
msb_entry_list_write(l, list) ==
    <<V("version", list.version, 4), OffsetCount(l, list), Reserve("ListName", l, "I64")>>
    \o [k \in DOMAIN list.entries |-> Reserve("Entry", Ix(l, k), "I64")]
    \o <<Reserve("NextList", l, "I64"), FillPos("ListName", l, "I64"), WideName(list), Pad(8)>>
    \o Each([k \in DOMAIN list.entries |->
          <<FillPos("Entry", Ix(l, k), "I64")>> \o write_entry(list.entries[k], Ix(l, k), "I64")])

msb_common_write(lists) ==
    msb_common_write_header
    \o Each([l \in DOMAIN lists |->
        When(l > 1, <<FillPos("NextList", l - 1, "I64")>>) \o msb_entry_list_write(l, lists[l])])
    \o <<Fill("NextList", Len(lists), 0, "I64")>>

msb_common_read_header(lists) ==
    msb_common_assert_header
    \o Each([l \in DOMAIN lists |->
        <<Require(l <= MSB_MAX_LISTS), V("version", lists[l].version, 4), OffsetCount(l, lists[l]), Offset("ListName", l, 8),
          Mark("data", l), Skip(8 * Len(lists[l].entries)), Offset("NextList", l, 8)>>
        \o Get("ListName", l, <<WideName(lists[l])>>)
        \o (IF l = Len(lists) THEN <<Absent("NextList", l)>> ELSE <<Given("NextList", l), Goto("NextList", l)>>)])
msb_common_iter_lists(lists) ==
    Each([l \in DOMAIN lists |->
        <<Goto("data", l)>> \o [k \in DOMAIN lists[l].entries |-> Offset("Entry", Ix(l, k), 8)]
        \o Each([k \in DOMAIN lists[l].entries |-> read_entry(lists[l].entries[k], Ix(l, k), "I64")])])
-----------------------------------------------------------------------------
(***************************************************************************)
(* Sekiro (MSBS).                                                          *)
(***************************************************************************)
msbs_model_type_from_kind == [MAP_PIECE |-> 0, OBJECT |-> 1, CHARACTER |-> 2, PLAYER |-> 4, COLLISION |-> 5]
ModelHead(type) ==
    <<Slot("Name"), V("type", type, 4), F("id", 4), Slot("Sib"), F("instance_count", 4), F("unk1c", 4), Slot("Type")>>
ModelTexts(m) == <<Wide("Name", m.name, <<>>), Wide("Sib", m.path, <<Pad(8)>>)>>
msbs_model_type_data == <<Bytes(3), Const(0, 1), F("unk_t04", 24), Const(0, 4)>>
msbs_model(m) ==
    Checked(EntryOf(ModelHead(msbs_model_type_from_kind[m.kind]),
                    Append(ModelTexts(m), Optional(m.kind = "MAP_PIECE", "Type", msbs_model_type_data))),
            KindIsBack(msbs_model_type_from_kind, m.kind))

MSBS_EVENTS == {4, 5, 7, 9, 14, 15, 17, 18, 20, 21, 22, 23, 24, UINT32_MAX}
msbs_event_has_type_data(type) == type \notin {22, UINT32_MAX}
msbs_event_type_data(type) ==
    CASE type = 4  -> <<Zeros(8), F("part_index", 4), Const(0, 4), F("item_lot_id", 4), Ones(36), F("action_button_id", 8),
                        Bytes(2), Const(0, 2), Zeros(12)>>                                          \* TREASURE
      [] type = 5  -> <<Bytes(2), F("limit_num", 6), F("interval", 8), Bytes(1), Zeros(3), F("unk_t14", 8), Zeros(20),
                        F("spawn_region_indices", 32), Zeros(16), F("spawn_part_indices", 128), Zeros(32)>>  \* GENERATOR
      [] type = 7  -> <<F("obj_act", 12), Bytes(1), Const(0, 1), Const(0, 2), F("event_flag_id", 4), Zeros(12)>>  \* OBJ_ACT
      [] type = 9  -> <<F("position", 12), F("degree", 4)>>                                         \* MAP_OFFSET
      [] type = 14 -> <<F("unk_t00", 4), Zeros(12), F("walk_region_indices", 64)>>
                      \o Repeated(5, <<F("region_index", 2), Const(0, 2), F("unk04", 8)>>) \o <<Zeros(20)>>  \* PATROL_INFO
      [] type = 15 -> <<F("platoon", 8), Zeros(8), F("group_part_indices", 128)>>                   \* PLATOON_INFO
      [] type \in {17, 18} -> <<F("param_id", 4), Zeros(28)>>                   \* RESOURCE_ITEM_INFO, GRASS_LOD_PARAM
      [] type = 20 -> <<F("unk_t00", 4), Bytes(4), Zeros(24)>>                                      \* SKIT_INFO
      [] type = 21 -> <<F("event21_part_indices", 128)>>                                            \* PLACEMENT_GROUP
      [] type = 23 -> <<F("unk_t00", 4), F("enemy_indices", 32), F("talk_ids", 32), F("unk_t44", 4), F("unk_t48", 4), Zeros(52)>>  \* TALK
      [] type = 24 -> <<F("owning_collision_index", 8), Zeros(24)>>                   \* AUTO_DRAW_GROUP_COLLISION
msbs_event(v) ==
    Known(MSBS_EVENTS, v,
          EntryOf(EventHead(v.type),
                  <<Wide("Name", v.name, <<Pad(8)>>), Block("Base", Referents),
                    Optional(msbs_event_has_type_data(v.type), "Type", msbs_event_type_data(v.type))>>))

MSBS_REGIONS == {0, 1, 2, 4, 5, 6, 8, 11, 13, 14, 15, 17, 18, 20, 21, 23, 24, 25, 26, UINT32_MAX}
MSBS_REGION_SHAPE_COMPOSITE == 6
msbs_region_has_type_data(type) == type \in {1, 2, 4, 5, 6, 8, 17, 20, 21, 23, 25, 26}
msbs_region_i16_list(g) == <<V("count", g.path, 2), F("values", 2 * g.path)>>
msbs_region_shape_data(g) == IF g.shape = MSBS_REGION_SHAPE_COMPOSITE THEN Block("Shape", <<F("children", 64)>>)
                             ELSE msb1_region_shape_data(g)
msbs_region_type_data(type) ==
    CASE type = 1  -> <<F("priority", 4)>>                                                          \* INVASION_POINT
      [] type = 2  -> <<F("unk_t00", 8), Const(-1, 4), F("unk_t0c", 32), Const(-1, 4), Zeros(16)>>  \* ENVIRONMENT_MAP_POINT
      [] type = 4  -> <<F("sound", 8), F("child_region_indices", 64), F("unk_t48", 4)>>             \* SOUND
      [] type = 5  -> <<F("effect_id", 8), Const(-1, 4), Const(-1, 4), Const(-1, 4), F("start_disabled", 4)>>  \* SFX
      [] type = 6  -> <<F("effect_id", 4), Ones(16), F("wind_area_index", 8), Const(0, 4)>>         \* WIND_SFX
      [] type = 8  -> <<Const(-1, 4), Zeros(12)>>                                                   \* SPAWN_POINT
      [] type = 17 -> <<F("compare", 8), Bytes(2), F("unk_t0a", 2), Zeros(24), F("unk_t24", 12), Const(0, 4)>>  \* ENVIRONMENT_MAP_EFFECT_BOX
      [] type = 20 -> <<F("unk_t00", 4)>>                                                           \* MUFFLING_BOX
      [] type = 21 -> <<F("unk_t00", 4), Const(0, 4)>>                                              \* MUFFLING_PORTAL
      [] type = 23 -> <<Bytes(2), Zeros(30)>>                                                       \* SOUND_SPACE_OVERRIDE
      [] type = 25 -> <<F("unk_t00", 8)>>                                                           \* PARTS_GROUP_AREA
      [] type = 26 -> <<F("unk_t00", 8), Zeros(24)>>                                                \* AUTO_DRAW_GROUP_POINT
WideRegionHead(g) ==
    <<Slot("Name"), V("type", g.type, 4), F("id", 4), V("shape_type", g.shape, 4)>> \o Transform
    \o <<F("unk2c", 4), Slot("Base1"), Slot("Base2"), Const(-1, 4), F("layer", 4), Slot("Shape"), Slot("Base3"), Slot("Type")>>
msbs_region(g) ==
    Known(MSBS_REGIONS, g,
          EntryOf(WideRegionHead(g),
                  <<Wide("Name", g.name, <<Pad(4)>>), Piece("Base1", "data", msbs_region_i16_list(g), <<Pad(4)>>),
                    Piece("Base2", "data", msbs_region_i16_list(g), <<Pad(8)>>), msbs_region_shape_data(g),
                    Piece("Base3", "data", <<F("activation_part_index", 4), F("entity_id", 4)>>,
                          When(g.type \in {23, 25, 26}, <<Pad(8)>>)),
                    IF msbs_region_has_type_data(g.type) THEN Piece("Type", "data", msbs_region_type_data(g.type), <<Pad(8)>>)
                    ELSE Piece("Type", "null", <<>>, <<Pad(8)>>)>>))

RouteEntry(r) ==
    EntryOf(<<Slot("Name"), F("unk08", 4), F("unk0c", 4), V("type", r.type, 4), F("id", 4), Zeros(104)>>,
            <<Wide("Name", r.name, <<Pad(8)>>)>>)
MSBS_ROUTES == {3, 4}
msbs_route(r) == Known(MSBS_ROUTES, r, RouteEntry(r))

MSBS_PARTS == {0, 1, 2, 4, 5, 9, 10, 11}
msbs_part_has_unk1(type) == type \in {0, 1, 2, 5}
msbs_part_has_unk2(type) == type \in {5, 11}
msbs_part_has_gparam(type) == type \in {0, 1, 2, 5, 9, 10}
msbs_part_has_scene_gparam(type) == type = 5
msbs_part_has_unk7(type) == type = 0
msbs_part_unk1 == <<F("collision_mask", 192), Bytes(2), Const(0, 2), Zeros(192)>>
msbs_part_unk2 == <<F("condition", 4), F("disp_groups", 32), F("unk24", 2), F("unk26", 2), Zeros(32)>>
msbs_part_gparam == <<F("light_set_id", 16), Zeros(16)>>
msbs_part_scene_gparam == <<Zeros(60), Bytes(4), F("unk40", 4), Zeros(12)>>
msbs_part_unk7 == <<F("unk00", 24), Const(-1, 4), Const(0, 4)>>
msbs_part_entity_data == <<F("entity_id", 4), Bytes(20), F("unk_e18", 4), F("entity_group_ids", 32), F("unk_e3c", 8), Zeros(16)>>
msbs_part_type_data(type) ==
    CASE type = 0 -> <<Zeros(8)>>                                                                   \* MAP_PIECE
      [] type \in {1, 9} -> <<Zeros(8), F("obj_part_index1", 4), Bytes(4), F("anim_id", 2), Const(-1, 2), Const(-1, 4),
                              F("unk_t18", 4), Const(-1, 4), F("obj_part_index2", 8)>>              \* (DUMMY_)OBJECT
      [] type \in {2, 10} -> <<Zeros(8), F("think_param_id", 12), Const(0, 2), F("platoon_id", 2), F("chara_init_id", 8),
                               F("unk_t20", 4), F("unk_t24", 4), Ones(16), F("backup_event_anim_id", 4), Const(-1, 4),
                               F("event_flag_id", 20), Const(1, 4), Const(-1, 4), Const(1, 4), Zeros(24), F("unk_t78", 4),
                               Zeros(8), F("unk_t84", 4)>>
                              \o Repeated(5, <<Const(-1, 4), Const(-1, 2), Const(10, 2)>>) \o <<Zeros(16)>>  \* (DUMMY_)ENEMY
      [] type = 4 -> <<Zeros(16)>>                                                                  \* PLAYER
      [] type = 5 -> <<Bytes(2), Const(0, 2), F("reflect_plane_height", 4), Const(-1, 4), Const(-1, 4), Const(-1, 4),
                       F("map_name_id", 2), Bytes(2), F("disable_bonfire_entity_id", 4), Const(-1, 4), Const(-1, 4),
                       Bytes(4), F("play_region_id", 4), F("lock_cam_param_id", 2), Const(-1, 2), Const(-1, 4),
                       Const(-1, 4), Const(-1, 4), F("unk_t3c", 28), Zeros(8)>>                     \* COLLISION
      [] type = 11 -> <<F("collision_index", 4), Bytes(4), Zeros(8)>>                               \* CONNECT_COLLISION
msbs_part(p) ==
    Known(MSBS_PARTS, p,
          EntryOf(PartModel(p) \o <<Const(0, 4), Slot("Sib")>> \o Placement
                  \o <<Const(-1, 4), Const(-1, 4), Const(0, 4), Slot("Unk1"), Slot("Unk2"), Slot("Entity"), Slot("Type"),
                       Slot("Gparam"), Slot("Scene"), Slot("Unk7"), Zeros(24)>>,
                  ModelTexts(p)
                  \o <<Optional(msbs_part_has_unk1(p.type), "Unk1", msbs_part_unk1),
                       Optional(msbs_part_has_unk2(p.type), "Unk2", msbs_part_unk2),
                       Piece("Entity", "data", msbs_part_entity_data, <<Pad(8)>>), Block("Type", msbs_part_type_data(p.type)),
                       Optional(msbs_part_has_gparam(p.type), "Gparam", msbs_part_gparam),
                       Optional(msbs_part_has_scene_gparam(p.type), "Scene", msbs_part_scene_gparam),
                       Optional(msbs_part_has_unk7(p.type), "Unk7", msbs_part_unk7)>>))

Routes(entries) == List("ROUTE_PARAM_ST", entries)
Layers(entries) == List("LAYER_PARAM_ST", entries)
msbs_write_empty_param(name, v) == Versioned(v, EmptyList(name))
msbs_read_list_cb(d) ==
    <<Versioned(35, Models([k \in DOMAIN d.models |-> msbs_model(d.models[k])])),
      Versioned(35, Events([k \in DOMAIN d.events |-> msbs_event(d.events[k])])),
      Versioned(35, Regions([k \in DOMAIN d.regions |-> msbs_region(d.regions[k])])),
      Versioned(35, Routes([k \in DOMAIN d.routes |-> msbs_route(d.routes[k])])),
      msbs_write_empty_param("LAYER_PARAM_ST", 35),
      Versioned(35, Parts([k \in DOMAIN d.parts |-> msbs_part(d.parts[k])])),
      msbs_write_empty_param("MAPSTUDIO_PARTS_POSE_ST", 0), msbs_write_empty_param("MAPSTUDIO_BONE_NAME_STRING", 0)>>
sf_msbs_write_to_memory(d) == msb_common_write(msbs_read_list_cb(d))
sf_msbs_read_from_memory(d) == msb_common_read_header(msbs_read_list_cb(d)) \o msb_common_iter_lists(msbs_read_list_cb(d))
-----------------------------------------------------------------------------
(***************************************************************************)
(* Elden Ring (MSBE): what the offsets of an entry point to is written as  *)
(* zeros and passed over by the reader, but for the texts.  An identifier  *)
(* of -1 is replaced by the index of the entry; documents have none.       *)
(***************************************************************************)
MSBE_MODELS == {0, 2, 4, 5, 10}
msbe_model(m) ==
    Known(MSBE_MODELS, m,
          EntryOf(ModelHead(m.type), Append(ModelTexts(m), IF m.type = 0 THEN Passed("Type", 28, <<>>) ELSE Null("Type"))))

MSBE_EVENTS == {4, 5, 7, 10, 12, 15, 20, 21, 23, 24, 25, UINT32_MAX}
MSBE_EVENT_PSEUDO_MULTIPLAYER == 12
msbe_event(v) ==
    LET after == <<Pad(IF v.type = MSBE_EVENT_PSEUDO_MULTIPLAYER THEN 4 ELSE 8)>>
    IN  Known(MSBE_EVENTS, v,
              EntryOf(<<Slot("Name"), F("event_id", 4), V("type", v.type, 4), F("other_id", 4), F("unk14", 4),
                        Slot("Base"), Slot("Type"), Slot("Unk")>>,
                      <<Wide("Name", v.name, <<Pad(8)>>), Passed("Base", 16, <<>>),
                        IF v.type # UINT32_MAX THEN Passed("Type", 64, after) ELSE Piece("Type", "null", <<>>, after),
                        Passed("Unk", 32, <<Pad(8)>>)>>))

MSBE_REGIONS == {1, 2, 4, 5, 6, 8, 9, 17, 18, 21, 22} \cup (26 .. 33) \cup (35 .. 44) \cup {46} \cup (48 .. 55) \cup {UINT32_MAX}
msbe_region_has_type_data(type) == type \notin {18, 31, 38, 39, 44, UINT32_MAX}
msbe_region(g) ==
    LET late  == g.type > 26      \* UINT32_MAX is not
        after == When(~late, <<Pad(8)>>)
    IN  Known(MSBE_REGIONS, g,
              EntryOf(<<Slot("Name"), V("type", g.type, 4), F("id", 4), F("shape_type", 4), Unread(24), F("region_id", 4),
                        Slot("Base1"), Slot("Base2"), Unread(8), Slot("Shape"), Slot("Base3"), Slot("Type"), Slot("Unk4")>>,
                      <<Wide("Name", g.name, <<Pad(4)>>), Passed("Base1", 2, <<Pad(4)>>), Passed("Base2", 2, <<Pad(8)>>),
                        Null("Shape"), Passed("Base3", 16, When(late, <<Pad(8)>>)),
                        IF msbe_region_has_type_data(g.type) THEN Passed("Type", 32, after) ELSE Piece("Type", "null", <<>>, after),
                        Passed("Unk4", 32, <<Pad(8)>>)>>))

MSBE_ROUTES == {3, 4, UINT32_MAX}
msbe_route(r) == Known(MSBE_ROUTES, r, RouteEntry(r))

\* The reader takes the offsets of the entity and type data 4 bytes early: each
\* word it gets has the lower half of one in its upper half, so it is zero when
\* that offset is, and whether it is zero is all that is asked of it.
MSBE_PARTS == {0, 2, 4, 5, 9, 10, 11, 13}
msbe_part(p) ==
    Known(MSBE_PARTS, p,
          EntryOf(<<Slot("Name"), Unread(4), V("type", p.type, 4), F("other_id", 4), F("model_index", 4), Slot("Sib"),
                    Unread(64), Slot("Entity"), Slot("Type"), Unread(80)>>,
                  <<Wide("Name", p.name, <<>>), Passed("Sib", 2, <<Pad(8)>>),
                    Passed("Entity", 88, <<>>), Passed("Type", 64, <<Pad(8)>>)>>))

msbe_write_param_header(name, v) == Versioned(v, EmptyList(name))
msbe_read_list_cb(d) ==
    <<Versioned(73, Models([k \in DOMAIN d.models |-> msbe_model(d.models[k])])),
      Versioned(73, Events([k \in DOMAIN d.events |-> msbe_event(d.events[k])])),
      Versioned(73, Regions([k \in DOMAIN d.regions |-> msbe_region(d.regions[k])])),
      Versioned(73, Routes([k \in DOMAIN d.routes |-> msbe_route(d.routes[k])])),
      msbe_write_param_header("LAYER_PARAM_ST", 73),
      Versioned(73, Parts([k \in DOMAIN d.parts |-> msbe_part(d.parts[k])]))>>
sf_msbe_write_to_memory(d) == msb_common_write(msbe_read_list_cb(d))
sf_msbe_read_from_memory(d) == msb_common_read_header(msbe_read_list_cb(d)) \o msb_common_iter_lists(msbe_read_list_cb(d))
-----------------------------------------------------------------------------
(***************************************************************************)
(* Armored Core VI (MSBVI).                                                *)
(***************************************************************************)
MSBVI_MODELS == {0, 2, 4, 5, 10}
msbvi_model(m) ==
    Known(MSBVI_MODELS, m,
          EntryOf(<<Slot("Name"), V("type", m.type, 4), F("type_index", 4), Slot("Sib"), F("instance_count", 4), Zeros(12)>>,
                  ModelTexts(m)))

MSBVI_EVENTS == {4, 5, 9, 15, 20, 24, UINT32_MAX}
\* The part and region of an event are written as -1.
msbvi_event(v) ==
    Known(MSBVI_EVENTS, v,
          EntryOf(<<Slot("Name"), F("event_id", 4), V("type", v.type, 4), F("type_index", 4), Const(0, 4), Slot("Common"), Slot("Type")>>,
                  <<Wide("Name", v.name, <<Pad(8)>>),
                    Block("Common", <<V("part_index", -1, 4), V("region_index", -1, 4), F("entity_id", 4), Const(255, 1), Zeros(3)>>),
                    Ignored("Type")>>))

MSBVI_REGIONS == {1, 2, 4, 5, 6, 17, 18, 28, 29, 30, 32, 33, 35, 36, 37, 39, 45, 46, 47} \cup (49 .. 56) \cup {UINT32_MAX}
msbvi_region(g) ==
    Known(MSBVI_REGIONS, g,
          EntryOf(<<Slot("Name"), V("type", g.type, 4), F("type_index", 4), F("shape_type", 4), Unread(28), Slot("Parents"),
                    Slot("Children"), Unread(8), Slot("Form"), Slot("Common"), Slot("Type"), Slot("Tail")>>,
                  <<Wide("Name", g.name, <<Pad(4)>>), Passed("Parents", 2, <<Pad(4)>>), Passed("Children", 2, <<Pad(8)>>),
                    Ignored("Form"), Block("Common", <<Unread(4), F("entity_id", 4), Unread(32)>>), Ignored("Type"),
                    Passed("Tail", 12, <<>>)>>))

msbvi_route(r) ==
    EntryOf(<<Slot("Name"), F("unk08", 4), F("unk0c", 4), Const(-1, 4), Zeros(108)>>, <<Wide("Name", r.name, <<Pad(8)>>)>>)
msbvi_layer(y) ==
    EntryOf(<<Slot("Name"), F("unk08", 4), Const(0, 4), F("unk10", 4), F("unk14", 4)>>, <<Wide("Name", y.name, <<Pad(8)>>)>>)

\* The writer has nine numbers after the path, the seventh -1 and the eighth 1;
\* the reader looks for these two behind 48 bytes.
MSBVI_PARTS == 0 .. 13
PartFront(p) == <<Slot("Name"), V("type", p.type, 4), F("type_index", 4), F("model_index", 4), Const(0, 4), Slot("Sib")>>
msbvi_part_read_one(p) ==
    PartFront(p) \o <<Unread(48), Const(-1, 4), Const(1, 4), Unread(16), Slot("Common"), Slot("Type")>>
msbvi_part_write_one(p) ==
    PartFront(p) \o <<Unread(24), Const(-1, 4), Const(1, 4), Const(0, 4), Slot("ZeroA"), Slot("ZeroB"), Slot("Common"),
                      Slot("Type"), Zeros(80)>>
msbvi_part(p) ==
    [Known(MSBVI_PARTS, p,
           EntryOf(msbvi_part_write_one(p),
                   ModelTexts(p) \o <<Passed("Common", 160, <<>>), Ignored("Type"), Ignored("ZeroA"), Ignored("ZeroB")>>))
     EXCEPT !.seen = msbvi_part_read_one(p)]

msbvi_read_list_cb(d) ==
    <<Versioned(52, Models([k \in DOMAIN d.models |-> msbvi_model(d.models[k])])),
      Versioned(52, Events([k \in DOMAIN d.events |-> msbvi_event(d.events[k])])),
      Versioned(52, Regions([k \in DOMAIN d.regions |-> msbvi_region(d.regions[k])])),
      Versioned(52, Routes([k \in DOMAIN d.routes |-> msbvi_route(d.routes[k])])),
      Versioned(52, Layers([k \in DOMAIN d.layers |-> msbvi_layer(d.layers[k])])),
      Versioned(52, Parts([k \in DOMAIN d.parts |-> msbvi_part(d.parts[k])]))>>
sf_msbvi_write_to_memory(d) == msb_common_write(msbvi_read_list_cb(d))
sf_msbvi_read_from_memory(d) == msb_common_read_header(msbvi_read_list_cb(d)) \o msb_common_iter_lists(msbvi_read_list_cb(d))
-----------------------------------------------------------------------------
MapWrites(d) ==
    CASE d.fmt # "MSB"    -> LightWrites(d)
      [] d.game = "msbs"  -> sf_msbs_write_to_memory(d)
      [] d.game = "msbe"  -> sf_msbe_write_to_memory(d)
      [] d.game = "msbvi" -> sf_msbvi_write_to_memory(d)
      [] OTHER            -> LegacyMapWrites(d)
MapReads(d) ==
    CASE d.fmt # "MSB"    -> LightReads(d)
      [] d.game = "msbs"  -> sf_msbs_read_from_memory(d)
      [] d.game = "msbe"  -> sf_msbe_read_from_memory(d)
      [] d.game = "msbvi" -> sf_msbvi_read_from_memory(d)
      [] OTHER            -> LegacyMapReads(d)

\* A map with one entry in each list is read back from what is written
\* (msbvi_part_read_one finds what msbvi_part_write_one has written), as the
\* tests the roadmap asks for would see.
MinimalMapComesBack ==
    phase = "read" /\ pc <= Len(Reads[doc]) /\ R.op \in {"num", "raw", "offset"} => Matches(R)
=============================================================================
