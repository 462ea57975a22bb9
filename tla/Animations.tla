----------------------------- MODULE Animations -----------------------------
(***************************************************************************)
(* TAE, the events of animations.  A document is                           *)
(*   TAE  [format, skeleton, sib, anims]                                   *)
(* An animation is [id, null, type, name, events, groups]: its mini header *)
(* is empty if null, and imports another animation if type is 1.  An event *)
(* is [start, end, type, size] with that many bytes of parameters, a group *)
(* the sequence of the indices of its events.  Texts are lengths in        *)
(* characters with the terminator, 0 for none.                             *)
(***************************************************************************)
EXTENDS Maps

TaeLong(d) == d.format \in {"SOTFS", "DS3", "SDT", "DESR"}
TaeDesFamily(d) == d.format \in {"DS1", "DES", "DESR"}
TaeOldDes(d) == d.format \in {"DS1", "DES"}
TaeKind(d) == IF TaeLong(d) THEN "VARINT_8" ELSE "VARINT_4"
TaeWidth(d) == KindWidth[TaeKind(d)]
TaeIf(d, formats, ops) == When(d.format \in formats, ops)
File0 == <<"base", 0>>           \* mark: the start of the file

\* What the reader makes of version, flags and the byte at 16.
tae_version(d) == CASE d.format \in {"DS3", "SOTFS"} -> 12 [] d.format = "SDT" -> 13 [] OTHER -> 11
tae_is64_byte(d) == TaeLong(d) /\ d.format # "DESR"
tae_sub_format(d) == IF d.format = "DES" THEN 0 ELSE 2
tae_flag_b(d) == d.format = "SOTFS"
tae_first_offset(d) == IF d.format = "DESR" THEN 48 ELSE 64
tae_format_of(d) ==
    LET desr == d.format # "DES" /\ tae_first_offset(d) = 48      \* big-endian, the byte is 0
        long == desr \/ tae_is64_byte(d)
    IN  CASE tae_version(d) = 11 /\ ~long -> IF tae_sub_format(d) = 0 THEN "DES" ELSE "DS1"
          [] tae_version(d) = 11 /\ desr  -> "DESR"
          [] tae_version(d) = 12 /\ long  -> IF tae_flag_b(d) THEN "SOTFS" ELSE "DS3"
          [] tae_version(d) = 13          -> "SDT"
          [] OTHER                        -> "UNSUPPORTED_VERSION"

TaeStart(d, size) ==
    <<Magic("TAE ", 4), V("big_endian", IF d.format \in {"DES", "DESR"} THEN 1 ELSE 0, 1), Endian(d.format = "DES"), Zeros(1), Zeros(1),
      V("is64", IF tae_is64_byte(d) THEN 255 ELSE 0, 1), V("version", tae_version(d), 4), size>>
TaeBank(d, w) ==
    (IF TaeOldDes(d) THEN <<V("sub_format", tae_sub_format(d), 2), Const(1, 2)>> ELSE <<F("event_bank", w)>>)
    \o <<Const(0, w)>> \o When(TaeOldDes(d), Repeated(3, <<Const(0, 8)>>))
TaeHeader(d) ==
    LET w == TaeWidth(d)
        second == IF d.format = "DESR" THEN 64 ELSE 80
    IN  <<Const(tae_first_offset(d), w), Const(1, w), Const(second, w), Const(IF tae_is64_byte(d) THEN 128 ELSE 112, w)>>
        \o When(d.format # "DESR", TaeBank(d, w))
        \o <<Raw("flags", 0, 0, 8), Bool("unk_flag_a", ~tae_flag_b(d)), Bool("unk_flag_b", tae_flag_b(d)), Zeros(6), F("id", 4),
             V("animation_count", Len(d.anims), 4), Slot("AnimsOffset"), Slot("AnimGroupsHeaderOffset"),
             Const(IF TaeDesFamily(d) THEN 144 ELSE 160, w), V("animation_count", Len(d.anims), w), Slot("FirstAnimOffset")>>
        \o When(TaeOldDes(d), <<Const(0, 4)>>) \o <<Const(1, w), Const(IF TaeDesFamily(d) THEN 128 ELSE 144, w)>>
        \o When(TaeOldDes(d), <<Const(0, 8)>>) \o <<F("id", 4), F("id", 4), Const(second, w), Const(0, 8)>>
        \o <<Const(CASE d.format \in {"DES", "DESR"} -> 160 [] d.format = "DS1" -> 152 [] OTHER -> 176, w)>>
TaeNames(d) ==
    LET zeros == Repeated(2, <<Const(0, TaeWidth(d))>>)
    IN  CASE d.format = "DESR"  -> <<Const(176, 8), Const(0, 4), Const(0, 4)>>
          [] d.format = "DES"   -> zeros \o <<Slot("SkeletonName"), Slot("SibName")>>
          [] d.format = "SOTFS" -> <<Slot("SkeletonName"), Slot("SibName")>>
          [] OTHER              -> <<Slot("SkeletonName"), Slot("SibName")>> \o zeros

tae_write_header(d) ==
    TaeStart(d, Reserve("FileSize", 0, "I32")) \o WriteOps(TaeHeader(d) \o TaeNames(d), 0, TaeKind(d))
    \o TaeIf(d, {"DESR"}, <<Const(0, 4), Const(0, 4)>>)
\* Of an empty name nothing is written but its offset (see the README).
tae_write_optional_utf16(d, n, len) ==
    IF len = 0 THEN <<Fill(n, 0, 0, TaeKind(d))>>
    ELSE <<FillPos(n, 0, TaeKind(d))>>
         \o When(len > 1, <<Text16(n, 0, len)>> \o When(TaeLong(d) \/ d.format = "DES", <<Pad(16)>>))

\* Animations with successive IDs are listed as one group.
TaeTops(d) == {i \in DOMAIN d.anims : i = 1 \/ d.anims[i].id # d.anims[i - 1].id + 1}
TaeLast(d, i) == LET next == {j \in TaeTops(d) : j > i} IN IF next = {} THEN Len(d.anims) ELSE Min(next) - 1
tae_write_animation_table(d) ==
    LET k == TaeKind(d)
        pad == TaeIf(d, {"DES"}, <<Pad(16)>>)
    IN  <<IF d.anims = <<>> THEN Fill("AnimsOffset", 0, 0, k) ELSE FillPos("AnimsOffset", 0, k)>>
        \o Each([i \in DOMAIN d.anims |->
              <<Num("anim_id", i, d.anims[i].id, TaeWidth(d)), Reserve("AnimationOffset", i, k)>> \o pad])
        \o <<FillPos("AnimGroupsHeaderOffset", 0, k), Reserve("TopAnimGroupsCount", 0, k), Reserve("TopAnimGroupsOffset", 0, k)>>
        \o pad \o <<At(1)>>
        \o Each([i \in DOMAIN d.anims |->
              When(i \in TaeTops(d), <<Num("first_id", i, d.anims[i].id, 4), Num("last_id", i, d.anims[TaeLast(d, i)].id, 4),
                                       Reserve("TopAnimationOffset", i, k)>> \o pad)])
        \o <<Fill("TopAnimGroupsCount", 0, Cardinality(TaeTops(d)), k),
             IF d.anims = <<>> THEN Fill("TopAnimGroupsOffset", 0, 0, k) ELSE FillMark("TopAnimGroupsOffset", 0, 1, k)>>

\* What an animation consists of; times is its count of times.
TaeBody(d, i, times) ==
    LET events == V("event_count", Len(d.anims[i].events), 4)
        groups == V("event_group_count", Len(d.anims[i].groups), 4)
        offsets == <<Slot("EventHeadersOffset"), Slot("EventGroupHeadersOffset"), Slot("TimesOffset"), Slot("AnimFileOffset")>>
    IN  CASE TaeOldDes(d)      -> <<events, offsets[1], groups, offsets[2], times, offsets[3], offsets[4]>>
                                  \o TaeIf(d, {"DES"}, Repeated(5, <<Const(0, 4)>>))
          [] d.format = "DESR" -> <<events, groups, times, Const(0, 4)>> \o offsets
          [] OTHER             -> offsets \o <<events, groups, times, Const(0, 4)>>
tae_write_animation_bodies(d) ==
    LET k == TaeKind(d)
    IN  <<IF d.anims = <<>> THEN Fill("FirstAnimOffset", 0, 0, k) ELSE FillPos("FirstAnimOffset", 0, k)>>
        \o Each([i \in DOMAIN d.anims |->
              <<FillPos("AnimationOffset", i, k)>> \o When(i \in TaeTops(d), <<FillPos("TopAnimationOffset", i, k)>>)
              \o WriteOps(TaeBody(d, i, Reserve("TimesCount", i, "I32")), i, k)])
-----------------------------------------------------------------------------
(***************************************************************************)
(* The mini header.  A format with 8-byte offsets is little-endian: its    *)
(* reader takes the low half of the two numbers at the beginning.          *)
(***************************************************************************)
TaePayload(d, i) ==
    IF d.anims[i].type = 0
    THEN TaeIf(d, {"DESR"}, <<FI("import_hkx_source_anim_id", i, 4)>>)
         \o <<Raw("is_loop_by_default", i, 0, 1), Raw("imports_hkx", i, 0, 1),
              Raw("allow_delay_load", i, IF d.format \in {"DES", "DESR"} THEN 0 ELSE 1, 1), Zeros(1)>>
         \o When(d.format # "DESR", <<FI("import_hkx_source_anim_id", i, 4)>>)
    ELSE IF d.format = "DESR" THEN <<FI("unknown", i, 4), FI("import_from_anim_id", i, 4)>>
    ELSE <<FI("import_from_anim_id", i, 4), FI("unknown", i, 4)>> \o TaeIf(d, {"DES"}, <<Pad(16)>>)
TaeTrailer(d, i) ==
    LET zero == Const(0, IF d.format = "DESR" THEN 4 ELSE TaeWidth(d))
    IN  IF TaeDesFamily(d) /\ d.anims[i].type = 0 THEN <<zero>> ELSE <<zero, zero>>
TaeFileName(d, i) == Text16("anim_file_name", i, IF d.anims[i].name > 1 THEN d.anims[i].name ELSE 1)

tae_write_anim_file(d, i) ==
    LET k == TaeKind(d)
        pad == TaeIf(d, {"DES"}, <<Pad(16)>>)
    IN  <<FillPos("AnimFileOffset", i, k), Num("mini_header_type", i, d.anims[i].type, TaeWidth(d))>>
        \o (IF d.anims[i].null THEN <<Num("AnimFileNameOffsetOffset", i, 0, TaeWidth(d))>> \o pad
            ELSE <<Reserve("AnimFileNameOffsetOffset", i, k)>> \o pad
                 \o <<FillPos("AnimFileNameOffsetOffset", i, k), Reserve("AnimFileNameOffset", i, k)>>
                 \o TaePayload(d, i) \o TaeTrailer(d, i) \o <<FillPos("AnimFileNameOffset", i, k), TaeFileName(d, i)>>
                 \o When(d.anims[i].name > 1 /\ d.format # "DS1", <<Pad(16)>>))

\* The name stands before the times, so it is never taken for none.
tae_read_mini_header(d, i) ==
    Get("AnimFileOffset", i,
        <<Num("mini_header_type", i, d.anims[i].type, TaeWidth(d)), Offset("AnimFileNameOffsetOffset", i, TaeWidth(d))>>
        \o (IF d.anims[i].null THEN <<Absent("AnimFileNameOffsetOffset", i)>>
            ELSE TaeIf(d, {"DES"}, <<Pad(16)>>)
                 \o <<Mark("possible_offset", i), Points("AnimFileNameOffsetOffset", i, <<"possible_offset", i>>, File0, 0)>>
                 \o Get("AnimFileNameOffsetOffset", i,
                        <<Offset("AnimFileNameOffset", i, TaeWidth(d))>> \o TaePayload(d, i) \o TaeTrailer(d, i)
                        \o <<Given("AnimFileNameOffset", i), Below("AnimFileNameOffset", i, <<"FileSize", 0>>)>>
                        \o When(d.anims[i].events # <<>>, <<Below("AnimFileNameOffset", i, <<"TimesOffset", i>>)>>)
                        \o Get("AnimFileNameOffset", i, <<TaeFileName(d, i)>>))))
-----------------------------------------------------------------------------
(***************************************************************************)
(* Times are written once, in order; the end of an event that does not end *)
(* is the largest float, 100 in memory.                                    *)
(***************************************************************************)
FLT_MAX == 1000
tae_wire_end_time(t) == IF t >= 100 THEN FLT_MAX ELSE t
tae_collect_times(anim) ==
    SetToSortSeq(UNION {{anim.events[e].start, tae_wire_end_time(anim.events[e].end)} : e \in DOMAIN anim.events}, <)
tae_find_time_offset(times, t) == CHOOSE n \in DOMAIN times : times[n] = t
TaeStartTime(anim, e) == tae_find_time_offset(tae_collect_times(anim), anim.events[e].start)
TaeEndTime(anim, e) == tae_find_time_offset(tae_collect_times(anim), tae_wire_end_time(anim.events[e].end))
TaeTime(anim, i, n) == Num("time", Ix(i, n), tae_collect_times(anim)[n], 4)

tae_write_times(d, i) ==
    LET k == TaeKind(d)
        times == tae_collect_times(d.anims[i])
    IN  <<Fill("TimesCount", i, Len(times), "I32"), IF times = <<>> THEN Fill("TimesOffset", i, 0, k) ELSE FillPos("TimesOffset", i, k)>>
        \o Each([n \in DOMAIN times |-> <<Mark("time", Ix(i, n)), TaeTime(d.anims[i], i, n)>>])
        \o When(d.format # "DS1", <<Pad(16)>>)

tae_write_event_headers(d, i) ==
    LET anim == d.anims[i]
        w == TaeWidth(d)
    IN  <<IF anim.events = <<>> THEN Fill("EventHeadersOffset", i, 0, TaeKind(d)) ELSE FillPos("EventHeadersOffset", i, TaeKind(d))>>
        \o Each([e \in DOMAIN anim.events |->
              <<Mark("EventHeader", Ix(i, e)), Ref("start_time_offset", Ix(i, e), <<"time", Ix(i, TaeStartTime(anim, e))>>, 0, w),
                Ref("end_time_offset", Ix(i, e), <<"time", Ix(i, TaeEndTime(anim, e))>>, 0, w), Reserve("EventDataOffset", Ix(i, e), TaeKind(d))>>
              \o TaeIf(d, {"DES", "DESR"}, <<Pad(16)>>)])

\* Events of type 943 have no offset in Sekiro.
weird_no_param_offset(d, event) == d.format = "SDT" /\ event.type = 943
TaePadsParams(d) == When(TaeLong(d) \/ d.format = "DES", <<Pad(16)>>)
TaeEventType(d, i, e) ==
    <<Num("type", Ix(i, e), d.anims[i].events[e].type, 4)>> \o When(TaeLong(d), <<FI("unk04", Ix(i, e), 4)>>)
TaeParameters(d, i, e) == <<Raw("parameters", Ix(i, e), 0, d.anims[i].events[e].size)>> \o TaePadsParams(d)

tae_write_event_data(d, i) ==
    LET k == TaeKind(d)
    IN  Each([e \in DOMAIN d.anims[i].events |->
            LET ix == Ix(i, e)
                zeros == TaeIf(d, {"DES"}, <<Const(0, 4), Const(0, 4)>>)
            IN  <<FillPos("EventDataOffset", ix, k)>> \o TaeEventType(d, i, e)
                \o (IF weird_no_param_offset(d, d.anims[i].events[e]) THEN <<Num("EventParamsOffset", ix, 0, TaeWidth(d))>> \o zeros
                    ELSE <<Reserve("EventParamsOffset", ix, k)>> \o zeros \o <<FillPos("EventParamsOffset", ix, k)>>)
                \o TaeParameters(d, i, e)])

tae_read_event(d, i, e) ==
    LET anim == d.anims[i]
        ix == Ix(i, e)
        w == TaeWidth(d)
    IN  <<Mark("EventHeader", ix), Offset("start_time_offset", ix, w), Offset("end_time_offset", ix, w), Offset("EventDataOffset", ix, w)>>
        \o TaeIf(d, {"DES", "DESR"}, <<Pad(16)>>)
        \o Get("start_time_offset", ix, <<TaeTime(anim, i, TaeStartTime(anim, e))>>)
        \o Get("end_time_offset", ix, <<TaeTime(anim, i, TaeEndTime(anim, e))>>)
        \o Get("EventDataOffset", ix,
               TaeEventType(d, i, e) \o <<Offset("EventParamsOffset", ix, w)>> \o TaeIf(d, {"DES"}, <<Pad(16)>>)
               \o <<Mark("parameters_offset", ix),
                    IF weird_no_param_offset(d, anim.events[e]) THEN Absent("EventParamsOffset", ix)
                    ELSE Points("EventParamsOffset", ix, <<"parameters_offset", ix>>, File0, 0)>>)

\* The size of the parameters is not stored: they reach, padding included, to
\* what comes next.  At the end of the last animation that is the end of the
\* file, which is also what FileSize says.
TaeParametersEnd(d, i, e) ==
    CASE e < Len(d.anims[i].events) -> <<"EventDataOffset", Ix(i, e + 1)>>
      [] d.anims[i].groups # <<>>   -> <<"EventGroupHeadersOffset", i>>
      [] i < Len(d.anims)           -> <<"AnimFileOffset", i + 1>>
      [] OTHER                      -> <<"FileSize", 0>>
tae_read_parameter_bytes(d, i, e) ==
    Get("parameters_offset", Ix(i, e),
        TaeParameters(d, i, e)
        \o <<Mark("parameters_end", Ix(i, e)), Points("parameters_end", Ix(i, e), TaeParametersEnd(d, i, e), File0, 0)>>)
-----------------------------------------------------------------------------
(***************************************************************************)
(* Groups refer to their events by the positions of the events' headers.   *)
(***************************************************************************)
tae_write_event_group_headers(d, i) ==
    LET k == TaeKind(d)
        w == TaeWidth(d)
        groups == d.anims[i].groups
    IN  <<IF groups = <<>> THEN Fill("EventGroupHeadersOffset", i, 0, k) ELSE FillPos("EventGroupHeadersOffset", i, k)>>
        \o Each([g \in DOMAIN groups |->
              <<Num("member_count", Ix(i, g), Len(groups[g]), w), Reserve("EventGroupValuesOffset", Ix(i, g), k),
                Reserve("EventGroupTypeOffset", Ix(i, g), k)>> \o When(d.format \notin {"DS1", "DESR"}, <<Const(0, w)>>)])
TaeGroupType(d, ix) == <<FI("group_type", ix, 4)>> \o When(TaeLong(d), <<Const(0, 4)>>)
TaeMemberWidth(d) == IF d.format = "SOTFS" THEN 8 ELSE 4
\* The position after a field is written in the field: here by a placeholder.
tae_write_event_group_data(d, i) ==
    LET k == TaeKind(d)
        w == TaeWidth(d)
        groups == d.anims[i].groups
    IN  Each([g \in DOMAIN groups |->
            LET ix == Ix(i, g)
            IN  <<FillPos("EventGroupTypeOffset", ix, k)>> \o TaeGroupType(d, ix)
                \o (IF d.format = "SOTFS" THEN <<Reserve("group_data", ix, k), FillPos("group_data", ix, k), Const(0, w), Const(0, w)>>
                    ELSE <<Const(0, w)>>)
                \o <<FillPos("EventGroupValuesOffset", ix, k)>>
                \o [m \in DOMAIN groups[g] |-> Ref("member", Ix(ix, m), <<"EventHeader", Ix(i, groups[g][m])>>, 0, TaeMemberWidth(d))]
                \o When(d.format # "DS1", <<Pad(16)>>)])

tae_read_event_group(d, i, g) ==
    LET w == TaeWidth(d)
        ix == Ix(i, g)
        members == d.anims[i].groups[g]
    IN  <<Num("member_count", ix, Len(members), w), Offset("EventGroupValuesOffset", ix, w), Offset("EventGroupTypeOffset", ix, w)>>
        \o When(d.format \notin {"DS1", "DESR"}, <<Const(0, w)>>)
        \o Get("EventGroupTypeOffset", ix,
               TaeGroupType(d, ix)
               \o (IF d.format = "SOTFS"
                   THEN <<Offset("group_data", ix, w), Mark("expected", ix), Points("group_data", ix, <<"expected", ix>>, File0, 0),
                          Const(0, w), Const(0, w)>>
                   ELSE <<Const(0, w)>>))
        \o Get("EventGroupValuesOffset", ix,
               Each([m \in DOMAIN members |->
                   <<Offset("member", Ix(ix, m), TaeMemberWidth(d)),
                     Points("member", Ix(ix, m), <<"EventHeader", Ix(i, members[m])>>, File0, 0)>>]))
-----------------------------------------------------------------------------
tae_write_all_animation_data(d) ==
    Each([i \in DOMAIN d.anims |->
        tae_write_anim_file(d, i) \o tae_write_times(d, i) \o tae_write_event_headers(d, i) \o tae_write_event_data(d, i)
        \o tae_write_event_group_headers(d, i) \o tae_write_event_group_data(d, i)])

sf_tae_write_to_memory(d) ==
    <<Base(0)>> \o tae_write_header(d)
    \o When(d.format # "DESR", tae_write_optional_utf16(d, "SkeletonName", d.skeleton) \o tae_write_optional_utf16(d, "SibName", d.sib))
    \o tae_write_animation_table(d) \o tae_write_animation_bodies(d) \o tae_write_all_animation_data(d)
    \o <<FillPos("FileSize", 0, "I32")>>

TaeName(d, n, len) ==
    When(d.format \notin {"SOTFS", "DESR"}, IF len = 0 THEN <<Absent(n, 0)>> ELSE <<Given(n, 0)>> \o Get(n, 0, <<Text16(n, 0, len)>>))
tae_read_header(d) ==
    LET k == TaeKind(d)
        times(i) == V("TimesCount", Len(tae_collect_times(d.anims[i])), 4)
    IN  <<Require(tae_format_of(d) = d.format)>> \o TaeStart(d, Offset("FileSize", 0, 4))
        \o ReadOps(TaeHeader(d) \o TaeNames(d), 0, k) \o TaeName(d, "SkeletonName", d.skeleton) \o TaeName(d, "SibName", d.sib)
        \o When(d.anims # <<>>,
                Get("AnimsOffset", 0, Each([i \in DOMAIN d.anims |->
                    <<Num("anim_id", i, d.anims[i].id, TaeWidth(d)), Offset("AnimationOffset", i, TaeWidth(d))>>
                    \o TaeIf(d, {"DES"}, <<Pad(16)>>)])))
        \o Each([i \in DOMAIN d.anims |-> Get("AnimationOffset", i, ReadOps(TaeBody(d, i, times(i)), i, k))])

tae_read_animation(d, i) ==
    LET anim == d.anims[i]
    IN  tae_read_mini_header(d, i)
        \o When(anim.events # <<>>,
                Get("EventHeadersOffset", i, Each([e \in DOMAIN anim.events |-> tae_read_event(d, i, e)]))
                \o Each([e \in DOMAIN anim.events |-> tae_read_parameter_bytes(d, i, e)]))
        \o When(anim.groups # <<>>,
                Get("EventGroupHeadersOffset", i, Each([g \in DOMAIN anim.groups |-> tae_read_event_group(d, i, g)])))

sf_tae_read_from_memory(d) == <<Base(0)>> \o tae_read_header(d) \o Each([i \in DOMAIN d.anims |-> tae_read_animation(d, i)])
-----------------------------------------------------------------------------
AnimationWrites(d) == IF d.fmt = "TAE" THEN sf_tae_write_to_memory(d) ELSE MapWrites(d)
AnimationReads(d) == IF d.fmt = "TAE" THEN sf_tae_read_from_memory(d) ELSE MapReads(d)
=============================================================================
