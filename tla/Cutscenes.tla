----------------------------- MODULE Cutscenes ------------------------------
(***************************************************************************)
(* MQB cutscenes.  The writer has its own list of the places to patch, in  *)
(* the order they come up in: here they are placeholders.  A document is   *)
(*   MQB  [version, be, directory, resources, cuts]                        *)
(* A resource is [path, params], a cut the sequence of its timelines, each *)
(* [events, params], an event [params, transforms].  A parameter is [type, *)
(* members, size, seqs], size the bytes of a text or of custom data, and a *)
(* sequence of it is [type, point_type, points, index]: points of a type   *)
(* for the value at a byte of the parameter's value.  Texts are lengths in *)
(* characters with the terminator, a path of 0 is none.                    *)
(***************************************************************************)
EXTENDS Animations

DARK_SOULS_2 == 148
SCHOLAR == 202
MQB_BLOODBORNE == 203
MQB_DARK_SOULS_3 == 204
mqb_header_size == [v \in {DARK_SOULS_2, SCHOLAR, MQB_BLOODBORNE, MQB_DARK_SOULS_3} |->
                       CASE v = DARK_SOULS_2 -> 20 [] v = SCHOLAR -> 40 [] v = MQB_BLOODBORNE -> 32 [] OTHER -> 36]
MqbLong(d) == d.version = SCHOLAR
MqbKind(d) == IF MqbLong(d) THEN "VARINT_8" ELSE "VARINT_4"
MqbWidth(d) == KindWidth[MqbKind(d)]
FixstrW(n, i) == Raw(n, i, 0, 64)

MQB_BOOL == 1
MQB_SBYTE == 2
MQB_BYTE == 3
MQB_SHORT == 4
MQB_FLOAT == 8
MQB_UINT == 7
MQB_STRING == 10
MQB_CUSTOM == 11
MQB_COLOR == 13
MQB_INT_COLOR == 17
MQB_VECTOR == 18
MqbBytes == {MQB_BOOL, MQB_SBYTE, MQB_BYTE}
MqbSized == {MQB_STRING, MQB_CUSTOM, MQB_COLOR, MQB_INT_COLOR, MQB_VECTOR}
mqb_length(p) == CASE p.type = MQB_STRING -> p.size + PadWidth(p.size, 16)
                   [] p.type = MQB_CUSTOM -> p.size
                   [] p.type = MQB_COLOR  -> p.members + 1
                   [] OTHER               -> 4 * p.members + 4

\* Where sequences find the value: the components of a compound one, else
\* the number at the front, which is the length of a text.
MqbPart(ix, byte) == <<Mark("value", Ix(ix, byte))>>
MqbFront(p, ix) ==
    When(p.type \notin {MQB_COLOR, MQB_INT_COLOR, MQB_VECTOR}, MqbPart(ix, 0))
    \o CASE p.type \in MqbBytes -> <<Raw("value", ix, 0, 1), Zeros(1), Const(0, 2)>>
         [] p.type = MQB_SHORT  -> <<FI("value", ix, 2), Const(0, 2)>>
         [] p.type \in MqbSized -> <<Num("length", ix, mqb_length(p), 4)>>
         [] OTHER               -> <<FI("value", ix, 4)>>
MqbRest(p, ix) ==
    CASE p.type = MQB_STRING    -> <<Raw("value", ix, 0, mqb_length(p))>>
      [] p.type = MQB_CUSTOM    -> <<Raw("value", ix, 0, p.size)>>
      [] p.type = MQB_COLOR     -> Each([c \in 1 .. 3 |-> MqbPart(ix, c - 1) \o <<Raw("value", Ix(ix, c), 0, 1)>>]) \o <<Zeros(1)>>
      [] p.type = MQB_INT_COLOR -> Each([c \in 1 .. 4 |-> MqbPart(ix, 4 * (c - 1)) \o <<FI("value", Ix(ix, c), 4)>>]) \o <<Const(0, 4)>>
      [] p.type = MQB_VECTOR    -> Each([c \in 1 .. p.members |-> MqbPart(ix, 4 * (c - 1)) \o <<FI("value", Ix(ix, c), 4)>>]) \o <<Const(0, 4)>>
      [] OTHER                  -> <<>>
MqbParameter(p, ix, seqs) ==
    <<FixstrW("parameter", ix), Num("type", ix, p.type, 4), Num("member_count", ix, p.members, 4)>> \o MqbFront(p, ix)
    \o <<Const(0, 4), seqs, Num("sequence_count", ix, Len(p.seqs), 4), Const(0, 4), Const(0, 4)>> \o MqbRest(p, ix)

mqb_write_parameter(p, ix) == MqbParameter(p, ix, Reserve("SequencesOffset", ix, "I32"))
MqbParametersOut(ps, owner) == Each([k \in DOMAIN ps |-> mqb_write_parameter(ps[k], Ix(owner, k))])

MqbPoint(s, ix) ==
    CASE s.type = MQB_BYTE               -> <<Raw("point", ix, 0, 1), Const(0, 2), Zeros(1)>>
      [] s.type \in {MQB_FLOAT, MQB_UINT} -> <<FI("point", ix, 4)>>
    \o <<Const(0, 4), FI("unk08", ix, 4), Const(0, 4)>> \o When(s.point_type = 2, <<FI("unk10", ix, 4), FI("unk14", ix, 4)>>)
MqbPoints(s, ix) == Each([k \in 1 .. s.points |-> MqbPoint(s, Ix(ix, k))])
MqbSequence(s, ix) ==
    <<Const(28, 4), Num("point_count", ix, s.points, 4), Num("value_type", ix, s.type, 4), Num("point_type", ix, s.point_type, 4),
      Num("point_size", ix, IF s.point_type \in {0, 1} THEN 16 ELSE 24, 4)>>

\* The bytes of the value that a sequence may stand for.
MqbValueSize(p) == CASE p.type \in MqbBytes -> 1
                     [] p.type = MQB_SHORT  -> 2
                     [] p.type = MQB_COLOR  -> 3
                     [] p.type \in {MQB_INT_COLOR, MQB_VECTOR} -> 4 * p.members
                     [] OTHER               -> 4
mqb_read_sequence(p, ix, k) ==
    LET s == p.seqs[k]
        sx == Ix(ix, k)
    IN  MqbSequence(s, sx) \o <<Require(s.point_type \in 0 .. 2), Offset("PointsOffset", sx, 4), Offset("value_offset", sx, 4),
                                Require(0 <= s.index /\ s.index < MqbValueSize(p)),
                                Points("value_offset", sx, <<"value", Ix(ix, s.index)>>, File0, 0)>>
        \o Get("PointsOffset", sx, MqbPoints(s, sx))
mqb_read_parameter(p, ix) ==
    MqbParameter(p, ix, Offset("SequencesOffset", ix, 4))
    \o <<Require(/\ p.type = MQB_STRING => mqb_length(p) > 0
                 /\ p.type = MQB_CUSTOM => p.size % 4 = 0
                 /\ p.type = MQB_COLOR => mqb_length(p) = 4
                 /\ p.type = MQB_INT_COLOR => mqb_length(p) = 20)>>
    \o When(p.seqs # <<>>, Get("SequencesOffset", ix, Each([k \in DOMAIN p.seqs |-> mqb_read_sequence(p, ix, k)])))
MqbParametersIn(ps, owner) == Each([k \in DOMAIN ps |-> mqb_read_parameter(ps[k], Ix(owner, k))])
-----------------------------------------------------------------------------
(***************************************************************************)
(* Owners of parameters are resources, timelines and events, numbered so   *)
(* that no two have the same number.                                       *)
(***************************************************************************)
TimelineOf(c, t) == Ix(c, t)
EventOf(c, t, e) == Ix(Ix(c, t), e)
MqbTimelines(d) == Each([c \in DOMAIN d.cuts |-> [t \in DOMAIN d.cuts[c] |-> <<c, t>>]])
MqbEvents(d, c) == Each([t \in DOMAIN d.cuts[c] |-> [e \in DOMAIN d.cuts[c][t].events |-> <<t, e>>]])
\* The parameters in the order they are written in: [owner, k, p].
MqbParameters(d) ==
    LET of(ps, owner) == [k \in DOMAIN ps |-> [ix |-> Ix(owner, k), p |-> ps[k]]]
    IN  Each([r \in DOMAIN d.resources |-> of(d.resources[r].params, r)])
        \o Each([c \in DOMAIN d.cuts |-> Each([n \in DOMAIN MqbEvents(d, c) |->
              LET te == MqbEvents(d, c)[n] IN of(d.cuts[c][te[1]].events[te[2]].params, EventOf(c, te[1], te[2]))])])
        \o Each([n \in DOMAIN MqbTimelines(d) |->
              LET ct == MqbTimelines(d)[n] IN of(d.cuts[ct[1]][ct[2]].params, TimelineOf(ct[1], ct[2]))])

\* All the sequences, then all the points, both in the order of the parameters.
mqb_write_sequences(d) ==
    LET ps == MqbParameters(d)
    IN  Each([n \in DOMAIN ps |->
            IF ps[n].p.seqs = <<>> THEN <<Fill("SequencesOffset", ps[n].ix, 0, "I32")>>
            ELSE <<FillPos("SequencesOffset", ps[n].ix, "I32")>>
                 \o Each([k \in DOMAIN ps[n].p.seqs |->
                       MqbSequence(ps[n].p.seqs[k], Ix(ps[n].ix, k))
                       \o <<Reserve("PointsOffset", Ix(ps[n].ix, k), "I32"),
                            Ref("value_offset", Ix(ps[n].ix, k), <<"value", Ix(ps[n].ix, ps[n].p.seqs[k].index)>>, 0, 4)>>])])
        \o Each([n \in DOMAIN ps |-> Each([k \in DOMAIN ps[n].p.seqs |->
              <<FillPos("PointsOffset", Ix(ps[n].ix, k), "I32")>> \o MqbPoints(ps[n].p.seqs[k], Ix(ps[n].ix, k))])])

MqbEventHead(v, ix) ==
    Fs(ix, 4, <<"id", "resource_index", "unk08", "start_frame", "duration", "unk14", "unk18", "unk1c", "unk20">>)
    \o <<Num("parameter_count", ix, Len(v.params), 4), FI("unk28", ix, 4), Const(0, 4)>>
MqbEventTail(v, ix) ==
    <<Const(0, 4), Num("transform_count", ix, v.transforms, 4)>> \o Repeated(6, <<Const(0, 4)>>)
    \o Each([k \in 1 .. v.transforms |-> <<FI("frame", Ix(ix, k), 4)>>
              \o Fs(Ix(ix, k), 12, <<"translation", "unk10", "unk1c", "rotation", "unk34", "unk40", "scale", "unk58", "unk64">>)])
mqb_write_event(v, ix) == <<Mark("event", ix)>> \o MqbEventHead(v, ix) \o MqbParametersOut(v.params, ix) \o MqbEventTail(v, ix)
mqb_read_event_at(v, ix) == <<Mark("event", ix)>> \o MqbEventHead(v, ix) \o MqbParametersIn(v.params, ix) \o MqbEventTail(v, ix)

MqbResource(d, r) ==
    <<FixstrW("resource", r), FI("parent_index", r, 4), Num("index", r, r - 1, 4), FI("unk48", r, 4),
      Num("parameter_count", r, Len(d.resources[r].params), 4)>>
mqb_write_resource(d, r) == MqbResource(d, r) \o MqbParametersOut(d.resources[r].params, r)
mqb_read_resource(d, r) == MqbResource(d, r) \o MqbParametersIn(d.resources[r].params, r)

MqbCut(d, c, timelines) ==
    <<FixstrW("cut", c), Num("event_count", c, Len(MqbEvents(d, c)), 4), FI("unk44", c, 4), FI("duration", c, 4), Const(0, 4),
      Num("timeline_count", c, Len(d.cuts[c]), 4)>>
    \o When(MqbLong(d), <<Const(0, 4)>>) \o <<timelines>> \o When(~MqbLong(d), <<Const(0, 8)>>)
MqbTimeline(d, c, t, events, params) ==
    LET ix == TimelineOf(c, t)
    IN  <<events, Num("event_count", ix, Len(d.cuts[c][t].events), 4)>> \o When(MqbLong(d), <<Const(0, 4)>>)
        \o <<params, Num("parameter_count", ix, Len(d.cuts[c][t].params), 4), FI("unk10", ix, 4)>>

mqb_write_cut_header(d, c) == MqbCut(d, c, Reserve("TimelinesOffset", c, MqbKind(d)))
mqb_write_cut_events(d, c) ==
    Each([n \in DOMAIN MqbEvents(d, c) |->
        LET te == MqbEvents(d, c)[n] IN mqb_write_event(d.cuts[c][te[1]].events[te[2]], EventOf(c, te[1], te[2]))])
mqb_write_timeline_header(d, c, t) ==
    MqbTimeline(d, c, t, Reserve("EventsOffset", TimelineOf(c, t), MqbKind(d)), Reserve("ParametersOffset", TimelineOf(c, t), MqbKind(d)))

\* A timeline's events are found by their positions among those of the cut.
mqb_read_timeline_at(d, c, t) ==
    LET ix == TimelineOf(c, t)
        events == d.cuts[c][t].events
    IN  MqbTimeline(d, c, t, Offset("EventsOffset", ix, MqbWidth(d)), Offset("ParametersOffset", ix, MqbWidth(d)))
        \o Get("EventsOffset", ix, Each([e \in DOMAIN events |->
              <<Offset("event_offset", EventOf(c, t, e), MqbWidth(d)),
                Points("event_offset", EventOf(c, t, e), <<"event", EventOf(c, t, e)>>, File0, 0)>>]))
        \o Get("ParametersOffset", ix, MqbParametersIn(d.cuts[c][t].params, ix))
mqb_read_cut(d, c) ==
    MqbCut(d, c, Offset("TimelinesOffset", c, MqbWidth(d)))
    \o Each([n \in DOMAIN MqbEvents(d, c) |->
          LET te == MqbEvents(d, c)[n] IN mqb_read_event_at(d.cuts[c][te[1]].events[te[2]], EventOf(c, te[1], te[2]))])
    \o Get("TimelinesOffset", c, Each([t \in DOMAIN d.cuts[c] |-> mqb_read_timeline_at(d, c, t)]))

MqbHeader(d, paths) ==
    <<Magic("MQB ", 4), V("endian", IF d.be THEN 255 ELSE 0, 1), Endian(d.be), Zeros(1), V("long", IF MqbLong(d) THEN 255 ELSE 0, 1),
      Zeros(1), V("version", d.version, 4), V("header_size", mqb_header_size[d.version], 4), paths>>
    \o (IF MqbLong(d) THEN Repeated(4, <<Const(0, 4)>>)
        ELSE When(d.version >= MQB_BLOODBORNE, <<Const(1, 4), Const(0, 4), Const(0, 4)>>)
             \o When(d.version >= MQB_DARK_SOULS_3, <<Const(0, 4)>>))
    \o <<FixstrW("name", 0), F("framerate", 4), V("resource_count", Len(d.resources), 4), V("cut_count", Len(d.cuts), 4)>>
    \o Repeated(5, <<Const(0, 4)>>)

sf_mqb_write_to_memory(d) ==
    LET k == MqbKind(d)
        timelines == MqbTimelines(d)
    IN  <<Base(0)>> \o MqbHeader(d, Reserve("ResourcePathsOffset", 0, k))
        \o Each([r \in DOMAIN d.resources |-> mqb_write_resource(d, r)])
        \o Each([c \in DOMAIN d.cuts |-> mqb_write_cut_header(d, c) \o mqb_write_cut_events(d, c)])
        \o Each([c \in DOMAIN d.cuts |-> <<FillPos("TimelinesOffset", c, k)>>
              \o Each([t \in DOMAIN d.cuts[c] |-> mqb_write_timeline_header(d, c, t)])])
        \o Each([n \in DOMAIN timelines |->
              LET ix == TimelineOf(timelines[n][1], timelines[n][2])
              IN  <<FillPos("ParametersOffset", ix, k)>> \o MqbParametersOut(d.cuts[timelines[n][1]][timelines[n][2]].params, ix)])
        \o Each([n \in DOMAIN timelines |->
              LET c == timelines[n][1]
                  t == timelines[n][2]
              IN  <<FillPos("EventsOffset", TimelineOf(c, t), k)>>
                  \o [e \in DOMAIN d.cuts[c][t].events |-> Ref("event_offset", EventOf(c, t, e), <<"event", EventOf(c, t, e)>>, 0, MqbWidth(d))]])
        \o <<FillPos("ResourcePathsOffset", 0, k)>> \o [r \in DOMAIN d.resources |-> Reserve("PathOffset", r, k)]
        \o <<Text16("directory", 0, d.directory)>>
        \o Each([r \in DOMAIN d.resources |->
              IF d.resources[r].path = 0 THEN <<Fill("PathOffset", r, 0, k)>>
              ELSE <<FillPos("PathOffset", r, k), Text16("path", r, d.resources[r].path)>>])
        \o When(d.version >= MQB_BLOODBORNE, <<Const(0, 2), Pad(4)>>) \o mqb_write_sequences(d)

sf_mqb_read_from_memory(d) ==
    <<Base(0)>> \o MqbHeader(d, Offset("ResourcePathsOffset", 0, MqbWidth(d)))
    \o Each([r \in DOMAIN d.resources |-> mqb_read_resource(d, r)]) \o Each([c \in DOMAIN d.cuts |-> mqb_read_cut(d, c)])
    \o <<Goto("ResourcePathsOffset", 0)>> \o [r \in DOMAIN d.resources |-> Offset("PathOffset", r, MqbWidth(d))]
    \o <<Text16("directory", 0, d.directory)>>
    \o Each([r \in DOMAIN d.resources |->
          IF d.resources[r].path = 0 THEN <<Absent("PathOffset", r)>>
          ELSE <<Given("PathOffset", r)>> \o Get("PathOffset", r, <<Text16("path", r, d.resources[r].path)>>)])
-----------------------------------------------------------------------------
CutsceneWrites(d) == IF d.fmt = "MQB" THEN sf_mqb_write_to_memory(d) ELSE AnimationWrites(d)
CutsceneReads(d) == IF d.fmt = "MQB" THEN sf_mqb_read_from_memory(d) ELSE AnimationReads(d)
=============================================================================
