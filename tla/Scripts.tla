------------------------------ MODULE Scripts -------------------------------
(***************************************************************************)
(* EMEVD event scripts and ESD state machines: the passes of their writers *)
(* and readers.  A document is one of                                      *)
(*   EMEVD  [format, events, linked, strings]                              *)
(*   ESD    [long, version, name, groups]                                  *)
(* An event is [instrs, params]: an instruction [args, layer] has that     *)
(* many bytes of arguments and a layer mask, 0 for none.  A group is       *)
(* [states, conds], a state [conds, entry, exit, while] with the indices   *)
(* of its conditions in the group and three lists of commands, a condition *)
(* [target, subs, pass, eval] with the index of its state, 0 for none.  A  *)
(* command is the sequence of the sizes of its arguments.                  *)
(***************************************************************************)
EXTENDS Tables

\* Two indices in one, as in "Event%zuInstr%zu".
Ix(a, b) == 16 * a + b
Total(s) == FoldLeft(LAMBDA n, x : n + x, 0, s)
-----------------------------------------------------------------------------
(***************************************************************************)
(* EMEVD.  Offsets of the parts of an event are relative to the start of   *)
(* the section they point into.                                            *)
(***************************************************************************)
EmevdFormats == <<"DARK_SOULS_1", "DARK_SOULS_1_BE", "BLOODBORNE", "DARK_SOULS_3", "SEKIRO">>
EmevdFormat(d) == CHOOSE i \in DOMAIN EmevdFormats : EmevdFormats[i] = d.format
BLOODBORNE == 3
DARK_SOULS_3 == 4
SEKIRO == 5

Props(be, long, unk06, unk07, version) ==
    [be |-> be, is_64_bit |-> long, unk06 |-> unk06, unk07 |-> unk07, version |-> version]
emevd_write_props(d) ==
    LET f == EmevdFormat(d)
    IN  Props(d.format = "DARK_SOULS_1_BE", f >= BLOODBORNE, f >= DARK_SOULS_3, f = SEKIRO,
              IF f >= DARK_SOULS_3 THEN 205 ELSE 204)

\* What the reader makes of the flags.
emevd_format_of(p) ==
    CASE p = Props(FALSE, FALSE, FALSE, FALSE, 204) -> "DARK_SOULS_1"
      [] p = Props(TRUE, FALSE, FALSE, FALSE, 204) -> "DARK_SOULS_1_BE"
      [] p = Props(FALSE, TRUE, FALSE, FALSE, 204) -> "BLOODBORNE"
      [] p \in {Props(FALSE, TRUE, TRUE, FALSE, v) : v \in {204, 205}} -> "DARK_SOULS_3"
      [] p = Props(FALSE, TRUE, TRUE, TRUE, 205) -> "SEKIRO"
      [] OTHER -> "UNSUPPORTED_VERSION"

EmevdVarint(d) == IF emevd_write_props(d).is_64_bit THEN "VARINT_8" ELSE "VARINT_4"
EmevdWidth(d) == KindWidth[EmevdVarint(d)]

\* Offsets written as an I32 before format f, with a zero after it where the
\* reader takes both for one number (formats with a zero are little-endian).
OffsetBefore(d, f) == IF EmevdFormat(d) < f THEN "I32" ELSE "I64"
ZeroBefore(d, f) == When(BLOODBORNE <= EmevdFormat(d) /\ EmevdFormat(d) < f, <<Const(0, 4)>>)

EmevdFlags(d) ==
    LET p == emevd_write_props(d)
    IN  <<Magic("EVD", 4), Bool("big_endian", p.be), V("is_64_bit", IF p.is_64_bit THEN -1 ELSE 0, 1),
          Bool("unk06", p.unk06), V("unk07", IF p.unk07 THEN -1 ELSE 0, 1), Endian(p.be), V("version", p.version, 4)>>

InstrsOf(d) == FlattenSeq([e \in DOMAIN d.events |-> d.events[e].instrs])

\* Masks in the order in which they occur first.
emevd_collect_layers(d) ==
    FoldLeft(LAMBDA ls, x : IF x.layer = 0 \/ x.layer \in ToSet(ls) THEN ls ELSE Append(ls, x.layer), <<>>, InstrsOf(d))
LayerNo(d, mask) == CHOOSE k \in DOMAIN emevd_collect_layers(d) : emevd_collect_layers(d)[k] = mask

sfi_emevd_event_write(d, e) ==
    <<FI("id", e, EmevdWidth(d)), Num("instruction_count", e, Len(d.events[e].instrs), EmevdWidth(d)),
      Reserve("InstrsOffset", e, EmevdVarint(d)), Num("parameter_count", e, d.events[e].params, EmevdWidth(d)),
      Reserve("ParamsOffset", e, OffsetBefore(d, DARK_SOULS_3))>> \o ZeroBefore(d, DARK_SOULS_3)
    \o <<FI("rest_behavior", e, 4), Const(0, 4)>>

sfi_emevd_instruction_write(d, x, ix) ==
    <<FI("bank", ix, 4), FI("id", ix, 4), Num("arg_data_size", ix, x.args, EmevdWidth(d)),
      Reserve("ArgsOffset", ix, OffsetBefore(d, SEKIRO))>> \o ZeroBefore(d, SEKIRO)
    \o <<Reserve("LayerOffset", ix, OffsetBefore(d, DARK_SOULS_3))>>
    \o When(EmevdFormat(d) < DARK_SOULS_3, <<Const(0, 4)>>)

\* An empty part has the offset -1.
FillPart(n, i, part, b, k) == <<IF part = 0 THEN Fill(n, i, -1, k) ELSE FillFrom(n, i, b, k)>>

sfi_emevd_event_write_instructions(d, e) ==
    FillPart("InstrsOffset", e, Len(d.events[e].instrs), 1, EmevdVarint(d))
    \o Each([j \in DOMAIN d.events[e].instrs |-> sfi_emevd_instruction_write(d, d.events[e].instrs[j], Ix(e, j))])

sfi_emevd_layer(d, mask) ==
    <<Const(2, 4), Num("mask", 0, mask, 4), Const(0, EmevdWidth(d)), Const(-1, EmevdWidth(d)), Const(1, EmevdWidth(d))>>

sfi_emevd_instruction_fill_layer_offset(d, x, ix) ==
    <<IF x.layer = 0 THEN Fill("LayerOffset", ix, -1, OffsetBefore(d, DARK_SOULS_3))
      ELSE FillSpan("LayerOffset", ix, <<"at", LayerNo(d, x.layer)>>, 2, OffsetBefore(d, DARK_SOULS_3))>>

sfi_emevd_instruction_write_args(d, x, ix) ==
    FillPart("ArgsOffset", ix, x.args, 3, OffsetBefore(d, SEKIRO)) \o <<Raw("args", ix, 0, x.args), Pad(4)>>

sfi_emevd_parameter(d, e, k) ==
    <<FI("instruction_index", Ix(e, k), EmevdWidth(d)), FI("target_start_byte", Ix(e, k), EmevdWidth(d)),
      FI("source_start_byte", Ix(e, k), EmevdWidth(d)), FI("byte_count", Ix(e, k), 4), FI("unk_id", Ix(e, k), 4)>>

sfi_emevd_event_write_parameters(d, e) ==
    FillPart("ParamsOffset", e, d.events[e].params, 4, OffsetBefore(d, DARK_SOULS_3))
    \o Each([k \in 1 .. d.events[e].params |-> sfi_emevd_parameter(d, e, k)])

\* A section: its offset is filled, its start is base b.
Section(d, n, b) == <<FillPos(n, 0, EmevdVarint(d)), Base(b)>>

sfi_emevd_write(d) ==
    LET w == EmevdWidth(d)
        n == Len(d.events)
        slot(x) == Reserve(x, 0, EmevdVarint(d))
        layers == emevd_collect_layers(d)
    IN  EmevdFlags(d) \o <<Reserve("FileSize", 0, "I32"),
          V("event_count", n, w), slot("EventsOffset"), V("instruction_count", Len(InstrsOf(d)), w),
          slot("InstructionsOffset"), Const(0, w), slot("Offset3"), V("layer_count", Len(layers), w), slot("LayersOffset"),
          V("parameter_count", Total([e \in 1 .. n |-> d.events[e].params]), w), slot("ParametersOffset"),
          V("linked_file_count", d.linked, w), slot("LinkedFilesOffset"),
          slot("ArgumentsLength"), slot("ArgumentsOffset"), V("string_data_size", d.strings, w), slot("StringsOffset")>>
        \o When(~emevd_write_props(d).is_64_bit, <<Const(0, 4)>>)
        \o Section(d, "EventsOffset", 0) \o Each([e \in 1 .. n |-> sfi_emevd_event_write(d, e)])
        \o Section(d, "InstructionsOffset", 1) \o Each([e \in 1 .. n |-> sfi_emevd_event_write_instructions(d, e)])
        \o <<FillPos("Offset3", 0, EmevdVarint(d))>>
        \o Section(d, "LayersOffset", 2) \o Each([k \in DOMAIN layers |-> <<At(k)>> \o sfi_emevd_layer(d, layers[k])])
        \o Each([e \in 1 .. n |-> Each([j \in DOMAIN d.events[e].instrs |->
                sfi_emevd_instruction_fill_layer_offset(d, d.events[e].instrs[j], Ix(e, j))])])
        \o Section(d, "ArgumentsOffset", 3)
        \o Each([e \in 1 .. n |-> Each([j \in DOMAIN d.events[e].instrs |->
                sfi_emevd_instruction_write_args(d, d.events[e].instrs[j], Ix(e, j))])])
        \o <<PadFrom(3, 16), FillFrom("ArgumentsLength", 0, 3, EmevdVarint(d))>>
        \o Section(d, "ParametersOffset", 4) \o Each([e \in 1 .. n |-> sfi_emevd_event_write_parameters(d, e)])
        \o Section(d, "LinkedFilesOffset", 5) \o Each([i \in 1 .. d.linked |-> <<FI("linked_file_offset", i, w)>>])
        \o Section(d, "StringsOffset", 6) \o <<Raw("string_data", 0, 0, d.strings), FillPos("FileSize", 0, "I32")>>

emevd_read_header(d) ==
    LET w == EmevdWidth(d)
    IN  EmevdFlags(d) \o <<Skip(4), Require(emevd_format_of(emevd_write_props(d)) = d.format),
          V("event_count", Len(d.events), w), Offset("EventsOffset", 0, w), Skip(w), Offset("InstructionsOffset", 0, w),
          Const(0, w), Skip(w), Skip(w), Offset("LayersOffset", 0, w), Skip(w), Offset("ParametersOffset", 0, w),
          V("linked_file_count", d.linked, w), Offset("LinkedFilesOffset", 0, w), Skip(w), Offset("ArgumentsOffset", 0, w),
          V("string_data_size", d.strings, w), Offset("StringsOffset", 0, w)>>
        \o When(~emevd_write_props(d).is_64_bit, <<Const(0, 4)>>)

\* The offset of an empty part is read, and not used.
PartOffset(n, i, part, k) == <<IF part = 0 THEN Skip(KindWidth[k]) ELSE Offset(n, i, KindWidth[k])>>

sfi_emevd_instruction_read(d, x, ix) ==
    <<FI("bank", ix, 4), FI("id", ix, 4), Num("arg_data_size", ix, x.args, EmevdWidth(d))>>
    \o PartOffset("ArgsOffset", ix, x.args, OffsetBefore(d, SEKIRO)) \o ZeroBefore(d, SEKIRO)
    \o (IF x.layer = 0 THEN <<Num("LayerOffset", ix, -1, KindWidth[OffsetBefore(d, DARK_SOULS_3)])>>
        ELSE <<Offset("LayerOffset", ix, KindWidth[OffsetBefore(d, DARK_SOULS_3)])>>)
    \o When(EmevdFormat(d) < DARK_SOULS_3, <<Const(0, 4)>>)
    \o When(x.args > 0, GetFrom("ArgsOffset", ix, <<"ArgumentsOffset", 0>>, <<Raw("args", ix, 0, x.args)>>))
    \o When(x.layer # 0, GetFrom("LayerOffset", ix, <<"LayersOffset", 0>>, sfi_emevd_layer(d, x.layer)))

sfi_emevd_event_read(d, e) ==
    LET n == Len(d.events[e].instrs)
        m == d.events[e].params
    IN  <<FI("id", e, EmevdWidth(d)), Num("instruction_count", e, n, EmevdWidth(d))>>
        \o PartOffset("InstrsOffset", e, n, EmevdVarint(d)) \o <<Num("parameter_count", e, m, EmevdWidth(d))>>
        \o PartOffset("ParamsOffset", e, m, OffsetBefore(d, DARK_SOULS_3)) \o ZeroBefore(d, DARK_SOULS_3)
        \o <<FI("rest_behavior", e, 4), Const(0, 4)>>
        \o When(n > 0, GetFrom("InstrsOffset", e, <<"InstructionsOffset", 0>>,
                               Each([j \in 1 .. n |-> sfi_emevd_instruction_read(d, d.events[e].instrs[j], Ix(e, j))])))
        \o When(m > 0, GetFrom("ParamsOffset", e, <<"ParametersOffset", 0>>,
                               Each([k \in 1 .. m |-> sfi_emevd_parameter(d, e, k)])))

emevd_read(d) ==
    emevd_read_header(d)
    \o When(Len(d.events) > 0, Get("EventsOffset", 0, Each([e \in DOMAIN d.events |-> sfi_emevd_event_read(d, e)])))
    \o When(d.linked > 0, Get("LinkedFilesOffset", 0,
                              Each([i \in 1 .. d.linked |-> <<FI("linked_file_offset", i, EmevdWidth(d))>>])))
    \o When(d.strings > 0, Get("StringsOffset", 0, <<Raw("string_data", 0, 0, d.strings)>>))
-----------------------------------------------------------------------------
(***************************************************************************)
(* ESD.  Every offset is relative to the start of the data.  Conditions    *)
(* are collected as the states refer to them, each one before those it     *)
(* contains; commands are numbered as their lists are written.             *)
(***************************************************************************)
EsdVarint(d) == IF d.long THEN "VARINT_8" ELSE "VARINT_4"
EsdWidth(d) == KindWidth[EsdVarint(d)]
esd_state_size(d) == IF d.long THEN 72 ELSE 36
esd_condition_size(d) == IF d.long THEN 56 ELSE 28
DataStart == 0

\* A condition and, after it, those it contains.
esd_append_condition(g, c) ==
    LET append[x \in DOMAIN g.conds] ==
            <<x>> \o Each([k \in DOMAIN g.conds[x].subs |-> append[g.conds[x].subs[k]]])
    IN  append[c]

\* The document with the conditions of each group in the order of the file.
esd_collect_layout(d) ==
    LET order(g) == Each([s \in DOMAIN g.states |-> Each([k \in DOMAIN g.states[s].conds |->
                                                        esd_append_condition(g, g.states[s].conds[k])])])
        renumber(cs, o) == Each([k \in DOMAIN cs |-> <<CHOOSE n \in DOMAIN o : o[n] = cs[k]>>])
        collected(g, o) ==
            [states |-> Each([s \in DOMAIN g.states |-> <<[g.states[s] EXCEPT !.conds = renumber(@, o)]>>]),
             conds |-> Each([n \in DOMAIN o |-> <<[g.conds[o[n]] EXCEPT !.subs = renumber(@, o)]>>])]
    IN  [d EXCEPT !.groups = Each([g \in DOMAIN d.groups |-> <<collected(d.groups[g], order(d.groups[g]))>>])]

\* A group of several states ends with a copy of the first.
HasDummy(g) == Len(g.states) > 1
StateCount(d) == Total([g \in DOMAIN d.groups |-> Len(d.groups[g].states) + (IF HasDummy(d.groups[g]) THEN 1 ELSE 0)])
\* The conditions, as pairs of group and index, in the order of the file.
ConditionsOf(d) == Each([g \in DOMAIN d.groups |-> [c \in DOMAIN d.groups[g].conds |-> <<g, c>>]])
ConditionCount(d) == Len(ConditionsOf(d))

\* The command lists, [name, ix, cmds], in the order in which they are written.
CommandLists(d) ==
    LET list(n, ix, cmds) == [name |-> n, ix |-> ix, cmds |-> cmds]
    IN  Each([g \in DOMAIN d.groups |->
            Each([s \in DOMAIN d.groups[g].states |->
                <<list("entry", Ix(g, s), d.groups[g].states[s].entry), list("exit", Ix(g, s), d.groups[g].states[s].exit),
                  list("while", Ix(g, s), d.groups[g].states[s].while)>>])
            \o Each([c \in DOMAIN d.groups[g].conds |-> <<list("pass", Ix(g, c), d.groups[g].conds[c].pass)>>])])
Commands(lists) == Each([l \in DOMAIN lists |-> lists[l].cmds])
\* The number of the j-th command of list l.
CommandNo(lists, l, j) == Total([k \in 1 .. l - 1 |-> Len(lists[k].cmds)]) + j

\* An offset with the number of what is there.
CountName == [conds |-> "condition_count", entry |-> "entry_cmd_count", exit |-> "exit_cmd_count", while |-> "while_cmd_count",
              pass |-> "pass_cmd_count", subs |-> "subcondition_count", eval |-> "eval_size", args |-> "arg_count",
              bytecode |-> "arg_size", states1 |-> "state_count"]
Count(d, n, i, k) == Num(CountName[n], i, k, EsdWidth(d))
Counted(d, n, i, k) == <<Reserve(n, i, EsdVarint(d)), Count(d, n, i, k)>>

StateId(d, g, s) == Num("state_id", Ix(g, s), s, EsdWidth(d))
esd_write_state_header(d, g, s) ==
    LET st == d.groups[g].states[s]
    IN  <<Mark("state", Ix(g, s)), StateId(d, g, s)>>
        \o Counted(d, "conds", Ix(g, s), Len(st.conds)) \o Counted(d, "entry", Ix(g, s), Len(st.entry))
        \o Counted(d, "exit", Ix(g, s), Len(st.exit)) \o Counted(d, "while", Ix(g, s), Len(st.while))

\* The values the placeholders were given, with their counts.
Value(d, n, ix, k) ==
    <<IF k = 0 /\ n # "conds" THEN Num(n, ix, -1, EsdWidth(d)) ELSE Ref(n, ix, <<n, ix>>, DataStart, EsdWidth(d)),
      Count(d, n, ix, k)>>
esd_write_state_header_values(d, g) ==
    LET st == d.groups[g].states[1]
        ix == Ix(g, 1)
    IN  <<StateId(d, g, 1)>> \o Value(d, "conds", ix, Len(st.conds)) \o Value(d, "entry", ix, Len(st.entry))
        \o Value(d, "exit", ix, Len(st.exit)) \o Value(d, "while", ix, Len(st.while))

esd_write_states(d) ==
    Each([g \in DOMAIN d.groups |->
        <<FillFrom("states1", g, DataStart, EsdVarint(d)), FillFrom("states2", g, DataStart, EsdVarint(d))>>
        \o Each([s \in DOMAIN d.groups[g].states |-> esd_write_state_header(d, g, s)])
        \o When(HasDummy(d.groups[g]), <<Mark("dummy", g), Zeros(esd_state_size(d))>>)])

esd_write_condition_header(d, g, c) ==
    LET x == d.groups[g].conds[c]
        ix == Ix(g, c)
    IN  <<Mark("cond", ix), IF x.target = 0 THEN Num("target", ix, -1, EsdWidth(d))
                            ELSE Ref("target", ix, <<"state", Ix(g, x.target)>>, DataStart, EsdWidth(d))>>
        \o Counted(d, "pass", ix, Len(x.pass)) \o Counted(d, "subs", ix, Len(x.subs)) \o Counted(d, "eval", ix, x.eval)

esd_write_command_list(d, lists, l) ==
    LET x == lists[l]
    IN  IF x.cmds = <<>> THEN <<Fill(x.name, x.ix, -1, EsdVarint(d))>>
        ELSE <<FillFrom(x.name, x.ix, DataStart, EsdVarint(d)), Mark(x.name, x.ix)>>
             \o Each([j \in DOMAIN x.cmds |->
                  LET k == CommandNo(lists, l, j)
                  IN  <<FI("bank", k, 4), FI("id", k, 4)>> \o Counted(d, "args", k, Len(x.cmds[j]))])

esd_write_command_arg_tables(d, cmds) ==
    Each([k \in DOMAIN cmds |->
        <<FillFrom("args", k, DataStart, EsdVarint(d))>>
        \o Each([j \in DOMAIN cmds[k] |-> Counted(d, "bytecode", Ix(k, j), cmds[k][j])])])

\* The offsets of the conditions of a state, or of those in another condition.
ConditionRefs(d, g, key, cs) ==
    Each([k \in DOMAIN cs |-> <<Ref("ref", Ix(key, k), <<"cond", Ix(g, cs[k])>>, DataStart, EsdWidth(d))>>])
StateKey(g, s) == Ix(g, s)
CondKey(g, c) == 256 + Ix(g, c)

esd_write_state_condition_offsets(d, g, s) ==
    <<FillFrom("conds", Ix(g, s), DataStart, EsdVarint(d)), Mark("conds", Ix(g, s))>>
    \o ConditionRefs(d, g, StateKey(g, s), d.groups[g].states[s].conds)
esd_write_condition_offsets(d, g, c) ==
    FillPart("subs", Ix(g, c), Len(d.groups[g].conds[c].subs), DataStart, EsdVarint(d))
    \o ConditionRefs(d, g, CondKey(g, c), d.groups[g].conds[c].subs)
ConditionRefCount(d) ==
    Total([g \in DOMAIN d.groups |->
        Total([s \in DOMAIN d.groups[g].states |-> Len(d.groups[g].states[s].conds)])
        + Total([c \in DOMAIN d.groups[g].conds |-> Len(d.groups[g].conds[c].subs)])])

esd_write_evaluators_and_bytecode(d, cmds) ==
    Each([g \in DOMAIN d.groups |-> Each([c \in DOMAIN d.groups[g].conds |->
            <<FillFrom("eval", Ix(g, c), DataStart, EsdVarint(d)), Raw("evaluator", Ix(g, c), 0, d.groups[g].conds[c].eval)>>])])
    \o Each([k \in DOMAIN cmds |-> Each([j \in DOMAIN cmds[k] |->
            <<FillFrom("bytecode", Ix(k, j), DataStart, EsdVarint(d)), Raw("arg", Ix(k, j), 0, cmds[k][j])>>])])

\* Fields of the header whose value is the same for both directions.
EsdSize(d, long, short) == Const(IF d.long THEN long ELSE short, 4)
EsdMagic(d) == <<Magic(IF d.long THEN "fsSL" ELSE "fSSL", 4), Const(1, 4), V("version", d.version, 4), V("version", d.version, 4), Const(84, 4)>>
EsdSizes(d) == <<Const(6, 4), EsdSize(d, 72, 44), Const(1, 4), EsdSize(d, 32, 16), V("group_count", Len(d.groups), 4),
                 Const(esd_state_size(d), 4), V("state_count", StateCount(d), 4), Const(esd_condition_size(d), 4)>>
UnkNull(d) == Const(IF d.version = 1 THEN 0 ELSE -1, EsdWidth(d))
EsdEnd(d) == <<V("name_len", d.name, EsdWidth(d)), UnkNull(d), UnkNull(d)>>

esd_write(tree) ==
    LET d == esd_collect_layout(tree)
        lists == CommandLists(d)
        conds == ConditionsOf(d)
        cmds == Commands(lists)
        w == EsdWidth(d)
        n == Len(d.groups)
        slot(x) == Reserve(x, 0, "I32")
        end(x) == FillFrom(x, 0, DataStart, "I32")
    IN  EsdMagic(d) \o <<slot("DataSize")>> \o EsdSizes(d)
        \o <<slot("ConditionCount"), EsdSize(d, 24, 16), slot("CommandCallCount"), EsdSize(d, 16, 8), slot("CommandArgCount"),
             slot("ConditionOffsetsOffset"), slot("ConditionOffsetsCount"), slot("NameBlockOffset"), V("name_length", d.name, 4),
             slot("UnkOffset1"), Const(0, 4), slot("UnkOffset2"), Const(0, 4), Base(DataStart), Const(1, 4)>>
        \o Each([i \in 1 .. (IF d.long THEN 5 ELSE 4) |-> <<Const(0, 4)>>])
        \o <<Reserve("StateGroupsOffset", 0, EsdVarint(d)), V("group_count", n, w), Reserve("NameOffset", 0, EsdVarint(d))>>
        \o EsdEnd(d)
        \o FillPart("StateGroupsOffset", 0, n, DataStart, EsdVarint(d))
        \o Each([g \in 1 .. n |-> <<FI("group_id", g, w)>> \o Counted(d, "states1", g, Len(d.groups[g].states))
                              \o <<Reserve("states2", g, EsdVarint(d))>>])
        \o esd_write_states(d)
        \o <<Fill("ConditionCount", 0, ConditionCount(d), "I32")>>
        \o Each([c \in DOMAIN conds |-> esd_write_condition_header(d, conds[c][1], conds[c][2])])
        \o Each([l \in DOMAIN lists |-> esd_write_command_list(d, lists, l)])
        \o <<Fill("CommandCallCount", 0, Len(cmds), "I32"),
             Fill("CommandArgCount", 0, Total([k \in DOMAIN cmds |-> Len(cmds[k])]), "I32")>>
        \o esd_write_command_arg_tables(d, cmds)
        \o <<end("ConditionOffsetsOffset")>>
        \o Each([g \in 1 .. n |-> Each([s \in DOMAIN d.groups[g].states |-> esd_write_state_condition_offsets(d, g, s)])
                              \o Each([c \in DOMAIN d.groups[g].conds |-> esd_write_condition_offsets(d, g, c)])])
        \o <<Fill("ConditionOffsetsCount", 0, ConditionRefCount(d), "I32")>>
        \o esd_write_evaluators_and_bytecode(d, cmds)
        \o <<end("NameBlockOffset")>>
        \o (IF d.name = 0 THEN <<Fill("NameOffset", 0, -1, EsdVarint(d))>>
            ELSE <<Pad(2), FillFrom("NameOffset", 0, DataStart, EsdVarint(d)), Raw("name", 0, 0, 2 * d.name)>>)
        \o <<end("UnkOffset1"), end("UnkOffset2"), end("DataSize")>>
        \o (CASE d.version = 1 -> <<Pad(4)>> [] d.version = 2 -> <<Pad(16)>> [] d.version = 3 -> <<>>)
        \o Each([g \in 1 .. n |-> When(HasDummy(d.groups[g]),
                                   <<StepAt("dummy", g)>> \o esd_write_state_header_values(d, g) \o <<StepBack>>)])

Data == <<"base", DataStart>>
ReadCounted(d, n, i, k) == <<IF k = 0 THEN Skip(EsdWidth(d)) ELSE Offset(n, i, EsdWidth(d)), Count(d, n, i, k)>>

esd_read_header(d) ==
    LET w == EsdWidth(d)
    IN  EsdMagic(d) \o <<Skip(4)>> \o EsdSizes(d)
        \o <<V("ConditionCount", ConditionCount(d), 4), EsdSize(d, 24, 16), Skip(4), EsdSize(d, 16, 8), Skip(4), Skip(4), Skip(4),
             Skip(4), V("name_length", d.name, 4), Skip(4), Const(0, 4), Skip(4), Const(0, 4), Base(DataStart), Const(1, 4),
             Skip(16)>>
        \o When(d.long, <<Const(0, 4)>>)
        \o <<Skip(w), V("group_count", Len(d.groups), w)>>
        \o (IF d.name = 0 THEN <<Skip(w)>> ELSE <<Offset("NameOffset", 0, w)>>) \o EsdEnd(d)
        \o When(d.name > 0, GetFrom("NameOffset", 0, Data, <<Raw("name", 0, 0, 2 * d.name)>>))

\* esd_read_command_list and esd_read_command_call.
esd_read_command_list(d, lists, name, ix) ==
    LET l == CHOOSE k \in DOMAIN lists : lists[k].name = name /\ lists[k].ix = ix
        cmds == lists[l].cmds
        arg(k, j, size) == ReadCounted(d, "bytecode", Ix(k, j), size)
                           \o When(size > 0, GetFrom("bytecode", Ix(k, j), Data, <<Raw("arg", Ix(k, j), 0, size)>>))
    IN  When(cmds # <<>>, GetFrom(name, ix, Data,
            Each([i \in DOMAIN cmds |->
                LET k == CommandNo(lists, l, i)
                IN  <<FI("bank", k, 4), FI("id", k, 4), Offset("args", k, EsdWidth(d)), Count(d, "args", k, Len(cmds[i]))>>
                    \o GetFrom("args", k, Data, Each([j \in DOMAIN cmds[i] |-> arg(k, j, cmds[i][j])]))])))

esd_read_offset_list(d, name, ix, key, cs) ==
    When(cs # <<>>, GetFrom(name, ix, Data, Each([k \in DOMAIN cs |-> <<Offset("ref", Ix(key, k), EsdWidth(d))>>])))

esd_read_state(d, lists, g, s) ==
    LET st == d.groups[g].states[s]
        ix == Ix(g, s)
    IN  <<StateId(d, g, s)>>
        \o ReadCounted(d, "conds", ix, Len(st.conds)) \o ReadCounted(d, "entry", ix, Len(st.entry))
        \o ReadCounted(d, "exit", ix, Len(st.exit)) \o ReadCounted(d, "while", ix, Len(st.while))
        \o esd_read_offset_list(d, "conds", ix, StateKey(g, s), st.conds)
        \o esd_read_command_list(d, lists, "entry", ix) \o esd_read_command_list(d, lists, "exit", ix) \o esd_read_command_list(d, lists, "while", ix)

esd_read_condition(d, lists, g, c) ==
    LET x == d.groups[g].conds[c]
        ix == Ix(g, c)
    IN  <<Mark("cond", ix), IF x.target = 0 THEN Num("target", ix, -1, EsdWidth(d)) ELSE Offset("target", ix, EsdWidth(d))>>
        \o ReadCounted(d, "pass", ix, Len(x.pass)) \o ReadCounted(d, "subs", ix, Len(x.subs)) \o ReadCounted(d, "eval", ix, x.eval)
        \o esd_read_command_list(d, lists, "pass", ix) \o esd_read_offset_list(d, "subs", ix, CondKey(g, c), x.subs)
        \o When(x.eval > 0, GetFrom("eval", ix, Data, <<Raw("evaluator", ix, 0, x.eval)>>))

\* Offsets are turned into states and conditions again.
PointToConditions(d, g, key, cs) ==
    Each([k \in DOMAIN cs |-> <<Points("ref", Ix(key, k), <<"cond", Ix(g, cs[k])>>, Data, 0)>>])
esd_clone_condition(d, g, c) ==
    LET x == d.groups[g].conds[c]
    IN  When(x.target # 0, <<Points("target", Ix(g, c), <<"state", Ix(g, x.target)>>, Data, 0)>>)
        \o PointToConditions(d, g, CondKey(g, c), x.subs)
esd_copy_group_state(d, g, s) ==
    <<Points("states1", g, <<"state", Ix(g, s)>>, Data, (s - 1) * esd_state_size(d))>>
    \o PointToConditions(d, g, StateKey(g, s), d.groups[g].states[s].conds)

esd_read(tree) ==
    LET d == esd_collect_layout(tree)
        lists == CommandLists(d)
        conds == ConditionsOf(d)
        n == Len(d.groups)
    IN  esd_read_header(d)
        \o Each([g \in 1 .. n |-> <<FI("group_id", g, EsdWidth(d)), Offset("states1", g, EsdWidth(d)),
                                Count(d, "states1", g, Len(d.groups[g].states)),
                                Offset("states2", g, EsdWidth(d)), Apart("states1", g, <<"states2", g>>, 0)>>])
        \o Each([g \in 1 .. n |-> Each([s \in DOMAIN d.groups[g].states |-> <<Mark("state", Ix(g, s))>> \o esd_read_state(d, lists, g, s)])
                              \o When(HasDummy(d.groups[g]), <<Mark("dummy", g)>> \o esd_read_state(d, lists, g, 1))])
        \o Each([c \in DOMAIN conds |-> esd_read_condition(d, lists, conds[c][1], conds[c][2])])
        \o Each([g \in 1 .. n |->
              Each([s \in DOMAIN d.groups[g].states |-> esd_copy_group_state(d, g, s)])
              \o Each([c \in DOMAIN d.groups[g].conds |-> esd_clone_condition(d, g, c)])
              \o When(HasDummy(d.groups[g]), <<Points("states1", g, <<"dummy", g>>, Data,
                                                      esd_state_size(d) * Len(d.groups[g].states))>>)])
-----------------------------------------------------------------------------
ScriptWrites(d) == CASE d.fmt = "EMEVD" -> sfi_emevd_write(d)
                     [] d.fmt = "ESD"   -> esd_write(d)
                     [] OTHER -> FormatWrites(d)
ScriptReads(d) == CASE d.fmt = "EMEVD" -> emevd_read(d)
                    [] d.fmt = "ESD"   -> esd_read(d)
                    [] OTHER -> FormatReads(d)
=============================================================================
