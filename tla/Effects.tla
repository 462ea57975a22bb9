------------------------------ MODULE Effects -------------------------------
(***************************************************************************)
(* FXR3 particle effects: a state machine and a tree of containers, taken  *)
(* apart by the writer into one table for each kind of thing.  A document  *)
(* is                                                                      *)
(*   FXR3  [version, states, containers, references, externals, enablers]  *)
(* A state is the sequence of its conditions [op, left, right], operands   *)
(* by type.  A container is [children, effects, actions], the first of the *)
(* document is the root, children are indices; an effect is a sequence of  *)
(* actions, an action [fields1, fields2, lists, props, first], the first   *)
(* properties and the rest being counted apart; a property [type, interp,  *)
(* loop, fields, mods], a modifier [fields, props].  The properties of a   *)
(* modifier have none themselves.  Fields are counted.                     *)
(***************************************************************************)
EXTENDS Cutscenes

FXR3_DARK_SOULS_3 == 4
FXR3_SEKIRO == 5
LITERAL == -4
EXTERNAL == -3
OPERATOR_GE == 2
OPERATOR_GT == 3
OPERATOR_LE == 4
OPERATOR_LT == 5

\* What the tables list, in the order of the tables: [ix, of].
Fxr3All(s, owner) == [k \in DOMAIN s |-> [ix |-> Ix(owner, k), of |-> s[k]]]
Fxr3Transitions(d) == Each([s \in DOMAIN d.states |-> Fxr3All(d.states[s], s)])
\* The children of a container stand together, before those of any of them.
RECURSIVE Fxr3Below(_, _)
Fxr3Below(d, c) == d.containers[c].children
                   \o Each([k \in DOMAIN d.containers[c].children |-> Fxr3Below(d, d.containers[c].children[k])])
Fxr3Containers(d) == <<1>> \o Fxr3Below(d, 1)
Fxr3ContainerActions(d, c) ==
    Fxr3All(d.containers[c].actions, Ix(c, 0))
    \o Each([e \in DOMAIN d.containers[c].effects |-> Fxr3All(d.containers[c].effects[e], Ix(c, e))])
Fxr3ActionsOf(d, cs) == Each([n \in DOMAIN cs |-> Fxr3ContainerActions(d, cs[n])])
Fxr3Spread(all, field) == Each([n \in DOMAIN all |-> Fxr3All(all[n].of[field], all[n].ix)])
Fxr3Actions(d) == Fxr3ActionsOf(d, Fxr3Containers(d))
Fxr3Properties(d) == Fxr3Spread(Fxr3Actions(d), "props")
Fxr3Modifiers(d) == Fxr3Spread(Fxr3Properties(d), "mods")
Fxr3Conditionals(d) == Fxr3Spread(Fxr3Modifiers(d), "props")
Fxr3Lists(d) == Fxr3Spread(Fxr3Actions(d), "lists")

Fxr3Fields(n, ix, count) == [k \in 1 .. count |-> FI(n, Ix(ix, k), 4)]
Fxr3Tag == <<Zeros(1), Raw("one", 0, 1, 1)>>
Reserved(n, i) == Reserve(n, i, "I32")
FilledPos(n, i) == FillPos(n, i, "I32")
Found(n, i) == Offset(n, i, 4)
\* A list stands at its offset; of an empty one the reader makes no use of it.
GetSome(n, i, count, ops) == IF count = 0 THEN <<>> ELSE Get(n, i, ops)
-----------------------------------------------------------------------------
(***************************************************************************)
(* Conditions.  The format has no operators < and <=: the writer swaps the *)
(* operands instead, and the reader swaps them back if that puts a literal *)
(* to the right.  What comes back may be another condition, but never one  *)
(* that says something else.                                               *)
(***************************************************************************)
operand_has_value(type) == type \in {LITERAL, EXTERNAL}
Fxr3Wire(c) == IF c.op >= OPERATOR_LE
               THEN [op |-> IF c.op = OPERATOR_LE THEN OPERATOR_GE ELSE OPERATOR_GT, left |-> c.right, right |-> c.left]
               ELSE c
Fxr3Parsed(w) ==
    IF w.left = LITERAL /\ w.right # LITERAL
    THEN [op |-> CASE w.op = OPERATOR_GT -> OPERATOR_LT [] w.op = OPERATOR_GE -> OPERATOR_LE [] OTHER -> w.op,
          left |-> w.right, right |-> w.left]
    ELSE w
\* The relation a condition stands for: strict or not, and which side is greater.
Fxr3Relation(c) == CASE c.op \in {OPERATOR_GE, OPERATOR_GT} -> <<c.op, c.left, c.right>>
                     [] c.op = OPERATOR_LE -> <<OPERATOR_GE, c.right, c.left>>
                     [] c.op = OPERATOR_LT -> <<OPERATOR_GT, c.right, c.left>>
                     [] OTHER -> <<c.op, {c.left, c.right}>>

Fxr3Operand(type, ix, n, offset) ==
    <<Num(n, ix, type, 2)>> \o Fxr3Tag
    \o <<Const(0, 4), Num("has_field", ix, IF operand_has_value(type) THEN 1 ELSE 0, 4), Const(0, 4), offset>>
    \o Repeated(5, <<Const(0, 4)>>)
Fxr3Condition(w, ix, left, right) ==
    <<Num("operator", ix, w.op, 2)>> \o Fxr3Tag \o <<Const(0, 4), FI("next_state", ix, 4), Const(0, 4)>>
    \o Fxr3Operand(w.left, ix, "left_type", left) \o Fxr3Operand(w.right, ix, "right_type", right)
write_condition_header(c, ix) ==
    Fxr3Condition(Fxr3Wire(c), ix, Reserved("TransitionFieldOffset1", ix), Reserved("TransitionFieldOffset2", ix))
write_operand_field(n, ix, type, side) ==
    IF operand_has_value(type) THEN <<FilledPos(n, ix), Num("operand", Ix(ix, side), type, 4)>> ELSE <<Fill(n, ix, 0, "I32")>>
Fxr3OperandsOut(c, ix) ==
    write_operand_field("TransitionFieldOffset1", ix, Fxr3Wire(c).left, 1)
    \o write_operand_field("TransitionFieldOffset2", ix, Fxr3Wire(c).right, 2)

read_operand_at(n, ix, type, side) == When(operand_has_value(type), Get(n, ix, <<Num("operand", Ix(ix, side), type, 4)>>))
read_condition(c, ix) ==
    LET w == Fxr3Wire(c)
    IN  Fxr3Condition(w, ix, Found("TransitionFieldOffset1", ix), Found("TransitionFieldOffset2", ix))
        \o <<Require(w.op \in 0 .. 3), Require({w.left, w.right} \subseteq LITERAL .. -1)>>
        \o read_operand_at("TransitionFieldOffset1", ix, w.left, 1) \o read_operand_at("TransitionFieldOffset2", ix, w.right, 2)
        \o <<Require(Fxr3Relation(Fxr3Parsed(w)) = Fxr3Relation(c))>>

Fxr3Counted(ix, count, offset) == <<Const(0, 4), Num("count", ix, count, 4), offset, Const(0, 4)>>
write_state_header(d, s) == Fxr3Counted(s, Len(d.states[s]), Reserved("StateTransitionsOffset", s))
write_state_map_header(d) == Fxr3Counted(0, Len(d.states), Reserved("StateMapStatesOffset", 0))
read_state(d, s) ==
    Fxr3Counted(s, Len(d.states[s]), Found("StateTransitionsOffset", s))
    \o GetSome("StateTransitionsOffset", s, Len(d.states[s]), Each([k \in DOMAIN d.states[s] |-> read_condition(d.states[s][k], Ix(s, k))]))
read_state_map(d) ==
    Fxr3Counted(0, Len(d.states), Found("StateMapStatesOffset", 0))
    \o GetSome("StateMapStatesOffset", 0, Len(d.states), Each([s \in DOMAIN d.states |-> read_state(d, s)]))
-----------------------------------------------------------------------------
(***************************************************************************)
(* Headers of properties, modifiers, lists, actions, effects, containers.  *)
(***************************************************************************)
Fxr3PropertyType(p) == p.type + 16 * p.interp + (IF p.loop THEN 4096 ELSE 0)
Fxr3PropertyOther(p) == p.type + 4 * p.interp + (IF p.loop THEN 16 ELSE 0)     \* not looked at
Fxr3Property(p, ix, fields, mods) ==
    <<Num("type_a", ix, Fxr3PropertyType(p), 2)>> \o Fxr3Tag
    \o <<Num("type_b", ix, Fxr3PropertyOther(p), 4), Num("field_count", ix, p.fields, 4), Const(0, 4), fields, Const(0, 4)>>
    \o When(mods # <<>>, mods \o <<Const(0, 4), Num("modifier_count", ix, Len(p.mods), 4), Const(0, 4)>>)
write_property_header(p, ix, conditional) ==
    IF conditional THEN Fxr3Property(p, ix, Reserved("ConditionalPropertyFieldsOffset", ix), <<>>)
    ELSE Fxr3Property(p, ix, Reserved("PropertyFieldsOffset", ix), <<Reserved("PropertyModifiersOffset", ix)>>)
Fxr3TypeRead(p) ==
    LET t == Fxr3PropertyType(p)
    IN  Require(t % 4 = p.type /\ (t \div 16) % 16 = p.interp /\ (((t \div 4096) % 2) = 1) = p.loop)
Fxr3PropertyFields(n, p, ix) == GetSome(n, ix, p.fields, Fxr3Fields("property", ix, p.fields))

Fxr3Modifier(m, ix, fields, props) ==
    <<FI("type_enum_a", ix, 2)>> \o Fxr3Tag
    \o <<FI("type_enum_b", ix, 4), Num("field_count", ix, m.fields, 4), Num("property_count", ix, Len(m.props), 4),
         fields, Const(0, 4), props, Const(0, 4)>>
write_modifier_header(m, ix) == Fxr3Modifier(m, ix, Reserved("ModifierFieldsOffset", ix), Reserved("ModifierConditionalPropertysOffset", ix))

\* read_property, for a property of a modifier and for one of an action.
read_conditional_property(p, ix) ==
    Fxr3Property(p, ix, Found("ConditionalPropertyFieldsOffset", ix), <<>>) \o <<Fxr3TypeRead(p)>>
    \o Fxr3PropertyFields("ConditionalPropertyFieldsOffset", p, ix)
read_modifier(m, ix) ==
    Fxr3Modifier(m, ix, Found("ModifierFieldsOffset", ix), Found("ModifierConditionalPropertysOffset", ix))
    \o GetSome("ModifierConditionalPropertysOffset", ix, Len(m.props), Each([q \in DOMAIN m.props |-> read_conditional_property(m.props[q], Ix(ix, q))]))
    \o GetSome("ModifierFieldsOffset", ix, m.fields, Fxr3Fields("modifier", ix, m.fields))
read_property(p, ix) ==
    Fxr3Property(p, ix, Found("PropertyFieldsOffset", ix), <<Found("PropertyModifiersOffset", ix)>>) \o <<Fxr3TypeRead(p)>>
    \o GetSome("PropertyModifiersOffset", ix, Len(p.mods), Each([m \in DOMAIN p.mods |-> read_modifier(p.mods[m], Ix(ix, m))]))
    \o Fxr3PropertyFields("PropertyFieldsOffset", p, ix)

Fxr3List(count, ix, fields) == <<fields, Const(0, 4), Num("field_count", ix, count, 4), Const(0, 4)>>
write_unk_field_list_header(count, ix) == Fxr3List(count, ix, Reserved("UnkFieldListFieldsOffset", ix))
read_unk_field_list(count, ix) ==
    Fxr3List(count, ix, Found("UnkFieldListFieldsOffset", ix)) \o GetSome("UnkFieldListFieldsOffset", ix, count, Fxr3Fields("list", ix, count))

Fxr3Action(a, ix, fields, lists, props) ==
    <<FI("id", ix, 2), Raw("unk02", ix, 0, 1), Raw("unk03", ix, 0, 1), FI("unk04", ix, 4), Num("field1_count", ix, a.fields1, 4),
      Num("list_count", ix, Len(a.lists), 4), Num("property1_count", ix, a.first, 4), Num("field2_count", ix, a.fields2, 4), Const(0, 4),
      Num("property2_count", ix, Len(a.props) - a.first, 4), fields, Const(0, 4), lists, Const(0, 4), props>>
    \o Repeated(3, <<Const(0, 4)>>)
write_action_header(a, ix) ==
    Fxr3Action(a, ix, Reserved("ActionFieldsOffset", ix), Reserved("ActionUnkFieldListsOffset", ix), Reserved("ActionPropertiesOffset", ix))
Fxr3ActionFields(a, ix) == Fxr3Fields("field1", ix, a.fields1) \o Fxr3Fields("field2", ix, a.fields2)
read_action(a, ix) ==
    Fxr3Action(a, ix, Found("ActionFieldsOffset", ix), Found("ActionUnkFieldListsOffset", ix), Found("ActionPropertiesOffset", ix))
    \o GetSome("ActionPropertiesOffset", ix, Len(a.props), Each([p \in DOMAIN a.props |-> read_property(a.props[p], Ix(ix, p))]))
    \o GetSome("ActionUnkFieldListsOffset", ix, Len(a.lists), Each([l \in DOMAIN a.lists |-> read_unk_field_list(a.lists[l], Ix(ix, l))]))
    \o GetSome("ActionFieldsOffset", ix, a.fields1 + a.fields2, Fxr3ActionFields(a, ix))
Fxr3ActionsIn(s, owner) == Each([k \in DOMAIN s |-> read_action(s[k], Ix(owner, k))])

Fxr3Effect(effect, ix, actions) ==
    <<FI("id", ix, 2)>> \o Fxr3Tag \o <<Const(0, 4), Const(0, 4), Num("action_count", ix, Len(effect), 4), Const(0, 4), Const(0, 4), actions, Const(0, 4)>>
write_effect_header(effect, ix) == Fxr3Effect(effect, ix, Reserved("EffectActionsOffset", ix))
read_effect(effect, ix) ==
    Fxr3Effect(effect, ix, Found("EffectActionsOffset", ix)) \o GetSome("EffectActionsOffset", ix, Len(effect), Fxr3ActionsIn(effect, ix))

Fxr3Container(c, ix, effects, actions, children) ==
    <<FI("id", ix, 2)>> \o Fxr3Tag
    \o <<Const(0, 4), Num("effect_count", ix, Len(c.effects), 4), Num("action_count", ix, Len(c.actions), 4),
         Num("child_count", ix, Len(c.children), 4), Const(0, 4), effects, Const(0, 4), actions, Const(0, 4), children, Const(0, 4)>>
write_container_header(d, c) ==
    Fxr3Container(d.containers[c], c, Reserved("ContainerEffectsOffset", c), Reserved("ContainerActionsOffset", c),
                  Reserved("ContainerChildContainersOffset", c))
RECURSIVE write_container_children(_, _)
write_container_children(d, c) ==
    LET children == d.containers[c].children
    IN  IF children = <<>> THEN <<Fill("ContainerChildContainersOffset", c, 0, "I32")>>
        ELSE <<FilledPos("ContainerChildContainersOffset", c)>>
             \o Each([k \in DOMAIN children |-> write_container_header(d, children[k])])
             \o Each([k \in DOMAIN children |-> write_container_children(d, children[k])])
RECURSIVE read_container(_, _)
read_container(d, c) ==
    LET it == d.containers[c]
    IN  Fxr3Container(it, c, Found("ContainerEffectsOffset", c), Found("ContainerActionsOffset", c), Found("ContainerChildContainersOffset", c))
        \o GetSome("ContainerChildContainersOffset", c, Len(it.children), Each([k \in DOMAIN it.children |-> read_container(d, it.children[k])]))
        \o GetSome("ContainerEffectsOffset", c, Len(it.effects), Each([e \in DOMAIN it.effects |-> read_effect(it.effects[e], Ix(c, e))]))
        \o GetSome("ContainerActionsOffset", c, Len(it.actions), Fxr3ActionsIn(it.actions, Ix(c, 0)))
-----------------------------------------------------------------------------
\* The tables of the header, by number: the offset and the count of each.
StateMaps == 1
States == 2
Transitions == 3
Containers == 4
EffectHeaders == 5
ActionHeaders == 6
PropertyHeaders == 7
ModifierHeaders == 8
ConditionalHeaders == 9
FieldLists == 10
FieldValues == 11
TableStart(t) == FilledPos("Offset", t)
TableEnd(t, count) == <<Fill("Count", t, count, "I32"), Pad(16)>>

Fxr3Arrays(d) == <<d.references, d.externals, d.enablers>>
Fxr3Header(d, tables, arrays) ==
    <<Magic("FXR", 4), Const(0, 2), V("version", d.version, 2), Const(1, 4), F("id", 4)>> \o tables
    \o <<Const(1, 4), Const(0, 4)>> \o When(d.version = FXR3_SEKIRO, arrays)
Fxr3TablesOut(d) ==
    <<Reserved("Offset", StateMaps), Num("Count", StateMaps, 1, 4), Reserved("Offset", States), Num("Count", States, Len(d.states), 4)>>
    \o Each([t \in 1 .. 9 |-> <<Reserved("Offset", States + t), Reserved("Count", States + t)>>])
Fxr3TablesIn == <<Found("Offset", StateMaps), Num("Count", StateMaps, 1, 4)>>
                \o Each([t \in 1 .. 10 |-> <<Found("Offset", StateMaps + t), Found("Count", StateMaps + t)>>])
Fxr3ArrayHeads(d, offsets) == Each([k \in 1 .. 3 |-> <<offsets[k], Num("array_count", k, Fxr3Arrays(d)[k], 4)>>])

Fxr3HeaderOut(d) ==
    Fxr3Header(d, Fxr3TablesOut(d),
               Fxr3ArrayHeads(d, [k \in 1 .. 3 |-> Reserved("ArrayOffset", k)]) \o <<Reserved("UnkEmptyOffset", 0), Const(0, 4)>>)

Fxr3StatesOut(d) ==
    <<TableStart(StateMaps)>> \o write_state_map_header(d) \o <<Pad(16), TableStart(States), FilledPos("StateMapStatesOffset", 0)>>
    \o Each([s \in DOMAIN d.states |-> write_state_header(d, s)]) \o <<Pad(16), TableStart(Transitions)>>
    \o Each([s \in DOMAIN d.states |-> <<FilledPos("StateTransitionsOffset", s)>>
              \o Each([k \in DOMAIN d.states[s] |-> write_condition_header(d.states[s][k], Ix(s, k))])])
    \o TableEnd(Transitions, Len(Fxr3Transitions(d)))

Fxr3ContainersOut(d) ==
    <<TableStart(Containers)>> \o write_container_header(d, 1) \o write_container_children(d, 1)
    \o TableEnd(Containers, Len(Fxr3Containers(d)))
Fxr3EffectTable(d, cs) ==
    <<TableStart(EffectHeaders)>>
    \o Each([n \in DOMAIN cs |->
          LET effects == d.containers[cs[n]].effects
          IN  IF effects = <<>> THEN <<Fill("ContainerEffectsOffset", cs[n], 0, "I32")>>
              ELSE <<FilledPos("ContainerEffectsOffset", cs[n])>>
                   \o Each([e \in DOMAIN effects |-> write_effect_header(effects[e], Ix(cs[n], e))])])
    \o TableEnd(EffectHeaders, Total([n \in DOMAIN cs |-> Len(d.containers[cs[n]].effects)]))

Fxr3ActionsOut(s, owner) == Each([k \in DOMAIN s |-> write_action_header(s[k], Ix(owner, k))])
Fxr3ActionTable(d, cs) ==
    <<TableStart(ActionHeaders)>>
    \o Each([n \in DOMAIN cs |->
          <<FilledPos("ContainerActionsOffset", cs[n])>> \o Fxr3ActionsOut(d.containers[cs[n]].actions, Ix(cs[n], 0))
          \o Each([e \in DOMAIN d.containers[cs[n]].effects |->
                <<FilledPos("EffectActionsOffset", Ix(cs[n], e))>> \o Fxr3ActionsOut(d.containers[cs[n]].effects[e], Ix(cs[n], e))])])
    \o TableEnd(ActionHeaders, Len(Fxr3ActionsOf(d, cs)))

\* The tables below actions: what each entry of one lists stands in the next.
Fxr3PropertyTable(actions) ==
    <<TableStart(PropertyHeaders)>>
    \o Each([n \in DOMAIN actions |-> <<FilledPos("ActionPropertiesOffset", actions[n].ix)>>
          \o Each([k \in DOMAIN actions[n].of.props |-> write_property_header(actions[n].of.props[k], Ix(actions[n].ix, k), FALSE)])])
    \o TableEnd(PropertyHeaders, Len(Fxr3Spread(actions, "props")))
Fxr3ModifierTable(properties) ==
    <<TableStart(ModifierHeaders)>>
    \o Each([n \in DOMAIN properties |-> <<FilledPos("PropertyModifiersOffset", properties[n].ix)>>
          \o Each([k \in DOMAIN properties[n].of.mods |-> write_modifier_header(properties[n].of.mods[k], Ix(properties[n].ix, k))])])
    \o TableEnd(ModifierHeaders, Len(Fxr3Spread(properties, "mods")))
Fxr3ConditionalTable(modifiers) ==
    <<TableStart(ConditionalHeaders)>>
    \o Each([n \in DOMAIN modifiers |-> <<FilledPos("ModifierConditionalPropertysOffset", modifiers[n].ix)>>
          \o Each([k \in DOMAIN modifiers[n].of.props |-> write_property_header(modifiers[n].of.props[k], Ix(modifiers[n].ix, k), TRUE)])])
    \o TableEnd(ConditionalHeaders, Len(Fxr3Spread(modifiers, "props")))
Fxr3ListTable(actions) ==
    <<TableStart(FieldLists)>>
    \o Each([n \in DOMAIN actions |-> <<FilledPos("ActionUnkFieldListsOffset", actions[n].ix)>>
          \o Each([k \in DOMAIN actions[n].of.lists |-> write_unk_field_list_header(actions[n].of.lists[k], Ix(actions[n].ix, k))])])
    \o TableEnd(FieldLists, Len(Fxr3Spread(actions, "lists")))

\* Fields with their offset, zero if there are none.
fxr3_write_fields(n, ix, fields) == IF fields = <<>> THEN <<Fill(n, ix, 0, "I32")>> ELSE <<FilledPos(n, ix)>> \o fields
\* ts, as, ps, ms, cs, ls: transitions, actions, properties, modifiers, conditional
\* properties and lists.
Fxr3FieldCount(ts, as, ps, ms, cs, ls) ==
    Total([n \in DOMAIN ts |-> Cardinality({s \in {"left", "right"} : operand_has_value(ts[n].of[s])})])
    + Total([n \in DOMAIN as |-> as[n].of.fields1 + as[n].of.fields2])
    + Total([n \in DOMAIN ps |-> ps[n].of.fields]) + Total([n \in DOMAIN ms |-> ms[n].of.fields])
    + Total([n \in DOMAIN cs |-> cs[n].of.fields]) + Total([n \in DOMAIN ls |-> ls[n].of])
Fxr3FieldTable(ts, as, ps, ms, cs, ls) ==
    <<TableStart(FieldValues)>>
    \o Each([n \in DOMAIN ts |-> Fxr3OperandsOut(ts[n].of, ts[n].ix)])
    \o Each([n \in DOMAIN as |-> fxr3_write_fields("ActionFieldsOffset", as[n].ix, Fxr3ActionFields(as[n].of, as[n].ix))])
    \o Each([n \in DOMAIN ps |-> fxr3_write_fields("PropertyFieldsOffset", ps[n].ix, Fxr3Fields("property", ps[n].ix, ps[n].of.fields))])
    \o Each([n \in DOMAIN ms |-> <<FilledPos("ModifierFieldsOffset", ms[n].ix)>> \o Fxr3Fields("modifier", ms[n].ix, ms[n].of.fields)])
    \o Each([n \in DOMAIN cs |-> fxr3_write_fields("ConditionalPropertyFieldsOffset", cs[n].ix, Fxr3Fields("property", cs[n].ix, cs[n].of.fields))])
    \o Each([n \in DOMAIN ls |-> <<FilledPos("UnkFieldListFieldsOffset", ls[n].ix)>> \o Fxr3Fields("list", ls[n].ix, ls[n].of)])
    \o TableEnd(FieldValues, Fxr3FieldCount(ts, as, ps, ms, cs, ls))

fxr3_write_structural(d) ==
    Fxr3HeaderOut(d) \o Fxr3StatesOut(d) \o Fxr3ContainersOut(d)
    \o Fxr3EffectTable(d, Fxr3Containers(d)) \o Fxr3ActionTable(d, Fxr3Containers(d))
    \o Fxr3PropertyTable(Fxr3Actions(d)) \o Fxr3ModifierTable(Fxr3Properties(d)) \o Fxr3ConditionalTable(Fxr3Modifiers(d))
    \o Fxr3ListTable(Fxr3Actions(d))
    \o Fxr3FieldTable(Fxr3Transitions(d), Fxr3Actions(d), Fxr3Properties(d), Fxr3Modifiers(d), Fxr3Conditionals(d), Fxr3Lists(d))
    \o When(d.version = FXR3_SEKIRO,
            Each([k \in 1 .. 3 |-> <<FilledPos("ArrayOffset", k)>> \o Fxr3Fields("array", k, Fxr3Arrays(d)[k]) \o <<Pad(16)>>])
            \o <<Fill("UnkEmptyOffset", 0, 0, "I32")>>)

read_i32_array(d, k) == GetSome("ArrayOffset", k, Fxr3Arrays(d)[k], Fxr3Fields("array", k, Fxr3Arrays(d)[k]))
sf_fxr3_read_from_memory(d) ==
    Fxr3Header(d, Fxr3TablesIn,
               Fxr3ArrayHeads(d, [k \in 1 .. 3 |-> Found("ArrayOffset", k)])
               \o <<Found("UnkEmptyOffset", 0), Const(0, 4)>> \o Each([k \in 1 .. 3 |-> read_i32_array(d, k)]))
    \o Get("Offset", StateMaps, read_state_map(d)) \o Get("Offset", Containers, read_container(d, 1))
-----------------------------------------------------------------------------
EffectWrites(d) == IF d.fmt = "FXR3" THEN fxr3_write_structural(d) ELSE CutsceneWrites(d)
EffectReads(d) == IF d.fmt = "FXR3" THEN sf_fxr3_read_from_memory(d) ELSE CutsceneReads(d)
=============================================================================
