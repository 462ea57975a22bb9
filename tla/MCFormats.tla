----------------------------- MODULE MCFormats ------------------------------
EXTENDS Definitions

Binder(fmt, format, be, bbe, unicode, ext, he, files) ==
    [fmt |-> fmt, format |-> format, be |-> be, bbe |-> bbe, unicode |-> unicode,
     ext |-> ext, headers_end |-> he, files |-> files]
File(size, compressed, csize, name, hash) ==
    [size |-> size, compressed |-> compressed, csize |-> csize, name |-> name, hash |-> hash]
NoFiles == <<>>
OneFile == <<File(5, FALSE, 5, 3, 9)>>
Three == <<File(20, TRUE, 7, 2, 5), File(0, FALSE, 0, 1, 8), File(3, FALSE, 3, 4, 5)>>

\* Every flag alone and together; with bit 7 and without bit order the byte
\* does not come back (see the README), so bit 7 goes with bbe.
Binders3 == {Binder(t, f, be, bbe, FALSE, 0, he, fs) :
                t \in {"BND3", "BXF3"}, f \in {0, 1, 46, 62, 65, 127}, be \in {FALSE}, bbe \in BOOLEAN,
                he \in BOOLEAN, fs \in {OneFile, Three}}
Binders4 == {Binder(t, f, be, bbe, bbe, x, FALSE, fs) :
                t \in {"BND4", "BXF4"}, f \in {4, 8, 46, 62}, be \in BOOLEAN, bbe \in BOOLEAN,
                x \in {0, 4}, fs \in {NoFiles, Three}}
           \cup {Binder("BND4", 254, TRUE, TRUE, TRUE, 4, FALSE, Three)}

Old(size, name) == [size |-> size, name |-> name]
Bnds == {[fmt |-> "BND", root |-> r, files |-> fs] :
            r \in {0, 5}, fs \in {<<>>, <<Old(5, 3), Old(0, 0), Old(7, 2)>>}}
Bnd2s == {[fmt |-> "BND2", names |-> n, mode |-> m, align |-> a, base |-> 6,
           files |-> <<[size |-> 5, name |-> 4, drive |-> TRUE], [size |-> 0, name |-> 1, drive |-> FALSE],
                       [size |-> 2, name |-> 3, drive |-> FALSE]>>] :
             n \in BOOLEAN, m \in {"nameless", "file", "full", "base"}, a \in {0, 64}}
Tpf(p, e) == [fmt |-> "TPF", platform |-> p, encoding |-> e, flag2 |-> 3,
              textures |-> <<[size |-> 9, compressed |-> TRUE, csize |-> 30, name |-> 3],
                             [size |-> 0, compressed |-> FALSE, csize |-> 0, name |-> 1],
                             [size |-> 6, compressed |-> FALSE, csize |-> 0, name |-> 2]>>]
Enfls == {[fmt |-> "ENFL", struct1s |-> n, struct2s |-> Len(ss), strings |-> ss] :
             n \in {0, 3}, ss \in {<<>>, <<1, 4>>}}
Entry(sha, aes) == [sha |-> sha, aes |-> aes]
Bhd5s == {[fmt |-> "BHD5", game |-> g, be |-> FALSE, salt |-> s, buckets |-> <<1, 0, 2>>,
           files |-> <<Entry(2, 0), Entry(-1, 1), Entry(0, -1)>>] : g \in {"SEKIRO", "ELDENRING"}, s \in {0, 5}}

Text(id, text, len) == [id |-> id, text |-> text, len |-> len]
Fmgs == {[fmt |-> "FMG", version |-> v, be |-> be, unicode |-> u, reuse_offsets |-> r, entries |-> es] :
            v \in {"DEMONS_SOULS", "DARK_SOULS_1", "DARK_SOULS_3"}, be \in BOOLEAN, u \in BOOLEAN, r \in BOOLEAN,
            es \in {<<>>, <<Text(7, 1, 3), Text(3, 2, 1), Text(4, 0, 0), Text(5, 1, 3), Text(5, 2, 1), Text(9, 0, 0)>>}}

\* INT_DATA_OFFSET goes with FLAG01 (see the README).
Row(size, name, len) == [size |-> size, name |-> name, len |-> len]
Params == {[fmt |-> "PARAM", format2d |-> f, be |-> be, unicode |-> be, type |-> 4, rows |-> rs] :
              f \in {0, 1, 3, 4, 5, 7, 128, 131, 132, 135}, be \in BOOLEAN,
              rs \in {<<>>, <<Row(6, 1, 3)>>, <<Row(6, 1, 3), Row(6, 0, 1), Row(0, 1, 3), Row(6, 2, 2)>>}}

Instr(args, layer) == [args |-> args, layer |-> layer]
Emevds == {[fmt |-> "EMEVD", format |-> f, events |-> es, linked |-> Len(es), strings |-> 3 * Len(es)] :
              f \in {"DARK_SOULS_1", "DARK_SOULS_1_BE", "BLOODBORNE", "DARK_SOULS_3", "SEKIRO"},
              es \in {<<>>, <<[instrs |-> <<Instr(5, 0), Instr(0, 3), Instr(4, 0)>>, params |-> 0],
                              [instrs |-> <<>>, params |-> 1],
                              [instrs |-> <<Instr(2, 7), Instr(0, 3)>>, params |-> 2]>>}}

State(conds, entry, exit, while) == [conds |-> conds, entry |-> entry, exit |-> exit, while |-> while]
Cond(target, subs, pass, eval) == [target |-> target, subs |-> subs, pass |-> pass, eval |-> eval]
Esds == {[fmt |-> "ESD", long |-> l, version |-> v, name |-> nm, groups |-> gs] :
            l \in BOOLEAN, v \in 1 .. 3, nm \in {0, 4},
            gs \in {<<>>,
                    <<[states |-> <<State(<<2, 1>>, <<<<3, 0>>>>, <<>>, <<<<>>, <<1>>>>), State(<<>>, <<>>, <<<<2>>>>, <<>>)>>,
                       conds |-> <<Cond(2, <<>>, <<<<>>>>, 5), Cond(0, <<3, 4>>, <<>>, 0), Cond(1, <<>>, <<>>, 1),
                                   Cond(2, <<5>>, <<<<4>>>>, 2), Cond(0, <<>>, <<>>, 3)>>],
                      [states |-> <<>>, conds |-> <<>>],
                      [states |-> <<State(<<1>>, <<>>, <<>>, <<>>)>>, conds |-> <<Cond(1, <<>>, <<>>, 7)>>]>>}}

Pmdcls == {[fmt |-> "PMDCL", decals |-> n] : n \in {0, 1, 3}}
Btabs == {[fmt |-> "BTAB", long |-> l, entries |-> es] :
             l \in BOOLEAN, es \in {<<>>, <<[part |-> 1, material |-> 4], [part |-> 5, material |-> 2]>>}}
\* From version 16 on, lights with short offsets do not come back (see the README).
Btls == {[fmt |-> "BTL", version |-> v, long |-> l, names |-> ns] :
            v \in {1, 2, 5, 6}, l \in BOOLEAN, ns \in {<<>>, <<3, 1, 8>>}}
        \cup {[fmt |-> "BTL", version |-> v, long |-> TRUE, names |-> <<2, 9>>] : v \in {16, 18}}
Param(key, name, fields, comments) == [key |-> key, name |-> name, fields |-> fields, comments |-> comments]
Field(type, values) == [type |-> type, values |-> values, key |-> (type % 3) + 1, name |-> 2]
Gparams == {[fmt |-> "GPARAM", version |-> v, params |-> <<>>, data30 |-> 0, extras |-> <<>>] : v \in {3, 5, 6}}
           \cup {[fmt |-> "GPARAM", version |-> v, data30 |-> n, extras |-> <<2, 0, 1>>,
                  params |-> <<Param(3, 2, [t \in 1 .. 8 |-> Field(t, t % 3)], <<2, 1>>), Param(1, 1, <<>>, <<>>),
                               Param(2, 5, [t \in 1 .. 8 |-> Field(17 - t, t % 3)], <<5>>)>>] :
                    v \in {3, 5, 6}, n \in {0, 8}}

Map(game, models, events, regions, parts, routes, layers) ==
    [fmt |-> "MSB", game |-> game, models |-> models, events |-> events, regions |-> regions, parts |-> parts,
     routes |-> routes, layers |-> layers]
Item(kind, type, shape, name, path) == [kind |-> kind, type |-> type, shape |-> shape, name |-> name, path |-> path]
LegacyGames == {"msb1", "msbb", "msbd", "msbdr", "msb2", "msb3", "msbac4", "msbfa", "msbv", "msbvd", "msbn"}
EmptyMap(game) == Map(game, <<>>, <<>>, <<>>, <<>>, <<>>, <<>>)
LegacyMap(game) ==
    Map(game, <<Item("MAP_PIECE", 0, 0, 3, 1), Item("OBJECT", 0, 0, 1, 6)>>,
        <<Item("", 0, 0, 5, 1), Item("", 12, 0, 4, 1)>>, [s \in 1 .. 6 |-> Item("", 0, s - 1, s, 1)],
        <<Item("", 0, 0, 2, 3), Item("", 4, 0, 12, 13)>>, <<>>, <<>>)
\* Entries of the given types, with names and paths of different lengths.
Items(types) == [k \in DOMAIN types |-> Item("", types[k], k % 7, 1 + (k % 4), k % 3)]
Sekiro(events, regions, parts) ==
    Map("msbs", <<Item("MAP_PIECE", 0, 0, 3, 1), Item("OBJECT", 0, 0, 1, 6)>>, Items(events), Items(regions), Items(parts),
        Items(<<3, 4>>), <<>>)
Maps3 == {Sekiro(<<4, 5, 7, 9, 14, 22, -1>>, <<>>, <<0, 1, 2, 4>>), Sekiro(<<15, 17, 18, 20, 21, 23, 24>>, <<>>, <<5, 9, 10, 11>>),
          Sekiro(<<>>, <<0, 1, 2, 4, 5, 6, 8, 11, 13, 14>>, <<>>), Sekiro(<<>>, <<15, 17, 18, 20, 21, 23, 24, 25, 26, -1>>, <<>>),
          Map("msbe", Items(<<0, 2>>), Items(<<12, 4, -1>>), Items(<<1, 18, 26, 27, 31, -1>>), Items(<<0, 13>>), Items(<<3, -1>>), <<>>),
          Map("msbvi", Items(<<0, 10>>), Items(<<4, -1>>), Items(<<1, 56, -1>>), <<>>, Items(<<1, 2>>), Items(<<1, 2>>))}
AllMaps == {EmptyMap(g) : g \in LegacyGames \cup {"msbs", "msbe", "msbvi"}} \cup {LegacyMap(g) : g \in LegacyGames} \cup Maps3

Event(start, end, type, size) == [start |-> start, end |-> end, type |-> type, size |-> size]
Anim(id, null, type, name, events, groups) ==
    [id |-> id, null |-> null, type |-> type, name |-> name, events |-> events, groups |-> groups]
Taes == {[fmt |-> "TAE", format |-> f, skeleton |-> 0, sib |-> 0, anims |-> <<>>] : f \in {"DES", "DS1", "SOTFS", "DS3", "SDT", "DESR"}}
        \cup {[fmt |-> "TAE", format |-> f, skeleton |-> IF f \in {"SOTFS", "DESR"} THEN 0 ELSE 3, sib |-> IF f \in {"SOTFS", "DESR"} THEN 0 ELSE 5,
               anims |-> <<Anim(3, FALSE, 0, 6, <<Event(2, 100, 1, 5), Event(0, 2, 943, 8), Event(2, 3, 0, 0)>>, <<<<3, 1>>, <<>>>>),
                           Anim(4, FALSE, 1, 1, <<Event(1, 2, 4, 3)>>, <<>>), Anim(8, TRUE, 1, 0, <<>>, <<>>),
                           Anim(9, FALSE, 1, 3, <<>>, <<<<>>>>), Anim(20, FALSE, 0, 1, <<Event(5, 5, 943, 6)>>, <<>>)>>] :
                 f \in {"DES", "DS1", "SOTFS", "DS3", "SDT", "DESR"}}
MPar(type, members, size, seqs) == [type |-> type, members |-> members, size |-> size, seqs |-> seqs]
MSeq(type, pt, n, index) == [type |-> type, point_type |-> pt, points |-> n, index |-> index]
Mqbs == {[fmt |-> "MQB", version |-> v, be |-> be, directory |-> 1, resources |-> <<>>, cuts |-> <<>>] : v \in {148, 202, 203, 204}, be \in {FALSE}}
        \cup {[fmt |-> "MQB", version |-> v, be |-> be, directory |-> 4,
               resources |-> <<[path |-> 3, params |-> <<MPar(1, 1, 0, <<>>), MPar(4, 1, 0, <<MSeq(7, 0, 0, 0)>>), MPar(18, 3, 0, <<MSeq(8, 1, 2, 4), MSeq(8, 2, 1, 8)>>)>>],
                               [path |-> 0, params |-> <<>>]>>,
               cuts |-> <<<<[events |-> <<[params |-> <<MPar(10, 1, 6, <<>>), MPar(11, 1, 8, <<>>)>>, transforms |-> 1], [params |-> <<>>, transforms |-> 0]>>,
                             params |-> <<MPar(13, 3, 0, <<MSeq(3, 0, 2, 1)>>)>>],
                            [events |-> <<[params |-> <<MPar(17, 4, 0, <<>>)>>, transforms |-> 2]>>, params |-> <<>>]>>,
                          <<>>, <<[events |-> <<>>, params |-> <<MPar(3, 1, 0, <<MSeq(3, 2, 1, 0)>>), MPar(6, 1, 0, <<>>)>>]>>>>] : <<v, be>> \in {<<148, FALSE>>, <<202, TRUE>>, <<202, FALSE>>, <<203, FALSE>>, <<204, TRUE>>}}
Rule(op, left, right) == [op |-> op, left |-> left, right |-> right]
Deed(f1, f2, lists, props, first) == [fields1 |-> f1, fields2 |-> f2, lists |-> lists, props |-> props, first |-> first]
Curve(type, interp, loop, fields, mods) == [type |-> type, interp |-> interp, loop |-> loop, fields |-> fields, mods |-> mods]
Fxr3(version, states, containers, n) ==
    [fmt |-> "FXR3", version |-> version, states |-> states, containers |-> containers, references |-> n, externals |-> n + 1, enablers |-> 0]
Node(children, effects, actions) == [children |-> children, effects |-> effects, actions |-> actions]
Fxr3s == {Fxr3(v, <<>>, <<Node(<<>>, <<>>, <<>>)>>, 0) : v \in {4, 5}}
         \cup {Fxr3(5, [l \in 1 .. 4 |-> [r \in 1 .. 4 |-> Rule(op, -l, -r)]], <<Node(<<>>, <<>>, <<>>)>>, 1) : op \in 0 .. 5}
         \cup {Fxr3(4, << <<Rule(2, -1, -4), Rule(5, -3, -4)>>, <<>>, <<Rule(1, -2, -1)>> >>,
                    <<Node(<<2, 3>>, <<>>, <<Deed(0, 1, <<2, 0>>, <<>>, 0)>>), Node(<<4>>, << <<>>, <<Deed(0, 0, <<>>, <<>>, 0)>> >>, <<>>),
                      Node(<<>>, << <<Deed(1, 2, <<1>>,
                                        <<Curve(3, 7, TRUE, 2, <<[fields |-> 1, props |-> <<Curve(0, 2, FALSE, 0, <<>>), Curve(1, 4, TRUE, 1, <<>>)>>],
                                                                 [fields |-> 0, props |-> <<>>]>>),
                                          Curve(0, 0, FALSE, 0, <<>>)>>, 1)>> >>, <<Deed(0, 0, <<>>, <<>>, 0)>>),
                      Node(<<>>, <<>>, <<Deed(2, 0, <<>>, <<Curve(2, 5, FALSE, 1, <<>>)>>, 1)>>)>>, 2)}

\* Sections come back if what they are padded to is a multiple of their entries (see the README).
Box(triangles, children) == [triangles |-> triangles, children |-> children]
NoChild == <<0, 0, 0, 0>>
Nvm(be, vertices, triangles, boxes, entities) ==
    [fmt |-> "NVM", be |-> be, vertices |-> vertices, triangles |-> triangles, boxes |-> boxes, entities |-> entities]
Nvms == {Nvm(be, 0, <<>>, <<Box(n, NoChild)>>, <<>>) : be \in BOOLEAN, n \in {0, 2}}
        \cup {Nvm(be, 3, <<[obstacles |-> 0, flags |-> 65535], [obstacles |-> 16383, flags |-> 0], [obstacles |-> 5, flags |-> 32767]>>,
                  <<Box(a, <<2, 0, 3, 0>>), Box(b, <<0, 4, 0, 5>>), Box(1, NoChild), Box(c, NoChild), Box(3, NoChild)>>, <<2, 0, 1>>) :
                be \in BOOLEAN, a \in {0, 4}, b \in {0, 2}, c \in {1}}
Link(a, b) == [a |-> a, b |-> b]
Spot(n) == [nodes |-> n, edges |-> n]
Mcgs == {[fmt |-> "MCG", be |-> be, edges |-> es, nodes |-> ns] :
            be \in BOOLEAN, es \in {<<>>, <<Link(0, 2), Link(1, 0), Link(0, 0)>>}, ns \in {<<>>, <<Spot(0), Spot(2), Spot(1)>>}}
Mcps == {[fmt |-> "MCP", be |-> be, rooms |-> rs] : be \in BOOLEAN, rs \in {<<>>, <<0>>, <<2, 0, 1>>}}
Sections(n, s3) == [k \in 1 .. n |-> CASE k = 1 -> [size |-> 64, count |-> 2] [] k = 3 -> s3 [] k = 4 -> [size |-> 0, count |-> 0]
                                   [] k = 5 -> [size |-> 32, count |-> 1] [] OTHER -> [size |-> 16, count |-> 0]]
Nvas == {[fmt |-> "NVA", version |-> v, sections |-> Sections(IF v = 3 THEN 8 ELSE 9, s)] :
            v \in {3, 4, 5}, s \in {[size |-> 8, count |-> 4], [size |-> 36, count |-> 4]}}
EdgeFiles == {[fmt |-> "EDGE", edges |-> n] : n \in {0, 2}}

MtdP(type, name) == [type |-> type, name |-> name]
MtdT(type, ext, path, floats) == [type |-> type, extended |-> ext, path |-> path, floats |-> floats]
Mtds == {[fmt |-> "MTD", shader |-> s, description |-> 3, params |-> <<>>, textures |-> <<>>] : s \in {0, 4}}
        \cup {[fmt |-> "MTD", shader |-> 5, description |-> 0,
               params |-> <<MtdP("bool", n), MtdP("int", 0), MtdP("int2", 3), MtdP("float", 4), MtdP("float2", 1), MtdP("float3", 2), MtdP("float4", 8)>>,
               textures |-> <<MtdT(n, TRUE, 0, 2), MtdT(3, FALSE, 0, 0), MtdT(2, TRUE, 5, 0)>>] : n \in {1, 4}}
MbP(type, name) == [type |-> type, name |-> name]
Matbins == {[fmt |-> "MATBIN", shader |-> 1, source |-> 3, params |-> <<>>, samplers |-> ss] : ss \in {<<>>, <<[type |-> 2, path |-> 1]>>}}
           \cup {[fmt |-> "MATBIN", shader |-> 4, source |-> 1,
                  params |-> <<MbP("bool", 1), MbP("float3", 2), MbP("int", 3), MbP("int2", 1), MbP("float", 2), MbP("float2", 5), MbP("float4", 1), MbP("float5", 2)>>,
                  samplers |-> <<[type |-> 2, path |-> 1], [type |-> 1, path |-> 4]>>]}

DefF(type, array, bits, display, desc, itype, iname) ==
    [type |-> type, array |-> array, bits |-> bits, display |-> display, desc |-> desc, itype |-> itype, iname |-> iname]
Paramdefs == {[fmt |-> "PARAMDEF", version |-> v, unicode |-> u, type |-> 3, fields |-> fs] : v \in {104, 106, 201, 202, 203}, u \in BOOLEAN,
              fs \in {<<>>, <<DefF("u8", 1, 3, 2, 0, 3, 4), DefF("u8", 3, -1, 4, 5, 3, 6), DefF("s64", 1, -1, 1, 1, 4, 2),
                              DefF("fixstrW", 4, -1, 2, 2, 1, 5), DefF("f32", 1, -1, 1, 0, 4, 4), DefF("dummy8", 2, 4, 3, 3, 2, 4)>>}}
Cl(type, array, bits, removed, value) == [type |-> type, array |-> array, bits |-> bits, removed |-> removed, value |-> value]
Bf(type, bits, value) == Cl(type, 1, bits, FALSE, value)
\* Bit fields that fill a byte exactly, leave room in it, or go over its end.
BitRows == {<<Bf("u8", b1, 1), Bf(t2, b2, 1), Bf(t3, b3, 1)>> : t2, t3 \in {"dummy8", "u16"}, b1, b2, b3 \in {3, 5, 8}}
Rows == {[fmt |-> "ROW", be |-> FALSE, aware |-> FALSE, fields |-> fs] : fs \in BitRows}
        \cup {[fmt |-> "ROW", be |-> be, aware |-> aware,
            fields |-> <<Bf("s8", 3, -4), Cl("s8", 1, 4, TRUE, 7), Bf("u8", 4, 15), Bf("s8", 2, 1), Bf("s16", 5, -1), Bf("u16", 11, 1025), Bf("u16", 1, 1),
                         Cl("fixstr", 6, -1, FALSE, n), Bf("s32", 20, -7), Bf("u32", 9, 300), Cl("u8", 1, -1, FALSE, 0), Cl("dummy8", 3, -1, FALSE, 0),
                         Cl("u8", 2, -1, TRUE, 0), Bf("dummy8", 7, 0), Bf("u8", 1, 1), Cl("f64", 1, -1, FALSE, 0)>>] :
            be \in BOOLEAN, aware \in BOOLEAN, n \in {1, 6, 8}}

AllDocs == Binders3 \cup Binders4 \cup Bnds \cup Bnd2s \cup {Tpf("PC", e) : e \in {0, 1}} \cup Enfls \cup Bhd5s
          \cup Fmgs \cup Params \cup Emevds \cup Esds \cup Pmdcls \cup Btabs \cup Btls \cup Gparams \cup AllMaps
          \cup Taes \cup Mqbs \cup Fxr3s \cup Nvms \cup Mcgs \cup Mcps \cup Nvas \cup EdgeFiles \cup Mtds \cup Matbins \cup Paramdefs \cup Rows

\* Tables that TLC computes once; the LETs keep it from counting the costs of
\* every operator behind them at every place where they are used.
MCDocs == LET docs == AllDocs IN docs
WritesOf == [d \in MCDocs |-> DefinitionWrites(d)]
ReadsOf == [d \in MCDocs |-> DefinitionReads(d)]
MCWrites == LET writes == WritesOf IN writes
MCReads == LET reads == ReadsOf IN reads

ConsoleDocs == {Tpf(p, 1) : p \in {"XBOX360", "PS3", "PS4"}}
ConsoleWritesOf == [d \in ConsoleDocs |-> tpf_write_to_writer(d)]
ConsoleReadsOf == [d \in ConsoleDocs |-> tpf_populate(d)]
ConsoleWrites == LET writes == ConsoleWritesOf IN writes
ConsoleReads == LET reads == ConsoleReadsOf IN reads

MinimalDocs == {Map("msbvi", Items(<<0>>), Items(<<4>>), Items(<<1>>), Items(<<0>>), <<>>, <<>>)}
MinimalWritesOf == [d \in MinimalDocs |-> sf_msbvi_write_to_memory(d)]
MinimalReadsOf == [d \in MinimalDocs |-> sf_msbvi_read_from_memory(d)]
MinimalWrites == LET writes == MinimalWritesOf IN writes
MinimalReads == LET reads == MinimalReadsOf IN reads
=============================================================================
