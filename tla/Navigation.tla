----------------------------- MODULE Navigation -----------------------------
(***************************************************************************)
(* Navigation: meshes with a tree of boxes over their triangles (NVM), the *)
(* graph of a map and its rooms (MCG, MCP), the sections of the later      *)
(* games (NVA), ladders and edges (EDGE).  Documents:                      *)
(*   NVM   [be, vertices, triangles, boxes, entities]                      *)
(*         boxes are [triangles, children], the first is the root, a child *)
(*         is the index of a box or 0; a triangle is [obstacles, flags];   *)
(*         entities and boxes have so many triangles                       *)
(*   MCG   [be, edges, nodes]  with [a, b] and [nodes, edges] counts       *)
(*   MCP   [be, rooms]         the number of rooms next to each            *)
(*   NVA   [version, sections] with [size, count] of the entries           *)
(*   EDGE  [edges]                                                         *)
(***************************************************************************)
EXTENDS Effects

\* The first number of a file tells the byte order of the rest.
OrderMark(v, be) == <<Raw(IF be THEN "big" ELSE "little", 0, v, 4), Endian(be)>>

\* An array of indices is written before what refers to it, and its position
\* is kept meanwhile.
Indices(n, ix, count) == <<Num(n, ix, count, 4 * count)>>
IndicesOut(n, ix, count) == <<Mark(n, ix)>> \o Indices(n, ix, count)
IndicesAt(n, ix, side) == Ref("offset", Ix(ix, side), <<n, ix>>, 0, 4)
SomeIndicesAt(n, ix, side, count) == IF count = 0 THEN Num("offset", Ix(ix, side), 0, 4) ELSE IndicesAt(n, ix, side)
IndicesFound(ix, side) == Found("offset", Ix(ix, side))
IndicesIn(n, ix, side, count) == GetSome("offset", Ix(ix, side), count, Indices(n, ix, count))
-----------------------------------------------------------------------------
(***************************************************************************)
(* NVM.  The triangles of all the boxes come before the boxes, both in the *)
(* order of a walk through the tree; a queue takes the positions from the  *)
(* first walk to the second.                                               *)
(***************************************************************************)
NvmPacked(t) == 4 * (t.obstacles % 16384) + 65536 * (IF t.flags >= 32768 THEN t.flags - 65536 ELSE t.flags)
NvmTriangle(t, k) ==
    Fs(k, 4, <<"vertex_index_1", "vertex_index_2", "vertex_index_3", "edge_index_1", "edge_index_2", "edge_index_3">>)
    \o <<Num("packed", k, NvmPacked(t), 4)>>
read_triangle(t, k) ==
    LET packed == NvmPacked(t)
    IN  NvmTriangle(t, k)
        \o <<Require(packed % 4 = 0 /\ (packed \div 4) % 16384 = t.obstacles /\ (packed \div 65536) % 65536 = t.flags)>>

RECURSIVE NvmWalk(_, _)
NvmWalk(d, b) == Each([c \in 1 .. 4 |-> IF d.boxes[b].children[c] = 0 THEN <<>> ELSE NvmWalk(d, d.boxes[b].children[c])]) \o <<b>>

write_box_triangle_indices(d, q) ==
    Each([k \in DOMAIN q |-> When(d.boxes[q[k]].triangles > 0,
              <<Mark("queued", k)>> \o Indices("box_triangles", q[k], d.boxes[q[k]].triangles))])
\* What the k-th box takes from the queue q is what was put there as the k-th.
queue_pop(d, q, k, b) ==
    IF d.boxes[q[k]].triangles = 0 THEN Num("triangle_offset", b, 0, 4) ELSE Ref("triangle_offset", b, <<"queued", k>>, 0, 4)
NvmBox(d, b, triangles, children) ==
    <<FI("min_corner", b, 12), Num("triangle_count", b, d.boxes[b].triangles, 4), FI("max_corner", b, 12), triangles>>
    \o children \o Repeated(4, <<Const(0, 4)>>)
write_box(d, b, triangles) ==
    <<Mark("box", b)>>
    \o NvmBox(d, b, triangles, [c \in 1 .. 4 |-> IF d.boxes[b].children[c] = 0 THEN Num("child", Ix(b, c), 0, 4)
                                                  ELSE Ref("child", Ix(b, c), <<"box", d.boxes[b].children[c]>>, 0, 4)])
NvmBoxesOut(d, q) == write_box_triangle_indices(d, q) \o Each([k \in DOMAIN q |-> write_box(d, q[k], queue_pop(d, q, k, q[k]))])

RECURSIVE nvm_read_box(_, _)
read_box_at(d, b, c, read) ==
    IF d.boxes[b].children[c] = 0 THEN <<Absent("child", Ix(b, c))>>
    ELSE <<Given("child", Ix(b, c))>> \o Get("child", Ix(b, c), read)
nvm_read_box(d, b) ==
    NvmBox(d, b, Offset("triangle_offset", b, 4), [c \in 1 .. 4 |-> Offset("child", Ix(b, c), 4)])
    \o GetSome("triangle_offset", b, d.boxes[b].triangles, Indices("box_triangles", b, d.boxes[b].triangles))
    \o Each([c \in 1 .. 4 |-> read_box_at(d, b, c, IF d.boxes[b].children[c] = 0 THEN <<>> ELSE nvm_read_box(d, d.boxes[b].children[c]))])

NvmEntity(d, e, at) == <<FI("entity_id", e, 4), at, Num("index_count", e, d.entities[e], 4), Const(0, 4)>>
nvm_read_entity(d, e) ==
    NvmEntity(d, e, IndicesFound(e, 0)) \o IndicesIn("entity_triangles", e, 0, d.entities[e])

NvmHeader(d, vertices, triangles, root, entities) ==
    <<V("vertex_count", d.vertices, 4), vertices, V("triangle_count", Len(d.triangles), 4), triangles, root, Const(0, 4),
      V("entity_count", Len(d.entities), 4), entities>> \o Repeated(23, <<Const(0, 4)>>)
NvmVertices(d) == [k \in 1 .. d.vertices |-> FI("vertex", k, 12)]
sf_nvm_write_to_memory(d) ==
    <<Base(0)>> \o OrderMark(1, d.be)
    \o NvmHeader(d, Reserved("VertexOffset", 0), Reserved("TriangleOffset", 0), Reserved("RootBoxOffset", 0), Reserved("EntityOffset", 0))
    \o <<FilledPos("VertexOffset", 0)>> \o NvmVertices(d)
    \o <<FilledPos("TriangleOffset", 0)>> \o Each([k \in DOMAIN d.triangles |-> NvmTriangle(d.triangles[k], k)])
    \o NvmBoxesOut(d, NvmWalk(d, 1)) \o <<FillSpan("RootBoxOffset", 0, <<"box", 1>>, 0, "I32")>>
    \o Each([e \in DOMAIN d.entities |-> IndicesOut("entity_triangles", e, d.entities[e])])
    \o <<FilledPos("EntityOffset", 0)>>
    \o Each([e \in DOMAIN d.entities |-> NvmEntity(d, e, IndicesAt("entity_triangles", e, 0))])
sf_nvm_read_from_memory(d) ==
    OrderMark(1, d.be)
    \o NvmHeader(d, V("VertexOffset", 128, 4), V("TriangleOffset", 128 + 12 * d.vertices, 4), Found("RootBoxOffset", 0), Found("EntityOffset", 0))
    \o NvmVertices(d) \o Each([k \in DOMAIN d.triangles |-> read_triangle(d.triangles[k], k)])
    \o Get("RootBoxOffset", 0, nvm_read_box(d, 1))
    \o Get("EntityOffset", 0, Each([e \in DOMAIN d.entities |-> nvm_read_entity(d, e)]))
-----------------------------------------------------------------------------
(***************************************************************************)
(* MCG and MCP.  The writer counts the neighbours of a node and the reader *)
(* takes this for the number of its edges too: they must be as many.       *)
(***************************************************************************)
McgEdge(e, k, a, b) ==
    <<FI("node_index_a", k, 4), Num("count_a", k, e.a, 4), a, FI("node_index_b", k, 4), Num("count_b", k, e.b, 4), b,
      FI("mcp_room_index", k, 4), FI("map_id", k, 4), FI("unk20", k, 4)>>
McgNode(n, k, nodes, edges) ==
    <<Num("connection_count", k, n.nodes, 4), FI("position", k, 12), nodes, edges, FI("unk18", k, 4), FI("unk1c", k, 4)>>
McgHeader(d, nodes, edges) ==
    <<F("unk04", 4), V("node_count", Len(d.nodes), 4), nodes, V("edge_count", Len(d.edges), 4), edges, F("unk18", 4), F("unk1c", 4)>>

sf_mcg_write_to_memory(d) ==
    <<Base(0)>> \o OrderMark(1, d.be) \o McgHeader(d, Reserved("NodesOffset", 0), Reserved("EdgesOffset", 0))
    \o Each([k \in DOMAIN d.edges |-> IndicesOut("edge_a", k, d.edges[k].a) \o IndicesOut("edge_b", k, d.edges[k].b)])
    \o Each([k \in DOMAIN d.nodes |-> IndicesOut("node_nodes", k, d.nodes[k].nodes) \o IndicesOut("node_edges", k, d.nodes[k].edges)])
    \o <<FilledPos("EdgesOffset", 0)>>
    \o Each([k \in DOMAIN d.edges |-> McgEdge(d.edges[k], k, IndicesAt("edge_a", k, 1), IndicesAt("edge_b", k, 2))])
    \o <<FilledPos("NodesOffset", 0)>>
    \o Each([k \in DOMAIN d.nodes |-> McgNode(d.nodes[k], k, SomeIndicesAt("node_nodes", k, 3, d.nodes[k].nodes),
                                              SomeIndicesAt("node_edges", k, 4, d.nodes[k].edges))])
mcg_read_node(n, k) ==
    McgNode(n, k, IndicesFound(k, 3), IndicesFound(k, 4))
    \o IndicesIn("node_nodes", k, 3, n.nodes) \o IndicesIn("node_edges", k, 4, n.nodes)
mcg_read_edge(e, k) ==
    McgEdge(e, k, IndicesFound(k, 1), IndicesFound(k, 2)) \o IndicesIn("edge_a", k, 1, e.a) \o IndicesIn("edge_b", k, 2, e.b)
sf_mcg_read_from_memory(d) ==
    <<Endian(TRUE)>> \o OrderMark(1, d.be) \o McgHeader(d, Found("NodesOffset", 0), Found("EdgesOffset", 0))
    \o Get("NodesOffset", 0, Each([k \in DOMAIN d.nodes |-> mcg_read_node(d.nodes[k], k)]))
    \o Get("EdgesOffset", 0, Each([k \in DOMAIN d.edges |-> mcg_read_edge(d.edges[k], k)]))

McpRoom(count, k, at) ==
    <<FI("map_id", k, 4), FI("local_index", k, 4), Num("index_count", k, count, 4), at, FI("bbox_min", k, 12), FI("bbox_max", k, 12)>>
McpHeader(d, rooms) == OrderMark(2, d.be) \o <<F("unk04", 4), V("room_count", Len(d.rooms), 4), rooms>>
mcp_read_room(count, k) == McpRoom(count, k, IndicesFound(k, 0)) \o IndicesIn("connected", k, 0, count)
sf_mcp_write_to_memory(d) ==
    <<Base(0)>> \o McpHeader(d, Reserved("RoomsOffset", 0)) \o Each([k \in DOMAIN d.rooms |-> IndicesOut("connected", k, d.rooms[k])])
    \o <<FilledPos("RoomsOffset", 0)>> \o Each([k \in DOMAIN d.rooms |-> McpRoom(d.rooms[k], k, IndicesAt("connected", k, 0))])
sf_mcp_read_from_memory(d) ==
    <<Endian(TRUE)>> \o McpHeader(d, Found("RoomsOffset", 0)) \o Get("RoomsOffset", 0, Each([k \in DOMAIN d.rooms |-> mcp_read_room(d.rooms[k], k)]))
-----------------------------------------------------------------------------
(***************************************************************************)
(* NVA.  A section's length includes the bytes it is padded with, and the  *)
(* reader divides it by the number of entries to know their size.          *)
(***************************************************************************)
OLD_BLOODBORNE == 3
NvaSectionCount(d) == IF d.version = OLD_BLOODBORNE THEN 8 ELSE 9
NvaPayload(s) == s.size * s.count
NvaPadded(s) == NvaPayload(s) + PadWidth(NvaPayload(s), 16)
NvaSection(s, k, length) == <<Num("index", k, k - 1, 4), FI("section_version", k, 4), length, Num("entry_count", k, s.count, 4)>>
NvaSectionOut(s, k) ==
    <<Base(k)>> \o NvaSection(s, k, Reserve("NvaSecLen", k, "I32"))
    \o <<Raw("entries", k, s.size, NvaPayload(s)), Raw("FF", 0, 0, PadWidth(NvaPayload(s), 16)), FillFrom("NvaSecLen", k, k, "I32")>>
NvaEntriesIn(s, k) == LET size == NvaPadded(s) \div s.count IN Raw("entries", k, size, size * s.count)
NvaSectionIn(s, k) ==
    <<Mark("section", k)>> \o NvaSection(s, k, Offset("NvaSecLen", k, 4))
    \o When(s.count > 0 /\ NvaPadded(s) > 0, <<NvaEntriesIn(s, k)>>) \o <<GotoFrom("NvaSecLen", k, <<"section", k>>)>>
NvaHeader(d, size) == <<Magic("NVMA", 4), V("version", d.version, 4), size, V("section_count", NvaSectionCount(d), 4)>>
sf_nva_write_to_memory(d) ==
    NvaHeader(d, Reserve("FileSize", 0, "U32")) \o Each([k \in DOMAIN d.sections |-> NvaSectionOut(d.sections[k], k)])
    \o <<FillPos("FileSize", 0, "U32")>>
sf_nva_read_from_memory(d) ==
    NvaHeader(d, Offset("FileSize", 0, 4)) \o Each([k \in 1 .. NvaSectionCount(d) |-> NvaSectionIn(d.sections[k], k)])

edge_write_one(k) ==
    <<FI("v1", k, 12), V("1.0f", 1, 4), FI("v2", k, 12), V("1.0f", 1, 4), FI("v3", k, 12), FI("unk2c", k, 4), FI("unk30", k, 4),
      FI("edge_type", k, 1), FI("variation_id", k, 1), FI("unk36", k, 1), Zeros(1), Const(0, 4), Const(0, 4)>>
edge_read_one(k) == edge_write_one(k)     \* what is constant is asserted
EdgeHeader(d) == <<Const(4, 4), V("edge_count", d.edges, 4), F("id", 4), Const(0, 4)>>
sf_edge_write_to_memory(d) == EdgeHeader(d) \o Each([k \in 1 .. d.edges |-> edge_write_one(k)])
sf_edge_read_from_memory(d) == EdgeHeader(d) \o Each([k \in 1 .. d.edges |-> edge_read_one(k)])
-----------------------------------------------------------------------------
NavigationWrites(d) ==
    CASE d.fmt = "NVM"  -> sf_nvm_write_to_memory(d)
      [] d.fmt = "MCG"  -> sf_mcg_write_to_memory(d)
      [] d.fmt = "MCP"  -> sf_mcp_write_to_memory(d)
      [] d.fmt = "NVA"  -> sf_nva_write_to_memory(d)
      [] d.fmt = "EDGE" -> sf_edge_write_to_memory(d)
      [] OTHER          -> EffectWrites(d)
NavigationReads(d) ==
    CASE d.fmt = "NVM"  -> sf_nvm_read_from_memory(d)
      [] d.fmt = "MCG"  -> sf_mcg_read_from_memory(d)
      [] d.fmt = "MCP"  -> sf_mcp_read_from_memory(d)
      [] d.fmt = "NVA"  -> sf_nva_read_from_memory(d)
      [] d.fmt = "EDGE" -> sf_edge_read_from_memory(d)
      [] OTHER          -> EffectReads(d)
=============================================================================
