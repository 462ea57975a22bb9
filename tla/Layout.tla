------------------------------- MODULE Layout -------------------------------
(***************************************************************************)
(* How a format is written and read back.  Every format of the library     *)
(* writes its file in passes: fields in order, placeholders for what is    *)
(* not known yet (offsets, sizes), and later passes that fill them.  The   *)
(* reader goes through the same file by the offsets it finds.              *)
(*                                                                         *)
(* A format is given by what its two functions do for a document d: the    *)
(* sequence of operations Writes[d] of its writer and Reads[d] of its      *)
(* reader.  This module runs the first on an empty file and the second on  *)
(* the result.  Reads[d] is the path the reader takes if every value is    *)
(* what d says; it cannot go on where it finds something else: another     *)
(* field, width, value or byte order, or no field at all.                  *)
(***************************************************************************)
EXTENDS Integers, Sequences

CONSTANTS Docs,     \* the documents
          Writes,   \* the writer's operations, by document
          Reads     \* the reader's operations, by document

(***************************************************************************)
(* Operations.  A field has a name, an index (which file, row or entry it  *)
(* belongs to), a value where a later step depends on it, and a width in   *)
(* bytes.  A key is a name and an index as well, as in reserve("Name%zu"). *)
(***************************************************************************)
Op(o, n, i, v, w) == [op |-> o, name |-> n, i |-> i, v |-> v, w |-> w, kind |-> ""]

Num(n, i, v, w) == Op("num", n, i, v, w)        \* numbers, in the byte order in force
Raw(n, i, v, w) == Op("raw", n, i, v, w)        \* bytes and strings
F(n, w)         == Num(n, 0, 0, w)
V(n, v, w)      == Num(n, 0, v, w)
FI(n, i, w)     == Num(n, i, 0, w)
Bool(n, b)      == V(n, IF b THEN 1 ELSE 0, 1)
Magic(n, w)     == Raw(n, 0, 0, w)
Const(v, w)     == Num("const", 0, v, w)        \* written as is and asserted
Zeros(n)        == Raw("zeros", 0, 0, n)        \* n bytes 0, asserted one by one
Pad(a)          == Op("pad", "", 0, 0, a)
PadFrom(m, a)   == Op("pad_from", "", m, 0, a)  \* relative to mark <<"base", m>>
Endian(b)       == Op("endian", "", IF b THEN 1 ELSE 0, 0, 0)
Mark(n, i)      == Op("mark", n, i, 0, 0)       \* remember the position

\* A reservation is made and filled by name and kind of number.
KindWidth == [I32 |-> 4, U16 |-> 2, U32 |-> 4, I64 |-> 8, VARINT_4 |-> 4, VARINT_8 |-> 8]
Kinded(o, n, i, v, k) == [Op(o, n, i, v, KindWidth[k]) EXCEPT !.kind = k]
Reserve(n, i, k)     == Kinded("reserve", n, i, 0, k)
Fill(n, i, v, k)     == Kinded("fill", n, i, v, k)
FillPos(n, i, k)     == Kinded("fill_pos", n, i, 0, k)    \* with the position
FillFrom(n, i, m, k) == Kinded("fill_from", n, i, m, k)   \* less that of mark <<"base", m>>
FillMark(n, i, m, k) == Kinded("fill_mark", n, i, m, k)   \* with that of mark <<"at", m>>
FillSpan(n, i, key, m, k) == Kinded("fill_span", n, i, <<key, m>>, k)

\* The position of a mark less that of mark <<"base", m>>, written as a number.
Ref(n, i, key, m, w) == Op("ref", n, i, <<key, m>>, w)

Offset(n, i, w) == Op("offset", n, i, 0, w)     \* read a position and keep it
Goto(n, i)      == Op("goto", n, i, 0, 0)       \* seek to a position read before
GotoFrom(n, i, key) == Op("goto_from", n, i, key, 0)  \* relative to another position
Seek(p)         == Op("seek", "", 0, p, 0)      \* to a fixed position
StepInto(n, i, k) == Op("step_in", n, i, k, 0)  \* k bytes after a position read before
StepFrom(n, i, key) == Op("step_from", n, i, key, 0)  \* relative to another position
StepAt(n, i)    == Op("step_at", n, i, 0, 0)    \* of a writer, to a mark
StepBack        == Op("step_out", "", 0, 0, 0)
Skip(w)         == Op("skip", "", 0, 0, w)
Stream(s)       == Op("stream", "", s, 0, 0)    \* go on in file s of a pair

\* Checks of a reader: on values it has read; that an offset it has read is at
\* least w bytes ahead; that two are w bytes apart; that one is below another;
\* that w bytes after one, relative to position from, is a position seen before;
\* that one is at most v; that one is zero, or is not.
Require(b)      == Op("require", "", IF b THEN 1 ELSE 0, 0, 0)
Room(n, i, w)   == Op("room", n, i, 0, w)
Apart(n, i, key, w) == Op("apart", n, i, key, w)
Below(n, i, key) == Op("below", n, i, key, 0)
Points(n, i, key, from, w) == Op("points", n, i, <<key, from>>, w)
AtMost(n, i, v) == Op("at_most", n, i, v, 0)
Given(n, i)     == Op("given", n, i, 0, 0)
Absent(n, i)    == Op("absent", n, i, 0, 0)

\* Base and At name the marks that fill_from and fill_mark refer to.
Base(m) == Mark("base", m)
At(m)   == Mark("at", m)

\* A field's reading at a place found before, as Get does it.
Get(n, i, ops) == <<StepInto(n, i, 0)>> \o ops \o <<StepBack>>
GetFrom(n, i, key, ops) == <<StepFrom(n, i, key)>> \o ops \o <<StepBack>>

\* What every operation of a writer satisfies: a width in bytes, an alignment
\* that is not zero, and for reservations and fills the width of their kind.
OpOK(o) == /\ o.w \in Nat
           /\ o.op \in {"pad", "pad_from"} => o.w > 0
           /\ o.kind # "" => o.kind \in DOMAIN KindWidth /\ o.w = KindWidth[o.kind]
           /\ o.op \in {"reserve", "fill", "fill_pos", "fill_from", "fill_mark", "fill_span"}
                => o.kind # ""
ASSUME WritesAssumption ==
    \A d \in Docs : LET ws == Writes[d]
                    IN  Len(ws) \in Nat /\ \A k \in 1 .. Len(ws) : OpOK(ws[k])
-----------------------------------------------------------------------------
VARIABLES doc, phase,
          pc,       \* index of the next operation
          pos,      \* position of the stream
          big,      \* byte order in force
          file,     \* cells by offset
          res,      \* open reservations: key -> <<offset, kind>>
          kept,     \* marks and offsets read: key -> position
          steps     \* step stack of the reader

vars == <<doc, phase, pc, pos, big, file, res, kept, steps>>

Cell(n, i, v, w, b) == [name |-> n, i |-> i, v |-> v, w |-> w, big |-> b]
HoleName == "hole"
Empty == [x \in {} |-> 0]
With(f, x, y) == [z \in (DOMAIN f) \cup {x} |-> IF z = x THEN y ELSE f[z]]
Without(f, x) == [z \in (DOMAIN f) \ {x} |-> f[z]]

Key(o) == <<o.name, o.i>>

\* A format kept in two files, headers and data, has the second from Far on:
\* positions are counted from the start of the file they are in.
Far == 65536
Start == pos - (pos % Far)
Here == pos % Far
\* Mutant: the other file is taken up at its beginning.
StreamAt_Rewinds(s) == s * Far
StreamAt(s) == IF <<"stream", s>> \in DOMAIN kept THEN kept[<<"stream", s>>] ELSE s * Far
PadWidth(p, a) == (a - (p % a)) % a

Init == /\ doc \in Docs
        /\ phase = "write" /\ pc = 1 /\ pos = 0 /\ big = FALSE
        /\ file = Empty /\ res = Empty /\ kept = Empty /\ steps = <<>>

\* Appending a cell; nothing is stored for an empty one.
AppendCell(n, i, v, w, b) == /\ pos' = pos + w
                          /\ file' = IF w = 0 THEN file ELSE With(file, pos, Cell(n, i, v, w, b))

\* The byte order of a byte is not an issue.
Order(w) == big /\ w > 1

Writing(kind) == /\ phase = "write" /\ pc <= Len(Writes[doc])
                 /\ Writes[doc][pc].op \in kind
                 /\ pc' = pc + 1
                 /\ UNCHANGED <<doc, phase>>
W == Writes[doc][pc]

Span(v) == kept[v[1]] - kept[<<"base", v[2]>>]

WriteField ==
    /\ Writing({"num", "raw", "ref"})
    /\ AppendCell(W.name, W.i, IF W.op = "ref" THEN Span(W.v) ELSE W.v, W.w, W.op # "raw" /\ Order(W.w))
    /\ UNCHANGED <<big, res, kept, steps>>

\* Mutant: rounds down.
WritePad_Down ==
    /\ Writing({"pad", "pad_from"})
    /\ AppendCell("pad", 0, 0, -((IF W.op = "pad" THEN pos ELSE pos - kept[<<"base", W.i>>]) % W.w), FALSE)
    /\ UNCHANGED <<big, res, kept, steps>>

WritePad ==
    /\ Writing({"pad", "pad_from"})
    /\ AppendCell("pad", 0, 0, PadWidth(IF W.op = "pad" THEN pos ELSE pos - kept[<<"base", W.i>>], W.w), FALSE)
    /\ UNCHANGED <<big, res, kept, steps>>

WriteMode ==
    /\ Writing({"endian", "mark"})
    /\ big' = IF W.op = "endian" THEN W.i = 1 ELSE big
    /\ kept' = IF W.op = "mark" THEN With(kept, Key(W), pos) ELSE kept
    /\ UNCHANGED <<pos, file, res, steps>>

WriteSwitch ==
    /\ Writing({"stream"})
    /\ pos' = StreamAt(W.i)
    /\ kept' = With(kept, <<"stream", pos \div Far>>, pos)
    /\ UNCHANGED <<big, file, res, steps>>

\* step_in and step_out: what is there is written again.
WriteStep ==
    /\ Writing({"step_at", "step_out"})
    /\ IF W.op = "step_at"
       THEN pos' = kept[Key(W)] /\ steps' = Append(steps, pos)
       ELSE pos' = steps[Len(steps)] /\ steps' = SubSeq(steps, 1, Len(steps) - 1)
    /\ UNCHANGED <<big, file, res, kept>>

\* reserve_*: a second reservation of an open key is an error.
WriteReserve ==
    /\ Writing({"reserve"})
    /\ Key(W) \notin DOMAIN res
    /\ AppendCell(HoleName, 0, 0, W.w, FALSE)
    /\ res' = With(res, Key(W), <<pos, W.kind>>)
    /\ UNCHANGED <<big, kept, steps>>

\* What a fill writes.
FillValue(o) == CASE o.op = "fill"      -> o.v
                  [] o.op = "fill_pos"  -> Here
                  [] o.op = "fill_from" -> pos - kept[<<"base", o.v>>]
                  [] o.op = "fill_mark" -> kept[<<"at", o.v>>] % Far
                  [] o.op = "fill_span" -> Span(o.v)

CanFill(o) == Key(o) \in DOMAIN res /\ res[Key(o)][2] = o.kind

FillOps == {"fill", "fill_pos", "fill_from", "fill_mark", "fill_span"}
WriteFill ==
    /\ Writing(FillOps)
    /\ CanFill(W)
    /\ file' = With(file, res[Key(W)][1], Cell(W.name, W.i, FillValue(W), W.w, Order(W.w)))
    /\ res' = Without(res, Key(W))
    /\ UNCHANGED <<pos, big, kept, steps>>

\* finish: no reservation is open.  The reader starts at the beginning, in
\* the byte order it was created with.
WriteDone ==
    /\ phase = "write" /\ pc > Len(Writes[doc]) /\ res = Empty
    /\ phase' = "read" /\ pc' = 1 /\ pos' = 0 /\ big' = FALSE /\ kept' = Empty
    /\ UNCHANGED <<doc, file, res, steps>>
-----------------------------------------------------------------------------
R == Reads[doc][pc]

Reading(kind) == /\ phase = "read" /\ pc <= Len(Reads[doc])
                 /\ Reads[doc][pc].op \in kind
                 /\ pc' = pc + 1
                 /\ UNCHANGED <<doc, phase, file, res>>

\* The cell at the position is the one the operation is about.
Matches(o) == \/ o.w = 0
              \/ /\ pos \in DOMAIN file
                 /\ file[pos] = Cell(o.name, o.i,
                                     IF o.op = "offset" THEN file[pos].v ELSE o.v, o.w,
                                     o.op # "raw" /\ Order(o.w))

ReadField ==
    /\ Reading({"num", "raw", "offset"})
    /\ Matches(R)
    /\ pos' = pos + R.w
    /\ kept' = IF R.op = "offset" THEN With(kept, Key(R), file[pos].v) ELSE kept
    /\ UNCHANGED <<big, steps>>

ReadMode ==
    /\ Reading({"endian", "mark"})
    /\ big' = IF R.op = "endian" THEN R.i = 1 ELSE big
    /\ kept' = IF R.op = "mark" THEN With(kept, Key(R), pos) ELSE kept
    /\ UNCHANGED <<pos, steps>>

ReadMove ==
    /\ Reading({"goto", "goto_from", "seek", "pad", "skip", "stream"})
    /\ pos' = CASE R.op = "goto"      -> Start + kept[Key(R)]
                [] R.op = "goto_from" -> Start + kept[Key(R)] + kept[R.v]
                [] R.op = "seek"      -> Start + R.v
                [] R.op = "pad"       -> pos + PadWidth(pos, R.w)
                [] R.op = "skip"      -> pos + R.w
                [] R.op = "stream"    -> StreamAt(R.i)
    /\ kept' = IF R.op = "stream" THEN With(kept, <<"stream", pos \div Far>>, pos) ELSE kept
    /\ UNCHANGED <<big, steps>>

ReadStep ==
    /\ Reading({"step_in", "step_from", "step_out"})
    /\ pos' = CASE R.op = "step_in"   -> Start + kept[Key(R)] + R.v
                [] R.op = "step_from" -> Start + kept[Key(R)] + kept[R.v]
                [] R.op = "step_out"  -> steps[Len(steps)]
    /\ steps' = IF R.op = "step_out" THEN SubSeq(steps, 1, Len(steps) - 1) ELSE Append(steps, pos)
    /\ UNCHANGED <<big, kept>>

\* What the reader's own checks say.
Passes(o) == CASE o.op = "require" -> o.i = 1
               [] o.op = "room"    -> Here + o.w <= kept[Key(o)]
               [] o.op = "apart"   -> kept[o.v] - kept[Key(o)] = o.w
               [] o.op = "below"   -> kept[Key(o)] < kept[o.v]
               [] o.op = "points"  -> kept[Key(o)] + o.w = kept[o.v[1]] - kept[o.v[2]]
               [] o.op = "at_most" -> kept[Key(o)] <= o.v
               [] o.op = "given"   -> kept[Key(o)] # 0
               [] o.op = "absent"  -> kept[Key(o)] = 0

Checks == {"require", "room", "apart", "below", "points", "at_most", "given", "absent"}
ReadCheck ==
    /\ Reading(Checks)
    /\ Passes(R)
    /\ UNCHANGED <<pos, big, kept, steps>>

ReadDone ==
    /\ phase = "read" /\ pc > Len(Reads[doc])
    /\ phase' = "done"
    /\ UNCHANGED <<doc, pc, pos, big, file, res, kept, steps>>

\* The document has been read back; nothing is left to do.
Finished == phase = "done" /\ UNCHANGED vars

Next == \/ WriteField \/ WritePad \/ WriteMode \/ WriteSwitch \/ WriteStep \/ WriteReserve \/ WriteFill \/ WriteDone
        \/ ReadField \/ ReadMode \/ ReadMove \/ ReadStep \/ ReadCheck \/ ReadDone \/ Finished

Spec == Init /\ [][Next]_vars
-----------------------------------------------------------------------------
TypeOK == /\ doc \in Docs
          /\ phase \in {"write", "read", "done"}
          /\ pc \in Nat /\ pos \in Nat /\ big \in BOOLEAN
          /\ \A o \in DOMAIN file : o \in Nat /\ file[o].w \in Nat \ {0}
          /\ \A k \in DOMAIN res : res[k] \in Nat \X DOMAIN KindWidth
          /\ steps \in Seq(Nat)

\* Every writer gets to the end of its passes and finish() accepts the file:
\* no key is reserved twice at a time, every fill finds its reservation with
\* the kind it was made with, and none is left over, whichever flags,
\* versions and counts the document has.
WritersFinish ==
    phase = "write" =>
        IF pc > Len(Writes[doc]) THEN res = Empty
        ELSE /\ W.op = "reserve" => Key(W) \notin DOMAIN res
             /\ W.op \in FillOps => CanFill(W)

\* Every reader gets back what the writer was given: at each step it finds
\* the field, value, width and byte order it expects, at the place its own
\* offsets and paddings lead it to, and no check of it fails.
ReadersAgree ==
    phase = "read" /\ pc <= Len(Reads[doc]) =>
        /\ R.op \in {"num", "raw", "offset"} => Matches(R)
        /\ R.op \in Checks => Passes(R)

\* Nothing is written over anything else, and while the passes go on the
\* placeholders in the file are exactly the open reservations.
CellsDisjoint ==
    /\ \A o \in DOMAIN file : \A k \in 1 .. file[o].w - 1 : o + k \notin DOMAIN file
    /\ {o \in DOMAIN file : file[o].name = HoleName} = {res[k][1] : k \in DOMAIN res}
=============================================================================
