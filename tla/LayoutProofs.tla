---------------------------- MODULE LayoutProofs ----------------------------
(***************************************************************************)
(* What the layout engine guarantees for every format, whatever its writer *)
(* does, as long as it goes forward: it does not step back to write a      *)
(* field again and does not switch between two files.  Of the formats      *)
(* modelled only BXF3, BXF4 and ENFL, which write two streams, and MATBIN  *)
(* and ESD, which come back to patch a field, do otherwise.                *)
(***************************************************************************)
EXTENDS Layout, TLAPS

\* A writer that only goes forward, and pads only from a mark it has made.
OneWay(d) ==
    \A k \in 1 .. Len(Writes[d]) :
        /\ Writes[d][k].op \notin {"step_at", "step_out", "stream"}
        /\ Writes[d][k].name # HoleName
        /\ Writes[d][k].op = "pad_from" =>
              \E j \in 1 .. k - 1 : /\ Writes[d][j].op = "mark"
                                    /\ Key(Writes[d][j]) = <<"base", Writes[d][k].i>>

\* The positions remembered so far.
MarksKept ==
    /\ \A key \in DOMAIN kept : kept[key] \in Nat
    /\ \A j \in 1 .. pc - 1 : Writes[doc][j].op = "mark" => Key(Writes[doc][j]) \in DOMAIN kept

\* The cells lie before the position and next to one another.
CellsBefore == \A o \in DOMAIN file : /\ o \in Nat /\ file[o].w \in Nat \ {0}
                                      /\ o + file[o].w <= pos
Apart2(f) == \A o, p \in DOMAIN f : o < p => o + f[o].w <= p
Tiled == \A p \in 0 .. pos - 1 : \E o \in DOMAIN file : o <= p /\ p < o + file[o].w

\* Every open reservation has a placeholder of its own, as wide as its kind,
\* and every placeholder is reserved.
HolesMatch ==
    /\ \A key \in DOMAIN res : /\ res[key][1] \in DOMAIN file
                               /\ file[res[key][1]].name = HoleName
                               /\ res[key][2] \in DOMAIN KindWidth
                               /\ file[res[key][1]].w = KindWidth[res[key][2]]
    /\ \A k, l \in DOMAIN res : res[k][1] = res[l][1] => k = l
    /\ \A o \in DOMAIN file : file[o].name = HoleName => \E key \in DOMAIN res : res[key][1] = o

WriteInv == /\ pc \in Nat \ {0} /\ pos \in Nat /\ MarksKept
            /\ CellsBefore /\ Apart2(file) /\ Tiled /\ HolesMatch

\* Once the file is finished it does not change any more.
FileOK == /\ \A o \in DOMAIN file : o \in Nat /\ file[o].w \in Nat \ {0}
          /\ Apart2(file) /\ HolesMatch

IndInv == /\ doc \in Docs /\ phase \in {"write", "read", "done"}
          /\ OneWay(doc) => IF phase = "write" THEN WriteInv ELSE FileOK /\ res = Empty

\* The width of a placeholder.
LEMMA KindWidths == \A k \in DOMAIN KindWidth : KindWidth[k] \in Nat \ {0}
BY DEF KindWidth

\* The operation a writer is at.
LEMMA AtOp ==
    ASSUME IndInv, OneWay(doc), phase = "write", pc <= Len(Writes[doc]), pc \in Nat \ {0}
    PROVE  /\ OpOK(W) /\ W.op \notin {"step_at", "step_out", "stream"} /\ W.name # HoleName
           /\ W.op = "pad_from" => \E j \in 1 .. pc - 1 : /\ Writes[doc][j].op = "mark"
                                                         /\ Key(Writes[doc][j]) = <<"base", W.i>>
<1>1. doc \in Docs /\ Len(Writes[doc]) \in Nat
  BY WritesAssumption DEF IndInv
<1>2. pc \in 1 .. Len(Writes[doc])
  BY <1>1
<1> QED
  BY <1>1, <1>2, WritesAssumption DEF OneWay, W

\* A cell appended behind the last one.
LEMMA AppendKeeps ==
    ASSUME WriteInv, NEW n, NEW i, NEW v, NEW w \in Nat, NEW b, AppendCell(n, i, v, w, b)
    PROVE  /\ pos' \in Nat /\ pos' >= pos /\ CellsBefore' /\ Apart2(file') /\ Tiled'
           /\ \A o \in DOMAIN file : o \in DOMAIN file' /\ file'[o] = file[o]
           /\ \A o \in DOMAIN file' : o \in DOMAIN file \/ (o = pos /\ file'[o].name = n)
           /\ w > 0 => pos \in DOMAIN file' /\ file'[pos] = Cell(n, i, v, w, b) /\ pos \notin DOMAIN file
<1> DEFINE c == Cell(n, i, v, w, b)
<1>1. pos \in Nat /\ CellsBefore /\ Apart2(file) /\ Tiled
  BY DEF WriteInv
<1>2. pos' = pos + w /\ file' = IF w = 0 THEN file ELSE With(file, pos, c)
  BY DEF AppendCell
<1>3. pos \notin DOMAIN file
  BY <1>1 DEF CellsBefore
<1>4. CASE w = 0
  <2>1. pos' = pos /\ file' = file
    BY <1>1, <1>2, <1>4
  <2> QED
    BY <1>1, <1>4, <2>1 DEF CellsBefore, Tiled
<1>5. CASE w # 0
  <2>1. c.w = w /\ c.name = n
    BY DEF Cell
  <2> HIDE DEF c
  <2>2. /\ DOMAIN file' = (DOMAIN file) \cup {pos} /\ file'[pos] = c
        /\ \A o \in DOMAIN file : file'[o] = file[o]
    <3>1. file' = With(file, pos, c)
      BY <1>2, <1>5
    <3>2. /\ DOMAIN With(file, pos, c) = (DOMAIN file) \cup {pos} /\ With(file, pos, c)[pos] = c
          /\ \A z \in DOMAIN file : z # pos => With(file, pos, c)[z] = file[z]
      BY DEF With
    <3> QED
      BY <1>3, <3>1, <3>2
  <2>3. CellsBefore'
    BY <1>1, <1>2, <1>5, <2>1, <2>2 DEF CellsBefore
  <2>4. Apart2(file')
    <3> SUFFICES ASSUME NEW o \in DOMAIN file', NEW p \in DOMAIN file', o < p
                 PROVE  o + file'[o].w <= p
      BY DEF Apart2
    <3>1. CASE o = pos
      BY <1>1, <2>2, <3>1 DEF CellsBefore
    <3>2. CASE o # pos /\ p = pos
      BY <1>1, <2>2, <3>2 DEF CellsBefore
    <3>3. CASE o # pos /\ p # pos
      BY <1>1, <2>2, <3>3 DEF Apart2
    <3> QED
      BY <3>1, <3>2, <3>3
  <2>5. Tiled'
    <3> SUFFICES ASSUME NEW p \in 0 .. pos' - 1
                 PROVE  \E o \in DOMAIN file' : o <= p /\ p < o + file'[o].w
      BY DEF Tiled
    <3>1. CASE p < pos
      <4>1. PICK o \in DOMAIN file : o <= p /\ p < o + file[o].w
        BY <1>1, <3>1 DEF Tiled
      <4> QED
        BY <2>2, <4>1
    <3>2. CASE p >= pos
      <4>1. pos <= p /\ p < pos + c.w
        BY <1>1, <1>2, <2>1, <3>2
      <4> QED
        BY <2>2, <4>1
    <3> QED
      BY <1>1, <3>1, <3>2
  <2> QED
    BY <1>1, <1>2, <1>3, <1>5, <2>1, <2>2, <2>3, <2>4, <2>5 DEF c
<1> QED
  BY <1>4, <1>5

\* A field or padding appended leaves the reservations alone.
LEMMA HolesUntouched ==
    ASSUME WriteInv, NEW n, NEW i, NEW v, NEW w \in Nat, NEW b, AppendCell(n, i, v, w, b),
           n # HoleName, UNCHANGED res
    PROVE  HolesMatch'
<1>1. /\ \A o \in DOMAIN file : o \in DOMAIN file' /\ file'[o] = file[o]
      /\ \A o \in DOMAIN file' : o \in DOMAIN file \/ (o = pos /\ file'[o].name = n)
  BY AppendKeeps
<1>2. HolesMatch
  BY DEF WriteInv
<1>3. ASSUME NEW o \in DOMAIN file', file'[o].name = HoleName
      PROVE  \E key \in DOMAIN res : res[key][1] = o
  BY <1>1, <1>2, <1>3 DEF HolesMatch
<1> QED
  BY <1>1, <1>2, <1>3 DEF HolesMatch

\* Marks stay kept when an operation that is none of them is done.
LEMMA MarksStay ==
    ASSUME pc \in Nat \ {0}, MarksKept, pc' = pc + 1, UNCHANGED <<doc, kept>>, W.op # "mark"
    PROVE  MarksKept'
<1>1. ASSUME NEW j \in 1 .. pc' - 1, Writes[doc][j].op = "mark"
      PROVE  Key(Writes[doc][j]) \in DOMAIN kept
  <2>1. j # pc
    BY <1>1 DEF W
  <2>2. j \in 1 .. pc - 1
    BY <2>1
  <2> QED
    BY <1>1, <2>2 DEF MarksKept
<1> QED
  BY <1>1 DEF MarksKept

\* A write that appends a field or padding.
LEMMA AppendStep ==
    ASSUME WriteInv, NEW n, NEW i, NEW v, NEW w \in Nat, NEW b, AppendCell(n, i, v, w, b),
           n # HoleName, UNCHANGED <<doc, res, kept>>, pc' = pc + 1, W.op # "mark"
    PROVE  WriteInv'
<1>1. pos' \in Nat /\ CellsBefore' /\ Apart2(file') /\ Tiled'
  BY AppendKeeps
<1>2. HolesMatch'
  BY HolesUntouched
<1>3. pc' \in Nat \ {0} /\ MarksKept'
  <2>1. pc \in Nat \ {0} /\ MarksKept
    BY DEF WriteInv
  <2> QED
    BY <2>1, MarksStay
<1> QED
  BY <1>1, <1>2, <1>3 DEF WriteInv

\* What the guard of every write says.
LEMMA AtWrite ==
    ASSUME IndInv, OneWay(doc), NEW kind, Writing(kind)
    PROVE  /\ WriteInv /\ pc <= Len(Writes[doc]) /\ W.op \in kind /\ pc' = pc + 1
           /\ UNCHANGED <<doc, phase>> /\ phase = "write" /\ pc \in Nat \ {0}
           /\ OpOK(W) /\ W.op \notin {"step_at", "step_out", "stream"} /\ W.name # HoleName
           /\ W.op = "pad_from" => \E j \in 1 .. pc - 1 : /\ Writes[doc][j].op = "mark"
                                                         /\ Key(Writes[doc][j]) = <<"base", W.i>>
<1>1. /\ phase = "write" /\ pc <= Len(Writes[doc]) /\ W.op \in kind /\ pc' = pc + 1
      /\ UNCHANGED <<doc, phase>>
  BY DEF Writing, W
<1>2. WriteInv
  BY <1>1 DEF IndInv
<1>3. pc \in Nat \ {0}
  BY <1>2 DEF WriteInv
<1> QED
  BY <1>1, <1>2, <1>3, AtOp

\* From the invariant of the writing phase to the whole.
LEMMA StillWriting ==
    ASSUME IndInv, UNCHANGED <<doc, phase>>, phase = "write", WriteInv'
    PROVE  IndInv'
BY DEF IndInv, OneWay

\* A number, bytes or the distance of two marks: the cell goes behind the last.
LEMMA WriteFieldKeeps == ASSUME IndInv, OneWay(doc), WriteField PROVE IndInv'
<1> DEFINE v == IF W.op = "ref" THEN Span(W.v) ELSE W.v
           b == W.op # "raw" /\ Order(W.w)
<1>1. /\ Writing({"num", "raw", "ref"}) /\ AppendCell(W.name, W.i, v, W.w, b)
      /\ UNCHANGED <<big, res, kept, steps>>
  BY DEF WriteField
<1>2. /\ WriteInv /\ pc' = pc + 1 /\ UNCHANGED <<doc, phase>> /\ phase = "write"
      /\ W.op \in {"num", "raw", "ref"} /\ W.w \in Nat /\ W.name # HoleName
  BY <1>1, AtWrite DEF OpOK
<1> HIDE DEF v, b
<1>3. W.op # "mark"
  BY <1>2
<1>4. WriteInv'
  BY <1>1, <1>2, <1>3, AppendStep
<1> QED
  BY <1>2, <1>4, StillWriting

\* Padding never goes backwards.
LEMMA PadIsForward == \A p \in Int, a \in Nat \ {0} : PadWidth(p, a) \in Nat
BY DEF PadWidth

\* Padding, from the start of the file or from a mark.
LEMMA WritePadKeeps == ASSUME IndInv, OneWay(doc), WritePad PROVE IndInv'
<1> DEFINE from == IF W.op = "pad" THEN pos ELSE pos - kept[<<"base", W.i>>]
           w == PadWidth(from, W.w)
           name == "pad"
<1>1. /\ Writing({"pad", "pad_from"}) /\ AppendCell(name, 0, 0, w, FALSE)
      /\ UNCHANGED <<big, res, kept, steps>>
  BY DEF WritePad
<1>2. /\ WriteInv /\ pc' = pc + 1 /\ UNCHANGED <<doc, phase>> /\ phase = "write" /\ pc \in Nat \ {0}
      /\ W.op \in {"pad", "pad_from"} /\ W.w \in Nat /\ W.w > 0
      /\ W.op = "pad_from" => \E j \in 1 .. pc - 1 : /\ Writes[doc][j].op = "mark"
                                                     /\ Key(Writes[doc][j]) = <<"base", W.i>>
  BY <1>1, AtWrite DEF OpOK
<1>3. from \in Int
  <2>1. pos \in Nat /\ MarksKept
    BY <1>2 DEF WriteInv
  <2>2. CASE W.op = "pad"
    BY <2>1, <2>2
  <2>3. CASE W.op = "pad_from"
    <3>1. <<"base", W.i>> \in DOMAIN kept
      BY <1>2, <2>1, <2>3 DEF MarksKept
    <3>2. kept[<<"base", W.i>>] \in Nat
      BY <2>1, <3>1 DEF MarksKept
    <3> QED
      BY <2>1, <2>3, <3>2
  <2> QED
    BY <1>2, <2>2, <2>3
<1> HIDE DEF from
<1>4. w \in Nat
  BY <1>2, <1>3, PadIsForward
<1>5. W.op # "mark" /\ name # HoleName
  BY <1>2 DEF HoleName
<1> HIDE DEF w, name
<1>6. WriteInv'
  BY <1>1, <1>2, <1>4, <1>5, AppendStep
<1> QED
  BY <1>2, <1>6, StillWriting

\* A change of the byte order or a new mark writes nothing.
LEMMA WriteModeKeeps == ASSUME IndInv, OneWay(doc), WriteMode PROVE IndInv'
<1>1. /\ Writing({"endian", "mark"}) /\ UNCHANGED <<pos, file, res, steps>>
      /\ kept' = IF W.op = "mark" THEN With(kept, Key(W), pos) ELSE kept
  BY DEF WriteMode
<1>2. WriteInv /\ pc' = pc + 1 /\ UNCHANGED <<doc, phase>> /\ phase = "write" /\ pc \in Nat \ {0}
  BY <1>1, AtWrite
<1>3. pos \in Nat /\ MarksKept
  BY <1>2 DEF WriteInv
<1>4. MarksKept'
  <2>1. CASE W.op = "mark"
    <3> DEFINE k == Key(W)
    <3>1. kept' = With(kept, k, pos)
      BY <1>1, <2>1
    <3>2. k = Key(Writes[doc][pc])
      BY DEF W
    <3> HIDE DEF k
    <3>3. /\ DOMAIN With(kept, k, pos) = (DOMAIN kept) \cup {k} /\ With(kept, k, pos)[k] = pos
          /\ \A z \in DOMAIN kept : z # k => With(kept, k, pos)[z] = kept[z]
      BY DEF With
    <3>4. /\ DOMAIN kept' = (DOMAIN kept) \cup {k} /\ kept'[k] = pos
          /\ \A z \in DOMAIN kept : z # k => kept'[z] = kept[z]
      BY <3>1, <3>3
    <3>5. \A key \in DOMAIN kept' : kept'[key] \in Nat
      BY <1>3, <3>4 DEF MarksKept
    <3>6. ASSUME NEW j \in 1 .. pc' - 1, Writes[doc][j].op = "mark"
          PROVE  Key(Writes[doc][j]) \in DOMAIN kept'
      <4>1. CASE j = pc
        BY <3>2, <3>4, <4>1
      <4>2. CASE j # pc
        <5>1. j \in 1 .. pc - 1
          BY <1>2, <4>2
        <5> QED
          BY <1>3, <3>4, <3>6, <5>1 DEF MarksKept
      <4> QED
        BY <4>1, <4>2
    <3> QED
      BY <1>2, <3>5, <3>6 DEF MarksKept
  <2>2. CASE W.op # "mark"
    BY <1>1, <1>2, <1>3, <2>2, MarksStay
  <2> QED
    BY <2>1, <2>2
<1>5. CellsBefore' /\ Apart2(file') /\ Tiled' /\ HolesMatch'
  BY <1>1, <1>2 DEF WriteInv, CellsBefore, Tiled, HolesMatch
<1>6. WriteInv'
  BY <1>1, <1>2, <1>3, <1>4, <1>5 DEF WriteInv
<1> QED
  BY <1>2, <1>6, StillWriting

\* reserve_*: a placeholder of the width of its kind, and its entry.
LEMMA WriteReserveKeeps == ASSUME IndInv, OneWay(doc), WriteReserve PROVE IndInv'
<1> DEFINE key == Key(W)
           entry == <<pos, W.kind>>
           name == HoleName
           zero == 0
           width == W.w
           no == FALSE
<1>1. /\ Writing({"reserve"}) /\ AppendCell(name, zero, zero, width, no)
      /\ key \notin DOMAIN res /\ res' = With(res, key, entry) /\ UNCHANGED <<big, kept, steps>>
  BY DEF WriteReserve
<1>2. /\ WriteInv /\ pc' = pc + 1 /\ UNCHANGED <<doc, phase>> /\ phase = "write" /\ pc \in Nat \ {0}
      /\ W.op = "reserve" /\ OpOK(W)
  BY <1>1, AtWrite
<1>3. W.kind \in DOMAIN KindWidth /\ width = KindWidth[W.kind] /\ width \in Nat /\ width > 0
  <2>1. W.kind \in DOMAIN KindWidth /\ W.w = KindWidth[W.kind]
    BY <1>2 DEF OpOK
  <2>2. W.w \in Nat \ {0}
    BY <2>1, KindWidths
  <2> QED
    BY <2>1, <2>2
<1>4. entry[1] = pos /\ entry[2] = W.kind
  OBVIOUS
<1> HIDE DEF key, entry, name, zero, width, no
<1>5. /\ pos' \in Nat /\ pos' >= pos /\ CellsBefore' /\ Apart2(file') /\ Tiled'
      /\ \A o \in DOMAIN file : o \in DOMAIN file' /\ file'[o] = file[o]
      /\ \A o \in DOMAIN file' : o \in DOMAIN file \/ (o = pos /\ file'[o].name = name)
      /\ width > 0 => pos \in DOMAIN file' /\ file'[pos] = Cell(name, zero, zero, width, no) /\ pos \notin DOMAIN file
  <2>1. WriteInv /\ width \in Nat /\ AppendCell(name, zero, zero, width, no)
    BY <1>1, <1>2, <1>3
  <2> QED
    BY <2>1, AppendKeeps
<1>6. /\ pos \in DOMAIN file' /\ file'[pos].name = HoleName /\ file'[pos].w = width
      /\ pos \notin DOMAIN file
  BY <1>3, <1>5 DEF Cell, name
<1>7. /\ DOMAIN res' = (DOMAIN res) \cup {key} /\ res'[key] = entry
      /\ \A k \in DOMAIN res : res'[k] = res[k]
  BY <1>1 DEF With
<1>8. HolesMatch
  BY <1>2 DEF WriteInv
<1>9. HolesMatch'
  <2>1. ASSUME NEW k \in DOMAIN res'
        PROVE  /\ res'[k][1] \in DOMAIN file' /\ file'[res'[k][1]].name = HoleName
               /\ res'[k][2] \in DOMAIN KindWidth
               /\ file'[res'[k][1]].w = KindWidth[res'[k][2]]
    <3>1. CASE k = key
      BY <1>3, <1>4, <1>5, <1>6, <1>7, <3>1
    <3>2. CASE k # key
      <4>1. k \in DOMAIN res /\ res'[k] = res[k]
        BY <1>7, <3>2
      <4> QED
        BY <1>5, <1>8, <4>1 DEF HolesMatch
    <3> QED
      BY <3>1, <3>2
  <2>2. ASSUME NEW k \in DOMAIN res', NEW l \in DOMAIN res', res'[k][1] = res'[l][1] PROVE k = l
    <3>1. \A m \in DOMAIN res : res[m][1] # pos
      BY <1>6, <1>8 DEF HolesMatch
    <3> QED
      BY <1>4, <1>7, <1>8, <2>2, <3>1 DEF HolesMatch
  <2>3. ASSUME NEW o \in DOMAIN file', file'[o].name = HoleName
        PROVE  \E k \in DOMAIN res' : res'[k][1] = o
    <3>1. CASE o = pos
      BY <1>4, <1>7, <3>1
    <3>2. CASE o # pos
      <4>1. o \in DOMAIN file /\ file[o].name = HoleName
        BY <1>5, <2>3, <3>2
      <4>2. PICK k \in DOMAIN res : res[k][1] = o
        BY <1>8, <4>1 DEF HolesMatch
      <4> QED
        BY <1>7, <4>2
    <3> QED
      BY <3>1, <3>2
  <2> QED
    BY <2>1, <2>2, <2>3 DEF HolesMatch
<1>10. MarksKept' /\ pc' \in Nat \ {0}
  <2>1. MarksKept /\ W.op # "mark"
    BY <1>2 DEF WriteInv
  <2> QED
    BY <1>1, <1>2, <2>1, MarksStay
<1>11. WriteInv'
  BY <1>5, <1>9, <1>10 DEF WriteInv
<1> QED
  BY <1>2, <1>11, StillWriting

\* fill_*: the cell takes its placeholder's place and width, and the entry goes.
LEMMA WriteFillKeeps == ASSUME IndInv, OneWay(doc), WriteFill PROVE IndInv'
<1> DEFINE key == Key(W)
           at == res[key][1]
           c == Cell(W.name, W.i, FillValue(W), W.w, Order(W.w))
<1>1. /\ Writing(FillOps) /\ key \in DOMAIN res /\ res[key][2] = W.kind
      /\ file' = With(file, at, c) /\ res' = Without(res, key)
      /\ UNCHANGED <<pos, big, kept, steps>>
  BY DEF WriteFill, CanFill
<1>2. /\ WriteInv /\ pc' = pc + 1 /\ UNCHANGED <<doc, phase>> /\ phase = "write" /\ pc \in Nat \ {0}
      /\ W.op \in FillOps /\ OpOK(W) /\ W.name # HoleName
  BY <1>1, AtWrite
<1>3. W.kind \in DOMAIN KindWidth /\ W.w = KindWidth[W.kind] /\ W.op # "mark"
  BY <1>2 DEF OpOK, FillOps
<1>4. c.w = W.w /\ c.name = W.name
  BY DEF Cell
<1> HIDE DEF c
<1>5. HolesMatch /\ CellsBefore /\ Apart2(file) /\ Tiled /\ MarksKept /\ pos \in Nat
  BY <1>2 DEF WriteInv
<1>6. at \in DOMAIN file /\ file[at].w = c.w /\ file[at].name = HoleName
  BY <1>1, <1>3, <1>4, <1>5 DEF HolesMatch
<1>7. \A k \in DOMAIN res : k # key => res[k][1] # at
  BY <1>1, <1>5 DEF HolesMatch
<1> HIDE DEF at
<1>8. /\ DOMAIN file' = DOMAIN file /\ file'[at] = c
      /\ \A o \in DOMAIN file : o # at => file'[o] = file[o]
  BY <1>1, <1>6 DEF With
<1>9. \A o \in DOMAIN file : file'[o].w = file[o].w
  BY <1>6, <1>8
<1>10. CellsBefore' /\ Apart2(file') /\ Tiled'
  <2>1. CellsBefore'
    BY <1>1, <1>5, <1>8, <1>9 DEF CellsBefore
  <2>2. Apart2(file')
    BY <1>5, <1>8, <1>9 DEF Apart2
  <2>3. Tiled'
    BY <1>1, <1>5, <1>8, <1>9 DEF Tiled
  <2> QED
    BY <2>1, <2>2, <2>3
<1>11. /\ DOMAIN res' = (DOMAIN res) \ {key}
       /\ \A k \in DOMAIN res' : res'[k] = res[k] /\ k \in DOMAIN res /\ k # key
  BY <1>1 DEF Without
<1>12. HolesMatch'
  <2>1. ASSUME NEW k \in DOMAIN res'
        PROVE  /\ res'[k][1] \in DOMAIN file' /\ file'[res'[k][1]].name = HoleName
               /\ res'[k][2] \in DOMAIN KindWidth
               /\ file'[res'[k][1]].w = KindWidth[res'[k][2]]
    <3>1. res'[k] = res[k] /\ k \in DOMAIN res /\ res[k][1] # at
      BY <1>7, <1>11
    <3> QED
      BY <1>5, <1>8, <3>1 DEF HolesMatch
  <2>2. ASSUME NEW k \in DOMAIN res', NEW l \in DOMAIN res', res'[k][1] = res'[l][1] PROVE k = l
    BY <1>5, <1>11, <2>2 DEF HolesMatch
  <2>3. ASSUME NEW o \in DOMAIN file', file'[o].name = HoleName
        PROVE  \E k \in DOMAIN res' : res'[k][1] = o
    <3>1. o # at
      BY <1>2, <1>4, <1>8, <2>3
    <3>2. PICK k \in DOMAIN res : res[k][1] = o
      BY <1>5, <1>8, <2>3, <3>1 DEF HolesMatch
    <3>3. k # key
      BY <3>1, <3>2 DEF at
    <3> QED
      BY <1>11, <3>2, <3>3
  <2> QED
    BY <2>1, <2>2, <2>3 DEF HolesMatch
<1>13. MarksKept' /\ pc' \in Nat \ {0} /\ pos' \in Nat
  BY <1>1, <1>2, <1>3, <1>5, MarksStay
<1>14. WriteInv'
  BY <1>10, <1>12, <1>13 DEF WriteInv
<1> QED
  BY <1>2, <1>14, StillWriting

\* finish: what it accepts has no entry left.
LEMMA WriteDoneKeeps == ASSUME IndInv, OneWay(doc), WriteDone PROVE IndInv'
<1>1. phase = "write" /\ phase' = "read" /\ res = Empty /\ UNCHANGED <<doc, file, res, steps>>
  BY DEF WriteDone
<1>2. FileOK
  BY <1>1 DEF IndInv, WriteInv, FileOK, CellsBefore
<1>3. FileOK' /\ res' = Empty
  BY <1>1, <1>2 DEF FileOK, HolesMatch
<1> QED
  BY <1>1, <1>3 DEF IndInv

\* Nothing the reader does touches the file.
LEMMA ReadKeeps ==
    ASSUME IndInv, phase \in {"read", "done"}, phase' \in {"read", "done"}, UNCHANGED <<doc, file, res>>
    PROVE  IndInv'
<1>1. phase # "write" /\ phase' # "write"
  OBVIOUS
<1>2. OneWay(doc) => FileOK' /\ res' = Empty
  BY <1>1 DEF IndInv, FileOK, HolesMatch
<1> QED
  BY <1>1, <1>2 DEF IndInv, OneWay

\* A writer that does not go forward is not spoken of.
LEMMA OtherKeeps ==
    ASSUME IndInv, ~OneWay(doc), UNCHANGED doc, phase' \in {"write", "read", "done"}
    PROVE  IndInv'
BY DEF IndInv, OneWay

\* The initial states.
LEMMA InitHolds == Init => IndInv
<1> SUFFICES ASSUME Init PROVE IndInv
  OBVIOUS
<1>1. /\ doc \in Docs /\ phase = "write" /\ pc = 1 /\ pos = 0 /\ file = Empty /\ res = Empty /\ kept = Empty
  BY DEF Init
<1>2. DOMAIN Empty = {}
  BY DEF Empty
<1>3. MarksKept
  BY <1>1, <1>2 DEF MarksKept
<1>4. CellsBefore /\ Apart2(file) /\ Tiled /\ HolesMatch
  BY <1>1, <1>2 DEF CellsBefore, Apart2, Tiled, HolesMatch
<1>5. WriteInv
  BY <1>1, <1>3, <1>4 DEF WriteInv
<1> QED
  BY <1>1, <1>5 DEF IndInv

\* Every operation keeps the invariant.
LEMMA NextKeeps == IndInv /\ [Next]_vars => IndInv'
<1> SUFFICES ASSUME IndInv, [Next]_vars PROVE IndInv'
  OBVIOUS
<1> DEFINE Reads2 == ReadField \/ ReadMode \/ ReadMove \/ ReadStep \/ ReadCheck
           Writes2 == WriteField \/ WritePad \/ WriteMode \/ WriteSwitch \/ WriteStep \/ WriteReserve
                      \/ WriteFill
<1>1. CASE Reads2
  <2>1. phase = "read" /\ UNCHANGED <<doc, phase, file, res>>
    BY <1>1 DEF ReadField, ReadMode, ReadMove, ReadStep, ReadCheck, Reading
  <2> QED
    BY <2>1, ReadKeeps
<1>2. CASE ReadDone \/ Finished
  <2>1. phase \in {"read", "done"} /\ phase' = "done" /\ UNCHANGED <<doc, file, res>>
    BY <1>2 DEF ReadDone, Finished, vars
  <2> QED
    BY <2>1, ReadKeeps
<1>3. CASE (Writes2 \/ WriteDone) /\ ~OneWay(doc)
  <2>1. UNCHANGED doc /\ phase' \in {"write", "read", "done"}
    BY <1>3 DEF WriteField, WritePad, WriteMode, WriteSwitch, WriteStep, WriteReserve, WriteFill,
                WriteDone, Writing
  <2> QED
    BY <1>3, <2>1, OtherKeeps
<1>4. CASE OneWay(doc) /\ (WriteSwitch \/ WriteStep)
  <2>1. Writing({"stream"}) \/ Writing({"step_at", "step_out"})
    BY <1>4 DEF WriteSwitch, WriteStep
  <2>2. W.op \in {"stream"} \/ W.op \in {"step_at", "step_out"}
    BY <1>4, <2>1, AtWrite
  <2>3. W.op \notin {"step_at", "step_out", "stream"}
    BY <1>4, <2>1, AtWrite
  <2> QED
    BY <2>2, <2>3
<1>5. CASE UNCHANGED vars
  <2>1. UNCHANGED <<doc, phase, pc, pos, file, res, kept>>
    BY <1>5 DEF vars
  <2> QED
    BY <2>1 DEF IndInv, OneWay, WriteInv, FileOK, MarksKept, CellsBefore, Tiled, HolesMatch
<1> QED
  BY <1>1, <1>2, <1>3, <1>4, <1>5, WriteFieldKeeps, WritePadKeeps, WriteModeKeeps, WriteReserveKeeps,
     WriteFillKeeps, WriteDoneKeeps DEF Next

\* The invariant holds in every state.
THEOREM Invariance == Spec => []IndInv
BY InitHolds, NextKeeps, PTL DEF Spec

\* Whatever the format, a writer that goes forward writes nothing over
\* anything else, fills included, and its placeholders are exactly the open
\* reservations.
THEOREM ForwardWritersAreDisjoint == Spec => [](OneWay(doc) => CellsDisjoint)
<1>1. ASSUME IndInv, OneWay(doc) PROVE CellsDisjoint
  <2>1. (\A o \in DOMAIN file : o \in Nat /\ file[o].w \in Nat \ {0}) /\ Apart2(file) /\ HolesMatch
    <3>1. CASE phase = "write"
      BY <1>1, <3>1 DEF IndInv, WriteInv, CellsBefore
    <3>2. CASE phase # "write"
      BY <1>1, <3>2 DEF IndInv, FileOK
    <3> QED
      BY <3>1, <3>2
  <2>2. ASSUME NEW o \in DOMAIN file, NEW k \in 1 .. file[o].w - 1 PROVE o + k \notin DOMAIN file
    <3>1. o \in Nat /\ file[o].w \in Nat /\ k \in Nat \ {0} /\ k < file[o].w
      BY <2>1
    <3>2. o < o + k /\ ~(o + file[o].w <= o + k)
      BY <3>1
    <3> QED
      BY <2>1, <3>2 DEF Apart2
  <2>3. {o \in DOMAIN file : file[o].name = HoleName} = {res[k][1] : k \in DOMAIN res}
    BY <2>1 DEF HolesMatch
  <2> QED
    BY <2>2, <2>3 DEF CellsDisjoint
<1>2. IndInv => (OneWay(doc) => CellsDisjoint)
  BY <1>1
<1> QED
  BY <1>2, Invariance, PTL

\* Such a writer leaves no gap: every byte before its position is in a cell.
THEOREM ForwardWritersLeaveNoGap == Spec => [](OneWay(doc) /\ phase = "write" => Tiled)
<1>1. IndInv => (OneWay(doc) /\ phase = "write" => Tiled)
  BY DEF IndInv, WriteInv
<1> QED
  BY <1>1, Invariance, PTL

\* No placeholder is left.
NoHole == \A o \in DOMAIN file : file[o].name # HoleName

\* A file that such a writer finished holds no placeholder any more: every
\* offset and size in it was filled, with the width that was reserved.
THEOREM FinishedFilesHaveNoHole == Spec => [](OneWay(doc) /\ phase # "write" => NoHole)
<1>1. ASSUME IndInv, OneWay(doc), phase # "write" PROVE NoHole
  <2>1. HolesMatch /\ res = Empty
    BY <1>1 DEF IndInv, FileOK
  <2>2. DOMAIN res = {}
    BY <2>1 DEF Empty
  <2> QED
    BY <2>1, <2>2 DEF HolesMatch, NoHole
<1>2. IndInv => (OneWay(doc) /\ phase # "write" => NoHole)
  BY <1>1
<1> QED
  BY <1>2, Invariance, PTL
=============================================================================
