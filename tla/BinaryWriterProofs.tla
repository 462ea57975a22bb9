------------------------- MODULE BinaryWriterProofs -------------------------
(***************************************************************************)
(* Theorems about the binary writer, for every set of names, kinds, sizes, *)
(* alignments and targets, every chunk size, every depth of the step stack *)
(* and every length a stream may reach, on both backends.                  *)
(***************************************************************************)
EXTENDS BinaryWriter, TLAPS

Stream == [backend : Backends, img : [Offsets -> Cells], pos : Nat, at : Nat, len : 0 .. MaxLen]

\* What any write of cells c may do to a stream: the length never shrinks,
\* and a cell keeps its value, becomes c, or is a gap that became a zero.
Frame(s, c, t) ==
    /\ t \in Stream
    /\ t.len >= s.len /\ t.backend = s.backend
    /\ \A o \in Offsets : \/ t.img[o] = s.img[o]
                          \/ t.img[o] = c
                          \/ t.img[o] = Zero

\* The cells of the model are different from one another.
LEMMA CellsDiffer ==
    /\ Absent # Zero /\ Absent # Data /\ Zero # Data
    /\ \A k \in Keys : Hole(k) # Absent /\ Hole(k) # Zero /\ Hole(k) # Data
    /\ \A k, j \in Keys : Hole(k) = Hole(j) => k = j
<1>1. Absent # Zero /\ Absent # Data /\ Zero # Data
  BY DEF Absent, Zero, Data
<1>2. ASSUME NEW k \in Keys
      PROVE  Hole(k) # Absent /\ Hole(k) # Zero /\ Hole(k) # Data
  BY DEF Absent, Zero, Data, Hole
<1>3. ASSUME NEW k \in Keys, NEW j \in Keys, Hole(k) = Hole(j)
      PROVE  k = j
  BY <1>3 DEF Hole
<1> QED
  BY <1>1, <1>2, <1>3

\* kind_width knows every kind of key.
LEMMA WidthType ==
    ASSUME NEW k \in Keys PROVE Width(k) \in Nat \ {0}
<1>1. k[2] \in AllKinds
  BY KindsAssumption DEF Keys
<1> QED
  BY <1>1 DEF AllKinds, Width, kind_width

\* Putting m cells where the next byte goes, field by field.
LEMMA PutFields ==
    ASSUME NEW s \in Stream, NEW c \in Cells, NEW m \in Nat
    PROVE  /\ Put(s, c, m) \in Stream
           /\ Put(s, c, m).backend = s.backend
           /\ Put(s, c, m).pos = s.pos + m /\ Put(s, c, m).at = s.at + m
           /\ Put(s, c, m).len = s.len
           /\ \A o \in Offsets :
                 Put(s, c, m).img[o] =
                     IF s.at <= o /\ o < s.at + m THEN c
                     ELSE IF m > 0 /\ o < s.at /\ s.img[o] = Absent THEN Zero
                     ELSE s.img[o]
<1> DEFINE im == [o \in Offsets |->
                     IF s.at <= o /\ o < s.at + m THEN c
                     ELSE IF m > 0 /\ o < s.at /\ s.img[o] = Absent THEN Zero
                     ELSE s.img[o]]
<1>1. im \in [Offsets -> Cells]
  BY DEF Stream, Cells
<1>2. Put(s, c, m) = [[[s EXCEPT !.img = im] EXCEPT !.pos = s.pos + m] EXCEPT !.at = s.at + m]
  BY DEF Put
<1>3. \A o \in Offsets : im[o] = IF s.at <= o /\ o < s.at + m THEN c
                                 ELSE IF m > 0 /\ o < s.at /\ s.img[o] = Absent THEN Zero
                                 ELSE s.img[o]
  OBVIOUS
<1> HIDE DEF im
<1>4. s.pos + m \in Nat /\ s.at + m \in Nat
  BY DEF Stream
<1>5. Put(s, c, m) = [backend |-> s.backend, img |-> im, pos |-> s.pos + m, at |-> s.at + m,
                      len |-> s.len]
  BY <1>1, <1>2 DEF Stream
<1> QED
  BY <1>1, <1>3, <1>4, <1>5 DEF Stream

\* Bringing the length up to date, field by field.
LEMMA GrownFields ==
    ASSUME NEW s \in Stream, s.pos <= MaxLen
    PROVE  /\ Grown(s) \in Stream
           /\ Grown(s).backend = s.backend
           /\ Grown(s).pos = s.pos /\ Grown(s).at = s.at
           /\ Grown(s).len = IF s.len > s.pos THEN s.len ELSE s.pos
           /\ Grown(s).img = s.img
<1>1. Grown(s) = [backend |-> s.backend, img |-> s.img, pos |-> s.pos, at |-> s.at,
                  len |-> IF s.len > s.pos THEN s.len ELSE s.pos]
  BY DEF Grown, Stream, Larger
<1> QED
  BY <1>1, MaxLenAssumption DEF Stream

\* A request there is room for ends within the stream.
LEMMA RoomBound ==
    ASSUME NEW s \in Stream, NEW m \in Nat, Room(s, m)
    PROVE  s.pos + m <= MaxLen
  BY MaxLenAssumption DEF Room, Larger, Stream

\* A complete request: its cells are in place and the length covers what the
\* stream counts of it.
LEMMA CompleteFrame ==
    ASSUME NEW s \in Stream, NEW c \in Cells, NEW m \in Nat \ {0}, Room(s, m)
    PROVE  /\ Frame(s, c, Grown(Put(s, c, m)))
           /\ Grown(Put(s, c, m)).pos = s.pos + m /\ Grown(Put(s, c, m)).at = s.at + m
           /\ Grown(Put(s, c, m)).len = IF s.len > s.pos + m THEN s.len ELSE s.pos + m
           /\ \A o \in Offsets :
                 Grown(Put(s, c, m)).img[o] =
                     IF s.at <= o /\ o < s.at + m THEN c
                     ELSE IF o < s.at /\ s.img[o] = Absent THEN Zero
                     ELSE s.img[o]
<1> DEFINE p == Put(s, c, m)
           g == Grown(p)
<1>1. /\ p \in Stream /\ p.backend = s.backend /\ p.pos = s.pos + m /\ p.at = s.at + m
      /\ p.len = s.len
      /\ \A o \in Offsets :
            p.img[o] = IF s.at <= o /\ o < s.at + m THEN c
                       ELSE IF m > 0 /\ o < s.at /\ s.img[o] = Absent THEN Zero
                       ELSE s.img[o]
  BY PutFields
<1> HIDE DEF p
<1>2. /\ g \in Stream /\ g.backend = s.backend /\ g.pos = s.pos + m /\ g.at = s.at + m
      /\ g.len = (IF s.len > s.pos + m THEN s.len ELSE s.pos + m)
      /\ g.img = p.img
  BY <1>1, GrownFields, RoomBound
<1>3. \A o \in Offsets :
            g.img[o] = IF s.at <= o /\ o < s.at + m THEN c
                       ELSE IF o < s.at /\ s.img[o] = Absent THEN Zero
                       ELSE s.img[o]
  BY <1>1, <1>2
<1> HIDE DEF g
<1>4. s.pos \in Nat /\ s.len \in Nat
  BY MaxLenAssumption DEF Stream
<1>5. g.len >= s.len
  BY <1>2, <1>4
<1>6. Frame(s, c, g)
  BY <1>2, <1>3, <1>5 DEF Frame
<1> QED
  BY <1>2, <1>3, <1>6 DEF p, g

\* A request cut short: the length stays.
LEMMA PartialFrame ==
    ASSUME NEW s \in Stream, NEW c \in Cells, NEW m \in Nat
    PROVE  Frame(s, c, Put(s, c, m))
<1> DEFINE p == Put(s, c, m)
<1>1. /\ p \in Stream /\ p.backend = s.backend /\ p.len = s.len
      /\ \A o \in Offsets :
            p.img[o] = IF s.at <= o /\ o < s.at + m THEN c
                       ELSE IF m > 0 /\ o < s.at /\ s.img[o] = Absent THEN Zero
                       ELSE s.img[o]
  BY PutFields
<1> HIDE DEF p
<1>2. p.len >= s.len
  BY <1>1, MaxLenAssumption DEF Stream
<1> QED
  BY <1>1, <1>2 DEF Frame, p

\* Every stream is framed by itself.
LEMMA SelfFrame ==
    ASSUME NEW s \in Stream, NEW c
    PROVE  Frame(s, c, s)
<1>1. s.len \in Nat
  BY MaxLenAssumption DEF Stream
<1> QED
  BY <1>1 DEF Frame

\* sf_ostream_write, every outcome: the frame, the exact result of a request
\* that went well, and a memory stream that a failure leaves alone.
LEMMA WriteOutcome ==
    ASSUME NEW s \in Stream, NEW c \in Cells, NEW n \in Nat,
           NEW w \in Write(s, c, n)
    PROVE  /\ Frame(s, c, w[2])
           /\ w[1] \in {"OK", "FAILED"}
           /\ w[1] = "OK" /\ n > 0 => Room(s, n) /\ w[2] = Grown(Put(s, c, n))
           /\ w[1] # "OK" => n > 0
           /\ w[1] # "OK" /\ s.backend = "memory" => w[2] = s
<1> DEFINE cut == {m \in 0 .. n - 1 : Room(s, m)}
<1>1. CASE n = 0
  <2>1. w = <<"OK", s>>
    BY <1>1 DEF Write
  <2> QED
    BY <1>1, <2>1, SelfFrame
<1>2. CASE n # 0
  <2>1. \/ Room(s, n) /\ w = <<"OK", Grown(Put(s, c, n))>>
        \/ s.backend = "memory" /\ w = <<"FAILED", s>>
        \/ s.backend # "memory" /\ \E m \in cut : w = <<"FAILED", Put(s, c, m)>>
    <3>1. \/ w \in IF Room(s, n) THEN {<<"OK", Grown(Put(s, c, n))>>} ELSE {}
          \/ w \in IF s.backend = "memory" THEN {<<"FAILED", s>>}
                   ELSE {<<"FAILED", Put(s, c, m)>> : m \in cut}
      BY <1>2 DEF Write
    <3> HIDE DEF cut
    <3> QED
      BY <3>1, Zenon
  <2>2. CASE Room(s, n) /\ w = <<"OK", Grown(Put(s, c, n))>>
    BY <1>2, <2>2, CompleteFrame
  <2>3. CASE s.backend = "memory" /\ w = <<"FAILED", s>>
    BY <1>2, <2>3, SelfFrame
  <2>4. CASE s.backend # "memory" /\ \E m \in cut : w = <<"FAILED", Put(s, c, m)>>
    <3>1. PICK m \in cut : w = <<"FAILED", Put(s, c, m)>>
      BY <2>4
    <3> QED
      BY <1>2, <2>4, <3>1, PartialFrame
  <2> QED
    BY <2>1, <2>2, <2>3, <2>4
<1> QED
  BY <1>1, <1>2

\* Two writes of the same cells, one after the other.
LEMMA FrameTransitive ==
    ASSUME NEW c, NEW s \in Stream, NEW t, NEW u, Frame(s, c, t), Frame(t, c, u)
    PROVE  Frame(s, c, u)
<1>1. s.len \in Nat /\ t.len \in Nat /\ u.len \in Nat
  BY MaxLenAssumption DEF Frame, Stream
<1>2. u.len >= s.len
  BY <1>1 DEF Frame
<1> QED
  BY <1>2 DEF Frame

\* A loop of writes: whole pieces, and then what one write of the rest does.
LEMMA WriteChunkedOutcome ==
    ASSUME NEW s \in Stream, NEW c \in Cells,
           NEW n \in Nat, NEW chunk \in Nat \ {0},
           NEW w \in WriteChunked(s, c, n, chunk)
    PROVE  Frame(s, c, w[2])
<1> DEFINE Before == {i \in 0 .. n : i * chunk <= n /\ (i > 0 => i * chunk < n)
                                    /\ Room(s, i * chunk)}
           done(i) == IF i = 0 THEN s ELSE Grown(Put(s, c, i * chunk))
           rest(i) == IF n - i * chunk > chunk THEN chunk ELSE n - i * chunk
<1>1. PICK i \in Before : w \in Write(done(i), c, rest(i))
  BY DEF WriteChunked
<1> DEFINE q == i * chunk
<1>2. i \in Nat /\ q \in Nat /\ q <= n /\ Room(s, q)
  BY <1>1
<1>3. rest(i) \in Nat
  BY <1>2
<1>4. i # 0 => q # 0
  BY <1>2
<1>5. done(i) \in Stream /\ Frame(s, c, done(i))
  <2>1. CASE i = 0
    BY <2>1, SelfFrame
  <2>2. CASE i # 0
    <3>1. Frame(s, c, Grown(Put(s, c, q)))
      BY <1>2, <1>4, <2>2, CompleteFrame
    <3> QED
      BY <2>2, <3>1 DEF Frame
  <2> QED
    BY <2>1, <2>2
<1> HIDE DEF done, rest
<1>6. Frame(done(i), c, w[2])
  BY <1>1, <1>3, <1>5, WriteOutcome
<1> QED
  BY <1>5, <1>6, FrameTransitive

\* Both positions of a stream at p, and nothing else.
LEMMA MovedFields ==
    ASSUME NEW s \in Stream, NEW p \in Nat
    PROVE  /\ MovedTo(s, p) \in Stream
           /\ MovedTo(s, p).img = s.img /\ MovedTo(s, p).len = s.len
           /\ MovedTo(s, p).backend = s.backend
           /\ MovedTo(s, p).pos = p /\ MovedTo(s, p).at = p
<1>1. MovedTo(s, p) = [[s EXCEPT !.pos = p] EXCEPT !.at = p]
  BY DEF MovedTo
<1>2. MovedTo(s, p) = [backend |-> s.backend, img |-> s.img, pos |-> p, at |-> p, len |-> s.len]
  BY <1>1 DEF Stream
<1> QED
  BY <1>2 DEF Stream

\* sf_ostream_seek moves the positions and nothing else.
LEMMA SeekOutcome ==
    ASSUME NEW s \in Stream, NEW p \in Nat, NEW w \in Seek(s, p)
    PROVE  /\ w[2] \in Stream
           /\ w[2].img = s.img /\ w[2].len = s.len /\ w[2].backend = s.backend
           /\ w[1] = "OK" => w[2].pos = p /\ w[2].at = p
<1>1. w = <<"OK", MovedTo(s, p)>> \/ w = <<"FAILED", s>>
  BY DEF Seek
<1> QED
  BY <1>1, MovedFields

\* sfi_ostream_to_array may lose the file pointer, and changes nothing else.
LEMMA ToArrayOutcome ==
    ASSUME NEW s \in Stream, NEW w \in ToArray(s)
    PROVE  w[2] \in Stream /\ w[2].img = s.img /\ w[2].len = s.len
<1>1. w[2] = s \/ \E a \in Nat : w[2] = [s EXCEPT !.at = a]
  <2>1. s.len \in Nat /\ \A a \in 0 .. s.len : a \in Nat
    BY MaxLenAssumption DEF Stream
  <2> QED
    BY <2>1 DEF ToArray
<1> QED
  BY <1>1 DEF Stream
-----------------------------------------------------------------------------
StreamOK == st \in Stream

CallerOK == /\ steps \in Seq(Nat) /\ Len(steps) <= MaxSteps
            /\ res \in [Keys -> Nat \cup {NoPos}]
            /\ varint_long \in BOOLEAN /\ closed \in BOOLEAN /\ torn \in BOOLEAN

ClosedIsEmpty == closed => \A k \in Keys : res[k] = NoPos

\* The inductive invariant: a placeholder byte can only be accounted for
\* while its reservation lies inside what the stream reports as written,
\* and a closed writer has no reservation a later call could revive.
IndInv == StreamOK /\ CallerOK /\ ReservedIsWritten /\ HolesAreReserved /\ ClosedIsEmpty

\* A new writer satisfies the invariant.
LEMMA InitHolds == Init => IndInv
<1> SUFFICES ASSUME Init PROVE IndInv
  OBVIOUS
<1>1. PICK b \in Backends : st = EmptyStream(b)
  BY DEF Init
<1>2. /\ st.backend = b /\ st.img = [o \in Offsets |-> Absent] /\ st.pos = 0 /\ st.at = 0
      /\ st.len = 0
      /\ st \in Stream
  <2>1. [o \in Offsets |-> Absent] \in [Offsets -> Cells]
    BY DEF Cells
  <2> QED
    BY <1>1, <2>1, MaxLenAssumption DEF EmptyStream, Stream
<1>3. StreamOK
  BY <1>2 DEF StreamOK
<1>4. CallerOK
  <2>1. steps \in Seq(Nat) /\ Len(steps) <= MaxSteps /\ res \in [Keys -> Nat \cup {NoPos}]
    BY BoundsAssumption DEF Init
  <2> QED
    BY <2>1 DEF Init, CallerOK
<1>5. ReservedIsWritten /\ ClosedIsEmpty
  BY DEF Init, ReservedIsWritten, ClosedIsEmpty
<1>6. HolesAreReserved
  BY <1>2, CellsDiffer DEF HolesAreReserved
<1> QED
  BY <1>3, <1>4, <1>5, <1>6 DEF IndInv

\* A step that writes no placeholder and drops no reservation.
LEMMA NoNewHole ==
    ASSUME IndInv, st' \in Stream, st'.len >= st.len, CallerOK',
           res' = res, closed' = closed, torn' = torn,
           \A o \in Offsets : \A k \in Keys : st'.img[o] = Hole(k) => st.img[o] = Hole(k)
    PROVE  IndInv'
<1>1. st.len \in Nat /\ st'.len \in Nat
  BY MaxLenAssumption DEF IndInv, StreamOK, Stream
<1>2. ReservedIsWritten'
  <2> SUFFICES ASSUME NEW k \in Keys, res[k] # NoPos
               PROVE  res[k] + Width(k) <= st'.len
    BY DEF ReservedIsWritten
  <2>1. res[k] \in Nat /\ Width(k) \in Nat /\ res[k] + Width(k) <= st.len
    BY WidthType DEF IndInv, CallerOK, ReservedIsWritten
  <2> QED
    BY <1>1, <2>1
<1>3. HolesAreReserved'
  BY DEF IndInv, HolesAreReserved, Region
<1>4. ClosedIsEmpty'
  BY DEF IndInv, ClosedIsEmpty
<1> QED
  BY <1>2, <1>3, <1>4 DEF IndInv, StreamOK

\* write_* and the padding loops put no placeholder anywhere.
LEMMA FrameKeeps ==
    ASSUME IndInv, NEW c \in {Data, Zero}, Frame(st, c, st'),
           CallerOK', res' = res, closed' = closed, torn' = torn
    PROVE  IndInv'
<1>1. \A o \in Offsets : \A k \in Keys : st'.img[o] = Hole(k) => st.img[o] = Hole(k)
  BY CellsDiffer DEF Frame
<1> QED
  BY <1>1, NoNewHole DEF Frame

\* write_* keeps the invariant.
LEMMA WriteDataKeeps ==
    ASSUME IndInv, NEW n \in Sizes, NEW unit \in Units, WriteData(n, unit) PROVE IndInv'
<1>1. PICK w \in WriteChunked(st, Data, n, unit) : st' = w[2]
  BY DEF WriteData
<1>2. n \in Nat /\ unit \in Nat \ {0} /\ Data \in Cells
  BY BoundsAssumption, CellsDiffer DEF Cells
<1>3. Frame(st, Data, st')
  BY <1>1, <1>2, WriteChunkedOutcome DEF IndInv, StreamOK
<1>4. CallerOK' /\ res' = res /\ closed' = closed /\ torn' = torn
  BY DEF WriteData, IndInv, CallerOK
<1> QED
  BY <1>3, <1>4, FrameKeeps

\* pad, pad_ff and pad_relative keep the invariant.
LEMMA PadFromKeeps ==
    ASSUME IndInv, NEW a \in Aligns, NEW start \in Nat, PadFrom(start, a) PROVE IndInv'
<1> DEFINE rem == (st.pos - start) % a
           n   == IF rem = 0 THEN 0 ELSE a - rem
<1>1. PICK w \in WriteChunked(st, Zero, n, PadChunk) : st' = w[2]
  BY DEF PadFrom
<1>2. n \in Nat
  <2>1. a \in Nat \ {0} /\ st.pos - start \in Nat
    BY BoundsAssumption DEF PadFrom, IndInv, StreamOK, Stream
  <2>2. rem \in 0 .. a - 1
    BY <2>1
  <2> QED
    BY <2>1, <2>2
<1>3. Zero \in Cells /\ PadChunk \in Nat \ {0}
  BY BoundsAssumption, CellsDiffer DEF Cells
<1> HIDE DEF n
<1>4. Frame(st, Zero, st')
  BY <1>1, <1>2, <1>3, WriteChunkedOutcome DEF IndInv, StreamOK
<1>5. CallerOK' /\ res' = res /\ closed' = closed /\ torn' = torn
  BY DEF PadFrom, IndInv, CallerOK
<1> QED
  BY <1>4, <1>5, FrameKeeps

\* step_in keeps the invariant.
LEMMA StepInKeeps ==
    ASSUME IndInv, NEW p \in Targets, StepIn(p) PROVE IndInv'
<1>1. st \in Stream /\ p \in Nat
  BY BoundsAssumption DEF IndInv, StreamOK
<1>2. st' \in Stream /\ st'.img = st.img /\ st'.len = st.len
  <2>1. CASE st' = st
    BY <1>1, <2>1
  <2>2. CASE \E w \in Seek(st, p) : st' = w[2]
    BY <1>1, <2>2, SeekOutcome
  <2> QED
    BY <2>1, <2>2 DEF StepIn
<1>3. steps' \in Seq(Nat) /\ Len(steps') <= MaxSteps
  <2>1. st.pos \in Nat /\ steps \in Seq(Nat) /\ Len(steps) < MaxSteps
    BY <1>1 DEF StepIn, Stream, IndInv, CallerOK
  <2>2. steps' = steps \/ steps' = Append(steps, st.pos)
    BY DEF StepIn
  <2> QED
    BY <2>1, <2>2, BoundsAssumption, SMTT(20)
<1>4. CallerOK' /\ res' = res /\ closed' = closed /\ torn' = torn
  BY <1>3 DEF StepIn, IndInv, CallerOK
<1>5. st'.len >= st.len
  BY <1>1, <1>2, MaxLenAssumption DEF Stream
<1> QED
  BY <1>2, <1>4, <1>5, NoNewHole

\* Popping the step stack.
LEMMA PopType ==
    ASSUME NEW s \in Seq(Nat), s # <<>>
    PROVE  SubSeq(s, 1, Len(s) - 1) \in Seq(Nat) /\ Len(SubSeq(s, 1, Len(s) - 1)) = Len(s) - 1
<1> DEFINE n == Len(s) - 1
<1>1. n \in Nat /\ Len(s) = n + 1
  OBVIOUS
<1> HIDE DEF n
<1>2. Len(SubSeq(s, 1, n)) = n
  BY <1>1
<1>3. SubSeq(s, 1, n) \in Seq(Nat)
  BY <1>1
<1> QED
  BY <1>2, <1>3 DEF n

\* step_out keeps the invariant.
LEMMA StepOutKeeps ==
    ASSUME IndInv, StepOut PROVE IndInv'
<1>1. st \in Stream /\ steps \in Seq(Nat) /\ Len(steps) <= MaxSteps
  BY DEF IndInv, StreamOK, CallerOK
<1>2. /\ st' \in Stream /\ st'.img = st.img /\ st'.len = st.len
      /\ steps' \in Seq(Nat) /\ Len(steps') <= MaxSteps
  <2>1. CASE st' = st /\ steps' = steps
    BY <1>1, <2>1
  <2>2. CASE /\ steps # <<>> /\ steps' = SubSeq(steps, 1, Len(steps) - 1)
             /\ \E w \in Seek(st, steps[Len(steps)]) : st' = w[2]
    <3>1. Len(steps) \in Nat \ {0}
      BY <1>1, <2>2
    <3>2. steps[Len(steps)] \in Nat
      BY <1>1, <3>1
    <3>3. steps' \in Seq(Nat) /\ Len(steps') = Len(steps) - 1
      BY <1>1, <2>2, <3>1, PopType
    <3>4. Len(steps') <= MaxSteps
      BY <1>1, <3>1, <3>3, BoundsAssumption
    <3> QED
      BY <1>1, <2>2, <3>2, <3>3, <3>4, SeekOutcome
  <2> QED
    BY <2>1, <2>2 DEF StepOut
<1>3. CallerOK' /\ res' = res /\ closed' = closed /\ torn' = torn
  BY <1>2 DEF StepOut, IndInv, CallerOK
<1>4. st'.len >= st.len
  BY <1>1, <1>2, MaxLenAssumption DEF Stream
<1> QED
  BY <1>2, <1>3, <1>4, NoNewHole

\* A placeholder written in full is its reservation's region; one cut short
\* sets torn, or never reached the stream.
LEMMA ReserveKeeps ==
    ASSUME IndInv, NEW key \in Keys, Reserve(key) PROVE IndInv'
<1>1. st \in Stream /\ st.pos \in Nat /\ st.len \in Nat
  BY MaxLenAssumption DEF IndInv, StreamOK, Stream
<1>2. Width(key) \in Nat \ {0} /\ Hole(key) \in Cells
  BY WidthType, CellsDiffer DEF Cells
<1>3. CASE UNCHANGED <<st, res, torn>>
  <2>1. CallerOK' /\ closed' = closed
    BY <1>3 DEF Reserve, IndInv, CallerOK
  <2> QED
    BY <1>1, <1>3, <2>1, NoNewHole
<1>4. CASE /\ res[key] = NoPos
           /\ \E w \in Write(st, Hole(key), Width(key)) :
                 /\ st' = w[2]
                 /\ res' = IF w[1] = "OK" THEN [res EXCEPT ![key] = st.pos] ELSE res
                 /\ torn' = (torn \/ (w[2] # st /\ (w[1] # "OK" \/ st.at # st.pos)))
  <2>1. PICK w \in Write(st, Hole(key), Width(key)) :
                 /\ st' = w[2]
                 /\ res' = IF w[1] = "OK" THEN [res EXCEPT ![key] = st.pos] ELSE res
                 /\ torn' = (torn \/ (w[2] # st /\ (w[1] # "OK" \/ st.at # st.pos)))
    BY <1>4
  <2>2. /\ Frame(st, Hole(key), st')
        /\ w[1] = "OK" => /\ Room(st, Width(key))
                          /\ st' = Grown(Put(st, Hole(key), Width(key)))
    BY <1>1, <1>2, <2>1, WriteOutcome
  <2>3. CASE w[1] # "OK"
    <3>1. res' = res
      BY <2>1, <2>3
    <3>2. steps' \in Seq(Nat) /\ Len(steps') <= MaxSteps /\ res' \in [Keys -> Nat \cup {NoPos}]
      BY <3>1 DEF Reserve, IndInv, CallerOK
    <3>3. CASE st' = st
      <4>1. torn' = torn
        BY <2>1, <2>3, <3>3 DEF IndInv, CallerOK
      <4>2. CallerOK' /\ closed' = closed
        BY <3>2, <4>1 DEF Reserve, IndInv, CallerOK
      <4> QED
        BY <1>1, <3>1, <3>3, <4>1, <4>2, NoNewHole
    <3>4. CASE st' # st
      <4>1. torn'
        BY <2>1, <2>3, <3>4
      <4>2. torn' \in BOOLEAN
        BY <2>1
      <4>3. CallerOK' /\ closed' = closed
        BY <3>2, <4>2 DEF Reserve, IndInv, CallerOK
      <4>4. ReservedIsWritten'
        <5> SUFFICES ASSUME NEW k \in Keys, res[k] # NoPos
                     PROVE  res[k] + Width(k) <= st'.len
          BY <3>1 DEF ReservedIsWritten
        <5>1. /\ res[k] \in Nat /\ Width(k) \in Nat /\ res[k] + Width(k) <= st.len
              /\ st'.len \in Nat /\ st'.len >= st.len
          BY <2>2, WidthType, MaxLenAssumption
             DEF IndInv, CallerOK, ReservedIsWritten, Frame, Stream
        <5> QED
          BY <1>1, <5>1
      <4> QED
        BY <2>2, <3>1, <4>1, <4>3, <4>4
           DEF IndInv, StreamOK, Frame, HolesAreReserved, ClosedIsEmpty
    <3> QED
      BY <3>3, <3>4
  <2>4. CASE w[1] = "OK"
    <3>1. res' = [res EXCEPT ![key] = st.pos]
      BY <2>1, <2>4
    <3>2. /\ res \in [Keys -> Nat \cup {NoPos}]
          /\ steps' \in Seq(Nat) /\ Len(steps') <= MaxSteps
      BY DEF Reserve, IndInv, CallerOK
    <3>3. res' \in [Keys -> Nat \cup {NoPos}]
      BY <1>1, <3>1, <3>2
    <3>4. torn' \in BOOLEAN
      BY <2>1
    <3>5. CallerOK' /\ closed' = closed /\ ~closed'
      BY <3>2, <3>3, <3>4 DEF Reserve, IndInv, CallerOK
    <3>6. /\ st'.pos = st.pos + Width(key)
          /\ st'.len = IF st.len > st.pos + Width(key) THEN st.len ELSE st.pos + Width(key)
          /\ \A o \in Offsets :
                st'.img[o] = IF st.at <= o /\ o < st.at + Width(key) THEN Hole(key)
                             ELSE IF o < st.at /\ st.img[o] = Absent THEN Zero
                             ELSE st.img[o]
      BY <1>1, <1>2, <2>2, <2>4, CompleteFrame
    <3>7. ReservedIsWritten'
      <4> SUFFICES ASSUME NEW k \in Keys, res'[k] # NoPos
                   PROVE  res'[k] + Width(k) <= st'.len
        BY DEF ReservedIsWritten
      <4>1. CASE k = key
        <5>1. res'[k] = st.pos
          BY <3>1, <3>2, <4>1
        <5> QED
          BY <1>1, <1>2, <3>6, <4>1, <5>1
      <4>2. CASE k # key
        <5>1. res'[k] = res[k]
          BY <3>1, <3>2, <4>2
        <5>2. res[k] \in Nat /\ Width(k) \in Nat /\ res[k] + Width(k) <= st.len
          BY <3>2, <5>1, WidthType DEF IndInv, ReservedIsWritten
        <5> QED
          BY <1>1, <1>2, <3>6, <5>1, <5>2
      <4> QED
        BY <4>1, <4>2
    <3>8. HolesAreReserved'
      <4> SUFFICES ASSUME ~torn', NEW o \in Offsets, NEW k \in Keys, st'.img[o] = Hole(k)
                   PROVE  res'[k] # NoPos /\ o \in Region(k)'
        BY DEF HolesAreReserved
      <4>0. ~torn /\ st.at = st.pos
        <5>1. st' # st
          BY <1>1, <1>2, <3>6
        <5> QED
          BY <2>1, <5>1
      <4>1. CASE st.pos <= o /\ o < st.pos + Width(key)
        <5>1. k = key
          BY <3>6, <4>0, <4>1, CellsDiffer
        <5>2. res'[k] = st.pos
          BY <3>1, <3>2, <5>1
        <5> QED
          BY <1>1, <4>1, <5>1, <5>2, BoundsAssumption DEF Region
      <4>2. CASE ~(st.pos <= o /\ o < st.pos + Width(key))
        <5>1. st.img[o] = Hole(k)
          BY <3>6, <4>0, <4>2, CellsDiffer
        <5>2. res[k] # NoPos /\ o \in Region(k)
          BY <4>0, <5>1 DEF IndInv, HolesAreReserved
        <5>3. res'[k] = res[k]
          BY <1>4, <3>1, <3>2, <5>2
        <5> QED
          BY <5>2, <5>3 DEF Region
      <4> QED
        BY <4>1, <4>2
    <3> QED
      BY <2>2, <3>5, <3>7, <3>8 DEF IndInv, StreamOK, Frame, ClosedIsEmpty
  <2> QED
    BY <2>3, <2>4
<1> QED
  BY <1>3, <1>4 DEF Reserve

\* What the call of fill_* that writes does: the two streams it goes through.
LEMMA FillWrites ==
    ASSUME IndInv, NEW key \in Keys, res[key] # NoPos,
           NEW w \in Write(MovedTo(st, res[key]), Data, Width(key)),
           NEW o \in Seek(w[2], st.pos), st' = o[2]
    PROVE  /\ st' \in Stream /\ st'.len >= st.len
           /\ \A i \in Offsets : st'.img[i] \in {st.img[i], Data, Zero}
           /\ w[1] = "OK" /\ o[1] = "OK" =>
                 /\ st'.pos = st.pos /\ st'.at = st.pos /\ st'.len = st.len
                 /\ \A i \in Offsets : IF i \in Region(key) THEN st'.img[i] = Data
                                       ELSE st.img[i] # Absent => st'.img[i] = st.img[i]
<1> DEFINE s == MovedTo(st, res[key])
<1>1. /\ st \in Stream /\ st.pos \in Nat /\ st.len \in 0 .. MaxLen
      /\ res[key] \in Nat /\ Width(key) \in Nat \ {0} /\ res[key] + Width(key) <= st.len
  BY WidthType DEF IndInv, StreamOK, Stream, CallerOK, ReservedIsWritten
<1>2. /\ s \in Stream /\ s.img = st.img /\ s.len = st.len /\ s.pos = res[key] /\ s.at = res[key]
  BY <1>1, MovedFields
<1>3. w \in Write(s, Data, Width(key))
  OBVIOUS
<1> HIDE DEF s
<1>4. Data \in Cells
  BY DEF Cells
<1>5. /\ Frame(s, Data, w[2])
      /\ w[1] = "OK" => Room(s, Width(key)) /\ w[2] = Grown(Put(s, Data, Width(key)))
  BY <1>1, <1>2, <1>3, <1>4, WriteOutcome
<1>6. /\ st' \in Stream /\ st'.img = w[2].img /\ st'.len = w[2].len
      /\ o[1] = "OK" => st'.pos = st.pos /\ st'.at = st.pos
  BY <1>1, <1>5, SeekOutcome DEF Frame
<1>7. st'.len >= st.len
  BY <1>2, <1>5, <1>6 DEF Frame
<1>8. \A i \in Offsets : st'.img[i] \in {st.img[i], Data, Zero}
  BY <1>2, <1>5, <1>6 DEF Frame
<1>9. ASSUME w[1] = "OK", o[1] = "OK"
      PROVE  /\ st'.pos = st.pos /\ st'.at = st.pos /\ st'.len = st.len
             /\ \A i \in Offsets : IF i \in Region(key) THEN st'.img[i] = Data
                                   ELSE st.img[i] # Absent => st'.img[i] = st.img[i]
  <2>1. /\ w[2].len = IF s.len > s.pos + Width(key) THEN s.len ELSE s.pos + Width(key)
        /\ \A i \in Offsets :
              w[2].img[i] = IF s.at <= i /\ i < s.at + Width(key) THEN Data
                            ELSE IF i < s.at /\ s.img[i] = Absent THEN Zero
                            ELSE s.img[i]
    BY <1>1, <1>2, <1>4, <1>5, <1>9, CompleteFrame
  <2>2. st'.len = st.len
    BY <1>1, <1>2, <1>6, <2>1
  <2>3. ASSUME NEW i \in Offsets
        PROVE  IF i \in Region(key) THEN st'.img[i] = Data
               ELSE st.img[i] # Absent => st'.img[i] = st.img[i]
    <3>1. i \in Region(key) <=> res[key] <= i /\ i < res[key] + Width(key)
      BY DEF Region
    <3> QED
      BY <1>2, <1>6, <2>1, <3>1
  <2> QED
    BY <1>6, <1>9, <2>2, <2>3
<1> QED
  BY <1>6, <1>7, <1>8, <1>9

\* fill_* keeps the invariant: only a fill that wrote its whole region drops
\* the reservation, and by then no placeholder byte of it is left.
LEMMA FillKeeps ==
    ASSUME IndInv, NEW key \in Keys, Fill(key) PROVE IndInv'
<1>1. st \in Stream /\ st.len \in Nat /\ st.pos \in Nat
  BY MaxLenAssumption DEF IndInv, StreamOK, Stream
<1>2. steps \in Seq(Nat) /\ Len(steps) <= MaxSteps /\ res \in [Keys -> Nat \cup {NoPos}]
  BY DEF IndInv, CallerOK
<1>3. closed' = closed /\ torn' = torn /\ varint_long' = varint_long /\ ~closed
  BY DEF Fill
<1>4. CASE UNCHANGED <<st, steps, res>>
  <2>1. CallerOK'
    BY <1>3, <1>4 DEF IndInv, CallerOK
  <2> QED
    BY <1>1, <1>3, <1>4, <2>1, NoNewHole
<1>5. CASE /\ Len(steps) < MaxSteps
           /\ steps' = Append(steps, st.pos)
           /\ UNCHANGED <<st, res>>
  <2>1. steps' \in Seq(Nat) /\ Len(steps') <= MaxSteps
    BY <1>1, <1>2, <1>5, BoundsAssumption
  <2>2. CallerOK'
    BY <1>3, <1>5, <2>1 DEF IndInv, CallerOK
  <2> QED
    BY <1>1, <1>3, <1>5, <2>2, NoNewHole
<1>6. CASE /\ res[key] # NoPos
           /\ \E w \in Write(MovedTo(st, res[key]), Data, Width(key)) :
              \E o \in Seek(w[2], st.pos) :
                 /\ st' = o[2]
                 /\ steps' = steps
                 /\ res' = IF w[1] = "OK" /\ o[1] = "OK"
                           THEN [res EXCEPT ![key] = NoPos] ELSE res
  <2>0. PICK w \in Write(MovedTo(st, res[key]), Data, Width(key)) :
              \E o \in Seek(w[2], st.pos) :
                 /\ st' = o[2]
                 /\ steps' = steps
                 /\ res' = IF w[1] = "OK" /\ o[1] = "OK"
                           THEN [res EXCEPT ![key] = NoPos] ELSE res
    BY <1>6
  <2>1. PICK o \in Seek(w[2], st.pos) :
                 /\ st' = o[2]
                 /\ steps' = steps
                 /\ res' = IF w[1] = "OK" /\ o[1] = "OK"
                           THEN [res EXCEPT ![key] = NoPos] ELSE res
    BY <2>0
  <2>2. /\ st' \in Stream /\ st'.len >= st.len
        /\ \A i \in Offsets : st'.img[i] \in {st.img[i], Data, Zero}
        /\ w[1] = "OK" /\ o[1] = "OK" =>
              \A i \in Offsets : i \in Region(key) => st'.img[i] = Data
    BY <1>6, <2>1, FillWrites
  <2>3. \A i \in Offsets : \A k \in Keys : st'.img[i] = Hole(k) => st.img[i] = Hole(k)
    BY <2>2, CellsDiffer
  <2>4. res' \in [Keys -> Nat \cup {NoPos}]
    BY <1>2, <2>1
  <2>5. CallerOK'
    BY <1>3, <2>1, <2>4 DEF IndInv, CallerOK
  <2>6. CASE ~(w[1] = "OK" /\ o[1] = "OK")
    <3>1. res' = res
      BY <2>1, <2>6
    <3> QED
      BY <1>3, <2>2, <2>3, <2>5, <3>1, NoNewHole
  <2>7. CASE w[1] = "OK" /\ o[1] = "OK"
    <3>1. \A k \in Keys : res'[k] = IF k = key THEN NoPos ELSE res[k]
      BY <1>2, <2>1, <2>7
    <3>2. ReservedIsWritten'
      <4> SUFFICES ASSUME NEW k \in Keys, res'[k] # NoPos
                   PROVE  res'[k] + Width(k) <= st'.len
        BY DEF ReservedIsWritten
      <4>1. /\ res'[k] = res[k] /\ res[k] \in Nat /\ Width(k) \in Nat
            /\ res[k] + Width(k) <= st.len
        BY <1>2, <3>1, WidthType DEF IndInv, ReservedIsWritten
      <4>2. st'.len \in Nat
        BY <2>2, MaxLenAssumption DEF Stream
      <4> QED
        BY <1>1, <2>2, <4>1, <4>2
    <3>3. HolesAreReserved'
      <4> SUFFICES ASSUME ~torn, NEW i \in Offsets, NEW k \in Keys, st'.img[i] = Hole(k)
                   PROVE  res'[k] # NoPos /\ i \in Region(k)'
        BY <1>3 DEF HolesAreReserved
      <4>1. i \notin Region(key)
        BY <2>2, <2>7, CellsDiffer
      <4>2. res[k] # NoPos /\ i \in Region(k)
        BY <2>3 DEF IndInv, HolesAreReserved
      <4>3. res'[k] = res[k]
        BY <3>1, <4>1, <4>2
      <4> QED
        BY <4>2, <4>3 DEF Region
    <3> QED
      BY <1>3, <2>2, <2>5, <3>2, <3>3 DEF IndInv, StreamOK, ClosedIsEmpty
  <2> QED
    BY <2>6, <2>7
<1> QED
  BY <1>4, <1>5, <1>6 DEF Fill

\* finish and finish_bytes close a writer only when nothing is reserved, and
\* copying a stream out changes no byte and no length.
LEMMA FinishKeeps ==
    ASSUME IndInv, Finish \/ FinishBytes \/ CopyOut PROVE IndInv'
<1>1. st' \in Stream /\ st'.img = st.img /\ st'.len = st.len
  <2>1. st' = st \/ \E w \in ToArray(st) : st' = w[2]
    BY DEF Finish, FinishBytes, CopyOut
  <2> QED
    BY <2>1, ToArrayOutcome DEF IndInv, StreamOK
<1>2. UNCHANGED <<steps, res, varint_long, torn>>
  BY DEF Finish, FinishBytes, CopyOut
<1>3. closed' \in BOOLEAN /\ (closed' => closed \/ \A k \in Keys : res[k] = NoPos)
  <2>1. closed \in BOOLEAN
    BY DEF IndInv, CallerOK
  <2>2. \/ closed' = closed
        \/ closed' = TRUE /\ \A k \in Keys : res[k] = NoPos
        \/ (\E w \in ToArray(st) : closed' = (closed \/ w[1] = "OK")) /\ \A k \in Keys : res[k] = NoPos
    BY DEF Finish, FinishBytes, CopyOut
  <2>3. closed' \in BOOLEAN
    BY <2>1, <2>2, Zenon
  <2>4. closed' = closed \/ \A k \in Keys : res[k] = NoPos
    BY <2>2, Zenon
  <2> QED
    BY <2>3, <2>4, SMT
<1>4. CallerOK' /\ ClosedIsEmpty'
  BY <1>2, <1>3 DEF IndInv, CallerOK, ClosedIsEmpty
<1>5. ReservedIsWritten' /\ HolesAreReserved'
  BY <1>1, <1>2 DEF IndInv, ReservedIsWritten, HolesAreReserved, Region
<1> QED
  BY <1>1, <1>4, <1>5 DEF IndInv, StreamOK

\* Every step of the writer preserves the invariant.
LEMMA NextKeeps ==
    ASSUME IndInv, [Next]_vars PROVE IndInv'
<1>1. ASSUME NEW n \in Sizes, NEW u \in Units, WriteData(n, u) PROVE IndInv'
  BY <1>1, WriteDataKeeps
<1>2. ASSUME NEW a \in Aligns, NEW p \in Targets \cup {0}, PadFrom(p, a) PROVE IndInv'
  <2>1. p \in Nat
    BY BoundsAssumption
  <2> QED
    BY <1>2, <2>1, PadFromKeeps
<1>3. ASSUME NEW p \in Targets, StepIn(p) PROVE IndInv'
  BY <1>3, StepInKeeps
<1>4. ASSUME StepOut PROVE IndInv'
  BY <1>4, StepOutKeeps
<1>5. ASSUME NEW k \in Keys, Reserve(k) \/ Fill(k) PROVE IndInv'
  BY <1>5, ReserveKeeps, FillKeeps
<1>6. ASSUME Finish \/ FinishBytes \/ CopyOut PROVE IndInv'
  BY <1>6, FinishKeeps
<1>7. ASSUME NEW b \in BOOLEAN, SetVarintLong(b) PROVE IndInv'
  <2>1. varint_long' \in BOOLEAN /\ UNCHANGED <<st, steps, res, closed, torn>>
    BY <1>7 DEF SetVarintLong
  <2> QED
    BY <2>1 DEF IndInv, StreamOK, CallerOK, ReservedIsWritten, HolesAreReserved, Region,
                ClosedIsEmpty
<1>8. ASSUME UNCHANGED vars PROVE IndInv'
  BY <1>8 DEF vars, IndInv, StreamOK, CallerOK, ReservedIsWritten, HolesAreReserved,
              Region, ClosedIsEmpty
<1> QED
  BY <1>1, <1>2, <1>3, <1>4, <1>5, <1>6, <1>7, <1>8 DEF Next

\* The inductive invariant holds in every state of the writer.
THEOREM Invariance == Spec => []IndInv
<1>1. IndInv /\ [Next]_vars => IndInv'
  BY NextKeeps
<1> QED
  BY <1>1, InitHolds, PTL DEF Spec

\* The writer's state is well typed: in particular the length a stream
\* reports never passes MaxLen, and the step stack never passes its bound.
THEOREM WriterTypes == Spec => []TypeOK
<1>1. IndInv => TypeOK
  BY DEF IndInv, StreamOK, Stream, CallerOK, TypeOK
<1> QED
  BY <1>1, Invariance, PTL

\* The region of every live reservation lies inside what the stream reports
\* as written, on both backends and after any failed call, so that fill_*
\* patches bytes that are there.
THEOREM ReservationsAreWritten == Spec => []ReservedIsWritten
<1>1. IndInv => ReservedIsWritten
  BY DEF IndInv
<1> QED
  BY <1>1, Invariance, PTL

\* Every placeholder byte in the stream belongs to a live reservation and
\* lies in its region, unless a failed write cut a placeholder short or one
\* was written where the stream does not count it: whatever else was written, padded, stepped over or retried.
THEOREM HolesAreAccountedFor == Spec => []HolesAreReserved
<1>1. IndInv => HolesAreReserved
  BY DEF IndInv
<1> QED
  BY <1>1, Invariance, PTL

\* A writer that finish or finish_bytes closed has no reservation and, unless
\* a placeholder was cut short or misplaced, no placeholder byte left in its stream.
THEOREM FinishedStreamsAreComplete == Spec => []FinishedIsComplete
<1>1. IndInv => FinishedIsComplete
  BY DEF IndInv, ClosedIsEmpty, HolesAreReserved, FinishedIsComplete
<1> QED
  BY <1>1, Invariance, PTL

\* A fill_* that succeeds changes the bytes of its reservation and none of
\* the others, keeps position, length and step depth, and drops that reservation only;
\* one that fails keeps every reservation.
THEOREM FillsAreFramed == Spec => FillFrame
<1> DEFINE Framed ==
        \A k \in Keys : last'[1] = "fill" /\ last'[2] = k =>
          /\ last'[3] = "OK" =>
                /\ res[k] # NoPos /\ res' = [res EXCEPT ![k] = NoPos]
                /\ \A o \in Offsets : IF o \in Region(k) THEN st'.img[o] = Data
                                      ELSE st.img[o] # Absent => st'.img[o] = st.img[o]
                /\ st'.pos = st.pos /\ st'.at = st.pos /\ st'.len = st.len /\ steps' = steps
          /\ last'[3] # "OK" => res' = res
<1>1. ASSUME IndInv, Next PROVE Framed
  <2> SUFFICES ASSUME NEW k \in Keys, last'[1] = "fill", last'[2] = k
               PROVE  /\ last'[3] = "OK" =>
                            /\ res[k] # NoPos /\ res' = [res EXCEPT ![k] = NoPos]
                            /\ \A o \in Offsets : IF o \in Region(k) THEN st'.img[o] = Data
                                                  ELSE st.img[o] # Absent => st'.img[o] = st.img[o]
                            /\ st'.pos = st.pos /\ st'.at = st.pos /\ st'.len = st.len /\ steps' = steps
                      /\ last'[3] # "OK" => res' = res
    OBVIOUS
  <2>1. PICK key \in Keys : Fill(key)
    BY <1>1 DEF Next, WriteData, PadFrom, StepIn, StepOut, Reserve, Finish, FinishBytes, CopyOut,
                SetVarintLong
  <2>2. CASE last' # <<"fill", key, "OK">> /\ res' = res /\ last'[3] # "OK"
    BY <2>2
  <2>3. CASE /\ res[key] # NoPos
             /\ \E w \in Write(MovedTo(st, res[key]), Data, Width(key)) :
                \E o \in Seek(w[2], st.pos) :
                   /\ st' = o[2]
                   /\ steps' = steps
                   /\ res' = IF w[1] = "OK" /\ o[1] = "OK"
                             THEN [res EXCEPT ![key] = NoPos] ELSE res
                   /\ last' = <<"fill", key, IF w[1] # "OK" THEN w[1] ELSE o[1]>>
    <3>1. PICK w \in Write(MovedTo(st, res[key]), Data, Width(key)) :
                \E o \in Seek(w[2], st.pos) :
                   /\ st' = o[2]
                   /\ steps' = steps
                   /\ res' = IF w[1] = "OK" /\ o[1] = "OK"
                             THEN [res EXCEPT ![key] = NoPos] ELSE res
                   /\ last' = <<"fill", key, IF w[1] # "OK" THEN w[1] ELSE o[1]>>
      BY <2>3
    <3>2. PICK o \in Seek(w[2], st.pos) :
                   /\ st' = o[2]
                   /\ steps' = steps
                   /\ res' = IF w[1] = "OK" /\ o[1] = "OK"
                             THEN [res EXCEPT ![key] = NoPos] ELSE res
                   /\ last' = <<"fill", key, IF w[1] # "OK" THEN w[1] ELSE o[1]>>
      BY <3>1
    <3>3. k = key /\ last'[3] = IF w[1] # "OK" THEN w[1] ELSE o[1]
      BY <3>2
    <3>4. w[1] = "OK" /\ o[1] = "OK" =>
              /\ st'.pos = st.pos /\ st'.at = st.pos /\ st'.len = st.len
              /\ \A i \in Offsets : IF i \in Region(key) THEN st'.img[i] = Data
                                    ELSE st.img[i] # Absent => st'.img[i] = st.img[i]
      BY <1>1, <2>3, <3>2, FillWrites
    <3>5. CASE w[1] = "OK" /\ o[1] = "OK"
      BY <2>3, <3>2, <3>3, <3>4, <3>5
    <3>6. CASE ~(w[1] = "OK" /\ o[1] = "OK")
      BY <3>2, <3>3, <3>6
    <3> QED
      BY <3>5, <3>6
  <2> QED
    BY <2>1, <2>2, <2>3 DEF Fill
<1>2. IndInv /\ [Next]_vars => [Framed]_vars
  BY <1>1
<1> QED
  BY <1>2, Invariance, PTL DEF Spec, FillFrame
=============================================================================
