------------------------------ MODULE OStream -------------------------------
(***************************************************************************)
(* An output stream (sf_ostream_t) as a value: what it holds, the position *)
(* and the length it reports, and every outcome an operation may have.  A  *)
(* stream is a record [backend, img, pos, at, len]; img maps each offset   *)
(* to a cell, or to Absent where nothing was ever written.  pos is the     *)
(* position the stream keeps and reports, at the one the next byte goes    *)
(* to: the file pointer, which ToArray may fail to put back.               *)
(*                                                                         *)
(* The memory backend writes all of a request or nothing.  The file        *)
(* backend may lose a request midway: the bytes that got out stay, the     *)
(* position has moved past them, and the recorded length has not.          *)
(***************************************************************************)
EXTENDS Naturals

CONSTANT MaxLen    \* no stream grows past this: SIZE_MAX, or the disk

ASSUME MaxLenAssumption == MaxLen \in Nat

Backends == {"memory", "file"}

Offsets == 0 .. MaxLen - 1
Absent == <<"absent">>
Zero == <<"zero">>

EmptyStream(b) == [backend |-> b, img |-> [o \in Offsets |-> Absent], pos |-> 0, at |-> 0, len |-> 0]

Larger(a, b) == IF a > b THEN a ELSE b

\* Both positions at p.
MovedTo(s, p) == [s EXCEPT !.pos = p, !.at = p]

\* m cells c where the next byte goes; a gap before them reads as zeros.  This
\* is the part of a write that reaches the buffer or the disk.
Put(s, c, m) ==
    [s EXCEPT !.img = [o \in Offsets |->
                         IF s.at <= o /\ o < s.at + m THEN c
                         ELSE IF m > 0 /\ o < s.at /\ s.img[o] = Absent THEN Zero
                         ELSE s.img[o]],
              !.pos = s.pos + m, !.at = s.at + m]

\* Whether m more cells are within what the stream can hold and can count.
Room(s, m) == Larger(s.pos, s.at) + m <= MaxLen

\* The length is brought up to date once a request is complete.
Grown(s) == [s EXCEPT !.len = Larger(s.len, s.pos)]

\* Mutant: no check that the end of the request can be represented.
Write_NoOverflowCheck(s, c, n) == {<<"OK", Grown(Put(s, c, n))>>, <<"FAILED", s>>}
\* sf_ostream_write of n cells c: the set of <<result, stream>> pairs.
Write(s, c, n) ==
    IF n = 0 THEN {<<"OK", s>>}
    ELSE (IF Room(s, n) THEN {<<"OK", Grown(Put(s, c, n))>>} ELSE {})
         \cup
         (IF s.backend = "memory" THEN {<<"FAILED", s>>}
          ELSE {<<"FAILED", Put(s, c, m)>> : m \in {m \in 0 .. n - 1 : Room(s, m)}})

\* A request longer than `chunk` is a loop of writes that gives up at the
\* first failure: whole chunks before it stay written.
WriteChunked(s, c, n, chunk) ==
    UNION {LET done == IF i = 0 THEN s ELSE Grown(Put(s, c, i * chunk))
               rest == IF n - i * chunk > chunk THEN chunk ELSE n - i * chunk
           IN  {w \in Write(done, c, rest) :
                   \/ w[1] = "FAILED"
                   \/ i * chunk + rest = n}
           : i \in {i \in 0 .. n : i * chunk <= n /\ (i > 0 => i * chunk < n)
                                   /\ Room(s, i * chunk)}}

\* sf_ostream_seek: past the end is allowed, the gap is filled by the next
\* write.  Only the file backend can fail, and then the position stays.
Seek(s, p) == {<<"OK", MovedTo(s, p)>>}
                \cup (IF s.backend = "file" THEN {<<"FAILED", s>>} ELSE {})

\* sfi_ostream_to_array copies out `len` cells, those of a file by reading it
\* from the start.  Whether the seek back went well is not looked at: when it
\* did not, the file pointer is where the reading ended.
ToArray(s) ==
    LET whole == \A o \in Offsets : o < s.len => s.img[o] # Absent
    IN  (IF whole THEN {<<"OK", s>>} ELSE {})
        \cup (IF s.len > 0 THEN {<<"FAILED", s>>} ELSE {})
        \cup (IF s.backend = "memory" \/ s.len = 0 THEN {}
              ELSE (IF whole THEN {<<"OK", [s EXCEPT !.at = s.len]>>} ELSE {})
                   \cup {<<"FAILED", [s EXCEPT !.at = a]>> : a \in 0 .. s.len})
=============================================================================
