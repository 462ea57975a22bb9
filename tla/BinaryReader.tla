---------------------------- MODULE BinaryReader ----------------------------
(***************************************************************************)
(* sf_binary_reader_t over an input stream of Size bytes: reads of one     *)
(* request, loops of requests, strings, assertions, reads at an absolute   *)
(* offset (Get), and the step stack.  A byte is 0, 1 or 2 (anything else); *)
(* the file read is chosen at the start and never changes.                 *)
(*                                                                         *)
(* A read is described by the set of <<result, position>> pairs it may end *)
(* with.  The memory backend reads a request whole or not at all, the file *)
(* backend moves past whatever it got before an error or the end.          *)
(***************************************************************************)
EXTENDS Integers, Sequences

CONSTANTS Size,        \* length of the input
          Ops,         \* the read calls the caller makes, see Outcomes
          Offs,        \* offsets and displacements the caller names
          Aligns,      \* alignments the caller pads to
          Chunk,       \* sizeof(buf) of assert_pattern
          StrCap,      \* first capacity of a terminated string's buffer
          MaxSteps     \* bound on the step stack

ASSUME SizeAssumption == Size \in Nat
ASSUME CallAssumption == /\ Offs \subseteq Int /\ Aligns \subseteq Nat \ {0}
                         /\ Chunk \in Nat \ {0} /\ StrCap \in Nat \ {0} /\ MaxSteps \in Nat

\* The read calls: a name, then how much, then what a test would find.
Calls == ({"bytes", "bools", "varints", "floats", "pattern", "str_n"} \X Nat)
         \cup ({"assert", "assert_bool", "enum", "ascii"} \X Nat \X BOOLEAN)
         \cup {<<"colour">>, <<"str">>, <<"wstr">>}
ASSUME OpsAssumption == Ops \subseteq Calls

Byte == {0, 1, 2}

VARIABLES data,          \* the bytes of the input
          backend,       \* what the stream reads from: "memory" or "file"
          pos,           \* position of the stream
          steps,         \* saved positions, innermost last
          is_flexible,
          varint_long,
          nest,          \* history: positions of the caller's own open StepIns
          leaked,        \* history: a step was pushed by a call that failed
          last           \* the last call: <<name, argument, result>>

vars == <<data, backend, pos, steps, is_flexible, varint_long, nest, leaked, last>>
None == <<>>
-----------------------------------------------------------------------------
\* sf_istream_read of n bytes at p.
Read(p, n) ==
    IF n = 0 THEN {<<"OK", p>>}
    ELSE IF backend = "memory"
    THEN IF p + n <= Size THEN {<<"OK", p + n>>} ELSE {<<"TRUNCATED", p>>}
    ELSE (IF p + n <= Size THEN {<<"OK", p + n>>}
          ELSE {<<"TRUNCATED", IF p > Size THEN p ELSE Size>>})
         \cup {<<"IO", p + m>> : m \in {m \in 0 .. n - 1 : m = 0 \/ p + m <= Size}}

\* Mutant: no upper bound on a memory position.
Seek_NoUpperBound(p, q) == IF q < 0 THEN {<<"INVALID_ARG", p>>} ELSE {<<"OK", q>>}
\* sf_istream_seek from p to q.
Seek(p, q) ==
    IF q < 0 THEN {<<"INVALID_ARG", p>>}
    ELSE IF backend = "memory"
    THEN IF q > Size THEN {<<"OUT_OF_RANGE", p>>} ELSE {<<"OK", q>>}
    ELSE {<<"OK", q>>, <<"IO", p>>}

\* Mutant: a bad element is noticed only when the loop is over.
Loop_ChecksLast(p, n, w, good, bad) ==
    LET fits(i) == p + i * w <= Size
    IN  (IF n = 0 \/ (fits(n) /\ p + (n - 1) * w \in good) THEN {<<"OK", p + n * w>>} ELSE {})
        \cup UNION {{r \in Read(p + i * w, w) : r[1] # "OK"}
                    : i \in {i \in 0 .. n - 1 : fits(i)}}
        \cup {<<bad, p + n * w>> : i \in {i \in 0 .. n - 1 : fits(n) /\ p + i * w \notin good}}
\* n requests of w bytes, each followed by a test of the bytes it read, which
\* those at an offset in `good` pass: the loop ends at the first request that
\* fails or whose bytes do not pass.
Loop(p, n, w, good, bad) ==
    LET reach(i) == (i > 0 => p + i * w <= Size) /\ \A j \in 0 .. i - 1 : p + j * w \in good
    IN  (IF reach(n) THEN {<<"OK", p + n * w>>} ELSE {})
        \cup UNION {{r \in Read(p + i * w, w) : r[1] # "OK"}
                    \cup (IF p + (i + 1) * w <= Size /\ p + i * w \notin good
                          THEN {<<bad, p + (i + 1) * w>>} ELSE {})
                    : i \in {i \in 0 .. n - 1 : reach(i)}}

AnyByte == 0 .. Size
VarintWidth == IF varint_long THEN 8 ELSE 4

\* Mutant: a two-byte terminator is looked for at every byte.
Units_Unaligned(p, w) == {i \in 0 .. Size : p + i + w <= Size
                            /\ \A b \in 0 .. w - 1 : data[p + i + b] = 0}
\* The zero units of w bytes at or after p, as distances from p.
Units(p, w) == {i \in 0 .. Size : i % w = 0 /\ p + i + w <= Size
                  /\ \A b \in 0 .. w - 1 : data[p + i + b] = 0}

\* The first of them, or a distance past them all when there is none.
FirstZero(p, w) == IF Units(p, w) = {} THEN Size + 1
                   ELSE CHOOSE i \in Units(p, w) : \A j \in Units(p, w) : i <= j

\* The units that find the buffer full: it starts at StrCap and is doubled.
Doublings(p, w) == {i \in 1 .. Size : i % w = 0 /\ p + i + w <= Size /\ i < FirstZero(p, w)
                      /\ \E k \in 0 .. Size : i = StrCap * 2 ^ k}

\* The units that are asked for, up to the terminator or the end.
Requests(p, w) == {i \in 0 .. Size : i % w = 0 /\ i <= FirstZero(p, w)
                     /\ (i = 0 \/ p + i <= Size)}

\* Strings up to a terminator of w bytes.  The first buffer or a larger one
\* may be refused, and the decoder may reject the bytes once all are read.
Terminated(p, w) ==
    {<<"OOM", p>>}
    \cup {<<"OOM", p + i + w>> : i \in Doublings(p, w)}
    \cup (UNION {{r \in Read(p + i, w) : r[1] # "OK"} : i \in Requests(p, w)})
    \cup (IF Units(p, w) = {} THEN {}
          ELSE {<<r, p + FirstZero(p, w) + w>> : r \in {"OK", "OOM", "ENCODING"}})

\* Strings of a given length, whether or not cut at a terminator inside it.
Fixed(p, n) ==
    IF n = 0 THEN {<<"OK", p>>, <<"OOM", p>>}
    ELSE {<<"OOM", p>>} \cup {r \in Read(p, n) : r[1] # "OK"}
         \cup {<<r, q[2]>> : r \in {"OK", "OOM", "ENCODING"}, q \in {q \in Read(p, n) : q[1] = "OK"}}

\* Reads of a value followed by its test.  `accepted` stands for the
\* options: whether the caller's list holds the value that was read.
Tested(reads, accepted) ==
    {IF r[1] = "OK" /\ ~accepted THEN <<"BAD_MAGIC", r[2]>> ELSE r : r \in reads}

Bools(p, n) == Loop(p, n, 1, {o \in DOMAIN data : data[o] <= 1}, "BAD_MAGIC")

\* assert_pattern for zeros: requests of Chunk bytes, then what is left.
Pattern(p, n) ==
    LET Zeros(w) == {o \in DOMAIN data : o + w <= Size /\ \A b \in 0 .. w - 1 : data[o + b] = 0}
    IN  UNION {IF r[1] = "OK" /\ n % Chunk > 0
               THEN Loop(r[2], 1, n % Chunk, Zeros(n % Chunk), "BAD_MAGIC") ELSE {r}
               : r \in Loop(p, n \div Chunk, Chunk, Zeros(Chunk), "BAD_MAGIC")}

\* What a read call may end with, by the call:
\*   bytes n: read_bytes, the integers, floats and arrays read as one request;
\*   bools n, varints n, floats n, colour: loops over elements;
\*   assert n ok, assert_bool 1 ok: values whose test is_flexible switches off;
\*   enum n ok, ascii n ok, pattern n: values that are always tested;
\*   str, wstr: terminated strings; str_n n: strings of a given length.
Outcomes(op, p) ==
    CASE op[1] = "bytes"       -> Read(p, op[2])
      [] op[1] = "bools"       -> Bools(p, op[2])
      [] op[1] = "varints"     -> Loop(p, op[2], VarintWidth, AnyByte, "OK")
      [] op[1] = "floats"      -> Loop(p, op[2], 4, AnyByte, "OK")
      [] op[1] = "colour"      -> Loop(p, 4, 1, AnyByte, "OK")
      [] op[1] = "assert"      -> Tested(Read(p, op[2]), op[3] \/ is_flexible)
      [] op[1] = "assert_bool" -> Tested(Bools(p, 1), op[3] \/ is_flexible)
      [] op[1] = "enum"        -> Tested(Read(p, op[2]), op[3])
      [] op[1] = "ascii"       -> Tested(Read(p, op[2]), op[3]) \cup {<<"OOM", p>>}
      [] op[1] = "pattern"     -> Pattern(p, op[2])
      [] op[1] = "str"         -> Terminated(p, 1)
      [] op[1] = "wstr"        -> Terminated(p, 2)
      [] op[1] = "str_n"       -> Fixed(p, op[2])

\* The calls that also exist as Get, at an absolute offset.
Gettable(op) == op[1] \in {"bytes", "bools", "varints", "enum", "str", "wstr", "str_n"}
-----------------------------------------------------------------------------
Init == /\ data \in [0 .. Size - 1 -> Byte]
        /\ backend \in {"memory", "file"}
        /\ pos = 0 /\ steps = <<>> /\ nest = <<>> /\ leaked = FALSE
        /\ is_flexible \in BOOLEAN        \* g_binary_reader_flexible_default
        /\ varint_long = FALSE
        /\ last = <<"create", None, "OK">>

ReadCall(op) ==
    /\ \E r \in Outcomes(op, pos) : pos' = r[2] /\ last' = <<"read", op, r[1]>>
    /\ UNCHANGED <<data, backend, steps, is_flexible, varint_long, nest, leaked>>

\* steps_push fails: nothing has happened yet.
PushFails(name, arg) ==
    /\ last' = <<name, arg, "OOM">>
    /\ UNCHANGED <<data, backend, pos, steps, is_flexible, varint_long, nest, leaked>>

\* steps_push, then a seek that fails: the call returns with the step pushed.
SeekFails(name, arg, q) ==
    /\ Len(steps) < MaxSteps
    /\ \E r \in Seek(pos, q) : r[1] # "OK" /\ pos' = r[2] /\ last' = <<name, arg, r[1]>>
    /\ steps' = Append(steps, pos)
    /\ leaked' = TRUE
    /\ UNCHANGED <<data, backend, is_flexible, varint_long, nest>>

\* Mutant: a failed read returns before the step out.
GetReads_ReturnsEarly(op, q) ==
    /\ Len(steps) < MaxSteps
    /\ \E s \in Seek(pos, q) : /\ s[1] = "OK"
         /\ \E r \in Outcomes(op, q) :
              /\ IF r[1] = "OK" THEN pos' = pos /\ steps' = steps
                                ELSE pos' = r[2] /\ steps' = Append(steps, pos)
              /\ last' = <<"get", op, r[1]>>
    /\ UNCHANGED <<data, backend, is_flexible, varint_long, nest, leaked>>
\* Mutant: the way back is taken from the bottom of the stack.
GetReads_BottomStep(op, q) ==
    /\ \E s \in Seek(pos, q) : /\ s[1] = "OK"
         /\ \E r \in Outcomes(op, q) : \E o \in Seek(r[2], IF steps = <<>> THEN pos ELSE steps[1]) :
              /\ pos' = o[2]
              /\ last' = <<"get", op, IF r[1] # "OK" THEN r[1] ELSE o[1]>>
    /\ UNCHANGED <<data, backend, steps, is_flexible, varint_long, nest, leaked>>
\* get_* once inside the step: read at q, then step out to where it was,
\* whatever the read returned.
GetReads(op, q) ==
    /\ \E s \in Seek(pos, q) : /\ s[1] = "OK"
         /\ \E r \in Outcomes(op, q) : \E o \in Seek(r[2], pos) :
              /\ pos' = o[2]
              /\ last' = <<"get", op, IF r[1] # "OK" THEN r[1] ELSE o[1]>>
    /\ UNCHANGED <<data, backend, steps, is_flexible, varint_long, nest, leaked>>

Get(op, q) ==
    /\ Gettable(op)
    /\ PushFails("get", op) \/ SeekFails("get", op, q) \/ GetReads(op, q)

StepInDone(q) ==
    /\ Len(steps) < MaxSteps
    /\ \E r \in Seek(pos, q) : r[1] = "OK" /\ pos' = r[2]
    /\ steps' = Append(steps, pos)
    /\ nest' = Append(nest, pos)
    /\ last' = <<"step_in", None, "OK">>
    /\ UNCHANGED <<data, backend, is_flexible, varint_long, leaked>>

StepIn(q) == PushFails("step_in", None) \/ SeekFails("step_in", None, q) \/ StepInDone(q)

Front(s) == SubSeq(s, 1, Len(s) - 1)

StepOut ==
    /\ IF steps = <<>>
       THEN last' = <<"step_out", None, "INTERNAL">> /\ UNCHANGED <<pos, steps>>
       ELSE /\ steps' = Front(steps)
            /\ \E r \in Seek(pos, steps[Len(steps)]) :
                  pos' = r[2] /\ last' = <<"step_out", None, r[1]>>
    /\ nest' = IF nest = <<>> THEN nest ELSE Front(nest)
    /\ UNCHANGED <<data, backend, is_flexible, varint_long, leaked>>

\* pad is pad_relative from 0.
PadFrom(start, align) ==
    /\ start <= pos
    /\ LET rem == (pos - start) % align
       IN  \E r \in IF rem = 0 THEN {<<"OK", pos>>} ELSE Seek(pos, pos + (align - rem)) :
              pos' = r[2] /\ last' = <<"pad", None, r[1]>>
    /\ UNCHANGED <<data, backend, steps, is_flexible, varint_long, nest, leaked>>

\* Mutant: the position is moved without the seek's checks.
Skip_Unchecked(n) ==
    /\ pos' = pos + n /\ last' = <<"skip", None, "OK">>
    /\ UNCHANGED <<data, backend, steps, is_flexible, varint_long, nest, leaked>>
Skip(n) ==
    /\ \E r \in Seek(pos, pos + n) : pos' = r[2] /\ last' = <<"skip", None, r[1]>>
    /\ UNCHANGED <<data, backend, steps, is_flexible, varint_long, nest, leaked>>

SetMode(flexible, long64) ==
    /\ is_flexible' = flexible /\ varint_long' = long64
    /\ last' = <<"set", None, "OK">>
    /\ UNCHANGED <<data, backend, pos, steps, nest, leaked>>

\* A file position can be moved past the end again and again: FileMax bounds it.
FileMax == Size + 1

Next == /\ \/ \E op \in Ops : ReadCall(op) \/ (\E q \in Offs : Get(op, q))
           \/ \E q \in Offs : StepIn(q) \/ Skip(q)
           \/ StepOut
           \/ \E s \in Offs, a \in Aligns : PadFrom(s, a)
           \/ \E f, l \in BOOLEAN : SetMode(f, l)
        /\ backend = "file" => pos' <= FileMax

Spec == Init /\ [][Next]_vars
-----------------------------------------------------------------------------
TypeOK == /\ data \in [0 .. Size - 1 -> Byte]
          /\ backend \in {"memory", "file"}
          /\ pos \in Nat
          /\ steps \in Seq(Nat) /\ Len(steps) <= MaxSteps
          /\ nest \in Seq(Nat)
          /\ is_flexible \in BOOLEAN /\ varint_long \in BOOLEAN /\ leaked \in BOOLEAN

\* The position of a memory stream, and every position it may step out to,
\* lies within the buffer: that is what makes `mem + mem_pos` in
\* sf_istream_read a pointer into it, whatever was skipped, padded or
\* stepped over before.
InBounds == backend = "memory" => /\ pos <= Size
                                  /\ \A i \in 1 .. Len(steps) : steps[i] <= Size

\* As long as no call has failed between its push and its seek, the step
\* stack is exactly the caller's own nesting of StepIn: a Get whose read
\* fails takes its own step back.
StepsAreNesting == ~leaked => steps = nest

\* "Get* - read at absolute offset without moving the stream cursor": a Get
\* leaves the position alone whatever it reads, in memory even when it
\* fails; on a file unless it reports a failure.
GetRestores == [][(last'[1] = "get" /\ (backend = "memory" \/ last'[3] = "OK"))
                    => pos' = pos]_vars

\* A loop that reports success has tested every byte it consumed, the short
\* last chunk of assert_pattern included; one that reports BAD_MAGIC stopped
\* at the first element that is bad.
LoopsTestAll ==
    [][last'[1] = "read" =>
         LET op == last'[2]
             Bad(o) == IF op[1] = "pattern" THEN data[o] # 0 ELSE data[o] > 1
             unit == IF op[1] = "pattern" THEN Chunk ELSE 1
         IN  op[1] \in {"bools", "pattern"} =>
                /\ last'[3] = "OK" => /\ pos' = pos + op[2]
                                      /\ \A o \in pos .. pos' - 1 : ~Bad(o)
                /\ last'[3] = "BAD_MAGIC" =>
                      \E o \in pos .. pos' - 1 : /\ Bad(o) /\ pos' - o <= unit
                                                 /\ \A m \in pos .. pos' - unit - 1 : ~Bad(m)]_vars

\* A terminated string ends just past its first terminator: the first zero
\* byte, or the first pair of zero bytes at an even distance.  A zero low or
\* high byte inside a UTF-16 unit, or across two units, does not end it.
StringsEndAtTerminator ==
    [][(last'[1] = "read" /\ last'[2][1] \in {"str", "wstr"} /\ last'[3] = "OK") =>
         LET w == IF last'[2][1] = "str" THEN 1 ELSE 2
             zero(o) == \A b \in 0 .. w - 1 : data[o + b] = 0
         IN  /\ pos' > pos /\ (pos' - pos) % w = 0
             /\ zero(pos' - w)
             /\ \A i \in 0 .. (pos' - pos) \div w - 2 : ~zero(pos + i * w)]_vars
=============================================================================
