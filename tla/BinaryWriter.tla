---------------------------- MODULE BinaryWriter ----------------------------
(***************************************************************************)
(* sf_binary_writer_t over an output stream: step stack, padding, named    *)
(* placeholders that are reserved now and filled later, and finish.  The   *)
(* reservation set is the partial map of module Reservations, which the    *)
(* hash table of the code implements (ReservationTable).                   *)
(*                                                                         *)
(* Every call may fail where the code can: an allocation, a write, a seek. *)
(* A caller may carry on after a failed call, as a program that retries    *)
(* does, so the model never stops at a failure.                            *)
(***************************************************************************)
EXTENDS OStream, Sequences, FiniteSets

CONSTANTS Names,      \* reservation names
          Kinds,      \* the kinds this instance uses
          Targets,    \* positions the caller steps in to
          Sizes,      \* lengths the caller writes
          Units,      \* lengths of the pieces they are written in
          Aligns,     \* alignments the caller pads to
          MaxSteps,   \* bound on the step stack
          PadChunk,   \* sizeof(buf) of the padding loops
          NoPos

AllKinds == {"BOOL", "I8", "U8", "I16", "U16", "I32", "U32", "I64", "U64",
             "VARINT_4", "VARINT_8", "F32", "F64"}

ASSUME KindsAssumption == Kinds \subseteq AllKinds
ASSUME BoundsAssumption == /\ Targets \subseteq Nat /\ Sizes \subseteq Nat /\ Aligns \subseteq Nat \ {0}
                           /\ MaxSteps \in Nat /\ PadChunk \in Nat \ {0} /\ Units \subseteq Nat \ {0}
                           /\ NoPos \notin Nat

VARIABLES st,           \* the output stream
          steps,        \* saved positions, innermost last
          res,          \* live reservations: key -> position, NoPos if none
          varint_long,
          closed,
          torn,         \* some placeholder was cut short by a failed write, or
                        \* written where the stream does not count it
          last          \* the last call: <<operation, key, result>>

vars == <<st, steps, res, varint_long, closed, torn, last>>

Keys == Names \X Kinds
NoKey == <<"", "">>

kind_width(k) ==
    CASE k \in {"BOOL", "I8", "U8"} -> 1
      [] k \in {"I16", "U16"} -> 2
      [] k \in {"I32", "U32", "F32", "VARINT_4"} -> 4
      [] k \in {"I64", "U64", "F64", "VARINT_8"} -> 8

Width(key) == kind_width(key[2])

\* What a cell of the stream may hold besides zeros.
Data == <<"data">>                 \* written by a write or a fill
Hole(key) == <<"hole", key>>       \* 0xFE bytes of key's placeholder

\* The keys that reserve_* and fill_* can name: the width of a varint is the
\* one in force when the call is made.
Callable(key) == /\ key[2] = "VARINT_8" => varint_long
                 /\ key[2] = "VARINT_4" => ~varint_long
-----------------------------------------------------------------------------
Init == /\ st \in {EmptyStream(b) : b \in Backends}
        /\ steps = <<>>
        /\ res = [k \in Keys |-> NoPos]
        /\ varint_long = FALSE
        /\ closed = FALSE
        /\ torn = FALSE
        /\ last = <<"create", NoKey, "OK">>

\* The primitive writes, write_bytes and the strings are one request; arrays,
\* vectors and colors are one for each element, write_pattern one for each
\* buffer of it, and what went out before a failed one stays.
WriteData(n, unit) ==
    /\ ~closed
    /\ \E w \in WriteChunked(st, Data, n, unit) :
          st' = w[2] /\ last' = <<"write", NoKey, w[1]>>
    /\ UNCHANGED <<steps, res, varint_long, closed, torn>>

\* pad, pad_ff and pad_relative; pad_relative needs start <= position.
PadFrom(start, align) ==
    /\ ~closed
    /\ start <= st.pos
    /\ LET rem == (st.pos - start) % align
           n   == IF rem = 0 THEN 0 ELSE align - rem
       IN  \E w \in WriteChunked(st, Zero, n, PadChunk) :
               st' = w[2] /\ last' = <<"pad", NoKey, w[1]>>
    /\ UNCHANGED <<steps, res, varint_long, closed, torn>>

StepIn(p) ==
    /\ ~closed
    /\ Len(steps) < MaxSteps
    /\ \/ /\ steps' = Append(steps, st.pos)      \* pushed before the seek
          /\ \E w \in Seek(st, p) : st' = w[2] /\ last' = <<"step_in", NoKey, w[1]>>
       \/ /\ last' = <<"step_in", NoKey, "OOM">>
          /\ UNCHANGED <<st, steps>>
    /\ UNCHANGED <<res, varint_long, closed, torn>>

StepOut ==
    /\ ~closed
    /\ \/ /\ steps = <<>>
          /\ last' = <<"step_out", NoKey, "INTERNAL">>
          /\ UNCHANGED <<st, steps>>
       \/ /\ steps # <<>>
          /\ steps' = SubSeq(steps, 1, Len(steps) - 1)
          /\ \E w \in Seek(st, steps[Len(steps)]) :
                st' = w[2] /\ last' = <<"step_out", NoKey, w[1]>>
    /\ UNCHANGED <<res, varint_long, closed, torn>>

\* Mutant: the key is not taken back when the placeholder failed.
Reserve_NoRollback(key) ==
    /\ ~closed
    /\ Callable(key)
    /\ res[key] = NoPos
    /\ \E w \in Write(st, Hole(key), Width(key)) :
          /\ st' = w[2]
          /\ res' = [res EXCEPT ![key] = st.pos]
          /\ last' = <<"reserve", key, w[1]>>
    /\ UNCHANGED <<steps, varint_long, closed, torn>>
\* reserve_*: the key is entered, the placeholder written, and the key taken
\* back when the placeholder could not be written in full.
Reserve(key) ==
    /\ ~closed
    /\ Callable(key)
    /\ \/ /\ res[key] # NoPos
          /\ last' = <<"reserve", key, "ALREADY_EXISTS">>
          /\ UNCHANGED <<st, res, torn>>
       \/ /\ last' = <<"reserve", key, "OOM">>
          /\ UNCHANGED <<st, res, torn>>
       \/ /\ res[key] = NoPos
          /\ \E w \in Write(st, Hole(key), Width(key)) :
                /\ st' = w[2]
                /\ res' = IF w[1] = "OK" THEN [res EXCEPT ![key] = st.pos] ELSE res
                /\ torn' = (torn \/ (w[2] # st /\ (w[1] # "OK" \/ st.at # st.pos)))
                /\ last' = <<"reserve", key, w[1]>>
    /\ UNCHANGED <<steps, varint_long, closed>>

\* Mutant: the reservation is dropped before the value is written.
Fill_PopsFirst(key) ==
    /\ ~closed
    /\ Callable(key)
    /\ res[key] # NoPos
    /\ \E w \in Write(MovedTo(st, res[key]), Data, Width(key)) :
       \E o \in Seek(w[2], st.pos) :
          /\ st' = o[2]
          /\ res' = [res EXCEPT ![key] = NoPos]
          /\ last' = <<"fill", key, IF w[1] # "OK" THEN w[1] ELSE o[1]>>
    /\ UNCHANGED <<steps, varint_long, closed, torn>>
\* Mutant: the position is not restored after the value.
Fill_NoStepOut(key) ==
    /\ ~closed
    /\ Callable(key)
    /\ res[key] # NoPos
    /\ \E w \in Write(MovedTo(st, res[key]), Data, Width(key)) :
          /\ st' = w[2]
          /\ res' = IF w[1] = "OK" THEN [res EXCEPT ![key] = NoPos] ELSE res
          /\ last' = <<"fill", key, w[1]>>
    /\ UNCHANGED <<steps, varint_long, closed, torn>>
\* fill_*: step in to the placeholder, write the value, step out, and drop
\* the reservation only when both went well.
Fill(key) ==
    /\ ~closed
    /\ Callable(key)
    /\ \/ /\ res[key] = NoPos
          /\ last' = <<"fill", key, "NOT_FOUND">>
          /\ UNCHANGED <<st, steps, res>>
       \/ /\ res[key] # NoPos
          /\ last' = <<"fill", key, "OOM">>            \* steps_push
          /\ UNCHANGED <<st, steps, res>>
       \/ /\ res[key] # NoPos
          /\ Len(steps) < MaxSteps
          /\ <<"FAILED", st>> \in Seek(st, res[key])   \* returns inside the step
          /\ steps' = Append(steps, st.pos)
          /\ last' = <<"fill", key, "FAILED">>
          /\ UNCHANGED <<st, res>>
       \/ /\ res[key] # NoPos
          /\ \E w \in Write(MovedTo(st, res[key]), Data, Width(key)) :
             \E o \in Seek(w[2], st.pos) :
                /\ st' = o[2]
                /\ steps' = steps
                /\ res' = IF w[1] = "OK" /\ o[1] = "OK"
                          THEN [res EXCEPT ![key] = NoPos] ELSE res
                /\ last' = <<"fill", key, IF w[1] # "OK" THEN w[1] ELSE o[1]>>
    /\ UNCHANGED <<varint_long, closed, torn>>

\* Mutant: live reservations are not looked at.
Finish_NoCheck ==
    /\ closed' = TRUE /\ last' = <<"finish", NoKey, "OK">>
    /\ UNCHANGED <<st, steps, res, varint_long, torn>>
\* finish; finish_bytes copies the stream out first.
Finish ==
    /\ IF \E k \in Keys : res[k] # NoPos
       THEN closed' = closed /\ last' = <<"finish", NoKey, "INTERNAL">>
       ELSE closed' = TRUE /\ last' = <<"finish", NoKey, "OK">>
    /\ UNCHANGED <<st, steps, res, varint_long, torn>>

FinishBytes ==
    /\ \/ /\ \E k \in Keys : res[k] # NoPos
          /\ last' = <<"finish", NoKey, "INTERNAL">>
          /\ UNCHANGED <<st, closed>>
       \/ /\ \A k \in Keys : res[k] = NoPos
          /\ \E w \in ToArray(st) :
                /\ st' = w[2]
                /\ closed' = (closed \/ w[1] = "OK")
                /\ last' = <<"finish", NoKey, w[1]>>
    /\ UNCHANGED <<steps, res, varint_long, torn>>

\* to_array copies out what there is, of a closed writer too.
CopyOut ==
    /\ \E w \in ToArray(st) : st' = w[2] /\ last' = <<"to_array", NoKey, w[1]>>
    /\ UNCHANGED <<steps, res, varint_long, closed, torn>>

\* Not gated on `closed` in the code.
SetVarintLong(b) ==
    /\ varint_long' = b
    /\ last' = <<"set_varint_long", NoKey, "OK">>
    /\ UNCHANGED <<st, steps, res, closed, torn>>

Next ==
    \/ \E n \in Sizes, u \in Units : WriteData(n, u)
    \/ \E a \in Aligns : PadFrom(0, a) \/ (\E p \in Targets : PadFrom(p, a))
    \/ \E p \in Targets : StepIn(p)
    \/ StepOut
    \/ \E k \in Keys : Reserve(k) \/ Fill(k)
    \/ Finish \/ FinishBytes \/ CopyOut
    \/ \E b \in BOOLEAN : SetVarintLong(b)

Spec == Init /\ [][Next]_vars
-----------------------------------------------------------------------------
Cells == {Absent, Zero, Data} \cup {Hole(k) : k \in Keys}

TypeOK ==
    /\ st.backend \in Backends
    /\ st.img \in [Offsets -> Cells] /\ st.pos \in Nat /\ st.at \in Nat /\ st.len \in 0 .. MaxLen
    /\ steps \in Seq(Nat) /\ Len(steps) <= MaxSteps
    /\ res \in [Keys -> Nat \cup {NoPos}]
    /\ varint_long \in BOOLEAN /\ closed \in BOOLEAN /\ torn \in BOOLEAN

Region(key) == {o \in Offsets : res[key] <= o /\ o < res[key] + Width(key)}

\* Every 0xFE placeholder byte in the stream belongs to a reservation that is
\* still live and lies inside its region; the exception is a placeholder that
\* a failed write cut short, which no reservation remembers, and one that went
\* out while a copy had left the file pointer astray, which the reservation
\* has at another place.  With finish() this is "Each Reserve must be paired
\* with exactly one Fill": no placeholder survives in a finished stream.
HolesAreReserved ==
    ~torn => \A o \in Offsets : \A k \in Keys :
                 st.img[o] = Hole(k) => res[k] # NoPos /\ o \in Region(k)

\* A finished stream has no placeholder left in it.
FinishedIsComplete ==
    closed => /\ \A k \in Keys : res[k] = NoPos
              /\ ~torn => \A o \in Offsets : \A k \in Keys : st.img[o] # Hole(k)

\* The region of a live reservation lies inside what the stream reports as
\* written, so filling it never extends the stream and never leaves a gap.
ReservedIsWritten ==
    \A k \in Keys : res[k] # NoPos => res[k] + Width(k) <= st.len

\* A fill that succeeds writes its own region, with the width that was
\* reserved, and changes no other byte of the stream, wherever the file pointer
\* had been left; position, length and step depth are what they were, and the
\* next byte goes to that position.  A fill that fails keeps the reservation,
\* so it can be retried and finish() goes on refusing.
FillFrame ==
    [][\A k \in Keys : last'[1] = "fill" /\ last'[2] = k =>
          /\ last'[3] = "OK" =>
                /\ res[k] # NoPos /\ res' = [res EXCEPT ![k] = NoPos]
                /\ \A o \in Offsets : IF o \in Region(k) THEN st'.img[o] = Data
                                      ELSE st.img[o] # Absent => st'.img[o] = st.img[o]
                /\ st'.pos = st.pos /\ st'.at = st.pos /\ st'.len = st.len /\ steps' = steps
          /\ last'[3] # "OK" => res' = res]_vars
=============================================================================
