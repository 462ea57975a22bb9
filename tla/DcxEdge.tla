------------------------------ MODULE DcxEdge -------------------------------
(***************************************************************************)
(* The chunked EDGE containers: wrap_edge cuts the input into chunks of    *)
(* Block bytes, stores them uncompressed and aligned and writes a table of *)
(* them; decompress_edge follows the table.  Both loops are modelled chunk *)
(* by chunk, with the offsets of the real layout.                          *)
(*                                                                         *)
(* Bytes are not modelled one by one: a copy is a record [at, src, len],   *)
(* "len bytes of the input from src on are now at `at`".  The container is *)
(* read back intact when every copy into the output has at = src and the   *)
(* copies reach the end.                                                   *)
(***************************************************************************)
EXTENDS Integers

CONSTANTS Sizes,     \* sizes of the input
          U32        \* 2^32: what the words of the header hold is taken modulo it

ASSUME U32Assumption == U32 \in Nat \ {0}
\* The size of the input is stored in one word.
ASSUME SizesAssumption == Sizes \subseteq 0 .. U32 - 1

Block == 65536       \* 0x10000
MaxCount == 1048576  \* 0x100000, the reader's limit on count

VARIABLES in_size, dcx,    \* the call: input size, DCX or DCP flavour
          phase,           \* "size", "data", "table", "read", "done", "TRUNCATED"
          i,               \* loop variable
          data_padded,     \* sum of the aligned chunk sizes
          off,             \* offset of the next chunk in the data area
          entries,         \* the table: chunk -> [off, sz]
          stored,          \* chunk -> its copy in the container
          out_pos,         \* reader: bytes of output so far
          copied           \* reader: chunk -> its copy in the output

vars == <<in_size, dcx, phase, i, data_padded, off, entries, stored, out_pos, copied>>

\* Mutant: nothing is added before rounding down.
align16_Down(n) == (n \div 16) * 16
align16(n) == ((n + 15) \div 16) * 16

\* Mutant: the last, partial chunk is not counted.
chunks_Floor == in_size \div Block
chunks == LET c == (in_size + Block - 1) \div Block IN IF c = 0 THEN 1 ELSE c

chunk_size(k) == LET left == IF in_size > k * Block THEN in_size - k * Block ELSE 0
                 IN  IF left > Block THEN Block ELSE left
-----------------------------------------------------------------------------
\* The header words the reader uses.
header == IF dcx THEN 112 + chunks * 16 ELSE 48
total  == IF dcx THEN header + data_padded ELSE header + data_padded + 40 + chunks * 16
word_usize == in_size % U32
word_csize == data_padded % U32
word_dca_size == (36 + chunks * 16 + 8) % U32

\* Where the reader expects the data, the DCA block and the table.
data_start == IF dcx THEN 68 + word_dca_size ELSE 48
dca == IF dcx THEN 68 ELSE 48 + word_csize
table == IF dcx THEN 68 + 8 + 36 ELSE dca + 8 + 32

Nothing == [k \in {} |-> 0]

Init == /\ in_size \in Sizes /\ dcx \in BOOLEAN
        /\ phase = "size" /\ i = 0
        /\ data_padded = 0 /\ off = 0
        /\ entries = Nothing /\ stored = Nothing
        /\ out_pos = 0 /\ copied = Nothing

With(f, k, v) == [x \in (DOMAIN f) \cup {k} |-> IF x = k THEN v ELSE f[x]]

\* The sum that sizes the buffer.
SizeChunk ==
    /\ phase = "size" /\ i < chunks
    /\ data_padded' = data_padded + align16(chunk_size(i))
    /\ i' = i + 1
    /\ UNCHANGED <<in_size, dcx, phase, off, entries, stored, out_pos, copied>>

\* Mutant: the offset does not follow the alignment.
DataChunk_Unaligned ==
    /\ phase = "data" /\ i < chunks
    /\ stored' = With(stored, i, [at |-> header + off, src |-> i * Block, len |-> chunk_size(i)])
    /\ entries' = IF dcx THEN With(entries, i, [off |-> off % U32, sz |-> chunk_size(i)]) ELSE entries
    /\ off' = off + chunk_size(i) + 1
    /\ i' = i + 1
    /\ UNCHANGED <<in_size, dcx, phase, data_padded, out_pos, copied>>
\* Mutant: one chunk too many is copied.
DataChunk_OneMore ==
    /\ phase = "data" /\ i <= chunks
    /\ stored' = With(stored, i, [at |-> header + off, src |-> i * Block, len |-> chunk_size(i)])
    /\ entries' = IF dcx THEN With(entries, i, [off |-> off % U32, sz |-> chunk_size(i)]) ELSE entries
    /\ off' = off + align16(chunk_size(i))
    /\ i' = i + 1
    /\ UNCHANGED <<in_size, dcx, phase, data_padded, out_pos, copied>>
\* Copying a chunk behind the header; DCX writes its table entry at once.
DataChunk ==
    /\ phase = "data" /\ i < chunks
    /\ stored' = With(stored, i, [at |-> header + off, src |-> i * Block, len |-> chunk_size(i)])
    /\ entries' = IF dcx THEN With(entries, i, [off |-> off % U32, sz |-> chunk_size(i)]) ELSE entries
    /\ off' = off + align16(chunk_size(i))
    /\ i' = i + 1
    /\ UNCHANGED <<in_size, dcx, phase, data_padded, out_pos, copied>>

\* DCP writes its table behind the data, in a loop of its own.
TableChunk ==
    /\ phase = "table" /\ i < chunks
    /\ entries' = With(entries, i, [off |-> off % U32, sz |-> chunk_size(i)])
    /\ off' = off + align16(chunk_size(i))
    /\ i' = i + 1
    /\ UNCHANGED <<in_size, dcx, phase, data_padded, stored, out_pos, copied>>

\* Mutant: the table loop starts from the offset the data loop ended with.
NextLoop_KeepsOff ==
    /\ i = chunks /\ phase \in {"size", "data", "table"}
    /\ phase' = CASE phase = "size" -> "data"
                  [] phase = "data" /\ ~dcx -> "table"
                  [] OTHER -> "read"
    /\ i' = 0 /\ off' = off
    /\ UNCHANGED <<in_size, dcx, data_padded, entries, stored, out_pos, copied>>
NextLoop ==
    /\ i = chunks /\ phase \in {"size", "data", "table"}
    /\ phase' = CASE phase = "size" -> "data"
                  [] phase = "data" /\ ~dcx -> "table"
                  [] OTHER -> "read"
    /\ i' = 0 /\ off' = 0
    /\ UNCHANGED <<in_size, dcx, data_padded, entries, stored, out_pos, copied>>

\* decompress_edge: the checks on the header and the table.  The tags are in
\* place when the DCA block is where the writer put it.
TableBad == \/ total < (IF dcx THEN 80 ELSE dca + 40)
            \/ ~dcx /\ dca # header + data_padded
            \/ chunks > MaxCount
            \/ table + chunks * 16 > total

\* usize - out_pos is unsigned: past the end it is huge.
chunk_usize == IF out_pos > word_usize \/ word_usize - out_pos > Block THEN Block
               ELSE word_usize - out_pos

ChunkBad == \/ data_start + entries[i].off + entries[i].sz > total
            \/ out_pos + chunk_usize > word_usize

ReadFails ==
    /\ phase = "read" /\ i < chunks
    /\ TableBad \/ ChunkBad
    /\ phase' = "TRUNCATED"
    /\ UNCHANGED <<in_size, dcx, i, data_padded, off, entries, stored, out_pos, copied>>

\* The copy takes whatever is stored at the place the entry points to, all
\* of it from one chunk.
Found(e, k) == /\ stored[k].at <= data_start + e.off
               /\ data_start + e.off + e.sz <= stored[k].at + stored[k].len
Copy(e, k) == [at |-> out_pos, src |-> stored[k].src + (data_start + e.off - stored[k].at), len |-> e.sz]

\* Mutant: the output position moves by a whole block.
ReadChunk_WholeBlock ==
    /\ phase = "read" /\ i < chunks
    /\ ~TableBad /\ ~ChunkBad
    /\ \E k \in DOMAIN stored : /\ Found(entries[i], k)
                                /\ copied' = With(copied, i, Copy(entries[i], k))
    /\ out_pos' = out_pos + Block
    /\ i' = i + 1
    /\ UNCHANGED <<in_size, dcx, phase, data_padded, off, entries, stored>>
ReadChunk ==
    /\ phase = "read" /\ i < chunks
    /\ ~TableBad /\ ~ChunkBad
    /\ \E k \in DOMAIN stored : /\ Found(entries[i], k)
                                /\ copied' = With(copied, i, Copy(entries[i], k))
    /\ out_pos' = out_pos + entries[i].sz
    /\ i' = i + 1
    /\ UNCHANGED <<in_size, dcx, phase, data_padded, off, entries, stored>>

ReadDone ==
    /\ phase = "read" /\ i = chunks
    /\ phase' = "done"
    /\ UNCHANGED <<in_size, dcx, i, data_padded, off, entries, stored, out_pos, copied>>

Next == SizeChunk \/ DataChunk \/ TableChunk \/ NextLoop \/ ReadFails \/ ReadChunk \/ ReadDone

Spec == Init /\ [][Next]_vars
-----------------------------------------------------------------------------
\* The words of the header hold the sizes.  In a DCP they do not for an input
\* in the last 15 bytes below 2^32: the aligned size of its data is 2^32.
Fits == /\ dcx \/ align16(in_size) < U32
        /\ 44 + chunks * 16 < U32
        /\ chunks <= MaxCount

\* How far k chunks reach, in the data area and in the output.
Reach(k) == IF k < chunks THEN k * Block ELSE align16(in_size)
OutReach(k) == IF k < chunks THEN k * Block ELSE in_size

TypeOK == /\ in_size \in Nat /\ dcx \in BOOLEAN
          /\ phase \in {"size", "data", "table", "read", "done", "TRUNCATED"}
          /\ i \in 0 .. chunks
          /\ data_padded \in Nat /\ off \in Nat /\ out_pos \in Nat

\* The buffer is as long as what is copied into it: no chunk is stored past
\* the size that the first loop computed, and none over another.
StoredFits ==
    \A k \in DOMAIN stored :
        /\ stored[k].at >= header
        /\ stored[k].at + stored[k].len <= header + data_padded
        /\ \A j \in DOMAIN stored : j < k => stored[j].at + stored[j].len <= stored[k].at

\* What decompress_edge puts into the output is the input, byte for byte and
\* all of it, and it never rejects what wrap_edge wrote: for every size whose
\* header words do not wrap.
ReadsBack ==
    Fits => /\ phase # "TRUNCATED"
            /\ \A k \in DOMAIN copied : copied[k].at = copied[k].src
            /\ phase = "done" => out_pos = in_size

\* The inductive invariant, by loop: the sum of the aligned sizes; the chunks
\* and the table entries written so far; the output so far.
SizeInv == /\ data_padded = IF phase = "size" THEN Reach(i) ELSE align16(in_size)
           /\ phase \in {"data", "table"} => off = Reach(i)
           /\ phase = "table" => ~dcx

StoredUpTo == IF phase = "size" THEN 0 ELSE IF phase = "data" THEN i ELSE chunks
StoredInv == /\ DOMAIN stored = 0 .. StoredUpTo - 1
             /\ \A k \in 0 .. StoredUpTo - 1 :
                   stored[k] = [at |-> header + k * Block, src |-> k * Block, len |-> chunk_size(k)]

EntriesUpTo == IF phase = "size" \/ (phase = "data" /\ ~dcx) THEN 0
               ELSE IF phase \in {"data", "table"} THEN i ELSE chunks
EntriesInv == /\ DOMAIN entries = 0 .. EntriesUpTo - 1
              /\ \A k \in 0 .. EntriesUpTo - 1 :
                    entries[k] = [off |-> (k * Block) % U32, sz |-> chunk_size(k)]

OutInv == /\ phase \in {"size", "data", "table"} => out_pos = 0 /\ copied = Nothing
          /\ Fits /\ phase = "read" => out_pos = OutReach(i)
          /\ Fits /\ phase = "done" => i = chunks /\ out_pos = OutReach(i)

IndInv == /\ TypeOK /\ in_size \in Sizes
          /\ SizeInv /\ StoredInv /\ EntriesInv /\ OutInv /\ ReadsBack
=============================================================================
