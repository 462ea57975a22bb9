--------------------------- MODULE DcxEdgeProofs ----------------------------
(***************************************************************************)
(* For every input size that a header word can hold, decompress_edge gives *)
(* back what wrap_edge stored.  The layout of the chunks is arithmetic on  *)
(* chunk numbers, established once in the lemmas about chunks, chunk_size  *)
(* and Reach; the invariant then says how far each loop has come.          *)
(***************************************************************************)
EXTENDS DcxEdge, TLAPS

\* Rounding up to a multiple of 16, as align16 in dcx.c does it.
LEMMA AlignUp ==
    ASSUME NEW n \in Nat
    PROVE  align16(n) \in Nat /\ n <= align16(n) /\ align16(n) < n + 16
BY SMT DEF align16

\* A block is aligned: whole blocks before a size do not change its rounding.
LEMMA AlignBlocks ==
    ASSUME NEW n \in Nat, NEW k \in Nat
    PROVE  align16(k * 65536 + n) = k * 65536 + align16(n)
BY SMT DEF align16

\* The number of chunks is the input size in blocks, rounded up, at least one.
LEMMA ChunksRange ==
    ASSUME in_size \in Nat
    PROVE  /\ chunks \in Nat \ {0}
           /\ (chunks - 1) * Block <= in_size
           /\ in_size <= chunks * Block
           /\ chunks > 1 => (chunks - 1) * Block < in_size
BY SMT DEF chunks, Block

\* Every chunk but the last is a whole block.
LEMMA ChunkSizes ==
    ASSUME in_size \in Nat, NEW k \in 0 .. chunks - 1
    PROVE  /\ chunk_size(k) \in Nat /\ chunk_size(k) <= Block
           /\ k < chunks - 1 => chunk_size(k) = Block
           /\ k = chunks - 1 => chunk_size(k) = in_size - k * Block
<1>1. /\ chunks \in Nat \ {0} /\ (chunks - 1) * 65536 <= in_size /\ in_size <= chunks * 65536
      /\ chunks > 1 => (chunks - 1) * 65536 < in_size
  BY ChunksRange DEF Block
<1>2. CASE k < chunks - 1
  <2>1. in_size > k * 65536 /\ in_size - k * 65536 > 65536
    BY <1>1, <1>2, SMT
  <2> QED
    BY <1>2, <2>1, SMT DEF chunk_size, Block
<1>3. CASE k = chunks - 1
  <2>1. in_size >= k * 65536 /\ in_size - k * 65536 <= 65536 /\ k \in Nat
    BY <1>1, <1>3, SMT
  <2>2. chunk_size(k) = in_size - k * 65536
    BY <2>1, SMT DEF chunk_size, Block
  <2> QED
    BY <1>1, <1>3, <2>1, <2>2, SMT DEF Block
<1> QED
  BY <1>1, <1>2, <1>3, SMT

\* The data area grows by one aligned chunk at a time and ends at the aligned
\* size of the input, because a block is itself aligned.
LEMMA ReachStep ==
    ASSUME in_size \in Nat, NEW k \in 0 .. chunks - 1
    PROVE  /\ Reach(k) \in Nat
           /\ Reach(k) = k * Block
           /\ Reach(k + 1) = Reach(k) + align16(chunk_size(k))
           /\ OutReach(k) = k * Block
           /\ OutReach(k + 1) = OutReach(k) + chunk_size(k)
<1>1. chunks \in Nat \ {0}
  BY ChunksRange
<1>2. CASE k < chunks - 1
  <2>1. chunk_size(k) = Block
    BY <1>2, ChunkSizes
  <2> QED
    BY <1>1, <1>2, <2>1, SMT DEF Reach, OutReach, align16, Block
<1>3. CASE k = chunks - 1
  <2>1. chunk_size(k) = in_size - k * 65536 /\ k * 65536 <= in_size /\ k \in Nat
    BY <1>1, <1>3, ChunkSizes, ChunksRange DEF Block
  <2>2. Reach(k) = k * 65536 /\ OutReach(k) = k * 65536
    BY <1>1, <1>3, <2>1, SMT DEF Reach, OutReach, Block
  <2>3. Reach(k + 1) = align16(in_size) /\ OutReach(k + 1) = in_size
    BY <1>1, <1>3, <2>1, SMT DEF Reach, OutReach
  <2>4. chunk_size(k) \in Nat /\ in_size = k * 65536 + chunk_size(k)
    BY <2>1, SMT
  <2>5. align16(in_size) = k * 65536 + align16(chunk_size(k))
    BY <2>1, <2>4, AlignBlocks
  <2> QED
    BY <2>1, <2>2, <2>3, <2>4, <2>5, SMT DEF Block
<1> QED
  BY <1>1, <1>2, <1>3


\* The call does not change while it runs: neither do the numbers computed
\* from its input size and flavour.
LEMMA SameCall ==
    ASSUME in_size' = in_size, dcx' = dcx
    PROVE  /\ chunks' = chunks /\ header' = header
           /\ \A k : chunk_size(k)' = chunk_size(k)
           /\ data_padded' = data_padded => (Fits' <=> Fits)
BY DEF chunks, header, chunk_size, Fits, align16

\* Before the first loop nothing is stored and nothing is read.
LEMMA InitInv == Init => IndInv
<1> SUFFICES ASSUME Init PROVE IndInv
  OBVIOUS
<1>1. in_size \in Nat /\ in_size \in Sizes
  BY SizesAssumption, U32Assumption, SMT DEF Init
<1>2. chunks \in Nat \ {0}
  BY <1>1, ChunksRange
<1>3. TypeOK
  BY <1>1, <1>2, SMT DEF Init, TypeOK
<1>4. SizeInv
  <2>1. Reach(0) = 0
    BY <1>2, SMT DEF Reach, Block
  <2> QED
    BY <2>1 DEF Init, SizeInv
<1>5. StoredInv /\ EntriesInv
  <2>1. 0 .. 0 - 1 = {} /\ DOMAIN Nothing = {}
    BY SMT DEF Nothing
  <2> QED
    BY <2>1 DEF Init, StoredInv, EntriesInv, StoredUpTo, EntriesUpTo
<1>6. OutInv /\ ReadsBack
  BY SMT DEF Init, OutInv, ReadsBack, Nothing
<1> QED
  BY <1>1, <1>3, <1>4, <1>5, <1>6 DEF IndInv


\* A step of the sizing loop adds one aligned chunk.
LEMMA SizeChunkInv == IndInv /\ SizeChunk => IndInv'
<1> SUFFICES ASSUME IndInv, SizeChunk PROVE IndInv'
  OBVIOUS
<1>1. in_size \in Nat /\ in_size' = in_size /\ dcx' = dcx /\ chunks \in Nat \ {0}
      /\ i \in 0 .. chunks - 1 /\ i' = i + 1 /\ phase = "size" /\ phase' = "size"
  BY ChunksRange, SMT DEF IndInv, TypeOK, SizeChunk
<1>2. chunks' = chunks
  BY <1>1, SameCall
<1>3. data_padded' = Reach(i + 1) /\ data_padded' \in Nat
  <2>1. data_padded' = data_padded + align16(chunk_size(i)) /\ data_padded = Reach(i)
    BY <1>1 DEF SizeChunk, IndInv, SizeInv
  <2>2. Reach(i + 1) = Reach(i) + align16(chunk_size(i)) /\ Reach(i) \in Nat
    BY <1>1, ReachStep
  <2>3. align16(chunk_size(i)) \in Nat
    BY <1>1, ChunkSizes, AlignUp
  <2> QED
    BY <2>1, <2>2, <2>3, SMT
<1>4. TypeOK'
  BY <1>1, <1>2, <1>3, SMT DEF IndInv, TypeOK, SizeChunk
<1>5. SizeInv'
  <2>1. Reach(i)' = Reach(i + 1)
    BY <1>1, <1>2 DEF Reach, align16
  <2> QED
    BY <1>1, <1>3, <2>1 DEF SizeInv
<1>6. StoredInv' /\ EntriesInv'
  <2>1. stored' = stored /\ entries' = entries /\ DOMAIN stored = 0 .. 0 - 1 /\ DOMAIN entries = 0 .. 0 - 1
    BY <1>1 DEF SizeChunk, IndInv, StoredInv, EntriesInv, StoredUpTo, EntriesUpTo
  <2>2. StoredUpTo' = 0 /\ EntriesUpTo' = 0 /\ 0 .. 0 - 1 = {}
    BY <1>1, SMT DEF StoredUpTo, EntriesUpTo
  <2> QED
    BY <2>1, <2>2 DEF StoredInv, EntriesInv
<1>7. OutInv' /\ ReadsBack'
  <2>1. out_pos' = 0 /\ copied' = Nothing /\ DOMAIN Nothing = {}
    BY <1>1 DEF SizeChunk, IndInv, OutInv, Nothing
  <2> QED
    BY <1>1, <2>1 DEF OutInv, ReadsBack
<1> QED
  BY <1>1, <1>4, <1>5, <1>6, <1>7 DEF IndInv

\* What With adds to a table that holds the chunks below i.
LEMMA WithNext ==
    ASSUME NEW n \in Nat, NEW f, NEW v, DOMAIN f = 0 .. n - 1
    PROVE  /\ DOMAIN With(f, n, v) = 0 .. (n + 1) - 1
           /\ With(f, n, v)[n] = v
           /\ \A k \in 0 .. n - 1 : With(f, n, v)[k] = f[k]
<1>1. DOMAIN With(f, n, v) = (DOMAIN f) \cup {n}
  BY DEF With
<1>2. (0 .. n - 1) \cup {n} = 0 .. (n + 1) - 1
  BY SMT
<1>3. \A k \in 0 .. n - 1 : k # n
  BY SMT
<1> QED
  BY <1>1, <1>2, <1>3 DEF With


\* One more entry keeps the table what it should be.
LEMMA EntriesStep ==
    ASSUME NEW n \in Nat, NEW f, NEW g, DOMAIN f = 0 .. n - 1,
           \A k \in 0 .. n - 1 : f[k] = [off |-> (k * Block) % U32, sz |-> chunk_size(k)],
           g = With(f, n, [off |-> (n * Block) % U32, sz |-> chunk_size(n)])
    PROVE  /\ DOMAIN g = 0 .. (n + 1) - 1
           /\ \A k \in 0 .. (n + 1) - 1 : g[k] = [off |-> (k * Block) % U32, sz |-> chunk_size(k)]
<1> DEFINE v == [off |-> (n * Block) % U32, sz |-> chunk_size(n)]
<1>1. DOMAIN g = 0 .. (n + 1) - 1 /\ g[n] = v /\ \A k \in 0 .. n - 1 : g[k] = f[k]
  BY WithNext
<1>2. \A k \in 0 .. (n + 1) - 1 : k = n \/ k \in 0 .. n - 1
  BY SMT
<1> QED
  BY <1>1, <1>2

\* The same for the stored chunks.
LEMMA StoredStep ==
    ASSUME NEW n \in Nat, NEW f, NEW g, DOMAIN f = 0 .. n - 1,
           \A k \in 0 .. n - 1 : f[k] = [at |-> header + k * Block, src |-> k * Block, len |-> chunk_size(k)],
           g = With(f, n, [at |-> header + n * Block, src |-> n * Block, len |-> chunk_size(n)])
    PROVE  /\ DOMAIN g = 0 .. (n + 1) - 1
           /\ \A k \in 0 .. (n + 1) - 1 :
                 g[k] = [at |-> header + k * Block, src |-> k * Block, len |-> chunk_size(k)]
<1> DEFINE v == [at |-> header + n * Block, src |-> n * Block, len |-> chunk_size(n)]
<1>1. DOMAIN g = 0 .. (n + 1) - 1 /\ g[n] = v /\ \A k \in 0 .. n - 1 : g[k] = f[k]
  BY WithNext
<1>2. \A k \in 0 .. (n + 1) - 1 : k = n \/ k \in 0 .. n - 1
  BY SMT
<1> QED
  BY <1>1, <1>2

\* A step of the data loop stores one chunk, and for DCX its entry.
LEMMA DataChunkInv == IndInv /\ DataChunk => IndInv'
<1> SUFFICES ASSUME IndInv, DataChunk PROVE IndInv'
  OBVIOUS
<1>1. in_size \in Nat /\ in_size' = in_size /\ dcx' = dcx /\ chunks \in Nat \ {0}
      /\ i \in 0 .. chunks - 1 /\ i \in Nat /\ i' = i + 1 /\ phase = "data" /\ phase' = "data"
      /\ data_padded' = data_padded
  BY ChunksRange, SMT DEF IndInv, TypeOK, DataChunk
<1>2. chunks' = chunks /\ header' = header /\ \A k : chunk_size(k)' = chunk_size(k)
  BY <1>1, SameCall
<1>3. off = i * Block /\ off' = Reach(i + 1) /\ off' \in Nat
  <2>1. off' = off + align16(chunk_size(i)) /\ off = Reach(i)
    BY <1>1 DEF DataChunk, IndInv, SizeInv
  <2>2. Reach(i + 1) = Reach(i) + align16(chunk_size(i)) /\ Reach(i) \in Nat /\ Reach(i) = i * Block
    BY <1>1, ReachStep
  <2>3. align16(chunk_size(i)) \in Nat
    BY <1>1, ChunkSizes, AlignUp
  <2> QED
    BY <2>1, <2>2, <2>3, SMT
<1>4. TypeOK'
  BY <1>1, <1>2, <1>3, SMT DEF IndInv, TypeOK, DataChunk
<1>5. SizeInv'
  <2>1. Reach(i)' = Reach(i + 1) /\ align16(in_size)' = align16(in_size)
    BY <1>1, <1>2 DEF Reach, align16
  <2> QED
    BY <1>1, <1>3, <2>1 DEF IndInv, SizeInv
<1>6. StoredInv'
  <2>1. stored' = With(stored, i, [at |-> header + i * Block, src |-> i * Block, len |-> chunk_size(i)])
    BY <1>3 DEF DataChunk
  <2>2. /\ DOMAIN stored = 0 .. i - 1
        /\ \A k \in 0 .. i - 1 : stored[k] = [at |-> header + k * Block, src |-> k * Block, len |-> chunk_size(k)]
    BY <1>1 DEF IndInv, StoredInv, StoredUpTo
  <2>3. /\ DOMAIN stored' = 0 .. (i + 1) - 1
        /\ \A k \in 0 .. (i + 1) - 1 :
              stored'[k] = [at |-> header + k * Block, src |-> k * Block, len |-> chunk_size(k)]
    BY <1>1, <2>1, <2>2, StoredStep
  <2>4. StoredUpTo' = i + 1
    BY <1>1 DEF StoredUpTo
  <2> QED
    BY <1>2, <2>3, <2>4 DEF StoredInv
<1>7. EntriesInv'
  <2>1. CASE dcx
    <3>1. entries' = With(entries, i, [off |-> (i * Block) % U32, sz |-> chunk_size(i)])
      BY <1>3, <2>1 DEF DataChunk
    <3>2. /\ DOMAIN entries = 0 .. i - 1
          /\ \A k \in 0 .. i - 1 : entries[k] = [off |-> (k * Block) % U32, sz |-> chunk_size(k)]
      BY <1>1, <2>1 DEF IndInv, EntriesInv, EntriesUpTo
    <3>3. /\ DOMAIN entries' = 0 .. (i + 1) - 1
          /\ \A k \in 0 .. (i + 1) - 1 : entries'[k] = [off |-> (k * Block) % U32, sz |-> chunk_size(k)]
      BY <1>1, <3>1, <3>2, EntriesStep
    <3>4. EntriesUpTo' = i + 1
      BY <1>1, <2>1 DEF EntriesUpTo
    <3> QED
      BY <1>2, <3>3, <3>4 DEF EntriesInv
  <2>2. CASE ~dcx
    <3>1. entries' = entries /\ DOMAIN entries = 0 .. 0 - 1 /\ EntriesUpTo' = 0
      BY <1>1, <2>2 DEF DataChunk, IndInv, EntriesInv, EntriesUpTo
    <3>2. 0 .. 0 - 1 = {}
      BY SMT
    <3> QED
      BY <3>1, <3>2 DEF EntriesInv
  <2> QED
    BY <2>1, <2>2
<1>8. OutInv' /\ ReadsBack'
  <2>1. out_pos' = 0 /\ copied' = Nothing /\ DOMAIN Nothing = {}
    BY <1>1 DEF DataChunk, IndInv, OutInv, Nothing
  <2> QED
    BY <1>1, <2>1 DEF OutInv, ReadsBack
<1> QED
  BY <1>1, <1>4, <1>5, <1>6, <1>7, <1>8 DEF IndInv

\* A step of the DCP table loop writes one entry.
LEMMA TableChunkInv == IndInv /\ TableChunk => IndInv'
<1> SUFFICES ASSUME IndInv, TableChunk PROVE IndInv'
  OBVIOUS
<1>1. in_size \in Nat /\ in_size' = in_size /\ dcx' = dcx /\ chunks \in Nat \ {0}
      /\ i \in 0 .. chunks - 1 /\ i \in Nat /\ i' = i + 1 /\ phase = "table" /\ phase' = "table"
      /\ data_padded' = data_padded /\ stored' = stored
  BY ChunksRange, SMT DEF IndInv, TypeOK, TableChunk
<1>2. chunks' = chunks /\ header' = header /\ \A k : chunk_size(k)' = chunk_size(k)
  BY <1>1, SameCall
<1>3. off = i * Block /\ off' = Reach(i + 1) /\ off' \in Nat
  <2>1. off' = off + align16(chunk_size(i)) /\ off = Reach(i)
    BY <1>1 DEF TableChunk, IndInv, SizeInv
  <2>2. Reach(i + 1) = Reach(i) + align16(chunk_size(i)) /\ Reach(i) \in Nat /\ Reach(i) = i * Block
    BY <1>1, ReachStep
  <2>3. align16(chunk_size(i)) \in Nat
    BY <1>1, ChunkSizes, AlignUp
  <2> QED
    BY <2>1, <2>2, <2>3, SMT
<1>4. TypeOK'
  BY <1>1, <1>2, <1>3, SMT DEF IndInv, TypeOK, TableChunk
<1>5. SizeInv'
  <2>1. Reach(i)' = Reach(i + 1) /\ align16(in_size)' = align16(in_size)
    BY <1>1, <1>2 DEF Reach, align16
  <2> QED
    BY <1>1, <1>3, <2>1 DEF IndInv, SizeInv
<1>6. StoredInv'
  <2>1. StoredUpTo' = StoredUpTo
    BY <1>1, <1>2 DEF StoredUpTo
  <2> QED
    BY <1>1, <1>2, <2>1 DEF IndInv, StoredInv
<1>7. EntriesInv'
  <2>1. entries' = With(entries, i, [off |-> (i * Block) % U32, sz |-> chunk_size(i)])
    BY <1>3 DEF TableChunk
  <2>2. /\ DOMAIN entries = 0 .. i - 1
        /\ \A k \in 0 .. i - 1 : entries[k] = [off |-> (k * Block) % U32, sz |-> chunk_size(k)]
    BY <1>1 DEF IndInv, EntriesInv, EntriesUpTo
  <2>3. /\ DOMAIN entries' = 0 .. (i + 1) - 1
        /\ \A k \in 0 .. (i + 1) - 1 : entries'[k] = [off |-> (k * Block) % U32, sz |-> chunk_size(k)]
    BY <1>1, <2>1, <2>2, EntriesStep
  <2>4. EntriesUpTo' = i + 1
    BY <1>1 DEF EntriesUpTo
  <2> QED
    BY <1>2, <2>3, <2>4 DEF EntriesInv
<1>8. OutInv' /\ ReadsBack'
  <2>1. out_pos' = 0 /\ copied' = Nothing /\ DOMAIN Nothing = {}
    BY <1>1 DEF TableChunk, IndInv, OutInv, Nothing
  <2> QED
    BY <1>1, <2>1 DEF OutInv, ReadsBack
<1> QED
  BY <1>1, <1>4, <1>5, <1>6, <1>7, <1>8 DEF IndInv


\* Between two loops the counters start again; what is written stays.
LEMMA NextLoopInv == IndInv /\ NextLoop => IndInv'
<1> SUFFICES ASSUME IndInv, NextLoop PROVE IndInv'
  OBVIOUS
<1>1. in_size \in Nat /\ in_size' = in_size /\ dcx' = dcx /\ chunks \in Nat \ {0}
      /\ i = chunks /\ i' = 0 /\ off' = 0 /\ phase \in {"size", "data", "table"}
      /\ data_padded' = data_padded /\ stored' = stored /\ entries' = entries
      /\ out_pos' = 0 /\ copied' = Nothing
  BY ChunksRange DEF IndInv, TypeOK, NextLoop, OutInv
<1>2. chunks' = chunks /\ header' = header /\ \A k : chunk_size(k)' = chunk_size(k)
  BY <1>1, SameCall
<1>3. \/ phase = "size" /\ phase' = "data"
      \/ phase = "data" /\ ~dcx /\ phase' = "table"
      \/ phase = "data" /\ dcx /\ phase' = "read"
      \/ phase = "table" /\ ~dcx /\ phase' = "read"
  BY DEF NextLoop, IndInv, TypeOK, SizeInv
<1>4. TypeOK'
  <2>1. i' \in 0 .. chunks'
    BY <1>1, <1>2, SMT
  <2> QED
    BY <1>1, <1>3, <2>1 DEF IndInv, TypeOK
<1>5. SizeInv'
  <2>1. Reach(0) = 0
    BY <1>1, SMT DEF Reach, Block
  <2>2. Reach(i)' = Reach(0) /\ align16(in_size)' = align16(in_size)
    BY <1>1, <1>2 DEF Reach, align16
  <2>3. Reach(chunks) = align16(in_size)
    BY <1>1, SMT DEF Reach
  <2>4. data_padded = align16(in_size)
    BY <1>1, <1>3, <2>3 DEF IndInv, SizeInv
  <2> QED
    BY <1>1, <1>3, <2>1, <2>2, <2>4 DEF SizeInv
<1>6. StoredInv'
  <2>1. StoredUpTo' = StoredUpTo
    BY <1>1, <1>2, <1>3 DEF StoredUpTo
  <2> QED
    BY <1>1, <1>2, <2>1 DEF IndInv, StoredInv
<1>7. EntriesInv'
  <2>1. EntriesUpTo' = EntriesUpTo
    BY <1>1, <1>2, <1>3 DEF EntriesUpTo
  <2> QED
    BY <1>1, <1>2, <2>1 DEF IndInv, EntriesInv
<1>8. OutInv' /\ ReadsBack'
  <2>1. OutReach(i)' = 0
    BY <1>1, <1>2, SMT DEF OutReach, Block
  <2>2. DOMAIN Nothing = {}
    BY DEF Nothing
  <2> QED
    BY <1>1, <1>3, <2>1, <2>2 DEF OutInv, ReadsBack
<1> QED
  BY <1>1, <1>4, <1>5, <1>6, <1>7, <1>8 DEF IndInv

\* What the reader computes from the header of a container that fits: the
\* places and sizes the writer used.
LEMMA HeaderRead ==
    ASSUME IndInv, phase = "read", i \in 0 .. chunks - 1, Fits
    PROVE  /\ word_usize = in_size
           /\ data_start = header /\ header \in Nat
           /\ data_padded = align16(in_size) /\ (~dcx => word_csize = data_padded)
           /\ entries[i].off = i * Block /\ entries[i].sz = chunk_size(i)
<1>1. in_size \in Nat /\ in_size < U32 /\ U32 \in Nat \ {0} /\ chunks \in Nat \ {0}
      /\ dcx \in BOOLEAN
  BY SizesAssumption, U32Assumption, ChunksRange, SMT DEF IndInv, TypeOK
<1>2. data_padded = align16(in_size) /\ align16(in_size) \in Nat
  BY <1>1, AlignUp DEF IndInv, SizeInv
<1>3. word_usize = in_size
  BY <1>1, SMT DEF word_usize
<1>4. data_start = header /\ header \in Nat
  BY <1>1, SMT DEF data_start, header, word_dca_size, Fits
<1>5. ~dcx => word_csize = data_padded
  BY <1>1, <1>2, SMT DEF word_csize, Fits
<1>6. i * Block < U32 /\ i * Block \in Nat
  BY <1>1, ChunksRange, SMT DEF Block
<1>7. entries[i] = [off |-> (i * Block) % U32, sz |-> chunk_size(i)]
  BY DEF IndInv, EntriesInv, EntriesUpTo
<1>8. (i * Block) % U32 = i * Block
  BY <1>1, <1>6, SMT
<1> QED
  BY <1>2, <1>3, <1>4, <1>5, <1>7, <1>8

\* The reader never rejects a container that fits.
LEMMA ReadFailsInv == IndInv /\ ReadFails => IndInv'
<1> SUFFICES ASSUME IndInv, ReadFails PROVE IndInv'
  OBVIOUS
<1>1. in_size \in Nat /\ in_size' = in_size /\ dcx' = dcx /\ chunks \in Nat \ {0} /\ dcx \in BOOLEAN
      /\ i \in 0 .. chunks - 1 /\ i' = i /\ phase = "read" /\ phase' = "TRUNCATED"
      /\ data_padded' = data_padded /\ stored' = stored /\ entries' = entries
      /\ off' = off /\ out_pos' = out_pos /\ copied' = copied
  BY ChunksRange, SMT DEF IndInv, TypeOK, ReadFails
<1>2. chunks' = chunks /\ header' = header /\ (\A k : chunk_size(k)' = chunk_size(k)) /\ (Fits' <=> Fits)
  BY <1>1, SameCall
<1>3. ~Fits
  <2> SUFFICES ASSUME Fits PROVE FALSE
    OBVIOUS
  <2>1. /\ word_usize = in_size
        /\ data_start = header /\ header \in Nat
        /\ data_padded = align16(in_size) /\ (~dcx => word_csize = data_padded)
        /\ entries[i].off = i * Block /\ entries[i].sz = chunk_size(i)
    BY <1>1, HeaderRead
  <2>2. in_size <= data_padded /\ data_padded \in Nat
    BY <1>1, <2>1, AlignUp
  <2>3. ~TableBad
    BY <1>1, <2>1, <2>2, SMT DEF TableBad, total, header, dca, table, Fits, MaxCount
  <2>4. out_pos = OutReach(i) /\ OutReach(i) = i * Block /\ OutReach(i + 1) = i * Block + chunk_size(i)
    BY <1>1, ReachStep DEF IndInv, OutInv
  <2>5. i * Block + chunk_size(i) <= in_size /\ i * Block \in Nat /\ chunk_size(i) \in Nat
    BY <1>1, ChunksRange, ChunkSizes, SMT DEF Block
  <2>6. ~(data_start + entries[i].off + entries[i].sz > total)
    BY <1>1, <2>1, <2>2, <2>5, SMT DEF total
  <2>7. ~(out_pos + chunk_usize > word_usize)
    BY <1>1, <2>1, <2>4, <2>5, SMT DEF chunk_usize, Block
  <2> QED
    BY <2>3, <2>6, <2>7 DEF ReadFails, ChunkBad
<1>4. TypeOK'
  BY <1>1, <1>2 DEF IndInv, TypeOK
<1>5. SizeInv'
  BY <1>1 DEF IndInv, SizeInv, align16
<1>6. StoredInv'
  <2>1. StoredUpTo' = StoredUpTo
    BY <1>1, <1>2 DEF StoredUpTo
  <2> QED
    BY <1>1, <1>2, <2>1 DEF IndInv, StoredInv
<1>7. EntriesInv'
  <2>1. EntriesUpTo' = EntriesUpTo
    BY <1>1, <1>2 DEF EntriesUpTo
  <2> QED
    BY <1>1, <1>2, <2>1 DEF IndInv, EntriesInv
<1>8. OutInv' /\ ReadsBack'
  BY <1>1, <1>2, <1>3 DEF OutInv, ReadsBack
<1> QED
  BY <1>1, <1>4, <1>5, <1>6, <1>7, <1>8 DEF IndInv


\* A chunk that is read lands where it came from.
LEMMA ReadChunkInv == IndInv /\ ReadChunk => IndInv'
<1> SUFFICES ASSUME IndInv, ReadChunk PROVE IndInv'
  OBVIOUS
<1>1. in_size \in Nat /\ in_size' = in_size /\ dcx' = dcx /\ chunks \in Nat \ {0}
      /\ i \in 0 .. chunks - 1 /\ i' = i + 1 /\ phase = "read" /\ phase' = "read"
      /\ data_padded' = data_padded /\ stored' = stored /\ entries' = entries /\ off' = off
  BY ChunksRange, SMT DEF IndInv, TypeOK, ReadChunk
<1>2. chunks' = chunks /\ header' = header /\ (\A k : chunk_size(k)' = chunk_size(k)) /\ (Fits' <=> Fits)
  BY <1>1, SameCall
<1>3. entries[i].sz = chunk_size(i) /\ chunk_size(i) \in Nat
  <2>1. entries[i] = [off |-> (i * Block) % U32, sz |-> chunk_size(i)]
    BY <1>1 DEF IndInv, EntriesInv, EntriesUpTo
  <2> QED
    BY <1>1, <2>1, ChunkSizes
<1>4. out_pos' = out_pos + chunk_size(i) /\ out_pos \in Nat /\ out_pos' \in Nat
  <2>1. out_pos' = out_pos + chunk_size(i) /\ out_pos \in Nat
    BY <1>3 DEF ReadChunk, IndInv, TypeOK
  <2> QED
    BY <1>3, <2>1, SMT
<1>5. TypeOK'
  BY <1>1, <1>2, <1>4, SMT DEF IndInv, TypeOK
<1>6. SizeInv'
  BY <1>1 DEF IndInv, SizeInv, align16
<1>7. StoredInv'
  <2>1. StoredUpTo' = StoredUpTo
    BY <1>1, <1>2 DEF StoredUpTo
  <2> QED
    BY <1>1, <1>2, <2>1 DEF IndInv, StoredInv
<1>8. EntriesInv'
  <2>1. EntriesUpTo' = EntriesUpTo
    BY <1>1, <1>2 DEF EntriesUpTo
  <2> QED
    BY <1>1, <1>2, <2>1 DEF IndInv, EntriesInv
<1>9. OutInv'
  <2>1. Fits => out_pos' = OutReach(i + 1)
    <3>1. Fits => out_pos = OutReach(i)
      BY <1>1 DEF IndInv, OutInv
    <3>2. OutReach(i + 1) = OutReach(i) + chunk_size(i)
      BY <1>1, ReachStep
    <3> QED
      BY <1>4, <3>1, <3>2
  <2>2. OutReach(i)' = OutReach(i + 1)
    BY <1>1, <1>2 DEF OutReach
  <2> QED
    BY <1>1, <1>2, <2>1, <2>2 DEF OutInv
<1>10. ReadsBack'
  <2> SUFFICES ASSUME Fits, NEW c \in DOMAIN copied'
               PROVE  copied'[c].at = copied'[c].src
    BY <1>1, <1>2 DEF ReadsBack
  <2>1. /\ data_start = header /\ header \in Nat /\ entries[i].off = i * Block
    BY <1>1, HeaderRead
  <2>2. PICK k \in DOMAIN stored : copied' = With(copied, i, Copy(entries[i], k))
    BY DEF ReadChunk
  <2>3. /\ k \in Nat
        /\ stored[k] = [at |-> header + k * Block, src |-> k * Block, len |-> chunk_size(k)]
    <3>1. DOMAIN stored = 0 .. chunks - 1
      BY <1>1 DEF IndInv, StoredInv, StoredUpTo
    <3> QED
      BY <1>1, <3>1 DEF IndInv, StoredInv, StoredUpTo
  <2>4. Copy(entries[i], k).at = i * Block
    <3>1. out_pos = OutReach(i) /\ OutReach(i) = i * Block
      BY <1>1, ReachStep DEF IndInv, OutInv
    <3> QED
      BY <3>1 DEF Copy
  <2>5. Copy(entries[i], k).src = i * Block
    <3>1. Copy(entries[i], k).src = k * Block + (header + i * Block - (header + k * Block))
      BY <2>1, <2>3 DEF Copy
    <3>2. k * Block \in Int /\ i * Block \in Int
      BY <1>1, <2>3, SMT DEF Block
    <3> QED
      BY <2>1, <3>1, <3>2, SMT
  <2>6. CASE c = i
    BY <2>2, <2>4, <2>5, <2>6 DEF With
  <2>7. CASE c # i
    <3>1. c \in DOMAIN copied /\ copied'[c] = copied[c]
      BY <2>2, <2>7 DEF With
    <3> QED
      BY <3>1 DEF IndInv, ReadsBack
  <2> QED
    BY <2>6, <2>7
<1> QED
  BY <1>1, <1>5, <1>6, <1>7, <1>8, <1>9, <1>10 DEF IndInv

\* At the end of the loop the whole input is back.
LEMMA ReadDoneInv == IndInv /\ ReadDone => IndInv'
<1> SUFFICES ASSUME IndInv, ReadDone PROVE IndInv'
  OBVIOUS
<1>1. in_size \in Nat /\ in_size' = in_size /\ dcx' = dcx /\ chunks \in Nat \ {0}
      /\ i = chunks /\ i' = i /\ phase = "read" /\ phase' = "done"
      /\ data_padded' = data_padded /\ stored' = stored /\ entries' = entries
      /\ off' = off /\ out_pos' = out_pos /\ copied' = copied
  BY ChunksRange, SMT DEF IndInv, TypeOK, ReadDone
<1>2. chunks' = chunks /\ header' = header /\ (\A k : chunk_size(k)' = chunk_size(k)) /\ (Fits' <=> Fits)
  BY <1>1, SameCall
<1>3. TypeOK'
  BY <1>1, <1>2 DEF IndInv, TypeOK
<1>4. SizeInv'
  BY <1>1 DEF IndInv, SizeInv, align16
<1>5. StoredInv'
  <2>1. StoredUpTo' = StoredUpTo
    BY <1>1, <1>2 DEF StoredUpTo
  <2> QED
    BY <1>1, <1>2, <2>1 DEF IndInv, StoredInv
<1>6. EntriesInv'
  <2>1. EntriesUpTo' = EntriesUpTo
    BY <1>1, <1>2 DEF EntriesUpTo
  <2> QED
    BY <1>1, <1>2, <2>1 DEF IndInv, EntriesInv
<1>7. OutInv' /\ ReadsBack'
  <2>1. OutReach(i)' = OutReach(i) /\ OutReach(i) = in_size
    BY <1>1, <1>2, SMT DEF OutReach
  <2>2. Fits => out_pos = OutReach(i)
    BY <1>1 DEF IndInv, OutInv
  <2> QED
    BY <1>1, <1>2, <2>1, <2>2 DEF OutInv, ReadsBack, IndInv
<1> QED
  BY <1>1, <1>3, <1>4, <1>5, <1>6, <1>7 DEF IndInv

\* Stuttering keeps the invariant.
LEMMA StutterInv == IndInv /\ UNCHANGED vars => IndInv'
BY DEF IndInv, vars, TypeOK, SizeInv, StoredInv, EntriesInv, OutInv, ReadsBack, Fits, chunks,
       header, chunk_size, Reach, OutReach, StoredUpTo, EntriesUpTo, align16

\* The invariant of wrap_edge followed by decompress_edge: how far each of
\* their loops has come after i chunks, for every input size.
THEOREM EdgeInvariant == Spec => []IndInv
<1>1. IndInv /\ [Next]_vars => IndInv'
  BY SizeChunkInv, DataChunkInv, TableChunkInv, NextLoopInv, ReadFailsInv, ReadChunkInv,
     ReadDoneInv, StutterInv DEF Next
<1> QED
  BY <1>1, InitInv, PTL DEF Spec

\* Type correctness: no loop index leaves the chunks and no offset or size
\* ever goes below zero.
THEOREM EdgeTypes == Spec => []TypeOK
<1>1. IndInv => TypeOK
  BY DEF IndInv
<1> QED
  BY <1>1, EdgeInvariant, PTL

\* decompress_edge returns exactly the bytes that wrap_edge was given, and
\* accepts the container, whatever their number, as long as the aligned size
\* fits a header word.
THEOREM EdgeRoundTrip == Spec => []ReadsBack
<1>1. IndInv => ReadsBack
  BY DEF IndInv
<1> QED
  BY <1>1, EdgeInvariant, PTL

\* wrap_edge stores its chunks inside the buffer it sized beforehand, one
\* after the other and never one over another.
THEOREM EdgeStoredFits == Spec => []StoredFits
<1>1. ASSUME IndInv PROVE StoredFits
  <2>1. in_size \in Nat /\ chunks \in Nat \ {0} /\ i \in 0 .. chunks /\ header \in Nat
    <3>1. in_size \in Nat /\ chunks \in Nat \ {0} /\ i \in 0 .. chunks /\ dcx \in BOOLEAN
      BY <1>1, ChunksRange DEF IndInv, TypeOK
    <3> QED
      BY <3>1, SMT DEF header
  <2> SUFFICES ASSUME NEW k \in DOMAIN stored
               PROVE  /\ stored[k].at >= header
                      /\ stored[k].at + stored[k].len <= header + data_padded
                      /\ \A j \in DOMAIN stored : j < k => stored[j].at + stored[j].len <= stored[k].at
    BY DEF StoredFits
  <2>2. \A j \in DOMAIN stored :
           /\ j \in 0 .. chunks - 1
           /\ stored[j].at = header + j * Block /\ stored[j].len = chunk_size(j)
    <3>1. StoredUpTo \in 0 .. chunks
      BY <2>1, SMT DEF StoredUpTo
    <3>2. 0 .. StoredUpTo - 1 \subseteq 0 .. chunks - 1
      BY <2>1, <3>1, SMT
    <3> QED
      BY <1>1, <3>2 DEF IndInv, StoredInv
  <2>3. data_padded = align16(in_size) /\ align16(in_size) \in Nat /\ in_size <= align16(in_size)
    <3>1. phase # "size"
      <4>1. phase = "size" => DOMAIN stored = 0 .. 0 - 1
        BY <1>1 DEF IndInv, StoredInv, StoredUpTo
      <4>2. 0 .. 0 - 1 = {}
        BY SMT
      <4> QED
        BY <4>1, <4>2
    <3> QED
      BY <1>1, <2>1, <3>1, AlignUp DEF IndInv, SizeInv
  <2>4. \A j \in 0 .. chunks - 1 : /\ chunk_size(j) \in Nat /\ chunk_size(j) <= Block
                                   /\ j * Block + chunk_size(j) <= in_size
    <3> TAKE j \in 0 .. chunks - 1
    <3>1. chunk_size(j) \in Nat /\ chunk_size(j) <= Block
      BY <2>1, ChunkSizes
    <3>2. j * Block + chunk_size(j) <= in_size
      BY <2>1, ChunkSizes, ChunksRange, SMT DEF Block
    <3> QED
      BY <3>1, <3>2
  <2>5. k \in 0 .. chunks - 1 /\ stored[k].at = header + k * Block /\ stored[k].len = chunk_size(k)
    BY <2>2
  <2>6. chunk_size(k) \in Nat /\ k * Block + chunk_size(k) <= in_size
    BY <2>4, <2>5
  <2>7. stored[k].at >= header /\ stored[k].at + stored[k].len <= header + data_padded
    BY <2>1, <2>3, <2>5, <2>6, SMT DEF Block
  <2>8. ASSUME NEW j \in DOMAIN stored, j < k
        PROVE  stored[j].at + stored[j].len <= stored[k].at
    <3>1. j \in 0 .. chunks - 1 /\ stored[j].at = header + j * Block /\ stored[j].len = chunk_size(j)
      BY <2>2
    <3>2. chunk_size(j) \in Nat /\ chunk_size(j) <= Block
      BY <2>4, <3>1
    <3>3. j \in Nat /\ k \in Nat
      BY <2>1, <2>5, <3>1, SMT
    <3> QED
      BY <2>1, <2>5, <2>8, <3>1, <3>2, <3>3, SMT DEF Block
  <2> QED
    BY <2>7, <2>8
<1> QED
  BY <1>1, EdgeInvariant, PTL
=============================================================================
