------------------------- MODULE BinaryReaderProofs -------------------------
(***************************************************************************)
(* Theorems about the binary reader, for inputs of every length and        *)
(* content, every choice of calls, offsets and alignments, every chunk and *)
(* buffer size and every depth of the step stack, on both backends.        *)
(***************************************************************************)
EXTENDS BinaryReader, WellFoundedInduction, TLAPS

\* Every nonempty set of natural numbers has a least element.
LEMMA Least ==
    ASSUME NEW T \in SUBSET Nat, T # {}
    PROVE  \E x \in T : \A y \in T : x <= y
<1> DEFINE R == OpToRel(<, Nat)
<1>1. \A x, y \in Nat : <<y, x>> \in R <=> y < x
  BY DEF OpToRel
<1>2. IsWellFoundedOn(R, Nat)
  BY NatLessThanWellFounded
<1> HIDE DEF R
<1>3. PICK x \in T : \A y \in T : ~(<<y, x>> \in R)
  BY <1>2, WFMin
<1>4. ASSUME NEW y \in T PROVE x <= y
  <2>1. x \in Nat /\ y \in Nat /\ ~(<<y, x>> \in R)
    BY <1>3
  <2>2. ~(y < x)
    BY <1>1, <2>1
  <2> QED
    BY <2>1, <2>2
<1> QED
  BY <1>4

\* Where a call that started at p may leave the stream: never before p, and
\* in memory never past the end.
Lands(p, r) == /\ r[2] \in Nat /\ r[2] >= p
               /\ backend = "memory" /\ p <= Size => r[2] <= Size

Failures == {"TRUNCATED", "IO"}

\* sf_istream_read, every outcome.
LEMMA ReadOutcome ==
    ASSUME NEW p \in Nat, NEW n \in Nat, NEW r \in Read(p, n)
    PROVE  /\ Lands(p, r) /\ r[1] \in {"OK"} \cup Failures
           /\ r[1] = "OK" => r[2] = p + n /\ (n > 0 => p + n <= Size)
<1>1. CASE r = <<"OK", p + n>> /\ (n > 0 => p + n <= Size)
  BY <1>1, SizeAssumption DEF Lands
<1>2. CASE r = <<"TRUNCATED", p>>
  BY <1>2 DEF Lands, Failures
<1>3. CASE backend # "memory" /\ r = <<"TRUNCATED", IF p > Size THEN p ELSE Size>>
  BY <1>3, SizeAssumption DEF Lands, Failures
<1>4. CASE backend # "memory" /\ \E m \in Nat : r = <<"IO", p + m>>
  BY <1>4 DEF Lands, Failures
<1>5. CASE n = 0
  <2>1. r = <<"OK", p>>
    BY <1>5 DEF Read
  <2> QED
    BY <1>1, <1>5, <2>1
<1>6. CASE n # 0 /\ backend = "memory"
  BY <1>1, <1>2, <1>6 DEF Read
<1>7. CASE n # 0 /\ backend # "memory"
  <2> DEFINE part == {m \in 0 .. n - 1 : m = 0 \/ p + m <= Size}
  <2>1. \/ r \in IF p + n <= Size THEN {<<"OK", p + n>>}
                 ELSE {<<"TRUNCATED", IF p > Size THEN p ELSE Size>>}
        \/ r \in {<<"IO", p + m>> : m \in part}
    BY <1>7 DEF Read
  <2>2. CASE r \in {<<"IO", p + m>> : m \in part}
    <3>1. PICK m \in part : r = <<"IO", p + m>>
      BY <2>2
    <3>2. m \in Nat
      BY <3>1
    <3> QED
      BY <1>4, <1>7, <3>1, <3>2
  <2> QED
    BY <1>1, <1>3, <1>7, <2>1, <2>2
<1> QED
  BY <1>5, <1>6, <1>7

\* sf_istream_seek, every outcome: the position asked for, or where it was.
LEMMA SeekOutcome ==
    ASSUME NEW p \in Nat, NEW q \in Int, NEW r \in Seek(p, q)
    PROVE  /\ r[2] \in Nat
           /\ r[1] = "OK" => r[2] = q
           /\ r[1] # "OK" => r[2] = p
           /\ backend = "memory" /\ p <= Size => r[2] <= Size
           /\ backend = "memory" /\ 0 <= q /\ q <= Size => r = <<"OK", q>>
BY SizeAssumption DEF Seek

\* How a loop of requests ends: all of them and every test passed, a request
\* that failed, or the first element that did not pass.
LoopEnds(p, n, w, good, bad, r) ==
    \/ r = <<"OK", p + n * w>> /\ \A j \in 0 .. n - 1 : p + j * w \in good
    \/ r[1] \in Failures
    \/ \E i \in 0 .. n - 1 : /\ r = <<bad, p + (i + 1) * w>>
                             /\ p + (i + 1) * w <= Size
                             /\ p + i * w \notin good
                             /\ \A j \in 0 .. i - 1 : p + j * w \in good

\* A loop of requests, every outcome.
LEMMA LoopOutcome ==
    ASSUME NEW p \in Nat, NEW n \in Nat, NEW w \in Nat \ {0}, NEW good, NEW bad,
           NEW r \in Loop(p, n, w, good, bad)
    PROVE  Lands(p, r) /\ LoopEnds(p, n, w, good, bad, r)
<1> DEFINE reach(i) == (i > 0 => p + i * w <= Size) /\ \A j \in 0 .. i - 1 : p + j * w \in good
           here == {i \in 0 .. n - 1 : reach(i)}
           stop(i) == IF p + (i + 1) * w <= Size /\ p + i * w \notin good
                      THEN {<<bad, p + (i + 1) * w>>} ELSE {}
<1>1. \/ r \in IF reach(n) THEN {<<"OK", p + n * w>>} ELSE {}
      \/ \E i \in here : r \in {s \in Read(p + i * w, w) : s[1] # "OK"} \/ r \in stop(i)
  BY DEF Loop
<1>2. \A i \in Nat : i * w \in Nat
  OBVIOUS
<1>3. CASE r \in IF reach(n) THEN {<<"OK", p + n * w>>} ELSE {}
  <2>1. r = <<"OK", p + n * w>> /\ reach(n)
    BY <1>3
  <2>2. n = 0 => n * w = 0
    OBVIOUS
  <2>3. Lands(p, r)
    BY <1>2, <2>1, <2>2, SizeAssumption DEF Lands
  <2> QED
    BY <2>1, <2>3 DEF LoopEnds
<1>4. CASE \E i \in here : r \in {s \in Read(p + i * w, w) : s[1] # "OK"} \/ r \in stop(i)
  <2>1. PICK i \in here : r \in {s \in Read(p + i * w, w) : s[1] # "OK"} \/ r \in stop(i)
    BY <1>4
  <2>2. i \in Nat /\ i \in 0 .. n - 1 /\ reach(i) /\ i * w \in Nat /\ (i = 0 => i * w = 0)
    BY <1>2, <2>1
  <2>3. CASE r \in {s \in Read(p + i * w, w) : s[1] # "OK"}
    <3>1. Lands(p + i * w, r) /\ r[1] \in {"OK"} \cup Failures /\ r[1] # "OK"
      BY <2>2, <2>3, ReadOutcome
    <3>2. backend = "memory" /\ p <= Size => p + i * w <= Size
      BY <2>2
    <3>3. Lands(p, r)
      BY <2>2, <3>1, <3>2 DEF Lands
    <3> QED
      BY <3>1, <3>3 DEF LoopEnds
  <2>4. CASE r \in stop(i)
    <3>1. r = <<bad, p + (i + 1) * w>> /\ p + (i + 1) * w <= Size /\ p + i * w \notin good
      BY <2>4
    <3>2. (i + 1) * w \in Nat
      BY <1>2, <2>2
    <3>3. Lands(p, r)
      BY <3>1, <3>2 DEF Lands
    <3> QED
      BY <2>2, <3>1, <3>3 DEF LoopEnds
  <2> QED
    BY <2>1, <2>3, <2>4
<1> QED
  BY <1>1, <1>3, <1>4

\* A terminated string, every outcome: one that succeeds ends just past the
\* first zero unit.
LEMMA TerminatedOutcome ==
    ASSUME NEW p \in Nat, NEW w \in Nat \ {0}, NEW r \in Terminated(p, w)
    PROVE  /\ Lands(p, r)
           /\ r[1] = "OK" => \E i \in Units(p, w) : /\ r[2] = p + i + w
                                                    /\ \A j \in Units(p, w) : i <= j
<1>1. \/ r = <<"OOM", p>>
      \/ r \in {<<"OOM", p + i + w>> : i \in Doublings(p, w)}
      \/ r \in UNION {{s \in Read(p + i, w) : s[1] # "OK"} : i \in Requests(p, w)}
      \/ /\ Units(p, w) # {}
         /\ r \in {<<s, p + FirstZero(p, w) + w>> : s \in {"OK", "OOM", "ENCODING"}}
  BY DEF Terminated
<1>2. CASE r = <<"OOM", p>>
  BY <1>2 DEF Lands
<1>3. CASE r \in {<<"OOM", p + i + w>> : i \in Doublings(p, w)}
  <2>1. PICK i \in Doublings(p, w) : r = <<"OOM", p + i + w>>
    BY <1>3
  <2>2. i \in Nat /\ p + i + w <= Size
    BY <2>1, SizeAssumption DEF Doublings
  <2> QED
    BY <2>1, <2>2 DEF Lands
<1>4. CASE r \in UNION {{s \in Read(p + i, w) : s[1] # "OK"} : i \in Requests(p, w)}
  <2>1. PICK i \in Requests(p, w) : r \in {s \in Read(p + i, w) : s[1] # "OK"}
    BY <1>4
  <2>2. i \in Nat /\ (i = 0 \/ p + i <= Size)
    BY <2>1, SizeAssumption DEF Requests
  <2>3. p + i \in Nat /\ r \in Read(p + i, w) /\ r[1] # "OK"
    BY <2>1, <2>2
  <2>4. Lands(p + i, r)
    BY <2>3, ReadOutcome
  <2> QED
    BY <2>2, <2>3, <2>4, SizeAssumption DEF Lands
<1>5. CASE /\ Units(p, w) # {}
           /\ r \in {<<s, p + FirstZero(p, w) + w>> : s \in {"OK", "OOM", "ENCODING"}}
  <2> DEFINE term == FirstZero(p, w)
  <2>1. Units(p, w) \in SUBSET Nat
    BY SizeAssumption DEF Units
  <2>2. term \in Units(p, w) /\ \A j \in Units(p, w) : term <= j
    <3>1. \E i \in Units(p, w) : \A j \in Units(p, w) : i <= j
      BY <1>5, <2>1, Least
    <3> QED
      BY <1>5, <3>1 DEF FirstZero
  <2>3. term \in Nat /\ p + term + w <= Size
    BY <2>1, <2>2 DEF Units
  <2>4. PICK s \in {"OK", "OOM", "ENCODING"} : r = <<s, p + term + w>>
    BY <1>5
  <2> HIDE DEF term
  <2>5. Lands(p, r)
    BY <2>3, <2>4 DEF Lands
  <2> QED
    BY <2>2, <2>4, <2>5
<1> QED
  BY <1>1, <1>2, <1>3, <1>4, <1>5

\* A string of a given length.
LEMMA FixedOutcome ==
    ASSUME NEW p \in Nat, NEW n \in Nat, NEW r \in Fixed(p, n)
    PROVE  Lands(p, r)
<1>1. CASE n = 0
  <2>1. r[2] = p
    BY <1>1 DEF Fixed
  <2> QED
    BY <2>1 DEF Lands
<1>2. CASE n # 0
  <2>1. \/ r = <<"OOM", p>>
        \/ r \in Read(p, n)
        \/ \E s \in {"OK", "OOM", "ENCODING"}, q \in {q \in Read(p, n) : q[1] = "OK"} : r = <<s, q[2]>>
    BY <1>2 DEF Fixed
  <2>2. CASE r = <<"OOM", p>>
    BY <2>2 DEF Lands
  <2>3. CASE r \in Read(p, n)
    BY <2>3, ReadOutcome
  <2>4. CASE \E s \in {"OK", "OOM", "ENCODING"}, q \in {q \in Read(p, n) : q[1] = "OK"} : r = <<s, q[2]>>
    <3>1. PICK s \in {"OK", "OOM", "ENCODING"}, q \in Read(p, n) : r = <<s, q[2]>>
      BY <2>4
    <3>2. Lands(p, q) /\ r[2] = q[2]
      BY <3>1, ReadOutcome
    <3> QED
      BY <3>2 DEF Lands
  <2> QED
    BY <2>1, <2>2, <2>3, <2>4
<1> QED
  BY <1>1, <1>2

\* A test after a read changes what is reported, not where the stream is.
LEMMA TestedOutcome ==
    ASSUME NEW p, NEW reads, NEW ok \in BOOLEAN, \A s \in reads : Lands(p, s),
           NEW r \in Tested(reads, ok)
    PROVE  Lands(p, r)
<1>1. PICK s \in reads : r = IF s[1] = "OK" /\ ~ok THEN <<"BAD_MAGIC", s[2]>> ELSE s
  BY DEF Tested
<1>2. r[2] = s[2]
  BY <1>1
<1> QED
  BY <1>2 DEF Lands

DataOK == data \in [0 .. Size - 1 -> Byte]

\* read_bools: every byte passed, or the last one read is the first that did not.
LEMMA BoolsOutcome ==
    ASSUME DataOK, NEW p \in Nat, NEW n \in Nat, NEW r \in Bools(p, n)
    PROVE  /\ Lands(p, r)
           /\ r[1] = "OK" => r[2] = p + n /\ \A o \in p .. r[2] - 1 : ~(data[o] > 1)
           /\ r[1] = "BAD_MAGIC" => \E o \in p .. r[2] - 1 :
                                       /\ data[o] > 1 /\ r[2] - o <= 1
                                       /\ \A m \in p .. r[2] - 2 : ~(data[m] > 1)
<1> DEFINE good == {o \in DOMAIN data : data[o] <= 1}
           one == 1
<1>0. one = 1
  OBVIOUS
<1>1. r \in Loop(p, n, one, good, "BAD_MAGIC") /\ one \in Nat \ {0}
  BY DEF Bools
<1>2. \A o \in good : ~(data[o] > 1)
  BY SizeAssumption DEF DataOK, Byte
<1>3. \A o \in Nat : o < Size /\ o \notin good => data[o] > 1
  BY SizeAssumption DEF DataOK, Byte
<1> HIDE DEF good, one
<1>4. Lands(p, r) /\ LoopEnds(p, n, one, good, "BAD_MAGIC", r)
  BY <1>1, LoopOutcome
<1>5. CASE r = <<"OK", p + n * one>> /\ \A j \in 0 .. n - 1 : p + j * one \in good
  <2>1. r[2] = p + n
    BY <1>0, <1>5
  <2>2. ASSUME NEW o \in p .. p + n - 1 PROVE ~(data[o] > 1)
    <3>1. o - p \in 0 .. n - 1 /\ p + (o - p) * one = o
      BY <1>0
    <3>2. o \in good
      BY <1>5, <3>1
    <3> QED
      BY <1>2, <3>2
  <2> QED
    BY <1>4, <1>5, <2>1, <2>2
<1>6. CASE r[1] \in Failures
  BY <1>4, <1>6 DEF Failures
<1>7. CASE \E i \in 0 .. n - 1 : /\ r = <<"BAD_MAGIC", p + (i + 1) * one>>
                                /\ p + (i + 1) * one <= Size
                                /\ p + i * one \notin good
                                /\ \A j \in 0 .. i - 1 : p + j * one \in good
  <2>1. PICK i \in 0 .. n - 1 : /\ r = <<"BAD_MAGIC", p + (i + 1) * one>>
                               /\ p + (i + 1) * one <= Size
                               /\ p + i * one \notin good
                               /\ \A j \in 0 .. i - 1 : p + j * one \in good
    BY <1>7
  <2>2. r[2] = p + i + 1 /\ p + i + 1 <= Size /\ p + i \notin good
    BY <1>0, <2>1
  <2>3. p + i \in p .. r[2] - 1 /\ data[p + i] > 1 /\ r[2] - (p + i) <= 1
    <3>1. p + i \in Nat /\ p + i < Size /\ p + i \in p .. r[2] - 1 /\ r[2] - (p + i) <= 1
      BY <2>2, SizeAssumption
    <3> QED
      BY <1>3, <2>2, <3>1
  <2>4. ASSUME NEW m \in p .. r[2] - 2 PROVE ~(data[m] > 1)
    <3>1. m - p \in 0 .. i - 1 /\ p + (m - p) * one = m
      BY <1>0, <2>2
    <3>2. m \in good
      BY <2>1, <3>1
    <3> QED
      BY <1>2, <3>2
  <2> QED
    BY <1>4, <2>1, <2>3, <2>4
<1> QED
  BY <1>4, <1>5, <1>6, <1>7 DEF LoopEnds

\* The offsets where w zero bytes start, as assert_pattern compares them.
ZerosAt(w) == {o \in DOMAIN data : o + w <= Size /\ \A b \in 0 .. w - 1 : data[o + b] = 0}

\* Division with remainder.
LEMMA DivMod ==
    ASSUME NEW a \in Nat, NEW b \in Nat \ {0}
    PROVE  a \div b \in Nat /\ a % b \in 0 .. b - 1 /\ a = (a \div b) * b + (a % b)
OBVIOUS

\* Chunk after chunk of zeros is a stretch of zeros.
LEMMA ChunksCover ==
    ASSUME NEW p \in Nat, NEW k \in Nat, NEW w \in Nat \ {0},
           \A j \in 0 .. k - 1 : p + j * w \in ZerosAt(w),
           NEW o \in p .. p + k * w - 1
    PROVE  data[o] = 0
<1> DEFINE d == o - p
           j == d \div w
           b == d % w
<1>1. k * w \in Nat
  OBVIOUS
<1>2. d \in Nat /\ d < k * w
  BY <1>1
<1>3. j \in Nat /\ b \in 0 .. w - 1 /\ d = j * w + b
  BY <1>2, DivMod
<1>4. o = (p + j * w) + b
  BY <1>3
<1> HIDE DEF d, j, b
<1>5. j < k
  <2> SUFFICES ASSUME j >= k PROVE FALSE
    BY <1>3
  <2>1. PICK e \in Nat : j = k + e
    <3>1. j - k \in Nat /\ j = k + (j - k)
      BY <1>3
    <3> QED
      BY <3>1
  <2>2. j * w = k * w + e * w /\ e * w \in Nat /\ k * w \in Nat
    BY <2>1
  <2> QED
    BY <1>2, <1>3, <2>2
<1>6. p + j * w \in ZerosAt(w)
  BY <1>3, <1>5
<1> QED
  BY <1>3, <1>4, <1>6 DEF ZerosAt

\* A chunk inside the input that is not all zeros has a byte that is not.
LEMMA BadChunk ==
    ASSUME DataOK, NEW q \in Nat, NEW w \in Nat \ {0}, q + w <= Size, q \notin ZerosAt(w)
    PROVE  \E o \in q .. q + w - 1 : data[o] # 0
<1>1. q \in DOMAIN data
  BY SizeAssumption DEF DataOK
<1>2. PICK b \in 0 .. w - 1 : data[q + b] # 0
  BY <1>1 DEF ZerosAt
<1> QED
  BY <1>2

\* assert_pattern: whole chunks, then what is left.
LEMMA PatternOutcome ==
    ASSUME DataOK, NEW p \in Nat, NEW n \in Nat, NEW r \in Pattern(p, n)
    PROVE  /\ Lands(p, r)
           /\ r[1] = "OK" => r[2] = p + n /\ \A o \in p .. r[2] - 1 : data[o] = 0
           /\ r[1] = "BAD_MAGIC" => \E o \in p .. r[2] - 1 :
                                       /\ data[o] # 0 /\ r[2] - o <= Chunk
                                       /\ \A m \in p .. r[2] - Chunk - 1 : data[m] = 0
<1> DEFINE k == n \div Chunk
           w == n % Chunk
           whole == Loop(p, k, Chunk, ZerosAt(Chunk), "BAD_MAGIC")
<1>1. PICK s \in whole :
          r \in IF s[1] = "OK" /\ w > 0
               THEN Loop(s[2], 1, w, ZerosAt(w), "BAD_MAGIC") ELSE {s}
  BY DEF Pattern, ZerosAt
<1>2. Chunk \in Nat \ {0} /\ k \in Nat /\ w \in 0 .. Chunk - 1 /\ n = k * Chunk + w
  BY CallAssumption, DivMod
<1>3. k * Chunk \in Nat /\ w \in Nat
  BY <1>2
<1>4. Lands(p, s) /\ LoopEnds(p, k, Chunk, ZerosAt(Chunk), "BAD_MAGIC", s)
  BY <1>1, <1>2, LoopOutcome
<1>5. s[1] = "OK" => /\ s[2] = p + k * Chunk
                     /\ \A o \in p .. p + k * Chunk - 1 : data[o] = 0
  <2> SUFFICES ASSUME s[1] = "OK"
               PROVE  /\ s[2] = p + k * Chunk
                      /\ \A o \in p .. p + k * Chunk - 1 : data[o] = 0
    OBVIOUS
  <2> HIDE DEF k, w
  <2>1. s = <<"OK", p + k * Chunk>> /\ \A j \in 0 .. k - 1 : p + j * Chunk \in ZerosAt(Chunk)
    BY <1>4 DEF LoopEnds, Failures
  <2> QED
    BY <1>2, <2>1, ChunksCover
<1>6. CASE s[1] = "OK" /\ w > 0
  <2> DEFINE q == s[2]
             one == 1
  <2>1. q = p + k * Chunk /\ q \in Nat /\ \A o \in p .. q - 1 : data[o] = 0
    BY <1>3, <1>5, <1>6
  <2>2. one = 1 /\ one \in Nat /\ r \in Loop(q, one, w, ZerosAt(w), "BAD_MAGIC") /\ w \in Nat \ {0}
    BY <1>1, <1>3, <1>6
  <2> HIDE DEF q, one, k, w
  <2>3. Lands(q, r) /\ LoopEnds(q, one, w, ZerosAt(w), "BAD_MAGIC", r)
    BY <2>1, <2>2, LoopOutcome
  <2>4. Lands(p, r)
    BY <1>3, <1>4, <2>1, <2>3 DEF Lands, q
  <2>5. CASE r = <<"OK", q + one * w>> /\ \A j \in 0 .. one - 1 : q + j * w \in ZerosAt(w)
    <3>1. r[1] = "OK" /\ r[2] = q + w /\ r[2] = p + n
      BY <1>2, <2>1, <2>2, <2>5
    <3>2. ASSUME NEW o \in p .. r[2] - 1 PROVE data[o] = 0
      <4>1. CASE o < q
        BY <2>1, <4>1
      <4>2. CASE o >= q
        <5>1. one * w = w
          BY <2>2
        <5>2. o \in q .. q + one * w - 1
          BY <2>1, <2>2, <3>1, <4>2, <5>1
        <5>3. \A j \in 0 .. one - 1 : q + j * w \in ZerosAt(w)
          BY <2>5
        <5>4. q \in Nat /\ one \in Nat /\ w \in Nat \ {0}
          BY <2>1, <2>2
        <5> QED
          BY <5>2, <5>3, <5>4, ChunksCover
      <4> QED
        BY <2>1, <4>1, <4>2
    <3> QED
      BY <2>4, <3>1, <3>2
  <2>6. CASE r[1] \in Failures
    BY <2>4, <2>6 DEF Failures
  <2>7. CASE \E i \in 0 .. one - 1 : /\ r = <<"BAD_MAGIC", q + (i + 1) * w>>
                                     /\ q + (i + 1) * w <= Size
                                     /\ q + i * w \notin ZerosAt(w)
    <3>1. r = <<"BAD_MAGIC", q + w>> /\ q + w <= Size /\ q \notin ZerosAt(w)
      <4>1. PICK i \in 0 .. one - 1 : /\ r = <<"BAD_MAGIC", q + (i + 1) * w>>
                                      /\ q + (i + 1) * w <= Size
                                      /\ q + i * w \notin ZerosAt(w)
        BY <2>7
      <4>2. i = 0 /\ (i + 1) * w = w /\ i * w = 0
        BY <2>2
      <4> QED
        BY <2>1, <4>1, <4>2
    <3>2. PICK o \in q .. q + w - 1 : data[o] # 0
      BY <2>1, <2>2, <3>1, BadChunk
    <3>3. o \in p .. r[2] - 1 /\ r[2] - o <= Chunk
      BY <1>2, <1>3, <2>1, <2>2, <3>1
    <3>4. \A m \in p .. r[2] - Chunk - 1 : data[m] = 0
      BY <1>2, <2>1, <2>2, <3>1
    <3> QED
      BY <2>4, <3>1, <3>2, <3>3, <3>4
  <2> QED
    BY <2>3, <2>5, <2>6, <2>7 DEF LoopEnds
<1>7. CASE ~(s[1] = "OK" /\ w > 0)
  <2>1. r = s
    BY <1>1, <1>7
  <2>2. CASE s[1] = "OK"
    <3>1. w = 0
      BY <1>3, <1>7, <2>2
    <3> QED
      BY <1>2, <1>3, <1>4, <1>5, <2>1, <2>2, <3>1
  <2>3. CASE s[1] \in Failures
    BY <1>4, <2>1, <2>3 DEF Failures
  <2>4. CASE \E i \in 0 .. k - 1 : /\ s = <<"BAD_MAGIC", p + (i + 1) * Chunk>>
                                   /\ p + (i + 1) * Chunk <= Size
                                   /\ p + i * Chunk \notin ZerosAt(Chunk)
                                   /\ \A j \in 0 .. i - 1 : p + j * Chunk \in ZerosAt(Chunk)
    <3> HIDE DEF k, w
    <3>1. PICK i \in 0 .. k - 1 : /\ s = <<"BAD_MAGIC", p + (i + 1) * Chunk>>
                                 /\ p + (i + 1) * Chunk <= Size
                                 /\ p + i * Chunk \notin ZerosAt(Chunk)
                                 /\ \A j \in 0 .. i - 1 : p + j * Chunk \in ZerosAt(Chunk)
      BY <2>4
    <3> DEFINE q == p + i * Chunk
    <3>2. i \in Nat /\ i * Chunk \in Nat /\ (i + 1) * Chunk = i * Chunk + Chunk
      BY <1>2, <3>1
    <3>3. q \in Nat /\ s[2] = q + Chunk /\ q + Chunk <= Size /\ q \notin ZerosAt(Chunk)
      BY <1>2, <3>1, <3>2
    <3>4. ASSUME NEW m \in p .. p + i * Chunk - 1 PROVE data[m] = 0
      <4>1. \A j \in 0 .. i - 1 : p + j * Chunk \in ZerosAt(Chunk)
        BY <3>1
      <4> QED
        BY <1>2, <3>2, <4>1, ChunksCover
    <3>5. q >= p /\ \A m \in p .. q - 1 : data[m] = 0
      BY <3>2, <3>4
    <3> HIDE DEF q
    <3>6. PICK o \in q .. q + Chunk - 1 : data[o] # 0
      BY <1>2, <3>3, BadChunk
    <3>7. o \in p .. s[2] - 1 /\ s[2] - o <= Chunk /\ s[2] - Chunk - 1 = q - 1
      BY <1>2, <3>3, <3>5
    <3>8. s[1] = "BAD_MAGIC"
      BY <3>1
    <3>9. \A m \in p .. s[2] - Chunk - 1 : data[m] = 0
      BY <3>5, <3>7
    <3> QED
      BY <1>4, <2>1, <3>6, <3>7, <3>8, <3>9
  <2> HIDE DEF k, w
  <2>5. s[1] = "OK" \/ s[1] \in Failures
           \/ \E i \in 0 .. k - 1 : /\ s = <<"BAD_MAGIC", p + (i + 1) * Chunk>>
                                    /\ p + (i + 1) * Chunk <= Size
                                    /\ p + i * Chunk \notin ZerosAt(Chunk)
                                    /\ \A j \in 0 .. i - 1 : p + j * Chunk \in ZerosAt(Chunk)
    BY <1>4 DEF LoopEnds
  <2> QED
    BY <2>2, <2>3, <2>4, <2>5
<1> QED
  BY <1>6, <1>7

\* What a call carries, by its name.
LEMMA CallFields ==
    ASSUME NEW op \in Ops
    PROVE  /\ op[1] \in {"bytes", "bools", "varints", "floats", "pattern", "str_n"} => op[2] \in Nat
           /\ op[1] \in {"assert", "assert_bool", "enum", "ascii"} =>
                 op[2] \in Nat /\ op[3] \in BOOLEAN
           /\ op[1] \in {"bytes", "bools", "varints", "floats", "pattern", "str_n",
                          "assert", "assert_bool", "enum", "ascii", "colour", "str", "wstr"}
<1>1. op \in Calls
  BY OpsAssumption
<1>2. CASE op \in {"bytes", "bools", "varints", "floats", "pattern", "str_n"} \X Nat
  BY <1>2
<1>3. CASE op \in {"assert", "assert_bool", "enum", "ascii"} \X Nat \X BOOLEAN
  BY <1>3
<1>4. CASE op \in {<<"colour">>, <<"str">>, <<"wstr">>}
  BY <1>4
<1> QED
  BY <1>1, <1>2, <1>3, <1>4 DEF Calls

\* Whatever a read call ends with, it is never before where it started, nor
\* past the end of a memory stream.
LEMMA OutcomesLand ==
    ASSUME TypeOK, NEW op \in Ops, NEW p \in Nat, NEW r \in Outcomes(op, p)
    PROVE  Lands(p, r)
<1>1. DataOK /\ is_flexible \in BOOLEAN /\ varint_long \in BOOLEAN
  BY DEF TypeOK, DataOK
<1>2. ASSUME NEW n \in Nat, NEW w \in Nat \ {0}, NEW good, NEW bad, NEW s \in Loop(p, n, w, good, bad)
      PROVE  Lands(p, s)
  BY <1>2, LoopOutcome
<1>3. ASSUME NEW n \in Nat PROVE \A s \in Read(p, n) : Lands(p, s)
  BY ReadOutcome
<1>4. CASE op[1] \in {"bytes", "str_n", "pattern", "bools"}
  <2>1. op[2] \in Nat
    BY <1>4, CallFields
  <2>2. CASE op[1] = "bytes"
    BY <1>3, <2>1, <2>2 DEF Outcomes
  <2>3. CASE op[1] = "str_n"
    BY <2>1, <2>3, FixedOutcome DEF Outcomes
  <2>4. CASE op[1] = "pattern"
    BY <1>1, <2>1, <2>4, PatternOutcome DEF Outcomes
  <2>5. CASE op[1] = "bools"
    BY <1>1, <2>1, <2>5, BoolsOutcome DEF Outcomes
  <2> QED
    BY <1>4, <2>2, <2>3, <2>4, <2>5
<1>5. CASE op[1] \in {"varints", "floats", "colour"}
  <2>1. VarintWidth \in Nat \ {0} /\ 4 \in Nat \ {0} /\ 1 \in Nat \ {0} /\ 4 \in Nat
    BY DEF VarintWidth
  <2>2. CASE op[1] = "varints"
    <3>1. op[2] \in Nat /\ r \in Loop(p, op[2], VarintWidth, AnyByte, "OK")
      BY <2>2, CallFields DEF Outcomes
    <3> QED
      BY <1>2, <2>1, <3>1
  <2>3. CASE op[1] = "floats"
    <3>1. op[2] \in Nat /\ r \in Loop(p, op[2], 4, AnyByte, "OK")
      BY <2>3, CallFields DEF Outcomes
    <3> QED
      BY <1>2, <2>1, <3>1
  <2>4. CASE op[1] = "colour"
    <3>1. r \in Loop(p, 4, 1, AnyByte, "OK")
      BY <2>4 DEF Outcomes
    <3> QED
      BY <1>2, <2>1, <3>1
  <2> QED
    BY <1>5, <2>2, <2>3, <2>4
<1>6. CASE op[1] \in {"assert", "assert_bool", "enum", "ascii"}
  <2>1. op[2] \in Nat /\ op[3] \in BOOLEAN
    BY <1>6, CallFields
  <2>2. (op[3] \/ is_flexible) \in BOOLEAN
    BY <1>1, <2>1
  <2>3. \A s \in Read(p, op[2]) : Lands(p, s)
    BY <1>3, <2>1
  <2>4. CASE op[1] = "assert"
    <3>1. r \in Tested(Read(p, op[2]), op[3] \/ is_flexible)
      BY <2>4 DEF Outcomes
    <3> QED
      BY <2>2, <2>3, <3>1, TestedOutcome
  <2>5. CASE op[1] = "assert_bool"
    <3>1. r \in Tested(Bools(p, 1), op[3] \/ is_flexible)
      BY <2>5 DEF Outcomes
    <3>2. \A s \in Bools(p, 1) : Lands(p, s)
      BY <1>1, BoolsOutcome
    <3> QED
      BY <2>2, <3>1, <3>2, TestedOutcome
  <2>6. CASE op[1] = "enum"
    <3>1. r \in Tested(Read(p, op[2]), op[3])
      BY <2>6 DEF Outcomes
    <3> QED
      BY <2>1, <2>3, <3>1, TestedOutcome
  <2>7. CASE op[1] = "ascii"
    <3>1. r \in Tested(Read(p, op[2]), op[3]) \/ r = <<"OOM", p>>
      BY <2>7 DEF Outcomes
    <3>2. r = <<"OOM", p>> => Lands(p, r)
      BY DEF Lands
    <3> QED
      BY <2>1, <2>3, <3>1, <3>2, TestedOutcome
  <2> QED
    BY <1>6, <2>4, <2>5, <2>6, <2>7
<1>7. CASE op[1] \in {"str", "wstr"}
  <2>1. 1 \in Nat \ {0} /\ 2 \in Nat \ {0}
    OBVIOUS
  <2>2. CASE op[1] = "str"
    <3>1. r \in Terminated(p, 1)
      BY <2>2 DEF Outcomes
    <3> QED
      BY <2>1, <3>1, TerminatedOutcome
  <2>3. CASE op[1] = "wstr"
    <3>1. r \in Terminated(p, 2)
      BY <2>3 DEF Outcomes
    <3> QED
      BY <2>1, <3>1, TerminatedOutcome
  <2> QED
    BY <1>7, <2>2, <2>3
<1> QED
  BY <1>4, <1>5, <1>6, <1>7, CallFields
-----------------------------------------------------------------------------
\* The inductive invariant: the three invariants need one another, since a
\* position is only in bounds when every position stepped out to was.
IndInv == TypeOK /\ InBounds /\ StepsAreNesting

\* A new reader satisfies the invariant.
LEMMA InitHolds == Init => IndInv
<1> SUFFICES ASSUME Init PROVE IndInv
  OBVIOUS
<1>1. steps = <<>> /\ nest = <<>> /\ Len(steps) = 0 /\ steps \in Seq(Nat) /\ pos = 0
  BY DEF Init
<1>2. TypeOK
  <2>1. pos \in Nat /\ Len(steps) <= MaxSteps
    BY <1>1, CallAssumption
  <2> QED
    BY <1>1, <2>1 DEF Init, TypeOK
<1>3. InBounds
  BY <1>1, SizeAssumption DEF InBounds
<1> QED
  BY <1>1, <1>2, <1>3 DEF IndInv, StepsAreNesting

\* A step that leaves the step stack alone.
LEMMA PositionStep ==
    ASSUME IndInv, pos' \in Nat, backend = "memory" => pos' <= Size,
           UNCHANGED <<data, backend, steps, nest, leaked>>,
           is_flexible' \in BOOLEAN, varint_long' \in BOOLEAN
    PROVE  IndInv'
<1>1. TypeOK'
  BY DEF IndInv, TypeOK
<1>2. InBounds'
  BY DEF IndInv, InBounds
<1>3. StepsAreNesting'
  BY DEF IndInv, StepsAreNesting
<1> QED
  BY <1>1, <1>2, <1>3 DEF IndInv

\* What the invariant says of the position.
LEMMA PositionOK ==
    ASSUME IndInv
    PROVE  /\ pos \in Nat /\ (backend = "memory" => pos <= Size)
           /\ is_flexible \in BOOLEAN /\ varint_long \in BOOLEAN /\ TypeOK
BY DEF IndInv, TypeOK, InBounds

\* Pushing the position on the step stack.
LEMMA Pushed ==
    ASSUME NEW s \in Seq(Nat), NEW p \in Nat
    PROVE  /\ Append(s, p) \in Seq(Nat) /\ Len(Append(s, p)) = Len(s) + 1
           /\ \A i \in 1 .. Len(s) : Append(s, p)[i] = s[i]
           /\ Append(s, p)[Len(s) + 1] = p
OBVIOUS

\* Popping the step stack.
LEMMA Popped ==
    ASSUME NEW s \in Seq(Nat), s # <<>>
    PROVE  /\ Front(s) \in Seq(Nat) /\ Len(Front(s)) = Len(s) - 1
           /\ \A i \in 1 .. Len(s) - 1 : Front(s)[i] = s[i]
           /\ Len(s) \in Nat \ {0} /\ s[Len(s)] \in Nat
<1> DEFINE n == Len(s) - 1
<1>1. n \in Nat /\ Len(s) = n + 1 /\ s[n + 1] \in Nat
  OBVIOUS
<1> HIDE DEF n
<1>2. Len(SubSeq(s, 1, n)) = n
  BY <1>1
<1>3. SubSeq(s, 1, n) \in Seq(Nat)
  BY <1>1
<1>4. \A i \in 1 .. n : SubSeq(s, 1, n)[i] = s[i]
  BY <1>1
<1> QED
  BY <1>1, <1>2, <1>3, <1>4 DEF n, Front

\* A read call.
LEMMA ReadCallKeeps ==
    ASSUME IndInv, NEW op \in Ops, ReadCall(op)
    PROVE  IndInv'
<1>1. PICK r \in Outcomes(op, pos) : pos' = r[2]
  BY DEF ReadCall
<1>2. UNCHANGED <<data, backend, steps, is_flexible, varint_long, nest, leaked>>
  BY DEF ReadCall
<1>3. Lands(pos, r)
  BY <1>1, PositionOK, OutcomesLand
<1>4. pos' \in Nat /\ (backend = "memory" => pos' <= Size)
  BY <1>1, <1>3, PositionOK DEF Lands
<1> QED
  BY <1>2, <1>4, PositionOK, PositionStep

\* A push that fails.
LEMMA PushFailsKeeps ==
    ASSUME IndInv, NEW name, NEW arg, PushFails(name, arg)
    PROVE  IndInv'
<1>1. UNCHANGED <<data, backend, pos, steps, is_flexible, varint_long, nest, leaked>>
  BY DEF PushFails
<1> QED
  BY <1>1, PositionOK, PositionStep

\* A step pushed on a stack of positions in bounds.
LEMMA PushKeeps ==
    ASSUME IndInv, Len(steps) < MaxSteps, steps' = Append(steps, pos),
           UNCHANGED <<data, backend>>, pos' \in Nat, backend = "memory" => pos' <= Size,
           is_flexible' \in BOOLEAN, varint_long' \in BOOLEAN, leaked' \in BOOLEAN,
           nest' \in Seq(Nat), ~leaked' => steps' = nest'
    PROVE  IndInv'
<1>1. steps \in Seq(Nat) /\ pos \in Nat /\ MaxSteps \in Nat /\ Len(steps) \in Nat
  BY CallAssumption DEF IndInv, TypeOK
<1>2. /\ steps' \in Seq(Nat) /\ Len(steps') = Len(steps) + 1
      /\ \A i \in 1 .. Len(steps) : steps'[i] = steps[i]
      /\ steps'[Len(steps) + 1] = pos
  BY <1>1, Pushed
<1>3. TypeOK'
  BY <1>1, <1>2 DEF IndInv, TypeOK
<1>4. InBounds'
  <2> SUFFICES ASSUME backend = "memory", NEW i \in 1 .. Len(steps') PROVE steps'[i] <= Size
    BY DEF InBounds
  <2>1. CASE i = Len(steps) + 1
    BY <1>2, <2>1, PositionOK
  <2>2. CASE i # Len(steps) + 1
    <3>1. i \in 1 .. Len(steps)
      BY <1>1, <1>2, <2>2
    <3> QED
      BY <1>2, <3>1 DEF IndInv, InBounds
  <2> QED
    BY <2>1, <2>2
<1>5. StepsAreNesting'
  BY DEF StepsAreNesting
<1> QED
  BY <1>3, <1>4, <1>5 DEF IndInv

\* A seek that fails after the push: the step stays, and leaked says so.
LEMMA SeekFailsKeeps ==
    ASSUME IndInv, NEW name, NEW arg, NEW q \in Int, SeekFails(name, arg, q)
    PROVE  IndInv'
<1>1. PICK r \in Seek(pos, q) : pos' = r[2]
  BY DEF SeekFails
<1>2. pos' \in Nat /\ (backend = "memory" => pos' <= Size)
  BY <1>1, PositionOK, SeekOutcome
<1>3. /\ Len(steps) < MaxSteps /\ steps' = Append(steps, pos) /\ leaked'
      /\ UNCHANGED <<data, backend, is_flexible, varint_long, nest>>
  BY DEF SeekFails
<1>4. nest' \in Seq(Nat) /\ leaked' \in BOOLEAN /\ (~leaked' => steps' = nest')
  BY <1>3 DEF IndInv, TypeOK, SeekFails
<1> QED
  BY <1>2, <1>3, <1>4, PositionOK, PushKeeps

\* A Get that reads: the position and the stack are what they were.
LEMMA GetReadsKeeps ==
    ASSUME IndInv, NEW op \in Ops, NEW q \in Int, GetReads(op, q)
    PROVE  /\ IndInv' /\ (backend = "memory" => pos' = pos)
           /\ last'[1] = "get" /\ (last'[3] = "OK" => pos' = pos)
<1>1. PICK s \in Seek(pos, q) : /\ s[1] = "OK"
                               /\ \E r \in Outcomes(op, q) : \E o \in Seek(r[2], pos) :
                                     /\ pos' = o[2]
                                     /\ last' = <<"get", op, IF r[1] # "OK" THEN r[1] ELSE o[1]>>
  BY DEF GetReads
<1>2. PICK r \in Outcomes(op, q) : \E o \in Seek(r[2], pos) :
          /\ pos' = o[2]
          /\ last' = <<"get", op, IF r[1] # "OK" THEN r[1] ELSE o[1]>>
  BY <1>1
<1>3. PICK o \in Seek(r[2], pos) :
          /\ pos' = o[2]
          /\ last' = <<"get", op, IF r[1] # "OK" THEN r[1] ELSE o[1]>>
  BY <1>2
<1>4. q \in Nat /\ (backend = "memory" => q <= Size)
  <2>1. s[2] \in Nat /\ s[2] = q /\ (backend = "memory" => s[2] <= Size)
    BY <1>1, PositionOK, SeekOutcome
  <2> QED
    BY <2>1
<1>5. r[2] \in Nat /\ (backend = "memory" => r[2] <= Size)
  <2>1. Lands(q, r)
    BY <1>2, <1>4, PositionOK, OutcomesLand
  <2> QED
    BY <1>4, <2>1 DEF Lands
<1>6. /\ o[2] \in Nat /\ (o[1] = "OK" => o[2] = pos)
      /\ backend = "memory" => o = <<"OK", pos>> /\ o[2] <= Size
  <2>1. pos \in Nat /\ pos \in Int /\ 0 <= pos /\ (backend = "memory" => pos <= Size)
    BY PositionOK
  <2> QED
    BY <1>5, <2>1, SeekOutcome
<1>7. UNCHANGED <<data, backend, steps, is_flexible, varint_long, nest, leaked>>
  BY DEF GetReads
<1>8. IndInv'
  BY <1>3, <1>6, <1>7, PositionOK, PositionStep
<1>9. last'[1] = "get" /\ (last'[3] = "OK" => o[1] = "OK")
  <2>1. CASE r[1] # "OK"
    BY <1>3, <2>1
  <2>2. CASE r[1] = "OK"
    BY <1>3, <2>2
  <2> QED
    BY <2>1, <2>2
<1> QED
  BY <1>3, <1>6, <1>8, <1>9

\* A step in that succeeds.
LEMMA StepInDoneKeeps ==
    ASSUME IndInv, NEW q \in Int, StepInDone(q)
    PROVE  IndInv'
<1>1. PICK r \in Seek(pos, q) : pos' = r[2]
  BY DEF StepInDone
<1>2. pos' \in Nat /\ (backend = "memory" => pos' <= Size)
  BY <1>1, PositionOK, SeekOutcome
<1>3. /\ Len(steps) < MaxSteps /\ steps' = Append(steps, pos) /\ nest' = Append(nest, pos)
      /\ UNCHANGED <<data, backend, is_flexible, varint_long, leaked>>
  BY DEF StepInDone
<1>4. nest' \in Seq(Nat)
  <2>1. nest \in Seq(Nat) /\ pos \in Nat
    BY DEF IndInv, TypeOK
  <2> QED
    BY <1>3, <2>1, Pushed
<1>5. leaked' \in BOOLEAN /\ (~leaked' => steps' = nest')
  BY <1>3 DEF IndInv, TypeOK, StepsAreNesting
<1> QED
  BY <1>2, <1>3, <1>4, <1>5, PositionOK, PushKeeps

\* A step out, of a stack that has a step or none.
LEMMA StepOutKeeps == ASSUME IndInv, StepOut PROVE IndInv'
<1>1. /\ steps \in Seq(Nat) /\ nest \in Seq(Nat) /\ pos \in Nat /\ leaked \in BOOLEAN
      /\ Len(steps) \in Nat /\ Len(steps) <= MaxSteps /\ MaxSteps \in Nat
  BY CallAssumption DEF IndInv, TypeOK
<1>2. /\ nest' = IF nest = <<>> THEN nest ELSE Front(nest)
      /\ UNCHANGED <<data, backend, is_flexible, varint_long, leaked>>
  BY DEF StepOut
<1>3. nest' \in Seq(Nat)
  <2>1. CASE nest = <<>>
    BY <1>1, <1>2, <2>1
  <2>2. CASE nest # <<>>
    BY <1>1, <1>2, <2>2, Popped
  <2> QED
    BY <2>1, <2>2
<1>4. ~leaked => steps' = nest'
  <2> SUFFICES ASSUME ~leaked PROVE steps' = nest'
    OBVIOUS
  <2>1. steps = nest
    BY DEF IndInv, StepsAreNesting
  <2> QED
    BY <1>2, <2>1 DEF StepOut
<1>5. CASE steps = <<>>
  <2>1. UNCHANGED <<pos, steps>>
    BY <1>5 DEF StepOut
  <2>2. TypeOK'
    BY <1>2, <1>3, <2>1 DEF IndInv, TypeOK
  <2>3. InBounds'
    BY <1>2, <2>1 DEF IndInv, InBounds
  <2> QED
    BY <1>2, <1>4, <2>2, <2>3 DEF IndInv, StepsAreNesting
<1>6. CASE steps # <<>>
  <2>1. /\ Front(steps) \in Seq(Nat) /\ Len(Front(steps)) = Len(steps) - 1
        /\ \A i \in 1 .. Len(steps) - 1 : Front(steps)[i] = steps[i]
        /\ Len(steps) \in Nat \ {0} /\ steps[Len(steps)] \in Nat
    BY <1>1, <1>6, Popped
  <2>2. steps' = Front(steps)
    BY <1>6 DEF StepOut
  <2>3. PICK r \in Seek(pos, steps[Len(steps)]) : pos' = r[2]
    BY <1>6 DEF StepOut
  <2>4. pos' \in Nat /\ (backend = "memory" => pos' <= Size)
    <3>1. steps[Len(steps)] \in Int
      BY <2>1
    <3> QED
      BY <2>3, <3>1, PositionOK, SeekOutcome
  <2>5. TypeOK'
    BY <1>1, <1>2, <1>3, <2>1, <2>2, <2>4 DEF IndInv, TypeOK
  <2>6. InBounds'
    BY <1>2, <2>1, <2>2, <2>4 DEF IndInv, InBounds
  <2> QED
    BY <1>2, <1>4, <2>5, <2>6 DEF IndInv, StepsAreNesting
<1> QED
  BY <1>5, <1>6

\* pad and skip: a seek from where the stream is.
LEMMA MoveKeeps ==
    ASSUME IndInv, NEW q \in Int, NEW r \in Seek(pos, q), pos' = r[2],
           UNCHANGED <<data, backend, steps, is_flexible, varint_long, nest, leaked>>
    PROVE  IndInv'
<1>1. pos' \in Nat /\ (backend = "memory" => pos' <= Size)
  BY PositionOK, SeekOutcome
<1> QED
  BY <1>1, PositionOK, PositionStep

\* Padding, whatever the start and the alignment.
LEMMA PadKeeps ==
    ASSUME IndInv, NEW s \in Offs, NEW a \in Aligns, PadFrom(s, a)
    PROVE  IndInv'
<1> DEFINE rem == (pos - s) % a
<1>1. UNCHANGED <<data, backend, steps, is_flexible, varint_long, nest, leaked>>
  BY DEF PadFrom
<1>2. rem \in Int /\ pos \in Nat /\ a \in Nat \ {0}
  <2>1. pos \in Nat /\ s \in Int /\ a \in Nat \ {0}
    BY PositionOK, CallAssumption
  <2> QED
    BY <2>1
<1>3. PICK r \in IF rem = 0 THEN {<<"OK", pos>>} ELSE Seek(pos, pos + (a - rem)) : pos' = r[2]
  BY DEF PadFrom
<1> HIDE DEF rem
<1>4. CASE rem = 0
  <2>1. pos' = pos
    BY <1>3, <1>4
  <2> QED
    BY <1>1, <2>1, PositionOK, PositionStep
<1>5. CASE rem # 0
  <2>1. r \in Seek(pos, pos + (a - rem)) /\ pos + (a - rem) \in Int
    BY <1>2, <1>3, <1>5
  <2> QED
    BY <1>1, <1>3, <2>1, MoveKeeps
<1> QED
  BY <1>4, <1>5

\* Skipping.
LEMMA SkipKeeps ==
    ASSUME IndInv, NEW n \in Offs, Skip(n)
    PROVE  IndInv'
<1>1. PICK r \in Seek(pos, pos + n) : pos' = r[2]
  BY DEF Skip
<1>2. UNCHANGED <<data, backend, steps, is_flexible, varint_long, nest, leaked>>
  BY DEF Skip
<1>3. pos + n \in Int
  BY PositionOK, CallAssumption
<1> QED
  BY <1>1, <1>2, <1>3, MoveKeeps

\* Changing the reader's modes.
LEMMA SetModeKeeps ==
    ASSUME IndInv, NEW f \in BOOLEAN, NEW l \in BOOLEAN, SetMode(f, l)
    PROVE  IndInv'
<1>1. UNCHANGED <<data, backend, pos, steps, nest, leaked>>
  BY DEF SetMode
<1>2. is_flexible' \in BOOLEAN /\ varint_long' \in BOOLEAN
  BY DEF SetMode
<1>3. pos' \in Nat /\ (backend = "memory" => pos' <= Size)
  BY <1>1, PositionOK
<1> QED
  BY <1>1, <1>2, <1>3, PositionStep

\* A Get, however it ends.
LEMMA GetKeeps ==
    ASSUME IndInv, NEW op \in Ops, NEW q \in Offs, Get(op, q)
    PROVE  IndInv'
<1>1. q \in Int
  BY CallAssumption
<1>2. PushFails("get", op) \/ SeekFails("get", op, q) \/ GetReads(op, q)
  BY DEF Get
<1> QED
  BY <1>1, <1>2, PushFailsKeeps, SeekFailsKeeps, GetReadsKeeps

\* A step in, however it ends.
LEMMA StepInKeeps ==
    ASSUME IndInv, NEW q \in Offs, StepIn(q)
    PROVE  IndInv'
<1>1. q \in Int
  BY CallAssumption
<1>2. PushFails("step_in", None) \/ SeekFails("step_in", None, q) \/ StepInDone(q)
  BY DEF StepIn
<1> QED
  BY <1>1, <1>2, PushFailsKeeps, SeekFailsKeeps, StepInDoneKeeps

\* Every call keeps the invariant.
LEMMA NextKeeps == IndInv /\ [Next]_vars => IndInv'
<1> SUFFICES ASSUME IndInv, [Next]_vars PROVE IndInv'
  OBVIOUS
<1>1. ASSUME NEW op \in Ops, ReadCall(op) PROVE IndInv'
  BY <1>1, ReadCallKeeps
<1>2. ASSUME NEW op \in Ops, NEW q \in Offs, Get(op, q) PROVE IndInv'
  BY <1>2, GetKeeps
<1>3. ASSUME NEW q \in Offs, StepIn(q) PROVE IndInv'
  BY <1>3, StepInKeeps
<1>4. ASSUME NEW q \in Offs, Skip(q) PROVE IndInv'
  BY <1>4, SkipKeeps
<1>5. CASE StepOut
  BY <1>5, StepOutKeeps
<1>6. ASSUME NEW s \in Offs, NEW a \in Aligns, PadFrom(s, a) PROVE IndInv'
  BY <1>6, PadKeeps
<1>7. ASSUME NEW f \in BOOLEAN, NEW l \in BOOLEAN, SetMode(f, l) PROVE IndInv'
  BY <1>7, SetModeKeeps
<1>8. CASE UNCHANGED vars
  BY <1>8 DEF vars, IndInv, TypeOK, InBounds, StepsAreNesting
<1> QED
  BY <1>1, <1>2, <1>3, <1>4, <1>5, <1>6, <1>7, <1>8 DEF Next

\* The invariant holds in every state of the reader.
THEOREM Invariance == Spec => []IndInv
BY InitHolds, NextKeeps, PTL DEF Spec

\* Type correctness: the position is never negative, and the step stack is
\* never deeper than its bound.
THEOREM ReaderTypes == Spec => []TypeOK
<1>1. IndInv => TypeOK
  BY DEF IndInv
<1> QED
  BY <1>1, Invariance, PTL

\* The position of a memory stream, and every position on its step stack,
\* lies within the buffer.
THEOREM PositionsInBounds == Spec => []InBounds
<1>1. IndInv => InBounds
  BY DEF IndInv
<1> QED
  BY <1>1, Invariance, PTL

\* The step stack is the caller's own nesting of StepIns until a call fails
\* between its push and its seek.
THEOREM StepsMatchNesting == Spec => []StepsAreNesting
<1>1. IndInv => StepsAreNesting
  BY DEF IndInv
<1> QED
  BY <1>1, Invariance, PTL
-----------------------------------------------------------------------------
\* The call that a step made, by what it left in last.
LEMMA CallMade ==
    ASSUME Next
    PROVE  /\ last'[1] = "get" => \E op \in Ops, q \in Offs : Get(op, q)
           /\ last'[1] = "read" => \E op \in Ops : ReadCall(op)
<1>1. ASSUME NEW op \in Ops, ReadCall(op) PROVE last'[1] = "read"
  BY <1>1 DEF ReadCall
<1>2. ASSUME NEW op \in Ops, NEW q \in Offs, Get(op, q) PROVE last'[1] = "get"
  BY <1>2 DEF Get, PushFails, SeekFails, GetReads
<1>3. ASSUME NEW q \in Offs, StepIn(q) PROVE last'[1] = "step_in"
  BY <1>3 DEF StepIn, PushFails, SeekFails, StepInDone
<1>4. ASSUME NEW q \in Offs, Skip(q) PROVE last'[1] = "skip"
  BY <1>4 DEF Skip
<1>5. ASSUME StepOut PROVE last'[1] = "step_out"
  BY <1>5 DEF StepOut
<1>6. ASSUME NEW s \in Offs, NEW a \in Aligns, PadFrom(s, a) PROVE last'[1] = "pad"
  BY <1>6 DEF PadFrom
<1>7. ASSUME NEW f \in BOOLEAN, NEW l \in BOOLEAN, SetMode(f, l) PROVE last'[1] = "set"
  BY <1>7 DEF SetMode
<1> QED
  BY <1>1, <1>2, <1>3, <1>4, <1>5, <1>6, <1>7 DEF Next

\* A Get leaves the position alone: in memory always, on a file unless it
\* reports a failure.
THEOREM GetsRestore == Spec => GetRestores
<1> DEFINE Body == (last'[1] = "get" /\ (backend = "memory" \/ last'[3] = "OK")) => pos' = pos
<1>1. IndInv /\ Next => Body
  <2> SUFFICES ASSUME IndInv, Next, last'[1] = "get", backend = "memory" \/ last'[3] = "OK"
               PROVE  pos' = pos
    OBVIOUS
  <2>1. PICK op \in Ops, q \in Offs : Get(op, q)
    BY CallMade
  <2>2. q \in Int /\ pos \in Nat
    BY CallAssumption, PositionOK
  <2>3. CASE PushFails("get", op)
    BY <2>3 DEF PushFails
  <2>4. CASE SeekFails("get", op, q)
    <3>1. PICK r \in Seek(pos, q) : r[1] # "OK" /\ pos' = r[2]
      BY <2>4 DEF SeekFails
    <3> QED
      BY <2>2, <3>1, SeekOutcome
  <2>5. CASE GetReads(op, q)
    BY <2>2, <2>5, GetReadsKeeps
  <2> QED
    BY <2>1, <2>3, <2>4, <2>5 DEF Get
<1>2. IndInv /\ [Next]_vars => [Body]_vars
  BY <1>1
<1> QED
  BY <1>2, Invariance, PTL DEF Spec, GetRestores

\* What a read call leaves behind.
LEMMA ReadEnds ==
    ASSUME IndInv, Next, last'[1] = "read"
    PROVE  /\ last'[2] \in Ops
           /\ \E r \in Outcomes(last'[2], pos) : pos' = r[2] /\ last'[3] = r[1]
<1>1. PICK op \in Ops : ReadCall(op)
  BY CallMade
<1>2. PICK r \in Outcomes(op, pos) : pos' = r[2] /\ last' = <<"read", op, r[1]>>
  BY <1>1 DEF ReadCall
<1>3. last'[2] = op /\ last'[3] = r[1]
  BY <1>2
<1> QED
  BY <1>1, <1>2, <1>3

\* A loop of tests that reports success has tested every byte it consumed,
\* and one that reports BAD_MAGIC stopped at its first bad element, for every
\* length, every chunk size and every input.
THEOREM LoopsAreComplete == Spec => LoopsTestAll
<1> DEFINE op == last'[2]
           Bad(o) == IF op[1] = "pattern" THEN data[o] # 0 ELSE data[o] > 1
           unit == IF op[1] = "pattern" THEN Chunk ELSE 1
           Whole == op[1] \in {"bools", "pattern"} =>
                /\ last'[3] = "OK" => /\ pos' = pos + op[2]
                                      /\ \A o \in pos .. pos' - 1 : ~Bad(o)
                /\ last'[3] = "BAD_MAGIC" =>
                      \E o \in pos .. pos' - 1 : /\ Bad(o) /\ pos' - o <= unit
                                                 /\ \A m \in pos .. pos' - unit - 1 : ~Bad(m)
<1>1. ASSUME IndInv, Next, last'[1] = "read" PROVE Whole
  <2>1. op \in Ops
    BY <1>1, ReadEnds
  <2>2. PICK r \in Outcomes(op, pos) : pos' = r[2] /\ last'[3] = r[1]
    BY <1>1, ReadEnds
  <2>3. DataOK /\ pos \in Nat
    BY <1>1 DEF IndInv, TypeOK, DataOK
  <2> HIDE DEF op
  <2>4. CASE op[1] = "bools"
    <3>1. op[2] \in Nat /\ r \in Bools(pos, op[2])
      BY <2>1, <2>2, <2>4, CallFields DEF Outcomes
    <3>2. /\ r[1] = "OK" => r[2] = pos + op[2] /\ \A o \in pos .. r[2] - 1 : ~(data[o] > 1)
          /\ r[1] = "BAD_MAGIC" => \E o \in pos .. r[2] - 1 :
                                     /\ data[o] > 1 /\ r[2] - o <= 1
                                     /\ \A m \in pos .. r[2] - 2 : ~(data[m] > 1)
      BY <2>3, <3>1, BoolsOutcome
    <3>3. unit = 1 /\ \A o : Bad(o) <=> data[o] > 1
      BY <2>4
    <3>4. r[2] \in Nat
      BY <2>3, <3>1, BoolsOutcome DEF Lands
    <3> HIDE DEF unit, Bad
    <3>5. r[2] - unit - 1 = r[2] - 2
      BY <3>3, <3>4
    <3> QED
      BY <2>2, <3>2, <3>3, <3>5
  <2>5. CASE op[1] = "pattern"
    <3>1. op[2] \in Nat /\ r \in Pattern(pos, op[2])
      BY <2>1, <2>2, <2>5, CallFields DEF Outcomes
    <3>2. /\ r[1] = "OK" => r[2] = pos + op[2] /\ \A o \in pos .. r[2] - 1 : data[o] = 0
          /\ r[1] = "BAD_MAGIC" => \E o \in pos .. r[2] - 1 :
                                     /\ data[o] # 0 /\ r[2] - o <= Chunk
                                     /\ \A m \in pos .. r[2] - Chunk - 1 : data[m] = 0
      BY <2>3, <3>1, PatternOutcome
    <3>3. unit = Chunk /\ \A o : Bad(o) <=> data[o] # 0
      BY <2>5
    <3> HIDE DEF unit, Bad
    <3> QED
      BY <2>2, <3>2, <3>3
  <2> QED
    BY <2>4, <2>5
<1> DEFINE Body == last'[1] = "read" => Whole
<1>2. IndInv /\ [Next]_vars => [Body]_vars
  BY <1>1
<1> QED
  BY <1>2, Invariance, PTL DEF Spec, LoopsTestAll

\* What the first zero unit means for the bytes: it is one, and no unit
\* before it is.
LEMMA FirstUnit ==
    ASSUME NEW p \in Nat, NEW w \in Nat \ {0}, NEW i \in Units(p, w),
           \A j \in Units(p, w) : i <= j
    PROVE  /\ (i + w) % w = 0 /\ i \in Nat
           /\ \A b \in 0 .. w - 1 : data[p + i + b] = 0
           /\ \A k \in 0 .. (i + w) \div w - 2 : ~(\A b \in 0 .. w - 1 : data[p + k * w + b] = 0)
<1>1. i \in Nat /\ i % w = 0 /\ p + i + w <= Size /\ i <= Size
      /\ \A b \in 0 .. w - 1 : data[p + i + b] = 0
  BY SizeAssumption DEF Units
<1> DEFINE d == i \div w
<1>2. d \in Nat /\ i = d * w
  <2>1. i \div w \in Nat /\ i = (i \div w) * w + (i % w)
    BY <1>1, DivMod
  <2> HIDE DEF d
  <2>2. d \in Nat /\ i = d * w + 0
    BY <1>1, <2>1 DEF d
  <2>3. d * w \in Nat
    BY <2>2
  <2> QED
    BY <2>2, <2>3
<1> HIDE DEF d
<1>3. i + w = (d + 1) * w
  BY <1>2
<1>4. ((d + 1) * w) \div w = d + 1 /\ ((d + 1) * w) % w = 0
  BY <1>2
<1>5. ASSUME NEW k \in 0 .. (i + w) \div w - 2
      PROVE  ~(\A b \in 0 .. w - 1 : data[p + k * w + b] = 0)
  <2>1. k \in Nat /\ k < d
    BY <1>2, <1>3, <1>4
  <2>2. k * w \in Nat /\ k * w < i
    <3>1. PICK e \in Nat \ {0} : d = k + e
      <4>1. d - k \in Nat \ {0} /\ d = k + (d - k)
        BY <1>2, <2>1
      <4> QED
        BY <4>1
    <3>2. d * w = k * w + e * w /\ e * w \in Nat \ {0} /\ k * w \in Nat
      BY <2>1, <3>1
    <3> QED
      BY <1>2, <3>2
  <2>3. (k * w) % w = 0
    BY <2>1
  <2>4. k * w \notin Units(p, w)
    BY <1>1, <2>2
  <2> DEFINE o == k * w
  <2>5. o \in 0 .. Size /\ o % w = 0 /\ p + o + w <= Size
    BY <1>1, <2>2, <2>3, SizeAssumption
  <2> HIDE DEF o
  <2>6. ~(\A b \in 0 .. w - 1 : data[p + o + b] = 0)
    BY <2>4, <2>5 DEF Units, o
  <2> QED
    BY <2>6 DEF o
<1> QED
  BY <1>1, <1>3, <1>4, <1>5

\* A terminated string that is read ends just past its first terminator.
THEOREM StringsAreCutRight == Spec => StringsEndAtTerminator
<1> DEFINE w == IF last'[2][1] = "str" THEN 1 ELSE 2
           zero(o) == \A b \in 0 .. w - 1 : data[o + b] = 0
           Cut == /\ pos' > pos /\ (pos' - pos) % w = 0
                  /\ zero(pos' - w)
                  /\ \A i \in 0 .. (pos' - pos) \div w - 2 : ~zero(pos + i * w)
<1>1. ASSUME IndInv, Next, last'[1] = "read", last'[2][1] \in {"str", "wstr"}, last'[3] = "OK"
      PROVE  Cut
  <2>1. PICK r \in Outcomes(last'[2], pos) : pos' = r[2] /\ last'[3] = r[1]
    BY <1>1, ReadEnds
  <2>2. w \in Nat \ {0} /\ pos \in Nat
    BY <1>1, PositionOK
  <2>3. r \in Terminated(pos, w)
    <3>1. CASE last'[2][1] = "str"
      BY <2>1, <3>1 DEF Outcomes
    <3>2. CASE last'[2][1] = "wstr"
      BY <2>1, <3>2 DEF Outcomes
    <3> QED
      BY <1>1, <3>1, <3>2
  <2> HIDE DEF w
  <2>4. PICK i \in Units(pos, w) : /\ r[2] = pos + i + w
                                   /\ \A j \in Units(pos, w) : i <= j
    BY <1>1, <2>1, <2>2, <2>3, TerminatedOutcome
  <2>5. /\ (i + w) % w = 0 /\ i \in Nat
        /\ \A b \in 0 .. w - 1 : data[pos + i + b] = 0
        /\ \A k \in 0 .. (i + w) \div w - 2 : ~(\A b \in 0 .. w - 1 : data[pos + k * w + b] = 0)
    BY <2>2, <2>4, FirstUnit
  <2>6. pos' - pos = i + w /\ pos' - w = pos + i /\ pos' > pos
    BY <2>1, <2>2, <2>4, <2>5
  <2> QED
    BY <2>5, <2>6
<1> DEFINE Body == (last'[1] = "read" /\ last'[2][1] \in {"str", "wstr"} /\ last'[3] = "OK") => Cut
<1>2. IndInv /\ [Next]_vars => [Body]_vars
  BY <1>1
<1> QED
  BY <1>2, Invariance, PTL DEF Spec, StringsEndAtTerminator
=============================================================================
