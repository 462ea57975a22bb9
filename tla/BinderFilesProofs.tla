--------------------------- MODULE BinderFilesProofs ---------------------------
(***************************************************************************)
(* Who owns the memory of an archive handle, for every number of files,    *)
(* every outcome of every allocation and every sequence of calls: the      *)
(* invariants of module BinderFiles. Gives(m, m2, S) is the contract of an *)
(* operation: from memory m to m2 it allocated the blocks S and nothing    *)
(* else, gave back what it had taken, and did nothing wrong to a block     *)
(* (but the foreign release under an allocator of the caller's). One lemma *)
(* per operation states its contract, on success and on failure, and uses  *)
(* those of the operations it calls. Operations on a handle that exists    *)
(* are reasoned about from a memory in which nothing is live yet, so that  *)
(* the blocks of the handle count as given since. The last part is the     *)
(* state between calls, the inductive invariant and one lemma per action.  *)
(***************************************************************************)
EXTENDS BinderFiles, FiniteSetTheorems, TLAPS

(***************************************************************************)
(* The allocator.                                                          *)
(***************************************************************************)
\* The next address is one nobody holds.
Fit(m) == m.next \in Nat \ {0} /\ m.heap \subseteq 1 .. m.next - 1

\* Between m and m2 nothing was done wrong but the foreign release of a string,
\* and that only under an allocator of the caller's.
Quiet(m, m2) ==
  /\ m2.custom = m.custom
  /\ m2.bad \subseteq m.bad \cup (IF m.custom THEN {"foreign"} ELSE {})

\* From m to m2 the blocks S were allocated, and nothing else has changed in the
\* heap.
Gives(m, m2, S) ==
  /\ m2.next \in Nat /\ m2.next >= m.next
  /\ m2.heap = m.heap \cup S
  /\ S \subseteq m.next .. m2.next - 1
  /\ Quiet(m, m2)

\* What an operation gives is new, and the next address is again one nobody
\* holds.
LEMMA GivesFit ==
  ASSUME NEW m, NEW m2, NEW S, Fit(m), Gives(m, m2, S)
  PROVE  Fit(m2) /\ S \cap m.heap = {} /\ 0 \notin S /\ 0 \notin m2.heap
<1>1. m2.next \in Nat \ {0}
  BY DEF Fit, Gives
<1>2. ASSUME NEW p \in m2.heap
      PROVE  p \in 1 .. m2.next - 1
  <2>1. CASE p \in m.heap
    BY <2>1 DEF Fit, Gives
  <2>2. CASE p \in S
    <3>1. p \in m.next .. m2.next - 1 /\ m.next \in Nat /\ m.next # 0
      BY <2>2 DEF Fit, Gives
    <3> QED BY <1>1, <3>1
  <2> QED BY <2>1, <2>2 DEF Gives
<1>3. S \cap m.heap = {} /\ 0 \notin S /\ 0 \notin m2.heap
  BY <1>2 DEF Fit, Gives
<1> QED BY <1>1, <1>2, <1>3 DEF Fit

\* Doing nothing gives nothing.
LEMMA GivesSelf ==
  ASSUME NEW m, Fit(m)
  PROVE  Gives(m, m, {})
BY DEF Fit, Gives, Quiet

\* Two operations in a row give what each gives, and no block twice.
LEMMA GivesThen ==
  ASSUME NEW m0, NEW m, NEW m2, NEW S, NEW T, Fit(m0), Gives(m0, m, S), Gives(m, m2, T)
  PROVE  Gives(m0, m2, S \cup T) /\ S \cap T = {}
BY DEF Fit, Gives, Quiet

\* After an operation that gave nothing the next one starts as from the
\* beginning.
LEMMA GivesAfter ==
  ASSUME NEW m0, NEW m, NEW m2, NEW T, Fit(m0), Gives(m0, m, {}), Gives(m, m2, T)
  PROVE  Gives(m0, m2, T)
<1>1. Gives(m0, m2, {} \cup T)
  BY GivesThen
<1>2. {} \cup T = T
  OBVIOUS
<1> QED BY <1>1, <1>2

\* sf_xfree of a block that was given, or of the null pointer, is no misuse and
\* takes it away.
LEMMA FreeOne ==
  ASSUME NEW m0, NEW m, NEW S, NEW p, Fit(m0), Gives(m0, m, S), p \in S \cup {0}
  PROVE  Gives(m0, sf_xfree(m, p), S \ {p})
<1>1. sf_xfree(m, p).heap = m.heap \ {p} /\ sf_xfree(m, p).next = m.next
      /\ sf_xfree(m, p).bad = m.bad /\ sf_xfree(m, p).custom = m.custom
  BY DEF sf_xfree, Mem, Fit, Gives
<1>2. m0.heap \cap S = {} /\ 0 \notin m0.heap /\ 0 \notin S
  BY DEF Fit, Gives
<1> HIDE DEF sf_xfree
<1> QED BY <1>1, <1>2 DEF Gives, Quiet

\* sf_xfree of the only block that was given, if any, leaves nothing.
LEMMA FreeLast ==
  ASSUME NEW m0, NEW m, NEW p, Fit(m0), Gives(m0, m, {p} \ {0})
  PROVE  Gives(m0, sf_xfree(m, p), {})
<1>1. p \in ({p} \ {0}) \cup {0}
  OBVIOUS
<1>2. Gives(m0, sf_xfree(m, p), ({p} \ {0}) \ {p})
  BY <1>1, FreeOne
<1>3. ({p} \ {0}) \ {p} = {}
  OBVIOUS
<1> QED BY <1>2, <1>3

\* Releasing pointers to different blocks that were given is no misuse and takes
\* them away.
LEMMA ReleaseAll ==
  ASSUME NEW m0, NEW m, NEW S, NEW ps, Fit(m0), Gives(m0, m, S), Once(ps), Blocks(ps) \subseteq S
  PROVE  Gives(m0, Release(m, ps), S \ Blocks(ps))
<1>1. Release(m, ps).heap = m.heap \ Blocks(ps) /\ Release(m, ps).next = m.next
      /\ Release(m, ps).bad = m.bad /\ Release(m, ps).custom = m.custom
  BY DEF Release, Mem, Gives
<1>2. m0.heap \cap S = {} /\ 0 \notin m0.heap /\ 0 \notin S
  BY DEF Fit, Gives
<1> QED BY <1>1, <1>2 DEF Gives, Quiet

\* k allocations give k new blocks.
LEMMA TakenGives ==
  ASSUME NEW m, NEW k \in Nat, Fit(m)
  PROVE  Gives(m, Taken(m, k), m.next .. m.next + k - 1)
BY DEF Fit, Gives, Quiet, Taken, Mem

\* sf_xalloc gives one block, or fails and changes nothing.
LEMMA Alloc ==
  ASSUME NEW m, Fit(m), NEW o \in sf_xalloc(m)
  PROVE  /\ o.ok \in BOOLEAN
         /\ o.ok => Gives(m, o.m, {o.p}) /\ o.p \in Nat \ {0}
         /\ ~o.ok => o.m = m /\ o.p = 0
<1>1. CASE o = Refused(m)
  BY <1>1 DEF Refused
<1>2. CASE o = Given(Taken(m, 1), m.next)
  <2>1. o.ok = TRUE /\ o.m = Taken(m, 1) /\ o.p = m.next
    BY <1>2 DEF Given
  <2>2. m.next .. m.next + 1 - 1 = {m.next} /\ m.next \in Nat \ {0}
    BY DEF Fit
  <2>3. Gives(m, Taken(m, 1), {m.next})
    BY <2>2, TakenGives
  <2> QED BY <2>1, <2>2, <2>3
<1> QED BY <1>1, <1>2 DEF sf_xalloc

\* An allocation made only if needed gives one block, none if it is not needed,
\* or fails and changes nothing.
LEMMA AllocWhen ==
  ASSUME NEW m, Fit(m), NEW needed \in BOOLEAN, NEW o \in AllocIf(needed, m)
  PROVE  /\ o.ok \in BOOLEAN
         /\ o.ok => Gives(m, o.m, {o.p} \ {0}) /\ o.p \in Nat /\ (o.p # 0 <=> needed)
         /\ ~o.ok => o.m = m /\ o.p = 0
<1>1. CASE needed
  <2>1. o \in sf_xalloc(m)
    BY <1>1 DEF AllocIf
  <2>2. /\ o.ok \in BOOLEAN
        /\ o.ok => Gives(m, o.m, {o.p}) /\ o.p \in Nat \ {0}
        /\ ~o.ok => o.m = m /\ o.p = 0
    BY <2>1, Alloc
  <2>3. ASSUME o.ok
        PROVE  Gives(m, o.m, {o.p} \ {0}) /\ o.p \in Nat /\ o.p # 0
    <3>1. {o.p} \ {0} = {o.p}
      BY <2>2, <2>3
    <3> QED BY <2>2, <2>3, <3>1
  <2> QED BY <1>1, <2>2, <2>3
<1>2. CASE ~needed
  <2>1. o.ok = TRUE /\ o.m = m /\ o.p = 0
    BY <1>2 DEF AllocIf, Given
  <2>2. {o.p} \ {0} = {}
    BY <2>1
  <2>3. Gives(m, o.m, {o.p} \ {0})
    BY <2>1, <2>2, GivesSelf
  <2>4. o.p \in Nat
    BY <2>1
  <2> QED BY <1>2, <2>1, <2>3, <2>4
<1> QED BY <1>1, <1>2

\* Two pointers that differ, or of which the first is null, can be released
\* together.
LEMMA Once2 ==
  ASSUME NEW a, NEW b, a # b \/ a = 0
  PROVE  Once(<<a, b>>) /\ Blocks(<<a, b>>) = {a, b} \ {0}
BY DEF Once, Blocks

\* The same for three pointers.
LEMMA Once3 ==
  ASSUME NEW a, NEW b, NEW c, a # b \/ a = 0, a # c \/ a = 0, b # c \/ b = 0
  PROVE  Once(<<a, b, c>>) /\ Blocks(<<a, b, c>>) = {a, b, c} \ {0}
BY DEF Once, Blocks

\* The same for four pointers.
LEMMA Once4 ==
  ASSUME NEW a, NEW b, NEW c, NEW d, a # b \/ a = 0, a # c \/ a = 0, b # c \/ b = 0, a # d \/ a = 0, b # d \/ b = 0, c # d \/ c = 0
  PROVE  Once(<<a, b, c, d>>) /\ Blocks(<<a, b, c, d>>) = {a, b, c, d} \ {0}
BY DEF Once, Blocks

(***************************************************************************)
(* Binary readers and headers.                                             *)
(***************************************************************************)
\* A reader whose buffer is another block than itself; and the blocks of it.
IsBr(br) ==
  /\ br \in [self : Nat, buf : Nat]
  /\ br.self # br.buf \/ br.self = 0
BrBlocks(br) == {br.self, br.buf} \ {0}

\* sf_binary_reader_destroy releases the reader and the buffer it owns, and
\* nothing twice.
LEMMA DestroyBr ==
  ASSUME NEW m0, NEW m, NEW S, NEW br, Fit(m0), Gives(m0, m, S), IsBr(br), BrBlocks(br) \subseteq S
  PROVE  Gives(m0, binary_reader_destroy(m, br), S \ BrBlocks(br))
<1> DEFINE ps == <<br.buf, br.self>>
<1>1. Once(ps) /\ Blocks(ps) = {br.buf, br.self} \ {0}
  <2>1. br.buf # br.self \/ br.buf = 0
    BY DEF IsBr
  <2> QED BY <2>1, Once2
<1>2. Blocks(ps) = BrBlocks(br)
  BY <1>1 DEF BrBlocks
<1>3. binary_reader_destroy(m, br) = Release(m, ps)
  BY DEF binary_reader_destroy
<1> HIDE DEF ps
<1>4. Gives(m0, Release(m, ps), S \ Blocks(ps))
  BY <1>1, <1>2, ReleaseAll
<1> QED BY <1>2, <1>3, <1>4

\* Destroying the readers of both sides releases the blocks of both.
LEMMA DestroyBoth ==
  ASSUME NEW m0, NEW m, NEW S, NEW a, NEW b, Fit(m0), Gives(m0, m, S), IsBr(a), IsBr(b),
         BrBlocks(a) \subseteq S, BrBlocks(b) \subseteq S, BrBlocks(a) \cap BrBlocks(b) = {}
  PROVE  Gives(m0, DestroyReaders(m, a, b), S \ (BrBlocks(a) \cup BrBlocks(b)))
<1> DEFINE m1 == binary_reader_destroy(m, a)
           T == S \ BrBlocks(a)
<1>1. Gives(m0, m1, T)
  BY DestroyBr
<1>2. BrBlocks(b) \subseteq T
  OBVIOUS
<1>3. T \ BrBlocks(b) = S \ (BrBlocks(a) \cup BrBlocks(b))
  OBVIOUS
<1>4. DestroyReaders(m, a, b) = binary_reader_destroy(m1, b)
  BY DEF DestroyReaders
<1> HIDE DEF m1, T
<1>5. Gives(m0, binary_reader_destroy(m1, b), T \ BrBlocks(b))
  BY <1>1, <1>2, DestroyBr
<1> QED BY <1>3, <1>4, <1>5

\* The absent reader holds no block.
LEMMA NoBrIsBr == IsBr(NoBr) /\ BrBlocks(NoBr) = {}
BY DEF IsBr, BrBlocks, NoBr, Br

\* sf_binary_reader_create_from_memory takes the buffer over on success only; a
\* failure allocates nothing.
LEMMA FromMemory ==
  ASSUME NEW m, NEW buf \in Nat, Fit(m), NEW o \in create_from_memory(m, buf)
  PROVE  /\ o.ok \in BOOLEAN
         /\ o.ok => /\ Gives(m, o.m, {o.br.self}) /\ o.br.self \in Nat \ {0}
                    /\ o.br = Br(o.br.self, buf)
         /\ ~o.ok => o.m = m
<1>1. PICK s \in sf_xalloc(m) : o = Opened(s.ok, s.m, IF s.ok THEN Br(s.p, buf) ELSE NoBr)
  BY DEF create_from_memory
<1>2. /\ s.ok \in BOOLEAN
      /\ s.ok => Gives(m, s.m, {s.p}) /\ s.p \in Nat \ {0}
      /\ ~s.ok => s.m = m
  BY Alloc
<1>3. o.ok = s.ok /\ o.m = s.m /\ (s.ok => o.br = Br(s.p, buf))
  BY <1>1 DEF Opened
<1>4. s.ok => o.br.self = s.p
  BY <1>3 DEF Br
<1> QED BY <1>2, <1>3, <1>4

\* sf_dcx_decompress_from_buffer gives the decoded bytes in one block, or fails and
\* gives nothing, though it may have lost a block.
LEMMA Decoded ==
  ASSUME NEW m, Fit(m), NEW d \in sf_dcx_decompress_from_buffer(m)
  PROVE  /\ d.ok \in BOOLEAN
         /\ d.ok => Gives(m, d.m, {d.p}) /\ d.p \in Nat \ {0} /\ d.m.lost = m.lost
         /\ ~d.ok => Gives(m, d.m, {}) /\ d.p = 0
<1>1. CASE d \in sf_xalloc(m)
  <2>1. /\ d.ok \in BOOLEAN
        /\ d.ok => Gives(m, d.m, {d.p}) /\ d.p \in Nat \ {0}
        /\ ~d.ok => d.m = m /\ d.p = 0
    BY <1>1, Alloc
  <2>2. d.m.lost = m.lost
    BY <1>1 DEF sf_xalloc, Refused, Given, Taken, Mem
  <2> QED BY <2>1, <2>2, GivesSelf
<1>2. CASE d = Refused(Lose(Taken(m, 1), m.next))
  <2>1. d.ok = FALSE /\ d.m = Lose(Taken(m, 1), m.next) /\ d.p = 0
    BY <1>2 DEF Refused
  <2>2. Gives(m, Lose(Taken(m, 1), m.next), {})
    BY DEF Fit, Gives, Quiet, Lose, Taken, Mem
  <2> QED BY <2>1, <2>2
<1> QED BY <1>1, <1>2 DEF sf_dcx_decompress_from_buffer

\* sf_get_decompressed_reader gives a second reader with its own buffer when the
\* bytes are a DCX, the reader itself when they are not, and nothing when it
\* fails.
LEMMA OpenOne ==
  ASSUME NEW m, NEW br, NEW dcx \in BOOLEAN, Fit(m), br.self \in m.heap,
         NEW o \in open_decompressed(m, br, dcx)
  PROVE  /\ o.ok \in BOOLEAN
         /\ o.ok => /\ Gives(m, o.m, BrBlocks(Extra(o.br, br)))
                    /\ IsBr(Extra(o.br, br))
                    /\ dcx => o.br # br /\ IsBr(o.br) /\ o.br.self # 0
                    /\ ~dcx => o.br = br
         /\ ~o.ok => Gives(m, o.m, {})
<1>1. CASE ~dcx
  <2>1. o.ok = TRUE /\ o.m = m /\ o.br = br
    BY <1>1 DEF open_decompressed, Opened
  <2>2. Extra(o.br, br) = NoBr
    BY <2>1 DEF Extra
  <2> QED BY <1>1, <2>1, <2>2, NoBrIsBr, GivesSelf
<1>2. CASE dcx
  <2>1. PICK d \in sf_dcx_decompress_from_buffer(m) :
          o \in IF ~d.ok THEN {Opened(FALSE, d.m, NoBr)}
                ELSE {IF c.ok THEN c ELSE Opened(FALSE, sf_xfree(c.m, d.p), NoBr) :
                         c \in create_from_memory(d.m, d.p)}
    BY <1>2 DEF open_decompressed
  <2>2. /\ d.ok \in BOOLEAN
        /\ d.ok => Gives(m, d.m, {d.p}) /\ d.p \in Nat \ {0}
        /\ ~d.ok => Gives(m, d.m, {})
    BY Decoded
  <2>3. CASE ~d.ok
    <3>1. o.ok = FALSE /\ o.m = d.m
      BY <2>1, <2>3 DEF Opened
    <3> QED BY <2>2, <2>3, <3>1
  <2>4. CASE d.ok
    <3>1. PICK c \in create_from_memory(d.m, d.p) :
             o = IF c.ok THEN c ELSE Opened(FALSE, sf_xfree(c.m, d.p), NoBr)
      BY <2>1, <2>4
    <3>2. Fit(d.m) /\ d.p \in Nat /\ Gives(m, d.m, {d.p}) /\ d.p # 0
      BY <2>2, <2>4, GivesFit
    <3>3. /\ c.ok \in BOOLEAN
          /\ c.ok => /\ Gives(d.m, c.m, {c.br.self}) /\ c.br.self \in Nat \ {0}
                     /\ c.br = Br(c.br.self, d.p)
          /\ ~c.ok => c.m = d.m
      BY <3>2, FromMemory
    <3>4. CASE ~c.ok
      <4>1. o.ok = FALSE /\ o.m = sf_xfree(d.m, d.p)
        BY <3>1, <3>3, <3>4 DEF Opened
      <4>2. Gives(m, sf_xfree(d.m, d.p), {d.p} \ {d.p})
        BY <3>2, FreeOne
      <4>3. {d.p} \ {d.p} = {}
        OBVIOUS
      <4> QED BY <4>1, <4>2, <4>3
    <3>5. CASE c.ok
      <4>1. o = c
        BY <3>1, <3>5
      <4>2. Gives(m, c.m, {d.p} \cup {c.br.self}) /\ {d.p} \cap {c.br.self} = {}
        BY <3>2, <3>3, <3>5, GivesThen
      <4>3. c.br.buf = d.p /\ c.br \in [self : Nat, buf : Nat]
        BY <3>2, <3>3, <3>5 DEF Br
      <4>4. IsBr(c.br) /\ BrBlocks(c.br) = {d.p} \cup {c.br.self}
        BY <4>2, <4>3, <3>2, <3>3, <3>5 DEF IsBr, BrBlocks
      <4>5. c.br # br
        <5>1. c.br.self \notin d.m.heap
          BY <3>2, <3>3, <3>5, GivesFit
        <5> QED BY <3>2, <5>1 DEF Gives
      <4>6. Extra(o.br, br) = c.br
        BY <4>1, <4>5 DEF Extra
      <4> QED BY <1>2, <3>3, <3>5, <4>1, <4>2, <4>4, <4>5, <4>6
    <3> QED BY <3>3, <3>4, <3>5
  <2> QED BY <2>2, <2>3, <2>4
<1> QED BY <1>1, <1>2

\* A release to the default allocator changes no block of the handle.
LEMMA ForeignOnly ==
  ASSUME NEW m, Fit(m)
  PROVE  Gives(m, FreeDefault(m), {})
BY DEF Fit, Gives, Quiet, FreeDefault, Bad, Mem

\* Reading the headers gives the version and the header array, two blocks, and on
\* failure neither.
LEMMA HeaderRead ==
  ASSUME NEW m, NEW n \in Nat, NEW named \in BOOLEAN, Fit(m), NEW o \in read_header(m, n, named)
  PROVE  /\ o.ok \in BOOLEAN
         /\ o.ok => /\ Gives(m, o.m, {o.version, o.headers} \ {0})
                    /\ o.version \in Nat \ {0} /\ o.headers \in Nat /\ o.version # o.headers
         /\ ~o.ok => Gives(m, o.m, {})
<1> DEFINE seen == IF named /\ n > 0 THEN FreeDefault(m) ELSE m
<1>1. Gives(m, seen, {})
  BY ForeignOnly, GivesSelf
<1>2. Fit(seen)
  BY <1>1, GivesFit
<1> HIDE DEF seen
<1>3. o = NoHeaders(m) \/ o = NoHeaders(seen)
      \/ \E v \in {q \in sf_xalloc(seen) : q.ok} : \E h \in AllocIf(n > 0, v.m) :
            o = IF h.ok THEN Headers(TRUE, h.m, v.p, h.p) ELSE NoHeaders(sf_xfree(h.m, v.p))
  BY DEF read_header, seen
<1>4. CASE o = NoHeaders(m) \/ o = NoHeaders(seen)
  <2>1. o.ok = FALSE /\ (o.m = m \/ o.m = seen)
    BY <1>4 DEF NoHeaders, Headers
  <2> QED BY <2>1, <1>1, GivesSelf
<1>5. ASSUME NEW v \in sf_xalloc(seen), v.ok, NEW h \in AllocIf(n > 0, v.m),
             o = IF h.ok THEN Headers(TRUE, h.m, v.p, h.p) ELSE NoHeaders(sf_xfree(h.m, v.p))
      PROVE  /\ o.ok \in BOOLEAN
             /\ o.ok => /\ Gives(m, o.m, {o.version, o.headers} \ {0})
                        /\ o.version \in Nat \ {0} /\ o.headers \in Nat /\ o.version # o.headers
             /\ ~o.ok => Gives(m, o.m, {})
  <2>1. Gives(seen, v.m, {v.p}) /\ v.p \in Nat \ {0}
    BY <1>2, <1>5, Alloc
  <2>2. Gives(m, v.m, {} \cup {v.p})
    BY <1>1, <2>1, GivesThen
  <2>3. Gives(m, v.m, {v.p})
    <3>1. {} \cup {v.p} = {v.p}
      OBVIOUS
    <3> QED BY <2>2, <3>1
  <2>4. Fit(v.m)
    BY <2>3, GivesFit
  <2>5. (n > 0) \in BOOLEAN
    OBVIOUS
  <2>6. /\ h.ok \in BOOLEAN
        /\ h.ok => Gives(v.m, h.m, {h.p} \ {0}) /\ h.p \in Nat
        /\ ~h.ok => h.m = v.m
    BY <2>4, <2>5, AllocWhen
  <2>7. CASE h.ok
    <3>1. o.ok = TRUE /\ o.m = h.m /\ o.version = v.p /\ o.headers = h.p
      BY <1>5, <2>7 DEF Headers
    <3>2. Gives(m, h.m, {v.p} \cup ({h.p} \ {0})) /\ {v.p} \cap ({h.p} \ {0}) = {}
      <4>1. Gives(v.m, h.m, {h.p} \ {0})
        BY <2>6, <2>7
      <4> QED BY <2>3, <4>1, GivesThen
    <3>3. {v.p} \cup ({h.p} \ {0}) = {v.p, h.p} \ {0}
      BY <2>1
    <3>4. v.p # h.p
      BY <2>1, <3>2
    <3> QED BY <2>1, <2>6, <2>7, <3>1, <3>2, <3>3, <3>4
  <2>8. CASE ~h.ok
    <3>1. o.ok = FALSE /\ o.m = sf_xfree(v.m, v.p)
      BY <1>5, <2>6, <2>8 DEF NoHeaders, Headers
    <3>2. Gives(m, sf_xfree(v.m, v.p), {v.p} \ {v.p})
      BY <2>3, FreeOne
    <3>3. {v.p} \ {v.p} = {}
      OBVIOUS
    <3> QED BY <3>1, <3>2, <3>3
  <2> QED BY <2>6, <2>7, <2>8
<1> QED BY <1>3, <1>4, <1>5

\* The same for an archive with a separate data file, whose own version string is
\* read and dropped first.
LEMMA HeadersRead ==
  ASSUME NEW m, NEW n \in Nat, NEW named \in BOOLEAN, Fit(m), NEW o \in read_headers(m, n, named)
  PROVE  /\ o.ok \in BOOLEAN
         /\ o.ok => /\ Gives(m, o.m, {o.version, o.headers} \ {0})
                    /\ o.version \in Nat \ {0} /\ o.headers \in Nat /\ o.version # o.headers
         /\ ~o.ok => Gives(m, o.m, {})
<1>1. PICK d \in read_bdf_header(m) :
         o \in IF d.ok THEN read_header(d.m, n, named) ELSE {NoHeaders(d.m)}
  BY DEF read_headers
<1>2. d.ok \in BOOLEAN /\ (d.m = m \/ d.m = FreeDefault(m))
  <2>1. d = Given(m, 0) \/ d = Refused(m) \/ d = Refused(FreeDefault(m)) \/ d = Given(FreeDefault(m), 0)
    BY DEF read_bdf_header
  <2>2. d.m = m \/ d.m = FreeDefault(m)
    BY <2>1 DEF Given, Refused
  <2>3. d.ok = TRUE \/ d.ok = FALSE
    BY <2>1 DEF Given, Refused
  <2> QED BY <2>2, <2>3
<1>3. Gives(m, d.m, {})
  BY <1>2, ForeignOnly, GivesSelf
<1>4. CASE ~d.ok
  <2>1. o.ok = FALSE /\ o.m = d.m
    BY <1>1, <1>4 DEF NoHeaders, Headers
  <2> QED BY <2>1, <1>3
<1>5. CASE d.ok
  <2>1. o \in read_header(d.m, n, named) /\ Fit(d.m)
    BY <1>1, <1>3, <1>5, GivesFit
  <2>2. /\ o.ok \in BOOLEAN
        /\ o.ok => /\ Gives(d.m, o.m, {o.version, o.headers} \ {0})
                   /\ o.version \in Nat \ {0} /\ o.headers \in Nat /\ o.version # o.headers
        /\ ~o.ok => Gives(d.m, o.m, {})
    BY <2>1, HeaderRead
  <2>3. ASSUME NEW T, Gives(d.m, o.m, T)
        PROVE  Gives(m, o.m, T)
    <3>1. Gives(m, o.m, {} \cup T)
      BY <1>3, <2>3, GivesThen
    <3>2. {} \cup T = T
      OBVIOUS
    <3> QED BY <3>1, <3>2
  <2> QED BY <2>2, <2>3
<1> QED BY <1>2, <1>4, <1>5

(***************************************************************************)
(* Files and binders.                                                      *)
(***************************************************************************)
IsFile(f) == f \in [name : Nat, data : Nat]

\* The fields of a file.
LEMMA FileMade ==
  ASSUME NEW a \in Nat, NEW d \in Nat
  PROVE  IsFile(File(a, d)) /\ File(a, d).name = a /\ File(a, d).data = d
BY DEF IsFile, File

\* file_dup gives the copies of the name and of the data, different blocks, or
\* neither: a failing second copy releases the first.
LEMMA FileCopied ==
  ASSUME NEW m, NEW named \in BOOLEAN, NEW sized \in BOOLEAN, Fit(m), NEW o \in file_dup(m, named, sized)
  PROVE  /\ o.ok \in BOOLEAN
         /\ o.ok => /\ Gives(m, o.m, {o.file.name, o.file.data} \ {0}) /\ IsFile(o.file)
                    /\ o.file = File(o.file.name, o.file.data)
                    /\ o.file.name # o.file.data \/ o.file.name = 0
         /\ ~o.ok => Gives(m, o.m, {})
<1>1. PICK s \in AllocIf(named, m) :
        o \in IF ~s.ok THEN {Copied(FALSE, s.m, File(0, 0))}
              ELSE {IF d.ok THEN Copied(TRUE, d.m, File(s.p, d.p))
                    ELSE Copied(FALSE, sf_xfree(d.m, s.p), File(0, 0)) : d \in AllocIf(sized, s.m)}
  BY DEF file_dup
<1>2. /\ s.ok \in BOOLEAN
      /\ s.ok => Gives(m, s.m, {s.p} \ {0}) /\ s.p \in Nat
      /\ ~s.ok => s.m = m
  BY AllocWhen
<1>3. CASE ~s.ok
  <2>1. o.ok = FALSE /\ o.m = m
    BY <1>1, <1>2, <1>3 DEF Copied
  <2> QED BY <2>1, GivesSelf
<1>4. CASE s.ok
  <2>1. PICK d \in AllocIf(sized, s.m) :
           o = IF d.ok THEN Copied(TRUE, d.m, File(s.p, d.p))
               ELSE Copied(FALSE, sf_xfree(d.m, s.p), File(0, 0))
    BY <1>1, <1>4
  <2>2. Gives(m, s.m, {s.p} \ {0}) /\ s.p \in Nat
    BY <1>2, <1>4
  <2>3. Fit(s.m)
    BY <2>2, GivesFit
  <2>4. /\ d.ok \in BOOLEAN
        /\ d.ok => Gives(s.m, d.m, {d.p} \ {0}) /\ d.p \in Nat
        /\ ~d.ok => d.m = s.m
    BY <2>3, AllocWhen
  <2>5. CASE ~d.ok
    <3>1. o.ok = FALSE /\ o.m = sf_xfree(s.m, s.p)
      BY <2>1, <2>4, <2>5 DEF Copied
    <3>2. Gives(m, sf_xfree(s.m, s.p), {})
      BY <2>2, FreeLast
    <3> QED BY <3>1, <3>2
  <2>6. CASE d.ok
    <3>1. o.ok = TRUE /\ o.m = d.m /\ o.file = File(s.p, d.p)
      BY <2>1, <2>6 DEF Copied
    <3>2. Gives(s.m, d.m, {d.p} \ {0}) /\ d.p \in Nat
      BY <2>4, <2>6
    <3> DEFINE A == {s.p} \ {0}
               D == {d.p} \ {0}
    <3> HIDE DEF A, D
    <3>3a. Gives(m, d.m, A \cup D) /\ A \cap D = {}
      <4>1. Gives(m, s.m, A) /\ Gives(s.m, d.m, D)
        BY <2>2, <3>2 DEF A, D
      <4> QED BY <4>1, GivesThen
    <3>3. Gives(m, d.m, ({s.p} \ {0}) \cup ({d.p} \ {0})) /\ ({s.p} \ {0}) \cap ({d.p} \ {0}) = {}
      BY <3>3a DEF A, D
    <3>4. ({s.p} \ {0}) \cup ({d.p} \ {0}) = {s.p, d.p} \ {0}
      OBVIOUS
    <3>5. o.file.name = s.p /\ o.file.data = d.p /\ IsFile(o.file)
      BY <2>2, <3>1, <3>2, FileMade
    <3>6. s.p # d.p \/ s.p = 0
      BY <3>3
    <3> QED BY <3>1, <3>3, <3>4, <3>5, <3>6
  <2> QED BY <2>4, <2>5, <2>6
<1> QED BY <1>2, <1>3, <1>4

\* extract_file_data gives the bytes of the file in one block; the raw bytes are
\* released on every path.
LEMMA DataExtracted ==
  ASSUME NEW m, NEW form \in Forms, Fit(m), NEW o \in extract_file_data(m, form)
  PROVE  /\ o.ok \in BOOLEAN
         /\ o.ok => Gives(m, o.m, {o.p} \ {0}) /\ o.p \in Nat
         /\ ~o.ok => Gives(m, o.m, {}) /\ o.p = 0
<1>0. (form # "empty") \in BOOLEAN
  OBVIOUS
<1>1. PICK raw \in AllocIf(form # "empty", m) :
        o \in IF ~raw.ok THEN {raw}
              ELSE {Refused(sf_xfree(raw.m, raw.p))}
                   \cup (IF form = "packed"
                         THEN {IF d.ok THEN Given(sf_xfree(d.m, raw.p), d.p) ELSE Refused(sf_xfree(d.m, raw.p)) :
                                  d \in sf_dcx_decompress_from_buffer(raw.m)}
                         ELSE {raw})
  BY DEF extract_file_data
<1>2. /\ raw.ok \in BOOLEAN
      /\ raw.ok => Gives(m, raw.m, {raw.p} \ {0}) /\ raw.p \in Nat
      /\ ~raw.ok => raw.m = m /\ raw.p = 0
  BY <1>0, AllocWhen
<1>3. CASE ~raw.ok
  <2>1. o = raw
    BY <1>1, <1>3
  <2> QED BY <1>2, <1>3, <2>1, GivesSelf
<1>4. CASE raw.ok
  <2>1. Gives(m, raw.m, {raw.p} \ {0}) /\ raw.p \in Nat
    BY <1>2, <1>4
  <2>2. Fit(raw.m) /\ Gives(m, sf_xfree(raw.m, raw.p), {})
    BY <2>1, GivesFit, FreeLast
  <2>3. CASE o = Refused(sf_xfree(raw.m, raw.p))
    BY <2>2, <2>3 DEF Refused
  <2>4. CASE o = raw
    BY <1>2, <1>4, <2>1, <2>4
  <2>5. ASSUME NEW d \in sf_dcx_decompress_from_buffer(raw.m),
               o = IF d.ok THEN Given(sf_xfree(d.m, raw.p), d.p) ELSE Refused(sf_xfree(d.m, raw.p))
        PROVE  /\ o.ok \in BOOLEAN
               /\ o.ok => Gives(m, o.m, {o.p} \ {0}) /\ o.p \in Nat
               /\ ~o.ok => Gives(m, o.m, {}) /\ o.p = 0
    <3>1. /\ d.ok \in BOOLEAN
          /\ d.ok => Gives(raw.m, d.m, {d.p}) /\ d.p \in Nat \ {0}
          /\ ~d.ok => Gives(raw.m, d.m, {})
      BY <2>2, Decoded
    <3>2. CASE ~d.ok
      <4>1. o.ok = FALSE /\ o.m = sf_xfree(d.m, raw.p) /\ o.p = 0
        BY <2>5, <3>2 DEF Refused
      <4> DEFINE A == {raw.p} \ {0}
      <4> HIDE DEF A
      <4>2. Gives(m, raw.m, A) /\ Gives(raw.m, d.m, {})
        BY <2>1, <3>1, <3>2 DEF A
      <4>3. Gives(m, d.m, A \cup {})
        BY <4>2, GivesThen
      <4>4. A \cup {} = {raw.p} \ {0}
        BY DEF A
      <4>5. Gives(m, sf_xfree(d.m, raw.p), {})
        BY <4>3, <4>4, FreeLast
      <4> QED BY <4>1, <4>5
    <3>3. CASE d.ok
      <4>1. o.ok = TRUE /\ o.m = sf_xfree(d.m, raw.p) /\ o.p = d.p
        BY <2>5, <3>3 DEF Given
      <4> DEFINE A == {raw.p} \ {0}
                 D == {d.p}
      <4> HIDE DEF A, D
      <4>2a. Gives(m, d.m, A \cup D) /\ A \cap D = {}
        <5>1. Gives(m, raw.m, A) /\ Gives(raw.m, d.m, D)
          BY <2>1, <3>1, <3>3 DEF A, D
        <5> QED BY <5>1, GivesThen
      <4>2. Gives(m, d.m, ({raw.p} \ {0}) \cup {d.p}) /\ ({raw.p} \ {0}) \cap {d.p} = {}
        BY <4>2a DEF A, D
      <4>3. raw.p \in (({raw.p} \ {0}) \cup {d.p}) \cup {0}
        OBVIOUS
      <4>4. Gives(m, sf_xfree(d.m, raw.p), (({raw.p} \ {0}) \cup {d.p}) \ {raw.p})
        BY <4>2, <4>3, FreeOne
      <4>5. (({raw.p} \ {0}) \cup {d.p}) \ {raw.p} = {d.p} \ {0} /\ d.p \in Nat
        BY <3>1, <3>3, <4>2
      <4> QED BY <4>1, <4>4, <4>5
    <3> QED BY <3>1, <3>2, <3>3
  <2> QED BY <1>1, <1>4, <2>3, <2>4, <2>5
<1> QED BY <1>2, <1>3, <1>4

\* sf_*_create gives the handle and its version, or nothing.
LEMMA Created ==
  ASSUME NEW m, Fit(m), NEW o \in create(m)
  PROVE  /\ o.ok \in BOOLEAN
         /\ o.ok => \E s, v \in Nat \ {0} :
                       /\ o.b = BinderOf(s, v, 0, 0, <<>>, 0)
                       /\ s # v /\ Gives(m, o.m, {s, v})
         /\ ~o.ok => Gives(m, o.m, {}) /\ o.b = NoBinder
<1>1. PICK s \in sf_xalloc(m) :
        o \in IF ~s.ok THEN {Built(FALSE, s.m, NoBinder)}
              ELSE {IF v.ok THEN Built(TRUE, v.m, BinderOf(s.p, v.p, 0, 0, <<>>, 0))
                    ELSE Built(FALSE, sf_xfree(v.m, s.p), NoBinder) : v \in sf_xalloc(s.m)}
  BY DEF create
<1>2. /\ s.ok \in BOOLEAN
      /\ s.ok => Gives(m, s.m, {s.p}) /\ s.p \in Nat \ {0}
      /\ ~s.ok => s.m = m
  BY Alloc
<1>3. CASE ~s.ok
  <2>1. o.ok = FALSE /\ o.m = m /\ o.b = NoBinder
    BY <1>1, <1>2, <1>3 DEF Built
  <2> QED BY <2>1, GivesSelf
<1>4. CASE s.ok
  <2>1. PICK v \in sf_xalloc(s.m) :
           o = IF v.ok THEN Built(TRUE, v.m, BinderOf(s.p, v.p, 0, 0, <<>>, 0))
               ELSE Built(FALSE, sf_xfree(v.m, s.p), NoBinder)
    BY <1>1, <1>4
  <2>2. Gives(m, s.m, {s.p}) /\ s.p \in Nat \ {0}
    BY <1>2, <1>4
  <2>3. Fit(s.m)
    BY <2>2, GivesFit
  <2>4. /\ v.ok \in BOOLEAN
        /\ v.ok => Gives(s.m, v.m, {v.p}) /\ v.p \in Nat \ {0}
        /\ ~v.ok => v.m = s.m
    BY <2>3, Alloc
  <2>5. CASE ~v.ok
    <3>1. o.ok = FALSE /\ o.m = sf_xfree(s.m, s.p) /\ o.b = NoBinder
      BY <2>1, <2>4, <2>5 DEF Built
    <3>2. {s.p} \ {0} = {s.p}
      BY <2>2
    <3>3. Gives(m, sf_xfree(s.m, s.p), {})
      BY <2>2, <3>2, FreeLast
    <3> QED BY <3>1, <3>3
  <2>6. CASE v.ok
    <3>1. o.ok = TRUE /\ o.m = v.m /\ o.b = BinderOf(s.p, v.p, 0, 0, <<>>, 0)
      BY <2>1, <2>6 DEF Built
    <3>2. Gives(m, v.m, {s.p} \cup {v.p}) /\ {s.p} \cap {v.p} = {}
      BY <2>2, <2>4, <2>6, GivesThen
    <3>3. {s.p} \cup {v.p} = {s.p, v.p} /\ s.p # v.p
      BY <3>2
    <3>4. v.p \in Nat \ {0}
      BY <2>4, <2>6
    <3>5. Gives(m, o.m, {s.p, v.p})
      BY <3>1, <3>2, <3>3
    <3> QED BY <2>2, <3>1, <3>3, <3>4, <3>5
  <2> QED BY <2>4, <2>5, <2>6
<1> QED BY <1>2, <1>3, <1>4

\* The blocks of a list of files, of a binder; and that each is held once.
FileBlocks(list, pool) == Blocks(FilePointers(list, pool))
FilesOnce(list, pool) == Once(FilePointers(list, pool))
HandleBlocks(b) == {b.self, b.version, b.files, b.pool} \ {0}
BinderBlocks(b) == HandleBlocks(b) \cup FileBlocks(b.list, b.pool)
Differ(p, q) == p # q \/ p = 0
\* No block is held by two places of the binder.
BinderOnce(b) ==
  /\ Differ(b.self, b.version) /\ Differ(b.self, b.files) /\ Differ(b.self, b.pool)
  /\ Differ(b.version, b.files) /\ Differ(b.version, b.pool) /\ Differ(b.files, b.pool)
  /\ FilesOnce(b.list, b.pool)
  /\ HandleBlocks(b) \cap FileBlocks(b.list, b.pool) = {}
IsList(list) == list \in Seq([name : Nat, data : Nat])
\* A handle of sf_*_create or sf_*_read that destroy can take: fields of their
\* types, a list within its array, an array exactly when there is room, and no
\* block held twice.
IsBinder(b) ==
  /\ b = BinderOf(b.self, b.version, b.files, b.cap, b.list, b.pool)
  /\ b.self \in Nat /\ b.version \in Nat /\ b.files \in Nat /\ b.cap \in Nat /\ b.pool \in Nat
  /\ IsList(b.list)
  /\ Len(b.list) <= b.cap /\ (b.cap > 0 <=> b.files # 0)
  /\ BinderOnce(b)

\* The fields of a binder.
LEMMA BinderFields ==
  ASSUME NEW s, NEW v, NEW f, NEW c, NEW l, NEW p
  PROVE  /\ BinderOf(s, v, f, c, l, p).self = s /\ BinderOf(s, v, f, c, l, p).version = v
         /\ BinderOf(s, v, f, c, l, p).files = f /\ BinderOf(s, v, f, c, l, p).cap = c
         /\ BinderOf(s, v, f, c, l, p).list = l /\ BinderOf(s, v, f, c, l, p).pool = p
BY DEF BinderOf

\* The null pointer is never counted as a block.
LEMMA ZeroNotBlock ==
  ASSUME NEW ps
  PROVE  0 \notin Blocks(ps)
BY DEF Blocks

\* Releasing a list of files releases its own names and its data, and leaves the
\* names in the pool.
LEMMA FilesFreed ==
  ASSUME NEW m0, NEW m, NEW S, NEW list, NEW pool, Fit(m0), Gives(m0, m, S),
         FilesOnce(list, pool), FileBlocks(list, pool) \subseteq S
  PROVE  Gives(m0, FilesFree(m, list, pool), S \ FileBlocks(list, pool))
<1> DEFINE ps == FilePointers(list, pool)
<1>1. Once(ps) /\ Blocks(ps) \subseteq S
  BY DEF FilesOnce, FileBlocks
<1> HIDE DEF ps
<1>2. Gives(m0, Release(m, ps), S \ Blocks(ps))
  BY <1>1, ReleaseAll
<1> QED BY <1>2 DEF ps, FilesFree, FileBlocks

\* Four pointers to different blocks can be released together.
LEMMA Released4 ==
  ASSUME NEW m0, NEW m, NEW S, NEW a, NEW b, NEW c, NEW d, Fit(m0), Gives(m0, m, S),
         Differ(a, b), Differ(a, c), Differ(a, d), Differ(b, c), Differ(b, d), Differ(c, d),
         {a, b, c, d} \ {0} \subseteq S
  PROVE  Gives(m0, Release(m, <<a, b, c, d>>), S \ {a, b, c, d})
<1> DEFINE ps == <<a, b, c, d>>
<1>1. Once(ps) /\ Blocks(ps) = {a, b, c, d} \ {0}
  BY Once4 DEF Differ
<1> HIDE DEF ps
<1>2. Gives(m0, Release(m, ps), S \ Blocks(ps))
  BY <1>1, ReleaseAll
<1>3. 0 \notin S
  BY GivesFit
<1>4. S \ Blocks(ps) = S \ {a, b, c, d}
  BY <1>1, <1>3
<1> QED BY <1>2, <1>4 DEF ps

\* The same for three pointers.
LEMMA Released3 ==
  ASSUME NEW m0, NEW m, NEW S, NEW a, NEW b, NEW c, Fit(m0), Gives(m0, m, S),
         Differ(a, b), Differ(a, c), Differ(b, c), {a, b, c} \ {0} \subseteq S
  PROVE  Gives(m0, Release(m, <<a, b, c>>), S \ {a, b, c})
<1> DEFINE ps == <<a, b, c>>
<1>1. Once(ps) /\ Blocks(ps) = {a, b, c} \ {0}
  BY Once3 DEF Differ
<1> HIDE DEF ps
<1>2. Gives(m0, Release(m, ps), S \ Blocks(ps))
  BY <1>1, ReleaseAll
<1>3. 0 \notin S
  BY GivesFit
<1>4. S \ Blocks(ps) = S \ {a, b, c}
  BY <1>1, <1>3
<1> QED BY <1>2, <1>4 DEF ps

\* sf_*_destroy releases every block of the handle once.
LEMMA Destroyed ==
  ASSUME NEW m0, NEW m, NEW S, NEW b, Fit(m0), Gives(m0, m, S), BinderOnce(b), BinderBlocks(b) \subseteq S
  PROVE  Gives(m0, destroy(m, b), S \ BinderBlocks(b))
<1> DEFINE F == FileBlocks(b.list, b.pool)
           T == S \ F
           m1 == FilesFree(m, b.list, b.pool)
<1>1. Gives(m0, m1, T)
  BY FilesFreed DEF BinderOnce, BinderBlocks
<1>2. {b.pool, b.files, b.version, b.self} \ {0} \subseteq T
  BY DEF BinderOnce, BinderBlocks, HandleBlocks
<1>3. 0 \notin T
  BY GivesFit
<1>4. T \ {b.pool, b.files, b.version, b.self} = S \ BinderBlocks(b)
  BY <1>3 DEF BinderBlocks, HandleBlocks
<1>5. destroy(m, b) = Release(m1, <<b.pool, b.files, b.version, b.self>>)
  BY DEF destroy
<1> HIDE DEF F, T, m1
<1>6. /\ Differ(b.pool, b.files) /\ Differ(b.pool, b.version) /\ Differ(b.pool, b.self)
      /\ Differ(b.files, b.version) /\ Differ(b.files, b.self) /\ Differ(b.version, b.self)
  BY DEF Differ, BinderOnce
<1>7. Gives(m0, Release(m1, <<b.pool, b.files, b.version, b.self>>), T \ {b.pool, b.files, b.version, b.self})
  BY <1>1, <1>2, <1>6, Released4
<1> QED BY <1>4, <1>5, <1>7

\* The empty list holds no block.
LEMMA EmptyList ==
  ASSUME NEW pool
  PROVE  FilesOnce(<<>>, pool) /\ FileBlocks(<<>>, pool) = {} /\ IsList(<<>>) /\ Len(<<>>) = 0
<1>1. DOMAIN FilePointers(<<>>, pool) = {}
  BY DEF FilePointers
<1>2. FilesOnce(<<>>, pool)
  BY <1>1 DEF FilesOnce, Once
<1>3. FileBlocks(<<>>, pool) = {}
  BY <1>1 DEF FileBlocks, Blocks
<1> QED BY <1>2, <1>3 DEF IsList

(***************************************************************************)
(* Reading a binder as a whole.                                            *)
(***************************************************************************)
\* The list that reading k files gives: their names in the pool, their bytes in
\* blocks of their own.
Pooled(pool, m, form, k) == [i \in 1 .. k |-> File(pool, DataAt(m, form, i))]
DataBlocks(m, form, k) == {DataAt(m, form, i) : i \in 1 .. k} \ {0}

\* Different turns of the extraction loop get different blocks, none of them
\* older than the loop.
LEMMA DataDiffers ==
  ASSUME NEW m, Fit(m), NEW form \in Forms, NEW i \in Nat \ {0}, NEW j \in Nat \ {0}
  PROVE  /\ DataAt(m, form, i) \in Nat
         /\ DataAt(m, form, i) # 0 /\ DataAt(m, form, i) = DataAt(m, form, j) => i = j
         /\ DataAt(m, form, i) # 0 => DataAt(m, form, i) >= m.next
         /\ \A k \in Nat : i <= k => DataAt(m, form, i) < m.next + Turns(form, k)
BY DEF Fit, DataAt, Turns, Forms

\* The files that k turns of the extraction loop made are a list in which no
\* block is held twice, and its blocks are those of the data.
LEMMA PooledFiles ==
  ASSUME NEW pool \in Nat, NEW m, Fit(m), NEW form \in Forms, NEW k \in Nat
  PROVE  /\ IsList(Pooled(pool, m, form, k)) /\ Len(Pooled(pool, m, form, k)) = k
         /\ FilesOnce(Pooled(pool, m, form, k), pool)
         /\ FileBlocks(Pooled(pool, m, form, k), pool) = DataBlocks(m, form, k)
<1> DEFINE list == Pooled(pool, m, form, k)
           ps == FilePointers(list, pool)
<1>1. \A i \in 1 .. k : DataAt(m, form, i) \in Nat
  BY DataDiffers
<1>2. IsList(list) /\ Len(list) = k /\ DOMAIN list = 1 .. k
  BY <1>1 DEF IsList, Pooled, File
<1>3. ASSUME NEW i \in 1 .. k
      PROVE  list[i].name = pool /\ list[i].data = DataAt(m, form, i) /\ OwnName(list[i], pool) = 0
  <2>1. list[i] = File(pool, DataAt(m, form, i))
    BY DEF Pooled
  <2>2. list[i].name = pool /\ list[i].data = DataAt(m, form, i)
    BY <2>1 DEF File
  <2> QED BY <2>2 DEF OwnName, name_in_pool
<1> HIDE DEF list
<1>4. DOMAIN ps = (1 .. k) \X {1, 2}
  BY <1>2 DEF FilePointers
<1>5. ASSUME NEW i \in 1 .. k
      PROVE  ps[<<i, 1>>] = 0 /\ ps[<<i, 2>>] = DataAt(m, form, i)
  BY <1>2, <1>3 DEF FilePointers
<1>6. ASSUME NEW x \in DOMAIN ps
      PROVE  \E i \in 1 .. k : x = <<i, 1>> \/ x = <<i, 2>>
  BY <1>4
<1> HIDE DEF ps
<1>7. Once(ps)
  <2> SUFFICES ASSUME NEW x \in DOMAIN ps, NEW y \in DOMAIN ps, ps[x] # 0, ps[x] = ps[y]
               PROVE  x = y
    BY DEF Once
  <2>1. PICK i \in 1 .. k : x = <<i, 1>> \/ x = <<i, 2>>
    BY <1>6
  <2>2. PICK j \in 1 .. k : y = <<j, 1>> \/ y = <<j, 2>>
    BY <1>6
  <2>3. x = <<i, 2>> /\ y = <<j, 2>>
    BY <1>5, <2>1, <2>2
  <2>4. DataAt(m, form, i) # 0 /\ DataAt(m, form, i) = DataAt(m, form, j)
    BY <1>5, <2>3
  <2>5. i = j
    BY <2>4, DataDiffers
  <2> QED BY <2>3, <2>5
<1>8. Blocks(ps) = DataBlocks(m, form, k)
  <2>1. ASSUME NEW p \in Blocks(ps)
        PROVE  p \in DataBlocks(m, form, k)
    <3>1. PICK x \in DOMAIN ps : p = ps[x] /\ p # 0
      BY DEF Blocks
    <3>2. PICK i \in 1 .. k : x = <<i, 1>> \/ x = <<i, 2>>
      BY <1>6
    <3>3. p = DataAt(m, form, i)
      BY <1>5, <3>1, <3>2
    <3> QED BY <3>1, <3>3 DEF DataBlocks
  <2>2. ASSUME NEW p \in DataBlocks(m, form, k)
        PROVE  p \in Blocks(ps)
    <3>1. PICK i \in 1 .. k : p = DataAt(m, form, i) /\ p # 0
      BY DEF DataBlocks
    <3>2. <<i, 2>> \in DOMAIN ps /\ ps[<<i, 2>>] = p
      BY <1>4, <1>5, <3>1
    <3> QED BY <3>1, <3>2 DEF Blocks
  <2> QED BY <2>1, <2>2
<1> QED BY <1>2, <1>7, <1>8 DEF FilesOnce, FileBlocks, list, ps

\* k turns of the extraction loop that go well give the data of k files.
LEMMA ExtractedGives ==
  ASSUME NEW m, Fit(m), NEW form \in Forms, NEW k \in Nat
  PROVE  Gives(m, Extracted(m, form, k), DataBlocks(m, form, k))
<1> DEFINE m2 == Extracted(m, form, k)
<1>1. /\ m2.heap = m.heap \cup DataBlocks(m, form, k) /\ m2.next = m.next + Turns(form, k)
      /\ m2.bad = m.bad /\ m2.custom = m.custom
  BY DEF Extracted, Mem, DataBlocks
<1> HIDE DEF m2
<1>2. Turns(form, k) \in Nat
  BY DEF Turns, Forms
<1>3. m2.next \in Nat /\ m2.next >= m.next
  BY <1>1, <1>2 DEF Fit
<1>4. ASSUME NEW p \in DataBlocks(m, form, k)
      PROVE  p \in m.next .. m2.next - 1
  <2>1. PICK i \in 1 .. k : p = DataAt(m, form, i) /\ p # 0
    BY DEF DataBlocks
  <2>2. p \in Nat /\ p >= m.next /\ p < m2.next
    BY <1>1, <2>1, DataDiffers
  <2> QED BY <1>3, <2>1, <2>2 DEF Fit
<1>5. m2.bad \subseteq m.bad \cup (IF m.custom THEN {"foreign"} ELSE {})
  BY <1>1
<1> QED BY <1>1, <1>3, <1>4, <1>5 DEF Gives, Quiet, m2

\* The extraction loop, stopped or not, leaves the files of the turns that went
\* well, and their data is all it gave.
LEMMA AllExtracted ==
  ASSUME NEW o, o.ok, Fit(o.m), o.b.pool \in Nat, NEW n \in Nat, NEW form \in Forms,
         NEW x \in ExtractAll(o, n, form)
  PROVE  /\ x.ok \in BOOLEAN
         /\ \E k \in 0 .. n : /\ x.b = WithFiles(o.b, o.m, form, k)
                              /\ Gives(o.m, x.m, DataBlocks(o.m, form, k))
<1>1. CASE x = Built(TRUE, Extracted(o.m, form, n), WithFiles(o.b, o.m, form, n))
  <2>1. x.ok = TRUE /\ x.m = Extracted(o.m, form, n) /\ x.b = WithFiles(o.b, o.m, form, n)
    BY <1>1 DEF Built
  <2>2. Gives(o.m, x.m, DataBlocks(o.m, form, n))
    BY <2>1, ExtractedGives
  <2>3. n \in 0 .. n
    OBVIOUS
  <2> QED BY <2>1, <2>2, <2>3
<1>2. ASSUME NEW k \in 0 .. n - 1, NEW d \in extract_file_data(Extracted(o.m, form, k), form), ~d.ok,
             x = Built(FALSE, d.m, WithFiles(o.b, o.m, form, k))
      PROVE  /\ x.ok \in BOOLEAN
             /\ \E j \in 0 .. n : /\ x.b = WithFiles(o.b, o.m, form, j)
                                  /\ Gives(o.m, x.m, DataBlocks(o.m, form, j))
  <2> DEFINE m1 == Extracted(o.m, form, k)
             D == DataBlocks(o.m, form, k)
  <2>1. Gives(o.m, m1, D)
    BY ExtractedGives
  <2> HIDE DEF m1, D
  <2>2. Fit(m1)
    BY <2>1, GivesFit
  <2>3. d \in extract_file_data(m1, form)
    BY DEF m1
  <2>4. Gives(m1, d.m, {})
    BY <1>2, <2>2, <2>3, DataExtracted
  <2>5. Gives(o.m, d.m, D \cup {})
    BY <2>1, <2>4, GivesThen
  <2>6. D \cup {} = D
    OBVIOUS
  <2>7. x.ok = FALSE /\ x.m = d.m /\ x.b = WithFiles(o.b, o.m, form, k)
    BY <1>2 DEF Built
  <2>8. k \in 0 .. n
    OBVIOUS
  <2>9. Gives(o.m, x.m, DataBlocks(o.m, form, k))
    BY <2>5, <2>6, <2>7 DEF D
  <2> QED BY <2>7, <2>8, <2>9
<1>3. \/ x = Built(TRUE, Extracted(o.m, form, n), WithFiles(o.b, o.m, form, n))
      \/ \E k \in 0 .. n - 1 : \E d \in extract_file_data(Extracted(o.m, form, k), form) :
            ~d.ok /\ x = Built(FALSE, d.m, WithFiles(o.b, o.m, form, k))
  BY DEF ExtractAll
<1> QED BY <1>1, <1>2, <1>3

\* What a binder looks like once its files were read, or some of them.
Filled(m, x, self, version, files, n) ==
  /\ x.ok \in BOOLEAN
  /\ \E pool \in Nat : \E list :
        /\ x.b = BinderOf(self, version, files, n, list, pool)
        /\ IsList(list) /\ Len(list) <= n
        /\ FilesOnce(list, pool) /\ pool \notin FileBlocks(list, pool)
        /\ Gives(m, x.m, ({pool} \ {0}) \cup FileBlocks(list, pool))

\* Names and data, in either order, fill the binder with a prefix of the files;
\* what was given is what the binder holds, also when the loop or the copy of the
\* names fails.
LEMMA FilesRead ==
  ASSUME NEW m, Fit(m), NEW self, NEW version, NEW files, NEW n \in Nat, NEW named \in BOOLEAN,
         NEW form \in Forms,
         NEW x \in ReadFiles(Built(TRUE, m, BinderOf(self, version, files, n, <<>>, 0)), n, named, form)
  PROVE  Filled(m, x, self, version, files, n)
<1> DEFINE o == Built(TRUE, m, BinderOf(self, version, files, n, <<>>, 0))
<1>0. /\ o.ok = TRUE /\ o.m = m /\ o.b = BinderOf(self, version, files, n, <<>>, 0)
      /\ o.b.self = self /\ o.b.version = version /\ o.b.files = files /\ o.b.cap = n
      /\ o.b.list = <<>> /\ o.b.pool = 0
  BY DEF Built, BinderOf
<1> HIDE DEF o
<1>01. (n > 0 /\ named) \in BOOLEAN
  OBVIOUS
<1>1. CASE kind \in Split
  <2>1. PICK y \in ExtractAll(o, n, form) : x \in CopyNames(y, n, named)
    BY <1>1 DEF ReadFiles, o
  <2>2. y.ok \in BOOLEAN
    BY <1>0, <2>1, AllExtracted
  <2>3. PICK k \in 0 .. n : /\ y.b = WithFiles(o.b, o.m, form, k)
                            /\ Gives(o.m, y.m, DataBlocks(o.m, form, k))
    BY <1>0, <2>1, AllExtracted
  <2> DEFINE D == DataBlocks(m, form, k)
             pl(p) == Pooled(p, m, form, k)
  <2>4. y.b = BinderOf(self, version, files, n, pl(0), 0) /\ Gives(m, y.m, D)
    BY <1>0, <2>3 DEF WithFiles, Pooled
  <2>5. Fit(y.m)
    BY <2>4, GivesFit
  <2>6. ASSUME NEW p \in Nat
        PROVE  IsList(pl(p)) /\ Len(pl(p)) = k /\ FilesOnce(pl(p), p) /\ FileBlocks(pl(p), p) = D
    BY PooledFiles
  <2>7. CASE ~y.ok
    <3>1. x = y
      BY <2>1, <2>7 DEF CopyNames
    <3>2. ({0} \ {0}) \cup FileBlocks(pl(0), 0) = D /\ 0 \notin D
      BY <2>6 DEF DataBlocks
    <3>3. Len(pl(0)) <= n
      BY <2>6
    <3> HIDE DEF pl, D
    <3>4. Gives(m, x.m, ({0} \ {0}) \cup FileBlocks(pl(0), 0))
      BY <2>4, <3>1, <3>2
    <3>5. 0 \in Nat /\ 0 \notin FileBlocks(pl(0), 0) /\ IsList(pl(0)) /\ FilesOnce(pl(0), 0)
      BY <2>6, <3>2
    <3>6. x.ok \in BOOLEAN /\ x.b = BinderOf(self, version, files, n, pl(0), 0)
      BY <2>2, <2>4, <3>1
    <3> QED BY <3>3, <3>4, <3>5, <3>6 DEF Filled
  <2>8. CASE y.ok
    <3>1. PICK p \in bulk_copy_names(y.m, n, named) :
             x = Built(p.ok, p.m, BinderOf(y.b.self, y.b.version, y.b.files, y.b.cap,
                          [i \in DOMAIN y.b.list |-> File(p.p, y.b.list[i].data)], p.p))
      BY <2>1, <2>8 DEF CopyNames
    <3>2. /\ p.ok \in BOOLEAN
          /\ p.ok => Gives(y.m, p.m, {p.p} \ {0}) /\ p.p \in Nat
          /\ ~p.ok => p.m = y.m /\ p.p = 0
      BY <1>01, <2>5, AllocWhen DEF bulk_copy_names
    <3>3. p.p \in Nat /\ Gives(y.m, p.m, {p.p} \ {0})
      <4>1. CASE p.ok
        BY <3>2, <4>1
      <4>2. CASE ~p.ok
        <5>1. {p.p} \ {0} = {}
          BY <3>2, <4>2
        <5>2. Gives(y.m, p.m, {})
          BY <2>5, <3>2, <4>2, GivesSelf
        <5>3. p.p \in Nat
          BY <3>2, <4>2
        <5> QED BY <5>1, <5>2, <5>3
      <4> QED BY <3>2, <4>1, <4>2
    <3>4. [i \in DOMAIN y.b.list |-> File(p.p, y.b.list[i].data)] = pl(p.p)
      <4>1. y.b.list = pl(0)
        BY <2>4, BinderFields
      <4>2. DOMAIN pl(0) = 1 .. k
        BY DEF Pooled
      <4>3. ASSUME NEW i \in 1 .. k
            PROVE  pl(0)[i].data = DataAt(m, form, i)
        BY DEF Pooled, File
      <4> QED BY <4>1, <4>2, <4>3 DEF Pooled
    <3>5. x.ok = p.ok /\ x.m = p.m /\ x.b = BinderOf(self, version, files, n, pl(p.p), p.p)
      <4>1. y.b.self = self /\ y.b.version = version /\ y.b.files = files /\ y.b.cap = n
        BY <2>4, BinderFields
      <4> HIDE DEF pl
      <4> QED BY <3>1, <3>4, <4>1 DEF Built
    <3>6. /\ IsList(pl(p.p)) /\ Len(pl(p.p)) <= n /\ FilesOnce(pl(p.p), p.p)
          /\ FileBlocks(pl(p.p), p.p) = D
      BY <2>6, <3>3
    <3> HIDE DEF pl, D
    <3> DEFINE N == {p.p} \ {0}
    <3>7. Gives(m, p.m, D \cup N) /\ D \cap N = {}
      <4>1. Gives(y.m, p.m, N)
        BY <3>3
      <4> HIDE DEF N
      <4> QED BY <2>4, <4>1, GivesThen
    <3>8. 0 \notin D
      BY <2>4, GivesFit
    <3>9. D \cup N = ({p.p} \ {0}) \cup FileBlocks(pl(p.p), p.p) /\ p.p \notin FileBlocks(pl(p.p), p.p)
      BY <3>6, <3>7, <3>8
    <3> QED BY <3>2, <3>3, <3>5, <3>6, <3>7, <3>9 DEF Filled
  <2> QED BY <2>2, <2>7, <2>8
<1>2. CASE kind \notin Split
  <2>1. PICK y \in CopyNames(o, n, named) : x \in ExtractAll(y, n, form)
    BY <1>2 DEF ReadFiles, o
  <2>2. PICK p \in bulk_copy_names(m, n, named) :
           y = Built(p.ok, p.m, BinderOf(self, version, files, n, [i \in DOMAIN <<>> |-> File(p.p, <<>>[i].data)], p.p))
    <3>1. PICK p \in bulk_copy_names(o.m, n, named) :
             y = Built(p.ok, p.m, BinderOf(o.b.self, o.b.version, o.b.files, o.b.cap,
                                           [i \in DOMAIN o.b.list |-> File(p.p, o.b.list[i].data)], p.p))
      BY <1>0, <2>1 DEF CopyNames
    <3> QED BY <1>0, <3>1
  <2>3. [i \in DOMAIN <<>> |-> File(p.p, <<>>[i].data)] = <<>>
    OBVIOUS
  <2>4. y.ok = p.ok /\ y.m = p.m /\ y.b = BinderOf(self, version, files, n, <<>>, p.p)
    BY <2>2, <2>3 DEF Built
  <2>5. /\ p.ok \in BOOLEAN
        /\ p.ok => Gives(m, p.m, {p.p} \ {0}) /\ p.p \in Nat
        /\ ~p.ok => p.m = m /\ p.p = 0
    BY <1>01, AllocWhen DEF bulk_copy_names
  <2>6. CASE ~p.ok
    <3>1. x = y
      BY <2>1, <2>4, <2>6 DEF ExtractAll
    <3>2. x.ok = p.ok /\ x.b = BinderOf(self, version, files, n, <<>>, 0) /\ x.m = m
      BY <2>4, <2>5, <2>6, <3>1
    <3>3. ({0} \ {0}) \cup FileBlocks(<<>>, 0) = {} /\ 0 \notin FileBlocks(<<>>, 0)
      BY EmptyList
    <3>4. Gives(m, x.m, ({0} \ {0}) \cup FileBlocks(<<>>, 0))
      BY <3>2, <3>3, GivesSelf
    <3>5. 0 \in Nat /\ Len(<<>>) <= n
      BY EmptyList
    <3> QED BY <2>5, <3>2, <3>3, <3>4, <3>5, EmptyList DEF Filled
  <2>7. CASE p.ok
    <3>1. Gives(m, p.m, {p.p} \ {0}) /\ p.p \in Nat
      BY <2>5, <2>7
    <3>2. Fit(p.m)
      BY <3>1, GivesFit
    <3>3. y.ok /\ Fit(y.m) /\ y.b.pool = p.p
      BY <2>4, <2>7, <3>2, BinderFields
    <3>4. x.ok \in BOOLEAN
      BY <2>1, <3>1, <3>3, AllExtracted
    <3>5. PICK k \in 0 .. n : x.b = WithFiles(y.b, y.m, form, k) /\ Gives(y.m, x.m, DataBlocks(y.m, form, k))
      BY <2>1, <3>1, <3>3, AllExtracted
    <3> DEFINE list == Pooled(p.p, p.m, form, k)
               D == DataBlocks(p.m, form, k)
               N == {p.p} \ {0}
    <3>6. x.b = BinderOf(self, version, files, n, list, p.p)
      <4>1. y.b.self = self /\ y.b.version = version /\ y.b.files = files /\ y.b.cap = n /\ y.b.pool = p.p
        BY <2>4, BinderFields
      <4> QED BY <2>4, <3>5, <4>1 DEF WithFiles, Pooled
    <3>7. Gives(p.m, x.m, D)
      BY <2>4, <3>5
    <3>8. IsList(list) /\ Len(list) <= n /\ FilesOnce(list, p.p) /\ FileBlocks(list, p.p) = D
      BY <3>1, <3>2, PooledFiles
    <3> HIDE DEF list, D, N
    <3>9. Gives(m, x.m, N \cup D) /\ N \cap D = {}
      <4>1. Gives(m, p.m, N)
        BY <3>1 DEF N
      <4> QED BY <3>7, <4>1, GivesThen
    <3>10. 0 \notin D
      BY <3>2, <3>7, GivesFit
    <3>11. N \cup D = ({p.p} \ {0}) \cup FileBlocks(list, p.p) /\ p.p \notin FileBlocks(list, p.p)
      BY <3>8, <3>9, <3>10 DEF N
    <3> QED BY <3>1, <3>4, <3>6, <3>8, <3>9, <3>11 DEF Filled
  <2> QED BY <2>5, <2>6, <2>7
<1> QED BY <1>1, <1>2

\* A binder without files holds itself and its version.
LEMMA SmallBinder ==
  ASSUME NEW s \in Nat, NEW v \in Nat, s # v \/ s = 0
  PROVE  LET b == BinderOf(s, v, 0, 0, <<>>, 0)
         IN  IsBinder(b) /\ BinderBlocks(b) = {s, v} \ {0} /\ Len(b.list) = 0
<1> DEFINE b == BinderOf(s, v, 0, 0, <<>>, 0)
<1>1. b.self = s /\ b.version = v /\ b.files = 0 /\ b.cap = 0 /\ b.list = <<>> /\ b.pool = 0
  BY BinderFields
<1>2. b = BinderOf(b.self, b.version, b.files, b.cap, b.list, b.pool)
  BY <1>1
<1> HIDE DEF b
<1>3. FileBlocks(b.list, b.pool) = {} /\ FilesOnce(b.list, b.pool) /\ IsList(b.list) /\ Len(b.list) = 0
  BY <1>1, EmptyList
<1>4. HandleBlocks(b) = {s, v} \ {0}
  BY <1>1 DEF HandleBlocks
<1>5. BinderBlocks(b) = {s, v} \ {0}
  BY <1>3, <1>4 DEF BinderBlocks
<1>6. BinderOnce(b)
  BY <1>1, <1>3 DEF BinderOnce, Differ
<1>7. IsBinder(b)
  BY <1>1, <1>2, <1>3, <1>6 DEF IsBinder
<1> QED BY <1>3, <1>5, <1>7 DEF b

\* A binder made of different blocks holds each once.
LEMMA FullBinder ==
  ASSUME NEW s \in Nat \ {0}, NEW v \in Nat \ {0}, NEW f \in Nat, NEW n \in Nat, NEW list, NEW p \in Nat,
         s # v, f # s, f # v, f # 0 <=> n > 0, p = 0 \/ (p # s /\ p # v /\ p # f),
         IsList(list), Len(list) <= n, FilesOnce(list, p), {s, v, f, p} \cap FileBlocks(list, p) = {}
  PROVE  LET b == BinderOf(s, v, f, n, list, p)
         IN  IsBinder(b) /\ BinderBlocks(b) = ({s, v, f, p} \ {0}) \cup FileBlocks(list, p)
<1> DEFINE b == BinderOf(s, v, f, n, list, p)
<1>1. b.self = s /\ b.version = v /\ b.files = f /\ b.cap = n /\ b.list = list /\ b.pool = p
  BY BinderFields
<1>2. b = BinderOf(b.self, b.version, b.files, b.cap, b.list, b.pool)
  BY <1>1
<1> HIDE DEF b
<1>3. HandleBlocks(b) = {s, v, f, p} \ {0}
  BY <1>1 DEF HandleBlocks
<1>4. BinderOnce(b)
  BY <1>1, <1>3 DEF BinderOnce, Differ
<1>5. IsBinder(b)
  BY <1>1, <1>2, <1>4 DEF IsBinder
<1> QED BY <1>1, <1>3, <1>5 DEF b, BinderBlocks

\* Populating a binder from headers that were read gives it its files, or takes
\* them back, with the pool, the array and the headers: what is live afterwards
\* is what the binder holds.
LEMMA Populated1 ==
  ASSUME NEW m0, Fit(m0), NEW h, NEW s \in Nat \ {0}, NEW v \in Nat \ {0}, NEW n \in Nat,
         NEW named \in BOOLEAN, NEW form \in Forms,
         h.version \in Nat \ {0}, h.headers \in Nat, s # v, s # h.version, s # h.headers,
         v # h.version, v # h.headers, h.version # h.headers,
         Gives(m0, h.m, {s, v, h.version, h.headers} \ {0}),
         NEW p \in PopulateFrom(h, BinderOf(s, v, 0, 0, <<>>, 0), n, named, form)
  PROVE  /\ p.ok \in BOOLEAN
         /\ IsBinder(p.b) /\ Len(p.b.list) <= n
         /\ Gives(m0, p.m, BinderBlocks(p.b))
<1> DEFINE m1 == sf_xfree(h.m, v)
           hv == h.version
           hh == h.headers
           S1 == {s, hv, hh} \ {0}
<1>1. Gives(m0, m1, S1)
  <2>1. v \in ({s, v, hv, hh} \ {0}) \cup {0}
    OBVIOUS
  <2>2. Gives(m0, m1, ({s, v, hv, hh} \ {0}) \ {v})
    BY <2>1, FreeOne
  <2>3. ({s, v, hv, hh} \ {0}) \ {v} = S1
    OBVIOUS
  <2> QED BY <2>2, <2>3
<1>2. PICK f \in AllocIf(n > 0, m1) :
        p \in IF f.ok
              THEN {EndPopulate(x, hh) :
                      x \in ReadFiles(Built(TRUE, f.m, BinderOf(s, hv, f.p, n, <<>>, 0)), n, named, form)}
              ELSE {Built(FALSE, sf_xfree(f.m, hh), BinderOf(s, hv, 0, 0, <<>>, 0))}
  <2> DEFINE b == BinderOf(s, v, 0, 0, <<>>, 0)
  <2>1. b.self = s /\ b.version = v
    BY BinderFields
  <2>2. p \in PopulateFrom(h, b, n, named, form)
    OBVIOUS
  <2> HIDE DEF b
  <2> QED BY <2>1, <2>2 DEF PopulateFrom
<1>3. hv \in Nat \ {0} /\ hh \in Nat /\ s # hv /\ s # hh /\ v # hv /\ v # hh /\ hv # hh
  OBVIOUS
<1> HIDE DEF m1, hv, hh, S1
<1>4. Fit(m1) /\ (n > 0) \in BOOLEAN
  BY <1>1, GivesFit
<1>5. /\ f.ok \in BOOLEAN
      /\ f.ok => Gives(m1, f.m, {f.p} \ {0}) /\ f.p \in Nat /\ (f.p # 0 <=> n > 0)
      /\ ~f.ok => f.m = m1
  BY <1>4, AllocWhen
<1> DEFINE small == BinderOf(s, hv, 0, 0, <<>>, 0)
<1>6. IsBinder(small) /\ BinderBlocks(small) = {s, hv} \ {0} /\ Len(small.list) = 0
  BY <1>3, SmallBinder
<1> HIDE DEF small
<1>7. CASE ~f.ok
  <2>1. p.ok = FALSE /\ p.m = sf_xfree(m1, hh) /\ p.b = small
    BY <1>2, <1>5, <1>7 DEF Built, small
  <2>2. hh \in S1 \cup {0}
    BY DEF S1
  <2>3. Gives(m0, sf_xfree(m1, hh), S1 \ {hh})
    BY <1>1, <2>2, FreeOne
  <2>4. S1 \ {hh} = BinderBlocks(small)
    BY <1>3, <1>6 DEF S1
  <2>5. Len(small.list) <= n
    BY <1>6
  <2> QED BY <1>6, <2>1, <2>3, <2>4, <2>5
<1>8. CASE f.ok
  <2> DEFINE fp == f.p
             F == {fp} \ {0}
  <2>1. Gives(m1, f.m, F) /\ fp \in Nat /\ (fp # 0 <=> n > 0)
    BY <1>5, <1>8
  <2>2. PICK x \in ReadFiles(Built(TRUE, f.m, BinderOf(s, hv, fp, n, <<>>, 0)), n, named, form) :
           p = EndPopulate(x, hh)
    BY <1>2, <1>8
  <2> HIDE DEF fp, F
  <2>3. Gives(m0, f.m, S1 \cup F) /\ S1 \cap F = {}
    BY <1>1, <2>1, GivesThen
  <2>4. Fit(f.m)
    BY <2>3, GivesFit
  <2>5. Filled(f.m, x, s, hv, fp, n)
    BY <2>2, <2>4, FilesRead
  <2>6. PICK pool \in Nat : \E list :
           /\ x.b = BinderOf(s, hv, fp, n, list, pool)
           /\ IsList(list) /\ Len(list) <= n
           /\ FilesOnce(list, pool) /\ pool \notin FileBlocks(list, pool)
           /\ Gives(f.m, x.m, ({pool} \ {0}) \cup FileBlocks(list, pool))
    BY <2>5 DEF Filled
  <2>7. PICK list :
           /\ x.b = BinderOf(s, hv, fp, n, list, pool)
           /\ IsList(list) /\ Len(list) <= n
           /\ FilesOnce(list, pool) /\ pool \notin FileBlocks(list, pool)
           /\ Gives(f.m, x.m, ({pool} \ {0}) \cup FileBlocks(list, pool))
    BY <2>6
  <2> DEFINE FB == FileBlocks(list, pool)
             P == ({pool} \ {0}) \cup FB
             S2 == S1 \cup F
             S3 == S2 \cup P
  <2>8. Gives(m0, x.m, S3) /\ S2 \cap P = {}
    <3>1. Gives(f.m, x.m, P) /\ Gives(m0, f.m, S2)
      BY <2>3, <2>7
    <3> HIDE DEF P, S2
    <3> QED BY <3>1, GivesThen
  <2>9. 0 \notin FB
    BY ZeroNotBlock DEF FileBlocks
  <2>10. /\ fp # s /\ fp # hv /\ (fp = 0 \/ fp # hh)
         /\ pool = 0 \/ (pool # s /\ pool # hv /\ pool # fp /\ pool # hh)
         /\ {s, hv, fp, pool, hh} \cap FB = {}
    BY <1>3, <2>3, <2>7, <2>8, <2>9 DEF S1, F
  <2>11. x.b.list = list /\ x.b.pool = pool /\ x.b.files = fp /\ x.b.self = s /\ x.b.version = hv
    BY <2>7, BinderFields
  <2>12. S3 = ({s, hv, hh, fp, pool} \ {0}) \cup FB
    BY DEF S1, F
  <2> HIDE DEF FB, P, S2, S3
  <2>13. CASE x.ok
    <3>1. p.ok = TRUE /\ p.m = sf_xfree(x.m, hh) /\ p.b = x.b
      BY <2>2, <2>13 DEF EndPopulate, Built
    <3>2. hh \in S3 \cup {0}
      BY <2>12
    <3>3. Gives(m0, sf_xfree(x.m, hh), S3 \ {hh})
      BY <2>8, <3>2, FreeOne
    <3>4. IsBinder(x.b) /\ BinderBlocks(x.b) = ({s, hv, fp, pool} \ {0}) \cup FB
      <4>1. {s, hv, fp, pool} \cap FileBlocks(list, pool) = {}
        BY <2>10 DEF FB
      <4>2. /\ s # hv /\ fp # s /\ fp # hv /\ (fp # 0 <=> n > 0)
            /\ pool = 0 \/ (pool # s /\ pool # hv /\ pool # fp)
            /\ IsList(list) /\ Len(list) <= n /\ FilesOnce(list, pool)
        BY <1>3, <2>1, <2>7, <2>10
      <4>3. hv \in Nat \ {0} /\ fp \in Nat
        BY <1>3, <2>1
      <4> DEFINE full == BinderOf(s, hv, fp, n, list, pool)
      <4>4. IsBinder(full) /\ BinderBlocks(full) = ({s, hv, fp, pool} \ {0}) \cup FileBlocks(list, pool)
        BY <4>1, <4>2, <4>3, FullBinder, SMTT(30)
      <4>5. x.b = full
        BY <2>7
      <4> QED BY <4>4, <4>5 DEF FB
    <3>5. S3 \ {hh} = BinderBlocks(x.b)
      BY <1>3, <2>10, <2>12, <3>4
    <3>6. Len(x.b.list) <= n
      BY <2>7, <2>11
    <3> QED BY <3>1, <3>3, <3>4, <3>5, <3>6
  <2>14. CASE ~x.ok
    <3> DEFINE m2 == FilesFree(x.m, list, pool)
               S4 == S3 \ FB
    <3>1. p.ok = FALSE /\ p.m = Release(m2, <<pool, fp, hh>>) /\ p.b = small
      BY <2>2, <2>11, <2>14 DEF EndPopulate, Built, small
    <3>2. Gives(m0, m2, S4)
      <4>1. FileBlocks(list, pool) \subseteq S3
        BY <2>12 DEF FB
      <4> QED BY <2>7, <2>8, <4>1, FilesFreed DEF FB
    <3>3. {pool, fp, hh} \ {0} \subseteq S4
      BY <2>10, <2>12
    <3>4. Differ(pool, fp) /\ Differ(pool, hh) /\ Differ(fp, hh)
      BY <2>10 DEF Differ
    <3>5. S4 \ {pool, fp, hh} = BinderBlocks(small)
      BY <1>3, <1>6, <2>10, <2>12
    <3> HIDE DEF m2, S4
    <3>6. Gives(m0, Release(m2, <<pool, fp, hh>>), S4 \ {pool, fp, hh})
      BY <3>2, <3>3, <3>4, Released3
    <3>7. Len(small.list) <= n
      BY <1>6
    <3> QED BY <1>6, <3>1, <3>5, <3>6, <3>7
  <2> QED BY <2>5, <2>13, <2>14 DEF Filled
<1> QED BY <1>5, <1>7, <1>8

\* The same from before the headers are read.
LEMMA Populated ==
  ASSUME NEW m0, Fit(m0), NEW m, NEW s \in Nat \ {0}, NEW v \in Nat \ {0}, s # v, NEW n \in Nat,
         NEW named \in BOOLEAN, NEW form \in Forms, Gives(m0, m, {s, v}),
         NEW p \in populate_from_reader(m, BinderOf(s, v, 0, 0, <<>>, 0), n, named, form)
  PROVE  /\ p.ok \in BOOLEAN
         /\ IsBinder(p.b) /\ Len(p.b.list) <= n
         /\ Gives(m0, p.m, BinderBlocks(p.b))
<1> DEFINE b == BinderOf(s, v, 0, 0, <<>>, 0)
<1>1. IsBinder(b) /\ BinderBlocks(b) = {s, v} \ {0} /\ Len(b.list) = 0
  BY SmallBinder
<1> HIDE DEF b
<1>2. PICK h \in read_headers(m, n, named) :
        p \in IF h.ok THEN PopulateFrom(h, b, n, named, form) ELSE {Built(FALSE, h.m, b)}
  BY DEF populate_from_reader, b
<1>3. Fit(m)
  BY GivesFit
<1>4. /\ h.ok \in BOOLEAN
      /\ h.ok => /\ Gives(m, h.m, {h.version, h.headers} \ {0})
                 /\ h.version \in Nat \ {0} /\ h.headers \in Nat /\ h.version # h.headers
      /\ ~h.ok => Gives(m, h.m, {})
  BY <1>3, HeadersRead
<1>5. CASE ~h.ok
  <2>1. p.ok = FALSE /\ p.m = h.m /\ p.b = b
    BY <1>2, <1>5 DEF Built
  <2> DEFINE A == {s, v}
  <2>2. Gives(m0, h.m, A \cup {})
    <3>1. Gives(m0, m, A) /\ Gives(m, h.m, {})
      BY <1>4, <1>5
    <3> HIDE DEF A
    <3> QED BY <3>1, GivesThen
  <2>3. A \cup {} = BinderBlocks(b)
    BY <1>1
  <2>4. Len(b.list) <= n
    BY <1>1
  <2> QED BY <1>1, <2>1, <2>2, <2>3, <2>4
<1>6. CASE h.ok
  <2> DEFINE A == {s, v}
             H == {h.version, h.headers} \ {0}
  <2>1. h.version \in Nat \ {0} /\ h.headers \in Nat /\ h.version # h.headers
    BY <1>4, <1>6
  <2>2. Gives(m0, h.m, A \cup H) /\ A \cap H = {}
    <3>1. Gives(m0, m, A) /\ Gives(m, h.m, H)
      BY <1>4, <1>6
    <3> HIDE DEF A, H
    <3> QED BY <3>1, GivesThen
  <2>3. A \cup H = {s, v, h.version, h.headers} \ {0}
    BY <2>1
  <2>4. s # h.version /\ s # h.headers /\ v # h.version /\ v # h.headers
    BY <2>1, <2>2
  <2>5. Gives(m0, h.m, {s, v, h.version, h.headers} \ {0})
    BY <2>2, <2>3
  <2>6. p \in PopulateFrom(h, BinderOf(s, v, 0, 0, <<>>, 0), n, named, form)
    BY <1>2, <1>6 DEF b
  <2> QED BY <2>1, <2>4, <2>5, <2>6, Populated1
<1> QED BY <1>4, <1>5, <1>6

\* A new binder with the files of the archive, or nothing: the failure path
\* destroys what populating left.
LEMMA BinderRead ==
  ASSUME NEW m, Fit(m), NEW n \in Nat, NEW named \in BOOLEAN, NEW form \in Forms,
         NEW o \in ReadBinder(m, n, named, form)
  PROVE  /\ o.ok \in BOOLEAN
         /\ o.ok => /\ IsBinder(o.b) /\ Len(o.b.list) <= n
                    /\ Gives(m, o.m, BinderBlocks(o.b))
         /\ ~o.ok => Gives(m, o.m, {}) /\ o.b = NoBinder
<1>1. PICK c \in create(m) :
        o \in IF ~c.ok THEN {c}
              ELSE {IF p.ok THEN p ELSE Built(FALSE, destroy(p.m, p.b), NoBinder) :
                      p \in populate_from_reader(c.m, c.b, n, named, form)}
  BY DEF ReadBinder
<1>2. /\ c.ok \in BOOLEAN
      /\ c.ok => \E s, v \in Nat \ {0} :
                       /\ c.b = BinderOf(s, v, 0, 0, <<>>, 0)
                       /\ s # v /\ Gives(m, c.m, {s, v})
      /\ ~c.ok => Gives(m, c.m, {}) /\ c.b = NoBinder
  BY Created
<1>3. CASE ~c.ok
  <2>1. o = c
    BY <1>1, <1>3
  <2> QED BY <1>2, <1>3, <2>1
<1>4. CASE c.ok
  <2>1. PICK s \in Nat \ {0}, v \in Nat \ {0} :
           c.b = BinderOf(s, v, 0, 0, <<>>, 0) /\ s # v /\ Gives(m, c.m, {s, v})
    BY <1>2, <1>4
  <2>2. PICK p \in populate_from_reader(c.m, c.b, n, named, form) :
           o = IF p.ok THEN p ELSE Built(FALSE, destroy(p.m, p.b), NoBinder)
    BY <1>1, <1>4
  <2>3. p \in populate_from_reader(c.m, BinderOf(s, v, 0, 0, <<>>, 0), n, named, form)
    BY <2>1, <2>2
  <2>4. /\ p.ok \in BOOLEAN
        /\ IsBinder(p.b) /\ Len(p.b.list) <= n
        /\ Gives(m, p.m, BinderBlocks(p.b))
    BY <2>1, <2>3, Populated
  <2>5. CASE p.ok
    BY <2>2, <2>4, <2>5
  <2>6. CASE ~p.ok
    <3>1. o.ok = FALSE /\ o.m = destroy(p.m, p.b) /\ o.b = NoBinder
      BY <2>2, <2>6 DEF Built
    <3>2. BinderOnce(p.b) /\ BinderBlocks(p.b) \subseteq BinderBlocks(p.b)
      BY <2>4 DEF IsBinder
    <3>3. Gives(m, destroy(p.m, p.b), BinderBlocks(p.b) \ BinderBlocks(p.b))
      BY <2>4, <3>2, Destroyed
    <3>4. BinderBlocks(p.b) \ BinderBlocks(p.b) = {}
      OBVIOUS
    <3> QED BY <3>1, <3>3, <3>4
  <2> QED BY <2>4, <2>5, <2>6
<1> QED BY <1>2, <1>3, <1>4

(***************************************************************************)
(* Several blocks at once, and the readers of both sides.                  *)
(***************************************************************************)
\* Blocks allocated one after the other are different.
LEMMA RunOnce ==
  ASSUME NEW m, Fit(m), NEW k \in Nat
  PROVE  Once(Run(m, k)) /\ Blocks(Run(m, k)) = m.next .. m.next + k - 1
<1> DEFINE ps == Run(m, k)
           first == m.next
<1>1. DOMAIN ps = 1 .. k /\ \A i \in 1 .. k : ps[i] = first + i - 1
  BY DEF Run
<1>2. first \in Nat \ {0}
  BY DEF Fit
<1> HIDE DEF ps, first
<1>3. Once(ps)
  BY <1>1, <1>2 DEF Once
<1>4. ASSUME NEW p \in first .. first + k - 1
      PROVE  p \in Blocks(ps)
  <2>1. p - first + 1 \in 1 .. k /\ first + (p - first + 1) - 1 = p /\ p # 0
    BY <1>2
  <2>2. ps[p - first + 1] = p
    BY <1>1, <2>1
  <2> QED BY <1>1, <2>1, <2>2 DEF Blocks
<1>5. ASSUME NEW p \in Blocks(ps)
      PROVE  p \in first .. first + k - 1
  BY <1>1, <1>2 DEF Blocks
<1>6. Blocks(ps) = first .. first + k - 1
  BY <1>4, <1>5
<1> QED BY <1>3, <1>6 DEF ps, first

\* n allocations give n blocks, or none: those made before a failure are
\* released.
LEMMA AllAllocated ==
  ASSUME NEW m, Fit(m), NEW n \in Nat, NEW o \in AllocAll(m, n)
  PROVE  /\ o.ok \in BOOLEAN
         /\ o.ok => /\ o.ps = Run(m, n) /\ Once(o.ps) /\ Blocks(o.ps) = m.next .. m.next + n - 1
                    /\ Gives(m, o.m, Blocks(o.ps))
         /\ ~o.ok => Gives(m, o.m, {})
<1>1. CASE o = [ok |-> TRUE, m |-> Taken(m, n), ps |-> Run(m, n)]
  <2>1. o.ok = TRUE /\ o.m = Taken(m, n) /\ o.ps = Run(m, n)
    BY <1>1
  <2>2. Gives(m, o.m, Blocks(o.ps))
    BY <2>1, RunOnce, TakenGives
  <2> QED BY <2>1, <2>2, RunOnce
<1>2. ASSUME NEW k \in 0 .. n - 1, o = [ok |-> FALSE, m |-> Release(Taken(m, k), Run(m, k)), ps |-> <<>>]
      PROVE  o.ok = FALSE /\ Gives(m, o.m, {})
  <2> DEFINE S == m.next .. m.next + k - 1
             ps == Run(m, k)
             m1 == Taken(m, k)
  <2>1. o.ok = FALSE /\ o.m = Release(m1, ps)
    BY <1>2
  <2>2. k \in Nat
    OBVIOUS
  <2>3. Gives(m, m1, S)
    BY <2>2, TakenGives
  <2>4. Once(ps) /\ Blocks(ps) = S
    BY <2>2, RunOnce
  <2> HIDE DEF S, ps, m1
  <2>5. Gives(m, Release(m1, ps), S \ Blocks(ps))
    BY <2>3, <2>4, ReleaseAll
  <2>6. S \ Blocks(ps) = {}
    BY <2>4
  <2> QED BY <2>1, <2>5, <2>6
<1> QED BY <1>1, <1>2 DEF AllocAll

\* There are two sides exactly for BXF3 and BXF4.
LEMMA SidesType == Sides \in {1, 2} /\ (Sides = 2 <=> kind \in Split)
BY DEF Sides

\* The readers of both sides: of a single file the second is none.
IsPair(a, b) ==
  /\ IsBr(a) /\ IsBr(b) /\ BrBlocks(a) \cap BrBlocks(b) = {}
  /\ Sides = 1 => b = NoBr
PairBlocks(a, b) == BrBlocks(a) \cup BrBlocks(b)

\* One reader a side, or none.
LEMMA RawOpened ==
  ASSUME NEW m, Fit(m), NEW x \in OpenRaw(m)
  PROVE  /\ x.ok \in BOOLEAN
         /\ x.ok => /\ IsPair(x.a, x.b) /\ Gives(m, x.m, PairBlocks(x.a, x.b))
                    /\ x.a.self \in x.m.heap
                    /\ Sides = 2 => x.b.self \in x.m.heap
         /\ ~x.ok => Gives(m, x.m, {})
<1>1. PICK s \in AllocAll(m, Sides) :
         x = IF s.ok THEN Pair(TRUE, s.m, Br(s.ps[1], 0), IF Sides = 2 THEN Br(s.ps[2], 0) ELSE NoBr)
             ELSE NoPair(s.m)
  BY DEF OpenRaw
<1>2. Sides \in Nat
  BY SidesType
<1>3. /\ s.ok \in BOOLEAN
      /\ s.ok => /\ s.ps = Run(m, Sides) /\ Once(s.ps) /\ Blocks(s.ps) = m.next .. m.next + Sides - 1
                 /\ Gives(m, s.m, Blocks(s.ps))
      /\ ~s.ok => Gives(m, s.m, {})
  BY <1>2, AllAllocated
<1>4. CASE ~s.ok
  <2>1. x.ok = FALSE /\ x.m = s.m
    BY <1>1, <1>4 DEF NoPair, Pair
  <2> QED BY <1>3, <1>4, <2>1
<1>5. CASE s.ok
  <2>1. x.ok = TRUE /\ x.m = s.m /\ x.a = Br(s.ps[1], 0) /\ x.b = IF Sides = 2 THEN Br(s.ps[2], 0) ELSE NoBr
    BY <1>1, <1>5 DEF Pair
  <2>2. s.ps = Run(m, Sides) /\ Blocks(s.ps) = m.next .. m.next + Sides - 1 /\ Gives(m, s.m, Blocks(s.ps))
    BY <1>3, <1>5
  <2>3. s.ps[1] = m.next /\ (Sides = 2 => s.ps[2] = m.next + 1) /\ m.next \in Nat \ {0}
    BY <2>2, SidesType DEF Run, Fit
  <2>4. CASE Sides = 1
    <3>1. x.a = Br(m.next, 0) /\ x.b = NoBr
      BY <2>1, <2>3, <2>4
    <3>2. IsPair(x.a, x.b)
      BY <2>3, <2>4, <3>1 DEF IsPair, IsBr, BrBlocks, Br, NoBr
    <3>3. PairBlocks(x.a, x.b) = Blocks(s.ps) /\ x.a.self \in Blocks(s.ps)
      BY <2>2, <2>3, <2>4, <3>1 DEF PairBlocks, BrBlocks, Br, NoBr
    <3>4. x.a.self \in x.m.heap
      BY <2>1, <2>2, <3>3 DEF Gives
    <3> QED BY <2>1, <2>2, <2>4, <3>2, <3>3, <3>4
  <2>5. CASE Sides = 2
    <3>1. x.a = Br(m.next, 0) /\ x.b = Br(m.next + 1, 0)
      BY <2>1, <2>3, <2>5
    <3>2. IsPair(x.a, x.b)
      BY <2>3, <2>5, <3>1 DEF IsPair, IsBr, BrBlocks, Br, NoBr
    <3>3. PairBlocks(x.a, x.b) = Blocks(s.ps) /\ x.a.self \in Blocks(s.ps) /\ x.b.self \in Blocks(s.ps)
      BY <2>2, <2>3, <2>5, <3>1 DEF PairBlocks, BrBlocks, Br
    <3>4. x.a.self \in x.m.heap /\ x.b.self \in x.m.heap
      BY <2>1, <2>2, <3>3 DEF Gives
    <3> QED BY <2>1, <2>2, <3>2, <3>3, <3>4
  <2> QED BY <2>4, <2>5, SidesType
<1> QED BY <1>3, <1>4, <1>5

\* The decompressed readers, besides the raw ones: one a side that is a DCX, or
\* nothing on failure.
LEMMA Unpacked ==
  ASSUME NEW m, Fit(m), NEW raw, NEW dcx \in BOOLEAN, raw.a.self \in m.heap,
         Sides = 2 => raw.b.self \in m.heap, Sides = 1 => raw.b = NoBr,
         NEW x \in OpenDecompressed(m, raw, dcx)
  PROVE  /\ x.ok \in BOOLEAN
         /\ x.ok => /\ IsPair(Extra(x.a, raw.a), Extra(x.b, raw.b))
                    /\ Gives(m, x.m, PairBlocks(Extra(x.a, raw.a), Extra(x.b, raw.b)))
         /\ ~x.ok => Gives(m, x.m, {})
<1>1. PICK u \in open_decompressed(m, raw.a, dcx) :
        x \in IF ~u.ok THEN {NoPair(u.m)}
              ELSE IF Sides = 1 THEN {Pair(TRUE, u.m, u.br, NoBr)}
              ELSE {IF w.ok THEN Pair(TRUE, w.m, u.br, w.br)
                    ELSE NoPair(binary_reader_destroy(w.m, Extra(u.br, raw.a))) :
                      w \in open_decompressed(u.m, raw.b, dcx)}
  BY DEF OpenDecompressed
<1> DEFINE A == Extra(u.br, raw.a)
<1>2. /\ u.ok \in BOOLEAN
      /\ u.ok => Gives(m, u.m, BrBlocks(A)) /\ IsBr(A)
      /\ ~u.ok => Gives(m, u.m, {})
  BY OpenOne
<1> HIDE DEF A
<1>3. CASE ~u.ok
  <2>1. x.ok = FALSE /\ x.m = u.m
    BY <1>1, <1>3 DEF NoPair, Pair
  <2> QED BY <1>2, <1>3, <2>1
<1>4. CASE u.ok /\ Sides = 1
  <2>1. x.ok = TRUE /\ x.m = u.m /\ x.a = u.br /\ x.b = NoBr
    BY <1>1, <1>4 DEF Pair
  <2>2. Extra(x.a, raw.a) = A /\ Extra(x.b, raw.b) = NoBr
    BY <1>4, <2>1 DEF Extra, A
  <2>3. PairBlocks(A, NoBr) = BrBlocks(A) /\ IsPair(A, NoBr)
    BY <1>2, <1>4, NoBrIsBr DEF PairBlocks, IsPair
  <2> QED BY <1>2, <1>4, <2>1, <2>2, <2>3
<1>5. CASE u.ok /\ Sides = 2
  <2>0. u.ok /\ Sides # 1
    BY <1>5
  <2>1. PICK w \in open_decompressed(u.m, raw.b, dcx) :
           x = IF w.ok THEN Pair(TRUE, w.m, u.br, w.br)
               ELSE NoPair(binary_reader_destroy(w.m, A))
    <3>1. x \in {IF w.ok THEN Pair(TRUE, w.m, u.br, w.br)
                 ELSE NoPair(binary_reader_destroy(w.m, A)) :
                   w \in open_decompressed(u.m, raw.b, dcx)}
      BY <1>1, <2>0, Zenon DEF A
    <3> QED BY <3>1
  <2>2. Gives(m, u.m, BrBlocks(A)) /\ IsBr(A)
    BY <1>2, <1>5
  <2>3. Fit(u.m) /\ raw.b.self \in u.m.heap
    <3>1. Fit(u.m)
      BY <2>2, GivesFit
    <3>2. raw.b.self \in u.m.heap
      BY <1>5, <2>2 DEF Gives
    <3> QED BY <3>1, <3>2
  <2> DEFINE B == Extra(w.br, raw.b)
  <2>4. /\ w.ok \in BOOLEAN
        /\ w.ok => Gives(u.m, w.m, BrBlocks(B)) /\ IsBr(B)
        /\ ~w.ok => Gives(u.m, w.m, {})
    BY <2>3, OpenOne
  <2> HIDE DEF B
  <2>5. CASE w.ok
    <3>1. x.ok = TRUE /\ x.m = w.m /\ x.a = u.br /\ x.b = w.br
      BY <2>1, <2>5 DEF Pair
    <3>2. Extra(x.a, raw.a) = A /\ Extra(x.b, raw.b) = B
      BY <3>1 DEF A, B
    <3>3. Gives(m, w.m, BrBlocks(A) \cup BrBlocks(B)) /\ BrBlocks(A) \cap BrBlocks(B) = {}
      BY <2>2, <2>4, <2>5, GivesThen
    <3>4. Sides # 1
      BY <1>5
    <3>5. IsPair(A, B)
      BY <2>2, <2>4, <2>5, <3>3, <3>4 DEF IsPair
    <3> QED BY <3>1, <3>2, <3>3, <3>5 DEF PairBlocks
  <2>6. CASE ~w.ok
    <3>1. x.ok = FALSE /\ x.m = binary_reader_destroy(w.m, A)
      BY <2>1, <2>6 DEF NoPair, Pair
    <3>2. Gives(m, w.m, BrBlocks(A) \cup {})
      BY <2>2, <2>4, <2>6, GivesThen
    <3>3. BrBlocks(A) \cup {} = BrBlocks(A)
      OBVIOUS
    <3>4. Gives(m, binary_reader_destroy(w.m, A), BrBlocks(A) \ BrBlocks(A))
      BY <2>2, <3>2, <3>3, DestroyBr
    <3>5. BrBlocks(A) \ BrBlocks(A) = {}
      OBVIOUS
    <3> QED BY <3>1, <3>4, <3>5
  <2> QED BY <2>4, <2>5, <2>6
<1> QED BY <1>2, <1>3, <1>4, <1>5, SidesType

\* Destroying both readers releases their blocks.
LEMMA PairDestroyed ==
  ASSUME NEW m0, NEW m, NEW S, NEW a, NEW b, Fit(m0), Gives(m0, m, S), IsPair(a, b),
         PairBlocks(a, b) \subseteq S
  PROVE  Gives(m0, DestroyReaders(m, a, b), S \ PairBlocks(a, b))
BY DestroyBoth DEF IsPair, PairBlocks

\* Reading a binder, whatever fails, gives the caller the new binder or nothing.
LEMMA ReadFrom ==
  ASSUME NEW m, Fit(m), NEW n \in Nat, NEW named \in BOOLEAN, NEW form \in Forms, NEW dcx \in BOOLEAN,
         NEW o \in read_from(m, n, named, form, dcx)
  PROVE  /\ o.ok \in BOOLEAN
         /\ o.ok => /\ IsBinder(o.b) /\ Len(o.b.list) <= n
                    /\ Gives(m, o.m, BinderBlocks(o.b))
         /\ ~o.ok => Gives(m, o.m, {}) /\ o.b = NoBinder
<1>1. PICK raw \in OpenRaw(m) :
        o \in IF ~raw.ok THEN {Built(FALSE, raw.m, NoBinder)}
              ELSE UNION {IF ~use.ok THEN {Built(FALSE, DestroyReaders(use.m, raw.a, raw.b), NoBinder)}
                          ELSE {Built(q.ok, DestroyReaders(DestroyReaders(q.m, Extra(use.a, raw.a), Extra(use.b, raw.b)),
                                                           raw.a, raw.b), q.b) :
                                  q \in ReadBinder(use.m, n, named, form)}
                          : use \in OpenDecompressed(raw.m, raw, dcx)}
  BY DEF read_from
<1>2. /\ raw.ok \in BOOLEAN
      /\ raw.ok => /\ IsPair(raw.a, raw.b) /\ Gives(m, raw.m, PairBlocks(raw.a, raw.b))
                   /\ raw.a.self \in raw.m.heap
                   /\ Sides = 2 => raw.b.self \in raw.m.heap
      /\ ~raw.ok => Gives(m, raw.m, {})
  BY RawOpened
<1>3. CASE ~raw.ok
  <2>1. o.ok = FALSE /\ o.m = raw.m /\ o.b = NoBinder
    BY <1>1, <1>3 DEF Built
  <2> QED BY <1>2, <1>3, <2>1
<1>4. CASE raw.ok
  <2> DEFINE R == PairBlocks(raw.a, raw.b)
  <2>1. IsPair(raw.a, raw.b) /\ Gives(m, raw.m, R) /\ raw.a.self \in raw.m.heap
        /\ (Sides = 2 => raw.b.self \in raw.m.heap) /\ (Sides = 1 => raw.b = NoBr)
    BY <1>2, <1>4 DEF IsPair
  <2>2. Fit(raw.m)
    BY <2>1, GivesFit
  <2>3. PICK use \in OpenDecompressed(raw.m, raw, dcx) :
        o \in IF ~use.ok THEN {Built(FALSE, DestroyReaders(use.m, raw.a, raw.b), NoBinder)}
              ELSE {Built(q.ok, DestroyReaders(DestroyReaders(q.m, Extra(use.a, raw.a), Extra(use.b, raw.b)),
                                               raw.a, raw.b), q.b) :
                      q \in ReadBinder(use.m, n, named, form)}
    BY <1>1, <1>4
  <2> DEFINE A == Extra(use.a, raw.a)
             B == Extra(use.b, raw.b)
             U == PairBlocks(A, B)
  <2>4. /\ use.ok \in BOOLEAN
        /\ use.ok => IsPair(A, B) /\ Gives(raw.m, use.m, U)
        /\ ~use.ok => Gives(raw.m, use.m, {})
    BY <2>1, <2>2, Unpacked
  <2>5. CASE ~use.ok
    <3> DEFINE m1 == use.m
    <3>1. o.ok = FALSE /\ o.m = DestroyReaders(m1, raw.a, raw.b) /\ o.b = NoBinder
      BY <2>3, <2>5 DEF Built
    <3>2. Gives(m, m1, R \cup {})
      <4>1. Gives(m, raw.m, R) /\ Gives(raw.m, use.m, {})
        BY <2>1, <2>4, <2>5
      <4> HIDE DEF R
      <4> QED BY <4>1, GivesThen
    <3>3. R \cup {} = R
      OBVIOUS
    <3>4. Gives(m, m1, R)
      BY <3>2, <3>3
    <3> HIDE DEF m1
    <3>5. Gives(m, DestroyReaders(m1, raw.a, raw.b), R \ R)
      BY <2>1, <3>4, PairDestroyed
    <3>6. R \ R = {}
      OBVIOUS
    <3> QED BY <3>1, <3>5, <3>6
  <2>6. CASE use.ok
    <3>1. PICK q \in ReadBinder(use.m, n, named, form) :
             o = Built(q.ok, DestroyReaders(DestroyReaders(q.m, A, B), raw.a, raw.b), q.b)
      BY <2>3, <2>6
    <3>2. IsPair(A, B) /\ Gives(raw.m, use.m, U)
      BY <2>4, <2>6
    <3>3. Gives(m, use.m, R \cup U) /\ R \cap U = {}
      <4>1. Gives(m, raw.m, R) /\ Gives(raw.m, use.m, U)
        BY <2>1, <3>2
      <4> HIDE DEF R, U
      <4> QED BY <4>1, GivesThen
    <3>4. Fit(use.m)
      BY <3>3, GivesFit
    <3>5. /\ q.ok \in BOOLEAN
          /\ q.ok => /\ IsBinder(q.b) /\ Len(q.b.list) <= n
                     /\ Gives(use.m, q.m, BinderBlocks(q.b))
          /\ ~q.ok => Gives(use.m, q.m, {}) /\ q.b = NoBinder
      BY <3>4, BinderRead
    <3> DEFINE m1 == DestroyReaders(q.m, A, B)
               m2 == DestroyReaders(m1, raw.a, raw.b)
    <3>6. o.ok = q.ok /\ o.m = m2 /\ o.b = q.b
      BY <3>1 DEF Built
    <3>7. ASSUME NEW X, Gives(use.m, q.m, X)
          PROVE  Gives(m, m2, X)
      <4> HIDE DEF A, B
      <4> DEFINE RU == R \cup U
                 Y == RU \cup X
      <4>1. Gives(m, q.m, Y) /\ RU \cap X = {}
        <5>1. Gives(m, use.m, RU)
          BY <3>3
        <5> HIDE DEF RU
        <5> QED BY <3>7, <5>1, GivesThen
      <4>2. U \subseteq Y /\ R \subseteq Y \ U /\ (Y \ U) \ R = X
        BY <3>3, <4>1
      <4> HIDE DEF Y
      <4>3. Gives(m, m1, Y \ U)
        BY <3>2, <4>1, <4>2, PairDestroyed
      <4> DEFINE Z == Y \ U
      <4> HIDE DEF m1, Z
      <4>4. Gives(m, m1, Z) /\ R \subseteq Z
        BY <4>2, <4>3 DEF Z
      <4>5. Gives(m, m2, Z \ R)
        BY <2>1, <4>4, PairDestroyed
      <4> QED BY <4>2, <4>5 DEF Z
    <3> HIDE DEF m2
    <3> QED BY <3>5, <3>6, <3>7
  <2> QED BY <2>4, <2>5, <2>6
<1> QED BY <1>2, <1>3, <1>4

(***************************************************************************)
(* Streaming readers.                                                      *)
(***************************************************************************)
\* The blocks of a streaming reader: its own, and those of the readers in it.
FieldBlocks(r) == {r.self, r.version, r.headers, r.files, r.pool} \ {0}
ReaderBlocks(r) == FieldBlocks(r) \cup PairBlocks(r.br, r.br2)
\* No block is held by two places of the streaming reader.
ReaderOnce(r) ==
  /\ Differ(r.self, r.version) /\ Differ(r.self, r.headers) /\ Differ(r.self, r.files) /\ Differ(r.self, r.pool)
  /\ Differ(r.version, r.headers) /\ Differ(r.version, r.files) /\ Differ(r.version, r.pool)
  /\ Differ(r.headers, r.files) /\ Differ(r.headers, r.pool) /\ Differ(r.files, r.pool)
  /\ IsBr(r.br) /\ IsBr(r.br2) /\ BrBlocks(r.br) \cap BrBlocks(r.br2) = {}
  /\ FieldBlocks(r) \cap PairBlocks(r.br, r.br2) = {}
\* A handle of sf_*_reader_open or sf_bhd5_open that close can take.
IsReader(r) ==
  /\ r = ReaderOf(r.self, r.version, r.headers, r.files, r.pool, r.count, r.br, r.br2)
  /\ r.self \in Nat /\ r.version \in Nat /\ r.headers \in Nat /\ r.files \in Nat /\ r.pool \in Nat
  /\ r.count \in Nat
  /\ ReaderOnce(r)

\* The fields of a streaming reader.
LEMMA ReaderFields ==
  ASSUME NEW s, NEW v, NEW h, NEW f, NEW p, NEW c, NEW a, NEW b
  PROVE  LET r == ReaderOf(s, v, h, f, p, c, a, b)
         IN  /\ r.self = s /\ r.version = v /\ r.headers = h /\ r.files = f /\ r.pool = p
             /\ r.count = c /\ r.br = a /\ r.br2 = b
BY DEF ReaderOf

\* Closing a streaming reader releases every block of it once.
LEMMA ReaderFreed ==
  ASSUME NEW m0, NEW m, NEW S, NEW r, Fit(m0), Gives(m0, m, S), ReaderOnce(r), ReaderBlocks(r) \subseteq S
  PROVE  Gives(m0, reader_free(m, r), S \ ReaderBlocks(r))
<1> DEFINE ps == <<r.headers, r.files, r.pool, r.version>>
           four == {r.headers, r.files, r.pool, r.version}
           P == PairBlocks(r.br, r.br2)
           m1 == Release(m, ps)
           S1 == S \ four
           m2 == DestroyReaders(m1, r.br, r.br2)
           S2 == S1 \ P
<1>0. 0 \notin S
  BY GivesFit
<1>1. Gives(m0, m1, S1)
  <2>1. /\ Differ(r.headers, r.files) /\ Differ(r.headers, r.pool) /\ Differ(r.headers, r.version)
        /\ Differ(r.files, r.pool) /\ Differ(r.files, r.version) /\ Differ(r.pool, r.version)
    BY DEF ReaderOnce, Differ
  <2>2. four \ {0} \subseteq S
    BY DEF ReaderBlocks, FieldBlocks
  <2> QED BY <2>1, <2>2, Released4
<1>2. Gives(m0, m2, S2)
  <2>1. /\ IsBr(r.br) /\ IsBr(r.br2) /\ BrBlocks(r.br) \cap BrBlocks(r.br2) = {}
        /\ FieldBlocks(r) \cap P = {}
    BY DEF ReaderOnce
  <2>2. 0 \notin P
    BY DEF PairBlocks, BrBlocks
  <2>3. P \subseteq S1
    BY <2>1, <2>2 DEF ReaderBlocks, FieldBlocks
  <2>4. BrBlocks(r.br) \subseteq S1 /\ BrBlocks(r.br2) \subseteq S1
    BY <2>3 DEF PairBlocks
  <2> HIDE DEF m1, S1
  <2> QED BY <1>1, <2>1, <2>4, DestroyBoth DEF PairBlocks
<1>3. r.self \in S2 \cup {0}
  BY DEF ReaderBlocks, FieldBlocks, ReaderOnce, Differ
<1>4. reader_free(m, r) = sf_xfree(m2, r.self)
  BY DEF reader_free
<1>5. S2 \ {r.self} = S \ ReaderBlocks(r)
  BY <1>0 DEF ReaderBlocks, FieldBlocks
<1> HIDE DEF m2, S2
<1>6. Gives(m0, sf_xfree(m2, r.self), S2 \ {r.self})
  BY <1>2, <1>3, FreeOne
<1> QED BY <1>4, <1>5, <1>6

\* Loading a file gives the reader the handle keeps, with its buffer; of a DCX
\* the raw buffer is already released with the raw reader, although its address
\* is still known.
LEMMA FileLoaded ==
  ASSUME NEW m, Fit(m), NEW dcx \in BOOLEAN, NEW l \in load_file(m, dcx)
  PROVE  /\ l.ok \in BOOLEAN
         /\ l.ok => /\ IsBr(l.br) /\ Gives(m, l.m, BrBlocks(l.br))
                    /\ dcx => l.raw \in m.next .. l.m.next - 1 /\ l.raw \notin BrBlocks(l.br)
         /\ ~l.ok => Gives(m, l.m, {})
<1>1. PICK b \in sf_xalloc(m) :
        l \in IF ~b.ok THEN {NotLoaded(b.m)}
              ELSE {NotLoaded(sf_xfree(b.m, b.p))}
                   \cup UNION {IF c.ok THEN Unwrap(c, b.p, dcx) ELSE {NotLoaded(sf_xfree(c.m, b.p))}
                               : c \in create_from_memory(b.m, b.p)}
  BY DEF load_file
<1>2. /\ b.ok \in BOOLEAN
      /\ b.ok => Gives(m, b.m, {b.p}) /\ b.p \in Nat \ {0}
      /\ ~b.ok => b.m = m
  BY Alloc
<1>3. CASE ~b.ok
  <2>1. l.ok = FALSE /\ l.m = m
    BY <1>1, <1>2, <1>3 DEF NotLoaded, Loaded
  <2> QED BY <2>1, GivesSelf
<1>4. CASE b.ok
  <2> DEFINE p1 == b.p
             B == {p1}
  <2>1. Gives(m, b.m, B) /\ p1 \in Nat \ {0}
    BY <1>2, <1>4
  <2>2. Fit(b.m)
    BY <2>1, GivesFit
  <2>3. Gives(m, sf_xfree(b.m, p1), {})
    <3>1. {p1} \ {0} = {p1}
      BY <2>1
    <3> QED BY <2>1, <3>1, FreeLast
  <2>4. CASE l = NotLoaded(sf_xfree(b.m, p1))
    <3>1. l.ok = FALSE /\ l.m = sf_xfree(b.m, p1)
      BY <2>4 DEF NotLoaded, Loaded
    <3> QED BY <2>3, <3>1
  <2>5. ASSUME NEW c \in create_from_memory(b.m, p1),
               l \in IF c.ok THEN Unwrap(c, p1, dcx) ELSE {NotLoaded(sf_xfree(c.m, p1))}
        PROVE  /\ l.ok \in BOOLEAN
               /\ l.ok => /\ IsBr(l.br) /\ Gives(m, l.m, BrBlocks(l.br))
                          /\ dcx => l.raw \in m.next .. l.m.next - 1 /\ l.raw \notin BrBlocks(l.br)
               /\ ~l.ok => Gives(m, l.m, {})
    <3>1. /\ c.ok \in BOOLEAN
          /\ c.ok => /\ Gives(b.m, c.m, {c.br.self}) /\ c.br.self \in Nat \ {0}
                     /\ c.br = Br(c.br.self, p1)
          /\ ~c.ok => c.m = b.m
      <4>1. p1 \in Nat
        BY <2>1
      <4> HIDE DEF p1
      <4> QED BY <2>2, <2>5, <4>1, FromMemory
    <3>2. CASE ~c.ok
      <4>1. l.ok = FALSE /\ l.m = sf_xfree(b.m, p1)
        BY <2>5, <3>1, <3>2 DEF NotLoaded, Loaded
      <4> QED BY <2>3, <4>1
    <3>3. CASE c.ok
      <4> DEFINE C == {c.br.self}
                 X == BrBlocks(c.br)
      <4>1. Gives(b.m, c.m, C) /\ c.br.self \in Nat \ {0} /\ c.br = Br(c.br.self, p1)
        BY <3>1, <3>3
      <4>2. Gives(m, c.m, B \cup C) /\ B \cap C = {}
        <5> HIDE DEF B, C
        <5> QED BY <2>1, <4>1, GivesThen
      <4>3. c.br.buf = p1 /\ c.br \in [self : Nat, buf : Nat]
        BY <2>1, <4>1 DEF Br
      <4>4. IsBr(c.br) /\ X = B \cup C /\ c.br.self # 0
        BY <2>1, <4>1, <4>2, <4>3 DEF IsBr, BrBlocks
      <4>5. Gives(m, c.m, X)
        BY <4>2, <4>4
      <4>6. Fit(c.m) /\ c.br.self \in c.m.heap
        <5>1. Fit(c.m)
          BY <4>5, GivesFit
        <5>2. c.br.self \in c.m.heap
          BY <4>2 DEF Gives
        <5> QED BY <5>1, <5>2
      <4>7. PICK u \in open_decompressed(c.m, c.br, dcx) :
              l = IF ~u.ok THEN NotLoaded(binary_reader_destroy(u.m, c.br))
                  ELSE Loaded(TRUE, IF u.br # c.br THEN binary_reader_destroy(u.m, c.br) ELSE u.m, u.br, p1)
        BY <2>5, <3>3 DEF Unwrap
      <4> DEFINE E == Extra(u.br, c.br)
      <4>8. /\ u.ok \in BOOLEAN
            /\ u.ok => /\ Gives(c.m, u.m, BrBlocks(E)) /\ IsBr(E)
                       /\ dcx => u.br # c.br /\ IsBr(u.br) /\ u.br.self # 0
                       /\ ~dcx => u.br = c.br
            /\ ~u.ok => Gives(c.m, u.m, {})
        BY <4>6, OpenOne
      <4>9. ASSUME NEW T, Gives(c.m, u.m, T)
            PROVE  Gives(m, binary_reader_destroy(u.m, c.br), T) /\ X \cap T = {} /\ Gives(m, u.m, X \cup T)
        <5> HIDE DEF X
        <5>1. Gives(m, u.m, X \cup T) /\ X \cap T = {}
          BY <4>5, <4>9, GivesThen
        <5> DEFINE XT == X \cup T
        <5>2. X \subseteq XT /\ XT \ X = T
          BY <5>1
        <5> HIDE DEF XT
        <5>3. Gives(m, binary_reader_destroy(u.m, c.br), XT \ BrBlocks(c.br))
          BY <4>4, <5>1, <5>2, DestroyBr DEF X, XT
        <5> QED BY <5>1, <5>2, <5>3 DEF X
      <4>10. CASE ~u.ok
        <5>1. l.ok = FALSE /\ l.m = binary_reader_destroy(u.m, c.br)
          BY <4>7, <4>10 DEF NotLoaded, Loaded
        <5> QED BY <4>8, <4>9, <4>10, <5>1
      <4>11. CASE u.ok /\ dcx
        <5>1. u.br # c.br /\ IsBr(u.br) /\ E = u.br
          BY <4>8, <4>11 DEF Extra
        <5>2. l.ok = TRUE /\ l.m = binary_reader_destroy(u.m, c.br) /\ l.br = u.br /\ l.raw = p1
          BY <4>7, <4>11, <5>1 DEF Loaded
        <5>3. Gives(c.m, u.m, BrBlocks(u.br))
          BY <4>8, <4>11, <5>1
        <5>4. /\ Gives(m, l.m, BrBlocks(l.br)) /\ X \cap BrBlocks(l.br) = {}
              /\ Gives(m, u.m, X \cup BrBlocks(u.br))
          BY <4>9, <5>2, <5>3
        <5>5. p1 \in X
          BY <4>4
        <5>6. l.raw \notin BrBlocks(l.br)
          BY <5>2, <5>4, <5>5
        <5>7. l.raw \in m.next .. l.m.next - 1
          <6>1. p1 \in m.next .. u.m.next - 1
            BY <5>4, <5>5 DEF Gives
          <6>2. l.m.next = u.m.next
            BY <5>2 DEF binary_reader_destroy, Release, Mem
          <6> QED BY <5>2, <6>1, <6>2
        <5> QED BY <5>1, <5>2, <5>4, <5>6, <5>7
      <4>12. CASE u.ok /\ ~dcx
        <5>1. u.br = c.br
          BY <4>8, <4>12
        <5>2. l.ok = TRUE /\ l.m = u.m /\ l.br = c.br
          BY <4>7, <4>12, <5>1 DEF Loaded
        <5>3. BrBlocks(E) = {}
          BY <5>1, NoBrIsBr DEF Extra
        <5>4. Gives(c.m, u.m, {})
          BY <4>8, <4>12, <5>3
        <5>5. Gives(m, u.m, X \cup {}) /\ X \cup {} = X
          BY <4>9, <5>4
        <5>6. Gives(m, l.m, BrBlocks(l.br))
          BY <5>2, <5>5
        <5> QED BY <4>4, <4>12, <5>2, <5>6
      <4> QED BY <4>8, <4>10, <4>11, <4>12
    <3> QED BY <3>1, <3>2, <3>3
  <2> QED BY <1>1, <1>4, <2>4, <2>5
<1> QED BY <1>2, <1>3, <1>4

\* The second release of raw_buf in BND3, of a block that is gone: it changes no
\* heap, and is the only misuse but for the foreign release.
OpenGives(m, m2, S, dcx) ==
  /\ m2.next \in Nat /\ m2.next >= m.next
  /\ m2.heap = m.heap \cup S
  /\ S \subseteq m.next .. m2.next - 1
  /\ m2.bad \subseteq m.bad \cup (IF m.custom THEN {"foreign"} ELSE {})
                         \cup (IF kind = "bnd3" /\ dcx THEN {"twice"} ELSE {})

\* The buffer of a compressed BND3, released since m and not among S.
RawGone(m, m2, S, raw, dcx) ==
  kind = "bnd3" /\ dcx => raw \in m.next .. m2.next - 1 /\ raw \notin S

\* What BND3 does with that address at the end: on a compressed file a second
\* release, which changes no heap.
LEMMA RawFreed ==
  ASSUME NEW m, Fit(m), NEW m2, NEW S, NEW x, NEW dcx \in BOOLEAN, Gives(m, m2, S),
         RawGone(m, m2, S, x.raw, dcx)
  PROVE  OpenGives(m, FreeRaw(m2, x, dcx), S, dcx)
<1>1. CASE kind = "bnd3" /\ dcx
  <2> DEFINE m3 == sf_xfree(m2, x.raw)
  <2>1. FreeRaw(m2, x, dcx) = m3
    BY <1>1 DEF FreeRaw
  <2>2. x.raw \in m.next .. m2.next - 1 /\ x.raw \notin S
    BY <1>1 DEF RawGone
  <2>3. x.raw \notin m2.heap
    BY <2>2 DEF Gives, Fit
  <2>4. m3.heap = m2.heap /\ m3.next = m2.next /\ m3.bad \subseteq m2.bad \cup {"twice"}
    BY <2>3 DEF sf_xfree, Mem
  <2> HIDE DEF m3
  <2>5. m3.bad \subseteq m.bad \cup (IF m.custom THEN {"foreign"} ELSE {})
                             \cup (IF kind = "bnd3" /\ dcx THEN {"twice"} ELSE {})
    BY <1>1, <2>4 DEF Gives, Quiet
  <2> QED BY <2>1, <2>4, <2>5 DEF Gives, OpenGives
<1>2. CASE ~(kind = "bnd3" /\ dcx)
  <2>1. FreeRaw(m2, x, dcx) = m2
    BY <1>2 DEF FreeRaw
  <2>2. m2.bad \subseteq m.bad \cup (IF m.custom THEN {"foreign"} ELSE {})
                             \cup (IF kind = "bnd3" /\ dcx THEN {"twice"} ELSE {})
    BY DEF Gives, Quiet
  <2> QED BY <2>1, <2>2 DEF Gives, OpenGives
<1> QED BY <1>1, <1>2

\* An operation without misuse keeps the weaker contract of opening.
LEMMA QuietOpen ==
  ASSUME NEW m, NEW m2, NEW S, NEW dcx, Gives(m, m2, S)
  PROVE  OpenGives(m, m2, S, dcx)
<1>1. m2.bad \subseteq m.bad \cup (IF m.custom THEN {"foreign"} ELSE {})
                             \cup (IF kind = "bnd3" /\ dcx THEN {"twice"} ELSE {})
  BY DEF Gives, Quiet
<1> QED BY <1>1 DEF Gives, OpenGives

\* The files of both sides are loaded, or nothing is.
LEMMA FilesLoaded ==
  ASSUME NEW m, Fit(m), NEW dcx \in BOOLEAN, NEW x \in LoadFiles(m, dcx)
  PROVE  /\ x.ok \in BOOLEAN
         /\ x.ok => /\ IsPair(x.a, x.b) /\ Gives(m, x.m, PairBlocks(x.a, x.b))
                    /\ RawGone(m, x.m, PairBlocks(x.a, x.b), x.raw, dcx)
         /\ ~x.ok => Gives(m, x.m, {})
<1>1. PICK l \in load_file(m, dcx) :
        x \in IF ~l.ok THEN {NoFiles(l.m)}
              ELSE IF Sides = 1 THEN {Files(TRUE, l.m, l.br, NoBr, l.raw)}
              ELSE {IF k.ok THEN Files(TRUE, k.m, l.br, k.br, l.raw)
                    ELSE NoFiles(binary_reader_destroy(k.m, l.br)) : k \in load_file(l.m, dcx)}
  BY DEF LoadFiles
<1>2. /\ l.ok \in BOOLEAN
      /\ l.ok => /\ IsBr(l.br) /\ Gives(m, l.m, BrBlocks(l.br))
                 /\ dcx => l.raw \in m.next .. l.m.next - 1 /\ l.raw \notin BrBlocks(l.br)
      /\ ~l.ok => Gives(m, l.m, {})
  BY FileLoaded
<1>3. CASE ~l.ok
  <2>1. x.ok = FALSE /\ x.m = l.m
    BY <1>1, <1>3 DEF NoFiles, Files
  <2> QED BY <1>2, <1>3, <2>1
<1>4. CASE l.ok /\ Sides = 1
  <2>1. x.ok = TRUE /\ x.m = l.m /\ x.a = l.br /\ x.b = NoBr /\ x.raw = l.raw
    BY <1>1, <1>4 DEF Files
  <2>2. PairBlocks(x.a, x.b) = BrBlocks(l.br) /\ IsPair(x.a, x.b)
    BY <1>2, <1>4, <2>1, NoBrIsBr DEF PairBlocks, IsPair
  <2>3. RawGone(m, x.m, PairBlocks(x.a, x.b), x.raw, dcx)
    BY <1>2, <1>4, <2>1, <2>2 DEF RawGone
  <2> QED BY <1>2, <1>4, <2>1, <2>2, <2>3
<1>5. CASE l.ok /\ Sides = 2
  <2>0. l.ok /\ Sides # 1 /\ kind # "bnd3"
    BY <1>5, SidesType DEF Split
  <2>1. PICK k \in load_file(l.m, dcx) :
           x = IF k.ok THEN Files(TRUE, k.m, l.br, k.br, l.raw)
               ELSE NoFiles(binary_reader_destroy(k.m, l.br))
    BY <1>1, <2>0
  <2>2. IsBr(l.br) /\ Gives(m, l.m, BrBlocks(l.br))
    BY <1>2, <1>5
  <2>3. Fit(l.m)
    BY <2>2, GivesFit
  <2>4. /\ k.ok \in BOOLEAN
        /\ k.ok => IsBr(k.br) /\ Gives(l.m, k.m, BrBlocks(k.br))
        /\ ~k.ok => Gives(l.m, k.m, {})
    BY <2>3, FileLoaded
  <2>5. CASE k.ok
    <3>1. x.ok = TRUE /\ x.m = k.m /\ x.a = l.br /\ x.b = k.br
      BY <2>1, <2>5 DEF Files
    <3>2. Gives(m, k.m, BrBlocks(l.br) \cup BrBlocks(k.br)) /\ BrBlocks(l.br) \cap BrBlocks(k.br) = {}
      BY <2>2, <2>4, <2>5, GivesThen
    <3>3. IsPair(x.a, x.b)
      BY <2>0, <2>2, <2>4, <2>5, <3>1, <3>2 DEF IsPair
    <3>4. RawGone(m, x.m, PairBlocks(x.a, x.b), x.raw, dcx)
      BY <2>0 DEF RawGone
    <3> QED BY <3>1, <3>2, <3>3, <3>4 DEF PairBlocks
  <2>6. CASE ~k.ok
    <3>1. x.ok = FALSE /\ x.m = binary_reader_destroy(k.m, l.br)
      BY <2>1, <2>6 DEF NoFiles, Files
    <3> DEFINE L == BrBlocks(l.br)
    <3>2. Gives(m, k.m, L \cup {})
      <4>1. Gives(m, l.m, L) /\ Gives(l.m, k.m, {})
        BY <2>2, <2>4, <2>6
      <4> HIDE DEF L
      <4> QED BY <4>1, GivesThen
    <3>3. L \cup {} = L /\ L \ L = {}
      OBVIOUS
    <3>4. Gives(m, binary_reader_destroy(k.m, l.br), L \ L)
      BY <2>2, <3>2, <3>3, DestroyBr
    <3> QED BY <3>1, <3>3, <3>4
  <2> QED BY <2>4, <2>5, <2>6
<1> QED BY <1>2, <1>3, <1>4, <1>5, SidesType

\* The files x that a reader is opened on, loaded since m.
IsLoaded(m, x, dcx) ==
  /\ IsPair(x.a, x.b) /\ Gives(m, x.m, PairBlocks(x.a, x.b))
  /\ RawGone(m, x.m, PairBlocks(x.a, x.b), x.raw, dcx)

\* The label cleanup_brs: the readers are released.
LEMMA BrsCleaned ==
  ASSUME NEW m, Fit(m), NEW x, NEW dcx \in BOOLEAN, IsLoaded(m, x, dcx),
         NEW m2, Gives(m, m2, PairBlocks(x.a, x.b)), m2.next >= x.m.next
  PROVE  OpenGives(m, cleanup_brs(m2, x, dcx), {}, dcx)
<1> DEFINE P == PairBlocks(x.a, x.b)
           m3 == DestroyReaders(m2, x.a, x.b)
<1>1. Gives(m, m3, P \ P)
  BY PairDestroyed DEF IsLoaded
<1>2. P \ P = {}
  OBVIOUS
<1>3. Gives(m, m3, {})
  BY <1>1, <1>2
<1>4. m3.next = m2.next
  BY DEF DestroyReaders, binary_reader_destroy, Release, Mem
<1>5. cleanup_brs(m2, x, dcx) = FreeRaw(m3, x, dcx)
  BY DEF cleanup_brs
<1>6. x.m.next \in Int /\ m2.next \in Int /\ m.next \in Int
  BY DEF IsLoaded, Gives, Fit
<1>7. RawGone(m, m3, {}, x.raw, dcx)
  BY <1>4, <1>6 DEF RawGone, IsLoaded
<1> HIDE DEF m3
<1> QED BY <1>3, <1>5, <1>7, RawFreed

\* The label cleanup_rd: everything is released, but for BND4, where the reader
\* of the file is lost.
LEMMA RdCleaned ==
  ASSUME NEW m, Fit(m), NEW x, NEW dcx \in BOOLEAN, IsLoaded(m, x, dcx), NEW r, ReaderOnce(r),
         NEW m2, Gives(x.m, m2, ReaderBlocks(r))
  PROVE  \E L : OpenGives(m, cleanup_rd(m2, r, x, dcx), L, dcx) /\ (kind # "bnd4" => L = {})
<1> DEFINE P == PairBlocks(x.a, x.b)
           R == ReaderBlocks(r)
           m3 == reader_free(m2, r)
<1>1. Gives(m, m2, P \cup R) /\ P \cap R = {}
  <2>1. Gives(m, x.m, P) /\ Gives(x.m, m2, R)
    BY DEF IsLoaded
  <2> HIDE DEF P, R
  <2> QED BY <2>1, GivesThen
<1>2. Gives(m, m3, P)
  <2> DEFINE PR == P \cup R
  <2>1. R \subseteq PR /\ PR \ R = P
    BY <1>1
  <2>2. Gives(m, m2, PR)
    BY <1>1
  <2> HIDE DEF PR
  <2>3. Gives(m, m3, PR \ R)
    BY <2>1, <2>2, ReaderFreed
  <2> QED BY <2>1, <2>3
<1>3. m3.next = m2.next
  BY DEF reader_free, sf_xfree, DestroyReaders, binary_reader_destroy, Release, Mem
<1>4. m3.next >= x.m.next
  BY <1>3 DEF Gives
<1>5. CASE kind = "bnd4"
  <2>1. cleanup_rd(m2, r, x, dcx) = m3
    BY <1>5 DEF cleanup_rd
  <2>2. OpenGives(m, m3, P, dcx)
    BY <1>2, QuietOpen
  <2> QED BY <1>5, <2>1, <2>2
<1>6. CASE kind # "bnd4"
  <2>1. cleanup_rd(m2, r, x, dcx) = cleanup_brs(m3, x, dcx)
    BY <1>6 DEF cleanup_rd
  <2> HIDE DEF m3
  <2>2. OpenGives(m, cleanup_brs(m3, x, dcx), {}, dcx)
    BY <1>2, <1>4, BrsCleaned
  <2> QED BY <2>1, <2>2
<1> QED BY <1>5, <1>6

\* Five fields of a handle that share no block, and none with the readers a, b.
Apart(s, v, h, f, p) ==
  /\ s \in Nat \ {0} /\ v \in Nat /\ h \in Nat /\ f \in Nat /\ p \in Nat
  /\ s # v /\ s # h /\ s # f /\ s # p /\ Differ(v, h) /\ Differ(v, f) /\ Differ(v, p)
  /\ Differ(h, f) /\ Differ(h, p) /\ Differ(f, p)
FiveBlocks(s, v, h, f, p) == {s, v, h, f, p} \ {0}
TwoReaders(a, b) == IsBr(a) /\ IsBr(b) /\ BrBlocks(a) \cap BrBlocks(b) = {}
NoneShared(S, T) == S \cap T = {}

\* A streaming reader made of different blocks holds each once.
LEMMA ReaderMade ==
  ASSUME NEW s, NEW v, NEW h, NEW f, NEW p, NEW c \in Nat, NEW a, NEW b,
         Apart(s, v, h, f, p), TwoReaders(a, b), NoneShared(FiveBlocks(s, v, h, f, p), PairBlocks(a, b))
  PROVE  /\ IsReader(ReaderOf(s, v, h, f, p, c, a, b))
         /\ ReaderBlocks(ReaderOf(s, v, h, f, p, c, a, b)) = FiveBlocks(s, v, h, f, p) \cup PairBlocks(a, b)
<1> DEFINE r == ReaderOf(s, v, h, f, p, c, a, b)
<1>1. /\ r.self = s /\ r.version = v /\ r.headers = h /\ r.files = f /\ r.pool = p
      /\ r.count = c /\ r.br = a /\ r.br2 = b
  BY ReaderFields
<1>2. r = ReaderOf(r.self, r.version, r.headers, r.files, r.pool, r.count, r.br, r.br2)
  BY <1>1
<1> HIDE DEF r
<1>3. FieldBlocks(r) = FiveBlocks(s, v, h, f, p)
  BY <1>1 DEF FieldBlocks, FiveBlocks
<1>4. ReaderOnce(r)
  BY <1>1, <1>3 DEF ReaderOnce, Differ, Apart, TwoReaders, NoneShared
<1>5. IsReader(r)
  BY <1>1, <1>2, <1>4 DEF IsReader, Apart
<1> QED BY <1>1, <1>3, <1>5 DEF r, ReaderBlocks

\* What opening a reader may end with.
HandleOrNothing(m, o, dcx) ==
  /\ o.ok \in BOOLEAN
  /\ o.ok => IsReader(o.r) /\ OpenGives(m, o.m, ReaderBlocks(o.r), dcx)
  /\ ~o.ok => /\ o.r = NoReader
              /\ \E L : OpenGives(m, o.m, L, dcx) /\ (kind # "bnd4" => L = {})

\* The last part of opening, from the headers on: a handle, or nothing but the
\* block BND4 loses.
LEMMA ReaderFilled ==
  ASSUME NEW m, Fit(m), NEW x, NEW dcx \in BOOLEAN, IsLoaded(m, x, dcx), NEW rd \in Nat \ {0}, NEW h,
         h.version \in Nat \ {0}, h.headers \in Nat, h.version # h.headers,
         rd # h.version, rd # h.headers, Gives(x.m, h.m, {rd, h.version, h.headers} \ {0}),
         NEW n \in Nat, NEW named \in BOOLEAN,
         NEW o \in FillReader(rd, h, x, n, named, dcx)
  PROVE  HandleOrNothing(m, o, dcx)
<1> DEFINE hv == h.version
           hh == h.headers
           P == PairBlocks(x.a, x.b)
           S0 == {rd, hv, hh} \ {0}
           r0(f) == ReaderOf(rd, hv, hh, f.p, 0, n, NoBr, NoBr)
<1>1. PICK f \in AllocIf(n > 0, h.m) :
        o \in IF ~f.ok THEN {NoHandle(cleanup_rd(f.m, r0(f), x, dcx))}
              ELSE {IF p.ok THEN Handle(TRUE, FreeRaw(p.m, x, dcx), ReaderOf(rd, hv, hh, f.p, p.p, n, x.a, x.b))
                    ELSE NoHandle(cleanup_rd(p.m, r0(f), x, dcx)) : p \in bulk_copy_names(f.m, n, named)}
  BY DEF FillReader
<1>2. /\ Fit(x.m) /\ Gives(m, x.m, P) /\ IsPair(x.a, x.b)
      /\ Gives(x.m, h.m, S0) /\ hv \in Nat \ {0} /\ hh \in Nat /\ hv # hh /\ rd # hv /\ rd # hh
  <2>1. Gives(m, x.m, P) /\ IsPair(x.a, x.b)
    BY DEF IsLoaded
  <2> HIDE DEF P
  <2>2. Fit(x.m)
    BY <2>1, GivesFit
  <2> QED BY <2>1, <2>2
<1>3. Fit(h.m)
  <2> HIDE DEF S0
  <2> QED BY <1>2, GivesFit
<1> HIDE DEF hv, hh, r0, P
<1>4. /\ f.ok \in BOOLEAN
      /\ f.ok => Gives(h.m, f.m, {f.p} \ {0}) /\ f.p \in Nat
      /\ ~f.ok => f.m = h.m /\ f.p = 0
  <2>1. (n > 0) \in BOOLEAN
    OBVIOUS
  <2> QED BY <1>3, <2>1, AllocWhen
<1> DEFINE fp == f.p
           F == {fp} \ {0}
           S1 == S0 \cup F
<1>5. fp \in Nat /\ Gives(x.m, f.m, S1) /\ S0 \cap F = {}
  <2>1. fp \in Nat /\ Gives(h.m, f.m, F)
    <3>1. CASE f.ok
      BY <1>4, <3>1
    <3>2. CASE ~f.ok
      <4>1. fp \in Nat /\ F = {} /\ f.m = h.m
        BY <1>4, <3>2
      <4> QED BY <1>3, <4>1, GivesSelf
    <3> QED BY <1>4, <3>1, <3>2
  <2> HIDE DEF F, S0
  <2> QED BY <1>2, <2>1, GivesThen
<1>6. Fit(f.m)
  <2> HIDE DEF S1
  <2> QED BY <1>2, <1>5, GivesFit
<1>7. fp = 0 \/ (fp # rd /\ fp # hv /\ fp # hh)
  BY <1>5
<1>8. IsReader(r0(f)) /\ ReaderBlocks(r0(f)) = S1
  <2>1. Apart(rd, hv, hh, fp, 0)
    BY <1>2, <1>5, <1>7 DEF Apart, Differ
  <2>2. PairBlocks(NoBr, NoBr) = {} /\ TwoReaders(NoBr, NoBr)
    BY NoBrIsBr DEF PairBlocks, TwoReaders
  <2>3. NoneShared(FiveBlocks(rd, hv, hh, fp, 0), PairBlocks(NoBr, NoBr))
    BY <2>2 DEF NoneShared
  <2>4. FiveBlocks(rd, hv, hh, fp, 0) \cup PairBlocks(NoBr, NoBr) = S1
    BY <2>2 DEF FiveBlocks
  <2> HIDE DEF fp
  <2> DEFINE r == ReaderOf(rd, hv, hh, fp, 0, n, NoBr, NoBr)
  <2>5. IsReader(r) /\ ReaderBlocks(r) = FiveBlocks(rd, hv, hh, fp, 0) \cup PairBlocks(NoBr, NoBr)
    BY <2>1, <2>2, <2>3, ReaderMade
  <2>6. r0(f) = r
    BY DEF r0, fp
  <2> QED BY <2>4, <2>5, <2>6
<1>9. ReaderOnce(r0(f))
  BY <1>8 DEF IsReader
<1>10. ASSUME NEW m2, Gives(f.m, m2, {}), o = NoHandle(cleanup_rd(m2, r0(f), x, dcx))
       PROVE  HandleOrNothing(m, o, dcx)
  <2>1. Gives(x.m, m2, S1)
    <3> HIDE DEF S1
    <3>1. Gives(x.m, m2, S1 \cup {})
      BY <1>2, <1>5, <1>10, GivesThen
    <3>2. S1 \cup {} = S1
      OBVIOUS
    <3> QED BY <3>1, <3>2
  <2>2. Gives(x.m, m2, ReaderBlocks(r0(f)))
    BY <1>8, <2>1
  <2>3. \E L : OpenGives(m, cleanup_rd(m2, r0(f), x, dcx), L, dcx) /\ (kind # "bnd4" => L = {})
    BY <1>9, <2>2, RdCleaned
  <2>4. o.ok = FALSE /\ o.m = cleanup_rd(m2, r0(f), x, dcx) /\ o.r = NoReader
    BY <1>10 DEF NoHandle, Handle
  <2> QED BY <2>3, <2>4 DEF HandleOrNothing
<1>11. CASE ~f.ok
  <2>1. Gives(f.m, f.m, {})
    BY <1>6, GivesSelf
  <2> QED BY <1>1, <1>10, <1>11, <2>1
<1>12. CASE f.ok
  <2>1. PICK p \in bulk_copy_names(f.m, n, named) :
           o = IF p.ok THEN Handle(TRUE, FreeRaw(p.m, x, dcx), ReaderOf(rd, hv, hh, fp, p.p, n, x.a, x.b))
               ELSE NoHandle(cleanup_rd(p.m, r0(f), x, dcx))
    BY <1>1, <1>12
  <2>2. /\ p.ok \in BOOLEAN
        /\ p.ok => Gives(f.m, p.m, {p.p} \ {0}) /\ p.p \in Nat
        /\ ~p.ok => p.m = f.m
    <3>1. (n > 0 /\ named) \in BOOLEAN
      OBVIOUS
    <3> QED BY <1>6, <3>1, AllocWhen DEF bulk_copy_names
  <2>3. CASE ~p.ok
    <3>1. Gives(f.m, p.m, {})
      BY <1>6, <2>2, <2>3, GivesSelf
    <3>2. o = NoHandle(cleanup_rd(p.m, r0(f), x, dcx))
      BY <2>1, <2>3
    <3> QED BY <1>10, <3>1, <3>2
  <2>4. CASE p.ok
    <3> DEFINE pool == p.p
               N == {pool} \ {0}
               S2 == S1 \cup N
               r == ReaderOf(rd, hv, hh, fp, pool, n, x.a, x.b)
    <3>1. Gives(f.m, p.m, N) /\ pool \in Nat
      BY <2>2, <2>4
    <3>2. Gives(x.m, p.m, S2) /\ S1 \cap N = {}
      <4>1. Fit(x.m) /\ Gives(x.m, f.m, S1) /\ Gives(f.m, p.m, N)
        BY <1>2, <1>5, <3>1
      <4> HIDE DEF S1, N
      <4> QED BY <4>1, GivesThen
    <3>3. Gives(m, p.m, P \cup S2) /\ P \cap S2 = {}
      <4>1. Gives(m, x.m, P) /\ Gives(x.m, p.m, S2)
        BY <1>2, <3>2
      <4> HIDE DEF P, S2
      <4> QED BY <4>1, GivesThen
    <3>4. pool = 0 \/ (pool # rd /\ pool # hv /\ pool # hh /\ pool # fp)
      BY <3>2
    <3>5. IsReader(r) /\ ReaderBlocks(r) = ({rd, hv, hh, fp, pool} \ {0}) \cup P
      <4>1. Apart(rd, hv, hh, fp, pool)
        BY <1>2, <1>5, <1>7, <3>1, <3>4 DEF Apart, Differ
      <4>2. TwoReaders(x.a, x.b)
        BY <1>2 DEF IsPair, TwoReaders
      <4>3. NoneShared(FiveBlocks(rd, hv, hh, fp, pool), PairBlocks(x.a, x.b))
        BY <3>3 DEF P, NoneShared, FiveBlocks
      <4> HIDE DEF fp, pool
      <4>4. IsReader(r) /\ ReaderBlocks(r) = FiveBlocks(rd, hv, hh, fp, pool) \cup PairBlocks(x.a, x.b)
        BY <4>1, <4>2, <4>3, ReaderMade
      <4> QED BY <4>4 DEF P, FiveBlocks
    <3>6. P \cup S2 = ReaderBlocks(r)
      BY <3>5
    <3>7. o.ok = TRUE /\ o.m = FreeRaw(p.m, x, dcx) /\ o.r = r
      BY <2>1, <2>4 DEF Handle
    <3>8. RawGone(m, p.m, ReaderBlocks(r), x.raw, dcx)
      <4> SUFFICES ASSUME kind = "bnd3", dcx
                   PROVE  x.raw \in m.next .. p.m.next - 1 /\ x.raw \notin ReaderBlocks(r)
        BY DEF RawGone
      <4>1. x.raw \in m.next .. x.m.next - 1 /\ x.raw \notin P
        BY DEF IsLoaded, RawGone, P
      <4>2. S2 \subseteq x.m.next .. p.m.next - 1 /\ p.m.next >= x.m.next /\ p.m.next \in Nat
        BY <3>2 DEF Gives
      <4>3. x.m.next \in Nat /\ m.next \in Nat
        BY <1>2 DEF Fit
      <4> HIDE DEF S2, P
      <4>4. x.raw \notin S2
        BY <4>1, <4>2, <4>3
      <4>5. x.raw \in m.next .. p.m.next - 1
        BY <4>1, <4>2, <4>3
      <4> QED BY <3>6, <4>1, <4>4, <4>5
    <3> HIDE DEF r, S2
    <3>9. Gives(m, p.m, ReaderBlocks(r))
      BY <3>3, <3>6
    <3>10. OpenGives(m, o.m, ReaderBlocks(r), dcx)
      BY <3>7, <3>8, <3>9, RawFreed
    <3> QED BY <3>5, <3>7, <3>10 DEF HandleOrNothing
  <2> QED BY <2>2, <2>3, <2>4
<1> QED BY <1>4, <1>11, <1>12

\* The same from the handle's allocation on.
LEMMA HandleOpened ==
  ASSUME NEW m, Fit(m), NEW x, NEW dcx \in BOOLEAN, IsLoaded(m, x, dcx), NEW n \in Nat,
         NEW named \in BOOLEAN, NEW o \in OpenHandle(x, n, named, dcx)
  PROVE  HandleOrNothing(m, o, dcx)
<1> DEFINE P == PairBlocks(x.a, x.b)
<1>1. PICK rd \in sf_xalloc(x.m) :
        o \in IF ~rd.ok THEN {NoHandle(cleanup_brs(rd.m, x, dcx))}
              ELSE UNION {IF h.ok THEN FillReader(rd.p, h, x, n, named, dcx)
                          ELSE {NoHandle(cleanup_brs(sf_xfree(h.m, rd.p), x, dcx))}
                          : h \in read_headers(rd.m, n, named)}
  BY DEF OpenHandle
<1>2. Gives(m, x.m, P)
  BY DEF IsLoaded
<1>3. Fit(x.m)
  BY <1>2, GivesFit
<1>4. /\ rd.ok \in BOOLEAN
      /\ rd.ok => Gives(x.m, rd.m, {rd.p}) /\ rd.p \in Nat \ {0}
      /\ ~rd.ok => rd.m = x.m
  BY <1>3, Alloc
<1>5. ASSUME NEW m2, Gives(x.m, m2, {}), o = NoHandle(cleanup_brs(m2, x, dcx))
      PROVE  HandleOrNothing(m, o, dcx)
  <2>1. Gives(m, m2, P \cup {}) /\ m2.next >= x.m.next
    <3>1. m2.next >= x.m.next
      BY <1>5 DEF Gives
    <3> HIDE DEF P
    <3> QED BY <1>2, <1>5, <3>1, GivesThen
  <2>2. P \cup {} = P
    OBVIOUS
  <2>3. OpenGives(m, cleanup_brs(m2, x, dcx), {}, dcx)
    BY <2>1, <2>2, BrsCleaned
  <2>4. o.ok = FALSE /\ o.m = cleanup_brs(m2, x, dcx) /\ o.r = NoReader
    BY <1>5 DEF NoHandle, Handle
  <2> QED BY <2>3, <2>4 DEF HandleOrNothing
<1>6. CASE ~rd.ok
  <2>1. Gives(x.m, rd.m, {})
    BY <1>3, <1>4, <1>6, GivesSelf
  <2> QED BY <1>1, <1>5, <1>6, <2>1
<1>7. CASE rd.ok
  <2> DEFINE R == {rd.p}
  <2>1. Gives(x.m, rd.m, R) /\ rd.p \in Nat \ {0}
    BY <1>4, <1>7
  <2>2. Fit(rd.m)
    <3> HIDE DEF R
    <3> QED BY <1>3, <2>1, GivesFit
  <2>3. PICK h \in read_headers(rd.m, n, named) :
           o \in IF h.ok THEN FillReader(rd.p, h, x, n, named, dcx)
                 ELSE {NoHandle(cleanup_brs(sf_xfree(h.m, rd.p), x, dcx))}
    BY <1>1, <1>7
  <2>4. /\ h.ok \in BOOLEAN
        /\ h.ok => /\ Gives(rd.m, h.m, {h.version, h.headers} \ {0})
                   /\ h.version \in Nat \ {0} /\ h.headers \in Nat /\ h.version # h.headers
        /\ ~h.ok => Gives(rd.m, h.m, {})
    BY <2>2, HeadersRead
  <2>5. CASE ~h.ok
    <3>1. Gives(x.m, h.m, R \cup {})
      <4> HIDE DEF R
      <4> QED BY <1>3, <2>1, <2>4, <2>5, GivesThen
    <3>2. R \cup {} = {rd.p} \ {0}
      BY <2>1
    <3>3. Gives(x.m, h.m, {rd.p} \ {0})
      BY <3>1, <3>2
    <3>4. Gives(x.m, sf_xfree(h.m, rd.p), {})
      BY <1>3, <3>3, FreeLast
    <3>5. o = NoHandle(cleanup_brs(sf_xfree(h.m, rd.p), x, dcx))
      BY <2>3, <2>5
    <3> QED BY <1>5, <3>4, <3>5
  <2>6. CASE h.ok
    <3> DEFINE H == {h.version, h.headers} \ {0}
    <3>1. Gives(rd.m, h.m, H) /\ h.version \in Nat \ {0} /\ h.headers \in Nat /\ h.version # h.headers
      BY <2>4, <2>6
    <3>2. Gives(x.m, h.m, R \cup H) /\ R \cap H = {}
      <4> HIDE DEF R, H
      <4> QED BY <1>3, <2>1, <3>1, GivesThen
    <3>3. R \cup H = {rd.p, h.version, h.headers} \ {0} /\ rd.p # h.version /\ rd.p # h.headers
      BY <2>1, <3>1, <3>2
    <3>4. Gives(x.m, h.m, {rd.p, h.version, h.headers} \ {0})
      BY <3>2, <3>3
    <3>5. o \in FillReader(rd.p, h, x, n, named, dcx)
      BY <2>3, <2>6
    <3> DEFINE q == rd.p
    <3>6. /\ q \in Nat \ {0} /\ q # h.version /\ q # h.headers
          /\ Gives(x.m, h.m, {q, h.version, h.headers} \ {0}) /\ o \in FillReader(q, h, x, n, named, dcx)
      BY <2>1, <3>3, <3>4, <3>5
    <3> HIDE DEF q
    <3> QED BY <3>1, <3>6, ReaderFilled
  <2> QED BY <2>4, <2>5, <2>6
<1> QED BY <1>4, <1>6, <1>7

\* sf_*_reader_open gives a handle that holds what was allocated, or nothing but
\* the block BND4 loses.
LEMMA ReaderOpened ==
  ASSUME NEW m, Fit(m), NEW dcx \in BOOLEAN, NEW n \in Nat, NEW named \in BOOLEAN,
         NEW o \in reader_open(m, n, named, dcx)
  PROVE  HandleOrNothing(m, o, dcx)
<1>1. PICK x \in LoadFiles(m, dcx) : o \in IF x.ok THEN OpenHandle(x, n, named, dcx) ELSE {NoHandle(x.m)}
  BY DEF reader_open
<1>2. /\ x.ok \in BOOLEAN
      /\ x.ok => /\ IsPair(x.a, x.b) /\ Gives(m, x.m, PairBlocks(x.a, x.b))
                 /\ RawGone(m, x.m, PairBlocks(x.a, x.b), x.raw, dcx)
      /\ ~x.ok => Gives(m, x.m, {})
  BY FilesLoaded
<1>3. CASE x.ok
  <2>1. IsLoaded(m, x, dcx)
    BY <1>2, <1>3 DEF IsLoaded
  <2>2. o \in OpenHandle(x, n, named, dcx)
    BY <1>1, <1>3
  <2> QED BY <2>1, <2>2, HandleOpened
<1>4. CASE ~x.ok
  <2>1. o.ok = FALSE /\ o.m = x.m /\ o.r = NoReader
    BY <1>1, <1>4 DEF NoHandle, Handle
  <2>2. OpenGives(m, x.m, {}, dcx)
    BY <1>2, <1>4, QuietOpen
  <2> QED BY <2>1, <2>2 DEF HandleOrNothing
<1> QED BY <1>2, <1>3, <1>4

(***************************************************************************)
(* BHD5.                                                                   *)
(***************************************************************************)
\* The bytes of a BHD5 header, decrypted if need be, are one block, or nothing.
LEMMA BytesRead ==
  ASSUME NEW m, Fit(m), NEW encrypted \in BOOLEAN, NEW o \in HeaderBytes(m, encrypted)
  PROVE  /\ o.ok \in BOOLEAN
         /\ o.ok => Gives(m, o.m, {o.p}) /\ o.p \in Nat \ {0}
         /\ ~o.ok => Gives(m, o.m, {})
<1>1. PICK b \in read_entire_wfile(m) : o \in IF encrypted /\ b.ok THEN rsa_unwrap(b.m, b.p) ELSE {b}
  BY DEF HeaderBytes
<1>2. /\ b.ok \in BOOLEAN
      /\ b.ok => Gives(m, b.m, {b.p}) /\ b.p \in Nat \ {0}
      /\ ~b.ok => Gives(m, b.m, {})
  <2>1. PICK a \in sf_xalloc(m) : b \in IF a.ok THEN {a, Refused(sf_xfree(a.m, a.p))} ELSE {a}
    BY DEF read_entire_wfile
  <2>2. /\ a.ok \in BOOLEAN
        /\ a.ok => Gives(m, a.m, {a.p}) /\ a.p \in Nat \ {0}
        /\ ~a.ok => a.m = m
    BY Alloc
  <2>3. CASE b = a
    BY <2>2, <2>3, GivesSelf
  <2>4. CASE a.ok /\ b = Refused(sf_xfree(a.m, a.p))
    <3>1. b.ok = FALSE /\ b.m = sf_xfree(a.m, a.p)
      BY <2>4 DEF Refused
    <3>2. {a.p} \ {0} = {a.p}
      BY <2>2, <2>4
    <3>3. Gives(m, sf_xfree(a.m, a.p), {})
      BY <2>2, <2>4, <3>2, FreeLast
    <3> QED BY <3>1, <3>3
  <2> QED BY <2>1, <2>3, <2>4
<1>3. CASE ~(encrypted /\ b.ok)
  <2>1. o = b
    BY <1>1, <1>3
  <2> QED BY <1>2, <2>1
<1>4. CASE encrypted /\ b.ok
  <2> DEFINE q == b.p
             Q == {q}
  <2>1. Gives(m, b.m, Q) /\ q \in Nat \ {0}
    BY <1>2, <1>4
  <2>2. Fit(b.m)
    <3> HIDE DEF Q
    <3> QED BY <2>1, GivesFit
  <2>3. PICK p \in sf_xalloc(b.m) :
           o = IF p.ok THEN Given(sf_xfree(p.m, q), p.p) ELSE Refused(sf_xfree(p.m, q))
    BY <1>1, <1>4 DEF rsa_unwrap
  <2>4. /\ p.ok \in BOOLEAN
        /\ p.ok => Gives(b.m, p.m, {p.p}) /\ p.p \in Nat \ {0}
        /\ ~p.ok => p.m = b.m
    BY <2>2, Alloc
  <2>5. CASE ~p.ok
    <3>1. o.ok = FALSE /\ o.m = sf_xfree(b.m, q)
      BY <2>3, <2>4, <2>5 DEF Refused
    <3>2. {q} \ {0} = {q}
      BY <2>1
    <3>3. Gives(m, sf_xfree(b.m, q), {})
      BY <2>1, <3>2, FreeLast
    <3> QED BY <3>1, <3>3
  <2>6. CASE p.ok
    <3> DEFINE N == {p.p}
               QN == Q \cup N
    <3>1. o.ok = TRUE /\ o.m = sf_xfree(p.m, q) /\ o.p = p.p
      BY <2>3, <2>6 DEF Given
    <3>2. Gives(b.m, p.m, N) /\ p.p \in Nat \ {0}
      BY <2>4, <2>6
    <3>3. Gives(m, p.m, QN) /\ Q \cap N = {}
      <4> HIDE DEF Q, N
      <4> QED BY <2>1, <3>2, GivesThen
    <3>4. q \in QN \cup {0} /\ QN \ {q} = N
      BY <3>3
    <3> HIDE DEF QN
    <3>5. Gives(m, sf_xfree(p.m, q), QN \ {q})
      BY <3>3, <3>4, FreeOne
    <3> QED BY <3>1, <3>2, <3>4, <3>5
  <2> QED BY <2>4, <2>5, <2>6
<1> QED BY <1>3, <1>4

\* A handle that is being filled: it has no reader yet, and L is what was lost.
Parsed(m0, o) ==
  /\ o.ok \in BOOLEAN
  /\ IsReader(o.r) /\ o.r.self # 0 /\ o.r.br = NoBr /\ o.r.br2 = NoBr
  /\ \E L : /\ Gives(m0, o.m, ReaderBlocks(o.r) \cup L) /\ ReaderBlocks(o.r) \cap L = {}
            /\ o.ok => L = {}

\* The k arrays that were allocated for a BHD5 handle are held by it.
LEMMA ArraysMade ==
  ASSUME NEW m, Fit(m), NEW s \in Nat \ {0}, s < m.next, NEW c \in Nat, NEW k \in 0 .. 4
  PROVE  LET r == WithArrays(ReaderOf(s, 0, 0, 0, 0, c, NoBr, NoBr), m, k)
         IN  /\ IsReader(r) /\ r.self = s /\ r.br = NoBr /\ r.br2 = NoBr
             /\ ReaderBlocks(r) = {s} \cup (m.next .. m.next + k - 1)
<1> DEFINE a1 == ArrayAt(m, k, 1)
           a2 == ArrayAt(m, k, 2)
           a3 == ArrayAt(m, k, 3)
           a4 == ArrayAt(m, k, 4)
           r == ReaderOf(s, a1, a2, a3, a4, c, NoBr, NoBr)
<1>1. WithArrays(ReaderOf(s, 0, 0, 0, 0, c, NoBr, NoBr), m, k) = r
  <2> DEFINE q == ReaderOf(s, 0, 0, 0, 0, c, NoBr, NoBr)
  <2>1. q.self = s /\ q.count = c
    BY ReaderFields
  <2> HIDE DEF q
  <2>2. WithArrays(q, m, k) = r
    BY <2>1 DEF WithArrays
  <2> QED BY <2>2 DEF q
<1>2. m.next \in Nat \ {0}
  BY DEF Fit
<1>3. Apart(s, a1, a2, a3, a4)
  BY <1>2 DEF Apart, Differ, ArrayAt
<1>4. FiveBlocks(s, a1, a2, a3, a4) = {s} \cup (m.next .. m.next + k - 1)
  <2>1. k = 0 \/ k = 1 \/ k = 2 \/ k = 3 \/ k = 4
    OBVIOUS
  <2> QED BY <1>2, <2>1 DEF FiveBlocks, ArrayAt
<1>5. TwoReaders(NoBr, NoBr) /\ PairBlocks(NoBr, NoBr) = {}
  BY NoBrIsBr DEF TwoReaders, PairBlocks
<1>6. NoneShared(FiveBlocks(s, a1, a2, a3, a4), PairBlocks(NoBr, NoBr))
  BY <1>5 DEF NoneShared
<1> HIDE DEF a1, a2, a3, a4
<1>7. IsReader(r) /\ ReaderBlocks(r) = FiveBlocks(s, a1, a2, a3, a4) \cup PairBlocks(NoBr, NoBr)
  BY <1>3, <1>5, <1>6, ReaderMade
<1>8. r.self = s /\ r.br = NoBr /\ r.br2 = NoBr
  BY ReaderFields
<1> HIDE DEF r
<1>9. ReaderBlocks(r) = {s} \cup (m.next .. m.next + k - 1)
  BY <1>4, <1>5, <1>7
<1> QED BY <1>1, <1>7, <1>8, <1>9

\* Parsing a BHD5 header fills the handle; a failure keeps its arrays in the
\* handle, and loses at most the bytes it was given.
LEMMA HeaderParsed ==
  ASSUME NEW m0, Fit(m0), NEW m, NEW s \in Nat \ {0}, NEW bytes \in Nat \ {0}, s # bytes,
         Gives(m0, m, {s, bytes}), NEW c \in Nat,
         NEW o \in bhd5_parse(m, ReaderOf(s, 0, 0, 0, 0, c, NoBr, NoBr), bytes)
  PROVE  Parsed(m0, o)
<1> DEFINE r == ReaderOf(s, 0, 0, 0, 0, c, NoBr, NoBr)
           A == {s, bytes}
<1>1. PICK d \in create_from_memory(m, bytes) :
        o \in IF ~d.ok THEN {Handle(FALSE, d.m, r)}
              ELSE {Handle(q.ok, binary_reader_destroy(q.m, d.br), q.r) : q \in ParseArrays(d.m, r)}
  BY DEF bhd5_parse
<1>2. Fit(m) /\ bytes \in Nat
  <2> HIDE DEF A
  <2>1. Gives(m0, m, A)
    BY DEF A
  <2> QED BY <2>1, GivesFit
<1>3. /\ d.ok \in BOOLEAN
      /\ d.ok => /\ Gives(m, d.m, {d.br.self}) /\ d.br.self \in Nat \ {0}
                 /\ d.br = Br(d.br.self, bytes)
      /\ ~d.ok => d.m = m
  BY <1>2, FromMemory
<1>4. s \in m.heap /\ s < m.next /\ bytes < m.next
  <2>1. s \in m.heap /\ bytes \in m.heap
    BY DEF Gives
  <2> QED BY <1>2, <2>1 DEF Fit
<1>5. CASE ~d.ok
  <2>1. o.ok = FALSE /\ o.m = m /\ o.r = r
    BY <1>1, <1>3, <1>5 DEF Handle
  <2>2. IsReader(r) /\ ReaderBlocks(r) = {s} /\ r.self = s /\ r.br = NoBr /\ r.br2 = NoBr
    <3>1. Apart(s, 0, 0, 0, 0)
      BY DEF Apart, Differ
    <3>2. TwoReaders(NoBr, NoBr) /\ PairBlocks(NoBr, NoBr) = {}
      BY NoBrIsBr DEF TwoReaders, PairBlocks
    <3>3. NoneShared(FiveBlocks(s, 0, 0, 0, 0), PairBlocks(NoBr, NoBr))
      BY <3>2 DEF NoneShared
    <3>4. IsReader(r) /\ ReaderBlocks(r) = FiveBlocks(s, 0, 0, 0, 0) \cup PairBlocks(NoBr, NoBr)
      BY <3>1, <3>2, <3>3, ReaderMade
    <3>5. FiveBlocks(s, 0, 0, 0, 0) \cup PairBlocks(NoBr, NoBr) = {s}
      BY <3>2 DEF FiveBlocks
    <3> QED BY <3>4, <3>5, ReaderFields
  <2> HIDE DEF r
  <2> DEFINE L == {bytes}
  <2>3. {s} \cup L = {s, bytes} /\ {s} \cap L = {} /\ s # 0
    OBVIOUS
  <2>4. Gives(m0, o.m, ReaderBlocks(o.r) \cup L) /\ ReaderBlocks(o.r) \cap L = {}
    BY <2>1, <2>2, <2>3
  <2>5. IsReader(o.r) /\ o.r.self # 0 /\ o.r.br = NoBr /\ o.r.br2 = NoBr
    BY <2>1, <2>2, <2>3
  <2> QED BY <2>1, <2>4, <2>5 DEF Parsed
<1>6. CASE d.ok
  <2> DEFINE D == {d.br.self}
             X == BrBlocks(d.br)
             AD == A \cup D
  <2>1. Gives(m, d.m, D) /\ d.br.self \in Nat \ {0} /\ d.br = Br(d.br.self, bytes)
    BY <1>3, <1>6
  <2>2. Gives(m0, d.m, AD) /\ A \cap D = {}
    <3>1. Gives(m0, m, A)
      OBVIOUS
    <3> HIDE DEF A, D
    <3> QED BY <2>1, <3>1, GivesThen
  <2>3. Fit(d.m) /\ s < d.m.next
    <3>1. Fit(d.m)
      <4> HIDE DEF AD
      <4> QED BY <2>2, GivesFit
    <3>2. d.m.next >= m.next /\ d.m.next \in Nat /\ m.next \in Nat
      BY <1>2, <2>1 DEF Gives, Fit
    <3> QED BY <1>4, <3>1, <3>2
  <2>4. IsBr(d.br) /\ X = {bytes, d.br.self}
    <3>1. d.br.buf = bytes /\ d.br \in [self : Nat, buf : Nat]
      BY <1>2, <2>1 DEF Br
    <3>2. d.br.self # bytes
      BY <2>2
    <3> QED BY <2>1, <3>1, <3>2 DEF IsBr, BrBlocks
  <2>5. PICK q \in ParseArrays(d.m, r) : o = Handle(q.ok, binary_reader_destroy(q.m, d.br), q.r)
    BY <1>1, <1>6
  <2>6. PICK k \in 0 .. 4 : /\ q.ok \in BOOLEAN /\ q.m = Taken(d.m, k) /\ q.r = WithArrays(r, d.m, k)
    <3> HIDE DEF r
    <3>1. CASE q = Handle(TRUE, Taken(d.m, 4), WithArrays(r, d.m, 4))
      <4>1. q.ok = TRUE /\ q.m = Taken(d.m, 4) /\ q.r = WithArrays(r, d.m, 4)
        BY <3>1 DEF Handle
      <4>2. 4 \in 0 .. 4
        OBVIOUS
      <4> QED BY <4>1, <4>2
    <3>2. ASSUME NEW k \in 0 .. 4, q = Handle(FALSE, Taken(d.m, k), WithArrays(r, d.m, k))
          PROVE  \E j \in 0 .. 4 : q.ok \in BOOLEAN /\ q.m = Taken(d.m, j) /\ q.r = WithArrays(r, d.m, j)
      <4>1. q.ok = FALSE /\ q.m = Taken(d.m, k) /\ q.r = WithArrays(r, d.m, k)
        BY <3>2 DEF Handle
      <4> QED BY <4>1
    <3> QED BY <3>1, <3>2 DEF ParseArrays
  <2> DEFINE R == d.m.next .. d.m.next + k - 1
             ADR == AD \cup R
             m2 == binary_reader_destroy(q.m, d.br)
  <2>7. /\ IsReader(q.r) /\ q.r.self = s /\ q.r.br = NoBr /\ q.r.br2 = NoBr
        /\ ReaderBlocks(q.r) = {s} \cup R
    <3> HIDE DEF r
    <3> DEFINE z == WithArrays(ReaderOf(s, 0, 0, 0, 0, c, NoBr, NoBr), d.m, k)
    <3>1. /\ IsReader(z) /\ z.self = s /\ z.br = NoBr /\ z.br2 = NoBr
          /\ ReaderBlocks(z) = {s} \cup R
      BY <2>3, ArraysMade
    <3>2. q.r = z
      BY <2>6 DEF r
    <3> HIDE DEF z, R
    <3> QED BY <3>1, <3>2
  <2>8. Gives(m0, q.m, ADR) /\ AD \cap R = {}
    <3>1. Gives(d.m, q.m, R)
      BY <2>3, <2>6, TakenGives
    <3> HIDE DEF AD, R
    <3> QED BY <2>2, <3>1, GivesThen
  <2>9. X \subseteq ADR /\ ADR \ X = {s} \cup R
    <3> HIDE DEF R
    <3> QED BY <2>2, <2>4, <2>8
  <2> HIDE DEF ADR, X, R
  <2>10. Gives(m0, m2, ADR \ X)
    BY <2>4, <2>8, <2>9, DestroyBr DEF X
  <2>11. o.ok = q.ok /\ o.m = m2 /\ o.r = q.r
    BY <2>5 DEF Handle
  <2> HIDE DEF m2
  <2>12. ReaderBlocks(q.r) \cup {} = ADR \ X /\ ReaderBlocks(q.r) \cap {} = {}
    BY <2>7, <2>9
  <2>13. Gives(m0, o.m, ReaderBlocks(o.r) \cup {}) /\ ReaderBlocks(o.r) \cap {} = {}
    BY <2>10, <2>11, <2>12
  <2> QED BY <2>6, <2>7, <2>11, <2>13 DEF Parsed
<1> QED BY <1>3, <1>5, <1>6

\* What opening a BHD5 may end with: L is what a failure lost.
BhdOrNothing(m, o) ==
  /\ o.ok \in BOOLEAN
  /\ o.ok => IsReader(o.r) /\ Gives(m, o.m, ReaderBlocks(o.r))
  /\ ~o.ok => o.r = NoReader /\ \E L : Gives(m, o.m, L)

\* Opening the data file of a BHD5 completes the handle or releases it.
LEMMA DataOpened ==
  ASSUME NEW m0, Fit(m0), NEW o, Parsed(m0, o), o.ok, NEW x \in OpenData(o)
  PROVE  BhdOrNothing(m0, x)
<1> DEFINE r == o.r
           R == ReaderBlocks(r)
<1>1. PICK s \in sf_xalloc(o.m) :
         x = IF s.ok THEN Handle(TRUE, s.m, ReaderOf(r.self, r.version, r.headers, r.files, r.pool,
                                                     r.count, Br(s.p, 0), NoBr))
             ELSE NoHandle(reader_free(s.m, r))
  BY DEF OpenData
<1>2. Gives(m0, o.m, R)
  <2>1. PICK L : Gives(m0, o.m, R \cup L) /\ L = {}
    BY DEF Parsed
  <2>2. R \cup L = R
    BY <2>1
  <2> QED BY <2>1, <2>2
<1>3. IsReader(r) /\ r.self # 0 /\ r.br = NoBr /\ r.br2 = NoBr
  BY DEF Parsed
<1> HIDE DEF r
<1>4. Fit(o.m)
  BY <1>2, GivesFit
<1>5. /\ s.ok \in BOOLEAN
      /\ s.ok => Gives(o.m, s.m, {s.p}) /\ s.p \in Nat \ {0}
      /\ ~s.ok => s.m = o.m
  BY <1>4, Alloc
<1>6. CASE ~s.ok
  <2>1. x.ok = FALSE /\ x.m = reader_free(o.m, r) /\ x.r = NoReader
    BY <1>1, <1>5, <1>6 DEF NoHandle, Handle
  <2>2. ReaderOnce(r)
    BY <1>3 DEF IsReader
  <2>3. Gives(m0, reader_free(o.m, r), R \ R)
    BY <1>2, <2>2, ReaderFreed
  <2> QED BY <2>1, <2>3 DEF BhdOrNothing
<1>7. CASE s.ok
  <2> DEFINE S == {s.p}
             br == Br(s.p, 0)
             r2 == ReaderOf(r.self, r.version, r.headers, r.files, r.pool, r.count, br, NoBr)
  <2>1. Gives(o.m, s.m, S) /\ s.p \in Nat \ {0}
    BY <1>5, <1>7
  <2>2. Gives(m0, s.m, R \cup S) /\ R \cap S = {}
    <3> HIDE DEF R, S
    <3> QED BY <1>2, <2>1, GivesThen
  <2>3. x.ok = TRUE /\ x.m = s.m /\ x.r = r2
    BY <1>1, <1>7 DEF Handle
  <2>4. PairBlocks(br, NoBr) = S /\ TwoReaders(br, NoBr)
    <3>1. IsBr(br) /\ BrBlocks(br) = S
      BY <2>1 DEF IsBr, BrBlocks, Br
    <3> QED BY <3>1, NoBrIsBr DEF PairBlocks, TwoReaders
  <2>5. R = FiveBlocks(r.self, r.version, r.headers, r.files, r.pool)
    <3>1. PairBlocks(r.br, r.br2) = {}
      BY <1>3, NoBrIsBr DEF PairBlocks
    <3> QED BY <3>1 DEF ReaderBlocks, FieldBlocks, FiveBlocks
  <2>6. Apart(r.self, r.version, r.headers, r.files, r.pool) /\ r.count \in Nat
    BY <1>3 DEF Apart, IsReader, ReaderOnce, Differ
  <2>7. NoneShared(FiveBlocks(r.self, r.version, r.headers, r.files, r.pool), PairBlocks(br, NoBr))
    BY <2>2, <2>4, <2>5 DEF NoneShared
  <2> HIDE DEF br
  <2>8. IsReader(r2) /\ ReaderBlocks(r2) = FiveBlocks(r.self, r.version, r.headers, r.files, r.pool) \cup PairBlocks(br, NoBr)
    BY <2>4, <2>6, <2>7, ReaderMade
  <2>9. ReaderBlocks(r2) = R \cup S
    BY <2>4, <2>5, <2>8
  <2>10. Gives(m0, x.m, ReaderBlocks(x.r)) /\ IsReader(x.r)
    BY <2>2, <2>3, <2>8, <2>9
  <2> QED BY <2>3, <2>10 DEF BhdOrNothing
<1> QED BY <1>5, <1>6, <1>7

\* sf_bhd5_open gives a handle that holds what was allocated; a failure may lose
\* a block.
LEMMA Bhd5Opened ==
  ASSUME NEW m, Fit(m), NEW encrypted \in BOOLEAN, NEW x \in bhd5_open(m, encrypted)
  PROVE  BhdOrNothing(m, x)
<1>1. PICK t \in HeaderBytes(m, encrypted) :
        x \in IF ~t.ok THEN {NoHandle(t.m)}
              ELSE UNION {IF b.ok THEN OpenParsed(b.m, b.p, t.p) ELSE {NoHandle(sf_xfree(b.m, t.p))}
                          : b \in sf_xalloc(t.m)}
  BY DEF bhd5_open
<1>2. /\ t.ok \in BOOLEAN
      /\ t.ok => Gives(m, t.m, {t.p}) /\ t.p \in Nat \ {0}
      /\ ~t.ok => Gives(m, t.m, {})
  BY BytesRead
<1>3. CASE ~t.ok
  <2>1. x.ok = FALSE /\ x.m = t.m /\ x.r = NoReader
    BY <1>1, <1>3 DEF NoHandle, Handle
  <2> QED BY <1>2, <1>3, <2>1 DEF BhdOrNothing
<1>4. CASE t.ok
  <2> DEFINE bytes == t.p
             T == {bytes}
  <2>1. Gives(m, t.m, T) /\ bytes \in Nat \ {0}
    BY <1>2, <1>4
  <2>2. Fit(t.m)
    <3> HIDE DEF T
    <3> QED BY <2>1, GivesFit
  <2>3. PICK b \in sf_xalloc(t.m) :
           x \in IF b.ok THEN OpenParsed(b.m, b.p, bytes) ELSE {NoHandle(sf_xfree(b.m, bytes))}
    BY <1>1, <1>4
  <2>4. /\ b.ok \in BOOLEAN
        /\ b.ok => Gives(t.m, b.m, {b.p}) /\ b.p \in Nat \ {0}
        /\ ~b.ok => b.m = t.m
    BY <2>2, Alloc
  <2>5. CASE ~b.ok
    <3>1. x.ok = FALSE /\ x.m = sf_xfree(t.m, bytes) /\ x.r = NoReader
      BY <2>3, <2>4, <2>5 DEF NoHandle, Handle
    <3>2. {bytes} \ {0} = {bytes}
      BY <2>1
    <3>3. Gives(m, sf_xfree(t.m, bytes), {})
      BY <2>1, <3>2, FreeLast
    <3> QED BY <3>1, <3>3 DEF BhdOrNothing
  <2>6. CASE b.ok
    <3> DEFINE s == b.p
               B == {s}
    <3>1. Gives(t.m, b.m, B) /\ s \in Nat \ {0}
      BY <2>4, <2>6
    <3>2. Gives(m, b.m, T \cup B) /\ T \cap B = {}
      <4> HIDE DEF T, B
      <4> QED BY <2>1, <3>1, GivesThen
    <3>3. T \cup B = {s, bytes} /\ s # bytes
      BY <3>2
    <3>4. Gives(m, b.m, {s, bytes})
      BY <3>2, <3>3
    <3>5. x \in OpenParsed(b.m, s, bytes)
      BY <2>3, <2>6
    <3> HIDE DEF s, bytes
    <3>6. PICK o \in bhd5_parse(b.m, ReaderOf(s, 0, 0, 0, 0, MaxFiles, NoBr, NoBr), bytes) :
             x \in IF o.ok THEN OpenData(o) ELSE {NoHandle(reader_free(o.m, o.r))}
      BY <3>5 DEF OpenParsed
    <3>7. MaxFiles \in Nat
      BY BoundsAssumption
    <3>8. Parsed(m, o)
      BY <2>1, <3>1, <3>3, <3>4, <3>6, <3>7, HeaderParsed
    <3>9. CASE o.ok
      <4>1. x \in OpenData(o)
        BY <3>6, <3>9
      <4> QED BY <3>8, <3>9, <4>1, DataOpened
    <3>10. CASE ~o.ok
      <4>1. x.ok = FALSE /\ x.m = reader_free(o.m, o.r) /\ x.r = NoReader
        BY <3>6, <3>10 DEF NoHandle, Handle
      <4>2. PICK L : Gives(m, o.m, ReaderBlocks(o.r) \cup L)
        BY <3>8 DEF Parsed
      <4>3. ReaderOnce(o.r) /\ ReaderBlocks(o.r) \subseteq ReaderBlocks(o.r) \cup L
        BY <3>8 DEF Parsed, IsReader
      <4> DEFINE RL == ReaderBlocks(o.r) \cup L
      <4>4. Gives(m, o.m, RL) /\ ReaderBlocks(o.r) \subseteq RL
        BY <4>2, <4>3
      <4> HIDE DEF RL
      <4>5. Gives(m, reader_free(o.m, o.r), RL \ ReaderBlocks(o.r))
        BY <4>3, <4>4, ReaderFreed
      <4> QED BY <4>1, <4>5 DEF BhdOrNothing
    <3>11. o.ok \in BOOLEAN
      BY <3>8 DEF Parsed
    <3> QED BY <3>9, <3>10, <3>11
  <2> QED BY <2>4, <2>5, <2>6
<1> QED BY <1>2, <1>3, <1>4

\* sf_bhd5_extract_* gives the bytes of the file in one block, or nothing.
LEMMA FileExtracted ==
  ASSUME NEW m, Fit(m), NEW sized \in BOOLEAN, NEW o \in extract_file(m, sized)
  PROVE  /\ o.ok \in BOOLEAN
         /\ o.ok => Gives(m, o.m, {o.p} \ {0}) /\ o.p \in Nat
         /\ ~o.ok => Gives(m, o.m, {}) /\ o.p = 0
<1>1. CASE o = Refused(m)
  <2>1. o.ok = FALSE /\ o.m = m /\ o.p = 0
    BY <1>1 DEF Refused
  <2> QED BY <2>1, GivesSelf
<1>2. ASSUME NEW b \in AllocIf(sized, m), o \in IF b.ok THEN {b, Refused(sf_xfree(b.m, b.p))} ELSE {b}
      PROVE  /\ o.ok \in BOOLEAN
             /\ o.ok => Gives(m, o.m, {o.p} \ {0}) /\ o.p \in Nat
             /\ ~o.ok => Gives(m, o.m, {}) /\ o.p = 0
  <2>1. /\ b.ok \in BOOLEAN
        /\ b.ok => Gives(m, b.m, {b.p} \ {0}) /\ b.p \in Nat
        /\ ~b.ok => b.m = m /\ b.p = 0
    BY AllocWhen
  <2>2. CASE o = b
    BY <2>1, <2>2, GivesSelf
  <2>3. CASE b.ok /\ o = Refused(sf_xfree(b.m, b.p))
    <3>1. o.ok = FALSE /\ o.m = sf_xfree(b.m, b.p) /\ o.p = 0
      BY <2>3 DEF Refused
    <3>2. Gives(m, sf_xfree(b.m, b.p), {})
      BY <2>1, <2>3, FreeLast
    <3> QED BY <3>1, <3>2
  <2> QED BY <1>2, <2>2, <2>3
<1> QED BY <1>1, <1>2 DEF extract_file

(***************************************************************************)
(* Writing.                                                                *)
(***************************************************************************)
\* What a write may hand to the caller: a block a side, and only into memory.
IsOutput(e, toMemory) ==
  /\ e.ok \in BOOLEAN
  /\ IsFiniteSet(e.out) /\ Cardinality(e.out) <= Sides
  /\ ~toMemory \/ ~e.ok => e.out = {}

\* Ending a writer gives the caller its bytes only when they go to memory.
LEMMA OneFinished ==
  ASSUME NEW m, Fit(m), NEW toMemory \in BOOLEAN, NEW p \in FinishOne(m, toMemory)
  PROVE  /\ p.ok \in BOOLEAN
         /\ p.ok => Gives(m, p.m, {p.p} \ {0}) /\ p.p \in Nat /\ (p.p # 0 => toMemory)
         /\ ~p.ok => p.m = m /\ p.p = 0
<1>1. CASE p = Refused(m)
  BY <1>1 DEF Refused
<1>2. CASE p \in AllocIf(toMemory, m)
  BY <1>2, AllocWhen
<1> QED BY <1>1, <1>2 DEF FinishOne

\* At most one block a side goes to the caller.
LEMMA OutputSize ==
  ASSUME NEW p, NEW q
  PROVE  /\ IsFiniteSet({p} \ {0}) /\ Cardinality({p} \ {0}) <= 1
         /\ IsFiniteSet({p, q} \ {0}) /\ Cardinality({p, q} \ {0}) <= 2
         /\ IsFiniteSet({}) /\ Cardinality({}) = 0
<1>1. IsFiniteSet({p}) /\ Cardinality({p}) = 1
  BY FS_Singleton
<1>2. IsFiniteSet({p} \cup {q}) /\ Cardinality({p} \cup {q}) <= 2
  <2>1. IsFiniteSet({q}) /\ Cardinality({q}) = 1
    BY FS_Singleton
  <2>2. IsFiniteSet({p} \cup {q}) /\ IsFiniteSet({p} \cap {q})
        /\ Cardinality({p} \cup {q}) = Cardinality({p}) + Cardinality({q}) - Cardinality({p} \cap {q})
    BY <1>1, <2>1, FS_Union, FS_Intersection
  <2>3. Cardinality({p} \cap {q}) \in Nat
    BY <2>2, FS_CardinalityType
  <2>4. ASSUME NEW k, NEW i \in Nat, k = 1 + 1 - i
        PROVE  k <= 2
    BY <2>4
  <2>5. Cardinality({p} \cup {q}) <= 2
    BY <1>1, <2>1, <2>2, <2>3, <2>4
  <2> QED BY <2>2, <2>5
<1>3. IsFiniteSet({p} \ {0}) /\ Cardinality({p} \ {0}) <= Cardinality({p})
  BY <1>1, FS_Subset
<1>4. {p, q} = {p} \cup {q}
  OBVIOUS
<1>5. IsFiniteSet({p, q} \ {0}) /\ Cardinality({p, q} \ {0}) <= Cardinality({p, q})
  BY <1>2, <1>4, FS_Subset
<1>6. Cardinality({p, q} \ {0}) \in Nat /\ Cardinality({p, q}) \in Nat
  BY <1>2, <1>4, <1>5, FS_CardinalityType
<1>7. IsFiniteSet({}) /\ Cardinality({}) = 0
  BY FS_EmptySet
<1> QED BY <1>1, <1>2, <1>3, <1>4, <1>5, <1>6, <1>7

\* The writers ws of memory m, of which a finish released those in D.
WriterEnd(m0, S, ws, e, toMemory) ==
  /\ IsOutput(e, toMemory)
  /\ \E D : /\ D \subseteq Blocks(ws) /\ (kind = "bnd4" => D = Blocks(ws))
            /\ Gives(m0, e.m, (S \ D) \cup e.out) /\ S \cap e.out = {}

\* BND4 destroys its writer whatever the end of it returned.
LEMMA Bnd4Finished ==
  ASSUME NEW m0, Fit(m0), NEW m, NEW S, Gives(m0, m, S), NEW ws, Once(ws), Blocks(ws) \subseteq S,
         NEW toMemory \in BOOLEAN, NEW e \in bnd4_finish(m, ws, toMemory)
  PROVE  WriterEnd(m0, S, ws, e, toMemory)
<1> DEFINE D == Blocks(ws)
           S1 == S \ D
           m1 == Release(m, ws)
<1>1. PICK p \in FinishOne(m1, toMemory) : e = Wrote(p.ok, p.m, {p.p} \ {0})
  BY DEF bnd4_finish
<1>2. Gives(m0, m1, S1)
  BY ReleaseAll
<1> HIDE DEF m1
<1>3. Fit(m1)
  <2> HIDE DEF S1
  <2> QED BY <1>2, GivesFit
<1>4. /\ p.ok \in BOOLEAN
      /\ p.ok => Gives(m1, p.m, {p.p} \ {0}) /\ p.p \in Nat /\ (p.p # 0 => toMemory)
      /\ ~p.ok => p.m = m1 /\ p.p = 0
  BY <1>3, OneFinished
<1> DEFINE N == {p.p} \ {0}
<1>5. Gives(m1, p.m, N)
  <2>1. CASE p.ok
    BY <1>4, <2>1
  <2>2. CASE ~p.ok
    <3>1. N = {} /\ p.m = m1
      BY <1>4, <2>2
    <3> QED BY <1>3, <3>1, GivesSelf
  <2> QED BY <1>4, <2>1, <2>2
<1>6. e.ok = p.ok /\ e.m = p.m /\ e.out = N
  BY <1>1 DEF Wrote
<1>7. Gives(m0, p.m, S1 \cup N)
  <2> HIDE DEF S1, N
  <2> QED BY <1>2, <1>5, GivesThen
<1>8. S \cap N = {}
  <2>1. N \subseteq m1.next .. p.m.next - 1 /\ m1.next = m.next
    BY <1>5 DEF Gives, m1, Release, Mem
  <2>2. S \subseteq m0.next .. m.next - 1 /\ m.next \in Nat /\ m0.next \in Nat /\ p.m.next \in Nat
    BY <1>5 DEF Gives, Fit
  <2> HIDE DEF N
  <2> QED BY <2>1, <2>2
<1>9. IsOutput(e, toMemory)
  <2>1. ~toMemory \/ ~e.ok => N = {}
    BY <1>4, <1>6
  <2>2. IsFiniteSet(N) /\ Cardinality(N) <= Sides
    <3>1. IsFiniteSet(N) /\ Cardinality(N) <= 1
      BY OutputSize
    <3>2. Cardinality(N) \in Nat
      BY <3>1, FS_CardinalityType
    <3> QED BY <3>1, <3>2, SidesType
  <2> QED BY <1>4, <1>6, <2>1, <2>2 DEF IsOutput
<1> HIDE DEF N
<1> QED BY <1>6, <1>7, <1>8, <1>9 DEF WriterEnd

\* The other kinds forget the writer that was finished: the heap keeps a part of
\* the writers, and a first output is released when the second one fails.
LEMMA BytesFinished ==
  ASSUME NEW m0, Fit(m0), NEW m, NEW S, Gives(m0, m, S), NEW ws, Blocks(ws) \subseteq S,
         Sides = 2 => ws[2] \in Blocks(ws), kind # "bnd4",
         NEW toMemory \in BOOLEAN, NEW e \in finish_bytes(m, ws, toMemory)
  PROVE  WriterEnd(m0, S, ws, e, toMemory)
<1>1. PICK p \in FinishOne(m, toMemory) :
        e \in IF ~p.ok THEN {Wrote(FALSE, IF Sides = 2 THEN sf_xfree(p.m, ws[2]) ELSE p.m, {})}
              ELSE IF Sides = 1 THEN {Wrote(TRUE, p.m, {p.p} \ {0})}
              ELSE {IF q.ok THEN Wrote(TRUE, q.m, {p.p, q.p} \ {0}) ELSE Wrote(FALSE, sf_xfree(q.m, p.p), {})
                    : q \in FinishOne(p.m, toMemory)}
  BY DEF finish_bytes
<1>2. Fit(m)
  BY GivesFit
<1>3. /\ p.ok \in BOOLEAN
      /\ p.ok => Gives(m, p.m, {p.p} \ {0}) /\ p.p \in Nat /\ (p.p # 0 => toMemory)
      /\ ~p.ok => p.m = m /\ p.p = 0
  BY <1>2, OneFinished
<1>4. IsFiniteSet({}) /\ Cardinality({}) <= Sides
  <2>1. IsFiniteSet({}) /\ Cardinality({}) = 0
    BY OutputSize
  <2> QED BY <2>1, SidesType
<1>5. ASSUME NEW D, D \subseteq Blocks(ws), e.ok = FALSE, e.out = {}, Gives(m0, e.m, S \ D)
      PROVE  WriterEnd(m0, S, ws, e, toMemory)
  <2>1. (S \ D) \cup {} = S \ D /\ S \cap {} = {}
    OBVIOUS
  <2>2. IsOutput(e, toMemory)
    BY <1>4, <1>5 DEF IsOutput
  <2>3. Gives(m0, e.m, (S \ D) \cup e.out) /\ S \cap e.out = {}
    BY <1>5, <2>1
  <2> QED BY <1>5, <2>2, <2>3 DEF WriterEnd
<1>6. CASE ~p.ok
  <2>1. e = Wrote(FALSE, IF Sides = 2 THEN sf_xfree(m, ws[2]) ELSE m, {})
    BY <1>1, <1>3, <1>6
  <2>2. e.ok = FALSE /\ e.out = {} /\ e.m = IF Sides = 2 THEN sf_xfree(m, ws[2]) ELSE m
    BY <2>1 DEF Wrote
  <2>3. CASE Sides = 2
    <3>1. ws[2] \in S \cup {0} /\ {ws[2]} \subseteq Blocks(ws)
      BY <2>3
    <3>2. Gives(m0, sf_xfree(m, ws[2]), S \ {ws[2]})
      BY <3>1, FreeOne
    <3> QED BY <1>5, <2>2, <2>3, <3>1, <3>2
  <2>4. CASE Sides # 2
    <3>1. S \ {} = S /\ {} \subseteq Blocks(ws)
      OBVIOUS
    <3>2. e.m = m
      BY <2>2, <2>4
    <3>3. Gives(m0, e.m, S \ {})
      BY <3>1, <3>2
    <3> QED BY <1>5, <2>2, <3>1, <3>3
  <2> QED BY <2>3, <2>4
<1>7. CASE p.ok
  <2> DEFINE N == {p.p} \ {0}
             SN == S \cup N
  <2>1. Gives(m, p.m, N) /\ p.p \in Nat /\ (p.p # 0 => toMemory)
    BY <1>3, <1>7
  <2>2. Gives(m0, p.m, SN) /\ S \cap N = {}
    <3> HIDE DEF N
    <3> QED BY <2>1, GivesThen
  <2>3. CASE Sides = 1
    <3>1. e.ok = TRUE /\ e.m = p.m /\ e.out = N
      BY <1>1, <1>7, <2>3 DEF Wrote
    <3>2. IsOutput(e, toMemory)
      BY <2>1, <2>3, <3>1, OutputSize DEF IsOutput
    <3>3. (S \ {}) \cup N = SN /\ {} \subseteq Blocks(ws)
      OBVIOUS
    <3>4. Gives(m0, e.m, (S \ {}) \cup e.out) /\ S \cap e.out = {}
      BY <2>2, <3>1, <3>3
    <3> QED BY <3>2, <3>3, <3>4 DEF WriterEnd
  <2>4. CASE Sides = 2
    <3>0. p.ok /\ Sides # 1
      BY <1>7, <2>4
    <3>1. PICK q \in FinishOne(p.m, toMemory) :
             e = IF q.ok THEN Wrote(TRUE, q.m, {p.p, q.p} \ {0}) ELSE Wrote(FALSE, sf_xfree(q.m, p.p), {})
      BY <1>1, <3>0
    <3>2. Fit(p.m)
      <4> HIDE DEF SN
      <4> QED BY <2>2, GivesFit
    <3>3. /\ q.ok \in BOOLEAN
          /\ q.ok => Gives(p.m, q.m, {q.p} \ {0}) /\ q.p \in Nat /\ (q.p # 0 => toMemory)
          /\ ~q.ok => q.m = p.m /\ q.p = 0
      BY <3>2, OneFinished
    <3>4. CASE ~q.ok
      <4>1. e.ok = FALSE /\ e.m = sf_xfree(p.m, p.p) /\ e.out = {}
        BY <3>1, <3>3, <3>4 DEF Wrote
      <4>2. p.p \in SN \cup {0} /\ SN \ {p.p} = S \ {} /\ {} \subseteq Blocks(ws)
        <5>1. 0 \notin S
          BY GivesFit
        <5> QED BY <2>2, <5>1
      <4> HIDE DEF SN
      <4>3. Gives(m0, sf_xfree(p.m, p.p), SN \ {p.p})
        BY <2>2, <4>2, FreeOne
      <4>4. Gives(m0, e.m, S \ {})
        BY <4>1, <4>2, <4>3
      <4> QED BY <1>5, <4>1, <4>2, <4>4
    <3>5. CASE q.ok
      <4> DEFINE Q == {q.p} \ {0}
      <4>1. e.ok = TRUE /\ e.m = q.m /\ e.out = {p.p, q.p} \ {0}
        BY <3>1, <3>5 DEF Wrote
      <4>2. Gives(p.m, q.m, Q) /\ q.p \in Nat /\ (q.p # 0 => toMemory)
        BY <3>3, <3>5
      <4>3. Gives(m0, q.m, SN \cup Q) /\ SN \cap Q = {}
        <5>1. Gives(m0, p.m, SN) /\ Gives(p.m, q.m, Q)
          BY <2>2, <4>2
        <5> HIDE DEF SN, Q
        <5> QED BY <5>1, GivesThen
      <4>4. (S \ {}) \cup e.out = SN \cup Q /\ S \cap e.out = {} /\ {} \subseteq Blocks(ws)
        BY <2>2, <4>1, <4>3
      <4>5. IsOutput(e, toMemory)
        <5>1. ~toMemory => e.out = {}
          BY <2>1, <4>1, <4>2
        <5>2. IsFiniteSet({p.p, q.p} \ {0}) /\ Cardinality({p.p, q.p} \ {0}) <= 2
          BY OutputSize
        <5>3. IsFiniteSet(e.out) /\ Cardinality(e.out) <= Sides
          BY <2>4, <4>1, <5>2
        <5> QED BY <4>1, <5>1, <5>3 DEF IsOutput
      <4>6. Gives(m0, e.m, (S \ {}) \cup e.out) /\ S \cap e.out = {}
        BY <4>1, <4>3, <4>4
      <4> QED BY <4>4, <4>5, <4>6 DEF WriterEnd
    <3> QED BY <3>3, <3>4, <3>5
  <2> QED BY <2>3, <2>4, SidesType
<1> QED BY <1>3, <1>6, <1>7

\* What a write may end with: L are the writers that nobody destroys.
Written(m, o, toMemory) ==
  /\ IsOutput(o, toMemory)
  /\ \E L : /\ Gives(m, o.m, L \cup o.out) /\ L \cap o.out = {}
            /\ kind = "bnd4" => L = {}

\* A write with its streams made gives the caller the output, loses at most
\* writers, and in BND4 loses nothing.
LEMMA WroteOn ==
  ASSUME NEW m, Fit(m), NEW os, Once(os.ps), Gives(m, os.m, Blocks(os.ps)), NEW toMemory \in BOOLEAN,
         NEW o \in WriteOn(os, toMemory)
  PROVE  Written(m, o, toMemory)
<1> DEFINE O == Blocks(os.ps)
<1>1. PICK w \in AllocAll(os.m, Sides) :
        o \in IF ~w.ok THEN {Wrote(FALSE, Release(w.m, os.ps), {})}
              ELSE {Wrote(FALSE, Release(Release(w.m, w.ps), os.ps), {})}
                   \cup {Wrote(e.ok, Release(e.m, os.ps), e.out) :
                           e \in IF kind = "bnd4" THEN bnd4_finish(w.m, w.ps, toMemory)
                                 ELSE finish_bytes(w.m, w.ps, toMemory)}
  BY DEF WriteOn
<1>2. Fit(os.m)
  BY GivesFit
<1>3. Sides \in Nat
  BY SidesType
<1>4. /\ w.ok \in BOOLEAN
      /\ w.ok => /\ w.ps = Run(os.m, Sides) /\ Once(w.ps) /\ Blocks(w.ps) = os.m.next .. os.m.next + Sides - 1
                 /\ Gives(os.m, w.m, Blocks(w.ps))
      /\ ~w.ok => Gives(os.m, w.m, {})
  BY <1>2, <1>3, AllAllocated
<1>5. IsFiniteSet({}) /\ Cardinality({}) <= Sides
  <2>1. IsFiniteSet({}) /\ Cardinality({}) = 0
    BY OutputSize
  <2> QED BY <2>1, SidesType
<1>6. ASSUME NEW m2, Gives(m, m2, O), o = Wrote(FALSE, Release(m2, os.ps), {})
      PROVE  Written(m, o, toMemory)
  <2>1. Gives(m, Release(m2, os.ps), O \ O)
    BY <1>6, ReleaseAll
  <2>2. o.ok = FALSE /\ o.m = Release(m2, os.ps) /\ o.out = {}
    BY <1>6 DEF Wrote
  <2>3. {} \cup {} = O \ O /\ {} \cap {} = {}
    OBVIOUS
  <2>4. Gives(m, o.m, {} \cup o.out) /\ {} \cap o.out = {}
    BY <2>1, <2>2, <2>3
  <2>5. IsOutput(o, toMemory)
    BY <1>5, <2>2 DEF IsOutput
  <2> QED BY <2>4, <2>5 DEF Written
<1>7. CASE ~w.ok
  <2> HIDE DEF O
  <2>1. Gives(m, w.m, O \cup {})
    BY <1>4, <1>7, GivesThen DEF O
  <2>2. O \cup {} = O
    OBVIOUS
  <2> QED BY <1>1, <1>6, <1>7, <2>1, <2>2
<1>8. CASE w.ok
  <2> DEFINE ws == w.ps
             W == Blocks(ws)
             OW == O \cup W
  <2>1. /\ ws = Run(os.m, Sides) /\ Once(ws) /\ W = os.m.next .. os.m.next + Sides - 1
        /\ Gives(os.m, w.m, W)
    BY <1>4, <1>8
  <2>2. Gives(m, w.m, OW) /\ O \cap W = {}
    <3>1. Gives(m, os.m, O) /\ Gives(os.m, w.m, W)
      BY <2>1
    <3> HIDE DEF O, W
    <3> QED BY <3>1, GivesThen
  <2>3. Sides = 2 => ws[2] \in W
    BY <1>2, <2>1 DEF Run, Fit
  <2> HIDE DEF ws, OW
  <2>4. W \subseteq OW
    BY DEF OW
  <2>5. CASE o = Wrote(FALSE, Release(Release(w.m, ws), os.ps), {})
    <3>1. Gives(m, Release(w.m, ws), OW \ W)
      BY <2>1, <2>2, <2>4, ReleaseAll
    <3>2. OW \ W = O
      BY <2>2 DEF OW
    <3> DEFINE m2 == Release(w.m, ws)
    <3>3. Gives(m, m2, O) /\ o = Wrote(FALSE, Release(m2, os.ps), {})
      BY <2>5, <3>1, <3>2
    <3> HIDE DEF m2
    <3> QED BY <1>6, <3>3
  <2>6. ASSUME NEW e, e \in IF kind = "bnd4" THEN bnd4_finish(w.m, ws, toMemory) ELSE finish_bytes(w.m, ws, toMemory),
               o = Wrote(e.ok, Release(e.m, os.ps), e.out)
        PROVE  Written(m, o, toMemory)
    <3>1. WriterEnd(m, OW, ws, e, toMemory)
      <4>1. CASE kind = "bnd4"
        <5>1. e \in bnd4_finish(w.m, ws, toMemory)
          BY <2>6, <4>1
        <5>2. Gives(m, w.m, OW) /\ Once(ws) /\ Blocks(ws) \subseteq OW
          BY <2>1, <2>2, <2>4
        <5> QED BY <5>1, <5>2, Bnd4Finished
      <4>2. CASE kind # "bnd4"
        <5>1. e \in finish_bytes(w.m, ws, toMemory)
          BY <2>6, <4>2
        <5>2. Gives(m, w.m, OW) /\ Blocks(ws) \subseteq OW /\ (Sides = 2 => ws[2] \in Blocks(ws))
          BY <2>2, <2>3, <2>4
        <5> QED BY <4>2, <5>1, <5>2, BytesFinished
      <4> QED BY <4>1, <4>2
    <3>2. PICK D : /\ D \subseteq W /\ (kind = "bnd4" => D = W)
                   /\ Gives(m, e.m, (OW \ D) \cup e.out) /\ OW \cap e.out = {}
      BY <3>1 DEF WriterEnd
    <3> DEFINE X == (OW \ D) \cup e.out
               L == W \ D
    <3>3. O \subseteq X /\ X \ O = L \cup e.out /\ L \cap e.out = {} /\ (kind = "bnd4" => L = {})
      <4> HIDE DEF O, W
      <4> QED BY <2>2, <3>2 DEF OW
    <3>4. Gives(m, e.m, X)
      BY <3>2
    <3> HIDE DEF X, L
    <3>5. Gives(m, Release(e.m, os.ps), X \ O)
      BY <3>3, <3>4, ReleaseAll
    <3>6. o.ok = e.ok /\ o.m = Release(e.m, os.ps) /\ o.out = e.out
      BY <2>6 DEF Wrote
    <3>7. IsOutput(o, toMemory)
      BY <3>1, <3>6 DEF WriterEnd, IsOutput
    <3>8. Gives(m, o.m, L \cup o.out) /\ L \cap o.out = {} /\ (kind = "bnd4" => L = {})
      BY <3>3, <3>5, <3>6
    <3> QED BY <3>7, <3>8 DEF Written
  <2> QED BY <1>1, <1>8, <2>5, <2>6 DEF ws
<1> QED BY <1>4, <1>7, <1>8

\* The same from before the streams are made.
LEMMA WroteTo ==
  ASSUME NEW m, Fit(m), NEW toMemory \in BOOLEAN, NEW o \in write_to(m, toMemory)
  PROVE  Written(m, o, toMemory)
<1>1. PICK os \in AllocAll(m, Sides) : o \in IF os.ok THEN WriteOn(os, toMemory) ELSE {Wrote(FALSE, os.m, {})}
  BY DEF write_to
<1>2. Sides \in Nat
  BY SidesType
<1>3. /\ os.ok \in BOOLEAN
      /\ os.ok => Once(os.ps) /\ Gives(m, os.m, Blocks(os.ps))
      /\ ~os.ok => Gives(m, os.m, {})
  BY <1>2, AllAllocated
<1>4. CASE os.ok
  <2>1. Once(os.ps) /\ Gives(m, os.m, Blocks(os.ps)) /\ o \in WriteOn(os, toMemory)
    BY <1>1, <1>3, <1>4
  <2> QED BY <2>1, WroteOn
<1>5. CASE ~os.ok
  <2>1. o.ok = FALSE /\ o.m = os.m /\ o.out = {}
    BY <1>1, <1>5 DEF Wrote
  <2>2. IsOutput(o, toMemory)
    <3>1. IsFiniteSet({}) /\ Cardinality({}) = 0
      BY OutputSize
    <3>2. IsFiniteSet(o.out) /\ Cardinality(o.out) <= Sides
      BY <2>1, <3>1, SidesType
    <3> QED BY <2>1, <3>2 DEF IsOutput
  <2>3. {} \cup {} = {} /\ {} \cap {} = {}
    OBVIOUS
  <2>4. Gives(m, o.m, {} \cup o.out) /\ {} \cap o.out = {}
    BY <1>3, <1>5, <2>1, <2>3
  <2> QED BY <2>2, <2>4 DEF Written
<1> QED BY <1>3, <1>4, <1>5

\* A BHD5 is written into files only: the caller gets no block, and a writer may
\* be lost.
LEMMA Bhd5Written ==
  ASSUME NEW m, Fit(m), NEW o \in bhd5_write(m)
  PROVE  o.ok \in BOOLEAN /\ \E L : Gives(m, o.m, L)
<1>1. PICK t \in AllocAll(m, 3) :
        o \in IF ~t.ok THEN {Wrote(FALSE, t.m, {})}
              ELSE UNION {IF ~s.ok THEN {Wrote(FALSE, Release(s.m, t.ps), {})}
                          ELSE {Wrote(done = "finished",
                                      Release(IF done = "stopped" THEN Release(s.m, s.ps) ELSE sf_xfree(s.m, s.ps[1]), t.ps), {})
                                : done \in {"stopped", "unfilled", "finished"}}
                          : s \in AllocAll(t.m, 2)}
  BY DEF bhd5_write
<1>2. /\ t.ok \in BOOLEAN
      /\ t.ok => Once(t.ps) /\ Gives(m, t.m, Blocks(t.ps))
      /\ ~t.ok => Gives(m, t.m, {})
  BY AllAllocated
<1>3. CASE ~t.ok
  <2>1. o.ok = FALSE /\ o.m = t.m
    BY <1>1, <1>3 DEF Wrote
  <2> QED BY <1>2, <1>3, <2>1
<1>4. CASE t.ok
  <2> DEFINE T == Blocks(t.ps)
  <2>1. Once(t.ps) /\ Gives(m, t.m, T)
    BY <1>2, <1>4
  <2>2. Fit(t.m)
    BY <2>1, GivesFit
  <2>3. PICK s \in AllocAll(t.m, 2) :
           o \in IF ~s.ok THEN {Wrote(FALSE, Release(s.m, t.ps), {})}
                 ELSE {Wrote(done = "finished",
                             Release(IF done = "stopped" THEN Release(s.m, s.ps) ELSE sf_xfree(s.m, s.ps[1]), t.ps), {})
                       : done \in {"stopped", "unfilled", "finished"}}
    BY <1>1, <1>4
  <2>4. /\ s.ok \in BOOLEAN
        /\ s.ok => /\ s.ps = Run(t.m, 2) /\ Once(s.ps) /\ Blocks(s.ps) = t.m.next .. t.m.next + 2 - 1
                   /\ Gives(t.m, s.m, Blocks(s.ps))
        /\ ~s.ok => Gives(t.m, s.m, {})
    BY <2>2, AllAllocated
  <2>5. ASSUME NEW m2, NEW X, Gives(m, m2, T \cup X), T \cap X = {}
        PROVE  Gives(m, Release(m2, t.ps), (T \cup X) \ T)
    <3> DEFINE TX == T \cup X
    <3>1. T \subseteq TX /\ Gives(m, m2, TX)
      BY <2>5
    <3> HIDE DEF TX
    <3>2. Gives(m, Release(m2, t.ps), TX \ T)
      BY <2>1, <3>1, ReleaseAll
    <3> QED BY <3>2 DEF TX
  <2>6. CASE ~s.ok
    <3>1. o.ok = FALSE /\ o.m = Release(s.m, t.ps)
      BY <2>3, <2>6 DEF Wrote
    <3>2. Gives(m, s.m, T \cup {}) /\ T \cap {} = {}
      <4> HIDE DEF T
      <4> QED BY <2>1, <2>4, <2>6, GivesThen
    <3> QED BY <2>5, <3>1, <3>2
  <2>7. CASE s.ok
    <3>0. PICK done \in {"stopped", "unfilled", "finished"} :
             o = Wrote(done = "finished",
                       Release(IF done = "stopped" THEN Release(s.m, s.ps) ELSE sf_xfree(s.m, s.ps[1]), t.ps), {})
      BY <2>3, <2>7
    <3> DEFINE W == Blocks(s.ps)
               TW == T \cup W
               m2 == IF done = "stopped" THEN Release(s.m, s.ps) ELSE sf_xfree(s.m, s.ps[1])
    <3>1. o.ok = (done = "finished") /\ o.m = Release(m2, t.ps)
      BY <3>0 DEF Wrote
    <3>2. Gives(m, s.m, TW) /\ T \cap W = {}
      <4>1. Gives(t.m, s.m, W)
        BY <2>4, <2>7
      <4> HIDE DEF T, W
      <4> QED BY <2>1, <4>1, GivesThen
    <3>3. Once(s.ps) /\ s.ps[1] \in W
      BY <2>2, <2>4, <2>7 DEF Run, Fit
    <3>4. \E X : Gives(m, m2, T \cup X) /\ T \cap X = {}
      <4>1. W \subseteq TW /\ s.ps[1] \in TW \cup {0} /\ TW \ W = T \cup {} /\ T \cap {} = {}
            /\ TW \ {s.ps[1]} = T \cup (W \ {s.ps[1]}) /\ T \cap (W \ {s.ps[1]}) = {}
        <5> HIDE DEF T, W
        <5> QED BY <3>2, <3>3
      <4> HIDE DEF TW
      <4>2. CASE done = "stopped"
        <5>1. Gives(m, m2, TW \ W)
          BY <3>2, <3>3, <4>1, <4>2, ReleaseAll
        <5> HIDE DEF m2
        <5> QED BY <4>1, <5>1
      <4>3. CASE done # "stopped"
        <5>1. Gives(m, m2, TW \ {s.ps[1]})
          BY <3>2, <4>1, <4>3, FreeOne
        <5> HIDE DEF m2
        <5> QED BY <4>1, <5>1
      <4> QED BY <4>2, <4>3
    <3> HIDE DEF m2
    <3>5. o.ok \in BOOLEAN
      BY <3>1
    <3> QED BY <2>5, <3>1, <3>4, <3>5
  <2> QED BY <2>4, <2>6, <2>7
<1> QED BY <1>2, <1>3, <1>4

(***************************************************************************)
(* What an operation loses: nothing, unless it decodes and fails.          *)
(***************************************************************************)
\* Every outcome in S has lost what m had.
KeepsLost(m, S) == \A o \in S : o.m.lost = m.lost
\* Every outcome in S but a failed one has.
SparesLost(m, S) == \A o \in S : o.ok => o.m.lost = m.lost

\* The operations that only release, allocate or mark lose nothing.
LEMMA ReleasesLoseNothing ==
  /\ \A m, p : sf_xfree(m, p).lost = m.lost /\ Touch(m, p).lost = m.lost
  /\ \A m, ps : Release(m, ps).lost = m.lost
  /\ \A m, k : Taken(m, k).lost = m.lost
  /\ \A m : FreeDefault(m).lost = m.lost
  /\ \A m, form, k : Extracted(m, form, k).lost = m.lost
BY DEF sf_xfree, Touch, Release, Taken, FreeDefault, Extracted, Bad, Mem

\* Neither do those that put a handle, a list or a reader away.
LEMMA DestroysLoseNothing ==
  /\ \A m, br : binary_reader_destroy(m, br).lost = m.lost
  /\ \A m, a, b : DestroyReaders(m, a, b).lost = m.lost
  /\ \A m, list, pool : FilesFree(m, list, pool).lost = m.lost
  /\ \A m, b : destroy(m, b).lost = m.lost
  /\ \A m, r : reader_free(m, r).lost = m.lost
  /\ \A m, x, dcx : FreeRaw(m, x, dcx).lost = m.lost
<1>1. \A m, br : binary_reader_destroy(m, br).lost = m.lost
  BY ReleasesLoseNothing DEF binary_reader_destroy
<1>2. \A m, a, b : DestroyReaders(m, a, b).lost = m.lost
  BY <1>1 DEF DestroyReaders
<1>3. \A m, list, pool : FilesFree(m, list, pool).lost = m.lost
  BY ReleasesLoseNothing DEF FilesFree
<1>4. \A m, b : destroy(m, b).lost = m.lost
  BY <1>3, ReleasesLoseNothing DEF destroy
<1>5. \A m, r : reader_free(m, r).lost = m.lost
  BY <1>2, ReleasesLoseNothing DEF reader_free
<1>6. \A m, x, dcx : FreeRaw(m, x, dcx).lost = m.lost
  BY ReleasesLoseNothing DEF FreeRaw
<1> QED BY <1>1, <1>2, <1>3, <1>4, <1>5, <1>6

\* An allocation loses nothing, whether it succeeds or not.
LEMMA AllocsLoseNothing ==
  /\ \A m : KeepsLost(m, sf_xalloc(m))
  /\ \A m, needed : KeepsLost(m, AllocIf(needed, m))
  /\ \A m, p : KeepsLost(m, sf_xrealloc(m, p))
  /\ \A m, n : KeepsLost(m, AllocAll(m, n))
  /\ \A m, buf : KeepsLost(m, create_from_memory(m, buf))
<1>1. \A m : KeepsLost(m, sf_xalloc(m))
  BY ReleasesLoseNothing DEF KeepsLost, sf_xalloc, Refused, Given
<1>2. \A m, needed : KeepsLost(m, AllocIf(needed, m))
  BY <1>1 DEF KeepsLost, AllocIf, Given
<1>3. \A m, p : KeepsLost(m, sf_xrealloc(m, p))
  BY ReleasesLoseNothing DEF KeepsLost, sf_xrealloc, Refused, Given
<1>4. \A m, n : KeepsLost(m, AllocAll(m, n))
  BY ReleasesLoseNothing DEF KeepsLost, AllocAll
<1>5. \A m, buf : KeepsLost(m, create_from_memory(m, buf))
  BY <1>1 DEF KeepsLost, create_from_memory, Opened
<1> QED BY <1>1, <1>2, <1>3, <1>4, <1>5

\* Reading the headers loses nothing.
LEMMA HeadersLoseNothing ==
  \A m, n, named : KeepsLost(m, read_headers(m, n, named))
<1>1. ASSUME NEW m, NEW n, NEW named, NEW o \in read_header(m, n, named)
      PROVE  o.m.lost = m.lost
  <2> DEFINE seen == IF named /\ n > 0 THEN FreeDefault(m) ELSE m
  <2>1. seen.lost = m.lost
    BY ReleasesLoseNothing
  <2>2. \/ o \in {NoHeaders(m), NoHeaders(seen)}
        \/ \E v \in sf_xalloc(seen) : \E h \in AllocIf(n > 0, v.m) :
              o = IF h.ok THEN Headers(TRUE, h.m, v.p, h.p) ELSE NoHeaders(sf_xfree(h.m, v.p))
    <3> DEFINE out(v, h) == IF h.ok THEN Headers(TRUE, h.m, v.p, h.p) ELSE NoHeaders(sf_xfree(h.m, v.p))
               opened    == {v \in sf_xalloc(seen) : v.ok}
               read(v)   == {out(v, h) : h \in AllocIf(n > 0, v.m)}
    <3>1. o \in {NoHeaders(m), NoHeaders(seen)} \/ o \in UNION {read(v) : v \in opened}
      BY DEF read_header
    <3> HIDE DEF out, seen
    <3>2. o \in UNION {read(v) : v \in opened} =>
             \E v \in sf_xalloc(seen) : \E h \in AllocIf(n > 0, v.m) : o = out(v, h)
      BY Zenon
    <3>3. \/ o \in {NoHeaders(m), NoHeaders(seen)}
          \/ \E v \in sf_xalloc(seen) : \E h \in AllocIf(n > 0, v.m) : o = out(v, h)
      BY <3>1, <3>2, Zenon
    <3> QED
      BY <3>3 DEF out
  <2> HIDE DEF seen
  <2>3. CASE o \in {NoHeaders(m), NoHeaders(seen)}
    BY <2>1, <2>3 DEF NoHeaders, Headers
  <2>4. ASSUME NEW v \in sf_xalloc(seen), NEW h \in AllocIf(n > 0, v.m),
               o = IF h.ok THEN Headers(TRUE, h.m, v.p, h.p) ELSE NoHeaders(sf_xfree(h.m, v.p))
        PROVE  o.m.lost = m.lost
    <3>1. h.m.lost = m.lost
      BY <2>1, AllocsLoseNothing DEF KeepsLost
    <3> QED BY <2>4, <3>1, ReleasesLoseNothing DEF NoHeaders, Headers
  <2> QED BY <2>2, <2>3, <2>4
<1>2. ASSUME NEW m, NEW d \in read_bdf_header(m)
      PROVE  d.m.lost = m.lost
  BY ReleasesLoseNothing DEF read_bdf_header, Given, Refused
<1>3. ASSUME NEW m, NEW n, NEW named, NEW o \in read_headers(m, n, named)
      PROVE  o.m.lost = m.lost
  <2>1. PICK d \in read_bdf_header(m) : o \in IF d.ok THEN read_header(d.m, n, named) ELSE {NoHeaders(d.m)}
    BY DEF read_headers
  <2>2. CASE o \in read_header(d.m, n, named)
    BY <1>1, <1>2, <2>2
  <2>3. CASE o = NoHeaders(d.m)
    BY <1>2, <2>3 DEF NoHeaders, Headers
  <2> QED BY <2>1, <2>2, <2>3
<1> QED BY <1>3 DEF KeepsLost

\* Copying a file and making an empty binder lose nothing.
LEMMA CopiesLoseNothing ==
  /\ \A m, named, sized : KeepsLost(m, file_dup(m, named, sized))
  /\ \A m : KeepsLost(m, create(m))
<1>1. ASSUME NEW m, NEW named, NEW sized, NEW o \in file_dup(m, named, sized)
      PROVE  o.m.lost = m.lost
  <2>1. PICK s \in AllocIf(named, m) :
           o \in IF ~s.ok THEN {Copied(FALSE, s.m, File(0, 0))}
                 ELSE {IF d.ok THEN Copied(TRUE, d.m, File(s.p, d.p))
                       ELSE Copied(FALSE, sf_xfree(d.m, s.p), File(0, 0)) : d \in AllocIf(sized, s.m)}
    BY DEF file_dup
  <2>2. s.m.lost = m.lost /\ \A d \in AllocIf(sized, s.m) : d.m.lost = m.lost
    BY AllocsLoseNothing DEF KeepsLost
  <2> QED BY <2>1, <2>2, ReleasesLoseNothing DEF Copied
<1>2. ASSUME NEW m, NEW o \in create(m)
      PROVE  o.m.lost = m.lost
  <2>1. PICK s \in sf_xalloc(m) :
           o \in IF ~s.ok THEN {Built(FALSE, s.m, NoBinder)}
                 ELSE {IF v.ok THEN Built(TRUE, v.m, BinderOf(s.p, v.p, 0, 0, <<>>, 0))
                       ELSE Built(FALSE, sf_xfree(v.m, s.p), NoBinder) : v \in sf_xalloc(s.m)}
    BY DEF create
  <2>2. s.m.lost = m.lost /\ \A v \in sf_xalloc(s.m) : v.m.lost = m.lost
    BY AllocsLoseNothing DEF KeepsLost
  <2> QED BY <2>1, <2>2, ReleasesLoseNothing DEF Built
<1> QED BY <1>1, <1>2 DEF KeepsLost

\* Decoding loses a block only when it fails: the container of an archive, and a
\* file of it. Bytes that are no DCX are not decoded.
LEMMA DecodingLoses ==
  /\ \A m, br : \A dcx \in BOOLEAN : SparesLost(m, open_decompressed(m, br, dcx))
  /\ \A m, br : \A dcx \in BOOLEAN : ~dcx => KeepsLost(m, open_decompressed(m, br, dcx))
  /\ \A m, form : SparesLost(m, extract_file_data(m, form))
  /\ \A m, form : form # "packed" => KeepsLost(m, extract_file_data(m, form))
<1>1. ASSUME NEW m, NEW d \in sf_dcx_decompress_from_buffer(m), d.ok
      PROVE  d.m.lost = m.lost
  BY <1>1, AllocsLoseNothing DEF sf_dcx_decompress_from_buffer, Refused, KeepsLost
<1>2. ASSUME NEW m, NEW br, NEW dcx \in BOOLEAN, NEW o \in open_decompressed(m, br, dcx), ~dcx \/ o.ok
      PROVE  o.m.lost = m.lost
  <2>1. CASE ~dcx
    BY <1>2, <2>1 DEF open_decompressed, Opened
  <2>2. CASE dcx
    <3>1. PICK d \in sf_dcx_decompress_from_buffer(m) :
             o \in IF ~d.ok THEN {Opened(FALSE, d.m, NoBr)}
                   ELSE {IF c.ok THEN c ELSE Opened(FALSE, sf_xfree(c.m, d.p), NoBr) :
                            c \in create_from_memory(d.m, d.p)}
      BY <2>2 DEF open_decompressed
    <3>2. d.ok
      BY <1>2, <2>2, <3>1 DEF Opened
    <3>3. PICK c \in create_from_memory(d.m, d.p) : o = IF c.ok THEN c ELSE Opened(FALSE, sf_xfree(c.m, d.p), NoBr)
      BY <3>1, <3>2
    <3>4. o = c
      BY <1>2, <2>2, <3>3 DEF Opened
    <3> QED BY <1>1, <3>2, <3>4, AllocsLoseNothing DEF KeepsLost
  <2> QED BY <2>1, <2>2
<1>3. ASSUME NEW m, NEW form, NEW o \in extract_file_data(m, form), form # "packed" \/ o.ok
      PROVE  o.m.lost = m.lost
  <2>1. PICK raw \in AllocIf(form # "empty", m) :
        o \in IF ~raw.ok THEN {raw}
              ELSE {Refused(sf_xfree(raw.m, raw.p))}
                   \cup (IF form = "packed"
                         THEN {IF d.ok THEN Given(sf_xfree(d.m, raw.p), d.p) ELSE Refused(sf_xfree(d.m, raw.p)) :
                                  d \in sf_dcx_decompress_from_buffer(raw.m)}
                         ELSE {raw})
    BY DEF extract_file_data
  <2>2. raw.m.lost = m.lost
    BY AllocsLoseNothing DEF KeepsLost
  <2>3. CASE o = raw \/ o = Refused(sf_xfree(raw.m, raw.p))
    BY <2>2, <2>3, ReleasesLoseNothing DEF Refused
  <2>4. ASSUME form = "packed", NEW d \in sf_dcx_decompress_from_buffer(raw.m),
               o = IF d.ok THEN Given(sf_xfree(d.m, raw.p), d.p) ELSE Refused(sf_xfree(d.m, raw.p))
        PROVE  o.m.lost = m.lost
    <3>1. d.ok
      BY <1>3, <2>4 DEF Refused
    <3> QED BY <1>1, <2>2, <2>4, <3>1, ReleasesLoseNothing DEF Given
  <2>5. \/ o = raw \/ o = Refused(sf_xfree(raw.m, raw.p))
        \/ /\ form = "packed"
           /\ \E d \in sf_dcx_decompress_from_buffer(raw.m) :
                 o = IF d.ok THEN Given(sf_xfree(d.m, raw.p), d.p) ELSE Refused(sf_xfree(d.m, raw.p))
    BY <2>1
  <2> QED BY <2>3, <2>4, <2>5
<1>4. ASSUME NEW m, NEW br, NEW dcx \in BOOLEAN
      PROVE  /\ SparesLost(m, open_decompressed(m, br, dcx))
             /\ ~dcx => KeepsLost(m, open_decompressed(m, br, dcx))
  BY <1>2 DEF KeepsLost, SparesLost
<1>5. ASSUME NEW m, NEW form
      PROVE  /\ SparesLost(m, extract_file_data(m, form))
             /\ form # "packed" => KeepsLost(m, extract_file_data(m, form))
  BY <1>3 DEF KeepsLost, SparesLost
<1> QED BY <1>4, <1>5

\* Reading the files of a binder loses a block only when decoding one fails.
LEMMA FilesLoseNothing ==
  ASSUME NEW o, NEW n, NEW named, NEW form, NEW x \in ReadFiles(o, n, named, form),
         x.ok \/ form # "packed"
  PROVE  x.m.lost = o.m.lost
<1>1. ASSUME NEW q, NEW y \in CopyNames(q, n, named)
      PROVE  y.m.lost = q.m.lost /\ (y.ok => q.ok)
  <2>1. CASE ~q.ok
    BY <1>1, <2>1 DEF CopyNames
  <2>2. CASE q.ok
    <3>1. PICK p \in bulk_copy_names(q.m, n, named) :
             y = Built(p.ok, p.m, BinderOf(q.b.self, q.b.version, q.b.files, q.b.cap,
                                           [i \in DOMAIN q.b.list |-> File(p.p, q.b.list[i].data)], p.p))
      BY <1>1, <2>2 DEF CopyNames
    <3>2. y.m = p.m
      BY <3>1 DEF Built
    <3> QED BY <2>2, <3>1, <3>2, AllocsLoseNothing DEF KeepsLost, bulk_copy_names
  <2> QED BY <2>1, <2>2
<1>2. ASSUME NEW q, NEW y \in ExtractAll(q, n, form), y.ok \/ form # "packed"
      PROVE  y.m.lost = q.m.lost
  <2>1. CASE y = q \/ y.m = Extracted(q.m, form, n)
    BY <2>1, ReleasesLoseNothing
  <2>2. ASSUME NEW k \in 0 .. n - 1, NEW d \in extract_file_data(Extracted(q.m, form, k), form),
               y = Built(FALSE, d.m, WithFiles(q.b, q.m, form, k))
        PROVE  y.m.lost = q.m.lost
    <3>1. y.ok = FALSE /\ y.m = d.m
      BY <2>2 DEF Built
    <3>2. d.m.lost = Extracted(q.m, form, k).lost
      BY <1>2, <3>1, DecodingLoses DEF KeepsLost
    <3> QED BY <3>1, <3>2, ReleasesLoseNothing
  <2>3. \/ y = q \/ y = Built(TRUE, Extracted(q.m, form, n), WithFiles(q.b, q.m, form, n))
        \/ \E k \in 0 .. n - 1 : \E d \in extract_file_data(Extracted(q.m, form, k), form) :
              y = Built(FALSE, d.m, WithFiles(q.b, q.m, form, k))
    BY <1>2 DEF ExtractAll
  <2> QED BY <2>1, <2>2, <2>3 DEF Built
<1>3. CASE kind \in Split
  <2>1. PICK y \in ExtractAll(o, n, form) : x \in CopyNames(y, n, named)
    BY <1>3 DEF ReadFiles
  <2>2. x.m.lost = y.m.lost /\ (x.ok => y.ok)
    BY <1>1, <2>1
  <2> QED BY <1>2, <2>1, <2>2
<1>4. CASE kind \notin Split
  <2>1. PICK y \in CopyNames(o, n, named) : x \in ExtractAll(y, n, form)
    BY <1>4 DEF ReadFiles
  <2> QED BY <1>1, <1>2, <2>1
<1> QED BY <1>3, <1>4

\* So does reading a binder from the readers of its sides.
LEMMA BinderLosesNothing ==
  ASSUME NEW m, NEW n, NEW named, NEW form, NEW o \in ReadBinder(m, n, named, form),
         o.ok \/ form # "packed"
  PROVE  o.m.lost = m.lost
<1>1. ASSUME NEW h, NEW b, NEW p \in PopulateFrom(h, b, n, named, form), p.ok \/ form # "packed"
      PROVE  p.m.lost = h.m.lost
  <2>1. PICK f \in AllocIf(n > 0, sf_xfree(h.m, b.version)) :
           p \in IF f.ok
                 THEN {EndPopulate(x, h.headers) :
                         x \in ReadFiles(Built(TRUE, f.m, BinderOf(b.self, h.version, f.p, n, <<>>, 0)), n, named, form)}
                 ELSE {Built(FALSE, sf_xfree(f.m, h.headers), BinderOf(b.self, h.version, 0, 0, <<>>, 0))}
    BY <1>1 DEF PopulateFrom
  <2>2. f.m.lost = h.m.lost
    BY AllocsLoseNothing, ReleasesLoseNothing DEF KeepsLost
  <2>3. CASE ~f.ok
    BY <2>1, <2>2, <2>3, ReleasesLoseNothing DEF Built
  <2>4. CASE f.ok
    <3> DEFINE q == Built(TRUE, f.m, BinderOf(b.self, h.version, f.p, n, <<>>, 0))
    <3>1. q.m = f.m
      BY DEF Built
    <3> HIDE DEF q
    <3>2. PICK x \in ReadFiles(q, n, named, form) : p = EndPopulate(x, h.headers)
      BY <2>1, <2>4 DEF q
    <3>3. (p.ok => x.ok) /\ p.m.lost = x.m.lost
      BY <3>2, ReleasesLoseNothing, DestroysLoseNothing DEF EndPopulate, Built
    <3> QED BY <1>1, <2>2, <3>1, <3>3, FilesLoseNothing
  <2> QED BY <2>3, <2>4
<1>2. ASSUME NEW l, NEW b, NEW p \in populate_from_reader(l, b, n, named, form), p.ok \/ form # "packed"
      PROVE  p.m.lost = l.lost
  <2>1. PICK h \in read_headers(l, n, named) :
           p \in IF h.ok THEN PopulateFrom(h, b, n, named, form) ELSE {Built(FALSE, h.m, b)}
    BY <1>2 DEF populate_from_reader
  <2>2. h.m.lost = l.lost
    BY HeadersLoseNothing DEF KeepsLost
  <2>3. CASE h.ok
    BY <1>1, <1>2, <2>1, <2>2, <2>3
  <2>4. CASE ~h.ok
    BY <2>1, <2>2, <2>4 DEF Built
  <2> QED BY <2>3, <2>4
<1>3. PICK c \in create(m) :
         o \in IF ~c.ok THEN {c}
               ELSE {IF p.ok THEN p ELSE Built(FALSE, destroy(p.m, p.b), NoBinder) :
                       p \in populate_from_reader(c.m, c.b, n, named, form)}
  BY DEF ReadBinder
<1>4. c.m.lost = m.lost
  BY CopiesLoseNothing DEF KeepsLost
<1>5. CASE ~c.ok
  BY <1>3, <1>4, <1>5
<1>6. CASE c.ok
  <2>1. PICK p \in populate_from_reader(c.m, c.b, n, named, form) :
           o = IF p.ok THEN p ELSE Built(FALSE, destroy(p.m, p.b), NoBinder)
    BY <1>3, <1>6
  <2>2. (o.ok => p.ok) /\ o.m.lost = p.m.lost
    BY <2>1, DestroysLoseNothing DEF Built
  <2> QED BY <1>2, <1>4, <2>1, <2>2
<1> QED BY <1>5, <1>6

\* Reading a binder from its files loses a block only when decoding one of them,
\* or a file in them, fails.
LEMMA ReadLosesNothing ==
  ASSUME NEW m, NEW n, NEW named, NEW form, NEW dcx \in BOOLEAN,
         NEW o \in read_from(m, n, named, form, dcx), o.ok \/ (~dcx /\ form # "packed")
  PROVE  o.m.lost = m.lost
<1>1. ASSUME NEW raw \in OpenRaw(m)
      PROVE  raw.m.lost = m.lost
  <2>1. PICK s \in AllocAll(m, Sides) :
           raw = IF s.ok THEN Pair(TRUE, s.m, Br(s.ps[1], 0), IF Sides = 2 THEN Br(s.ps[2], 0) ELSE NoBr)
                 ELSE NoPair(s.m)
    BY <1>1 DEF OpenRaw
  <2>2. raw.m = s.m
    BY <2>1 DEF Pair, NoPair
  <2> QED BY <2>2, AllocsLoseNothing DEF KeepsLost
<1>2. ASSUME NEW l, NEW raw, NEW use \in OpenDecompressed(l, raw, dcx), use.ok \/ ~dcx
      PROVE  use.m.lost = l.lost
  <2>1. PICK u \in open_decompressed(l, raw.a, dcx) :
           use \in IF ~u.ok THEN {NoPair(u.m)}
                   ELSE IF Sides = 1 THEN {Pair(TRUE, u.m, u.br, NoBr)}
                   ELSE {IF w.ok THEN Pair(TRUE, w.m, u.br, w.br)
                         ELSE NoPair(binary_reader_destroy(w.m, Extra(u.br, raw.a))) :
                           w \in open_decompressed(u.m, raw.b, dcx)}
    BY <1>2 DEF OpenDecompressed
  <2>2. u.ok \/ ~dcx => u.m.lost = l.lost
    BY DecodingLoses DEF KeepsLost, SparesLost
  <2>3. CASE ~u.ok
    <3>1. use.ok = FALSE /\ use.m = u.m
      BY <2>1, <2>3 DEF NoPair, Pair
    <3> QED BY <1>2, <2>2, <3>1
  <2>4. CASE u.ok /\ Sides = 1
    <3>1. use.m = u.m
      BY <2>1, <2>4 DEF Pair
    <3> QED BY <2>2, <2>4, <3>1
  <2>5. CASE u.ok /\ Sides # 1
    <3>1. PICK w \in open_decompressed(u.m, raw.b, dcx) :
             use = IF w.ok THEN Pair(TRUE, w.m, u.br, w.br)
                   ELSE NoPair(binary_reader_destroy(w.m, Extra(u.br, raw.a)))
      BY <2>1, <2>5
    <3>2. (use.ok => w.ok) /\ use.m.lost = w.m.lost
      BY <3>1, DestroysLoseNothing DEF Pair, NoPair
    <3>3. w.ok \/ ~dcx => w.m.lost = u.m.lost
      BY DecodingLoses DEF KeepsLost, SparesLost
    <3> QED BY <1>2, <2>2, <2>5, <3>2, <3>3
  <2> QED BY <2>3, <2>4, <2>5
<1>3. PICK raw \in OpenRaw(m) :
         o \in IF ~raw.ok THEN {Built(FALSE, raw.m, NoBinder)}
               ELSE UNION {IF ~use.ok THEN {Built(FALSE, DestroyReaders(use.m, raw.a, raw.b), NoBinder)}
                           ELSE {Built(x.ok, DestroyReaders(DestroyReaders(x.m, Extra(use.a, raw.a), Extra(use.b, raw.b)),
                                                            raw.a, raw.b), x.b) :
                                   x \in ReadBinder(use.m, n, named, form)}
                           : use \in OpenDecompressed(raw.m, raw, dcx)}
  BY DEF read_from
<1>4. CASE ~raw.ok
  BY <1>1, <1>3, <1>4 DEF Built
<1>5. CASE raw.ok
  <2>1. PICK use \in OpenDecompressed(raw.m, raw, dcx) :
           o \in IF ~use.ok THEN {Built(FALSE, DestroyReaders(use.m, raw.a, raw.b), NoBinder)}
                 ELSE {Built(x.ok, DestroyReaders(DestroyReaders(x.m, Extra(use.a, raw.a), Extra(use.b, raw.b)),
                                                  raw.a, raw.b), x.b) :
                         x \in ReadBinder(use.m, n, named, form)}
    BY <1>3, <1>5
  <2>2. CASE ~use.ok
    <3>1. o.ok = FALSE /\ o.m.lost = use.m.lost
      BY <2>1, <2>2, DestroysLoseNothing DEF Built
    <3> QED BY <1>1, <1>2, <2>1, <3>1
  <2>3. CASE use.ok
    <3>1. PICK x \in ReadBinder(use.m, n, named, form) :
             o = Built(x.ok, DestroyReaders(DestroyReaders(x.m, Extra(use.a, raw.a), Extra(use.b, raw.b)),
                                            raw.a, raw.b), x.b)
      BY <2>1, <2>3
    <3>2. o.ok = x.ok /\ o.m.lost = x.m.lost
      BY <3>1, DestroysLoseNothing DEF Built
    <3> QED BY <1>1, <1>2, <2>1, <2>3, <3>1, <3>2, BinderLosesNothing
  <2> QED BY <2>2, <2>3
<1> QED BY <1>4, <1>5

\* Opening a streaming reader loses a block only when decoding its files fails.
LEMMA OpeningLosesNothing ==
  ASSUME NEW m, NEW n, NEW named, NEW dcx \in BOOLEAN, NEW o \in reader_open(m, n, named, dcx),
         o.ok \/ ~dcx
  PROVE  o.m.lost = m.lost
<1>1. ASSUME NEW c, NEW raw, NEW l \in Unwrap(c, raw, dcx), l.ok \/ ~dcx
      PROVE  l.m.lost = c.m.lost
  <2>1. PICK u \in open_decompressed(c.m, c.br, dcx) :
           l = IF ~u.ok THEN NotLoaded(binary_reader_destroy(u.m, c.br))
               ELSE Loaded(TRUE, IF u.br # c.br THEN binary_reader_destroy(u.m, c.br) ELSE u.m, u.br, raw)
    BY <1>1 DEF Unwrap
  <2>2. (l.ok => u.ok) /\ l.m.lost = u.m.lost
    BY <2>1, DestroysLoseNothing DEF NotLoaded, Loaded
  <2>3. (u.ok \/ ~dcx) => u.m.lost = c.m.lost
    BY DecodingLoses DEF KeepsLost, SparesLost
  <2> QED BY <1>1, <2>2, <2>3
<1>2. ASSUME NEW k, NEW l \in load_file(k, dcx), l.ok \/ ~dcx
      PROVE  l.m.lost = k.lost
  <2>1. PICK b \in sf_xalloc(k) :
           l \in IF ~b.ok THEN {NotLoaded(b.m)}
                 ELSE {NotLoaded(sf_xfree(b.m, b.p))}
                      \cup UNION {IF c.ok THEN Unwrap(c, b.p, dcx) ELSE {NotLoaded(sf_xfree(c.m, b.p))}
                                  : c \in create_from_memory(b.m, b.p)}
    BY <1>2 DEF load_file
  <2>2. b.m.lost = k.lost /\ \A c \in create_from_memory(b.m, b.p) : c.m.lost = k.lost
    BY AllocsLoseNothing DEF KeepsLost
  <2>3. \/ l = NotLoaded(b.m) \/ l = NotLoaded(sf_xfree(b.m, b.p))
        \/ \E c \in create_from_memory(b.m, b.p) : l = NotLoaded(sf_xfree(c.m, b.p)) \/ l \in Unwrap(c, b.p, dcx)
    BY <2>1
  <2>4. CASE \/ l = NotLoaded(b.m) \/ l = NotLoaded(sf_xfree(b.m, b.p))
             \/ \E c \in create_from_memory(b.m, b.p) : l = NotLoaded(sf_xfree(c.m, b.p))
    BY <2>2, <2>4, ReleasesLoseNothing DEF NotLoaded, Loaded
  <2>5. CASE \E c \in create_from_memory(b.m, b.p) : l \in Unwrap(c, b.p, dcx)
    BY <1>1, <1>2, <2>2, <2>5
  <2> QED BY <2>3, <2>4, <2>5
<1>3. ASSUME NEW x \in LoadFiles(m, dcx), x.ok \/ ~dcx
      PROVE  x.m.lost = m.lost
  <2>1. PICK l \in load_file(m, dcx) :
           x \in IF ~l.ok THEN {NoFiles(l.m)}
                 ELSE IF Sides = 1 THEN {Files(TRUE, l.m, l.br, NoBr, l.raw)}
                 ELSE {IF k.ok THEN Files(TRUE, k.m, l.br, k.br, l.raw)
                       ELSE NoFiles(binary_reader_destroy(k.m, l.br)) : k \in load_file(l.m, dcx)}
    BY <1>3 DEF LoadFiles
  <2>2. l.ok \/ ~dcx => l.m.lost = m.lost
    BY <1>2
  <2>3. CASE ~l.ok
    <3>1. x.ok = FALSE /\ x.m = l.m
      BY <2>1, <2>3 DEF NoFiles, Files
    <3> QED BY <1>3, <2>2, <3>1
  <2>4. CASE l.ok /\ Sides = 1
    <3>1. x.m = l.m
      BY <2>1, <2>4 DEF Files
    <3> QED BY <2>2, <2>4, <3>1
  <2>5. CASE l.ok /\ Sides # 1
    <3>1. PICK k \in load_file(l.m, dcx) :
             x = IF k.ok THEN Files(TRUE, k.m, l.br, k.br, l.raw) ELSE NoFiles(binary_reader_destroy(k.m, l.br))
      BY <2>1, <2>5
    <3>2. (x.ok => k.ok) /\ x.m.lost = k.m.lost
      BY <3>1, DestroysLoseNothing DEF Files, NoFiles
    <3> QED BY <1>2, <1>3, <2>2, <2>5, <3>1, <3>2
  <2> QED BY <2>3, <2>4, <2>5
<1>4. \A k, x : cleanup_brs(k, x, dcx).lost = k.lost
  BY DestroysLoseNothing DEF cleanup_brs
<1>5. \A k, r, x : cleanup_rd(k, r, x, dcx).lost = k.lost
  BY <1>4, DestroysLoseNothing DEF cleanup_rd
<1>6. ASSUME NEW rd, NEW h, NEW x, NEW q \in FillReader(rd, h, x, n, named, dcx)
      PROVE  q.m.lost = h.m.lost
  <2>1. PICK f \in AllocIf(n > 0, h.m) :
           q \in LET r0 == ReaderOf(rd, h.version, h.headers, f.p, 0, n, NoBr, NoBr)
                 IN IF ~f.ok THEN {NoHandle(cleanup_rd(f.m, r0, x, dcx))}
                    ELSE {IF p.ok THEN Handle(TRUE, FreeRaw(p.m, x, dcx),
                                              ReaderOf(rd, h.version, h.headers, f.p, p.p, n, x.a, x.b))
                          ELSE NoHandle(cleanup_rd(p.m, r0, x, dcx)) : p \in bulk_copy_names(f.m, n, named)}
    BY <1>6 DEF FillReader
  <2> DEFINE r0 == ReaderOf(rd, h.version, h.headers, f.p, 0, n, NoBr, NoBr)
  <2>2. f.m.lost = h.m.lost
    BY AllocsLoseNothing DEF KeepsLost
  <2>3. CASE ~f.ok
    <3>1. q = NoHandle(cleanup_rd(f.m, r0, x, dcx))
      BY <2>1, <2>3
    <3> HIDE DEF r0
    <3> QED BY <1>5, <2>2, <3>1 DEF NoHandle, Handle
  <2>4. CASE f.ok
    <3>1. PICK p \in bulk_copy_names(f.m, n, named) :
             q = IF p.ok THEN Handle(TRUE, FreeRaw(p.m, x, dcx),
                                     ReaderOf(rd, h.version, h.headers, f.p, p.p, n, x.a, x.b))
                 ELSE NoHandle(cleanup_rd(p.m, r0, x, dcx))
      BY <2>1, <2>4
    <3> HIDE DEF r0
    <3>2. p.m.lost = f.m.lost
      BY AllocsLoseNothing DEF KeepsLost, bulk_copy_names
    <3>3. q.m.lost = p.m.lost
      BY <1>5, <3>1, DestroysLoseNothing DEF NoHandle, Handle
    <3> QED BY <2>2, <3>2, <3>3
  <2> QED BY <2>3, <2>4
<1>7. ASSUME NEW x, NEW q \in OpenHandle(x, n, named, dcx)
      PROVE  q.m.lost = x.m.lost
  <2>1. PICK rd \in sf_xalloc(x.m) :
           q \in IF ~rd.ok THEN {NoHandle(cleanup_brs(rd.m, x, dcx))}
                 ELSE UNION {IF h.ok THEN FillReader(rd.p, h, x, n, named, dcx)
                             ELSE {NoHandle(cleanup_brs(sf_xfree(h.m, rd.p), x, dcx))}
                             : h \in read_headers(rd.m, n, named)}
    BY <1>7 DEF OpenHandle
  <2>2. rd.m.lost = x.m.lost /\ \A h \in read_headers(rd.m, n, named) : h.m.lost = x.m.lost
    BY AllocsLoseNothing, HeadersLoseNothing DEF KeepsLost
  <2>3. CASE ~rd.ok
    <3>1. q = NoHandle(cleanup_brs(rd.m, x, dcx))
      BY <2>1, <2>3
    <3> QED BY <1>4, <2>2, <3>1 DEF NoHandle, Handle
  <2>4. CASE rd.ok
    <3>1. PICK h \in read_headers(rd.m, n, named) :
             q \in IF h.ok THEN FillReader(rd.p, h, x, n, named, dcx)
                   ELSE {NoHandle(cleanup_brs(sf_xfree(h.m, rd.p), x, dcx))}
      BY <2>1, <2>4
    <3>2. CASE h.ok
      BY <1>6, <2>2, <3>1, <3>2
    <3>3. CASE ~h.ok
      BY <1>4, <2>2, <3>1, <3>3, ReleasesLoseNothing DEF NoHandle, Handle
    <3> QED BY <3>2, <3>3
  <2> QED BY <2>3, <2>4
<1>8. PICK x \in LoadFiles(m, dcx) : o \in IF x.ok THEN OpenHandle(x, n, named, dcx) ELSE {NoHandle(x.m)}
  BY DEF reader_open
<1>9. CASE x.ok
  BY <1>3, <1>7, <1>8, <1>9
<1>10. CASE ~x.ok
  <2>1. o.ok = FALSE /\ o.m = x.m
    BY <1>8, <1>10 DEF NoHandle, Handle
  <2> QED BY <1>3, <2>1
<1> QED BY <1>9, <1>10

\* Opening a BHD5 decodes nothing, and so loses nothing on the way; neither does
\* extracting a file from one.
LEMMA Bhd5LosesNothing ==
  /\ \A m, encrypted : KeepsLost(m, bhd5_open(m, encrypted))
  /\ \A m, sized : KeepsLost(m, extract_file(m, sized))
<1>1. ASSUME NEW m, NEW b \in read_entire_wfile(m)
      PROVE  b.m.lost = m.lost
  BY AllocsLoseNothing, ReleasesLoseNothing DEF KeepsLost, read_entire_wfile, Refused
<1>2. ASSUME NEW m, NEW bytes, NEW b \in rsa_unwrap(m, bytes)
      PROVE  b.m.lost = m.lost
  <2>1. PICK p \in sf_xalloc(m) : b = IF p.ok THEN Given(sf_xfree(p.m, bytes), p.p) ELSE Refused(sf_xfree(p.m, bytes))
    BY <1>2 DEF rsa_unwrap
  <2>2. b.m = sf_xfree(p.m, bytes)
    BY <2>1 DEF Given, Refused
  <2> QED BY <2>2, AllocsLoseNothing, ReleasesLoseNothing DEF KeepsLost
<1>3. ASSUME NEW m, NEW encrypted, NEW t \in HeaderBytes(m, encrypted)
      PROVE  t.m.lost = m.lost
  <2>1. PICK b \in read_entire_wfile(m) : t = b \/ t \in rsa_unwrap(b.m, b.p)
    BY <1>3 DEF HeaderBytes
  <2> QED BY <1>1, <1>2, <2>1
<1>4. ASSUME NEW m, NEW r, NEW bytes, NEW o \in bhd5_parse(m, r, bytes)
      PROVE  o.m.lost = m.lost
  <2>1. ASSUME NEW k, NEW a \in ParseArrays(k, r)
        PROVE  a.m.lost = k.lost
    BY <2>1, ReleasesLoseNothing DEF ParseArrays, Handle
  <2>2. PICK c \in create_from_memory(m, bytes) :
           o \in IF ~c.ok THEN {Handle(FALSE, c.m, r)}
                 ELSE {Handle(a.ok, binary_reader_destroy(a.m, c.br), a.r) : a \in ParseArrays(c.m, r)}
    BY <1>4 DEF bhd5_parse
  <2>3. c.m.lost = m.lost
    BY AllocsLoseNothing DEF KeepsLost
  <2>4. CASE ~c.ok
    BY <2>2, <2>3, <2>4 DEF Handle
  <2>5. CASE c.ok
    <3>1. PICK a \in ParseArrays(c.m, r) : o = Handle(a.ok, binary_reader_destroy(a.m, c.br), a.r)
      BY <2>2, <2>5
    <3>2. o.m = binary_reader_destroy(a.m, c.br)
      BY <3>1 DEF Handle
    <3> QED BY <2>1, <2>3, <3>1, <3>2, DestroysLoseNothing
  <2> QED BY <2>4, <2>5
<1>5. ASSUME NEW o, NEW x \in OpenData(o)
      PROVE  x.m.lost = o.m.lost
  <2>1. PICK s \in sf_xalloc(o.m) :
           x = IF s.ok THEN Handle(TRUE, s.m, ReaderOf(o.r.self, o.r.version, o.r.headers, o.r.files, o.r.pool,
                                                       o.r.count, Br(s.p, 0), NoBr))
               ELSE NoHandle(reader_free(s.m, o.r))
    BY <1>5 DEF OpenData
  <2>2. x.m.lost = s.m.lost
    BY <2>1, DestroysLoseNothing DEF Handle, NoHandle
  <2> QED BY <2>2, AllocsLoseNothing DEF KeepsLost
<1>6. ASSUME NEW m, NEW self, NEW bytes, NEW x \in OpenParsed(m, self, bytes)
      PROVE  x.m.lost = m.lost
  <2>1. PICK o \in bhd5_parse(m, ReaderOf(self, 0, 0, 0, 0, MaxFiles, NoBr, NoBr), bytes) :
           x \in IF o.ok THEN OpenData(o) ELSE {NoHandle(reader_free(o.m, o.r))}
    BY <1>6 DEF OpenParsed
  <2>2. x.m.lost = o.m.lost
    BY <1>5, <2>1, DestroysLoseNothing DEF NoHandle, Handle
  <2> QED BY <1>4, <2>2
<1>7. ASSUME NEW m, NEW encrypted, NEW x \in bhd5_open(m, encrypted)
      PROVE  x.m.lost = m.lost
  <2>1. PICK t \in HeaderBytes(m, encrypted) :
           x \in IF ~t.ok THEN {NoHandle(t.m)}
                 ELSE UNION {IF b.ok THEN OpenParsed(b.m, b.p, t.p) ELSE {NoHandle(sf_xfree(b.m, t.p))}
                             : b \in sf_xalloc(t.m)}
    BY <1>7 DEF bhd5_open
  <2>2. t.m.lost = m.lost /\ \A b \in sf_xalloc(t.m) : b.m.lost = m.lost
    BY <1>3, AllocsLoseNothing DEF KeepsLost
  <2>3. CASE ~t.ok
    BY <2>1, <2>2, <2>3 DEF NoHandle, Handle
  <2>4. CASE t.ok
    <3>1. PICK b \in sf_xalloc(t.m) :
             x \in IF b.ok THEN OpenParsed(b.m, b.p, t.p) ELSE {NoHandle(sf_xfree(b.m, t.p))}
      BY <2>1, <2>4
    <3> QED BY <1>6, <2>2, <3>1, ReleasesLoseNothing DEF NoHandle, Handle
  <2> QED BY <2>3, <2>4
<1>8. ASSUME NEW m, NEW sized, NEW o \in extract_file(m, sized)
      PROVE  o.m.lost = m.lost
  BY <1>8, AllocsLoseNothing, ReleasesLoseNothing DEF KeepsLost, extract_file, Refused
<1> QED BY <1>7, <1>8 DEF KeepsLost

\* Writing loses nothing on the way.
LEMMA WritingLosesNothing ==
  /\ \A m, toMemory : KeepsLost(m, write_to(m, toMemory))
  /\ \A m : KeepsLost(m, bhd5_write(m))
<1>1. ASSUME NEW m, NEW toMemory, NEW p \in FinishOne(m, toMemory)
      PROVE  p.m.lost = m.lost
  BY AllocsLoseNothing DEF KeepsLost, FinishOne, Refused
<1>2. ASSUME NEW m, NEW ws, NEW toMemory, NEW e \in bnd4_finish(m, ws, toMemory)
      PROVE  e.m.lost = m.lost
  <2>1. PICK p \in FinishOne(Release(m, ws), toMemory) : e = Wrote(p.ok, p.m, {p.p} \ {0})
    BY <1>2 DEF bnd4_finish
  <2>2. e.m = p.m
    BY <2>1 DEF Wrote
  <2> QED BY <1>1, <2>1, <2>2, ReleasesLoseNothing
<1>3. ASSUME NEW m, NEW ws, NEW toMemory, NEW e \in finish_bytes(m, ws, toMemory)
      PROVE  e.m.lost = m.lost
  <2>1. PICK p \in FinishOne(m, toMemory) :
           e \in IF ~p.ok THEN {Wrote(FALSE, IF Sides = 2 THEN sf_xfree(p.m, ws[2]) ELSE p.m, {})}
                 ELSE IF Sides = 1 THEN {Wrote(TRUE, p.m, {p.p} \ {0})}
                 ELSE {IF q.ok THEN Wrote(TRUE, q.m, {p.p, q.p} \ {0}) ELSE Wrote(FALSE, sf_xfree(q.m, p.p), {})
                       : q \in FinishOne(p.m, toMemory)}
    BY <1>3 DEF finish_bytes
  <2>2. p.m.lost = m.lost
    BY <1>1
  <2>3. CASE ~p.ok \/ Sides = 1
    BY <2>1, <2>2, <2>3, ReleasesLoseNothing DEF Wrote
  <2>4. CASE p.ok /\ Sides # 1
    <3>1. PICK q \in FinishOne(p.m, toMemory) :
             e = IF q.ok THEN Wrote(TRUE, q.m, {p.p, q.p} \ {0}) ELSE Wrote(FALSE, sf_xfree(q.m, p.p), {})
      BY <2>1, <2>4
    <3> QED BY <1>1, <2>2, <3>1, ReleasesLoseNothing DEF Wrote
  <2> QED BY <2>3, <2>4
<1>4. ASSUME NEW os, NEW toMemory, NEW o \in WriteOn(os, toMemory)
      PROVE  o.m.lost = os.m.lost
  <2>1. PICK w \in AllocAll(os.m, Sides) :
           o \in IF ~w.ok THEN {Wrote(FALSE, Release(w.m, os.ps), {})}
                 ELSE {Wrote(FALSE, Release(Release(w.m, w.ps), os.ps), {})}
                      \cup {Wrote(e.ok, Release(e.m, os.ps), e.out) :
                              e \in IF kind = "bnd4" THEN bnd4_finish(w.m, w.ps, toMemory)
                                    ELSE finish_bytes(w.m, w.ps, toMemory)}
    BY <1>4 DEF WriteOn
  <2>2. w.m.lost = os.m.lost
    BY AllocsLoseNothing DEF KeepsLost
  <2>3. \/ o = Wrote(FALSE, Release(w.m, os.ps), {}) \/ o = Wrote(FALSE, Release(Release(w.m, w.ps), os.ps), {})
        \/ \E e : /\ e \in bnd4_finish(w.m, w.ps, toMemory) \/ e \in finish_bytes(w.m, w.ps, toMemory)
                  /\ o = Wrote(e.ok, Release(e.m, os.ps), e.out)
    BY <2>1
  <2>4. CASE o = Wrote(FALSE, Release(w.m, os.ps), {}) \/ o = Wrote(FALSE, Release(Release(w.m, w.ps), os.ps), {})
    BY <2>2, <2>4, ReleasesLoseNothing DEF Wrote
  <2>5. ASSUME NEW e, e \in bnd4_finish(w.m, w.ps, toMemory) \/ e \in finish_bytes(w.m, w.ps, toMemory),
               o = Wrote(e.ok, Release(e.m, os.ps), e.out)
        PROVE  o.m.lost = os.m.lost
    <3>1. e.m.lost = w.m.lost
      BY <1>2, <1>3, <2>5
    <3> QED BY <2>2, <2>5, <3>1, ReleasesLoseNothing DEF Wrote
  <2> QED BY <2>3, <2>4, <2>5
<1>5. ASSUME NEW m, NEW toMemory, NEW o \in write_to(m, toMemory)
      PROVE  o.m.lost = m.lost
  <2>1. PICK os \in AllocAll(m, Sides) : o \in IF os.ok THEN WriteOn(os, toMemory) ELSE {Wrote(FALSE, os.m, {})}
    BY <1>5 DEF write_to
  <2>2. os.m.lost = m.lost
    BY AllocsLoseNothing DEF KeepsLost
  <2> QED BY <1>4, <2>1, <2>2 DEF Wrote
<1>6. ASSUME NEW m, NEW o \in bhd5_write(m)
      PROVE  o.m.lost = m.lost
  <2>1. PICK t \in AllocAll(m, 3) :
           o \in IF ~t.ok THEN {Wrote(FALSE, t.m, {})}
                 ELSE UNION {IF ~s.ok THEN {Wrote(FALSE, Release(s.m, t.ps), {})}
                             ELSE {Wrote(done = "finished",
                                         Release(IF done = "stopped" THEN Release(s.m, s.ps) ELSE sf_xfree(s.m, s.ps[1]), t.ps), {})
                                   : done \in {"stopped", "unfilled", "finished"}}
                             : s \in AllocAll(t.m, 2)}
    BY <1>6 DEF bhd5_write
  <2>2. t.m.lost = m.lost /\ \A s \in AllocAll(t.m, 2) : s.m.lost = m.lost
    BY AllocsLoseNothing DEF KeepsLost
  <2>3. CASE ~t.ok
    BY <2>1, <2>2, <2>3 DEF Wrote
  <2>4. CASE t.ok
    <3>1. PICK s \in AllocAll(t.m, 2) :
             o \in IF ~s.ok THEN {Wrote(FALSE, Release(s.m, t.ps), {})}
                   ELSE {Wrote(done = "finished",
                               Release(IF done = "stopped" THEN Release(s.m, s.ps) ELSE sf_xfree(s.m, s.ps[1]), t.ps), {})
                         : done \in {"stopped", "unfilled", "finished"}}
      BY <2>1, <2>4
    <3> QED BY <2>2, <3>1, ReleasesLoseNothing DEF Wrote
  <2> QED BY <2>3, <2>4
<1> QED BY <1>5, <1>6 DEF KeepsLost

\* Changing a list of files or the version loses nothing.
LEMMA ChangesLoseNothing ==
  /\ \A m, b, named, sized, at : KeepsLost(m, add_file(m, b, named, sized, at))
  /\ \A m, b, named, data : KeepsLost(m, add_file_take(m, b, named, data))
  /\ \A m, b, i : remove_file(m, b, i).m.lost = m.lost
  /\ \A m, b, v : KeepsLost(m, set_version4(m, b, v)) /\ KeepsLost(m, set_version3(m, b, v))
<1>1. ASSUME NEW m, NEW b, NEW g \in grow_files(m, b)
      PROVE  g.m.lost = m.lost
  BY AllocsLoseNothing DEF KeepsLost, grow_files, Built
<1>2. ASSUME NEW m, NEW b, NEW named, NEW sized, NEW at, NEW o \in add_file(m, b, named, sized, at)
      PROVE  o.m.lost = m.lost
  <2>1. PICK g \in grow_files(m, b) :
           o \in IF ~g.ok THEN {g}
                 ELSE {Built(d.ok, d.m, IF d.ok THEN WithList(g.b, Append(g.b.list, d.file)) ELSE g.b) :
                         d \in file_dup(Touch(g.m, at), named, sized)}
    BY <1>2 DEF add_file
  <2>2. g.m.lost = m.lost /\ \A d \in file_dup(Touch(g.m, at), named, sized) : d.m.lost = m.lost
    BY <1>1, CopiesLoseNothing, ReleasesLoseNothing DEF KeepsLost
  <2> QED BY <2>1, <2>2 DEF Built
<1>3. ASSUME NEW m, NEW b, NEW named, NEW data, NEW o \in add_file_take(m, b, named, data)
      PROVE  o.m.lost = m.lost
  <2>1. PICK g \in grow_files(m, b) :
           o \in IF ~g.ok THEN {g}
                 ELSE {Built(s.ok, s.m, IF s.ok THEN WithList(g.b, Append(g.b.list, File(s.p, data))) ELSE g.b) :
                         s \in AllocIf(named, g.m)}
    BY <1>3 DEF add_file_take
  <2>2. g.m.lost = m.lost /\ \A s \in AllocIf(named, g.m) : s.m.lost = m.lost
    BY <1>1, AllocsLoseNothing DEF KeepsLost
  <2> QED BY <2>1, <2>2 DEF Built
<1>4. ASSUME NEW m, NEW b, NEW i
      PROVE  remove_file(m, b, i).m.lost = m.lost
  BY ReleasesLoseNothing DEF remove_file, file_free
<1>5. ASSUME NEW m, NEW b, NEW v, NEW o \in set_version4(m, b, v)
      PROVE  o.m.lost = m.lost
  BY AllocsLoseNothing, ReleasesLoseNothing DEF KeepsLost, set_version4
<1>6. ASSUME NEW m, NEW b, NEW v, NEW o \in set_version3(m, b, v)
      PROVE  o.m.lost = m.lost
  <2> DEFINE freed == sf_xfree(m, b.version)
             seen == IF v = "own" THEN Touch(freed, b.version) ELSE freed
  <2>1. PICK c \in AllocIf(v # "null", seen) : o = [m |-> c.m, b |-> WithVersion(b, c.p)]
    BY <1>6 DEF set_version3
  <2>2. seen.lost = m.lost
    BY ReleasesLoseNothing
  <2> HIDE DEF seen
  <2> QED BY <2>1, <2>2, AllocsLoseNothing DEF KeepsLost
<1> QED BY <1>2, <1>3, <1>4, <1>5, <1>6 DEF KeepsLost

(***************************************************************************)
(* The state between calls.                                                *)
(***************************************************************************)
\* A pointer that was renumbered after the place k, and kept if it was null.
At(p, k) == IF p = 0 THEN 0 ELSE k

\* Every block of the handles b and r has the number of the place that holds it.
Numbered(b, r) ==
  /\ b.self \in {0, 1} /\ b.version \in {0, 2} /\ b.files \in {0, 3} /\ b.pool \in {0, 4}
  /\ r.self \in {0, 5} /\ r.version \in {0, 6} /\ r.headers \in {0, 7} /\ r.files \in {0, 8}
  /\ r.pool \in {0, 9} /\ r.br.self \in {0, 10} /\ r.br.buf \in {0, 11}
  /\ r.br2.self \in {0, 12} /\ r.br2.buf \in {0, 13}
  /\ \A i \in 1 .. Len(b.list) : /\ OwnName(b.list[i], b.pool) \in {0, 16 * i + 1}
                                 /\ b.list[i].data \in {0, 16 * i + 2}

\* At most one handle, with lists within bounds and no block held twice.
Handles(b, r) ==
  /\ IsBinder(b) /\ IsReader(r) /\ (b = NoBinder \/ r = NoReader)
  /\ Len(b.list) <= MaxFiles
HeldBlocks(b, r) == BinderBlocks(b) \cup ReaderBlocks(r)

\* The handles b and r and the caller's blocks mn, when the heap is h.
Standing(b, r, mn, h) ==
  /\ Handles(b, r) /\ Numbered(b, r)
  /\ Cardinality(mn) \in 0 .. MaxMine /\ mn = Base + 1 .. Base + Cardinality(mn)
  /\ h = HeldBlocks(b, r) \cup mn

\* The inductive invariant: what the handles and the caller hold is all that is
\* live between calls, each block is held once and numbered after its place, and
\* the last call did no more wrong than is known. OneOwner alone is not
\* inductive: the calls also need the list within its array, the array exactly
\* when there is room, and that at most one handle is in use.
IndInv ==
  /\ kind \in Kinds /\ failed \in BOOLEAN
  /\ kind = "bhd5" => binder = NoBinder
  /\ Standing(binder, reader, mine, heap)
  /\ \A u \in misuse : u[2] \in {"twice", "stale", "foreign"}
  /\ OnlyKnownMisuse /\ OnlyKnownLeaks

\* Counting the caller's blocks from the lowest numbers them 1, 2, 3 and so on.
LEMMA Ranks ==
  ASSUME NEW mn, IsFiniteSet(mn), mn \subseteq Nat
  PROVE  LET rank(p) == Cardinality({q \in mn : q <= p})
         IN  /\ \A p \in mn : rank(p) \in 1 .. Cardinality(mn)
             /\ \A p, q \in mn : p < q => rank(p) < rank(q)
             /\ \A B \in Nat : {B + rank(p) : p \in mn} = B + 1 .. B + Cardinality(mn)
<1> DEFINE upTo(p) == {q \in mn : q <= p}
           rank(p) == Cardinality(upTo(p))
           k == Cardinality(mn)
<1>1. ASSUME NEW p \in mn
      PROVE  IsFiniteSet(upTo(p)) /\ rank(p) \in 1 .. k
  <2>1. upTo(p) \in SUBSET mn /\ p \in upTo(p)
    OBVIOUS
  <2>2. IsFiniteSet(upTo(p)) /\ rank(p) <= k /\ k \in Nat /\ rank(p) \in Nat
    <3> HIDE DEF upTo
    <3>1. IsFiniteSet(upTo(p)) /\ rank(p) <= k
      BY <2>1, FS_Subset
    <3> QED BY <3>1, FS_CardinalityType
  <2>3. rank(p) # 0
    <3> HIDE DEF upTo
    <3> QED BY <2>1, <2>2, FS_EmptySet
  <2> HIDE DEF rank, k
  <2> QED BY <2>2, <2>3
<1>2. ASSUME NEW p \in mn, NEW q \in mn, p < q
      PROVE  rank(p) < rank(q)
  <2>0. p \in Nat /\ q \in Nat /\ \A z \in mn : z \in Nat
    OBVIOUS
  <2>1. upTo(p) \in SUBSET upTo(q) /\ q \in upTo(q) /\ q \notin upTo(p)
    <3>1. \A z \in mn : z <= p => z <= q
      BY <1>2, <2>0
    <3>2. ~(q <= p) /\ q <= q
      BY <1>2, <2>0
    <3> QED BY <3>1, <3>2
  <2>2. IsFiniteSet(upTo(q)) /\ rank(q) \in 1 .. k /\ rank(p) \in 1 .. k
    BY <1>1
  <2>3. k \in Nat
    BY FS_CardinalityType
  <2> HIDE DEF upTo
  <2>4. rank(p) <= rank(q) /\ (rank(q) = rank(p) => upTo(q) = upTo(p))
    BY <2>1, <2>2, FS_Subset
  <2>5. rank(q) # rank(p)
    BY <2>1, <2>4
  <2> HIDE DEF rank, k
  <2> QED BY <2>2, <2>3, <2>4, <2>5
<1>3. ASSUME NEW B \in Nat
      PROVE  {B + rank(p) : p \in mn} = B + 1 .. B + k
  <2> DEFINE T == B + 1 .. B + k
             f == [p \in mn |-> B + rank(p)]
  <2>1. k \in Nat
    BY FS_CardinalityType
  <2>2. IsFiniteSet(T) /\ Cardinality(T) = k
    <3>1. B + 1 \in Int /\ B + k \in Int
      BY <2>1
    <3> HIDE DEF k
    <3>2. \A a, b \in Int : IsFiniteSet(a .. b) /\ Cardinality(a .. b) = IF a > b THEN 0 ELSE b - a + 1
      BY FS_Interval
    <3>3. IsFiniteSet(T) /\ Cardinality(T) = IF B + 1 > B + k THEN 0 ELSE (B + k) - (B + 1) + 1
      BY <3>1, <3>2
    <3> HIDE DEF T
    <3> QED BY <2>1, <3>3
  <2>3. \A p \in mn : B + rank(p) \in T
    <3>1. \A p \in mn : rank(p) \in 1 .. k
      BY <1>1
    <3> HIDE DEF rank, k
    <3> QED BY <2>1, <3>1
  <2>4. \A p, q \in mn : B + rank(p) = B + rank(q) => p = q
    <3> SUFFICES ASSUME NEW p \in mn, NEW q \in mn, B + rank(p) = B + rank(q) PROVE p = q
      OBVIOUS
    <3>1. rank(p) \in 1 .. k /\ rank(q) \in 1 .. k /\ p \in Nat /\ q \in Nat
      BY <1>1
    <3>2. (p < q => rank(p) < rank(q)) /\ (q < p => rank(q) < rank(p))
      BY <1>2
    <3> HIDE DEF rank, k
    <3> QED BY <2>1, <3>1, <3>2
  <2> HIDE DEF rank, k
  <2>5. f \in Injection(mn, T)
    BY <2>3, <2>4 DEF Injection, IsInjective
  <2>6. f \in Surjection(mn, T)
    <3> HIDE DEF f, T
    <3> QED BY <2>2, <2>5, FS_Injection DEF k
  <2>7. \A t \in T : \E p \in mn : f[p] = t
    BY <2>6 DEF Surjection
  <2>8. \A t \in T : \E p \in mn : t = B + rank(p)
    BY <2>7
  <2> QED BY <2>3, <2>8
<1> QED BY <1>1, <1>2, <1>3

\* Blocks that have these numbers already keep them.
LEMMA RankInterval ==
  ASSUME NEW mn, NEW k \in Nat, NEW B \in Nat, mn = B + 1 .. B + k
  PROVE  \A p \in mn : B + Cardinality({q \in mn : q <= p}) = p
<1> SUFFICES ASSUME NEW p \in mn PROVE B + Cardinality({q \in mn : q <= p}) = p
  OBVIOUS
<1>1. p \in Int /\ B + 1 \in Int /\ p >= B + 1
  OBVIOUS
<1>2. {q \in mn : q <= p} = B + 1 .. p
  OBVIOUS
<1>3. Cardinality(B + 1 .. p) = IF B + 1 > p THEN 0 ELSE p - (B + 1) + 1
  BY <1>1, FS_Interval
<1>4. Cardinality(B + 1 .. p) = p - B
  BY <1>1, <1>3
<1>5. Cardinality({q \in mn : q <= p}) = p - B
  BY <1>2, <1>4
<1> QED BY <1>1, <1>5

\* The thirteen fields of the two handles, by place.
LEMMA FixedAt ==
  ASSUME NEW b, NEW r
  PROVE  LET F == Fixed(b, r)
         IN  /\ F[1] = b.self /\ F[2] = b.version /\ F[3] = b.files /\ F[4] = b.pool
             /\ F[5] = r.self /\ F[6] = r.version /\ F[7] = r.headers /\ F[8] = r.files /\ F[9] = r.pool
             /\ F[10] = r.br.self /\ F[11] = r.br.buf /\ F[12] = r.br2.self /\ F[13] = r.br2.buf
BY DEF Fixed

\* A place is a field of a handle or one of the two pointers of a file.
LEMMA PlaceCases ==
  ASSUME NEW n \in Nat, NEW x \in Places(n)
  PROVE  \/ \E j \in 1 .. 13 : x = <<0, j>>
         \/ \E i \in 1 .. n : \E s \in {1, 2} : x = <<i, s>>
<1>1. CASE x \in {0} \X (1 .. 13)
  BY <1>1
<1>2. CASE x \in (1 .. n) \X {1, 2}
  BY <1>2
<1> QED BY <1>1, <1>2 DEF Places

\* All of these are places.
LEMMA PlacesAre ==
  ASSUME NEW n \in Nat
  PROVE  /\ \A j \in 1 .. 13 : <<0, j>> \in Places(n)
         /\ \A i \in 1 .. n : \A s \in {1, 2} : <<i, s>> \in Places(n)
BY DEF Places

\* The entries of a list are files.
LEMMA ListDomain ==
  ASSUME NEW list, IsList(list)
  PROVE  /\ Len(list) \in Nat /\ DOMAIN list = 1 .. Len(list)
         /\ \A i \in 1 .. Len(list) : list[i] \in [name : Nat, data : Nat]
<1> DEFINE F == [name : Nat, data : Nat]
<1>1. list \in Seq(F)
  BY DEF IsList
<1> HIDE DEF F
<1>2. Len(list) \in Nat /\ DOMAIN list = 1 .. Len(list) /\ \A i \in 1 .. Len(list) : list[i] \in F
  BY <1>1
<1> QED BY <1>2 DEF F

\* The pointers of a list of files, by place.
LEMMA FilePointersAt ==
  ASSUME NEW list, IsList(list), NEW pool
  PROVE  LET fs == FilePointers(list, pool)
         IN  /\ DOMAIN fs = (1 .. Len(list)) \X {1, 2}
             /\ \A i \in 1 .. Len(list) : fs[<<i, 1>>] = OwnName(list[i], pool) /\ fs[<<i, 2>>] = list[i].data
<1>1. DOMAIN list = 1 .. Len(list)
  BY ListDomain
<1>2. DOMAIN FilePointers(list, pool) = (1 .. Len(list)) \X {1, 2}
  BY <1>1 DEF FilePointers
<1>3. ASSUME NEW i \in 1 .. Len(list)
      PROVE  /\ FilePointers(list, pool)[<<i, 1>>] = OwnName(list[i], pool)
             /\ FilePointers(list, pool)[<<i, 2>>] = list[i].data
  <2>1. i \in DOMAIN list
    BY <1>1
  <2>2. <<i, 1>> \in (DOMAIN list) \X {1, 2} /\ <<i, 2>> \in (DOMAIN list) \X {1, 2}
    BY <2>1
  <2>3. <<i, 1>>[1] = i /\ <<i, 1>>[2] = 1 /\ <<i, 2>>[1] = i /\ <<i, 2>>[2] = 2 /\ 1 # 2
    OBVIOUS
  <2> QED BY <2>2, <2>3 DEF FilePointers
<1> QED BY <1>2, <1>3

\* The pointers of both handles, by place.
LEMMA PointersAt ==
  ASSUME NEW b, NEW r, IsList(b.list)
  PROVE  LET ps == Pointers(b, r)
             n == Len(b.list)
         IN  /\ DOMAIN ps = Places(n)
             /\ \A j \in 1 .. 13 : ps[<<0, j>>] = Fixed(b, r)[j]
             /\ \A i \in 1 .. n : ps[<<i, 1>>] = OwnName(b.list[i], b.pool) /\ ps[<<i, 2>>] = b.list[i].data
             /\ \A i \in 1 .. n : \A s \in {1, 2} : ps[<<i, s>>] = FilePointers(b.list, b.pool)[<<i, s>>]
<1> DEFINE ps == Pointers(b, r)
           n == Len(b.list)
<1>1. n \in Nat /\ DOMAIN b.list = 1 .. n
  BY ListDomain
<1>2. DOMAIN ps = Places(n)
  BY DEF Pointers
<1>3. \A j \in 1 .. 13 : ps[<<0, j>>] = Fixed(b, r)[j]
  <2> HIDE DEF n
  <2>1. \A j \in 1 .. 13 : <<0, j>> \in Places(n) /\ <<0, j>>[1] = 0 /\ <<0, j>>[2] = j
    BY <1>1, PlacesAre
  <2> QED BY <2>1 DEF Pointers, n
<1>4. \A i \in 1 .. n : \A s \in {1, 2} : ps[<<i, s>>] = FilePointers(b.list, b.pool)[<<i, s>>]
  <2>1. \A i \in 1 .. n : \A s \in {1, 2} : <<i, s>> \in Places(n) /\ <<i, s>>[1] = i /\ i # 0
    <3> HIDE DEF n
    <3>1. \A i \in 1 .. n : \A s \in {1, 2} : <<i, s>> \in Places(n)
      BY <1>1, PlacesAre
    <3>2. \A i \in 1 .. n : i # 0
      BY <1>1
    <3>3. \A i, s : <<i, s>>[1] = i
      OBVIOUS
    <3> HIDE DEF Places
    <3> QED BY <3>1, <3>2, <3>3
  <2> QED BY <2>1 DEF Pointers
<1>5. \A i \in 1 .. n : /\ FilePointers(b.list, b.pool)[<<i, 1>>] = OwnName(b.list[i], b.pool)
                        /\ FilePointers(b.list, b.pool)[<<i, 2>>] = b.list[i].data
  BY FilePointersAt
<1> QED BY <1>2, <1>3, <1>4, <1>5

\* Of pointers that share no block, each is renumbered after its own place.
LEMMA AddressAt ==
  ASSUME NEW ps, Once(ps), NEW mn, NEW x \in DOMAIN ps
  PROVE  Address(ps, mn, ps[x]) = At(ps[x], Number(x))
<1>1. CASE ps[x] = 0
  BY <1>1 DEF Address, At
<1>2. CASE ps[x] # 0
  <2>1. \E y \in DOMAIN ps : ps[y] = ps[x]
    OBVIOUS
  <2> DEFINE y == CHOOSE y \in DOMAIN ps : ps[y] = ps[x]
  <2>2. y \in DOMAIN ps /\ ps[y] = ps[x]
    BY <2>1
  <2>3. y = x
    <3> HIDE DEF y
    <3> QED BY <1>2, <2>2 DEF Once
  <2>4. Address(ps, mn, ps[x]) = Number(y)
    BY <1>2, <2>1 DEF Address
  <2> HIDE DEF y
  <2> QED BY <1>2, <2>3, <2>4 DEF At
<1> QED BY <1>1, <1>2

\* Of the fields of the handles no two are the same block; they are the blocks of
\* the handles besides the files.
LEMMA FixedOnce ==
  ASSUME NEW b, NEW r, IsBinder(b), IsReader(r), b = NoBinder \/ r = NoReader
  PROVE  LET F == Fixed(b, r)
         IN  /\ \A i, j \in 1 .. 13 : F[i] # 0 /\ F[i] = F[j] => i = j
             /\ \A i \in 1 .. 13 : F[i] # 0 => F[i] \in HandleBlocks(b) \cup ReaderBlocks(r)
             /\ \A p \in HandleBlocks(b) \cup ReaderBlocks(r) : \E i \in 1 .. 13 : p = F[i] /\ p # 0
<1> DEFINE F == Fixed(b, r)
<1>1. /\ F[1] = b.self /\ F[2] = b.version /\ F[3] = b.files /\ F[4] = b.pool
      /\ F[5] = r.self /\ F[6] = r.version /\ F[7] = r.headers /\ F[8] = r.files /\ F[9] = r.pool
      /\ F[10] = r.br.self /\ F[11] = r.br.buf /\ F[12] = r.br2.self /\ F[13] = r.br2.buf
  BY FixedAt
<1> HIDE DEF F
<1>2. /\ HandleBlocks(b) = {F[1], F[2], F[3], F[4]} \ {0}
      /\ ReaderBlocks(r) = {F[5], F[6], F[7], F[8], F[9], F[10], F[11], F[12], F[13]} \ {0}
  <2>1. HandleBlocks(b) = {F[1], F[2], F[3], F[4]} \ {0}
    BY <1>1 DEF HandleBlocks
  <2>2. FieldBlocks(r) = {F[5], F[6], F[7], F[8], F[9]} \ {0}
    BY <1>1 DEF FieldBlocks
  <2>3. BrBlocks(r.br) = {F[10], F[11]} \ {0} /\ BrBlocks(r.br2) = {F[12], F[13]} \ {0}
    BY <1>1 DEF BrBlocks
  <2> QED BY <2>1, <2>2, <2>3 DEF ReaderBlocks, PairBlocks
<1>3. /\ Differ(F[1], F[2]) /\ Differ(F[1], F[3]) /\ Differ(F[1], F[4])
      /\ Differ(F[2], F[3]) /\ Differ(F[2], F[4]) /\ Differ(F[3], F[4])
  BY <1>1 DEF IsBinder, BinderOnce
<1>4. /\ Differ(F[5], F[6]) /\ Differ(F[5], F[7]) /\ Differ(F[5], F[8]) /\ Differ(F[5], F[9])
      /\ Differ(F[6], F[7]) /\ Differ(F[6], F[8]) /\ Differ(F[6], F[9])
      /\ Differ(F[7], F[8]) /\ Differ(F[7], F[9]) /\ Differ(F[8], F[9])
  BY <1>1 DEF IsReader, ReaderOnce
<1>5. Differ(F[10], F[11]) /\ Differ(F[12], F[13])
  BY <1>1 DEF IsReader, ReaderOnce, IsBr, Differ
<1>6. /\ Differ(F[10], F[12]) /\ Differ(F[10], F[13]) /\ Differ(F[11], F[12]) /\ Differ(F[11], F[13])
  <2>1. BrBlocks(r.br) \cap BrBlocks(r.br2) = {}
    BY DEF IsReader, ReaderOnce
  <2> QED BY <1>1, <2>1 DEF BrBlocks, Differ
<1>7. ASSUME NEW i \in 5 .. 9, NEW j \in 10 .. 13 PROVE Differ(F[i], F[j])
  <2>1. FieldBlocks(r) \cap PairBlocks(r.br, r.br2) = {}
    BY DEF IsReader, ReaderOnce
  <2>2. F[i] # 0 => F[i] \in FieldBlocks(r)
    BY <1>1, i = 5 \/ i = 6 \/ i = 7 \/ i = 8 \/ i = 9 DEF FieldBlocks
  <2>3. F[j] # 0 => F[j] \in PairBlocks(r.br, r.br2)
    BY <1>1, j = 10 \/ j = 11 \/ j = 12 \/ j = 13 DEF PairBlocks, BrBlocks
  <2> QED BY <2>1, <2>2, <2>3 DEF Differ
<1>8. \A i \in 1 .. 13 : F[i] # 0 => F[i] \in HandleBlocks(b) \cup ReaderBlocks(r)
  <2> SUFFICES ASSUME NEW i \in 1 .. 13, F[i] # 0 PROVE F[i] \in HandleBlocks(b) \cup ReaderBlocks(r)
    OBVIOUS
  <2>1. CASE i \in 1 .. 4
    <3>1. i = 1 \/ i = 2 \/ i = 3 \/ i = 4
      BY <2>1
    <3> QED BY <1>2, <3>1
  <2>2. CASE i \in 5 .. 13
    <3>1. i = 5 \/ i = 6 \/ i = 7 \/ i = 8 \/ i = 9 \/ i = 10 \/ i = 11 \/ i = 12 \/ i = 13
      BY <2>2
    <3> QED BY <1>2, <3>1
  <2> QED BY <2>1, <2>2
<1>9. \A p \in HandleBlocks(b) \cup ReaderBlocks(r) : \E i \in 1 .. 13 : p = F[i] /\ p # 0
  BY <1>2
<1>10. \A i, j \in 1 .. 13 : F[i] # 0 /\ F[i] = F[j] => i = j
  <2> SUFFICES ASSUME NEW i \in 1 .. 13, NEW j \in 1 .. 13, F[i] # 0, F[i] = F[j] PROVE i = j
    OBVIOUS
  <2>1. CASE r = NoReader
    <3>1. F[5] = 0 /\ F[6] = 0 /\ F[7] = 0 /\ F[8] = 0 /\ F[9] = 0 /\ F[10] = 0 /\ F[11] = 0 /\ F[12] = 0 /\ F[13] = 0
      BY <1>1, <2>1 DEF NoReader, ReaderOf, NoBr, Br
    <3>2. i \in 1 .. 4 /\ j \in 1 .. 4
      BY <3>1
    <3> QED BY <1>3, <3>2 DEF Differ
  <2>2. CASE b = NoBinder
    <3>1. F[1] = 0 /\ F[2] = 0 /\ F[3] = 0 /\ F[4] = 0
      BY <1>1, <2>2 DEF NoBinder, BinderOf
    <3>2. i \in 5 .. 13 /\ j \in 5 .. 13
      BY <3>1
    <3>3. CASE i \in 5 .. 9 /\ j \in 5 .. 9
      BY <1>4, <3>3 DEF Differ
    <3>4. CASE i \in 10 .. 13 /\ j \in 10 .. 13
      BY <1>5, <1>6, <3>4 DEF Differ
    <3>5. CASE i \in 5 .. 9 /\ j \in 10 .. 13
      BY <1>7, <3>5 DEF Differ
    <3>6. CASE j \in 5 .. 9 /\ i \in 10 .. 13
      BY <1>7, <3>6 DEF Differ
    <3> QED BY <3>2, <3>3, <3>4, <3>5, <3>6
  <2> QED BY <2>1, <2>2
<1> QED BY <1>8, <1>9, <1>10 DEF F

\* Every block the handles hold is held by one place.
LEMMA HeldOnce ==
  ASSUME NEW b, NEW r, Handles(b, r)
  PROVE  Once(Pointers(b, r)) /\ Blocks(Pointers(b, r)) = HeldBlocks(b, r)
<1> DEFINE ps == Pointers(b, r)
           n == Len(b.list)
           F == Fixed(b, r)
           fs == FilePointers(b.list, b.pool)
           H == HandleBlocks(b) \cup ReaderBlocks(r)
           L == FileBlocks(b.list, b.pool)
<1>1. IsBinder(b) /\ IsReader(r) /\ (b = NoBinder \/ r = NoReader) /\ IsList(b.list)
  BY DEF Handles, IsBinder
<1>2. n \in Nat /\ DOMAIN b.list = 1 .. n
  BY <1>1, ListDomain
<1>3. /\ DOMAIN ps = Places(n)
      /\ \A j \in 1 .. 13 : ps[<<0, j>>] = F[j]
      /\ \A i \in 1 .. n : \A s \in {1, 2} : ps[<<i, s>>] = fs[<<i, s>>]
  BY <1>1, PointersAt
<1>4. /\ \A i, j \in 1 .. 13 : F[i] # 0 /\ F[i] = F[j] => i = j
      /\ \A i \in 1 .. 13 : F[i] # 0 => F[i] \in H
      /\ \A p \in H : \E i \in 1 .. 13 : p = F[i] /\ p # 0
  BY <1>1, FixedOnce
<1>5. DOMAIN fs = (1 .. n) \X {1, 2} /\ Once(fs) /\ L = Blocks(fs)
  BY <1>1, <1>2 DEF FilePointers, FileBlocks, FilesOnce, IsBinder, BinderOnce
<1>6. H \cap L = {}
  <2>1. HandleBlocks(b) \cap L = {}
    BY <1>1 DEF IsBinder, BinderOnce
  <2>2. CASE r = NoReader
    <3>1. ReaderBlocks(r) = {}
      BY <2>2 DEF NoReader, ReaderOf, NoBr, Br, ReaderBlocks, FieldBlocks, PairBlocks, BrBlocks
    <3> QED BY <2>1, <3>1
  <2>3. CASE b = NoBinder
    <3>1. b.list = <<>>
      BY <2>3 DEF NoBinder, BinderOf
    <3>2. L = {}
      BY <3>1, EmptyList
    <3> QED BY <3>2
  <2> QED BY <1>1, <2>2, <2>3
<1> HIDE DEF ps, n, F, fs, H, L
<1>7. ASSUME NEW x \in Places(n)
      PROVE  \/ \E j \in 1 .. 13 : x = <<0, j>> /\ ps[x] = F[j]
             \/ \E i \in 1 .. n : \E s \in {1, 2} : x = <<i, s>> /\ x \in DOMAIN fs /\ ps[x] = fs[x]
  <2>1. \A i \in 1 .. n : \A s \in {1, 2} : <<i, s>> \in DOMAIN fs
    BY <1>5
  <2>2. \/ \E j \in 1 .. 13 : x = <<0, j>>
        \/ \E i \in 1 .. n : \E s \in {1, 2} : x = <<i, s>>
    BY <1>2, PlaceCases
  <2> QED BY <1>3, <2>1, <2>2
<1>8. ASSUME NEW x \in Places(n), ps[x] # 0
      PROVE  \/ ps[x] \in H /\ \E j \in 1 .. 13 : x = <<0, j>> /\ ps[x] = F[j]
             \/ ps[x] \in L /\ x \in DOMAIN fs /\ ps[x] = fs[x]
  BY <1>4, <1>5, <1>7, <1>8 DEF Blocks
<1>9. Once(ps)
  <2> SUFFICES ASSUME NEW x \in Places(n), NEW y \in Places(n), ps[x] # 0, ps[x] = ps[y] PROVE x = y
    BY <1>3 DEF Once
  <2>1. CASE ps[x] \in H
    <3>1. ps[x] \notin L /\ ps[y] \notin L /\ ps[y] # 0
      BY <1>6, <2>1
    <3>2. PICK i \in 1 .. 13 : x = <<0, i>> /\ ps[x] = F[i]
      BY <1>8, <3>1
    <3>3. PICK j \in 1 .. 13 : y = <<0, j>> /\ ps[y] = F[j]
      BY <1>8, <3>1
    <3>4. i = j
      BY <1>4, <3>2, <3>3
    <3> QED BY <3>2, <3>3, <3>4
  <2>2. CASE ps[x] \notin H
    <3>1. x \in DOMAIN fs /\ ps[x] = fs[x] /\ y \in DOMAIN fs /\ ps[y] = fs[y]
      BY <1>8, <2>2
    <3> QED BY <1>5, <3>1 DEF Once
  <2> QED BY <2>1, <2>2
<1>10. Blocks(ps) \subseteq H \cup L
  BY <1>3, <1>8 DEF Blocks
<1>11. H \subseteq Blocks(ps)
  <2> SUFFICES ASSUME NEW p \in H PROVE p \in Blocks(ps)
    OBVIOUS
  <2>1. PICK i \in 1 .. 13 : p = F[i] /\ p # 0
    BY <1>4
  <2>2. <<0, i>> \in DOMAIN ps /\ ps[<<0, i>>] = p
    BY <1>2, <1>3, <2>1, PlacesAre
  <2> QED BY <2>1, <2>2 DEF Blocks
<1>12. L \subseteq Blocks(ps)
  <2> SUFFICES ASSUME NEW p \in L PROVE p \in Blocks(ps)
    OBVIOUS
  <2>1. PICK x \in DOMAIN fs : p = fs[x] /\ p # 0
    BY <1>5 DEF Blocks
  <2>2. PICK i \in 1 .. n, s \in {1, 2} : x = <<i, s>>
    BY <1>5
  <2>3. x \in DOMAIN ps /\ ps[x] = p
    BY <1>2, <1>3, <2>1, <2>2, PlacesAre
  <2> QED BY <2>1, <2>3 DEF Blocks
<1> QED BY <1>9, <1>10, <1>11, <1>12 DEF ps, H, L, HeldBlocks, BinderBlocks

\* The number of a place.
LEMMA NumberAt ==
  /\ \A j : Number(<<0, j>>) = 16 * 0 + j
  /\ \A i, s : Number(<<i, s>>) = 16 * i + s
BY DEF Number

\* A field of a handle is renumbered after its place.
LEMMA FixedNumbered ==
  ASSUME NEW b, NEW r, Handles(b, r), NEW mn
  PROVE  \A j \in 1 .. 13 : Address(Pointers(b, r), mn, Fixed(b, r)[j]) = At(Fixed(b, r)[j], j)
<1> SUFFICES ASSUME NEW j \in 1 .. 13
             PROVE  Address(Pointers(b, r), mn, Fixed(b, r)[j]) = At(Fixed(b, r)[j], j)
  OBVIOUS
<1> DEFINE ps == Pointers(b, r)
           x == <<0, j>>
<1>1. IsList(b.list) /\ Len(b.list) \in Nat
  BY ListDomain DEF Handles, IsBinder
<1>2. x \in DOMAIN ps /\ ps[x] = Fixed(b, r)[j]
  <2>1. DOMAIN ps = Places(Len(b.list)) /\ \A k \in 1 .. 13 : ps[<<0, k>>] = Fixed(b, r)[k]
    BY <1>1, PointersAt
  <2>2. \A k \in 1 .. 13 : <<0, k>> \in Places(Len(b.list))
    BY <1>1, PlacesAre
  <2> HIDE DEF ps
  <2> QED BY <2>1, <2>2
<1>3. Once(ps)
  BY HeldOnce
<1>4. Number(x) = j
  BY NumberAt
<1>5. Address(ps, mn, ps[x]) = At(ps[x], Number(x))
  <2> HIDE DEF ps, x
  <2> QED BY <1>2, <1>3, AddressAt
<1> QED BY <1>2, <1>4, <1>5

\* So are the name and the data of a file.
LEMMA FileNumbered ==
  ASSUME NEW b, NEW r, Handles(b, r), NEW mn, NEW i \in 1 .. Len(b.list)
  PROVE  LET ps == Pointers(b, r)
             name == OwnName(b.list[i], b.pool)
             data == b.list[i].data
         IN  /\ Address(ps, mn, name) = At(name, 16 * i + 1)
             /\ Address(ps, mn, data) = At(data, 16 * i + 2)
<1> DEFINE ps == Pointers(b, r)
           x == <<i, 1>>
           y == <<i, 2>>
<1>1. IsList(b.list) /\ Len(b.list) \in Nat
  BY ListDomain DEF Handles, IsBinder
<1>2. /\ x \in DOMAIN ps /\ ps[x] = OwnName(b.list[i], b.pool)
      /\ y \in DOMAIN ps /\ ps[y] = b.list[i].data
  BY <1>1, PointersAt, PlacesAre
<1>3. Once(ps)
  BY HeldOnce
<1>4. Number(x) = 16 * i + 1 /\ Number(y) = 16 * i + 2
  BY NumberAt
<1>5. Address(ps, mn, ps[x]) = At(ps[x], Number(x)) /\ Address(ps, mn, ps[y]) = At(ps[y], Number(y))
  <2> HIDE DEF ps, x, y
  <2> QED BY <1>2, <1>3, AddressAt
<1> QED BY <1>2, <1>4, <1>5

\* Renumbering a binder keeps its shape: null pointers, the pool names that point
\* into it, and its counts.
LEMMA BinderRenumbered ==
  ASSUME NEW b, NEW r, Handles(b, r), NEW mn
  PROVE  LET c == BinderAt(Pointers(b, r), mn, b)
         IN  /\ c = BinderOf(c.self, c.version, c.files, c.cap, c.list, c.pool)
             /\ c.self = At(b.self, 1) /\ c.version = At(b.version, 2) /\ c.files = At(b.files, 3)
             /\ c.pool = At(b.pool, 4) /\ c.cap = b.cap
             /\ IsList(c.list) /\ Len(c.list) = Len(b.list)
             /\ \A i \in 1 .. Len(b.list) :
                   /\ c.list[i] = File(c.list[i].name, c.list[i].data)
                   /\ OwnName(c.list[i], c.pool) = At(OwnName(b.list[i], b.pool), 16 * i + 1)
                   /\ c.list[i].data = At(b.list[i].data, 16 * i + 2)
                   /\ name_in_pool(b.list[i].name, b.pool) => c.list[i].name = c.pool
                   /\ ~name_in_pool(b.list[i].name, b.pool) => c.list[i].name = At(b.list[i].name, 16 * i + 1)
<1> DEFINE ps == Pointers(b, r)
           A(p) == Address(ps, mn, p)
           n == Len(b.list)
           l == [i \in 1 .. n |-> File(A(b.list[i].name), A(b.list[i].data))]
           c == BinderAt(ps, mn, b)
<1>1. IsList(b.list) /\ n \in Nat
  BY ListDomain DEF Handles, IsBinder
<1>2. c = BinderOf(A(b.self), A(b.version), A(b.files), b.cap, l, A(b.pool))
  BY DEF BinderAt
<1>3. A(b.self) = At(b.self, 1) /\ A(b.version) = At(b.version, 2) /\ A(b.files) = At(b.files, 3) /\ A(b.pool) = At(b.pool, 4)
  BY FixedNumbered, FixedAt
<1>4. ASSUME NEW i \in 1 .. n
      PROVE  /\ l[i] = File(A(b.list[i].name), A(b.list[i].data))
             /\ A(b.list[i].data) = At(b.list[i].data, 16 * i + 2)
             /\ name_in_pool(b.list[i].name, b.pool) => A(b.list[i].name) = At(b.pool, 4) /\ b.pool # 0
             /\ ~name_in_pool(b.list[i].name, b.pool) => A(b.list[i].name) = At(b.list[i].name, 16 * i + 1)
  <2>1. l[i] = File(A(b.list[i].name), A(b.list[i].data))
    BY <1>4
  <2>2. /\ A(OwnName(b.list[i], b.pool)) = At(OwnName(b.list[i], b.pool), 16 * i + 1)
        /\ A(b.list[i].data) = At(b.list[i].data, 16 * i + 2)
    BY FileNumbered
  <2> HIDE DEF A, l, ps
  <2>3. name_in_pool(b.list[i].name, b.pool) => b.list[i].name = b.pool /\ b.pool # 0
    BY DEF name_in_pool
  <2>4. ~name_in_pool(b.list[i].name, b.pool) => OwnName(b.list[i], b.pool) = b.list[i].name
    BY DEF OwnName
  <2> QED BY <1>3, <2>1, <2>2, <2>3, <2>4
<1> HIDE DEF A
<1>5. /\ c.self = A(b.self) /\ c.version = A(b.version) /\ c.files = A(b.files) /\ c.cap = b.cap
      /\ c.list = l /\ c.pool = A(b.pool)
  <2> HIDE DEF l, c
  <2> QED BY <1>2, BinderFields
<1>6. Len(l) = n /\ IsList(l)
  <2>1. \A i \in 1 .. n : l[i] \in [name : Nat, data : Nat]
    <3> SUFFICES ASSUME NEW i \in 1 .. n PROVE l[i] \in [name : Nat, data : Nat]
      OBVIOUS
    <3>1. A(b.list[i].data) \in Nat /\ A(b.list[i].name) \in Nat
      <4> i \in Nat
        BY <1>1
      <4>1. 16 * i + 1 \in Nat /\ 16 * i + 2 \in Nat
        OBVIOUS
      <4>2. \A p : At(p, 16 * i + 1) \in Nat /\ At(p, 16 * i + 2) \in Nat /\ At(p, 4) \in Nat
        BY <4>1 DEF At
      <4>3. A(b.list[i].data) = At(b.list[i].data, 16 * i + 2)
        BY <1>4
      <4>4. A(b.list[i].name) = At(b.pool, 4) \/ A(b.list[i].name) = At(b.list[i].name, 16 * i + 1)
        BY <1>4
      <4> QED BY <4>2, <4>3, <4>4
    <3> QED BY <1>4, <3>1 DEF File
  <2> DEFINE N == [name : Nat, data : Nat]
  <2>2. DOMAIN l = 1 .. n /\ \A i \in 1 .. n : l[i] \in N
    BY <2>1
  <2>3. l = [i \in 1 .. n |-> l[i]]
    OBVIOUS
  <2> HIDE DEF N, l
  <2>4. l \in Seq(N) /\ Len(l) = n
    BY <1>1, <2>2, <2>3
  <2> QED BY <2>4 DEF IsList, N
<1>7. ASSUME NEW i \in 1 .. n
      PROVE  /\ c.list[i] = File(c.list[i].name, c.list[i].data)
             /\ OwnName(c.list[i], c.pool) = At(OwnName(b.list[i], b.pool), 16 * i + 1)
             /\ c.list[i].data = At(b.list[i].data, 16 * i + 2)
             /\ name_in_pool(b.list[i].name, b.pool) => c.list[i].name = c.pool
             /\ ~name_in_pool(b.list[i].name, b.pool) => c.list[i].name = At(b.list[i].name, 16 * i + 1)
  <2> DEFINE f == c.list[i]
             k == 16 * i + 1
  <2>1. f = File(A(b.list[i].name), A(b.list[i].data))
    BY <1>4, <1>5
  <2>2. f.name = A(b.list[i].name) /\ f.data = A(b.list[i].data)
    BY <2>1 DEF File
  <2>3. k # 4 /\ k # 0
    BY <1>1
  <2>4. c.pool = At(b.pool, 4)
    BY <1>3, <1>5
  <2> HIDE DEF f, k, c
  <2>5. CASE name_in_pool(b.list[i].name, b.pool)
    <3>0. A(b.list[i].name) = At(b.pool, 4) /\ b.pool # 0
      BY <1>4, <2>5
    <3>1. f.name = c.pool /\ c.pool # 0
      BY <2>2, <2>4, <3>0 DEF At
    <3>2. OwnName(f, c.pool) = 0 /\ OwnName(b.list[i], b.pool) = 0
      BY <2>5, <3>1 DEF OwnName, name_in_pool
    <3> QED BY <1>4, <2>1, <2>2, <2>5, <3>1, <3>2 DEF At, f, k
  <2>6. CASE ~name_in_pool(b.list[i].name, b.pool)
    <3>1. f.name = At(b.list[i].name, k)
      BY <1>4, <2>2, <2>6 DEF k
    <3>2. ~name_in_pool(f.name, c.pool)
      BY <2>3, <2>4, <3>1 DEF At, name_in_pool
    <3>3. OwnName(f, c.pool) = f.name /\ OwnName(b.list[i], b.pool) = b.list[i].name
      BY <2>6, <3>2 DEF OwnName
    <3> QED BY <1>4, <2>1, <2>2, <2>6, <3>1, <3>3 DEF f, k
  <2> QED BY <2>5, <2>6
<1>8. /\ c.self = At(b.self, 1) /\ c.version = At(b.version, 2) /\ c.files = At(b.files, 3)
      /\ c.pool = At(b.pool, 4) /\ c.cap = b.cap
  BY <1>3, <1>5
<1>9. IsList(c.list) /\ Len(c.list) = Len(b.list)
  BY <1>5, <1>6
<1>10. c = BinderOf(c.self, c.version, c.files, c.cap, c.list, c.pool)
  BY <1>2, <1>5
<1> HIDE DEF c
<1> QED BY <1>7, <1>8, <1>9, <1>10 DEF c, ps

\* Renumbering a streaming reader keeps its shape.
LEMMA ReaderRenumbered ==
  ASSUME NEW b, NEW r, Handles(b, r), NEW mn
  PROVE  LET c == ReaderAt(Pointers(b, r), mn, r)
         IN  /\ c = ReaderOf(c.self, c.version, c.headers, c.files, c.pool, r.count, c.br, c.br2)
             /\ c.self = At(r.self, 5) /\ c.version = At(r.version, 6) /\ c.headers = At(r.headers, 7)
             /\ c.files = At(r.files, 8) /\ c.pool = At(r.pool, 9) /\ c.count = r.count
             /\ c.br = Br(At(r.br.self, 10), At(r.br.buf, 11))
             /\ c.br2 = Br(At(r.br2.self, 12), At(r.br2.buf, 13))
<1> DEFINE ps == Pointers(b, r)
           A(p) == Address(ps, mn, p)
           c == ReaderAt(ps, mn, r)
<1>1. /\ A(r.self) = At(r.self, 5) /\ A(r.version) = At(r.version, 6) /\ A(r.headers) = At(r.headers, 7)
      /\ A(r.files) = At(r.files, 8) /\ A(r.pool) = At(r.pool, 9)
      /\ A(r.br.self) = At(r.br.self, 10) /\ A(r.br.buf) = At(r.br.buf, 11)
      /\ A(r.br2.self) = At(r.br2.self, 12) /\ A(r.br2.buf) = At(r.br2.buf, 13)
  BY FixedNumbered, FixedAt
<1>2. c = ReaderOf(A(r.self), A(r.version), A(r.headers), A(r.files), A(r.pool), r.count,
                   Br(A(r.br.self), A(r.br.buf)), Br(A(r.br2.self), A(r.br2.buf)))
  BY DEF ReaderAt, BrAt
<1> HIDE DEF A, c
<1>3. /\ c.self = A(r.self) /\ c.version = A(r.version) /\ c.headers = A(r.headers)
      /\ c.files = A(r.files) /\ c.pool = A(r.pool) /\ c.count = r.count
      /\ c.br = Br(A(r.br.self), A(r.br.buf)) /\ c.br2 = Br(A(r.br2.self), A(r.br2.buf))
  BY <1>2, ReaderFields
<1> QED BY <1>1, <1>2, <1>3 DEF c

\* A binder numbered by places holds no block twice.
LEMMA NumberedBinderOnce ==
  ASSUME NEW b, IsList(b.list),
         b.self \in {0, 1}, b.version \in {0, 2}, b.files \in {0, 3}, b.pool \in {0, 4},
         \A i \in 1 .. Len(b.list) : /\ OwnName(b.list[i], b.pool) \in {0, 16 * i + 1}
                                     /\ b.list[i].data \in {0, 16 * i + 2}
  PROVE  BinderOnce(b)
<1> DEFINE n == Len(b.list)
           fs == FilePointers(b.list, b.pool)
<1>1. n \in Nat /\ DOMAIN b.list = 1 .. n
  BY ListDomain
<1>2. DOMAIN fs = (1 .. n) \X {1, 2}
  BY <1>1 DEF FilePointers
<1>3. \A i \in 1 .. n : fs[<<i, 1>>] \in {0, 16 * i + 1} /\ fs[<<i, 2>>] \in {0, 16 * i + 2}
  <2>1. \A i \in 1 .. n : fs[<<i, 1>>] = OwnName(b.list[i], b.pool) /\ fs[<<i, 2>>] = b.list[i].data
    BY FilePointersAt
  <2> HIDE DEF fs
  <2> QED BY <2>1
<1>4. \A x \in DOMAIN fs : \E i \in 1 .. n : \E s \in {1, 2} : x = <<i, s>> /\ fs[x] \in {0, 16 * i + s}
  <2> HIDE DEF fs
  <2> SUFFICES ASSUME NEW x \in DOMAIN fs
               PROVE  \E i \in 1 .. n : \E s \in {1, 2} : x = <<i, s>> /\ fs[x] \in {0, 16 * i + s}
    OBVIOUS
  <2>1. PICK i \in 1 .. n, s \in {1, 2} : x = <<i, s>>
    BY <1>2
  <2>2. CASE s = 1
    BY <1>3, <2>1, <2>2
  <2>3. CASE s = 2
    BY <1>3, <2>1, <2>3
  <2> QED BY <2>1, <2>2, <2>3
<1> HIDE DEF fs, n
<1>5. Once(fs)
  <2> SUFFICES ASSUME NEW x \in DOMAIN fs, NEW y \in DOMAIN fs, fs[x] # 0, fs[x] = fs[y] PROVE x = y
    BY DEF Once
  <2>1. PICK i \in 1 .. n, s \in {1, 2} : x = <<i, s>> /\ fs[x] \in {0, 16 * i + s}
    BY <1>4
  <2>2. PICK j \in 1 .. n, t \in {1, 2} : y = <<j, t>> /\ fs[y] \in {0, 16 * j + t}
    BY <1>4
  <2>3. 16 * i + s = 16 * j + t
    BY <2>1, <2>2
  <2>4. i \in Nat /\ j \in Nat /\ s \in 1 .. 2 /\ t \in 1 .. 2
    BY <1>1
  <2>5. i = j /\ s = t
    BY <2>3, <2>4
  <2> QED BY <2>1, <2>2, <2>5
<1>6. \A p \in Blocks(fs) : p > 16
  <2> SUFFICES ASSUME NEW x \in DOMAIN fs, fs[x] # 0 PROVE fs[x] > 16
    BY DEF Blocks
  <2>1. PICK i \in 1 .. n, s \in {1, 2} : x = <<i, s>> /\ fs[x] \in {0, 16 * i + s}
    BY <1>4
  <2>2. i >= 1 /\ i \in Nat /\ s \in 1 .. 2
    BY <1>1
  <2> QED BY <2>1, <2>2
<1>7. \A p \in HandleBlocks(b) : p \in 1 .. 4
  BY DEF HandleBlocks
<1>8. HandleBlocks(b) \cap Blocks(fs) = {}
  BY <1>6, <1>7
<1>9. /\ Differ(b.self, b.version) /\ Differ(b.self, b.files) /\ Differ(b.self, b.pool)
      /\ Differ(b.version, b.files) /\ Differ(b.version, b.pool) /\ Differ(b.files, b.pool)
  BY DEF Differ
<1> QED BY <1>5, <1>8, <1>9 DEF BinderOnce, FilesOnce, FileBlocks, fs

\* So does a streaming reader.
LEMMA NumberedReaderOnce ==
  ASSUME NEW r, r.self \in {0, 5}, r.version \in {0, 6}, r.headers \in {0, 7}, r.files \in {0, 8},
         r.pool \in {0, 9}, r.br.self \in {0, 10}, r.br.buf \in {0, 11},
         r.br2.self \in {0, 12}, r.br2.buf \in {0, 13},
         r.br = Br(r.br.self, r.br.buf), r.br2 = Br(r.br2.self, r.br2.buf)
  PROVE  ReaderOnce(r)
<1>1. IsBr(r.br) /\ IsBr(r.br2)
  <2>1. \A s \in Nat, t \in Nat : Br(s, t) \in [self : Nat, buf : Nat]
    BY DEF Br
  <2>2. r.br.self \in Nat /\ r.br.buf \in Nat /\ r.br2.self \in Nat /\ r.br2.buf \in Nat
    OBVIOUS
  <2>3. Br(r.br.self, r.br.buf) \in [self : Nat, buf : Nat] /\ Br(r.br2.self, r.br2.buf) \in [self : Nat, buf : Nat]
    BY <2>1, <2>2
  <2>4. r.br \in [self : Nat, buf : Nat] /\ r.br2 \in [self : Nat, buf : Nat]
    BY <2>3, Zenon
  <2> QED BY <2>4 DEF IsBr
<1>2. \A p \in FieldBlocks(r) : p \in 5 .. 9
  BY DEF FieldBlocks
<1>3. (\A p \in BrBlocks(r.br) : p \in 10 .. 11) /\ (\A p \in BrBlocks(r.br2) : p \in 12 .. 13)
  BY DEF BrBlocks
<1>4. BrBlocks(r.br) \cap BrBlocks(r.br2) = {} /\ FieldBlocks(r) \cap PairBlocks(r.br, r.br2) = {}
  BY <1>2, <1>3 DEF PairBlocks
<1>5. /\ Differ(r.self, r.version) /\ Differ(r.self, r.headers) /\ Differ(r.self, r.files) /\ Differ(r.self, r.pool)
      /\ Differ(r.version, r.headers) /\ Differ(r.version, r.files) /\ Differ(r.version, r.pool)
      /\ Differ(r.headers, r.files) /\ Differ(r.headers, r.pool) /\ Differ(r.files, r.pool)
  BY DEF Differ
<1> QED BY <1>1, <1>4, <1>5 DEF ReaderOnce

\* Handles that are sound before the renumbering are sound after it, and
\* numbered.
LEMMA HandlesAgain ==
  ASSUME NEW b, NEW r, Handles(b, r), NEW mn
  PROVE  LET ps == Pointers(b, r)
             b2 == BinderAt(ps, mn, b)
             r2 == ReaderAt(ps, mn, r)
         IN  /\ Handles(b2, r2) /\ Numbered(b2, r2)
             /\ b = NoBinder => b2 = NoBinder
             /\ r = NoReader => r2 = NoReader
<1> DEFINE ps == Pointers(b, r)
           b2 == BinderAt(ps, mn, b)
           r2 == ReaderAt(ps, mn, r)
<1>1. /\ b2 = BinderOf(b2.self, b2.version, b2.files, b2.cap, b2.list, b2.pool)
      /\ b2.self = At(b.self, 1) /\ b2.version = At(b.version, 2) /\ b2.files = At(b.files, 3)
      /\ b2.pool = At(b.pool, 4) /\ b2.cap = b.cap
      /\ IsList(b2.list) /\ Len(b2.list) = Len(b.list)
      /\ \A i \in 1 .. Len(b.list) :
            /\ OwnName(b2.list[i], b2.pool) = At(OwnName(b.list[i], b.pool), 16 * i + 1)
            /\ b2.list[i].data = At(b.list[i].data, 16 * i + 2)
  BY BinderRenumbered
<1>2. /\ r2 = ReaderOf(r2.self, r2.version, r2.headers, r2.files, r2.pool, r2.count, r2.br, r2.br2)
      /\ r2.self = At(r.self, 5) /\ r2.version = At(r.version, 6) /\ r2.headers = At(r.headers, 7)
      /\ r2.files = At(r.files, 8) /\ r2.pool = At(r.pool, 9) /\ r2.count = r.count
      /\ r2.br = Br(At(r.br.self, 10), At(r.br.buf, 11))
      /\ r2.br2 = Br(At(r.br2.self, 12), At(r.br2.buf, 13))
  BY ReaderRenumbered
<1> HIDE DEF b2, r2
<1>3. /\ r2.br.self = At(r.br.self, 10) /\ r2.br.buf = At(r.br.buf, 11)
      /\ r2.br2.self = At(r.br2.self, 12) /\ r2.br2.buf = At(r.br2.buf, 13)
      /\ r2.br = Br(r2.br.self, r2.br.buf) /\ r2.br2 = Br(r2.br2.self, r2.br2.buf)
  BY <1>2 DEF Br
<1>4. \A p, k : At(p, k) \in {0, k}
  BY DEF At
<1>5. Numbered(b2, r2)
  <2>1. /\ b2.self \in {0, 1} /\ b2.version \in {0, 2} /\ b2.files \in {0, 3} /\ b2.pool \in {0, 4}
    BY <1>1, <1>4
  <2>2. /\ r2.self \in {0, 5} /\ r2.version \in {0, 6} /\ r2.headers \in {0, 7} /\ r2.files \in {0, 8}
        /\ r2.pool \in {0, 9}
    BY <1>2, <1>4
  <2>3. /\ r2.br.self \in {0, 10} /\ r2.br.buf \in {0, 11} /\ r2.br2.self \in {0, 12} /\ r2.br2.buf \in {0, 13}
    BY <1>3, <1>4
  <2>4. \A i \in 1 .. Len(b2.list) : /\ OwnName(b2.list[i], b2.pool) \in {0, 16 * i + 1}
                                     /\ b2.list[i].data \in {0, 16 * i + 2}
    BY <1>1, <1>4
  <2> QED BY <2>1, <2>2, <2>3, <2>4 DEF Numbered
<1>6. IsBinder(b2)
  <2>1. BinderOnce(b2)
    BY <1>1, <1>5, NumberedBinderOnce DEF Numbered
  <2>2. b.cap \in Nat /\ Len(b.list) <= b.cap /\ (b.cap > 0 <=> b.files # 0)
    BY DEF Handles, IsBinder
  <2>3. b2.self \in Nat /\ b2.version \in Nat /\ b2.files \in Nat /\ b2.pool \in Nat
    BY <1>5 DEF Numbered
  <2>4. b2.files # 0 <=> b.files # 0
    BY <1>1 DEF At
  <2>5. b2.cap \in Nat /\ Len(b2.list) <= b2.cap /\ (b2.cap > 0 <=> b2.files # 0)
    BY <1>1, <2>2, <2>4
  <2> QED BY <1>1, <2>1, <2>3, <2>5 DEF IsBinder
<1>7. IsReader(r2)
  <2>1. ReaderOnce(r2)
    BY <1>3, <1>5, NumberedReaderOnce DEF Numbered
  <2>2. r2.count \in Nat
    BY <1>2 DEF Handles, IsReader
  <2>3. r2.self \in Nat /\ r2.version \in Nat /\ r2.headers \in Nat /\ r2.files \in Nat /\ r2.pool \in Nat
    BY <1>5 DEF Numbered
  <2> QED BY <1>2, <2>1, <2>2, <2>3 DEF IsReader
<1>8. b = NoBinder => b2 = NoBinder
  <2> SUFFICES ASSUME b = NoBinder PROVE b2 = NoBinder
    OBVIOUS
  <2>1. b.self = 0 /\ b.version = 0 /\ b.files = 0 /\ b.cap = 0 /\ b.list = <<>> /\ b.pool = 0
    BY BinderFields DEF NoBinder
  <2>2. b2.self = 0 /\ b2.version = 0 /\ b2.files = 0 /\ b2.cap = 0 /\ b2.pool = 0
    BY <1>1, <2>1 DEF At
  <2>3. Len(b2.list) = 0
    BY <1>1, <2>1, EmptyList
  <2>4. b2.list = <<>>
    <3> DEFINE N == [name : Nat, data : Nat]
    <3>1. b2.list \in Seq(N)
      BY <1>1 DEF IsList
    <3> HIDE DEF N
    <3> QED BY <2>3, <3>1
  <2> QED BY <1>1, <2>2, <2>4 DEF NoBinder
<1>9. r = NoReader => r2 = NoReader
  <2> SUFFICES ASSUME r = NoReader PROVE r2 = NoReader
    OBVIOUS
  <2>1. /\ r.self = 0 /\ r.version = 0 /\ r.headers = 0 /\ r.files = 0 /\ r.pool = 0 /\ r.count = 0
        /\ r.br = NoBr /\ r.br2 = NoBr
    BY ReaderFields DEF NoReader
  <2>2. r.br.self = 0 /\ r.br.buf = 0 /\ r.br2.self = 0 /\ r.br2.buf = 0
    BY <2>1 DEF NoBr, Br
  <2>3. r2.br = NoBr /\ r2.br2 = NoBr
    BY <1>2, <2>2 DEF NoBr, At
  <2>4. /\ r2.self = 0 /\ r2.version = 0 /\ r2.headers = 0 /\ r2.files = 0 /\ r2.pool = 0 /\ r2.count = 0
    BY <1>2, <2>1 DEF At
  <2> QED BY <1>2, <2>3, <2>4 DEF NoReader
<1>10. (b = NoBinder \/ r = NoReader) /\ Len(b.list) <= MaxFiles
  BY DEF Handles
<1>11. Handles(b2, r2)
  BY <1>1, <1>6, <1>7, <1>8, <1>9, <1>10 DEF Handles
<1> QED BY <1>5, <1>8, <1>9, <1>11 DEF b2, r2

\* The blocks of the renumbered handles are the renumbered blocks.
LEMMA BlocksAgain ==
  ASSUME NEW b, NEW r, Handles(b, r), NEW mn
  PROVE  LET ps == Pointers(b, r)
         IN  HeldBlocks(BinderAt(ps, mn, b), ReaderAt(ps, mn, r)) = {Address(ps, mn, p) : p \in HeldBlocks(b, r)}
<1> DEFINE ps == Pointers(b, r)
           n == Len(b.list)
           b2 == BinderAt(ps, mn, b)
           r2 == ReaderAt(ps, mn, r)
           ps2 == Pointers(b2, r2)
           F == Fixed(b, r)
           F2 == Fixed(b2, r2)
           A(p) == Address(ps, mn, p)
<1>1. /\ b2.self = At(b.self, 1) /\ b2.version = At(b.version, 2) /\ b2.files = At(b.files, 3)
      /\ b2.pool = At(b.pool, 4) /\ IsList(b2.list) /\ Len(b2.list) = n
      /\ \A i \in 1 .. n : /\ OwnName(b2.list[i], b2.pool) = At(OwnName(b.list[i], b.pool), 16 * i + 1)
                           /\ b2.list[i].data = At(b.list[i].data, 16 * i + 2)
  BY BinderRenumbered
<1>2. /\ r2.self = At(r.self, 5) /\ r2.version = At(r.version, 6) /\ r2.headers = At(r.headers, 7)
      /\ r2.files = At(r.files, 8) /\ r2.pool = At(r.pool, 9)
      /\ r2.br = Br(At(r.br.self, 10), At(r.br.buf, 11))
      /\ r2.br2 = Br(At(r.br2.self, 12), At(r.br2.buf, 13))
  BY ReaderRenumbered
<1>3. Once(ps) /\ Blocks(ps) = HeldBlocks(b, r)
  BY HeldOnce
<1>4. Once(ps2) /\ Blocks(ps2) = HeldBlocks(b2, r2)
  BY HandlesAgain, HeldOnce
<1>5. IsList(b.list) /\ n \in Nat
  BY ListDomain DEF Handles, IsBinder
<1>6. /\ DOMAIN ps = Places(n) /\ DOMAIN ps2 = Places(n)
      /\ \A j \in 1 .. 13 : ps[<<0, j>>] = F[j] /\ ps2[<<0, j>>] = F2[j]
      /\ \A i \in 1 .. n : /\ ps[<<i, 1>>] = OwnName(b.list[i], b.pool)
                           /\ ps[<<i, 2>>] = b.list[i].data
                           /\ ps2[<<i, 1>>] = OwnName(b2.list[i], b2.pool)
                           /\ ps2[<<i, 2>>] = b2.list[i].data
  <2>1. /\ DOMAIN ps = Places(n)
        /\ \A j \in 1 .. 13 : ps[<<0, j>>] = F[j]
        /\ \A i \in 1 .. n : ps[<<i, 1>>] = OwnName(b.list[i], b.pool) /\ ps[<<i, 2>>] = b.list[i].data
    BY <1>5, PointersAt
  <2>2. /\ DOMAIN ps2 = Places(Len(b2.list))
        /\ \A j \in 1 .. 13 : ps2[<<0, j>>] = F2[j]
        /\ \A i \in 1 .. Len(b2.list) : ps2[<<i, 1>>] = OwnName(b2.list[i], b2.pool) /\ ps2[<<i, 2>>] = b2.list[i].data
    <3>1. IsList(b2.list)
      BY <1>1
    <3> HIDE DEF b2, r2
    <3> QED BY <3>1, PointersAt
  <2> HIDE DEF ps, ps2, b2, r2, F, F2
  <2> QED BY <1>1, <2>1, <2>2
<1>7. \A j \in 1 .. 13 : F2[j] = At(F[j], j)
  <2>1. /\ F[1] = b.self /\ F[2] = b.version /\ F[3] = b.files /\ F[4] = b.pool
        /\ F[5] = r.self /\ F[6] = r.version /\ F[7] = r.headers /\ F[8] = r.files /\ F[9] = r.pool
        /\ F[10] = r.br.self /\ F[11] = r.br.buf /\ F[12] = r.br2.self /\ F[13] = r.br2.buf
    BY FixedAt
  <2> HIDE DEF b2, r2
  <2>2. /\ F2[1] = b2.self /\ F2[2] = b2.version /\ F2[3] = b2.files /\ F2[4] = b2.pool
        /\ F2[5] = r2.self /\ F2[6] = r2.version /\ F2[7] = r2.headers /\ F2[8] = r2.files /\ F2[9] = r2.pool
        /\ F2[10] = r2.br.self /\ F2[11] = r2.br.buf /\ F2[12] = r2.br2.self /\ F2[13] = r2.br2.buf
    BY FixedAt
  <2>3. /\ r2.br.self = At(r.br.self, 10) /\ r2.br.buf = At(r.br.buf, 11)
        /\ r2.br2.self = At(r.br2.self, 12) /\ r2.br2.buf = At(r.br2.buf, 13)
    BY <1>2 DEF Br
  <2> HIDE DEF F, F2
  <2>4. /\ F2[1] = At(F[1], 1) /\ F2[2] = At(F[2], 2) /\ F2[3] = At(F[3], 3) /\ F2[4] = At(F[4], 4)
    BY <1>1, <2>1, <2>2
  <2>5. /\ F2[5] = At(F[5], 5) /\ F2[6] = At(F[6], 6) /\ F2[7] = At(F[7], 7) /\ F2[8] = At(F[8], 8)
        /\ F2[9] = At(F[9], 9) /\ F2[10] = At(F[10], 10) /\ F2[11] = At(F[11], 11)
        /\ F2[12] = At(F[12], 12) /\ F2[13] = At(F[13], 13)
    BY <1>2, <2>1, <2>2, <2>3
  <2>6. \A j \in 1 .. 13 : j = 1 \/ j = 2 \/ j = 3 \/ j = 4 \/ j = 5 \/ j = 6 \/ j = 7 \/ j = 8 \/ j = 9
                           \/ j = 10 \/ j = 11 \/ j = 12 \/ j = 13
    OBVIOUS
  <2> QED BY <2>4, <2>5, <2>6
<1>8. \A j \in 1 .. 13 : A(F[j]) = At(F[j], j)
  BY FixedNumbered
<1>9. \A i \in 1 .. n : /\ A(OwnName(b.list[i], b.pool)) = At(OwnName(b.list[i], b.pool), 16 * i + 1)
                        /\ A(b.list[i].data) = At(b.list[i].data, 16 * i + 2)
  BY FileNumbered
<1> HIDE DEF ps, ps2, b2, r2, F, F2, A, n
<1>10. ASSUME NEW x \in Places(n)
       PROVE  ps2[x] = A(ps[x]) /\ (ps2[x] # 0 <=> ps[x] # 0)
  <2>1. CASE \E j \in 1 .. 13 : x = <<0, j>>
    <3>1. PICK j \in 1 .. 13 : x = <<0, j>>
      BY <2>1
    <3>2. ps[x] = F[j] /\ ps2[x] = At(F[j], j) /\ A(F[j]) = At(F[j], j) /\ j # 0
      BY <1>6, <1>7, <1>8, <3>1
    <3> QED BY <3>2 DEF At
  <2>2. CASE \E i \in 1 .. n : \E s \in {1, 2} : x = <<i, s>>
    <3>1. PICK i \in 1 .. n, s \in {1, 2} : x = <<i, s>>
      BY <2>2
    <3>2. 16 * i + 1 # 0 /\ 16 * i + 2 # 0
      BY <1>5
    <3>3. CASE s = 1
      <4> DEFINE p == OwnName(b.list[i], b.pool)
      <4>1. ps[x] = p /\ ps2[x] = At(p, 16 * i + 1) /\ A(p) = At(p, 16 * i + 1)
        BY <1>1, <1>6, <1>9, <3>1, <3>3
      <4> QED BY <3>2, <4>1 DEF At
    <3>4. CASE s = 2
      <4> DEFINE p == b.list[i].data
      <4>1. ps[x] = p /\ ps2[x] = At(p, 16 * i + 2) /\ A(p) = At(p, 16 * i + 2)
        BY <1>1, <1>6, <1>9, <3>1, <3>4
      <4> QED BY <3>2, <4>1 DEF At
    <3> QED BY <3>1, <3>3, <3>4
  <2> QED BY <1>5, <2>1, <2>2, PlaceCases
<1>11. Blocks(ps2) = {A(p) : p \in Blocks(ps)}
  <2>1. \A q \in Blocks(ps2) : \E p \in Blocks(ps) : q = A(p)
    BY <1>6, <1>10 DEF Blocks
  <2>2. \A p \in Blocks(ps) : A(p) \in Blocks(ps2)
    BY <1>6, <1>10 DEF Blocks
  <2> QED BY <2>1, <2>2
<1>12. HeldBlocks(b2, r2) = {A(p) : p \in HeldBlocks(b, r)}
  BY <1>3, <1>4, <1>11
<1> QED BY <1>12 DEF ps, b2, r2, A

\* The numbers of places lie below Base.
LEMMA BaseType == Base \in Nat /\ MaxFiles \in Nat /\ MaxMine \in Nat /\ Base = 16 * MaxFiles + 16
BY BoundsAssumption DEF Base

\* The blocks of numbered handles lie below Base.
LEMMA NumbersLow ==
  ASSUME NEW b, NEW r, Handles(b, r), Numbered(b, r)
  PROVE  HeldBlocks(b, r) \subseteq 1 .. Base - 1
<1> DEFINE ps == Pointers(b, r)
           n == Len(b.list)
           fs == FilePointers(b.list, b.pool)
<1>1. IsList(b.list) /\ n \in Nat /\ n <= MaxFiles
  BY ListDomain DEF Handles, IsBinder
<1>2. HandleBlocks(b) \subseteq 1 .. 13 /\ FieldBlocks(r) \subseteq 1 .. 13 /\ PairBlocks(r.br, r.br2) \subseteq 1 .. 13
  BY DEF Numbered, HandleBlocks, FieldBlocks, PairBlocks, BrBlocks
<1>3. FileBlocks(b.list, b.pool) \subseteq 1 .. Base - 1
  <2> SUFFICES ASSUME NEW x \in DOMAIN fs, fs[x] # 0 PROVE fs[x] \in 1 .. Base - 1
    BY DEF FileBlocks, Blocks
  <2>1. /\ DOMAIN fs = (1 .. n) \X {1, 2}
        /\ \A i \in 1 .. n : fs[<<i, 1>>] = OwnName(b.list[i], b.pool) /\ fs[<<i, 2>>] = b.list[i].data
    BY <1>1, FilePointersAt
  <2> HIDE DEF fs
  <2>2. PICK i \in 1 .. n, s \in {1, 2} : x = <<i, s>>
    BY <2>1
  <2>3. fs[<<i, 1>>] \in {0, 16 * i + 1} /\ fs[<<i, 2>>] \in {0, 16 * i + 2}
    BY <2>1 DEF Numbered
  <2>4. fs[x] = 16 * i + 1 \/ fs[x] = 16 * i + 2
    BY <2>2, <2>3
  <2>5. i \in Nat /\ i >= 1 /\ i <= MaxFiles
    BY <1>1, BaseType
  <2> QED BY <2>4, <2>5, BaseType
<1> QED BY <1>2, <1>3, BaseType DEF HeldBlocks, BinderBlocks, ReaderBlocks

\* Between calls the live blocks lie below the first address a call gives out,
\* and no block of a handle is the caller's.
LEMMA StandingHeap ==
  ASSUME NEW b, NEW r, NEW mn, NEW h, Standing(b, r, mn, h)
  PROVE  /\ h \subseteq 1 .. Base + MaxMine /\ HeldBlocks(b, r) \cap mn = {}
         /\ IsFiniteSet(mn) /\ mn \subseteq Base + 1 .. Base + MaxMine /\ Cardinality(mn) \in Nat
<1>1. HeldBlocks(b, r) \subseteq 1 .. Base - 1
  BY NumbersLow DEF Standing
<1> DEFINE k == Cardinality(mn)
<1>2. k \in 0 .. MaxMine /\ mn = Base + 1 .. Base + k /\ h = HeldBlocks(b, r) \cup mn
  BY DEF Standing
<1> HIDE DEF k
<1>3. k \in Nat /\ k <= MaxMine
  BY <1>2, BaseType
<1>4. IsFiniteSet(Base + 1 .. Base + k)
  <2>1. Base + 1 \in Int /\ Base + k \in Int
    BY <1>3, BaseType
  <2> QED BY <2>1, FS_Interval
<1>5. mn \subseteq Base + 1 .. Base + MaxMine
  BY <1>2, <1>3, BaseType
<1> QED BY <1>1, <1>2, <1>3, <1>4, <1>5, BaseType DEF k

\* What the end of a call needs of the memory m, the handles b and r and the
\* caller's blocks mn: they are live, and shared by nobody.
Sound(m, b, r, mn) ==
  /\ Handles(b, r)
  /\ HeldBlocks(b, r) \cup mn \subseteq m.heap /\ HeldBlocks(b, r) \cap mn = {}
  /\ IsFiniteSet(mn) /\ mn \subseteq Nat \ {0} /\ Cardinality(mn) <= MaxMine

\* A block of the caller's is renumbered by its rank.
LEMMA MineNumbered ==
  ASSUME NEW b, NEW r, Handles(b, r), NEW mn, HeldBlocks(b, r) \cap mn = {}, 0 \notin mn
  PROVE  \A p \in mn : Address(Pointers(b, r), mn, p) = Base + Cardinality({q \in mn : q <= p})
<1> SUFFICES ASSUME NEW p \in mn
             PROVE  Address(Pointers(b, r), mn, p) = Base + Cardinality({q \in mn : q <= p})
  OBVIOUS
<1>1. p # 0 /\ p \notin Blocks(Pointers(b, r))
  BY HeldOnce
<1>2. ~ \E x \in DOMAIN Pointers(b, r) : Pointers(b, r)[x] = p
  BY <1>1 DEF Blocks
<1> QED BY <1>1, <1>2 DEF Address

\* The caller's blocks are renumbered one to one.
LEMMA MineAgain ==
  ASSUME NEW m, NEW b, NEW r, NEW mn, Sound(m, b, r, mn)
  PROVE  LET mn2 == {Address(Pointers(b, r), mn, p) : p \in mn}
         IN  Cardinality(mn2) = Cardinality(mn) /\ mn2 = Base + 1 .. Base + Cardinality(mn) /\ Cardinality(mn) \in Nat
<1> DEFINE A(p) == Address(Pointers(b, r), mn, p)
           rank(p) == Cardinality({q \in mn : q <= p})
           k == Cardinality(mn)
           mn2 == {A(p) : p \in mn}
<1>1. \A p \in mn : A(p) = Base + rank(p)
  BY MineNumbered DEF Sound
<1>2. {Base + rank(p) : p \in mn} = Base + 1 .. Base + k
  <2>1. IsFiniteSet(mn) /\ mn \subseteq Nat
    BY DEF Sound
  <2> QED BY <2>1, Ranks, BaseType
<1>3. k \in Nat
  BY FS_CardinalityType DEF Sound
<1> HIDE DEF A, rank, k
<1>4. mn2 = Base + 1 .. Base + k
  BY <1>1, <1>2
<1>5. Cardinality(Base + 1 .. Base + k) = k
  <2>1. Base + 1 \in Int /\ Base + k \in Int
    BY <1>3, BaseType
  <2>2. \A a, c \in Int : Cardinality(a .. c) = IF a > c THEN 0 ELSE c - a + 1
    BY FS_Interval
  <2>3. Cardinality(Base + 1 .. Base + k) = IF Base + 1 > Base + k THEN 0 ELSE (Base + k) - (Base + 1) + 1
    BY <2>1, <2>2
  <2> QED BY <1>3, <2>3, BaseType
<1>6. Cardinality(mn2) = k /\ mn2 = Base + 1 .. Base + k /\ k \in Nat
  BY <1>3, <1>4, <1>5
<1> QED BY <1>6 DEF k, A

\* A call that ends soundly leaves the state the next one needs.
LEMMA Returned ==
  ASSUME NEW c, NEW ok, NEW m, NEW b, NEW r, NEW mn, Sound(m, b, r, mn), Return(c, ok, m, b, r, mn)
  PROVE  /\ Standing(binder', reader', mine', heap')
         /\ b = NoBinder => binder' = NoBinder
         /\ failed' = ~ok /\ kind' = kind
         /\ misuse' = {<<c, what>> : what \in m.bad}
         /\ leaked' = (IF m.heap \subseteq HeldBlocks(b, r) \cup mn THEN {} ELSE {<<c, "unheld">>})
                      \cup (IF m.lost = {} THEN {} ELSE {<<c, "lost">>})
<1> DEFINE ps == Pointers(b, r)
           A(p) == Address(ps, mn, p)
           H == HeldBlocks(b, r)
<1>1. /\ failed' = ~ok
      /\ binder' = BinderAt(ps, mn, b)
      /\ reader' = ReaderAt(ps, mn, r)
      /\ mine' = {A(p) : p \in mn}
      /\ heap' = {A(p) : p \in m.heap \cap (Blocks(ps) \cup mn)}
      /\ misuse' = {<<c, what>> : what \in m.bad}
      /\ leaked' = (IF m.heap \subseteq Blocks(ps) \cup mn THEN {} ELSE {<<c, "unheld">>})
                   \cup (IF m.lost = {} THEN {} ELSE {<<c, "lost">>})
      /\ kind' = kind
  BY DEF Return
<1>2. Handles(b, r) /\ H \cup mn \subseteq m.heap /\ Cardinality(mn) <= MaxMine
  BY DEF Sound
<1>3. Blocks(ps) = H
  BY <1>2, HeldOnce
<1>4. /\ Handles(binder', reader') /\ Numbered(binder', reader')
      /\ b = NoBinder => binder' = NoBinder
  BY <1>1, <1>2, HandlesAgain
<1>5. HeldBlocks(binder', reader') = {A(p) : p \in H}
  BY <1>1, <1>2, BlocksAgain
<1>6. Cardinality(mine') = Cardinality(mn) /\ mine' = Base + 1 .. Base + Cardinality(mn) /\ Cardinality(mn) \in Nat
  <2> DEFINE mn2 == {A(p) : p \in mn}
  <2>1. Cardinality(mn2) = Cardinality(mn) /\ mn2 = Base + 1 .. Base + Cardinality(mn) /\ Cardinality(mn) \in Nat
    BY MineAgain
  <2>2. mine' = mn2
    BY <1>1
  <2> HIDE DEF mn2
  <2> QED BY <2>1, <2>2
<1> HIDE DEF A, H, ps
<1>7. heap' = HeldBlocks(binder', reader') \cup mine'
  <2>1. m.heap \cap (H \cup mn) = H \cup mn
    BY <1>2
  <2>2. heap' = {A(p) : p \in H \cup mn}
    BY <1>1, <1>3, <2>1
  <2> QED BY <1>1, <1>5, <2>2
<1>8. Standing(binder', reader', mine', heap')
  <2>1. Cardinality(mine') \in 0 .. MaxMine /\ mine' = Base + 1 .. Base + Cardinality(mine')
    BY <1>2, <1>6, BaseType
  <2> QED BY <1>4, <1>7, <2>1 DEF Standing
<1> QED BY <1>1, <1>3, <1>4, <1>8 DEF H

\* What a failed call may have done to the handles: grown the array.
Kept(b, r, mn) ==
  /\ b.list = binder.list /\ b.pool = binder.pool /\ b.version = binder.version /\ b.self = binder.self
  /\ r = reader /\ mn = mine

\* A call that kept the handles' contents and the caller's blocks leaves them as
\* they were: numbered already, they keep their numbers.
LEMMA ReturnedSame ==
  ASSUME NEW c, NEW ok, NEW m, NEW b, NEW r, NEW mn, Sound(m, b, r, mn), Return(c, ok, m, b, r, mn),
         Standing(binder, reader, mine, heap), Kept(b, r, mn)
  PROVE  /\ binder'.list = binder.list /\ binder'.pool = binder.pool
         /\ binder'.version = binder.version /\ binder'.self = binder.self
         /\ reader' = reader /\ mine' = mine
<1> DEFINE ps == Pointers(b, r)
           n == Len(b.list)
<1>1. /\ binder' = BinderAt(ps, mn, b) /\ reader' = ReaderAt(ps, mn, r)
      /\ mine' = {Address(ps, mn, p) : p \in mn}
  BY DEF Return
<1>2. Handles(b, r) /\ Handles(binder, reader) /\ Numbered(binder, reader)
  BY DEF Sound, Standing
<1>3. /\ b.list = binder.list /\ b.pool = binder.pool /\ b.version = binder.version /\ b.self = binder.self
      /\ r = reader /\ mn = mine
  BY DEF Kept
<1>4. \A p, k : p \in {0, k} => At(p, k) = p
  BY DEF At
<1>5. /\ binder'.self = At(b.self, 1) /\ binder'.version = At(b.version, 2) /\ binder'.pool = At(b.pool, 4)
      /\ IsList(binder'.list) /\ Len(binder'.list) = n
      /\ \A i \in 1 .. n :
            /\ binder'.list[i] = File(binder'.list[i].name, binder'.list[i].data)
            /\ binder'.list[i].data = At(b.list[i].data, 16 * i + 2)
            /\ name_in_pool(b.list[i].name, b.pool) => binder'.list[i].name = binder'.pool
            /\ ~name_in_pool(b.list[i].name, b.pool) => binder'.list[i].name = At(b.list[i].name, 16 * i + 1)
  BY <1>1, <1>2, BinderRenumbered
<1>6. /\ reader' = ReaderOf(reader'.self, reader'.version, reader'.headers, reader'.files, reader'.pool, r.count,
                            reader'.br, reader'.br2)
      /\ reader'.self = At(r.self, 5) /\ reader'.version = At(r.version, 6) /\ reader'.headers = At(r.headers, 7)
      /\ reader'.files = At(r.files, 8) /\ reader'.pool = At(r.pool, 9)
      /\ reader'.br = Br(At(r.br.self, 10), At(r.br.buf, 11))
      /\ reader'.br2 = Br(At(r.br2.self, 12), At(r.br2.buf, 13))
  BY <1>1, <1>2, ReaderRenumbered
<1>7. binder'.self = binder.self /\ binder'.version = binder.version /\ binder'.pool = binder.pool
  BY <1>2, <1>3, <1>4, <1>5 DEF Numbered
<1>8. reader' = reader
  <2>1. /\ reader'.self = r.self /\ reader'.version = r.version /\ reader'.headers = r.headers
        /\ reader'.files = r.files /\ reader'.pool = r.pool
    BY <1>2, <1>3, <1>4, <1>6 DEF Numbered
  <2>2. /\ At(r.br.self, 10) = r.br.self /\ At(r.br.buf, 11) = r.br.buf
        /\ At(r.br2.self, 12) = r.br2.self /\ At(r.br2.buf, 13) = r.br2.buf
    BY <1>2, <1>3, <1>4 DEF Numbered
  <2>3. r.br = Br(r.br.self, r.br.buf) /\ r.br2 = Br(r.br2.self, r.br2.buf)
    BY <1>2 DEF Handles, IsReader, ReaderOnce, IsBr, Br
  <2>4. reader'.br = r.br /\ reader'.br2 = r.br2
    BY <1>6, <2>2, <2>3
  <2>5. r = ReaderOf(r.self, r.version, r.headers, r.files, r.pool, r.count, r.br, r.br2)
    BY <1>2 DEF Handles, IsReader
  <2> QED BY <1>3, <1>6, <2>1, <2>4, <2>5
<1>9. mine' = mine
  <2>1. \A p \in mn : Address(ps, mn, p) = Base + Cardinality({q \in mn : q <= p})
    BY MineNumbered DEF Sound
  <2> DEFINE k == Cardinality(mine)
  <2>2. k \in Nat /\ mn = Base + 1 .. Base + k
    BY <1>3, StandingHeap DEF Standing
  <2> HIDE DEF k
  <2>3. \A p \in mn : Base + Cardinality({q \in mn : q <= p}) = p
    <3>1. Base \in Nat
      BY BaseType
    <3> QED BY <2>2, <3>1, RankInterval, Zenon
  <2>4. \A p \in mn : Address(ps, mn, p) = p
    BY <2>1, <2>3
  <2> HIDE DEF ps
  <2> QED BY <1>1, <1>3, <2>4
<1>10. binder'.list = binder.list
  <2>1. IsList(b.list) /\ n \in Nat
    BY <1>2, ListDomain DEF Handles, IsBinder
  <2>2. \A i \in 1 .. n : binder'.list[i] = b.list[i]
    <3> SUFFICES ASSUME NEW i \in 1 .. n PROVE binder'.list[i] = b.list[i]
      OBVIOUS
    <3> DEFINE f == b.list[i]
    <3>1. OwnName(f, b.pool) \in {0, 16 * i + 1} /\ f.data \in {0, 16 * i + 2}
      BY <1>2, <1>3 DEF Numbered
    <3>2. f = File(f.name, f.data)
      <4>1. f \in [name : Nat, data : Nat]
        BY <2>1, ListDomain
      <4> HIDE DEF f
      <4> QED BY <4>1 DEF File
    <3>3. binder'.list[i].data = f.data
      BY <1>4, <1>5, <3>1
    <3>4. binder'.list[i].name = f.name
      <4>1. CASE name_in_pool(f.name, b.pool)
        <5>1. f.name = b.pool
          BY <4>1 DEF name_in_pool
        <5>2. binder'.list[i].name = binder'.pool
          BY <1>5, <4>1
        <5> QED BY <1>3, <1>7, <5>1, <5>2
      <4>2. CASE ~name_in_pool(f.name, b.pool)
        <5>1. f.name \in {0, 16 * i + 1}
          BY <3>1, <4>2 DEF OwnName
        <5> QED BY <1>4, <1>5, <4>2, <5>1
      <4> QED BY <4>1, <4>2
    <3>5. binder'.list[i] = File(binder'.list[i].name, binder'.list[i].data)
      BY <1>5
    <3> QED BY <3>2, <3>3, <3>4, <3>5
  <2>3. DOMAIN binder'.list = 1 .. n /\ DOMAIN b.list = 1 .. n
    BY <1>5, <2>1, ListDomain
  <2> DEFINE N == [name : Nat, data : Nat]
  <2>4. binder'.list \in Seq(N) /\ b.list \in Seq(N) /\ Len(binder'.list) = Len(b.list)
    BY <1>5, <2>1 DEF IsList
  <2> HIDE DEF N
  <2>5. binder'.list = b.list
    BY <2>2, <2>4
  <2> QED BY <1>3, <2>5
<1> QED BY <1>7, <1>8, <1>9, <1>10

(***************************************************************************)
(* What a call may do, and that the invariant survives it.                 *)
(***************************************************************************)
\* What the calls may do wrong and what they may lose, and that one which fails
\* keeps the handles.
KnownMisuse(c, bad) ==
  \A what \in bad :
     /\ what \in {"twice", "stale", "foreign"}
     /\ \/ c = "open_dcx" /\ what = "twice" /\ kind = "bnd3"
        \/ c = "add_own" /\ what = "stale"
        \/ c = "own_version" /\ what = "stale" /\ kind \in {"bnd3", "bxf3"}
        \/ c \in {"read", "read_dcx", "open", "open_dcx"} /\ what = "foreign"
\* When a call may end with a live block that nobody holds.
KnownLeak(c, ok) ==
  \/ c = "write" /\ kind # "bnd4"
  \/ c \in {"open", "open_dcx"} /\ kind \in {"bnd4", "bhd5"} /\ ~ok
\* When the DCX decoder it called may have lost one.
KnownLoss(c, ok) == c \in {"read_dcx", "open_dcx", "file_dcx"} /\ kind # "bhd5" /\ ~ok
\* What a call owes when it ends.
Call(c, ok, m, b, r, mn) ==
  /\ Sound(m, b, r, mn) /\ ok \in BOOLEAN
  /\ kind = "bhd5" => b = NoBinder
  /\ KnownMisuse(c, m.bad)
  /\ m.heap \subseteq HeldBlocks(b, r) \cup mn \/ KnownLeak(c, ok)
  /\ m.lost = {} \/ KnownLoss(c, ok)
  /\ ok \/ Kept(b, r, mn)

\* What FailedCallKeepsFiles says of a step.
KeepsFiles ==
  failed' => /\ binder'.list = binder.list /\ binder'.pool = binder.pool
             /\ binder'.version = binder.version /\ binder'.self = binder.self
             /\ reader' = reader /\ mine' = mine

\* A call that pays this keeps the invariant, and the files when it fails.
LEMMA CallKeeps ==
  ASSUME IndInv, NEW c, NEW ok, NEW m, NEW b, NEW r, NEW mn,
         Call(c, ok, m, b, r, mn), Return(c, ok, m, b, r, mn)
  PROVE  IndInv' /\ KeepsFiles
<1>1. Sound(m, b, r, mn) /\ ok \in BOOLEAN
  BY DEF Call
<1>2. /\ Standing(binder', reader', mine', heap')
      /\ b = NoBinder => binder' = NoBinder
      /\ failed' = ~ok /\ kind' = kind
      /\ misuse' = {<<c, what>> : what \in m.bad}
      /\ leaked' = (IF m.heap \subseteq HeldBlocks(b, r) \cup mn THEN {} ELSE {<<c, "unheld">>})
                   \cup (IF m.lost = {} THEN {} ELSE {<<c, "lost">>})
  BY <1>1, Returned
<1>3. kind' \in Kinds /\ failed' \in BOOLEAN /\ (kind' = "bhd5" => binder' = NoBinder)
  BY <1>1, <1>2 DEF Call, IndInv
<1>4. ASSUME NEW u \in misuse'
      PROVE  /\ u[2] \in {"twice", "stale", "foreign"}
             /\ \/ u = <<"open_dcx", "twice">> /\ kind' = "bnd3"
                \/ u = <<"add_own", "stale">>
                \/ u = <<"own_version", "stale">> /\ kind' \in {"bnd3", "bxf3"}
                \/ u[1] \in {"read", "read_dcx", "open", "open_dcx"} /\ u[2] = "foreign"
  <2>1. PICK what \in m.bad : u = <<c, what>>
    BY <1>2
  <2>2. u[1] = c /\ u[2] = what
    BY <2>1
  <2>3. /\ what \in {"twice", "stale", "foreign"}
        /\ \/ c = "open_dcx" /\ what = "twice" /\ kind = "bnd3"
           \/ c = "add_own" /\ what = "stale"
           \/ c = "own_version" /\ what = "stale" /\ kind \in {"bnd3", "bxf3"}
           \/ c \in {"read", "read_dcx", "open", "open_dcx"} /\ what = "foreign"
    BY DEF Call, KnownMisuse
  <2> QED BY <1>2, <2>1, <2>2, <2>3
<1>5. OnlyKnownMisuse'
  BY <1>4 DEF OnlyKnownMisuse
<1>6. OnlyKnownLeaks'
  <2> SUFFICES ASSUME NEW d \in leaked'
               PROVE  \/ d = <<"write", "unheld">> /\ kind' # "bnd4"
                      \/ d[1] \in {"open", "open_dcx"} /\ d[2] = "unheld" /\ kind' \in {"bnd4", "bhd5"} /\ failed'
                      \/ d[1] \in {"read_dcx", "open_dcx", "file_dcx"} /\ d[2] = "lost" /\ kind' # "bhd5" /\ failed'
    BY DEF OnlyKnownLeaks
  <2>1. CASE d = <<c, "unheld">> /\ ~ (m.heap \subseteq HeldBlocks(b, r) \cup mn)
    <3>1. KnownLeak(c, ok)
      BY <2>1 DEF Call
    <3>2. d[1] = c /\ d[2] = "unheld"
      BY <2>1
    <3> QED BY <1>2, <2>1, <3>1, <3>2 DEF KnownLeak
  <2>2. CASE d = <<c, "lost">> /\ m.lost # {}
    <3>1. KnownLoss(c, ok)
      BY <2>2 DEF Call
    <3>2. d[1] = c /\ d[2] = "lost"
      BY <2>2
    <3> QED BY <1>2, <2>2, <3>1, <3>2 DEF KnownLoss
  <2> QED BY <1>2, <2>1, <2>2
<1>7. IndInv'
  BY <1>2, <1>3, <1>4, <1>5, <1>6 DEF IndInv
<1>8. KeepsFiles
  <2> SUFFICES ASSUME failed'
               PROVE  /\ binder'.list = binder.list /\ binder'.pool = binder.pool
                      /\ binder'.version = binder.version /\ binder'.self = binder.self
                      /\ reader' = reader /\ mine' = mine
    BY DEF KeepsFiles
  <2>1. Kept(b, r, mn)
    BY <1>1, <1>2 DEF Call
  <2>2. Standing(binder, reader, mine, heap)
    BY DEF IndInv
  <2> QED BY <1>1, <2>1, <2>2, ReturnedSame
<1> QED BY <1>7, <1>8

\* The absent handles hold no block.
LEMMA NoHandles ==
  /\ IsBinder(NoBinder) /\ BinderBlocks(NoBinder) = {} /\ Len(NoBinder.list) = 0
  /\ IsReader(NoReader) /\ ReaderBlocks(NoReader) = {}
<1>1. IsBinder(NoBinder) /\ BinderBlocks(NoBinder) = {0, 0} \ {0} /\ Len(NoBinder.list) = 0
  BY SmallBinder DEF NoBinder
<1>2. ReaderBlocks(NoReader) = {}
  BY DEF NoReader, ReaderOf, NoBr, Br, ReaderBlocks, FieldBlocks, PairBlocks, BrBlocks
<1>3. IsReader(NoReader)
  <2>1. /\ NoReader.self = 0 /\ NoReader.version = 0 /\ NoReader.headers = 0 /\ NoReader.files = 0
        /\ NoReader.pool = 0 /\ NoReader.count = 0 /\ NoReader.br = NoBr /\ NoReader.br2 = NoBr
    BY ReaderFields DEF NoReader
  <2>2. IsBr(NoBr) /\ BrBlocks(NoBr) = {}
    BY NoBrIsBr
  <2>3. ReaderOnce(NoReader)
    BY <2>1, <2>2 DEF ReaderOnce, Differ, PairBlocks
  <2>4. NoReader = ReaderOf(NoReader.self, NoReader.version, NoReader.headers, NoReader.files, NoReader.pool,
                            NoReader.count, NoReader.br, NoReader.br2)
    BY <2>1 DEF NoReader
  <2> QED BY <2>1, <2>3, <2>4 DEF IsReader
<1> QED BY <1>1, <1>2, <1>3

\* No block at all, whatever misuse bad is put up with.
Empty(bad, custom) == Mem({}, 1, bad, custom, {})

\* The fields of a memory.
LEMMA MemFields ==
  ASSUME NEW h, NEW n, NEW b, NEW c, NEW l
  PROVE  LET m == Mem(h, n, b, c, l)
         IN  m.heap = h /\ m.next = n /\ m.bad = b /\ m.custom = c /\ m.lost = l
BY DEF Mem

\* A call begins with nothing lost.
LEMMA NothingLost == (\A custom : Memory(custom).lost = {}) /\ Now.lost = {}
BY DEF Memory, Now, Mem

\* The fields of the memory in which nothing is live.
LEMMA EmptyFields ==
  ASSUME NEW bad, NEW custom
  PROVE  /\ Empty(bad, custom).heap = {} /\ Empty(bad, custom).next = 1 /\ Empty(bad, custom).bad = bad
         /\ Empty(bad, custom).custom = custom
BY MemFields DEF Empty

\* A call begins with the live blocks as if they had been given since the empty
\* memory, and with no misuse.
LEMMA CallBegins ==
  ASSUME IndInv, NEW custom, NEW bad
  PROVE  /\ Fit(Memory(custom)) /\ Fit(Empty(bad, custom))
         /\ Gives(Empty(bad, custom), Memory(custom), heap)
         /\ Memory(custom).heap = heap /\ Memory(custom).bad = {} /\ Memory(custom).custom = custom
<1> DEFINE m == Memory(custom)
           e == Empty(bad, custom)
<1>1. m.heap = heap /\ m.next = Base + MaxMine + 1 /\ m.bad = {} /\ m.custom = custom
  BY MemFields DEF Memory
<1>2. e.heap = {} /\ e.next = 1 /\ e.bad = bad /\ e.custom = custom
  BY EmptyFields
<1>3. heap \subseteq 1 .. Base + MaxMine
  BY StandingHeap DEF IndInv
<1> HIDE DEF m, e
<1>4. Fit(m)
  BY <1>1, <1>3, BaseType DEF Fit
<1>5. Fit(e)
  BY <1>2 DEF Fit
<1>6. Quiet(e, m)
  BY <1>1, <1>2 DEF Quiet
<1>7. Gives(e, m, heap)
  <2>1. m.next \in Nat /\ m.next >= e.next /\ heap \subseteq e.next .. m.next - 1 /\ m.heap = e.heap \cup heap
    BY <1>1, <1>2, <1>3, BaseType
  <2> QED BY <1>6, <2>1 DEF Gives
<1> QED BY <1>1, <1>4, <1>5, <1>7 DEF m, e

\* What the invariant says about the beginning of a call.
LEMMA Begun ==
  ASSUME IndInv
  PROVE  /\ Handles(binder, reader) /\ heap = HeldBlocks(binder, reader) \cup mine
         /\ HeldBlocks(binder, reader) \cap mine = {}
         /\ IsFiniteSet(mine) /\ mine \subseteq Nat \ {0} /\ Cardinality(mine) \in Nat /\ Cardinality(mine) <= MaxMine
         /\ kind \in Kinds /\ (kind = "bhd5" => binder = NoBinder) /\ Kept(binder, reader, mine)
<1>1. Standing(binder, reader, mine, heap) /\ kind \in Kinds /\ (kind = "bhd5" => binder = NoBinder)
  BY DEF IndInv
<1>2. /\ HeldBlocks(binder, reader) \cap mine = {}
      /\ IsFiniteSet(mine) /\ mine \subseteq Base + 1 .. Base + MaxMine /\ Cardinality(mine) \in Nat
  BY <1>1, StandingHeap
<1>3. mine \subseteq Nat \ {0}
  BY <1>2, BaseType
<1>4. Handles(binder, reader) /\ heap = HeldBlocks(binder, reader) \cup mine /\ Cardinality(mine) \in 0 .. MaxMine
  BY <1>1 DEF Standing
<1>5. Cardinality(mine) <= MaxMine
  BY <1>4, BaseType
<1> QED BY <1>1, <1>2, <1>3, <1>4, <1>5 DEF Kept

\* What a call that allocates gives is apart from all that was live.
LEMMA Made ==
  ASSUME IndInv, NEW custom \in BOOLEAN, NEW m, NEW S, Gives(Memory(custom), m, S)
  PROVE  /\ m.heap = heap \cup S /\ S \cap heap = {} /\ S \subseteq Nat \ {0}
         /\ m.bad \subseteq IF custom THEN {"foreign"} ELSE {}
<1>1. Fit(Memory(custom)) /\ Memory(custom).heap = heap /\ Memory(custom).bad = {} /\ Memory(custom).custom = custom
  BY CallBegins
<1>2. S \cap Memory(custom).heap = {} /\ 0 \notin S /\ Fit(m)
  BY <1>1, GivesFit
<1>3. m.heap = Memory(custom).heap \cup S /\ Quiet(Memory(custom), m)
  BY DEF Gives
<1>4. m.bad \subseteq Memory(custom).bad \cup (IF Memory(custom).custom THEN {"foreign"} ELSE {})
  BY <1>3 DEF Quiet
<1>5. m.heap \subseteq Nat
  BY <1>2 DEF Fit
<1> QED BY <1>1, <1>2, <1>3, <1>4, <1>5

\* One handle alone is sound.
LEMMA OneHandle ==
  /\ \A b : IsBinder(b) /\ Len(b.list) <= MaxFiles => Handles(b, NoReader) /\ HeldBlocks(b, NoReader) = BinderBlocks(b)
  /\ \A r : IsReader(r) => Handles(NoBinder, r) /\ HeldBlocks(NoBinder, r) = ReaderBlocks(r)
<1>1. 0 <= MaxFiles
  BY BaseType
<1> QED BY <1>1, NoHandles DEF Handles, HeldBlocks

\* A call without a handle that made one, of the blocks it gave, ends soundly.
LEMMA NewHandle ==
  ASSUME IndInv, Idle, NEW m, NEW S, m.heap = heap \cup S, S \cap heap = {},
         NEW b, NEW r, Handles(b, r), HeldBlocks(b, r) \subseteq S
  PROVE  /\ Sound(m, b, r, mine)
         /\ HeldBlocks(b, r) = S => m.heap \subseteq HeldBlocks(b, r) \cup mine
<1>1. HeldBlocks(binder, reader) = {}
  BY NoHandles DEF Idle, HeldBlocks
<1>2. heap = mine /\ IsFiniteSet(mine) /\ mine \subseteq Nat \ {0} /\ Cardinality(mine) <= MaxMine
  BY <1>1, Begun
<1> QED BY <1>2 DEF Sound

\* No misuse is a known one.
LEMMA NothingBad == \A c : KnownMisuse(c, {})
BY DEF KnownMisuse

\* sf_*_create keeps the invariant.
LEMMA CreateStep ==
  ASSUME IndInv, Create
  PROVE  IndInv' /\ KeepsFiles
<1>1. kind \in Binder /\ Idle /\ binder = NoBinder /\ reader = NoReader
  BY DEF Create, Idle
<1>2. PICK o \in create(Now) : Return("create", o.ok, o.m, o.b, reader, mine)
  BY DEF Create
<1>3. Fit(Now)
  BY CallBegins DEF Now
<1>4. /\ o.ok \in BOOLEAN
      /\ o.ok => \E s, v \in Nat \ {0} :
                    /\ o.b = BinderOf(s, v, 0, 0, <<>>, 0)
                    /\ s # v /\ Gives(Now, o.m, {s, v})
      /\ ~o.ok => Gives(Now, o.m, {}) /\ o.b = NoBinder
  BY <1>2, <1>3, Created
<1>5. kind # "bhd5"
  BY <1>1 DEF Binder
<1>6. IsBinder(o.b) /\ Len(o.b.list) <= MaxFiles /\ Gives(Now, o.m, BinderBlocks(o.b))
  <2>1. CASE o.ok
    <3>1. PICK s \in Nat \ {0}, v \in Nat \ {0} : o.b = BinderOf(s, v, 0, 0, <<>>, 0) /\ s # v /\ Gives(Now, o.m, {s, v})
      BY <1>4, <2>1
    <3>2. s \in Nat /\ v \in Nat /\ {s, v} \ {0} = {s, v}
      OBVIOUS
    <3>3. IsBinder(o.b) /\ BinderBlocks(o.b) = {s, v} \ {0} /\ Len(o.b.list) = 0
      BY <3>1, <3>2, SmallBinder
    <3>4. BinderBlocks(o.b) = {s, v}
      BY <3>2, <3>3
    <3>5. Len(o.b.list) <= MaxFiles
      BY <3>3, BaseType
    <3> QED BY <3>1, <3>3, <3>4, <3>5
  <2>2. CASE ~o.ok
    <3>1. o.b = NoBinder /\ Gives(Now, o.m, {})
      BY <1>4, <2>2
    <3>2. IsBinder(o.b) /\ BinderBlocks(o.b) = {} /\ Len(o.b.list) = 0
      BY <3>1, NoHandles
    <3>3. Len(o.b.list) <= MaxFiles
      BY <3>2, BaseType
    <3> QED BY <3>1, <3>2, <3>3
  <2> QED BY <1>4, <2>1, <2>2
<1>7. Handles(o.b, reader) /\ HeldBlocks(o.b, reader) = BinderBlocks(o.b)
  BY <1>1, <1>6, OneHandle
<1>8. o.m.heap = heap \cup BinderBlocks(o.b) /\ BinderBlocks(o.b) \cap heap = {} /\ o.m.bad = {}
  BY <1>6, Made DEF Now
<1>9. Sound(o.m, o.b, reader, mine) /\ o.m.heap \subseteq HeldBlocks(o.b, reader) \cup mine
  BY <1>1, <1>7, <1>8, NewHandle
<1>10. o.ok \/ Kept(o.b, reader, mine)
  BY <1>1, <1>4, Begun DEF Kept
<1>11. o.m.lost = {}
  BY <1>2, CopiesLoseNothing, NothingLost DEF KeepsLost
<1>12. Call("create", o.ok, o.m, o.b, reader, mine)
  BY <1>4, <1>5, <1>8, <1>9, <1>10, <1>11, NothingBad DEF Call
<1> QED BY <1>2, <1>12, CallKeeps

\* sf_*_read keeps the invariant, whatever fails.
LEMMA ReadStep ==
  ASSUME IndInv, Read
  PROVE  IndInv' /\ KeepsFiles
<1>1. kind \in Binder /\ Idle /\ binder = NoBinder /\ reader = NoReader
  BY DEF Read, Idle
<1> DEFINE Name(dcx, form) == IF dcx \/ form = "packed" THEN "read_dcx" ELSE "read"
<1>2. PICK n \in 0 .. MaxFiles, named \in BOOLEAN, dcx \in BOOLEAN, custom \in BOOLEAN, form \in Forms :
        \E o \in read_from(Memory(custom), n, named, form, dcx) : Return(Name(dcx, form), o.ok, o.m, o.b, reader, mine)
  BY DEF Read
<1>3. PICK o \in read_from(Memory(custom), n, named, form, dcx) : Return(Name(dcx, form), o.ok, o.m, o.b, reader, mine)
  BY <1>2
<1>4. Fit(Memory(custom)) /\ n \in Nat /\ n <= MaxFiles
  BY CallBegins, BaseType
<1>5. /\ o.ok \in BOOLEAN
      /\ o.ok => /\ IsBinder(o.b) /\ Len(o.b.list) <= n
                 /\ Gives(Memory(custom), o.m, BinderBlocks(o.b))
      /\ ~o.ok => Gives(Memory(custom), o.m, {}) /\ o.b = NoBinder
  BY <1>3, <1>4, ReadFrom
<1>6. kind # "bhd5"
  BY <1>1 DEF Binder
<1>7. IsBinder(o.b) /\ Len(o.b.list) <= MaxFiles /\ Gives(Memory(custom), o.m, BinderBlocks(o.b))
  <2>1. CASE o.ok
    <3>1. Len(o.b.list) \in Nat
      BY <1>5, <2>1, ListDomain DEF IsBinder
    <3> QED BY <1>4, <1>5, <2>1, <3>1, BaseType
  <2>2. CASE ~o.ok
    <3>1. o.b = NoBinder /\ Gives(Memory(custom), o.m, {})
      BY <1>5, <2>2
    <3>2. IsBinder(o.b) /\ BinderBlocks(o.b) = {} /\ Len(o.b.list) = 0
      BY <3>1, NoHandles
    <3>3. Len(o.b.list) <= MaxFiles
      BY <3>2, BaseType
    <3> QED BY <3>1, <3>2, <3>3
  <2> QED BY <1>5, <2>1, <2>2
<1>8. Handles(o.b, reader) /\ HeldBlocks(o.b, reader) = BinderBlocks(o.b)
  BY <1>1, <1>7, OneHandle
<1>9. /\ o.m.heap = heap \cup BinderBlocks(o.b) /\ BinderBlocks(o.b) \cap heap = {}
      /\ o.m.bad \subseteq {"foreign"}
  BY <1>7, Made
<1>10. Sound(o.m, o.b, reader, mine) /\ o.m.heap \subseteq HeldBlocks(o.b, reader) \cup mine
  BY <1>1, <1>8, <1>9, NewHandle
<1>11. o.ok \/ Kept(o.b, reader, mine)
  BY <1>1, <1>5, Begun DEF Kept
<1> DEFINE c == Name(dcx, form)
<1>12. c \in {"read", "read_dcx"} /\ (dcx \/ form = "packed" => c = "read_dcx")
  OBVIOUS
<1>13. Return(c, o.ok, o.m, o.b, reader, mine)
  BY <1>3
<1> HIDE DEF c, Name
<1>14. KnownMisuse(c, o.m.bad)
  BY <1>9, <1>12 DEF KnownMisuse
<1>15. o.m.lost = {} \/ KnownLoss(c, o.ok)
  <2>1. o.ok \/ (~dcx /\ form # "packed") => o.m.lost = {}
    BY <1>3, ReadLosesNothing, NothingLost
  <2> QED BY <1>6, <1>12, <2>1 DEF KnownLoss
<1>16. Call(c, o.ok, o.m, o.b, reader, mine)
  BY <1>5, <1>6, <1>10, <1>11, <1>14, <1>15 DEF Call
<1> QED BY <1>13, <1>16, CallKeeps

\* What opening gives is apart from all that was live.
LEMMA OpenedHeap ==
  ASSUME IndInv, NEW custom \in BOOLEAN, NEW dcx \in BOOLEAN, NEW m, NEW S, OpenGives(Memory(custom), m, S, dcx)
  PROVE  /\ m.heap = heap \cup S /\ S \cap heap = {}
         /\ m.bad \subseteq {"foreign"} \cup (IF kind = "bnd3" /\ dcx THEN {"twice"} ELSE {})
<1>1. Fit(Memory(custom)) /\ Memory(custom).heap = heap /\ Memory(custom).bad = {}
  BY CallBegins
<1> DEFINE m0 == Memory(custom)
<1>2. /\ m.next \in Nat /\ m.heap = m0.heap \cup S /\ S \subseteq m0.next .. m.next - 1
      /\ m.bad \subseteq m0.bad \cup (IF m0.custom THEN {"foreign"} ELSE {})
                              \cup (IF kind = "bnd3" /\ dcx THEN {"twice"} ELSE {})
  BY DEF OpenGives
<1>3. m0.next \in Nat /\ m0.heap \subseteq 1 .. m0.next - 1
  BY <1>1 DEF Fit
<1> HIDE DEF m0
<1>4. S \cap m0.heap = {}
  <2> SUFFICES ASSUME NEW p \in S, p \in m0.heap PROVE FALSE
    OBVIOUS
  <2>1. p \in Int /\ p >= m0.next /\ p <= m0.next - 1
    BY <1>2, <1>3
  <2> QED BY <1>3, <2>1
<1> QED BY <1>1, <1>2, <1>4 DEF m0

\* sf_*_reader_open and sf_bhd5_open keep the invariant, whatever fails.
LEMMA ReaderOpenStep ==
  ASSUME IndInv, ReaderOpen
  PROVE  IndInv' /\ KeepsFiles
<1>1. Idle /\ binder = NoBinder /\ reader = NoReader /\ Kept(NoBinder, NoReader, mine)
  BY DEF ReaderOpen, Idle, Kept
<1>2. ASSUME NEW r, NEW m, NEW S, m.heap = heap \cup S, S \cap heap = {}, IsReader(r), ReaderBlocks(r) \subseteq S
      PROVE  /\ Sound(m, binder, r, mine)
             /\ ReaderBlocks(r) = S => m.heap \subseteq HeldBlocks(binder, r) \cup mine
  <2>1. Handles(binder, r) /\ HeldBlocks(binder, r) = ReaderBlocks(r)
    BY <1>1, <1>2, OneHandle
  <2> QED BY <1>1, <1>2, <2>1, NewHandle
<1>3. ASSUME kind \in Binder, NEW n \in 0 .. MaxFiles, NEW named \in BOOLEAN, NEW dcx \in BOOLEAN, NEW custom \in BOOLEAN,
             NEW o \in reader_open(Memory(custom), n, named, dcx),
             Return(IF dcx THEN "open_dcx" ELSE "open", o.ok, o.m, binder, o.r, mine)
      PROVE  IndInv' /\ KeepsFiles
  <2> DEFINE c == IF dcx THEN "open_dcx" ELSE "open"
  <2>0. n \in Nat
    BY BaseType
  <2>1. Fit(Memory(custom)) /\ n \in Nat
    BY <2>0, CallBegins
  <2>2. HandleOrNothing(Memory(custom), o, dcx)
    BY <1>3, <2>1, ReaderOpened
  <2>3. o.ok \in BOOLEAN
    BY <2>2 DEF HandleOrNothing
  <2>4. PICK S : /\ OpenGives(Memory(custom), o.m, S, dcx)
                 /\ o.ok => IsReader(o.r) /\ S = ReaderBlocks(o.r)
                 /\ ~o.ok => o.r = NoReader /\ (kind # "bnd4" => S = {})
    <3>1. CASE o.ok
      BY <2>2, <3>1 DEF HandleOrNothing
    <3>2. CASE ~o.ok
      BY <2>2, <3>2 DEF HandleOrNothing
    <3> QED BY <2>3, <3>1, <3>2
  <2>5. /\ o.m.heap = heap \cup S /\ S \cap heap = {}
        /\ o.m.bad \subseteq {"foreign"} \cup (IF kind = "bnd3" /\ dcx THEN {"twice"} ELSE {})
    BY <2>4, OpenedHeap
  <2>6. IsReader(o.r) /\ ReaderBlocks(o.r) \subseteq S /\ (kind # "bnd4" \/ o.ok => ReaderBlocks(o.r) = S)
    BY <2>3, <2>4, NoHandles
  <2>7. /\ Sound(o.m, binder, o.r, mine)
        /\ ReaderBlocks(o.r) = S => o.m.heap \subseteq HeldBlocks(binder, o.r) \cup mine
    BY <1>2, <2>5, <2>6
  <2>8. c \in {"open", "open_dcx"} /\ (dcx => c = "open_dcx")
    OBVIOUS
  <2> HIDE DEF c
  <2>9. KnownMisuse(c, o.m.bad)
    BY <2>5, <2>8 DEF KnownMisuse
  <2>10. o.m.heap \subseteq HeldBlocks(binder, o.r) \cup mine \/ KnownLeak(c, o.ok)
    BY <2>3, <2>6, <2>7, <2>8 DEF KnownLeak
  <2>11. o.ok \/ Kept(binder, o.r, mine)
    BY <1>1, <2>3, <2>4
  <2>12. o.m.lost = {} \/ KnownLoss(c, o.ok)
    <3>1. o.ok \/ ~dcx => o.m.lost = {}
      BY <1>3, OpeningLosesNothing, NothingLost
    <3>2. kind # "bhd5"
      BY <1>3 DEF Binder
    <3> QED BY <2>8, <3>1, <3>2 DEF KnownLoss
  <2>13. Call(c, o.ok, o.m, binder, o.r, mine)
    BY <1>1, <2>3, <2>7, <2>9, <2>10, <2>11, <2>12 DEF Call
  <2>14. Return(c, o.ok, o.m, binder, o.r, mine)
    BY <1>3 DEF c
  <2> QED BY <2>13, <2>14, CallKeeps
<1>4. ASSUME kind = "bhd5", NEW encrypted \in BOOLEAN, NEW o \in bhd5_open(Now, encrypted),
             Return("open", o.ok, o.m, binder, o.r, mine)
      PROVE  IndInv' /\ KeepsFiles
  <2>1. Fit(Now)
    BY CallBegins DEF Now
  <2>2. BhdOrNothing(Now, o)
    BY <1>4, <2>1, Bhd5Opened
  <2>3. o.ok \in BOOLEAN
    BY <2>2 DEF BhdOrNothing
  <2>4. PICK S : /\ Gives(Now, o.m, S)
                 /\ o.ok => IsReader(o.r) /\ S = ReaderBlocks(o.r)
                 /\ ~o.ok => o.r = NoReader
    <3>1. CASE o.ok
      BY <2>2, <3>1 DEF BhdOrNothing
    <3>2. CASE ~o.ok
      BY <2>2, <3>2 DEF BhdOrNothing
    <3> QED BY <2>3, <3>1, <3>2
  <2>5. o.m.heap = heap \cup S /\ S \cap heap = {} /\ o.m.bad = {}
    BY <2>4, Made DEF Now
  <2>6. IsReader(o.r) /\ ReaderBlocks(o.r) \subseteq S /\ (o.ok => ReaderBlocks(o.r) = S)
    BY <2>3, <2>4, NoHandles
  <2>7. /\ Sound(o.m, binder, o.r, mine)
        /\ ReaderBlocks(o.r) = S => o.m.heap \subseteq HeldBlocks(binder, o.r) \cup mine
    BY <1>2, <2>5, <2>6
  <2>8. o.m.heap \subseteq HeldBlocks(binder, o.r) \cup mine \/ KnownLeak("open", o.ok)
    BY <1>4, <2>3, <2>6, <2>7 DEF KnownLeak
  <2>9. o.ok \/ Kept(binder, o.r, mine)
    BY <1>1, <2>3, <2>4
  <2>10. o.m.lost = {}
    BY <1>4, Bhd5LosesNothing, NothingLost DEF KeepsLost
  <2>11. Call("open", o.ok, o.m, binder, o.r, mine)
    BY <1>1, <2>3, <2>5, <2>7, <2>8, <2>9, <2>10, NothingBad DEF Call
  <2> QED BY <1>4, <2>11, CallKeeps
<1>5. CASE kind \in Binder
  <2>1. \E n \in 0 .. MaxFiles, named, dcx, custom \in BOOLEAN :
          \E o \in reader_open(Memory(custom), n, named, dcx) :
             Return(IF dcx THEN "open_dcx" ELSE "open", o.ok, o.m, binder, o.r, mine)
    BY <1>5 DEF ReaderOpen, Binder
  <2> QED BY <1>3, <1>5, <2>1
<1>6. CASE kind = "bhd5"
  <2>1. \E encrypted \in BOOLEAN : \E o \in bhd5_open(Now, encrypted) : Return("open", o.ok, o.m, binder, o.r, mine)
    BY <1>6 DEF ReaderOpen, Binder
  <2> QED BY <1>4, <1>6, <2>1
<1> QED BY <1>5, <1>6 DEF ReaderOpen

\* A call that gave blocks to the caller and left the handles alone ends soundly.
LEMMA Handed ==
  ASSUME IndInv, NEW m, NEW L, NEW out, Gives(Now, m, L \cup out), IsFiniteSet(out),
         out = {} \/ Cardinality(mine) + Cardinality(out) <= MaxMine
  PROVE  /\ Sound(m, binder, reader, mine \cup out) /\ m.bad = {}
         /\ L = {} => m.heap \subseteq HeldBlocks(binder, reader) \cup (mine \cup out)
<1> DEFINE S == L \cup out
           H == HeldBlocks(binder, reader)
<1>1. /\ Handles(binder, reader) /\ heap = H \cup mine
      /\ H \cap mine = {}
      /\ IsFiniteSet(mine) /\ mine \subseteq Nat \ {0} /\ Cardinality(mine) \in Nat /\ Cardinality(mine) <= MaxMine
  BY Begun
<1>2. m.heap = heap \cup S /\ S \cap heap = {} /\ S \subseteq Nat \ {0} /\ m.bad = {}
  BY Made DEF Now
<1>3. IsFiniteSet(mine \cup out) /\ Cardinality(mine \cup out) <= MaxMine
  <2>1. CASE out = {}
    <3>1. mine \cup out = mine
      BY <2>1
    <3> QED BY <1>1, <3>1
  <2>2. CASE out # {}
    <3>1. /\ IsFiniteSet(mine \cup out)
          /\ Cardinality(mine \cup out) = Cardinality(mine) + Cardinality(out) - Cardinality(mine \cap out)
      BY <1>1, FS_Union
    <3>2. Cardinality(out) \in Nat /\ Cardinality(mine \cap out) \in Nat
      BY <1>1, FS_CardinalityType, FS_Intersection
    <3> QED BY <1>1, <2>2, <3>1, <3>2, BaseType
  <2> QED BY <2>1, <2>2
<1> HIDE DEF H
<1>4. /\ H \cup (mine \cup out) \subseteq m.heap /\ H \cap (mine \cup out) = {} /\ mine \cup out \subseteq Nat \ {0}
      /\ L = {} => m.heap \subseteq H \cup (mine \cup out)
  BY <1>1, <1>2
<1> QED BY <1>1, <1>2, <1>3, <1>4 DEF Sound, H

\* Writing a binder keeps the invariant.
LEMMA WriteStep ==
  ASSUME IndInv, Write
  PROVE  IndInv' /\ KeepsFiles
<1>1. PICK toMemory \in BOOLEAN :
        /\ toMemory => Cardinality(mine) + Sides <= MaxMine
        /\ \E o \in write_to(Now, toMemory) : Return("write", o.ok, o.m, binder, reader, mine \cup o.out)
  BY DEF Write
<1>2. PICK o \in write_to(Now, toMemory) : Return("write", o.ok, o.m, binder, reader, mine \cup o.out)
  BY <1>1
<1>3. Fit(Now)
  BY CallBegins DEF Now
<1>4. Written(Now, o, toMemory)
  BY <1>3, WroteTo
<1>5. /\ o.ok \in BOOLEAN
      /\ IsFiniteSet(o.out) /\ Cardinality(o.out) <= Sides
      /\ ~toMemory \/ ~o.ok => o.out = {}
  BY <1>4 DEF Written, IsOutput
<1>6. PICK L : Gives(Now, o.m, L \cup o.out) /\ (kind = "bnd4" => L = {})
  BY <1>4 DEF Written
<1>7. o.out = {} \/ Cardinality(mine) + Cardinality(o.out) <= MaxMine
  <2>1. CASE toMemory
    <3>1. Cardinality(mine) \in Nat /\ Cardinality(o.out) \in Nat /\ Sides \in Nat
      BY <1>5, Begun, FS_CardinalityType, SidesType
    <3> QED BY <1>1, <1>5, <2>1, <3>1, BaseType
  <2>2. CASE ~toMemory
    BY <1>5, <2>2
  <2> QED BY <2>1, <2>2
<1>8. /\ Sound(o.m, binder, reader, mine \cup o.out) /\ o.m.bad = {}
      /\ L = {} => o.m.heap \subseteq HeldBlocks(binder, reader) \cup (mine \cup o.out)
  BY <1>5, <1>6, <1>7, Handed
<1>9. o.ok \/ Kept(binder, reader, mine \cup o.out)
  <2>1. CASE ~o.ok
    <3>1. mine \cup o.out = mine
      BY <1>5, <2>1
    <3> QED BY <3>1, Begun
  <2> QED BY <2>1
<1>10. (kind = "bhd5" => binder = NoBinder) /\ (kind # "bnd4" => KnownLeak("write", o.ok))
  BY Begun DEF KnownLeak
<1>11. o.m.lost = {}
  BY <1>2, WritingLosesNothing, NothingLost DEF KeepsLost
<1>12. Call("write", o.ok, o.m, binder, reader, mine \cup o.out)
  BY <1>5, <1>6, <1>8, <1>9, <1>10, <1>11, NothingBad DEF Call
<1> QED BY <1>2, <1>12, CallKeeps

\* Writing a BHD5 keeps the invariant.
LEMMA WriteBhd5Step ==
  ASSUME IndInv, WriteBhd5
  PROVE  IndInv' /\ KeepsFiles
<1>1. PICK o \in bhd5_write(Now) : Return("write", o.ok, o.m, binder, reader, mine)
  BY DEF WriteBhd5
<1>2. Fit(Now) /\ kind = "bhd5"
  BY CallBegins DEF Now, WriteBhd5
<1>3. o.ok \in BOOLEAN /\ \E L : Gives(Now, o.m, L)
  BY <1>2, Bhd5Written
<1>4. PICK L : Gives(Now, o.m, L)
  BY <1>3
<1>5. L \cup {} = L /\ mine \cup {} = mine /\ IsFiniteSet({})
  BY FS_EmptySet
<1>6. Gives(Now, o.m, L \cup {})
  BY <1>4, <1>5
<1>7. Sound(o.m, binder, reader, mine \cup {}) /\ o.m.bad = {}
  BY <1>5, <1>6, Handed
<1>8. KnownLeak("write", o.ok)
  BY <1>2 DEF KnownLeak
<1>9. (kind = "bhd5" => binder = NoBinder) /\ Kept(binder, reader, mine)
  BY Begun
<1>10. o.m.lost = {}
  BY <1>1, WritingLosesNothing, NothingLost DEF KeepsLost
<1>11. Call("write", o.ok, o.m, binder, reader, mine)
  BY <1>3, <1>5, <1>7, <1>8, <1>9, <1>10, NothingBad DEF Call
<1> QED BY <1>1, <1>11, CallKeeps

\* Reading one file through a streaming reader keeps the invariant.
LEMMA ReaderReadStep ==
  ASSUME IndInv, ReaderRead
  PROVE  IndInv' /\ KeepsFiles
<1> DEFINE Name(form) == IF form = "packed" THEN "file_dcx" ELSE "read_file"
<1>1. PICK form \in Forms :
        \E o \in {Refused(Now)}
               \cup (IF reader.count = 0 THEN {}
                     ELSE IF kind = "bhd5" THEN extract_file(Now, form # "empty")
                     ELSE extract_file_data(Now, form)) :
          Return(Name(form), o.ok, o.m, binder, reader, mine \cup ({o.p} \ {0}))
  BY DEF ReaderRead
<1>2. PICK o \in {Refused(Now)}
               \cup (IF reader.count = 0 THEN {}
                     ELSE IF kind = "bhd5" THEN extract_file(Now, form # "empty")
                     ELSE extract_file_data(Now, form)) :
          Return(Name(form), o.ok, o.m, binder, reader, mine \cup ({o.p} \ {0}))
  BY <1>1
<1>3. Fit(Now) /\ Cardinality(mine) < MaxMine
  BY CallBegins DEF Now, ReaderRead
<1>4. /\ o.ok \in BOOLEAN
      /\ o.ok => Gives(Now, o.m, {o.p} \ {0})
      /\ ~o.ok => Gives(Now, o.m, {}) /\ o.p = 0
  <2>1. CASE o = Refused(Now)
    <3>1. o.ok = FALSE /\ o.m = Now /\ o.p = 0
      BY <2>1 DEF Refused
    <3>2. Gives(Now, Now, {})
      BY <1>3, GivesSelf
    <3> QED BY <3>1, <3>2
  <2>2. CASE o \in extract_file(Now, form # "empty")
    <3>1. (form # "empty") \in BOOLEAN
      OBVIOUS
    <3> QED BY <1>3, <2>2, <3>1, FileExtracted
  <2>3. CASE o \in extract_file_data(Now, form)
    BY <1>3, <2>3, DataExtracted
  <2> QED BY <1>2, <2>1, <2>2, <2>3
<1> DEFINE out == {o.p} \ {0}
<1>5. Gives(Now, o.m, {} \cup out)
  <2>1. {} \cup out = out
    OBVIOUS
  <2>2. CASE o.ok
    BY <1>4, <2>1, <2>2
  <2>3. CASE ~o.ok
    <3>1. out = {}
      BY <1>4, <2>3
    <3> QED BY <1>4, <2>1, <2>3, <3>1
  <2> QED BY <1>4, <2>2, <2>3
<1>6. IsFiniteSet(out) /\ Cardinality(out) <= 1
  BY OutputSize
<1>7. Cardinality(mine) + Cardinality(out) <= MaxMine
  <2>1. Cardinality(mine) \in Nat /\ Cardinality(out) \in Nat
    BY <1>6, Begun, FS_CardinalityType
  <2> HIDE DEF out
  <2> QED BY <1>3, <1>6, <2>1, BaseType
<1>8. ~o.ok => out = {}
  BY <1>4
<1> HIDE DEF out
<1>9. /\ Sound(o.m, binder, reader, mine \cup out) /\ o.m.bad = {}
      /\ o.m.heap \subseteq HeldBlocks(binder, reader) \cup (mine \cup out)
  BY <1>5, <1>6, <1>7, Handed
<1>10. o.ok \/ Kept(binder, reader, mine \cup out)
  <2>1. CASE ~o.ok
    <3>1. mine \cup out = mine
      BY <1>8, <2>1
    <3> QED BY <3>1, Begun
  <2> QED BY <2>1
<1>11. kind = "bhd5" => binder = NoBinder
  BY Begun
<1> DEFINE c == Name(form)
<1>12. (form = "packed" => c = "file_dcx") /\ Return(c, o.ok, o.m, binder, reader, mine \cup out)
  BY <1>2 DEF out
<1> HIDE DEF c, Name
<1>13. o.m.lost = {} \/ KnownLoss(c, o.ok)
  <2>1. CASE o = Refused(Now)
    BY <2>1, NothingLost DEF Refused
  <2>2. CASE o \in extract_file(Now, form # "empty")
    BY <2>2, Bhd5LosesNothing, NothingLost DEF KeepsLost
  <2>3. CASE kind # "bhd5" /\ o \in extract_file_data(Now, form)
    <3>1. o.ok \/ form # "packed" => o.m.lost = {}
      BY <2>3, DecodingLoses, NothingLost DEF KeepsLost, SparesLost
    <3> QED BY <1>12, <2>3, <3>1 DEF KnownLoss
  <2> QED BY <1>2, <2>1, <2>2, <2>3
<1>14. Call(c, o.ok, o.m, binder, reader, mine \cup out)
  BY <1>4, <1>9, <1>10, <1>11, <1>13, NothingBad DEF Call
<1> QED BY <1>12, <1>14, CallKeeps

(***************************************************************************)
(* The operations on a binder that exists.                                 *)
(***************************************************************************)
\* The memory m holds, since e, the blocks of the binder b and those of R.
Has(e, m, b, R) ==
  /\ IsBinder(b)
  /\ Gives(e, m, BinderBlocks(b) \cup R) /\ BinderBlocks(b) \cap R = {}

\* A call on a binder begins with its blocks and the caller's, and nothing else,
\* live.
LEMMA BinderBegins ==
  ASSUME IndInv, binder # NoBinder, NEW bad
  PROVE  /\ Fit(Empty(bad, FALSE)) /\ Has(Empty(bad, FALSE), Now, binder, mine)
         /\ reader = NoReader /\ kind # "bhd5" /\ Len(binder.list) <= MaxFiles
<1>1. Handles(binder, reader) /\ heap = HeldBlocks(binder, reader) \cup mine /\ HeldBlocks(binder, reader) \cap mine = {}
      /\ kind # "bhd5"
  BY Begun
<1>2. IsBinder(binder) /\ reader = NoReader /\ Len(binder.list) <= MaxFiles
  BY <1>1 DEF Handles
<1>3. HeldBlocks(binder, reader) = BinderBlocks(binder)
  BY <1>2, OneHandle
<1>4. Fit(Empty(bad, FALSE)) /\ Gives(Empty(bad, FALSE), Now, heap)
  BY CallBegins DEF Now
<1>5. heap = BinderBlocks(binder) \cup mine /\ BinderBlocks(binder) \cap mine = {}
  BY <1>1, <1>3
<1> QED BY <1>1, <1>2, <1>4, <1>5 DEF Has

\* A call on a binder that ends with its blocks and the caller's live has lost
\* nothing.
LEMMA BinderEnds ==
  ASSUME NEW bad, NEW m, NEW b, NEW mn, Has(Empty(bad, FALSE), m, b, mn), reader = NoReader, Len(b.list) <= MaxFiles,
         IsFiniteSet(mn), mn \subseteq Nat \ {0}, Cardinality(mn) <= MaxMine
  PROVE  Sound(m, b, reader, mn) /\ m.heap \subseteq HeldBlocks(b, reader) \cup mn /\ m.bad \subseteq bad
<1> DEFINE e == Empty(bad, FALSE)
<1>1. IsBinder(b) /\ Gives(e, m, BinderBlocks(b) \cup mn) /\ BinderBlocks(b) \cap mn = {}
  BY DEF Has
<1>2. Handles(b, reader) /\ HeldBlocks(b, reader) = BinderBlocks(b)
  BY <1>1, OneHandle
<1>3. e.heap = {} /\ e.bad = bad /\ e.custom = FALSE
  BY EmptyFields, Zenon
<1> HIDE DEF e
<1>4. m.heap = e.heap \cup (BinderBlocks(b) \cup mn) /\ m.bad \subseteq e.bad \cup (IF e.custom THEN {"foreign"} ELSE {})
  BY <1>1 DEF Gives, Quiet
<1>5. m.heap = BinderBlocks(b) \cup mn /\ m.bad \subseteq bad
  BY <1>3, <1>4
<1> QED BY <1>1, <1>2, <1>5 DEF Sound

\* sf_*_destroy keeps the invariant: after it only the caller's blocks are live.
LEMMA DestroyStep ==
  ASSUME IndInv, Destroy
  PROVE  IndInv' /\ KeepsFiles
<1> DEFINE e == Empty({}, FALSE)
           m == destroy(Now, binder)
           BM == BinderBlocks(binder) \cup mine
<1>1. binder # NoBinder /\ Return("destroy", TRUE, m, NoBinder, reader, mine)
  BY DEF Destroy
<1>2. Fit(e) /\ Has(e, Now, binder, mine) /\ reader = NoReader /\ kind # "bhd5"
  BY <1>1, BinderBegins
<1>3. BinderOnce(binder) /\ Gives(e, Now, BM) /\ BinderBlocks(binder) \cap mine = {} /\ BinderBlocks(binder) \subseteq BM
  BY <1>2 DEF Has, IsBinder
<1>4. BM \ BinderBlocks(binder) = BinderBlocks(NoBinder) \cup mine /\ BinderBlocks(NoBinder) \cap mine = {}
  BY <1>3, NoHandles
<1> HIDE DEF BM, e
<1>5. Gives(e, m, BM \ BinderBlocks(binder))
  BY <1>2, <1>3, Destroyed
<1> HIDE DEF m
<1>6. Has(e, m, NoBinder, mine) /\ Len(NoBinder.list) <= MaxFiles
  <2>1. Len(NoBinder.list) <= MaxFiles
    BY NoHandles, BaseType
  <2> QED BY <1>4, <1>5, <2>1, NoHandles DEF Has
<1>7. Sound(m, NoBinder, reader, mine) /\ m.heap \subseteq HeldBlocks(NoBinder, reader) \cup mine /\ m.bad \subseteq {}
  BY <1>2, <1>6, Begun, BinderEnds DEF e
<1>8. Call("destroy", TRUE, m, NoBinder, reader, mine)
  <2>1. m.bad = {}
    BY <1>7
  <2>2. m.lost = {}
    BY DestroysLoseNothing, NothingLost DEF m
  <2> QED BY <1>7, <2>1, <2>2, NothingBad DEF Call
<1> QED BY <1>1, <1>8, CallKeeps

\* So does closing a streaming reader.
LEMMA ReaderCloseStep ==
  ASSUME IndInv, ReaderClose
  PROVE  IndInv' /\ KeepsFiles
<1> DEFINE e == Empty({}, FALSE)
           m == reader_free(Now, reader)
<1>1. reader # NoReader /\ Return("close", TRUE, m, binder, NoReader, mine)
  BY DEF ReaderClose
<1>2. /\ Handles(binder, reader) /\ heap = HeldBlocks(binder, reader) \cup mine
      /\ HeldBlocks(binder, reader) \cap mine = {}
      /\ IsFiniteSet(mine) /\ mine \subseteq Nat \ {0} /\ Cardinality(mine) <= MaxMine
  BY Begun
<1>3. binder = NoBinder /\ IsReader(reader)
  BY <1>1, <1>2 DEF Handles
<1>4. HeldBlocks(binder, reader) = ReaderBlocks(reader) /\ HeldBlocks(binder, NoReader) = {} /\ Handles(binder, NoReader)
  BY <1>3, OneHandle, NoHandles
<1>5. ReaderOnce(reader) /\ ReaderBlocks(reader) \subseteq heap
  BY <1>2, <1>3, <1>4 DEF IsReader
<1>6. Fit(e) /\ Gives(e, Now, heap)
  BY CallBegins DEF Now
<1>7. e.heap = {} /\ e.bad = {} /\ e.custom = FALSE
  BY EmptyFields, Zenon
<1> HIDE DEF e
<1>8. Gives(e, m, heap \ ReaderBlocks(reader)) /\ m.lost = {}
  BY <1>5, <1>6, ReaderFreed, DestroysLoseNothing, NothingLost
<1> HIDE DEF m
<1>9. m.heap = e.heap \cup (heap \ ReaderBlocks(reader)) /\ m.bad \subseteq e.bad \cup (IF e.custom THEN {"foreign"} ELSE {})
  BY <1>8 DEF Gives, Quiet
<1>10. m.heap = mine /\ m.bad = {}
  BY <1>2, <1>4, <1>7, <1>9
<1>11. Sound(m, binder, NoReader, mine) /\ m.heap \subseteq HeldBlocks(binder, NoReader) \cup mine
  BY <1>2, <1>4, <1>10 DEF Sound
<1>12. Call("close", TRUE, m, binder, NoReader, mine)
  BY <1>3, <1>8, <1>10, <1>11, NothingBad DEF Call
<1> QED BY <1>1, <1>12, CallKeeps

\* So does a release by the caller.
LEMMA FreeMineStep ==
  ASSUME IndInv, FreeMine
  PROVE  IndInv' /\ KeepsFiles
<1>1. PICK p \in mine : Return("free", TRUE, sf_xfree(Now, p), binder, reader, mine \ {p})
  BY DEF FreeMine
<1> DEFINE e == Empty({}, FALSE)
           m == sf_xfree(Now, p)
           H == HeldBlocks(binder, reader)
<1>2. /\ Handles(binder, reader) /\ heap = H \cup mine /\ H \cap mine = {}
      /\ IsFiniteSet(mine) /\ mine \subseteq Nat \ {0} /\ Cardinality(mine) \in Nat /\ Cardinality(mine) <= MaxMine
      /\ (kind = "bhd5" => binder = NoBinder)
  BY Begun
<1>3. Fit(e) /\ Gives(e, Now, heap)
  BY CallBegins DEF Now
<1>4. e.heap = {} /\ e.bad = {} /\ e.custom = FALSE
  BY EmptyFields, Zenon
<1> HIDE DEF e, H
<1>5. Gives(e, m, heap \ {p}) /\ m.lost = {}
  BY <1>2, <1>3, FreeOne, ReleasesLoseNothing, NothingLost
<1> HIDE DEF m
<1>6. m.heap = e.heap \cup (heap \ {p}) /\ m.bad \subseteq e.bad \cup (IF e.custom THEN {"foreign"} ELSE {})
  BY <1>5 DEF Gives, Quiet
<1>7. /\ H \cup (mine \ {p}) = m.heap /\ H \cap (mine \ {p}) = {} /\ m.bad = {} /\ mine \ {p} \subseteq Nat \ {0}
  BY <1>2, <1>4, <1>6
<1>8. IsFiniteSet(mine \ {p}) /\ Cardinality(mine \ {p}) <= MaxMine
  <2>1. IsFiniteSet(mine \ {p}) /\ Cardinality(mine \ {p}) = Cardinality(mine) - 1
    BY <1>2, FS_RemoveElement
  <2> QED BY <1>2, <2>1, BaseType
<1>9. Sound(m, binder, reader, mine \ {p}) /\ m.heap \subseteq H \cup (mine \ {p})
  BY <1>2, <1>7, <1>8 DEF Sound, H
<1>10. Call("free", TRUE, m, binder, reader, mine \ {p})
  BY <1>2, <1>5, <1>7, <1>9, NothingBad DEF Call, H
<1> QED BY <1>1, <1>10, CallKeeps DEF m

\* The blocks of a list are its own names and its data.
LEMMA FileBlocksAre ==
  ASSUME NEW list, IsList(list), NEW pool
  PROVE  \A p : p \in FileBlocks(list, pool) <=>
                  p # 0 /\ \E i \in 1 .. Len(list) : p = OwnName(list[i], pool) \/ p = list[i].data
<1> DEFINE fs == FilePointers(list, pool)
           n == Len(list)
<1>1. /\ DOMAIN fs = (1 .. n) \X {1, 2}
      /\ \A i \in 1 .. n : fs[<<i, 1>>] = OwnName(list[i], pool) /\ fs[<<i, 2>>] = list[i].data
  BY FilePointersAt
<1>2. FileBlocks(list, pool) = {fs[x] : x \in DOMAIN fs} \ {0}
  BY DEF FileBlocks, Blocks
<1> HIDE DEF fs
<1>3. \A x \in DOMAIN fs : \E i \in 1 .. n : x = <<i, 1>> \/ x = <<i, 2>>
  BY <1>1
<1>4. \A i \in 1 .. n : <<i, 1>> \in DOMAIN fs /\ <<i, 2>> \in DOMAIN fs
  BY <1>1
<1>5. ASSUME NEW p, p \in FileBlocks(list, pool)
      PROVE  p # 0 /\ \E i \in 1 .. n : p = OwnName(list[i], pool) \/ p = list[i].data
  <2>1. PICK x \in DOMAIN fs : p = fs[x] /\ p # 0
    BY <1>2, <1>5
  <2>2. PICK i \in 1 .. n : x = <<i, 1>> \/ x = <<i, 2>>
    BY <1>3
  <2> QED BY <1>1, <2>1, <2>2
<1>6. ASSUME NEW p, p # 0, NEW i \in 1 .. n, p = OwnName(list[i], pool) \/ p = list[i].data
      PROVE  p \in FileBlocks(list, pool)
  <2>1. \A x \in DOMAIN fs : fs[x] # 0 => fs[x] \in FileBlocks(list, pool)
    BY <1>2
  <2>2. /\ <<i, 1>> \in DOMAIN fs /\ <<i, 2>> \in DOMAIN fs
        /\ fs[<<i, 1>>] = OwnName(list[i], pool) /\ fs[<<i, 2>>] = list[i].data
    BY <1>1, <1>4
  <2> QED BY <1>6, <2>1, <2>2
<1> QED BY <1>5, <1>6

\* Each block of the list is the name of one file or the data of one.
EachOnce(list, pool) ==
  \A i, j \in 1 .. Len(list) :
     /\ OwnName(list[i], pool) # 0 /\ OwnName(list[i], pool) = OwnName(list[j], pool) => i = j
     /\ list[i].data # 0 /\ list[i].data = list[j].data => i = j
     /\ OwnName(list[i], pool) # 0 => OwnName(list[i], pool) # list[j].data

\* That is what holding each block once means for a list.
LEMMA FilesOnceIs ==
  ASSUME NEW list, IsList(list), NEW pool
  PROVE  FilesOnce(list, pool) <=> EachOnce(list, pool)
<1> DEFINE fs == FilePointers(list, pool)
           n == Len(list)
<1>1. /\ DOMAIN fs = (1 .. n) \X {1, 2}
      /\ \A i \in 1 .. n : fs[<<i, 1>>] = OwnName(list[i], pool) /\ fs[<<i, 2>>] = list[i].data
  BY FilePointersAt
<1>2. FilesOnce(list, pool) <=> \A x, y \in DOMAIN fs : fs[x] # 0 /\ fs[x] = fs[y] => x = y
  BY DEF FilesOnce, Once
<1> HIDE DEF fs
<1>3. \A x \in DOMAIN fs : \E i \in 1 .. n : x = <<i, 1>> \/ x = <<i, 2>>
  BY <1>1
<1>4. \A i \in 1 .. n : <<i, 1>> \in DOMAIN fs /\ <<i, 2>> \in DOMAIN fs
  BY <1>1
<1>5. \A i, j : (<<i, 1>> = <<j, 1>> => i = j) /\ (<<i, 2>> = <<j, 2>> => i = j) /\ <<i, 1>> # <<j, 2>>
  OBVIOUS
<1>6. ASSUME FilesOnce(list, pool) PROVE EachOnce(list, pool)
  <2> SUFFICES ASSUME NEW i \in 1 .. n, NEW j \in 1 .. n
               PROVE  /\ OwnName(list[i], pool) # 0 /\ OwnName(list[i], pool) = OwnName(list[j], pool) => i = j
                      /\ list[i].data # 0 /\ list[i].data = list[j].data => i = j
                      /\ OwnName(list[i], pool) # 0 => OwnName(list[i], pool) # list[j].data
    BY DEF EachOnce
  <2>1. \A x, y \in DOMAIN fs : fs[x] # 0 /\ fs[x] = fs[y] => x = y
    BY <1>2, <1>6
  <2>2. /\ <<i, 1>> \in DOMAIN fs /\ <<i, 2>> \in DOMAIN fs /\ <<j, 1>> \in DOMAIN fs /\ <<j, 2>> \in DOMAIN fs
    BY <1>4
  <2>3. /\ fs[<<i, 1>>] = OwnName(list[i], pool) /\ fs[<<i, 2>>] = list[i].data
        /\ fs[<<j, 1>>] = OwnName(list[j], pool) /\ fs[<<j, 2>>] = list[j].data
    BY <1>1
  <2> QED BY <1>5, <2>1, <2>2, <2>3
<1>7. ASSUME EachOnce(list, pool) PROVE FilesOnce(list, pool)
  <2> SUFFICES ASSUME NEW x \in DOMAIN fs, NEW y \in DOMAIN fs, fs[x] # 0, fs[x] = fs[y] PROVE x = y
    BY <1>2
  <2>1. PICK i \in 1 .. n : x = <<i, 1>> \/ x = <<i, 2>>
    BY <1>3
  <2>2. PICK j \in 1 .. n : y = <<j, 1>> \/ y = <<j, 2>>
    BY <1>3
  <2>3. /\ fs[<<i, 1>>] = OwnName(list[i], pool) /\ fs[<<i, 2>>] = list[i].data
        /\ fs[<<j, 1>>] = OwnName(list[j], pool) /\ fs[<<j, 2>>] = list[j].data
    BY <1>1
  <2>4. /\ OwnName(list[i], pool) # 0 /\ OwnName(list[i], pool) = OwnName(list[j], pool) => i = j
        /\ list[i].data # 0 /\ list[i].data = list[j].data => i = j
        /\ OwnName(list[i], pool) # 0 => OwnName(list[i], pool) # list[j].data
        /\ OwnName(list[j], pool) # 0 => OwnName(list[j], pool) # list[i].data
    BY <1>7 DEF EachOnce
  <2>5. CASE x = <<i, 1>> /\ y = <<j, 1>>
    BY <2>3, <2>4, <2>5
  <2>6. CASE x = <<i, 1>> /\ y = <<j, 2>>
    BY <2>3, <2>4, <2>6
  <2>7. CASE x = <<i, 2>> /\ y = <<j, 1>>
    BY <2>3, <2>4, <2>7
  <2>8. CASE x = <<i, 2>> /\ y = <<j, 2>>
    BY <2>3, <2>4, <2>8
  <2> QED BY <2>1, <2>2, <2>5, <2>6, <2>7, <2>8
<1> QED BY <1>6, <1>7

\* A name that is not the pool is a block of its own.
LEMMA OwnNameFresh ==
  ASSUME NEW a, NEW d, NEW pool, a # pool \/ a = 0
  PROVE  OwnName(File(a, d), pool) = a /\ File(a, d).data = d
BY DEF OwnName, name_in_pool, File

\* A list with a file of new blocks at its end holds these blocks besides its
\* own, each once.
LEMMA FileAppended ==
  ASSUME NEW list, IsList(list), NEW pool, FilesOnce(list, pool), NEW a \in Nat, NEW d \in Nat,
         a # pool \/ a = 0, Differ(a, d), a \notin FileBlocks(list, pool), d \notin FileBlocks(list, pool)
  PROVE  LET l == Append(list, File(a, d))
         IN  /\ IsList(l) /\ Len(l) = Len(list) + 1 /\ FilesOnce(l, pool)
             /\ FileBlocks(l, pool) = FileBlocks(list, pool) \cup ({a, d} \ {0})
<1> DEFINE n == Len(list)
           f == File(a, d)
           l == Append(list, f)
           N == [name : Nat, data : Nat]
<1>1. n \in Nat /\ list \in Seq(N) /\ f \in N
  BY ListDomain DEF IsList, File
<1>2. OwnName(f, pool) = a /\ f.data = d
  BY OwnNameFresh
<1> HIDE DEF N, f
<1>3. l \in Seq(N) /\ Len(l) = n + 1 /\ (\A i \in 1 .. n : l[i] = list[i]) /\ l[n + 1] = f
  BY <1>1
<1>4. IsList(l)
  BY <1>3 DEF IsList, N
<1> HIDE DEF l
<1>5. \A i \in 1 .. n + 1 : i \in 1 .. n \/ i = n + 1
  BY <1>1
<1>6. \A i \in 1 .. n : i \in 1 .. n + 1 /\ i # n + 1
  BY <1>1
<1>7. n + 1 \in 1 .. n + 1
  BY <1>1
<1>8. EachOnce(list, pool)
  BY FilesOnceIs
<1>9. \A i \in 1 .. n : /\ a # 0 => a # OwnName(list[i], pool) /\ a # list[i].data
                        /\ d # 0 => d # OwnName(list[i], pool) /\ d # list[i].data
  BY FileBlocksAre
<1>10. EachOnce(l, pool)
  <2> SUFFICES ASSUME NEW i \in 1 .. n + 1, NEW j \in 1 .. n + 1
               PROVE  /\ OwnName(l[i], pool) # 0 /\ OwnName(l[i], pool) = OwnName(l[j], pool) => i = j
                      /\ l[i].data # 0 /\ l[i].data = l[j].data => i = j
                      /\ OwnName(l[i], pool) # 0 => OwnName(l[i], pool) # l[j].data
    BY <1>3 DEF EachOnce
  <2>1. CASE i \in 1 .. n /\ j \in 1 .. n
    <3>1. l[i] = list[i] /\ l[j] = list[j]
      BY <1>3, <2>1
    <3> QED BY <1>8, <2>1, <3>1 DEF EachOnce
  <2>2. CASE i \in 1 .. n /\ j = n + 1
    <3>1. l[i] = list[i] /\ OwnName(l[j], pool) = a /\ l[j].data = d
      BY <1>2, <1>3, <2>2
    <3>2. /\ a # 0 => a # OwnName(list[i], pool) /\ a # list[i].data
          /\ d # 0 => d # OwnName(list[i], pool) /\ d # list[i].data
      BY <1>9, <2>2
    <3>3. i # j
      BY <1>6, <2>2
    <3> HIDE DEF OwnName
    <3> QED BY <3>1, <3>2, <3>3
  <2>3. CASE i = n + 1 /\ j \in 1 .. n
    <3>1. l[j] = list[j] /\ OwnName(l[i], pool) = a /\ l[i].data = d
      BY <1>2, <1>3, <2>3
    <3>2. /\ a # 0 => a # OwnName(list[j], pool) /\ a # list[j].data
          /\ d # 0 => d # OwnName(list[j], pool) /\ d # list[j].data
      BY <1>9, <2>3
    <3>3. i # j
      BY <1>6, <2>3
    <3> HIDE DEF OwnName
    <3> QED BY <3>1, <3>2, <3>3
  <2>4. CASE i = n + 1 /\ j = n + 1
    <3>1. OwnName(l[i], pool) = a /\ l[i].data = d /\ OwnName(l[j], pool) = a /\ l[j].data = d
      BY <1>2, <1>3, <2>4
    <3> QED BY <2>4, <3>1 DEF Differ
  <2> QED BY <1>5, <2>1, <2>2, <2>3, <2>4
<1>11. FilesOnce(l, pool)
  BY <1>4, <1>10, FilesOnceIs
<1>12. FileBlocks(l, pool) = FileBlocks(list, pool) \cup ({a, d} \ {0})
  <2>1. \A p : p \in FileBlocks(l, pool) <=>
                  p # 0 /\ \E i \in 1 .. n + 1 : p = OwnName(l[i], pool) \/ p = l[i].data
    BY <1>3, <1>4, FileBlocksAre
  <2>2. \A p : p \in FileBlocks(list, pool) <=>
                  p # 0 /\ \E i \in 1 .. n : p = OwnName(list[i], pool) \/ p = list[i].data
    BY FileBlocksAre
  <2>3. ASSUME NEW p, p \in FileBlocks(l, pool) PROVE p \in FileBlocks(list, pool) \cup ({a, d} \ {0})
    <3>1. PICK i \in 1 .. n + 1 : p # 0 /\ (p = OwnName(l[i], pool) \/ p = l[i].data)
      BY <2>1, <2>3
    <3>2. CASE i \in 1 .. n
      BY <1>3, <2>2, <3>1, <3>2
    <3>3. CASE i = n + 1
      BY <1>2, <1>3, <3>1, <3>3
    <3> QED BY <1>5, <3>2, <3>3
  <2>4. ASSUME NEW p, p \in FileBlocks(list, pool) PROVE p \in FileBlocks(l, pool)
    <3>1. PICK i \in 1 .. n : p # 0 /\ (p = OwnName(list[i], pool) \/ p = list[i].data)
      BY <2>2, <2>4
    <3> QED BY <1>3, <1>6, <2>1, <3>1
  <2>5. \A p \in {a, d} \ {0} : p \in FileBlocks(l, pool)
    BY <1>2, <1>3, <1>7, <2>1
  <2> QED BY <2>3, <2>4, <2>5
<1> QED BY <1>3, <1>4, <1>11, <1>12 DEF l, f

\* A list without one of its files holds all its blocks but those two.
LEMMA FileDropped ==
  ASSUME NEW list, IsList(list), NEW pool, FilesOnce(list, pool), NEW i \in 1 .. Len(list)
  PROVE  LET l == [j \in 1 .. Len(list) - 1 |-> IF j < i THEN list[j] ELSE list[j + 1]]
         IN  /\ IsList(l) /\ Len(l) = Len(list) - 1 /\ FilesOnce(l, pool)
             /\ FileBlocks(l, pool) = FileBlocks(list, pool) \ {OwnName(list[i], pool), list[i].data}
<1> DEFINE n == Len(list)
           s(j) == IF j < i THEN j ELSE j + 1
           l == [j \in 1 .. n - 1 |-> IF j < i THEN list[j] ELSE list[j + 1]]
           N == [name : Nat, data : Nat]
<1>1. n \in Nat /\ n >= 1 /\ i \in Nat /\ i <= n /\ \A j \in 1 .. n : list[j] \in N
  BY ListDomain
<1>2. n - 1 \in Nat
  BY <1>1
<1> HIDE DEF n
<1>3. /\ \A j \in 1 .. n - 1 : s(j) \in 1 .. n /\ s(j) # i
      /\ \A j, k \in 1 .. n - 1 : s(j) = s(k) => j = k
  BY <1>1
<1>4. \A k \in 1 .. n : k # i => \E j \in 1 .. n - 1 : s(j) = k
  <2> SUFFICES ASSUME NEW k \in 1 .. n, k # i PROVE \E j \in 1 .. n - 1 : s(j) = k
    OBVIOUS
  <2>1. CASE k < i
    <3>1. k \in 1 .. n - 1 /\ s(k) = k
      BY <1>1, <2>1
    <3> QED BY <3>1
  <2>2. CASE k > i
    <3>1. k - 1 \in 1 .. n - 1 /\ s(k - 1) = k
      BY <1>1, <2>2
    <3> QED BY <3>1
  <2> QED BY <1>1, <2>1, <2>2
<1>5. \A j \in 1 .. n - 1 : l[j] = list[s(j)]
  OBVIOUS
<1>6. l \in Seq(N) /\ Len(l) = n - 1
  <2>1. DOMAIN l = 1 .. n - 1 /\ \A j \in 1 .. n - 1 : l[j] \in N
    <3> HIDE DEF N, s
    <3> QED BY <1>1, <1>3, <1>5
  <2>2. l = [j \in 1 .. n - 1 |-> l[j]]
    OBVIOUS
  <2> HIDE DEF N, l
  <2> QED BY <1>2, <2>1, <2>2
<1>7. IsList(l)
  BY <1>6 DEF IsList
<1> HIDE DEF l, s, N
<1>8. EachOnce(list, pool)
  BY FilesOnceIs
<1>9. EachOnce(l, pool)
  <2> SUFFICES ASSUME NEW j \in 1 .. n - 1, NEW k \in 1 .. n - 1
               PROVE  /\ OwnName(l[j], pool) # 0 /\ OwnName(l[j], pool) = OwnName(l[k], pool) => j = k
                      /\ l[j].data # 0 /\ l[j].data = l[k].data => j = k
                      /\ OwnName(l[j], pool) # 0 => OwnName(l[j], pool) # l[k].data
    BY <1>6 DEF EachOnce
  <2> DEFINE x == s(j)
             y == s(k)
  <2>1. x \in 1 .. n /\ y \in 1 .. n /\ (x = y => j = k) /\ l[j] = list[x] /\ l[k] = list[y]
    BY <1>3, <1>5
  <2> HIDE DEF x, y
  <2>2. /\ OwnName(list[x], pool) # 0 /\ OwnName(list[x], pool) = OwnName(list[y], pool) => x = y
        /\ list[x].data # 0 /\ list[x].data = list[y].data => x = y
        /\ OwnName(list[x], pool) # 0 => OwnName(list[x], pool) # list[y].data
    BY <1>8, <2>1 DEF EachOnce, n
  <2> QED BY <2>1, <2>2
<1>10. FilesOnce(l, pool)
  BY <1>7, <1>9, FilesOnceIs
<1>11. FileBlocks(l, pool) = FileBlocks(list, pool) \ {OwnName(list[i], pool), list[i].data}
  <2>1. \A p : p \in FileBlocks(l, pool) <=>
                  p # 0 /\ \E j \in 1 .. n - 1 : p = OwnName(l[j], pool) \/ p = l[j].data
    BY <1>6, <1>7, FileBlocksAre
  <2>2. \A p : p \in FileBlocks(list, pool) <=>
                  p # 0 /\ \E j \in 1 .. n : p = OwnName(list[j], pool) \/ p = list[j].data
    BY FileBlocksAre DEF n
  <2>3. ASSUME NEW p, p \in FileBlocks(l, pool)
        PROVE  p \in FileBlocks(list, pool) \ {OwnName(list[i], pool), list[i].data}
    <3>1. PICK j \in 1 .. n - 1 : p # 0 /\ (p = OwnName(l[j], pool) \/ p = l[j].data)
      BY <2>1, <2>3
    <3> DEFINE x == s(j)
    <3>2. x \in 1 .. n /\ x # i /\ l[j] = list[x]
      BY <1>3, <1>5
    <3> HIDE DEF x
    <3>3. p \in FileBlocks(list, pool)
      BY <2>2, <3>1, <3>2
    <3>4. i \in 1 .. n
      BY DEF n
    <3>5. /\ OwnName(list[x], pool) # 0 /\ OwnName(list[x], pool) = OwnName(list[i], pool) => x = i
          /\ list[x].data # 0 /\ list[x].data = list[i].data => x = i
          /\ OwnName(list[x], pool) # 0 => OwnName(list[x], pool) # list[i].data
          /\ OwnName(list[i], pool) # 0 => OwnName(list[i], pool) # list[x].data
      BY <1>8, <3>2, <3>4 DEF EachOnce, n
    <3>6. p # OwnName(list[i], pool) /\ p # list[i].data
      BY <3>1, <3>2, <3>5
    <3> QED BY <3>3, <3>6
  <2>4. ASSUME NEW p, p \in FileBlocks(list, pool), p # OwnName(list[i], pool), p # list[i].data
        PROVE  p \in FileBlocks(l, pool)
    <3>1. PICK k \in 1 .. n : p # 0 /\ (p = OwnName(list[k], pool) \/ p = list[k].data)
      BY <2>2, <2>4
    <3>2. k # i
      BY <2>4, <3>1
    <3>3. PICK j \in 1 .. n - 1 : s(j) = k
      BY <1>4, <3>2
    <3>4. l[j] = list[k]
      BY <1>5, <3>3
    <3> QED BY <2>1, <3>1, <3>4
  <2> QED BY <2>3, <2>4
<1> QED BY <1>6, <1>7, <1>10, <1>11 DEF l, n

\* A binder whose array moved, or grew in place, is a binder with the new array
\* for the old.
LEMMA ArrayChanged ==
  ASSUME NEW b, IsBinder(b), NEW p \in Nat \ {0}, NEW cap \in Nat, Len(b.list) <= cap, cap > 0,
         p = b.files \/ p \notin BinderBlocks(b)
  PROVE  LET c == WithArray(b, p, cap)
         IN  /\ IsBinder(c) /\ BinderBlocks(c) = (BinderBlocks(b) \ {b.files}) \cup {p}
             /\ c.list = b.list /\ c.pool = b.pool /\ c.version = b.version /\ c.self = b.self
             /\ c.cap = cap /\ c.files = p
<1> DEFINE c == WithArray(b, p, cap)
           L == FileBlocks(b.list, b.pool)
<1>1. c = BinderOf(b.self, b.version, p, cap, b.list, b.pool)
  BY DEF WithArray
<1> HIDE DEF c
<1>2. /\ c.list = b.list /\ c.pool = b.pool /\ c.version = b.version /\ c.self = b.self
      /\ c.cap = cap /\ c.files = p
  BY <1>1, BinderFields
<1>3. /\ b.self \in Nat /\ b.version \in Nat /\ b.pool \in Nat /\ IsList(b.list) /\ FilesOnce(b.list, b.pool)
      /\ HandleBlocks(b) \cap L = {}
      /\ Differ(b.self, b.version) /\ Differ(b.self, b.files) /\ Differ(b.self, b.pool)
      /\ Differ(b.version, b.files) /\ Differ(b.version, b.pool) /\ Differ(b.files, b.pool)
  BY DEF IsBinder, BinderOnce
<1>4. BinderBlocks(b) = ({b.self, b.version, b.files, b.pool} \ {0}) \cup L /\ 0 \notin L
  BY ZeroNotBlock DEF BinderBlocks, HandleBlocks, FileBlocks
<1>5. BinderBlocks(c) = ({b.self, b.version, p, b.pool} \ {0}) \cup L
  BY <1>2 DEF BinderBlocks, HandleBlocks
<1>6. HandleBlocks(b) = {b.self, b.version, b.files, b.pool} \ {0} /\ HandleBlocks(c) = {b.self, b.version, p, b.pool} \ {0}
  BY <1>2 DEF HandleBlocks
<1> HIDE DEF L
<1>7. p # b.self /\ p # b.version /\ p # b.pool /\ p \notin L
  BY <1>3, <1>4, <1>6 DEF Differ
<1>8. BinderBlocks(c) = (BinderBlocks(b) \ {b.files}) \cup {p}
  BY <1>3, <1>4, <1>5, <1>6 DEF Differ
<1>9. /\ Differ(c.self, c.version) /\ Differ(c.self, c.files) /\ Differ(c.self, c.pool)
      /\ Differ(c.version, c.files) /\ Differ(c.version, c.pool) /\ Differ(c.files, c.pool)
  BY <1>2, <1>3, <1>7 DEF Differ
<1>10. HandleBlocks(c) \cap L = {}
  BY <1>3, <1>6, <1>7
<1>11. IsBinder(c)
  BY <1>1, <1>2, <1>3, <1>9, <1>10 DEF IsBinder, BinderOnce, L
<1> QED BY <1>2, <1>8, <1>11 DEF c

\* A binder with another list that fits the array is a binder with the blocks of
\* that list.
LEMMA ListChanged ==
  ASSUME NEW b, IsBinder(b), NEW l, IsList(l), Len(l) <= b.cap, FilesOnce(l, b.pool),
         HandleBlocks(b) \cap FileBlocks(l, b.pool) = {}
  PROVE  LET c == WithList(b, l)
         IN  /\ IsBinder(c) /\ BinderBlocks(c) = HandleBlocks(b) \cup FileBlocks(l, b.pool)
             /\ c.list = l /\ c.pool = b.pool /\ c.version = b.version /\ c.self = b.self /\ c.files = b.files
<1> DEFINE c == WithList(b, l)
<1>1. c = BinderOf(b.self, b.version, b.files, b.cap, l, b.pool)
  BY DEF WithList
<1> HIDE DEF c
<1>2. /\ c.list = l /\ c.pool = b.pool /\ c.version = b.version /\ c.self = b.self
      /\ c.cap = b.cap /\ c.files = b.files
  BY <1>1, BinderFields
<1>3. HandleBlocks(c) = HandleBlocks(b)
  BY <1>2 DEF HandleBlocks
<1>4. BinderBlocks(c) = HandleBlocks(b) \cup FileBlocks(l, b.pool)
  BY <1>2, <1>3 DEF BinderBlocks
<1>5. BinderOnce(c)
  BY <1>2, <1>3 DEF IsBinder, BinderOnce
<1>6. IsBinder(c)
  BY <1>1, <1>2, <1>5 DEF IsBinder
<1> QED BY <1>2, <1>4, <1>6 DEF c

\* A binder with another version holds that one for the old.
LEMMA VersionChanged ==
  ASSUME NEW b, IsBinder(b), NEW p \in Nat, p = 0 \/ p \notin BinderBlocks(b)
  PROVE  LET c == WithVersion(b, p)
         IN  /\ IsBinder(c) /\ BinderBlocks(c) = (BinderBlocks(b) \ {b.version}) \cup ({p} \ {0})
             /\ c.list = b.list
<1> DEFINE c == WithVersion(b, p)
           L == FileBlocks(b.list, b.pool)
<1>1. c = BinderOf(b.self, p, b.files, b.cap, b.list, b.pool)
  BY DEF WithVersion
<1> HIDE DEF c
<1>2. /\ c.list = b.list /\ c.pool = b.pool /\ c.version = p /\ c.self = b.self
      /\ c.cap = b.cap /\ c.files = b.files
  BY <1>1, BinderFields
<1>3. /\ b.self \in Nat /\ b.files \in Nat /\ b.pool \in Nat /\ IsList(b.list) /\ FilesOnce(b.list, b.pool)
      /\ HandleBlocks(b) \cap L = {}
      /\ Differ(b.self, b.version) /\ Differ(b.self, b.files) /\ Differ(b.self, b.pool)
      /\ Differ(b.version, b.files) /\ Differ(b.version, b.pool) /\ Differ(b.files, b.pool)
      /\ b.cap \in Nat /\ Len(b.list) <= b.cap /\ (b.cap > 0 <=> b.files # 0)
  BY DEF IsBinder, BinderOnce
<1>4. BinderBlocks(b) = ({b.self, b.version, b.files, b.pool} \ {0}) \cup L /\ 0 \notin L
  BY ZeroNotBlock DEF BinderBlocks, HandleBlocks, FileBlocks
<1>5. BinderBlocks(c) = ({b.self, p, b.files, b.pool} \ {0}) \cup L
  BY <1>2 DEF BinderBlocks, HandleBlocks
<1>6. HandleBlocks(b) = {b.self, b.version, b.files, b.pool} \ {0} /\ HandleBlocks(c) = {b.self, p, b.files, b.pool} \ {0}
  BY <1>2 DEF HandleBlocks
<1> HIDE DEF L
<1>7. p = 0 \/ (p # b.self /\ p # b.files /\ p # b.pool /\ p \notin L)
  BY <1>4
<1>8. BinderBlocks(c) = (BinderBlocks(b) \ {b.version}) \cup ({p} \ {0})
  BY <1>3, <1>4, <1>5, <1>6 DEF Differ
<1>9. /\ Differ(c.self, c.version) /\ Differ(c.self, c.files) /\ Differ(c.self, c.pool)
      /\ Differ(c.version, c.files) /\ Differ(c.version, c.pool) /\ Differ(c.files, c.pool)
  BY <1>2, <1>3, <1>7 DEF Differ
<1>10. HandleBlocks(c) \cap L = {}
  BY <1>3, <1>6, <1>7
<1>11. IsBinder(c)
  BY <1>1, <1>2, <1>3, <1>9, <1>10 DEF IsBinder, BinderOnce, L
<1> QED BY <1>2, <1>8, <1>11 DEF c

\* grow_files leaves room for one more file, or the binder as it was; an array
\* that moved was released once.
LEMMA Grown ==
  ASSUME NEW e, Fit(e), NEW m, NEW b, NEW R, Has(e, m, b, R), NEW g \in grow_files(m, b)
  PROVE  /\ g.ok \in BOOLEAN /\ Has(e, g.m, g.b, R)
         /\ g.b.list = b.list /\ g.b.pool = b.pool /\ g.b.version = b.version /\ g.b.self = b.self
         /\ g.ok => Len(b.list) < g.b.cap
<1> DEFINE S == BinderBlocks(b) \cup R
<1>1. IsBinder(b) /\ Gives(e, m, S) /\ BinderBlocks(b) \cap R = {}
  BY DEF Has
<1>2. /\ b.cap \in Nat /\ b.files \in Nat /\ Len(b.list) \in Nat /\ Len(b.list) <= b.cap
      /\ (b.cap > 0 <=> b.files # 0) /\ (b.files # 0 => b.files \in BinderBlocks(b))
  BY <1>1, ListDomain DEF IsBinder, BinderBlocks, HandleBlocks
<1>3. Fit(m) /\ S \subseteq m.heap /\ m.next \in Nat \ {0} /\ m.next \notin m.heap /\ 0 \notin S
  <2>1. Fit(m) /\ 0 \notin m.heap /\ m.heap = e.heap \cup S
    BY <1>1, GivesFit DEF Gives
  <2> HIDE DEF S
  <2> QED BY <2>1 DEF Fit
<1>4. CASE Len(b.list) < b.cap
  <2>1. g = Built(TRUE, m, b)
    BY <1>4 DEF grow_files
  <2>2. g.ok = TRUE /\ g.m = m /\ g.b = b
    BY <2>1 DEF Built
  <2> QED BY <1>4, <2>2
<1>5. CASE ~(Len(b.list) < b.cap)
  <2> DEFINE cap == IF b.cap = 0 THEN 8 ELSE 2 * b.cap
  <2>1. cap \in Nat /\ cap > 0 /\ Len(b.list) < cap /\ Len(b.list) <= cap
    BY <1>2, <1>5
  <2> HIDE DEF cap
  <2>2. PICK x \in sf_xrealloc(m, b.files) :
           g = IF x.ok THEN Built(TRUE, x.m, WithArray(b, x.p, cap)) ELSE Built(FALSE, x.m, b)
    BY <1>5 DEF grow_files, cap
  <2>3. \/ x = Refused(m)
        \/ b.files # 0 /\ x = Given(m, b.files)
        \/ x = Given(sf_xfree(Taken(m, 1), b.files), m.next)
    BY <2>2 DEF sf_xrealloc
  <2>4. CASE x = Refused(m)
    <3>1. x.ok = FALSE /\ x.m = m
      BY <2>4 DEF Refused
    <3>2. g.ok = FALSE /\ g.m = m /\ g.b = b
      BY <2>2, <3>1 DEF Built
    <3> QED BY <3>2
  <2>5. CASE b.files # 0 /\ x = Given(m, b.files)
    <3> DEFINE c == WithArray(b, b.files, cap)
    <3>1. x.ok = TRUE /\ x.m = m /\ x.p = b.files
      BY <2>5 DEF Given
    <3>2. g.ok = TRUE /\ g.m = m /\ g.b = c
      BY <2>2, <3>1 DEF Built
    <3>3. b.files \in Nat \ {0}
      BY <1>2, <2>5
    <3>4. /\ IsBinder(c) /\ BinderBlocks(c) = (BinderBlocks(b) \ {b.files}) \cup {b.files}
          /\ c.list = b.list /\ c.pool = b.pool /\ c.version = b.version /\ c.self = b.self /\ c.cap = cap
      BY <1>1, <2>1, <3>3, ArrayChanged
    <3> HIDE DEF c
    <3>5. BinderBlocks(c) = BinderBlocks(b)
      BY <1>2, <2>5, <3>4
    <3>6. Has(e, m, c, R)
      BY <1>1, <3>4, <3>5 DEF Has
    <3> QED BY <2>1, <3>2, <3>4, <3>6
  <2>6. CASE x = Given(sf_xfree(Taken(m, 1), b.files), m.next)
    <3> DEFINE q == m.next
               c == WithArray(b, q, cap)
               m1 == Taken(m, 1)
               m2 == sf_xfree(m1, b.files)
    <3>1. x.ok = TRUE /\ x.m = m2 /\ x.p = q
      BY <2>6 DEF Given
    <3>2. g.ok = TRUE /\ g.m = m2 /\ g.b = c
      BY <2>2, <3>1 DEF Built
    <3>3. q \in Nat \ {0} /\ q \notin S
      BY <1>3
    <3>4. Gives(m, m1, {q})
      <4>1. Gives(m, m1, q .. q + 1 - 1)
        BY <1>3, TakenGives
      <4>2. q .. q + 1 - 1 = {q}
        BY <3>3
      <4> QED BY <4>1, <4>2
    <3> HIDE DEF q, m1, m2, S
    <3>5. Gives(e, m1, S \cup {q})
      BY <1>1, <3>4, GivesThen
    <3>6. b.files \in (S \cup {q}) \cup {0}
      BY <1>2 DEF S
    <3>7. Gives(e, m2, (S \cup {q}) \ {b.files})
      BY <3>5, <3>6, FreeOne DEF m2
    <3>8. q \notin BinderBlocks(b)
      BY <3>3 DEF S
    <3>9. /\ IsBinder(c) /\ BinderBlocks(c) = (BinderBlocks(b) \ {b.files}) \cup {q}
          /\ c.list = b.list /\ c.pool = b.pool /\ c.version = b.version /\ c.self = b.self /\ c.cap = cap
      BY <1>1, <2>1, <3>3, <3>8, ArrayChanged
    <3> HIDE DEF c
    <3>10. BinderBlocks(c) \cup R = (S \cup {q}) \ {b.files} /\ BinderBlocks(c) \cap R = {}
      <4>1. q # b.files
        BY <1>2, <3>3, <3>8
      <4>2. b.files \notin R
        BY <1>1, <1>2, <1>3 DEF S
      <4> QED BY <1>1, <3>3, <3>9, <4>1, <4>2 DEF S
    <3>11. Has(e, m2, c, R)
      BY <3>7, <3>9, <3>10 DEF Has
    <3> QED BY <2>1, <3>2, <3>9, <3>11
  <2> QED BY <2>3, <2>4, <2>5, <2>6
<1> QED BY <1>4, <1>5

\* Reading a released block does no more than leave a mark that is put up with.
LEMMA Touched ==
  ASSUME NEW e, NEW m, NEW S, Gives(e, m, S), NEW p, p = 0 \/ "stale" \in e.bad
  PROVE  Gives(e, Touch(m, p), S)
<1>1. CASE p = 0 \/ p \in m.heap
  BY <1>1 DEF Touch
<1>2. CASE ~(p = 0 \/ p \in m.heap)
  <2> DEFINE x == Bad(m, "stale")
  <2>1. Touch(m, p) = x
    BY <1>2 DEF Touch
  <2>2. x.heap = m.heap /\ x.next = m.next /\ x.bad = m.bad \cup {"stale"} /\ x.custom = m.custom
    BY DEF Bad, Mem
  <2> HIDE DEF x
  <2>3. "stale" \in e.bad
    BY <1>2
  <2>4. Quiet(e, x)
    BY <2>2, <2>3, Zenon DEF Gives, Quiet
  <2>5. Gives(e, x, S)
    BY <2>2, <2>4 DEF Gives
  <2> QED BY <2>1, <2>5
<1> QED BY <1>1, <1>2

\* Entering a file of live blocks that nobody in the binder holds makes them the
\* binder's.
LEMMA FileEntered ==
  ASSUME NEW e, Fit(e), NEW m, NEW b, NEW R, Has(e, m, b, R), NEW a \in Nat, NEW d \in Nat, Differ(a, d),
         Len(b.list) < b.cap, NEW m2, NEW T, Gives(e, m2, (BinderBlocks(b) \cup T) \cup ({a, d} \ {0})),
         a \notin BinderBlocks(b), d \notin BinderBlocks(b), BinderBlocks(b) \cap T = {},
         {a, d} \cap T \subseteq {0}, 0 \notin T
  PROVE  LET c == WithList(b, Append(b.list, File(a, d)))
         IN  Has(e, m2, c, T) /\ Len(c.list) = Len(b.list) + 1
<1> DEFINE l == Append(b.list, File(a, d))
           c == WithList(b, l)
<1>1. /\ IsBinder(b) /\ IsList(b.list) /\ FilesOnce(b.list, b.pool) /\ b.cap \in Nat /\ Len(b.list) \in Nat
      /\ HandleBlocks(b) \cap FileBlocks(b.list, b.pool) = {} /\ b.pool \in Nat
  BY ListDomain DEF Has, IsBinder, BinderOnce
<1>2. BinderBlocks(b) = HandleBlocks(b) \cup FileBlocks(b.list, b.pool)
  BY DEF BinderBlocks
<1>3. a # b.pool \/ a = 0
  BY <1>2 DEF HandleBlocks
<1>4. a \notin FileBlocks(b.list, b.pool) /\ d \notin FileBlocks(b.list, b.pool)
  BY <1>2
<1>5. /\ IsList(l) /\ Len(l) = Len(b.list) + 1 /\ FilesOnce(l, b.pool)
      /\ FileBlocks(l, b.pool) = FileBlocks(b.list, b.pool) \cup ({a, d} \ {0})
  BY <1>1, <1>3, <1>4, FileAppended
<1> HIDE DEF l
<1>6. Len(l) <= b.cap
  BY <1>1, <1>5
<1>7. HandleBlocks(b) \cap FileBlocks(l, b.pool) = {}
  BY <1>1, <1>2, <1>5
<1>8. /\ IsBinder(c) /\ BinderBlocks(c) = HandleBlocks(b) \cup FileBlocks(l, b.pool) /\ c.list = l
  BY <1>1, <1>5, <1>6, <1>7, ListChanged
<1> HIDE DEF c
<1>9. BinderBlocks(c) = BinderBlocks(b) \cup ({a, d} \ {0})
  BY <1>2, <1>5, <1>8
<1>10. BinderBlocks(c) \cup T = (BinderBlocks(b) \cup T) \cup ({a, d} \ {0}) /\ BinderBlocks(c) \cap T = {}
  BY <1>9
<1>11. Has(e, m2, c, T)
  BY <1>8, <1>10 DEF Has
<1> QED BY <1>5, <1>8, <1>11 DEF c, l

\* sf_*_add_file enters a copy, or leaves the list, the pool, the version and the
\* handle as they were and nothing behind.
LEMMA FileAdded ==
  ASSUME NEW e, Fit(e), NEW m, NEW b, NEW R, Has(e, m, b, R), NEW named \in BOOLEAN, NEW sized \in BOOLEAN,
         NEW at, at = 0 \/ "stale" \in e.bad, NEW o \in add_file(m, b, named, sized, at)
  PROVE  /\ o.ok \in BOOLEAN /\ Has(e, o.m, o.b, R)
         /\ o.ok => Len(o.b.list) = Len(b.list) + 1
         /\ ~o.ok => o.b.list = b.list /\ o.b.pool = b.pool /\ o.b.version = b.version /\ o.b.self = b.self
<1>1. PICK g \in grow_files(m, b) :
         o \in IF ~g.ok THEN {g}
               ELSE {Built(d.ok, d.m, IF d.ok THEN WithList(g.b, Append(g.b.list, d.file)) ELSE g.b) :
                       d \in file_dup(Touch(g.m, at), named, sized)}
  BY DEF add_file
<1>2. /\ g.ok \in BOOLEAN /\ Has(e, g.m, g.b, R)
      /\ g.b.list = b.list /\ g.b.pool = b.pool /\ g.b.version = b.version /\ g.b.self = b.self
      /\ g.ok => Len(b.list) < g.b.cap
  BY Grown
<1>3. CASE ~g.ok
  <2>1. o = g
    BY <1>1, <1>3
  <2> QED BY <1>2, <1>3, <2>1
<1>4. CASE g.ok
  <2> DEFINE t == Touch(g.m, at)
             S == BinderBlocks(g.b) \cup R
  <2>1. PICK d \in file_dup(t, named, sized) :
           o = Built(d.ok, d.m, IF d.ok THEN WithList(g.b, Append(g.b.list, d.file)) ELSE g.b)
    BY <1>1, <1>4
  <2>2. Gives(e, g.m, S) /\ BinderBlocks(g.b) \cap R = {}
    BY <1>2 DEF Has
  <2>3. Gives(e, t, S)
    BY <2>2, Touched
  <2> HIDE DEF t, S
  <2>4. Fit(t) /\ t.heap = e.heap \cup S /\ 0 \notin S
    BY <2>3, GivesFit DEF Gives
  <2>5. /\ d.ok \in BOOLEAN
        /\ d.ok => /\ Gives(t, d.m, {d.file.name, d.file.data} \ {0}) /\ IsFile(d.file)
                   /\ d.file = File(d.file.name, d.file.data)
                   /\ d.file.name # d.file.data \/ d.file.name = 0
        /\ ~d.ok => Gives(t, d.m, {})
    BY <2>4, FileCopied
  <2>6. CASE ~d.ok
    <3>1. o.ok = d.ok /\ o.m = d.m /\ o.b = g.b
      BY <2>1, <2>6 DEF Built
    <3>2. Gives(e, d.m, S \cup {})
      BY <2>3, <2>5, <2>6, GivesThen
    <3>3. S \cup {} = BinderBlocks(g.b) \cup R
      BY DEF S
    <3>4. Has(e, o.m, o.b, R)
      BY <1>2, <3>1, <3>2, <3>3 DEF Has
    <3> QED BY <1>2, <2>5, <2>6, <3>1, <3>4
  <2>7. CASE d.ok
    <3> DEFINE a == d.file.name
               x == d.file.data
               c == WithList(g.b, Append(g.b.list, File(a, x)))
               N == {a, x} \ {0}
    <3>1. o.ok = d.ok /\ o.m = d.m /\ o.b = c
      BY <2>1, <2>5, <2>7 DEF Built
    <3>2. a \in Nat /\ x \in Nat /\ Differ(a, x) /\ Gives(t, d.m, N)
      BY <2>5, <2>7 DEF IsFile, Differ
    <3> HIDE DEF a, x, N
    <3>3. Gives(e, d.m, S \cup N) /\ S \cap N = {}
      BY <2>3, <3>2, GivesThen
    <3>4. /\ a \notin BinderBlocks(g.b) /\ x \notin BinderBlocks(g.b) /\ {a, x} \cap R \subseteq {0} /\ 0 \notin R
          /\ Gives(e, d.m, (BinderBlocks(g.b) \cup R) \cup ({a, x} \ {0}))
      BY <2>4, <3>3 DEF N, S
    <3>5. Len(g.b.list) < g.b.cap
      BY <1>2, <1>4
    <3>6. Has(e, d.m, c, R) /\ Len(c.list) = Len(g.b.list) + 1
      BY <1>2, <2>2, <3>2, <3>4, <3>5, FileEntered
    <3> HIDE DEF c
    <3> QED BY <1>2, <2>5, <2>7, <3>1, <3>6
  <2> QED BY <2>5, <2>6, <2>7
<1> QED BY <1>2, <1>3, <1>4

\* How sf_bnd4_add_file_take may end: the block went to the binder, or it stayed
\* with the caller.
Took(e, b, R, data, o) ==
  /\ o.ok \in BOOLEAN
  /\ o.ok => Has(e, o.m, o.b, R \ {data}) /\ Len(o.b.list) = Len(b.list) + 1
  /\ ~o.ok => /\ Has(e, o.m, o.b, R)
              /\ o.b.list = b.list /\ o.b.pool = b.pool /\ o.b.version = b.version /\ o.b.self = b.self

\* sf_bnd4_add_file_take moves the block exactly when it succeeds.
LEMMA FileTaken ==
  ASSUME NEW e, Fit(e), NEW m, NEW b, NEW R, Has(e, m, b, R), NEW named \in BOOLEAN,
         NEW data \in Nat, data = 0 \/ data \in R, NEW o \in add_file_take(m, b, named, data)
  PROVE  Took(e, b, R, data, o)
<1> SUFFICES /\ o.ok \in BOOLEAN
             /\ o.ok => Has(e, o.m, o.b, R \ {data}) /\ Len(o.b.list) = Len(b.list) + 1
             /\ ~o.ok => /\ Has(e, o.m, o.b, R)
                         /\ o.b.list = b.list /\ o.b.pool = b.pool /\ o.b.version = b.version /\ o.b.self = b.self
  BY DEF Took
<1>1. PICK g \in grow_files(m, b) :
         o \in IF ~g.ok THEN {g}
               ELSE {Built(s.ok, s.m, IF s.ok THEN WithList(g.b, Append(g.b.list, File(s.p, data))) ELSE g.b) :
                       s \in AllocIf(named, g.m)}
  BY DEF add_file_take
<1>2. /\ g.ok \in BOOLEAN /\ Has(e, g.m, g.b, R)
      /\ g.b.list = b.list /\ g.b.pool = b.pool /\ g.b.version = b.version /\ g.b.self = b.self
      /\ g.ok => Len(b.list) < g.b.cap
  BY Grown
<1>3. CASE ~g.ok
  <2>1. o = g
    BY <1>1, <1>3
  <2> QED BY <1>2, <1>3, <2>1
<1>4. CASE g.ok
  <2> DEFINE S == BinderBlocks(g.b) \cup R
  <2>1. PICK s \in AllocIf(named, g.m) :
           o = Built(s.ok, s.m, IF s.ok THEN WithList(g.b, Append(g.b.list, File(s.p, data))) ELSE g.b)
    BY <1>1, <1>4
  <2>2. Gives(e, g.m, S) /\ BinderBlocks(g.b) \cap R = {}
    BY <1>2 DEF Has
  <2> HIDE DEF S
  <2>3. Fit(g.m) /\ 0 \notin S
    BY <2>2, GivesFit
  <2>4. /\ s.ok \in BOOLEAN
        /\ s.ok => Gives(g.m, s.m, {s.p} \ {0}) /\ s.p \in Nat
        /\ ~s.ok => s.m = g.m
    BY <2>3, AllocWhen
  <2>5. CASE ~s.ok
    <3>1. o.ok = s.ok /\ o.m = g.m /\ o.b = g.b
      BY <2>1, <2>4, <2>5 DEF Built
    <3> QED BY <1>2, <2>4, <2>5, <3>1
  <2>6. CASE s.ok
    <3> DEFINE a == s.p
               c == WithList(g.b, Append(g.b.list, File(a, data)))
               N == {a} \ {0}
               T == R \ {data}
    <3>1. o.ok = s.ok /\ o.m = s.m /\ o.b = c
      BY <2>1, <2>6 DEF Built
    <3>2. a \in Nat /\ Gives(g.m, s.m, N)
      BY <2>4, <2>6
    <3> HIDE DEF a, N
    <3>3. Gives(e, s.m, S \cup N) /\ S \cap N = {}
      BY <2>2, <3>2, GivesThen
    <3>4. a \notin BinderBlocks(g.b) /\ data \notin BinderBlocks(g.b) /\ BinderBlocks(g.b) \cap T = {}
      BY <2>2, <2>3, <3>3 DEF N, S
    <3>5. {a, data} \cap T \subseteq {0} /\ 0 \notin T /\ Differ(a, data)
      BY <2>3, <3>3 DEF N, S, Differ
    <3>6. S \cup N = (BinderBlocks(g.b) \cup T) \cup ({a, data} \ {0})
      <4>1. ({a, data} \ {0}) = N \cup ({data} \ {0})
        BY DEF N
      <4>2. R = T \cup ({data} \ {0})
        BY <2>3 DEF S
      <4> HIDE DEF T
      <4> QED BY <4>1, <4>2 DEF S
    <3>7. Gives(e, s.m, (BinderBlocks(g.b) \cup T) \cup ({a, data} \ {0}))
      BY <3>3, <3>6
    <3>8. Len(g.b.list) < g.b.cap
      BY <1>2, <1>4
    <3> HIDE DEF T
    <3>9. Has(e, s.m, c, T) /\ Len(c.list) = Len(g.b.list) + 1
      BY <1>2, <3>2, <3>4, <3>5, <3>7, <3>8, FileEntered
    <3> HIDE DEF c
    <3> QED BY <1>2, <2>4, <2>6, <3>1, <3>9 DEF T
  <2> QED BY <2>4, <2>5, <2>6
<1> QED BY <1>2, <1>3, <1>4

\* sf_*_remove_file releases the file's own name and data, once, and the rest of
\* the list moves up.
LEMMA FileRemoved ==
  ASSUME NEW e, Fit(e), NEW m, NEW b, NEW R, Has(e, m, b, R), NEW i \in 1 .. Len(b.list)
  PROVE  LET o == remove_file(m, b, i)
         IN  Has(e, o.m, o.b, R) /\ Len(o.b.list) = Len(b.list) - 1
<1> DEFINE l == [j \in 1 .. Len(b.list) - 1 |-> IF j < i THEN b.list[j] ELSE b.list[j + 1]]
           c == WithList(b, l)
           o == remove_file(m, b, i)
           name == OwnName(b.list[i], b.pool)
           data == b.list[i].data
           L == FileBlocks(b.list, b.pool)
           S == BinderBlocks(b) \cup R
           m2 == Release(m, <<name, data>>)
<1>1. /\ IsBinder(b) /\ IsList(b.list) /\ FilesOnce(b.list, b.pool) /\ b.cap \in Nat /\ Len(b.list) \in Nat
      /\ Len(b.list) <= b.cap /\ HandleBlocks(b) \cap L = {} /\ BinderBlocks(b) = HandleBlocks(b) \cup L
      /\ BinderBlocks(b) \cap R = {} /\ Gives(e, m, S)
  BY ListDomain DEF Has, IsBinder, BinderOnce, BinderBlocks
<1>2. o.m = m2 /\ o.b = c
  BY DEF remove_file, file_free
<1>3. /\ IsList(l) /\ Len(l) = Len(b.list) - 1 /\ FilesOnce(l, b.pool)
      /\ FileBlocks(l, b.pool) = L \ {name, data}
  BY <1>1, FileDropped
<1>4. name # data \/ name = 0
  <2>1. EachOnce(b.list, b.pool)
    BY <1>1, FilesOnceIs
  <2> QED BY <2>1 DEF EachOnce
<1>5. {name, data} \ {0} \subseteq L
  <2>1. \A p : p \in L <=> p # 0 /\ \E j \in 1 .. Len(b.list) : p = OwnName(b.list[j], b.pool) \/ p = b.list[j].data
    BY <1>1, FileBlocksAre
  <2> QED BY <2>1
<1> HIDE DEF l, name, data, L, S, o
<1>6. Once(<<name, data>>) /\ Blocks(<<name, data>>) = {name, data} \ {0}
  BY <1>4, Once2
<1>7. {name, data} \ {0} \subseteq S
  BY <1>1, <1>5 DEF S
<1>8. Gives(e, m2, S \ ({name, data} \ {0}))
  BY <1>1, <1>6, <1>7, ReleaseAll
<1>9. Len(l) <= b.cap /\ HandleBlocks(b) \cap FileBlocks(l, b.pool) = {}
  BY <1>1, <1>3
<1>10. IsBinder(c) /\ BinderBlocks(c) = HandleBlocks(b) \cup FileBlocks(l, b.pool) /\ c.list = l
  BY <1>1, <1>3, <1>9, ListChanged
<1> HIDE DEF c, m2
<1>11. BinderBlocks(c) \cup R = S \ ({name, data} \ {0}) /\ BinderBlocks(c) \cap R = {}
  <2>1. 0 \notin L
    BY ZeroNotBlock DEF L, FileBlocks
  <2> QED BY <1>1, <1>3, <1>5, <1>10, <2>1 DEF S
<1>12. Has(e, m2, c, R)
  BY <1>8, <1>10, <1>11 DEF Has
<1> QED BY <1>2, <1>3, <1>10, <1>12 DEF o

\* A binder that lost its version and got another one.
LEMMA VersionReplaced ==
  ASSUME NEW e, NEW m, NEW b, NEW R, IsBinder(b), BinderBlocks(b) \cap R = {}, NEW p \in Nat,
         p = 0 \/ (p \notin BinderBlocks(b) /\ p \notin R),
         Gives(e, m, ((BinderBlocks(b) \cup R) \ {b.version}) \cup ({p} \ {0})),
         b.version = 0 \/ b.version \notin R, 0 \notin R
  PROVE  Has(e, m, WithVersion(b, p), R) /\ WithVersion(b, p).list = b.list
<1> DEFINE c == WithVersion(b, p)
<1>1. /\ IsBinder(c) /\ BinderBlocks(c) = (BinderBlocks(b) \ {b.version}) \cup ({p} \ {0})
      /\ c.list = b.list
  BY VersionChanged
<1> HIDE DEF c
<1>2. BinderBlocks(c) \cup R = ((BinderBlocks(b) \cup R) \ {b.version}) \cup ({p} \ {0}) /\ BinderBlocks(c) \cap R = {}
  BY <1>1
<1> QED BY <1>1, <1>2 DEF Has, c

\* set_version of BND4 and BXF4 copies first: the binder ends with the copy, or
\* as it was.
LEMMA VersionSet4 ==
  ASSUME NEW e, Fit(e), NEW m, NEW b, NEW R, Has(e, m, b, R), NEW v, NEW o \in set_version4(m, b, v)
  PROVE  Has(e, o.m, o.b, R) /\ o.b.list = b.list
<1> DEFINE S == BinderBlocks(b) \cup R
<1>1. PICK c \in AllocIf(v # "null", m) :
         o = IF c.ok THEN [m |-> sf_xfree(c.m, b.version), b |-> WithVersion(b, c.p)] ELSE [m |-> c.m, b |-> b]
  BY DEF set_version4
<1>2. IsBinder(b) /\ Gives(e, m, S) /\ BinderBlocks(b) \cap R = {} /\ b.version \in Nat
  BY DEF Has, IsBinder
<1>3. b.version # 0 => b.version \in BinderBlocks(b)
  BY DEF BinderBlocks, HandleBlocks
<1> HIDE DEF S
<1>4. Fit(m) /\ 0 \notin S
  BY <1>2, GivesFit
<1>5. /\ c.ok \in BOOLEAN
      /\ c.ok => Gives(m, c.m, {c.p} \ {0}) /\ c.p \in Nat
      /\ ~c.ok => c.m = m
  BY <1>4, AllocWhen
<1>6. CASE ~c.ok
  <2>1. o.m = m /\ o.b = b
    BY <1>1, <1>5, <1>6
  <2> QED BY <2>1
<1>7. CASE c.ok
  <2> DEFINE p == c.p
             N == {p} \ {0}
             m2 == sf_xfree(c.m, b.version)
  <2>1. o.m = m2 /\ o.b = WithVersion(b, p)
    BY <1>1, <1>7
  <2>2. Gives(m, c.m, N) /\ p \in Nat
    BY <1>5, <1>7
  <2> HIDE DEF p, N
  <2>3. Gives(e, c.m, S \cup N) /\ S \cap N = {}
    BY <1>2, <2>2, GivesThen
  <2>4. b.version \in (S \cup N) \cup {0}
    BY <1>3 DEF S
  <2>5. Gives(e, m2, (S \cup N) \ {b.version})
    BY <2>3, <2>4, FreeOne
  <2> HIDE DEF m2
  <2>6. (S \cup N) \ {b.version} = ((BinderBlocks(b) \cup R) \ {b.version}) \cup ({p} \ {0})
    <3>1. b.version \notin N
      BY <1>3, <2>3 DEF S, N
    <3> QED BY <3>1 DEF S, N
  <2>7. p = 0 \/ (p \notin BinderBlocks(b) /\ p \notin R)
    BY <2>3 DEF S, N
  <2>8. (b.version = 0 \/ b.version \notin R) /\ 0 \notin R
    BY <1>2, <1>3, <1>4 DEF S
  <2>9. Gives(e, m2, ((BinderBlocks(b) \cup R) \ {b.version}) \cup ({p} \ {0}))
    BY <2>5, <2>6
  <2>10. Has(e, m2, WithVersion(b, p), R) /\ WithVersion(b, p).list = b.list
    BY <1>2, <2>2, <2>7, <2>8, <2>9, VersionReplaced
  <2> QED BY <2>1, <2>10
<1> QED BY <1>5, <1>6, <1>7

\* set_version of BND3 and BXF3 releases first; given its own version it reads
\* released bytes, and the blocks are still held once.
LEMMA VersionSet3 ==
  ASSUME NEW e, Fit(e), NEW m, NEW b, NEW R, Has(e, m, b, R), NEW v, v # "own" \/ "stale" \in e.bad,
         NEW o \in set_version3(m, b, v)
  PROVE  Has(e, o.m, o.b, R) /\ o.b.list = b.list
<1> DEFINE S == BinderBlocks(b) \cup R
           freed == sf_xfree(m, b.version)
           read == IF v = "own" THEN Touch(freed, b.version) ELSE freed
<1>1. PICK c \in AllocIf(v # "null", read) : o = [m |-> c.m, b |-> WithVersion(b, c.p)]
  BY DEF set_version3
<1>2. IsBinder(b) /\ Gives(e, m, S) /\ BinderBlocks(b) \cap R = {} /\ b.version \in Nat
  BY DEF Has, IsBinder
<1>3. b.version # 0 => b.version \in BinderBlocks(b)
  BY DEF BinderBlocks, HandleBlocks
<1>4. b.version \in S \cup {0}
  BY <1>3
<1> HIDE DEF S
<1>5. Gives(e, freed, S \ {b.version})
  BY <1>2, <1>4, FreeOne
<1> HIDE DEF freed
<1>6. Gives(e, read, S \ {b.version})
  <2>1. CASE v = "own"
    <3>1. read = Touch(freed, b.version) /\ "stale" \in e.bad
      BY <2>1
    <3> HIDE DEF read
    <3> QED BY <1>5, <3>1, Touched
  <2>2. CASE v # "own"
    BY <1>5, <2>2
  <2> QED BY <2>1, <2>2
<1> HIDE DEF read
<1> DEFINE Q == S \ {b.version}
           p == c.p
           N == {p} \ {0}
<1>7. Fit(read) /\ Gives(e, read, Q) /\ Fit(m) /\ 0 \notin S
  BY <1>2, <1>6, GivesFit
<1>8. /\ c.ok \in BOOLEAN
      /\ c.ok => Gives(read, c.m, {c.p} \ {0}) /\ c.p \in Nat
      /\ ~c.ok => c.m = read /\ c.p = 0
  BY <1>7, AllocWhen
<1>9. Gives(read, c.m, N) /\ p \in Nat
  <2>1. CASE c.ok
    BY <1>8, <2>1
  <2>2. CASE ~c.ok
    <3>1. N = {} /\ c.m = read /\ p = 0
      BY <1>8, <2>2
    <3> QED BY <1>7, <3>1, GivesSelf
  <2> QED BY <1>8, <2>1, <2>2
<1>10. o.m = c.m /\ o.b = WithVersion(b, p)
  BY <1>1
<1> HIDE DEF p, N, Q
<1>11. Gives(e, c.m, Q \cup N) /\ Q \cap N = {}
  BY <1>7, <1>9, GivesThen
<1>12. CASE p = b.version
  <2>1. p = 0 \/ p \in BinderBlocks(b)
    BY <1>3, <1>12
  <2>2. Q \cup N = S
    BY <1>4, <1>7, <1>12 DEF Q, N
  <2>3. WithVersion(b, p) = b
    BY <1>2, <1>12 DEF IsBinder, WithVersion
  <2>4. Has(e, c.m, b, R)
    BY <1>2, <1>11, <2>2 DEF Has, S
  <2> QED BY <1>10, <2>3, <2>4
<1>13. CASE p # b.version
  <2>1. p = 0 \/ (p \notin BinderBlocks(b) /\ p \notin R)
    BY <1>11, <1>13 DEF Q, N, S
  <2>2. (b.version = 0 \/ b.version \notin R) /\ 0 \notin R
    BY <1>2, <1>3, <1>7 DEF S
  <2>3. Gives(e, c.m, ((BinderBlocks(b) \cup R) \ {b.version}) \cup ({p} \ {0}))
    BY <1>11 DEF Q, N, S
  <2>4. Has(e, c.m, WithVersion(b, p), R) /\ WithVersion(b, p).list = b.list
    BY <1>2, <1>9, <2>1, <2>2, <2>3, VersionReplaced
  <2> QED BY <1>10, <2>4
<1> QED BY <1>12, <1>13

\* A call on a binder that ends with the blocks of a binder and of the caller
\* live keeps the invariant.
LEMMA BinderCalled ==
  ASSUME IndInv, binder # NoBinder, NEW c, NEW ok \in BOOLEAN, NEW bad, KnownMisuse(c, bad),
         NEW m, NEW b, NEW mn \in SUBSET mine, Has(Empty(bad, FALSE), m, b, mn), Len(b.list) <= MaxFiles,
         m.lost = {}, ok \/ Kept(b, reader, mn), Return(c, ok, m, b, reader, mn)
  PROVE  IndInv' /\ KeepsFiles
<1>1. reader = NoReader /\ kind # "bhd5"
  BY BinderBegins
<1>2. IsFiniteSet(mn) /\ mn \subseteq Nat \ {0} /\ Cardinality(mn) <= MaxMine
  <2>1. IsFiniteSet(mine) /\ mine \subseteq Nat \ {0} /\ Cardinality(mine) \in Nat /\ Cardinality(mine) <= MaxMine
    BY Begun
  <2>2. IsFiniteSet(mn) /\ Cardinality(mn) <= Cardinality(mine) /\ Cardinality(mn) \in Nat
    BY <2>1, FS_Subset, FS_CardinalityType
  <2> QED BY <2>1, <2>2, BaseType
<1>3. Sound(m, b, reader, mn) /\ m.heap \subseteq HeldBlocks(b, reader) \cup mn /\ m.bad \subseteq bad
  BY <1>1, <1>2, BinderEnds
<1>4. KnownMisuse(c, m.bad)
  BY <1>3 DEF KnownMisuse
<1>5. Call(c, ok, m, b, reader, mn)
  BY <1>1, <1>3, <1>4 DEF Call
<1> QED BY <1>5, CallKeeps

\* sf_*_add_file keeps the invariant.
LEMMA AddFileStep ==
  ASSUME IndInv, AddFile
  PROVE  IndInv' /\ KeepsFiles
<1> DEFINE e == Empty({}, FALSE)
<1>1. binder # NoBinder /\ Len(binder.list) < MaxFiles
  BY DEF AddFile
<1>2. PICK named \in BOOLEAN, sized \in BOOLEAN :
         \E o \in add_file(Now, binder, named, sized, 0) : Return("add_file", o.ok, o.m, o.b, reader, mine)
  BY DEF AddFile
<1>3. PICK o \in add_file(Now, binder, named, sized, 0) : Return("add_file", o.ok, o.m, o.b, reader, mine)
  BY <1>2
<1>4. Fit(e) /\ Has(e, Now, binder, mine)
  BY <1>1, BinderBegins
<1> HIDE DEF e
<1>5. /\ o.ok \in BOOLEAN /\ Has(e, o.m, o.b, mine)
      /\ o.ok => Len(o.b.list) = Len(binder.list) + 1
      /\ ~o.ok => /\ o.b.list = binder.list /\ o.b.pool = binder.pool
                  /\ o.b.version = binder.version /\ o.b.self = binder.self
  BY <1>4, FileAdded
<1>6. Len(binder.list) \in Nat
  BY <1>4, ListDomain DEF Has, IsBinder
<1>7. Len(o.b.list) <= MaxFiles
  BY <1>1, <1>5, <1>6, BaseType
<1>8. o.ok \/ Kept(o.b, reader, mine)
  BY <1>5 DEF Kept
<1>9. o.m.lost = {}
  BY <1>3, ChangesLoseNothing, NothingLost DEF KeepsLost
<1> QED BY <1>1, <1>3, <1>5, <1>7, <1>8, <1>9, BinderCalled, NothingBad DEF e

\* So it does for a file of the same binder, which the array that moves takes
\* with it.
LEMMA AddOwnFileStep ==
  ASSUME IndInv, AddOwnFile
  PROVE  IndInv' /\ KeepsFiles
<1> DEFINE e == Empty({"stale"}, FALSE)
<1>1. PICK i \in 1 .. Len(binder.list) :
         /\ Len(binder.list) < MaxFiles
         /\ \E o \in add_file(Now, binder, binder.list[i].name # 0, binder.list[i].data # 0, binder.files) :
               Return("add_own", o.ok, o.m, o.b, reader, mine)
  BY DEF AddOwnFile
<1> DEFINE named == binder.list[i].name # 0
           sized == binder.list[i].data # 0
<1>2. PICK o \in add_file(Now, binder, named, sized, binder.files) : Return("add_own", o.ok, o.m, o.b, reader, mine)
  BY <1>1
<1>3. named \in BOOLEAN /\ sized \in BOOLEAN
  OBVIOUS
<1>4. binder # NoBinder
  <2>1. ASSUME binder = NoBinder PROVE FALSE
    <3>1. Len(binder.list) = 0
      BY <2>1, NoHandles
    <3> QED BY <1>1, <3>1
  <2> QED BY <2>1
<1>5. Fit(e) /\ Has(e, Now, binder, mine)
  BY <1>4, BinderBegins
<1>6. "stale" \in e.bad
  <2>1. e.bad = {"stale"}
    BY EmptyFields, Zenon
  <2> QED BY <2>1
<1> HIDE DEF e, named, sized
<1>7. /\ o.ok \in BOOLEAN /\ Has(e, o.m, o.b, mine)
      /\ o.ok => Len(o.b.list) = Len(binder.list) + 1
      /\ ~o.ok => /\ o.b.list = binder.list /\ o.b.pool = binder.pool
                  /\ o.b.version = binder.version /\ o.b.self = binder.self
  BY <1>2, <1>3, <1>5, <1>6, FileAdded
<1>8. Len(binder.list) \in Nat
  BY <1>5, ListDomain DEF Has, IsBinder
<1>9. Len(o.b.list) <= MaxFiles
  BY <1>1, <1>7, <1>8, BaseType
<1>10. o.ok \/ Kept(o.b, reader, mine)
  BY <1>7 DEF Kept
<1>11. KnownMisuse("add_own", {"stale"})
  BY DEF KnownMisuse
<1>12. o.m.lost = {}
  BY <1>2, ChangesLoseNothing, NothingLost DEF KeepsLost
<1> QED BY <1>2, <1>4, <1>7, <1>9, <1>10, <1>11, <1>12, BinderCalled DEF e

\* sf_bnd4_add_file_take keeps the invariant.
LEMMA AddFileTakeStep ==
  ASSUME IndInv, AddFileTake
  PROVE  IndInv' /\ KeepsFiles
<1> DEFINE e == Empty({}, FALSE)
<1>1. binder # NoBinder /\ Len(binder.list) < MaxFiles
  BY DEF AddFileTake
<1>2. PICK named \in BOOLEAN, data \in mine \cup {0} :
         \E o \in add_file_take(Now, binder, named, data) :
            Return("add_file_take", o.ok, o.m, o.b, reader, IF o.ok THEN mine \ {data} ELSE mine)
  BY DEF AddFileTake
<1>3. PICK o \in add_file_take(Now, binder, named, data) :
         Return("add_file_take", o.ok, o.m, o.b, reader, IF o.ok THEN mine \ {data} ELSE mine)
  BY <1>2
<1> DEFINE mn == IF o.ok THEN mine \ {data} ELSE mine
<1>4. Fit(e) /\ Has(e, Now, binder, mine)
  BY <1>1, BinderBegins
<1>5. data \in Nat /\ (data = 0 \/ data \in mine)
  BY Begun
<1> HIDE DEF e, mn
<1>6. /\ o.ok \in BOOLEAN
      /\ o.ok => Has(e, o.m, o.b, mine \ {data}) /\ Len(o.b.list) = Len(binder.list) + 1
      /\ ~o.ok => /\ Has(e, o.m, o.b, mine)
                  /\ o.b.list = binder.list /\ o.b.pool = binder.pool
                  /\ o.b.version = binder.version /\ o.b.self = binder.self
  <2>1. Took(e, binder, mine, data, o)
    BY <1>4, <1>5, FileTaken
  <2> QED BY <2>1 DEF Took
<1>7. Len(binder.list) \in Nat
  BY <1>4, ListDomain DEF Has, IsBinder
<1>8. Len(o.b.list) <= MaxFiles
  BY <1>1, <1>6, <1>7, BaseType
<1>9. Has(e, o.m, o.b, mn) /\ mn \in SUBSET mine
  BY <1>6 DEF mn
<1>10. o.ok \/ Kept(o.b, reader, mn)
  BY <1>6 DEF Kept, mn
<1>11. Return("add_file_take", o.ok, o.m, o.b, reader, mn)
  BY <1>3 DEF mn
<1>12. o.m.lost = {}
  BY <1>3, ChangesLoseNothing, NothingLost DEF KeepsLost
<1> QED BY <1>1, <1>6, <1>8, <1>9, <1>10, <1>11, <1>12, BinderCalled, NothingBad DEF e

\* sf_*_remove_file keeps the invariant; an index out of range changes nothing.
LEMMA RemoveFileStep ==
  ASSUME IndInv, RemoveFile
  PROVE  IndInv' /\ KeepsFiles
<1> DEFINE e == Empty({}, FALSE)
<1>1. binder # NoBinder
  BY DEF RemoveFile
<1>2. PICK i \in 1 .. Len(binder.list) + 1 :
         IF i > Len(binder.list) THEN Return("remove_file", FALSE, Now, binder, reader, mine)
         ELSE LET o == remove_file(Now, binder, i)
              IN Return("remove_file", TRUE, o.m, o.b, reader, mine)
  BY DEF RemoveFile
<1>3. Fit(e) /\ Has(e, Now, binder, mine) /\ Len(binder.list) <= MaxFiles
  BY <1>1, BinderBegins
<1>4. Len(binder.list) \in Nat
  BY <1>3, ListDomain DEF Has, IsBinder
<1> HIDE DEF e
<1>5. CASE i > Len(binder.list)
  <2>1. Return("remove_file", FALSE, Now, binder, reader, mine)
    BY <1>2, <1>5
  <2>2. Kept(binder, reader, mine)
    BY DEF Kept
  <2> QED BY <1>1, <1>3, <2>1, <2>2, BinderCalled, NothingBad, NothingLost DEF e
<1>6. CASE ~(i > Len(binder.list))
  <2> DEFINE o == remove_file(Now, binder, i)
  <2>1. Return("remove_file", TRUE, o.m, o.b, reader, mine)
    BY <1>2, <1>6
  <2>2. i \in 1 .. Len(binder.list)
    BY <1>4, <1>6
  <2>3. Has(e, o.m, o.b, mine) /\ Len(o.b.list) = Len(binder.list) - 1
    BY <1>3, <2>2, FileRemoved
  <2>4. o.m.lost = {}
    BY ChangesLoseNothing, NothingLost
  <2> HIDE DEF o
  <2>5. Len(o.b.list) <= MaxFiles
    BY <1>3, <1>4, <2>3, BaseType
  <2> QED BY <1>1, <2>1, <2>3, <2>4, <2>5, BinderCalled, NothingBad DEF e
<1> QED BY <1>5, <1>6

\* sf_*_set_version keeps the invariant.
LEMMA SetVersionStep ==
  ASSUME IndInv, SetVersion
  PROVE  IndInv' /\ KeepsFiles
<1>1. binder # NoBinder
  BY DEF SetVersion
<1>2. PICK v \in {"null", "new", "own"} :
         \E o \in IF kind \in {"bnd4", "bxf4"} THEN set_version4(Now, binder, v)
                  ELSE set_version3(Now, binder, v) :
            Return(IF v = "own" THEN "own_version" ELSE "set_version", TRUE, o.m, o.b, reader, mine)
  BY DEF SetVersion
<1>3. PICK o \in IF kind \in {"bnd4", "bxf4"} THEN set_version4(Now, binder, v)
                 ELSE set_version3(Now, binder, v) :
         Return(IF v = "own" THEN "own_version" ELSE "set_version", TRUE, o.m, o.b, reader, mine)
  BY <1>2
<1> DEFINE c == IF v = "own" THEN "own_version" ELSE "set_version"
           bad == IF v = "own" /\ kind \notin {"bnd4", "bxf4"} THEN {"stale"} ELSE {}
           e == Empty(bad, FALSE)
<1>4. Fit(e) /\ Has(e, Now, binder, mine) /\ Len(binder.list) <= MaxFiles /\ kind # "bhd5"
  BY <1>1, BinderBegins
<1>5. e.bad = bad
  BY EmptyFields
<1>6. KnownMisuse(c, bad)
  <2>1. kind \in {"bnd3", "bnd4", "bxf3", "bxf4"}
    BY <1>4, KindsAssumption DEF IndInv
  <2> QED BY <2>1 DEF KnownMisuse
<1>7. Return(c, TRUE, o.m, o.b, reader, mine)
  BY <1>3
<1>8. kind \in {"bnd4", "bxf4"} \/ v # "own" \/ "stale" \in e.bad
  BY <1>5
<1> HIDE DEF c, e, bad
<1>9. Has(e, o.m, o.b, mine) /\ o.b.list = binder.list
  <2>1. CASE kind \in {"bnd4", "bxf4"}
    <3>1. o \in set_version4(Now, binder, v)
      BY <1>3, <2>1
    <3> QED BY <1>4, <3>1, VersionSet4
  <2>2. CASE kind \notin {"bnd4", "bxf4"}
    <3>1. o \in set_version3(Now, binder, v) /\ (v # "own" \/ "stale" \in e.bad)
      BY <1>3, <1>8, <2>2
    <3> QED BY <1>4, <3>1, VersionSet3
  <2> QED BY <2>1, <2>2
<1>10. Len(o.b.list) <= MaxFiles
  BY <1>4, <1>9
<1>11. o.m.lost = {}
  BY <1>3, ChangesLoseNothing, NothingLost DEF KeepsLost
<1> QED BY <1>1, <1>6, <1>7, <1>9, <1>10, <1>11, BinderCalled DEF e

\* The invariant holds before the first call.
LEMMA InitIndInv ==
  ASSUME Init
  PROVE  IndInv
<1>1. /\ kind \in Kinds /\ binder = NoBinder /\ reader = NoReader /\ heap = {} /\ mine = {}
      /\ failed = FALSE /\ misuse = {} /\ leaked = {}
  BY DEF Init
<1>2. Handles(NoBinder, NoReader) /\ HeldBlocks(NoBinder, NoReader) = {}
  <2>1. Len(NoBinder.list) <= MaxFiles
    BY NoHandles, BaseType
  <2> QED BY <2>1, NoHandles, OneHandle
<1>3. Numbered(NoBinder, NoReader)
  <2>1. /\ NoBinder.self = 0 /\ NoBinder.version = 0 /\ NoBinder.files = 0 /\ NoBinder.pool = 0
        /\ Len(NoBinder.list) = 0
    BY BinderFields, NoHandles DEF NoBinder
  <2>2. /\ NoReader.self = 0 /\ NoReader.version = 0 /\ NoReader.headers = 0 /\ NoReader.files = 0
        /\ NoReader.pool = 0 /\ NoReader.br = NoBr /\ NoReader.br2 = NoBr
    BY ReaderFields DEF NoReader
  <2>3. NoBr.self = 0 /\ NoBr.buf = 0
    BY DEF NoBr, Br
  <2>4. \A i \in 1 .. Len(NoBinder.list) : FALSE
    BY <2>1
  <2> QED BY <2>1, <2>2, <2>3, <2>4 DEF Numbered
<1>4. Cardinality({}) = 0 /\ {} = Base + 1 .. Base + 0 /\ 0 \in 0 .. MaxMine
  BY FS_EmptySet, BaseType
<1>5. Standing(binder, reader, mine, heap)
  BY <1>1, <1>2, <1>3, <1>4 DEF Standing
<1>6. OnlyKnownMisuse /\ OnlyKnownLeaks
  BY <1>1 DEF OnlyKnownMisuse, OnlyKnownLeaks
<1>7. kind = "bhd5" => binder = NoBinder
  BY <1>1
<1> QED BY <1>1, <1>5, <1>6, <1>7 DEF IndInv

\* Every call keeps it, and one that fails keeps the files.
LEMMA NextIndInv ==
  ASSUME IndInv, Next
  PROVE  IndInv' /\ KeepsFiles
BY CreateStep, ReadStep, DestroyStep, AddFileStep, AddOwnFileStep, AddFileTakeStep, RemoveFileStep,
   SetVersionStep, WriteStep, ReaderOpenStep, ReaderReadStep, ReaderCloseStep, WriteBhd5Step, FreeMineStep
   DEF Next

\* A step that changes nothing keeps it.
LEMMA StutterIndInv ==
  ASSUME IndInv, UNCHANGED vars
  PROVE  IndInv'
BY DEF vars, IndInv, OnlyKnownMisuse, OnlyKnownLeaks

(***************************************************************************)
(* The theorems.                                                           *)
(***************************************************************************)
\* The invariant holds after any sequence of calls of sf_binder.c, bnd3.c,
\* bnd4.c, bxf3.c, bxf4.c and bhd5.c on a handle.
THEOREM BinderFilesInvariant == Spec => []IndInv
<1>1. Init => IndInv
  BY InitIndInv
<1>2. IndInv /\ [Next]_vars => IndInv'
  BY NextIndInv, StutterIndInv
<1> QED BY <1>1, <1>2, PTL DEF Spec

\* No call releases a block twice, reads a released one or releases one to
\* another allocator, on any path of any allocation failure, but for the four
\* cases OnlyKnownMisuse lists.
THEOREM KnownMisuseOnly == Spec => []OnlyKnownMisuse
<1>1. IndInv => OnlyKnownMisuse
  BY DEF IndInv
<1> QED BY <1>1, BinderFilesInvariant, PTL

\* No call loses a block, on any path of any allocation failure, but for the
\* cases OnlyKnownLeaks lists: the finished writers, two failing openings, and the
\* output of a DCX whose decoding fails half-way.
THEOREM KnownLeaksOnly == Spec => []OnlyKnownLeaks
<1>1. IndInv => OnlyKnownLeaks
  BY DEF IndInv
<1> QED BY <1>1, BinderFilesInvariant, PTL

\* A call that returns an error leaves the list, the pool and the version of the
\* binder, the streaming reader and the caller's blocks as they were.
THEOREM FailureKeepsFiles == Spec => FailedCallKeepsFiles
<1> DEFINE A == failed' => /\ binder'.list = binder.list /\ binder'.pool = binder.pool
                           /\ binder'.version = binder.version /\ binder'.self = binder.self
                           /\ reader' = reader /\ mine' = mine
<1>1. IndInv /\ [Next]_vars => [A]_vars
  BY NextIndInv DEF KeepsFiles
<1> QED BY <1>1, BinderFilesInvariant, PTL DEF Spec, FailedCallKeepsFiles

\* In a state of the invariant every block has one owner.
LEMMA OwnedOnce ==
  ASSUME IndInv
  PROVE  OneOwner
<1> DEFINE ps == Pointers(binder, reader)
<1>1. /\ Handles(binder, reader) /\ heap = HeldBlocks(binder, reader) \cup mine
      /\ HeldBlocks(binder, reader) \cap mine = {}
  BY Begun
<1>2. Once(ps) /\ Blocks(ps) = HeldBlocks(binder, reader)
  BY <1>1, HeldOnce
<1>3. \A i \in DOMAIN ps : ps[i] # 0 => ps[i] \in heap \ mine /\ \A j \in DOMAIN ps : ps[i] = ps[j] => i = j
  <2> HIDE DEF ps
  <2> QED BY <1>1, <1>2 DEF Once, Blocks
<1>4. binder.pool # 0 => binder.pool \in heap
  BY <1>1 DEF HeldBlocks, BinderBlocks, HandleBlocks
<1>5. \A i \in DOMAIN binder.list : name_in_pool(binder.list[i].name, binder.pool) => binder.pool \in heap
  BY <1>4 DEF name_in_pool
<1> QED BY <1>3, <1>5 DEF OneOwner

\* After any sequence of calls, failed ones included, every block a handle points
\* to is live and held once, by one field of one handle or by the caller: destroy
\* and close release each once.
THEOREM OwnerOfEachBlock == Spec => []OneOwner
<1>1. IndInv => OneOwner
  BY OwnedOnce
<1> QED BY <1>1, BinderFilesInvariant, PTL

\* In a state of the invariant every variable has its type.
LEMMA Typed ==
  ASSUME IndInv
  PROVE  TypeOK
<1>1. /\ Handles(binder, reader) /\ heap = HeldBlocks(binder, reader) \cup mine
      /\ mine \subseteq Nat \ {0} /\ Cardinality(mine) <= MaxMine
  BY Begun
<1>2. heap \subseteq Nat \ {0}
  <2>1. heap \subseteq 1 .. Base + MaxMine
    BY StandingHeap DEF IndInv
  <2> QED BY <2>1, BaseType
<1>3. /\ IsBinder(binder) /\ IsList(binder.list) /\ Len(binder.list) <= binder.cap
      /\ (binder.cap > 0 <=> binder.files # 0)
  BY <1>1 DEF Handles, IsBinder
<1>4. {binder.self, binder.version, binder.files, binder.pool} \subseteq Pointer
  BY <1>1 DEF Pointer, HeldBlocks, BinderBlocks, HandleBlocks
<1>5. \A i \in DOMAIN binder.list : {binder.list[i].name, binder.list[i].data} \subseteq Pointer
  <2> SUFFICES ASSUME NEW i \in 1 .. Len(binder.list)
               PROVE  {binder.list[i].name, binder.list[i].data} \subseteq Pointer
    BY <1>3, ListDomain
  <2>1. \A p : p \in FileBlocks(binder.list, binder.pool) <=>
                 p # 0 /\ \E j \in 1 .. Len(binder.list) :
                             p = OwnName(binder.list[j], binder.pool) \/ p = binder.list[j].data
    BY <1>3, FileBlocksAre
  <2>2. FileBlocks(binder.list, binder.pool) \subseteq heap
    BY <1>1 DEF HeldBlocks, BinderBlocks
  <2>3. binder.list[i].data \in Pointer /\ OwnName(binder.list[i], binder.pool) \in Pointer
    BY <2>1, <2>2 DEF Pointer
  <2>4. binder.list[i].name = binder.pool \/ binder.list[i].name = OwnName(binder.list[i], binder.pool)
    BY DEF OwnName, name_in_pool
  <2> QED BY <1>4, <2>3, <2>4
<1>6. {reader.self, reader.version, reader.headers, reader.files, reader.pool} \subseteq Pointer
  BY <1>1 DEF Pointer, HeldBlocks, ReaderBlocks, FieldBlocks
<1>7. kind \in Kinds /\ failed \in BOOLEAN /\ \A u \in misuse : u[2] \in {"twice", "stale", "foreign"}
  BY DEF IndInv
<1> QED BY <1>1, <1>2, <1>3, <1>4, <1>5, <1>6, <1>7 DEF TypeOK

\* After any sequence of calls every pointer of a handle is null or live, and a
\* list is no longer than its array, which exists exactly when there is room in
\* it.
THEOREM BinderFilesType == Spec => []TypeOK
<1>1. IndInv => TypeOK
  BY Typed
<1> QED BY <1>1, BinderFilesInvariant, PTL

(***************************************************************************)
(* Taken, Run, Release and Extracted are the loops of the C code in one    *)
(* step: each is what one more turn of the loop makes of itself.           *)
(***************************************************************************)
\* One more allocation than k is k allocations and one more.
THEOREM TakenStep ==
  ASSUME NEW m, Fit(m), NEW k \in Nat
  PROVE  /\ Taken(m, k + 1) = Taken(Taken(m, k), 1)
         /\ Run(m, k + 1)[k + 1] = Taken(m, k).next
         /\ \A i \in 1 .. k : Run(m, k + 1)[i] = Run(m, k)[i]
<1> DEFINE t == Taken(m, k)
<1>1. t.heap = m.heap \cup (m.next .. m.next + k - 1) /\ t.next = m.next + k /\ t.bad = m.bad /\ t.custom = m.custom
      /\ t.lost = m.lost
  BY DEF Taken, Mem
<1> HIDE DEF t
<1>2. m.next \in Nat /\ m.next # 0
  BY DEF Fit
<1>3. Taken(t, 1) = Mem(t.heap \cup {t.next}, t.next + 1, t.bad, t.custom, t.lost)
  <2>1. t.next .. t.next + 1 - 1 = {t.next}
    BY <1>1, <1>2
  <2> QED BY <2>1 DEF Taken
<1>4. m.next .. m.next + (k + 1) - 1 = (m.next .. m.next + k - 1) \cup {m.next + k}
  BY <1>2
<1>5. Taken(m, k + 1) = Mem(m.heap \cup (m.next .. m.next + (k + 1) - 1), m.next + (k + 1), m.bad, m.custom, m.lost)
  BY DEF Taken
<1>6. m.next + (k + 1) = t.next + 1
  BY <1>1, <1>2
<1>7. m.heap \cup (m.next .. m.next + (k + 1) - 1) = t.heap \cup {t.next}
  BY <1>1, <1>4
<1>8. Taken(m, k + 1) = Taken(t, 1)
  BY <1>1, <1>3, <1>5, <1>6, <1>7
<1>9. Run(m, k + 1)[k + 1] = m.next + k /\ \A i \in 1 .. k : Run(m, k + 1)[i] = Run(m, k)[i]
  BY <1>2 DEF Run
<1> QED BY <1>1, <1>8, <1>9 DEF t

\* Releasing no pointer changes nothing, and releasing one more pointer is one
\* sf_xfree after the others: Release marks a misuse exactly when one of the
\* sf_xfree in a row does.
THEOREM ReleaseStep ==
  ASSUME NEW m, Fit(m), NEW ps \in Seq(Nat), NEW p \in Nat
  PROVE  /\ Release(m, <<>>) = Mem(m.heap, m.next, m.bad, m.custom, m.lost)
         /\ Release(m, Append(ps, p)) = sf_xfree(Release(m, ps), p)
<1> DEFINE n == Len(ps)
           qs == Append(ps, p)
           r == Release(m, ps)
           good == Once(ps) /\ Blocks(ps) \subseteq m.heap
<1>1. Blocks(<<>>) = {} /\ Once(<<>>)
  BY DEF Blocks, Once
<1>2. Release(m, <<>>) = Mem(m.heap, m.next, m.bad, m.custom, m.lost)
  BY <1>1 DEF Release
<1>3. /\ DOMAIN qs = 1 .. n + 1 /\ DOMAIN ps = 1 .. n /\ n \in Nat
      /\ qs[n + 1] = p /\ \A i \in 1 .. n : qs[i] = ps[i]
  OBVIOUS
<1> HIDE DEF n, qs
<1>4. Blocks(qs) = Blocks(ps) \cup ({p} \ {0})
  <2>1. 1 .. n + 1 = (1 .. n) \cup {n + 1}
    BY <1>3
  <2> QED BY <1>3, <2>1 DEF Blocks
<1>5. Once(qs) <=> Once(ps) /\ (p = 0 \/ p \notin Blocks(ps))
  <2>1. 1 .. n + 1 = (1 .. n) \cup {n + 1} /\ n + 1 \notin 1 .. n
    BY <1>3
  <2>2. ASSUME Once(qs) PROVE Once(ps) /\ (p = 0 \/ p \notin Blocks(ps))
    BY <1>3, <2>1, <2>2 DEF Once, Blocks
  <2>3. ASSUME Once(ps), p = 0 \/ p \notin Blocks(ps) PROVE Once(qs)
    BY <1>3, <2>1, <2>3 DEF Once, Blocks
  <2> QED BY <2>2, <2>3
<1>6. /\ r.heap = m.heap \ Blocks(ps) /\ r.next = m.next /\ r.custom = m.custom /\ r.lost = m.lost
      /\ r.bad = IF good THEN m.bad ELSE m.bad \cup {"twice"}
  BY DEF Release, Mem
<1> DEFINE bad1 == IF good THEN m.bad ELSE m.bad \cup {"twice"}
           bad2 == IF p \in r.heap \cup {0} THEN bad1 ELSE bad1 \cup {"twice"}
           bad3 == IF Once(qs) /\ Blocks(qs) \subseteq m.heap THEN m.bad ELSE m.bad \cup {"twice"}
<1>7. sf_xfree(r, p) = Mem(r.heap \ {p}, r.next, bad2, r.custom, r.lost)
  BY <1>6 DEF sf_xfree
<1>8. Release(m, qs) = Mem(m.heap \ Blocks(qs), m.next, bad3, m.custom, m.lost)
  BY DEF Release
<1> HIDE DEF r
<1>9. bad3 = bad2
  <2>1. (Once(qs) /\ Blocks(qs) \subseteq m.heap) <=> (good /\ p \in r.heap \cup {0})
    BY <1>4, <1>5, <1>6
  <2> HIDE DEF good
  <2>2. CASE good /\ p \in r.heap \cup {0}
    BY <2>1, <2>2
  <2>3. CASE ~(good /\ p \in r.heap \cup {0})
    <3>1. bad3 = m.bad \cup {"twice"}
      BY <2>1, <2>3
    <3>2. bad2 = m.bad \cup {"twice"}
      BY <2>3
    <3> QED BY <3>1, <3>2
  <2> QED BY <2>2, <2>3
<1> HIDE DEF bad1, bad2, bad3
<1>10. m.heap \ Blocks(qs) = r.heap \ {p}
  <2>1. 0 \notin m.heap
    BY DEF Fit
  <2> QED BY <1>4, <1>6, <2>1
<1> QED BY <1>2, <1>6, <1>7, <1>8, <1>9, <1>10 DEF qs, r

\* The outcome of one more turn of the extraction loop, extract_file_data after k
\* turns, is what Extracted and DataAt give for k + 1: a stored file takes one
\* block, a packed one two of which the first goes back, an empty one none.
THEOREM ExtractStep ==
  ASSUME NEW m, Fit(m), NEW form \in Forms, NEW k \in Nat,
         NEW o \in extract_file_data(Extracted(m, form, k), form), o.ok
  PROVE  o.m = Extracted(m, form, k + 1) /\ o.p = DataAt(m, form, k + 1)
<1> DEFINE M == Extracted(m, form, k)
           D == {DataAt(m, form, i) : i \in 1 .. k} \ {0}
           d == DataAt(m, form, k + 1)
           t == m.next + Turns(form, k)
<1>1. M.heap = m.heap \cup D /\ M.next = t /\ M.bad = m.bad /\ M.custom = m.custom
      /\ M.lost = m.lost
  BY DEF Extracted, Mem
<1>2. Fit(M)
  BY ExtractedGives, GivesFit
<1>3. m.next \in Nat /\ m.next # 0 /\ t \in Nat /\ t # 0 /\ t \notin M.heap /\ t + 1 \notin M.heap
  <2>1. m.next \in Nat /\ m.next # 0 /\ M.next \in Nat /\ M.next # 0 /\ M.heap \subseteq 1 .. M.next - 1
    BY <1>2 DEF Fit
  <2> HIDE DEF M, t
  <2> QED BY <1>1, <2>1
<1>4. Extracted(m, form, k + 1) = Mem(M.heap \cup ({d} \ {0}), m.next + Turns(form, k + 1), m.bad, m.custom, m.lost)
  <2>1. 1 .. k + 1 = (1 .. k) \cup {k + 1}
    OBVIOUS
  <2>2. {DataAt(m, form, i) : i \in 1 .. k + 1} \ {0} = D \cup ({d} \ {0})
    <3> HIDE DEF DataAt
    <3> QED BY <2>1
  <2>3. m.heap \cup ({DataAt(m, form, i) : i \in 1 .. k + 1} \ {0}) = M.heap \cup ({d} \ {0})
    BY <1>1, <2>2
  <2> QED BY <2>3 DEF Extracted
<1>5. M = Mem(M.heap, t, m.bad, m.custom, m.lost)
  BY <1>1 DEF Extracted
<1> HIDE DEF M, D
<1>6. PICK raw \in AllocIf(form # "empty", M) :
         o \in IF ~raw.ok THEN {raw}
               ELSE {Refused(sf_xfree(raw.m, raw.p))}
                    \cup (IF form = "packed"
                          THEN {IF x.ok THEN Given(sf_xfree(x.m, raw.p), x.p) ELSE Refused(sf_xfree(x.m, raw.p)) :
                                   x \in sf_dcx_decompress_from_buffer(raw.m)}
                          ELSE {raw})
  BY DEF extract_file_data, M
<1>7. raw.ok /\ o # Refused(sf_xfree(raw.m, raw.p))
  BY <1>6 DEF Refused
<1>8. CASE form = "empty"
  <2>1. raw = Given(M, 0)
    BY <1>6, <1>8 DEF AllocIf
  <2>2. o = raw
    BY <1>6, <1>7, <1>8
  <2>3. o.m = M /\ o.p = 0
    BY <2>1, <2>2 DEF Given
  <2>4. d = 0 /\ Turns(form, k + 1) = Turns(form, k)
    BY <1>8 DEF DataAt, Turns
  <2>5. M.heap \cup ({d} \ {0}) = M.heap
    BY <2>4
  <2>6. Extracted(m, form, k + 1) = Mem(M.heap, t, m.bad, m.custom, m.lost)
    BY <1>4, <2>4, <2>5
  <2> QED BY <1>5, <2>3, <2>4, <2>6
<1>9. CASE form # "empty"
  <2> DEFINE M1 == Taken(M, 1)
  <2>1. raw = Given(M1, t)
    BY <1>1, <1>6, <1>7, <1>9 DEF AllocIf, sf_xalloc, Refused
  <2>2. raw.m = M1 /\ raw.p = t
    BY <2>1 DEF Given
  <2>3. M1 = Mem(M.heap \cup {t}, t + 1, m.bad, m.custom, m.lost)
    <3>1. t .. t + 1 - 1 = {t}
      BY <1>3
    <3> QED BY <1>1, <3>1 DEF Taken
  <2> HIDE DEF M1
  <2>4. CASE form = "stored"
    <3>1. o = raw
      BY <1>6, <1>7, <2>4
    <3>2. d = t /\ m.next + Turns(form, k + 1) = t + 1
      BY <1>3, <2>4 DEF DataAt, Turns
    <3>3. {d} \ {0} = {t}
      BY <1>3, <3>2
    <3> QED BY <1>4, <2>2, <2>3, <3>1, <3>2, <3>3
  <2>5. CASE form = "packed"
    <3> DEFINE M2 == Taken(M1, 1)
    <3>1. PICK x \in sf_dcx_decompress_from_buffer(M1) :
             o = IF x.ok THEN Given(sf_xfree(x.m, t), x.p) ELSE Refused(sf_xfree(x.m, t))
      BY <1>6, <1>7, <2>2, <2>5
    <3>2. x.ok
      BY <3>1 DEF Refused
    <3>3. M1.heap = M.heap \cup {t} /\ M1.next = t + 1 /\ M1.bad = m.bad /\ M1.custom = m.custom
          /\ M1.lost = m.lost
      BY <2>3 DEF Mem
    <3>4. x = Given(M2, t + 1)
      BY <3>2, <3>3 DEF sf_dcx_decompress_from_buffer, sf_xalloc, Refused
    <3>5. x.m = M2 /\ x.p = t + 1
      BY <3>4 DEF Given
    <3>6. o = Given(sf_xfree(M2, t), t + 1)
      BY <3>1, <3>2, <3>5
    <3>7. M2 = Mem(M.heap \cup {t, t + 1}, (t + 1) + 1, m.bad, m.custom, m.lost)
      <4>1. t + 1 .. (t + 1) + 1 - 1 = {t + 1}
        BY <1>3
      <4>2. (M.heap \cup {t}) \cup {t + 1} = M.heap \cup {t, t + 1}
        OBVIOUS
      <4> QED BY <3>3, <4>1, <4>2 DEF Taken
    <3> HIDE DEF M2
    <3>8. M2.heap = M.heap \cup {t, t + 1} /\ M2.next = (t + 1) + 1 /\ M2.bad = m.bad /\ M2.custom = m.custom
          /\ M2.lost = m.lost
      BY <3>7 DEF Mem
    <3>9. sf_xfree(M2, t) = Mem(M.heap \cup {t + 1}, (t + 1) + 1, m.bad, m.custom, m.lost)
      <4>1. M2.heap \ {t} = M.heap \cup {t + 1} /\ t \in M2.heap \cup {0}
        BY <1>3, <3>8
      <4> QED BY <3>8, <4>1 DEF sf_xfree
    <3>10. d = t + 1 /\ m.next + Turns(form, k + 1) = (t + 1) + 1
      BY <1>3, <2>5 DEF DataAt, Turns
    <3>11. {d} \ {0} = {t + 1}
      BY <1>3, <3>10
    <3>12. o.m = sf_xfree(M2, t) /\ o.p = t + 1
      BY <3>6 DEF Given
    <3>13. Extracted(m, form, k + 1) = Mem(M.heap \cup {t + 1}, (t + 1) + 1, m.bad, m.custom, m.lost)
      BY <1>4, <3>10, <3>11
    <3> QED BY <3>9, <3>10, <3>12, <3>13
  <2> QED BY <1>9, <2>4, <2>5 DEF Forms
<1> QED BY <1>8, <1>9

=============================================================================
