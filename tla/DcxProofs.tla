----------------------------- MODULE DcxProofs ------------------------------
(***************************************************************************)
(* Theorems about the DCX layer, for every set of compression infos whose  *)
(* fields have the shape their type asks for, every set of bodies, any     *)
(* number of containers on top of one another and any depth limit.         *)
(***************************************************************************)
EXTENDS Dcx, SequenceTheorems, TLAPS

EdgeTypes == {"DCP_EDGE", "DCX_EDGE"}
Containers == DcpTypes \cup DcxTypes \cup {"ZLIB"}
Headers == [format : Containers, w04 : Int, w10 : Int, w14 : Int, b30 : Int, w38 : Int]
LayerSet == [header : Headers, state : {"good", "short", "damaged"}]
Docs == [layers : Seq(LayerSet), body : Bodies]

\* Taking the outermost container off.
LEMMA Peel ==
    ASSUME NEW d \in Docs, d.layers # <<>>
    PROVE  /\ Head(d.layers) \in LayerSet /\ Tail(d.layers) \in Seq(LayerSet)
           /\ Len(Tail(d.layers)) = Len(d.layers) - 1 /\ Len(d.layers) \in Nat \ {0}
           /\ Doc(Tail(d.layers), d.body) \in Docs
           /\ sniff(d) = Head(d.layers).header.format /\ sniff(d) \in Containers
<1>1. d.layers \in Seq(LayerSet) /\ d.body \in Bodies
  BY DEF Docs
<1>2. Head(d.layers) \in LayerSet /\ Tail(d.layers) \in Seq(LayerSet)
  BY <1>1
<1>3. Len(Tail(d.layers)) = Len(d.layers) - 1 /\ Len(d.layers) \in Nat \ {0}
  BY <1>1
<1>4. Doc(Tail(d.layers), d.body) \in Docs
  BY <1>1, <1>2 DEF Doc, Docs
<1>5. sniff(d) = Head(d.layers).header.format
  BY DEF sniff
<1>6. Head(d.layers).header.format \in Containers
  BY <1>2 DEF LayerSet, Headers
<1> QED
  BY <1>2, <1>3, <1>4, <1>5, <1>6

\* Putting a container on.
LEMMA Cover ==
    ASSUME NEW d \in Docs, NEW h \in Headers
    PROVE  LET c == Doc(<<Layer(h, "good")>> \o d.layers, d.body)
           IN  /\ c \in Docs /\ Len(c.layers) = Len(d.layers) + 1 /\ c.layers # <<>>
               /\ Head(c.layers) = Layer(h, "good") /\ Tail(c.layers) = d.layers
               /\ c.body = d.body
<1> DEFINE s == d.layers
           x == Layer(h, "good")
           all == <<x>> \o s
<1>1. s \in Seq(LayerSet) /\ d.body \in Bodies
  BY DEF Docs
<1>2. x \in LayerSet
  BY DEF Layer, LayerSet
<1> HIDE DEF s, x
<1>3. <<x>> \in Seq(LayerSet)
  BY <1>2
<1>4. all \in Seq(LayerSet) /\ Len(all) = Len(s) + 1
  BY <1>1, <1>3
<1>5. all # <<>> /\ Head(all) = x
  BY <1>1, <1>2, <1>3, <1>4
<1>6. Tail(all) = s
  <2>1. Tail(all) \in Seq(LayerSet) /\ Len(Tail(all)) = Len(s)
    BY <1>1, <1>4, <1>5
  <2>2. \A i \in 1 .. Len(s) : Tail(all)[i] = s[i]
    BY <1>1, <1>2, <1>3, <1>4, <1>5
  <2> QED
    BY <1>1, <2>1, <2>2, SeqEqual
<1> HIDE DEF all
<1>7. Doc(all, d.body) \in Docs /\ Doc(all, d.body).layers = all /\ Doc(all, d.body).body = d.body
  BY <1>1, <1>4 DEF Doc, Docs
<1> QED
  BY <1>4, <1>5, <1>6, <1>7 DEF all, x, s
-----------------------------------------------------------------------------
\* The fields of a failure and of a success.
LEMMA OutcomeFields ==
    ASSUME NEW r, NEW d, NEW i
    PROVE  /\ Fail(r).r = r /\ Fail(r).live = 0 /\ Fail(r).out = NULL
           /\ [Fail(r) EXCEPT !.live = 1].r = r /\ [Fail(r) EXCEPT !.live = 1].live = 1
           /\ Done(d, i).r = "OK" /\ Done(d, i).live = 1
           /\ Done(d, i).out = d /\ Done(d, i).info = i
BY DEF Fail, Done

Refusals == {"OOM", "DECOMPRESS", "BAD_MAGIC", "TRUNCATED", "OODLE_NOT_FOUND"}

\* The ways a decoder may end that should give x and report i: only the EDGE
\* one leaves an allocation behind.
Ends(o, x, i, edge) ==
    \/ o = Done(x, i)
    \/ \E r \in Refusals : o = Fail(r)
    \/ edge /\ \E r \in {"BAD_MAGIC", "TRUNCATED"} : o = [Fail(r) EXCEPT !.live = 1]

\* What the fields say in each of those cases.
LEMMA EndsFields ==
    ASSUME NEW o, NEW x, NEW i, NEW edge, Ends(o, x, i, edge)
    PROVE  /\ o.r = "OK" => o = Done(x, i) /\ o.live = 1 /\ o.out = x /\ o.info = i
           /\ o.r # "OK" => o.live \in {0, 1} /\ (o.live = 1 => edge) /\ o.r \in Refusals
<1>1. CASE o = Done(x, i)
  BY <1>1, OutcomeFields
<1>2. CASE \E r \in Refusals : o = Fail(r)
  <2>1. PICK r \in Refusals : o = Fail(r)
    BY <1>2
  <2>2. o.r = r /\ o.live = 0
    BY <2>1, OutcomeFields
  <2> QED
    BY <2>2 DEF Refusals
<1>3. CASE edge /\ \E r \in {"BAD_MAGIC", "TRUNCATED"} : o = [Fail(r) EXCEPT !.live = 1]
  <2>1. PICK r \in {"BAD_MAGIC", "TRUNCATED"} : o = [Fail(r) EXCEPT !.live = 1]
    BY <1>3
  <2>2. o.r = r /\ o.live = 1
    BY <2>1, OutcomeFields
  <2> QED
    BY <1>3, <2>2 DEF Refusals
<1> QED
  BY <1>1, <1>2, <1>3 DEF Ends

\* The decoders.
LEMMA CodecEnds ==
    ASSUME NEW x, NEW i, NEW good \in BOOLEAN, NEW edge, NEW o \in Codec(x, i, good)
    PROVE  Ends(o, x, i, edge) /\ (~good => o.r # "OK")
<1>1. \/ o = Fail("OOM") \/ o = Fail("DECOMPRESS")
      \/ good /\ o = Done(x, i)
  BY DEF Codec
<1>2. "OOM" \in Refusals /\ "DECOMPRESS" \in Refusals
  BY DEF Refusals
<1> QED
  BY <1>1, <1>2, OutcomeFields DEF Ends

\* The EDGE decoder, the only one that may leave a block behind: it frees
\* nothing when a chunk table is short or carries another magic.
LEMMA EdgeEnds ==
    ASSUME NEW x, NEW i, NEW good \in BOOLEAN, NEW o \in decompress_edge(x, i, good)
    PROVE  Ends(o, x, i, TRUE)
<1>1. \/ o = Done(x, i)
      \/ o \in {Fail("BAD_MAGIC"), Fail("OOM"), Fail("DECOMPRESS")}
      \/ o \in {[Fail(r) EXCEPT !.live = 1] : r \in {"BAD_MAGIC", "TRUNCATED"}}
  BY DEF decompress_edge, BadTables
<1>2. "OOM" \in Refusals /\ "DECOMPRESS" \in Refusals /\ "BAD_MAGIC" \in Refusals
  BY DEF Refusals
<1> QED
  BY <1>1, <1>2 DEF Ends

\* The KRAKEN decoder, which needs the Oodle library besides.
LEMMA KrakEnds ==
    ASSUME NEW x, NEW i, NEW good \in BOOLEAN, NEW edge, NEW o \in decompress_krak(x, i, good)
    PROVE  Ends(o, x, i, edge)
<1>1. o \in Codec(x, i, good) \/ o = Fail("OODLE_NOT_FOUND")
  BY DEF decompress_krak
<1>2. "OODLE_NOT_FOUND" \in Refusals
  BY DEF Refusals
<1> QED
  BY <1>1, <1>2, CodecEnds DEF Ends

\* sf_dcx_decompress_from_buffer on a document with a container.
LEMMA LayerOutcome ==
    ASSUME NEW d \in Docs, d.layers # <<>>, NEW o \in decompress_from_buffer(d)
    PROVE  Ends(o, Doc(Tail(d.layers), d.body), InfoOf(Head(d.layers).header), sniff(d) \in EdgeTypes)
<1> DEFINE top == Head(d.layers)
           h == top.header
           good == top.state = "good"
           x == Doc(Tail(d.layers), d.body)
           edge == sniff(d) \in EdgeTypes
<1>1. sniff(d) = h.format
  BY Peel
<1>2. CASE top.state = "short"
  <2>1. o \in decompress_short(h.format)
    BY <1>2 DEF decompress_from_buffer
  <2> HIDE DEF x, h
  <2>2. CASE h.format \in {"DCP_EDGE", "DCX_EDGE"}
    <3>1. o \in {Fail("OOM"), Fail("BAD_MAGIC")} \/ o \in BadTables
      BY <2>1, <2>2 DEF decompress_short
    <3>2. edge
      BY <1>1, <2>2 DEF EdgeTypes
    <3> QED
      BY <3>1, <3>2 DEF Ends, Refusals, BadTables, x, h
  <2>3. CASE h.format \notin {"DCP_EDGE", "DCX_EDGE"}
    <3>1. o \in {Fail("OOM"), Fail("DECOMPRESS"), Fail("TRUNCATED")}
      BY <2>1, <2>3 DEF decompress_short
    <3> QED
      BY <3>1 DEF Ends, Refusals
  <2> QED
    BY <2>2, <2>3
<1>3. CASE top.state # "short"
  <2>1. o \in CASE h.format \in {"DCP_EDGE", "DCX_EDGE"} -> decompress_edge(x, InfoOf(h), good)
                [] h.format = "DCX_KRAK" -> decompress_krak(x, InfoOf(h), good)
                [] OTHER -> Codec(x, InfoOf(h), good)
    BY <1>3 DEF decompress_from_buffer
  <2> HIDE DEF x, h, good
  <2>2. good \in BOOLEAN
    BY DEF good
  <2>3. CASE h.format \in {"DCP_EDGE", "DCX_EDGE"}
    <3>1. o \in decompress_edge(x, InfoOf(h), good)
      BY <2>1, <2>3
    <3>2. edge
      BY <1>1, <2>3 DEF EdgeTypes
    <3>3. Ends(o, x, InfoOf(h), TRUE)
      BY <2>2, <3>1, EdgeEnds
    <3> QED
      BY <3>2, <3>3 DEF Ends, x, h
  <2>4. CASE h.format = "DCX_KRAK"
    <3>1. o \in decompress_krak(x, InfoOf(h), good)
      BY <2>1, <2>4
    <3>2. Ends(o, x, InfoOf(h), edge)
      BY <2>2, <3>1, KrakEnds
    <3> QED
      BY <3>2 DEF x, h
  <2>5. CASE h.format \notin {"DCP_EDGE", "DCX_EDGE"} /\ h.format # "DCX_KRAK"
    <3>1. o \in Codec(x, InfoOf(h), good)
      BY <2>1, <2>5
    <3>2. Ends(o, x, InfoOf(h), edge)
      BY <2>2, <3>1, CodecEnds
    <3> QED
      BY <3>2 DEF x, h
  <2> QED
    BY <2>3, <2>4, <2>5
<1> QED
  BY <1>2, <1>3

\* sf_dcx_decompress_from_buffer on a document without one: only a body that
\* is itself a zlib stream is taken.
LEMMA BareOutcome ==
    ASSUME NEW d \in Docs, d.layers = <<>>, NEW o \in decompress_from_buffer(d)
    PROVE  /\ sniff(d) # "UNKNOWN" => Ends(o, d, Info("ZLIB", <<>>), FALSE)
           /\ sniff(d) = "UNKNOWN" => o = Fail("UNSUPPORTED_VERSION")
           /\ o.r = "OK" => d.body = "selfzlib"
<1>1. o \in CASE d.body = "zlibish"  -> Codec(d, Info("ZLIB", <<>>), FALSE)
              [] d.body = "selfzlib" -> Codec(d, Info("ZLIB", <<>>), TRUE)
              [] OTHER               -> {Fail("UNSUPPORTED_VERSION")}
  BY DEF decompress_from_buffer
<1>2. sniff(d) # "UNKNOWN" <=> d.body \in {"zlibish", "selfzlib"}
  BY DEF sniff
<1>3. CASE d.body = "zlibish"
  <2>1. o \in Codec(d, Info("ZLIB", <<>>), FALSE)
    BY <1>1, <1>3
  <2> QED
    BY <1>2, <1>3, <2>1, CodecEnds
<1>4. CASE d.body = "selfzlib"
  <2>1. o \in Codec(d, Info("ZLIB", <<>>), TRUE)
    BY <1>1, <1>4
  <2> QED
    BY <1>2, <1>4, <2>1, CodecEnds
<1>5. CASE d.body \notin {"zlibish", "selfzlib"}
  <2>1. o = Fail("UNSUPPORTED_VERSION")
    BY <1>1, <1>5
  <2>2. sniff(d) = "UNKNOWN"
    BY <1>2, <1>5
  <2>3. o.r # "OK"
    BY <2>1 DEF Fail
  <2> QED
    BY <2>1, <2>2, <2>3
<1> QED
  BY <1>3, <1>4, <1>5

\* What a decompression owes its caller: one allocation when it succeeds,
\* none when it fails, except for an EDGE container.
Accounted(d, o) == IF o.r = "OK" THEN o.live = 1
                   ELSE o.live \in {0, 1} /\ (o.live = 1 => sniff(d) \in EdgeTypes)

\* Everything later proofs need to know about sf_dcx_decompress_from_buffer.
LEMMA DecompressOutcome ==
    ASSUME NEW d \in Docs, NEW o \in decompress_from_buffer(d)
    PROVE  /\ Accounted(d, o)
           /\ o.r = "OK" => /\ o.out \in Docs /\ o.out.body = d.body
                            /\ o.info.type = sniff(d) /\ sniff(d) \in Containers
                            /\ d.layers = <<>> => o.out = d /\ d.body = "selfzlib"
                            /\ d.layers # <<>> => Len(o.out.layers) = Len(d.layers) - 1
           /\ o.r = "UNSUPPORTED_VERSION" => sniff(d) = "UNKNOWN"
<1>1. CASE d.layers # <<>>
  <2> DEFINE x == Doc(Tail(d.layers), d.body)
             i == InfoOf(Head(d.layers).header)
             edge == sniff(d) \in EdgeTypes
  <2>1. Ends(o, x, i, edge)
    BY <1>1, LayerOutcome
  <2>2. /\ x \in Docs /\ x.body = d.body /\ Len(x.layers) = Len(d.layers) - 1
        /\ sniff(d) \in Containers
    BY <1>1, Peel DEF Doc
  <2>3. i.type = sniff(d)
    <3>1. sniff(d) = Head(d.layers).header.format
      BY <1>1, Peel
    <3> QED
      BY <3>1 DEF InfoOf, Info
  <2> HIDE DEF x, i, edge
  <2>4. /\ o.r = "OK" => o.live = 1 /\ o.out = x /\ o.info = i
        /\ o.r # "OK" => o.live \in {0, 1} /\ (o.live = 1 => edge) /\ o.r \in Refusals
    BY <2>1, EndsFields
  <2>5. o.r # "UNSUPPORTED_VERSION"
    BY <2>4 DEF Refusals
  <2>6. Accounted(d, o)
    BY <2>4 DEF Accounted, edge
  <2> QED
    BY <1>1, <2>2, <2>3, <2>4, <2>5, <2>6
<1>2. CASE d.layers = <<>> /\ sniff(d) # "UNKNOWN"
  <2> DEFINE i == Info("ZLIB", <<>>)
             edge == FALSE
  <2>1. Ends(o, d, i, edge) /\ (o.r = "OK" => d.body = "selfzlib")
    BY <1>2, BareOutcome
  <2>2. i.type = "ZLIB" /\ sniff(d) = "ZLIB" /\ "ZLIB" \in Containers /\ ~edge
    BY <1>2 DEF sniff, Info, Containers
  <2> HIDE DEF i, edge
  <2>3. /\ o.r = "OK" => o.live = 1 /\ o.out = d /\ o.info = i
        /\ o.r # "OK" => o.live \in {0, 1} /\ (o.live = 1 => edge) /\ o.r \in Refusals
    BY <2>1, EndsFields
  <2>4. o.r # "UNSUPPORTED_VERSION"
    BY <2>3 DEF Refusals
  <2>5. Accounted(d, o)
    BY <2>2, <2>3 DEF Accounted
  <2> QED
    BY <1>2, <2>1, <2>2, <2>3, <2>4, <2>5
<1>3. CASE d.layers = <<>> /\ sniff(d) = "UNKNOWN"
  <2>1. o = Fail("UNSUPPORTED_VERSION")
    BY <1>3, BareOutcome
  <2>2. o.r # "OK" /\ o.live = 0
    BY <2>1 DEF Fail
  <2> QED
    BY <1>3, <2>2 DEF Accounted
<1> QED
  BY <1>1, <1>2, <1>3
-----------------------------------------------------------------------------
\* The fields of an info, by its type.
LEMMA InfoShape ==
    ASSUME NEW i \in Infos
    PROVE  /\ i = Info(i.type, i.fields) /\ i.type \in Types
           /\ i.type = "DCX_DFLT" => \A k \in 1 .. 5 : i.fields[k] \in Int
           /\ i.type \in {"DCX_KRAK", "DCX_ZSTD"} => i.fields[1] \in Int
           /\ i.type \notin {"DCX_DFLT", "DCX_KRAK", "DCX_ZSTD"} => i.fields = <<>>
<1> DEFINE f == i.fields
<1>1. i = Info(i.type, f) /\ i.type \in Types /\ f \in Seq(Int) /\ Len(f) = FieldCount(i.type)
  BY InfoAssumption DEF InfoOK
<1> HIDE DEF f
<1>2. CASE i.type = "DCX_DFLT"
  <2>1. Len(f) = 5
    BY <1>1, <1>2 DEF FieldCount
  <2> QED
    BY <1>1, <1>2, <2>1 DEF f
<1>3. CASE i.type \in {"DCX_KRAK", "DCX_ZSTD"}
  <2>1. Len(f) = 1
    BY <1>1, <1>3 DEF FieldCount
  <2> QED
    BY <1>1, <1>3, <2>1 DEF f
<1>4. CASE i.type \notin {"DCX_DFLT", "DCX_KRAK", "DCX_ZSTD"}
  <2>1. Len(f) = 0
    BY <1>1, <1>4 DEF FieldCount
  <2>2. f = <<>>
    BY <1>1, <2>1
  <2> QED
    BY <1>1, <1>4, <2>2 DEF f
<1> QED
  BY <1>2, <1>3, <1>4

Fielded == {"DCX_DFLT", "DCX_KRAK", "DCX_ZSTD"}

\* What is stored in the header: the one the type writes.
HeaderOf(i) == IF i.type \in Fielded THEN wrap_dcx_write_header(Stored(i)) ELSE PlainHeader(i.type)

\* The header that is written carries its info: reading it back gives what
\* the info struct stores, each of the five words included.
LEMMA HeaderCarriesInfo ==
    ASSUME NEW i \in Infos, i.type \in Containers
    PROVE  /\ HeaderOf(i) \in Headers /\ HeaderOf(i).format = i.type
           /\ InfoOf(HeaderOf(i)) = Stored(i)
<1> DEFINE f == i.fields
           h == HeaderOf(i)
<1>1. CASE i.type = "DCX_DFLT"
  <2> DEFINE a == U8(f[4])
             b == U8(f[5])
  <2>1. f[1] \in Int /\ f[2] \in Int /\ f[3] \in Int /\ f[4] \in Int /\ f[5] \in Int
    BY <1>1, InfoShape
  <2>2. a \in 0 .. 255 /\ b \in 0 .. 255
    BY <2>1 DEF U8
  <2>3. (b * Byte3) \div Byte3 = b /\ b * Byte3 \in Int
    BY <2>2 DEF Byte3
  <2> HIDE DEF a, b
  <2>4. Stored(i) = Info("DCX_DFLT", <<f[1], f[2], f[3], a, b>>)
    BY <1>1 DEF Stored, a, b
  <2>5. h = [format |-> "DCX_DFLT", w04 |-> f[1], w10 |-> f[2], w14 |-> f[3], b30 |-> a,
             w38 |-> b * Byte3]
    <3>1. h = wrap_dcx_write_header(Info("DCX_DFLT", <<f[1], f[2], f[3], a, b>>))
      BY <1>1, <2>4 DEF HeaderOf, Fielded
    <3> HIDE DEF h
    <3> QED
      BY <3>1 DEF wrap_dcx_write_header, Info
  <2> HIDE DEF f, h
  <2>6. h \in Headers /\ h.format = i.type
    BY <1>1, <2>1, <2>2, <2>3, <2>5 DEF Headers, Containers
  <2>7. InfoOf(h) = Info("DCX_DFLT", <<h.w04, h.w10, h.w14, h.b30, h.w38 \div Byte3>>)
    BY <1>1, <2>6 DEF InfoOf
  <2>8. InfoOf(h) = Stored(i)
    BY <2>3, <2>4, <2>5, <2>7
  <2> QED
    BY <2>6, <2>8 DEF h
<1>2. CASE i.type \in {"DCX_KRAK", "DCX_ZSTD"}
  <2> DEFINE a == U8(f[1])
  <2>1. f[1] \in Int
    BY <1>2, InfoShape
  <2>2. a \in 0 .. 255
    BY <2>1 DEF U8
  <2> HIDE DEF a
  <2>3. Stored(i) = Info(i.type, <<a>>)
    BY <1>2 DEF Stored, a
  <2>4. h = [format |-> i.type, w04 |-> 69632, w10 |-> 68, w14 |-> 76, b30 |-> a, w38 |-> 0]
    <3>1. h = wrap_dcx_write_header(Info(i.type, <<a>>))
      BY <1>2, <2>3 DEF HeaderOf, Fielded
    <3> HIDE DEF h
    <3> QED
      BY <1>2, <3>1 DEF wrap_dcx_write_header, Info
  <2> HIDE DEF f, h
  <2>5. h \in Headers /\ h.format = i.type
    BY <2>2, <2>4 DEF Headers
  <2>6. InfoOf(h) = Info(i.type, <<h.b30>>)
    BY <1>2, <2>5 DEF InfoOf
  <2>7. InfoOf(h) = Stored(i)
    BY <2>3, <2>4, <2>6
  <2> QED
    BY <2>5, <2>7 DEF h
<1>3. CASE i.type \notin Fielded
  <2>1. i = Info(i.type, <<>>) /\ Stored(i) = i
    <3>1. i.fields = <<>> /\ i = Info(i.type, i.fields)
      BY <1>3, InfoShape DEF Fielded
    <3>2. Stored(i) = i
      BY <1>3 DEF Stored, Fielded
    <3> QED
      BY <3>1, <3>2
  <2>2. h = [format |-> i.type, w04 |-> 0, w10 |-> 0, w14 |-> 0, b30 |-> 0, w38 |-> 0]
    BY <1>3 DEF HeaderOf, PlainHeader
  <2> HIDE DEF h
  <2>3. h \in Headers /\ h.format = i.type
    BY <2>2 DEF Headers
  <2>4. InfoOf(h) = Info(i.type, <<>>)
    BY <1>3, <2>3 DEF InfoOf, Fielded
  <2> QED
    BY <2>1, <2>3, <2>4 DEF h
<1> QED
  BY <1>1, <1>2, <1>3 DEF Fielded

\* sf_dcx_compress_to_buffer: the document with one container more, the
\* document itself for NONE, or nothing allocated.
LEMMA CompressOutcome ==
    ASSUME NEW d \in Docs, NEW i \in Infos, NEW o \in compress_to_buffer(d, i)
    PROVE  \/ /\ i.type \in Containers
              /\ o = Done(Doc(<<Layer(HeaderOf(i), "good")>> \o d.layers, d.body), Stored(i))
           \/ i.type = "NONE" /\ o = Done(d, Stored(i))
           \/ o.r # "OK" /\ o.live = 0
<1> DEFINE s == Stored(i)
           wrapped(h) == Done(Doc(<<Layer(h, "good")>> \o d.layers, d.body), s)
           all == CASE i.type = "UNKNOWN" -> {Fail("INVALID_ARG")}
                    [] i.type = "NONE"    -> {Fail("OOM"), Done(d, s)}
                    [] i.type \in {"DCP_EDGE", "DCX_EDGE"} -> {Fail("OOM"), wrapped(PlainHeader(i.type))}
                    [] i.type \in {"ZLIB", "DCP_DFLT"} ->
                          {Fail("OOM"), Fail("DECOMPRESS"), wrapped(PlainHeader(i.type))}
                    [] i.type = "DCX_KRAK" ->
                          {Fail("OODLE_NOT_FOUND"), Fail("OOM"), Fail("DECOMPRESS"),
                           wrapped(wrap_dcx_write_header(s))}
                    [] i.type \in {"DCX_DFLT", "DCX_ZSTD"} ->
                          {Fail("OOM"), Fail("DECOMPRESS"), wrapped(wrap_dcx_write_header(s))}
<1>1. o \in all
  BY DEF compress_to_buffer
<1>2. i.type \in Types
  BY InfoShape
<1>3. \A r : r \in {"INVALID_ARG", "OOM", "DECOMPRESS", "OODLE_NOT_FOUND"} =>
          Fail(r).r # "OK" /\ Fail(r).live = 0
  BY OutcomeFields
<1> HIDE DEF s, wrapped
<1>4. CASE i.type = "UNKNOWN"
  <2>1. o = Fail("INVALID_ARG")
    BY <1>1, <1>4
  <2> QED
    BY <1>3, <2>1
<1>5. CASE i.type = "NONE"
  <2>1. o = Fail("OOM") \/ o = Done(d, s)
    BY <1>1, <1>5
  <2> QED
    BY <1>3, <1>5, <2>1 DEF s
<1>6. CASE i.type \in {"DCP_EDGE", "DCX_EDGE", "ZLIB", "DCP_DFLT"}
  <2>1. o = Fail("OOM") \/ o = Fail("DECOMPRESS") \/ o = wrapped(PlainHeader(i.type))
    <3>1. CASE i.type \in {"DCP_EDGE", "DCX_EDGE"}
      BY <1>1, <3>1
    <3>2. CASE i.type \in {"ZLIB", "DCP_DFLT"}
      BY <1>1, <3>2
    <3> QED
      BY <1>6, <3>1, <3>2
  <2>2. HeaderOf(i) = PlainHeader(i.type) /\ i.type \in Containers
    BY <1>6 DEF HeaderOf, Fielded, Containers, DcpTypes, DcxTypes
  <2> QED
    BY <1>3, <2>1, <2>2 DEF s, wrapped
<1>7. CASE i.type \in Fielded
  <2>1. \/ o = Fail("OODLE_NOT_FOUND") \/ o = Fail("OOM") \/ o = Fail("DECOMPRESS")
        \/ o = wrapped(wrap_dcx_write_header(s))
    <3>1. CASE i.type = "DCX_KRAK"
      BY <1>1, <3>1
    <3>2. CASE i.type \in {"DCX_DFLT", "DCX_ZSTD"}
      BY <1>1, <3>2
    <3> QED
      BY <1>7, <3>1, <3>2 DEF Fielded
  <2>2. HeaderOf(i) = wrap_dcx_write_header(s) /\ i.type \in Containers
    BY <1>7 DEF HeaderOf, Fielded, Containers, DcxTypes, s
  <2> QED
    BY <1>3, <2>1, <2>2 DEF s, wrapped
<1> QED
  BY <1>2, <1>4, <1>5, <1>6, <1>7 DEF Types, DcpTypes, DcxTypes, Fielded

\* A container in good state comes off, unless memory or the Oodle DLL is
\* missing.
LEMMA GoodOutcome ==
    ASSUME NEW d \in Docs, d.layers # <<>>, Head(d.layers).state = "good",
           NEW o \in decompress_from_buffer(d)
    PROVE  \/ o = Done(Doc(Tail(d.layers), d.body), InfoOf(Head(d.layers).header))
           \/ o.r \in Transient
<1> DEFINE h == Head(d.layers).header
           x == Doc(Tail(d.layers), d.body)
           good == Head(d.layers).state = "good"
<1>1. o \in CASE h.format \in {"DCP_EDGE", "DCX_EDGE"} -> decompress_edge(x, InfoOf(h), good)
              [] h.format = "DCX_KRAK" -> decompress_krak(x, InfoOf(h), good)
              [] OTHER -> Codec(x, InfoOf(h), good)
  <2>1. Head(d.layers).state # "short"
    OBVIOUS
  <2> QED
    BY <2>1 DEF decompress_from_buffer
<1>2. good
  OBVIOUS
<1> HIDE DEF h, x, good
<1>3. \/ o \in decompress_edge(x, InfoOf(h), good)
      \/ o \in decompress_krak(x, InfoOf(h), good)
      \/ o \in Codec(x, InfoOf(h), good)
  BY <1>1
<1>4. o = Done(x, InfoOf(h)) \/ o = Fail("OOM") \/ o = Fail("OODLE_NOT_FOUND")
  BY <1>2, <1>3 DEF decompress_edge, decompress_krak, Codec
<1>5. Fail("OOM").r \in Transient /\ Fail("OODLE_NOT_FOUND").r \in Transient
  BY OutcomeFields DEF Transient
<1> QED
  BY <1>4, <1>5 DEF h, x

\* The round trip of one container, for every document.
LEMMA RoundTrip == doc \in Docs => RoundTrips
<1> SUFFICES ASSUME doc \in Docs, NEW i \in Infos, i.type \notin {"NONE", "UNKNOWN"},
                    NEW c \in compress_to_buffer(doc, i), c.r = "OK",
                    NEW d \in decompress_from_buffer(c.out)
             PROVE  d.r \in Transient \/ (d.r = "OK" /\ d.out = doc /\ d.info = Stored(i))
  BY DEF RoundTrips
<1> DEFINE h == HeaderOf(i)
           whole == Doc(<<Layer(h, "good")>> \o doc.layers, doc.body)
<1>1. i.type \in Containers /\ c = Done(whole, Stored(i))
  BY CompressOutcome
<1>2. h \in Headers /\ InfoOf(h) = Stored(i)
  BY <1>1, HeaderCarriesInfo
<1> HIDE DEF h
<1>3. /\ whole \in Docs /\ whole.layers # <<>> /\ whole.body = doc.body
      /\ Head(whole.layers) = Layer(h, "good") /\ Tail(whole.layers) = doc.layers
  BY <1>2, Cover
<1> HIDE DEF whole
<1>4. c.out = whole
  BY <1>1, OutcomeFields
<1>5. Head(whole.layers).state = "good" /\ Head(whole.layers).header = h
  BY <1>3 DEF Layer
<1>6. \/ d = Done(Doc(Tail(whole.layers), whole.body), InfoOf(Head(whole.layers).header))
      \/ d.r \in Transient
  BY <1>3, <1>4, <1>5, GoodOutcome
<1>7. Doc(doc.layers, doc.body) = doc
  BY DEF Doc, Docs
<1>8. d = Done(doc, Stored(i)) \/ d.r \in Transient
  BY <1>2, <1>3, <1>5, <1>6, <1>7
<1> QED
  BY <1>8, OutcomeFields
-----------------------------------------------------------------------------
Shape == /\ doc \in Docs /\ Len(doc.layers) <= MaxLayers
         /\ pc \in {"idle", "unwrap"} /\ (pc = "idle" => Idle)
         /\ depth \in 0 .. MaxDepth /\ tmp \in BOOLEAN
         /\ live \in Nat /\ edge_failed \in BOOLEAN

\* While unwrap runs, what it looks at is the caller's document with depth
\* containers taken off; a body that decompresses to itself breaks the count.
Peeling == pc = "unwrap" =>
              /\ cur \in Docs /\ cur.body = doc.body
              /\ doc.body = "selfzlib" \/ Len(cur.layers) + depth = Len(doc.layers)

IndInv == Shape /\ Peeling /\ OnlyEdgeLeaks /\ ReaderOwnership

\* The type invariant is part of the shape.
LEMMA ShapeTypes == Shape => TypeOK
<1> SUFFICES ASSUME Shape PROVE TypeOK
  OBVIOUS
<1>1. doc.body \in Bodies /\ doc.layers \in Seq(LayerSet)
  BY DEF Shape, Docs
<1>2. ASSUME NEW k \in 1 .. Len(doc.layers)
      PROVE  doc.layers[k].header.format \in Types \ {"NONE", "UNKNOWN"}
  <2>1. doc.layers[k] \in LayerSet
    BY <1>1
  <2>2. doc.layers[k].header.format \in Containers
    BY <2>1 DEF LayerSet, Headers
  <2> QED
    BY <2>2 DEF Containers, Types, DcpTypes, DcxTypes
<1> QED
  BY <1>1, <1>2 DEF Shape, TypeOK

\* The headers the caller's documents start with.
LEMMA StartHeaders ==
    /\ \A t \in Containers : PlainHeader(t) \in Headers
    /\ \A t \in Fielded : wrap_dcx_write_header(default_info_from_type(t)) \in Headers
<1>1. ASSUME NEW t \in Containers PROVE PlainHeader(t) \in Headers
  BY DEF PlainHeader, Headers
<1>2. ASSUME NEW t \in Fielded PROVE wrap_dcx_write_header(default_info_from_type(t)) \in Headers
  <2>1. CASE t = "DCX_DFLT"
    <3>1. default_info_from_type(t) = Info("DCX_DFLT", <<69632, 68, 76, 9, 0>>)
      BY <2>1 DEF default_info_from_type, dflt_preset
    <3> QED
      BY <3>1 DEF wrap_dcx_write_header, Info, Headers, Containers, DcxTypes, Byte3
  <2>2. CASE t = "DCX_KRAK"
    <3>1. default_info_from_type(t) = Info("DCX_KRAK", <<6>>)
      BY <2>2 DEF default_info_from_type, krak_preset
    <3> QED
      BY <3>1 DEF wrap_dcx_write_header, Info, Headers, Containers, DcxTypes
  <2>3. CASE t = "DCX_ZSTD"
    <3>1. default_info_from_type(t) = Info("DCX_ZSTD", <<15>>)
      BY <2>3 DEF default_info_from_type
    <3> QED
      BY <3>1 DEF wrap_dcx_write_header, Info, Headers, Containers, DcxTypes
  <2> QED
    BY <2>1, <2>2, <2>3 DEF Fielded
<1> QED
  BY <1>1, <1>2

\* The initial states.
LEMMA InitHolds == Init => IndInv
<1> SUFFICES ASSUME Init PROVE IndInv
  OBVIOUS
<1>1. PICK l \in {<<>>} \cup {<<x>> : x \in Layers}, b \in Bodies : doc = Doc(l, b)
  BY DEF Init
<1>2. Layers \subseteq LayerSet
  <2> SUFFICES ASSUME NEW x \in Layers PROVE x \in LayerSet
    OBVIOUS
  <2>1. \/ \E t \in {"ZLIB"} \cup DcpTypes \cup {"DCX_EDGE"}, s \in {"good", "short", "damaged"} :
              x = Layer(PlainHeader(t), s)
        \/ \E t \in DcxTypes \ {"DCX_EDGE"}, s \in {"good", "short", "damaged"} :
              x = Layer(wrap_dcx_write_header(default_info_from_type(t)), s)
    BY DEF Layers
  <2>2. /\ {"ZLIB"} \cup DcpTypes \cup {"DCX_EDGE"} \subseteq Containers
        /\ DcxTypes \ {"DCX_EDGE"} \subseteq Fielded
    BY DEF Containers, Fielded, DcxTypes, DcpTypes
  <2>3. PICK h \in Headers, s \in {"good", "short", "damaged"} : x = Layer(h, s)
    BY <2>1, <2>2, StartHeaders
  <2> QED
    BY <2>3 DEF Layer, LayerSet
<1>3. l \in Seq(LayerSet) /\ Len(l) <= 1
  <2>1. CASE l = <<>>
    BY <2>1
  <2>2. CASE \E x \in Layers : l = <<x>>
    BY <1>2, <2>2
  <2> QED
    BY <1>1, <2>1, <2>2
<1>4. doc \in Docs /\ Len(doc.layers) <= MaxLayers
  BY <1>1, <1>3, DepthAssumption DEF Doc, Docs
<1>5. Shape
  <2>1. pc = "idle" /\ Idle /\ live = 0 /\ edge_failed = FALSE /\ depth = 0 /\ tmp = FALSE
    BY DEF Init, Idle
  <2>2. live \in Nat /\ depth \in 0 .. MaxDepth
    BY <2>1, DepthAssumption
  <2>3. edge_failed \in BOOLEAN /\ tmp \in BOOLEAN
    BY <2>1
  <2> QED
    BY <1>4, <2>1, <2>2, <2>3 DEF Shape
<1>6. OnlyEdgeLeaks
  BY DEF Init, Idle, OnlyEdgeLeaks, Owned
<1>7. ReaderOwnership
  BY DEF Init, ReaderOwnership
<1>8. Peeling
  BY DEF Init, Peeling
<1> QED
  BY <1>5, <1>6, <1>7, <1>8 DEF IndInv

\* The ledger of a call that returns: what it leaves live is what was live
\* before it, less its own buffer, plus what an EDGE failure drops.
LEMMA Ledger ==
    ASSUME Shape, OnlyEdgeLeaks, NEW d, NEW o, Accounted(d, o), EdgeFails(d, o), tmp' = FALSE,
           live' = live + o.live - Owned - (IF o.r = "OK" THEN 1 ELSE 0)
    PROVE  OnlyEdgeLeaks' /\ live' \in Nat /\ edge_failed' \in BOOLEAN
<1>1. live \in Nat /\ Owned \in {0, 1} /\ live >= Owned /\ Owned' = 0 /\ edge_failed \in BOOLEAN
  BY DEF Shape, OnlyEdgeLeaks, Owned
<1>2. edge_failed' \in BOOLEAN /\ (edge_failed => edge_failed')
  BY <1>1 DEF EdgeFails
<1>3. CASE o.r = "OK"
  <2>1. live' = live - Owned
    BY <1>1, <1>3 DEF Accounted
  <2> QED
    BY <1>1, <1>2, <2>1 DEF OnlyEdgeLeaks
<1>4. CASE o.r # "OK"
  <2>1. live' = live + o.live - Owned /\ o.live \in {0, 1}
    BY <1>1, <1>4 DEF Accounted
  <2>2. o.live = 1 => edge_failed'
    BY <1>4 DEF Accounted, EdgeFails, EdgeTypes
  <2>3. live' \in Nat
    BY <1>1, <2>1
  <2>4. ~edge_failed' => live' = 0
    BY <1>1, <1>2, <2>1, <2>2 DEF OnlyEdgeLeaks
  <2> QED
    BY <1>1, <1>2, <2>3, <2>4 DEF OnlyEdgeLeaks
<1> QED
  BY <1>3, <1>4

\* Compressing.
LEMMA CompressKeeps == ASSUME IndInv, NEW i \in Infos, Compress(i) PROVE IndInv'
<1>1. /\ pc = "idle" /\ Len(doc.layers) < MaxLayers
      /\ UNCHANGED <<pc, cur, depth, tmp, edge_failed>>
  BY DEF Compress
<1>2. PICK o \in compress_to_buffer(doc, i) :
          /\ last' = <<"compress", i, o>>
          /\ live' = live + o.live - (IF o.r = "OK" THEN 1 ELSE 0)
          /\ doc' = IF o.r = "OK" THEN o.out ELSE doc
  BY DEF Compress, Returns
<1>3. Shape /\ doc \in Docs /\ live \in Nat /\ Len(doc.layers) \in Nat /\ MaxLayers \in Nat
  BY DepthAssumption DEF IndInv, Shape, Docs
<1>4. live' = live /\ doc' \in Docs /\ Len(doc'.layers) <= MaxLayers
  <2>1. CASE /\ i.type \in Containers
             /\ o = Done(Doc(<<Layer(HeaderOf(i), "good")>> \o doc.layers, doc.body), Stored(i))
    <3> DEFINE whole == Doc(<<Layer(HeaderOf(i), "good")>> \o doc.layers, doc.body)
    <3>1. HeaderOf(i) \in Headers
      BY <2>1, HeaderCarriesInfo
    <3>2. whole \in Docs /\ Len(whole.layers) = Len(doc.layers) + 1
      BY <1>3, <3>1, Cover
    <3>3. o = Done(whole, Stored(i))
      BY <2>1
    <3> HIDE DEF whole
    <3>4. o.r = "OK" /\ o.live = 1 /\ o.out = whole
      BY <3>3, OutcomeFields
    <3>5. live' = live /\ doc' = whole
      BY <1>2, <1>3, <3>4
    <3> QED
      BY <1>1, <1>3, <3>2, <3>5
  <2>2. CASE o = Done(doc, Stored(i))
    <3>1. o.r = "OK" /\ o.live = 1 /\ o.out = doc
      BY <2>2, OutcomeFields
    <3>2. live' = live /\ doc' = doc
      BY <1>2, <1>3, <3>1
    <3> QED
      BY <1>1, <1>3, <3>2
  <2>3. CASE o.r # "OK" /\ o.live = 0
    <3>1. live' = live /\ doc' = doc
      BY <1>2, <1>3, <2>3
    <3> QED
      BY <1>1, <1>3, <3>1
  <2> QED
    BY <1>3, <2>1, <2>2, <2>3, CompressOutcome
<1>5. Shape'
  BY <1>1, <1>3, <1>4 DEF Shape, Idle
<1>6. OnlyEdgeLeaks'
  BY <1>1, <1>4 DEF IndInv, OnlyEdgeLeaks, Owned
<1>7. ReaderOwnership'
  BY <1>2 DEF ReaderOwnership
<1>8. Peeling'
  BY <1>1 DEF Peeling
<1> QED
  BY <1>5, <1>6, <1>7, <1>8 DEF IndInv

\* Decompressing one container.
LEMMA DecompressKeeps == ASSUME IndInv, Decompress PROVE IndInv'
<1>1. pc = "idle" /\ UNCHANGED <<pc, cur, depth, tmp>>
  BY DEF Decompress
<1>2. PICK o \in decompress_from_buffer(doc) :
          /\ last' = <<"decompress", NoInfo, o>>
          /\ live' = live + o.live - (IF o.r = "OK" THEN 1 ELSE 0)
          /\ EdgeFails(doc, o)
          /\ doc' = IF o.r = "OK" THEN o.out ELSE doc
  BY DEF Decompress, Returns
<1>3. Shape /\ doc \in Docs /\ live \in Nat /\ Len(doc.layers) \in Nat /\ tmp = FALSE
  BY <1>1 DEF IndInv, Shape, Docs, Idle
<1>4. Accounted(doc, o)
  BY <1>2, <1>3, DecompressOutcome
<1>5. live' = live + o.live - Owned - (IF o.r = "OK" THEN 1 ELSE 0)
  <2>1. Owned = 0 /\ o.live \in {0, 1}
    BY <1>3, <1>4 DEF Owned, Accounted
  <2> QED
    BY <1>2, <1>3, <2>1
<1>6. OnlyEdgeLeaks' /\ live' \in Nat /\ edge_failed' \in BOOLEAN
  BY <1>1, <1>2, <1>3, <1>4, <1>5, Ledger DEF IndInv
<1>7. doc' \in Docs /\ Len(doc'.layers) <= MaxLayers
  <2>1. CASE o.r = "OK"
    <3>1. /\ doc' \in Docs /\ (doc.layers = <<>> => doc' = doc)
          /\ doc.layers # <<>> => Len(doc'.layers) = Len(doc.layers) - 1
      BY <1>2, <1>3, <2>1, DecompressOutcome
    <3> QED
      BY <1>3, <3>1, DepthAssumption DEF Shape
  <2>2. CASE o.r # "OK"
    BY <1>2, <1>3, <2>2 DEF Shape
  <2> QED
    BY <2>1, <2>2
<1>8. Shape'
  BY <1>1, <1>3, <1>6, <1>7 DEF Shape, Idle
<1>9. ReaderOwnership'
  BY <1>2 DEF ReaderOwnership
<1>10. Peeling'
  BY <1>1 DEF Peeling
<1> QED
  BY <1>6, <1>8, <1>9, <1>10 DEF IndInv

\* Entering unwrap.
LEMMA UnwrapStartKeeps == ASSUME IndInv, UnwrapStart PROVE IndInv'
<1>1. /\ pc = "idle" /\ pc' = "unwrap" /\ cur' = doc /\ depth' = 0 /\ tmp' = FALSE
      /\ last' = <<"unwrap_called", NoInfo, Fail("OK")>>
      /\ UNCHANGED <<doc, live, edge_failed>>
  BY DEF UnwrapStart
<1>2. Shape /\ tmp = FALSE /\ Len(doc.layers) \in Nat
  BY <1>1 DEF IndInv, Shape, Docs, Idle
<1>3. Shape'
  <2>1. tmp' \in BOOLEAN /\ depth' = 0
    BY <1>1
  <2>2. depth' \in 0 .. MaxDepth
    BY <2>1, DepthAssumption
  <2> QED
    BY <1>1, <1>2, <2>1, <2>2 DEF Shape
<1>4. Peeling'
  BY <1>1, <1>2 DEF Peeling, Shape
<1>5. OnlyEdgeLeaks'
  BY <1>1, <1>2 DEF IndInv, OnlyEdgeLeaks, Owned
<1>6. ReaderOwnership'
  BY <1>1 DEF ReaderOwnership
<1> QED
  BY <1>3, <1>4, <1>5, <1>6 DEF IndInv

\* Leaving unwrap, with a result that is the document taken apart.
LEMMA UnwrapReturnsKeeps ==
    ASSUME IndInv, NEW o, UnwrapReturns(o), Accounted(cur, o),
           o.r = "OK" => o.out \in Docs /\ Len(o.out.layers) <= MaxLayers
    PROVE  IndInv'
<1>1. /\ pc' = "idle" /\ cur' = NULL /\ depth' = 0 /\ tmp' = FALSE
      /\ last' = <<"unwrap", NoInfo, o>>
      /\ doc' = IF o.r = "OK" THEN o.out ELSE doc
      /\ live' = live + o.live - Owned - (IF o.r = "OK" THEN 1 ELSE 0)
      /\ EdgeFails(cur, o)
  BY DEF UnwrapReturns
<1>2. Shape /\ OnlyEdgeLeaks
  BY DEF IndInv
<1>3. OnlyEdgeLeaks' /\ live' \in Nat /\ edge_failed' \in BOOLEAN
  BY <1>1, <1>2, Ledger
<1>4. doc' \in Docs /\ Len(doc'.layers) <= MaxLayers
  BY <1>1, <1>2 DEF Shape
<1>5. Shape'
  <2>1. tmp' \in BOOLEAN /\ depth' = 0
    BY <1>1
  <2>2. depth' \in 0 .. MaxDepth
    BY <2>1, DepthAssumption
  <2> QED
    BY <1>1, <1>3, <1>4, <2>1, <2>2 DEF Shape, Idle
<1>6. ReaderOwnership' /\ Peeling'
  BY <1>1 DEF ReaderOwnership, Peeling
<1> QED
  BY <1>3, <1>5, <1>6 DEF IndInv

\* What unwrap looks at is never larger than the caller's document.
LEMMA CurrentDoc ==
    ASSUME IndInv, pc = "unwrap"
    PROVE  /\ cur \in Docs /\ cur.body = doc.body /\ Len(cur.layers) \in Nat
           /\ Len(doc.layers) \in Nat /\ depth \in Nat /\ doc \in Docs
           /\ doc.body = "selfzlib" \/ Len(cur.layers) + depth = Len(doc.layers)
BY DEF IndInv, Peeling, Shape, Docs

\* A document that sniffs as nothing has no container left.
LEMMA NothingLeft ==
    ASSUME NEW d \in Docs, sniff(d) = "UNKNOWN"
    PROVE  d.layers = <<>> /\ d = Doc(<<>>, d.body)
<1>1. "UNKNOWN" \notin Containers
  BY DEF Containers, DcpTypes, DcxTypes
<1>2. d.layers = <<>>
  BY <1>1, Peel
<1> QED
  BY <1>2 DEF Docs, Doc

\* Copying the innermost document out.
LEMMA UnwrapCopyKeeps == ASSUME IndInv, UnwrapCopy PROVE IndInv'
<1>1. pc = "unwrap" /\ sniff(cur) = "UNKNOWN"
  BY DEF UnwrapCopy
<1>2. PICK o \in {Done(cur, NoInfo), Fail("OOM")} : UnwrapReturns(o)
  BY DEF UnwrapCopy
<1>3. cur \in Docs /\ cur.layers = <<>>
  BY <1>1, CurrentDoc, NothingLeft
<1>4. Accounted(cur, o)
  BY <1>2, OutcomeFields DEF Accounted
<1>5. o.r = "OK" => o.out = cur
  BY <1>2, OutcomeFields
<1>6. o.r = "OK" => o.out \in Docs /\ Len(o.out.layers) <= MaxLayers
  BY <1>3, <1>5, DepthAssumption
<1> QED
  BY <1>2, <1>4, <1>6, UnwrapReturnsKeeps

\* Taking one more container off.
LEMMA UnwrapLayerKeeps == ASSUME IndInv, UnwrapLayer PROVE IndInv'
<1>1. pc = "unwrap" /\ depth < MaxDepth
  BY DEF UnwrapLayer
<1>2. PICK o \in decompress_from_buffer(cur) :
          IF o.r = "OK"
          THEN /\ cur' = o.out /\ depth' = depth + 1 /\ tmp' = TRUE
               /\ live' = live + 1 - Owned
               /\ UNCHANGED <<doc, pc, edge_failed, last>>
          ELSE UnwrapReturns(o)
  BY DEF UnwrapLayer
<1>3. /\ cur \in Docs /\ cur.body = doc.body /\ Len(cur.layers) \in Nat
      /\ Len(doc.layers) \in Nat /\ depth \in Nat
      /\ doc.body = "selfzlib" \/ Len(cur.layers) + depth = Len(doc.layers)
  BY <1>1, CurrentDoc
<1>4. CASE o.r = "OK"
  <2>1. /\ cur' = o.out /\ depth' = depth + 1 /\ tmp' = TRUE /\ live' = live + 1 - Owned
        /\ UNCHANGED <<doc, pc, edge_failed, last>>
    BY <1>2, <1>4
  <2>2. /\ cur' \in Docs /\ cur'.body = cur.body
        /\ cur.layers = <<>> => cur' = cur /\ cur.body = "selfzlib"
        /\ cur.layers # <<>> => Len(cur'.layers) = Len(cur.layers) - 1
    BY <1>3, <1>4, <2>1, DecompressOutcome
  <2>3. live \in Nat /\ Owned \in {0, 1} /\ live >= Owned /\ Owned' = 1
    BY <2>1 DEF IndInv, Shape, OnlyEdgeLeaks, Owned
  <2>4. live' \in Nat /\ live' >= 1 /\ (live = Owned => live' = 1)
    BY <2>1, <2>3
  <2>5. Shape'
    <3>1. depth' \in 0 .. MaxDepth /\ tmp' \in BOOLEAN
      BY <1>1, <1>3, <2>1, DepthAssumption
    <3> QED
      BY <1>1, <2>1, <2>4, <3>1 DEF IndInv, Shape
  <2>6. Peeling'
    <3>1. doc'.body = "selfzlib" \/ Len(cur'.layers) + depth' = Len(doc'.layers)
      <4>1. CASE doc.body = "selfzlib"
        BY <2>1, <4>1
      <4>2. CASE doc.body # "selfzlib"
        <5>1. cur.layers # <<>> /\ Len(cur.layers) + depth = Len(doc.layers)
          BY <1>3, <2>2, <4>2
        <5>2. Len(cur'.layers) = Len(cur.layers) - 1
          BY <2>2, <5>1
        <5>3. Len(cur'.layers) + depth' = Len(doc.layers)
          <6> DEFINE n == Len(cur.layers)
                     m == Len(doc.layers)
                     k == Len(cur'.layers)
          <6>1. n \in Nat /\ m \in Nat /\ depth \in Nat /\ n + depth = m /\ k = n - 1
            BY <1>3, <5>1, <5>2
          <6>2. depth' = depth + 1
            BY <2>1
          <6> HIDE DEF n, m, k
          <6>3. k + depth' = m
            BY <6>1, <6>2
          <6> QED
            BY <6>3 DEF k, m
        <5> QED
          BY <2>1, <5>3
      <4> QED
        BY <4>1, <4>2
    <3> QED
      BY <1>3, <2>1, <2>2, <3>1 DEF Peeling
  <2>7. OnlyEdgeLeaks'
    BY <2>1, <2>3, <2>4 DEF IndInv, OnlyEdgeLeaks
  <2>8. ReaderOwnership'
    BY <2>1 DEF IndInv, ReaderOwnership
  <2> QED
    BY <2>5, <2>6, <2>7, <2>8 DEF IndInv
<1>5. CASE o.r # "OK"
  <2>1. UnwrapReturns(o) /\ Accounted(cur, o)
    BY <1>2, <1>3, <1>5, DecompressOutcome
  <2> QED
    BY <1>5, <2>1, UnwrapReturnsKeeps
<1> QED
  BY <1>4, <1>5

\* Giving up.
LEMMA UnwrapGivesUpKeeps == ASSUME IndInv, UnwrapGivesUp PROVE IndInv'
<1> DEFINE o == Fail("UNSUPPORTED_VERSION")
<1>1. UnwrapReturns(o)
  BY DEF UnwrapGivesUp
<1>2. o.r # "OK" /\ o.live = 0
  BY OutcomeFields
<1>3. Accounted(cur, o)
  BY <1>2 DEF Accounted
<1> HIDE DEF o
<1> QED
  BY <1>1, <1>2, <1>3, UnwrapReturnsKeeps

\* sf_get_decompressed_reader: the reader that comes back owns a buffer
\* exactly when a container was taken off.
LEMMA ReaderKeeps == ASSUME IndInv, GetDecompressedReader PROVE IndInv'
<1> DEFINE borrowed == [r |-> "OK", out |-> doc, info |-> Info("NONE", <<>>), live |-> 0]
<1>1. pc = "idle" /\ UNCHANGED <<doc, pc, cur, depth, tmp>>
  BY DEF GetDecompressedReader
<1>2. PICK o \in IF has_dcx_magic(doc)
                 THEN decompress_from_buffer(doc) \cup {Fail(r) : r \in {"OOM", "IO"}}
                 ELSE {borrowed, Fail("IO")} :
          /\ last' = <<"reader", NoInfo, o>>
          /\ live' = live + o.live - (IF o.r = "OK" /\ o.info.type # "NONE" THEN 1 ELSE 0)
          /\ EdgeFails(doc, o)
  BY DEF GetDecompressedReader
<1>3. Shape /\ OnlyEdgeLeaks /\ doc \in Docs /\ live \in Nat /\ tmp = FALSE /\ edge_failed \in BOOLEAN
  BY <1>1 DEF IndInv, Shape, Idle
<1>4. last'[1] = "reader" /\ last'[3] = o
  BY <1>2
<1>5. CASE o = borrowed
  <2>1. o.r = "OK" /\ o.live = 0 /\ o.info.type = "NONE"
    BY <1>5 DEF Info
  <2>2. live' = live
    BY <1>2, <1>3, <2>1
  <2>3. edge_failed' = edge_failed
    BY <1>2, <1>3, <2>1 DEF EdgeFails
  <2>4. Shape' /\ OnlyEdgeLeaks' /\ Peeling'
    BY <1>1, <1>3, <2>2, <2>3 DEF Shape, Idle, OnlyEdgeLeaks, Owned, Peeling
  <2>5. ReaderOwnership'
    BY <1>4, <2>1 DEF ReaderOwnership
  <2> QED
    BY <2>4, <2>5 DEF IndInv
<1>6. ASSUME Accounted(doc, o), o.r = "OK" => o.info.type \in DcpTypes \cup DcxTypes
      PROVE  IndInv'
  <2>1. "NONE" \notin DcpTypes \cup DcxTypes
    BY DEF DcpTypes, DcxTypes
  <2>2. o.r = "OK" => o.info.type # "NONE" /\ o.live = 1
    BY <1>6, <2>1 DEF Accounted
  <2>3. live' = live + o.live - Owned - (IF o.r = "OK" THEN 1 ELSE 0)
    <3>1. Owned = 0 /\ o.live \in {0, 1}
      BY <1>3, <1>6 DEF Owned, Accounted
    <3>2. live' = live + o.live - (IF o.r = "OK" THEN 1 ELSE 0)
      BY <1>2, <2>2
    <3> QED
      BY <1>3, <3>1, <3>2
  <2>4. OnlyEdgeLeaks' /\ live' \in Nat /\ edge_failed' \in BOOLEAN
    BY <1>1, <1>2, <1>3, <1>6, <2>3, Ledger
  <2>5. Shape' /\ Peeling'
    BY <1>1, <1>3, <2>4 DEF Shape, Idle, Peeling
  <2>6. ReaderOwnership'
    <3> SUFFICES ASSUME o.r = "OK"
                 PROVE  /\ (o.info.type = "NONE") = (o.live = 0)
                        /\ o.info.type \in {"NONE"} \cup DcpTypes \cup DcxTypes
      BY <1>4 DEF ReaderOwnership
    <3>1. o.info.type \in DcpTypes \cup DcxTypes /\ o.info.type # "NONE" /\ o.live = 1
      BY <1>6, <2>2
    <3>2. o.live # 0
      BY <3>1
    <3>3. (o.info.type = "NONE") = (o.live = 0)
      BY <3>1, <3>2
    <3> QED
      BY <3>1, <3>3
  <2> QED
    BY <2>4, <2>5, <2>6 DEF IndInv
<1>7. CASE \E r \in {"OOM", "IO"} : o = Fail(r)
  <2>1. o.r # "OK" /\ o.live = 0
    BY <1>7, OutcomeFields
  <2>2. Accounted(doc, o)
    BY <2>1 DEF Accounted
  <2> QED
    BY <1>6, <2>1, <2>2
<1>8. CASE has_dcx_magic(doc) /\ o \in decompress_from_buffer(doc)
  <2>1. Accounted(doc, o)
    BY <1>3, <1>8, DecompressOutcome
  <2>2. ASSUME o.r = "OK" PROVE o.info.type \in DcpTypes \cup DcxTypes
    <3>1. o.info.type = sniff(doc) /\ (doc.layers = <<>> => doc.body = "selfzlib")
      BY <1>3, <1>8, <2>2, DecompressOutcome
    <3>2. doc.layers # <<>> /\ sniff(doc) \in DcpTypes \cup DcxTypes
      BY <1>8, <3>1 DEF has_dcx_magic
    <3> QED
      BY <3>1, <3>2
  <2> QED
    BY <1>6, <2>1, <2>2
<1> QED
  BY <1>2, <1>5, <1>7, <1>8

\* Every call, and every step of unwrap, keeps the invariant.
LEMMA NextKeeps == IndInv /\ [Next]_vars => IndInv'
<1> SUFFICES ASSUME IndInv, [Next]_vars PROVE IndInv'
  OBVIOUS
<1>1. CASE \E i \in Infos : Compress(i)
  BY <1>1, CompressKeeps
<1>2. CASE Unwrapping
  BY <1>2, UnwrapCopyKeeps, UnwrapLayerKeeps, UnwrapGivesUpKeeps DEF Unwrapping
<1>3. CASE UNCHANGED vars
  BY <1>3 DEF vars, IndInv, Shape, Idle, Peeling, OnlyEdgeLeaks, Owned, ReaderOwnership
<1> QED
  BY <1>1, <1>2, <1>3, DecompressKeeps, UnwrapStartKeeps, ReaderKeeps DEF Next

\* The invariant holds in every state.
THEOREM Invariance == Spec => []IndInv
BY InitHolds, NextKeeps, PTL DEF Spec

\* Type correctness: the caller's document is always a body in containers of
\* known formats, and unwrap never goes deeper than its limit.
THEOREM DcxIsTyped == Spec => []TypeOK
<1>1. IndInv => TypeOK
  BY ShapeTypes DEF IndInv
<1> QED
  BY <1>1, Invariance, PTL

\* Whatever containers are put on a document, the one put on last comes off
\* again and reports the info it was written with, every field included.
THEOREM ContainersRoundTrip == Spec => []RoundTrips
<1>1. IndInv => RoundTrips
  BY RoundTrip DEF IndInv, Shape
<1> QED
  BY <1>1, Invariance, PTL

\* No allocation of the library survives a call, except the ones that
\* decompress_edge drops when it rejects its tables.
THEOREM LeaksAreEdgeLeaks == Spec => []OnlyEdgeLeaks
<1>1. IndInv => OnlyEdgeLeaks
  BY DEF IndInv
<1> QED
  BY <1>1, Invariance, PTL

\* The type that sf_get_decompressed_reader reports tells the caller whether
\* the reader is its own.
THEOREM ReadersAreOwned == Spec => []ReaderOwnership
<1>1. IndInv => ReaderOwnership
  BY DEF IndInv
<1> QED
  BY <1>1, Invariance, PTL

\* sf_dcx_unwrap takes every container off or reports a failure, and gives up
\* for depth only when there were that many.
THEOREM UnwrapIsComplete == Spec => UnwrapPeelsAll
<1> DEFINE Peeled == /\ last'[3].r = "OK" => /\ doc' = Doc(<<>>, doc.body)
                                             /\ sniff(doc') = "UNKNOWN"
                     /\ last'[3].r = "UNSUPPORTED_VERSION" =>
                            Len(doc.layers) >= MaxDepth \/ doc.body = "selfzlib"
                     /\ last'[3].r # "OK" => doc' = doc
           Body == last'[1] = "unwrap" /\ pc = "unwrap" /\ pc' = "idle" => Peeled
<1>1. ASSUME IndInv, Next, last'[1] = "unwrap", pc = "unwrap", pc' = "idle" PROVE Peeled
  <2>1. Unwrapping
    BY <1>1 DEF Next, Compress, Decompress, UnwrapStart, GetDecompressedReader
  <2>2. /\ cur \in Docs /\ cur.body = doc.body /\ Len(cur.layers) \in Nat
        /\ Len(doc.layers) \in Nat /\ depth \in Nat
        /\ doc.body = "selfzlib" \/ Len(cur.layers) + depth = Len(doc.layers)
    BY <1>1, CurrentDoc
  <2>3. ASSUME NEW o, UnwrapReturns(o)
        PROVE  last'[3] = o /\ doc' = IF o.r = "OK" THEN o.out ELSE doc
    BY <2>3 DEF UnwrapReturns
  <2>4. CASE UnwrapCopy
    <3>1. PICK o \in {Done(cur, NoInfo), Fail("OOM")} : UnwrapReturns(o)
      BY <2>4 DEF UnwrapCopy
    <3>2. sniff(cur) = "UNKNOWN"
      BY <2>4 DEF UnwrapCopy
    <3>3. cur = Doc(<<>>, doc.body)
      BY <2>2, <3>2, NothingLeft
    <3>4. CASE o = Done(cur, NoInfo)
      <4>1. o.r = "OK" /\ o.out = cur
        BY <3>4, OutcomeFields
      <4>2. last'[3].r = "OK" /\ doc' = cur
        BY <2>3, <3>1, <4>1
      <4> QED
        BY <3>2, <3>3, <4>2
    <3>5. CASE o = Fail("OOM")
      <4>1. o.r = "OOM"
        BY <3>5, OutcomeFields
      <4>2. last'[3].r = "OOM" /\ doc' = doc
        BY <2>3, <3>1, <4>1
      <4> QED
        BY <4>2
    <3> QED
      BY <3>1, <3>4, <3>5
  <2>5. CASE UnwrapLayer
    <3>1. PICK o \in decompress_from_buffer(cur) :
             IF o.r = "OK" THEN UNCHANGED <<doc, pc, edge_failed, last>> ELSE UnwrapReturns(o)
      BY <2>5 DEF UnwrapLayer
    <3>2. o.r # "OK" /\ UnwrapReturns(o)
      BY <1>1, <3>1
    <3>3. sniff(cur) # "UNKNOWN"
      BY <2>5 DEF UnwrapLayer
    <3>4. o.r # "UNSUPPORTED_VERSION"
      BY <2>2, <3>1, <3>3, DecompressOutcome
    <3>5. last'[3] = o /\ doc' = doc
      BY <2>3, <3>2
    <3> QED
      BY <3>2, <3>4, <3>5
  <2>6. CASE UnwrapGivesUp
    <3>1. UnwrapReturns(Fail("UNSUPPORTED_VERSION")) /\ depth = MaxDepth
      BY <2>6 DEF UnwrapGivesUp
    <3>2. Fail("UNSUPPORTED_VERSION").r = "UNSUPPORTED_VERSION"
      BY OutcomeFields
    <3>3. last'[3].r = "UNSUPPORTED_VERSION" /\ doc' = doc
      BY <2>3, <3>1, <3>2
    <3>4. Len(doc.layers) >= MaxDepth \/ doc.body = "selfzlib"
      BY <2>2, <3>1
    <3> QED
      BY <3>3, <3>4
  <2> QED
    BY <2>1, <2>4, <2>5, <2>6 DEF Unwrapping
<1>2. IndInv /\ [Next]_vars => [Body]_vars
  BY <1>1
<1> QED
  BY <1>2, Invariance, PTL DEF Spec, UnwrapPeelsAll
=============================================================================
