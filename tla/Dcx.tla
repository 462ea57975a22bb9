-------------------------------- MODULE Dcx ---------------------------------
(***************************************************************************)
(* The DCX layer: detecting, removing and adding compression containers.   *)
(* A document is a body inside zero or more containers, outermost first.   *)
(* The codecs are external: a container that was written whole decompresses *)
(* to what it holds, one that was damaged is rejected.                     *)
(*                                                                         *)
(* Every function is the set of ways it may end: a record with the result  *)
(* r, what *out is left pointing to, the info that is reported, and how    *)
(* many of its allocations are still live when it returns.                 *)
(***************************************************************************)
EXTENDS Integers, Sequences

CONSTANTS Infos,         \* compression infos the caller uses, see Info
          Bodies,        \* "plain", "zlibish", "dcxish", "selfzlib"
          MaxLayers,     \* bound on the containers the caller piles up
          MaxDepth,      \* 8: layers sf_dcx_unwrap looks at
          MaxLive,       \* bound on live
          NULL

DcpTypes == {"DCP_EDGE", "DCP_DFLT"}
DcxTypes == {"DCX_EDGE", "DCX_DFLT", "DCX_KRAK", "DCX_ZSTD"}
Types == DcpTypes \cup DcxTypes \cup {"ZLIB", "NONE", "UNKNOWN"}

\* A compression info: fields is <<unk04, unk10, unk14, unk30, unk38>> for
\* DFLT, <<level>> for KRAK and ZSTD and <<>> otherwise.  unk30, unk38 and
\* the levels are the integers the caller chose, before they are stored.
Info(t, fields) == [type |-> t, fields |-> fields]
NoInfo == Info("UNKNOWN", <<>>)

\* How many fields an info has, by its type.
FieldCount(t) == IF t = "DCX_DFLT" THEN 5 ELSE IF t \in {"DCX_KRAK", "DCX_ZSTD"} THEN 1 ELSE 0
InfoOK(i) == /\ i = Info(i.type, i.fields)
             /\ i.type \in Types /\ i.fields \in Seq(Int) /\ Len(i.fields) = FieldCount(i.type)

ASSUME InfoAssumption == \A i \in Infos : InfoOK(i)
ASSUME DepthAssumption == MaxLayers \in Nat \ {0} /\ MaxDepth \in Nat /\ MaxLive \in Nat
ASSUME BodyAssumption == Bodies \subseteq {"plain", "zlibish", "dcxish", "selfzlib"}

VARIABLES doc,       \* the document in the caller's hand
          pc,        \* "idle" or "unwrap"
          cur,       \* unwrap: the document looked at
          depth,     \* unwrap: layers taken off so far
          tmp,       \* unwrap: whether tmp owns cur
          live,      \* live allocations of the library, the caller's excepted
          edge_failed,\* history: an EDGE container was rejected
          last       \* the last call: <<name, argument, outcome>>

vars == <<doc, pc, cur, depth, tmp, live, edge_failed, last>>
-----------------------------------------------------------------------------
\* Presets: the infos the library itself hands out.
dflt_preset(p) ==
    Info("DCX_DFLT", CASE p = "10000_24_9"    -> <<65536, 36, 44, 9, 0>>
                       [] p = "10000_44_9"    -> <<65536, 68, 76, 9, 0>>
                       [] p = "11000_44_8"    -> <<69632, 68, 76, 8, 0>>
                       [] p = "11000_44_9"    -> <<69632, 68, 76, 9, 0>>
                       [] p = "11000_44_9_15" -> <<69632, 68, 76, 9, 15>>)

krak_preset(p) == Info("DCX_KRAK", IF p = "ELDEN_RING" THEN <<6>> ELSE <<9>>)

default_type(game) ==
    CASE game = "DEMONS_SOULS" -> Info("DCX_EDGE", <<>>)
      [] game \in {"DARK_SOULS_1", "DARK_SOULS_2"} -> dflt_preset("10000_24_9")
      [] game \in {"BLOODBORNE", "DARK_SOULS_3"}   -> dflt_preset("10000_44_9")
      [] game \in {"SEKIRO", "ELDEN_RING"}         -> krak_preset("ELDEN_RING")
      [] game = "AC6" -> krak_preset("ARMORED_CORE_6")

default_info_from_type(t) ==
    CASE t = "DCX_DFLT" -> dflt_preset("11000_44_9")
      [] t = "DCX_KRAK" -> krak_preset("ELDEN_RING")
      [] t = "DCX_ZSTD" -> Info(t, <<15>>)
      [] OTHER          -> Info(t, <<>>)
-----------------------------------------------------------------------------
\* Conversions to the bytes of a header and back.
U8(n) == n % 256
Byte3 == 16777216     \* 2^24: unk38 is the top byte of its word

\* The fields as the info struct stores them: levels, unk30 and unk38 are u8.
Stored(info) ==
    LET f == info.fields
    IN  CASE info.type = "DCX_DFLT" -> Info(info.type, <<f[1], f[2], f[3], U8(f[4]), U8(f[5])>>)
          [] info.type \in {"DCX_KRAK", "DCX_ZSTD"} -> Info(info.type, <<U8(f[1])>>)
          [] OTHER -> info

\* Mutant: unk10 and unk14 are written the wrong way round.
wrap_dcx_write_header_Swapped(info) ==
    [format |-> info.type, w04 |-> 69632, w10 |-> 76, w14 |-> 68, b30 |-> 9, w38 |-> 0]
\* The words and bytes that tell one header from another.
wrap_dcx_write_header(info) ==
    LET dflt == info.type = "DCX_DFLT"
        f    == info.fields
    IN  [format |-> info.type,
         w04 |-> IF dflt THEN f[1] ELSE 69632,
         w10 |-> IF dflt THEN f[2] ELSE 68,
         w14 |-> IF dflt THEN f[3] ELSE 76,
         b30 |-> IF dflt THEN f[4] ELSE f[1],
         w38 |-> IF dflt THEN f[5] * Byte3 ELSE 0]

\* The containers without fields have one header each.
PlainHeader(t) == [format |-> t, w04 |-> 0, w10 |-> 0, w14 |-> 0, b30 |-> 0, w38 |-> 0]

InfoOf(h) ==
    CASE h.format = "DCX_DFLT" -> Info(h.format, <<h.w04, h.w10, h.w14, h.b30, h.w38 \div Byte3>>)
      [] h.format \in {"DCX_KRAK", "DCX_ZSTD"} -> Info(h.format, <<h.b30>>)
      [] OTHER -> Info(h.format, <<>>)
-----------------------------------------------------------------------------
\* A container is a header and a state: "good", "short" (its format is there,
\* the rest of its header or tables is not) or "damaged" (the codec or the
\* tables behind the header reject it).
Layer(h, s) == [header |-> h, state |-> s]
Doc(layers, body) == [layers |-> layers, body |-> body]

sniff(d) == IF d.layers # <<>> THEN Head(d.layers).header.format
            ELSE IF d.body \in {"zlibish", "selfzlib"} THEN "ZLIB" ELSE "UNKNOWN"

\* "DCP\0" or "DCX\0": a bare zlib stream does not count, and a DCX with a
\* format nobody knows does.
has_dcx_magic(d) == \/ d.layers # <<>> /\ sniff(d) \in DcpTypes \cup DcxTypes
                    \/ d.layers = <<>> /\ d.body = "dcxish"

Fail(r) == [r |-> r, out |-> NULL, info |-> NoInfo, live |-> 0]
Done(d, i) == [r |-> "OK", out |-> d, info |-> i, live |-> 1]

\* Shared shape of the codecs: allocate the output, run, free it when the
\* codec refuses.
Codec(d, i, good) == {Fail("OOM"), IF good THEN Done(d, i) ELSE Fail("DECOMPRESS")}

\* decompress_edge allocates before it looks at the tables: a bad or short
\* table returns with the allocation live, a chunk the codec rejects frees it.
BadTables == {[Fail(r) EXCEPT !.live = 1] : r \in {"BAD_MAGIC", "TRUNCATED"}}
decompress_edge(d, i, good) ==
    IF good THEN {Fail("OOM"), Done(d, i)}
    ELSE {Fail("BAD_MAGIC"), Fail("OOM"), Fail("DECOMPRESS")} \cup BadTables

\* Oodle may be missing; *out is set before the codec runs and taken back.
decompress_krak(d, i, good) == Codec(d, i, good) \cup {Fail("OODLE_NOT_FOUND")}

\* A container of format t that is short.  A header of fixed size is measured
\* first and a zlib stream is left to the codec; of the EDGE containers only
\* DCP can end before the allocation, as the format of a DCX lies behind that.
decompress_short(t) ==
    CASE t \in {"DCP_EDGE", "DCX_EDGE"} ->
            {Fail("OOM")} \cup BadTables \cup (IF t = "DCP_EDGE" THEN {Fail("BAD_MAGIC")} ELSE {})
      [] t = "ZLIB" -> {Fail("OOM"), Fail("DECOMPRESS")}
      [] OTHER      -> {Fail("TRUNCATED")}

decompress_from_buffer(d) ==
    IF d.layers = <<>>
    THEN CASE d.body = "zlibish"  -> Codec(d, Info("ZLIB", <<>>), FALSE)
           [] d.body = "selfzlib" -> Codec(d, Info("ZLIB", <<>>), TRUE)
           [] OTHER               -> {Fail("UNSUPPORTED_VERSION")}
    ELSE LET h    == Head(d.layers).header
             good == Head(d.layers).state = "good"
             next == Doc(Tail(d.layers), d.body)
         IN  IF Head(d.layers).state = "short" THEN decompress_short(h.format)
             ELSE CASE h.format \in {"DCP_EDGE", "DCX_EDGE"} -> decompress_edge(next, InfoOf(h), good)
                    [] h.format = "DCX_KRAK" -> decompress_krak(next, InfoOf(h), good)
                    [] OTHER -> Codec(next, InfoOf(h), good)

\* sf_dcx_compress_to_buffer.  The DCP and DCX wrappers compress into one
\* buffer and copy it behind a header into another; both are freed on every
\* failure, the first on success too.
compress_to_buffer(d, info) ==
    LET s == Stored(info)
        wrapped(h) == Done(Doc(<<Layer(h, "good")>> \o d.layers, d.body), s)
    IN  CASE info.type = "UNKNOWN" -> {Fail("INVALID_ARG")}
          [] info.type = "NONE"    -> {Fail("OOM"), Done(d, s)}
          [] info.type \in {"DCP_EDGE", "DCX_EDGE"} -> {Fail("OOM"), wrapped(PlainHeader(info.type))}
          [] info.type \in {"ZLIB", "DCP_DFLT"} ->
                {Fail("OOM"), Fail("DECOMPRESS"), wrapped(PlainHeader(info.type))}
          [] info.type = "DCX_KRAK" ->
                {Fail("OODLE_NOT_FOUND"), Fail("OOM"), Fail("DECOMPRESS"),
                 wrapped(wrap_dcx_write_header(s))}
          [] info.type \in {"DCX_DFLT", "DCX_ZSTD"} ->
                {Fail("OOM"), Fail("DECOMPRESS"), wrapped(wrap_dcx_write_header(s))}
-----------------------------------------------------------------------------
Layers == {Layer(PlainHeader(t), s) : t \in {"ZLIB"} \cup DcpTypes \cup {"DCX_EDGE"},
                                      s \in {"good", "short", "damaged"}}
          \cup {Layer(wrap_dcx_write_header(default_info_from_type(t)), s) :
                  t \in DcxTypes \ {"DCX_EDGE"}, s \in {"good", "short", "damaged"}}

Idle == /\ cur = NULL /\ depth = 0 /\ tmp = FALSE

Init == /\ doc \in {Doc(l, b) : l \in {<<>>} \cup {<<x>> : x \in Layers}, b \in Bodies}
        /\ pc = "idle" /\ Idle
        /\ live = 0 /\ edge_failed = FALSE
        /\ last = <<"start", NoInfo, Fail("OK")>>

\* The caller takes the result, if there is one, as its next document and
\* frees the old one with it.
Returns(name, arg, o) ==
    /\ last' = <<name, arg, o>>
    /\ live' = live + o.live - (IF o.r = "OK" THEN 1 ELSE 0)
    /\ live' <= MaxLive

EdgeFails(d, o) ==
    edge_failed' = (edge_failed \/ (sniff(d) \in {"DCP_EDGE", "DCX_EDGE"} /\ o.r # "OK"))

Compress(info) ==
    /\ pc = "idle" /\ Len(doc.layers) < MaxLayers
    /\ \E o \in compress_to_buffer(doc, info) :
          /\ Returns("compress", info, o)
          /\ doc' = IF o.r = "OK" THEN o.out ELSE doc
    /\ UNCHANGED <<pc, cur, depth, tmp, edge_failed>>

Decompress ==
    /\ pc = "idle"
    /\ \E o \in decompress_from_buffer(doc) :
          /\ Returns("decompress", NoInfo, o)
          /\ EdgeFails(doc, o)
          /\ doc' = IF o.r = "OK" THEN o.out ELSE doc
    /\ UNCHANGED <<pc, cur, depth, tmp>>

\* sf_dcx_unwrap works on the caller's buffer first, then on its own tmp.
UnwrapStart ==
    /\ pc = "idle"
    /\ pc' = "unwrap" /\ cur' = doc /\ depth' = 0 /\ tmp' = FALSE
    /\ last' = <<"unwrap_called", NoInfo, Fail("OK")>>
    /\ UNCHANGED <<doc, live, edge_failed>>

\* What the call in progress owns.
Owned == IF tmp THEN 1 ELSE 0

\* Free tmp, if it owns anything, and return.
UnwrapReturns(o) ==
    /\ pc' = "idle" /\ cur' = NULL /\ depth' = 0 /\ tmp' = FALSE
    /\ last' = <<"unwrap", NoInfo, o>>
    /\ doc' = IF o.r = "OK" THEN o.out ELSE doc
    /\ live' = live + o.live - Owned - (IF o.r = "OK" THEN 1 ELSE 0)
    /\ live' <= MaxLive
    /\ EdgeFails(cur, o)

\* Mutant: only the DCP and DCX magics count as compressed.
UnwrapCopy_MagicOnly ==
    /\ pc = "unwrap" /\ depth < MaxDepth
    /\ ~has_dcx_magic(cur)
    /\ \E o \in {Done(cur, NoInfo), Fail("OOM")} : UnwrapReturns(o)
\* Not compressed (any more): copy it out.
UnwrapCopy ==
    /\ pc = "unwrap" /\ depth < MaxDepth
    /\ sniff(cur) = "UNKNOWN"
    /\ \E o \in {Done(cur, NoInfo), Fail("OOM")} : UnwrapReturns(o)

\* Mutant: a layer that fails is tried again.
UnwrapLayer_Retries ==
    /\ pc = "unwrap" /\ depth < MaxDepth
    /\ sniff(cur) # "UNKNOWN"
    /\ \E o \in decompress_from_buffer(cur) :
          IF o.r = "OK"
          THEN /\ cur' = o.out /\ depth' = depth + 1 /\ tmp' = TRUE
               /\ live' = live + 1 - Owned
               /\ UNCHANGED <<doc, pc, edge_failed, last>>
          ELSE UNCHANGED vars
\* Mutant: one layer too many is looked at.
UnwrapLayer_OneMore ==
    /\ pc = "unwrap" /\ depth <= MaxDepth
    /\ sniff(cur) # "UNKNOWN"
    /\ \E o \in decompress_from_buffer(cur) :
          IF o.r = "OK"
          THEN /\ cur' = o.out /\ depth' = depth + 1 /\ tmp' = TRUE
               /\ live' = live + 1 - Owned
               /\ UNCHANGED <<doc, pc, edge_failed, last>>
          ELSE UnwrapReturns(o)
\* Mutant: the layer before is not freed.
UnwrapLayer_KeepsTmp ==
    /\ pc = "unwrap" /\ depth < MaxDepth
    /\ sniff(cur) # "UNKNOWN"
    /\ \E o \in decompress_from_buffer(cur) :
          IF o.r = "OK"
          THEN /\ cur' = o.out /\ depth' = depth + 1 /\ tmp' = TRUE
               /\ live' = live + 1
               /\ UNCHANGED <<doc, pc, edge_failed, last>>
          ELSE UnwrapReturns(o)
\* One more layer: decompress, free the one before, carry on with the result.
UnwrapLayer ==
    /\ pc = "unwrap" /\ depth < MaxDepth
    /\ sniff(cur) # "UNKNOWN"
    /\ \E o \in decompress_from_buffer(cur) :
          IF o.r = "OK"
          THEN /\ cur' = o.out /\ depth' = depth + 1 /\ tmp' = TRUE
               /\ live' = live + 1 - Owned
               /\ UNCHANGED <<doc, pc, edge_failed, last>>
          ELSE UnwrapReturns(o)

UnwrapGivesUp ==
    /\ pc = "unwrap" /\ depth = MaxDepth
    /\ UnwrapReturns(Fail("UNSUPPORTED_VERSION"))

\* Mutant: the magic test also takes bare zlib streams.
GetDecompressedReader_AnyType ==
    /\ pc = "idle"
    /\ \E o \in IF sniff(doc) # "UNKNOWN" \/ has_dcx_magic(doc)
                THEN decompress_from_buffer(doc)
                ELSE {[r |-> "OK", out |-> doc, info |-> Info("NONE", <<>>), live |-> 0]} :
          /\ last' = <<"reader", NoInfo, o>>
          /\ live' = live + o.live - (IF o.r = "OK" /\ o.info.type # "NONE" THEN 1 ELSE 0)
          /\ live' <= MaxLive
          /\ EdgeFails(doc, o)
    /\ UNCHANGED <<doc, pc, cur, depth, tmp>>
\* sf_get_decompressed_reader: the reader itself when there is no container,
\* a new reader that owns the decompressed buffer otherwise; the raw copy is
\* freed before the result is looked at.  The caller destroys a new reader.
GetDecompressedReader ==
    /\ pc = "idle"
    /\ \E o \in IF has_dcx_magic(doc)
                THEN decompress_from_buffer(doc)
                       \cup {Fail(r) : r \in {"OOM", "IO"}}     \* raw, create
                ELSE {[r |-> "OK", out |-> doc, info |-> Info("NONE", <<>>), live |-> 0],
                      Fail("IO")} :
          /\ last' = <<"reader", NoInfo, o>>
          /\ live' = live + o.live - (IF o.r = "OK" /\ o.info.type # "NONE" THEN 1 ELSE 0)
          /\ live' <= MaxLive
          /\ EdgeFails(doc, o)
    /\ UNCHANGED <<doc, pc, cur, depth, tmp>>

Unwrapping == UnwrapCopy \/ UnwrapLayer \/ UnwrapGivesUp

Next == \/ \E i \in Infos : Compress(i)
        \/ Decompress
        \/ UnwrapStart
        \/ Unwrapping
        \/ GetDecompressedReader

Spec == Init /\ [][Next]_vars
\* A call that has been entered runs to its end.
FairSpec == Spec /\ WF_vars(Unwrapping)
-----------------------------------------------------------------------------
TypeOK == /\ doc.body \in Bodies /\ Len(doc.layers) <= MaxLayers
          /\ \A k \in 1 .. Len(doc.layers) : doc.layers[k].header.format \in Types \ {"NONE", "UNKNOWN"}
          /\ pc \in {"idle", "unwrap"} /\ (pc = "idle" => Idle)
          /\ depth \in 0 .. MaxDepth /\ tmp \in BOOLEAN
          /\ live \in Nat /\ edge_failed \in BOOLEAN

Transient == {"OOM", "OODLE_NOT_FOUND"}

\* The round trip of POLICY.md for the container itself: what one call wraps
\* the next one unwraps to the same document and reports the same info, every
\* header field included, unless memory or the Oodle DLL is missing.
RoundTrips ==
    \A i \in {i \in Infos : i.type \notin {"NONE", "UNKNOWN"}} :
        \A c \in compress_to_buffer(doc, i) : c.r = "OK" =>
            \A d \in decompress_from_buffer(c.out) :
                d.r \in Transient \/ (d.r = "OK" /\ d.out = doc /\ d.info = Stored(i))

\* What unwrap hands back is the body of the document with every layer taken
\* off, and it only gives up for being too deep when MaxDepth layers have
\* come off; the caller's document is never touched by a failure.
UnwrapPeelsAll ==
    [][last'[1] = "unwrap" /\ pc = "unwrap" /\ pc' = "idle" =>
         /\ last'[3].r = "OK" => /\ doc' = Doc(<<>>, doc.body)
                                 /\ sniff(doc') = "UNKNOWN"
         /\ last'[3].r = "UNSUPPORTED_VERSION" =>
                Len(doc.layers) >= MaxDepth \/ doc.body = "selfzlib"
         /\ last'[3].r # "OK" => doc' = doc]_vars

\* Between calls nothing the library allocated is left over, and during
\* unwrap one buffer is, whatever failed on the way; the exception is what
\* decompress_edge drops when it rejects its tables.
OnlyEdgeLeaks == live >= Owned /\ (~edge_failed => live = Owned)

\* "Borrow vs new-allocation paths distinguished by out_info->type": the
\* reader that comes back is the caller's own exactly when the type is NONE.
\* A bare zlib stream is not unpacked by this path.
ReaderOwnership ==
    (last[1] = "reader" /\ last[3].r = "OK") =>
        /\ (last[3].info.type = "NONE") = (last[3].live = 0)
        /\ last[3].info.type \in {"NONE"} \cup DcpTypes \cup DcxTypes

\* unwrap returns even for a stream that decompresses to itself.
UnwrapEnds == (pc = "unwrap") ~> (pc = "idle")
=============================================================================
