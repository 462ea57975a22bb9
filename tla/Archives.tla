------------------------------ MODULE Archives ------------------------------
(***************************************************************************)
(* The other containers: the old binders BND and BND2, texture packs       *)
(* (TPF), entry file lists (ENFL) and the header file of BHD5 archives.    *)
(*                                                                         *)
(* Documents, besides fmt:                                                 *)
(*   BND   [root, files]                  lengths of strings with their    *)
(*   BND2  [names, mode, align, base, files]           terminator, in bytes *)
(*   TPF   [platform, encoding, textures]                                  *)
(*   ENFL  [struct1s, struct2s, strings]  strings by length                *)
(*   BHD5  [game, be, salt, buckets, files]                                *)
(* A BHD5 file is [sha, aes], its numbers of ranges, -1 for no hash or key. *)
(***************************************************************************)
EXTENDS Binders

DataAt(d, key, i) == When(d.files[i].size > 0, Get(key, i, <<Raw("data", i, 0, d.files[i].size)>>))
-----------------------------------------------------------------------------
(***************************************************************************)
(* BND: a file without a name is given one, "File_" and its index.         *)
(***************************************************************************)
Generated == 7
BndName(d, i) == IF d.files[i].name > 0 THEN d.files[i].name ELSE Generated

BndStart == <<Endian(FALSE), Magic("BND", 3), Zeros(1), Const(65535, 2), Const(0, 2), F("internal_version", 4)>>
BndFormat == <<F("format0", 2), F("format1", 2), Const(0, 4)>>

bnd_write_to_writer(d) ==
    BndStart \o <<Reserve("fileSize", 0, "I32"), V("file_count", N(d), 4), Reserve("rootFilePath", 0, "I32")>>
    \o BndFormat
    \o Each([i \in 1 .. N(d) |-> <<FI("id", i, 4), Reserve("dataOffset", i, "I32"),
                               Num("size", i, d.files[i].size, 4), Reserve("nameOffset", i, "I32")>>])
    \o (IF d.root > 0 THEN <<FillPos("rootFilePath", 0, "I32"), Raw("root", 0, 0, d.root)>>
                      ELSE <<Fill("rootFilePath", 0, 0, "I32")>>)
    \o Each([i \in 1 .. N(d) |-> <<FillPos("nameOffset", i, "I32"), Raw("name", i, 0, BndName(d, i))>>])
    \o <<Pad(16)>>
    \o Each([i \in 1 .. N(d) |-> <<FillPos("dataOffset", i, "I32"), Raw("data", i, 0, d.files[i].size)>>
                             \o When(i < N(d), <<Pad(16)>>)])
    \o <<FillPos("fileSize", 0, "I32")>>

bnd_read(d) ==
    BndStart \o <<Skip(4), V("file_count", N(d), 4)>>
    \o (IF d.root > 0 THEN <<Offset("rootFilePath", 0, 4)>> \o Get("rootFilePath", 0, <<Raw("root", 0, 0, d.root)>>)
                      ELSE <<Num("rootFilePath", 0, 0, 4)>>)
    \o BndFormat
    \o Each([i \in 1 .. N(d) |-> <<FI("id", i, 4), Offset("dataOffset", i, 4), Num("size", i, d.files[i].size, 4),
                               Offset("nameOffset", i, 4)>>
                             \o Get("nameOffset", i, <<Raw("name", i, 0, BndName(d, i))>>)])
    \o Each([i \in 1 .. N(d) |-> DataAt(d, "dataOffset", i)])
-----------------------------------------------------------------------------
(***************************************************************************)
(* BND2: names only with the flag NAME_OFFSET; a full path without a drive *)
(* is given one.                                                           *)
(***************************************************************************)
bnd2_name(d, i) == d.files[i].name + (IF d.mode = "full" /\ ~d.files[i].drive THEN 3 ELSE 0)

Bnd2Start == <<Endian(FALSE), Magic("BND", 3), Zeros(1), F("header_info_flags", 1), F("file_info_flags", 1),
               F("unk06", 1), F("unk07", 1), F("file_version", 4)>>
Bnd2Mode(d) == <<V("alignment_size", d.align, 2), F("file_path_mode", 1), F("unk1b", 1), Const(0, 4)>>
               \o When(~d.names, <<Const(0, 4)>>)
HasName(d) == d.names /\ d.mode # "nameless"
HasBase(d) == d.names /\ d.mode = "base"

bnd2_write_to_writer(d) ==
    Bnd2Start \o <<Reserve("fileSize", 0, "I32"), V("file_count", N(d), 4), Reserve("baseDirOffset", 0, "I32")>>
    \o Bnd2Mode(d)
    \o Each([i \in 1 .. N(d) |-> <<FI("id", i, 4), Reserve("fileOffset", i, "I32"), Reserve("fileSize", i, "I32")>>
                             \o When(HasName(d), <<Reserve("nameOffset", i, "I32")>>)
                             \o When(d.names /\ ~HasName(d), <<Const(0, 4)>>)])
    \o (IF HasBase(d) THEN <<FillPos("baseDirOffset", 0, "I32"), Raw("base", 0, 0, d.base)>>
                      ELSE <<Fill("baseDirOffset", 0, 0, "I32")>>)
    \o When(HasName(d),
            Each([i \in 1 .. N(d) |-> <<FillPos("nameOffset", i, "I32"), Raw("name", i, 0, bnd2_name(d, i))>>]))
    \o Each([i \in 1 .. N(d) |-> When(d.align > 0, <<Pad(d.align)>>)
                             \o <<FillPos("fileOffset", i, "I32"), Fill("fileSize", i, d.files[i].size, "I32"),
                                  Raw("data", i, 0, d.files[i].size)>>])
    \o <<FillPos("fileSize", 0, "I32")>>

bnd2_read(d) ==
    Bnd2Start \o <<Skip(4), V("file_count", N(d), 4), Offset("baseDirOffset", 0, 4)>> \o Bnd2Mode(d)
    \o When(HasBase(d), Get("baseDirOffset", 0, <<Raw("base", 0, 0, d.base)>>))
    \o Each([i \in 1 .. N(d) |-> <<FI("id", i, 4), Offset("fileOffset", i, 4), Num("fileSize", i, d.files[i].size, 4)>>
                             \o When(HasName(d), <<Offset("nameOffset", i, 4)>>
                                                 \o Get("nameOffset", i, <<Raw("name", i, 0, bnd2_name(d, i))>>))
                             \o When(d.names /\ ~HasName(d), <<Const(0, 4)>>)])
    \o Each([i \in 1 .. N(d) |-> DataAt(d, "fileOffset", i)])
-----------------------------------------------------------------------------
(***************************************************************************)
(* TPF.  The reader skips the blocks that console versions have between    *)
(* the flags and the name; the writer writes none.                         *)
(***************************************************************************)
TpfBig(d) == d.platform \in {"XBOX360", "PS3"}
Modern(d) == d.platform \in {"PS4", "XBOX1", "PS5"}
ConsoleBlock(d) == CASE d.platform = "PC"      -> 0
                     [] d.platform = "XBOX360" -> 8
                     [] d.platform = "PS3"     -> 8 + (IF d.flag2 # 0 THEN 4 ELSE 0)
                     [] Modern(d)              -> 12
TpfName(d, i) == d.textures[i].name * (IF d.encoding = 1 THEN 2 ELSE 1)
TpfPack(d) == <<V("platform", 0, 1), V("flag2", d.flag2, 1), V("encoding", d.encoding, 1), Zeros(1)>>
TpfFields(i) == <<FI("format", i, 1), FI("type", i, 1), FI("mipmaps", i, 1), FI("flags1", i, 1)>>

tpf_write_one_header(d, i) ==
    <<Reserve("FileData", i, "U32"), Reserve("FileSize", i, "I32")>> \o TpfFields(i)
    \o <<Reserve("FileName", i, "U32"), Const(0, 4)>>

\* Textures with flags1 2 or 3 are stored as DCP_EDGE containers.
tpf_write_one_data(d, i) ==
    LET t == d.textures[i]
        pad == IF d.platform = "PS3" THEN 128 ELSE 4
    IN  When(t.size > 0, <<Pad(pad)>>)
        \o <<FillPos("FileData", i, "U32"), Fill("FileSize", i, StoredSize(t), "I32"),
             Raw("data", i, 0, StoredSize(t))>>

tpf_write_to_writer(d) ==
    LET n == Len(d.textures)
    IN  <<Endian(TpfBig(d)), Magic("TPF", 4), Reserve("DataSize", 0, "I32"), V("file_count", n, 4)>> \o TpfPack(d)
        \o Each([i \in 1 .. n |-> tpf_write_one_header(d, i)])
        \o Each([i \in 1 .. n |-> <<FillPos("FileName", i, "U32"), Raw("name", i, 0, TpfName(d, i))>>])
        \o (CASE d.platform = "PS3" -> <<Pad(256)>> [] d.platform = "PS4" -> <<Pad(16)>> [] OTHER -> <<>>)
        \o <<Base(0)>>
        \o Each([i \in 1 .. n |-> tpf_write_one_data(d, i)])
        \o <<FillFrom("DataSize", 0, 0, "I32")>>

tpf_populate(d) ==
    LET n == Len(d.textures)
        size(i) == StoredSize(d.textures[i])
    IN  <<Magic("TPF", 4), Endian(TpfBig(d)), Offset("DataSize", 0, 4), V("file_count", n, 4)>> \o TpfPack(d)
        \o Each([i \in 1 .. n |-> <<Offset("FileData", i, 4), Num("FileSize", i, size(i), 4)>> \o TpfFields(i)
                              \o <<Skip(ConsoleBlock(d)), Offset("FileName", i, 4), Const(0, 4)>>
                              \o When(Modern(d), <<Skip(4)>>)])
        \o Each([i \in 1 .. n |-> When(size(i) > 0, Get("FileData", i, <<Raw("data", i, 0, size(i))>>))
                              \o Get("FileName", i, <<Raw("name", i, 0, TpfName(d, i))>>)])
-----------------------------------------------------------------------------
(***************************************************************************)
(* ENFL: the lists are packed with zlib (external); the packed bytes stand *)
(* in the file, the lists in a stream of their own.  The reader takes as   *)
(* many strings as there are second structs.                               *)
(***************************************************************************)
EnflHeader == <<Magic("ENFL", 4), Const(66581, 4), F("compressed_size", 4), F("uncompressed_size", 4),
                Magic("compressed", 9)>>
EnflLists(d) ==
    <<Const(0, 4), V("struct1_count", d.struct1s, 4), V("struct2_count", d.struct2s, 4), Const(0, 4)>>
    \o Each([i \in 1 .. d.struct1s |-> <<FI("step", i, 2), FI("index", i, 2)>>]) \o <<Pad(16)>>
    \o Each([i \in 1 .. d.struct2s |-> <<FI("unk1", i, 8)>>]) \o <<Pad(16), Const(0, 2)>>
EnflString(d, i) == <<Raw("string", i, 0, 2 * d.strings[i])>>

enfl_write_to_writer(d) ==
    <<Endian(FALSE), Stream(1)>> \o EnflLists(d) \o Each([i \in DOMAIN d.strings |-> EnflString(d, i)])
    \o <<Pad(16), Stream(0)>> \o EnflHeader

enfl_read_from_reader(d) ==
    <<Endian(FALSE)>> \o EnflHeader \o <<Stream(1)>> \o EnflLists(d)
    \o Each([i \in 1 .. d.struct2s |-> EnflString(d, i)])
-----------------------------------------------------------------------------
(***************************************************************************)
(* BHD5: offsets are computed before anything is written.                  *)
(***************************************************************************)
SumTo(f, n) == FoldFunctionOnSet(+, 0, f, 1 .. n)
Buckets(d) == Len(d.buckets)

ShaSize(x) == IF x.sha >= 0 THEN 36 + 16 * x.sha ELSE 0
AesSize(x) == IF x.aes >= 0 THEN 20 + 16 * x.aes ELSE 0
MetaSize(d) == [i \in 1 .. N(d) |-> ShaSize(d.files[i]) + AesSize(d.files[i])]

buckets_offset(d) == 36 + d.salt
headers_offset(d) == buckets_offset(d) + 16 * Buckets(d)
metadata_offset(d) == headers_offset(d) + 40 * N(d)
header_offset(d, k) == headers_offset(d) + 40 * SumTo(d.buckets, k - 1)

sha_offset(d, i) == IF d.files[i].sha < 0 THEN 0 ELSE metadata_offset(d) + SumTo(MetaSize(d), i - 1)
aes_offset(d, i) == IF d.files[i].aes < 0 THEN 0
                    ELSE metadata_offset(d) + SumTo(MetaSize(d), i - 1) + ShaSize(d.files[i])

\* The fields around the two offsets are ordered by game.
HeaderFields(d, i, offsets) ==
    IF d.game \in {"DARKSOULS3", "SEKIRO"}
    THEN <<FI("hash", i, 4), FI("padded", i, 4), FI("file_offset", i, 8)>> \o offsets \o <<FI("unpadded", i, 8)>>
    ELSE <<FI("hash", i, 8), FI("padded", i, 4), FI("unpadded", i, 4), FI("file_offset", i, 8)>> \o offsets

write_file_headers(d) ==
    Each([i \in 1 .. N(d) |-> HeaderFields(d, i, <<Num("sha_offset", i, sha_offset(d, i), 8),
                                               Num("aes_offset", i, aes_offset(d, i), 8)>>)])

Ranges(what, i, n) == <<Num(what, i, n, 4)>> \o Each([j \in 1 .. n |-> <<FI("start", 100 * i + j, 8), FI("end", 100 * i + j, 8)>>])
ShaPart(x, i) == <<Raw("sha", i, 0, 32)>> \o Ranges("sha_ranges", i, x.sha)
AesPart(x, i) == <<Raw("aes", i, 0, 16)>> \o Ranges("aes_ranges", i, x.aes)

Bhd5Start(d) == <<Magic("BHD5", 4), V("endian", IF d.be THEN 0 ELSE -1, 1)>>
Bhd5Flags == <<F("unk05", 1), Zeros(2), Const(1, 4), F("file_size", 4)>>
Salt(d) == <<V("salt_len", d.salt, 4), Magic("salt", d.salt)>>

bhd5_write(d) ==
    <<Endian(d.be)>> \o Bhd5Start(d) \o Bhd5Flags
    \o <<V("bucket_count", Buckets(d), 8), V("buckets_offset", buckets_offset(d), 8)>> \o Salt(d)
    \o Each([k \in 1 .. Buckets(d) |-> <<Num("count", k, d.buckets[k], 4), Const(1, 4),
                                     Num("header_offset", k, header_offset(d, k), 8)>>])
    \o write_file_headers(d)
    \o Each([i \in 1 .. N(d) |-> When(d.files[i].sha >= 0, ShaPart(d.files[i], i))
                             \o When(d.files[i].aes >= 0, AesPart(d.files[i], i))])

\* The words at 0x14 and 0x1C of a 64-bit header, the upper halves of two
\* little-endian numbers.  (Of big-endian ones they are the lower halves.)
is64_bit(d) == /\ metadata_offset(d) + SumTo(MetaSize(d), N(d)) > 40
               /\ ~d.be \/ Buckets(d) = 0

\* Which file has the j-th header of bucket k.
FileOf(d, k, j) == SumTo(d.buckets, k - 1) + j
HeaderWidth(d) == IF is64_bit(d) THEN 8 ELSE 4

\* A file's hash or key: present when its offset is not zero.
AtOffset(key, i, n, part) == IF n >= 0 THEN Get(key, i, part) ELSE <<>>

parse_bhd5(d) ==
    <<Endian(FALSE)>> \o Bhd5Start(d) \o <<Endian(d.be)>> \o Bhd5Flags
    \o <<V("bucket_count", Buckets(d), HeaderWidth(d)), Offset("buckets_offset", 0, HeaderWidth(d))>> \o Salt(d)
    \o Get("buckets_offset", 0,
           Each([k \in 1 .. Buckets(d) |-> <<Num("count", k, d.buckets[k], 4), Const(1, 4),
                                         Offset("header_offset", k, 8)>>]))
    \o Each([k \in 1 .. Buckets(d) |->
            When(d.buckets[k] > 0,
                 Get("header_offset", k,
                     Each([j \in 1 .. d.buckets[k] |->
                          LET i == FileOf(d, k, j)
                          IN  HeaderFields(d, i, <<Offset("sha_offset", i, 8), Offset("aes_offset", i, 8)>>)])))])
    \o Each([i \in 1 .. N(d) |->
            AtOffset("sha_offset", i, d.files[i].sha, <<Raw("sha", i, 0, 32), Num("sha_ranges", i, d.files[i].sha, 4)>>)
            \o AtOffset("aes_offset", i, d.files[i].aes, <<Raw("aes", i, 0, 16), Num("aes_ranges", i, d.files[i].aes, 4)>>)])
    \o Each([i \in 1 .. N(d) |-> AtOffset("sha_offset", i, d.files[i].sha, ShaPart(d.files[i], i))
                             \o AtOffset("aes_offset", i, d.files[i].aes, AesPart(d.files[i], i))])
-----------------------------------------------------------------------------
\* docs/api-mapping/extensions.md, line 19, on the console blocks of TPF: they
\* "are skipped past on read and emitted as zeros on write".  So the reader
\* finds the name's offset behind the block it has skipped.
ConsoleBlocksWritten ==
    phase = "read" /\ pc <= Len(Reads[doc]) /\ R.name = "FileName" /\ R.op = "offset" => Matches(R)
-----------------------------------------------------------------------------
ArchiveWrites(d) == CASE d.fmt = "BND"  -> bnd_write_to_writer(d)
                      [] d.fmt = "BND2" -> bnd2_write_to_writer(d)
                      [] d.fmt = "TPF"  -> tpf_write_to_writer(d)
                      [] d.fmt = "ENFL" -> enfl_write_to_writer(d)
                      [] d.fmt = "BHD5" -> bhd5_write(d)
                      [] OTHER -> BinderWrites(d)
ArchiveReads(d) == CASE d.fmt = "BND"  -> bnd_read(d)
                     [] d.fmt = "BND2" -> bnd2_read(d)
                     [] d.fmt = "TPF"  -> tpf_populate(d)
                     [] d.fmt = "ENFL" -> enfl_read_from_reader(d)
                     [] d.fmt = "BHD5" -> parse_bhd5(d)
                     [] OTHER -> BinderReads(d)
=============================================================================
