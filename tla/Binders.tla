------------------------------ MODULE Binders -------------------------------
(***************************************************************************)
(* The file binders BND3 and BND4 and their split forms BXF3 (BHF3, BDF3)  *)
(* and BXF4 (BHF4, BDF4): the passes of their writers and readers.         *)
(*                                                                         *)
(* A binder document is                                                    *)
(*   [fmt, format, be, bbe, unicode, ext, headers_end, files]              *)
(* with the format byte, the two byte orders, and for each file its size,  *)
(* whether it is compressed and to which size, the length of its name with *)
(* the terminator in characters, and the hash of its name.                 *)
(***************************************************************************)
EXTENDS Layout, SequencesExt

\* The operations s[1], s[2], ... one after the other (TLC evaluates the
\* elements of a concatenation once).
Each(s) == FlattenSeq(<<>> \o s)
When(b, ops) == IF b THEN ops ELSE <<>>
-----------------------------------------------------------------------------
(***************************************************************************)
(* The format byte.                                                        *)
(***************************************************************************)
Bit(b, k) == (b \div 2 ^ k) % 2 = 1

force_big_endian(f) == Bit(f, 0)
has_ids(f)          == Bit(f, 1)
has_names(f)        == Bit(f, 2) \/ Bit(f, 3)
has_long_offsets(f) == Bit(f, 4)
has_compression(f)  == Bit(f, 5)
has_flag6(f)        == Bit(f, 6)
NAMES1 == 4

reverse_bits_u8(b) ==
    LET at(k) == IF Bit(b, k) THEN 2 ^ (7 - k) ELSE 0
    IN  at(0) + at(1) + at(2) + at(3) + at(4) + at(5) + at(6) + at(7)

write_format(f, bbe) ==
    IF bbe \/ (force_big_endian(f) /\ has_flag6(f)) THEN f ELSE reverse_bits_u8(f)

read_format(raw, bbe) ==
    IF bbe \/ (Bit(raw, 0) /\ ~Bit(raw, 7)) THEN raw ELSE reverse_bits_u8(raw)

\* The flags of a file go through the same reversal, on the bit order alone.
COMPRESSED == 1
file_flags(b, bbe) == IF bbe THEN b ELSE reverse_bits_u8(b)
FileFlags(d, i) == Num("flags", i, file_flags(IF d.files[i].compressed THEN COMPRESSED ELSE 0, d.bbe), 1)
-----------------------------------------------------------------------------
(***************************************************************************)
(* File headers, names and data.                                           *)
(***************************************************************************)
get_bnd4_file_header_size(f) ==
    16 + (IF has_long_offsets(f) THEN 8 ELSE 4) + (IF has_compression(f) THEN 8 ELSE 0)
       + (IF has_ids(f) THEN 4 ELSE 0) + (IF has_names(f) THEN 4 ELSE 0)
       + (IF f = NAMES1 THEN 8 ELSE 0)

OffsetKind(f) == IF has_long_offsets(f) THEN "I64" ELSE "U32"
StoredSize(x) == IF x.compressed THEN x.csize ELSE x.size

binder3_write_file_header(d, i) ==
    <<FileFlags(d, i), Zeros(3), Reserve("FileCompressedSize", i, "I32"),
      Reserve("FileDataOffset", i, OffsetKind(d.format))>>
    \o When(has_ids(d.format), <<FI("id", i, 4)>>)
    \o When(has_names(d.format), <<Reserve("FileNameOffset", i, "I32")>>)
    \o When(has_compression(d.format), <<Reserve("FileUncompressedSize", i, "I32")>>)

binder3_read_file_header(d, i) ==
    <<FileFlags(d, i), Zeros(3), Num("FileCompressedSize", i, StoredSize(d.files[i]), 4),
      Offset("FileDataOffset", i, KindWidth[OffsetKind(d.format)])>>
    \o When(has_ids(d.format), <<FI("id", i, 4)>>)
    \o When(has_names(d.format),
            <<Offset("FileNameOffset", i, 4)>>
            \o Get("FileNameOffset", i, <<Raw("name", i, 0, d.files[i].name)>>))
    \o When(has_compression(d.format), <<Num("FileUncompressedSize", i, d.files[i].size, 4)>>)

binder4_write_file_header(d, i) ==
    <<FileFlags(d, i), Zeros(3), Const(-1, 4), Reserve("FileCompressedSize", i, "I64")>>
    \o When(has_compression(d.format), <<Reserve("FileUncompressedSize", i, "I64")>>)
    \o <<Reserve("FileDataOffset", i, OffsetKind(d.format))>>
    \o When(has_ids(d.format), <<FI("id", i, 4)>>)
    \o When(has_names(d.format), <<Reserve("FileNameOffset", i, "I32")>>)
    \o When(d.format = NAMES1, <<FI("id", i, 4), Const(0, 4)>>)

NameWidth(d, i) == d.files[i].name * (IF d.unicode THEN 2 ELSE 1)

binder4_read_file_header(d, i) ==
    <<FileFlags(d, i), Zeros(3), Const(-1, 4),
      Num("FileCompressedSize", i, StoredSize(d.files[i]), 8)>>
    \o When(has_compression(d.format), <<Num("FileUncompressedSize", i, d.files[i].size, 8)>>)
    \o <<Offset("FileDataOffset", i, KindWidth[OffsetKind(d.format)])>>
    \o When(has_ids(d.format), <<FI("id", i, 4)>>)
    \o When(has_names(d.format),
            <<Offset("FileNameOffset", i, 4)>>
            \o Get("FileNameOffset", i, <<Raw("name", i, 0, NameWidth(d, i))>>))
    \o When(d.format = NAMES1, <<FI("id", i, 4), Const(0, 4)>>)

write_file_name(d, i, width) ==
    When(has_names(d.format), <<FillPos("FileNameOffset", i, "I32"), Raw("name", i, 0, width)>>)

\* Mutant: the offset is taken before the padding.
write_file_data_core_PadsAfter(x, i) ==
    <<At(i)>> \o When(x.size > 0, <<Pad(16)>>) \o <<Raw("data", i, 0, StoredSize(x))>>
\* The padding, the offset taken for the header, the bytes.
write_file_data_core(x, i) ==
    When(x.size > 0, <<Pad(16)>>) \o <<At(i), Raw("data", i, 0, StoredSize(x))>>

\* Mutant: an empty file's header is left as it is.
FillFileHeader_SkipsEmpty(d, i, w) ==
    When(d.files[i].size > 0,
         <<Fill("FileCompressedSize", i, StoredSize(d.files[i]), w)>>
         \o When(has_compression(d.format), <<Fill("FileUncompressedSize", i, d.files[i].size, w)>>)
         \o <<FillMark("FileDataOffset", i, i, OffsetKind(d.format))>>)
\* The header's placeholders, sizes of kind w.
FillFileHeader(d, i, w) ==
    <<Fill("FileCompressedSize", i, StoredSize(d.files[i]), w)>>
    \o When(has_compression(d.format), <<Fill("FileUncompressedSize", i, d.files[i].size, w)>>)
    \o <<FillMark("FileDataOffset", i, i, OffsetKind(d.format))>>

binder_write_file_data(d, i, w) == write_file_data_core(d.files[i], i) \o FillFileHeader(d, i, w)

extract_file_data(d, i) ==
    When(StoredSize(d.files[i]) > 0,
         Get("FileDataOffset", i, <<Raw("data", i, 0, StoredSize(d.files[i]))>>))
-----------------------------------------------------------------------------
(***************************************************************************)
(* The hash table of BND4 and BHF4: files grouped by hash modulo a prime,  *)
(* ascending by hash within a group.                                       *)
(***************************************************************************)
is_prime(p) == p > 1 /\ \A k \in 2 .. p - 1 : p % k # 0

hash_table_group_count(n) == CHOOSE p \in n \div 7 .. n + 2 :
                               is_prime(p) /\ \A q \in n \div 7 .. p - 1 : ~is_prime(q)

\* The files' indices in the order they are stored in.
Ordered(d) ==
    LET n == Len(d.files)
        g == hash_table_group_count(n)
        h(i) == d.files[i].hash
    IN  SetToSortSeq(1 .. n, LAMBDA i, j : \/ h(i) % g < h(j) % g
                                           \/ h(i) % g = h(j) % g /\ h(i) < h(j)
                                           \/ h(i) = h(j) /\ i < j)

\* The groups, each with how many files it has and where they begin.
Groups(d) ==
    LET g == hash_table_group_count(Len(d.files))
        in(k) == Cardinality({i \in 1 .. Len(d.files) : d.files[i].hash % g = k})
        before(k) == Cardinality({i \in 1 .. Len(d.files) : d.files[i].hash % g < k})
    IN  [k \in 0 .. g - 1 |-> <<in(k), before(k)>>]

hash_table_write(d) ==
    LET g == hash_table_group_count(Len(d.files))
    IN  <<Reserve("HashesOffset", 0, "I64"), V("group_count", g, 4), Magic("10080800", 4)>>
        \o Each([k \in 1 .. g |-> <<Num("group_length", k, Groups(d)[k - 1][1], 4),
                                Num("group_index", k, Groups(d)[k - 1][2], 4)>>])
        \o <<FillPos("HashesOffset", 0, "I64")>>
        \o Each([j \in DOMAIN d.files |-> <<Num("hash", j, d.files[Ordered(d)[j]].hash, 4),
                                           Num("hash_index", j, Ordered(d)[j] - 1, 4)>>])

hash_table_assert(d) ==
    <<Offset("HashesOffset", 0, 8), V("group_count", hash_table_group_count(Len(d.files)), 4),
      Magic("10080800", 4)>>
-----------------------------------------------------------------------------
(***************************************************************************)
(* BND3, BHF3 and BDF3.                                                    *)
(***************************************************************************)
N(d) == Len(d.files)
HostBigEndian(d) == d.be \/ force_big_endian(d.format)
FormatByte(d) == V("format", write_format(d.format, d.bbe), 1)
ReadFormat(d) == <<FormatByte(d), Require(read_format(write_format(d.format, d.bbe), d.bbe) = d.format)>>

\* 0x00 .. 0x0F; the bit order at 0x0E is looked at before the format byte.
Prefix3(d, magic) == <<Magic(magic, 4), Magic("version", 8)>>
Orders3(d) == <<Bool("big_endian", d.be), Bool("bit_big_endian", d.bbe), Zeros(1)>>

bnd3_write_to_writer(d) ==
    <<Endian(HostBigEndian(d))>> \o Prefix3(d, "BND3") \o <<FormatByte(d)>> \o Orders3(d)
    \o <<V("file_count", N(d), 4), Reserve("FileHeadersEnd", 0, "I32"), F("unk18", 4), Const(0, 4)>>
    \o Each([i \in 1 .. N(d) |-> binder3_write_file_header(d, i)])
    \o Each([i \in 1 .. N(d) |-> write_file_name(d, i, d.files[i].name)])
    \o (IF d.headers_end THEN <<FillPos("FileHeadersEnd", 0, "I32")>> ELSE <<Fill("FileHeadersEnd", 0, 0, "I32")>>)
    \o Each([i \in 1 .. N(d) |-> binder_write_file_data(d, i, "I32")])

bnd3_read(d) ==
    Prefix3(d, "BND3") \o ReadFormat(d) \o Orders3(d) \o <<Endian(HostBigEndian(d))>>
    \o <<V("file_count", N(d), 4), Offset("FileHeadersEnd", 0, 4), F("unk18", 4), Const(0, 4)>>
    \o Each([i \in 1 .. N(d) |-> binder3_read_file_header(d, i)])
    \o Each([i \in 1 .. N(d) |-> extract_file_data(d, i)])

bxf3_write_bhf_header(d) ==
    <<Endian(HostBigEndian(d))>> \o Prefix3(d, "BHF3") \o <<FormatByte(d)>> \o Orders3(d)
    \o <<V("file_count", N(d), 4), Const(0, 4), Const(0, 4), Const(0, 4)>>
    \o Each([i \in 1 .. N(d) |-> binder3_write_file_header(d, i)])
    \o Each([i \in 1 .. N(d) |-> write_file_name(d, i, d.files[i].name)])

\* The data goes to the second file; fills go back to the first, in its own
\* byte order.
bxf_write_file_data(d, i, w, bigEndian) ==
    <<Stream(1)>> \o write_file_data_core(d.files[i], i)
    \o <<Stream(0), Endian(bigEndian)>> \o FillFileHeader(d, i, w)

\* The BDF3 header is a magic, the version and zeros.
Bdf3Header == <<Magic("BDF3", 4), Magic("version", 8), Const(0, 4)>>

bxf3_write_to_writers(d) ==
    <<Stream(1)>> \o Bdf3Header \o <<Stream(0)>> \o bxf3_write_bhf_header(d)
    \o Each([i \in 1 .. N(d) |-> bxf_write_file_data(d, i, "I32", HostBigEndian(d))])

bxf3_read(d) ==
    <<Stream(1)>> \o Bdf3Header \o <<Stream(0)>>
    \o Prefix3(d, "BHF3") \o ReadFormat(d) \o Orders3(d) \o <<Endian(HostBigEndian(d))>>
    \o <<V("file_count", N(d), 4), Const(0, 4), Const(0, 4), Const(0, 4)>>
    \o Each([i \in 1 .. N(d) |-> binder3_read_file_header(d, i)])
    \o <<Stream(1)>> \o Each([i \in 1 .. N(d) |-> extract_file_data(d, i)])
-----------------------------------------------------------------------------
(***************************************************************************)
(* BND4, BHF4 and BDF4.                                                    *)
(***************************************************************************)
Prefix4(d, magic) ==
    <<Magic(magic, 4), F("unk04", 1), F("unk05", 1), Zeros(3), Bool("big_endian", d.be),
      Bool("not_bit_big_endian", ~d.bbe), Zeros(1)>>
Sizes4(d) == <<V("file_count", N(d), 4), Const(64, 8), Magic("version", 8),
               V("file_header_size", get_bnd4_file_header_size(d.format), 8)>>

HashTable(d) ==
    IF d.ext = 4 THEN <<Pad(8), FillPos("HashTableOffset", 0, "I64")>> \o hash_table_write(d)
    ELSE <<Fill("HashTableOffset", 0, 0, "I64")>>

AssertHashTable(d) ==
    IF d.ext = 4 THEN <<Offset("HashTableOffset", 0, 8)>> \o Get("HashTableOffset", 0, hash_table_assert(d))
    ELSE <<Num("HashTableOffset", 0, 0, 8)>>

Flags4(d) == <<Bool("unicode", d.unicode)>>
Extended(d) == <<V("extended", d.ext, 1), Zeros(1), Const(0, 4)>>

bnd4_write_to_writer(d) ==
    <<Endian(d.be)>> \o Prefix4(d, "BND4") \o Sizes4(d) \o <<Reserve("HeadersEnd", 0, "I64")>>
    \o Flags4(d) \o <<FormatByte(d)>> \o Extended(d) \o <<Reserve("HashTableOffset", 0, "I64")>>
    \o Each([i \in 1 .. N(d) |-> binder4_write_file_header(d, i)])
    \o Each([i \in 1 .. N(d) |-> write_file_name(d, i, NameWidth(d, i))])
    \o HashTable(d)
    \o <<FillPos("HeadersEnd", 0, "I64")>>
    \o Each([i \in 1 .. N(d) |-> binder_write_file_data(d, i, "I64")])

\* The hash table is asserted before the header size is compared.
bnd4_read(d) ==
    Prefix4(d, "BND4") \o <<Endian(d.be)>> \o Sizes4(d) \o <<Offset("HeadersEnd", 0, 8)>>
    \o Flags4(d) \o ReadFormat(d) \o Extended(d) \o AssertHashTable(d)
    \o Each([i \in 1 .. N(d) |-> binder4_read_file_header(d, i)])
    \o Each([i \in 1 .. N(d) |-> extract_file_data(d, i)])

bxf4_write_bhf_header(d) ==
    <<Endian(d.be)>> \o Prefix4(d, "BHF4") \o Sizes4(d) \o <<Const(0, 8)>>
    \o Flags4(d) \o <<FormatByte(d)>> \o Extended(d) \o <<Reserve("HashTableOffset", 0, "I64")>>
    \o Each([i \in 1 .. N(d) |-> binder4_write_file_header(d, i)])
    \o Each([i \in 1 .. N(d) |-> write_file_name(d, i, NameWidth(d, i))])
    \o HashTable(d)

Bdf4Header(d) == Prefix4(d, "BDF4") \o <<Endian(d.be)>>
                 \o <<Const(0, 4), Const(48, 8), Magic("version", 8), Const(0, 8), Const(0, 8)>>

bxf4_write_to_writers(d) ==
    <<Stream(1)>> \o Bdf4Header(d) \o <<Stream(0)>> \o bxf4_write_bhf_header(d)
    \o Each([i \in 1 .. N(d) |-> bxf_write_file_data(d, i, "I64", d.be)])

bxf4_read(d) ==
    <<Stream(1)>> \o Bdf4Header(d) \o <<Stream(0), Endian(FALSE)>>
    \o Prefix4(d, "BHF4") \o <<Endian(d.be)>> \o Sizes4(d) \o <<Const(0, 8)>>
    \o Flags4(d) \o ReadFormat(d) \o Extended(d) \o AssertHashTable(d)
    \o Each([i \in 1 .. N(d) |-> binder4_read_file_header(d, i)])
    \o <<Stream(1)>> \o Each([i \in 1 .. N(d) |-> extract_file_data(d, i)])
-----------------------------------------------------------------------------
BinderWrites(d) == CASE d.fmt = "BND3" -> bnd3_write_to_writer(d)
                     [] d.fmt = "BXF3" -> bxf3_write_to_writers(d)
                     [] d.fmt = "BND4" -> bnd4_write_to_writer(d)
                     [] d.fmt = "BXF4" -> bxf4_write_to_writers(d)
BinderReads(d) == CASE d.fmt = "BND3" -> bnd3_read(d)
                    [] d.fmt = "BXF3" -> bxf3_read(d)
                    [] d.fmt = "BND4" -> bnd4_read(d)
                    [] d.fmt = "BXF4" -> bxf4_read(d)
=============================================================================
