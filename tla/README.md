# A TLA+ model of souls-formats-c

souls-formats-c is a C11 library that reads and writes the file formats of
FromSoftware's games. This directory holds TLA+ modules that model its core,
TLC configurations that check them on small instances, and TLAPS proofs of the
results that matter for every instance. Source paths below are relative to
`src/`.

## 1. Inventory

The library is single threaded, apart from the Oodle loader, and keeps no state
between calls, apart from the loader and one global default of the reader. What
is hard in it is therefore sequences of calls and failures in the middle of
them: every allocation, read, write and seek may fail, and the caller goes on
with an object that an earlier call left half way.

| Component | State | Operations | What is hard | What makes it correct |
|---|---|---|---|---|
| Output stream, `src/core/stream.c` | buffer or file, position, length | write, seek, to_array, detach | a file write that stops midway; size_t overflow | memory: all or nothing; the length covers what was written; what is reported as position is where the next byte goes |
| Reservation table, `src/core/binary_writer.c` | open-addressing table of (name, kind) -> position, two counters | push, pop, peek, rehash | tombstones, collisions, load limit, failed growth | it is a partial map; probes end; the counters are exact |
| Binary writer, `src/core/binary_writer.c` | stream, step stack, reservations, varint mode, closed flag | writes, pads, step in/out, reserve, fill, finish | fill is four steps that may each fail; varint width may change between reserve and fill | no placeholder survives in a finished file; a fill touches its own bytes only |
| Binary reader, `src/core/binary_reader.c` | stream, step stack, flexible flag, varint mode | reads, arrays, strings, asserts, Get, steps, pads | loops that stop in the middle; steps pushed by calls that fail; terminators | positions stay in the buffer; a Get restores the position; strings end at the first terminator |
| Oodle loader, `src/compression/oodle/oodle_loader.c` | DLL handle, bound symbols, version, negative cache, lock | load, unload, set_search_path, compress, decompress | threads; a lock-free fast path; partially bound DLLs | no call through an unbound pointer; every call returns |
| DCX containers, `src/compression/dcx.c`, `src/core/sf_util.c` | none between calls; buffers it owns during one | sniff, compress, decompress, unwrap, decompressed reader | nine container types, nesting, ownership on every failure | round trip of data and info; every block released or handed over; unwrap terminates |
| EDGE chunk tables, `src/compression/dcx.c` | loop indices and offsets | wrap_edge, decompress_edge | sizes at block and word boundaries; offsets computed twice | chunks fit their buffer; what is written is read back |
| Codecs, `src/compression/*` | none | inflate, deflate, zstd, Oodle wrappers | third-party | allocation on failure |
| Binders, `src/archive/bnd*.c`, `bxf*.c`, `binder_common.c`, `sf_binder.c` | file list, pooled names, data source | open, read, add, remove, write | per-file reservations filled in later passes; name and data ownership; header flags in two bit orders; hash table | round trip of files, flags and hash table |
| BHD5, `src/archive/bhd5.c`, `src/core/filename_hash.c` | buckets of file headers | read, write, look up, decrypt ranges | hash wrap-around, bucket choice, ranges | round trip; a file is found by its hash; ranges stay inside the file |
| TPF, ENFL, `src/archive` | texture and file lists | read, write | per-platform headers | round trip |
| Crypto, `src/crypto` | none | regulation, SL2, AES/RSA/MD5 over CNG | order of checksum and decryption | pure transformation |
| Params, `src/param` | rows, definitions | read, write, apply, XML | bit fields, header variants, string dedup | round trip |
| Text, `src/text/fmg.c` | entries | read, write | grouping of consecutive IDs | round trip, lookup |
| Scripts, `src/script` | events, states | read, write | offset tables, graphs | round trip |
| Maps, `src/map` | lists of entries | read, write | chained lists, per-type sub-structures by offset | round trip |
| Lighting, `src/lighting` | groups, lights | read, write | widths by version, shared texts | round trip |
| Effects and animation, `src/effects` | animations with events; containers, states and conditions | read, write | sections whose lengths are not stored; conditions with exchanged operands | round trip |
| Cutscenes, `src/misc/mqb.c` | cuts, timelines, events, resources | read, write | events that timelines refer to by offset; parameters whose data follows later | round trip |
| Navigation, `src/navmesh` | meshes, graphs, boxes | read, write | boxes walked twice by one queue; entry sizes computed from padded lengths | round trip |
| Materials, `src/geom/mtd.c`, `matbin.c` | parameters, textures | read, write | blocks inside blocks whose lengths are filled at their ends | round trip |
| Geometry, `src/geom/flver*.c`, and the smaller formats | record lists | read, write | large layouts | round trip |

Interaction: every format reads through the binary reader and writes through
the binary writer; readers get their input through `sf_get_decompressed_reader`
or `sf_dcx_unwrap`, which use the DCX code, which uses the codecs and, for
KRAK, the Oodle loader.

## 2. Plan

In this order, most depended-upon first:

1. `ReservationTable` against the abstract `Reservations`, with proofs (done).
2. `OStream`, `BinaryWriter`, `BinaryReader` (done).
3. `OodleLoader` with threads (done).
4. `Dcx`, and `DcxEdge` with proofs (done).
5. `Layout`, the passes of a format's writer and reader, with `Binders`,
   `Archives`, `Tables`, `Scripts`, `Lights`, `LegacyMaps` and `Maps` on it:
   BND3, BND4, BXF3, BXF4, BND, BND2, TPF, ENFL, BHD5, FMG, PARAM, EMEVD, ESD,
   PMDCL, BTAB, BTL, GPARAM and the MSB maps of fourteen games (done).
6. On `Layout`: `Animations` (TAE), `Cutscenes` (MQB), `Effects` (FXR3),
   `Navigation` (NVM, MCG, MCP, NVA, EDGE), `Materials` (MTD, MATBIN) and
   `Definitions` (PARAMDEF, rows with bit fields) (done).
7. `BinderFiles`: the lists of files of the binders, pooled names, the lazy
   readers, and which allocator frees what (done).
8. Theorems about the writer, the reader, the loader, the containers and,
   for formats that write forward, the layout engine; about the blocks of
   `BinderFiles` (done).
9. On `Layout`: FLVER and the smaller formats. `Bhd5Extract`: size checks,
   decryption of ranges, lookup by hash.

## 3. Modules

| Module | Models | State | Actions |
|---|---|---|---|
| `Reservations` | the reservation set, abstractly | a partial map and the last return value | Push, Pop, Peek |
| `ReservationTable` | `sfres_*`, `reservations_*` in `binary_writer.c` | slots, capacity, counters, the push under way | PushFits, PushGrows, PushGrowFails, RehashSlot, RehashDone, Insert*, Absent, Pop, Peek |
| `ReservationTableProofs` | - | - | proofs about `ReservationTable` |
| `OStream` | `sf_ostream_*` in `stream.c` | a stream as a value | operators giving all outcomes of a call |
| `BinaryWriter` | `sf_binary_writer_*` | stream, steps, reservations, modes | one per kind of call |
| `BinaryReader` | `sf_binary_reader_*`, `sf_istream_*` | input, position, steps, modes | ReadCall, Get, StepIn, StepOut, PadFrom, Skip, SetMode |
| `BinaryWriterProofs`, `BinaryReaderProofs` | - | - | proofs about `BinaryWriter` and `BinaryReader` |
| `OodleLoader` | `oodle_loader.c` | the globals, the lock, one program counter per thread | one per access to a global |
| `OodleLoaderProofs` | - | - | proofs about `OodleLoader` |
| `Dcx` | `dcx.c`, `sf_util.c` | the caller's document, the unwrap loop, live allocations | Compress, Decompress, Unwrap*, GetDecompressedReader |
| `DcxEdge` | `wrap_edge`, `decompress_edge` | loop indices, offsets, the stored chunks and entries | one per turn of each loop |
| `DcxProofs`, `DcxEdgeProofs` | - | - | proofs about `Dcx` and `DcxEdge` |
| `Layout` | what every format does with the binary writer and reader | the file as cells by offset, open placeholders, marks and offsets read, byte order, step stack | one per kind of operation, WriteDone, ReadDone |
| `LayoutProofs` | - | - | proofs about `Layout` |
| `Binders` | `binder_common.c`, `bnd3.c`, `bnd4.c`, `bxf3.c`, `bxf4.c` | - | operations of writers and readers |
| `Archives` | `bnd.c`, `bnd2.c`, `tpf.c`, `enfl.c`, `bhd5.c` | - | operations of writers and readers |
| `Tables` | `fmg.c`, `param.c` | - | operations of writers and readers |
| `Scripts` | `emevd*.c`, `esd.c`, `esd_write.c` | - | operations of writers and readers |
| `Lights` | `pmdcl.c`, `btab.c`, `btl.c`, `gparam.c` | - | operations of writers and readers |
| `LegacyMaps` | `map/msb_legacy_common.c`, `map/{msb1,msbb,msbd,msbdr,msb2,msb3,msbac4,msbfa,msbv,msbvd,msbn}/` | - | operations of writers and readers |
| `Maps` | `map/msb_common.c`, `map/{msbs,msbe,msbvi}/` | - | operations of writers and readers |
| `Animations` | `effects/tae.c` | - | operations of writer and reader |
| `Cutscenes` | `misc/mqb.c` | - | operations of writer and reader |
| `Effects` | `effects/fxr3.c` | - | operations of writer and reader |
| `Navigation` | `navmesh/{nvm,mcg,mcp,nva,edge}.c` | - | operations of writers and readers |
| `Materials` | `geom/{mtd,matbin}.c` | - | operations of writers and readers |
| `Definitions` | `param/paramdef.c`, `param/paramdef_apply.c` | - | operations of writers and readers |
| `BinderFiles` | `bnd3.c`, `bnd4.c`, `bxf3.c`, `bxf4.c`, `bhd5.c`, `binder_common.c`: what a handle owns | the handle and its files, the live blocks, what the caller holds, what was misused or lost | one per call: Create, Read, Destroy, AddFile, AddOwnFile, AddFileTake, RemoveFile, SetVersion, Write, WriteBhd5, ReaderOpen, ReaderRead, ReaderClose; FreeMine for the caller |
| `BinderFilesProofs` | - | - | proofs about `BinderFiles` |

`BinaryWriter` uses the partial map of `Reservations` for its reservations;
`ReservationTable` is what the code has in its place, and the refinement
theorem is the licence for the exchange.

A format is given to `Layout` by two operators: the sequence of operations its
writer performs for a document (`bnd4_write_to_writer(d)`), and the sequence
its reader performs if it finds what the document says (`bnd4_read(d)`). Both
follow their C function call by call. `Layout` runs the first on an empty file
and the second on the result. A cell of the file records which field, of which
entry, with which width, byte order and, where something depends on it, value,
was written there; the reader compares. Offsets are values: a reader goes where
the cell it read says, not where the document would have it. Neither machine
has a step for a failed call: the properties say that none fails, so a run
would stop at the first that did. Names, texts and data are numbers that tell
equal ones apart, and lengths; the path hash of a name is part of the document.
An ESD document has its conditions as a tree; `esd_collect_layout` gives them
their order in the file, in which the reader, which only sees offsets, must find
them again (`Points`).
An entry of a map is a record of its head (fields, and slots for the offsets of
its pieces), of what the reader makes of the head (`seen`, equal to it unless
the C functions differ), of the reader's checks and of its pieces, in the order
in which the writer emits them. `write_entry` and `read_entry` turn it into
operations: slots are reserved, each piece fills its slot with the distance from
the entry and follows, and the reader tests the offsets and then goes to each.
The lists are chained by `NextList`; the chain is read to its end before any
entry is. Offsets are 32 bits wide and texts ASCII in `LegacyMaps`, 64 bits and
UTF-16 in `Maps`. Games whose source files are the same text up to a prefix
share operators under their own names.
The rows of a param have no offsets of their own: in `Definitions` the writer
collects the bits of neighbouring cells in a window and emits it when the next
cell does not fit, and the reader goes where a layout built from the definition
says. The values of bit fields are numbers, so that a window is compared bit by
bit; `Require` states what the reader makes of them.
In `Effects` a condition comes back as an equivalent one: for two relations the
writer exchanges the operands, and the reader has a rule of its own for when to
exchange them back.
`BinderFiles` has no bytes. A block is an address; every call is one action with
an outcome for each point at which it may fail. During a call no address is given
out twice; at its end the blocks that somebody holds are renumbered after the
places that hold them, so the state space is finite and `FailedCallKeepsFiles`
compares which places hold a block. Whether the memory of a call comes
from the caller's allocator is a flag of the call (`custom`). A loop that releases
a list, allocates several blocks in a row or extracts all files is one expression
(`Release`, `Taken` and `Run`, `Extracted`); the theorems `ReleaseStep`,
`TakenStep` and `ExtractStep` say that it agrees with one more turn of the loop.
The two files of a BXF pair, and the packed lists of ENFL, are one address
space in two halves.

Operators whose names end in `_Something` and whose comment begins "Mutant:"
are wrong versions of the definition below them. No specification uses them:
they document, for each property, a plausible bug it would catch.

A stream has two positions: `pos`, which it keeps and reports, and `at`, where the
next byte goes. They differ on a file when `sfi_ostream_to_array` could not seek
back, a failure it does not look at; every seek makes them one again. A write of
several elements or buffers is a loop of requests (`WriteChunked`), and what went
out before a failing one stays.
A decoding in `BinderFiles` may fail cleanly, or fail and leave its output live:
`decompress_edge` returns on bad chunk tables (`dcx.c:327`, 338, 345, 357) without
freeing it. Such a block is held by nobody from the start; `Lose` takes it out of
the heap and into `lost`, and the call reports it in `leaked`.

A write is a number of bytes of one of a few contents (data, zeros, the
placeholder of a key): the byte order and the encoded values are not modelled,
nor are the decoded values of a read (`Layout` has byte order and values).
In the reader a byte is 0, 1 or 2, enough to tell zero, a valid boolean and
anything else apart. A container in `Dcx` is its header fields and its payload,
and the codecs are a choice between success and each failure the wrapper
reports.

## 4. Runs

| Run | Instance | Shows |
|---|---|---|
| `reservation_table` | three colliding names, 4 slots that double to 8, two positions | the table is well formed at every step of every rehash, finds every reservation, counts right, and implements `Reservations` |
| `writer` | a stream of at most 3 bytes, memory or file; one name with kinds I8 and I16 whose placeholders may overlap; writes of two bytes in one request or two; steps to offset 0 | placeholders, fills, finish and copies under every failure |
| `reader` | every input of 4 bytes over {0,1,2}, memory or file; one read call of every kind | positions, Get, loops, strings |
| `oodle_loader` | 3 threads, 2 calls each, two directories, DLLs missing, partial and complete | no bad call, honest negative cache, every call returns |
| `oodle_fast_path` | 2 threads | finding: the fast path sees a DLL that is not bound yet |
| `dcx` | 8 infos, 4 bodies, containers 3 deep, unwrap of depth 3 | round trip, no leak except EDGE's, unwrap ends |
| `formats` | 673 documents: each format with no entries and with three or more, sizes on both sides of the alignments, equal names, empty files, and every flag that changes the layout | every placeholder is filled once and as the kind it was made, nothing overlaps, and every reader finds what its writer wrote |
| `formats_console` | TPFs for three consoles | finding: console blocks are skipped but never written |
| `maps_minimal` | a map of Armored Core VI with one entry in each list | finding: a part that was written cannot be read |
| `binder_files` | one handle of each binder at a time, 2 files in a list, 2 held by the caller, two allocators, failures at every allocation and read | every block has one owner and is released once, to the allocator it came from; the known misuses and leaks (section 5) are the only ones; a call that fails leaves the list as it was |
| `binder_open` | a BND3 in a DCX | finding: the buffer of the file is freed twice |
| `dcx_edge` | 0 to 5 blocks, 17 bytes on both sides of each boundary, words of 5 blocks | chunks fit, round trip |

Bounds. The table needs one growth with live, dead and empty slots and walks
that wrap: 4 slots are enough for all. The writer needs two placeholders that
overlap and a request that does not fit: 3 bytes with widths 1 and 2. That the
width of a varint may change between reserve and fill is not in the run: its keys
have the width in them, and the theorems hold for every kind. The
reader needs a request that fits exactly, one that ends inside and one past the
end, and a terminator across two units: 4 bytes. Three threads are the least
with which a waiter, a holder and a user of the loader are different. Three
layers are the least with a first, a middle and a last one; the depth of
`sf_dcx_unwrap` is a constant, 3 in `dcx` where the code has 8. In
`binder_files` two files are the least with which one is moved when another is
removed or the list grows, and two held files the least with which one of them
is given back while the other is still out. The addresses of blocks are
renumbered between calls, which keeps the states finite; no call compares them.

A document of `formats` needs an empty list, an empty entry between two others,
an entry that ends off the alignment, and two entries that share a string or a
hash group: three files, four rows or six texts have all of it.

Documents that do not come back are left out of `formats`, each for a reason in
the code (so `ReadersAgree` says nothing of them):

* a binder format byte with bit 7 set and `bit_big_endian` false: writer and
  reader decide differently whether to reverse it;
* a big-endian BHD5, or one of at most 40 bytes: `parse_bhd5` takes its header
  for a 32-bit one (`bhd5.c:467-476`), while `sf_bhd5_write` writes 64 bits;
* an ENFL with different numbers of strings and second structs: the reader
  (`enfl.c:111`) counts one by the other;
* a PARAM with INT_DATA_OFFSET and without FLAG01: `param_write` keeps the start
  of the data at 0x04, `read_data_start` reads it at 0x30;
* a BTL of version 16 or later with `long_offsets` false: the size of a light
  is 0xE8 either way (`btl.c:365`), and the reader takes it for long offsets;
* a GPARAM before version 6 with a nonzero `unk` in a field (asserted 0 by the
  reader), with more than 127 values in one, or with a `data30` that is not a
  multiple of 4 bytes (the padding is read as part of it);
* a BTAB with its byte order flag set, which the reader refuses;
* a map of MSB1 with so many models (16,380 or more) that the first list's name
  lies beyond 0xFFFF: the reader's test of that offset for the byte order
  (`msb1.c`) then takes the file for a big-endian one;
* an entry of MSBE whose `other_id` is -1, which the writer replaces by the index
  of the entry;
* a TAE whose skeleton or sib name is empty but not NULL: only its offset is
  written; or with an end time above 100, which comes back as 100. The names of a
  SOTFS file are not read back and the parameters of an event come back with
  their padding; the model says the same;
* an FXR3 with tables other than the state map and the root container: the
  reader ignores their offsets and counts;
* an NVM with more than 0x3FFF obstacles in a triangle (the count is cut), an MCG
  whose node has another number of edges than of connected nodes (one count is
  written for both), an NVA section whose entries do not fill a multiple of 16
  bytes (the padding is counted as part of them);
* an MTD texture without `extended` that has a path or floats: they are not
  written;
* a big-endian PARAMDEF: the writer stores the byte 0xFF (`paramdef.c:944`), the
  reader takes only 0x01 for big-endian (`paramdef.c:577`);
* a row with a bit field of size 0 (the size of the row accepts it, the layout
  refuses it), with a bit field that is also an array (the size counts the array,
  the layout one window), or with a name whose `[n]` is smaller than the field's
  byte count (the row is then smaller than its layout and cannot be written);
* a map of MSBVI with parts (finding below);
* a console TPF (finding below).

Where a map's reader leaves something out the model does too: the part index and
the region index of an MSBVI event are written as -1 whatever they were, and the
reader of an MSBE part takes two of its offsets from 4 bytes before where they
are written and only asks whether they are zero, which they are when the offsets
are.

Equal IDs of an FMG and equal hashes of a hash table are taken in their order;
`qsort` may choose another. A full path of BND2 without a drive comes back with
`K:\`, and an unnamed file of BND with a generated name, as the model says.

`VIEW` in the reader and the writer leaves out `last`, the description of the
last call: no action reads it.

Fairness. `OodleLoader` assumes weak fairness of each thread's steps inside a
call, and that a waiter gets a critical section that is released infinitely
often: a thread in the library is never blocked by the library except at the
lock. `Dcx` assumes that a call that was entered runs on. No fairness is
assumed of callers: nobody has to call anything.

Deadlock is checked everywhere except in `dcx_edge`, which follows one
compression and one decompression to their ends and stops there. The runs
`formats_console` and `maps_minimal` leave it out too: a reader that cannot go on
stops, and the property they check is what says so.

## 5. Findings

* `oodle_fast_path`: `sf_oodle_load` tests `g_oodle` without the lock. The
  handle is published before the symbols are bound, so a second thread may
  return from `load` with function pointers missing; the comment at
  `oodle_loader.c:166` says the opposite.
* `binder_open`: when `sf_bnd3_reader_open_*` opens a file in a DCX, the reader of
  the compressed bytes is destroyed with them and `raw_buf` is freed again at the
  exit.
* `formats_console`: `docs/api-mapping/extensions.md:19` says the console blocks
  of TPF are written as zeros; `tpf_write_one_header` writes none, so the reader
  looks for the offset of the name 8 to 12 bytes too far.
* `maps_minimal`: `msbvi_part_write_one` writes two constants of a part 24 bytes
  before the place where `msbvi_part_read_one` requires them, so a map with a
  part does not come back. `docs/roadmap/phase-5-script-map.md:222` asks for a
  test with one part; the tests of the repository write an empty list.

`OnlyKnownMisuse` and `OnlyKnownLeaks` of `binder_files` name what else goes
wrong with the blocks of the binders, and hold of every call of the model with
these exceptions and no others: a file got from a binder
and added to it again is read after the list was moved (`bnd4.c:763`);
`set_version` of BND3 and BXF3 with the text that `get_version` returned copies
it after freeing it; texts of headers that came from the caller's allocator are
released to the default one (`binder_common.c:394`); the writers that BND3, BXF3,
BXF4 and BHD5 finish are never destroyed; a late failure of BND4's `reader_open`
loses a reader, and BHD5 loses its bytes when no reader can be made on them; a
read, a `reader_open` or a load of a file that fails on a corrupt EDGE container
may lose the block it was decoded into (`dcx.c:320`, reached through
`sf_util.c:59` and `bnd3.c:385`, `bxf3.c:402`, `bxf4.c:444`), the leak that
`OnlyEdgeLeaks` excuses in `dcx`.

Besides, `sfi_ostream_to_array` ignores a failing seek back (`stream.c:254`, 261):
the stream then reports a position other than the one it writes at, and a
placeholder reserved before the next seek goes out elsewhere than its
reservation says. `HolesAreReserved` and `FinishedIsComplete` excuse it (`torn`),
as they excuse a placeholder cut short by a failing write.

Further, `step_in` pushes before it seeks and keeps the step when the seek fails,
so a later unmatched `step_out` succeeds
(`docs/api-mapping/util-io-binary-reader-ex.md:24` says otherwise); `sf_dcx_unwrap`
takes 7 layers where `sf_dcx.h:213` says 8; `extract_bits` and `insert_bits` load
8 bytes from a window of 8 bytes at offsets above 0 (`paramdef_apply.c:90`), which
touches up to 3 bytes after it and changes no value; a failing read of an MQB or
an FXR3 does not release what it had read so far; `sf_dcx.h:108` allows negative Oodle levels (`HYPER_FAST1` = -1), which
pass through the `uint8_t` `compression_level` and reach the compressor as 255;
and `docs/api-mapping/util-io-binary-writer-ex.md` says that a fill
removes the reservation before it writes; the code removes it afterwards, which
is what `FillFrame` requires.

## 6. Proofs

`ReservationTableProofs`, for all names, kinds, positions, hash functions and
initial capacities above 1:

* `TableInvariant`: `Spec => []IndInv`. Findability alone is not inductive: a
  pop or an insertion elsewhere could cut or double a walk. `IndInv` says that
  no key is live twice, that no EMPTY slot lies between a live key's home and
  its slot, that the counters are exact and that the load is at most 7/10 (with
  room for the insertion to come between the growth and the insertion), and the
  same of the half-filled new table during a rehash, together with what has
  been moved so far.
* `ProbesTerminate`, `AlwaysFindable`, `CountsCorrect`, `RehashCorrect`:
  consequences of `IndInv`; the first is a pigeonhole argument from the load.
* `Refinement`: `Spec => Abstract!Spec` under the map that the slots stand for.

`DcxEdgeProofs`, for every input size and every range of the header words:

* `EdgeInvariant`: the loops keep their offsets in step (`IndInv`, by loop).
* `EdgeStoredFits`: chunks lie inside the buffer and do not overlap.
* `EdgeRoundTrip`: `decompress_edge` accepts what `wrap_edge` wrote and gives
  back every byte.

In both modules `TableTypes` and `EdgeTypes` are the type invariants.

`BinaryWriterProofs`, for all names, kinds, contents and step depths, any bounds
and both kinds of stream:

* `ReservationsAreWritten`, `HolesAreAccountedFor`, `FinishedStreamsAreComplete`,
  `FillsAreFramed`, `WriterTypes`. That placeholders are reserved is not
  inductive by itself: a fill forgets its reservation, so all placeholder bytes
  of its key must lie in the region it has just overwritten; and a seek or write
  on the way may fail. `FillFrame` needs `ReservedIsWritten`: a region beyond the length would make
  the fill extend the stream. `IndInv` is the well-formedness of stream, steps and modes,
  `ReservedIsWritten`, `HolesAreReserved` and that a finished writer has no
  reservation, together.

`BinaryReaderProofs`, for every contents, size, step depth and set of read calls
(`OpsAssumption` says only that they are calls the reader has):

* `PositionsInBounds`, `StepsMatchNesting`, `ReaderTypes`: inductive together
  (`IndInv`), because a step out goes to a position that was pushed earlier.
* `GetsRestore`, `LoopsAreComplete`, `StringsAreCutRight`: what one call does,
  from the outcomes it may have. The first bad element and the first terminator
  are least elements of sets of offsets, found by the well-foundedness of the
  order, so no induction over the data is needed.

`OodleLoaderProofs`, for any number of threads, libraries and search paths
(`NullAssumption`: NULL is no thread and no library):

* `UnlockedIsConsistent`, `NegativeCacheIsHonest`, `LoaderTypes`,
  `WarmCallsAreGood`. The last holds for callers that wait for a completed load;
  the run `oodle_fast_path` shows what happens otherwise. `IndInv` says, for each
  place in the code where the lock is held, what the globals are there (which
  functions are bound, what is mapped, whether a version is set), that the lock
  has one holder, and that nobody unloads while somebody codes.

`DcxProofs`, for every set of compression infos of the right shape
(`InfoAssumption`), every nesting and depth limit:

* `ContainersRoundTrip`: through the header field by field, the two
  single-byte fields and the top byte of the word at 0x38 included.
* `UnwrapIsComplete`: `IndInv` says that during unwrap the current buffer is the
  document with as many containers off as the loop has turned, or the stream
  that decompresses to itself.
* `LeaksAreEdgeLeaks`, `ReadersAreOwned`, `DcxIsTyped`. A container cut short
  fails as its type does (`decompress_short`): those with a header of fixed size
  before anything is allocated, zlib in the codec, EDGE possibly after the
  allocation.

`LayoutProofs`, for every document and every sequence of operations whose
widths fit their kinds (`WritesAssumption`), provided the writer goes forward:
it never steps back and stays in one stream, and pads from marks it has made
(`OneWay`; 518 of the 673 documents of the run `formats`, all but those of BXF3,
BXF4, ENFL and MATBIN, those of FMG with entries and some of ESD):

* `ForwardWritersAreDisjoint`: nothing is written over anything else, fills
  included, and the placeholders are the open reservations (`CellsDisjoint`).
* `ForwardWritersLeaveNoGap`, `FinishedFilesHaveNoHole`: every byte before the
  position belongs to a field, and none of a finished file is a placeholder.
  `IndInv` has the cells before the position and apart, each open reservation
  at a placeholder of the width of its kind, and no two at the same: that is
  why a fill replaces a cell by one of its own width.

`BinderFilesProofs`, for every set of kinds, every bound on the files of a list
and on the blocks of the caller, every failing allocation and every sequence of
calls:

* `OwnerOfEachBlock`, `KnownMisuseOnly`, `KnownLeaksOnly`, `FailureKeepsFiles`,
  `BinderFilesType`: the five properties of the run `binder_files`. `OnlyKnownLeaks` covers
  the blocks that a failing decoding leaves behind too: the exceptions it names,
  which section 5 lists, are the only ways a call of the model loses a block, for
  any number of files.
* `BinderFilesInvariant`: `Spec => []IndInv`. That each pointer is held once is not
  inductive: a call releases what its handle points to and must leave nothing
  live behind, and it writes into an array that must be there and be large enough.
  `IndInv` adds that the live blocks are exactly those that a handle or the caller
  holds, each numbered after its place; that a list lies within its array, which is
  there if and only if it has room; that there is at most one handle, and no binder
  for BHD5; and what the last call may have misused or lost. `KeepsLost` and
  `KnownLoss` carry the second kind of loss from the decoding through every
  operation above it.
* The argument goes by operations. `Gives(m, m2, S)` is the contract of one: from
  memory m to m2 it allocated the blocks S, gave back everything else it had taken,
  and misused nothing (but for a foreign release under the caller's allocator). One
  lemma per operation states it for every outcome, from those of the operations
  it calls. A call on an existing handle is reasoned about from an empty memory, as
  if the handle's blocks had been given since. At the end of a call the blocks
  keep apart under the renumbering because each has one place.
* `ReleaseStep`, `TakenStep`, `ExtractStep`: the loops in one expression.

Only model-checked: liveness (`CallsReturn`, `UnwrapEnds`), which is out of the
prover's reach; `WritersFinish` and `ReadersAgree`, which are facts about each
format's two operation sequences, built by folds and recursive functions over
documents of any length, about which nothing can be proved without induction;
`TypeOK` of `Layout`, whose reader goes where the values in the file lead;
and `CellsDisjoint` for the formats that write two streams or step back.

## 7. Not modelled

Decoded values and text encodings (default values of a definition among them);
the codecs; Windows file I/O beyond "it may fail"; XML; logging and error texts;
accessors and setters of the formats; the allocations a format's reader makes,
except those of the binders and of DCX; extraction from BHD5 archives (the check
at `bhd5.c:725` casts a negative difference, which costs an allocation that the
failing read after it gives up); the sample programs and tests; vendored code.
FLVER, FFXDLSE, the TAE templates and the smaller formats are in the plan.
