------------------------------ MODULE BinderFiles ------------------------------
(***************************************************************************)
(* Who owns the memory of an archive handle: the file lists of the four    *)
(* binders (BND3, BND4, BXF3, BXF4), their streaming readers and the BHD5  *)
(* handle.  The bytes of the files are the business of module Binders;     *)
(* here a block is only its address, and every operation is the sequence   *)
(* of allocations and releases of the C code, any of which may fail.       *)
(*                                                                         *)
(* A pointer is a natural number, 0 the null pointer.  An operation takes  *)
(* a memory m and yields the set of its outcomes, one for each way its     *)
(* allocations, reads and decodings may go.  In m, heap is the set of live *)
(* blocks, lost that of the live blocks whose only pointer a function      *)
(* dropped on its way out, next the address the next block gets (no        *)
(* address is given out twice during a call), custom whether the caller    *)
(* passed an allocator of its own, and bad the misuses seen: a block       *)
(* released twice ("twice"), read after its release ("stale"), or released *)
(* to the default allocator although the caller's allocated it             *)
(* ("foreign").                                                            *)
(***************************************************************************)
EXTENDS Integers, Sequences, FiniteSets

CONSTANTS
  Kinds,       \* the kinds of archive, of "bnd3", "bnd4", "bxf3", "bxf4", "bhd5"
  MaxFiles,    \* bound: the files of a list
  MaxMine      \* bound: the blocks the caller holds

ASSUME KindsAssumption == Kinds \subseteq {"bnd3", "bnd4", "bxf3", "bxf4", "bhd5"}
ASSUME BoundsAssumption == MaxFiles \in Nat \ {0} /\ MaxMine \in Nat \ {0}

VARIABLES
  kind,        \* the kind of archive this behaviour works with
  binder,      \* the handle of sf_*_create and sf_*_read, or NoBinder
  reader,      \* the handle of sf_*_reader_open or sf_bhd5_open, or NoReader
  heap,        \* the live blocks somebody holds
  mine,        \* the blocks that belong to the caller
  failed,      \* whether the last call returned an error
  misuse,      \* <<call, what>> for what it did wrong to blocks, {} for nothing
  leaked       \* <<call, how>> if it left a live block that nobody holds: "lost" by
               \* a function it called, or "unheld" when it ended; {} for none

vars == <<kind, binder, reader, heap, mine, failed, misuse, leaked>>

File(name, data) == [name |-> name, data |-> data]
BinderOf(self, version, files, cap, list, pool) ==
  [self |-> self, version |-> version, files |-> files, cap |-> cap, list |-> list, pool |-> pool]
NoBinder == BinderOf(0, 0, 0, 0, <<>>, 0)

\* A binary reader and the stream in it are one block, self; buf is the buffer
\* it took over, or 0.
Br(self, buf) == [self |-> self, buf |-> buf]
NoBr == Br(0, 0)
\* A streaming reader has one of them, or with separate data a second one.
ReaderOf(self, version, headers, files, pool, count, br, br2) ==
  [self |-> self, version |-> version, headers |-> headers, files |-> files, pool |-> pool,
   count |-> count, br |-> br, br2 |-> br2]
NoReader == ReaderOf(0, 0, 0, 0, 0, 0, NoBr, NoBr)

Binder == {"bnd3", "bnd4", "bxf3", "bxf4"}
\* The two kinds whose headers and data are separate files.
Split == {"bxf3", "bxf4"}
Sides == IF kind \in Split THEN 2 ELSE 1

(***************************************************************************)
(* The allocator.                                                          *)
(***************************************************************************)
Mem(h, n, b, c, l) == [heap |-> h, next |-> n, bad |-> b, custom |-> c, lost |-> l]

\* The memory after k allocations, and the blocks they gave.
Taken(m, k) == Mem(m.heap \cup (m.next .. m.next + k - 1), m.next + k, m.bad, m.custom, m.lost)
Run(m, k) == [i \in 1 .. k |-> m.next + i - 1]

Given(m, p) == [ok |-> TRUE, p |-> p, m |-> m]
Refused(m) == [ok |-> FALSE, p |-> 0, m |-> m]
sf_xalloc(m) == {Refused(m), Given(Taken(m, 1), m.next)}
AllocIf(needed, m) == IF needed THEN sf_xalloc(m) ELSE {Given(m, 0)}

Bad(m, what) == Mem(m.heap, m.next, m.bad \cup {what}, m.custom, m.lost)
sf_xfree(m, p) ==
  Mem(m.heap \ {p}, m.next, IF p \in m.heap \cup {0} THEN m.bad ELSE m.bad \cup {"twice"}, m.custom, m.lost)

\* The blocks among the pointers ps, and whether no two of ps are the same block.
Blocks(ps) == {ps[x] : x \in DOMAIN ps} \ {0}
Once(ps) == \A x, y \in DOMAIN ps : ps[x] # 0 /\ ps[x] = ps[y] => x = y
\* One sf_xfree for each of ps.
Release(m, ps) ==
  Mem(m.heap \ Blocks(ps), m.next,
      IF Once(ps) /\ Blocks(ps) \subseteq m.heap THEN m.bad ELSE m.bad \cup {"twice"}, m.custom, m.lost)

\* The memory after the last pointer to the live block p is gone.
Lose(m, p) == Mem(m.heap \ {p}, m.next, m.bad, m.custom, m.lost \cup {p})

\* The memory after the bytes behind p were read.
Touch(m, p) == IF p = 0 \/ p \in m.heap THEN m ELSE Bad(m, "stale")

\* sf_free(NULL, s) of a string the reader's allocator made: the two allocators
\* agree only when the caller passed none of its own.
FreeDefault(m) == IF m.custom THEN Bad(m, "foreign") ELSE m

\* Grow a block: it fails, stays in place or moves.
sf_xrealloc(m, p) ==
  {Refused(m)} \cup (IF p = 0 THEN {} ELSE {Given(m, p)})
  \cup {Given(sf_xfree(Taken(m, 1), p), m.next)}

\* n blocks, or none of them: the ones made before a failure are released.
AllocAll(m, n) ==
  {[ok |-> TRUE, m |-> Taken(m, n), ps |-> Run(m, n)]}
  \cup {[ok |-> FALSE, m |-> Release(Taken(m, k), Run(m, k)), ps |-> <<>>] : k \in 0 .. n - 1}

(***************************************************************************)
(* Readers.                                                                *)
(***************************************************************************)
binary_reader_destroy(m, br) == Release(m, <<br.buf, br.self>>)
\* The readers of both sides; the second is NoBr where there is one file.
DestroyReaders(m, br, br2) == binary_reader_destroy(binary_reader_destroy(m, br), br2)

Opened(ok, m, br) == [ok |-> ok, m |-> m, br |-> br]
create_from_memory(m, buf) ==
  {Opened(s.ok, s.m, IF s.ok THEN Br(s.p, buf) ELSE NoBr) : s \in sf_xalloc(m)}

\* The decoded bytes in a block of their own, or none; a corrupt EDGE container
\* gives none although its block is allocated, and that block is nobody's.
sf_dcx_decompress_from_buffer(m) == sf_xalloc(m) \cup {Refused(Lose(Taken(m, 1), m.next))}

\* sf_get_decompressed_reader: br itself, or a new reader that owns the decoded bytes.
open_decompressed(m, br, dcx) ==
  IF ~dcx THEN {Opened(TRUE, m, br)}
  ELSE UNION {IF ~d.ok THEN {Opened(FALSE, d.m, NoBr)}
              ELSE {IF c.ok THEN c ELSE Opened(FALSE, sf_xfree(c.m, d.p), NoBr) :
                       c \in create_from_memory(d.m, d.p)}
              : d \in sf_dcx_decompress_from_buffer(m)}

\* The part of an archive's bytes that holds the headers, read through br: it
\* allocates the version and the headers, and on failure keeps neither.
\* The names are copied and the first copies go to the default allocator.
Headers(ok, m, version, headers) == [ok |-> ok, m |-> m, version |-> version, headers |-> headers]
NoHeaders(m) == Headers(FALSE, m, 0, 0)
read_header(m, n, named) ==
  LET seen == IF named /\ n > 0 THEN FreeDefault(m) ELSE m
  IN {NoHeaders(m), NoHeaders(seen)}
     \cup UNION {{IF h.ok THEN Headers(TRUE, h.m, v.p, h.p) ELSE NoHeaders(sf_xfree(h.m, v.p)) :
                     h \in AllocIf(n > 0, v.m)} : v \in {o \in sf_xalloc(seen) : o.ok}}

\* The header of the data file of a split binder: its version string is read,
\* and given to the default allocator.
read_bdf_header(m) ==
  IF kind \notin Split THEN {Given(m, 0)}
  ELSE {Refused(m), Refused(FreeDefault(m)), Given(FreeDefault(m), 0)}

\* All headers of an archive: those of the data file first.
read_headers(m, n, named) ==
  UNION {IF d.ok THEN read_header(d.m, n, named) ELSE {NoHeaders(d.m)} : d \in read_bdf_header(m)}

(***************************************************************************)
(* File lists.                                                             *)
(***************************************************************************)
\* Mutant: every name is taken for an allocation of its own.
name_in_pool_Never(name, pool) == FALSE

name_in_pool(name, pool) == pool # 0 /\ name = pool

\* The blocks a list of files holds: a name in the pool is none of its own.
OwnName(f, pool) == IF name_in_pool(f.name, pool) THEN 0 ELSE f.name
FilePointers(list, pool) ==
  [x \in (DOMAIN list) \X {1, 2} |-> IF x[2] = 1 THEN OwnName(list[x[1]], pool) ELSE list[x[1]].data]

file_free(m, f, pool) == Release(m, <<OwnName(f, pool), f.data>>)
FilesFree(m, list, pool) == Release(m, FilePointers(list, pool))

\* The names of all files in one block; each name_utf8 points into it.
bulk_copy_names(m, n, named) == AllocIf(n > 0 /\ named, m)

\* A copy of a file of which named and sized say whether it has a name and bytes.
Copied(ok, m, file) == [ok |-> ok, m |-> m, file |-> file]
file_dup(m, named, sized) ==
  UNION {IF ~s.ok THEN {Copied(FALSE, s.m, File(0, 0))}
         ELSE {IF d.ok THEN Copied(TRUE, d.m, File(s.p, d.p))
               ELSE Copied(FALSE, sf_xfree(d.m, s.p), File(0, 0)) : d \in AllocIf(sized, s.m)}
         : s \in AllocIf(named, m)}

\* The bytes of one file in an archive: none, stored as they are or as a DCX.
Forms == {"empty", "stored", "packed"}
extract_file_data(m, form) ==
  UNION {IF ~raw.ok THEN {raw}
         ELSE {Refused(sf_xfree(raw.m, raw.p))}
              \cup (IF form = "packed"
                    THEN {IF d.ok THEN Given(sf_xfree(d.m, raw.p), d.p) ELSE Refused(sf_xfree(d.m, raw.p)) :
                             d \in sf_dcx_decompress_from_buffer(raw.m)}
                    ELSE {raw})
         : raw \in AllocIf(form # "empty", m)}

Built(ok, m, b) == [ok |-> ok, m |-> m, b |-> b]
create(m) ==
  UNION {IF ~s.ok THEN {Built(FALSE, s.m, NoBinder)}
         ELSE {IF v.ok THEN Built(TRUE, v.m, BinderOf(s.p, v.p, 0, 0, <<>>, 0))
               ELSE Built(FALSE, sf_xfree(v.m, s.p), NoBinder) : v \in sf_xalloc(s.m)}
         : s \in sf_xalloc(m)}

destroy(m, b) ==
  Release(FilesFree(m, b.list, b.pool), <<b.pool, b.files, b.version, b.self>>)

(***************************************************************************)
(* Reading a binder as a whole.  In BND3 and BND4 the names are copied     *)
(* before the data is extracted, in BXF3 and BXF4 after it.                *)
(***************************************************************************)
CopyNames(o, n, named) ==
  IF ~o.ok THEN {o}
  ELSE {Built(p.ok, p.m, BinderOf(o.b.self, o.b.version, o.b.files, o.b.cap,
                                  [i \in DOMAIN o.b.list |-> File(p.p, o.b.list[i].data)], p.p)) :
          p \in bulk_copy_names(o.m, n, named)}

\* The loop over the files: a turn that goes well takes one block for a stored
\* file, two for a packed one and gives back the first, none for an empty one.
Turns(form, k) == IF form = "empty" THEN 0 ELSE IF form = "stored" THEN k ELSE 2 * k
DataAt(m, form, i) == IF form = "empty" THEN 0 ELSE m.next + Turns(form, i) - 1
Extracted(m, form, k) ==
  Mem(m.heap \cup ({DataAt(m, form, i) : i \in 1 .. k} \ {0}), m.next + Turns(form, k), m.bad, m.custom, m.lost)
WithFiles(b, m, form, k) ==
  BinderOf(b.self, b.version, b.files, b.cap, [i \in 1 .. k |-> File(b.pool, DataAt(m, form, i))], b.pool)

\* All n turns, or k of them and one that fails.
ExtractAll(o, n, form) ==
  IF ~o.ok THEN {o}
  ELSE {Built(TRUE, Extracted(o.m, form, n), WithFiles(o.b, o.m, form, n))}
       \cup UNION {{Built(FALSE, d.m, WithFiles(o.b, o.m, form, k)) :
                       d \in {e \in extract_file_data(Extracted(o.m, form, k), form) : ~e.ok}}
                   : k \in 0 .. n - 1}

\* Mutant: the failure path forgets the pool of names.
EndPopulate_KeepsPool(o, headers) ==
  IF o.ok THEN Built(TRUE, sf_xfree(o.m, headers), o.b)
  ELSE Built(FALSE, Release(FilesFree(o.m, o.b.list, o.b.pool), <<o.b.files, headers>>),
             BinderOf(o.b.self, o.b.version, 0, 0, <<>>, 0))

\* Success keeps the files, failure releases them; the headers go either way.
EndPopulate(o, headers) ==
  IF o.ok THEN Built(TRUE, sf_xfree(o.m, headers), o.b)
  ELSE Built(FALSE, Release(FilesFree(o.m, o.b.list, o.b.pool), <<o.b.pool, o.b.files, headers>>),
             BinderOf(o.b.self, o.b.version, 0, 0, <<>>, 0))

ReadFiles(o, n, named, form) ==
  IF kind \in Split THEN UNION {CopyNames(x, n, named) : x \in ExtractAll(o, n, form)}
  ELSE UNION {ExtractAll(x, n, form) : x \in CopyNames(o, n, named)}

\* The files of an archive whose headers h were read, into the new binder b.
PopulateFrom(h, b, n, named, form) ==
  UNION {IF f.ok
         THEN {EndPopulate(x, h.headers) :
                 x \in ReadFiles(Built(TRUE, f.m, BinderOf(b.self, h.version, f.p, n, <<>>, 0)), n, named, form)}
         ELSE {Built(FALSE, sf_xfree(f.m, h.headers), BinderOf(b.self, h.version, 0, 0, <<>>, 0))}
         : f \in AllocIf(n > 0, sf_xfree(h.m, b.version))}
populate_from_reader(m, b, n, named, form) ==
  UNION {IF h.ok THEN PopulateFrom(h, b, n, named, form) ELSE {Built(FALSE, h.m, b)}
         : h \in read_headers(m, n, named)}

\* Two readers, one a side.
Pair(ok, m, a, b) == [ok |-> ok, m |-> m, a |-> a, b |-> b]
NoPair(m) == Pair(FALSE, m, NoBr, NoBr)

\* One reader a side; the ones opened before a failure are closed.
OpenRaw(m) ==
  {IF s.ok THEN Pair(TRUE, s.m, Br(s.ps[1], 0), IF Sides = 2 THEN Br(s.ps[2], 0) ELSE NoBr)
   ELSE NoPair(s.m) : s \in AllocAll(m, Sides)}

\* The reader to be destroyed besides raw: use, unless it is raw itself.
Extra(use, raw) == IF use = raw THEN NoBr ELSE use

OpenDecompressed(m, raw, dcx) ==
  UNION {IF ~u.ok THEN {NoPair(u.m)}
         ELSE IF Sides = 1 THEN {Pair(TRUE, u.m, u.br, NoBr)}
         ELSE {IF w.ok THEN Pair(TRUE, w.m, u.br, w.br)
               ELSE NoPair(binary_reader_destroy(w.m, Extra(u.br, raw.a))) :
                 w \in open_decompressed(u.m, raw.b, dcx)}
         : u \in open_decompressed(m, raw.a, dcx)}

\* A new binder with the files of the archive, or none.
ReadBinder(m, n, named, form) ==
  UNION {IF ~c.ok THEN {c}
         ELSE {IF p.ok THEN p ELSE Built(FALSE, destroy(p.m, p.b), NoBinder) :
                 p \in populate_from_reader(c.m, c.b, n, named, form)}
         : c \in create(m)}

read_from(m, n, named, form, dcx) ==
  UNION {IF ~raw.ok THEN {Built(FALSE, raw.m, NoBinder)}
         ELSE UNION {IF ~use.ok THEN {Built(FALSE, DestroyReaders(use.m, raw.a, raw.b), NoBinder)}
                     ELSE {Built(o.ok, DestroyReaders(DestroyReaders(o.m, Extra(use.a, raw.a), Extra(use.b, raw.b)),
                                                      raw.a, raw.b), o.b) :
                             o \in ReadBinder(use.m, n, named, form)}
                     : use \in OpenDecompressed(raw.m, raw, dcx)}
         : raw \in OpenRaw(m)}

(***************************************************************************)
(* Streaming readers.                                                      *)
(***************************************************************************)
reader_free(m, r) ==
  sf_xfree(DestroyReaders(Release(m, <<r.headers, r.files, r.pool, r.version>>), r.br, r.br2), r.self)

\* The whole file in a buffer, the buffer in a reader, the reader unwrapped.
\* raw is the buffer's address, which the caller keeps in BND3.
Loaded(ok, m, br, raw) == [ok |-> ok, m |-> m, br |-> br, raw |-> raw]
NotLoaded(m) == Loaded(FALSE, m, NoBr, 0)
Unwrap(c, raw, dcx) ==
  {IF ~u.ok THEN NotLoaded(binary_reader_destroy(u.m, c.br))
   ELSE Loaded(TRUE, IF u.br # c.br THEN binary_reader_destroy(u.m, c.br) ELSE u.m, u.br, raw)
   : u \in open_decompressed(c.m, c.br, dcx)}
load_file(m, dcx) ==
  UNION {IF ~b.ok THEN {NotLoaded(b.m)}
         ELSE {NotLoaded(sf_xfree(b.m, b.p))}
              \cup UNION {IF c.ok THEN Unwrap(c, b.p, dcx) ELSE {NotLoaded(sf_xfree(c.m, b.p))}
                          : c \in create_from_memory(b.m, b.p)}
         : b \in sf_xalloc(m)}

\* The files of both sides, and the buffer of the first.
Files(ok, m, a, b, raw) == [ok |-> ok, m |-> m, a |-> a, b |-> b, raw |-> raw]
NoFiles(m) == Files(FALSE, m, NoBr, NoBr, 0)
LoadFiles(m, dcx) ==
  UNION {IF ~l.ok THEN {NoFiles(l.m)}
         ELSE IF Sides = 1 THEN {Files(TRUE, l.m, l.br, NoBr, l.raw)}
         ELSE {IF k.ok THEN Files(TRUE, k.m, l.br, k.br, l.raw)
               ELSE NoFiles(binary_reader_destroy(k.m, l.br)) : k \in load_file(l.m, dcx)}
         : l \in load_file(m, dcx)}

\* BND3 releases raw_buf when the reader was replaced, although the replaced
\* reader, which owned it, is gone by then.
FreeRaw(m, x, dcx) == IF kind = "bnd3" /\ dcx THEN sf_xfree(m, x.raw) ELSE m

\* The two error exits: before the handle owns anything, and after.  The second
\* one of BND4 forgets the reader, which the handle does not hold yet.
cleanup_brs(m, x, dcx) == FreeRaw(DestroyReaders(m, x.a, x.b), x, dcx)
cleanup_rd(m, rd, x, dcx) ==
  IF kind = "bnd4" THEN reader_free(m, rd) ELSE cleanup_brs(reader_free(m, rd), x, dcx)

Handle(ok, m, r) == [ok |-> ok, m |-> m, r |-> r]
NoHandle(m) == Handle(FALSE, m, NoReader)

\* The handle rd of the files x, whose headers are h: its entries and its names.
FillReader(rd, h, x, n, named, dcx) ==
  UNION {LET r0 == ReaderOf(rd, h.version, h.headers, f.p, 0, n, NoBr, NoBr)
         IN IF ~f.ok THEN {NoHandle(cleanup_rd(f.m, r0, x, dcx))}
            ELSE {IF p.ok THEN Handle(TRUE, FreeRaw(p.m, x, dcx),
                                      ReaderOf(rd, h.version, h.headers, f.p, p.p, n, x.a, x.b))
                  ELSE NoHandle(cleanup_rd(p.m, r0, x, dcx)) : p \in bulk_copy_names(f.m, n, named)}
         : f \in AllocIf(n > 0, h.m)}

OpenHandle(x, n, named, dcx) ==
  UNION {IF ~rd.ok THEN {NoHandle(cleanup_brs(rd.m, x, dcx))}
         ELSE UNION {IF h.ok THEN FillReader(rd.p, h, x, n, named, dcx)
                     ELSE {NoHandle(cleanup_brs(sf_xfree(h.m, rd.p), x, dcx))}
                     : h \in read_headers(rd.m, n, named)}
         : rd \in sf_xalloc(x.m)}

reader_open(m, n, named, dcx) ==
  UNION {IF x.ok THEN OpenHandle(x, n, named, dcx) ELSE {NoHandle(x.m)} : x \in LoadFiles(m, dcx)}

(***************************************************************************)
(* BHD5: the header file is read, decrypted if its magic is missing, and   *)
(* parsed into the handle; the data file stays open in its stream.         *)
(***************************************************************************)
read_entire_wfile(m) ==
  UNION {IF b.ok THEN {b, Refused(sf_xfree(b.m, b.p))} ELSE {b} : b \in sf_xalloc(m)}

rsa_unwrap(m, bytes) ==
  {IF p.ok THEN Given(sf_xfree(p.m, bytes), p.p) ELSE Refused(sf_xfree(p.m, bytes)) : p \in sf_xalloc(m)}

\* The header file's plain bytes.
HeaderBytes(m, encrypted) ==
  UNION {IF encrypted /\ b.ok THEN rsa_unwrap(b.m, b.p) ELSE {b} : b \in read_entire_wfile(m)}

\* The handle with the first k of salt, buckets, files and ranges.
ArrayAt(m, k, i) == IF i <= k THEN m.next + i - 1 ELSE 0
WithArrays(r, m, k) ==
  ReaderOf(r.self, ArrayAt(m, k, 1), ArrayAt(m, k, 2), ArrayAt(m, k, 3), ArrayAt(m, k, 4), r.count, NoBr, NoBr)
\* Parsing may stop before any of the four and after the last.
ParseArrays(m, r) ==
  {Handle(FALSE, Taken(m, k), WithArrays(r, m, k)) : k \in 0 .. 4}
  \cup {Handle(TRUE, Taken(m, 4), WithArrays(r, m, 4))}

\* The reader takes the bytes over and releases them; if it cannot be made,
\* nobody does.
bhd5_parse(m, r, bytes) ==
  UNION {IF ~c.ok THEN {Handle(FALSE, c.m, r)}
         ELSE {Handle(o.ok, binary_reader_destroy(o.m, c.br), o.r) : o \in ParseArrays(c.m, r)}
         : c \in create_from_memory(m, bytes)}

\* The stream of the data file, which stays open.
OpenData(o) ==
  {IF s.ok THEN Handle(TRUE, s.m, ReaderOf(o.r.self, o.r.version, o.r.headers, o.r.files, o.r.pool,
                                           o.r.count, Br(s.p, 0), NoBr))
   ELSE NoHandle(reader_free(s.m, o.r)) : s \in sf_xalloc(o.m)}

OpenParsed(m, self, bytes) ==
  UNION {IF o.ok THEN OpenData(o) ELSE {NoHandle(reader_free(o.m, o.r))}
         : o \in bhd5_parse(m, ReaderOf(self, 0, 0, 0, 0, MaxFiles, NoBr, NoBr), bytes)}

bhd5_open(m, encrypted) ==
  UNION {IF ~t.ok THEN {NoHandle(t.m)}
         ELSE UNION {IF b.ok THEN OpenParsed(b.m, b.p, t.p) ELSE {NoHandle(sf_xfree(b.m, t.p))}
                     : b \in sf_xalloc(t.m)}
         : t \in HeaderBytes(m, encrypted)}

extract_file(m, sized) ==
  {Refused(m)} \cup UNION {IF b.ok THEN {b, Refused(sf_xfree(b.m, b.p))} ELSE {b} : b \in AllocIf(sized, m)}

(***************************************************************************)
(* Writing.  A stream and a writer are a block each.                       *)
(***************************************************************************)
\* A write's outcome; out is the set of blocks that go to the caller.
Wrote(ok, m, out) == [ok |-> ok, m |-> m, out |-> out]

\* Ending the writers ws, one a side, into blocks for the caller or into files.
\* sf_binary_writer_finish and finish_bytes mark a writer closed and do not
\* release it: only BND4 destroys its writer afterwards.
FinishOne(m, toMemory) == {Refused(m)} \cup AllocIf(toMemory, m)
bnd4_finish(m, ws, toMemory) ==
  {Wrote(p.ok, p.m, {p.p} \ {0}) : p \in FinishOne(Release(m, ws), toMemory)}

finish_bytes(m, ws, toMemory) ==
  UNION {IF ~p.ok THEN {Wrote(FALSE, IF Sides = 2 THEN sf_xfree(p.m, ws[2]) ELSE p.m, {})}
         ELSE IF Sides = 1 THEN {Wrote(TRUE, p.m, {p.p} \ {0})}
         ELSE {IF q.ok THEN Wrote(TRUE, q.m, {p.p, q.p} \ {0}) ELSE Wrote(FALSE, sf_xfree(q.m, p.p), {})
               : q \in FinishOne(p.m, toMemory)}
         : p \in FinishOne(m, toMemory)}

\* The streams os are made first, then the writers; the streams go last.
WriteOn(os, toMemory) ==
  UNION {IF ~w.ok THEN {Wrote(FALSE, Release(w.m, os.ps), {})}
         ELSE {Wrote(FALSE, Release(Release(w.m, w.ps), os.ps), {})}
              \cup {Wrote(e.ok, Release(e.m, os.ps), e.out) :
                      e \in IF kind = "bnd4" THEN bnd4_finish(w.m, w.ps, toMemory)
                            ELSE finish_bytes(w.m, w.ps, toMemory)}
         : w \in AllocAll(os.m, Sides)}
write_to(m, toMemory) ==
  UNION {IF os.ok THEN WriteOn(os, toMemory) ELSE {Wrote(FALSE, os.m, {})} : os \in AllocAll(m, Sides)}

\* The three offset arrays, the stream and the writer; once finish was reached
\* the writer is forgotten, whatever finish returned.
bhd5_write(m) ==
  UNION {IF ~t.ok THEN {Wrote(FALSE, t.m, {})}
         ELSE UNION {IF ~s.ok THEN {Wrote(FALSE, Release(s.m, t.ps), {})}
                     ELSE {Wrote(done = "finished",
                                 Release(IF done = "stopped" THEN Release(s.m, s.ps) ELSE sf_xfree(s.m, s.ps[1]), t.ps), {})
                           : done \in {"stopped", "unfilled", "finished"}}
                     : s \in AllocAll(t.m, 2)}
         : t \in AllocAll(m, 3)}

(***************************************************************************)
(* The calls.                                                              *)
(***************************************************************************)
\* The pointers that the handles b and r hold, by place: <<0, i>> is a field of a
\* handle, <<i, 1>> the name of file i unless it is in the pool, <<i, 2>> its data.
Fixed(b, r) ==
  <<b.self, b.version, b.files, b.pool, r.self, r.version, r.headers, r.files, r.pool,
    r.br.self, r.br.buf, r.br2.self, r.br2.buf>>
Places(n) == ({0} \X (1 .. 13)) \cup ((1 .. n) \X {1, 2})
Pointers(b, r) ==
  [x \in Places(Len(b.list)) |-> IF x[1] = 0 THEN Fixed(b, r)[x[2]] ELSE FilePointers(b.list, b.pool)[x]]

\* Addresses mean nothing between calls but whether two are equal: a block is
\* renumbered after the place that holds it, a block of the caller's after all
\* of these.
Number(x) == 16 * x[1] + x[2]
Base == 16 * (MaxFiles + 1)
Address(ps, mn, p) ==
  IF p = 0 THEN 0
  ELSE IF \E x \in DOMAIN ps : ps[x] = p THEN Number(CHOOSE x \in DOMAIN ps : ps[x] = p)
  ELSE Base + Cardinality({q \in mn : q <= p})

BinderAt(ps, mn, b) ==
  BinderOf(Address(ps, mn, b.self), Address(ps, mn, b.version), Address(ps, mn, b.files), b.cap,
           [i \in 1 .. Len(b.list) |-> File(Address(ps, mn, b.list[i].name), Address(ps, mn, b.list[i].data))],
           Address(ps, mn, b.pool))
BrAt(ps, mn, br) == Br(Address(ps, mn, br.self), Address(ps, mn, br.buf))
ReaderAt(ps, mn, r) ==
  ReaderOf(Address(ps, mn, r.self), Address(ps, mn, r.version), Address(ps, mn, r.headers),
           Address(ps, mn, r.files), Address(ps, mn, r.pool), r.count, BrAt(ps, mn, r.br), BrAt(ps, mn, r.br2))

\* A call begins with no misuse and with addresses nobody holds.
Memory(custom) == Mem(heap, Base + MaxMine + 1, {}, custom, {})
Now == Memory(FALSE)

\* The end of the call c: the handles are b and r, the caller holds mn.
Return(c, ok, m, b, r, mn) ==
  LET ps == Pointers(b, r)
      held == Blocks(ps) \cup mn
  IN /\ failed' = ~ok
     /\ binder' = BinderAt(ps, mn, b)
     /\ reader' = ReaderAt(ps, mn, r)
     /\ mine' = {Address(ps, mn, p) : p \in mn}
     /\ heap' = {Address(ps, mn, p) : p \in m.heap \cap held}
     /\ misuse' = {<<c, what>> : what \in m.bad}
     /\ leaked' = (IF m.heap \subseteq held THEN {} ELSE {<<c, "unheld">>})
                  \cup (IF m.lost = {} THEN {} ELSE {<<c, "lost">>})
     /\ UNCHANGED kind

\* Bound: the caller works with one handle at a time.  Handles share no block.
Idle == binder = NoBinder /\ reader = NoReader

Create ==
  /\ kind \in Binder /\ Idle
  /\ \E o \in create(Now) : Return("create", o.ok, o.m, o.b, reader, mine)

Read ==
  /\ kind \in Binder /\ Idle
  /\ \E n \in 0 .. MaxFiles, named, dcx, custom \in BOOLEAN, form \in Forms :
       \E o \in read_from(Memory(custom), n, named, form, dcx) :
          Return(IF dcx \/ form = "packed" THEN "read_dcx" ELSE "read", o.ok, o.m, o.b, reader, mine)

Destroy ==
  /\ binder # NoBinder
  /\ Return("destroy", TRUE, destroy(Now, binder), NoBinder, reader, mine)

WithArray(b, p, cap) == BinderOf(b.self, b.version, p, cap, b.list, b.pool)
WithList(b, list) == BinderOf(b.self, b.version, b.files, b.cap, list, b.pool)
WithVersion(b, p) == BinderOf(b.self, p, b.files, b.cap, b.list, b.pool)

\* Mutant: a full array is taken for one with room.
grow_files_OffByOne(m, b) ==
  IF Len(b.list) <= b.cap THEN {Built(TRUE, m, b)}
  ELSE {IF g.ok THEN Built(TRUE, g.m, WithArray(b, g.p, 2 * b.cap)) ELSE Built(FALSE, g.m, b) :
          g \in sf_xrealloc(m, b.files)}

\* Room for one more file, in b itself or in b with an array that holds it.
grow_files(m, b) ==
  IF Len(b.list) < b.cap THEN {Built(TRUE, m, b)}
  ELSE {IF g.ok THEN Built(TRUE, g.m, WithArray(b, g.p, IF b.cap = 0 THEN 8 ELSE 2 * b.cap))
        ELSE Built(FALSE, g.m, b) : g \in sf_xrealloc(m, b.files)}

\* at is the block that holds the struct the caller points to, 0 for its own.
add_file(m, b, named, sized, at) ==
  UNION {IF ~g.ok THEN {g}
         ELSE {Built(d.ok, d.m, IF d.ok THEN WithList(g.b, Append(g.b.list, d.file)) ELSE g.b) :
                 d \in file_dup(Touch(g.m, at), named, sized)} : g \in grow_files(m, b)}

AddFile ==
  /\ binder # NoBinder /\ Len(binder.list) < MaxFiles
  /\ \E named, sized \in BOOLEAN :
       \E o \in add_file(Now, binder, named, sized, 0) :
          Return("add_file", o.ok, o.m, o.b, reader, mine)

\* The argument is what sf_*_get_file returned: a file of the same binder.
AddOwnFile ==
  /\ Len(binder.list) < MaxFiles
  /\ \E i \in 1 .. Len(binder.list) :
       \E o \in add_file(Now, binder, binder.list[i].name # 0, binder.list[i].data # 0, binder.files) :
          Return("add_own", o.ok, o.m, o.b, reader, mine)

\* Mutant: the file is entered before its name is copied.
add_file_take_CountsFirst(m, b, named, data) ==
  UNION {IF ~g.ok THEN {g}
         ELSE {Built(s.ok, s.m, WithList(g.b, Append(g.b.list, File(s.p, data)))) :
                 s \in AllocIf(named, g.m)} : g \in grow_files(m, b)}

add_file_take(m, b, named, data) ==
  UNION {IF ~g.ok THEN {g}
         ELSE {Built(s.ok, s.m, IF s.ok THEN WithList(g.b, Append(g.b.list, File(s.p, data))) ELSE g.b) :
                 s \in AllocIf(named, g.m)} : g \in grow_files(m, b)}

AddFileTake ==
  /\ kind = "bnd4" /\ binder # NoBinder /\ Len(binder.list) < MaxFiles
  /\ \E named \in BOOLEAN, data \in mine \cup {0} :
       \E o \in add_file_take(Now, binder, named, data) :
          Return("add_file_take", o.ok, o.m, o.b, reader, IF o.ok THEN mine \ {data} ELSE mine)

\* Mutant: the entry behind the list is dropped, not the one that was released.
remove_file_DropsLast(m, b, i) ==
  [m |-> file_free(m, b.list[i], b.pool),
   b |-> WithList(b, [j \in 1 .. Len(b.list) - 1 |-> b.list[j]])]

\* The entries behind the one released move up.
remove_file(m, b, i) ==
  [m |-> file_free(m, b.list[i], b.pool),
   b |-> WithList(b, [j \in 1 .. Len(b.list) - 1 |-> IF j < i THEN b.list[j] ELSE b.list[j + 1]])]

RemoveFile ==
  /\ binder # NoBinder
  /\ \E i \in 1 .. Len(binder.list) + 1 :
       IF i > Len(binder.list) THEN Return("remove_file", FALSE, Now, binder, reader, mine)
       ELSE LET o == remove_file(Now, binder, i)
            IN Return("remove_file", TRUE, o.m, o.b, reader, mine)

\* The copy first, and nothing happens when it cannot be made.
set_version4(m, b, v) ==
  {IF c.ok THEN [m |-> sf_xfree(c.m, b.version), b |-> WithVersion(b, c.p)] ELSE [m |-> c.m, b |-> b] :
     c \in AllocIf(v # "null", m)}

\* The release first: the argument must not be the version itself.
set_version3(m, b, v) ==
  LET freed == sf_xfree(m, b.version)
  IN {[m |-> c.m, b |-> WithVersion(b, c.p)] :
        c \in AllocIf(v # "null", IF v = "own" THEN Touch(freed, b.version) ELSE freed)}

SetVersion ==
  /\ binder # NoBinder
  /\ \E v \in {"null", "new", "own"} :
       /\ v = "own" => binder.version # 0
       /\ \E o \in IF kind \in {"bnd4", "bxf4"} THEN set_version4(Now, binder, v)
                   ELSE set_version3(Now, binder, v) :
             Return(IF v = "own" THEN "own_version" ELSE "set_version", TRUE, o.m, o.b, reader, mine)

Write ==
  /\ binder # NoBinder
  /\ \E toMemory \in BOOLEAN :
       /\ toMemory => Cardinality(mine) + Sides <= MaxMine
       /\ \E o \in write_to(Now, toMemory) :
             Return("write", o.ok, o.m, binder, reader, mine \cup o.out)

ReaderOpen ==
  /\ Idle
  /\ \/ /\ kind \in Binder
        /\ \E n \in 0 .. MaxFiles, named, dcx, custom \in BOOLEAN :
             \E o \in reader_open(Memory(custom), n, named, dcx) :
                Return(IF dcx THEN "open_dcx" ELSE "open", o.ok, o.m, binder, o.r, mine)
     \/ /\ kind = "bhd5"
        /\ \E encrypted \in BOOLEAN :
             \E o \in bhd5_open(Now, encrypted) : Return("open", o.ok, o.m, binder, o.r, mine)

\* sf_*_reader_read_file_by_index, _by_id and _by_path_hash, sf_bhd5_extract_by_*:
\* the three differ in how the index is found, and fail when it is not.
ReaderRead ==
  /\ reader # NoReader /\ Cardinality(mine) < MaxMine
  /\ \E form \in Forms :
       \E o \in {Refused(Now)}
               \cup (IF reader.count = 0 THEN {}
                     ELSE IF kind = "bhd5" THEN extract_file(Now, form # "empty")
                     ELSE extract_file_data(Now, form)) :
          Return(IF form = "packed" THEN "file_dcx" ELSE "read_file", o.ok, o.m, binder, reader, mine \cup ({o.p} \ {0}))

ReaderClose ==
  /\ reader # NoReader
  /\ Return("close", TRUE, reader_free(Now, reader), binder, NoReader, mine)

WriteBhd5 ==
  /\ kind = "bhd5" /\ reader # NoReader
  /\ \E o \in bhd5_write(Now) : Return("write", o.ok, o.m, binder, reader, mine)

\* The caller releases a block of its own.
FreeMine ==
  \E p \in mine : Return("free", TRUE, sf_xfree(Now, p), binder, reader, mine \ {p})

Init ==
  /\ kind \in Kinds
  /\ binder = NoBinder /\ reader = NoReader
  /\ heap = {} /\ mine = {}
  /\ failed = FALSE /\ misuse = {} /\ leaked = {}

Next ==
  \/ Create \/ Read \/ Destroy \/ AddFile \/ AddOwnFile \/ AddFileTake \/ RemoveFile
  \/ SetVersion \/ Write \/ ReaderOpen \/ ReaderRead \/ ReaderClose \/ WriteBhd5 \/ FreeMine

Spec == Init /\ [][Next]_vars

(***************************************************************************)
(* Properties.                                                             *)
(***************************************************************************)
Pointer == {0} \cup heap

\* Every variable has its type, and a list is never longer than its array.
TypeOK ==
  /\ kind \in Kinds /\ failed \in BOOLEAN
  /\ heap \subseteq Nat \ {0} /\ mine \subseteq heap /\ Cardinality(mine) <= MaxMine
  /\ \A u \in misuse : u[2] \in {"twice", "stale", "foreign"}
  /\ {binder.self, binder.version, binder.files, binder.pool} \subseteq Pointer
  /\ \A i \in DOMAIN binder.list : {binder.list[i].name, binder.list[i].data} \subseteq Pointer
  /\ Len(binder.list) <= binder.cap /\ (binder.cap > 0) = (binder.files # 0)
  /\ {reader.self, reader.version, reader.headers, reader.files, reader.pool} \subseteq Pointer

\* Between calls every block a handle points to is live and is held once: by one
\* field of one handle or by the caller.  This is what lets destroy, close and
\* the caller's frees go in any order, after any calls that failed half-way.
OneOwner ==
  LET ps == Pointers(binder, reader)
  IN /\ \A i \in DOMAIN ps : ps[i] # 0 =>
           ps[i] \in heap \ mine /\ \A j \in DOMAIN ps : ps[i] = ps[j] => i = j
     /\ \A i \in DOMAIN binder.list :
           name_in_pool(binder.list[i].name, binder.pool) => binder.pool \in heap

\* No call releases a block twice, reads a released one or releases one to
\* another allocator, on any of its paths, but: opening a compressed BND3, adding
\* a file of the binder itself when the array has to move, setting the version of
\* a BND3 or BXF3 to itself, and reading headers under an allocator of one's own.
OnlyKnownMisuse ==
  \A u \in misuse :
     \/ u = <<"open_dcx", "twice">> /\ kind = "bnd3"
     \/ u = <<"add_own", "stale">>
     \/ u = <<"own_version", "stale">> /\ kind \in {"bnd3", "bxf3"}
     \/ u[1] \in {"read", "read_dcx", "open", "open_dcx"} /\ u[2] = "foreign"

\* No call loses a block, on any of its paths, but: a writer that was finished
\* (BND3, BXF3, BXF4, BHD5), the reader of a BND4 whose opening fails late, the
\* bytes of a BHD5 whose reader cannot be made, and the output of a DCX, of the
\* archive or of a file in it, whose decoding fails after it was allocated
\* (decompress_edge, dcx.c:327, 338, 345 and 357).
OnlyKnownLeaks ==
  \A l \in leaked :
     \/ l = <<"write", "unheld">> /\ kind # "bnd4"
     \/ l[1] \in {"open", "open_dcx"} /\ l[2] = "unheld" /\ kind \in {"bnd4", "bhd5"} /\ failed
     \/ l[1] \in {"read_dcx", "open_dcx", "file_dcx"} /\ l[2] = "lost" /\ kind # "bhd5" /\ failed

\* A call that returns an error leaves the handles' contents and the caller's
\* blocks as they were: the list keeps its files, and a block that was offered to
\* add_file_take stays with the caller (the array may have grown).
FailedCallKeepsFiles ==
  [][failed' => /\ binder'.list = binder.list /\ binder'.pool = binder.pool
                        /\ binder'.version = binder.version /\ binder'.self = binder.self
                        /\ reader' = reader /\ mine' = mine]_vars

\* A buffer given to sf_binary_reader_create_from_memory is released by the reader
\* and by nobody else (sf_io.h: "The reader TAKES OWNERSHIP of `data`").
BufferFreedOnce == \A u \in misuse : u[2] # "twice"

=============================================================================
