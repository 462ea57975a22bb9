---------------------------- MODULE OodleLoader -----------------------------
(***************************************************************************)
(* The Oodle DLL loader: process-wide globals, a critical section around   *)
(* load, unload and set_search_path, and a lock-free fast path in          *)
(* sf_oodle_load.  Threads call the loader and, through it, the bound      *)
(* functions; every read or write of a global that another thread may see  *)
(* in between is a step of its own.                                        *)
(*                                                                         *)
(* The memory model is sequential consistency, which gives the code the    *)
(* strongest guarantees the platform has: what goes wrong here goes wrong  *)
(* on every x86_64 build.                                                  *)
(***************************************************************************)
EXTENDS Naturals, Sequences, FiniteSets

CONSTANTS Threads,
          Dirs,          \* directories the search path may name
          Lib,           \* Lib[d][v]: the DLL of version v in d
          StartDir,      \* the search path before the first set_search_path
          Warm,          \* callers wait for a completed load (see Start)
          MaxCalls,      \* calls each thread makes
          NULL

Versions == <<9, 8, 6>>            \* the order load_locked tries them in
UNKNOWN == 0
VersionSet == {Versions[i] : i \in 1 .. 3}
Syms == <<"decompress", "compress", "bound", "options">>
SymSet == {Syms[i] : i \in 1 .. 4}

ASSUME LibAssumption ==
    /\ Lib \in [Dirs -> [VersionSet -> {"missing", "partial", "complete"}]]
    /\ StartDir \in Dirs
ASSUME LoaderBounds == MaxCalls \in Nat /\ Warm \in BOOLEAN

Dll(d, v) == [dir |-> d, ver |-> v]
Dlls == {Dll(d, v) : d \in Dirs, v \in VersionSet}

ASSUME NullAssumption == NULL \notin Threads /\ NULL \notin Dlls

\* GetProcAddress: a partial DLL lacks one of the four symbols.
sym(dll, s) == IF Lib[dll.dir][dll.ver] = "complete" \/ s # "options" THEN dll ELSE NULL

VARIABLES g_oodle, g_version, g_tried_failed, g_search_path,
          ptr,       \* g_decompress, g_compress, g_bound*, g_options*
          owner,     \* the thread inside g_lock, or NULL
          vi, si,    \* the lock owner's place in Versions and in Syms
          mapped,    \* the DLLs LoadLibrary has mapped
          pc, op,    \* per thread: where it is, and the call it is in
          todo,      \* what is left of the call after the load under way
          warmed,    \* a load has completed under the lock and not been undone
          calls,     \* calls each thread has started
          fault      \* a call went through a bad pointer

globals == <<g_oodle, g_version, g_tried_failed, g_search_path, ptr, mapped>>
locals  == <<pc, op, todo, calls>>
vars    == <<g_oodle, g_version, g_tried_failed, g_search_path, ptr, owner,
             vi, si, mapped, pc, op, todo, warmed, calls, fault>>

Init == /\ g_oodle = NULL /\ g_version = UNKNOWN
        /\ g_tried_failed = FALSE /\ g_search_path = StartDir
        /\ ptr = [s \in SymSet |-> NULL]
        /\ owner = NULL /\ vi = 1 /\ si = 1 /\ mapped = {}
        /\ pc = [t \in Threads |-> "idle"]
        /\ op = [t \in Threads |-> "none"]
        /\ todo = [t \in Threads |-> <<>>]
        /\ warmed = FALSE
        /\ calls = [t \in Threads |-> 0]
        /\ fault = FALSE

\* The globals describe one loaded, fully bound DLL.
Ready == /\ g_oodle # NULL /\ g_oodle \in mapped
         /\ g_version = g_oodle.ver
         /\ \A s \in SymSet : ptr[s] = g_oodle

Go(t, where) == pc' = [pc EXCEPT ![t] = where]
-----------------------------------------------------------------------------
(***************************************************************************)
(* Starting a call.                                                        *)
(***************************************************************************)
Coders == {"decompress", "compress"}

\* What each entry point does after its first sf_oodle_load.  sfi_oodle_compress
\* asks sfi_oodle_bound, then calls compress_into, which loads and asks again.
Program(o) == CASE o = "decompress" -> <<"decompress">>
                [] o = "compress" -> <<"bound", "load", "load", "bound", "options", "compress">>
                [] OTHER -> <<>>

\* The contract: unload only while nobody is coding.  With Warm, callers also
\* keep to "once sf_oodle_load() has succeeded on at least one thread".
MayStart(t, o) ==
    /\ o = "unload" => \A u \in Threads : op[u] \notin Coders
    /\ o \in Coders => /\ \A u \in Threads : op[u] # "unload"
                       /\ Warm => warmed

Start(t, o) ==
    /\ pc[t] = "idle"
    /\ calls[t] < MaxCalls
    /\ MayStart(t, o)
    /\ calls' = [calls EXCEPT ![t] = @ + 1]
    /\ op' = [op EXCEPT ![t] = o]
    /\ todo' = [todo EXCEPT ![t] = Program(o)]
    /\ Go(t, IF o \in {"load", "decompress", "compress"} THEN "load" ELSE "enter")
    /\ UNCHANGED <<globals, owner, vi, si, warmed, fault>>

Return(t) == /\ op' = [op EXCEPT ![t] = "none"]
             /\ todo' = [todo EXCEPT ![t] = <<>>]
             /\ Go(t, "idle")

\* sf_oodle_load has returned r: a failure ends the call, a success goes on
\* to what the caller does with the function pointers.
Loaded(t, r) ==
    IF r = "OK" /\ todo[t] # <<>>
    THEN Go(t, "use") /\ UNCHANGED <<op, todo>>
    ELSE Return(t)
-----------------------------------------------------------------------------
(***************************************************************************)
(* sf_oodle_load and load_locked.                                          *)
(***************************************************************************)
FastPath(t) ==
    /\ pc[t] = "load"
    /\ IF g_oodle # NULL
       THEN Loaded(t, "OK")
       ELSE Go(t, "enter") /\ UNCHANGED <<op, todo>>
    /\ UNCHANGED <<globals, owner, vi, si, warmed, calls, fault>>

Enter(t) ==
    /\ pc[t] = "enter"
    /\ owner = NULL
    /\ owner' = t
    /\ Go(t, CASE op[t] = "unload" -> "free"
               [] op[t] = "set_search_path" -> "set_path"
               [] OTHER -> "locked")
    /\ UNCHANGED <<globals, vi, si, op, todo, warmed, calls, fault>>

Leave(t, r) == /\ owner' = NULL /\ vi' = 1 /\ si' = 1
               /\ warmed' = (r = "OK")
               /\ Loaded(t, r)

\* Mutant: the early return for an earlier failure reports success.
LockedCheck_FailedIsOK(t) ==
    /\ pc[t] = "locked"
    /\ IF g_oodle # NULL \/ g_tried_failed
       THEN Leave(t, "OK")
       ELSE Go(t, "open") /\ UNCHANGED <<owner, vi, si, op, todo, warmed>>
    /\ UNCHANGED <<globals, calls, fault>>

LockedCheck(t) ==
    /\ pc[t] = "locked"
    /\ IF g_oodle # NULL \/ g_tried_failed
       THEN Leave(t, IF g_oodle # NULL THEN "OK" ELSE "NOT_FOUND")
       ELSE Go(t, "open") /\ UNCHANGED <<owner, vi, si, op, todo, warmed>>
    /\ UNCHANGED <<globals, calls, fault>>

\* Mutant: a missing DLL is tried again instead of the next version.
OpenVersion_NoAdvance(t) ==
    /\ pc[t] = "open"
    /\ vi <= 3
    /\ LET dll == Dll(g_search_path, Versions[vi]) IN
       IF Lib[dll.dir][dll.ver] = "missing"
       THEN g_oodle' = NULL /\ UNCHANGED <<mapped, pc>>
       ELSE g_oodle' = dll /\ mapped' = mapped \cup {dll} /\ Go(t, "version")
    /\ UNCHANGED <<g_version, g_tried_failed, g_search_path, ptr, owner, vi, si,
                   op, todo, warmed, calls, fault>>

\* g_oodle = LoadLibraryW(path): the sentinel is published here.
OpenVersion(t) ==
    /\ pc[t] = "open"
    /\ vi <= 3
    /\ LET dll == Dll(g_search_path, Versions[vi]) IN
       \/ /\ Lib[dll.dir][dll.ver] = "missing"
          /\ g_oodle' = NULL /\ vi' = vi + 1
          /\ UNCHANGED <<mapped, pc>>
       \/ /\ Lib[dll.dir][dll.ver] # "missing"
          /\ g_oodle' = dll /\ mapped' = mapped \cup {dll}
          /\ Go(t, "version")
          /\ UNCHANGED vi
    /\ UNCHANGED <<g_version, g_tried_failed, g_search_path, ptr, owner, si,
                   op, todo, warmed, calls, fault>>

SetVersion(t) ==
    /\ pc[t] = "version"
    /\ g_version' = Versions[vi]
    /\ Go(t, "bind") /\ si' = 1
    /\ UNCHANGED <<g_oodle, g_tried_failed, g_search_path, ptr, mapped, owner, vi,
                   op, todo, warmed, calls, fault>>

\* bind_symbols, one function pointer after the other.
BindSymbol(t) ==
    /\ pc[t] = "bind"
    /\ si <= 4
    /\ ptr' = [ptr EXCEPT ![Syms[si]] = sym(g_oodle, Syms[si])]
    /\ si' = si + 1
    /\ UNCHANGED <<g_oodle, g_version, g_tried_failed, g_search_path, mapped, owner, vi,
                   locals, warmed, fault>>

BindDone(t) ==
    /\ pc[t] = "bind"
    /\ si = 5
    /\ IF \A s \in SymSet : ptr[s] # NULL
       THEN Leave(t, "OK")
       ELSE Go(t, "drop") /\ UNCHANGED <<owner, vi, si, op, todo, warmed>>
    /\ UNCHANGED <<globals, calls, fault>>

\* Mutant: FreeLibrary is forgotten when the bind fails.
DropVersion_NoFree(t) ==
    /\ pc[t] = "drop"
    /\ g_oodle' = NULL /\ g_version' = UNKNOWN
    /\ vi' = vi + 1
    /\ Go(t, "open")
    /\ UNCHANGED <<mapped, g_tried_failed, g_search_path, ptr, owner, si,
                   op, todo, warmed, calls, fault>>

\* The bind failed: the DLL goes, the function pointers stay as they are.
DropVersion(t) ==
    /\ pc[t] = "drop"
    /\ IF g_oodle \in mapped
       THEN /\ mapped' = mapped \ {g_oodle}
            /\ UNCHANGED <<g_oodle, g_version, vi, pc>>
       ELSE /\ g_oodle' = NULL /\ g_version' = UNKNOWN
            /\ vi' = vi + 1
            /\ Go(t, "open")
            /\ UNCHANGED mapped
    /\ UNCHANGED <<g_tried_failed, g_search_path, ptr, owner, si,
                   op, todo, warmed, calls, fault>>

NoneFound(t) ==
    /\ pc[t] = "open"
    /\ vi = 4
    /\ g_tried_failed' = TRUE
    /\ Leave(t, "NOT_FOUND")
    /\ UNCHANGED <<g_oodle, g_version, g_search_path, ptr, mapped, calls, fault>>
-----------------------------------------------------------------------------
(***************************************************************************)
(* sf_oodle_unload, sf_oodle_set_search_path and the use of the pointers.  *)
(***************************************************************************)
Unlock(t) == /\ owner' = NULL /\ Return(t)
             /\ UNCHANGED <<vi, si, calls, fault>>

Free(t) ==
    /\ pc[t] = "free"
    /\ mapped' = mapped \ {g_oodle}
    /\ Go(t, "clear")
    /\ UNCHANGED <<g_oodle, g_version, g_tried_failed, g_search_path, ptr, owner, vi, si,
                   op, todo, warmed, calls, fault>>

\* Mutant: sf_oodle_unload returns without leaving the critical section.
Clear_NoLeave(t) ==
    /\ pc[t] = "clear"
    /\ g_oodle' = NULL /\ g_version' = UNKNOWN
    /\ ptr' = [s \in SymSet |-> NULL]
    /\ g_tried_failed' = FALSE /\ warmed' = FALSE
    /\ Return(t)
    /\ UNCHANGED <<g_search_path, mapped, owner, vi, si, calls, fault>>

Clear(t) ==
    /\ pc[t] = "clear"
    /\ g_oodle' = NULL /\ g_version' = UNKNOWN
    /\ ptr' = [s \in SymSet |-> NULL]
    /\ g_tried_failed' = FALSE
    /\ warmed' = FALSE
    /\ Unlock(t)
    /\ UNCHANGED <<g_search_path, mapped>>

\* Mutant: the remembered failure survives a new search path.
SetSearchPath_KeepsFailure(t, d) ==
    /\ pc[t] = "set_path"
    /\ g_search_path' = d
    /\ Unlock(t)
    /\ UNCHANGED <<g_oodle, g_version, g_tried_failed, ptr, mapped, warmed>>

SetSearchPath(t, d) ==
    /\ pc[t] = "set_path"
    /\ g_search_path' = d
    /\ g_tried_failed' = FALSE
    /\ Unlock(t)
    /\ UNCHANGED <<g_oodle, g_version, ptr, mapped, warmed>>

\* A call through the pointer for s: good when it leads into a mapped DLL
\* and, where the signature depends on it, g_version is that DLL's.
GoodCall(s) == /\ ptr[s] # NULL /\ ptr[s] \in mapped
               /\ s \in {"bound", "options"} =>
                     ((g_version = 6) <=> (ptr[s].ver = 6))

Use(t) ==
    /\ pc[t] = "use"
    /\ LET s == Head(todo[t]) IN
       /\ todo' = [todo EXCEPT ![t] = Tail(@)]
       /\ IF s = "load"
          THEN Go(t, "load") /\ UNCHANGED <<op, fault>>
          ELSE /\ fault' = (fault \/ ~GoodCall(s))
               /\ IF Len(todo[t]) = 1
                  THEN Go(t, "idle") /\ op' = [op EXCEPT ![t] = "none"]
                  ELSE Go(t, "use") /\ UNCHANGED op
    /\ UNCHANGED <<globals, owner, vi, si, warmed, calls>>

Step(t) == \/ FastPath(t) \/ Enter(t) \/ LockedCheck(t) \/ OpenVersion(t) \/ SetVersion(t)
           \/ BindSymbol(t) \/ BindDone(t) \/ DropVersion(t) \/ NoneFound(t)
           \/ Free(t) \/ Clear(t) \/ (\E d \in Dirs : SetSearchPath(t, d))
           \/ Use(t)

\* Every thread has made its calls; the system rests.
Rest == /\ \A t \in Threads : pc[t] = "idle"
        /\ UNCHANGED vars

Ops == {"load", "unload", "set_search_path", "decompress", "compress"}

Next == (\E t \in Threads : Step(t) \/ \E o \in Ops : Start(t, o)) \/ Rest

Spec == Init /\ [][Next]_vars

\* A running thread keeps running; the critical section is free again once
\* its owner has run on, and each thread makes finitely many calls.
FairSpec == Spec /\ \A t \in Threads : WF_vars(Step(t))
-----------------------------------------------------------------------------
Pcs == {"idle", "load", "enter", "locked", "open", "version", "bind", "drop",
        "free", "clear", "set_path", "use"}
InLock == {"locked", "open", "version", "bind", "drop", "free", "clear", "set_path"}

TypeOK ==
    /\ g_oodle \in Dlls \cup {NULL} /\ g_version \in VersionSet \cup {UNKNOWN}
    /\ g_tried_failed \in BOOLEAN /\ g_search_path \in Dirs
    /\ ptr \in [SymSet -> Dlls \cup {NULL}] /\ mapped \subseteq Dlls
    /\ owner \in Threads \cup {NULL} /\ vi \in 1 .. 4 /\ si \in 1 .. 5
    /\ pc \in [Threads -> Pcs] /\ op \in [Threads -> Ops \cup {"none"}]
    /\ calls \in [Threads -> 0 .. MaxCalls] /\ warmed \in BOOLEAN
    /\ \A t \in Threads : (pc[t] \in InLock) <=> (owner = t)

\* Whenever the lock is free the globals are consistent: nothing is loaded
\* and nothing is mapped, or one DLL is, with its version and all its
\* functions bound.
ConsistentUnlocked ==
    owner = NULL => \/ g_oodle = NULL /\ g_version = UNKNOWN /\ mapped = {}
                    \/ Ready /\ mapped = {g_oodle}

\* The negative cache never goes stale: while g_tried_failed is set, the
\* current search path has no complete DLL that a load would have found.
NegativeCacheHonest ==
    g_tried_failed => \A v \in VersionSet : Lib[g_search_path][v] # "complete"

\* "Once sf_oodle_load() has succeeded on at least one thread" compress and
\* decompress "are safe to call concurrently": no call goes through a NULL
\* pointer, into a DLL that was freed, or with the wrong version's signature.
NoBadCall == ~fault

\* No call hangs: a thread that has entered the loader comes out again.
CallsReturn == \A t \in Threads : (pc[t] # "idle") ~> (pc[t] = "idle")

\* The comment on the fast path: "if we observe g_oodle != NULL, we also
\* observe valid g_compress et al."  A thread whose load has just returned
\* SF_OK, with no unload under way, finds everything bound.
FastPathSafe ==
    \A t \in Threads : pc[t] = "use" /\ Head(todo[t]) # "load" => Ready
=============================================================================
