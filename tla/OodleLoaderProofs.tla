------------------------- MODULE OodleLoaderProofs --------------------------
(***************************************************************************)
(* Theorems about the Oodle loader, for every number of threads and of     *)
(* calls and every set of directories with whatever DLLs they hold.        *)
(***************************************************************************)
EXTENDS OodleLoader, SequenceTheorems, TLAPS

\* No DLL of the first n - 1 versions is complete under the search path.
Probed(n) == \A i \in 1 .. 3 : i < n => Lib[g_search_path][Versions[i]] # "complete"

Vacant == g_oodle = NULL /\ g_version = UNKNOWN /\ mapped = {}
Bound == Ready /\ mapped = {g_oodle}
Held == vi \in 1 .. 3 /\ g_oodle = Dll(g_search_path, Versions[vi])

\* Where the owner of the lock is halfway through changing the globals.
Loading == {"open", "version", "bind", "drop"}
Changing == Loading \cup {"clear"}

Types ==
    /\ g_oodle \in Dlls \cup {NULL} /\ g_version \in VersionSet \cup {UNKNOWN}
    /\ g_tried_failed \in BOOLEAN /\ g_search_path \in Dirs
    /\ ptr \in [SymSet -> Dlls \cup {NULL}] /\ mapped \subseteq Dlls
    /\ owner \in Threads \cup {NULL} /\ vi \in 1 .. 4 /\ si \in 1 .. 5
    /\ pc \in [Threads -> Pcs] /\ op \in [Threads -> Ops \cup {"none"}]
    /\ todo \in [Threads -> Seq(SymSet \cup {"load"})]
    /\ calls \in [Threads -> 0 .. MaxCalls] /\ warmed \in BOOLEAN /\ fault \in BOOLEAN

Lock == \A t \in Threads : (pc[t] \in InLock) <=> (owner = t)

\* What a thread's place says of the call it is in.
CallsOK ==
    \A t \in Threads :
        /\ pc[t] \in {"free", "clear"} => op[t] = "unload"
        /\ pc[t] = "use" => todo[t] # <<>>
        /\ todo[t] # <<>> => op[t] \in Coders

\* What the owner's place says of the globals.
Place(t) ==
    /\ pc[t] = "open" => Vacant /\ Probed(vi)
    /\ pc[t] = "version" => Held /\ mapped = {g_oodle} /\ Probed(vi)
    /\ pc[t] = "bind" =>
          /\ Held /\ mapped = {g_oodle} /\ Probed(vi) /\ g_version = Versions[vi]
          /\ \A i \in 1 .. 4 : i < si => ptr[Syms[i]] = sym(g_oodle, Syms[i])
    /\ pc[t] = "drop" => Held /\ mapped \subseteq {g_oodle} /\ Probed(vi + 1)
    /\ pc[t] = "clear" => mapped = {} /\ vi = 1

\* The globals when nobody is changing them.
Settled == (Vacant \/ Bound) /\ vi = 1

GlobalsOK == /\ (\A t \in Threads : pc[t] \notin Changing) => Settled
             /\ \A t \in Threads : Place(t)

\* What a completed load is still good for.
WarmOK ==
    /\ warmed => Bound \/ \E t \in Threads : pc[t] = "clear"
    /\ \A t \in Threads : pc[t] \in Loading => ~warmed

\* A warm caller finds the DLL bound and nobody unloading it.
CodersOK ==
    Warm => \A t \in Threads : op[t] \in Coders => warmed /\ \A u \in Threads : op[u] # "unload"

\* The inductive invariant.
IndInv == /\ Types /\ Lock /\ CallsOK /\ GlobalsOK /\ WarmOK /\ CodersOK
          /\ NegativeCacheHonest /\ (Warm => NoBadCall)

\* The loader starts in a state of the invariant.
LEMMA InitHolds == Init => IndInv
<1> SUFFICES ASSUME Init PROVE IndInv
  OBVIOUS
<1>1. Types
  <2>1. /\ g_oodle \in Dlls \cup {NULL} /\ g_version \in VersionSet \cup {UNKNOWN}
        /\ g_search_path \in Dirs
        /\ ptr \in [SymSet -> Dlls \cup {NULL}] /\ mapped \subseteq Dlls
        /\ owner \in Threads \cup {NULL} /\ vi \in 1 .. 4 /\ si \in 1 .. 5
    BY LibAssumption DEF Init
  <2>2. /\ pc \in [Threads -> Pcs] /\ op \in [Threads -> Ops \cup {"none"}]
        /\ todo \in [Threads -> Seq(SymSet \cup {"load"})]
    BY DEF Init, Pcs
  <2>3. calls \in [Threads -> 0 .. MaxCalls]
    BY LoaderBounds DEF Init
  <2> QED
    BY <2>1, <2>2, <2>3 DEF Types, Init
<1>2. Lock /\ CallsOK
  BY NullAssumption DEF Init, Lock, InLock, CallsOK
<1>3. GlobalsOK /\ WarmOK
  BY DEF Init, GlobalsOK, Place, Settled, WarmOK, Vacant, Changing, Loading
<1>4. CodersOK /\ NegativeCacheHonest /\ NoBadCall
  BY DEF Init, CodersOK, NegativeCacheHonest, NoBadCall, Coders
<1> QED
  BY <1>1, <1>2, <1>3, <1>4 DEF IndInv

\* The critical section is exclusive.
LEMMA Exclusive ==
    ASSUME Types, Lock, NEW t \in Threads, pc[t] \in InLock
    PROVE  owner = t /\ \A u \in Threads : u # t => pc[u] \notin InLock
BY DEF Lock

\* One assignment to pc.
LEMMA GoTo ==
    ASSUME Types, NEW t \in Threads, NEW where \in Pcs, Go(t, where)
    PROVE  /\ pc' \in [Threads -> Pcs] /\ pc'[t] = where
           /\ \A u \in Threads : u # t => pc'[u] = pc[u]
BY DEF Types, Go

\* Leaving the call: nothing of it is left.
LEMMA ReturnFrame ==
    ASSUME Types, CallsOK, NEW t \in Threads, Return(t)
    PROVE  /\ pc' \in [Threads -> Pcs] /\ pc'[t] = "idle"
           /\ op' \in [Threads -> Ops \cup {"none"}] /\ op'[t] = "none"
           /\ todo' \in [Threads -> Seq(SymSet \cup {"load"})] /\ todo'[t] = <<>>
           /\ \A u \in Threads : u # t => pc'[u] = pc[u] /\ op'[u] = op[u] /\ todo'[u] = todo[u]
           /\ CallsOK'
<1>1. /\ pc' \in [Threads -> Pcs] /\ pc'[t] = "idle"
      /\ \A u \in Threads : u # t => pc'[u] = pc[u]
  BY GoTo DEF Return, Pcs
<1>2. /\ op' \in [Threads -> Ops \cup {"none"}] /\ op'[t] = "none"
      /\ \A u \in Threads : u # t => op'[u] = op[u]
  BY DEF Return, Types
<1>3. /\ todo' \in [Threads -> Seq(SymSet \cup {"load"})] /\ todo'[t] = <<>>
      /\ \A u \in Threads : u # t => todo'[u] = todo[u]
  BY DEF Return, Types
<1>4. CallsOK'
  BY <1>1, <1>2, <1>3 DEF CallsOK
<1> QED
  BY <1>1, <1>2, <1>3, <1>4

\* sf_oodle_load returns to its caller, inside a call or at its end.
LEMMA LoadedFrame ==
    ASSUME Types, CallsOK, NEW t \in Threads, NEW r, Loaded(t, r)
    PROVE  /\ pc' \in [Threads -> Pcs] /\ pc'[t] \in {"idle", "use"}
           /\ op' \in [Threads -> Ops \cup {"none"}] /\ op'[t] \in {"none", op[t]}
           /\ r # "OK" => op'[t] = "none"
           /\ todo' \in [Threads -> Seq(SymSet \cup {"load"})]
           /\ \A u \in Threads : u # t => pc'[u] = pc[u] /\ op'[u] = op[u] /\ todo'[u] = todo[u]
           /\ CallsOK'
<1>1. CASE r = "OK" /\ todo[t] # <<>>
  <2>1. Go(t, "use") /\ op' = op /\ todo' = todo
    BY <1>1 DEF Loaded
  <2>2. /\ pc' \in [Threads -> Pcs] /\ pc'[t] = "use"
        /\ \A u \in Threads : u # t => pc'[u] = pc[u]
    BY <2>1, GoTo DEF Pcs
  <2>3. CallsOK'
    BY <1>1, <2>1, <2>2 DEF CallsOK
  <2> QED
    BY <1>1, <2>1, <2>2, <2>3 DEF Types
<1>2. CASE ~(r = "OK" /\ todo[t] # <<>>)
  BY <1>2, ReturnFrame DEF Loaded
<1> QED
  BY <1>1, <1>2

\* A step of a thread outside the critical section leaves what the lock
\* protects to its owner.
LEMMA OutsideStep ==
    ASSUME IndInv, NEW t \in Threads, pc[t] \notin InLock, pc'[t] \notin InLock,
           \A u \in Threads : u # t => pc'[u] = pc[u],
           UNCHANGED <<globals, owner, vi, si, warmed>>
    PROVE  Lock' /\ GlobalsOK' /\ WarmOK' /\ NegativeCacheHonest'
<1>1. Lock'
  BY DEF IndInv, Lock
<1>2. \A u \in Threads : \A x \in Changing : pc'[u] = x <=> pc[u] = x
  BY DEF InLock, Changing, Loading
<1>3. \A u \in Threads : /\ pc'[u] \in Changing <=> pc[u] \in Changing
                         /\ pc'[u] \in Loading <=> pc[u] \in Loading
  BY <1>2 DEF Changing
<1>4. Vacant' = Vacant /\ Bound' = Bound /\ Held' = Held /\ Settled' = Settled
  BY DEF globals, Vacant, Bound, Held, Ready, Settled
<1>5. (\A u \in Threads : pc'[u] \notin Changing) => Settled'
  BY <1>3, <1>4 DEF IndInv, GlobalsOK
<1>6. ASSUME NEW u \in Threads PROVE Place(u)'
  <2>1. /\ Probed(vi)' = Probed(vi) /\ Probed(vi + 1)' = Probed(vi + 1)
        /\ mapped' = mapped /\ g_oodle' = g_oodle /\ g_version' = g_version /\ vi' = vi
        /\ si' = si /\ ptr' = ptr
    BY DEF globals, Probed
  <2>2. Place(u)
    BY DEF IndInv, GlobalsOK
  <2> QED
    BY <1>2, <1>4, <2>1, <2>2 DEF Place, Changing, Loading
<1>7. GlobalsOK'
  BY <1>5, <1>6 DEF GlobalsOK
<1>8. WarmOK'
  BY <1>2, <1>3, <1>4 DEF IndInv, WarmOK, Changing
<1>9. NegativeCacheHonest'
  BY DEF IndInv, NegativeCacheHonest, globals
<1> QED
  BY <1>1, <1>7, <1>8, <1>9

\* A call that ends or goes on disturbs no coder, as long as a completed
\* load is not undone.
LEMMA CodersKept ==
    ASSUME CodersOK, NEW t \in Threads, op'[t] \in {"none", op[t]}, warmed => warmed',
           \A u \in Threads : u # t => op'[u] = op[u]
    PROVE  CodersOK'
BY DEF CodersOK, Coders

\* Starting a call: unload and the coders keep out of each other's way.
LEMMA StartKeeps ==
    ASSUME IndInv, NEW t \in Threads, NEW o \in Ops, Start(t, o) PROVE IndInv'
<1> DEFINE where == IF o \in {"load", "decompress", "compress"} THEN "load" ELSE "enter"
<1>1. where \in {"load", "enter"} /\ where \in Pcs /\ where \notin InLock
  BY DEF Pcs, InLock
<1>2. /\ pc' \in [Threads -> Pcs] /\ pc'[t] = where
      /\ \A u \in Threads : u # t => pc'[u] = pc[u]
  BY <1>1, GoTo DEF IndInv, Start
<1>3. pc[t] \notin InLock /\ UNCHANGED <<globals, owner, vi, si, warmed, fault>>
  BY DEF Start, InLock
<1>4. /\ op' \in [Threads -> Ops \cup {"none"}] /\ op'[t] = o
      /\ \A u \in Threads : u # t => op'[u] = op[u]
  BY DEF IndInv, Types, Start
<1>5. Program(o) \in Seq(SymSet \cup {"load"}) /\ (Program(o) # <<>> => o \in Coders)
  <2> DEFINE S == SymSet \cup {"load"}
  <2>1. "decompress" \in S /\ "compress" \in S /\ "bound" \in S /\ "options" \in S /\ "load" \in S
    <3>1. SymSet = {Syms[1], Syms[2], Syms[3], Syms[4]}
      BY DEF SymSet
    <3> QED
      BY <3>1 DEF Syms
  <2> HIDE DEF S
  <2>2. CASE o = "decompress"
    <3>1. Program(o) = <<"decompress">>
      BY <2>2 DEF Program
    <3>2. Program(o) \in Seq(S)
      BY <2>1, <3>1
    <3> QED
      BY <2>2, <3>2 DEF Coders, S
  <2>3. CASE o = "compress"
    <3>1. Program(o) = <<"bound", "load", "load", "bound", "options", "compress">>
      BY <2>3 DEF Program
    <3>2. Program(o) \in Seq(S)
      BY <2>1, <3>1
    <3> QED
      BY <2>3, <3>2 DEF Coders, S
  <2>4. CASE o \notin {"decompress", "compress"}
    <3>1. Program(o) = <<>>
      BY <2>4 DEF Program
    <3> QED
      BY <3>1
  <2> QED
    BY <2>2, <2>3, <2>4
<1>6. /\ todo' \in [Threads -> Seq(SymSet \cup {"load"})] /\ todo'[t] = Program(o)
      /\ \A u \in Threads : u # t => todo'[u] = todo[u]
  <2>1. todo \in [Threads -> Seq(SymSet \cup {"load"})] /\ todo' = [todo EXCEPT ![t] = Program(o)]
    BY DEF IndInv, Types, Start
  <2> QED
    BY <1>5, <2>1
<1>7. calls' \in [Threads -> 0 .. MaxCalls]
  BY LoaderBounds DEF IndInv, Types, Start
<1>8. Types'
  BY <1>2, <1>3, <1>4, <1>6, <1>7 DEF IndInv, Types, globals
<1>9. CallsOK'
  BY <1>1, <1>2, <1>4, <1>5, <1>6 DEF IndInv, CallsOK
<1>10. CodersOK'
  BY <1>3, <1>4 DEF IndInv, CodersOK, Start, MayStart, Coders
<1>11. Lock' /\ GlobalsOK' /\ WarmOK' /\ NegativeCacheHonest'
  BY <1>1, <1>2, <1>3, OutsideStep
<1> QED
  BY <1>3, <1>8, <1>9, <1>10, <1>11 DEF IndInv, NoBadCall

\* The unlocked look at g_oodle changes no global.
LEMMA FastPathKeeps ==
    ASSUME IndInv, NEW t \in Threads, FastPath(t) PROVE IndInv'
<1>1. Types /\ CallsOK /\ pc[t] = "load"
  BY DEF IndInv, FastPath
<1>2. /\ pc' \in [Threads -> Pcs] /\ pc'[t] \in {"idle", "use", "enter"}
      /\ op' \in [Threads -> Ops \cup {"none"}] /\ op'[t] \in {"none", op[t]}
      /\ todo' \in [Threads -> Seq(SymSet \cup {"load"})]
      /\ \A u \in Threads : u # t => pc'[u] = pc[u] /\ op'[u] = op[u] /\ todo'[u] = todo[u]
      /\ CallsOK'
  <2>1. CASE Loaded(t, "OK")
    BY <1>1, <2>1, LoadedFrame
  <2>2. CASE Go(t, "enter") /\ UNCHANGED <<op, todo>>
    <3>1. /\ pc' \in [Threads -> Pcs] /\ pc'[t] = "enter"
          /\ \A u \in Threads : u # t => pc'[u] = pc[u]
      BY <1>1, <2>2, GoTo DEF Pcs
    <3>2. CallsOK'
      BY <1>1, <2>2, <3>1 DEF CallsOK
    <3> QED
      BY <1>1, <2>2, <3>1, <3>2 DEF Types
  <2> QED
    BY <2>1, <2>2 DEF FastPath
<1>3. UNCHANGED <<globals, owner, vi, si, warmed, calls, fault>>
  BY DEF FastPath
<1>4. Types'
  BY <1>1, <1>2, <1>3 DEF Types, globals
<1>5. CodersOK'
  BY <1>2, <1>3, CodersKept DEF IndInv
<1>6. Lock' /\ GlobalsOK' /\ WarmOK' /\ NegativeCacheHonest'
  BY <1>1, <1>2, <1>3, OutsideStep DEF InLock
<1> QED
  BY <1>2, <1>3, <1>4, <1>5, <1>6 DEF IndInv, NoBadCall

\* Taking the first step off what is left of a call.
LEMMA HeadTail ==
    ASSUME NEW S, NEW q \in Seq(S), q # <<>>
    PROVE  /\ Head(q) \in S /\ Tail(q) \in Seq(S)
           /\ Len(q) # 1 => Tail(q) # <<>>
           /\ Len(q) = 1 => Tail(q) = <<>>
<1>1. Head(q) \in S /\ Tail(q) \in Seq(S) /\ Len(Tail(q)) = Len(q) - 1 /\ Len(q) \in Nat
  OBVIOUS
<1>2. Tail(q) = <<>> <=> Len(Tail(q)) = 0
  BY <1>1, EmptySeq
<1> QED
  BY <1>1, <1>2

\* A call through a function pointer: a warm caller's is a good one.
LEMMA UseKeeps ==
    ASSUME IndInv, NEW t \in Threads, Use(t) PROVE IndInv'
<1> DEFINE s == Head(todo[t])
<1>1. Types /\ CallsOK /\ pc[t] = "use" /\ todo[t] # <<>> /\ op[t] \in Coders
  BY DEF IndInv, Use, CallsOK
<1>2. todo[t] \in Seq(SymSet \cup {"load"})
  BY <1>1 DEF Types
<1>3. /\ s \in SymSet \cup {"load"} /\ Tail(todo[t]) \in Seq(SymSet \cup {"load"})
      /\ Len(todo[t]) # 1 => Tail(todo[t]) # <<>>
      /\ Len(todo[t]) = 1 => Tail(todo[t]) = <<>>
  BY <1>1, <1>2, HeadTail
<1>4. /\ todo' \in [Threads -> Seq(SymSet \cup {"load"})] /\ todo'[t] = Tail(todo[t])
      /\ \A u \in Threads : u # t => todo'[u] = todo[u]
  <2>1. todo \in [Threads -> Seq(SymSet \cup {"load"})] /\ todo' = [todo EXCEPT ![t] = Tail(@)]
    BY DEF IndInv, Types, Use
  <2> QED
    BY <1>3, <2>1
<1>5. /\ pc' \in [Threads -> Pcs] /\ pc'[t] \in {"load", "idle", "use"}
      /\ op' \in [Threads -> Ops \cup {"none"}] /\ op'[t] \in {"none", op[t]}
      /\ \A u \in Threads : u # t => pc'[u] = pc[u] /\ op'[u] = op[u]
      /\ pc'[t] = "use" => Len(todo[t]) # 1
      /\ op'[t] # op[t] => Len(todo[t]) = 1
  <2>1. CASE Go(t, "load") /\ op' = op
    BY <1>1, <2>1, GoTo DEF Types, Pcs
  <2>2. CASE Len(todo[t]) = 1 /\ Go(t, "idle") /\ op' = [op EXCEPT ![t] = "none"]
    BY <1>1, <2>2, GoTo DEF Types, Pcs
  <2>3. CASE Len(todo[t]) # 1 /\ Go(t, "use") /\ op' = op
    BY <1>1, <2>3, GoTo DEF Types, Pcs
  <2> QED
    BY <2>1, <2>2, <2>3 DEF Use
<1>6. UNCHANGED <<globals, owner, vi, si, warmed, calls>>
  BY DEF Use
<1>7. fault' \in BOOLEAN
  BY <1>1 DEF Use, Types
<1>8. Types'
  BY <1>1, <1>4, <1>5, <1>6, <1>7 DEF Types, globals
<1>9. CallsOK'
  BY <1>1, <1>3, <1>4, <1>5 DEF CallsOK
<1>10. CodersOK'
  BY <1>5, <1>6, CodersKept DEF IndInv
<1>11. Lock' /\ GlobalsOK' /\ WarmOK' /\ NegativeCacheHonest'
  BY <1>1, <1>5, <1>6, OutsideStep DEF InLock
<1>12. ASSUME Warm PROVE ~fault'
  <2>1. warmed /\ \A u \in Threads : op[u] # "unload"
    BY <1>1, <1>12 DEF IndInv, CodersOK
  <2>2. Bound
    BY <2>1 DEF IndInv, WarmOK, CallsOK
  <2>3. s # "load" => GoodCall(s)
    BY <1>3, <2>2 DEF Bound, Ready, GoodCall
  <2>4. fault = FALSE
    BY <1>12 DEF IndInv, NoBadCall, Types
  <2> QED
    BY <2>3, <2>4 DEF Use
<1> QED
  BY <1>8, <1>9, <1>10, <1>11, <1>12 DEF IndInv, NoBadCall

\* After a step of the owner only its own place matters.
LEMMA OwnerPlace ==
    ASSUME NEW t \in Threads, \A u \in Threads : u # t => pc'[u] \notin InLock,
           Place(t)', pc'[t] \notin Changing => Settled'
    PROVE  GlobalsOK'
<1>1. ASSUME NEW u \in Threads, u # t PROVE Place(u)'
  <2>1. pc'[u] \notin InLock
    BY <1>1
  <2> QED
    BY <2>1 DEF Place, InLock
<1> QED
  BY <1>1 DEF GlobalsOK

\* Before a step of the owner the globals are what its place says.
LEMMA OwnerSees ==
    ASSUME IndInv, NEW t \in Threads, pc[t] \in InLock
    PROVE  /\ owner = t /\ \A u \in Threads : u # t => pc[u] \notin InLock
           /\ Place(t) /\ (pc[t] \notin Changing => Settled)
           /\ warmed => Bound \/ pc[t] = "clear"
           /\ pc[t] \in Loading => ~warmed
<1>1. owner = t /\ \A u \in Threads : u # t => pc[u] \notin InLock
  BY Exclusive DEF IndInv
<1>2. \A u \in Threads : u # t => pc[u] \notin Changing
  BY <1>1 DEF Changing, Loading, InLock
<1>3. Place(t) /\ (pc[t] \notin Changing => Settled)
  BY <1>2 DEF IndInv, GlobalsOK
<1>4. warmed => Bound \/ pc[t] = "clear"
  BY <1>2 DEF IndInv, WarmOK, Changing
<1> QED
  BY <1>1, <1>3, <1>4 DEF IndInv, WarmOK

\* A step of the owner that stays inside the critical section.
LEMMA InsideStep ==
    ASSUME IndInv, NEW t \in Threads, pc[t] \in InLock, NEW x \in InLock,
           pc' = [pc EXCEPT ![t] = x], owner' = owner, op' = op, todo' = todo,
           x \in {"free", "clear"} => op[t] = "unload"
    PROVE  /\ pc' \in [Threads -> Pcs] /\ pc'[t] = x
           /\ \A u \in Threads : u # t => pc'[u] \notin InLock
           /\ Lock' /\ CallsOK'
<1>1. owner = t /\ \A u \in Threads : u # t => pc[u] \notin InLock
  BY OwnerSees
<1>2. x \in Pcs /\ x # "use"
  BY DEF Pcs, InLock
<1>3. /\ pc' \in [Threads -> Pcs] /\ pc'[t] = x
      /\ \A u \in Threads : u # t => pc'[u] = pc[u]
  BY <1>2 DEF IndInv, Types
<1>4. Lock'
  BY <1>1, <1>3 DEF Lock
<1>5. CallsOK'
  BY <1>2, <1>3 DEF IndInv, CallsOK
<1> QED
  BY <1>1, <1>3, <1>4, <1>5

\* Entering the critical section.
LEMMA EnterKeeps ==
    ASSUME IndInv, NEW t \in Threads, Enter(t) PROVE IndInv'
<1> DEFINE x == CASE op[t] = "unload" -> "free"
                  [] op[t] = "set_search_path" -> "set_path"
                  [] OTHER -> "locked"
<1>1. x \in {"free", "set_path", "locked"} /\ (x = "free" => op[t] = "unload")
  OBVIOUS
<1>2. /\ pc[t] = "enter" /\ owner = NULL /\ owner' = t /\ pc' = [pc EXCEPT ![t] = x]
      /\ UNCHANGED <<globals, vi, si, op, todo, warmed, calls, fault>>
  BY DEF Enter, Go
<1> HIDE DEF x
<1>3. /\ pc' \in [Threads -> Pcs] /\ pc'[t] = x
      /\ \A u \in Threads : u # t => pc'[u] = pc[u]
  BY <1>1, <1>2 DEF IndInv, Types, Pcs
<1>4. \A u \in Threads : pc[u] \notin InLock
  BY <1>2, NullAssumption DEF IndInv, Lock
<1>5. \A u \in Threads : pc[u] \notin Changing /\ pc'[u] \notin Changing
  BY <1>1, <1>3, <1>4 DEF InLock, Changing, Loading
<1>6. Types'
  BY <1>2, <1>3 DEF IndInv, Types, globals
<1>7. Lock'
  BY <1>1, <1>2, <1>3, <1>4 DEF Lock, InLock
<1>8. CallsOK'
  BY <1>1, <1>2, <1>3 DEF IndInv, CallsOK
<1>9. Settled
  BY <1>5 DEF IndInv, GlobalsOK
<1>10. Settled' /\ (Bound => Bound')
  BY <1>2, <1>9 DEF Settled, Vacant, Bound, Ready, globals
<1>11. GlobalsOK'
  BY <1>5, <1>10 DEF GlobalsOK, Place, Changing, Loading
<1>12. WarmOK'
  BY <1>2, <1>5, <1>10 DEF IndInv, WarmOK, Changing, Loading
<1> QED
  BY <1>2, <1>6, <1>7, <1>8, <1>11, <1>12
     DEF IndInv, CodersOK, NegativeCacheHonest, NoBadCall, globals

\* Leaving the critical section with the result of a load, or after an
\* unload or a new search path.
LEMMA LeaveStep ==
    ASSUME IndInv, NEW t \in Threads, pc[t] \in InLock, owner' = NULL,
           NEW r, Loaded(t, r)
    PROVE  /\ pc' \in [Threads -> Pcs] /\ pc'[t] \in {"idle", "use"}
           /\ \A u \in Threads : pc'[u] \notin InLock
           /\ op' \in [Threads -> Ops \cup {"none"}] /\ op'[t] \in {"none", op[t]}
           /\ r # "OK" => op'[t] = "none"
           /\ \A u \in Threads : u # t => op'[u] = op[u]
           /\ todo' \in [Threads -> Seq(SymSet \cup {"load"})]
           /\ Lock' /\ CallsOK'
<1>1. owner = t /\ \A u \in Threads : u # t => pc[u] \notin InLock
  BY OwnerSees
<1>2. /\ pc' \in [Threads -> Pcs] /\ pc'[t] \in {"idle", "use"}
      /\ op' \in [Threads -> Ops \cup {"none"}] /\ op'[t] \in {"none", op[t]}
      /\ r # "OK" => op'[t] = "none"
      /\ todo' \in [Threads -> Seq(SymSet \cup {"load"})]
      /\ \A u \in Threads : u # t => pc'[u] = pc[u] /\ op'[u] = op[u] /\ todo'[u] = todo[u]
      /\ CallsOK'
  BY LoadedFrame DEF IndInv
<1>3. \A u \in Threads : pc'[u] \notin InLock
  BY <1>1, <1>2 DEF InLock
<1>4. Lock'
  BY <1>3, NullAssumption DEF Lock
<1> QED
  BY <1>2, <1>3, <1>4

\* The end of a load: the globals are settled and warmed says which way.
LEMMA LeaveKeeps ==
    ASSUME IndInv, NEW t \in Threads, pc[t] \in InLock, NEW r, Leave(t, r),
           UNCHANGED <<g_oodle, g_version, g_search_path, ptr, mapped, calls, fault>>,
           g_tried_failed' \in BOOLEAN, NegativeCacheHonest',
           Vacant \/ Bound, r = "OK" => Bound, warmed => r = "OK"
    PROVE  IndInv'
<1>1. owner' = NULL /\ vi' = 1 /\ si' = 1 /\ warmed' = (r = "OK") /\ Loaded(t, r)
  BY DEF Leave
<1>2. /\ pc' \in [Threads -> Pcs]
      /\ \A u \in Threads : pc'[u] \notin InLock
      /\ op' \in [Threads -> Ops \cup {"none"}] /\ op'[t] \in {"none", op[t]}
      /\ \A u \in Threads : u # t => op'[u] = op[u]
      /\ todo' \in [Threads -> Seq(SymSet \cup {"load"})]
      /\ Lock' /\ CallsOK'
  BY <1>1, LeaveStep
<1>3. warmed' \in BOOLEAN
  BY <1>1
<1>4. Types'
  BY <1>1, <1>2, <1>3 DEF IndInv, Types
<1>5. Settled' /\ (Bound => Bound')
  BY <1>1 DEF Settled, Vacant, Bound, Ready
<1>6. \A u \in Threads : pc'[u] \notin Changing
  BY <1>2 DEF InLock, Changing, Loading
<1>7. GlobalsOK'
  BY <1>5, <1>6 DEF GlobalsOK, Place, Changing, Loading
<1>8. WarmOK'
  BY <1>1, <1>5, <1>6 DEF WarmOK, Changing
<1>9. warmed => warmed'
  BY <1>1
<1>10. CodersOK'
  BY <1>2, <1>9, CodersKept DEF IndInv
<1> QED
  BY <1>2, <1>4, <1>7, <1>8, <1>10 DEF IndInv, NoBadCall

\* The second look at the globals, under the lock.
LEMMA LockedCheckKeeps ==
    ASSUME IndInv, NEW t \in Threads, LockedCheck(t) PROVE IndInv'
<1>1. pc[t] = "locked" /\ pc[t] \in InLock /\ UNCHANGED <<globals, calls, fault>>
  BY DEF LockedCheck, InLock
<1>2. /\ owner = t /\ \A u \in Threads : u # t => pc[u] \notin InLock
      /\ Settled /\ (warmed => Bound)
  BY <1>1, OwnerSees DEF Changing, Loading
<1>3. g_oodle # NULL <=> Bound
  BY <1>2 DEF Settled, Vacant, Bound, Ready
<1>4. NegativeCacheHonest' /\ g_tried_failed' \in BOOLEAN
  BY <1>1 DEF IndInv, NegativeCacheHonest, Types, globals
<1>5. CASE g_oodle # NULL \/ g_tried_failed
  <2> DEFINE r == IF g_oodle # NULL THEN "OK" ELSE "NOT_FOUND"
  <2>1. Leave(t, r)
    BY <1>5 DEF LockedCheck
  <2>2. (r = "OK" => Bound) /\ (warmed => r = "OK") /\ (Vacant \/ Bound)
    BY <1>2, <1>3 DEF Settled
  <2>3. UNCHANGED <<g_oodle, g_version, g_search_path, ptr, mapped, calls, fault>>
    BY <1>1 DEF globals
  <2> HIDE DEF r
  <2> QED
    BY <1>1, <1>4, <2>1, <2>2, <2>3, LeaveKeeps
<1>6. CASE ~(g_oodle # NULL \/ g_tried_failed)
  <2>1. pc' = [pc EXCEPT ![t] = "open"] /\ UNCHANGED <<owner, vi, si, op, todo, warmed>>
    BY <1>6 DEF LockedCheck, Go
  <2>2. /\ pc' \in [Threads -> Pcs] /\ pc'[t] = "open"
        /\ \A u \in Threads : u # t => pc'[u] \notin InLock
        /\ Lock' /\ CallsOK'
    BY <1>1, <2>1, InsideStep DEF InLock
  <2>3. Vacant /\ ~Bound /\ ~warmed /\ vi = 1
    BY <1>2, <1>3, <1>6 DEF Settled
  <2>4. Vacant' /\ Probed(vi)'
    BY <1>1, <2>1, <2>3 DEF Vacant, Probed, globals
  <2>5. GlobalsOK'
    BY <2>2, <2>4, OwnerPlace DEF Place, Changing, Loading
  <2>6. WarmOK'
    BY <2>1, <2>3 DEF WarmOK
  <2>7. Types'
    BY <1>1, <2>1, <2>2 DEF IndInv, Types, globals
  <2> QED
    BY <1>1, <1>4, <2>1, <2>2, <2>5, <2>6, <2>7 DEF IndInv, CodersOK, NoBadCall
<1> QED
  BY <1>5, <1>6

\* What a step of load_locked that keeps the lock leaves to show.
LEMMA LoadingKeeps ==
    ASSUME IndInv, NEW t \in Threads, pc[t] \in Loading, NEW x \in Loading,
           pc' = [pc EXCEPT ![t] = x],
           UNCHANGED <<g_tried_failed, g_search_path, owner, op, todo, warmed, calls, fault>>,
           g_oodle' \in Dlls \cup {NULL}, g_version' \in VersionSet \cup {UNKNOWN},
           ptr' \in [SymSet -> Dlls \cup {NULL}], mapped' \subseteq Dlls,
           vi' \in 1 .. 4, si' \in 1 .. 5,
           pc'[t] = x => Place(t)'
    PROVE  IndInv'
<1>1. pc[t] \in InLock /\ x \in InLock /\ x \notin {"free", "clear"}
  BY DEF Loading, InLock
<1>2. /\ pc' \in [Threads -> Pcs] /\ pc'[t] = x
      /\ \A u \in Threads : u # t => pc'[u] \notin InLock
      /\ Lock' /\ CallsOK'
  BY <1>1, InsideStep
<1>3. GlobalsOK'
  BY <1>2, OwnerPlace DEF Changing
<1>4. ~warmed
  BY <1>1, OwnerSees
<1>5. WarmOK'
  BY <1>4 DEF WarmOK
<1>6. Types'
  BY <1>2 DEF IndInv, Types
<1> QED
  BY <1>2, <1>3, <1>5, <1>6 DEF IndInv, CodersOK, NegativeCacheHonest, NoBadCall

\* The versions and the symbols, one by one.
LEMMA Lists ==
    /\ VersionSet = {9, 8, 6} /\ \A i \in 1 .. 3 : Versions[i] \in VersionSet
    /\ \A v \in VersionSet : \E i \in 1 .. 3 : v = Versions[i]
    /\ \A i \in 1 .. 4 : Syms[i] \in SymSet
    /\ \A s \in SymSet : \E i \in 1 .. 4 : s = Syms[i]
<1>1. VersionSet = {9, 8, 6}
  <2>1. VersionSet = {Versions[1], Versions[2], Versions[3]}
    BY DEF VersionSet
  <2> QED
    BY <2>1 DEF Versions
<1>2. /\ \A i \in 1 .. 3 : Versions[i] \in VersionSet
      /\ \A v \in VersionSet : \E i \in 1 .. 3 : v = Versions[i]
  BY DEF VersionSet
<1>3. /\ \A i \in 1 .. 4 : Syms[i] \in SymSet
      /\ \A s \in SymSet : \E i \in 1 .. 4 : s = Syms[i]
  BY DEF SymSet
<1> QED
  BY <1>1, <1>2, <1>3

\* The DLL of a directory and a version.
LEMMA DllFields ==
    ASSUME NEW d \in Dirs, NEW v \in VersionSet
    PROVE  Dll(d, v) \in Dlls /\ Dll(d, v) # NULL /\ Dll(d, v).dir = d /\ Dll(d, v).ver = v
<1>1. Dll(d, v) \in Dlls
  BY DEF Dlls
<1>2. Dll(d, v).dir = d /\ Dll(d, v).ver = v
  BY DEF Dll
<1> QED
  BY <1>1, <1>2, NullAssumption

\* LoadLibraryW for one version: found, or on to the next.
LEMMA OpenVersionKeeps ==
    ASSUME IndInv, NEW t \in Threads, OpenVersion(t) PROVE IndInv'
<1> DEFINE dll == Dll(g_search_path, Versions[vi])
<1>1. pc[t] = "open" /\ pc[t] \in Loading /\ vi \in 1 .. 3
  BY DEF OpenVersion, Loading, IndInv, Types
<1>2. Place(t)
  BY <1>1, OwnerSees DEF Loading, InLock
<1>3. Vacant /\ Probed(vi)
  BY <1>1, <1>2 DEF Place
<1>4. Types
  BY DEF IndInv
<1>5. dll \in Dlls /\ dll.dir = g_search_path /\ dll.ver = Versions[vi]
  BY <1>1, <1>4, Lists, DllFields DEF Types
<1>6. UNCHANGED <<g_version, g_tried_failed, g_search_path, ptr, owner, si,
                  op, todo, warmed, calls, fault>>
  BY DEF OpenVersion
<1>7. CASE /\ Lib[dll.dir][dll.ver] = "missing"
           /\ g_oodle' = NULL /\ vi' = vi + 1
           /\ UNCHANGED <<mapped, pc>>
  <2>1. Vacant'
    BY <1>3, <1>6, <1>7 DEF Vacant
  <2>2. Probed(vi)'
    BY <1>1, <1>3, <1>5, <1>6, <1>7 DEF Probed
  <2>3. pc' = [pc EXCEPT ![t] = "open"]
    BY <1>1, <1>4, <1>7 DEF Types
  <2>4. pc'[t] = "open" => Place(t)'
    BY <2>1, <2>2 DEF Place
  <2>5. vi' \in 1 .. 4
    BY <1>1, <1>7
  <2> QED
    BY <1>1, <1>4, <1>6, <1>7, <2>3, <2>4, <2>5, LoadingKeeps DEF Types
<1>8. CASE /\ Lib[dll.dir][dll.ver] # "missing"
           /\ g_oodle' = dll /\ mapped' = mapped \cup {dll}
           /\ Go(t, "version")
           /\ UNCHANGED vi
  <2>1. pc' = [pc EXCEPT ![t] = "version"] /\ "version" \in Loading
    BY <1>8 DEF Go, Loading
  <2>2. Held' /\ mapped' = {g_oodle'} /\ Probed(vi)'
    <3>1. mapped' = {g_oodle'}
      BY <1>3, <1>8 DEF Vacant
    <3>2. Held'
      BY <1>1, <1>6, <1>8 DEF Held
    <3>3. Probed(vi)'
      BY <1>3, <1>6, <1>8 DEF Probed
    <3> QED
      BY <3>1, <3>2, <3>3
  <2>3. pc'[t] = "version" => Place(t)'
    BY <2>2 DEF Place
  <2>4. /\ g_oodle' \in Dlls \cup {NULL} /\ mapped' \subseteq Dlls /\ vi' \in 1 .. 4
    BY <1>4, <1>5, <1>8 DEF Types
  <2> HIDE DEF dll
  <2> QED
    BY <1>1, <1>4, <1>6, <2>1, <2>3, <2>4, LoadingKeeps DEF Types
<1> QED
  BY <1>7, <1>8 DEF OpenVersion

\* g_version is set before the symbols are looked up.
LEMMA SetVersionKeeps ==
    ASSUME IndInv, NEW t \in Threads, SetVersion(t) PROVE IndInv'
<1>1. pc[t] = "version" /\ pc[t] \in Loading
  BY DEF SetVersion, Loading
<1>2. Held /\ mapped = {g_oodle} /\ Probed(vi)
  BY <1>1, OwnerSees DEF Loading, InLock, Place
<1>3. /\ g_version' = Versions[vi] /\ si' = 1
      /\ pc' = [pc EXCEPT ![t] = "bind"] /\ "bind" \in Loading
      /\ UNCHANGED <<g_oodle, g_tried_failed, g_search_path, ptr, mapped, owner, vi,
                     op, todo, warmed, calls, fault>>
  BY DEF SetVersion, Go, Loading
<1>4. g_version' \in VersionSet
  BY <1>2, <1>3, Lists DEF Held
<1>5. pc'[t] = "bind" => Place(t)'
  BY <1>2, <1>3 DEF Place, Held, Probed
<1>6. Types
  BY DEF IndInv
<1>7. /\ si' \in 1 .. 5 /\ vi' \in 1 .. 4 /\ mapped' \subseteq Dlls
      /\ g_oodle' \in Dlls \cup {NULL} /\ ptr' \in [SymSet -> Dlls \cup {NULL}]
  BY <1>3, <1>6 DEF Types
<1> QED
  BY <1>1, <1>3, <1>4, <1>5, <1>7, LoadingKeeps

\* One GetProcAddress.
LEMMA BindSymbolKeeps ==
    ASSUME IndInv, NEW t \in Threads, BindSymbol(t) PROVE IndInv'
<1>1. pc[t] = "bind" /\ pc[t] \in Loading /\ si \in 1 .. 4
  BY DEF BindSymbol, Loading, IndInv, Types
<1>2. /\ Held /\ mapped = {g_oodle} /\ Probed(vi) /\ g_version = Versions[vi]
      /\ \A i \in 1 .. 4 : i < si => ptr[Syms[i]] = sym(g_oodle, Syms[i])
  BY <1>1, OwnerSees DEF Loading, InLock, Place
<1>3. Types
  BY DEF IndInv
<1>4. g_oodle \in Dlls
  BY <1>2, <1>3, Lists, DllFields DEF Held, Types
<1>5. /\ ptr' = [ptr EXCEPT ![Syms[si]] = sym(g_oodle, Syms[si])] /\ si' = si + 1
      /\ UNCHANGED <<g_oodle, g_version, g_tried_failed, g_search_path, mapped, owner, vi,
                     pc, op, todo, calls, warmed, fault>>
  BY DEF BindSymbol, locals
<1>6. sym(g_oodle, Syms[si]) \in Dlls \cup {NULL}
  BY <1>4 DEF sym
<1>7. Syms[si] \in SymSet
  BY <1>1, Lists
<1>8. ptr' \in [SymSet -> Dlls \cup {NULL}] /\ ptr'[Syms[si]] = sym(g_oodle, Syms[si])
      /\ \A s \in SymSet : s # Syms[si] => ptr'[s] = ptr[s]
  BY <1>3, <1>5, <1>6, <1>7 DEF Types
<1>9. \A i \in 1 .. 4 : i < si' => ptr'[Syms[i]] = sym(g_oodle', Syms[i])
  <2> SUFFICES ASSUME NEW i \in 1 .. 4, i < si + 1
               PROVE  ptr'[Syms[i]] = sym(g_oodle, Syms[i])
    BY <1>5
  <2>1. Syms[i] \in SymSet
    BY Lists
  <2>2. CASE Syms[i] = Syms[si]
    BY <1>8, <2>2
  <2>3. CASE Syms[i] # Syms[si]
    <3>1. i < si
      BY <1>1, <2>3
    <3> QED
      BY <1>2, <1>8, <2>1, <2>3, <3>1
  <2> QED
    BY <2>2, <2>3
<1>10. Held' /\ mapped' = {g_oodle'} /\ Probed(vi)' /\ g_version' = Versions[vi']
  BY <1>2, <1>5 DEF Held, Probed
<1>11. pc' = [pc EXCEPT ![t] = "bind"]
  BY <1>1, <1>3, <1>5 DEF Types
<1>12. pc'[t] = "bind" => Place(t)'
  BY <1>9, <1>10 DEF Place
<1>13. /\ si' \in 1 .. 5 /\ vi' \in 1 .. 4 /\ mapped' \subseteq Dlls /\ "bind" \in Loading
       /\ g_oodle' \in Dlls \cup {NULL} /\ g_version' \in VersionSet \cup {UNKNOWN}
  BY <1>1, <1>3, <1>5 DEF Types
<1>14. UNCHANGED <<g_tried_failed, g_search_path, owner, op, todo, warmed, calls, fault>>
  BY <1>5
<1> QED
  BY <1>1, <1>8, <1>11, <1>12, <1>13, <1>14, LoadingKeeps

\* Four symbols bound make a loaded DLL; a partial one is dropped.
LEMMA BindDoneKeeps ==
    ASSUME IndInv, NEW t \in Threads, BindDone(t) PROVE IndInv'
<1>1. /\ pc[t] = "bind" /\ pc[t] \in Loading /\ pc[t] \in InLock /\ si = 5
      /\ UNCHANGED <<globals, calls, fault>>
  BY DEF BindDone, Loading, InLock
<1>2. /\ Held /\ mapped = {g_oodle} /\ Probed(vi) /\ g_version = Versions[vi] /\ ~warmed
      /\ \A i \in 1 .. 4 : ptr[Syms[i]] = sym(g_oodle, Syms[i])
  BY <1>1, OwnerSees DEF Place
<1>3. Types
  BY DEF IndInv
<1>4. /\ g_oodle \in Dlls /\ g_oodle # NULL /\ g_oodle.dir = g_search_path
      /\ g_oodle.ver = Versions[vi]
  BY <1>2, <1>3, Lists, DllFields DEF Held, Types
<1>5. \A s \in SymSet : ptr[s] = sym(g_oodle, s)
  BY <1>2, Lists
<1>6. CASE \A s \in SymSet : ptr[s] # NULL
  <2>1. Leave(t, "OK")
    BY <1>6 DEF BindDone
  <2>2. \A s \in SymSet : ptr[s] = g_oodle
    BY <1>5, <1>6 DEF sym
  <2>3. Bound
    BY <1>2, <1>4, <2>2 DEF Bound, Ready
  <2>4. NegativeCacheHonest' /\ g_tried_failed' \in BOOLEAN
    BY <1>1 DEF IndInv, NegativeCacheHonest, Types, globals
  <2> QED
    BY <1>1, <1>2, <2>1, <2>3, <2>4, LeaveKeeps DEF globals
<1>7. CASE ~(\A s \in SymSet : ptr[s] # NULL)
  <2>1. /\ pc' = [pc EXCEPT ![t] = "drop"] /\ "drop" \in Loading
        /\ UNCHANGED <<owner, vi, si, op, todo, warmed>>
    BY <1>7 DEF BindDone, Go, Loading
  <2>2. Lib[g_search_path][Versions[vi]] # "complete"
    BY <1>4, <1>5, <1>7 DEF sym
  <2>3. Probed(vi + 1)
    BY <1>2, <2>2 DEF Probed, Held
  <2>4. Held' /\ mapped' \subseteq {g_oodle'} /\ Probed(vi + 1)'
    BY <1>1, <1>2, <2>1, <2>3 DEF Held, Probed, globals
  <2>5. pc'[t] = "drop" => Place(t)'
    BY <2>4 DEF Place
  <2>6. /\ si' \in 1 .. 5 /\ vi' \in 1 .. 4 /\ mapped' \subseteq Dlls
        /\ g_oodle' \in Dlls \cup {NULL} /\ g_version' \in VersionSet \cup {UNKNOWN}
        /\ ptr' \in [SymSet -> Dlls \cup {NULL}]
    BY <1>1, <1>3, <2>1 DEF Types, globals
  <2>7. UNCHANGED <<g_tried_failed, g_search_path, owner, op, todo, warmed, calls, fault>>
    BY <1>1, <2>1 DEF globals
  <2> QED
    BY <1>1, <2>1, <2>5, <2>6, <2>7, LoadingKeeps
<1> QED
  BY <1>6, <1>7

\* FreeLibrary and the reset of the globals after a failed bind.
LEMMA DropVersionKeeps ==
    ASSUME IndInv, NEW t \in Threads, DropVersion(t) PROVE IndInv'
<1>1. /\ pc[t] = "drop" /\ pc[t] \in Loading /\ pc[t] \in InLock
      /\ UNCHANGED <<g_tried_failed, g_search_path, ptr, owner, si, op, todo, warmed, calls, fault>>
  BY DEF DropVersion, Loading, InLock
<1>2. Held /\ mapped \subseteq {g_oodle} /\ Probed(vi + 1)
  BY <1>1, OwnerSees DEF Place
<1>3. Types
  BY DEF IndInv
<1>4. CASE /\ g_oodle \in mapped /\ mapped' = mapped \ {g_oodle}
           /\ UNCHANGED <<g_oodle, g_version, vi, pc>>
  <2>1. pc' = [pc EXCEPT ![t] = "drop"]
    BY <1>1, <1>3, <1>4 DEF Types
  <2>2. pc'[t] = "drop" => Place(t)'
    BY <1>1, <1>2, <1>4 DEF Place, Held, Probed
  <2>3. /\ si' \in 1 .. 5 /\ vi' \in 1 .. 4 /\ mapped' \subseteq Dlls /\ "drop" \in Loading
        /\ g_oodle' \in Dlls \cup {NULL} /\ g_version' \in VersionSet \cup {UNKNOWN}
        /\ ptr' \in [SymSet -> Dlls \cup {NULL}]
    BY <1>1, <1>3, <1>4 DEF Types
  <2> QED
    BY <1>1, <2>1, <2>2, <2>3, LoadingKeeps
<1>5. CASE /\ g_oodle \notin mapped
           /\ g_oodle' = NULL /\ g_version' = UNKNOWN /\ vi' = vi + 1
           /\ Go(t, "open") /\ UNCHANGED mapped
  <2>1. pc' = [pc EXCEPT ![t] = "open"] /\ "open" \in Loading
    BY <1>5 DEF Go, Loading
  <2>2. Vacant'
    BY <1>2, <1>5 DEF Vacant
  <2>3. Probed(vi)'
    BY <1>1, <1>2, <1>5 DEF Probed
  <2>4. pc'[t] = "open" => Place(t)'
    BY <2>2, <2>3 DEF Place
  <2>5. /\ si' \in 1 .. 5 /\ vi' \in 1 .. 4 /\ mapped' \subseteq Dlls
        /\ g_oodle' \in Dlls \cup {NULL} /\ g_version' \in VersionSet \cup {UNKNOWN}
        /\ ptr' \in [SymSet -> Dlls \cup {NULL}]
    BY <1>1, <1>2, <1>3, <1>5 DEF Types, Held
  <2> QED
    BY <1>1, <2>1, <2>4, <2>5, LoadingKeeps
<1> QED
  BY <1>4, <1>5 DEF DropVersion

\* No version could be bound: the failure is remembered, and it is true.
LEMMA NoneFoundKeeps ==
    ASSUME IndInv, NEW t \in Threads, NoneFound(t) PROVE IndInv'
<1>1. /\ pc[t] = "open" /\ pc[t] \in InLock /\ vi = 4 /\ g_tried_failed' = TRUE
      /\ Leave(t, "NOT_FOUND")
      /\ UNCHANGED <<g_oodle, g_version, g_search_path, ptr, mapped, calls, fault>>
  BY DEF NoneFound, InLock
<1>2. Vacant /\ Probed(vi) /\ ~warmed
  BY <1>1, OwnerSees DEF Place, Loading
<1>3. NegativeCacheHonest'
  <2> SUFFICES ASSUME NEW v \in VersionSet PROVE Lib[g_search_path][v] # "complete"
    BY <1>1 DEF NegativeCacheHonest
  <2>1. PICK i \in 1 .. 3 : v = Versions[i]
    BY Lists
  <2> QED
    BY <1>1, <1>2, <2>1 DEF Probed
<1>4. g_tried_failed' \in BOOLEAN
  BY <1>1
<1> QED
  BY <1>1, <1>2, <1>3, <1>4, LeaveKeeps

\* sf_oodle_unload frees what is loaded, when no warm caller is coding.
LEMMA FreeKeeps ==
    ASSUME IndInv, NEW t \in Threads, Free(t) PROVE IndInv'
<1>1. /\ pc[t] = "free" /\ pc[t] \in InLock /\ mapped' = mapped \ {g_oodle}
      /\ pc' = [pc EXCEPT ![t] = "clear"] /\ "clear" \in InLock
      /\ UNCHANGED <<g_oodle, g_version, g_tried_failed, g_search_path, ptr, owner, vi, si,
                     op, todo, warmed, calls, fault>>
  BY DEF Free, InLock, Go
<1>2. Settled /\ \A u \in Threads : u # t => pc[u] \notin InLock
  BY <1>1, OwnerSees DEF Changing, Loading
<1>3. op[t] = "unload"
  BY <1>1 DEF IndInv, CallsOK
<1>4. /\ pc' \in [Threads -> Pcs] /\ pc'[t] = "clear"
      /\ \A u \in Threads : u # t => pc'[u] \notin InLock
      /\ Lock' /\ CallsOK'
  BY <1>1, <1>3, InsideStep
<1>5. mapped' = {} /\ vi' = 1
  BY <1>1, <1>2 DEF Settled, Vacant, Bound
<1>6. GlobalsOK'
  BY <1>4, <1>5, OwnerPlace DEF Place, Changing
<1>7. WarmOK'
  BY <1>4 DEF WarmOK, Loading, InLock
<1>8. Types'
  BY <1>1, <1>4, <1>5 DEF IndInv, Types
<1> QED
  BY <1>1, <1>4, <1>6, <1>7, <1>8 DEF IndInv, CodersOK, NegativeCacheHonest, NoBadCall

\* The globals go back to what they were before the first load.
LEMMA ClearKeeps ==
    ASSUME IndInv, NEW t \in Threads, Clear(t) PROVE IndInv'
<1>1. /\ pc[t] = "clear" /\ pc[t] \in InLock /\ owner' = NULL
      /\ g_oodle' = NULL /\ g_version' = UNKNOWN /\ ptr' = [s \in SymSet |-> NULL]
      /\ g_tried_failed' = FALSE /\ warmed' = FALSE
      /\ UNCHANGED <<g_search_path, mapped, vi, si, calls, fault>>
      /\ Return(t)
  BY DEF Clear, Unlock, InLock
<1>2. Loaded(t, "VOID")
  BY <1>1 DEF Loaded
<1>3. /\ pc' \in [Threads -> Pcs] /\ \A u \in Threads : pc'[u] \notin InLock
      /\ op' \in [Threads -> Ops \cup {"none"}] /\ op'[t] = "none"
      /\ \A u \in Threads : u # t => op'[u] = op[u]
      /\ todo' \in [Threads -> Seq(SymSet \cup {"load"})]
      /\ Lock' /\ CallsOK'
  BY <1>1, <1>2, LeaveStep
<1>4. mapped = {} /\ vi = 1
  BY <1>1, OwnerSees DEF Place
<1>5. Settled'
  BY <1>1, <1>4 DEF Settled, Vacant
<1>6. \A u \in Threads : pc'[u] \notin Changing
  BY <1>3 DEF InLock, Changing, Loading
<1>7. GlobalsOK' /\ WarmOK'
  BY <1>1, <1>5, <1>6 DEF GlobalsOK, Place, WarmOK, Changing, Loading
<1>8. Types'
  BY <1>1, <1>3 DEF IndInv, Types
<1>9. CodersOK'
  <2>1. op[t] = "unload"
    BY <1>1 DEF IndInv, CallsOK
  <2> QED
    BY <1>3, <2>1 DEF IndInv, CodersOK, Coders
<1>10. NegativeCacheHonest'
  BY <1>1 DEF NegativeCacheHonest
<1> QED
  BY <1>1, <1>3, <1>7, <1>8, <1>9, <1>10 DEF IndInv, NoBadCall

\* A new search path: a remembered failure was about the old one.
LEMMA SetSearchPathKeeps ==
    ASSUME IndInv, NEW t \in Threads, NEW d \in Dirs, SetSearchPath(t, d) PROVE IndInv'
<1>1. /\ pc[t] = "set_path" /\ pc[t] \in InLock /\ owner' = NULL
      /\ g_search_path' = d /\ g_tried_failed' = FALSE
      /\ UNCHANGED <<g_oodle, g_version, ptr, mapped, warmed, vi, si, calls, fault>>
      /\ Return(t)
  BY DEF SetSearchPath, Unlock, InLock
<1>2. Loaded(t, "VOID")
  BY <1>1 DEF Loaded
<1>3. /\ pc' \in [Threads -> Pcs] /\ \A u \in Threads : pc'[u] \notin InLock
      /\ op' \in [Threads -> Ops \cup {"none"}] /\ op'[t] = "none"
      /\ \A u \in Threads : u # t => op'[u] = op[u]
      /\ todo' \in [Threads -> Seq(SymSet \cup {"load"})]
      /\ Lock' /\ CallsOK'
  BY <1>1, <1>2, LeaveStep
<1>4. Settled /\ (warmed => Bound)
  BY <1>1, OwnerSees DEF Changing, Loading
<1>5. Settled' /\ (Bound => Bound')
  BY <1>1, <1>4 DEF Settled, Vacant, Bound, Ready
<1>6. \A u \in Threads : pc'[u] \notin Changing
  BY <1>3 DEF InLock, Changing, Loading
<1>7. GlobalsOK' /\ WarmOK'
  BY <1>1, <1>4, <1>5, <1>6 DEF GlobalsOK, Place, WarmOK, Changing, Loading
<1>8. Types'
  BY <1>1, <1>3 DEF IndInv, Types
<1>9. CodersOK'
  BY <1>1, <1>3, CodersKept DEF IndInv
<1>10. NegativeCacheHonest'
  BY <1>1 DEF NegativeCacheHonest
<1> QED
  BY <1>1, <1>3, <1>7, <1>8, <1>9, <1>10 DEF IndInv, NoBadCall

\* Every step of every thread preserves the invariant.
LEMMA NextKeeps ==
    ASSUME IndInv, [Next]_vars PROVE IndInv'
<1>1. ASSUME NEW t \in Threads, Step(t) PROVE IndInv'
  BY <1>1, FastPathKeeps, EnterKeeps, LockedCheckKeeps, OpenVersionKeeps, SetVersionKeeps,
     BindSymbolKeeps, BindDoneKeeps, DropVersionKeeps, NoneFoundKeeps, FreeKeeps, ClearKeeps,
     SetSearchPathKeeps, UseKeeps DEF Step
<1>2. ASSUME NEW t \in Threads, NEW o \in Ops, Start(t, o) PROVE IndInv'
  BY <1>2, StartKeeps
<1>3. ASSUME UNCHANGED vars PROVE IndInv'
  BY <1>3 DEF vars, IndInv, Types, Lock, CallsOK, GlobalsOK, Place, Settled, Vacant, Bound, Held,
              Probed, Ready, WarmOK, CodersOK, NegativeCacheHonest, NoBadCall
<1> QED
  BY <1>1, <1>2, <1>3 DEF Next, Rest

\* The inductive invariant holds in every state of the loader.
THEOREM Invariance == Spec => []IndInv
<1>1. IndInv /\ [Next]_vars => IndInv'
  BY NextKeeps
<1> QED
  BY <1>1, InitHolds, PTL DEF Spec

\* The loader's state is well typed, and exactly the thread inside g_lock is
\* at a place of load_locked, sf_oodle_unload or sf_oodle_set_search_path
\* that the lock protects: the critical section is exclusive.
THEOREM LoaderTypes == Spec => []TypeOK
<1>1. IndInv => TypeOK
  BY DEF IndInv, Types, Lock, TypeOK
<1> QED
  BY <1>1, Invariance, PTL

\* Whenever the lock is free the globals describe nothing loaded and nothing
\* mapped, or one mapped DLL with its version and all four functions bound,
\* however many versions were opened and dropped under it.
THEOREM UnlockedIsConsistent == Spec => []ConsistentUnlocked
<1>1. IndInv => ConsistentUnlocked
  <2> SUFFICES ASSUME IndInv, owner = NULL PROVE Vacant \/ Bound
    BY DEF ConsistentUnlocked, Vacant, Bound
  <2>1. \A t \in Threads : pc[t] \notin Changing
    BY NullAssumption DEF IndInv, Lock, InLock, Changing, Loading
  <2> QED
    BY <2>1 DEF IndInv, GlobalsOK, Settled
<1> QED
  BY <1>1, Invariance, PTL

\* While g_tried_failed is set, the search path in force has no complete DLL
\* that a load would have found.
THEOREM NegativeCacheIsHonest == Spec => []NegativeCacheHonest
<1>1. IndInv => NegativeCacheHonest
  BY DEF IndInv
<1> QED
  BY <1>1, Invariance, PTL

\* Callers that wait for a completed load, and unload only while nobody is
\* coding, never call through a NULL pointer, into a freed DLL or with the
\* wrong version's signature, however their calls interleave with loads and
\* with changes of the search path.
THEOREM WarmCallsAreGood == ASSUME Warm PROVE Spec => []NoBadCall
<1>1. IndInv => NoBadCall
  BY DEF IndInv
<1> QED
  BY <1>1, Invariance, PTL
=============================================================================
