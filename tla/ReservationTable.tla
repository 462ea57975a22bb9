-------------------------- MODULE ReservationTable --------------------------
(***************************************************************************)
(* The reservation set as the binary writer stores it: an open-addressing  *)
(* hash table with linear probing, tombstones and a rehash that doubles    *)
(* the capacity.  Pop and Peek are one action each; Push is the call, the  *)
(* rehash loop of sfres_table_grow one source slot at a time, and the      *)
(* insertion.  While a push is under way no other call is: the writer is   *)
(* used by one thread.                                                     *)
(*                                                                         *)
(* A probe is the `for (;;)` walk from the home slot of a name.  It has no *)
(* bound: an action whose walk meets no stopping slot is never enabled,    *)
(* which is the hang the load limit is there to exclude.                   *)
(***************************************************************************)
EXTENDS Naturals, FiniteSets

CONSTANTS Names, Kinds,  \* a reservation's key is a name and a kind
          Hash,          \* sfres_hash: depends on the name only
          Positions,     \* stream positions
          InitCap,       \* SFRES_INIT_CAP
          SizeMax,       \* SIZE_MAX: doubling past it overflows
          NoKey, NoPos

Keys == Names \X Kinds

ASSUME HashAssumption == Hash \in [Names -> Nat]
ASSUME InitCapAssumption == InitCap \in Nat /\ InitCap > 1
ASSUME SizeMaxAssumption == SizeMax \in Nat /\ InitCap <= SizeMax
ASSUME NullAssumption == NoKey \notin Keys /\ NoPos \notin Positions

VARIABLES slots,     \* res_slots, a function on 0 .. cap-1
          cap,       \* res_cap
          used,      \* res_used: slots that are not EMPTY
          live,      \* res_live: slots that are OCCUPIED
          pc,        \* where the push under way is
          arg,       \* its <<key, position>>
          newSlots,  \* new_slots of sfres_table_grow
          newCap,    \* new_cap
          idx,       \* the rehash loop's index i
          ret        \* the last call and what it returned

table == <<slots, cap, used, live>>
loop  == <<newSlots, newCap, idx>>
vars  == <<slots, cap, used, live, pc, arg, newSlots, newCap, idx, ret>>

\* The fields of a slot that is not OCCUPIED are never read, so they carry
\* no value here.
Blank(state) == [state |-> state, key |-> NoKey, pos |-> NoPos]
Occupied(k, p) == [state |-> "OCCUPIED", key |-> k, pos |-> p]

Slot == {Blank("EMPTY"), Blank("TOMBSTONE")}
          \cup {Occupied(k, p) : k \in Keys, p \in Positions}

NoSlots == [i \in {} |-> Blank("EMPTY")]
NoArg == <<NoKey, NoPos>>

Ret(op, k, p, res) == [op |-> op, key |-> k, pos |-> p, res |-> res]
-----------------------------------------------------------------------------
(***************************************************************************)
(* Probing a table t of capacity c for key k.                              *)
(***************************************************************************)

\* The slot d steps after the home slot `hash & mask`, wrapping at the end.
At(c, k, d) == LET h == Hash[k[1]] % c
               IN  IF h + d < c THEN h + d ELSE (h + d) - c

Empty(t, i) == t[i].state = "EMPTY"
Holds(t, i, k) == t[i].state = "OCCUPIED" /\ t[i].key = k

\* The walk for k stops after d steps, at an EMPTY slot or at k's own.
Stops(t, c, k, d) == Empty(t, At(c, k, d)) \/ Holds(t, At(c, k, d), k)
Walk(t, c, k, d) == /\ d \in 0 .. c - 1
                    /\ Stops(t, c, k, d)
                    /\ \A e \in 0 .. c - 1 : e < d => ~Stops(t, c, k, e)

\* sfres_probe_lookup returns slot i.
ProbeLookup(t, c, k, i) == \E d \in 0 .. c - 1 : Walk(t, c, k, d) /\ i = At(c, k, d)

\* sfres_probe_insert finds k already there, in slot i.
ProbeDuplicate(t, c, k, i) == ProbeLookup(t, c, k, i) /\ Holds(t, i, k)

\* sfres_probe_insert offers slot i: the first slot of the walk that is not
\* OCCUPIED, a tombstone or the EMPTY slot the walk stopped at.
ProbeInsert(t, c, k, i) ==
    \E d \in 0 .. c - 1 :
        /\ Walk(t, c, k, d)
        /\ Empty(t, At(c, k, d))
        /\ \E e \in 0 .. c - 1 :
              /\ e <= d
              /\ i = At(c, k, e)
              /\ t[i].state # "OCCUPIED"
              /\ \A f \in 0 .. c - 1 : f < e => t[At(c, k, f)].state = "OCCUPIED"
-----------------------------------------------------------------------------
Init == /\ slots = NoSlots /\ cap = 0 /\ used = 0 /\ live = 0
        /\ pc = "idle" /\ arg = NoArg
        /\ newSlots = NoSlots /\ newCap = 0 /\ idx = 0
        /\ ret = Ret("none", NoKey, NoPos, "OK")

\* A push returns res.
Return(k, p, res) == /\ pc' = "idle" /\ arg' = NoArg
                     /\ ret' = Ret("push", k, p, res)

\* Mutant: the insertion about to happen is not counted.
NeedsGrow_NotCounted == cap = 0 \/ used * 10 > cap * 7
\* (used + 1) * SFRES_LOAD_DEN > cap * SFRES_LOAD_NUM, or no table yet.
NeedsGrow == cap = 0 \/ (used + 1) * 10 > cap * 7
GrownCap == IF cap = 0 THEN InitCap ELSE cap * 2

PushFits(k, p) ==
    /\ pc = "idle"
    /\ ~NeedsGrow
    /\ pc' = "insert" /\ arg' = <<k, p>>
    /\ UNCHANGED <<table, loop, ret>>

PushGrows(k, p) ==
    /\ pc = "idle"
    /\ NeedsGrow
    /\ GrownCap <= SizeMax
    /\ pc' = "rehash" /\ arg' = <<k, p>>
    /\ newCap' = GrownCap
    /\ newSlots' = [i \in 0 .. GrownCap - 1 |-> Blank("EMPTY")]
    /\ idx' = 0
    /\ UNCHANGED <<table, ret>>

PushGrowFails(k, p) ==
    /\ pc = "idle"
    /\ NeedsGrow
    /\ Return(k, p, IF GrownCap > SizeMax THEN "OUT_OF_RANGE" ELSE "OOM")
    /\ UNCHANGED <<table, loop>>

\* One turn of the rehash loop: tombstones and empty slots are skipped.
RehashSlot ==
    /\ pc = "rehash"
    /\ idx < cap
    /\ idx' = idx + 1
    /\ \/ /\ slots[idx].state # "OCCUPIED"
          /\ newSlots' = newSlots
       \/ /\ slots[idx].state = "OCCUPIED"
          /\ \E i \in 0 .. newCap - 1 :
                /\ \/ ProbeInsert(newSlots, newCap, slots[idx].key, i)
                   \/ ProbeDuplicate(newSlots, newCap, slots[idx].key, i)
                /\ newSlots' = [newSlots EXCEPT ![i] = slots[idx]]
    /\ UNCHANGED <<table, pc, arg, newCap, ret>>

\* The table is swapped in and the push goes on to its insertion.
RehashDone ==
    /\ pc = "rehash"
    /\ idx = cap
    /\ slots' = newSlots /\ cap' = newCap /\ used' = live /\ live' = live
    /\ pc' = "insert"
    /\ newSlots' = NoSlots /\ newCap' = 0 /\ idx' = 0
    /\ UNCHANGED <<arg, ret>>

\* Mutant: a second reservation of a key overwrites the first.
InsertDuplicate_Overwrites ==
    /\ pc = "insert"
    /\ \E i \in 0 .. cap - 1 :
          /\ ProbeDuplicate(slots, cap, arg[1], i)
          /\ slots' = [slots EXCEPT ![i] = Occupied(arg[1], arg[2])]
    /\ Return(arg[1], arg[2], "OK")
    /\ UNCHANGED <<cap, used, live, loop>>
InsertDuplicate ==
    /\ pc = "insert"
    /\ \E i \in 0 .. cap - 1 : ProbeDuplicate(slots, cap, arg[1], i)
    /\ Return(arg[1], arg[2], "ALREADY_EXISTS")
    /\ UNCHANGED <<table, loop>>

\* The name cannot be copied: the table keeps the size it has grown to.
InsertOOM ==
    /\ pc = "insert"
    /\ \E i \in 0 .. cap - 1 : ProbeInsert(slots, cap, arg[1], i)
    /\ Return(arg[1], arg[2], "OOM")
    /\ UNCHANGED <<table, loop>>

\* Mutant: a reused tombstone is counted a second time.
Insert_CountsTombstone ==
    /\ pc = "insert"
    /\ \E i \in 0 .. cap - 1 :
          /\ ProbeInsert(slots, cap, arg[1], i)
          /\ slots' = [slots EXCEPT ![i] = Occupied(arg[1], arg[2])]
    /\ cap' = cap /\ used' = used + 1 /\ live' = live + 1
    /\ Return(arg[1], arg[2], "OK")
    /\ UNCHANGED loop
Insert ==
    /\ pc = "insert"
    /\ \E i \in 0 .. cap - 1 :
          /\ ProbeInsert(slots, cap, arg[1], i)
          /\ slots' = [slots EXCEPT ![i] = Occupied(arg[1], arg[2])]
          /\ used' = IF slots[i].state = "TOMBSTONE" THEN used ELSE used + 1
    /\ cap' = cap
    /\ live' = live + 1
    /\ Return(arg[1], arg[2], "OK")
    /\ UNCHANGED loop

\* Mutant: res_live is decremented before the slot's state is looked at.
Absent_Decrements(op, k) ==
    /\ pc = "idle"
    /\ cap > 0
    /\ \E i \in 0 .. cap - 1 : ProbeLookup(slots, cap, k, i) /\ Empty(slots, i)
    /\ live' = live - 1
    /\ ret' = Ret(op, k, NoPos, "NOT_FOUND")
    /\ UNCHANGED <<slots, cap, used, loop, pc, arg>>
\* reservations_pop and reservations_peek of a key the table does not hold.
Absent(op, k) ==
    /\ pc = "idle"
    /\ \/ cap = 0
       \/ \E i \in 0 .. cap - 1 : ProbeLookup(slots, cap, k, i) /\ Empty(slots, i)
    /\ ret' = Ret(op, k, NoPos, "NOT_FOUND")
    /\ UNCHANGED <<table, loop, pc, arg>>

\* Mutant: a popped slot becomes EMPTY and cuts the walks that pass it.
Pop_NoTombstone(k) ==
    /\ pc = "idle"
    /\ \E i \in 0 .. cap - 1 :
          /\ ProbeLookup(slots, cap, k, i)
          /\ slots[i].state = "OCCUPIED"
          /\ slots' = [slots EXCEPT ![i] = Blank("EMPTY")]
          /\ ret' = Ret("pop", k, slots[i].pos, "OK")
    /\ live' = live - 1 /\ used' = used - 1
    /\ UNCHANGED <<cap, loop, pc, arg>>
Pop(k) ==
    /\ pc = "idle"
    /\ \E i \in 0 .. cap - 1 :
          /\ ProbeLookup(slots, cap, k, i)
          /\ slots[i].state = "OCCUPIED"
          /\ slots' = [slots EXCEPT ![i] = Blank("TOMBSTONE")]
          /\ ret' = Ret("pop", k, slots[i].pos, "OK")
    /\ live' = live - 1
    /\ UNCHANGED <<cap, used, loop, pc, arg>>

Peek(k) ==
    /\ pc = "idle"
    /\ \E i \in 0 .. cap - 1 :
          /\ ProbeLookup(slots, cap, k, i)
          /\ slots[i].state = "OCCUPIED"
          /\ ret' = Ret("peek", k, slots[i].pos, "OK")
    /\ UNCHANGED <<table, loop, pc, arg>>

Internal == RehashSlot \/ RehashDone \/ InsertDuplicate \/ InsertOOM \/ Insert

Call == \E k \in Keys :
            \/ \E p \in Positions : PushFits(k, p) \/ PushGrows(k, p) \/ PushGrowFails(k, p)
            \/ Absent("pop", k) \/ Absent("peek", k)
            \/ Pop(k) \/ Peek(k)

Next == Internal \/ Call

Spec == Init /\ [][Next]_vars

-----------------------------------------------------------------------------
(***************************************************************************)
(* Properties.                                                             *)
(***************************************************************************)
NonEmpty(t, c) == {i \in 0 .. c - 1 : t[i].state # "EMPTY"}
Live(t, c) == {i \in 0 .. c - 1 : t[i].state = "OCCUPIED"}

TypeOK ==
    /\ cap \in Nat /\ used \in Nat /\ live \in Nat
    /\ slots \in [0 .. cap - 1 -> Slot]
    /\ pc \in {"idle", "rehash", "insert"}
    /\ IF pc = "idle" THEN arg = NoArg ELSE arg \in Keys \X Positions
    /\ newCap \in Nat /\ idx \in 0 .. cap
    /\ newSlots \in [0 .. newCap - 1 -> Slot]

\* Every walk of a probe ends: the table always keeps an EMPTY slot, the new
\* table of a rehash included, so the `for (;;)` loops of sfres_probe_lookup
\* and sfres_probe_insert cannot spin.
ProbesEnd ==
    /\ cap > 0 => \E i \in 0 .. cap - 1 : Empty(slots, i)
    /\ pc = "rehash" => \E i \in 0 .. newCap - 1 : Empty(newSlots, i)

\* Every reservation can be found again: the walk for the key of an OCCUPIED
\* slot ends at that very slot, however many tombstones, collisions and
\* rehashes there were.  (A key found elsewhere would be a duplicate.)
Findable(t, c) == \A i \in Live(t, c) : ProbeLookup(t, c, t[i].key, i)
ReservationsFindable == /\ cap > 0 => Findable(slots, cap)
                        /\ pc = "rehash" => Findable(newSlots, newCap)

\* res_live and res_used count what they are named after; finish() decides
\* by res_live alone whether every reservation was filled.
CountsExact == /\ live = Cardinality(Live(slots, cap))
               /\ used = Cardinality(NonEmpty(slots, cap))

\* A rehash loses no reservation and invents none: the slots already walked
\* over are in the new table, with their positions, and nothing else is.
RehashKeepsAll ==
    pc = "rehash" =>
        {newSlots[i] : i \in Live(newSlots, newCap)}
          = {slots[i] : i \in {j \in Live(slots, cap) : j < idx}}

\* The inductive invariant behind the properties above.  A table is well
\* formed when no key is live twice and no EMPTY slot lies between the home
\* slot of a live key and the slot that holds it.
Reachable(t, c) ==
    \A i \in Live(t, c) :
        \E d \in 0 .. c - 1 :
            /\ At(c, t[i].key, d) = i
            /\ \A e \in 0 .. c - 1 : e < d => ~Empty(t, At(c, t[i].key, e))
Unique(t, c) == \A i, j \in Live(t, c) : t[i].key = t[j].key => i = j
WellFormed(t, c) == Reachable(t, c) /\ Unique(t, c)

LoadBound == /\ cap = 0 \/ cap > 1
             /\ used * 10 <= cap * 7
             /\ pc = "insert" => cap > 0 /\ (used + 1) * 10 <= cap * 7

RehashInv ==
    pc = "rehash" =>
        /\ newCap = GrownCap
        /\ WellFormed(newSlots, newCap)
        /\ NonEmpty(newSlots, newCap) = Live(newSlots, newCap)
        /\ Cardinality(Live(newSlots, newCap))
             = Cardinality({j \in Live(slots, cap) : j < idx})

\* Everything a step of the table needs to know about the one before it.
IndInv == /\ TypeOK
          /\ CountsExact
          /\ LoadBound
          /\ WellFormed(slots, cap)
          /\ RehashInv
          /\ RehashKeepsAll

\* The map the table stands for.
MapOf(t, c) ==
    [k \in Keys |->
        IF \E i \in 0 .. c - 1 : Holds(t, i, k)
        THEN t[CHOOSE i \in 0 .. c - 1 : Holds(t, i, k)].pos
        ELSE NoPos]

Abstract == INSTANCE Reservations WITH map <- MapOf(slots, cap)

\* The table implements the partial map: same answers, same contents.
ImplementsReservations == Abstract!Spec
=============================================================================
