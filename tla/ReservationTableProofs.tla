----------------------- MODULE ReservationTableProofs -----------------------
(***************************************************************************)
(* Theorems about the reservation table, for every set of names and kinds, *)
(* every hash function and every initial capacity above one.               *)
(***************************************************************************)
EXTENDS ReservationTable, FiniteSetTheorems, TLAPS

\* The walk for a key stays inside the table.
LEMMA AtType ==
    ASSUME NEW c \in Nat, c > 0, NEW k \in Keys, NEW d \in 0 .. c - 1
    PROVE  At(c, k, d) \in 0 .. c - 1
<1> DEFINE h == Hash[k[1]] % c
<1>1. k[1] \in Names
  BY DEF Keys
<1>2. h \in 0 .. c - 1
  BY <1>1, HashAssumption
<1> QED
  BY <1>2 DEF At

\* The walk for a key visits no slot twice within one round.
LEMMA AtInjective ==
    ASSUME NEW c \in Nat, c > 0, NEW k \in Keys,
           NEW d \in 0 .. c - 1, NEW e \in 0 .. c - 1, At(c, k, d) = At(c, k, e)
    PROVE  d = e
<1> DEFINE h == Hash[k[1]] % c
<1>1. k[1] \in Names
  BY DEF Keys
<1>2. h \in 0 .. c - 1
  BY <1>1, HashAssumption
<1>3. /\ At(c, k, d) = IF h + d < c THEN h + d ELSE (h + d) - c
      /\ At(c, k, e) = IF h + e < c THEN h + e ELSE (h + e) - c
  BY DEF At
<1> HIDE DEF h
<1>4. (IF h + d < c THEN h + d ELSE (h + d) - c) = (IF h + e < c THEN h + e ELSE (h + e) - c)
  BY <1>3
<1> QED
  BY <1>2, <1>4

\* One round of the walk visits every slot.
LEMMA AtSurjective ==
    ASSUME NEW c \in Nat, c > 0, NEW k \in Keys, NEW i \in 0 .. c - 1
    PROVE  \E d \in 0 .. c - 1 : At(c, k, d) = i
<1> DEFINE h == Hash[k[1]] % c
           d == IF i >= h THEN i - h ELSE (i + c) - h
<1>1. k[1] \in Names
  BY DEF Keys
<1>2. h \in 0 .. c - 1
  BY <1>1, HashAssumption
<1>3. At(c, k, d) = IF h + d < c THEN h + d ELSE (h + d) - c
  BY DEF At
<1> HIDE DEF h
<1>4. d \in 0 .. c - 1 /\ At(c, k, d) = i
  BY <1>2, <1>3
<1> QED
  BY <1>4

Table(c) == [0 .. c - 1 -> Slot]

\* In a well-formed table a key is where its walk ends.
LEMMA WellFormedFindable ==
    ASSUME NEW c \in Nat, c > 0, NEW t \in Table(c), WellFormed(t, c)
    PROVE  Findable(t, c)
<1> SUFFICES ASSUME NEW i \in Live(t, c)
             PROVE  ProbeLookup(t, c, t[i].key, i)
  BY DEF Findable
<1> DEFINE k == t[i].key
<1>1. i \in 0 .. c - 1 /\ t[i].state = "OCCUPIED" /\ k \in Keys
  BY DEF Live, Table, Slot, Blank, Occupied
<1>2. PICK d \in 0 .. c - 1 :
          /\ At(c, k, d) = i
          /\ \A e \in 0 .. c - 1 : e < d => ~Empty(t, At(c, k, e))
  BY DEF WellFormed, Reachable
<1>3. Stops(t, c, k, d)
  BY <1>1, <1>2 DEF Stops, Holds
<1>4. ASSUME NEW e \in 0 .. c - 1, e < d
      PROVE  ~Stops(t, c, k, e)
  <2>1. ~Empty(t, At(c, k, e))
    BY <1>2, <1>4
  <2>2. SUFFICES ASSUME Holds(t, At(c, k, e), k) PROVE FALSE
    BY <2>1 DEF Stops
  <2>3. At(c, k, e) \in Live(t, c)
    BY <1>1, <2>2, AtType DEF Live, Holds
  <2>4. At(c, k, e) = i
    BY <2>2, <2>3 DEF WellFormed, Unique, Holds
  <2>5. e = d
    BY <1>1, <1>2, <2>4, AtInjective
  <2> QED
    BY <1>4, <2>5
<1> QED
  BY <1>2, <1>3, <1>4 DEF ProbeLookup, Walk

\* A walk that stops at an EMPTY slot shows that the key is not in the table.
LEMMA EmptyMeansAbsent ==
    ASSUME NEW c \in Nat, c > 0, NEW t \in Table(c), WellFormed(t, c),
           NEW k \in Keys, NEW d \in 0 .. c - 1,
           Walk(t, c, k, d), Empty(t, At(c, k, d)),
           NEW i \in 0 .. c - 1
    PROVE  ~Holds(t, i, k)
<1> SUFFICES ASSUME Holds(t, i, k) PROVE FALSE
  OBVIOUS
<1>1. i \in Live(t, c) /\ t[i].key = k
  BY DEF Holds, Live
<1>2. PICK f \in 0 .. c - 1 :
          /\ At(c, k, f) = i
          /\ \A e \in 0 .. c - 1 : e < f => ~Empty(t, At(c, k, e))
  BY <1>1 DEF WellFormed, Reachable
<1>3. Stops(t, c, k, f)
  BY <1>2 DEF Stops
<1>4. ~(f < d)
  BY <1>3 DEF Walk
<1>5. ~(d < f)
  BY <1>2
<1>6. d = f
  BY <1>4, <1>5
<1> QED
  BY <1>1, <1>2, <1>6 DEF Empty, Live

\* Storing an entry in the slot sfres_probe_insert offers keeps the table
\* well formed; the slot was not OCCUPIED and the key was nowhere else.
LEMMA InsertWellFormed ==
    ASSUME NEW c \in Nat, c > 0, NEW t \in Table(c), WellFormed(t, c),
           NEW k \in Keys, NEW p \in Positions, NEW i \in 0 .. c - 1,
           ProbeInsert(t, c, k, i)
    PROVE  LET u == [t EXCEPT ![i] = Occupied(k, p)]
           IN  /\ u \in Table(c)
               /\ WellFormed(u, c)
               /\ t[i].state # "OCCUPIED"
               /\ \A j \in 0 .. c - 1 : ~Holds(t, j, k)
<1> DEFINE u == [t EXCEPT ![i] = Occupied(k, p)]
<1>1. PICK d \in 0 .. c - 1, e \in 0 .. c - 1 :
          /\ Walk(t, c, k, d)
          /\ Empty(t, At(c, k, d))
          /\ e <= d
          /\ i = At(c, k, e)
          /\ t[i].state # "OCCUPIED"
          /\ \A f \in 0 .. c - 1 : f < e => t[At(c, k, f)].state = "OCCUPIED"
  BY DEF ProbeInsert
<1>2. \A j \in 0 .. c - 1 : ~Holds(t, j, k)
  BY <1>1, EmptyMeansAbsent
<1>3. u \in Table(c)
  BY DEF Table, Slot
<1>4. /\ u[i] = Occupied(k, p)
      /\ \A j \in 0 .. c - 1 : j # i => u[j] = t[j]
  BY DEF Table
<1>5. u[i].state = "OCCUPIED" /\ u[i].key = k
  BY <1>4 DEF Occupied
<1>6. \A j \in 0 .. c - 1 : Empty(u, j) => Empty(t, j)
  BY <1>4, <1>5 DEF Empty
<1>7. \A j \in Live(u, c) : j = i \/ (j \in Live(t, c) /\ u[j] = t[j])
  BY <1>4 DEF Live
<1> HIDE DEF u
<1>8. Reachable(u, c)
  <2> SUFFICES ASSUME NEW j \in Live(u, c)
               PROVE  \E g \in 0 .. c - 1 :
                         /\ At(c, u[j].key, g) = j
                         /\ \A f \in 0 .. c - 1 : f < g => ~Empty(u, At(c, u[j].key, f))
    BY DEF Reachable
  <2>1. CASE j = i
    <3>1. \A f \in 0 .. c - 1 : f < e => ~Empty(t, At(c, k, f))
      BY <1>1 DEF Empty
    <3>2. \A f \in 0 .. c - 1 : f < e => ~Empty(u, At(c, k, f))
      BY <3>1, <1>6, AtType
    <3> QED
      BY <1>1, <1>5, <2>1, <3>2
  <2>2. CASE j # i
    <3>1. j \in Live(t, c) /\ u[j] = t[j]
      BY <1>7, <2>2
    <3>2. t[j].key \in Keys
      BY <3>1 DEF Live, Table, Slot, Blank, Occupied
    <3>3. PICK g \in 0 .. c - 1 :
             /\ At(c, t[j].key, g) = j
             /\ \A f \in 0 .. c - 1 : f < g => ~Empty(t, At(c, t[j].key, f))
      BY <3>1 DEF WellFormed, Reachable
    <3>4. \A f \in 0 .. c - 1 : f < g => ~Empty(u, At(c, t[j].key, f))
      BY <3>2, <3>3, <1>6, AtType
    <3> QED
      BY <3>1, <3>3, <3>4
  <2> QED
    BY <2>1, <2>2
<1>9. Unique(u, c)
  <2> SUFFICES ASSUME NEW j \in Live(u, c), NEW l \in Live(u, c), u[j].key = u[l].key
               PROVE  j = l
    BY DEF Unique
  <2>1. \A m \in Live(t, c) : t[m].key # k
    BY <1>2 DEF Live, Holds
  <2> QED
    BY <1>5, <1>7, <2>1 DEF WellFormed, Unique
<1> QED
  BY <1>1, <1>2, <1>3, <1>8, <1>9 DEF WellFormed, u

\* Turning a live slot into a tombstone keeps the table well formed: the
\* walks of the other keys still pass over it.
LEMMA PopWellFormed ==
    ASSUME NEW c \in Nat, c > 0, NEW t \in Table(c), WellFormed(t, c),
           NEW i \in 0 .. c - 1
    PROVE  LET u == [t EXCEPT ![i] = Blank("TOMBSTONE")]
           IN  u \in Table(c) /\ WellFormed(u, c)
<1> DEFINE u == [t EXCEPT ![i] = Blank("TOMBSTONE")]
<1>1. u \in Table(c)
  BY DEF Table, Slot
<1>2. /\ u[i].state = "TOMBSTONE"
      /\ \A j \in 0 .. c - 1 : j # i => u[j] = t[j]
  BY DEF Table, Blank
<1>3. \A j \in 0 .. c - 1 : Empty(u, j) => Empty(t, j)
  BY <1>2 DEF Empty
<1>4. \A j \in Live(u, c) : j \in Live(t, c) /\ u[j] = t[j]
  BY <1>2 DEF Live
<1> HIDE DEF u
<1>5. Reachable(u, c)
  <2> SUFFICES ASSUME NEW j \in Live(u, c)
               PROVE  \E g \in 0 .. c - 1 :
                         /\ At(c, u[j].key, g) = j
                         /\ \A f \in 0 .. c - 1 : f < g => ~Empty(u, At(c, u[j].key, f))
    BY DEF Reachable
  <2>1. j \in Live(t, c) /\ u[j] = t[j]
    BY <1>4
  <2>2. t[j].key \in Keys
    BY <2>1 DEF Live, Table, Slot, Blank, Occupied
  <2>3. PICK g \in 0 .. c - 1 :
           /\ At(c, t[j].key, g) = j
           /\ \A f \in 0 .. c - 1 : f < g => ~Empty(t, At(c, t[j].key, f))
    BY <2>1 DEF WellFormed, Reachable
  <2>4. \A f \in 0 .. c - 1 : f < g => ~Empty(u, At(c, t[j].key, f))
    BY <2>2, <2>3, <1>3, AtType
  <2> QED
    BY <2>1, <2>3, <2>4
<1>6. Unique(u, c)
  BY <1>4 DEF WellFormed, Unique
<1> QED
  BY <1>1, <1>5, <1>6 DEF WellFormed, u

\* The slots of a table are finitely many, the live ones are not EMPTY, and a
\* table with fewer slots in use than it has keeps an EMPTY one.
LEMMA SlotCounts ==
    ASSUME NEW c \in Nat, NEW t
    PROVE  /\ IsFiniteSet(Live(t, c)) /\ IsFiniteSet(NonEmpty(t, c))
           /\ Cardinality(Live(t, c)) \in Nat
           /\ Cardinality(NonEmpty(t, c)) \in Nat
           /\ Cardinality(Live(t, c)) <= Cardinality(NonEmpty(t, c))
           /\ Cardinality(NonEmpty(t, c)) < c => \E i \in 0 .. c - 1 : Empty(t, i)
<1>1. IsFiniteSet(0 .. c - 1) /\ Cardinality(0 .. c - 1) = c
  BY FS_Interval
<1>2. Live(t, c) \subseteq NonEmpty(t, c) /\ NonEmpty(t, c) \subseteq 0 .. c - 1
  BY DEF Live, NonEmpty
<1>3. IsFiniteSet(NonEmpty(t, c))
  BY <1>1, <1>2, FS_Subset
<1>4. IsFiniteSet(Live(t, c)) /\ Cardinality(Live(t, c)) <= Cardinality(NonEmpty(t, c))
  BY <1>2, <1>3, FS_Subset
<1>5. Cardinality(Live(t, c)) \in Nat /\ Cardinality(NonEmpty(t, c)) \in Nat
  BY <1>3, <1>4, FS_CardinalityType
<1>6. Cardinality(NonEmpty(t, c)) < c => NonEmpty(t, c) # 0 .. c - 1
  BY <1>1, <1>5
<1>7. NonEmpty(t, c) # 0 .. c - 1 => \E i \in 0 .. c - 1 : Empty(t, i)
  BY <1>2 DEF NonEmpty, Empty
<1> QED
  BY <1>3, <1>4, <1>5, <1>6, <1>7

\* How storing an entry, or a tombstone, moves the two counts.
LEMMA StoreCounts ==
    ASSUME NEW c \in Nat, NEW t \in Table(c), NEW u \in Table(c), NEW i \in 0 .. c - 1,
           t[i].state # "OCCUPIED", u[i].state = "OCCUPIED",
           \A j \in 0 .. c - 1 : j # i => u[j] = t[j]
    PROVE  /\ Live(u, c) = Live(t, c) \cup {i}
           /\ Cardinality(Live(u, c)) = Cardinality(Live(t, c)) + 1
           /\ NonEmpty(u, c) = NonEmpty(t, c) \cup {i}
           /\ t[i].state = "EMPTY" =>
                Cardinality(NonEmpty(u, c)) = Cardinality(NonEmpty(t, c)) + 1
           /\ t[i].state # "EMPTY" => NonEmpty(u, c) = NonEmpty(t, c)
<1>2. IsFiniteSet(Live(t, c)) /\ IsFiniteSet(NonEmpty(t, c))
  BY SlotCounts
<1>3. /\ Live(u, c) = Live(t, c) \cup {i}
      /\ NonEmpty(u, c) = NonEmpty(t, c) \cup {i}
      /\ i \notin Live(t, c)
      /\ i \in NonEmpty(t, c) <=> t[i].state # "EMPTY"
      /\ t[i].state # "EMPTY" => NonEmpty(u, c) = NonEmpty(t, c)
  BY DEF Live, NonEmpty
<1>4. /\ Cardinality(Live(u, c)) = Cardinality(Live(t, c)) + 1
      /\ t[i].state = "EMPTY" =>
           Cardinality(NonEmpty(u, c)) = Cardinality(NonEmpty(t, c)) + 1
  BY <1>2, <1>3, FS_AddElement, ZenonT(30)
<1> QED
  BY <1>3, <1>4

\* Burying an occupied slot, as reservation_pop does, takes one from the
\* occupied slots and none from the used ones.
LEMMA TombstoneCounts ==
    ASSUME NEW c \in Nat, NEW t \in Table(c), NEW i \in 0 .. c - 1,
           t[i].state = "OCCUPIED"
    PROVE  LET u == [t EXCEPT ![i] = Blank("TOMBSTONE")]
           IN  /\ Cardinality(Live(u, c)) = Cardinality(Live(t, c)) - 1
               /\ NonEmpty(u, c) = NonEmpty(t, c)
<1> DEFINE u == [t EXCEPT ![i] = Blank("TOMBSTONE")]
<1>1. u[i].state = "TOMBSTONE" /\ \A j \in 0 .. c - 1 : j # i => u[j] = t[j]
  BY DEF Table, Blank
<1>2. IsFiniteSet(Live(t, c))
  BY SlotCounts
<1> HIDE DEF u
<1>3. /\ Live(u, c) = Live(t, c) \ {i} /\ i \in Live(t, c)
      /\ NonEmpty(u, c) = NonEmpty(t, c)
  BY <1>1 DEF Live, NonEmpty
<1>4. Cardinality(Live(u, c)) = Cardinality(Live(t, c)) - 1
  BY <1>2, <1>3, FS_RemoveElement
<1> QED
  BY <1>3, <1>4 DEF u
-----------------------------------------------------------------------------
\* calloc's empty table satisfies the invariant.
LEMMA InitInv == Init => IndInv
<1> SUFFICES ASSUME Init PROVE IndInv
  OBVIOUS
<1>1. 0 .. 0 - 1 = {}
  OBVIOUS
<1>2. NoSlots \in [0 .. 0 - 1 -> Slot]
  BY <1>1 DEF NoSlots
<1>3. TypeOK
  BY <1>2 DEF Init, TypeOK
<1>4. Live(slots, cap) = {} /\ NonEmpty(slots, cap) = {}
  BY DEF Init, Live, NonEmpty
<1>5. CountsExact
  BY <1>4, FS_EmptySet DEF Init, CountsExact
<1>6. LoadBound
  BY DEF Init, LoadBound
<1>7. WellFormed(slots, cap)
  BY <1>4 DEF WellFormed, Reachable, Unique
<1>8. RehashInv /\ RehashKeepsAll
  BY DEF Init, RehashInv, RehashKeepsAll
<1> QED
  BY <1>3, <1>5, <1>6, <1>7, <1>8 DEF IndInv

\* A step that leaves the table alone and is not in the rehash loop keeps
\* the invariant when it keeps the types and the load bound.
LEMMA TableUntouched ==
    ASSUME IndInv, UNCHANGED table, pc' # "rehash", TypeOK', LoadBound'
    PROVE  IndInv'
<1>0. slots' = slots /\ cap' = cap /\ used' = used /\ live' = live
  BY DEF table
<1>1. CountsExact' /\ WellFormed(slots, cap)'
  BY <1>0 DEF IndInv, CountsExact
<1>2. RehashInv' /\ RehashKeepsAll'
  BY DEF RehashInv, RehashKeepsAll
<1> QED
  BY <1>1, <1>2 DEF IndInv

\* A push that needs no growth keeps the invariant.
LEMMA PushFitsInv == ASSUME IndInv, NEW k \in Keys, NEW p \in Positions, PushFits(k, p)
                     PROVE  IndInv'
<1>1. TypeOK' /\ pc' # "rehash"
  BY DEF IndInv, TypeOK, PushFits, table, loop
<1>2. LoadBound'
  BY DEF IndInv, TypeOK, LoadBound, PushFits, NeedsGrow, table
<1> QED
  BY <1>1, <1>2, TableUntouched DEF PushFits

\* A push that allocates the larger table enters the rehash loop with the
\* invariant.
LEMMA PushGrowsInv == ASSUME IndInv, NEW k \in Keys, NEW p \in Positions, PushGrows(k, p)
                      PROVE  IndInv'
<1>1. GrownCap \in Nat
  BY InitCapAssumption DEF IndInv, TypeOK, GrownCap
<1>2. newSlots' \in [0 .. newCap' - 1 -> Slot]
  BY DEF PushGrows, Slot
<1>0. slots' = slots /\ cap' = cap /\ used' = used /\ live' = live
  BY DEF PushGrows, table
<1>3. TypeOK'
  <2>1. arg' \in Keys \X Positions /\ pc' = "rehash"
    BY DEF PushGrows
  <2>2. newCap' \in Nat /\ idx' = 0 /\ cap \in Nat
    BY <1>1 DEF PushGrows, IndInv, TypeOK
  <2>3. /\ cap' \in Nat /\ used' \in Nat /\ live' \in Nat
        /\ slots' \in [0 .. cap' - 1 -> Slot]
        /\ idx' \in 0 .. cap'
    BY <1>0, <2>2 DEF IndInv, TypeOK
  <2> QED
    BY <1>2, <2>1, <2>2, <2>3 DEF TypeOK
<1>4. CountsExact' /\ WellFormed(slots, cap)'
  BY <1>0 DEF IndInv, CountsExact
<1>5. LoadBound'
  BY DEF IndInv, LoadBound, PushGrows, table
<1>6. \A i \in 0 .. newCap' - 1 : newSlots'[i].state = "EMPTY"
  BY DEF PushGrows, Blank
<1>7. Live(newSlots', newCap') = {} /\ NonEmpty(newSlots', newCap') = {}
  BY <1>6 DEF Live, NonEmpty
<1>8. {j \in Live(slots', cap') : j < idx'} = {}
  BY <1>3 DEF PushGrows, Live, TypeOK
<1>9. newCap' = GrownCap'
  BY DEF PushGrows, GrownCap, table
<1>10. RehashInv' /\ RehashKeepsAll'
  BY <1>7, <1>8, <1>9 DEF RehashInv, RehashKeepsAll, WellFormed, Reachable, Unique
<1> QED
  BY <1>3, <1>4, <1>5, <1>10 DEF IndInv

\* Any call that only reports a result keeps the invariant.
LEMMA PushReturnsInv == ASSUME IndInv, UNCHANGED table, UNCHANGED loop,
                               pc' = "idle", arg' = NoArg
                        PROVE  IndInv'
<1>1. TypeOK' /\ pc' # "rehash"
  BY DEF IndInv, TypeOK, table, loop
<1>2. LoadBound'
  BY DEF IndInv, LoadBound, table
<1> QED
  BY <1>1, <1>2, TableUntouched

\* What the invariant says of the slot the rehash loop is at.
LEMMA RehashSlotInv == ASSUME IndInv, RehashSlot PROVE IndInv'
<1>0. /\ slots' = slots /\ cap' = cap /\ used' = used /\ live' = live
      /\ pc' = "rehash" /\ pc = "rehash" /\ arg' = arg /\ newCap' = newCap
      /\ idx' = idx + 1 /\ idx \in 0 .. cap - 1 /\ idx' \in 0 .. cap /\ cap \in Nat
  BY DEF RehashSlot, table, IndInv, TypeOK
<1>1. /\ newCap \in Nat /\ newCap > 0 /\ newSlots \in Table(newCap)
      /\ slots \in Table(cap) /\ newCap = GrownCap
  BY <1>0, InitCapAssumption DEF IndInv, TypeOK, Table, RehashInv, GrownCap
<1>2. /\ WellFormed(newSlots, newCap)
      /\ NonEmpty(newSlots, newCap) = Live(newSlots, newCap)
      /\ Cardinality(Live(newSlots, newCap)) = Cardinality({j \in Live(slots, cap) : j < idx})
      /\ {newSlots[i] : i \in Live(newSlots, newCap)}
           = {slots[i] : i \in {j \in Live(slots, cap) : j < idx}}
  BY <1>0 DEF IndInv, RehashInv, RehashKeepsAll
<1>3. CountsExact' /\ LoadBound' /\ WellFormed(slots, cap)' /\ newCap' = GrownCap'
  BY <1>0, <1>1 DEF IndInv, CountsExact, LoadBound, GrownCap
<1> DEFINE done(n) == {j \in Live(slots, cap) : j < n}
<1>4. SUFFICES /\ newSlots' \in Table(newCap)
               /\ WellFormed(newSlots', newCap)
               /\ NonEmpty(newSlots', newCap) = Live(newSlots', newCap)
               /\ Cardinality(Live(newSlots', newCap)) = Cardinality(done(idx + 1))
               /\ {newSlots'[i] : i \in Live(newSlots', newCap)} = {slots[i] : i \in done(idx + 1)}
  <2>1. TypeOK'
    BY <1>0, <1>1, <1>4 DEF IndInv, TypeOK, Table
  <2>2. RehashInv' /\ RehashKeepsAll'
    BY <1>0, <1>3, <1>4 DEF RehashInv, RehashKeepsAll
  <2> QED
    BY <1>3, <2>1, <2>2 DEF IndInv
<1>5. CASE slots[idx].state # "OCCUPIED"
  <2>1. newSlots' = newSlots
    BY <1>5 DEF RehashSlot
  <2>2. done(idx + 1) = done(idx)
    BY <1>0, <1>5 DEF Live
  <2> QED
    BY <1>1, <1>2, <2>1, <2>2
<1>6. CASE slots[idx].state = "OCCUPIED"
  <2> DEFINE k == slots[idx].key
             p == slots[idx].pos
  <2>1. k \in Keys /\ p \in Positions /\ slots[idx] = Occupied(k, p) /\ slots[idx] \in Slot
    BY <1>0, <1>1, <1>6 DEF Table, Slot, Blank, Occupied
  <2>2. PICK i \in 0 .. newCap - 1 :
           /\ \/ ProbeInsert(newSlots, newCap, k, i)
              \/ ProbeDuplicate(newSlots, newCap, k, i)
           /\ newSlots' = [newSlots EXCEPT ![i] = slots[idx]]
    BY <1>6 DEF RehashSlot
  <2>3. idx \in Live(slots, cap) /\ idx \notin done(idx) /\ done(idx + 1) = done(idx) \cup {idx}
    BY <1>0, <1>6 DEF Live
  <2>4. ~ProbeDuplicate(newSlots, newCap, k, i)
    <3> SUFFICES ASSUME ProbeDuplicate(newSlots, newCap, k, i) PROVE FALSE
      OBVIOUS
    <3>1. i \in Live(newSlots, newCap) /\ newSlots[i].key = k
      BY DEF ProbeDuplicate, Holds, Live
    <3>2. PICK j \in done(idx) : slots[j] = newSlots[i]
      BY <1>2, <3>1
    <3>3. j = idx
      BY <2>3, <3>1, <3>2 DEF IndInv, WellFormed, Unique
    <3> QED
      BY <2>3, <3>3
  <2>5. ProbeInsert(newSlots, newCap, k, i)
    BY <2>2, <2>4
  <2> HIDE DEF k, p
  <2>6. /\ newSlots' \in Table(newCap) /\ WellFormed(newSlots', newCap)
        /\ newSlots[i].state # "OCCUPIED"
    BY <1>1, <1>2, <2>1, <2>2, <2>5, InsertWellFormed
  <2>7. newSlots[i].state = "EMPTY"
    BY <1>2, <2>6 DEF NonEmpty, Live
  <2>8. /\ Live(newSlots', newCap) = Live(newSlots, newCap) \cup {i}
        /\ Cardinality(Live(newSlots', newCap)) = Cardinality(Live(newSlots, newCap)) + 1
        /\ NonEmpty(newSlots', newCap) = NonEmpty(newSlots, newCap) \cup {i}
    <3>1. /\ newSlots'[i].state = "OCCUPIED"
          /\ \A j \in 0 .. newCap - 1 : j # i => newSlots'[j] = newSlots[j]
      BY <1>1, <1>6, <2>2 DEF Table
    <3> QED
      BY <1>1, <2>6, <3>1, StoreCounts
  <2>9. Cardinality(done(idx + 1)) = Cardinality(done(idx)) + 1
    <3>1. IsFiniteSet(Live(slots, cap))
      BY <1>0, SlotCounts
    <3>2. IsFiniteSet(done(idx))
      BY <3>1, FS_Subset
    <3> QED
      BY <2>3, <3>2, FS_AddElement
  <2>10. {newSlots'[l] : l \in Live(newSlots', newCap)} = {slots[j] : j \in done(idx + 1)}
    <3>1. newSlots'[i] = slots[idx] /\ \A l \in Live(newSlots, newCap) : newSlots'[l] = newSlots[l]
      BY <1>1, <2>2, <2>6 DEF Table, Live
    <3>2. {newSlots'[l] : l \in Live(newSlots', newCap)}
            = {newSlots[l] : l \in Live(newSlots, newCap)} \cup {slots[idx]}
      BY <2>8, <3>1
    <3>3. {slots[j] : j \in done(idx + 1)} = {slots[j] : j \in done(idx)} \cup {slots[idx]}
      BY <2>3
    <3> QED
      BY <1>2, <3>2, <3>3
  <2> QED
    BY <1>2, <2>6, <2>8, <2>9, <2>10
<1> QED
  BY <1>5, <1>6

\* Freeing the old table after the last slot keeps the invariant.
LEMMA RehashDoneInv == ASSUME IndInv, RehashDone PROVE IndInv'
<1>0. /\ pc = "rehash" /\ pc' = "insert" /\ idx = cap /\ slots' = newSlots /\ cap' = newCap
      /\ used' = live /\ live' = live /\ arg' = arg
      /\ newSlots' = NoSlots /\ newCap' = 0 /\ idx' = 0
      /\ cap \in Nat /\ newCap \in Nat /\ live \in Nat /\ used \in Nat
  BY DEF RehashDone, IndInv, TypeOK
<1>1. NoSlots \in [0 .. 0 - 1 -> Slot]
  <2>1. 0 .. 0 - 1 = {}
    OBVIOUS
  <2> QED
    BY <2>1 DEF NoSlots
<1>2. TypeOK'
  BY <1>0, <1>1 DEF IndInv, TypeOK
<1>3. {j \in Live(slots, cap) : j < idx} = Live(slots, cap)
  BY <1>0 DEF Live
<1>4. Cardinality(Live(newSlots, newCap)) = live
  BY <1>0, <1>3 DEF IndInv, RehashInv, CountsExact
<1>5. CountsExact'
  BY <1>0, <1>4 DEF IndInv, RehashInv, CountsExact
<1>6. live <= used
  BY <1>0, SlotCounts DEF IndInv, CountsExact
<1>7. LoadBound'
  <2>1. /\ newCap = GrownCap /\ (cap = 0 \/ cap > 1) /\ used * 10 <= cap * 7
    BY <1>0 DEF IndInv, RehashInv, LoadBound
  <2>2. CASE cap = 0
    BY <1>0, <1>6, <2>1, <2>2, InitCapAssumption DEF LoadBound, GrownCap
  <2>3. CASE cap > 1
    BY <1>0, <1>6, <2>1, <2>3 DEF LoadBound, GrownCap
  <2> QED
    BY <2>1, <2>2, <2>3
<1>8. WellFormed(slots, cap)'
  BY <1>0 DEF IndInv, RehashInv
<1>9. RehashInv' /\ RehashKeepsAll'
  BY <1>0 DEF RehashInv, RehashKeepsAll
<1> QED
  BY <1>2, <1>5, <1>7, <1>8, <1>9 DEF IndInv

\* Writing the new reservation into the slot probe_insert found keeps the
\* invariant.
LEMMA InsertInv == ASSUME IndInv, Insert PROVE IndInv'
<1>0. /\ pc = "insert" /\ pc' = "idle" /\ cap' = cap /\ live' = live + 1 /\ arg' = NoArg
      /\ newSlots' = newSlots /\ newCap' = newCap /\ idx' = idx
      /\ cap \in Nat /\ cap > 0 /\ used \in Nat /\ live \in Nat /\ arg \in Keys \X Positions
      /\ slots \in Table(cap) /\ WellFormed(slots, cap)
  BY DEF Insert, Return, loop, IndInv, TypeOK, LoadBound, Table
<1> DEFINE k == arg[1]
           p == arg[2]
<1>1. k \in Keys /\ p \in Positions
  BY <1>0
<1>2. PICK i \in 0 .. cap - 1 :
         /\ ProbeInsert(slots, cap, k, i)
         /\ slots' = [slots EXCEPT ![i] = Occupied(k, p)]
         /\ used' = IF slots[i].state = "TOMBSTONE" THEN used ELSE used + 1
  BY DEF Insert
<1> HIDE DEF k, p
<1>3. slots' \in Table(cap) /\ WellFormed(slots', cap) /\ slots[i].state # "OCCUPIED"
  BY <1>0, <1>1, <1>2, InsertWellFormed
<1>4. slots[i] \in Slot /\ Occupied(k, p) \in Slot
  BY <1>0, <1>1 DEF Table, Slot
<1>5. slots[i].state \in {"EMPTY", "TOMBSTONE"} /\ Occupied(k, p).state = "OCCUPIED"
  BY <1>3, <1>4 DEF Slot, Blank, Occupied
<1>6. /\ Cardinality(Live(slots', cap)) = Cardinality(Live(slots, cap)) + 1
      /\ slots[i].state = "EMPTY" =>
           Cardinality(NonEmpty(slots', cap)) = Cardinality(NonEmpty(slots, cap)) + 1
      /\ slots[i].state # "EMPTY" => NonEmpty(slots', cap) = NonEmpty(slots, cap)
  <2>1. /\ slots'[i].state = "OCCUPIED"
        /\ \A j \in 0 .. cap - 1 : j # i => slots'[j] = slots[j]
    BY <1>0, <1>2 DEF Table, Occupied
  <2> QED
    BY <1>0, <1>3, <2>1, StoreCounts
<1>7. CountsExact'
  BY <1>0, <1>2, <1>5, <1>6 DEF IndInv, CountsExact
<1>8. LoadBound'
  BY <1>0, <1>2 DEF IndInv, LoadBound
<1>9. TypeOK'
  BY <1>0, <1>2, <1>3 DEF IndInv, TypeOK, Table
<1>10. RehashInv' /\ RehashKeepsAll' /\ WellFormed(slots, cap)'
  BY <1>0, <1>3 DEF RehashInv, RehashKeepsAll
<1> QED
  BY <1>7, <1>8, <1>9, <1>10 DEF IndInv

\* Removing a reservation keeps the invariant.
LEMMA PopInv == ASSUME IndInv, NEW k \in Keys, Pop(k) PROVE IndInv'
<1>0. /\ pc = "idle" /\ pc' = "idle" /\ cap' = cap /\ used' = used /\ live' = live - 1
      /\ arg' = arg /\ newSlots' = newSlots /\ newCap' = newCap /\ idx' = idx
      /\ cap \in Nat /\ used \in Nat /\ live \in Nat
      /\ slots \in Table(cap) /\ WellFormed(slots, cap)
  BY DEF Pop, loop, IndInv, TypeOK, Table
<1>1. PICK i \in 0 .. cap - 1 : /\ slots[i].state = "OCCUPIED"
                                /\ slots' = [slots EXCEPT ![i] = Blank("TOMBSTONE")]
  BY DEF Pop
<1>2. slots' \in Table(cap) /\ WellFormed(slots', cap)
  BY <1>0, <1>1, cap > 0, PopWellFormed
<1>4. /\ Cardinality(Live(slots', cap)) = Cardinality(Live(slots, cap)) - 1
      /\ NonEmpty(slots', cap) = NonEmpty(slots, cap)
  BY <1>0, <1>1, TombstoneCounts
<1>5. CountsExact'
  BY <1>0, <1>4 DEF IndInv, CountsExact
<1>6. live' \in Nat
  BY <1>0, <1>5, SlotCounts DEF CountsExact
<1>7. TypeOK'
  BY <1>0, <1>2, <1>6 DEF IndInv, TypeOK, Table
<1>8. LoadBound'
  BY <1>0 DEF IndInv, LoadBound
<1>9. RehashInv' /\ RehashKeepsAll' /\ WellFormed(slots, cap)'
  BY <1>0, <1>2 DEF RehashInv, RehashKeepsAll
<1> QED
  BY <1>5, <1>7, <1>8, <1>9 DEF IndInv

\* Every step of the table keeps the invariant.
LEMMA NextInv == IndInv /\ [Next]_vars => IndInv'
<1> SUFFICES ASSUME IndInv, [Next]_vars PROVE IndInv'
  OBVIOUS
<1>1. CASE RehashSlot
  BY <1>1, RehashSlotInv
<1>2. CASE RehashDone
  BY <1>2, RehashDoneInv
<1>3. CASE InsertDuplicate \/ InsertOOM
  BY <1>3, PushReturnsInv DEF InsertDuplicate, InsertOOM, Return
<1>4. CASE Insert
  BY <1>4, InsertInv
<1>5. ASSUME NEW k \in Keys, NEW p \in Positions,
             PushFits(k, p) \/ PushGrows(k, p) \/ PushGrowFails(k, p)
      PROVE  IndInv'
  <2>1. CASE PushFits(k, p)
    BY <2>1, PushFitsInv
  <2>2. CASE PushGrows(k, p)
    BY <2>2, PushGrowsInv
  <2>3. CASE PushGrowFails(k, p)
    BY <2>3, PushReturnsInv DEF PushGrowFails, Return
  <2> QED
    BY <1>5, <2>1, <2>2, <2>3
<1>6. ASSUME NEW k \in Keys, Absent("pop", k) \/ Absent("peek", k) \/ Peek(k)
      PROVE  IndInv'
  <2>1. pc = "idle" /\ pc' = pc /\ arg' = arg /\ UNCHANGED table /\ UNCHANGED loop
    BY <1>6 DEF Absent, Peek
  <2>2. arg = NoArg
    BY <2>1 DEF IndInv, TypeOK
  <2> QED
    BY <2>1, <2>2, PushReturnsInv
<1>7. ASSUME NEW k \in Keys, Pop(k)
      PROVE  IndInv'
  BY <1>7, PopInv
<1>8. CASE UNCHANGED vars
  <2>1. UNCHANGED <<slots, cap, used, live, pc, arg, newSlots, newCap, idx>>
    BY <1>8 DEF vars
  <2>2. TypeOK' /\ CountsExact' /\ LoadBound'
    BY <2>1 DEF IndInv, TypeOK, CountsExact, LoadBound
  <2>3. WellFormed(slots, cap)' /\ RehashInv' /\ RehashKeepsAll'
    BY <2>1, ZenonT(30) DEF IndInv, RehashInv, RehashKeepsAll, GrownCap
  <2> QED
    BY <2>2, <2>3 DEF IndInv
<1> QED
  BY <1>1, <1>2, <1>3, <1>4, <1>5, <1>6, <1>7, <1>8 DEF Next, Internal, Call

\* The reservation table of the writer keeps its inductive invariant: the
\* counts are exact, the load limit holds, every live key is reachable from
\* its home slot, and a rehash has moved exactly the slots it has passed.
THEOREM TableInvariant == Spec => []IndInv
<1> QED
  BY InitInv, NextInv, PTL DEF Spec

\* Type correctness: whatever is pushed and popped, the slots are those of a
\* table of the present capacity and hold only what was reserved.
THEOREM TableTypes == Spec => []TypeOK
<1>1. IndInv => TypeOK
  BY DEF IndInv
<1> QED
  BY <1>1, TableInvariant, PTL

\* res_live and res_used are exact in every reachable state, so finish() is
\* right to look at res_live alone.
THEOREM CountsCorrect == Spec => []CountsExact
<1>1. IndInv => CountsExact
  BY DEF IndInv
<1> QED
  BY <1>1, TableInvariant, PTL

\* sfres_table_grow carries over exactly the reservations it has walked past.
THEOREM RehashCorrect == Spec => []RehashKeepsAll
<1>1. IndInv => RehashKeepsAll
  BY DEF IndInv
<1> QED
  BY <1>1, TableInvariant, PTL

\* The probe loops of the reservation table end for every load, every hash
\* function and every key: an EMPTY slot is always left.
THEOREM ProbesTerminate == Spec => []ProbesEnd
<1>1. IndInv => ProbesEnd
  <2> SUFFICES ASSUME IndInv PROVE ProbesEnd
    OBVIOUS
  <2>1. /\ cap \in Nat /\ used \in Nat /\ live \in Nat /\ newCap \in Nat
        /\ used = Cardinality(NonEmpty(slots, cap)) /\ live = Cardinality(Live(slots, cap))
        /\ used * 10 <= cap * 7
    BY DEF IndInv, TypeOK, CountsExact, LoadBound
  <2>2. ASSUME cap > 0 PROVE \E i \in 0 .. cap - 1 : Empty(slots, i)
    <3>1. used < cap
      BY <2>1, <2>2
    <3> QED
      BY <2>1, <3>1, SlotCounts
  <2>3. ASSUME pc = "rehash" PROVE \E i \in 0 .. newCap - 1 : Empty(newSlots, i)
    <3> DEFINE done == {j \in Live(slots, cap) : j < idx}
    <3>1. /\ NonEmpty(newSlots, newCap) = Live(newSlots, newCap)
          /\ Cardinality(Live(newSlots, newCap)) = Cardinality(done)
          /\ newCap = GrownCap
      BY <2>3 DEF IndInv, RehashInv
    <3>2. IsFiniteSet(Live(slots, cap)) /\ live <= used
      BY <2>1, SlotCounts
    <3>3. Cardinality(done) <= live
      BY <2>1, <3>2, FS_Subset
    <3>4. IsFiniteSet(done)
      BY <3>2, FS_Subset
    <3>5. Cardinality(done) \in Nat
      BY <3>4, FS_CardinalityType
    <3> HIDE DEF done
    <3>6. Cardinality(done) < newCap
      BY <2>1, <3>1, <3>2, <3>3, <3>5, InitCapAssumption DEF GrownCap
    <3> QED
      BY <2>1, <3>1, <3>6, SlotCounts
  <2> QED
    BY <2>2, <2>3 DEF ProbesEnd
<1> QED
  BY <1>1, TableInvariant, PTL

\* Every reservation that was made and not popped is found by its key, in the
\* table and in the half-built table of a rehash.
THEOREM AlwaysFindable == Spec => []ReservationsFindable
<1>1. IndInv => ReservationsFindable
  <2> SUFFICES ASSUME IndInv PROVE ReservationsFindable
    OBVIOUS
  <2>1. ASSUME cap > 0 PROVE Findable(slots, cap)
    <3>1. cap \in Nat /\ slots \in Table(cap) /\ WellFormed(slots, cap)
      BY DEF IndInv, TypeOK, Table
    <3> QED
      BY <2>1, <3>1, WellFormedFindable
  <2>2. ASSUME pc = "rehash" PROVE Findable(newSlots, newCap)
    <3>1. newCap \in Nat /\ newSlots \in Table(newCap)
      BY DEF IndInv, TypeOK, Table
    <3>2. WellFormed(newSlots, newCap) /\ newCap = GrownCap
      BY <2>2 DEF IndInv, RehashInv
    <3>3. newCap > 0
      BY <3>1, <3>2, InitCapAssumption DEF GrownCap, IndInv, TypeOK
    <3> QED
      BY <3>1, <3>2, <3>3, WellFormedFindable
  <2> QED
    BY <2>1, <2>2 DEF ReservationsFindable
<1> QED
  BY <1>1, TableInvariant, PTL

-----------------------------------------------------------------------------
(***************************************************************************)
(* The table implements the abstract map.                                  *)
(***************************************************************************)

\* Where a key is held, the map has the position stored there.
LEMMA MapHeld ==
    ASSUME NEW c \in Nat, NEW t \in Table(c), Unique(t, c),
           NEW k \in Keys, NEW i \in 0 .. c - 1, Holds(t, i, k)
    PROVE  MapOf(t, c)[k] = t[i].pos /\ t[i].pos \in Positions
<1> DEFINE w == CHOOSE j \in 0 .. c - 1 : Holds(t, j, k)
<1>1. w \in 0 .. c - 1 /\ Holds(t, w, k)
  OBVIOUS
<1>2. w = i
  BY <1>1 DEF Unique, Live, Holds
<1>3. MapOf(t, c)[k] = t[w].pos
  BY <1>1 DEF MapOf
<1>4. t[i].pos \in Positions
  BY DEF Table, Slot, Blank, Occupied, Holds
<1> QED
  BY <1>2, <1>3, <1>4

\* Where no slot holds the key, the map has no entry.
LEMMA MapAbsent ==
    ASSUME NEW c, NEW t, NEW k \in Keys, \A i \in 0 .. c - 1 : ~Holds(t, i, k)
    PROVE  MapOf(t, c)[k] = NoPos
  BY DEF MapOf

\* Two tables that hold the same entries stand for the same map.
LEMMA SameEntriesSameMap ==
    ASSUME NEW c \in Nat, NEW t \in Table(c), Unique(t, c),
           NEW b \in Nat, NEW u \in Table(b), Unique(u, b),
           {t[i] : i \in Live(t, c)} = {u[i] : i \in Live(u, b)}
    PROVE  MapOf(t, c) = MapOf(u, b)
<1>1. ASSUME NEW k \in Keys PROVE MapOf(t, c)[k] = MapOf(u, b)[k]
  <2>1. CASE \E i \in 0 .. c - 1 : Holds(t, i, k)
    <3>1. PICK i \in 0 .. c - 1 : Holds(t, i, k)
      BY <2>1
    <3>2. t[i] \in {u[j] : j \in Live(u, b)}
      BY <3>1 DEF Live, Holds
    <3>3. PICK j \in 0 .. b - 1 : u[j] = t[i] /\ Holds(u, j, k)
      BY <3>1, <3>2 DEF Live, Holds
    <3> QED
      BY <3>1, <3>3, MapHeld
  <2>2. CASE \A i \in 0 .. c - 1 : ~Holds(t, i, k)
    <3>1. ASSUME NEW j \in 0 .. b - 1, Holds(u, j, k) PROVE FALSE
      <4>1. u[j] \in {t[i] : i \in Live(t, c)}
        BY <3>1 DEF Live, Holds
      <4> QED
        BY <2>2, <3>1, <4>1 DEF Live, Holds
    <3> QED
      BY <2>2, <3>1, MapAbsent
  <2> QED
    BY <2>1, <2>2
<1> QED
  BY <1>1 DEF MapOf

\* What a push and a pop do to the map.
LEMMA StoreMap ==
    ASSUME NEW c \in Nat, NEW t \in Table(c), Unique(t, c),
           NEW u \in Table(c), Unique(u, c),
           NEW k \in Keys, NEW i \in 0 .. c - 1,
           \A j \in 0 .. c - 1 : j # i => u[j] = t[j] /\ ~Holds(t, j, k),
           \A l \in Keys : Holds(t, i, l) => l = k,
           \A l \in Keys : Holds(u, i, l) => l = k
    PROVE  MapOf(u, c) =
             [MapOf(t, c) EXCEPT ![k] = IF Holds(u, i, k) THEN u[i].pos ELSE NoPos]
<1>1. ASSUME NEW l \in Keys, l # k PROVE MapOf(u, c)[l] = MapOf(t, c)[l]
  <2>1. CASE \E j \in 0 .. c - 1 : Holds(t, j, l)
    <3>1. PICK j \in 0 .. c - 1 : Holds(t, j, l)
      BY <2>1
    <3>2. u[j] = t[j] /\ Holds(u, j, l)
      BY <1>1, <3>1 DEF Holds
    <3> QED
      BY <3>1, <3>2, MapHeld
  <2>2. CASE \A j \in 0 .. c - 1 : ~Holds(t, j, l)
    <3>1. \A j \in 0 .. c - 1 : ~Holds(u, j, l)
      BY <1>1, <2>2 DEF Holds
    <3> QED
      BY <2>2, <3>1, MapAbsent
  <2> QED
    BY <2>1, <2>2
<1>2. CASE Holds(u, i, k)
  <2>1. MapOf(u, c)[k] = u[i].pos
    BY <1>2, MapHeld
  <2> QED
    BY <1>1, <1>2, <2>1 DEF MapOf
<1>3. CASE ~Holds(u, i, k)
  <2>1. \A j \in 0 .. c - 1 : ~Holds(u, j, k)
    BY <1>3 DEF Holds
  <2>2. MapOf(u, c)[k] = NoPos
    BY <2>1, MapAbsent
  <2> QED
    BY <1>1, <1>3, <2>2 DEF MapOf
<1> QED
  BY <1>2, <1>3

\* The initial state stands for the empty map.
LEMMA InitRefines == Init => Abstract!Init
<1> SUFFICES ASSUME Init PROVE Abstract!Init
  OBVIOUS
<1>1. \A i \in 0 .. cap - 1 : FALSE
  BY DEF Init
<1>2. MapOf(slots, cap) = [k \in Keys |-> NoPos]
  BY <1>1 DEF MapOf
<1> QED
  BY <1>2 DEF Init, Abstract!Init, Ret, Abstract!Ret

\* Every step of the table is a step of the map, or changes neither the map
\* nor the answer.
LEMMA StepRefines == IndInv /\ IndInv' /\ [Next]_vars => [Abstract!Next]_(Abstract!vars)
<1> SUFFICES ASSUME IndInv, IndInv', [Next]_vars
             PROVE  Abstract!Next \/ UNCHANGED <<MapOf(slots, cap), ret>>
  BY DEF Abstract!vars
<1> DEFINE M == MapOf(slots, cap)
<1>0. /\ cap \in Nat /\ slots \in Table(cap) /\ WellFormed(slots, cap) /\ Unique(slots, cap)
      /\ cap' \in Nat /\ slots' \in Table(cap') /\ WellFormed(slots', cap') /\ Unique(slots', cap')
  BY DEF IndInv, TypeOK, Table, WellFormed
<1>a. UNCHANGED table => UNCHANGED M
  BY DEF table
<1>1. CASE RehashSlot
  BY <1>1, <1>a DEF RehashSlot
<1>2. CASE RehashDone
  <2>1. pc = "rehash" /\ idx = cap /\ slots' = newSlots /\ cap' = newCap /\ ret' = ret
    BY <1>2 DEF RehashDone
  <2>2. {j \in Live(slots, cap) : j < idx} = Live(slots, cap)
    BY <1>0, <2>1 DEF Live
  <2>3. {slots'[i] : i \in Live(slots', cap')} = {slots[i] : i \in Live(slots, cap)}
    BY <2>1, <2>2 DEF IndInv, RehashKeepsAll
  <2>4. MapOf(slots', cap') = MapOf(slots, cap)
    BY <1>0, <2>3, SameEntriesSameMap
  <2> QED
    BY <2>1, <2>4
<1>3. CASE InsertDuplicate \/ InsertOOM \/ Insert
  <2> DEFINE k == arg[1]
             p == arg[2]
  <2>1. k \in Keys /\ p \in Positions /\ cap > 0
    BY <1>3 DEF InsertDuplicate, InsertOOM, Insert, IndInv, TypeOK, LoadBound
  <2>2. SUFFICES Abstract!Push(k, p)
    BY <2>1, <2>2 DEF Abstract!Next
  <2>3. CASE InsertDuplicate
    <3>1. PICK i \in 0 .. cap - 1 : Holds(slots, i, k)
      BY <2>3 DEF InsertDuplicate, ProbeDuplicate
    <3>2. M[k] # NoPos
      BY <1>0, <2>1, <3>1, MapHeld, NullAssumption
    <3> QED
      BY <1>a, <2>3, <3>2 DEF InsertDuplicate, Return, Ret, Abstract!Push, Abstract!Ret
  <2>4. CASE InsertOOM
    BY <1>a, <2>4 DEF InsertOOM, Return, Ret, Abstract!Push, Abstract!Ret
  <2>5. CASE Insert
    <3>1. PICK i \in 0 .. cap - 1 :
             ProbeInsert(slots, cap, k, i) /\ slots' = [slots EXCEPT ![i] = Occupied(k, p)]
      BY <2>5 DEF Insert
    <3>2. cap' = cap /\ ret' = Ret("push", k, p, "OK")
      BY <2>5 DEF Insert, Return
    <3> HIDE DEF k, p
    <3>3. slots[i].state # "OCCUPIED" /\ \A j \in 0 .. cap - 1 : ~Holds(slots, j, k)
      BY <1>0, <2>1, <3>1, InsertWellFormed
    <3>4. M[k] = NoPos
      BY <2>1, <3>3, MapAbsent
    <3>5. /\ \A j \in 0 .. cap - 1 : j # i => slots'[j] = slots[j]
          /\ slots'[i] = Occupied(k, p)
      BY <1>0, <3>1 DEF Table
    <3>6. Holds(slots', i, k) /\ slots'[i].pos = p
      BY <3>5 DEF Holds, Occupied
    <3>7. \A l \in Keys : ~Holds(slots, i, l) /\ (Holds(slots', i, l) => l = k)
      BY <3>3, <3>5 DEF Holds, Occupied
    <3>8. MapOf(slots', cap) = [M EXCEPT ![k] = p]
      BY <1>0, <2>1, <3>2, <3>3, <3>5, <3>6, <3>7, StoreMap
    <3> QED
      BY <3>2, <3>4, <3>8 DEF Abstract!Push, Ret, Abstract!Ret
  <2> QED
    BY <1>3, <2>3, <2>4, <2>5
<1>4. ASSUME NEW k \in Keys, NEW p \in Positions,
             PushFits(k, p) \/ PushGrows(k, p) \/ PushGrowFails(k, p)
      PROVE  Abstract!Next \/ UNCHANGED <<M, ret>>
  <2>1. CASE PushFits(k, p) \/ PushGrows(k, p)
    BY <1>a, <2>1 DEF PushFits, PushGrows
  <2>2. CASE PushGrowFails(k, p)
    <3>1. Abstract!Push(k, p)
      BY <1>a, <2>2 DEF PushGrowFails, Return, Ret, Abstract!Push, Abstract!Ret
    <3> QED
      BY <3>1 DEF Abstract!Next
  <2> QED
    BY <1>4, <2>1, <2>2
<1>5. ASSUME NEW k \in Keys, Absent("pop", k) \/ Absent("peek", k)
      PROVE  Abstract!Next
  <2>1. \A i \in 0 .. cap - 1 : ~Holds(slots, i, k)
    <3>1. CASE cap = 0
      BY <3>1
    <3>2. CASE cap # 0
      <4>1. PICK d \in 0 .. cap - 1 : Walk(slots, cap, k, d) /\ Empty(slots, At(cap, k, d))
        BY <1>5, <3>2 DEF Absent, ProbeLookup
      <4> QED
        BY <1>0, <4>1, EmptyMeansAbsent
    <3> QED
      BY <3>1, <3>2
  <2>2. M[k] = NoPos
    BY <2>1, MapAbsent
  <2>3. [M EXCEPT ![k] = NoPos] = M
    BY <2>2 DEF MapOf
  <2>4. Abstract!Pop(k) \/ Abstract!Peek(k)
    BY <1>5, <1>a, <2>2, <2>3 DEF Absent, Abstract!Pop, Abstract!Peek, Ret, Abstract!Ret
  <2> QED
    BY <2>4 DEF Abstract!Next
<1>6. ASSUME NEW k \in Keys, Pop(k)
      PROVE  Abstract!Next
  <2>1. PICK i \in 0 .. cap - 1 :
           /\ ProbeLookup(slots, cap, k, i)
           /\ slots[i].state = "OCCUPIED"
           /\ slots' = [slots EXCEPT ![i] = Blank("TOMBSTONE")]
           /\ ret' = Ret("pop", k, slots[i].pos, "OK")
    BY <1>6 DEF Pop
  <2>2. Holds(slots, i, k)
    BY <2>1 DEF ProbeLookup, Walk, Stops, Empty
  <2>3. M[k] = slots[i].pos /\ M[k] # NoPos
    BY <1>0, <2>2, MapHeld, NullAssumption
  <2>4. cap' = cap
    BY <1>6 DEF Pop
  <2>5. /\ \A j \in 0 .. cap - 1 : j # i => slots'[j] = slots[j]
        /\ slots'[i] = Blank("TOMBSTONE")
    BY <1>0, <2>1 DEF Table
  <2>6. \A j \in 0 .. cap - 1 : j # i => ~Holds(slots, j, k)
    BY <1>0, <2>2 DEF Unique, Live, Holds
  <2>7. \A l \in Keys : (Holds(slots, i, l) => l = k) /\ ~Holds(slots', i, l)
    BY <2>2, <2>5 DEF Holds, Blank
  <2>8. MapOf(slots', cap) = [M EXCEPT ![k] = NoPos]
    BY <1>0, <2>4, <2>5, <2>6, <2>7, StoreMap
  <2>9. Abstract!Pop(k)
    BY <2>1, <2>3, <2>4, <2>8 DEF Abstract!Pop, Ret, Abstract!Ret
  <2> QED
    BY <2>9 DEF Abstract!Next
<1>7. ASSUME NEW k \in Keys, Peek(k)
      PROVE  Abstract!Next
  <2>1. PICK i \in 0 .. cap - 1 :
           /\ ProbeLookup(slots, cap, k, i)
           /\ slots[i].state = "OCCUPIED"
           /\ ret' = Ret("peek", k, slots[i].pos, "OK")
    BY <1>7 DEF Peek
  <2>2. Holds(slots, i, k)
    BY <2>1 DEF ProbeLookup, Walk, Stops, Empty
  <2>3. M[k] = slots[i].pos /\ M[k] # NoPos
    BY <1>0, <2>2, MapHeld, NullAssumption
  <2>4. Abstract!Peek(k)
    BY <1>7, <1>a, <2>1, <2>3 DEF Peek, Abstract!Peek, Ret, Abstract!Ret
  <2> QED
    BY <2>4 DEF Abstract!Next
<1>8. CASE UNCHANGED vars
  BY <1>8 DEF vars
<1> QED
  BY <1>1, <1>2, <1>3, <1>4, <1>5, <1>6, <1>7, <1>8 DEF Next, Internal, Call

\* The hash table, with its collisions, tombstones and rehashes, answers every
\* sequence of calls exactly as the partial map it stands for.
THEOREM Refinement == Spec => ImplementsReservations
<1>1. Spec => []IndInv
  BY TableInvariant
<1> QED
  BY <1>1, InitRefines, StepRefines, PTL DEF Spec, ImplementsReservations, Abstract!Spec
=============================================================================
