---------------------------- MODULE Reservations ----------------------------
(***************************************************************************)
(* What the reservation set of a binary writer promises its callers: a     *)
(* partial map from (name, kind) to the stream position the placeholder    *)
(* was written at.  reservations_push adds an entry unless the key is      *)
(* taken, reservations_peek reads one, reservations_pop removes one.  A    *)
(* push may also fail for want of memory; a failed call changes nothing.   *)
(***************************************************************************)
CONSTANTS Keys,        \* the (name, kind) pairs
          Positions,   \* the stream positions
          NoKey,
          NoPos        \* "no such reservation"

VARIABLES map,   \* map[k]: the position reserved for k, or NoPos
          ret    \* the last call and what it returned

vars == <<map, ret>>

Ret(op, k, p, res) == [op |-> op, key |-> k, pos |-> p, res |-> res]

Init == /\ map = [k \in Keys |-> NoPos]
        /\ ret = Ret("none", NoKey, NoPos, "OK")

Push(k, p) ==
    \/ /\ map[k] = NoPos
       /\ map' = [map EXCEPT ![k] = p]
       /\ ret' = Ret("push", k, p, "OK")
    \/ /\ map[k] # NoPos
       /\ map' = map
       /\ ret' = Ret("push", k, p, "ALREADY_EXISTS")
    \/ /\ map' = map
       /\ ret' \in {Ret("push", k, p, "OOM"), Ret("push", k, p, "OUT_OF_RANGE")}

Pop(k) ==
    /\ map' = [map EXCEPT ![k] = NoPos]
    /\ ret' = Ret("pop", k, map[k],
                  IF map[k] = NoPos THEN "NOT_FOUND" ELSE "OK")

Peek(k) ==
    /\ map' = map
    /\ ret' = Ret("peek", k, map[k],
                  IF map[k] = NoPos THEN "NOT_FOUND" ELSE "OK")

Next == \E k \in Keys : \/ \E p \in Positions : Push(k, p)
                        \/ Pop(k)
                        \/ Peek(k)

Spec == Init /\ [][Next]_vars
=============================================================================
