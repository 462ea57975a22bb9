----------------------------- MODULE MCDcxEdge ------------------------------
(***************************************************************************)
(* Sizes on both sides of every boundary: the alignment, the block, and    *)
(* the range of a header word, which is five blocks here.                  *)
(***************************************************************************)
EXTENDS DcxEdge

MCU32 == 5 * Block
MCSizes == {n \in UNION {(k * Block - 17) .. (k * Block + 17) : k \in 0 .. 5} : 0 <= n /\ n < MCU32}
=============================================================================
