--------------------------- MODULE MCBinaryWriter ---------------------------
(***************************************************************************)
(* A small writer for TLC, on the memory and on the file backend: one name *)
(* with two kinds, so two placeholders of different widths may overlap.    *)
(***************************************************************************)
EXTENDS BinaryWriter

\* `last` only describes the step that led to a state: two states that differ
\* in it alone have the same future.
MCView == <<st, steps, res, varint_long, closed, torn>>
=============================================================================
