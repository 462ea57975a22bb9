--------------------------- MODULE MCBinaryReader ---------------------------
(***************************************************************************)
(* The read calls of the instances: one of every kind, sized so that each  *)
(* can end inside the input, at its end and past it.                       *)
(***************************************************************************)
EXTENDS BinaryReader

MCOps == {<<"bytes", 0>>, <<"bytes", 2>>, <<"bools", 2>>, <<"varints", 1>>, <<"floats", 2>>,
          <<"colour">>, <<"assert", 1, FALSE>>, <<"assert_bool", 1, TRUE>>,
          <<"enum", 2, FALSE>>, <<"ascii", 4, TRUE>>, <<"pattern", 3>>,
          <<"str">>, <<"wstr">>, <<"str_n", 2>>}

\* The bounds of Offs: before the start, inside, the end and past it.
MCOffs == {-1, 1, Size, Size + 1}

\* `last` only describes the step that led to a state: two states that differ
\* in it alone have the same future.
MCView == <<data, backend, pos, steps, is_flexible, varint_long, nest, leaked>>
=============================================================================
