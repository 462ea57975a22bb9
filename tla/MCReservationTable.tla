------------------------- MODULE MCReservationTable -------------------------
(***************************************************************************)
(* A small reservation table.  All names share the last slot as their home *)
(* while the table has InitCap slots, so walks wrap; two of them, as two   *)
(* kinds of one name do, share it for ever, and the third parts from them  *)
(* when the table is doubled.                                              *)
(***************************************************************************)
EXTENDS ReservationTable

MCNames == {"a", "b", "c"}
MCHash == [n \in MCNames |-> IF n = "c" THEN 7 ELSE 3]
=============================================================================
