---------------------------- MODULE MCBinderFiles ----------------------------
(***************************************************************************)
(* Instance of BinderFiles for TLC: all five kinds, lists of up to two     *)
(* files, so that an array of one that was read from a file has to grow,   *)
(* and two blocks in the hands of the caller, what one BXF write returns.  *)
(***************************************************************************)
EXTENDS BinderFiles

MCKinds == {"bnd3", "bnd4", "bxf3", "bxf4", "bhd5"}

=============================================================================
