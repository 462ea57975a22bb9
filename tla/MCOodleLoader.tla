--------------------------- MODULE MCOodleLoader ----------------------------
(***************************************************************************)
(* Two directories: one with a broken v9 DLL beside good v8 and v6 ones,   *)
(* one with a broken v8 only.                                              *)
(***************************************************************************)
EXTENDS OodleLoader, TLC

MCLib == [d \in {"game", "broken"} |->
            IF d = "game"
            THEN 9 :> "partial" @@ 8 :> "complete" @@ 6 :> "complete"
            ELSE 9 :> "missing" @@ 8 :> "partial" @@ 6 :> "missing"]
=============================================================================
