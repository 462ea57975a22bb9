------------------------------- MODULE MCDcx --------------------------------
(***************************************************************************)
(* The infos of the instances: two DFLT presets that differ in all fields, *)
(* a KRAK one, types without fields, and NONE and UNKNOWN.                 *)
(***************************************************************************)
EXTENDS Dcx

MCInfos == {dflt_preset("11000_44_9_15"), default_type("AC6"), default_type("DARK_SOULS_1"),
            default_info_from_type("ZLIB"), default_info_from_type("DCP_DFLT"),
            default_info_from_type("DCX_EDGE"), default_info_from_type("NONE"),
            default_info_from_type("UNKNOWN")}
=============================================================================
