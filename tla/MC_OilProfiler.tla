--------------------------- MODULE MC_OilProfiler ---------------------------
(* Small instances of OilProfiler for TLC. *)
EXTENDS OilProfiler
=============================================================================
