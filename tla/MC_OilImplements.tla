-------------------------- MODULE MC_OilImplements --------------------------
(* Small instances of OilImplements for TLC. *)
EXTENDS OilImplements, TLC

\* Names of implements are told apart only by equality
Symmetry == Permutations(Names)
=============================================================================
