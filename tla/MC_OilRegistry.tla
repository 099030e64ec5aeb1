-------------------------- MODULE MC_OilRegistry --------------------------
(* Small instances of OilRegistry for TLC. *)
EXTENDS OilRegistry, TLC

\* Names, addresses and attachments are told apart only by equality
Symmetry == Permutations(Names) \cup Permutations(Classes) \cup Permutations(Data)
=============================================================================
