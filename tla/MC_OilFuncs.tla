---------------------------- MODULE MC_OilFuncs ----------------------------
(* Small instances of OilFuncs for TLC. *)
EXTENDS OilFuncs

CONSTANTS foo, bar, mmx, gs2f, fast, odd

\* foo is tested and listed, bar is neither; odd is for another CPU
TwoFunctions == <<foo, bar>>
ThreeImplements == << <<foo, mmx, fast>>, <<foo, gs2f, odd>>, <<bar, mmx, fast>> >>
OneLine == [n \in {foo} |-> mmx]

\* A client replaces what it finds, and adds again what was removed
ThreeAdded == {<<foo, mmx, odd>>, <<foo, mmx, fast>>, <<bar, mmx, odd>>}

\* Addresses and attachments are told apart only by equality
Symmetry == Permutations(Classes) \cup Permutations(Data)
=============================================================================
