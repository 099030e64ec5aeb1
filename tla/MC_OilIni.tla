------------------------------ MODULE MC_OilIni ------------------------------
(* Small instances of OilIni for TLC. *)
EXTENDS OilIni, TLC

Lines ==
    { <<>>, <<"#", "c">>,
      <<"[", "m", "]">>, <<"[", " ", "]">>, <<"[", "n", " ", "m", "]">>, <<"[", "u", "]">>,
      <<"c", "=", "x">>, <<"c", "=", "x", "y">>, <<"c", " ", " ", "=", " ", "x", "y">>,
      <<"d", " ", "=", " ", "y">>, <<" ", "d", "=", "x">>, <<"=", "x">>, <<"c">>,
      <<"#", "c", "=", "x", "]", "]", "]">> }

\* Ini-strings of at most four lines
ShortTexts == UNION {[1..n -> Lines] : n \in 1..4}

\* Two classes, c and d, with two implements each
TwoClasses ==
    (<<"c">> :> (<<"x">> :> {} @@ <<"x", "y">> :> {"m"})) @@
    (<<"d">> :> (<<"x">> :> {"n"} @@ <<"y">> :> {"m"}))

TwoFlags == <<"m">> :> "m" @@ <<"n">> :> "n"

OneFlag == {"m"}
=============================================================================
