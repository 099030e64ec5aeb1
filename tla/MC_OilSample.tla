---------------------------- MODULE MC_OilSample ----------------------------
(* A small instance of OilSample for TLC. *)
EXTENDS OilSample

OneElement == [test_n |-> 1]

(* The kinds of parameters *)
Scale(name) == [form |-> "scale", name |-> name, type |-> "int", star |-> FALSE]
Stride(dir, index) ==
    [form |-> "stride", dir |-> dir, index |-> index, type |-> "int", star |-> FALSE]
Array(dir, index, type, lens) ==
    [form |-> "array", dir |-> dir, index |-> index, lens |-> lens, type |-> type, star |-> TRUE]

(* Length specifications *)
Fixed(k) == [var |-> "none", len |-> k]
PlusN(k) == [var |-> "n", len |-> k]
M == [var |-> "m", len |-> 0]

MCPrototypes == {
    \* int16_t *d_3xnp1, int ds, uint8_t *s1_n, int ss1, int n
    << Array("dest", 1, "int16_t", <<Fixed(3), PlusN(1)>>), Stride("dest", 1),
       Array("src", 1, "uint8_t", <<PlusN(0)>>), Stride("src", 1), Scale("n") >>,
    \* float *i2_nx2, int is2, double *s, int ss, int m, int n
    << Array("inplace", 2, "float", <<PlusN(0), Fixed(2)>>), Stride("inplace", 2),
       Array("src", 1, "double", <<>>), Stride("src", 1), Scale("m"), Scale("n") >>,
    \* uint8_t *d_4xn, uint8_t *s_3xm, int ss, int n: an array without its stride
    << Array("dest", 1, "uint8_t", <<Fixed(4), PlusN(0)>>),
       Array("src", 1, "uint8_t", <<Fixed(3), M>>), Stride("src", 1), Scale("n") >>,
    \* uint8_t *d_2x3, int ds, int ds: a stride twice, and nothing else
    << Array("dest", 1, "uint8_t", <<Fixed(2), Fixed(3)>>), Stride("dest", 1), Stride("dest", 1) >>,
    \* uint8_t s, int ss, int n; uint8_t d, int ds, int n: arrays without star
    << [Array("src", 1, "uint8_t", <<>>) EXCEPT !.star = FALSE], Stride("src", 1), Scale("n") >>,
    << [Array("dest", 1, "uint8_t", <<>>) EXCEPT !.star = FALSE], Stride("dest", 1), Scale("n") >>,
    \* int ss2: nothing asks for a number
    << Stride("src", 2) >>,
    \* uint8_t *s_n, int ss, int m: the rows are n, and n is not a parameter
    << Array("src", 1, "uint8_t", <<PlusN(0)>>), Stride("src", 1), Scale("m") >>,
    \* Refused: no n, in the rows or in what they hold; an unknown type; an unknown index
    << Array("src", 1, "uint8_t", <<>>), Stride("src", 1) >>,
    << Array("src", 1, "uint8_t", <<PlusN(0), Fixed(2)>>), Stride("src", 1) >>,
    << Array("src", 1, "long", <<Fixed(1)>>), Stride("src", 1) >>,
    << Stride("dest", 4), Scale("n") >> }
=============================================================================
