----------------------------- MODULE OilSample -----------------------------
(***************************************************************************)
(* The test data of a function class: the prototype that is parsed when    *)
(* test information is attached to the class (oiltest/oilparameter.c), the *)
(* layout of its arrays, which every test of the class computes anew from  *)
(* the configuration on top of the stack (oiltest/oiltester.c), and what   *)
(* the default checker fills and compares of them (oiltest/oilchecker.c).  *)
(*                                                                         *)
(* A prototype is a sequence of parameters, given by what the regular      *)
(* expression captures in them: the words of a parameter and the length    *)
(* specifications of an array, which are none, one (the rows) or two (what *)
(* a row holds and the rows).                                              *)
(***************************************************************************)
EXTENDS OilTestConfig

CONSTANTS
    Prototypes,   \* the prototypes clients attach
    TestM         \* bound: the one number that test_m has

\* What a length specification captures: n, m or neither, and a number
LenSpec == [var : {"none", "n", "m"}, len : Nat]

\* What is captured in a parameter: a number, the stride of an array, or an array
Words ==
    [form : {"scale"}, name : {"n", "m"}, type : STRING, star : BOOLEAN]
        \cup [form : {"stride"}, dir : {"dest", "src", "inplace"}, index : Nat,
              type : STRING, star : BOOLEAN]
        \cup [form : {"array"}, dir : {"dest", "src", "inplace"}, index : Nat,
              lens : {lens \in Seq(LenSpec) : Len(lens) <= 2}, type : STRING, star : BOOLEAN]

ASSUME OilSampleAssumption ==
    /\ "test_n" \in Options /\ Values \subseteq Nat /\ TestM \in Nat
    /\ Prototypes \subseteq Seq(Words)

VARIABLES
    params,    \* OilClassData.parameters of the class, or NULL: nothing is attached
    first,     \* history: the numbers of the first test since then, or NULL
    last       \* history: the numbers of the last test, or NULL

sampleVars == <<params, first, last>>

-----------------------------------------------------------------------------
(* The parser *)

MaxParams == 22

\* OilArgType: the arguments of _argType_parse that it knows
OilArgType ==
    {<<"scale", FALSE, 0>>}
        \cup ({"dest"} \X BOOLEAN \X (1..3))
        \cup ({"src"} \X BOOLEAN \X (1..5))
        \cup ({"inplace"} \X BOOLEAN \X (1..2))
N == <<"scale", FALSE, 0>>

\* struct _OilParameter: the parameters of functions
Parameter ==
    [parameter : Words, arg_type : OilArgType, is_pointer : BOOLEAN, pre : LenSpec, post : LenSpec,
     value : Nat, pre_n : Nat, post_n : Nat, stride : Nat, size : Nat]

ASSUME NoParametersAssumption == NULL \notin Seq(Parameter)

\* oil_type_sizeof; "int" is a type of its own
oil_type_sizeof ==
    [t \in {"int8_t", "uint8_t", "int16_t", "uint16_t", "int32_t", "uint32_t", "float",
            "int64_t", "uint64_t", "double", "int"} |->
        CASE t \in {"int8_t", "uint8_t"} -> 1
          [] t \in {"int16_t", "uint16_t"} -> 2
          [] t \in {"int32_t", "uint32_t", "float"} -> 4
          [] t \in {"int64_t", "uint64_t", "double"} -> 8
          [] t = "int" -> 0]

\* Whether _oilType_parse knows the type, with its star
TypeIsKnown(w) == w.type \in DOMAIN oil_type_sizeof /\ (w.star => w.type # "int")

\* The argument type of what is written: n and m have the same
ArgType(w) == IF w.form = "scale" THEN N ELSE <<w.dir, w.form = "stride", w.index>>

\* What a row holds and the rows, with their defaults
Lens(w) ==
    LET one == [var |-> "none", len |-> 1]
        n == [var |-> "n", len |-> 0]
    IN
    IF Len(w.lens) = 0 THEN <<one, n>> ELSE IF Len(w.lens) = 1 THEN <<one, w.lens[1]>> ELSE w.lens

\* oil_param_parse.  The kind of the argument says whether it is a pointer, not
\* the star.  The size of an array is given without its header and footer.
oil_param_parse(w) ==
    [parameter |-> w, arg_type |-> ArgType(w), is_pointer |-> w.form = "array",
     pre |-> IF w.form = "array" THEN Lens(w)[1] ELSE [var |-> "none", len |-> 0],
     post |-> IF w.form = "array" THEN Lens(w)[2] ELSE [var |-> "none", len |-> 0],
     value |-> 0, pre_n |-> 0, post_n |-> 0, stride |-> 0, size |-> 0]

\* A mistake: only the rows are looked at
SanityOfRows(ps) ==
    (\A i \in DOMAIN ps : ps[i].arg_type # N) => \A i \in DOMAIN ps : ps[i].post.var # "n"

\* _prototype_check_sanity: nothing depends on n in a prototype without n and m
_prototype_check_sanity(ps) ==
    (\A i \in DOMAIN ps : ps[i].arg_type # N) =>
        \A i \in DOMAIN ps : ps[i].pre.var # "n" /\ ps[i].post.var # "n"

\* oil_prototype_parse: a parameter too many is left in the last one's string
Parsed(prototype) == [i \in DOMAIN prototype |-> oil_param_parse(prototype[i])]

\* A mistake: arguments of any index are taken
AnyIndexParses(prototype) ==
    /\ prototype # <<>> /\ Len(prototype) <= MaxParams
    /\ \A i \in DOMAIN prototype : TypeIsKnown(prototype[i])
    /\ _prototype_check_sanity(Parsed(prototype))

oil_prototype_parse(prototype) ==
    /\ prototype # <<>> /\ Len(prototype) <= MaxParams
    /\ \A i \in DOMAIN prototype :
          TypeIsKnown(prototype[i]) /\ ArgType(prototype[i]) \in OilArgType
    /\ _prototype_check_sanity(Parsed(prototype))

-----------------------------------------------------------------------------
(* The layout *)

\* The parameter that _calc_sample_layout finds under an argument type: the last
\* one that has it, or none
Rearranged(ps, arg) == LET is == {i \in DOMAIN ps : ps[i].arg_type = arg}
                       IN IF is = {} THEN 0 ELSE CHOOSE i \in is : \A j \in is : j <= i

\* The argument type of the stride of an array, and of the array of a stride
Partner(arg) == [arg EXCEPT ![2] = ~@]

\* Arrays and strides that are each found and go together: _calc_layout_of_array
\* returns at once for the others
Paired(ps, i) == /\ ps[i].arg_type # N
                 /\ Rearranged(ps, ps[i].arg_type) = i
                 /\ Rearranged(ps, Partner(ps[i].arg_type)) # 0

\* A length under the numbers of a configuration
LengthOf(spec, vals) ==
    spec.len + CASE spec.var = "none" -> 0 [] spec.var = "n" -> vals["test_n"] [] spec.var = "m" -> TestM

\* A mistake: the stride is computed from the rows
StrideFromRows(array, stride, vals) ==
    IF stride.value # 0 THEN stride.value
    ELSE oil_type_sizeof[array.parameter.type] * LengthOf(array.post, vals)

\* The stride is the one that is kept in its parameter, if any
StrideOf(array, stride, vals) ==
    IF stride.value # 0 THEN stride.value
    ELSE oil_type_sizeof[array.parameter.type] * LengthOf(array.pre, vals)

\* A mistake: the length of a former layout is added to
LaidOutAgain(array, stride, vals) ==
    LET bytes == StrideOf(array, stride, vals)
        rows == array.post_n + LengthOf(array.post, vals)
    IN [array EXCEPT !.pre_n = LengthOf(array.pre, vals), !.stride = bytes,
                     !.post_n = rows, !.size = bytes * rows]

\* A mistake: like the stride, the rows are computed once
LaidOutOnce(array, stride, vals) ==
    LET bytes == StrideOf(array, stride, vals)
        rows == IF array.post_n # 0 THEN array.post_n ELSE LengthOf(array.post, vals)
    IN [array EXCEPT !.pre_n = LengthOf(array.pre, vals), !.stride = bytes,
                     !.post_n = rows, !.size = bytes * rows]

\* _calc_layout_of_array: the array
LaidOut(array, stride, vals) ==
    LET bytes == StrideOf(array, stride, vals)
        rows == LengthOf(array.post, vals)
    IN [array EXCEPT !.pre_n = LengthOf(array.pre, vals), !.stride = bytes,
                     !.post_n = rows, !.size = bytes * rows]

\* _calc_sample_layout
Layout(ps, vals) ==
    [i \in DOMAIN ps |->
        LET partner == ps[Rearranged(ps, Partner(ps[i].arg_type))] IN
        IF i = Rearranged(ps, N) THEN [ps[i] EXCEPT !.value = vals["test_n"]]
        ELSE IF ~Paired(ps, i) THEN ps[i]
        ELSE IF ps[i].is_pointer THEN LaidOut(ps[i], partner, vals)
        ELSE [ps[i] EXCEPT !.value = StrideOf(partner, ps[i], vals)]]

-----------------------------------------------------------------------------
(* The checker *)

\* Arrays that go in, and arrays that come out
Inputs(ps) == {i \in DOMAIN ps : ps[i].is_pointer /\ ps[i].arg_type[1] \in {"src", "inplace"}}
Outputs(ps) == {i \in DOMAIN ps : ps[i].is_pointer /\ ps[i].arg_type[1] \in {"dest", "inplace"}}

\* Filling or comparing an array whose type is written without a star is a g_error
Unknown(ps, arrays) == \E i \in arrays : ~ ps[i].parameter.star

\* oil_checker_sample_generator draws a number for each element of each input
Drawn(ps) ==
    LET drawn[i \in 0..Len(ps)] ==
            IF i = 0 THEN 0
            ELSE drawn[i - 1] + (IF i \in Inputs(ps) THEN ps[i].pre_n * ps[i].post_n ELSE 0)
    IN drawn[Len(ps)]

\* Where in an array the checker fills and compares elements: their offsets
Looked(array) ==
    {i * array.stride + j * oil_type_sizeof[array.parameter.type] :
        i \in 0..(array.post_n - 1), j \in 0..(array.pre_n - 1)}

-----------------------------------------------------------------------------
SampleInit == Init /\ params = NULL /\ first = NULL /\ last = NULL

oil_test_attach_class_full(prototype) ==
    /\ params = NULL
    /\ oil_prototype_parse(prototype)
    /\ params' = Parsed(prototype)
    /\ UNCHANGED <<first, last, vars>>

\* The class goes away and is registered anew
oil_test_destroy_class_data ==
    /\ params # NULL
    /\ params' = NULL /\ first' = NULL /\ last' = NULL
    /\ UNCHANGED vars

\* A test of the class: the layout is computed, the sample is generated from the
\* generator of the top frame, which is made if there is none, and if an implement
\* violates nothing its results are compared.
_optimize_class(auto, judged) ==
    LET s == Initialized(auto)
        top == Top(s.stack)
        ps == Layout(params, top.vals)
        draws == s.rands[top.rand].drawn + Drawn(ps)
    IN
    /\ params # NULL
    /\ stack' = s.stack
    /\ strings' = s.strings
    /\ rands' = [s.rands EXCEPT ![top.rand].drawn = IF draws < MaxDraws THEN draws ELSE MaxDraws]
    /\ params' = ps
    /\ died' = (Unknown(ps, Inputs(ps)) \/ (judged /\ Unknown(ps, Outputs(ps))))
    /\ first' = IF first = NULL THEN top.vals ELSE first
    /\ last' = top.vals

SampleNext ==
    \/ Next /\ UNCHANGED sampleVars
    \/ /\ died = FALSE
       /\ \/ \E prototype \in Prototypes : oil_test_attach_class_full(prototype)
          \/ oil_test_destroy_class_data
          \/ \E auto \in Seeds \cup CutSeeds, judged \in BOOLEAN : _optimize_class(auto, judged)

SampleSpec == SampleInit /\ [][SampleNext]_<<vars, sampleVars>>

-----------------------------------------------------------------------------
(* Properties *)

\* The types of the configuration; and what is attached are the parameters of a
\* prototype, each of an argument type that the parser knows.
SampleTypeOK ==
    /\ TypeOK
    /\ params # NULL =>
          /\ params \in Seq(Parameter)
          /\ [i \in DOMAIN params |-> params[i].parameter] \in Prototypes

\* A function whose arrays depend on n is given the number they were laid out for
\* in every test, although the parameters are kept from one test to the next: in
\* the last parameter that is n or m.  The parser takes m for n, so that the
\* arrays of an accepted prototype may depend on an n it does not have.
LengthsAreGiven ==
    params # NULL /\ (\E i \in DOMAIN params : "n" \in {params[i].pre.var, params[i].post.var}) =>
        \E j \in DOMAIN params :
            /\ params[j].arg_type = N
            /\ \A k \in DOMAIN params : params[k].arg_type = N => k <= j
            /\ last # NULL => params[j].value = last["test_n"]

\* The number that a function is given for n, and for the stride of an array
GivenN == LET is == {i \in DOMAIN params : params[i].parameter.form = "scale"
                                              /\ params[i].parameter.name = "n"}
          IN IF is = {} THEN 0 ELSE params[CHOOSE i \in is : TRUE].value
Given(spec) == spec.len + (IF spec.var = "n" THEN GivenN ELSE 0)

\* The offsets of the elements of an array that a function touches that walks
\* over the rows its prototype says, by the stride it is given
Touched(i) ==
    LET stride == params[Rearranged(params, Partner(params[i].arg_type))].value IN
    {row * stride + j * oil_type_sizeof[params[i].parameter.type] :
        row \in 0..(Given(params[i].post) - 1), j \in 0..(Given(params[i].pre) - 1)}

\* Prototypes whose arrays are pointers to different data, each with its stride,
\* with lengths that do not depend on m, and on n only if it is a parameter: the
\* sanity check takes m for it
IsPlain ==
    /\ \A i, j \in DOMAIN params : params[i].arg_type = params[j].arg_type => i = j
    /\ \A i \in DOMAIN params : params[i].is_pointer =>
          /\ Paired(params, i) /\ params[i].parameter.star
          /\ params[i].pre.var # "m" /\ params[i].post.var # "m"
          /\ "n" \in {params[i].pre.var, params[i].post.var} =>
                \E j \in DOMAIN params : params[j].parameter.form = "scale"
                                            /\ params[j].parameter.name = "n"

\* A function that does what its prototype says stays inside the arrays it is
\* given, whatever tests came before: unless n is larger than in the first test
\* of the class, whose strides are kept for the others.
RoomForRows ==
    params # NULL /\ last # NULL /\ IsPlain /\ last["test_n"] <= first["test_n"] =>
        \A i \in Inputs(params) \cup Outputs(params) : \A offset \in Touched(i) :
            offset + oil_type_sizeof[params[i].parameter.type] <= params[i].size

\* What the checker fills before a test and compares after it is what a function
\* reads and writes that does what its prototype says: no element is left to
\* chance or unseen, although n and the strides come from different tests.
CheckerSeesAll ==
    params # NULL /\ last # NULL /\ IsPlain =>
        \A i \in Inputs(params) \cup Outputs(params) : Looked(params[i]) = Touched(i)

\* When a frame that changed n is popped, the tests of a class get the arrays
\* they had in its first test: unless n was 0 then, and left strides of 0 to be
\* computed later.
SameNumbersSameLayout ==
    params # NULL /\ last # NULL /\ first = last /\ first["test_n"] # 0 =>
        params = Layout(Parsed([i \in DOMAIN params |-> params[i].parameter]), last)
=============================================================================
