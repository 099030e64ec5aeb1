--------------------------- MODULE OilTestConfig ---------------------------
(***************************************************************************)
(* The configuration of the tests (oiltest/oiltestconfig.c): a stack of    *)
(* frames.  A frame holds the value of every option and owns two objects   *)
(* of the heap, the string of its random seed and the generator made from  *)
(* it.  The frame at the bottom is made when one is first needed; pushing  *)
(* copies the top frame and the objects it owns.                            *)
(***************************************************************************)
EXTENDS Integers, Sequences, FiniteSets, SequencesExt

CONSTANTS
    Options,      \* options that hold a number
    Values,       \* numbers a client may give them
    Defaults,     \* option -> its number in the frame _may_init makes
    Seeds,        \* seed strings of full length
    CutSeeds,     \* seed strings that are too short
    Noise,        \* what uninitialized words may hold
    Cells,        \* addresses of strings and of generators: numbers
    MaxHeight,    \* bound: frames
    MaxArgs,      \* bound: options given in a call
    MaxDraws,     \* bound: numbers drawn from a generator that are told apart
    NULL          \* the null pointer; also: no object at an address

ASSUME OilTestConfigAssumption ==
    /\ Cells \subseteq Nat /\ IsFiniteSet(Cells) /\ Cardinality(Cells) > MaxHeight
    /\ Options \cap {"seed", "unknown"} = {} /\ Defaults \in [Options -> Values]
    /\ NULL \notin Cells \cup Seeds \cup CutSeeds \cup [Options -> Values]
    /\ MaxHeight \in Nat \ {0} /\ MaxArgs \in Nat /\ MaxDraws \in Nat

VARIABLES
    stack,     \* the frames, the top one last
    strings,   \* address -> the seed string there, or NULL
    rands,     \* address -> the generator there, or NULL
    died       \* g_error was called: the process is gone

vars == <<stack, strings, rands, died>>

\* struct _OilTestConfig
Frame == [vals : [Options -> Values], seed_str : Cells, rand : Cells]

\* A generator was seeded with the words of a seed string, all of them or the
\* last one and uninitialized ones, and drawn holds how far it went from there.
Generator == [of : Seeds \cup CutSeeds, rest : Noise \cup {"exact"}, drawn : 0..MaxDraws]

ASSUME NoGeneratorAssumption == NULL \notin Generator

\* One option in a call.  An empty seed asks for an automatic one; an option
\* that is not known ends the call.
Args == [opt : Options, val : Values]
            \cup [opt : {"seed"}, val : Seeds \cup CutSeeds \cup {NULL}]
            \cup [opt : {"unknown"}, val : {NULL}]

\* Where malloc makes the next object of a heap
Free(heap) == CHOOSE a \in Cells : heap[a] = NULL /\ \A b \in Cells : heap[b] = NULL => a <= b

Top(s) == s[Len(s)]

-----------------------------------------------------------------------------
\* _gen_seed_auto writes its four words unpadded, each at its place: a word with
\* leading zeros cuts the string short.  All four words seed the generator.
Automatic(auto) == [of |-> auto, rest |-> "exact", drawn |-> 0]

\* _gen_seed_from_string stores every word it reads in the first element of an
\* array whose other elements it never writes
FromString(seed, noise) == [of |-> seed, rest |-> noise, drawn |-> 0]

\* What _gen_seed makes
GenSeed(seed, auto, noise) ==
    IF seed = NULL THEN [str |-> auto, rand |-> Automatic(auto)]
    ELSE [str |-> seed, rand |-> FromString(seed, noise)]

\* The stack and the heaps once _may_init is done
Initialized(auto) ==
    IF stack # <<>> THEN [stack |-> stack, strings |-> strings, rands |-> rands]
    ELSE [stack   |-> << [vals |-> Defaults, seed_str |-> Free(strings), rand |-> Free(rands)] >>,
          strings |-> [strings EXCEPT ![Free(strings)] = auto],
          rands   |-> [rands EXCEPT ![Free(rands)] = Automatic(auto)]]

\* A mistake: the copy shares the seed string of the top frame
DuplicatedSharing ==
    LET top == Top(stack) IN
    [stack   |-> Append(stack, [top EXCEPT !.rand = Free(rands)]),
     strings |-> strings,
     rands   |-> [rands EXCEPT ![Free(rands)] = rands[top.rand]]]

\* A mistake: the copy shares the generator of the top frame
DuplicatedSharingRand ==
    LET top == Top(stack) IN
    [stack   |-> Append(stack, [top EXCEPT !.seed_str = Free(strings)]),
     strings |-> [strings EXCEPT ![Free(strings)] = strings[top.seed_str]],
     rands   |-> rands]

\* The stack and the heaps once _dup_top_frame is pushed
Duplicated ==
    LET top == Top(stack) IN
    [stack   |-> Append(stack, [top EXCEPT !.seed_str = Free(strings), !.rand = Free(rands)]),
     strings |-> [strings EXCEPT ![Free(strings)] = strings[top.seed_str]],
     rands   |-> [rands EXCEPT ![Free(rands)] = rands[top.rand]]]

\* The seed option: the new objects are made before the old ones are freed
SetSeed(c, seed, auto, noise) ==
    LET new == GenSeed(seed, auto, noise)
        s == Free(c.strings)
        r == Free(c.rands)
    IN
    [c EXCEPT !.frame = [@ EXCEPT !.seed_str = s, !.rand = r],
              !.strings = [@ EXCEPT ![s] = new.str, ![c.frame.seed_str] = NULL],
              !.rands = [@ EXCEPT ![r] = new.rand, ![c.frame.rand] = NULL]]

\* oil_test_config_vset on one option.  A number that is not accepted is warned
\* about and stored: "continue" leaves the macro oil_act_if_fail, which is a
\* loop of its own, and not the loop over the options.
SetOption(c, arg, auto, noise) ==
    IF c.over \/ c.died THEN c
    ELSE CASE arg.opt = "unknown" -> [c EXCEPT !.over = TRUE]
           [] arg.opt = "seed" ->
                IF arg.val \in CutSeeds THEN [c EXCEPT !.died = TRUE]
                ELSE SetSeed(c, arg.val, auto, noise)
           [] arg.opt \in Options -> [c EXCEPT !.frame.vals[arg.opt] = arg.val]

\* The loop of oil_test_config_vset over the options
SetOptions(start, args, auto, noise) ==
    LET c[i \in 0..Len(args)] ==
            IF i = 0 THEN start ELSE SetOption(c[i - 1], args[i], auto, noise)
    IN c[Len(args)]

\* oil_test_config_vset on the top frame of s
Vset(s, args, auto, noise) ==
    LET start == [frame |-> Top(s.stack), strings |-> s.strings, rands |-> s.rands,
                  over |-> FALSE, died |-> FALSE]
        end == SetOptions(start, args, auto, noise)
    IN
    /\ stack' = [s.stack EXCEPT ![Len(s.stack)] = end.frame]
    /\ strings' = end.strings
    /\ rands' = end.rands
    /\ died' = end.died

\* _free_frame on a set of frames
FreeFrames(fs) ==
    /\ strings' = [a \in Cells |-> IF \E f \in fs : f.seed_str = a THEN NULL ELSE strings[a]]
    /\ rands' = [a \in Cells |-> IF \E f \in fs : f.rand = a THEN NULL ELSE rands[a]]

-----------------------------------------------------------------------------
Init ==
    /\ stack = <<>>
    /\ strings = [a \in Cells |-> NULL]
    /\ rands = [a \in Cells |-> NULL]
    /\ died = FALSE

oil_test_config_set(args, auto, noise) == Vset(Initialized(auto), args, auto, noise)

\* On an empty stack the frame that _may_init makes is the one that is pushed
oil_test_config_push(args, auto, noise) ==
    /\ Len(stack) < MaxHeight
    /\ Vset(IF stack = <<>> THEN Initialized(auto) ELSE Duplicated, args, auto, noise)

\* oil_test_config_vget and the shortcuts only make the bottom frame
oil_test_config_get(auto) ==
    /\ stack = <<>>
    /\ stack' = Initialized(auto).stack
    /\ strings' = Initialized(auto).strings
    /\ rands' = Initialized(auto).rands
    /\ UNCHANGED died

oil_test_config_pop ==
    /\ stack # <<>>
    /\ stack' = Front(stack)
    /\ FreeFrames({Top(stack)})
    /\ UNCHANGED died

oil_test_config_pop_all ==
    /\ stack' = <<>>
    /\ FreeFrames(Range(stack))
    /\ UNCHANGED died

\* A sample is generated: numbers are drawn from oil_test_config_rand ()
Draw ==
    /\ stack # <<>>
    /\ rands[Top(stack).rand].drawn < MaxDraws
    /\ rands' = [rands EXCEPT ![Top(stack).rand].drawn = @ + 1]
    /\ UNCHANGED <<stack, strings, died>>

Next ==
    /\ died = FALSE
    /\ \/ \E args \in BoundedSeq(Args, MaxArgs), auto \in Seeds \cup CutSeeds, noise \in Noise :
            \/ oil_test_config_set(args, auto, noise)
            \/ oil_test_config_push(args, auto, noise)
       \/ \E auto \in Seeds \cup CutSeeds : oil_test_config_get(auto)
       \/ oil_test_config_pop
       \/ oil_test_config_pop_all
       \/ Draw

Spec == Init /\ [][Next]_vars

-----------------------------------------------------------------------------
(* Properties *)

\* Every frame has a number for every option and points to a string and to a
\* generator; the heaps hold strings and generators.
TypeOK ==
    /\ Len(stack) <= MaxHeight /\ \A i \in DOMAIN stack : stack[i] \in Frame
    /\ strings \in [Cells -> Seeds \cup CutSeeds \cup {NULL}]
    /\ rands \in [Cells -> Generator \cup {NULL}]
    /\ died \in BOOLEAN

\* Each frame owns its seed string and its generator: they exist, no two frames
\* share one, and there is none that no frame owns, after any sequence of
\* pushes, pops, settings, those that stop half way included, and tests.  The
\* seed that a client reads from a frame, and the log reports, is the one its
\* generator was seeded from.
FramesOwnObjects ==
    LET frames == DOMAIN stack IN
    /\ \A i \in frames : strings[stack[i].seed_str] # NULL /\ rands[stack[i].rand] # NULL
    /\ \A i, j \in frames : stack[i].seed_str = stack[j].seed_str \/ stack[i].rand = stack[j].rand
                               => i = j
    /\ Cardinality({a \in Cells : strings[a] # NULL}) = Len(stack)
    /\ Cardinality({a \in Cells : rands[a] # NULL}) = Len(stack)
    /\ \A i \in frames : rands[stack[i].rand].of = strings[stack[i].seed_str]

\* What the frame at height i holds
Content(i) == <<stack[i], strings[stack[i].seed_str], rands[stack[i].rand]>>

\* What is set, seeded or drawn above a frame does not reach it: when the frames
\* above it are popped, it is as it was, its generator included, and so are the
\* pointers clients got from it.
KeptBeneath ==
    \A i \in DOMAIN stack :
        i \in DOMAIN stack' /\ (i < Len(stack) \/ i < Len(stack')) => Content(i)' = Content(i)
FramesBeneathAreKept == [][KeptBeneath]_vars

=============================================================================
