----------------------------- MODULE OilTester -----------------------------
(***************************************************************************)
(* Optimizing a function class (oiltest/oiltester.c): the reference and    *)
(* each implement the CPU supports are run several times on armed sample   *)
(* buffers, under a handler for illegal instructions; those that fault,    *)
(* write where they must not or compute something else than the reference  *)
(* are turned down, and the fastest of the others is activated.  The class *)
(* is the map that OilImplements is shown to implement.  The parameters are *)
(* one source array and one destination array; the default checker and     *)
(* profiler are used.                                                       *)
(***************************************************************************)
EXTENDS Integers, FiniteSets

CONSTANTS
    NImpls,       \* implements of the class, visited in the order 1..NImpls
    Iterations,   \* oil_test_config_iterations ()
    Flags,        \* sets of CPU features an implement may ask for
    CpuFlags,     \* the set of features oil_cpu_get_flags reports
    Times,        \* average times the profiler may measure
    RefBehaviours,   \* what the reference function may be like
    ImplBehaviours,  \* what an implement may be like
    MaxRuns,      \* bound: times the class is optimized
    NULL          \* the null pointer

Reference == 0

Impls == 1..NImpls

\* What a function does to its arguments when it is called
Behaviours ==
    { "correct",    \* writes what the reference should compute from the source
      "idle",       \* writes nothing
      "wrong",      \* writes something else
      "nan",        \* writes NaNs
      "clobbers",   \* correct, and writes its source
      "overruns",   \* correct, and writes around or between the rows of its destination
      "illegal" }   \* correct, or meets an illegal instruction

ASSUME OilTesterAssumption ==
    /\ NImpls \in Nat /\ Iterations \in Nat \ {0} /\ MaxRuns \in Nat
    /\ Times \subseteq Nat \ {0}
    /\ RefBehaviours \subseteq Behaviours /\ ImplBehaviours \subseteq Behaviours
    /\ NULL \notin Impls

VARIABLES
    behaves,       \* what each function is like; never changes
    bound,         \* the implements of the class, as oil_class_implements_foreach shows them
    exported,      \* the function the slot of the class holds
    pc,            \* where the test is
    cur,           \* the function being tested
    iter,          \* iterations it has completed
    src_sample, ref_sample, tdata,   \* the contents of the three sets of buffers
    buffers,       \* sets of buffers allocated
    min_val, chosen_impl,            \* fixture: best time so far, and whose
    in_try_block, enable_level,      \* the statics of the fault handler
    handler,       \* who handles SIGILL: "client" or "tester"
    profiles,      \* profiler data made by begin and not finalized by end
    runs,          \* tests begun
    faults,        \* illegal instructions met, over all tests
    measured,      \* in this test: function -> its time, 0 if it has none
    refused        \* in this test: the implements turned down

class     == <<bound, exported>>
samples   == <<src_sample, ref_sample, tdata, buffers>>
fixture   == <<min_val, chosen_impl>>
signals   == <<in_try_block, enable_level, handler>>
history   == <<runs, faults, measured, refused>>
vars      == <<behaves, bound, exported, pc, cur, iter, src_sample, ref_sample, tdata, buffers,
               min_val, chosen_impl, in_try_block, enable_level, handler, profiles,
               runs, faults, measured, refused>>

Class == INSTANCE ImplMap WITH Names <- Impls, Funcs <- Impls, Unbound <- NULL, Ref <- Reference

\* The content of a set of buffers: of the source array, of the rows of the
\* destination array, and of what surrounds and separates those rows.  Memory
\* starts as guard bytes.
Guarded == [src |-> "guard", dest |-> "guard", margin |-> "guard"]

\* What the reference should compute from each content of the source
Image == [guard |-> "of guard", sample |-> "of sample", spoiled |-> "of spoiled"]

Buffers == [src : DOMAIN Image,
            dest : {"guard", "wrong", "nan"} \cup {Image[s] : s \in DOMAIN Image},
            margin : {"guard", "spoiled"}]

\* The buffers after a call that returns
Effect(f, buf) ==
    CASE behaves[f] = "idle"     -> buf
      [] behaves[f] = "wrong"    -> [buf EXCEPT !.dest = "wrong"]
      [] behaves[f] = "nan"      -> [buf EXCEPT !.dest = "nan"]
      [] behaves[f] = "clobbers" -> [buf EXCEPT !.dest = Image[buf.src], !.src = "spoiled"]
      [] behaves[f] = "overruns" -> [buf EXCEPT !.dest = Image[buf.src], !.margin = "spoiled"]
      [] behaves[f] \in {"correct", "illegal"} -> [buf EXCEPT !.dest = Image[buf.src]]

\* _check_violation: the source is what it was, the guard bytes are in place
NoViolation(src, buf) == buf.src = src.src /\ buf.margin = "guard"

\* oil_checker_check_result with _check_array: the deviation from the
\* reference is within the tolerance.  A deviation that is not a number is
\* not greater than the tolerance.
CheckResult(ref, buf) == buf.dest = "nan" \/ buf.dest = ref.dest

-----------------------------------------------------------------------------
Init ==
    /\ behaves \in {b \in [0..NImpls -> RefBehaviours \cup ImplBehaviours] :
                       /\ b[Reference] \in RefBehaviours
                       /\ \A i \in Impls : b[i] \in ImplBehaviours}
    /\ \E w \in [Impls -> Flags] : bound = [i \in Impls |-> [impl |-> i, flags |-> w[i]]]
    /\ exported = Reference
    /\ pc = "idle" /\ cur = Reference /\ iter = 0
    /\ src_sample = Guarded /\ ref_sample = Guarded /\ tdata = Guarded
    /\ buffers = 0
    /\ min_val = 0 /\ chosen_impl = NULL
    /\ in_try_block = 0 /\ enable_level = 0 /\ handler = "client"
    /\ profiles = 0
    /\ runs = 0 /\ faults = 0
    /\ measured = [f \in 0..NImpls |-> 0]
    /\ refused = {}

\* _optimize_class up to the test of the reference: the fixture is zeroed, the
\* buffers are filled with guard bytes, the sample is generated in the source
\* arrays of src_sample, the handler is installed
StartOptimize ==
    /\ pc = "idle"
    /\ runs < MaxRuns
    /\ pc' = "begin"
    /\ cur' = Reference
    /\ iter' = 0
    /\ src_sample' = [Guarded EXCEPT !.src = "sample"]
    /\ ref_sample' = Guarded
    /\ tdata' = Guarded
    /\ buffers' = buffers + 3
    /\ min_val' = 0
    /\ chosen_impl' = NULL
    /\ IF enable_level = 0
       THEN handler' = "tester" /\ in_try_block' = 0
       ELSE UNCHANGED <<handler, in_try_block>>
    /\ enable_level' = enable_level + 1
    /\ runs' = runs + 1
    /\ measured' = [f \in 0..NImpls |-> 0]
    /\ refused' = {}
    /\ UNCHANGED <<behaves, class, profiles, faults>>

\* The visitor is called on the next implement, or on none
NextFunction ==
    /\ cur' = cur + 1
    /\ iter' = 0
    /\ pc' = IF cur = NImpls THEN "teardown" ELSE "begin"

\* _check_implement, the flags ask for what the CPU does not have
IgnoreUnsupported ==
    /\ pc = "begin"
    /\ cur # Reference
    /\ ~ bound[cur].flags \subseteq CpuFlags
    /\ NextFunction
    /\ refused' = refused \cup {cur}
    /\ UNCHANGED <<behaves, class, samples, fixture, signals, profiles, runs, faults, measured>>

\* A mistake: the profiler data is not counted as begun
BeginNoProfile ==
    /\ pc = "begin"
    /\ cur # Reference => bound[cur].flags \subseteq CpuFlags
    /\ pc' = "try"
    /\ in_try_block' = 1
    /\ UNCHANGED <<behaves, class, cur, iter, samples, fixture, enable_level, handler, profiles,
                   history>>

\* profiler->begin, and OIL_TRY up to its setjmp
BeginProfile ==
    /\ pc = "begin"
    /\ cur # Reference => bound[cur].flags \subseteq CpuFlags
    /\ pc' = "try"
    /\ profiles' = profiles + 1
    /\ in_try_block' = 1
    /\ UNCHANGED <<behaves, class, cur, iter, samples, fixture, enable_level, handler, history>>

\* _arm_test_data as _check_reference calls it: the parameter named tdata is
\* src_sample, the one named src_sample is ref_sample
ArmReference == src_sample' = ref_sample

\* One iteration on the reference: arm, call
IterateReference ==
    /\ pc = "try" /\ cur = Reference
    /\ iter < Iterations
    /\ ArmReference
    /\ ref_sample' = Effect(Reference, ref_sample)
    /\ iter' = iter + 1
    /\ UNCHANGED <<behaves, class, pc, cur, tdata, buffers, fixture, signals, profiles, history>>

\* A mistake: the iteration is not counted
IterateUncounted ==
    /\ pc = "try" /\ cur # Reference
    /\ iter < Iterations
    /\ tdata' = Effect(cur, src_sample)
    /\ UNCHANGED <<behaves, class, pc, cur, iter, src_sample, ref_sample, buffers, fixture,
                   signals, profiles, history>>

\* One iteration on an implement: its buffers are armed from src_sample
IterateImplement ==
    /\ pc = "try" /\ cur # Reference
    /\ iter < Iterations
    /\ tdata' = Effect(cur, src_sample)
    /\ iter' = iter + 1
    /\ UNCHANGED <<behaves, class, pc, cur, src_sample, ref_sample, buffers, fixture, signals,
                   profiles, history>>

\* A mistake: the jump leaves in_try_block set
FaultStaysInTry ==
    /\ pc = "try"
    /\ iter < Iterations
    /\ behaves[cur] = "illegal"
    /\ handler = "tester" /\ in_try_block = 1
    /\ IF cur = Reference
       THEN ArmReference /\ UNCHANGED tdata
       ELSE tdata' = src_sample /\ UNCHANGED src_sample
    /\ faults' = faults + 1
    /\ refused' = refused \cup {cur}
    /\ NextFunction
    /\ UNCHANGED <<behaves, class, ref_sample, buffers, fixture, signals, profiles, runs,
                   measured>>

\* A call meets an illegal instruction, after its buffers were armed.  The
\* handler jumps back into OIL_TRY, which resets in_try_block and returns from
\* the check without profiler->end; outside a try block it would abort.
IllegalInstruction ==
    /\ pc = "try"
    /\ iter < Iterations
    /\ behaves[cur] = "illegal"
    /\ handler = "tester" /\ in_try_block = 1
    /\ IF cur = Reference
       THEN ArmReference /\ UNCHANGED tdata
       ELSE tdata' = src_sample /\ UNCHANGED src_sample
    /\ in_try_block' = 0
    /\ faults' = faults + 1
    /\ refused' = refused \cup {cur}
    /\ NextFunction
    /\ UNCHANGED <<behaves, class, ref_sample, buffers, fixture, enable_level, handler, profiles,
                   runs, measured>>

\* All iterations done: OIL_TRY ends, profiler->end gives the average time.
\* What follows for the reference: if it violated nothing, its time is the one
\* to beat.  If it did, min_val stays 0, which no time is below.
JudgeReference(val) ==
    /\ pc = "try" /\ cur = Reference
    /\ iter = Iterations
    /\ in_try_block' = 0
    /\ profiles' = profiles - 1
    /\ IF NoViolation(src_sample, ref_sample)
       THEN /\ min_val' = val
            /\ chosen_impl' = NULL
            /\ measured' = [measured EXCEPT ![cur] = val]
            /\ UNCHANGED refused
       ELSE /\ refused' = refused \cup {cur}
            /\ UNCHANGED <<min_val, chosen_impl, measured>>
    /\ NextFunction
    /\ UNCHANGED <<behaves, class, samples, enable_level, handler, runs, faults>>

\* A mistake: only the result is checked
JudgeWithoutViolation(val) ==
    /\ pc = "try" /\ cur # Reference
    /\ iter = Iterations
    /\ in_try_block' = 0
    /\ profiles' = profiles - 1
    /\ IF CheckResult(ref_sample, tdata)
       THEN /\ measured' = [measured EXCEPT ![cur] = val]
            /\ IF val < min_val
               THEN min_val' = val /\ chosen_impl' = cur
               ELSE UNCHANGED fixture
            /\ UNCHANGED refused
       ELSE /\ refused' = refused \cup {cur}
            /\ UNCHANGED <<min_val, chosen_impl, measured>>
    /\ NextFunction
    /\ UNCHANGED <<behaves, class, samples, enable_level, handler, runs, faults>>

\* A mistake: of equals the last one wins
JudgeLastOfEquals(val) ==
    /\ pc = "try" /\ cur # Reference
    /\ iter = Iterations
    /\ in_try_block' = 0
    /\ profiles' = profiles - 1
    /\ IF NoViolation(src_sample, tdata) /\ CheckResult(ref_sample, tdata)
       THEN /\ measured' = [measured EXCEPT ![cur] = val]
            /\ IF val <= min_val
               THEN min_val' = val /\ chosen_impl' = cur
               ELSE UNCHANGED fixture
            /\ UNCHANGED refused
       ELSE /\ refused' = refused \cup {cur}
            /\ UNCHANGED <<min_val, chosen_impl, measured>>
    /\ NextFunction
    /\ UNCHANGED <<behaves, class, samples, enable_level, handler, runs, faults>>

\* A mistake: without a time to beat, any time is good
JudgeWithoutReference(val) ==
    /\ pc = "try" /\ cur # Reference
    /\ iter = Iterations
    /\ in_try_block' = 0
    /\ profiles' = profiles - 1
    /\ IF NoViolation(src_sample, tdata) /\ CheckResult(ref_sample, tdata)
       THEN /\ measured' = [measured EXCEPT ![cur] = val]
            /\ IF min_val = 0 \/ val < min_val
               THEN min_val' = val /\ chosen_impl' = cur
               ELSE UNCHANGED fixture
            /\ UNCHANGED refused
       ELSE /\ refused' = refused \cup {cur}
            /\ UNCHANGED <<min_val, chosen_impl, measured>>
    /\ NextFunction
    /\ UNCHANGED <<behaves, class, samples, enable_level, handler, runs, faults>>

\* The same for an implement: it must violate nothing, agree with the
\* reference and be strictly faster than the best before it.
JudgeImplement(val) ==
    /\ pc = "try" /\ cur # Reference
    /\ iter = Iterations
    /\ in_try_block' = 0
    /\ profiles' = profiles - 1
    /\ IF NoViolation(src_sample, tdata) /\ CheckResult(ref_sample, tdata)
       THEN /\ measured' = [measured EXCEPT ![cur] = val]
            /\ IF val < min_val
               THEN min_val' = val /\ chosen_impl' = cur
               ELSE UNCHANGED fixture
            /\ UNCHANGED refused
       ELSE /\ refused' = refused \cup {cur}
            /\ UNCHANGED <<min_val, chosen_impl, measured>>
    /\ NextFunction
    /\ UNCHANGED <<behaves, class, samples, enable_level, handler, runs, faults>>

\* The end of _optimize_class: the handler is removed, the buffers are freed,
\* the chosen implement, or else the reference, is activated
FinishOptimize ==
    /\ pc = "teardown"
    /\ pc' = "idle"
    /\ enable_level' = enable_level - 1
    /\ handler' = IF enable_level = 1 THEN "client" ELSE handler
    /\ buffers' = buffers - 3
    /\ IF chosen_impl = NULL THEN Class!ExportRef ELSE Class!Export(chosen_impl)
    /\ UNCHANGED <<behaves, cur, iter, src_sample, ref_sample, tdata, fixture, in_try_block,
                   profiles, history>>

Next ==
    \/ StartOptimize
    \/ IgnoreUnsupported
    \/ BeginProfile
    \/ IterateReference
    \/ IterateImplement
    \/ IllegalInstruction
    \/ \E val \in Times : JudgeReference(val) \/ JudgeImplement(val)
    \/ FinishOptimize

\* The test is one thread of code: a step that can be taken is taken
Spec == Init /\ [][Next]_vars /\ WF_vars(Next)

-----------------------------------------------------------------------------
(* Properties *)

\* The contents of buffers, the fixture, the statics of the fault handler and
\* the phases of a test keep within what _optimize_class gives them: no buffer,
\* handler or profile is given back that was not taken.
TypeOK ==
    /\ behaves \in [0..NImpls -> Behaviours]
    /\ bound \in [Impls -> [impl : Impls, flags : Flags]]
    /\ exported \in 0..NImpls
    /\ pc \in {"idle", "begin", "try", "teardown"}
    /\ cur \in 0..(NImpls + 1) /\ iter \in 0..Iterations
    /\ src_sample \in Buffers /\ ref_sample \in Buffers /\ tdata \in Buffers
    /\ buffers \in Nat
    /\ min_val \in Nat /\ chosen_impl \in Impls \cup {NULL}
    /\ in_try_block \in {0, 1} /\ enable_level \in Nat /\ handler \in {"client", "tester"}
    /\ profiles \in Nat /\ runs \in 0..MaxRuns /\ faults \in Nat
    /\ measured \in [0..NImpls -> Nat]
    /\ refused \subseteq 0..NImpls

\* No test is running and one was
Finished == pc = "idle" /\ runs > 0

\* With a reference that does its work, the function that callers reach after
\* a test asks for nothing the CPU lacks and, in that test, met no illegal
\* instruction, wrote no source and no byte outside its rows, and did not
\* compute something else.
ExportedIsSafe ==
    (Finished /\ exported # Reference /\ behaves[Reference] = "correct") =>
        /\ bound[exported].flags \subseteq CpuFlags
        /\ exported \notin refused
        /\ behaves[exported] \notin {"wrong", "clobbers", "overruns"}

\* The function that callers reach after a test is the fastest of those that
\* passed, the reference among them; of equals, the first.
ExportedIsFastest ==
    (Finished /\ measured[Reference] > 0) =>
        /\ measured[exported] > 0
        /\ \A f \in 0..NImpls : measured[f] > 0 =>
              /\ measured[exported] <= measured[f]
              /\ f < exported => measured[exported] < measured[f]

\* When the reference itself faults or violates its buffers, nothing is judged
\* against it: the class goes back to the reference.
NoChoiceWithoutReference ==
    (Finished /\ Reference \in refused) => exported = Reference

\* An illegal instruction in a tested function is always caught, and one met
\* elsewhere is the client's: the tester handles SIGILL exactly while a test
\* runs, is in its try block exactly while a function runs, and has given
\* everything back when the test ends, whatever faulted during it, but for the
\* data of the profiler, which is not finalized for those that faulted.
FaultsAreCaught ==
    /\ pc = "try" => handler = "tester" /\ in_try_block = 1
    /\ pc # "try" => in_try_block = 0
    /\ pc = "idle" => handler = "client" /\ enable_level = 0 /\ buffers = 0
    /\ profiles = faults + (IF pc = "try" THEN 1 ELSE 0)

\* A test that begins ends, whatever the tested functions do: it visits every
\* implement, gives the handler back and activates something.
TestsEnd == pc # "idle" ~> Finished

-----------------------------------------------------------------------------
(* What the documentation says and the code does not do *)

\* The checker tells "whether the tested function is *correct* enough": a
\* function that writes nothing is not chosen.
DoNothingIsRefused ==
    (Finished /\ exported # Reference /\ behaves[Reference] = "correct") =>
        behaves[exported] # "idle"
=============================================================================
