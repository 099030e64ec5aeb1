--------------------------- MODULE OilTester_proofs ---------------------------
(***************************************************************************)
(* Theorems about the optimization of a class, for any number of           *)
(* implements, iterations and tests, any times and any behaviours.          *)
(***************************************************************************)
EXTENDS OilTester, TLAPS

USE OilTesterAssumption

\* The function that a test would activate if it ended now
Best == IF chosen_impl = NULL THEN Reference ELSE chosen_impl

\* Where the test is, and what was taken for it
Progress ==
    /\ \A i \in Impls : bound[i].impl = i
    /\ pc \in {"begin", "try"} => cur \in 0..NImpls
    /\ pc = "begin" => iter = 0
    /\ pc = "try" /\ cur # Reference => bound[cur].flags \subseteq CpuFlags
    /\ pc # "idle" => handler = "tester" /\ enable_level = 1 /\ buffers = 3
    /\ FaultsAreCaught

\* What the buffers hold while an implement is tested: the last call started
\* from the source sample, which only tests of the reference change
Buffered ==
    /\ pc = "try" /\ cur # Reference /\ iter > 0 => tdata = Effect(cur, src_sample)
    /\ behaves[Reference] = "correct" =>
          /\ src_sample.src # "spoiled" /\ ref_sample.src # "spoiled"
          /\ ref_sample.dest # "wrong"

\* Those measured so far: they were not refused, and min_val is the least of
\* their times, met first by the best function, once the reference has a time
Measured ==
    /\ \A f \in 0..NImpls : measured[f] > 0 =>
          /\ f < cur
          /\ f \notin refused
          /\ f # Reference => bound[f].flags \subseteq CpuFlags
          /\ f # Reference /\ behaves[Reference] = "correct" =>
                behaves[f] \notin {"wrong", "clobbers", "overruns"}
    /\ \A f \in refused : f < cur
    /\ measured[Best] = min_val
    /\ measured[Reference] = 0 => min_val = 0
    /\ min_val = 0 => chosen_impl = NULL
    /\ min_val > 0 =>
          \A f \in 0..NImpls : measured[f] > 0 =>
              min_val <= measured[f] /\ (f < Best => min_val < measured[f])
    /\ Finished => exported = Best

\* The inductive invariant
TesterInv == TypeOK /\ Progress /\ Buffered /\ Measured

-----------------------------------------------------------------------------
(* Lemmas about the helpers *)

\* A call leaves a set of buffers a set of buffers.
LEMMA EffectType ==
    ASSUME NEW f, NEW buf \in Buffers, behaves[f] \in Behaviours
    PROVE  Effect(f, buf) \in Buffers
<1>1. buf.src \in DOMAIN Image
  BY DEF Buffers
<1>2. Image[buf.src] \in {Image[s] : s \in DOMAIN Image}
  BY <1>1
<1>3. "spoiled" \in DOMAIN Image
  BY DEF Image
<1>4. CASE behaves[f] \in {"idle", "wrong", "nan"}
  BY <1>4 DEF Effect, Buffers
<1> DEFINE written == [buf EXCEPT !.dest = Image[buf.src]]
<1>5. written \in Buffers
  BY <1>1, <1>2 DEF Buffers
<1>6. /\ [written EXCEPT !.src = "spoiled"] \in Buffers
      /\ [written EXCEPT !.margin = "spoiled"] \in Buffers
  BY <1>3, <1>5 DEF Buffers
<1>7. CASE behaves[f] = "clobbers"
  BY <1>6, <1>7 DEF Effect
<1>8. CASE behaves[f] = "overruns"
  BY <1>6, <1>8 DEF Effect
<1>9. CASE behaves[f] \in {"correct", "illegal"}
  BY <1>5, <1>9 DEF Effect
<1> QED BY <1>4, <1>7, <1>8, <1>9 DEF Behaviours

\* A correct function leaves its source as it is and writes an image of it.
LEMMA EffectOfCorrect ==
    ASSUME NEW f, NEW buf \in Buffers, behaves[f] = "correct"
    PROVE  Effect(f, buf).src = buf.src /\ Effect(f, buf).dest # "wrong"
<1>1. buf.src \in {"guard", "sample", "spoiled"}
  BY DEF Buffers, Image
<1>2. Image["guard"] # "wrong" /\ Image["sample"] # "wrong" /\ Image["spoiled"] # "wrong"
  BY DEF Image
<1>3. Effect(f, buf) = [buf EXCEPT !.dest = Image[buf.src]]
  BY DEF Effect
<1> QED BY <1>1, <1>2, <1>3 DEF Buffers

\* The checks of an implement turn down what they are there for.
LEMMA ChecksRefuse ==
    ASSUME NEW f, NEW src \in Buffers, NEW ref \in Buffers, behaves[f] \in Behaviours,
           src.src # "spoiled", ref.dest # "wrong",
           NoViolation(src, Effect(f, src)), CheckResult(ref, Effect(f, src))
    PROVE  behaves[f] \notin {"wrong", "clobbers", "overruns"}
<1>1. CASE behaves[f] = "wrong"
  BY <1>1 DEF Effect, CheckResult, Buffers
<1>2. CASE behaves[f] = "clobbers"
  BY <1>2 DEF Effect, NoViolation, Buffers
<1>3. CASE behaves[f] = "overruns"
  BY <1>3 DEF Effect, NoViolation, Buffers
<1> QED BY <1>1, <1>2, <1>3

\* The visitor moves on to a function, or past the last one.
LEMMA NextFunctionType ==
    ASSUME cur \in 0..NImpls, NextFunction
    PROVE  /\ cur' \in 0..(NImpls + 1) /\ iter' \in 0..Iterations
           /\ pc' \in {"begin", "teardown"} /\ iter' = 0
           /\ pc' = "begin" => cur' \in 0..NImpls
  BY DEF NextFunction

\* What is tested, and what would be activated.
LEMMA TestedType ==
    ASSUME TypeOK, Progress
    PROVE  /\ pc \in {"begin", "try"} => cur \in 0..NImpls /\ behaves[cur] \in Behaviours
           /\ pc \in {"begin", "try"} /\ cur # Reference => cur \in Impls
           /\ Best \in 0..NImpls
           /\ Reference \in 0..NImpls /\ behaves[Reference] \in Behaviours
  BY DEF TypeOK, Progress, Best, Impls, Reference

-----------------------------------------------------------------------------
(* Type correctness *)

LEMMA TypeInit == Init => TypeOK
<1> SUFFICES ASSUME Init PROVE TypeOK
  OBVIOUS
<1>1. behaves \in [0..NImpls -> Behaviours]
  BY DEF Init
<1>2. bound \in [Impls -> [impl : Impls, flags : Flags]]
  BY DEF Init
<1>3. Guarded \in Buffers
  BY DEF Guarded, Buffers, Image
<1>4. measured \in [0..NImpls -> Nat]
  BY DEF Init
<1> QED BY <1>1, <1>2, <1>3, <1>4 DEF Init, TypeOK, Reference

LEMMA TypeStep == ASSUME TesterInv, [Next]_vars PROVE TypeOK'
<1> USE DEF TypeOK
<1>0. TypeOK /\ Progress
  BY DEF TesterInv
<1>a. /\ pc \in {"begin", "try"} => cur \in 0..NImpls /\ behaves[cur] \in Behaviours
      /\ pc \in {"begin", "try"} /\ cur # Reference => cur \in Impls
      /\ Reference \in 0..NImpls /\ behaves[Reference] \in Behaviours
  BY <1>0, TestedType
<1>1. CASE StartOptimize
  <2>0. /\ handler \in {"client", "tester"} /\ in_try_block \in {0, 1}
        /\ enable_level \in Nat /\ buffers \in Nat
    BY <1>0
  <2>1. Guarded \in Buffers /\ [Guarded EXCEPT !.src = "sample"] \in Buffers
    BY DEF Guarded, Buffers, Image
  <2>2. measured' \in [0..NImpls -> Nat]
    BY <1>1 DEF StartOptimize
  <2>3. runs \in 0..MaxRuns /\ runs < MaxRuns /\ runs' = runs + 1
    BY <1>0, <1>1 DEF StartOptimize
  <2>4. runs' \in 0..MaxRuns
    BY <2>3
  <2>5. handler' \in {"client", "tester"} /\ in_try_block' \in {0, 1} /\ enable_level' \in Nat
    <3>1. handler' \in {"client", "tester"} /\ in_try_block' \in {0, 1}
      BY <2>0, <1>1 DEF StartOptimize
    <3>2. enable_level' = enable_level + 1
      BY <1>1 DEF StartOptimize
    <3> QED BY <2>0, <3>1, <3>2
  <2>6. cur' \in 0..(NImpls + 1) /\ iter' \in 0..Iterations
    BY <1>1 DEF StartOptimize, Reference
  <2>7. src_sample' \in Buffers /\ ref_sample' \in Buffers /\ tdata' \in Buffers
    BY <1>1, <2>1 DEF StartOptimize
  <2>8. /\ pc' = "begin" /\ buffers' \in Nat /\ min_val' = 0 /\ chosen_impl' = NULL
        /\ refused' = {}
    <3>1. /\ pc' = "begin" /\ buffers' = buffers + 3 /\ min_val' = 0 /\ chosen_impl' = NULL
          /\ refused' = {}
      BY <1>1 DEF StartOptimize
    <3> QED BY <2>0, <3>1
  <2>9. UNCHANGED <<behaves, bound, exported, profiles, faults>>
    BY <1>1 DEF StartOptimize, class
  <2> QED BY <1>0, <2>2, <2>4, <2>5, <2>6, <2>7, <2>8, <2>9
<1>2. CASE IgnoreUnsupported
  <2>1. /\ cur' \in 0..(NImpls + 1) /\ iter' \in 0..Iterations /\ pc' \in {"begin", "teardown"}
        /\ refused' \subseteq 0..NImpls
    BY <1>0, <1>a, <1>2, NextFunctionType DEF IgnoreUnsupported
  <2> QED BY <1>0, <1>2, <2>1 DEF IgnoreUnsupported, class, samples, fixture, signals
<1>3. CASE BeginProfile
  <2>1. pc' = "try" /\ in_try_block' = 1 /\ profiles' = profiles + 1
    BY <1>3 DEF BeginProfile
  <2>2. profiles' \in Nat
    BY <1>0, <2>1
  <2>3. /\ UNCHANGED <<behaves, bound, exported, cur, iter, src_sample, ref_sample, tdata, buffers>>
        /\ UNCHANGED <<min_val, chosen_impl, enable_level, handler, runs, faults, measured, refused>>
    BY <1>3 DEF BeginProfile, class, samples, fixture, history
  <2> QED BY <1>0, <2>1, <2>2, <2>3
<1>4. CASE IterateReference
  <2>1. Effect(Reference, ref_sample) \in Buffers
    BY <1>0, <1>a, EffectType
  <2>2. iter' \in 0..Iterations
    BY <1>0, <1>4 DEF IterateReference
  <2> QED BY <1>0, <1>4, <2>1, <2>2 DEF IterateReference, ArmReference, class, fixture, signals, history
<1>5. CASE IterateImplement
  <2>1. Effect(cur, src_sample) \in Buffers
    BY <1>0, <1>a, <1>5, EffectType DEF IterateImplement
  <2>2. iter' \in 0..Iterations
    BY <1>0, <1>5 DEF IterateImplement
  <2> QED BY <1>0, <1>5, <2>1, <2>2 DEF IterateImplement, class, fixture, signals, history
<1>6. CASE IllegalInstruction
  <2>1. /\ cur' \in 0..(NImpls + 1) /\ iter' \in 0..Iterations /\ pc' \in {"begin", "teardown"}
        /\ refused' \subseteq 0..NImpls
    BY <1>0, <1>a, <1>6, NextFunctionType DEF IllegalInstruction
  <2>2. src_sample' \in Buffers /\ tdata' \in Buffers
    BY <1>0, <1>6 DEF IllegalInstruction, ArmReference
  <2> QED BY <1>0, <1>6, <2>1, <2>2 DEF IllegalInstruction, class, fixture
<1>7. ASSUME NEW val \in Times, JudgeReference(val) \/ JudgeImplement(val)
      PROVE  TypeOK'
  <2>1. pc = "try" /\ NextFunction
    BY <1>7 DEF JudgeReference, JudgeImplement
  <2>2. cur' \in 0..(NImpls + 1) /\ iter' \in 0..Iterations /\ pc' \in {"begin", "teardown"}
    BY <1>a, <2>1, NextFunctionType
  <2>3. profiles > 0 /\ profiles' = profiles - 1
    BY <1>0, <1>7, <2>1 DEF JudgeReference, JudgeImplement, Progress, FaultsAreCaught
  <2>4. refused' \subseteq 0..NImpls /\ measured' \in [0..NImpls -> Nat]
    BY <1>0, <1>a, <1>7, <2>1 DEF JudgeReference, JudgeImplement
  <2>5. min_val' \in Nat /\ chosen_impl' \in Impls \cup {NULL}
    BY <1>0, <1>a, <1>7 DEF JudgeReference, JudgeImplement, fixture
  <2>6. /\ UNCHANGED <<behaves, class, samples, enable_level, handler, runs, faults>>
        /\ in_try_block' = 0
    BY <1>7 DEF JudgeReference, JudgeImplement
  <2> QED BY <1>0, <2>2, <2>3, <2>4, <2>5, <2>6 DEF class, samples
<1>8. CASE FinishOptimize
  <2>1. enable_level = 1 /\ buffers = 3
    BY <1>0, <1>8 DEF FinishOptimize, Progress
  <2>2. bound' = bound /\ exported' \in 0..NImpls
    BY <1>0, <1>8 DEF FinishOptimize, Class!Export, Class!ExportRef, Reference, Impls
  <2> QED BY <1>0, <1>8, <2>1, <2>2 DEF FinishOptimize, fixture, history
<1>9. CASE UNCHANGED vars
  BY <1>0, <1>9 DEF vars
<1> QED BY <1>1, <1>2, <1>3, <1>4, <1>5, <1>6, <1>7, <1>8, <1>9 DEF Next

-----------------------------------------------------------------------------
(* The fault handler, and what is taken and given back *)

LEMMA ProgressInit == Init => Progress
  BY DEF Init, Progress, FaultsAreCaught

LEMMA ProgressStep == ASSUME TesterInv, [Next]_vars PROVE Progress'
<1> USE DEF Progress, FaultsAreCaught
<1>0. TypeOK /\ Progress
  BY DEF TesterInv
<1>1. CASE StartOptimize
  BY <1>0, <1>1 DEF StartOptimize, class, Reference, TypeOK
<1>2. CASE IgnoreUnsupported
  <2>1. cur \in 0..NImpls /\ NextFunction
    BY <1>0, <1>2 DEF IgnoreUnsupported
  <2> QED BY <1>0, <1>2, <2>1, NextFunctionType
             DEF IgnoreUnsupported, class, samples, signals
<1>3. CASE BeginProfile
  BY <1>0, <1>3 DEF BeginProfile, class, samples, history, TypeOK
<1>4. CASE IterateReference \/ IterateImplement
  BY <1>0, <1>4 DEF IterateReference, IterateImplement, class, signals, history
<1>5. CASE IllegalInstruction
  <2>1. cur \in 0..NImpls /\ NextFunction
    BY <1>0, <1>5 DEF IllegalInstruction
  <2> QED BY <1>0, <1>5, <2>1, NextFunctionType DEF IllegalInstruction, class, TypeOK
<1>6. ASSUME NEW val \in Times, JudgeReference(val) \/ JudgeImplement(val)
      PROVE  Progress'
  <2>1. pc = "try" /\ NextFunction
    BY <1>6 DEF JudgeReference, JudgeImplement
  <2>2. /\ UNCHANGED <<behaves, class, samples, enable_level, handler, runs, faults>>
        /\ in_try_block' = 0 /\ profiles' = profiles - 1
    BY <1>6 DEF JudgeReference, JudgeImplement
  <2> QED BY <1>0, <2>1, <2>2, NextFunctionType DEF class, samples, TypeOK
<1>7. CASE FinishOptimize
  BY <1>0, <1>7 DEF FinishOptimize, Class!Export, Class!ExportRef, history
<1>8. CASE UNCHANGED vars
  BY <1>0, <1>8 DEF vars
<1> QED BY <1>1, <1>2, <1>3, <1>4, <1>5, <1>6, <1>7, <1>8 DEF Next

-----------------------------------------------------------------------------
(* The contents of the buffers *)

LEMMA BufferedInit == Init => Buffered
  BY DEF Init, Buffered, Guarded

LEMMA BufferedStep == ASSUME TesterInv, [Next]_vars PROVE Buffered'
<1>0. TypeOK /\ Progress /\ Buffered
  BY DEF TesterInv
<1>1. CASE StartOptimize
  BY <1>1 DEF StartOptimize, Buffered, Guarded
<1>2. CASE IgnoreUnsupported
  BY <1>0, <1>2 DEF IgnoreUnsupported, NextFunction, Buffered, samples
<1>3. CASE BeginProfile
  <2>1. iter' = 0
    BY <1>0, <1>3 DEF BeginProfile, Progress
  <2> QED BY <1>0, <1>3, <2>1 DEF BeginProfile, Buffered, samples
<1>4. CASE IterateReference
  <2>1. behaves[Reference] = "correct" =>
           /\ Effect(Reference, ref_sample).src = ref_sample.src
           /\ Effect(Reference, ref_sample).dest # "wrong"
    BY <1>0, EffectOfCorrect DEF TypeOK
  <2> QED BY <1>0, <1>4, <2>1 DEF IterateReference, ArmReference, Buffered
<1>5. CASE IterateImplement
  <2>1. tdata' = Effect(cur, src_sample) /\ UNCHANGED <<behaves, cur, src_sample, ref_sample>>
    BY <1>5 DEF IterateImplement
  <2>2. Effect(cur, src_sample)' = Effect(cur, src_sample)
    BY <2>1 DEF Effect
  <2> QED BY <1>0, <2>1, <2>2 DEF Buffered
<1>6. CASE IllegalInstruction
  BY <1>0, <1>6 DEF IllegalInstruction, NextFunction, ArmReference, Buffered
<1>7. ASSUME NEW val \in Times, JudgeReference(val) \/ JudgeImplement(val)
      PROVE  Buffered'
  <2>1. NextFunction /\ UNCHANGED <<behaves, samples>>
    BY <1>7 DEF JudgeReference, JudgeImplement
  <2> QED BY <1>0, <2>1 DEF NextFunction, Buffered, samples
<1>8. CASE FinishOptimize
  BY <1>0, <1>8 DEF FinishOptimize, Buffered
<1>9. CASE UNCHANGED vars
  BY <1>0, <1>9 DEF vars, Buffered, Effect
<1> QED BY <1>1, <1>2, <1>3, <1>4, <1>5, <1>6, <1>7, <1>8, <1>9 DEF Next

-----------------------------------------------------------------------------
(* The measurements, and the best of them *)

LEMMA MeasuredInit == Init => Measured
  BY DEF Init, Measured, Best, Finished, Reference

\* A step that judges nobody: the test goes on, and may refuse the function it
\* is at.
LEMMA MeasuredKept ==
    ASSUME TypeOK, Measured, cur \in 0..NImpls,
           UNCHANGED <<behaves, bound, fixture, measured>>,
           cur' \in {cur, cur + 1}, pc' # "idle",
           refused' = refused \/ (refused' = refused \cup {cur} /\ cur' = cur + 1)
    PROVE  Measured'
<1>1. \A f \in 0..NImpls : measured[f] > 0 => f < cur /\ f \notin refused
  BY DEF Measured
<1>2. \A f \in 0..NImpls : measured'[f] > 0 => f < cur' /\ f \notin refused'
  BY <1>1
<1>3. \A f \in refused' : f < cur'
  <2>1. \A f \in refused : f < cur /\ f \in Int
    BY DEF Measured, TypeOK
  <2> QED BY <2>1
<1>4. Best' = Best
  BY DEF Best, fixture
<1>5. ~Finished'
  BY DEF Finished
<1> QED BY <1>2, <1>3, <1>4, <1>5 DEF Measured, fixture

\* The reference is measured before all others.
LEMMA MeasuredReference ==
    ASSUME TesterInv, NEW val \in Times, JudgeReference(val)
    PROVE  Measured'
<1>0. TypeOK /\ Progress /\ Measured
  BY DEF TesterInv
<1>1. pc = "try" /\ cur = 0 /\ NextFunction /\ UNCHANGED <<behaves, bound>>
  BY DEF JudgeReference, Reference, class
<1>2. cur' = 1 /\ pc' # "idle"
  BY <1>1 DEF NextFunction
<1>3. \A f \in 0..NImpls : measured[f] = 0
  BY <1>0, <1>1 DEF Measured, TypeOK
<1>4. refused = {}
  BY <1>0, <1>1 DEF Measured, TypeOK
<1>5. chosen_impl = NULL /\ min_val = 0
  BY <1>0, <1>3 DEF Measured, Reference, TypeOK
<1>6. val \in Nat /\ val > 0
  OBVIOUS
<1>7. CASE NoViolation(src_sample, ref_sample)
  <2>1. /\ min_val' = val /\ chosen_impl' = NULL /\ refused' = {}
        /\ measured' = [measured EXCEPT ![0] = val]
    BY <1>1, <1>4, <1>7 DEF JudgeReference
  <2>2. measured'[0] = val /\ \A f \in 0..NImpls : f # 0 => measured'[f] = 0
    BY <1>0, <1>3, <2>1 DEF TypeOK
  <2>3. Best' = 0
    BY <2>1 DEF Best, Reference
  <2> QED BY <1>2, <1>6, <2>1, <2>2, <2>3 DEF Measured, Finished, Reference
<1>8. CASE ~NoViolation(src_sample, ref_sample)
  <2>1. /\ min_val' = 0 /\ chosen_impl' = NULL /\ refused' = {0}
        /\ measured' = measured
    BY <1>1, <1>4, <1>5, <1>8 DEF JudgeReference
  <2>2. Best' = 0
    BY <2>1 DEF Best, Reference
  <2> QED BY <1>2, <1>3, <2>1, <2>2 DEF Measured, Finished, Reference
<1> QED BY <1>7, <1>8

\* An implement that passes is the best one if it is strictly faster than the
\* best before it.
LEMMA MeasuredImplement ==
    ASSUME TesterInv, NEW val \in Times, JudgeImplement(val)
    PROVE  Measured'
<1>0. TypeOK /\ Progress /\ Buffered /\ Measured
  BY DEF TesterInv
<1>1. /\ pc = "try" /\ cur \in Impls /\ cur # Reference /\ iter = Iterations /\ NextFunction
      /\ UNCHANGED <<behaves, bound>>
  BY <1>0, TestedType DEF JudgeImplement, class
<1>2. cur' = cur + 1 /\ pc' # "idle"
  BY <1>1 DEF NextFunction
<1>3. cur \in 0..NImpls /\ cur \in Int /\ cur > 0
  BY <1>1 DEF Impls
<1>4. CASE ~(NoViolation(src_sample, tdata) /\ CheckResult(ref_sample, tdata))
  <2>1. refused' = refused \cup {cur} /\ UNCHANGED <<fixture, measured>>
    BY <1>4 DEF JudgeImplement, fixture
  <2> QED BY <1>0, <1>1, <1>2, <1>3, <2>1, MeasuredKept
<1>5. CASE NoViolation(src_sample, tdata) /\ CheckResult(ref_sample, tdata)
  <2>1. measured' = [measured EXCEPT ![cur] = val] /\ refused' = refused
    BY <1>5 DEF JudgeImplement
  <2>2. /\ measured'[cur] = val
        /\ \A f \in 0..NImpls : f # cur => measured'[f] = measured[f]
    BY <1>0, <1>3, <2>1 DEF TypeOK
  <2>3. val \in Nat /\ val > 0
    OBVIOUS
  <2>4. bound[cur].flags \subseteq CpuFlags
    BY <1>0, <1>1 DEF Progress
  <2>5. behaves[Reference] = "correct" => behaves[cur] \notin {"wrong", "clobbers", "overruns"}
    <3> SUFFICES ASSUME behaves[Reference] = "correct"
                 PROVE  behaves[cur] \notin {"wrong", "clobbers", "overruns"}
      OBVIOUS
    <3>1. tdata = Effect(cur, src_sample)
      BY <1>0, <1>1 DEF Buffered
    <3>2. src_sample.src # "spoiled" /\ ref_sample.dest # "wrong"
      BY <1>0 DEF Buffered
    <3>3. src_sample \in Buffers /\ ref_sample \in Buffers /\ behaves[cur] \in Behaviours
      BY <1>0, <1>1, TestedType DEF TypeOK
    <3> QED BY <1>5, <3>1, <3>2, <3>3, ChecksRefuse
  <2>6. cur \notin refused
    BY <1>0 DEF Measured, TypeOK
  <2>7. \A f \in 0..NImpls : measured'[f] > 0 =>
          /\ f < cur'
          /\ f \notin refused'
          /\ f # Reference => bound'[f].flags \subseteq CpuFlags
          /\ f # Reference /\ behaves'[Reference] = "correct" =>
                behaves'[f] \notin {"wrong", "clobbers", "overruns"}
    BY <1>0, <1>1, <1>2, <1>3, <2>1, <2>2, <2>4, <2>5, <2>6 DEF Measured
  <2>8. \A f \in refused' : f < cur'
    BY <1>0, <1>2, <1>3, <2>1 DEF Measured, TypeOK
  <2>9. measured'[Reference] = measured[Reference]
    BY <1>0, <1>1, <2>2, TestedType
  <2>10. min_val \in Nat /\ Best \in 0..NImpls /\ \A f \in 0..NImpls : measured[f] \in Nat
    BY <1>0, TestedType DEF TypeOK
  <2>11. CASE val < min_val
    <3>1. min_val' = val /\ Best' = cur /\ chosen_impl' = cur
      BY <1>1, <1>5, <2>11 DEF JudgeImplement, Best
    <3>2. \A f \in 0..NImpls : measured[f] > 0 => val < measured[f]
      BY <1>0, <2>3, <2>10, <2>11 DEF Measured
    <3>3. \A f \in 0..NImpls : measured'[f] > 0 =>
              min_val' <= measured'[f] /\ (f < Best' => min_val' < measured'[f])
      <4>1. \A f \in 0..NImpls : measured'[f] > 0 /\ f # cur => val < measured'[f]
        BY <2>2, <3>2
      <4>2. \A f \in 0..NImpls : measured'[f] > 0 => val <= measured'[f]
        BY <2>2, <2>3, <2>10, <4>1
      <4> QED BY <1>3, <3>1, <4>1, <4>2
    <3>4. min_val' # 0 /\ measured'[Best'] = min_val'
      BY <2>2, <2>3, <3>1
    <3>5. measured[Reference] # 0
      BY <1>0, <2>3, <2>10, <2>11 DEF Measured
    <3> QED BY <1>2, <2>7, <2>8, <2>9, <3>3, <3>4, <3>5 DEF Measured, Finished
  <2>12. CASE ~(val < min_val)
    <3>1. min_val' = min_val /\ chosen_impl' = chosen_impl /\ Best' = Best
      BY <1>5, <2>12 DEF JudgeImplement, fixture, Best
    <3>2. Best # cur
      <4>1. CASE Best = Reference
        BY <1>1, <4>1
      <4>2. CASE Best # Reference
        <5>1. measured[Best] > 0
          BY <1>0, <2>10, <4>2 DEF Measured, Best
        <5> QED BY <1>0, <1>3, <2>10, <5>1 DEF Measured
      <4> QED BY <4>1, <4>2
    <3>3. measured'[Best'] = min_val'
      BY <1>0, <2>2, <2>10, <3>1, <3>2 DEF Measured
    <3>4. min_val > 0 => Best < cur
      BY <1>0, <1>3, <2>10 DEF Measured
    <3>5. min_val' > 0 => \A f \in 0..NImpls : measured'[f] > 0 =>
              min_val' <= measured'[f] /\ (f < Best' => min_val' < measured'[f])
      BY <1>0, <1>3, <2>2, <2>3, <2>10, <2>12, <3>1, <3>4 DEF Measured
    <3> QED BY <1>0, <1>2, <2>7, <2>8, <2>9, <3>1, <3>3, <3>5 DEF Measured, Finished
  <2> QED BY <2>11, <2>12
<1> QED BY <1>4, <1>5

LEMMA MeasuredStep == ASSUME TesterInv, [Next]_vars PROVE Measured'
<1>0. TypeOK /\ Progress /\ Measured
  BY DEF TesterInv
<1>1. CASE StartOptimize
  <2>1. /\ \A f \in 0..NImpls : measured'[f] = 0
        /\ refused' = {} /\ min_val' = 0 /\ chosen_impl' = NULL /\ pc' = "begin"
    BY <1>1 DEF StartOptimize
  <2> QED BY <2>1 DEF Measured, Best, Finished, Reference
<1>2. CASE IgnoreUnsupported
  BY <1>0, <1>2, MeasuredKept, TestedType DEF IgnoreUnsupported, NextFunction, class, fixture
<1>3. CASE BeginProfile
  BY <1>0, <1>3, MeasuredKept, TestedType DEF BeginProfile, class, fixture, history
<1>4. CASE IterateReference \/ IterateImplement
  BY <1>0, <1>4, MeasuredKept, TestedType
     DEF IterateReference, IterateImplement, class, fixture, history
<1>5. CASE IllegalInstruction
  BY <1>0, <1>5, MeasuredKept, TestedType DEF IllegalInstruction, NextFunction, class, fixture
<1>6. ASSUME NEW val \in Times, JudgeReference(val) \/ JudgeImplement(val)
      PROVE  Measured'
  BY <1>6, MeasuredReference, MeasuredImplement
<1>7. CASE FinishOptimize
  <2>1. UNCHANGED <<behaves, bound, cur, fixture, measured, refused>>
    BY <1>7 DEF FinishOptimize, history, Class!Export, Class!ExportRef
  <2>2. Best' = Best
    BY <2>1 DEF Best, fixture
  <2>3. exported' = Best
    BY <1>0, <1>7 DEF FinishOptimize, Class!Export, Class!ExportRef, Best, Progress, TypeOK
  <2> QED BY <1>0, <2>1, <2>2, <2>3 DEF Measured, fixture
<1>8. CASE UNCHANGED vars
  BY <1>0, <1>8 DEF vars, Measured, Best, Finished
<1> QED BY <1>1, <1>2, <1>3, <1>4, <1>5, <1>6, <1>7, <1>8 DEF Next

-----------------------------------------------------------------------------
(* The theorems *)

\* However its functions behave, a test keeps the invariant that the safety of
\* its choice and of its fault handler rests on.
THEOREM TesterInvariance == Spec => []TesterInv
<1>1. Init => TesterInv
  BY TypeInit, ProgressInit, BufferedInit, MeasuredInit DEF TesterInv
<1>2. TesterInv /\ [Next]_vars => TesterInv'
  BY TypeStep, ProgressStep, BufferedStep, MeasuredStep DEF TesterInv
<1> QED BY <1>1, <1>2, PTL DEF Spec

\* The buffers, the fixture and the statics of the fault handler keep their
\* types: nothing is given back by _optimize_class that was not taken.
THEOREM TesterTypeCorrect == Spec => []TypeOK
<1>1. TesterInv => TypeOK
  BY DEF TesterInv
<1> QED BY <1>1, TesterInvariance, PTL

\* The handler of SIGILL is the tester's exactly while a test runs, the try
\* block is entered and left in pairs, and only the profiler data of faulting
\* functions is lost.
THEOREM FaultsCaught == Spec => []FaultsAreCaught
<1>1. TesterInv => FaultsAreCaught
  BY DEF TesterInv, Progress
<1> QED BY <1>1, TesterInvariance, PTL

\* Beside a correct reference, what a test activates can run on this CPU, was
\* not refused, and computes no wrong result outside of or over its arrays.
THEOREM ChoiceIsSafe == Spec => []ExportedIsSafe
<1>1. TesterInv => ExportedIsSafe
  <2> SUFFICES ASSUME TesterInv, Finished, exported # Reference,
                      behaves[Reference] = "correct"
               PROVE  /\ bound[exported].flags \subseteq CpuFlags
                      /\ exported \notin refused
                      /\ behaves[exported] \notin {"wrong", "clobbers", "overruns"}
    BY DEF ExportedIsSafe
  <2>1. TypeOK /\ Progress /\ Measured
    BY DEF TesterInv
  <2>2. exported = Best /\ Best \in 0..NImpls /\ chosen_impl # NULL
    BY <2>1, TestedType DEF Measured, Best
  <2>3. measured[exported] > 0
    BY <2>1, <2>2 DEF Measured, TypeOK
  <2> QED BY <2>1, <2>2, <2>3 DEF Measured
<1> QED BY <1>1, TesterInvariance, PTL

\* A test activates the fastest of the functions that passed, the reference
\* among them, and of equals the first.
THEOREM ChoiceIsFastest == Spec => []ExportedIsFastest
<1>1. TesterInv => ExportedIsFastest
  <2> SUFFICES ASSUME TesterInv, Finished, measured[Reference] > 0
               PROVE  /\ measured[exported] > 0
                      /\ \A f \in 0..NImpls : measured[f] > 0 =>
                            /\ measured[exported] <= measured[f]
                            /\ f < exported => measured[exported] < measured[f]
    BY DEF ExportedIsFastest
  <2>1. TypeOK /\ Progress /\ Measured
    BY DEF TesterInv
  <2>2. exported = Best /\ measured[Best] = min_val /\ min_val \in Nat
    BY <2>1 DEF Measured, TypeOK
  <2>3. min_val > 0
    <3>1. CASE chosen_impl = NULL
      BY <2>2, <3>1 DEF Best
    <3>2. CASE chosen_impl # NULL
      BY <2>1, <2>2, <3>2 DEF Measured
    <3> QED BY <3>1, <3>2
  <2> QED BY <2>1, <2>2, <2>3 DEF Measured
<1> QED BY <1>1, TesterInvariance, PTL

\* A class whose reference was turned down goes back to its reference.
THEOREM NothingWithoutReference == Spec => []NoChoiceWithoutReference
<1>1. TesterInv => NoChoiceWithoutReference
  <2> SUFFICES ASSUME TesterInv, Finished, Reference \in refused
               PROVE  exported = Reference
    BY DEF NoChoiceWithoutReference
  <2>1. TypeOK /\ Progress /\ Measured
    BY DEF TesterInv
  <2>2. measured[Reference] = 0
    BY <2>1, TestedType DEF Measured, TypeOK
  <2> QED BY <2>1, <2>2 DEF Measured, Best
<1> QED BY <1>1, TesterInvariance, PTL
=============================================================================
