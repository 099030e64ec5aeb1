----------------------------- MODULE OilProfiler -----------------------------
(***************************************************************************)
(* The default profiler (oiltest/oilprofiler.c) and the default timer      *)
(* (oiltest/oilutil.c).  A check arms the profiler, measures as many calls *)
(* of the tested function as there are iterations and asks for their       *)
(* average; a call that meets an illegal instruction leaves the check for  *)
(* good.  Times are numbers of nanoseconds, as the clock gives them.        *)
(***************************************************************************)
EXTENDS Integers, Sequences

CONSTANTS
    Giga,         \* nanoseconds in a second: 10^9 in the world
    Precise,      \* oil_timer->precise, in nanoseconds
    Iterations,   \* numbers of iterations a test may ask for
    Starts,       \* tv_nsec of the clock when a call of the function begins
    Durations,    \* how long a call may take
    NULL          \* no average is known

ASSUME OilProfilerAssumption ==
    /\ Giga \in Nat \ {0} /\ Precise \in Nat \ {0}
    /\ Iterations \subseteq Nat
    /\ Starts \subseteq 0..(Giga - 1) /\ Durations \subseteq Nat
    /\ NULL \notin Int \X Int

VARIABLES
    phase,        \* "idle", "armed", "running" (between start and stop), "ending", "crashed"
    iterations,   \* _profiler_data.iterations: the entries allocated for the histogram
    hist,         \* hist_time and hist_count, up to hist_n
    total,        \* _profiler_data.total
    start,        \* tv_nsec of the first timespec of the timer
    sum,          \* the local of oil_profiler_end
    average,      \* sum and n of what oil_profiler_end returned, or NULL
    stops,        \* the calls measured since the profiler was armed
    truth,        \* history: how long they took
    dropped       \* history: whether oil_profiler_end dropped an entry

data == <<iterations, hist, total, start>>
vars == <<phase, iterations, hist, total, start, sum, average, stops, truth, dropped>>

Entry == [time : Int, count : Nat]

-----------------------------------------------------------------------------
\* oil_timer_elapsed_default for a call that lasts d.  Seconds are multiplied by
\* 10^9 where nanoseconds are divided by it: in a result in seconds, each
\* second that begins between start and stop counts for 10^9.
Elapsed(s, d) ==
    LET sec == (s + d) \div Giga
        nsec == (s + d) % Giga
    IN sec * Giga * Giga + (nsec - s)

Distance(a, b) == IF a < b THEN b - a ELSE a - b

\* A mistake: the sign of the difference is not dropped
NearIfLess(i, elapsed) == elapsed - hist[i].time < Precise

\* Whether a measurement counts as one of the i-th entry
Near(i, elapsed) == Distance(elapsed, hist[i].time) < Precise

\* A mistake: the search goes on behind the entry that was found, and reaches
\* the end
RecordedWithoutBreak(elapsed) ==
    Append([i \in DOMAIN hist |-> [hist[i] EXCEPT !.count = IF Near(i, elapsed) THEN @ + 1 ELSE @]],
           [time |-> elapsed, count |-> 1])

\* The histogram with one measurement more: the first near entry counts it, or
\* it gets an entry of its own
Recorded(elapsed) ==
    LET near == {i \in DOMAIN hist : Near(i, elapsed)}
        i == CHOOSE j \in near : \A k \in near : j <= k
    IN IF near = {} THEN Append(hist, [time |-> elapsed, count |-> 1])
       ELSE [hist EXCEPT ![i].count = @ + 1]

Counted(h) == {i \in DOMAIN h : h[i].count > 0}

\* max_i: the first of the longest entries that are counted
MaxIndex ==
    CHOOSE i \in Counted(hist) : \A j \in Counted(hist) :
        hist[j].time < hist[i].time \/ (hist[j].time = hist[i].time /\ i <= j)

\* What a loop over n entries adds up, w[i] for the i-th
AddUp(n, w) ==
    LET t[i \in 0..n] == IF i = 0 THEN 0 ELSE t[i - 1] + w[i]
    IN  t[n]

\* What a pass over the histogram adds up: the measurements that are counted,
\* their times and the squares of these
N == AddUp(Len(hist), [i \in DOMAIN hist |-> hist[i].count])
Sum == AddUp(Len(hist), [i \in DOMAIN hist |-> hist[i].time * hist[i].count])
S2 == AddUp(Len(hist), [i \in DOMAIN hist |-> hist[i].time * hist[i].time * hist[i].count])

\* A mistake: off < 4.0
DropsWithin(s) ==
    LET n == N
        above == hist[MaxIndex].time * n - s
        radicand == n * S2 - s * s + n * n * n * Giga * Giga
    IN /\ radicand >= 0
       /\ above > 0 => above * above * (n - 1) * (n - 1) < 16 * n * radicand

\* off > 4.0, for a sum s.  Multiplied by n, the radicand is n * S2 - s^2 + n^3
\* square seconds.  Of a negative one the root is no number, and no number is
\* not greater than 4; with n = 1 the deviation is divided by zero.
Drops(s) ==
    LET n == N
        above == hist[MaxIndex].time * n - s
        radicand == n * S2 - s * s + n * n * n * Giga * Giga
    IN /\ n > 1 /\ above > 0 /\ radicand >= 0
       /\ above * above * (n - 1) * (n - 1) > 16 * n * radicand

-----------------------------------------------------------------------------
Init ==
    /\ phase = "idle"
    /\ iterations = 0 /\ hist = <<>> /\ total = 0 /\ start = 0
    /\ sum = 0 /\ average = NULL
    /\ stops = 0 /\ truth = 0 /\ dropped = FALSE

\* Data that a faulting call left behind is forgotten
oil_profiler_begin(n) ==
    /\ phase = "idle"
    /\ phase' = "armed"
    /\ iterations' = n
    /\ hist' = <<>> /\ total' = 0 /\ start' = 0
    /\ average' = NULL /\ stops' = 0 /\ truth' = 0 /\ dropped' = FALSE
    /\ UNCHANGED sum

\* The marshal functions of a check start and stop the profiler once around
\* each of its calls
oil_profiler_start(nsec) ==
    /\ phase = "armed"
    /\ stops < iterations
    /\ phase' = "running"
    /\ start' = nsec
    /\ UNCHANGED <<iterations, hist, total, sum, average, stops, truth, dropped>>

oil_profiler_stop(d) ==
    LET elapsed == Elapsed(start, d) IN
    /\ phase = "running"
    /\ phase' = "armed"
    /\ total' = total + elapsed
    /\ hist' = Recorded(elapsed)
    /\ stops' = stops + 1
    /\ truth' = truth + d
    /\ UNCHANGED <<iterations, start, sum, average, dropped>>

\* An illegal instruction: the check is left, profiler->end is not called
Fault ==
    /\ phase = "running"
    /\ phase' = "idle"
    /\ UNCHANGED <<data, sum, average, stops, truth, dropped>>

\* oil_profiler_end, up to its loop
oil_profiler_end ==
    /\ phase = "armed"
    /\ stops = iterations
    /\ phase' = "ending"
    /\ sum' = 0
    /\ UNCHANGED <<data, average, stops, truth, dropped>>

\* Without an entry that is counted, the loop reads the one before the first:
\* with no iterations there is no array, and the process is gone
PassOverNothing ==
    /\ phase = "ending"
    /\ Counted(hist) = {}
    /\ phase' = "crashed"
    /\ UNCHANGED <<data, sum, average, stops, truth, dropped>>

\* A mistake: the sum is that of this pass, and the entry stays counted
PassWithoutDrop ==
    /\ phase = "ending"
    /\ Counted(hist) # {}
    /\ sum' = Sum
    /\ Drops(Sum)
    /\ dropped' = TRUE
    /\ UNCHANGED <<phase, data, average, stops, truth>>

\* A pass that drops the longest entry.  The sum is that of all passes so far.
PassAndDrop ==
    /\ phase = "ending"
    /\ Counted(hist) # {}
    /\ sum' = sum + Sum
    /\ Drops(sum + Sum)
    /\ hist' = [hist EXCEPT ![MaxIndex].count = 0]
    /\ dropped' = TRUE
    /\ UNCHANGED <<phase, iterations, total, start, average, stops, truth>>

\* The last pass, and the rest of oil_profiler_end
PassAndReturn ==
    /\ phase = "ending"
    /\ Counted(hist) # {}
    /\ ~ Drops(sum + Sum)
    /\ average' = <<sum + Sum, N>>
    /\ phase' = "idle"
    /\ sum' = 0
    /\ UNCHANGED <<data, stops, truth, dropped>>

Pass == PassOverNothing \/ PassAndDrop \/ PassAndReturn

Next ==
    \/ \E n \in Iterations : oil_profiler_begin(n)
    \/ \E nsec \in Starts : oil_profiler_start(nsec)
    \/ \E d \in Durations : oil_profiler_stop(d)
    \/ Fault
    \/ oil_profiler_end
    \/ Pass

\* The loop of oil_profiler_end runs on; nothing is assumed of its callers
Spec == Init /\ [][Next]_vars /\ WF_vars(Pass)

-----------------------------------------------------------------------------
(* Properties *)

\* Every measurement is counted once, unless its entry was dropped, and the
\* histogram has no more entries than oil_profiler_begin allocated: the arrays
\* are written at hist_n, and nothing but the number of calls bounds it.
HistogramFits ==
    /\ phase \in {"idle", "armed", "running", "ending", "crashed"}
    /\ hist \in Seq(Entry) /\ total \in Int /\ sum \in Int /\ start \in 0..(Giga - 1)
    /\ Len(hist) <= iterations
    /\ N <= stops
    /\ ~dropped => N = stops /\ Counted(hist) = DOMAIN hist

\* The average is taken over a histogram and not over the measurements: each is
\* counted as one that differs by less than the precision of the timer.  So
\* when nothing was dropped, the average that is returned, by which implements
\* are compared, differs by less than that from the average measured.
AverageIsClose ==
    average # NULL /\ ~dropped =>
        /\ average[2] = stops
        /\ Distance(average[1], total) < Precise * stops

\* Whatever is dropped, the loop never drops the last measurement: it never
\* divides by zero, nor reads the entry before the first, unless no iteration
\* was asked for.
OneIsKept == phase \in {"ending", "crashed"} /\ iterations > 0 => Counted(hist) # {}

\* The loop that drops measurements ends, whatever was measured.
EndReturns == phase = "ending" ~> phase \in {"idle", "crashed"}

-----------------------------------------------------------------------------
(* What the documentation says and the code does not do *)

\* oil_profiler_end returns the "average time of the tested function spent, in
\* seconds", as precisely as the timer measures it.
AverageInSeconds ==
    average # NULL =>
        Distance(average[1] * stops, truth * average[2]) < Precise * stops * average[2]
=============================================================================
