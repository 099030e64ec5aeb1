---------------------------- MODULE OilProfiler_proofs ----------------------------
(***************************************************************************)
(* Theorems about the histogram of the profiler, for any precision, number *)
(* of iterations and durations.                                             *)
(***************************************************************************)
EXTENDS OilProfiler, SequenceTheorems, WellFoundedInduction, TLAPS

USE OilProfilerAssumption

\* The times of any two entries differ by at least the precision of the timer
Apart(h) ==
    \A i, j \in 1..Len(h) : i # j => Distance(h[i].time, h[j].time) >= Precise

\* The arrays of the histogram are never written beyond what was allocated
HistogramIsBounded == Len(hist) <= iterations

EntriesAreApart == Apart(hist)

\* The calls that are measured, and the phase they are in
Measured ==
    /\ iterations \in Nat /\ stops \in Nat /\ stops <= iterations
    /\ start \in Int
    /\ phase = "running" => stops < iterations

\* The inductive invariant: each measurement made at most one entry
ProfilerInv ==
    /\ Measured
    /\ hist \in Seq(Entry) /\ Len(hist) <= stops
    /\ EntriesAreApart

\* A distance is the same from both ends.
LEMMA DistanceIsSymmetric ==
    ASSUME NEW a \in Int, NEW b \in Int
    PROVE  Distance(a, b) = Distance(b, a) /\ Distance(a, b) \in Nat
  BY DEF Distance

\* What is measured is a number of ticks, of 32 bits.
LEMMA ElapsedIsANumber ==
    ASSUME NEW s \in Int, NEW d \in Nat
    PROVE  Elapsed(s, d) \in Int
<1>1. Giga \in Int /\ Giga > 0 /\ s + d \in Int
  OBVIOUS
<1>2. (s + d) \div Giga \in Int /\ (s + d) % Giga \in Int
  BY <1>1
<1> DEFINE sec == (s + d) \div Giga
           nsec == (s + d) % Giga
<1>3. Elapsed(s, d) = sec * Giga * Giga + (nsec - s)
  BY DEF Elapsed
<1>4. sec \in Int /\ nsec \in Int
  BY <1>2
<1> HIDE DEF sec, nsec
<1>5. sec * Giga \in Int
  BY <1>1, <1>4
<1>6. sec * Giga * Giga \in Int
  BY <1>1, <1>5
<1> QED BY <1>3, <1>4, <1>6

\* A count changes, and no time and no length.
LEMMA CountChanges ==
    ASSUME NEW h \in Seq(Entry), NEW i \in 1..Len(h), NEW n \in Nat, Apart(h)
    PROVE  LET g == [h EXCEPT ![i].count = n]
           IN g \in Seq(Entry) /\ Len(g) = Len(h) /\ Apart(g)
<1> DEFINE g == [h EXCEPT ![i].count = n]
<1>1. Len(h) \in Nat /\ DOMAIN h = 1..Len(h) /\ \A j \in 1..Len(h) : h[j] \in Entry
  BY LenProperties
<1>2. g = [h EXCEPT ![i] = [h[i] EXCEPT !.count = n]]
  OBVIOUS
<1>3. [h[i] EXCEPT !.count = n] \in Entry
  BY <1>1 DEF Entry
<1>4. g \in Seq(Entry) /\ Len(g) = Len(h)
  BY <1>2, <1>3, ExceptSeq
<1>5. \A j \in 1..Len(h) : g[j].time = h[j].time
  BY <1>1, <1>2 DEF Entry
<1> QED BY <1>4, <1>5 DEF Apart

\* The code takes the first near entry: there is a first one.
LEMMA SmallestOf ==
    ASSUME NEW S \in SUBSET Nat, S # {}
    PROVE  \E j \in S : \A k \in S : j <= k
<1> DEFINE Less == OpToRel(<, Nat)
<1>1. IsWellFoundedOn(Less, Nat)
  BY NatLessThanWellFounded
<1>2. \A j, k \in Nat : j < k => <<j, k>> \in Less
  BY DEF OpToRel
<1> HIDE DEF Less
<1>3. PICK j \in S : \A k \in S : ~(<<k, j>> \in Less)
  BY <1>1, WFMin
<1>4. \A k \in S : ~(k < j)
  BY <1>2, <1>3
<1> QED BY <1>4

\* A measurement adds at most one entry, one that is apart from the others.
LEMMA RecordedFits ==
    ASSUME NEW elapsed \in Int, hist \in Seq(Entry), EntriesAreApart
    PROVE  /\ Recorded(elapsed) \in Seq(Entry) /\ Apart(Recorded(elapsed))
           /\ Len(Recorded(elapsed)) <= Len(hist) + 1
<1> DEFINE near == {i \in DOMAIN hist : Near(i, elapsed)}
           i == CHOOSE j \in near : \A k \in near : j <= k
           e == [time |-> elapsed, count |-> 1]
<1>1. /\ Len(hist) \in Nat /\ DOMAIN hist = 1..Len(hist)
      /\ \A j \in 1..Len(hist) : hist[j] \in Entry
  BY LenProperties
<1>2. CASE near = {}
  <2>1. Recorded(elapsed) = Append(hist, e)
    BY <1>2 DEF Recorded
  <2>2. e \in Entry
    BY DEF Entry
  <2>3. /\ Append(hist, e) \in Seq(Entry) /\ Len(Append(hist, e)) = Len(hist) + 1
        /\ \A j \in 1..Len(hist) : Append(hist, e)[j] = hist[j]
        /\ Append(hist, e)[Len(hist) + 1] = e
    BY <2>2, AppendProperties
  <2>4. \A j \in 1..Len(hist) : /\ Distance(elapsed, hist[j].time) >= Precise
                                /\ Distance(hist[j].time, elapsed) >= Precise
    <3> SUFFICES ASSUME NEW j \in 1..Len(hist)
                 PROVE  /\ Distance(elapsed, hist[j].time) >= Precise
                        /\ Distance(hist[j].time, elapsed) >= Precise
      OBVIOUS
    <3>1. hist[j].time \in Int
      BY <1>1 DEF Entry
    <3>2. ~(Distance(elapsed, hist[j].time) < Precise)
      BY <1>1, <1>2 DEF Near
    <3>3. /\ Distance(elapsed, hist[j].time) = Distance(hist[j].time, elapsed)
          /\ Distance(elapsed, hist[j].time) \in Nat
      BY <3>1, DistanceIsSymmetric
    <3> QED BY <3>2, <3>3
  <2>5. Apart(Append(hist, e))
    <3> SUFFICES ASSUME NEW j \in 1..(Len(hist) + 1), NEW k \in 1..(Len(hist) + 1), j # k
                 PROVE  Distance(Append(hist, e)[j].time, Append(hist, e)[k].time) >= Precise
      BY <2>3 DEF Apart
    <3>1. CASE j \in 1..Len(hist) /\ k \in 1..Len(hist)
      BY <2>3, <3>1 DEF EntriesAreApart, Apart
    <3>2. CASE j = Len(hist) + 1
      BY <1>1, <2>3, <2>4, <3>2
    <3>3. CASE k = Len(hist) + 1
      BY <1>1, <2>3, <2>4, <3>3
    <3> QED BY <1>1, <3>1, <3>2, <3>3
  <2> QED BY <1>1, <2>1, <2>3, <2>5
<1>3. CASE near # {}
  <2>1. i \in near
    <3>1. near \in SUBSET Nat
      BY <1>1
    <3> HIDE DEF near
    <3>2. \E j \in near : \A k \in near : j <= k
      BY <1>3, <3>1, SmallestOf
    <3> QED BY <3>2
  <2>2. Recorded(elapsed) = [hist EXCEPT ![i].count = hist[i].count + 1]
    BY <1>3 DEF Recorded
  <2>3. i \in 1..Len(hist)
    BY <1>1, <2>1
  <2> HIDE DEF i
  <2>4. hist[i].count + 1 \in Nat
    BY <1>1, <2>3 DEF Entry
  <2> DEFINE n == hist[i].count + 1
             g == [hist EXCEPT ![i].count = n]
  <2>5. n \in Nat /\ Recorded(elapsed) = g
    BY <2>2, <2>4
  <2> HIDE DEF n
  <2>6. g \in Seq(Entry) /\ Len(g) = Len(hist) /\ Apart(g)
    BY <2>3, <2>5, CountChanges DEF EntriesAreApart
  <2> QED BY <1>1, <2>5, <2>6
<1> QED BY <1>2, <1>3

-----------------------------------------------------------------------------
LEMMA ProfilerInit == Init => ProfilerInv
  BY EmptySeq DEF Init, ProfilerInv, Measured, EntriesAreApart, Apart

\* Every call keeps the invariant of the profiler.
LEMMA ProfilerStep == ASSUME ProfilerInv, [Next]_vars PROVE ProfilerInv'
<1>0. /\ Measured /\ hist \in Seq(Entry) /\ Len(hist) <= stops /\ EntriesAreApart
      /\ Len(hist) \in Nat /\ DOMAIN hist = 1..Len(hist)
  BY LenProperties DEF ProfilerInv
<1>1. ASSUME NEW n \in Iterations, oil_profiler_begin(n)
      PROVE  ProfilerInv'
  BY <1>1, EmptySeq DEF oil_profiler_begin, ProfilerInv, Measured, EntriesAreApart, Apart
<1>2. ASSUME NEW nsec \in Starts, oil_profiler_start(nsec)
      PROVE  ProfilerInv'
  <2>1. Measured'
    BY <1>0, <1>2 DEF oil_profiler_start, Measured
  <2> QED BY <1>0, <1>2, <2>1 DEF oil_profiler_start, ProfilerInv, EntriesAreApart
<1>3. ASSUME NEW d \in Durations, oil_profiler_stop(d)
      PROVE  ProfilerInv'
  <2> DEFINE elapsed == Elapsed(start, d)
  <2>1. elapsed \in Int
    BY <1>0, ElapsedIsANumber DEF Measured
  <2>2. hist' = Recorded(elapsed) /\ stops' = stops + 1
    BY <1>3 DEF oil_profiler_stop
  <2> HIDE DEF elapsed
  <2>3. hist' \in Seq(Entry) /\ Apart(hist') /\ Len(hist') <= Len(hist) + 1
    BY <1>0, <2>1, <2>2, RecordedFits
  <2>4. Measured'
    BY <1>0, <1>3 DEF oil_profiler_stop, Measured
  <2>5. Len(hist') <= stops'
    <3>1. Len(hist') \in Nat /\ stops \in Nat
      BY <1>0, <2>3, LenProperties DEF Measured
    <3> QED BY <1>0, <2>2, <2>3, <3>1
  <2> QED BY <2>3, <2>4, <2>5 DEF ProfilerInv, EntriesAreApart
<1>4. CASE Fault \/ oil_profiler_end \/ PassOverNothing \/ PassAndReturn \/ UNCHANGED vars
  <2>1. UNCHANGED <<iterations, stops, start, hist>>
    BY <1>4 DEF Fault, oil_profiler_end, PassOverNothing, PassAndReturn, data, vars
  <2>2. phase' = "running" => phase = "running"
    BY <1>4 DEF Fault, oil_profiler_end, PassOverNothing, PassAndReturn, vars
  <2> QED BY <1>0, <2>1, <2>2 DEF ProfilerInv, Measured, EntriesAreApart
<1>5. CASE PassAndDrop
  <2>1. Counted(hist) # {} /\ hist' = [hist EXCEPT ![MaxIndex].count = 0]
    BY <1>5 DEF PassAndDrop
  <2>2. UNCHANGED <<iterations, stops, start, phase>>
    BY <1>5 DEF PassAndDrop
  <2>3. hist' \in Seq(Entry) /\ Len(hist') = Len(hist) /\ Apart(hist')
    <3>1. CASE MaxIndex \in 1..Len(hist)
      <4> DEFINE i == MaxIndex
                 n == 0
                 g == [hist EXCEPT ![i].count = n]
      <4>1. i \in 1..Len(hist) /\ n \in Nat /\ hist' = g
        BY <2>1, <3>1
      <4> HIDE DEF i, n
      <4>2. g \in Seq(Entry) /\ Len(g) = Len(hist) /\ Apart(g)
        BY <1>0, <4>1, CountChanges DEF EntriesAreApart
      <4> QED BY <4>1, <4>2
    <3>2. CASE MaxIndex \notin 1..Len(hist)
      <4>1. hist = [j \in 1..Len(hist) |-> hist[j]]
        BY <1>0, LenProperties
      <4>2. hist' = hist
        BY <1>0, <2>1, <3>2, <4>1
      <4> QED BY <1>0, <4>2 DEF EntriesAreApart
    <3> QED BY <3>1, <3>2
  <2> QED BY <1>0, <2>2, <2>3 DEF ProfilerInv, Measured, EntriesAreApart
<1> QED BY <1>1, <1>2, <1>3, <1>4, <1>5 DEF Next, Pass

\* The inductive invariant holds whatever is measured.
THEOREM ProfilerInvariance == Spec => []ProfilerInv
<1>1. ProfilerInv /\ [Next]_vars => ProfilerInv'
  BY ProfilerStep
<1> QED BY <1>1, ProfilerInit, PTL DEF Spec

\* hist_n never passes the entries that oil_profiler_begin allocated, however
\* many different times are measured and however often a call faults.
THEOREM ArraysSuffice == Spec => []HistogramIsBounded
<1>1. ProfilerInv => HistogramIsBounded
  <2> SUFFICES ASSUME ProfilerInv PROVE Len(hist) <= iterations
    BY DEF HistogramIsBounded
  <2>1. Len(hist) \in Nat /\ stops \in Nat /\ iterations \in Nat
    BY LenProperties DEF ProfilerInv, Measured
  <2> QED BY <2>1 DEF ProfilerInv, Measured
<1> QED BY <1>1, ProfilerInvariance, PTL

\* Entries stay apart by the precision of the timer: no two of them are about
\* times the timer cannot tell apart.
THEOREM HistogramResolves == Spec => []EntriesAreApart
<1>1. ProfilerInv => EntriesAreApart
  BY DEF ProfilerInv
<1> QED BY <1>1, ProfilerInvariance, PTL

-----------------------------------------------------------------------------
(* What the loops over the histogram add up *)

\* A set of numbers that has 0, and with a number the next one, has all.
LEMMA AllNumbers ==
    ASSUME NEW S, 0 \in S, \A n \in Nat : n \in S => n + 1 \in S
    PROVE  Nat \subseteq S
<1> SUFFICES ASSUME Nat \ S # {} PROVE FALSE
  OBVIOUS
<1>1. PICK n \in Nat \ S : \A m \in Nat \ S : n <= m
  BY SmallestOf
<1>2. n # 0 /\ n - 1 \in Nat /\ n = (n - 1) + 1
  BY <1>1
<1>3. n - 1 \in S
  <2>1. ~(n <= n - 1)
    BY <1>1
  <2> QED BY <1>1, <1>2, <2>1
<1> QED BY <1>1, <1>2, <1>3

\* g is the running sum of w over 1..n
Runs(g, n, w) == g[0] = 0 /\ \A i \in 1..n : g[i] = g[i - 1] + w[i]

\* There is a running sum.
LEMMA RunningSum ==
    ASSUME NEW n \in Nat, NEW w
    PROVE  \E g : g = [i \in 0..n |-> IF i = 0 THEN 0 ELSE g[i - 1] + w[i]]
<1> DEFINE Sums(g, k) == g = [i \in 0..k |-> IF i = 0 THEN 0 ELSE g[i - 1] + w[i]]
           S == {k \in Nat : \E g : Sums(g, k)}
<1>1. 0 \in S
  <2> DEFINE g == [i \in 0..0 |-> 0]
  <2>1. Sums(g, 0)
    <3>1. \A i \in 0..0 : i = 0
      OBVIOUS
    <3> QED BY <3>1
  <2> HIDE DEF Sums, g
  <2> QED BY <2>1
<1>2. ASSUME NEW k \in Nat, k \in S PROVE k + 1 \in S
  <2>1. PICK g : Sums(g, k)
    BY <1>2
  <2> DEFINE h == [i \in 0..(k + 1) |-> IF i = k + 1 THEN g[k] + w[k + 1] ELSE g[i]]
  <2>2. ASSUME NEW i \in 0..(k + 1) PROVE h[i] = IF i = 0 THEN 0 ELSE h[i - 1] + w[i]
    <3>1. CASE i = 0
      <4>1. h[0] = g[0] /\ g[0] = 0
        BY <2>1
      <4> QED BY <3>1, <4>1
    <3>2. CASE i = k + 1
      <4>1. h[i] = g[k] + w[k + 1] /\ h[i - 1] = g[k]
        BY <3>2
      <4> QED BY <3>2, <4>1
    <3>3. CASE i # 0 /\ i # k + 1
      <4>1. i \in 0..k /\ i - 1 \in 0..k
        BY <3>3
      <4>2. h[i] = g[i] /\ h[i - 1] = g[i - 1] /\ g[i] = g[i - 1] + w[i]
        BY <2>1, <3>3, <4>1
      <4> QED BY <3>3, <4>2
    <3> QED BY <3>1, <3>2, <3>3
  <2>3. h = [i \in 0..(k + 1) |-> h[i]]
    OBVIOUS
  <2> HIDE DEF h
  <2>4. Sums(h, k + 1)
    BY <2>2, <2>3
  <2> HIDE DEF Sums
  <2> QED BY <2>4
<1>3. n \in S
  <2> HIDE DEF S
  <2> QED BY <1>1, <1>2, AllNumbers
<1> QED BY <1>3

\* A loop over n entries ends with the last of the running sums.
LEMMA AddUpRuns ==
    ASSUME NEW n \in Nat, NEW w
    PROVE  \E g : Runs(g, n, w) /\ AddUp(n, w) = g[n]
<1> DEFINE Sums(g) == g = [i \in 0..n |-> IF i = 0 THEN 0 ELSE g[i - 1] + w[i]]
           t == CHOOSE g : Sums(g)
<1>1. Sums(t)
  <2>1. \E g : Sums(g)
    BY RunningSum
  <2> HIDE DEF Sums
  <2> QED BY <2>1
<1>2. AddUp(n, w) = t[n]
  BY DEF AddUp
<1> HIDE DEF t
<1>3. Runs(t, n, w)
  <2>1. t[0] = 0
    BY <1>1
  <2>2. ASSUME NEW i \in 1..n PROVE t[i] = t[i - 1] + w[i]
    <3>1. i \in 0..n /\ i # 0
      OBVIOUS
    <3> QED BY <1>1, <3>1
  <2> QED BY <2>1, <2>2 DEF Runs
<1> QED BY <1>2, <1>3

\* The running sum is determined by what is added.
LEMMA RunsAlike ==
    ASSUME NEW n \in Nat, NEW w, NEW v, NEW g, NEW h, Runs(g, n, w), Runs(h, n, v),
           NEW k \in 0..n, \A i \in 1..k : w[i] = v[i]
    PROVE  g[k] = h[k]
<1> DEFINE S == {i \in Nat : i <= k => g[i] = h[i]}
<1>1. 0 \in S
  BY DEF Runs
<1>2. ASSUME NEW i \in Nat, i \in S PROVE i + 1 \in S
  <2>1. ASSUME i + 1 <= k PROVE g[i + 1] = h[i + 1]
    <3>1. i + 1 \in 1..n /\ i + 1 \in 1..k /\ (i + 1) - 1 = i
      BY <2>1
    <3>2. g[i] = h[i]
      BY <1>2, <2>1
    <3>3. g[i + 1] = g[i] + w[i + 1] /\ h[i + 1] = h[i] + v[i + 1]
      BY <3>1 DEF Runs
    <3> QED BY <3>1, <3>2, <3>3
  <2> QED BY <2>1
<1>3. Nat \subseteq S
  <2> HIDE DEF S
  <2> QED BY <1>1, <1>2, AllNumbers
<1> QED BY <1>3

\* What is added up is a number, and natural when all that is added is.
LEMMA AddUpType ==
    ASSUME NEW n \in Nat, NEW w
    PROVE  /\ (\A i \in 1..n : w[i] \in Int) => AddUp(n, w) \in Int
           /\ (\A i \in 1..n : w[i] \in Nat) => AddUp(n, w) \in Nat
<1>1. PICK g : Runs(g, n, w) /\ AddUp(n, w) = g[n]
  BY AddUpRuns
<1>2. ASSUME \A i \in 1..n : w[i] \in Int PROVE g[n] \in Int
  <2> DEFINE S == {i \in Nat : i <= n => g[i] \in Int}
  <2>1. 0 \in S
    BY <1>1 DEF Runs
  <2>2. ASSUME NEW i \in Nat, i \in S PROVE i + 1 \in S
    <3>1. ASSUME i + 1 <= n PROVE g[i + 1] \in Int
      <4>1. i + 1 \in 1..n /\ (i + 1) - 1 = i /\ g[i] \in Int
        BY <2>2, <3>1
      <4>2. g[i + 1] = g[i] + w[i + 1] /\ w[i + 1] \in Int
        BY <1>1, <1>2, <4>1 DEF Runs
      <4> QED BY <4>1, <4>2
    <3> QED BY <3>1
  <2>3. Nat \subseteq S
    <3> HIDE DEF S
    <3> QED BY <2>1, <2>2, AllNumbers
  <2> QED BY <2>3
<1>3. ASSUME \A i \in 1..n : w[i] \in Nat PROVE g[n] \in Nat
  <2> DEFINE S == {i \in Nat : i <= n => g[i] \in Nat}
  <2>1. 0 \in S
    BY <1>1 DEF Runs
  <2>2. ASSUME NEW i \in Nat, i \in S PROVE i + 1 \in S
    <3>1. ASSUME i + 1 <= n PROVE g[i + 1] \in Nat
      <4>1. i + 1 \in 1..n /\ (i + 1) - 1 = i /\ g[i] \in Nat
        BY <2>2, <3>1
      <4>2. g[i + 1] = g[i] + w[i + 1] /\ w[i + 1] \in Nat
        BY <1>1, <1>3, <4>1 DEF Runs
      <4> QED BY <4>1, <4>2
    <3> QED BY <3>1
  <2>3. Nat \subseteq S
    <3> HIDE DEF S
    <3> QED BY <2>1, <2>2, AllNumbers
  <2> QED BY <2>3
<1> QED BY <1>1, <1>2, <1>3

\* One entry more is one number more.
LEMMA AddUpOneMore ==
    ASSUME NEW n \in Nat, NEW w, NEW v, \A i \in 1..n : v[i] = w[i]
    PROVE  AddUp(n + 1, v) = AddUp(n, w) + v[n + 1]
<1>1. PICK g : Runs(g, n, w) /\ AddUp(n, w) = g[n]
  BY AddUpRuns
<1>2. n + 1 \in Nat
  OBVIOUS
<1>3. PICK h : Runs(h, n + 1, v) /\ AddUp(n + 1, v) = h[n + 1]
  BY <1>2, AddUpRuns
<1>4. n + 1 \in 1..(n + 1) /\ (n + 1) - 1 = n /\ n \in 0..n
  OBVIOUS
<1>5. h[n + 1] = h[n] + v[n + 1]
  BY <1>3, <1>4 DEF Runs
<1>6. Runs(h, n, v)
  <2>1. \A i \in 1..n : i \in 1..(n + 1)
    OBVIOUS
  <2> QED BY <1>3, <2>1 DEF Runs
<1>7. g[n] = h[n]
  BY <1>1, <1>4, <1>6, RunsAlike
<1> QED BY <1>1, <1>3, <1>5, <1>7

\* v has the numbers of w, but for the m-th
DifferAt(w, v, m, n) == \A i \in 1..n : w[i] \in Int /\ v[i] \in Int /\ (i # m => v[i] = w[i])

\* A change of one number changes the sum by as much.
LEMMA AddUpChange ==
    ASSUME NEW n \in Nat, NEW w, NEW v, NEW m \in 1..n, DifferAt(w, v, m, n)
    PROVE  AddUp(n, v) = AddUp(n, w) + v[m] - w[m]
<1>0. \A i \in 1..n : w[i] \in Int /\ v[i] \in Int /\ (i # m => v[i] = w[i])
  BY DEF DifferAt
<1>1. PICK g : Runs(g, n, w) /\ AddUp(n, w) = g[n]
  BY AddUpRuns
<1>2. PICK h : Runs(h, n, v) /\ AddUp(n, v) = h[n]
  BY AddUpRuns
<1> DEFINE d == v[m] - w[m]
           S == {i \in Nat : i <= n => /\ g[i] \in Int
                                       /\ i < m => h[i] = g[i]
                                       /\ i >= m => h[i] = g[i] + d}
<1>3. d \in Int
  BY <1>0
<1>4. 0 \in S
  BY <1>1, <1>2 DEF Runs
<1>5. ASSUME NEW i \in Nat, i \in S PROVE i + 1 \in S
  <2> SUFFICES ASSUME i + 1 <= n
               PROVE  /\ g[i + 1] \in Int
                      /\ i + 1 < m => h[i + 1] = g[i + 1]
                      /\ i + 1 >= m => h[i + 1] = g[i + 1] + d
    OBVIOUS
  <2>1. i + 1 \in 1..n /\ (i + 1) - 1 = i
    OBVIOUS
  <2>2. /\ g[i] \in Int
        /\ i < m => h[i] = g[i]
        /\ i >= m => h[i] = g[i] + d
    BY <1>5, <2>1
  <2>3. g[i + 1] = g[i] + w[i + 1] /\ h[i + 1] = h[i] + v[i + 1]
    BY <1>1, <1>2, <2>1 DEF Runs
  <2>4. w[i + 1] \in Int /\ v[i + 1] \in Int /\ (i + 1 # m => v[i + 1] = w[i + 1])
    BY <1>0, <2>1
  <2>5. CASE i + 1 < m
    BY <2>2, <2>3, <2>4, <2>5
  <2>6. CASE i + 1 = m
    <3>1. h[i] = g[i] /\ d = v[i + 1] - w[i + 1]
      BY <2>2, <2>6
    <3> HIDE DEF d
    <3> QED BY <2>2, <2>3, <2>4, <2>6, <3>1
  <2>7. CASE i + 1 > m
    <3>1. h[i] = g[i] + d /\ v[i + 1] = w[i + 1]
      BY <2>2, <2>4, <2>7
    <3> HIDE DEF d
    <3> QED BY <1>3, <2>2, <2>3, <2>4, <2>7, <3>1
  <2> QED BY <2>5, <2>6, <2>7
<1>6. n \in S
  <2> HIDE DEF S
  <2> QED BY <1>4, <1>5, AllNumbers
<1>7. g[n] \in Int /\ h[n] = g[n] + d
  BY <1>6
<1> QED BY <1>1, <1>2, <1>7

\* A sum to which one entry adds is what it adds.
LEMMA AddUpOne ==
    ASSUME NEW n \in Nat, NEW w, NEW m \in 1..n, w[m] \in Int, \A i \in 1..n : i # m => w[i] = 0
    PROVE  AddUp(n, w) = w[m]
<1> DEFINE zero == [i \in 1..n |-> 0]
<1>1. AddUp(n, zero) = 0
  <2>1. PICK g : Runs(g, n, zero) /\ AddUp(n, zero) = g[n]
    BY AddUpRuns
  <2> DEFINE h == [i \in 0..n |-> 0]
  <2>2. Runs(h, n, zero)
    BY DEF Runs
  <2>3. g[n] = h[n]
    <3>1. n \in 0..n
      OBVIOUS
    <3> HIDE DEF h, zero
    <3> QED BY <2>1, <2>2, <3>1, RunsAlike
  <2> QED BY <2>1, <2>3
<1>2. DifferAt(zero, w, m, n)
  BY DEF DifferAt
<1>3. AddUp(n, w) = AddUp(n, zero) + w[m] - zero[m]
  <2> HIDE DEF zero
  <2> QED BY <1>2, AddUpChange
<1> QED BY <1>1, <1>3

-----------------------------------------------------------------------------
(* What the histogram adds up to *)

\* The measurements a histogram counts, and their times
CountOf(h) == AddUp(Len(h), [i \in DOMAIN h |-> h[i].count])
TimeOf(h) == AddUp(Len(h), [i \in DOMAIN h |-> h[i].time * h[i].count])

LongTimes(h) == \A i \in 1..Len(h) : h[i].time \in Nat

\* An entry has a time and a count.
LEMMA EntriesOf ==
    ASSUME NEW h \in Seq(Entry)
    PROVE  /\ Len(h) \in Nat /\ DOMAIN h = 1..Len(h)
           /\ \A i \in 1..Len(h) : /\ h[i].time \in Int /\ h[i].count \in Nat
                                   /\ h[i].time * h[i].count \in Int
<1>1. Len(h) \in Nat /\ DOMAIN h = 1..Len(h) /\ \A i \in 1..Len(h) : h[i] \in Entry
  BY LenProperties
<1>2. \A i \in 1..Len(h) : h[i].time \in Int /\ h[i].count \in Nat
  BY <1>1 DEF Entry
<1>3. \A x \in Int, y \in Nat : x * y \in Int
  OBVIOUS
<1> QED BY <1>1, <1>2, <1>3

\* What a histogram adds up to are numbers; without an entry it is nothing.
LEMMA SumsAreNumbers ==
    ASSUME NEW h \in Seq(Entry)
    PROVE  /\ CountOf(h) \in Nat /\ TimeOf(h) \in Int
           /\ LongTimes(h) => TimeOf(h) \in Nat
           /\ Len(h) = 0 => CountOf(h) = 0 /\ TimeOf(h) = 0
<1> DEFINE c == [i \in DOMAIN h |-> h[i].count]
           t == [i \in DOMAIN h |-> h[i].time * h[i].count]
<1>1. /\ Len(h) \in Nat /\ DOMAIN h = 1..Len(h)
      /\ \A i \in 1..Len(h) : /\ h[i].time \in Int /\ h[i].count \in Nat
                              /\ h[i].time * h[i].count \in Int
  BY EntriesOf
<1>2. (\A i \in 1..Len(h) : c[i] \in Nat) /\ (\A i \in 1..Len(h) : t[i] \in Int)
  BY <1>1
<1>3. ASSUME LongTimes(h) PROVE \A i \in 1..Len(h) : t[i] \in Nat
  <2>1. \A x, y \in Nat : x * y \in Nat
    OBVIOUS
  <2> QED BY <1>1, <1>3, <2>1 DEF LongTimes
<1>4. ASSUME Len(h) = 0 PROVE AddUp(Len(h), c) = 0 /\ AddUp(Len(h), t) = 0
  <2> HIDE DEF c, t
  <2>1. \A w : AddUp(0, w) = 0
    BY AddUpRuns DEF Runs
  <2> QED BY <1>4, <2>1
<1> HIDE DEF c, t
<1>5. /\ AddUp(Len(h), c) \in Nat /\ AddUp(Len(h), t) \in Int
      /\ LongTimes(h) => AddUp(Len(h), t) \in Nat
  BY <1>1, <1>2, <1>3, AddUpType
<1> QED BY <1>4, <1>5 DEF CountOf, TimeOf, c, t

\* A histogram with another count for an entry
WithCount(h, i, n) == [h EXCEPT ![i].count = n]

\* A count that changes changes the sums by as much.
LEMMA SumsChange ==
    ASSUME NEW h \in Seq(Entry), NEW i \in 1..Len(h), NEW n \in Nat,
           NEW g, g = WithCount(h, i, n)
    PROVE  /\ g \in Seq(Entry) /\ Len(g) = Len(h) /\ DOMAIN g = DOMAIN h
           /\ g[i].count = n
           /\ \A j \in 1..Len(h) : g[j].time = h[j].time /\ (j # i => g[j].count = h[j].count)
           /\ CountOf(g) = CountOf(h) + n - h[i].count
           /\ TimeOf(g) = TimeOf(h) + h[i].time * n - h[i].time * h[i].count
<1> DEFINE c == [j \in DOMAIN h |-> h[j].count]
           t == [j \in DOMAIN h |-> h[j].time * h[j].count]
           d == [j \in DOMAIN g |-> g[j].count]
           u == [j \in DOMAIN g |-> g[j].time * g[j].count]
<1>1. /\ Len(h) \in Nat /\ DOMAIN h = 1..Len(h)
      /\ \A j \in 1..Len(h) : /\ h[j].time \in Int /\ h[j].count \in Nat
                              /\ h[j].time * h[j].count \in Int
  BY EntriesOf
<1>2. \A j \in 1..Len(h) : h[j] \in Entry
  BY LenProperties
<1>3. g = [h EXCEPT ![i] = [h[i] EXCEPT !.count = n]]
  BY DEF WithCount
<1>4. [h[i] EXCEPT !.count = n] \in Entry
  BY <1>2 DEF Entry
<1>5. g \in Seq(Entry) /\ Len(g) = Len(h) /\ DOMAIN g = DOMAIN h
  BY <1>3, <1>4, ExceptSeq
<1>6. /\ g[i].count = n
      /\ \A j \in 1..Len(h) : g[j].time = h[j].time /\ (j # i => g[j].count = h[j].count)
  <2> DEFINE entry == [h[i] EXCEPT !.count = n]
  <2>1. h[i] \in Entry
    BY <1>2
  <2>2. entry.count = n /\ entry.time = h[i].time
    BY <2>1 DEF Entry
  <2>3. g = [h EXCEPT ![i] = entry]
    BY <1>3
  <2> HIDE DEF entry
  <2>4. g[i] = entry /\ \A j \in 1..Len(h) : j # i => g[j] = h[j]
    BY <1>1, <2>3
  <2> QED BY <2>2, <2>4
<1>7. AddUp(Len(h), d) = AddUp(Len(h), c) + d[i] - c[i]
  <2>1. \A j \in 1..Len(h) : c[j] \in Int /\ d[j] \in Int /\ (j # i => d[j] = c[j])
    BY <1>1, <1>5, <1>6
  <2> DEFINE k == Len(h)
  <2>3. k \in Nat /\ i \in 1..k /\ k = Len(h)
    BY <1>1
  <2> HIDE DEF c, d, k
  <2>4. DifferAt(c, d, i, k)
    BY <2>1, <2>3 DEF DifferAt
  <2>5. AddUp(k, d) = AddUp(k, c) + d[i] - c[i]
    BY <2>3, <2>4, AddUpChange
  <2> QED BY <2>3, <2>5
<1>8. AddUp(Len(h), u) = AddUp(Len(h), t) + u[i] - t[i]
  <2>1. \A x \in Int, y \in Nat : x * y \in Int
    OBVIOUS
  <2>2. \A j \in 1..Len(h) : t[j] \in Int /\ u[j] \in Int /\ (j # i => u[j] = t[j])
    BY <1>1, <1>5, <1>6, <2>1
  <2> DEFINE k == Len(h)
  <2>3. k \in Nat /\ i \in 1..k /\ k = Len(h)
    BY <1>1
  <2> HIDE DEF t, u, k
  <2>4. DifferAt(t, u, i, k)
    BY <2>2, <2>3 DEF DifferAt
  <2>5. AddUp(k, u) = AddUp(k, t) + u[i] - t[i]
    BY <2>3, <2>4, AddUpChange
  <2> QED BY <2>3, <2>5
<1>9. d[i] = n /\ c[i] = h[i].count /\ u[i] = h[i].time * n /\ t[i] = h[i].time * h[i].count
  BY <1>1, <1>5, <1>6
<1>10. CountOf(g) = CountOf(h) + n - h[i].count
  BY <1>5, <1>7, <1>9 DEF CountOf
<1>11. TimeOf(g) = TimeOf(h) + h[i].time * n - h[i].time * h[i].count
  BY <1>5, <1>8, <1>9 DEF TimeOf
<1> QED BY <1>5, <1>6, <1>10, <1>11

\* A measurement is counted once, as one that differs from it by less than the
\* precision of the timer.
LEMMA RecordedAdds ==
    ASSUME NEW elapsed \in Nat, hist \in Seq(Entry), LongTimes(hist)
    PROVE  /\ CountOf(Recorded(elapsed)) = CountOf(hist) + 1
           /\ LongTimes(Recorded(elapsed))
           /\ Counted(hist) = DOMAIN hist => Counted(Recorded(elapsed)) = DOMAIN Recorded(elapsed)
           /\ \E x \in Nat : /\ TimeOf(Recorded(elapsed)) = TimeOf(hist) + x
                             /\ Distance(elapsed, x) < Precise
<1> DEFINE near == {i \in DOMAIN hist : Near(i, elapsed)}
           i == CHOOSE j \in near : \A k \in near : j <= k
           e == [time |-> elapsed, count |-> 1]
           r == Recorded(elapsed)
<1>1. /\ Len(hist) \in Nat /\ DOMAIN hist = 1..Len(hist)
      /\ \A j \in 1..Len(hist) : /\ hist[j].time \in Int /\ hist[j].count \in Nat
                                 /\ hist[j].time * hist[j].count \in Int
  BY EntriesOf
<1>2. CASE near = {}
  <2>1. r = Append(hist, e)
    BY <1>2 DEF Recorded
  <2>2. e \in Entry /\ e.time = elapsed /\ e.count = 1
    BY DEF Entry
  <2> HIDE DEF e, r
  <2>3. /\ r \in Seq(Entry) /\ Len(r) = Len(hist) + 1
        /\ \A j \in 1..Len(hist) : r[j] = hist[j]
        /\ r[Len(hist) + 1] = e
    BY <2>1, <2>2, AppendProperties
  <2>4. DOMAIN r = 1..(Len(hist) + 1)
    BY <2>3, LenProperties
  <2> DEFINE n == Len(hist)
             c == [j \in DOMAIN hist |-> hist[j].count]
             t == [j \in DOMAIN hist |-> hist[j].time * hist[j].count]
             d == [j \in DOMAIN r |-> r[j].count]
             u == [j \in DOMAIN r |-> r[j].time * r[j].count]
  <2>5. n + 1 \in 1..(n + 1) /\ \A j \in 1..n : j \in 1..(n + 1)
    BY <1>1
  <2>6. AddUp(n + 1, d) = AddUp(n, c) + 1
    <3>1. (\A j \in 1..n : d[j] = c[j]) /\ d[n + 1] = 1
      BY <1>1, <2>2, <2>3, <2>4, <2>5
    <3>2. n \in Nat
      BY <1>1
    <3> HIDE DEF c, d, n
    <3>3. AddUp(n + 1, d) = AddUp(n, c) + d[n + 1]
      BY <3>1, <3>2, AddUpOneMore
    <3> QED BY <3>1, <3>3
  <2>7. AddUp(n + 1, u) = AddUp(n, t) + elapsed
    <3>1. (\A j \in 1..n : u[j] = t[j]) /\ u[n + 1] = elapsed * 1
      BY <1>1, <2>2, <2>3, <2>4, <2>5
    <3> HIDE DEF t, u
    <3>2. AddUp(n + 1, u) = AddUp(n, t) + u[n + 1]
      BY <1>1, <3>1, AddUpOneMore
    <3> QED BY <3>1, <3>2
  <2>8. CountOf(r) = CountOf(hist) + 1 /\ TimeOf(r) = TimeOf(hist) + elapsed
    BY <2>3, <2>6, <2>7 DEF CountOf, TimeOf
  <2>9. LongTimes(r)
    BY <1>1, <2>2, <2>3, <2>4 DEF LongTimes
  <2>10. Counted(hist) = DOMAIN hist => Counted(r) = DOMAIN r
    <3>1. ASSUME Counted(hist) = DOMAIN hist, NEW j \in DOMAIN r PROVE r[j].count > 0
      <4>1. CASE j = Len(hist) + 1
        BY <2>2, <2>3, <4>1
      <4>2. CASE j # Len(hist) + 1
        <5>1. j \in DOMAIN hist /\ r[j] = hist[j]
          BY <1>1, <2>3, <2>4, <4>2
        <5>2. j \in Counted(hist)
          BY <3>1, <5>1
        <5> QED BY <5>1, <5>2 DEF Counted
      <4> QED BY <4>1, <4>2
    <3> QED BY <3>1 DEF Counted
  <2>11. Distance(elapsed, elapsed) < Precise
    BY DEF Distance
  <2> QED BY <2>8, <2>9, <2>10, <2>11 DEF r
<1>3. CASE near # {}
  <2>1. i \in near
    <3>1. near \in SUBSET Nat
      BY <1>1
    <3> HIDE DEF near
    <3>2. \E j \in near : \A k \in near : j <= k
      BY <1>3, <3>1, SmallestOf
    <3> QED BY <3>2
  <2>2. r = [hist EXCEPT ![i].count = hist[i].count + 1]
    BY <1>3 DEF Recorded
  <2>3. i \in 1..Len(hist) /\ Distance(elapsed, hist[i].time) < Precise
    BY <1>1, <2>1 DEF Near
  <2> HIDE DEF i, r
  <2> DEFINE n == hist[i].count + 1
             g == WithCount(hist, i, n)
  <2>4. n \in Nat /\ n > 0 /\ r = g /\ hist[i].time \in Nat /\ hist[i].count \in Nat
    BY <1>1, <2>2, <2>3 DEF LongTimes, WithCount
  <2>5. n = hist[i].count + 1 /\ g = WithCount(hist, i, n)
    OBVIOUS
  <2> HIDE DEF n, g
  <2>6. /\ g \in Seq(Entry) /\ Len(g) = Len(hist) /\ DOMAIN g = DOMAIN hist
        /\ g[i].count = n
        /\ \A j \in 1..Len(hist) : g[j].time = hist[j].time /\ (j # i => g[j].count = hist[j].count)
        /\ CountOf(g) = CountOf(hist) + n - hist[i].count
        /\ TimeOf(g) = TimeOf(hist) + hist[i].time * n - hist[i].time * hist[i].count
    <3>1. hist \in Seq(Entry) /\ i \in 1..Len(hist) /\ n \in Nat
      BY <2>3, <2>4
    <3>2. g = WithCount(hist, i, n)
      BY <2>5
    <3> QED BY ONLY <3>1, <3>2, SumsChange
  <2>7. CountOf(hist) \in Nat /\ TimeOf(hist) \in Int
    BY SumsAreNumbers
  <2>8. CountOf(r) = CountOf(hist) + 1
    BY <2>4, <2>5, <2>6, <2>7
  <2>9. TimeOf(r) = TimeOf(hist) + hist[i].time
    <3>1. \A x, y \in Nat : x * (y + 1) = x * y + x /\ x * y \in Nat
      OBVIOUS
    <3>2. hist[i].time * n = hist[i].time * hist[i].count + hist[i].time
          /\ hist[i].time * hist[i].count \in Nat
      BY <2>4, <2>5, <3>1
    <3> QED BY <2>4, <2>6, <2>7, <3>2
  <2>10. LongTimes(r)
    BY <2>4, <2>6 DEF LongTimes
  <2>11. Counted(hist) = DOMAIN hist => Counted(r) = DOMAIN r
    <3>1. ASSUME Counted(hist) = DOMAIN hist, NEW j \in DOMAIN g PROVE g[j].count > 0
      <4>1. CASE j = i
        BY <2>4, <2>6, <4>1
      <4>2. CASE j # i
        <5>1. j \in Counted(hist) /\ g[j].count = hist[j].count
          BY <1>1, <2>6, <3>1, <4>2
        <5> QED BY <5>1 DEF Counted
      <4> QED BY <4>1, <4>2
    <3> QED BY <2>4, <2>6, <3>1 DEF Counted
  <2> QED BY <2>3, <2>4, <2>8, <2>9, <2>10, <2>11 DEF r
<1> QED BY <1>2, <1>3

-----------------------------------------------------------------------------
(* The sums, between the calls and through the passes of oil_profiler_end *)

\* What holds while nothing was dropped: all that was measured is counted, and for each
\* measurement the histogram is less than the precision of the timer off.
Kept ==
    /\ CountOf(hist) = stops /\ Counted(hist) = DOMAIN hist
    /\ Distance(TimeOf(hist), total) <= Precise * stops - stops

\* The inductive invariant
SumsInv ==
    /\ ProfilerInv
    /\ phase \in {"idle", "armed", "running", "ending", "crashed"}
    /\ total \in Nat /\ sum \in Nat /\ start \in 0..(Giga - 1)
    /\ dropped \in BOOLEAN
    /\ LongTimes(hist)
    /\ CountOf(hist) <= stops
    /\ ~dropped => Kept
    /\ phase \in {"armed", "running"} => ~dropped
    /\ phase = "ending" /\ ~dropped => sum = 0
    /\ phase = "ending" => stops = iterations
    /\ phase \in {"ending", "crashed"} /\ iterations > 0 => Counted(hist) # {}
    /\ average # NULL => phase = "idle"
    /\ AverageIsClose

\* A measured time is not negative: a second that begins adds more than the
\* nanoseconds it takes back.
LEMMA ElapsedIsNatural ==
    ASSUME NEW b \in 0..(Giga - 1), NEW d \in Nat
    PROVE  Elapsed(b, d) \in Nat
<1> DEFINE sec == (b + d) \div Giga
           nsec == (b + d) % Giga
<1>0. Giga \in Nat /\ Giga > 0 /\ b \in Nat /\ b < Giga
  OBVIOUS
<1>1. \A x \in Nat, p \in Nat : p > 0 =>
         x \div p \in Nat /\ x % p \in 0..(p - 1) /\ x = p * (x \div p) + (x % p)
  OBVIOUS
<1>2. sec \in Nat /\ nsec \in Nat /\ b + d = Giga * sec + nsec
  BY <1>0, <1>1
<1>3. Elapsed(b, d) = sec * Giga * Giga + (nsec - b)
  BY DEF Elapsed
<1> HIDE DEF sec, nsec
<1>4. CASE sec = 0
  BY <1>0, <1>2, <1>3, <1>4
<1>5. CASE sec # 0
  <2>1. \A x, y \in Nat : x > 0 => x * y \in Nat /\ x * y >= y
    OBVIOUS
  <2>2. sec > 0
    BY <1>2, <1>5
  <2>3. sec * Giga \in Nat /\ sec * Giga >= Giga
    BY <1>0, <1>2, <2>1, <2>2
  <2>4. sec * Giga > 0
    BY <1>0, <2>3
  <2>5. sec * Giga * Giga \in Nat /\ sec * Giga * Giga >= Giga
    BY <1>0, <2>1, <2>3, <2>4
  <2> QED BY <1>0, <1>2, <1>3, <2>5
<1> QED BY <1>4, <1>5

\* What the distance of two sums is made of
LEMMA DistanceAdds ==
    ASSUME NEW a \in Int, NEW b \in Int, NEW x \in Int, NEW y \in Int, NEW p \in Int, NEW q \in Int,
           Distance(a, b) <= p, Distance(y, x) < q
    PROVE  Distance(a + x, b + y) <= p + q - 1
  BY DEF Distance

\* Nothing is measured or counted at first.
LEMMA SumsInit == Init => SumsInv
<1> SUFFICES ASSUME Init PROVE SumsInv
  OBVIOUS
<1>1. ProfilerInv
  BY ProfilerInit
<1>2. hist = <<>> /\ hist \in Seq(Entry) /\ Len(hist) = 0 /\ DOMAIN hist = {}
  BY EmptySeq DEF Init
<1>3. CountOf(hist) = 0 /\ TimeOf(hist) = 0
  BY <1>2, SumsAreNumbers
<1>4. stops = 0 /\ total = 0 /\ sum = 0 /\ start = 0 /\ phase = "idle" /\ dropped = FALSE
      /\ average = NULL
  BY DEF Init
<1>5. Precise * 0 = 0 /\ Distance(0, 0) = 0
  BY DEF Distance
<1>6. Kept
  <2>1. Counted(hist) = DOMAIN hist
    BY <1>2 DEF Counted
  <2> QED BY <1>3, <1>4, <1>5, <2>1 DEF Kept
<1>7. LongTimes(hist)
  BY <1>2 DEF LongTimes
<1>8. AverageIsClose
  BY <1>4 DEF AverageIsClose
<1>9. CountOf(hist) <= stops
  BY <1>3, <1>4
<1>10. total \in Nat /\ sum \in Nat /\ start \in 0..(Giga - 1)
  <2>1. total = 0 /\ sum = 0 /\ start = 0
    BY <1>4
  <2> QED BY <2>1
<1>11. phase = "idle" /\ dropped = FALSE /\ dropped \in BOOLEAN
  BY <1>4
<1> QED BY <1>1, <1>6, <1>7, <1>8, <1>9, <1>10, <1>11 DEF SumsInv

\* Arming the profiler forgets all that was measured.
LEMMA SumsBegin ==
    ASSUME SumsInv, NEW n \in Iterations, oil_profiler_begin(n)
    PROVE  SumsInv'
<1>1. ProfilerInv'
  BY ProfilerStep DEF SumsInv, Next
<1>2. hist' = <<>> /\ hist' \in Seq(Entry) /\ Len(hist') = 0 /\ DOMAIN hist' = {}
  BY EmptySeq DEF oil_profiler_begin
<1>3. CountOf(hist') = 0 /\ TimeOf(hist') = 0
  BY <1>2, SumsAreNumbers
<1>4. stops' = 0 /\ total' = 0 /\ sum' = sum /\ start' = 0 /\ phase' = "armed" /\ dropped' = FALSE
      /\ average' = NULL
  BY DEF oil_profiler_begin
<1>5. Precise * 0 = 0 /\ Distance(0, 0) = 0
  BY DEF Distance
<1>6. Kept'
  <2>1. Counted(hist') = DOMAIN hist'
    BY <1>2 DEF Counted
  <2> QED BY <1>3, <1>4, <1>5, <2>1 DEF Kept
<1>7. LongTimes(hist')
  BY <1>2 DEF LongTimes
<1>8. AverageIsClose'
  BY <1>4 DEF AverageIsClose
<1>9. CountOf(hist') <= stops'
  BY <1>3, <1>4
<1>10. total' \in Nat /\ sum' \in Nat /\ start' \in 0..(Giga - 1)
  <2>1. total' = 0 /\ sum' = sum /\ start' = 0 /\ sum \in Nat
    BY <1>4 DEF SumsInv
  <2> QED BY <2>1
<1>11. phase' = "armed" /\ dropped' = FALSE /\ dropped' \in BOOLEAN /\ average' = NULL
  BY <1>4
<1> QED BY <1>1, <1>6, <1>7, <1>8, <1>9, <1>10, <1>11 DEF SumsInv

\* A measurement is counted, and moves the sum no more than a precision away.
LEMMA SumsStop ==
    ASSUME SumsInv, NEW d \in Durations, oil_profiler_stop(d)
    PROVE  SumsInv'
<1> DEFINE elapsed == Elapsed(start, d)
<1>1. ProfilerInv'
  BY ProfilerStep DEF SumsInv, Next
<1>2. phase = "running" /\ phase' = "armed" /\ total' = total + elapsed /\ hist' = Recorded(elapsed)
      /\ stops' = stops + 1
      /\ UNCHANGED <<iterations, start, sum, average, dropped>>
  BY DEF oil_profiler_stop
<1>3. elapsed \in Nat
  BY ElapsedIsNatural DEF SumsInv
<1> HIDE DEF elapsed
<1>4. hist \in Seq(Entry) /\ LongTimes(hist) /\ total \in Nat /\ stops \in Nat
      /\ ~dropped /\ Kept /\ average = NULL
  BY <1>2 DEF SumsInv, ProfilerInv, Measured
<1>5. /\ CountOf(hist') = CountOf(hist) + 1
      /\ LongTimes(hist')
      /\ Counted(hist) = DOMAIN hist => Counted(hist') = DOMAIN hist'
      /\ \E x \in Nat : TimeOf(hist') = TimeOf(hist) + x /\ Distance(elapsed, x) < Precise
  BY <1>2, <1>3, <1>4, RecordedAdds
<1>6. PICK x \in Nat : TimeOf(hist') = TimeOf(hist) + x /\ Distance(elapsed, x) < Precise
  BY <1>5
<1>7. TimeOf(hist) \in Int /\ Distance(TimeOf(hist), total) <= Precise * stops - stops
  BY <1>4, SumsAreNumbers DEF Kept
<1>8. Precise * stops \in Int /\ Precise * (stops + 1) = Precise * stops + Precise
  BY <1>4
<1>9. Distance(TimeOf(hist'), total') <= Precise * stops' - stops'
  <2> DEFINE p == Precise * stops - stops
  <2>1. p \in Int
    BY <1>4, <1>8
  <2>2. Distance(TimeOf(hist) + x, total + elapsed) <= p + Precise - 1
    <3>1. Distance(TimeOf(hist), total) <= p
      BY <1>7
    <3> HIDE DEF p
    <3> QED BY <1>3, <1>4, <1>6, <1>7, <2>1, <3>1, DistanceAdds
  <2>3. p + Precise - 1 = Precise * (stops + 1) - (stops + 1)
    BY <1>4, <1>8
  <2> HIDE DEF p
  <2> QED BY <1>2, <1>6, <2>2, <2>3
<1>10. Kept'
  BY <1>2, <1>4, <1>5, <1>9 DEF Kept
<1>11. CountOf(hist') <= stops' /\ total' \in Nat
  BY <1>2, <1>3, <1>4, <1>5 DEF Kept
<1>12. AverageIsClose'
  BY <1>2, <1>4 DEF AverageIsClose
<1> QED BY <1>1, <1>2, <1>4, <1>5, <1>10, <1>11, <1>12 DEF SumsInv

\* When the calls are over, what was measured is in the histogram.
LEMMA SumsEnd ==
    ASSUME SumsInv, oil_profiler_end
    PROVE  SumsInv'
<1>1. ProfilerInv'
  BY ProfilerStep DEF SumsInv, Next
<1>2. phase = "armed" /\ stops = iterations /\ phase' = "ending" /\ sum' = 0
      /\ UNCHANGED <<iterations, hist, total, start, average, stops, dropped>>
  BY DEF oil_profiler_end, data
<1>3. ~dropped /\ Kept /\ hist \in Seq(Entry) /\ average = NULL
  BY <1>2 DEF SumsInv, ProfilerInv
<1>4. iterations > 0 => Counted(hist) # {}
  <2>1. ASSUME iterations > 0 PROVE Counted(hist) # {}
    <3>1. CountOf(hist) = iterations
      BY <1>2, <1>3 DEF Kept
    <3>2. Len(hist) # 0
      BY <1>3, <2>1, <3>1, SumsAreNumbers
    <3>3. Len(hist) \in Nat /\ DOMAIN hist = 1..Len(hist)
      BY <1>3, LenProperties
    <3>4. 1 \in DOMAIN hist
      BY <3>2, <3>3
    <3> QED BY <1>3, <3>4 DEF Kept
  <2> QED BY <2>1
<1>5. Kept' /\ AverageIsClose' /\ (LongTimes(hist))' /\ CountOf(hist') <= stops'
  BY <1>2, <1>3 DEF SumsInv, Kept, AverageIsClose
<1> QED BY <1>1, <1>2, <1>3, <1>4, <1>5 DEF SumsInv

\* A histogram in which one entry is counted adds up to that entry.
LEMMA OneCounted ==
    ASSUME NEW h \in Seq(Entry), NEW m \in 1..Len(h), Counted(h) = {m}
    PROVE  CountOf(h) = h[m].count /\ TimeOf(h) = h[m].time * h[m].count
<1> DEFINE k == Len(h)
           c == [j \in DOMAIN h |-> h[j].count]
           t == [j \in DOMAIN h |-> h[j].time * h[j].count]
<1>1. /\ k \in Nat /\ m \in 1..k /\ DOMAIN h = 1..k
      /\ \A i \in 1..k : /\ h[i].time \in Int /\ h[i].count \in Nat
                         /\ h[i].time * h[i].count \in Int
  BY EntriesOf
<1>2. \A i \in 1..k : i # m => h[i].count = 0
  <2>1. ASSUME NEW i \in 1..k, i # m PROVE h[i].count = 0
    <3>1. ~(h[i].count > 0)
      BY <1>1, <2>1 DEF Counted
    <3>2. h[i].count \in Nat
      BY <1>1
    <3> QED BY <3>1, <3>2
  <2> QED BY <2>1
<1>3. \A x \in Int : x * 0 = 0
  OBVIOUS
<1>4. c[m] = h[m].count /\ c[m] \in Int /\ \A i \in 1..k : i # m => c[i] = 0
  BY <1>1, <1>2
<1>5. t[m] = h[m].time * h[m].count /\ t[m] \in Int /\ \A i \in 1..k : i # m => t[i] = 0
  BY <1>1, <1>2, <1>3
<1>6. CountOf(h) = AddUp(k, c) /\ TimeOf(h) = AddUp(k, t)
  BY DEF CountOf, TimeOf
<1> HIDE DEF k, c, t
<1>7. AddUp(k, c) = c[m]
  BY <1>1, <1>4, AddUpOne
<1>8. AddUp(k, t) = t[m]
  BY <1>1, <1>5, AddUpOne
<1> QED BY <1>4, <1>5, <1>6, <1>7, <1>8

\* The last entry that is counted is not above the average: the sum is that of all passes,
\* and no time is negative.
LEMMA LastIsKept ==
    ASSUME hist \in Seq(Entry), LongTimes(hist), sum \in Nat,
           NEW m \in 1..Len(hist), Counted(hist) = {m}
    PROVE  MaxIndex = m /\ ~Drops(sum + Sum)
<1>1. N = CountOf(hist) /\ Sum = TimeOf(hist)
  BY DEF N, Sum, CountOf, TimeOf
<1>2. CountOf(hist) = hist[m].count /\ TimeOf(hist) = hist[m].time * hist[m].count
  BY OneCounted
<1>3. hist[m].time \in Int /\ hist[m].count \in Nat /\ hist[m].time * hist[m].count \in Int
  BY EntriesOf
<1>4. MaxIndex = m
  <2> DEFINE P(i) == \A j \in Counted(hist) :
                        hist[j].time < hist[i].time \/ (hist[j].time = hist[i].time /\ i <= j)
  <2>1. MaxIndex = CHOOSE i \in Counted(hist) : P(i)
    BY DEF MaxIndex
  <2>2. P(m)
    OBVIOUS
  <2> HIDE DEF P
  <2> QED BY <2>1, <2>2
<1>5. hist[MaxIndex].time * N - (sum + Sum) = 0 - sum
  <2> DEFINE x == hist[m].time * hist[m].count
  <2>1. hist[MaxIndex].time * N = x /\ Sum = x /\ x \in Int
    BY <1>1, <1>2, <1>3, <1>4
  <2> HIDE DEF x
  <2> QED BY <2>1
<1>6. ~(0 - sum > 0)
  OBVIOUS
<1>7. Drops(sum + Sum) => hist[MaxIndex].time * N - (sum + Sum) > 0
  BY DEF Drops
<1> QED BY <1>4, <1>5, <1>6, <1>7

\* A pass that drops an entry leaves one that is counted.
LEMMA SumsDrop ==
    ASSUME SumsInv, PassAndDrop
    PROVE  SumsInv'
<1>1. ProfilerInv'
  BY ProfilerStep DEF SumsInv, Next, Pass
<1>2. /\ phase = "ending" /\ Counted(hist) # {} /\ sum' = sum + Sum /\ Drops(sum + Sum)
      /\ hist' = WithCount(hist, MaxIndex, 0)
      /\ dropped' = TRUE
      /\ UNCHANGED <<phase, iterations, total, start, average, stops>>
  BY DEF PassAndDrop, WithCount
<1>3. hist \in Seq(Entry) /\ LongTimes(hist) /\ sum \in Nat /\ average = NULL /\ stops \in Nat
      /\ CountOf(hist) <= stops /\ stops = iterations
  BY <1>2 DEF SumsInv, ProfilerInv, Measured
<1>4. sum' \in Nat
  <2>1. Sum = TimeOf(hist)
    BY DEF Sum, TimeOf
  <2> QED BY <1>2, <1>3, <2>1, SumsAreNumbers
<1>5. Len(hist) \in Nat /\ DOMAIN hist = 1..Len(hist)
      /\ \A i \in 1..Len(hist) : hist[i].count \in Nat
  BY <1>3, EntriesOf
<1>6. PICK i \in Counted(hist) : i # MaxIndex
  <2>1. PICK m \in Counted(hist) : TRUE
    BY <1>2
  <2>2. m \in 1..Len(hist)
    BY <1>5 DEF Counted
  <2>3. Counted(hist) # {m} \/ MaxIndex # m
    BY <1>2, <1>3, <2>2, LastIsKept
  <2> QED BY <2>1, <2>3
<1>7. i \in 1..Len(hist) /\ hist[i].count > 0
  BY <1>5 DEF Counted
<1>8. LongTimes(hist') /\ CountOf(hist') <= stops' /\ Counted(hist') # {}
  <2>1. CASE MaxIndex \in 1..Len(hist)
    <3> DEFINE m == MaxIndex
    <3>1. m \in 1..Len(hist) /\ 0 \in Nat /\ hist' = WithCount(hist, m, 0) /\ m # i
      BY <1>2, <1>6, <2>1
    <3> HIDE DEF m
    <3>2. /\ Len(hist') = Len(hist) /\ DOMAIN hist' = DOMAIN hist
          /\ \A j \in 1..Len(hist) :
                hist'[j].time = hist[j].time /\ (j # m => hist'[j].count = hist[j].count)
          /\ CountOf(hist') = CountOf(hist) + 0 - hist[m].count
      BY <1>3, <3>1, SumsChange
    <3>3. LongTimes(hist')
      BY <1>3, <3>2 DEF LongTimes
    <3>4. CountOf(hist') <= stops'
      <4>1. CountOf(hist) \in Nat /\ hist[m].count \in Nat
        BY <1>3, <1>5, <3>1, SumsAreNumbers
      <4> QED BY <1>2, <1>3, <3>2, <4>1
    <3>5. i \in Counted(hist')
      BY <1>5, <1>7, <3>1, <3>2 DEF Counted
    <3> QED BY <3>3, <3>4, <3>5
  <2>2. CASE MaxIndex \notin 1..Len(hist)
    <3>1. hist' = hist
      <4>1. hist = [j \in 1..Len(hist) |-> hist[j]]
        BY <1>3, <1>5, LenProperties
      <4> QED BY <1>2, <1>5, <2>2, <4>1 DEF WithCount
    <3> QED BY <1>2, <1>3, <3>1
  <2> QED BY <2>1, <2>2
<1>9. AverageIsClose'
  BY <1>2, <1>3 DEF AverageIsClose
<1>10. total' \in Nat /\ start' \in 0..(Giga - 1)
  BY <1>2 DEF SumsInv
<1>11. phase' = "ending" /\ dropped' = TRUE /\ dropped' \in BOOLEAN /\ average' = NULL
       /\ stops' = iterations'
  BY <1>2, <1>3
<1> QED BY <1>1, <1>4, <1>8, <1>9, <1>10, <1>11 DEF SumsInv

\* The average that is returned when nothing was dropped
LEMMA SumsReturn ==
    ASSUME SumsInv, PassAndReturn
    PROVE  SumsInv'
<1>1. ProfilerInv'
  BY ProfilerStep DEF SumsInv, Next, Pass
<1>2. /\ phase = "ending" /\ Counted(hist) # {} /\ average' = <<sum + Sum, N>>
      /\ phase' = "idle" /\ sum' = 0
      /\ UNCHANGED <<iterations, hist, total, start, stops, dropped>>
  BY DEF PassAndReturn, data
<1>3. hist \in Seq(Entry) /\ LongTimes(hist) /\ stops \in Nat /\ CountOf(hist) <= stops
      /\ Len(hist) <= stops
  BY DEF SumsInv, ProfilerInv, Measured
<1>4. N = CountOf(hist) /\ Sum = TimeOf(hist)
  BY DEF N, Sum, CountOf, TimeOf
<1>5. AverageIsClose'
  <2> SUFFICES ASSUME ~dropped
               PROVE  average'[2] = stops' /\ Distance(average'[1], total') < Precise * stops'
    BY <1>2 DEF AverageIsClose
  <2>1. Kept /\ sum = 0
    BY <1>2 DEF SumsInv
  <2>2. average'[1] = TimeOf(hist) /\ average'[2] = stops
    <3>1. TimeOf(hist) \in Int
      BY <1>3, SumsAreNumbers
    <3> QED BY <1>2, <1>4, <2>1, <3>1 DEF Kept
  <2>3. stops > 0
    <3>1. Len(hist) \in Nat /\ DOMAIN hist = 1..Len(hist)
      BY <1>3, EntriesOf
    <3>2. PICK i \in 1..Len(hist) : TRUE
      BY <1>2, <3>1 DEF Counted
    <3> QED BY <1>3, <3>1, <3>2
  <2>4. Distance(TimeOf(hist), total) < Precise * stops
    <3>1. Precise * stops \in Int
      BY <1>3
    <3>2. TimeOf(hist) \in Int /\ total \in Int
      BY <1>3, SumsAreNumbers DEF SumsInv
    <3>3. Distance(TimeOf(hist), total) \in Int
      BY <3>2, DistanceIsSymmetric
    <3>4. Distance(TimeOf(hist), total) <= Precise * stops - stops
      BY <2>1 DEF Kept
    <3> QED BY <1>3, <2>3, <3>1, <3>3, <3>4
  <2> QED BY <1>2, <2>2, <2>4
<1>6. (~dropped => Kept)' /\ LongTimes(hist') /\ CountOf(hist') <= stops'
  BY <1>2, <1>3 DEF SumsInv, Kept
<1>7. sum' \in Nat /\ phase' = "idle"
  BY <1>2
<1>8. total' \in Nat /\ start' \in 0..(Giga - 1) /\ dropped' \in BOOLEAN
  BY <1>2 DEF SumsInv
<1> QED BY <1>1, <1>5, <1>6, <1>7, <1>8 DEF SumsInv

\* A step that leaves the histogram and the average alone
LEMMA SumsSame ==
    ASSUME SumsInv, ProfilerInv', UNCHANGED <<iterations, hist, total, sum, average, stops, dropped>>,
           start' \in 0..(Giga - 1), phase' \in {"idle", "armed", "running", "crashed"},
           phase' = "crashed" => phase = "crashed" \/ ~(iterations > 0),
           average # NULL => phase' = "idle",
           phase' \in {"armed", "running"} => ~dropped
    PROVE  SumsInv'
<1>1. /\ Kept' <=> Kept
      /\ AverageIsClose' <=> AverageIsClose
      /\ LongTimes(hist') <=> LongTimes(hist)
  BY DEF Kept, AverageIsClose
<1>2. phase' \in {"ending", "crashed"} /\ iterations' > 0 => Counted(hist') # {}
  BY DEF SumsInv
<1> QED BY <1>1, <1>2 DEF SumsInv

\* Every call, and every pass of oil_profiler_end, keeps the invariant of the sums.
LEMMA SumsStep == ASSUME SumsInv, [Next]_vars PROVE SumsInv'
<1>0. ProfilerInv'
  BY ProfilerStep DEF SumsInv
<1>1. ASSUME NEW n \in Iterations, oil_profiler_begin(n) PROVE SumsInv'
  BY <1>1, SumsBegin
<1>2. ASSUME NEW nsec \in Starts, oil_profiler_start(nsec) PROVE SumsInv'
  <2>1. /\ phase = "armed" /\ phase' = "running" /\ start' = nsec
        /\ UNCHANGED <<iterations, hist, total, sum, average, stops, dropped>>
    BY <1>2 DEF oil_profiler_start
  <2>2. average = NULL /\ ~dropped /\ start' \in 0..(Giga - 1)
    BY <2>1 DEF SumsInv
  <2> QED BY <1>0, <2>1, <2>2, SumsSame
<1>3. ASSUME NEW d \in Durations, oil_profiler_stop(d) PROVE SumsInv'
  BY <1>3, SumsStop
<1>4. ASSUME Fault PROVE SumsInv'
  <2>1. /\ phase' = "idle"
        /\ UNCHANGED <<iterations, hist, total, start, sum, average, stops, dropped>>
    BY <1>4 DEF Fault, data
  <2>2. start' \in 0..(Giga - 1)
    BY <2>1 DEF SumsInv
  <2> QED BY <1>0, <2>1, <2>2, SumsSame
<1>5. ASSUME oil_profiler_end PROVE SumsInv'
  BY <1>5, SumsEnd
<1>6. ASSUME PassOverNothing PROVE SumsInv'
  <2>1. /\ phase = "ending" /\ Counted(hist) = {} /\ phase' = "crashed"
        /\ UNCHANGED <<iterations, hist, total, start, sum, average, stops, dropped>>
    BY <1>6 DEF PassOverNothing, data
  <2>2. start' \in 0..(Giga - 1) /\ average = NULL /\ ~(iterations > 0)
    BY <2>1 DEF SumsInv
  <2> QED BY <1>0, <2>1, <2>2, SumsSame
<1>7. ASSUME PassAndDrop PROVE SumsInv'
  BY <1>7, SumsDrop
<1>8. ASSUME PassAndReturn PROVE SumsInv'
  BY <1>8, SumsReturn
<1>9. ASSUME UNCHANGED vars PROVE SumsInv'
  <2>1. UNCHANGED <<phase, iterations, hist, total, start, sum, average, stops, dropped>>
    BY <1>9 DEF vars
  <2>2. /\ Kept' <=> Kept
        /\ AverageIsClose' <=> AverageIsClose
    BY <2>1 DEF Kept, AverageIsClose
  <2> QED BY <1>0, <2>1, <2>2 DEF SumsInv
<1> QED BY <1>1, <1>2, <1>3, <1>4, <1>5, <1>6, <1>7, <1>8, <1>9 DEF Next, Pass

\* The invariant of the sums holds whatever is measured.
THEOREM SumsInvariance == Spec => []SumsInv
<1>1. SumsInv /\ [Next]_vars => SumsInv'
  BY SumsStep
<1> QED BY <1>1, SumsInit, PTL DEF Spec

\* Every measurement is counted once unless its entry was dropped, and the arrays are
\* never written beyond what was allocated.
THEOREM MeasurementsAreCounted == Spec => []HistogramFits
<1>1. ASSUME SumsInv PROVE HistogramFits
  <2>1. hist \in Seq(Entry) /\ Len(hist) <= stops /\ stops <= iterations /\ stops \in Nat
        /\ iterations \in Nat
    BY <1>1 DEF SumsInv, ProfilerInv, Measured
  <2>2. Len(hist) <= iterations
    BY <2>1, LenProperties
  <2>3. N = CountOf(hist)
    BY DEF N, CountOf
  <2>4. total \in Int /\ sum \in Int
    BY <1>1 DEF SumsInv
  <2> QED BY <1>1, <2>1, <2>2, <2>3, <2>4 DEF SumsInv, Kept, HistogramFits
<1> QED BY <1>1, SumsInvariance, PTL

\* The average that is returned when nothing was dropped differs from the average measured
\* by less than the precision of the timer, however the histogram lumps measurements.
THEOREM AveragesAreClose == Spec => []AverageIsClose
<1>1. SumsInv => AverageIsClose
  BY DEF SumsInv
<1> QED BY <1>1, SumsInvariance, PTL

\* However many measurements are dropped, one stays: the loop never divides by zero, nor
\* reads the entry before the first, unless no iteration was asked for.
THEOREM OneStays == Spec => []OneIsKept
<1>1. SumsInv => OneIsKept
  BY DEF SumsInv, OneIsKept
<1> QED BY <1>1, SumsInvariance, PTL
=============================================================================
