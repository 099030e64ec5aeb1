--------------------------- MODULE OilSample_proofs ---------------------------
(***************************************************************************)
(* Theorems about the test data, for any options, prototypes and numbers:  *)
(* the frames of the configuration own their objects, whatever the options *)
(* of a call, and the layouts give the functions the room they need and    *)
(* the checker what it has to look at.                                      *)
(***************************************************************************)
EXTENDS OilSample, FiniteSetTheorems, SequenceTheorems, WellFoundedInduction, TLAPS

USE OilTestConfigAssumption, NoGeneratorAssumption

-----------------------------------------------------------------------------
(* Induction over numbers, by the least counterexample *)

\* A set of numbers that is not empty has a least element.
LEMMA LeastNumber ==
    ASSUME NEW S \in SUBSET Nat, S # {}
    PROVE  \E n \in S : \A m \in S : n <= m
<1> DEFINE R == {ss \in Nat \X Nat : ss[1] < ss[2]}
<1>1. IsWellFoundedOn(R, Nat)
  BY NatLessThanWellFounded, Zenon DEF OpToRel
<1> HIDE DEF R
<1>2. PICK n \in S : \A m \in S : <<m, n>> \notin R
  BY <1>1, WFMin
<1>3. ASSUME NEW m \in S PROVE n <= m
  <2>1. <<m, n>> \notin R
    BY <1>2
  <2> QED BY <2>1 DEF R
<1> QED BY <1>3

\* A set of numbers that has 0, and with a number the next one, has all.
LEMMA AllNumbers ==
    ASSUME NEW S, 0 \in S, \A n \in Nat : n \in S => n + 1 \in S
    PROVE  Nat \subseteq S
<1> SUFFICES ASSUME Nat \ S # {} PROVE FALSE
  OBVIOUS
<1>1. PICK n \in Nat \ S : \A m \in Nat \ S : n <= m
  BY LeastNumber
<1>2. n # 0 /\ n - 1 \in Nat /\ n = (n - 1) + 1
  BY <1>1
<1>3. n - 1 \in S
  <2>1. ~(n <= n - 1)
    BY <1>1
  <2> QED BY <1>1, <1>2, <2>1
<1> QED BY <1>1, <1>2, <1>3

-----------------------------------------------------------------------------
(* The objects of a heap and who owns them *)

Strings == [Cells -> Seeds \cup CutSeeds \cup {NULL}]
Rands == [Cells -> Generator \cup {NULL}]

\* The objects of a heap are those that own points to, each one once
Holds(heap, own) ==
    /\ \A a \in Cells : heap[a] # NULL <=> \E i \in DOMAIN own : own[i] = a
    /\ \A i, j \in DOMAIN own : own[i] = own[j] => i = j

\* As many objects as owners.
LEMMA OwnersCount ==
    ASSUME NEW n \in Nat, NEW own \in [1..n -> Cells], NEW heap, Holds(heap, own)
    PROVE  Cardinality({a \in Cells : heap[a] # NULL}) = n
<1> DEFINE T == {a \in Cells : heap[a] # NULL}
<1>1. own \in Bijection(1..n, T)
  <2>1. \A i \in 1..n : own[i] \in T
    BY DEF Holds
  <2>2. own \in [1..n -> T]
    BY <2>1
  <2>3. \A a \in T : \E i \in 1..n : own[i] = a
    BY DEF Holds
  <2>4. \A i, j \in 1..n : own[i] = own[j] => i = j
    BY DEF Holds
  <2> HIDE DEF T
  <2> QED BY <2>2, <2>3, <2>4 DEF Bijection, Injection, Surjection, IsInjective
<1>2. ExistsBijection(1..n, T)
  BY <1>1 DEF ExistsBijection
<1>3. IsFiniteSet(1..n) /\ Cardinality(1..n) = n
  BY FS_Interval
<1> QED BY <1>2, <1>3, FS_Bijection

\* There is always an address for one object more.
LEMMA FreeCell ==
    ASSUME NEW n \in 0..MaxHeight, NEW own \in [1..n -> Cells], NEW heap, Holds(heap, own)
    PROVE  Free(heap) \in Cells /\ heap[Free(heap)] = NULL
<1> DEFINE F == {a \in Cells : heap[a] = NULL}
<1>1. F # {}
  <2>1. SUFFICES ASSUME F = {} PROVE FALSE
    OBVIOUS
  <2>2. {a \in Cells : heap[a] # NULL} = Cells
    BY <2>1
  <2>3. Cardinality(Cells) = n
    BY <2>2, OwnersCount
  <2> QED BY <2>3
<1>2. F \in SUBSET Nat
  OBVIOUS
<1> HIDE DEF F
<1>3. PICK a \in F : \A b \in F : a <= b
  BY <1>1, <1>2, LeastNumber
<1> QED BY <1>3 DEF F, Free

\* m owners: the n of own, and one more that points to a
OneMore(new, m, own, n, a) == m = n + 1 /\ new[m] = a /\ \A i \in 1..n : new[i] = own[i]

\* A new object and its owner.
LEMMA HeldByOneMore ==
    ASSUME NEW n \in Nat, NEW m \in Nat,
           NEW own \in [1..n -> Cells], NEW new \in [1..m -> Cells],
           NEW heap, DOMAIN heap = Cells, Holds(heap, own),
           NEW a \in Cells, OneMore(new, m, own, n, a), heap[a] = NULL, NEW v, v # NULL,
           NEW h, h = [heap EXCEPT ![a] = v]
    PROVE  Holds(h, new)
<1>0. m = n + 1 /\ new[m] = a /\ \A i \in 1..n : new[i] = own[i]
  BY DEF OneMore
<1>1. a \in Cells /\ h[a] = v /\ \A b \in Cells : b # a => h[b] = heap[b]
  OBVIOUS
<1>2. ASSUME NEW i \in 1..n PROVE heap[own[i]] # NULL /\ own[i] # a
  <2>1. own[i] \in Cells /\ i \in DOMAIN own
    OBVIOUS
  <2> QED BY <2>1 DEF Holds
<1>3. \A i \in 1..m : i = m \/ i \in 1..n
  BY <1>0
<1>4. m \in 1..m /\ \A i \in 1..n : i \in 1..m
  BY <1>0
<1>5. ASSUME NEW b \in Cells PROVE h[b] # NULL <=> \E i \in 1..m : new[i] = b
  <2>1. CASE b = a
    BY <1>0, <1>1, <1>4, <2>1
  <2>2. CASE b # a
    <3>1. h[b] # NULL <=> \E i \in 1..n : own[i] = b
      <4>1. h[b] = heap[b] /\ DOMAIN own = 1..n
        BY <1>1, <2>2
      <4> QED BY <4>1 DEF Holds
    <3> QED BY <1>0, <1>3, <1>4, <2>2, <3>1
  <2> QED BY <2>1, <2>2
<1>6. ASSUME NEW i \in 1..m, NEW j \in 1..m, new[i] = new[j] PROVE i = j
  <2>1. CASE i \in 1..n /\ j \in 1..n
    BY <1>0, <1>6, <2>1 DEF Holds
  <2>2. CASE i = m /\ j \in 1..n
    BY <1>0, <1>2, <1>6, <2>2
  <2>3. CASE i \in 1..n /\ j = m
    BY <1>0, <1>2, <1>6, <2>3
  <2> QED BY <1>3, <2>1, <2>2, <2>3
<1>7. DOMAIN new = 1..m
  OBVIOUS
<1> QED BY <1>5, <1>6, <1>7 DEF Holds

\* A new object instead of an old one.
LEMMA HeldInstead ==
    ASSUME NEW n \in Nat, NEW own \in [1..n -> Cells], NEW k \in 1..n,
           NEW heap, DOMAIN heap = Cells, Holds(heap, own),
           NEW a \in Cells, heap[a] = NULL, NEW v, v # NULL,
           NEW h, h = [heap EXCEPT ![a] = v, ![own[k]] = NULL],
           NEW new, new = [own EXCEPT ![k] = a]
    PROVE  Holds(h, new) /\ a # own[k]
<1>1. own[k] \in Cells /\ heap[own[k]] # NULL /\ own[k] # a
  <2>1. own[k] \in Cells /\ k \in DOMAIN own
    OBVIOUS
  <2> QED BY <2>1 DEF Holds
<1>2. /\ h[a] = v /\ h[own[k]] = NULL
      /\ \A b \in Cells : b # a /\ b # own[k] => h[b] = heap[b]
  BY <1>1
<1>3. DOMAIN new = 1..n /\ new[k] = a /\ \A i \in 1..n : i # k => new[i] = own[i]
  OBVIOUS
<1>4. \A i \in 1..n : own[i] # a /\ (i # k => own[i] # own[k])
  BY DEF Holds
<1>5. ASSUME NEW b \in Cells PROVE h[b] # NULL <=> \E i \in 1..n : new[i] = b
  <2>1. CASE b = a
    BY <1>2, <1>3, <2>1
  <2>2. CASE b = own[k]
    BY <1>1, <1>2, <1>3, <1>4, <2>2
  <2>3. CASE b # a /\ b # own[k]
    <3>1. h[b] # NULL <=> \E i \in 1..n : own[i] = b
      BY <1>2, <2>3 DEF Holds
    <3> QED BY <1>3, <2>3, <3>1
  <2> QED BY <2>1, <2>2, <2>3
<1>6. ASSUME NEW i \in 1..n, NEW j \in 1..n, new[i] = new[j] PROVE i = j
  <2>1. CASE i # k /\ j # k
    BY <1>3, <1>6, <2>1 DEF Holds
  <2>2. CASE i = k \/ j = k
    BY <1>3, <1>4, <1>6, <2>2
  <2> QED BY <2>1, <2>2
<1>7. Holds(h, new)
  BY <1>3, <1>5, <1>6 DEF Holds
<1> QED BY <1>1, <1>7

\* The object at a is gone
Without(h, heap, a) == h[a] = NULL /\ \A b \in Cells : b # a => h[b] = heap[b]

\* The last owner gone, with its object.
LEMMA HeldByOneLess ==
    ASSUME NEW n \in Nat \ {0}, NEW m \in Nat,
           NEW own \in [1..n -> Cells], NEW new \in [1..m -> Cells],
           NEW a, NEW heap, NEW h, Holds(heap, own), OneMore(own, n, new, m, a),
           Without(h, heap, a)
    PROVE  Holds(h, new)
<1>0. n = m + 1 /\ own[n] = a /\ \A i \in 1..m : new[i] = own[i]
  BY DEF OneMore
<1>9. h[own[n]] = NULL /\ \A b \in Cells : b # own[n] => h[b] = heap[b]
  BY <1>0 DEF Without
<1>1. \A i \in 1..n : i = n \/ i \in 1..m
  BY <1>0
<1>2. n \in 1..n /\ \A i \in 1..m : i \in 1..n /\ i # n
  BY <1>0
<1>3. DOMAIN own = 1..n /\ DOMAIN new = 1..m /\ own[n] \in Cells
  BY <1>2
<1>4. \A i, j \in 1..n : own[i] = own[j] => i = j
  BY <1>3 DEF Holds
<1>5. ASSUME NEW b \in Cells PROVE h[b] # NULL <=> \E i \in 1..m : new[i] = b
  <2>1. CASE b = own[n]
    BY <1>0, <1>2, <1>4, <1>9, <2>1
  <2>2. CASE b # own[n]
    <3>1. h[b] # NULL <=> \E i \in 1..n : own[i] = b
      BY <1>3, <1>9, <2>2 DEF Holds
    <3> QED BY <1>0, <1>1, <1>2, <2>2, <3>1
  <2> QED BY <2>1, <2>2
<1>6. \A i, j \in 1..m : new[i] = new[j] => i = j
  BY <1>0, <1>2, <1>4
<1> QED BY <1>3, <1>5, <1>6 DEF Holds

-----------------------------------------------------------------------------
(* The frames and their objects *)

StringsOf(stk) == [i \in DOMAIN stk |-> stk[i].seed_str]
RandsOf(stk) == [i \in DOMAIN stk |-> stk[i].rand]

\* The inductive invariant of the configuration: what lives on the heaps is what
\* the frames own, and each generator was made from the string beside it
Owned(stk, strs, rnds) ==
    /\ stk \in Seq(Frame) /\ Len(stk) <= MaxHeight
    /\ strs \in Strings /\ rnds \in Rands
    /\ Holds(strs, StringsOf(stk)) /\ Holds(rnds, RandsOf(stk))
    /\ \A i \in DOMAIN stk : rnds[stk[i].rand].of = strs[stk[i].seed_str]

\* The lowest k frames of a configuration, and what they own, are those of another
Beneath(k, stk, strs, rnds, t, u, r) ==
    \A i \in 1..k : /\ t[i] = stk[i]
                    /\ u[stk[i].seed_str] = strs[stk[i].seed_str]
                    /\ r[stk[i].rand] = rnds[stk[i].rand]

\* What the invariant says of a frame.
LEMMA FrameOwns ==
    ASSUME NEW stk, NEW strs, NEW rnds, Owned(stk, strs, rnds)
    PROVE  /\ Len(stk) \in 0..MaxHeight /\ DOMAIN stk = 1..Len(stk)
           /\ StringsOf(stk) \in [1..Len(stk) -> Cells] /\ RandsOf(stk) \in [1..Len(stk) -> Cells]
           /\ \A i \in 1..Len(stk) :
                 /\ stk[i] \in Frame /\ stk[i].seed_str \in Cells /\ stk[i].rand \in Cells
                 /\ StringsOf(stk)[i] = stk[i].seed_str /\ RandsOf(stk)[i] = stk[i].rand
                 /\ strs[stk[i].seed_str] \in Seeds \cup CutSeeds
                 /\ rnds[stk[i].rand] \in Generator
           /\ \A i, j \in 1..Len(stk) :
                 stk[i].seed_str = stk[j].seed_str \/ stk[i].rand = stk[j].rand => i = j
<1>1. stk \in Seq(Frame) /\ Len(stk) <= MaxHeight
  BY DEF Owned
<1>2. Len(stk) \in Nat /\ DOMAIN stk = 1..Len(stk) /\ \A i \in 1..Len(stk) : stk[i] \in Frame
  BY <1>1, LenProperties
<1>3. \A i \in 1..Len(stk) : stk[i].seed_str \in Cells /\ stk[i].rand \in Cells
  BY <1>2 DEF Frame
<1>4. /\ StringsOf(stk) \in [1..Len(stk) -> Cells] /\ RandsOf(stk) \in [1..Len(stk) -> Cells]
      /\ \A i \in 1..Len(stk) : StringsOf(stk)[i] = stk[i].seed_str /\ RandsOf(stk)[i] = stk[i].rand
  BY <1>2, <1>3 DEF StringsOf, RandsOf
<1>5. strs \in Strings /\ rnds \in Rands /\ Holds(strs, StringsOf(stk)) /\ Holds(rnds, RandsOf(stk))
  BY DEF Owned
<1>6. ASSUME NEW i \in 1..Len(stk)
      PROVE  strs[stk[i].seed_str] \in Seeds \cup CutSeeds /\ rnds[stk[i].rand] \in Generator
  <2>1. i \in DOMAIN StringsOf(stk) /\ i \in DOMAIN RandsOf(stk)
    BY <1>4
  <2>2. strs[stk[i].seed_str] # NULL /\ rnds[stk[i].rand] # NULL
    BY <1>3, <1>4, <1>5, <2>1 DEF Holds
  <2> QED BY <1>3, <1>5, <2>2 DEF Strings, Rands
<1>7. \A i, j \in 1..Len(stk) :
         stk[i].seed_str = stk[j].seed_str \/ stk[i].rand = stk[j].rand => i = j
  BY <1>4, <1>5 DEF Holds
<1>8. Len(stk) \in 0..MaxHeight
  BY <1>1, <1>2
<1> QED BY <1>2, <1>3, <1>4, <1>6, <1>7, <1>8

\* So the property holds.
LEMMA OwnedIsOwned ==
    ASSUME Owned(stack, strings, rands), died \in BOOLEAN
    PROVE  FramesOwnObjects /\ TypeOK
<1>1. /\ Len(stack) \in Nat /\ DOMAIN stack = 1..Len(stack)
      /\ StringsOf(stack) \in [1..Len(stack) -> Cells] /\ RandsOf(stack) \in [1..Len(stack) -> Cells]
      /\ \A i \in 1..Len(stack) :
            /\ stack[i] \in Frame
            /\ strings[stack[i].seed_str] \in Seeds \cup CutSeeds
            /\ rands[stack[i].rand] \in Generator
      /\ \A i, j \in 1..Len(stack) :
            stack[i].seed_str = stack[j].seed_str \/ stack[i].rand = stack[j].rand => i = j
  BY FrameOwns
<1>2. \A i \in 1..Len(stack) : strings[stack[i].seed_str] # NULL /\ rands[stack[i].rand] # NULL
  BY <1>1
<1>3. /\ Holds(strings, StringsOf(stack)) /\ Holds(rands, RandsOf(stack))
      /\ strings \in Strings /\ rands \in Rands /\ Len(stack) <= MaxHeight
      /\ \A i \in DOMAIN stack : rands[stack[i].rand].of = strings[stack[i].seed_str]
  BY DEF Owned
<1>4. /\ Cardinality({a \in Cells : strings[a] # NULL}) = Len(stack)
      /\ Cardinality({a \in Cells : rands[a] # NULL}) = Len(stack)
  BY <1>1, <1>3, OwnersCount
<1>5. FramesOwnObjects
  BY <1>1, <1>2, <1>3, <1>4 DEF FramesOwnObjects
<1>6. TypeOK
  BY <1>1, <1>3 DEF TypeOK, Strings, Rands
<1> QED BY <1>5, <1>6

\* A frame is pushed with new objects.
LEMMA FramePushed ==
    ASSUME NEW stk, NEW strs, NEW rnds, Owned(stk, strs, rnds), Len(stk) < MaxHeight,
           NEW f \in Frame, f.seed_str = Free(strs), f.rand = Free(rnds),
           NEW str \in Seeds \cup CutSeeds, NEW gen \in Generator, gen.of = str,
           NEW u, u = [strs EXCEPT ![f.seed_str] = str],
           NEW r, r = [rnds EXCEPT ![f.rand] = gen]
    PROVE  /\ Owned(Append(stk, f), u, r)
           /\ Beneath(Len(stk), stk, strs, rnds, Append(stk, f), u, r)
<1> DEFINE t == Append(stk, f)
           n == Len(stk)
<1>1. /\ stk \in Seq(Frame) /\ strs \in Strings /\ rnds \in Rands
      /\ Holds(strs, StringsOf(stk)) /\ Holds(rnds, RandsOf(stk))
      /\ \A i \in DOMAIN stk : rnds[stk[i].rand].of = strs[stk[i].seed_str]
  BY DEF Owned
<1>2. /\ n \in 0..MaxHeight /\ n \in Nat /\ DOMAIN stk = 1..n
      /\ StringsOf(stk) \in [1..n -> Cells] /\ RandsOf(stk) \in [1..n -> Cells]
      /\ \A i \in 1..n :
            /\ stk[i].seed_str \in Cells /\ stk[i].rand \in Cells
            /\ StringsOf(stk)[i] = stk[i].seed_str /\ RandsOf(stk)[i] = stk[i].rand
            /\ strs[stk[i].seed_str] \in Seeds \cup CutSeeds
            /\ rnds[stk[i].rand] \in Generator
  BY FrameOwns
<1>3. t \in Seq(Frame) /\ Len(t) = n + 1 /\ t[n + 1] = f /\ \A i \in 1..n : t[i] = stk[i]
  BY <1>1, AppendProperties
<1>4. DOMAIN t = 1..(n + 1)
  BY <1>3, LenProperties
<1>5. /\ f.seed_str \in Cells /\ strs[f.seed_str] = NULL
      /\ f.rand \in Cells /\ rnds[f.rand] = NULL
  <2>1. Free(strs) \in Cells /\ strs[Free(strs)] = NULL
    BY <1>1, <1>2, FreeCell
  <2>2. Free(rnds) \in Cells /\ rnds[Free(rnds)] = NULL
    BY <1>1, <1>2, FreeCell
  <2> QED BY <2>1, <2>2
<1> HIDE DEF t, n
<1>6. \A i \in 1..(n + 1) : i = n + 1 \/ i \in 1..n
  BY <1>2
<1>7. n + 1 \in 1..(n + 1) /\ \A i \in 1..n : i \in 1..(n + 1)
  BY <1>2
<1>8. \A i \in 1..(n + 1) : t[i].seed_str \in Cells /\ t[i].rand \in Cells
  BY <1>2, <1>3, <1>5, <1>6
<1>9. /\ StringsOf(t) \in [1..(n + 1) -> Cells] /\ RandsOf(t) \in [1..(n + 1) -> Cells]
      /\ \A i \in 1..(n + 1) : StringsOf(t)[i] = t[i].seed_str /\ RandsOf(t)[i] = t[i].rand
  <2>1. StringsOf(t) = [i \in 1..(n + 1) |-> t[i].seed_str]
    BY <1>4 DEF StringsOf
  <2>2. RandsOf(t) = [i \in 1..(n + 1) |-> t[i].rand]
    BY <1>4 DEF RandsOf
  <2>3. /\ StringsOf(t) \in [1..(n + 1) -> Cells]
        /\ \A i \in 1..(n + 1) : StringsOf(t)[i] = t[i].seed_str
    BY <1>8, <2>1
  <2>4. /\ RandsOf(t) \in [1..(n + 1) -> Cells]
        /\ \A i \in 1..(n + 1) : RandsOf(t)[i] = t[i].rand
    BY <1>8, <2>2
  <2> QED BY <2>3, <2>4
<1>10. /\ StringsOf(t)[n + 1] = f.seed_str /\ RandsOf(t)[n + 1] = f.rand
       /\ \A i \in 1..n : StringsOf(t)[i] = StringsOf(stk)[i] /\ RandsOf(t)[i] = RandsOf(stk)[i]
  BY <1>2, <1>3, <1>7, <1>9
<1>11. Holds(u, StringsOf(t))
  <2> DEFINE own == StringsOf(stk)
             new == StringsOf(t)
             m == n + 1
  <2>1. DOMAIN strs = Cells /\ str # NULL /\ Holds(strs, own)
    BY <1>1 DEF Strings
  <2>2. n \in Nat /\ m \in Nat /\ own \in [1..n -> Cells] /\ new \in [1..m -> Cells]
    BY <1>2, <1>9
  <2>3. f.seed_str \in Cells /\ strs[f.seed_str] = NULL
    BY <1>5, <1>10
  <2>4. OneMore(new, m, own, n, f.seed_str)
    BY <1>10 DEF OneMore
  <2>5. u = [strs EXCEPT ![f.seed_str] = str]
    OBVIOUS
  <2> HIDE DEF own, new, m
  <2>6. Holds(u, new)
    BY ONLY <2>1, <2>2, <2>3, <2>4, <2>5, HeldByOneMore
  <2> QED BY <2>6 DEF new
<1>12. Holds(r, RandsOf(t))
  <2> DEFINE own == RandsOf(stk)
             new == RandsOf(t)
             m == n + 1
  <2>1. DOMAIN rnds = Cells /\ gen # NULL /\ Holds(rnds, own)
    BY <1>1 DEF Rands
  <2>2. n \in Nat /\ m \in Nat /\ own \in [1..n -> Cells] /\ new \in [1..m -> Cells]
    BY <1>2, <1>9
  <2>3. f.rand \in Cells /\ rnds[f.rand] = NULL
    BY <1>5, <1>10
  <2>4. OneMore(new, m, own, n, f.rand)
    BY <1>10 DEF OneMore
  <2>5. r = [rnds EXCEPT ![f.rand] = gen]
    OBVIOUS
  <2> HIDE DEF own, new, m
  <2>6. Holds(r, new)
    BY ONLY <2>1, <2>2, <2>3, <2>4, <2>5, HeldByOneMore
  <2> QED BY <2>6 DEF new
<1>13. u \in Strings /\ r \in Rands
  BY <1>1 DEF Strings, Rands
<1>14. u[f.seed_str] = str /\ r[f.rand] = gen
  BY <1>1, <1>5 DEF Strings, Rands
<1>15. ASSUME NEW i \in 1..n
       PROVE  u[stk[i].seed_str] = strs[stk[i].seed_str] /\ r[stk[i].rand] = rnds[stk[i].rand]
  <2>1. stk[i].seed_str # f.seed_str /\ stk[i].rand # f.rand
    BY <1>2, <1>5
  <2> QED BY <1>1, <1>2, <2>1 DEF Strings, Rands
<1>16. \A i \in 1..(n + 1) : r[t[i].rand].of = u[t[i].seed_str]
  BY <1>1, <1>2, <1>3, <1>6, <1>14, <1>15
<1>17. Owned(t, u, r)
  <2>1. n + 1 <= MaxHeight
    BY <1>2 DEF n
  <2> QED BY <1>3, <1>4, <1>11, <1>12, <1>13, <1>16, <2>1 DEF Owned
<1>18. Beneath(n, stk, strs, rnds, t, u, r)
  BY <1>3, <1>15 DEF Beneath
<1> QED BY <1>17, <1>18 DEF t, n

\* The top frame gets new objects for its own.
LEMMA FrameReseeded ==
    ASSUME NEW stk, NEW strs, NEW rnds, Owned(stk, strs, rnds), Len(stk) # 0,
           NEW f \in Frame, f.seed_str = Free(strs), f.rand = Free(rnds),
           NEW str \in Seeds \cup CutSeeds, NEW gen \in Generator, gen.of = str,
           NEW t, t = [stk EXCEPT ![Len(stk)] = f],
           NEW u, u = [strs EXCEPT ![f.seed_str] = str, ![stk[Len(stk)].seed_str] = NULL],
           NEW r, r = [rnds EXCEPT ![f.rand] = gen, ![stk[Len(stk)].rand] = NULL]
    PROVE  Owned(t, u, r) /\ Beneath(Len(stk) - 1, stk, strs, rnds, t, u, r)
<1> DEFINE n == Len(stk)
<1>1. /\ stk \in Seq(Frame) /\ strs \in Strings /\ rnds \in Rands
      /\ Holds(strs, StringsOf(stk)) /\ Holds(rnds, RandsOf(stk))
      /\ \A i \in DOMAIN stk : rnds[stk[i].rand].of = strs[stk[i].seed_str]
  BY DEF Owned
<1>2. /\ n \in 1..MaxHeight /\ n \in 0..MaxHeight /\ n \in Nat /\ n \in 1..n /\ DOMAIN stk = 1..n
      /\ StringsOf(stk) \in [1..n -> Cells] /\ RandsOf(stk) \in [1..n -> Cells]
      /\ \A i \in 1..n :
            /\ stk[i].seed_str \in Cells /\ stk[i].rand \in Cells
            /\ StringsOf(stk)[i] = stk[i].seed_str /\ RandsOf(stk)[i] = stk[i].rand
            /\ strs[stk[i].seed_str] \in Seeds \cup CutSeeds
            /\ rnds[stk[i].rand] \in Generator
      /\ \A i, j \in 1..n :
            stk[i].seed_str = stk[j].seed_str \/ stk[i].rand = stk[j].rand => i = j
  BY FrameOwns
<1>3. /\ t \in Seq(Frame) /\ Len(t) = n /\ t[n] = f /\ DOMAIN t = 1..n
      /\ \A i \in 1..n : i # n => t[i] = stk[i]
  BY <1>1, <1>2, ExceptSeq
<1>4. /\ f.seed_str \in Cells /\ strs[f.seed_str] = NULL
      /\ f.rand \in Cells /\ rnds[f.rand] = NULL
  <2>1. Free(strs) \in Cells /\ strs[Free(strs)] = NULL
    BY <1>1, <1>2, FreeCell
  <2>2. Free(rnds) \in Cells /\ rnds[Free(rnds)] = NULL
    BY <1>1, <1>2, FreeCell
  <2> QED BY <2>1, <2>2
<1> HIDE DEF n
<1>5. /\ StringsOf(t) = [StringsOf(stk) EXCEPT ![n] = f.seed_str]
      /\ RandsOf(t) = [RandsOf(stk) EXCEPT ![n] = f.rand]
  <2>1. \A i \in 1..n : /\ t[i].seed_str = [StringsOf(stk) EXCEPT ![n] = f.seed_str][i]
                         /\ t[i].rand = [RandsOf(stk) EXCEPT ![n] = f.rand][i]
    BY <1>2, <1>3
  <2>2. StringsOf(t) = [i \in 1..n |-> t[i].seed_str] /\ RandsOf(t) = [i \in 1..n |-> t[i].rand]
    BY <1>3 DEF StringsOf, RandsOf
  <2>3. StringsOf(t) = [StringsOf(stk) EXCEPT ![n] = f.seed_str]
    <3>1. DOMAIN StringsOf(stk) = 1..n
      BY <1>2
    <3> QED BY <2>1, <2>2, <3>1
  <2>4. RandsOf(t) = [RandsOf(stk) EXCEPT ![n] = f.rand]
    <3>1. DOMAIN RandsOf(stk) = 1..n
      BY <1>2
    <3> QED BY <2>1, <2>2, <3>1
  <2> QED BY <2>3, <2>4
<1>6. /\ u = [strs EXCEPT ![f.seed_str] = str, ![StringsOf(stk)[n]] = NULL]
      /\ r = [rnds EXCEPT ![f.rand] = gen, ![RandsOf(stk)[n]] = NULL]
  BY <1>2 DEF n
<1>7. Holds(u, StringsOf(t)) /\ f.seed_str # StringsOf(stk)[n]
  <2> DEFINE own == StringsOf(stk)
             new == StringsOf(t)
  <2>1. DOMAIN strs = Cells /\ str # NULL /\ Holds(strs, own)
    BY <1>1 DEF Strings
  <2>2. n \in Nat /\ own \in [1..n -> Cells] /\ n \in 1..n
    BY <1>2
  <2>3. f.seed_str \in Cells /\ strs[f.seed_str] = NULL
    BY <1>4
  <2>4. new = [own EXCEPT ![n] = f.seed_str]
    BY <1>5
  <2>5. u = [strs EXCEPT ![f.seed_str] = str, ![own[n]] = NULL]
    BY <1>6
  <2> HIDE DEF own, new
  <2>6. Holds(u, new) /\ f.seed_str # own[n]
    BY ONLY <2>1, <2>2, <2>3, <2>4, <2>5, HeldInstead
  <2> QED BY <2>6 DEF own, new
<1>8. Holds(r, RandsOf(t)) /\ f.rand # RandsOf(stk)[n]
  <2> DEFINE own == RandsOf(stk)
             new == RandsOf(t)
  <2>1. DOMAIN rnds = Cells /\ gen # NULL /\ Holds(rnds, own)
    BY <1>1 DEF Rands
  <2>2. n \in Nat /\ own \in [1..n -> Cells] /\ n \in 1..n
    BY <1>2
  <2>3. f.rand \in Cells /\ rnds[f.rand] = NULL
    BY <1>4
  <2>4. new = [own EXCEPT ![n] = f.rand]
    BY <1>5
  <2>5. r = [rnds EXCEPT ![f.rand] = gen, ![own[n]] = NULL]
    BY <1>6
  <2> HIDE DEF own, new
  <2>6. Holds(r, new) /\ f.rand # own[n]
    BY ONLY <2>1, <2>2, <2>3, <2>4, <2>5, HeldInstead
  <2> QED BY <2>6 DEF own, new
<1>9. u \in Strings /\ r \in Rands
  BY <1>1 DEF Strings, Rands
<1>10. u[f.seed_str] = str /\ r[f.rand] = gen
  BY <1>1, <1>4, <1>6, <1>7, <1>8 DEF Strings, Rands
<1>11. ASSUME NEW i \in 1..n, i # n
       PROVE  u[stk[i].seed_str] = strs[stk[i].seed_str] /\ r[stk[i].rand] = rnds[stk[i].rand]
  <2>1. stk[i].seed_str # f.seed_str /\ stk[i].rand # f.rand
    BY <1>2, <1>4
  <2>2. stk[i].seed_str # StringsOf(stk)[n] /\ stk[i].rand # RandsOf(stk)[n]
    BY <1>2, <1>11
  <2>3. stk[i].seed_str \in Cells /\ stk[i].rand \in Cells
    BY <1>2
  <2> QED BY <1>1, <1>6, <2>1, <2>2, <2>3 DEF Strings, Rands
<1>12. ASSUME NEW i \in 1..n PROVE r[t[i].rand].of = u[t[i].seed_str]
  <2>1. CASE i = n
    BY <1>3, <1>10, <2>1
  <2>2. CASE i # n
    <3>1. t[i] = stk[i] /\ rnds[stk[i].rand].of = strs[stk[i].seed_str]
      BY <1>1, <1>2, <1>3, <2>2
    <3>2. u[stk[i].seed_str] = strs[stk[i].seed_str] /\ r[stk[i].rand] = rnds[stk[i].rand]
      BY <1>11, <2>2
    <3> QED BY <3>1, <3>2
  <2> QED BY <2>1, <2>2
<1>13. Owned(t, u, r)
  <2>1. n <= MaxHeight
    BY <1>2
  <2> QED BY <1>3, <1>7, <1>8, <1>9, <1>12, <2>1 DEF Owned
<1>14. Beneath(n - 1, stk, strs, rnds, t, u, r)
  <2>1. \A i \in 1..(n - 1) : i \in 1..n /\ i # n
    BY <1>2
  <2> QED BY <1>3, <1>11, <2>1 DEF Beneath
<1> QED BY <1>13, <1>14 DEF n

\* The top frame gets other numbers.
LEMMA FrameSet ==
    ASSUME NEW stk, NEW strs, NEW rnds, Owned(stk, strs, rnds), Len(stk) # 0,
           NEW f \in Frame, f.seed_str = stk[Len(stk)].seed_str, f.rand = stk[Len(stk)].rand,
           NEW t, t = [stk EXCEPT ![Len(stk)] = f]
    PROVE  Owned(t, strs, rnds) /\ Beneath(Len(stk) - 1, stk, strs, rnds, t, strs, rnds)
<1> DEFINE n == Len(stk)
<1>1. /\ stk \in Seq(Frame) /\ strs \in Strings /\ rnds \in Rands /\ n <= MaxHeight
      /\ Holds(strs, StringsOf(stk)) /\ Holds(rnds, RandsOf(stk))
      /\ \A i \in DOMAIN stk : rnds[stk[i].rand].of = strs[stk[i].seed_str]
  BY DEF Owned
<1>2. n \in Nat /\ n \in 1..n /\ DOMAIN stk = 1..n
  BY <1>1, LenProperties
<1>3. /\ t \in Seq(Frame) /\ Len(t) = n /\ t[n] = f /\ DOMAIN t = 1..n
      /\ \A i \in 1..n : i # n => t[i] = stk[i]
  BY <1>1, <1>2, ExceptSeq
<1>4. f.seed_str = stk[n].seed_str /\ f.rand = stk[n].rand
  OBVIOUS
<1> HIDE DEF n
<1>5. \A i \in 1..n : t[i].seed_str = stk[i].seed_str /\ t[i].rand = stk[i].rand
  BY <1>3, <1>4
<1>6. StringsOf(t) = StringsOf(stk) /\ RandsOf(t) = RandsOf(stk)
  BY <1>2, <1>3, <1>5 DEF StringsOf, RandsOf
<1>7. Owned(t, strs, rnds)
  BY <1>1, <1>2, <1>3, <1>5, <1>6 DEF Owned
<1>8. Beneath(n - 1, stk, strs, rnds, t, strs, rnds)
  <2>1. \A i \in 1..(n - 1) : i \in 1..n /\ i # n
    BY <1>2
  <2> QED BY <1>3, <2>1 DEF Beneath
<1> QED BY <1>7, <1>8 DEF n

\* Numbers are drawn from the generator of the top frame.
LEMMA FrameDrawn ==
    ASSUME NEW stk, NEW strs, NEW rnds, Owned(stk, strs, rnds), Len(stk) # 0,
           NEW d \in 0..MaxDraws, NEW r, r = [rnds EXCEPT ![stk[Len(stk)].rand].drawn = d]
    PROVE  Owned(stk, strs, r) /\ Beneath(Len(stk) - 1, stk, strs, rnds, stk, strs, r)
<1> DEFINE n == Len(stk)
           a == stk[n].rand
           g == [rnds[a] EXCEPT !.drawn = d]
<1>1. /\ stk \in Seq(Frame) /\ strs \in Strings /\ rnds \in Rands /\ n <= MaxHeight
      /\ Holds(strs, StringsOf(stk)) /\ Holds(rnds, RandsOf(stk))
      /\ \A i \in DOMAIN stk : rnds[stk[i].rand].of = strs[stk[i].seed_str]
  BY DEF Owned
<1>2. /\ n \in Nat /\ n \in 1..n /\ DOMAIN stk = 1..n
      /\ \A i \in 1..n : stk[i].rand \in Cells /\ rnds[stk[i].rand] \in Generator
      /\ \A i, j \in 1..n : stk[i].rand = stk[j].rand => i = j
  BY FrameOwns
<1>3. a \in Cells /\ rnds[a] \in Generator
  BY <1>2
<1>4. g \in Generator /\ g.of = rnds[a].of
  BY <1>3 DEF Generator
<1>5. r = [rnds EXCEPT ![a] = g]
  OBVIOUS
<1> HIDE DEF g
<1>6. r \in Rands /\ r[a] = g /\ \A b \in Cells : b # a => r[b] = rnds[b]
  BY <1>1, <1>3, <1>4, <1>5 DEF Rands
<1>7. \A b \in Cells : r[b] # NULL <=> rnds[b] # NULL
  BY <1>3, <1>4, <1>6
<1>8. Holds(r, RandsOf(stk))
  BY <1>1, <1>7 DEF Holds
<1>9. ASSUME NEW i \in 1..n PROVE r[stk[i].rand].of = strs[stk[i].seed_str]
  <2>1. stk[i].rand \in Cells /\ rnds[stk[i].rand].of = strs[stk[i].seed_str]
    BY <1>1, <1>2
  <2>2. r[stk[i].rand].of = rnds[stk[i].rand].of
    BY <1>4, <1>6, <2>1
  <2> QED BY <2>1, <2>2
<1>10. Owned(stk, strs, r)
  BY <1>1, <1>2, <1>6, <1>8, <1>9 DEF Owned
<1>11. Beneath(n - 1, stk, strs, rnds, stk, strs, r)
  <2>1. ASSUME NEW i \in 1..(n - 1) PROVE r[stk[i].rand] = rnds[stk[i].rand]
    <3>1. i \in 1..n /\ i # n
      BY <1>2
    <3>2. stk[i].rand # a /\ stk[i].rand \in Cells
      BY <1>2, <3>1
    <3> QED BY <1>6, <3>2
  <2> QED BY <2>1 DEF Beneath
<1> QED BY <1>10, <1>11 DEF n

\* The top frame is freed.
LEMMA FramePopped ==
    ASSUME NEW stk, NEW strs, NEW rnds, Owned(stk, strs, rnds), Len(stk) # 0,
           NEW u \in Strings, Without(u, strs, stk[Len(stk)].seed_str),
           NEW r \in Rands, Without(r, rnds, stk[Len(stk)].rand)
    PROVE  /\ Owned(Front(stk), u, r) /\ Len(Front(stk)) = Len(stk) - 1
           /\ Beneath(Len(stk) - 1, stk, strs, rnds, Front(stk), u, r)
<1> DEFINE n == Len(stk)
           t == Front(stk)
           m == n - 1
           f == stk[n]
<1>1. /\ stk \in Seq(Frame) /\ strs \in Strings /\ rnds \in Rands /\ n <= MaxHeight
      /\ Holds(strs, StringsOf(stk)) /\ Holds(rnds, RandsOf(stk))
      /\ \A i \in DOMAIN stk : rnds[stk[i].rand].of = strs[stk[i].seed_str]
  BY DEF Owned
<1>2. /\ n \in Nat \ {0} /\ n \in 1..n /\ DOMAIN stk = 1..n
      /\ StringsOf(stk) \in [1..n -> Cells] /\ RandsOf(stk) \in [1..n -> Cells]
      /\ \A i \in 1..n :
            /\ stk[i].seed_str \in Cells /\ stk[i].rand \in Cells
            /\ StringsOf(stk)[i] = stk[i].seed_str /\ RandsOf(stk)[i] = stk[i].rand
      /\ \A i, j \in 1..n :
            stk[i].seed_str = stk[j].seed_str \/ stk[i].rand = stk[j].rand => i = j
  BY FrameOwns
<1>3. m \in Nat /\ n = m + 1 /\ m < n /\ \A i \in 1..m : i \in 1..n /\ i # n
  <2>1. n \in Nat \ {0}
    BY <1>2
  <2> HIDE DEF n
  <2> QED BY <2>1
<1>4. t \in Seq(Frame) /\ Len(t) = m /\ DOMAIN t = 1..m /\ \A i \in 1..m : t[i] = stk[i]
  <2>1. t = SubSeq(stk, 1, m)
    BY DEF Front
  <2>2. \A i \in 1..m : stk[i] \in Frame
    BY <1>1, <1>3, ElementOfSeq
  <2> HIDE DEF m, t
  <2>3. /\ t \in Seq(Frame) /\ Len(t) = IF 1 <= m THEN m - 1 + 1 ELSE 0
        /\ \A i \in 1..(m - 1 + 1) : t[i] = stk[1 + i - 1]
    BY <1>3, <2>1, <2>2, SubSeqProperties
  <2>4. t \in Seq(Frame) /\ Len(t) = m /\ \A i \in 1..m : t[i] = stk[i]
    BY <1>3, <2>3
  <2> QED BY <2>4, LenProperties
<1>5. Without(u, strs, f.seed_str) /\ Without(r, rnds, f.rand)
  OBVIOUS
<1> HIDE DEF n, t, m
<1>6. /\ StringsOf(t) \in [1..m -> Cells] /\ RandsOf(t) \in [1..m -> Cells]
      /\ \A i \in 1..m : /\ StringsOf(t)[i] = StringsOf(stk)[i]
                         /\ RandsOf(t)[i] = RandsOf(stk)[i]
  BY <1>2, <1>3, <1>4 DEF StringsOf, RandsOf
<1>7. /\ OneMore(StringsOf(stk), n, StringsOf(t), m, f.seed_str)
      /\ OneMore(RandsOf(stk), n, RandsOf(t), m, f.rand)
  BY <1>2, <1>3, <1>6 DEF OneMore
<1>8. Holds(u, StringsOf(t)) /\ Holds(r, RandsOf(t))
  BY <1>1, <1>2, <1>3, <1>5, <1>6, <1>7, HeldByOneLess
<1>9. ASSUME NEW i \in 1..m
      PROVE  u[stk[i].seed_str] = strs[stk[i].seed_str] /\ r[stk[i].rand] = rnds[stk[i].rand]
  <2>1. stk[i].seed_str # f.seed_str /\ stk[i].rand # f.rand
    BY <1>2, <1>3
  <2>2. stk[i].seed_str \in Cells /\ stk[i].rand \in Cells
    BY <1>2, <1>3
  <2> QED BY <1>5, <2>1, <2>2 DEF Without
<1>10. ASSUME NEW i \in 1..m PROVE r[t[i].rand].of = u[t[i].seed_str]
  <2>1. t[i] = stk[i] /\ rnds[stk[i].rand].of = strs[stk[i].seed_str]
    BY <1>1, <1>2, <1>3, <1>4
  <2> QED BY <1>9, <2>1
<1>11. m <= MaxHeight
  BY <1>1, <1>2, <1>3
<1>12. Owned(t, u, r)
  BY <1>4, <1>8, <1>10, <1>11 DEF Owned
<1>13. Beneath(m, stk, strs, rnds, t, u, r)
  BY <1>4, <1>9 DEF Beneath
<1> QED BY <1>4, <1>12, <1>13 DEF n, t, m

\* What stays beneath twice stays.
LEMMA BeneathTwice ==
    ASSUME NEW k, NEW stk, NEW strs, NEW rnds, NEW t, NEW u, NEW r, NEW t2, NEW u2, NEW r2,
           Beneath(k, stk, strs, rnds, t, u, r), Beneath(k, t, u, r, t2, u2, r2)
    PROVE  Beneath(k, stk, strs, rnds, t2, u2, r2)
  BY DEF Beneath

-----------------------------------------------------------------------------
(* The options of a call *)

\* What the loop over the options has made of the frame and of the heaps: the
\* invariant holds after each option, the one that ends the call included
Setting(stk, strs, rnds, c) ==
    /\ c \in [frame : Frame, strings : Strings, rands : Rands, over : BOOLEAN, died : BOOLEAN]
    /\ Owned([stk EXCEPT ![Len(stk)] = c.frame], c.strings, c.rands)
    /\ Beneath(Len(stk) - 1, stk, strs, rnds,
               [stk EXCEPT ![Len(stk)] = c.frame], c.strings, c.rands)

\* A seed string and its generator.
LEMMA SeedMakes ==
    ASSUME NEW seed \in Seeds \cup {NULL}, NEW auto \in Seeds \cup CutSeeds, NEW noise \in Noise
    PROVE  /\ GenSeed(seed, auto, noise).str \in Seeds \cup CutSeeds
           /\ GenSeed(seed, auto, noise).rand \in Generator
           /\ GenSeed(seed, auto, noise).rand.of = GenSeed(seed, auto, noise).str
<1>1. 0 \in 0..MaxDraws
  OBVIOUS
<1>2. Automatic(auto) \in Generator /\ Automatic(auto).of = auto
  BY <1>1 DEF Automatic, Generator
<1>3. CASE seed = NULL
  BY <1>2, <1>3 DEF GenSeed
<1>4. CASE seed # NULL
  <2>1. seed \in Seeds
    BY <1>4
  <2>2. FromString(seed, noise) \in Generator /\ FromString(seed, noise).of = seed
    BY <1>1, <2>1 DEF FromString, Generator
  <2> QED BY <1>4, <2>1, <2>2 DEF GenSeed
<1> QED BY <1>3, <1>4

\* The seed option keeps what the loop keeps.
LEMMA SetSeedKeeps ==
    ASSUME NEW stk \in Seq(Frame), Len(stk) # 0, NEW strs, NEW rnds,
           NEW c, Setting(stk, strs, rnds, c),
           NEW seed \in Seeds \cup {NULL}, NEW auto \in Seeds \cup CutSeeds, NEW noise \in Noise
    PROVE  Setting(stk, strs, rnds, SetSeed(c, seed, auto, noise))
<1> DEFINE n == Len(stk)
           new == GenSeed(seed, auto, noise)
           x == Free(c.strings)
           y == Free(c.rands)
           f == [c.frame EXCEPT !.seed_str = x, !.rand = y]
           u == [c.strings EXCEPT ![x] = new.str, ![c.frame.seed_str] = NULL]
           r == [c.rands EXCEPT ![y] = new.rand, ![c.frame.rand] = NULL]
           d == SetSeed(c, seed, auto, noise)
           before == [stk EXCEPT ![n] = c.frame]
           after == [stk EXCEPT ![n] = f]
<1>1. /\ c \in [frame : Frame, strings : Strings, rands : Rands, over : BOOLEAN, died : BOOLEAN]
      /\ Owned(before, c.strings, c.rands)
      /\ Beneath(n - 1, stk, strs, rnds, before, c.strings, c.rands)
  BY DEF Setting
<1>2. /\ c.frame \in Frame /\ c.strings \in Strings /\ c.rands \in Rands
      /\ c.over \in BOOLEAN /\ c.died \in BOOLEAN
      /\ c = [frame |-> c.frame, strings |-> c.strings, rands |-> c.rands,
              over |-> c.over, died |-> c.died]
  BY <1>1
<1>3. d = [frame |-> f, strings |-> u, rands |-> r, over |-> c.over, died |-> c.died]
  <2>1. d = [c EXCEPT !.frame = f, !.strings = u, !.rands = r]
    BY DEF SetSeed
  <2> HIDE DEF d, f, u, r
  <2> QED BY <1>2, <2>1
<1>4. n \in Nat /\ n \in 1..n /\ DOMAIN stk = 1..n
  BY LenProperties
<1>5. before \in Seq(Frame) /\ Len(before) = n /\ before[n] = c.frame
  BY <1>2, <1>4, ExceptSeq
<1>6. /\ n \in 0..MaxHeight
      /\ StringsOf(before) \in [1..n -> Cells] /\ RandsOf(before) \in [1..n -> Cells]
      /\ Holds(c.strings, StringsOf(before)) /\ Holds(c.rands, RandsOf(before))
  <2> HIDE DEF before
  <2>1. Owned(before, c.strings, c.rands) /\ Len(before) = n
    BY <1>1, <1>5
  <2>2. /\ Len(before) \in 0..MaxHeight
        /\ StringsOf(before) \in [1..Len(before) -> Cells]
        /\ RandsOf(before) \in [1..Len(before) -> Cells]
    BY <2>1, FrameOwns
  <2>3. Holds(c.strings, StringsOf(before)) /\ Holds(c.rands, RandsOf(before))
    BY <2>1 DEF Owned
  <2> QED BY <2>1, <2>2, <2>3
<1>7. x \in Cells /\ y \in Cells
  BY <1>6, FreeCell
<1>8. f \in Frame /\ f.seed_str = x /\ f.rand = y
  BY <1>2, <1>7 DEF Frame
<1>9. new.str \in Seeds \cup CutSeeds /\ new.rand \in Generator /\ new.rand.of = new.str
  BY SeedMakes
<1>10. after = [before EXCEPT ![n] = f]
  BY <1>4
<1> DEFINE str == new.str
           gen == new.rand
           h == c.strings
           g == c.rands
<1>11. /\ str \in Seeds \cup CutSeeds /\ gen \in Generator /\ gen.of = str
       /\ f.seed_str = Free(h) /\ f.rand = Free(g)
  BY <1>8, <1>9
<1>12. /\ u = [h EXCEPT ![f.seed_str] = str, ![before[n].seed_str] = NULL]
       /\ r = [g EXCEPT ![f.rand] = gen, ![before[n].rand] = NULL]
  BY <1>5, <1>8
<1>13. Owned(before, h, g) /\ Len(before) = n /\ n # 0
  BY <1>1, <1>5
<1> HIDE DEF before, after, f, u, r, str, gen, h, g, x, y, new, n, d
<1>14. Owned(after, u, r) /\ Beneath(n - 1, before, h, g, after, u, r)
  BY <1>8, <1>10, <1>11, <1>12, <1>13, FrameReseeded
<1>15. Beneath(n - 1, stk, strs, rnds, after, u, r)
  BY <1>1, <1>14, BeneathTwice DEF h, g
<1>16. u \in Strings /\ r \in Rands
  BY <1>14 DEF Owned
<1>17. /\ d \in [frame : Frame, strings : Strings, rands : Rands, over : BOOLEAN, died : BOOLEAN]
       /\ d.frame = f /\ d.strings = u /\ d.rands = r
  BY <1>2, <1>3, <1>8, <1>16
<1>18. after = [stk EXCEPT ![Len(stk)] = d.frame]
  BY <1>17 DEF after, n
<1> QED BY <1>14, <1>15, <1>17, <1>18 DEF Setting, d, n

\* Each option of a call keeps what the loop keeps.
LEMMA SetOptionKeeps ==
    ASSUME NEW stk \in Seq(Frame), Len(stk) # 0, NEW strs, NEW rnds,
           NEW c, Setting(stk, strs, rnds, c),
           NEW arg \in Args, NEW auto \in Seeds \cup CutSeeds, NEW noise \in Noise
    PROVE  Setting(stk, strs, rnds, SetOption(c, arg, auto, noise))
<1> DEFINE n == Len(stk)
           d == SetOption(c, arg, auto, noise)
           before == [stk EXCEPT ![n] = c.frame]
<1>1. /\ c \in [frame : Frame, strings : Strings, rands : Rands, over : BOOLEAN, died : BOOLEAN]
      /\ Owned(before, c.strings, c.rands)
      /\ Beneath(n - 1, stk, strs, rnds, before, c.strings, c.rands)
  BY DEF Setting
<1>2. CASE c.over \/ c.died
  BY <1>2 DEF SetOption
<1> SUFFICES ASSUME ~ (c.over \/ c.died) PROVE Setting(stk, strs, rnds, d)
  BY <1>2
<1>3. CASE arg.opt = "unknown"
  <2>1. d = [c EXCEPT !.over = TRUE]
    BY <1>3 DEF SetOption
  <2>2. /\ d \in [frame : Frame, strings : Strings, rands : Rands, over : BOOLEAN, died : BOOLEAN]
        /\ d.frame = c.frame /\ d.strings = c.strings /\ d.rands = c.rands
    BY <1>1, <2>1
  <2> QED BY <1>1, <2>2 DEF Setting
<1>4. CASE arg.opt = "seed"
  <2>1. arg.val \in Seeds \cup CutSeeds \cup {NULL}
    BY <1>4 DEF Args
  <2>2. CASE arg.val \in CutSeeds
    <3>1. d = [c EXCEPT !.died = TRUE]
      BY <1>4, <2>2 DEF SetOption
    <3>2. /\ d \in [frame : Frame, strings : Strings, rands : Rands, over : BOOLEAN, died : BOOLEAN]
          /\ d.frame = c.frame /\ d.strings = c.strings /\ d.rands = c.rands
      BY <1>1, <3>1
    <3> QED BY <1>1, <3>2 DEF Setting
  <2>3. CASE arg.val \notin CutSeeds
    <3>1. d = SetSeed(c, arg.val, auto, noise)
      BY <1>4, <2>3 DEF SetOption
    <3>2. arg.val \in Seeds \cup {NULL}
      BY <2>1, <2>3
    <3> QED BY <3>1, <3>2, SetSeedKeeps
  <2> QED BY <2>2, <2>3
<1>5. CASE arg.opt \in Options
  <2> DEFINE f == [c.frame EXCEPT !.vals = [@ EXCEPT ![arg.opt] = arg.val]]
             h == c.strings
             g == c.rands
             after == [stk EXCEPT ![n] = f]
  <2>1. arg.opt # "seed" /\ arg.opt # "unknown" /\ arg.val \in Values
    BY <1>5 DEF Args
  <2>2. d = [c EXCEPT !.frame = f]
    BY <1>5, <2>1 DEF SetOption
  <2>3. c.frame \in Frame
    BY <1>1
  <2>4. f \in Frame /\ f.seed_str = c.frame.seed_str /\ f.rand = c.frame.rand
    BY <2>1, <2>3 DEF Frame
  <2>5. n \in 1..n /\ DOMAIN stk = 1..n /\ n # 0
    BY LenProperties
  <2>6. Len(before) = n /\ before[n] = c.frame
    BY <2>3, <2>5, ExceptSeq
  <2>7. after = [before EXCEPT ![n] = f]
    BY <2>5
  <2>8. Owned(before, h, g)
    BY <1>1
  <2> HIDE DEF f, h, g, before, after, n, d
  <2>9. Owned(after, h, g) /\ Beneath(n - 1, before, h, g, after, h, g)
    BY <2>4, <2>5, <2>6, <2>7, <2>8, FrameSet
  <2>10. Beneath(n - 1, stk, strs, rnds, after, h, g)
    BY <1>1, <2>9, BeneathTwice DEF h, g
  <2>11. /\ d \in [frame : Frame, strings : Strings, rands : Rands, over : BOOLEAN, died : BOOLEAN]
         /\ d.frame = f /\ d.strings = h /\ d.rands = g
    BY <1>1, <2>2, <2>4 DEF h, g
  <2>12. after = [stk EXCEPT ![Len(stk)] = d.frame]
    BY <2>11 DEF after, n
  <2> QED BY <2>9, <2>10, <2>11, <2>12 DEF Setting, n, d
<1> QED BY <1>3, <1>4, <1>5 DEF Args

\* What the loop over n options makes of start, one option after the other
Sets(g, start, args, n, auto, noise) ==
    g[0] = start /\ \A i \in 1..n : g[i] = SetOption(g[i - 1], args[i], auto, noise)

\* That g is defined by the recursion of SetOptions
Recursion(g, start, args, n, auto, noise) ==
    g = [i \in 0..n |-> IF i = 0 THEN start ELSE SetOption(g[i - 1], args[i], auto, noise)]

\* There is what the loop makes.
LEMMA LoopOfOptions ==
    ASSUME NEW n \in Nat, NEW start, NEW args, NEW auto, NEW noise
    PROVE  \E g : Recursion(g, start, args, n, auto, noise)
<1> USE DEF Recursion
<1> DEFINE Loop(g, k) == Recursion(g, start, args, k, auto, noise)
           S == {k \in Nat : \E g : Loop(g, k)}
<1>1. 0 \in S
  <2> DEFINE g == [i \in 0..0 |-> start]
  <2>1. Loop(g, 0)
    <3>1. \A i \in 0..0 : i = 0
      OBVIOUS
    <3> QED BY <3>1
  <2> HIDE DEF Loop, g
  <2> QED BY <2>1
<1>2. ASSUME NEW k \in Nat, k \in S PROVE k + 1 \in S
  <2>1. PICK g : Loop(g, k)
    BY <1>2
  <2> DEFINE last_ == SetOption(g[k], args[k + 1], auto, noise)
             h == [i \in 0..(k + 1) |-> IF i = k + 1 THEN last_ ELSE g[i]]
  <2>2. ASSUME NEW i \in 0..(k + 1)
        PROVE  h[i] = IF i = 0 THEN start ELSE SetOption(h[i - 1], args[i], auto, noise)
    <3>1. CASE i = 0
      <4>1. h[0] = g[0] /\ g[0] = start
        BY <2>1
      <4> QED BY <3>1, <4>1
    <3>2. CASE i = k + 1
      <4>1. h[i] = last_ /\ h[i - 1] = g[k] /\ i # 0
        BY <3>2
      <4> QED BY <3>2, <4>1
    <3>3. CASE i # 0 /\ i # k + 1
      <4>1. i \in 0..k /\ i - 1 \in 0..k
        BY <3>3
      <4>2. h[i] = g[i] /\ h[i - 1] = g[i - 1]
        BY <3>3, <4>1
      <4>3. g[i] = SetOption(g[i - 1], args[i], auto, noise)
        BY <2>1, <3>3, <4>1
      <4> QED BY <3>3, <4>2, <4>3
    <3> QED BY <3>1, <3>2, <3>3
  <2>3. h = [i \in 0..(k + 1) |-> h[i]]
    OBVIOUS
  <2> HIDE DEF h
  <2>4. Loop(h, k + 1)
    BY <2>2, <2>3
  <2> HIDE DEF Loop
  <2> QED BY <2>4
<1>3. n \in S
  <2> HIDE DEF S
  <2> QED BY <1>1, <1>2, AllNumbers
<1> QED BY <1>3

\* SetOptions runs over the options in order.
LEMMA OptionsInOrder ==
    ASSUME NEW start, NEW args \in Seq(Args), NEW auto, NEW noise
    PROVE  \E g : /\ Sets(g, start, args, Len(args), auto, noise)
                  /\ SetOptions(start, args, auto, noise) = g[Len(args)]
<1> DEFINE n == Len(args)
           t == CHOOSE g : Recursion(g, start, args, n, auto, noise)
<1>1. n \in Nat
  BY LenProperties
<1>2. Recursion(t, start, args, n, auto, noise)
  BY <1>1, LoopOfOptions
<1>3. SetOptions(start, args, auto, noise) = t[n]
  BY DEF SetOptions, Recursion
<1> HIDE DEF t, n
<1>4. Sets(t, start, args, n, auto, noise)
  <2>1. t[0] = start
    BY <1>1, <1>2 DEF Recursion
  <2>2. ASSUME NEW i \in 1..n PROVE t[i] = SetOption(t[i - 1], args[i], auto, noise)
    <3>1. i \in 0..n /\ i # 0
      BY <1>1
    <3> QED BY <1>2, <3>1 DEF Recursion
  <2> QED BY <2>1, <2>2 DEF Sets
<1> QED BY <1>3, <1>4 DEF n

\* So does a whole call, whatever its options and however many.
LEMMA SetOptionsKeep ==
    ASSUME NEW stk \in Seq(Frame), Len(stk) # 0, NEW strs, NEW rnds,
           NEW start, Setting(stk, strs, rnds, start),
           NEW args \in Seq(Args), NEW auto \in Seeds \cup CutSeeds, NEW noise \in Noise
    PROVE  Setting(stk, strs, rnds, SetOptions(start, args, auto, noise))
<1> DEFINE k == Len(args)
<1>1. k \in Nat /\ \A i \in 1..k : args[i] \in Args
  BY ElementOfSeq, LenProperties
<1>2. PICK g : /\ Sets(g, start, args, k, auto, noise)
               /\ SetOptions(start, args, auto, noise) = g[k]
  BY OptionsInOrder
<1> HIDE DEF k
<1> DEFINE S == {i \in Nat : i <= k => Setting(stk, strs, rnds, g[i])}
<1>3. 0 \in S
  BY <1>2 DEF Sets
<1>4. ASSUME NEW i \in Nat, i \in S PROVE i + 1 \in S
  <2>1. ASSUME i + 1 <= k PROVE Setting(stk, strs, rnds, g[i + 1])
    <3>1. i + 1 \in 1..k /\ (i + 1) - 1 = i /\ i <= k
      BY <1>1, <2>1
    <3>2. Setting(stk, strs, rnds, g[i]) /\ args[i + 1] \in Args
      BY <1>1, <1>4, <3>1
    <3>3. g[i + 1] = SetOption(g[i], args[i + 1], auto, noise)
      BY <1>2, <3>1 DEF Sets
    <3> QED BY <3>2, <3>3, SetOptionKeeps
  <2> QED BY <2>1
<1>5. Nat \subseteq S
  <2> HIDE DEF S
  <2> QED BY <1>3, <1>4, AllNumbers
<1>6. Setting(stk, strs, rnds, g[k])
  BY <1>1, <1>5
<1> QED BY <1>2, <1>6

\* What a call leaves of the configuration: the frames beneath the top one.
LEMMA VsetKeeps ==
    ASSUME NEW s, Owned(s.stack, s.strings, s.rands), Len(s.stack) # 0,
           NEW args \in Seq(Args), NEW auto \in Seeds \cup CutSeeds, NEW noise \in Noise,
           Vset(s, args, auto, noise)
    PROVE  /\ Owned(stack', strings', rands') /\ died' \in BOOLEAN
           /\ Len(stack') = Len(s.stack)
           /\ Beneath(Len(s.stack) - 1, s.stack, s.strings, s.rands, stack', strings', rands')
<1> DEFINE stk == s.stack
           strs == s.strings
           rnds == s.rands
           start == [frame |-> Top(stk), strings |-> strs, rands |-> rnds,
                     over |-> FALSE, died |-> FALSE]
           end == SetOptions(start, args, auto, noise)
<1>1. /\ stack' = [stk EXCEPT ![Len(stk)] = end.frame]
      /\ strings' = end.strings /\ rands' = end.rands /\ died' = end.died
  BY DEF Vset
<1>2. stk \in Seq(Frame) /\ Len(stk) # 0 /\ Owned(stk, strs, rnds)
  BY DEF Owned
<1> HIDE DEF stk, strs, rnds
<1>3. Len(stk) \in 1..Len(stk) /\ DOMAIN stk = 1..Len(stk) /\ Top(stk) \in Frame
  BY <1>2, LenProperties, ElementOfSeq DEF Top
<1>4. Setting(stk, strs, rnds, start)
  <2>1. start \in [frame : Frame, strings : Strings, rands : Rands, over : BOOLEAN, died : BOOLEAN]
    BY <1>2, <1>3 DEF Owned
  <2>2. [stk EXCEPT ![Len(stk)] = start.frame] = stk
    BY <1>2, <1>3 DEF Top
  <2> HIDE DEF start
  <2>3. start.strings = strs /\ start.rands = rnds
    BY DEF start
  <2>4. Beneath(Len(stk) - 1, stk, strs, rnds, stk, strs, rnds)
    BY DEF Beneath
  <2> QED BY <1>2, <2>1, <2>2, <2>3, <2>4 DEF Setting
<1> HIDE DEF start
<1>5. Setting(stk, strs, rnds, end)
  BY <1>2, <1>4, SetOptionsKeep
<1> HIDE DEF end
<1>6. Owned(stack', strings', rands') /\ Beneath(Len(stk) - 1, stk, strs, rnds, stack', strings', rands')
  BY <1>1, <1>5 DEF Setting
<1>7. died' \in BOOLEAN /\ end.frame \in Frame
  BY <1>1, <1>5 DEF Setting
<1>8. Len(stack') = Len(stk)
  BY <1>1, <1>2, <1>3, <1>7, ExceptSeq
<1> QED BY <1>6, <1>7, <1>8 DEF stk, strs, rnds

-----------------------------------------------------------------------------
(* The calls of the configuration *)

\* The bottom frame is made when there is none.
LEMMA InitializedOwns ==
    ASSUME Owned(stack, strings, rands), NEW auto \in Seeds \cup CutSeeds,
           NEW s, s = Initialized(auto)
    PROVE  /\ Owned(s.stack, s.strings, s.rands) /\ Len(s.stack) # 0
           /\ stack = <<>> => Len(s.stack) = 1
           /\ stack # <<>> => s.stack = stack /\ s.strings = strings /\ s.rands = rands
<1>1. stack \in Seq(Frame) /\ strings \in Strings /\ rands \in Rands
  BY DEF Owned
<1>2. CASE stack # <<>>
  <2>1. s.stack = stack /\ s.strings = strings /\ s.rands = rands
    BY <1>2 DEF Initialized
  <2>2. Len(stack) # 0
    BY <1>1, <1>2, EmptySeq
  <2> QED BY <1>2, <2>1, <2>2
<1>3. CASE stack = <<>>
  <2> DEFINE f == [vals |-> Defaults, seed_str |-> Free(strings), rand |-> Free(rands)]
             gen == Automatic(auto)
             u == [strings EXCEPT ![Free(strings)] = auto]
             r == [rands EXCEPT ![Free(rands)] = gen]
  <2>1. s = [stack |-> <<f>>, strings |-> u, rands |-> r]
    BY <1>3 DEF Initialized
  <2>2. Len(stack) = 0 /\ Len(stack) < MaxHeight
    BY <1>3, EmptySeq
  <2>3. /\ Len(stack) \in 0..MaxHeight
        /\ StringsOf(stack) \in [1..Len(stack) -> Cells] /\ RandsOf(stack) \in [1..Len(stack) -> Cells]
        /\ Holds(strings, StringsOf(stack)) /\ Holds(rands, RandsOf(stack))
    BY FrameOwns DEF Owned
  <2>4. Free(strings) \in Cells /\ Free(rands) \in Cells
    BY <2>3, FreeCell
  <2>5. f \in Frame /\ f.seed_str = Free(strings) /\ f.rand = Free(rands)
    BY <2>4 DEF Frame
  <2>6. gen \in Generator /\ gen.of = auto
    <3>1. 0 \in 0..MaxDraws
      OBVIOUS
    <3> QED BY <3>1 DEF Automatic, Generator
  <2>7. u = [strings EXCEPT ![f.seed_str] = auto] /\ r = [rands EXCEPT ![f.rand] = gen]
    BY <2>5
  <2>8. Append(stack, f) = <<f>>
    BY <1>3
  <2> HIDE DEF f, gen, u, r
  <2>9. Owned(Append(stack, f), u, r)
    BY <2>2, <2>5, <2>6, <2>7, FramePushed
  <2>10. Owned(<<f>>, u, r) /\ Len(<<f>>) = 1
    BY <2>8, <2>9
  <2>11. s.stack = <<f>> /\ s.strings = u /\ s.rands = r
    BY <2>1
  <2> QED BY <1>3, <2>10, <2>11
<1> QED BY <1>2, <1>3

\* The frame that is pushed is a copy of the top frame, with objects of its own.
LEMMA DuplicatedOwns ==
    ASSUME Owned(stack, strings, rands), stack # <<>>, Len(stack) < MaxHeight,
           NEW s, s = Duplicated
    PROVE  /\ Owned(s.stack, s.strings, s.rands) /\ Len(s.stack) = Len(stack) + 1
           /\ Beneath(Len(stack), stack, strings, rands, s.stack, s.strings, s.rands)
<1> DEFINE top == stack[Len(stack)]
           f == [top EXCEPT !.seed_str = Free(strings), !.rand = Free(rands)]
           str == strings[top.seed_str]
           gen == rands[top.rand]
           u == [strings EXCEPT ![Free(strings)] = str]
           r == [rands EXCEPT ![Free(rands)] = gen]
<1>1. s = [stack |-> Append(stack, f), strings |-> u, rands |-> r]
  BY DEF Duplicated, Top
<1>2. /\ stack \in Seq(Frame) /\ Holds(strings, StringsOf(stack)) /\ Holds(rands, RandsOf(stack))
      /\ \A i \in DOMAIN stack : rands[stack[i].rand].of = strings[stack[i].seed_str]
  BY DEF Owned
<1>3. Len(stack) \in 1..Len(stack)
  BY <1>2, EmptySeq
<1>4. /\ Len(stack) \in 0..MaxHeight /\ DOMAIN stack = 1..Len(stack)
      /\ StringsOf(stack) \in [1..Len(stack) -> Cells] /\ RandsOf(stack) \in [1..Len(stack) -> Cells]
      /\ top \in Frame /\ str \in Seeds \cup CutSeeds /\ gen \in Generator
  BY <1>3, FrameOwns
<1>5. gen.of = str
  BY <1>2, <1>3, <1>4
<1>6. Free(strings) \in Cells /\ Free(rands) \in Cells
  BY <1>2, <1>4, FreeCell
<1>7. f \in Frame /\ f.seed_str = Free(strings) /\ f.rand = Free(rands)
  BY <1>4, <1>6 DEF Frame
<1>8. u = [strings EXCEPT ![f.seed_str] = str] /\ r = [rands EXCEPT ![f.rand] = gen]
  BY <1>7
<1> HIDE DEF f, str, gen, u, r, top
<1>9. /\ Owned(Append(stack, f), u, r)
      /\ Beneath(Len(stack), stack, strings, rands, Append(stack, f), u, r)
  BY <1>4, <1>5, <1>7, <1>8, FramePushed
<1>10. Len(Append(stack, f)) = Len(stack) + 1
  BY <1>2, <1>7, AppendProperties
<1>11. s.stack = Append(stack, f) /\ s.strings = u /\ s.rands = r
  BY <1>1
<1> QED BY <1>9, <1>10, <1>11

\* What stays beneath is what the property asks for.
LEMMA KeptFrom ==
    ASSUME Owned(stack, strings, rands), Owned(stack', strings', rands'), NEW k \in Int,
           Beneath(k, stack, strings, rands, stack', strings', rands'),
           k = Len(stack) \/ (k = Len(stack) - 1 /\ Len(stack') <= Len(stack))
    PROVE  KeptBeneath
<1>1. ASSUME NEW i \in DOMAIN stack, i \in DOMAIN stack', i < Len(stack) \/ i < Len(stack')
      PROVE  Content(i)' = Content(i)
  <2>1. Len(stack) \in Nat /\ DOMAIN stack = 1..Len(stack)
    BY FrameOwns
  <2>2. Len(stack') \in Nat /\ DOMAIN stack' = 1..Len(stack')
    BY LenProperties DEF Owned
  <2>3. i \in 1..k
    BY <1>1, <2>1, <2>2
  <2>4. /\ stack'[i] = stack[i] /\ strings'[stack[i].seed_str] = strings[stack[i].seed_str]
        /\ rands'[stack[i].rand] = rands[stack[i].rand]
    BY <2>3 DEF Beneath
  <2> QED BY <2>4 DEF Content
<1> QED BY <1>1 DEF KeptBeneath

\* When nothing was beneath, or nothing is left, nothing is to be kept.
LEMMA KeptOfNone ==
    ASSUME Owned(stack, strings, rands), Owned(stack', strings', rands'),
           stack = <<>> \/ stack' = <<>>
    PROVE  KeptBeneath
<1>1. CASE stack = <<>>
  BY <1>1 DEF KeptBeneath
<1>2. CASE stack' = <<>>
  BY <1>2 DEF KeptBeneath
<1> QED BY <1>1, <1>2

\* A configuration without frames, and without objects.
LEMMA NothingIsOwned ==
    ASSUME NEW u, u = [a \in Cells |-> NULL], NEW r, r = [a \in Cells |-> NULL]
    PROVE  Owned(<<>>, u, r)
<1>1. DOMAIN StringsOf(<<>>) = {} /\ DOMAIN RandsOf(<<>>) = {}
  BY DEF StringsOf, RandsOf
<1>2. Holds(u, StringsOf(<<>>)) /\ Holds(r, RandsOf(<<>>))
  BY <1>1 DEF Holds
<1>3. <<>> \in Seq(Frame) /\ Len(<<>>) = 0 /\ 0 <= MaxHeight /\ DOMAIN <<>> = {}
  BY EmptySeq
<1>4. u \in Strings /\ r \in Rands
  BY DEF Strings, Rands
<1> QED BY <1>2, <1>3, <1>4 DEF Owned

\* Every call of the configuration keeps its invariant, and what is beneath.
LEMMA ConfigStep ==
    ASSUME Owned(stack, strings, rands), died \in BOOLEAN, Next
    PROVE  Owned(stack', strings', rands') /\ died' \in BOOLEAN /\ KeptBeneath
<1>1. /\ stack \in Seq(Frame) /\ Len(stack) \in Nat /\ Len(stack) <= MaxHeight
      /\ strings \in Strings /\ rands \in Rands
      /\ Holds(strings, StringsOf(stack)) /\ Holds(rands, RandsOf(stack))
  BY LenProperties DEF Owned
<1>2. stack # <<>> => Len(stack) # 0
  BY <1>1, EmptySeq
<1>3. ASSUME NEW args \in BoundedSeq(Args, MaxArgs), NEW auto \in Seeds \cup CutSeeds,
             NEW noise \in Noise,
             oil_test_config_set(args, auto, noise) \/ oil_test_config_push(args, auto, noise)
      PROVE  Owned(stack', strings', rands') /\ died' \in BOOLEAN /\ KeptBeneath
  <2>1. args \in Seq(Args)
    <3>1. PICK m \in 0..MaxArgs : args \in [1..m -> Args]
      BY DEF BoundedSeq, SeqOf
    <3>2. m \in Nat
      OBVIOUS
    <3> QED BY <3>1, <3>2, SeqDef
  <2> DEFINE s == Initialized(auto)
             d == Duplicated
  <2>2. /\ Owned(s.stack, s.strings, s.rands) /\ Len(s.stack) # 0
        /\ stack = <<>> => Len(s.stack) = 1
        /\ stack # <<>> => s.stack = stack /\ s.strings = strings /\ s.rands = rands
    BY InitializedOwns
  <2> HIDE DEF s
  <2>3. CASE Vset(s, args, auto, noise)
    <3>1. /\ Owned(stack', strings', rands') /\ died' \in BOOLEAN /\ Len(stack') = Len(s.stack)
          /\ Beneath(Len(s.stack) - 1, s.stack, s.strings, s.rands, stack', strings', rands')
      BY <2>1, <2>2, <2>3, VsetKeeps
    <3>2. CASE stack = <<>>
      BY <3>1, <3>2, KeptOfNone
    <3>3. CASE stack # <<>>
      <4> DEFINE k == Len(stack) - 1
      <4>1. k \in Int /\ k = Len(stack) - 1 /\ Len(stack') = Len(stack)
            /\ Beneath(k, stack, strings, rands, stack', strings', rands')
        BY <1>1, <2>2, <3>1, <3>3
      <4> HIDE DEF k
      <4> QED BY <1>1, <3>1, <4>1, KeptFrom
    <3> QED BY <3>1, <3>2, <3>3
  <2>4. CASE stack # <<>> /\ Len(stack) < MaxHeight /\ Vset(d, args, auto, noise)
    <3>1. /\ Owned(d.stack, d.strings, d.rands) /\ Len(d.stack) = Len(stack) + 1
          /\ Beneath(Len(stack), stack, strings, rands, d.stack, d.strings, d.rands)
      BY <2>4, DuplicatedOwns
    <3>2. Len(d.stack) # 0 /\ Len(d.stack) - 1 = Len(stack)
      BY <1>1, <3>1
    <3> HIDE DEF d
    <3>3. /\ Owned(stack', strings', rands') /\ died' \in BOOLEAN
          /\ Beneath(Len(d.stack) - 1, d.stack, d.strings, d.rands, stack', strings', rands')
      BY <2>1, <2>4, <3>1, <3>2, VsetKeeps
    <3>4. Beneath(Len(stack), stack, strings, rands, stack', strings', rands')
      BY <3>1, <3>2, <3>3, BeneathTwice
    <3> DEFINE k == Len(stack)
    <3>5. k \in Int /\ k = Len(stack) /\ Beneath(k, stack, strings, rands, stack', strings', rands')
      BY <1>1, <3>4
    <3> HIDE DEF k
    <3> QED BY <3>3, <3>5, KeptFrom
  <2> QED BY <1>3, <2>3, <2>4 DEF oil_test_config_set, oil_test_config_push, s
<1>4. ASSUME NEW auto \in Seeds \cup CutSeeds, oil_test_config_get(auto)
      PROVE  Owned(stack', strings', rands') /\ died' \in BOOLEAN /\ KeptBeneath
  <2> DEFINE s == Initialized(auto)
  <2>1. stack = <<>> /\ stack' = s.stack /\ strings' = s.strings /\ rands' = s.rands /\ died' = died
    BY <1>4 DEF oil_test_config_get
  <2>2. Owned(s.stack, s.strings, s.rands)
    BY InitializedOwns
  <2>3. Owned(stack', strings', rands')
    BY <2>1, <2>2
  <2> QED BY <2>1, <2>3, KeptOfNone
<1>5. CASE oil_test_config_pop
  <2> DEFINE top == stack[Len(stack)]
  <2>1. /\ stack # <<>> /\ stack' = Front(stack) /\ died' = died
        /\ strings' = [a \in Cells |-> IF top.seed_str = a THEN NULL ELSE strings[a]]
        /\ rands' = [a \in Cells |-> IF top.rand = a THEN NULL ELSE rands[a]]
    BY <1>5 DEF oil_test_config_pop, FreeFrames, Top
  <2>2. Len(stack) \in 1..Len(stack)
    BY <1>1, <1>2, <2>1
  <2>3. top.seed_str \in Cells /\ top.rand \in Cells
    BY <2>2, FrameOwns
  <2> HIDE DEF top
  <2>4. strings' \in Strings /\ rands' \in Rands
    BY <1>1, <2>1 DEF Strings, Rands
  <2>5. Without(strings', strings, top.seed_str) /\ Without(rands', rands, top.rand)
    BY <2>1, <2>3 DEF Without
  <2> DEFINE k == Len(stack) - 1
  <2>6. /\ Owned(stack', strings', rands') /\ Len(stack') = k
        /\ Beneath(k, stack, strings, rands, stack', strings', rands')
    BY <1>2, <2>1, <2>4, <2>5, FramePopped DEF top
  <2>7. k \in Int /\ k = Len(stack) - 1 /\ k <= Len(stack)
    BY <1>1
  <2> HIDE DEF k
  <2>8. KeptBeneath
    BY <2>6, <2>7, KeptFrom
  <2> QED BY <2>1, <2>6, <2>8
<1>6. CASE oil_test_config_pop_all
  <2>1. /\ stack' = <<>> /\ died' = died
        /\ strings' = [a \in Cells |-> IF \E f \in Range(stack) : f.seed_str = a
                                       THEN NULL ELSE strings[a]]
        /\ rands' = [a \in Cells |-> IF \E f \in Range(stack) : f.rand = a
                                     THEN NULL ELSE rands[a]]
    BY <1>6 DEF oil_test_config_pop_all, FreeFrames
  <2>2. /\ DOMAIN StringsOf(stack) = DOMAIN stack /\ DOMAIN RandsOf(stack) = DOMAIN stack
        /\ \A i \in DOMAIN stack : /\ StringsOf(stack)[i] = stack[i].seed_str
                                   /\ RandsOf(stack)[i] = stack[i].rand
                                   /\ stack[i] \in Range(stack)
    BY DEF StringsOf, RandsOf, Range
  <2>3. ASSUME NEW a \in Cells, strings[a] # NULL PROVE \E f \in Range(stack) : f.seed_str = a
    <3>1. PICK i \in DOMAIN stack : StringsOf(stack)[i] = a
      BY <1>1, <2>2, <2>3 DEF Holds
    <3> QED BY <2>2, <3>1
  <2>4. ASSUME NEW a \in Cells, rands[a] # NULL PROVE \E f \in Range(stack) : f.rand = a
    <3>1. PICK i \in DOMAIN stack : RandsOf(stack)[i] = a
      BY <1>1, <2>2, <2>4 DEF Holds
    <3> QED BY <2>2, <3>1
  <2>5. strings' = [a \in Cells |-> NULL] /\ rands' = [a \in Cells |-> NULL]
    <3>1. \A a \in Cells : strings'[a] = NULL /\ rands'[a] = NULL
      BY <2>1, <2>3, <2>4
    <3> QED BY <2>1, <3>1
  <2>6. Owned(stack', strings', rands')
    BY <2>1, <2>5, NothingIsOwned
  <2> QED BY <2>1, <2>6, KeptOfNone
<1>7. CASE Draw
  <2> DEFINE a == stack[Len(stack)].rand
             d == rands[a].drawn + 1
  <2>1. /\ stack # <<>> /\ rands[a].drawn < MaxDraws
        /\ rands' = [rands EXCEPT ![a].drawn = d]
        /\ stack' = stack /\ strings' = strings /\ died' = died
    BY <1>7 DEF Draw, Top
  <2>2. Len(stack) # 0 /\ Len(stack) \in 1..Len(stack)
    BY <1>1, <1>2, <2>1
  <2>3. rands[a] \in Generator
    BY <2>2, FrameOwns
  <2>4. d \in 0..MaxDraws
    <3>1. rands[a].drawn \in 0..MaxDraws
      BY <2>3 DEF Generator
    <3> QED BY <2>1, <3>1
  <2> HIDE DEF d
  <2> DEFINE k == Len(stack) - 1
  <2>5. Owned(stack, strings, rands') /\ Beneath(k, stack, strings, rands, stack, strings, rands')
    BY <2>1, <2>2, <2>4, FrameDrawn
  <2>6. /\ Owned(stack', strings', rands')
        /\ Beneath(k, stack, strings, rands, stack', strings', rands')
    BY <2>1, <2>5
  <2>7. k \in Int /\ k = Len(stack) - 1 /\ Len(stack') <= Len(stack)
    BY <1>1, <2>1
  <2> HIDE DEF k
  <2>8. KeptBeneath
    BY <2>6, <2>7, KeptFrom
  <2> QED BY <2>1, <2>6, <2>8
<1> QED BY <1>3, <1>4, <1>5, <1>6, <1>7 DEF Next

-----------------------------------------------------------------------------
(* What is parsed *)

Directions == {"dest", "src", "inplace"}

\* The size of a type is a number.
LEMMA SizesAreNumbers ==
    ASSUME NEW t \in DOMAIN oil_type_sizeof
    PROVE  oil_type_sizeof[t] \in Nat
  BY DEF oil_type_sizeof

\* The argument type of what is written.
LEMMA ArgTypes ==
    ASSUME NEW w \in Words
    PROVE  /\ w.form = "scale" => ArgType(w) = N
           /\ w.form = "stride" => /\ w.dir \in Directions /\ w.index \in Nat
                                   /\ ArgType(w) = <<w.dir, TRUE, w.index>>
           /\ w.form = "array" => /\ w.dir \in Directions /\ w.index \in Nat
                                  /\ ArgType(w) = <<w.dir, FALSE, w.index>>
           /\ w.form \in {"scale", "stride", "array"}
           /\ w.type \in STRING /\ w.star \in BOOLEAN
<1>1. CASE w \in [form : {"scale"}, name : {"n", "m"}, type : STRING, star : BOOLEAN]
  <2>1. w.form = "scale" /\ w.type \in STRING /\ w.star \in BOOLEAN
    BY <1>1
  <2> QED BY <2>1 DEF ArgType
<1>2. CASE w \in [form : {"stride"}, dir : {"dest", "src", "inplace"}, index : Nat,
                  type : STRING, star : BOOLEAN]
  <2>1. /\ w.form = "stride" /\ w.dir \in Directions /\ w.index \in Nat
        /\ w.type \in STRING /\ w.star \in BOOLEAN
    BY <1>2 DEF Directions
  <2>2. ArgType(w) = <<w.dir, TRUE, w.index>>
    BY <2>1 DEF ArgType
  <2> QED BY <2>1, <2>2
<1>3. CASE w \in [form : {"array"}, dir : {"dest", "src", "inplace"}, index : Nat,
                  lens : {lens \in Seq(LenSpec) : Len(lens) <= 2}, type : STRING, star : BOOLEAN]
  <2>1. /\ w.form = "array" /\ w.dir \in Directions /\ w.index \in Nat
        /\ w.type \in STRING /\ w.star \in BOOLEAN
    BY <1>3 DEF Directions
  <2>2. ArgType(w) = <<w.dir, FALSE, w.index>>
    BY <2>1 DEF ArgType
  <2> QED BY <2>1, <2>2
<1> QED BY <1>1, <1>2, <1>3 DEF Words

\* The argument type of the stride of an array, and the other way round.
LEMMA PartnerIs ==
    ASSUME NEW d, NEW b \in BOOLEAN, NEW k
    PROVE  Partner(<<d, b, k>>) = <<d, ~b, k>>
<1> DEFINE p == Partner(<<d, b, k>>)
<1>1. /\ DOMAIN p = 1..3 /\ p[1] = d /\ p[2] = ~b /\ p[3] = k /\ p = [i \in 1..3 |-> p[i]]
  BY DEF Partner
<1> QED BY <1>1 DEF Partner

\* What an array holds in a row and the rows it has.
LEMMA LensAre ==
    ASSUME NEW w \in Words, w.form = "array"
    PROVE  Lens(w)[1] \in LenSpec /\ Lens(w)[2] \in LenSpec
<1>1. w.lens \in Seq(LenSpec) /\ Len(w.lens) <= 2
  <2>1. w \in [form : {"array"}, dir : {"dest", "src", "inplace"}, index : Nat,
               lens : {lens \in Seq(LenSpec) : Len(lens) <= 2}, type : STRING, star : BOOLEAN]
    BY DEF Words
  <2> QED BY <2>1
<1>2. Len(w.lens) \in Nat /\ \A i \in 1..Len(w.lens) : w.lens[i] \in LenSpec
  BY <1>1, LenProperties
<1>3. [var |-> "none", len |-> 1] \in LenSpec /\ [var |-> "n", len |-> 0] \in LenSpec
  BY DEF LenSpec
<1>4. CASE Len(w.lens) = 0
  BY <1>3, <1>4 DEF Lens
<1>5. CASE Len(w.lens) = 1
  BY <1>2, <1>3, <1>5 DEF Lens
<1>6. CASE Len(w.lens) = 2
  BY <1>2, <1>6 DEF Lens
<1>7. Len(w.lens) \in {0, 1, 2}
  <2> DEFINE k == Len(w.lens)
  <2>1. k \in Nat /\ k <= 2
    BY <1>1, <1>2
  <2> HIDE DEF k
  <2>2. k \in {0, 1, 2}
    BY <2>1
  <2> QED BY <2>2 DEF k
<1> QED BY <1>4, <1>5, <1>6, <1>7

\* That q is what a prototype was parsed to
IsParsed(q, prototype) ==
    prototype \in Prototypes /\ oil_prototype_parse(prototype) /\ q = Parsed(prototype)

\* What is known of the parameters of a prototype that is accepted.
LEMMA ParsedIs ==
    ASSUME NEW prototype, NEW q, IsParsed(q, prototype)
    PROVE  /\ prototype \in Seq(Words) /\ DOMAIN prototype = DOMAIN q
           /\ Len(q) \in Nat /\ DOMAIN q = 1..Len(q) /\ q \in Seq(Parameter)
           /\ \A i \in DOMAIN q :
                 /\ q[i] \in Parameter /\ q[i].parameter = prototype[i]
                 /\ q[i].arg_type = ArgType(prototype[i])
                 /\ q[i].is_pointer <=> prototype[i].form = "array"
                 /\ q[i].parameter.type \in DOMAIN oil_type_sizeof
                 /\ q[i].value = 0 /\ q[i].pre_n = 0 /\ q[i].post_n = 0
                 /\ q[i].stride = 0 /\ q[i].size = 0
           /\ _prototype_check_sanity(q)
<1>1. prototype \in Seq(Words)
  BY OilSampleAssumption DEF IsParsed
<1> DEFINE n == Len(prototype)
<1>2. n \in Nat /\ DOMAIN prototype = 1..n /\ \A i \in 1..n : prototype[i] \in Words
  BY <1>1, LenProperties
<1>3. q = [i \in 1..n |-> oil_param_parse(prototype[i])]
  BY <1>2 DEF IsParsed, Parsed
<1>4. /\ \A i \in 1..n : TypeIsKnown(prototype[i]) /\ ArgType(prototype[i]) \in OilArgType
      /\ _prototype_check_sanity(q)
  BY <1>2 DEF IsParsed, oil_prototype_parse
<1> HIDE DEF n
<1>5. ASSUME NEW i \in 1..n
      PROVE  /\ q[i] \in Parameter /\ q[i].parameter = prototype[i]
             /\ q[i].arg_type = ArgType(prototype[i])
             /\ q[i].is_pointer <=> prototype[i].form = "array"
             /\ q[i].parameter.type \in DOMAIN oil_type_sizeof
             /\ q[i].value = 0 /\ q[i].pre_n = 0 /\ q[i].post_n = 0
             /\ q[i].stride = 0 /\ q[i].size = 0
  <2> DEFINE w == prototype[i]
             none == [var |-> "none", len |-> 0]
             pre == IF w.form = "array" THEN Lens(w)[1] ELSE none
             post == IF w.form = "array" THEN Lens(w)[2] ELSE none
  <2>1. w \in Words /\ TypeIsKnown(w) /\ ArgType(w) \in OilArgType
    BY <1>2, <1>4
  <2>2. pre \in LenSpec /\ post \in LenSpec
    <3>1. none \in LenSpec
      BY DEF LenSpec
    <3> HIDE DEF none
    <3>2. CASE w.form = "array"
      <4>1. Lens(w)[1] \in LenSpec /\ Lens(w)[2] \in LenSpec
        BY <2>1, <3>2, LensAre
      <4> QED BY <3>2, <4>1
    <3> QED BY <3>1, <3>2
  <2>3. q[i] = [parameter |-> w, arg_type |-> ArgType(w), is_pointer |-> w.form = "array",
                pre |-> pre, post |-> post,
                value |-> 0, pre_n |-> 0, post_n |-> 0, stride |-> 0, size |-> 0]
    BY <1>3 DEF oil_param_parse
  <2>4. w.type \in DOMAIN oil_type_sizeof
    BY <2>1 DEF TypeIsKnown
  <2>5. (w.form = "array") \in BOOLEAN /\ 0 \in Nat
    OBVIOUS
  <2> HIDE DEF pre, post, w
  <2>6. q[i] \in Parameter
    BY <2>1, <2>2, <2>3, <2>5 DEF Parameter
  <2>7. /\ q[i].parameter = w /\ q[i].arg_type = ArgType(w)
        /\ q[i].value = 0 /\ q[i].pre_n = 0 /\ q[i].post_n = 0
        /\ q[i].stride = 0 /\ q[i].size = 0
    BY <2>3
  <2>8. q[i].is_pointer = (w.form = "array")
    BY <2>3
  <2> QED BY <2>4, <2>6, <2>7, <2>8 DEF w
<1>6. /\ DOMAIN q = 1..n /\ q \in Seq(Parameter) /\ Len(q) = n
  <2>1. q \in [1..n -> Parameter]
    BY <1>3, <1>5
  <2>2. q \in Seq(Parameter)
    BY <1>2, <2>1, SeqDef
  <2> QED BY <1>2, <2>1, <2>2, LenProperties
<1> QED BY <1>1, <1>2, <1>4, <1>5, <1>6

\* A set of numbers with a bound has a greatest.
LEMMA GreatestNumber ==
    ASSUME NEW n \in Nat, NEW S \in SUBSET (1..n), S # {}
    PROVE  \E i \in S : \A j \in S : j <= i
<1> DEFINE T == {n - i : i \in S}
<1>1. T \in SUBSET Nat /\ T # {}
  OBVIOUS
<1> HIDE DEF T
<1>2. PICK t \in T : \A u \in T : t <= u
  BY <1>1, LeastNumber
<1>3. PICK i \in S : t = n - i
  BY <1>2 DEF T
<1>4. ASSUME NEW j \in S PROVE j <= i
  <2>1. n - i <= n - j
    BY <1>2, <1>3 DEF T
  <2> QED BY <2>1
<1> QED BY <1>4

\* Under an argument type the last parameter that has it is found, if any has.
LEMMA RearrangedIs ==
    ASSUME NEW n \in Nat, NEW ps, DOMAIN ps = 1..n, NEW arg
    PROVE  /\ Rearranged(ps, arg) # 0 => /\ Rearranged(ps, arg) \in 1..n
                                         /\ ps[Rearranged(ps, arg)].arg_type = arg
           /\ \A i \in 1..n : ps[i].arg_type = arg =>
                 Rearranged(ps, arg) # 0 /\ i <= Rearranged(ps, arg)
<1> DEFINE is == {i \in 1..n : ps[i].arg_type = arg}
           r == CHOOSE i \in is : \A j \in is : j <= i
<1>1. CASE is = {}
  <2>1. Rearranged(ps, arg) = 0
    BY <1>1 DEF Rearranged
  <2> QED BY <1>1, <2>1
<1>2. CASE is # {}
  <2>1. Rearranged(ps, arg) = r
    BY <1>2 DEF Rearranged
  <2>2. r \in is /\ \A j \in is : j <= r
    <3>1. is \in SUBSET (1..n)
      OBVIOUS
    <3> HIDE DEF is
    <3>2. \E i \in is : \A j \in is : j <= i
      BY <1>2, <3>1, GreatestNumber
    <3> QED BY <3>2
  <2> HIDE DEF r
  <2>3. r \in 1..n /\ r # 0 /\ ps[r].arg_type = arg
    BY <2>2
  <2>4. \A i \in 1..n : ps[i].arg_type = arg => i <= r
    BY <2>2
  <2> QED BY <2>1, <2>3, <2>4
<1> QED BY <1>1, <1>2

\* Only the argument types matter for what is found.
LEMMA RearrangedAlike ==
    ASSUME NEW ps, NEW q, DOMAIN ps = DOMAIN q,
           \A i \in DOMAIN q : ps[i].arg_type = q[i].arg_type
    PROVE  /\ \A arg : Rearranged(ps, arg) = Rearranged(q, arg)
           /\ \A i \in DOMAIN q : Paired(ps, i) <=> Paired(q, i)
<1>1. ASSUME NEW arg PROVE Rearranged(ps, arg) = Rearranged(q, arg)
  <2> DEFINE Found(is) == IF is = {} THEN 0 ELSE CHOOSE i \in is : \A j \in is : j <= i
             is == {i \in DOMAIN ps : ps[i].arg_type = arg}
             js == {i \in DOMAIN q : q[i].arg_type = arg}
  <2>1. Rearranged(ps, arg) = Found(is) /\ Rearranged(q, arg) = Found(js)
    BY DEF Rearranged
  <2>2. is = js
    OBVIOUS
  <2> HIDE DEF Found, is, js
  <2> QED BY <2>1, <2>2
<1>2. ASSUME NEW i \in DOMAIN q PROVE Paired(ps, i) <=> Paired(q, i)
  BY <1>1 DEF Paired
<1> QED BY <1>1, <1>2

\* The parameter that is found under the partner's argument type
PartnerOf(ps, i) == Rearranged(ps, Partner(ps[i].arg_type))

\* Arrays and strides that go together come in pairs.
LEMMA Partners ==
    ASSUME NEW prototype, NEW q, IsParsed(q, prototype), NEW i \in DOMAIN q, Paired(q, i),
           NEW j, j = PartnerOf(q, i)
    PROVE  /\ j \in DOMAIN q /\ Paired(q, j) /\ PartnerOf(q, j) = i
           /\ q[j].is_pointer <=> ~ q[i].is_pointer
           /\ q[i].arg_type # N /\ q[j].arg_type # N
           /\ Rearranged(q, q[i].arg_type) = i /\ Rearranged(q, q[j].arg_type) = j
<1>1. /\ prototype \in Seq(Words) /\ DOMAIN prototype = DOMAIN q
      /\ Len(q) \in Nat /\ DOMAIN q = 1..Len(q)
      /\ \A k \in DOMAIN q : /\ q[k].arg_type = ArgType(prototype[k])
                             /\ q[k].is_pointer <=> prototype[k].form = "array"
  BY ParsedIs
<1>2. \A k \in DOMAIN q : prototype[k] \in Words
  BY <1>1, LenProperties
<1>3. q[i].arg_type # N /\ Rearranged(q, q[i].arg_type) = i /\ j # 0
  BY DEF Paired, PartnerOf
<1> DEFINE a == q[i].arg_type
           w == prototype[i]
           x == prototype[j]
<1>4. j \in DOMAIN q /\ q[j].arg_type = Partner(a)
  <2>1. Rearranged(q, Partner(a)) # 0
    BY <1>3 DEF PartnerOf
  <2>2. /\ Rearranged(q, Partner(a)) \in 1..Len(q)
        /\ q[Rearranged(q, Partner(a))].arg_type = Partner(a)
    BY <1>1, <2>1, RearrangedIs
  <2> QED BY <1>1, <2>2 DEF PartnerOf
<1>5. w \in Words /\ x \in Words /\ a = ArgType(w) /\ q[j].arg_type = ArgType(x)
  BY <1>1, <1>2, <1>4
<1>6. w.form \in {"stride", "array"}
  BY <1>3, <1>5, ArgTypes
<1> DEFINE b == w.form = "stride"
<1>7. w.dir \in Directions /\ a = <<w.dir, b, w.index>> /\ b \in BOOLEAN
  <2>1. CASE w.form = "stride"
    BY <1>5, <2>1, ArgTypes
  <2>2. CASE w.form = "array"
    BY <1>5, <2>2, ArgTypes
  <2> QED BY <1>6, <2>1, <2>2
<1>8. q[j].arg_type = <<w.dir, ~b, w.index>>
  <2> HIDE DEF b
  <2>1. Partner(<<w.dir, b, w.index>>) = <<w.dir, ~b, w.index>>
    BY <1>7, PartnerIs
  <2> QED BY <1>4, <1>7, <2>1
<1>9. Partner(q[j].arg_type) = a
  <2>1. (~b) \in BOOLEAN /\ (~~b) = b
    OBVIOUS
  <2> HIDE DEF b
  <2>2. Partner(<<w.dir, ~b, w.index>>) = <<w.dir, ~~b, w.index>>
    BY <2>1, PartnerIs
  <2> QED BY <1>7, <1>8, <2>1, <2>2
<1>10. x.form # "scale" /\ q[j].arg_type # N
  <2>1. q[j].arg_type # N
    <3>1. <<w.dir, ~b, w.index>>[1] = w.dir /\ N[1] = "scale" /\ w.dir # "scale"
      BY <1>7 DEF N, Directions
    <3> QED BY <1>8, <3>1
  <2>2. x.form = "scale" => q[j].arg_type = N
    BY <1>5, ArgTypes
  <2> QED BY <2>1, <2>2
<1>11. q[j].is_pointer <=> ~ q[i].is_pointer
  <2>1. q[i].is_pointer <=> w.form = "array"
    BY <1>1
  <2>2. q[j].is_pointer <=> x.form = "array"
    BY <1>1, <1>4
  <2>3. CASE w.form = "stride"
    <3>1. q[j].arg_type = <<w.dir, FALSE, w.index>>
      BY <1>8, <2>3
    <3>2. x.form = "stride" => q[j].arg_type = <<x.dir, TRUE, x.index>>
      BY <1>5, ArgTypes
    <3>3. <<x.dir, TRUE, x.index>> # <<w.dir, FALSE, w.index>>
      OBVIOUS
    <3>4. x.form = "array"
      BY <1>5, <1>10, <3>1, <3>2, <3>3, ArgTypes
    <3> QED BY <2>1, <2>2, <2>3, <3>4
  <2>4. CASE w.form = "array"
    <3>1. q[j].arg_type = <<w.dir, TRUE, w.index>>
      BY <1>8, <2>4
    <3>2. x.form = "array" => q[j].arg_type = <<x.dir, FALSE, x.index>>
      BY <1>5, ArgTypes
    <3>3. <<x.dir, FALSE, x.index>> # <<w.dir, TRUE, w.index>>
      OBVIOUS
    <3> QED BY <2>1, <2>2, <2>4, <3>1, <3>2, <3>3
  <2> QED BY <1>6, <2>3, <2>4
<1>12. PartnerOf(q, j) = i
  BY <1>3, <1>9 DEF PartnerOf
<1>13. Rearranged(q, q[j].arg_type) = j
  BY <1>4 DEF PartnerOf
<1>14. i # 0
  BY <1>1
<1>15. Paired(q, j)
  BY <1>10, <1>12, <1>13, <1>14 DEF Paired, PartnerOf
<1> QED BY <1>3, <1>4, <1>10, <1>11, <1>12, <1>13, <1>15

-----------------------------------------------------------------------------
(* What a layout makes of what was parsed *)

\* What a layout does not change of a parameter
Same(p, q) ==
    /\ p.parameter = q.parameter /\ p.arg_type = q.arg_type /\ p.is_pointer = q.is_pointer
    /\ p.pre = q.pre /\ p.post = q.post

\* What the layouts have made of the parameters q: an array has no value, only an
\* array has room, and what is neither n nor in a pair is as it was
Grown(ps, q) ==
    /\ ps \in Seq(Parameter) /\ DOMAIN ps = DOMAIN q
    /\ \A i \in DOMAIN q :
          /\ Same(ps[i], q[i])
          /\ q[i].is_pointer => ps[i].value = 0
          /\ ~ q[i].is_pointer => /\ ps[i].pre_n = 0 /\ ps[i].post_n = 0
                                  /\ ps[i].stride = 0 /\ ps[i].size = 0
          /\ i # Rearranged(q, N) /\ ~ Paired(q, i) => ps[i] = q[i]

\* What a row of an array takes under the numbers of a configuration
Bytes(p, vals) == oil_type_sizeof[p.parameter.type] * LengthOf(p.pre, vals)

\* That the last layout was for the numbers vals
LaidFor(ps, q, vals) ==
    \A i \in DOMAIN q :
        /\ i = Rearranged(q, N) => ps[i].value = vals["test_n"]
        /\ Paired(q, i) /\ q[i].is_pointer =>
              /\ ps[i].pre_n = LengthOf(q[i].pre, vals)
              /\ ps[i].post_n = LengthOf(q[i].post, vals)
              /\ ps[i].stride = ps[PartnerOf(q, i)].value
              /\ ps[i].size = ps[i].stride * ps[i].post_n

\* The value of the stride parameter of an array
StrideFor(ps, q, i) == ps[PartnerOf(q, i)].value

\* A parameter is what its fields are.
LEMMA FieldsMatter ==
    ASSUME NEW p \in Parameter, NEW r \in Parameter, Same(p, r), p.value = r.value,
           p.pre_n = r.pre_n, p.post_n = r.post_n, p.stride = r.stride, p.size = r.size
    PROVE  p = r
  BY DEF Parameter, Same

\* A length is a number.
LEMMA LengthsAreNumbers ==
    ASSUME NEW spec \in LenSpec, NEW vals \in [Options -> Values]
    PROVE  /\ LengthOf(spec, vals) \in Nat
           /\ spec.var = "none" => LengthOf(spec, vals) = spec.len
           /\ spec.var = "n" => LengthOf(spec, vals) = spec.len + vals["test_n"]
           /\ spec.var = "m" => LengthOf(spec, vals) = spec.len + TestM
           /\ spec.var \in {"none", "n", "m"} /\ spec.len \in Nat
           /\ vals["test_n"] \in Nat
<1>1. spec.len \in Nat /\ spec.var \in {"none", "n", "m"}
  BY DEF LenSpec
<1>2. vals["test_n"] \in Nat /\ TestM \in Nat
  BY OilSampleAssumption
<1>3. CASE spec.var = "none"
  BY <1>1, <1>2, <1>3 DEF LengthOf
<1>4. CASE spec.var = "n"
  BY <1>1, <1>2, <1>4 DEF LengthOf
<1>5. CASE spec.var = "m"
  BY <1>1, <1>2, <1>5 DEF LengthOf
<1> QED BY <1>1, <1>3, <1>4, <1>5, <1>2

\* What a row takes is a number, and so is a stride.
LEMMA BytesAreNumbers ==
    ASSUME NEW p \in Parameter, p.parameter.type \in DOMAIN oil_type_sizeof,
           NEW vals \in [Options -> Values], NEW stride \in Parameter
    PROVE  /\ Bytes(p, vals) \in Nat /\ StrideOf(p, stride, vals) \in Nat
           /\ StrideOf(p, stride, vals) =
                 IF stride.value # 0 THEN stride.value ELSE Bytes(p, vals)
<1>1. oil_type_sizeof[p.parameter.type] \in Nat
  BY SizesAreNumbers
<1>2. LengthOf(p.pre, vals) \in Nat
  BY LengthsAreNumbers DEF Parameter
<1>3. \A x, y \in Nat : x * y \in Nat
  OBVIOUS
<1>4. Bytes(p, vals) \in Nat
  BY <1>1, <1>2, <1>3 DEF Bytes
<1>5. StrideOf(p, stride, vals) = IF stride.value # 0 THEN stride.value ELSE Bytes(p, vals)
  BY DEF StrideOf, Bytes
<1> QED BY <1>4, <1>5 DEF Parameter

\* A parameter with another value.
LEMMA OtherValue ==
    ASSUME NEW p \in Parameter, NEW v \in Nat, NEW r, r = [p EXCEPT !.value = v]
    PROVE  /\ r \in Parameter /\ Same(r, p) /\ r.value = v
           /\ r.pre_n = p.pre_n /\ r.post_n = p.post_n /\ r.stride = p.stride /\ r.size = p.size
  BY DEF Parameter, Same

\* An array that is laid out.
LEMMA ArrayLaidOut ==
    ASSUME NEW p \in Parameter, p.parameter.type \in DOMAIN oil_type_sizeof,
           NEW vals \in [Options -> Values], NEW stride \in Parameter,
           NEW r, r = LaidOut(p, stride, vals)
    PROVE  /\ r \in Parameter /\ Same(r, p) /\ r.value = p.value
           /\ r.pre_n = LengthOf(p.pre, vals) /\ r.post_n = LengthOf(p.post, vals)
           /\ r.stride = StrideOf(p, stride, vals) /\ r.size = r.stride * r.post_n
<1> DEFINE bytes == StrideOf(p, stride, vals)
           rows == LengthOf(p.post, vals)
           inrow == LengthOf(p.pre, vals)
           room == bytes * rows
<1>1. r = [p EXCEPT !.pre_n = inrow, !.stride = bytes, !.post_n = rows, !.size = room]
  BY DEF LaidOut
<1>2. bytes \in Nat /\ rows \in Nat /\ inrow \in Nat
  BY BytesAreNumbers, LengthsAreNumbers DEF Parameter
<1>3. room \in Nat /\ room = bytes * rows
  <2>1. \A x, y \in Nat : x * y \in Nat
    OBVIOUS
  <2> QED BY <1>2, <2>1
<1> HIDE DEF bytes, rows, inrow, room
<1>4. /\ r \in Parameter /\ Same(r, p) /\ r.value = p.value
      /\ r.pre_n = inrow /\ r.post_n = rows /\ r.stride = bytes /\ r.size = room
  BY <1>1, <1>2, <1>3 DEF Parameter, Same
<1> QED BY <1>3, <1>4 DEF bytes, rows, inrow

\* What was parsed has grown by nothing.
LEMMA ParsedGrown ==
    ASSUME NEW prototype, NEW q, IsParsed(q, prototype)
    PROVE  Grown(q, q)
<1>1. /\ q \in Seq(Parameter)
      /\ \A i \in DOMAIN q : /\ q[i].value = 0 /\ q[i].pre_n = 0 /\ q[i].post_n = 0
                             /\ q[i].stride = 0 /\ q[i].size = 0
  BY ParsedIs
<1> QED BY <1>1 DEF Grown, Same

\* What is known of parameters that have grown.
LEMMA GrownIs ==
    ASSUME NEW prototype, NEW q, IsParsed(q, prototype), NEW ps, Grown(ps, q)
    PROVE  /\ Len(q) \in Nat /\ DOMAIN q = 1..Len(q) /\ DOMAIN ps = 1..Len(q) /\ Len(ps) = Len(q)
           /\ \A i \in DOMAIN q :
                 /\ ps[i] \in Parameter /\ q[i] \in Parameter /\ Same(ps[i], q[i])
                 /\ ps[i].arg_type = q[i].arg_type /\ ps[i].is_pointer = q[i].is_pointer
                 /\ ps[i].pre = q[i].pre /\ ps[i].post = q[i].post
                 /\ ps[i].parameter = q[i].parameter /\ q[i].parameter = prototype[i]
                 /\ ps[i].parameter.type \in DOMAIN oil_type_sizeof
                 /\ Paired(ps, i) <=> Paired(q, i)
                 /\ PartnerOf(ps, i) = PartnerOf(q, i)
           /\ \A arg : Rearranged(ps, arg) = Rearranged(q, arg)
           /\ ps = [i \in DOMAIN q |-> ps[i]]
<1>1. /\ Len(q) \in Nat /\ DOMAIN q = 1..Len(q) /\ q \in Seq(Parameter)
      /\ \A i \in DOMAIN q : /\ q[i] \in Parameter /\ q[i].parameter = prototype[i]
                             /\ q[i].parameter.type \in DOMAIN oil_type_sizeof
  BY ParsedIs
<1>2. ps \in Seq(Parameter) /\ DOMAIN ps = DOMAIN q /\ \A i \in DOMAIN q : Same(ps[i], q[i])
  BY DEF Grown
<1>3. Len(ps) \in Nat /\ DOMAIN ps = 1..Len(ps) /\ ps \in [1..Len(ps) -> Parameter]
  BY <1>2, LenProperties
<1>4. Len(ps) = Len(q)
  BY <1>1, <1>2, <1>3
<1>5. \A i \in DOMAIN q : ps[i] \in Parameter
  BY <1>2, <1>3
<1>6. \A i \in DOMAIN q : /\ ps[i].arg_type = q[i].arg_type /\ ps[i].is_pointer = q[i].is_pointer
                          /\ ps[i].pre = q[i].pre /\ ps[i].post = q[i].post
                          /\ ps[i].parameter = q[i].parameter
  BY <1>2 DEF Same
<1>7. /\ \A arg : Rearranged(ps, arg) = Rearranged(q, arg)
      /\ \A i \in DOMAIN q : Paired(ps, i) <=> Paired(q, i)
  BY <1>2, <1>6, RearrangedAlike
<1>8. \A i \in DOMAIN q : PartnerOf(ps, i) = PartnerOf(q, i)
  BY <1>6, <1>7 DEF PartnerOf
<1>9. ps = [i \in DOMAIN q |-> ps[i]]
  BY <1>2, <1>3
<1> QED BY <1>1, <1>2, <1>4, <1>5, <1>6, <1>7, <1>8, <1>9

\* The parameter that is given n is a number of its own, and n it is.
LEMMA NumberIs ==
    ASSUME NEW prototype, NEW q, IsParsed(q, prototype), NEW i \in DOMAIN q, i = Rearranged(q, N)
    PROVE  q[i].arg_type = N /\ ~ q[i].is_pointer /\ ~ Paired(q, i)
<1>1. /\ prototype \in Seq(Words) /\ DOMAIN prototype = DOMAIN q
      /\ Len(q) \in Nat /\ DOMAIN q = 1..Len(q)
      /\ q[i].arg_type = ArgType(prototype[i])
      /\ q[i].is_pointer <=> prototype[i].form = "array"
  BY ParsedIs
<1>2. q[i].arg_type = N
  <2>1. i # 0
    BY <1>1
  <2> QED BY <1>1, <2>1, RearrangedIs
<1>3. prototype[i] \in Words
  BY <1>1, LenProperties
<1>4. prototype[i].form # "array"
  <2>1. SUFFICES ASSUME prototype[i].form = "array" PROVE FALSE
    OBVIOUS
  <2> DEFINE w == prototype[i]
  <2>2. w.dir \in Directions /\ N = <<w.dir, FALSE, w.index>>
    BY <1>1, <1>2, <1>3, <2>1, ArgTypes
  <2>3. N[1] = "scale" /\ <<w.dir, FALSE, w.index>>[1] = w.dir
    BY DEF N
  <2>4. w.dir = "scale"
    <3> HIDE DEF w
    <3> QED BY <2>2, <2>3
  <2> QED BY <2>2, <2>4 DEF Directions
<1> QED BY <1>1, <1>2, <1>4 DEF Paired

\* What a layout of ps makes of each of the parameters q
LaidOutAt(r, ps, q, vals) ==
    \A i \in DOMAIN q :
           /\ i = Rearranged(q, N) => r[i] = [ps[i] EXCEPT !.value = vals["test_n"]]
           /\ Paired(q, i) /\ q[i].is_pointer => r[i] = LaidOut(ps[i], ps[PartnerOf(q, i)], vals)
           /\ Paired(q, i) /\ ~ q[i].is_pointer =>
                 r[i] = [ps[i] EXCEPT !.value = StrideOf(ps[PartnerOf(q, i)], ps[i], vals)]
           /\ i # Rearranged(q, N) /\ ~ Paired(q, i) => r[i] = ps[i]

\* So it does.
LEMMA LayoutAt ==
    ASSUME NEW prototype, NEW q, IsParsed(q, prototype), NEW ps, Grown(ps, q),
           NEW vals
    PROVE  LaidOutAt(Layout(ps, vals), ps, q, vals)
<1> DEFINE r == Layout(ps, vals)
<1> SUFFICES ASSUME NEW i \in DOMAIN q
             PROVE  /\ i = Rearranged(q, N) => r[i] = [ps[i] EXCEPT !.value = vals["test_n"]]
                    /\ Paired(q, i) /\ q[i].is_pointer =>
                          r[i] = LaidOut(ps[i], ps[PartnerOf(q, i)], vals)
                    /\ Paired(q, i) /\ ~ q[i].is_pointer =>
                          r[i] = [ps[i] EXCEPT !.value = StrideOf(ps[PartnerOf(q, i)], ps[i], vals)]
                    /\ i # Rearranged(q, N) /\ ~ Paired(q, i) => r[i] = ps[i]
  BY DEF LaidOutAt
<1>1. /\ DOMAIN ps = DOMAIN q /\ ps[i].is_pointer = q[i].is_pointer
      /\ Paired(ps, i) <=> Paired(q, i)
      /\ PartnerOf(ps, i) = PartnerOf(q, i) /\ Rearranged(ps, N) = Rearranged(q, N)
  BY GrownIs
<1> DEFINE partner == ps[PartnerOf(q, i)]
<1>2. r[i] = IF i = Rearranged(q, N) THEN [ps[i] EXCEPT !.value = vals["test_n"]]
             ELSE IF ~ Paired(q, i) THEN ps[i]
             ELSE IF q[i].is_pointer THEN LaidOut(ps[i], partner, vals)
             ELSE [ps[i] EXCEPT !.value = StrideOf(partner, ps[i], vals)]
  <2>1. partner = ps[Rearranged(ps, Partner(ps[i].arg_type))]
    BY <1>1 DEF PartnerOf
  <2> HIDE DEF partner
  <2> QED BY <1>1, <2>1 DEF Layout
<1>3. i = Rearranged(q, N) => ~ Paired(q, i)
  BY NumberIs
<1> HIDE DEF partner
<1>4. /\ i = Rearranged(q, N) => r[i] = [ps[i] EXCEPT !.value = vals["test_n"]]
      /\ Paired(q, i) /\ q[i].is_pointer => r[i] = LaidOut(ps[i], partner, vals)
      /\ Paired(q, i) /\ ~ q[i].is_pointer =>
            r[i] = [ps[i] EXCEPT !.value = StrideOf(partner, ps[i], vals)]
      /\ i # Rearranged(q, N) /\ ~ Paired(q, i) => r[i] = ps[i]
  BY <1>2, <1>3
<1> QED BY <1>4 DEF partner

\* A layout: the parameters grow, the arrays get what the numbers ask for, and a stride
\* stays once it is not zero.
LEMMA LayoutGrows ==
    ASSUME NEW prototype, NEW q, IsParsed(q, prototype), NEW ps, Grown(ps, q),
           NEW vals \in [Options -> Values], NEW r, r = Layout(ps, vals)
    PROVE  /\ Grown(r, q) /\ LaidFor(r, q, vals)
           /\ \A i \in DOMAIN q : Paired(q, i) /\ q[i].is_pointer =>
                 StrideFor(r, q, i) = IF StrideFor(ps, q, i) # 0 THEN StrideFor(ps, q, i)
                                      ELSE Bytes(q[i], vals)
<1>1. /\ Len(q) \in Nat /\ DOMAIN q = 1..Len(q) /\ DOMAIN ps = DOMAIN q
      /\ \A i \in DOMAIN q :
            /\ ps[i] \in Parameter /\ q[i] \in Parameter /\ Same(ps[i], q[i])
            /\ ps[i].is_pointer = q[i].is_pointer
            /\ ps[i].pre = q[i].pre /\ ps[i].post = q[i].post /\ ps[i].parameter = q[i].parameter
            /\ ps[i].parameter.type \in DOMAIN oil_type_sizeof
  BY GrownIs
<1>2. \A i \in DOMAIN q :
         /\ q[i].is_pointer => ps[i].value = 0
         /\ ~ q[i].is_pointer => /\ ps[i].pre_n = 0 /\ ps[i].post_n = 0
                                 /\ ps[i].stride = 0 /\ ps[i].size = 0
         /\ i # Rearranged(q, N) /\ ~ Paired(q, i) => ps[i] = q[i]
  BY DEF Grown
<1>3. vals["test_n"] \in Nat
  BY OilSampleAssumption
<1>0. LaidOutAt(r, ps, q, vals)
  BY LayoutAt
\* The four kinds of parameters
<1>4. ASSUME NEW i \in DOMAIN q, i = Rearranged(q, N)
      PROVE  /\ r[i] \in Parameter /\ Same(r[i], ps[i]) /\ r[i].value = vals["test_n"]
             /\ r[i].pre_n = 0 /\ r[i].post_n = 0 /\ r[i].stride = 0 /\ r[i].size = 0
             /\ ~ q[i].is_pointer /\ ~ Paired(q, i)
  <2>1. ~ q[i].is_pointer /\ ~ Paired(q, i)
    BY <1>4, NumberIs
  <2>2. r[i] = [ps[i] EXCEPT !.value = vals["test_n"]]
    BY <1>0, <1>4 DEF LaidOutAt
  <2>3. /\ r[i] \in Parameter /\ Same(r[i], ps[i]) /\ r[i].value = vals["test_n"]
        /\ r[i].pre_n = ps[i].pre_n /\ r[i].post_n = ps[i].post_n
        /\ r[i].stride = ps[i].stride /\ r[i].size = ps[i].size
    BY <1>1, <1>3, <2>2, OtherValue
  <2> QED BY <1>2, <2>1, <2>3
<1>5. ASSUME NEW i \in DOMAIN q, Paired(q, i), q[i].is_pointer, NEW j, j = PartnerOf(q, i)
      PROVE  /\ r[i] \in Parameter /\ Same(r[i], ps[i]) /\ r[i].value = 0
             /\ r[i].pre_n = LengthOf(q[i].pre, vals) /\ r[i].post_n = LengthOf(q[i].post, vals)
             /\ r[i].stride = IF ps[j].value # 0 THEN ps[j].value ELSE Bytes(q[i], vals)
             /\ r[i].size = r[i].stride * r[i].post_n
             /\ i # Rearranged(q, N)
  <2>1. j \in DOMAIN q
    BY <1>5, Partners
  <2>2. r[i] = LaidOut(ps[i], ps[j], vals)
    BY <1>0, <1>5 DEF LaidOutAt
  <2>3. /\ r[i] \in Parameter /\ Same(r[i], ps[i]) /\ r[i].value = ps[i].value
        /\ r[i].pre_n = LengthOf(ps[i].pre, vals) /\ r[i].post_n = LengthOf(ps[i].post, vals)
        /\ r[i].stride = StrideOf(ps[i], ps[j], vals) /\ r[i].size = r[i].stride * r[i].post_n
    BY <1>1, <2>1, <2>2, ArrayLaidOut
  <2>4. StrideOf(ps[i], ps[j], vals) = IF ps[j].value # 0 THEN ps[j].value ELSE Bytes(ps[i], vals)
    BY <1>1, <2>1, BytesAreNumbers
  <2>5. Bytes(ps[i], vals) = Bytes(q[i], vals)
    BY <1>1 DEF Bytes
  <2>6. i # Rearranged(q, N)
    BY <1>5, NumberIs
  <2> QED BY <1>1, <1>2, <1>5, <2>3, <2>4, <2>5, <2>6
<1>6. ASSUME NEW i \in DOMAIN q, Paired(q, i), ~ q[i].is_pointer, NEW j, j = PartnerOf(q, i)
      PROVE  /\ r[i] \in Parameter /\ Same(r[i], ps[i])
             /\ r[i].value = IF ps[i].value # 0 THEN ps[i].value ELSE Bytes(q[j], vals)
             /\ r[i].pre_n = 0 /\ r[i].post_n = 0 /\ r[i].stride = 0 /\ r[i].size = 0
  <2>1. j \in DOMAIN q
    BY <1>6, Partners
  <2> DEFINE v == StrideOf(ps[j], ps[i], vals)
  <2>2. r[i] = [ps[i] EXCEPT !.value = v]
    BY <1>0, <1>6 DEF LaidOutAt
  <2>3. v \in Nat /\ v = IF ps[i].value # 0 THEN ps[i].value ELSE Bytes(ps[j], vals)
    BY <1>1, <2>1, BytesAreNumbers
  <2>4. Bytes(ps[j], vals) = Bytes(q[j], vals)
    BY <1>1, <2>1 DEF Bytes
  <2> HIDE DEF v
  <2>5. /\ r[i] \in Parameter /\ Same(r[i], ps[i]) /\ r[i].value = v
        /\ r[i].pre_n = ps[i].pre_n /\ r[i].post_n = ps[i].post_n
        /\ r[i].stride = ps[i].stride /\ r[i].size = ps[i].size
    BY <1>1, <2>2, <2>3, OtherValue
  <2> QED BY <1>2, <1>6, <2>3, <2>4, <2>5
<1>7. ASSUME NEW i \in DOMAIN q, i # Rearranged(q, N), ~ Paired(q, i)
      PROVE  r[i] = ps[i]
  BY <1>0, <1>7 DEF LaidOutAt
<1>8. DOMAIN r = DOMAIN q
  BY <1>1 DEF Layout
<1>9. \A i \in DOMAIN q : r[i] \in Parameter /\ Same(r[i], ps[i])
  <2>1. \A p : Same(p, p)
    BY DEF Same
  <2> QED BY <1>1, <1>4, <1>5, <1>6, <1>7, <2>1
<1>10. r \in Seq(Parameter)
  <2>1. r = [i \in DOMAIN q |-> r[i]]
    BY <1>1 DEF Layout
  <2>2. r \in [1..Len(q) -> Parameter]
    BY <1>1, <1>9, <2>1
  <2> QED BY <1>1, <2>2, SeqDef
<1>11. \A i \in DOMAIN q : Same(r[i], q[i])
  BY <1>1, <1>9 DEF Same
<1>12. ASSUME NEW i \in DOMAIN q
       PROVE  /\ q[i].is_pointer => r[i].value = 0
              /\ ~ q[i].is_pointer => /\ r[i].pre_n = 0 /\ r[i].post_n = 0
                                      /\ r[i].stride = 0 /\ r[i].size = 0
              /\ i # Rearranged(q, N) /\ ~ Paired(q, i) => r[i] = q[i]
  <2>1. CASE i = Rearranged(q, N)
    BY <1>4, <2>1
  <2>2. CASE Paired(q, i) /\ q[i].is_pointer
    BY <1>5, <2>2
  <2>3. CASE Paired(q, i) /\ ~ q[i].is_pointer
    BY <1>6, <2>3
  <2>4. CASE i # Rearranged(q, N) /\ ~ Paired(q, i)
    BY <1>2, <1>7, <2>4
  <2> QED BY <2>1, <2>2, <2>3, <2>4
<1>13. Grown(r, q)
  BY <1>8, <1>10, <1>11, <1>12 DEF Grown
<1>14. ASSUME NEW i \in DOMAIN q, Paired(q, i), q[i].is_pointer
       PROVE  /\ StrideFor(r, q, i) = IF StrideFor(ps, q, i) # 0 THEN StrideFor(ps, q, i)
                                      ELSE Bytes(q[i], vals)
              /\ r[i].stride = StrideFor(r, q, i)
  <2> DEFINE j == PartnerOf(q, i)
  <2>1. /\ j \in DOMAIN q /\ Paired(q, j) /\ PartnerOf(q, j) = i
        /\ q[j].is_pointer <=> ~ q[i].is_pointer
    BY <1>14, Partners
  <2>2. r[j].value = IF ps[j].value # 0 THEN ps[j].value ELSE Bytes(q[i], vals)
    BY <1>6, <1>14, <2>1
  <2>3. r[i].stride = IF ps[j].value # 0 THEN ps[j].value ELSE Bytes(q[i], vals)
    BY <1>5, <1>14
  <2> QED BY <2>2, <2>3 DEF StrideFor
<1>15. LaidFor(r, q, vals)
  BY <1>4, <1>5, <1>14 DEF LaidFor, StrideFor
<1> QED BY <1>13, <1>14, <1>15

\* The strides that the first test left: a row under its numbers, unless n was to tell
\* what a row holds and left it empty
StridesFrom(ps, q, vals) ==
    \A i \in DOMAIN q : Paired(q, i) /\ q[i].is_pointer =>
        \/ StrideFor(ps, q, i) = Bytes(q[i], vals)
        \/ q[i].pre.var = "n" /\ LengthOf(q[i].pre, vals) = 0

\* The first layout leaves such strides.
LEMMA FirstStrides ==
    ASSUME NEW prototype, NEW q, IsParsed(q, prototype),
           NEW vals \in [Options -> Values], NEW r, r = Layout(q, vals)
    PROVE  StridesFrom(r, q, vals)
<1>1. ASSUME NEW i \in DOMAIN q, Paired(q, i), q[i].is_pointer
      PROVE  StrideFor(r, q, i) = Bytes(q[i], vals)
  <2>1. PartnerOf(q, i) \in DOMAIN q
    BY <1>1, Partners
  <2>2. StrideFor(q, q, i) = 0
    BY <2>1, ParsedIs DEF StrideFor
  <2> QED BY <1>1, <2>2, ParsedGrown, LayoutGrows
<1> QED BY <1>1 DEF StridesFrom

\* The other layouts keep them.
LEMMA StridesStay ==
    ASSUME NEW prototype, NEW q, IsParsed(q, prototype), NEW ps, Grown(ps, q),
           NEW before \in [Options -> Values], StridesFrom(ps, q, before),
           NEW vals \in [Options -> Values], NEW r, r = Layout(ps, vals)
    PROVE  StridesFrom(r, q, before)
<1>1. ASSUME NEW i \in DOMAIN q, Paired(q, i), q[i].is_pointer,
             ~ (q[i].pre.var = "n" /\ LengthOf(q[i].pre, before) = 0)
      PROVE  StrideFor(r, q, i) = Bytes(q[i], before)
  <2>1. StrideFor(ps, q, i) = Bytes(q[i], before)
    BY <1>1 DEF StridesFrom
  <2>2. StrideFor(r, q, i) = IF StrideFor(ps, q, i) # 0 THEN StrideFor(ps, q, i)
                             ELSE Bytes(q[i], vals)
    BY <1>1, LayoutGrows
  <2>3. CASE StrideFor(ps, q, i) # 0
    BY <2>1, <2>2, <2>3
  <2>4. CASE StrideFor(ps, q, i) = 0
    <3> DEFINE w == oil_type_sizeof[q[i].parameter.type]
               l == LengthOf(q[i].pre, before)
               m == LengthOf(q[i].pre, vals)
    <3>1. q[i] \in Parameter /\ q[i].parameter.type \in DOMAIN oil_type_sizeof
      BY ParsedIs
    <3>2. w \in Nat
      BY <3>1, SizesAreNumbers
    <3>3. q[i].pre \in LenSpec
      BY <3>1 DEF Parameter
    <3>4. l \in Nat /\ m \in Nat /\ (q[i].pre.var # "n" => l = m)
      BY <3>3, LengthsAreNumbers
    <3>5. w * l = 0
      BY <2>1, <2>4 DEF Bytes
    <3>6. l = 0 => m = 0
      BY <1>1, <3>4
    <3> HIDE DEF w, l, m
    <3>7. w * m = 0
      <4>1. w = 0 \/ l = 0
        BY <3>2, <3>4, <3>5
      <4> QED BY <3>2, <3>4, <3>6, <4>1
    <3>8. Bytes(q[i], vals) = 0
      BY <3>7 DEF Bytes, w, m
    <3> QED BY <2>1, <2>2, <2>4, <3>8
  <2> QED BY <2>3, <2>4
<1> QED BY <1>1 DEF StridesFrom

-----------------------------------------------------------------------------
(* What a test draws *)

\* That g is defined by the recursion of Drawn
Counting(g, ps, n) ==
    g = [i \in 0..n |->
            IF i = 0 THEN 0
            ELSE g[i - 1] + (IF i \in Inputs(ps) THEN ps[i].pre_n * ps[i].post_n ELSE 0)]

\* There is what is counted, and it is numbers.
LEMMA CountOfNumbers ==
    ASSUME NEW ps \in Seq(Parameter), NEW n \in Nat, n <= Len(ps)
    PROVE  /\ \E g : Counting(g, ps, n)
           /\ \A g : Counting(g, ps, n) => g[n] \in Nat
<1> DEFINE more == [i \in 1..n |-> IF i \in Inputs(ps) THEN ps[i].pre_n * ps[i].post_n ELSE 0]
           Count(g, k) == g = [i \in 0..k |-> IF i = 0 THEN 0 ELSE g[i - 1] + more[i]]
<1>1. \A i \in 1..n : more[i] \in Nat
  <2> SUFFICES ASSUME NEW i \in 1..n PROVE more[i] \in Nat
    OBVIOUS
  <2>1. ps[i] \in Parameter
    <3>1. Len(ps) \in Nat /\ i \in 1..Len(ps)
      BY LenProperties
    <3> QED BY <3>1, LenProperties
  <2>2. ps[i].pre_n \in Nat /\ ps[i].post_n \in Nat
    BY <2>1 DEF Parameter
  <2>3. \A x, y \in Nat : x * y \in Nat
    OBVIOUS
  <2>4. ps[i].pre_n * ps[i].post_n \in Nat
    BY <2>2, <2>3
  <2> QED BY <2>4
<1>2. ASSUME NEW g PROVE Counting(g, ps, n) <=> Count(g, n)
  <2> DEFINE c == [i \in 0..n |->
                      IF i = 0 THEN 0
                      ELSE g[i - 1] + (IF i \in Inputs(ps) THEN ps[i].pre_n * ps[i].post_n ELSE 0)]
             d == [i \in 0..n |-> IF i = 0 THEN 0 ELSE g[i - 1] + more[i]]
  <2>1. c = d
    <3> SUFFICES ASSUME NEW i \in 0..n PROVE c[i] = d[i]
      OBVIOUS
    <3>1. CASE i = 0
      BY <3>1
    <3>2. CASE i # 0
      <4>1. i \in 1..n
        BY <3>2
      <4> QED BY <3>2, <4>1
    <3> QED BY <3>1, <3>2
  <2> HIDE DEF more
  <2> QED BY <2>1 DEF Counting
<1> HIDE DEF more
<1> DEFINE S == {k \in Nat : k <= n => \E g : Count(g, k)}
<1>3. 0 \in S
  <2> DEFINE g == [i \in 0..0 |-> 0]
  <2>1. Count(g, 0)
    <3>1. \A i \in 0..0 : i = 0
      OBVIOUS
    <3> QED BY <3>1
  <2> HIDE DEF Count, g
  <2> QED BY <2>1
<1>4. ASSUME NEW k \in Nat, k \in S PROVE k + 1 \in S
  <2> SUFFICES ASSUME k + 1 <= n PROVE \E g : Count(g, k + 1)
    OBVIOUS
  <2>1. PICK g : Count(g, k)
    BY <1>4
  <2> DEFINE h == [i \in 0..(k + 1) |-> IF i = k + 1 THEN g[k] + more[k + 1] ELSE g[i]]
  <2>2. ASSUME NEW i \in 0..(k + 1)
        PROVE  h[i] = IF i = 0 THEN 0 ELSE h[i - 1] + more[i]
    <3>1. CASE i = 0
      <4>1. h[0] = g[0] /\ g[0] = 0
        BY <2>1
      <4> QED BY <3>1, <4>1
    <3>2. CASE i = k + 1
      <4>1. h[i] = g[k] + more[k + 1] /\ h[i - 1] = g[k] /\ i # 0
        BY <3>2
      <4> QED BY <3>2, <4>1
    <3>3. CASE i # 0 /\ i # k + 1
      <4>1. i \in 0..k /\ i - 1 \in 0..k
        BY <3>3
      <4>2. h[i] = g[i] /\ h[i - 1] = g[i - 1]
        BY <3>3, <4>1
      <4>3. g[i] = g[i - 1] + more[i]
        BY <2>1, <3>3, <4>1
      <4> QED BY <3>3, <4>2, <4>3
    <3> QED BY <3>1, <3>2, <3>3
  <2>3. h = [i \in 0..(k + 1) |-> h[i]]
    OBVIOUS
  <2> HIDE DEF h
  <2>4. Count(h, k + 1)
    BY <2>2, <2>3
  <2> HIDE DEF Count
  <2> QED BY <2>4
<1>5. n \in S
  <2> HIDE DEF S
  <2> QED BY <1>3, <1>4, AllNumbers
<1>6. \E g : Counting(g, ps, n)
  <2> HIDE DEF Count
  <2> QED BY <1>2, <1>5
<1>7. ASSUME NEW g, Counting(g, ps, n) PROVE g[n] \in Nat
  <2>1. Count(g, n)
    BY <1>2, <1>7
  <2> DEFINE T == {k \in Nat : k <= n => g[k] \in Nat}
  <2>2. 0 \in T
    BY <2>1
  <2>3. ASSUME NEW k \in Nat, k \in T PROVE k + 1 \in T
    <3> SUFFICES ASSUME k + 1 <= n PROVE g[k + 1] \in Nat
      OBVIOUS
    <3>1. k + 1 \in 0..n /\ k + 1 \in 1..n /\ k + 1 # 0 /\ (k + 1) - 1 = k /\ k <= n
      OBVIOUS
    <3>2. g[k + 1] = g[k] + more[k + 1]
      BY <2>1, <3>1
    <3> QED BY <1>1, <2>3, <3>1, <3>2
  <2>4. Nat \subseteq T
    <3> HIDE DEF T
    <3> QED BY <2>2, <2>3, AllNumbers
  <2> QED BY <2>4
<1> QED BY <1>6, <1>7

\* So what a test draws is a number.
LEMMA DrawnIsNumber ==
    ASSUME NEW ps \in Seq(Parameter)
    PROVE  Drawn(ps) \in Nat
<1> DEFINE n == Len(ps)
           t == CHOOSE g : Counting(g, ps, n)
<1>1. n \in Nat /\ n <= Len(ps)
  BY LenProperties
<1>2. Counting(t, ps, n) /\ t[n] \in Nat
  <2> HIDE DEF n, t
  <2>1. \E g : Counting(g, ps, n)
    BY <1>1, CountOfNumbers
  <2>2. Counting(t, ps, n)
    BY <2>1 DEF t
  <2> QED BY <1>1, <2>2, CountOfNumbers
<1>3. Drawn(ps) = t[n]
  BY DEF Drawn, Counting
<1> QED BY <1>2, <1>3

-----------------------------------------------------------------------------
(* The invariant *)

\* The parameters ps were parsed to q, and laid out, the first and the last time, for
\* the numbers f and l
LaidOutFrom(ps, q, f, l) ==
    /\ Grown(ps, q)
    /\ l = NULL => ps = q
    /\ l # NULL => /\ f \in [Options -> Values] /\ l \in [Options -> Values]
                   /\ LaidFor(ps, q, l) /\ StridesFrom(ps, q, f)

Attached(ps, f, l) ==
    \E prototype \in Prototypes :
        oil_prototype_parse(prototype) /\ LaidOutFrom(ps, Parsed(prototype), f, l)

SampleInv ==
    /\ Owned(stack, strings, rands) /\ died \in BOOLEAN
    /\ params = NULL => first = NULL /\ last = NULL
    /\ first = NULL <=> last = NULL
    /\ params # NULL => Attached(params, first, last)

\* What is attached has parameters.
LEMMA AttachedIs ==
    ASSUME NEW ps, NEW f, NEW l, Attached(ps, f, l)
    PROVE  /\ ps # NULL
           /\ \E prototype, q : IsParsed(q, prototype) /\ LaidOutFrom(ps, q, f, l)
<1>1. PICK prototype \in Prototypes :
         oil_prototype_parse(prototype) /\ LaidOutFrom(ps, Parsed(prototype), f, l)
  BY DEF Attached
<1>2. IsParsed(Parsed(prototype), prototype)
  BY <1>1 DEF IsParsed
<1>3. ps \in Seq(Parameter)
  BY <1>1 DEF LaidOutFrom, Grown
<1>4. ps # NULL
  BY <1>3, NoParametersAssumption
<1> QED BY <1>1, <1>2, <1>4

LEMMA IsAttached ==
    ASSUME NEW prototype, NEW q, IsParsed(q, prototype), NEW ps, NEW f, NEW l,
           LaidOutFrom(ps, q, f, l)
    PROVE  Attached(ps, f, l)
  BY DEF IsParsed, Attached

\* Attaching a prototype.
LEMMA AttachStep ==
    ASSUME SampleInv, NEW prototype \in Prototypes, oil_test_attach_class_full(prototype)
    PROVE  SampleInv' /\ KeptBeneath
<1>1. /\ params = NULL /\ first = NULL /\ last = NULL
      /\ oil_prototype_parse(prototype) /\ params' = Parsed(prototype)
      /\ first' = NULL /\ last' = NULL
      /\ stack' = stack /\ strings' = strings /\ rands' = rands /\ died' = died
  BY DEF SampleInv, oil_test_attach_class_full, vars
<1>2. IsParsed(params', prototype)
  BY <1>1 DEF IsParsed
<1>3. Grown(params', params')
  BY <1>2, ParsedGrown
<1>4. LaidOutFrom(params', params', first', last')
  BY <1>1, <1>3 DEF LaidOutFrom
<1>5. Attached(params', first', last')
  BY <1>2, <1>4, IsAttached
<1>6. Owned(stack', strings', rands') /\ died' \in BOOLEAN
  BY <1>1 DEF SampleInv
<1>7. SampleInv'
  BY <1>1, <1>5, <1>6 DEF SampleInv
<1>8. KeptBeneath
  BY <1>1 DEF KeptBeneath, Content
<1> QED BY <1>7, <1>8

\* A test: of the configuration it draws numbers, and the arrays are laid out.
LEMMA TestStep ==
    ASSUME SampleInv, NEW auto \in Seeds \cup CutSeeds, NEW judged \in BOOLEAN,
           _optimize_class(auto, judged)
    PROVE  SampleInv' /\ KeptBeneath
<1> DEFINE s == Initialized(auto)
           top == Top(s.stack)
           ps == Layout(params, top.vals)
           draws == s.rands[top.rand].drawn + Drawn(ps)
           d == IF draws < MaxDraws THEN draws ELSE MaxDraws
<1>1. /\ params # NULL /\ stack' = s.stack /\ strings' = s.strings
      /\ rands' = [s.rands EXCEPT ![top.rand].drawn = d]
      /\ params' = ps /\ died' \in BOOLEAN
      /\ first' = (IF first = NULL THEN top.vals ELSE first) /\ last' = top.vals
  BY DEF _optimize_class
<1>2. Owned(stack, strings, rands) /\ Attached(params, first, last) /\ (first = NULL <=> last = NULL)
  BY <1>1 DEF SampleInv
<1>3. /\ Owned(s.stack, s.strings, s.rands) /\ Len(s.stack) # 0
      /\ stack = <<>> => Len(s.stack) = 1
      /\ stack # <<>> => s.stack = stack /\ s.strings = strings /\ s.rands = rands
  BY <1>2, InitializedOwns
<1> HIDE DEF s
<1>4. /\ top = s.stack[Len(s.stack)] /\ top \in Frame /\ s.rands[top.rand] \in Generator
      /\ top.vals \in [Options -> Values] /\ Len(s.stack) \in Nat
  <2>1. Len(s.stack) \in 1..Len(s.stack) /\ Len(s.stack) \in Nat
    BY <1>3, FrameOwns
  <2>2. top = s.stack[Len(s.stack)]
    BY DEF Top
  <2> HIDE DEF top
  <2>3. top \in Frame /\ s.rands[top.rand] \in Generator
    BY <1>3, <2>1, <2>2, FrameOwns
  <2>4. top.vals \in [Options -> Values]
    BY <2>3 DEF Frame
  <2> QED BY <2>1, <2>2, <2>3, <2>4
<1> HIDE DEF top
<1>5. PICK prototype, q : IsParsed(q, prototype) /\ LaidOutFrom(params, q, first, last)
  BY <1>2, AttachedIs
<1>6. Grown(params, q)
  BY <1>5 DEF LaidOutFrom
<1>7. Grown(ps, q) /\ LaidFor(ps, q, top.vals)
  BY <1>4, <1>5, <1>6, LayoutGrows
<1>8. StridesFrom(ps, q, first')
  <2>1. CASE last = NULL
    <3>1. first' = top.vals /\ params = q
      BY <1>1, <1>2, <1>5, <2>1 DEF LaidOutFrom
    <3>2. StridesFrom(ps, q, top.vals)
      BY <1>4, <1>5, <3>1, FirstStrides
    <3> QED BY <3>1, <3>2
  <2>2. CASE last # NULL
    <3>1. first' = first /\ first \in [Options -> Values] /\ StridesFrom(params, q, first)
      BY <1>1, <1>2, <1>5, <2>2 DEF LaidOutFrom
    <3>2. StridesFrom(ps, q, first)
      BY <1>4, <1>5, <1>6, <3>1, StridesStay
    <3> QED BY <3>1, <3>2
  <2> QED BY <2>1, <2>2
<1>9. first' \in [Options -> Values] /\ first' # NULL /\ last' # NULL
  <2>1. first # NULL => first \in [Options -> Values]
    BY <1>2, <1>5 DEF LaidOutFrom
  <2> QED BY <1>1, <1>4, <2>1
<1>10. LaidOutFrom(params', q, first', last')
  BY <1>1, <1>4, <1>7, <1>8, <1>9 DEF LaidOutFrom
<1>11. Attached(params', first', last')
  BY <1>5, <1>10, IsAttached
<1>12. params' # NULL
  BY <1>11, AttachedIs
<1>13. d \in 0..MaxDraws
  <2>1. ps \in Seq(Parameter)
    BY <1>7 DEF Grown
  <2> HIDE DEF ps
  <2>2. Drawn(ps) \in Nat
    BY <2>1, DrawnIsNumber
  <2>3. s.rands[top.rand].drawn \in 0..MaxDraws
    BY <1>4 DEF Generator
  <2>4. MaxDraws \in Nat
    OBVIOUS
  <2>5. draws \in Nat
    BY <2>2, <2>3, <2>4
  <2> HIDE DEF draws
  <2> QED BY <2>4, <2>5
<1> HIDE DEF d
<1> DEFINE k == Len(s.stack) - 1
<1>14. /\ Owned(stack', strings', rands')
       /\ Beneath(k, s.stack, s.strings, s.rands, stack', strings', rands')
  <2> DEFINE r == [s.rands EXCEPT ![s.stack[Len(s.stack)].rand].drawn = d]
  <2>1. r = rands'
    BY <1>1, <1>4
  <2>2. Owned(s.stack, s.strings, r) /\ Beneath(k, s.stack, s.strings, s.rands, s.stack, s.strings, r)
    <3> HIDE DEF r
    <3>1. r = [s.rands EXCEPT ![s.stack[Len(s.stack)].rand].drawn = d]
      BY DEF r
    <3> DEFINE stk == s.stack
               strs == s.strings
               rnds == s.rands
    <3>2. Owned(stk, strs, rnds) /\ Len(stk) # 0 /\ r = [rnds EXCEPT ![stk[Len(stk)].rand].drawn = d]
      BY <1>3, <3>1
    <3> HIDE DEF stk, strs, rnds
    <3>3. Owned(stk, strs, r) /\ Beneath(Len(stk) - 1, stk, strs, rnds, stk, strs, r)
      BY <1>13, <3>2, FrameDrawn
    <3> QED BY <3>3 DEF stk, strs, rnds
  <2> QED BY <1>1, <2>1, <2>2
<1>15. SampleInv'
  BY <1>1, <1>9, <1>11, <1>12, <1>14 DEF SampleInv
<1>16. KeptBeneath
  <2>1. CASE stack = <<>>
    BY <1>2, <1>14, <2>1, KeptOfNone
  <2>2. CASE stack # <<>>
    <3>1. /\ k \in Int /\ k = Len(stack) - 1 /\ Len(stack') <= Len(stack)
          /\ Beneath(k, stack, strings, rands, stack', strings', rands')
      BY <1>1, <1>3, <1>4, <1>14, <2>2
    <3> HIDE DEF k
    <3> QED BY <1>2, <1>14, <3>1, KeptFrom
  <2> QED BY <2>1, <2>2
<1> QED BY <1>15, <1>16

\* Every step keeps the invariant, and what is beneath.
LEMMA SampleStep ==
    ASSUME SampleInv, [SampleNext]_<<vars, sampleVars>>
    PROVE  SampleInv' /\ (KeptBeneath \/ UNCHANGED vars)
<1>1. CASE Next /\ UNCHANGED sampleVars
  <2>1. Owned(stack', strings', rands') /\ died' \in BOOLEAN /\ KeptBeneath
    BY <1>1, ConfigStep DEF SampleInv
  <2>2. params' = params /\ first' = first /\ last' = last
    BY <1>1 DEF sampleVars
  <2> QED BY <2>1, <2>2 DEF SampleInv
<1>2. ASSUME NEW prototype \in Prototypes, oil_test_attach_class_full(prototype)
      PROVE  SampleInv' /\ (KeptBeneath \/ UNCHANGED vars)
  BY <1>2, AttachStep
<1>3. CASE oil_test_destroy_class_data
  <2>1. /\ params' = NULL /\ first' = NULL /\ last' = NULL /\ UNCHANGED vars
        /\ stack' = stack /\ strings' = strings /\ rands' = rands /\ died' = died
    BY <1>3 DEF oil_test_destroy_class_data, vars
  <2> QED BY <2>1 DEF SampleInv
<1>4. ASSUME NEW auto \in Seeds \cup CutSeeds, NEW judged \in BOOLEAN, _optimize_class(auto, judged)
      PROVE  SampleInv' /\ (KeptBeneath \/ UNCHANGED vars)
  BY <1>4, TestStep
<1>5. CASE UNCHANGED <<vars, sampleVars>>
  <2>1. /\ UNCHANGED vars /\ stack' = stack /\ strings' = strings /\ rands' = rands /\ died' = died
        /\ params' = params /\ first' = first /\ last' = last
    BY <1>5 DEF vars, sampleVars
  <2> QED BY <2>1 DEF SampleInv
<1> QED BY <1>1, <1>2, <1>3, <1>4, <1>5 DEF SampleNext

\* In the beginning there are no frames, and nothing is attached.
LEMMA SampleStart ==
    ASSUME SampleInit
    PROVE  SampleInv
<1>1. /\ stack = <<>> /\ strings = [a \in Cells |-> NULL] /\ rands = [a \in Cells |-> NULL]
      /\ died = FALSE /\ params = NULL /\ first = NULL /\ last = NULL
  BY DEF SampleInit, Init
<1>2. Owned(<<>>, strings, rands)
  BY <1>1, NothingIsOwned
<1> QED BY <1>1, <1>2 DEF SampleInv

\* The frames own their objects, and what is attached to a class was parsed, and laid
\* out by the strides of its first test for the numbers of the last one, whatever
\* configurations came and went between them.
THEOREM SampleInvariance == SampleSpec => []SampleInv
<1>1. SampleInit => SampleInv
  BY SampleStart
<1>2. SampleInv /\ [SampleNext]_<<vars, sampleVars>> => SampleInv'
  BY SampleStep
<1> QED BY <1>1, <1>2, PTL DEF SampleSpec

\* Each frame owns its seed string and its generator, alone, and nothing is left
\* behind, after any pushes, pops, settings and tests.
THEOREM ConfigurationOwns == SampleSpec => []FramesOwnObjects
<1>1. SampleInv => FramesOwnObjects
  BY OwnedIsOwned DEF SampleInv
<1> QED BY <1>1, SampleInvariance, PTL

\* What happens on top of a frame does not reach it.
THEOREM BeneathIsKept == SampleSpec => FramesBeneathAreKept
<1>1. SampleInv /\ [SampleNext]_<<vars, sampleVars>> => [KeptBeneath]_vars
  BY SampleStep
<1> QED BY <1>1, SampleInvariance, PTL DEF SampleSpec, FramesBeneathAreKept

-----------------------------------------------------------------------------
(* What the invariant says of the arrays *)

\* The prototype that parameters came from is found in them.
LEMMA PrototypeIs ==
    ASSUME NEW prototype, NEW q, IsParsed(q, prototype), NEW ps, Grown(ps, q)
    PROVE  [i \in DOMAIN ps |-> ps[i].parameter] = prototype
<1>1. /\ prototype \in Seq(Words) /\ DOMAIN prototype = DOMAIN q
      /\ \A i \in DOMAIN q : q[i].parameter = prototype[i]
  BY ParsedIs
<1>2. DOMAIN ps = DOMAIN q /\ \A i \in DOMAIN q : ps[i].parameter = q[i].parameter
  BY DEF Grown, Same
<1>3. prototype = [i \in DOMAIN prototype |-> prototype[i]]
  <2>1. prototype \in [1..Len(prototype) -> Words]
    BY <1>1, LenProperties
  <2> QED BY <2>1
<1> QED BY <1>1, <1>2, <1>3

\* The types of the configuration; and what is attached are the parameters of a
\* prototype, each of an argument type that the parser knows.
THEOREM SampleTypes == SampleSpec => []SampleTypeOK
<1>1. SampleInv => SampleTypeOK
  <2> SUFFICES ASSUME SampleInv PROVE SampleTypeOK
    OBVIOUS
  <2>1. TypeOK
    BY OwnedIsOwned DEF SampleInv
  <2>2. ASSUME params # NULL
        PROVE  /\ params \in Seq(Parameter)
               /\ [i \in DOMAIN params |-> params[i].parameter] \in Prototypes
    <3>1. Attached(params, first, last)
      BY <2>2 DEF SampleInv
    <3>2. PICK prototype, q : IsParsed(q, prototype) /\ LaidOutFrom(params, q, first, last)
      BY <3>1, AttachedIs
    <3>3. Grown(params, q)
      BY <3>2 DEF LaidOutFrom
    <3>4. params \in Seq(Parameter)
      BY <3>3 DEF Grown
    <3>5. prototype \in Prototypes
      BY <3>2 DEF IsParsed
    <3> QED BY <3>2, <3>3, <3>4, <3>5, PrototypeIs
  <2> QED BY <2>1, <2>2 DEF SampleTypeOK
<1> QED BY <1>1, SampleInvariance, PTL

\* A function whose arrays depend on n is given the number they were laid out for in
\* every test, in the last parameter that is n or m.
THEOREM NumberIsKept == SampleSpec => []LengthsAreGiven
<1>1. SampleInv => LengthsAreGiven
  <2> SUFFICES ASSUME SampleInv, params # NULL,
                      NEW i \in DOMAIN params, "n" \in {params[i].pre.var, params[i].post.var}
               PROVE  \E j \in DOMAIN params :
                         /\ params[j].arg_type = N
                         /\ \A k \in DOMAIN params : params[k].arg_type = N => k <= j
                         /\ last # NULL => params[j].value = last["test_n"]
    BY DEF LengthsAreGiven
  <2>1. Attached(params, first, last)
    BY DEF SampleInv
  <2>2. PICK prototype, q : IsParsed(q, prototype) /\ LaidOutFrom(params, q, first, last)
    BY <2>1, AttachedIs
  <2>3. Grown(params, q)
    BY <2>2 DEF LaidOutFrom
  <2>4. DOMAIN params = DOMAIN q
    BY <2>3 DEF Grown
  <2>5. ASSUME NEW k \in DOMAIN q
        PROVE  /\ params[k].pre = q[k].pre /\ params[k].post = q[k].post
               /\ params[k].arg_type = q[k].arg_type
    BY <2>3, <2>5 DEF Grown, Same
  <2>6. PICK n \in DOMAIN q : q[n].arg_type = N
    <3>1. _prototype_check_sanity(q)
      BY <2>2, ParsedIs
    <3>2. q[i].pre.var = "n" \/ q[i].post.var = "n"
      BY <2>4, <2>5
    <3> QED BY <2>4, <3>1, <3>2 DEF _prototype_check_sanity
  <2> DEFINE r == Rearranged(q, N)
  <2>7. Len(q) \in Nat /\ DOMAIN q = 1..Len(q)
    BY <2>2, ParsedIs
  <2>8. /\ r # 0 => r \in 1..Len(q) /\ q[r].arg_type = N
        /\ \A k \in 1..Len(q) : q[k].arg_type = N => r # 0 /\ k <= r
    BY <2>7, RearrangedIs
  <2>9. r # 0 /\ r \in DOMAIN q /\ q[r].arg_type = N
    <3> HIDE DEF r
    <3> QED BY <2>6, <2>7, <2>8
  <2>10. ASSUME NEW k \in DOMAIN q, q[k].arg_type = N PROVE k <= r
    <3> HIDE DEF r
    <3> QED BY <2>10, <2>7, <2>8
  <2>11. ASSUME last # NULL PROVE params[r].value = last["test_n"]
    BY <2>2, <2>9, <2>11 DEF LaidOutFrom, LaidFor
  <2> HIDE DEF r
  <2> QED BY <2>4, <2>5, <2>9, <2>10, <2>11
<1> QED BY <1>1, SampleInvariance, PTL

\* In a plain prototype n is found, and what functions are given for it is the number of
\* the last test.
LEMMA NumberIsGiven ==
    ASSUME NEW prototype, NEW q, IsParsed(q, prototype), LaidOutFrom(params, q, first, last),
           last # NULL, IsPlain, NEW k \in DOMAIN params,
           params[k].parameter.form = "scale", params[k].parameter.name = "n"
    PROVE  GivenN = last["test_n"]
<1>1. Grown(params, q) /\ LaidFor(params, q, last)
  BY DEF LaidOutFrom
<1>2. /\ Len(q) \in Nat /\ DOMAIN q = 1..Len(q) /\ DOMAIN params = 1..Len(q)
      /\ \A i \in DOMAIN q : /\ params[i].arg_type = q[i].arg_type
                             /\ params[i].parameter = q[i].parameter
                             /\ q[i].parameter = prototype[i]
  BY <1>1, GrownIs
<1> DEFINE is == {i \in DOMAIN params : params[i].parameter.form = "scale"
                                           /\ params[i].parameter.name = "n"}
           c == CHOOSE i \in is : TRUE
<1>3. c \in DOMAIN q /\ params[c].parameter.form = "scale" /\ is # {}
  <2>1. k \in is
    OBVIOUS
  <2>2. c \in is
    BY <2>1
  <2> QED BY <1>2, <2>1, <2>2
<1>4. GivenN = params[c].value
  BY <1>3 DEF GivenN
<1> HIDE DEF is, c
<1>5. q[c].arg_type = N /\ params[c].arg_type = N
  <2>1. /\ prototype \in Seq(Words) /\ DOMAIN prototype = DOMAIN q
        /\ q[c].arg_type = ArgType(prototype[c])
    BY <1>3, ParsedIs
  <2>2. prototype[c] \in Words
    BY <1>2, <1>3, <2>1, LenProperties
  <2>3. prototype[c].form = "scale"
    BY <1>2, <1>3
  <2> QED BY <1>2, <1>3, <2>1, <2>2, <2>3, ArgTypes
<1>6. c = Rearranged(q, N)
  <2> DEFINE r == Rearranged(q, N)
  <2>1. r # 0
    BY <1>2, <1>3, <1>5, RearrangedIs
  <2>2. r \in DOMAIN q /\ q[r].arg_type = N
    BY <1>2, <2>1, RearrangedIs
  <2> HIDE DEF r
  <2>3. c = r
    BY <1>2, <1>3, <1>5, <2>2 DEF IsPlain
  <2> QED BY <2>3 DEF r
<1>7. params[c].value = last["test_n"]
  BY <1>1, <1>3, <1>6 DEF LaidFor
<1> QED BY <1>4, <1>7

\* A length that an array of a plain prototype has is what it is under the numbers of the
\* last test.
LEMMA LengthIsGiven ==
    ASSUME NEW prototype, NEW q, IsParsed(q, prototype), LaidOutFrom(params, q, first, last),
           last # NULL, IsPlain, NEW spec \in LenSpec, spec.var # "m",
           spec.var = "n" => \E j \in DOMAIN params : params[j].parameter.form = "scale"
                                                         /\ params[j].parameter.name = "n"
    PROVE  Given(spec) = LengthOf(spec, last)
<1>1. last \in [Options -> Values]
  BY DEF LaidOutFrom
<1>2. /\ spec.var = "none" => LengthOf(spec, last) = spec.len
      /\ spec.var = "n" => LengthOf(spec, last) = spec.len + last["test_n"]
      /\ spec.var \in {"none", "n", "m"} /\ spec.len \in Nat
  BY <1>1, LengthsAreNumbers
<1>3. CASE spec.var = "none"
  <2>1. Given(spec) = spec.len + 0
    BY <1>3 DEF Given
  <2> QED BY <1>2, <1>3, <2>1
<1>4. CASE spec.var = "n"
  <2>1. Given(spec) = spec.len + GivenN
    BY <1>4 DEF Given
  <2>2. GivenN = last["test_n"]
    BY <1>4, NumberIsGiven
  <2> QED BY <1>2, <1>4, <2>1, <2>2
<1> QED BY <1>2, <1>3, <1>4

\* An array of a plain prototype has been laid out as its function sees it.
LEMMA ArrayIsGiven ==
    ASSUME NEW prototype, NEW q, IsParsed(q, prototype), LaidOutFrom(params, q, first, last),
           last # NULL, IsPlain, NEW i \in DOMAIN q, params[i].is_pointer
    PROVE  /\ Paired(q, i) /\ q[i].is_pointer
           /\ params[i].pre_n = Given(params[i].pre) /\ params[i].post_n = Given(params[i].post)
           /\ params[i].pre_n = LengthOf(q[i].pre, last) /\ params[i].post_n = LengthOf(q[i].post, last)
           /\ params[i].stride = params[Rearranged(params, Partner(params[i].arg_type))].value
           /\ params[i].stride = StrideFor(params, q, i)
           /\ params[i].size = params[i].stride * params[i].post_n
           /\ params[i] \in Parameter /\ params[i].parameter = q[i].parameter
           /\ params[i].pre = q[i].pre /\ q[i].pre.var # "m"
           /\ params[i].parameter.type \in DOMAIN oil_type_sizeof
<1>1. Grown(params, q) /\ LaidFor(params, q, last)
  BY DEF LaidOutFrom
<1>2. /\ DOMAIN params = DOMAIN q
      /\ params[i] \in Parameter /\ params[i].is_pointer = q[i].is_pointer
      /\ params[i].pre = q[i].pre /\ params[i].post = q[i].post
      /\ params[i].parameter = q[i].parameter
      /\ params[i].parameter.type \in DOMAIN oil_type_sizeof
      /\ Paired(params, i) <=> Paired(q, i)
      /\ PartnerOf(params, i) = PartnerOf(q, i)
  <2>1. /\ DOMAIN params = DOMAIN q
        /\ params[i] \in Parameter
        /\ params[i].pre = q[i].pre /\ params[i].post = q[i].post
        /\ params[i].parameter = q[i].parameter
    BY <1>1, GrownIs
  <2>2. params[i].is_pointer = q[i].is_pointer
    BY <1>1 DEF Grown, Same
  <2>3. params[i].parameter.type \in DOMAIN oil_type_sizeof
    BY <1>1, GrownIs
  <2>4. Paired(params, i) <=> Paired(q, i)
    BY <1>1, GrownIs
  <2>5. PartnerOf(params, i) = PartnerOf(q, i)
    BY <1>1, GrownIs
  <2> QED BY <2>1, <2>2, <2>3, <2>4, <2>5
<1>3. /\ Paired(params, i) /\ params[i].pre.var # "m" /\ params[i].post.var # "m"
      /\ "n" \in {params[i].pre.var, params[i].post.var} =>
            \E j \in DOMAIN params : params[j].parameter.form = "scale"
                                        /\ params[j].parameter.name = "n"
  BY <1>2 DEF IsPlain
<1>4. params[i].pre \in LenSpec /\ params[i].post \in LenSpec
  BY <1>2 DEF Parameter
<1>5. Given(params[i].pre) = LengthOf(params[i].pre, last)
  <2>1. params[i].pre.var = "n" =>
           \E j \in DOMAIN params : params[j].parameter.form = "scale"
                                       /\ params[j].parameter.name = "n"
    BY <1>3
  <2> QED BY <1>3, <1>4, <2>1, LengthIsGiven
<1>6. Given(params[i].post) = LengthOf(params[i].post, last)
  <2>1. params[i].post.var = "n" =>
           \E j \in DOMAIN params : params[j].parameter.form = "scale"
                                       /\ params[j].parameter.name = "n"
    BY <1>3
  <2> QED BY <1>3, <1>4, <2>1, LengthIsGiven
<1>7. /\ params[i].pre_n = LengthOf(q[i].pre, last) /\ params[i].post_n = LengthOf(q[i].post, last)
      /\ params[i].stride = params[PartnerOf(q, i)].value
      /\ params[i].size = params[i].stride * params[i].post_n
  BY <1>1, <1>2, <1>3 DEF LaidFor
<1>8. params[i].stride = params[Rearranged(params, Partner(params[i].arg_type))].value
  BY <1>2, <1>7 DEF PartnerOf
<1>9. params[i].stride = StrideFor(params, q, i)
  BY <1>7 DEF StrideFor
<1> QED BY <1>2, <1>3, <1>5, <1>6, <1>7, <1>8, <1>9

\* What the checker fills and compares of an array is what a function touches that walks
\* over it as its prototype says.
THEOREM CheckerCoverage == SampleSpec => []CheckerSeesAll
<1>1. SampleInv => CheckerSeesAll
  <2> SUFFICES ASSUME SampleInv, params # NULL, last # NULL, IsPlain,
                      NEW i \in Inputs(params) \cup Outputs(params)
               PROVE  Looked(params[i]) = Touched(i)
    BY DEF CheckerSeesAll
  <2>1. Attached(params, first, last)
    BY DEF SampleInv
  <2>2. PICK prototype, q : IsParsed(q, prototype) /\ LaidOutFrom(params, q, first, last)
    BY <2>1, AttachedIs
  <2>3. i \in DOMAIN q /\ params[i].is_pointer
    <3>1. DOMAIN params = DOMAIN q
      BY <2>2 DEF LaidOutFrom, Grown
    <3> QED BY <3>1 DEF Inputs, Outputs
  <2>4. /\ params[i].pre_n = Given(params[i].pre) /\ params[i].post_n = Given(params[i].post)
        /\ params[i].stride = params[Rearranged(params, Partner(params[i].arg_type))].value
    BY <2>2, <2>3, ArrayIsGiven
  <2> DEFINE Walk(rows, inrow, stride) ==
                 {row * stride + j * oil_type_sizeof[params[i].parameter.type] :
                     row \in 0..(rows - 1), j \in 0..(inrow - 1)}
  <2>5. Looked(params[i]) = Walk(params[i].post_n, params[i].pre_n, params[i].stride)
    BY DEF Looked
  <2>6. Touched(i) = Walk(Given(params[i].post), Given(params[i].pre),
                          params[Rearranged(params, Partner(params[i].arg_type))].value)
    BY DEF Touched
  <2> HIDE DEF Walk
  <2> QED BY <2>4, <2>5, <2>6
<1> QED BY <1>1, SampleInvariance, PTL

\* The end of an element is in its row, and a row in the array.
LEMMA ElementFits ==
    ASSUME NEW w \in Nat, NEW v \in Nat, NEW inrow \in Nat, NEW rows \in Nat, w * inrow <= v,
           NEW row \in 0..(rows - 1), NEW j \in 0..(inrow - 1)
    PROVE  row * v + j * w + w <= v * rows
<1> DEFINE d == inrow - (j + 1)
           e == rows - (row + 1)
<1>1. d \in Nat /\ e \in Nat /\ j \in Nat /\ row \in Nat /\ inrow = j + 1 + d /\ rows = row + 1 + e
  OBVIOUS
<1> HIDE DEF d, e
<1>2. j * w + w <= v
  <2>1. w * inrow = j * w + w + w * d
    BY <1>1
  <2>2. w * d \in Nat /\ j * w \in Nat
    BY <1>1
  <2> QED BY <2>1, <2>2
<1>3. v * rows = row * v + v + v * e
  BY <1>1
<1>4. v * e \in Nat /\ row * v \in Nat /\ j * w \in Nat
  BY <1>1
<1> DEFINE a == j * w
           b == row * v
           c == v * e
           x == v * rows
<1>5. a \in Nat /\ b \in Nat /\ c \in Nat /\ a + w <= v /\ x = b + v + c
  BY <1>2, <1>3, <1>4
<1> HIDE DEF a, b, c, x
<1>6. b + a + w <= x
  BY <1>5
<1> QED BY <1>6 DEF a, b, x

\* Unless n is larger than in the first test, an array has room for what a function
\* touches that walks over it as its prototype says.
THEOREM ArraysHaveRoom == SampleSpec => []RoomForRows
<1>1. SampleInv => RoomForRows
  <2> SUFFICES ASSUME SampleInv, params # NULL, last # NULL, IsPlain,
                      last["test_n"] <= first["test_n"],
                      NEW i \in Inputs(params) \cup Outputs(params), NEW offset \in Touched(i)
               PROVE  offset + oil_type_sizeof[params[i].parameter.type] <= params[i].size
    BY DEF RoomForRows
  <2>1. Attached(params, first, last)
    BY DEF SampleInv
  <2>2. PICK prototype, q : IsParsed(q, prototype) /\ LaidOutFrom(params, q, first, last)
    BY <2>1, AttachedIs
  <2>3. i \in DOMAIN q /\ params[i].is_pointer
    <3>1. DOMAIN params = DOMAIN q
      BY <2>2 DEF LaidOutFrom, Grown
    <3> QED BY <3>1 DEF Inputs, Outputs
  <2> DEFINE w == oil_type_sizeof[params[i].parameter.type]
             v == params[i].stride
             inrow == params[i].pre_n
             rows == params[i].post_n
  <2>4. /\ Paired(q, i) /\ q[i].is_pointer
        /\ inrow = Given(params[i].pre) /\ rows = Given(params[i].post)
        /\ inrow = LengthOf(q[i].pre, last) /\ v = StrideFor(params, q, i)
        /\ v = params[Rearranged(params, Partner(params[i].arg_type))].value
        /\ params[i].size = v * rows
    BY <2>2, <2>3, ArrayIsGiven
  <2>5. /\ params[i] \in Parameter /\ params[i].parameter = q[i].parameter
        /\ params[i].pre = q[i].pre /\ q[i].pre.var # "m"
        /\ params[i].parameter.type \in DOMAIN oil_type_sizeof
    BY <2>2, <2>3, ArrayIsGiven
  <2>6. w \in Nat /\ v \in Nat /\ inrow \in Nat /\ rows \in Nat
    <3>1. w \in Nat
      BY <2>5, SizesAreNumbers
    <3> QED BY <2>5, <3>1 DEF Parameter
  <2>7. PICK row \in 0..(rows - 1), j \in 0..(inrow - 1) : offset = row * v + j * w
    <3> DEFINE Walk(r, n, b) == {row * b + j * oil_type_sizeof[params[i].parameter.type] :
                                    row \in 0..(r - 1), j \in 0..(n - 1)}
    <3>1. Touched(i) = Walk(Given(params[i].post), Given(params[i].pre),
                            params[Rearranged(params, Partner(params[i].arg_type))].value)
      BY DEF Touched
    <3>2. offset \in Walk(rows, inrow, v)
      <4> HIDE DEF Walk
      <4> QED BY <2>4, <3>1
    <3> QED BY <3>2
  <2>8. first \in [Options -> Values] /\ last \in [Options -> Values] /\ StridesFrom(params, q, first)
    BY <2>2 DEF LaidOutFrom
  <2> DEFINE before == LengthOf(q[i].pre, first)
  <2>9. before \in Nat /\ inrow <= before
    <3>1. q[i].pre \in LenSpec
      BY <2>5 DEF Parameter
    <3>2. /\ before \in Nat /\ q[i].pre.len \in Nat
          /\ q[i].pre.var = "none" => before = q[i].pre.len
          /\ q[i].pre.var = "n" => before = q[i].pre.len + first["test_n"]
          /\ first["test_n"] \in Nat /\ q[i].pre.var \in {"none", "n", "m"}
      BY <2>8, <3>1, LengthsAreNumbers
    <3>3. /\ q[i].pre.var = "none" => inrow = q[i].pre.len
          /\ q[i].pre.var = "n" => inrow = q[i].pre.len + last["test_n"]
          /\ last["test_n"] \in Nat
      BY <2>4, <2>8, <3>1, LengthsAreNumbers
    <3> HIDE DEF before, inrow
    <3>4. CASE q[i].pre.var = "none"
      BY <3>2, <3>3, <3>4
    <3>5. CASE q[i].pre.var = "n"
      BY <3>2, <3>3, <3>5
    <3> QED BY <2>5, <3>2, <3>4, <3>5
  <2>10. before # 0
    <3> HIDE DEF before, inrow, rows
    <3> QED BY <2>6, <2>7, <2>9
  <2>11. v = w * before
    <3>1. StrideFor(params, q, i) = Bytes(q[i], first)
      BY <2>3, <2>4, <2>8, <2>10 DEF StridesFrom
    <3> QED BY <2>4, <2>5, <3>1 DEF Bytes
  <2>12. w * inrow <= v
    <3> HIDE DEF w, v, inrow, before, rows
    <3>1. PICK d \in Nat : before = inrow + d
      <4>1. before - inrow \in Nat /\ before = inrow + (before - inrow)
        BY <2>6, <2>9
      <4> QED BY <4>1
    <3>2. w * before = w * inrow + w * d
      BY <2>6, <3>1
    <3>3. w * d \in Nat /\ w * inrow \in Nat
      BY <2>6, <3>1
    <3> QED BY <2>11, <3>2, <3>3
  <2>13. row * v + j * w + w <= v * rows
    <3> HIDE DEF w, v, inrow, before, rows
    <3> QED BY <2>6, <2>7, <2>12, ElementFits
  <2>14. params[i].size = v * rows /\ offset = row * v + j * w
    BY <2>4, <2>7
  <2> HIDE DEF v, rows
  <2> QED BY <2>13, <2>14
<1> QED BY <1>1, SampleInvariance, PTL

\* What was parsed is laid out for numbers that are not zero as it was laid out for the
\* first time: both ways each parameter is the same.
LEMMA LaidOutAlike ==
    ASSUME NEW prototype, NEW q, IsParsed(q, prototype), NEW ps,
           NEW vals \in [Options -> Values], LaidOutFrom(ps, q, vals, vals), vals # NULL,
           vals["test_n"] # 0
    PROVE  ps = Layout(q, vals)
<1> DEFINE r == Layout(q, vals)
<1>1. Grown(ps, q) /\ LaidFor(ps, q, vals) /\ StridesFrom(ps, q, vals)
  BY DEF LaidOutFrom
<1>2. Grown(r, q) /\ LaidFor(r, q, vals)
  BY ParsedGrown, LayoutGrows
<1>3. StridesFrom(r, q, vals)
  BY FirstStrides
<1> HIDE DEF r
<1>4. /\ Len(q) \in Nat /\ DOMAIN q = 1..Len(q) /\ q \in Seq(Parameter)
      /\ \A i \in DOMAIN q : q[i] \in Parameter
  BY ParsedIs
<1>5. \A i \in DOMAIN q : ps[i] \in Parameter /\ Same(ps[i], q[i])
  BY <1>1, GrownIs
<1>6. \A i \in DOMAIN q : r[i] \in Parameter /\ Same(r[i], q[i])
  BY <1>2, GrownIs
<1>7. ASSUME NEW i \in DOMAIN q, Paired(q, i), q[i].is_pointer, NEW t, StridesFrom(t, q, vals)
      PROVE  StrideFor(t, q, i) = Bytes(q[i], vals)
  <2>1. q[i].pre.var = "n" => LengthOf(q[i].pre, vals) # 0
    <3>1. q[i].pre \in LenSpec
      BY <1>4 DEF Parameter
    <3>2. /\ q[i].pre.var = "n" => LengthOf(q[i].pre, vals) = q[i].pre.len + vals["test_n"]
          /\ q[i].pre.len \in Nat /\ vals["test_n"] \in Nat
      BY <3>1, LengthsAreNumbers
    <3> QED BY <3>2
  <2> QED BY <1>7, <2>1 DEF StridesFrom
<1>8. ASSUME NEW i \in DOMAIN q PROVE ps[i] = r[i]
  <2>0. Same(ps[i], r[i])
    BY <1>5, <1>6 DEF Same
  <2>1. CASE i = Rearranged(q, N)
    <3>1. ~ q[i].is_pointer
      BY <2>1, NumberIs
    <3>2. ps[i].value = vals["test_n"] /\ r[i].value = vals["test_n"]
      BY <1>1, <1>2, <2>1 DEF LaidFor
    <3>3. ps[i].pre_n = 0 /\ ps[i].post_n = 0 /\ ps[i].stride = 0 /\ ps[i].size = 0
      BY <1>1, <3>1 DEF Grown
    <3>4. r[i].pre_n = 0 /\ r[i].post_n = 0 /\ r[i].stride = 0 /\ r[i].size = 0
      BY <1>2, <3>1 DEF Grown
    <3> QED BY <1>5, <1>6, <2>0, <3>2, <3>3, <3>4, FieldsMatter
  <2>2. CASE Paired(q, i) /\ q[i].is_pointer
    <3>1. StrideFor(ps, q, i) = Bytes(q[i], vals) /\ StrideFor(r, q, i) = Bytes(q[i], vals)
      BY <1>1, <1>3, <1>7, <2>2
    <3>2. /\ ps[i].pre_n = LengthOf(q[i].pre, vals) /\ ps[i].post_n = LengthOf(q[i].post, vals)
          /\ ps[i].stride = StrideFor(ps, q, i) /\ ps[i].size = ps[i].stride * ps[i].post_n
      BY <1>1, <2>2 DEF LaidFor, StrideFor
    <3>3. /\ r[i].pre_n = LengthOf(q[i].pre, vals) /\ r[i].post_n = LengthOf(q[i].post, vals)
          /\ r[i].stride = StrideFor(r, q, i) /\ r[i].size = r[i].stride * r[i].post_n
      BY <1>2, <2>2 DEF LaidFor, StrideFor
    <3>4. ps[i].value = 0 /\ r[i].value = 0
      BY <1>1, <1>2, <2>2 DEF Grown
    <3>5. /\ ps[i].value = r[i].value /\ ps[i].pre_n = r[i].pre_n /\ ps[i].post_n = r[i].post_n
          /\ ps[i].stride = r[i].stride
      BY <3>1, <3>2, <3>3, <3>4
    <3>6. ps[i].size = r[i].size
      BY <3>2, <3>3, <3>5
    <3> QED BY <1>5, <1>6, <2>0, <3>5, <3>6, FieldsMatter
  <2>3. CASE Paired(q, i) /\ ~ q[i].is_pointer
    <3> DEFINE j == PartnerOf(q, i)
    <3>1. j \in DOMAIN q /\ Paired(q, j) /\ PartnerOf(q, j) = i /\ q[j].is_pointer
      BY <2>3, Partners
    <3> HIDE DEF j
    <3>2. StrideFor(ps, q, j) = Bytes(q[j], vals) /\ StrideFor(r, q, j) = Bytes(q[j], vals)
      BY <1>1, <1>3, <1>7, <3>1
    <3>3. ps[i].value = r[i].value
      BY <3>1, <3>2 DEF StrideFor
    <3>4. ps[i].pre_n = 0 /\ ps[i].post_n = 0 /\ ps[i].stride = 0 /\ ps[i].size = 0
      BY <1>1, <2>3 DEF Grown
    <3>5. r[i].pre_n = 0 /\ r[i].post_n = 0 /\ r[i].stride = 0 /\ r[i].size = 0
      BY <1>2, <2>3 DEF Grown
    <3> QED BY <1>5, <1>6, <2>0, <3>3, <3>4, <3>5, FieldsMatter
  <2>4. CASE i # Rearranged(q, N) /\ ~ Paired(q, i)
    <3>1. ps[i] = q[i] /\ r[i] = q[i]
      BY <1>1, <1>2, <2>4 DEF Grown
    <3> QED BY <3>1
  <2> QED BY <2>1, <2>2, <2>3, <2>4
<1>9. ps = [i \in DOMAIN q |-> ps[i]] /\ r = [i \in DOMAIN q |-> r[i]]
  BY <1>1, <1>2, GrownIs
<1>10. ps = r
  BY <1>8, <1>9
<1> QED BY <1>10 DEF r

\* When the numbers are those of the first test again, so are the arrays.
THEOREM SameNumbers == SampleSpec => []SameNumbersSameLayout
<1>1. SampleInv => SameNumbersSameLayout
  <2> SUFFICES ASSUME SampleInv, params # NULL, last # NULL, first = last, first["test_n"] # 0
               PROVE  params = Layout(Parsed([i \in DOMAIN params |-> params[i].parameter]), last)
    BY DEF SameNumbersSameLayout
  <2>1. Attached(params, first, last)
    BY DEF SampleInv
  <2>2. PICK prototype, q : IsParsed(q, prototype) /\ LaidOutFrom(params, q, first, last)
    BY <2>1, AttachedIs
  <2>3. LaidOutFrom(params, q, last, last) /\ last \in [Options -> Values]
    BY <2>2 DEF LaidOutFrom
  <2>4. params = Layout(q, last)
    <3> DEFINE vals == last
    <3>1. LaidOutFrom(params, q, vals, vals) /\ vals \in [Options -> Values] /\ vals # NULL
          /\ vals["test_n"] # 0
      BY <2>3
    <3> HIDE DEF vals
    <3>2. params = Layout(q, vals)
      BY <2>2, <3>1, LaidOutAlike
    <3> QED BY <3>2 DEF vals
  <2>5. q = Parsed([i \in DOMAIN params |-> params[i].parameter])
    <3>1. Grown(params, q)
      BY <2>2 DEF LaidOutFrom
    <3>2. [i \in DOMAIN params |-> params[i].parameter] = prototype
      BY <2>2, <3>1, PrototypeIs
    <3>3. q = Parsed(prototype)
      BY <2>2 DEF IsParsed
    <3> QED BY <3>2, <3>3
  <2> QED BY <2>4, <2>5
<1> QED BY <1>1, SampleInvariance, PTL
=============================================================================
