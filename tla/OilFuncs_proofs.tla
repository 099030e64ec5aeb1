---------------------------- MODULE OilFuncs_proofs ----------------------------
(***************************************************************************)
(* Theorems about a program that uses oilfuncs, for any functions and      *)
(* implements, any list, and any calls of its own.                          *)
(***************************************************************************)
EXTENDS OilFuncs, OilRegistry_proofs, SequenceTheorems

\* What a slot holds of its class, in terms of what the class has and of what the
\* client did to it
Reached(f, set, did) ==
    /\ "activated" \notin did => f \in {Ref} \cup Runnable
    /\ "changed" \notin did /\ f # Ref => \E p \in set : p[2] = f

OneOfAName(set) == \A p, q \in set : p[1] = q[1] => p = q

\* The implements of live classes, and what the slots hold of the registered ones
ExportInv ==
    /\ impls \in [Classes -> SUBSET (Impls \X Funcs)]
    /\ since \in [Classes -> SUBSET {"changed", "activated"}]
    /\ \A c \in Classes : impls[c] # {} \/ since[c] # {} => c \in Allocated
    /\ \A c \in Classes : OneOfAName(impls[c])
    /\ exported \in [Names -> Funcs \cup {Ref}]
    /\ SlotHoldsRegistered

\* The call that adds an implement, and the implement that a call is about
Adds(n, p) == <<"implement", n, p[1], p[2]>>
Impl(j) == <<Regs[j][2], Regs[j][3]>>

\* The calls that initializations make, and the order they make them in
Calls ==
    {<<"register", n>> : n \in Range(Defs)} \cup {<<"attach", n>> : n \in Range(Defs)}
        \cup {Adds(Regs[i][1], Impl(i)) : i \in DOMAIN Regs}
        \cup {<<"optimize">>, <<"load">>}

Rank(call) ==
    IF call[1] = "register" THEN 1
    ELSE IF call[1] = "attach" THEN 2
    ELSE IF call[1] = "implement" THEN 3
    ELSE 4

Ordered(seq) == \A i, j \in 1..Len(seq) : i < j => Rank(seq[i]) <= Rank(seq[j])

TodoInv ==
    /\ todo \in Seq(Calls) /\ Ordered(todo)
    /\ todo # <<>> => ready \in {"auto", "ini"}

\* A call that the initialization has still to make
Occurs(call, seq) == \E i \in 1..Len(seq) : seq[i] = call
Pending(call) == Occurs(call, todo)

\* What the list asks for is reached, or still to be loaded
LoadedInv(n) ==
    \/ Pending(<<"load">>)
    \/ n \in DOMAIN List =>
           \A p \in OfReg(n) : p[1] = List[n] /\ p[2] \in Runnable => exported[n] = p[2]

\* What an initialization has reached for a function: a call is pending or has
\* had its effect
FunctionInv(n) ==
    IF Pending(<<"register", n>>)
    THEN /\ \A i \in OfReg(n) : Pending(Adds(n, i))
         /\ ready = "auto" => Pending(<<"attach", n>>)
         /\ ready = "ini" => Pending(<<"load">>)
    ELSE /\ table[n] # NULL
         /\ impls[table[n]] \subseteq OfReg(n)
         /\ \A i \in OfReg(n) : i \in impls[table[n]] \/ Pending(Adds(n, i))
         /\ (\E i \in OfReg(n) : Pending(Adds(n, i))) /\ ready = "ini" =>
               Pending(<<"load">>)
         /\ ready = "auto" /\ n \in Tested =>
               classes[table[n]].data # NULL \/ Pending(<<"attach", n>>)
         /\ ready = "ini" \/ n \notin Tested => classes[table[n]].data = NULL
         /\ (ready = "ini" \/ n \notin Tested) /\ n \notin DOMAIN List => exported[n] = Ref
         /\ since[table[n]] = {}
         /\ ready = "ini" => LoadedInv(n)

ReadyInv ==
    ready # "none" =>
        /\ ready \in {"auto", "ini"}
        /\ initialized = TRUE
        /\ ready = "ini" => \A n \in Range(Defs) : ~Pending(<<"attach", n>>)
        /\ \A n \in Range(Defs) : FunctionInv(n)

\* The inductive invariant
FuncsInv == RegistryInv /\ ExportInv /\ TodoInv /\ ReadyInv

-----------------------------------------------------------------------------
(* Lemmas about sequences of calls *)

\* Calls are told apart by what they are about.
LEMMA CallsDiffer ==
    /\ \A m, n : <<"register", m>> = <<"register", n>> => m = n
    /\ \A m, n : <<"attach", m>> = <<"attach", n>> => m = n
    /\ \A m, n, i, j : Adds(m, i) = Adds(n, j) =>
          m = n /\ i[1] = j[1] /\ i[2] = j[2]
    /\ \A m, n : <<"register", m>> # <<"attach", n>>
    /\ \A m, n, i : <<"register", m>> # Adds(n, i)
    /\ \A m, n, i : <<"attach", m>> # Adds(n, i)
    /\ \A m : <<"load">> # <<"register", m>> /\ <<"load">> # <<"attach", m>>
    /\ \A m, i : <<"load">> # Adds(m, i)
    /\ <<"load">> # <<"optimize">>
<1>1. \A m, n : <<"register", m>>[1] # <<"attach", n>>[1]
  OBVIOUS
<1>2. \A m, n, i : <<"register", m>>[1] # Adds(n, i)[1]
  BY DEF Adds
<1>3. \A m, n, i : <<"attach", m>>[1] # Adds(n, i)[1]
  BY DEF Adds
<1>4. /\ \A m : <<"load">>[1] # <<"register", m>>[1] /\ <<"load">>[1] # <<"attach", m>>[1]
      /\ \A m, i : <<"load">>[1] # Adds(m, i)[1]
      /\ <<"load">>[1] # <<"optimize">>[1]
  BY DEF Adds
<1>5. ASSUME NEW m, NEW n, NEW i, NEW j, Adds(m, i) = Adds(n, j)
      PROVE  m = n /\ i[1] = j[1] /\ i[2] = j[2]
  <2>1. Adds(m, i)[2] = Adds(n, j)[2] /\ Adds(m, i)[3] = Adds(n, j)[3] /\ Adds(m, i)[4] = Adds(n, j)[4]
    BY <1>5
  <2> QED BY <2>1 DEF Adds
<1>6. /\ \A m, n : <<"register", m>> = <<"register", n>> => m = n
      /\ \A m, n : <<"attach", m>> = <<"attach", n>> => m = n
  OBVIOUS
<1> QED BY <1>1, <1>2, <1>3, <1>4, <1>5, <1>6

\* Once its head is made, the other calls are still to be made.
LEMMA OccursInTail ==
    ASSUME NEW seq \in Seq(Calls), seq # <<>>, NEW call
    PROVE  /\ Occurs(call, Tail(seq)) => Occurs(call, seq)
           /\ Occurs(call, seq) /\ call # Head(seq) => Occurs(call, Tail(seq))
<1>1. /\ Len(seq) \in Nat /\ Len(seq) > 0 /\ Head(seq) = seq[1]
      /\ Len(Tail(seq)) = Len(seq) - 1
      /\ \A i \in 1..(Len(seq) - 1) : Tail(seq)[i] = seq[i + 1]
  BY HeadTailProperties
<1>2. Occurs(call, Tail(seq)) => Occurs(call, seq)
  BY <1>1 DEF Occurs
<1>3. ASSUME Occurs(call, seq), call # Head(seq)
      PROVE  Occurs(call, Tail(seq))
  <2>1. PICK i \in 1..Len(seq) : seq[i] = call
    BY <1>3 DEF Occurs
  <2>2. i - 1 \in 1..(Len(seq) - 1) /\ Tail(seq)[i - 1] = call
    BY <1>1, <1>3, <2>1
  <2> QED BY <1>1, <2>2 DEF Occurs
<1> QED BY <1>2, <1>3

LEMMA OrderedTail ==
    ASSUME NEW seq \in Seq(Calls), seq # <<>>, Ordered(seq)
    PROVE  /\ Tail(seq) \in Seq(Calls) /\ Ordered(Tail(seq))
           /\ \A call : Occurs(call, seq) => Rank(Head(seq)) <= Rank(call)
           /\ Head(seq) \in Calls
<1>1. /\ Len(seq) \in Nat /\ Len(seq) > 0 /\ Head(seq) = seq[1] /\ Head(seq) \in Calls
      /\ Tail(seq) \in Seq(Calls)
      /\ Len(Tail(seq)) = Len(seq) - 1
      /\ \A i \in 1..(Len(seq) - 1) : Tail(seq)[i] = seq[i + 1]
  BY HeadTailProperties
<1>2. Ordered(Tail(seq))
  BY <1>1 DEF Ordered
<1>3. ASSUME NEW call, Occurs(call, seq)
      PROVE  Rank(Head(seq)) <= Rank(call)
  <2>1. PICK i \in 1..Len(seq) : seq[i] = call
    BY <1>3 DEF Occurs
  <2>2. Rank(call) \in Int
    BY DEF Rank
  <2> QED BY <1>1, <2>1, <2>2 DEF Ordered
<1> QED BY <1>1, <1>2, <1>3

\* Two ordered sequences in a row are ordered if the second begins where the
\* first ends.
LEMMA ConcatOrdered ==
    ASSUME NEW s \in Seq(Calls), NEW t \in Seq(Calls), NEW r \in Int,
           Ordered(s), Ordered(t),
           \A i \in 1..Len(s) : Rank(s[i]) <= r, \A i \in 1..Len(t) : r <= Rank(t[i])
    PROVE  /\ s \o t \in Seq(Calls) /\ Ordered(s \o t)
           /\ \A call : Occurs(call, s \o t) <=> Occurs(call, s) \/ Occurs(call, t)
<1> DEFINE u == s \o t
<1>1. /\ u \in Seq(Calls) /\ Len(u) = Len(s) + Len(t)
      /\ Len(s) \in Nat /\ Len(t) \in Nat
      /\ \A i \in 1..Len(u) : u[i] = IF i <= Len(s) THEN s[i] ELSE t[i - Len(s)]
  BY ConcatProperties
<1>2. ASSUME NEW i \in 1..Len(u), NEW j \in 1..Len(u), i < j
      PROVE  Rank(u[i]) <= Rank(u[j])
  <2>1. CASE j <= Len(s)
    BY <1>1, <1>2, <2>1 DEF Ordered
  <2>2. CASE i > Len(s)
    <3>1. i - Len(s) \in 1..Len(t) /\ j - Len(s) \in 1..Len(t) /\ i - Len(s) < j - Len(s)
      BY <1>1, <1>2, <2>2
    <3> QED BY <1>1, <1>2, <2>2, <3>1 DEF Ordered
  <2>3. CASE i <= Len(s) /\ j > Len(s)
    <3>1. i \in 1..Len(s) /\ j - Len(s) \in 1..Len(t)
      BY <1>1, <2>3
    <3>2. Rank(s[i]) \in Int /\ Rank(t[j - Len(s)]) \in Int
      BY DEF Rank
    <3>3. Rank(s[i]) <= r /\ r <= Rank(t[j - Len(s)])
      BY <3>1
    <3> QED BY <1>1, <2>3, <3>2, <3>3
  <2> QED BY <1>1, <2>1, <2>2, <2>3
<1>3. ASSUME NEW call
      PROVE  Occurs(call, u) <=> Occurs(call, s) \/ Occurs(call, t)
  <2>1. ASSUME NEW i \in 1..Len(s), s[i] = call
        PROVE  Occurs(call, u)
    <3>1. i \in 1..Len(u) /\ u[i] = call
      BY <1>1, <2>1
    <3> QED BY <3>1 DEF Occurs
  <2>2. ASSUME NEW i \in 1..Len(t), t[i] = call
        PROVE  Occurs(call, u)
    <3>1. Len(s) + i \in 1..Len(u) /\ u[Len(s) + i] = call
      BY <1>1, <2>2
    <3> QED BY <3>1 DEF Occurs
  <2>3. ASSUME NEW i \in 1..Len(u), u[i] = call
        PROVE  Occurs(call, s) \/ Occurs(call, t)
    <3>1. CASE i <= Len(s)
      BY <1>1, <2>3, <3>1 DEF Occurs
    <3>2. CASE i > Len(s)
      <4>1. i - Len(s) \in 1..Len(t) /\ t[i - Len(s)] = call
        BY <1>1, <2>3, <3>2
      <4> QED BY <4>1 DEF Occurs
    <3> QED BY <1>1, <3>1, <3>2
  <2> QED BY <2>1, <2>2, <2>3 DEF Occurs
<1> QED BY <1>1, <1>2, <1>3 DEF Ordered

\* An ordered sequence of calls with ranks between two
Within(seq, lo, hi) ==
    /\ seq \in Seq(Calls) /\ Ordered(seq)
    /\ \A i \in 1..Len(seq) : lo <= Rank(seq[i]) /\ Rank(seq[i]) <= hi

LEMMA ConcatWithin ==
    ASSUME NEW s, NEW t, NEW lo \in Int, NEW mid \in Int, NEW hi \in Int, lo <= mid, mid <= hi,
           Within(s, lo, mid), Within(t, mid, hi)
    PROVE  /\ Within(s \o t, lo, hi)
           /\ \A call : Occurs(call, s \o t) <=> Occurs(call, s) \/ Occurs(call, t)
<1>1. s \in Seq(Calls) /\ t \in Seq(Calls) /\ Ordered(s) /\ Ordered(t)
  BY DEF Within
<1>2. /\ \A i \in 1..Len(s) : lo <= Rank(s[i]) /\ Rank(s[i]) <= mid
      /\ \A i \in 1..Len(t) : mid <= Rank(t[i]) /\ Rank(t[i]) <= hi
  BY DEF Within
<1>3. /\ s \o t \in Seq(Calls) /\ Ordered(s \o t)
      /\ \A call : Occurs(call, s \o t) <=> Occurs(call, s) \/ Occurs(call, t)
  BY <1>1, <1>2, ConcatOrdered
<1>4. ASSUME NEW i \in 1..Len(s \o t)
      PROVE  lo <= Rank((s \o t)[i]) /\ Rank((s \o t)[i]) <= hi
  <2>1. /\ Len(s \o t) = Len(s) + Len(t) /\ Len(s) \in Nat /\ Len(t) \in Nat
        /\ (s \o t)[i] = IF i <= Len(s) THEN s[i] ELSE t[i - Len(s)]
    BY <1>1, ConcatProperties
  <2>2. \A call : Rank(call) \in Int
    BY DEF Rank
  <2>3. CASE i <= Len(s)
    <3>1. lo <= Rank(s[i]) /\ Rank(s[i]) <= mid
      BY <1>2, <2>1, <2>3
    <3> QED BY <2>1, <2>2, <2>3, <3>1
  <2>4. CASE i > Len(s)
    <3>1. i - Len(s) \in 1..Len(t)
      BY <2>1, <2>4
    <3>2. mid <= Rank(t[i - Len(s)]) /\ Rank(t[i - Len(s)]) <= hi
      BY <1>2, <3>1
    <3> QED BY <2>1, <2>2, <2>4, <3>2
  <2> QED BY <2>1, <2>3, <2>4
<1> QED BY <1>3, <1>4 DEF Within

\* A sequence of calls of one rank is ordered.
LEMMA LevelWithin ==
    ASSUME NEW seq \in Seq(Calls), NEW r \in Int, \A i \in 1..Len(seq) : Rank(seq[i]) = r
    PROVE  Within(seq, r, r)
<1>1. Ordered(seq)
  BY DEF Ordered
<1> QED BY <1>1 DEF Within

\* The generated functions, as sequences of calls
LEMMA GeneratedCalls ==
    /\ Within(oilfuncs_register_classes, 1, 1)
    /\ Within(oilfuncs_attach_classes, 2, 2)
    /\ Within(oilfuncs_register_implements, 3, 3)
    /\ \A n \in Range(Defs) : /\ Occurs(<<"register", n>>, oilfuncs_register_classes)
                              /\ Occurs(<<"attach", n>>, oilfuncs_attach_classes)
                              /\ \A i \in OfReg(n) : Occurs(Adds(n, i),
                                                            oilfuncs_register_implements)
<1>1. /\ Len(Defs) \in Nat /\ DOMAIN Defs = 1..Len(Defs)
      /\ \A i \in 1..Len(Defs) : Defs[i] \in Range(Defs)
  BY OilFuncsAssumption, LenProperties DEF Range
<1>2. /\ Len(Regs) \in Nat /\ DOMAIN Regs = 1..Len(Regs)
  BY OilFuncsAssumption, LenProperties
<1>3. /\ oilfuncs_register_classes \in Seq(Calls)
      /\ Len(oilfuncs_register_classes) = Len(Defs)
      /\ \A i \in 1..Len(Defs) : oilfuncs_register_classes[i] = <<"register", Defs[i]>>
  <2>1. \A i \in 1..Len(Defs) : <<"register", Defs[i]>> \in Calls
    BY <1>1 DEF Calls
  <2> QED BY <1>1, <2>1, IsASeq, LenProperties DEF oilfuncs_register_classes
<1>4. /\ oilfuncs_attach_classes \in Seq(Calls)
      /\ Len(oilfuncs_attach_classes) = Len(Defs)
      /\ \A i \in 1..Len(Defs) : oilfuncs_attach_classes[i] = <<"attach", Defs[i]>>
  <2>1. \A i \in 1..Len(Defs) : <<"attach", Defs[i]>> \in Calls
    BY <1>1 DEF Calls
  <2> QED BY <1>1, <2>1, IsASeq, LenProperties DEF oilfuncs_attach_classes
<1>5. /\ oilfuncs_register_implements \in Seq(Calls)
      /\ Len(oilfuncs_register_implements) = Len(Regs)
      /\ \A i \in 1..Len(Regs) :
            oilfuncs_register_implements[i] = Adds(Regs[i][1], Impl(i))
  <2>1. \A i \in 1..Len(Regs) : Adds(Regs[i][1], Impl(i)) \in Calls
    BY <1>2 DEF Calls
  <2>2. oilfuncs_register_implements = [i \in DOMAIN Regs |-> Adds(Regs[i][1], Impl(i))]
    BY DEF oilfuncs_register_implements, Adds, Impl
  <2> QED BY <1>2, <2>1, <2>2, IsASeq, LenProperties
<1>6. ASSUME NEW n \in Range(Defs)
      PROVE  /\ Occurs(<<"register", n>>, oilfuncs_register_classes)
             /\ Occurs(<<"attach", n>>, oilfuncs_attach_classes)
  <2>1. PICK i \in 1..Len(Defs) : Defs[i] = n
    BY <1>1, <1>6 DEF Range
  <2> QED BY <1>3, <1>4, <2>1 DEF Occurs
<1>7. ASSUME NEW n \in Range(Defs), NEW i \in OfReg(n)
      PROVE  Occurs(Adds(n, i), oilfuncs_register_implements)
  <2>1. PICK j \in 1..Len(Regs) : Regs[j][1] = n /\ Impl(j) = i
    BY <1>2, <1>7 DEF OfReg, Impl
  <2> QED BY <1>5, <2>1 DEF Occurs
<1>8. /\ \A i \in 1..Len(Defs) : Rank(<<"register", Defs[i]>>) = 1
      /\ \A i \in 1..Len(Defs) : Rank(<<"attach", Defs[i]>>) = 2
      /\ \A i \in 1..Len(Regs) : Rank(Adds(Regs[i][1], Impl(i))) = 3
  BY DEF Rank, Adds
<1>9. Within(oilfuncs_register_classes, 1, 1)
  <2>1. \A i \in 1..Len(oilfuncs_register_classes) :
           Rank(oilfuncs_register_classes[i]) = 1
    BY <1>3, <1>8
  <2> QED BY <1>3, <2>1, LevelWithin
<1>10. Within(oilfuncs_attach_classes, 2, 2)
  <2>1. \A i \in 1..Len(oilfuncs_attach_classes) :
           Rank(oilfuncs_attach_classes[i]) = 2
    BY <1>4, <1>8
  <2> QED BY <1>4, <2>1, LevelWithin
<1>11. Within(oilfuncs_register_implements, 3, 3)
  <2>1. \A i \in 1..Len(oilfuncs_register_implements) :
           Rank(oilfuncs_register_implements[i]) = 3
    BY <1>5, <1>8
  <2> QED BY <1>5, <2>1, LevelWithin
<1> QED BY <1>6, <1>7, <1>9, <1>10, <1>11

\* One call is a sequence of calls.
LEMMA LastCall ==
    ASSUME NEW call \in {<<"optimize">>, <<"load">>}
    PROVE  Within(<<call>>, 3, 4) /\ Occurs(call, <<call>>)
<1>1. call \in Calls
  BY DEF Calls
<1>2. <<call>> \in Seq(Calls) /\ Len(<<call>>) = 1 /\ <<call>>[1] = call
  BY <1>1
<1>3. Rank(call) = 4
  BY DEF Rank
<1> QED BY <1>2, <1>3 DEF Within, Ordered, Occurs

\* A call of another rank does not occur.
LEMMA OccursWithin ==
    ASSUME NEW seq, NEW lo \in Int, NEW hi \in Int, Within(seq, lo, hi),
           NEW call, Occurs(call, seq)
    PROVE  lo <= Rank(call) /\ Rank(call) <= hi
  BY DEF Within, Occurs

\* Both initializations register first, and test or load last.
LEMMA Programs ==
    /\ InitAuto \in Seq(Calls) /\ Ordered(InitAuto)
    /\ \A n \in Range(Defs) : /\ Occurs(<<"register", n>>, InitAuto)
                              /\ Occurs(<<"attach", n>>, InitAuto)
                              /\ \A i \in OfReg(n) : Occurs(Adds(n, i), InitAuto)
    /\ InitFromIni \in Seq(Calls) /\ Ordered(InitFromIni)
    /\ \A n \in Range(Defs) : /\ Occurs(<<"register", n>>, InitFromIni)
                              /\ ~Occurs(<<"attach", n>>, InitFromIni)
                              /\ \A i \in OfReg(n) : Occurs(Adds(n, i), InitFromIni)
    /\ Occurs(<<"load">>, InitFromIni)
<1> DEFINE A == oilfuncs_register_classes
           B == oilfuncs_attach_classes
           C == oilfuncs_register_implements
           D == << <<"optimize">> >>
           E == << <<"load">> >>
           r1 == 1
           r2 == 2
           r3 == 3
           r4 == 4
<1>1. Within(A, r1, r1) /\ Within(B, r2, r2) /\ Within(C, r3, r3) /\ Within(D, r3, r4) /\ Within(E, r3, r4)
  BY GeneratedCalls, LastCall DEF r1, r2, r3, r4
<1>2. \A n \in Range(Defs) : /\ Occurs(<<"register", n>>, A)
                             /\ Occurs(<<"attach", n>>, B)
                             /\ \A i \in OfReg(n) : Occurs(Adds(n, i), C)
  BY GeneratedCalls
<1>3. InitAuto = ((A \o B) \o C) \o D /\ InitFromIni = (A \o C) \o E
  BY DEF InitAuto, InitFromIni
<1>4. Occurs(<<"load">>, E)
  BY LastCall
<1>0. /\ r1 \in Int /\ r2 \in Int /\ r3 \in Int /\ r4 \in Int
      /\ r1 <= r1 /\ r1 <= r2 /\ r2 <= r3 /\ r3 <= r4 /\ r1 <= r3
  BY DEF r1, r2, r3, r4
<1> HIDE DEF A, B, C, D, E, r1, r2, r3, r4
<1>5. /\ Within(B, r1, r2) /\ Within(C, r2, r3) /\ Within(C, r1, r3)
  <2>1. \A call : Rank(call) \in Int
    BY DEF Rank
  <2> QED BY <1>0, <1>1, <2>1 DEF Within
<1>6. /\ Within(A \o B, r1, r2)
      /\ \A call : Occurs(call, A \o B) <=> Occurs(call, A) \/ Occurs(call, B)
  BY <1>1, <1>5, <1>0, ConcatWithin
<1>7. /\ Within((A \o B) \o C, r1, r3)
      /\ \A call : Occurs(call, (A \o B) \o C) <=> Occurs(call, A \o B) \/ Occurs(call, C)
  BY <1>5, <1>6, <1>0, ConcatWithin
<1>8. /\ Within(((A \o B) \o C) \o D, r1, r4)
      /\ \A call : Occurs(call, ((A \o B) \o C) \o D) <=>
                      Occurs(call, (A \o B) \o C) \/ Occurs(call, D)
  <2> DEFINE F == (A \o B) \o C
  <2>1. Within(F, r1, r3) /\ Within(D, r3, r4)
    BY <1>1, <1>7
  <2> HIDE DEF F
  <2>2. /\ Within(F \o D, r1, r4)
        /\ \A call : Occurs(call, F \o D) <=> Occurs(call, F) \/ Occurs(call, D)
    BY <1>0, <2>1, ConcatWithin
  <2> QED BY <2>2 DEF F
<1>9. /\ Within(A \o C, r1, r3)
      /\ \A call : Occurs(call, A \o C) <=> Occurs(call, A) \/ Occurs(call, C)
  BY <1>1, <1>5, <1>0, ConcatWithin
<1>10. /\ Within((A \o C) \o E, r1, r4)
       /\ \A call : Occurs(call, (A \o C) \o E) <=> Occurs(call, A \o C) \/ Occurs(call, E)
  BY <1>1, <1>9, <1>0, ConcatWithin
<1>11. ASSUME NEW n \in Range(Defs)
       PROVE  ~Occurs(<<"attach", n>>, InitFromIni)
  <2>1. Rank(<<"attach", n>>) = 2
    BY DEF Rank
  <2>2. /\ ~Occurs(<<"attach", n>>, A) /\ ~Occurs(<<"attach", n>>, C)
        /\ ~Occurs(<<"attach", n>>, E)
    BY <1>0, <1>1, <2>1, OccursWithin DEF r1, r3, r4
  <2> QED BY <1>3, <1>9, <1>10, <2>2
<1>12. /\ InitAuto \in Seq(Calls) /\ Ordered(InitAuto)
       /\ InitFromIni \in Seq(Calls) /\ Ordered(InitFromIni)
  BY <1>3, <1>8, <1>10 DEF Within
<1> QED BY <1>2, <1>3, <1>4, <1>6, <1>7, <1>8, <1>9, <1>10, <1>11, <1>12

-----------------------------------------------------------------------------
(* What each call does to what is registered and exported *)

\* The functions and the implements of the generated code
LEMMA Generated ==
    /\ Range(Defs) \subseteq Names
    /\ \A j \in DOMAIN Regs : /\ Regs[j][1] \in Names /\ Impl(j) \in Impls \X Funcs
                              /\ Impl(j)[1] = Regs[j][2] /\ Impl(j)[2] = Regs[j][3]
                              /\ Impl(j) \in OfReg(Regs[j][1])
    /\ \A n : OneOfAName(OfReg(n))
<1>1. Range(Defs) \subseteq Names
  <2>1. DOMAIN Defs = 1..Len(Defs) /\ \A i \in 1..Len(Defs) : Defs[i] \in Names
    BY OilFuncsAssumption, LenProperties
  <2> QED BY <2>1 DEF Range
<1>2. ASSUME NEW j \in DOMAIN Regs
      PROVE  /\ Regs[j][1] \in Names /\ Impl(j) \in Impls \X Funcs
             /\ Impl(j)[1] = Regs[j][2] /\ Impl(j)[2] = Regs[j][3]
  <2>1. Regs \in Seq(Names \X Impls \X Funcs)
    BY OilFuncsAssumption
  <2>2. DOMAIN Regs = 1..Len(Regs)
    BY <2>1, LenProperties
  <2>3. Regs[j] \in Names \X Impls \X Funcs
    BY <2>1, <2>2, ElementOfSeq
  <2> QED BY <2>3 DEF Impl
<1>3. \A j \in DOMAIN Regs : Impl(j) \in OfReg(Regs[j][1])
  BY DEF OfReg, Impl
<1>4. ASSUME NEW n, NEW p \in OfReg(n), NEW q \in OfReg(n), p[1] = q[1]
      PROVE  p = q
  <2>1. PICK i \in DOMAIN Regs : Regs[i][1] = n /\ p = Impl(i)
    BY DEF OfReg, Impl
  <2>2. PICK j \in DOMAIN Regs : Regs[j][1] = n /\ q = Impl(j)
    BY DEF OfReg, Impl
  <2>3. Regs[i][2] = Regs[j][2]
    BY <1>2, <1>4, <2>1, <2>2
  <2>4. i = j
    BY <2>1, <2>2, <2>3, OilFuncsAssumption
  <2> QED BY <2>1, <2>2, <2>4
<1> QED BY <1>1, <1>2, <1>3, <1>4 DEF OneOfAName

\* What a step has to keep for the slots to hold what they should
LEMMA ReachedEverywhere ==
    SlotHoldsRegistered <=>
        \A n \in Names : table[n] # NULL =>
            slot[n] = table[n] /\ Reached(exported[n], impls[table[n]], since[table[n]])
  BY DEF SlotHoldsRegistered, Reached

\* A call that registers nothing keeps what it leaves registered.
LEMMA ExportKept ==
    ASSUME RegistryInv, ExportInv, RegistryInv', KeepImpls, UNCHANGED <<exported, slot>>,
           \A n \in Names : table'[n] \in {NULL, table[n]}
    PROVE  ExportInv'
<1>1. \A c \in Classes :
         /\ impls'[c] = IF classes'[c].allocated THEN impls[c] ELSE {}
         /\ since'[c] = IF classes'[c].allocated THEN since[c] ELSE {}
  BY DEF KeepImpls
<1>2. /\ impls' \in [Classes -> SUBSET (Impls \X Funcs)]
      /\ since' \in [Classes -> SUBSET {"changed", "activated"}]
  BY DEF KeepImpls, ExportInv
<1>3. \A c \in Classes : impls'[c] # {} \/ since'[c] # {} => c \in Allocated'
  BY <1>1 DEF Allocated
<1>4. \A c \in Classes : OneOfAName(impls'[c])
  BY <1>1 DEF ExportInv, OneOfAName
<1>5. ASSUME NEW n \in Names, table'[n] # NULL
      PROVE  slot'[n] = table'[n] /\ Reached(exported'[n], impls'[table'[n]], since'[table'[n]])
  <2>1. table'[n] = table[n] /\ table[n] # NULL
    BY <1>5
  <2>2. table'[n] \in Classes /\ classes'[table'[n]].allocated
    BY <1>5 DEF RegistryInv, RegisteredIsAlive, oil_class_get, TypeOK
  <2>3. slot[n] = table[n] /\ Reached(exported[n], impls[table[n]], since[table[n]])
    BY <2>1, ReachedEverywhere DEF ExportInv
  <2> QED BY <1>1, <2>1, <2>2, <2>3
<1>6. SlotHoldsRegistered'
  BY <1>5 DEF SlotHoldsRegistered, Reached
<1> QED BY <1>2, <1>3, <1>4, <1>6 DEF ExportInv

\* Registered classes are different for different names.
LEMMA RegisteredDiffer ==
    ASSUME RegistryInv, NEW m \in Names, NEW n \in Names, table[m] # NULL, m # n
    PROVE  table[m] \in Classes /\ table[m] # table[n]
<1>1. table \in [Names -> Classes \cup {NULL}]
  BY DEF RegistryInv, TypeOK
<1>2. \A k \in Names : table[k] # NULL => classes[table[k]].name = k
  BY DEF RegistryInv, RegisteredIsAlive, oil_class_get
<1> QED BY <1>1, <1>2

LEMMA RegisterEffect ==
    ASSUME RegistryInv, ExportInv, NEW n \in Names, NEW c \in Classes, Register(n, c)
    PROVE  /\ RegistryInv' /\ ExportInv' /\ UNCHANGED initialized
           /\ exported'[n] = Ref
           /\ initialized = TRUE =>
                 table'[n] = c /\ impls'[c] = {} /\ since'[c] = {} /\ classes'[c].data = NULL
           /\ \A m \in Names : m # n =>
                 /\ table'[m] = table[m] /\ exported'[m] = exported[m]
                 /\ table[m] # NULL => /\ impls'[table[m]] = impls[table[m]]
                                       /\ since'[table[m]] = since[table[m]]
                                       /\ classes'[table[m]].data = classes[table[m]].data
<1> DEFINE new == [allocated |-> TRUE, name |-> n, data |-> NULL]
<1>1. /\ oil_class_register(n, c) /\ KeepImpls /\ exported' = [exported EXCEPT ![n] = Ref]
      /\ TypeOK /\ RegisteredIsAlive
  BY DEF Register, RegistryInv
<1>2. RegistryInv'
  BY <1>1, RegisterKeeps DEF Kept
<1>3. classes[c] = Unborn /\ ~classes[c].allocated
  BY <1>1 DEF oil_class_register, Unborn
<1>4. impls[c] = {} /\ since[c] = {}
  BY <1>3 DEF ExportInv, Allocated
<1>5. /\ \A m \in Names : m # n => table'[m] = table[m] /\ slot'[m] = slot[m]
      /\ slot'[n] = c
      /\ IF initialized = TRUE THEN table'[n] = c ELSE table'[n] = table[n]
      /\ UNCHANGED initialized
  BY <1>1 DEF oil_class_register, RegisterNowhere, RegisterNew, RegisterAgain, Table!Insert, TypeOK
<1>6. /\ classes'[c] = new
      /\ \A e \in Classes : e # c /\ e # table[n] => classes'[e] = classes[e]
  <2>1. CASE RegisterNowhere(n, c) \/ RegisterNew(n, c)
    BY <1>1, <2>1 DEF RegisterNowhere, RegisterNew, TypeOK
  <2>2. CASE RegisterAgain(n, c)
    <3>1. table[n] # c
      BY <1>1, <1>3, <2>2 DEF RegisterAgain, RegisteredIsAlive, oil_class_get
    <3> QED BY <1>1, <2>2, <3>1 DEF RegisterAgain, TypeOK
  <2> QED BY <1>1, <2>1, <2>2 DEF oil_class_register
<1>7. classes'[c].allocated /\ classes'[c].data = NULL
  BY <1>6
<1>8. \A e \in Classes :
         /\ impls'[e] = IF classes'[e].allocated THEN impls[e] ELSE {}
         /\ since'[e] = IF classes'[e].allocated THEN since[e] ELSE {}
  BY <1>1 DEF KeepImpls
<1>9. /\ exported'[n] = Ref /\ \A m \in Names : m # n => exported'[m] = exported[m]
      /\ exported' \in [Names -> Funcs \cup {Ref}]
  BY <1>1 DEF ExportInv
<1>10. ASSUME NEW m \in Names, m # n, table[m] # NULL
       PROVE  /\ impls'[table[m]] = impls[table[m]] /\ since'[table[m]] = since[table[m]]
              /\ classes'[table[m]].data = classes[table[m]].data
  <2>1. table[m] \in Classes /\ table[m] # table[n] /\ classes[table[m]].allocated
    BY <1>1, <1>10, RegisteredDiffer DEF RegisteredIsAlive, oil_class_get
  <2>2. classes'[table[m]] = classes[table[m]]
    BY <1>3, <1>6, <2>1
  <2> QED BY <1>8, <2>1, <2>2
<1>11. ASSUME NEW m \in Names, table'[m] # NULL
       PROVE  /\ slot'[m] = table'[m]
              /\ Reached(exported'[m], impls'[table'[m]], since'[table'[m]])
  <2>1. CASE m = n
    <3>1. initialized = TRUE
      BY <1>1, <1>5, <1>11, <2>1 DEF RegisteredIsAlive, oil_class_get
    <3> QED BY <1>5, <1>9, <2>1, <3>1 DEF Reached
  <2>2. CASE m # n
    <3>1. slot[m] = table[m] /\ Reached(exported[m], impls[table[m]], since[table[m]])
      BY <1>5, <1>11, <2>2, ReachedEverywhere DEF ExportInv
    <3> QED BY <1>5, <1>9, <1>10, <1>11, <2>2, <3>1
  <2> QED BY <2>1, <2>2
<1>12. ExportInv'
  <2>1. /\ impls' \in [Classes -> SUBSET (Impls \X Funcs)]
        /\ since' \in [Classes -> SUBSET {"changed", "activated"}]
    BY <1>1 DEF KeepImpls, ExportInv
  <2>2. \A e \in Classes : impls'[e] # {} \/ since'[e] # {} => e \in Allocated'
    BY <1>8 DEF Allocated
  <2>3. \A e \in Classes : OneOfAName(impls'[e])
    BY <1>8 DEF ExportInv, OneOfAName
  <2>4. SlotHoldsRegistered'
    BY <1>11 DEF SlotHoldsRegistered, Reached
  <2> QED BY <1>9, <2>1, <2>2, <2>3, <2>4 DEF ExportInv
<1> QED BY <1>2, <1>4, <1>5, <1>7, <1>8, <1>9, <1>10, <1>12

LEMMA AttachEffect ==
    ASSUME RegistryInv, ExportInv, NEW n \in Names, oil_test_attach_class_full(n)
    PROVE  /\ RegistryInv' /\ ExportInv'
           /\ UNCHANGED <<initialized, table, impls, since, exported>>
           /\ \A m \in Names : m # n /\ table[m] # NULL =>
                 classes'[table[m]].data = classes[table[m]].data
           /\ table[n] # NULL => IF n \in Tested THEN classes'[table[n]].data # NULL
                                 ELSE classes'[table[n]].data = classes[table[n]].data
<1>0. TypeOK
  BY DEF RegistryInv
<1>1. CASE table[n] # NULL /\ classes[table[n]].data = NULL /\ n \in Tested
  <2>1. PICK d \in Data : oil_class_add_data(table[n], d)
    BY <1>1 DEF oil_test_attach_class_full
  <2>2. table[n] \in Classes /\ d # NULL
    <3>1. table[n] \in Classes \cup {NULL} /\ table[n] # NULL
      BY <1>0, <1>1 DEF TypeOK
    <3>2. d # NULL
      BY OilRegistryAssumption
    <3> QED BY <3>1, <3>2
  <2>3. RegistryInv'
    BY <2>1, <2>2, AddDataKeeps DEF Kept
  <2>4. /\ UNCHANGED <<initialized, table, slot, impls, since, exported>>
        /\ classes' = [classes EXCEPT ![table[n]].data = d]
    BY <2>1 DEF oil_class_add_data, oil_test_attach_class_full
  <2>5. /\ classes'[table[n]].data = d
        /\ \A e \in Classes : e # table[n] => classes'[e] = classes[e]
        /\ \A e \in Classes : classes'[e].allocated <=> classes[e].allocated
    BY <1>0, <2>2, <2>4 DEF TypeOK, OilClass
  <2>6. ExportInv'
    BY <2>4, <2>5 DEF ExportInv, SlotHoldsRegistered, Allocated
  <2>7. \A m \in Names : m # n /\ table[m] # NULL =>
           classes'[table[m]].data = classes[table[m]].data
    BY <2>5, RegisteredDiffer
  <2> QED BY <1>1, <2>2, <2>3, <2>4, <2>5, <2>6, <2>7
<1>2. CASE ~(table[n] # NULL /\ classes[table[n]].data = NULL /\ n \in Tested)
  <2>1. UNCHANGED <<vars, impls, since, exported>>
    BY <1>2 DEF oil_test_attach_class_full
  <2>2. RegistryInv'
    BY <2>1, RegistryStep DEF Kept
  <2>3. UNCHANGED <<initialized, table, classes, slot>>
    BY <2>1 DEF vars
  <2>4. ExportInv'
    BY <2>1, <2>3 DEF ExportInv, SlotHoldsRegistered, Allocated
  <2> QED BY <1>2, <2>1, <2>2, <2>3, <2>4
<1> QED BY <1>1, <1>2

\* A call about the implements of one class: the slot is not written, and what it
\* holds is one of them unless the history notes a change.
LEMMA SetEffect ==
    ASSUME RegistryInv, ExportInv, NEW n \in Names, table[n] # NULL,
           NEW set \in SUBSET (Impls \X Funcs), OneOfAName(set), SetImpls(n, set)
    PROVE  /\ RegistryInv' /\ ExportInv'
           /\ UNCHANGED <<initialized, table, classes, exported>>
           /\ impls'[table[n]] = set
           /\ impls[table[n]] \subseteq set => UNCHANGED since
           /\ \A m \in Names : m # n /\ table[m] # NULL =>
                 impls'[table[m]] = impls[table[m]] /\ since'[table[m]] = since[table[m]]
<1>0. TypeOK /\ table[n] \in Allocated /\ table[n] \in Classes
  BY DEF RegistryInv, RegisteredIsAlive, oil_class_get, TypeOK, Allocated
<1>1. /\ impls' = [impls EXCEPT ![table[n]] = set]
      /\ impls[table[n]] \subseteq set => since' = since
      /\ ~(impls[table[n]] \subseteq set) =>
            since' = [since EXCEPT ![table[n]] = @ \cup {"changed"}]
      /\ UNCHANGED <<exported, vars>>
  BY DEF SetImpls
<1>2. RegistryInv'
  BY <1>1, RegistryStep DEF Kept
<1>3. UNCHANGED <<initialized, table, classes, slot>>
  BY <1>1 DEF vars
<1>4. /\ impls' \in [Classes -> SUBSET (Impls \X Funcs)]
      /\ since' \in [Classes -> SUBSET {"changed", "activated"}]
      /\ impls'[table[n]] = set
      /\ \A c \in Classes : c # table[n] => impls'[c] = impls[c] /\ since'[c] = since[c]
      /\ \A c \in Classes : "activated" \in since'[c] <=> "activated" \in since[c]
      /\ "changed" \notin since'[table[n]] =>
            impls[table[n]] \subseteq set /\ since'[table[n]] = since[table[n]]
  <2>1. /\ impls \in [Classes -> SUBSET (Impls \X Funcs)]
        /\ since \in [Classes -> SUBSET {"changed", "activated"}]
    BY DEF ExportInv
  <2>2. CASE impls[table[n]] \subseteq set
    BY <1>0, <1>1, <2>1, <2>2
  <2>3. CASE ~(impls[table[n]] \subseteq set)
    BY <1>0, <1>1, <2>1, <2>3
  <2> QED BY <2>2, <2>3
<1>5. \A c \in Classes : impls'[c] # {} \/ since'[c] # {} => c \in Allocated'
  <2>1. \A c \in Classes : impls[c] # {} \/ since[c] # {} => c \in Allocated
    BY DEF ExportInv
  <2>2. Allocated' = Allocated
    BY <1>3 DEF Allocated
  <2> QED BY <1>0, <1>4, <2>1, <2>2
<1>6. \A c \in Classes : OneOfAName(impls'[c])
  <2>1. \A c \in Classes : OneOfAName(impls[c])
    BY DEF ExportInv
  <2>2. ASSUME NEW c \in Classes PROVE OneOfAName(impls'[c])
    <3>1. CASE c = table[n]
      BY <1>4, <3>1
    <3>2. CASE c # table[n]
      BY <1>4, <2>1, <3>2
    <3> QED BY <3>1, <3>2
  <2> QED BY <2>2
<1>7. \A m \in Names : m # n /\ table[m] # NULL =>
         impls'[table[m]] = impls[table[m]] /\ since'[table[m]] = since[table[m]]
  BY <1>4, RegisteredDiffer
<1>8. ASSUME NEW m \in Names, table[m] # NULL
      PROVE  slot[m] = table[m] /\ Reached(exported[m], impls'[table[m]], since'[table[m]])
  <2>1. slot[m] = table[m] /\ Reached(exported[m], impls[table[m]], since[table[m]])
    BY <1>8, ReachedEverywhere DEF ExportInv
  <2>2. CASE m = n
    BY <1>0, <1>4, <2>1, <2>2 DEF Reached
  <2>3. CASE m # n
    BY <1>7, <1>8, <2>1, <2>3
  <2> QED BY <2>2, <2>3
<1>9. SlotHoldsRegistered'
  BY <1>1, <1>3, <1>8 DEF SlotHoldsRegistered, Reached
<1>10. exported' \in [Names -> Funcs \cup {Ref}]
  BY <1>1 DEF ExportInv
<1> QED BY <1>1, <1>2, <1>3, <1>4, <1>5, <1>6, <1>7, <1>9, <1>10 DEF ExportInv

\* The implements of other names are implements of a class, one of a name.
LEMMA OthersType ==
    ASSUME RegistryInv, ExportInv, NEW n \in Names, table[n] # NULL, NEW i
    PROVE  /\ Others(n, i) \in SUBSET (Impls \X Funcs)
           /\ OneOfAName(Others(n, i))
           /\ \A f \in Funcs : i \in Impls =>
                 /\ Others(n, i) \cup {<<i, f>>} \in SUBSET (Impls \X Funcs)
                 /\ OneOfAName(Others(n, i) \cup {<<i, f>>})
<1>1. table[n] \in Classes
  BY DEF RegistryInv, TypeOK
<1>2. impls[table[n]] \in SUBSET (Impls \X Funcs) /\ OneOfAName(impls[table[n]])
  BY <1>1 DEF ExportInv
<1>3. Others(n, i) \in SUBSET (Impls \X Funcs) /\ OneOfAName(Others(n, i))
  BY <1>2 DEF Others, OneOfAName
<1>4. ASSUME NEW f \in Funcs, i \in Impls
      PROVE  /\ Others(n, i) \cup {<<i, f>>} \in SUBSET (Impls \X Funcs)
             /\ OneOfAName(Others(n, i) \cup {<<i, f>>})
  <2>1. \A p \in Others(n, i) : p[1] # i
    BY DEF Others
  <2>2. <<i, f>> \in Impls \X Funcs /\ <<i, f>>[1] = i
    BY <1>4
  <2> DEFINE q == <<i, f>>
  <2>3. q \in Impls \X Funcs /\ q[1] = i
    BY <2>2
  <2> HIDE DEF q
  <2>4. /\ Others(n, i) \cup {q} \in SUBSET (Impls \X Funcs)
        /\ OneOfAName(Others(n, i) \cup {q})
    BY <1>3, <2>1, <2>3 DEF OneOfAName
  <2> QED BY <2>4 DEF q
<1> QED BY <1>3, <1>4

LEMMA ImplementEffect ==
    ASSUME RegistryInv, ExportInv, NEW n \in Names, NEW i \in Impls, NEW f \in Funcs,
           oil_class_add_implement(n, i, f)
    PROVE  /\ RegistryInv' /\ ExportInv'
           /\ UNCHANGED <<initialized, table, classes, exported>>
           /\ table[n] # NULL =>
                 /\ impls'[table[n]] = Others(n, i) \cup {<<i, f>>}
                 /\ impls[table[n]] \subseteq Others(n, i) \cup {<<i, f>>} => UNCHANGED since
           /\ \A m \in Names : m # n /\ table[m] # NULL =>
                 impls'[table[m]] = impls[table[m]] /\ since'[table[m]] = since[table[m]]
<1>1. CASE table[n] = NULL
  <2>1. UNCHANGED <<impls, exported, since, vars>>
    BY <1>1 DEF oil_class_add_implement
  <2>2. RegistryInv'
    BY <2>1, RegistryStep DEF Kept
  <2>3. UNCHANGED <<initialized, table, classes, slot>>
    BY <2>1 DEF vars
  <2>4. ExportInv'
    BY <2>1, <2>3 DEF ExportInv, SlotHoldsRegistered, Allocated
  <2> QED BY <1>1, <2>1, <2>2, <2>3, <2>4
<1>2. CASE table[n] # NULL
  <2> DEFINE set == Others(n, i) \cup {<<i, f>>}
  <2>1. SetImpls(n, set) /\ set \in SUBSET (Impls \X Funcs) /\ OneOfAName(set)
    BY <1>2, OthersType DEF oil_class_add_implement
  <2> HIDE DEF set
  <2>2. /\ RegistryInv' /\ ExportInv'
        /\ UNCHANGED <<initialized, table, classes, exported>>
        /\ impls'[table[n]] = set
        /\ impls[table[n]] \subseteq set => UNCHANGED since
        /\ \A m \in Names : m # n /\ table[m] # NULL =>
              impls'[table[m]] = impls[table[m]] /\ since'[table[m]] = since[table[m]]
    BY <1>2, <2>1, SetEffect
  <2> QED BY <2>2 DEF set
<1> QED BY <1>1, <1>2

\* What activating one implement, or the reference, may leave in the slot
LEMMA ActivateEffect ==
    ASSUME RegistryInv, ExportInv, NEW n \in Names, NEW i,
           oil_class_activate_implement(n, i) \/ ActivateReference(n)
    PROVE  RegistryInv' /\ ExportInv'
<1>0. TypeOK /\ table[n] # NULL /\ table[n] \in Classes /\ table[n] \in Allocated
  BY DEF RegistryInv, RegisteredIsAlive, oil_class_get, TypeOK, Allocated,
         oil_class_activate_implement, ActivateReference
<1>1. UNCHANGED <<impls, vars>>
  BY DEF oil_class_activate_implement, ActivateReference
<1>2. RegistryInv'
  BY <1>1, RegistryStep DEF Kept
<1>3. UNCHANGED <<table, classes, slot>>
  BY <1>1 DEF vars
<1>4. /\ impls \in [Classes -> SUBSET (Impls \X Funcs)]
      /\ since \in [Classes -> SUBSET {"changed", "activated"}]
      /\ exported \in [Names -> Funcs \cup {Ref}]
  BY DEF ExportInv
<1>5. PICK f, did : /\ exported' = [exported EXCEPT ![n] = f]
                    /\ since' = [since EXCEPT ![table[n]] = did]
                    /\ f \in Funcs \cup {Ref} /\ did \in SUBSET {"changed", "activated"}
                    /\ Reached(f, impls[table[n]], did)
  <2>1. CASE oil_class_activate_implement(n, i)
    <3>1. PICK p \in impls[table[n]] : exported' = [exported EXCEPT ![n] = p[2]]
      BY <2>1 DEF oil_class_activate_implement
    <3>2. p[2] \in Funcs
      BY <1>0, <1>4, <3>1
    <3>3. since' = [since EXCEPT ![table[n]] = {"activated"}]
      BY <2>1 DEF oil_class_activate_implement
    <3>4. Reached(p[2], impls[table[n]], {"activated"})
      BY <3>1 DEF Reached
    <3>5. {"activated"} \in SUBSET {"changed", "activated"}
      OBVIOUS
    <3> QED BY <3>1, <3>2, <3>3, <3>4, <3>5
  <2>2. CASE ActivateReference(n)
    <3>1. /\ exported' = [exported EXCEPT ![n] = Ref]
          /\ since' = [since EXCEPT ![table[n]] = {}]
      BY <2>2 DEF ActivateReference
    <3>2. Reached(Ref, impls[table[n]], {})
      BY DEF Reached
    <3> QED BY <3>1, <3>2
  <2> QED BY <2>1, <2>2
<1>6. /\ exported'[n] = f /\ \A m \in Names : m # n => exported'[m] = exported[m]
      /\ exported' \in [Names -> Funcs \cup {Ref}]
      /\ since'[table[n]] = did /\ \A c \in Classes : c # table[n] => since'[c] = since[c]
      /\ since' \in [Classes -> SUBSET {"changed", "activated"}]
  BY <1>0, <1>4, <1>5
<1>7. ASSUME NEW m \in Names, table[m] # NULL
      PROVE  slot[m] = table[m] /\ Reached(exported'[m], impls[table[m]], since'[table[m]])
  <2>1. slot[m] = table[m] /\ Reached(exported[m], impls[table[m]], since[table[m]])
    BY <1>7, ReachedEverywhere DEF ExportInv
  <2>2. CASE m = n
    BY <1>5, <1>6, <2>1, <2>2
  <2>3. CASE m # n
    BY <1>6, <1>7, <2>1, <2>3, RegisteredDiffer
  <2> QED BY <2>2, <2>3
<1>8. SlotHoldsRegistered'
  BY <1>1, <1>3, <1>7 DEF SlotHoldsRegistered, Reached
<1>9. \A c \in Classes : impls[c] # {} \/ since'[c] # {} => c \in Allocated
  BY <1>0, <1>6 DEF ExportInv
<1>10. \A c \in Classes : OneOfAName(impls[c])
  BY DEF ExportInv
<1> QED BY <1>1, <1>2, <1>3, <1>4, <1>6, <1>8, <1>9, <1>10 DEF ExportInv, Allocated

\* A choice that writes slots with what the CPU can run leaves them so.
LEMMA ChoiceKeeps ==
    ASSUME RegistryInv, ExportInv, UNCHANGED <<vars, impls>>, NEW ns \in SUBSET Names,
           exported' \in [Names -> Funcs \cup {Ref}],
           \A n \in Names : n \notin ns => exported'[n] = exported[n],
           \A n \in ns : /\ table[n] # NULL
                         /\ Reached(exported'[n], impls[table[n]], {}),
           since' = [c \in Classes |-> IF \E n \in ns : table[n] = c THEN {} ELSE since[c]]
    PROVE  /\ RegistryInv' /\ ExportInv'
           /\ \A n \in Names : table[n] # NULL /\ since[table[n]] = {} =>
                 since'[table[n]] = {}
<1>0. \A n \in Names : table[n] # NULL => table[n] \in Classes
  BY DEF RegistryInv, TypeOK
<1>1. RegistryInv'
  BY RegistryStep DEF Kept
<1>2. UNCHANGED <<table, classes, slot>>
  BY DEF vars
<1>3. since \in [Classes -> SUBSET {"changed", "activated"}]
  BY DEF ExportInv
<1>4. /\ \A c \in Classes : since'[c] = IF \E n \in ns : table[n] = c THEN {} ELSE since[c]
      /\ since' \in [Classes -> SUBSET {"changed", "activated"}]
  BY <1>3
<1>5. ASSUME NEW m \in Names, table[m] # NULL
      PROVE  slot[m] = table[m] /\ Reached(exported'[m], impls[table[m]], since'[table[m]])
  <2>1. slot[m] = table[m] /\ Reached(exported[m], impls[table[m]], since[table[m]])
    BY <1>5, ReachedEverywhere DEF ExportInv
  <2>2. CASE m \in ns
    <3>1. since'[table[m]] = {}
      BY <1>0, <1>4, <2>2
    <3> QED BY <2>1, <2>2, <3>1
  <2>3. CASE m \notin ns
    <3>1. \A n \in ns : table[n] # table[m]
      BY <1>5, <2>3, RegisteredDiffer
    <3>2. since'[table[m]] = since[table[m]]
      BY <1>0, <1>4, <1>5, <3>1
    <3> QED BY <2>1, <2>3, <3>2
  <2> QED BY <2>2, <2>3
<1>6. SlotHoldsRegistered'
  BY <1>2, <1>5 DEF SlotHoldsRegistered, Reached
<1>7. \A c \in Classes : impls[c] # {} \/ since'[c] # {} => c \in Allocated
  BY <1>4 DEF ExportInv
<1>8. ExportInv'
  BY <1>2, <1>4, <1>6, <1>7 DEF ExportInv, Allocated
<1>9. \A n \in Names : table[n] # NULL /\ since[table[n]] = {} => since'[table[n]] = {}
  BY <1>0, <1>4
<1> QED BY <1>1, <1>8, <1>9

\* A test chooses for classes that have test information, and leaves the others.
LEMMA TestEffect ==
    ASSUME RegistryInv, ExportInv, NEW ns \in SUBSET Names, Test(ns)
    PROVE  /\ UNCHANGED <<vars, impls>>
           /\ RegistryInv' /\ ExportInv'
           /\ \A n \in Names : table[n] # NULL /\ classes[table[n]].data = NULL =>
                 exported'[n] = exported[n]
           /\ \A n \in Names : table[n] # NULL /\ since[table[n]] = {} =>
                 since'[table[n]] = {}
<1> DEFINE tested == {n \in ns : HasTest(n)}
           Selected(n) == {Ref} \cup ({p[2] : p \in impls[table[n]]} \cap Runnable)
<1>1. /\ exported' \in [Names -> Funcs \cup {Ref}]
      /\ \A n \in Names : IF n \in tested THEN exported'[n] \in Selected(n)
                          ELSE exported'[n] = exported[n]
      /\ since' = [c \in Classes |-> IF \E n \in tested : table[n] = c THEN {} ELSE since[c]]
      /\ UNCHANGED <<vars, impls>>
  BY DEF Test
<1>2. \A n \in tested : n \in Names /\ table[n] # NULL
  BY DEF HasTest
<1>3. \A n \in Names : table[n] # NULL /\ classes[table[n]].data = NULL => n \notin tested
  BY DEF HasTest
<1>4. \A n, f : f \in Selected(n) => Reached(f, impls[table[n]], {})
  BY DEF Reached
<1>5. tested \in SUBSET Names
  OBVIOUS
<1> HIDE DEF tested, Selected
<1>6. /\ \A n \in Names : n \notin tested => exported'[n] = exported[n]
      /\ \A n \in tested : table[n] # NULL /\ Reached(exported'[n], impls[table[n]], {})
  BY <1>1, <1>2, <1>4
<1>7. /\ RegistryInv' /\ ExportInv'
      /\ \A n \in Names : table[n] # NULL /\ since[table[n]] = {} => since'[table[n]] = {}
  BY <1>1, <1>5, <1>6, ChoiceKeeps
<1> QED BY <1>1, <1>3, <1>6, <1>7

\* A list chooses for the classes it is about, if they have what it names.
LEMMA LoadEffect ==
    ASSUME RegistryInv, ExportInv, oil_load_ini
    PROVE  /\ UNCHANGED <<vars, impls>>
           /\ RegistryInv' /\ ExportInv'
           /\ \A n \in Names : n \notin DOMAIN List => exported'[n] = exported[n]
           /\ \A n \in DOMAIN List : table[n] # NULL =>
                 \A p \in impls[table[n]] : p[1] = List[n] /\ p[2] \in Runnable =>
                     exported'[n] = p[2]
           /\ \A n \in Names : table[n] # NULL /\ since[table[n]] = {} =>
                 since'[table[n]] = {}
<1> DEFINE loaded == {n \in Names : Listed(n) # {}}
<1>1. /\ exported' \in [Names -> Funcs \cup {Ref}]
      /\ \A n \in Names : IF n \in loaded THEN exported'[n] \in Listed(n)
                          ELSE exported'[n] = exported[n]
      /\ since' = [c \in Classes |-> IF \E n \in loaded : table[n] = c THEN {} ELSE since[c]]
      /\ UNCHANGED <<vars, impls>>
  BY DEF oil_load_ini
<1>2. \A n \in loaded : n \in Names /\ n \in DOMAIN List /\ table[n] # NULL
  BY DEF Listed
<1>3. ASSUME NEW n, NEW f \in Listed(n)
      PROVE  Reached(f, impls[table[n]], {}) /\ <<List[n], f>> \in impls[table[n]]
  <2>1. f \in Runnable /\ <<List[n], f>> \in impls[table[n]]
    BY DEF Listed
  <2>2. <<List[n], f>>[2] = f
    OBVIOUS
  <2> QED BY <2>1, <2>2 DEF Reached
<1>4. ASSUME NEW n \in DOMAIN List, table[n] # NULL, NEW p \in impls[table[n]],
             p[1] = List[n], p[2] \in Runnable
      PROVE  n \in loaded /\ exported'[n] = p[2]
  <2>1. n \in Names
    BY OilFuncsAssumption
  <2>2. table[n] \in Classes
    BY <1>4, <2>1 DEF RegistryInv, TypeOK
  <2>3. p \in Impls \X Funcs /\ OneOfAName(impls[table[n]])
    BY <2>2 DEF ExportInv
  <2>4. p = <<List[n], p[2]>>
    BY <1>4, <2>3
  <2>5. p[2] \in Listed(n)
    BY <1>4, <2>4 DEF Listed
  <2>6. n \in loaded
    BY <2>1, <2>5
  <2>7. exported'[n] \in Listed(n)
    BY <1>1, <2>1, <2>6
  <2>8. PICK q \in impls[table[n]] : q = <<List[n], exported'[n]>>
    BY <1>3, <2>7
  <2>9. q[1] = p[1] /\ q[2] = exported'[n]
    BY <1>4, <2>8
  <2>10. q = p
    BY <2>3, <2>9 DEF OneOfAName
  <2> QED BY <2>6, <2>9, <2>10
<1>5. loaded \in SUBSET Names
  OBVIOUS
<1> HIDE DEF loaded
<1>6. /\ \A n \in Names : n \notin loaded => exported'[n] = exported[n]
      /\ \A n \in loaded : table[n] # NULL /\ Reached(exported'[n], impls[table[n]], {})
  BY <1>1, <1>2, <1>3
<1>7. /\ RegistryInv' /\ ExportInv'
      /\ \A n \in Names : table[n] # NULL /\ since[table[n]] = {} => since'[table[n]] = {}
  BY <1>1, <1>5, <1>6, ChoiceKeeps
<1> QED BY <1>1, <1>2, <1>4, <1>6, <1>7

\* The calls of a client keep what is left of the implements and the slots.
LEMMA ChangeEffect ==
    ASSUME RegistryInv, ExportInv, ChangeRegistry
    PROVE  RegistryInv' /\ ExportInv'
<1>1. ASSUME NEW n \in Names, NEW c \in Classes, Register(n, c)
      PROVE  RegistryInv' /\ ExportInv'
  BY <1>1, RegisterEffect
<1>2. ASSUME NEW n \in Names, oil_test_attach_class_full(n)
      PROVE  RegistryInv' /\ ExportInv'
  BY <1>2, AttachEffect
<1>3. ASSUME NEW a \in Added, oil_class_add_implement(a[1], a[2], a[3])
      PROVE  RegistryInv' /\ ExportInv'
  <2>1. a[1] \in Names /\ a[2] \in Impls /\ a[3] \in Funcs
    BY OilFuncsAssumption
  <2> QED BY <1>3, <2>1, ImplementEffect
<1>4. ASSUME NEW with \in BOOLEAN, oil_class_init(with), KeepImpls, UNCHANGED exported
      PROVE  RegistryInv' /\ ExportInv'
  <2>1. RegistryInv'
    BY <1>4, InitKeeps DEF Kept
  <2>2. UNCHANGED <<slot, table>>
    BY <1>4 DEF oil_class_init
  <2> QED BY <1>4, <2>1, <2>2, ExportKept
<1>5. ASSUME oil_class_uninit \/ oil_class_remove_all, KeepImpls, UNCHANGED exported
      PROVE  RegistryInv' /\ ExportInv'
  <2>1. RegistryInv'
    BY <1>5, UninitKeeps DEF Kept
  <2>2. UNCHANGED slot /\ \A n \in Names : table'[n] = NULL
    BY <1>5 DEF oil_class_uninit, oil_class_remove_all, Table!RemoveAll
  <2> QED BY <1>5, <2>1, <2>2, ExportKept
<1>6. ASSUME NEW c \in Classes, NEW d \in Data \cup {NULL}, oil_class_add_data(c, d),
             KeepImpls, UNCHANGED exported
      PROVE  RegistryInv' /\ ExportInv'
  <2>1. RegistryInv'
    BY <1>6, AddDataKeeps DEF Kept
  <2>2. UNCHANGED <<slot, table>>
    BY <1>6 DEF oil_class_add_data
  <2> QED BY <1>6, <2>1, <2>2, ExportKept
<1>7. ASSUME NEW n \in Names, oil_class_remove(n), KeepImpls, UNCHANGED exported
      PROVE  RegistryInv' /\ ExportInv'
  <2>1. RegistryInv'
    BY <1>7, RemoveKeeps DEF Kept
  <2>2. UNCHANGED slot /\ \A m \in Names : table'[m] \in {NULL, table[m]}
    BY <1>7 DEF oil_class_remove, Table!Remove, RegistryInv, TypeOK
  <2> QED BY <1>7, <2>1, <2>2, ExportKept
<1>8. ASSUME NEW n \in Names, NEW i \in Impls, oil_class_remove_implement(n, i)
      PROVE  RegistryInv' /\ ExportInv'
  <2> DEFINE set == Others(n, i)
  <2>1. table[n] # NULL /\ SetImpls(n, set)
    BY <1>8 DEF oil_class_remove_implement
  <2>2. set \in SUBSET (Impls \X Funcs) /\ OneOfAName(set)
    BY <2>1, OthersType
  <2> HIDE DEF set
  <2> QED BY <2>1, <2>2, SetEffect
<1>9. ASSUME NEW n \in Names, oil_class_clear_implements(n)
      PROVE  RegistryInv' /\ ExportInv'
  <2>1. table[n] # NULL /\ SetImpls(n, {})
    BY <1>9 DEF oil_class_clear_implements
  <2>2. {} \in SUBSET (Impls \X Funcs) /\ OneOfAName({})
    BY DEF OneOfAName
  <2> QED BY <2>1, <2>2, SetEffect
<1>10. ASSUME NEW n \in Names, NEW i, oil_class_activate_implement(n, i) \/ ActivateReference(n)
       PROVE  RegistryInv' /\ ExportInv'
  BY <1>10, ActivateEffect
<1>11. \/ \E n \in Names, c \in Classes : Register(n, c)
       \/ /\ \/ \E with \in BOOLEAN : oil_class_init(with)
             \/ oil_class_uninit
             \/ \E c \in Classes, d \in Data \cup {NULL} : oil_class_add_data(c, d)
             \/ \E n \in Names : oil_class_remove(n)
             \/ oil_class_remove_all
          /\ KeepImpls
          /\ UNCHANGED exported
       \/ \E n \in Names : oil_test_attach_class_full(n)
       \/ \E a \in Added : oil_class_add_implement(a[1], a[2], a[3])
       \/ \E n \in Names, i \in Impls : oil_class_remove_implement(n, i)
       \/ \E n \in Names : oil_class_clear_implements(n)
       \/ \E n \in Names, i \in Impls : oil_class_activate_implement(n, i)
       \/ \E n \in Names : ActivateReference(n)
  BY DEF ChangeRegistry
<1> QED BY <1>1, <1>2, <1>3, <1>4, <1>5, <1>6, <1>7, <1>8, <1>9, <1>10, <1>11

-----------------------------------------------------------------------------
(* An initialization *)

\* The next call is one of those that initializations make.
LEMMA RunCall ==
    ASSUME TodoInv, Run
    PROVE  \/ \E n \in Range(Defs) : /\ Head(todo) = <<"register", n>>
                                     /\ \E c \in Classes : Register(n, c)
           \/ \E n \in Range(Defs) : /\ Head(todo) = <<"attach", n>>
                                     /\ oil_test_attach_class_full(n)
           \/ \E j \in DOMAIN Regs : /\ Head(todo) = Adds(Regs[j][1], Impl(j))
                                     /\ oil_class_add_implement(Regs[j][1], Regs[j][2], Regs[j][3])
           \/ Head(todo) = <<"optimize">> /\ oil_test_optimize_class_all
           \/ Head(todo) = <<"load">> /\ oil_load_ini
<1>1. Head(todo) \in Calls
  BY OrderedTail DEF TodoInv, Run
<1>2. ASSUME NEW n \in Range(Defs), Head(todo) = <<"register", n>>
      PROVE  \E c \in Classes : Register(n, c)
  <2>1. Head(todo)[1] = "register" /\ Head(todo)[2] = n
    BY <1>2
  <2> QED BY <2>1 DEF Run
<1>3. ASSUME NEW n \in Range(Defs), Head(todo) = <<"attach", n>>
      PROVE  oil_test_attach_class_full(n)
  <2>1. Head(todo)[1] = "attach" /\ Head(todo)[2] = n
    BY <1>3
  <2> QED BY <2>1 DEF Run
<1>4. ASSUME NEW j \in DOMAIN Regs, Head(todo) = Adds(Regs[j][1], Impl(j))
      PROVE  oil_class_add_implement(Regs[j][1], Regs[j][2], Regs[j][3])
  <2>1. /\ Head(todo)[1] = "implement" /\ Head(todo)[2] = Regs[j][1]
        /\ Head(todo)[3] = Regs[j][2] /\ Head(todo)[4] = Regs[j][3]
    BY <1>4 DEF Adds, Impl
  <2> QED BY <2>1 DEF Run
<1>5. Head(todo) = <<"optimize">> => oil_test_optimize_class_all
  <2>1. Head(todo) = <<"optimize">> => Head(todo)[1] = "optimize"
    OBVIOUS
  <2> QED BY <2>1 DEF Run
<1>6. Head(todo) = <<"load">> => oil_load_ini
  <2>1. Head(todo) = <<"load">> => Head(todo)[1] = "load"
    OBVIOUS
  <2> QED BY <2>1 DEF Run
<1> QED BY <1>1, <1>2, <1>3, <1>4, <1>5, <1>6 DEF Calls

\* What is pending after a call: all that was, except perhaps that call; and
\* what is pending before it has no smaller rank.
LEMMA RunPending ==
    ASSUME TodoInv, Run
    PROVE  /\ TodoInv' /\ UNCHANGED ready /\ ready \in {"auto", "ini"}
           /\ Pending(Head(todo))
           /\ \A call : /\ Occurs(call, todo') => Pending(call)
                        /\ Pending(call) /\ call # Head(todo) => Occurs(call, todo')
                        /\ Pending(call) => Rank(Head(todo)) <= Rank(call)
<1>1. todo \in Seq(Calls) /\ Ordered(todo) /\ todo # <<>> /\ todo' = Tail(todo)
      /\ UNCHANGED ready /\ ready \in {"auto", "ini"}
  BY DEF TodoInv, Run
<1>2. TodoInv'
  BY <1>1, OrderedTail DEF TodoInv
<1>3. Pending(Head(todo))
  BY <1>1, HeadTailProperties DEF Pending, Occurs
<1>4. \A call : /\ Occurs(call, Tail(todo)) => Occurs(call, todo)
                /\ Occurs(call, todo) /\ call # Head(todo) => Occurs(call, Tail(todo))
  BY <1>1, OccursInTail
<1>5. \A call : Occurs(call, todo) => Rank(Head(todo)) <= Rank(call)
  BY <1>1, OrderedTail
<1> QED BY <1>1, <1>2, <1>3, <1>4, <1>5 DEF Pending

LEMMA RunKeepsExport ==
    ASSUME RegistryInv, ExportInv, TodoInv, Run
    PROVE  RegistryInv' /\ ExportInv'
<1>1. CASE \E n \in Range(Defs), c \in Classes : Register(n, c)
  BY <1>1, RegisterEffect, Generated
<1>2. CASE \E n \in Range(Defs) : oil_test_attach_class_full(n)
  BY <1>2, AttachEffect, Generated
<1>3. ASSUME NEW j \in DOMAIN Regs, oil_class_add_implement(Regs[j][1], Regs[j][2], Regs[j][3])
      PROVE  RegistryInv' /\ ExportInv'
  <2>1. Regs[j][1] \in Names /\ Regs[j][2] \in Impls /\ Regs[j][3] \in Funcs
    BY Generated
  <2> QED BY <1>3, <2>1, ImplementEffect
<1>4. CASE oil_test_optimize_class_all
  BY <1>4, TestEffect DEF oil_test_optimize_class_all
<1>5. CASE oil_load_ini
  BY <1>5, LoadEffect
<1> QED BY <1>1, <1>2, <1>3, <1>4, <1>5, RunCall

\* The first function of a program is registered, and its other calls stay.
LEMMA RunRegister ==
    ASSUME FuncsInv, Run, NEW m \in Range(Defs), Head(todo) = <<"register", m>>,
           NEW c \in Classes, Register(m, c), initialized = TRUE,
           NEW n \in Range(Defs), FunctionInv(n)
    PROVE  FunctionInv(n)'
<1>1. \A call : /\ Occurs(call, todo') => Pending(call)
                /\ Pending(call) /\ call # Head(todo) => Occurs(call, todo')
  BY RunPending DEF FuncsInv
<1>2. UNCHANGED ready /\ Pending(Head(todo))
  BY RunPending DEF FuncsInv
<1>3. /\ \A i : Adds(n, i) # Head(todo)
      /\ <<"attach", n>> # Head(todo) /\ <<"load">> # Head(todo)
      /\ n # m => <<"register", n>> # Head(todo)
  BY CallsDiffer
<1>4. /\ exported'[m] = Ref
      /\ table'[m] = c /\ impls'[c] = {} /\ since'[c] = {} /\ classes'[c].data = NULL
      /\ \A k \in Names : k # m =>
            /\ table'[k] = table[k] /\ exported'[k] = exported[k]
            /\ table[k] # NULL => /\ impls'[table[k]] = impls[table[k]]
                                  /\ since'[table[k]] = since[table[k]]
                                  /\ classes'[table[k]].data = classes[table[k]].data
  <2>1. RegistryInv /\ ExportInv /\ m \in Names
    BY Generated DEF FuncsInv
  <2> QED BY <2>1, RegisterEffect
<1>5. n \in Names /\ c # NULL
  BY Generated, OilRegistryAssumption
<1>6. /\ \A i : Occurs(Adds(n, i), todo') <=> Pending(Adds(n, i))
      /\ Occurs(<<"attach", n>>, todo') <=> Pending(<<"attach", n>>)
      /\ Occurs(<<"load">>, todo') <=> Pending(<<"load">>)
      /\ n # m => (Occurs(<<"register", n>>, todo') <=> Pending(<<"register", n>>))
  BY <1>1, <1>3
<1>7. \A call : Pending(call)' <=> Occurs(call, todo')
  BY DEF Pending
<1>8. CASE n # m
  BY <1>2, <1>4, <1>5, <1>6, <1>7, <1>8 DEF FunctionInv, LoadedInv
<1>9. CASE n = m
  <2>1. /\ \A i \in OfReg(n) : Occurs(Adds(n, i), todo')
        /\ ready = "auto" => Occurs(<<"attach", n>>, todo')
        /\ ready = "ini" => Occurs(<<"load">>, todo')
    BY <1>2, <1>6, <1>9 DEF FunctionInv
  <2> QED BY <1>2, <1>4, <1>5, <1>7, <1>9, <2>1 DEF FunctionInv, LoadedInv
<1> QED BY <1>8, <1>9

\* Once a call of a rank is made, none of a smaller rank is pending.
LEMMA RankPassed ==
    ASSUME TodoInv, Run, NEW n
    PROVE  /\ Rank(Head(todo)) > 1 => ~Pending(<<"register", n>>)
           /\ Rank(Head(todo)) > 2 => ~Pending(<<"attach", n>>)
           /\ Rank(Head(todo)) > 3 => \A i : ~Pending(Adds(n, i))
<1>1. \A call : Pending(call) => Rank(Head(todo)) <= Rank(call)
  BY RunPending
<1>2. /\ Rank(<<"register", n>>) = 1 /\ Rank(<<"attach", n>>) = 2
      /\ \A i : Rank(Adds(n, i)) = 3
      /\ Rank(Head(todo)) \in Int
  BY DEF Rank, Adds
<1> QED BY <1>1, <1>2

LEMMA RunAttach ==
    ASSUME FuncsInv, Run, NEW m \in Range(Defs), Head(todo) = <<"attach", m>>,
           oil_test_attach_class_full(m), ready = "auto",
           NEW n \in Range(Defs), FunctionInv(n)
    PROVE  FunctionInv(n)'
<1>1. \A call : /\ Occurs(call, todo') => Pending(call)
                /\ Pending(call) /\ call # Head(todo) => Occurs(call, todo')
  BY RunPending DEF FuncsInv
<1>2. UNCHANGED ready
  BY RunPending DEF FuncsInv
<1>3. /\ \A i : Adds(n, i) # Head(todo)
      /\ n # m => <<"attach", n>> # Head(todo)
  BY CallsDiffer
<1>4. /\ UNCHANGED <<initialized, table, impls, since, exported>>
      /\ \A k \in Names : k # m /\ table[k] # NULL =>
            classes'[table[k]].data = classes[table[k]].data
      /\ table[m] # NULL => IF m \in Tested THEN classes'[table[m]].data # NULL
                            ELSE classes'[table[m]].data = classes[table[m]].data
  BY AttachEffect, Generated DEF FuncsInv
<1>5. n \in Names
  BY Generated
<1>6. ~Pending(<<"register", n>>) /\ ~Occurs(<<"register", n>>, todo')
  <2>1. Rank(Head(todo)) = 2
    BY DEF Rank
  <2>2. Rank(Head(todo)) > 1
    BY <2>1
  <2> QED BY <1>1, <2>2, RankPassed DEF FuncsInv
<1>7. \A call : Pending(call)' <=> Occurs(call, todo')
  BY DEF Pending
<1>8. /\ table[n] # NULL
      /\ impls[table[n]] \subseteq OfReg(n)
      /\ \A i \in OfReg(n) : i \in impls[table[n]] \/ Occurs(Adds(n, i), todo')
      /\ n \notin Tested => classes[table[n]].data = NULL
      /\ n \notin Tested /\ n \notin DOMAIN List => exported[n] = Ref
      /\ since[table[n]] = {}
  BY <1>1, <1>3, <1>6 DEF FunctionInv
<1>9. n \in Tested => classes'[table[n]].data # NULL \/ Occurs(<<"attach", n>>, todo')
  <2>1. CASE n = m
    BY <1>4, <1>5, <1>8, <2>1
  <2>2. CASE n # m
    <3>1. n \in Tested => classes[table[n]].data # NULL \/ Occurs(<<"attach", n>>, todo')
      BY <1>1, <1>3, <1>6, <2>2 DEF FunctionInv
    <3> QED BY <1>4, <1>5, <1>8, <2>2, <3>1
  <2> QED BY <2>1, <2>2
<1>10. n \notin Tested => classes'[table[n]].data = NULL
  BY <1>4, <1>5, <1>8
<1> QED BY <1>2, <1>4, <1>6, <1>7, <1>8, <1>9, <1>10 DEF FunctionInv

LEMMA RunImplement ==
    ASSUME FuncsInv, Run, NEW j \in DOMAIN Regs,
           Head(todo) = Adds(Regs[j][1], Impl(j)),
           oil_class_add_implement(Regs[j][1], Regs[j][2], Regs[j][3]),
           NEW n \in Range(Defs), FunctionInv(n)
    PROVE  FunctionInv(n)'
<1> DEFINE m == Regs[j][1]
           i == Impl(j)
           all == Others(m, i[1]) \cup {<<i[1], i[2]>>}
<1>0. /\ m \in Names /\ i \in Impls \X Funcs /\ i \in OfReg(m) /\ n \in Names
      /\ i[1] \in Impls /\ i[2] \in Funcs /\ <<i[1], i[2]>> = i
      /\ i[1] = Regs[j][2] /\ i[2] = Regs[j][3]
  BY Generated
<1>1. \A call : /\ Occurs(call, todo') => Pending(call)
                /\ Pending(call) /\ call # Head(todo) => Occurs(call, todo')
  BY RunPending DEF FuncsInv
<1>2. UNCHANGED ready /\ Pending(Head(todo))
  BY RunPending DEF FuncsInv
<1>3. /\ Head(todo) = Adds(m, i)
      /\ \A k : Adds(n, k) = Head(todo) => n = m /\ k[1] = i[1]
      /\ <<"load">> # Head(todo)
  <2>1. Head(todo) = Adds(m, i)
    OBVIOUS
  <2> HIDE DEF m, i
  <2>2. ASSUME NEW k, Adds(n, k) = Head(todo)
        PROVE  n = m /\ k[1] = i[1]
    <3>1. Adds(n, k) = Adds(m, i)
      BY <2>1, <2>2
    <3>2. Adds(n, k) = Adds(m, i) => n = m /\ k[1] = i[1] /\ k[2] = i[2]
      BY ONLY CallsDiffer
    <3> QED BY ONLY <3>1, <3>2
  <2>3. <<"load">> # Adds(m, i)
    BY ONLY CallsDiffer
  <2> QED BY <2>1, <2>2, <2>3
<1>4. /\ UNCHANGED <<initialized, table, classes, exported>>
      /\ table[m] # NULL =>
            impls'[table[m]] = all /\ (impls[table[m]] \subseteq all => UNCHANGED since)
      /\ \A k \in Names : k # m /\ table[k] # NULL =>
            impls'[table[k]] = impls[table[k]] /\ since'[table[k]] = since[table[k]]
  <2>1. oil_class_add_implement(m, i[1], i[2])
    BY <1>0
  <2> QED BY <1>0, <2>1, ImplementEffect DEF FuncsInv
<1>5. all = Others(m, i[1]) \cup {i}
  BY <1>0
<1>6. /\ ~Pending(<<"register", n>>) /\ ~Occurs(<<"register", n>>, todo')
      /\ ~Pending(<<"attach", n>>)
  <2>1. Rank(Head(todo)) = 3
    BY DEF Rank, Adds
  <2>2. Rank(Head(todo)) > 1 /\ Rank(Head(todo)) > 2
    BY <2>1
  <2>3. ~Pending(<<"register", n>>) /\ ~Pending(<<"attach", n>>)
    BY <2>2, RankPassed DEF FuncsInv
  <2> QED BY <1>1, <2>3
<1>7. \A call : Pending(call)' <=> Occurs(call, todo')
  BY DEF Pending
<1> HIDE DEF m, i, all
<1>8. /\ table[n] # NULL
      /\ impls[table[n]] \subseteq OfReg(n)
      /\ \A k \in OfReg(n) : k \in impls[table[n]] \/ Pending(Adds(n, k))
      /\ since[table[n]] = {}
  BY <1>6 DEF FunctionInv
<1>9. /\ impls'[table[n]] \subseteq OfReg(n)
      /\ \A k \in OfReg(n) : k \in impls'[table[n]] \/ Occurs(Adds(n, k), todo')
      /\ since'[table[n]] = {}
  <2>1. CASE n = m
    <3>1. \A p, q \in OfReg(m) : p[1] = q[1] => p = q
      BY Generated DEF OneOfAName
    <3>2. Others(m, i[1]) = {p \in impls[table[m]] : p[1] # i[1]}
      BY DEF Others
    <3>3. impls[table[m]] \subseteq all /\ all \subseteq OfReg(m)
      BY <1>0, <1>5, <1>8, <2>1, <3>1, <3>2
    <3>4. impls'[table[n]] = all /\ since'[table[n]] = {}
      BY <1>4, <1>8, <2>1, <3>3
    <3>5. ASSUME NEW k \in OfReg(n), k \notin all
          PROVE  Occurs(Adds(n, k), todo')
      <4>1. Pending(Adds(n, k))
        BY <1>8, <2>1, <3>3, <3>5
      <4>2. k # i
        BY <1>5, <3>5
      <4>3. Adds(n, k) # Head(todo)
        BY <1>0, <1>3, <2>1, <3>1, <4>2
      <4> QED BY <1>1, <4>1, <4>3
    <3> QED BY <2>1, <3>3, <3>4, <3>5
  <2>2. CASE n # m
    BY <1>0, <1>1, <1>3, <1>4, <1>8, <2>2
  <2> QED BY <2>1, <2>2
<1>10. (\E k \in OfReg(n) : Occurs(Adds(n, k), todo')) /\ ready = "ini" =>
          Occurs(<<"load">>, todo')
  BY <1>1, <1>3, <1>6 DEF FunctionInv
<1>11. ready = "ini" => LoadedInv(n)'
  <2>1. Pending(<<"load">>) => Pending(<<"load">>)'
    BY <1>1, <1>3, <1>7
  <2>2. ready = "ini" => LoadedInv(n)
    BY <1>6 DEF FunctionInv
  <2> QED BY <1>4, <2>1, <2>2 DEF LoadedInv
<1>12. /\ ready = "auto" /\ n \in Tested => classes[table[n]].data # NULL
       /\ ready = "ini" \/ n \notin Tested => classes[table[n]].data = NULL
       /\ (ready = "ini" \/ n \notin Tested) /\ n \notin DOMAIN List => exported[n] = Ref
  BY <1>6 DEF FunctionInv
<1> QED BY <1>2, <1>4, <1>6, <1>7, <1>8, <1>9, <1>10, <1>11, <1>12 DEF FunctionInv

\* Choosing keeps what an initialization has reached; here nothing of smaller
\* rank is pending.
LEMMA TestKeeps ==
    ASSUME RegistryInv, ExportInv, NEW ns \in SUBSET Names, Test(ns), UNCHANGED ready,
           ready \in {"auto", "ini"}, NEW n \in Range(Defs), FunctionInv(n),
           ~Pending(<<"register", n>>),
           \A call : Occurs(call, todo') => Pending(call),
           \A call : Pending(call) /\ call # <<"optimize">> => Occurs(call, todo')
    PROVE  FunctionInv(n)'
<1>1. UNCHANGED <<table, classes, impls>>
  BY TestEffect DEF vars
<1>2. n \in Names
  BY Generated
<1>3. /\ table[n] # NULL
      /\ impls[table[n]] \subseteq OfReg(n)
      /\ \A i \in OfReg(n) : i \in impls[table[n]] \/ Pending(Adds(n, i))
      /\ (\E i \in OfReg(n) : Pending(Adds(n, i))) /\ ready = "ini" =>
            Pending(<<"load">>)
      /\ ready = "auto" /\ n \in Tested =>
            classes[table[n]].data # NULL \/ Pending(<<"attach", n>>)
      /\ ready = "ini" \/ n \notin Tested => classes[table[n]].data = NULL
      /\ (ready = "ini" \/ n \notin Tested) /\ n \notin DOMAIN List => exported[n] = Ref
      /\ since[table[n]] = {}
      /\ ready = "ini" => LoadedInv(n)
  BY DEF FunctionInv
<1>4. /\ ready = "ini" \/ n \notin Tested => exported'[n] = exported[n]
      /\ since'[table[n]] = {}
  BY <1>2, <1>3, TestEffect
<1>5. /\ <<"load">> # <<"optimize">>
      /\ <<"attach", n>> # <<"optimize">>
      /\ \A i : Adds(n, i) # <<"optimize">>
  <2>1. /\ <<"load">>[1] # <<"optimize">>[1]
        /\ <<"attach", n>>[1] # <<"optimize">>[1]
        /\ \A i : Adds(n, i)[1] # <<"optimize">>[1]
    BY DEF Adds
  <2> QED BY <2>1
<1>6. /\ \A i : Occurs(Adds(n, i), todo') <=> Pending(Adds(n, i))
      /\ Occurs(<<"attach", n>>, todo') <=> Pending(<<"attach", n>>)
      /\ Occurs(<<"load">>, todo') <=> Pending(<<"load">>)
      /\ ~Occurs(<<"register", n>>, todo')
  BY <1>5
<1>7. \A call : Pending(call)' <=> Occurs(call, todo')
  BY DEF Pending
<1>8. ready = "ini" => LoadedInv(n)'
  BY <1>3, <1>4, <1>6, <1>7 DEF LoadedInv
<1> QED BY <1>1, <1>3, <1>4, <1>6, <1>7, <1>8 DEF FunctionInv

LEMMA LoadKeeps ==
    ASSUME RegistryInv, ExportInv, oil_load_ini, UNCHANGED ready,
           ready \in {"auto", "ini"}, NEW n \in Range(Defs), FunctionInv(n),
           ~Pending(<<"register", n>>), \A i : ~Pending(Adds(n, i)),
           \A call : Occurs(call, todo') => Pending(call),
           Pending(<<"attach", n>>) => Occurs(<<"attach", n>>, todo')
    PROVE  FunctionInv(n)'
<1>1. UNCHANGED <<table, classes, impls>>
  BY LoadEffect DEF vars
<1>2. n \in Names
  BY Generated
<1>3. /\ table[n] # NULL
      /\ impls[table[n]] = OfReg(n)
      /\ ready = "auto" /\ n \in Tested =>
            classes[table[n]].data # NULL \/ Pending(<<"attach", n>>)
      /\ ready = "ini" \/ n \notin Tested => classes[table[n]].data = NULL
      /\ (ready = "ini" \/ n \notin Tested) /\ n \notin DOMAIN List => exported[n] = Ref
      /\ since[table[n]] = {}
  BY DEF FunctionInv
<1>4. /\ n \notin DOMAIN List => exported'[n] = exported[n]
      /\ n \in DOMAIN List =>
            \A p \in OfReg(n) : p[1] = List[n] /\ p[2] \in Runnable => exported'[n] = p[2]
      /\ since'[table[n]] = {}
  BY <1>2, <1>3, LoadEffect
<1>5. /\ ~Occurs(<<"register", n>>, todo') /\ \A i : ~Occurs(Adds(n, i), todo')
      /\ Occurs(<<"attach", n>>, todo') <=> Pending(<<"attach", n>>)
  OBVIOUS
<1>6. \A call : Pending(call)' <=> Occurs(call, todo')
  BY DEF Pending
<1> QED BY <1>1, <1>3, <1>4, <1>5, <1>6 DEF FunctionInv, LoadedInv

LEMMA RunKeepsReady == ASSUME FuncsInv, Run PROVE ReadyInv'
<1>1. /\ todo # <<>> /\ ready \in {"auto", "ini"} /\ UNCHANGED ready
      /\ initialized = TRUE
      /\ \A n \in Range(Defs) : FunctionInv(n)
      /\ ready = "ini" => \A n \in Range(Defs) : ~Pending(<<"attach", n>>)
  BY RunPending DEF FuncsInv, ReadyInv, Run
<1>2. /\ \A call : Occurs(call, todo') => Pending(call)
      /\ \A call : Pending(call) /\ call # Head(todo) => Occurs(call, todo')
      /\ Pending(Head(todo))
  BY RunPending DEF FuncsInv
<1>3. \A call : Pending(call)' <=> Occurs(call, todo')
  BY DEF Pending
<1>4. ready = "ini" => \A n \in Range(Defs) : ~Pending(<<"attach", n>>)'
  BY <1>1, <1>2, <1>3
<1>5. ASSUME NEW m \in Range(Defs), Head(todo) = <<"register", m>>,
             NEW c \in Classes, Register(m, c)
      PROVE  initialized' = TRUE /\ \A n \in Range(Defs) : FunctionInv(n)'
  <2>1. UNCHANGED initialized
    BY <1>5, RegisterEffect, Generated DEF FuncsInv
  <2>2. \A n \in Range(Defs) : FunctionInv(n)'
    BY <1>1, <1>5, RunRegister
  <2> QED BY <1>1, <2>1, <2>2
<1>6. ASSUME NEW m \in Range(Defs), Head(todo) = <<"attach", m>>, oil_test_attach_class_full(m)
      PROVE  initialized' = TRUE /\ \A n \in Range(Defs) : FunctionInv(n)'
  <2>1. ready = "auto"
    BY <1>1, <1>2, <1>6
  <2>2. UNCHANGED initialized
    BY <1>6, AttachEffect, Generated DEF FuncsInv
  <2>3. \A n \in Range(Defs) : FunctionInv(n)'
    BY <1>1, <1>6, <2>1, RunAttach
  <2> QED BY <1>1, <2>2, <2>3
<1>7. ASSUME NEW j \in DOMAIN Regs, Head(todo) = Adds(Regs[j][1], Impl(j)),
             oil_class_add_implement(Regs[j][1], Regs[j][2], Regs[j][3])
      PROVE  initialized' = TRUE /\ \A n \in Range(Defs) : FunctionInv(n)'
  <2>1. UNCHANGED initialized
    <3>1. Regs[j][1] \in Names /\ Regs[j][2] \in Impls /\ Regs[j][3] \in Funcs
      BY Generated
    <3> QED BY <1>7, <3>1, ImplementEffect DEF FuncsInv
  <2>2. \A n \in Range(Defs) : FunctionInv(n)'
    BY <1>1, <1>7, RunImplement
  <2> QED BY <1>1, <2>1, <2>2
<1>8. ASSUME Rank(Head(todo)) = 4, NEW n
      PROVE  ~Pending(<<"register", n>>) /\ \A i : ~Pending(Adds(n, i))
  <2>1. Rank(Head(todo)) > 1 /\ Rank(Head(todo)) > 3
    BY <1>8
  <2> QED BY <2>1, RankPassed DEF FuncsInv
<1>9. ASSUME Head(todo) = <<"optimize">>, oil_test_optimize_class_all
      PROVE  initialized' = TRUE /\ \A n \in Range(Defs) : FunctionInv(n)'
  <2>1. UNCHANGED initialized
    BY <1>9, TestEffect DEF FuncsInv, vars, oil_test_optimize_class_all
  <2>2. Rank(Head(todo)) = 4
    BY <1>9 DEF Rank
  <2>3. \A n \in Range(Defs) : FunctionInv(n)'
    BY <1>1, <1>2, <1>8, <1>9, <2>2, TestKeeps DEF FuncsInv, oil_test_optimize_class_all
  <2> QED BY <1>1, <2>1, <2>3
<1>10. ASSUME Head(todo) = <<"load">>, oil_load_ini
       PROVE  initialized' = TRUE /\ \A n \in Range(Defs) : FunctionInv(n)'
  <2>1. UNCHANGED initialized
    BY <1>10, LoadEffect DEF FuncsInv, vars
  <2>2. Rank(Head(todo)) = 4
    BY <1>10 DEF Rank
  <2>3. ASSUME NEW n \in Range(Defs)
        PROVE  FunctionInv(n)'
    <3>1. <<"attach", n>> # Head(todo)
      BY <1>10, CallsDiffer
    <3> QED BY <1>1, <1>2, <1>8, <1>10, <2>2, <3>1, LoadKeeps DEF FuncsInv
  <2> QED BY <1>1, <2>1, <2>3
<1>11. initialized' = TRUE /\ \A n \in Range(Defs) : FunctionInv(n)'
  BY <1>5, <1>6, <1>7, <1>9, <1>10, RunCall DEF FuncsInv
<1> QED BY <1>1, <1>4, <1>11 DEF ReadyInv

\* An initialization begins with everything pending.
LEMMA BeginKeeps ==
    ASSUME FuncsInv, oilfuncs_init_auto \/ oilfuncs_init_from_ini
    PROVE  FuncsInv'
<1>1. ASSUME NEW with \in BOOLEAN, NEW kind, NEW program, Begin(with, kind, program)
      PROVE  /\ RegistryInv' /\ ExportInv' /\ initialized' = TRUE
             /\ todo' = program /\ ready' = kind
  <2>1. UNCHANGED <<impls, exported, since>> /\ todo' = program /\ ready' = kind
    BY <1>1 DEF Begin
  <2>2. CASE oil_class_init(with)
    <3>1. RegistryInv' /\ initialized' = TRUE
      BY <2>2, InitKeeps DEF FuncsInv, Kept, oil_class_init
    <3>2. UNCHANGED <<slot, table, classes>>
      BY <2>2 DEF oil_class_init
    <3>3. ExportInv'
      BY <2>1, <3>2 DEF FuncsInv, ExportInv, SlotHoldsRegistered, Allocated
    <3> QED BY <2>1, <3>1, <3>3
  <2>3. CASE initialized = TRUE /\ UNCHANGED vars
    <3>1. RegistryInv'
      BY <2>3, RegistryStep DEF FuncsInv, Kept
    <3>2. UNCHANGED <<initialized, slot, table, classes>>
      BY <2>3 DEF vars
    <3>3. ExportInv'
      BY <2>1, <3>2 DEF FuncsInv, ExportInv, SlotHoldsRegistered, Allocated
    <3> QED BY <2>1, <2>3, <3>1, <3>2, <3>3
  <2> QED BY <1>1, <2>2, <2>3 DEF Begin
<1>2. \A call : Pending(call)' <=> Occurs(call, todo')
  BY DEF Pending
<1>3. CASE oilfuncs_init_auto
  <2>1. /\ RegistryInv' /\ ExportInv' /\ initialized' = TRUE
        /\ todo' = InitAuto /\ ready' = "auto"
    BY <1>1, <1>3 DEF oilfuncs_init_auto
  <2>2. TodoInv'
    BY <2>1, Programs DEF TodoInv
  <2>3. \A n \in Range(Defs) : FunctionInv(n)'
    BY <1>2, <2>1, Programs DEF FunctionInv
  <2> QED BY <2>1, <2>2, <2>3 DEF FuncsInv, ReadyInv
<1>4. CASE oilfuncs_init_from_ini
  <2>1. /\ RegistryInv' /\ ExportInv' /\ initialized' = TRUE
        /\ todo' = InitFromIni /\ ready' = "ini"
    BY <1>1, <1>4 DEF oilfuncs_init_from_ini
  <2>2. TodoInv'
    BY <2>1, Programs DEF TodoInv
  <2>3. \A n \in Range(Defs) : FunctionInv(n)'
    BY <1>2, <2>1, Programs DEF FunctionInv
  <2>4. \A n \in Range(Defs) : ~Pending(<<"attach", n>>)'
    BY <1>2, <2>1, Programs
  <2> QED BY <2>1, <2>2, <2>3, <2>4 DEF FuncsInv, ReadyInv
<1> QED BY <1>3, <1>4

LEMMA ClientKeeps == ASSUME FuncsInv, Client PROVE FuncsInv'
<1>1. todo = <<>> /\ UNCHANGED todo
  BY DEF Client
<1>2. \A call : ~Pending(call) /\ ~Occurs(call, todo')
  BY <1>1 DEF Pending, Occurs
<1>3. \A call : ~Pending(call)'
  BY <1>2 DEF Pending
<1>4. ASSUME ChangeRegistry PROVE FuncsInv'
  <2>1. RegistryInv' /\ ExportInv' /\ ready' = "none"
    BY <1>4, ChangeEffect DEF ChangeRegistry, FuncsInv
  <2>2. TodoInv'
    BY <1>1 DEF FuncsInv, TodoInv
  <2> QED BY <2>1, <2>2 DEF FuncsInv, ReadyInv
<1>5. ASSUME Choose PROVE FuncsInv'
  <2>0. (\E ns \in SUBSET Names : Test(ns)) \/ oil_load_ini
    BY <1>5 DEF Choose, oil_test_optimize_class, oil_test_optimize_class_all
  <2>1. RegistryInv' /\ ExportInv' /\ UNCHANGED initialized
    BY <2>0, TestEffect, LoadEffect DEF FuncsInv, vars
  <2>2. UNCHANGED ready
    BY <1>5 DEF Choose
  <2>3. TodoInv'
    BY <1>1, <2>2 DEF FuncsInv, TodoInv
  <2>4. ASSUME ready # "none", NEW n \in Range(Defs)
        PROVE  FunctionInv(n)'
    <3>1. ready \in {"auto", "ini"} /\ FunctionInv(n)
      BY <2>4 DEF FuncsInv, ReadyInv
    <3>2. ASSUME NEW ns \in SUBSET Names, Test(ns)
          PROVE  FunctionInv(n)'
      BY <1>2, <2>2, <3>1, <3>2, TestKeeps DEF FuncsInv
    <3>3. CASE oil_load_ini
      BY <1>2, <2>2, <3>1, <3>3, LoadKeeps DEF FuncsInv
    <3> QED BY <2>0, <3>2, <3>3
  <2> QED BY <1>3, <2>1, <2>2, <2>3, <2>4 DEF FuncsInv, ReadyInv
<1> QED BY <1>4, <1>5 DEF Client

LEMMA FuncsStart == FuncsInit => FuncsInv
<1> SUFFICES ASSUME FuncsInit PROVE FuncsInv
  OBVIOUS
<1>1. RegistryInv
  BY RegistryInit DEF FuncsInit
<1>2. ExportInv
  BY DEF FuncsInit, Init, Table!Init, ExportInv, SlotHoldsRegistered, OneOfAName
<1>3. TodoInv
  BY DEF FuncsInit, TodoInv, Ordered
<1>4. ReadyInv
  BY DEF FuncsInit, ReadyInv
<1> QED BY <1>1, <1>2, <1>3, <1>4 DEF FuncsInv

LEMMA FuncsStep == ASSUME FuncsInv, [FuncsNext]_<<vars, funcsVars>> PROVE FuncsInv'
<1>1. CASE Run
  BY <1>1, RunPending, RunKeepsExport, RunKeepsReady DEF FuncsInv
<1>2. CASE Client
  BY <1>2, ClientKeeps
<1>3. CASE oilfuncs_init_auto \/ oilfuncs_init_from_ini
  BY <1>3, BeginKeeps
<1>4. CASE UNCHANGED <<vars, funcsVars>>
  <2>1. RegistryInv'
    BY <1>4, RegistryStep DEF FuncsInv, Kept
  <2>2. UNCHANGED <<initialized, table, classes, slot, todo, impls, exported, since, ready>>
    BY <1>4 DEF vars, funcsVars
  <2>3. ExportInv' /\ TodoInv'
    BY <2>2 DEF FuncsInv, ExportInv, SlotHoldsRegistered, Allocated, TodoInv
  <2>4. ReadyInv'
    BY <2>2 DEF FuncsInv, ReadyInv, FunctionInv, LoadedInv, Pending
  <2> QED BY <2>1, <2>3, <2>4 DEF FuncsInv
<1> QED BY <1>1, <1>2, <1>3, <1>4 DEF FuncsNext

-----------------------------------------------------------------------------
(* Theorems *)

\* The inductive invariant holds in every state of every program that uses
\* oilfuncs.
THEOREM FuncsInvariance == FuncsSpec => []FuncsInv
<1>1. FuncsInv /\ [FuncsNext]_<<vars, funcsVars>> => FuncsInv'
  BY FuncsStep
<1> QED BY <1>1, FuncsStart, PTL DEF FuncsSpec

\* The calls an initialization has still to make are made of names, implements and
\* functions; only live classes have implements, and one of a name.
THEOREM FuncsTypes == FuncsSpec => []FuncsTypeOK
<1> DEFINE Word == {"register", "attach", "implement", "optimize", "load"}
                       \cup Names \cup Impls \cup Funcs
<1>1. Calls \subseteq Seq(Word)
  <2>1. ASSUME NEW n \in Range(Defs) PROVE <<"register", n>> \in Seq(Word) /\ <<"attach", n>> \in Seq(Word)
    <3>1. {"register", "attach", n} \subseteq Word
      BY Generated
    <3> HIDE DEF Word
    <3> QED BY <3>1
  <2>2. ASSUME NEW j \in DOMAIN Regs PROVE Adds(Regs[j][1], Impl(j)) \in Seq(Word)
    <3>1. {"implement", Regs[j][1], Impl(j)[1], Impl(j)[2]} \subseteq Word
      <4>1. Impl(j)[1] \in Impls /\ Impl(j)[2] \in Funcs /\ Regs[j][1] \in Names
        BY Generated
      <4> QED BY <4>1
    <3> HIDE DEF Word
    <3> QED BY <3>1 DEF Adds
  <2>3. <<"optimize">> \in Seq(Word) /\ <<"load">> \in Seq(Word)
    <3>1. {"optimize", "load"} \subseteq Word
      OBVIOUS
    <3> HIDE DEF Word
    <3> QED BY <3>1
  <2> QED BY <2>1, <2>2, <2>3 DEF Calls
<1>2. todo \in Seq(Calls) => todo \in Seq(Seq(Word))
  <2> HIDE DEF Word
  <2> QED BY <1>1
<1>3. FuncsInv => FuncsTypeOK
  <2> SUFFICES ASSUME FuncsInv PROVE FuncsTypeOK
    OBVIOUS
  <2>1. todo \in Seq(Seq(Word)) /\ ready \in {"none", "auto", "ini"}
    BY <1>2 DEF FuncsInv, TodoInv, ReadyInv
  <2> QED BY <2>1 DEF FuncsInv, FuncsTypeOK, RegistryInv, ExportInv, OneOfAName
<1> QED BY <1>3, FuncsInvariance, PTL

\* Callers reach the class that was registered last under a name: its reference, or a
\* function the CPU can run unless the client itself activated one, which is that
\* of one of its implements unless the client removed or replaced some since.
THEOREM CallersReachRegistered == FuncsSpec => []SlotHoldsRegistered
<1>1. FuncsInv => SlotHoldsRegistered
  BY DEF FuncsInv, ExportInv
<1> QED BY <1>1, FuncsInvariance, PTL

\* After an initialization, whatever came before it, each function of oilfuncs
\* is registered, has its implements, and is at what was tested or listed.
THEOREM FunctionsAreReady == FuncsSpec => []FuncsReady
<1>1. FuncsInv => FuncsReady
  <2> SUFFICES ASSUME FuncsInv, todo = <<>>, ready # "none", NEW n \in Range(Defs)
               PROVE  /\ table[n] # NULL
                      /\ impls[table[n]] = OfReg(n)
                      /\ \/ exported[n] = Ref
                         \/ \E p \in OfReg(n) : p[2] = exported[n] /\ p[2] \in Runnable
                      /\ ready = "auto" /\ n \in Tested => classes[table[n]].data # NULL
                      /\ (ready = "ini" \/ n \notin Tested) /\ n \notin DOMAIN List =>
                            exported[n] = Ref
                      /\ ready = "ini" /\ n \in DOMAIN List =>
                            \A p \in OfReg(n) :
                               p[1] = List[n] /\ p[2] \in Runnable => exported[n] = p[2]
    BY DEF FuncsReady
  <2>1. \A call : ~Pending(call)
    BY DEF Pending, Occurs
  <2>2. FunctionInv(n)
    BY DEF FuncsInv, ReadyInv
  <2>3. /\ table[n] # NULL /\ impls[table[n]] = OfReg(n) /\ since[table[n]] = {}
        /\ ready = "ini" => LoadedInv(n)
    BY <2>1, <2>2 DEF FunctionInv
  <2>4. /\ exported[n] \in {Ref} \cup Runnable
        /\ exported[n] # Ref => \E p \in OfReg(n) : p[2] = exported[n]
    <3>1. n \in Names
      BY Generated
    <3> QED BY <2>3, <3>1 DEF FuncsInv, ExportInv, SlotHoldsRegistered
  <2> QED BY <2>1, <2>2, <2>3, <2>4 DEF FunctionInv, LoadedInv
<1> QED BY <1>1, FuncsInvariance, PTL

\* A program that uses oilfuncs takes only steps that the registry allows: the
\* initializations and the calls of a client are behaviours of OilRegistry.
THEOREM FuncsUseRegistry == FuncsSpec => Spec
<1>1. ASSUME FuncsInv, [FuncsNext]_<<vars, funcsVars>>
      PROVE  [Next]_vars
  <2>1. ASSUME NEW n \in Names, NEW c \in Classes, Register(n, c)
        PROVE  Next
    BY <2>1 DEF Register, Next
  <2>2. ASSUME NEW n \in Names, oil_test_attach_class_full(n)
        PROVE  [Next]_vars
    <3>1. CASE UNCHANGED vars
      BY <3>1
    <3>2. ASSUME NEW d \in Data, oil_class_add_data(table[n], d), table[n] # NULL
          PROVE  Next
      <4>1. table[n] \in Classes
        <5>1. table[n] \in Classes \cup {NULL}
          BY <1>1 DEF FuncsInv, RegistryInv, TypeOK
        <5> QED BY <3>2, <5>1
      <4> QED BY <3>2, <4>1 DEF Next
    <3> QED BY <2>2, <3>1, <3>2 DEF oil_test_attach_class_full
  <2>3. ASSUME \/ \E n, i, f : oil_class_add_implement(n, i, f)
               \/ \E n, i : oil_class_remove_implement(n, i)
               \/ \E n : oil_class_clear_implements(n)
               \/ \E n, i : oil_class_activate_implement(n, i)
               \/ \E n : ActivateReference(n)
               \/ \E ns : Test(ns)
               \/ oil_load_ini
               \/ UNCHANGED <<vars, funcsVars>>
        PROVE  UNCHANGED vars
    BY <2>3 DEF oil_class_add_implement, oil_class_remove_implement, SetImpls,
                oil_class_clear_implements, oil_class_activate_implement,
                ActivateReference, Test, oil_load_ini
  <2>4. CASE Run
    BY <1>1, <2>1, <2>2, <2>3, <2>4, RunCall, Generated DEF FuncsInv, oil_test_optimize_class_all
  <2>5. CASE oilfuncs_init_auto \/ oilfuncs_init_from_ini
    BY <2>5 DEF oilfuncs_init_auto, oilfuncs_init_from_ini, Begin, Next
  <2>6. CASE ChangeRegistry
    BY <2>1, <2>2, <2>3, <2>6 DEF ChangeRegistry, Next
  <2>7. CASE Choose
    BY <2>3, <2>7 DEF Choose, oil_test_optimize_class, oil_test_optimize_class_all
  <2> QED BY <1>1, <2>3, <2>4, <2>5, <2>6, <2>7 DEF FuncsNext, Client
<1>2. FuncsInit => Init
  BY DEF FuncsInit
<1>3. FuncsInv /\ [FuncsNext]_<<vars, funcsVars>> => [Next]_vars
  BY <1>1
<1> QED BY <1>2, <1>3, FuncsInvariance, PTL DEF FuncsSpec, Spec

\* So the classes, key strings and attachments of such a program are as safe as
\* those of the registry alone, and none of its attachments is lost.
THEOREM FuncsKeepAttachments ==
    FuncsSpec => [](RegisteredIsAlive /\ KeysAreAlive /\ DestroyedOnce) /\ NoLostData
  BY FuncsUseRegistry, ClassesStayAlive, KeysStayAlive, AttachmentsDieOnce,
     AttachmentsAreDestroyed, PTL
=============================================================================
