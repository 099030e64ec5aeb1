------------------------ MODULE OilImplements_proofs ------------------------
(***************************************************************************)
(* Theorems about the implements of a class, for every set of names,       *)
(* functions and flags.                                                     *)
(***************************************************************************)
EXTENDS OilImplements, FiniteSetTheorems, TLAPS

USE OilImplementsAssumption

\* The inductive invariant: the five invariants need one another.  Accounting
\* is kept by an append only because there is no hole; UniqueNames and
\* NamesOwned speak of cells that NoUninitRead says are implements.
IInv == TypeOK /\ Accounting /\ NoUninitRead /\ UniqueNames /\ NamesOwned

-----------------------------------------------------------------------------
(* Lemmas about the helpers *)

\* OIL_ROOF rounds up, by less than a chunk.
LEMMA RoofBounds ==
    \A n \in Nat : OIL_ROOF(n) \in Nat /\ n <= OIL_ROOF(n) /\ OIL_ROOF(n) < n + 3
BY DEF OIL_ROOF, OIL_IMPL_EXTEND_CHUNK

\* OIL_ROOF of one more is the same length or one chunk more.
LEMMA RoofGrows ==
    \A n \in Nat : OIL_ROOF(n) <= OIL_ROOF(n + 1)
BY DEF OIL_ROOF, OIL_IMPL_EXTEND_CHUNK

LEMMA RoofZero == OIL_ROOF(0) = 0
BY DEF OIL_ROOF, OIL_IMPL_EXTEND_CHUNK

\* The held cells are finitely many, at most as many as cells are occupied.
LEMMA HeldFinite ==
    ASSUME NEW cells, NEW n \in Nat
    PROVE  /\ IsFiniteSet(Held(cells, n))
           /\ Cardinality(Held(cells, n)) \in Nat
           /\ Cardinality(Held(cells, n)) <= n
<1>1. /\ IsFiniteSet(0..(n - 1))
      /\ Cardinality(0..(n - 1)) = n
  BY FS_Interval
<1>2. Held(cells, n) \subseteq 0..(n - 1)
  BY DEF Held
<1> QED BY <1>1, <1>2, FS_Subset, FS_CardinalityType

\* Held and Holes partition the occupied cells.
LEMMA NoHolesAllHeld ==
    ASSUME NEW cells, NEW n \in Nat, Holes(cells, n) = {}
    PROVE  Held(cells, n) = 0..(n - 1) /\ Cardinality(Held(cells, n)) = n
<1>1. Held(cells, n) = 0..(n - 1)
  BY DEF Held, Holes
<1> QED BY <1>1, FS_Interval

\* A vacuum leaves no hole and loses no implement.
LEMMA SqueezeHeld ==
    ASSUME NEW cells, NEW n \in Nat, NEW m \in Nat, NEW len \in Nat, m <= len,
           NEW f \in Squeezes(cells, n, m)
    PROVE  /\ Held(Squeezed(cells, f, m, len), m) = 0..(m - 1)
           /\ Cardinality(Held(Squeezed(cells, f, m, len), m)) = m
<1> DEFINE new == Squeezed(cells, f, m, len)
<1>1. \A k \in 0..(m - 1) : f[k] \in Held(cells, n) /\ new[k] = cells[f[k]]
  BY DEF Squeezes, Squeezed
<1>2. \A k \in 0..(m - 1) : new[k].name # NULL
  BY <1>1 DEF Held
<1>3. Held(new, m) = 0..(m - 1)
  BY <1>2 DEF Held
<1> QED BY <1>3, FS_Interval

\* Under the invariant a lookup finds the only cell with the name, if any.
LEMMA FindUnique ==
    ASSUME TypeOK, NoUninitRead, UniqueNames, NEW name, NEW i \in Held(impls, n_occupied),
           impls[i].name = name
    PROVE  Find(name) = {i}
<1>1. \A j \in Held(impls, n_occupied) : j \in Int
  BY DEF Held, TypeOK
<1>2. \A j \in Held(impls, n_occupied) : impls[j].name = name => j = i
  BY DEF UniqueNames
<1>3. \A j \in Held(impls, n_occupied) : j < i => impls[j].name # name
  BY <1>1, <1>2
<1> QED BY <1>2, <1>3 DEF Find

\* A held cell is an implement.
LEMMA HeldTyped ==
    ASSUME IInv, NEW i \in Held(impls, n_occupied)
    PROVE  impls[i] \in OilImplement
<1>1. n_occupied \in Nat /\ n_alloc \in Nat /\ n_occupied <= n_alloc
  BY DEF IInv, TypeOK, Accounting
<1>2. i \in 0..(n_occupied - 1) /\ i \in 0..(n_alloc - 1)
  BY <1>1 DEF Held
<1> QED BY <1>2 DEF IInv, TypeOK, NoUninitRead

\* What a lookup finds is held and has the name.
LEMMA FoundIsHeld ==
    ASSUME NEW name, NEW i \in Find(name)
    PROVE  i \in Held(impls, n_occupied) /\ impls[i].name = name /\ i \in 0..(n_occupied - 1)
BY DEF Find, Held

-----------------------------------------------------------------------------
(* The inductive step, one lemma per operation *)

LEMMA InitIInv == Init => IInv
<1> SUFFICES ASSUME Init PROVE IInv
  OBVIOUS
<1>1. Held(impls, n_occupied) = {}
  BY DEF Init, Held
<1>2. Cardinality(Held(impls, n_occupied)) = 0
  BY <1>1, FS_EmptySet
<1>3. TypeOK
  <2>1. impls \in [0..(n_alloc - 1) -> OilImplement \cup {Uninit}]
    <3>1. 0..(n_alloc - 1) = {}
      BY DEF Init
    <3> QED BY <3>1 DEF Init
  <2>2. aborted \in BOOLEAN
    BY DEF Init
  <2>3. /\ n_occupied \in Nat /\ n_alloc \in Nat /\ n_impls \in Nat /\ n_strings \in Int
        /\ active_impl \in {NULL} /\ slot \in {Ref}
    BY DEF Init
  <2> QED BY <2>1, <2>2, <2>3, Zenon DEF TypeOK
<1>4. Accounting /\ NamesOwned
  BY <1>2, RoofZero DEF Init, Accounting, NamesOwned
<1>5. NoUninitRead /\ UniqueNames
  BY <1>1 DEF Init, NoUninitRead, UniqueNames
<1> QED BY <1>3, <1>4, <1>5 DEF IInv

LEMMA ReplaceIInv ==
    ASSUME IInv, NEW name \in Names, NEW func \in Funcs, NEW flags \in Flags,
           ReplaceImplement(name, func, flags)
    PROVE  IInv'
<1> DEFINE cell == [name |-> name, impl |-> func, flags |-> flags]
<1>1. PICK i \in Find(name) : impls' = [impls EXCEPT ![i] = cell]
  BY DEF ReplaceImplement
<1>2. UNCHANGED <<n_occupied, n_alloc, n_impls, active_impl, slot, n_strings, aborted>>
  BY DEF ReplaceImplement
<1>3. i \in Held(impls, n_occupied) /\ impls[i].name = name /\ i \in 0..(n_occupied - 1)
  BY FoundIsHeld
<1>4. cell \in OilImplement /\ cell # Uninit /\ cell.name # NULL /\ cell.name = name
  BY DEF OilImplement
<1>5. i \in 0..(n_alloc - 1) /\ n_occupied <= n_alloc
  BY <1>3 DEF IInv, TypeOK, Accounting
<1>6. \A k \in 0..(n_occupied - 1) : impls'[k] = IF k = i THEN cell ELSE impls[k]
  BY <1>1, <1>5 DEF IInv, TypeOK
<1>7. \A k \in 0..(n_occupied - 1) : impls'[k].name = impls[k].name
  BY <1>3, <1>4, <1>6
<1>8. Held(impls, n_occupied)' = Held(impls, n_occupied)
  BY <1>2, <1>7 DEF Held
<1>9. TypeOK'
  BY <1>1, <1>2, <1>4 DEF IInv, TypeOK
<1>10. Accounting' /\ NamesOwned'
  BY <1>2, <1>8 DEF IInv, Accounting, NamesOwned
<1>11. NoUninitRead'
  BY <1>2, <1>4, <1>6, <1>9, <1>10 DEF IInv, NoUninitRead, TypeOK, Accounting
<1>12. UniqueNames'
  BY <1>7, <1>8 DEF IInv, UniqueNames, Held
<1> QED BY <1>9, <1>10, <1>11, <1>12 DEF IInv

LEMMA FillIInv ==
    ASSUME IInv, NEW name \in Names, NEW func \in Funcs, NEW flags \in Flags,
           FillHole(name, func, flags)
    PROVE  IInv'
<1> DEFINE cell == [name |-> name, impl |-> func, flags |-> flags]
<1> DEFINE held == Held(impls, n_occupied)
<1>1. PICK i \in Holes(impls, n_occupied) : impls' = [impls EXCEPT ![i] = cell]
  BY DEF FillHole
<1>2. /\ n_impls' = n_impls + 1
      /\ n_strings' = n_strings + 1
      /\ UNCHANGED <<n_occupied, n_alloc, active_impl, slot, aborted>>
  BY DEF FillHole
<1>3. i \in 0..(n_occupied - 1) /\ i \notin held
  BY DEF Holes, Held
<1>4. cell \in OilImplement /\ cell # Uninit /\ cell.name # NULL /\ cell.name = name
  BY DEF OilImplement
<1>5. i \in 0..(n_alloc - 1) /\ n_occupied <= n_alloc
  BY <1>3 DEF IInv, TypeOK, Accounting
<1>6. \A k \in 0..(n_occupied - 1) : impls'[k] = IF k = i THEN cell ELSE impls[k]
  BY <1>1, <1>5 DEF IInv, TypeOK
<1>7. held' = held \cup {i}
  BY <1>2, <1>3, <1>4, <1>6 DEF Held
<1>8. /\ IsFiniteSet(held')
      /\ Cardinality(held') = Cardinality(held) + 1
      /\ Cardinality(held') <= n_occupied
  <2>1. Cardinality(held \cup {i}) = Cardinality(held) + 1
    BY <1>3, HeldFinite, FS_AddElement DEF IInv, TypeOK
  <2>2. n_occupied' = n_occupied /\ n_occupied \in Nat
    BY <1>2 DEF IInv, TypeOK
  <2> QED BY <1>7, <2>1, <2>2, HeldFinite
<1>9. TypeOK'
  <2>1. impls' \in [0..(n_alloc - 1) -> OilImplement \cup {Uninit}]
    BY <1>1, <1>4, <1>5 DEF IInv, TypeOK
  <2>2. n_impls' \in Nat /\ n_strings' \in Int
    BY <1>2 DEF IInv, TypeOK
  <2> QED BY <1>2, <2>1, <2>2 DEF IInv, TypeOK
<1>10. n_alloc = OIL_ROOF(n_impls + 1)
  <2>1. n_impls + 1 <= n_alloc /\ n_alloc = OIL_ROOF(n_impls) /\ n_impls \in Nat
    BY <1>2, <1>5, <1>8 DEF IInv, TypeOK, Accounting
  <2> QED BY <2>1 DEF OIL_ROOF, OIL_IMPL_EXTEND_CHUNK
<1>11. Accounting' /\ NamesOwned'
  BY <1>2, <1>8, <1>10 DEF IInv, TypeOK, Accounting, NamesOwned
<1>12. NoUninitRead'
  BY <1>2, <1>4, <1>6, <1>9, <1>11 DEF IInv, NoUninitRead, TypeOK, Accounting
<1>13. \A k \in held : impls[k].name # name
  BY FindUnique DEF FillHole, IInv
<1>14. UniqueNames'
  BY <1>2, <1>3, <1>4, <1>6, <1>7, <1>13 DEF IInv, UniqueNames, Held
<1> QED BY <1>9, <1>11, <1>12, <1>14 DEF IInv

LEMMA AppendIInv ==
    ASSUME IInv, NEW name \in Names, NEW func \in Funcs, NEW flags \in Flags,
           AppendImplement(name, func, flags)
    PROVE  IInv'
<1> DEFINE cell == [name |-> name, impl |-> func, flags |-> flags]
<1> DEFINE len == OIL_ROOF(n_impls + 1)
<1>1. /\ impls' = Extended(len, name, func, flags)
      /\ n_alloc' = len
      /\ n_impls' = n_impls + 1
      /\ n_occupied' = n_occupied + 1
      /\ n_strings' = n_strings + 1
      /\ UNCHANGED <<slot, aborted>>
  BY DEF AppendImplement
<1>2. /\ Held(impls, n_occupied) = 0..(n_occupied - 1)
      /\ n_impls = n_occupied
  BY NoHolesAllHeld DEF AppendImplement, IInv, TypeOK, Accounting
<1>3. cell \in OilImplement /\ cell # Uninit /\ cell.name # NULL /\ cell.name = name
  BY DEF OilImplement
<1>4. /\ len \in Nat /\ n_impls + 1 <= len /\ OIL_ROOF(n_impls) <= len
      /\ n_alloc <= len /\ n_occupied \in Nat /\ n_occupied <= n_alloc /\ n_alloc \in Nat
  <2>1. n_impls \in Nat /\ n_impls + 1 \in Nat /\ n_occupied \in Nat /\ n_alloc \in Nat
    BY DEF IInv, TypeOK
  <2>2. n_alloc = OIL_ROOF(n_impls) /\ n_occupied <= n_alloc
    BY DEF IInv, Accounting
  <2> QED BY <2>1, <2>2, RoofBounds, RoofGrows
<1>5. \A k \in 0..n_occupied : impls'[k] = IF k = n_occupied THEN cell ELSE impls[k]
  BY <1>1, <1>2, <1>4 DEF Extended
<1>6. Held(impls, n_occupied)' = 0..n_occupied
  BY <1>1, <1>2, <1>3, <1>4, <1>5 DEF Held
<1>7. Cardinality(Held(impls, n_occupied)') = n_occupied + 1
  BY <1>4, <1>6, FS_Interval
<1>8. active_impl' \in (0..(len - 1)) \cup {NULL, Dangling}
  BY <1>4 DEF AppendImplement, AfterRealloc, IInv, TypeOK
<1>9. impls' \in [0..(len - 1) -> OilImplement \cup {Uninit}]
  BY <1>1, <1>2, <1>3, <1>4 DEF Extended, IInv, TypeOK
<1>10. TypeOK'
  BY <1>1, <1>4, <1>8, <1>9 DEF IInv, TypeOK
<1>11. Accounting' /\ NamesOwned'
  BY <1>1, <1>2, <1>4, <1>7 DEF IInv, Accounting, NamesOwned
<1>12. NoUninitRead'
  <2>1. SUFFICES ASSUME NEW k \in 0..n_occupied
                 PROVE  k \in DOMAIN impls' /\ impls'[k] # Uninit
    BY <1>1, <1>4 DEF NoUninitRead
  <2>2. DOMAIN impls' = 0..(len - 1)
    BY <1>1 DEF Extended
  <2>3. k \in 0..(len - 1)
    BY <1>2, <1>4
  <2>4. k # n_occupied => impls[k] # Uninit
    <3>1. k # n_occupied => k \in 0..(n_occupied - 1)
      BY <1>4
    <3> QED BY <3>1 DEF IInv, NoUninitRead
  <2>5. impls'[k] # Uninit
    BY <1>3, <1>5, <2>4
  <2> QED BY <2>2, <2>3, <2>5
<1>13. \A k \in Held(impls, n_occupied) : impls[k].name # name
  BY FindUnique DEF AppendImplement, IInv
<1>14. UniqueNames'
  BY <1>2, <1>3, <1>4, <1>5, <1>6, <1>13 DEF IInv, UniqueNames
<1> QED BY <1>10, <1>11, <1>12, <1>14 DEF IInv

\* What removing leaves before the resize: one held cell less, the same cells
\* otherwise.
LEMMA ErasedCells ==
    ASSUME IInv, NEW name \in Names, NEW i \in Find(name)
    PROVE  /\ Erased(i) \in [0..(n_alloc - 1) -> OilImplement \cup {Uninit}]
           /\ i \in Held(impls, n_occupied) /\ impls[i].name = name
           /\ Held(Erased(i), n_occupied) = Held(impls, n_occupied) \ {i}
           /\ Cardinality(Held(Erased(i), n_occupied)) = n_impls - 1
           /\ n_impls - 1 \in Nat
           /\ \A k \in 0..(n_occupied - 1) : Erased(i)[k] # Uninit
           /\ \A k \in Held(Erased(i), n_occupied) : Erased(i)[k] = impls[k]
<1> DEFINE cells == Erased(i)
<1> DEFINE held == Held(impls, n_occupied)
<1>1. i \in held /\ impls[i].name = name /\ i \in 0..(n_occupied - 1)
  BY FoundIsHeld
<1>2. n_occupied \in Nat /\ n_alloc \in Nat /\ n_impls \in Nat /\ n_occupied <= n_alloc
  BY DEF IInv, TypeOK, Accounting
<1>3. /\ i \in 0..(n_alloc - 1)
      /\ \A k \in 0..(n_occupied - 1) : k \in 0..(n_alloc - 1)
  BY <1>1, <1>2
<1>4. /\ impls \in [0..(n_alloc - 1) -> OilImplement \cup {Uninit}]
      /\ \A k \in 0..(n_occupied - 1) : impls[k] \in OilImplement
  BY <1>3 DEF IInv, TypeOK, NoUninitRead
<1>5. /\ cells[i] = [impls[i] EXCEPT !.name = NULL]
      /\ \A k \in 0..(n_alloc - 1) : k # i => cells[k] = impls[k]
      /\ cells = [impls EXCEPT ![i] = [impls[i] EXCEPT !.name = NULL]]
  BY <1>3, <1>4 DEF Erased
<1>6. [impls[i] EXCEPT !.name = NULL] \in OilImplement
  BY <1>1, <1>4 DEF OilImplement
<1>7. cells[i].name = NULL /\ cells[i] # Uninit
  <2>1. cells[i] \in OilImplement
    BY <1>5, <1>6
  <2>2. cells[i].name = NULL
    BY <1>1, <1>4, <1>5 DEF OilImplement
  <2> QED BY <2>1, <2>2 DEF OilImplement
<1>8. cells \in [0..(n_alloc - 1) -> OilImplement \cup {Uninit}]
  BY <1>3, <1>4, <1>5, <1>6
<1>9. Held(cells, n_occupied) = held \ {i}
  BY <1>3, <1>5, <1>7 DEF Held
<1>10. Cardinality(held \ {i}) = n_impls - 1 /\ n_impls - 1 \in Nat
  <2>1. IsFiniteSet(held) /\ Cardinality(held) = n_impls
    BY <1>2, HeldFinite DEF IInv, Accounting
  <2>2. IsFiniteSet(held \ {i}) /\ Cardinality(held \ {i}) = Cardinality(held) - 1
    BY <1>1, <2>1, FS_RemoveElement
  <2>3. Cardinality(held \ {i}) \in Nat
    BY <2>2, FS_CardinalityType
  <2> QED BY <2>1, <2>2, <2>3
<1>11. \A k \in 0..(n_occupied - 1) : cells[k] # Uninit
  BY <1>3, <1>5, <1>7 DEF IInv, NoUninitRead
<1>12. \A k \in Held(cells, n_occupied) : cells[k] = impls[k]
  BY <1>3, <1>5, <1>9 DEF Held
<1> QED BY <1>1, <1>8, <1>9, <1>10, <1>11, <1>12

LEMMA RemoveIInv ==
    ASSUME IInv, NEW name \in Names, oil_class_remove_implement(name)
    PROVE  IInv'
<1>1. PICK i \in Find(name) :
        /\ n_impls' = n_impls - 1
        /\ n_strings' = n_strings - 1
        /\ Resize(Erased(i), n_impls - 1, OIL_ROOF(n_impls - 1))
        /\ UNCHANGED slot
  BY DEF oil_class_remove_implement
<1> DEFINE cells == Erased(i)
           m == n_impls - 1
           len == OIL_ROOF(m)
<1> HIDE DEF len
<1>2. /\ cells \in [0..(n_alloc - 1) -> OilImplement \cup {Uninit}]
      /\ Held(cells, n_occupied) = Held(impls, n_occupied) \ {i}
      /\ Cardinality(Held(cells, n_occupied)) = m
      /\ m \in Nat
      /\ \A k \in 0..(n_occupied - 1) : cells[k] # Uninit
      /\ \A k \in Held(cells, n_occupied) : cells[k] = impls[k]
  BY ErasedCells
<1>3. /\ n_impls' = m /\ m \in Nat /\ n_strings' = n_strings - 1
      /\ Resize(cells, m, len) /\ UNCHANGED slot
  BY <1>1, <1>2 DEF len
<1>4. /\ len \in Nat /\ m <= len /\ len = OIL_ROOF(m)
      /\ n_occupied \in Nat /\ n_alloc \in Nat /\ n_impls \in Nat /\ n_occupied <= n_alloc
  BY <1>2, RoofBounds DEF len, IInv, TypeOK, Accounting
<1>5. /\ n_strings' \in Int
      /\ n_strings' = m
  BY <1>3, <1>4 DEF IInv, Accounting, NamesOwned
<1>6. \A j, k \in Held(cells, n_occupied) : cells[j].name = cells[k].name => j = k
  BY <1>2 DEF IInv, UniqueNames
<1>7. CASE len = n_alloc
  <2>1. impls' = cells /\ UNCHANGED <<n_occupied, n_alloc, active_impl, aborted>>
    BY <1>3, <1>7 DEF Resize
  <2>2. TypeOK'
    BY <1>2, <1>3, <1>5, <2>1 DEF IInv, TypeOK
  <2>3. Held(impls, n_occupied)' = Held(cells, n_occupied)
    BY <2>1 DEF Held
  <2>4. m <= n_occupied
    <3>1. Cardinality(Held(cells, n_occupied)) <= n_occupied
      BY <1>4, HeldFinite
    <3> QED BY <1>2, <3>1
  <2>5. Accounting' /\ NamesOwned'
    BY <1>2, <1>3, <1>4, <1>5, <1>7, <2>1, <2>3, <2>4 DEF Accounting, NamesOwned
  <2>6. NoUninitRead' /\ UniqueNames'
    BY <1>2, <1>6, <2>1, <2>2, <2>3, <2>5 DEF NoUninitRead, UniqueNames, TypeOK, Accounting
  <2> QED BY <2>2, <2>5, <2>6 DEF IInv
<1>8. CASE len # n_alloc
  <2>1. PICK f \in Squeezes(cells, n_occupied, m) :
          impls' = Squeezed(cells, f, m, len)
    BY <1>3, <1>8 DEF Resize
  <2>2. /\ n_occupied' = m
        /\ n_alloc' = len
        /\ active_impl' \in AfterRealloc(len)
        /\ aborted' \in (IF len = 0 THEN BOOLEAN ELSE {FALSE})
    BY <1>3, <1>8 DEF Resize
  <2>3. \A k \in 0..(m - 1) : f[k] \in Held(cells, n_occupied) /\ impls'[k] = cells[f[k]]
    BY <1>4, <2>1 DEF Squeezes, Squeezed
  <2>4. Held(impls, n_occupied)' = 0..(m - 1) /\ Cardinality(Held(impls, n_occupied)') = m
    <3>1. Held(impls', m) = 0..(m - 1) /\ Cardinality(Held(impls', m)) = m
      BY <1>2, <1>4, <2>1, SqueezeHeld
    <3> QED BY <2>2, <3>1 DEF Held
  <2>5. impls' \in [0..(len - 1) -> OilImplement \cup {Uninit}]
    <3>1. \A k \in 0..(m - 1) : cells[f[k]] \in OilImplement
      BY <1>2, <1>4, <2>3 DEF Held
    <3> QED BY <1>4, <2>1, <3>1 DEF Squeezed
  <2>6. active_impl' \in (0..(len - 1)) \cup {NULL, Dangling}
    BY <2>2 DEF AfterRealloc
  <2>7. aborted' \in BOOLEAN
    BY <2>2
  <2>8. slot' \in Funcs \cup {Ref}
    BY <1>3 DEF IInv, TypeOK
  <2>9. TypeOK'
    BY <1>3, <1>4, <1>5, <2>2, <2>5, <2>6, <2>7, <2>8, Zenon DEF TypeOK
  <2>10. Accounting' /\ NamesOwned'
    BY <1>3, <1>4, <1>5, <2>2, <2>4 DEF Accounting, NamesOwned
  <2>11. NoUninitRead'
    BY <1>2, <2>2, <2>3, <2>9, <2>10 DEF Held, NoUninitRead, TypeOK, Accounting
  <2>12. \A j, k \in 0..(m - 1) : f[j] = f[k] => j = k
    <3>1. \A j, k \in 0..(m - 1) : j < k => f[j] < f[k]
      BY DEF Squeezes
    <3>2. \A j \in 0..(m - 1) : f[j] \in Int
      BY <1>4, <2>3 DEF Held
    <3>3. \A j, k \in 0..(m - 1) : j # k => j < k \/ k < j
      BY <1>4
    <3> QED BY <3>1, <3>2, <3>3
  <2>13. UniqueNames'
    <3> SUFFICES ASSUME NEW j \in 0..(m - 1), NEW k \in 0..(m - 1),
                        impls'[j].name = impls'[k].name
                 PROVE  j = k
      BY <2>2, <2>4 DEF UniqueNames
    <3>1. cells[f[j]].name = cells[f[k]].name
      BY <2>3
    <3>2. f[j] = f[k]
      BY <1>6, <2>3, <3>1
    <3> QED BY <2>12, <3>2
  <2> QED BY <2>9, <2>10, <2>11, <2>13 DEF IInv
<1> QED BY <1>7, <1>8

LEMMA ClearIInv ==
    ASSUME IInv, oil_class_clear_implements
    PROVE  IInv'
<1>1. Held(impls, n_occupied)' = {}
  BY DEF oil_class_clear_implements, Held
<1>2. Cardinality(Held(impls, n_occupied)') = 0 /\ n_strings' = 0
  BY <1>1, FS_EmptySet, HeldFinite DEF oil_class_clear_implements, IInv, TypeOK, NamesOwned
<1>3. TypeOK'
  <2>1. impls' \in [0..(n_alloc' - 1) -> OilImplement \cup {Uninit}]
    <3>1. 0..(n_alloc' - 1) = {}
      BY DEF oil_class_clear_implements
    <3> QED BY <3>1 DEF oil_class_clear_implements
  <2>2. /\ n_occupied' \in Nat /\ n_alloc' \in Nat /\ n_impls' \in Nat /\ n_strings' \in Int
        /\ active_impl' \in {NULL}
    BY <1>2 DEF oil_class_clear_implements
  <2>3. slot' \in Funcs \cup {Ref} /\ aborted' = aborted
    BY DEF oil_class_clear_implements, IInv, TypeOK
  <2>4. aborted \in BOOLEAN
    BY DEF IInv, TypeOK
  <2> QED BY <2>1, <2>2, <2>3, <2>4, Zenon DEF TypeOK
<1>4. Accounting' /\ NamesOwned'
  BY <1>2, RoofZero DEF oil_class_clear_implements, Accounting, NamesOwned
<1>5. NoUninitRead' /\ UniqueNames'
  BY <1>1 DEF oil_class_clear_implements, NoUninitRead, UniqueNames
<1> QED BY <1>3, <1>4, <1>5 DEF IInv

LEMMA ActivateIInv ==
    ASSUME IInv, NEW name \in Names, oil_class_activate_implement(name)
    PROVE  IInv'
<1>1. PICK i \in Find(name) :
        /\ slot' = impls[i].impl
        /\ active_impl' = i
        /\ UNCHANGED <<impls, n_occupied, n_alloc, n_impls, n_strings, aborted>>
  BY DEF oil_class_activate_implement
<1>2. i \in 0..(n_occupied - 1) /\ i \in 0..(n_alloc - 1)
  BY FoundIsHeld DEF IInv, TypeOK, Accounting
<1>3. impls[i] \in OilImplement
  BY <1>2 DEF IInv, TypeOK, NoUninitRead
<1>4. impls[i].impl \in Funcs
  BY <1>3 DEF OilImplement
<1>5. TypeOK'
  BY <1>1, <1>2, <1>4 DEF IInv, TypeOK
<1> QED BY <1>1, <1>5 DEF IInv, Accounting, NoUninitRead, UniqueNames, NamesOwned, Held

LEMMA ActivateReferenceIInv ==
    ASSUME IInv, ActivateReference
    PROVE  IInv'
<1>1. TypeOK'
  BY DEF ActivateReference, IInv, TypeOK
<1> QED BY <1>1 DEF ActivateReference, IInv, Accounting, NoUninitRead, UniqueNames, NamesOwned, Held

LEMMA StutterIInv ==
    ASSUME IInv, UNCHANGED vars
    PROVE  IInv'
BY DEF vars, IInv, TypeOK, Accounting, NoUninitRead, UniqueNames, NamesOwned, Held

LEMMA NextIInv ==
    ASSUME IInv, [Next]_vars
    PROVE  IInv'
<1>1. ASSUME NEW n \in Names, NEW f \in Funcs, NEW w \in Flags, oil_class_add_implement(n, f, w)
      PROVE  IInv'
  BY <1>1, ReplaceIInv, FillIInv, AppendIInv DEF oil_class_add_implement
<1>2. ASSUME NEW n \in Names, oil_class_remove_implement(n)
      PROVE  IInv'
  BY <1>2, RemoveIInv
<1>3. ASSUME NEW n \in Names, oil_class_activate_implement(n)
      PROVE  IInv'
  BY <1>3, ActivateIInv
<1> QED BY <1>1, <1>2, <1>3, ClearIInv, ActivateReferenceIInv, StutterIInv DEF Next, Call

-----------------------------------------------------------------------------
(* Theorems *)

\* The inductive invariant holds in every reachable state of a class.
THEOREM Invariance == Spec => []IInv
<1>1. Init => IInv
  BY InitIInv
<1>2. IInv /\ [Next]_vars => IInv'
  BY NextIInv
<1> QED BY <1>1, <1>2, PTL DEF Spec

\* The fields of a class keep their types.
THEOREM TypeCorrect == Spec => []TypeOK
<1>1. IInv => TypeOK
  BY DEF IInv
<1> QED BY <1>1, Invariance, PTL

\* The counters of a class agree with its cells, and its array is as short as
\* whole chunks allow, after any sequence of calls.
THEOREM CountersAgree == Spec => []Accounting
<1>1. IInv => Accounting
  BY DEF IInv
<1> QED BY <1>1, Invariance, PTL

\* No scan of the array reads a cell that was never written or is stale.
THEOREM ScansAreDefined == Spec => []NoUninitRead
<1>1. IInv => NoUninitRead
  BY DEF IInv
<1> QED BY <1>1, Invariance, PTL

\* A name has at most one implement.
THEOREM NamesAreUnique == Spec => []UniqueNames
<1>1. IInv => UniqueNames
  BY DEF IInv
<1> QED BY <1>1, Invariance, PTL

\* Each name string on the heap is owned by one implement: none leaks, none is
\* freed twice.
THEOREM NoNameLeaks == Spec => []NamesOwned
<1>1. IInv => NamesOwned
  BY DEF IInv
<1> QED BY <1>1, Invariance, PTL

-----------------------------------------------------------------------------
(* The order of the implements *)

\* If each cell of the next state that holds a name held before comes from the
\* cell g gives, and g is increasing, then no two implements change places.
LEMMA MonotoneOrder ==
    ASSUME TypeOK, NEW g,
           \A k \in Held(impls, n_occupied)', i \in Held(impls, n_occupied) :
               impls'[k].name = impls[i].name => g[k] = i,
           \A k, l \in Held(impls, n_occupied)' : k < l => g[k] < g[l]
    PROVE  OrderKept
<1> SUFFICES ASSUME NEW i \in Held(impls, n_occupied), NEW j \in Held(impls, n_occupied), i < j,
                    NEW k \in Held(impls, n_occupied)', NEW l \in Held(impls, n_occupied)', k < l,
                    impls'[k].name = impls[j].name, impls'[l].name = impls[i].name
             PROVE  FALSE
  BY DEF OrderKept, Precedes
<1>1. g[k] = j /\ g[l] = i /\ g[k] < g[l]
  OBVIOUS
<1>2. i \in Int /\ j \in Int
  BY DEF Held, TypeOK
<1> QED BY <1>1, <1>2

\* In particular if no implement moves.
LEMMA UnmovedOrder ==
    ASSUME TypeOK,
           \A k \in Held(impls, n_occupied)', i \in Held(impls, n_occupied) :
               impls'[k].name = impls[i].name => k = i
    PROVE  OrderKept
<1> DEFINE g == [k \in Held(impls, n_occupied)' |-> k]
<1>1. \A k \in Held(impls, n_occupied)', i \in Held(impls, n_occupied) :
          impls'[k].name = impls[i].name => g[k] = i
  OBVIOUS
<1>2. \A k, l \in Held(impls, n_occupied)' : k < l => g[k] < g[l]
  OBVIOUS
<1> HIDE DEF g
<1> QED BY <1>1, <1>2, MonotoneOrder

LEMMA AddOrder ==
    ASSUME IInv, NEW name \in Names, NEW func \in Funcs, NEW flags \in Flags,
           oil_class_add_implement(name, func, flags)
    PROVE  OrderKept
<1> DEFINE cell == [name |-> name, impl |-> func, flags |-> flags]
<1>1. n_occupied \in Nat /\ n_alloc \in Nat /\ n_impls \in Nat /\ n_occupied <= n_alloc
  BY DEF IInv, TypeOK, Accounting
<1>2. DOMAIN impls = 0..(n_alloc - 1)
  BY DEF IInv, TypeOK
<1>3. CASE ReplaceImplement(name, func, flags)
  <2>1. PICK i \in Find(name) : impls' = [impls EXCEPT ![i] = cell]
    BY <1>3 DEF ReplaceImplement
  <2>2. impls[i].name = name /\ n_occupied' = n_occupied /\ i \in 0..(n_occupied - 1)
    BY <1>3, FoundIsHeld DEF ReplaceImplement
  <2>3. \A k \in 0..(n_occupied - 1) : impls'[k].name = impls[k].name
    BY <1>1, <1>2, <2>1, <2>2
  <2> QED BY <2>2, <2>3, UnmovedOrder DEF Held, IInv, UniqueNames
<1>4. CASE FillHole(name, func, flags)
  <2>1. PICK i \in Holes(impls, n_occupied) : impls' = [impls EXCEPT ![i] = cell]
    BY <1>4 DEF FillHole
  <2>2. n_occupied' = n_occupied /\ i \in 0..(n_occupied - 1)
    BY <1>4 DEF FillHole, Holes
  <2>3. \A k \in Held(impls, n_occupied) : impls[k].name # name
    BY <1>4, FindUnique DEF FillHole, IInv
  <2>4. \A k \in 0..(n_occupied - 1) : impls'[k] = IF k = i THEN cell ELSE impls[k]
    BY <1>1, <1>2, <2>1, <2>2
  <2> QED BY <2>2, <2>3, <2>4, UnmovedOrder DEF Held, IInv, UniqueNames
<1>5. CASE AppendImplement(name, func, flags)
  <2>1. /\ impls' = Extended(OIL_ROOF(n_impls + 1), name, func, flags)
        /\ n_occupied' = n_occupied + 1
    BY <1>5 DEF AppendImplement
  <2>2. n_impls = n_occupied
    BY <1>5, NoHolesAllHeld DEF AppendImplement, IInv, TypeOK, Accounting
  <2>3. OIL_ROOF(n_impls + 1) \in Nat /\ n_impls + 1 <= OIL_ROOF(n_impls + 1)
    BY <1>1, RoofBounds
  <2>4. \A k \in 0..n_occupied : impls'[k] = IF k = n_occupied THEN cell ELSE impls[k]
    BY <1>1, <2>1, <2>2, <2>3 DEF Extended
  <2>5. \A k \in Held(impls, n_occupied) : impls[k].name # name
    BY <1>5, FindUnique DEF AppendImplement, IInv
  <2>6. \A k \in Held(impls, n_occupied)' : k = n_occupied \/ k \in 0..(n_occupied - 1)
    BY <1>1, <2>1 DEF Held
  <2>7. \A k \in Held(impls, n_occupied)' :
            k # n_occupied => k \in Held(impls, n_occupied) /\ impls'[k] = impls[k]
    BY <1>1, <2>4, <2>6 DEF Held
  <2>8. impls'[n_occupied].name = name
    BY <1>1, <2>4
  <2> QED BY <2>5, <2>7, <2>8, UnmovedOrder DEF IInv, UniqueNames
<1> QED BY <1>3, <1>4, <1>5 DEF oil_class_add_implement

LEMMA RemoveOrder ==
    ASSUME IInv, NEW name \in Names, oil_class_remove_implement(name)
    PROVE  OrderKept
<1>1. PICK i \in Find(name) : Resize(Erased(i), n_impls - 1, OIL_ROOF(n_impls - 1))
  BY DEF oil_class_remove_implement
<1> DEFINE cells == Erased(i)
           m == n_impls - 1
           len == OIL_ROOF(m)
<1>2. /\ \A k \in Held(cells, n_occupied) :
              k \in Held(impls, n_occupied) /\ cells[k] = impls[k]
      /\ m \in Nat
  BY ErasedCells
<1>3. CASE len = n_alloc
  <2>1. impls' = cells /\ n_occupied' = n_occupied
    BY <1>1, <1>3 DEF Resize
  <2> HIDE DEF cells
  <2>2. Held(impls, n_occupied)' = Held(cells, n_occupied)
    BY <2>1 DEF Held
  <2> QED BY <1>2, <2>1, <2>2, UnmovedOrder DEF IInv, UniqueNames
<1>4. CASE len # n_alloc
  <2>1. PICK f \in Squeezes(cells, n_occupied, m) : impls' = Squeezed(cells, f, m, len)
    BY <1>1, <1>4 DEF Resize
  <2>2. n_occupied' = m
    BY <1>1, <1>4 DEF Resize
  <2>3. len \in Nat /\ m <= len
    BY <1>2, RoofBounds
  <2> HIDE DEF cells, len
  <2>4. \A k \in 0..(m - 1) : f[k] \in Held(cells, n_occupied) /\ impls'[k] = cells[f[k]]
    BY <1>2, <2>1, <2>3 DEF Squeezes, Squeezed
  <2>5. \A k \in Held(impls, n_occupied)' : k \in 0..(m - 1)
    BY <2>2 DEF Held
  <2>6. \A k \in Held(impls, n_occupied)', h \in Held(impls, n_occupied) :
            impls'[k].name = impls[h].name => f[k] = h
    BY <1>2, <2>4, <2>5 DEF IInv, UniqueNames
  <2>7. \A k, l \in Held(impls, n_occupied)' : k < l => f[k] < f[l]
    BY <2>5 DEF Squeezes
  <2> QED BY <2>6, <2>7, MonotoneOrder DEF IInv
<1> QED BY <1>3, <1>4

\* Visitors meet the implements of a class in a stable order: no call makes two
\* implements that it keeps change places.
THEOREM OrderStable == Spec => OrderIsStable
<1>1. ASSUME IInv, [Next]_vars
      PROVE  OrderKept
  <2>1. CASE impls' = impls /\ n_occupied' = n_occupied
    <3>1. Held(impls, n_occupied)' = Held(impls, n_occupied)
      BY <2>1 DEF Held
    <3>2. \A k, i \in Held(impls, n_occupied) : impls'[k].name = impls[i].name => k = i
      BY <1>1, <2>1 DEF IInv, UniqueNames
    <3> QED BY <1>1, <3>1, <3>2, UnmovedOrder DEF IInv
  <2>2. CASE oil_class_clear_implements
    <3>1. Held(impls, n_occupied)' = {}
      BY <2>2 DEF oil_class_clear_implements, Held
    <3>2. \A k \in Held(impls, n_occupied)', i \in Held(impls, n_occupied) :
              impls'[k].name = impls[i].name => k = i
      BY <3>1
    <3> QED BY <1>1, <3>2, UnmovedOrder DEF IInv
  <2>3. ASSUME NEW n \in Names, oil_class_activate_implement(n)
        PROVE  impls' = impls /\ n_occupied' = n_occupied
    BY <2>3 DEF oil_class_activate_implement
  <2> QED BY <1>1, <2>1, <2>2, <2>3, AddOrder, RemoveOrder
       DEF Next, Call, ActivateReference, vars
<1>2. IInv /\ [Next]_vars => [OrderKept]_vars
  BY <1>1
<1> QED BY <1>2, Invariance, PTL DEF Spec, OrderIsStable

-----------------------------------------------------------------------------
(* The class implements a map *)

\* The binding a cell holds
Binding(cell) == [impl |-> cell.impl, flags |-> cell.flags]

\* Looking a name up gives what its cell holds.
LookupIsExact ==
    /\ \A n \in Names, i \in Held(impls, n_occupied) :
           impls[i].name = n => Bound[n] = Binding(impls[i])
    /\ \A n \in Names :
           (\A i \in Held(impls, n_occupied) : impls[i].name # n) => Bound[n] = NULL

LEMMA InvariantLookup == IInv => LookupIsExact
<1> SUFFICES ASSUME IInv PROVE LookupIsExact
  OBVIOUS
<1>1. ASSUME NEW n \in Names, NEW i \in Held(impls, n_occupied), impls[i].name = n
      PROVE  Bound[n] = Binding(impls[i])
  <2>1. Find(n) = {i}
    BY <1>1, FindUnique DEF IInv
  <2> QED BY <1>1, <2>1 DEF Bound, oil_class_implements_get, Binding
<1>2. ASSUME NEW n \in Names, \A i \in Held(impls, n_occupied) : impls[i].name # n
      PROVE  Bound[n] = NULL
  <2>1. Find(n) = {}
    BY <1>2 DEF Find
  <2> QED BY <2>1 DEF Bound, oil_class_implements_get
<1> QED BY <1>1, <1>2 DEF LookupIsExact

LEMMA InvariantLookupNext == IInv' => LookupIsExact'
BY InvariantLookup, PTL

\* A step that leaves the implements named n where they were, or moves their
\* cell unchanged, leaves the binding of n alone.
LEMMA BindingKept ==
    ASSUME IInv, IInv', NEW n \in Names,
           \A i \in Held(impls, n_occupied) : impls[i].name = n =>
               \E k \in Held(impls, n_occupied)' : impls'[k] = impls[i],
           \A k \in Held(impls, n_occupied)' : impls'[k].name = n =>
               \E i \in Held(impls, n_occupied) : impls[i].name = n
    PROVE  Bound'[n] = Bound[n]
<1>1. /\ \A m \in Names, i \in Held(impls, n_occupied)' :
              impls'[i].name = m => Bound'[m] = Binding(impls'[i])
      /\ \A m \in Names :
              (\A i \in Held(impls, n_occupied)' : impls'[i].name # m) => Bound'[m] = NULL
  BY InvariantLookupNext DEF LookupIsExact, Binding
<1>2. CASE \E i \in Held(impls, n_occupied) : impls[i].name = n
  <2>1. PICK i \in Held(impls, n_occupied) : impls[i].name = n
    BY <1>2
  <2>2. PICK k \in Held(impls, n_occupied)' : impls'[k] = impls[i]
    BY <2>1
  <2>3. Bound'[n] = Binding(impls'[k]) /\ Bound[n] = Binding(impls[i])
    BY <1>1, <2>1, <2>2, InvariantLookup DEF LookupIsExact
  <2> QED BY <2>2, <2>3
<1>3. CASE ~ \E i \in Held(impls, n_occupied) : impls[i].name = n
  BY <1>1, <1>3, InvariantLookup DEF LookupIsExact
<1> QED BY <1>2, <1>3

\* Adding writes one cell with the name; the cells of other names stay.
LEMMA AddCells ==
    ASSUME IInv, NEW name \in Names, NEW func \in Funcs, NEW flags \in Flags,
           oil_class_add_implement(name, func, flags)
    PROVE  /\ \E k \in Held(impls, n_occupied)' :
                  impls'[k] = [name |-> name, impl |-> func, flags |-> flags]
           /\ \A i \in Held(impls, n_occupied) : impls[i].name # name =>
                  i \in Held(impls, n_occupied)' /\ impls'[i] = impls[i]
           /\ \A k \in Held(impls, n_occupied)' : impls'[k].name # name =>
                  k \in Held(impls, n_occupied) /\ impls'[k] = impls[k]
<1> DEFINE cell == [name |-> name, impl |-> func, flags |-> flags]
<1>1. n_occupied \in Nat /\ n_alloc \in Nat /\ n_impls \in Nat /\ n_occupied <= n_alloc
  BY DEF IInv, TypeOK, Accounting
<1>2. DOMAIN impls = 0..(n_alloc - 1)
  BY DEF IInv, TypeOK
<1>3. cell.name = name /\ name # NULL
  OBVIOUS
<1>4. CASE ReplaceImplement(name, func, flags) \/ FillHole(name, func, flags)
  <2>1. PICK i \in 0..(n_occupied - 1) :
          /\ impls[i].name \in {name, NULL}
          /\ impls' = [impls EXCEPT ![i] = cell]
    BY <1>4, FoundIsHeld DEF ReplaceImplement, FillHole, Holes
  <2>2. n_occupied' = n_occupied
    BY <1>4 DEF ReplaceImplement, FillHole
  <2>3. \A k \in 0..(n_occupied - 1) : impls'[k] = IF k = i THEN cell ELSE impls[k]
    BY <1>1, <1>2, <2>1
  <2> QED BY <1>3, <2>1, <2>2, <2>3 DEF Held
<1>5. CASE AppendImplement(name, func, flags)
  <2>1. /\ impls' = Extended(OIL_ROOF(n_impls + 1), name, func, flags)
        /\ n_occupied' = n_occupied + 1
    BY <1>5 DEF AppendImplement
  <2>2. n_impls = n_occupied
    BY <1>5, NoHolesAllHeld DEF AppendImplement, IInv, TypeOK, Accounting
  <2>3. OIL_ROOF(n_impls + 1) \in Nat /\ n_impls + 1 <= OIL_ROOF(n_impls + 1)
    BY <1>1, RoofBounds
  <2>4. \A k \in 0..n_occupied : impls'[k] = IF k = n_occupied THEN cell ELSE impls[k]
    BY <1>1, <2>1, <2>2, <2>3 DEF Extended
  <2> QED BY <1>1, <1>3, <2>1, <2>4 DEF Held
<1> QED BY <1>4, <1>5 DEF oil_class_add_implement

LEMMA AddBinds ==
    ASSUME IInv, IInv', NEW name \in Names, NEW func \in Funcs, NEW flags \in Flags,
           oil_class_add_implement(name, func, flags)
    PROVE  Map!Bind(name, [impl |-> func, flags |-> flags])
<1> DEFINE b == [impl |-> func, flags |-> flags]
<1>1. Bound'[name] = b
  <2>1. PICK k \in Held(impls, n_occupied)' :
          impls'[k] = [name |-> name, impl |-> func, flags |-> flags]
    BY AddCells
  <2> QED BY <2>1, InvariantLookupNext DEF LookupIsExact, Binding
<1>2. ASSUME NEW n \in Names, n # name
      PROVE  Bound'[n] = Bound[n]
  <2>1. /\ \A i \in Held(impls, n_occupied) : impls[i].name = n =>
               \E k \in Held(impls, n_occupied)' : impls'[k] = impls[i]
        /\ \A k \in Held(impls, n_occupied)' : impls'[k].name = n =>
               \E i \in Held(impls, n_occupied) : impls[i].name = n
    <3>1. /\ \A i \in Held(impls, n_occupied) : impls[i].name # name =>
                 i \in Held(impls, n_occupied)' /\ impls'[i] = impls[i]
          /\ \A k \in Held(impls, n_occupied)' : impls'[k].name # name =>
                 k \in Held(impls, n_occupied) /\ impls'[k] = impls[k]
      BY AddCells
    <3> QED BY <1>2, <3>1
  <2> QED BY <2>1, BindingKept
<1>3. Bound' = [Bound EXCEPT ![name] = b]
  BY <1>1, <1>2 DEF Bound
<1>4. slot' = slot
  BY DEF oil_class_add_implement, ReplaceImplement, FillHole, AppendImplement
<1> QED BY <1>3, <1>4 DEF Map!Bind

\* Removing loses the cell of the name; the cells of other names survive,
\* though a vacuum may move them.
LEMMA RemoveCells ==
    ASSUME IInv, NEW name \in Names, oil_class_remove_implement(name)
    PROVE  /\ \E i \in Held(impls, n_occupied) : impls[i].name = name
           /\ \A i \in Held(impls, n_occupied) : impls[i].name # name =>
                  \E k \in Held(impls, n_occupied)' : impls'[k] = impls[i]
           /\ \A k \in Held(impls, n_occupied)' :
                  /\ impls'[k].name # name
                  /\ \E i \in Held(impls, n_occupied) : impls[i] = impls'[k]
<1>1. PICK r \in Find(name) : Resize(Erased(r), n_impls - 1, OIL_ROOF(n_impls - 1))
  BY DEF oil_class_remove_implement
<1> DEFINE cells == Erased(r)
           m == n_impls - 1
           len == OIL_ROOF(m)
<1>2. /\ r \in Held(impls, n_occupied) /\ impls[r].name = name
      /\ Held(cells, n_occupied) = Held(impls, n_occupied) \ {r}
      /\ \A k \in Held(cells, n_occupied) : cells[k] = impls[k]
      /\ m \in Nat
  BY ErasedCells
<1>3. \A i \in Held(impls, n_occupied) : impls[i].name = name => i = r
  BY <1>2 DEF IInv, UniqueNames
<1>4. CASE len = n_alloc
  <2>1. impls' = cells /\ n_occupied' = n_occupied
    BY <1>1, <1>4 DEF Resize
  <2> HIDE DEF cells
  <2>2. Held(impls, n_occupied)' = Held(cells, n_occupied)
    BY <2>1 DEF Held
  <2> QED BY <1>2, <1>3, <2>1, <2>2
<1>5. CASE len # n_alloc
  <2>1. PICK f \in Squeezes(cells, n_occupied, m) : impls' = Squeezed(cells, f, m, len)
    BY <1>1, <1>5 DEF Resize
  <2>2. n_occupied' = m
    BY <1>1, <1>5 DEF Resize
  <2>3. len \in Nat /\ m <= len
    BY <1>2, RoofBounds
  <2>4. Held(impls, n_occupied)' = 0..(m - 1)
    <3>1. n_occupied \in Nat
      BY DEF IInv, TypeOK
    <3>2. Held(Squeezed(cells, f, m, len), m) = 0..(m - 1)
      BY <1>2, <2>3, <3>1, SqueezeHeld
    <3> QED BY <2>1, <2>2, <3>2 DEF Held
  <2> HIDE DEF cells, len
  <2>5. \A k \in 0..(m - 1) : f[k] \in Held(cells, n_occupied) /\ impls'[k] = cells[f[k]]
    BY <1>2, <2>1, <2>3 DEF Squeezes, Squeezed
  <2>6. \A h \in Held(cells, n_occupied) : \E k \in 0..(m - 1) : f[k] = h
    BY DEF Squeezes
  <2> QED BY <1>2, <1>3, <2>4, <2>5, <2>6
<1> QED BY <1>4, <1>5

LEMMA RemoveUnbinds ==
    ASSUME IInv, IInv', NEW name \in Names, oil_class_remove_implement(name)
    PROVE  Map!Unbind(name)
<1>1. Bound[name] # NULL
  <2>1. PICK i \in Held(impls, n_occupied) : impls[i].name = name
    BY RemoveCells
  <2>2. Bound[name] = Binding(impls[i])
    BY <2>1, InvariantLookup DEF LookupIsExact
  <2>3. impls[i] \in OilImplement
    BY HeldTyped
  <2>4. Binding(impls[i]) \in [impl : Funcs, flags : Flags]
    BY <2>3 DEF Binding, OilImplement
  <2> QED BY <2>2, <2>4
<1>2. Bound'[name] = NULL
  BY RemoveCells, InvariantLookupNext DEF LookupIsExact
<1>3. ASSUME NEW n \in Names, n # name
      PROVE  Bound'[n] = Bound[n]
  <2>1. /\ \A i \in Held(impls, n_occupied) : impls[i].name = n =>
               \E k \in Held(impls, n_occupied)' : impls'[k] = impls[i]
        /\ \A k \in Held(impls, n_occupied)' : impls'[k].name = n =>
               \E i \in Held(impls, n_occupied) : impls[i].name = n
    BY <1>3, RemoveCells
  <2> QED BY <2>1, BindingKept
<1>4. Bound' = [Bound EXCEPT ![name] = NULL]
  BY <1>2, <1>3 DEF Bound
<1>5. slot' = slot
  BY DEF oil_class_remove_implement
<1> QED BY <1>1, <1>4, <1>5 DEF Map!Unbind

LEMMA ClearUnbinds ==
    ASSUME IInv', oil_class_clear_implements
    PROVE  Map!UnbindAll
<1>1. Held(impls, n_occupied)' = {}
  BY DEF oil_class_clear_implements, Held
<1>2. \A n \in Names : Bound'[n] = NULL
  BY <1>1, InvariantLookupNext DEF LookupIsExact
<1>3. Bound' = [n \in Names |-> NULL]
  BY <1>2 DEF Bound
<1> QED BY <1>3 DEF Map!UnbindAll, oil_class_clear_implements

LEMMA SameArrayBound ==
    ASSUME impls' = impls, n_occupied' = n_occupied
    PROVE  Bound' = Bound
BY DEF Bound, oil_class_implements_get, Find, Held

LEMMA ActivateExports ==
    ASSUME IInv, NEW name \in Names, oil_class_activate_implement(name)
    PROVE  Map!Export(name)
<1>1. PICK i \in Find(name) :
        slot' = impls[i].impl /\ impls' = impls /\ n_occupied' = n_occupied
  BY DEF oil_class_activate_implement
<1>2. i \in Held(impls, n_occupied) /\ impls[i].name = name
  BY FoundIsHeld
<1>3. Bound[name] = Binding(impls[i])
  BY <1>2, InvariantLookup DEF LookupIsExact
<1>4. impls[i] \in OilImplement
  BY <1>2, HeldTyped
<1>5. Bound[name] # NULL /\ Bound[name].impl = impls[i].impl
  BY <1>3, <1>4 DEF Binding, OilImplement
<1> QED BY <1>1, <1>5, SameArrayBound DEF Map!Export

\* The array with holes, reallocation and reuse implements a plain map from names
\* to implements: what oil_class_implements_get answers is what was added last
\* under the name, and only activating changes what callers reach.
THEOREM Refinement == Spec => ImplementsMap
<1>1. Init => Map!Init
  <2>1. ASSUME Init PROVE Held(impls, n_occupied) = {}
    BY <2>1 DEF Init, Held
  <2>2. ASSUME Init PROVE \A n \in Names : Find(n) = {}
    BY <2>1, <2>2 DEF Find
  <2> QED BY <2>2 DEF Init, Map!Init, Bound, oil_class_implements_get
<1>2. IInv /\ IInv' /\ [Next]_vars => [Map!Next]_(Map!vars)
  <2> SUFFICES ASSUME IInv, IInv', [Next]_vars PROVE [Map!Next]_(Map!vars)
    OBVIOUS
  <2>1. ASSUME NEW n \in Names, NEW f \in Funcs, NEW w \in Flags, oil_class_add_implement(n, f, w)
        PROVE  Map!Next
    <3>1. Map!Bind(n, [impl |-> f, flags |-> w])
      BY <2>1, AddBinds
    <3>2. [impl |-> f, flags |-> w] \in Map!Bindings
      BY DEF Map!Bindings
    <3> QED BY <3>1, <3>2 DEF Map!Next
  <2>2. ASSUME NEW n \in Names, oil_class_remove_implement(n)
        PROVE  Map!Next
    BY <2>2, RemoveUnbinds DEF Map!Next
  <2>3. ASSUME NEW n \in Names, oil_class_activate_implement(n)
        PROVE  Map!Next
    BY <2>3, ActivateExports DEF Map!Next
  <2>4. CASE oil_class_clear_implements
    BY <2>4, ClearUnbinds DEF Map!Next
  <2>5. CASE ActivateReference
    BY <2>5, SameArrayBound DEF ActivateReference, Map!ExportRef, Map!Next
  <2>6. CASE UNCHANGED vars
    BY <2>6, SameArrayBound DEF vars, Map!vars
  <2> QED BY <2>1, <2>2, <2>3, <2>4, <2>5, <2>6 DEF Next, Call
<1> QED BY <1>1, <1>2, Invariance, PTL DEF Spec, ImplementsMap, Map!Spec

-----------------------------------------------------------------------------
(* The active implement *)

\* A call that keeps the length of the array, and keeps a name bound, keeps the
\* cell of that name where it is.
LEMMA CellsStay ==
    ASSUME IInv, IInv', Next, n_alloc' = n_alloc,
           NEW a \in Held(impls, n_occupied), impls[a].name \in Names,
           Bound'[impls[a].name] # NULL
    PROVE  a \in Held(impls, n_occupied)' /\ impls'[a].name = impls[a].name
<1>1. /\ n_occupied \in Nat /\ n_alloc \in Nat /\ n_impls \in Nat /\ n_occupied <= n_alloc
      /\ DOMAIN impls = 0..(n_alloc - 1)
      /\ a \in 0..(n_occupied - 1) /\ impls[a].name # NULL
  BY DEF Held, IInv, TypeOK, Accounting
<1>2. ASSUME NEW n \in Names, NEW f \in Funcs, NEW w \in Flags, oil_class_add_implement(n, f, w)
      PROVE  a \in Held(impls, n_occupied)' /\ impls'[a].name = impls[a].name
  <2>1. CASE impls[a].name # n
    <3>1. \A i \in Held(impls, n_occupied) : impls[i].name # n =>
             i \in Held(impls, n_occupied)' /\ impls'[i] = impls[i]
      BY <1>2, AddCells
    <3> QED BY <2>1, <3>1
  <2>2. CASE impls[a].name = n
    <3>1. Find(n) = {a}
      BY <2>2, FindUnique DEF IInv
    <3>2. ReplaceImplement(n, f, w)
      BY <1>2, <3>1 DEF oil_class_add_implement, FillHole, AppendImplement
    <3>3. /\ impls' = [impls EXCEPT ![a] = [name |-> n, impl |-> f, flags |-> w]]
          /\ n_occupied' = n_occupied
      BY <3>1, <3>2 DEF ReplaceImplement
    <3>4. impls'[a] = [name |-> n, impl |-> f, flags |-> w]
      BY <1>1, <3>3
    <3> QED BY <1>1, <2>2, <3>3, <3>4 DEF Held
  <2> QED BY <2>1, <2>2
<1>3. ASSUME NEW n \in Names, oil_class_remove_implement(n)
      PROVE  a \in Held(impls, n_occupied)' /\ impls'[a].name = impls[a].name
  <2>1. PICK r \in Find(n) : Resize(Erased(r), n_impls - 1, OIL_ROOF(n_impls - 1))
    BY <1>3 DEF oil_class_remove_implement
  <2>2. OIL_ROOF(n_impls - 1) = n_alloc
    BY <2>1 DEF Resize
  <2>3. impls' = Erased(r) /\ n_occupied' = n_occupied
    BY <2>1, <2>2 DEF Resize
  <2>4. impls[a].name # n
    <3>1. \A k \in Held(impls, n_occupied)' : impls'[k].name # n
      BY <1>3, RemoveCells
    <3>2. Bound'[n] = NULL
      BY <3>1, InvariantLookupNext DEF LookupIsExact
    <3> QED BY <3>2
  <2>5. /\ r # a
        /\ Held(Erased(r), n_occupied) = Held(impls, n_occupied) \ {r}
        /\ \A k \in Held(Erased(r), n_occupied) : Erased(r)[k] = impls[k]
    BY <2>4, ErasedCells
  <2>6. a \in Held(Erased(r), n_occupied)
    BY <2>5
  <2> QED BY <2>3, <2>5, <2>6 DEF Held
<1>4. CASE oil_class_clear_implements
  BY <1>1, <1>4 DEF oil_class_clear_implements
<1>5. CASE impls' = impls /\ n_occupied' = n_occupied
  BY <1>5 DEF Held
<1>6. ASSUME NEW n \in Names, oil_class_activate_implement(n)
      PROVE  impls' = impls /\ n_occupied' = n_occupied
  BY <1>6 DEF oil_class_activate_implement
<1> QED BY <1>2, <1>3, <1>4, <1>5, <1>6 DEF Next, Call, ActivateReference

\* Without a reallocation, such a call leaves the pointer alone too.
LEMMA PointerKept ==
    ASSUME IInv, Next, NEW n \in Names, Designates(n), ~ Concerns(n), n_alloc' = n_alloc
    PROVE  active_impl' = active_impl
<1>1. ASSUME NEW m \in Names, NEW f \in Funcs, NEW w \in Flags, oil_class_add_implement(m, f, w)
      PROVE  active_impl' = active_impl
  <2>1. CASE ReplaceImplement(m, f, w)
    BY <2>1 DEF ReplaceImplement
  <2>2. CASE FillHole(m, f, w)
    BY <2>2 DEF FillHole
  <2>3. CASE AppendImplement(m, f, w)
    BY <2>3 DEF AppendImplement
  <2> QED BY <1>1, <2>1, <2>2, <2>3 DEF oil_class_add_implement
<1>2. ASSUME NEW m \in Names, oil_class_remove_implement(m)
      PROVE  active_impl' = active_impl
  BY <1>2 DEF oil_class_remove_implement, Resize
<1>3. ASSUME NEW m \in Names, oil_class_activate_implement(m)
      PROVE  active_impl' = active_impl
  <2>1. m = n
    BY <1>3 DEF Concerns
  <2>2. Find(n) = {active_impl}
    BY FindUnique DEF IInv, Designates
  <2> QED BY <1>3, <2>1, <2>2 DEF oil_class_activate_implement
<1> QED BY <1>1, <1>2, <1>3 DEF Next, Call, Concerns

\* A call that is not about an activated implement leaves the slot and the
\* binding of that implement alone.
LEMMA UnconcernedKeeps ==
    ASSUME IInv, IInv', Next, NEW n \in Names, Designates(n), ~ Concerns(n)
    PROVE  slot' = slot /\ Bound'[n] = Bound[n]
<1>1. ASSUME NEW m \in Names, NEW f \in Funcs, NEW w \in Flags, oil_class_add_implement(m, f, w)
      PROVE  slot' = slot /\ Bound'[n] = Bound[n]
  <2>1. m # n
    BY <1>1 DEF Concerns
  <2>2. Map!Bind(m, [impl |-> f, flags |-> w])
    BY <1>1, AddBinds
  <2> QED BY <2>1, <2>2 DEF Map!Bind, Bound
<1>2. ASSUME NEW m \in Names, oil_class_remove_implement(m)
      PROVE  slot' = slot /\ Bound'[n] = Bound[n]
  <2>1. m # n
    BY <1>2 DEF Concerns
  <2>2. Map!Unbind(m)
    BY <1>2, RemoveUnbinds
  <2> QED BY <2>1, <2>2 DEF Map!Unbind, Bound
<1>3. ASSUME NEW m \in Names, oil_class_activate_implement(m)
      PROVE  slot' = slot /\ Bound'[n] = Bound[n]
  <2>1. m = n
    BY <1>3 DEF Concerns
  <2>2. PICK i \in Find(n) :
          slot' = impls[i].impl /\ impls' = impls /\ n_occupied' = n_occupied
    BY <1>3, <2>1 DEF oil_class_activate_implement
  <2>3. Find(n) = {active_impl}
    BY FindUnique DEF IInv, Designates
  <2>4. slot' = slot
    BY <2>2, <2>3 DEF Designates
  <2> QED BY <2>2, <2>4, SameArrayBound
<1> QED BY <1>1, <1>2, <1>3 DEF Next, Call, Concerns

\* Calls about other implements leave the activated one bound, and its function
\* the one callers reach; the pointer stays on it unless the array is
\* reallocated.
THEOREM ActiveStable == Spec => ActiveIsStable
<1>1. ASSUME IInv, IInv', Next
      PROVE  ActiveKept
  <2> SUFFICES ASSUME NEW n \in Names, Designates(n), ~ Concerns(n)
               PROVE  /\ slot' = slot /\ Bound'[n] = Bound[n]
                      /\ Designates(n)' \/ n_alloc' # n_alloc
    BY DEF ActiveKept
  <2>1. slot' = slot /\ Bound'[n] = Bound[n]
    BY <1>1, UnconcernedKeeps
  <2>2. ASSUME n_alloc' = n_alloc
        PROVE  Designates(n)'
    <3> DEFINE a == active_impl
    <3>1. a \in Held(impls, n_occupied) /\ impls[a].name = n /\ impls[a].impl = slot
      BY DEF Designates
    <3>2. Bound[n] = Binding(impls[a])
      BY <1>1, <3>1, InvariantLookup DEF LookupIsExact
    <3>3. Bound[n] # NULL
      <4>1. impls[a] \in OilImplement
        BY <1>1, <3>1, HeldTyped
      <4>2. Binding(impls[a]) \in [impl : Funcs, flags : Flags]
        BY <4>1 DEF Binding, OilImplement
      <4> QED BY <3>2, <4>2
    <3>4. a \in Held(impls, n_occupied)' /\ impls'[a].name = n
      BY <1>1, <2>1, <2>2, <3>1, <3>3, CellsStay
    <3>5. Bound'[n] = Binding(impls'[a])
      BY <1>1, <3>4, InvariantLookupNext DEF LookupIsExact, Binding
    <3>6. impls'[a].impl = slot
      BY <2>1, <3>1, <3>2, <3>5 DEF Binding
    <3>7. active_impl' = active_impl
      BY <1>1, <2>2, PointerKept
    <3> QED BY <2>1, <3>4, <3>6, <3>7 DEF Designates
  <2> QED BY <2>1, <2>2
<1>2. IInv /\ IInv' /\ [Next]_vars => [ActiveKept]_vars
  BY <1>1
<1> QED BY <1>2, Invariance, PTL DEF Spec, ActiveIsStable
=============================================================================
