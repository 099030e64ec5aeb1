--------------------------- MODULE OilImplements ---------------------------
(***************************************************************************)
(* The implements of one function class (oilcore/oilclass.c): a growing    *)
(* and shrinking array of cells with holes, the pointer to the active      *)
(* cell, and the slot through which callers reach the active function.     *)
(* A removed implement leaves a hole; holes are reused by later additions  *)
(* and squeezed out only when the array changes its length.                *)
(***************************************************************************)
EXTENDS Integers, FiniteSets

CONSTANTS
    Names,      \* names of implements (C strings, told apart by strcmp)
    Funcs,      \* functions of implements
    Flags,      \* CPU feature words of implements
    Ref,        \* the reference function of the class
    NULL,       \* the null pointer
    Dangling,   \* a pointer into memory given back to the allocator
    Uninit      \* a cell beyond n_occupied: never written, or stale

ASSUME OilImplementsAssumption ==
    /\ NULL \notin Names
    /\ Ref \notin Funcs
    /\ NULL \notin Int /\ Dangling \notin Int /\ NULL # Dangling
    /\ NULL \notin [impl : Funcs, flags : Flags]
    /\ Uninit \notin [name : Names \cup {NULL}, impl : Funcs, flags : Flags]

OIL_IMPL_EXTEND_CHUNK == 3

\* n rounded up to a whole number of chunks
OIL_ROOF(n) ==
    ((n + OIL_IMPL_EXTEND_CHUNK - 1) \div OIL_IMPL_EXTEND_CHUNK) * OIL_IMPL_EXTEND_CHUNK

\* struct OilImplement; a cell whose name is NULL is a hole
OilImplement == [name : Names \cup {NULL}, impl : Funcs, flags : Flags]

VARIABLES
    impls,        \* the cells, [0, n_alloc) -> OilImplement or Uninit
    n_occupied,   \* cells in use, holes included
    n_alloc,      \* cells allocated
    n_impls,      \* implements
    active_impl,  \* NULL, an index into impls, or Dangling
    slot,         \* *slot_p: the function callers reach
    n_strings,    \* strings made by strdup and not yet freed
    aborted       \* abort() was called

array  == <<impls, n_occupied, n_alloc, n_impls>>
vars   == <<impls, n_occupied, n_alloc, n_impls, active_impl, slot, n_strings, aborted>>

-----------------------------------------------------------------------------
\* Indices below n that hold an implement
Held(cells, n) == {i \in 0..(n - 1) : cells[i].name # NULL}

\* Indices below n that are holes
Holes(cells, n) == {i \in 0..(n - 1) : cells[i].name = NULL}

\* A mistake: the scan for a name stops at the first hole
FindUpToHole(name) ==
    {i \in Held(impls, n_occupied) :
        impls[i].name = name /\ \A j \in 0..(i - 1) : impls[j].name \notin {name, NULL}}

\* Where _class_implements_foreach_internal with _cmp_impl_name stops: the
\* first held cell with that name.  A set: empty when there is none.
Find(name) ==
    {i \in Held(impls, n_occupied) :
        /\ impls[i].name = name
        /\ \A j \in Held(impls, n_occupied) : j < i => impls[j].name # name}

\* A mistake: holes are filled with cells from the end of the array
UnorderedSqueezes(cells, n, m) ==
    {f \in [0..(m - 1) -> Held(cells, n)] :
        \A h \in Held(cells, n) : \E i \in 0..(m - 1) : f[i] = h}

\* _class_vacumm_impl_array: where the k-th cell after squeezing out the
\* holes below n comes from.  The m held cells keep their order.
Squeezes(cells, n, m) ==
    {f \in [0..(m - 1) -> Held(cells, n)] :
        /\ \A i, j \in 0..(m - 1) : i < j => f[i] < f[j]
        /\ \A h \in Held(cells, n) : \E i \in 0..(m - 1) : f[i] = h}

\* The cells a vacuum and a resize to len leave, f saying where each comes from
Squeezed(cells, f, m, len) ==
    [k \in 0..(len - 1) |-> IF k < m THEN cells[f[k]] ELSE Uninit]

\* What active_impl may be once realloc returns a block of len cells: realloc
\* moves the block (the old one is freed) or keeps its address.  The field is
\* not assigned: the same address designates whatever the cell now holds.
AfterRealloc(len) ==
    IF active_impl = NULL THEN {NULL}
    ELSE IF active_impl \in 0..(len - 1) THEN {active_impl, Dangling}
    ELSE {Dangling}

\* A mistake: the holes are squeezed out of an array that keeps its length
EagerResize(cells, m, len) ==
    /\ \E f \in Squeezes(cells, n_occupied, m) : impls' = Squeezed(cells, f, m, len)
    /\ n_occupied' = m
    /\ n_alloc' = len
    /\ active_impl' \in (IF len = n_alloc THEN {active_impl} ELSE AfterRealloc(len))
    /\ aborted' = FALSE

\* A mistake: n_occupied still counts the holes that were squeezed out
ForgetfulResize(cells, m, len) ==
    IF len = n_alloc
    THEN /\ impls' = cells
         /\ UNCHANGED <<n_occupied, n_alloc, active_impl, aborted>>
    ELSE /\ \E f \in Squeezes(cells, n_occupied, m) :
               impls' = Squeezed(cells, f, m, len)
         /\ n_alloc' = len
         /\ active_impl' \in AfterRealloc(len)
         /\ aborted' = FALSE
         /\ UNCHANGED n_occupied

\* A mistake: when several implements are moved down, the last one is left out
ShortResize(cells, m, len) ==
    LET moved == IF m > 1 THEN m - 1 ELSE m IN
    IF len = n_alloc
    THEN /\ impls' = cells
         /\ UNCHANGED <<n_occupied, n_alloc, active_impl, aborted>>
    ELSE /\ \E f \in Squeezes(cells, n_occupied, m) :
               impls' = Squeezed(cells, f, moved, len)
         /\ n_occupied' = moved
         /\ n_alloc' = len
         /\ active_impl' \in AfterRealloc(len)
         /\ aborted' = FALSE

\* _class_resize_impl_array on the given cells, of which m below n_occupied
\* are held.  Nothing happens when the length is already right.  A zero length
\* makes realloc free the block; it returns NULL (glibc), on which the code
\* aborts, or a zero-sized block, as the C standard lets it choose.
Resize(cells, m, len) ==
    IF len = n_alloc
    THEN /\ impls' = cells
         /\ UNCHANGED <<n_occupied, n_alloc, active_impl, aborted>>
    ELSE /\ \E f \in Squeezes(cells, n_occupied, m) :
               impls' = Squeezed(cells, f, m, len)
         /\ n_occupied' = m
         /\ n_alloc' = len
         /\ active_impl' \in AfterRealloc(len)
         /\ aborted' \in (IF len = 0 THEN BOOLEAN ELSE {FALSE})

-----------------------------------------------------------------------------
\* oil_class_register, the part about implements
Init ==
    /\ impls = [i \in {} |-> Uninit]
    /\ n_occupied = 0
    /\ n_alloc = 0
    /\ n_impls = 0
    /\ active_impl = NULL
    /\ slot = Ref
    /\ n_strings = 0
    /\ aborted = FALSE

\* A mistake: the name is duplicated although the cell keeps the one it has
ReplaceWithNewName(name, func, flags) ==
    \E i \in Find(name) :
        /\ impls' = [impls EXCEPT ![i] = [name |-> name, impl |-> func, flags |-> flags]]
        /\ n_strings' = n_strings + 1
        /\ UNCHANGED <<n_occupied, n_alloc, n_impls, active_impl, slot, aborted>>

\* oil_class_add_implement, the name is taken: its cell is overwritten
ReplaceImplement(name, func, flags) ==
    \E i \in Find(name) :
        /\ impls' = [impls EXCEPT ![i] = [name |-> name, impl |-> func, flags |-> flags]]
        /\ UNCHANGED <<n_occupied, n_alloc, n_impls, active_impl, slot, n_strings, aborted>>

\* A mistake: an implement put into a hole is not counted
FillHoleUncounted(name, func, flags) ==
    /\ Find(name) = {}
    /\ \E i \in Holes(impls, n_occupied) :
        /\ \A j \in Holes(impls, n_occupied) : i <= j
        /\ impls' = [impls EXCEPT ![i] = [name |-> name, impl |-> func, flags |-> flags]]
    /\ n_strings' = n_strings + 1
    /\ UNCHANGED <<n_occupied, n_alloc, n_impls, active_impl, slot, aborted>>

\* oil_class_add_implement, the name is new and there is a hole: the first
\* one is reused
FillHole(name, func, flags) ==
    /\ Find(name) = {}
    /\ \E i \in Holes(impls, n_occupied) :
        /\ \A j \in Holes(impls, n_occupied) : i <= j
        /\ impls' = [impls EXCEPT ![i] = [name |-> name, impl |-> func, flags |-> flags]]
    /\ n_impls' = n_impls + 1
    /\ n_strings' = n_strings + 1
    /\ UNCHANGED <<n_occupied, n_alloc, active_impl, slot, aborted>>

\* The cells of add_implement's last case, after the resize to len cells: the
\* array has no hole, so the old cells keep their places.
Extended(len, name, func, flags) ==
    [i \in 0..(len - 1) |->
        IF i = n_impls THEN [name |-> name, impl |-> func, flags |-> flags]
        ELSE IF i < n_occupied THEN impls[i]
        ELSE Uninit]

\* oil_class_add_implement, the name is new and there is no hole: the array is
\* resized if it is full, and the cell at n_impls is written
AppendImplement(name, func, flags) ==
    LET len == OIL_ROOF(n_impls + 1) IN
    /\ Find(name) = {}
    /\ Holes(impls, n_occupied) = {}
    /\ impls' = Extended(len, name, func, flags)
    /\ n_alloc' = len
    /\ active_impl' \in (IF len = n_alloc THEN {active_impl} ELSE AfterRealloc(len))
    /\ n_impls' = n_impls + 1
    /\ n_occupied' = n_occupied + 1
    /\ n_strings' = n_strings + 1
    /\ UNCHANGED <<slot, aborted>>

oil_class_add_implement(name, func, flags) ==
    \/ ReplaceImplement(name, func, flags)
    \/ FillHole(name, func, flags)
    \/ AppendImplement(name, func, flags)

\* The cells once the name of cell i is freed and reset
Erased(i) == [impls EXCEPT ![i].name = NULL]

\* oil_class_remove_implement, the name exists (otherwise: return 0)
oil_class_remove_implement(name) ==
    \E i \in Find(name) :
        /\ n_impls' = n_impls - 1
        /\ n_strings' = n_strings - 1
        /\ Resize(Erased(i), n_impls - 1, OIL_ROOF(n_impls - 1))
        /\ UNCHANGED slot

\* A mistake: the active pointer outlives the array
ClearKeepsActive ==
    /\ impls' = [i \in {} |-> Uninit]
    /\ n_occupied' = 0
    /\ n_alloc' = 0
    /\ n_impls' = 0
    /\ n_strings' = n_strings - Cardinality(Held(impls, n_occupied))
    /\ UNCHANGED <<active_impl, slot, aborted>>

\* oil_class_clear_implements: frees every name and the array.  The active
\* pointer is reset, the slot is not.
oil_class_clear_implements ==
    /\ impls' = [i \in {} |-> Uninit]
    /\ n_occupied' = 0
    /\ n_alloc' = 0
    /\ n_impls' = 0
    /\ active_impl' = NULL
    /\ n_strings' = n_strings - Cardinality(Held(impls, n_occupied))
    /\ UNCHANGED <<slot, aborted>>

\* oil_class_activate_implement with the name of an implement (with a name
\* that no implement has, it does nothing)
oil_class_activate_implement(name) ==
    \E i \in Find(name) :
        /\ slot' = impls[i].impl
        /\ active_impl' = i
        /\ UNCHANGED <<impls, n_occupied, n_alloc, n_impls, n_strings, aborted>>

\* oil_class_activate_implement with NULL
ActivateReference ==
    /\ slot' = Ref
    /\ active_impl' = NULL
    /\ UNCHANGED <<impls, n_occupied, n_alloc, n_impls, n_strings, aborted>>

\* Every call of the interface that changes the class
Call ==
    \/ \E n \in Names, f \in Funcs, w \in Flags : oil_class_add_implement(n, f, w)
    \/ \E n \in Names : oil_class_remove_implement(n)
    \/ \E n \in Names : oil_class_activate_implement(n)
    \/ oil_class_clear_implements
    \/ ActivateReference

Next == aborted = FALSE /\ Call

Spec == Init /\ [][Next]_vars

-----------------------------------------------------------------------------
\* What oil_class_get_active_implement may return.  Reading through a dangling
\* pointer may give anything.
oil_class_get_active_implement ==
    IF active_impl = NULL THEN {NULL}
    ELSE IF active_impl = Dangling \/ impls[active_impl] = Uninit THEN Names \cup {NULL}
    ELSE {impls[active_impl].name}

\* What oil_class_implements_get finds for a name
oil_class_implements_get(name) ==
    IF Find(name) = {} THEN NULL
    ELSE LET i == CHOOSE i \in Find(name) : TRUE
         IN  [impl |-> impls[i].impl, flags |-> impls[i].flags]

\* The map the class stands for
Bound == [n \in Names |-> oil_class_implements_get(n)]

Map == INSTANCE ImplMap WITH
          Unbound  <- NULL,
          bound    <- Bound,
          exported <- slot

-----------------------------------------------------------------------------
(* Properties *)

\* The fields have the types of struct OilClass, and every cell below n_alloc
\* is an implement or uninitialised.
TypeOK ==
    /\ n_occupied \in Nat /\ n_alloc \in Nat /\ n_impls \in Nat
    /\ impls \in [0..(n_alloc - 1) -> OilImplement \cup {Uninit}]
    /\ active_impl \in (0..(n_alloc - 1)) \cup {NULL, Dangling}
    /\ slot \in Funcs \cup {Ref}
    /\ n_strings \in Int
    /\ aborted \in BOOLEAN

\* Every path that adds, replaces, removes or vacuums keeps the three counters
\* of the class in step with the cells: n_impls counts the named ones, and the
\* array is as long as the fewest chunks that hold them (what
\* oilcore/tests/oilclass_test.c asserts along one sequence of calls).
Accounting ==
    /\ n_impls = Cardinality(Held(impls, n_occupied))
    /\ n_impls <= n_occupied
    /\ n_occupied <= n_alloc
    /\ n_alloc = OIL_ROOF(n_impls)

\* No scan of [0, n_occupied) ever reads a cell beyond the array, one that was
\* never written or one that was left behind by a vacuum.
NoUninitRead == \A i \in 0..(n_occupied - 1) : i \in DOMAIN impls /\ impls[i] # Uninit

\* add_implement's scan for the name never stops at a hole in front of it: a
\* name has at most one cell, so the first match of a lookup is the only one.
UniqueNames ==
    \A i, j \in Held(impls, n_occupied) : impls[i].name = impls[j].name => i = j

\* Every name made by strdup is owned by exactly one cell: replacing, removing
\* and clearing neither leak a name nor free one twice.
NamesOwned == n_strings = Cardinality(Held(impls, n_occupied))

\* The pairs of names that a visitor meets in that order
Precedes ==
    LET held == Held(impls, n_occupied) IN
    {<<impls[p[1]].name, impls[p[2]].name>> : p \in {q \in held \X held : q[1] < q[2]}}

\* Visitors see the implements in a stable order: two implements that are there
\* before and after a call are visited in the same order, whatever holes were
\* filled or squeezed out between them (_check_implement breaks ties by this
\* order).
OrderKept == {<<p[2], p[1]>> : p \in Precedes} \cap Precedes' = {}
OrderIsStable == [][OrderKept]_vars

\* The active pointer designates an implement named n whose function callers
\* reach through the slot.
Designates(n) ==
    /\ active_impl \in Held(impls, n_occupied)
    /\ impls[active_impl].name = n
    /\ impls[active_impl].impl = slot

\* The calls about which function is active, or about the implement named n
Concerns(n) ==
    \/ ActivateReference
    \/ \E m \in Names \ {n} : oil_class_activate_implement(m)
    \/ \E f \in Funcs, w \in Flags : oil_class_add_implement(n, f, w)
    \/ oil_class_remove_implement(n)
    \/ oil_class_clear_implements

\* An activated implement outlives every call about other implements, additions,
\* replacements and removals, whatever they fill, squeeze out or move: it stays
\* bound to its function and callers keep reaching that function.  The pointer that
\* oil_class_get_active_implement reads stays on it as well, unless the array
\* is reallocated; then it may dangle, or designate what moved there, which that
\* function's documentation ("the name of the current active implement") does not
\* foresee.
ActiveKept ==
    \A n \in Names :
        Designates(n) /\ ~ Concerns(n) =>
            /\ slot' = slot /\ Bound'[n] = Bound[n]
            /\ Designates(n)' \/ n_alloc' # n_alloc
ActiveIsStable == [][ActiveKept]_vars

\* The class is a map from names to implements plus an exported function.
ImplementsMap == Map!Spec

-----------------------------------------------------------------------------
(* What the documentation says and the code does not do *)

\* oil_class_remove_implement "Returns: 1 on success, 0 on fail": it returns.
RemoveReturns == aborted = FALSE
=============================================================================
