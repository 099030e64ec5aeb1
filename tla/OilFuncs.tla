------------------------------ MODULE OilFuncs ------------------------------
(***************************************************************************)
(* A program that uses oilfuncs: the two initializations                   *)
(* (oilfuncs/auto-init.c, oilfuncs/ini-init.c), the code they call that    *)
(* oil-regclasses and oil-regimpls generate, and the calls a client makes  *)
(* before, between and after them.  An initialization is a program of       *)
(* calls into the registry, the tester and the loader, carried out one by   *)
(* one.  What a class promises about its implements is that of ImplMap,     *)
(* what a test and a list select that of OilTester and OilIni.              *)
(***************************************************************************)
EXTENDS OilRegistry, SequencesExt

CONSTANTS
    Defs,       \* the functions of oilfuncs.def, in their order
    Tested,     \* those whose prototype the parser accepts
    Impls,      \* names of implements
    Funcs,      \* what implements them, with the CPU features it needs
    Runnable,   \* those of Funcs the CPU can run
    Regs,       \* function, implement and what implements it, as oil-regimpls found them
    Added,      \* bound: function, implement and what implements it, of those a client adds
    List,       \* oilfuncs_ini: function -> the implement of the last line about it
    Ref         \* the reference of a class

\* oil-regimpls keeps the implements of a function in a dictionary
ASSUME OilFuncsAssumption ==
    /\ Defs \in Seq(Names) /\ Tested \subseteq Names
    /\ \A i, j \in DOMAIN Defs : Defs[i] = Defs[j] => i = j
    /\ Regs \in Seq(Names \X Impls \X Funcs)
    /\ \A i, j \in DOMAIN Regs :
          Regs[i][1] = Regs[j][1] /\ Regs[i][2] = Regs[j][2] => i = j
    /\ Added \subseteq Names \X Impls \X Funcs
    /\ Ref \notin Funcs
    /\ DOMAIN List \subseteq Names

VARIABLES
    todo,       \* the calls an initialization has still to make, the next one first
    impls,      \* class -> its implements: pairs of a name and what implements it
    exported,   \* name -> what the slot of that name holds of the class in slot: Ref or a function
    since,      \* history: class -> what the client did to it since its slot was written last
    ready       \* history: "auto" or "ini" from an initialization to the next call of a client

funcsVars == <<todo, impls, exported, since, ready>>

OfReg(n) == {<<Regs[j][2], Regs[j][3]>> : j \in {k \in DOMAIN Regs : Regs[k][1] = n}}

-----------------------------------------------------------------------------
(* The generated functions, as sequences of calls *)

oilfuncs_register_classes == [i \in DOMAIN Defs |-> <<"register", Defs[i]>>]

oilfuncs_attach_classes == [i \in DOMAIN Defs |-> <<"attach", Defs[i]>>]

oilfuncs_register_implements == 
    [i \in DOMAIN Regs |-> <<"implement", Regs[i][1], Regs[i][2], Regs[i][3]>>]

\* A mistake: the classes are attached before they are registered
AutoAttachesFirst ==
    oilfuncs_attach_classes \o oilfuncs_register_classes \o oilfuncs_register_implements
        \o << <<"optimize">> >>

\* oilfuncs_init_auto after oil_class_init
InitAuto ==
    oilfuncs_register_classes \o oilfuncs_attach_classes \o oilfuncs_register_implements
        \o << <<"optimize">> >>

\* oilfuncs_init_from_ini after oil_class_init
InitFromIni ==
    oilfuncs_register_classes \o oilfuncs_register_implements \o << <<"load">> >>

-----------------------------------------------------------------------------
(* The calls *)

\* What is left of the implements once the registry has changed: _destroy_class
\* frees those of the class it destroys
KeepImpls ==
    /\ impls' = [c \in Classes |-> IF classes'[c].allocated THEN impls[c] ELSE {}]
    /\ since' = [c \in Classes |-> IF classes'[c].allocated THEN since[c] ELSE {}]

\* oil_class_register writes the reference to the slot
Register(n, c) ==
    /\ oil_class_register(n, c)
    /\ KeepImpls
    /\ exported' = [exported EXCEPT ![n] = Ref]

\* oil_test_attach_class_full: refused without a class, to a class that is
\* attached already, and if the prototype does not parse
oil_test_attach_class_full(n) ==
    /\ UNCHANGED <<impls, exported, since>>
    /\ IF table[n] # NULL /\ classes[table[n]].data = NULL /\ n \in Tested
       THEN \E d \in Data : oil_class_add_data(table[n], d)
       ELSE UNCHANGED vars

\* The implements of the class of n become these; the slot is not written.  The
\* history notes whether one that was there is gone, or has another function.
SetImpls(n, set) ==
    /\ impls' = [impls EXCEPT ![table[n]] = set]
    /\ since' = IF impls[table[n]] \subseteq set THEN since
                ELSE [since EXCEPT ![table[n]] = @ \cup {"changed"}]
    /\ UNCHANGED <<exported, vars>>

Others(n, i) == {p \in impls[table[n]] : p[1] # i}

\* oil_class_add_implement on what oil_class_get answers, which may be NULL: an
\* implement that is there is replaced
oil_class_add_implement(n, i, f) ==
    IF table[n] = NULL THEN UNCHANGED <<impls, exported, since, vars>>
    ELSE SetImpls(n, Others(n, i) \cup {<<i, f>>})

oil_class_remove_implement(n, i) == table[n] # NULL /\ SetImpls(n, Others(n, i))

oil_class_clear_implements(n) == table[n] # NULL /\ SetImpls(n, {})

\* oil_class_activate_implement with an implement that exists: it is not asked
\* whether the CPU can run it
oil_class_activate_implement(n, i) ==
    /\ table[n] # NULL
    /\ \E p \in impls[table[n]] : p[1] = i /\ exported' = [exported EXCEPT ![n] = p[2]]
    /\ since' = [since EXCEPT ![table[n]] = {"activated"}]
    /\ UNCHANGED <<impls, vars>>

\* oil_class_activate_implement with NULL
ActivateReference(n) ==
    /\ table[n] # NULL
    /\ exported' = [exported EXCEPT ![n] = Ref]
    /\ since' = [since EXCEPT ![table[n]] = {}]
    /\ UNCHANGED <<impls, vars>>

\* A class of that name that has test information
HasTest(n) == IF table[n] = NULL THEN FALSE ELSE classes[table[n]].data # NULL

\* _optimize_class on the classes of these names.  The tester activates an
\* implement the CPU can run, or the reference.
Test(ns) ==
    LET tested      == {n \in ns : HasTest(n)}
        Selected(n) == {Ref} \cup ({p[2] : p \in impls[table[n]]} \cap Runnable)
    IN
    /\ exported' \in {e \in [Names -> Funcs \cup {Ref}] :
                         \A n \in Names : IF n \in tested THEN e[n] \in Selected(n)
                                          ELSE e[n] = exported[n]}
    /\ since' = [c \in Classes |-> IF \E n \in tested : table[n] = c THEN {} ELSE since[c]]
    /\ UNCHANGED <<impls, vars>>

\* Nothing is tested, with a warning, without a class or its test information
oil_test_optimize_class(n) == Test({n})

oil_test_optimize_class_all == Test(Names)

\* What the list activates for a function: the implement it names, if that exists
\* and is runnable.  A set: empty if the lines about the function change nothing.
Listed(n) ==
    {f \in Runnable : /\ n \in DOMAIN List /\ table[n] # NULL
                      /\ <<List[n], f>> \in impls[table[n]]}

oil_load_ini ==
    LET loaded == {n \in Names : Listed(n) # {}} IN
    /\ exported' \in {e \in [Names -> Funcs \cup {Ref}] :
                         \A n \in Names : IF n \in loaded THEN e[n] \in Listed(n)
                                          ELSE e[n] = exported[n]}
    /\ since' = [c \in Classes |-> IF \E n \in loaded : table[n] = c THEN {} ELSE since[c]]
    /\ UNCHANGED <<impls, vars>>

-----------------------------------------------------------------------------
FuncsInit ==
    /\ Init
    /\ todo = <<>>
    /\ impls = [c \in Classes |-> {}]
    /\ exported = [n \in Names |-> Ref]
    /\ since = [c \in Classes |-> {}]
    /\ ready = "none"

\* Bound: an initialization begins only if there are addresses to finish it
EnoughLeft ==
    /\ Cardinality({c \in Classes : classes[c] = Unborn}) >= Len(Defs)
    /\ Cardinality(Free) >= Cardinality(Tested)

\* oil_class_init, which prints and returns when oilcore is initialized, and
\* then the calls
Begin(with, kind, program) ==
    /\ EnoughLeft
    /\ oil_class_init(with) \/ (initialized = TRUE /\ UNCHANGED vars)
    /\ todo' = program
    /\ ready' = kind
    /\ UNCHANGED <<impls, exported, since>>

oilfuncs_init_auto == Begin(TRUE, "auto", InitAuto)

oilfuncs_init_from_ini == Begin(FALSE, "ini", InitFromIni)

\* The next call of the initialization
Run ==
    /\ todo # <<>>
    /\ todo' = Tail(todo)
    /\ UNCHANGED ready
    /\ LET call == Head(todo) IN
       \/ call[1] = "register" /\ \E c \in Classes : Register(call[2], c)
       \/ call[1] = "attach" /\ oil_test_attach_class_full(call[2])
       \/ call[1] = "implement" /\ oil_class_add_implement(call[2], call[3], call[4])
       \/ call[1] = "optimize" /\ oil_test_optimize_class_all
       \/ call[1] = "load" /\ oil_load_ini

\* Calls that change nothing of what an initialization set up but the choice
Choose ==
    /\ \/ \E n \in Names : oil_test_optimize_class(n)
       \/ oil_test_optimize_class_all
       \/ oil_load_ini
    /\ UNCHANGED ready

\* Calls of the client to the registry, and about the implements of a class that it
\* finds there
ChangeRegistry ==
    /\ ready' = "none"
    /\ \/ \E n \in Names, c \in Classes : Register(n, c)
       \/ /\ \/ \E with \in BOOLEAN : oil_class_init(with)
             \/ oil_class_uninit
             \/ \E c \in Classes, d \in Data \cup {NULL} : oil_class_add_data(c, d)
             \/ \E n \in Names : oil_class_remove(n)
             \/ oil_class_remove_all
          /\ KeepImpls
          /\ UNCHANGED exported
       \/ \E n \in Names : oil_test_attach_class_full(n)
       \/ \E a \in Added : oil_class_add_implement(a[1], a[2], a[3])
       \/ \E n \in Names, i \in Impls : oil_class_remove_implement(n, i)
       \/ \E n \in Names : oil_class_clear_implements(n)
       \/ \E n \in Names, i \in Impls : oil_class_activate_implement(n, i)
       \/ \E n \in Names : ActivateReference(n)

Client == todo = <<>> /\ UNCHANGED todo /\ (Choose \/ ChangeRegistry)

FuncsNext ==
    \/ todo = <<>> /\ (oilfuncs_init_auto \/ oilfuncs_init_from_ini)
    \/ Run
    \/ Client

FuncsSpec == FuncsInit /\ [][FuncsNext]_<<vars, funcsVars>>

-----------------------------------------------------------------------------
(* Properties *)

\* The types of the registry; only live classes have implements, and one of a
\* name.
FuncsTypeOK ==
    /\ TypeOK
    /\ todo \in Seq(Seq({"register", "attach", "implement", "optimize", "load"}
                            \cup Names \cup Impls \cup Funcs))
    /\ impls \in [Classes -> SUBSET (Impls \X Funcs)]
    /\ \A c \in Classes : impls[c] # {} => c \in Allocated
    /\ \A c \in Classes : \A p, q \in impls[c] : p[1] = q[1] => p = q
    /\ exported \in [Names -> Funcs \cup {Ref}]
    /\ since \in [Classes -> SUBSET {"changed", "activated"}]
    /\ ready \in {"none", "auto", "ini"}

\* Callers of a registered class reach the class that was registered last under
\* its name: its reference, or a function that was one of its implements when
\* the slot was written.  That function can run unless the client itself
\* activated one that cannot, and is still that of an implement unless the
\* client has since removed or replaced some: those calls leave the slot alone.
\* None of it is lost to the class that was replaced, to its implements, or to
\* the choice that an earlier initialization made.
SlotHoldsRegistered ==
    \A n \in Names : table[n] # NULL =>
        /\ slot[n] = table[n]
        /\ "activated" \notin since[table[n]] => exported[n] \in {Ref} \cup Runnable
        /\ "changed" \notin since[table[n]] /\ exported[n] # Ref =>
              \E p \in impls[table[n]] : p[2] = exported[n]

\* "Before using functions in oilfuncs, call one of the following initialize
\* functions": after it, whatever was registered, removed, replaced, activated or
\* initialized before it, each function of oilfuncs is registered and has its
\* implements, and callers reach one that can run; after the automatic one, those
\* with a prototype can be tested again, and the others are at their reference;
\* after the other, callers reach what the list says.
FuncsReady ==
    (todo = <<>> /\ ready # "none") =>
        \A n \in Range(Defs) :
            /\ table[n] # NULL
            /\ impls[table[n]] = OfReg(n)
            /\ exported[n] = Ref \/ \E p \in OfReg(n) : p[2] = exported[n] /\ p[2] \in Runnable
            /\ ready = "auto" /\ n \in Tested => classes[table[n]].data # NULL
            /\ (ready = "ini" \/ n \notin Tested) /\ n \notin DOMAIN List => exported[n] = Ref
            /\ ready = "ini" /\ n \in DOMAIN List =>
                  \A p \in OfReg(n) : p[1] = List[n] /\ p[2] \in Runnable => exported[n] = p[2]
=============================================================================
