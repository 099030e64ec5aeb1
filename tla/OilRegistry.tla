---------------------------- MODULE OilRegistry ----------------------------
(***************************************************************************)
(* The registry of function classes (oilcore/oilclass.c): the life of      *)
(* oilcore from oil_class_init to oil_class_uninit, of classes, of the     *)
(* strings that name them, of the attachments that oiltest hangs on them,  *)
(* and of the slots through which callers reach them.  The hash table is   *)
(* the dictionary that HashTable is shown to implement.                     *)
(***************************************************************************)
EXTENDS Integers, FiniteSets

CONSTANTS
    Names,     \* names of function classes
    Classes,   \* addresses malloc may give to a struct OilClass
    Data,      \* attachments a client may make
    NULL       \* the null pointer

ASSUME OilRegistryAssumption == NULL \notin Names \cup Classes \cup Data

VARIABLES
    initialized,   \* oil_classes is not NULL
    destructor,    \* oil_class_data_destructor is not NULL
    table,         \* the content of oil_classes: name -> class, or NULL
    key_of,        \* whose strdup made the key string under a name, or NULL
    classes,       \* class -> its fields, once malloc gave its address
    strings,       \* class -> strdup of its name: times made less times freed
    destroyed,     \* attachment -> times the destructor was called on it
    slot           \* name -> the class whose function the slot of the name holds

vars == <<initialized, destructor, table, key_of, classes, strings, destroyed, slot>>

OilClass == [allocated : BOOLEAN, name : Names \cup {NULL}, data : Data \cup {NULL}]

Unborn == [allocated |-> FALSE, name |-> NULL, data |-> NULL]

Table == INSTANCE Dict WITH Keys <- Names, Vals <- Classes, dict <- table

Registered == {c \in Classes : \E n \in Names : table[n] = c}

Allocated == {c \in Classes : classes[c].allocated}

\* Attachments that are the client's to attach: not destroyed, and on no class.
\* One that left its class while there was no destructor is the client's again.
Free == {d \in Data : destroyed[d] = 0 /\ \A c \in Allocated : classes[c].data # d}

-----------------------------------------------------------------------------
\* _destroy_class on each of a set of classes: the destructor, if there is
\* one, is called on the attachment, and the struct is freed.  What it held is
\* forgotten but its name, by which key strings are told apart.
DestroyClasses(gone) ==
    /\ classes' = [c \in Classes |->
                      IF c \in gone THEN [classes[c] EXCEPT !.allocated = FALSE, !.data = NULL]
                      ELSE classes[c]]
    /\ destroyed' =
          [d \in Data |-> destroyed[d]
              + IF destructor THEN Cardinality({c \in gone : classes[c].data = d}) ELSE 0]

\* The key_destroy_func of oil_classes is free: the key strings under these
\* names are freed
FreeKeys(ns) ==
    /\ strings' = [c \in Classes |-> strings[c] - Cardinality({n \in ns : key_of[n] = c})]
    /\ key_of' = [n \in Names |-> IF n \in ns THEN NULL ELSE key_of[n]]

Stored == {n \in Names : table[n] # NULL}

Init ==
    /\ initialized = FALSE
    /\ destructor = FALSE
    /\ Table!Init
    /\ key_of = [n \in Names |-> NULL]
    /\ classes = [c \in Classes |-> Unborn]
    /\ strings = [c \in Classes |-> 0]
    /\ destroyed = [d \in Data |-> 0]
    /\ slot = [n \in Names |-> NULL]

\* With a destructor or without.  If oilcore is initialized already, it prints
\* and returns: the destructor stays the one it was.
oil_class_init(with) ==
    /\ initialized = FALSE
    /\ initialized' = TRUE
    /\ destructor' = with
    /\ UNCHANGED <<table, key_of, classes, strings, destroyed, slot>>

\* A mistake: oil_classes still points to the destroyed table
UninitKeepsTable ==
    /\ DestroyClasses(Registered)
    /\ destructor' = FALSE
    /\ UNCHANGED <<initialized, table, key_of, strings, slot>>

\* hash_table_destroy (nothing on a NULL table), then the two resets
oil_class_uninit ==
    /\ DestroyClasses(Registered)
    /\ FreeKeys(Stored)
    /\ Table!RemoveAll
    /\ initialized' = FALSE
    /\ destructor' = FALSE
    /\ UNCHANGED slot

\* The slot is written and the class is made before the table is asked.
\* Without a table the insertion does nothing: the class is registered nowhere.
RegisterNowhere(n, c) ==
    /\ initialized = FALSE
    /\ classes' = [classes EXCEPT ![c] = [allocated |-> TRUE, name |-> n, data |-> NULL]]
    /\ strings' = [strings EXCEPT ![c] = 1]
    /\ slot' = [slot EXCEPT ![n] = c]
    /\ UNCHANGED <<initialized, destructor, table, key_of, destroyed>>

\* A mistake: the key is the string of the caller
RegisterCallersString(n, c) ==
    /\ initialized = TRUE /\ table[n] = NULL
    /\ classes' = [classes EXCEPT ![c] = [allocated |-> TRUE, name |-> n, data |-> NULL]]
    /\ strings' = [strings EXCEPT ![c] = 1]
    /\ key_of' = [key_of EXCEPT ![n] = n]
    /\ slot' = [slot EXCEPT ![n] = c]
    /\ Table!Insert(n, c)
    /\ UNCHANGED <<initialized, destructor, destroyed>>

\* The name is new: the string becomes the key
RegisterNew(n, c) ==
    /\ initialized = TRUE /\ table[n] = NULL
    /\ classes' = [classes EXCEPT ![c] = [allocated |-> TRUE, name |-> n, data |-> NULL]]
    /\ strings' = [strings EXCEPT ![c] = 1]
    /\ key_of' = [key_of EXCEPT ![n] = c]
    /\ slot' = [slot EXCEPT ![n] = c]
    /\ Table!Insert(n, c)
    /\ UNCHANGED <<initialized, destructor, destroyed>>

\* A mistake: the stored key is freed and not the provided one
RegisterFreesStoredKey(n, c) ==
    LET old == table[n] IN
    /\ initialized = TRUE /\ old # NULL
    /\ classes' = [classes EXCEPT ![c] = [allocated |-> TRUE, name |-> n, data |-> NULL],
                                  ![old].allocated = FALSE, ![old].data = NULL]
    /\ destroyed' = [d \in Data |->
                        destroyed[d] + IF destructor /\ classes[old].data = d THEN 1 ELSE 0]
    /\ strings' = [strings EXCEPT ![c] = 1, ![key_of[n]] = @ - 1]
    /\ slot' = [slot EXCEPT ![n] = c]
    /\ Table!Insert(n, c)
    /\ UNCHANGED <<initialized, destructor, key_of>>

\* A mistake: the slot is written only for a new name
RegisterWithoutSlot(n, c) ==
    LET old == table[n] IN
    /\ initialized = TRUE /\ old # NULL
    /\ classes' = [classes EXCEPT ![c] = [allocated |-> TRUE, name |-> n, data |-> NULL],
                                  ![old].allocated = FALSE, ![old].data = NULL]
    /\ destroyed' = [d \in Data |->
                        destroyed[d] + IF destructor /\ classes[old].data = d THEN 1 ELSE 0]
    /\ Table!Insert(n, c)
    /\ UNCHANGED <<initialized, destructor, key_of, strings, slot>>

\* The name exists: hash_table_insert keeps the old key and frees the provided
\* one, which is also the name of the new class, and destroys the old class
RegisterAgain(n, c) ==
    LET old == table[n] IN
    /\ initialized = TRUE /\ old # NULL
    /\ classes' = [classes EXCEPT ![c] = [allocated |-> TRUE, name |-> n, data |-> NULL],
                                  ![old].allocated = FALSE, ![old].data = NULL]
    /\ destroyed' = [d \in Data |->
                        destroyed[d] + IF destructor /\ classes[old].data = d THEN 1 ELSE 0]
    /\ slot' = [slot EXCEPT ![n] = c]
    /\ Table!Insert(n, c)
    /\ UNCHANGED <<initialized, destructor, key_of, strings>>

\* malloc gives an address that was never used: whether a pointer is stale can
\* be seen from it
oil_class_register(n, c) ==
    /\ classes[c] = Unborn
    /\ RegisterNowhere(n, c) \/ RegisterNew(n, c) \/ RegisterAgain(n, c)

\* A mistake: the destructor is called once the new attachment is in place
AddDataThenDestroy(c, d) ==
    /\ c \in Allocated
    /\ d \in Free \cup {NULL}
    /\ classes' = [classes EXCEPT ![c].data = d]
    /\ destroyed' = [e \in Data |-> destroyed[e] + IF destructor /\ e = d THEN 1 ELSE 0]
    /\ UNCHANGED <<initialized, destructor, table, key_of, strings, slot>>

\* A mistake: the attachment that is replaced is forgotten
AddDataOver(c, d) ==
    /\ c \in Allocated
    /\ d \in Free \cup {NULL}
    /\ classes' = [classes EXCEPT ![c].data = d]
    /\ UNCHANGED <<initialized, destructor, table, key_of, strings, destroyed, slot>>

\* On a class of the client's that was not destroyed.  The destructor, if
\* there is one, is called on the attachment that is replaced; NULL attaches
\* nothing, which detaches what was there.
oil_class_add_data(c, d) ==
    /\ c \in Allocated
    /\ d \in Free \cup {NULL}
    /\ classes' = [classes EXCEPT ![c].data = d]
    /\ destroyed' = [e \in Data |->
                        destroyed[e] + IF destructor /\ classes[c].data = e THEN 1 ELSE 0]
    /\ UNCHANGED <<initialized, destructor, table, key_of, strings, slot>>

\* hash_table_remove of a name that exists (else it returns 0)
oil_class_remove(n) ==
    /\ Table!Remove(n)
    /\ DestroyClasses({table[n]})
    /\ FreeKeys({n})
    /\ UNCHANGED <<initialized, destructor, slot>>

oil_class_remove_all ==
    /\ initialized = TRUE
    /\ Table!RemoveAll
    /\ DestroyClasses(Registered)
    /\ FreeKeys(Stored)
    /\ UNCHANGED <<initialized, destructor, slot>>

Next ==
    \/ \E with \in BOOLEAN : oil_class_init(with)
    \/ oil_class_uninit
    \/ \E n \in Names, c \in Classes : oil_class_register(n, c)
    \/ \E c \in Classes, d \in Data \cup {NULL} : oil_class_add_data(c, d)
    \/ \E n \in Names : oil_class_remove(n)
    \/ oil_class_remove_all

Spec == Init /\ [][Next]_vars

-----------------------------------------------------------------------------
\* oil_class_get
oil_class_get(n) == table[n]

\* oil_class_get_name may be read: the string it returns was not freed
NameIsReadable(c) == strings[c] = 1

-----------------------------------------------------------------------------
(* Properties *)

\* The fields have the types of struct OilClass and of the statics; an
\* attachment is destroyed a whole number of times.
TypeOK ==
    /\ initialized \in BOOLEAN /\ destructor \in BOOLEAN
    /\ table \in [Names -> Classes \cup {NULL}]
    /\ key_of \in [Names -> Classes \cup {NULL}]
    /\ classes \in [Classes -> OilClass]
    /\ strings \in [Classes -> Int]
    /\ destroyed \in [Data -> Nat]
    /\ slot \in [Names -> Classes \cup {NULL}]

\* oil_class_get never answers a class that was destroyed, nor one that was
\* registered under another name, after any sequence of registrations,
\* replacements, removals and re-initializations.
RegisteredIsAlive ==
    \A n \in Names :
        oil_class_get(n) # NULL =>
            /\ initialized
            /\ classes[oil_class_get(n)].allocated
            /\ classes[oil_class_get(n)].name = n

\* The strings that lookups compare with are alive: replacing a class frees the
\* provided key and not the stored one, so a stored key outlives the class it
\* was made for, and is freed exactly once, with its entry.
KeysAreAlive ==
    /\ \A c \in Classes : strings[c] \in {0, 1}
    /\ \A n \in Names : table[n] # NULL =>
          key_of[n] # NULL /\ strings[key_of[n]] = 1 /\ classes[key_of[n]].name = n
    /\ \A m, n \in Names : key_of[m] # NULL /\ key_of[m] = key_of[n] => m = n

\* The attachment destructor runs at most once on an attachment, and never on
\* one that a live class still holds.
DestroyedOnce ==
    \A d \in Data :
        /\ destroyed[d] <= 1
        /\ destroyed[d] = 1 => \A c \in Allocated : classes[c].data # d

\* Attachments held by live classes
Held == {d \in Data : \E c \in Allocated : classes[c].data = d}

\* As long as oilcore has a destructor, no attachment is lost: a step that takes
\* one away from its class destroys it.
LostOnlyWithoutDestructor == destructor => \A d \in Held \ Held' : destroyed'[d] = 1
NoLostData == [][LostOnlyWithoutDestructor]_vars

-----------------------------------------------------------------------------
(* What the documentation says and the code does not do *)

\* oil_class_get_name returns "a string" which "is used internally", for any
\* class that is registered.
NamesAreReadable == \A c \in Registered : NameIsReadable(c)
=============================================================================
