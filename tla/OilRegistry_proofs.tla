-------------------------- MODULE OilRegistry_proofs --------------------------
(***************************************************************************)
(* Theorems about the registry, for any names, classes and attachments.     *)
(***************************************************************************)
EXTENDS OilRegistry, FiniteSetTheorems, TLAPS

USE OilRegistryAssumption

\* Keys: a key string was made for a class under its name, which may be dead by
\* now, and is not yet freed; only registered names have one
KeysInv ==
    /\ \A c \in Classes : strings[c] \in {0, 1}
    /\ \A c \in Classes : classes[c] = Unborn => strings[c] = 0
    /\ \A n \in Names : table[n] # NULL <=> key_of[n] # NULL
    /\ \A n \in Names : key_of[n] # NULL =>
          strings[key_of[n]] = 1 /\ classes[key_of[n]].name = n

\* Attachments: no two live classes have the same
DataInv ==
    /\ DestroyedOnce
    /\ \A c, e \in Allocated :
          classes[c].data # NULL /\ classes[c].data = classes[e].data => c = e

\* The inductive invariant
RegistryInv == TypeOK /\ RegisteredIsAlive /\ KeysInv /\ DataInv

-----------------------------------------------------------------------------
(* Lemmas about the helpers *)

\* A set without two different elements counts none or one.
LEMMA AtMostOne ==
    ASSUME NEW S, \A x, y \in S : x = y
    PROVE  /\ S = {} => Cardinality(S) = 0
           /\ S # {} => Cardinality(S) = 1
<1>1. CASE S = {}
  BY <1>1, FS_EmptySet
<1>2. ASSUME NEW x \in S PROVE Cardinality(S) = 1
  <2>1. S = {x}
    OBVIOUS
  <2> QED BY <2>1, FS_Singleton
<1> QED BY <1>1, <1>2

\* A registered class is alive and has a name.
LEMMA RegisteredType ==
    ASSUME RegistryInv, NEW c \in Registered
    PROVE  c \in Classes /\ classes[c].allocated = TRUE /\ classes[c].name \in Names
  BY DEF RegistryInv, RegisteredIsAlive, Registered, oil_class_get, TypeOK, OilClass

\* Destroying registered classes leaves their names where they were, destroys each attachment at most once and none that is still held.
LEMMA DestroyKeeps ==
    ASSUME RegistryInv, NEW gone \in SUBSET Registered, DestroyClasses(gone)
    PROVE  /\ classes' \in [Classes -> OilClass] /\ destroyed' \in [Data -> Nat]
           /\ \A c \in Classes : /\ classes'[c].name = classes[c].name
                                 /\ (classes'[c].allocated <=> classes[c].allocated /\ c \notin gone)
                                 /\ classes'[c] = Unborn => classes[c] = Unborn
           /\ DataInv'
           /\ LostOnlyWithoutDestructor
<1>0. TypeOK /\ DataInv
  BY DEF RegistryInv
<1>1. ASSUME NEW c \in Classes
      PROVE  /\ classes'[c] \in OilClass
             /\ classes'[c].name = classes[c].name
             /\ c \notin gone => classes'[c].data = classes[c].data
             /\ (classes'[c].allocated <=> classes[c].allocated /\ c \notin gone)
             /\ classes'[c] = Unborn => classes[c] = Unborn
  <2>1. classes[c] \in OilClass
    BY <1>0 DEF TypeOK
  <2>2. CASE c \in gone
    <3>1. classes'[c] = [classes[c] EXCEPT !.allocated = FALSE, !.data = NULL]
      BY <2>2 DEF DestroyClasses
    <3>2. classes[c].name # NULL
      BY <2>2, RegisteredType
    <3>3. classes'[c] \in OilClass /\ classes'[c].name = classes[c].name
      BY <2>1, <3>1 DEF OilClass
    <3>4. classes'[c].allocated = FALSE
      BY <2>1, <3>1 DEF OilClass
    <3> QED BY <2>2, <3>2, <3>3, <3>4 DEF Unborn
  <2>3. CASE c \notin gone
    <3>1. classes'[c] = classes[c]
      BY <2>3 DEF DestroyClasses
    <3> QED BY <2>1, <2>3, <3>1 DEF OilClass
  <2> QED BY <2>2, <2>3
<1>2. classes' \in [Classes -> OilClass]
  BY <1>1 DEF DestroyClasses
<1>3. ASSUME NEW d \in Data
      PROVE  /\ destroyed'[d] \in Nat /\ destroyed'[d] <= 1
             /\ destroyed'[d] = 1 => \A c \in Allocated' : classes'[c].data # d
             /\ destructor /\ d \in Held \ Held' => destroyed'[d] = 1
  <2> DEFINE holders == {c \in gone : classes[c].data = d}
  <2>1. /\ \A x, y \in holders : x = y
        /\ \A x \in holders, c \in Allocated : classes[c].data = d => c = x
    BY <1>0, RegisteredType DEF DataInv, Allocated
  <2>2. destroyed'[d] = destroyed[d] + IF destructor THEN Cardinality(holders) ELSE 0
    BY DEF DestroyClasses
  <2>3. destroyed[d] \in {0, 1}
    <3>1. destroyed[d] \in Nat /\ destroyed[d] <= 1
      BY <1>0 DEF TypeOK, DataInv, DestroyedOnce
    <3> QED BY <3>1
  <2>4. CASE holders = {}
    <3>1. Cardinality(holders) = 0
      BY <2>4, FS_EmptySet
    <3>2. destroyed'[d] = destroyed[d]
      BY <2>2, <2>3, <3>1
    <3>3. \A c \in Allocated' : c \in Allocated /\ classes'[c].data = classes[c].data
      BY <1>1 DEF Allocated
    <3>4. destroyed[d] = 1 => \A c \in Allocated : classes[c].data # d
      BY <1>0 DEF DataInv, DestroyedOnce
    <3>5. d \notin Held \ Held'
      BY <1>1, <2>4 DEF Held, Allocated
    <3> QED BY <2>3, <3>2, <3>3, <3>4, <3>5
  <2>5. CASE holders # {}
    <3>1. Cardinality(holders) = 1
      BY <2>1, <2>5, AtMostOne
    <3>2. destroyed[d] = 0
      <4>1. PICK c \in Allocated : classes[c].data = d
        BY <2>5, RegisteredType DEF Allocated
      <4>2. destroyed[d] # 1
        BY <1>0, <4>1 DEF DataInv, DestroyedOnce
      <4> QED BY <2>3, <4>2
    <3>3. \A c \in Allocated' : classes'[c].data # d
      BY <1>1, <2>1, <2>5 DEF Allocated
    <3>4. destroyed'[d] = IF destructor THEN 1 ELSE 0
      <4> HIDE DEF holders
      <4> QED BY <2>2, <3>1, <3>2
    <3> QED BY <3>3, <3>4
  <2> QED BY <2>4, <2>5
<1>4. destroyed' \in [Data -> Nat]
  BY <1>3 DEF DestroyClasses
<1>5. DataInv'
  <2>1. \A c \in Allocated' : c \in Allocated /\ classes'[c].data = classes[c].data
    BY <1>1 DEF Allocated
  <2> QED BY <1>0, <1>3, <2>1 DEF DataInv, DestroyedOnce
<1>6. LostOnlyWithoutDestructor
  BY <1>3 DEF LostOnlyWithoutDestructor, Held
<1> QED BY <1>1, <1>2, <1>4, <1>5, <1>6

\* Freeing the keys of entries as they leave the table frees each once.
LEMMA FreeKeeps ==
    ASSUME RegistryInv, NEW ns \in SUBSET Names, FreeKeys(ns),
           \A c \in Classes : classes'[c].name = classes[c].name
                                /\ (classes'[c] = Unborn => classes[c] = Unborn),
           \A n \in Names : table'[n] = IF n \in ns THEN NULL ELSE table[n]
    PROVE  /\ key_of' \in [Names -> Classes \cup {NULL}] /\ strings' \in [Classes -> Int]
           /\ KeysInv'
<1>0. TypeOK /\ KeysInv
  BY DEF RegistryInv
<1>1. \A n \in Names : key_of[n] # NULL => key_of[n] \in Classes
  BY <1>0 DEF TypeOK
<1>2. \A n \in Names : key_of'[n] = IF n \in ns THEN NULL ELSE key_of[n]
  BY DEF FreeKeys
<1>3. ASSUME NEW c \in Classes
      PROVE  /\ strings'[c] \in {0, 1}
             /\ classes'[c] = Unborn => strings'[c] = 0
             /\ \A n \in Names : key_of'[n] = c => strings'[c] = 1
  <2> DEFINE freed == {n \in ns : key_of[n] = c}
  <2>1. strings'[c] = strings[c] - Cardinality(freed)
    BY DEF FreeKeys
  <2>2. \A m \in freed, n \in Names : key_of[n] = c => m = n
    BY <1>0 DEF KeysInv
  <2>3. strings[c] \in {0, 1} /\ (classes'[c] = Unborn => strings[c] = 0)
    BY <1>0 DEF KeysInv
  <2>4. CASE freed = {}
    <3>1. strings'[c] = strings[c]
      <4>1. Cardinality(freed) = 0
        BY <2>4, FS_EmptySet
      <4> QED BY <2>1, <2>3, <4>1
    <3> QED BY <1>0, <1>2, <2>3, <3>1 DEF KeysInv
  <2>5. CASE freed # {}
    <3>1. Cardinality(freed) = 1
      BY <2>2, <2>5, AtMostOne
    <3>2. strings[c] = 1
      BY <1>0, <2>5 DEF KeysInv
    <3>3. \A n \in Names : key_of'[n] # c
      BY <1>2, <2>2, <2>5
    <3> QED BY <2>1, <2>3, <3>1, <3>2, <3>3
  <2> QED BY <2>4, <2>5
<1>4. key_of' \in [Names -> Classes \cup {NULL}]
  BY <1>0, <1>2 DEF FreeKeys, TypeOK
<1>5. strings' \in [Classes -> Int]
  BY <1>3 DEF FreeKeys
<1>6. KeysInv'
  BY <1>0, <1>1, <1>2, <1>3 DEF KeysInv
<1> QED BY <1>4, <1>5, <1>6

-----------------------------------------------------------------------------
(* The steps *)

LEMMA RegistryInit == Init => RegistryInv
<1> SUFFICES ASSUME Init PROVE RegistryInv
  OBVIOUS
<1>1. TypeOK
  <2>1. Unborn \in OilClass
    BY DEF Unborn, OilClass
  <2>2. table \in [Names -> Classes \cup {NULL}]
    BY DEF Init, Table!Init
  <2>3. classes \in [Classes -> OilClass] /\ strings \in [Classes -> Int]
    BY <2>1 DEF Init
  <2> QED BY <2>2, <2>3 DEF Init, TypeOK
<1>2. RegisteredIsAlive /\ KeysInv
  BY DEF Init, Table!Init, RegisteredIsAlive, oil_class_get, KeysInv
<1>3. DataInv
  BY DEF Init, DataInv, DestroyedOnce, Unborn, Allocated
<1> QED BY <1>1, <1>2, <1>3 DEF RegistryInv

\* What every step keeps
Kept == RegistryInv' /\ LostOnlyWithoutDestructor

LEMMA InitKeeps ==
    ASSUME RegistryInv, NEW with \in BOOLEAN, oil_class_init(with)
    PROVE  Kept
<1> USE DEF RegistryInv
<1>1. TypeOK'
  BY DEF oil_class_init, TypeOK
<1>2. RegisteredIsAlive' /\ KeysInv'
  BY DEF oil_class_init, RegisteredIsAlive, oil_class_get, KeysInv
<1>3. DataInv' /\ LostOnlyWithoutDestructor
  BY DEF oil_class_init, DataInv, DestroyedOnce, Allocated, LostOnlyWithoutDestructor, Held
<1> QED BY <1>1, <1>2, <1>3 DEF Kept

\* The three ways in which entries leave the table and take their classes and
\* their keys with them
LEMMA RemovalKeeps ==
    ASSUME RegistryInv, NEW ns \in SUBSET Stored, NEW gone \in SUBSET Registered,
           DestroyClasses(gone), FreeKeys(ns), UNCHANGED slot,
           gone = {table[n] : n \in ns},
           table' = [n \in Names |-> IF n \in ns THEN NULL ELSE table[n]],
           initialized' \in BOOLEAN, destructor' \in BOOLEAN,
           initialized' = initialized \/ ns = Stored
    PROVE  Kept
<1>0. TypeOK /\ RegisteredIsAlive
  BY DEF RegistryInv
<1>1. /\ classes' \in [Classes -> OilClass] /\ destroyed' \in [Data -> Nat]
      /\ \A c \in Classes : /\ classes'[c].name = classes[c].name
                            /\ (classes'[c].allocated <=> classes[c].allocated /\ c \notin gone)
                            /\ classes'[c] = Unborn => classes[c] = Unborn
      /\ DataInv'
      /\ LostOnlyWithoutDestructor
  BY DestroyKeeps
<1>2. /\ key_of' \in [Names -> Classes \cup {NULL}] /\ strings' \in [Classes -> Int]
      /\ KeysInv'
  BY <1>1, FreeKeeps DEF Stored
<1>3. TypeOK'
  BY <1>0, <1>1, <1>2 DEF TypeOK
<1>4. ASSUME NEW n \in Names, table'[n] # NULL
      PROVE  initialized' /\ classes'[table'[n]].allocated /\ classes'[table'[n]].name = n
  <2>1. n \notin ns /\ table'[n] = table[n] /\ table[n] \in Classes
    BY <1>0, <1>4 DEF TypeOK
  <2>2. initialized /\ classes[table[n]].allocated /\ classes[table[n]].name = n
    BY <1>0, <1>4, <2>1 DEF RegisteredIsAlive, oil_class_get
  <2>3. table[n] \notin gone
    <3>1. \A m \in ns : classes[table[m]].name = m
      BY <1>0 DEF RegisteredIsAlive, oil_class_get, Stored
    <3> QED BY <2>1, <2>2, <3>1
  <2>4. initialized'
    BY <1>4, <2>1, <2>2 DEF Stored
  <2> QED BY <1>1, <2>1, <2>2, <2>3, <2>4
<1>5. RegisteredIsAlive'
  BY <1>4 DEF RegisteredIsAlive, oil_class_get
<1> QED BY <1>1, <1>2, <1>3, <1>5 DEF Kept, RegistryInv

LEMMA UninitKeeps ==
    ASSUME RegistryInv, oil_class_uninit \/ oil_class_remove_all
    PROVE  Kept
<1>1. Registered = {table[n] : n \in Stored}
  BY DEF Registered, Stored, RegistryInv, TypeOK
<1>2. table' = [n \in Names |-> IF n \in Stored THEN NULL ELSE table[n]]
  BY DEF oil_class_uninit, oil_class_remove_all, Table!RemoveAll, Stored
<1>3. /\ DestroyClasses(Registered) /\ FreeKeys(Stored) /\ UNCHANGED slot
      /\ initialized' \in BOOLEAN /\ destructor' \in BOOLEAN
  BY DEF oil_class_uninit, oil_class_remove_all, RegistryInv, TypeOK
<1> QED BY <1>1, <1>2, <1>3, RemovalKeeps

LEMMA RemoveKeeps ==
    ASSUME RegistryInv, NEW n \in Names, oil_class_remove(n)
    PROVE  Kept
<1>1. n \in Stored /\ table[n] \in Registered
  BY DEF oil_class_remove, Table!Remove, Stored, Registered, RegistryInv, TypeOK
<1>2. table' = [m \in Names |-> IF m \in {n} THEN NULL ELSE table[m]]
  BY DEF oil_class_remove, Table!Remove, RegistryInv, TypeOK
<1>3. /\ DestroyClasses({table[n]}) /\ FreeKeys({n}) /\ UNCHANGED slot
      /\ initialized' = initialized
      /\ initialized' \in BOOLEAN /\ destructor' \in BOOLEAN
  BY DEF oil_class_remove, RegistryInv, TypeOK
<1>4. {table[n]} = {table[m] : m \in {n}}
  OBVIOUS
<1> QED BY <1>1, <1>2, <1>3, <1>4, RemovalKeeps

LEMMA AddDataKeeps ==
    ASSUME RegistryInv, NEW c \in Classes, NEW d \in Data \cup {NULL}, oil_class_add_data(c, d)
    PROVE  Kept
<1>0. TypeOK /\ RegisteredIsAlive /\ KeysInv /\ DataInv
  BY DEF RegistryInv
<1>1. /\ classes[c] \in OilClass /\ classes[c].allocated
      /\ d # NULL => destroyed[d] = 0 /\ \A e \in Allocated : classes[e].data # d
  BY <1>0 DEF oil_class_add_data, Allocated, Free, TypeOK
<1>2. /\ classes' \in [Classes -> OilClass]
      /\ classes'[c].allocated = classes[c].allocated /\ classes'[c].name = classes[c].name
      /\ classes'[c].data = d
      /\ \A e \in Classes : e # c => classes'[e] = classes[e]
  BY <1>0, <1>1 DEF oil_class_add_data, TypeOK, OilClass
<1>3. \A e \in Classes : classes'[e] = Unborn => classes[e] = Unborn
  <2>1. classes'[c].allocated /\ ~Unborn.allocated
    BY <1>1, <1>2 DEF Unborn
  <2> QED BY <1>2, <2>1
<1>4. /\ \A e \in Classes : (classes'[e].allocated <=> classes[e].allocated)
                               /\ classes'[e].name = classes[e].name
      /\ Allocated' = Allocated /\ c \in Allocated
  BY <1>1, <1>2 DEF Allocated
<1>5. UNCHANGED <<initialized, destructor, table, key_of, strings, slot>>
  BY DEF oil_class_add_data
<1>6. ASSUME NEW e \in Data
      PROVE  /\ destroyed'[e] \in Nat /\ destroyed'[e] <= 1
             /\ destroyed'[e] = 1 => \A b \in Allocated' : classes'[b].data # e
             /\ destructor /\ e \in Held \ Held' => destroyed'[e] = 1
  <2>0. e # NULL
    OBVIOUS
  <2>1. destroyed'[e] = destroyed[e] + IF destructor /\ classes[c].data = e THEN 1 ELSE 0
    BY DEF oil_class_add_data
  <2>2. destroyed[e] \in Nat /\ destroyed[e] <= 1
    BY <1>0 DEF TypeOK, DataInv, DestroyedOnce
  <2>3. CASE classes[c].data = e
    <3>1. destroyed[e] = 0
      BY <1>0, <1>4, <2>2, <2>3 DEF DataInv, DestroyedOnce
    <3>2. \A b \in Allocated : b # c => classes[b].data # e
      BY <1>0, <1>4, <2>0, <2>3 DEF DataInv
    <3>3. d # e
      BY <1>1, <1>4, <2>0, <2>3
    <3>4. \A b \in Allocated' : classes'[b].data # e
      <4>1. ASSUME NEW b \in Allocated
            PROVE  classes'[b].data # e
        BY <1>2, <3>2, <3>3 DEF Allocated
      <4> QED BY <1>4, <4>1
    <3> QED BY <2>1, <2>3, <3>1, <3>4
  <2>4. CASE classes[c].data # e
    <3>1. destroyed'[e] = destroyed[e]
      BY <2>1, <2>2, <2>4
    <3>2. ASSUME destroyed[e] = 1, NEW b \in Allocated
          PROVE  classes'[b].data # e
      <4>1. classes[b].data # e
        BY <1>0, <3>2 DEF DataInv, DestroyedOnce
      <4>2. d # e
        BY <1>1, <2>0, <3>2
      <4> QED BY <1>2, <4>1, <4>2 DEF Allocated
    <3>3. e \notin Held \ Held'
      BY <1>2, <1>4, <2>4 DEF Held, Allocated
    <3> QED BY <1>4, <2>2, <3>1, <3>2, <3>3
  <2> QED BY <2>3, <2>4
<1>7. destroyed' \in [Data -> Nat]
  BY <1>6 DEF oil_class_add_data
<1>8. TypeOK'
  BY <1>0, <1>2, <1>5, <1>7 DEF TypeOK
<1>9. RegisteredIsAlive' /\ KeysInv'
  BY <1>0, <1>3, <1>4, <1>5 DEF RegisteredIsAlive, oil_class_get, KeysInv, TypeOK
<1>10. DataInv'
  <2>1. ASSUME NEW a \in Allocated, NEW b \in Allocated,
               classes'[a].data # NULL, classes'[a].data = classes'[b].data
        PROVE  a = b
    <3>1. CASE a # c /\ b # c
      BY <1>0, <1>2, <2>1, <3>1 DEF DataInv, Allocated
    <3>2. CASE a = c /\ b # c
      BY <1>1, <1>2, <2>1, <3>2 DEF Allocated
    <3>3. CASE a # c /\ b = c
      BY <1>1, <1>2, <2>1, <3>3 DEF Allocated
    <3> QED BY <3>1, <3>2, <3>3
  <2>2. DestroyedOnce'
    BY <1>6 DEF DestroyedOnce
  <2> QED BY <1>4, <2>1, <2>2 DEF DataInv
<1>11. LostOnlyWithoutDestructor
  BY <1>6 DEF LostOnlyWithoutDestructor, Held
<1> QED BY <1>8, <1>9, <1>10, <1>11 DEF Kept, RegistryInv

LEMMA RegisterKeeps ==
    ASSUME RegistryInv, NEW n \in Names, NEW c \in Classes, oil_class_register(n, c)
    PROVE  Kept
<1> DEFINE new == [allocated |-> TRUE, name |-> n, data |-> NULL]
<1>0. TypeOK /\ RegisteredIsAlive /\ KeysInv /\ DataInv
  BY DEF RegistryInv
<1>1. /\ new \in OilClass /\ new.allocated = TRUE /\ new.name = n /\ new.data = NULL
      /\ new # Unborn
  BY DEF OilClass, Unborn
<1>2. classes[c] = Unborn /\ ~classes[c].allocated /\ classes[c].data = NULL
  BY DEF oil_class_register, Unborn
<1>3. strings[c] = 0 /\ \A m \in Names : key_of[m] # c /\ table[m] # c
  BY <1>0, <1>2 DEF KeysInv, RegisteredIsAlive, oil_class_get
<1>4. \A m \in Names : key_of[m] # NULL => key_of[m] \in Classes
  BY <1>0 DEF TypeOK
<1>5. CASE RegisterNowhere(n, c) \/ RegisterNew(n, c)
  <2>1. /\ classes' = [classes EXCEPT ![c] = new] /\ strings' = [strings EXCEPT ![c] = 1]
        /\ slot' = [slot EXCEPT ![n] = c]
        /\ UNCHANGED <<initialized, destructor, destroyed>>
    BY <1>5 DEF RegisterNowhere, RegisterNew
  <2>2. /\ classes'[c] = new /\ strings'[c] = 1
        /\ \A e \in Classes : e # c => classes'[e] = classes[e] /\ strings'[e] = strings[e]
    BY <1>0, <2>1 DEF TypeOK
  <2>3. \/ UNCHANGED <<table, key_of>>
        \/ /\ initialized = TRUE /\ table[n] = NULL
           /\ table' = [table EXCEPT ![n] = c] /\ key_of' = [key_of EXCEPT ![n] = c]
    BY <1>5 DEF RegisterNowhere, RegisterNew, Table!Insert
  <2>4. /\ classes' \in [Classes -> OilClass] /\ strings' \in [Classes -> Int]
        /\ slot' \in [Names -> Classes \cup {NULL}]
    BY <1>0, <1>1, <2>1 DEF TypeOK
  <2>5. table' \in [Names -> Classes \cup {NULL}] /\ key_of' \in [Names -> Classes \cup {NULL}]
    BY <1>0, <2>3 DEF TypeOK
  <2>6. TypeOK'
    BY <1>0, <2>1, <2>4, <2>5 DEF TypeOK
  <2>7. RegisteredIsAlive'
    <3>1. ASSUME NEW m \in Names, table'[m] # NULL
          PROVE  initialized' /\ classes'[table'[m]].allocated /\ classes'[table'[m]].name = m
      <4>1. CASE table'[m] = table[m]
        <5>1. table[m] \in Classes /\ table[m] # c
          BY <1>0, <1>3, <3>1, <4>1 DEF TypeOK
        <5> QED BY <1>0, <2>1, <2>2, <3>1, <4>1, <5>1 DEF RegisteredIsAlive, oil_class_get
      <4>2. CASE m = n /\ table'[m] = c /\ initialized = TRUE
        BY <1>1, <2>1, <2>2, <4>2
      <4> QED BY <1>0, <2>3, <4>1, <4>2 DEF TypeOK
    <3> QED BY <3>1 DEF RegisteredIsAlive, oil_class_get
  <2>8. /\ \A e \in Classes : strings'[e] \in {0, 1}
        /\ \A e \in Classes : classes'[e] = Unborn => strings'[e] = 0
    BY <1>0, <1>1, <2>2 DEF KeysInv
  <2>9. ASSUME NEW m \in Names
        PROVE  /\ table'[m] # NULL <=> key_of'[m] # NULL
               /\ key_of'[m] # NULL =>
                     strings'[key_of'[m]] = 1 /\ classes'[key_of'[m]].name = m
    <3>1. CASE table'[m] = table[m] /\ key_of'[m] = key_of[m]
      BY <1>0, <1>3, <1>4, <2>2, <3>1 DEF KeysInv
    <3>2. CASE m = n /\ table'[m] = c /\ key_of'[m] = c
      BY <1>1, <2>2, <3>2
    <3> QED BY <1>0, <2>3, <3>1, <3>2 DEF TypeOK
  <2>10. KeysInv'
    BY <2>8, <2>9 DEF KeysInv
  <2>11. DataInv' /\ LostOnlyWithoutDestructor
    <3>1. \A e \in Classes : /\ classes'[e].data = classes[e].data
                             /\ e # c => (classes'[e].allocated <=> classes[e].allocated)
      BY <1>1, <1>2, <2>2
    <3>2. \A e \in Allocated' : classes'[e].data # NULL => e \in Allocated
      BY <1>1, <2>2, <3>1 DEF Allocated
    <3>3. DataInv'
      <4>1. \A d \in Data : d # NULL
        OBVIOUS
      <4>2. DestroyedOnce'
        BY <1>0, <2>1, <3>1, <3>2, <4>1 DEF DataInv, DestroyedOnce, Allocated
      <4>3. ASSUME NEW a \in Allocated', NEW b \in Allocated',
                   classes'[a].data # NULL, classes'[a].data = classes'[b].data
            PROVE  a = b
        <5>1. a \in Allocated /\ b \in Allocated
          BY <3>2, <4>3
        <5>2. classes[a].data # NULL /\ classes[a].data = classes[b].data
          BY <3>1, <4>3, <5>1 DEF Allocated
        <5> QED BY <1>0, <5>1, <5>2 DEF DataInv
      <4> QED BY <4>2, <4>3 DEF DataInv
    <3>4. Held \subseteq Held'
      BY <1>2, <2>2 DEF Held, Allocated
    <3> QED BY <3>3, <3>4 DEF LostOnlyWithoutDestructor
  <2> QED BY <2>6, <2>7, <2>10, <2>11 DEF Kept, RegistryInv
<1>6. CASE RegisterAgain(n, c)
  <2> DEFINE old == table[n]
  <2>0. old \in Classes /\ old # c /\ classes[old].allocated /\ classes[old].name = n
    BY <1>0, <1>3, <1>6 DEF RegisterAgain, RegisteredIsAlive, oil_class_get, TypeOK
  <2>1. /\ classes' = [classes EXCEPT ![c] = new, ![old].allocated = FALSE, ![old].data = NULL]
        /\ table' = [table EXCEPT ![n] = c] /\ slot' = [slot EXCEPT ![n] = c]
        /\ UNCHANGED <<initialized, destructor, key_of, strings>>
        /\ initialized = TRUE
    BY <1>6 DEF RegisterAgain, Table!Insert
  <2>2. /\ classes' \in [Classes -> OilClass]
        /\ classes'[c] = new
        /\ classes'[old].allocated = FALSE /\ classes'[old].name = n
        /\ \A e \in Classes : e # c /\ e # old => classes'[e] = classes[e]
    BY <1>0, <1>1, <2>0, <2>1 DEF TypeOK, OilClass
  <2>3. \A e \in Classes : e # c => /\ e # old => classes'[e].data = classes[e].data
                                    /\ classes'[e].name = classes[e].name
    BY <2>0, <2>2
  <2>4. \A e \in Classes : classes'[e] = Unborn => classes[e] = Unborn
    <3>1. classes'[old].name # Unborn.name
      BY <2>2 DEF Unborn
    <3> QED BY <1>1, <2>2, <3>1
  <2>5. ASSUME NEW d \in Data
        PROVE  /\ destroyed'[d] \in Nat /\ destroyed'[d] <= 1
               /\ destroyed'[d] = 1 => \A b \in Allocated' : classes'[b].data # d
               /\ destructor /\ d \in Held \ Held' => destroyed'[d] = 1
    <3>1. destroyed'[d] = destroyed[d] + IF destructor /\ classes[old].data = d THEN 1 ELSE 0
      BY <1>6 DEF RegisterAgain
    <3>2. destroyed[d] \in Nat /\ destroyed[d] <= 1
      BY <1>0 DEF TypeOK, DataInv, DestroyedOnce
    <3>3. d # NULL
      OBVIOUS
    <3>4. \A b \in Allocated' : b # old /\ (b # c => b \in Allocated)
      BY <2>0, <2>2 DEF Allocated
    <3>5. CASE classes[old].data = d
      <4>1. destroyed[d] = 0
        BY <1>0, <2>0, <3>2, <3>5 DEF DataInv, DestroyedOnce, Allocated
      <4>2. \A b \in Allocated : b # old => classes[b].data # d
        BY <1>0, <2>0, <3>3, <3>5 DEF DataInv, Allocated
      <4>3. \A b \in Allocated' : classes'[b].data # d
        BY <1>1, <2>2, <2>3, <3>3, <3>4, <4>2 DEF Allocated
      <4> QED BY <3>1, <3>5, <4>1, <4>3
    <3>6. CASE classes[old].data # d
      <4>1. destroyed'[d] = destroyed[d]
        BY <3>1, <3>2, <3>6
      <4>2. destroyed[d] = 1 => \A b \in Allocated' : classes'[b].data # d
        BY <1>0, <1>1, <2>2, <2>3, <3>3, <3>4 DEF DataInv, DestroyedOnce, Allocated
      <4>3. d \notin Held \ Held'
        BY <1>2, <2>0, <2>2, <3>6 DEF Held, Allocated
      <4> QED BY <3>2, <4>1, <4>2, <4>3
    <3> QED BY <3>5, <3>6
  <2>6. destroyed' \in [Data -> Nat]
    BY <1>6, <2>5 DEF RegisterAgain
  <2>7. table' \in [Names -> Classes \cup {NULL}] /\ slot' \in [Names -> Classes \cup {NULL}]
    BY <1>0, <2>1 DEF TypeOK
  <2>8. TypeOK'
    BY <1>0, <2>1, <2>2, <2>6, <2>7 DEF TypeOK
  <2>9. \A m \in Names : m # n => table'[m] = table[m] /\ table[m] # old
    BY <1>0, <2>0, <2>1 DEF RegisteredIsAlive, oil_class_get, TypeOK
  <2>10. table'[n] = c
    BY <1>0, <2>1 DEF TypeOK
  <2>11. RegisteredIsAlive'
    <3>1. ASSUME NEW m \in Names, table'[m] # NULL
          PROVE  initialized' /\ classes'[table'[m]].allocated /\ classes'[table'[m]].name = m
      <4>1. CASE m = n
        BY <1>1, <2>1, <2>2, <2>10, <4>1
      <4>2. CASE m # n
        <5>1. table'[m] = table[m] /\ table[m] \in Classes /\ table[m] # old /\ table[m] # c
          BY <1>0, <1>3, <2>9, <3>1, <4>2 DEF TypeOK
        <5> QED BY <1>0, <2>1, <2>2, <5>1 DEF RegisteredIsAlive, oil_class_get
      <4> QED BY <4>1, <4>2
    <3> QED BY <3>1 DEF RegisteredIsAlive, oil_class_get
  <2>12. KeysInv'
    <3>1. \A e \in Classes : strings'[e] \in {0, 1} /\ (classes'[e] = Unborn => strings'[e] = 0)
      BY <1>0, <2>1, <2>4 DEF KeysInv
    <3>2. ASSUME NEW m \in Names
          PROVE  table'[m] # NULL <=> key_of'[m] # NULL
      BY <1>0, <2>0, <2>1, <2>9, <2>10 DEF KeysInv
    <3>3. ASSUME NEW m \in Names, key_of'[m] # NULL
          PROVE  strings'[key_of'[m]] = 1 /\ classes'[key_of'[m]].name = m
      <4>1. key_of'[m] = key_of[m] /\ key_of[m] \in Classes /\ key_of[m] # c
        BY <1>3, <1>4, <2>1, <3>3
      <4> QED BY <1>0, <2>1, <2>3, <4>1 DEF KeysInv
    <3> QED BY <3>1, <3>2, <3>3 DEF KeysInv
  <2>13. DataInv'
    <3>0. \A a \in Allocated' : classes'[a].data # NULL =>
             a \in Allocated /\ classes'[a].data = classes[a].data
      BY <1>1, <2>0, <2>2, <2>3 DEF Allocated
    <3>1. \A a, b \in Allocated' :
             classes'[a].data # NULL /\ classes'[a].data = classes'[b].data => a = b
      BY <1>0, <3>0 DEF DataInv
    <3> QED BY <2>5, <3>1 DEF DataInv, DestroyedOnce
  <2>14. LostOnlyWithoutDestructor
    BY <2>5 DEF LostOnlyWithoutDestructor, Held
  <2> QED BY <2>8, <2>11, <2>12, <2>13, <2>14 DEF Kept, RegistryInv
<1> QED BY <1>5, <1>6 DEF oil_class_register

LEMMA RegistryStep == ASSUME RegistryInv, [Next]_vars PROVE Kept
<1>1. CASE UNCHANGED vars
  <2>1. TypeOK' /\ RegisteredIsAlive' /\ KeysInv'
    BY <1>1 DEF vars, RegistryInv, TypeOK, RegisteredIsAlive, oil_class_get, KeysInv
  <2>2. DataInv' /\ LostOnlyWithoutDestructor
    BY <1>1 DEF vars, RegistryInv, DataInv, DestroyedOnce, Allocated, Held,
                LostOnlyWithoutDestructor
  <2> QED BY <2>1, <2>2 DEF Kept, RegistryInv
<1> QED BY <1>1, InitKeeps, UninitKeeps, RegisterKeeps, AddDataKeeps, RemoveKeeps DEF Next

-----------------------------------------------------------------------------
(* The theorems *)

\* Registrations, replacements, removals and re-initializations keep the
\* invariant that the lives of classes, keys and attachments rest on.
THEOREM RegistryInvariance == Spec => []RegistryInv
<1>1. RegistryInv /\ [Next]_vars => RegistryInv'
  BY RegistryStep DEF Kept
<1> QED BY <1>1, RegistryInit, PTL DEF Spec

\* oil_class_get never answers a class that was destroyed or that has another
\* name.
THEOREM ClassesStayAlive == Spec => []RegisteredIsAlive
<1>1. RegistryInv => RegisteredIsAlive
  BY DEF RegistryInv
<1> QED BY <1>1, RegistryInvariance, PTL

\* Each stored key is a live string of its own, and no string is freed twice.
THEOREM KeysStayAlive == Spec => []KeysAreAlive
<1>1. RegistryInv => KeysAreAlive
  BY DEF RegistryInv, KeysInv, KeysAreAlive
<1> QED BY <1>1, RegistryInvariance, PTL

\* No attachment is destroyed twice, or while a live class holds it.
THEOREM AttachmentsDieOnce == Spec => []DestroyedOnce
<1>1. RegistryInv => DestroyedOnce
  BY DEF RegistryInv, DataInv
<1> QED BY <1>1, RegistryInvariance, PTL

\* No attachment is lost as long as there is a destructor.
THEOREM AttachmentsAreDestroyed == Spec => NoLostData
<1>1. RegistryInv /\ [Next]_vars => [LostOnlyWithoutDestructor]_vars
  BY RegistryStep DEF Kept
<1> QED BY <1>1, RegistryInvariance, PTL DEF Spec, NoLostData
=============================================================================
