# A verification of liboil (cee1/oil)

liboil lets a program call a function through a pointer, the *slot* of a
function class, and chooses at run time which of several implements of that
function the pointer designates: by testing and timing all of them
(`oilfuncs_init_auto`), or by reading a list (`oilfuncs_init_from_ini`). The
library is single-threaded C; its only asynchrony is SIGILL. What is hard in it
is bookkeeping over long sequences of calls: holes, vacuums and reallocations
under pointers, tombstones and rehashing, strings with two owners, buffers that
are armed from each other, one line buffer parsed in place, initializations that
meet whatever an earlier one left.

The modules in this directory model that logic, TLC checks it on small
instances, and TLAPS proves for all instances every safety property that TLC checks
and finds to hold.

## 1. Inventory

| Part | State | Operations | Interacts with |
|---|---|---|---|
| Implements of a class, `oilcore/oilclass.c` | `impls[]`, `n_occupied`, `n_alloc`, `n_impls`, `active_impl`, `*slot_p` | add, remove, clear, activate; get, foreach | visited by the tester; activated by the tester and the ini loader |
| Registry of classes, `oilcore/oilclass.c` | `oil_classes`, `oil_class_data_destructor`, each class's `name`, `data` and slot | init, uninit, register, remove, remove_all, add_data; get, foreach | stores classes in the hash table, which frees keys and destroys classes by callback |
| Hash table, `oilcore/hashtable.c` | buckets, `nnodes`, `noccupied`, shift | new, insert, remove, remove_all, destroy; lookup, foreach | calls back hash, equality and destroy functions |
| CPU features, `oilcore/oilcpu.c` | none | flags of the CPU, names of flags | asked by tester and loader |
| Optimizer and fault handler, `oiltest/oiltester.c` | three sets of sample buffers, the fixture, `in_try_block`, `enable_level`, the signal handler; per class the parsed prototype | attach, optimize a class or all | runs every implement under `setjmp`; uses checker, profiler, configuration; activates the choice |
| Checker, `oiltest/oilchecker.c` | tolerance | init, generate sample, check result, uninit | draws from the configuration's generator |
| Profiler, `oiltest/oilprofiler.c`, and timer, `oiltest/oilutil.c` | histogram of times | begin, start, stop, end | called by the marshal function around the tested call |
| Test configuration, `oiltest/oiltestconfig.c` | a stack of frames, each owning a seed string and a generator | push, set, get, pop, pop_all | read by tester, checker, log |
| Ini loader, `oilfuncs/ini-init.c` | one line buffer, the section in force | load | looks up and activates implements |
| Initialization, `oilfuncs/auto-init.c`, `ini-init.c` | none | `oilfuncs_init_auto`, `oilfuncs_init_from_ini` | sequences of calls into all the above |
| Prototype parser, `oiltest/oilparameter.c` | none | parse a prototype into parameters | used when a class is attached |
| Log, utilities, code generators, the functions themselves | output, random arrays, generated code | - | the generated code registers and attaches classes and adds implements |

What makes each part correct, and hard:

* **Implements.** A lookup must find what was added last under a name, whatever
  holes lie around it; counters and cells must agree on every path; the vacuum
  must keep every implement, in order, though it runs only when the array
  changes its length; a pointer into the array must not survive its reallocation.
* **Registry.** A class's name is also the table's key. Which of two equal
  strings is freed depends on whether the name was taken. Attachments are to be
  destroyed once, if there is a destructor at that time.
* **Hash table.** Probes must end, find what is stored and nothing else, through
  tombstones, reuse of tombstones and rehashing; the resize decisions rest on two
  counters; keys and values are owned by the table from some moment on.
* **Tester.** Whatever the tested functions do - fault, overrun, clobber their
  source, compute nonsense - the test ends, gives back the signal handler and
  exports a function that passed, the fastest one.
* **Configuration.** Frames own heap objects; a call may stop half way.
* **Prototypes.** The arrays a function is tested with must be as large as its
  prototype says, under whatever numbers the top frame holds, although a stride
  once computed is kept.
* **Checker.** What it fills before a test and compares after it must be what a
  function reads and writes, although lengths and strides may come from different tests.
* **Profiler.** The histogram is written at an index that no code bounds; the loop that
  drops measurements changes what it averages over, must end, and must leave one;
  the average must be that of the calls.
* **Initialization.** It must leave every function registered, with its implements and
  its test information, whatever was registered, removed or initialized before it.
* **Loader.** Each line must be understood as it is written although the buffer
  holds what the lines above left there.

The list of hazards, each at its line, is in `PROJECT.json`.

## 2. Modules

| Module | Models | Role |
|---|---|---|
| `ImplMap` | what a class promises: a map from names to implements, and an exported function | abstract specification |
| `OilImplements` | the array, the pointer and the slot of one class | shown to implement `ImplMap` |
| `OilImplements_proofs` | - | TLAPS proofs about `OilImplements` |
| `Dict` | what the hash table promises: a dictionary | abstract specification |
| `HashTable` | open addressing with tombstones and resizes | shown to implement `Dict` |
| `HashTable_proofs` | - | TLAPS proofs about `HashTable` |
| `OilRegistry` | classes, keys, attachments and slots | built on `Dict` |
| `OilRegistry_proofs` | - | TLAPS proofs about `OilRegistry` |
| `OilFuncs` | programs that initialize oilfuncs and use the registry | extends `OilRegistry`; composes it with what the tester, the loader and the implements promise |
| `OilFuncs_proofs` | - | TLAPS proofs about `OilFuncs`, built on those about `OilRegistry` |
| `OilTester` | optimizing a class, with faults | built on `ImplMap` |
| `OilTester_proofs` | - | TLAPS proofs about `OilTester` |
| `OilProfiler` | histogram, dropping of measurements, average, and the timer | - |
| `OilProfiler_proofs` | - | TLAPS proofs about `OilProfiler` |
| `OilIni` | loading an ini-string | - |
| `OilIni_proofs` | - | TLAPS proofs about `OilIni` |
| `OilTestConfig` | the stack of configurations | - |
| `OilSample` | parsing a prototype, attaching it, laying out, filling and comparing the arrays of a test | extends `OilTestConfig`, whose frames it reads |
| `OilSample_proofs` | - | TLAPS proofs about `OilTestConfig` and `OilSample` |
| `MC_*` | instances for TLC | with one `.cfg` per run |

Two modules are used by others only through what they were shown to implement:
`OilRegistry` works on `Dict` and `OilTester` on `ImplMap`. Operators that begin
with *A mistake:* in their comment are not the code: they are plausible bugs
(a forgotten reset, a swapped order), kept beside the operator they would
replace, and each property is known to fail under one of them.

### OilImplements

`impls` is a function on `0 .. n_alloc - 1`. A cell is an implement, a hole
(`name` is NULL) or `Uninit`: malloc'd and never written, or left behind by the
vacuum. `active_impl` is NULL, an index, or `Dangling`: `realloc` may move the
block or keep its address, and the code assigns the field in neither case, so
after a resize the pointer is stale or designates whatever the cell now holds.
`n_strings` counts `strdup`s not yet freed. `oil_class_add_implement` is the
disjunction of its three cases (replace, fill the first hole, append), each with
the guard the scan of lines 288-298 gives it; `_class_vacumm_impl_array` is the
one order-preserving function onto the held cells (`Squeezes`); `Resize` is
`_class_resize_impl_array`, whose `realloc (p, 0)` may return NULL, on which the
code aborts. `EXTEND_CHUNK` is 3 as in the code.

### HashTable

Buckets hold records with the stored hash; 0 is empty, 1 a tombstone. `StopStep`
is where the loop of a lookup stops: a set that is empty if it would not stop
within as many steps as there are buckets (the probe sequence repeats after that),
which is what `StoredIsFound` excludes for every key, stored or not. `Placement` is the loop of
`_hash_table_resize` as a recursive function: each node of the old table is given the first
bucket of its probe that the nodes before it left free. `prime_mod`
is the table of the code. The minimal shift is a constant: 3 in the code, 2 in
the run, so that four and eight buckets already see growth and shrinking.
`MaxNodes` bounds how many nodes are stored at a time; that it is less than 2^29 keeps the
size of the table an `int`, which the code takes for granted.
`hash_table_foreach` changes nothing and has no action.

### OilRegistry

`strings[c]` is how often the string duplicated for class `c` was made less how
often it was freed, and `key_of[n]` whose string is the key of name `n`. Addresses
of classes and attachments are not reused, so that a stale pointer can be told
from a live one; this bounds the runs to as many registrations as there are
`Classes`. Destruction of a class runs `_destroy_class`: its implements are the
concern of `OilImplements`. A client attaches data to a class it knows to be alive, and
detaches with NULL, on which the destructor is called as on a replacement. What it attaches is
`Free`: not destroyed, and held by no live class. An attachment that left its class
while there was no destructor is the client's again and may be attached again; to attach
one that a live class holds, the same class included, would have it destroyed
while it is in use, is a mistake of the client and excluded.

### OilFuncs

`oilfuncs_init_auto` and `oilfuncs_init_from_ini` are programs: sequences of calls,
in the order in which the generated functions make them, of which `todo` is
what is left. `Run` carries out the next call with the actions of `OilRegistry`;
a call whose class is missing, or attached already, does nothing, as in the code.
`impls` is what each class has of implements, pairs of a name and a function, since
`OilImplements` shows that its array is a map; `exported` is what the slot of a name holds of
its class. Adding replaces the function of an implement that is there. Adding, removing and
clearing leave the slot alone (`SetImpls`), which an activation writes whether or not the CPU can
run the implement. What a test selects (`oil_test_optimize_class_all`) is the promise of
`OilTester`: of a class with test information the reference, or an implement the CPU can
run. What a list selects (`oil_load_ini`) is that of `OilIni`. Between
initializations the client registers, removes, attaches, detaches, adds, replaces, removes, clears and
activates implements, uninitializes, tests and
loads as it likes (`ChangeRegistry`, `Choose`), on the classes it finds by `oil_class_get`: a
class that is registered nowhere has no implements. That removing the last implement may end the
process is in `OilImplements` and not here. What the client adds is in the bound `Added`. In the middle of one it does
nothing, since the program has one thread and no callback of an initialization is the client's. `ready` is a history
variable: since which initialization nothing but the choice was changed. So is `since`: whether
the client, after the slot was written last, took an implement away or replaced its
function (`"changed"`), and whether it was the client who wrote it (`"activated"`).
`EnoughLeft` is a bound: an initialization begins only if there are addresses to
finish it.

### OilTester

One class with `NImpls` implements and a reference. Each function has a
*behaviour* chosen once: what it does to its source, to its destination and to
the guard bytes around it, or that it meets an illegal instruction. The content of a set
of buffers is abstracted to what the checks tell apart: the source is guard
bytes, the sample, or spoiled; the destination holds guard bytes, the image of
one of these, or something else. `pc` follows `_optimize_class`:
`idle`, `begin` (before the flags are tested and the profiler begins), `try`
(inside `OIL_TRY`), `teardown`. One step is one iteration (arm and call), so a
fault can come in any of them. `measured`, `refused`, `faults` and `runs`
are history variables. Average times are chosen from `Times`, since what
the profiler does is in `OilProfiler`.

### OilProfiler

Times are whole nanoseconds, as the clock gives them, and `Giga` stands for the 10^9
of them in a second. `Elapsed` is the formula of `oil_timer_elapsed_default`,
brought to nanoseconds: its seconds part is a product where its nanoseconds part is a
quotient. `hist` is the pair of arrays `hist_time` and `hist_count` up to `hist_n`.
`Recorded` is the search and the update of `oil_profiler_stop`; `AddUp` is what a pass of the
loop of `oil_profiler_end` adds up over the entries. `Drops` is
`off > 4.0` without its fractions and its root, with what the code's arithmetic
makes of a negative radicand and of a division by zero; `sum` is carried from one
pass of the loop to the next as in the code. The average is kept as its sum and its
count. A pass over a histogram without entries reads before the array
(`PassOverNothing`), which takes no iterations at all; `Fault` leaves the data where they
are. The minimum is left out: nothing reads it. The code's doubles have rounding errors, which exact numbers do not show.

### OilIni

`text` is the string cut at its newlines, `line` the buffer of
`MAX_LINE_LEN + 1` characters. `Overlay` is `strncpy (line, start, len)`: it
writes the characters and no terminator, so what is behind them stays. `Chars` are the
characters of strings; the NUL that ends a string is none of them.
`Padded` is the last copy, which pads. `ReadSection` and `ReadKey` write the NULs
that the parser writes into the buffer, because the next line may see them.
`Meant` says what the string means independently of the buffer: a line means what its
first `MAX_LINE_LEN` characters mean (`Said`; one less of the last line), so a line that is too
long may choose something else than was written, and must not touch the lines below it. The loader either
returns, or aborts on a line it cannot parse (`RejectLine`).

### OilTestConfig

Frames point into two heaps, `strings` and `rands`. A generator is abstracted to
what it was seeded with and how far it went: `_gen_seed_from_string` writes only
the first of four words, so three of them are `Noise`. A call is a sequence of
options, carried out by `SetOption` one by one (`SetOptions`): an unknown option ends it; a seed that is too
short is a `g_error`, which ends the process.

### OilSample

`params` is `OilClassData.parameters` of one class, field by field; the guard byte
is left out and `size` is what lies between header and footer. A prototype is given by
the words that the regular expression captures, so `oil_prototype_parse` is the
table of argument types, the defaults of length specifications, the known types
and the sanity check. `_calc_sample_layout` is `Layout`: it goes through
arguments by type, so of two parameters with one type the last counts. `n` and `m`
are the same type, so `m` is given the number of `n`; an array without stride
parameter is not laid out at all. `first` and `last` only remember the numbers of
tests. `_optimize_class` is a test up to the verdicts: the layout, the sample drawn from the generator of the
top frame (which may make the bottom frame as a side effect), and the comparison if
something is to be compared (`judged`); an array whose type has no star is a
`g_error` in either. `Looked` is where in an array the checker fills and compares
elements. Pushing, setting and popping go on between tests.

## 3. Runs

Passing runs (deadlock is checked unless the run says otherwise):

| Run | Instance | Shows |
|---|---|---|
| `oil_implements` | 4 names, 2 functions, 1 feature word | types, counters, no read of uninitialised cells, unique names, no leaked name; visiting order and the active implement are stable; the class implements `ImplMap` |
| `hash_table` | 5 keys with colliding hashes (0, 1, 2 share a stored hash, 2 and 5 share a bucket), 2 values, at least 4 buckets | probes end, stored is found, counters, sizes, ownership; the table implements `Dict` |
| `oil_funcs` | 2 functions, one of them tested and listed; 3 implements, one of them not runnable; 3 more that a client adds, which replace these with the other function or put back what was there; 4 addresses of classes, 2 attachments, with symmetry | liveness of classes, keys and attachments across replacement, removal, detachment and re-initialization; callers reach what was chosen for the registered class; after an initialization the functions are ready |
| `oil_tester` | 2 implements, 2 iterations, 3 times, 4 behaviours of the reference, 7 of implements, 2 tests | safety and speed of the choice, faults, and that tests end |
| `oil_ini` | all ini-strings of up to 4 lines over 14 lines, two of them longer than the 6 characters that are read | what is activated can run; faithful loading when what is read of the lines does not get shorter |
| `oil_sample` | up to 2 frames, 2 options per call, 1 draw, 2 values of `test_n` and 1 of `test_m`, 12 prototypes, 4 of them to be refused | ownership of seeds and generators, frames beneath the top are kept; functions are given the number their arrays were laid out for, the arrays have room for what the prototype says, the checker sees all of it, and equal numbers give equal layouts |
| `oil_profiler` | 0, 1, 2, 6 or 10 iterations; calls of 1, 2 or 5 that begin at 0 or 18 of a second of 20; precision 2 | room in the histogram, counts, closeness of the average, one measurement is kept, and the loop ends |

Why the bounds are enough. Four names make the array grow past one chunk, shrink
back over it with holes at the front, in the middle and at the end, and empty
out; two functions tell a replaced implement from the old one. Five colliding
keys fill the 4-bucket table past its limit, grow it to 8 and 16 buckets and shrink it.
Four addresses of classes allow two initializations of two functions each, or one with two
classes of the client's before or after it; the second attachment is that of the second
initialization, or of the client. Two
implements are the least with a best-so-far to beat, two iterations the least in
which the second is armed from what the first left, two tests show that nothing
is carried over. Four lines allow section, key and two more lines of any relative length; the last is the
one that pads, unless it is cut. One of the lines that are too long is a comment, the other a key
line that chooses `xy`, and `x` once it is cut, and an empty value as the last line. Two
frames have a bottom and a top that is pushed and popped, so that `n` grows and
shrinks between tests; the prototypes accepted cover length specifications of both
kinds, each default, both orders of dependence on `n`, `m` beside `n`, an
array without stride, a doubled stride and arrays without a star. A measurement is more than four
deviations from the average only among ten or more, so the profiler has a
run of ten; a second of 20 is passed by calls that begin at 18, and a precision of 2
makes 1 and 2 one entry and 5 another. The bound `MaxDraws` stops counting the numbers
drawn, and does not stop the drawing. `MaxNodes` is 8 in `hash_table`, whose five keys never reach it:
it bounds the theorems and not the run.

`RoomForRows` says what it leaves out: lengths in `m`, lengths in an `n` that is not a parameter,
arrays without stride or whose type is no pointer, doubled parameters (none is laid out as meant, see the
hazards), and tests whose `n` is larger than in the first, whose strides are
kept. `CheckerSeesAll` makes the same exceptions but the last: a kept stride is
that of the function too, so the checker still walks the same elements.
`SameNumbersSameLayout` leaves out a first test with `n` = 0: its strides
of 0 count as not computed yet. `AverageIsClose` is about histograms of which nothing
was dropped: the sum of the code goes on from pass to pass while its count starts
again, so that an average after a drop is about twice too large.

Where stopping is legal the configuration says `CHECK_DEADLOCK FALSE`:
`oil_implements` (after an abort), `oil_sample` (after `g_error`),
`oil_tester` (once `MaxRuns` tests were run) and `oil_profiler` (after the crash of a
check without iterations). In `oil_ini` the end of the
loader is a step of its own (`Over`), so the absence of deadlock says that
each line falls under one of the parser's cases; in `oil_funcs` it says that no
call of an initialization is ever stuck.

Fairness is assumed in two modules. In `OilTester`, weak fairness of the whole
next-state relation: the code is one thread that is not blocked by anything, and a step it can take it takes. The tested
functions return or fault: one that loops for ever would keep the real tester
from returning too, and is not modelled. `TestsEnd` is checked under this fairness;
the choices of *which* step is taken are not fair, and need not be. In
`OilProfiler`, weak fairness of `Pass` only: the loop of `oil_profiler_end` runs on,
and nothing is assumed of its callers. `EndReturns` says that the loop ends.

## 4. Disagreements found

Each is a run that violates one property stating what the repository says; TLC
finds the shortest sequence of calls.

* `remove_returns`: removing the last implement shrinks the array to zero
  bytes; `realloc (p, 0)` returns NULL on glibc and the library aborts.
* `names_are_readable`: registering a name twice frees the new class's own name.
* `do_nothing_is_refused`: `_check_reference` arms the source sample from the
  reference's buffers instead of the reverse; after two iterations the sample
  holds the reference's results, and an implement that does nothing passes.
* `loads_any_as_meant`: a line shorter than the one above keeps that line's tail; a
  blank line below a section aborts.
* `average_in_seconds`: the timer multiplies its seconds and divides its nanoseconds by
  10^9, so that a call during which a second begins counts for 10^9 seconds.

More are in the models without a run of their own.

* `oil_class_get_active_implement` is documented (`oilclass.c:482-489`) to return "the name of the current
  active implement", or NULL. Once the array was reallocated (`:642`), which any addition or removal
  may do, it reads a pointer into the old one: the block may be gone, or the cell hold what the
  vacuum moved there. `ActiveIsStable` says what is left: the function that callers reach, and
  its binding. And after the active implement itself
  is replaced, removed or cleared, the slot and the name reported as active part
  ways (`ImplMap` and `SlotHoldsRegistered` say what is kept).
* `_prototype_check_sanity` means to "check that no parameter depends on n" (`oilparameter.c:429`) in
  a prototype without `n`, but `m` has the argument type of `n` (`:378`), so that a prototype with
  `m` and without `n` is accepted whatever depends on `n` (`:422`). Its function is given the number of `n`
  as `m` (`LengthsAreGiven`).
* `continue` inside the `do { } while (0)` of
  `oil_act_if_fail` leaves the macro, not the option, so that refused numbers are
  stored (`SetOption`).

## 5. Proofs

Each theorem holds for every value of the constants that satisfies the named
assumption of its module: that sets of things are told apart (NULL is no address, no string, no
sequence of parameters), that a constant has the type its comment says, and the like. Every module's argument is one inductive invariant, a lemma for each
action that preserves it, and theorems that draw their properties from it.

**`OilImplements_proofs`**, for any sets of names, functions and feature
words and arrays of any length, from `OilImplementsAssumption` (NULL and
`Dangling` are told apart from indices and names, the reference is not one of the
implements' functions, an uninitialised cell is not an implement):

* `Invariance`: `IInv` is invariant. `IInv` is the conjunction
  `TypeOK /\ Accounting /\ NoUninitRead /\ UniqueNames /\ NamesOwned`. No conjunct but the first is
  inductive by itself: the lookups of a step return one cell only by `UniqueNames`; writing the
  appended cell at `n_impls` is right only if the array has no hole exactly when
  `n_impls = n_occupied`, which is `Accounting`; the vacuum is onto the held
  cells only if those can be read (`NoUninitRead`); and the strings a step frees are
  counted against the cells it changes (`NamesOwned`). `NoUninitRead` also says that the
  cells read are inside the array.
* `TypeCorrect`, `CountersAgree`, `ScansAreDefined`, `NamesAreUnique`,
  `NoNameLeaks`: its conjuncts, the safety invariants of the run `oil_implements`.
* `OrderStable` and `ActiveStable`: the two action properties of that run. The second lists
  the calls that may disturb an activated implement (`Concerns`), an activation or a call about the
  implement itself; under every other call, with all the moving it does,
  it stays bound and callers keep reaching its function. The pointer is kept as well unless
  the array is reallocated.
* `Refinement`: the class implements `ImplMap`, under the mapping that looks each
  name up (`Bound`). Every action maps to the action of `ImplMap` of the same
  purpose: adding to `Bind` whichever of its three cases it takes, removing to `Unbind` with
  all the moving a vacuum does. Nothing but reading the map through `Find` is used of the array.

**`OilRegistry_proofs`**, from `OilRegistryAssumption` (NULL is no name, class or
attachment). `RegistryInv` is `TypeOK /\ RegisteredIsAlive /\ KeysInv /\ DataInv`.
`KeysAreAlive` is not inductive: a step that gives a new class a name must know that the key
stored under it was made under the same name (so that it belongs to no other
entry) and that the new class's own string is not a key yet, which is `KeysInv`.
`DestroyedOnce` needs that no two live classes have the same attachment (`DataInv`).
`ClassesStayAlive`, `KeysStayAlive`, `AttachmentsDieOnce` and
`AttachmentsAreDestroyed` are the properties that the run `oil_funcs` checks.

**`OilFuncs_proofs`**, from `OilFuncsAssumption` (each function is listed once, no
implement is the reference) and that of the registry:

* `FuncsInvariance`: `FuncsInv` is
  `RegistryInv /\ ExportInv /\ TodoInv /\ ReadyInv`. `FuncsReady` speaks of the end of an
  initialization; what is true in its middle is `ReadyInv`: for each function each call of the program
  either is still pending or has had its effect. For this to survive a registration, which
  throws a class away with its implements and attachment, the calls that bring them back must be
  pending still, which is so because the calls come in the order of `Rank` (`TodoInv`). And what
  a test or a list chooses in the end must be an implement again, whatever the client replaced
  before: by then every class has the implements of `Regs` with their functions, one of a name.
* `FuncsTypes`: the types of the run, from the same invariant.
* `CallersReachRegistered` and `FunctionsAreReady`: for any functions, implements and lists. The first
  holds under all calls of a client because a registration writes the slot when it throws the old class
  and its implements away, and a test or a list chooses among the implements there are.
* `FuncsUseRegistry`: `FuncsSpec => Spec`: programs take only steps of `OilRegistry` or
  leave it alone; so `FuncsKeepAttachments` and the invariants of the registry hold of them.

**`OilTester_proofs`**, from `OilTesterAssumption`, for any number of implements and
iterations, any features, behaviours and times. `TesterInv` is
`TypeOK /\ Progress /\ Buffered /\ Measured`. That the choice is safe rests on
what the buffers hold while an implement runs (`Buffered`: after at least one
iteration, the effect of the implement on a source that is not spoiled if the
reference is correct), since that is what the verdict compares. That it is the fastest rests on `Measured`: `min_val`
is the least time so far, and 0 stands for no time as well.
`FaultsCaught`, `ChoiceIsSafe`, `ChoiceIsFastest` and
`NothingWithoutReference` are the invariants of the run `oil_tester`.

**`HashTable_proofs`**, from `HashTableAssumption` (a minimal shift of at least 1, hashes that are
numbers, fewer than 2^29 nodes, NULL is no key or value), for any keys, values and hashes and tables of any size that
this leaves. Three facts come first:

* a probe meets every bucket within as many steps as there are (`ProbeMeetsAll`: the sums
  0, 1, 3, 6, ... are different modulo 2^s), so it ends in a table that is not full;
* `Placement` gives each node a bucket of its own, the first that is free on its probe when
  its turn comes (`PlacementKeeps`); so the new table is again one in which each node is where its
  probe stops (`RehashKeeps`);
* a change of one bucket changes the counts of nodes and of occupied buckets by what the code adds or subtracts.

`Inv` says that each node sits on its probe with no bucket before it that was never used (`IsTable`), that
the counters count, that there is a bucket which was never used, and that keys and values are
owned one for one. None of it holds alone: probes end because the counters force a resize
before the table is full, and the counters stay right because an insertion finds the node of
its key, if there is one, before it takes a tombstone.
`TableTypes`, `LookupsAnswer`, `CountersCount` and `NodesOwn` are the invariants of the run
`hash_table`; `TableIsDict` is its refinement: insertion, removal and emptying map to those
of `Dict`, the others to stutters. It is what `OilRegistry` is built on.

**`OilProfiler_proofs`**, from `OilProfilerAssumption`. `ProfilerInv` bounds the
histogram by the calls measured and those by the iterations, and says that any two entries are at least
the precision apart, which is why a measurement has an entry of its own only if it is
near none. `ArraysSuffice` is the part of `HistogramFits` that keeps the writes inside the
arrays, and `HistogramResolves` that measurements are not spread over entries
needlessly. `SumsInv` adds what the histogram adds up to: as long as nothing was
dropped, as many measurements as were made, and a sum of times that is off by less than the
precision for each of them. `MeasurementsAreCounted` and `AveragesAreClose` follow.
`OneStays` is about passes after a drop: the last entry that is counted is never above what the code
takes for the average, because its sum goes on from pass to pass and no time is negative.

**`OilSample_proofs`**, from the assumptions of `OilTestConfig` and `OilSample`, for any
prototypes, options, numbers and heights of the stack. `SampleInv` has two parts.

* `Owned`: the heaps hold exactly what the frames point to, no two frames point to the same,
  and each generator was made from the string beside it. A call with several options keeps
  it after every single one of them (`Setting`), so it does not matter at which option the call stops.
  `ConfigurationOwns` and `BeneathIsKept` follow.
* `LaidOutFrom`: what is attached was parsed from a prototype, and whatever tests there were,
  lengths and sizes are those of the last (`LaidFor`) and strides those of the first
  (`StridesFrom`), unless the first left strides of 0. `SampleTypes`, `NumberIsKept`, `CheckerCoverage`,
  `ArraysHaveRoom` and `SameNumbers` follow: `CheckerCoverage` and `ArraysHaveRoom` are about numbers of
  different tests that meet in one product, which is why the invariant has to remember which
  test each came from.

The attempt to prove `ArraysHaveRoom` showed a case that the model's properties had overlooked and the run's
prototypes did not contain: `uint8_t *s_n, int ss, int m`, with rows in an `n` that is no parameter.
The sanity check accepts it, because `m` has the argument type of `n`, and lays it out for a
number its function is given as `m` only. `IsPlain` now names the case, and the instance has the prototype;
`NumberIsKept` says what does hold of it.

**`OilIni_proofs`**, from `OilIniAssumption`, for strings, lines and buffers of any length.
`IniInv` has three parts. `IniTypes`: the buffer is a buffer, and the section a string. `ActiveInv`: what is
active exists and can run; `LoadedIsRunnable` holds
whatever the parser makes of the buffer, by the checks of `do_activate_impl` alone.
`Means`: if the text is well-formed and of no line less is read than of the one above it
(`NeverShorter`), what was loaded is what the lines read so far say, and the buffer is empty behind
the line read last (`Left`) as long as there is another. The latter is what makes the former inductive: then the buffer holds the next line
and nothing else (`Holding`), although it is written over the one before, so
the parser sees the characters of the line (`LineIsTaken`). `LoadedAsMeant` is the
conclusion; the run `loads_any_as_meant` shows that its hypothesis cannot be dropped.

Recursive functions (`Placement`, `AddUp`, `SetOptions`, `Drawn`) are proved about by the least
counterexample: a set of numbers that is not empty has a least element.

Only model-checked: `TestsEnd` and `EndReturns`, since liveness under fairness is out of the
prover's reach. The properties of the runs that expect a violation are false and have no theorem.

## 6. Not modelled

* CPU features: tables chosen by the preprocessor, a constant of the modules.
* The sums of differences of the checker and their tolerances, in floating point; `OilTester`
  has the verdict over abstract contents, with the one case that is special (not a number).
* The distribution of the random numbers, the regular expression of the prototype parser, and the
  formatting of flags. Header, footer and guard bytes
  are in `OilTester` (whether they were overwritten) and not in `OilSample`.
* The Python generators, which run at build time: of what they write, `OilFuncs` has the calls
  and their order. The functions themselves are straight-line copies.
* The log: output only.
* Failure of `malloc`, except for what `realloc` does with a zero length.

## 7. Plan

Done, in this order: implements of a class (with its proofs), hash table,
registry, tester, ini loader, test configuration, prototypes and sample layout; then the
profiler, the initializations, what the checker looks at, and the proofs about registry,
initializations, tester, profiler and loader; then the proofs about the hash table, the
configuration and the sample, the sums of the profiler and the lines of the loader. What is left, the more important first:

1. Compose `OilSample` with `OilTester`: buffers that are armed by the layout, so that an array
   without room overwrites what stands behind it.
2. The checker's sums and tolerances over small integers, with the types whose tolerance is
   taken for another's.
3. Refinements between the proved modules: that the choice of `OilFuncs` is what `OilTester` and
   `OilIni` leave, which `OilFuncs` now takes from them by definition.
