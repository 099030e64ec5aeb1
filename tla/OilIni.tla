------------------------------- MODULE OilIni -------------------------------
(***************************************************************************)
(* Choosing implements from an ini-string (oil_load_ini in                 *)
(* oilfuncs/ini-init.c): the string is cut into lines, each is copied into  *)
(* one buffer that is reused from line to line, and is parsed there, in    *)
(* place; a section line says which CPU features the lines below it need,  *)
(* a key line activates an implement of a class.                            *)
(***************************************************************************)
EXTENDS Integers, Sequences, FiniteSets, FiniteSetsExt

CONSTANTS
    Chars,          \* the characters of a string
    Texts,          \* ini-strings, cut at newlines: the last part follows the last newline
    MAX_LINE_LEN,   \* characters of a line that are read (1023 in the code)
    Implements,     \* class name -> implement name -> the set of CPU features it needs
    FlagOf,         \* flag string -> CPU feature
    CpuFlags,       \* the set of features oil_cpu_get_flags reports
    NUL,            \* the character that ends a string
    NULL            \* the null pointer; also: the reference is active

ASSUME OilIniAssumption ==
    /\ MAX_LINE_LEN \in Nat \ {0, 1}
    /\ {" ", "#", "[", "]", "="} \subseteq Chars /\ NUL \notin Chars
    /\ Texts \subseteq Seq(Seq(Chars)) /\ \A t \in Texts : Len(t) > 0
    /\ NULL \notin Seq(Chars)

VARIABLES
    text,       \* the ini-string being loaded; never changes
    next,       \* the line to be read next
    line,       \* the buffer, MAX_LINE_LEN + 1 characters
    section,    \* the section in force, or NULL
    sections,   \* section strings made by strdup and not yet freed
    active,     \* class name -> the implement activated, or NULL
    status      \* "loading", "done", or "aborted"

vars == <<text, next, line, section, sections, active, status>>

-----------------------------------------------------------------------------
Blank == " "

\* The positions of s in [i, j] that hold something else than blanks
Inked(s, i, j) == {k \in i..j : s[k] # Blank}

\* STR_STRIP on the part [i, j] of s
Strip(s, i, j) ==
    IF Inked(s, i, j) = {} THEN <<>>
    ELSE SubSeq(s, Min(Inked(s, i, j)), Max(Inked(s, i, j)))

\* Where STR_CHOMP ends the string at [i, j] of s: it writes NUL there
Chomps(s, i, j) == IF Inked(s, i, j) = {} THEN {} ELSE {Max(Inked(s, i, j)) + 1}

\* Where the string that starts at i ends
End(s, i) == Min({k \in i..Len(s) : s[k] = NUL})

\* The positions of a character in the string that starts at i
Places(s, i, c) == {k \in i..(End(s, i) - 1) : s[k] = c}

\* The words of a string that are separated by blanks
Words(s) ==
    {SubSeq(s, p[1], p[2]) : p \in
        {q \in (1..Len(s)) \X (1..Len(s)) :
            /\ q[1] <= q[2]
            /\ Inked(s, q[1], q[2]) = q[1]..q[2]
            /\ q[1] = 1 \/ s[q[1] - 1] = Blank
            /\ q[2] = Len(s) \/ s[q[2] + 1] = Blank}}

\* parse_flags_string succeeds, with flags the CPU has.  No section asks for
\* nothing.
SectionHolds(s) ==
    s # NULL => \A w \in Words(s) : w \in DOMAIN FlagOf /\ FlagOf[w] \in CpuFlags

\* A mistake: a line longer than the buffer is copied whole
OverlayUnbounded(buf, s) == s \o SubSeq(buf, Len(s) + 1, Len(buf))

\* strncpy of a line into the buffer.  A line before the last one is copied
\* without a terminator: what is behind it stays.
Overlay(buf, s) ==
    LET n == Min({Len(s), MAX_LINE_LEN})
    IN  SubSeq(s, 1, n) \o SubSeq(buf, n + 1, Len(buf))

\* strncpy of what follows the last newline pads the buffer with NUL
Padded(buf, s) ==
    LET n == Min({Len(s), MAX_LINE_LEN - 1})
    IN  SubSeq(s, 1, n) \o [k \in 1..(MAX_LINE_LEN - 1 - n) |-> NUL]
            \o SubSeq(buf, MAX_LINE_LEN, Len(buf))

Filled == IF next < Len(text) THEN Overlay(line, text[next]) ELSE Padded(line, text[next])

\* The first character of the line that is not blank
First(buf) == Min(Inked(buf, 1, Len(buf)))

\* A mistake: only the features of the section are looked at
ActivateUnsupported(key, value) ==
    active' =
        IF /\ SectionHolds(section)
           /\ key \in DOMAIN Implements
           /\ value \in DOMAIN Implements[key]
        THEN [active EXCEPT ![key] = value]
        ELSE active

\* A mistake: what is active already is kept
ActivateOnce(key, value) ==
    active' =
        IF /\ SectionHolds(section)
           /\ key \in DOMAIN Implements
           /\ value \in DOMAIN Implements[key]
           /\ Implements[key][value] \subseteq CpuFlags
           /\ active[key] = NULL
        THEN [active EXCEPT ![key] = value]
        ELSE active

\* do_activate_impl.  Of an implement that does not exist, the flags tested are
\* those of the section once more, and the activation does nothing.
do_activate_impl(key, value) ==
    active' =
        IF /\ SectionHolds(section)
           /\ key \in DOMAIN Implements
           /\ value \in DOMAIN Implements[key]
           /\ Implements[key][value] \subseteq CpuFlags
        THEN [active EXCEPT ![key] = value]
        ELSE active

-----------------------------------------------------------------------------
Init ==
    /\ text \in Texts
    /\ next = 1
    /\ line = [k \in 1..(MAX_LINE_LEN + 1) |-> NUL]
    /\ section = NULL
    /\ sections = 0
    /\ active = [c \in DOMAIN Implements |-> NULL]
    /\ status = "loading"

\* Go on with the next line, or free the section and return
Advance(held) ==
    /\ next' = next + 1
    /\ IF next = Len(text)
       THEN status' = "done" /\ sections' = held - (IF section' = NULL THEN 0 ELSE 1)
       ELSE sections' = held /\ UNCHANGED status
    /\ UNCHANGED text

\* parse_line on a blank line or a comment
IgnoreLine ==
    /\ Filled[First(Filled)] \in {NUL, "#"}
    /\ line' = Filled
    /\ UNCHANGED <<section, active>>
    /\ Advance(sections)

\* parse_line on a section line that is closed
ReadSection ==
    LET buf == Filled
        first == First(buf)
        right == Min(Places(buf, first, "]"))
    IN
    /\ buf[first] = "["
    /\ Places(buf, first, "]") # {}
    /\ section' = Strip(buf, first + 1, right - 1)
    /\ line' = [k \in DOMAIN buf |->
                   IF k \in {right} \cup Chomps(buf, first + 1, right - 1) THEN NUL ELSE buf[k]]
    /\ UNCHANGED active
    /\ Advance(sections + 1 - (IF section = NULL THEN 0 ELSE 1))

\* parse_line on a key line
ReadKey ==
    LET buf == Filled
        first == First(buf)
        equal == Min(Places(buf, first, "="))
        last == End(buf, first) - 1
    IN
    /\ buf[first] \notin {NUL, "#", "[", "="}
    /\ Places(buf, first, "=") # {}
    /\ line' = [k \in DOMAIN buf |->
                   IF k \in {equal} \cup Chomps(buf, first, equal - 1)
                            \cup Chomps(buf, equal + 1, last)
                   THEN NUL ELSE buf[k]]
    /\ do_activate_impl(Strip(buf, first, equal - 1), Strip(buf, equal + 1, last))
    /\ UNCHANGED section
    /\ Advance(sections)

\* parse_line on anything else: abort ()
RejectLine ==
    LET first == First(Filled) IN
    /\ \/ Filled[first] = "[" /\ Places(Filled, first, "]") = {}
       \/ Filled[first] = "="
       \/ Filled[first] \notin {NUL, "#", "["} /\ Places(Filled, first, "=") = {}
    /\ status' = "aborted"
    /\ line' = Filled
    /\ UNCHANGED <<text, next, section, sections, active>>

\* The loader has returned or aborted.  While it has not, one of the cases of
\* parse_line applies to every line: TLC checks it as the absence of deadlock.
Over ==
    /\ status # "loading"
    /\ UNCHANGED vars

Next ==
    \/ status = "loading" /\ (IgnoreLine \/ ReadSection \/ ReadKey \/ RejectLine)
    \/ Over

Spec == Init /\ [][Next]_vars

-----------------------------------------------------------------------------
(* What an ini-string means, line by line, whatever the buffer holds *)

\* Line i as far as it goes into the buffer: of a line that is too long, its first
\* characters; of the last one, one less
Said(i) ==
    LET most == IF i < Len(text) THEN MAX_LINE_LEN ELSE MAX_LINE_LEN - 1
    IN  SubSeq(text[i], 1, Min({Len(text[i]), most}))

Ink(i) == Inked(Said(i), 1, Len(Said(i)))

Starts(i) == IF Ink(i) = {} THEN Blank ELSE Said(i)[Min(Ink(i))]

Has(i, c) == {k \in Ink(i) : Said(i)[k] = c}

IsIdle(i)    == Starts(i) \in {Blank, "#"}
IsSection(i) == Starts(i) = "[" /\ Has(i, "]") # {}
IsKey(i)     == Starts(i) \notin {Blank, "#", "[", "="} /\ Has(i, "=") # {}

\* The section that the lines below line n are in
MeantSection(n) ==
    LET heads == {i \in 1..n : IsSection(i)} IN
    IF heads = {} THEN NULL
    ELSE LET i == Max(heads) IN Strip(Said(i), Min(Ink(i)) + 1, Min(Has(i, "]")) - 1)

\* Line i chooses implement x of class c
Chooses(i, c, x) ==
    /\ IsKey(i)
    /\ Strip(Said(i), 1, Min(Has(i, "=")) - 1) = c
    /\ Strip(Said(i), Min(Has(i, "=")) + 1, Len(Said(i))) = x
    /\ SectionHolds(MeantSection(i))
    /\ x \in DOMAIN Implements[c]
    /\ Implements[c][x] \subseteq CpuFlags

\* What the first n lines activate: the last one that chooses counts
Meant(n) ==
    [c \in DOMAIN Implements |->
        LET lines == {i \in 1..n : \E x \in DOMAIN Implements[c] : Chooses(i, c, x)} IN
        IF lines = {} THEN NULL
        ELSE CHOOSE x \in DOMAIN Implements[c] : Chooses(Max(lines), c, x)]

\* The lines the comments of the code describe
WellFormed == \A i \in DOMAIN text : IsIdle(i) \/ IsSection(i) \/ IsKey(i)

\* No line is shorter than the one above it, but the last one, whose copy is padded
\* if it is short enough
NeverShorter ==
    \A i \in 1..(Len(text) - 1) :
        \/ Len(Said(i)) <= Len(Said(i + 1))
        \/ i + 1 = Len(text) /\ Len(Said(i + 1)) < MAX_LINE_LEN - 1

-----------------------------------------------------------------------------
(* Properties *)

\* The buffer keeps its length and its last character, which ends every string
\* in it; the section and the implements activated are strings, and the string
\* of a section lives as long as the section is in force.
TypeOK ==
    /\ next \in 1..(Len(text) + 1)
    /\ Len(line) = MAX_LINE_LEN + 1 /\ line[MAX_LINE_LEN + 1] = NUL
    /\ section # NULL => \A k \in DOMAIN section : section[k] # NUL
    /\ sections = IF section = NULL \/ status = "done" THEN 0 ELSE 1
    /\ \A c \in DOMAIN active : active[c] \in DOMAIN Implements[c] \cup {NULL}
    /\ status \in {"loading", "done", "aborted"}

\* An implement is never activated on a CPU that lacks a feature it needs,
\* whatever the buffer made of the lines.
ActiveIsRunnable ==
    \A c \in DOMAIN Implements :
        active[c] # NULL => Implements[c][active[c]] \subseteq CpuFlags

\* The lines read so far are loaded and activate what they say
AsMeant == status # "aborted" /\ active = Meant(next - 1)

\* When of no line less is read than of the one above it, a string of section lines, key
\* lines, blank lines and comments activates what it says, line by line; a line
\* that is too long says what is left of it, and does not reach those below it.
LoadsAsMeant == WellFormed /\ NeverShorter => AsMeant

-----------------------------------------------------------------------------
(* What the documentation says and the code does not do *)

\* oil_load_ini activates "implements according to @ini_string" and its parser
\* ignores "the blank and comment", of lines that are not too long.
LoadsAnyAsMeant ==
    WellFormed /\ (\A i \in DOMAIN text : Len(text[i]) < MAX_LINE_LEN) => AsMeant
=============================================================================
