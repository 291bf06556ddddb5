-------------------------------- MODULE CSim --------------------------------
(* The cache simulator csim: the array of lines, the clock last_use and the *)
(* three counters, changed once for each record of the trace.  A record is  *)
(* an operation and an address; the block size and the text written to      *)
(* result.txt play no part.                                                 *)
EXTENDS Integers, FiniteSets

CONSTANTS
    s, E, b,        \* the options: set index bits, lines of a set, block bits
    Addresses,      \* the addresses in the trace
    WORD,           \* number of values of an unsigned int, 2^32 in the code
    AccessBound     \* bound of the exploration: accesses made

LOCAL Sets == INSTANCE FiniteSetsExt

VARIABLES
    cache,          \* cache[set][i]: the lines
    last_use,       \* clock, advanced by every access
    hitcount, misscount, evictioncount

vars == <<cache, last_use, hitcount, misscount, evictioncount>>

\* S starts at 2 and doubles for i = 1 .. s - 1; set_index ends as S - 1.
S == IF s = 0 THEN 2 ELSE 2^s

set_index == S - 1

\* The geometry fits the machine: S is an int, and the shift by b + s is less
\* than the width of the address.
ASSUME GeometryAssumption ==
    /\ s \in Nat /\ b \in Nat /\ E \in Nat \ {0} /\ WORD \in Nat \ {0}
    /\ S \in Nat \ {0} /\ 2^b \in Nat \ {0} /\ 2^(b + s) \in Nat \ {0}
    /\ S < WORD \div 2 /\ 2^(b + s) < WORD

\* The trace is short enough for the counters, which are ints.
ASSUME TraceAssumption ==
    Addresses \subseteq Nat /\ AccessBound \in Nat /\ AccessBound + 1 < WORD \div 2

Lines == 0..(E - 1)

\* fscanf's %x keeps what fits in the unsigned int; & set_index is % S.
SetOf(address) == ((address % WORD) \div 2^b) % (set_index + 1)

TagOf(address) == (address % WORD) \div 2^(b + s)

\* Variables as a record, so that a modify can make two accesses in one step.
Current == [cache |-> cache, last_use |-> last_use, hitcount |-> hitcount,
            misscount |-> misscount, evictioncount |-> evictioncount]

Becomes(c) ==
    /\ cache' = c.cache
    /\ last_use' = c.last_use
    /\ hitcount' = c.hitcount
    /\ misscount' = c.misscount
    /\ evictioncount' = c.evictioncount

Init ==
    /\ cache = [set \in 0..set_index |-> [i \in Lines |-> [val |-> 0, tag |-> 0, used |-> 0]]]
    /\ last_use = 0
    /\ hitcount = 0
    /\ misscount = 0
    /\ evictioncount = 0

\* Mutant: the search starts at line 1.
HitLinesFromOne(lines, tag) ==
    {i \in Lines \ {0} : lines[i].val = 1 /\ lines[i].tag = tag}

\* The lines the first loop of accessCache stops at.
HitLines(lines, tag) == {i \in Lines : lines[i].val = 1 /\ lines[i].tag = tag}

FreeLines(lines) == {i \in Lines : lines[i].val = 0}

\* Mutant: > for <, the most recently used line.
evicLineNewest(lines) ==
    Sets!Min({i \in Lines : \A j \in Lines : lines[i].used >= lines[j].used})

\* The first line with the smallest used: the scan replaces on < only.
evicLine(lines) ==
    Sets!Min({i \in Lines : \A j \in Lines : lines[i].used <= lines[j].used})

\* Mutant: val is incremented where it should be set.
FillCountsUp(c, set, i, tag) ==
    [c EXCEPT !.cache[set][i] = [val |-> @.val + 1, tag |-> tag, used |-> c.last_use + 1],
              !.last_use = @ + 1]

\* Mutant: the line is stamped before the clock is advanced.
FillStale(c, set, i, tag) ==
    [c EXCEPT !.cache[set][i] = [val |-> 1, tag |-> tag, used |-> c.last_use],
              !.last_use = @ + 1]

\* Mutant: an evicted line keeps its tag.
FillKeepsTag(c, set, i, tag) ==
    [c EXCEPT !.cache[set][i] = [val |-> 1, tag |-> IF @.val = 1 THEN @.tag ELSE tag,
                                 used |-> c.last_use + 1],
              !.last_use = @ + 1]

\* Line i of the set takes the tag and the next clock value.
Fill(c, set, i, tag) ==
    [c EXCEPT !.cache[set][i] = [val |-> 1, tag |-> tag, used |-> c.last_use + 1],
              !.last_use = @ + 1]

\* Mutant: a miss that evicts is counted as an eviction only.
accessCacheUncounted(c, set, tag) ==
    LET lines == c.cache[set]
    IN  IF HitLines(lines, tag) # {}
        THEN [Fill(c, set, Sets!Min(HitLines(lines, tag)), tag) EXCEPT !.hitcount = @ + 1]
        ELSE IF FreeLines(lines) = {}
        THEN [Fill(c, set, evicLine(lines), tag) EXCEPT !.evictioncount = @ + 1]
        ELSE [Fill(c, set, Sets!Min(FreeLines(lines)), tag) EXCEPT !.misscount = @ + 1]

accessCache(c, set, tag) ==
    LET lines == c.cache[set]
    IN  IF HitLines(lines, tag) # {}
        THEN [Fill(c, set, Sets!Min(HitLines(lines, tag)), tag) EXCEPT !.hitcount = @ + 1]
        ELSE IF FreeLines(lines) = {}
        THEN [Fill(c, set, evicLine(lines), tag) EXCEPT !.evictioncount = @ + 1,
                                                        !.misscount = @ + 1]
        ELSE [Fill(c, set, Sets!Min(FreeLines(lines)), tag) EXCEPT !.misscount = @ + 1]

Access(c, address) == accessCache(c, SetOf(address), TagOf(address))

\* The cases 'L' and 'S' of the switch; any other letter but 'M' is skipped.
LoadOrStore(address) ==
    /\ last_use < AccessBound
    /\ Becomes(Access(Current, address))

Modify(address) ==
    /\ last_use < AccessBound
    /\ Becomes(Access(Access(Current, address), address))

Next == \E address \in Addresses : LoadOrStore(address) \/ Modify(address)

Spec == Init /\ [][Next]_vars

----------------------------------------------------------------------------
\* Properties

Line == [val : {0, 1}, tag : Nat, used : Nat]

\* A valid bit is 0 or 1, the counters never become negative.
TypeOK ==
    /\ cache \in [0..set_index -> [Lines -> Line]]
    /\ last_use \in Nat
    /\ hitcount \in Nat
    /\ misscount \in Nat
    /\ evictioncount \in Nat

\* A block is never in two lines: at most one valid line of a set has a tag.
TagsDistinct ==
    \A set \in 0..set_index : \A i, j \in Lines :
        cache[set][i].val = 1 /\ cache[set][j].val = 1
          /\ cache[set][i].tag = cache[set][j].tag => i = j

\* The line with the smallest used is the least recently used one: the clock
\* orders the valid lines of a set strictly and is ahead of all of them.
ClockOrdersLines ==
    \A set \in 0..set_index : \A i, j \in Lines :
        cache[set][i].val = 1 =>
            /\ cache[set][i].used \in 1..last_use
            /\ cache[set][j].val = 1 /\ cache[set][i].used = cache[set][j].used => i = j

\* Each access is counted once, as a hit or as a miss, and a miss that evicts
\* nothing has filled a line that was free.
CountsAddUp ==
    /\ hitcount + misscount = last_use
    /\ misscount - evictioncount =
           Cardinality({x \in (0..set_index) \X Lines : cache[x[1]][x[2]].val = 1})

\* The store of a modify finds what its load has just brought in.
ModifyHits ==
    [][last_use' = last_use + 2 => hitcount' > hitcount]_vars

\* The lines of a set that are in use, the one used last first.
ByUse(lines) ==
    LET valid == {i \in Lines : lines[i].val = 1}
    IN  CHOOSE p \in [1..Cardinality(valid) -> valid] :
            \A k, m \in DOMAIN p : k < m => lines[p[k]].used > lines[p[m]].used

\* The tags of a set, the most recently used first.
Recency(lines) == LET p == ByUse(lines) IN [k \in DOMAIN p |-> lines[p[k]].tag]

Lru == INSTANCE LruCache WITH
    order <- [set \in 0..(2^s - 1) |-> Recency(cache[set])],
    hits <- hitcount, misses <- misscount, evictions <- evictioncount

\* csim counts the hits, misses and evictions of an LRU cache of 2^s sets.
ImplementsLru == Lru!Spec
=============================================================================
