----------------------------- MODULE CSimProofs -----------------------------
(* The lines and the counters of the cache simulator stay in order for      *)
(* every geometry and every trace.  An access is one operator on the record *)
(* of the variables, so what it preserves is a lemma about records, used    *)
(* once for a load or store and twice for a modify.                         *)
EXTENDS CSim, SequenceTheorems, Scans

LOCAL Sets == INSTANCE FiniteSetsExt

SetIndices == 0..set_index

State == [cache : [SetIndices -> [Lines -> Line]], last_use : Nat,
          hitcount : Nat, misscount : Nat, evictioncount : Nat]

\* TagsDistinct, ClockOrdersLines and CountsAddUp of a record.
Distinct(c) ==
    \A set \in SetIndices : \A i, j \in Lines :
        c.cache[set][i].val = 1 /\ c.cache[set][j].val = 1
          /\ c.cache[set][i].tag = c.cache[set][j].tag => i = j

Ordered(c) ==
    \A set \in SetIndices : \A i, j \in Lines :
        c.cache[set][i].val = 1 =>
            /\ c.cache[set][i].used \in 1..c.last_use
            /\ c.cache[set][j].val = 1 /\ c.cache[set][i].used = c.cache[set][j].used => i = j

Valid(c) == {x \in SetIndices \X Lines : c.cache[x[1]][x[2]].val = 1}

Counted(c) ==
    /\ c.hitcount + c.misscount = c.last_use
    /\ c.misscount - c.evictioncount = Cardinality(Valid(c))

----------------------------------------------------------------------------
\* Which line an access takes

\* A scan over the lines for one of a kind ends with one.
LEMMA LowestLine ==
    ASSUME NEW T \in SUBSET Lines, T # {}
    PROVE  Sets!Min(T) \in T
<1>1. Lines \in SUBSET Int /\ IsFiniteSet(Lines)
  BY FS_Interval, GeometryAssumption DEF Lines
<1>2. T \in SUBSET Int /\ IsFiniteSet(T)
  BY <1>1, FS_Subset
<1>3. \E x \in T : \A y \in T : x <= y
  BY <1>2, SmallestExists
<1> QED BY <1>3 DEF Sets!Min

\* The scan for the oldest line ends with a line of the set.
LEMMA EvictsALine ==
    ASSUME NEW lines \in [Lines -> Line]
    PROVE  /\ evicLine(lines) \in Lines
           /\ \A j \in Lines : lines[evicLine(lines)].used <= lines[j].used
<1> DEFINE stamps == {lines[i].used : i \in Lines}
           oldest == {i \in Lines : \A j \in Lines : lines[i].used <= lines[j].used}
<1>1. IsFiniteSet(Lines) /\ 0 \in Lines
  BY FS_Interval, GeometryAssumption DEF Lines
<1>2. \A i \in Lines : lines[i].used \in Int
  BY DEF Line
<1>3. stamps \in SUBSET Int /\ stamps # {}
  BY <1>1, <1>2
<1>4. IsFiniteSet(stamps)
  <2> DEFINE stamp == [i \in Lines |-> lines[i].used]
  <2>1. stamp \in Surjection(Lines, stamps)
    BY DEF Surjection
  <2> HIDE DEF stamp, stamps
  <2> QED BY <1>1, <2>1, FS_Surjection
<1>5. PICK x \in stamps : \A y \in stamps : x <= y
  <2> HIDE DEF stamps
  <2> QED BY <1>3, <1>4, SmallestExists
<1>6. oldest # {}
  BY <1>5
<1>7. oldest \in SUBSET Lines /\ evicLine(lines) = Sets!Min(oldest)
  BY DEF evicLine
<1>8. evicLine(lines) \in oldest
  <2> HIDE DEF oldest
  <2> QED BY <1>6, <1>7, LowestLine
<1> QED BY <1>8

\* The three ways through accessCache: a line that holds the tag is used again, a
\* free line is filled, or a line of a full set is replaced.
LEMMA AccessCases ==
    ASSUME NEW c \in State, NEW set \in SetIndices, NEW tag \in Nat
    PROVE  \E i \in Lines :
             LET lines == c.cache[set]
                 filled == Fill(c, set, i, tag)
             IN  \/ /\ lines[i].val = 1 /\ lines[i].tag = tag
                    /\ accessCache(c, set, tag) = [filled EXCEPT !.hitcount = @ + 1]
                 \/ /\ HitLines(lines, tag) = {} /\ lines[i].val = 0
                    /\ accessCache(c, set, tag) = [filled EXCEPT !.misscount = @ + 1]
                 \/ /\ HitLines(lines, tag) = {} /\ lines[i].val = 1
                    /\ \A j \in Lines : lines[j].val = 1 /\ lines[i].used <= lines[j].used
                    /\ accessCache(c, set, tag) =
                           [filled EXCEPT !.evictioncount = @ + 1, !.misscount = @ + 1]
<1> DEFINE lines == c.cache[set]
<1>1. lines \in [Lines -> Line]
  BY DEF State
<1>2. CASE HitLines(lines, tag) # {}
  <2> DEFINE i == Sets!Min(HitLines(lines, tag))
  <2>1. i \in HitLines(lines, tag)
    BY <1>2, LowestLine DEF HitLines
  <2>2. i \in Lines /\ lines[i].val = 1 /\ lines[i].tag = tag
    BY <2>1 DEF HitLines
  <2>3. accessCache(c, set, tag) = [Fill(c, set, i, tag) EXCEPT !.hitcount = @ + 1]
    BY <1>2 DEF accessCache
  <2> QED BY <2>2, <2>3
<1>3. CASE HitLines(lines, tag) = {} /\ FreeLines(lines) # {}
  <2> DEFINE i == Sets!Min(FreeLines(lines))
  <2>1. i \in FreeLines(lines)
    BY <1>3, LowestLine DEF FreeLines
  <2>2. i \in Lines /\ lines[i].val = 0
    BY <2>1 DEF FreeLines
  <2>3. accessCache(c, set, tag) = [Fill(c, set, i, tag) EXCEPT !.misscount = @ + 1]
    BY <1>3 DEF accessCache
  <2> QED BY <1>3, <2>2, <2>3
<1>4. CASE HitLines(lines, tag) = {} /\ FreeLines(lines) = {}
  <2> DEFINE i == evicLine(lines)
  <2>1. i \in Lines /\ \A j \in Lines : lines[i].used <= lines[j].used
    BY <1>1, EvictsALine
  <2>2. \A j \in Lines : lines[j].val = 1
    BY <1>1, <1>4 DEF FreeLines, Line
  <2>3. accessCache(c, set, tag) =
            [Fill(c, set, i, tag) EXCEPT !.evictioncount = @ + 1, !.misscount = @ + 1]
    BY <1>4 DEF accessCache
  <2> QED BY <1>4, <2>1, <2>2, <2>3
<1> QED BY <1>2, <1>3, <1>4
----------------------------------------------------------------------------
\* What an access preserves

\* Filling a line changes this line, its stamp and the clock, nothing else.
LEMMA FillEffect ==
    ASSUME NEW c \in State, NEW set \in SetIndices, NEW i \in Lines, NEW tag \in Nat
    PROVE  LET f == Fill(c, set, i, tag)
           IN  /\ f \in State
               /\ f.last_use = c.last_use + 1
               /\ f.hitcount = c.hitcount
               /\ f.misscount = c.misscount
               /\ f.evictioncount = c.evictioncount
               /\ f.cache[set][i] = [val |-> 1, tag |-> tag, used |-> c.last_use + 1]
               /\ \A t \in SetIndices, j \in Lines :
                     t # set \/ j # i => f.cache[t][j] = c.cache[t][j]
<1> DEFINE f == Fill(c, set, i, tag)
           line == [val |-> 1, tag |-> tag, used |-> c.last_use + 1]
<1>1. line \in Line /\ c.last_use + 1 \in Nat
  BY DEF Line, State
<1>2. f = [c EXCEPT !.cache = [c.cache EXCEPT ![set] = [c.cache[set] EXCEPT ![i] = line]],
                    !.last_use = c.last_use + 1]
  BY DEF Fill, State
<1>3. [c.cache EXCEPT ![set] = [c.cache[set] EXCEPT ![i] = line]]
          \in [SetIndices -> [Lines -> Line]]
  BY <1>1 DEF State
<1> HIDE DEF f, line
<1>4. /\ f \in State
      /\ f.last_use = c.last_use + 1
      /\ f.hitcount = c.hitcount
      /\ f.misscount = c.misscount
      /\ f.evictioncount = c.evictioncount
      /\ f.cache = [c.cache EXCEPT ![set] = [c.cache[set] EXCEPT ![i] = line]]
  BY <1>1, <1>2, <1>3 DEF State
<1>5. c.cache \in [SetIndices -> [Lines -> Line]]
  BY DEF State
<1>6. f.cache[set][i] = line
  BY <1>4, <1>5
<1>7. \A t \in SetIndices, j \in Lines :
          t # set \/ j # i => f.cache[t][j] = c.cache[t][j]
  BY <1>4, <1>5
<1> QED BY <1>4, <1>6, <1>7 DEF f, line

\* A line filled with a tag that no other line of the set holds leaves the tags
\* distinct and, with the next clock value, the stamps in order.
LEMMA FillKeepsOrder ==
    ASSUME NEW c \in State, NEW set \in SetIndices, NEW i \in Lines, NEW tag \in Nat,
           Distinct(c), Ordered(c),
           \A j \in Lines : c.cache[set][j].val = 1 /\ c.cache[set][j].tag = tag => j = i
    PROVE  Distinct(Fill(c, set, i, tag)) /\ Ordered(Fill(c, set, i, tag))
<1> DEFINE f == Fill(c, set, i, tag)
<1>1. /\ f.last_use = c.last_use + 1
      /\ f.cache[set][i] = [val |-> 1, tag |-> tag, used |-> c.last_use + 1]
      /\ \A t \in SetIndices, j \in Lines :
            t # set \/ j # i => f.cache[t][j] = c.cache[t][j]
  BY FillEffect
<1>2. c.last_use \in Nat
  BY DEF State
<1>3. /\ f.cache[set][i].val = 1 /\ f.cache[set][i].tag = tag
      /\ f.cache[set][i].used = c.last_use + 1
  BY <1>1
<1> HIDE DEF f
<1>4. Distinct(f)
  BY <1>1, <1>3 DEF Distinct
<1>5. ASSUME NEW t \in SetIndices, NEW j \in Lines, NEW k \in Lines, f.cache[t][j].val = 1
      PROVE  /\ f.cache[t][j].used \in 1..f.last_use
             /\ f.cache[t][k].val = 1 /\ f.cache[t][j].used = f.cache[t][k].used => j = k
  <2>1. CASE t = set /\ j = i
    BY <1>1, <1>2, <1>3, <2>1 DEF Ordered
  <2>2. CASE ~ (t = set /\ j = i)
    <3>1. f.cache[t][j] = c.cache[t][j] /\ c.cache[t][j].used \in 1..c.last_use
      BY <1>1, <1>5, <2>2 DEF Ordered
    <3> QED BY <1>1, <1>2, <1>3, <1>5, <2>2, <3>1 DEF Ordered
  <2> QED BY <2>1, <2>2
<1>6. Ordered(f)
  BY <1>5 DEF Ordered
<1> QED BY <1>4, <1>6 DEF f

\* The valid lines of all sets are finitely many.
LEMMA ValidIsFinite ==
    ASSUME NEW c
    PROVE  IsFiniteSet(Valid(c)) /\ Cardinality(Valid(c)) \in Nat
<1>1. IsFiniteSet(SetIndices) /\ IsFiniteSet(Lines)
  BY FS_Interval, GeometryAssumption DEF SetIndices, set_index, Lines
<1>2. IsFiniteSet(SetIndices \X Lines)
  BY <1>1, FS_Product
<1>3. Valid(c) \in SUBSET (SetIndices \X Lines)
  BY DEF Valid
<1> QED BY <1>2, <1>3, FS_Subset, FS_CardinalityType

\* One access leaves the record a state of the simulator, the tags distinct, the
\* stamps in order and the counters right; the tag is then in the set, and if it
\* was before, a hit has been counted.
LEMMA AccessKeeps ==
    ASSUME NEW c \in State, NEW set \in SetIndices, NEW tag \in Nat,
           Distinct(c), Ordered(c), Counted(c)
    PROVE  LET a == accessCache(c, set, tag)
           IN  /\ a \in State /\ Distinct(a) /\ Ordered(a) /\ Counted(a)
               /\ a.last_use = c.last_use + 1
               /\ HitLines(a.cache[set], tag) # {}
               /\ a.hitcount \in {c.hitcount, c.hitcount + 1}
               /\ HitLines(c.cache[set], tag) # {} => a.hitcount = c.hitcount + 1
<1> DEFINE lines == c.cache[set]
           a == accessCache(c, set, tag)
<1>1. PICK i \in Lines :
          LET filled == Fill(c, set, i, tag)
          IN  \/ lines[i].val = 1 /\ lines[i].tag = tag /\ a = [filled EXCEPT !.hitcount = @ + 1]
              \/ /\ HitLines(lines, tag) = {} /\ lines[i].val = 0
                 /\ a = [filled EXCEPT !.misscount = @ + 1]
              \/ /\ HitLines(lines, tag) = {} /\ lines[i].val = 1
                 /\ \A j \in Lines : lines[j].val = 1 /\ lines[i].used <= lines[j].used
                 /\ a = [filled EXCEPT !.evictioncount = @ + 1, !.misscount = @ + 1]
  BY AccessCases
<1> DEFINE f == Fill(c, set, i, tag)
<1>2. /\ f \in State
      /\ f.last_use = c.last_use + 1
      /\ f.hitcount = c.hitcount
      /\ f.misscount = c.misscount
      /\ f.evictioncount = c.evictioncount
      /\ f.cache[set][i] = [val |-> 1, tag |-> tag, used |-> c.last_use + 1]
      /\ \A t \in SetIndices, j \in Lines :
            t # set \/ j # i => f.cache[t][j] = c.cache[t][j]
  BY FillEffect
<1>3. Distinct(f) /\ Ordered(f)
  <2>1. \A j \in Lines : lines[j].val = 1 /\ lines[j].tag = tag => j = i
    BY <1>1 DEF Distinct, HitLines
  <2> QED BY <2>1, FillKeepsOrder
<1> HIDE DEF f, a
<1>4. \/ /\ lines[i].val = 1 /\ lines[i].tag = tag
         /\ a = [f EXCEPT !.hitcount = f.hitcount + 1]
      \/ /\ lines[i].val = 0
         /\ a = [f EXCEPT !.misscount = f.misscount + 1]
      \/ /\ lines[i].val = 1
         /\ a = [f EXCEPT !.evictioncount = f.evictioncount + 1, !.misscount = f.misscount + 1]
  BY <1>1, <1>2 DEF f, State
<1>5. a \in State /\ a.cache = f.cache /\ a.last_use = f.last_use
  <2> DEFINE Caches == [SetIndices -> [Lines -> Line]]
  <2>1. State = [cache : Caches, last_use : Nat, hitcount : Nat, misscount : Nat,
                 evictioncount : Nat]
    BY DEF State
  <2> HIDE DEF Caches
  <2>2. f \in [cache : Caches, last_use : Nat, hitcount : Nat, misscount : Nat,
               evictioncount : Nat]
    BY <1>2, <2>1
  <2>3. f.hitcount + 1 \in Nat /\ f.misscount + 1 \in Nat /\ f.evictioncount + 1 \in Nat
    BY <2>2
  <2>4. CASE a = [f EXCEPT !.hitcount = f.hitcount + 1]
    BY <2>1, <2>2, <2>3, <2>4
  <2>5. CASE a = [f EXCEPT !.misscount = f.misscount + 1]
    BY <2>1, <2>2, <2>3, <2>5
  <2>6. CASE a = [f EXCEPT !.evictioncount = f.evictioncount + 1, !.misscount = f.misscount + 1]
    BY <2>1, <2>2, <2>3, <2>6
  <2> QED BY <1>4, <2>4, <2>5, <2>6
<1>6. Distinct(a) /\ Ordered(a)
  BY <1>3, <1>5 DEF Distinct, Ordered
<1>7. Counted(a)
  <2>1. c.hitcount \in Nat /\ c.misscount \in Nat /\ c.evictioncount \in Nat /\ c.last_use \in Nat
    BY DEF State
  <2>2. Valid(a) = Valid(c) \cup {<<set, i>>}
    <3>1. \A t \in SetIndices, j \in Lines :
              a.cache[t][j].val = 1 <=> (t = set /\ j = i) \/ c.cache[t][j].val = 1
      BY <1>2, <1>5
    <3> QED BY <3>1 DEF Valid
  <2>3. <<set, i>> \in Valid(c) <=> lines[i].val = 1
    BY DEF Valid
  <2>4. Cardinality(Valid(a)) =
            IF lines[i].val = 1 THEN Cardinality(Valid(c)) ELSE Cardinality(Valid(c)) + 1
    BY <2>2, <2>3, ValidIsFinite, FS_AddElement
  <2>5. Cardinality(Valid(c)) \in Nat
    BY ValidIsFinite
  <2>6. \/ /\ lines[i].val = 1
           /\ a.hitcount = c.hitcount + 1 /\ a.misscount = c.misscount
           /\ a.evictioncount = c.evictioncount
        \/ /\ lines[i].val = 0
           /\ a.hitcount = c.hitcount /\ a.misscount = c.misscount + 1
           /\ a.evictioncount = c.evictioncount
        \/ /\ lines[i].val = 1
           /\ a.hitcount = c.hitcount /\ a.misscount = c.misscount + 1
           /\ a.evictioncount = c.evictioncount + 1
    BY <1>2, <1>4 DEF State
  <2> QED BY <1>2, <1>5, <2>1, <2>4, <2>5, <2>6 DEF Counted
<1>8. HitLines(a.cache[set], tag) # {}
  <2>1. a.cache[set][i].val = 1 /\ a.cache[set][i].tag = tag
    BY <1>2, <1>5
  <2> QED BY <2>1 DEF HitLines
<1>9. /\ a.hitcount \in {c.hitcount, c.hitcount + 1}
      /\ HitLines(lines, tag) # {} => a.hitcount = c.hitcount + 1
  <2>1. CASE HitLines(lines, tag) = {}
    BY <1>2, <1>4, <2>1 DEF State
  <2>2. CASE HitLines(lines, tag) # {}
    <3>1. a = [f EXCEPT !.hitcount = @ + 1]
      BY <1>1, <2>2 DEF f
    <3> QED BY <1>2, <3>1 DEF State
  <2> QED BY <2>1, <2>2
<1> QED BY <1>2, <1>5, <1>6, <1>7, <1>8, <1>9 DEF a

----------------------------------------------------------------------------
\* The invariant

IInv == Current \in State /\ Distinct(Current) /\ Ordered(Current) /\ Counted(Current)

\* The invariant is the conjunction of the four properties.
LEMMA IInvMeans ==
    IInv <=> TypeOK /\ TagsDistinct /\ ClockOrdersLines /\ CountsAddUp
<1>1. Current \in State <=> TypeOK
  <2> DEFINE Caches == [SetIndices -> [Lines -> Line]]
  <2>1. State = [cache : Caches, last_use : Nat, hitcount : Nat, misscount : Nat,
                 evictioncount : Nat]
    BY DEF State
  <2>2. TypeOK <=> /\ cache \in Caches /\ last_use \in Nat /\ hitcount \in Nat
                   /\ misscount \in Nat /\ evictioncount \in Nat
    BY DEF TypeOK, SetIndices
  <2> HIDE DEF Caches
  <2> QED BY <2>1, <2>2 DEF Current
<1>2. /\ Current.cache = cache /\ Current.last_use = last_use
      /\ Current.hitcount = hitcount /\ Current.misscount = misscount
      /\ Current.evictioncount = evictioncount
  BY DEF Current
<1>3. Distinct(Current) <=> TagsDistinct
  BY <1>2 DEF Distinct, TagsDistinct, SetIndices
<1>4. Ordered(Current) <=> ClockOrdersLines
  BY <1>2 DEF Ordered, ClockOrdersLines, SetIndices
<1>5. Counted(Current) <=> CountsAddUp
  BY <1>2 DEF Counted, CountsAddUp, Valid, SetIndices
<1> QED BY <1>1, <1>3, <1>4, <1>5 DEF IInv

\* Set and tag of an address: what the shift and the mask of main leave.
LEMMA SetAndTag ==
    ASSUME NEW address \in Addresses
    PROVE  SetOf(address) \in SetIndices /\ TagOf(address) \in Nat
<1>1. address \in Nat /\ WORD \in Nat \ {0} /\ S \in Nat \ {0}
  BY GeometryAssumption, TraceAssumption
<1>2. address % WORD \in Nat
  BY <1>1
<1> DEFINE word == address % WORD
           block == 2^b
           both == 2^(b + s)
<1>3. block \in Nat \ {0} /\ both \in Nat \ {0} /\ word \in Nat
  BY <1>2, GeometryAssumption
<1>4. SetOf(address) = (word \div block) % S /\ TagOf(address) = word \div both
  BY <1>1 DEF SetOf, TagOf, set_index
<1> HIDE DEF word, block, both
<1>5. word \div block \in Nat /\ word \div both \in Nat
  BY <1>3
<1>6. (word \div block) % S \in 0..(S - 1)
  BY <1>1, <1>5
<1> QED BY <1>4, <1>5, <1>6 DEF SetIndices, set_index

\* main starts with every line invalid and all counters 0.
LEMMA InitKeeps == Init => IInv
<1> SUFFICES ASSUME Init PROVE IInv
  OBVIOUS
<1>1. \A set \in SetIndices, i \in Lines : cache[set][i] = [val |-> 0, tag |-> 0, used |-> 0]
  BY DEF Init, SetIndices
<1>2. TypeOK
  BY DEF Init, TypeOK, Line
<1>3. TagsDistinct /\ ClockOrdersLines
  BY <1>1 DEF TagsDistinct, ClockOrdersLines, SetIndices
<1>4. CountsAddUp
  <2>1. {x \in (0..set_index) \X Lines : cache[x[1]][x[2]].val = 1} = {}
    BY <1>1 DEF SetIndices
  <2>2. Cardinality({x \in (0..set_index) \X Lines : cache[x[1]][x[2]].val = 1}) = 0
    BY <2>1, FS_EmptySet, Zenon
  <2>3. hitcount + misscount = last_use /\ misscount - evictioncount = 0
    BY DEF Init
  <2> QED BY <2>2, <2>3 DEF CountsAddUp
<1> QED BY <1>2, <1>3, <1>4, IInvMeans

\* A step makes one access or two, and each keeps the invariant.
LEMMA StepKeeps == IInv /\ [Next]_vars => IInv'
<1> SUFFICES ASSUME IInv, [Next]_vars PROVE IInv'
  OBVIOUS
<1>1. ASSUME NEW c \in State, Becomes(c) PROVE Current' = c
  BY <1>1 DEF Becomes, Current, State
<1>2. ASSUME NEW address \in Addresses, LoadOrStore(address) PROVE IInv'
  <2> DEFINE c == Access(Current, address)
  <2>1. c \in State /\ Distinct(c) /\ Ordered(c) /\ Counted(c)
    BY AccessKeeps, SetAndTag DEF Access, IInv
  <2>2. Current' = c
    BY <1>1, <1>2, <2>1 DEF LoadOrStore
  <2> HIDE DEF c
  <2> QED BY <2>1, <2>2 DEF IInv
<1>3. ASSUME NEW address \in Addresses, Modify(address) PROVE IInv'
  <2> DEFINE c == Access(Current, address)
             d == Access(c, address)
  <2>1. c \in State /\ Distinct(c) /\ Ordered(c) /\ Counted(c)
    BY AccessKeeps, SetAndTag DEF Access, IInv
  <2>2. d \in State /\ Distinct(d) /\ Ordered(d) /\ Counted(d)
    <3> HIDE DEF c
    <3> QED BY <2>1, AccessKeeps, SetAndTag DEF Access
  <2>3. Current' = d
    BY <1>1, <1>3, <2>2 DEF Modify
  <2> HIDE DEF d
  <2> QED BY <2>2, <2>3 DEF IInv
<1>4. CASE UNCHANGED vars
  BY <1>4 DEF vars, IInv, Current, Distinct, Ordered, Counted, Valid
<1> QED BY <1>2, <1>3, <1>4 DEF Next

\* The four properties hold together in every state that main reaches.
THEOREM Invariant == Spec => []IInv
<1> QED BY InitKeeps, StepKeeps, PTL DEF Spec

----------------------------------------------------------------------------
\* The properties

\* The lines, the clock and the counters of accessCache keep their types.
THEOREM TypeCorrect == Spec => []TypeOK
<1>1. IInv => TypeOK
  BY IInvMeans
<1> QED BY <1>1, Invariant, PTL

\* Whatever the mix of hits, fills and evictions in accessCache, no block is in
\* two lines of a set.
THEOREM NoBlockTwice == Spec => []TagsDistinct
<1>1. IInv => TagsDistinct
  BY IInvMeans
<1> QED BY <1>1, Invariant, PTL

\* The stamps that accessCache compares in its search for a line to evict order
\* the lines of a set by their last use.
THEOREM StampsOrderLines == Spec => []ClockOrdersLines
<1>1. IInv => ClockOrdersLines
  BY IInvMeans
<1> QED BY <1>1, Invariant, PTL

\* Hits and misses are the accesses made, and what was missed and not evicted is
\* in the cache.
THEOREM CountersAgree == Spec => []CountsAddUp
<1>1. IInv => CountsAddUp
  BY IInvMeans
<1> QED BY <1>1, Invariant, PTL

\* The second of the two calls that main makes for an M record is a hit.
THEOREM SecondAccessHits == Spec => ModifyHits
<1>1. IInv /\ [Next]_vars => [last_use' = last_use + 2 => hitcount' > hitcount]_vars
  <2> SUFFICES ASSUME IInv, Next, last_use' = last_use + 2 PROVE hitcount' > hitcount
    OBVIOUS
  <2>1. /\ Current.last_use = last_use /\ Current.hitcount = hitcount
        /\ last_use \in Nat /\ hitcount \in Nat
    BY DEF Current, IInv, State
  <2>2. ASSUME NEW address \in Addresses, LoadOrStore(address) PROVE FALSE
    <3> DEFINE c == Access(Current, address)
    <3>1. c.last_use = last_use + 1
      BY <2>1, AccessKeeps, SetAndTag DEF Access, IInv
    <3>2. last_use' = c.last_use
      BY <2>2 DEF LoadOrStore, Becomes
    <3> HIDE DEF c
    <3> QED BY <2>1, <3>1, <3>2
  <2>3. ASSUME NEW address \in Addresses, Modify(address) PROVE hitcount' > hitcount
    <3> DEFINE set == SetOf(address)
               tag == TagOf(address)
               c == accessCache(Current, set, tag)
               d == accessCache(c, set, tag)
    <3>1. set \in SetIndices /\ tag \in Nat
      BY SetAndTag
    <3>2. hitcount' = d.hitcount
      BY <2>3 DEF Modify, Becomes, Access
    <3> HIDE DEF set, tag
    <3>3. /\ c \in State /\ Distinct(c) /\ Ordered(c) /\ Counted(c)
          /\ HitLines(c.cache[set], tag) # {}
          /\ c.hitcount \in {hitcount, hitcount + 1}
      BY <2>1, <3>1, AccessKeeps DEF IInv
    <3> HIDE DEF c
    <3>4. d.hitcount = c.hitcount + 1
      BY <3>1, <3>3, AccessKeeps
    <3> HIDE DEF d
    <3> QED BY <2>1, <3>2, <3>3, <3>4
  <2> QED BY <2>2, <2>3 DEF Next
<1> QED BY <1>1, Invariant, PTL DEF Spec, ModifyHits

----------------------------------------------------------------------------
\* The lines of a set in the order of their last use

\* p counts off the lines in use, n of them, the one used last first.
Enumerates(lines, n, p) ==
    /\ p \in [1..n -> Lines]
    /\ \A k \in 1..n : lines[p[k]].val = 1
    /\ \A i \in Lines : lines[i].val = 1 => \E k \in 1..n : p[k] = i
    /\ \A k, m \in 1..n : k < m => lines[p[k]].used > lines[p[m]].used

\* The tags of these lines.
Tags(lines, n, p) == [k \in 1..n |-> lines[p[k]].tag]

\* Of two such orders the first agrees with the second as far as it goes: where
\* they differed first, each would have the line of the other still to come.
LEMMA OrdersAgree ==
    ASSUME NEW lines \in [Lines -> Line], NEW n \in Nat, NEW p, NEW m \in Nat, NEW q,
           Enumerates(lines, n, p), Enumerates(lines, m, q)
    PROVE  \A k \in 1..n : k <= m /\ p[k] = q[k]
<1> DEFINE differ == {k \in 1..n : ~(k <= m /\ p[k] = q[k])}
<1> SUFFICES ASSUME differ # {} PROVE FALSE
  OBVIOUS
<1>1. /\ p \in [1..n -> Lines] /\ q \in [1..m -> Lines]
      /\ \A k \in 1..n : lines[p[k]].val = 1
      /\ \A k \in 1..m : lines[q[k]].val = 1
      /\ \A i \in Lines : lines[i].val = 1 => \E k \in 1..n : p[k] = i
      /\ \A i \in Lines : lines[i].val = 1 => \E k \in 1..m : q[k] = i
      /\ \A k, l \in 1..n : k < l => lines[p[k]].used > lines[p[l]].used
      /\ \A k, l \in 1..m : k < l => lines[q[k]].used > lines[q[l]].used
  BY DEF Enumerates
<1>2. \A i \in Lines : lines[i].used \in Nat
  BY DEF Line
<1>3. PICK k \in differ : \A l \in differ : k <= l
  <2>1. differ \in SUBSET Int /\ IsFiniteSet(differ)
    <3>1. IsFiniteSet(1..n)
      BY FS_Interval
    <3>2. differ \in SUBSET (1..n) /\ 1..n \in SUBSET Int
      OBVIOUS
    <3> HIDE DEF differ
    <3> QED BY <3>1, <3>2, FS_Subset
  <2> HIDE DEF differ
  <2> QED BY <2>1, SmallestExists
<1>4. k \in 1..n /\ ~(k <= m /\ p[k] = q[k])
      /\ \A l \in 1..n : l < k => l <= m /\ p[l] = q[l]
  BY <1>3
<1> HIDE DEF differ
<1>5. PICK l \in 1..m : q[l] = p[k]
  BY <1>1, <1>4
<1>6. l >= k
  <2> SUFFICES ASSUME l < k PROVE FALSE
    BY <1>4, <1>5
  <2>1. l \in 1..n /\ p[l] = q[l]
    BY <1>4, <1>5
  <2>2. lines[p[l]].used > lines[p[k]].used
    BY <1>1, <1>4, <2>1
  <2>3. lines[p[k]].used \in Nat
    BY <1>1, <1>2, <1>4
  <2> QED BY <1>5, <2>1, <2>2, <2>3
<1>7. k \in 1..m /\ p[k] # q[k]
  BY <1>4, <1>5, <1>6
<1>8. PICK j \in 1..n : p[j] = q[k]
  BY <1>1, <1>7
<1>9. j >= k
  <2> SUFFICES ASSUME j < k PROVE FALSE
    BY <1>4, <1>8
  <2>1. j \in 1..m /\ p[j] = q[j]
    BY <1>4, <1>8
  <2>2. lines[q[j]].used > lines[q[k]].used
    BY <1>1, <1>7, <2>1
  <2>3. lines[q[k]].used \in Nat
    BY <1>1, <1>2, <1>7
  <2> QED BY <1>8, <2>1, <2>2, <2>3
<1>10. l > k /\ j > k
  BY <1>4, <1>5, <1>6, <1>7, <1>8, <1>9
<1>11. lines[q[k]].used > lines[q[l]].used /\ lines[p[k]].used > lines[p[j]].used
  BY <1>1, <1>4, <1>5, <1>7, <1>8, <1>10
<1>12. lines[q[k]].used \in Nat /\ lines[p[k]].used \in Nat
  BY <1>1, <1>2, <1>4, <1>7
<1> QED BY <1>5, <1>8, <1>11, <1>12

LEMMA OrderIsUnique ==
    ASSUME NEW lines \in [Lines -> Line], NEW n \in Nat, NEW p, NEW m \in Nat, NEW q,
           Enumerates(lines, n, p), Enumerates(lines, m, q)
    PROVE  n = m /\ p = q
<1>1. \A k \in 1..n : k <= m /\ p[k] = q[k]
  BY OrdersAgree
<1>2. \A k \in 1..m : k <= n /\ q[k] = p[k]
  BY OrdersAgree
<1>3. n = m
  <2>1. n <= m
    <3>1. CASE n = 0
      BY <3>1
    <3>2. CASE n # 0
      BY <1>1, <3>2
    <3> QED BY <3>1, <3>2
  <2>2. m <= n
    <3>1. CASE m = 0
      BY <3>1
    <3>2. CASE m # 0
      BY <1>2, <3>2
    <3> QED BY <3>1, <3>2
  <2> QED BY <2>1, <2>2
<1>4. p \in [1..n -> Lines] /\ q \in [1..n -> Lines]
  BY <1>3 DEF Enumerates
<1> QED BY <1>1, <1>3, <1>4

\* There are as many numbers as lines in use, and no more than lines.
LEMMA OrderCounts ==
    ASSUME NEW lines \in [Lines -> Line], NEW n \in Nat, NEW p, Enumerates(lines, n, p)
    PROVE  /\ n = Cardinality({i \in Lines : lines[i].val = 1})
           /\ n <= E
           /\ n = E <=> \A i \in Lines : lines[i].val = 1
<1> DEFINE valid == {i \in Lines : lines[i].val = 1}
<1>1. /\ p \in [1..n -> valid]
      /\ \A i \in valid : \E k \in 1..n : p[k] = i
      /\ \A k, m \in 1..n : k < m => lines[p[k]].used > lines[p[m]].used
  BY DEF Enumerates
<1>2. \A i \in valid : lines[i].used \in Nat
  BY DEF Line
<1>3. \A k, m \in 1..n : p[k] = p[m] => k = m
  <2> SUFFICES ASSUME NEW k \in 1..n, NEW m \in 1..n, p[k] = p[m], k # m PROVE FALSE
    OBVIOUS
  <2>1. lines[p[k]].used \in Nat /\ lines[p[m]].used \in Nat
    BY <1>1, <1>2
  <2>2. k < m \/ m < k
    OBVIOUS
  <2> QED BY <1>1, <2>1, <2>2
<1>4. IsFiniteSet(Lines) /\ Cardinality(Lines) = E
  <2>1. 0 \in Int /\ E - 1 \in Int /\ E \in Nat \ {0}
    BY GeometryAssumption
  <2>2. Lines = 0..(E - 1)
    BY DEF Lines
  <2> QED BY <2>1, <2>2, FS_Interval
<1>5. valid \in SUBSET Lines
  OBVIOUS
<1>6. \A T \in SUBSET Lines : Cardinality(T) <= E /\ (Cardinality(T) = E => T = Lines)
  BY <1>4, FS_Subset
<1> HIDE DEF valid
<1>7. p \in Bijection(1..n, valid)
  BY <1>1, <1>3 DEF Bijection, Injection, IsInjective, Surjection
<1>8. Cardinality(valid) = n
  BY <1>7, FS_CountingElements DEF ExistsBijection
<1>9. n <= E /\ (n = E => valid = Lines)
  BY <1>5, <1>6, <1>8
<1>10. valid = Lines => n = E
  BY <1>4, <1>8
<1>11. valid = Lines <=> \A i \in Lines : lines[i].val = 1
  BY DEF valid
<1> QED BY <1>8, <1>9, <1>10, <1>11 DEF valid

\* ByUse chooses the one order there is.
LEMMA ByUseIsTheOrder ==
    ASSUME NEW lines \in [Lines -> Line], NEW n \in Nat, NEW p, Enumerates(lines, n, p)
    PROVE  /\ ByUse(lines) = p
           /\ Recency(lines) = Tags(lines, n, p)
<1> DEFINE valid == {i \in Lines : lines[i].val = 1}
           Sorted(q) == /\ q \in [1..n -> valid]
                        /\ \A k, m \in 1..n : k < m => lines[q[k]].used > lines[q[m]].used
<1>1. n = Cardinality(valid)
  BY OrderCounts
<1>2. Sorted(p)
  BY DEF Enumerates
<1>3. ByUse(lines) = CHOOSE q \in [1..n -> valid] :
                         \A k, m \in DOMAIN q : k < m => lines[q[k]].used > lines[q[m]].used
  <2> HIDE DEF Sorted
  <2> QED BY <1>1 DEF ByUse
<1>4. Sorted(ByUse(lines))
  <2>1. \E q \in [1..n -> valid] :
            \A k, m \in DOMAIN q : k < m => lines[q[k]].used > lines[q[m]].used
    BY <1>2
  <2>2. /\ ByUse(lines) \in [1..n -> valid]
        /\ \A k, m \in DOMAIN ByUse(lines) :
               k < m => lines[ByUse(lines)[k]].used > lines[ByUse(lines)[m]].used
    BY <1>3, <2>1
  <2> QED BY <2>2
<1> DEFINE q == ByUse(lines)
<1>5. q \in [1..n -> valid] /\ \A k, m \in 1..n : k < m => lines[q[k]].used > lines[q[m]].used
  BY <1>4
<1> HIDE DEF q
<1>6. \A i \in valid : lines[i].used \in Nat
  BY DEF Line
<1>7. \A k, m \in 1..n : q[k] = q[m] => k = m
  <2> SUFFICES ASSUME NEW k \in 1..n, NEW m \in 1..n, q[k] = q[m], k # m PROVE FALSE
    OBVIOUS
  <2>1. lines[q[k]].used \in Nat /\ lines[q[m]].used \in Nat
    BY <1>5, <1>6
  <2>2. k < m \/ m < k
    OBVIOUS
  <2> QED BY <1>5, <2>1, <2>2
<1>8. \A i \in valid : \E k \in 1..n : q[k] = i
  <2>1. IsFiniteSet(valid)
    <3>1. IsFiniteSet(Lines) /\ valid \in SUBSET Lines
      BY FS_Interval, GeometryAssumption DEF Lines
    <3> HIDE DEF valid
    <3> QED BY <3>1, FS_Subset
  <2>2. Cardinality(1..n) = n
    BY FS_Interval
  <2> HIDE DEF valid
  <2>3. q \in Injection(1..n, valid)
    BY <1>5, <1>7 DEF Injection, IsInjective
  <2>4. q \in Surjection(1..n, valid)
    BY <1>1, <2>1, <2>2, <2>3, FS_Injection
  <2> QED BY <2>4 DEF Surjection
<1>9. Enumerates(lines, n, q)
  BY <1>5, <1>8 DEF Enumerates
<1>10. q = p
  BY <1>9, OrderIsUnique
<1>11. Recency(lines) = [k \in DOMAIN q |-> lines[q[k]].tag]
  BY DEF Recency, q
<1>12. DOMAIN q = 1..n
  BY <1>5
<1> QED BY <1>10, <1>11, <1>12 DEF q, Tags

----------------------------------------------------------------------------
\* What the promised cache does to the tags of a set

\* The tags with one moved up to the front from place r: those before it make way.
\* With r one past the end, or on the tag to be dropped, it is a tag put in front.
Raise(q, n, r, tag) ==
    [k \in 1..n |-> IF k = 1 THEN tag ELSE IF k <= r THEN q[k - 1] ELSE q[k]]

\* A tag in a set of tags that fits is moved to the front.
LEMMA TouchAgain ==
    ASSUME NEW n \in Nat, NEW q \in [1..n -> Nat], NEW tag \in Nat, NEW r \in 1..n,
           n <= E, q[r] = tag, \A k \in 1..n : q[k] = tag => k = r
    PROVE  LET touched == <<tag>> \o Lru!Others(q, tag)
           IN  /\ Len(touched) = n
               /\ SubSeq(touched, 1, IF Len(touched) > E THEN E ELSE Len(touched))
                      = Raise(q, n, r, tag)
<1> DEFINE before == SubSeq(q, 1, r - 1)
           after == SubSeq(q, r + 1, n)
           rest == before \o after
           touched == <<tag>> \o rest
<1>1. q \in Seq(Nat) /\ Len(q) = n /\ DOMAIN q = 1..n
  OBVIOUS
<1>2. Lru!Others(q, tag) = rest
  <2> DEFINE K == CHOOSE k \in DOMAIN q : q[k] = tag
  <2>1. K = r
    BY <1>1
  <2>2. \E i \in DOMAIN q : q[i] = tag
    BY <1>1
  <2>3. Lru!Others(q, tag) = SubSeq(q, 1, K - 1) \o SubSeq(q, K + 1, Len(q))
    BY <2>2 DEF Lru!Others
  <2> HIDE DEF K
  <2> QED BY <1>1, <2>1, <2>3
<1>3. /\ before \in Seq(Nat) /\ Len(before) = r - 1
      /\ \A k \in 1..(r - 1) : before[k] = q[k]
  BY <1>1
<1>4. /\ after \in Seq(Nat) /\ Len(after) = n - r
      /\ \A k \in 1..(n - r) : after[k] = q[r + k]
  BY <1>1
<1> HIDE DEF before, after
<1>5. /\ rest \in Seq(Nat) /\ Len(rest) = n - 1
      /\ \A k \in 1..(n - 1) : rest[k] = IF k <= r - 1 THEN before[k] ELSE after[k - r + 1]
  <2>1. /\ rest \in Seq(Nat) /\ Len(rest) = Len(before) + Len(after)
        /\ \A k \in 1..(Len(before) + Len(after)) :
               rest[k] = IF k <= Len(before) THEN before[k] ELSE after[k - Len(before)]
    BY <1>3, <1>4, ConcatProperties
  <2>2. Len(before) + Len(after) = n - 1
    BY <1>3, <1>4
  <2>3. \A k \in 1..(n - 1) : k - Len(before) = k - r + 1
    BY <1>3
  <2> HIDE DEF rest
  <2> QED BY <1>3, <2>1, <2>2, <2>3
<1> HIDE DEF rest
<1>6. /\ touched \in Seq(Nat) /\ Len(touched) = n
      /\ \A k \in 1..n : touched[k] = IF k = 1 THEN tag ELSE rest[k - 1]
  BY <1>5
<1> HIDE DEF touched
<1>7. ~ Len(touched) > E
  BY <1>6, GeometryAssumption
<1>8. SubSeq(touched, 1, n) = [k \in 1..n |-> touched[k]]
  BY <1>6
<1>9. ASSUME NEW k \in 1..n
      PROVE  touched[k] = IF k = 1 THEN tag ELSE IF k <= r THEN q[k - 1] ELSE q[k]
  <2>1. CASE k = 1
    BY <1>6, <2>1
  <2>2. CASE k # 1 /\ k <= r
    <3>1. touched[k] = rest[k - 1] /\ k - 1 \in 1..(n - 1) /\ k - 1 \in 1..(r - 1)
      BY <1>6, <2>2
    <3> QED BY <1>3, <1>5, <2>2, <3>1
  <2>3. CASE k # 1 /\ k > r
    <3>1. touched[k] = rest[k - 1] /\ k - 1 \in 1..(n - 1) /\ k - r \in 1..(n - r)
      BY <1>6, <2>3
    <3>2. rest[k - 1] = after[k - r]
      <4>1. ~ (k - 1 <= r - 1) /\ (k - 1) - r + 1 = k - r
        BY <2>3
      <4> QED BY <1>5, <3>1, <4>1
    <3>3. after[k - r] = q[k]
      <4>1. r + (k - r) = k
        OBVIOUS
      <4> QED BY <1>4, <3>1, <4>1
    <3> QED BY <2>3, <3>1, <3>2, <3>3
  <2> QED BY <2>1, <2>2, <2>3
<1>10. SubSeq(touched, 1, n) = Raise(q, n, r, tag)
  BY <1>8, <1>9 DEF Raise
<1> QED BY <1>2, <1>6, <1>7, <1>10 DEF touched

\* A tag that is not there comes to the front; of E tags the last one goes.
LEMMA TouchNew ==
    ASSUME NEW n \in Nat, NEW q \in [1..n -> Nat], NEW tag \in Nat,
           n <= E, \A k \in 1..n : q[k] # tag
    PROVE  LET touched == <<tag>> \o Lru!Others(q, tag)
               m == IF n = E THEN n ELSE n + 1
           IN  /\ Len(touched) = n + 1
               /\ SubSeq(touched, 1, IF Len(touched) > E THEN E ELSE Len(touched))
                      = Raise(q, m, m, tag)
<1> DEFINE touched == <<tag>> \o q
           m == IF n = E THEN n ELSE n + 1
<1>1. q \in Seq(Nat) /\ Len(q) = n /\ DOMAIN q = 1..n
  OBVIOUS
<1>2. Lru!Others(q, tag) = q
  BY <1>1 DEF Lru!Others
<1>3. /\ touched \in Seq(Nat) /\ Len(touched) = n + 1
      /\ \A k \in 1..(n + 1) : touched[k] = IF k = 1 THEN tag ELSE q[k - 1]
  BY <1>1
<1> HIDE DEF touched
<1>4. m \in Nat /\ m <= n + 1 /\ (IF Len(touched) > E THEN E ELSE Len(touched)) = m
  BY <1>3, GeometryAssumption
<1> HIDE DEF m
<1>5. SubSeq(touched, 1, m) = [k \in 1..m |-> touched[k]]
  BY <1>3, <1>4
<1>6. \A k \in 1..m : touched[k] = IF k = 1 THEN tag ELSE IF k <= m THEN q[k - 1] ELSE q[k]
  BY <1>3, <1>4
<1>7. SubSeq(touched, 1, m) = Raise(q, m, m, tag)
  BY <1>5, <1>6 DEF Raise
<1> QED BY <1>2, <1>3, <1>4, <1>7 DEF touched, m

----------------------------------------------------------------------------
\* What an access does to the order of a set

\* The line that is used now comes first: from place r, or as a line more.
LEMMA OrderMoves ==
    ASSUME NEW lines \in [Lines -> Line], NEW n \in Nat, NEW p, Enumerates(lines, n, p),
           NEW i \in Lines, NEW m \in Nat, NEW r \in 1..m,
           \/ lines[i].val = 1 /\ m = n /\ p[r] = i
           \/ lines[i].val = 0 /\ m = n + 1 /\ r = m,
           NEW next \in [Lines -> Line], next[i].val = 1,
           \A j \in Lines : j # i => next[j] = lines[j],
           \A j \in Lines : lines[j].val = 1 => lines[j].used < next[i].used
    PROVE  LET moved == Raise(p, m, r, i)
           IN  /\ Enumerates(next, m, moved)
               /\ \A k \in 1..m : next[moved[k]].tag =
                      Raise(Tags(lines, n, p), m, r, next[i].tag)[k]
<1> DEFINE moved == Raise(p, m, r, i)
           old(k) == IF k <= r THEN k - 1 ELSE k
<1>1. /\ p \in [1..n -> Lines]
      /\ \A k \in 1..n : lines[p[k]].val = 1
      /\ \A j \in Lines : lines[j].val = 1 => \E k \in 1..n : p[k] = j
      /\ \A k, l \in 1..n : k < l => lines[p[k]].used > lines[p[l]].used
  BY DEF Enumerates
<1>2. \A j \in Lines : lines[j].used \in Nat /\ next[j].used \in Nat /\ lines[j].val \in {0, 1}
  BY DEF Line
<1>3. \A k \in 1..n : k # r => p[k] # i
  <2> SUFFICES ASSUME NEW k \in 1..n, k # r, p[k] = i PROVE FALSE
    OBVIOUS
  <2>1. lines[i].val = 1 /\ m = n /\ p[r] = i /\ r \in 1..n
    BY <1>1
  <2>2. k < r \/ r < k
    OBVIOUS
  <2>3. lines[i].used \in Nat
    BY <1>2
  <2> QED BY <1>1, <2>1, <2>2, <2>3
<1>4. \A k \in 1..m : k # 1 => old(k) \in 1..n /\ old(k) # r
  OBVIOUS
<1>5. \A k \in 1..m : moved[k] = IF k = 1 THEN i ELSE p[old(k)]
  BY DEF Raise
<1>6. moved \in [1..m -> Lines]
  <2>1. \A k \in 1..m : moved[k] \in Lines
    BY <1>1, <1>4, <1>5
  <2>2. moved = [k \in 1..m |-> moved[k]]
    BY DEF Raise
  <2> HIDE DEF moved
  <2> QED BY <2>1, <2>2
<1> HIDE DEF moved
<1>7. \A k \in 1..m : k # 1 =>
          /\ moved[k] = p[old(k)] /\ moved[k] # i
          /\ moved[k] \in Lines /\ next[moved[k]] = lines[p[old(k)]]
  <2> SUFFICES ASSUME NEW k \in 1..m, k # 1
               PROVE  /\ moved[k] = p[old(k)] /\ moved[k] # i
                      /\ moved[k] \in Lines /\ next[moved[k]] = lines[p[old(k)]]
    OBVIOUS
  <2>1. old(k) \in 1..n /\ old(k) # r
    BY <1>4
  <2> HIDE DEF old
  <2>2. moved[k] = p[old(k)] /\ p[old(k)] # i /\ moved[k] \in Lines
    BY <1>3, <1>5, <1>6, <2>1
  <2> QED BY <2>2
<1>8. 1 \in 1..m /\ moved[1] = i
  BY <1>5
<1>9. \A k, l \in 1..m : k # 1 /\ k < l => old(k) < old(l)
  OBVIOUS
<1>10. \A k \in 1..n : k # r => \E l \in 1..m : l # 1 /\ old(l) = k
  <2> SUFFICES ASSUME NEW k \in 1..n, k # r PROVE \E l \in 1..m : l # 1 /\ old(l) = k
    OBVIOUS
  <2>1. CASE k < r
    <3>1. k + 1 \in 1..m /\ k + 1 # 1 /\ old(k + 1) = k
      BY <2>1
    <3> HIDE DEF old
    <3> QED BY <3>1
  <2>2. CASE k > r
    <3>1. k \in 1..m /\ k # 1 /\ old(k) = k
      BY <2>2
    <3> HIDE DEF old
    <3> QED BY <3>1
  <2> QED BY <2>1, <2>2
<1> HIDE DEF old
<1>11. \A k \in 1..m : next[moved[k]].val = 1
  BY <1>1, <1>4, <1>7, <1>8
<1>12. ASSUME NEW j \in Lines, next[j].val = 1
       PROVE  \E l \in 1..m : moved[l] = j
  <2>1. CASE j = i
    BY <1>8, <2>1
  <2>2. CASE j # i
    <3>1. PICK k \in 1..n : p[k] = j
      BY <1>1, <1>12, <2>2
    <3>2. k # r
      <4>1. r \in 1..n => p[r] = i
        <5>1. CASE lines[i].val = 1
          BY <5>1
        <5>2. CASE lines[i].val = 0
          BY <5>2
        <5> QED BY <1>2, <5>1, <5>2
      <4> QED BY <2>2, <3>1, <4>1
    <3>3. PICK l \in 1..m : l # 1 /\ old(l) = k
      BY <1>10, <3>2
    <3> QED BY <1>7, <3>1, <3>3
  <2> QED BY <2>1, <2>2
<1>13. ASSUME NEW k \in 1..m, NEW l \in 1..m, k < l
       PROVE  next[moved[k]].used > next[moved[l]].used
  <2>1. l # 1 /\ old(l) \in 1..n /\ next[moved[l]] = lines[p[old(l)]] /\ p[old(l)] \in Lines
    BY <1>1, <1>4, <1>7, <1>13
  <2>2. CASE k = 1
    <3>1. lines[p[old(l)]].used < next[i].used
      BY <1>1, <2>1
    <3> QED BY <1>2, <1>8, <2>1, <2>2, <3>1
  <2>3. CASE k # 1
    <3>1. old(k) \in 1..n /\ next[moved[k]] = lines[p[old(k)]] /\ old(k) < old(l)
      BY <1>4, <1>7, <1>9, <1>13, <2>3
    <3> QED BY <1>1, <2>1, <3>1
  <2> QED BY <2>2, <2>3
<1>14. Enumerates(next, m, moved)
  BY <1>6, <1>11, <1>12, <1>13 DEF Enumerates
<1>15. ASSUME NEW k \in 1..m
       PROVE  next[moved[k]].tag = Raise(Tags(lines, n, p), m, r, next[i].tag)[k]
  <2> DEFINE tags == Tags(lines, n, p)
  <2>1. \A l \in 1..n : tags[l] = lines[p[l]].tag
    BY DEF Tags
  <2>2. Raise(tags, m, r, next[i].tag)[k] = IF k = 1 THEN next[i].tag ELSE tags[old(k)]
    <3> HIDE DEF tags
    <3> QED BY DEF Raise, old
  <2> HIDE DEF tags
  <2>3. next[moved[k]].tag = Raise(tags, m, r, next[i].tag)[k]
    <3>1. CASE k = 1
      BY <1>8, <2>2, <3>1
    <3>2. CASE k # 1
      BY <1>4, <1>7, <2>1, <2>2, <3>2
    <3> QED BY <3>1, <3>2
  <2> QED BY <2>3 DEF tags
<1> QED BY <1>14, <1>15 DEF moved

\* The record a is c after the promised access: in this set, to this tag.
MovesTags(c, set, tag, a) ==
    LET q == Recency(c.cache[set])
        isHit == \E k \in DOMAIN q : q[k] = tag
        touched == <<tag>> \o Lru!Others(q, tag)
    IN  /\ \E m \in Nat : \E o : Enumerates(a.cache[set], m, o)
        /\ Recency(a.cache[set]) =
               SubSeq(touched, 1, IF Len(touched) > E THEN E ELSE Len(touched))
        /\ \A t \in SetIndices : t # set => a.cache[t] = c.cache[t]
        /\ a.hitcount = IF isHit THEN c.hitcount + 1 ELSE c.hitcount
        /\ a.misscount = IF isHit THEN c.misscount ELSE c.misscount + 1
        /\ a.evictioncount =
               IF Len(touched) > E THEN c.evictioncount + 1 ELSE c.evictioncount

\* An access moves the tags of its set as the promised cache does, and counts the
\* hit, the miss and the eviction that this cache counts.
LEMMA AccessMovesTags ==
    ASSUME NEW c \in State, NEW set \in SetIndices, NEW tag \in Nat, Distinct(c), Ordered(c),
           NEW n \in Nat, NEW p, Enumerates(c.cache[set], n, p)
    PROVE  MovesTags(c, set, tag, accessCache(c, set, tag))
<1> DEFINE lines == c.cache[set]
           a == accessCache(c, set, tag)
           q == Recency(lines)
           isHit == \E k \in DOMAIN q : q[k] = tag
           touched == <<tag>> \o Lru!Others(q, tag)
           kept == SubSeq(touched, 1, IF Len(touched) > E THEN E ELSE Len(touched))
<1>1. PICK i \in Lines :
          LET filled == Fill(c, set, i, tag)
          IN  \/ lines[i].val = 1 /\ lines[i].tag = tag /\ a = [filled EXCEPT !.hitcount = @ + 1]
              \/ /\ HitLines(lines, tag) = {} /\ lines[i].val = 0
                 /\ a = [filled EXCEPT !.misscount = @ + 1]
              \/ /\ HitLines(lines, tag) = {} /\ lines[i].val = 1
                 /\ \A j \in Lines : lines[j].val = 1 /\ lines[i].used <= lines[j].used
                 /\ a = [filled EXCEPT !.evictioncount = @ + 1, !.misscount = @ + 1]
  BY AccessCases
<1> DEFINE f == Fill(c, set, i, tag)
           next == f.cache[set]
<1>2. /\ f \in State
      /\ f.hitcount = c.hitcount
      /\ f.misscount = c.misscount
      /\ f.evictioncount = c.evictioncount
      /\ f.cache[set][i] = [val |-> 1, tag |-> tag, used |-> c.last_use + 1]
      /\ \A t \in SetIndices, j \in Lines :
            t # set \/ j # i => f.cache[t][j] = c.cache[t][j]
  BY FillEffect
<1>3. lines \in [Lines -> Line] /\ c.last_use \in Nat
  BY DEF State
<1> HIDE DEF f, a
<1>4. /\ next \in [Lines -> Line]
      /\ next[i].val = 1 /\ next[i].tag = tag /\ next[i].used = c.last_use + 1
      /\ \A j \in Lines : j # i => next[j] = lines[j]
  BY <1>2 DEF State
<1>5. \A j \in Lines : lines[j].val = 1 => lines[j].used < next[i].used
  <2>1. \A j \in Lines : lines[j].val = 1 => lines[j].used \in 1..c.last_use
    BY DEF Ordered
  <2> QED BY <1>3, <1>4, <2>1
<1>6. \A t \in SetIndices : t # set => f.cache[t] = c.cache[t]
  <2> SUFFICES ASSUME NEW t \in SetIndices, t # set PROVE f.cache[t] = c.cache[t]
    OBVIOUS
  <2>1. f.cache[t] \in [Lines -> Line] /\ c.cache[t] \in [Lines -> Line]
    BY <1>2 DEF State
  <2>2. \A j \in Lines : f.cache[t][j] = c.cache[t][j]
    BY <1>2
  <2> QED BY <2>1, <2>2
<1>7. \/ /\ lines[i].val = 1 /\ lines[i].tag = tag
         /\ a = [f EXCEPT !.hitcount = f.hitcount + 1]
      \/ /\ HitLines(lines, tag) = {} /\ lines[i].val = 0
         /\ a = [f EXCEPT !.misscount = f.misscount + 1]
      \/ /\ HitLines(lines, tag) = {} /\ lines[i].val = 1
         /\ \A j \in Lines : lines[j].val = 1 /\ lines[i].used <= lines[j].used
         /\ a = [f EXCEPT !.evictioncount = f.evictioncount + 1, !.misscount = f.misscount + 1]
  BY <1>1, <1>2 DEF f, State
<1>8. a.cache = f.cache
  BY <1>2, <1>7 DEF State
<1> HIDE DEF next
<1>9. a.cache[set] = next /\ \A t \in SetIndices : t # set => a.cache[t] = c.cache[t]
  BY <1>6, <1>8 DEF next
<1>10. /\ p \in [1..n -> Lines]
       /\ \A k \in 1..n : lines[p[k]].val = 1
       /\ \A j \in Lines : lines[j].val = 1 => \E k \in 1..n : p[k] = j
       /\ \A k, l \in 1..n : k < l => lines[p[k]].used > lines[p[l]].used
  BY DEF Enumerates
<1>11. \A j \in Lines : lines[j].used \in Nat /\ lines[j].tag \in Nat
  BY <1>3 DEF Line
<1>12. q = Tags(lines, n, p) /\ Enumerates(lines, n, p)
  BY <1>3, ByUseIsTheOrder
<1>13. n <= E /\ (n = E <=> \A j \in Lines : lines[j].val = 1)
  BY <1>3, OrderCounts
<1> HIDE DEF lines, q
<1>14. q \in [1..n -> Nat] /\ DOMAIN q = 1..n /\ \A k \in 1..n : q[k] = lines[p[k]].tag
  BY <1>10, <1>11, <1>12 DEF Tags
<1>15. ASSUME NEW m \in Nat, NEW r \in 1..m,
              \/ lines[i].val = 1 /\ m = n /\ p[r] = i
              \/ lines[i].val = 0 /\ m = n + 1 /\ r = m
       PROVE  /\ \E o : Enumerates(next, m, o)
              /\ Recency(next) = Raise(q, m, r, tag)
  <2> DEFINE moved == Raise(p, m, r, i)
  <2>1. /\ Enumerates(next, m, moved)
        /\ \A k \in 1..m : next[moved[k]].tag =
               Raise(Tags(lines, n, p), m, r, next[i].tag)[k]
    BY <1>3, <1>4, <1>5, <1>12, <1>15, OrderMoves
  <2> HIDE DEF moved
  <2>2. Recency(next) = [k \in 1..m |-> next[moved[k]].tag]
    BY <1>4, <2>1, ByUseIsTheOrder DEF Tags
  <2>3. \A k \in 1..m : next[moved[k]].tag = Raise(q, m, r, tag)[k]
    BY <1>4, <1>12, <2>1
  <2>4. Raise(q, m, r, tag) = [k \in 1..m |-> Raise(q, m, r, tag)[k]]
    BY DEF Raise
  <2> QED BY <2>1, <2>2, <2>3, <2>4
<1>16. CASE lines[i].val = 1 /\ lines[i].tag = tag /\ a = [f EXCEPT !.hitcount = f.hitcount + 1]
  <2>1. PICK r \in 1..n : p[r] = i
    BY <1>10, <1>16
  <2>2. \A k \in 1..n : q[k] = tag => k = r
    <3> SUFFICES ASSUME NEW k \in 1..n, q[k] = tag, k # r PROVE FALSE
      OBVIOUS
    <3>1. p[k] = i
      <4>1. p[k] \in Lines /\ lines[p[k]].val = 1 /\ lines[p[k]].tag = tag
        BY <1>10, <1>14
      <4>2. \A j, l \in Lines : lines[j].val = 1 /\ lines[l].val = 1
                                 /\ lines[j].tag = lines[l].tag => j = l
        BY DEF Distinct, lines
      <4> QED BY <1>16, <4>1, <4>2
    <3>2. (k < r \/ r < k) /\ lines[i].used \in Nat
      BY <1>11
    <3> QED BY <1>10, <2>1, <3>1, <3>2
  <2>3. q[r] = tag /\ isHit
    BY <1>14, <1>16, <2>1
  <2>4. Len(touched) = n /\ kept = Raise(q, n, r, tag)
    BY <1>13, <1>14, <2>2, <2>3, TouchAgain
  <2>5. ~ Len(touched) > E
    BY <1>13, <2>4, GeometryAssumption
  <2>6. (\E o : Enumerates(next, n, o)) /\ Recency(next) = Raise(q, n, r, tag)
    BY <1>15, <1>16, <2>1
  <2>7. /\ a.hitcount = c.hitcount + 1 /\ a.misscount = c.misscount
        /\ a.evictioncount = c.evictioncount
    BY <1>2, <1>16 DEF State
  <2> HIDE DEF touched
  <2> QED BY <1>9, <2>3, <2>4, <2>5, <2>6, <2>7 DEF touched, a, q, lines, MovesTags
<1>17. ASSUME HitLines(lines, tag) = {}
       PROVE  ~ isHit /\ \A k \in 1..n : q[k] # tag
  <2>1. ASSUME NEW k \in 1..n PROVE q[k] # tag
    <3>1. p[k] \in Lines /\ lines[p[k]].val = 1 /\ q[k] = lines[p[k]].tag
      BY <1>10, <1>14
    <3> QED BY <1>17, <3>1 DEF HitLines
  <2> QED BY <1>14, <2>1
<1>18. CASE /\ HitLines(lines, tag) = {} /\ lines[i].val = 0
            /\ a = [f EXCEPT !.misscount = f.misscount + 1]
  <2>1. n < E
    BY <1>13, <1>18, GeometryAssumption
  <2>2. Len(touched) = n + 1 /\ kept = Raise(q, n + 1, n + 1, tag) /\ n + 1 \in Nat
    <3> DEFINE m == IF n = E THEN n ELSE n + 1
    <3>1. Len(touched) = n + 1 /\ kept = Raise(q, m, m, tag)
      BY <1>13, <1>14, <1>17, <1>18, TouchNew
    <3>2. m = n + 1
      BY <2>1, GeometryAssumption
    <3> HIDE DEF m, touched, kept
    <3> QED BY <3>1, <3>2
  <2>3. ~ Len(touched) > E
    BY <2>1, <2>2, GeometryAssumption
  <2>4. (\E o : Enumerates(next, n + 1, o)) /\ Recency(next) = Raise(q, n + 1, n + 1, tag)
    BY <1>15, <1>18
  <2>5. /\ a.hitcount = c.hitcount /\ a.misscount = c.misscount + 1
        /\ a.evictioncount = c.evictioncount
    BY <1>2, <1>18 DEF State
  <2> HIDE DEF touched
  <2> QED BY <1>9, <1>17, <1>18, <2>2, <2>3, <2>4, <2>5 DEF touched, a, q, lines, MovesTags
<1>19. CASE /\ HitLines(lines, tag) = {} /\ lines[i].val = 1
            /\ \A j \in Lines : lines[j].val = 1 /\ lines[i].used <= lines[j].used
            /\ a = [f EXCEPT !.evictioncount = f.evictioncount + 1,
                             !.misscount = f.misscount + 1]
  <2>1. n = E /\ n \in 1..n
    BY <1>13, <1>19, GeometryAssumption
  <2>2. p[n] = i
    <3>1. PICK r \in 1..n : p[r] = i
      BY <1>10, <1>19
    <3>2. lines[i].used \in Nat /\ lines[p[n]].used \in Nat /\ lines[i].used <= lines[p[n]].used
      BY <1>10, <1>11, <1>19, <2>1
    <3>3. ~ r < n
      BY <1>10, <2>1, <3>1, <3>2
    <3> QED BY <3>1, <3>3
  <2>3. Len(touched) = n + 1 /\ kept = Raise(q, n, n, tag)
    BY <1>13, <1>14, <1>17, <1>19, <2>1, TouchNew
  <2>4. Len(touched) > E
    BY <2>1, <2>3
  <2>5. (\E o : Enumerates(next, n, o)) /\ Recency(next) = Raise(q, n, n, tag)
    BY <1>15, <1>19, <2>1, <2>2
  <2>6. /\ a.hitcount = c.hitcount /\ a.misscount = c.misscount + 1
        /\ a.evictioncount = c.evictioncount + 1
    BY <1>2, <1>19 DEF State
  <2> HIDE DEF touched
  <2> QED BY <1>9, <1>17, <1>19, <2>3, <2>4, <2>5, <2>6 DEF touched, a, q, lines, MovesTags
<1> QED BY <1>7, <1>16, <1>18, <1>19

----------------------------------------------------------------------------
\* The simulator is a cache with least-recently-used replacement

\* The lines in use of every set can be counted off.
Enumerated(c) ==
    \A set \in SetIndices : \E n \in Nat : \E p : Enumerates(c.cache[set], n, p)

\* The record of the promised cache that a record of the simulator stands for.
AbsOf(c) == [order |-> [set \in 0..(2^s - 1) |-> Recency(c.cache[set])],
             hits |-> c.hitcount, misses |-> c.misscount, evictions |-> c.evictioncount]

\* With an index bit there are 2^s sets, and an address that fits in an unsigned int
\* has the set and the tag that the promised cache gives it.
LEMMA SetAndTagAsPromised ==
    ASSUME s # 0, NEW address \in Addresses, address < WORD
    PROVE  /\ SetIndices = 0..(2^s - 1)
           /\ SetOf(address) = Lru!Set(address) /\ TagOf(address) = Lru!Tag(address)
<1>1. S = 2^s /\ 2^s \in Nat /\ set_index = 2^s - 1 /\ set_index + 1 = 2^s
  BY GeometryAssumption DEF S, set_index
<1>2. address % WORD = address
  BY GeometryAssumption, TraceAssumption
<1> QED BY <1>1, <1>2 DEF SetIndices, SetOf, TagOf, Lru!Set, Lru!Tag

\* One access of the simulator is one access of the promised cache.
LEMMA AccessImplements ==
    ASSUME s # 0, NEW address \in Addresses, address < WORD,
           NEW c \in State, Distinct(c), Ordered(c), Enumerated(c)
    PROVE  /\ Enumerated(Access(c, address))
           /\ AbsOf(Access(c, address)) = Lru!Access(AbsOf(c), address)
<1> DEFINE set == SetOf(address)
           tag == TagOf(address)
           a == accessCache(c, set, tag)
           q == Recency(c.cache[set])
           isHit == \E k \in DOMAIN q : q[k] = tag
           touched == <<tag>> \o Lru!Others(q, tag)
           kept == SubSeq(touched, 1, IF Len(touched) > E THEN E ELSE Len(touched))
<1>1. set \in SetIndices /\ tag \in Nat
  BY SetAndTag
<1>2. PICK n \in Nat : \E p : Enumerates(c.cache[set], n, p)
  BY <1>1 DEF Enumerated
<1>3. PICK p : Enumerates(c.cache[set], n, p)
  BY <1>2
<1>4. SetIndices = 0..(2^s - 1) /\ set = Lru!Set(address) /\ tag = Lru!Tag(address)
  BY SetAndTagAsPromised
<1>5. Access(c, address) = a
  BY DEF Access
<1> HIDE DEF set, tag
<1>6. /\ \E m \in Nat : \E o : Enumerates(a.cache[set], m, o)
      /\ Recency(a.cache[set]) = kept
      /\ \A t \in SetIndices : t # set => a.cache[t] = c.cache[t]
      /\ a.hitcount = IF isHit THEN c.hitcount + 1 ELSE c.hitcount
      /\ a.misscount = IF isHit THEN c.misscount ELSE c.misscount + 1
      /\ a.evictioncount = IF Len(touched) > E THEN c.evictioncount + 1 ELSE c.evictioncount
  <2>1. MovesTags(c, set, tag, a)
    BY <1>1, <1>3, AccessMovesTags
  <2> QED BY <2>1 DEF MovesTags
<1>7. Enumerated(a)
  <2> HIDE DEF a
  <2> QED BY <1>6 DEF Enumerated
<1>8. AbsOf(c).order[set] = q /\ set \in 0..(2^s - 1)
  BY <1>1, <1>4 DEF AbsOf
<1>9. Lru!Access(AbsOf(c), address) =
          [order     |-> [AbsOf(c).order EXCEPT ![set] = kept],
           hits      |-> IF isHit THEN c.hitcount + 1 ELSE c.hitcount,
           misses    |-> IF isHit THEN c.misscount ELSE c.misscount + 1,
           evictions |-> IF Len(touched) > E THEN c.evictioncount + 1 ELSE c.evictioncount]
  <2>1. /\ AbsOf(c).hits = c.hitcount /\ AbsOf(c).misses = c.misscount
        /\ AbsOf(c).evictions = c.evictioncount
    BY DEF AbsOf
  <2> QED BY <1>4, <1>8, <2>1 DEF Lru!Access
<1> HIDE DEF a, q, touched, kept, isHit
<1>10. [AbsOf(c).order EXCEPT ![set] = kept] = [t \in 0..(2^s - 1) |-> Recency(a.cache[t])]
  BY <1>4, <1>6, <1>8 DEF AbsOf
<1>11. AbsOf(a) = Lru!Access(AbsOf(c), address)
  BY <1>6, <1>9, <1>10 DEF AbsOf
<1> QED BY <1>5, <1>7, <1>11

\* The empty cache is counted off by the empty order.
LEMMA EmptySets ==
    ASSUME Init
    PROVE  /\ Enumerated(Current)
           /\ \A set \in SetIndices : Recency(cache[set]) = <<>>
<1> DEFINE none == [k \in 1..0 |-> 0]
<1>1. ASSUME NEW set \in SetIndices
      PROVE  /\ cache[set] \in [Lines -> Line]
             /\ \A i \in Lines : cache[set][i].val = 0
  <2> DEFINE line == [val |-> 0, tag |-> 0, used |-> 0]
  <2>1. line \in Line /\ line.val = 0
    BY DEF Line
  <2> HIDE DEF line
  <2>2. cache = [t \in SetIndices |-> [i \in Lines |-> line]]
    BY DEF Init, SetIndices, line
  <2> QED BY <2>1, <2>2
<1>2. ASSUME NEW set \in SetIndices PROVE Enumerates(cache[set], 0, none)
  BY <1>1 DEF Enumerates
<1> HIDE DEF none
<1>3. ASSUME NEW set \in SetIndices PROVE Recency(cache[set]) = <<>>
  <2>1. Recency(cache[set]) = Tags(cache[set], 0, none)
    BY <1>1, <1>2, ByUseIsTheOrder
  <2> QED BY <2>1 DEF Tags
<1>4. Current.cache = cache
  BY DEF Current
<1> QED BY <1>2, <1>3, <1>4 DEF Enumerated

\* With an index bit, and on addresses that an unsigned int holds, csim counts the
\* hits, misses and evictions of an LRU cache of 2^s sets of E lines: the stamps of
\* accessCache keep the tags of a set in the order of their last use, and the line
\* they have evicted is the one at the end of this order.
THEOREM Implementation ==
    s # 0 /\ (\A a \in Addresses : a < WORD) => (Spec => ImplementsLru)
<1> SUFFICES ASSUME s # 0, \A a \in Addresses : a < WORD PROVE Spec => ImplementsLru
  OBVIOUS
<1>1. Lru!Current = AbsOf(Current)
  BY DEF Lru!Current, AbsOf, Current
<1>2. Init => Lru!Init /\ Enumerated(Current)
  <2> SUFFICES ASSUME Init PROVE Lru!Init /\ Enumerated(Current)
    OBVIOUS
  <2>1. SetIndices = 0..(2^s - 1)
    BY GeometryAssumption DEF SetIndices, set_index, S
  <2>2. [set \in 0..(2^s - 1) |-> Recency(cache[set])] = [i \in 0..(2^s - 1) |-> <<>>]
    BY <2>1, EmptySets
  <2> QED BY <2>2, EmptySets DEF Init, Lru!Init
<1>3. ASSUME NEW c \in State, Becomes(c)
      PROVE  Current' = c /\ Lru!Becomes(AbsOf(c))
  <2>1. /\ cache' = c.cache /\ hitcount' = c.hitcount /\ misscount' = c.misscount
        /\ evictioncount' = c.evictioncount
    BY <1>3 DEF Becomes
  <2>2. Current' = c
    BY <1>3 DEF Becomes, Current, State
  <2> QED BY <2>1, <2>2 DEF Lru!Becomes, AbsOf
<1>4. ASSUME IInv, Enumerated(Current), NEW address \in Addresses, LoadOrStore(address)
      PROVE  Enumerated(Current)' /\ Lru!Next
  <2> DEFINE c == Access(Current, address)
  <2>1. c \in State
    BY <1>4, AccessKeeps, SetAndTag DEF Access, IInv
  <2>2. Enumerated(c) /\ AbsOf(c) = Lru!Access(Lru!Current, address)
    BY <1>1, <1>4, AccessImplements DEF IInv
  <2>3. Becomes(c)
    BY <1>4 DEF LoadOrStore
  <2> HIDE DEF c
  <2>4. Current' = c /\ Lru!Becomes(AbsOf(c))
    BY <1>3, <2>1, <2>3
  <2>5. Lru!LoadOrStore(address)
    BY <2>2, <2>4 DEF Lru!LoadOrStore
  <2> QED BY <2>2, <2>4, <2>5 DEF Lru!Next
<1>5. ASSUME IInv, Enumerated(Current), NEW address \in Addresses, Modify(address)
      PROVE  Enumerated(Current)' /\ Lru!Next
  <2> DEFINE c == Access(Current, address)
             d == Access(c, address)
  <2>1. c \in State /\ Distinct(c) /\ Ordered(c) /\ Counted(c)
    BY <1>5, AccessKeeps, SetAndTag DEF Access, IInv
  <2>2. Enumerated(c) /\ AbsOf(c) = Lru!Access(Lru!Current, address)
    BY <1>1, <1>5, AccessImplements DEF IInv
  <2>3. Becomes(d)
    BY <1>5 DEF Modify
  <2> HIDE DEF c
  <2>4. d \in State
    BY <2>1, AccessKeeps, SetAndTag DEF Access
  <2>5. Enumerated(d) /\ AbsOf(d) = Lru!Access(AbsOf(c), address)
    BY <2>1, <2>2, AccessImplements
  <2> HIDE DEF d
  <2>6. Current' = d /\ Lru!Becomes(AbsOf(d))
    BY <1>3, <2>3, <2>4
  <2>7. Lru!Modify(address)
    BY <2>2, <2>5, <2>6 DEF Lru!Modify
  <2> QED BY <2>5, <2>6, <2>7 DEF Lru!Next
<1>6. ASSUME Enumerated(Current), UNCHANGED vars
      PROVE  /\ Enumerated(Current)'
             /\ UNCHANGED <<[set \in 0..(2^s - 1) |-> Recency(cache[set])],
                            hitcount, misscount, evictioncount>>
  <2>1. cache' = cache /\ hitcount' = hitcount /\ misscount' = misscount
        /\ evictioncount' = evictioncount /\ Current' = Current
    BY <1>6 DEF vars, Current
  <2> QED BY <1>6, <2>1 DEF Enumerated
<1>7. IInv /\ Enumerated(Current) /\ [Next]_vars =>
          /\ Enumerated(Current)'
          /\ [Lru!Next]_<<[set \in 0..(2^s - 1) |-> Recency(cache[set])],
                          hitcount, misscount, evictioncount>>
  BY <1>4, <1>5, <1>6 DEF Next
<1> QED BY <1>2, <1>7, Invariant, PTL DEF Spec, ImplementsLru, Lru!Spec
=============================================================================
