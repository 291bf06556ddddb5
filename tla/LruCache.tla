------------------------------ MODULE LruCache ------------------------------
(* What a cache simulator promises: a set-associative cache of 2^s sets of  *)
(* E lines with least-recently-used replacement, as the lab's manual asks   *)
(* for it.  A set is the sequence of the tags it holds, the most recently   *)
(* used first; lines, valid bits and time stamps do not appear.             *)
EXTENDS Integers, Sequences

CONSTANTS
    s, E, b,        \* set index bits, lines of a set, block offset bits
    Addresses       \* the addresses of a trace

VARIABLES
    order,          \* the tags of each set by recency
    hits, misses, evictions

Set(a) == (a \div 2^b) % 2^s

Tag(a) == a \div 2^(b + s)

\* What is left of the sequence without the tag, which it holds once at most.
Others(q, tag) ==
    LET k == CHOOSE k \in DOMAIN q : q[k] = tag
    IN  IF \E i \in DOMAIN q : q[i] = tag THEN SubSeq(q, 1, k - 1) \o SubSeq(q, k + 1, Len(q)) ELSE q

\* One access, on the record of the four variables.
Access(c, a) ==
    LET q == c.order[Set(a)]
        isHit == \E i \in DOMAIN q : q[i] = Tag(a)
        touched == <<Tag(a)>> \o Others(q, Tag(a))
    IN  [order     |-> [c.order EXCEPT ![Set(a)] = SubSeq(touched, 1,
                            IF Len(touched) > E THEN E ELSE Len(touched))],
         hits      |-> IF isHit THEN c.hits + 1 ELSE c.hits,
         misses    |-> IF isHit THEN c.misses ELSE c.misses + 1,
         evictions |-> IF Len(touched) > E THEN c.evictions + 1 ELSE c.evictions]

Current == [order |-> order, hits |-> hits, misses |-> misses, evictions |-> evictions]

Becomes(c) ==
    /\ order' = c.order
    /\ hits' = c.hits
    /\ misses' = c.misses
    /\ evictions' = c.evictions

\* A load or a store is one access, a modify is a load followed by a store.
LoadOrStore(a) == Becomes(Access(Current, a))

Modify(a) == Becomes(Access(Access(Current, a), a))

Init ==
    /\ order = [i \in 0..(2^s - 1) |-> <<>>]
    /\ hits = 0
    /\ misses = 0
    /\ evictions = 0

Next == \E a \in Addresses : LoadOrStore(a) \/ Modify(a)

Spec == Init /\ [][Next]_<<order, hits, misses, evictions>>
=============================================================================
