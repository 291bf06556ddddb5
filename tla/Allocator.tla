----------------------------- MODULE Allocator -----------------------------
(* What a malloc package promises its client: the regions handed out and    *)
(* not yet given back are aligned, inside the heap and pairwise disjoint,   *)
(* nobody but the client changes what is in them, and realloc carries the   *)
(* contents over.  Headers, free blocks and search order do not appear.     *)
EXTENDS Integers, FiniteSets

CONSTANTS
    Sizes,          \* the sizes the client asks for, in bytes
    Contents,       \* what the client writes
    MaxHeap         \* most bytes the heap can have

VARIABLES
    live,           \* the client's regions: address |-> [size, data]
    top             \* current end of the heap

Ptrs == {p \in 1..MaxHeap : p % 8 = 0}

Region(p, n) == p..(p + n - 1)

Disjoint(p, n, others) ==
    \A q \in others : Region(p, n) \cap Region(q, live[q].size) = {}

\* data is what the first words of the region hold, as far as it is known.
Words(n) == 0..((n + 3) \div 4 - 1)

With(regions, p, region) ==
    [q \in DOMAIN regions \cup {p} |-> IF q = p THEN region ELSE regions[q]]

Without(regions, p) == [q \in DOMAIN regions \ {p} |-> regions[q]]

Init == live = <<>> /\ top \in 0..MaxHeap

\* The client fills the region it gets.  Failing, that is changing nothing, is
\* always allowed.
Malloc(n) ==
    \E p \in Ptrs, c \in Contents :
        /\ p + n <= top'
        /\ Disjoint(p, n, DOMAIN live)
        /\ live' = With(live, p, [size |-> n, data |-> [w \in Words(n) |-> c]])

Free(p) == live' = Without(live, p)

\* Only the contents that both sizes have are carried over.
Realloc(p, n) ==
    \E q \in Ptrs :
        /\ q + n <= top'
        /\ Disjoint(q, n, DOMAIN live \ {p})
        /\ live' = With(Without(live, p), q,
                        [size |-> n,
                         data |-> [w \in Words(n) \cap DOMAIN live[p].data |-> live[p].data[w]]])

Next ==
    /\ top' \in top..MaxHeap
    /\ \/ UNCHANGED live
       \/ \E n \in Sizes : Malloc(n)
       \/ \E p \in DOMAIN live : Free(p) \/ \E n \in Sizes : Realloc(p, n)

Spec == Init /\ [][Next]_<<live, top>>
=============================================================================
