----------------------------- MODULE AgesaHeap -----------------------------
(***************************************************************************)
(* The heap that AGESA allocates its buffers from through the call-outs of *)
(* src/src/northbridge/amd/agesa/family14/fam14_callouts.c.                *)
(*                                                                         *)
(* The heap is an array of 32 bit words.  Words 0 and 1 are the manager:   *)
(* the heads of the list of allocated nodes, in the order of allocation,   *)
(* and of the list of freed nodes, in the order of their offsets.  A node  *)
(* is three words, handle, size and offset of the next node, and what      *)
(* follows is the buffer.  The size of a freed node includes its header.   *)
(* Headers are read and written where the code reads and writes them,      *)
(* whatever lies there.                                                    *)
(*                                                                         *)
(* AGESA asks for buffers of any length and gives them back in any order,  *)
(* and the call-outs do not test for what they cannot do: give room to the *)
(* header of a small remainder, take the first node off its list, put a    *)
(* node behind the last freed one.  A step that does one of these is       *)
(* recorded, and the heap is followed up to it.                            *)
(***************************************************************************)
EXTENDS Integers, FiniteSets

CONSTANTS
    HEAP_SIZE,      \* BIOS_HEAP_SIZE in words
    Handles,        \* buffer handles, numbers larger than any offset
    Lengths         \* buffer lengths in words

ASSUME HeapAssumption == HEAP_SIZE \in Nat \ {0, 1} /\ Lengths \subseteq Nat \ {0}
ASSUME HandlesAssumption == Handles \subseteq Nat \ (0 .. HEAP_SIZE)

MANAGER == 2    \* sizeof (BIOS_HEAP_MANAGER)
NODE    == 3    \* sizeof (BIOS_BUFFER_NODE)
Words   == 0 .. HEAP_SIZE - 1

VARIABLES
    heap,   \* the words of the heap
    hung,   \* a walk through a list does not end
    live,   \* history: the buffers handed out and not given back
    untested    \* history: a call has done what the code does not test for

vars == <<heap, hung, live, untested>>

\* Memory outside the heap reads as zero.
Rd(m, o)    == IF o \in Words THEN m[o] ELSE 0
Wr(m, o, v) == IF o \in Words THEN [m EXCEPT ![o] = v] ELSE m

StartOfAllocatedNodes(m) == m[0]
StartOfFreedNodes(m)     == m[1]
BufferHandle(m, o)       == Rd(m, o)
BufferSize(m, o)         == Rd(m, o + 1)
NextNodeOffset(m, o)     == Rd(m, o + 2)

\* The nodes that a loop along the next offsets comes by, and 0 for ever
\* once it is at the end.  A loop longer than the heap has words never ends.
Steps == 0 .. HEAP_SIZE
Walk(m, o) ==
    LET w[i \in Steps] == IF i = 0 THEN o
                          ELSE IF w[i - 1] = 0 THEN 0
                          ELSE NextNodeOffset(m, w[i - 1])
    IN  w
Ends(w)  == w[HEAP_SIZE] = 0
Nodes(w) == {w[i] : i \in Steps} \ {0}
LastNode(w) == w[CHOOSE i \in Steps : w[i] # 0 /\ w[i + 1] = 0]
Least(S) == CHOOSE i \in S : \A j \in S : i <= j

\* The state when a buffer has been asked for: the heap and the node, 0 when
\* the call returns AGESA_BOUNDS_CHK.
Result(m, o) == [heap |-> m, node |-> o]

FirstAllocation(m, h, len) ==
    LET c  == MANAGER
        f  == c + len + NODE
        m1 == Wr(Wr(Wr(m, c, h), c + 1, len), c + 2, 0)
        m2 == Wr(Wr(m1, f + 1, HEAP_SIZE - MANAGER - NODE - len), f + 2, 0)
    IN  Result(Wr(Wr(m2, 0, c), 1, f), c)

\* Mutant: the buffer is not put on the list.
TakeNode_unlisted(m, h, len, best, prev, last) ==
    LET next == best + len + NODE
        m1 == Wr(Wr(m, next + 1, BufferSize(m, best) - (len + NODE)),
                 next + 2, NextNodeOffset(m, best))
        m2 == IF best = StartOfFreedNodes(m) THEN Wr(m1, 1, next)
                                             ELSE Wr(m1, prev + 2, next)
    IN  Result(Wr(Wr(Wr(m2, best + 1, len), best, h), best + 2, 0), best)

\* The freed node best becomes the buffer, what is left of it a freed node.
TakeNode(m, h, len, best, prev, last) ==
    LET split == BufferSize(m, best) > len + NODE
        next == IF split THEN best + len + NODE ELSE NextNodeOffset(m, best)
        m1 == IF split THEN Wr(Wr(m, next + 1, BufferSize(m, best) - (len + NODE)),
                               next + 2, NextNodeOffset(m, best))
                       ELSE m
        m2 == IF best = StartOfFreedNodes(m) THEN Wr(m1, 1, next)
                                             ELSE Wr(m1, prev + 2, next)
        m3 == Wr(m2, last + 2, best)
    IN  Result(Wr(Wr(Wr(m3, best + 1, len), best, h), best + 2, 0), best)

\* Mutant: the header of the buffer is not counted.
BestFit_header(m, len) ==
    LET w == Walk(m, StartOfFreedNodes(m))
        fits == {i \in Steps : w[i] # 0 /\ BufferSize(m, w[i]) >= len}
        best == {i \in fits : \A j \in fits : BufferSize(m, w[i]) <= BufferSize(m, w[j])}
    IN  IF fits = {} THEN [node |-> 0, prev |-> 0]
        ELSE LET i == Least(best) IN
             [node |-> w[i], prev |-> IF i = 0 THEN w[0] ELSE w[i - 1]]

\* The smallest freed node that fits, the first of them in the list.
BestFit(m, len) ==
    LET w == Walk(m, StartOfFreedNodes(m))
        fits == {i \in Steps : w[i] # 0 /\ BufferSize(m, w[i]) >= len + NODE}
        best == {i \in fits : \A j \in fits : BufferSize(m, w[i]) <= BufferSize(m, w[j])}
    IN  IF fits = {} THEN [node |-> 0, prev |-> 0]
        ELSE LET i == Least(best) IN
             [node |-> w[i], prev |-> IF i = 0 THEN w[0] ELSE w[i - 1]]

Allocated(m) == Walk(m, StartOfAllocatedNodes(m))

Allocate(m, h, len) ==
    IF StartOfAllocatedNodes(m) = 0 THEN FirstAllocation(m, h, len)
    ELSE LET w == Allocated(m)
             fit == BestFit(m, len)
         IN  IF \/ \E o \in Nodes(w) : BufferHandle(m, o) = h
                \/ fit.node = 0
             THEN Result(m, 0)
             ELSE TakeNode(m, h, len, fit.node, fit.prev, LastNode(w))

\* The first node with the handle on the list of allocated nodes, or 0.
\* Before the first allocation the loop looks at the manager.
Find(m, h) ==
    LET w == Allocated(m)
        is == {i \in Steps : w[i] # 0 /\ BufferHandle(m, w[i]) = h}
    IN  IF is = {} THEN [node |-> 0, prev |-> 0]
        ELSE LET i == Least(is) IN
             [node |-> w[i], prev |-> IF i = 0 THEN w[0] ELSE w[i - 1]]

BiosLocateBuffer(m, h) ==
    LET o == Find(m, h).node IN
    IF o = 0 THEN [ptr |-> 0, len |-> 0]
             ELSE [ptr |-> o + NODE, len |-> BufferSize(m, o)]

\* Off the list of allocated nodes, the buffer and the handle cleared.
Unlink(m, a, prev) ==
    LET m1 == Wr(m, prev + 2, NextNodeOffset(m, a))
        m2 == [o \in Words |-> IF o \in a + NODE .. a + NODE + BufferSize(m1, a) - 1
                               THEN 0 ELSE m1[o]]
    IN  Wr(Wr(m2, a, 0), a + 1, BufferSize(m2, a) + NODE)

\* Joins node b, which follows node a, to a.
Join(m, a, b) ==
    LET m1 == Wr(Wr(m, a + 1, BufferSize(m, a) + BufferSize(m, b)),
                 a + 2, NextNodeOffset(m, b))
    IN  Wr(Wr(m1, b + 1, 0), b + 2, 0)

AddInFront(m, a) ==
    LET f == StartOfFreedNodes(m)
        m1 == IF a + BufferSize(m, a) = f THEN Join(m, a, f) ELSE Wr(m, a + 2, f)
    IN  Wr(m1, 1, a)

\* Where the loop over the freed nodes stops: at the first node behind a, or
\* at the last node, which is then both the previous and the next one.  With
\* no freed node the loop takes the manager for one.
BehindWalk(m) ==
    LET w[i \in Steps] == IF i = 0 THEN StartOfFreedNodes(m)
                          ELSE NextNodeOffset(m, w[i - 1])
    IN  w
Stops(m, a) ==
    {i \in Steps : BehindWalk(m)[i] >= a \/ NextNodeOffset(m, BehindWalk(m)[i]) = 0}
Behind(m, a) ==
    LET w == BehindWalk(m)
        i == Least(Stops(m, a))
    IN  [next |-> w[i], prev |-> IF w[i] >= a /\ i > 0 THEN w[i - 1] ELSE w[i]]

AddBehind(m, a) ==
    LET b  == Behind(m, a)
        m1 == IF b.next = a + BufferSize(m, a) THEN Join(m, a, b.next)
                                               ELSE Wr(m, a + 2, b.next)
    IN  IF b.prev + BufferSize(m1, b.prev) = a
        THEN LET m2 == Wr(m1, b.prev + 2, NextNodeOffset(m1, a))
                 m3 == Wr(m2, b.prev + 1, BufferSize(m2, b.prev) + BufferSize(m2, a))
             IN  Wr(Wr(m3, a + 1, 0), a + 2, 0)
        ELSE Wr(m1, b.prev + 2, a)

\* The node with handle h goes from the one list to the other.
Freed(m, h) == LET f == Find(m, h) IN Unlink(m, f.node, f.prev)

\* Mutant: the node is not put in order.
Deallocate_front(m, h) ==
    IF Find(m, h).node = 0 THEN m ELSE AddInFront(Freed(m, h), Find(m, h).node)

Deallocate(m, h) ==
    LET a  == Find(m, h).node
        m1 == Freed(m, h)
    IN  IF a = 0 THEN m
        ELSE IF a < StartOfFreedNodes(m1) THEN AddInFront(m1, a)
        ELSE AddBehind(m1, a)

DeallocateEnds(m, h) ==
    LET a == Find(m, h).node IN
    \/ a = 0
    \/ a < StartOfFreedNodes(Freed(m, h))
    \/ Stops(Freed(m, h), a) # {}

\* The allocation leaves less than a header behind the buffer: of the heap, the
\* first time, or of the freed node that is split.
SmallRest(m, h, len) ==
    IF StartOfAllocatedNodes(m) = 0 THEN HEAP_SIZE < MANAGER + NODE + len + NODE
    ELSE LET size == BufferSize(m, BestFit(m, len).node)
         IN  /\ Allocate(m, h, len).node # 0
             /\ len + NODE < size /\ size < len + NODE + NODE

\* The node is the first on its list, where it stays, or no freed node lies
\* behind it: then the last one is taken for the next one, or, without any,
\* the manager.
OutOfOrder(m, h) ==
    LET a == Find(m, h).node
        freed == Nodes(Walk(m, StartOfFreedNodes(m)))
    IN  /\ a # 0
        /\ a = StartOfAllocatedNodes(m) \/ \A o \in freed : o <= a

Buffer(h, o, len) == [handle |-> h, node |-> o, len |-> len]
Start(b)          == b.node
End(b)            == b.node + NODE + b.len

TypeOK ==
    /\ heap \in [Words -> Nat]
    /\ hung \in BOOLEAN
    /\ live \subseteq [handle : Handles, node : Words, len : Lengths]
    /\ untested \in BOOLEAN

Init ==
    /\ heap = [o \in Words |-> 0]
    /\ hung = FALSE
    /\ live = {}
    /\ untested = FALSE

ListsEnd == Ends(Allocated(heap)) /\ Ends(Walk(heap, StartOfFreedNodes(heap)))

\* Bound: no call on a heap that an untested step may have damaged is followed.
Followed == ~hung /\ ~untested

BiosAllocateBuffer(h, len) ==
    /\ Followed
    /\ hung' = ~ListsEnd
    /\ IF ListsEnd
       THEN LET r == Allocate(heap, h, len) IN
            /\ heap' = r.heap
            /\ live' = IF r.node = 0 THEN live
                       ELSE live \cup {Buffer(h, r.node, len)}
            /\ untested' = SmallRest(heap, h, len)
       ELSE UNCHANGED <<heap, live, untested>>

BiosDeallocateBuffer(h) ==
    /\ Followed
    /\ hung' = ~(Ends(Allocated(heap)) /\ DeallocateEnds(heap, h))
    /\ untested' = OutOfOrder(heap, h)
    /\ IF hung' THEN UNCHANGED <<heap, live>>
       ELSE /\ heap' = Deallocate(heap, h)
            /\ live' = {b \in live : b.handle # h}

\* EmptyHeap, when amdinitpost has moved on to the heap in DRAM.
EmptyHeap ==
    /\ ~hung
    /\ heap' = [o \in Words |-> 0]
    /\ live' = {}
    /\ untested' = FALSE
    /\ UNCHANGED hung

Next ==
    \/ \E h \in Handles, len \in Lengths : BiosAllocateBuffer(h, len)
    \/ \E h \in Handles : BiosDeallocateBuffer(h)
    \/ EmptyHeap

Spec == Init /\ [][Next]_vars

-----------------------------------------------------------------------------
\* The properties hold of every caller, whatever it asks for and in whatever
\* order it gives back, until one of the steps that the code does not test for.

\* No two live buffers, with their headers, share a word, and none shares one
\* with the manager or reaches over the end of the heap.
BuffersDisjoint ==
    ~untested =>
        /\ \A b \in live : MANAGER <= Start(b) /\ End(b) <= HEAP_SIZE
        /\ \A b, c \in live : b # c => End(b) <= Start(c) \/ End(c) <= Start(b)

\* Every live buffer is found where it was handed out, with its length, and
\* nothing that was given back is found.
Locatable ==
    ~untested =>
        \A h \in Handles :
            LET r == BiosLocateBuffer(heap, h) IN
            IF \E b \in live : b.handle = h
            THEN \E b \in live : b.handle = h /\ r = [ptr |-> b.node + NODE, len |-> b.len]
            ELSE r.ptr = 0

\* No freed node lies in a live buffer or in another freed node, and buffers
\* and freed nodes together are the whole heap: nothing leaks.
NothingLeaks ==
    live # {} =>
        LET free == Nodes(Walk(heap, StartOfFreedNodes(heap)))
            of(o) == o .. o + BufferSize(heap, o) - 1
            ob(b) == Start(b) .. End(b) - 1
        IN  /\ \A o, p \in free : o # p => of(o) \cap of(p) = {}
            /\ \A o \in free, b \in live : of(o) \cap ob(b) = {}
            /\ UNION ({of(o) : o \in free} \cup {ob(b) : b \in live})
                   = MANAGER .. HEAP_SIZE - 1

\* The list of freed nodes is in the order of their offsets and ends, so the
\* loops of every call end.
FreedInOrder ==
    LET w == Walk(heap, StartOfFreedNodes(heap)) IN
    /\ ~hung
    /\ \A i \in Steps \ {0} : w[i] # 0 => w[i - 1] < w[i]

\* The words of the heap are those of a heap: of their types, every one
\* accounted for, and the lists can be walked.
HeapSound == ~untested => TypeOK /\ NothingLeaks /\ FreedInOrder
=============================================================================
