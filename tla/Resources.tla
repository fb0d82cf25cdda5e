----------------------------- MODULE Resources -----------------------------
(***************************************************************************)
(* The resource allocator (device/device.c, with device_util.c, the PCI    *)
(* registers of pci_device.c and the domain of the family 14h northbridge).*)
(*                                                                         *)
(* Every device asks for ranges of I/O ports or of memory.  A first pass   *)
(* walks the tree from the leaves and computes how much each bridge needs; *)
(* the domain is cut back from the resources that cannot move; a second    *)
(* pass walks down and gives every resource its place, a bridge's window   *)
(* like any other.  The second pass compares a place with the limit of the *)
(* resource, never with the window around it: that it fits there rests on  *)
(* what the first pass computed.  The registers are written last, and what *)
(* is left below and above the PCI memory is reported as RAM.              *)
(*                                                                         *)
(* A machine is the sequence of the resources of its domain in the order   *)
(* in which the code searches them, each with the bus it is on; alignment  *)
(* and granularity are multiples, not exponents.  Ports are bytes and      *)
(* memory is counted in units of 64 KB.                                    *)
(***************************************************************************)
EXTENDS Integers, FiniteSetsExt, SequencesExt

CONSTANTS
    Machines,   \* [res |-> the resources, dram |-> its end, hole |-> or 0]
    WIDTH       \* addresses are counted modulo WIDTH

VARIABLES
    res,        \* the resources
    mach,       \* the machine
    pc,         \* the pass
    finished,   \* the windows this pass has dealt with
    window,     \* the window a call works on, 0 between two calls
    todo,       \* the resources the loop of the call has still to see
    base,       \* its next address
    lim,        \* what is left of the address spaces between the fixed ones
    misfit,     \* "!! Resource didn't fit !!"
    reg,        \* what the base and limit registers decode
    ram         \* the RAM that is reported

loop == <<window, todo, base>>
vars == <<res, mach, pc, finished, loop, lim, misfit, reg, ram>>

\* Resources: the domain's two, what a bridge passes on (win), what cannot
\* move (fixed), and what a bridge decodes by subtraction (sub).
Ids == DOMAIN res
Windows == {r \in Ids : res[r].domain \/ res[r].win}
Space(r) == IF res[r].type = "io" THEN "io" ELSE "mem"

\* The types a window hands on: the domain's memory holds both kinds, a
\* bridge separates them.
Types(w) == IF res[w].domain /\ res[w].type = "mem" THEN {"mem", "pref"}
                                                   ELSE {res[w].type}

\* search_bus_resources: a subtractive resource stands for the bus behind it.
Searched(bus, types) ==
    LET On(b) == {r \in Ids : ~res[r].domain /\ res[r].bus = b
                              /\ res[r].enabled /\ res[r].type \in types}
        buses == {res[r].bus : r \in Ids} \cup {res[r].link : r \in Ids}
        found[b \in buses] ==
            UNION {IF res[r].sub THEN found[res[r].link] ELSE {r} : r \in On(b)}
    IN  found[bus]

\* largest_resource, called until it finds nothing: the strictest alignment
\* first, then the largest, then the first.
largest_resource(bus, types) ==
    SetToSortSeq({r \in Searched(bus, types) : ~res[r].fixed},
        LAMBDA a, b :
            \/ res[a].align > res[b].align
            \/ res[a].align = res[b].align /\ res[a].size > res[b].size
            \/ res[a].align = res[b].align /\ res[a].size = res[b].size
               /\ a < b)

\* round and align_up; align_down.
round(v, a) == (((v + a - 1) \div a) * a) % WIDTH
align_down(v, a) == v - (v % a)
resource_end(r) == res[r].base + round(res[r].size, res[r].gran) - 1
resource_max(r) ==
    align_down((res[r].limit - res[r].size + 1) % WIDTH, res[r].align)

\* Mutant: the ports that a card could answer for are used.
Legacy_none(r, b) == b

\* Of every 1024 ports only the first 256 are used, so that no card that
\* decodes ten bits answers for another; and VGA has ports of its own.
Legacy(r, b) ==
    IF res[r].type # "io" THEN b
    ELSE IF b % 1024 >= 256 THEN align_down(b, 1024) + 1024
    ELSE IF b \in 944..991 THEN 992
    ELSE b

\* The windows a window passes on to: those of the bridges on its bus.
Below(w) == {v \in Windows : res[v].win /\ res[v].bus = res[w].link
                             /\ res[v].type \in Types(w)}

------------------------------------------------------------------------------
(* First pass *)

Init ==
    /\ mach \in Machines
    /\ res = mach.res
    /\ pc = "compute" /\ finished = {}
    /\ window = 0 /\ todo = <<>> /\ base = 0
    /\ lim = <<>> /\ misfit = FALSE /\ reg = <<>> /\ ram = {}

\* compute_resources comes to the resources of a bus when it is back from the
\* bridges on it.
compute_resources ==
    /\ pc = "compute" /\ window = 0
    /\ LET ready == {w \in Windows \ finished : Below(w) \subseteq finished}
       IN  /\ ready # {}
           /\ window' = Min(ready)
           /\ todo' = largest_resource(res[window'].link, Types(window'))
           /\ base' = round(res[window'].base, res[window'].align)
    /\ UNCHANGED <<res, mach, pc, finished, lim, misfit, reg, ram>>

\* Mutant: the window is not aligned like what is behind it.
ComputeOne_unaligned ==
    /\ pc = "compute" /\ todo # <<>>
    /\ LET r == Head(todo)
           at == round(Legacy(r, base), res[r].align)
       IN  IF res[r].size = 0
           THEN UNCHANGED <<res, base>>
           ELSE /\ base' = (at + res[r].size) % WIDTH
                /\ res' = [res EXCEPT
                      ![window].limit = IF @ > res[r].limit THEN res[r].limit
                                                            ELSE @,
                      ![r].base = at]
    /\ todo' = Tail(todo)
    /\ UNCHANGED <<mach, pc, finished, window, lim, misfit, reg, ram>>

\* One resource of the bus: the window takes over its alignment and its limit
\* and grows by it.
ComputeOne ==
    /\ pc = "compute" /\ todo # <<>>
    /\ LET r == Head(todo)
           at == round(Legacy(r, base), res[r].align)
       IN  IF res[r].size = 0
           THEN UNCHANGED <<res, base>>
           ELSE /\ base' = (at + res[r].size) % WIDTH
                /\ res' = [res EXCEPT
                      ![window].align = IF res[r].align > @ THEN res[r].align
                                                            ELSE @,
                      ![window].limit = IF @ > res[r].limit THEN res[r].limit
                                                            ELSE @,
                      ![r].base = at]
    /\ todo' = Tail(todo)
    /\ UNCHANGED <<mach, pc, finished, window, lim, misfit, reg, ram>>

\* The window is as large as what is behind it, in steps of its granularity.
ComputeEnd ==
    /\ pc = "compute" /\ window # 0 /\ todo = <<>>
    /\ LET w == res[window] IN
       res' = [res EXCEPT ![window].size =
                  (round(base, w.gran) - round(w.base, w.align)) % WIDTH]
    /\ finished' = finished \cup {window}
    /\ window' = 0
    /\ UNCHANGED <<mach, pc, todo, base, lim, misfit, reg, ram>>

------------------------------------------------------------------------------
(* The resources that cannot move *)

\* The fixed resources of the enabled devices of the tree.
Fixed == {r \in Ids : res[r].fixed /\ res[r].enabled}
DomainOf(s) == {r \in Ids : res[r].domain /\ Space(r) = s}

\* avoid_fixed_resources starts with the limits of the domain.
avoid_fixed_resources ==
    /\ pc = "compute" /\ window = 0 /\ Windows \subseteq finished
    /\ pc' = "avoid"
    /\ lim' = [s \in {"io", "mem"} |->
                  [base |-> 0,
                   limit |-> Min({WIDTH - 1}
                                 \cup {res[d].limit : d \in DomainOf(s)})]]
    /\ todo' = SetToSortSeq(Fixed, LAMBDA a, b : a < b)
    /\ UNCHANGED <<res, mach, finished, window, base, misfit, reg, ram>>

\* Mutant: the fixed resource's own last address is left in.
constrain_resources_last ==
    /\ pc = "avoid" /\ todo # <<>>
    /\ LET r == res[Head(todo)]
           s == Space(Head(todo))
           end == r.base + r.size - 1
       IN  lim' = IF r.size = 0 \/ end < lim[s].base \/ r.base > lim[s].limit
                  THEN lim
                  ELSE IF lim[s].limit - end > r.base - lim[s].base
                  THEN [lim EXCEPT ![s].base = end]
                  ELSE [lim EXCEPT ![s].limit = r.base]
    /\ todo' = Tail(todo)
    /\ UNCHANGED <<res, mach, pc, finished, window, base, misfit, reg, ram>>

\* One fixed resource inside what is left: the larger side of it is kept.
constrain_resources ==
    /\ pc = "avoid" /\ todo # <<>>
    /\ LET r == res[Head(todo)]
           s == Space(Head(todo))
           end == r.base + r.size - 1
       IN  lim' = IF r.size = 0 \/ end < lim[s].base \/ r.base > lim[s].limit
                  THEN lim
                  ELSE IF lim[s].limit - end > r.base - lim[s].base
                  THEN [lim EXCEPT ![s].base = end + 1]
                  ELSE [lim EXCEPT ![s].limit = (r.base - 1) % WIDTH]
    /\ todo' = Tail(todo)
    /\ UNCHANGED <<res, mach, pc, finished, window, base, misfit, reg, ram>>

\* The domain's resources are cut back.
Constrained(r) ==
    LET l == lim[Space(r)] IN
    [res[r] EXCEPT !.base = IF l.base > @ THEN l.base ELSE @,
                   !.limit = IF @ > l.limit THEN l.limit ELSE @]
CutBack ==
    /\ pc = "avoid" /\ todo = <<>>
    /\ res' = [r \in Ids |-> IF res[r].domain THEN Constrained(r) ELSE res[r]]
    /\ pc' = "raise"
    /\ UNCHANGED <<mach, finished, loop, lim, misfit, reg, ram>>

\* Memory starts as high as it can.
Raise ==
    /\ pc = "raise"
    /\ res' = [r \in Ids |-> IF res[r].domain /\ res[r].type = "mem"
                             THEN [res[r] EXCEPT !.base = resource_max(r)]
                             ELSE res[r]]
    /\ pc' = "allocate" /\ finished' = {}
    /\ UNCHANGED <<mach, loop, lim, misfit, reg, ram>>

------------------------------------------------------------------------------
(* Second pass *)

\* allocate_resources is called for the domain's resources, and for a bridge's
\* window when all of the bus it is on have their places.
allocate_resources ==
    /\ pc = "allocate" /\ window = 0
    /\ LET ready == {w \in Windows \ finished :
                        res[w].domain
                        \/ \E v \in finished : w \in Below(v)}
       IN  /\ ready # {}
           /\ window' = Min(ready)
           /\ todo' = largest_resource(res[window'].link, Types(window'))
           /\ base' = res[window'].base
    /\ UNCHANGED <<res, mach, pc, finished, lim, misfit, reg, ram>>

\* The place of a resource and the limit it is compared with.
Place(r) == round(Legacy(r, base), res[r].align)
LimitOf(r) == IF res[r].limit > res[window].limit THEN res[window].limit
                                                  ELSE res[r].limit

\* A resource of size 0 is put to its limit.
AllocateNone ==
    /\ pc = "allocate" /\ todo # <<>>
    /\ LET r == Head(todo) IN
       /\ res[r].size = 0
       /\ res' = [res EXCEPT ![r].limit = LimitOf(r), ![r].base = LimitOf(r),
                             ![r].assigned = TRUE]
    /\ todo' = Tail(todo)
    /\ UNCHANGED <<mach, pc, finished, window, base, lim, misfit, reg, ram>>

\* The resource fits below its limit.
AllocateOne ==
    /\ pc = "allocate" /\ todo # <<>>
    /\ LET r == Head(todo) IN
       /\ res[r].size # 0
       /\ (Place(r) + res[r].size - 1) % WIDTH <= LimitOf(r)
       /\ res' = [res EXCEPT ![r].limit = LimitOf(r), ![r].base = Place(r),
                             ![r].assigned = TRUE]
       /\ base' = (Place(r) + res[r].size) % WIDTH
    /\ todo' = Tail(todo)
    /\ UNCHANGED <<mach, pc, finished, window, lim, misfit, reg, ram>>

\* It does not: an error is printed.
AllocateMisfit ==
    /\ pc = "allocate" /\ todo # <<>>
    /\ LET r == Head(todo) IN
       /\ res[r].size # 0
       /\ (Place(r) + res[r].size - 1) % WIDTH > LimitOf(r)
       /\ res' = [res EXCEPT ![r].limit = LimitOf(r)]
       /\ base' = Legacy(r, base)
    /\ misfit' = TRUE
    /\ todo' = Tail(todo)
    /\ UNCHANGED <<mach, pc, finished, window, lim, reg, ram>>

\* The window counts as assigned, whether or not it was given a place.
AllocateEnd ==
    /\ pc = "allocate" /\ window # 0 /\ todo = <<>>
    /\ res' = [res EXCEPT ![window].assigned = TRUE]
    /\ finished' = finished \cup {window}
    /\ window' = 0
    /\ UNCHANGED <<mach, pc, todo, base, lim, misfit, reg, ram>>

------------------------------------------------------------------------------
(* Registers and RAM *)

Movable(r) == ~res[r].domain /\ ~res[r].fixed /\ ~res[r].sub /\ res[r].enabled

\* What a register is given: a window of size 0 is closed, its first address
\* behind its last.
Decoded(r) ==
    IF res[r].win /\ res[r].size = 0
    THEN [first |-> res[r].limit, last |-> res[r].limit - res[r].gran]
    ELSE [first |-> res[r].base, last |-> resource_end(r)]

FourG == 65536

\* Mutant: prefetchable memory is not looked at.
find_pci_tolm_plain ==
    LET mem == {r \in Ids : res[r].domain /\ res[r].type = "mem"}
        on == UNION {Searched(res[d].link, {"mem"}) : d \in mem}
    IN  Min({FourG - 1} \cup {res[r].base : r \in on})

\* The lowest memory address on the domain's bus, or the end of 32 bits.
find_pci_tolm ==
    LET mem == {r \in Ids : res[r].domain /\ res[r].type = "mem"}
        on == UNION {Searched(res[d].link, {"mem", "pref"}) : d \in mem}
    IN  Min({FourG - 1} \cup {res[r].base : r \in on})

\* In steps of 64 MB, and not above the hole AGESA made.
mmio_base ==
    LET tolm == align_down(find_pci_tolm, 1024)
    IN  IF mach.hole # 0 /\ tolm > mach.hole THEN mach.hole ELSE tolm

\* The RAM domain_set_resources reports: up to 640 KB, then from 768 KB to the
\* PCI memory, and what is hoisted above 4 GB.
RamRanges ==
    LET a == IF mach.dram > 12 THEN 12 ELSE 0
        m == mmio_base
        split == a < FourG /\ mach.dram > m
        lost == IF a > m THEN a - m ELSE 0
        all == (IF a = 12 THEN {[first |-> 0, last |-> 9]} ELSE {})
               \cup (IF split
                     THEN {[first |-> a, last |-> m - 1],
                           [first |-> FourG, last |-> mach.dram - lost - 1]}
                     ELSE {[first |-> a, last |-> mach.dram - 1]})
    IN  {x \in all : x.first <= x.last}

\* assign_resources: the domain reports the RAM and then stores what is
\* assigned below it.
assign_resources ==
    /\ pc = "allocate" /\ window = 0 /\ Windows \subseteq finished
    /\ reg' = [r \in {r \in Ids : Movable(r) /\ res[r].assigned} |-> Decoded(r)]
    /\ ram' = IF mach.dram > 0 THEN RamRanges ELSE {}
    /\ pc' = "done"
    /\ UNCHANGED <<res, mach, finished, loop, lim, misfit>>

Next ==
    \/ compute_resources \/ ComputeOne \/ ComputeEnd
    \/ avoid_fixed_resources \/ constrain_resources \/ CutBack \/ Raise
    \/ allocate_resources \/ AllocateNone \/ AllocateOne \/ AllocateMisfit
    \/ AllocateEnd \/ assign_resources

Spec == Init /\ [][Next]_vars

------------------------------------------------------------------------------

TypeOK ==
    /\ mach \in Machines
    /\ DOMAIN res = DOMAIN mach.res
    /\ \A r \in Ids : /\ res[r].base \in 0..WIDTH-1
                      /\ res[r].size \in 0..WIDTH-1
                      /\ res[r].limit \in 0..WIDTH-1
                      /\ res[r].assigned \in BOOLEAN
    /\ pc \in {"compute", "avoid", "raise", "allocate", "done"}
    /\ finished \subseteq Windows
    /\ window \in Ids \cup {0}
    /\ misfit \in BOOLEAN

Meet(x, y) == x.first <= y.last /\ y.first <= x.last
Extent(r) ==
    IF res[r].fixed
    THEN [first |-> res[r].base, last |-> res[r].base + res[r].size - 1]
    ELSE reg[r]
Open(r) == Extent(r).first <= Extent(r).last

\* The address space is large enough for the memory the devices ask for: Raise
\* compares the place it computes neither with the end of a fixed resource
\* below nor with the first 64 MB, where RAM is reported all the same.
Roomy == \A d \in DomainOf("mem") :
             res[d].base >= lim["mem"].base /\ res[d].base >= 1024

Settled == pc = "done" /\ ~misfit /\ Roomy

\* No two devices answer for the same address: the resources one search finds
\* are apart, and none of them is where a fixed resource is, whatever the
\* sizes, alignments and fixed resources are.
NoneOverlaps ==
    Settled =>
        \A w \in Windows :
            LET found == {r \in Searched(res[w].link, Types(w)) :
                              r \in DOMAIN reg /\ res[r].size > 0}
            IN  \A a \in found :
                    /\ \A b \in found \ {a} : ~Meet(reg[a], reg[b])
                    /\ \A f \in Fixed :
                          (Space(f) = Space(a) /\ res[f].size > 0)
                              => ~Meet(reg[a], Extent(f))

\* What is behind a bridge is inside the window the bridge decodes, although
\* the second pass never looks at the end of the window; and a window with
\* nothing behind it is closed.
InTheirWindows ==
    Settled =>
        \A w \in DOMAIN reg :
            res[w].win =>
                LET found == {r \in Searched(res[w].link, Types(w)) :
                                  r \in DOMAIN reg /\ res[r].size > 0}
                IN  /\ \A r \in found : /\ reg[w].first <= reg[r].first
                                        /\ reg[r].last <= reg[w].last
                    /\ found = {} => ~Open(w)

\* No port that a card decoding ten bits would answer for is given away.
NoAliases ==
    (pc = "done" /\ ~misfit) =>
        \A r \in DOMAIN reg :
            (res[r].type = "io" /\ ~res[r].win /\ res[r].size \in 1..256) =>
                reg[r].first % 1024 < 256 /\ reg[r].last % 1024 < 256

\* The RAM the payload is told of is no address that a device answers for, and
\* a resource is where its device can decode it.
RamIsRam ==
    Settled =>
        /\ \A x \in ram : \A r \in DOMAIN reg \cup Fixed :
              (Space(r) = "mem" /\ res[r].size > 0) => ~Meet(x, Extent(r))
        /\ \A r \in DOMAIN reg :
              (~res[r].win /\ res[r].size > 0) =>
                  /\ reg[r].first % res[r].align = 0
                  /\ reg[r].last <= mach.res[r].limit

\* TypeOK and RamIsRam.
MapSound == TypeOK /\ RamIsRam
==============================================================================
