------------------------------ MODULE MemRange ------------------------------
(***************************************************************************)
(* One struct memranges under any sequence of the calls of                 *)
(* src/src/include/memrange.h, shown to be a map from pages to tags.       *)
(***************************************************************************)
EXTENDS RangeList, FiniteSetsExt

CONSTANTS
    LIMIT,      \* addresses are below this one, a multiple of PAGE
    None,       \* not a tag
    Bases,      \* where a resource may begin
    Sizes       \* how long it may be

Addresses == 0 .. LIMIT - 1

ASSUME MapAssumption ==
    /\ LIMIT \in Nat /\ LIMIT % PAGE = 0
    /\ None \notin Tags
    /\ Bases \subseteq Addresses
    /\ Sizes \subseteq Nat \ {0}

VARIABLES
    entries,    \* ranges->entries
    call        \* the last call and its arguments

ranges_vars == <<entries, call>>

RangesInit == entries = <<>> /\ call = [op |-> "none"]

\* memranges_insert, also behind memranges_init and memranges_add_resources;
\* collect_ranges skips a resource without a size.
Insert(base, size, tag) ==
    /\ base + size <= LIMIT
    /\ entries' = memranges_insert(entries, base, size, tag)
    /\ call' = [op |-> "insert", base |-> base, size |-> size, tag |-> tag]

CreateHole(base, size) ==
    /\ base + size <= LIMIT
    /\ entries' = memranges_create_hole(entries, base, size)
    /\ call' = [op |-> "hole", base |-> base, size |-> size]

UpdateTag(old, new) ==
    /\ entries' = memranges_update_tag(entries, old, new)
    /\ call' = [op |-> "retag", old |-> old, tag |-> new]

\* The caller's side of memranges_fill_holes_up_to (mtrr.c): there is an
\* entry at address 0, and no hole begins at the limit or just above it,
\* since RAM goes on at 4 GiB or ends before.  Otherwise the space below the
\* first entry stays empty, and the hole gets an entry that ends before it
\* begins.
Fillable(limit) ==
    /\ limit > 0 /\ entries # <<>> /\ entries[1].begin = 0
    /\ \A i \in 1 .. Len(entries) - 1 :
            entries[i].begin < limit /\ range_entry_end(entries[i]) >= limit
                => range_entry_end(entries[i]) = entries[i + 1].begin

FillHolesUpTo(limit, tag) ==
    /\ Fillable(limit)
    /\ entries' = memranges_fill_holes_up_to(entries, limit, tag)
    /\ call' = [op |-> "fill", limit |-> limit, tag |-> tag]

Teardown ==
    /\ entries' = <<>>
    /\ call' = [op |-> "teardown"]

RangesNext ==
    \/ \E b \in Bases, s \in Sizes :
            CreateHole(b, s) \/ \E t \in Tags : Insert(b, s, t)
    \/ \E s, t \in Tags : UpdateTag(s, t)
    \/ \E l \in {a \in Addresses : a % PAGE = 0}, t \in Tags : FillHolesUpTo(l, t)
    \/ Teardown

RangesSpec == RangesInit /\ [][RangesNext]_ranges_vars

-----------------------------------------------------------------------------
RangesTypeOK ==
    entries \in Seq([begin : Addresses, end : Addresses, tag : Tags])

\* The list stays in ascending order without overlaps, which every early
\* exit of the loops relies on, and entries cover whole pages.
Ordered ==
    /\ \A i \in DOMAIN entries :
            /\ entries[i].begin < entries[i].end
            /\ entries[i].begin % PAGE = 0
            /\ range_entry_end(entries[i]) % PAGE = 0
    /\ \A i \in 1 .. Len(entries) - 1 : entries[i].end < entries[i + 1].begin

\* No two neighbours could be one entry: the tables that are written from
\* the list (memory table, MTRRs) do not grow with the number of calls.
Merged ==
    \A i \in 1 .. Len(entries) - 1 :
        range_entry_end(entries[i]) = entries[i + 1].begin
            => entries[i].tag # entries[i + 1].tag

\* What every loop over the list takes for granted.
ListSound == RangesTypeOK /\ Ordered /\ Merged

\* The list stands for a map of the addresses in which the latest call
\* that covers an address decides its tag.
Tag(a) ==
    LET covering == {i \in DOMAIN entries : entries[i].begin <= a /\ a <= entries[i].end}
    IN  IF covering = {} THEN None ELSE entries[Min(covering)].tag
P == INSTANCE PageMap WITH paint <- [a \in Addresses |-> Tag(a)]
ImplementsMap == P!Painting
=============================================================================
