------------------------------ MODULE RangeList ------------------------------
(***************************************************************************)
(* The list operations of src/src/lib/memrange.c.  A list of range_entry   *)
(* is a sequence of records; begin and end are the first and the last      *)
(* address of an entry.  Entries are values: the recycling of their memory *)
(* through free_list is left out.                                          *)
(***************************************************************************)
EXTENDS Integers, Sequences

CONSTANTS
    PAGE,       \* 4096
    Tags        \* what an entry can be marked with

ASSUME PageAssumption == PAGE \in Nat /\ PAGE > 1

Entry == [begin : Int, end : Int, tag : Tags]
List == Seq(Entry)

range_entry(b, e, t) == [begin |-> b, end |-> e, tag |-> t]

range_entry_end(r) == r.end + 1

-----------------------------------------------------------------------------
\* Mutant: only entries that overlap are merged, not those that touch.
Mergeable_overlap(prev, cur) == prev.end >= cur.begin /\ prev.tag = cur.tag

Mergeable(prev, cur) == prev.end + 1 >= cur.begin /\ prev.tag = cur.tag

merge_neighbor_entries(ranges) ==
    LET merge[list \in List] ==
            IF Len(list) < 2 THEN list
            ELSE IF Mergeable(list[1], list[2])
            THEN merge[<<[list[1] EXCEPT !.end = list[2].end]>> \o SubSeq(list, 3, Len(list))]
            ELSE <<list[1]>> \o merge[Tail(list)]
    IN  merge[ranges]

\* Mutant: a hole punched into the middle loses the end of the entry.
Remains_middle(cur, begin, end) ==
    CASE begin = cur.begin /\ end >= cur.end -> <<>>
      [] begin = cur.begin /\ end < cur.end -> << [cur EXCEPT !.begin = end + 1] >>
      [] OTHER -> << [cur EXCEPT !.end = begin - 1] >>

\* What is left of cur when an overlapping [begin, end] is taken from it;
\* begin is already moved up to cur.begin.
Remains(cur, begin, end) ==
    CASE begin = cur.begin /\ end >= cur.end -> <<>>
      [] begin > cur.begin /\ end < cur.end ->
            << [cur EXCEPT !.end = begin - 1], [cur EXCEPT !.begin = end + 1] >>
      [] begin = cur.begin /\ end < cur.end -> << [cur EXCEPT !.begin = end + 1] >>
      [] OTHER -> << [cur EXCEPT !.end = begin - 1] >>

\* The loop ends at the first entry beyond the range, or with an entry that
\* gets a hole in its middle.
remove_memranges(ranges, begin, end) ==
    LET remove[list \in List] ==
          [b \in Int |->
            IF list = <<>> \/ end < list[1].begin THEN list
            ELSE IF b > list[1].end THEN <<list[1]>> \o remove[Tail(list)][b]
            ELSE IF b > list[1].begin /\ end < list[1].end
            THEN Remains(list[1], b, end) \o Tail(list)
            ELSE LET from == IF b <= list[1].begin THEN list[1].begin ELSE b
                     full == from = list[1].begin /\ end >= list[1].end
                 IN  Remains(list[1], from, end)
                        \o remove[Tail(list)][IF full THEN list[1].end + 1 ELSE from]]
    IN  remove[ranges][begin]

\* range_list_add in front of the first entry behind the new one.
Placed(ranges, r) ==
    LET place[list \in List] ==
            IF list = <<>> \/ r.end < list[1].begin THEN <<r>> \o list
            ELSE <<list[1]>> \o place[Tail(list)]
    IN  place[ranges]

merge_add_memranges(list, begin, end, tag) ==
    merge_neighbor_entries(
        Placed(remove_memranges(list, begin, end), range_entry(begin, end, tag)))

-----------------------------------------------------------------------------
ALIGN_DOWN(a) == PAGE * (a \div PAGE)
ALIGN_UP(a) == ALIGN_DOWN(a + PAGE - 1)

\* do_action: the whole pages that base and size touch.
Begin(base) == ALIGN_DOWN(base)
End(base, size) == ALIGN_UP(ALIGN_DOWN(base) + size + (base % PAGE)) - 1

memranges_insert(list, base, size, tag) ==
    merge_add_memranges(list, Begin(base), End(base, size), tag)

memranges_create_hole(list, base, size) ==
    remove_memranges(list, Begin(base), End(base, size))

memranges_update_tag(list, old, new) ==
    merge_neighbor_entries(
        [i \in DOMAIN list |->
            IF list[i].tag = old THEN [list[i] EXCEPT !.tag = new] ELSE list[i]])

\* The space behind the entry the loop ends with.
Behind(prev, limit, tag) ==
    IF range_entry_end(prev) < limit
    THEN <<range_entry(range_entry_end(prev), limit - 1, tag)>> ELSE <<>>

\* The loop looks at pairs of entries prev, cur.  A hole before cur gets an
\* entry cut at the limit; the loop ends with the entry that begins at the
\* limit or above, and the space behind the one it ends with is filled too.
memranges_fill_holes_up_to(ranges, limit, tag) ==
    LET fill[list \in List \ {<<>>}] ==
            IF Len(list) = 1 THEN list \o Behind(list[1], limit, tag)
            ELSE LET prev == list[1]
                     cur == list[2]
                     end == IF cur.begin - 1 >= limit THEN limit - 1 ELSE cur.begin - 1
                     hole == IF range_entry_end(prev) = cur.begin THEN <<>>
                             ELSE <<range_entry(range_entry_end(prev), end, tag)>>
                 IN  <<prev>> \o hole \o
                        (IF cur.begin >= limit
                         THEN <<cur>> \o Behind(cur, limit, tag) \o SubSeq(list, 3, Len(list))
                         ELSE fill[Tail(list)])
    IN  IF ranges = <<>> THEN ranges ELSE merge_neighbor_entries(fill[ranges])
=============================================================================
