----------------------------- MODULE MCS3Resume -----------------------------
EXTENDS S3Resume

\* The sections of write_tables, in its order, with sizes in units of half a
\* block.
MCTables ==
    << [id |-> "acpi", size |-> 3], [id |-> "resume", size |-> 5],
       [id |-> "scratch", size |-> 1], [id |-> "bootorder", size |-> 2] >>
MCSizes == {MCTables[i].size : i \in DOMAIN MCTables}
=============================================================================
