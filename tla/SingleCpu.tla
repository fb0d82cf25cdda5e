------------------------------ MODULE SingleCpu ------------------------------
(***************************************************************************)
(* What src/src/arch/x86/include/arch/smp/spinlock.h promises: it "allow[s] *)
(* only a single CPU anywhere".  CPUs ask for admission in any number; one *)
(* of those that asked is admitted whenever nobody is inside, and "we make *)
(* no fairness assumptions" about which.                                   *)
(***************************************************************************)
CONSTANT Cpus

VARIABLES
    asking,     \* the CPUs that have called spin_lock and are not admitted
    inside      \* the CPUs between spin_lock and spin_unlock

Nobody == asking \cup inside = {}

Ask(c) ==
    /\ c \notin asking \cup inside
    /\ asking' = asking \cup {c}
    /\ inside' = inside

Admit(c) ==
    /\ inside = {} /\ c \in asking
    /\ <<asking', inside'>> = <<asking \ {c}, {c}>>

Leave == inside # {} /\ inside' = {} /\ asking' = asking

Admission ==
    Nobody /\ [][Leave \/ \E c \in Cpus : Ask(c) \/ Admit(c)]_<<asking, inside>>
=============================================================================
