---------------------------- MODULE MCBootState ----------------------------
(* Instance of BootState: the two static entries of the tree (late.c on    *)
(* entry of BS_DEV_ENABLE, cbmem.c on entry of BS_POST_DEVICE) and one     *)
(* more callback for the clients to schedule.                              *)
EXTENDS BootState

CONSTANTS c1, c2, c3

MCCallbacks == {c1, c2, c3}

MCStaticEntries ==
    << [state |-> 4, when |-> BS_ON_ENTRY, bscb |-> c1],
       [state |-> 6, when |-> BS_ON_ENTRY, bscb |-> c2] >>

\* The resume branch and the last two states, whose order is not linear.
MCClientStates == {BS_OS_RESUME_CHECK, BS_OS_RESUME, BS_PAYLOAD_BOOT}

=============================================================================
