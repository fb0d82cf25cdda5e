------------------------------ MODULE SpinLock ------------------------------
(***************************************************************************)
(* The byte spin lock of src/src/arch/x86/include/arch/smp/spinlock.h,     *)
(* behind start_cpu_lock (lapic_cpu_init.c) and console_lock (printk.c).   *)
(*                                                                         *)
(* spin_lock decrements the byte atomically and has the lock if the result *)
(* is not negative; otherwise it waits until the byte is positive and      *)
(* decrements again.  spin_unlock stores 1.  Every CPU that saw the byte   *)
(* positive decrements it, so with many CPUs the signed byte could wrap.   *)
(***************************************************************************)
EXTENDS Integers, FiniteSets

CONSTANTS
    Cpus,       \* the processors, CONFIG_MAX_CPUS of them
    HALF        \* 2^7: the byte ranges over -HALF .. HALF - 1

\* At most one CPU more than the byte has negative values; with one CPU more
\* than that the byte can wrap to a positive value.
ASSUME WidthAssumption ==
    /\ IsFiniteSet(Cpus)
    /\ HALF \in Nat \ {0, 1}
    /\ Cardinality(Cpus) <= HALF + 1

VARIABLES
    lock,       \* the byte, as a signed number
    lpc         \* where each CPU is

lock_vars == <<lock, lpc>>

SPIN_LOCK_UNLOCKED == 1

LockTypeOK ==
    /\ lock \in -HALF .. HALF - 1
    /\ lpc \in [Cpus -> {"idle", "decb", "wait", "held"}]

LockInit ==
    /\ lock = SPIN_LOCK_UNLOCKED
    /\ lpc = [c \in Cpus |-> "idle"]

\* A CPU calls spin_lock.
Call(c) ==
    /\ lpc[c] = "idle"
    /\ lpc' = [lpc EXCEPT ![c] = "decb"]
    /\ UNCHANGED lock

\* "lock ; decb": the byte wraps; "js" branches on the sign of the result.
decb(v) == IF v = -HALF THEN HALF - 1 ELSE v - 1

\* Mutant: the sign test is off by one.
Decb_late(c) ==
    /\ lpc[c] = "decb"
    /\ lock' = decb(lock)
    /\ lpc' = [lpc EXCEPT ![c] = IF lock' < -1 THEN "wait" ELSE "held"]

Decb(c) ==
    /\ lpc[c] = "decb"
    /\ lock' = decb(lock)
    /\ lpc' = [lpc EXCEPT ![c] = IF lock' < 0 THEN "wait" ELSE "held"]

\* Mutant: no waiting for the byte to become positive.
Cmpb_now(c) ==
    /\ lpc[c] = "wait"
    /\ lpc' = [lpc EXCEPT ![c] = "decb"]
    /\ UNCHANGED lock

\* "cmpb $0" and "jle": back to the decrement once the byte is positive.
Cmpb(c) ==
    /\ lpc[c] = "wait"
    /\ lock > 0
    /\ lpc' = [lpc EXCEPT ![c] = "decb"]
    /\ UNCHANGED lock

\* Mutant: the byte is incremented instead of set.
spin_unlock_inc(c) ==
    /\ lpc[c] = "held"
    /\ lock' = lock + 1
    /\ lpc' = [lpc EXCEPT ![c] = "idle"]

spin_unlock(c) ==
    /\ lpc[c] = "held"
    /\ lock' = SPIN_LOCK_UNLOCKED
    /\ lpc' = [lpc EXCEPT ![c] = "idle"]

Step(c) == Decb(c) \/ Cmpb(c) \/ spin_unlock(c)

LockNext == \E c \in Cpus : Call(c) \/ Step(c)

\* A CPU inside spin_lock keeps running, and one that holds the lock gives
\* it back; nobody has to call spin_lock.
LockSpec ==
    LockInit /\ [][LockNext]_lock_vars /\ \A c \in Cpus : WF_lock_vars(Step(c))

-----------------------------------------------------------------------------
\* spin_lock lets a single CPU in at a time.
MutualExclusion ==
    \A c, d \in Cpus : lpc[c] = "held" /\ lpc[d] = "held" => c = d

\* The decrements of the CPUs in spin_lock pile up, but by no more than one
\* for each of them: the byte does not reach the value at which decb wraps
\* it to a positive one, which would let a second CPU in.
NoWrap == lock >= 1 - Cardinality({c \in Cpus : lpc[c] \in {"wait", "held"}})

\* Seen from outside, spin_lock and spin_unlock admit one of the CPUs that
\* ask whenever nobody is inside: the piled-up decrements neither admit a
\* second CPU nor turn away the only one.
Asking == {c \in Cpus : lpc[c] \in {"decb", "wait"}}
Inside == {c \in Cpus : lpc[c] = "held"}
Promise == INSTANCE SingleCpu WITH asking <- Asking, inside <- Inside
ImplementsLock == Promise!Admission

\* As long as a CPU is in spin_lock some CPU gets the lock: the waiters do
\* not keep each other out.  (Which one gets it is left open: "We make no
\* fairness assumptions".)
SomeoneGetsIt ==
    (\E c \in Cpus : lpc[c] \in {"decb", "wait"})
        ~> (\E c \in Cpus : lpc[c] = "held")
=============================================================================
