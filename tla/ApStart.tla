------------------------------ MODULE ApStart ------------------------------
(***************************************************************************)
(* Starting the application processors: initialize_cpus, start_cpu,        *)
(* lapic_start_cpu and secondary_cpu_init of                               *)
(* src/src/cpu/x86/lapic/lapic_cpu_init.c, the trampoline of secondary.S   *)
(* and cpu_initialize of src/src/arch/x86/lib/cpu.c, built with            *)
(* CONFIG_SERIAL_CPU_INIT=1.                                               *)
(*                                                                         *)
(* The bootstrap processor (BSP) hands one AP at a time its stack and its  *)
(* index through two global words, wakes it with INIT and STARTUP IPIs and *)
(* waits at most a second for the AP to clear secondary_stack.  Each read  *)
(* and write of a word that BSP and APs share is a step of its own.        *)
(* A stack is named by its index; 0 stands for the cleared word.  At the   *)
(* end of a stack start_cpu leaves a struct cpu_info, from which the CPU   *)
(* that runs on the stack learns which device it is.                       *)
(***************************************************************************)
EXTENDS Integers, Sequences, FiniteSets

CONSTANTS
    Children,   \* the devices of cpu_bus, in the order of the sibling list
    Apic,       \* those of them with an APIC path
    Enabled,    \* those that are enabled when initialize_cpus is called
    Bsp,        \* the device of the boot processor
    MAX_CPUS,   \* CONFIG_MAX_CPUS
    Reliable    \* the local APIC reports errors truly, and an AP that gets
                \* its STARTUP IPI calls in before the second is over

Devices == {Children[k] : k \in 1 .. Len(Children)}
APs     == (Apic \cap Enabled) \ {Bsp}

ASSUME ChildrenAssumption ==
    /\ Children \in Seq(Devices)
    /\ \A j, k \in 1 .. Len(Children) : Children[j] = Children[k] => j = k
    /\ Bsp \in Apic \cap Enabled
    /\ Apic \cup Enabled \subseteq Devices
ASSUME MaxCpusAssumption == MAX_CPUS \in Nat /\ Cardinality(APs) < MAX_CPUS
ASSUME ReliableAssumption == Reliable \in BOOLEAN

CONFIG_NUM_IPI_STARTS == 2
NoCpu == "nocpu"
Free  == "free"

ASSUME NamesAssumption == {NoCpu, Free} \cap Devices = {}

VARIABLES
    pc,                   \* where the BSP is
    child,                \* position of the loop of start_other_cpus
    j,                    \* STARTUP IPIs sent by lapic_start_cpu
    result,               \* local of start_cpu
    started,              \* history: CPUs start_cpu returned 1 for
    start_cpu_lock,       \* Free, or the CPU that holds it
    last_cpu_index,
    secondary_stack,
    secondary_cpu_index,
    cpu_info,             \* the device at the end of each stack
    enabled, initialized, \* fields of the devices, as sets
    active_cpus,
    delivered,            \* the APs a STARTUP IPI has reached
    ap,                   \* where each AP is
    esp, edi              \* registers of the APs

bsp_vars  == <<pc, child, j, result, started>>
mail_vars == <<last_cpu_index, secondary_stack, secondary_cpu_index, cpu_info>>
dev_vars  == <<enabled, initialized>>
ap_vars   == <<delivered, ap, esp, edi>>
vars == <<bsp_vars, start_cpu_lock, mail_vars, dev_vars, active_cpus, ap_vars>>

cpu == Children[child]   \* the device start_other_cpus is at

\* An AP that runs on a stack of its own, from when it has called in.
CalledIn(a) == ap[a] \in {"enter", "lock", "init", "leave", "halted", "dead"}

TypeOK ==
    /\ pc \in {"copy", "bsp_init", "next", "lock", "advertise", "init_ipi",
               "startup_ipi", "poll", "release", "stop", "done", "dead"}
    /\ child \in 1 .. Len(Children) + 1
    /\ j \in 0 .. CONFIG_NUM_IPI_STARTS
    /\ result \in {0, 1}
    /\ started \subseteq APs
    /\ start_cpu_lock \in Devices \cup {Free}
    /\ last_cpu_index \in 0 .. MAX_CPUS - 1
    /\ secondary_stack \in 0 .. MAX_CPUS - 1
    /\ secondary_cpu_index \in 0 .. MAX_CPUS - 1
    /\ cpu_info \in [0 .. MAX_CPUS - 1 -> Devices \cup {NoCpu}]
    /\ enabled \subseteq Devices
    /\ initialized \subseteq Devices
    /\ active_cpus \in 1 .. MAX_CPUS
    /\ delivered \subseteq APs
    /\ ap \in [APs -> {"off", "index", "clear", "enter", "lock", "init",
                       "leave", "halted", "dead", "wild"}]
    /\ esp \in [APs -> 0 .. MAX_CPUS - 1]
    /\ edi \in [APs -> 0 .. MAX_CPUS - 1]

Init ==
    /\ pc = "copy" /\ child = 1 /\ j = 0 /\ result = 0 /\ started = {}
    /\ start_cpu_lock = Free
    /\ last_cpu_index = 0 /\ secondary_stack = 0 /\ secondary_cpu_index = 0
    /\ cpu_info = [k \in 0 .. MAX_CPUS - 1 |-> IF k = 0 THEN Bsp ELSE NoCpu]
    /\ enabled = Enabled /\ initialized = {}
    /\ active_cpus = 1
    /\ delivered = {}
    /\ ap = [a \in APs |-> "off"]
    /\ esp = [a \in APs |-> 0] /\ edi = [a \in APs |-> 0]

-----------------------------------------------------------------------------
(* The bootstrap processor.                                                *)

\* copy_secondary_start_to_lowest_1M: dies when the page the trampoline
\* replaces cannot be backed up for a resume.
copy_secondary_start_to_lowest_1M ==
    /\ pc = "copy"
    /\ pc' \in {"bsp_init", "dead"}
    /\ UNCHANGED <<child, j, result, started, start_cpu_lock, mail_vars,
                   dev_vars, active_cpus, ap_vars>>

\* What cpu_initialize does to device d once its driver is found; the only
\* cpu_driver of the image (model_14_init.c) has an init function.
MarkInitialized(d) ==
    enabled' = enabled \cup {d} /\ initialized' = initialized \cup {d}

\* cpu_initialize(0) on the BSP; no driver for it ("Unknown cpu") is fatal.
InitializeBsp ==
    /\ pc = "bsp_init"
    /\ \/ pc' = "next" /\ MarkInitialized(cpu_info[0])
       \/ pc' = "dead" /\ UNCHANGED dev_vars
    /\ UNCHANGED <<child, j, result, started, start_cpu_lock, mail_vars,
                   active_cpus, ap_vars>>

\* The children start_other_cpus passes over.
Skipped(d) == d \notin Apic \/ d \notin enabled \/ d \in initialized

start_other_cpus ==
    /\ pc = "next"
    /\ \/ /\ child <= Len(Children) /\ Skipped(cpu)
          /\ child' = child + 1 /\ pc' = pc
       \/ /\ child <= Len(Children) /\ ~Skipped(cpu)
          /\ pc' = "lock" /\ UNCHANGED child
       \/ /\ child > Len(Children)
          /\ pc' = "stop" /\ UNCHANGED child
    /\ UNCHANGED <<j, result, started, start_cpu_lock, mail_vars, dev_vars,
                   active_cpus, ap_vars>>

StartCpuLock ==
    /\ pc = "lock"
    /\ start_cpu_lock = Free
    /\ start_cpu_lock' = Bsp
    /\ pc' = "advertise"
    /\ UNCHANGED <<child, j, result, started, mail_vars, dev_vars,
                   active_cpus, ap_vars>>

\* Mutant: the device keeps the state the device tree gave it.
Advertise_enabled ==
    /\ pc = "advertise"
    /\ LET index == last_cpu_index + 1 IN
          /\ last_cpu_index' = index
          /\ cpu_info' = [cpu_info EXCEPT ![index] = cpu]
          /\ secondary_stack' = index
          /\ secondary_cpu_index' = index
    /\ pc' = "init_ipi"
    /\ UNCHANGED <<child, j, result, started, start_cpu_lock, dev_vars,
                   active_cpus, ap_vars>>

\* start_cpu up to the call of lapic_start_cpu: a new index, the cpu_info of
\* the new stack, the two words of the mailbox, and the device is reported
\* as not enabled.
Advertise ==
    /\ pc = "advertise"
    /\ LET index == last_cpu_index + 1 IN
          /\ last_cpu_index' = index
          /\ cpu_info' = [cpu_info EXCEPT ![index] = cpu]
          /\ secondary_stack' = index
          /\ secondary_cpu_index' = index
    /\ enabled' = enabled \ {cpu}
    /\ initialized' = initialized \ {cpu}
    /\ pc' = "init_ipi"
    /\ UNCHANGED <<child, j, result, started, start_cpu_lock, active_cpus,
                   ap_vars>>

\* lapic_start_cpu: INIT is asserted and deasserted; either may time out.
InitIpi ==
    /\ pc = "init_ipi"
    /\ \/ pc' = "startup_ipi" /\ UNCHANGED result
       \/ pc' = "release" /\ result' = 0
    /\ j' = 0
    /\ UNCHANGED <<child, started, start_cpu_lock, mail_vars, dev_vars,
                   active_cpus, ap_vars>>

\* One turn of the STARTUP loop.  The IPI may reach the AP; a send or accept
\* error ends the loop and makes lapic_start_cpu return 0.
StartupIpi ==
    /\ pc = "startup_ipi"
    /\ delivered' \in {delivered, delivered \cup {cpu}}
    /\ j' = j + 1
    /\ \/ /\ Reliable => cpu \notin delivered'
          /\ pc' = "release" /\ result' = 0
       \/ /\ pc' = IF j' < CONFIG_NUM_IPI_STARTS THEN "startup_ipi" ELSE "poll"
          /\ UNCHANGED result
    /\ UNCHANGED <<child, started, start_cpu_lock, mail_vars, dev_vars,
                   active_cpus, ap, esp, edi>>

\* "Wait 1s or until the new cpu calls in".
CpuCalledIn ==
    /\ pc = "poll"
    /\ secondary_stack = 0
    /\ result' = 1
    /\ pc' = "release"
    /\ UNCHANGED <<child, j, started, start_cpu_lock, mail_vars, dev_vars,
                   active_cpus, ap_vars>>

PollTimeout ==
    /\ pc = "poll"
    /\ secondary_stack # 0
    /\ Reliable => cpu \notin delivered
    /\ result' = 0
    /\ pc' = "release"
    /\ UNCHANGED <<child, j, started, start_cpu_lock, mail_vars, dev_vars,
                   active_cpus, ap_vars>>

Release ==
    /\ pc = "release"
    /\ secondary_stack' = 0
    /\ start_cpu_lock' = Free
    /\ started' = IF result = 1 THEN started \cup {cpu} ELSE started
    /\ child' = child + 1
    /\ pc' = "next"
    /\ UNCHANGED <<j, result, last_cpu_index, secondary_cpu_index, cpu_info,
                   dev_vars, active_cpus, ap_vars>>

\* The loop of wait_other_cpus_stop is left once active_cpus reads 1.
wait_other_cpus_stop ==
    /\ pc = "stop"
    /\ active_cpus = 1
    /\ pc' = "done"
    /\ UNCHANGED <<child, j, result, started, start_cpu_lock, mail_vars,
                   dev_vars, active_cpus, ap_vars>>

-----------------------------------------------------------------------------
(* An application processor.                                               *)

\* Mutant: the stack is flagged as taken before the index is read.
LoadStack_clear(a) ==
    /\ ap[a] = "off"
    /\ a \in delivered
    /\ esp' = [esp EXCEPT ![a] = secondary_stack]
    /\ secondary_stack' = 0
    /\ ap' = [ap EXCEPT ![a] = "index"]
    /\ UNCHANGED <<bsp_vars, start_cpu_lock, last_cpu_index,
                   secondary_cpu_index, cpu_info, dev_vars, active_cpus,
                   delivered, edi>>

\* secondary.S: the stack pointer is loaded ...
LoadStack(a) ==
    /\ ap[a] = "off"
    /\ a \in delivered
    /\ esp' = [esp EXCEPT ![a] = secondary_stack]
    /\ ap' = [ap EXCEPT ![a] = "index"]
    /\ UNCHANGED <<bsp_vars, start_cpu_lock, mail_vars, dev_vars, active_cpus,
                   delivered, edi>>

\* ... then the index, which is pushed: with no stack the AP runs wild.
LoadIndex(a) ==
    /\ ap[a] = "index"
    /\ edi' = [edi EXCEPT ![a] = secondary_cpu_index]
    /\ ap' = [ap EXCEPT ![a] = IF esp[a] = 0 THEN "wild" ELSE "clear"]
    /\ UNCHANGED <<bsp_vars, start_cpu_lock, mail_vars, dev_vars, active_cpus,
                   delivered, esp>>

\* ... and clearing secondary_stack tells the BSP that both have been read.
ClearStack(a) ==
    /\ ap[a] = "clear"
    /\ secondary_stack' = 0
    /\ ap' = [ap EXCEPT ![a] = "enter"]
    /\ UNCHANGED <<bsp_vars, start_cpu_lock, last_cpu_index,
                   secondary_cpu_index, cpu_info, dev_vars, active_cpus,
                   delivered, esp, edi>>

\* Mutant: the AP does not announce itself.
Enter_silent(a) ==
    /\ ap[a] = "enter"
    /\ ap' = [ap EXCEPT ![a] = "lock"]
    /\ UNCHANGED <<bsp_vars, start_cpu_lock, mail_vars, dev_vars, active_cpus,
                   delivered, esp, edi>>

\* secondary_cpu_init: atomic_inc(&active_cpus).
Enter(a) ==
    /\ ap[a] = "enter"
    /\ active_cpus' = active_cpus + 1
    /\ ap' = [ap EXCEPT ![a] = "lock"]
    /\ UNCHANGED <<bsp_vars, start_cpu_lock, mail_vars, dev_vars, delivered,
                   esp, edi>>

Lock(a) ==
    /\ ap[a] = "lock"
    /\ start_cpu_lock = Free
    /\ start_cpu_lock' = a
    /\ ap' = [ap EXCEPT ![a] = "init"]
    /\ UNCHANGED <<bsp_vars, mail_vars, dev_vars, active_cpus, delivered,
                   esp, edi>>

\* Mutant: the lock is not released.
InitializeAp_locked(a) ==
    /\ ap[a] = "init"
    /\ MarkInitialized(cpu_info[esp[a]])
    /\ ap' = [ap EXCEPT ![a] = "leave"]
    /\ UNCHANGED <<bsp_vars, start_cpu_lock, mail_vars, active_cpus,
                   delivered, esp, edi>>

\* cpu_initialize and the release of the lock; "Unknown cpu" stops the AP
\* where it is, with the lock held.
InitializeAp(a) ==
    /\ ap[a] = "init"
    /\ \/ /\ MarkInitialized(cpu_info[esp[a]])
          /\ start_cpu_lock' = Free
          /\ ap' = [ap EXCEPT ![a] = "leave"]
       \/ /\ ap' = [ap EXCEPT ![a] = "dead"]
          /\ UNCHANGED <<dev_vars, start_cpu_lock>>
    /\ UNCHANGED <<bsp_vars, mail_vars, active_cpus, delivered, esp, edi>>

\* atomic_dec(&active_cpus) and stop_this_cpu.
Leave(a) ==
    /\ ap[a] = "leave"
    /\ active_cpus' = active_cpus - 1
    /\ ap' = [ap EXCEPT ![a] = "halted"]
    /\ UNCHANGED <<bsp_vars, start_cpu_lock, mail_vars, dev_vars, delivered,
                   esp, edi>>

-----------------------------------------------------------------------------
BspStep ==
    \/ copy_secondary_start_to_lowest_1M
    \/ InitializeBsp
    \/ start_other_cpus
    \/ StartCpuLock
    \/ Advertise
    \/ InitIpi
    \/ StartupIpi
    \/ CpuCalledIn
    \/ PollTimeout
    \/ Release
    \/ wait_other_cpus_stop

ApStep(a) ==
    \/ LoadStack(a)
    \/ LoadIndex(a)
    \/ ClearStack(a)
    \/ Enter(a)
    \/ Lock(a)
    \/ InitializeAp(a)
    \/ Leave(a)

Next == BspStep \/ \E a \in APs : ApStep(a)

\* Each processor runs on its own: one that can take its next step takes it.
Spec == Init /\ [][Next]_vars /\ WF_vars(BspStep)
             /\ \A a \in APs : WF_vars(ApStep(a))

-----------------------------------------------------------------------------
\* start_cpu_lock: "Only starting one cpu at a time let's me remove the logic
\* for select the stack from assembly language".  An AP takes the stack and
\* the index that start_cpu made for it: it finds its own device in the
\* cpu_info, and so no two CPUs share a stack.
OwnStack ==
    \A a \in APs : CalledIn(a) \/ ap[a] = "wild" =>
        esp[a] # 0 /\ edi[a] = esp[a] /\ cpu_info[esp[a]] = a

\* "noting which cpus startup and not telling anyone about the ones that
\* don't": a CPU start_cpu has given up on is not reported as enabled.
FailedNotEnabled ==
    \A k \in 1 .. Len(Children) :
        /\ Children[k] \in APs \ started
        /\ k < child
        => Children[k] \notin enabled \cup initialized

\* cpu_initialize never runs on two processors at once, and never while the
\* BSP is in start_cpu (CONFIG_SERIAL_CPU_INIT).
SerialInit ==
    /\ \A a, b \in APs : ap[a] = "init" /\ ap[b] = "init" => a = b
    /\ \A a \in APs : ap[a] = "init" =>
          pc \notin {"bsp_init", "advertise", "init_ipi", "startup_ipi",
                     "poll", "release"}

\* With the types of the variables: also, no more stacks are used than there are.
ApsInOrder == TypeOK /\ FailedNotEnabled /\ SerialInit

\* When wait_other_cpus_stop lets the BSP go on, no AP that has announced
\* itself is still initialising.
StopSeesAnnounced ==
    [][pc = "stop" /\ pc' = "done" =>
          \A a \in APs : ap[a] \notin {"lock", "init", "leave"}]_vars

\* The BSP gets through initialize_cpus unless a processor dies: no deadlock
\* on start_cpu_lock and no lost wakeup.
BspFinishes ==
    <>(pc \in {"done", "dead"} \/ \E a \in APs : ap[a] = "dead")

\* wait_other_cpus_stop: "Now loop until the other cpus have finished
\* initializing" - once the BSP goes on no AP is between calling in and
\* halting.
AllStopped ==
    pc = "done" => \A a \in APs :
        ap[a] \notin {"clear", "enter", "lock", "init", "leave"}
=============================================================================
