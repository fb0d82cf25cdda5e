----------------------------- MODULE SmpProofs -----------------------------
(***************************************************************************)
(* Proofs about ApStart and, at the end, about SpinLock.                   *)
(*                                                                         *)
(* ApStart is proved for every list of devices on the CPU bus and          *)
(* every number of APs up to CONFIG_MAX_CPUS, on a machine whose APs call  *)
(* in before the second is over (Reliable).  One inductive invariant ties  *)
(* the position of the BSP to the two words of the mailbox, to the AP that *)
(* is being started and to what the earlier ones have become.              *)
(***************************************************************************)
EXTENDS ApStart, SpinLock, FiniteSetTheorems, TLAPS

Positions == 1 .. Len(Children)

\* The BSP is in start_cpu, behind Advertise.
Starting == pc \in {"init_ipi", "startup_ipi", "poll", "release"}

\* The APs start_cpu has been called for, and those that have counted
\* themselves and not left.
Behind(k) == k < child \/ (k = child /\ Starting)
Tried     == {a \in APs : \E k \in Positions : Children[k] = a /\ Behind(k)}
Announced == {a \in APs : ap[a] \in {"lock", "init", "leave", "dead"}}

\* Where the BSP is in its loop, and which devices it will not pass over.
LoopInv ==
    /\ pc \in {"copy", "bsp_init", "dead"} => child = 1
    /\ pc \notin {"copy", "bsp_init", "dead"} => Bsp \in initialized
    /\ pc \in {"lock", "advertise"} \/ Starting =>
          child \in Positions /\ cpu \in APs
    /\ pc = "startup_ipi" => j < CONFIG_NUM_IPI_STARTS
    /\ enabled \subseteq Enabled
    /\ \A a \in APs \ Tried : a \in enabled /\ a \notin initialized

\* Who holds start_cpu_lock.
LockInv ==
    /\ pc = "advertise" \/ Starting => start_cpu_lock = Bsp
    /\ \A a \in APs : ap[a] \in {"init", "dead"} => start_cpu_lock = a

\* What the two counters count.
CountInv ==
    /\ last_cpu_index = Cardinality(Tried)
    /\ active_cpus = 1 + Cardinality(Announced)
    /\ cpu_info[0] = Bsp

\* The mailbox, while an AP is being started.
MailInv ==
    Starting =>
        /\ last_cpu_index > 0
        /\ secondary_cpu_index = last_cpu_index
        /\ cpu_info[last_cpu_index] = cpu
        /\ secondary_stack = IF CalledIn(cpu) THEN 0 ELSE last_cpu_index
        /\ ap[cpu] \in {"index", "clear"} => esp[cpu] = last_cpu_index
        /\ ap[cpu] = "clear" => edi[cpu] = last_cpu_index
        /\ pc = "init_ipi" => cpu \notin delivered
        /\ pc = "release" => /\ cpu \in delivered => CalledIn(cpu)
                             /\ CalledIn(cpu) => result = 1

\* One AP: off until its IPI has reached it; then it is the one that is being
\* started, or it has called in, on its own stack.
ApOK(a) ==
    /\ ap[a] # "wild"
    /\ a \notin delivered => ap[a] = "off"
    /\ a \in delivered => a \in Tried /\ (CalledIn(a) \/ (Starting /\ a = cpu))
    /\ CalledIn(a) => /\ esp[a] \in 1 .. last_cpu_index
                      /\ edi[a] = esp[a]
                      /\ cpu_info[esp[a]] = a
    /\ a \in Tried /\ ~CalledIn(a) => a \notin enabled \cup initialized
    /\ CalledIn(a) => a \in started \/ (Starting /\ a = cpu)

ApInv == \A a \in APs : ApOK(a)

IInv == /\ Reliable
        /\ TypeOK /\ LoopInv /\ LockInv /\ CountInv /\ MailInv /\ ApInv

-----------------------------------------------------------------------------
(* The constants, and the sets that are counted.                           *)

LEMMA Consts ==
    /\ Len(Children) \in Nat
    /\ \A k \in Positions : Children[k] \in Devices
    /\ \A k, l \in Positions : Children[k] = Children[l] => k = l
    /\ \A a \in APs : \E k \in Positions : Children[k] = a
    /\ APs \subseteq Devices /\ APs \subseteq Enabled
    /\ Bsp \in Devices \ APs /\ Bsp \in Enabled
    /\ Free \notin Devices /\ NoCpu \notin Devices
    /\ Enabled \subseteq Devices
<1>1. Len(Children) \in Nat
    BY ChildrenAssumption
<1>2. \A d \in Devices : \E k \in Positions : Children[k] = d
    BY DEF Positions, Devices
<1>3. \A k \in Positions : Children[k] \in Devices
    BY DEF Positions, Devices
<1>4. APs \subseteq Devices /\ APs \subseteq Enabled /\ Bsp \notin APs
    BY ChildrenAssumption DEF APs
<1>5. Bsp \in Devices /\ Bsp \in Enabled /\ Enabled \subseteq Devices
    BY ChildrenAssumption
<1>6. Free \notin Devices /\ NoCpu \notin Devices
    BY NamesAssumption
<1>7. \A k, l \in Positions : Children[k] = Children[l] => k = l
    BY ChildrenAssumption DEF Positions
<1> QED
    BY <1>1, <1>2, <1>3, <1>4, <1>5, <1>6, <1>7

LEMMA ApsFinite ==
    /\ IsFiniteSet(APs)
    /\ MAX_CPUS \in Nat /\ Cardinality(APs) \in Nat /\ Cardinality(APs) < MAX_CPUS
<1>1. Children \in [Positions -> Devices]
    BY ChildrenAssumption DEF Positions
<1>2. Children \in Surjection(Positions, Devices)
    BY <1>1 DEF Surjection, Positions, Devices
<1>3. IsFiniteSet(Devices)
    BY <1>2, Consts, FS_Interval, FS_Surjection DEF Positions
<1>4. IsFiniteSet(APs)
    BY <1>3, Consts, FS_Subset
<1> QED
    BY <1>4, FS_CardinalityType, MaxCpusAssumption

LEMMA CountFact ==
    ASSUME NEW S \in SUBSET APs
    PROVE  /\ IsFiniteSet(S)
           /\ Cardinality(S) \in 0 .. MAX_CPUS - 1
           /\ Cardinality(S) = 0 => S = {}
           /\ \A a \in APs \ S : /\ Cardinality(S) + 1 <= MAX_CPUS - 1
                                 /\ Cardinality(S \cup {a}) = Cardinality(S) + 1
           /\ \A a \in S : /\ Cardinality(S) > 0
                           /\ Cardinality(S \ {a}) = Cardinality(S) - 1
<1>1. IsFiniteSet(S) /\ Cardinality(S) <= Cardinality(APs)
    BY ApsFinite, FS_Subset
<1>2. Cardinality(S) \in Nat
    BY <1>1, FS_CardinalityType
<1>3. Cardinality(S) = 0 <=> S = {}
    BY <1>1, FS_EmptySet
<1>4. ASSUME NEW a \in APs \ S
      PROVE  /\ Cardinality(S) + 1 <= MAX_CPUS - 1
             /\ Cardinality(S \cup {a}) = Cardinality(S) + 1
  <2>1. Cardinality(S \cup {a}) = Cardinality(S) + 1
      BY <1>1, <1>4, FS_AddElement
  <2>2. S \cup {a} \in SUBSET APs
      OBVIOUS
  <2>3. Cardinality(S \cup {a}) <= Cardinality(APs)
      BY <2>2, ApsFinite, FS_Subset
  <2> QED
      BY <1>2, <2>1, <2>3, ApsFinite
<1>5. ASSUME NEW a \in S
      PROVE  /\ Cardinality(S) > 0
             /\ Cardinality(S \ {a}) = Cardinality(S) - 1
  <2>1. Cardinality(S) # 0
      BY <1>3, <1>5
  <2>2. Cardinality(S \ {a}) = Cardinality(S) - 1
      BY <1>1, <1>5, FS_RemoveElement
  <2> QED
      BY <1>2, <2>1, <2>2
<1>6. Cardinality(S) \in 0 .. MAX_CPUS - 1
    BY <1>1, <1>2, ApsFinite
<1> QED
    BY <1>1, <1>3, <1>4, <1>5, <1>6

LEMMA SetsFact == Tried \in SUBSET APs /\ Announced \in SUBSET APs
BY DEF Tried, Announced

\* An AP the loop comes to has not been tried before.
LEMMA Untried ==
    ASSUME TypeOK, child \in Positions, ~Starting
    PROVE  cpu \notin Tried
BY Consts DEF TypeOK, Tried, Behind, Starting, cpu, Positions

-----------------------------------------------------------------------------
LEMMA InvInit == Reliable /\ Init => IInv
<1> SUFFICES ASSUME Reliable, Init PROVE IInv
    OBVIOUS
<1>1. Tried = {} /\ Announced = {} /\ ~Starting
    BY Consts DEF Init, Tried, Announced, Behind, Starting, Positions
<1>2. Cardinality(Tried) = 0 /\ Cardinality(Announced) = 0
    BY <1>1, FS_EmptySet
<1>3. \A a \in APs : ap[a] = "off" /\ a \notin delivered /\ ~CalledIn(a)
    BY DEF Init, CalledIn
<1>4. TypeOK
    BY Consts, ApsFinite DEF Init, TypeOK, CONFIG_NUM_IPI_STARTS
<1>5. LoopInv
    BY <1>1, Consts DEF Init, LoopInv
<1>6. LockInv /\ MailInv /\ ApInv
    BY <1>1, <1>3 DEF LockInv, MailInv, ApInv, ApOK, Init
<1>7. CountInv
    BY <1>2, ApsFinite DEF CountInv, Init
<1> QED
    BY <1>4, <1>5, <1>6, <1>7 DEF IInv

-----------------------------------------------------------------------------
(* Steps of the BSP.                                                       *)

\* A step that neither moves the loop on nor enters or leaves start_cpu.
LEMMA Frame ==
    ASSUME child' = child, Starting' <=> Starting
    PROVE  cpu' = cpu /\ Tried' = Tried
BY DEF cpu, Tried, Behind

\* APs and counters that a step of the BSP leaves alone.
LEMMA FrameAps ==
    ASSUME UNCHANGED ap
    PROVE  /\ Announced' = Announced
           /\ \A a \in APs : CalledIn(a)' <=> CalledIn(a)
BY DEF Announced, CalledIn

\* Before the loop, and the wait behind it.
LEMMA StepOutside ==
    ASSUME IInv, copy_secondary_start_to_lowest_1M \/ InitializeBsp \/ wait_other_cpus_stop
    PROVE  IInv'
<1> USE DEF copy_secondary_start_to_lowest_1M, InitializeBsp,
            wait_other_cpus_stop, mail_vars, dev_vars, ap_vars
<1>1. ~Starting /\ ~Starting' /\ child' = child /\ UNCHANGED ap
    BY DEF Starting
<1>2. cpu' = cpu /\ Tried' = Tried
    BY <1>1, Frame
<1>3. /\ Announced' = Announced
      /\ \A a \in APs : CalledIn(a)' <=> CalledIn(a)
    BY <1>1, FrameAps
<1>4. \/ UNCHANGED dev_vars
      \/ enabled' = enabled \cup {Bsp} /\ initialized' = initialized \cup {Bsp}
    BY DEF IInv, CountInv, MarkInitialized
<1>5. TypeOK'
    BY <1>4, Consts DEF IInv, TypeOK
<1>6. LoopInv'
    BY <1>1, <1>2, <1>4, Consts DEF IInv, LoopInv, CountInv, MarkInitialized
<1>7. LockInv' /\ MailInv'
    BY <1>1 DEF IInv, LockInv, MailInv
<1>8. CountInv'
    BY <1>2, <1>3 DEF IInv, CountInv
<1>9. ApInv'
    BY <1>1, <1>2, <1>3, <1>4, Consts DEF IInv, ApInv, ApOK
<1> QED
    BY <1>5, <1>6, <1>7, <1>8, <1>9 DEF IInv

\* The loop passes over devices that are no APs, and over no AP.
LEMMA StepLoop ==
    ASSUME IInv, start_other_cpus
    PROVE  IInv'
<1> USE DEF start_other_cpus, mail_vars, dev_vars, ap_vars
<1>1. ~Starting /\ ~Starting' /\ UNCHANGED ap /\ child \in Nat
    BY Consts DEF Starting, IInv, TypeOK
<1>2. child \in Positions => cpu \notin Tried /\ cpu \in Devices
    BY <1>1, Untried, Consts DEF IInv, cpu
<1>3. child \in Positions /\ cpu \in APs => ~Skipped(cpu)
    BY <1>2 DEF IInv, LoopInv, Skipped, APs
<1>4. child \in Positions <=> child <= Len(Children)
    BY Consts DEF Positions, IInv, TypeOK
<1>5. Tried' = Tried
  <2>1. CASE child' = child
      BY <1>1, <2>1, Frame
  <2>2. CASE child' = child + 1 /\ child \in Positions /\ cpu \notin APs
    <3>1. ASSUME NEW k \in Positions, Children[k] \in APs
          PROVE  Behind(k)' <=> Behind(k)
        BY <1>1, <2>2, <3>1, Consts DEF Behind, cpu, Positions
    <3> QED
        BY <3>1 DEF Tried
  <2> QED
      BY <1>3, <1>4, <2>1, <2>2
<1>6. /\ Announced' = Announced
      /\ \A a \in APs : CalledIn(a)' <=> CalledIn(a)
    BY <1>1, FrameAps
<1>7. pc' = "lock" => child' = child /\ child \in Positions /\ cpu' \in APs
    BY <1>2, <1>4 DEF IInv, LoopInv, Skipped, APs, cpu
<1>8. TypeOK'
    BY <1>4, Consts DEF IInv, TypeOK, Positions
<1>9. LoopInv'
    BY <1>1, <1>5, <1>7 DEF IInv, LoopInv
<1>10. LockInv' /\ MailInv'
    BY <1>1 DEF IInv, LockInv, MailInv
<1>11. CountInv'
    BY <1>5, <1>6 DEF IInv, CountInv
<1>12. ApInv'
    BY <1>1, <1>5, <1>6 DEF IInv, ApInv, ApOK
<1> QED
    BY <1>8, <1>9, <1>10, <1>11, <1>12 DEF IInv

LEMMA StepLock ==
    ASSUME IInv, StartCpuLock
    PROVE  IInv'
<1> USE DEF StartCpuLock, mail_vars, dev_vars, ap_vars
<1>1. ~Starting /\ ~Starting' /\ child' = child /\ UNCHANGED ap
    BY DEF Starting
<1>2. cpu' = cpu /\ Tried' = Tried
    BY <1>1, Frame
<1>3. /\ Announced' = Announced
      /\ \A a \in APs : CalledIn(a)' <=> CalledIn(a)
    BY <1>1, FrameAps
<1>4. TypeOK'
    BY Consts DEF IInv, TypeOK
<1>5. LoopInv' /\ MailInv' /\ CountInv'
    BY <1>1, <1>2, <1>3 DEF IInv, LoopInv, MailInv, CountInv
<1>6. LockInv'
    BY <1>1, Consts DEF IInv, LockInv
<1>7. ApInv'
    BY <1>1, <1>2, <1>3 DEF IInv, ApInv, ApOK
<1> QED
    BY <1>4, <1>5, <1>6, <1>7 DEF IInv

\* start_cpu makes the next stack for an AP it has not tried.
LEMMA StepAdvertise ==
    ASSUME IInv, Advertise
    PROVE  IInv'
<1> USE DEF Advertise, ap_vars
<1>1. ~Starting /\ Starting' /\ child' = child /\ cpu' = cpu /\ UNCHANGED ap
    BY DEF Starting, cpu
<1>2. child \in Positions /\ cpu \in APs \ Tried
    BY <1>1, Untried DEF IInv, LoopInv
<1>3. Tried' = Tried \cup {cpu}
  <2>1. ASSUME NEW k \in Positions PROVE Behind(k)' <=> Behind(k) \/ k = child
      BY <1>1 DEF Behind
  <2> QED
      BY <1>2, <2>1, Consts DEF Tried, cpu
<1>4. /\ Announced' = Announced
      /\ \A a \in APs : CalledIn(a)' <=> CalledIn(a)
    BY <1>1, FrameAps
<1>5. /\ last_cpu_index' = Cardinality(Tried')
      /\ last_cpu_index' \in 1 .. MAX_CPUS - 1
      /\ last_cpu_index' = last_cpu_index + 1 /\ last_cpu_index \in Nat
  <2>1. /\ Cardinality(Tried) \in 0 .. MAX_CPUS - 1
        /\ Cardinality(Tried) + 1 <= MAX_CPUS - 1
        /\ Cardinality(Tried \cup {cpu}) = Cardinality(Tried) + 1
      BY <1>2, CountFact, SetsFact
  <2>2. last_cpu_index = Cardinality(Tried)
      BY DEF IInv, CountInv
  <2>3. last_cpu_index' = last_cpu_index + 1
      OBVIOUS
  <2> QED
      BY <1>3, <2>1, <2>2, <2>3, ApsFinite
<1>6. cpu_info' = [cpu_info EXCEPT ![last_cpu_index'] = cpu]
    OBVIOUS
<1>7. cpu \notin delivered /\ ap[cpu] = "off" /\ ~CalledIn(cpu)
    BY <1>2 DEF IInv, ApInv, ApOK, CalledIn
<1>8. TypeOK'
    BY <1>2, <1>5, <1>6, Consts DEF IInv, TypeOK
<1>9. LoopInv'
    BY <1>1, <1>2, <1>3, Consts DEF IInv, LoopInv
<1>10. LockInv'
    BY DEF IInv, LockInv
<1>11. CountInv'
    BY <1>4, <1>5, <1>6, ApsFinite DEF IInv, CountInv, TypeOK
<1>12. MailInv'
    BY <1>1, <1>2, <1>4, <1>5, <1>6, <1>7 DEF IInv, MailInv, TypeOK
<1>13. ApInv'
  <2> SUFFICES ASSUME NEW a \in APs PROVE ApOK(a)'
      BY DEF ApInv
  <2>1. ApOK(a) BY DEF IInv, ApInv
  <2>2. CalledIn(a) => cpu_info'[esp[a]] = a /\ esp[a] \in 1 .. last_cpu_index'
      BY <1>5, <1>6, <2>1 DEF ApOK, IInv, TypeOK
  <2> QED
      BY <1>1, <1>2, <1>3, <1>4, <1>7, <2>1, <2>2 DEF ApOK
<1> QED
    BY <1>8, <1>9, <1>10, <1>11, <1>12, <1>13 DEF IInv

\* Between Advertise and Release only the BSP's own state and the delivery of
\* the IPI change.
LEMMA StepStarting ==
    ASSUME IInv, InitIpi \/ StartupIpi \/ CpuCalledIn \/ PollTimeout
    PROVE  IInv'
<1> USE DEF InitIpi, StartupIpi, CpuCalledIn, PollTimeout, mail_vars, dev_vars,
            ap_vars
<1>1. Starting /\ Starting' /\ child' = child /\ UNCHANGED ap
    BY DEF Starting
<1>2. cpu' = cpu /\ Tried' = Tried
    BY <1>1, Frame
<1>3. /\ Announced' = Announced
      /\ \A a \in APs : CalledIn(a)' <=> CalledIn(a)
    BY <1>1, FrameAps
<1>4. child \in Positions /\ cpu \in APs /\ cpu \in Tried
    BY <1>1, Consts DEF IInv, LoopInv, Tried, Behind, cpu
<1>5. delivered' \subseteq delivered \cup {cpu} /\ delivered \subseteq delivered'
    OBVIOUS
<1>6. cpu \notin delivered => ~CalledIn(cpu) /\ ap[cpu] = "off"
    BY <1>4 DEF IInv, ApInv, ApOK, CalledIn
<1>7. TypeOK'
    BY <1>4, <1>5, SMTT(30) DEF IInv, TypeOK, LoopInv, CONFIG_NUM_IPI_STARTS
<1>8. LoopInv'
    BY <1>1, <1>2, <1>4 DEF IInv, LoopInv, TypeOK, CONFIG_NUM_IPI_STARTS
<1>9. LockInv'
    BY <1>1 DEF IInv, LockInv
<1>10. CountInv'
    BY <1>2, <1>3 DEF IInv, CountInv
<1>11. MailInv'
  <2>1. pc' = "init_ipi" => cpu \notin delivered'
      OBVIOUS
  <2>2. ASSUME pc' = "release"
        PROVE  /\ cpu \in delivered' => CalledIn(cpu)
               /\ CalledIn(cpu) => result' = 1
    <3>1. CASE InitIpi \/ StartupIpi \/ PollTimeout
      <4>1. cpu \notin delivered'
          BY <2>2, <3>1, <1>1 DEF IInv, MailInv
      <4> QED
          BY <1>5, <1>6, <4>1
    <3>2. CASE CpuCalledIn
        BY <1>1, <3>2 DEF IInv, MailInv
    <3> QED
        BY <3>1, <3>2
  <2> QED
      BY <1>1, <1>2, <1>3, <1>4, <2>1, <2>2 DEF IInv, MailInv
<1>12. ApInv'
    BY <1>1, <1>2, <1>3, <1>4, <1>5 DEF IInv, ApInv, ApOK
<1> QED
    BY <1>7, <1>8, <1>9, <1>10, <1>11, <1>12 DEF IInv

\* start_cpu returns: the AP has called in, or was never reached.
LEMMA StepRelease ==
    ASSUME IInv, Release
    PROVE  IInv'
<1> USE DEF Release, dev_vars, ap_vars
<1>1. Starting /\ ~Starting' /\ child' = child + 1 /\ UNCHANGED ap
    BY DEF Starting
<1>2. child \in Positions /\ cpu \in APs
    BY <1>1 DEF IInv, LoopInv
<1>3. Tried' = Tried
  <2>1. ASSUME NEW k \in Positions PROVE Behind(k)' <=> Behind(k)
      BY <1>1, <1>2, Consts DEF Behind, Positions
  <2> QED
      BY <2>1 DEF Tried
<1>4. /\ Announced' = Announced
      /\ \A a \in APs : CalledIn(a)' <=> CalledIn(a)
    BY <1>1, FrameAps
<1>5. /\ cpu \in delivered => CalledIn(cpu)
      /\ CalledIn(cpu) => cpu \in started'
      /\ started \subseteq started'
    BY <1>1 DEF IInv, MailInv
<1>6. TypeOK'
    BY <1>2, Consts, ApsFinite, SMTT(30) DEF IInv, TypeOK, Positions
<1>7. LoopInv'
    BY <1>1, <1>3 DEF IInv, LoopInv
<1>8. LockInv'
    BY <1>1, Consts DEF IInv, LockInv
<1>9. CountInv' /\ MailInv'
    BY <1>1, <1>3, <1>4 DEF IInv, CountInv, MailInv
<1>10. ApInv'
    BY <1>1, <1>2, <1>3, <1>4, <1>5 DEF IInv, ApInv, ApOK
<1> QED
    BY <1>6, <1>7, <1>8, <1>9, <1>10 DEF IInv

-----------------------------------------------------------------------------
(* Steps of the APs.                                                       *)

LEMMA FrameBsp ==
    ASSUME UNCHANGED bsp_vars
    PROVE  /\ cpu' = cpu /\ Tried' = Tried
           /\ Starting' <=> Starting
           /\ UNCHANGED <<pc, child, j, result, started>>
BY DEF bsp_vars, cpu, Tried, Behind, Starting

\* An AP in the trampoline is the one that is being started.
LEMMA Trampoline ==
    ASSUME IInv, NEW a \in APs, a \in delivered, ~CalledIn(a)
    PROVE  Starting /\ a = cpu
BY DEF IInv, ApInv, ApOK

LEMMA StepTrampoline ==
    ASSUME IInv, NEW a \in APs, LoadStack(a) \/ LoadIndex(a) \/ ClearStack(a)
    PROVE  IInv'
<1> USE DEF LoadStack, LoadIndex, ClearStack, mail_vars, dev_vars
<1>1. /\ cpu' = cpu /\ Tried' = Tried
      /\ Starting' <=> Starting
      /\ UNCHANGED <<pc, child, j, result, started>>
    BY FrameBsp
<1>2. a \in delivered /\ ~CalledIn(a)
    BY DEF IInv, ApInv, ApOK, CalledIn
<1>3. Starting /\ a = cpu
    BY <1>2, Trampoline
<1>4. /\ ap \in [APs -> {"off", "index", "clear", "enter", "lock", "init",
                          "leave", "halted", "dead", "wild"}]
      /\ esp \in [APs -> 0 .. MAX_CPUS - 1]
      /\ edi \in [APs -> 0 .. MAX_CPUS - 1]
    BY DEF IInv, TypeOK
<1>5. /\ secondary_stack = last_cpu_index /\ secondary_cpu_index = last_cpu_index
      /\ last_cpu_index \in 1 .. MAX_CPUS - 1
      /\ cpu_info[last_cpu_index] = a
      /\ ap[a] \in {"index", "clear"} => esp[a] = last_cpu_index
      /\ ap[a] = "clear" => edi[a] = last_cpu_index
      /\ pc \notin {"init_ipi", "release"}
    BY <1>2, <1>3, ApsFinite DEF IInv, MailInv, TypeOK
<1>6. ap'[a] \in {"index", "clear", "enter"} /\ \A b \in APs \ {a} : ap'[b] = ap[b]
    BY <1>4, <1>5
<1>7. Announced' = Announced
    BY <1>4, <1>6 DEF Announced
<1>8. \A b \in APs \ {a} : CalledIn(b)' <=> CalledIn(b)
    BY <1>6 DEF CalledIn
<1>9. CalledIn(a)' <=> ap[a] = "clear"
    BY <1>4, <1>5 DEF CalledIn
<1>10. TypeOK'
  <2>1. /\ ap' \in [APs -> {"off", "index", "clear", "enter", "lock", "init",
                           "leave", "halted", "dead", "wild"}]
        /\ esp' \in [APs -> 0 .. MAX_CPUS - 1]
        /\ edi' \in [APs -> 0 .. MAX_CPUS - 1]
        /\ secondary_stack' \in 0 .. MAX_CPUS - 1
      BY <1>4, <1>5, ApsFinite
  <2> QED
      BY <1>1, <2>1 DEF IInv, TypeOK
<1>11. LoopInv'
    BY <1>1 DEF IInv, LoopInv
<1>12. LockInv'
    BY <1>1, <1>6 DEF IInv, LockInv
<1>13. CountInv'
    BY <1>1, <1>7 DEF IInv, CountInv
<1>14. MailInv'
    BY <1>1, <1>3, <1>4, <1>5, <1>9 DEF IInv, MailInv
<1>15. ApOK(a)'
    BY <1>1, <1>2, <1>3, <1>4, <1>5, <1>6, <1>9 DEF IInv, ApInv, ApOK
<1>16. \A b \in APs \ {a} : ApOK(b)'
    BY <1>1, <1>4, <1>6, <1>8 DEF IInv, ApInv, ApOK
<1> QED
    BY <1>10, <1>11, <1>12, <1>13, <1>14, <1>15, <1>16 DEF IInv, ApInv

\* The APs that count themselves in and out.
LEMMA StepCount ==
    ASSUME IInv, NEW a \in APs, Enter(a) \/ Leave(a)
    PROVE  IInv'
<1> USE DEF Enter, Leave, mail_vars, dev_vars
<1>1. /\ cpu' = cpu /\ Tried' = Tried
      /\ Starting' <=> Starting
      /\ UNCHANGED <<pc, child, j, result, started>>
    BY FrameBsp
<1>2. ap \in [APs -> {"off", "index", "clear", "enter", "lock", "init",
                      "leave", "halted", "dead", "wild"}]
    BY DEF IInv, TypeOK
<1>3. \A b \in APs : CalledIn(b)' <=> CalledIn(b)
    BY <1>2 DEF CalledIn
<1>4. /\ Enter(a) => a \notin Announced /\ Announced' = Announced \cup {a}
      /\ Leave(a) => a \in Announced /\ Announced' = Announced \ {a}
    BY <1>2 DEF Announced
<1>5. /\ Cardinality(Announced) \in 0 .. MAX_CPUS - 1
      /\ Enter(a) => /\ Cardinality(Announced) + 1 <= MAX_CPUS - 1
                     /\ Cardinality(Announced \cup {a}) = Cardinality(Announced) + 1
      /\ Leave(a) => /\ Cardinality(Announced) > 0
                     /\ Cardinality(Announced \ {a}) = Cardinality(Announced) - 1
    BY <1>4, CountFact, SetsFact
<1>6. active_cpus = 1 + Cardinality(Announced)
    BY DEF IInv, CountInv
<1>7. active_cpus' = 1 + Cardinality(Announced') /\ active_cpus' \in 1 .. MAX_CPUS
  <2>1. CASE Enter(a)
    <3>1. active_cpus' = active_cpus + 1
        BY <2>1
    <3>2. Cardinality(Announced') = Cardinality(Announced) + 1
        BY <1>4, <1>5, <2>1
    <3>3. Cardinality(Announced) + 1 <= MAX_CPUS - 1
        BY <1>5, <2>1
    <3> QED
        BY <1>5, <1>6, <3>1, <3>2, <3>3, ApsFinite
  <2>2. CASE Leave(a)
    <3>1. active_cpus' = active_cpus - 1
        BY <2>2
    <3>2. Cardinality(Announced') = Cardinality(Announced) - 1
        BY <1>4, <1>5, <2>2
    <3>3. Cardinality(Announced) > 0
        BY <1>5, <2>2
    <3> QED
        BY <1>5, <1>6, <3>1, <3>2, <3>3, ApsFinite
  <2> QED
      BY <2>1, <2>2
<1>8. ap' \in [APs -> {"off", "index", "clear", "enter", "lock", "init",
                       "leave", "halted", "dead", "wild"}]
    BY <1>2
<1>9. \A b \in APs : /\ ap'[b] # "wild" <=> ap[b] # "wild"
                     /\ ap'[b] = "off" <=> ap[b] = "off"
                     /\ ap'[b] = "index" <=> ap[b] = "index"
                     /\ ap'[b] = "clear" <=> ap[b] = "clear"
                     /\ ap'[b] \in {"init", "dead"} <=> ap[b] \in {"init", "dead"}
    BY <1>2
<1>10. TypeOK'
    BY <1>1, <1>7, <1>8 DEF IInv, TypeOK
<1>11. LoopInv' /\ LockInv'
    BY <1>1, <1>9 DEF IInv, LoopInv, LockInv
<1>12. CountInv'
    BY <1>1, <1>7 DEF IInv, CountInv
<1>13. MailInv'
    BY <1>1, <1>3, <1>9 DEF IInv, MailInv, LoopInv
<1>14. ApInv'
    BY <1>1, <1>3, <1>9 DEF IInv, ApInv, ApOK
<1> QED
    BY <1>10, <1>11, <1>12, <1>13, <1>14 DEF IInv

\* The AP's turn at cpu_initialize, for the device of its own stack.
LEMMA StepInitialize ==
    ASSUME IInv, NEW a \in APs, Lock(a) \/ InitializeAp(a)
    PROVE  IInv'
<1> USE DEF Lock, InitializeAp, mail_vars, dev_vars
<1>1. /\ cpu' = cpu /\ Tried' = Tried
      /\ Starting' <=> Starting
      /\ UNCHANGED <<pc, child, j, result, started>>
    BY FrameBsp
<1>2. ap \in [APs -> {"off", "index", "clear", "enter", "lock", "init",
                      "leave", "halted", "dead", "wild"}]
    BY DEF IInv, TypeOK
<1>3. \A b \in APs : CalledIn(b)' <=> CalledIn(b)
    BY <1>2 DEF CalledIn
<1>4. Announced' = Announced
    BY <1>2 DEF Announced
<1>5. CalledIn(a) /\ a \in Tried /\ cpu_info[esp[a]] = a
    BY DEF CalledIn, IInv, ApInv, ApOK
<1>6. \/ UNCHANGED dev_vars
      \/ enabled' = enabled \cup {a} /\ initialized' = initialized \cup {a}
    BY <1>5 DEF MarkInitialized
<1>7. ap' \in [APs -> {"off", "index", "clear", "enter", "lock", "init",
                       "leave", "halted", "dead", "wild"}]
    BY <1>2
<1>8. \A b \in APs : /\ ap'[b] # "wild" <=> ap[b] # "wild"
                     /\ ap'[b] = "off" <=> ap[b] = "off"
                     /\ ap'[b] = "index" <=> ap[b] = "index"
                     /\ ap'[b] = "clear" <=> ap[b] = "clear"
    BY <1>2
<1>9. TypeOK'
    BY <1>1, <1>6, <1>7, Consts DEF IInv, TypeOK
<1>10. LoopInv'
    BY <1>1, <1>5, <1>6, Consts DEF IInv, LoopInv
<1>11. LockInv'
  <2>1. CASE Lock(a)
    <3>1. start_cpu_lock' = a /\ start_cpu_lock = Free
        BY <2>1
    <3>2. \A b \in APs : ap[b] \notin {"init", "dead"}
        BY <3>1, Consts DEF IInv, LockInv
    <3>3. ~(pc = "advertise" \/ Starting)
        BY <3>1, Consts DEF IInv, LockInv
    <3> QED
        BY <1>1, <1>2, <2>1, <3>1, <3>2, <3>3 DEF LockInv
  <2>2. CASE InitializeAp(a)
    <3>1. start_cpu_lock = a
        BY <2>2 DEF IInv, LockInv
    <3>2. \A b \in APs \ {a} : ap[b] \notin {"init", "dead"} /\ ap'[b] = ap[b]
        BY <1>2, <2>2, <3>1 DEF IInv, LockInv
    <3>3. ~(pc = "advertise" \/ Starting)
        BY <3>1, Consts DEF IInv, LockInv
    <3>4. ap'[a] \in {"init", "dead"} => start_cpu_lock' = a
        BY <1>2, <2>2, <3>1
    <3> QED
        BY <1>1, <3>2, <3>3, <3>4 DEF LockInv
  <2> QED
      BY <2>1, <2>2
<1>12. CountInv'
    BY <1>1, <1>4 DEF IInv, CountInv
<1>13. MailInv'
    BY <1>1, <1>3, <1>8 DEF IInv, MailInv, LoopInv
<1>14. ApInv'
    BY <1>1, <1>3, <1>5, <1>6, <1>8 DEF IInv, ApInv, ApOK
<1> QED
    BY <1>9, <1>10, <1>11, <1>12, <1>13, <1>14 DEF IInv

-----------------------------------------------------------------------------
LEMMA InvStep == IInv /\ [Next]_vars => IInv'
<1> SUFFICES ASSUME IInv, [Next]_vars PROVE IInv'
    OBVIOUS
<1>1. CASE BspStep
    BY <1>1, StepOutside, StepLoop, StepLock, StepAdvertise, StepStarting,
       StepRelease DEF BspStep
<1>2. ASSUME NEW a \in APs, ApStep(a) PROVE IInv'
    BY <1>2, StepTrampoline, StepCount, StepInitialize DEF ApStep
<1>3. CASE UNCHANGED vars
  <2>1. UNCHANGED <<bsp_vars, start_cpu_lock, mail_vars, dev_vars, active_cpus,
                    ap_vars>>
      BY <1>3 DEF vars
  <2>2. /\ cpu' = cpu /\ Tried' = Tried
        /\ Starting' <=> Starting
        /\ UNCHANGED <<pc, child, j, result, started>>
      BY <2>1, FrameBsp
  <2>3. /\ Announced' = Announced
        /\ \A a \in APs : CalledIn(a)' <=> CalledIn(a)
      BY <2>1, FrameAps DEF ap_vars
  <2> USE DEF mail_vars, dev_vars, ap_vars
  <2>4. TypeOK'
      BY <2>1, <2>2 DEF IInv, TypeOK
  <2>5. LoopInv' /\ LockInv' /\ CountInv'
      BY <2>1, <2>2, <2>3 DEF IInv, LoopInv, LockInv, CountInv
  <2>6. MailInv' /\ ApInv'
      BY <2>1, <2>2, <2>3 DEF IInv, MailInv, LoopInv, ApInv, ApOK
  <2> QED
      BY <2>4, <2>5, <2>6 DEF IInv
<1> QED
    BY <1>1, <1>2, <1>3 DEF Next

LEMMA Invariance == Reliable /\ Spec => []IInv
BY InvInit, InvStep, PTL DEF Spec

-----------------------------------------------------------------------------
\* Every AP that runs, runs on the stack start_cpu made for it, with the index
\* of that stack and as its own device, whatever the order in which BSP and
\* APs touch the two words of the mailbox.
THEOREM StacksAreOwn == Reliable /\ Spec => []OwnStack
<1>1. IInv => OwnStack
    BY DEF IInv, ApInv, ApOK, OwnStack
<1> QED
    BY <1>1, Invariance, PTL

\* The stacks and counters stay in their bounds, a CPU start_cpu has given up
\* on is not reported as enabled, and cpu_initialize runs on one processor at
\* a time.
THEOREM StartedInOrder == Reliable /\ Spec => []ApsInOrder
<1>1. IInv => SerialInit
  <2>1. ASSUME IInv, NEW a \in APs, NEW b \in APs, ap[a] = "init", ap[b] = "init"
        PROVE  a = b
      BY <2>1 DEF IInv, LockInv
  <2>2. ASSUME IInv, NEW a \in APs, ap[a] = "init"
        PROVE  pc \notin {"bsp_init", "advertise", "init_ipi", "startup_ipi",
                          "poll", "release"}
    <3>1. start_cpu_lock = a /\ start_cpu_lock # Bsp
        BY <2>2, Consts DEF IInv, LockInv
    <3>2. pc # "advertise" /\ ~Starting
        BY <2>2, <3>1 DEF IInv, LockInv
    <3>3. pc # "bsp_init"
      <4>1. a \in Tried
          BY <2>2 DEF IInv, ApInv, ApOK
      <4>2. PICK k \in Positions : Behind(k)
          BY <4>1 DEF Tried
      <4>3. child # 1
          BY <3>2, <4>2, Consts DEF Behind, Positions
      <4> QED
          BY <2>2, <4>3 DEF IInv, LoopInv
    <3> QED
        BY <3>2, <3>3 DEF Starting
  <2> QED
      BY <2>1, <2>2 DEF SerialInit
<1>2. IInv => FailedNotEnabled
  <2> SUFFICES ASSUME IInv, NEW k \in 1 .. Len(Children),
                      Children[k] \in APs \ started, k < child
               PROVE  Children[k] \notin enabled \cup initialized
      BY DEF FailedNotEnabled
  <2>1. Children[k] \in Tried
      BY DEF Tried, Behind, Positions
  <2>2. ~(Starting /\ Children[k] = cpu)
    <3>1. Starting => child \in Positions
        BY DEF IInv, LoopInv
    <3> QED
        BY <3>1, Consts DEF cpu, Positions
  <2> QED
      BY <2>1, <2>2 DEF IInv, ApInv, ApOK
<1>3. IInv => ApsInOrder
    BY <1>1, <1>2 DEF ApsInOrder, IInv
<1> QED
    BY <1>3, Invariance, PTL

\* wait_other_cpus_stop reads 1 only when no AP that has counted itself is
\* still at work: the counter counts exactly those.
THEOREM WaitSeesAnnounced == Reliable /\ Spec => StopSeesAnnounced
<1>1. ASSUME IInv, [Next]_vars, pc = "stop", pc' = "done"
      PROVE  \A a \in APs : ap[a] \notin {"lock", "init", "leave"}
  <2>1. active_cpus = 1
    <3>1. CASE BspStep
        BY <1>1, <3>1 DEF BspStep, copy_secondary_start_to_lowest_1M,
           InitializeBsp, start_other_cpus, StartCpuLock, Advertise, InitIpi,
           StartupIpi, CpuCalledIn, PollTimeout, Release, wait_other_cpus_stop
    <3>2. ASSUME NEW a \in APs, ApStep(a) PROVE FALSE
      <4>1. UNCHANGED bsp_vars
          BY <3>2 DEF ApStep, LoadStack, LoadIndex, ClearStack, Enter, Lock,
             InitializeAp, Leave
      <4> QED
          BY <1>1, <4>1 DEF bsp_vars
    <3>3. CASE UNCHANGED vars
        BY <1>1, <3>3 DEF vars, bsp_vars
    <3> QED
        BY <1>1, <3>1, <3>2, <3>3 DEF Next
  <2>2. Cardinality(Announced) = 0
    <3>1. active_cpus = 1 + Cardinality(Announced)
        BY <1>1 DEF IInv, CountInv
    <3>2. Cardinality(Announced) \in 0 .. MAX_CPUS - 1
        BY CountFact, SetsFact
    <3> QED
        BY <2>1, <3>1, <3>2, ApsFinite
  <2>3. Announced = {}
      BY <2>2, CountFact, SetsFact
  <2> QED
      BY <2>3 DEF Announced
<1>2. IInv /\ [Next]_vars =>
         [pc = "stop" /\ pc' = "done" =>
             \A a \in APs : ap[a] \notin {"lock", "init", "leave"}]_vars
    BY <1>1
<1> QED
    BY <1>2, Invariance, PTL DEF Spec, StopSeesAnnounced

-----------------------------------------------------------------------------
(***************************************************************************)
(* The spin lock, for every set of at most HALF + 1 CPUs (WidthAssumption): *)
(* the decrements never wrap the byte, one CPU at a time holds the lock,   *)
(* and the spin lock implements the abstract lock.  Its variables and its  *)
(* CPUs are SpinLock's own; the two specifications share nothing.          *)
(***************************************************************************)

\* The CPUs whose last decrement may still be in the byte.
Busy == {c \in Cpus : lpc[c] \in {"wait", "held"}}

\* The inductive invariant: the byte is 1 exactly when nobody holds the lock.
ByteInv ==
    /\ LockTypeOK
    /\ MutualExclusion
    /\ NoWrap
    /\ lock <= SPIN_LOCK_UNLOCKED
    /\ lock = SPIN_LOCK_UNLOCKED <=> \A c \in Cpus : lpc[c] # "held"

\* Sets of CPUs are finite.
LEMMA SubsetCount ==
    ASSUME NEW S \in SUBSET Cpus PROVE Cardinality(S) \in Nat
BY WidthAssumption, FS_Subset, FS_CardinalityType

\* The count of busy CPUs is a number, and room for one decrement is left
\* whenever a CPU is about to make one.
LEMMA BusyFact ==
    ASSUME LockTypeOK
    PROVE  /\ IsFiniteSet(Busy)
           /\ Cardinality(Busy) \in Nat
           /\ Cardinality(Cpus) \in Nat
           /\ Cardinality(Busy) <= Cardinality(Cpus)
           /\ \A c \in Cpus \ Busy : Cardinality(Busy) < Cardinality(Cpus)
<1>1. Busy \subseteq Cpus
    BY DEF Busy
<1>2. IsFiniteSet(Busy) /\ Cardinality(Busy) <= Cardinality(Cpus)
    BY WidthAssumption, <1>1, FS_Subset
<1>3. Cardinality(Busy) \in Nat /\ Cardinality(Cpus) \in Nat
    BY WidthAssumption, <1>2, FS_CardinalityType
<1>4. ASSUME NEW c \in Cpus \ Busy PROVE Cardinality(Busy) < Cardinality(Cpus)
  <2>1. Busy \cup {c} \subseteq Cpus
      BY <1>1
  <2>2. Cardinality(Busy \cup {c}) = Cardinality(Busy) + 1
      BY <1>2, <1>4, FS_AddElement
  <2>3. Cardinality(Busy \cup {c}) <= Cardinality(Cpus)
      BY WidthAssumption, <2>1, FS_Subset
  <2> QED
      BY <1>3, <2>2, <2>3
<1> QED
    BY <1>2, <1>3, <1>4

\* An unlocked byte with nobody inside.
LEMMA ByteInit == LockInit => ByteInv
<1> SUFFICES ASSUME LockInit PROVE ByteInv
    OBVIOUS
<1>1. LockTypeOK
    BY WidthAssumption DEF LockInit, LockTypeOK, SPIN_LOCK_UNLOCKED
<1>2. NoWrap
    BY <1>1, BusyFact DEF LockInit, NoWrap, Busy, SPIN_LOCK_UNLOCKED
<1> QED
    BY <1>1, <1>2 DEF LockInit, ByteInv, MutualExclusion, SPIN_LOCK_UNLOCKED

\* One step per instruction; Decb needs the room BusyFact leaves.
LEMMA ByteStep == ByteInv /\ [LockNext]_lock_vars => ByteInv'
<1> SUFFICES ASSUME ByteInv, [LockNext]_lock_vars PROVE ByteInv'
    OBVIOUS
<1>0. /\ LockTypeOK /\ MutualExclusion /\ lock <= 1
      /\ lock = 1 <=> \A c \in Cpus : lpc[c] # "held"
      /\ lock \in Int /\ HALF \in Int /\ HALF > 1
      /\ lock >= 1 - Cardinality(Busy)
    BY WidthAssumption DEF ByteInv, LockTypeOK, SPIN_LOCK_UNLOCKED, NoWrap, Busy
<1>1. ASSUME NEW c \in Cpus, Call(c) PROVE ByteInv'
  <2>1. Busy' = Busy /\ LockTypeOK'
      BY <1>0, <1>1 DEF Call, LockTypeOK, Busy
  <2> QED
      BY <1>0, <1>1, <2>1
         DEF Call, LockTypeOK, ByteInv, MutualExclusion, NoWrap, Busy,
             SPIN_LOCK_UNLOCKED
<1>2. ASSUME NEW c \in Cpus, Decb(c) PROVE ByteInv'
  <2>1. c \in Cpus \ Busy
      BY <1>2 DEF Decb, Busy
  <2>2. Cardinality(Busy) <= HALF /\ Cardinality(Busy) \in Nat
      BY WidthAssumption, <1>0, <2>1, BusyFact
  <2>3. lock' = lock - 1 /\ lock' \in -HALF .. HALF - 1
      BY <1>0, <1>2, <2>2 DEF Decb, decb
  <2>4. LockTypeOK'
      BY <1>0, <1>2, <2>3 DEF Decb, LockTypeOK
  <2>5. Busy' = Busy \cup {c}
      BY <1>0, <1>2 DEF Decb, LockTypeOK, Busy
  <2>6. Cardinality(Busy') = Cardinality(Busy) + 1
      BY <1>0, <2>1, <2>5, BusyFact, FS_AddElement
  <2>7. NoWrap'
      BY <1>0, <2>2, <2>3, <2>6 DEF NoWrap, Busy
  <2>8. CASE lock = 1
      BY <1>0, <1>2, <2>3, <2>4, <2>7, <2>8
         DEF Decb, LockTypeOK, ByteInv, MutualExclusion, SPIN_LOCK_UNLOCKED
  <2>9. CASE lock # 1
      BY <1>0, <1>2, <2>3, <2>4, <2>7, <2>9
         DEF Decb, LockTypeOK, ByteInv, MutualExclusion, SPIN_LOCK_UNLOCKED
  <2> QED
      BY <2>8, <2>9
<1>3. ASSUME NEW c \in Cpus, Cmpb(c) PROVE ByteInv'
  <2>1. lock = 1
      BY <1>0, <1>3 DEF Cmpb
  <2>2. LockTypeOK'
      BY <1>0, <1>3 DEF Cmpb, LockTypeOK
  <2>3. NoWrap'
    <3>1. Cardinality(Busy') \in Nat
        BY SubsetCount DEF Busy
    <3> QED
        BY <1>3, <2>1, <3>1 DEF Cmpb, NoWrap, Busy
  <2> QED
      BY <1>0, <1>3, <2>1, <2>2, <2>3
         DEF Cmpb, LockTypeOK, ByteInv, MutualExclusion, SPIN_LOCK_UNLOCKED
<1>4. ASSUME NEW c \in Cpus, spin_unlock(c) PROVE ByteInv'
  <2>1. lock' = 1 /\ LockTypeOK'
      BY <1>0, <1>4 DEF spin_unlock, LockTypeOK, SPIN_LOCK_UNLOCKED
  <2>2. NoWrap'
    <3>1. Cardinality(Busy') \in Nat
        BY SubsetCount DEF Busy
    <3> QED
        BY <2>1, <3>1 DEF NoWrap, Busy
  <2>3. \A d \in Cpus : lpc'[d] # "held"
      BY <1>0, <1>4 DEF spin_unlock, LockTypeOK, MutualExclusion
  <2> QED
      BY <2>1, <2>2, <2>3 DEF ByteInv, MutualExclusion, SPIN_LOCK_UNLOCKED
<1>5. CASE UNCHANGED lock_vars
    BY <1>0, <1>5 DEF lock_vars, ByteInv, LockTypeOK, MutualExclusion, NoWrap, Busy
<1> QED
    BY <1>1, <1>2, <1>3, <1>4, <1>5 DEF LockNext, Step

\* ByteInv holds in every reachable state of the lock.
LEMMA ByteInvariance == LockSpec => []ByteInv
BY ByteInit, ByteStep, PTL DEF LockSpec

\* At most one CPU is between spin_lock and spin_unlock.
THEOREM Mutex == LockSpec => []MutualExclusion
<1>1. ByteInv => MutualExclusion
    BY DEF ByteInv
<1> QED
    BY <1>1, ByteInvariance, PTL

\* Up to HALF + 1 CPUs can contend without the byte wrapping.
THEOREM ByteNeverWraps == LockSpec => []NoWrap
<1>1. ByteInv => NoWrap
    BY DEF ByteInv
<1> QED
    BY <1>1, ByteInvariance, PTL

-----------------------------------------------------------------------------
\* Every step of the spin lock is a step of the abstract one or none of it:
\* the decrement that ends at zero admits its CPU, a decrement that fails and
\* the re-reading of the byte are invisible.
THEOREM Implementation == LockSpec => ImplementsLock
<1>1. LockInit => Promise!Nobody
    BY DEF LockInit, Promise!Nobody, Asking, Inside
<1>2. ASSUME ByteInv, ByteInv', [LockNext]_lock_vars
      PROVE  \/ Promise!Leave
             \/ \E c \in Cpus : Promise!Ask(c) \/ Promise!Admit(c)
             \/ UNCHANGED <<Asking, Inside>>
  <2>0. LockTypeOK /\ MutualExclusion
      BY <1>2 DEF ByteInv
  <2>1. ASSUME NEW c \in Cpus, Call(c) PROVE Promise!Ask(c)
      BY <2>0, <2>1 DEF Call, LockTypeOK, Promise!Ask, Asking, Inside
  <2>2. ASSUME NEW c \in Cpus, Cmpb(c) PROVE UNCHANGED <<Asking, Inside>>
      BY <2>0, <2>2 DEF Cmpb, LockTypeOK, Asking, Inside
  <2>3. ASSUME NEW c \in Cpus, Decb(c), lock' < 0
        PROVE  UNCHANGED <<Asking, Inside>>
      BY <2>0, <2>3 DEF Decb, LockTypeOK, Asking, Inside
  <2>4. ASSUME NEW c \in Cpus, Decb(c), ~(lock' < 0) PROVE Promise!Admit(c)
    <3>1. lpc[c] = "decb" /\ lpc' = [lpc EXCEPT ![c] = "held"] /\ lpc'[c] = "held"
        BY <2>0, <2>4 DEF Decb, LockTypeOK
    <3>2. lock = 1
      <4>1. lock \in Int /\ lock <= 1 /\ lock' <= 1 /\ HALF \in Int /\ HALF > 1
          BY WidthAssumption, <1>2 DEF ByteInv, LockTypeOK, SPIN_LOCK_UNLOCKED
      <4>2. lock' # 1
          BY <1>2, <3>1 DEF ByteInv, SPIN_LOCK_UNLOCKED
      <4> QED
          BY WidthAssumption, <2>4, <4>1, <4>2 DEF Decb, decb
    <3>3. Inside = {}
        BY <1>2, <3>2 DEF ByteInv, Inside, SPIN_LOCK_UNLOCKED
    <3>4. Inside' = {c} /\ Asking' = Asking \ {c}
        BY <2>0, <3>1, <3>3 DEF LockTypeOK, Inside, Asking
    <3> QED
        BY <3>1, <3>3, <3>4 DEF Promise!Admit, Asking
  <2>5. ASSUME NEW c \in Cpus, spin_unlock(c) PROVE Promise!Leave
    <3>1. lpc[c] = "held" /\ lpc' = [lpc EXCEPT ![c] = "idle"]
        BY <2>5 DEF spin_unlock
    <3>2. Inside' = {} /\ Asking' = Asking
        BY <2>0, <3>1 DEF LockTypeOK, MutualExclusion, Inside, Asking
    <3> QED
        BY <3>1, <3>2 DEF Promise!Leave, Inside
  <2>6. CASE UNCHANGED lock_vars
      BY <2>6 DEF lock_vars, Asking, Inside
  <2> QED
      BY <1>2, <2>1, <2>2, <2>3, <2>4, <2>5, <2>6 DEF LockNext, Step
<1> QED
    BY <1>1, <1>2, ByteInvariance, PTL DEF LockSpec, ImplementsLock, Promise!Admission
=============================================================================
