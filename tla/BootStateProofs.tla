-------------------------- MODULE BootStateProofs --------------------------
(***************************************************************************)
(* Proofs about BootState, for every set of callbacks, every table of      *)
(* static entries, every set of states the clients name and every bound on *)
(* their calls.  The state properties of the module are consequences of    *)
(* one inductive invariant, which says what the position of the walker     *)
(* (pc, current_phase, next_id) implies about the states.                  *)
(***************************************************************************)
EXTENDS BootState, TLAPS

InState == pc \in {"phase", "callback", "run"}

\* Which states are complete, and that the current one is not while it runs.
CompleteInv ==
    /\ \A s \in States : complete[s] =>
          \/ s < current_phase.state_id
          \/ /\ s = BS_PAYLOAD_BOOT
             /\ current_phase.state_id = BS_PAYLOAD_BOOT
             /\ pc \in {"walk", "dead"}
    /\ \A s \in States \ {BS_OS_RESUME} :
          s < current_phase.state_id => complete[s]
    /\ InState => ~complete[current_phase.state_id]

\* How many samples each state has taken.
SampleInv ==
    /\ \A s \in States :
          /\ complete[s] => num_samples[s] = MAX_TIME_SAMPLES
          /\ ~complete[s] /\ s # current_phase.state_id => num_samples[s] = 0
    /\ pc \in {"static", "walk"} /\ ~complete[current_phase.state_id]
          => num_samples[current_phase.state_id] = 0
    /\ pc \in {"phase", "callback"} =>
          num_samples[current_phase.state_id] =
              IF current_phase.seq = BS_ON_ENTRY THEN 1 ELSE 3
    /\ pc \in {"run", "os", "payload"} =>
          num_samples[current_phase.state_id] = 2
    /\ num_samples[current_phase.state_id] <= MAX_TIME_SAMPLES

\* The sequence of the current phase, and where the walker goes next.
WalkInv ==
    /\ pc \in {"static", "walk"} => current_phase.seq = BS_ON_ENTRY
    /\ pc = "run" => current_phase.seq = BS_ON_EXIT
    /\ pc \in {"phase", "callback"} /\ current_phase.seq = BS_ON_EXIT =>
          \/ next_id = current_phase.state_id + 1
          \/ /\ current_phase.state_id = BS_OS_RESUME_CHECK
             /\ next_id = BS_WRITE_TABLES
          \/ /\ current_phase.state_id = BS_PAYLOAD_BOOT
             /\ next_id = BS_PAYLOAD_BOOT
    /\ pc = "os" => current_phase.state_id = BS_OS_RESUME
    /\ pc = "payload" => current_phase.state_id = BS_PAYLOAD_BOOT

ArgInv ==
    \A s \in {BS_OS_RESUME, BS_PAYLOAD_BOOT} :
        s \in {current_phase.state_id, next_id} => s \in arg

\* The callbacks on the entry list of state s came too late.
EntryLate(s) ==
    \A i \in 1 .. Len(callbacks[s][BS_ON_ENTRY]) :
        callbacks[s][BS_ON_ENTRY][i] \in late

\* The phases of completed states are closed.
CompletedClosed ==
    \A s \in States : complete[s] =>
        /\ callbacks[s][BS_ON_EXIT] = <<>>
        /\ EntryLate(s)
        /\ \A q \in Seqs : blockers[s][q] = 0

\* So is the entry phase of the current state once it is over.
EntryClosed ==
    current_phase.seq = BS_ON_EXIT =>
        /\ EntryLate(current_phase.state_id)
        /\ blockers[current_phase.state_id][BS_ON_ENTRY] = 0

DrainInv == CompletedClosed /\ EntryClosed

IInv == TypeOK /\ CompleteInv /\ SampleInv /\ WalkInv /\ ArgInv /\ DrainInv

-----------------------------------------------------------------------------
(* What single updates do to the state.                                    *)

LEMMA SeqsFact == BS_ON_ENTRY \in Seqs /\ BS_ON_EXIT \in Seqs
BY DEF Seqs, BS_ON_ENTRY, BS_ON_EXIT

LEMMA StatesFact ==
    /\ States \subseteq Int
    /\ {BS_PRE_DEVICE, BS_OS_RESUME_CHECK, BS_OS_RESUME, BS_WRITE_TABLES,
        BS_PAYLOAD_LOAD, BS_PAYLOAD_BOOT} \subseteq States
    /\ \A s \in States : s < BS_OS_RESUME_CHECK \/ s = BS_WRITE_TABLES =>
          /\ s + 1 \in States \ {BS_OS_RESUME, BS_PAYLOAD_BOOT}
BY DEF States, BS_PRE_DEVICE, BS_OS_RESUME_CHECK, BS_OS_RESUME,
       BS_WRITE_TABLES, BS_PAYLOAD_LOAD, BS_PAYLOAD_BOOT

LEMMA EntryFact ==
    ASSUME TypeOK, cur <= Len(StaticEntries)
    PROVE  /\ StaticEntries[cur].state \in States
           /\ StaticEntries[cur].bscb \in Callbacks
           /\ StaticEntries[cur].when \in Seqs
           /\ cur + 1 \in 1 .. Len(StaticEntries) + 1
<1> DEFINE E == [state : States, when : Seqs, bscb : Callbacks]
<1>1. StaticEntries \in Seq(E) /\ Len(StaticEntries) \in Nat
    BY StaticEntriesAssumption
<1>2. cur \in 1 .. Len(StaticEntries) /\ cur + 1 \in 1 .. Len(StaticEntries) + 1
    BY <1>1 DEF TypeOK
<1>3. StaticEntries[cur] \in E
  <2> HIDE DEF E
  <2> QED
      BY <1>1, <1>2
<1> QED
    BY <1>2, <1>3

LEMMA SampleFact ==
    ASSUME TypeOK, NEW c \in States, bs_sample_time(c)
    PROVE  /\ num_samples' \in [States -> Nat]
           /\ num_samples'[c] = num_samples[c] + 1
           /\ \A s \in States : s # c => num_samples'[s] = num_samples[s]
BY DEF TypeOK, bs_sample_time

LEMMA BlockFact ==
    ASSUME TypeOK, NEW s \in States, NEW q \in Seqs, block(s, q) \/ unblock(s, q)
    PROVE  /\ blockers' \in [States -> [Seqs -> Nat]]
           /\ ~Before(Phase(s, q), current_phase)
           /\ \A t \in States, r \in Seqs :
                 t # s \/ r # q => blockers'[t][r] = blockers[t][r]
<1>1. blockers[s] \in [Seqs -> Nat] /\ blockers[s][q] \in Nat
    BY DEF TypeOK
<1>2. CASE block(s, q)
    BY <1>1, <1>2 DEF TypeOK, block, BlockRefused
<1>3. CASE unblock(s, q)
  <2>1. blockers[s][q] - 1 \in Nat
      BY <1>1, <1>3 DEF unblock
  <2> QED
      BY <1>1, <1>3, <2>1 DEF TypeOK, unblock, BlockRefused
<1> QED
    BY <1>2, <1>3

LEMMA SchedFact ==
    ASSUME TypeOK, NEW s \in States, NEW q \in Seqs, NEW bscb \in Callbacks,
           boot_state_sched_callback(s, bscb, q)
    PROVE  /\ callbacks' \in [States -> [Seqs -> Seq(Callbacks)]]
           /\ \A t \in States : complete[t] => callbacks'[t] = callbacks[t]
           /\ late' \subseteq Callbacks /\ late \subseteq late'
<1>1. <<bscb>> \o callbacks[s][q] \in Seq(Callbacks)
    BY DEF TypeOK
<1>2. CASE complete[s]
    BY <1>2 DEF TypeOK, boot_state_sched_callback
<1>3. CASE ~complete[s]
  <2>1. callbacks' = [callbacks EXCEPT ![s][q] = <<bscb>> \o callbacks[s][q]]
      BY <1>3 DEF boot_state_sched_callback, Link
  <2>4. late' \subseteq Callbacks /\ late \subseteq late'
      BY <1>3 DEF boot_state_sched_callback, Link, TypeOK
  <2>2. callbacks' \in [States -> [Seqs -> Seq(Callbacks)]]
      BY <1>1, <2>1 DEF TypeOK
  <2>3. \A t \in States : t # s => callbacks'[t] = callbacks[t]
      BY <2>1 DEF TypeOK
  <2> QED
      BY <1>3, <2>2, <2>3, <2>4
<1> QED
    BY <1>2, <1>3

\* A callback linked to an entry phase that is over is late.
LEMMA SchedLate ==
    ASSUME TypeOK, NEW s \in States, NEW q \in Seqs, NEW bscb \in Callbacks,
           boot_state_sched_callback(s, bscb, q),
           NEW c \in States, c = current_phase.state_id,
           current_phase.seq = BS_ON_EXIT, EntryLate(c)
    PROVE  EntryLate(c)'
<1>1. CASE complete[s]
    BY <1>1 DEF boot_state_sched_callback, EntryLate
<1>2. CASE ~complete[s]
  <2> DEFINE old == callbacks[c][BS_ON_ENTRY]
  <2>0. /\ callbacks' = [callbacks EXCEPT ![s][q] = <<bscb>> \o callbacks[s][q]]
        /\ late' = IF Before(Phase(s, q), current_phase)
                   THEN late \cup {bscb} ELSE late
      BY <1>2 DEF boot_state_sched_callback, Link
  <2>1. old \in Seq(Callbacks) /\ late \subseteq late'
      BY <2>0, SeqsFact DEF TypeOK
  <2>2. CASE s = c /\ q = BS_ON_ENTRY
    <3>1. bscb \in late'
        BY <2>0, <2>2 DEF Before, Phase, BS_ON_ENTRY, BS_ON_EXIT
    <3>2. callbacks'[c][BS_ON_ENTRY] = <<bscb>> \o old
        BY <2>0, <2>2, SeqsFact DEF TypeOK
    <3>3. \A i \in 1 .. Len(<<bscb>> \o old) : (<<bscb>> \o old)[i] \in late'
      <4> SUFFICES ASSUME NEW i \in 1 .. Len(<<bscb>> \o old)
                   PROVE  (<<bscb>> \o old)[i] \in late'
          OBVIOUS
      <4>1. CASE i = 1
          BY <2>1, <3>1, <4>1
      <4>2. CASE i # 1
        <5>1. i - 1 \in 1 .. Len(old) /\ (<<bscb>> \o old)[i] = old[i - 1]
            BY <2>1, <4>2
        <5> QED
            BY <2>1, <5>1 DEF EntryLate
      <4> QED
          BY <4>1, <4>2
    <3> QED
        BY <3>2, <3>3 DEF EntryLate
  <2>3. CASE s # c \/ q # BS_ON_ENTRY
    <3>1. callbacks'[c][BS_ON_ENTRY] = old
        BY <2>0, <2>3, SeqsFact DEF TypeOK
    <3> QED
        BY <2>1, <3>1 DEF EntryLate
  <2> QED
      BY <2>2, <2>3
<1> QED
    BY <1>1, <1>2

-----------------------------------------------------------------------------
\* Every variable keeps its type, whatever the clients call: in particular
\* the counts of blockers never go below zero (boot_state_unblock).
LEMMA TypeInit == Init => TypeOK
BY StaticEntriesAssumption, SeqsFact, StatesFact
   DEF Init, TypeOK, Phases, Phase

LEMMA TypeStep == TypeOK /\ [Next]_vars => TypeOK'
<1> SUFFICES ASSUME TypeOK, [Next]_vars PROVE TypeOK'
    OBVIOUS
<1>0. current_phase.state_id \in States /\ current_phase.seq \in Seqs
    BY DEF TypeOK, Phases
<1>1. CASE boot_state_schedule_static_entries
  <2>1. /\ StaticEntries[cur].state \in States
        /\ StaticEntries[cur].bscb \in Callbacks
        /\ StaticEntries[cur].when \in Seqs
        /\ cur + 1 \in 1 .. Len(StaticEntries) + 1
      BY <1>1, EntryFact DEF boot_state_schedule_static_entries
  <2>2. callbacks' \in [States -> [Seqs -> Seq(Callbacks)]] /\ late' \subseteq Callbacks
      BY <1>1, <2>1, SchedFact DEF boot_state_schedule_static_entries
  <2> QED
      BY <1>1, <2>1, <2>2 DEF TypeOK, boot_state_schedule_static_entries
<1>2. CASE StartWalk
    BY <1>2 DEF StartWalk, TypeOK
<1>3. CASE EnterState
    BY <1>0, <1>3, SampleFact DEF EnterState, TypeOK
<1>4. CASE AlreadyExecuted
    BY <1>4 DEF AlreadyExecuted, TypeOK
<1>5. CASE CallCallback
  <2>1. callbacks' \in [States -> [Seqs -> Seq(Callbacks)]]
      BY <1>0, <1>5 DEF CallCallback, CurCallbacks, TypeOK
  <2> QED
      BY <1>5, <2>1 DEF CallCallback, TypeOK
<1>6. CASE CallbackReturns
    BY <1>6 DEF CallbackReturns, TypeOK
<1>7. CASE LeaveEntry
    BY <1>0, <1>7, SampleFact, SeqsFact DEF LeaveEntry, Phase, Phases, TypeOK
<1>8. CASE LeaveExit
    BY <1>0, <1>8, SampleFact, SeqsFact DEF LeaveExit, Phase, Phases, TypeOK
<1>9. CASE run_linear
    BY <1>0, <1>9, SampleFact, StatesFact DEF run_linear, Return, TypeOK
<1>10. CASE bs_os_resume_check
    BY <1>0, <1>10, SampleFact, StatesFact
       DEF bs_os_resume_check, Return, TypeOK
<1>11. CASE bs_os_resume
    BY <1>0, <1>11, SampleFact, StatesFact DEF bs_os_resume, Return, TypeOK
<1>12. CASE bs_payload_load
    BY <1>0, <1>12, SampleFact, StatesFact DEF bs_payload_load, Return, TypeOK
<1>13. CASE bs_payload_boot
    BY <1>0, <1>13, SampleFact, StatesFact DEF bs_payload_boot, Return, TypeOK
<1>14. CASE boot_state_sched
  <2>1. callbacks' \in [States -> [Seqs -> Seq(Callbacks)]] /\ late' \subseteq Callbacks
      BY <1>14, SchedFact, ClientStatesAssumption DEF boot_state_sched
  <2> QED
      BY <1>14, <2>1 DEF boot_state_sched, TypeOK
<1>15. CASE boot_state_block
  <2>1. blockers' \in [States -> [Seqs -> Nat]]
      BY <1>0, <1>15, BlockFact, ClientStatesAssumption DEF boot_state_block
  <2> QED
      BY <1>15, <2>1 DEF boot_state_block, TypeOK
<1>16. CASE boot_state_unblock
  <2>1. blockers' \in [States -> [Seqs -> Nat]]
      BY <1>0, <1>16, BlockFact, ClientStatesAssumption DEF boot_state_unblock
  <2> QED
      BY <1>16, <2>1 DEF boot_state_unblock, TypeOK
<1>17. CASE UNCHANGED vars
    BY <1>17 DEF vars, TypeOK
<1> QED
    BY <1>1, <1>2, <1>3, <1>4, <1>5, <1>6, <1>7, <1>8, <1>9, <1>10, <1>11,
       <1>12, <1>13, <1>14, <1>15, <1>16, <1>17
       DEF Next, Walk, Clients, SpinBlocked, Stopped

THEOREM TypeCorrect == Spec => []TypeOK
BY TypeInit, TypeStep, PTL DEF Spec

-----------------------------------------------------------------------------
(* The inductive invariant.  A step of the walker that stays in a phase,   *)
(* and every call of a client, leaves all of it but the callbacks and the  *)
(* blockers alone; those are kept for the phases that are over.            *)

LEMMA CurFact ==
    ASSUME TypeOK
    PROVE  /\ current_phase.state_id \in States
           /\ current_phase.seq \in Seqs
           /\ next_id \in States
BY DEF TypeOK, Phases

\* All parts but DrainInv speak of these variables only.
Control == <<current_phase, complete, num_samples, arg, next_id>>

LEMMA InvInit == Init => IInv
<1> SUFFICES ASSUME Init PROVE IInv
    OBVIOUS
<1>1. TypeOK
    BY TypeInit
<1>2. DrainInv
    BY SeqsFact, StatesFact
       DEF Init, DrainInv, CompletedClosed, EntryClosed, Phase, BS_ON_ENTRY,
           BS_ON_EXIT
<1>3. CompleteInv /\ SampleInv /\ WalkInv /\ ArgInv
    BY DEF Init, CompleteInv, SampleInv, WalkInv, ArgInv, Phase, InState,
           States, BS_PRE_DEVICE, BS_OS_RESUME, BS_PAYLOAD_BOOT,
           BS_ON_ENTRY, BS_ON_EXIT, MAX_TIME_SAMPLES
<1> QED
    BY <1>1, <1>2, <1>3 DEF IInv

\* A step within a phase changes neither the control nor what is drained.
LEMMA InvInPhase ==
    ASSUME IInv, TypeOK', UNCHANGED Control,
           \/ pc' = pc
           \/ pc \in {"phase", "callback"} /\ pc' \in {"phase", "callback"},
           late \subseteq late',
           \A s \in States : complete[s] => callbacks'[s] = callbacks[s],
           current_phase.seq = BS_ON_EXIT => EntryLate(current_phase.state_id)',
           \A s \in States, q \in Seqs :
               complete[s] \/ Before(Phase(s, q), current_phase)
                   => blockers'[s][q] = blockers[s][q]
    PROVE  IInv'
<1>1. CompleteInv'
    BY DEF IInv, Control, CompleteInv, InState
<1>2. SampleInv'
    BY DEF IInv, Control, SampleInv
<1>3. WalkInv' /\ ArgInv'
    BY DEF IInv, Control, WalkInv, ArgInv
<1>4. DrainInv'
  <2>1. CompletedClosed'
      BY SeqsFact DEF IInv, Control, DrainInv, CompletedClosed, EntryLate
  <2>2. current_phase.seq = BS_ON_EXIT =>
            Before(Phase(current_phase.state_id, BS_ON_ENTRY), current_phase)
      BY DEF Before, Phase, BS_ON_ENTRY, BS_ON_EXIT
  <2> QED
      BY <2>1, <2>2, CurFact, SeqsFact DEF IInv, Control, DrainInv, EntryClosed
<1> QED
    BY <1>1, <1>2, <1>3, <1>4 DEF IInv

\* run_state returning to bs_walk_state_machine with a legal successor.
LEMMA InvReturn ==
    ASSUME IInv, TypeOK', pc = "run", NEW id \in States, Return(id),
           UNCHANGED <<current_phase, callbacks, blockers, complete, late>>,
           arg \subseteq arg',
           id \in {BS_OS_RESUME, BS_PAYLOAD_BOOT} => id \in arg',
           \/ id = current_phase.state_id + 1
           \/ /\ current_phase.state_id = BS_OS_RESUME_CHECK
              /\ id = BS_WRITE_TABLES
           \/ /\ current_phase.state_id = BS_PAYLOAD_BOOT
              /\ id = BS_PAYLOAD_BOOT
    PROVE  IInv'
<1> DEFINE c == current_phase.state_id
<1>0. TypeOK /\ c \in States /\ current_phase.seq = BS_ON_EXIT
    BY CurFact DEF IInv, WalkInv
<1>1. CompleteInv'
    BY DEF IInv, CompleteInv, Return, InState
<1>2. SampleInv'
  <2>1. /\ num_samples'[c] = 3
        /\ \A s \in States : s # c => num_samples'[s] = num_samples[s]
      BY <1>0, SampleFact DEF IInv, SampleInv, Return
  <2>2. ~complete[c]
      BY DEF IInv, CompleteInv, InState
  <2> QED
      BY <1>0, <2>1, <2>2
         DEF IInv, SampleInv, Return, BS_ON_ENTRY, BS_ON_EXIT, MAX_TIME_SAMPLES
<1>3. WalkInv'
    BY <1>0 DEF Return, WalkInv
<1>4. ArgInv'
    BY DEF IInv, ArgInv, Return
<1>5. DrainInv'
    BY DEF IInv, DrainInv, CompletedClosed, EntryClosed, EntryLate
<1> QED
    BY <1>1, <1>2, <1>3, <1>4, <1>5 DEF IInv

LEMMA InvStep == IInv /\ [Next]_vars => IInv'
<1> SUFFICES ASSUME IInv, [Next]_vars PROVE IInv'
    OBVIOUS
<1> DEFINE c == current_phase.state_id
<1>a. TypeOK /\ TypeOK'
    BY TypeStep DEF IInv
<1>b. c \in States /\ current_phase.seq \in Seqs /\ next_id \in States
    BY <1>a, CurFact
<1>1. CASE boot_state_schedule_static_entries
  <2>1. /\ \A s \in States : complete[s] => callbacks'[s] = callbacks[s]
        /\ late \subseteq late'
      BY <1>1, <1>a, EntryFact, SchedFact
         DEF boot_state_schedule_static_entries
  <2>2. current_phase.seq # BS_ON_EXIT
      BY <1>1 DEF boot_state_schedule_static_entries, IInv, WalkInv,
                  BS_ON_ENTRY, BS_ON_EXIT
  <2> QED
      BY <1>1, <1>a, <2>1, <2>2, InvInPhase
         DEF boot_state_schedule_static_entries, Control
<1>2. CASE StartWalk
    BY <1>2, <1>a
       DEF StartWalk, IInv, CompleteInv, SampleInv, WalkInv, ArgInv, DrainInv,
           CompletedClosed, EntryClosed, EntryLate, InState
<1>3. CASE EnterState
  <2>1. /\ num_samples'[c] = 1
        /\ \A s \in States : s # c => num_samples'[s] = num_samples[s]
      BY <1>3, <1>a, <1>b, SampleFact DEF EnterState, IInv, SampleInv
  <2>2. current_phase.seq = BS_ON_ENTRY
      BY <1>3 DEF EnterState, IInv, WalkInv
  <2>3. CompleteInv'
    <3>1. ~complete[c]
        BY <1>3 DEF EnterState
    <3>2. \A s \in States : complete[s] => s < c
        BY <3>1, <1>b DEF IInv, CompleteInv
    <3> QED
        BY <1>3, <3>1, <3>2 DEF EnterState, IInv, CompleteInv, InState
  <2>4. SampleInv'
      BY <1>3, <1>b, <2>1, <2>2 DEF EnterState, IInv, SampleInv, MAX_TIME_SAMPLES
  <2>5. WalkInv' /\ ArgInv' /\ DrainInv'
      BY <1>3, <2>2 DEF EnterState, IInv, WalkInv, ArgInv, DrainInv,
         CompletedClosed, EntryClosed, EntryLate, BS_ON_ENTRY, BS_ON_EXIT
  <2> QED
      BY <1>a, <2>3, <2>4, <2>5 DEF IInv
<1>4. CASE AlreadyExecuted
    BY <1>4, <1>a
       DEF AlreadyExecuted, IInv, CompleteInv, SampleInv, WalkInv, ArgInv,
           DrainInv, CompletedClosed, EntryClosed, EntryLate, InState
<1>5. CASE CallCallback
  <2>1. ~complete[c]
      BY <1>5 DEF CallCallback, IInv, CompleteInv, InState
  <2>2. \A s \in States : s # c => callbacks'[s] = callbacks[s]
      BY <1>5, <1>a, <1>b DEF CallCallback, TypeOK
  <2>3. current_phase.seq = BS_ON_EXIT => EntryLate(c)'
    <3>1. current_phase.seq = BS_ON_EXIT =>
              callbacks'[c][BS_ON_ENTRY] = callbacks[c][BS_ON_ENTRY]
        BY <1>5, <1>a, <1>b, SeqsFact DEF CallCallback, TypeOK, BS_ON_ENTRY, BS_ON_EXIT
    <3> QED
        BY <1>5, <3>1 DEF CallCallback, IInv, DrainInv, EntryClosed, EntryLate
  <2> QED
      BY <1>5, <1>a, <2>1, <2>2, <2>3, InvInPhase DEF CallCallback, Control
<1>6. CASE CallbackReturns
    BY <1>6, <1>a, InvInPhase
       DEF CallbackReturns, Control, IInv, DrainInv, EntryClosed, EntryLate
<1>7. CASE LeaveEntry
  <2>1. /\ num_samples'[c] = 2
        /\ \A s \in States : s # c => num_samples'[s] = num_samples[s]
      BY <1>7, <1>a, <1>b, SampleFact
         DEF LeaveEntry, PhaseDrained, IInv, SampleInv
  <2>2. current_phase'.state_id = c /\ current_phase'.seq = BS_ON_EXIT
      BY <1>7 DEF LeaveEntry, Phase
  <2>3. CompleteInv'
      BY <1>7, <2>2
         DEF LeaveEntry, PhaseDrained, IInv, CompleteInv, InState
  <2>4. SampleInv'
      BY <1>7, <1>b, <2>1, <2>2
         DEF LeaveEntry, PhaseDrained, IInv, SampleInv, MAX_TIME_SAMPLES
  <2>5. WalkInv' /\ ArgInv'
      BY <1>7, <2>2 DEF LeaveEntry, IInv, WalkInv, ArgInv
  <2>6. DrainInv'
    <3>1. CompletedClosed'
        BY <1>7 DEF LeaveEntry, IInv, DrainInv, CompletedClosed, EntryLate
    <3>2. EntryLate(c)'
      <4>1. callbacks'[c][BS_ON_ENTRY] = <<>>
          BY <1>7 DEF LeaveEntry, PhaseDrained, CurCallbacks
      <4>2. callbacks'[c'][BS_ON_ENTRY] = <<>>
          BY <2>2, <4>1
      <4> QED
          BY <4>2 DEF EntryLate
    <3> QED
        BY <1>7, <2>2, <3>1, <3>2
           DEF LeaveEntry, PhaseDrained, CurBlockers, DrainInv, EntryClosed
  <2> QED
      BY <1>a, <2>3, <2>4, <2>5, <2>6 DEF IInv
<1>8. CASE LeaveExit
  <2>1. /\ num_samples'[c] = 4
        /\ \A s \in States : s # c => num_samples'[s] = num_samples[s]
      BY <1>8, <1>a, <1>b, SampleFact
         DEF LeaveExit, PhaseDrained, IInv, SampleInv, BS_ON_ENTRY, BS_ON_EXIT
  <2>2. current_phase'.state_id = next_id /\ current_phase'.seq = BS_ON_ENTRY
      BY <1>8 DEF LeaveExit, Phase
  <2>3. /\ complete'[c]
        /\ \A s \in States : s # c => complete'[s] = complete[s]
      BY <1>8, <1>a, <1>b DEF LeaveExit, TypeOK
  <2>4. /\ ~complete[c]
        /\ \A s \in States : complete[s] => s < c
        /\ \A s \in States \ {BS_OS_RESUME} : s < c => complete[s]
      BY <1>8, <1>b DEF LeaveExit, PhaseDrained, IInv, CompleteInv, InState
  <2>5. \/ next_id = c + 1
        \/ c = BS_OS_RESUME_CHECK /\ next_id = BS_WRITE_TABLES
        \/ c = BS_PAYLOAD_BOOT /\ next_id = BS_PAYLOAD_BOOT
      BY <1>8 DEF LeaveExit, PhaseDrained, IInv, WalkInv
  <2>6. CompleteInv'
    <3>1. pc' = "walk"
        BY <1>8 DEF LeaveExit
    <3>2. \A s \in States : complete'[s] =>
              \/ s < next_id
              \/ s = BS_PAYLOAD_BOOT /\ next_id = BS_PAYLOAD_BOOT
      <4> SUFFICES ASSUME NEW s \in States, complete'[s]
                   PROVE  \/ s < next_id
                          \/ s = BS_PAYLOAD_BOOT /\ next_id = BS_PAYLOAD_BOOT
          OBVIOUS
      <4>1. s = c \/ s < c
          BY <2>3, <2>4
      <4>2. s \in Int /\ c \in Int
          BY <1>b, StatesFact
      <4> QED
          BY <2>5, <4>1, <4>2 DEF BS_OS_RESUME_CHECK, BS_WRITE_TABLES
    <3>3. \A s \in States \ {BS_OS_RESUME} : s < next_id => complete'[s]
      <4> SUFFICES ASSUME NEW s \in States \ {BS_OS_RESUME}, s < next_id
                   PROVE  complete'[s]
          OBVIOUS
      <4>1. s \in Int /\ c \in Int
          BY <1>b, StatesFact
      <4>2. s = c \/ s < c
          BY <2>5, <4>1 DEF BS_OS_RESUME_CHECK, BS_OS_RESUME, BS_WRITE_TABLES
      <4> QED
          BY <2>3, <2>4, <4>2
    <3> QED
        BY <2>2, <3>1, <3>2, <3>3 DEF CompleteInv, InState
  <2>7. SampleInv'
    <3>1. \A s \in States :
             /\ complete'[s] => num_samples'[s] = 4
             /\ ~complete'[s] => num_samples'[s] = 0
        BY <2>1, <2>3 DEF IInv, SampleInv, MAX_TIME_SAMPLES
    <3> QED
        BY <1>8, <1>b, <2>2, <3>1 DEF LeaveExit, SampleInv, MAX_TIME_SAMPLES
  <2>8. WalkInv' /\ ArgInv'
      BY <1>8, <2>2 DEF LeaveExit, IInv, WalkInv, ArgInv, BS_ON_ENTRY, BS_ON_EXIT
  <2>9. DrainInv'
    <3>1. \A q \in Seqs : blockers[c][q] = 0
        BY <1>8 DEF LeaveExit, PhaseDrained, CurBlockers, IInv, DrainInv,
                    EntryClosed, Seqs, BS_ON_ENTRY, BS_ON_EXIT
    <3>2. callbacks[c][BS_ON_EXIT] = <<>>
        BY <1>8 DEF LeaveExit, PhaseDrained, CurCallbacks
    <3>3. EntryLate(c)
        BY <1>8 DEF LeaveExit, IInv, DrainInv, EntryClosed
    <3>4. CompletedClosed'
        BY <1>8, <2>3, <3>1, <3>2, <3>3
           DEF LeaveExit, IInv, DrainInv, CompletedClosed, EntryLate
    <3> QED
        BY <2>2, <3>4 DEF DrainInv, EntryClosed, BS_ON_ENTRY, BS_ON_EXIT
  <2> QED
      BY <1>a, <2>6, <2>7, <2>8, <2>9 DEF IInv
<1>9. CASE run_linear
    BY <1>9, <1>a, <1>b, InvReturn, StatesFact DEF run_linear
<1>10. CASE bs_os_resume_check
    BY <1>10, <1>a, InvReturn, StatesFact
       DEF bs_os_resume_check, BS_OS_RESUME_CHECK, BS_OS_RESUME,
           BS_WRITE_TABLES, BS_PAYLOAD_BOOT
<1>11. CASE bs_os_resume
  <2>1. CASE Return(BS_WRITE_TABLES)
      BY <1>11, <1>a, <2>1, InvReturn, StatesFact
         DEF bs_os_resume, BS_OS_RESUME, BS_WRITE_TABLES, BS_PAYLOAD_BOOT
  <2>2. CASE pc' = "os" /\ UNCHANGED <<next_id, num_samples>>
      BY <1>11, <1>a, <2>2
         DEF bs_os_resume, IInv, CompleteInv, SampleInv, WalkInv, ArgInv,
             DrainInv, CompletedClosed, EntryClosed, EntryLate, InState
  <2> QED
      BY <1>11, <2>1, <2>2 DEF bs_os_resume
<1>12. CASE bs_payload_load
  <2>1. CASE Return(BS_PAYLOAD_BOOT) /\ arg' = arg \cup {BS_PAYLOAD_BOOT}
      BY <1>12, <1>a, <2>1, InvReturn, StatesFact
         DEF bs_payload_load, BS_PAYLOAD_LOAD, BS_PAYLOAD_BOOT
  <2>2. CASE pc' = "dead" /\ UNCHANGED <<next_id, num_samples, arg>>
      BY <1>12, <1>a, <2>2
         DEF bs_payload_load, IInv, CompleteInv, SampleInv, WalkInv, ArgInv,
             DrainInv, CompletedClosed, EntryClosed, EntryLate, InState
  <2> QED
      BY <1>12, <2>1, <2>2 DEF bs_payload_load
<1>13. CASE bs_payload_boot
  <2>1. CASE Return(BS_PAYLOAD_BOOT)
      BY <1>13, <1>a, <2>1, InvReturn, StatesFact
         DEF bs_payload_boot, IInv, ArgInv
  <2>2. CASE pc' = "payload" /\ UNCHANGED <<next_id, num_samples>>
      BY <1>13, <1>a, <2>2
         DEF bs_payload_boot, IInv, CompleteInv, SampleInv, WalkInv, ArgInv,
             DrainInv, CompletedClosed, EntryClosed, EntryLate, InState
  <2> QED
      BY <1>13, <2>1, <2>2 DEF bs_payload_boot
<1>14. CASE boot_state_sched
  <2>0. PICK s \in States, q \in Seqs, bscb \in Callbacks :
            boot_state_sched_callback(s, bscb, q)
      BY <1>14, ClientStatesAssumption DEF boot_state_sched
  <2>1. /\ \A t \in States : complete[t] => callbacks'[t] = callbacks[t]
        /\ late \subseteq late'
      BY <2>0, <1>a, SchedFact
  <2>2. UNCHANGED <<Control, blockers, pc>>
      BY <1>14 DEF boot_state_sched, Control
  <2>3. current_phase.seq = BS_ON_EXIT => EntryLate(c)'
    <3> SUFFICES ASSUME current_phase.seq = BS_ON_EXIT PROVE EntryLate(c)'
        OBVIOUS
    <3>1. PICK d \in States : d = c
        BY <1>b
    <3>2. EntryLate(d)
        BY <3>1 DEF IInv, DrainInv, EntryClosed
    <3>3. EntryLate(d)'
        BY <2>0, <1>a, <3>1, <3>2, SchedLate
    <3> QED
        BY <2>2, <3>1, <3>3 DEF Control
  <2> QED
      BY <1>a, <2>1, <2>2, <2>3, InvInPhase DEF Control
<1>15. CASE boot_state_block \/ boot_state_unblock
  <2>0. UNCHANGED <<current_phase, callbacks, complete, num_samples, arg, cur,
                    next_id, pc, late>> /\ pc \in {"callback", "run"}
      BY <1>15 DEF boot_state_block, boot_state_unblock, ClientRuns
  <2>1. PICK s \in States, q \in Seqs : block(s, q) \/ unblock(s, q)
      BY <1>15, <1>b, ClientStatesAssumption
         DEF boot_state_block, boot_state_unblock
  <2>2. /\ ~Before(Phase(s, q), current_phase)
        /\ \A t \in States, r \in Seqs :
              t # s \/ r # q => blockers'[t][r] = blockers[t][r]
      BY <1>a, <2>1, BlockFact
  <2>3. ~complete[s]
    <3>1. ~(s < c)
        BY <2>2 DEF Before, Phase
    <3> QED
        BY <2>0, <3>1 DEF IInv, CompleteInv, InState
  <2>4. current_phase.seq = BS_ON_EXIT => EntryLate(current_phase.state_id)'
      BY <2>0 DEF IInv, DrainInv, EntryClosed, EntryLate
  <2> QED
      BY <1>a, <2>0, <2>2, <2>3, <2>4, InvInPhase DEF Control
<1>16. CASE UNCHANGED vars
    BY <1>16, <1>a, InvInPhase
       DEF vars, Control, IInv, DrainInv, EntryClosed, EntryLate
<1> QED
    BY <1>1, <1>2, <1>3, <1>4, <1>5, <1>6, <1>7, <1>8, <1>9, <1>10, <1>11,
       <1>12, <1>13, <1>14, <1>15, <1>16
       DEF Next, Walk, Clients, SpinBlocked, Stopped

-----------------------------------------------------------------------------
LEMMA Invariance == Spec => []IInv
BY InvInit, InvStep, PTL DEF Spec

\* No state takes more than MAX_TIME_SAMPLES samples: bs_sample_time never
\* writes outside of times.samples.
THEOREM SamplesFit == Spec => []SamplesInBounds
<1>1. IInv => SamplesInBounds
  <2> SUFFICES ASSUME IInv, NEW s \in States
               PROVE  num_samples[s] <= MAX_TIME_SAMPLES
      BY DEF SamplesInBounds
  <2>1. CASE s = current_phase.state_id
      BY <2>1 DEF IInv, SampleInv
  <2>2. CASE s # current_phase.state_id
      BY <2>2 DEF IInv, SampleInv, MAX_TIME_SAMPLES
  <2> QED
      BY <2>1, <2>2
<1> QED
    BY <1>1, Invariance, PTL

\* A phase the walker has gone through belongs to a completed state, or is the
\* entry phase of the state that is running.
LEMMA LeftFact ==
    ASSUME IInv, NEW p \in Phases, Left(p)
    PROVE  \/ complete[p.state_id]
           \/ /\ p.state_id = current_phase.state_id
              /\ p.seq = BS_ON_ENTRY
              /\ current_phase.seq = BS_ON_EXIT
<1>0. p.state_id \in States /\ p.seq \in Seqs
    BY DEF Phases
<1> SUFFICES ASSUME ~complete[p.state_id]
             PROVE  /\ p.state_id = current_phase.state_id
                    /\ p.seq = BS_ON_ENTRY
                    /\ current_phase.seq = BS_ON_EXIT
    OBVIOUS
<1>1. Before(p, current_phase) /\ num_samples[p.state_id] > 0
    BY DEF Left
<1>2. p.state_id = current_phase.state_id
    BY <1>0, <1>1 DEF IInv, SampleInv
<1>3. p.seq < current_phase.seq
  <2>1. p.state_id \in Int
      BY <1>0, StatesFact
  <2> QED
      BY <1>1, <1>2, <2>1 DEF Before
<1> QED
    BY <1>0, <1>2, <1>3, CurFact DEF IInv, Seqs, BS_ON_ENTRY, BS_ON_EXIT

\* Every callback accepted before the walker left its phase has been called;
\* what is left on a list behind the walker is an entry callback that
\* boot_state_sched_on_entry took too late.
THEOREM PassedPhasesDrained == Spec => []PassedDrained
<1>1. IInv => PassedDrained
  <2> SUFFICES ASSUME IInv, NEW p \in Phases, Left(p),
                      NEW i \in 1 .. Len(callbacks[p.state_id][p.seq])
               PROVE  /\ p.seq = BS_ON_ENTRY
                      /\ callbacks[p.state_id][p.seq][i] \in late
      BY DEF PassedDrained
  <2>0. p.state_id \in States /\ p.seq \in Seqs
      BY DEF Phases
  <2>1. EntryLate(p.state_id)
      BY <2>0, LeftFact DEF IInv, DrainInv, CompletedClosed, EntryClosed
  <2>2. p.seq = BS_ON_ENTRY
    <3>1. ASSUME p.seq = BS_ON_EXIT PROVE callbacks[p.state_id][p.seq] = <<>>
        BY <2>0, <3>1, LeftFact
           DEF IInv, DrainInv, CompletedClosed, BS_ON_ENTRY, BS_ON_EXIT
    <3>2. ASSUME callbacks[p.state_id][p.seq] = <<>> PROVE FALSE
        BY <3>2
    <3> QED
        BY <2>0, <3>1, <3>2 DEF Seqs, BS_ON_ENTRY, BS_ON_EXIT
  <2> QED
      BY <2>1, <2>2 DEF EntryLate
<1> QED
    BY <1>1, Invariance, PTL

\* boot_state_block leaves no block behind the walker.
THEOREM PassedPhasesUnblocked == Spec => []PassedUnblocked
<1>1. IInv => PassedUnblocked
  <2> SUFFICES ASSUME IInv, NEW p \in Phases, Left(p)
               PROVE  blockers[p.state_id][p.seq] = 0
      BY DEF PassedUnblocked
  <2>0. p.state_id \in States /\ p.seq \in Seqs
      BY DEF Phases
  <2> QED
      BY <2>0, LeftFact DEF IInv, DrainInv, CompletedClosed, EntryClosed
<1> QED
    BY <1>1, Invariance, PTL

\* The payload and the OS get control only with their argument set, and
\* after exactly the states that precede the hand-off have completed.
THEOREM HandoffsInOrder == Spec => []HandoffOrder
<1>1. IInv => HandoffOrder
  <2> SUFFICES ASSUME IInv PROVE HandoffOrder
      OBVIOUS
  <2>1. CASE pc = "payload"
      BY <2>1 DEF IInv, HandoffOrder, WalkInv, ArgInv, CompleteInv, States,
                  BS_PRE_DEVICE, BS_PAYLOAD_BOOT, BS_OS_RESUME
  <2>2. CASE pc = "os"
      BY <2>2 DEF IInv, HandoffOrder, WalkInv, ArgInv, CompleteInv, States,
                  BS_PRE_DEVICE, BS_PAYLOAD_BOOT, BS_OS_RESUME
  <2> QED
      BY <2>1, <2>2 DEF HandoffOrder
<1> QED
    BY <1>1, Invariance, PTL

\* The counters stay in their bounds: the types, with the blockers at zero or
\* above, and the samples inside their array.
THEOREM CountersBounded == Spec => []Bounded
BY TypeCorrect, SamplesFit, PTL DEF Bounded

\* The phases behind the walker are closed: drained of all that was accepted in
\* time, and unblocked.
THEOREM PassedPhasesClosed == Spec => []PhasesClosed
BY PassedPhasesDrained, PassedPhasesUnblocked, PTL DEF PhasesClosed

\* What a step leaves alone of a state.
Frozen(s) ==
    /\ complete'[s]
    /\ num_samples'[s] = num_samples[s]
    /\ callbacks'[s] = callbacks[s]
    /\ blockers'[s] = blockers[s]

LEMMA FrozenStep ==
    ASSUME IInv, [Next]_vars, NEW s \in States, complete[s]
    PROVE  Frozen(s)
<1> DEFINE c == current_phase.state_id
<1>a. TypeOK /\ c \in States
    BY CurFact DEF IInv
<1>b. ASSUME InState \/ ~complete[c]  PROVE s # c
    BY <1>b DEF IInv, CompleteInv
<1>1. CASE boot_state_schedule_static_entries
    BY <1>1, <1>a, EntryFact, SchedFact
       DEF boot_state_schedule_static_entries, Frozen
<1>2. CASE StartWalk \/ AlreadyExecuted \/ CallbackReturns \/ UNCHANGED vars
    BY <1>2 DEF StartWalk, AlreadyExecuted, CallbackReturns, vars, Frozen
<1>3. CASE EnterState
    BY <1>3, <1>a, <1>b, SampleFact DEF EnterState, Frozen
<1>4. CASE CallCallback
    BY <1>4, <1>a, <1>b DEF CallCallback, Frozen, InState, TypeOK
<1>5. CASE LeaveEntry
    BY <1>5, <1>a, <1>b, SampleFact DEF LeaveEntry, PhaseDrained, Frozen, InState
<1>6. CASE LeaveExit
    BY <1>6, <1>a, <1>b, SampleFact
       DEF LeaveExit, PhaseDrained, Frozen, InState, TypeOK
<1>7. CASE \/ run_linear \/ bs_os_resume_check \/ bs_os_resume
           \/ bs_payload_load \/ bs_payload_boot
  <2>1. InState /\ UNCHANGED <<callbacks, blockers, complete>>
      BY <1>7 DEF run_linear, bs_os_resume_check, bs_os_resume, bs_payload_load,
                  bs_payload_boot, InState
  <2>2. bs_sample_time(c) \/ UNCHANGED num_samples
      BY <1>7 DEF run_linear, bs_os_resume_check, bs_os_resume, bs_payload_load,
                  bs_payload_boot, Return
  <2> QED
      BY <1>a, <1>b, <2>1, <2>2, SampleFact DEF Frozen
<1>8. CASE boot_state_sched
    BY <1>8, <1>a, SchedFact, ClientStatesAssumption DEF boot_state_sched, Frozen
<1>9. CASE boot_state_block \/ boot_state_unblock
  <2>1. InState /\ UNCHANGED <<callbacks, complete, num_samples>>
      BY <1>9 DEF boot_state_block, boot_state_unblock, ClientRuns, InState
  <2>2. PICK t \in States, q \in Seqs : block(t, q) \/ unblock(t, q)
      BY <1>9, <1>a, CurFact, ClientStatesAssumption
         DEF boot_state_block, boot_state_unblock, IInv
  <2>3. /\ blockers' \in [States -> [Seqs -> Nat]]
        /\ ~Before(Phase(t, q), current_phase)
        /\ \A v \in States, r \in Seqs :
              v # t \/ r # q => blockers'[v][r] = blockers[v][r]
      BY <1>a, <2>2, BlockFact
  <2>4. s # t
    <3>1. s < c
        BY <2>1 DEF IInv, CompleteInv, InState
    <3> QED
        BY <2>3, <3>1 DEF Before, Phase
  <2>5. blockers'[s] = blockers[s]
      BY <1>a, <2>3, <2>4 DEF TypeOK
  <2> QED
      BY <2>1, <2>5 DEF Frozen
<1> QED
    BY <1>1, <1>2, <1>3, <1>4, <1>5, <1>6, <1>7, <1>8, <1>9
       DEF Next, Walk, Clients, SpinBlocked, Stopped

\* A state that is complete is never entered again; nothing of it changes.
THEOREM CompletedStatesFrozen == Spec => CompletedFrozen
<1>1. IInv /\ [Next]_vars =>
        [\A s \in States : complete[s] =>
            /\ complete'[s]
            /\ num_samples'[s] = num_samples[s]
            /\ callbacks'[s] = callbacks[s]
            /\ blockers'[s] = blockers[s]]_vars
    BY FrozenStep DEF Frozen
<1> QED
    BY <1>1, Invariance, PTL DEF Spec, CompletedFrozen
=============================================================================
