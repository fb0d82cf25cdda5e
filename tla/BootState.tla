----------------------------- MODULE BootState -----------------------------
(***************************************************************************)
(* The ramstage boot state machine of src/src/lib/hardwaremain.c.          *)
(*                                                                         *)
(* Twelve states are run in order.  Each has an entry and an exit phase,   *)
(* each phase a LIFO list of callbacks and a count of blockers.  Callbacks *)
(* and the run_state functions are the clients: while one of them runs it  *)
(* may schedule further callbacks and block or unblock phases through the  *)
(* interface of bootstate.h.  The build has no timer queue and no threads  *)
(* (CONFIG_TIMER_QUEUE=0, CONFIG_COOP_MULTITASKING=0), so bs_run_timers is *)
(* empty and clients run only when the walker calls them.                  *)
(***************************************************************************)
EXTENDS Integers, Sequences

CONSTANTS
    Callbacks,      \* the struct boot_state_callback objects of the image
    StaticEntries,  \* the .bs_init section: a sequence of [state, when, bscb]
    ClientStates,   \* the states that clients name in their calls
    MaxCalls        \* bound: how many calls the clients make in all

(* boot_state_t and boot_state_sequence_t of bootstate.h *)
BS_PRE_DEVICE      == 0
BS_OS_RESUME_CHECK == 7
BS_OS_RESUME       == 8
BS_WRITE_TABLES    == 9
BS_PAYLOAD_LOAD    == 10
BS_PAYLOAD_BOOT    == 11
States             == BS_PRE_DEVICE .. BS_PAYLOAD_BOOT

BS_ON_ENTRY == 0
BS_ON_EXIT  == 1
Seqs        == BS_ON_ENTRY .. BS_ON_EXIT

MAX_TIME_SAMPLES == 4

ASSUME StaticEntriesAssumption ==
    /\ StaticEntries \in Seq([state : States, when : Seqs, bscb : Callbacks])
    /\ \A i, j \in 1 .. Len(StaticEntries) :
          StaticEntries[i].bscb = StaticEntries[j].bscb => i = j
ASSUME ClientStatesAssumption == ClientStates \subseteq States
ASSUME MaxCallsAssumption == MaxCalls \in Nat

VARIABLES
    current_phase,  \* struct state_tracker: the phase the walker is in
    callbacks,      \* boot_states[s].phases[q].callbacks, head first
    blockers,       \* boot_states[s].phases[q].blockers
    complete,       \* boot_states[s].complete
    num_samples,    \* boot_states[s].times.num_samples
    arg,            \* the states s whose boot_states[s].arg is not NULL
    cur,            \* next entry boot_state_schedule_static_entries handles
    next_id,        \* local of bs_walk_state_machine
    pc,             \* where main() is
    calls,          \* how many calls the clients have made
    late            \* history: callbacks accepted for a phase already left

vars == <<current_phase, callbacks, blockers, complete, num_samples, arg,
          cur, next_id, pc, calls, late>>

Phases == [state_id : States, seq : Seqs]

\* Before(p, q): the walker has left phase p when it is in q (the test that
\* boot_state_block and boot_state_unblock make on current_phase).
Before(p, q) ==
    \/ p.state_id < q.state_id
    \/ p.state_id = q.state_id /\ p.seq < q.seq

Phase(s, q) == [state_id |-> s, seq |-> q]

CurCallbacks == callbacks[current_phase.state_id][current_phase.seq]
CurBlockers  == blockers[current_phase.state_id][current_phase.seq]

\* A callback structure that is on no list.
Unlinked(bscb) ==
    \A s \in States, q \in Seqs :
        \A i \in 1 .. Len(callbacks[s][q]) : callbacks[s][q][i] # bscb

TypeOK ==
    /\ current_phase \in Phases
    /\ callbacks \in [States -> [Seqs -> Seq(Callbacks)]]
    /\ blockers \in [States -> [Seqs -> Nat]]
    /\ complete \in [States -> BOOLEAN]
    /\ num_samples \in [States -> Nat]
    /\ arg \subseteq States
    /\ cur \in 1 .. Len(StaticEntries) + 1
    /\ next_id \in States
    /\ pc \in {"static", "walk", "phase", "callback", "run",
               "os", "payload", "dead"}
    /\ calls \in Nat
    /\ late \subseteq Callbacks

-----------------------------------------------------------------------------
Init ==
    /\ current_phase = Phase(BS_PRE_DEVICE, BS_ON_ENTRY)
    /\ callbacks = [s \in States |-> [q \in Seqs |-> <<>>]]
    /\ blockers = [s \in States |-> [q \in Seqs |-> 0]]
    /\ complete = [s \in States |-> FALSE]
    /\ num_samples = [s \in States |-> 0]
    /\ arg = {}
    /\ cur = 1
    /\ next_id = BS_PRE_DEVICE
    /\ pc = "static"
    /\ calls = 0
    /\ late = {}

\* The callback becomes the head of the phase's list.
Link(s, bscb, q) ==
    /\ callbacks' = [callbacks EXCEPT ![s][q] = <<bscb>> \o @]
    /\ late' = IF Before(Phase(s, q), current_phase)
               THEN late \cup {bscb} ELSE late

\* Mutant: a completed state takes callbacks too.
boot_state_sched_callback_always(s, bscb, q) == Link(s, bscb, q)

\* boot_state_sched_callback: refused (-1) on a completed state.  Nothing is
\* tested of the phase: the entry phase of the state that is running, or a
\* phase of a state the walker has skipped, takes callbacks when it is over.
boot_state_sched_callback(s, bscb, q) ==
    IF complete[s] THEN UNCHANGED <<callbacks, late>> ELSE Link(s, bscb, q)

\* One iteration of the loop of boot_state_schedule_static_entries.
boot_state_schedule_static_entries ==
    /\ pc = "static"
    /\ cur <= Len(StaticEntries)
    /\ LET e == StaticEntries[cur] IN
          boot_state_sched_callback(e.state, e.bscb, e.when)
    /\ cur' = cur + 1
    /\ UNCHANGED <<current_phase, blockers, complete, num_samples, arg,
                   next_id, pc, calls>>

StartWalk ==
    /\ pc = "static"
    /\ cur > Len(StaticEntries)
    /\ pc' = "walk"
    /\ UNCHANGED <<current_phase, callbacks, blockers, complete, num_samples,
                   arg, cur, next_id, calls, late>>

bs_sample_time(s) == num_samples' = [num_samples EXCEPT ![s] = @ + 1]

\* Mutant: a state that is complete is run again.
EnterState_again ==
    /\ pc = "walk"
    /\ bs_sample_time(current_phase.state_id)
    /\ pc' = "phase"
    /\ UNCHANGED <<current_phase, callbacks, blockers, complete, arg, cur,
                   next_id, calls, late>>

\* Head of the loop of bs_walk_state_machine on a state not yet run: the
\* first sample, then bs_call_callbacks for the entry phase.
EnterState ==
    /\ pc = "walk"
    /\ ~complete[current_phase.state_id]
    /\ bs_sample_time(current_phase.state_id)
    /\ pc' = "phase"
    /\ UNCHANGED <<current_phase, callbacks, blockers, complete, arg, cur,
                   next_id, calls, late>>

\* "state already executed": the loop is left and main() dies.
AlreadyExecuted ==
    /\ pc = "walk"
    /\ complete[current_phase.state_id]
    /\ pc' = "dead"
    /\ UNCHANGED <<current_phase, callbacks, blockers, complete, num_samples,
                   arg, cur, next_id, calls, late>>

\* Mutant: the callback is called but stays on the list.
CallCallback_linked ==
    /\ pc = "phase"
    /\ CurCallbacks # <<>>
    /\ pc' = "callback"
    /\ UNCHANGED <<current_phase, callbacks, blockers, complete, num_samples,
                   arg, cur, next_id, calls, late>>

\* bs_call_callbacks: unlink the first callback and call it ...
CallCallback ==
    /\ pc = "phase"
    /\ CurCallbacks # <<>>
    /\ callbacks' = [callbacks EXCEPT
           ![current_phase.state_id][current_phase.seq] = Tail(@)]
    /\ pc' = "callback"
    /\ UNCHANGED <<current_phase, blockers, complete, num_samples, arg, cur,
                   next_id, calls, late>>

CallbackReturns ==
    /\ pc = "callback"
    /\ pc' = "phase"
    /\ UNCHANGED <<current_phase, callbacks, blockers, complete, num_samples,
                   arg, cur, next_id, calls, late>>

\* ... and spin while the list is empty but the phase is blocked.
SpinBlocked ==
    /\ pc = "phase"
    /\ CurCallbacks = <<>>
    /\ CurBlockers # 0
    /\ UNCHANGED vars

\* Mutant: only the blockers are looked at, and a callback that was scheduled
\* while the phase was blocked is forgotten.
PhaseDrained_unblocked ==
    /\ pc = "phase"
    /\ CurBlockers = 0

PhaseDrained ==
    /\ pc = "phase"
    /\ CurCallbacks = <<>>
    /\ CurBlockers = 0

\* The entry phase is over: from here on the current phase is the exit
\* phase, and run_state is called.
LeaveEntry ==
    /\ PhaseDrained
    /\ current_phase.seq = BS_ON_ENTRY
    /\ current_phase' = Phase(current_phase.state_id, BS_ON_EXIT)
    /\ bs_sample_time(current_phase.state_id)
    /\ pc' = "run"
    /\ UNCHANGED <<callbacks, blockers, complete, arg, cur, next_id, calls,
                   late>>

\* The exit phase is over: the tracker moves to the next state and the state
\* is marked complete.
LeaveExit ==
    /\ PhaseDrained
    /\ current_phase.seq = BS_ON_EXIT
    /\ current_phase' = Phase(next_id, BS_ON_ENTRY)
    /\ bs_sample_time(current_phase.state_id)
    /\ complete' = [complete EXCEPT ![current_phase.state_id] = TRUE]
    /\ pc' = "walk"
    /\ UNCHANGED <<callbacks, blockers, arg, cur, next_id, calls, late>>

\* run_state returned id: the third sample, then bs_call_callbacks again.
Return(id) ==
    /\ next_id' = id
    /\ bs_sample_time(current_phase.state_id)
    /\ pc' = "phase"

\* The run_state functions whose successor is the next state of the enum:
\* bs_pre_device .. bs_post_device, and bs_write_tables.
run_linear ==
    /\ pc = "run"
    /\ \/ current_phase.state_id < BS_OS_RESUME_CHECK
       \/ current_phase.state_id = BS_WRITE_TABLES
    /\ Return(current_phase.state_id + 1)
    /\ UNCHANGED <<current_phase, callbacks, blockers, complete, arg, cur,
                   calls, late>>

\* acpi_find_wakeup_vector finds a vector or does not.
bs_os_resume_check ==
    /\ pc = "run"
    /\ current_phase.state_id = BS_OS_RESUME_CHECK
    /\ \/ Return(BS_OS_RESUME) /\ arg' = arg \cup {BS_OS_RESUME}
       \/ Return(BS_WRITE_TABLES) /\ UNCHANGED arg
    /\ UNCHANGED <<current_phase, callbacks, blockers, complete, cur, calls,
                   late>>

\* acpi_resume jumps to the OS, or returns when the memory that backs the
\* low memory up (CBMEM_ID_RESUME) is missing.
bs_os_resume ==
    /\ pc = "run"
    /\ current_phase.state_id = BS_OS_RESUME
    /\ \/ pc' = "os" /\ UNCHANGED <<next_id, num_samples>>
       \/ Return(BS_WRITE_TABLES)
    /\ UNCHANGED <<current_phase, callbacks, blockers, complete, arg, cur,
                   calls, late>>

\* Mutant: the payload is not passed to the next state.
bs_payload_load_noarg ==
    /\ pc = "run"
    /\ current_phase.state_id = BS_PAYLOAD_LOAD
    /\ \/ Return(BS_PAYLOAD_BOOT)
       \/ pc' = "dead" /\ UNCHANGED <<next_id, num_samples>>
    /\ UNCHANGED <<current_phase, callbacks, blockers, complete, arg, cur,
                   calls, late>>

\* payload_load returns the payload, or NULL and the machine dies.
bs_payload_load ==
    /\ pc = "run"
    /\ current_phase.state_id = BS_PAYLOAD_LOAD
    /\ \/ Return(BS_PAYLOAD_BOOT) /\ arg' = arg \cup {BS_PAYLOAD_BOOT}
       \/ pc' = "dead" /\ UNCHANGED <<next_id, num_samples, arg>>
    /\ UNCHANGED <<current_phase, callbacks, blockers, complete, cur, calls,
                   late>>

\* payload_run jumps to the payload; if it returns, so does the state, to
\* itself.
bs_payload_boot ==
    /\ pc = "run"
    /\ current_phase.state_id = BS_PAYLOAD_BOOT
    /\ \/ pc' = "payload" /\ UNCHANGED <<next_id, num_samples>>
       \/ Return(BS_PAYLOAD_BOOT)
    /\ UNCHANGED <<current_phase, callbacks, blockers, complete, arg, cur,
                   calls, late>>

-----------------------------------------------------------------------------
(* Calls of the interface, made by a running callback or run_state.        *)

ClientRuns == pc \in {"callback", "run"} /\ calls < MaxCalls

\* boot_state_sched_on_entry and boot_state_sched_on_exit.  The structure is
\* linked in through its own next field, so a client hands in one that is on
\* no list.
boot_state_sched ==
    /\ ClientRuns
    /\ \E s \in ClientStates, q \in Seqs, bscb \in Callbacks :
          Unlinked(bscb) /\ boot_state_sched_callback(s, bscb, q)
    /\ calls' = calls + 1
    /\ UNCHANGED <<current_phase, blockers, complete, num_samples, arg, cur,
                   next_id, pc>>

\* The call is refused when the walker is past the phase.
BlockRefused(s, q) == Before(Phase(s, q), current_phase)

block(s, q) ==
    /\ ~BlockRefused(s, q)
    /\ blockers' = [blockers EXCEPT ![s][q] = @ + 1]

unblock(s, q) ==
    /\ ~BlockRefused(s, q)
    /\ blockers[s][q] # 0
    /\ blockers' = [blockers EXCEPT ![s][q] = @ - 1]

\* A refused call changes nothing; boot_state_current_block is the call for
\* the current phase.
boot_state_block ==
    /\ ClientRuns
    /\ \/ \E s \in ClientStates, q \in Seqs : block(s, q)
       \/ block(current_phase.state_id, current_phase.seq)
    /\ calls' = calls + 1
    /\ UNCHANGED <<current_phase, callbacks, complete, num_samples, arg, cur,
                   next_id, pc, late>>

boot_state_unblock ==
    /\ ClientRuns
    /\ \/ \E s \in ClientStates, q \in Seqs : unblock(s, q)
       \/ unblock(current_phase.state_id, current_phase.seq)
    /\ calls' = calls + 1
    /\ UNCHANGED <<current_phase, callbacks, complete, num_samples, arg, cur,
                   next_id, pc, late>>

-----------------------------------------------------------------------------
\* The machine has been handed over, or main() has died.
Stopped == pc \in {"os", "payload", "dead"} /\ UNCHANGED vars

Walk ==
    \/ boot_state_schedule_static_entries
    \/ StartWalk
    \/ EnterState
    \/ AlreadyExecuted
    \/ CallCallback
    \/ CallbackReturns
    \/ SpinBlocked
    \/ LeaveEntry
    \/ LeaveExit
    \/ run_linear
    \/ bs_os_resume_check
    \/ bs_os_resume
    \/ bs_payload_load
    \/ bs_payload_boot

Clients == boot_state_sched \/ boot_state_block \/ boot_state_unblock

Next == Walk \/ Clients \/ Stopped

\* The walker is the only thread of the bootstrap processor, and a client
\* returns after finitely many calls: the walker keeps taking steps.
Spec == Init /\ [][Next]_vars /\ WF_vars(Walk)

-----------------------------------------------------------------------------
\* The four samples of a state fit the samples[MAX_TIME_SAMPLES] array of
\* struct boot_state_times: bs_sample_time never writes past its end, even
\* when payload_run returns and BS_PAYLOAD_BOOT asks to be run again.
SamplesInBounds == \A s \in States : num_samples[s] <= MAX_TIME_SAMPLES

\* With the types of the variables, among them that no counter of blockers
\* goes below zero.
Bounded == TypeOK /\ SamplesInBounds

\* The walker has gone through phase p.
Left(p) ==
    \/ complete[p.state_id]
    \/ Before(p, current_phase) /\ num_samples[p.state_id] > 0

\* Whatever was accepted for a phase before the walker left it has been
\* called, whoever scheduled it and whatever it scheduled itself.  What is
\* still on a list behind the walker came too late, and only entry lists have
\* such callbacks: boot_state_sched_on_entry took them, and they are lost.
PassedDrained ==
    \A p \in Phases : Left(p) =>
        \A i \in 1 .. Len(callbacks[p.state_id][p.seq]) :
            p.seq = BS_ON_ENTRY /\ callbacks[p.state_id][p.seq][i] \in late

\* No phase the walker has gone through keeps a block: boot_state_block
\* refuses just those calls that could no longer hold the walker up.
PassedUnblocked ==
    \A p \in Phases : Left(p) => blockers[p.state_id][p.seq] = 0

\* What the walker leaves behind is drained of every callback accepted in
\* time, and unblocked.
PhasesClosed == PassedDrained /\ PassedUnblocked

\* The payload gets control only when every state before BS_PAYLOAD_BOOT,
\* but the resume state, has completed, and with its argument set; the OS
\* gets it back only on a resume path that has not rewritten the tables.
HandoffOrder ==
    /\ pc = "payload" =>
          /\ BS_PAYLOAD_BOOT \in arg
          /\ \A s \in States \ {BS_OS_RESUME, BS_PAYLOAD_BOOT} : complete[s]
    /\ pc = "os" =>
          /\ BS_OS_RESUME \in arg
          /\ \A s \in States : complete[s] <=> s < BS_OS_RESUME

\* A completed state is never entered again and its samples, its lists
\* and its blockers never change again.
CompletedFrozen ==
    [][\A s \in States : complete[s] =>
           /\ complete'[s]
           /\ num_samples'[s] = num_samples[s]
           /\ callbacks'[s] = callbacks[s]
           /\ blockers'[s] = blockers[s]]_vars

\* Boot comes to an end: the walker hands the machine over, dies, or spins
\* for ever in a phase that a client left blocked.
BootEnds ==
    <>[](\/ pc \in {"os", "payload", "dead"}
         \/ pc = "phase" /\ CurCallbacks = <<>> /\ CurBlockers # 0)

=============================================================================
