-------------------------- MODULE IntrPublication --------------------------
(***************************************************************************)
(* How the level of the 8259's INT pin becomes the processors' pending     *)
(* event, and the execution engine's business, in a machine with several   *)
(* processors: run_cpu_batch and service_scheduler_boundary in             *)
(* rusty_box/src/emulator/scheduler.rs, with the I/O dispatch that may     *)
(* take the pin's flags in the middle of a slice.                          *)
(*                                                                         *)
(* A batch starts with a boundary, then runs rounds.  In a round every     *)
(* runnable processor gets one slice, a slice is followed by a boundary    *)
(* when work is pending, and the round ends with the boundary that commits *)
(* its time.  Only a boundary tells the bootstrap processor about a pin    *)
(* that moved under another processor's instruction.                       *)
(*                                                                         *)
(* The controllers are the pin and flags of IntPin; LINT0 is whether the   *)
(* processor's LVT0 admits ExtINT.  The levels, flags and requests of the  *)
(* other devices that a boundary also serves are left out: a boundary with *)
(* such work is a boundary that was requested.                             *)
(***************************************************************************)
EXTENDS IntPin, Integers

CONSTANTS Ncpus    \* processors; 0 is the bootstrap processor

Cpus == 0..(Ncpus - 1)
Bsp  == 0
Smp  == Ncpus > 1

ASSUME NcpusAssumption == Ncpus \in Nat \ {0}

VARIABLES
    pc,          \* where the batch is: "entry", "slice" or "commit"
    cpu,         \* the processor whose slice it is
    requested,   \* the slice asked for a boundary
    resetRequest,
    event,       \* BX_EVENT_PENDING_INTR of each processor
    admits,      \* lint0_admits_ext_int of each processor
    published,   \* pic_pin_published: the level the engine acknowledged
    engine       \* the level the engine holds

batch == <<pc, cpu, requested>>
lines == <<event, admits, published, engine>>
vars  == <<pinVars, batch, resetRequest, lines>>

PubTypeOK == /\ PinTypeOK
          /\ pc \in {"entry", "slice", "commit"}
          /\ cpu \in Cpus
          /\ requested \in BOOLEAN
          /\ resetRequest \in {"none", "software", "hardware"}
          /\ event \in [Cpus -> BOOLEAN]
          /\ admits \in [Cpus -> BOOLEAN]
          /\ published \in BOOLEAN
          /\ engine \in BOOLEAN

\* preset_lint0: only the bootstrap processor comes up with the virtual wire.
PresetLint0 == [c \in Cpus |-> c = Bsp]

PubInit == /\ PinInit
        /\ pc = "entry" /\ cpu = Bsp /\ requested = FALSE
        /\ resetRequest = "none"
        /\ event = [c \in Cpus |-> FALSE]
        /\ admits = PresetLint0
        /\ published = FALSE /\ engine = FALSE

-----------------------------------------------------------------------------
(* What an instruction of the running processor may do. *)

\* set_legacy_intr_level
LegacyIntr(c, level) == [event EXCEPT ![c] = level /\ admits[c]]

\* A port access: the device moves the pin, take_pic_level_after_dispatch
\* takes the flags, and sync_io_events hands the level to this processor.  The
\* access may also ask for a boundary, or for a reset, which asks for one.
PortIo ==
    /\ pc = "slice"
    /\ pin' \in BOOLEAN
    /\ \E changed \in BOOLEAN :
         /\ irqPending \/ irqCleared \/ pin' # pin => changed
         /\ event' = IF changed THEN LegacyIntr(cpu, pin') ELSE event
    /\ irqPending' = FALSE /\ irqCleared' = FALSE
    /\ resetRequest' \in {resetRequest, "hardware"}
                           \cup (IF resetRequest = "none" THEN {"software"} ELSE {})
    /\ requested' \in {requested, TRUE}
    /\ resetRequest' # resetRequest => requested'
    /\ UNCHANGED <<pc, cpu, admits, published, engine>>

\* A memory-mapped access moves the pin and leaves the flags to a boundary.
Mmio ==
    /\ pc = "slice"
    /\ Drive
    /\ UNCHANGED <<batch, resetRequest, lines>>

\* acknowledge_external_interrupt, with nothing for the local APIC to answer:
\* the 8259 answers through LINT0, and a refused or stale event is dropped.
Acknowledge ==
    /\ pc = "slice"
    /\ event[cpu]
    /\ IF admits[cpu] /\ pin
       THEN /\ Drive
            /\ irqCleared'
            /\ UNCHANGED event
       ELSE /\ IF pin THEN UNCHANGED <<irqPending, irqCleared>>
               ELSE irqPending' = FALSE /\ irqCleared' = FALSE
            /\ event' = [event EXCEPT ![cpu] = FALSE]
            /\ UNCHANGED pin
    /\ UNCHANGED <<batch, resetRequest, admits, published, engine>>

\* set_lvt_entry: the guest opens or closes its LVT0.
WriteLvt0 ==
    /\ pc = "slice"
    /\ \E open \in BOOLEAN : admits' = [admits EXCEPT ![cpu] = open]
    /\ UNCHANGED <<pinVars, batch, resetRequest, event, published, engine>>

-----------------------------------------------------------------------------
(* Boundaries *)

\* scheduler_boundary_work_pending
WorkPending == irqPending \/ irqCleared \/ resetRequest # "none" \/ requested

\* pic_pin_changed: an engine that refuses the level holds the old one, and
\* the level the machine remembers does not move either.
Offered(level) == level \/ published

\* Bug: the engine hears only of an asserted pin.
TellOnlyAsserted(level, taken) ==
    IF level /\ taken THEN engine' = level /\ published' = level
    ELSE UNCHANGED <<engine, published>>

Tell(level, taken) ==
    IF Offered(level) /\ taken THEN engine' = level /\ published' = level
    ELSE UNCHANGED <<engine, published>>

\* sync_final_event_levels, after the boundary's timers and queues ran.
SyncFinal(taken) ==
    /\ irqPending' = FALSE /\ irqCleared' = FALSE
    /\ event' = LegacyIntr(Bsp, pin')
    /\ Tell(pin', taken)
    /\ UNCHANGED admits

\* Emulator::reset: a hardware reset resets the devices too.
ResetMachine(taken) ==
    /\ pin' = (pin /\ resetRequest = "software")
    /\ UNCHANGED <<irqPending, irqCleared>>
    /\ event' = [c \in Cpus |-> FALSE]
    /\ admits' = PresetLint0
    /\ Tell(FALSE, taken)
    /\ resetRequest' = "none"

\* Bug: a boundary without queued work returns before the final levels.
BoundaryOnlyWithWork(moves, next, taken) ==
    IF resetRequest # "none"
    THEN ResetMachine(taken) /\ pc' = "entry"
    ELSE IF ~WorkPending
    THEN pc' = next /\ UNCHANGED <<pinVars, resetRequest, lines>>
    ELSE /\ pin' \in BOOLEAN
         /\ SyncFinal(taken)
         /\ pc' = IF Offered(pin') /\ ~taken THEN "entry" ELSE next
         /\ UNCHANGED resetRequest

\* service_scheduler_boundary: queued work and elapsed time may move the pin,
\* then the final level is published.  Where the batch goes next depends on a
\* reset and on an engine's refusal, which both end it.
Boundary(moves, next, taken) ==
    IF resetRequest # "none"
    THEN ResetMachine(taken) /\ pc' = "entry"
    ELSE /\ pin' \in IF moves \/ WorkPending THEN BOOLEAN ELSE {pin}
         /\ SyncFinal(taken)
         /\ pc' = IF Offered(pin') /\ ~taken THEN "entry" ELSE next
         /\ UNCHANGED resetRequest

\* run_cpu_batch: the boundary at its head, and the end of a batch.
EnterBatch(taken) ==
    /\ pc = "entry"
    /\ Boundary(FALSE, "slice", taken)
    /\ cpu' \in Cpus
    /\ requested' = FALSE

\* The end of a slice.  With one processor only a requested boundary is
\* served here; with several, any pending work is.  A requested boundary ends
\* the round, otherwise the next runnable processor runs.
EndSlice(taken) ==
    /\ pc = "slice"
    /\ requested' = FALSE
    /\ \E c \in Cpus, next \in {"slice", "commit"} :
         /\ next = "slice" => c > cpu /\ ~requested
         /\ next = "commit" => c = Bsp
         /\ cpu' = c
         /\ IF (Smp /\ WorkPending) \/ requested
            THEN Boundary(FALSE, next, taken)
            ELSE pc' = next /\ UNCHANGED <<pinVars, resetRequest, lines>>

\* The boundary that commits the round's time; the batch may end with it.
Commit(taken) ==
    /\ pc = "commit"
    /\ \E next \in {"slice", "entry"} : Boundary(TRUE, next, taken)
    /\ cpu' \in Cpus
    /\ requested' = FALSE

Guest == PortIo \/ Mmio \/ Acknowledge \/ WriteLvt0

PubNext == \/ Guest
        \/ \E taken \in BOOLEAN : EnterBatch(taken) \/ EndSlice(taken) \/ Commit(taken)

\* A slice ends with its quantum, and the host keeps running batches.  Of the
\* batches and rounds that offer the engine a level, it takes one in the end.
PubFairness ==
    /\ WF_vars(\E taken \in BOOLEAN : EnterBatch(taken))
    /\ WF_vars(\E taken \in BOOLEAN : EndSlice(taken))
    /\ WF_vars(\E taken \in BOOLEAN : Commit(taken))
    /\ SF_vars(EnterBatch(TRUE)) /\ SF_vars(Commit(TRUE))

PubSpec == PubInit /\ [][PubNext]_vars /\ PubFairness

-----------------------------------------------------------------------------
(* Properties *)

\* pic_pin_published is what the engine holds, refusals and resets included:
\* recording a level it refused would leave no fall to report later.
PublishedIsEngine == published = engine

\* An asserted INT reaches the bootstrap processor if LINT0 stays open, even
\* when another processor's port access took the flags or LVT0 was opened
\* after the pin rose: every commit publishes the pin unconditionally.
IntrReachesBsp ==
    (pin /\ admits[Bsp]) ~> (event[Bsp] \/ ~pin \/ ~admits[Bsp])

\* A fall of INT is owed to the engine until it takes it.
EngineHearsFall == (engine /\ ~pin) ~> (~engine \/ pin)
=============================================================================
