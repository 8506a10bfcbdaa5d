---------------------------- MODULE SmpScheduler ----------------------------
(***************************************************************************)
(* How a machine with several processors shares itself among them:         *)
(* run_cpu_batch and the masks it goes by, in                              *)
(* rusty_box/src/emulator/scheduler.rs, with the sleep states and wake-ups *)
(* of rusty_box/src/cpu/event.rs and proc_ctrl.rs, and what the callers do *)
(* between two batches (rusty_box/src/emulator/run.rs).                    *)
(*                                                                         *)
(* A batch runs rounds; a round gives each runnable processor one slice,   *)
(* in order, and credits a sleeping one with a quantum.  The time a round  *)
(* took is the sum of the credits over the number of processors, with the  *)
(* remainder carried over.  Whether a processor is runnable is a mask that *)
(* every change of a processor has to refresh.                             *)
(*                                                                         *)
(* A slice is one action: what handle_async_event delivers, one operation  *)
(* of the guest, and the boundary that operation asked for.  ApicBus shows *)
(* that nothing else runs before such a boundary has delivered everything. *)
(* Left out: SMIs, the events of virtualised guests, interrupt shadows,    *)
(* and user interrupts, which no processor model offers.                   *)
(***************************************************************************)
EXTENDS Integers, FiniteSetsExt

CONSTANTS Ncpus,        \* processors; 0 is the bootstrap processor
          Quantum,      \* smp_quantum_ticks
          SliceTicks,   \* what tick_delta_since_sync may answer
          Ops,          \* what guests do
          Sends         \* the kinds of messages they send

Cpus    == 0..(Ncpus - 1)
Bsp     == 0
AllOps  == {"nop", "sti", "cli", "iret", "hlt", "monitor", "mwait", "mwaitIf",
            "fault", "invlpg", "lineUp", "lineDown", "queue", "port", "reset"}
Kinds   == {"lapic", "nmi", "init", "sipi"}
Asleep  == {"hlt", "mwait", "mwaitIf", "shutdown"}

ASSUME SmpAssumption ==
    /\ Ncpus \in Nat \ {0, 1}
    /\ Quantum \in Nat \ {0}
    /\ SliceTicks \in SUBSET Nat
    /\ Ops \in SUBSET AllOps
    /\ Sends \in SUBSET Kinds

VARIABLES
    cpu,         \* each processor
    runnable,    \* runnable_mask
    batch,       \* a batch is running
    cursor,      \* cpu_cursor: the first processor the round has not reached
    ticks,       \* round_ticks
    remainder,   \* smp_tick_remainder
    reached      \* boundary_reached

vars == <<cpu, runnable, batch, cursor, ticks, remainder, reached>>

\* Events pend in pending_event; event_mask holds mask, and the interrupts
\* while EFLAGS.IF is clear.
Processor == [activity : Asleep \cup {"active", "waitSipi"}, iflag : BOOLEAN,
              pending : SUBSET {"pic", "lapic", "nmi", "init"},
              mask : SUBSET {"nmi", "init"}, armed : BOOLEAN]

TypeOK == /\ cpu \in [Cpus -> Processor]
          /\ runnable \in SUBSET Cpus
          /\ batch \in BOOLEAN
          /\ cursor \in 0..Ncpus
          /\ ticks \in Nat
          /\ remainder \in 0..(Ncpus - 1)
          /\ reached \in BOOLEAN

-----------------------------------------------------------------------------
(* Processors *)

Interrupts == {"pic", "lapic"}

\* is_unmasked_event_pending of the whole event word
Unmasked(p) == p.pending \ (p.mask \cup (IF p.iflag THEN {} ELSE Interrupts))

\* Bug: MWAIT's request to wake with interrupts disabled is forgotten.
RunnableUnmasked(p) == CASE p.activity = "waitSipi" -> FALSE
                         [] p.activity = "active"   -> TRUE
                         [] OTHER -> Unmasked(p) # {}

\* cpu_runnable_for_batch
Runnable(p) == CASE p.activity = "waitSipi" -> FALSE
                 [] p.activity = "active"   -> TRUE
                 [] p.activity = "mwaitIf"  -> Unmasked(p) # {} \/ p.pending \cap Interrupts # {}
                 [] OTHER -> Unmasked(p) # {}

\* handle_wait_for_event: what ends a wait
Wakes(p) ==
    /\ p.activity \in Asleep
    /\ \/ p.pending \cap Interrupts # {} /\ (p.iflag \/ p.activity = "mwaitIf")
       \/ (p.pending \cap {"nmi", "init"}) \ p.mask # {}

\* reset, and enter_sleep_state(WaitForSipi) for the application processors
ResetCpu(c) == [activity |-> IF c = Bsp THEN "active" ELSE "waitSipi",
                iflag |-> FALSE, pending |-> {},
                mask |-> IF c = Bsp THEN {} ELSE {"nmi", "init"}, armed |-> FALSE]

\* interrupt() through an interrupt gate
Enters(p) == [p EXCEPT !.activity = "active", !.iflag = FALSE]

\* handle_async_event: INIT, then an NMI, then the local APIC's interrupt, then
\* the 8259's.  A processor that slept has disarmed its monitor.
Async(c, p) ==
    LET w == [p EXCEPT !.armed = IF p.activity \in {"mwait", "mwaitIf"} THEN FALSE ELSE @]
        u == Unmasked(p)
    IN  IF p.activity # "active" /\ ~Wakes(p) THEN p
        ELSE IF "init" \in u THEN ResetCpu(c)
        ELSE IF "nmi" \in u
        THEN Enters([w EXCEPT !.pending = @ \ {"nmi"}, !.mask = @ \cup {"nmi"}])
        ELSE IF "lapic" \in u THEN Enters([w EXCEPT !.pending = @ \ {"lapic"}])
        ELSE IF "pic" \in u THEN Enters([w EXCEPT !.pending = @ \ {"pic"}])
        ELSE [w EXCEPT !.activity = "active"]

\* Instructions: STI, CLI, IRET, HLT, MONITOR, MWAIT with and without ECX[0],
\* a third exception, INVLPG, and port accesses that move the 8259's INT.
Execute(p, op) ==
    CASE op = "sti"      -> [p EXCEPT !.iflag = TRUE]
      [] op = "cli"      -> [p EXCEPT !.iflag = FALSE]
      [] op = "iret"     -> [p EXCEPT !.iflag = TRUE, !.mask = @ \ {"nmi"}]
      [] op = "hlt"      -> [p EXCEPT !.activity = "hlt"]
      [] op = "monitor"  -> [p EXCEPT !.armed = TRUE]
      [] op \in {"mwait", "mwaitIf"} -> IF p.armed THEN [p EXCEPT !.activity = op] ELSE p
      [] op = "fault"    -> [p EXCEPT !.activity = "shutdown", !.iflag = FALSE]
      [] op = "invlpg"   -> [p EXCEPT !.armed = FALSE]
      [] op = "lineUp"   -> [p EXCEPT !.pending = @ \cup {"pic"}]
      [] op = "lineDown" -> [p EXCEPT !.pending = @ \ {"pic"}]
      [] OTHER -> p

\* deliver_lapic_bus_interrupt and apply_lapic_cpu_event
Deliver(p, kind) ==
    CASE kind = "init" -> IF "init" \in p.mask THEN p
                          ELSE [p EXCEPT !.pending = @ \cup {"init"}]
      [] kind = "sipi" -> IF p.activity # "waitSipi" THEN p
                          ELSE [p EXCEPT !.activity = "active", !.mask = {}]
      [] OTHER -> [p EXCEPT !.pending = @ \cup {kind}]

\* rebuild_cpu_masks_from_scan
Scan(cpus) == {c \in Cpus : Runnable(cpus[c])}

\* refresh_cpu_masks, for each of who
Refresh(run, cpus, who) == {c \in Cpus : IF c \in who THEN Runnable(cpus[c]) ELSE c \in run}

-----------------------------------------------------------------------------
(* Scheduler boundaries *)

\* What devices and timers do to a processor: a local APIC's interrupt on any,
\* and the level of the 8259's INT on the bootstrap processor.
Arrives(c, p, lapic, int) ==
    LET q == IF lapic THEN Deliver(p, "lapic") ELSE p
    IN  IF c # Bsp THEN q
        ELSE [q EXCEPT !.pending = IF int THEN @ \cup {"pic"} ELSE @ \ {"pic"}]

\* Bug: the boundary refreshes the bootstrap processor's mask only.
BoundaryBspOnly(cpus, run) ==
    \E who \in SUBSET Cpus, int \in BOOLEAN :
        /\ cpu' = [c \in Cpus |-> Arrives(c, cpus[c], c \in who, int)]
        /\ runnable' = Refresh(run, cpu', {Bsp})

\* service_scheduler_boundary, with no reset pending: interrupts for any of the
\* local APICs, and the final level of INT
Boundary(cpus, run) ==
    \E who \in SUBSET Cpus, int \in BOOLEAN :
        /\ cpu' = [c \in Cpus |-> Arrives(c, cpus[c], c \in who, int)]
        /\ runnable' = Refresh(run, cpu', who \cup {Bsp})

\* The boundary that hands a processor's message to another
BoundaryMessage(cpus, run, target, kind) ==
    LET told == [cpus EXCEPT ![target] = Deliver(@, kind)]
    IN  Boundary(told, Refresh(run, told, {target}))

\* The boundary that finds a reset pending: pre-reset time is discarded and the
\* batch ends.
BoundaryReset ==
    /\ cpu' = [c \in Cpus |-> ResetCpu(c)]
    /\ runnable' = Scan(cpu')
    /\ batch' = FALSE
    /\ cursor' = 0
    /\ ticks' = 0
    /\ remainder' = 0
    /\ reached' = FALSE

-----------------------------------------------------------------------------
(* run_cpu_batch *)

Init == /\ cpu = [c \in Cpus |-> ResetCpu(c)]
        /\ runnable = {Bsp}
        /\ batch = FALSE
        /\ cursor = 0
        /\ ticks = 0
        /\ remainder = 0
        /\ reached = FALSE

\* The boundary every batch begins with
BatchBegins ==
    /\ ~batch
    /\ batch' = TRUE
    /\ Boundary(cpu, runnable)
    /\ UNCHANGED <<cursor, ticks, remainder, reached>>

\* No processor is runnable: the batch ends.
BatchIdle ==
    /\ batch /\ cursor = 0 /\ runnable = {}
    /\ batch' = FALSE
    /\ UNCHANGED <<cpu, runnable, cursor, ticks, remainder, reached>>

NextSet == {c \in runnable : c >= cursor}

\* Processors the round has still to reach, and those it would pass over
RoundGoesOn == batch /\ NextSet # {} /\ ~reached

\* Bug: the processors passed over are credited with nothing.
CreditsOnlyRan(c, delta) == IF delta = 0 THEN Quantum ELSE delta

\* What the processors passed over and the one that runs are credited with
Credits(c, delta) == (c - cursor) * Quantum + (IF delta = 0 THEN Quantum ELSE delta)

\* The processor the round reaches next runs, with what its slice cost.
Reaches(c, delta) ==
    /\ RoundGoesOn
    /\ c = Min(NextSet)
    /\ cursor' = c + 1
    /\ ticks' = ticks + Credits(c, delta)
    /\ UNCHANGED <<batch, remainder>>

\* What a slice of c that executes op leaves, boundaries apart
Sliced(c, op) ==
    LET p == Async(c, cpu[c])
    IN  [cpu EXCEPT ![c] = IF p.activity = "active" THEN Execute(p, op) ELSE p]

\* A slice that asks for no boundary
SliceQuiet(c, op, delta) ==
    /\ op \notin {"queue", "port", "reset"}
    /\ Reaches(c, delta)
    /\ cpu' = Sliced(c, op)
    /\ runnable' = Refresh(runnable, cpu', {c})
    /\ UNCHANGED reached

\* A slice that leaves work for a boundary, or asks for one itself
SliceBoundary(c, op, delta) ==
    /\ op \in {"queue", "port"}
    /\ Reaches(c, delta)
    /\ Async(c, cpu[c]).activity = "active"
    /\ LET cpus == Sliced(c, op) IN Boundary(cpus, Refresh(runnable, cpus, {c}))
    /\ reached' = (op = "port")

\* A slice that writes the ICR
SliceSends(c, target, kind, delta) ==
    /\ Reaches(c, delta)
    /\ Async(c, cpu[c]).activity = "active"
    /\ LET cpus == Sliced(c, "nop")
       IN  BoundaryMessage(cpus, Refresh(runnable, cpus, {c}), target, kind)
    /\ reached' = TRUE

\* A slice that resets the machine
SliceResets(c) ==
    /\ "reset" \in Ops
    /\ RoundGoesOn
    /\ c = Min(NextSet)
    /\ Async(c, cpu[c]).activity = "active"
    /\ BoundaryReset
-----------------------------------------------------------------------------
(* The end of a round *)

\* Bug: every slice ends its round.
RoundOverEarly == batch /\ (reached \/ cursor > 0)

\* The round has come to every processor, or a boundary cut it short.
RoundOver == batch /\ (reached \/ (NextSet = {} /\ ~(cursor = 0 /\ runnable = {})))

\* What the round took: a processor the round did not come to has a quantum's
\* credit, but for a round that a boundary cut short.
RoundTicks == ticks + (IF reached THEN 0 ELSE (Ncpus - cursor) * Quantum)
Elapsed    == (remainder + RoundTicks) \div Ncpus

Leftover   == (remainder + RoundTicks) % Ncpus

\* Less than a tick: the next round starts at once.
RoundTooShort ==
    /\ RoundOver /\ Elapsed = 0
    /\ remainder' = Leftover
    /\ cursor' = 0 /\ ticks' = 0 /\ reached' = FALSE
    /\ UNCHANGED <<cpu, runnable, batch>>

\* The commit boundary advances time; the batch goes on unless a boundary was
\* asked for or its size is reached.
RoundCommits ==
    /\ RoundOver /\ Elapsed > 0
    /\ Boundary(cpu, runnable)
    /\ remainder' = Leftover
    /\ cursor' = 0 /\ ticks' = 0 /\ reached' = FALSE
    /\ batch' \in {~reached, FALSE}

\* A timer or a device pended a reset that the commit boundary applies.
RoundResets ==
    /\ "reset" \in Ops
    /\ RoundOver /\ Elapsed > 0
    /\ BoundaryReset

-----------------------------------------------------------------------------
(* Between two batches: step and run_interactive *)

\* Bug: time goes on for a halted bootstrap processor only while the others have
\* not been started.
CanFastForwardAlone == \A c \in Cpus \ {Bsp} : cpu[c].activity = "waitSipi"

\* can_fast_forward_bsp_hlt
CanFastForward == runnable \subseteq {Bsp}

\* has_interrupt, or the local APIC's INTR, for a processor that takes it
Interrupted(p) == p.pending \cap Interrupts # {} /\ (p.iflag \/ p.activity = "mwaitIf")

\* The bootstrap processor halts or waits, and nobody else can run.
Idles == /\ ~batch
         /\ cpu[Bsp].activity \in {"hlt", "mwait", "mwaitIf"}
         /\ ~Interrupted(cpu[Bsp])
         /\ CanFastForward

\* Time goes on to the next deadline, whose timers are serviced.  The caller does
\* so until there is an interrupt, a reset, another processor to run, or its
\* hlt_budget is spent.
FastForward ==
    /\ Idles
    /\ Boundary(cpu, runnable)
    /\ UNCHANGED <<batch, cursor, ticks, remainder, reached>>

FastForwardResets == "reset" \in Ops /\ Idles /\ BoundaryReset

\* inject_interrupt: the caller delivers the 8259's interrupt itself.
Injects ==
    /\ ~batch /\ "pic" \in cpu[Bsp].pending /\ cpu[Bsp].iflag
    /\ cpu' = [cpu EXCEPT ![Bsp] = Enters(@)]
    /\ runnable' = Refresh(runnable, cpu', {Bsp})
    /\ UNCHANGED <<batch, cursor, ticks, remainder, reached>>

-----------------------------------------------------------------------------
Slice(c) ==
    \/ \E delta \in SliceTicks :
          \/ \E op \in Ops : SliceQuiet(c, op, delta) \/ SliceBoundary(c, op, delta)
          \/ \E target \in Cpus, kind \in Sends : SliceSends(c, target, kind, delta)
    \/ SliceResets(c)

Next == \/ BatchBegins \/ BatchIdle
        \/ \E c \in Cpus : Slice(c)
        \/ RoundTooShort \/ RoundCommits \/ RoundResets
        \/ FastForward \/ FastForwardResets \/ Injects

Spec == Init /\ [][Next]_vars

-----------------------------------------------------------------------------
(* Properties *)

\* assert_cpu_masks_match_scan: between the steps of a batch the mask is what a
\* scan of the processors would give, whatever happened to which of them.
MasksMatchScan == runnable = Scan(cpu)

\* A processor that handle_wait_for_event would wake is given a slice: nobody
\* sleeps through the event the architecture says ends its sleep.
NoLostWakeup == \A c \in Cpus : Wakes(cpu[c]) => c \in runnable

\* A processor waits for a startup message with NMI and INIT masked, so that
\* nothing but the message can end the wait, and only application processors wait.
OnlySipiStarts ==
    \A c \in Cpus : cpu[c].activity = "waitSipi" =>
        c # Bsp /\ cpu[c].mask = {"nmi", "init"} /\ ~cpu[c].iflag
=============================================================================
