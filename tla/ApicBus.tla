------------------------------ MODULE ApicBus ------------------------------
(***************************************************************************)
(* The local APICs of a machine with several processors and the bus        *)
(* between them: send_ipi in rusty_box/src/cpu/apic.rs, the delivery in    *)
(* rusty_box/src/emulator/scheduler.rs, and what INIT, start-up and NMI    *)
(* messages do to a processor in rusty_box/src/cpu/event.rs.               *)
(*                                                                         *)
(* A processor that writes its interrupt command register delivers to      *)
(* itself at once and leaves the message in its queue for the others; the  *)
(* slice ends, and the boundary that follows drains every queue before any *)
(* processor runs again.  Which processors the boundary looks at is        *)
(* decided by a mask, lapic_work_mask, that is kept by hand.               *)
(*                                                                         *)
(* The scheduler is any order of slices; one slice is any number of        *)
(* accesses until one leaves work for the boundary.  Left out: SMIs, which *)
(* take the path of NMIs, the error bits of messages nobody accepts, and   *)
(* the arbitration of APICs older than the xAPIC, which this build never   *)
(* simulates.                                                              *)
(***************************************************************************)
EXTENDS LocalApic

CONSTANTS Ncpus,      \* processors; 0 is the bootstrap processor
          Commands,   \* the interrupt commands the guest writes
          Arrivals,   \* the messages the I/O APIC may send
          TprValues   \* the task priorities the guest writes

Cpus   == 0..(Ncpus - 1)
Bsp    == 0
NoCpu  == Ncpus

\* An interrupt command: the destination is a shorthand ("self", "all",
\* "others"), a physical identifier, the logical flat model's set, or either
\* broadcast.
Modes   == {"fixed", "lowest", "nmi", "init", "deassert", "sipi"}
Message == [mode : Modes, vector : Vectors, level : BOOLEAN]
Command == [to : {"self", "all", "others", "physical", "logical", "broadcast"},
            dest : SUBSET Cpus, msg : Message]
Ipi     == [to : {"all", "physical", "logical", "broadcast", "others"},
            dest : SUBSET Cpus, msg : Message, excludeSource : BOOLEAN]
CpuEvent == [kind : {"nmi", "init", "sipi"}, vector : Vectors]

ASSUME BusAssumption ==
    /\ Ncpus \in Nat \ {0, 1}
    /\ Commands \subseteq Command
    /\ Arrivals \subseteq Command
    /\ TprValues \subseteq Nat
    /\ \A m \in Arrivals : m.to \in {"physical", "logical", "broadcast"}

VARIABLES
    cpu,     \* each processor and its local APIC
    work,    \* lapic_work_mask
    slice,   \* the processor that runs, or NoCpu between slices
    latch    \* BX_ASYNC_EVENT_SCHEDULER_BOUNDARY of that processor

vars == <<cpu, work, slice, latch>>

Processor ==
    [lapic : Registers(Ipi, CpuEvent), event : BOOLEAN,
     pending : SUBSET {"nmi", "init"},    \* the other bits of pending_event
     mask : SUBSET {"nmi", "init"},       \* event_mask
     waiting : BOOLEAN,                   \* in WaitForSipi
     start : Vectors \cup {NoVector}]     \* the vector it was started at

TypeOK == /\ cpu \in [Cpus -> Processor]
          /\ work \in SUBSET Cpus
          /\ slice \in Cpus \cup {NoCpu}
          /\ latch \in BOOLEAN

\* reset: an application processor waits for its start-up message, with INIT
\* and NMI masked.
ResetCpu(c) ==
    [lapic |-> ResetLapic, event |-> FALSE, pending |-> {},
     mask |-> IF c = Bsp THEN {} ELSE {"nmi", "init"},
     waiting |-> c # Bsp, start |-> NoVector]

Init == /\ cpu = [c \in Cpus |-> ResetCpu(c)]
        /\ work = {}
        /\ slice = NoCpu
        /\ latch = FALSE

-----------------------------------------------------------------------------
(* Messages *)

\* deliver: interrupts are requested, the others queue for the boundary.
Deliver(a, m) ==
    CASE m.mode \in {"fixed", "lowest"} -> Trigger(a, m.vector, m.level, FALSE)
      [] m.mode \in {"nmi", "init", "sipi"} ->
           [a EXCEPT !.events = Append(@, [kind |-> m.mode, vector |-> m.vector])]
      [] OTHER -> a

Queue(a, cmd, to, excluded) ==
    [a EXCEPT !.ipis = Append(@, [to |-> to, dest |-> cmd.dest, msg |-> cmd.msg,
                                  excludeSource |-> excluded])]

\* Bug: a sender that is one of its targets leaves itself out.
SendIpiToOthersOnly(c, a, cmd) ==
    LET lowest == cmd.msg.mode = "lowest"
    IN  IF cmd.msg.mode = "deassert" \/ (lowest /\ cmd.to \in {"physical", "broadcast"}) THEN a
        ELSE IF cmd.to = "self" THEN Trigger(a, cmd.msg.vector, cmd.msg.level, FALSE)
        ELSE Queue(a, cmd, IF lowest /\ cmd.to = "others" THEN "all" ELSE cmd.to, ~lowest)

\* send_ipi, on a bus with more than one processor: c is the sender, a its
\* local APIC.  A processor that is a target itself is served at once and left
\* out at the boundary; lowest-priority messages are arbitrated there.
SendIpi(c, a, cmd) ==
    LET here   == Deliver(a, cmd.msg)
        lowest == cmd.msg.mode = "lowest"
    IN  IF cmd.msg.mode = "deassert" THEN a
        ELSE IF lowest /\ cmd.to \in {"physical", "broadcast"} THEN a   \* rejected
        ELSE CASE cmd.to = "self" -> Trigger(a, cmd.msg.vector, cmd.msg.level, FALSE)
          [] cmd.to = "all" -> IF lowest THEN Queue(a, cmd, "all", FALSE)
                               ELSE Queue(here, cmd, "all", TRUE)
          [] cmd.to = "others" -> IF lowest THEN Queue(a, cmd, "all", FALSE)
                                  ELSE Queue(a, cmd, "others", TRUE)
          [] cmd.to = "logical" -> IF cmd.dest = {} /\ ~lowest THEN a
                                   ELSE IF c \in cmd.dest /\ ~lowest
                                   THEN Queue(here, cmd, "logical", TRUE)
                                   ELSE Queue(a, cmd, "logical", FALSE)
          [] cmd.to = "broadcast" -> Queue(here, cmd, "broadcast", TRUE)
          [] OTHER -> IF cmd.dest = {c} THEN here
                      ELSE IF cmd.dest = {} THEN a   \* nobody's identifier
                      ELSE Queue(a, cmd, "physical", FALSE)

\* ipi_targets_cpu and ioapic_targets_cpu: every processor's logical
\* identifier is its own bit of the flat model.
Targets(src, m) ==
    LET matching == CASE m.to \in {"all", "broadcast"} -> Cpus
                      [] m.to = "others" -> Cpus \ {src}
                      [] OTHER -> m.dest
    IN  IF m.excludeSource THEN matching \ {src} ELSE matching

-----------------------------------------------------------------------------
(* The boundary: s is the machine, a record of the processors and the mask. *)

\* refresh_cpu_masks, of every processor in C
Refresh(s, C) ==
    [cpu  |-> s.cpu,
     work |-> {c \in s.work \cup C : c \in C => HasSchedulerWork(s.cpu[c].lapic)}]

\* Bug: a start-up message restarts a processor that runs.
ApplyEventAlways(p, e) ==
    CASE e.kind = "nmi"  -> [p EXCEPT !.pending = @ \cup {"nmi"}]
      [] e.kind = "init" -> IF "init" \in p.mask THEN p
                            ELSE [p EXCEPT !.pending = @ \cup {"init"}]
      [] OTHER -> [p EXCEPT !.mask = {}, !.waiting = FALSE, !.start = e.vector]

\* apply_lapic_cpu_event with deliver_nmi, deliver_init and deliver_sipi: a
\* masked INIT is dropped, and so is a start-up message nobody waits for.
ApplyEvent(p, e) ==
    CASE e.kind = "nmi"  -> [p EXCEPT !.pending = @ \cup {"nmi"}]
      [] e.kind = "init" -> IF "init" \in p.mask THEN p
                            ELSE [p EXCEPT !.pending = @ \cup {"init"}]
      [] OTHER -> IF ~p.waiting THEN p
                  ELSE [p EXCEPT !.mask = {}, !.waiting = FALSE, !.start = e.vector]

\* deliver_lapic_bus_interrupt at its target p: one queued event is applied,
\* INTR passed on.
Received(p, m) ==
    LET a == Deliver(p.lapic, m)
        q == [p EXCEPT !.event = @ \/ a.intrPending,
                       !.lapic = [a EXCEPT !.intrPending = FALSE,
                                           !.events = IF @ = <<>> THEN @ ELSE Tail(@)]]
    IN  IF a.events = <<>> THEN q ELSE ApplyEvent(q, Head(a.events))

\* The targets receive m in turn; each turn touches its own target only.
DeliverToEach(s, m, T) ==
    Refresh([cpu  |-> [t \in Cpus |-> IF t \in T THEN Received(s.cpu[t], m) ELSE s.cpu[t]],
             work |-> s.work], T)

\* The target of lowest priority, the first among equals.
LowestTarget(s, T) ==
    CHOOSE t \in T : \A u \in T : \/ s.cpu[t].lapic.tpr < s.cpu[u].lapic.tpr
                                  \/ s.cpu[t].lapic.tpr = s.cpu[u].lapic.tpr /\ t <= u

\* Bug: lowest priority is delivered like any other message.
DeliverMessageToEach(s, m, T) == DeliverToEach(s, m, T)

\* deliver_pending_ipi and deliver_ioapic_to_model_lapics
DeliverMessage(s, m, T) ==
    DeliverToEach(s, m, IF m.mode = "lowest" /\ T # {} THEN {LowestTarget(s, T)} ELSE T)

\* The messages of src, taken from its queue, in their order.
DeliverAll(s, src, queue) ==
    LET after[k \in 0..Len(queue)] ==
          IF k = 0 THEN s
          ELSE DeliverMessage(after[k - 1], queue[k].msg, Targets(src, queue[k]))
    IN  after[Len(queue)]

\* drain_lapic_bus_from, for a processor the mask shows
DrainFrom(s, src) ==
    IF src \notin s.work THEN s
    ELSE Refresh(DeliverAll([cpu  |-> [s.cpu EXCEPT ![src].lapic.ipis = <<>>],
                             work |-> s.work],
                            src, s.cpu[src].lapic.ipis), {src})

\* drain_lapic_bus
DrainLapicBus(s) ==
    LET after[n \in 0..Ncpus] == IF n = 0 THEN s ELSE DrainFrom(after[n - 1], n - 1)
    IN  after[Ncpus]

ApplyEvents(p, events) ==
    LET after[k \in 0..Len(events)] ==
          IF k = 0 THEN p ELSE ApplyEvent(after[k - 1], events[k])
    IN  after[Len(events)]

\* What service_lapic_local_events does at one processor, without the timer
Served(p) ==
    LET q == ApplyEvents(p, p.lapic.events)
    IN  [q EXCEPT !.event = @ \/ q.lapic.intr,
                  !.lapic = [q.lapic EXCEPT !.events = <<>>, !.eoi = NoVector]]

\* What the end of sync_final_event_levels does at one processor
PassedOn(p) == [p EXCEPT !.event = @ \/ p.lapic.intrPending,
                         !.lapic = [p.lapic EXCEPT !.intrPending = FALSE]]

\* Both look at the processors the mask shows, each on its own.
LocalEvents(s) ==
    Refresh([cpu  |-> [c \in Cpus |-> IF c \in s.work THEN Served(s.cpu[c]) ELSE s.cpu[c]],
             work |-> s.work], s.work)

PassOnIntr(s) ==
    Refresh([cpu  |-> [c \in Cpus |-> IF c \in s.work THEN PassedOn(s.cpu[c]) ELSE s.cpu[c]],
             work |-> s.work], s.work)

\* A message of the I/O APIC has no source to leave out, and lowest priority
\* is refused with a physical destination, the broadcast included.
ArriveOne(s, m) ==
    IF m.msg.mode = "lowest" /\ m.to # "logical" THEN s
    ELSE DeliverMessage(s, m.msg, IF m.to = "broadcast" THEN Cpus ELSE m.dest)

Arrive(s, io) ==
    LET after[k \in 0..Len(io)] == IF k = 0 THEN s ELSE ArriveOne(after[k - 1], io[k])
    IN  after[Len(io)]

\* Bug: what a processor sent to itself is not looked at.
BoundaryBusOnly(s, io) ==
    Refresh(PassOnIntr(DrainLapicBus(Arrive(DrainLapicBus(s), io))), {Bsp})

\* service_scheduler_boundary: the queues, then the I/O APIC's messages io,
\* then what those left.
Boundary(s, io) ==
    Refresh(PassOnIntr(LocalEvents(DrainLapicBus(
        Arrive(LocalEvents(DrainLapicBus(s)), io)))), {Bsp})

-----------------------------------------------------------------------------
(* A processor's slice *)

Becomes(s) == cpu' = s.cpu /\ work' = s.work

\* The access left the running processor's local APIC in state a.
\* sync_lapic_events follows.
Access(a) ==
    LET b == [a EXCEPT !.intrPending = FALSE]
    IN  /\ cpu' = [cpu EXCEPT ![slice].lapic = b,
                              ![slice].event = @ \/ a.intrPending]
        /\ latch' = (latch \/ HasSchedulerWork(b))
        /\ UNCHANGED <<work, slice>>

Unmasked(p) == p.pending \ p.mask

\* The processor may execute an instruction: its slice has not been stopped
\* and handle_async_event has nothing more urgent.
Executes == slice # NoCpu /\ ~latch /\ ~cpu[slice].waiting /\ Unmasked(cpu[slice]) = {}

StartSlice(c) == /\ slice = NoCpu
                 /\ ~cpu[c].waiting
                 /\ slice' = c
                 /\ UNCHANGED <<cpu, work, latch>>

WriteIcr(cmd) == Executes /\ Access(SendIpi(slice, cpu[slice].lapic, cmd))
WriteEoi      == Executes /\ Access(ReceiveEoi(cpu[slice].lapic))
WriteTpr(t)   == Executes /\ Access(SetTpr(cpu[slice].lapic, t))

\* handle_async_event, in its order: INIT resets the processor and an
\* application processor's slice ends there; an NMI masks further ones until
\* IRET; then the interrupt.
TakeInit == /\ slice # NoCpu /\ ~latch /\ "init" \in Unmasked(cpu[slice])
            /\ cpu' = [cpu EXCEPT ![slice] = ResetCpu(slice)]
            /\ UNCHANGED <<work, slice, latch>>

TakeNmi == /\ slice # NoCpu /\ ~latch /\ Unmasked(cpu[slice]) = {"nmi"}
           /\ cpu' = [cpu EXCEPT ![slice].pending = @ \ {"nmi"},
                                 ![slice].mask = @ \cup {"nmi"}]
           /\ UNCHANGED <<work, slice, latch>>

Iret == /\ Executes /\ "nmi" \in cpu[slice].mask
        /\ cpu' = [cpu EXCEPT ![slice].mask = @ \ {"nmi"}]
        /\ UNCHANGED <<work, slice, latch>>

TakeInterrupt ==
    /\ Executes /\ cpu[slice].event /\ cpu[slice].lapic.intr
    /\ LET a == Acknowledge(cpu[slice].lapic)
           b == [a EXCEPT !.intrPending = FALSE]
       IN  /\ cpu' = [cpu EXCEPT ![slice].lapic = b, ![slice].event = a.intrPending]
           /\ latch' = HasSchedulerWork(b)
           /\ UNCHANGED <<work, slice>>

\* run_cpu_batch after run_slice: the latch is taken, the mask refreshed, and
\* a boundary follows when one was asked for or the mask shows work.
EndSlice ==
    /\ slice # NoCpu
    /\ LET s == Refresh([cpu |-> cpu, work |-> work], {slice})
       IN  Becomes(IF latch \/ s.work # {} THEN Boundary(s, <<>>) ELSE s)
    /\ slice' = NoCpu
    /\ latch' = FALSE

\* The boundary that commits a round's time, with what the devices sent.
Commit(io) == /\ slice = NoCpu
              /\ Becomes(Boundary([cpu |-> cpu, work |-> work], io))
              /\ UNCHANGED <<slice, latch>>

Next == \/ \E c \in Cpus : StartSlice(c)
        \/ \E cmd \in Commands : WriteIcr(cmd)
        \/ WriteEoi
        \/ \E t \in TprValues : WriteTpr(t)
        \/ TakeInit
        \/ TakeNmi
        \/ Iret
        \/ TakeInterrupt
        \/ EndSlice
        \/ \E m \in Arrivals : Commit(<<m>>)

Spec == Init /\ [][Next]_vars
=============================================================================
