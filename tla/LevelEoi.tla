------------------------------ MODULE LevelEoi ------------------------------
(***************************************************************************)
(* The way of a level-triggered interrupt round the machine: the I/O APIC  *)
(* queues a message, a boundary takes it to the local APIC, the processor  *)
(* takes it and ends it, and the end goes back to the I/O APIC.            *)
(*                                                                         *)
(* There are two local APICs a machine can have.  Its own models hand the  *)
(* vector to IrqFabric::receive_eoi at the boundary                        *)
(* (rusty_box/src/emulator/scheduler.rs), which does nothing.  A           *)
(* hypervisor's exits to vcpu_thread.rs of rusty_box_whp_engine, which     *)
(* calls resample_on_eoi and routes what that queued.  Backend says which  *)
(* the machine has; the hypervisor's, which is not in this repository, is  *)
(* given the operators of LocalApic but for its EOI.                       *)
(*                                                                         *)
(* A processor that left an EOI behind does not run before it is handled.  *)
(* Devices, and with a hypervisor the device thread's own boundaries, may  *)
(* come between.                                                           *)
(***************************************************************************)
EXTENDS IoApic

CONSTANTS ClassSize, MaxVector, NoVector,
          Backend,     \* the local APIC is a hypervisor's
          MaxQueued    \* bound on the messages devices leave for one boundary

L == INSTANCE LocalApic

VARIABLE lapic

evars == <<ioapic, lapic>>

\* The queue has room for what devices leave and two scans.
ASSUME LevelAssumption ==
    /\ Backend \in BOOLEAN
    /\ ClassSize \in Nat \ {0} /\ MaxVector \in Nat /\ NoVector \notin Nat
    /\ Vectors \subseteq 0..MaxVector
    /\ MaxQueued \in Nat /\ MaxQueued + 2 * NPins <= Capacity

\* The entries of level-triggered pins can be delivered, and share no vector
\* with those of edge-triggered ones.
ASSUME RoutesAssumption ==
    \A p, q \in Pins : \A r \in Routes[p], s \in Routes[q] :
        r.level => /\ r.mode # "extint" /\ (r.mode = "lowest" => r.logical)
                   /\ L!Usable(r.vector)
                   /\ s.vector = r.vector => s.level \/ s.mode = "extint"

EInit == Init /\ lapic = L!ResetLapic

-----------------------------------------------------------------------------
\* The messages of queue q reach the local APIC a in their order.
Triggered(a, q) ==
    LET after[k \in 0..Len(q)] ==
          IF k = 0 THEN a
          ELSE L!Trigger(after[k - 1], q[k].vector, q[k].level, q[k].mode = "extint")
    IN  after[Len(q)]

\* Every message is taken and answered; INTR is passed on to the processor.
Settle(io, a) ==
    /\ ioapic' = Answered(io, [i \in DOMAIN io.queue |-> TRUE])
    /\ lapic' = [Triggered(a, io.queue) EXCEPT !.intrPending = FALSE]

\* A boundary.  The machine's own comes with the EOI, if there is one.
EBoundary == /\ ioapic.queue # <<>>
             /\ Backend \/ lapic.eoi = NoVector
             /\ Settle(ioapic, lapic)

\* Bug: the hypervisor's EOI is handled as the model's is.
AtEoiLogged(io, v) == io

\* What the end of vector v does to the I/O APIC: resample_on_eoi for a
\* hypervisor's local APIC, receive_eoi, which only logs, for the model's.
AtEoi(io, v) == IF Backend /\ HasAssertedLevelEntry(io, v) THEN Service(io) ELSE io

EoiHandled == /\ lapic.eoi # NoVector
              /\ Settle(AtEoi(ioapic, lapic.eoi), [lapic EXCEPT !.eoi = NoVector])

Runs == lapic.eoi = NoVector

Take == /\ Runs /\ lapic.intr
        /\ lapic' = [L!Acknowledge(lapic) EXCEPT !.intrPending = FALSE]
        /\ UNCHANGED ioapic

\* The hypervisor's local APIC keeps the trigger mode of a vector until it is
\* requested anew, as hardware does; the model's forgets it at the EOI.
HypervisorEoi(a) ==
    LET v == Max(a.isr)
    IN  L!Service([a EXCEPT !.isr = @ \ {v}, !.eoi = IF v \in a.tmr THEN v ELSE @])

WriteEoi == /\ Runs /\ lapic.isr # {}
            /\ lapic' = [IF Backend THEN HypervisorEoi(lapic) ELSE L!ReceiveEoi(lapic)
                          EXCEPT !.intrPending = FALSE]
            /\ UNCHANGED ioapic

Move(p, level) == /\ Len(ioapic.queue) < MaxQueued
                  /\ SetPin(p, level)
                  /\ UNCHANGED lapic

Write(p) == /\ Runs /\ Len(ioapic.queue) < MaxQueued
            /\ WriteLow(p)
            /\ UNCHANGED lapic

ENext == \/ \E p \in Pins, level \in BOOLEAN : Move(p, level)
         \/ \E p \in Pins : Write(p)
         \/ EBoundary
         \/ EoiHandled
         \/ Take
         \/ WriteEoi

ESpec == EInit /\ [][ENext]_evars

\* Boundaries keep coming, and the guest takes and ends its interrupts.
EFairSpec == /\ ESpec
             /\ WF_evars(EBoundary) /\ WF_evars(EoiHandled)
             /\ WF_evars(Take) /\ WF_evars(WriteEoi)

-----------------------------------------------------------------------------
(* Properties *)

Owing(p) == /\ p \in ioapic.intin \cap ioapic.irr
            /\ ioapic.entry[p].level /\ ~ioapic.entry[p].masked

\* A level line that is still high owes its interrupt: once every message and
\* every EOI has been dealt with, its vector is requested or in service.  An
\* EOI therefore brings the interrupt again while the line is high.
LevelOwed ==
    (ioapic.queue = <<>> /\ lapic.eoi = NoVector) =>
        \A p \in Pins : Owing(p) => ioapic.entry[p].vector \in lapic.irr \cup lapic.isr

\* A device that holds its line, with the guest leaving the entry alone, has
\* its handler run again and again, unless higher ones do: it never waits for
\* another device's edge.
LevelServedAgain ==
    \A p \in Pins :
        []<>(~Owing(p) \/ \E w \in lapic.isr : w >= ioapic.entry[p].vector)
=============================================================================
