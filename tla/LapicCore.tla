----------------------------- MODULE LapicCore -----------------------------
(***************************************************************************)
(* One processor and its local APIC: the guest's accesses, the interrupts  *)
(* that arrive, the acknowledge, and the machine boundary.                 *)
(*                                                                         *)
(* The processor does not look at the local APIC's INTR but at a bit of    *)
(* its event word, which sync_lapic_events (rusty_box/src/cpu/cpu.rs) and  *)
(* the boundary (rusty_box/src/emulator/scheduler.rs) copy there.  An      *)
(* access that leaves work for the boundary latches a request for one, and *)
(* cpu_loop_n_impl returns on that latch before it handles an event or     *)
(* executes another instruction.                                           *)
(*                                                                         *)
(* Whether EFLAGS.IF and the interrupt shadows let the processor look at   *)
(* the event is up to the guest: Take may happen whenever the bit is set.  *)
(* INTR of the 8259 and the processors' messages to each other are in      *)
(* other modules.                                                          *)
(***************************************************************************)
EXTENDS LocalApic

CONSTANTS TprValues,       \* the task priorities the guest writes
          SpuriousValues,  \* the spurious vectors the guest writes
          Extended         \* the model has the extended xAPIC registers

VARIABLES lapic,
          event,      \* BX_EVENT_PENDING_LAPIC_INTR in pending_event
          boundary    \* BX_ASYNC_EVENT_SCHEDULER_BOUNDARY in async_event

vars == <<lapic, event, boundary>>

ASSUME CoreAssumption ==
    /\ TprValues \in SUBSET Nat
    /\ SpuriousValues \in SUBSET (0..MaxVector)
    /\ Extended \in BOOLEAN

TypeOK == /\ lapic \in Registers({}, {})
          /\ event \in BOOLEAN
          /\ boundary \in BOOLEAN

Init == /\ lapic = ResetLapic
        /\ event = FALSE
        /\ boundary = FALSE

-----------------------------------------------------------------------------
\* Bug: no boundary is asked for.
SyncEventOnly(a) == /\ lapic' = [a EXCEPT !.intrPending = FALSE]
                    /\ event' = (event \/ a.intrPending)
                    /\ UNCHANGED boundary

\* sync_lapic_events, after an access that left the local APIC in state a
Sync(a) ==
    LET b == [a EXCEPT !.intrPending = FALSE]
    IN  /\ lapic' = b
        /\ event' = (event \/ a.intrPending)
        /\ boundary' = (boundary \/ HasSchedulerWork(b))

\* The guest's accesses, between two boundaries.
SelfIpi(v, level) == ~boundary /\ Sync(Trigger(lapic, v, level, FALSE))
WriteEoi          == ~boundary /\ Sync(ReceiveEoi(lapic))
WriteSeoi(v)      == ~boundary /\ Extended /\ Sync(ReceiveSeoi(lapic, v))
WriteTpr(t)       == ~boundary /\ Sync(SetTpr(lapic, t))
WriteSvr(v)       == ~boundary /\ Sync(SetSpurious(lapic, v))

\* acknowledge_external_interrupt, as far as the local APIC answers it
Take ==
    /\ ~boundary /\ event /\ lapic.intr
    /\ LET a == Acknowledge(lapic)
           b == [a EXCEPT !.intrPending = FALSE]
       IN  /\ lapic' = b
           /\ event' = a.intrPending
           /\ boundary' = HasSchedulerWork(b)

\* service_scheduler_boundary, with the local APIC in state a once everything
\* has arrived: where there is work, service_lapic_local_events takes the
\* vector to broadcast and passes INTR on; a message passes on what it raised.
Boundary(a) ==
    /\ lapic' = [a EXCEPT !.intrPending = FALSE, !.eoi = NoVector]
    /\ event' = (event \/ a.intrPending \/ (HasSchedulerWork(a) /\ a.intr))
    /\ boundary' = FALSE

\* A boundary that brings nothing, one at which the timer has fired, and one
\* with a message of the I/O APIC or of another processor; "extint" is the
\* delivery mode that bypasses the IRR test.
Commit                 == Boundary(lapic)
TimerFires(v)          == Boundary(Trigger(lapic, v, FALSE, FALSE))
Arrives(v, level, ext) == Boundary(Trigger(lapic, v, level, ext))

\* INIT, or a reset of the machine: the processor's reset
Reset == /\ lapic' = ResetLapic
         /\ event' = FALSE
         /\ boundary' = FALSE

Guest == \/ \E v \in Vectors, level \in BOOLEAN : SelfIpi(v, level)
         \/ WriteEoi
         \/ \E v \in Vectors : WriteSeoi(v)
         \/ \E t \in TprValues : WriteTpr(t)
         \/ \E v \in SpuriousValues : WriteSvr(v)

Machine == \/ Commit
           \/ \E v \in Vectors : TimerFires(v)
           \/ \E v \in Vectors, level, ext \in BOOLEAN : Arrives(v, level, ext)
           \/ Reset

Next == Guest \/ Take \/ Machine

Spec == Init /\ [][Next]_vars

-----------------------------------------------------------------------------
(* Properties *)

\* Two handlers of one priority class never run nested, whatever arrives,
\* whatever the guest writes to the task priority, and in whatever order
\* handlers end.
HandlersOfDistinctClasses == OnePerClass(lapic)

\* No interrupt waits for another event to be noticed: a request above the
\* processor's priority has raised INTR.
NoMissedInterrupt == NoneMissed(lapic)

\* The processor's event bit is the local APIC's INTR, between any two steps:
\* no interrupt is left unsignalled and no event outlives its interrupt.
EventMirrorsIntr == event = lapic.intr /\ ~lapic.intrPending
=============================================================================
