----------------------------- MODULE LocalApic -----------------------------
(***************************************************************************)
(* The registers of one local APIC that decide which interrupt its         *)
(* processor takes, and the slots that hold work for the next machine      *)
(* boundary: BxLocalApic in rusty_box/src/cpu/apic.rs.  Every operator     *)
(* maps the state a of a local APIC to its next state.                     *)
(*                                                                         *)
(* IRR, ISR and TMR are sets of vectors; a vector's priority class is its  *)
(* quotient by ClassSize (16 in the code, so that the class is the high    *)
(* nibble).  Class 0 holds the vectors no interrupt may use.               *)
(*                                                                         *)
(* Left out: the interrupt enable register of the extended xAPIC, which a  *)
(* processor has only on some models, the error status register, and the   *)
(* timers.                                                                 *)
(***************************************************************************)
EXTENDS Integers, Sequences, FiniteSetsExt

CONSTANTS ClassSize,   \* vectors of one priority class
          MaxVector,   \* the highest vector there is, 255 in the code
          Vectors,     \* the vectors in use
          NoVector     \* an empty slot

ASSUME LapicAssumption ==
    /\ ClassSize \in Nat \ {0}
    /\ MaxVector \in Nat
    /\ Vectors \in SUBSET (0..MaxVector)
    /\ NoVector \notin Nat

Class(v) == v \div ClassSize

\* BX_LAPIC_FIRST_VECTOR
Usable(v) == Class(v) > 0

\* The part of a local APIC's state that its own operations touch.
Registers(Ipi, CpuEvent) ==
    [irr : SUBSET Vectors, isr : SUBSET Vectors, tmr : SUBSET Vectors,
     tpr : Nat, spurious : 0..MaxVector, intr : BOOLEAN, intrPending : BOOLEAN,
     eoi : Vectors \cup {NoVector}, ipis : Seq(Ipi), events : Seq(CpuEvent)]

\* reset
ResetLapic ==
    [irr |-> {}, isr |-> {}, tmr |-> {}, tpr |-> 0, spurious |-> MaxVector,
     intr |-> FALSE, intrPending |-> FALSE,
     eoi |-> NoVector, ipis |-> <<>>, events |-> <<>>]

\* has_scheduler_work, without the timer's two requests
HasSchedulerWork(a) ==
    \/ a.ipis # <<>>
    \/ a.events # <<>>
    \/ a.eoi # NoVector
    \/ a.intrPending

-----------------------------------------------------------------------------
(* Priorities *)

\* get_ppr
Ppr(a) == IF a.isr = {} THEN a.tpr
          ELSE IF Class(a.tpr) >= Class(Max(a.isr)) THEN a.tpr
          ELSE Class(Max(a.isr)) * ClassSize

\* What acknowledge_int answers with a real vector: the highest request, when
\* its class is above the processor's priority.
Deliverable(a) == a.irr # {} /\ Class(Max(a.irr)) * ClassSize > Ppr(a)

\* service_local_apic raises INTR for the highest request when it is above
\* every vector in service and its class is above the task priority's.
Signals(a) == /\ a.irr # {}
              /\ a.isr # {} => Max(a.irr) > Max(a.isr)
              /\ Class(Max(a.irr)) > Class(a.tpr)

Service(a) ==
    IF ~a.intr /\ Signals(a)
    THEN [a EXCEPT !.intr = TRUE, !.intrPending = TRUE]
    ELSE a

-----------------------------------------------------------------------------
(* Requests *)

\* Bug: the request is latched but not looked at.
TriggerSilently(a, v, level, bypass) ==
    IF ~Usable(v) \/ (v \in a.irr /\ ~bypass) THEN a
    ELSE [a EXCEPT !.irr = @ \cup {v},
                   !.tmr = IF level THEN @ \cup {v} ELSE @ \ {v}]

\* trigger_irq: a vector already requested is not accepted again, unless the
\* message is an ExtINT, which bypasses the test.
Trigger(a, v, level, bypass) ==
    IF ~Usable(v) \/ (v \in a.irr /\ ~bypass) THEN a
    ELSE Service([a EXCEPT !.irr = @ \cup {v},
                           !.tmr = IF level THEN @ \cup {v} ELSE @ \ {v}])

\* acknowledge_int: with nothing deliverable the answer is the spurious vector
\* and INTR drops; INTR is not looked at again.
Acknowledge(a) ==
    IF ~Deliverable(a) THEN [a EXCEPT !.intr = FALSE]
    ELSE Service([a EXCEPT !.irr = @ \ {Max(a.irr)}, !.isr = @ \cup {Max(a.irr)},
                           !.intr = FALSE])

\* set_tpr
SetTpr(a, t) == LET b == [a EXCEPT !.tpr = t]
                IN  IF t < a.tpr THEN Service(b) ELSE b

\* write_spurious_interrupt_register
SetSpurious(a, v) == [a EXCEPT !.spurious = v]

-----------------------------------------------------------------------------
(* End of interrupt *)

\* Bug: nothing looks for what the handler held back.
EndVectorSilently(a, v) == [a EXCEPT !.isr = @ \ {v},
                                     !.eoi = IF v \in a.tmr THEN v ELSE @,
                                     !.tmr = @ \ {v}]

\* The vector leaves service; a level-triggered one is left for the boundary
\* to broadcast to the I/O APIC, in the one slot there is.
EndVector(a, v) ==
    Service([a EXCEPT !.isr = @ \ {v},
                      !.eoi = IF v \in a.tmr THEN v ELSE @,
                      !.tmr = @ \ {v}])

\* Bug: the oldest handler is ended, not the one that runs.
ReceiveEoiLowest(a) ==
    IF a.isr = {} \/ Min(a.isr) = a.spurious THEN a ELSE EndVector(a, Min(a.isr))

\* Bug: a level-triggered vector stays in service until somebody else ends it.
ReceiveEoiEdgesOnly(a) ==
    IF a.isr = {} \/ Max(a.isr) \in a.tmr \cup {a.spurious} THEN a
    ELSE EndVector(a, Max(a.isr))

\* receive_eoi: the highest vector in service ends.  The spurious vector is
\* never in service as far as EOI is concerned.
ReceiveEoi(a) ==
    IF a.isr = {} \/ Max(a.isr) = a.spurious THEN a ELSE EndVector(a, Max(a.isr))

\* receive_seoi, where the model has the extended registers
ReceiveSeoi(a, v) == IF v \in a.isr THEN EndVector(a, v) ELSE a

-----------------------------------------------------------------------------
(* What keeps interrupts from being lost or nested wrongly *)

\* No two handlers of one priority class are in service together.
OnePerClass(a) == \A v, w \in a.isr : Class(v) = Class(w) => v = w

\* A request the processor's priority admits has raised INTR.
NoneMissed(a) == Deliverable(a) => a.intr
=============================================================================
