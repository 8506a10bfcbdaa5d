---------------------------- MODULE MCLapicCore ----------------------------
(***************************************************************************)
(* Vectors of two priority classes, two in each, and two history           *)
(* variables: nest, the handlers the processor has entered and not ended,  *)
(* innermost last, and ended, the level-triggered vectors whose end no     *)
(* boundary has broadcast yet.                                             *)
(***************************************************************************)
EXTENDS LapicCore, Functions

VARIABLES nest, ended

hvars == <<vars, nest, ended>>

HInit == Init /\ nest = <<>> /\ ended = {}

\* The handlers of s but the i-th
Without(s, i) == SubSeq(s, 1, i - 1) \o SubSeq(s, i + 1, Len(s))

\* An end of interrupt ends the innermost handler; a specific one its own.
HGuest == /\ Guest
          /\ LET gone == lapic.isr \ lapic'.isr
                 at   == IF WriteEoi THEN Len(nest)
                         ELSE CHOOSE i \in 1..Len(nest) : nest[i] \in gone
             IN  /\ nest' = IF gone = {} THEN nest ELSE Without(nest, at)
                 /\ ended' = ended \cup (gone \cap lapic.tmr)

HTake == /\ Take
         /\ LET entered == lapic'.isr \ lapic.isr
            IN  nest' = IF entered = {} THEN nest
                        ELSE nest \o <<CHOOSE v \in entered : TRUE>>
         /\ UNCHANGED ended

HMachine == /\ Machine
            /\ nest' = IF lapic' = ResetLapic THEN <<>> ELSE nest
            /\ ended' = IF lapic' = ResetLapic THEN {} ELSE ended \ {lapic.eoi}

HNext == HGuest \/ HTake \/ HMachine

HSpec == HInit /\ [][HNext]_hvars

\* The guest takes interrupts and ends them, and boundaries keep coming.
FairSpecH == HSpec /\ WF_vars(Take) /\ WF_vars(WriteEoi) /\ WF_vars(Commit)

\* An end of interrupt ends the handler that runs: the vectors in service are
\* those of the handlers entered and not ended, and each interrupted one of a
\* lower class.
EoiEndsInnermost ==
    /\ Range(nest) = lapic.isr
    /\ \A i \in 1..(Len(nest) - 1) : Class(nest[i]) < Class(nest[i + 1])

\* The end of a level-triggered interrupt always reaches the I/O APIC: the one
\* slot that holds it is never overwritten before a boundary has emptied it.
NoEoiLost == ended \subseteq {lapic.eoi}

\* A request of the highest vector is taken, or the task priority is raised:
\* with the guest ending its handlers, in whatever order, it never waits for an
\* interrupt that is not there to come.
TopServed == []<>(Max(Vectors) \notin lapic.irr \/ lapic.tpr # 0)
=============================================================================
