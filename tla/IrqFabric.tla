----------------------------- MODULE IrqFabric -----------------------------
(***************************************************************************)
(* The interrupt fabric, IrqFabric in rusty_box/src/iodev/irq.rs: the 8259 *)
(* pair and the I/O APIC driven together.  A device that moves an ISA line *)
(* moves the I/O APIC pin in the same call, if the 8259 reports that the   *)
(* edge crossed.  In the other direction the I/O APIC's servicing scan     *)
(* acknowledges the 8259 for every entry in ExtINT mode.                   *)
(*                                                                         *)
(* The pair is module Pic8259, the I/O APIC module IoApic.                 *)
(***************************************************************************)
EXTENDS Pic8259, Sequences

CONSTANTS NPins, Capacity, Vectors, Routes   \* see IoApic
VARIABLE ioapic

Apic == INSTANCE IoApic

\* The ISA lines have the first pins; the others have no 8259 line.
ApicPins == (2 * NLines)..(NPins - 1)

ASSUME FabricAssumption == NPins \in Nat /\ NPins >= 2 * NLines

fabric == <<pic, ioapic>>

FabricInit == Init /\ Apic!Init

\* The pin of an ISA line: line 0, the timer, is on the pin that the cascade
\* leaves free (set_pin_level).
PinOf(ch, line) ==
    IF ch = "slave" THEN NLines + line ELSE IF line = 0 THEN Cascade ELSE line

IsaLines == (Chips \X Lines) \ {<<"master", Cascade>>}

-----------------------------------------------------------------------------
\* k acknowledge cycles, one for every ExtINT entry the scan delivers.
Acknowledged(p, k) ==
    LET after[n \in 0..k] == IF n = 0 THEN p ELSE Iac(after[n - 1])
    IN  after[k]

ExtInts(a) == {p \in Apic!Deliverable(a) : a.entry[p].mode = "extint"}

\* service_ioapic, with the pair in state p and the I/O APIC in state a.
ServiceIoApic(p, a) ==
    /\ pic' = Acknowledged(p, Cardinality(ExtInts(a)))
    /\ ioapic' = Apic!Service(a)

\* set_ioapic_pin
DrivePin(p, pin, level) ==
    LET a == Apic!MovePin(ioapic, pin, level)
    IN  IF Apic!NeedsService(ioapic, pin, level) THEN ServiceIoApic(p, a)
        ELSE pic' = p /\ ioapic' = a

\* Bug: the fall of a line is forwarded only while its request stands.
CrossedOnRequest(ch, line, level) == level # (line \in pic[ch].irr)

\* IoApicEdge, the answer of raise_irq and lower_irq: a raise crosses when
\* the request bit was clear, a fall when the line was high.
Crossed(ch, line, level) ==
    IF level THEN line \notin pic[ch].irr ELSE line \in pic[ch].irqIn

\* set_isa_level
SetIsaLevel(ch, line, level) ==
    LET p == IF level THEN RaiseLine(pic, ch, line) ELSE LowerLine(pic, ch, line)
    IN  IF Crossed(ch, line, level) THEN DrivePin(p, PinOf(ch, line), level)
        ELSE pic' = p /\ UNCHANGED ioapic

IsaLine == \E l \in Driven, level \in BOOLEAN : SetIsaLevel(l[1], l[2], level)

\* A timer wired straight to the I/O APIC (drain_hpet_pending).
ApicPin == \E pin \in ApicPins, level \in BOOLEAN : DrivePin(pic, pin, level)

\* mmio_write of a redirection entry: the low word, then the high word.
MmioWrite == \/ \E pin \in Apic!Pins : \E r \in Routes[pin] :
                  ServiceIoApic(pic, Apic!WithRoute(ioapic, pin, r))
             \/ ServiceIoApic(pic, ioapic)

\* resample_on_eoi
ResampleOnEoi == \E v \in Vectors : /\ Apic!HasAssertedLevelEntry(ioapic, v)
                                    /\ ServiceIoApic(pic, ioapic)

\* The boundary routes the queued messages and reports each answer.
Route == /\ \E done \in Apic!Answers : Apic!Deliver(done)
         /\ UNCHANGED pic

\* Ports of the 8259, its acknowledge and its flags leave the I/O APIC alone.
PicAccess == /\ Inta \/ TakeLevel \/ \E ch \in Chips : GuestWrite(ch)
             /\ UNCHANGED ioapic

\* DeviceManager::reset resets the pair, then the I/O APIC.
ResetFabric == Reset /\ Apic!Reset

FabricNext == IsaLine \/ ApicPin \/ MmioWrite \/ ResampleOnEoi \/ Route
                \/ PicAccess \/ ResetFabric

FabricSpec == FabricInit /\ [][FabricNext]_fabric

-----------------------------------------------------------------------------
(* Properties *)

\* The two controllers never disagree about a line, acknowledges, masks,
\* ExtINT entries and half-programmed chips included (what the fabric exists
\* for).  The 8259 forwards a raise by its request bit and a fall by its
\* line, so this rests on a request never outliving its line.
LinesAgree ==
    \A l \in IsaLines : l[2] \in pic[l[1]].irqIn <=> PinOf(l[1], l[2]) \in ioapic.intin
=============================================================================
