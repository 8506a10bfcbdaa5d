------------------------------ MODULE Pic8259 ------------------------------
(***************************************************************************)
(* The pair of 8259 interrupt controllers: BxPicC in rusty_box/src/pic.rs. *)
(*                                                                         *)
(* A register of a chip (IRR, ISR, IMR, ELCR) is the set of lines whose    *)
(* bit is set, and irqIn the set of input lines held high.  The slave's    *)
(* INT output drives line Cascade of the master from inside the slave's    *)
(* own service routine, so one call can change both chips; the operators   *)
(* below therefore map the state of the pair to the next state of the pair *)
(* and follow the calls of the code one by one.                            *)
(*                                                                         *)
(* Left out: the vector base of ICW2, the buffered and fully nested bits   *)
(* of ICW4 and the register a command-port read selects, which nothing     *)
(* here depends on.  A vector is the chip and line it stands for.          *)
(***************************************************************************)
EXTENDS Integers, FiniteSets

CONSTANTS
    NLines,        \* inputs of one chip, 8 in the code
    Cascade,       \* the master's line driven by the slave, 2 in the code
    MaskValues,    \* the interrupt masks the guest writes
    LevelModes,    \* the edge/level registers the guest writes
    Guests,        \* for each guest considered, the registers it writes
    DeviceLines    \* for each guest, the <<chip, line>> pairs its devices drive

Lines == 0..(NLines - 1)
Chips == {"master", "slave"}

ASSUME PicAssumption ==
    /\ NLines \in Nat \ {0}
    /\ Cascade \in Lines
    /\ DeviceLines \in [Guests -> SUBSET ((Chips \X Lines) \ {<<"master", Cascade>>})]
    /\ MaskValues \subseteq SUBSET Lines
    /\ LevelModes \subseteq SUBSET (Lines \ {Cascade})

VARIABLE pic   \* [master, slave: the chips; irqPending, irqCleared: the flags;
               \*  commands: the registers the guest at work writes]

Chip == [irqIn : SUBSET Lines, irr : SUBSET Lines, isr : SUBSET Lines,
         imr : SUBSET Lines, edgeLevel : SUBSET Lines,
         lowest : Lines, irq : Lines, intPin : BOOLEAN,
         specialMask : BOOLEAN, polled : BOOLEAN,
         autoEoi : BOOLEAN, rotateOnAutoEoi : BOOLEAN,
         inInit : BOOLEAN, requires4 : BOOLEAN, byteExpected : {0, 2, 3, 4}]

TypeOK == pic \in [master : Chip, slave : Chip,
                   irqPending : BOOLEAN, irqCleared : BOOLEAN, commands : Guests]

\* Pic8259State::default and reset: every line masked, nothing latched.
ResetChip ==
    [irqIn |-> {}, irr |-> {}, isr |-> {}, imr |-> Lines, edgeLevel |-> {},
     lowest |-> NLines - 1, irq |-> 0, intPin |-> FALSE,
     specialMask |-> FALSE, polled |-> FALSE,
     autoEoi |-> FALSE, rotateOnAutoEoi |-> FALSE,
     inInit |-> FALSE, requires4 |-> FALSE, byteExpected |-> 0]

Init == \E commands \in Guests :
            pic = [master |-> ResetChip, slave |-> ResetChip, commands |-> commands,
                   irqPending |-> FALSE, irqCleared |-> FALSE]

-----------------------------------------------------------------------------
(* Priorities.  The line after `lowest' comes first, then upwards, wrapping. *)

After(line) == (line + 1) % NLines
Rank(c, line) == (line + NLines - 1 - c.lowest) % NLines
Foremost(c, S) == CHOOSE i \in S : \A j \in S : Rank(c, i) <= Rank(c, j)

\* Requests that the mask register lets through.
Requests(c) == c.irr \ c.imr

\* Requests service() may signal: those ahead of every line in service or, in
\* special mask mode, those that are not in service themselves.
Candidates(c) ==
    {i \in Requests(c) : IF c.specialMask THEN i \notin c.isr
                         ELSE \A j \in c.isr : Rank(c, i) < Rank(c, j)}

\* Bug: the scan starts one line too late.
ClearHighestButFirst(c) ==
    LET isr == c.isr \ {After(c.lowest)}
    IN  IF isr = {} THEN c ELSE [c EXCEPT !.isr = @ \ {Foremost(c, isr)}]

\* clear_highest_interrupt
ClearHighest(c) ==
    IF c.isr = {} THEN c ELSE [c EXCEPT !.isr = @ \ {Foremost(c, c.isr)}]

\* Bug: lines in service are not looked at.
ServiceIgnoringIsr(c) ==
    IF Requests(c) = {} THEN [c EXCEPT !.intPin = FALSE]
    ELSE IF c.intPin THEN c
    ELSE [c EXCEPT !.intPin = TRUE, !.irq = Foremost(c, Requests(c))]

\* Pic8259State::service: raise INT for the first candidate, or drop it when
\* no request is left.  It leaves the pin alone when the line of highest
\* priority is in service, and when INT is already up.
Service(c) ==
    IF ~c.specialMask /\ After(c.lowest) \in c.isr THEN c
    ELSE IF Requests(c) = {} THEN [c EXCEPT !.intPin = FALSE]
    ELSE IF c.intPin \/ Candidates(c) = {} THEN c
    ELSE [c EXCEPT !.intPin = TRUE, !.irq = Foremost(c, Candidates(c))]

-----------------------------------------------------------------------------
(* The pair.  Each operator takes the pair p and returns it changed. *)

\* Bug: a fall of INT is not noted.
ServiceMasterSilent(p) ==
    LET m == Service(p.master)
    IN  [p EXCEPT !.master = m,
                  !.irqPending = @ \/ (m.intPin /\ ~p.master.intPin)]

\* service_pic_dispatch on the master: a change of INT is noted for the CPU.
ServiceMaster(p) ==
    LET m == Service(p.master)
    IN  [p EXCEPT !.master = m,
                  !.irqPending = @ \/ (m.intPin /\ ~p.master.intPin),
                  !.irqCleared = @ \/ (~m.intPin /\ p.master.intPin)]

\* raise_irq on the master: only a line whose IRR bit is clear is serviced.
RaiseMaster(p, line) ==
    LET q == [p EXCEPT !.master.irqIn = @ \cup {line}]
    IN  IF line \in p.master.irr THEN q
        ELSE ServiceMaster([q EXCEPT !.master.irr = @ \cup {line}])

\* Bug: the request outlives its line.
LowerMasterKeepsRequest(p, line) == [p EXCEPT !.master.irqIn = @ \ {line}]

\* lower_irq on the master: no service follows, INT stays as it is.
LowerMaster(p, line) ==
    IF line \notin p.master.irqIn THEN p
    ELSE [p EXCEPT !.master.irqIn = @ \ {line}, !.master.irr = @ \ {line}]

\* service_pic_dispatch on the slave, with set_cascade_line.
ServiceSlave(p) ==
    LET s == Service(p.slave)
        q == [p EXCEPT !.slave = s]
    IN  IF s.intPin = p.slave.intPin THEN q
        ELSE IF s.intPin THEN RaiseMaster(q, Cascade)
        ELSE LowerMaster(q, Cascade)

ServiceChip(p, ch) == IF ch = "master" THEN ServiceMaster(p) ELSE ServiceSlave(p)

\* raise_irq and lower_irq
RaiseLine(p, ch, line) ==
    IF ch = "master" THEN RaiseMaster(p, line)
    ELSE LET q == [p EXCEPT !.slave.irqIn = @ \cup {line}]
         IN  IF line \in p.slave.irr THEN q
             ELSE ServiceSlave([q EXCEPT !.slave.irr = @ \cup {line}])

LowerLine(p, ch, line) ==
    IF ch = "master" THEN LowerMaster(p, line)
    ELSE IF line \notin p.slave.irqIn THEN p
    ELSE [p EXCEPT !.slave.irqIn = @ \ {line}, !.slave.irr = @ \ {line}]

\* What an acknowledge does to the chip whose winning line is taken: an edge
\* request is consumed, and the line goes in service unless EOI is automatic.
Take(c) ==
    [c EXCEPT !.irr = IF c.irq \in c.edgeLevel THEN @ ELSE @ \ {c.irq},
              !.isr = IF c.autoEoi THEN @ ELSE @ \cup {c.irq},
              !.lowest = IF c.autoEoi /\ c.rotateOnAutoEoi THEN c.irq ELSE @]

\* iac.  Both spurious answers return before the service calls at the end.
Iac(p) ==
    LET dropped == [p EXCEPT !.irqCleared = TRUE, !.master.intPin = FALSE]
        taken   == [dropped EXCEPT !.master = Take(@)]
        cascade == [taken EXCEPT !.slave.intPin = FALSE,
                                 !.master.irqIn = @ \ {Cascade}]
    IN  IF Requests(p.master) = {} THEN dropped
        ELSE IF p.master.irq # Cascade THEN ServiceMaster(taken)
        ELSE IF Requests(p.slave) = {} THEN cascade
        ELSE ServiceMaster(ServiceSlave([cascade EXCEPT !.slave = Take(@)]))

-----------------------------------------------------------------------------
(* Devices drive lines, the CPU acknowledges. *)

Driven == DeviceLines[pic.commands]

RaiseIrq == \E l \in Driven : pic' = RaiseLine(pic, l[1], l[2])
LowerIrq == \E l \in Driven : pic' = LowerLine(pic, l[1], l[2])

\* acknowledge_external_interrupt reaches iac only while INT is up.
Inta == /\ pic.master.intPin
        /\ pic' = Iac(pic)

\* The flags are consumed when the pin's level is read: by the I/O dispatch
\* (take_pic_level_after_dispatch) and by sync_final_event_levels.
TakeLevel == /\ pic.irqPending \/ pic.irqCleared
             /\ pic' = [pic EXCEPT !.irqPending = FALSE, !.irqCleared = FALSE]

(* The guest programs the chips. *)

\* Bug: the slave's INT falls and its cascade line stays high.
StartInitKeepsCascade(p, ch, icw4) ==
    [p EXCEPT ![ch] =
        [@ EXCEPT !.inInit = TRUE, !.requires4 = icw4, !.byteExpected = 2,
                  !.imr = {}, !.isr = {}, !.irr = {}, !.lowest = NLines - 1,
                  !.autoEoi = FALSE, !.rotateOnAutoEoi = FALSE, !.intPin = FALSE],
              !.irqCleared = @ \/ ch = "master"]

\* write_cmd, ICW1.  The slave's INT falls with its chip, so its cascade line
\* is dropped on the master, whose IRR keeps the bit.
StartInit(p, ch, icw4) ==
    LET q == [p EXCEPT ![ch] =
                [@ EXCEPT !.inInit = TRUE, !.requires4 = icw4, !.byteExpected = 2,
                          !.imr = {}, !.isr = {}, !.irr = {}, !.lowest = NLines - 1,
                          !.autoEoi = FALSE, !.rotateOnAutoEoi = FALSE,
                          !.intPin = FALSE]]
    IN  IF ch = "master" THEN [q EXCEPT !.irqCleared = TRUE]
        ELSE [q EXCEPT !.master.irqIn = @ \ {Cascade}]

Icw1(ch) == /\ "icw1" \in pic.commands
            /\ \E icw4 \in BOOLEAN : pic' = StartInit(pic, ch, icw4)

\* write_data in the initialisation sequence: ICW2, ICW3 and, if ICW1 asked
\* for it, ICW4, whose bit 1 is automatic EOI.
WriteIcw(ch) ==
    LET c    == pic[ch]
        more == c.byteExpected = 2 \/ (c.byteExpected = 3 /\ c.requires4)
    IN  /\ c.inInit
        /\ \E auto \in BOOLEAN :
             pic' = [pic EXCEPT ![ch] =
                [c EXCEPT !.byteExpected = IF more THEN @ + 1 ELSE @,
                          !.inInit = more,
                          !.autoEoi = IF c.byteExpected = 4 THEN auto ELSE @]]

\* write_data outside it: the mask register, then service.
WriteMask(ch) ==
    /\ "mask" \in pic.commands
    /\ ~pic[ch].inInit
    /\ \E mask \in MaskValues :
         pic' = ServiceChip([pic EXCEPT ![ch].imr = mask], ch)

\* write_ocw2, end of interrupt: 0x20 and 0xA0, then 0x60+n and 0xE0+n.
Eoi(p, ch, rotate) ==
    LET c == ClearHighest(p[ch])
    IN  ServiceChip([p EXCEPT ![ch] =
            IF rotate THEN [c EXCEPT !.lowest = After(@)] ELSE c], ch)

SpecificEoi(p, ch, line, rotate) ==
    ServiceChip([p EXCEPT ![ch].isr = @ \ {line},
                          ![ch].lowest = IF rotate THEN line ELSE @], ch)

Ocw2Eoi(ch) ==
    \/ "eoi" \in pic.commands /\ pic' = Eoi(pic, ch, FALSE)
    \/ "rotate" \in pic.commands /\ pic' = Eoi(pic, ch, TRUE)
    \/ "specific" \in pic.commands /\ \E line \in Lines : pic' = SpecificEoi(pic, ch, line, FALSE)
    \/ "rotate" \in pic.commands /\ \E line \in Lines : pic' = SpecificEoi(pic, ch, line, TRUE)

\* write_ocw2, the commands that move no request: 0xC0+n, and 0x80 or 0x00.
Ocw2Priority(ch) ==
    \/ "priority" \in pic.commands
       /\ \E line \in Lines : pic' = [pic EXCEPT ![ch].lowest = line]
    \/ "auto" \in pic.commands
       /\ \E on \in BOOLEAN : pic' = [pic EXCEPT ![ch].rotateOnAutoEoi = on]

\* write_cmd, OCW3: a poll request returns before the special-mask bits.
Ocw3(ch) ==
    \/ "poll" \in pic.commands /\ pic' = [pic EXCEPT ![ch].polled = TRUE]
    \/ "special" \in pic.commands /\ pic' = [pic EXCEPT ![ch].specialMask = FALSE]
    \/ "special" \in pic.commands
       /\ pic' = ServiceChip([pic EXCEPT ![ch].specialMask = TRUE], ch)

\* Bug: the poll takes the request without servicing the chip.
PollReadWithoutService(ch) ==
    /\ pic[ch].polled
    /\ pic' = [pic EXCEPT ![ch] = [ClearHighest(@) EXCEPT !.polled = FALSE]]

\* read, of a port of a chip that was polled.
PollRead(ch) ==
    /\ pic[ch].polled
    /\ pic' = ServiceChip([pic EXCEPT ![ch] =
                 [ClearHighest(@) EXCEPT !.polled = FALSE]], ch)

\* set_mode: the PIIX bridge forwards its edge/level registers.
SetMode(ch) ==
    /\ "elcr" \in pic.commands
    /\ \E mode \in LevelModes : pic' = [pic EXCEPT ![ch].edgeLevel = mode]

\* reset: the two flags survive it.
Reset == pic' = [pic EXCEPT !.master = ResetChip, !.slave = ResetChip]

GuestWrite(ch) ==
    Icw1(ch) \/ WriteIcw(ch) \/ WriteMask(ch) \/ Ocw2Eoi(ch) \/ Ocw2Priority(ch)
      \/ Ocw3(ch) \/ PollRead(ch) \/ SetMode(ch)

Next == \/ RaiseIrq \/ LowerIrq \/ Inta \/ TakeLevel \/ Reset
        \/ \E ch \in Chips : GuestWrite(ch)

Spec == Init /\ [][Next]_pic

(* A processor with interrupts enabled answers INT, and a guest that only    *)
(* uses the non-specific EOI ends every handler with one.                    *)

EndHandler(ch) == /\ pic.commands \subseteq {"mask", "eoi", "elcr"}
                  /\ pic[ch].isr # {}
                  /\ pic' = Eoi(pic, ch, FALSE)

HandlerSpec == /\ Spec
               /\ WF_pic(Inta)
               /\ \A ch \in Chips : WF_pic(EndHandler(ch))

-----------------------------------------------------------------------------
(* Properties *)

\* The slave's INT output and the master's cascade input are one wire.  The
\* code keeps them in two places (int_pin, irq_in[2]) and moves them apart in
\* iac, in ICW1 and in the slave's service call: a wire left high without INT
\* would swallow the slave's next request, INT left up would never raise one.
CascadeWired == pic.slave.intPin <=> Cascade \in pic.master.irqIn

\* A request stands only while its line is high: lower_irq takes the IRR bit
\* with the line, and no command leaves one behind that no device asserts.
\* The cascade is the exception: ICW1 to the slave drops the line alone.
RequestsBacked ==
    /\ pic.slave.irr \subseteq pic.slave.irqIn
    /\ pic.master.irr \ {Cascade} \subseteq pic.master.irqIn

\* While INT is up, the line it was raised for is not in service: an
\* acknowledge never starts a handler for a line whose handler is running.
WinnerNotInService ==
    \A ch \in Chips : pic[ch].intPin => pic[ch].irq \notin pic[ch].isr

\* A request service() would signal is being signalled, unless a spurious
\* acknowledge of the slave left the master unserviced: then the cascade line
\* is in service, whose EOI services the master, or EOI is automatic.  A guest
\* that sets priorities (OCW2 0xC0) is not promised this: that command alone
\* is not followed by a service call.
NoMissedRequest ==
    "priority" \notin pic.commands =>
        \A ch \in Chips :
            ~pic[ch].intPin /\ Candidates(pic[ch]) # {} =>
                ch = "master" /\ (Cascade \in pic.master.isr \/ pic.master.autoEoi)

\* The pair implements IntPin: whatever is raised, acknowledged or programmed,
\* INT never moves without leaving irq_pending or irq_cleared behind for the
\* reader of the level.  The one exception is a reset, which says nothing.
Output == INSTANCE IntPin WITH pin <- pic.master.intPin,
                               irqPending <- pic.irqPending,
                               irqCleared <- pic.irqCleared

PinContract == Output!PinInit /\ [][Output!PinNext \/ Reset]_(Output!pinVars)

\* Line 0 of the master, the timer, is answered, withdrawn or masked, whatever
\* the other lines do: iac and each EOI service the chip again, so a request
\* that arrived while its own handler ran is signalled when that handler ends.
TimerServed ==
    (0 \in Requests(pic.master) /\ pic.commands \subseteq {"mask", "eoi", "elcr"})
        ~> 0 \notin Requests(pic.master)
=============================================================================
