------------------------------- MODULE IoApic -------------------------------
(***************************************************************************)
(* The 82093AA I/O APIC: BxIoApic in rusty_box/src/iodev/ioapic.rs.        *)
(*                                                                         *)
(* A pin has a level (intin), a request (irr) and a redirection entry.     *)
(* The local APICs live on the processors, so a message is queued and      *)
(* routed at the next scheduler boundary, which reports back whether some  *)
(* local APIC took it (complete_deferred_delivery).                        *)
(*                                                                         *)
(* Left out: the identification and select registers, the window's         *)
(* address, and the destination field: which local APIC answers is the     *)
(* environment's choice.  A message in ExtINT mode carries no vector here, *)
(* the 8259 supplies it (module IrqFabric).                                *)
(***************************************************************************)
EXTENDS Integers, Sequences, FiniteSetsExt, ScanOrder

CONSTANTS
    NPins,      \* 24 in the code
    Capacity,   \* IOAPIC_PENDING_DELIVERY_CAPACITY, 256 in the code
    Vectors,    \* the vectors the guest uses, 0 among them
    Routes      \* for each pin, the entries the guest writes to it

Pins  == 0..(NPins - 1)
Modes == {"fixed", "lowest", "extint"}

Route == [masked : BOOLEAN, level : BOOLEAN, mode : Modes,
          logical : BOOLEAN, vector : Vectors]
Entry == [masked : BOOLEAN, level : BOOLEAN, mode : Modes,
          logical : BOOLEAN, vector : Vectors, status : BOOLEAN]
Message == [pin : Pins, level : BOOLEAN, mode : Modes, vector : Vectors]

ASSUME IoApicAssumption ==
    /\ NPins \in Nat \ {0}
    /\ Capacity \in Nat
    /\ 0 \in Vectors
    /\ Routes \in [Pins -> SUBSET Route]

VARIABLE ioapic

TypeOK == /\ ioapic \in [intin : SUBSET Pins, irr : SUBSET Pins,
                         entry : [Pins -> Entry], queue : Seq(Message)]
          /\ Len(ioapic.queue) <= Capacity

\* reset: every entry masked, edge-triggered, physical, vector 0.
ResetEntry == [masked |-> TRUE, level |-> FALSE, mode |-> "fixed",
               logical |-> FALSE, vector |-> 0, status |-> FALSE]

ResetIoApic == [intin |-> {}, irr |-> {},
                entry |-> [p \in Pins |-> ResetEntry], queue |-> <<>>]

Init == ioapic = ResetIoApic

-----------------------------------------------------------------------------
(* The servicing scan.  It visits the pins upwards; what it does to one pin *)
(* depends on the others only through the room left in the queue.           *)

Deliverable(a) == {p \in a.irr : ~a.entry[p].masked}

\* Lowest-priority delivery to a physical destination is rejected by the bus.
Sendable(a) ==
    {p \in Deliverable(a) : a.entry[p].mode = "lowest" => a.entry[p].logical}

\* enqueue_delivery: the pins that still find room.
Sent(a) ==
    {p \in Sendable(a) :
        Len(a.queue) + Cardinality({q \in Sendable(a) : q < p}) < Capacity}

MessageOf(a, p) == [pin |-> p, level |-> a.entry[p].level, mode |-> a.entry[p].mode,
                    vector |-> IF a.entry[p].mode = "extint" THEN 0
                               ELSE a.entry[p].vector]

\* Bug: an edge request is still there after it was sent.
ServiceKeepsEdges(a) ==
    LET order == Upwards(Sent(a))
    IN  [a EXCEPT !.queue = @ \o [i \in 1..Len(order) |-> MessageOf(a, order[i])],
                  !.entry = [p \in Pins |->
                      IF p \in Deliverable(a) THEN [a.entry[p] EXCEPT !.status = TRUE]
                      ELSE a.entry[p]]]

\* service: a sent edge request is consumed; delivery status says in flight
\* or stuck.
Service(a) ==
    LET order == Upwards(Sent(a))
    IN  [a EXCEPT !.queue = @ \o [i \in 1..Len(order) |-> MessageOf(a, order[i])],
                  !.irr = @ \ {p \in Sent(a) : ~a.entry[p].level},
                  !.entry = [p \in Pins |->
                      IF p \in Deliverable(a) THEN [a.entry[p] EXCEPT !.status = TRUE]
                      ELSE a.entry[p]]]

-----------------------------------------------------------------------------
(* Pins *)

\* Bug: a pin whose last message is in flight is taken to be served.
NeedsServiceUnlessInFlight(a, p, level) ==
    /\ level
    /\ p \notin a.intin
    /\ a.entry[p].level \/ ~a.entry[p].masked
    /\ ~a.entry[p].status

\* set_pin_level asks for the scan on a rise of a pin that can be delivered.
NeedsService(a, p, level) ==
    /\ level
    /\ p \notin a.intin
    /\ a.entry[p].level \/ ~a.entry[p].masked

\* set_pin_level, up to the service call: only a change acts, a level pin's
\* request follows its level, and a masked edge is not latched.
MovePin(a, p, level) ==
    IF level = (p \in a.intin) THEN a
    ELSE IF level
    THEN [a EXCEPT !.intin = @ \cup {p},
                   !.irr = IF NeedsService(a, p, level) THEN @ \cup {p} ELSE @]
    ELSE [a EXCEPT !.intin = @ \ {p},
                   !.irr = IF a.entry[p].level THEN @ \ {p} ELSE @]

SetPin(p, level) ==
    ioapic' = IF NeedsService(ioapic, p, level) THEN Service(MovePin(ioapic, p, level))
              ELSE MovePin(ioapic, p, level)

-----------------------------------------------------------------------------
(* The guest's writes, and the way back from the local APICs *)

\* set_lo_part: the two read-only bits, delivery status among them, are lost.
WithRoute(a, p, r) ==
    [a EXCEPT !.entry[p] = [masked |-> r.masked, level |-> r.level, mode |-> r.mode,
                            logical |-> r.logical, vector |-> r.vector,
                            status |-> FALSE]]

\* write_aligned of a low word, then the scan.
WriteLow(p) == \E r \in Routes[p] : ioapic' = Service(WithRoute(ioapic, p, r))

\* write_aligned of a high word: the destination is not modelled, the scan is.
WriteHigh == ioapic' = Service(ioapic)

\* has_asserted_level_entry and resample_on_eoi.  receive_eoi does nothing.
HasAssertedLevelEntry(a, v) ==
    \E p \in a.irr : a.entry[p].vector = v /\ a.entry[p].level

ResampleOnEoi(v) == /\ HasAssertedLevelEntry(ioapic, v)
                    /\ ioapic' = Service(ioapic)

\* The last message of pin p in the queue among those that M selects.
LastOf(q, p, M(_)) ==
    LET at == {i \in DOMAIN q : q[i].pin = p /\ M(q[i])}
    IN  IF at = {} THEN 0 ELSE Max(at)

IsEdge(m) == ~m.level
IsAny(m)  == TRUE

\* take_pending_deliveries, then complete_deferred_delivery for each message
\* in turn: an edge message that nobody took becomes a request again.  The
\* last answer for a pin stands.
Answered(a, done) ==
    [a EXCEPT
        !.queue = <<>>,
        !.irr = {p \in Pins : LET i == LastOf(a.queue, p, IsEdge)
                              IN  IF i = 0 THEN p \in a.irr ELSE ~done[i]},
        !.entry = [p \in Pins |-> LET i == LastOf(a.queue, p, IsAny)
                                  IN  IF i = 0 THEN a.entry[p]
                                      ELSE [a.entry[p] EXCEPT !.status = ~done[i]]]]

Deliver(done) == /\ ioapic.queue # <<>>
                 /\ ioapic' = Answered(ioapic, done)

Reset == ioapic' = ResetIoApic

Answers == [DOMAIN ioapic.queue -> BOOLEAN]

Next == \/ \E p \in Pins, level \in BOOLEAN : SetPin(p, level)
        \/ \E p \in Pins : WriteLow(p)
        \/ WriteHigh
        \/ \E v \in Vectors : ResampleOnEoi(v)
        \/ \E done \in Answers : Deliver(done)
        \/ Reset

Spec == Init /\ [][Next]_ioapic

=============================================================================
