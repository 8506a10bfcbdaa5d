------------------------------ MODULE MCIoApic ------------------------------
(***************************************************************************)
(* Two pins: one the guest programs edge-triggered, one level-triggered.   *)
(* The history variables count, for each pin, the rising edges that were   *)
(* latched and the messages that a local APIC took, up to MaxEdges edges,  *)
(* and remember the pins that a full queue, or a destination that did not  *)
(* take the message, touched.                                              *)
(***************************************************************************)
EXTENDS IoApic

CONSTANT MaxEdges

VARIABLES edges, accepted, spoiled

hvars == <<ioapic, edges, accepted, spoiled>>

Fixed(masked, level, v) == [masked |-> masked, level |-> level, mode |-> "fixed",
                            logical |-> FALSE, vector |-> v]
EdgeRoutes  == {Fixed(m, FALSE, 1) : m \in BOOLEAN}
                 \cup {[Fixed(FALSE, FALSE, 1) EXCEPT !.mode = "lowest"]}
LevelRoutes == {Fixed(m, TRUE, 2) : m \in BOOLEAN}
                 \cup {[Fixed(FALSE, TRUE, 2) EXCEPT !.mode = "lowest"]}
OneOfEach == [p \in Pins |-> IF p = 0 THEN EdgeRoutes ELSE LevelRoutes]

HInit == /\ Init
         /\ edges = [p \in Pins |-> 0]
         /\ accepted = [p \in Pins |-> 0]
         /\ spoiled = {}

\* Pins whose edge is left behind: they found the queue full, or name a
\* destination that the bus rejects.
Left(a) == {p \in a.irr : ~a.entry[p].level /\ ~a.entry[p].masked}

Latches(p, level) == /\ level /\ p \notin ioapic.intin
                     /\ ~ioapic.entry[p].level /\ ~ioapic.entry[p].masked

HSetPin(p, level) ==
    /\ SetPin(p, level)
    /\ Latches(p, level) => edges[p] < MaxEdges
    /\ edges' = [edges EXCEPT ![p] = IF Latches(p, level) THEN @ + 1 ELSE @]
    /\ spoiled' = spoiled \cup Left(ioapic')
    /\ UNCHANGED accepted

HWrite == /\ \/ \E p \in Pins : WriteLow(p)
             \/ WriteHigh
             \/ \E v \in Vectors : ResampleOnEoi(v)
          /\ spoiled' = spoiled \cup Left(ioapic')
          /\ UNCHANGED <<edges, accepted>>

HDeliver(done) ==
    /\ Deliver(done)
    /\ accepted' = [p \in Pins |-> accepted[p] + Cardinality(
          {i \in DOMAIN done : done[i] /\ ioapic.queue[i].pin = p /\ ~ioapic.queue[i].level})]
    /\ spoiled' = spoiled \cup {ioapic.queue[i].pin : i \in {j \in DOMAIN done : ~done[j]}}
    /\ UNCHANGED edges

HReset == /\ Reset
          /\ edges' = [p \in Pins |-> 0]
          /\ accepted' = [p \in Pins |-> 0]
          /\ spoiled' = {}

HNext == \/ \E p \in Pins, level \in BOOLEAN : HSetPin(p, level)
         \/ HWrite
         \/ \E done \in Answers : HDeliver(done)
         \/ HReset

HSpec == HInit /\ [][HNext]_hvars

-----------------------------------------------------------------------------
InFlight(p) ==
    Cardinality({i \in DOMAIN ioapic.queue : ioapic.queue[i].pin = p /\ ~ioapic.queue[i].level})
      + (IF p \in ioapic.irr /\ ~ioapic.entry[p].level THEN 1 ELSE 0)

\* The pins that the guest programs with one trigger mode only.  (The request
\* of a level-triggered pin outlives its being made edge-triggered, and is then
\* sent as an edge that never was.)
LevelPins == {p \in Pins : \A r \in Routes[p] : r.level}
EdgePins  == {p \in Pins : \A r \in Routes[p] : ~r.level}
Steady    == LevelPins \cup EdgePins

\* An edge is delivered at most once: what was taken, what is queued and what
\* is still requested on an edge pin never add up to more than the edges that
\* were latched, whatever the guest masks and whatever nobody answered.
EdgeAtMostOnce == \A p \in Steady : accepted[p] + InFlight(p) <= edges[p]

\* And exactly once on a pin that no full queue and no refusal touched: two
\* edges between two boundaries are two messages.
EdgeExactlyOnce == \A p \in Steady \ spoiled : accepted[p] + InFlight(p) = edges[p]
=============================================================================
