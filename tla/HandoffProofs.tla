--------------------------- MODULE HandoffProofs ---------------------------
(***************************************************************************)
(* The hand-overs, for all values of their constants.                      *)
(*                                                                         *)
(* The I/O APIC's messages: an edge is delivered at most once, and exactly *)
(* once where nothing was full and nothing refused.  The scan that queues  *)
(* the messages moves an edge from the requests to the queue, so that its  *)
(* order, and what fits, do not matter to the count.                       *)
(*                                                                         *)
(* Level lines: behind a hypervisor, what a line that is high owes is      *)
(* requested, in service, in a message or in an EOI.  A scan sends a       *)
(* message for everything owed, and only the EOI of a vector no such line  *)
(* uses makes no scan.                                                     *)
(*                                                                         *)
(* The level of INT: what the machine remembers as published is what the   *)
(* engine holds.  The invariant is inductive together with the types.      *)
(***************************************************************************)
EXTENDS MCIoApic, LevelEoi, IntrPublication, ScanOrderProofs, SequenceTheorems,
        WellFoundedInduction, TLAPS

-----------------------------------------------------------------------------
(* The I/O APIC's messages *)

IoApicState == [intin : SUBSET Pins, irr : SUBSET Pins,
                entry : [Pins -> Entry], queue : Seq(Message)]

EdgesAt(q, p)   == {i \in DOMAIN q : q[i].pin = p /\ ~q[i].level}
Requested(a, p) == p \in a.irr /\ ~a.entry[p].level
Pending(a, p)   == Cardinality(EdgesAt(a.queue, p)) + (IF Requested(a, p) THEN 1 ELSE 0)

LEMMA StateFields ==
    ASSUME NEW a \in IoApicState
    PROVE  /\ a.intin \in SUBSET Pins /\ a.irr \in SUBSET Pins
           /\ a.entry \in [Pins -> Entry] /\ a.queue \in Seq(Message)
  BY Zenon DEF IoApicState

LEMMA PinsFinite == Pins \in SUBSET Nat /\ IsFiniteSet(Pins)
<1>1. NPins \in Nat /\ NPins - 1 \in Int /\ 0 \in Int
  BY IoApicAssumption
<1>2. IsFiniteSet(0..(NPins - 1))
  BY <1>1, FS_Interval
<1> QED
  BY <1>2 DEF Pins

LEMMA EdgesFinite ==
    ASSUME NEW q \in Seq(Message), NEW p
    PROVE  /\ IsFiniteSet(EdgesAt(q, p)) /\ Cardinality(EdgesAt(q, p)) \in Nat
           /\ EdgesAt(q, p) \in SUBSET (1..Len(q))
<1>1. DOMAIN q = 1..Len(q) /\ Len(q) \in Nat
  OBVIOUS
<1>2. IsFiniteSet(1..Len(q))
  BY <1>1, FS_Interval
<1>3. EdgesAt(q, p) \in SUBSET (1..Len(q))
  BY <1>1 DEF EdgesAt
<1> QED
  BY <1>2, <1>3, FS_Subset, FS_CardinalityType

\* What the guest wrote to an entry, before and after.
SameRoute(x, y) == /\ y.level = x.level /\ y.masked = x.masked /\ y.mode = x.mode
                   /\ y.logical = x.logical /\ y.vector = x.vector

SameRoutes(a, b) == \A p \in Pins : SameRoute(a.entry[p], b.entry[p])

LEMMA StatusEffect ==
    ASSUME NEW x \in Entry, NEW v \in BOOLEAN
    PROVE  [x EXCEPT !.status = v] \in Entry /\ SameRoute(x, [x EXCEPT !.status = v])
BY Zenon DEF Entry, SameRoute

\* A queue that a message of the edge at pin p is added to.
LEMMA QueueGrows ==
    ASSUME NEW q \in Seq(Message), NEW t \in Seq(Message), NEW p \in Pins
    PROVE  /\ (\A k \in 1..Len(t) : t[k].pin = p => t[k].level)
                => EdgesAt(q \o t, p) = EdgesAt(q, p)
           /\ \A k \in 1..Len(t) :
                /\ t[k].pin = p /\ ~t[k].level
                /\ \A m \in 1..Len(t) : t[m].pin = p => m = k
                => Cardinality(EdgesAt(q \o t, p)) = Cardinality(EdgesAt(q, p)) + 1
<1> DEFINE r == q \o t
<1>0. Len(q) \in Nat /\ Len(t) \in Nat /\ DOMAIN q = 1..Len(q)
  OBVIOUS
<1>1. /\ r \in Seq(Message) /\ Len(r) = Len(q) + Len(t)
      /\ \A i \in 1..(Len(q) + Len(t)) : r[i] = IF i <= Len(q) THEN q[i] ELSE t[i - Len(q)]
  BY ConcatProperties
<1> HIDE DEF r
<1>2. DOMAIN r = 1..(Len(q) + Len(t))
  BY <1>1
<1>3. /\ \A i \in 1..Len(q) : i \in DOMAIN r /\ r[i] = q[i]
      /\ \A k \in 1..Len(t) : Len(q) + k \in DOMAIN r /\ r[Len(q) + k] = t[k] /\ Len(q) + k \notin 1..Len(q)
      /\ \A i \in DOMAIN r : i \in 1..Len(q) \/ \E k \in 1..Len(t) : i = Len(q) + k
  <2>1. ASSUME NEW i \in 1..Len(q) PROVE i \in DOMAIN r /\ r[i] = q[i]
    BY <1>0, <1>1, <1>2
  <2>2. ASSUME NEW k \in 1..Len(t)
        PROVE  Len(q) + k \in DOMAIN r /\ r[Len(q) + k] = t[k] /\ Len(q) + k \notin 1..Len(q)
    <3>1. /\ Len(q) + k \in 1..(Len(q) + Len(t)) /\ ~(Len(q) + k <= Len(q))
          /\ (Len(q) + k) - Len(q) = k
      BY <1>0
    <3> QED
      BY <1>1, <1>2, <3>1
  <2>3. ASSUME NEW i \in DOMAIN r, i \notin 1..Len(q) PROVE \E k \in 1..Len(t) : i = Len(q) + k
    <3>1. i - Len(q) \in 1..Len(t) /\ i = Len(q) + (i - Len(q))
      BY <1>0, <1>2, <2>3
    <3> QED
      BY <3>1
  <2> QED
    BY <2>1, <2>2, <2>3
<1>4. ASSUME \A k \in 1..Len(t) : t[k].pin = p => t[k].level
      PROVE  EdgesAt(r, p) = EdgesAt(q, p)
  BY ZenonT(30), <1>0, <1>3, <1>4 DEF EdgesAt
<1>5. ASSUME NEW k \in 1..Len(t), t[k].pin = p, ~t[k].level,
             \A m \in 1..Len(t) : t[m].pin = p => m = k
      PROVE  Cardinality(EdgesAt(r, p)) = Cardinality(EdgesAt(q, p)) + 1
  <2>1. EdgesAt(r, p) = EdgesAt(q, p) \cup {Len(q) + k}
    <3>1. ASSUME NEW i \in EdgesAt(r, p) PROVE i \in EdgesAt(q, p) \cup {Len(q) + k}
      <4>1. i \in DOMAIN r /\ r[i].pin = p /\ ~r[i].level
        BY DEF EdgesAt
      <4>2. CASE i \in 1..Len(q)
        BY <1>0, <1>3, <4>1, <4>2 DEF EdgesAt
      <4>3. CASE i \notin 1..Len(q)
        <5>1. PICK m \in 1..Len(t) : i = Len(q) + m
          BY <1>3, <4>1, <4>3
        <5>2. r[i] = t[m]
          BY <1>3, <5>1
        <5>3. m = k
          BY <1>5, <4>1, <5>2
        <5> QED
          BY <5>1, <5>3
      <4> QED
        BY <4>2, <4>3
    <3>2. EdgesAt(q, p) \in SUBSET EdgesAt(r, p)
      BY <1>0, <1>3 DEF EdgesAt
    <3>3. Len(q) + k \in EdgesAt(r, p)
      BY <1>3, <1>5 DEF EdgesAt
    <3> QED
      BY <3>1, <3>2, <3>3
  <2>2. Len(q) + k \notin EdgesAt(q, p)
    BY <1>0, <1>3 DEF EdgesAt
  <2>3. IsFiniteSet(EdgesAt(q, p))
    BY EdgesFinite
  <2> QED
    BY Zenon, <2>1, <2>2, <2>3, FS_AddElement
<1> QED
  BY <1>4, <1>5 DEF r

\* The messages of one scan.
Queued(a) ==
    LET order == Upwards(Sent(a))
    IN  [i \in 1..Len(order) |-> MessageOf(a, order[i])]

LEMMA MessageOfPin ==
    ASSUME NEW a \in IoApicState, NEW p \in Pins
    PROVE  /\ MessageOf(a, p) \in Message /\ MessageOf(a, p).pin = p
           /\ MessageOf(a, p).level = a.entry[p].level
           /\ MessageOf(a, p).vector = IF a.entry[p].mode = "extint" THEN 0
                                       ELSE a.entry[p].vector
<1>1. a.entry[p] \in Entry
  BY Zenon, StateFields
<1> QED
  BY <1>1, IoApicAssumption DEF MessageOf, Message, Entry

LEMMA SentPins ==
    ASSUME NEW a \in IoApicState
    PROVE  /\ Sent(a) \in SUBSET a.irr /\ Sent(a) \in SUBSET Pins
           /\ Sent(a) \in SUBSET Nat /\ IsFiniteSet(Sent(a))
<1>1. a.irr \in SUBSET Pins
  BY Zenon, StateFields
<1>2. Sent(a) \in SUBSET a.irr
  BY Zenon DEF Sent, Sendable, Deliverable
<1> QED
  BY Zenon, <1>1, <1>2, PinsFinite, FS_Subset

\* One message for each pin the scan sends, and no others.
LEMMA QueuedEffect ==
    ASSUME NEW a \in IoApicState
    PROVE  /\ Queued(a) \in Seq(Message) /\ Len(Queued(a)) = Cardinality(Sent(a))
           /\ \A i \in 1..Len(Queued(a)) :
                \E p \in Sent(a) : Queued(a)[i] = MessageOf(a, p)
           /\ \A p \in Sent(a) :
                \E i \in 1..Len(Queued(a)) : Queued(a)[i] = MessageOf(a, p)
           /\ \A i, j \in 1..Len(Queued(a)) : Queued(a)[i].pin = Queued(a)[j].pin => i = j
<1> DEFINE order == Upwards(Sent(a))
           n == Len(order)
           t == Queued(a)
<1>1. /\ order \in Seq(Sent(a)) /\ n = Cardinality(Sent(a))
      /\ \A i, j \in 1..n : order[i] = order[j] => i = j
      /\ \A x \in Sent(a) : \E i \in 1..n : order[i] = x
  BY Zenon, SentPins, UpwardsOrder
<1>2. t = [i \in 1..n |-> MessageOf(a, order[i])]
  BY DEF Queued
<1> HIDE DEF order, t
<1>3. n \in Nat /\ \A i \in 1..n : order[i] \in Sent(a)
  BY <1>1
<1> HIDE DEF n
<1>4. \A i \in 1..n : t[i] = MessageOf(a, order[i])
  BY Zenon, <1>2
<1>5. \A i \in 1..n : t[i] \in Message /\ t[i].pin = order[i]
  BY <1>3, <1>4, SentPins, MessageOfPin
<1>6. t \in [1..n -> Message]
  BY Zenon, <1>2, <1>5
<1>7. t \in Seq(Message) /\ Len(t) = n
  BY <1>3, <1>6
<1>8. /\ \A i \in 1..n : \E p \in Sent(a) : t[i] = MessageOf(a, p)
      /\ \A p \in Sent(a) : \E i \in 1..n : t[i] = MessageOf(a, p)
      /\ \A i, j \in 1..n : t[i].pin = t[j].pin => i = j
  BY <1>1, <1>3, <1>4, <1>5
<1> QED
  BY Zenon, <1>1, <1>7, <1>8 DEF t

LEMMA ServiceFields ==
    ASSUME NEW a \in IoApicState
    PROVE  /\ Service(a) \in IoApicState /\ SameRoutes(a, Service(a))
           /\ Service(a).intin = a.intin /\ Service(a).queue = a.queue \o Queued(a)
           /\ Service(a).irr = a.irr \ {p \in Sent(a) : ~a.entry[p].level}
<1> DEFINE b == Service(a)
           q == a.queue \o Queued(a)
           r == a.irr \ {p \in Sent(a) : ~a.entry[p].level}
           e == [p \in Pins |-> IF p \in Deliverable(a) THEN [a.entry[p] EXCEPT !.status = TRUE]
                                ELSE a.entry[p]]
<1>0. /\ a.intin \in SUBSET Pins /\ a.irr \in SUBSET Pins
      /\ a.entry \in [Pins -> Entry] /\ a.queue \in Seq(Message)
  BY Zenon, StateFields
<1>1. b = [a EXCEPT !.queue = q, !.irr = r, !.entry = e]
  BY Zenon DEF Service, Queued
<1>2. \A p \in Pins : e[p] \in Entry /\ SameRoute(a.entry[p], e[p])
  <2> TAKE p \in Pins
  <2>1. a.entry[p] \in Entry /\ TRUE \in BOOLEAN /\ SameRoute(a.entry[p], a.entry[p])
    BY Zenon, <1>0 DEF SameRoute
  <2> QED
    BY Zenon, <2>1, StatusEffect
<1>3. e \in [Pins -> Entry]
  BY Zenon, <1>2
<1>4. q \in Seq(Message)
  BY <1>0, QueuedEffect
<1>5. r \in SUBSET Pins
  BY Zenon, <1>0
<1> HIDE DEF b, q, r, e
<1>6. /\ b \in IoApicState /\ b.intin = a.intin /\ b.irr = r /\ b.queue = q /\ b.entry = e
  BY Zenon, <1>1, <1>3, <1>4, <1>5 DEF IoApicState
<1> QED
  BY Zenon, <1>2, <1>6 DEF SameRoutes, SameRoute, b, q, r

\* The scan moves an edge from the requests to the queue.
LEMMA ServiceEffect ==
    ASSUME NEW a \in IoApicState
    PROVE  /\ Service(a) \in IoApicState /\ SameRoutes(a, Service(a))
           /\ \A p \in Pins : /\ Pending(Service(a), p) = Pending(a, p)
                              /\ p \in Service(a).irr => p \in a.irr
<1> DEFINE b     == Service(a)
           t     == Queued(a)
           gone  == {p \in Sent(a) : ~a.entry[p].level}
<1>0. a.queue \in Seq(Message) /\ Sent(a) \in SUBSET a.irr /\ Sent(a) \in SUBSET Pins
  BY Zenon, StateFields, SentPins
<1>1. /\ b \in IoApicState /\ SameRoutes(a, b)
      /\ b.queue = a.queue \o t /\ b.irr = a.irr \ gone
  BY Zenon, ServiceFields
<1>2. /\ t \in Seq(Message)
      /\ \A i \in 1..Len(t) : \E p \in Sent(a) : t[i] = MessageOf(a, p)
      /\ \A p \in Sent(a) : \E i \in 1..Len(t) : t[i] = MessageOf(a, p)
      /\ \A i, j \in 1..Len(t) : t[i].pin = t[j].pin => i = j
  BY Zenon, QueuedEffect
<1> HIDE DEF b, t
<1>3. ASSUME NEW i \in 1..Len(t)
      PROVE  t[i].pin \in Sent(a) /\ t[i].level = a.entry[t[i].pin].level
  <2>1. PICK p \in Sent(a) : t[i] = MessageOf(a, p)
    BY Zenon, <1>2
  <2>2. t[i].pin = p /\ t[i].level = a.entry[p].level
    BY <1>0, <2>1, MessageOfPin
  <2> QED
    BY Zenon, <2>2
<1>4. ASSUME NEW p \in Pins PROVE Pending(b, p) = Pending(a, p)
  <2>0. Cardinality(EdgesAt(a.queue, p)) \in Nat
    BY Zenon, <1>0, EdgesFinite
  <2>1. CASE p \in gone
    <3>1. PICK k \in 1..Len(t) : t[k] = MessageOf(a, p)
      BY Zenon, <1>2, <2>1
    <3>2. t[k].pin = p /\ t[k].level = a.entry[p].level
      BY <3>1, MessageOfPin
    <3>5. ~t[k].level /\ \A m \in 1..Len(t) : t[m].pin = p => m = k
      BY Zenon, <1>2, <2>1, <3>2
    <3>3. Cardinality(EdgesAt(a.queue \o t, p)) = Cardinality(EdgesAt(a.queue, p)) + 1
      BY Zenon, <1>0, <1>2, <3>1, <3>2, <3>5, QueueGrows
    <3>4. Requested(a, p) /\ ~Requested(b, p)
      BY Zenon, <1>0, <1>1, <2>1 DEF Requested
    <3> QED
      BY <1>1, <2>0, <3>3, <3>4 DEF Pending
  <2>2. CASE p \notin gone
    <3>1. ASSUME NEW k \in 1..Len(t), t[k].pin = p PROVE t[k].level
      <4>1. p \in Sent(a) /\ t[k].level = a.entry[p].level
        BY Zenon, <1>3, <3>1
      <4> QED
        BY Zenon, <2>2, <4>1
    <3>2. EdgesAt(a.queue \o t, p) = EdgesAt(a.queue, p)
      BY <1>0, <1>2, <3>1, QueueGrows
    <3>3. Requested(b, p) = Requested(a, p)
      BY <1>1, <2>2 DEF Requested, SameRoutes, SameRoute
    <3> QED
      BY Zenon, <1>1, <3>2, <3>3 DEF Pending
  <2> QED
    BY Zenon, <2>1, <2>2
<1>5. \A p \in Pins : p \in b.irr => p \in a.irr
  BY Zenon, <1>1
<1> QED
  BY Zenon, <1>1, <1>4, <1>5 DEF b

\* An edge that a pin latches.
LatchesAt(a, p, level) == /\ level /\ p \notin a.intin
                          /\ ~a.entry[p].level /\ ~a.entry[p].masked

LEMMA MoveEffect ==
    ASSUME NEW a \in IoApicState, NEW p \in Pins, NEW level \in BOOLEAN
    PROVE  /\ MovePin(a, p, level) \in IoApicState
           /\ MovePin(a, p, level).entry = a.entry /\ MovePin(a, p, level).queue = a.queue
           /\ \A q \in Pins : ~a.entry[q].level =>
                (q \in MovePin(a, p, level).irr <=>
                   q \in a.irr \/ (q = p /\ LatchesAt(a, p, level)))
<1> DEFINE up   == [a EXCEPT !.intin = @ \cup {p},
                             !.irr = IF NeedsService(a, p, level) THEN @ \cup {p} ELSE @]
           down == [a EXCEPT !.intin = @ \ {p},
                             !.irr = IF a.entry[p].level THEN @ \ {p} ELSE @]
<1>0. /\ a.intin \in SUBSET Pins /\ a.irr \in SUBSET Pins
      /\ a.entry \in [Pins -> Entry] /\ a.queue \in Seq(Message)
  BY StateFields
<1>1. /\ up \in IoApicState /\ up.entry = a.entry /\ up.queue = a.queue
      /\ up.irr = IF NeedsService(a, p, level) THEN a.irr \cup {p} ELSE a.irr
      /\ down \in IoApicState /\ down.entry = a.entry /\ down.queue = a.queue
      /\ down.irr = IF a.entry[p].level THEN a.irr \ {p} ELSE a.irr
  <2> DEFINE i == a.intin \cup {p}
             r == IF NeedsService(a, p, level) THEN a.irr \cup {p} ELSE a.irr
             j == a.intin \ {p}
             s == IF a.entry[p].level THEN a.irr \ {p} ELSE a.irr
  <2>1. /\ i \in SUBSET Pins /\ r \in SUBSET Pins /\ up = [a EXCEPT !.intin = i, !.irr = r]
        /\ j \in SUBSET Pins /\ s \in SUBSET Pins /\ down = [a EXCEPT !.intin = j, !.irr = s]
    BY <1>0
  <2> SUFFICES /\ up \in IoApicState /\ up.entry = a.entry /\ up.queue = a.queue /\ up.irr = r
               /\ down \in IoApicState /\ down.entry = a.entry /\ down.queue = a.queue
               /\ down.irr = s
    OBVIOUS
  <2> HIDE DEF up, down, i, r, j, s
  <2> QED
    BY Zenon, <2>1 DEF IoApicState
<1>2. MovePin(a, p, level) = IF level = (p \in a.intin) THEN a ELSE IF level THEN up ELSE down
  BY DEF MovePin
<1> HIDE DEF up, down
<1>3. CASE level = (p \in a.intin)
  BY ZenonT(30), <1>2, <1>3 DEF LatchesAt
<1>4. CASE level # (p \in a.intin) /\ level
  BY SMTT(30), <1>0, <1>1, <1>2, <1>4 DEF IoApicState, NeedsService, LatchesAt
<1>5. CASE level # (p \in a.intin) /\ ~level
  BY SMTT(30), <1>0, <1>1, <1>2, <1>5 DEF IoApicState, LatchesAt
<1> QED
  BY <1>3, <1>4, <1>5

LEMMA RouteEffect ==
    ASSUME NEW a \in IoApicState, NEW p \in Pins, NEW r \in Routes[p]
    PROVE  /\ WithRoute(a, p, r) \in IoApicState
           /\ WithRoute(a, p, r).irr = a.irr /\ WithRoute(a, p, r).queue = a.queue
           /\ \A q \in Pins \ {p} : WithRoute(a, p, r).entry[q] = a.entry[q]
           /\ SameRoute(r, WithRoute(a, p, r).entry[p])
<1> DEFINE n == [masked |-> r.masked, level |-> r.level, mode |-> r.mode,
                 logical |-> r.logical, vector |-> r.vector, status |-> FALSE]
           f == [a.entry EXCEPT ![p] = n]
<1>0. /\ a.intin \in SUBSET Pins /\ a.irr \in SUBSET Pins
      /\ a.entry \in [Pins -> Entry] /\ a.queue \in Seq(Message)
  BY StateFields
<1>1. r \in Route
  BY IoApicAssumption
<1>2. n \in Entry /\ SameRoute(r, n)
  BY <1>1 DEF Route, Entry, SameRoute
<1> HIDE DEF n
<1>3. f \in [Pins -> Entry] /\ f[p] = n /\ \A q \in Pins \ {p} : f[q] = a.entry[q]
  BY <1>0, <1>2
<1> HIDE DEF f
<1>4. WithRoute(a, p, r) = [a EXCEPT !.entry = f]
  BY DEF WithRoute, f, n
<1>5. /\ WithRoute(a, p, r) \in IoApicState /\ WithRoute(a, p, r).irr = a.irr
      /\ WithRoute(a, p, r).queue = a.queue /\ WithRoute(a, p, r).entry = f
  BY ZenonT(30), <1>3, <1>4 DEF IoApicState
<1> QED
  BY SMTT(30), <1>2, <1>3, <1>5

\* The answers clear the queue; the last one for an edge decides its request.
LEMMA AnswerFields ==
    ASSUME NEW a \in IoApicState, NEW done \in [DOMAIN a.queue -> BOOLEAN]
    PROVE  /\ Answered(a, done) \in IoApicState /\ SameRoutes(a, Answered(a, done))
           /\ Answered(a, done).intin = a.intin /\ Answered(a, done).queue = <<>>
           /\ \A p \in Pins :
                /\ EdgesAt(a.queue, p) = {} => (p \in Answered(a, done).irr <=> p \in a.irr)
                /\ EdgesAt(a.queue, p) # {} =>
                     \E m \in EdgesAt(a.queue, p) : p \in Answered(a, done).irr <=> ~done[m]
<1> DEFINE b == Answered(a, done)
           J == {p \in Pins : LET i == LastOf(a.queue, p, IsEdge)
                              IN  IF i = 0 THEN p \in a.irr ELSE ~done[i]}
           e == [p \in Pins |-> LET i == LastOf(a.queue, p, IsAny)
                                IN  IF i = 0 THEN a.entry[p]
                                    ELSE [a.entry[p] EXCEPT !.status = ~done[i]]]
<1>0. /\ a.intin \in SUBSET Pins /\ a.irr \in SUBSET Pins
      /\ a.entry \in [Pins -> Entry] /\ a.queue \in Seq(Message)
  BY Zenon, StateFields
<1>1. b = [a EXCEPT !.queue = <<>>, !.irr = J, !.entry = e]
  BY Zenon DEF Answered
<1>2. ASSUME NEW p \in Pins
      PROVE  e[p] \in Entry /\ SameRoute(a.entry[p], e[p])
  <2> DEFINE i == LastOf(a.queue, p, IsAny)
             x == ~done[i]
  <2>1. a.entry[p] \in Entry /\ SameRoute(a.entry[p], a.entry[p])
    BY Zenon, <1>0 DEF SameRoute
  <2>2. e[p] = IF i = 0 THEN a.entry[p] ELSE [a.entry[p] EXCEPT !.status = x]
    BY Zenon
  <2>3. x \in BOOLEAN
    BY Zenon
  <2> HIDE DEF i, x, e
  <2> QED
    BY Zenon, <2>1, <2>2, <2>3, StatusEffect
<1>3. e \in [Pins -> Entry] /\ J \in SUBSET Pins
  BY Zenon, <1>2
<1>4. ASSUME NEW p \in Pins
      PROVE  /\ EdgesAt(a.queue, p) = {} => (p \in J <=> p \in a.irr)
             /\ EdgesAt(a.queue, p) # {} =>
                  \E m \in EdgesAt(a.queue, p) : p \in J <=> ~done[m]
  <2> DEFINE M == EdgesAt(a.queue, p)
  <2>1. LastOf(a.queue, p, IsEdge) = IF M = {} THEN 0 ELSE Max(M)
    BY DEF LastOf, IsEdge, EdgesAt
  <2>2. CASE M = {}
    BY SMTT(30), <2>1, <2>2
  <2>3. CASE M # {}
    <3>1. IsFiniteSet(M) /\ M \in SUBSET (1..Len(a.queue))
      BY <1>0, EdgesFinite
    <3>2. M \in SUBSET Nat /\ 0 \notin M
      BY <3>1
    <3> HIDE DEF M
    <3>3. \E m \in M : \A x \in M : m >= x
      BY <2>3, <3>1, <3>2, HighestVisited
    <3>4. Max(M) \in M
      BY <3>3 DEF Max
    <3>5. p \in J <=> ~done[Max(M)]
      BY ZenonT(30), <2>1, <2>3, <3>2, <3>4
    <3> QED
      BY SMTT(30), <2>3, <3>4, <3>5 DEF M
  <2> QED
    BY <2>2, <2>3
<1> HIDE DEF J, e
<1>5. /\ b \in IoApicState /\ b.intin = a.intin /\ b.irr = J
      /\ b.queue = <<>> /\ b.entry = e
  <2> HIDE DEF b
  <2>1. <<>> \in Seq(Message)
    OBVIOUS
  <2> QED
    BY ZenonT(30), <1>1, <1>3, <2>1 DEF IoApicState
<1> QED
  BY Zenon, <1>2, <1>4, <1>5 DEF SameRoutes, SameRoute

\* The answers: at most one of what was pending on a pin is requested again, and
\* only when it was refused.
Taken(a, done, p) == {i \in DOMAIN done : done[i] /\ a.queue[i].pin = p /\ ~a.queue[i].level}

LEMMA AnswerEffect ==
    ASSUME NEW a \in IoApicState, NEW done \in [DOMAIN a.queue -> BOOLEAN]
    PROVE  /\ Answered(a, done) \in IoApicState /\ SameRoutes(a, Answered(a, done))
           /\ \A p \in Pins :
                /\ Cardinality(Taken(a, done, p)) \in Nat /\ Pending(Answered(a, done), p) \in Nat
                /\ Cardinality(Taken(a, done, p)) + Pending(Answered(a, done), p) <= Pending(a, p)
                /\ /\ p \notin a.irr
                   /\ \A i \in DOMAIN done : a.queue[i].pin = p => done[i]
                   => /\ p \notin Answered(a, done).irr
                      /\ Cardinality(Taken(a, done, p)) + Pending(Answered(a, done), p)
                           = Pending(a, p)
<1> DEFINE b == Answered(a, done)
           J == b.irr
<1>0. /\ a.intin \in SUBSET Pins /\ a.irr \in SUBSET Pins
      /\ a.entry \in [Pins -> Entry] /\ a.queue \in Seq(Message)
      /\ DOMAIN done = DOMAIN a.queue
  BY Zenon, StateFields
<1>4. ASSUME NEW p \in Pins
      PROVE  /\ EdgesAt(a.queue, p) = {} => (p \in J <=> p \in a.irr)
             /\ EdgesAt(a.queue, p) # {} =>
                  \E m \in EdgesAt(a.queue, p) : p \in J <=> ~done[m]
  BY Zenon, AnswerFields
<1>5. b \in IoApicState /\ SameRoutes(a, b) /\ b.irr = J /\ b.queue = <<>>
  BY Zenon, AnswerFields
<1> HIDE DEF J
<1> HIDE DEF b
<1>6. ASSUME NEW p \in Pins
      PROVE  /\ Cardinality(Taken(a, done, p)) \in Nat /\ Pending(b, p) \in Nat
             /\ Cardinality(Taken(a, done, p)) + Pending(b, p) <= Pending(a, p)
             /\ p \notin a.irr /\ (\A i \in DOMAIN done : a.queue[i].pin = p => done[i])
                => /\ p \notin b.irr
                   /\ Cardinality(Taken(a, done, p)) + Pending(b, p) = Pending(a, p)
  <2> DEFINE M == EdgesAt(a.queue, p)
             D == Taken(a, done, p)
             k == Cardinality(M)
             d == Cardinality(D)
  <2>1. IsFiniteSet(M) /\ k \in Nat
    BY <1>0, EdgesFinite
  <2>2. D \in SUBSET M
    BY <1>0 DEF Taken, EdgesAt
  <2>3. d \in Nat /\ d <= k /\ (k = d => M = D)
    BY <2>1, <2>2, FS_Subset, FS_CardinalityType
  <2>4. Pending(b, p) = IF Requested(b, p) THEN 1 ELSE 0
    <3>1. EdgesAt(<<>>, p) = {} /\ Cardinality({}) = 0
      BY FS_EmptySet DEF EdgesAt
    <3>2. Cardinality(EdgesAt(b.queue, p)) = 0
      BY Zenon, <1>5, <3>1
    <3> QED
      BY <3>2 DEF Pending
  <2>5. Pending(a, p) = k + IF Requested(a, p) THEN 1 ELSE 0
    BY DEF Pending
  <2>6. CASE M = {}
    <3>1. Requested(b, p) = Requested(a, p) /\ (p \in b.irr <=> p \in a.irr)
      BY <1>4, <1>5, <2>6 DEF Requested, SameRoutes, SameRoute
    <3>2. D = M
      BY <2>2, <2>6
    <3> HIDE DEF M, D, k, d
    <3>3. d = k
      BY <3>2 DEF d, k
    <3> QED
      BY SMTT(30), <2>1, <2>3, <2>4, <2>5, <3>1, <3>3 DEF d, D
  <2>7. CASE M # {}
    <3>1. PICK m \in M : p \in J <=> ~done[m]
      BY <1>4, <2>7
    <3>2. m \in DOMAIN done /\ a.queue[m].pin = p
      BY <1>0 DEF EdgesAt
    <3>3. Requested(b, p) => M # D
      <4>1. m \in D => done[m]
        BY DEF Taken
      <4> QED
        BY <1>5, <3>1, <4>1 DEF Requested
    <3>4. ASSUME \A i \in DOMAIN done : a.queue[i].pin = p => done[i]
          PROVE  D = M /\ p \notin b.irr
      <4>1. M \in SUBSET D
        BY <1>0, <3>4 DEF Taken, EdgesAt
      <4> QED
        BY ZenonT(30), <1>5, <2>2, <3>1, <3>2, <3>4, <4>1
    <3>5. D = M => d = k
      OBVIOUS
    <3>6. p \notin a.irr => ~Requested(a, p)
      BY DEF Requested
    <3>7. p \notin b.irr => ~Requested(b, p)
      BY DEF Requested
    <3> HIDE DEF M, D, k, d
    <3>8. d \in Nat /\ Pending(b, p) \in Nat /\ d + Pending(b, p) <= Pending(a, p)
      BY SMTT(30), <2>1, <2>3, <2>4, <2>5, <3>3
    <3>9. p \notin a.irr /\ (\A i \in DOMAIN done : a.queue[i].pin = p => done[i])
            => p \notin b.irr /\ d + Pending(b, p) = Pending(a, p)
      BY SMTT(30), <2>1, <2>3, <2>4, <2>5, <3>4, <3>5, <3>6, <3>7
    <3> QED
      BY <3>8, <3>9 DEF d, D
  <2> QED
    BY <2>6, <2>7
<1> QED
  BY <1>5, <1>6 DEF b

-----------------------------------------------------------------------------
\* What holds of a pin that is only ever edge-triggered.  One that nothing
\* spoiled has no request left: its edges are queued at once.
EdgeInv(p) == /\ ~ioapic.entry[p].level
              /\ accepted[p] + Pending(ioapic, p) <= edges[p]
              /\ p \notin spoiled => /\ p \notin ioapic.irr
                                     /\ accepted[p] + Pending(ioapic, p) = edges[p]

\* A pin that is only ever level-triggered counts for nothing.
LevelInv(p) == /\ ioapic.entry[p].level \/ ioapic.entry[p].masked
               /\ Pending(ioapic, p) = 0 /\ edges[p] = 0 /\ accepted[p] = 0

EdgesInv == /\ ioapic \in IoApicState
            /\ edges \in [Pins -> Nat] /\ accepted \in [Pins -> Nat]
            /\ \A p \in EdgePins : EdgeInv(p)
            /\ \A p \in LevelPins : LevelInv(p)

LEMMA PendingNat ==
    ASSUME NEW a \in IoApicState, NEW p
    PROVE  /\ Pending(a, p) \in Nat /\ Cardinality(EdgesAt(a.queue, p)) \in Nat
           /\ Pending(a, p) = Cardinality(EdgesAt(a.queue, p)) + (IF Requested(a, p) THEN 1 ELSE 0)
<1>1. Cardinality(EdgesAt(a.queue, p)) \in Nat
  BY SMTT(30), StateFields, EdgesFinite
<1> QED
  BY <1>1 DEF Pending

LEMMA SetPinKeeps ==
    ASSUME EdgesInv, NEW p \in Pins, NEW level \in BOOLEAN, HSetPin(p, level)
    PROVE  EdgesInv'
<1> DEFINE b == MovePin(ioapic, p, level)
<1>0. ioapic \in IoApicState /\ edges \in [Pins -> Nat] /\ accepted \in [Pins -> Nat]
  BY DEF EdgesInv
<1>1. /\ b \in IoApicState /\ b.entry = ioapic.entry /\ b.queue = ioapic.queue
      /\ \A q \in Pins : ~ioapic.entry[q].level =>
           (q \in b.irr <=> q \in ioapic.irr \/ (q = p /\ LatchesAt(ioapic, p, level)))
  BY <1>0, MoveEffect
<1>2. Latches(p, level) = LatchesAt(ioapic, p, level)
  BY DEF Latches, LatchesAt
<1>3. /\ edges' = [edges EXCEPT ![p] = IF Latches(p, level) THEN edges[p] + 1 ELSE edges[p]]
      /\ accepted' = accepted
      /\ spoiled' = spoiled \cup Left(ioapic')
      /\ ioapic' = Service(b) \/ ioapic' = b
  BY SMTT(30) DEF HSetPin, SetPin
<1> HIDE DEF b
<1>4. /\ ioapic' \in IoApicState /\ SameRoutes(ioapic, ioapic')
      /\ \A q \in Pins : /\ Pending(ioapic', q) = Pending(b, q)
                         /\ q \in ioapic'.irr => q \in b.irr
  BY <1>1, <1>3, ServiceEffect DEF SameRoutes, SameRoute
<1>5. edges' \in [Pins -> Nat]
  BY <1>0, <1>3
<1>6. ASSUME NEW q \in Pins
      PROVE  /\ q = p => edges'[q] = IF LatchesAt(ioapic, p, level) THEN edges[q] + 1 ELSE edges[q]
             /\ q # p => edges'[q] = edges[q]
             /\ edges[q] \in Nat /\ accepted[q] \in Nat
  BY <1>0, <1>2, <1>3
<1>7. ASSUME NEW q \in Pins, ~ioapic.entry[q].level
      PROVE  Requested(b, q) <=> q \in ioapic.irr \/ (q = p /\ LatchesAt(ioapic, p, level))
  BY <1>1, <1>7 DEF Requested
<1>8. ASSUME NEW q \in EdgePins PROVE EdgeInv(q)'
  <2>1. q \in Pins /\ EdgeInv(q)
    BY DEF EdgePins, EdgesInv
  <2>2. ~ioapic.entry[q].level /\ ~ioapic'.entry[q].level
    BY <1>4, <2>1 DEF EdgeInv, SameRoutes, SameRoute
  <2> DEFINE k == Cardinality(EdgesAt(ioapic.queue, q))
             hit == q = p /\ LatchesAt(ioapic, p, level)
  <2>3. k \in Nat /\ Pending(ioapic, q) = k + IF q \in ioapic.irr THEN 1 ELSE 0
    BY SMTT(30), <1>0, <2>2, PendingNat DEF Requested
  <2>4. Pending(ioapic', q) = k + IF q \in ioapic.irr \/ hit THEN 1 ELSE 0
    <3>1. Pending(b, q) = Cardinality(EdgesAt(b.queue, q)) + (IF Requested(b, q) THEN 1 ELSE 0)
      BY Zenon, <1>1, PendingNat
    <3>2. b.queue = ioapic.queue /\ Pending(ioapic', q) = Pending(b, q)
      BY Zenon, <1>1, <1>4, <2>1
    <3>3. Requested(b, q) <=> q \in ioapic.irr \/ hit
      BY <1>7, <2>1, <2>2
    <3> QED
      BY Zenon, <3>1, <3>2, <3>3
  <2>5. edges'[q] = IF hit THEN edges[q] + 1 ELSE edges[q]
    BY <1>6, <2>1
  <2>6. edges[q] \in Nat /\ accepted[q] \in Nat
    BY <1>6, <2>1
  <2> HIDE DEF k
  <2>7. accepted'[q] + Pending(ioapic', q) <= edges'[q]
    <3>1. accepted[q] + Pending(ioapic, q) <= edges[q]
      BY <2>1 DEF EdgeInv
    <3> HIDE DEF hit
    <3> QED
      BY <1>3, <2>3, <2>4, <2>5, <2>6, <3>1
  <2>8. ASSUME q \notin spoiled'
        PROVE  q \notin ioapic'.irr /\ accepted'[q] + Pending(ioapic', q) = edges'[q]
    <3>1. q \notin spoiled /\ q \notin Left(ioapic')
      BY <1>3, <2>8
    <3>2. q \notin ioapic.irr /\ accepted[q] + Pending(ioapic, q) = edges[q]
      BY <2>1, <3>1 DEF EdgeInv
    <3>3. q \notin ioapic'.irr
      <4>1. SUFFICES ASSUME q \in ioapic'.irr PROVE FALSE
        OBVIOUS
      <4>2. q \in b.irr
        BY SMTT(30), <1>4, <2>1, <4>1
      <4>3. LatchesAt(ioapic, p, level) /\ q = p
        BY SMTT(30), <1>1, <2>1, <2>2, <3>2, <4>2
      <4>4. ~ioapic'.entry[q].masked
        BY <1>4, <4>3 DEF LatchesAt, SameRoutes, SameRoute
      <4> QED
        BY <2>2, <3>1, <4>1, <4>4 DEF Left
    <3> HIDE DEF hit
    <3> QED
      BY SMTT(30), <1>3, <2>3, <2>4, <2>5, <2>6, <3>2, <3>3
  <2> QED
    BY <2>2, <2>7, <2>8 DEF EdgeInv, Pending, Requested
<1>9. ASSUME NEW q \in LevelPins PROVE LevelInv(q)'
  <2>1. q \in Pins /\ LevelInv(q)
    BY DEF LevelPins, EdgesInv
  <2>2. ~(q = p /\ LatchesAt(ioapic, p, level))
    BY SMTT(30), <2>1 DEF LevelInv, LatchesAt
  <2>3. edges'[q] = 0 /\ accepted'[q] = 0
    BY SMTT(30), <1>3, <1>6, <2>1, <2>2 DEF LevelInv
  <2>4. ioapic'.entry[q].level \/ ioapic'.entry[q].masked
    BY <1>4, <2>1 DEF LevelInv, SameRoutes, SameRoute
  <2>5. Cardinality(EdgesAt(ioapic.queue, q)) = 0 /\ ~Requested(ioapic, q)
    BY <1>0, <2>1, PendingNat DEF LevelInv
  <2>6. ~Requested(b, q)
    <3>1. CASE ioapic.entry[q].level
      BY SMTT(30), <1>1, <3>1 DEF Requested
    <3>2. CASE ~ioapic.entry[q].level
      BY SMTT(30), <1>7, <2>1, <2>2, <2>5, <3>2 DEF Requested
    <3> QED
      BY SMTT(30), <3>1, <3>2
  <2>7. Pending(b, q) = 0
    BY SMTT(30), <1>1, <2>5, <2>6, PendingNat
  <2>8. Pending(ioapic', q) = 0
    BY SMTT(30), <1>4, <2>1, <2>7
  <2> QED
    BY SMTT(30), <2>3, <2>4, <2>8 DEF LevelInv, Pending, Requested
<1> QED
  BY <1>0, <1>3, <1>4, <1>5, <1>8, <1>9 DEF EdgesInv

LEMMA WriteKeeps ==
    ASSUME EdgesInv, HWrite
    PROVE  EdgesInv'
<1>0. ioapic \in IoApicState /\ edges \in [Pins -> Nat] /\ accepted \in [Pins -> Nat]
  BY DEF EdgesInv
<1>1. edges' = edges /\ accepted' = accepted /\ spoiled' = spoiled \cup Left(ioapic')
  BY DEF HWrite
<1>2. \E b \in IoApicState :
        /\ ioapic' = Service(b) /\ b.irr = ioapic.irr /\ b.queue = ioapic.queue
        /\ \A q \in Pins : \/ b.entry[q] = ioapic.entry[q]
                           \/ \E r \in Routes[q] : b.entry[q].level = r.level
  <2>1. CASE ioapic' = Service(ioapic)
    BY SMTT(30), <1>0, <2>1
  <2>2. ASSUME NEW p \in Pins, NEW r \in Routes[p], ioapic' = Service(WithRoute(ioapic, p, r))
        PROVE  \E b \in IoApicState :
                 /\ ioapic' = Service(b) /\ b.irr = ioapic.irr /\ b.queue = ioapic.queue
                 /\ \A q \in Pins : \/ b.entry[q] = ioapic.entry[q]
                                    \/ \E s \in Routes[q] : b.entry[q].level = s.level
    <3> DEFINE b == WithRoute(ioapic, p, r)
    <3>1. /\ b \in IoApicState /\ b.irr = ioapic.irr /\ b.queue = ioapic.queue
          /\ \A q \in Pins \ {p} : b.entry[q] = ioapic.entry[q]
          /\ b.entry[p].level = r.level
      BY <1>0, RouteEffect DEF SameRoute
    <3> HIDE DEF b
    <3>2. ASSUME NEW q \in Pins
          PROVE  \/ b.entry[q] = ioapic.entry[q]
                 \/ \E s \in Routes[q] : b.entry[q].level = s.level
      BY SMTT(30), <3>1
    <3> QED
      BY SMTT(30), <2>2, <3>1, <3>2 DEF b
  <2> QED
    BY Zenon, <2>1, <2>2 DEF HWrite, WriteLow, WriteHigh, ResampleOnEoi
<1>3. PICK b \in IoApicState :
        /\ ioapic' = Service(b) /\ b.irr = ioapic.irr /\ b.queue = ioapic.queue
        /\ \A q \in Pins : \/ b.entry[q] = ioapic.entry[q]
                           \/ \E r \in Routes[q] : b.entry[q].level = r.level
  BY <1>2
<1>4. /\ ioapic' \in IoApicState /\ SameRoutes(b, ioapic')
      /\ \A q \in Pins : /\ Pending(ioapic', q) = Pending(b, q)
                         /\ q \in ioapic'.irr => q \in b.irr
  BY SMTT(30), <1>3, ServiceEffect
<1>5. ASSUME NEW q \in EdgePins PROVE EdgeInv(q)'
  <2>1. q \in Pins /\ EdgeInv(q)
    BY SMTT(30) DEF EdgePins, EdgesInv
  <2>2. ~ioapic.entry[q].level /\ ~b.entry[q].level
    BY ZenonT(30), <1>3, <2>1 DEF EdgeInv, EdgePins
  <2>3. Pending(b, q) = Pending(ioapic, q)
    BY <1>3, <2>2 DEF Pending, Requested
  <2>4. Pending(ioapic', q) = Pending(ioapic, q) /\ ~ioapic'.entry[q].level
    BY SMTT(30), <1>4, <2>1, <2>2, <2>3 DEF SameRoutes, SameRoute
  <2>5. q \in ioapic'.irr => q \in ioapic.irr
    BY SMTT(30), <1>3, <1>4, <2>1
  <2> QED
    BY SMTT(30), <1>1, <2>1, <2>4, <2>5 DEF EdgeInv, Pending, Requested
<1>6. ASSUME NEW q \in LevelPins PROVE LevelInv(q)'
  <2>1. q \in Pins /\ LevelInv(q)
    BY DEF LevelPins, EdgesInv
  <2>2. b.entry[q] = ioapic.entry[q] \/ b.entry[q].level
    BY <1>3, <2>1 DEF LevelPins
  <2>3. Cardinality(EdgesAt(ioapic.queue, q)) = 0 /\ ~Requested(ioapic, q)
    BY SMTT(30), <1>0, <2>1, PendingNat DEF LevelInv
  <2>4. ~Requested(b, q)
    BY SMTT(30), <1>3, <2>2, <2>3 DEF Requested
  <2>5. Pending(b, q) = 0
    BY SMTT(30), <1>3, <2>3, <2>4, PendingNat
  <2>6. Pending(ioapic', q) = 0
    BY <1>4, <2>1, <2>5
  <2>7. ioapic'.entry[q].level \/ ioapic'.entry[q].masked
    BY SMTT(30), <1>4, <2>1, <2>2 DEF LevelInv, SameRoutes, SameRoute
  <2> QED
    BY SMTT(30), <1>1, <2>1, <2>6, <2>7 DEF LevelInv, Pending, Requested
<1> QED
  BY <1>0, <1>1, <1>4, <1>5, <1>6 DEF EdgesInv

LEMMA DeliverKeeps ==
    ASSUME EdgesInv, NEW done \in Answers, HDeliver(done)
    PROVE  EdgesInv'
<1>0. ioapic \in IoApicState /\ edges \in [Pins -> Nat] /\ accepted \in [Pins -> Nat]
  BY SMTT(30) DEF EdgesInv
<1> DEFINE b == Answered(ioapic, done)
           d(q) == Cardinality(Taken(ioapic, done, q))
<1>1. /\ b \in IoApicState /\ SameRoutes(ioapic, b)
      /\ \A q \in Pins :
           /\ d(q) \in Nat /\ Pending(b, q) \in Nat
           /\ d(q) + Pending(b, q) <= Pending(ioapic, q)
           /\ q \notin ioapic.irr /\ (\A i \in DOMAIN done : ioapic.queue[i].pin = q => done[i])
              => q \notin b.irr /\ d(q) + Pending(b, q) = Pending(ioapic, q)
  BY <1>0, AnswerEffect DEF Answers
<1>2. /\ ioapic' = b /\ edges' = edges
      /\ accepted' = [q \in Pins |-> accepted[q] + d(q)]
      /\ spoiled' = spoiled \cup {ioapic.queue[i].pin : i \in {j \in DOMAIN done : ~done[j]}}
  BY DEF HDeliver, Deliver, Taken
<1> HIDE DEF b, d
<1>3. accepted' \in [Pins -> Nat]
  BY SMTT(30), <1>0, <1>1, <1>2
<1>4. ASSUME NEW q \in Pins
      PROVE  /\ accepted'[q] = accepted[q] + d(q) /\ accepted[q] \in Nat /\ edges[q] \in Nat
             /\ Pending(ioapic, q) \in Nat
  BY SMTT(30), <1>0, <1>2, PendingNat
<1>5. ASSUME NEW q \in EdgePins PROVE EdgeInv(q)'
  <2>1. q \in Pins /\ EdgeInv(q)
    BY SMTT(30) DEF EdgePins, EdgesInv
  <2>2. ~b.entry[q].level
    BY SMTT(30), <1>1, <2>1 DEF EdgeInv, SameRoutes, SameRoute
  <2>3. accepted'[q] + Pending(b, q) <= edges[q]
    BY SMTT(30), <1>1, <1>4, <2>1 DEF EdgeInv
  <2>4. ASSUME q \notin spoiled'
        PROVE  q \notin b.irr /\ accepted'[q] + Pending(b, q) = edges[q]
    <3>1. q \notin spoiled /\ \A i \in DOMAIN done : ioapic.queue[i].pin = q => done[i]
      BY <1>2, <2>4
    <3>2. q \notin ioapic.irr /\ accepted[q] + Pending(ioapic, q) = edges[q]
      BY SMTT(30), <2>1, <3>1 DEF EdgeInv
    <3>3. q \notin b.irr /\ d(q) + Pending(b, q) = Pending(ioapic, q)
      BY SMTT(30), <1>1, <2>1, <3>1, <3>2
    <3> QED
      BY SMTT(30), <1>1, <1>4, <2>1, <3>2, <3>3
  <2> QED
    BY <1>2, <2>2, <2>3, <2>4 DEF EdgeInv, Pending, Requested
<1>6. ASSUME NEW q \in LevelPins PROVE LevelInv(q)'
  <2>1. q \in Pins /\ LevelInv(q)
    BY DEF LevelPins, EdgesInv
  <2>2. Pending(b, q) = 0 /\ accepted'[q] = 0
    <3>1. Pending(ioapic, q) = 0 /\ accepted[q] = 0
      BY Zenon, <2>1 DEF LevelInv
    <3>2. d(q) \in Nat /\ Pending(b, q) \in Nat /\ d(q) + Pending(b, q) <= 0
      BY Zenon, <1>1, <2>1, <3>1
    <3>3. d(q) = 0 /\ Pending(b, q) = 0
      BY <3>2
    <3> QED
      BY <1>4, <2>1, <3>1, <3>3
  <2>3. b.entry[q].level \/ b.entry[q].masked
    BY <1>1, <2>1 DEF LevelInv, SameRoutes, SameRoute
  <2> QED
    BY <1>2, <2>1, <2>2, <2>3 DEF LevelInv, Pending, Requested
<1> QED
  BY <1>0, <1>1, <1>2, <1>3, <1>5, <1>6 DEF EdgesInv

\* A reset I/O APIC has no edge under way.
LEMMA ResetEdges ==
    /\ ResetIoApic \in IoApicState
    /\ \A p \in Pins : /\ Pending(ResetIoApic, p) = 0 /\ p \notin ResetIoApic.irr
                       /\ ~ResetIoApic.entry[p].level /\ ResetIoApic.entry[p].masked
<1>1. ResetEntry \in Entry
  BY IoApicAssumption DEF ResetEntry, Entry, Modes
<1>2. <<>> \in Seq(Message)
  OBVIOUS
<1>3. ResetIoApic \in IoApicState
  BY <1>1, <1>2 DEF ResetIoApic, IoApicState
<1>4. ASSUME NEW p \in Pins
      PROVE  /\ p \notin ResetIoApic.irr /\ ResetIoApic.queue = <<>>
             /\ ~ResetIoApic.entry[p].level /\ ResetIoApic.entry[p].masked
  BY DEF ResetIoApic, ResetEntry
<1>5. \A p \in Pins : EdgesAt(<<>>, p) = {}
  BY DEF EdgesAt
<1>6. Cardinality({}) = 0
  BY FS_EmptySet
<1>7. ASSUME NEW p \in Pins PROVE Pending(ResetIoApic, p) = 0
  <2>1. Cardinality(EdgesAt(ResetIoApic.queue, p)) = 0
    BY Zenon, <1>4, <1>5, <1>6
  <2>2. ~Requested(ResetIoApic, p)
    BY SMTT(30), <1>4 DEF Requested
  <2> QED
    BY <2>1, <2>2 DEF Pending
<1> QED
  BY <1>3, <1>4, <1>7

LEMMA EdgesInvInit == HInit => EdgesInv
<1> SUFFICES ASSUME HInit PROVE EdgesInv
  OBVIOUS
<1>1. /\ ioapic = ResetIoApic /\ spoiled = {}
      /\ edges = [p \in Pins |-> 0] /\ accepted = [p \in Pins |-> 0]
  BY DEF HInit, Init
<1> QED
  BY <1>1, ResetEdges DEF EdgesInv, EdgeInv, LevelInv, EdgePins, LevelPins

LEMMA EdgesInvStep == EdgesInv /\ [HNext]_hvars => EdgesInv'
<1> SUFFICES ASSUME EdgesInv, [HNext]_hvars PROVE EdgesInv'
  OBVIOUS
<1>1. CASE HReset
  <2>1. /\ ioapic' = ResetIoApic /\ spoiled' = {}
        /\ edges' = [p \in Pins |-> 0] /\ accepted' = [p \in Pins |-> 0]
    BY <1>1 DEF HReset, Reset
  <2>2. /\ ioapic' \in IoApicState
        /\ \A p \in Pins : /\ Pending(ioapic', p) = 0 /\ p \notin ioapic'.irr
                           /\ ~ioapic'.entry[p].level /\ ioapic'.entry[p].masked
                           /\ edges'[p] = 0 /\ accepted'[p] = 0
    BY <2>1, ResetEdges
  <2>3. edges' \in [Pins -> Nat] /\ accepted' \in [Pins -> Nat]
    BY <2>1
  <2>4. ASSUME NEW p \in Pins
        PROVE  /\ ~(ioapic.entry[p].level)' /\ (ioapic.entry[p].masked)'
               /\ (p \notin ioapic.irr)' /\ Pending(ioapic, p)' = 0
               /\ edges[p]' = 0 /\ accepted[p]' = 0
    BY <2>2 DEF Pending, Requested
  <2>5. ASSUME NEW p \in Pins PROVE EdgeInv(p)' /\ LevelInv(p)'
    <3> HIDE DEF Pending
    <3> QED
      BY SMTT(30), <2>4 DEF EdgeInv, LevelInv
  <2> QED
    BY Zenon, <2>2, <2>3, <2>5 DEF EdgesInv, EdgePins, LevelPins
<1>2. CASE UNCHANGED hvars
  <2>1. ioapic' = ioapic /\ edges' = edges /\ accepted' = accepted /\ spoiled' = spoiled
    BY <1>2 DEF hvars
  <2>2. \A p : EdgeInv(p)' = EdgeInv(p) /\ LevelInv(p)' = LevelInv(p)
    BY Zenon, <2>1 DEF EdgeInv, LevelInv, Pending, Requested
  <2> QED
    BY Zenon, <2>1, <2>2 DEF EdgesInv
<1> QED
  BY Zenon, <1>1, <1>2, SetPinKeeps, WriteKeeps, DeliverKeeps DEF HNext

\* No edge of a pin with one trigger mode is delivered twice, whatever the guest
\* masks, whatever is full and whatever is refused.
THEOREM EdgesAtMostOnce == HSpec => []EdgeAtMostOnce
<1>1. EdgesInv => EdgeAtMostOnce
  <2> SUFFICES ASSUME EdgesInv, NEW p \in Steady
               PROVE  accepted[p] + InFlight(p) <= edges[p]
    BY DEF EdgeAtMostOnce
  <2>1. InFlight(p) = Pending(ioapic, p)
    BY SMTT(30) DEF InFlight, Pending, EdgesAt, Requested
  <2> QED
    BY SMTT(30), <2>1 DEF EdgesInv, EdgeInv, LevelInv, Steady
<1> QED
  BY <1>1, EdgesInvInit, EdgesInvStep, PTL DEF HSpec

\* And none is lost where nothing was full and nothing refused.
THEOREM EdgesExactlyOnce == HSpec => []EdgeExactlyOnce
<1>1. EdgesInv => EdgeExactlyOnce
  <2> SUFFICES ASSUME EdgesInv, NEW p \in Steady \ spoiled
               PROVE  accepted[p] + InFlight(p) = edges[p]
    BY DEF EdgeExactlyOnce
  <2>1. InFlight(p) = Pending(ioapic, p)
    BY DEF InFlight, Pending, EdgesAt, Requested
  <2> QED
    BY <2>1 DEF EdgesInv, EdgeInv, LevelInv, Steady
<1> QED
  BY <1>1, EdgesInvInit, EdgesInvStep, PTL DEF HSpec
-----------------------------------------------------------------------------
(* Level lines, and the way back of their EOIs *)

LevelVectors == {v \in Vectors : \E p \in Pins : \E r \in Routes[p] : r.level /\ r.vector = v}

\* What the guest writes to an entry: one of a level line can be delivered,
\* and others do not bring its vector.
Sound(e) == IF e.level
            THEN /\ e.mode # "extint" /\ (e.mode = "lowest" => e.logical)
                 /\ e.vector \in LevelVectors
            ELSE e.mode = "extint" \/ e.vector \notin LevelVectors

AllSound(a)   == \A p \in Pins : Sound(a.entry[p])
Honest(q)     == \A i \in DOMAIN q : q[i].vector \in LevelVectors => q[i].level
Carried(q, v) == \E i \in DOMAIN q : q[i].vector = v
Owes(a, p)    == /\ p \in a.intin /\ p \in a.irr
                 /\ a.entry[p].level /\ ~a.entry[p].masked

IoGood(a) == a \in IoApicState /\ AllSound(a) /\ Honest(a.queue)

LEMMA LevelVectorsUsable ==
    /\ LevelVectors \in SUBSET Vectors /\ 0 \notin LevelVectors
    /\ \A v \in LevelVectors : v \in Nat /\ L!Usable(v)
<1>1. \A v \in LevelVectors : L!Usable(v)
  BY Zenon, RoutesAssumption DEF LevelVectors
<1>2. ~L!Usable(0)
  BY LevelAssumption DEF L!Usable, L!Class
<1>3. \A v \in Vectors : v \in Nat
  BY LevelAssumption
<1>4. LevelVectors \in SUBSET Vectors
  BY Zenon DEF LevelVectors
<1> QED
  BY Zenon, <1>1, <1>2, <1>3, <1>4

LEMMA RoutesSound ==
    ASSUME NEW p \in Pins, NEW r \in Routes[p], NEW e, SameRoute(r, e)
    PROVE  Sound(e)
<1>1. r \in Route
  BY IoApicAssumption
<1>2. r.vector \in Vectors
  BY Zenon, <1>1 DEF Route
<1>3. CASE r.level
  BY Zenon, <1>2, <1>3, RoutesAssumption DEF Sound, SameRoute, LevelVectors
<1>4. CASE ~r.level
  <2>1. ASSUME r.vector \in LevelVectors PROVE r.mode = "extint"
    <3>1. PICK q \in Pins : \E s \in Routes[q] : s.level /\ s.vector = r.vector
      BY Zenon, <2>1 DEF LevelVectors
    <3>2. PICK s \in Routes[q] : s.level /\ s.vector = r.vector
      BY Zenon, <3>1
    <3> QED
      BY Zenon, <1>4, <3>2, RoutesAssumption
  <2> QED
    BY Zenon, <1>4, <2>1 DEF Sound, SameRoute
<1> QED
  BY Zenon, <1>3, <1>4

LEMMA SoundKept ==
    ASSUME NEW a, NEW b, AllSound(a), SameRoutes(a, b)
    PROVE  AllSound(b)
  BY Zenon DEF AllSound, SameRoutes, SameRoute, Sound

LEMMA EntriesTyped ==
    ASSUME NEW a \in IoApicState, NEW p \in Pins
    PROVE  a.entry[p] \in Entry /\ a.entry[p].vector \in Vectors
<1>1. a.entry[p] \in Entry
  BY Zenon, StateFields
<1> QED
  BY Zenon, <1>1 DEF Entry

\* A message that the scan queues is marked as its entry is.
LEMMA MessageHonest ==
    ASSUME NEW a \in IoApicState, AllSound(a), NEW p \in Pins,
           MessageOf(a, p).vector \in LevelVectors
    PROVE  MessageOf(a, p).level
<1>1. a.entry[p].mode # "extint" /\ MessageOf(a, p).vector = a.entry[p].vector
  BY MessageOfPin, LevelVectorsUsable
<1>2. MessageOf(a, p).level = a.entry[p].level
  BY MessageOfPin
<1> QED
  BY Zenon, <1>1, <1>2 DEF AllSound, Sound

\* A level line that is high and let through is sent by every scan that has
\* the room.
LEMMA OwedIsSent ==
    ASSUME NEW a \in IoApicState, AllSound(a), Len(a.queue) + NPins <= Capacity,
           NEW p \in Pins, Owes(a, p)
    PROVE  /\ p \in Sent(a) /\ MessageOf(a, p).vector = a.entry[p].vector
<1> DEFINE S == {q \in Sendable(a) : q < p}
<1>0. a.queue \in Seq(Message) /\ a.irr \in SUBSET Pins
  BY Zenon, StateFields
<1>1. Sound(a.entry[p]) /\ a.entry[p].level
  BY Zenon DEF AllSound, Owes
<1>2. p \in Sendable(a)
  BY Zenon, <1>1 DEF Owes, Sound, Sendable, Deliverable
<1>3. Sendable(a) \in SUBSET Pins
  BY Zenon, <1>0 DEF Sendable, Deliverable
<1>4. p \in Nat /\ p < NPins /\ NPins \in Nat /\ Capacity \in Nat
  BY IoApicAssumption DEF Pins
<1>5. S \in SUBSET (0..(p - 1))
  BY <1>3, <1>4 DEF Pins
<1>6. 0 \in Int /\ p - 1 \in Int
  BY <1>4
<1>7. IsFiniteSet(0..(p - 1)) /\ Cardinality(0..(p - 1)) = p
  <2> DEFINE c == Cardinality(0..(p - 1))
  <2>1. IsFiniteSet(0..(p - 1)) /\ c = IF 0 > p - 1 THEN 0 ELSE (p - 1) - 0 + 1
    BY Zenon, <1>6, FS_Interval
  <2> HIDE DEF c
  <2>2. c = p
    BY <1>4, <2>1
  <2> QED
    BY Zenon, <2>1, <2>2 DEF c
<1> HIDE DEF S
<1>8. Cardinality(S) <= p /\ Cardinality(S) \in Nat
  BY Zenon, <1>5, <1>7, FS_Subset, FS_CardinalityType
<1>9. Len(a.queue) + Cardinality(S) < Capacity
  BY <1>0, <1>4, <1>8
<1>10. p \in Sent(a)
  BY Zenon, <1>2, <1>9 DEF Sent, S
<1>11. a.entry[p].mode # "extint"
  BY Zenon, <1>1 DEF Sound
<1> QED
  BY <1>10, <1>11, MessageOfPin

\* Queues that are put together carry what both did.
LEMMA QueuesJoin ==
    ASSUME NEW q \in Seq(Message), NEW t \in Seq(Message), Honest(q), Honest(t)
    PROVE  /\ Honest(q \o t)
           /\ \A v : Carried(q, v) => Carried(q \o t, v)
           /\ \A i \in 1..Len(t) : Carried(q \o t, t[i].vector)
<1>1. /\ DOMAIN q = 1..Len(q) /\ DOMAIN t = 1..Len(t) /\ DOMAIN (q \o t) = 1..(Len(q) + Len(t))
      /\ Len(q) \in Nat /\ Len(t) \in Nat
  OBVIOUS
<1>2. \A i \in 1..Len(q) : i \in DOMAIN (q \o t) /\ (q \o t)[i] = q[i]
  OBVIOUS
<1>3. \A i \in 1..Len(t) : Len(q) + i \in DOMAIN (q \o t) /\ (q \o t)[Len(q) + i] = t[i]
  OBVIOUS
<1>4. \A i \in DOMAIN (q \o t) : i \in 1..Len(q) \/ \E j \in 1..Len(t) : i = Len(q) + j
  <2> TAKE i \in DOMAIN (q \o t)
  <2>1. CASE i <= Len(q)
    BY <1>1, <2>1
  <2>2. CASE i > Len(q)
    <3>1. i - Len(q) \in 1..Len(t) /\ i = Len(q) + (i - Len(q))
      BY <1>1, <2>2
    <3> QED
      BY Zenon, <3>1
  <2> QED
    BY <1>1, <2>1, <2>2
<1> DEFINE r == q \o t
<1> HIDE DEF r
<1>5. Honest(r)
  <2> SUFFICES ASSUME NEW i \in DOMAIN r, r[i].vector \in LevelVectors PROVE r[i].level
    BY Zenon DEF Honest
  <2>1. CASE i \in 1..Len(q)
    <3>1. r[i] = q[i] /\ i \in DOMAIN q
      BY Zenon, <1>1, <1>2, <2>1 DEF r
    <3> QED
      BY Zenon, <3>1 DEF Honest
  <2>2. ASSUME NEW j \in 1..Len(t), i = Len(q) + j PROVE r[i].level
    <3>1. r[i] = t[j] /\ j \in DOMAIN t
      BY Zenon, <1>1, <1>3, <2>2 DEF r
    <3> QED
      BY Zenon, <3>1 DEF Honest
  <2> QED
    BY Zenon, <1>4, <2>1, <2>2 DEF r
<1>6. ASSUME NEW v, Carried(q, v) PROVE Carried(r, v)
  <2>1. PICK i \in DOMAIN q : q[i].vector = v
    BY Zenon, <1>6 DEF Carried
  <2>2. i \in DOMAIN r /\ r[i] = q[i]
    BY Zenon, <1>1, <1>2 DEF r
  <2> QED
    BY Zenon, <2>1, <2>2 DEF Carried
<1>7. ASSUME NEW i \in 1..Len(t) PROVE Carried(r, t[i].vector)
  <2>1. Len(q) + i \in DOMAIN r /\ r[Len(q) + i] = t[i]
    BY Zenon, <1>3 DEF r
  <2> QED
    BY Zenon, <2>1 DEF Carried
<1> QED
  BY Zenon, <1>5, <1>6, <1>7 DEF r

\* The scan leaves a message for every level line that is owed.
LEMMA ScanCarries ==
    ASSUME NEW a, IoGood(a), Len(a.queue) + NPins <= Capacity
    PROVE  /\ IoGood(Service(a)) /\ Len(Service(a).queue) <= Len(a.queue) + NPins
           /\ \A p \in Pins : Owes(Service(a), p) =>
                /\ Owes(a, p) /\ Service(a).entry[p].vector = a.entry[p].vector
                /\ Carried(Service(a).queue, a.entry[p].vector)
<1> DEFINE b == Service(a)
           t == Queued(a)
<1>0. a \in IoApicState /\ AllSound(a) /\ Honest(a.queue) /\ a.queue \in Seq(Message)
  BY Zenon, StateFields DEF IoGood
<1>1. /\ b \in IoApicState /\ SameRoutes(a, b) /\ b.intin = a.intin
      /\ b.queue = a.queue \o t /\ b.irr \in SUBSET a.irr
  BY Zenon, <1>0, ServiceFields
<1>2. /\ t \in Seq(Message) /\ Len(t) = Cardinality(Sent(a))
      /\ \A i \in 1..Len(t) : \E p \in Sent(a) : t[i] = MessageOf(a, p)
      /\ \A p \in Sent(a) : \E i \in 1..Len(t) : t[i] = MessageOf(a, p)
  BY Zenon, <1>0, QueuedEffect
<1> HIDE DEF b, t
<1>3. DOMAIN t = 1..Len(t) /\ Len(t) \in Nat /\ Len(a.queue) \in Nat
  BY <1>0, <1>2
<1>4. Honest(t)
  <2> SUFFICES ASSUME NEW i \in 1..Len(t), t[i].vector \in LevelVectors PROVE t[i].level
    BY Zenon, <1>3 DEF Honest
  <2>1. PICK p \in Sent(a) : t[i] = MessageOf(a, p)
    BY Zenon, <1>2
  <2>2. p \in Pins
    BY Zenon, <1>0, SentPins
  <2> QED
    BY ZenonT(30), <1>0, <2>1, <2>2, MessageHonest
<1>5. Honest(b.queue) /\ \A i \in 1..Len(t) : Carried(b.queue, t[i].vector)
  BY Zenon, <1>0, <1>1, <1>2, <1>4, QueuesJoin
<1>6. AllSound(b)
  BY ZenonT(30), <1>0, <1>1, SoundKept
<1>7. Len(b.queue) <= Len(a.queue) + NPins
  <2>1. NPins \in Nat \ {0} /\ 0 \in Int /\ NPins - 1 \in Int
    BY IoApicAssumption
  <2>2. IsFiniteSet(Pins) /\ Cardinality(Pins) = NPins
    BY <2>1, FS_Interval DEF Pins
  <2>3. Cardinality(Sent(a)) <= NPins
    BY <1>0, <2>2, SentPins, FS_Subset
  <2>4. Len(a.queue \o t) = Len(a.queue) + Len(t)
    <3>1. a.queue \in Seq(Message) /\ t \in Seq(Message)
      BY Zenon, <1>0, <1>2
    <3> QED
      BY <3>1
  <2> QED
    BY SMTT(30), <1>1, <1>2, <1>3, <2>1, <2>3, <2>4
<1>8. ASSUME NEW p \in Pins, Owes(b, p)
      PROVE  /\ Owes(a, p) /\ b.entry[p].vector = a.entry[p].vector
             /\ Carried(b.queue, a.entry[p].vector)
  <2>1. Owes(a, p) /\ b.entry[p].vector = a.entry[p].vector
    BY Zenon, <1>1, <1>8 DEF Owes, SameRoutes, SameRoute
  <2>2. p \in Sent(a) /\ MessageOf(a, p).vector = a.entry[p].vector
    BY Zenon, <1>0, <2>1, OwedIsSent
  <2>3. PICK i \in 1..Len(t) : t[i] = MessageOf(a, p)
    BY Zenon, <1>2, <2>2
  <2>4. Carried(b.queue, t[i].vector)
    BY Zenon, <1>5
  <2> QED
    BY ZenonT(30), <2>1, <2>2, <2>3, <2>4
<1> QED
  BY ZenonT(30), <1>1, <1>5, <1>6, <1>7, <1>8 DEF IoGood, b

\* The local APIC knows of every level vector it holds that it is one, so that
\* the EOI comes back.
ApicRegs    == L!Registers({}, {})
ApicGood(b) == /\ b \in ApicRegs
               /\ \A v \in LevelVectors : v \in b.irr \/ v \in b.isr => v \in b.tmr

\* What messages do to a local APIC: they only add requests.
Adds(b, c) == /\ c.isr = b.isr /\ c.eoi = b.eoi
              /\ \A v \in b.irr : v \in c.irr

TriggerBy(b, m) == L!Trigger(b, m.vector, m.level, m.mode = "extint")

LEMMA ApicFields ==
    ASSUME NEW b \in ApicRegs
    PROVE  /\ b.irr \in SUBSET Vectors /\ b.isr \in SUBSET Vectors
           /\ b.tmr \in SUBSET Vectors /\ b.eoi \in Vectors \cup {NoVector}
  BY Zenon DEF ApicRegs, L!Registers

LEMMA ApicServiced ==
    ASSUME NEW b \in ApicRegs
    PROVE  /\ L!Service(b) \in ApicRegs
           /\ L!Service(b).irr = b.irr /\ L!Service(b).isr = b.isr
           /\ L!Service(b).tmr = b.tmr /\ L!Service(b).eoi = b.eoi
  BY Zenon DEF L!Service, ApicRegs, L!Registers

\* INTR is passed on to the processor.
LEMMA IntrPassedOn ==
    ASSUME NEW b \in ApicRegs
    PROVE  /\ [b EXCEPT !.intrPending = FALSE] \in ApicRegs
           /\ [b EXCEPT !.intrPending = FALSE].irr = b.irr
           /\ [b EXCEPT !.intrPending = FALSE].isr = b.isr
           /\ [b EXCEPT !.intrPending = FALSE].tmr = b.tmr
           /\ [b EXCEPT !.intrPending = FALSE].eoi = b.eoi
  BY Zenon DEF ApicRegs, L!Registers

LEMMA MessageFields ==
    ASSUME NEW m \in Message
    PROVE  m.vector \in Vectors /\ m.level \in BOOLEAN
  BY Zenon DEF Message

LEMMA TriggerAdds ==
    ASSUME NEW b, ApicGood(b), NEW m \in Message, m.vector \in LevelVectors => m.level
    PROVE  /\ ApicGood(TriggerBy(b, m)) /\ Adds(b, TriggerBy(b, m))
           /\ L!Usable(m.vector) => m.vector \in TriggerBy(b, m).irr
<1> DEFINE v == m.vector
           bypass == m.mode = "extint"
           c == TriggerBy(b, m)
           I == b.irr \cup {v}
           T == IF m.level THEN b.tmr \cup {v} ELSE b.tmr \ {v}
           d == [b EXCEPT !.irr = I, !.tmr = T]
<1>0. /\ v \in Vectors /\ b \in ApicRegs
      /\ b.irr \in SUBSET Vectors /\ b.isr \in SUBSET Vectors /\ b.tmr \in SUBSET Vectors
  BY Zenon, MessageFields, ApicFields DEF ApicGood
<1>1. c = IF ~L!Usable(v) \/ (v \in b.irr /\ ~bypass) THEN b ELSE L!Service(d)
  BY DEF TriggerBy, L!Trigger
<1>2. I \in SUBSET Vectors /\ T \in SUBSET Vectors
  BY Zenon, <1>0
<1>3. ASSUME NEW w \in LevelVectors, w \in I \/ w \in b.isr PROVE w \in T
  <2>1. CASE w = v
    BY Zenon, <2>1
  <2>2. CASE w # v
    BY Zenon, <1>3, <2>2 DEF ApicGood
  <2> QED
    BY Zenon, <2>1, <2>2
<1>4. \A w \in b.irr : w \in I
  BY Zenon
<1>5. v \in I
  BY Zenon
<1> HIDE DEF I, T, bypass, c
<1>6. /\ d \in ApicRegs /\ d.irr = I /\ d.tmr = T /\ d.isr = b.isr /\ d.eoi = b.eoi
  BY Zenon, <1>0, <1>2 DEF ApicRegs, L!Registers
<1> HIDE DEF d
<1>7. CASE c = b /\ (~L!Usable(v) \/ v \in b.irr)
  BY Zenon, <1>7 DEF Adds, c
<1>8. CASE c = L!Service(d)
  <2>1. /\ c \in ApicRegs /\ c.irr = I /\ c.tmr = T /\ c.isr = b.isr /\ c.eoi = b.eoi
    BY Zenon, <1>6, <1>8, ApicServiced
  <2> QED
    BY Zenon, <1>3, <1>4, <1>5, <2>1 DEF ApicGood, Adds, c
<1> QED
  BY Zenon, <1>1, <1>7, <1>8

LEMMA AddsTransitive ==
    ASSUME NEW b, NEW c, NEW d, Adds(b, c), Adds(c, d)
    PROVE  Adds(b, d)
  BY Zenon DEF Adds

LEMMA LeastNatural ==
    ASSUME NEW T \in SUBSET Nat, T # {}
    PROVE  \E x \in T : \A y \in T : x <= y
<1> DEFINE R == OpToRel(<, Nat)
<1>1. IsWellFoundedOn(R, Nat)
  BY Zenon, NatLessThanWellFounded
<1>2. \A y \in Nat, x \in Nat : y < x => <<y, x>> \in R
  BY DEF OpToRel
<1> HIDE DEF R
<1>3. PICK x \in T : \A y \in T : ~(<<y, x>> \in R)
  BY Zenon, <1>1, WFMin
<1>4. \A y \in T : x <= y
  <2> TAKE y \in T
  <2>1. ~(y < x)
    BY Zenon, <1>2, <1>3
  <2> QED
    BY <2>1
<1> QED
  BY <1>4

\* The states of the local APIC from one message to the next.
LEMMA TriggersExist ==
    ASSUME NEW b, NEW q
    PROVE  \A k \in Nat : \E f :
               f = [n \in 0..k |-> IF n = 0 THEN b ELSE TriggerBy(f[n - 1], q[n])]
<1> DEFINE Chain(f, k) == f = [n \in 0..k |-> IF n = 0 THEN b ELSE TriggerBy(f[n - 1], q[n])]
           T == {k \in Nat : ~\E f : Chain(f, k)}
<1>1. SUFFICES ASSUME T # {} PROVE FALSE
  BY ZenonT(60)
<1>2. PICK k \in T : \A j \in T : k <= j
  BY ZenonT(60), <1>1, LeastNatural
<1>3. k # 0
  <2>1. Chain([n \in 0..0 |-> b], 0)
    OBVIOUS
  <2> QED
    BY ZenonT(60), <1>2, <2>1
<1>4. k - 1 \in Nat /\ k - 1 \notin T
  BY SMTT(30), <1>2, <1>3
<1>5. PICK g : Chain(g, k - 1)
  BY SMTT(30), <1>4
<1> DEFINE f == [n \in 0..k |-> IF n = k THEN TriggerBy(g[k - 1], q[k]) ELSE g[n]]
<1>6. ASSUME NEW n \in 0..k
      PROVE  f[n] = IF n = 0 THEN b ELSE TriggerBy(f[n - 1], q[n])
  <2>1. CASE n = k
    BY SMTT(30), <1>3, <1>4, <2>1
  <2>2. CASE n # k
    <3>1. n \in 0..(k - 1) /\ f[n] = g[n] /\ (n # 0 => f[n - 1] = g[n - 1])
      BY <1>4, <2>2
    <3> QED
      BY SMTT(30), <1>5, <3>1
  <2> QED
    BY SMTT(30), <2>1, <2>2
<1>7. Chain(f, k)
  BY Zenon, <1>6
<1> QED
  BY ZenonT(60), <1>2, <1>7

\* After the messages of a queue, every vector they carry is requested.
LEMMA TriggeredHolds ==
    ASSUME NEW b, ApicGood(b), NEW q \in Seq(Message), Honest(q)
    PROVE  /\ ApicGood(Triggered(b, q)) /\ Adds(b, Triggered(b, q))
           /\ \A v \in LevelVectors : Carried(q, v) => v \in Triggered(b, q).irr
<1> DEFINE k == Len(q)
           f == CHOOSE f : f = [n \in 0..k |-> IF n = 0 THEN b ELSE TriggerBy(f[n - 1], q[n])]
<1>0. k \in Nat /\ DOMAIN q = 1..k /\ \A i \in 1..k : q[i] \in Message
  OBVIOUS
<1>1. f = [n \in 0..k |-> IF n = 0 THEN b ELSE TriggerBy(f[n - 1], q[n])]
  BY SMTT(30), <1>0, TriggersExist
<1>2. Triggered(b, q) = f[k]
  BY DEF Triggered, TriggerBy
<1> HIDE DEF f, k
<1> DEFINE Fine(n) == /\ ApicGood(f[n]) /\ Adds(b, f[n])
                      /\ \A i \in 1..n : L!Usable(q[i].vector) => q[i].vector \in f[n].irr
           T == {n \in 0..k : ~Fine(n)}
<1>3. ASSUME T = {} PROVE Fine(k)
  BY <1>0, <1>3
<1>4. T = {}
  <2> SUFFICES ASSUME T # {} PROVE FALSE
    OBVIOUS
  <2> HIDE DEF Fine
  <2>1. PICK n \in T : \A j \in T : n <= j
    <3>1. T \in SUBSET Nat
      BY <1>0
    <3> HIDE DEF T
    <3> QED
      BY Zenon, <3>1, LeastNatural
  <2>2. n # 0
    <3>1. f[0] = b
      BY <1>0, <1>1
    <3>2. Fine(0)
      BY <3>1 DEF Fine, Adds
    <3> QED
      BY Zenon, <2>1, <3>2
  <2>3. n - 1 \in 0..k /\ Fine(n - 1) /\ n \in 1..k
    BY <1>0, <2>1, <2>2
  <2>4. f[n] = TriggerBy(f[n - 1], q[n])
    BY <1>0, <1>1, <2>3
  <2>5. ApicGood(f[n - 1]) /\ Adds(b, f[n - 1])
    BY Zenon, <2>3 DEF Fine
  <2>6. q[n] \in Message /\ (q[n].vector \in LevelVectors => q[n].level)
    BY Zenon, <1>0, <2>3 DEF Honest
  <2>7. /\ ApicGood(f[n]) /\ Adds(f[n - 1], f[n])
        /\ L!Usable(q[n].vector) => q[n].vector \in f[n].irr
    BY Zenon, <2>4, <2>5, <2>6, TriggerAdds
  <2>8. ASSUME NEW i \in 1..n, L!Usable(q[i].vector) PROVE q[i].vector \in f[n].irr
    <3>1. i = n \/ i \in 1..(n - 1)
      BY <1>0, <2>3
    <3>2. \A j \in 1..(n - 1) : L!Usable(q[j].vector) => q[j].vector \in f[n - 1].irr
      BY Zenon, <2>3 DEF Fine
    <3> QED
      BY Zenon, <2>7, <2>8, <3>1, <3>2 DEF Adds
  <2>9. Fine(n)
    BY Zenon, <2>5, <2>7, <2>8, AddsTransitive DEF Fine
  <2> QED
    BY Zenon, <2>1, <2>9
<1>5. Fine(k)
  BY Zenon, <1>3, <1>4
<1> HIDE DEF T
<1>6. ASSUME NEW v \in LevelVectors, Carried(q, v) PROVE v \in f[k].irr
  <2>1. PICK i \in DOMAIN q : q[i].vector = v
    BY Zenon, <1>6 DEF Carried
  <2> QED
    BY Zenon, <1>0, <1>5, <2>1, LevelVectorsUsable
<1> QED
  BY Zenon, <1>2, <1>5, <1>6

-----------------------------------------------------------------------------
(* The invariant: what a level line owes is requested, in service, on its  *)
(* way to the local APIC, or on its way back.                              *)

Covers(b, q, v) == v \in b.irr \/ v \in b.isr \/ b.eoi = v \/ Carried(q, v)

OwedCovered(a, b) == \A p \in Pins : Owes(a, p) => Covers(b, a.queue, a.entry[p].vector)

OwedInv == /\ IoGood(ioapic) /\ Len(ioapic.queue) < MaxQueued + NPins
           /\ ApicGood(lapic) /\ OwedCovered(ioapic, lapic)

\* A scan has room: devices leave less than MaxQueued messages and one scan.
LEMMA ScanHasRoom ==
    /\ OwedInv => Len(ioapic.queue) + NPins <= Capacity
    /\ OwedInv => Len(ioapic.queue) \in Nat
    /\ NPins \in Nat \ {0} /\ MaxQueued \in Nat /\ Capacity \in Nat
<1>1. NPins \in Nat \ {0} /\ MaxQueued \in Nat /\ Capacity \in Nat
      /\ MaxQueued + 2 * NPins <= Capacity
  BY IoApicAssumption, LevelAssumption
<1>2. ASSUME OwedInv PROVE Len(ioapic.queue) \in Nat /\ Len(ioapic.queue) < MaxQueued + NPins
  <2>1. ioapic.queue \in Seq(Message) /\ Len(ioapic.queue) < MaxQueued + NPins
    BY Zenon, <1>2, StateFields DEF OwedInv, IoGood
  <2> QED
    BY <2>1
<1> QED
  BY <1>1, <1>2

\* The messages arrive and are answered: what was carried is requested.
LEMMA SettleKeeps ==
    ASSUME NEW a, IoGood(a), NEW b, ApicGood(b), OwedCovered(a, b), Settle(a, b)
    PROVE  OwedInv'
<1> DEFINE done == [i \in DOMAIN a.queue |-> TRUE]
           c == Triggered(b, a.queue)
<1>0. a \in IoApicState /\ AllSound(a) /\ Honest(a.queue) /\ a.queue \in Seq(Message)
  BY Zenon, StateFields DEF IoGood
<1>1. done \in [DOMAIN a.queue -> BOOLEAN]
  BY Zenon
<1>2. /\ ioapic' \in IoApicState /\ SameRoutes(a, ioapic')
      /\ ioapic'.intin = a.intin /\ ioapic'.queue = <<>>
      /\ \A p \in Pins :
           /\ EdgesAt(a.queue, p) = {} => (p \in ioapic'.irr <=> p \in a.irr)
           /\ EdgesAt(a.queue, p) # {} =>
                \E m \in EdgesAt(a.queue, p) : p \in ioapic'.irr <=> ~done[m]
  <2>1. ioapic' = Answered(a, done)
    BY Zenon DEF Settle
  <2> HIDE DEF done
  <2> QED
    BY ZenonT(30), <1>0, <1>1, <2>1, AnswerFields
<1>3. \A p \in Pins : \A m \in EdgesAt(a.queue, p) : done[m]
  BY Zenon DEF EdgesAt
<1> HIDE DEF done
<1>4. \A p \in Pins : p \in ioapic'.irr => p \in a.irr
  BY Zenon, <1>2, <1>3
<1>5. /\ ApicGood(c) /\ Adds(b, c)
      /\ \A v \in LevelVectors : Carried(a.queue, v) => v \in c.irr
  BY Zenon, <1>0, TriggeredHolds
<1>6. lapic' = [c EXCEPT !.intrPending = FALSE] /\ c \in ApicRegs
  BY Zenon, <1>5 DEF Settle, ApicGood
<1> HIDE DEF c
<1>7. /\ lapic' \in ApicRegs /\ lapic'.irr = c.irr /\ lapic'.isr = c.isr
      /\ lapic'.tmr = c.tmr /\ lapic'.eoi = c.eoi
  BY Zenon, <1>6, IntrPassedOn
<1>8. ApicGood(lapic)'
  BY Zenon, <1>5, <1>7 DEF ApicGood
<1>9. IoGood(ioapic)' /\ Len(ioapic'.queue) = 0
  <2>1. AllSound(ioapic')
    BY ZenonT(30), <1>0, <1>2, SoundKept
  <2>2. Honest(<<>>) /\ Len(<<>>) = 0
    BY DEF Honest
  <2> QED
    BY ZenonT(30), <1>2, <2>1, <2>2 DEF IoGood
<1>10. Len(ioapic'.queue) < MaxQueued + NPins
  BY <1>9, IoApicAssumption, LevelAssumption
<1>11. ASSUME NEW p \in Pins, Owes(ioapic', p)
       PROVE  Covers(lapic', ioapic'.queue, ioapic'.entry[p].vector)
  <2> DEFINE v == a.entry[p].vector
  <2>1. Owes(a, p) /\ ioapic'.entry[p].vector = v
    BY Zenon, <1>2, <1>4, <1>11 DEF Owes, SameRoutes, SameRoute
  <2>2. v \in LevelVectors
    BY Zenon, <1>0, <2>1 DEF AllSound, Sound, Owes
  <2>3. Covers(b, a.queue, v)
    BY Zenon, <2>1 DEF OwedCovered
  <2> HIDE DEF v
  <2>4. v \in c.irr \/ v \in c.isr \/ c.eoi = v
    BY ZenonT(30), <1>5, <2>2, <2>3 DEF Covers, Adds
  <2> QED
    BY ZenonT(30), <1>7, <2>1, <2>4 DEF Covers
<1> QED
  BY Zenon, <1>8, <1>9, <1>10, <1>11 DEF OwedInv, OwedCovered

LEMMA EBoundaryKeeps == ASSUME OwedInv, EBoundary PROVE OwedInv'
  BY Zenon, SettleKeeps DEF OwedInv, EBoundary

\* The EOI of a vector that a high line uses makes a scan, which sends all
\* that is owed; any other EOI covered nothing.
LEMMA EoiHandledKeeps == ASSUME Backend, OwedInv, EoiHandled PROVE OwedInv'
<1> DEFINE v == lapic.eoi
           a == AtEoi(ioapic, v)
           b == [lapic EXCEPT !.eoi = NoVector]
<1>0. /\ IoGood(ioapic) /\ ApicGood(lapic) /\ OwedCovered(ioapic, lapic)
      /\ lapic \in ApicRegs /\ ioapic.irr \in SUBSET Pins
  BY Zenon, StateFields DEF OwedInv, ApicGood, IoGood
<1>1. Settle(a, b)
  BY Zenon DEF EoiHandled
<1>2. /\ b \in ApicRegs /\ b.irr = lapic.irr /\ b.isr = lapic.isr /\ b.tmr = lapic.tmr
  BY Zenon, <1>0 DEF ApicRegs, L!Registers
<1> HIDE DEF b
<1>3. ApicGood(b)
  BY Zenon, <1>0, <1>2 DEF ApicGood
<1>4. CASE HasAssertedLevelEntry(ioapic, v)
  <2>1. a = Service(ioapic)
    BY Zenon, <1>4 DEF AtEoi
  <2>2. /\ IoGood(a)
        /\ \A p \in Pins : Owes(a, p) =>
             a.entry[p].vector = ioapic.entry[p].vector /\ Carried(a.queue, ioapic.entry[p].vector)
    BY Zenon, <1>0, <2>1, ScanHasRoom, ScanCarries
  <2> HIDE DEF a
  <2>3. OwedCovered(a, b)
    BY Zenon, <2>2 DEF OwedCovered, Covers
  <2> QED
    BY Zenon, <1>1, <1>3, <2>2, <2>3, SettleKeeps
<1>5. CASE ~HasAssertedLevelEntry(ioapic, v)
  <2>1. a = ioapic
    BY Zenon, <1>5 DEF AtEoi
  <2>2. ASSUME NEW p \in Pins, Owes(ioapic, p)
        PROVE  Covers(b, ioapic.queue, ioapic.entry[p].vector)
    <3>1. ioapic.entry[p].vector # lapic.eoi
      BY Zenon, <1>5, <2>2 DEF HasAssertedLevelEntry, Owes
    <3>2. Covers(lapic, ioapic.queue, ioapic.entry[p].vector)
      BY Zenon, <1>0, <2>2 DEF OwedCovered
    <3> QED
      BY Zenon, <1>2, <3>1, <3>2 DEF Covers
  <2>3. OwedCovered(a, b)
    BY Zenon, <2>1, <2>2 DEF OwedCovered
  <2> QED
    BY ZenonT(30), <1>0, <1>1, <1>3, <2>1, <2>3, SettleKeeps
<1> QED
  BY Zenon, <1>4, <1>5

\* The lines and the queue are as before, and so is what is requested, in
\* service or waiting as an EOI.
LEMMA ApicStepKeeps ==
    ASSUME OwedInv, UNCHANGED ioapic, ApicGood(lapic)',
           \A v \in LevelVectors : v \in lapic.irr \/ v \in lapic.isr \/ lapic.eoi = v =>
               v \in lapic'.irr \/ v \in lapic'.isr \/ lapic'.eoi = v
    PROVE  OwedInv'
<1>1. ASSUME NEW p \in Pins, Owes(ioapic, p)
      PROVE  Covers(lapic', ioapic.queue, ioapic.entry[p].vector)
  <2>1. ioapic.entry[p].vector \in LevelVectors
    BY Zenon, <1>1 DEF OwedInv, IoGood, AllSound, Sound, Owes
  <2>2. Covers(lapic, ioapic.queue, ioapic.entry[p].vector)
    BY Zenon, <1>1 DEF OwedInv, OwedCovered
  <2> QED
    BY Zenon, <2>1, <2>2 DEF Covers
<1> QED
  BY Zenon, <1>1 DEF OwedInv, OwedCovered

LEMMA HighestIn ==
    ASSUME NEW S \in SUBSET Vectors, S # {}
    PROVE  Max(S) \in S /\ L!Max(S) \in S
<1>1. S \in SUBSET (0..MaxVector) /\ MaxVector \in Nat /\ S \in SUBSET Nat
  BY LevelAssumption
<1>2. IsFiniteSet(0..MaxVector)
  BY <1>1, FS_Interval
<1>3. IsFiniteSet(S)
  BY ZenonT(30), <1>1, <1>2, FS_Subset
<1>4. \E m \in S : \A x \in S : m >= x
  BY <1>1, <1>3, HighestVisited
<1> QED
  BY <1>4 DEF Max, L!Max

LEMMA TakeKeeps == ASSUME OwedInv, Take PROVE OwedInv'
<1> DEFINE c == L!Acknowledge(lapic)
           m == L!Max(lapic.irr)
           I == lapic.irr \ {m}
           S == lapic.isr \cup {m}
           d == [lapic EXCEPT !.intr = FALSE]
           e == [lapic EXCEPT !.irr = I, !.isr = S, !.intr = FALSE]
<1>0. /\ ApicGood(lapic) /\ lapic \in ApicRegs
      /\ lapic.irr \in SUBSET Vectors /\ lapic.isr \in SUBSET Vectors
  BY Zenon, ApicFields DEF OwedInv, ApicGood
<1>1. c = IF ~L!Deliverable(lapic) THEN d ELSE L!Service(e)
  BY Zenon DEF L!Acknowledge
<1>2. ASSUME L!Deliverable(lapic)
      PROVE  /\ I \in SUBSET Vectors /\ S \in SUBSET Vectors
             /\ \A v : v \in I \/ v \in S <=> v \in lapic.irr \/ v \in lapic.isr
  <2>1. m \in lapic.irr
    BY Zenon, <1>0, <1>2, HighestIn DEF L!Deliverable
  <2> QED
    BY Zenon, <1>0, <2>1
<1> HIDE DEF I, S, c, m
<1>3. /\ c \in ApicRegs /\ c.tmr = lapic.tmr /\ c.eoi = lapic.eoi
      /\ \A v : v \in c.irr \/ v \in c.isr <=> v \in lapic.irr \/ v \in lapic.isr
  <2>1. CASE ~L!Deliverable(lapic)
    <3>1. /\ d \in ApicRegs /\ d.irr = lapic.irr /\ d.isr = lapic.isr
          /\ d.tmr = lapic.tmr /\ d.eoi = lapic.eoi
      BY Zenon, <1>0 DEF ApicRegs, L!Registers
    <3> QED
      BY ZenonT(30), <1>1, <2>1, <3>1
  <2>2. CASE L!Deliverable(lapic)
    <3>1. /\ e \in ApicRegs /\ e.irr = I /\ e.isr = S
          /\ e.tmr = lapic.tmr /\ e.eoi = lapic.eoi
      BY Zenon, <1>0, <1>2, <2>2 DEF ApicRegs, L!Registers
    <3> HIDE DEF e
    <3>2. /\ c \in ApicRegs /\ c.irr = I /\ c.isr = S
          /\ c.tmr = lapic.tmr /\ c.eoi = lapic.eoi
      BY Zenon, <1>1, <2>2, <3>1, ApicServiced
    <3> QED
      BY Zenon, <1>2, <2>2, <3>2
  <2> QED
    BY ZenonT(30), <2>1, <2>2
<1>4. lapic' = [c EXCEPT !.intrPending = FALSE] /\ UNCHANGED ioapic
  BY Zenon DEF Take, c
<1>5. /\ lapic' \in ApicRegs /\ lapic'.tmr = lapic.tmr /\ lapic'.eoi = lapic.eoi
      /\ \A v : v \in lapic'.irr \/ v \in lapic'.isr <=> v \in lapic.irr \/ v \in lapic.isr
  BY Zenon, <1>3, <1>4, IntrPassedOn
<1>6. ApicGood(lapic)'
  BY Zenon, <1>0, <1>5 DEF ApicGood
<1> QED
  BY ZenonT(30), <1>4, <1>5, <1>6, ApicStepKeeps

\* The EOI of a level vector leaves it for the I/O APIC.
LEMMA WriteEoiKeeps == ASSUME Backend, OwedInv, WriteEoi PROVE OwedInv'
<1> DEFINE v == Max(lapic.isr)
           S == lapic.isr \ {v}
           x == IF v \in lapic.tmr THEN v ELSE lapic.eoi
           d == [lapic EXCEPT !.isr = S, !.eoi = x]
           c == HypervisorEoi(lapic)
<1>0. /\ ApicGood(lapic) /\ lapic \in ApicRegs /\ lapic.eoi = NoVector
      /\ lapic.irr \in SUBSET Vectors /\ lapic.isr \in SUBSET Vectors
      /\ lapic.eoi \in Vectors \cup {NoVector}
  BY Zenon, ApicFields DEF OwedInv, ApicGood, WriteEoi, Runs
<1>1. c = L!Service(d)
  BY Zenon DEF HypervisorEoi
<1>2. v \in lapic.isr
  BY Zenon, <1>0, HighestIn DEF WriteEoi
<1>3. /\ S \in SUBSET Vectors /\ x \in Vectors \cup {NoVector}
      /\ \A w \in S : w \in lapic.isr
      /\ \A w \in lapic.isr : w # v => w \in S
      /\ v \in lapic.tmr => x = v
  BY Zenon, <1>0, <1>2
<1> HIDE DEF S, x, c, v
<1>4. /\ d \in ApicRegs /\ d.irr = lapic.irr /\ d.isr = S /\ d.tmr = lapic.tmr /\ d.eoi = x
  BY Zenon, <1>0, <1>3 DEF ApicRegs, L!Registers
<1> HIDE DEF d
<1>5. /\ c \in ApicRegs /\ c.irr = lapic.irr /\ c.isr = S /\ c.tmr = lapic.tmr /\ c.eoi = x
  BY Zenon, <1>1, <1>4, ApicServiced
<1>6. lapic' = [c EXCEPT !.intrPending = FALSE] /\ UNCHANGED ioapic
  BY Zenon DEF WriteEoi, c
<1>7. /\ lapic' \in ApicRegs /\ lapic'.irr = lapic.irr /\ lapic'.isr = S
      /\ lapic'.tmr = lapic.tmr /\ lapic'.eoi = x
  BY Zenon, <1>5, <1>6, IntrPassedOn
<1>8. ApicGood(lapic)'
  BY ZenonT(30), <1>0, <1>3, <1>7 DEF ApicGood
<1>9. ASSUME NEW w \in LevelVectors, w \in lapic.irr \/ w \in lapic.isr \/ lapic.eoi = w
      PROVE  w \in lapic'.irr \/ w \in lapic'.isr \/ lapic'.eoi = w
  <2>1. w # NoVector
    BY Zenon, LevelVectorsUsable, LevelAssumption
  <2>2. w = v => v \in lapic.tmr
    BY ZenonT(30), <1>0, <1>2 DEF ApicGood
  <2> QED
    BY Zenon, <1>0, <1>3, <1>7, <1>9, <2>1, <2>2
<1> QED
  BY ZenonT(30), <1>6, <1>8, <1>9, ApicStepKeeps

\* Whatever the lines were, a scan of them keeps the invariant.
LEMMA ScanKeeps ==
    ASSUME OwedInv, UNCHANGED lapic, NEW a, IoGood(a), a.queue = ioapic.queue,
           Len(ioapic.queue) < MaxQueued, ioapic' = Service(a)
    PROVE  OwedInv'
<1>1. Len(a.queue) + NPins <= Capacity
  BY Zenon, ScanHasRoom
<1>2. /\ IoGood(ioapic)' /\ Len(ioapic'.queue) <= Len(a.queue) + NPins
      /\ \A p \in Pins : Owes(ioapic', p) => Carried(ioapic'.queue, ioapic'.entry[p].vector)
  BY Zenon, <1>1, ScanCarries
<1>3. Len(ioapic'.queue) < MaxQueued + NPins
  <2>1. ioapic'.queue \in Seq(Message)
    BY Zenon, <1>2, StateFields DEF IoGood
  <2>2. Len(ioapic'.queue) \in Nat
    BY <2>1
  <2>3. Len(ioapic.queue) \in Nat /\ NPins \in Nat /\ MaxQueued \in Nat
    BY ScanHasRoom
  <2> QED
    BY <1>2, <2>2, <2>3
<1> QED
  BY Zenon, <1>2, <1>3 DEF OwedInv, OwedCovered, Covers

\* A move without a scan makes no level line owe.
LEMMA MoveOwes ==
    ASSUME NEW a \in IoApicState, NEW p \in Pins, NEW level \in BOOLEAN,
           ~NeedsService(a, p, level), NEW q \in Pins, Owes(MovePin(a, p, level), q)
    PROVE  Owes(a, q)
<1> DEFINE b == MovePin(a, p, level)
           down == [a EXCEPT !.intin = @ \ {p},
                             !.irr = IF a.entry[p].level THEN @ \ {p} ELSE @]
<1>1. \/ b = a
      \/ b = [a EXCEPT !.intin = @ \cup {p}, !.irr = @] /\ level /\ p \notin a.intin
      \/ b = down
  BY Zenon DEF MovePin
<1>2. CASE b = a
  BY Zenon, <1>2
<1>3. CASE b = [a EXCEPT !.intin = @ \cup {p}, !.irr = @] /\ level /\ p \notin a.intin
  <2>1. b.intin = a.intin \cup {p} /\ b.irr = a.irr /\ b.entry = a.entry
    BY Zenon, <1>3 DEF IoApicState
  <2>2. ~a.entry[p].level
    BY Zenon, <1>3 DEF NeedsService
  <2> HIDE DEF b
  <2> QED
    BY ZenonT(30), <2>1, <2>2 DEF Owes, b
<1>4. CASE b = down
  <2>1. /\ b.intin = a.intin \ {p} /\ b.entry = a.entry
        /\ b.irr = a.irr \/ b.irr = a.irr \ {p}
    BY Zenon, <1>4 DEF IoApicState
  <2> QED
    BY Zenon, <2>1 DEF Owes
<1> QED
  BY Zenon, <1>1, <1>2, <1>3, <1>4

LEMMA MoveKeeps ==
    ASSUME OwedInv, NEW p \in Pins, NEW level \in BOOLEAN, Move(p, level)
    PROVE  OwedInv'
<1> DEFINE a == MovePin(ioapic, p, level)
<1>0. /\ ioapic \in IoApicState /\ AllSound(ioapic) /\ Honest(ioapic.queue)
      /\ Len(ioapic.queue) < MaxQueued /\ UNCHANGED lapic
      /\ ApicGood(lapic) /\ OwedCovered(ioapic, lapic)
      /\ Len(ioapic.queue) < MaxQueued + NPins
  BY Zenon DEF OwedInv, IoGood, Move
<1>1. a \in IoApicState /\ a.entry = ioapic.entry /\ a.queue = ioapic.queue
  BY Zenon, <1>0, MoveEffect
<1>2. ioapic' = IF NeedsService(ioapic, p, level) THEN Service(a) ELSE a
  BY Zenon DEF Move, SetPin
<1>3. \A q \in Pins : ~NeedsService(ioapic, p, level) /\ Owes(a, q) => Owes(ioapic, q)
  BY Zenon, <1>0, MoveOwes
<1> HIDE DEF a
<1>4. IoGood(a)
  BY Zenon, <1>0, <1>1 DEF IoGood, AllSound
<1>5. CASE NeedsService(ioapic, p, level)
  BY ZenonT(30), <1>0, <1>1, <1>2, <1>4, <1>5, ScanKeeps
<1>6. CASE ~NeedsService(ioapic, p, level)
  <2>1. ioapic' = a
    BY Zenon, <1>2, <1>6
  <2>2. ASSUME NEW q \in Pins, Owes(a, q) PROVE Covers(lapic, a.queue, a.entry[q].vector)
    BY ZenonT(30), <1>0, <1>1, <1>3, <1>6, <2>2 DEF OwedCovered
  <2> QED
    BY ZenonT(30), <1>0, <1>1, <1>4, <2>1, <2>2 DEF OwedInv, OwedCovered
<1> QED
  BY Zenon, <1>5, <1>6

LEMMA WriteRouteKeeps == ASSUME OwedInv, NEW p \in Pins, Write(p) PROVE OwedInv'
<1>1. PICK r \in Routes[p] : ioapic' = Service(WithRoute(ioapic, p, r))
  BY Zenon DEF Write, WriteLow
<1> DEFINE a == WithRoute(ioapic, p, r)
<1>0. /\ ioapic \in IoApicState /\ AllSound(ioapic) /\ Honest(ioapic.queue)
      /\ Len(ioapic.queue) < MaxQueued /\ UNCHANGED lapic
  BY Zenon DEF OwedInv, IoGood, Write
<1>2. /\ a \in IoApicState /\ a.queue = ioapic.queue /\ SameRoute(r, a.entry[p])
      /\ \A q \in Pins \ {p} : a.entry[q] = ioapic.entry[q]
  BY Zenon, <1>0, RouteEffect
<1> HIDE DEF a
<1>3. ASSUME NEW q \in Pins PROVE Sound(a.entry[q])
  <2>1. CASE q = p
    BY Zenon, <1>2, <2>1, RoutesSound
  <2>2. CASE q # p
    BY Zenon, <1>0, <1>2, <2>2 DEF AllSound
  <2> QED
    BY Zenon, <2>1, <2>2
<1>4. IoGood(a)
  BY Zenon, <1>0, <1>2, <1>3 DEF IoGood, AllSound
<1> QED
  BY ZenonT(30), <1>0, <1>1, <1>2, <1>4, ScanKeeps DEF a

LEMMA OwedInit == EInit => OwedInv
<1> SUFFICES ASSUME EInit PROVE OwedInv
  OBVIOUS
<1>1. ioapic = ResetIoApic /\ lapic = L!ResetLapic
  BY Zenon DEF EInit, Init
<1>2. ResetEntry \in Entry /\ ~ResetEntry.level /\ ResetEntry.vector = 0
  BY IoApicAssumption DEF ResetEntry, Entry, Modes
<1>3. Sound(ResetEntry)
  BY Zenon, <1>2, LevelVectorsUsable DEF Sound
<1>4. ioapic \in IoApicState
  <2> DEFINE f == [p \in Pins |-> ResetEntry]
  <2>1. f \in [Pins -> Entry] /\ <<>> \in Seq(Message) /\ {} \in SUBSET Pins
    BY <1>2
  <2>2. ioapic = [intin |-> {}, irr |-> {}, entry |-> f, queue |-> <<>>]
    BY Zenon, <1>1 DEF ResetIoApic
  <2> HIDE DEF f
  <2> QED
    BY Zenon, <2>1, <2>2 DEF IoApicState
<1>5. /\ ioapic.queue = <<>> /\ ioapic.irr = {} /\ \A p \in Pins : ioapic.entry[p] = ResetEntry
  BY Zenon, <1>1 DEF ResetIoApic
<1>6. Honest(<<>>) /\ Len(<<>>) < MaxQueued + NPins
  BY ScanHasRoom DEF Honest
<1>7. lapic.irr = {} /\ lapic.isr = {} /\ lapic \in ApicRegs
  <2>1. /\ {} \in SUBSET Vectors /\ 0 \in Nat /\ MaxVector \in 0..MaxVector
        /\ <<>> \in Seq({}) /\ NoVector \in Vectors \cup {NoVector}
    BY LevelAssumption
  <2> QED
    BY Zenon, <1>1, <2>1 DEF L!ResetLapic, ApicRegs, L!Registers
<1>8. \A p \in Pins : ~Owes(ioapic, p)
  BY Zenon, <1>5 DEF Owes
<1> QED
  BY Zenon, <1>3, <1>4, <1>5, <1>6, <1>7, <1>8
  DEF OwedInv, IoGood, AllSound, ApicGood, OwedCovered

LEMMA OwedStep == ASSUME Backend PROVE OwedInv /\ [ENext]_evars => OwedInv'
<1> SUFFICES ASSUME OwedInv, [ENext]_evars PROVE OwedInv'
  OBVIOUS
<1>1. CASE UNCHANGED evars
  BY Zenon, <1>1 DEF evars, OwedInv
<1>2. CASE ENext
  BY Zenon, <1>2, MoveKeeps, WriteRouteKeeps, EBoundaryKeeps, EoiHandledKeeps, TakeKeeps,
     WriteEoiKeeps DEF ENext
<1> QED
  BY Zenon, <1>1, <1>2

\* LevelOwed for every number of pins and vectors, and whatever the guest
\* writes to its entries within RoutesAssumption: behind a hypervisor, whose
\* EOIs come to resample_on_eoi, a line that is high when everything has been
\* dealt with is requested or in service.
THEOREM LevelLinesOwed == ASSUME Backend PROVE ESpec => []LevelOwed
<1>1. OwedInv => LevelOwed
  <2> SUFFICES ASSUME OwedInv, ioapic.queue = <<>>, lapic.eoi = NoVector,
                      NEW p \in Pins, Owing(p)
               PROVE  ioapic.entry[p].vector \in lapic.irr \cup lapic.isr
    BY Zenon DEF LevelOwed
  <2> DEFINE v == ioapic.entry[p].vector
  <2>1. Owes(ioapic, p)
    BY Zenon DEF Owing, Owes
  <2>2. v \in LevelVectors
    BY Zenon, <2>1 DEF OwedInv, IoGood, AllSound, Sound, Owes
  <2>3. v # NoVector
    BY Zenon, <2>2, LevelVectorsUsable, LevelAssumption
  <2>4. Covers(lapic, <<>>, v)
    BY Zenon, <2>1 DEF OwedInv, OwedCovered
  <2>5. ~Carried(<<>>, v)
    BY DEF Carried
  <2> QED
    BY ZenonT(30), <2>3, <2>4, <2>5 DEF Covers
<1> QED
  BY <1>1, OwedInit, OwedStep, PTL DEF ESpec

-----------------------------------------------------------------------------
(* The level of INT *)

PubInv == PubTypeOK /\ PublishedIsEngine

\* An event level is handed to a processor as a Boolean.
LEMMA LegacyIntrType ==
    ASSUME PubTypeOK, NEW c \in Cpus, NEW level \in BOOLEAN
    PROVE  LegacyIntr(c, level) \in [Cpus -> BOOLEAN]
  BY DEF PubTypeOK, LegacyIntr

\* A boundary keeps the invariant, whatever work it finds, whether a reset is
\* pending and whether the engine takes the level.
LEMMA BoundaryKeeps ==
    ASSUME PubInv, NEW moves \in BOOLEAN, NEW taken \in BOOLEAN,
           NEW next \in {"entry", "slice", "commit"},
           Boundary(moves, next, taken)
    PROVE  /\ PinTypeOK' /\ pc' \in {"entry", "slice", "commit"}
           /\ resetRequest' \in {"none", "software", "hardware"}
           /\ event' \in [Cpus -> BOOLEAN] /\ admits' \in [Cpus -> BOOLEAN]
           /\ published' \in BOOLEAN /\ published' = engine'
<1>0. Bsp \in Cpus
  BY NcpusAssumption DEF Bsp, Cpus
<1>1. CASE resetRequest # "none"
  <2>1. ResetMachine(taken) /\ pc' = "entry"
    BY <1>1 DEF Boundary
  <2>2. published' \in BOOLEAN /\ published' = engine'
    BY Zenon, <2>1 DEF ResetMachine, Tell, PubInv, PubTypeOK, PublishedIsEngine
  <2>3. PinTypeOK'
    BY <2>1 DEF ResetMachine, PubInv, PubTypeOK, PinTypeOK
  <2>4. event' \in [Cpus -> BOOLEAN] /\ admits' \in [Cpus -> BOOLEAN]
    BY <2>1 DEF ResetMachine, PresetLint0
  <2> QED
    BY <2>1, <2>2, <2>3, <2>4 DEF ResetMachine
<1>2. CASE resetRequest = "none"
  <2>1. pin' \in BOOLEAN /\ SyncFinal(taken) /\ UNCHANGED resetRequest
        /\ pc' \in {"entry", next}
    BY <1>2 DEF Boundary, PubInv, PubTypeOK, PinTypeOK
  <2>2. published' \in BOOLEAN /\ published' = engine'
    BY <2>1 DEF SyncFinal, Tell, PubInv, PubTypeOK, PublishedIsEngine
  <2>3. PinTypeOK' /\ admits' \in [Cpus -> BOOLEAN]
    BY Zenon, <2>1 DEF SyncFinal, PinTypeOK, PubInv, PubTypeOK
  <2>4. event' \in [Cpus -> BOOLEAN]
    BY <1>0, <2>1, LegacyIntrType DEF SyncFinal, PubInv
  <2> QED
    BY <2>1, <2>2, <2>3, <2>4 DEF PubInv, PubTypeOK
<1> QED
  BY <1>1, <1>2

\* Initially neither has heard of the pin.
LEMMA PubInvInit == PubInit => PubInv
<1> SUFFICES ASSUME PubInit PROVE PubInv
  OBVIOUS
<1>1. Bsp \in Cpus
  BY NcpusAssumption DEF Bsp, Cpus
<1> QED
  BY Zenon, <1>1 DEF PubInit, PubInv, PubTypeOK, PublishedIsEngine, PinInit, PinTypeOK, PresetLint0

\* Every step keeps it.
LEMMA PubInvStep == PubInv /\ [PubNext]_vars => PubInv'
<1> SUFFICES ASSUME PubInv, [PubNext]_vars PROVE PubInv'
  OBVIOUS
<1>0. Bsp \in Cpus
  BY NcpusAssumption DEF Bsp, Cpus
<1> USE DEF PubInv
<1>1. CASE PortIo
  <2>1. event' \in [Cpus -> BOOLEAN]
    BY <1>1, LegacyIntrType DEF PortIo, PubTypeOK
  <2>2. resetRequest' \in {"none", "software", "hardware"} /\ requested' \in BOOLEAN
    BY Zenon, <1>1 DEF PortIo, PubTypeOK
  <2> QED
    BY ZenonT(30), <1>1, <2>1, <2>2 DEF PortIo, PubTypeOK, PinTypeOK, PublishedIsEngine
<1>2. CASE Mmio
  BY <1>2 DEF Mmio, Drive, PubTypeOK, PinTypeOK, PublishedIsEngine, batch, lines
<1>3. CASE Acknowledge
  BY Zenon, <1>3 DEF Acknowledge, Drive, PubTypeOK, PinTypeOK, PublishedIsEngine, batch
<1>4. CASE WriteLvt0
  BY <1>4 DEF WriteLvt0, PubTypeOK, PinTypeOK, PublishedIsEngine, batch, pinVars
<1>5. ASSUME NEW taken \in BOOLEAN, EnterBatch(taken) PROVE PubInv'
  BY Zenon, <1>5, BoundaryKeeps DEF EnterBatch, PubTypeOK, PublishedIsEngine
<1>6. ASSUME NEW taken \in BOOLEAN, EndSlice(taken) PROVE PubInv'
  <2>1. PICK c \in Cpus, next \in {"slice", "commit"} :
            /\ cpu' = c
            /\ \/ Boundary(FALSE, next, taken)
               \/ pc' = next /\ UNCHANGED <<pinVars, resetRequest, lines>>
    BY Zenon, <1>6 DEF EndSlice
  <2>2. requested' = FALSE
    BY <1>6 DEF EndSlice
  <2>3. CASE Boundary(FALSE, next, taken)
    BY ZenonT(30), <2>1, <2>2, <2>3, BoundaryKeeps DEF PubTypeOK, PublishedIsEngine
  <2>4. CASE pc' = next /\ UNCHANGED <<pinVars, resetRequest, lines>>
    BY ZenonT(30), <2>1, <2>2, <2>4 DEF PubTypeOK, PinTypeOK, PublishedIsEngine, pinVars, lines
  <2> QED
    BY Zenon, <2>1, <2>3, <2>4
<1>7. ASSUME NEW taken \in BOOLEAN, Commit(taken) PROVE PubInv'
  <2>1. PICK next \in {"slice", "entry"} : Boundary(TRUE, next, taken)
    BY Zenon, <1>7 DEF Commit
  <2> QED
    BY Zenon, <1>7, <2>1, BoundaryKeeps DEF Commit, PubTypeOK, PublishedIsEngine
<1>8. CASE UNCHANGED vars
  BY <1>8 DEF vars, batch, lines, pinVars, PubTypeOK, PinTypeOK, PublishedIsEngine
<1> QED
  BY SMTT(30), <1>1, <1>2, <1>3, <1>4, <1>5, <1>6, <1>7, <1>8 DEF PubNext, Guest

\* pic_pin_published is the level the engine holds, through refusals, resets
\* and boundaries in any order, for any number of processors.
THEOREM EngineToldTruth == PubSpec => []PublishedIsEngine
<1>1. PubInv => PublishedIsEngine
  BY DEF PubInv
<1> QED
  BY <1>1, PubInvInit, PubInvStep, PTL DEF PubSpec

\* The variables keep their types.
THEOREM PublicationTyped == PubSpec => []PubTypeOK
<1>1. PubInv => PubTypeOK
  BY DEF PubInv
<1> QED
  BY <1>1, PubInvInit, PubInvStep, PTL DEF PubSpec
=============================================================================
