--------------------------- MODULE ApicBusProofs ---------------------------
(***************************************************************************)
(* Messages between processors, for any number of processors, any vectors  *)
(* and any commands: each arrives where it was meant for, before anybody   *)
(* runs on, and a boundary leaves nothing behind.                          *)
(*                                                                         *)
(* Only the processor whose slice it is can have left something for the    *)
(* boundary, and it has left one message at most, since its slice ends     *)
(* with it.  The loop over the processors is therefore the delivery of one *)
(* message (DrainedOne); what it does to each processor is ReceivedEffect. *)
(* While a message is under way, what its targets are going to hold is     *)
(* counted with what they hold (Accounts).                                 *)
(***************************************************************************)
EXTENDS MCApicBus, FiniteSetTheorems, SequenceTheorems, WellFoundedInduction, TLAPS

Regs == Registers(Ipi, CpuEvent)

LEMMA OneElement ==
    ASSUME NEW S, NEW q \in Seq(S), q # <<>>, Len(q) <= 1
    PROVE  /\ Len(q) = 1 /\ q = <<q[1]>> /\ q[1] \in S /\ DOMAIN q = {1}
           /\ Head(q) = q[1] /\ Tail(q) = <<>>
<1>0. Len(q) \in Nat \ {0}
  BY Zenon, EmptySeq
<1>1. Len(q) = 1
  BY <1>0
<1>2. q[1] \in S /\ Head(q) = q[1] /\ DOMAIN q = {1}
  BY <1>1
<1>3. q = <<q[1]>>
  BY <1>1
<1>4. Tail(q) = <<>>
  <2>1. Tail(q) \in Seq(S) /\ Len(Tail(q)) = Len(q) - 1
    BY Zenon, HeadTailProperties
  <2>2. Len(Tail(q)) = 0
    BY <1>1, <2>1
  <2>3. Tail(q) # <<>> => Len(Tail(q)) \in Nat \ {0}
    BY Zenon, <2>1, EmptySeq
  <2> QED
    BY <2>2, <2>3
<1> QED
  BY <1>1, <1>2, <1>3, <1>4

\* Least number principle, from which the loops below get their induction.
LEMMA LeastOf ==
    ASSUME NEW T \in SUBSET Nat, T # {}
    PROVE  \E x \in T : \A y \in T : x <= y
<1> DEFINE R == OpToRel(<, Nat)
<1>1. IsWellFoundedOn(R, Nat)
  BY Zenon, NatLessThanWellFounded
<1>2. \A y \in Nat, x \in Nat : y < x => <<y, x>> \in R
  BY DEF OpToRel
<1> HIDE DEF R
<1>3. PICK x \in T : \A y \in T : ~(<<y, x>> \in R)
  BY Zenon, <1>1, WFMin
<1>4. \A y \in T : x <= y
  <2> TAKE y \in T
  <2>1. ~(y < x)
    BY Zenon, <1>2, <1>3
  <2> QED
    BY <2>1
<1> QED
  BY Zenon, <1>3, <1>4

-----------------------------------------------------------------------------
(* One local APIC *)

\* a and b have the same queues and slots.
SameQueues(a, b) == b.ipis = a.ipis /\ b.events = a.events /\ b.eoi = a.eoi

LEMMA RegsFields ==
    ASSUME NEW a \in Regs
    PROVE  /\ a.irr \in SUBSET Vectors /\ a.tpr \in Nat
           /\ a.intr \in BOOLEAN /\ a.intrPending \in BOOLEAN
           /\ a.ipis \in Seq(Ipi) /\ a.events \in Seq(CpuEvent)
BY Zenon DEF Regs, Registers

LEMMA ProcessorFields ==
    ASSUME NEW p \in Processor
    PROVE  /\ p.lapic \in Regs
           /\ p.event \in BOOLEAN /\ p.waiting \in BOOLEAN
           /\ p.start \in Vectors \cup {NoVector}
BY Zenon DEF Processor, Regs

LEMMA ServiceEffect ==
    ASSUME NEW a \in Regs
    PROVE  /\ Service(a) \in Regs
           /\ Service(a).irr = a.irr /\ SameQueues(a, Service(a))
BY Zenon DEF Service, Regs, Registers, SameQueues

LEMMA TriggerEffect ==
    ASSUME NEW a \in Regs, NEW v \in Vectors, NEW level \in BOOLEAN
    PROVE  LET b == Trigger(a, v, level, FALSE)
           IN  /\ b \in Regs /\ SameQueues(a, b)
               /\ b.irr = IF Usable(v) THEN a.irr \cup {v} ELSE a.irr
<1> DEFINE b == [a EXCEPT !.irr = @ \cup {v}, !.tmr = IF level THEN @ \cup {v} ELSE @ \ {v}]
<1>1. b \in Regs /\ b.irr = a.irr \cup {v} /\ SameQueues(a, b)
  BY Zenon DEF Regs, Registers, SameQueues
<1> HIDE DEF b
<1>2. Service(b) \in Regs /\ Service(b).irr = b.irr /\ SameQueues(a, Service(b))
  BY <1>1, ServiceEffect DEF SameQueues
<1>3. Trigger(a, v, level, FALSE) = IF ~Usable(v) \/ v \in a.irr THEN a ELSE Service(b)
  BY Zenon DEF Trigger, b
<1>4. SameQueues(a, a)
  BY DEF SameQueues
<1> QED
  BY Zenon, <1>1, <1>2, <1>3, <1>4

\* The vectors a message requests, and the event it queues.
Asks(m) == IF m.mode \in {"fixed", "lowest"} /\ Usable(m.vector) THEN {m.vector} ELSE {}
Event(m) == [kind |-> m.mode, vector |-> m.vector]
Events(m) == IF m.mode \in {"nmi", "init", "sipi"} THEN <<Event(m)>> ELSE <<>>

LEMMA MessageFields ==
    ASSUME NEW m \in Message
    PROVE  /\ m.mode \in Modes /\ m.vector \in Vectors /\ m.level \in BOOLEAN
           /\ m.mode \in {"nmi", "init", "sipi"} => Event(m) \in CpuEvent
BY DEF Message, Event, CpuEvent

LEMMA DeliverEffect ==
    ASSUME NEW a \in Regs, NEW m \in Message
    PROVE  LET b == Deliver(a, m)
           IN  /\ b \in Regs /\ b.ipis = a.ipis /\ b.eoi = a.eoi
               /\ b.irr = a.irr \cup Asks(m)
               /\ b.events = a.events \o Events(m)
<1>0. m.mode \in Modes /\ m.vector \in Vectors /\ m.level \in BOOLEAN /\ a.events \in Seq(CpuEvent)
  BY MessageFields DEF Regs, Registers
<1>1. a.events \o <<>> = a.events
  BY <1>0
<1>2. CASE m.mode \in {"fixed", "lowest"}
  <2>1. Deliver(a, m) = Trigger(a, m.vector, m.level, FALSE) /\ Events(m) = <<>>
    BY Zenon, <1>2 DEF Deliver, Events
  <2> DEFINE b == Trigger(a, m.vector, m.level, FALSE)
  <2>2. /\ b \in Regs /\ SameQueues(a, b)
        /\ b.irr = IF Usable(m.vector) THEN a.irr \cup {m.vector} ELSE a.irr
    BY Zenon, <1>0, TriggerEffect
  <2> HIDE DEF b
  <2>3. b.irr = a.irr \cup Asks(m)
    BY Zenon, <1>2, <2>2 DEF Asks
  <2>4. Deliver(a, m) = b
    BY Zenon, <2>1 DEF b
  <2> QED
    BY Zenon, <1>1, <2>1, <2>2, <2>3, <2>4 DEF SameQueues
<1>3. CASE m.mode \in {"nmi", "init", "sipi"}
  <2> DEFINE b == [a EXCEPT !.events = Append(@, Event(m))]
  <2>1. Deliver(a, m) = b /\ Events(m) = <<Event(m)>> /\ Asks(m) = {}
    BY <1>3 DEF Deliver, Events, Asks, Event
  <2>2. Append(a.events, Event(m)) = a.events \o <<Event(m)>> /\ Append(a.events, Event(m)) \in Seq(CpuEvent)
    BY <1>0, <1>3, MessageFields
  <2>3. /\ b \in Regs /\ b.ipis = a.ipis /\ b.eoi = a.eoi
        /\ b.irr = a.irr /\ b.events = Append(a.events, Event(m))
    BY Zenon, <2>2 DEF Regs, Registers
  <2> HIDE DEF b
  <2> QED
    BY <2>1, <2>2, <2>3
<1>4. CASE m.mode = "deassert"
  <2>1. Deliver(a, m) = a /\ Events(m) = <<>> /\ Asks(m) = {}
    BY <1>4 DEF Deliver, Events, Asks
  <2> QED
    BY <1>1, <2>1
<1> QED
  BY <1>0, <1>2, <1>3, <1>4 DEF Modes

-----------------------------------------------------------------------------
(* One processor *)

\* What a start-up message does to a processor, by the code's one rule.
Starts(p, q, v) == IF p.waiting THEN ~q.waiting /\ q.start = v
                   ELSE ~q.waiting /\ q.start = p.start

SameStart(p, q) == q.waiting = p.waiting /\ q.start = p.start

LEMMA ApplyEffect ==
    ASSUME NEW p \in Processor, NEW e \in CpuEvent
    PROVE  LET q == ApplyEvent(p, e)
           IN  /\ q \in Processor /\ q.lapic = p.lapic
               /\ IF e.kind = "sipi" THEN Starts(p, q, e.vector) ELSE SameStart(p, q)
               /\ ~p.waiting => SameStart(p, q)
<1>1. e.kind \in {"nmi", "init", "sipi"} /\ e.vector \in Vectors
  BY DEF CpuEvent
<1>2. CASE e.kind = "nmi"
  BY <1>2 DEF ApplyEvent, Processor, SameStart
<1>3. CASE e.kind = "init"
  BY <1>3 DEF ApplyEvent, Processor, SameStart
<1>4. CASE e.kind = "sipi"
  BY Zenon, <1>1, <1>4 DEF ApplyEvent, Processor, SameStart, Starts
<1> QED
  BY <1>1, <1>2, <1>3, <1>4

\* A processor with something queued is one that runs, and has one event.
Calm(p) == /\ p \in Processor
           /\ Len(p.lapic.events) <= 1
           /\ p.lapic.events # <<>> => ~p.waiting

\* What a message does to a processor that receives it.
Takes(p, q, m) == /\ Calm(q)
                  /\ q.lapic.ipis = p.lapic.ipis
                  /\ q.lapic.irr = p.lapic.irr \cup Asks(m)
                  /\ IF m.mode = "sipi" THEN Starts(p, q, m.vector) ELSE SameStart(p, q)

LEMMA ReceivedEffect ==
    ASSUME NEW p, Calm(p), NEW m \in Message
    PROVE  Takes(p, Received(p, m), m)
<1> DEFINE a == Deliver(p.lapic, m)
           b == [a EXCEPT !.intrPending = FALSE, !.events = IF @ = <<>> THEN @ ELSE Tail(@)]
           q == [p EXCEPT !.event = @ \/ a.intrPending, !.lapic = b]
<1>0. p \in Processor /\ p.lapic \in Regs /\ p.lapic.events \in Seq(CpuEvent)
  BY DEF Calm, Processor, Regs, Registers
<1>1. /\ a \in Regs /\ a.ipis = p.lapic.ipis /\ a.irr = p.lapic.irr \cup Asks(m)
      /\ a.events = p.lapic.events \o Events(m)
  BY Zenon, <1>0, DeliverEffect
<1>2. Received(p, m) = IF a.events = <<>> THEN q ELSE ApplyEvent(q, Head(a.events))
  BY DEF Received
<1> HIDE DEF a
<1>3. a.events \in Seq(CpuEvent) /\ a.intrPending \in BOOLEAN
  BY Zenon, <1>1 DEF Regs, Registers
<1>4. /\ b \in Regs /\ b.ipis = a.ipis /\ b.irr = a.irr
      /\ b.events = IF a.events = <<>> THEN <<>> ELSE Tail(a.events)
  <2> DEFINE rest == IF a.events = <<>> THEN a.events ELSE Tail(a.events)
  <2>1. rest \in Seq(CpuEvent)
    BY <1>3
  <2>2. b = [a EXCEPT !.intrPending = FALSE, !.events = rest]
    BY Zenon, <1>1 DEF Regs, Registers
  <2> HIDE DEF rest
  <2>3. /\ [a EXCEPT !.intrPending = FALSE, !.events = rest] \in Regs
        /\ b.ipis = a.ipis /\ b.irr = a.irr /\ b.events = rest
    BY Zenon, <1>1, <2>1, <2>2 DEF Regs, Registers
  <2> QED
    BY Zenon, <2>2, <2>3 DEF rest
<1> HIDE DEF b
<1>5. q \in Processor /\ q.lapic = b /\ SameStart(p, q)
  BY Zenon, <1>0, <1>3, <1>4 DEF Processor, Regs, SameStart
<1> HIDE DEF q
<1>6. CASE p.lapic.events = <<>>
  <2>1. a.events = Events(m)
    BY <1>1, <1>6, <1>3 DEF Events
  <2>2. CASE m.mode \in {"nmi", "init", "sipi"}
    <3>1. a.events = <<Event(m)>> /\ Event(m) \in CpuEvent
      BY <2>1, <2>2, MessageFields DEF Events
    <3>2. b.events = <<>> /\ Head(a.events) = Event(m) /\ a.events # <<>>
      BY <1>4, <3>1
    <3> DEFINE r == ApplyEvent(q, Event(m))
    <3>3. /\ r \in Processor /\ r.lapic = b
          /\ IF m.mode = "sipi" THEN Starts(q, r, m.vector) ELSE SameStart(q, r)
      BY <1>5, <3>1, ApplyEffect DEF Event
    <3>4. Received(p, m) = r
      BY <1>2, <3>2
    <3> HIDE DEF r
    <3> QED
      BY <1>1, <1>4, <1>5, <3>2, <3>3, <3>4 DEF Takes, Calm, Starts, SameStart
  <2>3. CASE m.mode \notin {"nmi", "init", "sipi"}
    <3>1. a.events = <<>> /\ b.events = <<>>
      BY <1>4, <2>1, <2>3 DEF Events
    <3> QED
      BY <1>1, <1>2, <1>4, <1>5, <2>3, <3>1 DEF Takes, Calm, Starts, SameStart
  <2> QED
    BY <2>2, <2>3
<1>7. CASE p.lapic.events # <<>>
  <2>0. ~p.waiting /\ Len(p.lapic.events) <= 1
    BY Zenon, <1>7 DEF Calm
  <2>1. ~p.waiting /\ Len(p.lapic.events) = 1
    BY Zenon, <1>0, <1>7, <2>0, OneElement
  <2>2. Events(m) \in Seq(CpuEvent) /\ Len(Events(m)) <= 1
    BY MessageFields DEF Events
  <2>3. a.events # <<>> /\ Len(a.events) <= 2 /\ Head(a.events) \in CpuEvent
    <3>1. Len(a.events) = Len(p.lapic.events) + Len(Events(m))
      BY <1>0, <1>1, <2>2
    <3> QED
      BY <1>3, <2>1, <2>2, <3>1
  <2>4. b.events = Tail(a.events) /\ Len(b.events) <= 1
    BY <1>3, <1>4, <2>3
  <2> DEFINE r == ApplyEvent(q, Head(a.events))
  <2>5. r \in Processor /\ r.lapic = b /\ SameStart(q, r)
    BY <1>5, <2>1, <2>3, ApplyEffect DEF SameStart
  <2>6. Received(p, m) = r
    BY <1>2, <2>3
  <2> HIDE DEF r
  <2> QED
    BY <1>1, <1>4, <1>5, <2>1, <2>4, <2>5, <2>6 DEF Takes, Calm, Starts, SameStart
<1> QED
  BY <1>6, <1>7

-----------------------------------------------------------------------------
(* The machine: its mask shows exactly the processors with work *)

WorkOf(f) == {c \in Cpus : HasSchedulerWork(f[c].lapic)}
Exact(f)  == [cpu |-> f, work |-> WorkOf(f)]

LEMMA RefreshExact ==
    ASSUME NEW f, NEW W \in SUBSET Cpus, NEW C \in SUBSET Cpus,
           \A c \in Cpus \ C : c \in W <=> HasSchedulerWork(f[c].lapic)
    PROVE  Refresh([cpu |-> f, work |-> W], C) = Exact(f)
<1>1. {c \in W \cup C : c \in C => HasSchedulerWork(f[c].lapic)} = WorkOf(f)
  BY DEF WorkOf
<1> QED
  BY Zenon, <1>1 DEF Refresh, Exact

LEMMA RefreshKeeps ==
    ASSUME NEW f, NEW C \in SUBSET Cpus
    PROVE  Refresh(Exact(f), C) = Exact(f)
<1>1. WorkOf(f) \in SUBSET Cpus /\ \A c \in Cpus : c \in WorkOf(f) <=> HasSchedulerWork(f[c].lapic)
  BY Zenon DEF WorkOf
<1> QED
  BY Zenon, <1>1, RefreshExact DEF Exact

\* The processors once those in T have received m.
Spread(f, m, T) == [t \in Cpus |-> IF t \in T THEN Received(f[t], m) ELSE f[t]]

\* Those that do receive it.
Chosen(f, m, T) == IF m.mode = "lowest" /\ T # {} THEN {LowestTarget(Exact(f), T)} ELSE T

LEMMA LowestTargetIn ==
    ASSUME NEW f \in [Cpus -> Processor], NEW T \in SUBSET Cpus, T # {}
    PROVE  LowestTarget(Exact(f), T) \in T
<1> DEFINE tpr(t) == f[t].lapic.tpr
           P == {tpr(t) : t \in T}
<1>1. Cpus \in SUBSET Nat
  BY BusAssumption DEF Cpus
<1>2. \A t \in Cpus : tpr(t) \in Nat
  BY Zenon, ProcessorFields, RegsFields
<1> HIDE DEF tpr
<1>3. PICK x \in P : \A y \in P : x <= y
  <2>1. P \in SUBSET Nat /\ P # {}
    BY Zenon, <1>2
  <2> HIDE DEF P
  <2> QED
    BY Zenon, <2>1, LeastOf
<1> DEFINE L == {t \in T : tpr(t) = x}
<1>4. L \in SUBSET Nat /\ L # {}
  BY Zenon, <1>1, <1>3
<1>5. PICK t \in L : \A u \in L : t <= u
  BY Zenon, <1>4, LeastOf
<1>6. \A u \in T : tpr(t) < tpr(u) \/ (tpr(t) = tpr(u) /\ t <= u)
  <2> TAKE u \in T
  <2>1. tpr(t) = x /\ x \in Nat /\ tpr(u) \in Nat /\ x <= tpr(u)
    BY Zenon, <1>2, <1>3, <1>5
  <2>2. tpr(u) = x => t <= u
    BY Zenon, <1>5
  <2>3. x < tpr(u) \/ x = tpr(u)
    BY <2>1
  <2> QED
    BY Zenon, <2>1, <2>2, <2>3
<1>7. t \in T
  BY Zenon, <1>5
<1>8. \A u \in T : \/ f[t].lapic.tpr < f[u].lapic.tpr
                   \/ f[t].lapic.tpr = f[u].lapic.tpr /\ t <= u
  BY Zenon, <1>6 DEF tpr
<1>9. Exact(f).cpu = f
  BY Zenon DEF Exact
<1> QED
  BY Zenon, <1>7, <1>8, <1>9 DEF LowestTarget

LEMMA ChosenIn ==
    ASSUME NEW f \in [Cpus -> Processor], NEW m, NEW T \in SUBSET Cpus
    PROVE  /\ Chosen(f, m, T) \in SUBSET T
           /\ m.mode # "lowest" => Chosen(f, m, T) = T
           /\ m.mode = "lowest" /\ T # {} => \E t \in T : Chosen(f, m, T) = {t}
<1>1. T # {} => LowestTarget(Exact(f), T) \in T
  BY Zenon, LowestTargetIn
<1> QED
  BY Zenon, <1>1 DEF Chosen

\* A delivery on a machine whose mask is exact but for c, which the mask shows.
LEMMA DeliverMessageSpreads ==
    ASSUME NEW f \in [Cpus -> Processor], NEW m, NEW T \in SUBSET Cpus, NEW C \in SUBSET Cpus
    PROVE  LET s == [cpu |-> f, work |-> WorkOf(f) \cup C]
           IN  Refresh(DeliverMessage(s, m, T), C) = Exact(Spread(f, m, Chosen(f, m, T)))
<1> DEFINE s == [cpu |-> f, work |-> WorkOf(f) \cup C]
           D == Chosen(f, m, T)
           g == Spread(f, m, D)
<1>1. D \in SUBSET Cpus
  BY Zenon, ChosenIn
<1>2. DeliverMessage(s, m, T) = DeliverToEach(s, m, D)
  BY Zenon DEF DeliverMessage, Chosen, LowestTarget, Exact
<1> HIDE DEF D
<1>3. \A c \in Cpus \ D : g[c] = f[c]
  BY Zenon DEF Spread
<1>4. DeliverToEach(s, m, D) = Refresh([cpu |-> g, work |-> WorkOf(f) \cup C], D)
  BY Zenon DEF DeliverToEach, Spread
<1> HIDE DEF g
<1> DEFINE W == {c \in WorkOf(f) \cup C \cup D : c \in D => HasSchedulerWork(g[c].lapic)}
<1>5. DeliverToEach(s, m, D) = [cpu |-> g, work |-> W]
  BY Zenon, <1>4 DEF Refresh
<1>6. W \in SUBSET Cpus /\ \A c \in Cpus \ C : c \in W <=> HasSchedulerWork(g[c].lapic)
  BY Zenon, <1>1, <1>3 DEF WorkOf
<1> HIDE DEF W
<1>7. Refresh([cpu |-> g, work |-> W], C) = Exact(g)
  BY Zenon, <1>6, RefreshExact
<1> QED
  BY Zenon, <1>2, <1>5, <1>7 DEF g, D

-----------------------------------------------------------------------------
(* The loops, on what they meet here *)

LEMMA DeliverAllNone ==
    ASSUME NEW s, NEW src
    PROVE  DeliverAll(s, src, <<>>) = s
<1> DEFINE Step(f, k) == DeliverMessage(f[k - 1], <<>>[k].msg, Targets(src, <<>>[k]))
           F(f) == [k \in 0..Len(<<>>) |-> IF k = 0 THEN s ELSE Step(f, k)]
           g == [k \in {0} |-> s]
           f == CHOOSE f : f = F(f)
<1>1. DeliverAll(s, src, <<>>) = f[Len(<<>>)]
  BY Zenon DEF DeliverAll
<1>2. Len(<<>>) = 0 /\ 0..0 = {0}
  OBVIOUS
<1> HIDE DEF Step
<1>3. g = F(g)
  BY <1>2
<1>4. f = F(f)
  BY Zenon, <1>3
<1> HIDE DEF f
<1>5. f[0] = s
  BY <1>2, <1>4
<1> QED
  BY Zenon, <1>1, <1>2, <1>5

LEMMA DeliverAllOne ==
    ASSUME NEW s, NEW src, NEW m
    PROVE  DeliverAll(s, src, <<m>>) = DeliverMessage(s, m.msg, Targets(src, m))
<1> DEFINE Step(f, k) == DeliverMessage(f[k - 1], <<m>>[k].msg, Targets(src, <<m>>[k]))
           F(f) == [k \in 0..Len(<<m>>) |-> IF k = 0 THEN s ELSE Step(f, k)]
           D == DeliverMessage(s, m.msg, Targets(src, m))
           g == [k \in {0, 1} |-> IF k = 0 THEN s ELSE D]
           f == CHOOSE f : f = F(f)
<1>1. DeliverAll(s, src, <<m>>) = f[Len(<<m>>)]
  BY Zenon DEF DeliverAll
<1>2. Len(<<m>>) = 1 /\ 0..1 = {0, 1} /\ <<m>>[1] = m /\ 1 - 1 = 0 /\ 1 # 0
  OBVIOUS
<1>3. \A h : h[0] = s => Step(h, 1) = D
  BY Zenon, <1>2
<1> HIDE DEF Step, D
<1>4. g[0] = s /\ g[1] = D
  BY Zenon, <1>2
<1>5. Step(g, 1) = D
  BY Zenon, <1>3, <1>4
<1>6. \A k \in {0, 1} : g[k] = IF k = 0 THEN s ELSE Step(g, k)
  BY Zenon, <1>2, <1>4, <1>5
<1>7. g = F(g)
  BY Zenon, <1>2, <1>6
<1>8. f = F(f)
  BY Zenon, <1>7
<1> HIDE DEF f
<1>9. f[0] = s /\ f[1] = Step(f, 1)
  BY Zenon, <1>2, <1>8
<1> QED
  BY Zenon, <1>1, <1>2, <1>3, <1>9 DEF D

LEMMA ApplyEventsNone ==
    ASSUME NEW p
    PROVE  ApplyEvents(p, <<>>) = p
<1> DEFINE Step(f, k) == ApplyEvent(f[k - 1], <<>>[k])
           F(f) == [k \in 0..Len(<<>>) |-> IF k = 0 THEN p ELSE Step(f, k)]
           g == [k \in {0} |-> p]
           f == CHOOSE f : f = F(f)
<1>1. ApplyEvents(p, <<>>) = f[Len(<<>>)]
  BY Zenon DEF ApplyEvents
<1>2. Len(<<>>) = 0 /\ 0..0 = {0}
  OBVIOUS
<1> HIDE DEF Step
<1>3. g = F(g)
  BY <1>2
<1>4. f = F(f)
  BY Zenon, <1>3
<1> HIDE DEF f
<1>5. f[0] = p
  BY <1>2, <1>4
<1> QED
  BY Zenon, <1>1, <1>2, <1>5

LEMMA ApplyEventsOne ==
    ASSUME NEW p, NEW e
    PROVE  ApplyEvents(p, <<e>>) = ApplyEvent(p, e)
<1> DEFINE Step(f, k) == ApplyEvent(f[k - 1], <<e>>[k])
           F(f) == [k \in 0..Len(<<e>>) |-> IF k = 0 THEN p ELSE Step(f, k)]
           D == ApplyEvent(p, e)
           g == [k \in {0, 1} |-> IF k = 0 THEN p ELSE D]
           f == CHOOSE f : f = F(f)
<1>1. ApplyEvents(p, <<e>>) = f[Len(<<e>>)]
  BY Zenon DEF ApplyEvents
<1>2. Len(<<e>>) = 1 /\ 0..1 = {0, 1} /\ <<e>>[1] = e /\ 1 - 1 = 0 /\ 1 # 0
  OBVIOUS
<1>3. \A h : h[0] = p => Step(h, 1) = D
  BY Zenon, <1>2
<1> HIDE DEF Step, D
<1>4. g[0] = p /\ g[1] = D
  BY Zenon, <1>2
<1>5. Step(g, 1) = D
  BY Zenon, <1>3, <1>4
<1>6. \A k \in {0, 1} : g[k] = IF k = 0 THEN p ELSE Step(g, k)
  BY Zenon, <1>2, <1>4, <1>5
<1>7. g = F(g)
  BY Zenon, <1>2, <1>6
<1>8. f = F(f)
  BY Zenon, <1>7
<1> HIDE DEF f
<1>9. f[0] = p /\ f[1] = Step(f, 1)
  BY Zenon, <1>2, <1>8
<1> QED
  BY Zenon, <1>1, <1>2, <1>3, <1>9 DEF D

LEMMA ArriveNone ==
    ASSUME NEW s
    PROVE  Arrive(s, <<>>) = s
<1> DEFINE Step(f, k) == ArriveOne(f[k - 1], <<>>[k])
           F(f) == [k \in 0..Len(<<>>) |-> IF k = 0 THEN s ELSE Step(f, k)]
           g == [k \in {0} |-> s]
           f == CHOOSE f : f = F(f)
<1>1. Arrive(s, <<>>) = f[Len(<<>>)]
  BY Zenon DEF Arrive
<1>2. Len(<<>>) = 0 /\ 0..0 = {0}
  OBVIOUS
<1> HIDE DEF Step
<1>3. g = F(g)
  BY <1>2
<1>4. f = F(f)
  BY Zenon, <1>3
<1> HIDE DEF f
<1>5. f[0] = s
  BY <1>2, <1>4
<1> QED
  BY Zenon, <1>1, <1>2, <1>5

LEMMA ArriveSingle ==
    ASSUME NEW s, NEW m
    PROVE  Arrive(s, <<m>>) = ArriveOne(s, m)
<1> DEFINE Step(f, k) == ArriveOne(f[k - 1], <<m>>[k])
           F(f) == [k \in 0..Len(<<m>>) |-> IF k = 0 THEN s ELSE Step(f, k)]
           D == ArriveOne(s, m)
           g == [k \in {0, 1} |-> IF k = 0 THEN s ELSE D]
           f == CHOOSE f : f = F(f)
<1>1. Arrive(s, <<m>>) = f[Len(<<m>>)]
  BY Zenon DEF Arrive
<1>2. Len(<<m>>) = 1 /\ 0..1 = {0, 1} /\ <<m>>[1] = m /\ 1 - 1 = 0 /\ 1 # 0
  OBVIOUS
<1>3. \A h : h[0] = s => Step(h, 1) = D
  BY Zenon, <1>2
<1> HIDE DEF Step, D
<1>4. g[0] = s /\ g[1] = D
  BY Zenon, <1>2
<1>5. Step(g, 1) = D
  BY Zenon, <1>3, <1>4
<1>6. \A k \in {0, 1} : g[k] = IF k = 0 THEN s ELSE Step(g, k)
  BY Zenon, <1>2, <1>4, <1>5
<1>7. g = F(g)
  BY Zenon, <1>2, <1>6
<1>8. f = F(f)
  BY Zenon, <1>7
<1> HIDE DEF f
<1>9. f[0] = s /\ f[1] = Step(f, 1)
  BY Zenon, <1>2, <1>8
<1> QED
  BY Zenon, <1>1, <1>2, <1>3, <1>9 DEF D

\* The loop over the processors, when only c's turn changes anything.
LEMMA DrainChain ==
    ASSUME NEW s, NEW D, NEW c \in Cpus,
           \A j \in Cpus : j < c => DrainFrom(s, j) = s,
           DrainFrom(s, c) = D,
           \A j \in Cpus : j > c => DrainFrom(D, j) = D
    PROVE  DrainLapicBus(s) = D
<1> DEFINE F(f) == [n \in 0..Ncpus |-> IF n = 0 THEN s ELSE DrainFrom(f[n - 1], n - 1)]
           val(n) == IF n <= c THEN s ELSE D
           g == [n \in 0..Ncpus |-> val(n)]
           f == CHOOSE f : f = F(f)
<1>1. Ncpus \in Nat \ {0} /\ Cpus = 0..(Ncpus - 1) /\ c \in 0..(Ncpus - 1)
  BY BusAssumption DEF Cpus
<1>2. DrainLapicBus(s) = f[Ncpus]
  BY Zenon DEF DrainLapicBus
<1>3. val(0) = s /\ val(Ncpus) = D
  BY <1>1
<1>4. \A n \in 0..Ncpus : n # 0 => n - 1 \in 0..Ncpus /\ DrainFrom(val(n - 1), n - 1) = val(n)
  <2> TAKE n \in 0..Ncpus
  <2> HAVE n # 0
  <2>0. n - 1 \in 0..Ncpus /\ n - 1 \in Cpus
    BY <1>1
  <2>1. CASE n - 1 < c
    <3>1. val(n) = s /\ val(n - 1) = s
      BY <1>1, <2>1
    <3> QED
      BY Zenon, <2>0, <2>1, <3>1
  <2>2. CASE n - 1 = c
    <3>1. val(n) = D /\ val(n - 1) = s
      BY <1>1, <2>2
    <3> QED
      BY Zenon, <2>0, <2>2, <3>1
  <2>3. CASE n - 1 > c
    <3>1. val(n) = D /\ val(n - 1) = D
      BY <1>1, <2>3
    <3> QED
      BY Zenon, <2>0, <2>3, <3>1
  <2> QED
    BY <1>1, <2>0, <2>1, <2>2, <2>3
<1> HIDE DEF val
<1>5. \A n \in 0..Ncpus : g[n] = IF n = 0 THEN s ELSE DrainFrom(g[n - 1], n - 1)
  BY Zenon, <1>3, <1>4
<1>6. g = F(g)
  BY Zenon, <1>5
<1>7. f = F(f)
  BY Zenon, <1>6
<1> HIDE DEF f
<1> DEFINE Off == {n \in 0..Ncpus : f[n] # val(n)}
<1>8. Off = {}
  <2> SUFFICES ASSUME Off # {} PROVE FALSE
    OBVIOUS
  <2>1. Off \in SUBSET Nat
    BY <1>1
  <2>2. PICK n \in Off : \A j \in Off : n <= j
    BY Zenon, <2>1, LeastOf
  <2>3. n \in 0..Ncpus /\ f[n] # val(n)
    BY Zenon, <2>2
  <2>4. n # 0
    BY Zenon, <1>3, <1>7, <2>3
  <2>5. n - 1 \in 0..Ncpus /\ ~(n <= n - 1)
    BY <1>1, <2>3, <2>4
  <2>6. f[n - 1] = val(n - 1)
    BY Zenon, <2>2, <2>5
  <2>7. f[n] = DrainFrom(f[n - 1], n - 1)
    BY Zenon, <1>7, <2>3, <2>4
  <2> QED
    BY Zenon, <1>4, <2>3, <2>4, <2>6, <2>7
<1>9. Ncpus \in 0..Ncpus
  BY <1>1
<1> QED
  BY Zenon, <1>2, <1>3, <1>8, <1>9

-----------------------------------------------------------------------------
(* The queues drained *)

Calms(f) == f \in [Cpus -> Processor] /\ \A c \in Cpus : Calm(f[c])

\* q is p but for its queue, its events, its slots and INTR's flags.
Kept(p, q) == q.lapic.irr = p.lapic.irr /\ SameStart(p, q)

Emptied(f, c) == [f EXCEPT ![c].lapic.ipis = <<>>]

\* g is f after the processors in T have received m.
Spreads(f, g, m, T) ==
    \A t \in Cpus : /\ g[t].lapic.ipis = f[t].lapic.ipis
                    /\ IF t \in T THEN Takes(f[t], g[t], m) ELSE g[t] = f[t]

LEMMA SpreadEffect ==
    ASSUME NEW f, Calms(f), NEW m \in Message, NEW T \in SUBSET Cpus
    PROVE  Calms(Spread(f, m, T)) /\ Spreads(f, Spread(f, m, T), m, T)
<1> DEFINE g == Spread(f, m, T)
<1>1. ASSUME NEW t \in Cpus
      PROVE  /\ Calm(g[t]) /\ g[t].lapic.ipis = f[t].lapic.ipis
             /\ IF t \in T THEN Takes(f[t], g[t], m) ELSE g[t] = f[t]
  <2>1. g[t] = IF t \in T THEN Received(f[t], m) ELSE f[t]
    BY Zenon DEF Spread
  <2>2. Calm(f[t])
    BY Zenon DEF Calms
  <2>3. Takes(f[t], Received(f[t], m), m)
    BY Zenon, <2>2, ReceivedEffect
  <2> HIDE DEF g
  <2> QED
    BY Zenon, <2>1, <2>2, <2>3 DEF Takes
<1>2. g = [t \in Cpus |-> g[t]]
  BY Zenon DEF Spread
<1> HIDE DEF g
<1>3. g \in [Cpus -> Processor]
  BY Zenon, <1>1, <1>2 DEF Calm
<1> QED
  BY Zenon, <1>1, <1>3 DEF Calms, Spreads, g

LEMMA EmptiedEffect ==
    ASSUME NEW f, Calms(f), NEW c \in Cpus
    PROVE  LET g == Emptied(f, c)
           IN  /\ Calms(g)
               /\ \A t \in Cpus : /\ Kept(f[t], g[t])
                                  /\ g[t].lapic.ipis = IF t = c THEN <<>> ELSE f[t].lapic.ipis
                                  /\ t # c => g[t] = f[t]
<1> DEFINE a == [f[c].lapic EXCEPT !.ipis = <<>>]
           p == [f[c] EXCEPT !.lapic = a]
           g == Emptied(f, c)
<1>0. f \in [Cpus -> Processor] /\ f[c] \in Processor /\ Calm(f[c])
  BY Zenon DEF Calms, Calm
<1>1. f[c].lapic \in Regs /\ <<>> \in Seq(Ipi)
  BY <1>0, ProcessorFields, EmptySeq
<1>2. a \in Regs /\ a.ipis = <<>> /\ a.irr = f[c].lapic.irr /\ a.events = f[c].lapic.events
  BY Zenon, <1>1 DEF Regs, Registers
<1> HIDE DEF a
<1>3. p \in Processor /\ p.lapic = a /\ SameStart(f[c], p)
  BY Zenon, <1>0, <1>2 DEF Processor, Regs, SameStart
<1>4. g = [f EXCEPT ![c] = p]
  BY Zenon, <1>0 DEF Emptied, a
<1> HIDE DEF p, g
<1>5. g \in [Cpus -> Processor] /\ g[c] = p /\ \A t \in Cpus : t # c => g[t] = f[t]
  BY Zenon, <1>0, <1>3, <1>4
<1>6. Calm(p)
  BY Zenon, <1>0, <1>2, <1>3 DEF Calm, SameStart
<1>7. \A t \in Cpus : Calm(g[t])
  BY Zenon, <1>5, <1>6 DEF Calms
<1>8. \A t \in Cpus : /\ Kept(f[t], g[t])
                      /\ g[t].lapic.ipis = IF t = c THEN <<>> ELSE f[t].lapic.ipis
  BY Zenon, <1>2, <1>3, <1>5 DEF Kept, SameStart
<1> QED
  BY Zenon, <1>5, <1>7, <1>8 DEF Calms, g

LEMMA TargetsIn ==
    ASSUME NEW c, NEW m \in Ipi
    PROVE  Targets(c, m) \in SUBSET Cpus
<1>1. m.dest \in SUBSET Cpus
  BY Zenon DEF Ipi
<1> QED
  BY <1>1 DEF Targets

LEMMA DrainFromIdle ==
    ASSUME NEW f \in [Cpus -> Processor], NEW c \in Cpus, f[c].lapic.ipis = <<>>
    PROVE  DrainFrom(Exact(f), c) = Exact(f)
<1>1. Exact(f).cpu = f /\ Exact(f).work = WorkOf(f)
  BY Zenon DEF Exact
<1>2. f[c] \in Processor /\ f[c].lapic \in Regs
  BY Zenon, ProcessorFields
<1>3. [f[c].lapic EXCEPT !.ipis = <<>>] = f[c].lapic
  BY Zenon, <1>2 DEF Regs, Registers
<1>4. [f[c] EXCEPT !.lapic = f[c].lapic] = f[c]
  BY Zenon, <1>2 DEF Processor
<1>5. [f EXCEPT ![c].lapic.ipis = <<>>] = f
  BY Zenon, <1>3, <1>4
<1>6. [cpu |-> [f EXCEPT ![c].lapic.ipis = <<>>], work |-> WorkOf(f)] = Exact(f)
  BY Zenon, <1>5 DEF Exact
<1>7. Refresh(Exact(f), {c}) = Exact(f)
  BY Zenon, RefreshKeeps
<1> QED
  BY Zenon, <1>1, <1>6, <1>7, DeliverAllNone DEF DrainFrom

LEMMA DrainFromOne ==
    ASSUME NEW f, Calms(f), NEW c \in Cpus, NEW m \in Ipi, f[c].lapic.ipis = <<m>>
    PROVE  LET e == Emptied(f, c)
           IN  DrainFrom(Exact(f), c) = Exact(Spread(e, m.msg, Chosen(e, m.msg, Targets(c, m))))
<1> DEFINE e == Emptied(f, c)
           s == [cpu |-> e, work |-> WorkOf(e) \cup {c}]
<1>1. Exact(f).cpu = f /\ Exact(f).work = WorkOf(f)
  BY Zenon DEF Exact
<1>0. <<m>> # <<>>
  OBVIOUS
<1>2. c \in WorkOf(f)
  BY Zenon, <1>0 DEF WorkOf, HasSchedulerWork
<1>3. Calms(e) /\ \A t \in Cpus : t # c => e[t] = f[t]
  BY Zenon, EmptiedEffect
<1>4. e = [f EXCEPT ![c].lapic.ipis = <<>>]
  BY Zenon DEF Emptied
<1> HIDE DEF e
<1>5. WorkOf(f) = WorkOf(e) \cup {c}
  BY Zenon, <1>2, <1>3 DEF WorkOf
<1>6. DrainFrom(Exact(f), c) = Refresh(DeliverAll(s, c, <<m>>), {c})
  BY Zenon, <1>1, <1>2, <1>4, <1>5 DEF DrainFrom
<1>7. DeliverAll(s, c, <<m>>) = DeliverMessage(s, m.msg, Targets(c, m))
  BY Zenon, DeliverAllOne
<1>8. e \in [Cpus -> Processor] /\ Targets(c, m) \in SUBSET Cpus /\ {c} \in SUBSET Cpus
  BY Zenon, <1>3, TargetsIn DEF Calms
<1>9. Refresh(DeliverMessage(s, m.msg, Targets(c, m)), {c})
        = Exact(Spread(e, m.msg, Chosen(e, m.msg, Targets(c, m))))
  BY Zenon, <1>8, DeliverMessageSpreads
<1> QED
  BY Zenon, <1>6, <1>7, <1>9 DEF e

LEMMA DrainedNone ==
    ASSUME NEW f \in [Cpus -> Processor], \A c \in Cpus : f[c].lapic.ipis = <<>>
    PROVE  DrainLapicBus(Exact(f)) = Exact(f)
<1>1. \A j \in Cpus : DrainFrom(Exact(f), j) = Exact(f)
  BY Zenon, DrainFromIdle
<1>2. 0 \in Cpus
  BY BusAssumption DEF Cpus
<1> QED
  BY Zenon, <1>1, <1>2, DrainChain

LEMMA DrainedOne ==
    ASSUME NEW f, Calms(f), NEW c \in Cpus, NEW m \in Ipi, f[c].lapic.ipis = <<m>>,
           \A t \in Cpus : t # c => f[t].lapic.ipis = <<>>
    PROVE  LET e == Emptied(f, c)
               g == Spread(e, m.msg, Chosen(e, m.msg, Targets(c, m)))
           IN  /\ DrainLapicBus(Exact(f)) = Exact(g)
               /\ Calms(g) /\ \A t \in Cpus : g[t].lapic.ipis = <<>>
<1> DEFINE e == Emptied(f, c)
           T == Chosen(e, m.msg, Targets(c, m))
           g == Spread(e, m.msg, T)
<1>0. f \in [Cpus -> Processor]
  BY Zenon DEF Calms
<1>1. DrainFrom(Exact(f), c) = Exact(g)
  BY Zenon, DrainFromOne
<1>2. Calms(e) /\ \A t \in Cpus : e[t].lapic.ipis = <<>>
  <2>1. /\ Calms(e)
        /\ \A t \in Cpus : e[t].lapic.ipis = IF t = c THEN <<>> ELSE f[t].lapic.ipis
    BY Zenon, EmptiedEffect
  <2> HIDE DEF e
  <2> QED
    BY Zenon, <2>1
<1> HIDE DEF e
<1>3. m.msg \in Message /\ e \in [Cpus -> Processor]
  BY Zenon, <1>2 DEF Ipi, Calms
<1>4. T \in SUBSET Cpus
  BY Zenon, <1>3, TargetsIn, ChosenIn
<1> HIDE DEF T
<1>5. Calms(g) /\ \A t \in Cpus : g[t].lapic.ipis = <<>>
  <2>1. Calms(g) /\ Spreads(e, g, m.msg, T)
    BY Zenon, <1>2, <1>3, <1>4, SpreadEffect
  <2> HIDE DEF g
  <2> QED
    BY Zenon, <1>2, <2>1 DEF Spreads
<1> HIDE DEF g
<1>6. \A j \in Cpus : j # c => DrainFrom(Exact(f), j) = Exact(f)
  BY Zenon, <1>0, DrainFromIdle
<1>7. \A j \in Cpus : DrainFrom(Exact(g), j) = Exact(g)
  BY Zenon, <1>5, DrainFromIdle DEF Calms
<1>8. \A j \in Cpus : j < c => j # c
  BY BusAssumption DEF Cpus
<1>9. DrainLapicBus(Exact(f)) = Exact(g)
  BY ZenonT(30), <1>1, <1>6, <1>7, <1>8, DrainChain
<1> QED
  BY Zenon, <1>5, <1>9 DEF g, T, e

-----------------------------------------------------------------------------
(* The rest of a boundary *)

LEMMA ServedEffect ==
    ASSUME NEW p, Calm(p)
    PROVE  LET q == Served(p)
           IN  /\ Calm(q) /\ Kept(p, q) /\ q.lapic.ipis = p.lapic.ipis
               /\ q.lapic.events = <<>> /\ q.lapic.eoi = NoVector
<1> DEFINE r == ApplyEvents(p, p.lapic.events)
           a == [r.lapic EXCEPT !.events = <<>>, !.eoi = NoVector]
           q == [r EXCEPT !.event = @ \/ r.lapic.intr, !.lapic = a]
<1>0. /\ p \in Processor /\ Len(p.lapic.events) <= 1 /\ p.lapic.events \in Seq(CpuEvent)
      /\ p.lapic.events # <<>> => ~p.waiting
  BY Zenon, ProcessorFields, RegsFields DEF Calm
<1>1. r \in Processor /\ r.lapic = p.lapic /\ SameStart(p, r)
  <2>1. CASE p.lapic.events = <<>>
    BY Zenon, <1>0, <2>1, ApplyEventsNone DEF SameStart
  <2>2. CASE p.lapic.events # <<>>
    <3> DEFINE e == p.lapic.events[1]
    <3>1. p.lapic.events = <<e>> /\ e \in CpuEvent
      BY Zenon, <1>0, <2>2, OneElement
    <3> HIDE DEF e
    <3>2. r = ApplyEvent(p, e)
      BY Zenon, <3>1, ApplyEventsOne
    <3> HIDE DEF r
    <3> QED
      BY Zenon, <1>0, <2>2, <3>1, <3>2, ApplyEffect
  <2> QED
    BY Zenon, <2>1, <2>2
<1>2. Served(p) = q
  BY Zenon DEF Served
<1> HIDE DEF r
<1>3. r.lapic \in Regs /\ r.lapic.intr \in BOOLEAN /\ <<>> \in Seq(CpuEvent)
  BY Zenon, <1>1, ProcessorFields, RegsFields, EmptySeq
<1>4. /\ a \in Regs /\ a.ipis = r.lapic.ipis /\ a.irr = r.lapic.irr
      /\ a.events = <<>> /\ a.eoi = NoVector
  BY Zenon, <1>3 DEF Regs, Registers
<1> HIDE DEF a
<1>5. q \in Processor /\ q.lapic = a /\ SameStart(r, q)
  BY Zenon, <1>1, <1>3, <1>4 DEF Processor, Regs, SameStart
<1> HIDE DEF q
<1>6. Calm(q)
  <2>1. Len(<<>>) <= 1
    OBVIOUS
  <2> QED
    BY Zenon, <1>4, <1>5, <2>1 DEF Calm
<1>7. Kept(p, q)
  BY Zenon, <1>1, <1>4, <1>5 DEF Kept, SameStart
<1> QED
  BY Zenon, <1>1, <1>2, <1>4, <1>5, <1>6, <1>7

\* g is f after the processors' own events: nothing is left but INTR's flag.
Calmer(f, g) ==
    /\ Calms(g)
    /\ \A t \in Cpus : /\ Kept(f[t], g[t]) /\ g[t].lapic.ipis = f[t].lapic.ipis
                       /\ g[t].lapic.events = <<>> /\ g[t].lapic.eoi = NoVector

LEMMA LocalEventsEffect ==
    ASSUME NEW f, Calms(f)
    PROVE  \E g : LocalEvents(Exact(f)) = Exact(g) /\ Calmer(f, g)
<1> DEFINE W == WorkOf(f)
           g == [c \in Cpus |-> IF c \in W THEN Served(f[c]) ELSE f[c]]
<1>1. W \in SUBSET Cpus /\ \A c \in Cpus : c \in W <=> HasSchedulerWork(f[c].lapic)
  BY Zenon DEF WorkOf
<1>2. LocalEvents(Exact(f)) = Refresh([cpu |-> g, work |-> W], W)
  BY Zenon DEF LocalEvents, Exact
<1> HIDE DEF W
<1>3. \A c \in Cpus \ W : c \in W <=> HasSchedulerWork(g[c].lapic)
  BY Zenon, <1>1
<1>4. ASSUME NEW t \in Cpus
      PROVE  /\ Calm(g[t]) /\ Kept(f[t], g[t]) /\ g[t].lapic.ipis = f[t].lapic.ipis
             /\ g[t].lapic.events = <<>> /\ g[t].lapic.eoi = NoVector
  <2>1. Calm(f[t])
    BY Zenon DEF Calms
  <2>2. CASE t \in W
    <3>1. g[t] = Served(f[t])
      BY Zenon, <2>2
    <3> HIDE DEF g
    <3> QED
      BY Zenon, <2>1, <3>1, ServedEffect
  <2>3. CASE t \notin W
    <3>1. g[t] = f[t]
      BY Zenon, <2>3
    <3> HIDE DEF g
    <3>2. f[t].lapic.events = <<>> /\ f[t].lapic.eoi = NoVector
      BY Zenon, <1>1, <2>3 DEF HasSchedulerWork
    <3> QED
      BY Zenon, <2>1, <3>1, <3>2 DEF Kept, SameStart
  <2> QED
    BY Zenon, <2>2, <2>3
<1>5. g = [t \in Cpus |-> g[t]]
  OBVIOUS
<1> HIDE DEF g
<1>6. Refresh([cpu |-> g, work |-> W], W) = Exact(g)
  BY Zenon, <1>1, <1>3, RefreshExact
<1>7. g \in [Cpus -> Processor]
  BY Zenon, <1>4, <1>5 DEF Calm
<1>8. Calmer(f, g)
  BY Zenon, <1>4, <1>7 DEF Calmer, Calms
<1> QED
  BY Zenon, <1>2, <1>6, <1>8

\* g is f with nothing left at all.
Rested(f, g) ==
    /\ g \in [Cpus -> Processor]
    /\ \A t \in Cpus : Kept(f[t], g[t]) /\ ~HasSchedulerWork(g[t].lapic)

LEMMA PassedOnEffect ==
    ASSUME NEW p \in Processor
    PROVE  LET q == PassedOn(p)
           IN  /\ q \in Processor /\ Kept(p, q) /\ q.lapic.ipis = p.lapic.ipis
               /\ q.lapic.events = p.lapic.events /\ q.lapic.eoi = p.lapic.eoi
               /\ ~q.lapic.intrPending
<1> DEFINE a == [p.lapic EXCEPT !.intrPending = FALSE]
           q == [p EXCEPT !.event = @ \/ p.lapic.intrPending, !.lapic = a]
<1>1. p.lapic \in Regs /\ p.lapic.intrPending \in BOOLEAN /\ p.event \in BOOLEAN
  BY Zenon, ProcessorFields, RegsFields
<1>2. /\ a \in Regs /\ a.ipis = p.lapic.ipis /\ a.irr = p.lapic.irr
      /\ a.events = p.lapic.events /\ a.eoi = p.lapic.eoi /\ ~a.intrPending
  BY Zenon, <1>1 DEF Regs, Registers
<1>3. PassedOn(p) = q
  BY Zenon DEF PassedOn
<1> HIDE DEF a
<1>4. q \in Processor /\ q.lapic = a /\ SameStart(p, q)
  BY Zenon, <1>1, <1>2 DEF Processor, Regs, SameStart
<1> HIDE DEF q
<1> QED
  BY Zenon, <1>2, <1>3, <1>4 DEF Kept

LEMMA PassOnIntrEffect ==
    ASSUME NEW f \in [Cpus -> Processor],
           \A t \in Cpus : /\ f[t].lapic.ipis = <<>> /\ f[t].lapic.events = <<>>
                           /\ f[t].lapic.eoi = NoVector
    PROVE  \E g : PassOnIntr(Exact(f)) = Exact(g) /\ Rested(f, g)
<1> DEFINE W == WorkOf(f)
           g == [c \in Cpus |-> IF c \in W THEN PassedOn(f[c]) ELSE f[c]]
<1>1. W \in SUBSET Cpus /\ \A c \in Cpus : c \in W <=> HasSchedulerWork(f[c].lapic)
  BY Zenon DEF WorkOf
<1>2. PassOnIntr(Exact(f)) = Refresh([cpu |-> g, work |-> W], W)
  BY Zenon DEF PassOnIntr, Exact
<1> HIDE DEF W
<1>3. \A c \in Cpus \ W : c \in W <=> HasSchedulerWork(g[c].lapic)
  BY Zenon, <1>1
<1>4. ASSUME NEW t \in Cpus
      PROVE  g[t] \in Processor /\ Kept(f[t], g[t]) /\ ~HasSchedulerWork(g[t].lapic)
  <2>1. f[t] \in Processor
    OBVIOUS
  <2>2. CASE t \in W
    <3>1. g[t] = PassedOn(f[t])
      BY Zenon, <2>2
    <3> HIDE DEF g
    <3>2. /\ g[t] \in Processor /\ Kept(f[t], g[t]) /\ g[t].lapic.ipis = f[t].lapic.ipis
          /\ g[t].lapic.events = f[t].lapic.events /\ g[t].lapic.eoi = f[t].lapic.eoi
          /\ ~g[t].lapic.intrPending
      BY Zenon, <2>1, <3>1, PassedOnEffect
    <3> QED
      BY Zenon, <3>2 DEF HasSchedulerWork
  <2>3. CASE t \notin W
    <3>1. g[t] = f[t]
      BY Zenon, <2>3
    <3> HIDE DEF g
    <3> QED
      BY Zenon, <1>1, <2>1, <2>3, <3>1 DEF Kept, SameStart
  <2> QED
    BY Zenon, <2>2, <2>3
<1>5. g = [t \in Cpus |-> g[t]]
  OBVIOUS
<1> HIDE DEF g
<1>6. Refresh([cpu |-> g, work |-> W], W) = Exact(g)
  BY Zenon, <1>1, <1>3, RefreshExact
<1>7. g \in [Cpus -> Processor]
  BY Zenon, <1>4, <1>5
<1> QED
  BY Zenon, <1>2, <1>4, <1>6, <1>7 DEF Rested

LEMMA KeptTransitive ==
    ASSUME NEW p, NEW q, NEW r, Kept(p, q), Kept(q, r)
    PROVE  Kept(p, r)
BY Zenon DEF Kept, SameStart

\* Everything after the last messages have been delivered.
LEMMA BoundaryRests ==
    ASSUME NEW f, Calms(f), \A t \in Cpus : f[t].lapic.ipis = <<>>
    PROVE  \E g : /\ Refresh(PassOnIntr(LocalEvents(DrainLapicBus(Exact(f)))), {Bsp}) = Exact(g)
                  /\ Rested(f, g)
<1>1. DrainLapicBus(Exact(f)) = Exact(f)
  BY Zenon, DrainedNone DEF Calms
<1>2. PICK g : LocalEvents(Exact(f)) = Exact(g) /\ Calmer(f, g)
  BY Zenon, LocalEventsEffect
<1>3. /\ g \in [Cpus -> Processor]
      /\ \A t \in Cpus : /\ g[t].lapic.ipis = <<>> /\ g[t].lapic.events = <<>>
                         /\ g[t].lapic.eoi = NoVector
  BY Zenon, <1>2 DEF Calmer, Calms
<1>4. PICK h : PassOnIntr(Exact(g)) = Exact(h) /\ Rested(g, h)
  BY Zenon, <1>3, PassOnIntrEffect
<1>5. Bsp \in Cpus
  BY BusAssumption DEF Cpus, Bsp
<1>6. Refresh(Exact(h), {Bsp}) = Exact(h)
  BY Zenon, <1>5, RefreshKeeps
<1>7. Rested(f, h)
  BY Zenon, <1>2, <1>4, KeptTransitive DEF Rested, Calmer
<1> QED
  BY Zenon, <1>1, <1>2, <1>4, <1>6, <1>7

\* A boundary with nothing from the devices, after the first drain.
LEMMA BoundaryEmpty ==
    ASSUME NEW s, NEW f, Calms(f), \A t \in Cpus : f[t].lapic.ipis = <<>>,
           DrainLapicBus(s) = Exact(f)
    PROVE  \E g : Boundary(s, <<>>) = Exact(g) /\ Rested(f, g)
<1>1. PICK h : LocalEvents(Exact(f)) = Exact(h) /\ Calmer(f, h)
  BY Zenon, LocalEventsEffect
<1>2. Calms(h) /\ \A t \in Cpus : h[t].lapic.ipis = <<>>
  BY Zenon, <1>1 DEF Calmer
<1>3. Arrive(Exact(h), <<>>) = Exact(h)
  BY Zenon, ArriveNone
<1>4. PICK g : /\ Refresh(PassOnIntr(LocalEvents(DrainLapicBus(Exact(h)))), {Bsp}) = Exact(g)
               /\ Rested(h, g)
  BY Zenon, <1>2, BoundaryRests
<1>5. Rested(f, g)
  BY Zenon, <1>1, <1>4, KeptTransitive DEF Rested, Calmer
<1>6. Boundary(s, <<>>) = Exact(g)
  BY Zenon, <1>1, <1>3, <1>4 DEF Boundary
<1> QED
  BY Zenon, <1>5, <1>6

\* What a message leaves at a processor once the boundary is over.
Left(p, q, m) == /\ ~HasSchedulerWork(q.lapic)
                 /\ q.lapic.irr = p.lapic.irr \cup Asks(m)
                 /\ IF m.mode = "sipi" THEN Starts(p, q, m.vector) ELSE SameStart(p, q)

Delivered(f, g, m, T) ==
    /\ g \in [Cpus -> Processor]
    /\ \A t \in Cpus : /\ ~HasSchedulerWork(g[t].lapic)
                       /\ IF t \in T THEN Left(f[t], g[t], m) ELSE Kept(f[t], g[t])

LEMMA DeliveredRests ==
    ASSUME NEW f, NEW g, NEW h, NEW m, NEW T,
           \A t \in Cpus : IF t \in T THEN Takes(f[t], g[t], m) ELSE Kept(f[t], g[t]),
           Rested(g, h)
    PROVE  Delivered(f, h, m, T)
<1>1. h \in [Cpus -> Processor]
  BY Zenon DEF Rested
<1>2. ASSUME NEW t \in Cpus
      PROVE  /\ ~HasSchedulerWork(h[t].lapic)
             /\ IF t \in T THEN Left(f[t], h[t], m) ELSE Kept(f[t], h[t])
  <2>1. ~HasSchedulerWork(h[t].lapic) /\ Kept(g[t], h[t])
    BY Zenon DEF Rested
  <2>2. CASE t \in T
    <3>1. Takes(f[t], g[t], m)
      BY Zenon, <2>2
    <3>2. Left(f[t], h[t], m)
      BY Zenon, <2>1, <3>1 DEF Left, Takes, Kept, SameStart, Starts
    <3> QED
      BY Zenon, <2>1, <2>2, <3>2
  <2>3. CASE t \notin T
    BY Zenon, <2>1, <2>3, KeptTransitive
  <2> QED
    BY Zenon, <2>2, <2>3
<1> QED
  BY Zenon, <1>1, <1>2 DEF Delivered

\* Who gets a message for S: everybody, or one of them.
Picked(m, S, T) == /\ T \in SUBSET Cpus
                   /\ m.mode # "lowest" => T = S
                   /\ m.mode = "lowest" /\ S = {} => T = {}
                   /\ m.mode = "lowest" /\ S # {} => \E t \in S : T = {t}

LEMMA ChosenPicked ==
    ASSUME NEW f \in [Cpus -> Processor], NEW m, NEW S \in SUBSET Cpus
    PROVE  Picked(m, S, Chosen(f, m, S))
<1>1. /\ Chosen(f, m, S) \in SUBSET S
      /\ m.mode # "lowest" => Chosen(f, m, S) = S
      /\ m.mode = "lowest" /\ S # {} => \E t \in S : Chosen(f, m, S) = {t}
  BY Zenon, ChosenIn
<1> DEFINE T == Chosen(f, m, S)
<1> HIDE DEF T
<1>2. T \in SUBSET S => T \in SUBSET Cpus /\ (S = {} => T = {})
  BY Zenon
<1> QED
  BY Zenon, <1>1, <1>2 DEF Picked, T

\* The boundary after the slice of c, with its message m.
LEMMA BoundaryDelivers ==
    ASSUME NEW f, Calms(f), NEW c \in Cpus, NEW m \in Ipi, f[c].lapic.ipis = <<m>>,
           \A t \in Cpus : t # c => f[t].lapic.ipis = <<>>
    PROVE  \E g, T : /\ Boundary(Exact(f), <<>>) = Exact(g)
                     /\ Picked(m.msg, Targets(c, m), T)
                     /\ Delivered(f, g, m.msg, T)
<1> DEFINE e == Emptied(f, c)
           T == Chosen(e, m.msg, Targets(c, m))
           d == Spread(e, m.msg, T)
<1>1. /\ DrainLapicBus(Exact(f)) = Exact(d)
      /\ Calms(d) /\ \A t \in Cpus : d[t].lapic.ipis = <<>>
  BY Zenon, DrainedOne
<1>2. Calms(e) /\ \A t \in Cpus : Kept(f[t], e[t])
  BY Zenon, EmptiedEffect
<1>3. T \in SUBSET Cpus /\ Picked(m.msg, Targets(c, m), T) /\ m.msg \in Message
  <2>1. e \in [Cpus -> Processor] /\ Targets(c, m) \in SUBSET Cpus /\ m.msg \in Message
    BY Zenon, <1>2, TargetsIn DEF Calms, Ipi
  <2>2. Picked(m.msg, Targets(c, m), T)
    BY Zenon, <2>1, ChosenPicked
  <2> HIDE DEF T
  <2> QED
    BY Zenon, <2>1, <2>2 DEF Picked
<1> HIDE DEF T, e
<1>4. Spreads(e, d, m.msg, T)
  BY Zenon, <1>2, <1>3, SpreadEffect
<1>5. PICK g : Boundary(Exact(f), <<>>) = Exact(g) /\ Rested(d, g)
  BY Zenon, <1>1, BoundaryEmpty
<1> HIDE DEF d
<1>6. \A t \in Cpus : IF t \in T THEN Takes(e[t], d[t], m.msg) ELSE Kept(e[t], d[t])
  BY Zenon, <1>4 DEF Spreads, Kept, SameStart
<1>7. Delivered(e, g, m.msg, T)
  BY Zenon, <1>5, <1>6, DeliveredRests
<1>8. Delivered(f, g, m.msg, T)
  <2>1. \A t \in Cpus : /\ Left(e[t], g[t], m.msg) => Left(f[t], g[t], m.msg)
                        /\ Kept(e[t], g[t]) => Kept(f[t], g[t])
    BY Zenon, <1>2 DEF Left, Kept, SameStart, Starts
  <2> QED
    BY Zenon, <1>7, <2>1 DEF Delivered
<1> QED
  BY Zenon, <1>3, <1>5, <1>8

LEMMA DeliverMessageExact ==
    ASSUME NEW f \in [Cpus -> Processor], NEW m, NEW T \in SUBSET Cpus
    PROVE  DeliverMessage(Exact(f), m, T) = Exact(Spread(f, m, Chosen(f, m, T)))
<1> DEFINE D == Chosen(f, m, T)
           g == Spread(f, m, D)
<1>1. D \in SUBSET Cpus
  BY Zenon, ChosenIn
<1>2. DeliverMessage(Exact(f), m, T) = DeliverToEach(Exact(f), m, D)
  BY Zenon DEF DeliverMessage, Chosen
<1> HIDE DEF D
<1>3. \A c \in Cpus \ D : g[c] = f[c]
  BY Zenon DEF Spread
<1>4. DeliverToEach(Exact(f), m, D) = Refresh([cpu |-> g, work |-> WorkOf(f)], D)
  BY Zenon DEF DeliverToEach, Spread, Exact
<1> HIDE DEF g
<1>5. WorkOf(f) \in SUBSET Cpus /\ \A c \in Cpus \ D : c \in WorkOf(f) <=> HasSchedulerWork(g[c].lapic)
  BY Zenon, <1>3 DEF WorkOf
<1>6. Refresh([cpu |-> g, work |-> WorkOf(f)], D) = Exact(g)
  BY Zenon, <1>1, <1>5, RefreshExact
<1> QED
  BY Zenon, <1>2, <1>4, <1>6 DEF g, D

\* Nobody has work.
Idle(f) == f \in [Cpus -> Processor] /\ \A t \in Cpus : ~HasSchedulerWork(f[t].lapic)

LEMMA IdleCalms ==
    ASSUME NEW f, Idle(f)
    PROVE  /\ Calms(f) /\ WorkOf(f) = {}
           /\ \A t \in Cpus : f[t].lapic.ipis = <<>> /\ f[t].lapic.events = <<>>
<1>1. \A t \in Cpus : f[t].lapic.ipis = <<>> /\ f[t].lapic.events = <<>>
  BY Zenon DEF Idle, HasSchedulerWork
<1>2. Len(<<>>) <= 1
  OBVIOUS
<1>3. \A t \in Cpus : Calm(f[t])
  BY Zenon, <1>1, <1>2 DEF Idle, Calm
<1>4. WorkOf(f) = {}
  BY Zenon DEF WorkOf, Idle
<1> QED
  BY Zenon, <1>1, <1>3, <1>4 DEF Calms, Idle

\* The processors the I/O APIC's message m is for.
ArrivesAt(m) == IF m.msg.mode = "lowest" /\ m.to # "logical" THEN {}
                ELSE IF m.to = "broadcast" THEN Cpus ELSE m.dest

\* The boundary that commits a round, with the devices' message m.
LEMMA BoundaryArrives ==
    ASSUME NEW f, Idle(f), NEW m \in Command
    PROVE  \E g, T : /\ Boundary(Exact(f), <<m>>) = Exact(g)
                     /\ Picked(m.msg, ArrivesAt(m), T)
                     /\ Delivered(f, g, m.msg, T)
<1>1. /\ Calms(f) /\ f \in [Cpus -> Processor]
      /\ \A t \in Cpus : f[t].lapic.ipis = <<>>
  BY Zenon, IdleCalms DEF Idle
<1>2. DrainLapicBus(Exact(f)) = Exact(f)
  BY Zenon, <1>1, DrainedNone
<1>3. PICK h : LocalEvents(Exact(f)) = Exact(h) /\ Calmer(f, h)
  BY Zenon, <1>1, LocalEventsEffect
<1>4. /\ Calms(h) /\ h \in [Cpus -> Processor]
      /\ \A t \in Cpus : h[t].lapic.ipis = <<>> /\ Kept(f[t], h[t])
  BY Zenon, <1>1, <1>3 DEF Calmer, Calms
<1>5. m.msg \in Message /\ m.dest \in SUBSET Cpus
  BY Zenon DEF Command
<1>6. PICK d, T : /\ Arrive(Exact(h), <<m>>) = Exact(d)
                  /\ Calms(d) /\ Spreads(h, d, m.msg, T)
                  /\ Picked(m.msg, ArrivesAt(m), T)
  <2>1. Arrive(Exact(h), <<m>>) = ArriveOne(Exact(h), m)
    BY Zenon, ArriveSingle
  <2>2. CASE m.msg.mode = "lowest" /\ m.to # "logical"
    <3>1. ArriveOne(Exact(h), m) = Exact(h)
      BY Zenon, <2>2 DEF ArriveOne
    <3>2. Picked(m.msg, ArrivesAt(m), {})
      BY Zenon, <2>2 DEF Picked, ArrivesAt
    <3>3. Spreads(h, h, m.msg, {})
      BY Zenon DEF Spreads
    <3> QED
      BY Zenon, <1>4, <2>1, <3>1, <3>2, <3>3
  <2>3. CASE ~(m.msg.mode = "lowest" /\ m.to # "logical")
    <3> DEFINE S == IF m.to = "broadcast" THEN Cpus ELSE m.dest
               T == Chosen(h, m.msg, S)
               d == Spread(h, m.msg, T)
    <3>1. S \in SUBSET Cpus /\ ArrivesAt(m) = S
      BY Zenon, <1>5, <2>3 DEF ArrivesAt
    <3>2. ArriveOne(Exact(h), m) = DeliverMessage(Exact(h), m.msg, S)
      BY Zenon, <2>3 DEF ArriveOne
    <3> HIDE DEF S
    <3>3. ArriveOne(Exact(h), m) = Exact(d)
      BY Zenon, <1>4, <3>1, <3>2, DeliverMessageExact
    <3>4. Picked(m.msg, S, T)
      BY Zenon, <1>4, <3>1, ChosenPicked
    <3> HIDE DEF T
    <3>5. T \in SUBSET Cpus
      BY Zenon, <3>4 DEF Picked
    <3>6. Calms(d) /\ Spreads(h, d, m.msg, T)
      BY Zenon, <1>4, <1>5, <3>5, SpreadEffect
    <3> HIDE DEF d
    <3> QED
      BY Zenon, <2>1, <3>1, <3>3, <3>4, <3>6
  <2> QED
    BY Zenon, <2>2, <2>3
<1>7. \A t \in Cpus : d[t].lapic.ipis = <<>>
  BY Zenon, <1>4, <1>6 DEF Spreads
<1>8. PICK g : /\ Refresh(PassOnIntr(LocalEvents(DrainLapicBus(Exact(d)))), {Bsp}) = Exact(g)
               /\ Rested(d, g)
  BY Zenon, <1>6, <1>7, BoundaryRests
<1>9. Boundary(Exact(f), <<m>>) = Exact(g)
  BY Zenon, <1>2, <1>3, <1>6, <1>8 DEF Boundary
<1>10. \A t \in Cpus : IF t \in T THEN Takes(f[t], d[t], m.msg) ELSE Kept(f[t], d[t])
  <2> TAKE t \in Cpus
  <2>1. Kept(f[t], h[t]) /\ h[t].lapic.ipis = f[t].lapic.ipis
    BY Zenon, <1>1, <1>4
  <2>2. IF t \in T THEN Takes(h[t], d[t], m.msg) ELSE d[t] = h[t]
    BY Zenon, <1>6 DEF Spreads
  <2>3. Takes(h[t], d[t], m.msg) => Takes(f[t], d[t], m.msg)
    BY Zenon, <2>1 DEF Takes, Kept, SameStart, Starts
  <2> QED
    BY Zenon, <2>1, <2>2, <2>3
<1>11. Delivered(f, g, m.msg, T)
  BY Zenon, <1>8, <1>10, DeliveredRests
<1> QED
  BY Zenon, <1>6, <1>9, <1>11

-----------------------------------------------------------------------------
(* The interrupt command register *)

\* A command cmd of c reaches c itself at once, if c is in O, and is left for
\* the processors in S.
Meant(c, cmd, O, S) ==
    /\ cmd.msg.mode \in {"fixed", "sipi"} => O \cup S = Intended(c, cmd)
    /\ cmd.msg.mode = "lowest" => /\ Arbitrated(cmd) <=> O \cup S # {}
                                  /\ O = {} \/ S = {}

SentTo(c, b) == IF b.ipis = <<>> THEN {} ELSE Targets(c, b.ipis[1])

\* The part of the command that c's own local APIC has taken.
Takes1(a, b, m, mine) == b.irr = a.irr \cup (IF mine THEN Asks(m) ELSE {})

\* b is c's local APIC a after the command cmd.
Sends(c, a, b, cmd) ==
    /\ b \in Regs /\ Len(b.events) <= 1
    /\ b.ipis = <<>> \/ \E m \in Ipi : b.ipis = <<m>> /\ m.msg = cmd.msg
    /\ \E O \in SUBSET {c} : /\ Takes1(a, b, cmd.msg, c \in O)
                             /\ Meant(c, cmd, O, SentTo(c, b))

LEMMA SendsPlain ==
    ASSUME NEW c, NEW a, NEW b \in Regs, NEW cmd, NEW O \in SUBSET {c},
           b.ipis = <<>>, Len(b.events) <= 1, Takes1(a, b, cmd.msg, c \in O),
           Meant(c, cmd, O, {})
    PROVE  Sends(c, a, b, cmd)
BY Zenon DEF Sends, SentTo

QueuedIpi(cmd, to, excluded) ==
    [to |-> to, dest |-> cmd.dest, msg |-> cmd.msg, excludeSource |-> excluded]

LEMMA SendsQueued ==
    ASSUME NEW c, NEW a, NEW b \in Regs, NEW cmd \in Command, NEW O \in SUBSET {c},
           NEW to \in {"all", "physical", "logical", "broadcast", "others"},
           NEW excluded \in BOOLEAN,
           b.ipis = <<>>, Len(b.events) <= 1, Takes1(a, b, cmd.msg, c \in O),
           Meant(c, cmd, O, Targets(c, QueuedIpi(cmd, to, excluded)))
    PROVE  Sends(c, a, Queue(b, cmd, to, excluded), cmd)
<1> DEFINE m == QueuedIpi(cmd, to, excluded)
           d == Queue(b, cmd, to, excluded)
<1>1. m \in Ipi /\ m.msg = cmd.msg
  BY Zenon DEF QueuedIpi, Command, Ipi
<1>2. d = [b EXCEPT !.ipis = Append(@, m)]
  BY Zenon DEF Queue, QueuedIpi
<1> HIDE DEF m, d
<1>3. Append(<<>>, m) = <<m>> /\ <<m>> \in Seq(Ipi) /\ <<m>> # <<>> /\ <<m>>[1] = m
  BY <1>1
<1>4. d \in Regs /\ d.irr = b.irr /\ d.events = b.events /\ d.ipis = <<m>>
  BY Zenon, <1>2, <1>3 DEF Regs, Registers
<1>5. SentTo(c, d) = Targets(c, m)
  BY Zenon, <1>3, <1>4 DEF SentTo
<1>6. Takes1(a, d, cmd.msg, c \in O)
  BY Zenon, <1>4 DEF Takes1
<1>7. Meant(c, cmd, O, SentTo(c, d))
  BY Zenon, <1>5 DEF m
<1> QED
  BY Zenon, <1>1, <1>4, <1>6, <1>7 DEF Sends, d

LEMMA SendIpiEffect ==
    ASSUME NEW c \in Cpus, NEW a \in Regs, NEW cmd \in Command,
           a.ipis = <<>>, a.events = <<>>,
           cmd.to = "self" => cmd.msg.mode \in {"fixed", "lowest"}
    PROVE  Sends(c, a, SendIpi(c, a, cmd), cmd)
<1> DEFINE here == Deliver(a, cmd.msg)
           mode == cmd.msg.mode
           none == {}
<1>1. /\ cmd.msg \in Message /\ cmd.dest \in SUBSET Cpus /\ mode \in Modes
      /\ cmd.to \in {"self", "all", "others", "physical", "logical", "broadcast"}
  BY Zenon DEF Command, Message
<1>2. /\ here \in Regs /\ here.ipis = <<>> /\ Len(here.events) <= 1
      /\ Takes1(a, here, cmd.msg, c \in {c})
  <2>1. /\ here \in Regs /\ here.ipis = a.ipis /\ here.irr = a.irr \cup Asks(cmd.msg)
        /\ here.events = a.events \o Events(cmd.msg)
    BY Zenon, <1>1, DeliverEffect
  <2>2. Events(cmd.msg) \in Seq(CpuEvent) /\ Len(Events(cmd.msg)) <= 1
    BY <1>1, MessageFields DEF Events
  <2>3. <<>> \o Events(cmd.msg) = Events(cmd.msg)
    BY Zenon, <2>2, ConcatEmptySeq
  <2> QED
    BY Zenon, <2>1, <2>2, <2>3 DEF Takes1
<1>3. Len(a.events) <= 1 /\ Takes1(a, a, cmd.msg, c \in {})
  BY DEF Takes1
<1> HIDE DEF here
<1>4. {} \in SUBSET {c} /\ {c} \in SUBSET {c} /\ c \notin {} /\ c \in {c}
  BY Zenon
<1>5. ASSUME Meant(c, cmd, {}, {}) PROVE Sends(c, a, a, cmd)
  BY Zenon, <1>3, <1>4, <1>5, SendsPlain
<1>6. ASSUME Meant(c, cmd, {c}, {}) PROVE Sends(c, a, here, cmd)
  BY Zenon, <1>2, <1>4, <1>6, SendsPlain
<1>7. ASSUME NEW to \in {"all", "physical", "logical", "broadcast", "others"}, NEW ex \in BOOLEAN,
             Meant(c, cmd, {}, Targets(c, QueuedIpi(cmd, to, ex)))
      PROVE  Sends(c, a, Queue(a, cmd, to, ex), cmd)
  BY Zenon, <1>3, <1>4, <1>7, SendsQueued
<1>8. ASSUME NEW to \in {"all", "physical", "logical", "broadcast", "others"}, NEW ex \in BOOLEAN,
             Meant(c, cmd, {c}, Targets(c, QueuedIpi(cmd, to, ex)))
      PROVE  Sends(c, a, Queue(here, cmd, to, ex), cmd)
  BY Zenon, <1>2, <1>4, <1>8, SendsQueued
<1>9. ASSUME NEW ex \in BOOLEAN
      PROVE  /\ Targets(c, QueuedIpi(cmd, "all", ex)) = IF ex THEN Cpus \ {c} ELSE Cpus
             /\ Targets(c, QueuedIpi(cmd, "broadcast", ex)) = IF ex THEN Cpus \ {c} ELSE Cpus
             /\ Targets(c, QueuedIpi(cmd, "others", ex)) = Cpus \ {c}
             /\ Targets(c, QueuedIpi(cmd, "logical", ex)) = IF ex THEN cmd.dest \ {c} ELSE cmd.dest
             /\ Targets(c, QueuedIpi(cmd, "physical", ex)) = IF ex THEN cmd.dest \ {c} ELSE cmd.dest
  BY DEF Targets, QueuedIpi
<1>10. CASE mode = "deassert"
  <2>1. SendIpi(c, a, cmd) = a
    BY Zenon, <1>10 DEF SendIpi
  <2>2. Meant(c, cmd, {}, {})
    BY <1>10 DEF Meant
  <2> QED
    BY Zenon, <1>5, <2>1, <2>2
<1>11. CASE mode # "deassert" /\ cmd.to = "self"
  <2>1. SendIpi(c, a, cmd) = here
    BY Zenon, <1>11 DEF SendIpi, Deliver, here
  <2>2. Meant(c, cmd, {c}, {})
    BY <1>11 DEF Meant, Intended, Arbitrated
  <2> QED
    BY Zenon, <1>6, <2>1, <2>2
<1>12. CASE mode # "deassert" /\ cmd.to = "all"
  <2>1. SendIpi(c, a, cmd) = IF mode = "lowest" THEN Queue(a, cmd, "all", FALSE)
                             ELSE Queue(here, cmd, "all", TRUE)
    BY <1>12 DEF SendIpi, here
  <2>2. mode = "lowest" => Meant(c, cmd, {}, Cpus)
    BY <1>12 DEF Meant, Arbitrated
  <2>3. mode # "lowest" => Meant(c, cmd, {c}, Cpus \ {c})
    BY <1>12 DEF Meant, Intended
  <2> QED
    BY ZenonT(30), <1>7, <1>8, <1>9, <2>1, <2>2, <2>3
<1>13. CASE mode # "deassert" /\ cmd.to = "others"
  <2>1. SendIpi(c, a, cmd) = IF mode = "lowest" THEN Queue(a, cmd, "all", FALSE)
                             ELSE Queue(a, cmd, "others", TRUE)
    BY <1>13 DEF SendIpi, here
  <2>2. mode = "lowest" => Meant(c, cmd, {}, Cpus)
    BY <1>13 DEF Meant, Arbitrated
  <2>3. mode # "lowest" => Meant(c, cmd, {}, Cpus \ {c})
    BY <1>13 DEF Meant, Intended
  <2> QED
    BY Zenon, <1>7, <1>9, <2>1, <2>2, <2>3
<1>14. CASE mode # "deassert" /\ cmd.to = "logical"
  <2>1. SendIpi(c, a, cmd) = IF cmd.dest = {} /\ mode # "lowest" THEN a
                             ELSE IF c \in cmd.dest /\ mode # "lowest"
                             THEN Queue(here, cmd, "logical", TRUE)
                             ELSE Queue(a, cmd, "logical", FALSE)
    BY <1>14 DEF SendIpi, here
  <2>2. cmd.dest = {} /\ mode # "lowest" => Meant(c, cmd, {}, {})
    BY <1>14 DEF Meant, Intended
  <2>3. c \in cmd.dest /\ mode # "lowest" => Meant(c, cmd, {c}, cmd.dest \ {c})
    BY <1>14 DEF Meant, Intended
  <2>4. Meant(c, cmd, {}, cmd.dest)
    BY <1>14 DEF Meant, Intended, Arbitrated
  <2> QED
    BY Zenon, <1>5, <1>7, <1>8, <1>9, <2>1, <2>2, <2>3, <2>4
<1>15. CASE mode = "lowest" /\ cmd.to \in {"physical", "broadcast"}
  <2>1. SendIpi(c, a, cmd) = a
    BY <1>15 DEF SendIpi
  <2>2. Meant(c, cmd, {}, {})
    BY <1>15 DEF Meant, Arbitrated
  <2> QED
    BY Zenon, <1>5, <2>1, <2>2
<1>16. CASE mode \notin {"deassert", "lowest"} /\ cmd.to = "broadcast"
  <2>1. SendIpi(c, a, cmd) = Queue(here, cmd, "broadcast", TRUE)
    BY Zenon, <1>16 DEF SendIpi, here
  <2>2. Meant(c, cmd, {c}, Cpus \ {c})
    BY <1>16 DEF Meant, Intended
  <2> QED
    BY Zenon, <1>8, <1>9, <2>1, <2>2
<1>17. CASE mode \notin {"deassert", "lowest"} /\ cmd.to = "physical"
  <2>1. SendIpi(c, a, cmd) = IF cmd.dest = {c} THEN here ELSE IF cmd.dest = {} THEN a
                             ELSE Queue(a, cmd, "physical", FALSE)
    BY Zenon, <1>17 DEF SendIpi, here
  <2>2. cmd.dest = {c} => Meant(c, cmd, {c}, {})
    BY <1>17 DEF Meant, Intended
  <2>3. Meant(c, cmd, {}, cmd.dest)
    BY <1>17 DEF Meant, Intended
  <2>4. cmd.dest = {} => Meant(c, cmd, {}, {})
    BY Zenon, <2>3
  <2> QED
    BY Zenon, <1>5, <1>6, <1>7, <1>9, <2>1, <2>2, <2>3, <2>4
<1> QED
  BY ZenonT(30), <1>1, <1>10, <1>11, <1>12, <1>13, <1>14, <1>15, <1>16, <1>17

-----------------------------------------------------------------------------
(* The history accounts for what the processors f hold and for the message m *)
(* that is under way to the processors in S.                                 *)

SentOK(f, x, m, S) ==
    x = [t \in Cpus |-> (f[t].lapic.irr \ {LowestVector})
                         \cup (IF t \in S /\ m.mode = "fixed" THEN Asks(m) ELSE {})]

ToldAt(p, t, y, m, S) ==
    IF p.waiting
    THEN p.start = NoVector /\ y = IF t \in S /\ m.mode = "sipi" THEN m.vector ELSE NoVector
    ELSE y = p.start /\ (p.start = NoVector <=> t = Bsp)

ToldOK(f, y, m, S) == /\ ~f[Bsp].waiting
                      /\ y = [t \in Cpus |-> y[t]]
                      /\ \A t \in Cpus : ToldAt(f[t], t, y[t], m, S)

HoldersOf(f) == {c \in Cpus : LowestVector \in f[c].lapic.irr}

Arbitrates(m, S) == m.mode = "lowest" /\ S # {}

LowestOK(f, n, m, S) ==
    /\ n \in Nat
    /\ n > 0 <=> HoldersOf(f) # {} \/ Arbitrates(m, S)
    /\ Cardinality(HoldersOf(f)) + (IF Arbitrates(m, S) THEN 1 ELSE 0) <= n

Accounts(f, x, y, n, m, S) == SentOK(f, x, m, S) /\ ToldOK(f, y, m, S) /\ LowestOK(f, n, m, S)

\* The messages of the guest and the devices.
Proper(m) == /\ m \in Message
             /\ m.mode = "lowest" => m.vector = LowestVector
             /\ m.mode = "fixed" => m.vector # LowestVector

LEMMA CommandProper ==
    ASSUME NEW cmd \in Commands \cup Arrivals
    PROVE  /\ cmd \in Command /\ Proper(cmd.msg)
           /\ cmd.to = "self" => cmd.msg.mode \in {"fixed", "lowest"}
<1>1. cmd \in Command
  BY Zenon, BusAssumption
<1>2. cmd.msg \in Message
  BY Zenon, <1>1 DEF Command
<1> QED
  BY Zenon, <1>1, <1>2, GuestAssumption DEF Proper

LEMMA VectorsReal == \A v \in Vectors : v # NoVector
BY LapicAssumption

LEMMA CpusFinite == Bsp \in Cpus /\ IsFiniteSet(Cpus) /\ NoCpu \notin Cpus
<1>1. Ncpus \in Nat \ {0} /\ 0 \in Int /\ Ncpus - 1 \in Int
  BY BusAssumption
<1>2. IsFiniteSet(0..(Ncpus - 1))
  BY <1>1, FS_Interval
<1> QED
  BY <1>1, <1>2 DEF Cpus, Bsp, NoCpu

LEMMA HoldersFinite ==
    ASSUME NEW f
    PROVE  IsFiniteSet(HoldersOf(f)) /\ Cardinality(HoldersOf(f)) \in Nat
<1>1. HoldersOf(f) \in SUBSET Cpus
  BY Zenon DEF HoldersOf
<1> QED
  BY Zenon, <1>1, CpusFinite, FS_Subset, FS_CardinalityType

\* With nobody to go to, it does not matter what the message is.
LEMMA AccountsForNone ==
    ASSUME NEW f, NEW x, NEW y, NEW n, NEW m, NEW k, Accounts(f, x, y, n, m, {})
    PROVE  Accounts(f, x, y, n, k, {})
<1>1. SentOK(f, x, k, {})
  <2>1. \A t : t \notin {}
    BY Zenon
  <2> QED
    BY Zenon, <2>1 DEF Accounts, SentOK
<1>2. ToldOK(f, y, k, {})
  BY Zenon DEF Accounts, ToldOK, ToldAt
<1>3. LowestOK(f, n, k, {})
  <2>1. Arbitrates(m, {}) = FALSE /\ Arbitrates(k, {}) = FALSE
    BY Zenon DEF Arbitrates
  <2> QED
    BY Zenon, <2>1 DEF Accounts, LowestOK
<1> QED
  BY Zenon, <1>1, <1>2, <1>3 DEF Accounts

LEMMA KeptAccounts ==
    ASSUME NEW f, NEW g, NEW x, NEW y, NEW n, NEW m, NEW S, Accounts(f, x, y, n, m, S),
           \A t \in Cpus : Kept(f[t], g[t])
    PROVE  Accounts(g, x, y, n, m, S)
<1>1. \A t \in Cpus : /\ g[t].lapic.irr = f[t].lapic.irr
                      /\ g[t].waiting = f[t].waiting /\ g[t].start = f[t].start
  BY Zenon DEF Kept, SameStart
<1>2. SentOK(g, x, m, S)
  BY Zenon, <1>1 DEF Accounts, SentOK
<1>3. ToldOK(g, y, m, S)
  BY Zenon, <1>1, CpusFinite DEF Accounts, ToldOK, ToldAt
<1>4. HoldersOf(g) = HoldersOf(f)
  BY Zenon, <1>1 DEF HoldersOf
<1>5. LowestOK(g, n, m, S)
  BY Zenon, <1>4 DEF Accounts, LowestOK
<1> QED
  BY Zenon, <1>2, <1>3, <1>5 DEF Accounts

\* The message under way arrives.
LEMMA DeliveredAccounts ==
    ASSUME NEW f, NEW g, NEW x, NEW y, NEW n, NEW m, NEW S \in SUBSET Cpus, NEW T,
           Accounts(f, x, y, n, m, S), Proper(m), Picked(m, S, T), Delivered(f, g, m, T)
    PROVE  Accounts(g, x, y, n, m, {})
<1>0. /\ m.vector \in Vectors /\ m.vector # NoVector /\ m.mode \in Modes
      /\ T \in SUBSET Cpus
  <2>1. m.vector \in Vectors /\ m.mode \in Modes /\ T \in SUBSET Cpus
    BY Zenon, MessageFields DEF Proper, Picked
  <2> QED
    BY <2>1, VectorsReal
<1>1. ASSUME NEW t \in Cpus
      PROVE  /\ g[t].lapic.irr = IF t \in T THEN f[t].lapic.irr \cup Asks(m) ELSE f[t].lapic.irr
             /\ IF t \in T /\ m.mode = "sipi" THEN Starts(f[t], g[t], m.vector)
                ELSE SameStart(f[t], g[t])
  BY Zenon DEF Delivered, Left, Kept
<1>2. SentOK(g, x, m, {})
  <2>1. ASSUME NEW t \in Cpus
        PROVE  (g[t].lapic.irr \ {LowestVector}) \cup {}
                 = (f[t].lapic.irr \ {LowestVector})
                   \cup (IF t \in S /\ m.mode = "fixed" THEN Asks(m) ELSE {})
    <3>1. CASE m.mode = "fixed"
      <4>1. LowestVector \notin Asks(m) /\ T = S
        BY Zenon, <3>1 DEF Asks, Proper, Picked
      <4> QED
        BY Zenon, <1>1, <3>1, <4>1
    <3>2. CASE m.mode # "fixed"
      <4>1. Asks(m) \in SUBSET {LowestVector}
        BY Zenon, <3>2 DEF Asks, Proper
      <4> QED
        BY Zenon, <1>1, <3>2, <4>1
    <3> QED
      BY Zenon, <3>1, <3>2
  <2>2. \A t : t \notin {}
    BY Zenon
  <2> QED
    BY Zenon, <2>1, <2>2 DEF Accounts, SentOK
<1>3. ToldOK(g, y, m, {})
  <2>1. ASSUME NEW t \in Cpus PROVE ToldAt(g[t], t, y[t], m, {})
    <3>1. ToldAt(f[t], t, y[t], m, S)
      BY Zenon DEF Accounts, ToldOK
    <3>2. m.mode = "sipi" => T = S
      BY Zenon DEF Picked
    <3>3. t = Bsp => ~f[t].waiting
      BY Zenon DEF Accounts, ToldOK
    <3>4. CASE f[t].waiting
      BY ZenonT(30), <1>0, <1>1, <3>1, <3>2, <3>3, <3>4 DEF ToldAt, Starts, SameStart
    <3>5. CASE ~f[t].waiting
      BY Zenon, <1>1, <3>1, <3>5 DEF ToldAt, Starts, SameStart
    <3> QED
      BY Zenon, <3>4, <3>5
  <2>2. ~g[Bsp].waiting
    BY Zenon, <1>1, CpusFinite DEF Accounts, ToldOK, Starts, SameStart
  <2> QED
    BY Zenon, <2>1, <2>2 DEF Accounts, ToldOK
<1>4. LowestOK(g, n, m, {})
  <2> DEFINE H == HoldersOf(f)
             K == HoldersOf(g)
  <2>0. /\ n \in Nat
        /\ n > 0 <=> H # {} \/ Arbitrates(m, S)
        /\ Cardinality(H) + (IF Arbitrates(m, S) THEN 1 ELSE 0) <= n
        /\ IsFiniteSet(H) /\ Cardinality(H) \in Nat
    BY Zenon, HoldersFinite DEF Accounts, LowestOK
  <2>1. ~Arbitrates(m, {})
    BY Zenon DEF Arbitrates
  <2>2. CASE Arbitrates(m, S)
    <3>1. PICK t \in S : T = {t}
      BY Zenon, <2>2 DEF Arbitrates, Picked
    <3>2. Asks(m) = {LowestVector}
      BY Zenon, <2>2, GuestAssumption DEF Arbitrates, Asks, Proper
    <3>3. K = H \cup {t}
      BY Zenon, <1>1, <3>1, <3>2 DEF HoldersOf
    <3> HIDE DEF H, K
    <3>4. Cardinality(K) <= Cardinality(H) + 1 /\ Cardinality(K) \in Nat
      <4>1. /\ IsFiniteSet(H \cup {t})
            /\ Cardinality(H \cup {t}) = IF t \in H THEN Cardinality(H) ELSE Cardinality(H) + 1
        BY Zenon, <2>0, FS_AddElement
      <4> QED
        BY <2>0, <3>3, <4>1
    <3>5. K # {}
      BY Zenon, <3>3
    <3>6. n > 0 /\ Cardinality(K) + 0 <= n
      BY <2>0, <2>2, <3>4
    <3> QED
      BY Zenon, <2>0, <2>1, <3>5, <3>6 DEF LowestOK, K
  <2>3. CASE ~Arbitrates(m, S)
    <3>1. K = H
      <4>1. CASE m.mode = "lowest"
        <5>1. T = {}
          BY Zenon, <2>3, <4>1 DEF Arbitrates, Picked
        <5> QED
          BY Zenon, <1>1, <5>1 DEF HoldersOf
      <4>2. CASE m.mode # "lowest"
        <5>1. LowestVector \notin Asks(m)
          BY Zenon, <4>2 DEF Asks, Proper
        <5> QED
          BY Zenon, <1>1, <5>1 DEF HoldersOf
      <4> QED
        BY Zenon, <4>1, <4>2
    <3> QED
      BY Zenon, <2>0, <2>1, <2>3, <3>1 DEF LowestOK
  <2> QED
    BY Zenon, <2>2, <2>3
<1> QED
  BY Zenon, <1>2, <1>3, <1>4 DEF Accounts

\* A command of c is accepted: c's own copy, if it is in O, is there, and the
\* rest is under way to S.
LEMMA SentAccounts ==
    ASSUME NEW g, NEW m, Accounts(cpu, sent, told, lowest, m, {}),
           NEW c, NEW cmd, Proper(cmd.msg), Expect(c, cmd),
           NEW O \in SUBSET {c}, O \in SUBSET Cpus, NEW S \in SUBSET Cpus,
           Meant(c, cmd, O, S),
           \A t \in O : ~cpu[t].waiting,
           \A t \in Cpus : /\ SameStart(cpu[t], g[t])
                           /\ Takes1(cpu[t].lapic, g[t].lapic, cmd.msg, t \in O)
    PROVE  Accounts(g, sent', told', lowest', cmd.msg, S)
<1> DEFINE k == cmd.msg
           add(t) == IF t \in O THEN Asks(k) ELSE {}
<1>1. \A t \in Cpus : g[t].lapic.irr = cpu[t].lapic.irr \cup add(t)
  BY Zenon DEF Takes1
<1>2. \A t \in Cpus : sent[t] = cpu[t].lapic.irr \ {LowestVector}
  <2>1. \A t : t \notin {}
    BY Zenon
  <2>2. \A t \in Cpus : sent[t] = (cpu[t].lapic.irr \ {LowestVector}) \cup {}
    BY Zenon, <2>1 DEF Accounts, SentOK
  <2> QED
    BY Zenon, <2>2
<1>3. SentOK(g, sent', k, S)
  <2>1. ASSUME NEW t \in Cpus
        PROVE  (IF k.mode = "fixed" /\ Usable(k.vector) /\ t \in Intended(c, cmd)
                THEN sent[t] \cup {k.vector} ELSE sent[t])
               = (g[t].lapic.irr \ {LowestVector})
                 \cup (IF t \in S /\ k.mode = "fixed" THEN Asks(k) ELSE {})
    <3>1. CASE k.mode = "fixed"
      <4>1. LowestVector \notin Asks(k) /\ Intended(c, cmd) = O \cup S
        BY Zenon, <3>1 DEF Asks, Proper, Meant
      <4>2. Asks(k) = IF Usable(k.vector) THEN {k.vector} ELSE {}
        BY Zenon, <3>1 DEF Asks
      <4> QED
        BY Zenon, <1>1, <1>2, <3>1, <4>1, <4>2
    <3>2. CASE k.mode # "fixed"
      <4>1. Asks(k) \in SUBSET {LowestVector}
        BY Zenon, <3>2 DEF Asks, Proper
      <4> QED
        BY Zenon, <1>1, <1>2, <3>2, <4>1
    <3> QED
      BY Zenon, <3>1, <3>2
  <2> QED
    BY Zenon, <2>1 DEF SentOK, Expect
<1>4. ToldOK(g, told', k, S)
  <2>1. ASSUME NEW t \in Cpus PROVE ToldAt(g[t], t, told'[t], k, S)
    <3>1. ToldAt(cpu[t], t, told[t], m, {})
      BY Zenon DEF Accounts, ToldOK
    <3>2. g[t].waiting = cpu[t].waiting /\ g[t].start = cpu[t].start
      BY Zenon DEF SameStart
    <3>3. told'[t] = IF k.mode = "sipi" /\ t \in Intended(c, cmd) /\ cpu[t].waiting /\ told[t] = NoVector
                     THEN k.vector ELSE told[t]
      BY Zenon DEF Expect
    <3>4. CASE cpu[t].waiting
      <4>1. told[t] = NoVector /\ cpu[t].start = NoVector
        BY Zenon, <3>1, <3>4 DEF ToldAt
      <4>2. k.mode = "sipi" => (t \in Intended(c, cmd) <=> t \in S)
        BY Zenon, <3>4 DEF Meant
      <4> QED
        BY Zenon, <3>2, <3>3, <3>4, <4>1, <4>2 DEF ToldAt
    <3>5. CASE ~cpu[t].waiting
      BY Zenon, <3>1, <3>2, <3>3, <3>5 DEF ToldAt
    <3> QED
      BY Zenon, <3>4, <3>5
  <2>2. ~g[Bsp].waiting
    BY Zenon, CpusFinite DEF Accounts, ToldOK, SameStart
  <2>3. told' = [t \in Cpus |-> told'[t]]
    BY Zenon DEF Expect
  <2> QED
    BY Zenon, <2>1, <2>2, <2>3 DEF ToldOK
<1>5. LowestOK(g, lowest', k, S)
  <2> DEFINE H == HoldersOf(cpu)
             K == HoldersOf(g)
  <2>0. /\ lowest \in Nat
        /\ lowest > 0 <=> H # {}
        /\ Cardinality(H) + 0 <= lowest
        /\ IsFiniteSet(H) /\ Cardinality(H) \in Nat
    BY Zenon, HoldersFinite DEF Accounts, LowestOK, Arbitrates
  <2>1. lowest' = IF Arbitrated(cmd) THEN lowest + 1 ELSE lowest
    BY Zenon DEF Expect
  <2>2. CASE Arbitrated(cmd)
    <3>1. /\ k.mode = "lowest" /\ O \cup S # {} /\ (O = {} \/ S = {})
          /\ Asks(k) = {LowestVector}
      BY Zenon, <2>2, GuestAssumption DEF Arbitrated, Meant, Asks, Proper
    <3>2. lowest' \in Nat /\ lowest' > 0 /\ lowest' = lowest + 1
      BY <2>0, <2>1, <2>2
    <3>3. CASE O = {}
      <4>1. K = H
        BY Zenon, <1>1, <3>3 DEF HoldersOf
      <4>2. Arbitrates(k, S)
        BY Zenon, <3>1, <3>3 DEF Arbitrates
      <4>3. Cardinality(H) + 1 <= lowest'
        BY <2>0, <3>2
      <4> QED
        BY Zenon, <3>2, <4>1, <4>2, <4>3 DEF LowestOK
    <3>4. CASE O # {}
      <4>1. O = {c} /\ S = {} /\ c \in Cpus
        BY Zenon, <3>1, <3>4
      <4>2. K = H \cup {c}
        <5>1. \A t \in Cpus : g[t].lapic.irr = IF t = c THEN cpu[t].lapic.irr \cup {LowestVector}
                                               ELSE cpu[t].lapic.irr \cup {}
          BY Zenon, <1>1, <3>1, <4>1
        <5> QED
          BY Zenon, <4>1, <5>1 DEF HoldersOf
      <4>3. ~Arbitrates(k, S) /\ K # {}
        BY Zenon, <4>1, <4>2 DEF Arbitrates
      <4> HIDE DEF H, K
      <4>4. /\ IsFiniteSet(H \cup {c})
            /\ Cardinality(H \cup {c}) = IF c \in H THEN Cardinality(H) ELSE Cardinality(H) + 1
        BY Zenon, <2>0, FS_AddElement
      <4>5. Cardinality(K) + 0 <= lowest'
        BY <2>0, <3>2, <4>2, <4>4
      <4> QED
        BY Zenon, <3>2, <4>3, <4>5 DEF LowestOK, K
    <3> QED
      BY Zenon, <3>3, <3>4
  <2>3. CASE ~Arbitrated(cmd)
    <3>1. ~Arbitrates(k, S)
      BY Zenon, <2>3 DEF Arbitrates, Meant
    <3>2. K = H
      <4>1. CASE k.mode = "lowest"
        <5>1. O = {}
          BY Zenon, <2>3, <4>1 DEF Meant
        <5> QED
          BY Zenon, <1>1, <5>1 DEF HoldersOf
      <4>2. CASE k.mode # "lowest"
        <5>1. LowestVector \notin Asks(k)
          BY Zenon, <4>2 DEF Asks, Proper
        <5> QED
          BY Zenon, <1>1, <5>1 DEF HoldersOf
      <4> QED
        BY Zenon, <4>1, <4>2
    <3>3. lowest' = lowest
      BY Zenon, <2>1, <2>3
    <3> QED
      BY Zenon, <2>0, <3>1, <3>2, <3>3 DEF LowestOK
  <2> QED
    BY Zenon, <2>2, <2>3
<1> QED
  BY Zenon, <1>3, <1>4, <1>5 DEF Accounts

\* The history after c took, or lost, the requests in gone.
Forgets(f, g, x, y, n, c, gone, m) ==
    LET x2 == [x EXCEPT ![c] = @ \ gone]
        y2 == IF g[c].waiting THEN [y EXCEPT ![c] = NoVector] ELSE y
        n2 == IF LowestVector \in gone /\ HoldersOf(f) = {c} THEN 0 ELSE n
    IN  Accounts(g, x2, y2, n2, m, {})

\* c takes one of its requests, or forgets all it had in its INIT.
LEMMA TakenAccounts ==
    ASSUME NEW f, NEW g, NEW x, NEW y, NEW n, NEW m, Accounts(f, x, y, n, m, {}),
           NEW c \in Cpus, NEW gone,
           \A t \in Cpus : t # c => Kept(f[t], g[t]),
           gone = f[c].lapic.irr \ g[c].lapic.irr, g[c].lapic.irr \in SUBSET f[c].lapic.irr,
           \/ SameStart(f[c], g[c]) /\ ~g[c].waiting
           \/ g[c].start = NoVector /\ g[c].waiting = (c # Bsp)
    PROVE  Forgets(f, g, x, y, n, c, gone, m)
<1> DEFINE x2 == [x EXCEPT ![c] = @ \ gone]
           y2 == IF g[c].waiting THEN [y EXCEPT ![c] = NoVector] ELSE y
           H == HoldersOf(f)
           K == HoldersOf(g)
           n2 == IF LowestVector \in gone /\ H = {c} THEN 0 ELSE n
<1>0. \A t : t \notin {}
  BY Zenon
<1>1. \A t \in Cpus : t # c => /\ g[t].lapic.irr = f[t].lapic.irr
                               /\ g[t].waiting = f[t].waiting /\ g[t].start = f[t].start
  BY Zenon DEF Kept, SameStart
<1>2. SentOK(g, x2, m, {})
  <2>1. x = [t \in Cpus |-> (f[t].lapic.irr \ {LowestVector}) \cup {}]
    BY Zenon, <1>0 DEF Accounts, SentOK
  <2>2. x2 = [t \in Cpus |-> IF t = c THEN x[c] \ gone ELSE x[t]]
    BY Zenon, <2>1
  <2>3. ASSUME NEW t \in Cpus
        PROVE  (IF t = c THEN x[c] \ gone ELSE x[t]) = (g[t].lapic.irr \ {LowestVector}) \cup {}
    <3>1. x[t] = (f[t].lapic.irr \ {LowestVector}) \cup {}
      BY Zenon, <2>1
    <3>2. CASE t = c
      BY Zenon, <3>1, <3>2
    <3>3. CASE t # c
      BY Zenon, <1>1, <3>1, <3>3
    <3> QED
      BY Zenon, <3>2, <3>3
  <2> HIDE DEF x2
  <2>4. x2 = [t \in Cpus |-> (g[t].lapic.irr \ {LowestVector}) \cup {}]
    BY Zenon, <2>2, <2>3
  <2> QED
    BY Zenon, <1>0, <2>4 DEF SentOK
<1>3. ToldOK(g, y2, m, {})
  <2>1. y = [t \in Cpus |-> y[t]] /\ ~f[Bsp].waiting
    BY Zenon DEF Accounts, ToldOK
  <2>2. y2 = [t \in Cpus |-> IF t = c /\ g[c].waiting THEN NoVector ELSE y[t]]
    BY Zenon, <2>1
  <2> HIDE DEF y2
  <2>3. ~g[Bsp].waiting
    BY Zenon, <1>1, <2>1, CpusFinite
  <2>4. ASSUME NEW t \in Cpus PROVE ToldAt(g[t], t, y2[t], m, {})
    <3>1. ToldAt(f[t], t, y[t], m, {})
      BY Zenon DEF Accounts, ToldOK
    <3>2. y2[t] = IF t = c /\ g[c].waiting THEN NoVector ELSE y[t]
      BY Zenon, <2>2
    <3>3. CASE t # c
      BY Zenon, <1>1, <3>1, <3>2, <3>3 DEF ToldAt
    <3>4. CASE t = c /\ SameStart(f[c], g[c]) /\ ~g[c].waiting
      BY Zenon, <3>1, <3>2, <3>4 DEF ToldAt, SameStart
    <3>5. CASE t = c /\ g[c].start = NoVector /\ c # Bsp /\ g[c].waiting
      BY Zenon, <1>0, <3>2, <3>5 DEF ToldAt
    <3>6. CASE t = c /\ g[c].start = NoVector /\ c = Bsp /\ ~g[c].waiting
      BY Zenon, <2>1, <3>1, <3>2, <3>6 DEF ToldAt
    <3> QED
      BY Zenon, <3>3, <3>4, <3>5, <3>6
  <2>5. y2 = [t \in Cpus |-> y2[t]]
    BY Zenon, <2>2
  <2> QED
    BY Zenon, <2>3, <2>4, <2>5 DEF ToldOK
<1>4. LowestOK(g, n2, m, {})
  <2>0. /\ n \in Nat
        /\ n > 0 <=> H # {}
        /\ Cardinality(H) + 0 <= n
        /\ IsFiniteSet(H) /\ Cardinality(H) \in Nat
    BY Zenon, HoldersFinite DEF Accounts, LowestOK, Arbitrates
  <2>1. ~Arbitrates(m, {})
    BY Zenon DEF Arbitrates
  <2>2. CASE LowestVector \in gone
    <3>1. K = H \ {c} /\ c \in H
      BY Zenon, <1>1, <2>2 DEF HoldersOf
    <3> HIDE DEF H, K
    <3>2. Cardinality(H \ {c}) = Cardinality(H) - 1
      BY Zenon, <2>0, <3>1, FS_RemoveElement
    <3>3. CASE H = {c}
      <4>1. K = {} /\ n2 = 0
        BY Zenon, <2>2, <3>1, <3>3
      <4>2. Cardinality(K) = 0
        BY Zenon, <4>1, FS_EmptySet
      <4>3. Cardinality(K) + 0 <= 0 /\ 0 \in Nat /\ ~(0 > 0)
        BY <4>2
      <4> QED
        BY Zenon, <2>1, <4>1, <4>3 DEF LowestOK, K
    <3>4. CASE H # {c}
      <4>1. K # {} /\ n2 = n /\ H # {}
        BY Zenon, <3>1, <3>4
      <4>2. Cardinality(K) + 0 <= n
        BY <2>0, <3>1, <3>2
      <4> QED
        BY Zenon, <2>0, <2>1, <4>1, <4>2 DEF LowestOK, K
    <3> QED
      BY Zenon, <3>3, <3>4
  <2>3. CASE LowestVector \notin gone
    <3>1. K = H /\ n2 = n
      BY Zenon, <1>1, <2>3 DEF HoldersOf
    <3> QED
      BY Zenon, <2>0, <2>1, <3>1 DEF LowestOK
  <2> QED
    BY Zenon, <2>2, <2>3
<1> QED
  BY Zenon, <1>2, <1>3, <1>4 DEF Forgets, Accounts

-----------------------------------------------------------------------------
(* The other accesses of a slice *)

LEMMA MaxVectorIn ==
    ASSUME NEW S \in SUBSET Vectors, S # {}
    PROVE  Max(S) \in S
<1> DEFINE D == {MaxVector - v : v \in S}
<1>1. MaxVector \in Nat /\ \A v \in S : v \in 0..MaxVector
  BY LapicAssumption
<1>2. D \in SUBSET Nat /\ D # {}
  BY <1>1
<1>3. PICK d \in D : \A e \in D : d <= e
  BY Zenon, <1>2, LeastOf
<1>4. PICK x \in S : d = MaxVector - x
  BY Zenon, <1>3
<1>5. \A y \in S : x >= y
  <2> TAKE y \in S
  <2>1. d <= MaxVector - y
    BY Zenon, <1>3
  <2> QED
    BY <1>1, <1>4, <2>1
<1> QED
  BY Zenon, <1>4, <1>5 DEF Max

\* b has the requests, the queues and the types of a; its slots may differ.
SameRequests(a, b) == b \in Regs /\ b.irr = a.irr /\ b.ipis = a.ipis /\ b.events = a.events

LEMMA EndVectorEffect ==
    ASSUME NEW a \in Regs, NEW v
    PROVE  SameRequests(a, EndVector(a, v))
<1> DEFINE e == IF v \in a.tmr THEN v ELSE a.eoi
           b == [a EXCEPT !.isr = @ \ {v}, !.eoi = e, !.tmr = @ \ {v}]
<1>1. e \in Vectors \cup {NoVector}
  BY Zenon DEF Regs, Registers
<1>2. EndVector(a, v) = Service(b)
  BY Zenon DEF EndVector, Regs, Registers
<1> HIDE DEF e
<1>3. b \in Regs /\ b.irr = a.irr /\ b.ipis = a.ipis /\ b.events = a.events
  BY Zenon, <1>1 DEF Regs, Registers
<1> HIDE DEF b
<1> QED
  BY Zenon, <1>2, <1>3, ServiceEffect DEF SameRequests, SameQueues

LEMMA ReceiveEoiEffect ==
    ASSUME NEW a \in Regs
    PROVE  SameRequests(a, ReceiveEoi(a))
<1>1. ReceiveEoi(a) = a \/ ReceiveEoi(a) = EndVector(a, Max(a.isr))
  BY Zenon DEF ReceiveEoi
<1>2. SameRequests(a, a)
  BY Zenon DEF SameRequests
<1> QED
  BY Zenon, <1>1, <1>2, EndVectorEffect

LEMMA SetTprEffect ==
    ASSUME NEW a \in Regs, NEW t \in Nat
    PROVE  SameRequests(a, SetTpr(a, t))
<1> DEFINE b == [a EXCEPT !.tpr = t]
<1>1. SetTpr(a, t) = Service(b) \/ SetTpr(a, t) = b
  BY Zenon DEF SetTpr
<1>2. b \in Regs /\ b.irr = a.irr /\ b.ipis = a.ipis /\ b.events = a.events
  BY Zenon DEF Regs, Registers
<1> HIDE DEF b
<1> QED
  BY Zenon, <1>1, <1>2, ServiceEffect DEF SameRequests, SameQueues

LEMMA AcknowledgeEffect ==
    ASSUME NEW a \in Regs
    PROVE  LET b == Acknowledge(a)
           IN  b \in Regs /\ b.irr \in SUBSET a.irr /\ SameQueues(a, b)
<1> DEFINE v == Max(a.irr)
           d == [a EXCEPT !.irr = @ \ {v}, !.isr = @ \cup {v}, !.intr = FALSE]
           e == [a EXCEPT !.intr = FALSE]
<1>1. Acknowledge(a) = e \/ (a.irr # {} /\ Acknowledge(a) = Service(d))
  BY Zenon DEF Acknowledge, Deliverable
<1>2. e \in Regs /\ e.irr \in SUBSET a.irr /\ SameQueues(a, e)
  BY Zenon DEF Regs, Registers, SameQueues
<1>3. a.irr # {} => v \in Vectors
  BY Zenon, RegsFields, MaxVectorIn
<1> HIDE DEF v, e
<1>4. a.irr # {} => d \in Regs /\ d.irr \in SUBSET a.irr /\ SameQueues(a, d)
  BY Zenon, <1>3 DEF Regs, Registers, SameQueues
<1> HIDE DEF d
<1>5. a.irr # {} => /\ Service(d) \in Regs /\ Service(d).irr \in SUBSET a.irr
                    /\ SameQueues(a, Service(d))
  BY Zenon, <1>4, ServiceEffect DEF SameQueues
<1> QED
  BY Zenon, <1>1, <1>2, <1>5

-----------------------------------------------------------------------------
(* The invariant *)

QueuedAt(f, s) == s \in Cpus /\ f[s].lapic.ipis # <<>>
FirstOf(f, s)  == f[s].lapic.ipis[1]
GoingTo(f, s)  == IF QueuedAt(f, s) THEN Targets(s, FirstOf(f, s)) ELSE {}

\* Only the processor s that runs may have left something, and then its slice
\* is over; a message is one, and so is an event.
Quiet(f, w, s, l) ==
    /\ f \in [Cpus -> Processor] /\ w = {}
    /\ s \in Cpus \cup {NoCpu} /\ l \in BOOLEAN
    /\ \A c \in Cpus : c # s \/ ~l => ~HasSchedulerWork(f[c].lapic)
    /\ l => /\ s \in Cpus /\ ~f[s].waiting
            /\ Len(f[s].lapic.ipis) <= 1 /\ Len(f[s].lapic.events) <= 1
            /\ QueuedAt(f, s) => Proper(FirstOf(f, s).msg)

History(f, s, x, y, n) == Accounts(f, x, y, n, FirstOf(f, s).msg, GoingTo(f, s))

BusInv == Quiet(cpu, work, slice, latch) /\ History(cpu, slice, sent, told, lowest)

LEMMA QuietIdle ==
    ASSUME NEW f, NEW w, NEW s, Quiet(f, w, s, FALSE)
    PROVE  Idle(f) /\ GoingTo(f, s) = {} /\ s \in Cpus \cup {NoCpu} /\ w = {}
<1>1. Idle(f)
  BY Zenon DEF Quiet, Idle
<1>2. ~QueuedAt(f, s)
  BY Zenon, <1>1 DEF Idle, HasSchedulerWork, QueuedAt
<1> QED
  BY Zenon, <1>1, <1>2 DEF GoingTo, Quiet

LEMMA IdleQuiet ==
    ASSUME NEW f, Idle(f), NEW s \in Cpus \cup {NoCpu}
    PROVE  Quiet(f, {}, s, FALSE) /\ GoingTo(f, s) = {}
<1>1. ~QueuedAt(f, s)
  BY Zenon DEF Idle, HasSchedulerWork, QueuedAt
<1> QED
  BY Zenon, <1>1 DEF GoingTo, Quiet, Idle

LEMMA QuietCalms ==
    ASSUME NEW f, NEW w, NEW s, Quiet(f, w, s, TRUE)
    PROVE  Calms(f) /\ s \in Cpus /\ \A t \in Cpus : t # s => f[t].lapic.ipis = <<>>
<1>0. Len(<<>>) <= 1
  OBVIOUS
<1>1. \A t \in Cpus : t # s => f[t].lapic.ipis = <<>> /\ f[t].lapic.events = <<>>
  BY Zenon DEF Quiet, HasSchedulerWork
<1>2. f \in [Cpus -> Processor]
  BY Zenon DEF Quiet
<1>3. \A t \in Cpus : t # s => Calm(f[t])
  BY Zenon, <1>0, <1>1, <1>2 DEF Calm
<1>4. s \in Cpus /\ Calm(f[s])
  BY Zenon, <1>2 DEF Quiet, Calm
<1> QED
  BY Zenon, <1>1, <1>2, <1>3, <1>4 DEF Calms

\* With nothing under way, the history only has to account for the processors.
LEMMA HistoryIdle ==
    ASSUME NEW f, NEW s, GoingTo(f, s) = {}, NEW x, NEW y, NEW n, NEW m
    PROVE  History(f, s, x, y, n) <=> Accounts(f, x, y, n, m, {})
BY Zenon, AccountsForNone DEF History

\* A step that sends nothing and leaves every request and start as it was.
LEMMA KeptHistory ==
    ASSUME BusInv, ~latch, GoingTo(cpu', slice') = {},
           \A t \in Cpus : Kept(cpu[t], cpu'[t]),
           UNCHANGED <<sent, told, lowest>>
    PROVE  History(cpu', slice', sent', told', lowest')
<1> DEFINE m == FirstOf(cpu, slice).msg
<1>1. latch = FALSE
  BY Zenon DEF BusInv, Quiet
<1>2. Accounts(cpu, sent, told, lowest, m, {})
  BY Zenon, <1>1, QuietIdle, HistoryIdle DEF BusInv
<1> HIDE DEF m
<1>3. Accounts(cpu', sent', told', lowest', m, {})
  BY Zenon, <1>2, KeptAccounts
<1> QED
  BY Zenon, <1>3, HistoryIdle

\* The same, of a step that leaves nobody any work.
LEMMA KeptInv ==
    ASSUME BusInv, ~latch, Idle(cpu'), work' = {}, slice' \in Cpus \cup {NoCpu}, latch' = FALSE,
           \A t \in Cpus : Kept(cpu[t], cpu'[t]),
           UNCHANGED <<sent, told, lowest>>
    PROVE  BusInv'
<1>1. Quiet(cpu', {}, slice', FALSE) /\ GoingTo(cpu', slice') = {}
  BY Zenon, IdleQuiet
<1>2. History(cpu', slice', sent', told', lowest')
  BY Zenon, <1>1, KeptHistory
<1> QED
  BY Zenon, <1>1, <1>2 DEF BusInv

LEMMA ResetFacts ==
    ASSUME NEW c \in Cpus
    PROVE  /\ ResetCpu(c) \in Processor /\ ~HasSchedulerWork(ResetCpu(c).lapic)
           /\ ResetCpu(c).lapic.irr = {}
           /\ ResetCpu(c).start = NoVector /\ ResetCpu(c).waiting = (c # Bsp)
<1>1. /\ 0 \in Nat /\ MaxVector \in 0..MaxVector
      /\ <<>> \in Seq(Ipi) /\ <<>> \in Seq(CpuEvent)
  BY LapicAssumption
<1>2. ResetLapic \in Regs
  BY Zenon, <1>1 DEF ResetLapic, Regs, Registers
<1>3. ~HasSchedulerWork(ResetLapic) /\ ResetLapic.irr = {}
  BY Zenon DEF ResetLapic, HasSchedulerWork
<1>4. /\ ResetCpu(c) \in Processor /\ ResetCpu(c).lapic = ResetLapic
      /\ ResetCpu(c).start = NoVector /\ ResetCpu(c).waiting = (c # Bsp)
  BY <1>2 DEF ResetCpu, Processor, Regs
<1> QED
  BY Zenon, <1>3, <1>4

LEMMA InitInv == HInit => BusInv
<1> SUFFICES ASSUME HInit PROVE BusInv
  OBVIOUS
<1>1. \A c \in Cpus : cpu[c] = ResetCpu(c)
  BY Zenon DEF HInit, Init
<1>2. cpu \in [Cpus -> Processor]
  BY Zenon, ResetFacts DEF HInit, Init
<1>3. \A t \in Cpus : cpu[t].lapic.irr = {}
  BY Zenon, <1>1, ResetFacts
<1>4. Idle(cpu)
  BY Zenon, <1>1, <1>2, ResetFacts DEF Idle
<1>5. Quiet(cpu, work, slice, latch) /\ GoingTo(cpu, slice) = {}
  <2>1. work = {} /\ slice = NoCpu /\ latch = FALSE
    BY Zenon DEF HInit, Init
  <2>2. Quiet(cpu, {}, NoCpu, FALSE) /\ GoingTo(cpu, NoCpu) = {}
    BY Zenon, <1>4, IdleQuiet
  <2> QED
    BY Zenon, <2>1, <2>2
<1> DEFINE m == FirstOf(cpu, slice).msg
<1> HIDE DEF m
<1>6. SentOK(cpu, sent, m, {})
  <2>1. \A t \in Cpus : {} = (cpu[t].lapic.irr \ {LowestVector})
                             \cup (IF t \in {} /\ m.mode = "fixed" THEN Asks(m) ELSE {})
    BY Zenon, <1>3
  <2> QED
    BY Zenon, <2>1 DEF SentOK, HInit
<1>7. ToldOK(cpu, told, m, {})
  <2>1. \A t \in Cpus : told[t] = NoVector /\ cpu[t].start = NoVector /\ cpu[t].waiting = (t # Bsp)
    BY Zenon, <1>1, ResetFacts DEF HInit
  <2> QED
    BY Zenon, <2>1, CpusFinite DEF ToldOK, ToldAt, HInit
<1>8. LowestOK(cpu, lowest, m, {})
  <2>1. HoldersOf(cpu) = {}
    BY Zenon, <1>3 DEF HoldersOf
  <2>2. Cardinality({}) = 0
    BY Zenon, FS_EmptySet
  <2>3. ~Arbitrates(m, {}) /\ lowest = 0
    BY Zenon DEF Arbitrates, HInit
  <2>4. 0 \in Nat /\ ~(0 > 0) /\ 0 + 0 <= 0
    OBVIOUS
  <2> QED
    BY Zenon, <2>1, <2>2, <2>3, <2>4 DEF LowestOK
<1> QED
  BY Zenon, <1>5, <1>6, <1>7, <1>8, HistoryIdle DEF BusInv, Accounts

-----------------------------------------------------------------------------
(* The actions *)

\* A processor has a step only while it owes no boundary.
LEMMA RunningIdle ==
    ASSUME BusInv, ~latch
    PROVE  /\ latch = FALSE /\ Idle(cpu) /\ work = {} /\ cpu \in [Cpus -> Processor]
           /\ slice \in Cpus \cup {NoCpu}
           /\ \A m : Accounts(cpu, sent, told, lowest, m, {})
<1>1. latch = FALSE
  BY Zenon DEF BusInv, Quiet
<1>2. Idle(cpu) /\ GoingTo(cpu, slice) = {} /\ slice \in Cpus \cup {NoCpu} /\ work = {}
  BY Zenon, <1>1, QuietIdle DEF BusInv
<1>3. \A m : Accounts(cpu, sent, told, lowest, m, {})
  BY Zenon, <1>2, HistoryIdle DEF BusInv
<1> QED
  BY Zenon, <1>1, <1>2, <1>3 DEF Idle

LEMMA StartSliceKeeps ==
    ASSUME BusInv, NEW c \in Cpus, StartSlice(c), UNCHANGED <<sent, told, lowest>>
    PROVE  BusInv'
<1>1. ~latch
  BY Zenon, CpusFinite DEF BusInv, Quiet, StartSlice
<1>2. cpu' = cpu /\ work' = work /\ latch' = latch /\ slice' \in Cpus \cup {NoCpu}
  BY Zenon DEF StartSlice
<1>3. Idle(cpu') /\ work' = {} /\ latch' = FALSE
  BY Zenon, <1>1, <1>2, RunningIdle
<1>4. \A t \in Cpus : Kept(cpu[t], cpu'[t])
  BY Zenon, <1>2 DEF Kept, SameStart
<1> QED
  BY Zenon, <1>1, <1>2, <1>3, <1>4, KeptInv

\* The state after an access that left the local APIC of s in state b.
Accessed(f, g, s, b) ==
    /\ \A t \in Cpus : t # s => g[t] = f[t]
    /\ g[s].lapic.irr = b.irr /\ g[s].lapic.ipis = b.ipis /\ SameStart(f[s], g[s])

LEMMA AccessEffect ==
    ASSUME BusInv, ~latch, slice \in Cpus, ~cpu[slice].waiting, NEW b \in Regs, Access(b),
           Len(b.ipis) <= 1, Len(b.events) <= 1, b.ipis # <<>> => Proper(b.ipis[1].msg)
    PROVE  /\ Quiet(cpu', work', slice', latch') /\ slice' = slice
           /\ Accessed(cpu, cpu', slice, b)
<1> DEFINE d == [b EXCEPT !.intrPending = FALSE]
           p == cpu[slice]
           q == [p EXCEPT !.lapic = d, !.event = @ \/ b.intrPending]
<1>0. Idle(cpu) /\ work = {} /\ cpu \in [Cpus -> Processor] /\ latch = FALSE
  BY Zenon, RunningIdle
<1>1. p \in Processor /\ p.event \in BOOLEAN /\ b.intrPending \in BOOLEAN
  BY Zenon, <1>0, ProcessorFields, RegsFields
<1>2. /\ d \in Regs /\ d.irr = b.irr /\ d.ipis = b.ipis /\ d.events = b.events
  BY Zenon DEF Regs, Registers
<1>3. /\ cpu' = [cpu EXCEPT ![slice].lapic = d, ![slice].event = @ \/ b.intrPending]
      /\ latch' = (latch \/ HasSchedulerWork(d)) /\ work' = work /\ slice' = slice
  BY Zenon DEF Access
<1>4. cpu' = [cpu EXCEPT ![slice] = q]
  BY Zenon, <1>0, <1>3
<1> HIDE DEF d
<1>5. q \in Processor /\ q.lapic = d /\ SameStart(p, q)
  BY Zenon, <1>1, <1>2 DEF Processor, Regs, SameStart
<1> HIDE DEF q
<1>6. /\ cpu' \in [Cpus -> Processor] /\ cpu'[slice] = q
      /\ \A t \in Cpus : t # slice => cpu'[t] = cpu[t]
  BY Zenon, <1>0, <1>4, <1>5
<1>7. Accessed(cpu, cpu', slice, b)
  BY Zenon, <1>2, <1>5, <1>6 DEF Accessed
<1>8. latch' \in BOOLEAN /\ (~latch' => ~HasSchedulerWork(q.lapic))
  BY Zenon, <1>0, <1>3, <1>5
<1>9. \A c \in Cpus : c # slice' \/ ~latch' => ~HasSchedulerWork(cpu'[c].lapic)
  BY Zenon, <1>0, <1>3, <1>6, <1>8 DEF Idle
<1>10. /\ ~cpu'[slice'].waiting
       /\ Len(cpu'[slice'].lapic.ipis) <= 1 /\ Len(cpu'[slice'].lapic.events) <= 1
       /\ QueuedAt(cpu', slice') => Proper(FirstOf(cpu', slice').msg)
  BY Zenon, <1>2, <1>3, <1>5, <1>6 DEF SameStart, QueuedAt, FirstOf
<1>11. work' = {} /\ slice' \in Cpus
  BY Zenon, <1>0, <1>3
<1>12. Quiet(cpu', work', slice', latch')
  BY Zenon, <1>6, <1>8, <1>9, <1>10, <1>11 DEF Quiet
<1> QED
  BY Zenon, <1>3, <1>7, <1>12

LEMMA ExecutesFacts ==
    ASSUME BusInv, Executes
    PROVE  /\ ~latch /\ slice \in Cpus /\ ~cpu[slice].waiting
           /\ cpu[slice].lapic \in Regs /\ Idle(cpu)
           /\ cpu[slice].lapic.ipis = <<>> /\ cpu[slice].lapic.events = <<>>
<1>1. ~latch /\ slice # NoCpu /\ ~cpu[slice].waiting
  BY Zenon DEF Executes
<1>2. slice \in Cpus /\ Idle(cpu) /\ cpu[slice] \in Processor
  BY Zenon, <1>1, RunningIdle DEF Idle
<1> QED
  BY Zenon, <1>1, <1>2, IdleCalms, ProcessorFields

\* WriteEoi and WriteTpr
LEMMA PlainAccessKeeps ==
    ASSUME BusInv, Executes, NEW b, SameRequests(cpu[slice].lapic, b), Access(b),
           UNCHANGED <<sent, told, lowest>>
    PROVE  BusInv'
<1>1. /\ ~latch /\ slice \in Cpus /\ ~cpu[slice].waiting
      /\ cpu[slice].lapic.ipis = <<>> /\ cpu[slice].lapic.events = <<>>
  BY Zenon, ExecutesFacts
<1>2. b \in Regs /\ b.ipis = <<>> /\ b.events = <<>> /\ b.irr = cpu[slice].lapic.irr
  BY Zenon, <1>1 DEF SameRequests
<1>3. Len(<<>>) <= 1
  OBVIOUS
<1>4. /\ Quiet(cpu', work', slice', latch') /\ slice' = slice
      /\ Accessed(cpu, cpu', slice, b)
  BY Zenon, <1>1, <1>2, <1>3, AccessEffect
<1>5. \A t \in Cpus : Kept(cpu[t], cpu'[t])
  BY Zenon, <1>1, <1>2, <1>4 DEF Accessed, Kept, SameStart
<1>6. GoingTo(cpu', slice') = {}
  BY Zenon, <1>2, <1>4 DEF Accessed, GoingTo, QueuedAt
<1>7. History(cpu', slice', sent', told', lowest')
  BY Zenon, <1>1, <1>5, <1>6, KeptHistory
<1> QED
  BY Zenon, <1>4, <1>7 DEF BusInv

LEMMA WriteEoiKeeps ==
    ASSUME BusInv, WriteEoi, UNCHANGED <<sent, told, lowest>>
    PROVE  BusInv'
<1>1. Executes /\ Access(ReceiveEoi(cpu[slice].lapic))
  BY Zenon DEF WriteEoi
<1>2. SameRequests(cpu[slice].lapic, ReceiveEoi(cpu[slice].lapic))
  BY Zenon, <1>1, ExecutesFacts, ReceiveEoiEffect
<1> QED
  BY Zenon, <1>1, <1>2, PlainAccessKeeps

LEMMA WriteTprKeeps ==
    ASSUME BusInv, NEW t \in TprValues, WriteTpr(t), UNCHANGED <<sent, told, lowest>>
    PROVE  BusInv'
<1>1. Executes /\ Access(SetTpr(cpu[slice].lapic, t))
  BY Zenon DEF WriteTpr
<1>2. t \in Nat
  BY Zenon, BusAssumption
<1>3. SameRequests(cpu[slice].lapic, SetTpr(cpu[slice].lapic, t))
  BY Zenon, <1>1, <1>2, ExecutesFacts, SetTprEffect
<1> QED
  BY Zenon, <1>1, <1>3, PlainAccessKeeps

LEMMA WriteIcrKeeps ==
    ASSUME BusInv, NEW cmd \in Commands, WriteIcr(cmd), Expect(slice, cmd)
    PROVE  BusInv'
<1> DEFINE a == cpu[slice].lapic
           b == SendIpi(slice, a, cmd)
<1>1. Executes /\ Access(b)
  BY Zenon DEF WriteIcr
<1>2. /\ ~latch /\ slice \in Cpus /\ ~cpu[slice].waiting
      /\ a \in Regs /\ a.ipis = <<>> /\ a.events = <<>>
  BY Zenon, <1>1, ExecutesFacts
<1>3. /\ cmd \in Command /\ Proper(cmd.msg)
      /\ cmd.to = "self" => cmd.msg.mode \in {"fixed", "lowest"}
  BY Zenon, CommandProper
<1>4. Sends(slice, a, b, cmd)
  BY Zenon, <1>2, <1>3, SendIpiEffect
<1> HIDE DEF b, a
<1>5. b \in Regs /\ Len(b.events) <= 1
  BY Zenon, <1>4 DEF Sends
<1>6. /\ Len(b.ipis) <= 1
      /\ b.ipis # <<>> => b.ipis[1].msg = cmd.msg /\ b.ipis[1] \in Ipi
  <2>1. CASE b.ipis = <<>>
    BY <2>1
  <2>2. CASE b.ipis # <<>>
    <3>1. PICK m \in Ipi : b.ipis = <<m>> /\ m.msg = cmd.msg
      BY Zenon, <1>4, <2>2 DEF Sends
    <3>2. Len(<<m>>) <= 1 /\ <<m>>[1] = m
      OBVIOUS
    <3> QED
      BY Zenon, <3>1, <3>2
  <2> QED
    BY Zenon, <2>1, <2>2
<1>7. /\ Quiet(cpu', work', slice', latch') /\ slice' = slice
      /\ Accessed(cpu, cpu', slice, b)
  BY ZenonT(30), <1>1, <1>2, <1>3, <1>5, <1>6, AccessEffect
<1>8. PICK O \in SUBSET {slice} : /\ Takes1(a, b, cmd.msg, slice \in O)
                                  /\ Meant(slice, cmd, O, SentTo(slice, b))
  BY Zenon, <1>4 DEF Sends
<1> DEFINE S == SentTo(slice, b)
<1>9. S \in SUBSET Cpus
  BY Zenon, <1>6, TargetsIn DEF SentTo
<1>10. \A t \in Cpus : /\ SameStart(cpu[t], cpu'[t])
                       /\ Takes1(cpu[t].lapic, cpu'[t].lapic, cmd.msg, t \in O)
  <2> TAKE t \in Cpus
  <2>1. CASE t = slice
    BY Zenon, <1>7, <1>8, <2>1 DEF Accessed, Takes1, a
  <2>2. CASE t # slice
    <3>1. cpu'[t] = cpu[t] /\ t \notin O
      BY Zenon, <1>7, <2>2 DEF Accessed
    <3> QED
      BY Zenon, <3>1 DEF SameStart, Takes1
  <2> QED
    BY Zenon, <2>1, <2>2
<1>11. Accounts(cpu', sent', told', lowest', cmd.msg, S)
  <2>1. Accounts(cpu, sent, told, lowest, cmd.msg, {})
    BY Zenon, <1>2, RunningIdle
  <2>2. O \in SUBSET Cpus /\ \A t \in O : ~cpu[t].waiting
    BY Zenon, <1>2
  <2> HIDE DEF S
  <2>3. Meant(slice, cmd, O, S)
    BY Zenon, <1>8 DEF S
  <2> QED
    BY ZenonT(30), <1>3, <1>9, <1>10, <2>1, <2>2, <2>3, SentAccounts
<1>12. /\ QueuedAt(cpu', slice') <=> b.ipis # <<>>
       /\ FirstOf(cpu', slice') = b.ipis[1]
       /\ GoingTo(cpu', slice') = S
  BY Zenon, <1>2, <1>7 DEF Accessed, QueuedAt, FirstOf, GoingTo, SentTo
<1>13. History(cpu', slice', sent', told', lowest')
  <2>1. CASE b.ipis # <<>>
    BY ZenonT(30), <1>6, <1>11, <1>12, <2>1 DEF History
  <2>2. CASE b.ipis = <<>>
    <3>1. S = {}
      BY Zenon, <2>2 DEF SentTo
    <3> QED
      BY Zenon, <1>11, <1>12, <3>1, HistoryIdle
  <2> QED
    BY Zenon, <2>1, <2>2
<1> QED
  BY Zenon, <1>7, <1>13 DEF BusInv

\* TakeNmi and Iret: the running processor becomes q, its local APIC the same.
LEMMA EventMasksKeep ==
    ASSUME BusInv, ~latch, slice \in Cpus, NEW q \in Processor,
           q.lapic = cpu[slice].lapic, SameStart(cpu[slice], q),
           cpu' = [cpu EXCEPT ![slice] = q], UNCHANGED <<work, slice, latch>>,
           UNCHANGED <<sent, told, lowest>>
    PROVE  BusInv'
<1>1. Idle(cpu) /\ work = {} /\ latch = FALSE /\ cpu \in [Cpus -> Processor]
  BY Zenon, RunningIdle
<1>2. /\ cpu' \in [Cpus -> Processor] /\ cpu'[slice] = q
      /\ \A t \in Cpus : t # slice => cpu'[t] = cpu[t]
  BY Zenon, <1>1
<1>3. Idle(cpu')
  BY Zenon, <1>1, <1>2 DEF Idle
<1>4. \A t \in Cpus : Kept(cpu[t], cpu'[t])
  BY Zenon, <1>2 DEF Kept, SameStart
<1>5. slice' \in Cpus \cup {NoCpu} /\ work' = {} /\ latch' = FALSE
  BY Zenon, <1>1
<1> QED
  BY Zenon, <1>3, <1>4, <1>5, KeptInv

LEMMA TakeNmiKeeps ==
    ASSUME BusInv, TakeNmi, UNCHANGED <<sent, told, lowest>>
    PROVE  BusInv'
<1> DEFINE p == cpu[slice]
           q == [p EXCEPT !.pending = @ \ {"nmi"}, !.mask = @ \cup {"nmi"}]
<1>1. ~latch /\ slice # NoCpu
  BY Zenon DEF TakeNmi
<1>2. slice \in Cpus /\ cpu \in [Cpus -> Processor]
  BY Zenon, <1>1, RunningIdle
<1>3. p \in Processor
  BY Zenon, <1>2
<1>4. q \in Processor /\ q.lapic = p.lapic /\ SameStart(p, q)
  BY Zenon, <1>3 DEF Processor, SameStart
<1>5. cpu' = [cpu EXCEPT ![slice] = q] /\ UNCHANGED <<work, slice, latch>>
  BY ZenonT(30), <1>2 DEF TakeNmi
<1> HIDE DEF q
<1> QED
  BY ZenonT(30), <1>1, <1>2, <1>4, <1>5, EventMasksKeep

LEMMA IretKeeps ==
    ASSUME BusInv, Iret, UNCHANGED <<sent, told, lowest>>
    PROVE  BusInv'
<1> DEFINE p == cpu[slice]
           q == [p EXCEPT !.mask = @ \ {"nmi"}]
<1>1. ~latch /\ slice # NoCpu
  BY ZenonT(30) DEF Iret, Executes
<1>2. slice \in Cpus /\ cpu \in [Cpus -> Processor]
  BY Zenon, <1>1, RunningIdle
<1>3. p \in Processor
  BY Zenon, <1>2
<1>4. q \in Processor /\ q.lapic = p.lapic /\ SameStart(p, q)
  BY Zenon, <1>3 DEF Processor, SameStart
<1>5. cpu' = [cpu EXCEPT ![slice] = q] /\ UNCHANGED <<work, slice, latch>>
  BY Zenon, <1>2 DEF Iret
<1> HIDE DEF q
<1> QED
  BY Zenon, <1>1, <1>2, <1>4, <1>5, EventMasksKeep

\* The history's part of TakeInterrupt and TakeInit.
Forget ==
    /\ LET gone == cpu[slice].lapic.irr \ cpu'[slice].lapic.irr
       IN  /\ sent' = [sent EXCEPT ![slice] = @ \ gone]
           /\ lowest' = IF LowestVector \in gone /\ Holders = {slice} THEN 0 ELSE lowest
    /\ told' = IF cpu'[slice].waiting THEN [told EXCEPT ![slice] = NoVector] ELSE told

\* The running processor becomes q, which has fewer requests and no work.
LEMMA ForgetKeeps ==
    ASSUME BusInv, ~latch, slice \in Cpus, NEW q \in Processor,
           ~HasSchedulerWork(q.lapic), q.lapic.irr \in SUBSET cpu[slice].lapic.irr,
           \/ SameStart(cpu[slice], q) /\ ~q.waiting
           \/ q.start = NoVector /\ q.waiting = (slice # Bsp),
           cpu' = [cpu EXCEPT ![slice] = q], work' = work, slice' = slice, latch' = FALSE,
           Forget
    PROVE  BusInv'
<1> DEFINE gone == cpu[slice].lapic.irr \ q.lapic.irr
           m == FirstOf(cpu, slice).msg
<1>1. /\ Idle(cpu) /\ work = {} /\ cpu \in [Cpus -> Processor]
      /\ Accounts(cpu, sent, told, lowest, m, {})
  BY Zenon, RunningIdle
<1>2. /\ cpu' \in [Cpus -> Processor] /\ cpu'[slice] = q
      /\ \A t \in Cpus : t # slice => cpu'[t] = cpu[t]
  BY Zenon, <1>1
<1>3. Idle(cpu')
  BY Zenon, <1>1, <1>2 DEF Idle
<1>4. Quiet(cpu', {}, slice', FALSE) /\ GoingTo(cpu', slice') = {}
  BY Zenon, <1>3, IdleQuiet
<1>5. \A t \in Cpus : t # slice => Kept(cpu[t], cpu'[t])
  BY Zenon, <1>2 DEF Kept, SameStart
<1>6. Holders = HoldersOf(cpu)
  BY Zenon DEF Holders, HoldersOf
<1>7. /\ sent' = [sent EXCEPT ![slice] = @ \ gone]
      /\ lowest' = IF LowestVector \in gone /\ HoldersOf(cpu) = {slice} THEN 0 ELSE lowest
      /\ told' = IF cpu'[slice].waiting THEN [told EXCEPT ![slice] = NoVector] ELSE told
  BY Zenon, <1>2, <1>6 DEF Forget
<1>8. gone = cpu[slice].lapic.irr \ cpu'[slice].lapic.irr
  BY Zenon, <1>2
<1> HIDE DEF gone, m
<1>9. Accounts(cpu', sent', told', lowest', m, {})
  <2>1. /\ cpu'[slice].lapic.irr \in SUBSET cpu[slice].lapic.irr
        /\ \/ SameStart(cpu[slice], cpu'[slice]) /\ ~cpu'[slice].waiting
           \/ cpu'[slice].start = NoVector /\ cpu'[slice].waiting = (slice # Bsp)
    BY Zenon, <1>2
  <2>2. Forgets(cpu, cpu', sent, told, lowest, slice, gone, m)
    BY ZenonT(30), <1>1, <1>5, <1>8, <2>1, TakenAccounts
  <2> QED
    BY Zenon, <1>7, <2>2 DEF Forgets
<1>10. History(cpu', slice', sent', told', lowest')
  BY Zenon, <1>4, <1>9, HistoryIdle
<1> QED
  BY Zenon, <1>1, <1>4, <1>10 DEF BusInv

LEMMA TakeInterruptKeeps ==
    ASSUME BusInv, TakeInterrupt, Forget
    PROVE  BusInv'
<1> DEFINE p == cpu[slice]
           a == Acknowledge(p.lapic)
           b == [a EXCEPT !.intrPending = FALSE]
           q == [p EXCEPT !.lapic = b, !.event = a.intrPending]
<1>1. Executes /\ work' = work /\ slice' = slice /\ latch' = HasSchedulerWork(b)
  BY Zenon DEF TakeInterrupt
<1>2. ~latch /\ slice \in Cpus /\ ~p.waiting /\ p.lapic \in Regs /\ Idle(cpu)
  BY Zenon, <1>1, ExecutesFacts
<1>3. p \in Processor /\ cpu \in [Cpus -> Processor] /\ ~HasSchedulerWork(p.lapic)
  BY Zenon, <1>2 DEF Idle
<1>4. a \in Regs /\ a.irr \in SUBSET p.lapic.irr /\ SameQueues(p.lapic, a)
  BY Zenon, <1>2, AcknowledgeEffect
<1>5. cpu' = [cpu EXCEPT ![slice] = q]
  BY Zenon, <1>2, <1>3 DEF TakeInterrupt
<1> HIDE DEF a
<1>6. a.intrPending \in BOOLEAN
  BY Zenon, <1>4, RegsFields
<1>7. b \in Regs /\ b.irr = a.irr /\ SameQueues(a, b) /\ ~b.intrPending
  BY Zenon, <1>4 DEF Regs, Registers, SameQueues
<1> HIDE DEF b
<1>8. ~HasSchedulerWork(b)
  BY Zenon, <1>3, <1>4, <1>7 DEF HasSchedulerWork, SameQueues
<1>9. q \in Processor /\ q.lapic = b /\ SameStart(p, q)
  BY Zenon, <1>3, <1>6, <1>7 DEF Processor, Regs, SameStart
<1> HIDE DEF q
<1>10. ~q.waiting /\ q.lapic.irr \in SUBSET p.lapic.irr
  BY Zenon, <1>2, <1>4, <1>7, <1>9 DEF SameStart
<1>11. latch' = FALSE
  BY Zenon, <1>1, <1>8 DEF HasSchedulerWork
<1> QED
  BY ZenonT(30), <1>1, <1>2, <1>5, <1>8, <1>9, <1>10, <1>11, ForgetKeeps

LEMMA TakeInitKeeps ==
    ASSUME BusInv, TakeInit, Forget
    PROVE  BusInv'
<1>1. /\ ~latch /\ slice # NoCpu /\ cpu' = [cpu EXCEPT ![slice] = ResetCpu(slice)]
      /\ work' = work /\ slice' = slice /\ latch' = latch
  BY Zenon DEF TakeInit
<1>2. slice \in Cpus /\ latch = FALSE
  BY Zenon, <1>1, RunningIdle
<1> DEFINE q == ResetCpu(slice)
<1>3. /\ q \in Processor /\ ~HasSchedulerWork(q.lapic) /\ q.lapic.irr = {}
      /\ q.start = NoVector /\ q.waiting = (slice # Bsp)
  BY Zenon, <1>2, ResetFacts
<1> HIDE DEF q
<1>4. q.lapic.irr \in SUBSET cpu[slice].lapic.irr
  BY Zenon, <1>3
<1> QED
  BY Zenon, <1>1, <1>2, <1>3, <1>4, ForgetKeeps DEF q

\* The end of a boundary: nobody has work left.
LEMMA BoundaryKeeps ==
    ASSUME NEW g, Idle(g), NEW m, Accounts(g, sent', told', lowest', m, {}),
           cpu' = g, work' = WorkOf(g), slice' = NoCpu, latch' = FALSE
    PROVE  BusInv'
<1>1. work' = {}
  BY Zenon, IdleCalms
<1>2. Quiet(g, {}, NoCpu, FALSE) /\ GoingTo(g, NoCpu) = {}
  BY Zenon, IdleQuiet
<1>3. History(g, NoCpu, sent', told', lowest')
  BY Zenon, <1>2, HistoryIdle
<1> QED
  BY Zenon, <1>1, <1>2, <1>3 DEF BusInv

LEMMA EndSliceKeeps ==
    ASSUME BusInv, EndSlice, UNCHANGED <<sent, told, lowest>>
    PROVE  BusInv'
<1> DEFINE s == Refresh([cpu |-> cpu, work |-> work], {slice})
           e == IF latch \/ s.work # {} THEN Boundary(s, <<>>) ELSE s
           m == FirstOf(cpu, slice)
<1>1. slice \in Cpus /\ work = {} /\ cpu \in [Cpus -> Processor] /\ latch \in BOOLEAN
  BY Zenon DEF BusInv, Quiet, EndSlice
<1>2. cpu' = e.cpu /\ work' = e.work /\ slice' = NoCpu /\ latch' = FALSE
  BY Zenon DEF EndSlice, Becomes
<1>3. s = Exact(cpu)
  <2>1. \A c \in Cpus \ {slice} : c \in {} <=> HasSchedulerWork(cpu[c].lapic)
    BY Zenon DEF BusInv, Quiet
  <2> QED
    BY Zenon, <1>1, <2>1, RefreshExact
<1>4. SUFFICES \E g : e = Exact(g) /\ Idle(g) /\ Accounts(g, sent, told, lowest, m.msg, {})
  <2> HIDE DEF e
  <2>1. PICK g : e = Exact(g) /\ Idle(g) /\ Accounts(g, sent, told, lowest, m.msg, {})
    BY Zenon, <1>4
  <2>2. cpu' = g /\ work' = WorkOf(g)
    BY Zenon, <1>2, <2>1 DEF Exact
  <2>3. Accounts(g, sent', told', lowest', m.msg, {})
    BY Zenon, <2>1
  <2> QED
    BY Zenon, <1>2, <2>1, <2>2, <2>3, BoundaryKeeps
<1> HIDE DEF s
<1>5. CASE latch = FALSE
  <2>1. Idle(cpu) /\ Accounts(cpu, sent, told, lowest, m.msg, {})
    BY Zenon, <1>5, RunningIdle
  <2>2. s.work = {}
    BY Zenon, <1>3, <2>1, IdleCalms DEF Exact
  <2>3. e = Exact(cpu)
    BY Zenon, <1>3, <1>5, <2>2
  <2> QED
    BY Zenon, <2>1, <2>3
<1>6. CASE latch = TRUE
  <2>1. e = Boundary(Exact(cpu), <<>>)
    BY Zenon, <1>3, <1>6
  <2>2. /\ Calms(cpu) /\ \A t \in Cpus : t # slice => cpu[t].lapic.ipis = <<>>
        /\ Accounts(cpu, sent, told, lowest, m.msg, GoingTo(cpu, slice))
    BY Zenon, <1>6, QuietCalms DEF BusInv, History
  <2> HIDE DEF e
  <2>3. CASE cpu[slice].lapic.ipis = <<>>
    <3>1. /\ \A t \in Cpus : cpu[t].lapic.ipis = <<>>
          /\ GoingTo(cpu, slice) = {}
      BY Zenon, <2>2, <2>3 DEF GoingTo, QueuedAt
    <3>2. PICK g : e = Exact(g) /\ Rested(cpu, g)
      BY ZenonT(30), <1>1, <2>1, <2>2, <3>1, DrainedNone, BoundaryEmpty
    <3>3. Idle(g) /\ \A t \in Cpus : Kept(cpu[t], g[t])
      BY Zenon, <3>2 DEF Rested, Idle
    <3>4. Accounts(g, sent, told, lowest, m.msg, {})
      BY ZenonT(30), <2>2, <3>1, <3>3, KeptAccounts
    <3> QED
      BY Zenon, <3>2, <3>3, <3>4
  <2>4. CASE cpu[slice].lapic.ipis # <<>>
    <3>1. cpu[slice].lapic.ipis \in Seq(Ipi) /\ Len(cpu[slice].lapic.ipis) <= 1
      BY Zenon, <1>1, <1>6, ProcessorFields, RegsFields DEF BusInv, Quiet
    <3>2. cpu[slice].lapic.ipis = <<m>> /\ m \in Ipi
      BY Zenon, <2>4, <3>1, OneElement DEF FirstOf
    <3>3. /\ GoingTo(cpu, slice) = Targets(slice, m)
          /\ Proper(m.msg)
      BY Zenon, <1>1, <1>6, <2>4 DEF GoingTo, QueuedAt, BusInv, Quiet
    <3> HIDE DEF m
    <3>4. PICK g, T : /\ e = Exact(g)
                      /\ Picked(m.msg, Targets(slice, m), T)
                      /\ Delivered(cpu, g, m.msg, T)
      BY ZenonT(30), <1>1, <2>1, <2>2, <3>2, BoundaryDelivers
    <3>5. Accounts(g, sent, told, lowest, m.msg, {})
      BY ZenonT(30), <2>2, <3>2, <3>3, <3>4, TargetsIn, DeliveredAccounts
    <3>6. Idle(g)
      BY Zenon, <3>4 DEF Delivered, Idle
    <3> QED
      BY Zenon, <3>4, <3>5, <3>6
  <2> QED
    BY Zenon, <2>3, <2>4
<1> QED
  BY Zenon, <1>1, <1>5, <1>6

LEMMA CommitKeeps ==
    ASSUME BusInv, NEW m \in Arrivals, Commit(<<m>>), Expect(NoCpu, m)
    PROVE  BusInv'
<1> DEFINE S == ArrivesAt(m)
           e == Boundary(Exact(cpu), <<m>>)
<1>1. ~latch
  BY Zenon, CpusFinite DEF BusInv, Quiet, Commit
<1>2. /\ latch = FALSE /\ Idle(cpu) /\ work = {} /\ cpu \in [Cpus -> Processor]
      /\ Accounts(cpu, sent, told, lowest, m.msg, {})
  BY Zenon, <1>1, RunningIdle
<1>3. [cpu |-> cpu, work |-> work] = Exact(cpu)
  BY Zenon, <1>2, IdleCalms DEF Exact
<1>4. cpu' = e.cpu /\ work' = e.work /\ slice' = NoCpu /\ latch' = FALSE
  BY Zenon, <1>2, <1>3 DEF Commit, Becomes
<1>5. m \in Command /\ Proper(m.msg)
  BY Zenon, CommandProper
<1>6. m.to \in {"physical", "logical", "broadcast"} /\ m.dest \in SUBSET Cpus
  BY Zenon, <1>5, BusAssumption DEF Command
<1>7. S \in SUBSET Cpus
  BY Zenon, <1>6 DEF ArrivesAt
<1>8. Meant(NoCpu, m, {}, S)
  BY <1>6 DEF Meant, ArrivesAt, Intended, Arbitrated
<1>9. \A t \in Cpus : /\ SameStart(cpu[t], cpu[t])
                      /\ Takes1(cpu[t].lapic, cpu[t].lapic, m.msg, t \in {})
  BY Zenon DEF SameStart, Takes1
<1> HIDE DEF S, e
<1>10. Accounts(cpu, sent', told', lowest', m.msg, S)
  BY ZenonT(30), <1>2, <1>5, <1>7, <1>8, <1>9, SentAccounts
<1>11. PICK g, T : e = Exact(g) /\ Picked(m.msg, S, T) /\ Delivered(cpu, g, m.msg, T)
  BY Zenon, <1>2, <1>5, BoundaryArrives DEF S, e
<1>12. Accounts(g, sent', told', lowest', m.msg, {})
  BY Zenon, <1>5, <1>7, <1>10, <1>11, DeliveredAccounts
<1>13. Idle(g)
  BY Zenon, <1>11 DEF Delivered, Idle
<1>14. cpu' = g /\ work' = WorkOf(g)
  BY Zenon, <1>4, <1>11 DEF Exact
<1> QED
  BY Zenon, <1>4, <1>12, <1>13, <1>14, BoundaryKeeps

LEMMA NextKeeps ==
    ASSUME BusInv, [HNext]_hvars
    PROVE  BusInv'
<1>1. CASE HSend
  BY Zenon, <1>1, WriteIcrKeeps, CommitKeeps DEF HSend
<1>2. CASE HTake
  <2>1. Forget
    BY Zenon, <1>2 DEF HTake, Forget
  <2> QED
    BY Zenon, <1>2, <2>1, TakeInterruptKeeps, TakeInitKeeps DEF HTake
<1>3. CASE HRest
  BY ZenonT(30), <1>3, StartSliceKeeps, WriteEoiKeeps, WriteTprKeeps, TakeNmiKeeps, IretKeeps,
     EndSliceKeeps DEF HRest
<1>4. CASE UNCHANGED hvars
  BY Zenon, <1>4 DEF hvars, vars, BusInv
<1> QED
  BY Zenon, <1>1, <1>2, <1>3, <1>4 DEF HNext

-----------------------------------------------------------------------------
(* The theorems *)

\* Between slices, and within one that owes no boundary, no local APIC has
\* anything for the scheduler; a slice that does owe one has queued at most one
\* message, and what has been sent, told and arbitrated so far is what the
\* processors hold together with what that message is going to bring.
THEOREM BusInvariant == HSpec => []BusInv
<1>1. BusInv /\ [HNext]_hvars => BusInv'
  BY Zenon, NextKeeps
<1> QED
  BY <1>1, InitInv, PTL DEF HSpec

\* Every interrupt message is requested at each processor it was meant for and
\* at no other before any processor runs on (SendIpi, deliver_pending_ipi,
\* deliver_ioapic_to_model_lapics).
THEOREM MessagesArrive == HSpec => []IpisArrive
<1>1. BusInv => IpisArrive
  <2> SUFFICES ASSUME BusInv, ~latch PROVE \A c \in Cpus : cpu[c].lapic.irr \ {LowestVector} = sent[c]
    BY Zenon DEF IpisArrive
  <2> DEFINE m == FirstOf(cpu, slice).msg
  <2>1. Accounts(cpu, sent, told, lowest, m, {})
    BY Zenon, RunningIdle
  <2>2. \A t : t \notin {}
    BY Zenon
  <2>3. \A c \in Cpus : sent[c] = (cpu[c].lapic.irr \ {LowestVector}) \cup {}
    BY Zenon, <2>1, <2>2 DEF Accounts, SentOK
  <2> QED
    BY Zenon, <2>3
<1> QED
  BY <1>1, BusInvariant, PTL

\* An application processor leaves wait-for-SIPI when, and only when, it was
\* sent a start-up message while it waited, at the vector of the first one
\* (deliver_sipi).
THEOREM ProcessorsStart == HSpec => []StartedAsTold
<1>1. BusInv => StartedAsTold
  <2> SUFFICES ASSUME BusInv, ~latch, NEW c \in Cpus \ {Bsp}
               PROVE  /\ cpu[c].waiting <=> told[c] = NoVector
                      /\ cpu[c].start = told[c]
    BY Zenon DEF StartedAsTold
  <2> DEFINE m == FirstOf(cpu, slice).msg
  <2>1. Accounts(cpu, sent, told, lowest, m, {})
    BY Zenon, RunningIdle
  <2> HIDE DEF m
  <2>2. \A t : t \notin {}
    BY Zenon
  <2> QED
    BY Zenon, <2>1, <2>2 DEF Accounts, ToldOK, ToldAt
<1> QED
  BY <1>1, BusInvariant, PTL

\* A lowest-priority message is taken by one processor, whatever the
\* priorities are (find_lowest_priority_target): some processor requests the
\* vector while a message is out, and never more processors than messages.
THEOREM LowestPriorityOne == HSpec => []LowestReachesOne
<1>1. BusInv => LowestReachesOne
  <2> SUFFICES ASSUME BusInv, ~latch
               PROVE  /\ lowest > 0 <=> Holders # {}
                      /\ Cardinality(Holders) <= lowest
    BY Zenon DEF LowestReachesOne
  <2> DEFINE m == FirstOf(cpu, slice).msg
  <2>1. Accounts(cpu, sent, told, lowest, m, {})
    BY Zenon, RunningIdle
  <2> HIDE DEF m
  <2>2. ~Arbitrates(m, {})
    BY Zenon DEF Arbitrates
  <2>3. Holders = HoldersOf(cpu)
    BY Zenon DEF Holders, HoldersOf
  <2>4. /\ lowest > 0 <=> HoldersOf(cpu) # {}
        /\ Cardinality(HoldersOf(cpu)) + 0 <= lowest
    BY Zenon, <2>1, <2>2 DEF Accounts, LowestOK
  <2>5. Cardinality(HoldersOf(cpu)) \in Nat
    BY Zenon, HoldersFinite
  <2> QED
    BY <2>3, <2>4, <2>5
<1> QED
  BY <1>1, BusInvariant, PTL

\* A boundary leaves nothing behind: no queue, slot or flag of any local APIC,
\* no bit of the work mask; and the bounded queues hold one entry at most
\* (service_scheduler_boundary, run_cpu_batch).
THEOREM NothingLeftBehind == HSpec => []BoundaryDrains
<1>1. BusInv => BoundaryDrains
  <2> SUFFICES ASSUME BusInv PROVE BoundaryDrains
    OBVIOUS
  <2>1. slice = NoCpu => work = {} /\ \A c \in Cpus : ~HasSchedulerWork(cpu[c].lapic)
    BY Zenon, CpusFinite DEF BusInv, Quiet
  <2>2. \A c \in Cpus : Len(cpu[c].lapic.ipis) <= 1 /\ Len(cpu[c].lapic.events) <= 1
    <3>1. Len(<<>>) <= 1
      OBVIOUS
    <3> TAKE c \in Cpus
    <3>2. CASE HasSchedulerWork(cpu[c].lapic)
      BY Zenon, <3>2 DEF BusInv, Quiet
    <3>3. CASE ~HasSchedulerWork(cpu[c].lapic)
      BY Zenon, <3>1, <3>3 DEF HasSchedulerWork
    <3> QED
      BY Zenon, <3>2, <3>3
  <2> QED
    BY Zenon, <2>1, <2>2 DEF BoundaryDrains
<1> QED
  BY <1>1, BusInvariant, PTL
=============================================================================
