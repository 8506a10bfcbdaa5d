---------------------------- MODULE LapicProofs ----------------------------
(***************************************************************************)
(* What one local APIC guarantees its processor, for any set of vectors,   *)
(* any size of priority class and any values the guest writes: handlers of *)
(* one class never nest, no admitted request goes unsignalled, and the     *)
(* processor's copy of INTR is exact.                                      *)
(*                                                                         *)
(* None of the three is inductive alone.  That handlers do not nest within *)
(* a class needs the acknowledge to compare classes, not vectors; that     *)
(* nothing is missed needs every way the processor's priority can fall to  *)
(* look at the requests again; Inv is their conjunction with the types.    *)
(***************************************************************************)
EXTENDS MCLapicCore, TLAPS, NaturalsInduction, WellFoundedInduction, FiniteSetTheorems,
        SequenceTheorems

Regs == Registers({}, {})

-----------------------------------------------------------------------------
(* Vectors and classes *)

\* A set of vectors has a highest one.
LEMMA MaxVectorOf ==
    ASSUME NEW S \in SUBSET Vectors, S # {}
    PROVE  Max(S) \in S /\ \A y \in S : y <= Max(S)
<1> DEFINE R == OpToRel(<, Nat)
           T == {MaxVector - x : x \in S}
<1>1. IsWellFoundedOn(R, Nat)
  BY Zenon, NatLessThanWellFounded
<1>2. \A y \in Nat, x \in Nat : y < x => <<y, x>> \in R
  BY DEF OpToRel
<1>3. \A x \in S : x \in Nat /\ x <= MaxVector /\ MaxVector \in Nat
  BY LapicAssumption
<1>4. T \in SUBSET Nat /\ T # {}
  BY <1>3
<1> HIDE DEF R, T
<1>5. PICK n \in T : \A y \in T : ~(<<y, n>> \in R)
  BY Zenon, <1>1, <1>4, WFMin
<1>6. PICK x \in S : n = MaxVector - x
  BY <1>5 DEF T
<1>7. \A y \in S : x >= y
  <2> TAKE y \in S
  <2>1. MaxVector - y \in T
    BY DEF T
  <2>2. ~(MaxVector - y < n)
    BY Zenon, <1>2, <1>4, <1>5, <2>1
  <2> QED
    BY <1>3, <1>6, <2>2
<1>8. Max(S) \in S /\ \A y \in S : Max(S) >= y
  BY <1>7 DEF Max
<1> QED
  BY <1>3, <1>8

\* Classes are naturals and grow with the vectors; the lowest number of a
\* class lies above a number exactly when the class is above that number's.
LEMMA ClassOrder ==
    ASSUME NEW x \in Nat, NEW y \in Nat
    PROVE  /\ Class(x) \in Nat
           /\ x <= y => Class(x) <= Class(y)
           /\ Class(x) * ClassSize > y <=> Class(x) > Class(y)
           /\ Class(x) * ClassSize > Class(y) * ClassSize <=> Class(x) > Class(y)
<1> DEFINE n == ClassSize
           p == x \div n
           q == y \div n
<1>1. n \in Nat /\ n > 0
  BY LapicAssumption
<1>2. p \in Nat /\ q \in Nat
  BY <1>1
<1>3. x = n * p + (x % n) /\ y = n * q + (y % n)
  BY <1>1
<1>4. x % n \in Nat /\ x % n < n /\ y % n \in Nat /\ y % n < n
  BY <1>1
<1>5. n * p \in Nat /\ n * q \in Nat /\ n * p = p * n /\ n * q = q * n
  BY <1>1, <1>2
<1>6. p >= q + 1 => p * n >= q * n + n
  BY <1>1, <1>2
<1>7. q >= p + 1 => q * n >= p * n + n
  BY <1>1, <1>2
<1>8. p = q \/ p >= q + 1 \/ q >= p + 1
  BY <1>2
<1>9. n * p <= x /\ x < n * p + n /\ n * q <= y /\ y < n * q + n
  BY <1>1, <1>3, <1>4, <1>5
<1> HIDE DEF n, p, q
<1>10. x <= y => p <= q
  BY <1>1, <1>2, <1>5, <1>6, <1>7, <1>8, <1>9
<1>11. p * n > y <=> p > q
  BY <1>1, <1>2, <1>5, <1>6, <1>7, <1>8, <1>9
<1>12. p * n > q * n <=> p > q
  BY <1>1, <1>2, <1>5, <1>6, <1>7, <1>8, <1>9
<1> QED
  BY <1>2, <1>10, <1>11, <1>12 DEF Class, n, p, q

\* The vectors and priorities of a local APIC are naturals.
LEMMA RegsNat ==
    ASSUME NEW a \in Regs
    PROVE  /\ a.irr \in SUBSET Vectors /\ a.isr \in SUBSET Vectors
           /\ a.tpr \in Nat
           /\ a.irr # {} => Max(a.irr) \in Nat
           /\ a.isr # {} => Max(a.isr) \in Nat
<1>1. a.irr \in SUBSET Vectors /\ a.isr \in SUBSET Vectors /\ a.tpr \in Nat
  BY DEF Regs, Registers
<1>2. \A v \in Vectors : v \in Nat
  BY LapicAssumption
<1>3. a.irr # {} => Max(a.irr) \in Vectors
  BY <1>1, MaxVectorOf
<1>4. a.isr # {} => Max(a.isr) \in Vectors
  BY <1>1, MaxVectorOf
<1> QED
  BY <1>1, <1>2, <1>3, <1>4

\* acknowledge_int's comparison of numbers, in terms of classes
LEMMA DeliverableByClass ==
    ASSUME NEW a \in Regs
    PROVE  Deliverable(a) <=>
             /\ a.irr # {}
             /\ Class(Max(a.irr)) > Class(a.tpr)
             /\ a.isr # {} => Class(Max(a.irr)) > Class(Max(a.isr))
<1>1. CASE a.irr = {}
  BY <1>1 DEF Deliverable
<1>2. CASE a.irr # {}
  <2> DEFINE m == Max(a.irr)
             s == Max(a.isr)
  <2>1. m \in Nat /\ a.tpr \in Nat
    BY <1>2, RegsNat
  <2>2. a.isr # {} => s \in Nat
    BY RegsNat
  <2>3. Deliverable(a) <=> Class(m) * ClassSize > Ppr(a)
    BY <1>2 DEF Deliverable
  <2> HIDE DEF m, s
  <2>4. CASE a.isr = {}
    BY <1>2, <2>1, <2>3, <2>4, ClassOrder DEF Ppr, m
  <2>5. CASE a.isr # {}
    <3>1. Class(m) \in Nat /\ Class(s) \in Nat /\ Class(a.tpr) \in Nat
      BY <2>1, <2>2, <2>5, ClassOrder
    <3>2. Class(m) * ClassSize > a.tpr <=> Class(m) > Class(a.tpr)
      BY <2>1, ClassOrder
    <3>3. Class(m) * ClassSize > Class(s) * ClassSize <=> Class(m) > Class(s)
      BY <2>1, <2>2, <2>5, ClassOrder
    <3>4. Ppr(a) = IF Class(a.tpr) >= Class(s) THEN a.tpr ELSE Class(s) * ClassSize
      BY <2>5 DEF Ppr, s
    <3>5. Deliverable(a) <=> Class(m) > Class(a.tpr) /\ Class(m) > Class(s)
      BY <2>3, <3>1, <3>2, <3>3, <3>4
    <3> QED
      BY <1>2, <2>5, <3>5 DEF m, s
  <2> QED
    BY <2>4, <2>5
<1> QED
  BY <1>1, <1>2

\* Whatever the acknowledge would answer, service_local_apic signals.
LEMMA DeliverableSignals ==
    ASSUME NEW a \in Regs, Deliverable(a)
    PROVE  Signals(a)
<1>1. /\ a.irr # {}
      /\ Class(Max(a.irr)) > Class(a.tpr)
      /\ a.isr # {} => Class(Max(a.irr)) > Class(Max(a.isr))
  BY DeliverableByClass
<1>2. ASSUME a.isr # {} PROVE Max(a.irr) > Max(a.isr)
  <2>1. Max(a.irr) \in Nat /\ Max(a.isr) \in Nat
    BY <1>1, <1>2, RegsNat
  <2>2. Class(Max(a.irr)) \in Nat /\ Class(Max(a.isr)) \in Nat
    BY <2>1, ClassOrder
  <2>3. Max(a.irr) <= Max(a.isr) => Class(Max(a.irr)) <= Class(Max(a.isr))
    BY <2>1, ClassOrder
  <2> QED
    BY <1>1, <1>2, <2>1, <2>2, <2>3
<1> QED
  BY <1>1, <1>2 DEF Signals

-----------------------------------------------------------------------------
(* The operations *)

\* INTR of b is what it was in a, or has just been raised and not passed on.
Raised(a, b) == ~a.intrPending => (b.intr <=> (a.intr \/ b.intrPending))

\* service_local_apic changes INTR and its flag only, and misses nothing.
LEMMA ServiceGood ==
    ASSUME NEW a \in Regs
    PROVE  /\ Service(a) \in Regs
           /\ Service(a).irr = a.irr /\ Service(a).isr = a.isr
           /\ Service(a).tpr = a.tpr
           /\ NoneMissed(Service(a))
           /\ Raised(a, Service(a))
<1> DEFINE b == Service(a)
<1>1. /\ b \in Regs /\ b.irr = a.irr /\ b.isr = a.isr /\ b.tpr = a.tpr
      /\ b.intr = (a.intr \/ Signals(a))
      /\ b.intrPending = (a.intrPending \/ (Signals(a) /\ ~a.intr))
  <2>1. CASE ~a.intr /\ Signals(a)
    BY Zenon, <2>1 DEF Service, Regs, Registers
  <2>2. CASE ~(~a.intr /\ Signals(a))
    BY Zenon, <2>2 DEF Service, Regs, Registers
  <2> QED
    BY <2>1, <2>2
<1> HIDE DEF b
<1>2. Deliverable(b) <=> Deliverable(a)
  BY <1>1 DEF Deliverable, Ppr
<1>3. NoneMissed(b)
  BY Zenon, <1>1, <1>2, DeliverableSignals DEF NoneMissed
<1>4. Raised(a, b)
  BY <1>1 DEF Raised, Regs, Registers
<1> QED
  BY <1>1, <1>3, <1>4 DEF b

\* What every operation keeps.
Good(a) == a \in Regs /\ OnePerClass(a) /\ NoneMissed(a)

\* A state with a's vectors in service or fewer, then serviced, is good.
LEMMA ServicedIsGood ==
    ASSUME NEW a, Good(a), NEW b \in Regs,
           b.isr \subseteq a.isr, b.intr = a.intr, b.intrPending = a.intrPending
    PROVE  Good(Service(b)) /\ Raised(a, Service(b))
<1>1. OnePerClass(b)
  BY DEF Good, OnePerClass
<1>2. OnePerClass(Service(b))
  BY <1>1, ServiceGood DEF OnePerClass
<1>3. Raised(a, Service(b))
  BY ServiceGood DEF Raised
<1> QED
  BY <1>2, <1>3, ServiceGood DEF Good

\* trigger_irq keeps what every operation keeps.
LEMMA TriggerGood ==
    ASSUME NEW a, Good(a), NEW v \in Vectors, NEW level \in BOOLEAN, NEW ext \in BOOLEAN
    PROVE  Good(Trigger(a, v, level, ext)) /\ Raised(a, Trigger(a, v, level, ext))
<1> DEFINE b == [a EXCEPT !.irr = @ \cup {v},
                          !.tmr = IF level THEN @ \cup {v} ELSE @ \ {v}]
<1>1. b \in Regs /\ b.isr = a.isr /\ b.intr = a.intr /\ b.intrPending = a.intrPending
  BY Zenon DEF Good, Regs, Registers
<1>2. Good(a) /\ Raised(a, a)
  BY DEF Raised
<1>3. Trigger(a, v, level, ext) = a \/ Trigger(a, v, level, ext) = Service(b)
  BY DEF Trigger
<1> HIDE DEF b
<1>4. Good(Service(b)) /\ Raised(a, Service(b))
  BY <1>1, ServicedIsGood
<1> QED
  BY <1>2, <1>3, <1>4

\* A vector that leaves service lowers the priority, and is serviced.
LEMMA EndVectorGood ==
    ASSUME NEW a, Good(a), NEW v \in a.isr
    PROVE  Good(EndVector(a, v)) /\ Raised(a, EndVector(a, v))
<1> DEFINE b == [a EXCEPT !.isr = @ \ {v},
                          !.eoi = IF v \in a.tmr THEN v ELSE @,
                          !.tmr = @ \ {v}]
<1>1. /\ b \in Regs /\ b.isr \subseteq a.isr
      /\ b.intr = a.intr /\ b.intrPending = a.intrPending
  BY Zenon DEF Good, Regs, Registers
<1>2. EndVector(a, v) = Service(b)
  BY DEF EndVector
<1> HIDE DEF b
<1> QED
  BY <1>1, <1>2, ServicedIsGood

\* receive_eoi and receive_seoi end a vector in service or do nothing.
LEMMA EoiGood ==
    ASSUME NEW a, Good(a)
    PROVE  /\ Good(ReceiveEoi(a)) /\ Raised(a, ReceiveEoi(a))
           /\ \A v : Good(ReceiveSeoi(a, v)) /\ Raised(a, ReceiveSeoi(a, v))
<1>1. Good(a) /\ Raised(a, a)
  BY DEF Raised
<1>2. a.isr # {} => Max(a.isr) \in a.isr
  BY RegsNat, MaxVectorOf DEF Good
<1> QED
  BY <1>1, <1>2, EndVectorGood DEF ReceiveEoi, ReceiveSeoi

\* A lower task priority is looked at at once; a higher one admits nothing new.
LEMMA SetTprGood ==
    ASSUME NEW a, Good(a), NEW t \in Nat
    PROVE  Good(SetTpr(a, t)) /\ Raised(a, SetTpr(a, t))
<1> DEFINE b == [a EXCEPT !.tpr = t]
<1>1. /\ b \in Regs /\ b.irr = a.irr /\ b.isr = a.isr /\ b.tpr = t
      /\ b.intr = a.intr /\ b.intrPending = a.intrPending
  BY DEF Good, Regs, Registers
<1>2. SetTpr(a, t) = IF t < a.tpr THEN Service(b) ELSE b
  BY DEF SetTpr
<1> HIDE DEF b
<1>3. CASE t < a.tpr
  BY <1>1, <1>2, <1>3, ServicedIsGood
<1>4. CASE ~(t < a.tpr)
  <2>1. a \in Regs /\ a.tpr \in Nat /\ a.tpr <= t
    BY <1>4, RegsNat DEF Good
  <2>2. Class(a.tpr) \in Nat /\ Class(t) \in Nat /\ Class(a.tpr) <= Class(t)
    BY <2>1, ClassOrder
  <2>3. ASSUME Deliverable(b) PROVE Deliverable(a)
    <3>1. /\ a.irr # {}
          /\ Class(Max(a.irr)) > Class(t)
          /\ a.isr # {} => Class(Max(a.irr)) > Class(Max(a.isr))
      BY <1>1, <2>3, DeliverableByClass
    <3>2. Class(Max(a.irr)) \in Nat
      BY <2>1, <3>1, RegsNat, ClassOrder
    <3> QED
      BY <2>1, <2>2, <3>1, <3>2, DeliverableByClass
  <2>4. NoneMissed(b)
    BY <1>1, <2>3 DEF Good, NoneMissed
  <2>5. OnePerClass(b)
    BY <1>1 DEF Good, OnePerClass
  <2>6. Raised(a, b)
    BY <1>1 DEF Raised
  <2> QED
    BY <1>1, <1>2, <1>4, <2>4, <2>5, <2>6 DEF Good
<1> QED
  BY <1>3, <1>4

\* The vector taken is of a class above every one in service.  INTR drops,
\* unless the requests left raise it again.
LEMMA AcknowledgeGood ==
    ASSUME NEW a, Good(a), ~a.intrPending
    PROVE  /\ Good(Acknowledge(a))
           /\ Acknowledge(a).intr <=> Acknowledge(a).intrPending
<1> DEFINE c == [a EXCEPT !.intr = FALSE]
           m == Max(a.irr)
           b == [a EXCEPT !.irr = @ \ {m}, !.isr = @ \cup {m}, !.intr = FALSE]
<1>1. a \in Regs /\ a.isr \in SUBSET Vectors /\ a.irr \in SUBSET Vectors
  BY RegsNat DEF Good
<1>2. CASE ~Deliverable(a)
  <2>1. /\ c \in Regs /\ c.irr = a.irr /\ c.isr = a.isr /\ c.tpr = a.tpr
        /\ c.intr = FALSE /\ c.intrPending = a.intrPending
    BY Zenon, <1>1 DEF Regs, Registers
  <2>2. Acknowledge(a) = c
    BY <1>2 DEF Acknowledge
  <2> HIDE DEF c
  <2>3. ~Deliverable(c)
    BY <1>2, <2>1 DEF Deliverable, Ppr
  <2>4. OnePerClass(c)
    BY <2>1 DEF Good, OnePerClass
  <2> QED
    BY <2>1, <2>2, <2>3, <2>4 DEF Good, NoneMissed
<1>3. CASE Deliverable(a)
  <2>1. a.irr # {} /\ (a.isr # {} => Class(m) > Class(Max(a.isr)))
    BY <1>1, <1>3, DeliverableByClass
  <2>2. m \in Vectors /\ m \in Nat
    BY <1>1, <2>1, MaxVectorOf, RegsNat
  <2>3. /\ b \in Regs /\ b.isr = a.isr \cup {m}
        /\ b.intr = FALSE /\ b.intrPending = a.intrPending
    BY Zenon, <1>1, <2>2 DEF Regs, Registers
  <2>4. Acknowledge(a) = Service(b)
    BY <1>3 DEF Acknowledge
  <2> HIDE DEF b, m
  <2>5. \A w \in a.isr : Class(w) # Class(m)
    <3> TAKE w \in a.isr
    <3>1. a.isr # {} /\ w \in Nat /\ Max(a.isr) \in Nat
      BY <1>1, LapicAssumption, RegsNat
    <3>2. w <= Max(a.isr)
      BY <1>1, MaxVectorOf
    <3>3. Class(w) <= Class(Max(a.isr)) /\ Class(w) \in Nat /\ Class(Max(a.isr)) \in Nat
      BY <3>1, <3>2, ClassOrder
    <3>4. Class(m) > Class(Max(a.isr)) /\ Class(m) \in Nat
      BY <2>1, <2>2, <3>1, ClassOrder
    <3> QED
      BY <3>3, <3>4
  <2>6. OnePerClass(b)
    BY <2>3, <2>5 DEF Good, OnePerClass
  <2>7. OnePerClass(Service(b))
    BY <2>3, <2>6, ServiceGood DEF OnePerClass
  <2> QED
    BY <2>3, <2>4, <2>7, ServiceGood DEF Good, Raised
<1> QED
  BY <1>2, <1>3

\* Passing INTR on, and emptying the slot of the EOI, touch nothing else.
LEMMA PassedOnGood ==
    ASSUME NEW a, Good(a)
    PROVE  /\ Good([a EXCEPT !.intrPending = FALSE])
           /\ Good([a EXCEPT !.intrPending = FALSE, !.eoi = NoVector])
<1> SUFFICES ASSUME NEW b \in Regs, b.irr = a.irr, b.isr = a.isr,
                    b.tpr = a.tpr, b.intr = a.intr
             PROVE  Good(b)
  BY Zenon DEF Good, Regs, Registers
<1>1. Deliverable(b) <=> Deliverable(a)
  BY DEF Deliverable, Ppr
<1> QED
  BY <1>1 DEF Good, OnePerClass, NoneMissed

\* The spurious vector plays no part in priorities.
LEMMA SetSpuriousGood ==
    ASSUME NEW a, Good(a), NEW v \in 0..MaxVector
    PROVE  Good(SetSpurious(a, v)) /\ Raised(a, SetSpurious(a, v))
<1> DEFINE b == [a EXCEPT !.spurious = v]
<1>1. /\ b \in Regs /\ b.irr = a.irr /\ b.isr = a.isr /\ b.tpr = a.tpr
      /\ b.intr = a.intr /\ b.intrPending = a.intrPending
  BY DEF Good, Regs, Registers
<1> HIDE DEF b
<1>2. Deliverable(b) <=> Deliverable(a)
  BY <1>1 DEF Deliverable, Ppr
<1>3. Good(b) /\ Raised(a, b)
  BY <1>1, <1>2 DEF Good, OnePerClass, NoneMissed, Raised
<1> QED
  BY <1>3 DEF SetSpurious, b

-----------------------------------------------------------------------------
(* The processor *)

\* The inductive invariant.
Inv == /\ Good(lapic)
       /\ EventMirrorsIntr
       /\ event \in BOOLEAN /\ boundary \in BOOLEAN

\* The reset state is good, with INTR down.
LEMMA ResetGood ==
    Good(ResetLapic) /\ ResetLapic.intr = FALSE /\ ResetLapic.intrPending = FALSE
<1>1. ResetLapic \in Regs /\ ResetLapic.irr = {} /\ ResetLapic.isr = {}
      /\ ResetLapic.intr = FALSE /\ ResetLapic.intrPending = FALSE
  BY LapicAssumption DEF ResetLapic, Regs, Registers
<1> QED
  BY <1>1 DEF Good, OnePerClass, NoneMissed, Deliverable

\* An access, or what a boundary brings, ends in a good state whose INTR the
\* processor knows of.
LEMMA SyncKeeps ==
    ASSUME Inv, NEW a, Good(a), Raised(lapic, a)
    PROVE  (Sync(a) => Inv') /\ (Boundary(a) => Inv')
<1>1. ~lapic.intrPending /\ event = lapic.intr /\ event \in BOOLEAN /\ boundary \in BOOLEAN
  BY DEF Inv, EventMirrorsIntr
<1>2. a.intr <=> (event \/ a.intrPending)
  BY <1>1 DEF Raised
<1>3. a.intr \in BOOLEAN /\ a.intrPending \in BOOLEAN
  BY DEF Good, Regs, Registers
<1>4. ASSUME Sync(a) PROVE Inv'
  <2> DEFINE b == [a EXCEPT !.intrPending = FALSE]
  <2>1. Good(b) /\ b.intr = a.intr /\ b.intrPending = FALSE
    BY Zenon, PassedOnGood DEF Good, Regs, Registers
  <2>2. /\ lapic' = b /\ event' = (event \/ a.intrPending)
        /\ boundary' = (boundary \/ HasSchedulerWork(b))
    BY <1>4 DEF Sync
  <2> HIDE DEF b
  <2>3. event' = lapic'.intr /\ event' \in BOOLEAN /\ boundary' \in BOOLEAN
    BY <1>1, <1>2, <1>3, <2>1, <2>2
  <2> QED
    BY <2>1, <2>2, <2>3 DEF Inv, EventMirrorsIntr
<1>5. ASSUME Boundary(a) PROVE Inv'
  <2> DEFINE b == [a EXCEPT !.intrPending = FALSE, !.eoi = NoVector]
  <2>1. Good(b) /\ b.intr = a.intr /\ b.intrPending = FALSE
    BY Zenon, PassedOnGood DEF Good, Regs, Registers
  <2>2. /\ lapic' = b /\ boundary' = FALSE
        /\ event' = (event \/ a.intrPending \/ (HasSchedulerWork(a) /\ a.intr))
    BY <1>5 DEF Boundary
  <2> HIDE DEF b
  <2>3. event' = lapic'.intr /\ event' \in BOOLEAN /\ boundary' \in BOOLEAN
    BY Zenon, <1>1, <1>2, <1>3, <2>1, <2>2
  <2> QED
    BY <2>1, <2>2, <2>3 DEF Inv, EventMirrorsIntr
<1> QED
  BY <1>4, <1>5

\* The acknowledge keeps the invariant.
LEMMA TakeKeeps ==
    ASSUME Inv, Take
    PROVE  Inv'
<1> DEFINE a == Acknowledge(lapic)
           b == [a EXCEPT !.intrPending = FALSE]
<1>1. Good(a) /\ (a.intr <=> a.intrPending)
  BY AcknowledgeGood DEF Inv, EventMirrorsIntr
<1>2. a.intr \in BOOLEAN /\ a.intrPending \in BOOLEAN
  BY <1>1 DEF Good, Regs, Registers
<1>3. lapic' = b /\ event' = a.intrPending /\ boundary' = HasSchedulerWork(b)
  BY DEF Take
<1> HIDE DEF a
<1>4. Good(b) /\ b.intr = a.intr /\ b.intrPending = FALSE
  BY Zenon, <1>1, PassedOnGood DEF Good, Regs, Registers
<1> HIDE DEF b
<1>5. boundary' \in BOOLEAN
  BY <1>3 DEF HasSchedulerWork
<1> QED
  BY <1>1, <1>2, <1>3, <1>4, <1>5 DEF Inv, EventMirrorsIntr

LEMMA InvStep == Inv /\ [Next]_vars => Inv'
<1> SUFFICES ASSUME Inv, [Next]_vars PROVE Inv'
  OBVIOUS
<1> USE DEF Inv
<1>1. ASSUME NEW v \in Vectors, NEW level \in BOOLEAN, SelfIpi(v, level) PROVE Inv'
  BY Zenon, <1>1, TriggerGood, SyncKeeps DEF SelfIpi
<1>2. CASE WriteEoi
  BY <1>2, EoiGood, SyncKeeps DEF WriteEoi
<1>3. ASSUME NEW v \in Vectors, WriteSeoi(v) PROVE Inv'
  BY <1>3, EoiGood, SyncKeeps DEF WriteSeoi
<1>4. ASSUME NEW t \in TprValues, WriteTpr(t) PROVE Inv'
  BY <1>4, CoreAssumption, SetTprGood, SyncKeeps DEF WriteTpr
<1>5. ASSUME NEW v \in SpuriousValues, WriteSvr(v) PROVE Inv'
  BY <1>5, CoreAssumption, SetSpuriousGood, SyncKeeps DEF WriteSvr
<1>6. CASE Take
  BY <1>6, TakeKeeps
<1>7. CASE Commit
  BY <1>7, SyncKeeps DEF Commit, Raised
<1>8. ASSUME NEW v \in Vectors, TimerFires(v) PROVE Inv'
  BY Zenon, <1>8, TriggerGood, SyncKeeps DEF TimerFires
<1>9. ASSUME NEW v \in Vectors, NEW level \in BOOLEAN, NEW ext \in BOOLEAN,
             Arrives(v, level, ext)
      PROVE  Inv'
  BY <1>9, TriggerGood, SyncKeeps DEF Arrives
<1>10. CASE Reset
  BY Zenon, <1>10, ResetGood DEF Reset, EventMirrorsIntr
<1>11. CASE UNCHANGED vars
  BY <1>11 DEF vars, EventMirrorsIntr
<1> QED
  BY <1>1, <1>2, <1>3, <1>4, <1>5, <1>6, <1>7, <1>8, <1>9, <1>10, <1>11
     DEF Next, Guest, Machine

\* Inv holds in every reachable state: reset establishes it and every action
\* of the guest, the processor and the machine keeps it.
THEOREM InvHolds == Spec => []Inv
<1>1. Init => Inv
  BY Zenon, ResetGood DEF Init, Inv, EventMirrorsIntr
<1> QED
  BY <1>1, InvStep, PTL DEF Spec

\* Types of the local APIC, the event bit and the latch.
THEOREM TypesHold == Spec => []TypeOK
<1>1. Inv => TypeOK
  BY DEF Inv, Good, Regs, TypeOK
<1> QED
  BY <1>1, InvHolds, PTL

\* Two handlers of one priority class never run nested.
THEOREM HandlersNest == Spec => []HandlersOfDistinctClasses
<1>1. Inv => HandlersOfDistinctClasses
  BY DEF Inv, Good, HandlersOfDistinctClasses
<1> QED
  BY <1>1, InvHolds, PTL

\* A request above the processor's priority has always raised INTR.
THEOREM NothingMissed == Spec => []NoMissedInterrupt
<1>1. Inv => NoMissedInterrupt
  BY DEF Inv, Good, NoMissedInterrupt
<1> QED
  BY <1>1, InvHolds, PTL

\* The processor's event bit is INTR, whatever happens in whatever order.
THEOREM EventIsIntr == Spec => []EventMirrorsIntr
<1>1. Inv => EventMirrorsIntr
  BY DEF Inv
<1> QED
  BY <1>1, InvHolds, PTL

-----------------------------------------------------------------------------
(* The handlers entered and not ended *)

\* The handlers of a sequence interrupted each other, each of a higher class.
Ascending(s) == \A i, j \in 1..Len(s) : i < j => Class(s[i]) < Class(s[j])

LEMMA RangeOf ==
    ASSUME NEW S, NEW s \in Seq(S)
    PROVE  Range(s) = {s[i] : i \in 1..Len(s)}
BY DEF Range

\* The elements of a sequence of vectors, and their classes, are naturals.
LEMMA VectorAt ==
    ASSUME NEW s \in Seq(Vectors), NEW i \in 1..Len(s)
    PROVE  s[i] \in Vectors /\ s[i] \in Nat /\ Class(s[i]) \in Nat
<1> DEFINE v == s[i]
<1>1. v \in Vectors
  BY ElementOfSeq
<1> HIDE DEF v
<1>2. v \in Nat
  BY <1>1, LapicAssumption
<1>3. Class(v) \in Nat
  BY <1>2, ClassOrder
<1> QED
  BY <1>1, <1>2, <1>3 DEF v

\* In an ascending sequence no vector occurs twice.
LEMMA AscendingOnce ==
    ASSUME NEW s \in Seq(Vectors), Ascending(s)
    PROVE  \A i, j \in 1..Len(s) : s[i] = s[j] => i = j
<1>1. \A i \in 1..Len(s) : Class(s[i]) \in Nat
  BY VectorAt
<1>2. ASSUME NEW i \in 1..Len(s), NEW j \in 1..Len(s), s[i] = s[j], i # j PROVE FALSE
  <2>1. i < j \/ j < i
    BY <1>2
  <2>2. Class(s[i]) < Class(s[i])
    BY <1>2, <2>1 DEF Ascending
  <2> QED
    BY <1>1, <2>2
<1> QED
  BY <1>2

\* One handler taken out of the sequence leaves the others in their order.
LEMMA RemovedOne ==
    ASSUME NEW s \in Seq(Vectors), Ascending(s), NEW k \in 1..Len(s)
    PROVE  /\ Without(s, k) \in Seq(Vectors)
           /\ Ascending(Without(s, k))
           /\ Range(Without(s, k)) = Range(s) \ {s[k]}
<1> DEFINE n == Len(s)
           a == SubSeq(s, 1, k - 1)
           b == SubSeq(s, k + 1, n)
           r == a \o b
           at(i) == IF i < k THEN i ELSE i + 1
<1>1. n \in Nat /\ k \in Int /\ \A i \in 1..n : s[i] \in Vectors
  BY ElementOfSeq, LenProperties
<1>2. /\ a \in Seq(Vectors) /\ Len(a) = k - 1
      /\ \A i \in 1..(k - 1) : a[i] = s[i]
  <2>1. \A i \in 1..(k - 1) : s[i] \in Vectors
    BY <1>1
  <2>2. /\ a \in Seq(Vectors) /\ Len(a) = IF 1 <= k - 1 THEN (k - 1) - 1 + 1 ELSE 0
        /\ \A i \in 1..((k - 1) - 1 + 1) : a[i] = s[1 + i - 1]
    BY <1>1, <2>1, SubSeqProperties
  <2> QED
    BY <1>1, <2>2
<1>3. /\ b \in Seq(Vectors) /\ Len(b) = n - k
      /\ \A i \in 1..(n - k) : b[i] = s[k + i]
  <2>1. \A i \in (k + 1)..n : s[i] \in Vectors
    BY <1>1
  <2>2. /\ b \in Seq(Vectors) /\ Len(b) = IF k + 1 <= n THEN n - (k + 1) + 1 ELSE 0
        /\ \A i \in 1..(n - (k + 1) + 1) : b[i] = s[(k + 1) + i - 1]
    BY <1>1, <2>1, SubSeqProperties
  <2> QED
    BY <1>1, <2>2
<1> HIDE DEF a, b
<1>4. /\ r \in Seq(Vectors) /\ Len(r) = n - 1
      /\ \A i \in 1..(n - 1) : r[i] = IF i <= k - 1 THEN a[i] ELSE b[i - (k - 1)]
  <2>1. /\ r \in Seq(Vectors) /\ Len(r) = Len(a) + Len(b)
        /\ \A i \in 1..(Len(a) + Len(b)) : r[i] = IF i <= Len(a) THEN a[i] ELSE b[i - Len(a)]
    BY Zenon, <1>2, <1>3, ConcatProperties
  <2> QED
    BY <1>1, <1>2, <1>3, <2>1
<1> HIDE DEF r
<1>5. \A i \in 1..(n - 1) : at(i) \in 1..n /\ at(i) # k /\ r[i] = s[at(i)]
  <2> TAKE i \in 1..(n - 1)
  <2>1. CASE i < k
    <3>1. i \in 1..(k - 1) /\ i \in 1..n /\ at(i) = i /\ i <= k - 1
      BY <1>1, <2>1
    <3> QED
      BY <1>1, <1>2, <1>4, <2>1, <3>1
  <2>2. CASE ~(i < k)
    <3>1. i - (k - 1) \in 1..(n - k) /\ k + (i - (k - 1)) = i + 1 /\ ~(i <= k - 1)
      BY <1>1, <2>2
    <3> QED
      BY <1>1, <1>3, <1>4, <2>2, <3>1
  <2> QED
    BY <2>1, <2>2
<1>6. Ascending(r)
  <2> SUFFICES ASSUME NEW i \in 1..(n - 1), NEW j \in 1..(n - 1), i < j
               PROVE  Class(r[i]) < Class(r[j])
    BY <1>4 DEF Ascending
  <2>1. at(i) < at(j)
    BY <1>1
  <2> QED
    BY <1>5, <2>1 DEF Ascending
<1>7. ASSUME NEW j \in 1..n, j # k PROVE \E i \in 1..(n - 1) : r[i] = s[j]
  <2>1. CASE j < k
    <3>1. j \in 1..(n - 1) /\ at(j) = j
      BY <1>1, <2>1
    <3> QED
      BY <1>5, <3>1
  <2>2. CASE j > k
    <3>1. j - 1 \in 1..(n - 1) /\ at(j - 1) = j
      BY <1>1, <2>2
    <3> QED
      BY Zenon, <1>5, <3>1
  <2> QED
    BY <1>1, <1>7, <2>1, <2>2
<1>8. Range(r) = {r[i] : i \in 1..(n - 1)} /\ Range(s) = {s[i] : i \in 1..n}
  BY <1>4, RangeOf
<1>9. \A i \in 1..(n - 1) : r[i] \in Range(s) \ {s[k]}
  BY <1>5, <1>8, AscendingOnce
<1>10. \A x \in Range(s) \ {s[k]} : x \in Range(r)
  BY <1>7, <1>8
<1>11. Range(r) = Range(s) \ {s[k]}
  BY Zenon, <1>8, <1>9, <1>10
<1> QED
  BY Zenon, <1>4, <1>6, <1>11 DEF Without, r, a, b, n

\* The handler that runs is that of the highest vector in service.
LEMMA LastIsHighest ==
    ASSUME NEW s \in Seq(Vectors), Ascending(s), Range(s) # {}
    PROVE  s # <<>> /\ Max(Range(s)) = s[Len(s)]
<1> DEFINE m == Max(Range(s))
<1>1. Len(s) \in Nat /\ Range(s) = {s[i] : i \in 1..Len(s)}
  BY LenProperties, RangeOf
<1>2. \A i \in 1..Len(s) : s[i] \in Vectors /\ s[i] \in Nat
  BY VectorAt
<1>3. Len(s) > 0 /\ s # <<>>
  BY <1>1
<1>4. m \in Range(s) /\ \A y \in Range(s) : y <= m
  BY Zenon, <1>1, <1>2, MaxVectorOf
<1>5. PICK k \in 1..Len(s) : m = s[k]
  BY Zenon, <1>1, <1>4
<1>6. ASSUME k # Len(s) PROVE FALSE
  <2>1. k < Len(s) /\ Len(s) \in 1..Len(s)
    BY <1>1, <1>3, <1>6
  <2>2. Class(s[k]) < Class(s[Len(s)])
    BY <2>1 DEF Ascending
  <2>3. s[Len(s)] <= s[k]
    BY <1>1, <1>4, <1>5, <2>1
  <2>4. Class(s[Len(s)]) <= Class(s[k]) /\ Class(s[k]) \in Nat /\ Class(s[Len(s)]) \in Nat
    BY Zenon, <1>2, <2>1, <2>3, ClassOrder
  <2> QED
    BY <2>2, <2>4
<1> QED
  BY <1>3, <1>5, <1>6

\* A handler of a class above all the others goes last.
LEMMA EnteredLast ==
    ASSUME NEW s \in Seq(Vectors), Ascending(s), NEW m \in Vectors,
           \A w \in Range(s) : Class(w) < Class(m)
    PROVE  /\ s \o <<m>> \in Seq(Vectors) /\ Ascending(s \o <<m>>)
           /\ Range(s \o <<m>>) = Range(s) \cup {m}
<1> DEFINE n == Len(s)
           r == s \o <<m>>
<1>1. n \in Nat /\ Range(s) = {s[i] : i \in 1..n}
  BY LenProperties, RangeOf
<1>2. <<m>> \in Seq(Vectors) /\ Len(<<m>>) = 1 /\ <<m>>[1] = m
  OBVIOUS
<1>3. /\ r \in Seq(Vectors) /\ Len(r) = n + 1
      /\ \A i \in 1..(n + 1) : r[i] = IF i <= n THEN s[i] ELSE m
  <2>1. /\ r \in Seq(Vectors) /\ Len(r) = Len(s) + Len(<<m>>)
        /\ \A i \in 1..(Len(s) + Len(<<m>>)) :
              r[i] = IF i <= Len(s) THEN s[i] ELSE <<m>>[i - Len(s)]
    BY <1>2, ConcatProperties
  <2> QED
    BY <1>1, <1>2, <2>1
<1> HIDE DEF r
<1>4. Ascending(r)
  <2> SUFFICES ASSUME NEW i \in 1..(n + 1), NEW j \in 1..(n + 1), i < j
               PROVE  Class(r[i]) < Class(r[j])
    BY <1>3 DEF Ascending
  <2>1. i \in 1..n /\ r[i] = s[i] /\ s[i] \in Range(s)
    BY <1>1, <1>3
  <2>2. CASE j <= n
    BY <1>1, <1>3, <2>1, <2>2 DEF Ascending
  <2>3. CASE j = n + 1
    BY <1>1, <1>3, <2>1, <2>3
  <2> QED
    BY <1>1, <2>2, <2>3
<1>5. Range(r) = {r[i] : i \in 1..(n + 1)}
  BY <1>3, RangeOf
<1>6. \A i \in 1..(n + 1) : r[i] \in Range(s) \cup {m}
  BY <1>1, <1>3
<1>7. \A x \in Range(s) \cup {m} : \E i \in 1..(n + 1) : r[i] = x
  BY <1>1, <1>3
<1> QED
  BY <1>3, <1>4, <1>5, <1>6, <1>7 DEF r

-----------------------------------------------------------------------------
(* What the steps do to the vectors in service and to the slot of the EOI *)

LEMMA ServiceFrame ==
    ASSUME NEW a \in Regs
    PROVE  Service(a).isr = a.isr /\ Service(a).eoi = a.eoi
BY Zenon DEF Service, Regs, Registers

\* An end of interrupt takes its vector out of service, and leaves a
\* level-triggered one in the slot.
Ends(a, b, v) == /\ v \in a.isr
                 /\ b.isr = a.isr \ {v}
                 /\ b.eoi = IF v \in a.tmr THEN v ELSE a.eoi

LEMMA EndVectorEnds ==
    ASSUME NEW a \in Regs, NEW v \in a.isr
    PROVE  Ends(a, EndVector(a, v), v)
<1> DEFINE b == [a EXCEPT !.isr = @ \ {v},
                          !.eoi = IF v \in a.tmr THEN v ELSE @,
                          !.tmr = @ \ {v}]
<1>1. b \in Regs /\ b.isr = a.isr \ {v} /\ b.eoi = IF v \in a.tmr THEN v ELSE a.eoi
  BY Zenon DEF Regs, Registers
<1> HIDE DEF b
<1>2. Service(b).isr = b.isr /\ Service(b).eoi = b.eoi
  BY <1>1, ServiceFrame
<1>3. EndVector(a, v) = Service(b)
  BY DEF EndVector, b
<1> QED
  BY <1>1, <1>2, <1>3 DEF Ends

\* Nothing else a guest does or a boundary brings touches either.
Quiet(a, b) == b.isr = a.isr /\ b.eoi = a.eoi

LEMMA QuietSteps ==
    ASSUME NEW a \in Regs
    PROVE  /\ \A v \in Vectors, level, ext \in BOOLEAN : Quiet(a, Trigger(a, v, level, ext))
           /\ \A t \in Nat : Quiet(a, SetTpr(a, t))
           /\ \A v \in 0..MaxVector : Quiet(a, SetSpurious(a, v))
<1>1. ASSUME NEW v \in Vectors, NEW level \in BOOLEAN, NEW ext \in BOOLEAN
      PROVE  Quiet(a, Trigger(a, v, level, ext))
  <2> DEFINE b == [a EXCEPT !.irr = @ \cup {v},
                            !.tmr = IF level THEN @ \cup {v} ELSE @ \ {v}]
  <2>1. b \in Regs /\ b.isr = a.isr /\ b.eoi = a.eoi
    BY Zenon DEF Regs, Registers
  <2>2. Trigger(a, v, level, ext) = a \/ Trigger(a, v, level, ext) = Service(b)
    BY DEF Trigger
  <2> HIDE DEF b
  <2> QED
    BY <2>1, <2>2, ServiceFrame DEF Quiet
<1>2. ASSUME NEW t \in Nat PROVE Quiet(a, SetTpr(a, t))
  <2> DEFINE b == [a EXCEPT !.tpr = t]
  <2>1. b \in Regs /\ b.isr = a.isr /\ b.eoi = a.eoi
    BY Zenon DEF Regs, Registers
  <2>2. SetTpr(a, t) = b \/ SetTpr(a, t) = Service(b)
    BY DEF SetTpr
  <2> HIDE DEF b
  <2> QED
    BY <2>1, <2>2, ServiceFrame DEF Quiet
<1>3. ASSUME NEW v \in 0..MaxVector PROVE Quiet(a, SetSpurious(a, v))
  BY Zenon DEF SetSpurious, Quiet, Regs, Registers
<1> QED
  BY <1>1, <1>2, <1>3

\* An end of interrupt is that of the highest vector in service.
LEMMA EoiEnds ==
    ASSUME NEW a \in Regs
    PROVE  \/ Quiet(a, ReceiveEoi(a))
           \/ Ends(a, ReceiveEoi(a), Max(a.isr))
<1>1. a.isr # {} => Max(a.isr) \in a.isr
  BY RegsNat, MaxVectorOf
<1> QED
  BY <1>1, EndVectorEnds DEF ReceiveEoi, Quiet

\* After an access the latch is set if the slot is taken.
LEMMA Synced ==
    ASSUME NEW a \in Regs, Sync(a), boundary \in BOOLEAN
    PROVE  Quiet(a, lapic') /\ (lapic'.eoi # NoVector => boundary')
<1> DEFINE b == [a EXCEPT !.intrPending = FALSE]
<1>1. b.isr = a.isr /\ b.eoi = a.eoi
  BY Zenon DEF Regs, Registers
<1>2. lapic' = b /\ boundary' = (boundary \/ HasSchedulerWork(b))
  BY DEF Sync
<1> HIDE DEF b
<1> QED
  BY Zenon, <1>1, <1>2 DEF Quiet, HasSchedulerWork

\* What a guest's access amounts to
LEMMA GuestEffect ==
    ASSUME Inv, Guest
    PROVE  /\ ~boundary
           /\ lapic'.eoi # NoVector => boundary'
           /\ \/ Quiet(lapic, lapic')
              \/ \E v \in lapic.isr : /\ Ends(lapic, lapic', v)
                                      /\ WriteEoi => v = Max(lapic.isr)
<1>0. Good(lapic) /\ lapic \in Regs /\ boundary \in BOOLEAN
  BY DEF Inv, Good
<1>1. ASSUME WriteEoi
      PROVE  /\ ~boundary /\ (lapic'.eoi # NoVector => boundary')
             /\ Quiet(lapic, lapic') \/ Ends(lapic, lapic', Max(lapic.isr))
  <2> DEFINE a == ReceiveEoi(lapic)
  <2>1. a \in Regs /\ (Quiet(lapic, a) \/ Ends(lapic, a, Max(lapic.isr)))
    BY <1>0, EoiGood, EoiEnds DEF Good
  <2>2. ~boundary /\ Sync(a)
    BY <1>1 DEF WriteEoi
  <2> HIDE DEF a
  <2>3. Quiet(a, lapic') /\ (lapic'.eoi # NoVector => boundary')
    BY <1>0, <2>1, <2>2, Synced
  <2> QED
    BY <2>1, <2>2, <2>3 DEF Quiet, Ends
<1>2. ASSUME NEW a, Good(a), Quiet(lapic, a) \/ (\E v \in lapic.isr : Ends(lapic, a, v)),
             ~boundary, Sync(a)
      PROVE  /\ ~boundary /\ (lapic'.eoi # NoVector => boundary')
             /\ Quiet(lapic, lapic') \/ (\E v \in lapic.isr : Ends(lapic, lapic', v))
  <2>1. Quiet(a, lapic') /\ (lapic'.eoi # NoVector => boundary')
    BY <1>0, <1>2, Synced DEF Good
  <2> QED
    BY <1>2, <2>1 DEF Quiet, Ends
<1>3. CASE WriteEoi
  BY <1>1, <1>3 DEF Ends
<1>4. CASE ~WriteEoi
  <2>1. ASSUME NEW v \in Vectors, NEW level \in BOOLEAN, SelfIpi(v, level)
        PROVE  \E a : Good(a) /\ Quiet(lapic, a) /\ ~boundary /\ Sync(a)
    BY Zenon, <1>0, <2>1, TriggerGood, QuietSteps DEF SelfIpi
  <2>2. ASSUME NEW v \in Vectors, WriteSeoi(v)
        PROVE  \E a : /\ Good(a) /\ ~boundary /\ Sync(a)
                      /\ Quiet(lapic, a) \/ Ends(lapic, a, v)
    <3>1. Good(ReceiveSeoi(lapic, v))
      BY <1>0, EoiGood
    <3>2. Quiet(lapic, ReceiveSeoi(lapic, v)) \/ Ends(lapic, ReceiveSeoi(lapic, v), v)
      BY <1>0, EndVectorEnds DEF ReceiveSeoi, Quiet
    <3> QED
      BY Zenon, <2>2, <3>1, <3>2 DEF WriteSeoi
  <2>3. ASSUME NEW t \in TprValues, WriteTpr(t)
        PROVE  \E a : Good(a) /\ Quiet(lapic, a) /\ ~boundary /\ Sync(a)
    <3>1. t \in Nat
      BY CoreAssumption
    <3> QED
      BY Zenon, <1>0, <2>3, <3>1, SetTprGood, QuietSteps DEF WriteTpr
  <2>4. ASSUME NEW v \in SpuriousValues, WriteSvr(v)
        PROVE  \E a : Good(a) /\ Quiet(lapic, a) /\ ~boundary /\ Sync(a)
    <3>1. v \in 0..MaxVector
      BY CoreAssumption
    <3> QED
      BY Zenon, <1>0, <2>4, <3>1, SetSpuriousGood, QuietSteps DEF WriteSvr
  <2>5. PICK a : /\ Good(a) /\ ~boundary /\ Sync(a)
                 /\ Quiet(lapic, a) \/ \E v \in Vectors : Ends(lapic, a, v)
    BY Zenon, <1>4, <2>1, <2>2, <2>3, <2>4 DEF Guest
  <2>6. Quiet(lapic, a) \/ \E v \in lapic.isr : Ends(lapic, a, v)
    BY <2>5 DEF Ends
  <2> QED
    BY <1>2, <1>4, <2>5, <2>6
<1> QED
  BY <1>3, <1>4

\* The acknowledge enters the handler of a class above every one in service, or
\* answers with the spurious vector.
LEMMA TakeEffect ==
    ASSUME Inv, Take
    PROVE  /\ ~boundary
           /\ lapic'.eoi = lapic.eoi
           /\ lapic'.eoi # NoVector => boundary'
           /\ \/ lapic'.isr = lapic.isr
              \/ \E m \in Vectors : /\ lapic'.isr = lapic.isr \cup {m}
                                    /\ \A w \in lapic.isr : Class(w) < Class(m)
<1> DEFINE a == Acknowledge(lapic)
           b == [a EXCEPT !.intrPending = FALSE]
           m == Max(lapic.irr)
           c == [lapic EXCEPT !.irr = @ \ {m}, !.isr = @ \cup {m}, !.intr = FALSE]
<1>0. lapic \in Regs /\ lapic.isr \in SUBSET Vectors /\ lapic.irr \in SUBSET Vectors
  BY RegsNat DEF Inv, Good
<1>1. a \in Regs
  BY AcknowledgeGood DEF Inv, Good, EventMirrorsIntr
<1>2. /\ a.eoi = lapic.eoi
      /\ \/ a.isr = lapic.isr
         \/ /\ m \in Vectors /\ a.isr = lapic.isr \cup {m}
            /\ \A w \in lapic.isr : Class(w) < Class(m)
  <2>1. CASE ~Deliverable(lapic)
    BY Zenon, <1>0, <2>1 DEF Acknowledge, Regs, Registers
  <2>2. CASE Deliverable(lapic)
    <3>1. lapic.irr # {} /\ (lapic.isr # {} => Class(m) > Class(Max(lapic.isr)))
      BY <1>0, <2>2, DeliverableByClass
    <3>2. m \in Vectors /\ m \in Nat
      BY <1>0, <3>1, MaxVectorOf, RegsNat
    <3>3. c \in Regs /\ c.isr = lapic.isr \cup {m} /\ c.eoi = lapic.eoi
      BY Zenon, <1>0, <3>2 DEF Regs, Registers
    <3>4. a = Service(c)
      BY <2>2 DEF Acknowledge
    <3> HIDE DEF c, m, a
    <3>5. a.isr = c.isr /\ a.eoi = c.eoi
      BY <3>3, <3>4, ServiceFrame
    <3>6. ASSUME NEW w \in lapic.isr PROVE Class(w) < Class(m)
      <4>a. \A v \in Vectors : v \in Nat
        BY LapicAssumption
      <4>1. lapic.isr # {} /\ w \in Nat /\ Max(lapic.isr) \in Nat
        BY <1>0, <4>a, RegsNat
      <4>2. w <= Max(lapic.isr)
        BY <1>0, MaxVectorOf
      <4>3. Class(w) <= Class(Max(lapic.isr)) /\ Class(w) \in Nat /\ Class(Max(lapic.isr)) \in Nat
        BY <4>1, <4>2, ClassOrder
      <4>4. Class(m) > Class(Max(lapic.isr)) /\ Class(m) \in Nat
        BY <3>1, <3>2, <4>1, ClassOrder
      <4> QED
        BY <4>3, <4>4
    <3> QED
      BY <3>2, <3>3, <3>5, <3>6
  <2> QED
    BY <2>1, <2>2
<1>3. ~boundary /\ lapic' = b /\ boundary' = HasSchedulerWork(b)
  BY DEF Take
<1> HIDE DEF a, m
<1>4. b.isr = a.isr /\ b.eoi = a.eoi
  BY Zenon, <1>1 DEF Regs, Registers
<1> HIDE DEF b
<1> QED
  BY <1>2, <1>3, <1>4 DEF HasSchedulerWork

\* A boundary empties the slot and changes nothing in service, short of a reset.
LEMMA MachineEffect ==
    ASSUME Inv, Machine
    PROVE  /\ lapic'.eoi = NoVector
           /\ lapic'.isr = lapic.isr \/ lapic' = ResetLapic
<1>0. lapic \in Regs
  BY DEF Inv, Good
<1>1. ASSUME NEW a \in Regs, Quiet(lapic, a), Boundary(a)
      PROVE  lapic'.eoi = NoVector /\ lapic'.isr = lapic.isr
  <2> DEFINE b == [a EXCEPT !.intrPending = FALSE, !.eoi = NoVector]
  <2>1. b.isr = a.isr /\ b.eoi = NoVector
    BY Zenon, <1>1 DEF Regs, Registers
  <2>2. lapic' = b
    BY <1>1 DEF Boundary
  <2> HIDE DEF b
  <2> QED
    BY <1>1, <2>1, <2>2 DEF Quiet
<1>2. CASE Commit
  BY <1>0, <1>1, <1>2 DEF Commit, Quiet
<1>3. ASSUME NEW v \in Vectors, TimerFires(v)
      PROVE  lapic'.eoi = NoVector /\ lapic'.isr = lapic.isr
  BY Zenon, <1>0, <1>1, <1>3, TriggerGood, QuietSteps DEF TimerFires, Inv, Good
<1>4. ASSUME NEW v \in Vectors, NEW level \in BOOLEAN, NEW ext \in BOOLEAN,
             Arrives(v, level, ext)
      PROVE  lapic'.eoi = NoVector /\ lapic'.isr = lapic.isr
  BY Zenon, <1>0, <1>1, <1>4, TriggerGood, QuietSteps DEF Arrives, Inv, Good
<1>5. CASE Reset
  BY <1>5 DEF Reset, ResetLapic
<1> QED
  BY <1>2, <1>3, <1>4, <1>5 DEF Machine

-----------------------------------------------------------------------------
(* The handlers and the ends, over any behaviour *)

\* The inductive invariant of the history: the slot is taken only while a
\* boundary is asked for, so that no guest's access finds it taken.
HInv == /\ Inv
        /\ nest \in Seq(Vectors) /\ Ascending(nest) /\ Range(nest) = lapic.isr
        /\ ended \subseteq Vectors /\ ended \subseteq {lapic.eoi}
        /\ lapic.eoi # NoVector => boundary

LEMMA HGuestKeeps ==
    ASSUME HInv, HGuest, Inv'
    PROVE  HInv'
<1> DEFINE gone == lapic.isr \ lapic'.isr
<1>1. /\ ~boundary /\ (lapic'.eoi # NoVector => boundary')
      /\ \/ Quiet(lapic, lapic')
         \/ \E v \in lapic.isr : /\ Ends(lapic, lapic', v)
                                 /\ WriteEoi => v = Max(lapic.isr)
  BY GuestEffect DEF HInv, HGuest
<1>2. ended = {}
  <2>0. \A v \in Vectors : v \in Nat
    BY LapicAssumption
  <2>1. NoVector \notin Vectors
    BY Zenon, <2>0, LapicAssumption
  <2>2. lapic.eoi = NoVector /\ ended \subseteq Vectors /\ ended \subseteq {lapic.eoi}
    BY <1>1 DEF HInv
  <2> QED
    BY <2>1, <2>2
<1>3. /\ nest' = IF gone = {} THEN nest
                 ELSE Without(nest, IF WriteEoi THEN Len(nest)
                                    ELSE CHOOSE i \in 1..Len(nest) : nest[i] \in gone)
      /\ ended' = ended \cup (gone \cap lapic.tmr)
  BY DEF HGuest
<1>4. CASE Quiet(lapic, lapic')
  <2>1. gone = {}
    BY <1>4 DEF Quiet
  <2> QED
    BY <1>1, <1>2, <1>3, <1>4, <2>1 DEF HInv, Quiet
<1>5. ASSUME NEW v \in lapic.isr, Ends(lapic, lapic', v), WriteEoi => v = Max(lapic.isr)
      PROVE  HInv'
  <2>1. gone = {v} /\ v \in Vectors
    BY <1>5, RegsNat DEF Ends, HInv, Inv, Good
  <2>2. ended' \subseteq Vectors /\ ended' \subseteq {lapic'.eoi}
    BY <1>2, <1>3, <1>5, <2>1 DEF Ends
  <2>3. \E k \in 1..Len(nest) : nest[k] = v /\ nest' = Without(nest, k)
    <3>1. Range(nest) = {nest[i] : i \in 1..Len(nest)}
      BY RangeOf DEF HInv
    <3>2. CASE WriteEoi
      <4>1. nest # <<>> /\ Max(Range(nest)) = nest[Len(nest)]
        BY LastIsHighest DEF HInv
      <4>2. nest[Len(nest)] = v
        BY <1>5, <3>2, <4>1 DEF HInv
      <4>3. nest' = Without(nest, Len(nest))
        BY <1>3, <2>1, <3>2
      <4>4. Len(nest) \in 1..Len(nest)
        BY <4>1, EmptySeq DEF HInv
      <4> QED
        BY <4>2, <4>3, <4>4
    <3>3. CASE ~WriteEoi
      <4> DEFINE k == CHOOSE i \in 1..Len(nest) : nest[i] \in gone
      <4>1. \E i \in 1..Len(nest) : nest[i] \in gone
        BY <2>1, <3>1 DEF HInv
      <4>2. k \in 1..Len(nest) /\ nest[k] \in gone
        BY <4>1
      <4>3. nest' = Without(nest, k)
        BY <1>3, <2>1, <3>3
      <4> HIDE DEF k
      <4> QED
        BY <2>1, <4>2, <4>3
    <3> QED
      BY <3>2, <3>3
  <2>4. nest' \in Seq(Vectors) /\ Ascending(nest') /\ Range(nest') = Range(nest) \ {v}
    BY <2>3, RemovedOne DEF HInv
  <2> QED
    BY <1>1, <1>5, <2>2, <2>4 DEF HInv, Ends, Ascending
<1> QED
  BY <1>1, <1>4, <1>5

LEMMA HTakeKeeps ==
    ASSUME HInv, HTake, Inv'
    PROVE  HInv'
<1>1. /\ lapic'.eoi = lapic.eoi /\ (lapic'.eoi # NoVector => boundary')
      /\ \/ lapic'.isr = lapic.isr
         \/ \E m \in Vectors : /\ lapic'.isr = lapic.isr \cup {m}
                               /\ \A w \in lapic.isr : Class(w) < Class(m)
  BY TakeEffect DEF HInv, HTake
<1> DEFINE entered == lapic'.isr \ lapic.isr
<1>2. /\ nest' = IF entered = {} THEN nest ELSE nest \o <<CHOOSE v \in entered : TRUE>>
      /\ ended' = ended
  BY DEF HTake
<1>3. nest \in Seq(Vectors) /\ Ascending(nest) /\ Range(nest) = lapic.isr
  BY DEF HInv
<1>4. CASE lapic'.isr = lapic.isr
  <2>2. nest' = nest
    BY <1>2, <1>4
  <2> QED
    BY Zenon, <1>1, <1>2, <1>4, <2>2 DEF HInv
<1>5. ASSUME NEW m \in Vectors, lapic'.isr = lapic.isr \cup {m},
             \A w \in lapic.isr : Class(w) < Class(m)
      PROVE  HInv'
  <2>1. Class(m) \in Nat
    BY LapicAssumption, ClassOrder
  <2>2. m \notin lapic.isr
    BY <1>5, <2>1
  <2>3. entered = {m}
    BY <1>5, <2>2
  <2>4. nest' = nest \o <<m>>
    <3>1. (CHOOSE v \in {m} : TRUE) = m
      OBVIOUS
    <3> QED
      BY Zenon, <1>2, <2>3, <3>1
  <2>5. nest' \in Seq(Vectors) /\ Ascending(nest') /\ Range(nest') = lapic.isr \cup {m}
    BY <1>3, <1>5, <2>4, EnteredLast
  <2> QED
    BY Zenon, <1>1, <1>2, <1>5, <2>5 DEF HInv, Ascending
<1> QED
  BY <1>1, <1>4, <1>5

LEMMA HMachineKeeps ==
    ASSUME HInv, HMachine, Inv'
    PROVE  HInv'
<1>1. lapic'.eoi = NoVector /\ (lapic'.isr = lapic.isr \/ lapic' = ResetLapic)
  BY MachineEffect DEF HInv, HMachine
<1>2. /\ nest' = IF lapic' = ResetLapic THEN <<>> ELSE nest
      /\ ended' = IF lapic' = ResetLapic THEN {} ELSE ended \ {lapic.eoi}
  BY DEF HMachine
<1>3. ended' = {}
  BY <1>2 DEF HInv
<1>4. CASE lapic' = ResetLapic
  <2>1. nest' = <<>> /\ lapic'.isr = {}
    BY <1>2, <1>4 DEF ResetLapic
  <2>2. <<>> \in Seq(Vectors) /\ Ascending(<<>>) /\ Range(<<>>) = {}
    BY DEF Ascending, Range
  <2> QED
    BY <1>1, <1>3, <2>1, <2>2 DEF HInv, Ascending
<1>5. CASE lapic' # ResetLapic
  BY <1>1, <1>2, <1>3, <1>5 DEF HInv, Ascending
<1> QED
  BY <1>4, <1>5

\* The handlers entered and the ends on their way are what the registers say.
THEOREM HistoryHolds == HSpec => []HInv
<1>1. HInit => HInv
  <2> SUFFICES ASSUME HInit PROVE HInv
    OBVIOUS
  <2>1. Inv
    BY Zenon, ResetGood DEF HInit, Init, Inv, EventMirrorsIntr
  <2>2. <<>> \in Seq(Vectors) /\ Ascending(<<>>) /\ Range(<<>>) = {}
    BY DEF Ascending, Range
  <2>3. lapic.isr = {} /\ lapic.eoi = NoVector
    BY DEF HInit, Init, ResetLapic
  <2> QED
    BY <2>1, <2>2, <2>3 DEF HInit, HInv
<1>2. HNext => Next
  BY DEF HNext, HGuest, HTake, HMachine, Next
<1>3. HInv /\ [HNext]_hvars => HInv'
  <2> SUFFICES ASSUME HInv, [HNext]_hvars PROVE HInv'
    OBVIOUS
  <2>1. Inv'
    BY <1>2, InvStep DEF HInv, hvars
  <2>2. CASE UNCHANGED hvars
    BY <2>1, <2>2 DEF HInv, hvars, vars, Ascending
  <2> QED
    BY <2>1, <2>2, HGuestKeeps, HTakeKeeps, HMachineKeeps DEF HNext
<1> QED
  BY <1>1, <1>3, PTL DEF HSpec

\* An end of interrupt ends the handler that runs, whatever arrives and in
\* whatever order handlers end.
THEOREM EoisEndInnermost == HSpec => []EoiEndsInnermost
<1>1. HInv => EoiEndsInnermost
  <2> SUFFICES ASSUME HInv PROVE EoiEndsInnermost
    OBVIOUS
  <2>1. Len(nest) \in Nat
    BY DEF HInv
  <2> QED
    BY <2>1 DEF HInv, EoiEndsInnermost, Ascending
<1> QED
  BY <1>1, HistoryHolds, PTL

\* The one slot for the vector to broadcast is never overwritten.
THEOREM EoisNotLost == HSpec => []NoEoiLost
<1>1. HInv => NoEoiLost
  BY DEF HInv, NoEoiLost
<1> QED
  BY <1>1, HistoryHolds, PTL
=============================================================================
