------------------------------ MODULE SmpProofs ------------------------------
(***************************************************************************)
(* Proofs about SmpScheduler, for any number of processors, any quantum    *)
(* and any slice lengths.                                                  *)
(***************************************************************************)
EXTENDS MCSmpScheduler, NaturalsInduction, WellFoundedInduction, FiniteSetTheorems, TLAPS

\* A waiting processor is an application processor that nothing but a startup
\* message can reach.
Waits(c, p) == p.activity = "waitSipi" =>
                   c # Bsp /\ p.mask = {"nmi", "init"} /\ p.iflag = FALSE

\* A processor that a step may leave behind at index c
Good(c, p) == p \in Processor /\ Waits(c, p)

LEMMA CpusFacts == Ncpus \in Nat /\ Ncpus > 1 /\ Bsp \in Cpus /\ \A c \in Cpus : c \in Nat /\ c < Ncpus
BY SmpAssumption DEF Cpus, Bsp

LEMMA ResetGood ==
    ASSUME NEW c \in Cpus
    PROVE  Good(c, ResetCpu(c))
BY DEF ResetCpu, Good, Waits, Processor, Asleep

LEMMA EntersGood ==
    ASSUME NEW c \in Cpus, NEW p \in Processor
    PROVE  Good(c, Enters(p))
BY Zenon DEF Enters, Good, Waits, Processor, Asleep

\* handle_async_event leaves a processor that may be at its index.
LEMMA AsyncGood ==
    ASSUME NEW c \in Cpus, NEW p, Good(c, p)
    PROVE  Good(c, Async(c, p))
<1> DEFINE w == [p EXCEPT !.armed = IF p.activity \in {"mwait", "mwaitIf"} THEN FALSE ELSE @]
<1>1. w \in Processor
  BY Zenon DEF Good, Processor
<1> HIDE DEF w
<1>2. [w EXCEPT !.pending = @ \ {"nmi"}, !.mask = @ \cup {"nmi"}] \in Processor
  BY Zenon, <1>1 DEF Processor
<1>3. [w EXCEPT !.pending = @ \ {"lapic"}] \in Processor
  BY <1>1 DEF Processor
<1>4. [w EXCEPT !.pending = @ \ {"pic"}] \in Processor
  BY <1>1 DEF Processor
<1>5. Good(c, [w EXCEPT !.activity = "active"])
  BY <1>1 DEF Processor, Good, Waits
<1>6. \/ Async(c, p) = p
      \/ Async(c, p) = ResetCpu(c)
      \/ Async(c, p) = Enters([w EXCEPT !.pending = @ \ {"nmi"}, !.mask = @ \cup {"nmi"}])
      \/ Async(c, p) = Enters([w EXCEPT !.pending = @ \ {"lapic"}])
      \/ Async(c, p) = Enters([w EXCEPT !.pending = @ \ {"pic"}])
      \/ Async(c, p) = [w EXCEPT !.activity = "active"]
  BY DEF Async, w
<1> QED
  BY <1>2, <1>3, <1>4, <1>5, <1>6, ResetGood, EntersGood

\* An instruction of a running processor
LEMMA ExecuteGood ==
    ASSUME NEW c \in Cpus, NEW p \in Processor, p.activity = "active", NEW op \in AllOps
    PROVE  Good(c, Execute(p, op))
<1>1. Execute(p, op) \in Processor
  BY ZenonT(60) DEF Execute, Processor, AllOps, Asleep
<1>2. Execute(p, op).activity # "waitSipi"
  BY DEF Execute, Processor, AllOps
<1> QED
  BY <1>1, <1>2 DEF Good, Waits

\* A message to a processor
LEMMA DeliverGood ==
    ASSUME NEW c \in Cpus, NEW p, Good(c, p), NEW kind \in Kinds
    PROVE  Good(c, Deliver(p, kind))
<1>1. Deliver(p, kind) \in Processor
  BY Zenon DEF Deliver, Processor, Kinds, Good
<1>2. Waits(c, Deliver(p, kind))
  BY DEF Deliver, Waits, Good, Processor, Kinds
<1> QED
  BY <1>1, <1>2 DEF Good

LEMMA ArrivesGood ==
    ASSUME NEW c \in Cpus, NEW p, Good(c, p), NEW lapic \in BOOLEAN, NEW int \in BOOLEAN
    PROVE  Good(c, Arrives(c, p, lapic, int))
<1> DEFINE q == IF lapic THEN Deliver(p, "lapic") ELSE p
<1>1. Good(c, q)
  BY DeliverGood DEF Kinds
<1> HIDE DEF q
<1>2. /\ Good(c, [q EXCEPT !.pending = @ \cup {"pic"}])
      /\ Good(c, [q EXCEPT !.pending = @ \ {"pic"}])
  BY <1>1 DEF Good, Waits, Processor
<1>3. \/ Arrives(c, p, lapic, int) = q
      \/ Arrives(c, p, lapic, int) = [q EXCEPT !.pending = @ \cup {"pic"}]
      \/ Arrives(c, p, lapic, int) = [q EXCEPT !.pending = @ \ {"pic"}]
  BY DEF Arrives, q
<1> QED
  BY Zenon, <1>1, <1>2, <1>3

-----------------------------------------------------------------------------
(* Masks *)

AllGood(cpus) == cpus \in [Cpus -> Processor] /\ \A c \in Cpus : Waits(c, cpus[c])

LEMMA UpdateGood ==
    ASSUME NEW cpus, AllGood(cpus), NEW c \in Cpus, NEW p, Good(c, p)
    PROVE  AllGood([cpus EXCEPT ![c] = p])
BY DEF AllGood, Good

\* Refreshing the processors that changed keeps the mask what a scan would give.
LEMMA RefreshChanged ==
    ASSUME NEW cpus, NEW q, NEW who, \A d \in Cpus : d \notin who => q[d] = cpus[d]
    PROVE  Refresh(Scan(cpus), q, who) = Scan(q)
BY DEF Refresh, Scan

LEMMA BoundaryKeeps ==
    ASSUME NEW cpus, AllGood(cpus), Boundary(cpus, Scan(cpus))
    PROVE  AllGood(cpu') /\ runnable' = Scan(cpu')
<1>1. PICK who \in SUBSET Cpus, int \in BOOLEAN :
        /\ cpu' = [c \in Cpus |-> Arrives(c, cpus[c], c \in who, int)]
        /\ runnable' = Refresh(Scan(cpus), cpu', who \cup {Bsp})
  BY Zenon DEF Boundary
<1>2. \A c \in Cpus : Good(c, cpu'[c])
  <2> TAKE c \in Cpus
  <2>1. Good(c, cpus[c])
    BY DEF AllGood, Good
  <2>2. (c \in who) \in BOOLEAN
    OBVIOUS
  <2> QED
    BY Zenon, <1>1, <2>1, <2>2, ArrivesGood
<1>3. \A c \in Cpus : c \notin who \cup {Bsp} => cpu'[c] = cpus[c]
  BY <1>1 DEF Arrives
<1>4. AllGood(cpu')
  BY <1>1, <1>2 DEF AllGood, Good
<1> QED
  BY Zenon, <1>1, <1>3, <1>4, RefreshChanged

LEMMA MessageKeeps ==
    ASSUME NEW cpus, AllGood(cpus), NEW target \in Cpus, NEW kind \in Kinds,
           BoundaryMessage(cpus, Scan(cpus), target, kind)
    PROVE  AllGood(cpu') /\ runnable' = Scan(cpu')
<1> DEFINE told == [cpus EXCEPT ![target] = Deliver(cpus[target], kind)]
<1>1. Good(target, Deliver(cpus[target], kind))
  BY DeliverGood DEF AllGood, Good
<1>2. AllGood(told)
  BY Zenon, <1>1, UpdateGood
<1>3. \A d \in Cpus : d \notin {target} => told[d] = cpus[d]
  BY DEF AllGood
<1>4. Boundary(told, Refresh(Scan(cpus), told, {target}))
  BY DEF BoundaryMessage, AllGood
<1> HIDE DEF told
<1>5. Refresh(Scan(cpus), told, {target}) = Scan(told)
  BY Zenon, <1>3, RefreshChanged
<1> QED
  BY <1>2, <1>4, <1>5, BoundaryKeeps

LEMMA ResetKeeps ==
    ASSUME BoundaryReset
    PROVE  AllGood(cpu') /\ runnable' = Scan(cpu')
BY ResetGood DEF BoundaryReset, AllGood, Good

LEMMA SlicedGood ==
    ASSUME AllGood(cpu), NEW c \in Cpus, NEW op \in AllOps
    PROVE  /\ AllGood(Sliced(c, op))
           /\ Refresh(Scan(cpu), Sliced(c, op), {c}) = Scan(Sliced(c, op))
<1> DEFINE p == Async(c, cpu[c])
           q == IF p.activity = "active" THEN Execute(p, op) ELSE p
<1>1. Good(c, p)
  BY AsyncGood DEF AllGood, Good
<1> HIDE DEF p
<1>2. Good(c, q)
  <2>1. CASE p.activity = "active"
    BY <1>1, <2>1, ExecuteGood DEF Good
  <2>2. CASE p.activity # "active"
    BY <1>1, <2>2
  <2> QED
    BY <2>1, <2>2
<1>3. Sliced(c, op) = [cpu EXCEPT ![c] = q]
  BY DEF Sliced, p
<1> HIDE DEF q
<1>4. AllGood([cpu EXCEPT ![c] = q])
  BY <1>2, UpdateGood
<1>5. Refresh(Scan(cpu), [cpu EXCEPT ![c] = q], {c}) = Scan([cpu EXCEPT ![c] = q])
  BY Zenon, RefreshChanged DEF AllGood
<1> QED
  BY <1>3, <1>4, <1>5

-----------------------------------------------------------------------------
(* The invariant *)

Inv == AllGood(cpu) /\ runnable = Scan(cpu)

LEMMA InvInit == Init => Inv
<1> SUFFICES ASSUME Init PROVE Inv
  OBVIOUS
<1>1. AllGood(cpu)
  BY ResetGood DEF Init, AllGood, Good
<1>2. \A c \in Cpus : Runnable(cpu[c]) <=> c = Bsp
  BY DEF Init, Runnable, ResetCpu
<1> QED
  BY <1>1, <1>2, CpusFacts DEF Inv, Scan, Init

LEMMA InvStep == Inv /\ [Next]_vars => Inv'
<1> SUFFICES ASSUME Inv, [Next]_vars PROVE Inv'
  OBVIOUS
<1> USE DEF Inv
<1>1. ASSUME NEW c \in Cpus, NEW op \in Ops, NEW delta \in SliceTicks, SliceQuiet(c, op, delta)
      PROVE  Inv'
  BY <1>1, SlicedGood, SmpAssumption DEF SliceQuiet
<1>2. ASSUME NEW c \in Cpus, NEW op \in Ops, NEW delta \in SliceTicks, SliceBoundary(c, op, delta)
      PROVE  Inv'
  BY <1>2, SlicedGood, BoundaryKeeps, SmpAssumption DEF SliceBoundary
<1>3. ASSUME NEW c \in Cpus, NEW target \in Cpus, NEW kind \in Sends, NEW delta \in SliceTicks,
             SliceSends(c, target, kind, delta)
      PROVE  Inv'
  <2>1. "nop" \in AllOps /\ kind \in Kinds
    BY SmpAssumption DEF AllOps
  <2> QED
    BY <1>3, <2>1, SlicedGood, MessageKeeps DEF SliceSends
<1>4. ASSUME NEW c \in Cpus, SliceResets(c) PROVE Inv'
  BY <1>4, ResetKeeps DEF SliceResets
<1>5. CASE BatchBegins \/ FastForward \/ RoundCommits
  BY Zenon, <1>5, BoundaryKeeps DEF BatchBegins, FastForward, RoundCommits
<1>6. CASE RoundTooShort \/ BatchIdle
  BY <1>6 DEF RoundTooShort, BatchIdle
<1>7. CASE RoundResets \/ FastForwardResets
  BY <1>7, ResetKeeps DEF RoundResets, FastForwardResets
<1>9. CASE Injects
  <2>1. Good(Bsp, Enters(cpu[Bsp]))
    BY EntersGood, CpusFacts DEF AllGood
  <2>2. cpu' = [cpu EXCEPT ![Bsp] = Enters(cpu[Bsp])]
        /\ runnable' = Refresh(runnable, cpu', {Bsp})
    BY <1>9, CpusFacts DEF Injects, AllGood
  <2>3. AllGood(cpu')
    BY Zenon, <2>1, <2>2, UpdateGood, CpusFacts
  <2>4. \A d \in Cpus : d \notin {Bsp} => cpu'[d] = cpu[d]
    BY <2>2 DEF AllGood
  <2> QED
    BY Zenon, <2>2, <2>3, <2>4, RefreshChanged
<1>8. CASE UNCHANGED vars
  BY <1>8 DEF vars
<1> QED
  BY <1>1, <1>2, <1>3, <1>4, <1>5, <1>6, <1>7, <1>8, <1>9 DEF Next, Slice

\* The mask run_cpu_batch goes by is what a scan of the processors would give, for
\* any number of processors.
THEOREM MasksAlwaysMatch == Spec => []MasksMatchScan
<1>1. Inv => MasksMatchScan
  BY DEF Inv, MasksMatchScan
<1> QED
  BY InvInit, InvStep, <1>1, PTL DEF Spec

\* cpu_runnable_for_batch admits everything handle_wait_for_event would wake.
LEMMA WakesRunnable ==
    ASSUME NEW p \in Processor, Wakes(p)
    PROVE  Runnable(p)
<1>1. CASE p.activity = "mwaitIf"
  BY <1>1 DEF Wakes, Runnable, Unmasked, Interrupts, Processor, Asleep
<1>2. CASE p.activity # "mwaitIf"
  <2>1. Unmasked(p) # {}
    BY <1>2 DEF Wakes, Unmasked, Interrupts, Processor
  <2> QED
    BY <1>2, <2>1 DEF Wakes, Runnable, Asleep
<1> QED
  BY <1>1, <1>2

\* No processor sleeps through an event that ends its sleep.
THEOREM WakeupsNotLost == Spec => []NoLostWakeup
<1>1. Inv => NoLostWakeup
  BY WakesRunnable DEF Inv, AllGood, Scan, NoLostWakeup
<1> QED
  BY InvInit, InvStep, <1>1, PTL DEF Spec

\* Nothing but a startup message ends a wait for one.
THEOREM SipiStarts == Spec => []OnlySipiStarts
<1>1. Inv => OnlySipiStarts
  BY DEF Inv, AllGood, Waits, OnlySipiStarts
<1> QED
  BY InvInit, InvStep, <1>1, PTL DEF Spec

-----------------------------------------------------------------------------
(* Types and the tick account *)

LEMMA LeastCpu ==
    ASSUME NEW S \in SUBSET Cpus, S # {}
    PROVE  Min(S) \in S
<1> DEFINE R == OpToRel(<, Nat)
<1>1. IsWellFoundedOn(R, Nat)
  BY Zenon, NatLessThanWellFounded
<1>2. \A y \in Nat, x \in Nat : y < x => <<y, x>> \in R
  BY DEF OpToRel
<1>3. S \in SUBSET Nat
  BY CpusFacts
<1> HIDE DEF R
<1>4. PICK n \in S : \A y \in S : ~(<<y, n>> \in R)
  BY Zenon, <1>1, <1>3, WFMin
<1>5. \A y \in S : n <= y
  <2> TAKE y \in S
  <2>1. y \in Nat /\ n \in Nat
    BY <1>3, <1>4
  <2>2. ~(y < n)
    BY Zenon, <1>2, <1>4, <2>1
  <2> QED
    BY <2>1, <2>2
<1> QED
  BY <1>5 DEF Min

Account == /\ batch \in BOOLEAN /\ cursor \in 0..Ncpus /\ ticks \in Nat
           /\ remainder \in 0..(Ncpus - 1) /\ reached \in BOOLEAN

\* The processor a round comes to is at or after its cursor, so that credits are
\* never negative.
LEMMA ReachesKeeps ==
    ASSUME Account, runnable \in SUBSET Cpus, NEW c \in Cpus, NEW delta \in SliceTicks,
           Reaches(c, delta), reached' \in BOOLEAN
    PROVE  Account'
<1>1. c \in NextSet
  BY LeastCpu DEF Reaches, RoundGoesOn, NextSet
<1>2. c \in Nat /\ c < Ncpus /\ c >= cursor /\ Ncpus \in Nat /\ cursor \in Nat
  BY <1>1, CpusFacts DEF NextSet, Account
<1>3. delta \in Nat /\ Quantum \in Nat
  BY SmpAssumption
<1>4. (c - cursor) \in Nat
  BY <1>2
<1>5. (c - cursor) * Quantum \in Nat
  BY <1>3, <1>4
<1>6. Credits(c, delta) \in Nat
  BY <1>3, <1>5 DEF Credits
<1>7. cursor' = c + 1 /\ ticks' = ticks + Credits(c, delta)
  BY DEF Reaches
<1>8. ticks' \in Nat /\ cursor' \in 0..Ncpus
  BY <1>2, <1>6, <1>7 DEF Account
<1> QED
  BY <1>8 DEF Reaches, Account

LEMMA LeftoverType ==
    ASSUME Account
    PROVE  Leftover \in 0..(Ncpus - 1)
<1>1. Ncpus \in Nat /\ Ncpus > 1 /\ Quantum \in Nat
  BY CpusFacts, SmpAssumption
<1>2. (Ncpus - cursor) \in Nat
  BY <1>1 DEF Account
<1>3. (Ncpus - cursor) * Quantum \in Nat
  BY <1>1, <1>2
<1>4. RoundTicks \in Nat
  BY <1>3 DEF RoundTicks, Account
<1>5. remainder + RoundTicks \in Nat
  BY <1>4, <1>1 DEF Account
<1> QED
  BY <1>1, <1>5 DEF Leftover

LEMMA Zeroes == 0 \in Nat /\ 0 \in 0..Ncpus /\ 0 \in 0..(Ncpus - 1)
BY CpusFacts

LEMMA AccountStep == Inv /\ Account /\ [Next]_vars => Account'
<1> SUFFICES ASSUME Inv, Account, [Next]_vars PROVE Account'
  OBVIOUS
<1>0. runnable \in SUBSET Cpus
  BY DEF Inv, Scan
<1>1. ASSUME NEW c \in Cpus, NEW op \in Ops, NEW delta \in SliceTicks,
             SliceQuiet(c, op, delta) \/ SliceBoundary(c, op, delta)
      PROVE  Account'
  BY Zenon, <1>0, <1>1, ReachesKeeps DEF SliceQuiet, SliceBoundary, Account
<1>2. ASSUME NEW c \in Cpus, NEW target \in Cpus, NEW kind \in Sends, NEW delta \in SliceTicks,
             SliceSends(c, target, kind, delta)
      PROVE  Account'
  BY <1>0, <1>2, ReachesKeeps DEF SliceSends
<1>3. ASSUME BoundaryReset PROVE Account'
  BY Zenon, <1>3, Zeroes DEF BoundaryReset, Account
<1>4. CASE BatchBegins \/ BatchIdle \/ FastForward \/ Injects
  BY Zenon, <1>4 DEF BatchBegins, BatchIdle, FastForward, Injects, Account
<1>5. CASE RoundTooShort
  BY Zenon, <1>5, LeftoverType, Zeroes DEF RoundTooShort, Account
<1>6. CASE RoundCommits
  BY Zenon, <1>6, LeftoverType, Zeroes DEF RoundCommits, Account
<1>7. CASE UNCHANGED vars
  BY <1>7 DEF vars, Account
<1> QED
  BY <1>1, <1>2, <1>3, <1>4, <1>5, <1>6, <1>7 DEF Next, Slice, SliceResets, RoundResets, FastForwardResets

\* Types: in particular a round's ticks are never negative and what is carried
\* over is less than one tick's worth, for any quantum and any slice lengths.
THEOREM TypesHold == Spec => []TypeOK
<1>1. Init => Account
  BY Zenon, Zeroes DEF Init, Account
<1>2. Inv /\ Account => TypeOK
  BY DEF Inv, AllGood, Scan, Account, TypeOK
<1> QED
  BY InvInit, InvStep, AccountStep, <1>1, <1>2, PTL DEF Spec

-----------------------------------------------------------------------------
(* Every credit reaches the clock *)

\* The processors from one index up to another are as many as the difference.
LEMMA PassedOver ==
    ASSUME NEW a \in 0..Ncpus, NEW b \in 0..Ncpus, a <= b
    PROVE  Cardinality({d \in Cpus : a <= d /\ d < b}) = b - a
<1>1. Ncpus \in Nat
  BY CpusFacts
<1>2. {d \in Cpus : a <= d /\ d < b} = a..(b - 1)
  BY <1>1 DEF Cpus
<1>3. a \in Int /\ b - 1 \in Int
  BY <1>1
<1>4. Cardinality(a..(b - 1)) = IF a > b - 1 THEN 0 ELSE (b - 1) - a + 1
  BY <1>3, FS_Interval
<1>5. (IF a > b - 1 THEN 0 ELSE (b - 1) - a + 1) = b - a
  BY <1>1
<1> QED
  BY Zenon, <1>2, <1>4, <1>5

\* What a slice adds to the credits is what it adds to the round's ticks.
LEMMA SliceCredits ==
    ASSUME Account, runnable \in SUBSET Cpus, NEW c \in Cpus, NEW delta \in SliceTicks,
           Reaches(c, delta)
    PROVE  Quantum * Cardinality({d \in Cpus : cursor <= d /\ d < c})
               + (IF delta = 0 THEN Quantum ELSE delta) = Credits(c, delta)
<1>1. c \in NextSet
  BY LeastCpu DEF Reaches, RoundGoesOn, NextSet
<1>2. c \in 0..Ncpus /\ cursor \in 0..Ncpus /\ cursor <= c
  BY <1>1, CpusFacts DEF NextSet, Account
<1>3. Cardinality({d \in Cpus : cursor <= d /\ d < c}) = c - cursor
  BY <1>2, PassedOver
<1>4. (c - cursor) \in Int /\ Quantum \in Int
  BY <1>2, SmpAssumption
<1>5. Quantum * (c - cursor) = (c - cursor) * Quantum
  BY <1>4
<1> QED
  BY <1>3, <1>5 DEF Credits

\* What the end of a round adds is the quantum of everyone it did not come to.
LEMMA RoundCredits ==
    ASSUME Account
    PROVE  /\ RoundTicks \in Nat
           /\ ticks + Quantum * Cardinality({d \in Cpus : cursor <= d /\ ~reached}) = RoundTicks
<1>1. Ncpus \in Nat /\ Quantum \in Nat /\ cursor \in 0..Ncpus /\ ticks \in Nat
  BY CpusFacts, SmpAssumption DEF Account
<1>2. CASE reached
  <2>1. {d \in Cpus : cursor <= d /\ ~reached} = {}
    BY <1>2
  <2>2. Cardinality({d \in Cpus : cursor <= d /\ ~reached}) = 0
    BY <2>1, FS_EmptySet
  <2> QED
    BY <1>1, <1>2, <2>2 DEF RoundTicks
<1>3. CASE ~reached
  <2>1. {d \in Cpus : cursor <= d /\ ~reached} = {d \in Cpus : cursor <= d /\ d < Ncpus}
    BY <1>3, CpusFacts
  <2>2. Cardinality({d \in Cpus : cursor <= d /\ ~reached}) = Ncpus - cursor
    BY <1>1, <2>1, PassedOver
  <2>3. (Ncpus - cursor) \in Nat
    BY <1>1
  <2>4. Quantum * (Ncpus - cursor) = (Ncpus - cursor) * Quantum
        /\ (Ncpus - cursor) * Quantum \in Nat
    BY <1>1, <2>3
  <2> QED
    BY <1>1, <1>3, <2>2, <2>4 DEF RoundTicks
<1> QED
  BY <1>2, <1>3

\* A sum is its whole ticks and what is left of it.
LEMMA WholeAndRest ==
    ASSUME NEW a \in Nat, NEW n \in Nat, n > 0
    PROVE  a = n * (a \div n) + (a % n)
OBVIOUS

LEMMA ConservedStep == Inv /\ Account /\ TicksConserved /\ [MCNext]_mcvars => TicksConserved'
<1> SUFFICES ASSUME Inv, Account, TicksConserved, [MCNext]_mcvars PROVE TicksConserved'
  OBVIOUS
<1>0. runnable \in SUBSET Cpus
  BY DEF Inv, Scan
<1>a. ticks \in Nat /\ remainder \in Nat /\ Ncpus \in Nat /\ Ncpus > 0
  BY CpusFacts DEF Account
<1>1. ASSUME BoundaryReset, owed' = 0 PROVE TicksConserved'
  BY <1>1 DEF BoundaryReset, TicksConserved
<1>2. ASSUME NEW c \in Cpus, NEW delta \in SliceTicks, Reaches(c, delta),
             owed' = owed + Quantum * Cardinality({d \in Cpus : cursor <= d /\ d < c})
                          + (IF delta = 0 THEN Quantum ELSE delta)
      PROVE  TicksConserved'
  <2> DEFINE k == Cardinality({d \in Cpus : cursor <= d /\ d < c})
             last == IF delta = 0 THEN Quantum ELSE delta
  <2>1. Quantum * k + last = Credits(c, delta)
    BY <1>0, <1>2, SliceCredits
  <2>2. ticks' = ticks + Credits(c, delta) /\ remainder' = remainder
    BY <1>2 DEF Reaches
  <2>3. k \in Nat /\ last \in Nat
    <3>1. c \in 0..Ncpus /\ cursor \in 0..Ncpus /\ cursor <= c
      BY <1>0, <1>2, LeastCpu, CpusFacts DEF Reaches, RoundGoesOn, NextSet, Account
    <3>2. k = c - cursor
      BY <3>1, PassedOver
    <3> QED
      BY <3>1, <3>2, SmpAssumption
  <2>4. owed' = owed + Quantum * k + last
    BY <1>2
  <2> HIDE DEF k, last
  <2>5. Quantum * k \in Nat
    BY <2>3, SmpAssumption
  <2> QED
    BY <1>a, <2>1, <2>2, <2>3, <2>4, <2>5 DEF TicksConserved
<1>3. ASSUME MCRound PROVE TicksConserved'
  <2> DEFINE k == Cardinality({d \in Cpus : cursor <= d /\ ~reached})
             sum == owed + Quantum * k
  <2>1. RoundTicks \in Nat /\ ticks + Quantum * k = RoundTicks
    BY RoundCredits
  <2>2. remainder + RoundTicks = owed + Quantum * k
    <3>1. Quantum * k = RoundTicks - ticks
      <4>1. k \in Nat
        <5>1. {d \in Cpus : cursor <= d /\ ~reached} \subseteq 0..(Ncpus - 1)
          BY DEF Cpus
        <5>2. IsFiniteSet(0..(Ncpus - 1))
          BY <1>a, FS_Interval
        <5> QED
          BY Zenon, <5>1, <5>2, FS_Subset, FS_CardinalityType
      <4> HIDE DEF k
      <4>2. Quantum * k \in Nat
        BY <4>1, SmpAssumption
      <4> QED
        BY <1>a, <2>1, <4>2
    <3> HIDE DEF k
    <3> QED
      BY <1>a, <2>1, <3>1 DEF TicksConserved
  <2>3. sum = Ncpus * Elapsed + Leftover
    BY <1>a, <2>1, <2>2, WholeAndRest DEF Elapsed, Leftover
  <2>4. \/ RoundTooShort /\ owed' = sum
        \/ RoundCommits /\ owed' = sum - Ncpus * Elapsed
        \/ RoundResets /\ owed' = 0
    BY <1>3 DEF MCRound
  <2>5. Elapsed \in Int /\ Leftover \in Int
    BY <1>a, <2>1 DEF Elapsed, Leftover
  <2> HIDE DEF sum
  <2>6. Ncpus * Elapsed \in Int
    BY <1>a, <2>5
  <2>7. CASE RoundTooShort /\ owed' = sum
    <3>1. owed' = Leftover
      BY <1>a, <2>3, <2>5, <2>7 DEF RoundTooShort
    <3> QED
      BY <2>5, <2>7, <3>1 DEF RoundTooShort, TicksConserved
  <2>8. CASE RoundCommits /\ owed' = sum - Ncpus * Elapsed
    <3>1. owed' = Leftover
      BY <2>3, <2>5, <2>6, <2>8
    <3> QED
      BY <2>5, <2>8, <3>1 DEF RoundCommits, TicksConserved
  <2>9. CASE RoundResets /\ owed' = 0
    BY <1>1, <2>9 DEF RoundResets
  <2> QED
    BY <2>4, <2>7, <2>8, <2>9
<1>4. CASE MCBetween
  <2>1. CASE FastForwardResets /\ owed' = 0
    BY <1>1, <2>1 DEF FastForwardResets
  <2>2. CASE (BatchBegins \/ BatchIdle \/ Injects \/ FastForward) /\ UNCHANGED owed
    BY <2>2 DEF BatchBegins, BatchIdle, Injects, FastForward, TicksConserved
  <2> QED
    BY <1>4, <2>1, <2>2 DEF MCBetween, MCBatch, MCFastForward
<1>5. ASSUME NEW c \in Cpus, MCSlice(c) PROVE TicksConserved'
  BY Zenon, <1>1, <1>2, <1>5 DEF MCSlice, SliceQuiet, SliceBoundary, SliceSends, SliceResets
<1>6. CASE UNCHANGED mcvars
  BY <1>6 DEF mcvars, vars, TicksConserved
<1> QED
  BY <1>3, <1>4, <1>5, <1>6 DEF MCNext

\* The steps the account is kept over are the scheduler's.
LEMMA Forgets == [MCNext]_mcvars => [Next]_vars
BY Zenon DEF MCNext, MCBetween, MCBatch, MCFastForward, MCRound, MCSlice, Next, Slice, mcvars

\* run_cpu_batch and commit_round lose no credit and invent none, for any number
\* of processors, any quantum and any slice lengths.
THEOREM CreditsReachTheClock == MCSpec => []TicksConserved
<1>1. MCInit => Init /\ TicksConserved
  BY DEF MCInit, Init, TicksConserved
<1>2. Init => Account
  BY Zenon, Zeroes DEF Init, Account
<1> QED
  BY InvInit, InvStep, AccountStep, ConservedStep, Forgets, <1>1, <1>2, PTL DEF MCSpec
=============================================================================
