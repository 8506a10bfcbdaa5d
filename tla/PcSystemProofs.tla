--------------------------- MODULE PcSystemProofs ---------------------------
(***************************************************************************)
(* The timer wheel never overshoots a deadline, for any number of timers,  *)
(* any countdown horizon and any sequence of calls.                        *)
(***************************************************************************)
EXTENDS MCPcSystem, ScanOrderProofs, SequenceTheorems, TLAPS

\* The inductive invariant.
IInv == TypeOK /\ WheelInv

\* The reload loop of countdown_event adds exactly one period when the timer
\* fires on its deadline.
LEMMA ReloadOnTime ==
    ASSUME NEW d \in Nat, NEW p \in Nat, p >= 1
    PROVE  AdvancePast(d, p, d) = d + p
<1>1. (d - d) \div p = 0
  BY SMT
<1>2. (0 + 1) * p = p
  BY SMT
<1> QED
  BY <1>1, <1>2, SMT DEF AdvancePast

\* Arming a timer for a future tick keeps the countdown at or before every armed
\* deadline and does not move the clock.
LEMMA ArmingKeepsCountdown ==
    ASSUME IInv, NEW i \in Slots, NEW d \in Nat, NEW r \in BOOLEAN,
           ArmAt(i, d, r)
    PROVE  /\ timeToFire' \in [Slots -> Nat]
           /\ active' = active \cup {i}
           /\ continuous' \in {continuous \cup {i}, continuous \ {i}}
           /\ countdown' \in 1..countdownPeriod' /\ countdownPeriod' \in Nat
           /\ countdownPeriod' - countdown' = countdownPeriod - countdown
           /\ \A j \in active' : timeToFire'[j] >= ticksTotal + countdownPeriod'
<1> DEFINE due == IF d <= Now THEN Now + 1 ELSE d
<1>1. /\ Now \in Nat /\ due \in Nat /\ due > Now
      /\ ticksTotal \in Nat /\ countdownPeriod \in Nat /\ countdown \in Nat
      /\ countdown >= 1 /\ countdown <= countdownPeriod
  BY DEF IInv, TypeOK, WheelInv, Now
<1>2. timeToFire' = [timeToFire EXCEPT ![i] = due]
  BY DEF ArmAt
<1>3. /\ timeToFire' \in [Slots -> Nat]
      /\ timeToFire'[i] = due
      /\ \A j \in Slots : j # i => timeToFire'[j] = timeToFire[j]
  BY <1>1, <1>2 DEF IInv, TypeOK
<1>4. active' = active \cup {i} /\ continuous' \in {continuous \cup {i}, continuous \ {i}}
  BY DEF ArmAt
<1>5. ShortenCountdownTo(due)
  BY DEF ArmAt
<1> HIDE DEF due
<1>6. /\ countdown' \in 1..countdownPeriod' /\ countdownPeriod' \in Nat
      /\ countdownPeriod' - countdown' = countdownPeriod - countdown
      /\ countdownPeriod' <= countdownPeriod
      /\ due >= ticksTotal + countdownPeriod'
  <2>1. CASE due - Now < countdown
    <3>1. countdown' = due - Now /\ countdownPeriod' = (countdownPeriod - countdown) + (due - Now)
      BY <1>1, <1>5, <2>1 DEF ShortenCountdownTo
    <3> QED
      BY <1>1, <2>1, <3>1 DEF Now
  <2>2. CASE ~ (due - Now < countdown)
    <3>1. countdown' = countdown /\ countdownPeriod' = countdownPeriod
      BY <1>1, <1>5, <2>2 DEF ShortenCountdownTo
    <3> QED
      BY <1>1, <2>2, <3>1 DEF Now
  <2> QED
    BY <2>1, <2>2
<1>7. \A j \in active' : timeToFire'[j] >= ticksTotal + countdownPeriod'
  <2> SUFFICES ASSUME NEW j \in active' PROVE timeToFire'[j] >= ticksTotal + countdownPeriod'
    OBVIOUS
  <2>1. CASE j = i
    BY ZenonT(60), <1>1, <1>3, <1>6, <2>1
  <2>2. CASE j # i
    <3>1. j \in active /\ j \in Slots
      BY <1>4, <2>2 DEF IInv, TypeOK
    <3>2. timeToFire[j] >= ticksTotal + countdownPeriod /\ timeToFire[j] \in Nat
      BY <3>1 DEF IInv, WheelInv, TypeOK
    <3> QED
      BY <1>1, <1>3, <1>6, <2>2, <3>1, <3>2
  <2> QED
    BY <2>1, <2>2
<1> QED
  BY <1>3, <1>4, <1>6, <1>7

\* The operations that arm a timer already registered.
LEMMA ArmStep ==
    ASSUME IInv, NEW i \in Slots, NEW d \in Nat, NEW r \in BOOLEAN, NEW p \in Nat,
           IsHandle(i), ArmAt(i, d, r),
           tperiod' \in {tperiod, [tperiod EXCEPT ![i] = AtLeastOne(p)]},
           UNCHANGED <<ticksTotal, numTimers, inUse, remaining>>
    PROVE  IInv' /\ Now' = Now
<1>1. /\ timeToFire' \in [Slots -> Nat]
      /\ active' = active \cup {i}
      /\ continuous' \in {continuous \cup {i}, continuous \ {i}}
      /\ countdown' \in 1..countdownPeriod' /\ countdownPeriod' \in Nat
      /\ countdownPeriod' - countdown' = countdownPeriod - countdown
      /\ \A j \in active' : timeToFire'[j] >= ticksTotal + countdownPeriod'
  BY ArmingKeepsCountdown
<1>2. /\ tperiod' \in [Slots -> Nat]
      /\ \A j \in inUse : tperiod'[j] >= 1
  <2>1. CASE tperiod' = tperiod
    BY <2>1 DEF IInv, TypeOK, WheelInv
  <2>2. CASE tperiod' = [tperiod EXCEPT ![i] = AtLeastOne(p)]
    <3>1. AtLeastOne(p) \in Nat /\ AtLeastOne(p) >= 1
      BY DEF AtLeastOne
    <3> QED
      BY <2>2, <3>1 DEF IInv, TypeOK, WheelInv
  <2> QED
    BY <2>1, <2>2
<1>3. i \in inUse /\ i # 0
  BY DEF IsHandle
<1>4. TypeOK'
  BY <1>1, <1>2, <1>3 DEF IInv, TypeOK
<1>5. WheelInv'
  BY <1>1, <1>2, <1>3 DEF IInv, TypeOK, WheelInv
<1>6. Now' = Now
  BY Zenon, <1>1 DEF IInv, TypeOK, Now
<1> QED
  BY <1>4, <1>5, <1>6 DEF IInv

\* A new timer takes a free slot.
LEMMA RegisterStep ==
    ASSUME IInv, NEW o, NEW p \in Nat, NEW r \in BOOLEAN, NEW a \in BOOLEAN,
           RegisterTimer(o, p, r, a)
    PROVE  IInv' /\ Now' = Now
<1>0. PICK i \in Slots \ inUse :
         /\ inUse' = inUse \cup {i}
         /\ tperiod' = [tperiod EXCEPT ![i] = AtLeastOne(p)]
         /\ numTimers' = IF i >= numTimers THEN i + 1 ELSE numTimers
         /\ IF a
            THEN ArmAt(i, Now + AtLeastOne(p), r)
            ELSE /\ timeToFire' = [timeToFire EXCEPT ![i] = Now + AtLeastOne(p)]
                 /\ continuous' = IF r THEN continuous \cup {i} ELSE continuous \ {i}
                 /\ UNCHANGED <<active, countdown, countdownPeriod>>
  BY Zenon DEF RegisterTimer
<1>1. UNCHANGED <<ticksTotal, remaining>>
  BY DEF RegisterTimer
<1>2. Now + AtLeastOne(p) \in Nat
  BY DEF IInv, TypeOK, WheelInv, Now, AtLeastOne
<1>3. /\ timeToFire' \in [Slots -> Nat]
      /\ active' \in {active, active \cup {i}}
      /\ continuous' \in {continuous \cup {i}, continuous \ {i}}
      /\ countdown' \in 1..countdownPeriod' /\ countdownPeriod' \in Nat
      /\ countdownPeriod' - countdown' = countdownPeriod - countdown
      /\ \A j \in active' : timeToFire'[j] >= ticksTotal + countdownPeriod'
  <2>1. CASE a
    BY <1>0, <1>2, <2>1, ArmingKeepsCountdown
  <2>2. CASE ~ a
    <3>1. /\ timeToFire' = [timeToFire EXCEPT ![i] = Now + AtLeastOne(p)]
          /\ continuous' = IF r THEN continuous \cup {i} ELSE continuous \ {i}
          /\ UNCHANGED <<active, countdown, countdownPeriod>>
      BY <1>0, <2>2
    <3>2. i \notin active
      BY <1>0 DEF IInv, TypeOK
    <3> QED
      BY <1>2, <3>1, <3>2 DEF IInv, TypeOK, WheelInv
  <2> QED
    BY <2>1, <2>2
<1>4. /\ tperiod' \in [Slots -> Nat]
      /\ \A j \in inUse' : tperiod'[j] >= 1
  BY <1>0 DEF IInv, TypeOK, WheelInv, AtLeastOne, Slots
<1>5. /\ numTimers' \in 1..MaxTimers
      /\ inUse' \subseteq 0..(numTimers' - 1)
      /\ inUse' \subseteq Slots
  BY <1>0, PcSystemAssumption DEF IInv, TypeOK, WheelInv, Slots
<1>6. i # 0
  BY <1>0 DEF IInv, TypeOK, WheelInv
<1>7. TypeOK'
  BY <1>0, <1>1, <1>3, <1>4, <1>5 DEF IInv, TypeOK
<1>8. WheelInv'
  BY <1>0, <1>1, <1>3, <1>4, <1>5, <1>6 DEF IInv, WheelInv
<1>9. Now' = Now
  BY Zenon, <1>1, <1>3 DEF IInv, TypeOK, Now
<1> QED
  BY <1>7, <1>8, <1>9 DEF IInv

\* One countdown_event: what is due is due now, and the new countdown ends at or
\* before every timer still armed.
LEMMA CountdownStep ==
    ASSUME IInv, CountdownEvent
    PROVE  /\ IInv'
           /\ Now' = Now + remaining - remaining'
           /\ \A i \in active : timeToFire[i] <= ticksTotal' =>
                /\ ticksTotal' = timeToFire[i]
                /\ i \in active' => timeToFire'[i] = timeToFire[i] + tperiod[i]
                /\ i \in active' <=> i \in continuous
<1> DEFINE t   == ticksTotal + countdownPeriod
           due == {i \in active : i < numTimers /\ timeToFire[i] <= t}
<1>1. /\ ticksTotal' = t
      /\ active' = active \ (due \ continuous)
      /\ timeToFire' = [i \in Slots |->
                          IF i \in due \cap continuous
                          THEN AdvancePast(timeToFire[i], tperiod[i], t)
                          ELSE timeToFire[i]]
      /\ remaining >= countdown /\ remaining' = remaining - countdown
      /\ UNCHANGED <<numTimers, inUse, continuous, tperiod>>
  BY DEF CountdownEvent
<1>2. PICK q \in 1..NullInterval :
         /\ IsNextPeriod(q, t, {i \in active' : i < numTimers}, timeToFire')
         /\ countdown' = q /\ countdownPeriod' = q
  BY Zenon DEF CountdownEvent
<1>3. t \in Nat /\ t = Now + countdown
  BY DEF IInv, TypeOK, WheelInv, Now
<1>4. \A i \in active : /\ i \in Slots /\ i \in inUse /\ i < numTimers
                        /\ timeToFire[i] \in Nat /\ timeToFire[i] >= t
                        /\ tperiod[i] \in Nat /\ tperiod[i] >= 1
  BY DEF IInv, TypeOK, WheelInv, Slots
<1> HIDE DEF t
<1>5. \A i \in active : i \in due <=> timeToFire[i] = t
  BY <1>3, <1>4
<1>6. \A i \in Slots : timeToFire'[i] = IF i \in due \cap continuous
                                        THEN timeToFire[i] + tperiod[i]
                                        ELSE timeToFire[i]
  <2> SUFFICES ASSUME NEW i \in Slots
               PROVE  timeToFire'[i] = IF i \in due \cap continuous
                                       THEN timeToFire[i] + tperiod[i]
                                       ELSE timeToFire[i]
    OBVIOUS
  <2>1. CASE i \in due \cap continuous
    <3>1. i \in active /\ timeToFire[i] = t
      BY <1>5, <2>1
    <3>2. AdvancePast(timeToFire[i], tperiod[i], t) = timeToFire[i] + tperiod[i]
      BY SMTT(30), <1>3, <1>4, <3>1, ReloadOnTime
    <3> QED
      BY <1>1, <2>1, <3>2
  <2>2. CASE i \notin due \cap continuous
    BY <1>1, <2>2
  <2> QED
    BY <2>1, <2>2
<1>7. timeToFire' \in [Slots -> Nat]
  <2>1. \A i \in Slots : timeToFire'[i] \in Nat
    BY <1>4, <1>6 DEF IInv, TypeOK
  <2>2. timeToFire' = [i \in Slots |-> timeToFire'[i]]
    BY <1>1
  <2> QED
    BY <2>1, <2>2
<1>8. \A i \in active' : i \in active /\ i \in Slots /\ i < numTimers /\ timeToFire'[i] > t
  <2> SUFFICES ASSUME NEW i \in active'
               PROVE  i \in active /\ i \in Slots /\ i < numTimers /\ timeToFire'[i] > t
    OBVIOUS
  <2>1. i \in active /\ (i \in due => i \in continuous)
    BY <1>1
  <2> QED
    BY <1>3, <1>4, <1>5, <1>6, <2>1
<1>9. \A i \in active' : q <= timeToFire'[i] - t
  <2> SUFFICES ASSUME NEW i \in active' PROVE q <= timeToFire'[i] - t
    OBVIOUS
  <2>1. q <= AtLeastOne(timeToFire'[i] - t)
    BY <1>2, <1>8 DEF IsNextPeriod
  <2> QED
    BY <1>3, <1>7, <1>8, <2>1 DEF AtLeastOne
<1>10. {0} \subseteq active'
  BY <1>1 DEF IInv, WheelInv
<1>11. q \in Nat /\ q >= 1
  BY <1>2, PcSystemAssumption
<1>12. TypeOK'
  BY SMTT(30), <1>1, <1>2, <1>3, <1>7, <1>8, <1>11 DEF IInv, TypeOK
<1>13. WheelInv'
  <2>1. \A i \in active' : timeToFire'[i] >= ticksTotal' + countdownPeriod'
    BY SMTT(30), <1>1, <1>2, <1>3, <1>7, <1>8, <1>9, <1>11
  <2> QED
    BY SMTT(30), <1>1, <1>2, <1>10, <1>11, <2>1 DEF IInv, WheelInv
<1>14. Now' = Now + remaining - remaining'
  <2>1. Now' = t
    BY <1>1, <1>2, <1>3, <1>11 DEF Now
  <2> QED
    BY <1>1, <1>3, <2>1 DEF IInv, TypeOK, Now
<1>15. \A i \in active : timeToFire[i] <= ticksTotal' =>
         /\ ticksTotal' = timeToFire[i]
         /\ i \in active' => timeToFire'[i] = timeToFire[i] + tperiod[i]
         /\ i \in active' <=> i \in continuous
  <2> SUFFICES ASSUME NEW i \in active, timeToFire[i] <= ticksTotal'
               PROVE  /\ ticksTotal' = timeToFire[i]
                      /\ i \in active' => timeToFire'[i] = timeToFire[i] + tperiod[i]
                      /\ i \in active' <=> i \in continuous
    OBVIOUS
  <2>1. timeToFire[i] = t /\ i \in due /\ i \in Slots
    BY <1>1, <1>3, <1>4, <1>5
  <2>2. i \in active' <=> i \in continuous
    BY <1>1, <2>1
  <2> QED
    BY <1>1, <1>6, <2>1, <2>2
<1> QED
  BY <1>12, <1>13, <1>14, <1>15 DEF IInv

\* The initial wheel holds only the null timer.
LEMMA InitEstablishes == Init => IInv
<1> SUFFICES ASSUME Init PROVE IInv
  OBVIOUS
<1> USE PcSystemAssumption DEF Init, Slots
<1>1. TypeOK
  BY DEF TypeOK
<1>2. WheelInv
  BY DEF WheelInv
<1> QED
  BY <1>1, <1>2 DEF IInv

\* How far one step moves the clock.
Spent == IF Idle THEN Now ELSE Now + remaining - remaining'

\* Every step keeps the invariant and accounts for its ticks.
LEMMA NextPreserves == IInv /\ [Next]_vars => IInv' /\ Now' = Spent
<1> SUFFICES ASSUME IInv, [Next]_vars PROVE IInv' /\ Now' = Spent
  OBVIOUS
<1> USE PcSystemAssumption
<1>0. ASSUME Idle, Now' = Now PROVE Now' = Spent
  BY <1>0 DEF Spent
<1>1. CASE \E o \in Owners \ {owner[i] : i \in Slots}, p \in Delays, r, a \in BOOLEAN :
             RegisterTimer(o, p, r, a)
  <2>1. PICK o \in Owners, p \in Delays, r \in BOOLEAN, a \in BOOLEAN : RegisterTimer(o, p, r, a)
    BY <1>1
  <2>2. p \in Nat /\ Idle
    BY Zenon, <2>1 DEF RegisterTimer
  <2> QED
    BY <1>0, <2>1, <2>2, RegisterStep
<1>2. CASE \E i \in Slots, d \in Deadlines, r \in BOOLEAN : ActivateTimerAtTicks(i, d, r)
  <2>1. PICK i \in Slots, d \in Deadlines, r \in BOOLEAN : ActivateTimerAtTicks(i, d, r)
    BY <1>2
  <2> QED
    BY <1>0, <2>1, ArmStep, 0 \in Nat DEF ActivateTimerAtTicks
<1>3. CASE \E i \in Slots, d \in Deadlines, p \in Delays, r \in BOOLEAN :
             ActivateTimerAtTicksWithPeriod(i, d, p, r)
  <2>1. PICK i \in Slots, d \in Deadlines, p \in Delays, r \in BOOLEAN :
               ActivateTimerAtTicksWithPeriod(i, d, p, r)
    BY <1>3
  <2> QED
    BY Zenon, <1>0, <2>1, ArmStep DEF ActivateTimerAtTicksWithPeriod
<1>4. ASSUME NEW i \in Slots, NEW p \in Nat, NEW r \in BOOLEAN, ActivateTimer(i, p, r)
      PROVE  IInv' /\ Now' = Spent
  <2>1. Now + AtLeastOne(p) \in Nat
    BY DEF IInv, TypeOK, WheelInv, Now, AtLeastOne
  <2> QED
    BY Zenon, <1>0, <1>4, <2>1, ArmStep DEF ActivateTimer
<1>5. CASE \E i \in Slots, p \in Delays, r \in BOOLEAN : ActivateTimer(i, p, r)
  BY <1>4, <1>5
<1>6. CASE \E i \in Slots, p \in Delays, r \in BOOLEAN : ActivateTimerUsec(i, p, r)
  <2>1. PICK i \in Slots, p \in Delays, r \in BOOLEAN : ActivateTimerUsec(i, p, r)
    BY <1>6
  <2>2. PICK q \in Nat : ActivateTimer(i, q, r)
    BY <2>1 DEF ActivateTimerUsec, IInv, TypeOK
  <2> QED
    BY <1>4, <2>2
<1>7. CASE \E i \in Slots, p \in Delays : ReactivateTimerRelative(i, p)
  <2>1. PICK i \in Slots, p \in Delays : ReactivateTimerRelative(i, p)
    BY <1>7
  <2>2. p \in Nat /\ timeToFire[i] + AtLeastOne(p) \in Nat
    BY DEF IInv, TypeOK, AtLeastOne
  <2> QED
    BY Zenon, <1>0, <2>1, <2>2, ArmStep DEF ReactivateTimerRelative
<1>8. CASE \E i \in Slots : DeactivateTimer(i)
  <2>1. PICK i \in Slots : DeactivateTimer(i)
    BY <1>8
  <2>2. IInv'
    BY <2>1 DEF DeactivateTimer, IsHandle, IInv, TypeOK, WheelInv
  <2> QED
    BY <1>0, <2>1, <2>2 DEF DeactivateTimer, Now
<1>9. CASE \E n \in Steps : Tickn(n)
  <2>1. PICK n \in Steps : Tickn(n)
    BY <1>9
  <2>2. IInv'
    BY <2>1 DEF Tickn, clock, slots, IInv, TypeOK, WheelInv
  <2> QED
    BY <1>0, <2>1, <2>2 DEF Tickn, clock, slots, Now
<1>10. CASE CountdownEvent
  <2>1. ~ Idle
    BY <1>10 DEF CountdownEvent
  <2> QED
    BY <1>10, <2>1, CountdownStep DEF Spent
<1>11. CASE TicknRest
  <2>1. /\ ~ Idle /\ remaining < countdown
        /\ countdown' = countdown - remaining /\ remaining' = 0
        /\ UNCHANGED <<ticksTotal, countdownPeriod, numTimers, inUse, active,
                       continuous, tperiod, timeToFire>>
    BY <1>11 DEF TicknRest, slots
  <2>2. IInv'
    BY <2>1 DEF Idle, IInv, TypeOK, WheelInv
  <2>3. Now' = Now + remaining - remaining'
    BY <2>1 DEF Idle, IInv, TypeOK, Now
  <2> QED
    BY <2>1, <2>2, <2>3 DEF Spent
<1>12. CASE TakeFiredTimers \/ Reset
  <2>1. IInv'
    BY ZenonT(60), <1>12 DEF TakeFiredTimers, Reset, clock, slots, IInv, TypeOK, WheelInv
  <2> QED
    BY <1>0, <1>12, <2>1 DEF TakeFiredTimers, Reset, clock, slots, Now
<1>13. CASE \E i \in Slots : UnregisterTimer(i)
  <2>1. PICK i \in Slots : UnregisterTimer(i)
    BY <1>13
  <2>2. /\ i # 0 /\ i \in inUse /\ i \notin active
        /\ inUse' = inUse \ {i} /\ continuous' = continuous \ {i}
        /\ tperiod' = [tperiod EXCEPT ![i] = U64Max]
        /\ timeToFire' = [timeToFire EXCEPT ![i] = U64Max]
        /\ numTimers' = IF i = numTimers - 1 THEN numTimers - 1 ELSE numTimers
        /\ UNCHANGED <<ticksTotal, countdownPeriod, countdown, active, remaining>>
    BY <2>1 DEF UnregisterTimer, IsHandle
  <2>3. numTimers' \in 1..MaxTimers /\ inUse' \subseteq 0..(numTimers' - 1)
    BY <2>2 DEF IInv, TypeOK, WheelInv, Slots
  <2>4. TypeOK'
    BY <2>2, <2>3 DEF IInv, TypeOK
  <2>5. WheelInv'
    BY <2>2, <2>3 DEF IInv, TypeOK, WheelInv
  <2> QED
    BY SMTT(30), <1>0, <2>1, <2>2, <2>4, <2>5 DEF UnregisterTimer, IInv, Now
<1>14. CASE UNCHANGED vars
  <2>1. IInv'
    BY <1>14 DEF vars, IInv, TypeOK, WheelInv
  <2>2. Now' = Now /\ remaining' = remaining /\ remaining \in Nat /\ Now \in Int
    BY <1>14 DEF vars, Now, IInv, TypeOK
  <2> QED
    BY <2>1, <2>2 DEF Spent
<1> QED
  BY <1>1, <1>2, <1>3, <1>5, <1>6, <1>7, <1>8, <1>9, <1>10, <1>11, <1>12, <1>13, <1>14
     DEF Next, MachineNext

\* The registers of the wheel keep their types, and armed timers are registered.
THEOREM WheelTyped == Spec => []TypeOK
<1>1. IInv => TypeOK
  BY DEF IInv
<1> QED
  BY <1>1, InitEstablishes, NextPreserves, PTL DEF Spec

\* The wheel never overshoots an armed deadline, whatever calls are made.
THEOREM WheelCorrect == Spec => []WheelInv
<1>1. IInv => WheelInv
  BY DEF IInv
<1> QED
  BY <1>1, InitEstablishes, NextPreserves, PTL DEF Spec

\* Every timer fires exactly on its deadline and a repeating one loses no period.
THEOREM FiresOnTime == Spec => FiresOnDeadline
<1>1. IInv /\ [Next]_vars =>
        [CountdownEvent =>
          \A i \in active : timeToFire[i] <= ticksTotal' =>
            /\ ticksTotal' = timeToFire[i]
            /\ i \in active' => timeToFire'[i] = timeToFire[i] + tperiod[i]
            /\ i \in active' <=> i \in continuous]_vars
  BY CountdownStep
<1> QED
  BY <1>1, InitEstablishes, NextPreserves, PTL DEF Spec, FiresOnDeadline

\* Only tickn moves the clock, and by exactly the ticks it is given.
THEOREM ClockExact == Spec => TicksConserved
<1>1. IInv /\ [Next]_vars =>
        [Now' = IF Idle THEN Now ELSE Now + remaining - remaining']_vars
  BY NextPreserves DEF Spent
<1> QED
  BY <1>1, InitEstablishes, NextPreserves, PTL DEF Spec, TicksConserved

-----------------------------------------------------------------------------
(* A machine can always be saved *)

Fire == [owner : Owners, count : Nat \ {0}]

\* A list of fires the validator accepts: it has room, and each owner waits
\* once and holds a timer.
FiresValid(q) ==
    /\ q \in Seq(Fire) /\ Len(q) <= MaxTimers
    /\ \A k, m \in 1..Len(q) : q[k].owner = q[m].owner => k = m
    /\ \A k \in 1..Len(q) : \E i \in inUse : owner[i] = q[k].owner

\* Only the slots in use have an owner, and no owner has two; the null timer
\* keeps its slot and its period.
OwnersValid ==
    /\ owner \in [Slots -> Owners \cup {NullTimer}]
    /\ owner[0] = NullTimer /\ tperiod[0] = NullInterval
    /\ \A i \in Slots \ inUse : owner[i] = NullTimer
    /\ \A i \in inUse \ {0} :
         owner[i] # NullTimer /\ \A j \in inUse \ {i} : owner[j] # owner[i]

\* Recording what fired keeps the list valid, a full one included.
LEMMA RecordKeepsValid ==
    ASSUME IInv, OwnersValid, FiresValid(fired), NEW due \in SUBSET inUse
    PROVE  FiresValid(RecordFired(due))
<1> DEFINE waiting == {fired[k].owner : k \in DOMAIN fired}
           S       == {i \in due : owner[i] # NullTimer /\ owner[i] \notin waiting}
           fresh   == Upwards(S)
           counted == [k \in DOMAIN fired |->
                         IF \E i \in due : owner[i] = fired[k].owner
                         THEN [fired[k] EXCEPT !.count = @ + 1] ELSE fired[k]]
           tail    == [k \in DOMAIN fresh |-> [owner |-> owner[fresh[k]], count |-> 1]]
           all     == counted \o tail
           n       == IF Len(all) <= MaxTimers THEN Len(all) ELSE MaxTimers
<1> SUFFICES FiresValid(SubSeq(all, 1, n))
  BY Zenon DEF RecordFired
<1>1. fired \in Seq(Fire) /\ Len(fired) \in Nat /\ DOMAIN fired = 1..Len(fired)
  BY DEF FiresValid
<1>2. S \in SUBSET Nat /\ IsFiniteSet(S) /\ S \in SUBSET inUse /\ inUse \in SUBSET Slots
  <2>1. inUse \in SUBSET Slots /\ S \in SUBSET inUse
    BY DEF IInv, TypeOK
  <2>2. Slots \in SUBSET Nat /\ IsFiniteSet(Slots)
    BY PcSystemAssumption, FS_Interval DEF Slots
  <2> HIDE DEF S
  <2> QED
    BY Zenon, <2>1, <2>2, FS_Subset
<1>3. /\ \A i \in S : owner[i] \in Owners /\ owner[i] \notin waiting
      /\ \A i, j \in S : owner[i] = owner[j] => i = j
  <2>1. \A i \in S : owner[i] \in Owners /\ owner[i] \notin waiting /\ i \in inUse \ {0}
    BY <1>2 DEF OwnersValid
  <2> HIDE DEF S, waiting
  <2> QED
    BY <2>1 DEF OwnersValid
<1>4. /\ fresh \in Seq(S) /\ Len(fresh) \in Nat /\ DOMAIN fresh = 1..Len(fresh)
      /\ \A k \in 1..Len(fresh) : fresh[k] \in S
      /\ \A i, j \in 1..Len(fresh) : fresh[i] = fresh[j] => i = j
  <2> HIDE DEF S
  <2>1. fresh \in Seq(S) /\ \A i, j \in 1..Len(fresh) : fresh[i] = fresh[j] => i = j
    BY <1>2, UpwardsOrder
  <2> HIDE DEF fresh
  <2> QED
    BY <2>1
<1>5. /\ counted \in Seq(Fire) /\ Len(counted) = Len(fired)
      /\ \A k \in 1..Len(fired) : counted[k].owner = fired[k].owner
  <2>1. ASSUME NEW k \in 1..Len(fired)
        PROVE  counted[k] \in Fire /\ counted[k].owner = fired[k].owner
    <3>1. fired[k] \in Fire
      BY <1>1
    <3>2. [fired[k] EXCEPT !.count = @ + 1] \in Fire
      BY <3>1 DEF Fire
    <3>3. [fired[k] EXCEPT !.count = @ + 1].owner = fired[k].owner
      BY <3>1 DEF Fire
    <3> QED
      BY <1>1, <3>1, <3>2, <3>3
  <2>2. counted \in [1..Len(fired) -> Fire]
    BY <1>1, <2>1
  <2> HIDE DEF counted
  <2> QED
    BY <1>1, <2>1, <2>2
<1>6. /\ tail \in Seq(Fire) /\ Len(tail) = Len(fresh)
      /\ \A k \in 1..Len(fresh) : tail[k].owner = owner[fresh[k]]
  <2>1. ASSUME NEW k \in 1..Len(fresh)
        PROVE  tail[k] \in Fire /\ tail[k].owner = owner[fresh[k]]
    BY <1>3, <1>4 DEF Fire
  <2>2. tail \in [1..Len(fresh) -> Fire]
    BY Zenon, <1>4, <2>1
  <2> HIDE DEF tail, fresh
  <2> QED
    BY <1>4, <2>1, <2>2
<1>7. \A k \in 1..Len(fired) : fired[k].owner \in waiting
  BY <1>1
<1> HIDE DEF waiting, S, fresh, counted, tail
<1>8. /\ all \in Seq(Fire) /\ Len(all) = Len(fired) + Len(fresh)
      /\ \A k \in 1..(Len(fired) + Len(fresh)) :
           all[k] = IF k <= Len(fired) THEN counted[k] ELSE tail[k - Len(fired)]
  <2>1. counted \in Seq(Fire) /\ tail \in Seq(Fire)
    BY <1>5, <1>6
  <2>2. /\ all \in Seq(Fire) /\ Len(all) = Len(counted) + Len(tail)
        /\ \A k \in 1..(Len(counted) + Len(tail)) :
             all[k] = IF k <= Len(counted) THEN counted[k] ELSE tail[k - Len(counted)]
    BY <2>1, ConcatProperties
  <2> HIDE DEF all
  <2> QED
    BY Zenon, <1>5, <1>6, <2>2
<1> HIDE DEF all
<1>9. /\ \A k \in 1..Len(fired) : all[k].owner = fired[k].owner
      /\ \A k \in (Len(fired) + 1)..Len(all) :
           /\ k - Len(fired) \in 1..Len(fresh)
           /\ all[k].owner = owner[fresh[k - Len(fired)]]
  <2>1. ASSUME NEW k \in 1..Len(fired) PROVE all[k].owner = fired[k].owner
    BY <1>1, <1>4, <1>5, <1>8
  <2>2. ASSUME NEW k \in (Len(fired) + 1)..Len(all)
        PROVE  /\ k - Len(fired) \in 1..Len(fresh)
               /\ all[k].owner = owner[fresh[k - Len(fired)]]
    <3>1. k - Len(fired) \in 1..Len(fresh) /\ k \in 1..(Len(fired) + Len(fresh))
          /\ ~(k <= Len(fired))
      BY <1>1, <1>4, <1>8
    <3>2. all[k] = tail[k - Len(fired)]
      BY <1>8, <3>1
    <3> QED
      BY <1>6, <3>1, <3>2
  <2> QED
    BY <2>1, <2>2
<1>10. ASSUME NEW k \in 1..Len(all) PROVE \E i \in inUse : owner[i] = all[k].owner
  <2>1. CASE k <= Len(fired)
    <3>1. k \in 1..Len(fired)
      BY <1>1, <2>1
    <3> QED
      BY <1>9, <3>1 DEF FiresValid
  <2>2. CASE ~(k <= Len(fired))
    <3>1. k \in (Len(fired) + 1)..Len(all)
      BY <1>1, <1>4, <1>8, <2>2
    <3>2. fresh[k - Len(fired)] \in inUse
      BY Zenon, <1>2, <1>4, <1>9, <3>1
    <3> QED
      BY <1>9, <3>1, <3>2
  <2> QED
    BY <2>1, <2>2
<1>11. ASSUME NEW k \in 1..Len(all), NEW m \in 1..Len(all), all[k].owner = all[m].owner
       PROVE  k = m
  <2>0. Len(all) \in Nat
    BY <1>1, <1>4, <1>8
  <2>1. CASE k <= Len(fired) /\ m <= Len(fired)
    <3>1. k \in 1..Len(fired) /\ m \in 1..Len(fired)
      BY <1>1, <2>1
    <3> QED
      BY <1>9, <1>11, <3>1 DEF FiresValid
  <2>2. ASSUME NEW i \in 1..Len(all), NEW j \in 1..Len(all),
               i <= Len(fired), ~(j <= Len(fired))
        PROVE  all[i].owner # all[j].owner
    <3>1. i \in 1..Len(fired) /\ j \in (Len(fired) + 1)..Len(all)
      BY <1>1, <2>0, <2>2
    <3>2. all[i].owner \in waiting
      BY <1>7, <1>9, <3>1
    <3>3. all[j].owner \notin waiting
      BY <1>3, <1>4, <1>9, <3>1
    <3> QED
      BY <3>2, <3>3
  <2>3. CASE ~(k <= Len(fired)) /\ ~(m <= Len(fired))
    <3>1. k \in (Len(fired) + 1)..Len(all) /\ m \in (Len(fired) + 1)..Len(all)
      BY <1>1, <2>0, <2>3
    <3> DEFINE x == k - Len(fired)
               y == m - Len(fired)
    <3>2. /\ x \in 1..Len(fresh) /\ y \in 1..Len(fresh)
          /\ owner[fresh[x]] = owner[fresh[y]]
      BY <1>9, <1>11, <3>1
    <3>3. x = y => k = m
      BY <1>1, <2>0
    <3> HIDE DEF x, y
    <3>4. fresh[x] = fresh[y]
      BY <1>3, <1>4, <3>2
    <3> QED
      BY <1>4, <3>2, <3>3, <3>4
  <2> QED
    BY <1>11, <2>1, <2>2, <2>3
<1>12. n \in Nat /\ n <= Len(all) /\ n <= MaxTimers
  BY <1>1, <1>4, <1>8, PcSystemAssumption
<1> HIDE DEF n
<1>13. /\ SubSeq(all, 1, n) \in Seq(Fire) /\ Len(SubSeq(all, 1, n)) = n
       /\ \A i \in 1..n : SubSeq(all, 1, n)[i] = all[i]
  <2>1. \A i \in 1..n : i \in 1..Len(all) /\ all[i] \in Fire
    BY <1>1, <1>4, <1>8, <1>12
  <2>2. /\ SubSeq(all, 1, n) \in Seq(Fire)
        /\ Len(SubSeq(all, 1, n)) = IF 1 <= n THEN n - 1 + 1 ELSE 0
        /\ \A i \in 1..(n - 1 + 1) : SubSeq(all, 1, n)[i] = all[1 + i - 1]
    BY <1>12, <2>1, SubSeqProperties, 1 \in Int, n \in Int
  <2> QED
    BY <1>12, <2>2
<1> DEFINE q == SubSeq(all, 1, n)
<1>14. \A i \in 1..n : i \in 1..Len(all)
  BY <1>1, <1>4, <1>8, <1>12
<1>15. q \in Seq(Fire) /\ Len(q) = n /\ \A i \in 1..n : q[i] = all[i]
  BY <1>13
<1> SUFFICES FiresValid(q)
  OBVIOUS
<1> HIDE DEF q
<1> QED
  BY <1>10, <1>11, <1>12, <1>14, <1>15 DEF FiresValid

\* A step that leaves the owners, the list and the null timer alone.
LEMMA Undisturbed ==
    ASSUME OwnersValid, FiresValid(fired), UNCHANGED <<inUse, owner, fired>>,
           tperiod'[0] = tperiod[0]
    PROVE  OwnersValid' /\ FiresValid(fired)'
  BY DEF OwnersValid, FiresValid

\* Every owner registers once, so that the machine's own calls keep both valid.
LEMMA MachineKeepsValid ==
    ASSUME IInv, OwnersValid, FiresValid(fired), MachineNext
    PROVE  OwnersValid' /\ FiresValid(fired)'
<1> USE PcSystemAssumption
<1>0. inUse \subseteq Slots /\ 0 \in inUse /\ active \subseteq inUse /\ tperiod \in [Slots -> Nat]
  BY DEF IInv, TypeOK, WheelInv
<1>1. ASSUME NEW o \in Owners \ {owner[i] : i \in Slots}, NEW p \in Delays,
             NEW r \in BOOLEAN, NEW a \in BOOLEAN, RegisterTimer(o, p, r, a)
      PROVE  OwnersValid' /\ FiresValid(fired)'
  <2>1. PICK i \in Slots \ inUse :
          /\ inUse' = inUse \cup {i}
          /\ tperiod' = [tperiod EXCEPT ![i] = AtLeastOne(p)]
          /\ owner' = [owner EXCEPT ![i] = o]
          /\ fired' = fired
    BY Zenon, <1>1 DEF RegisterTimer
  <2>2. i # 0 /\ o # NullTimer /\ \A j \in Slots : owner[j] # o
    BY <1>0, <1>1
  <2>3. owner'[i] = o /\ \A j \in Slots \ {i} : owner'[j] = owner[j]
    BY <2>1 DEF OwnersValid
  <2>4. OwnersValid'
    <3>1. owner' \in [Slots -> Owners \cup {NullTimer}]
      BY <2>1 DEF OwnersValid
    <3>2. owner'[0] = NullTimer /\ tperiod'[0] = NullInterval
      BY <1>0, <2>1, <2>2, <2>3 DEF OwnersValid
    <3>3. \A j \in Slots \ inUse' : owner'[j] = NullTimer
      BY <2>1, <2>3 DEF OwnersValid
    <3>4. ASSUME NEW j \in inUse' \ {0}, NEW k \in inUse' \ {j}
          PROVE  owner'[k] # owner'[j]
      BY <1>0, <2>1, <2>2, <2>3, <3>4 DEF OwnersValid
    <3>5. ASSUME NEW j \in inUse' \ {0}
          PROVE  owner'[j] # NullTimer
      BY <1>0, <2>1, <2>2, <2>3, <3>5 DEF OwnersValid
    <3> QED
      BY <3>1, <3>2, <3>3, <3>4, <3>5 DEF OwnersValid, Slots
  <2>5. FiresValid(fired)'
    <3>1. ASSUME NEW k \in 1..Len(fired) PROVE \E j \in inUse' : owner'[j] = fired[k].owner
      <4>1. PICK j \in inUse : owner[j] = fired[k].owner
        BY DEF FiresValid
      <4> QED
        BY <1>0, <2>1, <2>3, <4>1
    <3> QED
      BY <2>1, <3>1 DEF FiresValid, Fire
  <2> QED
    BY <2>4, <2>5
<1>2. ASSUME NEW i \in Slots, IsHandle(i), NEW q, tperiod' = [tperiod EXCEPT ![i] = q],
             UNCHANGED <<inUse, owner, fired>>
      PROVE  OwnersValid' /\ FiresValid(fired)'
  <2>1. tperiod'[0] = tperiod[0]
    BY <1>0, <1>2 DEF IsHandle
  <2> QED
    BY <1>2, <2>1, Undisturbed
<1>3. ASSUME NEW i \in Slots, NEW p, NEW r, ActivateTimer(i, p, r)
      PROVE  OwnersValid' /\ FiresValid(fired)'
  BY Zenon, <1>2, <1>3 DEF ActivateTimer
<1>4. CASE CountdownEvent
  <2> DEFINE due == {i \in active : i < numTimers /\ timeToFire[i] <= ticksTotal + countdownPeriod}
  <2>1. fired' = RecordFired(due) /\ UNCHANGED <<inUse, owner, tperiod>>
    BY <1>4 DEF CountdownEvent
  <2>2. due \in SUBSET inUse
    BY <1>0
  <2> HIDE DEF due
  <2>3. FiresValid(RecordFired(due))
    BY <2>2, RecordKeepsValid
  <2> QED
    BY <2>1, <2>3 DEF OwnersValid, FiresValid
<1>5. CASE TakeFiredTimers \/ Reset
  <2>1. fired' = <<>> /\ UNCHANGED <<inUse, owner, tperiod>>
    BY <1>5 DEF TakeFiredTimers, Reset, slots
  <2> QED
    BY <2>1 DEF OwnersValid, FiresValid
<1>6. CASE \E i \in Slots, d \in Deadlines, r \in BOOLEAN : ActivateTimerAtTicks(i, d, r)
  BY <1>6, Undisturbed DEF ActivateTimerAtTicks
<1>7. CASE \E i \in Slots, d \in Deadlines, p \in Delays, r \in BOOLEAN :
             ActivateTimerAtTicksWithPeriod(i, d, p, r)
  BY Zenon, <1>2, <1>7 DEF ActivateTimerAtTicksWithPeriod
<1>8. CASE \E i \in Slots, p \in Delays, r \in BOOLEAN : ActivateTimerUsec(i, p, r)
  BY Zenon, <1>3, <1>8 DEF ActivateTimerUsec
<1>9. CASE \E i \in Slots, p \in Delays : ReactivateTimerRelative(i, p)
  BY Zenon, <1>2, <1>9 DEF ReactivateTimerRelative
<1>10. CASE (\E i \in Slots : DeactivateTimer(i)) \/ (\E n \in Steps : Tickn(n)) \/ TicknRest
  <2>1. UNCHANGED <<inUse, owner, fired, tperiod>>
    BY <1>10 DEF DeactivateTimer, Tickn, TicknRest, slots
  <2> QED
    BY <2>1, Undisturbed
<1>11. CASE \E i \in Slots, p \in Delays, r \in BOOLEAN : ActivateTimer(i, p, r)
  BY <1>3, <1>11
<1> QED
  BY <1>1, <1>4, <1>5, <1>6, <1>7, <1>8, <1>9, <1>10, <1>11 DEF MachineNext

\* Every state of a machine that has unregistered no timer is one that the
\* snapshot's validator accepts.
THEOREM AlwaysSaved == MCSpec => []SnapshotAccepted
<1> DEFINE SInv == IInv /\ (~unregistered => OwnersValid /\ FiresValid(fired))
<1>1. MCInit => SInv
  <2> SUFFICES ASSUME MCInit PROVE SInv
    OBVIOUS
  <2>1. OwnersValid
    BY PcSystemAssumption DEF MCInit, Init, OwnersValid, Slots
  <2>2. FiresValid(<<>>)
    BY PcSystemAssumption DEF FiresValid
  <2>3. Init /\ fired = <<>>
    BY DEF MCInit, Init
  <2> QED
    BY <2>1, <2>2, <2>3, InitEstablishes
<1>2. SInv /\ [MCNext]_<<vars, unregistered>> => SInv'
  <2> SUFFICES ASSUME SInv, [MCNext]_<<vars, unregistered>> PROVE SInv'
    OBVIOUS
  <2>1. [Next]_vars
    BY Zenon DEF MCNext, Next
  <2>2. IInv'
    BY <2>1, NextPreserves
  <2>3. CASE MachineNext /\ UNCHANGED unregistered
    BY <2>2, <2>3, MachineKeepsValid
  <2>4. CASE unregistered'
    BY <2>2, <2>4
  <2>5. CASE UNCHANGED <<vars, unregistered>>
    <3>1. UNCHANGED <<inUse, owner, fired, tperiod>>
      BY <2>5 DEF vars
    <3> QED
      BY <2>2, <2>5, <3>1, Undisturbed
  <2> QED
    BY <2>3, <2>4, <2>5 DEF MCNext
<1>3. SInv => SnapshotAccepted
  <2> SUFFICES ASSUME IInv, OwnersValid, FiresValid(fired) PROVE SnapshotValid
    BY DEF SnapshotAccepted
  <2>1. /\ countdown >= 1 /\ countdown <= countdownPeriod
        /\ {0} \subseteq active \cap continuous
        /\ \A i \in Slots : i >= numTimers => i \notin inUse
    BY DEF IInv, WheelInv, TypeOK, Slots
  <2>2. \A i \in Slots : i \notin inUse =>
          i \notin active /\ i \notin continuous /\ owner[i] = NullTimer
    BY DEF OwnersValid, IInv, TypeOK
  <2>3. \A i \in inUse \ {0} :
          /\ owner[i] # NullTimer /\ tperiod[i] >= 1
          /\ \A j \in inUse : j < i => owner[j] # owner[i]
    <3>1. ASSUME NEW i \in inUse \ {0}, NEW j \in inUse, j < i PROVE owner[j] # owner[i]
      <4>1. i \in Nat /\ j \in Nat
        BY PcSystemAssumption DEF IInv, TypeOK, Slots
      <4>2. j # i
        BY <3>1, <4>1
      <4> QED
        BY <4>2 DEF OwnersValid
    <3> QED
      BY <3>1 DEF OwnersValid, IInv, WheelInv
  <2>4. \A i \in active : /\ timeToFire[i] > Now
                          /\ timeToFire[i] >= ticksTotal + countdownPeriod
    <3>1. ASSUME NEW i \in active
          PROVE  timeToFire[i] > Now /\ timeToFire[i] >= ticksTotal + countdownPeriod
      <4>1. timeToFire[i] >= ticksTotal + countdownPeriod /\ timeToFire[i] \in Nat
        BY DEF IInv, TypeOK, WheelInv
      <4>2. /\ ticksTotal \in Nat /\ countdownPeriod \in Nat /\ countdown \in Nat
            /\ countdown >= 1
        BY DEF IInv, TypeOK, WheelInv
      <4> QED
        BY <4>1, <4>2 DEF Now
    <3> QED
      BY <3>1
  <2>5. \A k \in DOMAIN fired :
          /\ fired[k].owner # NullTimer /\ fired[k].count > 0
          /\ \A m \in 1..(k - 1) : fired[m].owner # fired[k].owner
          /\ \E i \in inUse : owner[i] = fired[k].owner
    <3> SUFFICES ASSUME NEW k \in DOMAIN fired
                 PROVE  /\ fired[k].owner # NullTimer /\ fired[k].count > 0
                        /\ \A m \in 1..(k - 1) : fired[m].owner # fired[k].owner
                        /\ \E i \in inUse : owner[i] = fired[k].owner
      OBVIOUS
    <3>1. k \in 1..Len(fired) /\ Len(fired) \in Nat /\ fired[k] \in Fire
      BY DEF FiresValid
    <3>2. fired[k].owner # NullTimer /\ fired[k].count > 0
      BY <3>1, PcSystemAssumption DEF Fire
    <3>3. \A m \in 1..(k - 1) : m \in 1..Len(fired) /\ m # k
      BY <3>1
    <3> QED
      BY <3>1, <3>2, <3>3 DEF FiresValid
  <2> QED
    BY <2>1, <2>2, <2>3, <2>4, <2>5 DEF SnapshotValid, OwnersValid, FiresValid
<1> HIDE DEF SInv
<1> QED
  BY <1>1, <1>2, <1>3, PTL DEF MCSpec
=============================================================================
