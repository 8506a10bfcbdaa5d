------------------------------ MODULE PcSystem ------------------------------
(***************************************************************************)
(* The machine's timer wheel: BxPcSystemC in rusty_box/src/pc_system.rs.   *)
(*                                                                         *)
(* One countdown drives every timer.  `countdown' is the number of ticks   *)
(* left before the wheel must look at its timers again, `countdownPeriod'  *)
(* what the countdown started from, and `ticksTotal' the tick at which it  *)
(* was started, so the current tick is ticksTotal plus what has elapsed of *)
(* the period (time_ticks).  Slot 0 holds the null timer, which is always  *)
(* armed and bounds the countdown by NullInterval.  A flag word of the     *)
(* code is membership in the sets inUse, active and continuous.            *)
(*                                                                         *)
(* tickn is a loop around countdown_event.  Its local variable `remaining' *)
(* is a variable here and each turn of the loop a step; no other operation *)
(* can happen before the loop ends, as the wheel is borrowed mutably.      *)
(***************************************************************************)
EXTENDS Integers, Sequences, FiniteSets, ScanOrder

CONSTANTS
    MaxTimers,    \* BX_MAX_TIMERS, the null timer included
    NullInterval, \* NULL_TIMER_INTERVAL, the longest countdown
    U64Max,       \* u64::MAX, past which a deadline is refused
    Owners,       \* the device owners of timers (TimerOwner without NullTimer)
    NullTimer,    \* TimerOwner::NullTimer
    Delays,       \* the relative delays and periods callers ask for, in ticks
    Deadlines,    \* the absolute deadlines callers ask for
    Steps,        \* the arguments of tickn
    MaxTime       \* bound of the model: the last tick the clock may reach

ASSUME PcSystemAssumption ==
    /\ MaxTimers \in Nat /\ MaxTimers >= 2
    /\ NullInterval \in Nat /\ NullInterval >= 1
    /\ U64Max \in Nat /\ U64Max >= NullInterval
    /\ NullTimer \notin Owners
    /\ Delays \subseteq Nat /\ Deadlines \subseteq Nat /\ Steps \subseteq Nat
    /\ MaxTime \in Nat

VARIABLES
    ticksTotal, countdownPeriod, countdown,     \* the clock
    numTimers,                                  \* one past the highest slot used
    inUse, active, continuous,                  \* TimerFlags, as sets of slots
    tperiod, timeToFire, owner,                 \* the fields of Timer
    fired,                                      \* fired_owners with their counts
    remaining                                   \* ticks tickn still has to spend

clock == <<ticksTotal, countdownPeriod, countdown>>
slots == <<numTimers, inUse, active, continuous, tperiod, timeToFire, owner>>
vars  == <<ticksTotal, countdownPeriod, countdown, numTimers, inUse, active,
           continuous, tperiod, timeToFire, owner, fired, remaining>>

Slots == 0..(MaxTimers - 1)
AtLeastOne(n) == IF n = 0 THEN 1 ELSE n

\* time_ticks: the tick the machine is at.
Now == ticksTotal + (countdownPeriod - countdown)

\* Types of the clock and of the slots.  SnapshotAccepted is about the rest: the
\* owners and the list of the fired.
TypeOK ==
    /\ ticksTotal \in Nat
    /\ countdownPeriod \in Nat
    /\ countdown \in Nat
    /\ numTimers \in 1..MaxTimers
    /\ inUse \subseteq Slots /\ active \subseteq inUse /\ continuous \subseteq inUse
    /\ tperiod \in [Slots -> Nat] /\ timeToFire \in [Slots -> Nat]
    /\ remaining \in Nat

\* new followed by initialize: only the null timer exists.
Init ==
    /\ ticksTotal = 0
    /\ countdownPeriod = NullInterval /\ countdown = NullInterval
    /\ numTimers = 1
    /\ inUse = {0} /\ active = {0} /\ continuous = {0}
    /\ tperiod = [i \in Slots |-> IF i = 0 THEN NullInterval ELSE 0]
    /\ timeToFire = [i \in Slots |-> IF i = 0 THEN NullInterval ELSE 0]
    /\ owner = [i \in Slots |-> NullTimer]
    /\ fired = <<>>
    /\ remaining = 0

-----------------------------------------------------------------------------
(* Arming and disarming. *)

Idle == remaining = 0

\* validate_timer_index
IsHandle(i) == i # 0 /\ i \in inUse

\* A slip in shorten_countdown_to: the elapsed part of the period is dropped.
ForgetElapsed(deadline) ==
    LET left == deadline - Now IN
    IF left > 0 /\ left < countdown
    THEN countdown' = left /\ countdownPeriod' = left
    ELSE UNCHANGED <<countdown, countdownPeriod>>

\* shorten_countdown_to: bring the next look at the timers forward to the
\* deadline, without moving the current tick.
ShortenCountdownTo(deadline) ==
    LET left == deadline - Now IN
    IF left > 0 /\ left < countdown
    THEN /\ countdown' = left
         /\ countdownPeriod' = (countdownPeriod - countdown) + left
    ELSE UNCHANGED <<countdown, countdownPeriod>>

\* A slip in activate_timer_at_ticks: the countdown is left as it was.
ArmWithoutShortening(i, deadline, repeats) ==
    LET due == IF deadline <= Now THEN Now + 1 ELSE deadline IN
    /\ timeToFire' = [timeToFire EXCEPT ![i] = due]
    /\ active' = active \cup {i}
    /\ continuous' = IF repeats THEN continuous \cup {i} ELSE continuous \ {i}
    /\ UNCHANGED <<countdown, countdownPeriod>>

\* activate_timer_at_ticks past its validation: a deadline that is already due
\* becomes the next tick.
ArmAt(i, deadline, repeats) ==
    LET due == IF deadline <= Now THEN Now + 1 ELSE deadline IN
    /\ timeToFire' = [timeToFire EXCEPT ![i] = due]
    /\ active' = active \cup {i}
    /\ continuous' = IF repeats THEN continuous \cup {i} ELSE continuous \ {i}
    /\ ShortenCountdownTo(due)

\* register_timer: the first free slot takes the owner.
RegisterTimer(o, period, repeats, armed) ==
    /\ Idle
    /\ Now + AtLeastOne(period) <= U64Max
    /\ \E i \in Slots \ inUse :
         /\ \A j \in Slots \ inUse : i <= j
         /\ inUse' = inUse \cup {i}
         /\ tperiod' = [tperiod EXCEPT ![i] = AtLeastOne(period)]
         /\ owner' = [owner EXCEPT ![i] = o]
         /\ numTimers' = IF i >= numTimers THEN i + 1 ELSE numTimers
         /\ IF armed
            THEN ArmAt(i, Now + AtLeastOne(period), repeats)
            ELSE /\ timeToFire' = [timeToFire EXCEPT ![i] = Now + AtLeastOne(period)]
                 /\ continuous' = IF repeats THEN continuous \cup {i} ELSE continuous \ {i}
                 /\ UNCHANGED <<active, countdown, countdownPeriod>>
    /\ UNCHANGED <<ticksTotal, fired, remaining>>

\* activate_timer_at_ticks: an absolute deadline, the repeat period kept.
ActivateTimerAtTicks(i, deadline, repeats) ==
    /\ Idle /\ IsHandle(i)
    /\ ArmAt(i, deadline, repeats)
    /\ UNCHANGED <<ticksTotal, numTimers, inUse, tperiod, owner, fired, remaining>>

\* activate_timer_at_ticks_with_period
ActivateTimerAtTicksWithPeriod(i, deadline, period, repeats) ==
    /\ Idle /\ IsHandle(i)
    /\ tperiod' = [tperiod EXCEPT ![i] = AtLeastOne(period)]
    /\ ArmAt(i, deadline, repeats)
    /\ UNCHANGED <<ticksTotal, numTimers, inUse, owner, fired, remaining>>

\* activate_timer, and activate_timer_usec and activate_timer_nsec once their
\* argument is in ticks.
ActivateTimer(i, period, repeats) ==
    LET p == AtLeastOne(period) IN
    /\ Idle /\ IsHandle(i)
    /\ Now + p <= U64Max
    /\ tperiod' = [tperiod EXCEPT ![i] = p]
    /\ ArmAt(i, Now + p, repeats)
    /\ UNCHANGED <<ticksTotal, numTimers, inUse, owner, fired, remaining>>

\* activate_timer_usec and activate_timer_nsec: zero asks for the period the
\* timer already has.
ActivateTimerUsec(i, delay, repeats) ==
    /\ IsHandle(i)
    /\ ActivateTimer(i, IF delay = 0 THEN tperiod[i] ELSE delay, repeats)

\* reactivate_timer_relative: one period after the previous deadline.
ReactivateTimerRelative(i, period) ==
    LET p == AtLeastOne(period) IN
    /\ Idle /\ IsHandle(i)
    /\ timeToFire[i] + p <= U64Max
    /\ tperiod' = [tperiod EXCEPT ![i] = p]
    /\ ArmAt(i, timeToFire[i] + p, FALSE)
    /\ UNCHANGED <<ticksTotal, numTimers, inUse, owner, fired, remaining>>

\* deactivate_timer: the countdown stays where it is.
DeactivateTimer(i) ==
    /\ Idle /\ IsHandle(i)
    /\ active' = active \ {i}
    /\ UNCHANGED <<ticksTotal, countdownPeriod, countdown, numTimers, inUse,
                   continuous, tperiod, timeToFire, owner, fired, remaining>>

\* unregister_timer: refused while the timer is armed.
UnregisterTimer(i) ==
    /\ Idle /\ IsHandle(i) /\ i \notin active
    /\ inUse' = inUse \ {i}
    /\ continuous' = continuous \ {i}
    /\ tperiod' = [tperiod EXCEPT ![i] = U64Max]
    /\ timeToFire' = [timeToFire EXCEPT ![i] = U64Max]
    /\ owner' = [owner EXCEPT ![i] = NullTimer]
    /\ numTimers' = IF i = numTimers - 1 THEN numTimers - 1 ELSE numTimers
    /\ UNCHANGED <<ticksTotal, countdownPeriod, countdown, active, fired, remaining>>

-----------------------------------------------------------------------------
(* Time. *)

\* A slip in countdown_event: a repeating timer restarts from the current tick
\* one tick early.
RestartEarly(due, period, t) == t + period - 1

\* The while loop of countdown_event: the first deadline after tick t that keeps
\* the phase of a repeating timer.
AdvancePast(due, period, t) == due + ((t - due) \div period + 1) * period

\* Bug: an owner already waiting is recorded a second time.
RecordFiredAgain(due) ==
    LET fresh == Upwards({i \in due : owner[i] # NullTimer})
        all   == fired \o [k \in DOMAIN fresh |->
                             [owner |-> owner[fresh[k]], count |-> 1]]
    IN  SubSeq(all, 1, IF Len(all) <= MaxTimers THEN Len(all) ELSE MaxTimers)

\* record_fired_owner, for every slot of `due' in slot order.  An owner already
\* waiting is counted once more; a full buffer drops the owner.
RecordFired(due) ==
    LET waiting == {fired[k].owner : k \in DOMAIN fired}
        fresh   == Upwards({i \in due : owner[i] # NullTimer /\ owner[i] \notin waiting})
        counted == [k \in DOMAIN fired |->
                      IF \E i \in due : owner[i] = fired[k].owner
                      THEN [fired[k] EXCEPT !.count = @ + 1] ELSE fired[k]]
        all     == counted \o [k \in DOMAIN fresh |->
                                 [owner |-> owner[fresh[k]], count |-> 1]]
    IN  SubSeq(all, 1, IF Len(all) <= MaxTimers THEN Len(all) ELSE MaxTimers)

\* The next countdown: up to the earliest armed deadline, never zero and never
\* past the horizon of the null timer.
IsNextPeriod(p, t, armed, deadline) ==
    /\ \A i \in armed : p <= AtLeastOne(deadline[i] - t)
    /\ p = NullInterval \/ \E i \in armed : p = AtLeastOne(deadline[i] - t)

\* One turn of the loop in tickn: the countdown is spent and countdown_event
\* fires what is due, reloads the repeating timers and starts a new countdown.
CountdownEvent ==
    LET t   == ticksTotal + countdownPeriod
        due == {i \in active : i < numTimers /\ timeToFire[i] <= t}
    IN  /\ ~ Idle /\ remaining >= countdown
        /\ remaining' = remaining - countdown
        /\ ticksTotal' = t
        /\ active' = active \ (due \ continuous)
        /\ timeToFire' = [i \in Slots |->
                            IF i \in due \cap continuous
                            THEN AdvancePast(timeToFire[i], tperiod[i], t)
                            ELSE timeToFire[i]]
        /\ \E p \in 1..NullInterval :
             /\ IsNextPeriod(p, t, {i \in active' : i < numTimers}, timeToFire')
             /\ countdown' = p /\ countdownPeriod' = p
        /\ fired' = RecordFired(due)
        /\ UNCHANGED <<numTimers, inUse, continuous, tperiod, owner>>

\* tickn is called.
Tickn(n) ==
    /\ Idle /\ n > 0 /\ Now + n <= MaxTime
    /\ remaining' = n
    /\ UNCHANGED <<clock, slots, fired>>

\* The end of tickn: less than a countdown is left to spend.
TicknRest ==
    /\ ~ Idle /\ remaining < countdown
    /\ countdown' = countdown - remaining
    /\ remaining' = 0
    /\ UNCHANGED <<ticksTotal, countdownPeriod, slots, fired>>

\* take_fired_timers
TakeFiredTimers ==
    /\ Idle /\ fired # <<>>
    /\ fired' = <<>>
    /\ UNCHANGED <<clock, slots, remaining>>

\* reset: fires not yet dispatched are discarded, the timers keep running.
Reset ==
    /\ Idle
    /\ fired' = <<>>
    /\ UNCHANGED <<clock, slots, remaining>>

\* What the machine does with the wheel: every owner registers once.
MachineNext ==
    \/ \E o \in Owners \ {owner[i] : i \in Slots}, p \in Delays, r, a \in BOOLEAN :
         RegisterTimer(o, p, r, a)
    \/ \E i \in Slots, d \in Deadlines, r \in BOOLEAN : ActivateTimerAtTicks(i, d, r)
    \/ \E i \in Slots, d \in Deadlines, p \in Delays, r \in BOOLEAN :
         ActivateTimerAtTicksWithPeriod(i, d, p, r)
    \/ \E i \in Slots, p \in Delays, r \in BOOLEAN : ActivateTimer(i, p, r)
    \/ \E i \in Slots, p \in Delays, r \in BOOLEAN : ActivateTimerUsec(i, p, r)
    \/ \E i \in Slots, p \in Delays : ReactivateTimerRelative(i, p)
    \/ \E i \in Slots : DeactivateTimer(i)
    \/ \E n \in Steps : Tickn(n)
    \/ CountdownEvent
    \/ TicknRest
    \/ TakeFiredTimers
    \/ Reset

\* The whole interface: unregister_timer too, which no part of the machine calls.
Next ==
    \/ MachineNext
    \/ \E i \in Slots : UnregisterTimer(i)

Spec == Init /\ [][Next]_vars

-----------------------------------------------------------------------------
(* Properties. *)

\* The countdown never overshoots an armed deadline (the comment "The countdown
\* never overshoots the earliest active deadline" of the snapshot validator):
\* whatever is armed, re-armed or disarmed and in whatever order, the next
\* countdown_event comes no later than the earliest armed timer, every armed
\* timer is inside the range countdown_event scans, and the countdown is never
\* zero when a caller sees it.
WheelInv ==
    /\ countdown \in 1..countdownPeriod
    /\ {0} \subseteq active \cap continuous
    /\ inUse \subseteq 0..(numTimers - 1)
    /\ \A i \in inUse : tperiod[i] >= 1
    /\ \A i \in active : timeToFire[i] >= ticksTotal + countdownPeriod

\* A timer fires at its deadline and at no other tick, and a repeating timer
\* loses no period: the ">=" of countdown_event ("to catch overdue timers") and
\* the reload loop behave as Bochs' "==" and a single addition.
FiresOnDeadline ==
    [][CountdownEvent =>
         \A i \in active : timeToFire[i] <= ticksTotal' =>
            /\ ticksTotal' = timeToFire[i]
            /\ i \in active' => timeToFire'[i] = timeToFire[i] + tperiod[i]
            /\ i \in active' <=> i \in continuous]_vars

\* Time is spent by tickn and by nothing else: inside a call the ticks spent and
\* the ticks left always add up to its argument, and arming, disarming or
\* registering a timer (which rewrites the countdown and its period) never
\* moves the clock.
TicksConserved ==
    [][Now' = IF Idle THEN Now ELSE Now + remaining - remaining']_vars

\* What validate_snapshot_state_fields asks of a wheel before it is saved or
\* restored.
SnapshotValid ==
    /\ countdown >= 1 /\ countdown <= countdownPeriod
    /\ Len(fired) <= MaxTimers
    /\ \A i \in Slots : i \notin inUse =>
         i \notin active /\ i \notin continuous /\ owner[i] = NullTimer
    /\ \A i \in Slots : i >= numTimers => i \notin inUse
    /\ {0} \subseteq active \cap continuous
    /\ tperiod[0] = NullInterval /\ owner[0] = NullTimer
    /\ \A i \in inUse \ {0} :
         /\ owner[i] # NullTimer /\ tperiod[i] >= 1
         /\ \A j \in inUse : j < i => owner[j] # owner[i]
    /\ \A i \in active : /\ timeToFire[i] > Now
                         /\ timeToFire[i] >= ticksTotal + countdownPeriod
    /\ \A k \in DOMAIN fired :
         /\ fired[k].owner # NullTimer /\ fired[k].count > 0
         /\ \A m \in 1..(k - 1) : fired[m].owner # fired[k].owner
         /\ \E i \in inUse : owner[i] = fired[k].owner
=============================================================================
