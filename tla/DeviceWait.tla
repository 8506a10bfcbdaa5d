----------------------------- MODULE DeviceWait -----------------------------
(***************************************************************************)
(* The device thread of a machine that runs on the hypervisor, and the     *)
(* thread that owns the machine.  The device thread services the timer     *)
(* wheel, then sleeps until the wheel's next deadline, or until a nearer   *)
(* one somebody asks for.  The owner resumes, pauses, steps and drops the  *)
(* machine, and hands it host input while the guest runs.  Every word from *)
(* the owner is a change: an edit of the shared state under its lock, then *)
(* a generation bump, a notification and a ring of the doorbell.           *)
(*                                                                         *)
(* Time is in ticks.  left is the host time a sleep or a spin still lasts; *)
(* it runs out whether or not the machine's own clock is stopped.          *)
(***************************************************************************)
EXTENDS Integers

CONSTANTS
    MaxTime,   \* bound on the machine's clock
    Margin,    \* SPIN_MARGIN
    StepSpan,  \* ticks of a step
    Hosts,     \* hosts of a run: see host
    NoDeadline

ASSUME WaitAssumption == /\ MaxTime \in Nat /\ Margin \in Nat \ {0} /\ StepSpan \in Nat
                         /\ Hosts \subseteq {"timer", "refusing", "none"}
                         /\ NoDeadline \notin Int

VARIABLES
    host,     \* has a waitable timer, has one that may refuse, has none
    wake,     \* DeviceWake: stop, run and the deadline asked for
    moved,    \* while spinning: the generation is not the one the spin loaded
    bell,     \* the platform's auto-reset event is set
    heard,    \* in the fallback's wait: the ring count is not the one it read
    dev,      \* the device thread: where it is and what its wait is for
    clock,    \* VmClockSource
    latched,  \* host input that no service has looked at
    owner     \* the owner: its verb, the change under way, what it believes

wvars == <<host, wake, moved, bell, heard, dev, clock, latched, owner>>

Times     == 0..MaxTime

Instants  == Times \cup {NoDeadline}

DeviceWake == [stop : BOOLEAN, run : BOOLEAN, asked : Instants]
Thread     == [pc : {"runnable", "blocked", "service", "compute", "unarmed", "unlocked",
                     "asleep", "fallback", "expired", "spin", "done"},
               next : Instants, target : Instants, left : Nat]
ClockState == [running : BOOLEAN, now : Times]
OwnerState == [pc : {"idle", "start", "run", "running", "target", "loop", "park", "pause",
                     "freeze", "poke", "gone"},
               change : {"none", "publish", "notify", "ring"},
               state : {"paused", "running"}, step : BOOLEAN]

WTypeOK == /\ host \in Hosts
           /\ wake \in DeviceWake /\ dev \in Thread /\ clock \in ClockState /\ owner \in OwnerState
           /\ moved \in BOOLEAN /\ bell \in BOOLEAN /\ heard \in BOOLEAN /\ latched \in BOOLEAN

\* The clock counts up to its bound and stays there.
Later(t, span) == IF t + span > MaxTime THEN MaxTime ELSE t + span

\* A paused machine, its device thread somewhere at the head of its loop.
Paused(h, at) ==
    /\ host = h
    /\ wake = [stop |-> FALSE, run |-> FALSE, asked |-> NoDeadline]
    /\ moved = FALSE /\ bell = FALSE /\ heard = FALSE /\ latched = FALSE
    /\ dev = [pc |-> at, next |-> NoDeadline, target |-> NoDeadline, left |-> 0]
    /\ clock = [running |-> FALSE, now |-> 0]
    /\ owner = [pc |-> "idle", change |-> "none", state |-> "paused", step |-> FALSE]

WInit == \E h \in Hosts : Paused(h, "runnable")

-----------------------------------------------------------------------------
(* The owner.                                                              *)

At(pc)   == owner.pc = pc /\ owner.change = "none"
Verb(pc) == owner' = [owner EXCEPT !.pc = pc]

\* change: the edit is made under the lock; what publishes it comes after.
Edit(w, o) == /\ wake' = w
              /\ owner' = [o EXCEPT !.change = "publish"]
              /\ UNCHANGED <<host, moved, bell, heard, dev, clock, latched>>

PublishChange == /\ owner.change = "publish"
                 /\ owner' = [owner EXCEPT !.change = "notify"]
                 /\ moved' = (dev.pc = "spin")
                 /\ UNCHANGED <<host, wake, bell, heard, dev, clock, latched>>

\* notify_all wakes whoever waits on the state; one who does not misses it.
Woken(d) == CASE d.pc = "blocked" -> [d EXCEPT !.pc = "runnable"]
              [] d.pc = "unarmed" -> [d EXCEPT !.pc = "compute"]
              [] OTHER -> d

Notify == /\ owner.change = "notify"
          /\ owner' = [owner EXCEPT !.change = "ring"]
          /\ dev' = Woken(dev)
          /\ UNCHANGED <<host, wake, moved, bell, heard, clock, latched>>

\* Bug: only the count of rings moves.
RingCountOnly == /\ owner.change = "ring"
                 /\ owner' = [owner EXCEPT !.change = "none"]
                 /\ heard' = (dev.pc = "fallback")
                 /\ UNCHANGED <<host, wake, moved, bell, dev, clock, latched>>

\* The count moves for the fallback; the event is set where there is one, and a
\* refusal to set it is only logged.
Ring == /\ owner.change = "ring"
        /\ owner' = [owner EXCEPT !.change = "none"]
        /\ heard' = (dev.pc = "fallback")
        /\ bell' \in (CASE host = "timer" -> {TRUE} [] host = "refusing" -> {bell, TRUE}
                        [] OTHER -> {bell})
        /\ UNCHANGED <<host, wake, moved, dev, clock, latched>>

\* A request for a later instant than one already pending is dropped.
Asked(w, at) == [w EXCEPT !.asked = IF w.asked # NoDeadline /\ w.asked <= at THEN w.asked ELSE at]

-----------------------------------------------------------------------------
(* The verbs of the machine's owner.                                       *)

Resume(step) ==
    /\ At("idle")
    /\ step \/ owner.state = "paused"
    /\ owner' = [owner EXCEPT !.step = step,
                              !.pc = IF owner.state = "running" THEN "target" ELSE "start"]
    /\ UNCHANGED <<host, wake, moved, bell, heard, dev, clock, latched>>

\* The platform may refuse to resume its clock, which ends the verb.
Start == /\ At("start")
         /\ \/ Verb("run") /\ clock' = [clock EXCEPT !.running = TRUE]
            \/ owner' = [owner EXCEPT !.pc = "idle", !.step = FALSE] /\ UNCHANGED clock
         /\ UNCHANGED <<host, wake, moved, bell, heard, dev, latched>>

EditRun == At("run") /\ Edit([wake EXCEPT !.run = TRUE], [owner EXCEPT !.pc = "running"])

\* The processors are resumed.
Running == /\ At("running")
           /\ owner' = [owner EXCEPT !.state = "running",
                                     !.pc = IF owner.step THEN "target" ELSE "idle"]
           /\ UNCHANGED <<host, wake, moved, bell, heard, dev, clock, latched>>

\* A step publishes its end as a deadline.
EditTarget == At("target") /\ Edit(Asked(wake, Later(clock.now, StepSpan)), [owner EXCEPT !.pc = "loop"])

\* The step ends at its target, when it has waited far too long, or when a
\* processor gave up, which one may do at any time; each ends in a pause.
StepEnds == /\ At("loop")
            /\ Verb("park")
            /\ UNCHANGED <<host, wake, moved, bell, heard, dev, clock, latched>>

Pause == /\ At("idle") /\ owner.state = "running"
         /\ Verb("park")
         /\ UNCHANGED <<host, wake, moved, bell, heard, dev, clock, latched>>

\* Every processor parks, or one is wedged and the machine stays running.
ParkAll == /\ At("park")
           /\ \/ Verb("pause")
              \/ owner' = [owner EXCEPT !.pc = "idle", !.step = FALSE]
           /\ UNCHANGED <<host, wake, moved, bell, heard, dev, clock, latched>>

EditPause == At("pause") /\ Edit([wake EXCEPT !.run = FALSE], [owner EXCEPT !.pc = "freeze"])

\* The platform may refuse to suspend its clock, after the machine's stopped.
Freeze == /\ At("freeze")
          /\ clock' = [clock EXCEPT !.running = FALSE]
          /\ \E state \in {"paused", owner.state} :
                owner' = [owner EXCEPT !.pc = "idle", !.step = FALSE, !.state = state]
          /\ UNCHANGED <<host, wake, moved, bell, heard, dev, latched>>

\* with_machine_while_running: host input, then a deadline of now.
Input == /\ At("idle")
         /\ Verb("poke")
         /\ latched' = TRUE
         /\ UNCHANGED <<host, wake, moved, bell, heard, dev, clock>>

\* Bug: the device thread is not told of the input.
EditPokeSilent == /\ At("poke")
                  /\ Verb("idle")
                  /\ UNCHANGED <<host, wake, moved, bell, heard, dev, clock, latched>>

EditPoke == At("poke") /\ Edit(Asked(wake, clock.now), [owner EXCEPT !.pc = "idle"])

Drop == At("idle") /\ Edit([wake EXCEPT !.stop = TRUE, !.run = FALSE], [owner EXCEPT !.pc = "gone"])

OwnerStep == PublishChange \/ Notify \/ Ring \/ Start \/ EditRun \/ Running \/ EditTarget
             \/ StepEnds \/ ParkAll \/ EditPause \/ Freeze \/ EditPoke

-----------------------------------------------------------------------------
(* The device thread.                                                      *)

DevGoto(pc) == dev' = [dev EXCEPT !.pc = pc]

\* The wait is over: what it was for is forgotten with it.
Leave(pc) == dev' = [dev EXCEPT !.pc = pc, !.target = NoDeadline, !.left = 0]
Return(pc) == dev' = [pc |-> pc, next |-> NoDeadline, target |-> NoDeadline, left |-> 0]

\* Bug: only a stop is looked for, and a paused thread goes on.
WaitUntilRunnableUnpaused ==
    /\ dev.pc = "runnable"
    /\ DevGoto(IF wake.stop THEN "done" ELSE "service")
    /\ UNCHANGED <<host, wake, moved, bell, heard, clock, latched, owner>>

\* Bug: a stop sends the loop round again.
WaitUntilRunnableLoops ==
    /\ dev.pc = "runnable"
    /\ DevGoto(IF wake.stop THEN "runnable" ELSE IF wake.run THEN "service" ELSE "blocked")
    /\ UNCHANGED <<host, wake, moved, bell, heard, clock, latched, owner>>

\* wait_until_runnable.
WaitUntilRunnable ==
    /\ dev.pc = "runnable"
    /\ DevGoto(IF wake.stop THEN "done" ELSE IF wake.run THEN "service" ELSE "blocked")
    /\ UNCHANGED <<host, wake, moved, bell, heard, clock, latched, owner>>

\* service_once and what follows it: the wheel names its next deadline, and
\* a stop of the machine parks the processors and pauses this thread too.
\* The thread waits for nothing meanwhile, so its own change meets only the
\* event, which stays set.
ServiceOnce ==
    /\ dev.pc = "service"
    /\ latched' = FALSE
    /\ \E next \in {t \in Times : t > clock.now} \cup {NoDeadline} :
          dev' = [dev EXCEPT !.pc = "compute", !.next = next]
    /\ \/ UNCHANGED <<wake, bell>>
       \/ /\ wake' = [wake EXCEPT !.run = FALSE]
          /\ bell' \in (CASE host = "timer" -> {TRUE} [] host = "refusing" -> {bell, TRUE}
                        [] OTHER -> {bell})
    /\ UNCHANGED <<host, moved, heard, clock, owner>>

\* The soonest of the wheel's deadline and anything asked for.
Target(next, asked) ==
    IF next = NoDeadline THEN asked
    ELSE IF asked # NoDeadline /\ asked < next THEN asked ELSE next

\* time_until: none on a stopped clock, zero for an instant already reached.
Remaining(at) == IF clock.running /\ at # NoDeadline
                 THEN (IF at > clock.now THEN at - clock.now ELSE 0) ELSE NoDeadline

\* Inside the margin the request is taken and the rest of the wait is spun.
Spin(target, for) ==
    /\ wake' = [wake EXCEPT !.asked = NoDeadline]
    /\ moved' = FALSE
    /\ dev' = [dev EXCEPT !.pc = "spin", !.target = target, !.left = for]

\* The head of wait_for_deadline's loop, under the lock.
WaitForDeadline ==
    LET target == Target(dev.next, wake.asked)
        remaining == Remaining(target)
    IN /\ dev.pc = "compute"
       /\ \/ wake.stop /\ Return("done") /\ UNCHANGED <<wake, moved>>
          \/ ~wake.stop /\ ~wake.run /\ Return("runnable") /\ UNCHANGED <<wake, moved>>
          \/ /\ ~wake.stop /\ wake.run /\ remaining = NoDeadline
             /\ DevGoto("unarmed") /\ UNCHANGED <<wake, moved>>
          \/ /\ ~wake.stop /\ wake.run /\ remaining # NoDeadline /\ remaining >= Margin
             /\ dev' = [dev EXCEPT !.pc = "unlocked", !.target = target, !.left = remaining - Margin]
             /\ UNCHANGED <<wake, moved>>
          \/ /\ ~wake.stop /\ wake.run /\ remaining # NoDeadline /\ remaining < Margin
             /\ Spin(target, remaining)
       /\ UNCHANGED <<host, bell, heard, clock, latched, owner>>

\* DeadlineTimer::wait, the lock released: on the event and the timer, or on
\* a condition variable whose wait begins by reading the ring count.
BeginWait ==
    /\ dev.pc = "unlocked"
    /\ \/ host # "none" /\ DevGoto("asleep") /\ UNCHANGED heard
       \/ host # "timer" /\ DevGoto("fallback") /\ heard' = FALSE
    /\ UNCHANGED <<host, wake, moved, bell, clock, latched, owner>>

\* The wait ends rung: the head of the loop reads what changed.
Rung == /\ \/ dev.pc = "asleep" /\ bell /\ dev.left > 0 /\ bell' = FALSE
           \/ dev.pc = "asleep" /\ host = "refusing" /\ UNCHANGED bell
           \/ dev.pc = "fallback" /\ heard /\ UNCHANGED bell
        /\ Leave("compute")
        /\ heard' = FALSE
        /\ UNCHANGED <<host, wake, moved, clock, latched, owner>>

\* The wait ran its course.
Expire == /\ dev.left = 0
          /\ dev.pc = "asleep" \/ (dev.pc = "fallback" /\ ~heard)
          /\ DevGoto("expired")
          /\ UNCHANGED <<host, wake, moved, bell, heard, clock, latched, owner>>

\* The lock again: what was asked for is taken, whatever it is by now.
SpinMargin == /\ dev.pc = "expired"
              /\ Spin(dev.target, Margin)
              /\ UNCHANGED <<host, bell, heard, clock, latched, owner>>

SpinEnds == /\ dev.pc = "spin" /\ (dev.left = 0 \/ moved)
            /\ Return("runnable")
            /\ moved' = FALSE
            /\ UNCHANGED <<host, wake, bell, heard, clock, latched, owner>>

DeviceStep == \/ WaitUntilRunnable \/ ServiceOnce \/ WaitForDeadline \/ BeginWait
              \/ Rung \/ Expire \/ SpinMargin \/ SpinEnds

-----------------------------------------------------------------------------
(* The rest of the world.                                                  *)

\* A wait on a condition variable may also end of itself.
Spurious == /\ Woken(dev) # dev /\ dev' = Woken(dev)
            /\ UNCHANGED <<host, wake, moved, bell, heard, clock, latched, owner>>

\* A processor's exit may serve device time too, and sees the host input.
Exit == /\ clock.running /\ latched
        /\ latched' = FALSE
        /\ UNCHANGED <<host, wake, moved, bell, heard, dev, clock, owner>>

Tick == /\ clock' = [clock EXCEPT !.now = IF clock.running THEN Later(@, 1) ELSE @]
        /\ dev' = [dev EXCEPT !.left = IF @ > 0 /\ dev.pc \in {"asleep", "fallback", "spin"}
                                      THEN @ - 1 ELSE @]
        /\ UNCHANGED <<host, wake, moved, bell, heard, latched, owner>>

WNext == \/ OwnerStep \/ DeviceStep \/ Spurious \/ Exit \/ Tick
         \/ \E step \in BOOLEAN : Resume(step)
         \/ Pause \/ Input \/ Drop

WSpec == WInit /\ [][WNext]_wvars

\* The threads run, a verb under way goes on, and host time passes.
WFairness == WF_wvars(DeviceStep) /\ WF_wvars(OwnerStep) /\ WF_wvars(Tick)
WFairSpec == WSpec /\ WFairness

-----------------------------------------------------------------------------
(* Properties.                                                             *)

Up == ~wake.stop /\ wake.run

\* No change is slept through: while no ring waits to be heard and no change
\* is under way, a thread that waits on a timer whose host refuses nothing waits
\* for exactly what the shared state asks, one that waits for something to be armed has nothing
\* armed, and one that waits to be resumed is paused.
NoChangeSleptThrough ==
    /\ (dev.pc \in {"unlocked", "asleep"} /\ host = "timer" /\ ~bell /\ owner.change = "none")
          => Up /\ dev.target = Target(dev.next, wake.asked)
    /\ (dev.pc = "unarmed" /\ owner.change \notin {"publish", "notify"})
          => Up /\ Target(dev.next, wake.asked) = NoDeadline
    /\ (dev.pc = "blocked" /\ owner.change \notin {"publish", "notify"})
          => ~wake.stop /\ ~wake.run

\* Host input reaches the devices: it is looked at by a service, unless the
\* machine is paused or dropped first, even when nothing at all is armed.
InputServed == latched ~> (~latched \/ ~Up)

\* A dropped machine's device thread ends, wherever the stop found it and
\* whatever its host waits on, so that the owner's join returns.
DeviceThreadEnds == wake.stop ~> dev.pc = "done"

\* A paused machine's device thread stops servicing, unless it is resumed.
PauseQuiets == ~wake.run ~> (dev.pc \in {"blocked", "done"} \/ wake.run)

\* The fallback's wait hears a ring that came before it, as its comment says:
\* while the count it watches has not moved and no change is under way, the
\* thread waits for exactly what the shared state asks.
RingSeenByNextWait ==
    (dev.pc = "fallback" /\ ~heard /\ owner.change = "none")
      => Up /\ dev.target = Target(dev.next, wake.asked)
=============================================================================
