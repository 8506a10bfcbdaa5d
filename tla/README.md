# A TLA+ model of Rusty Box

Rusty Box is a port of the Bochs PC emulator to Rust. It runs a guest on its own
interpreter (`rusty_box`) or on the Windows Hypervisor Platform
(`rusty_box_whp_engine`). This directory models the part of it where order
matters: how time, interrupts, messages between processors, resets and stops move
through the machine. It does not model what an instruction computes.

The modules are written from the source under `src/`; `PROJECT.json` names, for
every definition, the lines it stands for. TLC checks every module on a small
instance, and TLAPS proves the safety properties of most of them for every value
of their constants.

To check a module or a proof:

    tlc -workers 2 -config MCPcSystem.cfg MCPcSystem
    tlapm PcSystemProofs.tla

## The system and its modules

```
 devices --lines--> 8259 pair --INT--> boundary --event--> processor
    |                  ^                                     ^  |
    |                  | ExtINT acknowledge                  |  | EOI, ICR
    +-----pins---> I/O APIC --messages--> boundary --> local APIC
    |
    +-- timers: the wheel                  batches and rounds give
                                           the processors their turns
 hardware engine: vCPU thread <-> device thread <-> front end
```

| Module | Code | State | Actions |
|---|---|---|---|
| `PcSystem` | `rusty_box/src/pc_system.rs` | the clock (`ticksTotal`, `countdown`, `countdownPeriod`), the timer slots, the fired owners | register, the five ways to arm, disarm, unregister, `tickn` with one step for every turn of its loop, take the fired, reset |
| `Pic8259` | `rusty_box/src/pic.rs` | both chips as sets of lines, the two INT flags | lines up and down, acknowledge (`iac`), ICW1 to ICW4, OCW1 to OCW3, poll, ELCR, reset |
| `IntPin` | the contract of the pair's INT output | pin, `irq_pending`, `irq_cleared` | drive, take the flags |
| `IntrPublication` | `emulator/scheduler.rs`, `emulator/io.rs`, `cpu/event.rs` | the pin, each processor's pending event and LINT0, what the engine was told | port and memory accesses, acknowledges, boundaries, resets |
| `IoApic` | `iodev/ioapic.rs` | levels, requests, redirection entries, the queue of messages | pins, entry writes, the servicing scan, resampling, answers, reset |
| `IrqFabric` | `iodev/irq.rs`, `iodev/wiring.rs` | `Pic8259` and `IoApic` together | every call of the fabric that changes either |
| `LocalApic` | `cpu/apic.rs` | (operators only) one local APIC | |
| `LapicCore` | `cpu/apic.rs`, `cpu/cpu.rs`, `cpu/event.rs` | one local APIC, the processor's event bit, the boundary latch | the guest's accesses, the acknowledge, the boundary, reset |
| `ApicBus` | `cpu/apic.rs`, `emulator/scheduler.rs`, `cpu/event.rs` | every processor with its local APIC, `lapic_work_mask`, the running slice | interrupt commands, INIT, NMI, start-up, acknowledge, end of a slice, commits |
| `LevelEoi` | `iodev/ioapic.rs`, `cpu/apic.rs`, `emulator/scheduler.rs`, `vcpu_thread.rs` | `IoApic` and one `LocalApic` | a level-triggered interrupt from the pin to the end of interrupt and back |
| `SmpScheduler` | `emulator/scheduler.rs`, `emulator/run.rs`, `cpu/event.rs`, `cpu/proc_ctrl.rs`, `cpu/mwait.rs` | each processor's activity, events and masks, `runnable_mask`, the round's cursor, ticks and remainder | the batch, slices, boundaries, commits, resets; between two batches the fast-forward and the injected interrupt |
| `VcpuThread` | `rusty_box_whp_engine/src/vcpu_thread.rs`, `device_thread.rs`, `fast_machine.rs` | the three threads, their shared flags, the park slot, the machine's lock, the partition's cancel | every load, store or critical section that another thread can observe |
| `DeviceWait` | `rusty_box_whp_engine/src/device_thread.rs`, `fast_machine.rs`, `vm_clock.rs`, `rusty_box_whp/src/deadline.rs` | what the owner asks (`DeviceWake`), the doorbell in both forms, the device thread's place and deadline, the machine's clock, the owner's verb | the three steps of a `change`, resume, step, pause, host input, drop, the thread's loop with its waits, time |
| `ScanOrder` | the loops of `iodev/ioapic.rs` and `pc_system.rs` over pins and timers | (operators only) a set visited upwards | |

`MC…` modules instantiate these for TLC and add history variables where a
property looks back. `…Proofs` modules hold the theorems.

Where a function of the code calls others that change state, the action contains
them: `Iac` services both chips and moves the cascade line as `iac` does,
`ServiceIoApic` acknowledges the pair once for each ExtINT entry, and `Boundary`
in `ApicBus` drains the queues in the order of `service_scheduler_boundary`. A
step is split only where somebody else can come between: in `PcSystem` nothing
can (the wheel is borrowed mutably while `tickn` loops, and `Idle` guards every
other action), in `VcpuThread` almost everywhere.

Definitions whose comment starts with "Bug:" or "A slip" are deliberate errors.
Each shows that one property notices one plausible mistake; no specification
uses them.

## What the runs check

| Run | Configuration | Question |
|---|---|---|
| `wheel` | `MCPcSystem.cfg` | Does the one countdown serve every timer on its tick? |
| `pic` | `MCPic8259.cfg` | Do the chips, the cascade wire and the flags stay consistent, and is the timer line always answered? |
| `handoffs` | `MCHandoffs.cfg` | Does a word that one side leaves for another arrive: INT at the processors and the engine, an edge at a local APIC, a change at the device thread? |
| `irq_fabric` | `MCIrqFabric.cfg` | Do the two controllers agree about every line? |
| `lapic` | `MCLapicCore.cfg` | Does each end of interrupt end the handler that runs, and is no interrupt or end of interrupt lost? |
| `apic_bus` | `MCApicBus.cfg` | Does a message reach those it was meant for before anybody runs on? |
| `level_eoi` | `MCLevelEoi.cfg` | Is a line still high at its EOI served again (hypervisor's local APIC)? |
| `level_eoi_model` | `MCLevelEoiModel.cfg` | The same with the machine's own local APIC: it is not. |
| `smp` | `MCSmpScheduler.cfg` | Does nobody sleep through a wake-up, and does time go on while anything can be woken? |
| `vcpu` | `MCVcpuThread.cfg` | Do interrupts, resets, pauses and drops always fetch a running guest, and does a withdrawn request let it go? |
| `vcpu_reset` | `MCVcpuReset.cfg` | Can a park undo a reset? It can. |
| `device_fallback` | `MCDeviceFallback.cfg` | Does the device thread hear a ring that came before its wait, without a waitable timer? It does not. |

`handoffs` is three systems in one run: `part` chooses one of `IntrPublication`,
`MCIoApic` and `DeviceWait` at the start, and the others stay at rest.

**Time.** `WheelInv`: the countdown is never zero and ends no later than any armed
deadline, and armed timers are inside the range that is scanned.
`FiresOnDeadline`: a timer fires on its tick and on no other, so that the code's
`>=` and its reload loop behave as Bochs' `==` and single addition.
`TicksConserved`: arming and disarming rewrite the countdown and never move the
clock. `SnapshotAccepted`: the validator of a snapshot accepts every state that
the machine can be saved in. A machine never calls `unregister_timer`; the run
does, and remembers it, since a wheel with a fire left for an owner that is gone
is one the validator refuses.

**The 8259 pair.** `CascadeWired`: the slave's INT and the master's cascade input,
kept in two places, are one wire. `RequestsBacked`: no request outlives its line.
`WinnerNotInService`: INT is not up for a line whose handler runs.
`NoMissedRequest`: what `service` would signal is being signalled, with two
exceptions that the code has: after a spurious acknowledge of the slave, until
the cascade's EOI, and after OCW2 `0xC0`, which sets a priority and services
nothing. `PinContract`: the pair implements `IntPin`, that is, INT never moves
without leaving a flag (refinement; a reset is outside the contract).
`TimerServed`: a request of line 0 is answered, withdrawn or masked.

**Publication.** `IntrReachesBsp` and `EngineHearsFall`: the flags are taken by
whichever processor makes the next port access and are handed to that processor
only, yet every commit publishes the level, so it reaches the bootstrap
processor; and a level the engine refused stays owed.

**I/O APIC and fabric.** `EdgeAtMostOnce`, `EdgeExactlyOnce`, `LinesAgree`. An
edge is delivered at most once, and exactly once unless the queue was full or
nobody answered. Both speak of pins that the guest programs with one trigger mode:
a rewrite of the entry leaves the request standing, so the request of a level pin
that is made edge-triggered is sent once more than its edges.

**Local APIC and bus.** `NoMissedInterrupt`, `EoiEndsInnermost`, `NoEoiLost`,
`TopServed` for one processor; `IpisArrive`, `StartedAsTold`, `LowestReachesOne`,
`BoundaryDrains` for several. `NoEoiLost` is about the single slot an EOI waits in:
a second EOI cannot come before the boundary has emptied it. `BoundaryDrains` also
bounds the queues: none ever holds two entries between boundaries.

**Scheduler.** `MasksMatchScan` (the code's own debug assertion), `NoLostWakeup`
(`cpu_runnable_for_batch` against `handle_wait_for_event`), `TicksConserved`,
`TimeAdvances`, `TurnsUnlessBoundaries`. The last two carry exceptions the code has.
A batch in which nobody can run ends without a tick (`BatchIdle`), and it is the
caller, `step` or `run_interactive`, that fast-forwards to the next deadline; it
does so only for a bootstrap processor in HLT or MWAIT. With the bootstrap processor
shut down and the others asleep no time passes and no timer can end it:
`TimeAdvances` says that time goes on for ever or the machine stands so from some
time on (`Stands`). And a boundary that a slice asks for ends its round where it is;
the next round begins at processor 0 again. `step_exactly` runs batches without
fast-forwarding; it is the behaviour in which one batch follows another.

**Hardware engine.** `FetchedForInterrupt`, `FetchedForReset`: a guest never runs
beside a request it was not told of. `PauseParks`, `StopEnds`: a pause and a drop
come through. `InterruptTaken`: the pin is acknowledged in the end although a
guest's IRET causes no exit. `WithdrawnParkEnds`: a thread that parks for a request
which is withdrawn, before it is in the slot or after, runs again; the wake it would
wait for may have been and gone.

**Device thread.** It decides under a lock how long to sleep and sleeps without it,
on an event and a timer, on a condition variable, or spinning; the owner edits the
state under the lock and rings after it. `NoChangeSleptThrough`: no stop, pause or
nearer deadline falls between the two, on a host whose waitable timer refuses
nothing. Where the platform may refuse to arm the timer or to set the event (a
refused `ring_deadline` is only logged), the change may be late by the deadline
slept for, and the liveness properties hold still. `InputServed`: host input is
looked at even when no timer is armed. `PauseQuiets` and `DeviceThreadEnds`: a pause
stops the servicing and a drop ends the thread, wherever it is, also on a host that
has only the condition variable.

### Disagreements between the code and its comments

* `level_eoi_model` / `LevelOwed`. A comment in `iodev/irq.rs` says that the model
  local APICs re-service a level line at the EOI by themselves. In the code the
  boundary hands the EOI to `BxIoApic::receive_eoi`, which only logs. A line that
  is still high waits for another pin or a write of the guest.
* `vcpu_reset` / `ResetNotUndone`. `bring_the_shadow_home` asks whether a reset is
  owed before it takes the machine's lock. A reset made between the two by
  `with_machine_while_running`, while the thread parks on its own account, is
  overwritten by the old guest's registers.
* `device_fallback` / `RingSeenByNextWait`. Without a waitable timer the device
  thread waits on a condition variable and compares the count of rings with the one
  it reads when the wait begins. Comments in `deadline.rs` say that a ring between
  two waits is seen by the next; it is not. `device_thread.rs:463` says that
  `change` rings under the lock it writes under; it rings after releasing it. The
  thread is then late by as much as the deadline it sleeps for.

Also seen, without a run of their own: the `debug_assert` in `request_park`
(`vcpu_thread.rs:504`) holds only while no second request races the first;
`resume` lowers the flag and clears the slot in two steps, so a park that the
device thread asks for between them raises a flag whose reason is gone
(`vcpu_thread.rs:591`); that thread then parks as "paused" and, the request being
withdrawn, runs on. The device thread keeps one slot for a deadline somebody asks for and
empties it when any deadline is reached (`device_thread.rs:485`), so a step whose
end lies beyond the wheel's next deadline is not woken at its end, as `step` says;
its own look at the clock every 10 ms ends it. `DeviceWait` does not keep the end
of a step, so this last one is read from the code and not shown by a model here.

## Bounds

Every bound is a constant of the module or its configuration.

* `wheel`: two device timers beside the null timer, time up to 4, periods 0 and 2
  (0 exercises the clamp to one tick), deadlines 1 and 3, `U64Max` = 6 so that the
  refusal of a deadline past the end happens. The two owners are symmetric.
* `pic`: three lines a chip with the cascade in the middle, so that the master has
  a line above it and one below it. Six guests use the command words a few at a
  time; the proofs have all of them at once.
* `handoffs`: three processors, one of which is neither the one that runs nor the
  bootstrap processor; one pin of each trigger mode, a queue of two so that it
  overflows, up to four edges; a clock of two ticks, a margin of one and steps of
  two, so that a sleep, a nearer deadline inside it and a spin all happen, on a
  host whose timer refuses nothing, on one whose timer or event may refuse, and on
  one that has neither.
* `irq_fabric`: three lines a chip, and a pin that has no line. The cascade is
  line 2 here, so that the timer has the pin the cascade leaves free as in the
  code. The queue holds one message.
* `lapic`: five vectors in classes 0 (unusable), 1 and 2, task priorities inside
  and between classes, a spurious vector equal to a used one and one that is not.
* `apic_bus`: two processors, every kind of destination, a logical one that nobody
  has among them, one interrupt vector, one for lowest priority, and an unusable
  one; at most two lowest-priority messages at a time.
* `level_eoi`: two pins, at most two messages left for one boundary.
* `smp`: two processors, quantum 1, slices of 0 and 2 ticks, so that rounds of
  less than one tick happen.
* `vcpu`: no counters. What may happen (interrupts, masking, pauses, resets,
  stops, drops, refusals of the platform) is chosen at the start in six mixtures;
  the proofs cover every mixture. `CHECK_DEADLOCK` is off here only: a dropped
  machine has stopped.

## Fairness

* `pic`: a processor with interrupts enabled answers INT, and a guest that uses
  only the plain EOI ends every handler. Both are the guest's part of the
  contract, and `TimerServed` is about such guests only.
* `handoffs`, publication: a slice ends with its quantum and the host calls
  `run_cpu_batch` again (weak fairness). Of the levels offered to an engine it
  takes one in the end (strong fairness); an engine that always refuses is owed
  nothing. Device thread: it and a verb that the owner has begun are scheduled, and
  host time passes (weak); nothing obliges the owner to begin a verb or a guest to
  exit.
* `lapic`, `level_eoi`: the guest takes and ends interrupts, boundaries go on.
* `smp`: some step is always taken, and no single slice is favoured. The callers
  try to fast-forward after every batch (strong fairness of `MCFastForward`, which
  is enabled only between batches), and go on to the next batch when their
  `hlt_budget` is spent (weak fairness of `MCBatch`).
* `vcpu`: the processor's thread is scheduled, and the lock it waits for is only
  passed through by the others (strong fairness for its own steps); a cancelled
  run ends (weak); the guest executes, so a handler reaches its IRET and a placed
  vector is taken (strong: cancels may interrupt it, but not for ever, since the
  device thread sleeps between services). Nothing obliges a guest to exit by
  itself, or the front end to begin anything.

## What is proved

| Module | Theorems | For every |
|---|---|---|
| `PcSystemProofs` | `WheelTyped`, `WheelCorrect`, `FiresOnTime`, `ClockExact`, `AlwaysSaved` | number of timers, horizon, delay and step |
| `HandoffProofs` | `EdgesAtMostOnce`, `EdgesExactlyOnce` | number of pins, size of the queue, programming, number of edges |
| | `LevelLinesOwed` | number of pins, vectors and programming, with a hypervisor's local APIC |
| | `EngineToldTruth`, `PublicationTyped` | number of processors |
| `IrqFabricProofs` | `PairTyped`, `CascadeStaysWired`, `RequestsStayBacked`, `WinnerStaysOutOfService`, `RequestsNotMissed`, `PairImplementsPin` | number of lines, cascade line, masks, modes and commands |
| | `LinesStayAgreed`, `WinnerStaysOutInFabric` | number of lines, pins, programming |
| `LapicProofs` | `TypesHold`, `HandlersNest`, `NothingMissed`, `EventIsIntr`, `EoisEndInnermost`, `EoisNotLost` | set of vectors, class size, guest writes |
| `ApicBusProofs` | `MessagesArrive`, `ProcessorsStart`, `LowestPriorityOne`, `NothingLeftBehind`, `BusInvariant` | number of processors (two or more), set of vectors, set of commands and of I/O APIC messages |
| `SmpProofs` | `MasksAlwaysMatch`, `WakeupsNotLost`, `SipiStarts`, `CreditsReachTheClock`, `TypesHold` | number of processors, quantum, slice lengths |
| `ThreadProofs` | `InterruptFetches`, `ResetFetches`, `ThreadsTyped` | mixture of what may happen |
| | `ChangesHeard`, `ClockOutlastsRun` | clock bound, margin, step, kind of host |
| `ScanOrderProofs` | lemmas: a scan visits every member once, upwards | finite set of numbers |

The assumptions are the `ASSUME`s of the modules: constants have their types,
there is at least one timer slot beside the null timer, the cascade is a line, no
device drives the cascade line, and there are two processors or more in
`SmpScheduler` and `ApicBus`. `GuestAssumption` of `MCApicBus` is about the guest
that the history counts for: one vector is used for lowest priority and for nothing
else, so that a request tells which kind of message brought it, and the shorthand
"self" is used for interrupts (a processor does not send itself an INIT with it).
`RoutesAssumption` of `LevelEoi` is about what the guest writes to the entry of a
level line, and `LevelOwed` fails without any part of it: the vector is usable and the
message is one the bus accepts, or nothing is ever requested; and no edge uses the
vector, or the local APIC takes the end of the level interrupt for that of the edge and
tells nobody. `LevelAssumption` leaves room in the queue for what devices leave
(`MaxQueued`) and two scans; the code has 256 places for 24 pins.

How the arguments go:

* **Wheel.** `WheelInv` with the types is inductive. The key step is
  `ArmingKeepsCountdown`: shortening keeps `ticksTotal + countdownPeriod` at or
  below every armed deadline without moving `Now`. That makes a firing timer's
  deadline equal to the tick (`FiresOnTime`), and the reload one addition
  (`ReloadOnTime`).
* **Snapshot.** The validator compares the fires that wait with the slots they came
  from. `AlwaysSaved` adds to the wheel's invariant that only slots in use have an
  owner and no owner has two (`OwnersValid`), and that the list of fires has room and
  names each owner once, one that holds a timer (`FiresValid`). One turn of the loop
  counts a fire of an owner that waits already and appends the others in the order
  of the scan, as far as there is room (`RecordKeepsValid`).
* **8259 pair.** The invariant `Good` is types, wire, backing and free winners. It
  is proved call by call, as the code is built: `Service`, then the master's and
  the slave's calls, `Take`, `Iac`, ICW1, and the command words. `Flagged` carries
  the flags through the same lemmas and gives the refinement. `RequestsNotMissed`
  has to say where a request may go unsignalled (`Excused`) and shows that every
  other command ends with the service routine or changes nothing it reads (`Told`).
* **Fabric.** `LinesAgree` is not inductive alone. The pair forwards a raise by
  its request bit and a fall by its line level, so agreement needs `Good`: a set
  request bit means a line that is high and was forwarded before. The acknowledges
  of one scan are a chain of unknown length; `AcknowledgedKept` follows the
  recursive function step by step.
* **I/O APIC.** A count of edges is kept: those latched are those taken, refused,
  queued, or still a request (`Pending`). A scan moves an edge from the request to
  the queue and so leaves the count alone (`ServiceEffect`); an answer can only end
  one. That a scan sends one message for a pin, whatever their number, comes from
  `ScanOrderProofs`, by counting the members below each. A level pin never has an
  edge in the queue (`LevelInv`), which is where the one trigger mode is needed.
* **Level lines.** `LevelOwed` speaks of the moments when nothing is under way. The
  invariant `OwedInv` says where an owed interrupt is otherwise: requested, in service,
  in a message, or in the EOI slot. A scan leaves a message for everything owed, if it
  has room (`ScanCarries`); a boundary of any number of messages turns each into a
  request (`TriggeredHolds`, by the least message for which it would not); the end of
  a level vector leaves it in the slot, since the local APIC knows the trigger mode
  of every level vector it holds (`ApicGood`); and an EOI that makes no scan was for a
  vector no high line has (`EoiHandledKeeps`). With the machine's own local APIC the
  last step is missing, which is the finding of `level_eoi_model`.
* **Local APIC.** `Good` joins the types, one handler a class and no missed
  request. `service` compares vectors and the acknowledge compares classes; the
  lemmas `DeliverableByClass` and `DeliverableSignals` relate the two. The history of
  handlers entered and not ended (`HInv`) ascends by class, so its last member is the
  highest vector in service, which is the one an EOI ends; and the slot for the
  broadcast is taken only while a boundary is asked for, which lets no second EOI in.
* **Messages between processors.** A boundary is loops within loops: over the
  processors the mask shows, over the messages each has queued, over the targets of
  each. `BusInv` makes them one delivery. A processor that has queued something ends
  its slice, so at a boundary only one processor has anything queued and that is one
  message at most (`Quiet`); the others have nothing for the scheduler at all and the
  mask is exact (`Exact`, `RefreshExact`). `DrainedOne` then shows that the drain is
  one call of `DeliverMessage`, `BoundaryDelivers` that the rest of the boundary
  changes no request and no start and leaves nothing behind. The history is kept while
  a message is under way by counting what its targets are going to hold with what
  the processors hold (`Accounts`): a command adds its targets (`SentAccounts`), the
  boundary turns them into requests (`DeliveredAccounts`), an acknowledge or an INIT
  takes requests away (`TakenAccounts`). The same lemmas serve the messages of the
  I/O APIC, which arrive at a boundary where nobody has left anything.
* **Scheduler.** The mask equals a scan because each operation changes one
  processor and refreshes it (`RefreshChanged`). That nobody sleeps through a
  wake-up then needs what a waiting processor has masked (`Waits`). The clock's
  credits are followed through a slice, the processors it passes over and the end of
  the round, where division splits them into ticks and a remainder (`WholeAndRest`).
* **Threads.** A flag is raised before a flag is read, on both sides. The
  invariant says where `in_run` is up, that a raiser that has yet to look or to
  cancel holds the machine's lock, and that from the second look on a request the
  thread does not know of has its cancel latched or on its way.
* **Device thread.** `NoChangeSleptThrough` needs that a thread which is meant to
  run reads a running clock (`ClockRuns`): on a stopped one every deadline looks
  like none, and it would wait for something to be armed with something armed. The
  owner starts the clock before it says run, and stops it after it says pause.

Where a leaf names `Zenon`, `SMTT` or `ZenonT`, the default order of the provers
would spend its time on one that cannot do it.

### Only model-checked

Liveness (`TimerServed`, `IntrReachesBsp`, `EngineHearsFall`, `TopServed`,
`LevelServedAgain`, `TimeAdvances`, `TurnsUnlessBoundaries`, `PauseParks`,
`StopEnds`, `InterruptTaken`, `WithdrawnParkEnds`, `InputServed`,
`DeviceThreadEnds`, `PauseQuiets`): the proof system has no fairness. Every
invariant and every action property of a passing run is proved; `HandlersNest` is
proved without a run of its own, since `EoiEndsInnermost` implies it. What recursive
functions compute is proved only where a step of the model uses one
(`AcknowledgedKept`, `TriggeredHolds`).

## Limits of the models

* `IrqFabric` assumes that no device drives the cascade line. An HPET timer routed
  to line 2 would (`emulator/timers.rs:734`); this is listed as an open hazard.
* `LevelEoi` lets no edge and level pin share a vector, and no level entry be one that
  is never delivered (`RoutesAssumption`). The hypervisor's
  local APIC is not in the repository: it is given the operators of `LocalApic`,
  except that it keeps a vector's trigger mode as hardware does.
* `LocalApic` has no timer, no error register and no interrupt enable registers.
* `SmpScheduler` leaves out the uniprocessor batch's arithmetic, SMIs, user
  interrupts, interrupt shadows, VMX and SVM events, and the store that ends an
  MWAIT. In its run the guests do not use `iret`, `invlpg` or NMIs, which the proofs
  include. Between batches it models `step` and the first wait of `run_interactive`.
  The inner loop of `run_interactive` (`emulator/interactive.rs:459`) waits once more
  without asking `can_fast_forward_bsp_hlt` before its first turn, so it may advance
  time once beside a runnable application processor; that loop is not modelled.
* `VcpuThread` abstracts the register groups to which copy of the processor a
  reset has replaced (`old`) and the guest to its IF and the vector placed in it. A
  refusal while staging may come before or after the vector was placed.
  One errand is one step. The partition is modelled from how the code uses it: a
  cancel is latched and consumed by the next run.
* `DeviceWait` takes a change of the thread itself, when the machine stops, as part
  of its service, since it waits for nothing meanwhile; reads the clock and makes
  the edit of a step or of host input in one step; and lets a step end at any time.
  A guest that arms a timer on a processor's thread does not tell the device thread
  (`deadline_moved_earlier` has two callers, `step` and
  `with_machine_while_running`); the deadline is then met by the next exit or
  service, which the model does not distinguish.

## Not modelled

The project covers the machine's concurrency and time, not its volume. Most of
the repository's lines are instruction semantics and tables, for which a
transition system says nothing that the code does not, so the mapped lines are a
small part of the whole: about 6,100 of the 408,000 lines of Rust, 1.5 per cent.

* **Instruction decoder, instruction semantics, floating point and vector units.**
  Most of the repository. Sequential functions of bytes and registers; a reference
  definition would be their tables again.
* **Paging, TLB and instruction cache; exceptions, descriptors, task switches; VMX
  and SVM; memory.** Sequential within one slice, over guest memory as data. What
  they share with the rest, pending events and sleep states, is in `SmpScheduler`,
  `LapicCore` and `IntrPublication`.
* **The 8254 timer, CMOS clock, HPET, ACPI, keyboard, serial ports, DMA, disks,
  PCI.** Register files that only port accesses and wheel timers drive. Their timers
  are slots of `PcSystem`, their lines those of `IrqFabric`; the arithmetic and the
  command decoders are not modelled.
* **Display, GUI, disk image tool, build tasks.** Host I/O and data.
* **Snapshots**, but for the wheel's image (`SnapshotAccepted`), and **machine
  assembly, configuration and boot**, which end before the machine runs.
* **Register exchange of the hardware engine.** Which registers are copied is data;
  when and by whom is in `VcpuThread`. The hypervisor itself is external.
