----------------------------- MODULE VcpuThread -----------------------------
(***************************************************************************)
(* The thread that runs a hardware processor, and the two threads that     *)
(* speak to it (rusty_box_whp_engine): the device thread, which publishes  *)
(* the 8259's pin and stops the machine, and the front end, which resumes, *)
(* pauses, resets and drops it.  The partition has one processor.          *)
(*                                                                         *)
(* A critical section of the machine's lock is one step where it touches   *)
(* nothing that is written outside the lock, and several steps with the    *)
(* lock held where it looks at in_run or cancels.  Atomics are SeqCst      *)
(* where the code relies on it, so a load or a store is one step.          *)
(***************************************************************************)
EXTENDS Naturals

\* What may happen around the threads.  A behaviour is given one of Worlds at
\* its start and keeps it, so that one check covers several mixtures without
\* their product.
Happenings == {"interrupt", "mask", "pause", "reset", "stop", "drop", "refusal"}

CONSTANT Worlds

ASSUME WorldsAssumption == Worlds \subseteq SUBSET Happenings

VARIABLES
    pc,         \* where the processor's thread is in its loop
    why,        \* what it is parking for
    staged,     \* how the staging left the request: "clear" or "owed"
    owes,       \* what the exchange owes the partition: "none", "park", "all"
    seen,       \* the inject cache's answer: the guest can take a vector
    placed,     \* a vector stands in the partition's pending-event slot
    if,         \* the guest takes interrupts; a handler runs with IF clear
                \* until its IRET
    old,        \* which copies of the processor the last reset replaced
    cancel,     \* the platform's latched cancel
    exitRequested, extIntPending, extIntBlocked, inRun, resetOwed,
    slot,       \* the park slot, under its own mutex
    lock,       \* who holds the machine across several steps
    pin,        \* the 8259's INT pin
    lint0,      \* LINT0 admits an ExtINT
    stop,       \* the machine's stop in force
    dpc, dwhy, devRun, devStop,     \* the device thread
    fpc, running,                   \* the front end
    world       \* what may happen in this behaviour

flags   == <<exitRequested, extIntPending, extIntBlocked, inRun, resetOwed>>
machine == <<lock, pin, lint0, stop>>
thread  == <<pc, why, staged, owes, seen, placed, if, old>>
device  == <<dpc, dwhy, devRun, devStop>>
front   == <<fpc, running, world>>
vars    == <<thread, machine, flags, cancel, slot, device, front>>

\* Why a thread parks: it was asked to, or the machine or the processor gave up
\* (a power-off, a shutdown, a fault).
Reasons == {"Paused", "GaveUp"}
Request == Reasons \union {"none"}

ParkSlot == [requested : Request, parked : BOOLEAN, stop : BOOLEAN]

InLoop == {"head", "reason", "swap", "install", "handback", "stage", "stageLocked",
           "enter", "recheck", "recheckReset", "run", "left", "service"}
InPark == {"home", "import", "publish", "parked"}

TypeOK ==
    /\ pc \in InLoop \union InPark \union {"done"} /\ why \in Reasons
    /\ staged \in {"clear", "owed"} /\ owes \in {"none", "park", "all"}
    /\ seen \in BOOLEAN /\ placed \in BOOLEAN /\ cancel \in BOOLEAN
    /\ if \in {"open", "closed", "handler"} /\ old \subseteq {"machine", "partition"}
    /\ exitRequested \in BOOLEAN /\ extIntPending \in BOOLEAN
    /\ extIntBlocked \in BOOLEAN /\ inRun \in BOOLEAN /\ resetOwed \in BOOLEAN
    /\ slot \in ParkSlot
    /\ lock \in {"free", "device", "front"}
    /\ pin \in BOOLEAN /\ lint0 \in BOOLEAN /\ stop \in {"none", "host", "off"}
    /\ dpc \in {"loop", "look", "cancel", "after", "flag", "fetch", "pause", "done"}
    /\ dwhy \in Request /\ devRun \in BOOLEAN /\ devStop \in BOOLEAN
    /\ fpc \in {"adopt", "idle", "resumeFlag", "resumeSlot", "pauseFlag", "pauseFetch",
                "wait", "resetLook", "resetCancel", "stopSlot", "stopFlag", "stopFetch",
                "join", "gone"}
    /\ running \in BOOLEAN /\ world \in Worlds

\* What the pin and LINT0 may be, and the guest's own IF.
Pins  == IF "interrupt" \in world THEN BOOLEAN ELSE {FALSE}
Lines == IF "mask" \in world THEN BOOLEAN ELSE {TRUE}
Ifs   == IF "interrupt" \in world THEN {"open", "closed"} ELSE {"closed"}

\* The thread is born parked: a pause is asked for before it begins.  The
\* machine's processor is the one to install.
Init ==
    /\ world \in Worlds
    /\ pc = "head" /\ why = "Paused" /\ staged = "clear" /\ owes = "all"
    /\ seen = FALSE /\ placed = FALSE /\ cancel = FALSE
    /\ if = "closed" /\ old = {}
    /\ exitRequested = TRUE /\ extIntPending = FALSE /\ extIntBlocked = FALSE
    /\ inRun = FALSE /\ resetOwed = FALSE
    /\ slot = [requested |-> "Paused", parked |-> FALSE, stop |-> FALSE]
    /\ lock = "free" /\ pin \in Pins /\ lint0 \in Lines /\ stop = "none"
    /\ dpc = "loop" /\ dwhy = "none" /\ devRun = FALSE /\ devStop = FALSE
    /\ fpc = "adopt" /\ running = FALSE

-----------------------------------------------------------------------------
(* What the threads share. *)

Goto(p) == pc' = p
Park(w) == pc' = "home" /\ why' = w

\* The reason a machine's stop becomes.
FromStop(s) == IF s = "off" THEN "GaveUp" ELSE "Paused"

\* The first reason wins.
Requested(w) == [slot EXCEPT !.requested = IF @ = "none" THEN w ELSE @]

\* Emulator::reset up to where it looks at in_run: the machine's processor, its
\* controllers and the requests of the old guest.
MachineReset ==
    /\ old' = {"partition"}
    /\ pin' = FALSE /\ lint0' \in Lines
    /\ extIntPending' = FALSE /\ extIntBlocked' = FALSE /\ resetOwed' = TRUE

\* A boundary's devices may raise the pin.
Raised == {pin} \union (Pins \ {FALSE})

\* The processor is copied from one place to another.
Copied(from, to) == IF from \in old THEN old \union {to} ELSE old \ {to}

-----------------------------------------------------------------------------
(* The processor's thread. *)

\* The head of the loop: the flag, then the reason behind it.
Head ==
    /\ pc = "head"
    /\ Goto(IF exitRequested THEN "reason" ELSE "swap")
    /\ UNCHANGED <<why, staged, owes, seen, placed, if, old, machine, flags, cancel, slot, device, front>>

ReadReason ==
    /\ pc = "reason"
    /\ Park(IF slot.requested = "none" THEN "Paused" ELSE slot.requested)
    /\ UNCHANGED <<staged, owes, seen, placed, if, old, machine, flags, cancel, slot, device, front>>

\* A reset that is owed makes the machine's processor the authority, and nothing
\* is read.  The flag is looked at before the lock is taken.
Home ==
    /\ pc = "home"
    /\ Goto(IF resetOwed THEN "publish" ELSE "import")
    /\ UNCHANGED <<why, staged, owes, seen, placed, if, old, machine, flags, cancel, slot, device, front>>

\* import_at_park: what the partition holds comes into the machine, less what
\* the machine already holds.
Import ==
    /\ pc = "import" /\ lock = "free"
    /\ IF owes = "none"
       THEN owes' = "park" /\ old' = Copied("partition", "machine")
       ELSE UNCHANGED <<owes, old>>
    /\ Goto("publish")
    /\ UNCHANGED <<why, staged, seen, placed, if, machine, flags, cancel, slot, device, front>>

ImportRefused ==
    /\ "refusal" \in world /\ pc = "import" /\ lock = "free"
    /\ Goto("publish")
    /\ UNCHANGED <<why, staged, owes, seen, placed, if, old, machine, flags, cancel, slot, device, front>>

\* Bug: the thread parks for a request that has been withdrawn.
PublishAlways ==
    /\ pc = "publish"
    /\ Goto("parked") /\ slot' = [slot EXCEPT !.parked = TRUE]
    /\ UNCHANGED <<why, staged, owes, seen, placed, if, old, machine, flags, cancel, device, front>>

\* Under the slot's lock: a request that a resume has withdrawn is no park.
Publish ==
    /\ pc = "publish"
    /\ IF why = "Paused" /\ slot.requested = "none"
       THEN Goto("head") /\ slot' = slot
       ELSE Goto("parked") /\ slot' = [slot EXCEPT !.parked = TRUE]
    /\ UNCHANGED <<why, staged, owes, seen, placed, if, old, machine, flags, cancel, device, front>>

Wake ==
    /\ pc = "parked"
    /\ \/ slot.stop /\ Goto("done") /\ slot' = [slot EXCEPT !.parked = TRUE]
       \/ ~slot.stop /\ ~slot.parked /\ Goto("head") /\ slot' = slot
    /\ why' = "Paused"
    /\ UNCHANGED <<staged, owes, seen, placed, if, old, machine, flags, cancel, device, front>>

\* reset_owed.swap(false)
SwapReset ==
    /\ pc = "swap"
    /\ resetOwed' = FALSE
    /\ Goto(IF resetOwed THEN "install" ELSE "handback")
    /\ UNCHANGED <<why, staged, owes, seen, placed, if, old, machine, exitRequested, extIntPending,
                   extIntBlocked, inRun, cancel, slot, device, front>>

\* What lives only in the partition is cleared; every group is the shadow's.
InstallReset ==
    /\ pc = "install"
    /\ placed' = FALSE /\ seen' = FALSE /\ owes' = "all"
    /\ Goto("handback")
    /\ UNCHANGED <<why, staged, if, old, machine, flags, cancel, slot, device, front>>

InstallRefused ==
    /\ "refusal" \in world /\ pc = "install"
    /\ Park("GaveUp")
    /\ UNCHANGED <<staged, owes, seen, placed, if, old, machine, flags, cancel, slot, device, front>>

\* hand_the_shadow_back.  A group that a park read and nobody wrote is not
\* written.  A processor that is installed, or that a reset replaced after the
\* park read it, is written whole, which republishes its IF to the inject cache;
\* the cache may still hold a delivery in flight from before the park.
HandBack ==
    /\ pc = "handback" /\ (owes # "none" => lock = "free")
    /\ owes' = "none"
    /\ IF owes = "all" \/ (owes = "park" /\ resetOwed)
       THEN /\ if' \in Ifs
            /\ seen' \in {if' = "open" /\ ~placed, owes = "all" /\ if' = "open"}
            /\ old' = Copied("machine", "partition")
       ELSE UNCHANGED <<seen, if, old>>
    /\ Goto("stage")
    /\ UNCHANGED <<why, staged, placed, machine, flags, cancel, slot, device, front>>

HandBackRefused ==
    /\ "refusal" \in world /\ pc = "handback" /\ owes # "none" /\ lock = "free"
    /\ Park("GaveUp")
    /\ UNCHANGED <<staged, owes, seen, placed, if, old, machine, flags, cancel, slot, device, front>>

\* stage_the_legacy_interrupt: the request is looked at without the lock.
Stage ==
    /\ pc = "stage"
    /\ IF extIntPending
       THEN Goto("stageLocked") /\ staged' = staged
       ELSE Goto("enter") /\ staged' = "clear"
    /\ UNCHANGED <<why, owes, seen, placed, if, old, machine, flags, cancel, slot, device, front>>

\* Bug: a guest that could not take the vector is not recorded as blocked.
StageNotDeliverableForgotten ==
    /\ pc = "stageLocked" /\ lock = "free" /\ (~lint0 \/ ~seen)
    /\ staged' = "owed" /\ Goto("enter")
    /\ UNCHANGED <<why, owes, seen, placed, if, old, machine, flags, cancel, slot, device, front>>

\* The line is masked, or the guest cannot take a delivery: the vector stays
\* owed, and only the second is recorded.
StageNotDeliverable ==
    /\ pc = "stageLocked" /\ lock = "free" /\ (~lint0 \/ ~seen)
    /\ extIntBlocked' = (IF lint0 THEN TRUE ELSE extIntBlocked)
    /\ staged' = "owed" /\ Goto("enter")
    /\ UNCHANGED <<why, owes, seen, placed, if, old, machine, exitRequested, extIntPending,
                   inRun, resetOwed, cancel, slot, device, front>>

\* The acknowledge: a vector is placed, or the pin had fallen.
StageDelivers ==
    /\ pc = "stageLocked" /\ lock = "free" /\ lint0 /\ seen
    /\ extIntBlocked' = FALSE /\ extIntPending' = FALSE
    /\ pin' = FALSE
    /\ placed' = (placed \/ pin) /\ seen' = (seen /\ ~pin)
    /\ staged' = "clear" /\ Goto("enter")
    /\ UNCHANGED <<why, owes, if, old, lock, lint0, stop, exitRequested, inRun, resetOwed,
                   cancel, slot, device, front>>

\* The acknowledge is made and the platform refuses the event, or refuses to end
\* the processor's halt once the event is placed: the request stays.
StageRefused ==
    /\ "refusal" \in world /\ pc = "stageLocked" /\ lock = "free" /\ lint0 /\ seen /\ pin
    /\ extIntBlocked' = FALSE /\ pin' = FALSE
    /\ placed' \in {placed, TRUE}
    /\ Park("GaveUp")
    /\ UNCHANGED <<staged, owes, seen, if, old, lock, lint0, stop, exitRequested,
                   extIntPending, inRun, resetOwed, cancel, slot, device, front>>

Enter ==
    /\ pc = "enter"
    /\ inRun' = TRUE /\ Goto("recheck")
    /\ UNCHANGED <<why, staged, owes, seen, placed, if, old, machine, exitRequested, extIntPending,
                   extIntBlocked, resetOwed, cancel, slot, device, front>>

\* Bug: the request is not looked at again under in_run.
RecheckNothing ==
    /\ pc = "recheck"
    /\ Goto("recheckReset") /\ inRun' = inRun
    /\ UNCHANGED <<why, staged, owes, seen, placed, if, old, machine, exitRequested, extIntPending,
                   extIntBlocked, resetOwed, cancel, slot, device, front>>

\* A request that the staging's last look found clear may have gone unannounced.
Recheck ==
    /\ pc = "recheck"
    /\ IF staged = "clear" /\ extIntPending
       THEN Goto("head") /\ inRun' = FALSE /\ staged' = "clear"
       ELSE Goto("recheckReset") /\ UNCHANGED <<inRun, staged>>
    /\ UNCHANGED <<why, owes, seen, placed, if, old, machine, exitRequested, extIntPending,
                   extIntBlocked, resetOwed, cancel, slot, device, front>>

\* Bug: a reset is not looked for again under in_run.
RecheckNoReset ==
    /\ pc = "recheckReset"
    /\ Goto("run") /\ inRun' = inRun
    /\ UNCHANGED <<why, staged, owes, seen, placed, if, old, machine, exitRequested, extIntPending,
                   extIntBlocked, resetOwed, cancel, slot, device, front>>

RecheckReset ==
    /\ pc = "recheckReset"
    /\ IF resetOwed
       THEN Goto("head") /\ inRun' = FALSE /\ staged' = "clear"
       ELSE Goto("run") /\ UNCHANGED <<inRun, staged>>
    /\ UNCHANGED <<why, owes, seen, placed, if, old, machine, exitRequested, extIntPending,
                   extIntBlocked, resetOwed, cancel, slot, device, front>>

-----------------------------------------------------------------------------
(* The partition, while the thread is inside WHvRunVirtualProcessor. *)

\* The guest returns from its handler, or changes its own IF.
GuestIret ==
    /\ pc = "run" /\ if = "handler"
    /\ if' = "open"
    /\ UNCHANGED <<pc, why, staged, owes, seen, placed, old, machine, flags, cancel, slot, device, front>>

GuestSetsIf ==
    /\ pc = "run" /\ ~placed
    /\ if' \in Ifs
    /\ UNCHANGED <<pc, why, staged, owes, seen, placed, old, machine, flags, cancel, slot, device, front>>

\* The placed vector is delivered.
GuestTakes ==
    /\ pc = "run" /\ placed /\ if = "open"
    /\ placed' = FALSE /\ if' = "handler"
    /\ UNCHANGED <<pc, why, staged, owes, seen, old, machine, flags, cancel, slot, device, front>>

\* The run ends: cancelled, on an exit of the guest's own, or refused because
\* the placed vector cannot be taken.
RunCancelled ==
    /\ pc = "run" /\ cancel
    /\ cancel' = FALSE /\ Goto("left") /\ staged' = "clear"
    /\ UNCHANGED <<why, owes, seen, placed, if, old, machine, flags, slot, device, front>>

RunExits ==
    /\ pc = "run"
    /\ Goto("left") /\ staged' = "clear"
    /\ UNCHANGED <<why, owes, seen, placed, if, old, machine, flags, cancel, slot, device, front>>

RunRefused ==
    /\ pc = "run" /\ ("refusal" \in world \/ (placed /\ if # "open"))
    /\ inRun' = FALSE /\ Park("GaveUp") /\ staged' = "clear"
    /\ UNCHANGED <<owes, seen, placed, if, old, machine, exitRequested, extIntPending,
                   extIntBlocked, resetOwed, cancel, slot, device, front>>

Left ==
    /\ pc = "left"
    /\ inRun' = FALSE /\ Goto("service")
    /\ UNCHANGED <<why, staged, owes, seen, placed, if, old, machine, exitRequested, extIntPending,
                   extIntBlocked, resetOwed, cancel, slot, device, front>>

-----------------------------------------------------------------------------
(* service, under the machine's lock from its first look to its last. *)

\* The machine was reset after the exit was taken: the exit is nobody's.
ServiceStale ==
    /\ pc = "service" /\ lock = "free" /\ resetOwed
    /\ Goto("head")
    /\ UNCHANGED <<why, staged, owes, seen, placed, if, old, machine, flags, cancel, slot, device, front>>

\* The wheel is caught up before anything answers, which publishes the pin that
\* the boundary finds; p is that pin.  in_run is down, so nothing is cancelled.
Published(p) == extIntPending' = (extIntPending \/ p)

ServiceStopped ==
    /\ pc = "service" /\ lock = "free" /\ ~resetOwed /\ stop # "none"
    /\ \E p \in Raised : pin' = p /\ Published(p)
    /\ Park(FromStop(stop))
    /\ UNCHANGED <<staged, owes, seen, placed, if, old, lock, lint0, stop, exitRequested,
                   extIntBlocked, inRun, resetOwed, cancel, slot, device, front>>

\* A triple fault the hardware took: the machine resets, or the processor stays
\* in its shutdown.
ServiceTripleFault ==
    /\ pc = "service" /\ lock = "free" /\ ~resetOwed /\ stop = "none"
    /\ \/ "reset" \in world /\ MachineReset /\ Goto("head") /\ why' = why
       \/ /\ Park("GaveUp")
          /\ \E p \in Raised : pin' = p /\ Published(p)
          /\ UNCHANGED <<old, lint0, extIntBlocked, resetOwed>>
    /\ UNCHANGED <<staged, owes, seen, placed, if, lock, stop, exitRequested, inRun, cancel, slot,
                   device, front>>

\* The errand: the header is taken, which refreshes the inject cache, and the
\* guest reprograms its interrupt controllers or powers the machine off; it may
\* end in a shutdown.
ServiceAnswers ==
    /\ pc = "service" /\ lock = "free" /\ ~resetOwed /\ stop = "none"
    /\ \E p \in Raised : Published(p)
    /\ pin' \in Pins /\ lint0' \in Lines
    /\ stop' \in (IF "stop" \in world THEN {"none", "off"} ELSE {"none"})
    /\ seen' = (if = "open" /\ ~placed)
    /\ old' = Copied("partition", "machine")
    /\ \/ Goto("head") /\ why' = why
       \/ Park("GaveUp")
    /\ UNCHANGED <<staged, owes, placed, if, lock, exitRequested, extIntBlocked, inRun,
                   resetOwed, cancel, slot, device, front>>

\* An errand that asks for a reset has it before the lock is let go.
ServiceResets ==
    /\ "reset" \in world /\ pc = "service" /\ lock = "free" /\ ~resetOwed /\ stop = "none"
    /\ seen' = (if = "open" /\ ~placed)
    /\ MachineReset
    /\ Goto("head")
    /\ UNCHANGED <<why, staged, owes, placed, if, lock, stop, exitRequested, inRun, cancel, slot, device, front>>

\* A boundary that fails, or an errand that fails after its header is taken.
ServiceFails ==
    /\ "refusal" \in world /\ pc = "service" /\ lock = "free" /\ ~resetOwed
    /\ \E p \in Raised : pin' = p /\ Published(p)
    /\ \/ UNCHANGED <<seen, old>>
       \/ stop = "none" /\ seen' = (if = "open" /\ ~placed) /\ old' = Copied("partition", "machine")
    /\ Park("GaveUp")
    /\ UNCHANGED <<staged, owes, placed, if, lock, lint0, stop, exitRequested,
                   extIntBlocked, inRun, resetOwed, cancel, slot, device, front>>

-----------------------------------------------------------------------------
(* The device thread. *)

DevStops ==
    /\ dpc = "loop" /\ devStop
    /\ dpc' = "done"
    /\ UNCHANGED <<thread, machine, flags, cancel, slot, dwhy, devRun, devStop, front>>

\* ext_int_request up to its look at in_run: only the one that raises the
\* request cancels, unless the guest was found unable to take it.
DevServices ==
    /\ dpc = "loop" /\ devRun /\ ~devStop /\ lock = "free"
    /\ \E p \in Raised :
         /\ pin' = p /\ Published(p)
         /\ IF p /\ (~extIntPending \/ extIntBlocked)
            THEN dpc' = "look" /\ lock' = "device"
            ELSE dpc' = "after" /\ lock' = lock
    /\ dwhy' \in {IF stop = "none" THEN "none" ELSE FromStop(stop)}
                 \union (IF "refusal" \in world THEN {"GaveUp"} ELSE {})
    /\ UNCHANGED <<thread, lint0, stop, exitRequested, extIntBlocked, inRun, resetOwed,
                   cancel, slot, devRun, devStop, front>>

DevLooks ==
    /\ dpc = "look"
    /\ IF inRun
       THEN dpc' = "cancel" /\ lock' = lock
       ELSE dpc' = "after" /\ lock' = "free"
    /\ UNCHANGED <<thread, pin, lint0, stop, flags, cancel, slot, dwhy, devRun, devStop, front>>

DevCancels ==
    /\ dpc = "cancel"
    /\ cancel' = TRUE /\ dpc' = "after" /\ lock' = "free"
    /\ UNCHANGED <<thread, pin, lint0, stop, flags, slot, dwhy, devRun, devStop, front>>

\* A stop that the boundary reported parks the processor and pauses the devices:
\* request_park sets the reason, the flag, and cancels, in that order.
DevAsks ==
    /\ dpc = "after"
    /\ IF dwhy = "none"
       THEN dpc' = "loop" /\ slot' = slot
       ELSE dpc' = "flag" /\ slot' = Requested(dwhy)
    /\ dwhy' = "none"
    /\ UNCHANGED <<thread, machine, flags, cancel, devRun, devStop, front>>

DevFlags ==
    /\ dpc = "flag"
    /\ exitRequested' = TRUE /\ dpc' = "fetch"
    /\ UNCHANGED <<thread, machine, extIntPending, extIntBlocked, inRun, resetOwed, cancel, slot,
                   dwhy, devRun, devStop, front>>

DevFetches ==
    /\ dpc = "fetch"
    /\ cancel' = TRUE /\ dpc' = "pause"
    /\ UNCHANGED <<thread, machine, flags, slot, dwhy, devRun, devStop, front>>

DevPauses ==
    /\ dpc = "pause"
    /\ devRun' = FALSE /\ dpc' = "loop"
    /\ UNCHANGED <<thread, machine, flags, cancel, slot, dwhy, devStop, front>>

-----------------------------------------------------------------------------
(* The front end: one thread, which owns the FastMachine. *)

Adopted ==
    /\ fpc = "adopt" /\ slot.parked
    /\ fpc' = "idle"
    /\ UNCHANGED <<thread, machine, flags, cancel, slot, device, running, world>>

\* The clock and the devices first, then the processor: the flag, then the slot.
ResumeDevices ==
    /\ fpc = "idle" /\ ~running /\ lock = "free"
    /\ devRun' = TRUE /\ fpc' = "resumeFlag"
    /\ UNCHANGED <<thread, machine, flags, cancel, slot, dpc, dwhy, devStop, running, world>>

ResumeFlag ==
    /\ fpc = "resumeFlag"
    /\ exitRequested' = FALSE /\ fpc' = "resumeSlot"
    /\ UNCHANGED <<thread, machine, extIntPending, extIntBlocked, inRun, resetOwed, cancel, slot,
                   device, running, world>>

ResumeSlot ==
    /\ fpc = "resumeSlot"
    /\ slot' = [slot EXCEPT !.requested = "none", !.parked = FALSE]
    /\ running' = TRUE /\ fpc' = "idle"
    /\ UNCHANGED <<thread, machine, flags, cancel, device, world>>

PauseAsks ==
    /\ "pause" \in world /\ fpc = "idle" /\ running
    /\ slot' = Requested("Paused") /\ fpc' = "pauseFlag"
    /\ UNCHANGED <<thread, machine, flags, cancel, device, running, world>>

\* Bug: the cancel goes first, and the flag is never set behind it.
PauseFlagForgotten ==
    /\ fpc = "pauseFlag"
    /\ fpc' = "pauseFetch"
    /\ UNCHANGED <<thread, machine, flags, cancel, slot, device, running, world>>

PauseFlag ==
    /\ fpc = "pauseFlag"
    /\ exitRequested' = TRUE /\ fpc' = "pauseFetch"
    /\ UNCHANGED <<thread, machine, extIntPending, extIntBlocked, inRun, resetOwed, cancel, slot,
                   device, running, world>>

PauseFetch ==
    /\ fpc = "pauseFetch"
    /\ cancel' = TRUE /\ fpc' = "wait"
    /\ UNCHANGED <<thread, machine, flags, slot, device, running, world>>

\* The park is seen: the devices and the clock stop.
PauseSeen ==
    /\ fpc = "wait" /\ slot.parked /\ lock = "free"
    /\ devRun' = FALSE /\ running' = FALSE /\ fpc' = "idle"
    /\ UNCHANGED <<thread, machine, flags, cancel, slot, dpc, dwhy, devStop, world>>

\* The processor did not come back in time: the machine stays running.
PauseWedged ==
    /\ fpc = "wait" /\ ~slot.parked
    /\ fpc' = "idle"
    /\ UNCHANGED <<thread, machine, flags, cancel, slot, device, running, world>>

\* A reset through with_machine or with_machine_while_running.
FrontResets ==
    /\ "reset" \in world /\ fpc = "idle" /\ lock = "free"
    /\ MachineReset
    /\ lock' = "front" /\ fpc' = "resetLook"
    /\ UNCHANGED <<pc, why, staged, owes, seen, placed, if, stop, exitRequested, inRun, cancel, slot,
                   device, running, world>>

FrontLooks ==
    /\ fpc = "resetLook"
    /\ IF inRun
       THEN fpc' = "resetCancel" /\ lock' = lock
       ELSE fpc' = "idle" /\ lock' = "free"
    /\ UNCHANGED <<thread, pin, lint0, stop, flags, cancel, slot, device, running, world>>

FrontCancels ==
    /\ fpc = "resetCancel"
    /\ cancel' = TRUE /\ fpc' = "idle" /\ lock' = "free"
    /\ UNCHANGED <<thread, pin, lint0, stop, flags, slot, device, running, world>>

\* A host raises the machine's stop flag through its clone, and lowers it.
HostStops ==
    /\ "stop" \in world /\ fpc = "idle"
    /\ stop' = IF stop = "none" THEN "host" ELSE "none"
    /\ UNCHANGED <<thread, lock, pin, lint0, flags, cancel, slot, device, front>>

\* Drop: everybody is told to stop before anybody is joined.
DropDevices ==
    /\ "drop" \in world /\ fpc = "idle"
    /\ devStop' = TRUE /\ fpc' = "stopSlot"
    /\ UNCHANGED <<thread, machine, flags, cancel, slot, dpc, dwhy, devRun, running, world>>

\* Bug: a stop asks for the park only, as a pause does.
DropSlotUnmarked ==
    /\ fpc = "stopSlot"
    /\ slot' = Requested("Paused") /\ fpc' = "stopFlag"
    /\ UNCHANGED <<thread, machine, flags, cancel, device, running, world>>

DropSlot ==
    /\ fpc = "stopSlot"
    /\ slot' = [Requested("Paused") EXCEPT !.stop = TRUE] /\ fpc' = "stopFlag"
    /\ UNCHANGED <<thread, machine, flags, cancel, device, running, world>>

DropFlag ==
    /\ fpc = "stopFlag"
    /\ exitRequested' = TRUE /\ fpc' = "stopFetch"
    /\ UNCHANGED <<thread, machine, extIntPending, extIntBlocked, inRun, resetOwed, cancel, slot,
                   device, running, world>>

DropFetch ==
    /\ fpc = "stopFetch"
    /\ cancel' = TRUE /\ fpc' = "join"
    /\ UNCHANGED <<thread, machine, flags, slot, device, running, world>>

\* The device thread is joined, and the processor's once it has left.
DropJoins ==
    /\ fpc = "join" /\ dpc = "done" /\ pc = "done"
    /\ fpc' = "gone"
    /\ UNCHANGED <<thread, machine, flags, cancel, slot, device, running, world>>

-----------------------------------------------------------------------------
Loop ==
    \/ Head \/ ReadReason \/ SwapReset \/ InstallReset \/ InstallRefused
    \/ HandBack \/ HandBackRefused
    \/ Stage \/ StageNotDeliverable \/ StageDelivers \/ StageRefused
    \/ Enter \/ Recheck \/ RecheckReset \/ Left

Parking == Home \/ Import \/ ImportRefused \/ Publish \/ Wake

Partition == GuestIret \/ GuestSetsIf \/ GuestTakes \/ RunCancelled \/ RunExits \/ RunRefused

Service ==
    \/ ServiceStale \/ ServiceStopped \/ ServiceTripleFault
    \/ ServiceAnswers \/ ServiceResets \/ ServiceFails

Device ==
    \/ DevStops \/ DevServices \/ DevLooks \/ DevCancels
    \/ DevAsks \/ DevFlags \/ DevFetches \/ DevPauses

\* What the front end does once it has begun, and what it may begin.
FrontGoesOn ==
    \/ Adopted \/ ResumeFlag \/ ResumeSlot
    \/ PauseFlag \/ PauseFetch \/ PauseSeen
    \/ FrontLooks \/ FrontCancels
    \/ DropSlot \/ DropFlag \/ DropFetch \/ DropJoins

FrontBegins == ResumeDevices \/ PauseAsks \/ PauseWedged \/ FrontResets \/ HostStops \/ DropDevices

Next == Loop \/ Parking \/ Partition \/ Service \/ Device \/ FrontGoesOn \/ FrontBegins

Spec == Init /\ [][Next]_vars

\* The host schedules its threads, and the device thread sleeps between its
\* services, so the processor's thread is not kept from a lock that others only
\* pass through, nor the guest from executing by cancels alone.  A run that is
\* cancelled ends.  Nothing obliges a guest to exit by itself or the front end
\* to begin anything.
Fairness ==
    /\ SF_vars(Loop \/ Parking \/ Service)
    /\ WF_vars(RunCancelled) /\ SF_vars(GuestIret) /\ SF_vars(GuestTakes)
    /\ WF_vars(Device) /\ WF_vars(FrontGoesOn)

FairSpec == Spec /\ Fairness

-----------------------------------------------------------------------------
(* What the flags promise each other.  ext_int_pending, reset_owed and in_run
   are written and read by different threads without a common lock. *)

\* A guest never runs on beside an interrupt that was raised after the staging
\* looked: the run is about to be cancelled.  (The other requests, which the
\* staging left standing on purpose, are asked for again by a later boundary.)
FetchedForInterrupt ==
    pc = "run" /\ staged = "clear" /\ extIntPending => cancel \/ dpc \in {"look", "cancel"}

\* A guest that a reset has replaced never runs on: the run is about to be
\* cancelled, and the reset is installed before the next.
FetchedForReset ==
    pc = "run" /\ resetOwed => cancel \/ fpc \in {"resetLook", "resetCancel"}

\* A pause brings the processor out of its run, whatever else is going on:
\* exits, interrupts, resets, a stop of the machine, a cancel that was spent on
\* another entry.
PauseParks == fpc = "wait" ~> slot.parked

\* A dropped machine's processor thread ends, from wherever it was.
StopEnds == fpc = "join" ~> pc = "done"

\* Nobody waits in a park that nobody asks for: a thread that means to park for a
\* request finds the request withdrawn, or is woken, whether the resume came before
\* the park, in it, or between a second request's reason and its flag.
WithdrawnParkEnds ==
    (pc = "parked" /\ why = "Paused" /\ slot.requested = "none") ~> pc # "parked"

\* The pin is acknowledged, if from some time on the guest leaves its interrupts
\* enabled outside its handlers and its line unmasked, and unless the machine
\* stops or is paused: a guest that was found in a handler is asked again though
\* its IRET is no exit.
Receptive == if # "closed" /\ lint0
InterruptTaken ==
    <>[]Receptive => (pin ~> (~pin \/ slot.parked \/ ~devRun \/ devStop))

\* A park never puts the processor that a reset replaced back over the reset
\* processor in the machine (bring_the_shadow_home).
ResetNotUndone == "machine" \notin old

=============================================================================
