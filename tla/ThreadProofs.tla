---------------------------- MODULE ThreadProofs ----------------------------
(***************************************************************************)
(* The threads of the hardware engine, for every mixture of what may       *)
(* happen around them.                                                     *)
(*                                                                         *)
(* No run goes on beside an interrupt or a reset that it was not told of.  *)
(* The argument is the one of a flag raised before a flag is read, on both *)
(* sides: the raiser sets the request and then looks at in_run; the thread *)
(* sets in_run and then looks at the request.  The invariant says where    *)
(* in_run is up, that a raiser that has yet to look or to cancel holds the *)
(* machine's lock, and that from the thread's second look on a request     *)
(* that it does not know of has its cancel latched or on its way.          *)
(*                                                                         *)
(* The device thread sleeps through no change.  NoChangeSleptThrough is    *)
(* inductive together with the types and with ClockRuns: a thread that is  *)
(* meant to run never reads a stopped clock, so that it waits for          *)
(* something to be armed only when nothing is.                             *)
(***************************************************************************)
EXTENDS VcpuThread, DeviceWait, TLAPS

\* The type invariant in two parts: the flags, and what has more than two values.
Flags ==
    /\ seen \in BOOLEAN /\ placed \in BOOLEAN /\ cancel \in BOOLEAN
    /\ exitRequested \in BOOLEAN /\ extIntPending \in BOOLEAN
    /\ extIntBlocked \in BOOLEAN /\ inRun \in BOOLEAN /\ resetOwed \in BOOLEAN
    /\ pin \in BOOLEAN /\ lint0 \in BOOLEAN
    /\ devRun \in BOOLEAN /\ devStop \in BOOLEAN /\ running \in BOOLEAN

Places ==
    /\ pc \in InLoop \union InPark \union {"done"} /\ why \in Reasons
    /\ staged \in {"clear", "owed"} /\ owes \in {"none", "park", "all"}
    /\ if \in {"open", "closed", "handler"} /\ old \subseteq {"machine", "partition"}
    /\ slot \in ParkSlot
    /\ lock \in {"free", "device", "front"} /\ stop \in {"none", "host", "off"}
    /\ dpc \in {"loop", "look", "cancel", "after", "flag", "fetch", "pause", "done"}
    /\ dwhy \in Request
    /\ fpc \in {"adopt", "idle", "resumeFlag", "resumeSlot", "pauseFlag", "pauseFetch",
                "wait", "resetLook", "resetCancel", "stopSlot", "stopFlag", "stopFetch",
                "join", "gone"}
    /\ world \in Worlds

\* in_run is up from just before the second look to just after the run.
InRunWhere == inRun <=> pc \in {"recheck", "recheckReset", "run", "left"}

\* The machine's lock is held by whoever is about to look or to cancel.
LockWhere ==
    /\ lock = "device" <=> dpc \in {"look", "cancel"}
    /\ lock = "front" <=> fpc \in {"resetLook", "resetCancel"}

\* FetchedForInterrupt from the second look on.
InterruptAnnounced ==
    pc \in {"recheckReset", "run"} /\ staged = "clear" /\ extIntPending
        => cancel \/ dpc \in {"look", "cancel"}

Inv == Flags /\ Places /\ InRunWhere /\ LockWhere /\ InterruptAnnounced /\ FetchedForReset

\* The threads begin with nothing raised and the processor outside a run.
LEMMA InvInit == Init => Inv
<1> SUFFICES ASSUME Init PROVE Inv
    OBVIOUS
<1> USE DEF Init
<1>1. Flags
    BY Zenon DEF Flags, Pins, Lines
<1>2. Places
    BY DEF Places, InLoop, InPark, Reasons, Request, ParkSlot
<1>3. InRunWhere /\ LockWhere /\ InterruptAnnounced /\ FetchedForReset
    BY DEF InRunWhere, LockWhere, InterruptAnnounced, FetchedForReset
<1> QED BY <1>1, <1>2, <1>3 DEF Inv

\* The invariant is kept by every step of the processor thread's loop.
LEMMA LoopKeeps == Inv /\ Loop => Inv'
<1> SUFFICES ASSUME Flags, Places, InRunWhere, LockWhere, InterruptAnnounced, FetchedForReset,
                    Loop
             PROVE  Inv'
    BY DEF Inv
<1> USE DEF flags, machine, thread, device, front
<1>1. CASE Head
  <2> USE <1>1 DEF Head, Goto
  <2>1. Flags'
      BY DEF Flags
  <2>2. Places'
      BY DEF Places, InLoop, InPark, Reasons, Request, ParkSlot
  <2>3. InRunWhere' /\ LockWhere'
      BY DEF InRunWhere, LockWhere, Flags, Places
  <2>4. InterruptAnnounced' /\ FetchedForReset'
      BY DEF InterruptAnnounced, FetchedForReset, InRunWhere, LockWhere, Flags, Places
  <2> QED BY <2>1, <2>2, <2>3, <2>4 DEF Inv
<1>2. CASE ReadReason
  <2> USE <1>2 DEF ReadReason, Park
  <2>1. Flags'
      BY DEF Flags
  <2>2. Places'
      BY DEF Places, InLoop, InPark, Reasons, Request, ParkSlot
  <2>3. InRunWhere' /\ LockWhere'
      BY DEF InRunWhere, LockWhere, Flags, Places
  <2>4. InterruptAnnounced' /\ FetchedForReset'
      BY DEF InterruptAnnounced, FetchedForReset, InRunWhere, LockWhere, Flags, Places
  <2> QED BY <2>1, <2>2, <2>3, <2>4 DEF Inv
<1>3. CASE SwapReset
  <2> USE <1>3 DEF SwapReset, Goto
  <2>1. Flags'
      BY ZenonT(60) DEF Flags
  <2>2. Places'
      BY DEF Places, InLoop, InPark, Reasons, Request, ParkSlot
  <2>3. InRunWhere' /\ LockWhere'
      BY DEF InRunWhere, LockWhere, Flags, Places
  <2>4. InterruptAnnounced' /\ FetchedForReset'
      BY DEF InterruptAnnounced, FetchedForReset, InRunWhere, LockWhere, Flags, Places
  <2> QED BY <2>1, <2>2, <2>3, <2>4 DEF Inv
<1>4. CASE InstallReset
  <2> USE <1>4 DEF InstallReset, Goto
  <2>1. Flags'
      BY ZenonT(60) DEF Flags
  <2>2. Places'
      BY DEF Places, InLoop, InPark, Reasons, Request, ParkSlot
  <2>3. InRunWhere' /\ LockWhere'
      BY DEF InRunWhere, LockWhere, Flags, Places
  <2>4. InterruptAnnounced' /\ FetchedForReset'
      BY DEF InterruptAnnounced, FetchedForReset, InRunWhere, LockWhere, Flags, Places
  <2> QED BY <2>1, <2>2, <2>3, <2>4 DEF Inv
<1>5. CASE InstallRefused
  <2> USE <1>5 DEF InstallRefused, Park
  <2>1. Flags'
      BY DEF Flags
  <2>2. Places'
      BY DEF Places, InLoop, InPark, Reasons, Request, ParkSlot
  <2>3. InRunWhere' /\ LockWhere'
      BY DEF InRunWhere, LockWhere, Flags, Places
  <2>4. InterruptAnnounced' /\ FetchedForReset'
      BY DEF InterruptAnnounced, FetchedForReset, InRunWhere, LockWhere, Flags, Places
  <2> QED BY <2>1, <2>2, <2>3, <2>4 DEF Inv
<1>6. CASE HandBack
  <2> USE <1>6 DEF HandBack, Goto, Copied, Ifs
  <2>1. Flags'
      BY ZenonT(60) DEF Flags
  <2>2. Places'
    <3>1. slot' \in ParkSlot
        BY DEF Places, Reasons, Request, ParkSlot
    <3>2. old' \subseteq {"machine", "partition"}
        BY Zenon DEF Places
    <3> QED BY <3>1, <3>2 DEF Places, InLoop, InPark, Reasons
  <2>3. InRunWhere' /\ LockWhere'
      BY DEF InRunWhere, LockWhere, Flags, Places
  <2>4. InterruptAnnounced' /\ FetchedForReset'
      BY DEF InterruptAnnounced, FetchedForReset, InRunWhere, LockWhere, Flags, Places
  <2> QED BY <2>1, <2>2, <2>3, <2>4 DEF Inv
<1>7. CASE HandBackRefused
  <2> USE <1>7 DEF HandBackRefused, Park
  <2>1. Flags'
      BY DEF Flags
  <2>2. Places'
      BY DEF Places, InLoop, InPark, Reasons, Request, ParkSlot
  <2>3. InRunWhere' /\ LockWhere'
      BY DEF InRunWhere, LockWhere, Flags, Places
  <2>4. InterruptAnnounced' /\ FetchedForReset'
      BY DEF InterruptAnnounced, FetchedForReset, InRunWhere, LockWhere, Flags, Places
  <2> QED BY <2>1, <2>2, <2>3, <2>4 DEF Inv
<1>8. CASE Stage
  <2> USE <1>8 DEF Stage, Goto
  <2>1. Flags'
      BY DEF Flags
  <2>2. Places'
      BY DEF Places, InLoop, InPark, Reasons, Request, ParkSlot
  <2>3. InRunWhere' /\ LockWhere'
      BY DEF InRunWhere, LockWhere, Flags, Places
  <2>4. InterruptAnnounced' /\ FetchedForReset'
      BY DEF InterruptAnnounced, FetchedForReset, InRunWhere, LockWhere, Flags, Places
  <2> QED BY <2>1, <2>2, <2>3, <2>4 DEF Inv
<1>9. CASE StageNotDeliverable
  <2> USE <1>9 DEF StageNotDeliverable, Goto
  <2>1. Flags'
      BY ZenonT(60) DEF Flags
  <2>2. Places'
      BY DEF Places, InLoop, InPark, Reasons, Request, ParkSlot
  <2>3. InRunWhere' /\ LockWhere'
      BY DEF InRunWhere, LockWhere, Flags, Places
  <2>4. InterruptAnnounced' /\ FetchedForReset'
      BY DEF InterruptAnnounced, FetchedForReset, InRunWhere, LockWhere, Flags, Places
  <2> QED BY <2>1, <2>2, <2>3, <2>4 DEF Inv
<1>10. CASE StageDelivers
  <2> USE <1>10 DEF StageDelivers, Goto
  <2>1. Flags'
      BY Zenon DEF Flags
  <2>2. Places'
      BY DEF Places, InLoop, InPark, Reasons, Request, ParkSlot
  <2>3. InRunWhere' /\ LockWhere'
      BY DEF InRunWhere, LockWhere, Flags, Places
  <2>4. InterruptAnnounced' /\ FetchedForReset'
      BY DEF InterruptAnnounced, FetchedForReset, InRunWhere, LockWhere, Flags, Places
  <2> QED BY <2>1, <2>2, <2>3, <2>4 DEF Inv
<1>11. CASE StageRefused
  <2> USE <1>11 DEF StageRefused, Park
  <2>1. Flags'
      BY Zenon DEF Flags
  <2>2. Places'
      BY DEF Places, InLoop, InPark, Reasons, Request, ParkSlot
  <2>3. InRunWhere' /\ LockWhere'
      BY DEF InRunWhere, LockWhere, Flags, Places
  <2>4. InterruptAnnounced' /\ FetchedForReset'
      BY DEF InterruptAnnounced, FetchedForReset, InRunWhere, LockWhere, Flags, Places
  <2> QED BY <2>1, <2>2, <2>3, <2>4 DEF Inv
<1>12. CASE Enter
  <2> USE <1>12 DEF Enter, Goto
  <2>1. Flags'
      BY DEF Flags
  <2>2. Places'
      BY DEF Places, InLoop, InPark, Reasons, Request, ParkSlot
  <2>3. InRunWhere' /\ LockWhere'
      BY DEF InRunWhere, LockWhere, Flags, Places
  <2>4. InterruptAnnounced' /\ FetchedForReset'
      BY DEF InterruptAnnounced, FetchedForReset, InRunWhere, LockWhere, Flags, Places
  <2> QED BY <2>1, <2>2, <2>3, <2>4 DEF Inv
<1>13. CASE Recheck
  <2> USE <1>13 DEF Recheck, Goto
  <2>1. Flags'
    <3>1. inRun' \in BOOLEAN
        BY Zenon DEF Flags
    <3> QED BY <3>1, ZenonT(60) DEF Flags
  <2>2. Places'
      BY DEF Places, InLoop, InPark, Reasons, Request, ParkSlot
  <2>3. InRunWhere' /\ LockWhere'
      BY Zenon DEF InRunWhere, LockWhere, Flags, Places
  <2>4. InterruptAnnounced' /\ FetchedForReset'
      BY Zenon DEF InterruptAnnounced, FetchedForReset, InRunWhere, LockWhere, Flags, Places
  <2> QED BY <2>1, <2>2, <2>3, <2>4 DEF Inv
<1>14. CASE RecheckReset
  <2> USE <1>14 DEF RecheckReset, Goto
  <2>1. Flags'
    <3>1. inRun' \in BOOLEAN
        BY Zenon DEF Flags
    <3> QED BY <3>1, ZenonT(60) DEF Flags
  <2>2. Places'
      BY DEF Places, InLoop, InPark, Reasons, Request, ParkSlot
  <2>3. InRunWhere' /\ LockWhere'
      BY Zenon DEF InRunWhere, LockWhere, Flags, Places
  <2>4. InterruptAnnounced' /\ FetchedForReset'
      BY Zenon DEF InterruptAnnounced, FetchedForReset, InRunWhere, LockWhere, Flags, Places
  <2> QED BY <2>1, <2>2, <2>3, <2>4 DEF Inv
<1>15. CASE Left
  <2> USE <1>15 DEF Left, Goto
  <2>1. Flags'
      BY ZenonT(60) DEF Flags
  <2>2. Places'
      BY DEF Places, InLoop, InPark, Reasons, Request, ParkSlot
  <2>3. InRunWhere' /\ LockWhere'
      BY DEF InRunWhere, LockWhere, Flags, Places
  <2>4. InterruptAnnounced' /\ FetchedForReset'
      BY DEF InterruptAnnounced, FetchedForReset, InRunWhere, LockWhere, Flags, Places
  <2> QED BY <2>1, <2>2, <2>3, <2>4 DEF Inv
<1> QED BY <1>1, <1>2, <1>3, <1>4, <1>5, <1>6, <1>7, <1>8, <1>9, <1>10, <1>11, <1>12, <1>13, <1>14, <1>15 DEF Loop

\* The invariant is kept by every step of a park.
LEMMA ParkingKeeps == Inv /\ Parking => Inv'
<1> SUFFICES ASSUME Flags, Places, InRunWhere, LockWhere, InterruptAnnounced, FetchedForReset,
                    Parking
             PROVE  Inv'
    BY DEF Inv
<1> USE DEF flags, machine, thread, device, front
<1>1. CASE Home
  <2> USE <1>1 DEF Home, Goto
  <2>1. Flags'
      BY DEF Flags
  <2>2. Places'
      BY DEF Places, InLoop, InPark, Reasons, Request, ParkSlot
  <2>3. InRunWhere' /\ LockWhere'
      BY DEF InRunWhere, LockWhere, Flags, Places
  <2>4. InterruptAnnounced' /\ FetchedForReset'
      BY DEF InterruptAnnounced, FetchedForReset, InRunWhere, LockWhere, Flags, Places
  <2> QED BY <2>1, <2>2, <2>3, <2>4 DEF Inv
<1>2. CASE Import
  <2> USE <1>2 DEF Import, Goto, Copied
  <2>1. Flags'
      BY DEF Flags
  <2>2. Places'
    <3>1. slot' \in ParkSlot
        BY DEF Places, Reasons, Request, ParkSlot
    <3>2. old' \subseteq {"machine", "partition"}
        BY Zenon DEF Places
    <3> QED BY <3>1, <3>2 DEF Places, InLoop, InPark, Reasons
  <2>3. InRunWhere' /\ LockWhere'
      BY DEF InRunWhere, LockWhere, Flags, Places
  <2>4. InterruptAnnounced' /\ FetchedForReset'
      BY DEF InterruptAnnounced, FetchedForReset, InRunWhere, LockWhere, Flags, Places
  <2> QED BY <2>1, <2>2, <2>3, <2>4 DEF Inv
<1>3. CASE ImportRefused
  <2> USE <1>3 DEF ImportRefused, Goto
  <2>1. Flags'
      BY DEF Flags
  <2>2. Places'
      BY DEF Places, InLoop, InPark, Reasons, Request, ParkSlot
  <2>3. InRunWhere' /\ LockWhere'
      BY DEF InRunWhere, LockWhere, Flags, Places
  <2>4. InterruptAnnounced' /\ FetchedForReset'
      BY DEF InterruptAnnounced, FetchedForReset, InRunWhere, LockWhere, Flags, Places
  <2> QED BY <2>1, <2>2, <2>3, <2>4 DEF Inv
<1>4. CASE Publish
  <2> USE <1>4 DEF Publish, Goto
  <2>1. Flags'
      BY DEF Flags
  <2>2. Places'
    <3>1. slot' \in ParkSlot
        BY Zenon DEF Places, Reasons, Request, ParkSlot
    <3>2. old' \subseteq {"machine", "partition"}
        BY DEF Places
    <3> QED BY <3>1, <3>2 DEF Places, InLoop, InPark, Reasons
  <2>3. InRunWhere' /\ LockWhere'
      BY DEF InRunWhere, LockWhere, Flags, Places
  <2>4. InterruptAnnounced' /\ FetchedForReset'
      BY DEF InterruptAnnounced, FetchedForReset, InRunWhere, LockWhere, Flags, Places
  <2> QED BY <2>1, <2>2, <2>3, <2>4 DEF Inv
<1>5. CASE Wake
  <2> USE <1>5 DEF Wake, Goto
  <2>1. Flags'
      BY DEF Flags
  <2>2. Places'
    <3>1. slot' \in ParkSlot
        BY Zenon DEF Places, Reasons, Request, ParkSlot
    <3>2. old' \subseteq {"machine", "partition"}
        BY DEF Places
    <3> QED BY <3>1, <3>2 DEF Places, InLoop, InPark, Reasons
  <2>3. InRunWhere' /\ LockWhere'
      BY DEF InRunWhere, LockWhere, Flags, Places
  <2>4. InterruptAnnounced' /\ FetchedForReset'
      BY DEF InterruptAnnounced, FetchedForReset, InRunWhere, LockWhere, Flags, Places
  <2> QED BY <2>1, <2>2, <2>3, <2>4 DEF Inv
<1> QED BY <1>1, <1>2, <1>3, <1>4, <1>5 DEF Parking

\* The invariant is kept by every step of the partition.
LEMMA PartitionKeeps == Inv /\ Partition => Inv'
<1> SUFFICES ASSUME Flags, Places, InRunWhere, LockWhere, InterruptAnnounced, FetchedForReset,
                    Partition
             PROVE  Inv'
    BY DEF Inv
<1> USE DEF flags, machine, thread, device, front
<1>1. CASE GuestIret
  <2> USE <1>1 DEF GuestIret
  <2>1. Flags'
      BY DEF Flags
  <2>2. Places'
      BY DEF Places, InLoop, InPark, Reasons, Request, ParkSlot
  <2>3. InRunWhere' /\ LockWhere'
      BY DEF InRunWhere, LockWhere, Flags, Places
  <2>4. InterruptAnnounced' /\ FetchedForReset'
      BY DEF InterruptAnnounced, FetchedForReset, InRunWhere, LockWhere, Flags, Places
  <2> QED BY <2>1, <2>2, <2>3, <2>4 DEF Inv
<1>2. CASE GuestSetsIf
  <2> USE <1>2 DEF GuestSetsIf, Ifs
  <2>1. Flags'
      BY DEF Flags
  <2>2. Places'
      BY DEF Places, InLoop, InPark, Reasons, Request, ParkSlot
  <2>3. InRunWhere' /\ LockWhere'
      BY DEF InRunWhere, LockWhere, Flags, Places
  <2>4. InterruptAnnounced' /\ FetchedForReset'
      BY DEF InterruptAnnounced, FetchedForReset, InRunWhere, LockWhere, Flags, Places
  <2> QED BY <2>1, <2>2, <2>3, <2>4 DEF Inv
<1>3. CASE GuestTakes
  <2> USE <1>3 DEF GuestTakes
  <2>1. Flags'
      BY ZenonT(60) DEF Flags
  <2>2. Places'
      BY DEF Places, InLoop, InPark, Reasons, Request, ParkSlot
  <2>3. InRunWhere' /\ LockWhere'
      BY DEF InRunWhere, LockWhere, Flags, Places
  <2>4. InterruptAnnounced' /\ FetchedForReset'
      BY DEF InterruptAnnounced, FetchedForReset, InRunWhere, LockWhere, Flags, Places
  <2> QED BY <2>1, <2>2, <2>3, <2>4 DEF Inv
<1>4. CASE RunCancelled
  <2> USE <1>4 DEF RunCancelled, Goto
  <2>1. Flags'
      BY ZenonT(60) DEF Flags
  <2>2. Places'
      BY DEF Places, InLoop, InPark, Reasons, Request, ParkSlot
  <2>3. InRunWhere' /\ LockWhere'
      BY DEF InRunWhere, LockWhere, Flags, Places
  <2>4. InterruptAnnounced' /\ FetchedForReset'
      BY DEF InterruptAnnounced, FetchedForReset, InRunWhere, LockWhere, Flags, Places
  <2> QED BY <2>1, <2>2, <2>3, <2>4 DEF Inv
<1>5. CASE RunExits
  <2> USE <1>5 DEF RunExits, Goto
  <2>1. Flags'
      BY DEF Flags
  <2>2. Places'
      BY DEF Places, InLoop, InPark, Reasons, Request, ParkSlot
  <2>3. InRunWhere' /\ LockWhere'
      BY DEF InRunWhere, LockWhere, Flags, Places
  <2>4. InterruptAnnounced' /\ FetchedForReset'
      BY DEF InterruptAnnounced, FetchedForReset, InRunWhere, LockWhere, Flags, Places
  <2> QED BY <2>1, <2>2, <2>3, <2>4 DEF Inv
<1>6. CASE RunRefused
  <2> USE <1>6 DEF RunRefused, Park
  <2>1. Flags'
      BY ZenonT(60) DEF Flags
  <2>2. Places'
      BY DEF Places, InLoop, InPark, Reasons, Request, ParkSlot
  <2>3. InRunWhere' /\ LockWhere'
      BY DEF InRunWhere, LockWhere, Flags, Places
  <2>4. InterruptAnnounced' /\ FetchedForReset'
      BY DEF InterruptAnnounced, FetchedForReset, InRunWhere, LockWhere, Flags, Places
  <2> QED BY <2>1, <2>2, <2>3, <2>4 DEF Inv
<1> QED BY <1>1, <1>2, <1>3, <1>4, <1>5, <1>6 DEF Partition

\* The invariant is kept by every step of servicing an exit.
LEMMA ServiceKeeps == Inv /\ Service => Inv'
<1> SUFFICES ASSUME Flags, Places, InRunWhere, LockWhere, InterruptAnnounced, FetchedForReset,
                    Service
             PROVE  Inv'
    BY DEF Inv
<1> USE DEF flags, machine, thread, device, front
<1>1. CASE ServiceStale
  <2> USE <1>1 DEF ServiceStale, Goto
  <2>1. Flags'
      BY DEF Flags
  <2>2. Places'
      BY DEF Places, InLoop, InPark, Reasons, Request, ParkSlot
  <2>3. InRunWhere' /\ LockWhere'
      BY DEF InRunWhere, LockWhere, Flags, Places
  <2>4. InterruptAnnounced' /\ FetchedForReset'
      BY DEF InterruptAnnounced, FetchedForReset, InRunWhere, LockWhere, Flags, Places
  <2> QED BY <2>1, <2>2, <2>3, <2>4 DEF Inv
<1>2. CASE ServiceStopped
  <2> USE <1>2 DEF ServiceStopped, Park, FromStop, Raised, Published, Pins
  <2>1. Flags'
      BY ZenonT(60) DEF Flags
  <2>2. Places'
      BY DEF Places, InLoop, InPark, Reasons, Request, ParkSlot
  <2>3. InRunWhere' /\ LockWhere'
      BY DEF InRunWhere, LockWhere, Flags, Places
  <2>4. InterruptAnnounced' /\ FetchedForReset'
      BY DEF InterruptAnnounced, FetchedForReset, InRunWhere, LockWhere, Flags, Places
  <2> QED BY <2>1, <2>2, <2>3, <2>4 DEF Inv
<1>3. CASE ServiceTripleFault
  <2> USE <1>3 DEF ServiceTripleFault, Goto, Park, MachineReset, Raised, Published, Lines, Pins
  <2>1. Flags'
      BY ZenonT(60) DEF Flags
  <2>2. Places'
    <3>1. slot' \in ParkSlot
        BY DEF Places, Reasons, Request, ParkSlot
    <3>2. old' \subseteq {"machine", "partition"}
      <4>1. old' = {"partition"} \/ old' = old
          BY Zenon
      <4> QED BY <4>1, Zenon DEF Places
    <3>3. pc' \in {"head", "home"} /\ why' \in Reasons
        BY Zenon DEF Places, Reasons
    <3> QED BY <3>1, <3>2, <3>3 DEF Places, InLoop, InPark
  <2>3. InRunWhere' /\ LockWhere'
      BY Zenon DEF InRunWhere, LockWhere, Flags, Places
  <2>4. InterruptAnnounced' /\ FetchedForReset'
      BY Zenon DEF InterruptAnnounced, FetchedForReset, InRunWhere, LockWhere, Flags, Places
  <2> QED BY <2>1, <2>2, <2>3, <2>4 DEF Inv
<1>4. CASE ServiceAnswers
  <2> USE <1>4 DEF ServiceAnswers, Goto, Park, Raised, Copied, Published, Pins, Lines
  <2>1. Flags'
      BY Zenon DEF Flags
  <2>2. Places'
    <3>1. slot' \in ParkSlot
        BY DEF Places, Reasons, Request, ParkSlot
    <3>2. old' \subseteq {"machine", "partition"}
        BY DEF Places
    <3>3. pc' \in {"head", "home"} /\ why' \in Reasons
        BY DEF Places, Reasons
    <3> QED BY <3>1, <3>2, <3>3 DEF Places, InLoop, InPark
  <2>3. InRunWhere' /\ LockWhere'
      BY DEF InRunWhere, LockWhere, Flags, Places
  <2>4. InterruptAnnounced' /\ FetchedForReset'
      BY DEF InterruptAnnounced, FetchedForReset, InRunWhere, LockWhere, Flags, Places
  <2> QED BY <2>1, <2>2, <2>3, <2>4 DEF Inv
<1>5. CASE ServiceResets
  <2> USE <1>5 DEF ServiceResets, Goto, MachineReset, Lines
  <2>1. Flags'
      BY Zenon DEF Flags
  <2>2. Places'
      BY DEF Places, InLoop, InPark, Reasons, Request, ParkSlot
  <2>3. InRunWhere' /\ LockWhere'
      BY DEF InRunWhere, LockWhere, Flags, Places
  <2>4. InterruptAnnounced' /\ FetchedForReset'
      BY DEF InterruptAnnounced, FetchedForReset, InRunWhere, LockWhere, Flags, Places
  <2> QED BY <2>1, <2>2, <2>3, <2>4 DEF Inv
<1>6. CASE ServiceFails
  <2> USE <1>6 DEF ServiceFails, Park, Raised, Copied, Published, Pins
  <2>1. Flags'
      BY ZenonT(60) DEF Flags
  <2>2. Places'
    <3>1. slot' \in ParkSlot
        BY DEF Places, Reasons, Request, ParkSlot
    <3>2. old' \subseteq {"machine", "partition"}
        BY Zenon DEF Places
    <3>3. pc' \in {"home"} /\ why' \in Reasons
        BY DEF Places, Reasons
    <3> QED BY <3>1, <3>2, <3>3 DEF Places, InLoop, InPark
  <2>3. InRunWhere' /\ LockWhere'
      BY DEF InRunWhere, LockWhere, Flags, Places
  <2>4. InterruptAnnounced' /\ FetchedForReset'
      BY DEF InterruptAnnounced, FetchedForReset, InRunWhere, LockWhere, Flags, Places
  <2> QED BY <2>1, <2>2, <2>3, <2>4 DEF Inv
<1> QED BY <1>1, <1>2, <1>3, <1>4, <1>5, <1>6 DEF Service

\* The invariant is kept by every step of the device thread.
LEMMA DeviceKeeps == Inv /\ Device => Inv'
<1> SUFFICES ASSUME Flags, Places, InRunWhere, LockWhere, InterruptAnnounced, FetchedForReset,
                    Device
             PROVE  Inv'
    BY DEF Inv
<1> USE DEF flags, machine, thread, device, front
<1>1. CASE DevStops
  <2> USE <1>1 DEF DevStops
  <2>1. Flags'
      BY DEF Flags
  <2>2. Places'
      BY DEF Places, InLoop, InPark, Reasons, Request, ParkSlot
  <2>3. InRunWhere' /\ LockWhere'
      BY DEF InRunWhere, LockWhere, Flags, Places
  <2>4. InterruptAnnounced' /\ FetchedForReset'
      BY DEF InterruptAnnounced, FetchedForReset, InRunWhere, LockWhere, Flags, Places
  <2> QED BY <2>1, <2>2, <2>3, <2>4 DEF Inv
<1>2. CASE DevServices
  <2> USE <1>2 DEF DevServices, FromStop, Raised, Published, Pins
  <2>1. Flags'
      BY ZenonT(60) DEF Flags
  <2>2. Places'
      BY DEF Places, InLoop, InPark, Reasons, Request, ParkSlot
  <2>3. InRunWhere' /\ LockWhere'
      BY DEF InRunWhere, LockWhere, Flags, Places
  <2>4. InterruptAnnounced' /\ FetchedForReset'
      BY DEF InterruptAnnounced, FetchedForReset, InRunWhere, LockWhere, Flags, Places
  <2> QED BY <2>1, <2>2, <2>3, <2>4 DEF Inv
<1>3. CASE DevLooks
  <2> USE <1>3 DEF DevLooks
  <2>1. Flags'
      BY DEF Flags
  <2>2. Places'
      BY DEF Places, InLoop, InPark, Reasons, Request, ParkSlot
  <2>3. InRunWhere' /\ LockWhere'
      BY DEF InRunWhere, LockWhere, Flags, Places
  <2>4. InterruptAnnounced' /\ FetchedForReset'
      BY DEF InterruptAnnounced, FetchedForReset, InRunWhere, LockWhere, Flags, Places
  <2> QED BY <2>1, <2>2, <2>3, <2>4 DEF Inv
<1>4. CASE DevCancels
  <2> USE <1>4 DEF DevCancels
  <2>1. Flags'
      BY DEF Flags
  <2>2. Places'
      BY DEF Places, InLoop, InPark, Reasons, Request, ParkSlot
  <2>3. InRunWhere' /\ LockWhere'
      BY DEF InRunWhere, LockWhere, Flags, Places
  <2>4. InterruptAnnounced' /\ FetchedForReset'
      BY DEF InterruptAnnounced, FetchedForReset, InRunWhere, LockWhere, Flags, Places
  <2> QED BY <2>1, <2>2, <2>3, <2>4 DEF Inv
<1>5. CASE DevAsks
  <2> USE <1>5 DEF DevAsks, Requested
  <2>1. Flags'
      BY DEF Flags
  <2>2. Places'
      BY DEF Places, InLoop, InPark, Reasons, Request, ParkSlot
  <2>3. InRunWhere' /\ LockWhere'
      BY DEF InRunWhere, LockWhere, Flags, Places
  <2>4. InterruptAnnounced' /\ FetchedForReset'
      BY DEF InterruptAnnounced, FetchedForReset, InRunWhere, LockWhere, Flags, Places
  <2> QED BY <2>1, <2>2, <2>3, <2>4 DEF Inv
<1>6. CASE DevFlags
  <2> USE <1>6 DEF DevFlags
  <2>1. Flags'
      BY DEF Flags
  <2>2. Places'
      BY DEF Places, InLoop, InPark, Reasons, Request, ParkSlot
  <2>3. InRunWhere' /\ LockWhere'
      BY DEF InRunWhere, LockWhere, Flags, Places
  <2>4. InterruptAnnounced' /\ FetchedForReset'
      BY DEF InterruptAnnounced, FetchedForReset, InRunWhere, LockWhere, Flags, Places
  <2> QED BY <2>1, <2>2, <2>3, <2>4 DEF Inv
<1>7. CASE DevFetches
  <2> USE <1>7 DEF DevFetches
  <2>1. Flags'
      BY DEF Flags
  <2>2. Places'
      BY DEF Places, InLoop, InPark, Reasons, Request, ParkSlot
  <2>3. InRunWhere' /\ LockWhere'
      BY DEF InRunWhere, LockWhere, Flags, Places
  <2>4. InterruptAnnounced' /\ FetchedForReset'
      BY DEF InterruptAnnounced, FetchedForReset, InRunWhere, LockWhere, Flags, Places
  <2> QED BY <2>1, <2>2, <2>3, <2>4 DEF Inv
<1>8. CASE DevPauses
  <2> USE <1>8 DEF DevPauses
  <2>1. Flags'
      BY ZenonT(60) DEF Flags
  <2>2. Places'
      BY DEF Places, InLoop, InPark, Reasons, Request, ParkSlot
  <2>3. InRunWhere' /\ LockWhere'
      BY DEF InRunWhere, LockWhere, Flags, Places
  <2>4. InterruptAnnounced' /\ FetchedForReset'
      BY DEF InterruptAnnounced, FetchedForReset, InRunWhere, LockWhere, Flags, Places
  <2> QED BY <2>1, <2>2, <2>3, <2>4 DEF Inv
<1> QED BY <1>1, <1>2, <1>3, <1>4, <1>5, <1>6, <1>7, <1>8 DEF Device

\* The invariant is kept by every step of a verb of the front end that has begun.
LEMMA FrontGoesOnKeeps == Inv /\ FrontGoesOn => Inv'
<1> SUFFICES ASSUME Flags, Places, InRunWhere, LockWhere, InterruptAnnounced, FetchedForReset,
                    FrontGoesOn
             PROVE  Inv'
    BY DEF Inv
<1> USE DEF flags, machine, thread, device, front
<1>1. CASE Adopted
  <2> USE <1>1 DEF Adopted
  <2>1. Flags'
      BY DEF Flags
  <2>2. Places'
      BY DEF Places, InLoop, InPark, Reasons, Request, ParkSlot
  <2>3. InRunWhere' /\ LockWhere'
      BY DEF InRunWhere, LockWhere, Flags, Places
  <2>4. InterruptAnnounced' /\ FetchedForReset'
      BY DEF InterruptAnnounced, FetchedForReset, InRunWhere, LockWhere, Flags, Places
  <2> QED BY <2>1, <2>2, <2>3, <2>4 DEF Inv
<1>2. CASE ResumeFlag
  <2> USE <1>2 DEF ResumeFlag
  <2>1. Flags'
      BY ZenonT(60) DEF Flags
  <2>2. Places'
      BY DEF Places, InLoop, InPark, Reasons, Request, ParkSlot
  <2>3. InRunWhere' /\ LockWhere'
      BY DEF InRunWhere, LockWhere, Flags, Places
  <2>4. InterruptAnnounced' /\ FetchedForReset'
      BY DEF InterruptAnnounced, FetchedForReset, InRunWhere, LockWhere, Flags, Places
  <2> QED BY <2>1, <2>2, <2>3, <2>4 DEF Inv
<1>3. CASE ResumeSlot
  <2> USE <1>3 DEF ResumeSlot
  <2>1. Flags'
      BY DEF Flags
  <2>2. Places'
    <3>1. slot' \in ParkSlot
        BY Zenon DEF Places, Reasons, Request, ParkSlot
    <3>2. old' \subseteq {"machine", "partition"}
        BY DEF Places
    <3> QED BY <3>1, <3>2 DEF Places, InLoop, InPark, Reasons
  <2>3. InRunWhere' /\ LockWhere'
      BY DEF InRunWhere, LockWhere, Flags, Places
  <2>4. InterruptAnnounced' /\ FetchedForReset'
      BY DEF InterruptAnnounced, FetchedForReset, InRunWhere, LockWhere, Flags, Places
  <2> QED BY <2>1, <2>2, <2>3, <2>4 DEF Inv
<1>4. CASE PauseFlag
  <2> USE <1>4 DEF PauseFlag
  <2>1. Flags'
      BY DEF Flags
  <2>2. Places'
      BY DEF Places, InLoop, InPark, Reasons, Request, ParkSlot
  <2>3. InRunWhere' /\ LockWhere'
      BY DEF InRunWhere, LockWhere, Flags, Places
  <2>4. InterruptAnnounced' /\ FetchedForReset'
      BY DEF InterruptAnnounced, FetchedForReset, InRunWhere, LockWhere, Flags, Places
  <2> QED BY <2>1, <2>2, <2>3, <2>4 DEF Inv
<1>5. CASE PauseFetch
  <2> USE <1>5 DEF PauseFetch
  <2>1. Flags'
      BY DEF Flags
  <2>2. Places'
      BY DEF Places, InLoop, InPark, Reasons, Request, ParkSlot
  <2>3. InRunWhere' /\ LockWhere'
      BY DEF InRunWhere, LockWhere, Flags, Places
  <2>4. InterruptAnnounced' /\ FetchedForReset'
      BY DEF InterruptAnnounced, FetchedForReset, InRunWhere, LockWhere, Flags, Places
  <2> QED BY <2>1, <2>2, <2>3, <2>4 DEF Inv
<1>6. CASE PauseSeen
  <2> USE <1>6 DEF PauseSeen
  <2>1. Flags'
      BY ZenonT(60) DEF Flags
  <2>2. Places'
      BY DEF Places, InLoop, InPark, Reasons, Request, ParkSlot
  <2>3. InRunWhere' /\ LockWhere'
      BY DEF InRunWhere, LockWhere, Flags, Places
  <2>4. InterruptAnnounced' /\ FetchedForReset'
      BY DEF InterruptAnnounced, FetchedForReset, InRunWhere, LockWhere, Flags, Places
  <2> QED BY <2>1, <2>2, <2>3, <2>4 DEF Inv
<1>7. CASE FrontLooks
  <2> USE <1>7 DEF FrontLooks
  <2>1. Flags'
      BY DEF Flags
  <2>2. Places'
      BY DEF Places, InLoop, InPark, Reasons, Request, ParkSlot
  <2>3. InRunWhere' /\ LockWhere'
      BY DEF InRunWhere, LockWhere, Flags, Places
  <2>4. InterruptAnnounced' /\ FetchedForReset'
      BY DEF InterruptAnnounced, FetchedForReset, InRunWhere, LockWhere, Flags, Places
  <2> QED BY <2>1, <2>2, <2>3, <2>4 DEF Inv
<1>8. CASE FrontCancels
  <2> USE <1>8 DEF FrontCancels
  <2>1. Flags'
      BY DEF Flags
  <2>2. Places'
      BY DEF Places, InLoop, InPark, Reasons, Request, ParkSlot
  <2>3. InRunWhere' /\ LockWhere'
      BY DEF InRunWhere, LockWhere, Flags, Places
  <2>4. InterruptAnnounced' /\ FetchedForReset'
      BY DEF InterruptAnnounced, FetchedForReset, InRunWhere, LockWhere, Flags, Places
  <2> QED BY <2>1, <2>2, <2>3, <2>4 DEF Inv
<1>9. CASE DropSlot
  <2> USE <1>9 DEF DropSlot, Requested
  <2>1. Flags'
      BY DEF Flags
  <2>2. Places'
    <3>1. slot' \in ParkSlot
        BY Zenon DEF Places, Reasons, Request, ParkSlot
    <3>2. old' \subseteq {"machine", "partition"}
        BY DEF Places
    <3> QED BY <3>1, <3>2 DEF Places, InLoop, InPark, Reasons
  <2>3. InRunWhere' /\ LockWhere'
      BY DEF InRunWhere, LockWhere, Flags, Places
  <2>4. InterruptAnnounced' /\ FetchedForReset'
      BY DEF InterruptAnnounced, FetchedForReset, InRunWhere, LockWhere, Flags, Places
  <2> QED BY <2>1, <2>2, <2>3, <2>4 DEF Inv
<1>10. CASE DropFlag
  <2> USE <1>10 DEF DropFlag
  <2>1. Flags'
      BY DEF Flags
  <2>2. Places'
      BY DEF Places, InLoop, InPark, Reasons, Request, ParkSlot
  <2>3. InRunWhere' /\ LockWhere'
      BY DEF InRunWhere, LockWhere, Flags, Places
  <2>4. InterruptAnnounced' /\ FetchedForReset'
      BY DEF InterruptAnnounced, FetchedForReset, InRunWhere, LockWhere, Flags, Places
  <2> QED BY <2>1, <2>2, <2>3, <2>4 DEF Inv
<1>11. CASE DropFetch
  <2> USE <1>11 DEF DropFetch
  <2>1. Flags'
      BY DEF Flags
  <2>2. Places'
      BY DEF Places, InLoop, InPark, Reasons, Request, ParkSlot
  <2>3. InRunWhere' /\ LockWhere'
      BY DEF InRunWhere, LockWhere, Flags, Places
  <2>4. InterruptAnnounced' /\ FetchedForReset'
      BY DEF InterruptAnnounced, FetchedForReset, InRunWhere, LockWhere, Flags, Places
  <2> QED BY <2>1, <2>2, <2>3, <2>4 DEF Inv
<1>12. CASE DropJoins
  <2> USE <1>12 DEF DropJoins
  <2>1. Flags'
      BY DEF Flags
  <2>2. Places'
      BY DEF Places, InLoop, InPark, Reasons, Request, ParkSlot
  <2>3. InRunWhere' /\ LockWhere'
      BY DEF InRunWhere, LockWhere, Flags, Places
  <2>4. InterruptAnnounced' /\ FetchedForReset'
      BY DEF InterruptAnnounced, FetchedForReset, InRunWhere, LockWhere, Flags, Places
  <2> QED BY <2>1, <2>2, <2>3, <2>4 DEF Inv
<1> QED BY <1>1, <1>2, <1>3, <1>4, <1>5, <1>6, <1>7, <1>8, <1>9, <1>10, <1>11, <1>12 DEF FrontGoesOn

\* The invariant is kept by every step of the front end beginning a verb.
LEMMA FrontBeginsKeeps == Inv /\ FrontBegins => Inv'
<1> SUFFICES ASSUME Flags, Places, InRunWhere, LockWhere, InterruptAnnounced, FetchedForReset,
                    FrontBegins
             PROVE  Inv'
    BY DEF Inv
<1> USE DEF flags, machine, thread, device, front
<1>1. CASE ResumeDevices
  <2> USE <1>1 DEF ResumeDevices
  <2>1. Flags'
      BY DEF Flags
  <2>2. Places'
      BY DEF Places, InLoop, InPark, Reasons, Request, ParkSlot
  <2>3. InRunWhere' /\ LockWhere'
      BY DEF InRunWhere, LockWhere, Flags, Places
  <2>4. InterruptAnnounced' /\ FetchedForReset'
      BY DEF InterruptAnnounced, FetchedForReset, InRunWhere, LockWhere, Flags, Places
  <2> QED BY <2>1, <2>2, <2>3, <2>4 DEF Inv
<1>2. CASE PauseAsks
  <2> USE <1>2 DEF PauseAsks, Requested
  <2>1. Flags'
      BY DEF Flags
  <2>2. Places'
      BY DEF Places, InLoop, InPark, Reasons, Request, ParkSlot
  <2>3. InRunWhere' /\ LockWhere'
      BY DEF InRunWhere, LockWhere, Flags, Places
  <2>4. InterruptAnnounced' /\ FetchedForReset'
      BY DEF InterruptAnnounced, FetchedForReset, InRunWhere, LockWhere, Flags, Places
  <2> QED BY <2>1, <2>2, <2>3, <2>4 DEF Inv
<1>3. CASE PauseWedged
  <2> USE <1>3 DEF PauseWedged
  <2>1. Flags'
      BY DEF Flags
  <2>2. Places'
      BY DEF Places, InLoop, InPark, Reasons, Request, ParkSlot
  <2>3. InRunWhere' /\ LockWhere'
      BY DEF InRunWhere, LockWhere, Flags, Places
  <2>4. InterruptAnnounced' /\ FetchedForReset'
      BY DEF InterruptAnnounced, FetchedForReset, InRunWhere, LockWhere, Flags, Places
  <2> QED BY <2>1, <2>2, <2>3, <2>4 DEF Inv
<1>4. CASE FrontResets
  <2> USE <1>4 DEF FrontResets, MachineReset, Lines
  <2>1. Flags'
      BY Zenon DEF Flags
  <2>2. Places'
      BY DEF Places, InLoop, InPark, Reasons, Request, ParkSlot
  <2>3. InRunWhere' /\ LockWhere'
      BY DEF InRunWhere, LockWhere, Flags, Places
  <2>4. InterruptAnnounced' /\ FetchedForReset'
      BY DEF InterruptAnnounced, FetchedForReset, InRunWhere, LockWhere, Flags, Places
  <2> QED BY <2>1, <2>2, <2>3, <2>4 DEF Inv
<1>5. CASE HostStops
  <2> USE <1>5 DEF HostStops
  <2>1. Flags'
      BY DEF Flags
  <2>2. Places'
      BY DEF Places, InLoop, InPark, Reasons, Request, ParkSlot
  <2>3. InRunWhere' /\ LockWhere'
      BY DEF InRunWhere, LockWhere, Flags, Places
  <2>4. InterruptAnnounced' /\ FetchedForReset'
      BY DEF InterruptAnnounced, FetchedForReset, InRunWhere, LockWhere, Flags, Places
  <2> QED BY <2>1, <2>2, <2>3, <2>4 DEF Inv
<1>6. CASE DropDevices
  <2> USE <1>6 DEF DropDevices
  <2>1. Flags'
      BY DEF Flags
  <2>2. Places'
      BY DEF Places, InLoop, InPark, Reasons, Request, ParkSlot
  <2>3. InRunWhere' /\ LockWhere'
      BY DEF InRunWhere, LockWhere, Flags, Places
  <2>4. InterruptAnnounced' /\ FetchedForReset'
      BY DEF InterruptAnnounced, FetchedForReset, InRunWhere, LockWhere, Flags, Places
  <2> QED BY <2>1, <2>2, <2>3, <2>4 DEF Inv
<1> QED BY <1>1, <1>2, <1>3, <1>4, <1>5, <1>6 DEF FrontBegins

\* The invariant is kept by every step.
LEMMA InvStep == Inv /\ [Next]_vars => Inv'
<1> SUFFICES ASSUME Inv, [Next]_vars PROVE Inv'
    OBVIOUS
<1>1. CASE UNCHANGED vars
    BY <1>1 DEF Inv, Flags, Places, InRunWhere, LockWhere, InterruptAnnounced, FetchedForReset, vars, flags,
       machine, thread, device, front
<1> QED
    BY <1>1, LoopKeeps, ParkingKeeps, PartitionKeeps, ServiceKeeps, DeviceKeeps, FrontGoesOnKeeps,
       FrontBeginsKeeps DEF Next

\* It holds throughout.
LEMMA Invariant == Spec => []Inv
BY InvInit, InvStep, PTL DEF Spec

\* ext_int_request against the thread's entry: a guest never runs on beside an
\* interrupt that was raised after the staging looked, unless its run is about
\* to be cancelled.
THEOREM InterruptFetches == Spec => []FetchedForInterrupt
<1>1. Inv => FetchedForInterrupt
    BY DEF Inv, InterruptAnnounced, FetchedForInterrupt
<1> QED BY <1>1, Invariant, PTL

\* machine_was_reset against the thread's entry: a guest that a reset replaced
\* never runs on, unless its run is about to be cancelled.
THEOREM ResetFetches == Spec => []FetchedForReset
<1>1. Inv => FetchedForReset
    BY DEF Inv
<1> QED BY <1>1, Invariant, PTL

\* Every variable keeps its type.
THEOREM ThreadsTyped == Spec => []TypeOK
<1>1. Inv => TypeOK
    BY DEF Inv, TypeOK, Flags, Places
<1> QED BY <1>1, Invariant, PTL

-----------------------------------------------------------------------------
(* The device thread *)

\* The clock runs from before the thread is told to until after it is paused.
ClockRuns == /\ wake.run => clock.running
             /\ owner.pc = "run" => clock.running
             /\ owner.pc = "freeze" => ~wake.run

WInv == WTypeOK /\ ClockRuns /\ NoChangeSleptThrough

-----------------------------------------------------------------------------
\* The later of two instants within the bound is one.
LEMMA LaterType ==
    ASSUME NEW t \in Times, NEW span \in Nat
    PROVE  Later(t, span) \in Times
  BY WaitAssumption DEF Later, Times

\* A deadline that is asked for, and the soonest of two, are instants.
LEMMA AskedType ==
    ASSUME NEW w \in DeviceWake, NEW at \in Times
    PROVE  /\ Asked(w, at) \in DeviceWake
           /\ Asked(w, at).run = w.run
  BY DEF Asked, Instants, DeviceWake

LEMMA TargetType ==
    ASSUME NEW next \in Instants, NEW asked \in Instants
    PROVE  Target(next, asked) \in Instants
  BY DEF Target

\* On a running clock the time that remains is known for every instant, and
\* is a natural number.
LEMMA RemainingType ==
    ASSUME WTypeOK, NEW at \in Instants
    PROVE  /\ Remaining(at) \in Nat \cup {NoDeadline}
           /\ clock.running => (Remaining(at) = NoDeadline <=> at = NoDeadline)
  BY WaitAssumption DEF Remaining, WTypeOK, ClockState, Instants, Times

-----------------------------------------------------------------------------
(* A change.                                                               *)

\* Once an edit is made every clause waits for the rest of the change.
LEMMA EditKeeps ==
    ASSUME WInv, NEW w, NEW o, Edit(w, o), owner.change = "none",
           w \in DeviceWake,
           o = [owner EXCEPT !.pc = o.pc],
           o.pc \in {"idle", "running", "loop", "freeze", "gone"},
           w.run => clock.running,
           o.pc = "freeze" => ~w.run
    PROVE  WInv'
<1>1. owner' = [owner EXCEPT !.pc = o.pc, !.change = "publish"]
  BY Zenon DEF Edit, WInv, WTypeOK, OwnerState
<1>2. WTypeOK'
  BY <1>1 DEF Edit, WInv, WTypeOK, OwnerState
<1>3. ClockRuns'
  BY <1>1 DEF Edit, WInv, WTypeOK, OwnerState, ClockRuns
<1>4. owner'.change = "publish"
  BY <1>1 DEF WInv, WTypeOK, OwnerState
<1>5. NoChangeSleptThrough'
  BY <1>4 DEF NoChangeSleptThrough
<1> QED
  BY <1>2, <1>3, <1>5 DEF WInv

\* The three steps that publish it.
LEMMA PublishKeeps == ASSUME WInv, PublishChange PROVE WInv'
<1>1. WTypeOK' /\ owner'.change = "notify" /\ owner'.pc = owner.pc
  BY DEF PublishChange, WInv, WTypeOK, OwnerState
<1>2. ClockRuns'
  BY <1>1 DEF PublishChange, WInv, ClockRuns
<1>3. NoChangeSleptThrough'
  BY <1>1 DEF NoChangeSleptThrough
<1> QED
  BY <1>1, <1>2, <1>3 DEF WInv

\* A thread that waits on the state is out of that wait after it.
LEMMA WokenPc ==
    ASSUME WTypeOK
    PROVE  /\ Woken(dev) = [dev EXCEPT !.pc = Woken(dev).pc]
           /\ Woken(dev).pc \notin {"blocked", "unarmed"}
           /\ Woken(dev).pc \in {dev.pc, "runnable", "compute"}
<1>1. CASE dev.pc = "blocked"
  BY <1>1 DEF Woken, WTypeOK, Thread
<1>2. CASE dev.pc = "unarmed"
  BY <1>2 DEF Woken, WTypeOK, Thread
<1>3. CASE dev.pc \notin {"blocked", "unarmed"}
  <2>1. Woken(dev) = dev
    BY <1>3 DEF Woken
  <2> QED
    BY <1>3, <2>1 DEF WTypeOK, Thread
<1> QED
  BY <1>1, <1>2, <1>3

LEMMA NotifyKeeps == ASSUME WInv, Notify PROVE WInv'
<1>1. /\ dev' = [dev EXCEPT !.pc = Woken(dev).pc]
      /\ Woken(dev).pc \notin {"blocked", "unarmed"}
      /\ Woken(dev).pc \in {dev.pc, "runnable", "compute"}
  BY WokenPc DEF Notify, WInv
<1>2. WTypeOK' /\ owner'.change = "ring" /\ owner'.pc = owner.pc /\ dev'.pc = Woken(dev).pc
  BY <1>1 DEF Notify, WInv, WTypeOK, OwnerState, Thread
<1>3. ClockRuns'
  BY <1>2 DEF Notify, WInv, ClockRuns
<1>4. NoChangeSleptThrough'
  BY <1>1, <1>2 DEF NoChangeSleptThrough
<1> QED
  BY <1>2, <1>3, <1>4 DEF WInv

LEMMA RingKeeps == ASSUME WInv, Ring PROVE WInv'
<1>1. WTypeOK' /\ owner'.change = "none" /\ owner'.pc = owner.pc
  BY Zenon DEF Ring, WInv, WTypeOK, OwnerState
<1>2. ClockRuns'
  BY <1>1 DEF Ring, WInv, ClockRuns
<1>3. NoChangeSleptThrough'
  BY Zenon, <1>1 DEF Ring, WInv, NoChangeSleptThrough, Up
<1> QED
  BY <1>1, <1>2, <1>3 DEF WInv

-----------------------------------------------------------------------------
(* The verbs.                                                              *)

\* A step of the owner that touches neither the shared state, nor the thread,
\* nor the clock, and goes nowhere a clause of ClockRuns looks.
LEMMA OwnKeeps ==
    ASSUME WInv, owner' \in OwnerState, latched' \in BOOLEAN,
           UNCHANGED <<host, wake, moved, bell, heard, dev, clock>>,
           owner'.change = owner.change, owner'.pc \notin {"run", "freeze"}
    PROVE  WInv'
<1>0. WTypeOK'
  BY DEF WInv, WTypeOK
<1>1. ClockRuns'
  BY DEF WInv, ClockRuns
<1>2. NoChangeSleptThrough'
  BY DEF WInv, NoChangeSleptThrough, Up
<1> QED
  BY <1>0, <1>1, <1>2 DEF WInv

LEMMA ResumeKeeps == ASSUME WInv, NEW step \in BOOLEAN, Resume(step) PROVE WInv'
<1>1. owner' \in OwnerState /\ owner'.change = owner.change /\ owner'.pc \in {"target", "start"}
  BY Zenon DEF Resume, At, WInv, WTypeOK, OwnerState
<1> QED
  BY <1>1, OwnKeeps DEF Resume, WInv, WTypeOK

LEMMA RunningKeeps == ASSUME WInv, Running PROVE WInv'
<1>1. owner' \in OwnerState /\ owner'.change = owner.change /\ owner'.pc \in {"target", "idle"}
  BY Zenon DEF Running, At, WInv, WTypeOK, OwnerState
<1> QED
  BY <1>1, OwnKeeps DEF Running, WInv, WTypeOK

LEMMA StepEndsKeeps == ASSUME WInv, StepEnds \/ Pause PROVE WInv'
<1>1. owner' \in OwnerState /\ owner'.change = owner.change /\ owner'.pc = "park"
  BY DEF StepEnds, Pause, Verb, WInv, WTypeOK, OwnerState
<1> QED
  BY <1>1, OwnKeeps DEF StepEnds, Pause, WInv, WTypeOK

LEMMA ParkKeeps == ASSUME WInv, ParkAll PROVE WInv'
<1>1. owner' \in OwnerState /\ owner'.change = owner.change /\ owner'.pc \in {"pause", "idle"}
  BY Zenon DEF ParkAll, Verb, WInv, WTypeOK, OwnerState
<1> QED
  BY <1>1, OwnKeeps DEF ParkAll, WInv, WTypeOK

LEMMA InputKeeps == ASSUME WInv, Input PROVE WInv'
<1>1. owner' \in OwnerState /\ owner'.change = owner.change /\ owner'.pc = "poke"
  BY DEF Input, Verb, WInv, WTypeOK, OwnerState
<1> QED
  BY <1>1, OwnKeeps DEF Input, WInv, WTypeOK

\* The clock starts before the thread is told to run.
LEMMA StartKeeps == ASSUME WInv, Start PROVE WInv'
<1>1. CASE Verb("run") /\ clock' = [clock EXCEPT !.running = TRUE]
  <2>1. WTypeOK' /\ owner'.change = owner.change /\ owner'.pc = "run" /\ clock'.running
    BY Zenon, <1>1 DEF Start, Verb, WInv, WTypeOK, OwnerState, ClockState
  <2>2. ClockRuns'
    BY <2>1 DEF ClockRuns
  <2>3. NoChangeSleptThrough'
    BY <2>1 DEF Start, WInv, NoChangeSleptThrough, Up
  <2> QED
    BY <2>1, <2>2, <2>3 DEF WInv
<1>2. CASE owner' = [owner EXCEPT !.pc = "idle", !.step = FALSE] /\ UNCHANGED clock
  <2>1. owner' \in OwnerState /\ owner'.change = owner.change /\ owner'.pc = "idle"
    BY Zenon, <1>2 DEF Start, WInv, WTypeOK, OwnerState
  <2> QED
    BY <1>2, <2>1, OwnKeeps DEF Start, WInv, WTypeOK
<1> QED
  BY <1>1, <1>2 DEF Start

\* It stops after the thread is told to pause.
LEMMA FreezeKeeps == ASSUME WInv, Freeze PROVE WInv'
<1>1. /\ WTypeOK' /\ owner'.change = owner.change /\ owner'.pc = "idle"
      /\ ~wake'.run
  BY Zenon DEF Freeze, At, WInv, WTypeOK, OwnerState, ClockState, ClockRuns
<1>2. ClockRuns'
  BY <1>1 DEF ClockRuns
<1>3. NoChangeSleptThrough'
  BY <1>1 DEF Freeze, WInv, NoChangeSleptThrough, Up
<1> QED
  BY <1>1, <1>2, <1>3 DEF WInv

\* Every change the owner makes.
LEMMA ChangesKeep ==
    ASSUME WInv, EditRun \/ EditTarget \/ EditPause \/ EditPoke \/ Drop PROVE WInv'
<1>1. CASE EditRun
  <2> DEFINE w == [wake EXCEPT !.run = TRUE]
             o == [owner EXCEPT !.pc = "running"]
  <2>1. /\ w \in DeviceWake
        /\ o = [owner EXCEPT !.pc = o.pc] /\ o.pc = "running"
    BY Zenon DEF WInv, WTypeOK, DeviceWake, OwnerState
  <2>2. clock.running /\ owner.change = "none" /\ Edit(w, o)
    BY <1>1 DEF EditRun, At, WInv, ClockRuns
  <2> QED
    BY Zenon, <2>1, <2>2, EditKeeps
<1>2. CASE EditTarget
  <2> DEFINE w == Asked(wake, Later(clock.now, StepSpan))
             o == [owner EXCEPT !.pc = "loop"]
  <2>1. o = [owner EXCEPT !.pc = o.pc] /\ o.pc = "loop"
    BY DEF WInv, WTypeOK, DeviceWake, OwnerState
  <2>2. Later(clock.now, StepSpan) \in Times
    BY LaterType, WaitAssumption DEF WInv, WTypeOK, ClockState
  <2>3. w \in DeviceWake /\ w.run = wake.run
    BY <2>2, AskedType DEF WInv, WTypeOK
  <2>4. owner.change = "none" /\ Edit(w, o) /\ (w.run => clock.running)
    BY <1>2, <2>3 DEF EditTarget, At, WInv, ClockRuns
  <2> QED
    BY Zenon, <2>1, <2>3, <2>4, EditKeeps
<1>3. CASE EditPause
  <2> DEFINE w == [wake EXCEPT !.run = FALSE]
             o == [owner EXCEPT !.pc = "freeze"]
  <2>1. /\ w \in DeviceWake /\ ~w.run
        /\ o = [owner EXCEPT !.pc = o.pc] /\ o.pc = "freeze"
    BY Zenon DEF WInv, WTypeOK, DeviceWake, OwnerState
  <2>2. owner.change = "none" /\ Edit(w, o)
    BY <1>3 DEF EditPause, At
  <2> QED
    BY Zenon, <2>1, <2>2, EditKeeps
<1>4. CASE EditPoke
  <2> DEFINE w == Asked(wake, clock.now)
             o == [owner EXCEPT !.pc = "idle"]
  <2>1. o = [owner EXCEPT !.pc = o.pc] /\ o.pc = "idle"
    BY DEF WInv, WTypeOK, DeviceWake, OwnerState
  <2>2. w \in DeviceWake /\ w.run = wake.run
    BY AskedType DEF WInv, WTypeOK, ClockState
  <2>3. owner.change = "none" /\ Edit(w, o) /\ (w.run => clock.running)
    BY <1>4, <2>2 DEF EditPoke, At, WInv, ClockRuns
  <2> QED
    BY Zenon, <2>1, <2>2, <2>3, EditKeeps
<1>5. CASE Drop
  <2> DEFINE w == [wake EXCEPT !.stop = TRUE, !.run = FALSE]
             o == [owner EXCEPT !.pc = "gone"]
  <2>1. /\ w \in DeviceWake /\ ~w.run
        /\ o = [owner EXCEPT !.pc = o.pc] /\ o.pc = "gone"
    BY Zenon DEF WInv, WTypeOK, DeviceWake, OwnerState
  <2>2. owner.change = "none" /\ Edit(w, o)
    BY <1>5 DEF Drop, At
  <2> QED
    BY Zenon, <2>1, <2>2, EditKeeps
<1> QED
  BY <1>1, <1>2, <1>3, <1>4, <1>5

-----------------------------------------------------------------------------
(* The device thread and the world.                                        *)

\* A step after which the thread is in none of the waits that a clause is
\* about, and that leaves the owner and the clock alone.
LEMMA BusyKeeps ==
    ASSUME WInv, UNCHANGED <<host, clock, owner>>,
           dev' \in Thread, dev'.pc \notin {"unlocked", "asleep", "unarmed", "blocked"},
           wake' \in DeviceWake, wake'.run => wake.run,
           moved' \in BOOLEAN, bell' \in BOOLEAN, heard' \in BOOLEAN, latched' \in BOOLEAN
    PROVE  WInv'
<1>1. WTypeOK'
  BY Zenon DEF WInv, WTypeOK
<1>2. ClockRuns'
  BY Zenon DEF WInv, ClockRuns
<1>3. NoChangeSleptThrough'
  BY DEF NoChangeSleptThrough
<1> QED
  BY <1>1, <1>2, <1>3 DEF WInv

\* A thread that blocks has just read that it is paused.
LEMMA WaitUntilRunnableKeeps == ASSUME WInv, WaitUntilRunnable PROVE WInv'
<1>1. CASE wake.stop \/ wake.run
  <2>1. dev' \in Thread /\ dev'.pc \in {"done", "service"}
    BY <1>1 DEF WaitUntilRunnable, DevGoto, WInv, WTypeOK, Thread, DeviceWake
  <2> QED
    BY Zenon, <2>1, BusyKeeps DEF WaitUntilRunnable, WInv, WTypeOK
<1>2. CASE ~wake.stop /\ ~wake.run
  <2>1. dev' \in Thread /\ dev'.pc = "blocked"
    BY <1>2 DEF WaitUntilRunnable, DevGoto, WInv, WTypeOK, Thread, DeviceWake
  <2>2. WTypeOK' /\ ClockRuns'
    BY Zenon, <2>1 DEF WaitUntilRunnable, WInv, WTypeOK, ClockRuns
  <2>3. NoChangeSleptThrough'
    BY <1>2, <2>1 DEF WaitUntilRunnable, NoChangeSleptThrough
  <2> QED
    BY <2>2, <2>3 DEF WInv
<1> QED
  BY <1>1, <1>2

LEMMA ServiceOnceKeeps == ASSUME WInv, ServiceOnce PROVE WInv'
<1>1. dev' \in Thread /\ dev'.pc = "compute"
  BY Zenon DEF ServiceOnce, WInv, WTypeOK, Thread, Instants
<1>2. wake' \in DeviceWake /\ (wake'.run => wake.run) /\ bell' \in BOOLEAN
  BY Zenon DEF ServiceOnce, WInv, WTypeOK, DeviceWake
<1> QED
  BY Zenon, <1>1, <1>2, BusyKeeps DEF ServiceOnce, WInv, WTypeOK

\* What the spin takes, and where it leaves the thread.
LEMMA SpinTypes ==
    ASSUME WInv, NEW target \in Instants, NEW for \in Nat, Spin(target, for)
    PROVE  /\ dev' \in Thread /\ dev'.pc = "spin"
           /\ wake' \in DeviceWake /\ wake'.run = wake.run /\ moved' \in BOOLEAN
<1>1. dev' \in Thread /\ dev'.pc = "spin"
  BY Zenon DEF Spin, WInv, WTypeOK, Thread
<1>2. wake' \in DeviceWake /\ wake'.run = wake.run
  BY DEF Spin, WInv, WTypeOK, DeviceWake, Instants
<1> QED
  BY Zenon, <1>1, <1>2 DEF Spin

LEMMA SpinMarginKeeps == ASSUME WInv, SpinMargin PROVE WInv'
<1>1. dev.target \in Instants /\ Margin \in Nat
  BY WaitAssumption DEF WInv, WTypeOK, Thread
<1>2. /\ dev' \in Thread /\ dev'.pc = "spin"
      /\ wake' \in DeviceWake /\ wake'.run = wake.run /\ moved' \in BOOLEAN
  BY <1>1, SpinTypes DEF SpinMargin
<1> QED
  BY Zenon, <1>2, BusyKeeps DEF SpinMargin, WInv, WTypeOK

\* The head of the loop: a thread that goes to sleep does so for what the
\* state asks at that moment, and one that waits for something to be armed
\* has read a running clock and so found nothing armed.
LEMMA WaitForDeadlineKeeps == ASSUME WInv, WaitForDeadline PROVE WInv'
<1> DEFINE target == Target(dev.next, wake.asked)
           remaining == Remaining(target)
<1>1. target \in Instants
  BY TargetType DEF WInv, WTypeOK, Thread, DeviceWake
<1>2. /\ remaining \in Nat \cup {NoDeadline}
      /\ clock.running => (remaining = NoDeadline <=> target = NoDeadline)
  BY <1>1, RemainingType DEF WInv
<1>3. UNCHANGED <<host, bell, heard, clock, latched, owner>>
  BY DEF WaitForDeadline
<1>4. CASE (Return("done") \/ Return("runnable")) /\ UNCHANGED <<wake, moved>>
  <2>1. dev' \in Thread /\ dev'.pc \in {"done", "runnable"}
    BY <1>4 DEF Return, Thread, Instants
  <2> QED
    BY ZenonT(30), <1>3, <1>4, <2>1, BusyKeeps DEF WInv, WTypeOK
<1>5. CASE /\ ~wake.stop /\ wake.run /\ remaining = NoDeadline
           /\ DevGoto("unarmed") /\ UNCHANGED <<wake, moved>>
  <2>1. dev' \in Thread /\ dev'.pc = "unarmed" /\ dev'.next = dev.next
    BY <1>5 DEF DevGoto, WInv, WTypeOK, Thread
  <2>2. target = NoDeadline
    BY <1>2, <1>5 DEF WInv, ClockRuns
  <2>3. WTypeOK' /\ ClockRuns'
    BY ZenonT(30), <1>3, <1>5, <2>1 DEF WInv, WTypeOK, ClockRuns
  <2>4. Up' /\ Target(dev'.next, wake'.asked) = NoDeadline
    BY <1>5, <2>1, <2>2 DEF Up
  <2>5. NoChangeSleptThrough'
    BY <2>1, <2>4 DEF NoChangeSleptThrough
  <2> QED
    BY <2>3, <2>5 DEF WInv
<1>6. CASE /\ ~wake.stop /\ wake.run /\ remaining # NoDeadline /\ remaining >= Margin
           /\ dev' = [dev EXCEPT !.pc = "unlocked", !.target = target, !.left = remaining - Margin]
           /\ UNCHANGED <<wake, moved>>
  <2>0. remaining - Margin \in Nat
    BY <1>2, <1>6, WaitAssumption
  <2>1. dev' \in Thread /\ dev'.pc = "unlocked" /\ dev'.next = dev.next /\ dev'.target = target
    BY Zenon, <1>1, <1>6, <2>0 DEF WInv, WTypeOK, Thread
  <2>2. WTypeOK' /\ ClockRuns'
    BY Zenon, <1>3, <1>6, <2>1 DEF WInv, WTypeOK, ClockRuns
  <2>3. Up' /\ dev'.target = Target(dev'.next, wake'.asked)
    BY <1>6, <2>1 DEF Up
  <2>4. NoChangeSleptThrough'
    BY <2>1, <2>3 DEF NoChangeSleptThrough
  <2> QED
    BY <2>2, <2>4 DEF WInv
<1>7. CASE remaining # NoDeadline /\ Spin(target, remaining)
  <2>1. remaining \in Nat
    BY <1>2, <1>7
  <2>2. /\ dev' \in Thread /\ dev'.pc = "spin"
        /\ wake' \in DeviceWake /\ wake'.run = wake.run /\ moved' \in BOOLEAN
    BY <1>1, <1>7, <2>1, SpinTypes
  <2> QED
    BY Zenon, <1>3, <2>2, BusyKeeps DEF WInv, WTypeOK
<1> QED
  BY Zenon, <1>4, <1>5, <1>6, <1>7 DEF WaitForDeadline

\* The wait on the event begins for what it was computed for.
LEMMA BeginWaitKeeps == ASSUME WInv, BeginWait PROVE WInv'
<1>1. CASE dev.pc = "unlocked" /\ host # "none" /\ DevGoto("asleep") /\ UNCHANGED heard
  <2>1. /\ dev' \in Thread /\ dev'.pc = "asleep"
        /\ dev'.next = dev.next /\ dev'.target = dev.target
    BY <1>1 DEF DevGoto, WInv, WTypeOK, Thread
  <2>2. WTypeOK' /\ ClockRuns'
    BY ZenonT(30), <1>1, <2>1 DEF BeginWait, WInv, WTypeOK, ClockRuns
  <2>3. NoChangeSleptThrough'
    BY <1>1, <2>1 DEF BeginWait, WInv, NoChangeSleptThrough, Up
  <2> QED
    BY <2>2, <2>3 DEF WInv
<1>2. CASE DevGoto("fallback") /\ heard' = FALSE
  <2>1. dev' \in Thread /\ dev'.pc = "fallback"
    BY <1>2 DEF DevGoto, WInv, WTypeOK, Thread
  <2> QED
    BY Zenon, <1>2, <2>1, BusyKeeps DEF BeginWait, WInv, WTypeOK
<1> QED
  BY Zenon, <1>1, <1>2 DEF BeginWait

\* Who hears the bell takes it down and reads the state again.
LEMMA RungKeeps == ASSUME WInv, Rung PROVE WInv'
<1>1. dev' \in Thread /\ dev'.pc = "compute"
  BY Zenon DEF Rung, Leave, WInv, WTypeOK, Thread, Instants
<1>2. bell' \in BOOLEAN /\ heard' \in BOOLEAN
  BY Zenon DEF Rung, WInv, WTypeOK
<1> QED
  BY Zenon, <1>1, <1>2, BusyKeeps DEF Rung, WInv, WTypeOK

LEMMA ExpireKeeps == ASSUME WInv, Expire PROVE WInv'
<1>1. dev' \in Thread /\ dev'.pc = "expired"
  BY DEF Expire, DevGoto, WInv, WTypeOK, Thread
<1> QED
  BY Zenon, <1>1, BusyKeeps DEF Expire, WInv, WTypeOK

LEMMA SpinEndsKeeps == ASSUME WInv, SpinEnds PROVE WInv'
<1>1. dev' \in Thread /\ dev'.pc = "runnable"
  BY DEF SpinEnds, Return, Thread, Instants
<1> QED
  BY Zenon, <1>1, BusyKeeps DEF SpinEnds, WInv, WTypeOK

LEMMA SpuriousKeeps == ASSUME WInv, Spurious PROVE WInv'
<1>1. dev.pc \in {"blocked", "unarmed"}
  BY Zenon DEF Spurious, Woken
<1>2. dev' \in Thread /\ dev'.pc \in {"runnable", "compute"}
  BY <1>1 DEF Spurious, Woken, WInv, WTypeOK, Thread
<1> QED
  BY Zenon, <1>2, BusyKeeps DEF Spurious, WInv, WTypeOK

LEMMA ExitKeeps == ASSUME WInv, Exit PROVE WInv'
<1>1. WTypeOK' /\ ClockRuns'
  BY Zenon DEF Exit, WInv, WTypeOK, ClockRuns
<1>2. NoChangeSleptThrough'
  BY DEF Exit, WInv, NoChangeSleptThrough, Up
<1> QED
  BY <1>1, <1>2 DEF WInv

\* Time moves the clock and shortens the wait, and nothing else.
LEMMA TickKeeps == ASSUME WInv, Tick PROVE WInv'
<1>1. clock' \in ClockState /\ clock'.running = clock.running
  <2>1. clock.now \in Times /\ Later(clock.now, 1) \in Times
    BY LaterType DEF WInv, WTypeOK, ClockState
  <2> QED
    BY <2>1 DEF Tick, WInv, WTypeOK, ClockState
<1>2. /\ dev' \in Thread /\ dev'.pc = dev.pc
      /\ dev'.next = dev.next /\ dev'.target = dev.target
  BY DEF Tick, WInv, WTypeOK, Thread
<1>3. WTypeOK' /\ ClockRuns'
  BY Zenon, <1>1, <1>2 DEF Tick, WInv, WTypeOK, ClockRuns
<1>4. NoChangeSleptThrough'
  BY <1>2 DEF Tick, WInv, NoChangeSleptThrough, Up
<1> QED
  BY <1>3, <1>4 DEF WInv

-----------------------------------------------------------------------------
\* A machine begins paused, its thread on its way to find that out.
LEMMA WInvInit == WInit => WInv
<1> SUFFICES ASSUME NEW h \in Hosts, Paused(h, "runnable") PROVE WInv
  BY DEF WInit
<1>1. 0 \in Times
  BY WaitAssumption DEF Times
<1>2. wake \in DeviceWake /\ dev \in Thread /\ clock \in ClockState /\ owner \in OwnerState
  BY <1>1 DEF Paused, DeviceWake, Thread, ClockState, OwnerState, Instants
<1>3. WTypeOK
  BY ZenonT(30), <1>2 DEF Paused, WTypeOK
<1>4. ClockRuns /\ NoChangeSleptThrough
  BY DEF Paused, ClockRuns, NoChangeSleptThrough
<1> QED
  BY <1>3, <1>4 DEF WInv

LEMMA WInvStep == WInv /\ [WNext]_wvars => WInv'
<1> SUFFICES ASSUME WInv, [WNext]_wvars PROVE WInv'
  OBVIOUS
<1>1. CASE OwnerStep
  BY ZenonT(30), <1>1, PublishKeeps, NotifyKeeps, RingKeeps, StartKeeps, RunningKeeps, StepEndsKeeps,
     ParkKeeps, FreezeKeeps, ChangesKeep DEF OwnerStep
<1>2. CASE DeviceStep
  BY ZenonT(30), <1>2, WaitUntilRunnableKeeps, ServiceOnceKeeps, WaitForDeadlineKeeps, BeginWaitKeeps,
     RungKeeps, ExpireKeeps, SpinMarginKeeps, SpinEndsKeeps DEF DeviceStep
<1>3. CASE Spurious \/ Exit \/ Tick
  BY Zenon, <1>3, SpuriousKeeps, ExitKeeps, TickKeeps
<1>4. CASE \E step \in BOOLEAN : Resume(step)
  BY Zenon, <1>4, ResumeKeeps
<1>5. CASE Pause \/ Input \/ Drop
  BY Zenon, <1>5, StepEndsKeeps, InputKeeps, ChangesKeep
<1>6. CASE UNCHANGED wvars
  <2>1. WTypeOK' /\ ClockRuns'
    BY Zenon, <1>6 DEF wvars, WInv, WTypeOK, ClockRuns
  <2>2. NoChangeSleptThrough'
    BY <1>6 DEF wvars, WInv, NoChangeSleptThrough, Up
  <2> QED
    BY <2>1, <2>2 DEF WInv
<1> QED
  BY Zenon, <1>1, <1>2, <1>3, <1>4, <1>5, <1>6 DEF WNext

\* No change that the owner publishes is slept through: on a host with a
\* waitable timer that refuses nothing the thread sleeps for what the state
\* asks or is about to be rung, and it waits for a resume or for something to
\* be armed only while it is paused or nothing is.
THEOREM ChangesHeard == WSpec => []NoChangeSleptThrough
<1>1. WInv => NoChangeSleptThrough
  BY DEF WInv
<1> QED
  BY <1>1, WInvInit, WInvStep, PTL DEF WSpec

\* The thread that is meant to run never reads a stopped clock, for which a
\* deadline would be as good as none.
THEOREM ClockOutlastsRun == WSpec => [](wake.run => clock.running)
<1>1. WInv => (wake.run => clock.running)
  BY DEF WInv, ClockRuns
<1> QED
  BY <1>1, WInvInit, WInvStep, PTL DEF WSpec
=============================================================================
