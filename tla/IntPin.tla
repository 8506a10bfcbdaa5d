------------------------------- MODULE IntPin -------------------------------
(***************************************************************************)
(* What the 8259 pair promises the processor side about its INT output.    *)
(*                                                                         *)
(* The pin moves inside calls made by devices and by the guest.  Nobody    *)
(* reads it at that moment: a rise leaves irq_pending behind and a fall    *)
(* irq_cleared (BxPicC, rusty_box/src/pic.rs), and whoever takes the flags *)
(* later reads the level then.  A reset of the machine is outside this     *)
(* promise: it drops the pin and says nothing.                             *)
(***************************************************************************)
VARIABLES pin, irqPending, irqCleared

pinVars == <<pin, irqPending, irqCleared>>

PinTypeOK == /\ pin \in BOOLEAN
             /\ irqPending \in BOOLEAN
             /\ irqCleared \in BOOLEAN

PinInit == pin = FALSE /\ irqPending = FALSE /\ irqCleared = FALSE

\* raise_intr and clear_intr: a call that moves the pin leaves its flag set,
\* and no call takes a flag back.
Drive == /\ pin' \in BOOLEAN
         /\ irqPending' \in BOOLEAN
         /\ irqCleared' \in BOOLEAN
         /\ irqPending => irqPending'
         /\ irqCleared => irqCleared'
         /\ pin' /\ ~pin => irqPending'
         /\ ~pin' /\ pin => irqCleared'

\* The flags are cleared where the level is read.
TakeFlags == /\ irqPending' = FALSE /\ irqCleared' = FALSE
             /\ UNCHANGED pin

PinNext == Drive \/ TakeFlags
=============================================================================
