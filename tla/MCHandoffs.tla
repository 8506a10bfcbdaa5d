----------------------------- MODULE MCHandoffs -----------------------------
(***************************************************************************)
(* Three hand-overs in which one side leaves a word that the other reads   *)
(* later, each a system of its own that part chooses at the start: the     *)
(* level of INT, which boundaries publish to the processors and the engine *)
(* (IntrPublication); the I/O APIC's messages, which boundaries route      *)
(* (MCIoApic); and the changes that the owner of a machine publishes to    *)
(* its device thread (DeviceWait).  What is not chosen stays as it is.     *)
(***************************************************************************)
EXTENDS MCIoApic, IntrPublication, DeviceWait

VARIABLE part

allVars == <<part, vars, hvars, wvars>>

AllInit == /\ part \in {"publication", "messages", "device"}
           /\ PubInit /\ HInit
           /\ IF part = "device" THEN WInit ELSE Paused(CHOOSE h \in Hosts : TRUE, "blocked")

Publication == part = "publication" /\ PubNext /\ UNCHANGED <<part, hvars, wvars>>
Messages    == part = "messages" /\ HNext /\ UNCHANGED <<part, vars, wvars>>
Device      == part = "device" /\ WNext /\ UNCHANGED <<part, vars, hvars>>

AllNext == Publication \/ Messages \/ Device

\* PubFairness and WFairness, each for the part it is about.
Published(A) == part = "publication" /\ A
Threads(A)   == part = "device" /\ A

AllSpec ==
    /\ AllInit /\ [][AllNext]_allVars
    /\ WF_vars(Published(\E taken \in BOOLEAN : EnterBatch(taken)))
    /\ WF_vars(Published(\E taken \in BOOLEAN : EndSlice(taken)))
    /\ WF_vars(Published(\E taken \in BOOLEAN : Commit(taken)))
    /\ SF_vars(Published(EnterBatch(TRUE))) /\ SF_vars(Published(Commit(TRUE)))
    /\ WF_wvars(Threads(DeviceStep)) /\ WF_wvars(Threads(OwnerStep)) /\ WF_wvars(Threads(Tick))
=============================================================================
