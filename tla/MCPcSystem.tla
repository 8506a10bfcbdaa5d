----------------------------- MODULE MCPcSystem -----------------------------
(* A wheel of two device timers over a few ticks. *)
EXTENDS PcSystem, TLC

MCDelays    == {0, 2}
MCDeadlines == {1, 3}
MCSteps     == {1, 3}

VARIABLE unregistered   \* whether unregister_timer was ever called

MCInit == Init /\ unregistered = FALSE

MCNext == \/ MachineNext /\ UNCHANGED unregistered
          \/ (\E i \in Slots : UnregisterTimer(i)) /\ unregistered' = TRUE

MCSpec == MCInit /\ [][MCNext]_<<vars, unregistered>>

\* Every state the running machine can be saved in is one the validator accepts,
\* fires that wait for dispatch and countdowns left short by deactivate_timer
\* included: a machine, which never unregisters a timer, can always be saved.
SnapshotAccepted == Idle /\ ~unregistered => SnapshotValid

\* Owners are told apart only by equality.
OwnerSymmetry == Permutations(Owners)
=============================================================================
