---------------------------- MODULE MCVcpuThread ----------------------------
(***************************************************************************)
(* VcpuThread for TLC.  Each world is small by itself; the invariants are  *)
(* proved for every mixture in ThreadProofs.                               *)
(***************************************************************************)
EXTENDS VcpuThread

MCWorlds == {{"interrupt", "mask", "pause"}, {"interrupt", "reset", "pause"}, {"interrupt", "refusal"},
             {"stop", "pause", "drop"}, {"reset", "pause", "refusal"}, {"stop", "reset"}}
ResetWorlds == {{"reset"}}

=============================================================================
