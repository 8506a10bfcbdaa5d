----------------------------- MODULE MCLevelEoi -----------------------------
(***************************************************************************)
(* A level-triggered pin the guest may mask, and one it programs as an     *)
(* edge or as a level of a higher class.                                   *)
(***************************************************************************)
EXTENDS LevelEoi

Fixed(v, level, masked) == [masked |-> masked, level |-> level, mode |-> "fixed",
                            logical |-> FALSE, vector |-> v]

LevelAndEdge == [p \in {0, 1} |->
    IF p = 0 THEN {Fixed(2, TRUE, m) : m \in BOOLEAN}
    ELSE {Fixed(3, FALSE, FALSE), Fixed(4, TRUE, FALSE)}]
=============================================================================
