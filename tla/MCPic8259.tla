----------------------------- MODULE MCPic8259 -----------------------------
(***************************************************************************)
(* Three lines per chip with the cascade in the middle: the master keeps a *)
(* line above it and one below it, as the hardware does.  The guests use   *)
(* the command words a few at a time, which the number of states asks for. *)
(***************************************************************************)
EXTENDS Pic8259

ThreeLines == {<<"master", 0>>, <<"master", 2>>, <<"slave", 0>>}
TwoLines   == {<<"master", 0>>, <<"slave", 0>>}
Masks      == {{}, {0}}
Modes      == {{}, {2}}
FewGuests  == {{"mask", "eoi", "elcr"}, {"mask", "eoi", "poll"}, {"mask", "eoi", "special"},
               {"mask", "eoi", "priority"}, {"mask", "rotate", "specific"},
               {"icw1", "eoi", "auto"}}

FewLines == [g \in FewGuests |-> IF "elcr" \in g THEN ThreeLines ELSE TwoLines]
=============================================================================
