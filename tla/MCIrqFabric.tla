---------------------------- MODULE MCIrqFabric ----------------------------
(* Three lines per chip, the cascade on line 2.  The timer, one line of the  *)
(* slave and one pin without a line; the timer's entry may be ExtINT.        *)
EXTENDS IrqFabric

MCGuests == {{"mask", "eoi"}}
MCLines  == [g \in MCGuests |-> {<<"master", 0>>, <<"slave", 0>>}]
MCMasks  == {{}, {0}}
MCLevels == {{}}

Plain(masked, level, mode) == [masked |-> masked, level |-> level, mode |-> mode,
                               logical |-> FALSE, vector |-> 0]
MCRoutes == [p \in 0..6 |->
    CASE p = 2 -> {Plain(FALSE, FALSE, "extint"), Plain(TRUE, FALSE, "fixed")}
      [] p = 3 -> {Plain(FALSE, TRUE, "fixed")}
      [] p = 6 -> {Plain(FALSE, TRUE, "extint")}
      [] OTHER -> {}]
=============================================================================
