--------------------------- MODULE MCSmpScheduler ---------------------------
(***************************************************************************)
(* SmpScheduler with what its properties look back at: the credits handed  *)
(* out since the last commit of time, the processor that ran last, and     *)
(* whether the last step advanced time or discarded it in a reset.         *)
(***************************************************************************)
EXTENDS SmpScheduler

VARIABLES
    owed,      \* credits given and not yet turned into time
    ran,       \* the processor of the last slice, Ncpus when there was none
    clock      \* whether the last step advanced time, or reset the machine

mcvars == <<vars, owed, ran, clock>>

MCInit == Init /\ owed = 0 /\ ran = Ncpus /\ clock = FALSE

\* What the processors passed over and the one that runs are credited with
MCSlice(c) ==
    /\ ran' = c
    /\ \/ \E delta \in SliceTicks :
             /\ \/ \E op \in Ops : SliceQuiet(c, op, delta) \/ SliceBoundary(c, op, delta)
                \/ \E target \in Cpus, kind \in Sends : SliceSends(c, target, kind, delta)
             /\ owed' = owed + Quantum * Cardinality({d \in Cpus : cursor <= d /\ d < c})
                             + (IF delta = 0 THEN Quantum ELSE delta)
             /\ clock' = FALSE
       \/ SliceResets(c) /\ owed' = 0 /\ clock' = TRUE

\* What a round leaves owed once time has advanced by whole ticks
MCRound ==
    LET sum == owed + Quantum * Cardinality({d \in Cpus : cursor <= d /\ ~reached})
    IN  \/ RoundTooShort /\ owed' = sum /\ clock' = FALSE
        \/ RoundCommits /\ owed' = sum - Ncpus * Elapsed /\ clock' = TRUE
        \/ RoundResets /\ owed' = 0 /\ clock' = TRUE

\* A batch begins or ends with nothing runnable, and what the caller does between
\* two batches: only its fast-forward advances time.
MCBatch == (BatchBegins \/ BatchIdle \/ Injects) /\ clock' = FALSE /\ UNCHANGED owed

MCFastForward == \/ FastForward /\ clock' = TRUE /\ UNCHANGED owed
                 \/ FastForwardResets /\ clock' = TRUE /\ owed' = 0

MCBetween == MCBatch \/ MCFastForward

MCNext == \/ (MCBetween \/ MCRound) /\ UNCHANGED ran
          \/ \E c \in Cpus : MCSlice(c)

\* The host keeps calling run_cpu_batch through step or run_interactive, and every
\* slice ends.  Those two try to fast-forward after every batch (the strong
\* fairness), for no longer than their hlt_budget (the weak fairness).
MCSpec == /\ MCInit /\ [][MCNext]_mcvars
          /\ WF_mcvars(MCNext)
          /\ WF_mcvars(MCBatch /\ UNCHANGED ran)
          /\ SF_mcvars(MCFastForward /\ UNCHANGED ran)

\* Every credit of every slice and of every processor passed over is in the
\* round's ticks or the carried remainder until a commit turns it into time:
\* rounds, short rounds and rounds cut short lose none and invent none.
TicksConserved == owed = remainder + ticks

\* The bootstrap processor has shut down and nobody can run: the callers
\* fast-forward only for one that halts or waits, so no timer can end this.
Stands == cpu[Bsp].activity = "shutdown" /\ runnable = {}

\* Time goes on, however short the slices are and whoever sleeps: rounds of less
\* than a tick add up, and a machine in which nobody can run is fast-forwarded,
\* unless it is reset again and again or stands still from some time on.
TimeAdvances == []<>clock \/ <>[]Stands

\* A runnable processor has its turn or stops being runnable, unless slices keep
\* asking for boundaries: each of those ends its round where it is.
TurnsUnlessBoundaries == \A c \in Cpus : []<>(ran = c \/ c \notin runnable \/ reached)
=============================================================================
