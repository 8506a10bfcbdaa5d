----------------------------- MODULE MCApicBus -----------------------------
(***************************************************************************)
(* The history variables say, from the guest's writes alone, what ought to *)
(* arrive: sent, the vectors each processor has been sent and has not      *)
(* taken; told, the vector each application processor was told to start    *)
(* at; lowest, how many lowest-priority messages, all of them with the     *)
(* vector LowestVector, are with some processor, up to MaxLowest.          *)
(***************************************************************************)
EXTENDS ApicBus

CONSTANTS LowestVector, MaxLowest

\* The vector of lowest-priority messages is used for no other, so that its
\* requests can be told apart; and the guest addresses itself by the shorthand
\* with interrupts only, which is what the shorthand requests whatever the mode.
ASSUME GuestAssumption ==
    /\ Usable(LowestVector) /\ MaxLowest \in Nat
    /\ \A cmd \in Commands \cup Arrivals :
         /\ cmd.msg.mode = "lowest" => cmd.msg.vector = LowestVector
         /\ cmd.msg.mode = "fixed" => cmd.msg.vector # LowestVector
         /\ cmd.to = "self" => cmd.msg.mode \in {"fixed", "lowest"}

VARIABLES sent, told, lowest

hvars == <<vars, sent, told, lowest>>

Cmd(to, dest, mode, v) ==
    [to |-> to, dest |-> dest, msg |-> [mode |-> mode, vector |-> v, level |-> FALSE]]

\* What a kernel sends, from either processor.
FixedCommands == {Cmd("all", {}, "fixed", 4), Cmd("others", {}, "fixed", 4),
                  Cmd("self", {}, "fixed", 4), Cmd("broadcast", {}, "fixed", 4),
                  Cmd("logical", {0, 1}, "fixed", 4), Cmd("physical", {1}, "fixed", 1)}
StartCommands == {Cmd("physical", {0}, "init", 4), Cmd("physical", {1}, "init", 4),
                  Cmd("physical", {1}, "deassert", 4), Cmd("physical", {1}, "sipi", 4),
                  Cmd("others", {}, "sipi", 5), Cmd("others", {}, "nmi", 4)}
LowestCommands == {Cmd("logical", {0, 1}, "lowest", 5), Cmd("all", {}, "lowest", 5),
                   Cmd("logical", {}, "lowest", 5), Cmd("physical", {1}, "lowest", 5)}
KernelCommands == FixedCommands \cup StartCommands \cup LowestCommands

IoMessages == {[Cmd("physical", {0}, "fixed", 4) EXCEPT !.msg.level = TRUE],
               Cmd("logical", {0, 1}, "lowest", 5), Cmd("physical", {0}, "lowest", 5),
               Cmd("broadcast", {}, "lowest", 5)}

Intended(c, cmd) == CASE cmd.to = "self" -> {c}
                      [] cmd.to \in {"all", "broadcast"} -> Cpus
                      [] cmd.to = "others" -> Cpus \ {c}
                      [] OTHER -> cmd.dest

\* The bus accepts lowest priority with a logical destination or a shorthand.
\* A destination that nobody has reaches nobody.
Arbitrated(cmd) == /\ cmd.msg.mode = "lowest"
                   /\ cmd.to \notin {"physical", "broadcast"}
                   /\ cmd.to = "logical" => cmd.dest # {}

Holders == {c \in Cpus : LowestVector \in cpu[c].lapic.irr}

Expect(c, cmd) ==
    /\ sent' = [t \in Cpus |-> IF cmd.msg.mode = "fixed" /\ Usable(cmd.msg.vector)
                                  /\ t \in Intended(c, cmd)
                               THEN sent[t] \cup {cmd.msg.vector} ELSE sent[t]]
    /\ told' = [t \in Cpus |-> IF cmd.msg.mode = "sipi" /\ t \in Intended(c, cmd)
                                  /\ cpu[t].waiting /\ told[t] = NoVector
                               THEN cmd.msg.vector ELSE told[t]]
    /\ Arbitrated(cmd) => lowest < MaxLowest
    /\ lowest' = IF Arbitrated(cmd) THEN lowest + 1 ELSE lowest

HInit == /\ Init
         /\ sent = [c \in Cpus |-> {}]
         /\ told = [c \in Cpus |-> NoVector]
         /\ lowest = 0

HSend == \/ \E cmd \in Commands : WriteIcr(cmd) /\ Expect(slice, cmd)
         \/ \E m \in Arrivals : Commit(<<m>>) /\ Expect(NoCpu, m)

\* Taken by the processor, or forgotten in its INIT.
HTake == /\ TakeInterrupt \/ TakeInit
         /\ LET gone == cpu[slice].lapic.irr \ cpu'[slice].lapic.irr
            IN  /\ sent' = [sent EXCEPT ![slice] = @ \ gone]
                /\ lowest' = IF LowestVector \in gone /\ Holders = {slice} THEN 0 ELSE lowest
         /\ told' = IF cpu'[slice].waiting THEN [told EXCEPT ![slice] = NoVector] ELSE told

HRest == /\ \/ \E c \in Cpus : StartSlice(c)
            \/ WriteEoi
            \/ \E t \in TprValues : WriteTpr(t)
            \/ TakeNmi
            \/ Iret
            \/ EndSlice
         /\ UNCHANGED <<sent, told, lowest>>

HNext == HSend \/ HTake \/ HRest

HSpec == HInit /\ [][HNext]_hvars

-----------------------------------------------------------------------------
\* Every interrupt message arrives, at each processor it was meant for and at
\* no other, before any processor takes another step: once the running
\* processor owes no boundary, what a processor requests is what it was sent.
\* The sender's own copy is neither lost nor forgotten when an INIT is on its
\* way to it.
IpisArrive ==
    ~latch => \A c \in Cpus : cpu[c].lapic.irr \ {LowestVector} = sent[c]

\* An application processor runs exactly when it was sent a start-up message
\* while it waited, and at the vector of the first one.
StartedAsTold ==
    ~latch => \A c \in Cpus \ {Bsp} : /\ cpu[c].waiting <=> told[c] = NoVector
                                      /\ cpu[c].start = told[c]

\* A lowest-priority message goes to one processor: some processor holds the
\* vector while a message is out, and never more processors than messages.
LowestReachesOne ==
    ~latch => /\ lowest > 0 <=> Holders # {}
              /\ Cardinality(Holders) <= lowest

\* Between slices nothing waits for a boundary: every queue, slot and flag has
\* been drained and the mask agrees.  Within a slice at most one message and
\* one event are queued, so the queues' capacities are never met.
BoundaryDrains ==
    /\ slice = NoCpu => work = {} /\ \A c \in Cpus : ~HasSchedulerWork(cpu[c].lapic)
    /\ \A c \in Cpus : Len(cpu[c].lapic.ipis) <= 1 /\ Len(cpu[c].lapic.events) <= 1

=============================================================================
