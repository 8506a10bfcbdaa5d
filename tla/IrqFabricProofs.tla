-------------------------- MODULE IrqFabricProofs --------------------------
(***************************************************************************)
(* Proofs about the 8259 pair, and about the pair and the I/O APIC driven  *)
(* together, for any number of lines and pins, any cascade line and any    *)
(* commands.                                                               *)
(*                                                                         *)
(* The pair first, call by call: Good(p) says a state of the pair has its  *)
(* type, its cascade wired, its requests backed and its winners out of     *)
(* service, and Flagged(p, q) says that a move of INT between p and q left *)
(* a flag.  Every operator of Pic8259 that a call is made of leads from a  *)
(* good state to a good state with the flags kept.                         *)
(*                                                                         *)
(* Then the fabric: the two controllers never disagree about a line.  The  *)
(* pair forwards a raise when the request bit was clear and a fall when    *)
(* the line was high.  LinesAgree is therefore inductive only with Good,   *)
(* whose Backed says that a set request bit means a line that is high and  *)
(* was forwarded before.                                                   *)
(***************************************************************************)
EXTENDS IrqFabric, FiniteSetTheorems, WellFoundedInduction, TLAPS


Pair == [master : Chip, slave : Chip, irqPending : BOOLEAN, irqCleared : BOOLEAN,
         commands : Guests]

Free(c) == c.intPin => c.irq \notin c.isr

Wired(p)  == p.slave.intPin <=> Cascade \in p.master.irqIn
Backed(p) == /\ p.slave.irr \subseteq p.slave.irqIn
             /\ p.master.irr \ {Cascade} \subseteq p.master.irqIn

\* The cascade is not wired in the middle of the slave's service call.
Sound(p) == /\ p \in Pair
            /\ Backed(p)
            /\ Free(p.master) /\ Free(p.slave)

Good(p) == Sound(p) /\ Wired(p)

Flagged(p, q) == /\ p.irqPending => q.irqPending
                 /\ p.irqCleared => q.irqCleared
                 /\ q.master.intPin /\ ~p.master.intPin => q.irqPending
                 /\ ~q.master.intPin /\ p.master.intPin => q.irqCleared

\* Every non-empty set of naturals has a least element.
LEMMA NatMin ==
    ASSUME NEW T \in SUBSET Nat, T # {}
    PROVE  \E x \in T : \A y \in T : x <= y
<1> DEFINE R == OpToRel(<, Nat)
<1>1. IsWellFoundedOn(R, Nat)
  BY Zenon, NatLessThanWellFounded
<1>2. \A y \in Nat, x \in Nat : y < x => <<y, x>> \in R
  BY DEF OpToRel
<1> HIDE DEF R
<1>3. PICK x \in T : \A y \in T : ~(<<y, x>> \in R)
  BY Zenon, <1>1, WFMin
<1>4. \A y \in T : x <= y
  <2> TAKE y \in T
  <2>1. ~(y < x)
    BY Zenon, <1>2, <1>3
  <2> QED
    BY <2>1
<1> QED
  BY <1>4

\* Ranks are naturals, and lines stay lines when they wrap.
LEMMA RankType ==
    ASSUME NEW c \in Chip, NEW i \in Lines
    PROVE  Rank(c, i) \in Nat /\ After(i) \in Lines
<1>1. NLines \in Nat \ {0} /\ c.lowest \in Int /\ i \in Int
  BY PicAssumption DEF Chip, Lines
<1>2. \A a \in Int : a % NLines \in 0..(NLines - 1)
  BY <1>1
<1>3. (i + NLines - 1 - c.lowest) % NLines \in 0..(NLines - 1)
  BY <1>1, <1>2
<1>4. (i + 1) % NLines \in 0..(NLines - 1)
  BY <1>1, <1>2
<1>5. \A n \in 0..(NLines - 1) : n \in Nat
  BY <1>1
<1> QED
  BY <1>3, <1>4, <1>5 DEF Rank, After, Lines

\* The scan for the line of highest priority finds one of the lines it scans.
LEMMA ForemostIn ==
    ASSUME NEW c \in Chip, NEW S \in SUBSET Lines, S # {}
    PROVE  Foremost(c, S) \in S
<1> DEFINE T == {Rank(c, i) : i \in S}
<1>1. T \in SUBSET Nat /\ T # {}
  BY RankType
<1>2. PICK x \in T : \A y \in T : x <= y
  BY Zenon, <1>1, NatMin
<1>3. PICK i \in S : x = Rank(c, i)
  OBVIOUS
<1>4. \A j \in S : Rank(c, i) <= Rank(c, j)
  BY <1>2, <1>3
<1> QED
  BY <1>4 DEF Foremost

-----------------------------------------------------------------------------
(* One chip *)

\* service() changes nothing but the pin and the winner, and the winner it
\* picks is not in service.
LEMMA ServiceGood ==
    ASSUME NEW c \in Chip, Free(c)
    PROVE  /\ Service(c) \in Chip
           /\ Free(Service(c))
           /\ Service(c).irqIn = c.irqIn
           /\ Service(c).irr = c.irr
<1>1. Candidates(c) \in SUBSET Lines
  BY DEF Candidates, Requests, Chip
<1>2. \A i \in Candidates(c) : i \notin c.isr
  BY RankType DEF Candidates, Requests, Chip
<1>3. CASE Service(c) = c
  BY <1>3
<1>4. CASE Service(c) = [c EXCEPT !.intPin = FALSE]
  BY Zenon, <1>4 DEF Chip, Free
<1>5. CASE /\ Service(c) = [c EXCEPT !.intPin = TRUE, !.irq = Foremost(c, Candidates(c))]
           /\ Candidates(c) # {}
  <2>1. Foremost(c, Candidates(c)) \in Candidates(c)
    BY <1>1, <1>5, ForemostIn
  <2> QED
    BY Zenon, <1>1, <1>2, <1>5, <2>1 DEF Chip, Free
<1> QED
  BY <1>3, <1>4, <1>5 DEF Service

-----------------------------------------------------------------------------
(* The calls on the pair *)

LEMMA FlaggedTransitive ==
    ASSUME NEW p \in Pair, NEW q \in Pair, NEW r \in Pair,
           Flagged(p, q), Flagged(q, r)
    PROVE  Flagged(p, r)
BY DEF Flagged, Pair, Chip

\* service() on the master notes what it does to INT and touches no line.
LEMMA ServiceMasterSound ==
    ASSUME NEW p, Sound(p)
    PROVE  /\ Sound(ServiceMaster(p))
           /\ Flagged(p, ServiceMaster(p))
           /\ ServiceMaster(p).slave = p.slave
           /\ ServiceMaster(p).master.irqIn = p.master.irqIn
<1> DEFINE m == Service(p.master)
<1>1. p.master \in Chip /\ p.slave \in Chip /\ Free(p.master) /\ Free(p.slave)
  BY DEF Sound, Pair
<1>2. m \in Chip /\ Free(m) /\ m.irqIn = p.master.irqIn /\ m.irr = p.master.irr
  BY <1>1, ServiceGood
<1> HIDE DEF m
<1>3. ServiceMaster(p) = [p EXCEPT !.master = m,
                  !.irqPending = @ \/ (m.intPin /\ ~p.master.intPin),
                  !.irqCleared = @ \/ (~m.intPin /\ p.master.intPin)]
  BY DEF ServiceMaster, m
<1>4. ServiceMaster(p) \in Pair /\ ServiceMaster(p).master = m
        /\ ServiceMaster(p).slave = p.slave
  BY Zenon, <1>2, <1>3 DEF Sound, Pair, Chip
<1>5. Flagged(p, ServiceMaster(p))
  BY <1>2, <1>3 DEF Flagged, Sound, Pair, Chip
<1> QED
  BY <1>1, <1>2, <1>4, <1>5 DEF Sound, Backed

\* raise_irq on the master holds the line, and keeps the rest sound.
LEMMA RaiseMasterSound ==
    ASSUME NEW p, Sound(p), NEW line \in Lines
    PROVE  /\ Sound(RaiseMaster(p, line))
           /\ Flagged(p, RaiseMaster(p, line))
           /\ RaiseMaster(p, line).slave = p.slave
           /\ RaiseMaster(p, line).master.irqIn = p.master.irqIn \cup {line}
<1> DEFINE q == [p EXCEPT !.master.irqIn = @ \cup {line}]
           r == [q EXCEPT !.master.irr = @ \cup {line}]
<1>1. /\ q \in Pair /\ q.slave = p.slave
      /\ q.master = [p.master EXCEPT !.irqIn = p.master.irqIn \cup {line}]
      /\ q.irqPending = p.irqPending /\ q.irqCleared = p.irqCleared
  BY DEF Sound, Pair, Chip
<1>2. /\ r \in Pair /\ r.slave = p.slave
      /\ r.master = [q.master EXCEPT !.irr = q.master.irr \cup {line}]
      /\ r.irqPending = p.irqPending /\ r.irqCleared = p.irqCleared
  BY ZenonT(60), <1>1 DEF Pair, Chip
<1> HIDE DEF q, r
<1>3. Sound(q) /\ Flagged(p, q) /\ q.master.irqIn = p.master.irqIn \cup {line}
  BY <1>1 DEF Sound, Backed, Free, Flagged, Pair, Chip
<1>4. Sound(r) /\ Flagged(p, r) /\ r.master.irqIn = p.master.irqIn \cup {line}
  BY <1>1, <1>2 DEF Sound, Backed, Free, Flagged, Pair, Chip
<1>5. /\ Sound(ServiceMaster(r)) /\ Flagged(p, ServiceMaster(r))
      /\ ServiceMaster(r).slave = p.slave
      /\ ServiceMaster(r).master.irqIn = p.master.irqIn \cup {line}
  BY Zenon, <1>2, <1>4, ServiceMasterSound, FlaggedTransitive DEF Sound
<1>6. RaiseMaster(p, line) = IF line \in p.master.irr THEN q ELSE ServiceMaster(r)
  BY DEF RaiseMaster, q, r
<1> QED
  BY Zenon, <1>1, <1>3, <1>5, <1>6

\* lower_irq on the master drops the line with its request.
LEMMA LowerMasterSound ==
    ASSUME NEW p, Sound(p), NEW line \in Lines
    PROVE  /\ Sound(LowerMaster(p, line))
           /\ Flagged(p, LowerMaster(p, line))
           /\ LowerMaster(p, line).slave = p.slave
           /\ LowerMaster(p, line).master.irqIn = p.master.irqIn \ {line}
<1> DEFINE q == [p EXCEPT !.master.irqIn = @ \ {line}, !.master.irr = @ \ {line}]
<1>1. /\ q \in Pair /\ q.slave = p.slave
      /\ q.master = [p.master EXCEPT !.irqIn = p.master.irqIn \ {line},
                                     !.irr = p.master.irr \ {line}]
      /\ q.irqPending = p.irqPending /\ q.irqCleared = p.irqCleared
  BY Zenon DEF Sound, Pair, Chip
<1> HIDE DEF q
<1>2. Sound(q) /\ Flagged(p, q) /\ q.master.irqIn = p.master.irqIn \ {line}
  BY <1>1 DEF Sound, Backed, Free, Flagged, Pair, Chip
<1>3. Flagged(p, p)
  BY DEF Flagged
<1>4. p.master.irqIn \in SUBSET Lines
  BY DEF Sound, Pair, Chip
<1> QED
  BY <1>1, <1>2, <1>3, <1>4 DEF LowerMaster, q

\* The slave's service call ends with the cascade wired, if it began so.
LEMMA ServiceSlaveGood ==
    ASSUME NEW p, Good(p)
    PROVE  /\ Good(ServiceSlave(p))
           /\ Flagged(p, ServiceSlave(p))
<1> DEFINE s == Service(p.slave)
           q == [p EXCEPT !.slave = s]
<1>1. p.master \in Chip /\ p.slave \in Chip /\ Free(p.master) /\ Free(p.slave)
  BY DEF Good, Sound, Pair
<1>2. s \in Chip /\ Free(s) /\ s.irqIn = p.slave.irqIn /\ s.irr = p.slave.irr
  BY <1>1, ServiceGood
<1> HIDE DEF s
<1>3. /\ q \in Pair /\ q.slave = s /\ q.master = p.master
      /\ q.irqPending = p.irqPending /\ q.irqCleared = p.irqCleared
  BY <1>2 DEF Good, Sound, Pair
<1> HIDE DEF q
<1>4. Sound(q) /\ Flagged(p, q)
  BY <1>1, <1>2, <1>3 DEF Good, Sound, Backed, Flagged
<1>5. Cascade \in Lines
  BY PicAssumption
<1>6. CASE s.intPin = p.slave.intPin
  BY <1>3, <1>4, <1>6 DEF ServiceSlave, s, q, Good, Wired
<1>7. CASE s.intPin # p.slave.intPin /\ s.intPin
  <2>1. ServiceSlave(p) = RaiseMaster(q, Cascade)
    BY <1>7 DEF ServiceSlave, s, q
  <2>2. Wired(ServiceSlave(p))
    BY <1>3, <1>4, <1>5, <1>7, <2>1, RaiseMasterSound DEF Wired
  <2> QED
    BY <1>3, <1>4, <1>5, <2>1, <2>2, RaiseMasterSound, FlaggedTransitive DEF Good, Sound
<1>8. CASE s.intPin # p.slave.intPin /\ ~s.intPin
  <2>1. ServiceSlave(p) = LowerMaster(q, Cascade)
    BY <1>8 DEF ServiceSlave, s, q
  <2>2. Wired(ServiceSlave(p))
    BY <1>3, <1>4, <1>5, <1>8, <2>1, LowerMasterSound DEF Wired
  <2> QED
    BY <1>3, <1>4, <1>5, <2>1, <2>2, LowerMasterSound, FlaggedTransitive DEF Good, Sound
<1> QED
  BY <1>6, <1>7, <1>8

LEMMA ServiceChipGood ==
    ASSUME NEW p, Good(p), NEW ch \in Chips
    PROVE  Good(ServiceChip(p, ch)) /\ Flagged(p, ServiceChip(p, ch))
BY ServiceMasterSound, ServiceSlaveGood DEF ServiceChip, Good, Wired, Chips

\* A chip may be rewritten freely as long as its lines, its pin and the chosen
\* winner's claim stay as they are.
LEMMA EditGood ==
    ASSUME NEW p, Good(p), NEW ch \in Chips, NEW c \in Chip,
           c.irqIn = p[ch].irqIn, c.irr \subseteq p[ch].irr,
           c.intPin = p[ch].intPin, Free(c)
    PROVE  /\ Good([p EXCEPT ![ch] = c])
           /\ Flagged(p, [p EXCEPT ![ch] = c])
<1>1. CASE ch = "master"
  BY <1>1 DEF Good, Sound, Pair, Wired, Backed, Flagged
<1>2. CASE ch = "slave"
  BY <1>2 DEF Good, Sound, Pair, Wired, Backed, Flagged
<1> QED
  BY <1>1, <1>2 DEF Chips

LEMMA ChipOf ==
    ASSUME NEW p, Good(p), NEW ch \in Chips
    PROVE  p[ch] \in Chip /\ Free(p[ch])
<1>1. CASE ch = "master"
  BY <1>1 DEF Good, Sound, Pair
<1>2. CASE ch = "slave"
  BY <1>2 DEF Good, Sound, Pair
<1> QED
  BY <1>1, <1>2 DEF Chips

\* An edit followed by the service call most commands end with.
LEMMA EditAndServiceGood ==
    ASSUME NEW p, Good(p), NEW ch \in Chips, NEW c \in Chip,
           c.irqIn = p[ch].irqIn, c.irr \subseteq p[ch].irr,
           c.intPin = p[ch].intPin, Free(c)
    PROVE  /\ Good(ServiceChip([p EXCEPT ![ch] = c], ch))
           /\ Flagged(p, ServiceChip([p EXCEPT ![ch] = c], ch))
<1> DEFINE q == [p EXCEPT ![ch] = c]
<1>1. Good(q) /\ Flagged(p, q)
  BY EditGood
<1> HIDE DEF q
<1>2. Good(ServiceChip(q, ch)) /\ Flagged(q, ServiceChip(q, ch))
  BY <1>1, ServiceChipGood
<1>3. Flagged(p, ServiceChip(q, ch))
  BY <1>1, <1>2, FlaggedTransitive DEF Good, Sound
<1> QED
  BY <1>2, <1>3 DEF q

LEMMA ClearHighestGood ==
    ASSUME NEW c \in Chip, Free(c)
    PROVE  /\ ClearHighest(c) \in Chip /\ Free(ClearHighest(c))
           /\ ClearHighest(c).irqIn = c.irqIn /\ ClearHighest(c).irr = c.irr
           /\ ClearHighest(c).intPin = c.intPin
BY DEF ClearHighest, Chip, Free

\* A device raises a line.
LEMMA RaiseLineGood ==
    ASSUME NEW p, Good(p), NEW ch \in Chips, NEW line \in Lines,
           <<ch, line>> # <<"master", Cascade>>
    PROVE  Good(RaiseLine(p, ch, line)) /\ Flagged(p, RaiseLine(p, ch, line))
<1>1. CASE ch = "master"
  <2>1. RaiseLine(p, ch, line) = RaiseMaster(p, line) /\ line # Cascade
    BY <1>1 DEF RaiseLine
  <2> QED
    BY <2>1, RaiseMasterSound DEF Good, Wired
<1>2. CASE ch = "slave"
  <2> DEFINE q == [p EXCEPT !.slave.irqIn = @ \cup {line}]
             r == [q EXCEPT !.slave.irr = @ \cup {line}]
  <2>1. /\ q \in Pair /\ q.master = p.master
        /\ q.slave = [p.slave EXCEPT !.irqIn = p.slave.irqIn \cup {line}]
        /\ q.irqPending = p.irqPending /\ q.irqCleared = p.irqCleared
    BY DEF Good, Sound, Pair, Chip
  <2>2. /\ r \in Pair /\ r.master = p.master
        /\ r.slave = [q.slave EXCEPT !.irr = q.slave.irr \cup {line}]
        /\ r.irqPending = p.irqPending /\ r.irqCleared = p.irqCleared
    BY ZenonT(60), <2>1 DEF Pair, Chip
  <2> HIDE DEF q, r
  <2>3. Good(q) /\ Flagged(p, q)
    BY <2>1 DEF Good, Sound, Wired, Backed, Free, Flagged, Pair, Chip
  <2>4. Good(r) /\ Flagged(p, r)
    BY <2>1, <2>2 DEF Good, Sound, Wired, Backed, Free, Flagged, Pair, Chip
  <2>5. Good(ServiceSlave(r)) /\ Flagged(p, ServiceSlave(r))
    BY <2>4, ServiceSlaveGood, FlaggedTransitive DEF Good, Sound
  <2>6. RaiseLine(p, ch, line) = IF line \in p.slave.irr THEN q ELSE ServiceSlave(r)
    BY <1>2 DEF RaiseLine, q, r
  <2> QED
    BY <2>3, <2>5, <2>6
<1> QED
  BY <1>1, <1>2 DEF Chips

\* A device lowers a line.
LEMMA LowerLineGood ==
    ASSUME NEW p, Good(p), NEW ch \in Chips, NEW line \in Lines,
           <<ch, line>> # <<"master", Cascade>>
    PROVE  Good(LowerLine(p, ch, line)) /\ Flagged(p, LowerLine(p, ch, line))
<1>1. CASE ch = "master"
  <2>1. LowerLine(p, ch, line) = LowerMaster(p, line) /\ line # Cascade
    BY <1>1 DEF LowerLine
  <2> QED
    BY <2>1, LowerMasterSound DEF Good, Wired
<1>2. CASE ch = "slave"
  <2> DEFINE q == [p EXCEPT !.slave.irqIn = @ \ {line}, !.slave.irr = @ \ {line}]
  <2>1. /\ q \in Pair /\ q.master = p.master
        /\ q.slave = [p.slave EXCEPT !.irqIn = p.slave.irqIn \ {line},
                                     !.irr = p.slave.irr \ {line}]
        /\ q.irqPending = p.irqPending /\ q.irqCleared = p.irqCleared
    BY Zenon DEF Good, Sound, Pair, Chip
  <2> HIDE DEF q
  <2>2. Good(q) /\ Flagged(p, q)
    BY <2>1 DEF Good, Sound, Wired, Backed, Free, Flagged, Pair, Chip
  <2>3. Flagged(p, p)
    BY DEF Flagged
  <2> QED
    BY <1>2, <2>2, <2>3 DEF LowerLine, q
<1> QED
  BY <1>1, <1>2 DEF Chips

LEMMA TakeGood ==
    ASSUME NEW c \in Chip, ~c.intPin
    PROVE  /\ Take(c) \in Chip /\ Free(Take(c)) /\ ~Take(c).intPin
           /\ Take(c).irqIn = c.irqIn /\ Take(c).irr \subseteq c.irr
BY ZenonT(60) DEF Take, Chip, Free

\* The acknowledge cycle, on each of its four ways out.
LEMMA IacGood ==
    ASSUME NEW p, Good(p)
    PROVE  Good(Iac(p)) /\ Flagged(p, Iac(p))
<1> DEFINE dropped == [p EXCEPT !.irqCleared = TRUE, !.master.intPin = FALSE]
           taken   == [dropped EXCEPT !.master = Take(@)]
           cascade == [taken EXCEPT !.slave.intPin = FALSE,
                                    !.master.irqIn = @ \ {Cascade}]
           answered == [cascade EXCEPT !.slave = Take(@)]
<1>1. /\ Good(dropped) /\ Flagged(p, dropped)
      /\ dropped.master \in Chip /\ ~dropped.master.intPin
  BY Zenon DEF Good, Sound, Pair, Chip, Wired, Backed, Free, Flagged
<1> HIDE DEF dropped
<1>2. Good(taken) /\ Flagged(dropped, taken) /\ ~taken.master.intPin
  <2>1. taken = [dropped EXCEPT !["master"] = Take(dropped.master)]
    OBVIOUS
  <2>2. dropped["master"] = dropped.master /\ "master" \in Chips
    BY DEF Chips
  <2>3. /\ Take(dropped.master) \in Chip /\ Free(Take(dropped.master))
        /\ Take(dropped.master).irqIn = dropped["master"].irqIn
        /\ Take(dropped.master).irr \subseteq dropped["master"].irr
        /\ Take(dropped.master).intPin = dropped["master"].intPin
    BY <1>1, <2>2, TakeGood DEF Chip
  <2>4. Good(taken) /\ Flagged(dropped, taken)
    BY <1>1, <2>1, <2>2, <2>3, EditGood
  <2>5. taken.master = Take(dropped.master)
    BY <1>1 DEF Good, Sound, Pair
  <2> QED
    BY <1>1, <2>4, <2>5, TakeGood
<1>3. Good(taken) /\ Flagged(p, taken)
  BY <1>1, <1>2, FlaggedTransitive DEF Good, Sound
<1> HIDE DEF taken
<1>4. Good(ServiceMaster(taken)) /\ Flagged(p, ServiceMaster(taken))
  BY <1>3, ServiceMasterSound, FlaggedTransitive DEF Good, Sound, Wired
<1>5. Good(cascade) /\ Flagged(taken, cascade) /\ ~cascade.slave.intPin
  <2>1. /\ cascade \in Pair
        /\ cascade.master = [taken.master EXCEPT !.irqIn = @ \ {Cascade}]
        /\ cascade.slave = [taken.slave EXCEPT !.intPin = FALSE]
        /\ cascade.irqPending = taken.irqPending
        /\ cascade.irqCleared = taken.irqCleared
    <3>1. taken \in Pair /\ taken.master \in Chip /\ taken.slave \in Chip
      BY <1>3 DEF Good, Sound, Pair
    <3>2. /\ [taken.master EXCEPT !.irqIn = @ \ {Cascade}] \in Chip
          /\ [taken.slave EXCEPT !.intPin = FALSE] \in Chip
      BY Zenon, <3>1 DEF Chip
    <3>3. cascade = [taken EXCEPT !.master = [taken.master EXCEPT !.irqIn = @ \ {Cascade}],
                                  !.slave = [taken.slave EXCEPT !.intPin = FALSE]]
      BY Zenon, <3>1 DEF Pair
    <3> HIDE DEF cascade
    <3> QED
      BY Zenon, <3>1, <3>2, <3>3 DEF Pair
  <2> HIDE DEF cascade
  <2>2. taken.master \in Chip /\ taken.slave \in Chip
    BY <1>3 DEF Good, Sound, Pair
  <2>3. /\ cascade.master.irqIn = taken.master.irqIn \ {Cascade}
        /\ cascade.master.irr = taken.master.irr
        /\ cascade.master.intPin = taken.master.intPin
        /\ cascade.slave.intPin = FALSE
        /\ cascade.slave.irqIn = taken.slave.irqIn
        /\ cascade.slave.irr = taken.slave.irr
    BY <2>1, <2>2 DEF Chip
  <2>4. Free(cascade.master) /\ Free(cascade.slave)
    BY <1>3, <2>1, <2>2 DEF Good, Sound, Free, Chip
  <2> QED
    BY <1>3, <2>1, <2>3, <2>4 DEF Good, Sound, Wired, Backed, Flagged
<1>6. Flagged(p, cascade)
  BY <1>3, <1>5, FlaggedTransitive DEF Good, Sound
<1> HIDE DEF cascade
<1>7. Good(answered) /\ Flagged(p, answered)
  <2>1. cascade.slave \in Chip /\ answered = [cascade EXCEPT !["slave"] = Take(cascade.slave)]
    BY Zenon, <1>5 DEF Good, Sound, Pair
  <2>2. cascade["slave"] = cascade.slave /\ "slave" \in Chips
    BY DEF Chips
  <2>3. /\ Take(cascade.slave) \in Chip /\ Free(Take(cascade.slave))
        /\ Take(cascade.slave).irqIn = cascade["slave"].irqIn
        /\ Take(cascade.slave).irr \subseteq cascade["slave"].irr
        /\ Take(cascade.slave).intPin = cascade["slave"].intPin
    BY <1>5, <2>1, <2>2, TakeGood DEF Chip
  <2>4. Good(answered) /\ Flagged(cascade, answered)
    BY <1>5, <2>1, <2>2, <2>3, EditGood
  <2> QED
    BY <1>5, <1>6, <2>4, FlaggedTransitive DEF Good, Sound
<1> HIDE DEF answered
<1>8. Good(ServiceSlave(answered)) /\ Flagged(p, ServiceSlave(answered))
  BY <1>7, ServiceSlaveGood, FlaggedTransitive DEF Good, Sound
<1>9. /\ Good(ServiceMaster(ServiceSlave(answered)))
      /\ Flagged(p, ServiceMaster(ServiceSlave(answered)))
  BY <1>8, ServiceMasterSound, FlaggedTransitive DEF Good, Sound, Wired
<1>10. Iac(p) = IF Requests(p.master) = {} THEN dropped
                ELSE IF p.master.irq # Cascade THEN ServiceMaster(taken)
                ELSE IF Requests(p.slave) = {} THEN cascade
                ELSE ServiceMaster(ServiceSlave(answered))
  BY DEF Iac, dropped, taken, cascade, answered
<1> QED
  BY <1>1, <1>4, <1>5, <1>6, <1>9, <1>10

\* The first initialisation word drops the chip's INT and, for the slave, the
\* cascade with it.
LEMMA StartInitGood ==
    ASSUME NEW p, Good(p), NEW ch \in Chips, NEW icw4 \in BOOLEAN
    PROVE  Good(StartInit(p, ch, icw4)) /\ Flagged(p, StartInit(p, ch, icw4))
<1> DEFINE c == [p[ch] EXCEPT !.inInit = TRUE, !.requires4 = icw4, !.byteExpected = 2,
                          !.imr = {}, !.isr = {}, !.irr = {}, !.lowest = NLines - 1,
                          !.autoEoi = FALSE, !.rotateOnAutoEoi = FALSE,
                          !.intPin = FALSE]
<1>1. p[ch] \in Chip /\ NLines - 1 \in Lines
  BY ChipOf, PicAssumption DEF Lines
<1>2. c \in Chip /\ ~c.intPin /\ c.irr = {} /\ c.irqIn = p[ch].irqIn /\ Free(c)
  BY ZenonT(60), <1>1 DEF Chip, Free
<1> HIDE DEF c
<1>3. CASE ch = "master"
  <2>1. StartInit(p, ch, icw4) = [p EXCEPT !.master = c, !.irqCleared = TRUE]
    BY Zenon, <1>3 DEF StartInit, c, Good, Sound, Pair
  <2> QED
    BY Zenon, <1>2, <1>3, <2>1 DEF Good, Sound, Pair, Wired, Backed, Flagged
<1>4. CASE ch = "slave"
  <2> DEFINE q == StartInit(p, ch, icw4)
  <2>1. q = [p EXCEPT !.slave = c, !.master.irqIn = @ \ {Cascade}]
    BY Zenon, <1>4 DEF StartInit, c, Good, Sound, Pair
  <2> HIDE DEF q
  <2> DEFINE master == [p.master EXCEPT !.irqIn = @ \ {Cascade}]
  <2>5. master \in Chip
    BY DEF Good, Sound, Pair, Chip
  <2>6. q = [p EXCEPT !.slave = c, !.master = master]
    BY <2>1 DEF Good, Sound, Pair
  <2> HIDE DEF master
  <2>7. /\ q \in Pair /\ q.slave = c /\ q.master = master
        /\ q.irqPending = p.irqPending /\ q.irqCleared = p.irqCleared
    BY Zenon, <1>2, <2>5, <2>6 DEF Good, Sound, Pair
  <2>2. /\ q \in Pair /\ q.slave = c
        /\ q.master = [p.master EXCEPT !.irqIn = @ \ {Cascade}]
        /\ q.irqPending = p.irqPending /\ q.irqCleared = p.irqCleared
    BY <2>7 DEF master
  <2>3. /\ q.master.irqIn = p.master.irqIn \ {Cascade}
        /\ q.master.irr = p.master.irr /\ q.master.intPin = p.master.intPin
        /\ Free(q.master)
    BY <2>2 DEF Good, Sound, Pair, Chip, Free
  <2>4. Good(q) /\ Flagged(p, q)
    BY <1>2, <1>4, <2>2, <2>3 DEF Good, Sound, Wired, Backed, Flagged
  <2> QED
    BY <2>4 DEF q
<1> QED
  BY <1>3, <1>4 DEF Chips

-----------------------------------------------------------------------------
(* The steps *)

\* Every command and data word a guest writes to a chip.
LEMMA GuestWriteGood ==
    ASSUME Good(pic), NEW ch \in Chips, GuestWrite(ch)
    PROVE  Good(pic') /\ Flagged(pic, pic')
<1> DEFINE c == pic[ch]
<1>0. c \in Chip /\ Free(c)
  BY ChipOf
<1>1. CASE Icw1(ch)
  BY <1>1, StartInitGood DEF Icw1
<1>2. CASE WriteIcw(ch)
  <2> DEFINE more == c.byteExpected = 2 \/ (c.byteExpected = 3 /\ c.requires4)
             d(auto) == [c EXCEPT !.byteExpected = IF more THEN @ + 1 ELSE @,
                                  !.inInit = more,
                                  !.autoEoi = IF c.byteExpected = 4 THEN auto ELSE @]
  <2>1. PICK auto \in BOOLEAN : pic' = [pic EXCEPT ![ch] = d(auto)]
    BY Zenon, <1>2 DEF WriteIcw
  <2>2. more => c.byteExpected + 1 \in {3, 4}
    OBVIOUS
  <2>3. more \in BOOLEAN
    OBVIOUS
  <2> HIDE DEF more
  <2>4. /\ d(auto) \in Chip /\ Free(d(auto))
        /\ d(auto).irqIn = c.irqIn /\ d(auto).irr = c.irr /\ d(auto).intPin = c.intPin
    BY ZenonT(60), <1>0, <2>2, <2>3 DEF Chip, Free
  <2> HIDE DEF d
  <2> QED
    BY Zenon, <2>1, <2>4, EditGood
<1>3. CASE WriteMask(ch)
  <2>1. PICK mask \in MaskValues : pic' = ServiceChip([pic EXCEPT ![ch].imr = mask], ch)
    BY <1>3 DEF WriteMask
  <2> DEFINE d == [c EXCEPT !.imr = mask]
  <2>2. d \in Chip /\ d.irqIn = c.irqIn /\ d.irr = c.irr /\ d.intPin = c.intPin /\ Free(d)
    BY <1>0, PicAssumption DEF Chip, Free
  <2>3. pic' = ServiceChip([pic EXCEPT ![ch] = d], ch)
    BY <2>1
  <2> QED
    BY Zenon, <2>2, <2>3, EditAndServiceGood
<1>4. CASE Ocw2Eoi(ch)
  <2>1. ASSUME NEW rotate \in BOOLEAN
        PROVE  Good(Eoi(pic, ch, rotate)) /\ Flagged(pic, Eoi(pic, ch, rotate))
    <3> DEFINE h == ClearHighest(c)
               d == IF rotate THEN [h EXCEPT !.lowest = After(@)] ELSE h
    <3>1. h \in Chip /\ Free(h) /\ h.irqIn = c.irqIn /\ h.irr = c.irr /\ h.intPin = c.intPin
      BY <1>0, ClearHighestGood
    <3> HIDE DEF h
    <3>2. h.lowest \in Lines /\ After(h.lowest) \in Lines
      BY <3>1, RankType DEF Chip
    <3>3. d \in Chip /\ d.irqIn = c.irqIn /\ d.irr = c.irr /\ d.intPin = c.intPin /\ Free(d)
      BY <3>1, <3>2 DEF Chip, Free
    <3>4. Eoi(pic, ch, rotate) = ServiceChip([pic EXCEPT ![ch] = d], ch)
      BY DEF Eoi, h
    <3> HIDE DEF d
    <3> QED
      BY <3>3, <3>4, EditAndServiceGood
  <2>2. ASSUME NEW rotate \in BOOLEAN, NEW line \in Lines
        PROVE  /\ Good(SpecificEoi(pic, ch, line, rotate))
               /\ Flagged(pic, SpecificEoi(pic, ch, line, rotate))
    <3> DEFINE d == [c EXCEPT !.isr = @ \ {line}, !.lowest = IF rotate THEN line ELSE @]
    <3>1. d \in Chip /\ d.irqIn = c.irqIn /\ d.irr = c.irr /\ d.intPin = c.intPin /\ Free(d)
      BY Zenon, <1>0 DEF Chip, Free
    <3>2. SpecificEoi(pic, ch, line, rotate) = ServiceChip([pic EXCEPT ![ch] = d], ch)
      BY Zenon DEF SpecificEoi, Good, Sound, Pair, Chips
    <3> HIDE DEF d
    <3> QED
      BY <3>1, <3>2, EditAndServiceGood
  <2> QED
    BY Zenon, <1>4, <2>1, <2>2 DEF Ocw2Eoi
<1>5. CASE Ocw2Priority(ch)
  <2>1. PICK d : /\ pic' = [pic EXCEPT ![ch] = d]
                 /\ \/ \E line \in Lines : d = [c EXCEPT !.lowest = line]
                    \/ \E on \in BOOLEAN : d = [c EXCEPT !.rotateOnAutoEoi = on]
    BY Zenon, <1>5 DEF Ocw2Priority
  <2>2. d \in Chip /\ d.irqIn = c.irqIn /\ d.irr = c.irr /\ d.intPin = c.intPin /\ Free(d)
    BY <1>0, <2>1 DEF Chip, Free
  <2> QED
    BY Zenon, <2>1, <2>2, EditGood
<1>6. CASE Ocw3(ch)
  <2>1. PICK d \in {[c EXCEPT !.polled = TRUE], [c EXCEPT !.specialMask = FALSE],
                    [c EXCEPT !.specialMask = TRUE]} :
             \/ pic' = [pic EXCEPT ![ch] = d]
             \/ pic' = ServiceChip([pic EXCEPT ![ch] = d], ch)
    BY <1>6 DEF Ocw3
  <2>2. d \in Chip /\ d.irqIn = c.irqIn /\ d.irr = c.irr /\ d.intPin = c.intPin /\ Free(d)
    BY ZenonT(60), <1>0, <2>1 DEF Chip, Free
  <2> QED
    BY <2>1, <2>2, EditGood, EditAndServiceGood
<1>7. CASE PollRead(ch)
  <2> DEFINE h == ClearHighest(c)
             d == [h EXCEPT !.polled = FALSE]
  <2>1. pic' = ServiceChip([pic EXCEPT ![ch] = d], ch)
    BY <1>7 DEF PollRead
  <2>2. h \in Chip /\ Free(h) /\ h.irqIn = c.irqIn /\ h.irr = c.irr /\ h.intPin = c.intPin
    BY <1>0, ClearHighestGood
  <2> HIDE DEF h
  <2>3. d \in Chip /\ d.irqIn = c.irqIn /\ d.irr = c.irr /\ d.intPin = c.intPin /\ Free(d)
    BY Zenon, <2>2 DEF Chip, Free
  <2> QED
    BY Zenon, <2>1, <2>3, EditAndServiceGood
<1>8. CASE SetMode(ch)
  <2>1. PICK mode \in LevelModes : pic' = [pic EXCEPT ![ch] = [c EXCEPT !.edgeLevel = mode]]
    BY Zenon, <1>8 DEF SetMode
  <2> DEFINE d == [c EXCEPT !.edgeLevel = mode]
  <2>2. d \in Chip /\ d.irqIn = c.irqIn /\ d.irr = c.irr /\ d.intPin = c.intPin /\ Free(d)
    BY <1>0, PicAssumption DEF Chip, Free
  <2> QED
    BY Zenon, <2>1, <2>2, EditGood
<1> QED
  BY <1>1, <1>2, <1>3, <1>4, <1>5, <1>6, <1>7, <1>8 DEF GuestWrite

LEMMA InitGood == Init => Good(pic)
<1>1. ResetChip \in Chip /\ Free(ResetChip) /\ ~ResetChip.intPin
        /\ ResetChip.irqIn = {} /\ ResetChip.irr = {}
  BY PicAssumption DEF ResetChip, Chip, Free, Lines
<1> QED
  BY <1>1 DEF Init, Good, Sound, Pair, Wired, Backed

\* Devices drive lines of the chips, never the cascade.
LEMMA DrivenLines ==
    ASSUME Good(pic)
    PROVE  Driven \subseteq (Chips \X Lines) \ {<<"master", Cascade>>}
<1>1. pic.commands \in Guests
  BY DEF Good, Sound, Pair
<1> QED
  BY <1>1, PicAssumption DEF Driven

\* Every step keeps the pair good and does to INT what IntPin allows.
LEMMA StepGood ==
    ASSUME Good(pic), [Next]_pic
    PROVE  Good(pic') /\ [Output!PinNext \/ Reset]_(Output!pinVars)
<1>1. ASSUME Good(pic'), Flagged(pic, pic')
      PROVE  Output!Drive
  BY <1>1 DEF Output!Drive, Flagged, Good, Sound, Pair, Chip
<1>2. ASSUME NEW l \in Driven
      PROVE  l[1] \in Chips /\ l[2] \in Lines /\ <<l[1], l[2]>> # <<"master", Cascade>>
  BY <1>2, DrivenLines
<1>3. CASE RaiseIrq
  <2>1. PICK l \in Driven : pic' = RaiseLine(pic, l[1], l[2])
    BY <1>3 DEF RaiseIrq
  <2> QED
    BY <1>1, <1>2, <2>1, RaiseLineGood DEF Output!PinNext
<1>4. CASE LowerIrq
  <2>1. PICK l \in Driven : pic' = LowerLine(pic, l[1], l[2])
    BY <1>4 DEF LowerIrq
  <2> QED
    BY <1>1, <1>2, <2>1, LowerLineGood DEF Output!PinNext
<1>5. CASE Inta
  BY <1>1, <1>5, IacGood DEF Inta, Output!PinNext
<1>6. CASE TakeLevel
  <2>1. /\ Good(pic') /\ pic'.master = pic.master /\ pic'.slave = pic.slave
        /\ pic'.irqPending = FALSE /\ pic'.irqCleared = FALSE
    BY Zenon, <1>6 DEF TakeLevel, Good, Sound, Pair, Wired, Backed
  <2> QED
    BY <2>1 DEF Output!TakeFlags, Output!PinNext
<1>7. CASE Reset
  <2>1. ResetChip \in Chip /\ Free(ResetChip) /\ ~ResetChip.intPin
          /\ ResetChip.irqIn = {} /\ ResetChip.irr = {}
    BY PicAssumption DEF ResetChip, Chip, Free, Lines
  <2>2. /\ pic' \in Pair /\ pic'.master = ResetChip /\ pic'.slave = ResetChip
        /\ pic'.irqPending = pic.irqPending /\ pic'.irqCleared = pic.irqCleared
    BY Zenon, <1>7, <2>1 DEF Reset, Good, Sound, Pair
  <2>3. Good(pic')
    BY <2>1, <2>2 DEF Good, Sound, Wired, Backed
  <2> QED
    BY <1>7, <2>3
<1>8. CASE \E ch \in Chips : GuestWrite(ch)
  BY <1>1, <1>8, GuestWriteGood DEF Output!PinNext
<1>9. CASE UNCHANGED pic
  BY <1>9 DEF Output!pinVars
<1> QED
  BY <1>3, <1>4, <1>5, <1>6, <1>7, <1>8, <1>9 DEF Next

-----------------------------------------------------------------------------
(* The theorems *)

\* Every state the pair reaches is good.
THEOREM PairStaysGood == Spec => []Good(pic)
<1>1. Good(pic) /\ [Next]_pic => Good(pic)'
  BY StepGood
<1> QED
  BY InitGood, <1>1, PTL DEF Spec

\* The registers of both chips keep their types; in particular the winner and
\* the lowest priority are always lines (restore() rejects a snapshot where
\* either is above 7).
THEOREM PairTyped == Spec => []TypeOK
<1>1. Good(pic) => TypeOK
  BY DEF Good, Sound, Pair, TypeOK
<1> QED
  BY <1>1, PairStaysGood, PTL

\* The slave's INT output and the master's cascade input never disagree.
THEOREM CascadeStaysWired == Spec => []CascadeWired
<1>1. Good(pic) => CascadeWired
  BY DEF Good, Wired, CascadeWired
<1> QED
  BY <1>1, PairStaysGood, PTL

\* No request outlives the line that made it.
THEOREM RequestsStayBacked == Spec => []RequestsBacked
<1>1. Good(pic) => RequestsBacked
  BY DEF Good, Sound, Backed, RequestsBacked
<1> QED
  BY <1>1, PairStaysGood, PTL

\* INT is never up for a line whose handler is running.
THEOREM WinnerStaysOutOfService == Spec => []WinnerNotInService
<1>1. Good(pic) => WinnerNotInService
  BY ChipOf DEF Free, WinnerNotInService
<1> QED
  BY <1>1, PairStaysGood, PTL

\* The pair implements IntPin: outside a reset, INT moves only with a flag.
THEOREM PairImplementsPin == Spec => PinContract
<1>1. Init => Output!PinInit
  BY DEF Init, ResetChip, Output!PinInit
<1>2. Good(pic) /\ [Next]_pic => [Output!PinNext \/ Reset]_(Output!pinVars)
  BY StepGood
<1> QED
  BY <1>1, <1>2, PairStaysGood, PTL DEF Spec, PinContract

-----------------------------------------------------------------------------
(* No request is missed *)

\* Nothing is left for service() to signal on a chip.
Told(c) == c.intPin \/ Candidates(c) = {}

\* A spurious acknowledge of the slave may leave the master unserviced.
Excused(c) == Cascade \in c.isr \/ c.autoEoi

\* ICW1 turns automatic EOI off, and the last word of the sequence turns it on:
\* a master that was excused by it stays excused until its requests are cleared.
InitManual(c) == c.inInit => ~c.autoEoi

Served(p) == /\ Told(p.slave)
             /\ Told(p.master) \/ Excused(p.master)
             /\ InitManual(p.master) /\ InitManual(p.slave)

\* The scan begins with the line after the lowest, which no line is ahead of.
LEMMA FirstRank ==
    ASSUME NEW c \in Chip
    PROVE  Rank(c, After(c.lowest)) = 0
<1> DEFINE l == c.lowest
           n == NLines
<1>1. n \in Nat \ {0} /\ l \in 0..(n - 1)
  BY PicAssumption DEF Chip, Lines
<1> HIDE DEF l, n
<1>2. (((l + 1) % n) + n - 1 - l) % n = 0
  <2>1. CASE l = n - 1
    <3>1. (l + 1) % n = 0
      BY <1>1, <2>1
    <3> QED
      BY <1>1, <2>1, <3>1
  <2>2. CASE l < n - 1
    <3>1. (l + 1) % n = l + 1
      BY <1>1, <2>2
    <3>2. ((l + 1) % n) + n - 1 - l = n
      BY <1>1, <3>1
    <3>3. n % n = 0
      BY <1>1
    <3> QED
      BY <3>2, <3>3
  <2> QED
    BY <1>1, <2>1, <2>2
<1> QED
  BY <1>2 DEF Rank, After, l, n

\* service() leaves nothing to signal, and the lines in service alone.
LEMMA ServiceTells ==
    ASSUME NEW c \in Chip
    PROVE  /\ Told(Service(c))
           /\ Service(c).autoEoi = c.autoEoi /\ Service(c).inInit = c.inInit
<1>1. CASE ~c.specialMask /\ After(c.lowest) \in c.isr
  <2>1. ASSUME NEW i \in Candidates(c) PROVE FALSE
    <3>1. i \in Lines /\ Rank(c, i) < Rank(c, After(c.lowest))
      BY <1>1, <2>1 DEF Candidates, Requests, Chip
    <3>2. Rank(c, i) \in Nat
      BY <3>1, RankType
    <3> QED
      BY <3>1, <3>2, FirstRank
  <2> QED
    BY <1>1, <2>1 DEF Service, Told
<1>2. CASE ~(~c.specialMask /\ After(c.lowest) \in c.isr) /\ Requests(c) = {}
  <2> DEFINE d == [c EXCEPT !.intPin = FALSE]
  <2>1. Service(c) = d
    BY Zenon, <1>2 DEF Service
  <2>2. d.irr = c.irr /\ d.imr = c.imr /\ d.autoEoi = c.autoEoi /\ d.inInit = c.inInit
    BY DEF Chip
  <2> HIDE DEF d
  <2> QED
    BY <1>2, <2>1, <2>2 DEF Told, Candidates, Requests
<1>3. CASE /\ ~(~c.specialMask /\ After(c.lowest) \in c.isr) /\ Requests(c) # {}
           /\ c.intPin \/ Candidates(c) = {}
  BY Zenon, <1>3 DEF Service, Told
<1>4. CASE /\ ~(~c.specialMask /\ After(c.lowest) \in c.isr) /\ Requests(c) # {}
           /\ ~(c.intPin \/ Candidates(c) = {})
  <2>1. Service(c) = [c EXCEPT !.intPin = TRUE, !.irq = Foremost(c, Candidates(c))]
    BY Zenon, <1>4 DEF Service
  <2> QED
    BY <2>1 DEF Told, Chip
<1> QED
  BY Zenon, <1>1, <1>2, <1>3, <1>4

\* A change that adds no candidate leaves a chip told.
LEMMA StillTold ==
    ASSUME NEW c \in Chip, NEW d \in Chip, Told(c),
           d.irr \subseteq c.irr, d.imr = c.imr, d.isr = c.isr, d.lowest = c.lowest,
           d.intPin = c.intPin, d.specialMask => c.specialMask
    PROVE  Told(d)
<1>1. \A i \in Lines : Rank(d, i) = Rank(c, i) /\ Rank(c, i) \in Nat
  BY Zenon, RankType DEF Rank
<1>2. Requests(d) \subseteq Requests(c) /\ Requests(d) \subseteq Lines
  BY DEF Requests, Chip
<1>3. ASSUME NEW i \in Candidates(d) PROVE i \in Candidates(c)
  <2>1. i \in Requests(d) /\ i \in Requests(c) /\ i \in Lines
    BY <1>2, <1>3 DEF Candidates
  <2>2. CASE d.specialMask
    BY <1>3, <2>1, <2>2 DEF Candidates
  <2>3. CASE ~d.specialMask
    <3>1. \A j \in d.isr : Rank(d, i) < Rank(d, j)
      BY <1>3, <2>3 DEF Candidates
    <3>2. d.isr \subseteq Lines
      BY DEF Chip
    <3>3. \A j \in c.isr : Rank(c, i) < Rank(c, j)
      BY <1>1, <2>1, <3>1, <3>2
    <3>4. i \notin c.isr
      BY <1>1, <2>1, <3>3
    <3> QED
      BY <2>1, <3>3, <3>4 DEF Candidates
  <2> QED
    BY <2>2, <2>3
<1> QED
  BY <1>3 DEF Told

-----------------------------------------------------------------------------
(* The calls of the pair, again *)

LEMMA ServiceMasterServes ==
    ASSUME NEW p, Sound(p), Told(p.slave), InitManual(p.master), InitManual(p.slave)
    PROVE  Served(ServiceMaster(p))
<1>1. p \in Pair /\ p.master \in Chip
  BY DEF Sound, Pair
<1>2. ServiceMaster(p).master = Service(p.master) /\ ServiceMaster(p).slave = p.slave
  BY <1>1 DEF ServiceMaster, Pair
<1> QED
  BY <1>1, <1>2, ServiceTells DEF Served, InitManual

\* An edit of the master that adds no candidate and takes no excuse
LEMMA MasterEditServed ==
    ASSUME NEW p, Sound(p), Served(p), NEW q \in Pair, q.slave = p.slave,
           q.master.irr \subseteq p.master.irr, q.master.imr = p.master.imr,
           q.master.isr = p.master.isr, q.master.lowest = p.master.lowest,
           q.master.intPin = p.master.intPin,
           q.master.specialMask = p.master.specialMask,
           q.master.autoEoi = p.master.autoEoi, q.master.inInit = p.master.inInit
    PROVE  Served(q)
<1>1. p.master \in Chip /\ q.master \in Chip
  BY DEF Sound, Pair
<1>2. Told(p.master) => Told(q.master)
  BY Zenon, <1>1, StillTold
<1> QED
  BY <1>2 DEF Served, Excused, InitManual

LEMMA RaiseMasterServes ==
    ASSUME NEW p, Sound(p), Served(p), NEW line \in Lines
    PROVE  Served(RaiseMaster(p, line))
<1> DEFINE q == [p EXCEPT !.master.irqIn = @ \cup {line}]
           r == [q EXCEPT !.master.irr = @ \cup {line}]
<1>0. p \in Pair /\ p.master \in Chip
  BY DEF Sound, Pair
<1>1. /\ q \in Pair /\ q.slave = p.slave
      /\ q.master = [p.master EXCEPT !.irqIn = p.master.irqIn \cup {line}]
  BY <1>0 DEF Pair, Chip
<1>2. /\ r \in Pair /\ r.slave = p.slave
      /\ r.master = [q.master EXCEPT !.irr = q.master.irr \cup {line}]
  BY ZenonT(60), <1>1 DEF Pair, Chip
<1> HIDE DEF q, r
<1>3. Served(q)
  <2>1. /\ q.master.irr = p.master.irr /\ q.master.imr = p.master.imr
        /\ q.master.isr = p.master.isr /\ q.master.lowest = p.master.lowest
        /\ q.master.intPin = p.master.intPin
        /\ q.master.specialMask = p.master.specialMask
        /\ q.master.autoEoi = p.master.autoEoi /\ q.master.inInit = p.master.inInit
    BY <1>0, <1>1 DEF Chip
  <2> QED
    BY Zenon, <1>1, <2>1, MasterEditServed
<1>4. Sound(r)
  BY <1>0, <1>1, <1>2 DEF Sound, Backed, Free, Pair, Chip
<1>5. r.master.autoEoi = p.master.autoEoi /\ r.master.inInit = p.master.inInit
  BY <1>0, <1>1, <1>2 DEF Chip
<1>6. Served(ServiceMaster(r))
  BY Zenon, <1>2, <1>4, <1>5, ServiceMasterServes DEF Served, InitManual
<1>7. RaiseMaster(p, line) = IF line \in p.master.irr THEN q ELSE ServiceMaster(r)
  BY DEF RaiseMaster, q, r
<1> QED
  BY Zenon, <1>3, <1>6, <1>7

LEMMA LowerMasterServes ==
    ASSUME NEW p, Sound(p), Served(p), NEW line \in Lines
    PROVE  Served(LowerMaster(p, line))
<1> DEFINE q == [p EXCEPT !.master.irqIn = @ \ {line}, !.master.irr = @ \ {line}]
<1>0. p \in Pair /\ p.master \in Chip
  BY DEF Sound, Pair
<1>1. /\ q \in Pair /\ q.slave = p.slave
      /\ q.master = [p.master EXCEPT !.irqIn = p.master.irqIn \ {line},
                                     !.irr = p.master.irr \ {line}]
  BY Zenon, <1>0 DEF Pair, Chip
<1> HIDE DEF q
<1>2. /\ q.master.irr \subseteq p.master.irr /\ q.master.imr = p.master.imr
      /\ q.master.isr = p.master.isr /\ q.master.lowest = p.master.lowest
      /\ q.master.intPin = p.master.intPin
      /\ q.master.specialMask = p.master.specialMask
      /\ q.master.autoEoi = p.master.autoEoi /\ q.master.inInit = p.master.inInit
  BY <1>0, <1>1 DEF Chip
<1>3. Served(q)
  BY Zenon, <1>1, <1>2, MasterEditServed
<1> QED
  BY <1>3 DEF LowerMaster, q

\* The slave's service call tells of the slave's requests whatever went before.
LEMMA ServiceSlaveServes ==
    ASSUME NEW p, Good(p), Told(p.master) \/ Excused(p.master),
           InitManual(p.master), InitManual(p.slave)
    PROVE  Served(ServiceSlave(p))
<1> DEFINE s == Service(p.slave)
           q == [p EXCEPT !.slave = s]
<1>1. p \in Pair /\ p.master \in Chip /\ p.slave \in Chip /\ Free(p.slave)
  BY DEF Good, Sound, Pair
<1>2. s \in Chip /\ Free(s) /\ s.irqIn = p.slave.irqIn /\ s.irr = p.slave.irr
  BY <1>1, ServiceGood
<1>3. Told(s) /\ InitManual(s)
  BY <1>1, ServiceTells DEF InitManual
<1> HIDE DEF s
<1>4. q \in Pair /\ q.slave = s /\ q.master = p.master
  BY <1>1, <1>2 DEF Pair
<1> HIDE DEF q
<1>5. Sound(q) /\ Served(q)
  BY <1>2, <1>3, <1>4 DEF Good, Sound, Backed, Served
<1>6. /\ Served(RaiseMaster(q, Cascade))
      /\ Served(LowerMaster(q, Cascade))
  BY <1>5, PicAssumption, RaiseMasterServes, LowerMasterServes
<1> QED
  BY <1>5, <1>6 DEF ServiceSlave, s, q

\* An edit of a chip followed by its service call
LEMMA EditAndServiceServes ==
    ASSUME NEW p, Good(p), Served(p), NEW ch \in Chips, NEW c \in Chip,
           c.irqIn = p[ch].irqIn, c.irr \subseteq p[ch].irr,
           c.intPin = p[ch].intPin, Free(c),
           c.autoEoi = p[ch].autoEoi, c.inInit = p[ch].inInit
    PROVE  Served(ServiceChip([p EXCEPT ![ch] = c], ch))
<1> DEFINE q == [p EXCEPT ![ch] = c]
<1> SUFFICES Served(ServiceChip(q, ch))
  OBVIOUS
<1>1. Good(q)
  BY EditGood
<1>2. CASE ch = "master"
  <2>1. q.master = c /\ q.slave = p.slave
    BY <1>2 DEF Good, Sound, Pair
  <2>2. ServiceChip(q, ch) = ServiceMaster(q)
    BY <1>2 DEF ServiceChip
  <2> HIDE DEF q
  <2>3. InitManual(q.master)
    BY <1>2, <2>1 DEF Served, InitManual
  <2> QED
    BY <1>1, <2>1, <2>2, <2>3, ServiceMasterServes DEF Good, Served
<1>3. CASE ch = "slave"
  <2>1. q.slave = c /\ q.master = p.master
    BY <1>3 DEF Good, Sound, Pair
  <2>2. ServiceChip(q, ch) = ServiceSlave(q)
    BY <1>3 DEF ServiceChip
  <2> HIDE DEF q
  <2>3. InitManual(q.slave)
    BY <1>3, <2>1 DEF Served, InitManual
  <2> QED
    BY <1>1, <2>1, <2>2, <2>3, ServiceSlaveServes DEF Served
<1> QED
  BY <1>2, <1>3 DEF Chips

\* An edit that no service call follows
LEMMA EditServed ==
    ASSUME NEW p, Good(p), Served(p), NEW ch \in Chips, NEW c \in Chip,
           c.irr = p[ch].irr, c.imr = p[ch].imr, c.isr = p[ch].isr,
           c.lowest = p[ch].lowest, c.intPin = p[ch].intPin,
           c.specialMask => p[ch].specialMask,
           p[ch].autoEoi => c.autoEoi, InitManual(c)
    PROVE  Served([p EXCEPT ![ch] = c])
<1>1. p \in Pair /\ p[ch] \in Chip
  BY ChipOf DEF Good, Sound
<1>2. Told(p[ch]) => Told(c)
  BY Zenon, <1>1, StillTold
<1>3. CASE ch = "master"
  BY <1>1, <1>2, <1>3 DEF Pair, Served, Excused
<1>4. CASE ch = "slave"
  BY <1>1, <1>2, <1>4 DEF Pair, Served
<1> QED
  BY <1>3, <1>4 DEF Chips

LEMMA RaiseLineServes ==
    ASSUME NEW p, Good(p), Served(p), NEW ch \in Chips, NEW line \in Lines
    PROVE  Served(RaiseLine(p, ch, line))
<1>0. p \in Pair /\ p.slave \in Chip
  BY DEF Good, Sound, Pair
<1>1. CASE ch = "master"
  BY <1>1, RaiseMasterServes DEF RaiseLine, Good
<1>2. CASE ch = "slave"
  <2> DEFINE q == [p EXCEPT !.slave.irqIn = @ \cup {line}]
             r == [q EXCEPT !.slave.irr = @ \cup {line}]
  <2>1. /\ q \in Pair /\ q.master = p.master
        /\ q.slave = [p.slave EXCEPT !.irqIn = p.slave.irqIn \cup {line}]
    BY <1>0 DEF Pair, Chip
  <2>2. /\ r \in Pair /\ r.master = p.master
        /\ r.slave = [q.slave EXCEPT !.irr = q.slave.irr \cup {line}]
    BY ZenonT(60), <2>1 DEF Pair, Chip
  <2> HIDE DEF q, r
  <2>3. /\ q.slave.irr = p.slave.irr /\ q.slave.imr = p.slave.imr
        /\ q.slave.isr = p.slave.isr /\ q.slave.lowest = p.slave.lowest
        /\ q.slave.intPin = p.slave.intPin
        /\ q.slave.specialMask = p.slave.specialMask
        /\ q.slave.autoEoi = p.slave.autoEoi /\ q.slave.inInit = p.slave.inInit
        /\ q.slave \in Chip
    BY <1>0, <2>1 DEF Chip, Pair
  <2>4. Told(q.slave)
    BY <1>0, <2>3, StillTold DEF Served
  <2>5. Served(q)
    BY <2>1, <2>3, <2>4 DEF Served, InitManual
  <2>6. Good(r)
    BY <1>0, <2>1, <2>2 DEF Good, Sound, Wired, Backed, Free, Pair, Chip
  <2>7. r.slave.autoEoi = p.slave.autoEoi /\ r.slave.inInit = p.slave.inInit
    BY <1>0, <2>1, <2>2 DEF Chip
  <2>8. Served(ServiceSlave(r))
    BY Zenon, <2>2, <2>6, <2>7, ServiceSlaveServes DEF Served, InitManual
  <2>9. RaiseLine(p, ch, line) = IF line \in p.slave.irr THEN q ELSE ServiceSlave(r)
    BY <1>2 DEF RaiseLine, q, r
  <2> QED
    BY <2>5, <2>8, <2>9
<1> QED
  BY <1>1, <1>2 DEF Chips

LEMMA LowerLineServes ==
    ASSUME NEW p, Good(p), Served(p), NEW ch \in Chips, NEW line \in Lines
    PROVE  Served(LowerLine(p, ch, line))
<1>0. p \in Pair /\ p.slave \in Chip
  BY DEF Good, Sound, Pair
<1>1. CASE ch = "master"
  BY <1>1, LowerMasterServes DEF LowerLine, Good
<1>2. CASE ch = "slave"
  <2> DEFINE q == [p EXCEPT !.slave.irqIn = @ \ {line}, !.slave.irr = @ \ {line}]
  <2>1. /\ q \in Pair /\ q.master = p.master
        /\ q.slave = [p.slave EXCEPT !.irqIn = p.slave.irqIn \ {line},
                                     !.irr = p.slave.irr \ {line}]
    BY Zenon, <1>0 DEF Pair, Chip
  <2> HIDE DEF q
  <2>2. /\ q.slave.irr \subseteq p.slave.irr /\ q.slave.imr = p.slave.imr
        /\ q.slave.isr = p.slave.isr /\ q.slave.lowest = p.slave.lowest
        /\ q.slave.intPin = p.slave.intPin
        /\ q.slave.specialMask = p.slave.specialMask
        /\ q.slave.autoEoi = p.slave.autoEoi /\ q.slave.inInit = p.slave.inInit
        /\ q.slave \in Chip
    BY <1>0, <2>1 DEF Chip, Pair
  <2>3. Told(q.slave)
    BY Zenon, <1>0, <2>2, StillTold DEF Served
  <2>4. Served(q)
    BY <2>1, <2>2, <2>3 DEF Served, InitManual
  <2> QED
    BY <1>2, <2>4 DEF LowerLine, q
<1> QED
  BY <1>1, <1>2 DEF Chips

\* What an acknowledge takes leaves the initialisation alone, and a handler's
\* line in service or its EOI automatic.
LEMMA TakeExcuses ==
    ASSUME NEW c \in Chip
    PROVE  /\ Take(c).autoEoi = c.autoEoi /\ Take(c).inInit = c.inInit
           /\ c.irq \in Take(c).isr \/ Take(c).autoEoi
BY DEF Take, Chip

\* The acknowledge cycle: its two spurious answers return before the service
\* calls, the first with no request left, the second with the cascade in service.
LEMMA IacServes ==
    ASSUME NEW p, Good(p), Served(p)
    PROVE  Served(Iac(p))
<1> DEFINE dropped == [p EXCEPT !.irqCleared = TRUE, !.master.intPin = FALSE]
           taken   == [dropped EXCEPT !.master = Take(@)]
           cascade == [taken EXCEPT !.slave.intPin = FALSE,
                                    !.master.irqIn = @ \ {Cascade}]
           answered == [cascade EXCEPT !.slave = Take(@)]
           down == [p.master EXCEPT !.intPin = FALSE]
<1>0. p \in Pair /\ p.master \in Chip /\ p.slave \in Chip
  BY DEF Good, Sound, Pair
<1>1. /\ down \in Chip /\ down.irq = p.master.irq /\ ~down.intPin
      /\ down.autoEoi = p.master.autoEoi /\ down.inInit = p.master.inInit
      /\ down.irr = p.master.irr /\ down.imr = p.master.imr /\ down.irqIn = p.master.irqIn
  BY Zenon, <1>0 DEF Chip
<1>2. dropped \in Pair /\ dropped.master = down /\ dropped.slave = p.slave
  BY ZenonT(60), <1>0, <1>1 DEF Pair
<1> HIDE DEF down, dropped
<1>3. /\ Take(down) \in Chip /\ Free(Take(down)) /\ ~Take(down).intPin
      /\ Take(down).irqIn = down.irqIn /\ Take(down).irr \subseteq down.irr
      /\ Take(down).autoEoi = down.autoEoi /\ Take(down).inInit = down.inInit
      /\ down.irq \in Take(down).isr \/ Take(down).autoEoi
  BY <1>1, TakeGood, TakeExcuses
<1>4. taken \in Pair /\ taken.master = Take(down) /\ taken.slave = p.slave
  BY Zenon, <1>2, <1>3 DEF Pair
<1> HIDE DEF taken
<1>5. Good(taken)
  BY <1>1, <1>3, <1>4 DEF Good, Sound, Wired, Backed
<1>6. InitManual(taken.master) /\ InitManual(taken.slave) /\ Told(taken.slave)
  BY <1>1, <1>3, <1>4 DEF Served, InitManual
<1>7. Served(dropped) \/ Requests(p.master) # {}
  <2>1. SUFFICES ASSUME Requests(p.master) = {} PROVE Served(dropped)
    OBVIOUS
  <2>2. Candidates(down) = {}
    BY <1>1, <2>1 DEF Candidates, Requests
  <2> QED
    BY <1>1, <1>2, <2>2 DEF Served, Told, InitManual
<1>8. Served(ServiceMaster(taken))
  BY <1>5, <1>6, ServiceMasterServes DEF Good
<1> DEFINE m == [taken.master EXCEPT !.irqIn = @ \ {Cascade}]
           s == [taken.slave EXCEPT !.intPin = FALSE]
<1>9. /\ m \in Chip /\ m.isr = taken.master.isr /\ m.autoEoi = taken.master.autoEoi
      /\ m.inInit = taken.master.inInit /\ m.irr = taken.master.irr
      /\ m.intPin = taken.master.intPin /\ m.irq = taken.master.irq
      /\ m.irqIn = taken.master.irqIn \ {Cascade}
  BY Zenon, <1>3, <1>4 DEF Chip
<1>10. /\ s \in Chip /\ s.irr = p.slave.irr /\ s.imr = p.slave.imr /\ ~s.intPin
       /\ s.autoEoi = p.slave.autoEoi /\ s.inInit = p.slave.inInit
       /\ s.irqIn = p.slave.irqIn
  BY Zenon, <1>0, <1>4 DEF Chip
<1>11. cascade \in Pair /\ cascade.master = m /\ cascade.slave = s
  <2>1. cascade = [taken EXCEPT !.master = m, !.slave = s]
    BY Zenon, <1>4 DEF Pair
  <2> HIDE DEF m, s, cascade
  <2> QED
    BY Zenon, <1>4, <1>9, <1>10, <2>1 DEF Pair
<1> HIDE DEF m, s, cascade
<1>12. InitManual(m) /\ InitManual(s)
  BY <1>6, <1>9, <1>10 DEF InitManual, Served
<1>13. Excused(m) \/ p.master.irq # Cascade
  BY <1>1, <1>3, <1>4, <1>9 DEF Excused
<1>14. Served(cascade) \/ p.master.irq # Cascade \/ Requests(p.slave) # {}
  <2>1. SUFFICES ASSUME p.master.irq = Cascade, Requests(p.slave) = {} PROVE Served(cascade)
    OBVIOUS
  <2>2. Candidates(s) = {}
    BY <1>10, <2>1 DEF Candidates, Requests
  <2> QED
    BY <1>11, <1>12, <1>13, <2>1, <2>2 DEF Served, Told
<1>15. /\ Take(s) \in Chip /\ Free(Take(s)) /\ ~Take(s).intPin
       /\ Take(s).irqIn = s.irqIn /\ Take(s).irr \subseteq s.irr
       /\ Take(s).autoEoi = s.autoEoi /\ Take(s).inInit = s.inInit
  BY <1>10, TakeGood, TakeExcuses
<1>16. answered \in Pair /\ answered.master = m /\ answered.slave = Take(s)
  BY Zenon, <1>11, <1>15 DEF Pair
<1> HIDE DEF answered
<1>17. Good(answered)
  <2>1. Free(m)
    BY <1>3, <1>4, <1>9 DEF Free
  <2>2. Wired(answered)
    BY <1>9, <1>15, <1>16 DEF Wired
  <2>3. Backed(answered)
    BY <1>5, <1>4, <1>9, <1>10, <1>15, <1>16 DEF Backed, Good, Sound
  <2> QED
    BY <1>15, <1>16, <2>1, <2>2, <2>3 DEF Good, Sound
<1>18. InitManual(answered.master) /\ InitManual(answered.slave)
  BY <1>12, <1>15, <1>16 DEF InitManual
<1>19. p.master.irq = Cascade => Served(ServiceMaster(ServiceSlave(answered)))
  <2>1. SUFFICES ASSUME p.master.irq = Cascade
                 PROVE  Served(ServiceMaster(ServiceSlave(answered)))
    OBVIOUS
  <2>2. Excused(answered.master)
    BY <1>13, <1>16, <2>1
  <2>3. Good(ServiceSlave(answered)) /\ Served(ServiceSlave(answered))
    BY <1>17, <1>18, <2>2, ServiceSlaveGood, ServiceSlaveServes
  <2> QED
    BY <2>3, ServiceMasterServes DEF Good, Served
<1>20. Iac(p) = IF Requests(p.master) = {} THEN dropped
                ELSE IF p.master.irq # Cascade THEN ServiceMaster(taken)
                ELSE IF Requests(p.slave) = {} THEN cascade
                ELSE ServiceMaster(ServiceSlave(answered))
  BY DEF Iac, dropped, taken, cascade, answered
<1> QED
  BY <1>7, <1>8, <1>14, <1>19, <1>20

\* The first initialisation word clears the chip's requests.
LEMMA StartInitServes ==
    ASSUME NEW p, Good(p), Served(p), NEW ch \in Chips, NEW icw4 \in BOOLEAN
    PROVE  Served(StartInit(p, ch, icw4))
<1> DEFINE c == [p[ch] EXCEPT !.inInit = TRUE, !.requires4 = icw4, !.byteExpected = 2,
                          !.imr = {}, !.isr = {}, !.irr = {}, !.lowest = NLines - 1,
                          !.autoEoi = FALSE, !.rotateOnAutoEoi = FALSE,
                          !.intPin = FALSE]
<1>1. p \in Pair /\ p[ch] \in Chip /\ p.master \in Chip
  BY ChipOf DEF Good, Sound, Pair
<1>2. c.irr = {} /\ ~c.autoEoi
  BY ZenonT(60), <1>1 DEF Chip
<1> HIDE DEF c
<1>3. Told(c) /\ InitManual(c)
  BY <1>2 DEF Told, Candidates, Requests, InitManual
<1>4. CASE ch = "master"
  <2>1. StartInit(p, ch, icw4) = [p EXCEPT !.master = c, !.irqCleared = TRUE]
    BY Zenon, <1>1, <1>4 DEF StartInit, c, Pair
  <2> QED
    BY <1>1, <1>3, <2>1 DEF Served, Pair
<1>5. CASE ch = "slave"
  <2> DEFINE m == [p.master EXCEPT !.irqIn = @ \ {Cascade}]
  <2>1. StartInit(p, ch, icw4) = [p EXCEPT !.slave = c, !.master = m]
    BY Zenon, <1>1, <1>5 DEF StartInit, c, Pair
  <2>2. /\ m \in Chip /\ m.irr = p.master.irr /\ m.imr = p.master.imr
        /\ m.isr = p.master.isr /\ m.lowest = p.master.lowest
        /\ m.intPin = p.master.intPin /\ m.specialMask = p.master.specialMask
        /\ m.autoEoi = p.master.autoEoi /\ m.inInit = p.master.inInit
    BY Zenon, <1>1 DEF Chip
  <2> HIDE DEF m
  <2>3. Told(p.master) => Told(m)
    BY Zenon, <1>1, <2>2, StillTold
  <2>4. StartInit(p, ch, icw4).slave = c /\ StartInit(p, ch, icw4).master = m
    BY <1>1, <2>1 DEF Pair
  <2> QED
    BY <1>3, <2>2, <2>3, <2>4 DEF Served, Excused, InitManual
<1> QED
  BY <1>4, <1>5 DEF Chips

\* clear_highest_interrupt leaves the initialisation alone.
LEMMA ClearHighestKeeps ==
    ASSUME NEW c \in Chip
    PROVE  ClearHighest(c).autoEoi = c.autoEoi /\ ClearHighest(c).inInit = c.inInit
BY DEF ClearHighest, Chip

LEMMA GuestWriteServes ==
    ASSUME Good(pic), Served(pic), "priority" \notin pic.commands,
           NEW ch \in Chips, GuestWrite(ch)
    PROVE  Served(pic')
<1> DEFINE c == pic[ch]
<1>0. c \in Chip /\ Free(c) /\ InitManual(c)
  BY ChipOf DEF Served, Chips
<1>1. CASE Icw1(ch)
  BY <1>1, StartInitServes DEF Icw1
<1>2. CASE WriteIcw(ch)
  <2> DEFINE more == c.byteExpected = 2 \/ (c.byteExpected = 3 /\ c.requires4)
             d(auto) == [c EXCEPT !.byteExpected = IF more THEN @ + 1 ELSE @,
                                  !.inInit = more,
                                  !.autoEoi = IF c.byteExpected = 4 THEN auto ELSE @]
  <2>1. PICK auto \in BOOLEAN : pic' = [pic EXCEPT ![ch] = d(auto)]
    BY Zenon, <1>2 DEF WriteIcw
  <2>2. more => c.byteExpected + 1 \in {3, 4} /\ c.byteExpected # 4
    OBVIOUS
  <2>3. more \in BOOLEAN
    OBVIOUS
  <2>4. ~c.autoEoi
    BY <1>0, <1>2 DEF WriteIcw, InitManual
  <2> HIDE DEF more
  <2>5. /\ d(auto) \in Chip /\ d(auto).irr = c.irr /\ d(auto).imr = c.imr
        /\ d(auto).isr = c.isr /\ d(auto).lowest = c.lowest /\ d(auto).intPin = c.intPin
        /\ d(auto).specialMask = c.specialMask /\ d(auto).inInit = more
        /\ d(auto).autoEoi = IF c.byteExpected = 4 THEN auto ELSE c.autoEoi
    BY ZenonT(60), <1>0, <2>2, <2>3 DEF Chip
  <2> HIDE DEF d
  <2>6. InitManual(d(auto))
    BY <2>2, <2>4, <2>5 DEF InitManual
  <2> QED
    BY Zenon, <2>1, <2>4, <2>5, <2>6, EditServed
<1>3. CASE WriteMask(ch)
  <2>1. PICK mask \in MaskValues : pic' = ServiceChip([pic EXCEPT ![ch].imr = mask], ch)
    BY <1>3 DEF WriteMask
  <2> DEFINE d == [c EXCEPT !.imr = mask]
  <2>2. /\ d \in Chip /\ d.irqIn = c.irqIn /\ d.irr = c.irr /\ d.intPin = c.intPin /\ Free(d)
        /\ d.autoEoi = c.autoEoi /\ d.inInit = c.inInit
    BY <1>0, PicAssumption DEF Chip, Free
  <2>3. pic' = ServiceChip([pic EXCEPT ![ch] = d], ch)
    BY <2>1
  <2> HIDE DEF d
  <2> QED
    BY Zenon, <2>2, <2>3, EditAndServiceServes
<1>4. CASE Ocw2Eoi(ch)
  <2>1. ASSUME NEW rotate \in BOOLEAN PROVE Served(Eoi(pic, ch, rotate))
    <3> DEFINE h == ClearHighest(c)
               d == IF rotate THEN [h EXCEPT !.lowest = After(@)] ELSE h
    <3>1. /\ h \in Chip /\ Free(h) /\ h.irqIn = c.irqIn /\ h.irr = c.irr
          /\ h.intPin = c.intPin /\ h.autoEoi = c.autoEoi /\ h.inInit = c.inInit
      BY <1>0, ClearHighestGood, ClearHighestKeeps
    <3> HIDE DEF h
    <3>2. h.lowest \in Lines /\ After(h.lowest) \in Lines
      BY <3>1, RankType DEF Chip
    <3>3. /\ d \in Chip /\ d.irqIn = c.irqIn /\ d.irr = c.irr /\ d.intPin = c.intPin
          /\ Free(d) /\ d.autoEoi = c.autoEoi /\ d.inInit = c.inInit
      BY <3>1, <3>2 DEF Chip, Free
    <3>4. Eoi(pic, ch, rotate) = ServiceChip([pic EXCEPT ![ch] = d], ch)
      BY DEF Eoi, h
    <3> HIDE DEF d
    <3> QED
      BY <3>3, <3>4, EditAndServiceServes
  <2>2. ASSUME NEW rotate \in BOOLEAN, NEW line \in Lines
        PROVE  Served(SpecificEoi(pic, ch, line, rotate))
    <3> DEFINE d == [c EXCEPT !.isr = @ \ {line}, !.lowest = IF rotate THEN line ELSE @]
    <3>1. /\ d \in Chip /\ d.irqIn = c.irqIn /\ d.irr = c.irr /\ d.intPin = c.intPin
          /\ Free(d) /\ d.autoEoi = c.autoEoi /\ d.inInit = c.inInit
      BY Zenon, <1>0 DEF Chip, Free
    <3>2. SpecificEoi(pic, ch, line, rotate) = ServiceChip([pic EXCEPT ![ch] = d], ch)
      BY Zenon DEF SpecificEoi, Good, Sound, Pair, Chips
    <3> HIDE DEF d
    <3> QED
      BY <3>1, <3>2, EditAndServiceServes
  <2> QED
    BY Zenon, <1>4, <2>1, <2>2 DEF Ocw2Eoi
<1>5. CASE Ocw2Priority(ch)
  <2>1. PICK on \in BOOLEAN : pic' = [pic EXCEPT ![ch] = [c EXCEPT !.rotateOnAutoEoi = on]]
    BY Zenon, <1>5 DEF Ocw2Priority
  <2> DEFINE d == [c EXCEPT !.rotateOnAutoEoi = on]
  <2>2. /\ d \in Chip /\ d.irr = c.irr /\ d.imr = c.imr /\ d.isr = c.isr
        /\ d.lowest = c.lowest /\ d.intPin = c.intPin /\ d.specialMask = c.specialMask
        /\ d.autoEoi = c.autoEoi /\ d.inInit = c.inInit
    BY <1>0, <2>1 DEF Chip
  <2> HIDE DEF d
  <2>3. InitManual(d)
    BY <1>0, <2>2 DEF InitManual
  <2> QED
    BY Zenon, <2>1, <2>2, <2>3, EditServed DEF d
<1>6. CASE Ocw3(ch)
  <2> DEFINE on  == [c EXCEPT !.specialMask = TRUE]
             off == [c EXCEPT !.specialMask = FALSE]
             pol == [c EXCEPT !.polled = TRUE]
  <2>1. \/ pic' = [pic EXCEPT ![ch] = pol]
        \/ pic' = [pic EXCEPT ![ch] = off]
        \/ pic' = ServiceChip([pic EXCEPT ![ch] = on], ch)
    BY Zenon, <1>6 DEF Ocw3
  <2>2. /\ on \in Chip /\ on.irqIn = c.irqIn /\ on.irr = c.irr /\ on.intPin = c.intPin
        /\ Free(on) /\ on.autoEoi = c.autoEoi /\ on.inInit = c.inInit
    BY Zenon, <1>0 DEF Chip, Free
  <2>3. /\ off \in Chip /\ off.irr = c.irr /\ off.imr = c.imr /\ off.isr = c.isr
        /\ off.lowest = c.lowest /\ off.intPin = c.intPin /\ ~off.specialMask
        /\ off.autoEoi = c.autoEoi /\ off.inInit = c.inInit
    BY Zenon, <1>0 DEF Chip
  <2>4. /\ pol \in Chip /\ pol.irr = c.irr /\ pol.imr = c.imr /\ pol.isr = c.isr
        /\ pol.lowest = c.lowest /\ pol.intPin = c.intPin /\ pol.specialMask = c.specialMask
        /\ pol.autoEoi = c.autoEoi /\ pol.inInit = c.inInit
    BY Zenon, <1>0 DEF Chip
  <2> HIDE DEF on, off, pol
  <2>5. InitManual(off) /\ InitManual(pol)
    BY <1>0, <2>3, <2>4 DEF InitManual
  <2>6. Served(ServiceChip([pic EXCEPT ![ch] = on], ch))
    BY Zenon, <2>2, EditAndServiceServes
  <2>7. Served([pic EXCEPT ![ch] = off])
    BY Zenon, <2>3, <2>5, EditServed
  <2>8. Served([pic EXCEPT ![ch] = pol])
    BY Zenon, <2>4, <2>5, EditServed
  <2> QED
    BY Zenon, <2>1, <2>6, <2>7, <2>8
<1>7. CASE PollRead(ch)
  <2> DEFINE h == ClearHighest(c)
             d == [h EXCEPT !.polled = FALSE]
  <2>1. pic' = ServiceChip([pic EXCEPT ![ch] = d], ch)
    BY <1>7 DEF PollRead
  <2>2. /\ h \in Chip /\ Free(h) /\ h.irqIn = c.irqIn /\ h.irr = c.irr
        /\ h.intPin = c.intPin /\ h.autoEoi = c.autoEoi /\ h.inInit = c.inInit
    BY <1>0, ClearHighestGood, ClearHighestKeeps
  <2> HIDE DEF h
  <2>3. /\ d \in Chip /\ d.irqIn = c.irqIn /\ d.irr = c.irr /\ d.intPin = c.intPin /\ Free(d)
        /\ d.autoEoi = c.autoEoi /\ d.inInit = c.inInit
    BY Zenon, <2>2 DEF Chip, Free
  <2> HIDE DEF d
  <2> QED
    BY Zenon, <2>1, <2>3, EditAndServiceServes
<1>8. CASE SetMode(ch)
  <2>1. PICK mode \in LevelModes : pic' = [pic EXCEPT ![ch] = [c EXCEPT !.edgeLevel = mode]]
    BY Zenon, <1>8 DEF SetMode
  <2> DEFINE d == [c EXCEPT !.edgeLevel = mode]
  <2>2. /\ d \in Chip /\ d.irr = c.irr /\ d.imr = c.imr /\ d.isr = c.isr
        /\ d.lowest = c.lowest /\ d.intPin = c.intPin /\ d.specialMask = c.specialMask
        /\ d.autoEoi = c.autoEoi /\ d.inInit = c.inInit
    BY <1>0, PicAssumption DEF Chip
  <2> HIDE DEF d
  <2>3. InitManual(d)
    BY <1>0, <2>2 DEF InitManual
  <2> QED
    BY Zenon, <2>1, <2>2, <2>3, EditServed DEF d
<1> QED
  BY <1>1, <1>2, <1>3, <1>4, <1>5, <1>6, <1>7, <1>8 DEF GuestWrite

-----------------------------------------------------------------------------
(* The guest at work stays the same *)

Same(p, q) == DOMAIN q = DOMAIN p /\ q.commands = p.commands

LEMMA CallsKeepGuest ==
    ASSUME NEW p, "commands" \in DOMAIN p
    PROVE  /\ Same(p, ServiceMaster(p))
           /\ \A line \in Lines : Same(p, RaiseMaster(p, line)) /\ Same(p, LowerMaster(p, line))
           /\ Same(p, ServiceSlave(p))
           /\ \A ch \in Chips : Same(p, ServiceChip(p, ch))
<1>1. ASSUME NEW q, "commands" \in DOMAIN q PROVE Same(q, ServiceMaster(q))
  BY <1>1 DEF Same, ServiceMaster
<1>2. ASSUME NEW q, "commands" \in DOMAIN q, NEW line \in Lines PROVE Same(q, RaiseMaster(q, line))
  <2> DEFINE a == [q EXCEPT !.master.irqIn = @ \cup {line}]
             b == [a EXCEPT !.master.irr = @ \cup {line}]
  <2>1. Same(q, a) /\ Same(q, b)
    BY <1>2 DEF Same
  <2>2. RaiseMaster(q, line) = IF line \in q.master.irr THEN a ELSE ServiceMaster(b)
    BY DEF RaiseMaster
  <2> HIDE DEF a, b
  <2> QED
    BY <1>1, <1>2, <2>1, <2>2 DEF Same
<1>3. ASSUME NEW q, "commands" \in DOMAIN q, NEW line \in Lines PROVE Same(q, LowerMaster(q, line))
  BY <1>3 DEF Same, LowerMaster
<1>4. Same(p, ServiceSlave(p))
  <2> DEFINE q == [p EXCEPT !.slave = Service(p.slave)]
  <2>1. Same(p, q) /\ "commands" \in DOMAIN q
    BY DEF Same
  <2>2. ServiceSlave(p) \in {q, RaiseMaster(q, Cascade), LowerMaster(q, Cascade)}
    BY DEF ServiceSlave
  <2> HIDE DEF q
  <2> QED
    BY <1>2, <1>3, <2>1, <2>2, PicAssumption DEF Same
<1> QED
  BY <1>1, <1>2, <1>3, <1>4 DEF ServiceChip

LEMMA GuestStays ==
    ASSUME Good(pic), [Next]_pic
    PROVE  pic'.commands = pic.commands
<1>0. pic \in Pair /\ "commands" \in DOMAIN pic /\ "commands" \notin Chips
  BY DEF Good, Sound, Pair, Chips
<1>1. ASSUME NEW ch \in Chips, NEW line \in Lines
      PROVE  Same(pic, RaiseLine(pic, ch, line)) /\ Same(pic, LowerLine(pic, ch, line))
  <2> DEFINE a == [pic EXCEPT !.slave.irqIn = @ \cup {line}]
             b == [a EXCEPT !.slave.irr = @ \cup {line}]
  <2>1. Same(pic, a) /\ Same(pic, b) /\ "commands" \in DOMAIN b
    BY <1>0 DEF Same
  <2>2. RaiseLine(pic, ch, line) \in {RaiseMaster(pic, line), a, ServiceSlave(b)}
    BY DEF RaiseLine
  <2>3. LowerLine(pic, ch, line) \in {LowerMaster(pic, line), pic,
            [pic EXCEPT !.slave.irqIn = @ \ {line}, !.slave.irr = @ \ {line}]}
    BY Zenon DEF LowerLine
  <2>4. Same(pic, [pic EXCEPT !.slave.irqIn = @ \ {line}, !.slave.irr = @ \ {line}])
    BY <1>0 DEF Same
  <2> HIDE DEF a, b
  <2>5. Same(pic, RaiseMaster(pic, line)) /\ Same(pic, LowerMaster(pic, line))
    BY <1>0, CallsKeepGuest
  <2>6. Same(b, ServiceSlave(b))
    BY <2>1, CallsKeepGuest
  <2>7. Same(pic, ServiceSlave(b)) /\ Same(pic, pic)
    BY <2>1, <2>6 DEF Same
  <2> QED
    BY Zenon, <2>1, <2>2, <2>3, <2>4, <2>5, <2>7
<1>2. Same(pic, Iac(pic))
  <2> DEFINE dropped == [pic EXCEPT !.irqCleared = TRUE, !.master.intPin = FALSE]
             taken   == [dropped EXCEPT !.master = Take(@)]
             cascade == [taken EXCEPT !.slave.intPin = FALSE,
                                      !.master.irqIn = @ \ {Cascade}]
             answered == [cascade EXCEPT !.slave = Take(@)]
  <2>1. /\ Same(pic, dropped) /\ Same(pic, taken) /\ Same(pic, cascade) /\ Same(pic, answered)
        /\ "commands" \in DOMAIN taken /\ "commands" \in DOMAIN answered
    BY Zenon, <1>0 DEF Same
  <2>2. Iac(pic) \in {dropped, ServiceMaster(taken), cascade, ServiceMaster(ServiceSlave(answered))}
    BY DEF Iac
  <2> HIDE DEF dropped, taken, cascade, answered
  <2>3. Same(pic, ServiceMaster(taken))
    BY <2>1, CallsKeepGuest DEF Same
  <2>4. Same(pic, ServiceMaster(ServiceSlave(answered)))
    BY <2>1, CallsKeepGuest DEF Same
  <2> QED
    BY <2>1, <2>2, <2>3, <2>4
<1>3. ASSUME NEW ch \in Chips, NEW d
      PROVE  /\ Same(pic, [pic EXCEPT ![ch] = d])
             /\ Same(pic, ServiceChip([pic EXCEPT ![ch] = d], ch))
  <2> DEFINE q == [pic EXCEPT ![ch] = d]
  <2>1. Same(pic, q) /\ "commands" \in DOMAIN q
    BY <1>0 DEF Same
  <2> HIDE DEF q
  <2>2. Same(pic, ServiceChip(q, ch))
    BY <2>1, CallsKeepGuest DEF Same
  <2> QED
    BY <2>1, <2>2 DEF q
<1>4. ASSUME NEW ch \in Chips, NEW icw4 PROVE Same(pic, StartInit(pic, ch, icw4))
  BY Zenon, <1>0 DEF Same, StartInit
<1>5. ASSUME NEW ch \in Chips, GuestWrite(ch) PROVE pic'.commands = pic.commands
  <2>1. CASE Icw1(ch)
    BY <1>4, <2>1 DEF Icw1, Same
  <2>2. ASSUME ~Icw1(ch)
        PROVE  \E d : \/ pic' = [pic EXCEPT ![ch] = d]
                      \/ pic' = ServiceChip([pic EXCEPT ![ch] = d], ch)
    <3>1. CASE WriteIcw(ch)
      BY Zenon, <3>1 DEF WriteIcw
    <3>2. CASE WriteMask(ch)
      BY Zenon, <3>2 DEF WriteMask
    <3>3. ASSUME NEW rotate \in BOOLEAN
          PROVE  \E d : Eoi(pic, ch, rotate) = ServiceChip([pic EXCEPT ![ch] = d], ch)
      BY Zenon DEF Eoi
    <3>4. ASSUME NEW rotate \in BOOLEAN, NEW line \in Lines
          PROVE  \E d : SpecificEoi(pic, ch, line, rotate) = ServiceChip([pic EXCEPT ![ch] = d], ch)
      <4>1. SpecificEoi(pic, ch, line, rotate) = ServiceChip([pic EXCEPT ![ch] =
                [pic[ch] EXCEPT !.isr = @ \ {line}, !.lowest = IF rotate THEN line ELSE @]], ch)
        BY Zenon DEF SpecificEoi, Good, Sound, Pair, Chips
      <4> QED
        BY Zenon, <4>1
    <3>5. CASE Ocw2Eoi(ch)
      BY Zenon, <3>3, <3>4, <3>5 DEF Ocw2Eoi
    <3>6. CASE Ocw2Priority(ch)
      BY Zenon, <3>6 DEF Ocw2Priority
    <3>7. CASE Ocw3(ch)
      BY Zenon, <3>7 DEF Ocw3
    <3>8. CASE PollRead(ch)
      BY Zenon, <3>8 DEF PollRead
    <3>9. CASE SetMode(ch)
      BY Zenon, <3>9 DEF SetMode
    <3> QED
      BY Zenon, <1>5, <2>2, <3>1, <3>2, <3>5, <3>6, <3>7, <3>8, <3>9 DEF GuestWrite
  <2>3. CASE ~Icw1(ch)
    <3>1. PICK d : \/ pic' = [pic EXCEPT ![ch] = d]
                   \/ pic' = ServiceChip([pic EXCEPT ![ch] = d], ch)
      BY Zenon, <2>2, <2>3
    <3>2. /\ Same(pic, [pic EXCEPT ![ch] = d])
          /\ Same(pic, ServiceChip([pic EXCEPT ![ch] = d], ch))
      BY <1>3
    <3> QED
      BY Zenon, <3>1, <3>2 DEF Same
  <2> QED
    BY <2>1, <2>3
<1>6. CASE RaiseIrq \/ LowerIrq
  <2>1. PICK l \in Driven : pic' = RaiseLine(pic, l[1], l[2]) \/ pic' = LowerLine(pic, l[1], l[2])
    BY Zenon, <1>6 DEF RaiseIrq, LowerIrq
  <2>2. l[1] \in Chips /\ l[2] \in Lines
    BY DrivenLines
  <2>3. Same(pic, RaiseLine(pic, l[1], l[2])) /\ Same(pic, LowerLine(pic, l[1], l[2]))
    BY <1>1, <2>2
  <2> QED
    BY Zenon, <2>1, <2>3 DEF Same
<1>7. CASE TakeLevel \/ Reset
  BY Zenon, <1>0, <1>7 DEF TakeLevel, Reset
<1> QED
  BY <1>2, <1>5, <1>6, <1>7 DEF Next, Inta, Same

\* A request service() would signal is signalled, but for the excuse a spurious
\* acknowledge leaves, whatever a guest that sets no priorities writes.
THEOREM RequestsNotMissed == Spec => []NoMissedRequest
<1> DEFINE Kept == "priority" \notin pic.commands => Served(pic)
<1>1. ResetChip \in Chip /\ Told(ResetChip) /\ InitManual(ResetChip)
  <2>1. ResetChip \in Chip
    BY PicAssumption DEF ResetChip, Chip, Lines
  <2>2. ResetChip.irr = {} /\ ~ResetChip.inInit
    BY DEF ResetChip
  <2> QED
    BY <2>1, <2>2 DEF Told, InitManual, Candidates, Requests
<1>2. Init => Kept
  BY <1>1 DEF Init, Served
<1>3. Good(pic) /\ Kept /\ [Next]_pic => Kept'
  <2> SUFFICES ASSUME Good(pic), Served(pic), "priority" \notin pic.commands, Next
               PROVE  Served(pic')
    BY GuestStays
  <2>1. CASE RaiseIrq
    BY Zenon, <2>1, DrivenLines, RaiseLineServes DEF RaiseIrq
  <2>2. CASE LowerIrq
    BY Zenon, <2>2, DrivenLines, LowerLineServes DEF LowerIrq
  <2>3. CASE Inta
    BY <2>3, IacServes DEF Inta
  <2>4. CASE TakeLevel
    BY <2>4 DEF TakeLevel, Served, Good, Sound, Pair
  <2>5. CASE Reset
    BY <1>1, <2>5 DEF Reset, Served, Good, Sound, Pair
  <2>6. CASE \E ch \in Chips : GuestWrite(ch)
    BY <2>6, GuestWriteServes
  <2> QED
    BY <2>1, <2>2, <2>3, <2>4, <2>5, <2>6 DEF Next
<1>4. Kept => NoMissedRequest
  BY DEF NoMissedRequest, Served, Told, Excused, Chips
<1> HIDE DEF Kept
<1> QED
  BY <1>2, <1>3, <1>4, PairStaysGood, PTL DEF Spec

-----------------------------------------------------------------------------
(* The pair and the I/O APIC *)

\* The lines that devices hold are the same in p and q.
Kept(p, q) == /\ q.master.irqIn \ {Cascade} = p.master.irqIn \ {Cascade}
              /\ q.slave.irqIn = p.slave.irqIn

\* The I/O APIC is a record whose pins are pins.
Shape(a) == /\ a = [x \in {"intin", "irr", "entry", "queue"} |-> a[x]]
            /\ a.intin \subseteq Apic!Pins
            /\ a.irr \subseteq Apic!Pins

Agree(p, a) ==
    \A l \in IsaLines : l[2] \in p[l[1]].irqIn <=> PinOf(l[1], l[2]) \in a.intin

Inv == Good(pic) /\ Shape(ioapic) /\ Agree(pic, ioapic)

-----------------------------------------------------------------------------
(* What the pair's operations do to the lines *)

LEMMA KeptTransitive ==
    ASSUME NEW p, NEW q, NEW r, Kept(p, q), Kept(q, r)
    PROVE  Kept(p, r)
BY DEF Kept

LEMMA ServiceSlaveKept ==
    ASSUME NEW p, Good(p)
    PROVE  Kept(p, ServiceSlave(p))
<1> DEFINE s == Service(p.slave)
           q == [p EXCEPT !.slave = s]
<1>1. p.master \in Chip /\ p.slave \in Chip /\ Free(p.master) /\ Free(p.slave)
  BY DEF Good, Sound, Pair
<1>2. s \in Chip /\ Free(s) /\ s.irqIn = p.slave.irqIn /\ s.irr = p.slave.irr
  BY <1>1, ServiceGood
<1> HIDE DEF s
<1>3. q \in Pair /\ q.slave = s /\ q.master = p.master
  BY <1>2 DEF Good, Sound, Pair
<1> HIDE DEF q
<1>4. Sound(q) /\ Cascade \in Lines
  BY SMTT(30), <1>1, <1>2, <1>3, PicAssumption DEF Good, Sound, Backed
<1>5. ServiceSlave(p) \in {q, RaiseMaster(q, Cascade), LowerMaster(q, Cascade)}
  BY DEF ServiceSlave, s, q
<1> QED
  BY SMTT(30), <1>2, <1>3, <1>4, <1>5, RaiseMasterSound, LowerMasterSound DEF Kept

LEMMA ServiceChipKept ==
    ASSUME NEW p, Good(p), NEW ch \in Chips
    PROVE  Kept(p, ServiceChip(p, ch))
BY ServiceSlaveKept, ServiceMasterSound DEF ServiceChip, Good, Kept

LEMMA EditKept ==
    ASSUME NEW p, Good(p), NEW ch \in Chips, NEW c \in Chip, c.irqIn = p[ch].irqIn
    PROVE  Kept(p, [p EXCEPT ![ch] = c])
<1>1. CASE ch = "master"
  BY <1>1 DEF Good, Sound, Pair, Kept
<1>2. CASE ch = "slave"
  BY <1>2 DEF Good, Sound, Pair, Kept
<1> QED
  BY <1>1, <1>2 DEF Chips

LEMMA EditAndServiceKept ==
    ASSUME NEW p, Good(p), NEW ch \in Chips, NEW c \in Chip,
           c.irqIn = p[ch].irqIn, c.irr \subseteq p[ch].irr,
           c.intPin = p[ch].intPin, Free(c)
    PROVE  Kept(p, ServiceChip([p EXCEPT ![ch] = c], ch))
<1> DEFINE q == [p EXCEPT ![ch] = c]
<1>1. Good(q) /\ Kept(p, q)
  BY EditGood, EditKept
<1> HIDE DEF q
<1>2. Kept(q, ServiceChip(q, ch))
  BY SMTT(30), <1>1, ServiceChipKept
<1>3. Kept(p, ServiceChip(q, ch))
  BY <1>1, <1>2, KeptTransitive
<1> QED
  BY <1>3 DEF q

\* An acknowledge may drop the cascade input, and no other line.
LEMMA IacKept ==
    ASSUME NEW p, Good(p)
    PROVE  Kept(p, Iac(p))
<1> DEFINE dropped == [p EXCEPT !.irqCleared = TRUE, !.master.intPin = FALSE]
           taken   == [dropped EXCEPT !.master = Take(@)]
           cascade == [taken EXCEPT !.slave.intPin = FALSE,
                                    !.master.irqIn = @ \ {Cascade}]
           answered == [cascade EXCEPT !.slave = Take(@)]
<1>1. Good(dropped) /\ Kept(p, dropped) /\ dropped.master \in Chip /\ ~dropped.master.intPin
  BY ZenonT(60) DEF Good, Sound, Pair, Chip, Wired, Backed, Free, Kept
<1> HIDE DEF dropped
<1>2. Good(taken) /\ Kept(dropped, taken)
  <2>1. taken = [dropped EXCEPT !["master"] = Take(dropped.master)]
    OBVIOUS
  <2>2. dropped["master"] = dropped.master /\ "master" \in Chips
    BY DEF Chips
  <2>3. /\ Take(dropped.master) \in Chip /\ Free(Take(dropped.master))
        /\ Take(dropped.master).irqIn = dropped["master"].irqIn
        /\ Take(dropped.master).irr \subseteq dropped["master"].irr
        /\ Take(dropped.master).intPin = dropped["master"].intPin
    BY SMTT(30), <1>1, <2>2, TakeGood DEF Chip
  <2> QED
    BY SMTT(30), <1>1, <2>1, <2>2, <2>3, EditGood, EditKept
<1>3. Kept(p, taken)
  BY <1>1, <1>2, KeptTransitive
<1> HIDE DEF taken
<1>4. Kept(p, ServiceMaster(taken))
  BY SMTT(30), <1>2, <1>3, ServiceMasterSound DEF Good, Kept
<1>5. Good(cascade) /\ Kept(taken, cascade) /\ ~cascade.slave.intPin
  <2>1. /\ cascade \in Pair
        /\ cascade.master = [taken.master EXCEPT !.irqIn = @ \ {Cascade}]
        /\ cascade.slave = [taken.slave EXCEPT !.intPin = FALSE]
    BY ZenonT(60), <1>2 DEF Good, Sound, Pair, Chip
  <2> HIDE DEF cascade
  <2>2. taken.master \in Chip /\ taken.slave \in Chip
    BY <1>2 DEF Good, Sound, Pair
  <2>3. /\ cascade.master.irqIn = taken.master.irqIn \ {Cascade}
        /\ cascade.master.irr = taken.master.irr
        /\ cascade.master.intPin = taken.master.intPin
        /\ cascade.slave.intPin = FALSE
        /\ cascade.slave.irqIn = taken.slave.irqIn
        /\ cascade.slave.irr = taken.slave.irr
    BY <2>1, <2>2 DEF Chip
  <2>4. Free(cascade.master) /\ Free(cascade.slave)
    BY SMTT(30), <1>2, <2>1, <2>2 DEF Good, Sound, Free, Chip
  <2> QED
    BY SMTT(30), <1>2, <2>1, <2>3, <2>4 DEF Good, Sound, Wired, Backed, Kept
<1>6. Kept(p, cascade)
  BY SMTT(30), <1>3, <1>5, KeptTransitive
<1> HIDE DEF cascade
<1>7. Good(answered) /\ Kept(cascade, answered)
  <2>1. cascade.slave \in Chip /\ answered = [cascade EXCEPT !["slave"] = Take(cascade.slave)]
    BY ZenonT(60), <1>5 DEF Good, Sound, Pair
  <2>2. cascade["slave"] = cascade.slave /\ "slave" \in Chips
    BY DEF Chips
  <2>3. /\ Take(cascade.slave) \in Chip /\ Free(Take(cascade.slave))
        /\ Take(cascade.slave).irqIn = cascade["slave"].irqIn
        /\ Take(cascade.slave).irr \subseteq cascade["slave"].irr
        /\ Take(cascade.slave).intPin = cascade["slave"].intPin
    BY SMTT(30), <1>5, <2>1, <2>2, TakeGood DEF Chip
  <2> QED
    BY SMTT(30), <1>5, <2>1, <2>2, <2>3, EditGood, EditKept
<1> HIDE DEF answered
<1>8. Kept(p, ServiceSlave(answered)) /\ Good(ServiceSlave(answered))
  BY <1>6, <1>7, ServiceSlaveKept, ServiceSlaveGood, KeptTransitive
<1>9. Kept(p, ServiceMaster(ServiceSlave(answered)))
  BY SMTT(30), <1>8, ServiceMasterSound DEF Good, Kept
<1>10. Iac(p) = IF Requests(p.master) = {} THEN dropped
                ELSE IF p.master.irq # Cascade THEN ServiceMaster(taken)
                ELSE IF Requests(p.slave) = {} THEN cascade
                ELSE ServiceMaster(ServiceSlave(answered))
  BY DEF Iac, dropped, taken, cascade, answered
<1> QED
  BY SMTT(30), <1>1, <1>4, <1>6, <1>9, <1>10

LEMMA StartInitKept ==
    ASSUME NEW p, Good(p), NEW ch \in Chips, NEW icw4 \in BOOLEAN
    PROVE  Kept(p, StartInit(p, ch, icw4))
<1>1. p[ch] \in Chip
  BY ChipOf
<1>2. CASE ch = "master"
  BY SMTT(30), <1>1, <1>2 DEF StartInit, Good, Sound, Pair, Chip, Kept
<1>3. CASE ch = "slave"
  BY SMTT(30), <1>1, <1>3 DEF StartInit, Good, Sound, Pair, Chip, Kept
<1> QED
  BY SMTT(30), <1>2, <1>3 DEF Chips

LEMMA GuestWriteKept ==
    ASSUME Good(pic), NEW ch \in Chips, GuestWrite(ch)
    PROVE  Kept(pic, pic')
<1> DEFINE c == pic[ch]
<1>0. c \in Chip /\ Free(c)
  BY SMTT(30), ChipOf
<1>1. CASE Icw1(ch)
  BY SMTT(30), <1>1, StartInitKept DEF Icw1
<1>2. CASE \E d \in Chip : d.irqIn = c.irqIn /\ pic' = [pic EXCEPT ![ch] = d]
  <2>1. PICK d \in Chip : d.irqIn = pic[ch].irqIn /\ pic' = [pic EXCEPT ![ch] = d]
    BY ZenonT(60), <1>2
  <2> QED
    BY ZenonT(60), <2>1, EditKept
<1>3. CASE \E d \in Chip : /\ d.irqIn = c.irqIn /\ d.irr = c.irr
                           /\ d.intPin = c.intPin /\ Free(d)
                           /\ pic' = ServiceChip([pic EXCEPT ![ch] = d], ch)
  <2>1. PICK d \in Chip : /\ d.irqIn = pic[ch].irqIn /\ d.irr = pic[ch].irr
                          /\ d.intPin = pic[ch].intPin /\ Free(d)
                          /\ pic' = ServiceChip([pic EXCEPT ![ch] = d], ch)
    BY SMTT(30), <1>3
  <2> QED
    BY SMTT(30), <2>1, EditAndServiceKept
<1>4. CASE WriteIcw(ch)
  <2> DEFINE more == c.byteExpected = 2 \/ (c.byteExpected = 3 /\ c.requires4)
             d(auto) == [c EXCEPT !.byteExpected = IF more THEN @ + 1 ELSE @,
                                  !.inInit = more,
                                  !.autoEoi = IF c.byteExpected = 4 THEN auto ELSE @]
  <2>1. PICK auto \in BOOLEAN : pic' = [pic EXCEPT ![ch] = d(auto)]
    BY ZenonT(60), <1>4 DEF WriteIcw
  <2>2. (more => c.byteExpected + 1 \in {3, 4}) /\ more \in BOOLEAN
    OBVIOUS
  <2> HIDE DEF more
  <2>3. d(auto) \in Chip /\ d(auto).irqIn = c.irqIn
    BY ZenonT(60), <1>0, <2>2 DEF Chip
  <2> HIDE DEF d
  <2> QED
    BY ZenonT(60), <1>2, <2>1, <2>3
<1>5. CASE WriteMask(ch)
  <2>1. PICK mask \in MaskValues : pic' = ServiceChip([pic EXCEPT ![ch].imr = mask], ch)
    BY SMTT(30), <1>5 DEF WriteMask
  <2> DEFINE d == [c EXCEPT !.imr = mask]
  <2>2. d \in Chip /\ d.irqIn = c.irqIn /\ d.irr = c.irr /\ d.intPin = c.intPin /\ Free(d)
    BY SMTT(30), <1>0, PicAssumption DEF Chip, Free
  <2>3. pic' = ServiceChip([pic EXCEPT ![ch] = d], ch)
    BY <2>1
  <2> QED
    BY ZenonT(60), <1>3, <2>2, <2>3
<1>6. CASE Ocw2Eoi(ch)
  <2>1. ASSUME NEW rotate \in BOOLEAN, pic' = Eoi(pic, ch, rotate)
        PROVE  Kept(pic, pic')
    <3> DEFINE h == ClearHighest(c)
               d == IF rotate THEN [h EXCEPT !.lowest = After(@)] ELSE h
    <3>1. h \in Chip /\ Free(h) /\ h.irqIn = c.irqIn /\ h.irr = c.irr /\ h.intPin = c.intPin
      BY SMTT(30), <1>0, ClearHighestGood
    <3> HIDE DEF h
    <3>2. h.lowest \in Lines /\ After(h.lowest) \in Lines
      BY SMTT(30), <3>1, RankType DEF Chip
    <3>3. d \in Chip /\ d.irqIn = c.irqIn /\ d.irr = c.irr /\ d.intPin = c.intPin /\ Free(d)
      BY SMTT(30), <3>1, <3>2 DEF Chip, Free
    <3>4. pic' = ServiceChip([pic EXCEPT ![ch] = d], ch)
      BY <2>1 DEF Eoi, h
    <3> HIDE DEF d
    <3> QED
      BY ZenonT(60), <1>3, <3>3, <3>4
  <2>2. ASSUME NEW rotate \in BOOLEAN, NEW line \in Lines,
               pic' = SpecificEoi(pic, ch, line, rotate)
        PROVE  Kept(pic, pic')
    <3> DEFINE d == [c EXCEPT !.isr = @ \ {line}, !.lowest = IF rotate THEN line ELSE @]
    <3>1. d \in Chip /\ d.irqIn = c.irqIn /\ d.irr = c.irr /\ d.intPin = c.intPin /\ Free(d)
      BY ZenonT(60), <1>0 DEF Chip, Free
    <3>2. pic' = ServiceChip([pic EXCEPT ![ch] = d], ch)
      BY ZenonT(60), <2>2 DEF SpecificEoi, Good, Sound, Pair, Chips
    <3> HIDE DEF d
    <3> QED
      BY ZenonT(60), <1>3, <3>1, <3>2
  <2> QED
    BY ZenonT(60), <1>6, <2>1, <2>2 DEF Ocw2Eoi
<1>7. CASE Ocw2Priority(ch)
  <2>1. PICK d : /\ pic' = [pic EXCEPT ![ch] = d]
                 /\ \/ \E line \in Lines : d = [c EXCEPT !.lowest = line]
                    \/ \E on \in BOOLEAN : d = [c EXCEPT !.rotateOnAutoEoi = on]
    BY ZenonT(60), <1>7 DEF Ocw2Priority
  <2>2. d \in Chip /\ d.irqIn = c.irqIn
    BY SMTT(30), <1>0, <2>1 DEF Chip
  <2> QED
    BY ZenonT(60), <1>2, <2>1, <2>2
<1>8. CASE Ocw3(ch)
  <2>1. PICK d \in {[c EXCEPT !.polled = TRUE], [c EXCEPT !.specialMask = FALSE],
                    [c EXCEPT !.specialMask = TRUE]} :
             \/ pic' = [pic EXCEPT ![ch] = d]
             \/ pic' = ServiceChip([pic EXCEPT ![ch] = d], ch)
    BY <1>8 DEF Ocw3
  <2>2. d \in Chip /\ d.irqIn = c.irqIn /\ d.irr = c.irr /\ d.intPin = c.intPin /\ Free(d)
    BY ZenonT(60), <1>0, <2>1 DEF Chip, Free
  <2> QED
    BY ZenonT(60), <1>2, <1>3, <2>1, <2>2
<1>9. CASE PollRead(ch)
  <2> DEFINE h == ClearHighest(c)
             d == [h EXCEPT !.polled = FALSE]
  <2>1. pic' = ServiceChip([pic EXCEPT ![ch] = d], ch)
    BY <1>9 DEF PollRead
  <2>2. h \in Chip /\ Free(h) /\ h.irqIn = c.irqIn /\ h.irr = c.irr /\ h.intPin = c.intPin
    BY SMTT(30), <1>0, ClearHighestGood
  <2> HIDE DEF h
  <2>3. d \in Chip /\ d.irqIn = c.irqIn /\ d.irr = c.irr /\ d.intPin = c.intPin /\ Free(d)
    BY ZenonT(60), <2>2 DEF Chip, Free
  <2> QED
    BY ZenonT(60), <1>3, <2>1, <2>3
<1>10. CASE SetMode(ch)
  <2>1. PICK mode \in LevelModes : pic' = [pic EXCEPT ![ch] = [c EXCEPT !.edgeLevel = mode]]
    BY ZenonT(60), <1>10 DEF SetMode
  <2> DEFINE d == [c EXCEPT !.edgeLevel = mode]
  <2>2. d \in Chip /\ d.irqIn = c.irqIn
    BY SMTT(30), <1>0, PicAssumption DEF Chip
  <2> QED
    BY ZenonT(60), <1>2, <2>1, <2>2
<1> QED
  BY SMTT(30), <1>1, <1>4, <1>5, <1>6, <1>7, <1>8, <1>9, <1>10 DEF GuestWrite

\* p and q hold the same lines, except that line of chip ch is high iff level.
Moved(p, q, ch, line, level) ==
    \A l \in IsaLines : l[2] \in q[l[1]].irqIn <=>
        IF l = <<ch, line>> THEN level ELSE l[2] \in p[l[1]].irqIn

LEMMA KeptLines ==
    ASSUME NEW p, NEW q, Kept(p, q), NEW l \in IsaLines
    PROVE  l[2] \in q[l[1]].irqIn <=> l[2] \in p[l[1]].irqIn
BY DEF Kept, IsaLines, Chips

LEMMA SlaveLineMoved ==
    ASSUME NEW p, NEW q, NEW line \in Lines, NEW level \in BOOLEAN,
           q.master.irqIn \ {Cascade} = p.master.irqIn \ {Cascade},
           \A i \in Lines : i \in q.slave.irqIn <=>
               IF i = line THEN level ELSE i \in p.slave.irqIn
    PROVE  Moved(p, q, "slave", line, level)
<1> SUFFICES ASSUME NEW c \in Chips, NEW i \in Lines, <<c, i>> # <<"master", Cascade>>
             PROVE  i \in q[c].irqIn <=>
                        IF <<c, i>> = <<"slave", line>> THEN level ELSE i \in p[c].irqIn
  BY DEF Moved, IsaLines
<1> QED
  BY DEF Chips

LEMMA RaiseLineMoved ==
    ASSUME NEW p, Good(p), NEW ch \in Chips, NEW line \in Lines,
           <<ch, line>> # <<"master", Cascade>>
    PROVE  Moved(p, RaiseLine(p, ch, line), ch, line, TRUE)
<1>1. CASE ch = "master"
  <2>1. /\ RaiseLine(p, ch, line).slave = p.slave
        /\ RaiseLine(p, ch, line).master.irqIn = p.master.irqIn \cup {line}
    BY <1>1, RaiseMasterSound DEF RaiseLine, Good
  <2> QED
    BY <1>1, <2>1 DEF Moved, IsaLines, Chips
<1>2. CASE ch = "slave"
  <2> DEFINE q == [p EXCEPT !.slave.irqIn = @ \cup {line}]
             r == [q EXCEPT !.slave.irr = @ \cup {line}]
  <2>1. /\ q \in Pair /\ q.master = p.master
        /\ q.slave = [p.slave EXCEPT !.irqIn = p.slave.irqIn \cup {line}]
    BY DEF Good, Sound, Pair, Chip
  <2> HIDE DEF q
  <2>2. /\ r \in Pair /\ r.master = p.master
        /\ r.slave = [q.slave EXCEPT !.irr = q.slave.irr \cup {line}]
    BY ZenonT(60), <2>1 DEF Pair, Chip
  <2> HIDE DEF r
  <2>3. p.slave \in Chip /\ q.slave \in Chip
    BY <2>1 DEF Good, Sound, Pair
  <2>4. q.slave.irqIn = p.slave.irqIn \cup {line} /\ r.slave.irqIn = p.slave.irqIn \cup {line}
    BY SMTT(30), <2>1, <2>2, <2>3 DEF Chip
  <2>5. Good(r)
    BY SMTT(30), <2>1, <2>2, <2>3 DEF Good, Sound, Pair, Chip, Backed, Wired, Free
  <2>6. Kept(r, ServiceSlave(r))
    BY <2>5, ServiceSlaveKept
  <2>7. RaiseLine(p, ch, line) \in {q, ServiceSlave(r)}
    BY <1>2 DEF RaiseLine, q, r
  <2>8. /\ RaiseLine(p, ch, line).master.irqIn \ {Cascade} = p.master.irqIn \ {Cascade}
        /\ RaiseLine(p, ch, line).slave.irqIn = p.slave.irqIn \cup {line}
    BY ZenonT(60), <2>1, <2>2, <2>4, <2>6, <2>7 DEF Kept
  <2> QED
    BY ZenonT(60), <1>2, <2>8, SlaveLineMoved
<1> QED
  BY ZenonT(60), <1>1, <1>2 DEF Chips

LEMMA LowerLineMoved ==
    ASSUME NEW p, Good(p), NEW ch \in Chips, NEW line \in Lines,
           <<ch, line>> # <<"master", Cascade>>
    PROVE  Moved(p, LowerLine(p, ch, line), ch, line, FALSE)
<1>1. CASE ch = "master"
  <2>1. /\ LowerLine(p, ch, line).slave = p.slave
        /\ LowerLine(p, ch, line).master.irqIn = p.master.irqIn \ {line}
    BY SMTT(30), <1>1, LowerMasterSound DEF LowerLine, Good
  <2> QED
    BY SMTT(30), <1>1, <2>1 DEF Moved, IsaLines, Chips
<1>2. CASE ch = "slave"
  <2> DEFINE q == [p EXCEPT !.slave.irqIn = @ \ {line}, !.slave.irr = @ \ {line}]
  <2>1. /\ q.master = p.master
        /\ q.slave = [p.slave EXCEPT !.irqIn = p.slave.irqIn \ {line},
                                     !.irr = p.slave.irr \ {line}]
    BY DEF Good, Sound, Pair, Chip
  <2> HIDE DEF q
  <2>2. q.slave.irqIn = p.slave.irqIn \ {line}
    BY <2>1 DEF Good, Sound, Pair, Chip
  <2>3. LowerLine(p, ch, line) = IF line \notin p.slave.irqIn THEN p ELSE q
    BY <1>2 DEF LowerLine, q
  <2>4. /\ LowerLine(p, ch, line).master.irqIn \ {Cascade} = p.master.irqIn \ {Cascade}
        /\ LowerLine(p, ch, line).slave.irqIn = p.slave.irqIn \ {line}
    BY ZenonT(60), <2>1, <2>2, <2>3
  <2> QED
    BY ZenonT(60), <1>2, <2>4, SlaveLineMoved
<1> QED
  BY ZenonT(60), <1>1, <1>2 DEF Chips

-----------------------------------------------------------------------------
(* The acknowledges of one servicing scan *)

\* The function that Acknowledged takes its value from exists.
LEMMA ChainExists ==
    ASSUME NEW p
    PROVE  \A k \in Nat : \E f : f = [n \in 0..k |-> IF n = 0 THEN p ELSE Iac(f[n - 1])]
<1> DEFINE Chain(f, k) == f = [n \in 0..k |-> IF n = 0 THEN p ELSE Iac(f[n - 1])]
           T == {k \in Nat : ~\E f : Chain(f, k)}
<1>1. SUFFICES ASSUME T # {} PROVE FALSE
  BY ZenonT(60)
<1>2. PICK k \in T : \A j \in T : k <= j
  BY ZenonT(60), <1>1, NatMin
<1>3. k # 0
  <2>1. Chain([n \in 0..0 |-> p], 0)
    OBVIOUS
  <2> QED
    BY ZenonT(60), <1>2, <2>1
<1>4. k - 1 \in Nat /\ k - 1 \notin T
  BY SMTT(30), <1>2, <1>3
<1>5. PICK g : Chain(g, k - 1)
  BY SMTT(30), <1>4
<1> DEFINE f == [n \in 0..k |-> IF n = k THEN Iac(g[k - 1]) ELSE g[n]]
<1>6. ASSUME NEW n \in 0..k
      PROVE  f[n] = IF n = 0 THEN p ELSE Iac(f[n - 1])
  <2>1. CASE n = k
    BY SMTT(30), <1>3, <1>4, <2>1
  <2>2. CASE n # k
    <3>1. n \in 0..(k - 1) /\ f[n] = g[n] /\ (n # 0 => f[n - 1] = g[n - 1])
      BY <1>4, <2>2
    <3> QED
      BY SMTT(30), <1>5, <3>1
  <2> QED
    BY SMTT(30), <2>1, <2>2
<1>7. Chain(f, k)
  BY <1>6
<1> QED
  BY ZenonT(60), <1>2, <1>7

LEMMA AcknowledgedKept ==
    ASSUME NEW p, Good(p), NEW k \in Nat
    PROVE  Good(Acknowledged(p, k)) /\ Kept(p, Acknowledged(p, k))
<1> DEFINE f == CHOOSE f : f = [n \in 0..k |-> IF n = 0 THEN p ELSE Iac(f[n - 1])]
<1>1. f = [n \in 0..k |-> IF n = 0 THEN p ELSE Iac(f[n - 1])]
  BY SMTT(30), ChainExists
<1>2. Acknowledged(p, k) = f[k]
  BY DEF Acknowledged
<1> HIDE DEF f
<1> DEFINE Fine(n) == Good(f[n]) /\ Kept(p, f[n])
           T == {n \in 0..k : ~Fine(n)}
<1>3. SUFFICES ASSUME T # {} PROVE FALSE
  BY <1>2
<1> HIDE DEF Fine
<1>4. PICK n \in T : \A j \in T : n <= j
  <2>1. T \in SUBSET Nat
    OBVIOUS
  <2> HIDE DEF T
  <2> QED
    BY SMTT(30), <1>3, <2>1, NatMin
<1>5. n # 0
  BY SMTT(30), <1>1, <1>4 DEF Kept, Fine
<1>6. n - 1 \in 0..k /\ Fine(n - 1)
  BY <1>4, <1>5
<1>7. f[n] = Iac(f[n - 1])
  BY <1>1, <1>4, <1>5
<1>8. Fine(n)
  BY SMTT(30), <1>6, <1>7, IacGood, IacKept, KeptTransitive DEF Fine
<1> QED
  BY SMTT(30), <1>4, <1>8

-----------------------------------------------------------------------------
(* The I/O APIC's operations *)

LEMMA ServiceShape ==
    ASSUME NEW a, Shape(a)
    PROVE  Shape(Apic!Service(a)) /\ Apic!Service(a).intin = a.intin
<1> DEFINE b == Apic!Service(a)
<1>1. \E que, ent, gone : b = [a EXCEPT !.queue = que, !.irr = a.irr \ gone, !.entry = ent]
  BY Zenon DEF Apic!Service
<1> HIDE DEF b
<1>2. Shape(b) /\ b.intin = a.intin
  BY ZenonT(60), <1>1 DEF Shape
<1> QED
  BY <1>2 DEF b

LEMMA MovePinShape ==
    ASSUME NEW a, Shape(a), NEW pin \in Apic!Pins, NEW level \in BOOLEAN
    PROVE  /\ Shape(Apic!MovePin(a, pin, level))
           /\ \A x : x \in Apic!MovePin(a, pin, level).intin <=>
                       IF x = pin THEN level ELSE x \in a.intin
<1> DEFINE b == Apic!MovePin(a, pin, level)
<1>1. CASE level = (pin \in a.intin)
  BY ZenonT(60), <1>1 DEF Apic!MovePin
<1>2. CASE level /\ pin \notin a.intin
  <2>1. \E r \in {a.irr, a.irr \cup {pin}} :
          b = [a EXCEPT !.intin = a.intin \cup {pin}, !.irr = r]
    BY ZenonT(60), <1>2 DEF Apic!MovePin
  <2> HIDE DEF b
  <2>2. Shape(b) /\ b.intin = a.intin \cup {pin}
    BY ZenonT(60), <2>1 DEF Shape
  <2> QED
    BY ZenonT(60), <1>2, <2>2 DEF b
<1>3. CASE ~level /\ pin \in a.intin
  <2>1. \E r \in {a.irr, a.irr \ {pin}} :
          b = [a EXCEPT !.intin = a.intin \ {pin}, !.irr = r]
    BY ZenonT(60), <1>3 DEF Apic!MovePin
  <2> HIDE DEF b
  <2>2. Shape(b) /\ b.intin = a.intin \ {pin}
    BY ZenonT(60), <2>1 DEF Shape
  <2> QED
    BY <1>3, <2>2 DEF b
<1> QED
  BY SMTT(30), <1>1, <1>2, <1>3

LEMMA WithRouteShape ==
    ASSUME NEW a, Shape(a), NEW pin, NEW r
    PROVE  Shape(Apic!WithRoute(a, pin, r)) /\ Apic!WithRoute(a, pin, r).intin = a.intin
<1> DEFINE b == Apic!WithRoute(a, pin, r)
<1>1. \E ent : b = [a EXCEPT !.entry = ent]
  BY ZenonT(60) DEF Apic!WithRoute, Shape
<1> HIDE DEF b
<1>2. Shape(b) /\ b.intin = a.intin
  BY <1>1 DEF Shape
<1> QED
  BY <1>2 DEF b

LEMMA AnsweredShape ==
    ASSUME NEW a, Shape(a), NEW done
    PROVE  Shape(Apic!Answered(a, done)) /\ Apic!Answered(a, done).intin = a.intin
<1> DEFINE b == Apic!Answered(a, done)
<1>1. \E r \in SUBSET Apic!Pins : \E ent : b = [a EXCEPT !.queue = <<>>, !.irr = r, !.entry = ent]
  BY ZenonT(60) DEF Apic!Answered
<1> HIDE DEF b
<1>2. Shape(b) /\ b.intin = a.intin
  BY ZenonT(60), <1>1 DEF Shape
<1> QED
  BY <1>2 DEF b

LEMMA ExtIntsCounted ==
    ASSUME NEW a, Shape(a)
    PROVE  Cardinality(ExtInts(a)) \in Nat
<1>1. IsFiniteSet(Apic!Pins)
  BY SMTT(30), FS_Interval, FabricAssumption DEF Apic!Pins
<1>2. ExtInts(a) \subseteq Apic!Pins
  BY DEF ExtInts, Apic!Deliverable, Shape
<1> QED
  BY SMTT(30), <1>1, <1>2, FS_Subset, FS_CardinalityType

-----------------------------------------------------------------------------
(* The two together *)

LEMMA KeptAgree ==
    ASSUME NEW p, NEW q, Kept(p, q), NEW a, NEW b, b.intin = a.intin, Agree(p, a)
    PROVE  Agree(q, b)
BY SMTT(30), KeptLines DEF Agree

LEMMA ServiceIoApicInv ==
    ASSUME NEW p, NEW a, Good(p), Shape(a), Agree(p, a), ServiceIoApic(p, a)
    PROVE  Inv'
<1>1. Cardinality(ExtInts(a)) \in Nat
  BY ExtIntsCounted
<1>2. Good(pic') /\ Kept(p, pic')
  BY SMTT(30), <1>1, AcknowledgedKept DEF ServiceIoApic
<1>3. Shape(ioapic') /\ ioapic'.intin = a.intin
  BY SMTT(30), ServiceShape DEF ServiceIoApic
<1>4. Agree(pic', ioapic')
  BY SMTT(30), <1>2, <1>3, KeptAgree
<1> QED
  BY <1>2, <1>3, <1>4 DEF Inv

LEMMA PinsApart ==
    /\ \A l \in IsaLines : PinOf(l[1], l[2]) \in Apic!Pins \ ApicPins
    /\ \A l, k \in IsaLines : PinOf(l[1], l[2]) = PinOf(k[1], k[2]) => l = k
<1>1. ASSUME NEW c \in Chips, NEW i \in Lines, <<c, i>> # <<"master", Cascade>>
      PROVE  /\ PinOf(c, i) \in Apic!Pins \ ApicPins
             /\ PinOf(c, i) >= NLines <=> c = "slave"
  BY SMTT(30), <1>1, PicAssumption, FabricAssumption
     DEF PinOf, Chips, Lines, Apic!Pins, ApicPins
<1>2. ASSUME NEW c \in Chips, NEW i \in Lines, <<c, i>> # <<"master", Cascade>>,
             NEW d \in Chips, NEW j \in Lines, <<d, j>> # <<"master", Cascade>>,
             PinOf(c, i) = PinOf(d, j)
      PROVE  c = d /\ i = j
  <2>1. c = d
    BY <1>1, <1>2 DEF Chips
  <2> QED
    BY <1>2, <2>1, PicAssumption DEF PinOf, Chips, Lines
<1> QED
  BY SMTT(30), <1>1, <1>2 DEF IsaLines

\* Moving one line of both controllers keeps them agreed.
LEMMA MovedAgree ==
    ASSUME NEW p, NEW q, NEW a, NEW b, NEW l \in IsaLines, NEW level \in BOOLEAN,
           Agree(p, a), Moved(p, q, l[1], l[2], level),
           \A x : x \in b.intin <=> IF x = PinOf(l[1], l[2]) THEN level ELSE x \in a.intin
    PROVE  Agree(q, b)
<1>1. l = <<l[1], l[2]>>
  BY DEF IsaLines
<1> QED
  BY SMTT(30), <1>1, PinsApart DEF Agree, Moved

LEMMA DrivePinInv ==
    ASSUME NEW p, NEW pin \in Apic!Pins, NEW level \in BOOLEAN, Good(p), Shape(ioapic),
           \A b : (\A x : x \in b.intin <=> IF x = pin THEN level ELSE x \in ioapic.intin)
                    => Agree(p, b),
           DrivePin(p, pin, level)
    PROVE  Inv'
<1> DEFINE a == Apic!MovePin(ioapic, pin, level)
<1>1. Shape(a) /\ Agree(p, a)
  BY SMTT(30), MovePinShape
<1>2. ServiceIoApic(p, a) \/ (pic' = p /\ ioapic' = a)
  BY DEF DrivePin
<1> HIDE DEF a
<1> QED
  BY SMTT(30), <1>1, <1>2, ServiceIoApicInv DEF Inv

LEMMA IsaLineInv ==
    ASSUME Inv, IsaLine
    PROVE  Inv'
<1>1. PICK l \in Driven, level \in BOOLEAN : SetIsaLevel(l[1], l[2], level)
  BY DEF IsaLine
<1>2. /\ l \in IsaLines /\ l[1] \in Chips /\ l[2] \in Lines
      /\ <<l[1], l[2]>> # <<"master", Cascade>>
  BY DrivenLines DEF IsaLines, Inv
<1> DEFINE p == IF level THEN RaiseLine(pic, l[1], l[2]) ELSE LowerLine(pic, l[1], l[2])
<1>3. Good(p) /\ Moved(pic, p, l[1], l[2], level)
  BY ZenonT(60), <1>2, RaiseLineGood, RaiseLineMoved, LowerLineGood, LowerLineMoved DEF Inv
<1>4. IF Crossed(l[1], l[2], level) THEN DrivePin(p, PinOf(l[1], l[2]), level)
      ELSE pic' = p /\ ioapic' = ioapic
  BY SMTT(30), <1>1 DEF SetIsaLevel
<1> HIDE DEF p
<1>5. CASE Crossed(l[1], l[2], level)
  <2>1. ASSUME NEW b,
               \A x : x \in b.intin <=>
                         IF x = PinOf(l[1], l[2]) THEN level ELSE x \in ioapic.intin
        PROVE  Agree(p, b)
    BY SMTT(30), <1>2, <1>3, <2>1, MovedAgree DEF Inv
  <2>2. PinOf(l[1], l[2]) \in Apic!Pins
    BY SMTT(30), <1>2, PinsApart
  <2> QED
    BY SMTT(30), <1>3, <1>4, <1>5, <2>1, <2>2, DrivePinInv DEF Inv
\* The line was there already: the level is the one both controllers have.
<1>6. CASE ~Crossed(l[1], l[2], level)
  <2>1. level <=> l[2] \in pic[l[1]].irqIn
    BY <1>2, <1>6 DEF Crossed, Inv, Good, Sound, Backed, Chips
  <2>2. \A x : x \in ioapic.intin <=>
                 IF x = PinOf(l[1], l[2]) THEN level ELSE x \in ioapic.intin
    BY SMTT(30), <1>2, <2>1 DEF Inv, Agree
  <2>3. Agree(p, ioapic)
    BY <1>2, <1>3, <2>2, MovedAgree DEF Inv
  <2> QED
    BY SMTT(30), <1>3, <1>4, <1>6, <2>3 DEF Inv
<1> QED
  BY SMTT(30), <1>5, <1>6

LEMMA ApicPinInv ==
    ASSUME Inv, ApicPin
    PROVE  Inv'
<1>1. PICK pin \in ApicPins, level \in BOOLEAN : DrivePin(pic, pin, level)
  BY DEF ApicPin
<1>2. pin \in Apic!Pins
  BY SMTT(30), PicAssumption, FabricAssumption DEF ApicPins, Apic!Pins
<1>3. ASSUME NEW b,
             \A x : x \in b.intin <=> IF x = pin THEN level ELSE x \in ioapic.intin
      PROVE  Agree(pic, b)
  BY SMTT(30), <1>3, PinsApart DEF Inv, Agree
<1> QED
  BY <1>1, <1>2, <1>3, DrivePinInv DEF Inv

LEMMA MmioWriteInv ==
    ASSUME Inv, MmioWrite
    PROVE  Inv'
<1>1. CASE ServiceIoApic(pic, ioapic)
  BY SMTT(30), <1>1, ServiceIoApicInv DEF Inv
<1>2. ASSUME NEW pin, NEW r, ServiceIoApic(pic, Apic!WithRoute(ioapic, pin, r))
      PROVE  Inv'
  <2> DEFINE a == Apic!WithRoute(ioapic, pin, r)
  <2>1. Shape(a) /\ a.intin = ioapic.intin
    BY SMTT(30), WithRouteShape DEF Inv
  <2> HIDE DEF a
  <2>2. Agree(pic, a)
    BY SMTT(30), <2>1 DEF Inv, Agree
  <2> QED
    BY SMTT(30), <1>2, <2>1, <2>2, ServiceIoApicInv DEF Inv, a
<1> QED
  BY SMTT(30), <1>1, <1>2 DEF MmioWrite

LEMMA PicAccessInv ==
    ASSUME Inv, PicAccess
    PROVE  Inv'
<1>1. Good(pic')
  BY SMTT(30), StepGood DEF Inv, PicAccess, Next
<1>2. Kept(pic, pic')
  <2>1. CASE Inta
    BY SMTT(30), <2>1, IacKept DEF Inta, Inv
  <2>2. CASE TakeLevel
    BY SMTT(30), <2>2 DEF TakeLevel, Inv, Good, Sound, Pair, Kept
  <2>3. ASSUME NEW ch \in Chips, GuestWrite(ch)
        PROVE  Kept(pic, pic')
    BY <2>3, GuestWriteKept DEF Inv
  <2> QED
    BY <2>1, <2>2, <2>3 DEF PicAccess
<1>3. ioapic' = ioapic
  BY DEF PicAccess
<1> QED
  BY SMTT(30), <1>1, <1>2, <1>3, KeptAgree DEF Inv

\* Nothing is held after a reset of both.
LEMMA ResetAgree ==
    ASSUME NEW p, NEW a, p.master = ResetChip, p.slave = ResetChip, a = Apic!ResetIoApic
    PROVE  Shape(a) /\ Agree(p, a)
<1>1. Shape(a) /\ a.intin = {}
  BY ZenonT(60) DEF Apic!ResetIoApic, Shape
<1>2. p.master.irqIn = {} /\ p.slave.irqIn = {}
  BY DEF ResetChip
<1>3. \A l \in IsaLines : l[1] \in {"master", "slave"}
  BY DEF IsaLines, Chips
<1> QED
  BY SMTT(30), <1>1, <1>2, <1>3 DEF Agree

LEMMA InitInv == FabricInit => Inv
<1> SUFFICES ASSUME FabricInit PROVE Inv
  OBVIOUS
<1>1. Good(pic) /\ pic.master = ResetChip /\ pic.slave = ResetChip
  <2>1. PICK commands \in Guests :
           pic = [master |-> ResetChip, slave |-> ResetChip, commands |-> commands,
                  irqPending |-> FALSE, irqCleared |-> FALSE]
    BY ZenonT(60) DEF FabricInit, Init
  <2> QED
    BY SMTT(30), <2>1, InitGood DEF FabricInit
<1> QED
  BY SMTT(30), <1>1, ResetAgree DEF FabricInit, Apic!Init, Inv

-----------------------------------------------------------------------------
(* The theorems *)

LEMMA StepInv ==
    ASSUME Inv, [FabricNext]_fabric
    PROVE  Inv'
<1>1. CASE IsaLine
  BY SMTT(30), <1>1, IsaLineInv
<1>2. CASE ApicPin
  BY SMTT(30), <1>2, ApicPinInv
<1>3. CASE MmioWrite
  BY <1>3, MmioWriteInv
<1>4. CASE ResampleOnEoi
  BY <1>4, ServiceIoApicInv DEF ResampleOnEoi, Inv
<1>5. CASE Route
  <2>1. PICK done : ioapic' = Apic!Answered(ioapic, done)
    BY SMTT(30), <1>5 DEF Route, Apic!Deliver
  <2>2. pic' = pic
    BY SMTT(30), <1>5 DEF Route
  <2>3. Shape(ioapic') /\ ioapic'.intin = ioapic.intin
    BY SMTT(30), <2>1, AnsweredShape DEF Inv
  <2> QED
    BY SMTT(30), <2>2, <2>3 DEF Inv, Agree
<1>6. CASE PicAccess
  BY <1>6, PicAccessInv
<1>7. CASE ResetFabric
  <2>1. Good(pic')
    BY SMTT(30), <1>7, StepGood DEF ResetFabric, Next, Inv
  <2>2. pic'.master = ResetChip /\ pic'.slave = ResetChip
    BY SMTT(30), <1>7 DEF ResetFabric, Reset, Inv, Good, Sound, Pair
  <2> QED
    BY SMTT(30), <1>7, <2>1, <2>2, ResetAgree DEF ResetFabric, Apic!Reset, Inv
<1>8. CASE UNCHANGED fabric
  BY SMTT(30), <1>8 DEF fabric, Inv, Agree
<1> QED
  BY SMTT(30), <1>1, <1>2, <1>3, <1>4, <1>5, <1>6, <1>7, <1>8 DEF FabricNext

\* The inductive invariant: a good pair, well-formed pins, and agreement.
THEOREM FabricStaysGood == FabricSpec => []Inv
<1>1. Inv /\ [FabricNext]_fabric => Inv'
  BY StepInv
<1> QED
  BY InitInv, <1>1, PTL DEF FabricSpec

\* The two controllers never disagree about a line.
THEOREM LinesStayAgreed == FabricSpec => []LinesAgree
<1>1. Inv => LinesAgree
  BY DEF Inv, Agree, LinesAgree
<1> QED
  BY <1>1, FabricStaysGood, PTL

\* With the I/O APIC acknowledging behind its back, at any time and any number
\* of times, the pair still never asserts INT for a line in service.
THEOREM WinnerStaysOutInFabric == FabricSpec => []WinnerNotInService
<1>1. Inv => WinnerNotInService
  BY ChipOf DEF Inv, Free, WinnerNotInService
<1> QED
  BY <1>1, FabricStaysGood, PTL
=============================================================================
