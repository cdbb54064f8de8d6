--------------------------- MODULE Sources_proofs ---------------------------
(***************************************************************************)
(* Theorems about the two ways to a source of data.  The hunt for the      *)
(* speed of a serial receiver gives up a receiver of the table only after  *)
(* a disturbance, and a device that was identified is opened at its speed. *)
(* The stream of an NTRIP caster is asked for as its source table says,    *)
(* however that was cut into reads, or refused for a reason.               *)
(***************************************************************************)
EXTENDS SerialHunt, NtripTable, SequenceTheorems, FiniteSetTheorems, TLAPS

-----------------------------------------------------------------------------
(* The hunt: its inductive invariant. *)

\* The terminal and the device agree on parity and stop bits, except after a hunt that
\* failed; an open port has a speed of the table, and not B0 once the table is in use.
PortFollows ==
  /\ receiver.rate >= 1 /\ receiver.stop <= 2
  /\ tty.saved \in {NoSpeed} \cup 1..LastIndex
  /\ port.parity = tty.parity
  /\ tty.open => /\ port.stop = tty.stop /\ tty.stop <= 2 /\ port.rate # OffTable
                 /\ tty.index >= 1 => port.rate # 0
  /\ ~tty.open => port.stop = tty.stop \/ tty.stop = 3

\* The receiver is heard, or its setting is still to come in the table, or the hunt is there
\* and each retry has been one more poll of the packet under way.
Reachable ==
  \/ tty.type = "packet" /\ Tuned
  \/ tty.stop < receiver.stop
  \/ tty.stop = receiver.stop /\ tty.index < receiver.rate
  \/ tty.stop = receiver.stop /\ tty.index = receiver.rate /\ tty.retries <= tty.pieces

\* As long as nothing disturbs it the hunt does not pass the setting of the receiver.
NotPassed ==
  tty.open /\ steady /\ Huntable =>
    /\ tty.parity = "N"
    /\ tty.index >= 1 => port.rate = tty.index
    /\ Reachable

HuntInv == HuntTypeOK /\ PortFollows /\ NotPassed

LEMMA NumbersAre ==
  /\ LastIndex \in Nat /\ LastIndex >= 1 /\ ProbeRate \in 1..LastIndex
  /\ SniffRetries \in Nat /\ PacketPolls \in Nat /\ PacketPolls >= 1 /\ PacketPolls <= SniffRetries
  /\ MaxNoise \in Nat /\ MaxMoves \in Nat /\ MaxReleases \in Nat
  /\ NoSpeed = -1 /\ OffTable = LastIndex + 1 /\ LastTried = LastIndex
<1>1. MaxNoise \in Nat /\ MaxMoves \in Nat /\ MaxReleases \in Nat
  BY HuntNumbers
<1>2. PacketPolls \in Nat \ {0} /\ SniffRetries \in Nat \ {0}
  BY HuntNumbers
<1>3. LastIndex \in Int
  BY HuntNumbers
<1> QED BY <1>1, <1>2, <1>3, HuntNumbers DEF NoSpeed, OffTable, LastTried

LEMMA Ranges ==
  /\ 0 \in 0..PacketPolls - 1 /\ 0 \in 0..SniffRetries /\ 0 \in 0..LastIndex
  /\ 0 \in 0..OffTable /\ 0..LastIndex \subseteq 0..OffTable
  /\ 0 \in 0..2 /\ 3 \in 1..3
BY NumbersAre

Terminals == [port : Setting, tty : Device]

\* What gpsd_set_speed changes, and that afterwards the terminal is set as it was told.
LEMMA SetSpeedIs ==
  ASSUME NEW s, NEW rate, NEW parity, NEW stop, NEW u, s \in Terminals, rate \in 0..LastIndex,
         parity \in {"N", "O"}, stop \in 1..3, u = SetSpeed(s, rate, parity, stop)
  PROVE  /\ u \in Terminals
         /\ u.tty.open = s.tty.open /\ u.tty.old = s.tty.old /\ u.tty.saved = s.tty.saved
         /\ u.tty.index = s.tty.index /\ u.tty.retries = s.tty.retries /\ u.tty.polls = s.tty.polls
         /\ u.tty.baud = rate /\ u.tty.parity = parity /\ u.tty.stop = stop
         /\ u.tty.type = "bad" /\ u.tty.pieces = 0
         /\ u.port.rate = IF rate = 0 THEN s.port.rate ELSE rate
         /\ \/ s.port.parity = s.tty.parity /\ s.port.stop = s.tty.stop
            \/ s.tty.stop # stop
            \/ rate # s.port.rate
            => u.port.parity = parity /\ u.port.stop = stop
<1>1. PICK p, t : p = s.port /\ t = s.tty
  OBVIOUS
<1>2. p \in Setting /\ t \in Device /\ s = [port |-> p, tty |-> t]
  BY <1>1 DEF Terminals
<1>3. PICK set : set = [rate |-> IF rate = 0 THEN p.rate ELSE rate, parity |-> parity, stop |-> stop]
  OBVIOUS
<1>4. set \in Setting
  BY <1>2, <1>3, NumbersAre DEF Setting
<1>5. PICK d : d = [t EXCEPT !.baud = rate, !.parity = parity, !.stop = stop, !.type = "bad",
                             !.pieces = 0]
  OBVIOUS
<1>6. /\ d \in Device
      /\ d.open = t.open /\ d.old = t.old /\ d.saved = t.saved
      /\ d.index = t.index /\ d.retries = t.retries /\ d.polls = t.polls
      /\ d.baud = rate /\ d.parity = parity /\ d.stop = stop
      /\ d.type = "bad" /\ d.pieces = 0
  <2>1. rate \in 0..OffTable
    BY Ranges
  <2> QED BY <1>2, <1>5, <2>1, Ranges DEF Device
<1>7. PICK same \in BOOLEAN : same <=> (rate = p.rate /\ parity = t.parity /\ stop = t.stop)
  OBVIOUS
<1>8. u = [port |-> IF same THEN p ELSE set, tty |-> d]
  BY <1>1, <1>3, <1>5, <1>7 DEF SetSpeed
<1>9. u.port = (IF same THEN p ELSE set) /\ u.tty = d
  BY <1>8
<1>10. u \in Terminals
  BY <1>2, <1>4, <1>6, <1>8 DEF Terminals
<1>11. CASE same
  BY <1>1, <1>6, <1>7, <1>9, <1>10, <1>11
<1>12. CASE ~same
  BY <1>1, <1>3, <1>6, <1>9, <1>10, <1>12
<1> QED BY <1>11, <1>12

LEMMA HuntInvIs ==
  ASSUME HuntInv
  PROVE  /\ receiver \in Setting /\ port \in Setting /\ tty \in Device
         /\ receiver.rate \in 1..OffTable /\ receiver.stop \in 1..2
         /\ spent \in [noise : 0..MaxNoise, moves : 0..MaxMoves, releases : 0..MaxReleases]
         /\ steady \in BOOLEAN
         /\ tty.saved \in {NoSpeed} \cup 1..LastIndex
         /\ PortFollows /\ NotPassed
BY NumbersAre DEF HuntInv, HuntTypeOK, PortFollows, Setting

LEMMA HuntInitInv == HuntInit => HuntInv
<1> SUFFICES ASSUME HuntInit PROVE HuntInv
  OBVIOUS
<1>1. receiver \in Setting /\ receiver.rate >= 1 /\ receiver.stop <= 2
  <2>1. CASE receiver \in [rate : 1..OffTable, parity : {"N"}, stop : 1..2]
    BY <2>1, NumbersAre DEF Setting
  <2>2. CASE receiver = [rate |-> ProbeRate, parity |-> "O", stop |-> 1]
    BY <2>2, NumbersAre DEF Setting
  <2> QED BY <2>1, <2>2 DEF HuntInit, Receivers
<1>2. port \in Setting /\ port.parity = "N" /\ port.stop = 1
  BY NumbersAre DEF HuntInit, Setting
<1>3. tty \in Device /\ tty.saved = NoSpeed /\ ~tty.open /\ tty.parity = "N" /\ tty.stop = 1
  BY <1>2, NumbersAre DEF HuntInit, Device, Setting
<1>4. spent \in [noise : 0..MaxNoise, moves : 0..MaxMoves, releases : 0..MaxReleases] /\ steady = FALSE
  BY NumbersAre DEF HuntInit
<1> QED BY <1>1, <1>2, <1>3, <1>4 DEF HuntInv, HuntTypeOK, PortFollows, NotPassed

\* A port that is opened has the speed of the last time, unless the probe was answered.
LEMMA OpenIs ==
  ASSUME HuntInv, NEW answered, answered \in BOOLEAN, Open(answered)
  PROVE  /\ port' \in Setting /\ tty' \in Device /\ tty'.open
         /\ tty'.index = 0 /\ tty'.type = "bad" /\ tty'.stop = 1
         /\ tty'.saved \in {NoSpeed} \cup 1..LastIndex
         /\ port'.rate # OffTable /\ port'.parity = tty'.parity /\ port'.stop = 1
         /\ answered => port' = receiver /\ receiver.parity = "O"
         /\ ~answered => tty'.parity = "N" /\ (tty.saved # NoSpeed => port'.rate = tty.saved)
<1>1. PICK rate : rate = Reopened(port.rate)
  OBVIOUS
<1>2. rate \in 0..OffTable /\ (tty.saved # NoSpeed => rate = tty.saved /\ rate \in 1..LastIndex)
  BY <1>1, HuntInvIs, NumbersAre DEF Reopened, Setting
<1>3. PICK p, t : /\ p = [port EXCEPT !.rate = rate]
                  /\ t = [tty EXCEPT !.open = TRUE, !.old = rate, !.index = 0]
  OBVIOUS
<1>4. /\ p \in Setting /\ p.rate = rate /\ p.parity = port.parity /\ p.stop = port.stop
      /\ t \in Device /\ t.open /\ t.saved = tty.saved /\ t.index = 0
      /\ t.parity = tty.parity /\ t.stop = tty.stop
  BY <1>2, <1>3, HuntInvIs, Ranges DEF Setting, Device
<1>5. PICK opened : opened = [port |-> p, tty |-> t]
  OBVIOUS
<1>6. opened \in Terminals /\ opened.port = p /\ opened.tty = t
  BY <1>4, <1>5 DEF Terminals
<1>7. PICK set : set = SetSpeed(opened, GetSpeed(rate), "N", 1)
  OBVIOUS
<1>8. GetSpeed(rate) \in 0..LastIndex /\ (rate # OffTable => GetSpeed(rate) = rate)
  BY <1>2, NumbersAre DEF GetSpeed
<1>9. /\ set \in Terminals /\ set.tty.open /\ set.tty.saved = tty.saved /\ set.tty.index = 0
      /\ set.tty.baud = GetSpeed(rate) /\ set.tty.parity = "N" /\ set.tty.stop = 1
      /\ set.port.rate = IF GetSpeed(rate) = 0 THEN rate ELSE GetSpeed(rate)
      /\ set.port.parity = "N" /\ set.port.stop = 1
  <2>1. \/ opened.port.parity = opened.tty.parity /\ opened.port.stop = opened.tty.stop
        \/ opened.tty.stop # 1
    BY <1>4, <1>6, HuntInvIs DEF Open, PortFollows
  <2> QED BY <1>4, <1>6, <1>7, <1>8, <2>1, SetSpeedIs
<1>10. PICK probe : probe = SetSpeed(set, ProbeRate, "O", 1)
  OBVIOUS
<1>11. /\ probe \in Terminals /\ probe.tty.open /\ probe.tty.saved = tty.saved /\ probe.tty.index = 0
       /\ probe.tty.parity = "O" /\ probe.tty.stop = 1 /\ probe.tty.type = "bad"
       /\ probe.port.rate = ProbeRate /\ probe.port.parity = "O" /\ probe.port.stop = 1
  <2>1. ProbeRate \in 0..LastIndex /\ ProbeRate # 0
    BY NumbersAre
  <2> QED BY <1>9, <1>10, <2>1, SetSpeedIs
<1>12. PICK found : found = [probe EXCEPT !.tty = Synced(@, ProbeRate)]
  OBVIOUS
<1>13. /\ found \in Terminals /\ found.port = probe.port
       /\ found.tty.open /\ found.tty.saved \in {NoSpeed} \cup 1..LastIndex /\ found.tty.index = 0
       /\ found.tty.parity = "O" /\ found.tty.stop = 1 /\ found.tty.type = "bad"
  <2>1. PICK q : q = Synced(probe.tty, ProbeRate)
    OBVIOUS
  <2>2. /\ q \in Device /\ q.open /\ q.saved \in {NoSpeed} \cup 1..LastIndex /\ q.index = 0
        /\ q.parity = "O" /\ q.stop = 1 /\ q.type = "bad"
    BY <1>11, <2>1, HuntInvIs, NumbersAre DEF Synced, Terminals, Device
  <2>3. found.port = probe.port /\ found.tty = q /\ found \in Terminals
    BY <1>11, <1>12, <2>1, <2>2 DEF Terminals
  <2> QED BY <2>2, <2>3
<1>14. PICK back : back = SetSpeed(probe, set.tty.baud, "N", 1)
  OBVIOUS
<1>15. /\ back \in Terminals /\ back.tty.open /\ back.tty.saved = tty.saved /\ back.tty.index = 0
       /\ back.tty.parity = "N" /\ back.tty.stop = 1 /\ back.tty.type = "bad"
       /\ back.port.rate = IF GetSpeed(rate) = 0 THEN ProbeRate ELSE GetSpeed(rate)
       /\ back.port.parity = "N" /\ back.port.stop = 1
  BY <1>8, <1>9, <1>11, <1>14, SetSpeedIs
<1>16. PICK s : s = IF answered THEN found ELSE back
  OBVIOUS
<1>17. /\ s \in Terminals /\ s.tty.open /\ s.tty.index = 0 /\ s.tty.type = "bad" /\ s.tty.stop = 1
       /\ s.tty.saved \in {NoSpeed} \cup 1..LastIndex
       /\ s.port.rate # OffTable /\ s.port.parity = s.tty.parity /\ s.port.stop = 1
       /\ answered => s.port = probe.port
       /\ ~answered => s.tty.parity = "N" /\ (tty.saved # NoSpeed => s.port.rate = tty.saved)
  <2>1. CASE answered
    BY <1>11, <1>13, <1>16, <2>1, NumbersAre
  <2>2. CASE ~answered
    <3>1. back.port.rate # OffTable /\ (tty.saved # NoSpeed => back.port.rate = tty.saved)
      BY <1>2, <1>8, <1>15, NumbersAre
    <3> QED BY <1>15, <1>16, <2>2, <3>1, HuntInvIs
  <2> QED BY <2>1, <2>2
<1>18. port' = s.port /\ tty' = [s.tty EXCEPT !.retries = 0, !.polls = 0] /\ (answered => receiver = probe.port)
  <2>1. Becomes([s EXCEPT !.tty.retries = 0, !.tty.polls = 0]) /\ (answered => receiver = probe.port)
    <3>1. CASE answered
      BY ZenonT(30), <1>1, <1>3, <1>5, <1>7, <1>10, <1>12, <1>16, <3>1 DEF Open
    <3>2. CASE ~answered
      BY ZenonT(30), <1>1, <1>3, <1>5, <1>7, <1>10, <1>14, <1>16, <3>2 DEF Open
    <3> QED BY <3>1, <3>2
  <2> QED BY <1>17, <2>1 DEF Becomes, Terminals
<1>19. /\ tty' \in Device /\ tty'.open = s.tty.open /\ tty'.index = s.tty.index /\ tty'.type = s.tty.type
       /\ tty'.stop = s.tty.stop /\ tty'.saved = s.tty.saved /\ tty'.parity = s.tty.parity
  <2>1. s.tty \in Device
    BY <1>17 DEF Terminals
  <2> QED BY <2>1, <1>18, Ranges DEF Device
<1>20. port' \in Setting
  BY <1>17, <1>18 DEF Terminals
<1> QED BY <1>11, <1>17, <1>18, <1>19, <1>20

\* What a poll makes of the device before the hunt.
LEMMA AcceptedIs ==
  ASSUME HuntInv, NEW outcome, outcome \in Outcomes, tty.open, Possible(outcome),
         NEW t, t = Accepted(outcome)
  PROVE  /\ t \in Device /\ t.open = tty.open /\ t.baud = tty.baud /\ t.parity = tty.parity
         /\ t.stop = tty.stop /\ t.old = tty.old /\ t.index = tty.index
         /\ t.retries = tty.retries /\ t.polls = tty.polls
         /\ t.type = Sniffed(outcome)
         /\ t.saved \in {NoSpeed} \cup 1..LastIndex
         /\ Tuned /\ outcome = "none" => t.pieces = tty.pieces + 1
<1>1. Sniffed(outcome) \in {"bad", "comment", "packet"}
  BY HuntInvIs DEF Sniffed, Outcomes, Device
<1>2. PICK k : k = IF Tuned /\ outcome = "none" THEN tty.pieces + 1 ELSE 0
  OBVIOUS
<1>3. k \in 0..PacketPolls - 1
  <2>1. tty.pieces \in 0..PacketPolls - 1
    BY HuntInvIs DEF Device
  <2>2. Tuned /\ outcome = "none" => tty.pieces < PacketPolls - 1
    BY DEF Possible
  <2> QED BY <1>2, <2>1, <2>2, NumbersAre
<1>4. PICK q : q = [tty EXCEPT !.type = Sniffed(outcome), !.pieces = k]
  OBVIOUS
<1>5. /\ q \in Device /\ q.open = tty.open /\ q.baud = tty.baud /\ q.parity = tty.parity
      /\ q.stop = tty.stop /\ q.old = tty.old /\ q.index = tty.index
      /\ q.retries = tty.retries /\ q.polls = tty.polls /\ q.saved = tty.saved
      /\ q.type = Sniffed(outcome) /\ q.pieces = k
  BY <1>1, <1>3, <1>4, HuntInvIs DEF Device
<1>6. t = IF outcome = "packet" THEN Synced(q, port.rate) ELSE q
  <2>1. q = [tty EXCEPT !.type = Sniffed(outcome),
                        !.pieces = IF Tuned /\ outcome = "none" THEN @ + 1 ELSE 0]
    BY <1>2, <1>4
  <2> QED BY <2>1 DEF Accepted
<1>7. CASE outcome # "packet"
  BY <1>2, <1>5, <1>6, <1>7, HuntInvIs
<1>8. CASE outcome = "packet"
  <2>1. Tuned
    BY <1>8 DEF Possible
  <2>2. port.rate \in 1..LastIndex
    <3>1. port.rate # OffTable /\ port.rate \in 1..OffTable
      BY <2>1, HuntInvIs DEF Tuned, PortFollows
    <3> QED BY <3>1, NumbersAre
  <2>3. PICK r : r = IF q.saved = NoSpeed THEN port.rate ELSE q.saved
    OBVIOUS
  <2>4. r \in {NoSpeed} \cup 1..LastIndex /\ t = [q EXCEPT !.saved = r]
    BY <1>5, <1>6, <1>8, <2>2, <2>3, HuntInvIs DEF Synced
  <2>5. r \in NoSpeed..OffTable
    BY <2>4, NumbersAre
  <2> QED BY <1>2, <1>5, <1>8, <2>4, <2>5 DEF Device
<1> QED BY <1>7, <1>8

\* Where the hunt goes from a setting at which nothing was found.
LEMMA NextSettingIs ==
  ASSUME NEW s, NEW u, s \in Terminals, u = NextHuntSetting(s), ~Over(s),
         s.tty.open, s.tty.stop <= 2, s.tty.type = "bad",
         s.port.parity = s.tty.parity, s.port.stop = s.tty.stop,
         s.tty.index >= 1 => s.port.rate # 0
  PROVE  /\ u \in Terminals /\ u.tty.open /\ u.tty.saved = s.tty.saved /\ u.tty.type = "bad"
         /\ u.tty.parity = s.tty.parity /\ u.port.parity = s.tty.parity /\ u.port.stop = u.tty.stop
         /\ \/ /\ s.tty.retries < SniffRetries /\ u.tty.retries = s.tty.retries + 1
               /\ u.tty.pieces = s.tty.pieces /\ u.port = s.port
               /\ u.tty.index = s.tty.index /\ u.tty.stop = s.tty.stop
            \/ /\ ~(s.tty.retries < SniffRetries) /\ u.tty.retries = 0 /\ u.tty.pieces = 0
               /\ s.tty.index < LastIndex /\ u.tty.index = s.tty.index + 1
               /\ u.tty.stop = s.tty.stop /\ u.port.rate = u.tty.index
            \/ /\ ~(s.tty.retries < SniffRetries) /\ u.tty.retries = 0 /\ u.tty.pieces = 0
               /\ s.tty.index = LastIndex /\ u.tty.index = 0
               /\ s.tty.stop = 1 /\ u.tty.stop = 2 /\ u.port.rate = s.port.rate
<1>1. PICK p, t : p = s.port /\ t = s.tty
  OBVIOUS
<1>2. p \in Setting /\ t \in Device /\ s = [port |-> p, tty |-> t]
  BY <1>1 DEF Terminals
<1>3. t.index \in 0..LastIndex /\ t.stop \in 1..3 /\ t.retries \in 0..SniffRetries /\ t.parity \in {"N", "O"}
  BY <1>2 DEF Device
<1>4. CASE Patient(s)
  <2>1. PICK d : d = [t EXCEPT !.retries = @ + 1]
    OBVIOUS
  <2>2. t.retries < SniffRetries
    BY <1>1, <1>4 DEF Patient
  <2>3. t.retries + 1 \in 0..SniffRetries
    BY <1>3, <2>2, NumbersAre
  <2>4. /\ d \in Device /\ d.open = t.open /\ d.saved = t.saved /\ d.type = t.type
        /\ d.parity = t.parity /\ d.stop = t.stop /\ d.index = t.index /\ d.pieces = t.pieces
        /\ d.retries = t.retries + 1
    BY <1>2, <2>1, <2>3 DEF Device
  <2>5. u = [s EXCEPT !.tty.retries = @ + 1]
    BY <1>4 DEF NextHuntSetting
  <2>6. u = [port |-> p, tty |-> d]
    BY <1>2, <2>1, <2>5
  <2>7. u \in Terminals /\ u.port = p /\ u.tty = d
    BY <1>2, <2>4, <2>6 DEF Terminals
  <2> QED BY <1>1, <2>2, <2>4, <2>7
<1>5. CASE ~Patient(s)
  <2>1. PICK wraps \in BOOLEAN : wraps <=> t.index >= LastTried
    OBVIOUS
  <2>2. PICK index, stop : /\ index = IF wraps THEN 0 ELSE t.index + 1
                           /\ stop = IF wraps THEN t.stop + 1 ELSE t.stop
    OBVIOUS
  <2>3. PICK d : d = [t EXCEPT !.retries = 0, !.index = index, !.stop = stop]
    OBVIOUS
  <2>4. wraps => t.index = LastIndex /\ t.stop = 1
    BY <1>1, <1>3, <1>5, <2>1, NumbersAre DEF Over
  <2>5. index \in 0..LastIndex /\ stop \in 1..2 /\ stop \in 1..3
    BY <1>1, <1>3, <2>1, <2>2, <2>4, NumbersAre
  <2>6. /\ d \in Device /\ d.open = t.open /\ d.saved = t.saved /\ d.parity = t.parity
        /\ d.retries = 0 /\ d.index = index /\ d.stop = stop
    BY <1>2, <2>3, <2>5, Ranges DEF Device
  <2>7. PICK next : next = [port |-> p, tty |-> d]
    OBVIOUS
  <2>8. next \in Terminals /\ next.port = p /\ next.tty = d
    BY <1>2, <2>6, <2>7 DEF Terminals
  <2>9. u = SetSpeed(next, index, t.parity, stop)
    <3>1. next = [s EXCEPT !.tty.retries = 0, !.tty.index = index, !.tty.stop = stop]
      <4>1. [s EXCEPT !.tty.retries = 0, !.tty.index = index, !.tty.stop = stop]
            = [s EXCEPT !.tty = [t EXCEPT !.retries = 0, !.index = index, !.stop = stop]]
        BY <1>1, <1>2, Zenon
      <4> QED BY <1>2, <2>3, <2>7, <4>1
    <3>2. s.tty.index = t.index /\ s.tty.stop = t.stop /\ s.tty.parity = t.parity
      BY <1>1
    <3> QED BY <1>5, <2>1, <2>2, <3>1, <3>2 DEF NextHuntSetting
  <2>10. \/ next.port.parity = next.tty.parity /\ next.port.stop = next.tty.stop
         \/ next.tty.stop # stop
         \/ index # next.port.rate
    <3>1. CASE wraps
      BY <1>1, <2>2, <2>4, <2>8, <3>1, NumbersAre
    <3>2. CASE ~wraps
      BY <1>1, <2>2, <2>6, <2>8, <3>2
    <3> QED BY <3>1, <3>2
  <2>11. /\ u \in Terminals /\ u.tty.open = d.open /\ u.tty.saved = d.saved /\ u.tty.type = "bad"
         /\ u.tty.index = d.index /\ u.tty.retries = d.retries /\ u.tty.pieces = 0
         /\ u.tty.parity = t.parity /\ u.tty.stop = stop
         /\ u.port.rate = (IF index = 0 THEN p.rate ELSE index)
         /\ u.port.parity = t.parity /\ u.port.stop = stop
    BY <1>3, <2>5, <2>8, <2>9, <2>10, SetSpeedIs
  <2>p. ~(t.retries < SniffRetries)
    BY <1>1, <1>5 DEF Patient
  <2>12. CASE wraps
    BY <1>1, <2>2, <2>4, <2>6, <2>11, <2>p, <2>12
  <2>13. CASE ~wraps
    <3>1. t.index < LastIndex /\ index = t.index + 1 /\ index # 0 /\ stop = t.stop
      BY <1>3, <2>1, <2>2, <2>13, NumbersAre
    <3> QED BY <1>1, <2>6, <2>11, <2>p, <3>1
  <2> QED BY <2>12, <2>13
<1> QED BY <1>4, <1>5

\* A device that is closed keeps what it knew, and the port its old speed.
LEMMA ClosedIs ==
  ASSUME NEW s, NEW u, s \in Terminals, u = Closed(s)
  PROVE  /\ u \in Terminals /\ ~u.tty.open /\ u.tty.saved = s.tty.saved
         /\ u.tty.parity = s.tty.parity /\ u.tty.stop = s.tty.stop
         /\ u.port.parity = s.port.parity /\ u.port.stop = s.port.stop
<1>1. PICK p, t : p = s.port /\ t = s.tty
  OBVIOUS
<1>2. p \in Setting /\ t \in Device
  BY <1>1 DEF Terminals
<1>3. PICK r : r = IF t.baud = 0 THEN 0 ELSE t.old
  OBVIOUS
<1>4. r \in 0..OffTable
  BY <1>2, <1>3, NumbersAre DEF Device
<1>5. PICK q, d : q = [p EXCEPT !.rate = r] /\ d = [t EXCEPT !.open = FALSE]
  OBVIOUS
<1>6. q \in Setting /\ q.parity = p.parity /\ q.stop = p.stop
  BY <1>2, <1>4, <1>5 DEF Setting
<1>7. d \in Device /\ ~d.open /\ d.saved = t.saved /\ d.parity = t.parity /\ d.stop = t.stop
  BY <1>2, <1>5 DEF Device
<1>8. u = [port |-> q, tty |-> d]
  BY <1>1, <1>3, <1>5 DEF Closed
<1>9. u \in Terminals /\ u.port = q /\ u.tty = d
  BY <1>6, <1>7, <1>8 DEF Terminals
<1> QED BY <1>1, <1>6, <1>7, <1>9

\* The hunt that is over leaves the table at its begin, and three stop bits.
LEMMA OverIs ==
  ASSUME NEW s, NEW u, s \in Terminals, Over(s), s.tty.stop <= 2, u = Closed(NextHuntSetting(s))
  PROVE  /\ u \in Terminals /\ ~u.tty.open /\ u.tty.saved = s.tty.saved
         /\ u.tty.parity = s.tty.parity /\ u.port.parity = s.port.parity /\ u.tty.stop = 3
         /\ s.tty.stop = 2 /\ s.tty.index = LastIndex /\ ~(s.tty.retries < SniffRetries)
<1>1. PICK p, t : p = s.port /\ t = s.tty
  OBVIOUS
<1>2. p \in Setting /\ t \in Device /\ s = [port |-> p, tty |-> t]
  BY <1>1 DEF Terminals
<1>3. t.stop = 2 /\ t.index = LastIndex /\ ~(t.retries < SniffRetries) /\ t.index >= LastTried
  BY <1>1, <1>2, NumbersAre DEF Over, Patient, Device
<1>4. PICK d : d = [t EXCEPT !.retries = 0, !.index = 0, !.stop = 3]
  OBVIOUS
<1>5. d \in Device /\ d.saved = t.saved /\ d.parity = t.parity /\ d.stop = 3
  BY <1>2, <1>4, Ranges DEF Device
<1>6. PICK next : next = [port |-> p, tty |-> d]
  OBVIOUS
<1>7. next \in Terminals /\ next.port = p /\ next.tty = d
  BY <1>2, <1>5, <1>6 DEF Terminals
<1>8. NextHuntSetting(s) = next
  <2>1. s.tty.index >= LastTried /\ s.tty.stop + 1 = 3 /\ ~Patient(s)
    BY <1>1, <1>3 DEF Over
  <2>2. next = [s EXCEPT !.tty.retries = 0, !.tty.index = 0, !.tty.stop = 3]
    <3>1. [s EXCEPT !.tty.retries = 0, !.tty.index = 0, !.tty.stop = 3]
          = [s EXCEPT !.tty = [t EXCEPT !.retries = 0, !.index = 0, !.stop = 3]]
      BY <1>1, <1>2, Zenon
    <3> QED BY <1>2, <1>4, <1>6, <3>1
  <2> QED BY <2>1, <2>2 DEF NextHuntSetting
<1> QED BY <1>1, <1>3, <1>5, <1>7, <1>8, ClosedIs

\* A poll goes on with the hunt, or is heard; it gives a receiver up only after a disturbance.
LEMMA PollStep ==
  ASSUME HuntInv, NEW outcome, outcome \in Outcomes, Poll(outcome)
  PROVE  /\ HuntInv'
         /\ ~tty'.open /\ UNCHANGED spent => ~(steady /\ Huntable)
<1>o. tty.open /\ Possible(outcome) /\ receiver' = receiver
  BY DEF Poll
<1>1. PICK t : t = Accepted(outcome)
  OBVIOUS
<1>2. /\ t \in Device /\ t.open /\ t.parity = tty.parity /\ t.stop = tty.stop
      /\ t.index = tty.index /\ t.retries = tty.retries /\ t.polls = tty.polls
      /\ t.type = Sniffed(outcome) /\ t.saved \in {NoSpeed} \cup 1..LastIndex
      /\ Tuned /\ outcome = "none" => t.pieces = tty.pieces + 1
  BY <1>o, <1>1, AcceptedIs
<1>3. /\ port.parity = tty.parity /\ port.stop = tty.stop /\ tty.stop <= 2 /\ port.rate # OffTable
      /\ tty.index >= 1 => port.rate # 0
  BY <1>o, HuntInvIs DEF PortFollows
<1>4. PICK noise \in BOOLEAN : noise <=> (Tuned /\ outcome = "bad")
  OBVIOUS
<1>5. /\ spent' = [spent EXCEPT !.noise = IF noise THEN @ + 1 ELSE @]
      /\ steady' = (steady /\ ~noise)
  BY <1>4 DEF Poll
<1>6. /\ spent' \in [noise : 0..MaxNoise, moves : 0..MaxMoves, releases : 0..MaxReleases]
      /\ noise => spent' # spent
      /\ steady' \in BOOLEAN
  <2>1. noise => spent.noise < MaxNoise
    BY <1>o, <1>4 DEF Possible
  <2>2. CASE noise
    <3>1. spent' = [spent EXCEPT !.noise = @ + 1]
      BY <1>5, <2>2
    <3>2. spent.noise \in 0..MaxNoise
      BY HuntInvIs
    <3>3. spent'.noise = spent.noise + 1
      BY <3>1, HuntInvIs
    <3> QED BY <1>5, <2>1, <2>2, <3>1, <3>2, <3>3, HuntInvIs, NumbersAre
  <2>3. CASE ~noise
    BY <1>5, <2>3, HuntInvIs
  <2> QED BY <2>2, <2>3
<1>7. ASSUME steady, Huntable, ~noise
      PROVE  /\ t.parity = "N" /\ (t.index >= 1 => port.rate = t.index)
             /\ \/ t.type = "packet" /\ Tuned
                \/ t.stop < receiver.stop
                \/ t.stop = receiver.stop /\ t.index < receiver.rate
                \/ /\ t.stop = receiver.stop /\ t.index = receiver.rate
                   /\ t.retries + 1 <= t.pieces
  <2>1. tty.parity = "N" /\ (tty.index >= 1 => port.rate = tty.index) /\ Reachable
    BY <1>o, <1>7, HuntInvIs DEF NotPassed
  <2>2. CASE tty.type = "packet" /\ Tuned
    <3>1. outcome = "packet" \/ outcome = "none"
      BY <1>o, <1>4, <1>7, <2>2 DEF Possible
    <3>2. t.type = "packet"
      BY <1>2, <2>2, <3>1 DEF Sniffed
    <3> QED BY <1>2, <2>1, <2>2, <3>2
  <2>3. CASE tty.stop = receiver.stop /\ tty.index = receiver.rate /\ tty.retries <= tty.pieces
    <3>1. port.rate = receiver.rate /\ port.stop = receiver.stop /\ port.parity = receiver.parity
      BY <1>3, <1>7, <2>1, <2>3, HuntInvIs, NumbersAre DEF Huntable
    <3>2. Tuned
      BY <1>o, <3>1, HuntInvIs DEF Tuned, Setting
    <3>3. outcome = "packet" \/ outcome = "none"
      BY <1>o, <1>4, <1>7, <3>2 DEF Possible
    <3>4. CASE outcome = "packet"
      <4>1. t.type = "packet"
        BY <1>2, <3>4 DEF Sniffed
      <4> QED BY <1>2, <2>1, <3>2, <4>1
    <3>5. CASE outcome = "none"
      <4>1. t.pieces = tty.pieces + 1
        BY <1>2, <3>2, <3>5
      <4>2. tty.pieces \in Int /\ tty.retries \in Int
        BY HuntInvIs, NumbersAre DEF Device
      <4> QED BY <1>2, <2>1, <2>3, <4>1, <4>2
    <3> QED BY <3>3, <3>4, <3>5
  <2> QED BY <1>2, <2>1, <2>2, <2>3 DEF Reachable
<1>8. PICK s : s = [port |-> port, tty |-> t]
  OBVIOUS
<1>9. s \in Terminals /\ s.port = port /\ s.tty = t /\ s = [Terminal EXCEPT !.tty = Accepted(outcome)]
  BY <1>1, <1>2, <1>8, HuntInvIs DEF Terminals, Terminal
<1>10. PICK c : c = [t EXCEPT !.polls = IF @ = 2 THEN 2 ELSE @ + 1]
  OBVIOUS
<1>11. /\ c \in Device /\ c.open /\ c.parity = t.parity /\ c.stop = t.stop /\ c.index = t.index
       /\ c.retries = t.retries /\ c.type = t.type /\ c.saved = t.saved /\ c.pieces = t.pieces
  <2>1. t.polls \in 0..2
    BY <1>2 DEF Device
  <2>2. PICK k : k = IF t.polls = 2 THEN 2 ELSE t.polls + 1
    OBVIOUS
  <2>3. k \in 0..2 /\ c = [t EXCEPT !.polls = k]
    BY <1>10, <2>1, <2>2
  <2> QED BY <1>2, <2>3 DEF Device
<1>12. PICK counted : counted = [port |-> port, tty |-> c]
  OBVIOUS
<1>13. /\ counted \in Terminals /\ counted.port = port /\ counted.tty = c
       /\ counted = [s EXCEPT !.tty.polls = IF @ = 2 THEN 2 ELSE @ + 1]
  BY <1>8, <1>10, <1>11, <1>12, HuntInvIs DEF Terminals
<1>14. Becomes(IF t.type # "bad" THEN s
               ELSE IF t.polls # 2 THEN counted
               ELSE IF Over(counted) THEN Closed(NextHuntSetting(counted))
               ELSE NextHuntSetting(counted))
  BY <1>9, <1>13 DEF Poll
<1>15. ASSUME NEW u, u \in Terminals, Becomes(u), u.tty.open, u.port = port,
              u.tty = t \/ u.tty = c
       PROVE  HuntInv' /\ tty'.open
  <2>1. /\ port' = port /\ tty' \in Device /\ tty'.open /\ tty'.parity = t.parity
        /\ tty'.stop = t.stop /\ tty'.index = t.index /\ tty'.retries = t.retries
        /\ tty'.type = t.type /\ tty'.saved = t.saved /\ tty'.pieces = t.pieces
    BY <1>2, <1>11, <1>15 DEF Becomes
  <2>2. HuntTypeOK' /\ PortFollows'
    BY <1>o, <1>2, <1>3, <1>6, <2>1, HuntInvIs DEF HuntTypeOK, PortFollows
  <2>3. NotPassed'
    <3> SUFFICES ASSUME steady', Huntable'
                 PROVE  /\ tty'.parity = "N" /\ (tty'.index >= 1 => port'.rate = tty'.index)
                        /\ Reachable'
      BY DEF NotPassed
    <3>1. steady /\ Huntable /\ ~noise
      BY <1>o, <1>5 DEF Huntable
    <3>2. t.retries \in Int /\ t.pieces \in Int
      BY <1>2, NumbersAre DEF Device
    <3>3. Tuned => Tuned'
      BY <1>o, <2>1 DEF Tuned
    <3> QED BY <1>o, <1>7, <2>1, <3>1, <3>2, <3>3 DEF Reachable
  <2> QED BY <2>1, <2>2, <2>3 DEF HuntInv
<1>16. CASE t.type # "bad"
  <2>1. Becomes(s)
    BY <1>14, <1>16
  <2> QED BY <1>2, <1>9, <1>15, <2>1
<1>17. CASE t.type = "bad" /\ t.polls # 2
  <2>1. Becomes(counted)
    BY <1>14, <1>17
  <2> QED BY <1>11, <1>13, <1>15, <2>1
<1>18. CASE t.type = "bad" /\ t.polls = 2 /\ Over(counted)
  <2>1. PICK u : u = Closed(NextHuntSetting(counted))
    OBVIOUS
  <2>2. /\ u \in Terminals /\ ~u.tty.open /\ u.tty.saved = c.saved
        /\ u.tty.parity = c.parity /\ u.port.parity = port.parity /\ u.tty.stop = 3
        /\ c.stop = 2 /\ c.index = LastIndex /\ ~(c.retries < SniffRetries)
    <3>1. counted \in Terminals /\ counted.tty = c /\ counted.port = port /\ c.stop <= 2
      BY <1>2, <1>3, <1>11, <1>13
    <3> QED BY <1>18, <2>1, <3>1, OverIs
  <2>3. port' = u.port /\ tty' = u.tty
    BY <1>14, <1>18, <2>1 DEF Becomes
  <2>4. HuntInv'
    BY <1>o, <1>2, <1>3, <1>6, <1>11, <2>2, <2>3, HuntInvIs
       DEF HuntInv, HuntTypeOK, PortFollows, NotPassed, Terminals
  <2>5. ASSUME UNCHANGED spent, steady, Huntable PROVE FALSE
    <3>1. ~noise
      BY <1>6, <2>5
    <3>2. receiver.rate \in 1..LastIndex
      BY <2>5 DEF Huntable
    <3>3. t.retries \in Int /\ t.pieces \in 0..PacketPolls - 1
      BY <1>2, NumbersAre DEF Device
    <3>4. ~(t.retries < SniffRetries) /\ t.stop = 2 /\ t.index = LastIndex
      BY <1>11, <2>2
    <3> QED BY <1>7, <1>18, <2>5, <3>1, <3>2, <3>3, <3>4, HuntInvIs, NumbersAre
  <2> QED BY <2>4, <2>5
<1>19. CASE t.type = "bad" /\ t.polls = 2 /\ ~Over(counted)
  <2>1. PICK u : u = NextHuntSetting(counted)
    OBVIOUS
  <2>2. /\ u \in Terminals /\ u.tty.open /\ u.tty.saved = c.saved /\ u.tty.type = "bad"
        /\ u.tty.parity = c.parity /\ u.port.parity = c.parity /\ u.port.stop = u.tty.stop
        /\ \/ /\ c.retries < SniffRetries /\ u.tty.retries = c.retries + 1
              /\ u.tty.pieces = c.pieces /\ u.port = port
              /\ u.tty.index = c.index /\ u.tty.stop = c.stop
           \/ /\ ~(c.retries < SniffRetries) /\ u.tty.retries = 0 /\ u.tty.pieces = 0
              /\ c.index < LastIndex /\ u.tty.index = c.index + 1
              /\ u.tty.stop = c.stop /\ u.port.rate = u.tty.index
           \/ /\ ~(c.retries < SniffRetries) /\ u.tty.retries = 0 /\ u.tty.pieces = 0
              /\ c.index = LastIndex /\ u.tty.index = 0
              /\ c.stop = 1 /\ u.tty.stop = 2 /\ u.port.rate = port.rate
    <3>1. /\ counted \in Terminals /\ counted.tty = c /\ counted.port = port /\ c.stop <= 2 /\ c.open
          /\ c.type = "bad" /\ port.parity = c.parity /\ port.stop = c.stop
          /\ c.index >= 1 => port.rate # 0
      BY <1>2, <1>3, <1>11, <1>13, <1>19
    <3> QED BY <1>19, <2>1, <3>1, NextSettingIs
  <2>3. port' = u.port /\ tty' = u.tty
    BY <1>14, <1>19, <2>1 DEF Becomes
  <2>4. /\ c.index = tty.index /\ c.stop = tty.stop /\ c.index \in 0..LastIndex /\ c.stop \in 1..2
        /\ u.port \in Setting /\ u.tty \in Device /\ u.tty.index \in 0..LastIndex
    BY <1>2, <1>3, <1>11, <2>2, NumbersAre DEF Device, Terminals
  <2>5. u.port.rate # OffTable /\ u.tty.stop <= 2 /\ (u.tty.index >= 1 => u.port.rate # 0)
    BY <1>3, <2>2, <2>4, NumbersAre
  <2>6. HuntTypeOK' /\ PortFollows'
    BY <1>o, <1>2, <1>6, <1>11, <2>2, <2>3, <2>4, <2>5, HuntInvIs DEF HuntTypeOK, PortFollows
  <2>7. NotPassed'
    <3> SUFFICES ASSUME steady', Huntable'
                 PROVE  /\ tty'.parity = "N" /\ (tty'.index >= 1 => port'.rate = tty'.index)
                        /\ Reachable'
      BY DEF NotPassed
    <3>1. steady /\ Huntable /\ ~noise /\ receiver.rate \in 1..LastIndex
      BY <1>o, <1>5 DEF Huntable
    <3>2. c.retries \in Int /\ c.pieces \in 0..PacketPolls - 1
      BY <1>11, NumbersAre DEF Device
    <3>3. /\ c.parity = "N" /\ (c.index >= 1 => port.rate = c.index)
          /\ \/ c.stop < receiver.stop
             \/ c.stop = receiver.stop /\ c.index < receiver.rate
             \/ c.stop = receiver.stop /\ c.index = receiver.rate /\ c.retries + 1 <= c.pieces
      BY <1>7, <1>11, <1>19, <3>1
    <3>4. receiver.stop \in 1..2 /\ receiver' = receiver
      BY <1>o, HuntInvIs
    <3>5. u.tty.index >= 1 => u.port.rate = u.tty.index
      BY <2>2, <2>4, <3>3
    <3>6. \/ u.tty.stop < receiver.stop
          \/ u.tty.stop = receiver.stop /\ u.tty.index < receiver.rate
          \/ u.tty.stop = receiver.stop /\ u.tty.index = receiver.rate /\ u.tty.retries <= u.tty.pieces
      <4>1. CASE u.tty.retries = c.retries + 1 /\ u.tty.pieces = c.pieces
                 /\ u.tty.index = c.index /\ u.tty.stop = c.stop
        BY <3>3, <4>1
      <4>2. c.retries + 1 <= c.pieces => c.retries < SniffRetries
        BY <3>2, NumbersAre
      <4>3. CASE /\ ~(c.retries < SniffRetries) /\ u.tty.retries = 0 /\ u.tty.pieces = 0
                 /\ c.index < LastIndex /\ u.tty.index = c.index + 1 /\ u.tty.stop = c.stop
        <5>1. \/ c.stop < receiver.stop
              \/ c.stop = receiver.stop /\ c.index < receiver.rate
          BY <3>3, <4>2, <4>3
        <5> QED BY <2>4, <3>1, <3>4, <4>3, <5>1
      <4>4. CASE /\ ~(c.retries < SniffRetries) /\ u.tty.retries = 0 /\ u.tty.pieces = 0
                 /\ c.index = LastIndex /\ u.tty.index = 0 /\ c.stop = 1 /\ u.tty.stop = 2
        <5>1. \/ c.stop < receiver.stop
              \/ c.stop = receiver.stop /\ c.index < receiver.rate
          BY <3>3, <4>2, <4>4
        <5> QED BY <2>4, <3>1, <3>4, <4>4, <5>1
      <4> QED BY <2>2, <4>1, <4>3, <4>4
    <3> QED BY <1>11, <2>2, <2>3, <3>3, <3>4, <3>5, <3>6 DEF Reachable
  <2>8. tty'.open
    BY <2>2, <2>3
  <2> QED BY <2>6, <2>7, <2>8 DEF HuntInv
<1> QED BY <1>16, <1>17, <1>18, <1>19

LEMMA OpenStep ==
  ASSUME HuntInv, NEW answered, answered \in BOOLEAN, Open(answered)
  PROVE  HuntInv' /\ tty'.open
<1>1. receiver' = receiver /\ spent' = spent /\ steady' = TRUE
  BY DEF Open
<1>2. /\ port' \in Setting /\ tty' \in Device /\ tty'.open
      /\ tty'.index = 0 /\ tty'.type = "bad" /\ tty'.stop = 1
      /\ tty'.saved \in {NoSpeed} \cup 1..LastIndex
      /\ port'.rate # OffTable /\ port'.parity = tty'.parity /\ port'.stop = 1
      /\ answered => receiver.parity = "O"
      /\ ~answered => tty'.parity = "N"
  BY OpenIs
<1>3. HuntTypeOK' /\ PortFollows'
  BY <1>1, <1>2, HuntInvIs DEF HuntTypeOK, PortFollows
<1>4. NotPassed'
  <2>1. Huntable' => tty'.parity = "N" /\ receiver.rate \in 1..LastIndex
    BY <1>1, <1>2 DEF Huntable
  <2>2. receiver.rate \in Int /\ receiver.rate >= 1 /\ (receiver.stop = 1 \/ receiver.stop = 2)
    BY HuntInvIs, NumbersAre
  <2>3. Reachable'
    BY <1>1, <1>2, <2>2 DEF Reachable
  <2> QED BY <1>2, <2>1, <2>3 DEF NotPassed
<1> QED BY <1>2, <1>3, <1>4 DEF HuntInv

LEMMA ReleaseStep ==
  ASSUME HuntInv, Release
  PROVE  HuntInv' /\ spent' # spent
<1>1. /\ tty.open /\ receiver' = receiver /\ steady' = steady /\ Becomes(Closed(Terminal))
      /\ spent' = [spent EXCEPT !.releases = @ + 1] /\ spent.releases < MaxReleases
  BY DEF Release
<1>2. PICK u : u = Closed(Terminal)
  OBVIOUS
<1>3. Terminal \in Terminals /\ Terminal.port = port /\ Terminal.tty = tty
  BY HuntInvIs DEF Terminal, Terminals
<1>4. /\ u \in Terminals /\ ~u.tty.open /\ u.tty.saved = tty.saved
      /\ u.tty.parity = tty.parity /\ u.tty.stop = tty.stop
      /\ u.port.parity = port.parity /\ u.port.stop = port.stop
  BY <1>2, <1>3, ClosedIs
<1>5. port' = u.port /\ tty' = u.tty /\ port' \in Setting /\ tty' \in Device
  BY <1>1, <1>2, <1>4 DEF Becomes, Terminals
<1>6. /\ spent' \in [noise : 0..MaxNoise, moves : 0..MaxMoves, releases : 0..MaxReleases]
      /\ spent' # spent
  <2>1. spent.releases \in 0..MaxReleases /\ spent'.releases = spent.releases + 1
    BY <1>1, HuntInvIs
  <2> QED BY <1>1, <2>1, HuntInvIs, NumbersAre
<1> QED
  BY <1>1, <1>4, <1>5, <1>6, HuntInvIs DEF HuntInv, HuntTypeOK, PortFollows, NotPassed

LEMMA MovesAreTyped ==
  ASSUME HuntInv, spent.moves < MaxMoves, spent' = [spent EXCEPT !.moves = @ + 1]
  PROVE  spent' \in [noise : 0..MaxNoise, moves : 0..MaxMoves, releases : 0..MaxReleases]
<1>1. spent.moves \in 0..MaxMoves
  BY HuntInvIs
<1> QED BY <1>1, HuntInvIs, NumbersAre

LEMMA ClientSetsStep ==
  ASSUME HuntInv, NEW rate, NEW obeyed, rate \in 1..LastIndex, obeyed \in BOOLEAN,
         ClientSets(rate, obeyed)
  PROVE  HuntInv' /\ tty'.open
<1>1. /\ tty.open /\ steady' = FALSE
      /\ receiver' = IF obeyed /\ Tuned THEN [receiver EXCEPT !.rate = rate] ELSE receiver
      /\ Becomes(SetSpeed(Terminal, rate, tty.parity, tty.stop))
  BY DEF ClientSets
<1>2. spent' \in [noise : 0..MaxNoise, moves : 0..MaxMoves, releases : 0..MaxReleases]
  BY MovesAreTyped DEF ClientSets
<1>3. PICK u : u = SetSpeed(Terminal, rate, tty.parity, tty.stop)
  OBVIOUS
<1>4. Terminal \in Terminals /\ Terminal.port = port /\ Terminal.tty = tty
  BY HuntInvIs DEF Terminal, Terminals
<1>5. /\ port.parity = tty.parity /\ port.stop = tty.stop /\ tty.stop <= 2
      /\ tty.parity \in {"N", "O"} /\ tty.stop \in 1..3
      /\ rate \in 0..LastIndex /\ rate # 0 /\ rate # OffTable /\ rate \in 0..OffTable
  BY <1>1, HuntInvIs, NumbersAre DEF PortFollows, Device
<1>6. /\ u \in Terminals /\ u.tty.open /\ u.tty.saved = tty.saved
      /\ u.tty.parity = tty.parity /\ u.tty.stop = tty.stop /\ u.port.rate = rate
      /\ u.port.parity = tty.parity /\ u.port.stop = tty.stop
  BY <1>1, <1>3, <1>4, <1>5, SetSpeedIs
<1>7. port' = u.port /\ tty' = u.tty /\ port' \in Setting /\ tty' \in Device
  BY <1>1, <1>3, <1>6 DEF Becomes, Terminals
<1>8. receiver' \in Setting /\ receiver'.rate >= 1 /\ receiver'.stop <= 2
  <2>1. CASE obeyed /\ Tuned
    BY <1>1, <1>5, <2>1, HuntInvIs, NumbersAre DEF Setting
  <2>2. CASE ~(obeyed /\ Tuned)
    BY <1>1, <2>2, HuntInvIs, NumbersAre
  <2> QED BY <2>1, <2>2
<1> QED
  BY <1>1, <1>2, <1>5, <1>6, <1>7, <1>8, HuntInvIs DEF HuntInv, HuntTypeOK, PortFollows, NotPassed

LEMMA ReceiverMovesStep ==
  ASSUME HuntInv, NEW setting, setting \in Receivers, ReceiverMoves(setting)
  PROVE  HuntInv' /\ tty' = tty
<1>1. receiver' = setting /\ steady' = FALSE /\ UNCHANGED <<port, tty>>
  BY DEF ReceiverMoves
<1>2. spent' \in [noise : 0..MaxNoise, moves : 0..MaxMoves, releases : 0..MaxReleases]
  BY MovesAreTyped DEF ReceiverMoves
<1>3. setting \in Setting /\ setting.rate >= 1 /\ setting.stop <= 2
  <2>1. CASE setting \in [rate : 1..OffTable, parity : {"N"}, stop : 1..2]
    BY <2>1, NumbersAre DEF Setting
  <2>2. CASE setting = [rate |-> ProbeRate, parity |-> "O", stop |-> 1]
    BY <2>2, NumbersAre DEF Setting
  <2> QED BY <2>1, <2>2 DEF Receivers
<1> QED
  BY <1>1, <1>2, <1>3, HuntInvIs DEF HuntInv, HuntTypeOK, PortFollows, NotPassed

\* Every step keeps the invariant, closes a device that is not given up, or has a reason, and
\* opens one where it was.
GivesUpForAReason == tty.open /\ ~tty'.open /\ UNCHANGED spent => ~(steady /\ Huntable)
OpensAtItsSpeed ==
  ~tty.open /\ tty'.open /\ tty.saved # NoSpeed => port'.rate = tty.saved \/ port' = receiver

LEMMA HuntStep ==
  ASSUME HuntInv, [HuntNext]_huntVars
  PROVE  HuntInv' /\ GivesUpForAReason /\ OpensAtItsSpeed
<1>1. ASSUME NEW answered \in BOOLEAN, Open(answered)
      PROVE  HuntInv' /\ GivesUpForAReason /\ OpensAtItsSpeed
  <2>1. HuntInv' /\ tty'.open
    BY <1>1, OpenStep
  <2>2. OpensAtItsSpeed
    BY <1>1, OpenIs DEF OpensAtItsSpeed
  <2> QED BY <2>1, <2>2 DEF GivesUpForAReason
<1>2. ASSUME NEW outcome \in Outcomes, Poll(outcome)
      PROVE  HuntInv' /\ GivesUpForAReason /\ OpensAtItsSpeed
  <2>1. HuntInv' /\ (~tty'.open /\ UNCHANGED spent => ~(steady /\ Huntable))
    BY <1>2, PollStep
  <2>2. tty.open
    BY <1>2 DEF Poll
  <2> QED BY <2>1, <2>2 DEF GivesUpForAReason, OpensAtItsSpeed
<1>3. CASE Release
  <2>1. HuntInv' /\ spent' # spent /\ tty.open
    BY <1>3, ReleaseStep DEF Release
  <2> QED BY <2>1 DEF GivesUpForAReason, OpensAtItsSpeed
<1>4. ASSUME NEW rate \in 1..LastIndex, NEW obeyed \in BOOLEAN, ClientSets(rate, obeyed)
      PROVE  HuntInv' /\ GivesUpForAReason /\ OpensAtItsSpeed
  <2>1. HuntInv' /\ tty'.open
    BY <1>4, ClientSetsStep
  <2>2. tty.open
    BY <1>4 DEF ClientSets
  <2> QED BY <2>1, <2>2 DEF GivesUpForAReason, OpensAtItsSpeed
<1>5. ASSUME NEW setting \in Receivers, ReceiverMoves(setting)
      PROVE  HuntInv' /\ GivesUpForAReason /\ OpensAtItsSpeed
  <2>1. HuntInv' /\ tty' = tty
    BY <1>5, ReceiverMovesStep
  <2> QED BY <2>1 DEF GivesUpForAReason, OpensAtItsSpeed
<1>6. CASE UNCHANGED huntVars
  <2>1. UNCHANGED <<receiver, port, tty, spent, steady>>
    BY <1>6 DEF huntVars
  <2>2. HuntInv'
    BY <2>1, HuntInvIs
       DEF HuntInv, HuntTypeOK, PortFollows, NotPassed, Reachable, Tuned, Huntable
  <2> QED BY <2>1, <2>2 DEF GivesUpForAReason, OpensAtItsSpeed
<1> QED BY <1>1, <1>2, <1>3, <1>4, <1>5, <1>6 DEF HuntNext, Opens, Polls

\* A receiver of the table is given up only after a disturbance, and a device that was
\* identified is opened at the speed of that time (serial.c 434-441, 501-549, libgpsd_core.c
\* 857-881).
THEOREM HuntPatient == HuntSpec => HuntIsPatient
<1>1. HuntInv /\ [HuntNext]_huntVars => HuntInv'
  BY HuntStep
<1>2. HuntInv /\ [HuntNext]_huntVars => [GivesUpForAReason]_huntVars /\ [OpensAtItsSpeed]_huntVars
  BY HuntStep
<1>3. HuntInv => HuntTypeOK
  BY DEF HuntInv
<1>4. HuntSpec => []HuntTypeOK /\ [][GivesUpForAReason]_huntVars /\ [][OpensAtItsSpeed]_huntVars
  BY <1>1, <1>2, <1>3, HuntInitInv, PTL DEF HuntSpec
<1> QED BY <1>4 DEF HuntIsPatient, FailsForAReason, OpensWhereItWas, GivesUpForAReason, OpensAtItsSpeed

-----------------------------------------------------------------------------
(* Numbers. *)

\* A set of numbers that is not empty has a least one: the least of the intervals from 0.
LEMMA HasLeast ==
  ASSUME NEW T \in SUBSET Nat, T # {}
  PROVE  \E x \in T : \A y \in T : x <= y
<1> DEFINE R == StrictSubsetOrdering(Nat)
           I == {0..x : x \in T}
<1>1. IsWellFoundedOn(R, FiniteSubsetsOf(Nat))
  BY FS_StrictSubsetOrderingWellFounded
<1>2. I \subseteq FiniteSubsetsOf(Nat) /\ I # {}
  <2>1. \A x \in T : 0..x \in SUBSET Nat /\ IsFiniteSet(0..x)
    BY FS_Interval
  <2>2. \A x \in T : 0..x \in FiniteSubsetsOf(Nat)
    BY <2>1 DEF FiniteSubsetsOf
  <2> QED
    BY <2>2
<1>3. PICK i \in I : \A j \in I : <<j, i>> \notin R
  <2> HIDE DEF I, R
  <2> QED BY <1>1, <1>2, WFMin
<1>4. PICK x \in T : i = 0..x
  OBVIOUS
<1>5. ASSUME NEW y \in T, y < x PROVE FALSE
  <2>1. 0..y \in I /\ 0..y \subseteq 0..x /\ x \in 0..x /\ x \notin 0..y
    BY <1>5
  <2>2. <<0..y, 0..x>> \in R
    BY <2>1 DEF StrictSubsetOrdering
  <2> QED
    BY <1>3, <1>4, <2>1, <2>2
<1> QED
  BY <1>5

-----------------------------------------------------------------------------
(* The lines of a table and their pieces. *)

Names == Kinds \cup {"head", "end"}
Piece == Nat \X Names \X Nat

LEMMA LengthIs ==
  ASSUME NEW kind, kind \in Names
  PROVE  /\ LengthOf(kind) \in Nat /\ LengthOf(kind) > 0 /\ LengthOf("head") = 2
         /\ LengthOf(kind) > 2 => kind = "long"
         /\ kind = "long" => LengthOf(kind) > Blen
BY TableNumbers DEF LengthOf, Names, Kinds, Streams

LEMMA PieceIs ==
  ASSUME NEW x, x \in Piece
  PROVE  x[1] \in Nat /\ x[2] \in Names /\ x[3] \in Nat /\ x = <<x[1], x[2], x[3]>>
BY DEF Piece

LEMMA JoinIs ==
  ASSUME NEW S, NEW s, NEW t, s \in Seq(S), t \in Seq(S)
  PROVE  /\ s \o t \in Seq(S) /\ Len(s \o t) = Len(s) + Len(t)
         /\ Len(s) \in Nat /\ Len(t) \in Nat
         /\ \A i \in 1..Len(s) : (s \o t)[i] = s[i]
         /\ \A i \in (Len(s) + 1)..(Len(s) + Len(t)) : (s \o t)[i] = t[i - Len(s)]
OBVIOUS

\* The first i lines of ks in their pieces: lines follow each other, and the pieces of a line too.
FollowsOn(F) ==
  \A p, q \in 1..Len(F) : p <= q =>
    /\ F[p][1] <= F[q][1]
    /\ F[p][1] = F[q][1] => F[q][3] - F[p][3] = q - p
    /\ F[p][1] < F[q][1] => \E r \in p..(q - 1) : F[r][1] = F[p][1] /\ EndsLine(F[r])

\* A piece has its place in its line, which begins in F.
InPlace(F) ==
  \A p \in 1..Len(F) :
    /\ F[p][3] \in 1..LengthOf(F[p][2]) /\ F[p][3] <= p
    /\ F[p - F[p][3] + 1][1] = F[p][1]

HasLines(F, ks, i) ==
  /\ F \in Seq(Piece) /\ Len(F) >= 1
  /\ \A p \in 1..Len(F) : F[p][1] \in 1..i /\ F[p][2] = ks[F[p][1]]
  /\ FollowsOn(F) /\ InPlace(F)
  /\ F[1] = <<1, ks[1], 1>> /\ F[Len(F)] = <<i, ks[i], LengthOf(ks[i])>>

OfLine(ks, i) == [j \in 1..LengthOf(ks[i]) |-> <<i, ks[i], j>>]

LEMMA OfLineIs ==
  ASSUME NEW ks, ks \in Seq(Names), NEW i, i \in 1..Len(ks)
  PROVE  /\ OfLine(ks, i) \in Seq(Piece) /\ Len(OfLine(ks, i)) = LengthOf(ks[i])
         /\ LengthOf(ks[i]) \in Nat /\ LengthOf(ks[i]) >= 1 /\ ks[i] \in Names
         /\ \A j \in 1..LengthOf(ks[i]) : OfLine(ks, i)[j] = <<i, ks[i], j>>
<1>1. ks[i] \in Names /\ i \in Nat
  OBVIOUS
<1>2. LengthOf(ks[i]) \in Nat /\ LengthOf(ks[i]) >= 1
  BY <1>1, LengthIs
<1>3. \A j \in 1..LengthOf(ks[i]) : <<i, ks[i], j>> \in Piece
  BY <1>1, <1>2 DEF Piece
<1> QED BY <1>1, <1>2, <1>3 DEF OfLine

LEMMA OneLine ==
  ASSUME NEW ks, ks \in Seq(Names), Len(ks) >= 1
  PROVE  HasLines(OfLine(ks, 1), ks, 1)
<1>1. PICK F, k : F = OfLine(ks, 1) /\ k = LengthOf(ks[1])
  OBVIOUS
<1>2. /\ F \in Seq(Piece) /\ Len(F) = k /\ k \in Nat /\ k >= 1 /\ ks[1] \in Names
      /\ \A j \in 1..k : F[j] = <<1, ks[1], j>>
  BY <1>1, OfLineIs
<1>3. FollowsOn(F)
  BY <1>2 DEF FollowsOn
<1>4. InPlace(F)
  BY <1>1, <1>2 DEF InPlace
<1> QED BY <1>1, <1>2, <1>3, <1>4 DEF HasLines

LEMMA OneMoreLine ==
  ASSUME NEW ks, ks \in Seq(Names), NEW i, i \in 1..(Len(ks) - 1), NEW F, HasLines(F, ks, i)
  PROVE  HasLines(F \o OfLine(ks, i + 1), ks, i + 1)
<1>1. PICK G, k, H, m : G = OfLine(ks, i + 1) /\ k = LengthOf(ks[i + 1]) /\ H = F \o G /\ m = Len(F)
  OBVIOUS
<1>2. /\ G \in Seq(Piece) /\ Len(G) = k /\ k \in Nat /\ k >= 1 /\ ks[i + 1] \in Names
      /\ \A j \in 1..k : G[j] = <<i + 1, ks[i + 1], j>>
  <2>1. i + 1 \in 1..Len(ks)
    OBVIOUS
  <2> QED BY <1>1, <2>1, OfLineIs
<1>3. F \in Seq(Piece) /\ m \in Nat /\ m >= 1
  BY <1>1 DEF HasLines
<1>4. /\ H \in Seq(Piece) /\ Len(H) = m + k
      /\ \A p \in 1..m : H[p] = F[p]
      /\ \A p \in (m + 1)..(m + k) : H[p] = G[p - m]
  <2>1. /\ F \o G \in Seq(Piece) /\ Len(F \o G) = Len(F) + Len(G)
        /\ \A p \in 1..Len(F) : (F \o G)[p] = F[p]
        /\ \A p \in (Len(F) + 1)..(Len(F) + Len(G)) : (F \o G)[p] = G[p - Len(F)]
    <3>1. F \in Seq(Piece) /\ G \in Seq(Piece)
      BY <1>2, <1>3
    <3> QED BY ONLY <3>1, JoinIs
  <2>2. H = F \o G /\ Len(F) = m /\ Len(G) = k
    BY <1>1, <1>2
  <2> QED BY ONLY <2>1, <2>2
<1>5. /\ \A p \in 1..m : H[p] = F[p]
      /\ \A p \in (m + 1)..(m + k) : H[p] = <<i + 1, ks[i + 1], p - m>>
  <2>1. ASSUME NEW p \in 1..m PROVE H[p] = F[p]
    BY <1>4
  <2>2. ASSUME NEW p \in (m + 1)..(m + k) PROVE H[p] = <<i + 1, ks[i + 1], p - m>>
    <3>1. H[p] = G[p - m] /\ p - m \in 1..k
      BY <1>2, <1>3, <1>4, m \in Nat, k \in Nat
    <3> QED BY <3>1, <1>2
  <2> QED BY <2>1, <2>2
<1>n. m \in Nat /\ m >= 1 /\ k \in Nat /\ k >= 1 /\ i \in Nat
  BY <1>2, <1>3
<1>6. \A p \in 1..m : F[p][1] \in 1..i /\ F[p][2] = ks[F[p][1]] /\ F[p][3] \in Nat
  BY <1>1, <1>3, PieceIs DEF HasLines
<1>7. \A p \in 1..(m + k) : H[p][1] \in 1..(i + 1) /\ H[p][2] = ks[H[p][1]] /\ H[p][3] \in Int
  <2> SUFFICES ASSUME NEW p \in 1..(m + k)
               PROVE  H[p][1] \in 1..(i + 1) /\ H[p][2] = ks[H[p][1]] /\ H[p][3] \in Int
    OBVIOUS
  <2>1. CASE p <= m
    <3>1. p \in 1..m
      BY <2>1, <1>3
    <3> QED BY <3>1, <1>5, <1>6
  <2>2. CASE p > m
    <3>1. H[p] = <<i + 1, ks[i + 1], p - m>>
      BY <2>2, <1>2, <1>3, <1>5
    <3> QED BY <3>1, <1>3
  <2> QED BY <2>1, <2>2, <1>3
<1>8. F[m] = <<i, ks[i], LengthOf(ks[i])>> /\ F[1] = <<1, ks[1], 1>>
  BY <1>1 DEF HasLines
<1>9. FollowsOn(H)
  <2> SUFFICES ASSUME NEW p \in 1..(m + k), NEW q \in 1..(m + k), p <= q
               PROVE  /\ H[p][1] <= H[q][1]
                      /\ H[p][1] = H[q][1] => H[q][3] - H[p][3] = q - p
                      /\ H[p][1] < H[q][1] =>
                           \E r \in p..(q - 1) : H[r][1] = H[p][1] /\ EndsLine(H[r])
    BY <1>4 DEF FollowsOn
  <2>1. CASE q <= m
    <3>1. /\ p \in 1..m /\ q \in 1..m /\ H[p] = F[p] /\ H[q] = F[q]
          /\ \A r \in p..(q - 1) : H[r] = F[r]
      <4>1. p \in 1..m /\ q \in 1..m /\ \A r \in p..(q - 1) : r \in 1..m
        BY <2>1, <1>n
      <4> QED BY ONLY <4>1, <1>5
    <3>2. /\ F[p][1] <= F[q][1]
          /\ F[p][1] = F[q][1] => F[q][3] - F[p][3] = q - p
          /\ F[p][1] < F[q][1] => \E r \in p..(q - 1) : F[r][1] = F[p][1] /\ EndsLine(F[r])
      BY <3>1, <1>1 DEF HasLines, FollowsOn
    <3> QED BY <3>1, <3>2
  <2>2. CASE p > m
    <3>1. H[p] = <<i + 1, ks[i + 1], p - m>> /\ H[q] = <<i + 1, ks[i + 1], q - m>>
      <4>1. p \in (m + 1)..(m + k) /\ q \in (m + 1)..(m + k)
        BY <2>2, <1>n
      <4> QED BY ONLY <4>1, <1>5
    <3> QED BY <3>1, <1>n
  <2>3. CASE p <= m /\ q > m
    <3>1. /\ H[q] = <<i + 1, ks[i + 1], q - m>> /\ H[p] = F[p] /\ F[p][1] \in 1..i
          /\ H[m] = F[m] /\ p \in 1..m /\ m \in 1..m
      <4>1. q \in (m + 1)..(m + k) /\ p \in 1..m /\ m \in 1..m
        BY <2>3, <1>n
      <4> QED BY ONLY <4>1, <1>5, <1>6
    <3>2. EndsLine(F[m]) /\ F[m][1] = i /\ m \in p..(q - 1)
      BY <1>3, <1>8, <2>3 DEF EndsLine, KindOf
    <3>3. CASE F[p][1] = i
      BY <3>1, <3>2, <3>3
    <3>4. CASE F[p][1] < i
      <4>1. PICK r \in p..(m - 1) : F[r][1] = F[p][1] /\ EndsLine(F[r])
        <5>1. p \in 1..Len(F) /\ Len(F) \in 1..Len(F) /\ p <= Len(F) /\ F[p][1] < F[Len(F)][1]
          BY <3>1, <3>2, <3>4, <1>n, <1>1, <2>3
        <5> QED BY <5>1, <1>1, <1>n DEF HasLines, FollowsOn
      <4>2. H[r] = F[r] /\ r \in p..(q - 1)
        <5>1. r \in 1..m /\ r \in p..(q - 1)
          BY <3>1, <2>3, <1>n
        <5> QED BY ONLY <5>1, <1>5
      <4> QED BY <3>1, <3>2, <3>4, <4>1, <4>2
    <3> QED BY <3>1, <3>3, <3>4
  <2> QED BY <2>1, <2>2, <2>3, <1>3
<1>10. InPlace(H)
  <2> SUFFICES ASSUME NEW p \in 1..(m + k)
               PROVE  /\ H[p][3] \in 1..LengthOf(H[p][2]) /\ H[p][3] <= p
                      /\ H[p - H[p][3] + 1][1] = H[p][1]
    BY <1>4 DEF InPlace
  <2>1. CASE p <= m
    <3>1. /\ F[p][3] \in 1..LengthOf(F[p][2]) /\ F[p][3] <= p
          /\ F[p - F[p][3] + 1][1] = F[p][1] /\ p \in 1..m
      BY <2>1, <1>1, <1>3 DEF HasLines, InPlace
    <3>2. p - F[p][3] + 1 \in 1..m
      <4>1. F[p][3] \in Nat /\ F[p][3] >= 1
        <5>1. F[p] \in Piece
          BY <3>1, <1>3, <1>1
        <5> QED BY <3>1, <5>1, PieceIs, LengthIs
      <4>2. p \in Nat /\ p <= m /\ m \in Nat
        BY <2>1, <3>1, <1>3
      <4> QED BY <3>1, <4>1, <4>2
    <3> QED BY <3>1, <3>2, <1>5
  <2>2. CASE p > m
    <3>1. p \in (m + 1)..(m + k) /\ m + 1 \in (m + 1)..(m + k)
      BY <2>2, <1>2, <1>3
    <3>2. H[p] = <<i + 1, ks[i + 1], p - m>> /\ H[m + 1][1] = i + 1
      <4>1. H[p] = <<i + 1, ks[i + 1], p - m>>
        BY ONLY <3>1, <1>5
      <4>2. PICK j : j = m + 1
        OBVIOUS
      <4>3. j \in (m + 1)..(m + k)
        BY ONLY <3>1, <4>2
      <4>4. H[j] = <<i + 1, ks[i + 1], j - m>>
        BY ONLY <4>3, <1>5
      <4>5. H[j][1] = i + 1
        BY ONLY <4>4
      <4>6. H[m + 1][1] = i + 1
        BY ONLY <4>2, <4>5
      <4> QED BY ONLY <4>1, <4>6
    <3>3. p - (p - m) + 1 = m + 1 /\ p - m \in 1..k /\ p - m <= p
      BY <3>1, <1>3, <1>2
    <3>4. H[p][1] = i + 1 /\ H[p][2] = ks[i + 1] /\ H[p][3] = p - m /\ H[m + 1][1] = i + 1
      BY <3>2
    <3>5. p - H[p][3] + 1 = m + 1
      BY <3>3, <3>4
    <3> QED BY <3>3, <3>4, <3>5, <1>1
  <2> QED BY <2>1, <2>2, <1>3
<1>11. H[1] = <<1, ks[1], 1>> /\ H[m + k] = <<i + 1, ks[i + 1], k>>
  <2>1. PICK j : j = m + k
    OBVIOUS
  <2>2. 1 \in 1..m /\ j \in (m + 1)..(m + k) /\ j - m = k
    BY <1>n, <2>1
  <2>3. H[1] = F[1]
    BY ONLY <2>2, <1>5
  <2>4. H[j] = <<i + 1, ks[i + 1], j - m>>
    BY ONLY <2>2, <1>5
  <2> QED BY ONLY <2>1, <2>2, <2>3, <2>4, <1>8
<1>12. Len(H) >= 1 /\ \A p \in 1..Len(H) : H[p][1] \in 1..(i + 1) /\ H[p][2] = ks[H[p][1]]
  BY <1>2, <1>3, <1>4, <1>7
<1> QED BY <1>1, <1>4, <1>9, <1>10, <1>11, <1>12 DEF HasLines

\* The pieces of the lines up to i, as FlattenSeq puts them together.
Joined(f, ks, i) == IF i = 1 THEN OfLine(ks, 1) ELSE f[i - 1] \o OfLine(ks, i)
Joins(f, ks, m) == f = [i \in 1..m |-> Joined(f, ks, i)]

LEMMA JoinsExists ==
  ASSUME NEW ks, NEW m, m \in Nat
  PROVE  \E f : Joins(f, ks, m)
<1> DEFINE T == {k \in Nat : ~ \E f : Joins(f, ks, k)}
<1> SUFFICES ASSUME T # {} PROVE FALSE
  OBVIOUS
<1>1. PICK k \in T : \A j \in T : k <= j
  BY HasLeast
<1>2. k # 0
  <2>1. PICK f : f = [i \in 1..0 |-> OfLine(ks, 1)]
    OBVIOUS
  <2>2. Joins(f, ks, 0)
    BY <2>1 DEF Joins
  <2> QED BY <2>2
<1>3. k \in Nat /\ k - 1 \in Nat /\ k - 1 \notin T
  BY <1>1, <1>2
<1>4. PICK f : Joins(f, ks, k - 1)
  BY <1>3
<1>5. PICK g : g = [i \in 1..k |-> Joined(f, ks, i)]
  OBVIOUS
<1>6. \A i \in 1..(k - 1) : f[i] = Joined(f, ks, i)
  BY <1>4 DEF Joins
<1>7. \A i \in 1..(k - 1) : g[i] = f[i]
  BY <1>3, <1>5, <1>6
<1>8. ASSUME NEW i \in 1..k PROVE Joined(f, ks, i) = Joined(g, ks, i)
  <2>1. i = 1 \/ i - 1 \in 1..(k - 1)
    BY <1>3
  <2> QED BY <1>7, <2>1 DEF Joined
<1>9. Joins(g, ks, k)
  BY <1>5, <1>8 DEF Joins
<1> QED BY <1>1, <1>9

LEMMA PiecesAre ==
  ASSUME NEW ks, ks \in Seq(Names), Len(ks) >= 1
  PROVE  HasLines(Pieces(ks), ks, Len(ks))
<1> DEFINE s == [i \in DOMAIN ks |-> [j \in 1..LengthOf(ks[i]) |-> <<i, ks[i], j>>]]
           n == Len(ks)
<1>1. n \in Nat /\ n >= 1 /\ DOMAIN ks = 1..n
  OBVIOUS
<1>2. s = [i \in 1..n |-> OfLine(ks, i)] /\ Len(s) = n
  <2>1. s = [i \in 1..n |-> OfLine(ks, i)]
    BY <1>1 DEF OfLine
  <2> QED BY <1>1, <2>1
<1>3. Pieces(ks) = FlattenSeq(s)
  BY DEF Pieces
<1> HIDE DEF s, n
<1> DEFINE g == CHOOSE g : g = [i \in 1..Len(s) |-> IF i = 1 THEN s[i] ELSE g[i - 1] \o s[i]]
<1>4. Pieces(ks) = g[Len(s)]
  BY <1>1, <1>2, <1>3 DEF FlattenSeq
<1>5. \E f : f = [i \in 1..Len(s) |-> IF i = 1 THEN s[i] ELSE f[i - 1] \o s[i]]
  <2>1. PICK f : Joins(f, ks, n)
    BY <1>1, JoinsExists
  <2>2. ASSUME NEW i \in 1..n
        PROVE  Joined(f, ks, i) = IF i = 1 THEN s[i] ELSE f[i - 1] \o s[i]
    BY <1>1, <1>2 DEF Joined
  <2>3. f = [i \in 1..n |-> Joined(f, ks, i)]
    BY <2>1 DEF Joins
  <2>4. [i \in 1..n |-> Joined(f, ks, i)]
          = [i \in 1..n |-> IF i = 1 THEN s[i] ELSE f[i - 1] \o s[i]]
    BY <2>2
  <2>5. f = [i \in 1..n |-> IF i = 1 THEN s[i] ELSE f[i - 1] \o s[i]]
    BY ONLY <2>3, <2>4
  <2>6. Len(s) = n
    BY <1>2
  <2> QED BY ONLY <2>5, <2>6
<1>6. g = [i \in 1..Len(s) |-> IF i = 1 THEN s[i] ELSE g[i - 1] \o s[i]]
  BY <1>5
<1> HIDE DEF g
<1>7. /\ g[1] = OfLine(ks, 1)
      /\ \A i \in 1..(n - 1) : g[i + 1] = g[i] \o OfLine(ks, i + 1)
  <2>1. \A i \in 1..n : g[i] = IF i = 1 THEN s[i] ELSE g[i - 1] \o s[i]
    BY <1>2, <1>6
  <2>2. ASSUME NEW i \in 1..(n - 1) PROVE g[i + 1] = g[i] \o OfLine(ks, i + 1)
    <3>1. PICK j : j = i + 1
      OBVIOUS
    <3>2. j \in 1..n /\ j # 1 /\ j - 1 = i
      BY <1>1, <3>1
    <3>3. g[j] = g[j - 1] \o s[j] /\ s[j] = OfLine(ks, j)
      BY <1>2, <2>1, <3>2
    <3> QED BY <3>1, <3>2, <3>3
  <2>3. 1 \in 1..n
    BY <1>1
  <2>4. g[1] = OfLine(ks, 1)
    BY <2>1, <2>3, <1>2
  <2> QED BY ONLY <2>2, <2>4
<1> DEFINE T == {k \in Nat : k \in 1..n /\ ~HasLines(g[k], ks, k)}
<1>8. T = {}
  <2> SUFFICES ASSUME T # {} PROVE FALSE
    OBVIOUS
  <2>1. PICK k \in T : \A j \in T : k <= j
    BY HasLeast
  <2>2. k # 1
    BY <2>1, <1>1, <1>7, OneLine DEF n
  <2>3. k - 1 \in 1..(n - 1) /\ k - 1 + 1 = k /\ k - 1 \notin T /\ k - 1 \in Nat /\ k - 1 \in 1..n
    BY <1>1, <2>1, <2>2
  <2>4. HasLines(g[k - 1], ks, k - 1)
    BY <2>3
  <2>5. HasLines(g[k], ks, k)
    BY <1>7, <2>3, <2>4, OneMoreLine DEF n
  <2> QED BY <2>1, <2>5
<1> QED BY <1>1, <1>2, <1>4, <1>8 DEF n

\* A table as the caster sends it: whole lines, of which the first is the head and the last the end.
WellCut(T) ==
  /\ T \in Seq(Piece) /\ FollowsOn(T) /\ InPlace(T)
  /\ \A p, q \in 1..Len(T) : T[p][1] = T[q][1] => T[p][2] = T[q][2]
  /\ Len(T) > 2 /\ T[1] = <<1, "head", 1>> /\ T[2] = <<1, "head", 2>>
  /\ T[Len(T)][2] = "end" /\ EndsLine(T[Len(T)])
  /\ \A p \in 1..Len(T) : /\ T[p][2] = "end" => T[p][1] = T[Len(T)][1]
                          /\ T[p][2] = "head" => T[p][1] = 1

LEMMA TablesAreWellCut ==
  ASSUME NEW n, n \in Nat, NEW ls, ls \in [1..n -> Kinds]
  PROVE  WellCut(Pieces(<<"head">> \o ls \o <<"end">>))
<1>1. PICK ks, T : ks = <<"head">> \o ls \o <<"end">> /\ T = Pieces(ks)
  OBVIOUS
<1>2. /\ ks \in Seq(Names) /\ Len(ks) = n + 2 /\ ks[1] = "head" /\ ks[n + 2] = "end"
      /\ \A i \in 2..(n + 1) : ks[i] \in Kinds
  <2>1. <<"head">> \in Seq(Names) /\ ls \in Seq(Names) /\ <<"end">> \in Seq(Names) /\ Len(ls) = n
    BY DEF Names
  <2>2. PICK h : h = <<"head">> \o ls
    OBVIOUS
  <2>3. /\ h \in Seq(Names) /\ Len(h) = 1 + n /\ h[1] = "head"
        /\ \A i \in 2..(1 + n) : h[i] = ls[i - 1]
    <3>1. h \in Seq(Names) /\ Len(h) = Len(<<"head">>) + Len(ls)
      BY <2>1, <2>2, JoinIs
    <3>2. /\ \A i \in 1..Len(<<"head">>) : h[i] = <<"head">>[i]
          /\ \A i \in (Len(<<"head">>) + 1)..(Len(<<"head">>) + Len(ls)) : h[i] = ls[i - Len(<<"head">>)]
      BY ONLY <2>1, <2>2, JoinIs
    <3> QED BY <2>1, <3>1, <3>2
  <2>4. ks = h \o <<"end">>
    BY <1>1, <2>2
  <2>5. ks \in Seq(Names) /\ Len(ks) = Len(h) + Len(<<"end">>)
    BY <2>1, <2>3, <2>4, JoinIs
  <2>6. /\ \A i \in 1..Len(h) : ks[i] = h[i]
        /\ \A i \in (Len(h) + 1)..(Len(h) + Len(<<"end">>)) : ks[i] = <<"end">>[i - Len(h)]
    <3>1. h \in Seq(Names) /\ <<"end">> \in Seq(Names)
      BY <2>1, <2>3
    <3> QED BY ONLY <2>4, <3>1, JoinIs
  <2>7. ASSUME NEW i \in 2..(n + 1) PROVE ks[i] \in Kinds
    <3>1. ks[i] = ls[i - 1] /\ i - 1 \in 1..n
      BY <2>3, <2>6
    <3> QED BY <3>1
  <2> QED BY <2>3, <2>5, <2>6, <2>7
<1>3. HasLines(T, ks, n + 2)
  <2>1. ks \in Seq(Names) /\ Len(ks) >= 1 /\ Len(ks) = n + 2
    BY <1>2
  <2>2. HasLines(Pieces(ks), ks, Len(ks))
    BY ONLY <2>1, PiecesAre
  <2> QED BY <1>1, <2>1, <2>2
<1>4. PICK N : N = Len(T)
  OBVIOUS
<1>5. /\ T \in Seq(Piece) /\ N \in Nat /\ N >= 1 /\ FollowsOn(T) /\ InPlace(T)
      /\ \A p \in 1..N : T[p][1] \in 1..(n + 2) /\ T[p][2] = ks[T[p][1]]
      /\ T[1] = <<1, "head", 1>> /\ T[N] = <<n + 2, "end", LengthOf("end")>>
  BY <1>2, <1>3, <1>4 DEF HasLines
<1>6. \A i \in 1..(n + 2) : (ks[i] = "head" => i = 1) /\ (ks[i] = "end" => i = n + 2)
  <2>1. \A i \in 1..(n + 2) : i = 1 \/ i = n + 2 \/ i \in 2..(n + 1)
    OBVIOUS
  <2>2. "head" \notin Kinds /\ "end" \notin Kinds
    BY DEF Kinds, Streams
  <2> QED BY <1>2, <2>1, <2>2
<1>7. N >= 2 /\ T[2] = <<1, "head", 2>>
  <2>1. ~EndsLine(T[1]) /\ T[1][1] = 1 /\ T[1][3] = 1
    BY <1>5, LengthIs DEF EndsLine, KindOf, Names
  <2>2. N # 1
    BY <1>5
  <2>3. 2 \in 1..N /\ 1 \in 1..N /\ 1..(2 - 1) = {1}
    BY <1>5, <2>2
  <2>4. ~(T[1][1] < T[2][1]) /\ T[1][1] <= T[2][1]
    <3>1. 1 \in 1..Len(T) /\ 2 \in 1..Len(T) /\ FollowsOn(T) /\ 1 <= 2
      BY <1>4, <1>5, <2>3
    <3>2. /\ T[1][1] <= T[2][1]
          /\ T[1][1] < T[2][1] => \E r \in 1..(2 - 1) : T[r][1] = T[1][1] /\ EndsLine(T[r])
      BY ONLY <3>1 DEF FollowsOn
    <3> QED BY <2>1, <2>3, <3>2
  <2>5. T[2][1] = 1
    BY <1>5, <2>1, <2>3, <2>4
  <2>6. T[2][3] - T[1][3] = 2 - 1
    <3>1. 1 \in 1..Len(T) /\ 2 \in 1..Len(T) /\ FollowsOn(T) /\ 1 <= 2 /\ T[1][1] = T[2][1]
      BY <1>4, <1>5, <2>1, <2>3, <2>5
    <3> QED BY ONLY <3>1 DEF FollowsOn
  <2>7. T[2] \in Piece
    BY <1>4, <1>5, <2>3
  <2>8. T[2][2] = "head" /\ T[2][3] = 2
    <3>1. T[2][3] \in Nat /\ T[1][3] = 1 /\ T[1][1] = 1
      BY <1>5, <2>7, PieceIs
    <3>2. T[2][3] = 2
      BY ONLY <3>1, <2>6
    <3>3. T[2][2] = ks[1]
      BY <1>5, <2>3, <2>5
    <3> QED BY <1>2, <3>2, <3>3
  <2> QED BY <1>5, <2>2, <2>5, <2>7, <2>8, PieceIs
<1>8. N > 2 /\ EndsLine(T[N])
  <2>1. N # 2
    BY <1>5, <1>7
  <2> QED BY <1>5, <1>7, <2>1 DEF EndsLine, KindOf
<1>9. \A p \in 1..N : (T[p][2] = "end" => T[p][1] = T[N][1]) /\ (T[p][2] = "head" => T[p][1] = 1)
  <2> SUFFICES ASSUME NEW p \in 1..N
               PROVE  (T[p][2] = "end" => T[p][1] = T[N][1]) /\ (T[p][2] = "head" => T[p][1] = 1)
    OBVIOUS
  <2>1. T[p][1] \in 1..(n + 2) /\ T[p][2] = ks[T[p][1]] /\ T[N][1] = n + 2
    BY <1>5
  <2> QED BY <1>6, <2>1
<1>10. \A p, q \in 1..N : T[p][1] = T[q][1] => T[p][2] = T[q][2]
  <2>1. \A p \in 1..N : T[p][2] = ks[T[p][1]]
    BY <1>5
  <2> QED BY ONLY <2>1
<1>11. T[N][2] = "end"
  <2>1. T[N] = <<n + 2, "end", LengthOf("end")>>
    BY <1>5
  <2> QED BY ONLY <2>1
<1>12. WellCut(T)
  BY <1>4, <1>5, <1>7, <1>8, <1>9, <1>10, <1>11 DEF WellCut
<1> QED BY <1>1, <1>12

\* Within a line no piece but the last ends it, and none but the first begins it.
LEMMA WithinALine ==
  ASSUME NEW T, WellCut(T), NEW p \in 1..Len(T), NEW q \in 1..Len(T), p < q, T[p][1] = T[q][1]
  PROVE  ~EndsLine(T[p]) /\ ~BeginsLine(T[q])
<1>1. T[p] \in Piece /\ T[q] \in Piece /\ T[p][2] = T[q][2] /\ p \in Nat /\ q \in Nat
  BY DEF WellCut
<1>2. T[q][3] - T[p][3] = q - p
  BY DEF WellCut, FollowsOn
<1>3. T[p][3] \in 1..LengthOf(T[p][2]) /\ T[q][3] \in 1..LengthOf(T[q][2])
  BY DEF WellCut, InPlace
<1>4. LengthOf(T[p][2]) \in Nat /\ T[p][3] \in Nat /\ T[q][3] \in Nat
  BY <1>1, PieceIs, LengthIs
<1>5. p < q /\ p \in Nat /\ q \in Nat
  BY <1>1
<1>6. T[p][3] < LengthOf(T[q][2]) /\ T[q][3] > 1
  <2>1. T[p][3] >= 1 /\ T[q][3] <= LengthOf(T[q][2]) /\ LengthOf(T[q][2]) \in Nat
    BY <1>1, <1>3, <1>4
  <2>2. PICK x, y, l : x = T[p][3] /\ y = T[q][3] /\ l = LengthOf(T[q][2])
    OBVIOUS
  <2>3. y - x = q - p /\ x \in Nat /\ y \in Nat /\ l \in Nat /\ x >= 1 /\ y <= l
    BY ONLY <1>2, <1>4, <2>1, <2>2
  <2>4. x < l /\ y > 1
    BY ONLY <1>5, <2>3
  <2> QED BY ONLY <2>2, <2>4
<1>7. T[p][3] # LengthOf(T[p][2]) /\ T[q][3] # 1
  BY ONLY <1>1, <1>4, <1>6
<1> QED BY <1>7 DEF EndsLine, BeginsLine, KindOf

LEMMA SameLine ==
  ASSUME NEW T, WellCut(T), NEW p \in 1..Len(T), NEW q \in 1..Len(T), p <= q,
         \A r \in p..(q - 1) : ~EndsLine(T[r])
  PROVE  T[p][1] = T[q][1] /\ T[p][2] = T[q][2]
<1>1. T[p] \in Piece /\ T[q] \in Piece
  BY DEF WellCut
<1>2. T[p][1] <= T[q][1] /\ ~(T[p][1] < T[q][1])
  BY DEF WellCut, FollowsOn
<1>3. T[p][1] = T[q][1]
  BY <1>1, <1>2, PieceIs
<1> QED BY <1>3 DEF WellCut

\* Between two pieces of a line there are only pieces of it.
LEMMA Between ==
  ASSUME NEW T, WellCut(T), NEW p \in 1..Len(T), NEW q \in 1..Len(T), NEW r \in p..q,
         T[p][1] = T[q][1]
  PROVE  T[r][1] = T[p][1] /\ T[r][2] = T[p][2]
<1>1. T \in Seq(Piece) /\ r \in 1..Len(T) /\ p <= r /\ r <= q
  BY DEF WellCut
<1>2. T[p] \in Piece /\ T[q] \in Piece /\ T[r] \in Piece
  BY <1>1
<1>3. T[p][1] <= T[r][1] /\ T[r][1] <= T[q][1]
  BY <1>1 DEF WellCut, FollowsOn
<1>4. T[r][1] = T[p][1]
  BY <1>2, <1>3, PieceIs
<1> QED BY <1>1, <1>4 DEF WellCut

\* Where the line of a piece begins.
StartOf(T, p) == p - T[p][3] + 1

LEMMA LineStarts ==
  ASSUME NEW T, WellCut(T), NEW p \in 1..Len(T), NEW s, s = StartOf(T, p)
  PROVE  /\ s \in 1..p /\ s \in 1..Len(T) /\ T[s][1] = T[p][1] /\ T[s][2] = T[p][2]
         /\ BeginsLine(T[s]) /\ (s > 1 => EndsLine(T[s - 1]))
<1>1. T \in Seq(Piece) /\ T[p] \in Piece /\ p \in Nat /\ Len(T) \in Nat /\ p <= Len(T)
  BY DEF WellCut
<1>2. T[p][3] \in 1..LengthOf(T[p][2]) /\ T[p][3] <= p /\ T[s][1] = T[p][1]
  BY DEF WellCut, InPlace, StartOf
<1>3. T[p][3] \in Nat /\ T[p][3] >= 1
  BY <1>1, <1>2, PieceIs, LengthIs
<1>4. s \in 1..p /\ s \in 1..Len(T) /\ p - s = T[p][3] - 1
  BY <1>1, <1>2, <1>3 DEF StartOf
<1>5. T[s] \in Piece
  BY <1>1, <1>4
<1>6. T[p][3] - T[s][3] = p - s
  <2>1. /\ FollowsOn(T) /\ s \in 1..Len(T) /\ p \in 1..Len(T) /\ s <= p
        /\ T[s][1] = T[p][1]
    BY <1>1, <1>2, <1>4 DEF WellCut
  <2> QED BY ONLY <2>1 DEF FollowsOn
<1>7. T[s][2] = T[p][2]
  BY <1>2, <1>4 DEF WellCut
<1>8. BeginsLine(T[s])
  <2>1. T[s][3] \in Nat
    BY <1>5, PieceIs
  <2>2. T[s][3] = 1
    BY ONLY <1>3, <1>4, <1>6, <2>1
  <2> QED BY <2>2 DEF BeginsLine
<1>9. ASSUME s > 1 PROVE EndsLine(T[s - 1])
  <2>1. s - 1 \in 1..Len(T) /\ s - 1 < s /\ (s - 1)..(s - 1) = {s - 1}
    BY <1>4, <1>9
  <2>2. T[s - 1][1] # T[s][1]
    BY <1>4, <1>8, <2>1, WithinALine
  <2> QED BY <1>4, <2>1, <2>2, SameLine
<1> QED BY <1>2, <1>4, <1>7, <1>8, <1>9

LEMMA NextBegins ==
  ASSUME NEW T, WellCut(T), NEW p, p \in 1..(Len(T) - 1), EndsLine(T[p])
  PROVE  BeginsLine(T[p + 1])
<1>1. PICK q, s : q = p + 1 /\ s = StartOf(T, p + 1)
  OBVIOUS
<1>2. p \in 1..Len(T) /\ q \in 1..Len(T) /\ p < q
  BY <1>1 DEF WellCut
<1>3. s \in 1..q /\ T[s][1] = T[q][1] /\ BeginsLine(T[s]) /\ s \in 1..Len(T)
  BY <1>1, <1>2, LineStarts
<1>4. ~(s <= p)
  <2> SUFFICES ASSUME s <= p PROVE FALSE
    OBVIOUS
  <2>1. p \in s..q
    BY <1>1, <1>2, <1>3
  <2>2. T[p][1] = T[s][1]
    BY <1>2, <1>3, <2>1, Between
  <2> QED BY <1>2, <1>3, <2>2, WithinALine
<1>5. s = q
  BY <1>1, <1>2, <1>3, <1>4
<1> QED BY <1>1, <1>3, <1>5

-----------------------------------------------------------------------------
(* What one read does with the lines in the buffer. *)

LEMMA EndIs ==
  ASSUME NEW buf, buf \in Seq(Piece), NEW p, p \in 1..Len(buf), NEW e, e = EndOf(buf, p)
  PROVE  /\ e \in p..(Len(buf) + 1)
         /\ e <= Len(buf) => EndsLine(buf[e])
         /\ \A r \in p..(e - 1) : ~EndsLine(buf[r])
<1> DEFINE ends == {q \in p..Len(buf) : EndsLine(buf[q])}
<1>1. e = IF ends = {} THEN Len(buf) + 1 ELSE CHOOSE q \in ends : \A r \in ends : q <= r
  BY DEF EndOf
<1>2. p \in Nat /\ Len(buf) \in Nat /\ p <= Len(buf)
  OBVIOUS
<1>3. CASE ends = {}
  <2>1. e = Len(buf) + 1
    BY <1>1, <1>3
  <2> QED BY <1>2, <1>3, <2>1
<1>4. CASE ends # {}
  <2>1. ends \in SUBSET Nat
    BY <1>2
  <2>2. \E q \in ends : \A r \in ends : q <= r
    BY <1>4, <2>1, HasLeast
  <2>3. e \in ends /\ \A r \in ends : e <= r
    BY <1>1, <1>4, <2>2
  <2>4. ASSUME NEW r \in p..(e - 1) PROVE ~EndsLine(buf[r])
    <3>1. r \in p..Len(buf) /\ ~(e <= r)
      BY <1>2, <2>3
    <3> QED BY <2>3, <3>1
  <2> QED BY <1>2, <2>3, <2>4
<1> QED BY <1>3, <1>4

LEMMA LatestIs ==
  ASSUME NEW n, n \in Nat, NEW S, S \subseteq 1..n, S # {}
  PROVE  Latest(S) \in S /\ \A q \in S : Latest(S) >= q
<1> DEFINE T == {n - x : x \in S}
<1>1. T \in SUBSET Nat /\ T # {}
  <2>1. \A x \in S : n - x \in Nat
    OBVIOUS
  <2> QED BY <2>1
<1>2. PICK t \in T : \A u \in T : t <= u
  BY <1>1, HasLeast
<1>3. PICK x \in S : t = n - x
  BY <1>2
<1>4. \A q \in S : x >= q
  <2> SUFFICES ASSUME NEW q \in S PROVE x >= q
    OBVIOUS
  <2>1. n - q \in T
    OBVIOUS
  <2>2. n - x <= n - q
    BY <1>2, <1>3, <2>1
  <2>3. x \in Nat /\ q \in Nat
    OBVIOUS
  <2> QED BY <2>2, <2>3
<1> QED BY <1>4 DEF Latest

\* A line before another start is whole.
LEMMA WholeBefore ==
  ASSUME NEW buf, buf \in Seq(Piece), NEW p \in Starts(buf), NEW q \in Starts(buf), p < q
  PROVE  IsWhole(buf, p) /\ EndOf(buf, p) < q
<1>1. p \in 1..Len(buf) /\ q \in 1..Len(buf) /\ EndsLine(buf[q - 1])
  BY DEF Starts
<1>2. PICK e : e = EndOf(buf, p)
  OBVIOUS
<1>3. e \in p..(Len(buf) + 1) /\ \A r \in p..(e - 1) : ~EndsLine(buf[r])
  BY <1>1, <1>2, EndIs
<1>4. q - 1 \notin p..(e - 1)
  BY <1>1, <1>3
<1>5. e < q
  BY <1>1, <1>3, <1>4
<1> QED BY <1>1, <1>2, <1>3, <1>5 DEF IsWhole

\* Parsing that did not stop has parsed every line that is whole.
LEMMA WentOn ==
  ASSUME NEW buf, buf \in Seq(Piece), Stops(buf) = {}
  PROVE  /\ \A p \in Starts(buf) : ~StopsAt(buf, p)
         /\ Parsed(buf) = {p \in Starts(buf) : IsWhole(buf, p)}
<1> DEFINE T == {p \in Starts(buf) : StopsAt(buf, p)}
<1>1. Starts(buf) \in SUBSET Nat
  BY DEF Starts
<1>2. T = {}
  <2> SUFFICES ASSUME T # {} PROVE FALSE
    OBVIOUS
  <2>1. PICK p \in T : \A q \in T : p <= q
    BY <1>1, HasLeast
  <2>2. ASSUME NEW q \in Starts(buf), q < p PROVE q \in Parsed(buf)
    <3>1. IsWhole(buf, q)
      BY <2>1, <2>2, WholeBefore
    <3>2. ASSUME NEW r \in Starts(buf), r <= q PROVE ~StopsAt(buf, r)
      <4>1. r \in Nat /\ q \in Nat /\ p \in Nat
        BY <1>1, <2>1
      <4>2. ~(p <= r)
        BY <2>2, <3>2, <4>1
      <4> QED BY <2>1, <4>2
    <3> QED BY <3>1, <3>2 DEF Parsed
  <2>3. p \in Stops(buf)
    BY <2>1, <2>2 DEF Stops
  <2> QED BY <2>3
<1>3. \A p \in Starts(buf) : ~StopsAt(buf, p)
  BY <1>2
<1> QED BY <1>3 DEF Parsed

\* Parsing stops at one line: those before it are parsed and no other is.
LEMMA StoppedAt ==
  ASSUME NEW buf, buf \in Seq(Piece), NEW s \in Stops(buf)
  PROVE  /\ s \in Starts(buf) /\ StopsAt(buf, s)
         /\ Parsed(buf) = {q \in Starts(buf) : q < s} /\ Stops(buf) = {s}
<1>1. s \in Starts(buf) /\ StopsAt(buf, s) /\ \A q \in Starts(buf) : q < s => q \in Parsed(buf)
  BY DEF Stops
<1>2. Starts(buf) \in SUBSET Nat
  BY DEF Starts
<1>3. ASSUME NEW q \in Parsed(buf) PROVE q \in Starts(buf) /\ q < s
  <2>1. q \in Starts(buf) /\ ~(s <= q)
    BY <1>1 DEF Parsed
  <2> QED BY <1>1, <1>2, <2>1
<1>4. Parsed(buf) = {q \in Starts(buf) : q < s}
  BY <1>1, <1>3
<1>5. ASSUME NEW q \in Stops(buf) PROVE q = s
  <2>1. q \in Starts(buf) /\ StopsAt(buf, q) /\ \A r \in Starts(buf) : r < q => r \in Parsed(buf)
    BY DEF Stops
  <2>2. ~(s < q)
    BY <1>1, <1>2, <1>3, <2>1
  <2>3. ~(q < s)
    <3> SUFFICES ASSUME q < s PROVE FALSE
      OBVIOUS
    <3>1. q \in Parsed(buf) /\ q <= q
      BY <1>1, <1>2, <2>1
    <3> QED BY <2>1, <3>1 DEF Parsed
  <2> QED BY <1>1, <1>2, <2>1, <2>2, <2>3
<1> QED BY <1>1, <1>4, <1>5

\* What is left begins after a line and no line ends in it.
LEMMA RestIs ==
  ASSUME NEW buf, buf \in Seq(Piece), Stops(buf) = {}
  PROVE  \E e \in 0..Len(buf) :
           /\ Rest(buf) = SubSeq(buf, e + 1, Len(buf))
           /\ e = 0 \/ EndsLine(buf[e])
           /\ \A r \in (e + 1)..Len(buf) : ~EndsLine(buf[r])
<1>1. PICK n : n = Len(buf)
  OBVIOUS
<1>2. n \in Nat /\ DOMAIN buf = 1..n
  BY <1>1
<1>3. Parsed(buf) = {p \in Starts(buf) : IsWhole(buf, p)}
  BY WentOn
<1>4. Starts(buf) = {p \in 1..n : p = 1 \/ EndsLine(buf[p - 1])}
  BY <1>2 DEF Starts
<1>5. ASSUME NEW p \in Starts(buf), NEW r \in p..n, EndsLine(buf[r])
      PROVE  p \in Parsed(buf)
  <2>1. p \in 1..Len(buf) /\ r \in Nat /\ p \in Nat /\ r <= n /\ p <= r
    BY <1>1, <1>2, <1>4
  <2>2. PICK e : e = EndOf(buf, p)
    OBVIOUS
  <2>3. e \in p..(Len(buf) + 1) /\ \A i \in p..(e - 1) : ~EndsLine(buf[i])
    BY <2>1, <2>2, EndIs
  <2>4. e <= Len(buf)
    BY <1>1, <1>5, <2>1, <2>3
  <2> QED BY <1>3, <2>2, <2>4 DEF IsWhole
<1>6. CASE Parsed(buf) = {}
  <2>1. Rest(buf) = buf
    BY <1>6 DEF Rest
  <2>2. SubSeq(buf, 0 + 1, Len(buf)) = buf
    OBVIOUS
  <2>3. ASSUME NEW r \in (0 + 1)..n PROVE ~EndsLine(buf[r])
    <3>1. 1 \in Starts(buf) /\ r \in 1..n
      BY <1>2, <1>4
    <3> QED BY <1>5, <1>6, <3>1
  <2> QED BY <1>1, <1>2, <2>1, <2>2, <2>3
<1>7. CASE Parsed(buf) # {}
  <2>1. PICK p : p = Latest(Parsed(buf))
    OBVIOUS
  <2>2. Parsed(buf) \subseteq 1..n
    BY <1>3, <1>4
  <2>3. p \in Parsed(buf) /\ \A q \in Parsed(buf) : p >= q
    BY <1>2, <1>7, <2>1, <2>2, LatestIs
  <2>4. PICK e : e = EndOf(buf, p)
    OBVIOUS
  <2>5. p \in 1..n /\ IsWhole(buf, p)
    BY <1>3, <1>4, <2>3
  <2>6. e \in p..n /\ EndsLine(buf[e])
    <3>1. e \in p..(Len(buf) + 1) /\ (e <= Len(buf) => EndsLine(buf[e]))
      BY <1>1, <2>4, <2>5, EndIs
    <3>2. e <= Len(buf)
      BY <2>4, <2>5 DEF IsWhole
    <3> QED BY <1>1, <1>2, <3>1, <3>2, <2>5
  <2>7. Rest(buf) = SubSeq(buf, e + 1, Len(buf))
    BY <1>7, <2>1, <2>4 DEF Rest
  <2>8. ASSUME NEW r \in (e + 1)..n, EndsLine(buf[r]) PROVE FALSE
    <3>1. e + 1 \in 1..n /\ e + 1 - 1 = e /\ r \in (e + 1)..n /\ e + 1 > p
      BY <1>2, <2>5, <2>6
    <3>2. e + 1 \in Starts(buf)
      BY <1>4, <2>6, <3>1
    <3>3. e + 1 \in Parsed(buf)
      BY <1>5, <2>8, <3>2
    <3> QED BY <2>3, <2>5, <3>1, <3>3
  <2>9. e \in 0..Len(buf)
    BY <1>1, <1>2, <2>5, <2>6
  <2> QED BY <1>1, <2>6, <2>7, <2>8, <2>9
<1> QED BY <1>6, <1>7

-----------------------------------------------------------------------------
(* A buffer that holds a part of a table. *)

\* buf is what stands in T behind c and up to t.
Holds(T, c, t, buf) ==
  buf \in Seq(Piece) /\ Len(buf) = t - c /\ \A i \in 1..(t - c) : buf[i] = T[c + i]

\* A line of T begins behind c.
Aligned(T, c) == c = 0 \/ EndsLine(T[c])

\* A line of the stream asked for ends at q.
StreamLine(T, q) == EndsLine(T[q]) /\ T[q][2] \in Streams

LEMMA InTheCut ==
  ASSUME NEW T, WellCut(T), NEW c, c \in 0..Len(T), Aligned(T, c), NEW q, q \in (c + 1)..Len(T)
  PROVE  StartOf(T, q) > c
<1>1. PICK s : s = StartOf(T, q)
  OBVIOUS
<1>2. q \in 1..Len(T) /\ c \in Nat /\ Len(T) \in Nat /\ q > c
  BY DEF WellCut
<1>3. s \in 1..q /\ s \in 1..Len(T) /\ T[s][1] = T[q][1]
  BY <1>1, <1>2, LineStarts
<1>4. ASSUME s <= c PROVE FALSE
  <2>1. c \in s..q /\ c \in 1..Len(T) /\ EndsLine(T[c])
    BY <1>2, <1>3, <1>4 DEF Aligned
  <2>2. T[c][1] = T[s][1]
    BY <1>2, <1>3, <2>1, Between
  <2> QED BY <1>2, <1>3, <2>1, <2>2, WithinALine
<1> QED BY <1>1, <1>2, <1>3, <1>4

LEMMA LineFound ==
  ASSUME NEW T, WellCut(T), NEW c, c \in 0..Len(T), NEW t, t \in c..Len(T),
         NEW buf, Holds(T, c, t, buf), NEW q, q \in (c + 1)..t, NEW s, s = StartOf(T, q), s > c
  PROVE  /\ s - c \in Starts(buf) /\ Taken(buf[s - c]) = T[q][2] /\ s \in 1..q
         /\ EndsLine(T[q]) => IsWhole(buf, s - c) /\ EndOf(buf, s - c) = q - c
<1>1. /\ Len(T) \in Nat /\ c \in Nat /\ t \in Nat /\ q \in Nat /\ c < q /\ q <= t /\ t <= Len(T)
      /\ q \in 1..Len(T)
  BY DEF WellCut
<1>2. /\ s \in 1..q /\ s \in 1..Len(T) /\ T[s][1] = T[q][1] /\ T[s][2] = T[q][2]
      /\ BeginsLine(T[s]) /\ (s > 1 => EndsLine(T[s - 1]))
  BY <1>1, LineStarts
<1>3. PICK p : p = s - c
  OBVIOUS
<1>4. p \in 1..(t - c) /\ c + p = s /\ q - c \in p..(t - c)
  BY <1>1, <1>2, <1>3
<1>5. /\ buf \in Seq(Piece) /\ Len(buf) = t - c /\ DOMAIN buf = 1..(t - c)
      /\ \A i \in 1..(t - c) : buf[i] = T[c + i]
  BY DEF Holds
<1>6. buf[p] = T[s]
  BY <1>4, <1>5
<1>7. p \in Starts(buf)
  <2>1. CASE p = 1
    BY <1>4, <1>5, <2>1 DEF Starts
  <2>2. CASE p > 1
    <3>1. p - 1 \in 1..(t - c) /\ c + (p - 1) = s - 1 /\ s > 1
      BY <1>1, <1>4, <2>2
    <3>2. EndsLine(buf[p - 1])
      BY <1>2, <1>5, <3>1
    <3> QED BY <1>4, <1>5, <3>2 DEF Starts
  <2> QED BY <1>4, <2>1, <2>2
<1>8. Taken(buf[p]) = T[q][2]
  BY <1>2, <1>6 DEF Taken, KindOf
<1>9. ASSUME EndsLine(T[q]) PROVE EndOf(buf, p) = q - c
  <2>1. PICK e : e = EndOf(buf, p)
    OBVIOUS
  <2>2. /\ e \in p..(Len(buf) + 1) /\ (e <= Len(buf) => EndsLine(buf[e]))
        /\ \A r \in p..(e - 1) : ~EndsLine(buf[r])
    BY <1>4, <1>5, <2>1, EndIs
  <2>3. PICK k : k = q - c
    OBVIOUS
  <2>4. k \in 1..(t - c) /\ c + k = q /\ p <= k
    BY <1>1, <1>4, <2>3
  <2>5. EndsLine(buf[k])
    BY <1>5, <1>9, <2>4
  <2>6. e <= k
    BY <1>4, <2>2, <2>4, <2>5
  <2>7. ASSUME e < k PROVE FALSE
    <3>1. e \in 1..(t - c) /\ e <= Len(buf) /\ c + e \in 1..Len(T) /\ c + e \in s..q /\ c + e < q
      BY <1>1, <1>4, <1>5, <2>2, <2>4, <2>7
    <3>2. EndsLine(T[c + e])
      BY <1>5, <2>2, <3>1
    <3>3. T[c + e][1] = T[s][1]
      BY <1>1, <1>2, <3>1, Between
    <3>4. T[c + e][1] = T[q][1]
      BY <1>2, <3>3
    <3> QED BY <1>1, <3>1, <3>2, <3>4, WithinALine
  <2>8. e \in Int /\ k \in Int
    BY <1>4, <1>5, <2>2, <2>4
  <2>9. e = k
    BY ONLY <2>6, <2>7, <2>8
  <2> QED BY <2>1, <2>3, <2>9
<1>10. ASSUME EndsLine(T[q]) PROVE IsWhole(buf, p)
  BY <1>4, <1>5, <1>9, <1>10 DEF IsWhole
<1> QED BY <1>2, <1>3, <1>7, <1>8, <1>9, <1>10

\* A whole line that is taken for one of a kind is one.
LEMMA LineIs ==
  ASSUME NEW T, WellCut(T), NEW c, c \in 0..Len(T), NEW t, t \in c..Len(T),
         NEW buf, Holds(T, c, t, buf), NEW p, p \in Starts(buf), Taken(buf[p]) # "other",
         IsWhole(buf, p), NEW q, q = c + EndOf(buf, p)
  PROVE  q \in (c + p)..t /\ EndsLine(T[q]) /\ T[q][2] = Taken(buf[p])
<1>1. Len(T) \in Nat /\ c \in Nat /\ t \in Nat /\ t <= Len(T) /\ c <= t
  BY DEF WellCut
<1>2. /\ buf \in Seq(Piece) /\ Len(buf) = t - c /\ DOMAIN buf = 1..(t - c)
      /\ \A i \in 1..(t - c) : buf[i] = T[c + i]
  BY DEF Holds
<1>3. p \in 1..(t - c)
  BY <1>2 DEF Starts
<1>4. PICK e : e = EndOf(buf, p)
  OBVIOUS
<1>5. e \in p..(t - c) /\ EndsLine(buf[e]) /\ \A r \in p..(e - 1) : ~EndsLine(buf[r])
  <2>1. /\ e \in p..(Len(buf) + 1) /\ (e <= Len(buf) => EndsLine(buf[e]))
        /\ \A r \in p..(e - 1) : ~EndsLine(buf[r])
    BY <1>2, <1>3, <1>4, EndIs
  <2>2. e <= Len(buf)
    BY <1>4 DEF IsWhole
  <2> QED BY <1>1, <1>2, <1>3, <2>1, <2>2
<1>6. /\ c + p \in 1..Len(T) /\ c + e \in 1..Len(T) /\ c + p <= c + e /\ q = c + e
      /\ q \in (c + p)..t /\ e \in 1..(t - c)
  BY <1>1, <1>3, <1>4, <1>5
<1>7. ASSUME NEW r \in (c + p)..(c + e - 1) PROVE ~EndsLine(T[r])
  <2>1. r - c \in p..(e - 1) /\ r - c \in 1..(t - c) /\ c + (r - c) = r
    BY <1>1, <1>3, <1>5, <1>6
  <2>2. buf[r - c] = T[r]
    BY <1>2, <2>1
  <2> QED BY <1>5, <2>1, <2>2
<1>8. T[c + p][2] = T[q][2]
  <2>1. PICK x, y : x = c + p /\ y = c + e
    OBVIOUS
  <2>2. x \in 1..Len(T) /\ y \in 1..Len(T) /\ x <= y /\ \A r \in x..(y - 1) : ~EndsLine(T[r])
    BY <1>6, <1>7, <2>1
  <2>3. T[x][2] = T[y][2]
    BY <2>2, SameLine
  <2> QED BY <1>6, <2>1, <2>3
<1>9. buf[p] = T[c + p] /\ buf[e] = T[q]
  BY <1>2, <1>3, <1>6
<1>10. Taken(buf[p]) = T[c + p][2]
  BY <1>9 DEF Taken, KindOf
<1> QED BY <1>5, <1>6, <1>8, <1>9, <1>10

\* The lines of the stream in a part of a table of which all are parsed.
LEMMA Found ==
  ASSUME NEW T, WellCut(T), NEW c, c \in 0..Len(T), NEW t, t \in c..Len(T),
         NEW buf, Holds(T, c, t, buf),
         \A q \in (c + 1)..t : StreamLine(T, q) /\ StartOf(T, q) > c
                               => StartOf(T, q) - c \in Parsed(buf)
  PROVE  /\ Matching(buf) # {} =>
              \E q \in (c + 1)..t :
                /\ StreamLine(T, q) /\ T[q][2] = Taken(buf[Latest(Matching(buf))])
                /\ \A r \in (q + 1)..t : ~StreamLine(T, r)
         /\ Matching(buf) = {} /\ Aligned(T, c) => \A q \in (c + 1)..t : ~StreamLine(T, q)
<1>1. Len(T) \in Nat /\ c \in Nat /\ t \in Nat /\ t <= Len(T) /\ c <= t
  BY DEF WellCut
<1>2. buf \in Seq(Piece) /\ Len(buf) = t - c /\ DOMAIN buf = 1..(t - c)
  BY DEF Holds
<1>3. ASSUME NEW q \in (c + 1)..t, StreamLine(T, q), NEW s, s = StartOf(T, q), s > c
      PROVE  s - c \in Matching(buf)
  <2>1. Taken(buf[s - c]) = T[q][2]
    BY <1>3, LineFound
  <2> QED BY <1>3, <2>1 DEF Matching, StreamLine
<1>4. ASSUME Matching(buf) # {}
      PROVE  \E q \in (c + 1)..t :
                /\ StreamLine(T, q) /\ T[q][2] = Taken(buf[Latest(Matching(buf))])
                /\ \A r \in (q + 1)..t : ~StreamLine(T, r)
  <2>1. PICK p : p = Latest(Matching(buf))
    OBVIOUS
  <2>2. Matching(buf) \subseteq 1..(t - c)
    BY <1>2 DEF Matching, Parsed, Starts
  <2>3. p \in Matching(buf) /\ \A q \in Matching(buf) : p >= q
    BY <1>1, <1>4, <2>1, <2>2, LatestIs
  <2>4. PICK q : q = c + EndOf(buf, p)
    OBVIOUS
  <2>5. p \in Starts(buf) /\ IsWhole(buf, p) /\ Taken(buf[p]) \in Streams /\ p \in 1..(t - c)
    BY <2>2, <2>3 DEF Matching, Parsed
  <2>6. Taken(buf[p]) # "other"
    BY <2>5 DEF Streams
  <2>7. q \in (c + p)..t /\ EndsLine(T[q]) /\ T[q][2] = Taken(buf[p])
    BY <2>4, <2>5, <2>6, LineIs
  <2>8. q \in (c + 1)..t /\ q \in 1..Len(T) /\ StreamLine(T, q)
    BY <1>1, <2>5, <2>7 DEF StreamLine
  <2>9. ASSUME NEW r \in (q + 1)..t, StreamLine(T, r) PROVE FALSE
    <3>1. PICK s : s = StartOf(T, r)
      OBVIOUS
    <3>2. r \in 1..Len(T) /\ r \in (c + 1)..t /\ q < r
      BY <1>1, <2>8
    <3>3. s \in 1..r /\ s \in 1..Len(T) /\ T[s][1] = T[r][1]
      BY <3>1, <3>2, LineStarts
    <3>4. ASSUME s <= q PROVE FALSE
      <4>1. q \in s..r
        BY <2>8, <3>2, <3>3, <3>4
      <4>2. T[q][1] = T[s][1]
        BY <3>2, <3>3, <4>1, Between
      <4> QED BY <2>7, <2>8, <3>2, <3>3, <4>2, WithinALine
    <3>5. s > c /\ s - c > p
      BY <1>1, <2>5, <2>7, <2>8, <3>3, <3>4
    <3>6. s - c \in Matching(buf)
      BY <1>3, <2>9, <3>1, <3>2, <3>5
    <3> QED BY <2>3, <2>5, <3>3, <3>5, <3>6
  <2> QED BY <2>1, <2>7, <2>8, <2>9
<1>5. ASSUME Matching(buf) = {}, Aligned(T, c), NEW q \in (c + 1)..t, StreamLine(T, q)
      PROVE  FALSE
  <2>1. q \in (c + 1)..Len(T)
    BY <1>1
  <2>2. StartOf(T, q) > c
    BY <1>5, <2>1, InTheCut
  <2> QED BY <1>3, <1>5, <2>2
<1> QED BY <1>4, <1>5

\* Parsing went on: what it leaves behind, and what it has seen.
LEMMA GoesOn ==
  ASSUME NEW T, WellCut(T), NEW c, c \in 0..Len(T), NEW t, t \in c..Len(T),
         NEW buf, Holds(T, c, t, buf), Stops(buf) = {}
  PROVE  /\ \E e \in c..t : /\ Holds(T, e, t, Rest(buf)) /\ (e = c \/ EndsLine(T[e]))
                            /\ \A r \in (e + 1)..t : ~EndsLine(T[r])
         /\ Aligned(T, c) => \A q \in (c + 1)..t :
              T[q][2] # "end" /\ (EndsLine(T[q]) => T[q][2] # "unsupported")
         /\ Matching(buf) # {} =>
              \E q \in (c + 1)..t :
                /\ StreamLine(T, q) /\ T[q][2] = Taken(buf[Latest(Matching(buf))])
                /\ \A r \in (q + 1)..t : ~StreamLine(T, r)
         /\ Matching(buf) = {} /\ Aligned(T, c) => \A q \in (c + 1)..t : ~StreamLine(T, q)
<1>1. Len(T) \in Nat /\ c \in Nat /\ t \in Nat /\ t <= Len(T) /\ c <= t
  BY DEF WellCut
<1>2. /\ buf \in Seq(Piece) /\ Len(buf) = t - c /\ DOMAIN buf = 1..(t - c)
      /\ \A i \in 1..(t - c) : buf[i] = T[c + i]
  BY DEF Holds
<1>3. /\ \A p \in Starts(buf) : ~StopsAt(buf, p)
      /\ Parsed(buf) = {p \in Starts(buf) : IsWhole(buf, p)}
  BY <1>2, WentOn
<1>4. ASSUME NEW q \in (c + 1)..t, StreamLine(T, q), NEW s, s = StartOf(T, q), s > c
      PROVE  s - c \in Parsed(buf)
  <2>1. s - c \in Starts(buf) /\ IsWhole(buf, s - c)
    BY <1>4, LineFound DEF StreamLine
  <2> QED BY <1>3, <2>1
<1>5. ASSUME Aligned(T, c), NEW q \in (c + 1)..t
      PROVE  T[q][2] # "end" /\ (EndsLine(T[q]) => T[q][2] # "unsupported")
  <2>1. PICK s : s = StartOf(T, q)
    OBVIOUS
  <2>2. q \in (c + 1)..Len(T)
    BY <1>1
  <2>3. s > c
    BY <1>5, <2>1, <2>2, InTheCut
  <2>4. /\ s - c \in Starts(buf) /\ Taken(buf[s - c]) = T[q][2]
        /\ EndsLine(T[q]) => IsWhole(buf, s - c)
    BY <2>1, <2>3, LineFound
  <2>5. ~StopsAt(buf, s - c)
    BY <1>3, <2>4
  <2> QED BY <2>4, <2>5 DEF StopsAt
<1>6. PICK i \in 0..Len(buf) : /\ Rest(buf) = SubSeq(buf, i + 1, Len(buf))
                               /\ i = 0 \/ EndsLine(buf[i])
                               /\ \A r \in (i + 1)..Len(buf) : ~EndsLine(buf[r])
  BY <1>2, RestIs
<1>7. PICK e : e = c + i
  OBVIOUS
<1>8. e \in c..t /\ i \in 0..(t - c) /\ i \in Nat
  BY <1>1, <1>2, <1>6, <1>7
<1>9. /\ Rest(buf) \in Seq(Piece) /\ Len(Rest(buf)) = t - e
      /\ \A j \in 1..(t - e) : Rest(buf)[j] = buf[i + j]
  <2>1. /\ SubSeq(buf, i + 1, Len(buf)) \in Seq(Piece)
        /\ Len(SubSeq(buf, i + 1, Len(buf))) = Len(buf) - i
        /\ \A j \in 1..(Len(buf) - i) : SubSeq(buf, i + 1, Len(buf))[j] = buf[i + j]
    <3>1. PICK w, v : w = i + 1 /\ v = Len(buf)
      OBVIOUS
    <3>2. w \in 1..(v + 1) /\ v \in Nat /\ buf \in Seq(Piece) /\ v - w + 1 = v - i
      BY <1>2, <1>8, <3>1
    <3>3. \A k \in w..v : buf[k] \in Piece
      BY <3>1, <3>2
    <3>4. w <= v \/ v - w + 1 = 0
      BY ONLY <3>2
    <3>5. /\ SubSeq(buf, w, v) \in Seq(Piece) /\ Len(SubSeq(buf, w, v)) = v - w + 1
          /\ \A j \in 1..(v - w + 1) : SubSeq(buf, w, v)[j] = buf[w + j - 1]
      BY ONLY <3>2, <3>3, <3>4, SubSeqProperties
    <3>6. \A j \in 1..(v - i) : w + j - 1 = i + j
      BY <1>8, <3>1, <3>2
    <3> QED BY ONLY <3>1, <3>2, <3>5, <3>6
  <2>2. Len(buf) - i = t - e
    BY <1>1, <1>2, <1>7, <1>8
  <2> QED BY <1>6, <2>1, <2>2
<1>10. ASSUME NEW j \in 1..(t - e) PROVE Rest(buf)[j] = T[e + j]
  <2>1. i + j \in 1..(t - c) /\ c + (i + j) = e + j
    BY <1>1, <1>7, <1>8
  <2>2. buf[i + j] = T[e + j]
    BY <1>2, <2>1
  <2> QED BY <1>9, <2>2
<1>11. e = c \/ EndsLine(T[e])
  <2>1. CASE i = 0
    BY <1>1, <1>7, <2>1
  <2>2. CASE i # 0
    <3>1. i \in 1..(t - c)
      BY <1>8, <2>2
    <3> QED BY <1>2, <1>6, <1>7, <2>2, <3>1
  <2> QED BY <2>1, <2>2
<1>12. ASSUME NEW r \in (e + 1)..t PROVE ~EndsLine(T[r])
  <2>1. r - c \in (i + 1)..Len(buf) /\ r - c \in 1..(t - c) /\ c + (r - c) = r
    BY <1>1, <1>2, <1>7, <1>8
  <2>2. buf[r - c] = T[r]
    BY <1>2, <2>1
  <2> QED BY <1>6, <2>1, <2>2
<1>13. Holds(T, e, t, Rest(buf))
  BY <1>9, <1>10 DEF Holds
<1>14. \A q \in (c + 1)..t : StreamLine(T, q) /\ StartOf(T, q) > c
                               => StartOf(T, q) - c \in Parsed(buf)
  BY <1>4
<1>15. /\ Matching(buf) # {} =>
              \E q \in (c + 1)..t :
                /\ StreamLine(T, q) /\ T[q][2] = Taken(buf[Latest(Matching(buf))])
                /\ \A r \in (q + 1)..t : ~StreamLine(T, r)
       /\ Matching(buf) = {} /\ Aligned(T, c) => \A q \in (c + 1)..t : ~StreamLine(T, q)
  BY <1>14, Found
<1> QED BY <1>5, <1>8, <1>11, <1>12, <1>13, <1>15

\* Parsing stopped at the end of the table: it has seen all of it.
LEMMA StopsThere ==
  ASSUME NEW T, WellCut(T), NEW c, c \in 0..Len(T), NEW t, t \in c..Len(T),
         NEW buf, Holds(T, c, t, buf), NEW s \in Stops(buf), Taken(buf[s]) = "end"
  PROVE  /\ Aligned(T, c) => \A q \in (c + 1)..t : EndsLine(T[q]) => T[q][2] # "unsupported"
         /\ Matching(buf) # {} =>
              \E q \in (c + 1)..t :
                /\ StreamLine(T, q) /\ T[q][2] = Taken(buf[Latest(Matching(buf))])
                /\ \A r \in (q + 1)..Len(T) : ~StreamLine(T, r)
         /\ Matching(buf) = {} /\ Aligned(T, c) => \A q \in (c + 1)..Len(T) : ~StreamLine(T, q)
<1>1. Len(T) \in Nat /\ c \in Nat /\ t \in Nat /\ t <= Len(T) /\ c <= t
  BY DEF WellCut
<1>2. /\ buf \in Seq(Piece) /\ Len(buf) = t - c /\ DOMAIN buf = 1..(t - c)
      /\ \A i \in 1..(t - c) : buf[i] = T[c + i]
  BY DEF Holds
<1>3. /\ s \in Starts(buf) /\ StopsAt(buf, s) /\ Parsed(buf) = {q \in Starts(buf) : q < s}
  BY <1>2, StoppedAt
<1>4. s \in 1..(t - c) /\ c + s \in 1..Len(T)
  BY <1>1, <1>2, <1>3 DEF Starts
<1>5. T[c + s][2] = "end"
  BY <1>2, <1>4 DEF Taken, KindOf
<1>6. ASSUME NEW q \in (c + s)..Len(T) PROVE T[q][2] = "end"
  <2>1. q \in 1..Len(T) /\ Len(T) \in 1..Len(T) /\ c + s <= q /\ q <= Len(T)
    BY <1>1, <1>4
  <2>2. T[c + s] \in Piece /\ T[q] \in Piece /\ T[Len(T)] \in Piece
    BY <1>4, <2>1 DEF WellCut
  <2>3. T[c + s][1] <= T[q][1] /\ T[q][1] <= T[Len(T)][1] /\ T[c + s][1] = T[Len(T)][1]
    BY <1>4, <1>5, <2>1 DEF WellCut, FollowsOn
  <2>4. T[q][1] = T[c + s][1]
    BY <2>2, <2>3, PieceIs
  <2> QED BY <1>4, <1>5, <2>1, <2>4 DEF WellCut
<1>7. ASSUME NEW q \in (c + 1)..t, T[q][2] # "end", NEW u, u = StartOf(T, q), u > c
      PROVE  u - c \in Starts(buf) /\ u - c < s /\ u - c \in Parsed(buf)
  <2>1. u - c \in Starts(buf) /\ u \in 1..q
    BY <1>7, LineFound
  <2>2. q \in 1..Len(T) /\ ~(q >= c + s)
    BY <1>1, <1>4, <1>6, <1>7
  <2>3. u - c < s
    BY <1>1, <1>4, <2>1, <2>2
  <2> QED BY <1>3, <2>1, <2>3
<1>8. ASSUME NEW q \in (c + 1)..t, StreamLine(T, q), StartOf(T, q) > c
      PROVE  StartOf(T, q) - c \in Parsed(buf)
  <2>1. T[q][2] # "end"
    BY <1>8 DEF StreamLine, Streams
  <2> QED BY <1>7, <1>8, <2>1
<1>9. ASSUME Aligned(T, c), NEW q \in (c + 1)..t, EndsLine(T[q]), T[q][2] = "unsupported"
      PROVE  FALSE
  <2>1. PICK u : u = StartOf(T, q)
    OBVIOUS
  <2>2. q \in (c + 1)..Len(T)
    BY <1>1
  <2>3. u > c
    BY <1>9, <2>1, <2>2, InTheCut
  <2>4. u - c \in Starts(buf) /\ Taken(buf[u - c]) = T[q][2] /\ IsWhole(buf, u - c)
    BY <1>9, <2>1, <2>3, LineFound
  <2>5. u - c \in Parsed(buf)
    BY <1>7, <1>9, <2>1, <2>3
  <2>6. u - c <= u - c
    BY <1>2, <2>4 DEF Starts
  <2>7. ~StopsAt(buf, u - c)
    BY <2>4, <2>5, <2>6 DEF Parsed
  <2> QED BY <1>9, <2>4, <2>7 DEF StopsAt
<1>10. /\ Matching(buf) # {} =>
              \E q \in (c + 1)..t :
                /\ StreamLine(T, q) /\ T[q][2] = Taken(buf[Latest(Matching(buf))])
                /\ \A r \in (q + 1)..t : ~StreamLine(T, r)
       /\ Matching(buf) = {} /\ Aligned(T, c) => \A q \in (c + 1)..t : ~StreamLine(T, q)
  BY <1>8, Found
<1>11. ASSUME NEW q \in (t + 1)..Len(T) PROVE ~StreamLine(T, q)
  <2>1. q \in (c + s)..Len(T)
    BY <1>1, <1>4
  <2> QED BY <1>6, <2>1 DEF StreamLine, Streams
<1>12. \A r \in 1..Len(T) : r \in 1..t \/ r \in (t + 1)..Len(T)
  BY <1>1
<1>13. ASSUME Matching(buf) # {}
       PROVE  \E q \in (c + 1)..t :
                /\ StreamLine(T, q) /\ T[q][2] = Taken(buf[Latest(Matching(buf))])
                /\ \A r \in (q + 1)..Len(T) : ~StreamLine(T, r)
  <2>1. PICK q \in (c + 1)..t :
                /\ StreamLine(T, q) /\ T[q][2] = Taken(buf[Latest(Matching(buf))])
                /\ \A r \in (q + 1)..t : ~StreamLine(T, r)
    BY <1>10, <1>13
  <2>2. ASSUME NEW r \in (q + 1)..Len(T) PROVE ~StreamLine(T, r)
    <3>1. r \in (q + 1)..t \/ r \in (t + 1)..Len(T)
      BY <1>1
    <3> QED BY <1>11, <2>1, <3>1
  <2> QED BY <2>1, <2>2
<1>14. ASSUME Matching(buf) = {}, Aligned(T, c), NEW q \in (c + 1)..Len(T)
       PROVE  ~StreamLine(T, q)
  <2>1. q \in (c + 1)..t \/ q \in (t + 1)..Len(T)
    BY <1>1
  <2> QED BY <1>10, <1>11, <1>14, <2>1
<1> QED BY <1>9, <1>13, <1>14

\* Parsing stopped at a stream that is not supported: the table names one.
LEMMA StopsBefore ==
  ASSUME NEW T, WellCut(T), NEW c, c \in 0..Len(T), NEW t, t \in c..Len(T),
         NEW buf, Holds(T, c, t, buf), NEW s \in Stops(buf), Taken(buf[s]) # "end"
  PROVE  \E q \in 1..Len(T) : EndsLine(T[q]) /\ T[q][2] = "unsupported"
<1>1. s \in Starts(buf) /\ StopsAt(buf, s)
  BY DEF Stops
<1>2. Taken(buf[s]) = "unsupported" /\ IsWhole(buf, s)
  BY <1>1 DEF StopsAt
<1>3. PICK q : q = c + EndOf(buf, s)
  OBVIOUS
<1>4. q \in (c + s)..t /\ EndsLine(T[q]) /\ T[q][2] = "unsupported"
  BY <1>1, <1>2, <1>3, LineIs
<1>5. s \in 1..Len(buf)
  BY <1>1 DEF Starts, Holds
<1>6. q \in 1..Len(T)
  BY <1>4, <1>5 DEF WellCut, Holds
<1> QED BY <1>4, <1>6

\* A buffer full of one line: the line is longer than the buffer.
LEMMA TooLong ==
  ASSUME NEW T, WellCut(T), NEW e, e \in 0..Len(T), NEW t, t \in e..Len(T), Aligned(T, e),
         t - e = Blen, Blen >= 2, \A r \in (e + 1)..t : ~EndsLine(T[r])
  PROVE  \E q \in 1..Len(T) : EndsLine(T[q]) /\ T[q][2] = "long"
<1>1. Len(T) \in Nat /\ e \in Nat /\ t \in Nat /\ t <= Len(T) /\ Blen \in Nat /\ e + 2 <= t
  BY TableNumbers DEF WellCut
<1>2. PICK p : p = e + 1
  OBVIOUS
<1>3. p \in 1..Len(T) /\ t \in 1..Len(T) /\ p <= t /\ t - p = Blen - 1
  BY <1>1, <1>2
<1>4. T[p] \in Piece /\ T[t] \in Piece
  BY <1>3 DEF WellCut
<1>5. T[p][3] = 1
  <2>1. CASE e = 0
    BY <1>2, <2>1 DEF WellCut
  <2>2. CASE e # 0
    <3>1. e \in 1..(Len(T) - 1) /\ EndsLine(T[e])
      BY <1>1, <2>2 DEF Aligned
    <3> QED BY <1>2, <3>1, NextBegins DEF BeginsLine
  <2> QED BY <2>1, <2>2
<1>6. T[p][1] = T[t][1]
  <2>1. \A r \in p..(t - 1) : ~EndsLine(T[r])
    BY <1>1, <1>2
  <2> QED BY <1>3, <2>1, SameLine
<1>7. T[t][3] - T[p][3] = t - p
  BY <1>3, <1>6 DEF WellCut, FollowsOn
<1>8. T[t][3] = Blen /\ T[t][2] \in Names
  <2>1. T[t][3] \in Nat /\ T[t][2] \in Names
    BY <1>4, PieceIs
  <2>2. T[t][3] - 1 = Blen - 1
    BY <1>3, <1>5, <1>7
  <2> QED BY <1>1, <2>1, <2>2
<1>9. T[t][3] \in 1..LengthOf(T[t][2]) /\ T[t][3] # LengthOf(T[t][2])
  <2>1. t \in (e + 1)..t
    BY <1>1
  <2> QED BY <1>3, <2>1 DEF WellCut, InPlace, EndsLine, KindOf
<1>10. T[t][2] = "long"
  BY <1>1, <1>8, <1>9, LengthIs
<1> DEFINE ends == {q \in t..Len(T) : EndsLine(T[q])}
<1>11. ends \in SUBSET Nat /\ Len(T) \in ends
  BY <1>1 DEF WellCut
<1>12. PICK q \in ends : \A r \in ends : q <= r
  BY <1>11, HasLeast
<1>13. q \in 1..Len(T) /\ EndsLine(T[q]) /\ t <= q
  BY <1>1, <1>12
<1>14. ASSUME NEW r \in t..(q - 1) PROVE ~EndsLine(T[r])
  <2>1. r \in t..Len(T) /\ ~(q <= r)
    BY <1>1, <1>13
  <2> QED BY <1>12, <2>1
<1>15. T[q][2] = "long"
  BY <1>3, <1>10, <1>13, <1>14, SameLine
<1> QED BY <1>13, <1>15

-----------------------------------------------------------------------------
(* The reading of a table: its inductive invariant. *)

\* The last line of the stream that ends up to t is one of kind k.
LastIs(T, t, k) ==
  \E q \in 1..t : StreamLine(T, q) /\ T[q][2] = k /\ \A r \in (q + 1)..t : ~StreamLine(T, r)

NoneTo(T, t) == \A q \in 1..t : ~StreamLine(T, q)
Supported(T, t) == \A q \in 1..t : EndsLine(T[q]) => T[q][2] # "unsupported"

\* What is known of the lines that end up to c: nothing of those before a loss, unless one of
\* the stream was found since.
KnownTo(T, c, match, lst, str) ==
  /\ match \/ ~lst => Aligned(T, c)
  /\ ~lst => Supported(T, c) /\ \A q \in 1..c : T[q][2] # "end"
  /\ ~lst /\ ~match => NoneTo(T, c)
  /\ match => str \in Streams /\ LastIs(T, c, str)

\* A call that has read up to t holds the line under way, and has parsed those before it.
ReadTo(T, t, buf, match, par, lst, str) ==
  /\ Len(buf) <= t /\ Holds(T, t - Len(buf), t, buf)
  /\ \A q \in (t - Len(buf) + 1)..t : ~EndsLine(T[q])
  /\ IF par THEN Blen >= 2 ELSE t = 0 /\ ~match
  /\ KnownTo(T, t - Len(buf), match, lst, str)
  /\ ~lst => \A q \in 1..t : T[q][2] # "end"

Calls == [busy : BOOLEAN, buf : Seq(Piece), match : BOOLEAN]

AskedInv ==
  conn \in {"get", "established"} =>
    LastIs(table, taken, stream) /\ (lost \/ Supported(table, taken))

TableInv ==
  /\ WellCut(table) /\ TableTypeOK /\ call \in Calls
  /\ ~call.busy => call = NoCall
  /\ conn = "probe" => ReadTo(table, taken, call.buf, call.match, parsing, lost, stream)
  /\ conn # "probe" => ~call.busy
  /\ AskedInv

\* What is the same in each state of TableInv.
LEMMA Frame ==
  ASSUME TableInv
  PROVE  /\ WellCut(table) /\ table \in Seq(Piece) /\ Len(table) \in Nat
         /\ taken \in Nat /\ sent \in Nat /\ taken <= sent /\ sent <= Len(table)
         /\ closed \in BOOLEAN /\ parsing \in BOOLEAN /\ lost \in BOOLEAN
         /\ conn \in {"probe", "get", "established", "err"}
         /\ stream \in Streams \cup {NoStream} /\ reply \in Replies \cup {"unreached"}
         /\ call \in Calls /\ call.busy \in BOOLEAN /\ call.match \in BOOLEAN
         /\ call.buf \in Seq(Piece) /\ Len(call.buf) \in Nat /\ Len(call.buf) < Blen
BY DEF TableInv, TableTypeOK, WellCut, Calls

\* What a read makes of the match and the parameters of a call.
MatchWith(buf) == call.match \/ Matching(buf) # {}
StreamWith(buf) == IF Matching(buf) # {} THEN Taken(buf[Latest(Matching(buf))]) ELSE stream

\* What has come for a call is a part of the table, and so it is without the head.
LEMMA CameIs ==
  ASSUME TableInv, conn = "probe",
         NEW n, n \in Nat, taken + n <= Len(table), Len(call.buf) + n <= Blen,
         NEW came, came = call.buf \o SubSeq(table, taken + 1, taken + n), HeadCame(came),
         NEW buf, buf = WithoutHead(came)
  PROVE  /\ \E c \in 0..(taken + n) : /\ Holds(table, c, taken + n, buf)
                                      /\ KnownTo(table, c, call.match, lost, stream)
         /\ Blen >= 2 /\ taken + n \in 0..Len(table) /\ Len(buf) <= Blen
<1> PICK T, t, cb, match, par, lst, str :
      /\ T = table /\ t = taken /\ cb = call.buf /\ match = call.match
      /\ par = parsing /\ lst = lost /\ str = stream
  OBVIOUS
<1>a. /\ WellCut(T) /\ t \in 0..Len(T) /\ {match, par, lst} \subseteq BOOLEAN
      /\ ReadTo(T, t, cb, match, par, lst, str) /\ t + n <= Len(T) /\ Len(cb) + n <= Blen
      /\ came = cb \o SubSeq(T, t + 1, t + n)
  BY Frame DEF TableInv
<1>b. /\ par \/ <<1, "head", 2>> \in Range(came)
      /\ buf = IF par THEN came ELSE SubSeq(came, 3, Len(came))
  BY DEF HeadCame, WithoutHead
<1>c. n \in Nat
  OBVIOUS
<1> USE <1>a, <1>b
<1>1. /\ Len(T) \in Nat /\ t \in Nat /\ t <= Len(T) /\ T \in Seq(Piece) /\ Blen \in Nat
      /\ t + n <= Len(T) /\ Len(cb) + n <= Blen
  BY TableNumbers DEF WellCut
<1>2. PICK b, u, S : b = Len(cb) /\ u = t + n /\ S = SubSeq(T, t + 1, t + n)
  OBVIOUS
<1>3. /\ cb \in Seq(Piece) /\ b \in Nat /\ b <= t
      /\ \A i \in 1..b : cb[i] = T[t - b + i]
  <2>1. Len(cb) <= t /\ Holds(T, t - Len(cb), t, cb)
    BY DEF ReadTo
  <2>2. cb \in Seq(Piece) /\ \A i \in 1..(t - (t - Len(cb))) : cb[i] = T[t - Len(cb) + i]
    BY <2>1 DEF Holds
  <2>3. b \in Nat /\ t - (t - b) = b
    BY <1>1, <1>2, <2>2
  <2> QED BY <1>2, <2>1, <2>2, <2>3
<1>4. S \in Seq(Piece) /\ Len(S) = n /\ \A i \in 1..n : S[i] = T[t + i]
  <2>1. PICK w : w = t + 1
    OBVIOUS
  <2>2. w \in 1..(Len(T) + 1) /\ u \in (w - 1)..Len(T) /\ u - w + 1 = n
    BY <1>1, <1>2, <2>1
  <2>3. /\ SubSeq(T, w, u) \in Seq(Piece) /\ Len(SubSeq(T, w, u)) = u - w + 1
        /\ \A i \in 1..(u - w + 1) : SubSeq(T, w, u)[i] = T[w + i - 1]
    BY <1>1, <2>2, SubSeqProperties
  <2>4. S = SubSeq(T, w, u)
    BY <1>2, <2>1
  <2>5. \A i \in 1..n : w + i - 1 = t + i
    BY <1>1, <2>1
  <2> QED BY <2>2, <2>3, <2>4, <2>5
<1>5. /\ came \in Seq(Piece) /\ Len(came) = b + n
      /\ \A i \in 1..b : came[i] = cb[i]
      /\ \A i \in (b + 1)..(b + n) : came[i] = S[i - b]
  <2>1. came = cb \o S /\ cb \in Seq(Piece) /\ S \in Seq(Piece) /\ Len(cb) = b /\ Len(S) = n
    BY <1>2, <1>3, <1>4, <1>a
  <2>2. /\ cb \o S \in Seq(Piece) /\ Len(cb \o S) = Len(cb) + Len(S)
        /\ \A i \in 1..Len(cb) : (cb \o S)[i] = cb[i]
        /\ \A i \in (Len(cb) + 1)..(Len(cb) + Len(S)) : (cb \o S)[i] = S[i - Len(cb)]
    <3>1. cb \in Seq(Piece) /\ S \in Seq(Piece)
      BY <2>1
    <3> QED BY ONLY <3>1, JoinIs
  <2> QED BY ONLY <2>1, <2>2
<1>6. PICK a : a = t - b
  OBVIOUS
<1>7. a \in 0..u /\ u - a = b + n /\ u \in Nat /\ u <= Len(T) /\ a \in Nat
  <2>1. /\ t \in Nat /\ b \in Nat /\ b <= t /\ n \in Nat /\ u = t + n /\ a = t - b
        /\ Len(T) \in Nat /\ t + n <= Len(T)
    BY <1>1, <1>2, <1>3, <1>6
  <2> QED BY ONLY <2>1
<1>8. ASSUME NEW i \in 1..(b + n) PROVE came[i] = T[a + i]
  <2>1. CASE i <= b
    <3>1. i \in 1..b /\ t - b + i = a + i
      BY <2>1, <1>3, <1>6
    <3> QED BY <3>1, <1>3, <1>5
  <2>2. CASE i > b
    <3>1. PICK j : j = i - b
      OBVIOUS
    <3>2. b \in Nat /\ t \in Nat /\ a = t - b
      BY <1>1, <1>3, <1>6
    <3>3. i \in (b + 1)..(b + n) /\ j \in 1..n /\ t + j = a + i
      BY <2>2, <3>1, <3>2
    <3>4. S[j] = T[a + i]
      BY <1>4, <3>3
    <3>5. came[i] = S[j]
      BY <1>5, <3>1, <3>3
    <3> QED BY <3>4, <3>5
  <2>3. i \in Int /\ b \in Int
    BY <1>3
  <2>4. i <= b \/ i > b
    BY ONLY <2>3
  <2> QED BY ONLY <2>1, <2>2, <2>4
<1>9. KnownTo(T, a, match, lst, str) /\ IF par THEN Blen >= 2 ELSE t = 0 /\ ~match
  BY <1>2, <1>6, <1>a DEF ReadTo
<1>10. CASE par
  <2>1. buf = came
    BY <1>10, <1>b
  <2>2. Holds(T, a, u, buf)
    BY <1>5, <1>7, <1>8, <2>1 DEF Holds
  <2>3. Len(buf) <= Blen
    BY <1>2, <1>5, <2>1
  <2> QED BY <1>2, <1>7, <1>9, <1>10, <2>2, <2>3
<1>11. CASE ~par
  <2>1. t = 0 /\ ~match /\ b = 0 /\ a = 0 /\ u = n
    BY <1>1, <1>2, <1>3, <1>6, <1>9, <1>11
  <2>2. PICK i \in 1..n : came[i] = <<1, "head", 2>>
    <3>1. <<1, "head", 2>> \in Range(came)
      BY ONLY <1>11, <1>b
    <3>2. came \in Seq(Piece) /\ Len(came) = n
      BY ONLY <1>5, <1>c, <2>1
    <3>3. DOMAIN came = 1..n
      BY ONLY <3>2
    <3> QED BY ONLY <3>1, <3>3 DEF Range
  <2>3. T[i] = <<1, "head", 2>> /\ i # 1
    <3>1. came[i] = T[i]
      <4>1. i \in 1..(b + n) /\ a + i = i
        BY <2>1
      <4> QED BY <1>8, <4>1
    <3>2. T[1] = <<1, "head", 1>>
      BY DEF WellCut
    <3>3. T[i] = <<1, "head", 2>>
      BY <2>2, <3>1
    <3>4. i # 1
      BY ONLY <3>2, <3>3
    <3> QED BY <3>3, <3>4
  <2>4. n >= 2 /\ Blen >= 2 /\ 2 \in 0..u
    BY <1>1, <1>2, <2>1, <2>3
  <2>5. buf = SubSeq(came, 3, n)
    <3>1. Len(came) = n
      BY ONLY <1>5, <1>c, <2>1
    <3>2. buf = SubSeq(came, 3, Len(came))
      BY <1>11, <1>b
    <3> QED BY ONLY <3>1, <3>2
  <2>6. buf \in Seq(Piece) /\ Len(buf) = n - 2 /\ \A j \in 1..(n - 2) : buf[j] = came[2 + j]
    <3>1. came \in Seq(Piece) /\ Len(came) = n /\ n \in Nat /\ n >= 2
      BY ONLY <1>5, <1>c, <2>1, <2>4
    <3>2. \A k \in 3..n : came[k] \in Piece
      BY ONLY <3>1
    <3>3. /\ SubSeq(came, 3, n) \in Seq(Piece)
          /\ Len(SubSeq(came, 3, n)) = IF 3 <= n THEN n - 3 + 1 ELSE 0
          /\ \A k \in 1..(n - 3 + 1) : SubSeq(came, 3, n)[k] = came[3 + k - 1]
      BY ONLY <3>1, <3>2, SubSeqProperties
    <3>4. n - 3 + 1 = n - 2 /\ \A j \in 1..(n - 2) : 3 + j - 1 = 2 + j
      BY <3>1
    <3>5. 3 <= n \/ n - 2 = 0
      BY <3>1
    <3> QED BY ONLY <2>5, <3>3, <3>4, <3>5
  <2>7. ASSUME NEW j \in 1..(n - 2) PROVE buf[j] = T[2 + j]
    <3>1. 2 + j \in 1..(b + n) /\ a + (2 + j) = 2 + j
      BY <2>1, <2>4
    <3>2. came[2 + j] = T[2 + j]
      BY <1>8, <3>1
    <3> QED BY <2>6, <3>2
  <2>8. Holds(T, 2, u, buf)
    BY <2>1, <2>6, <2>7 DEF Holds
  <2>9. \A q \in 1..2 : T[q][2] = "head"
    BY DEF WellCut
  <2>10. Aligned(T, 2)
    <3>1. T[2] = <<1, "head", 2>> /\ LengthOf("head") = 2
      BY DEF WellCut, LengthOf
    <3> QED BY <3>1 DEF Aligned, EndsLine, KindOf
  <2>11. KnownTo(T, 2, match, lst, str)
    BY <2>1, <2>9, <2>10 DEF KnownTo, Supported, NoneTo, StreamLine, Streams
  <2>12. Len(buf) <= Blen
    BY <1>1, <1>2, <2>1, <2>6
  <2> QED BY <1>2, <1>7, <2>4, <2>8, <2>11, <2>12
<1> QED BY <1>10, <1>11

\* What is known after a read that went on.
LEMMA GoesFurther ==
  ASSUME TableInv, NEW c, c \in 0..Len(table), NEW t, t \in c..Len(table),
         NEW buf, Holds(table, c, t, buf), Stops(buf) = {}, Blen >= 2,
         KnownTo(table, c, call.match, lost, stream)
  PROVE  /\ ReadTo(table, t, Rest(buf), MatchWith(buf), TRUE, lost, StreamWith(buf))
         /\ Len(Rest(buf)) <= Len(buf)
         /\ Len(Rest(buf)) = Blen =>
              lost \/ \E q \in 1..Len(table) : EndsLine(table[q]) /\ table[q][2] = "long"
<1> PICK T, match, lst, str, match2, str2 :
      /\ T = table /\ match = call.match /\ lst = lost /\ str = stream
      /\ match2 = MatchWith(buf) /\ str2 = StreamWith(buf)
  OBVIOUS
<1>0. /\ WellCut(T) /\ c \in 0..Len(T) /\ t \in c..Len(T) /\ Holds(T, c, t, buf)
      /\ KnownTo(T, c, match, lst, str)
      /\ match2 = (match \/ Matching(buf) # {})
      /\ str2 = IF Matching(buf) # {} THEN Taken(buf[Latest(Matching(buf))]) ELSE str
      /\ match \in BOOLEAN /\ match2 \in BOOLEAN /\ lst \in BOOLEAN
  BY Frame DEF MatchWith, StreamWith
<1>00. Stops(buf) = {}
  OBVIOUS
<1> USE <1>0
<1>1. Len(T) \in Nat /\ c \in Nat /\ t \in Nat /\ t <= Len(T) /\ c <= t
  BY DEF WellCut
<1>2. PICK e \in c..t : /\ Holds(T, e, t, Rest(buf)) /\ (e = c \/ EndsLine(T[e]))
                        /\ \A r \in (e + 1)..t : ~EndsLine(T[r])
  BY ONLY <1>0, <1>00, GoesOn
<1>3. Aligned(T, c) => \A q \in (c + 1)..t :
              T[q][2] # "end" /\ (EndsLine(T[q]) => T[q][2] # "unsupported")
  BY ONLY <1>0, <1>00, GoesOn
<1>4. Matching(buf) # {} =>
              \E q \in (c + 1)..t :
                /\ StreamLine(T, q) /\ T[q][2] = Taken(buf[Latest(Matching(buf))])
                /\ \A r \in (q + 1)..t : ~StreamLine(T, r)
  BY ONLY <1>0, <1>00, GoesOn
<1>5. Matching(buf) = {} /\ Aligned(T, c) => \A q \in (c + 1)..t : ~StreamLine(T, q)
  BY ONLY <1>0, <1>00, GoesOn
<1>6. /\ match \/ ~lst => Aligned(T, c)
      /\ ~lst => Supported(T, c) /\ \A q \in 1..c : T[q][2] # "end"
      /\ ~lst /\ ~match => NoneTo(T, c)
      /\ match => str \in Streams /\ LastIs(T, c, str)
  BY DEF KnownTo
<1>7. e \in Nat /\ c <= e /\ e <= t
  BY <1>1
<1>8. Len(Rest(buf)) = t - e /\ t - (t - e) = e /\ t - e <= t
  BY <1>1, <1>2, <1>7 DEF Holds
<1>9. \A q \in 1..t : q \in 1..c \/ q \in (c + 1)..t
  BY <1>1
<1>10. \A q \in 1..e : q \in 1..t
  BY <1>1, <1>7
<1>11. ASSUME ~lst PROVE Supported(T, t) /\ \A q \in 1..t : T[q][2] # "end"
  BY <1>3, <1>6, <1>9, <1>11 DEF Supported
<1>12. ASSUME match2
       PROVE  \E q \in 1..e : /\ StreamLine(T, q) /\ T[q][2] = str2
                              /\ \A r \in (q + 1)..t : ~StreamLine(T, r)
  <2>1. CASE Matching(buf) # {}
    <3>1. PICK q \in (c + 1)..t : /\ StreamLine(T, q) /\ T[q][2] = str2
                                  /\ \A r \in (q + 1)..t : ~StreamLine(T, r)
      BY <1>4, <2>1
    <3>2. q \notin (e + 1)..t
      BY <1>2, <3>1 DEF StreamLine
    <3>3. q \in 1..e
      BY <1>1, <1>7, <3>2
    <3> QED BY <3>1, <3>3
  <2>2. CASE Matching(buf) = {}
    <3>1. match /\ str2 = str
      BY <1>12, <2>2
    <3>2. PICK q \in 1..c : /\ StreamLine(T, q) /\ T[q][2] = str
                            /\ \A r \in (q + 1)..c : ~StreamLine(T, r)
      BY <1>6, <3>1 DEF LastIs
    <3>3. ASSUME NEW r \in (q + 1)..t PROVE ~StreamLine(T, r)
      <4>1. r \in (q + 1)..c \/ r \in (c + 1)..t
        BY <1>1
      <4> QED BY <1>5, <1>6, <2>2, <3>1, <3>2, <4>1
    <3>4. q \in 1..e
      BY <1>1, <1>7
    <3> QED BY <3>1, <3>2, <3>3, <3>4
  <2> QED BY <2>1, <2>2
<1>13. ASSUME ~lst, ~match2 PROVE NoneTo(T, e)
  <2>1. Matching(buf) = {} /\ ~match
    BY <1>13
  <2> QED BY <1>5, <1>6, <1>9, <1>10, <1>13, <2>1 DEF NoneTo
<1>14. ASSUME match2 \/ ~lst PROVE Aligned(T, e)
  <2>1. CASE e # c
    BY <1>2, <2>1 DEF Aligned
  <2>2. CASE e = c /\ (match \/ ~lst)
    BY <1>6, <2>2
  <2>3. CASE e = c /\ ~match /\ lst
    <3>1. Matching(buf) # {}
      BY <1>14, <2>3
    <3>2. PICK q \in (c + 1)..t : StreamLine(T, q)
      BY <1>4, <3>1
    <3> QED BY <1>2, <2>3, <3>2 DEF StreamLine
  <2> QED BY <2>1, <2>2, <2>3
<1>15. ASSUME match2 PROVE str2 \in Streams
  <2>1. CASE Matching(buf) # {}
    BY <1>4, <2>1 DEF StreamLine
  <2>2. CASE Matching(buf) = {}
    BY <1>6, <1>15, <2>2
  <2> QED BY <2>1, <2>2
<1>16. ASSUME match2 PROVE LastIs(T, e, str2)
  <2>1. PICK q \in 1..e : /\ StreamLine(T, q) /\ T[q][2] = str2
                          /\ \A r \in (q + 1)..t : ~StreamLine(T, r)
    BY <1>12, <1>16
  <2>2. \A r \in (q + 1)..e : r \in (q + 1)..t
    BY <1>1, <1>7
  <2> QED BY <2>1, <2>2 DEF LastIs
<1>17. ASSUME ~lst PROVE Supported(T, e) /\ \A q \in 1..e : T[q][2] # "end"
  BY <1>10, <1>11, <1>17 DEF Supported
<1>18. KnownTo(T, e, match2, lst, str2)
  BY <1>13, <1>14, <1>15, <1>16, <1>17 DEF KnownTo
<1>19. ReadTo(T, t, Rest(buf), match2, TRUE, lst, str2)
  BY <1>2, <1>8, <1>11, <1>18 DEF ReadTo
<1>20. ASSUME Len(Rest(buf)) = Blen, ~lst
       PROVE  \E q \in 1..Len(T) : EndsLine(T[q]) /\ T[q][2] = "long"
  <2>1. e \in 0..Len(T) /\ t \in e..Len(T) /\ t - e = Blen
    BY <1>1, <1>7, <1>8, <1>20
  <2> QED BY <1>2, <1>14, <1>20, <2>1, TooLong
<1>21. Len(Rest(buf)) <= Len(buf)
  BY <1>1, <1>7, <1>8 DEF Holds
<1> QED BY <1>19, <1>20, <1>21

\* What is known after a read in which the end of the table was seen.
LEMMA EndIsSeen ==
  ASSUME TableInv, NEW c, c \in 0..Len(table), NEW t, t \in c..Len(table),
         NEW buf, Holds(table, c, t, buf), NEW s \in Stops(buf), Taken(buf[s]) = "end",
         KnownTo(table, c, call.match, lost, stream)
  PROVE  /\ MatchWith(buf) => LastIs(table, t, StreamWith(buf)) /\ (lost \/ Supported(table, t))
         /\ ~lost /\ ~MatchWith(buf) => NoneTo(table, Len(table))
<1> PICK T, match, lst, str, match2, str2 :
      /\ T = table /\ match = call.match /\ lst = lost /\ str = stream
      /\ match2 = MatchWith(buf) /\ str2 = StreamWith(buf)
  OBVIOUS
<1>0. /\ WellCut(T) /\ c \in 0..Len(T) /\ t \in c..Len(T) /\ Holds(T, c, t, buf)
      /\ KnownTo(T, c, match, lst, str)
      /\ match2 = (match \/ Matching(buf) # {})
      /\ str2 = IF Matching(buf) # {} THEN Taken(buf[Latest(Matching(buf))]) ELSE str
      /\ match \in BOOLEAN /\ match2 \in BOOLEAN /\ lst \in BOOLEAN
  BY Frame DEF MatchWith, StreamWith
<1> USE <1>0
<1>1. Len(T) \in Nat /\ c \in Nat /\ t \in Nat /\ t <= Len(T) /\ c <= t
  BY DEF WellCut
<1>2. Aligned(T, c) => \A q \in (c + 1)..t : EndsLine(T[q]) => T[q][2] # "unsupported"
  BY StopsThere
<1>3. Matching(buf) # {} =>
              \E q \in (c + 1)..t :
                /\ StreamLine(T, q) /\ T[q][2] = Taken(buf[Latest(Matching(buf))])
                /\ \A r \in (q + 1)..Len(T) : ~StreamLine(T, r)
  BY StopsThere
<1>4. Matching(buf) = {} /\ Aligned(T, c) => \A q \in (c + 1)..Len(T) : ~StreamLine(T, q)
  BY StopsThere
<1>5. /\ match \/ ~lst => Aligned(T, c)
      /\ ~lst => Supported(T, c)
      /\ ~lst /\ ~match => NoneTo(T, c)
      /\ match => LastIs(T, c, str)
  BY DEF KnownTo
<1>6. ASSUME ~lst PROVE Supported(T, t)
  <2>1. \A q \in 1..t : q \in 1..c \/ q \in (c + 1)..t
    BY <1>1
  <2> QED BY <1>2, <1>5, <1>6, <2>1 DEF Supported
<1>7. ASSUME match2 PROVE LastIs(T, t, str2)
  <2>1. CASE Matching(buf) # {}
    <3>1. PICK q \in (c + 1)..t : /\ StreamLine(T, q) /\ T[q][2] = str2
                                  /\ \A r \in (q + 1)..Len(T) : ~StreamLine(T, r)
      BY <1>3, <2>1
    <3>2. q \in 1..t /\ \A r \in (q + 1)..t : r \in (q + 1)..Len(T)
      BY <1>1
    <3> QED BY <3>1, <3>2 DEF LastIs
  <2>2. CASE Matching(buf) = {}
    <3>1. match /\ str2 = str
      BY <1>7, <2>2
    <3>2. PICK q \in 1..c : /\ StreamLine(T, q) /\ T[q][2] = str
                            /\ \A r \in (q + 1)..c : ~StreamLine(T, r)
      BY <1>5, <3>1 DEF LastIs
    <3>3. ASSUME NEW r \in (q + 1)..t PROVE ~StreamLine(T, r)
      <4>1. r \in (q + 1)..c \/ r \in (c + 1)..Len(T)
        BY <1>1
      <4> QED BY <1>4, <1>5, <2>2, <3>1, <3>2, <4>1
    <3>4. q \in 1..t
      BY <1>1
    <3> QED BY <3>1, <3>2, <3>3, <3>4 DEF LastIs
  <2> QED BY <2>1, <2>2
<1>8. ASSUME ~lst, ~match2 PROVE NoneTo(T, Len(T))
  <2>1. Matching(buf) = {} /\ ~match
    BY <1>8
  <2>2. \A q \in 1..Len(T) : q \in 1..c \/ q \in (c + 1)..Len(T)
    BY <1>1
  <2> QED BY <1>4, <1>5, <1>8, <2>1, <2>2 DEF NoneTo
<1> QED BY <1>6, <1>7, <1>8

LEMMA MatchIs ==
  ASSUME NEW buf, buf \in Seq(Piece), Matching(buf) # {}
  PROVE  Taken(buf[Latest(Matching(buf))]) \in Streams
<1>1. Matching(buf) \subseteq 1..Len(buf) /\ Len(buf) \in Nat
  BY DEF Matching, Parsed, Starts
<1>2. Latest(Matching(buf)) \in Matching(buf)
  BY <1>1, LatestIs
<1> QED BY <1>2 DEF Matching

\* What a call knows of the lines before the one it holds, it knows when it returns.
LEMMA Returns ==
  ASSUME TableInv, conn = "probe", NEW lst2 \in BOOLEAN
  PROVE  /\ call.match => LastIs(table, taken, stream) /\ (lost \/ Supported(table, taken))
         /\ lst2 \/ (~lost /\ ~call.match /\ call.buf = <<>>)
              => ReadTo(table, taken, <<>>, FALSE, parsing, lst2, stream)
<1> PICK T, t, buf, match, par, lst, str :
      /\ T = table /\ t = taken /\ buf = call.buf /\ match = call.match
      /\ par = parsing /\ lst = lost /\ str = stream
  OBVIOUS
<1>0. /\ ReadTo(T, t, buf, match, par, lst, str) /\ t \in Nat
      /\ match \in BOOLEAN /\ par \in BOOLEAN /\ lst \in BOOLEAN
  BY Frame DEF TableInv
<1> USE <1>0
<1>1. PICK a : a = t - Len(buf)
  OBVIOUS
<1>2. Holds(T, a, t, buf) /\ Len(buf) <= t /\ KnownTo(T, a, match, lst, str)
  BY <1>1 DEF ReadTo
<1>3. Len(buf) \in Nat /\ a \in Nat /\ a <= t
  BY <1>1, <1>2 DEF Holds
<1>4. \A q \in (a + 1)..t : ~EndsLine(T[q])
  BY <1>1 DEF ReadTo
<1>5. \A q \in 1..t : q \in 1..a \/ q \in (a + 1)..t
  BY <1>3
<1>6. ASSUME match PROVE LastIs(T, t, str)
  <2>1. PICK q \in 1..a : /\ StreamLine(T, q) /\ T[q][2] = str
                          /\ \A r \in (q + 1)..a : ~StreamLine(T, r)
    BY <1>2, <1>6 DEF KnownTo, LastIs
  <2>2. ASSUME NEW r \in (q + 1)..t PROVE ~StreamLine(T, r)
    <3>1. r \in (q + 1)..a \/ r \in (a + 1)..t
      BY <1>3
    <3> QED BY <1>4, <2>1, <3>1 DEF StreamLine
  <2>3. q \in 1..t
    BY <1>3
  <2> QED BY <2>1, <2>2, <2>3 DEF LastIs
<1>7. ASSUME ~lst PROVE Supported(T, t)
  BY <1>2, <1>4, <1>5, <1>7 DEF KnownTo, Supported
<1>8. ASSUME lst2 \/ (~lst /\ ~match /\ buf = <<>>)
      PROVE  ReadTo(T, t, <<>>, FALSE, par, lst2, str)
  <2>1. Len(<<>>) = 0 /\ t - 0 = t /\ 0 <= t
    OBVIOUS
  <2>2. Holds(T, t, t, <<>>)
    BY <2>1 DEF Holds
  <2>3. \A q \in (t + 1)..t : ~EndsLine(T[q])
    OBVIOUS
  <2>4. IF par THEN Blen >= 2 ELSE t = 0
    BY DEF ReadTo
  <2>5. ASSUME ~lst2 PROVE a = t /\ ~lst /\ ~match
    BY <1>1, <1>8, <2>1, <2>5
  <2>6. KnownTo(T, t, FALSE, lst2, str)
    BY <1>2, <2>5 DEF KnownTo
  <2>7. ~lst2 => \A q \in 1..t : T[q][2] # "end"
    BY <2>5 DEF ReadTo
  <2> QED BY <2>1, <2>2, <2>3, <2>4, <2>6, <2>7 DEF ReadTo
<1> QED BY <1>6, <1>7, <1>8

LEMMA LinesAre ==
  ASSUME NEW T, T \in Seq(Piece), NEW t, t \in 0..Len(T), NEW kinds
  PROVE  /\ Lines(kinds, SubSeq(T, 1, t)) = {q \in 1..t : T[q][2] \in kinds /\ EndsLine(T[q])}
         /\ \A q \in 1..t : SubSeq(T, 1, t)[q] = T[q]
<1>1. PICK S : S = SubSeq(T, 1, t)
  OBVIOUS
<1>2. t \in Nat /\ DOMAIN S = 1..t /\ \A q \in 1..t : S[q] = T[q]
  BY <1>1
<1> QED BY <1>1, <1>2 DEF Lines, KindOf

LEMMA AsksIs ==
  ASSUME NEW T, T \in Seq(Piece), NEW t, t \in 0..Len(T), NEW k, LastIs(T, t, k),
         NEW read, read = SubSeq(T, 1, t)
  PROVE  /\ Lines(Streams, read) # {} /\ k = KindOf(read[Latest(Lines(Streams, read))])
         /\ Supported(T, t) => Lines({"unsupported"}, read) = {}
<1>1. t \in Nat
  OBVIOUS
<1>2. PICK q \in 1..t : StreamLine(T, q) /\ T[q][2] = k /\ \A r \in (q + 1)..t : ~StreamLine(T, r)
  BY DEF LastIs
<1>3. PICK S : S = Lines(Streams, read)
  OBVIOUS
<1>4. S = {r \in 1..t : T[r][2] \in Streams /\ EndsLine(T[r])}
  BY <1>3, LinesAre
<1>5. q \in S /\ S \subseteq 1..t
  BY <1>2, <1>4 DEF StreamLine
<1>6. Latest(S) \in S /\ Latest(S) >= q
  BY <1>1, <1>5, LatestIs
<1>7. Latest(S) \notin (q + 1)..t
  BY <1>2, <1>4, <1>6 DEF StreamLine
<1>8. Latest(S) = q
  <2>1. PICK m : m = Latest(S)
    OBVIOUS
  <2>2. m \in 1..t /\ q \in 1..t /\ m >= q /\ m \notin (q + 1)..t
    BY <1>5, <1>6, <1>7, <2>1
  <2> QED BY <1>1, <2>1, <2>2
<1>9. read[q] = T[q]
  BY LinesAre
<1>10. k = KindOf(read[Latest(S)])
  BY <1>2, <1>8, <1>9 DEF KindOf
<1>11. ASSUME Supported(T, t) PROVE Lines({"unsupported"}, read) = {}
  <2>1. Lines({"unsupported"}, read) = {r \in 1..t : T[r][2] \in {"unsupported"} /\ EndsLine(T[r])}
    BY LinesAre
  <2> QED BY <1>11, <2>1 DEF Supported
<1> QED BY <1>3, <1>5, <1>10, <1>11

LEMMA AskedAsTold == TableInv => AsksAsTold
<1> SUFFICES ASSUME TableInv, conn \in {"get", "established"}
             PROVE  LET read == SubSeq(table, 1, taken)
                    IN  /\ Lines(Streams, read) # {} /\ stream = KindOf(read[Latest(Lines(Streams, read))])
                        /\ lost \/ Lines({"unsupported"}, read) = {}
  BY DEF AsksAsTold
<1>1. table \in Seq(Piece) /\ taken \in 0..Len(table)
  BY DEF TableInv, WellCut, TableTypeOK
<1>2. LastIs(table, taken, stream) /\ (lost \/ Supported(table, taken))
  BY DEF TableInv, AskedInv
<1>3. PICK read : read = SubSeq(table, 1, taken)
  OBVIOUS
<1>4. /\ Lines(Streams, read) # {} /\ stream = KindOf(read[Latest(Lines(Streams, read))])
      /\ Supported(table, taken) => Lines({"unsupported"}, read) = {}
  BY <1>1, <1>2, <1>3, AsksIs
<1> QED BY <1>2, <1>3, <1>4

-----------------------------------------------------------------------------
(* The steps of the reading. *)

\* What a step that refuses the table may be excused by.
Excused ==
  conn = "probe" /\ conn' = "err" =>
    \/ reply' = "unreached" \/ lost \/ ~parsing'
    \/ closed /\ sent < Len(table)
    \/ Lines({"unsupported", "long"}, table) # {}
    \/ Lines(Streams, table) = {}

LEMMA NoCallIs ==
  /\ NoCall \in Calls /\ NoCall.buf = <<>> /\ Len(NoCall.buf) = 0
  /\ NoCall.match = FALSE /\ NoCall.busy = FALSE
<1>1. <<>> \in Seq(Piece) /\ Len(<<>>) = 0
  OBVIOUS
<1> QED BY <1>1 DEF NoCall, Calls

LEMMA TableInitial == TableInit => TableInv
<1> SUFFICES ASSUME TableInit PROVE TableInv
  OBVIOUS
<1>1. WellCut(table)
  <2>1. PICK ls \in UNION {[1..n -> Kinds] : n \in 0..MaxTable} :
            table = Pieces(<<"head">> \o ls \o <<"end">>)
    BY DEF TableInit
  <2>2. PICK n \in 0..MaxTable : ls \in [1..n -> Kinds]
    OBVIOUS
  <2>3. n \in Nat
    BY TableNumbers
  <2> QED BY <2>1, <2>2, <2>3, TablesAreWellCut
<1>2. table \in Seq(Piece) /\ Len(table) \in Nat
  BY <1>1 DEF WellCut
<1>3. /\ sent = 0 /\ taken = 0 /\ closed = FALSE /\ conn = "probe" /\ parsing = FALSE
      /\ stream = NoStream /\ call = NoCall /\ reply = "unknown" /\ lost = FALSE
  BY DEF TableInit
<1>4. call \in Calls /\ call.buf = <<>> /\ call.match = FALSE /\ call.busy = FALSE /\ Len(<<>>) = 0
  BY <1>3, NoCallIs
<1>5. TableTypeOK
  <2>1. taken \in 0..sent /\ sent \in 0..Len(table)
    BY <1>2, <1>3
  <2>4. closed \in BOOLEAN /\ parsing \in BOOLEAN /\ lost \in BOOLEAN
    BY <1>3
  <2>2. call.busy \in BOOLEAN /\ call.match \in BOOLEAN /\ Len(call.buf) < Blen
    <3>1. Len(call.buf) = 0
      BY <1>4
    <3>2. 0 < Blen
      BY TableNumbers
    <3>3. call.busy \in BOOLEAN /\ call.match \in BOOLEAN
      BY <1>4
    <3> QED BY <3>1, <3>2, <3>3
  <2>3. conn \in {"probe", "get", "established", "err"} /\ reply \in Replies
    BY <1>3 DEF Replies
  <2> QED BY <1>3, <2>1, <2>2, <2>3, <2>4 DEF TableTypeOK
<1>6. ReadTo(table, 0, <<>>, FALSE, FALSE, FALSE, stream)
  <2>1. Len(<<>>) = 0 /\ 0 - 0 = 0 /\ <<>> \in Seq(Piece) /\ 1..0 = {}
    OBVIOUS
  <2>2. Holds(table, 0, 0, <<>>)
    BY <2>1 DEF Holds
  <2>3. KnownTo(table, 0, FALSE, FALSE, stream)
    BY <2>1 DEF KnownTo, Aligned, Supported, NoneTo
  <2>4. 0 - Len(<<>>) = 0 /\ Len(<<>>) <= 0
    <3>1. PICK z : z = Len(<<>>)
      OBVIOUS
    <3>2. z = 0
      BY <2>1, <3>1
    <3>3. 0 - z = 0 /\ z <= 0
      BY ONLY <3>2
    <3> QED BY ONLY <3>1, <3>3
  <2>5. \A q \in (0 + 1)..0 : ~EndsLine(table[q]) /\ FALSE
    BY <2>1
  <2>6. \A q \in (0 - Len(<<>>) + 1)..0 : ~EndsLine(table[q])
    BY <2>4, <2>5
  <2>7. \A q \in 1..0 : table[q][2] # "end"
    BY <2>1
  <2>8. Holds(table, 0 - Len(<<>>), 0, <<>>) /\ KnownTo(table, 0 - Len(<<>>), FALSE, FALSE, stream)
    BY <2>2, <2>3, <2>4
  <2> QED BY ONLY <2>4, <2>6, <2>7, <2>8 DEF ReadTo
<1>7. AskedInv
  BY <1>3 DEF AskedInv
<1> QED BY <1>1, <1>3, <1>4, <1>5, <1>6, <1>7 DEF TableInv

\* A step that ends a call and with it the probe.
LEMMA Answered ==
  ASSUME TableInv, taken' \in taken..sent, conn' \in {"get", "err"}, call' = NoCall,
         reply' \in Replies \cup {"unreached"}, parsing' \in BOOLEAN, lost' \in BOOLEAN,
         stream' \in Streams \cup {NoStream}, UNCHANGED <<table, sent, closed>>,
         conn' = "get" => LastIs(table, taken', stream') /\ (lost' \/ Supported(table, taken'))
  PROVE  TableInv'
<1>1. NoCall \in Calls /\ NoCall.busy = FALSE /\ NoCall.match = FALSE /\ Len(NoCall.buf) = 0
  BY NoCallIs
<1>2. TableTypeOK'
  <2>1. taken' \in 0..sent' /\ sent' \in 0..Len(table')
    BY Frame
  <2>4. closed' \in BOOLEAN /\ parsing' \in BOOLEAN /\ lost' \in BOOLEAN
    BY Frame
  <2>2. (call.busy \in BOOLEAN /\ call.match \in BOOLEAN /\ Len(call.buf) < Blen)'
    <3>1. call'.busy = FALSE /\ call'.match = FALSE /\ Len(call'.buf) = 0
      BY <1>1
    <3>2. 0 < Blen
      BY TableNumbers
    <3> QED BY <3>1, <3>2
  <2>3. (conn \in {"probe", "get", "established", "err"})'
    OBVIOUS
  <2> QED BY <2>1, <2>2, <2>3, <2>4 DEF TableTypeOK
<1>3. AskedInv'
  BY DEF AskedInv
<1> QED BY <1>1, <1>2, <1>3 DEF TableInv

LEMMA OneRead ==
  ASSUME TableInv, ReadTable
  PROVE  TableInv' /\ Excused
<1> DEFINE room == Blen - Len(call.buf)
           n == IF sent - taken < room THEN sent - taken ELSE room
           came == call.buf \o SubSeq(table, taken + 1, taken + n)
           buf == WithoutHead(came)
           match == call.match \/ Matching(buf) # {}
<1>1. /\ call.busy /\ taken < sent /\ taken' = taken + n
      /\ parsing' = (parsing \/ HeadCame(came))
      /\ stream' = IF HeadCame(came) /\ Matching(buf) # {}
                   THEN Taken(buf[Latest(Matching(buf))]) ELSE stream
      /\ table' = table /\ sent' = sent /\ closed' = closed /\ lost' = lost
  BY DEF ReadTable
<1>2. IF ~HeadCame(came) THEN Fails /\ UNCHANGED reply
      ELSE IF Stops(buf) # {}
      THEN IF match /\ \A p \in Stops(buf) : Taken(buf[p]) = "end"
           THEN Requests /\ call' = NoCall
           ELSE Fails /\ UNCHANGED reply
      ELSE IF Len(Rest(buf)) = Blen THEN Fails /\ UNCHANGED reply
      ELSE /\ call' = [call EXCEPT !.buf = Rest(buf), !.match = match]
           /\ UNCHANGED <<conn, reply>>
  BY DEF ReadTable
<1>3. /\ n \in Nat /\ taken + n <= sent /\ taken + n \in taken..sent /\ Len(call.buf) + n <= Blen
      /\ taken + n <= Len(table) /\ taken \in 0..Len(table)
  <2>1. PICK b, x : b = Len(call.buf) /\ x = Len(table)
    OBVIOUS
  <2>2. /\ taken \in Nat /\ sent \in Nat /\ taken <= sent /\ sent <= x /\ x \in Nat
        /\ b \in Nat /\ b < Blen /\ Blen \in Nat
    BY <2>1, Frame, TableNumbers
  <2>3. n = IF sent - taken < Blen - b THEN sent - taken ELSE Blen - b
    BY <2>1
  <2>4. n \in Nat /\ taken + n <= sent /\ b + n <= Blen
    <3> HIDE DEF n
    <3> QED BY ONLY <2>2, <2>3
  <2> HIDE DEF n
  <2> QED BY ONLY <2>1, <2>2, <2>4
<1>4. buf = IF parsing THEN came ELSE SubSeq(came, 3, Len(came))
  BY DEF WithoutHead
<1> HIDE DEF n, came, buf
<1>5. conn = "probe" /\ ReadTo(table, taken, call.buf, call.match, parsing, lost, stream)
  BY <1>1 DEF TableInv
<1>6. parsing' \in BOOLEAN /\ (HeadCame(came) <=> parsing \/ <<1, "head", 2>> \in Range(came))
  BY <1>1 DEF HeadCame
<1>7. CASE ~HeadCame(came)
  <2>1. conn' = "err" /\ call' = NoCall /\ reply' = reply /\ stream' = stream /\ ~parsing'
    BY <1>1, <1>2, <1>6, <1>7 DEF Fails
  <2>2. TableInv'
    BY <1>1, <1>3, <1>6, <2>1, Frame, Answered
  <2> QED BY <2>1, <2>2 DEF Excused
<1>8. CASE HeadCame(came)
  <2>1. PICK u : u = taken + n
    OBVIOUS
  <2>2. /\ \E c \in 0..u : Holds(table, c, u, buf) /\ KnownTo(table, c, call.match, lost, stream)
        /\ Blen >= 2 /\ u \in 0..Len(table) /\ Len(buf) <= Blen
    <3>1. came = call.buf \o SubSeq(table, taken + 1, taken + n) /\ buf = WithoutHead(came)
      BY DEF came, buf
    <3> QED BY <1>3, <1>5, <1>8, <2>1, <3>1, CameIs
  <2>3. PICK c \in 0..u : Holds(table, c, u, buf) /\ KnownTo(table, c, call.match, lost, stream)
    BY <2>2
  <2>4. c \in 0..Len(table) /\ u \in c..Len(table) /\ buf \in Seq(Piece) /\ Blen >= 2
    BY <2>2, <2>3, Frame DEF Holds
  <2>5. match = MatchWith(buf) /\ match \in BOOLEAN
    BY DEF MatchWith
  <2>6. /\ stream' = StreamWith(buf) /\ stream' \in Streams \cup {NoStream}
        /\ taken' = u /\ parsing' = TRUE
    <3>1. Matching(buf) # {} => Taken(buf[Latest(Matching(buf))]) \in Streams
      BY <2>4, MatchIs
    <3> QED BY <1>1, <1>6, <1>8, <2>1, <3>1, Frame DEF StreamWith
  <2> HIDE DEF match
  <2>7. CASE Stops(buf) # {}
    <3>1. PICK s \in Stops(buf) : TRUE
      BY <2>7
    <3>2. Stops(buf) = {s}
      BY <2>4, StoppedAt
    <3>3. CASE match /\ Taken(buf[s]) = "end"
      <4>1. Requests /\ call' = NoCall
        BY <1>2, <1>8, <2>7, <3>2, <3>3
      <4>2. LastIs(table, u, StreamWith(buf)) /\ (lost \/ Supported(table, u))
        BY <2>3, <2>4, <2>5, <3>3, EndIsSeen
      <4>3. /\ conn' \in {"get", "err"} /\ reply' \in Replies \cup {"unreached"}
            /\ conn' = "err" => reply' = "unreached"
        BY <4>1 DEF Requests
      <4>4. TableInv'
        BY <1>1, <1>3, <2>1, <2>6, <4>1, <4>2, <4>3, Frame, Answered
      <4> QED BY <4>3, <4>4 DEF Excused
    <3>4. CASE ~(match /\ Taken(buf[s]) = "end")
      <4>1. conn' = "err" /\ call' = NoCall /\ reply' = reply
        BY <1>2, <1>8, <2>7, <3>2, <3>4 DEF Fails
      <4>2. TableInv'
        BY <1>1, <1>3, <2>1, <2>6, <4>1, Frame, Answered
      <4>3. CASE Taken(buf[s]) # "end"
        <5>1. PICK q \in 1..Len(table) : EndsLine(table[q]) /\ table[q][2] = "unsupported"
          BY <2>3, <2>4, <4>3, Frame, StopsBefore
        <5>2. q \in Lines({"unsupported", "long"}, table)
          BY <5>1, Frame DEF Lines, KindOf
        <5> QED BY <4>2, <5>2 DEF Excused
      <4>4. CASE Taken(buf[s]) = "end"
        <5>1. ~MatchWith(buf)
          BY <2>5, <3>4, <4>4
        <5>2. lost \/ NoneTo(table, Len(table))
          BY <2>3, <2>4, <4>4, <5>1, EndIsSeen
        <5>3. lost \/ Lines(Streams, table) = {}
          BY <5>2, Frame DEF Lines, NoneTo, StreamLine, KindOf
        <5> QED BY <4>2, <5>3 DEF Excused
      <4> QED BY <4>3, <4>4
    <3> QED BY <3>3, <3>4
  <2>8. CASE Stops(buf) = {}
    <3>1. /\ ReadTo(table, u, Rest(buf), MatchWith(buf), TRUE, lost, StreamWith(buf))
          /\ Len(Rest(buf)) <= Len(buf)
          /\ Len(Rest(buf)) = Blen =>
               lost \/ \E q \in 1..Len(table) : EndsLine(table[q]) /\ table[q][2] = "long"
      BY <2>3, <2>4, <2>8, GoesFurther
    <3>2. CASE Len(Rest(buf)) = Blen
      <4>1. conn' = "err" /\ call' = NoCall /\ reply' = reply
        BY <1>2, <1>8, <2>8, <3>2 DEF Fails
      <4>2. TableInv'
        BY <1>1, <1>3, <2>1, <2>6, <4>1, Frame, Answered
      <4>3. lost \/ Lines({"unsupported", "long"}, table) # {}
        BY <3>1, <3>2, Frame DEF Lines, KindOf
      <4> QED BY <4>2, <4>3 DEF Excused
    <3>3. CASE Len(Rest(buf)) # Blen
      <4>1. /\ call' = [call EXCEPT !.buf = Rest(buf), !.match = match]
            /\ conn' = conn /\ reply' = reply
        BY <1>2, <1>8, <2>8, <3>3
      <4>2. Rest(buf) \in Seq(Piece) /\ Len(Rest(buf)) \in Nat
        BY <3>1 DEF ReadTo, Holds
      <4>3. call' \in Calls /\ call'.buf = Rest(buf) /\ call'.match = MatchWith(buf) /\ call'.busy
        BY <1>1, <2>5, <4>1, <4>2, Frame DEF Calls
      <4>4. Len(Rest(buf)) < Blen
        <5>1. PICK x, y, z : x = Len(Rest(buf)) /\ y = Len(buf) /\ z = Blen
          OBVIOUS
        <5>2. x \in Nat /\ y \in Nat /\ z \in Nat
          BY <2>4, <4>2, <5>1, TableNumbers
        <5>3. x <= y /\ y <= z /\ x # z
          BY <2>2, <3>1, <3>3, <5>1
        <5>4. x < z
          BY ONLY <5>2, <5>3
        <5> QED BY <5>1, <5>4
      <4>5. TableTypeOK'
        <5>1. taken' \in 0..sent' /\ sent' \in 0..Len(table')
          BY <1>1, <1>3, Frame
        <5>2. closed' \in BOOLEAN /\ parsing' \in BOOLEAN /\ lost' \in BOOLEAN
          BY <1>1, <1>6, Frame
        <5>3. /\ conn' \in {"probe", "get", "established", "err"}
              /\ stream' \in Streams \cup {NoStream} /\ reply' \in Replies \cup {"unreached"}
          BY <2>6, <4>1, Frame
        <5>4. call'.busy \in BOOLEAN /\ call'.match \in BOOLEAN /\ Len(call'.buf) < Blen
          BY <4>3, <4>4 DEF Calls
        <5> QED BY <5>1, <5>2, <5>3, <5>4 DEF TableTypeOK
      <4>6. ReadTo(table, taken, call.buf, call.match, parsing, lost, stream)'
        BY <1>1, <2>6, <3>1, <4>3
      <4>7. AskedInv'
        BY <1>5, <4>1 DEF AskedInv
      <4>8. WellCut(table)' /\ (conn = "probe")'
        BY <1>1, <1>5, <4>1, Frame
      <4>9. TableInv'
        BY <4>3, <4>5, <4>6, <4>7, <4>8 DEF TableInv
      <4> QED BY <1>5, <4>1, <4>9 DEF Excused
    <3> QED BY <3>2, <3>3
  <2> QED BY <2>7, <2>8
<1> QED BY <1>7, <1>8

\* The other steps of a reading.
LEMMA Reading ==
  ASSUME TableInv, Call \/ NothingMore \/ TableEnds
  PROVE  TableInv' /\ Excused
<1>1. conn = "probe"
  BY DEF TableInv, Call, NothingMore, TableEnds
<1>2. ReadTo(table, taken, call.buf, call.match, parsing, lost, stream)
  BY <1>1 DEF TableInv
<1>3. CASE Call
  <2>1. /\ ~call.busy /\ call' = [NoCall EXCEPT !.busy = TRUE]
        /\ UNCHANGED <<table, sent, taken, closed, conn, parsing, stream, reply, lost>>
    BY <1>3 DEF Call
  <2>2. call'.buf = <<>> /\ call'.match = FALSE /\ call'.busy = TRUE /\ call' \in Calls
    BY <2>1, NoCallIs DEF NoCall, Calls
  <2>3. call = NoCall
    BY <2>1 DEF TableInv
  <2>4. ReadTo(table, taken, <<>>, FALSE, parsing, lost, stream)
    BY <1>2, <2>3, NoCallIs
  <2>5. TableTypeOK'
    BY <2>1, <2>2, <2>3, NoCallIs DEF TableInv, TableTypeOK
  <2>6. TableInv'
    BY <1>1, <2>1, <2>2, <2>4, <2>5 DEF TableInv, AskedInv
  <2> QED BY <1>1, <2>1, <2>6 DEF Excused
<1>4. CASE NothingMore
  <2>1. /\ call' = NoCall /\ lost' = (lost \/ call.buf # <<>>)
        /\ IF call.match THEN Requests ELSE UNCHANGED <<conn, reply>>
        /\ UNCHANGED <<table, sent, taken, closed, parsing, stream>>
    BY <1>4 DEF NothingMore
  <2>2. lost' \in BOOLEAN /\ (lost => lost')
    BY <2>1, Frame
  <2>3. CASE call.match
    <3>1. LastIs(table, taken, stream) /\ (lost \/ Supported(table, taken))
      BY <1>1, <2>3, Returns
    <3>2. /\ conn' \in {"get", "err"} /\ reply' \in Replies \cup {"unreached"}
          /\ conn' = "err" => reply' = "unreached"
      BY <2>1, <2>3 DEF Requests
    <3>3. TableInv'
      BY <2>1, <2>2, <3>1, <3>2, Frame, Answered
    <3> QED BY <3>2, <3>3 DEF Excused
  <2>4. CASE ~call.match
    <3>1. lost' \/ (~lost /\ ~call.match /\ call.buf = <<>>)
      <4>1. CASE lost \/ call.buf # <<>>
        BY <2>1, <4>1
      <4>2. CASE ~(lost \/ call.buf # <<>>)
        BY <2>4, <4>2
      <4> QED BY <4>1, <4>2
    <3>2. ReadTo(table, taken, <<>>, FALSE, parsing, lost', stream)
      BY <1>1, <2>2, <3>1, Returns
    <3>3. conn' = conn /\ reply' = reply
      BY <2>1, <2>4
    <3>4. TableTypeOK'
      <4>1. taken' \in 0..sent' /\ sent' \in 0..Len(table')
        BY <2>1, Frame
      <4>2. closed' \in BOOLEAN /\ parsing' \in BOOLEAN /\ lost' \in BOOLEAN
        BY <2>1, <2>2, Frame
      <4>3. call'.busy \in BOOLEAN /\ call'.match \in BOOLEAN /\ Len(call'.buf) < Blen
        <5>1. 0 < Blen
          BY TableNumbers
        <5> QED BY <2>1, <5>1, NoCallIs
      <4> QED BY <2>1, <3>3, <4>1, <4>2, <4>3, Frame DEF TableTypeOK
    <3>5. TableInv'
      <4>1. WellCut(table') /\ call' \in Calls /\ call'.busy = FALSE
        BY <2>1, Frame, NoCallIs
      <4>2. ReadTo(table', taken', call'.buf, call'.match, parsing', lost', stream')
        BY <2>1, <3>2, NoCallIs
      <4> QED BY <1>1, <2>1, <3>3, <3>4, <4>1, <4>2 DEF TableInv, AskedInv
    <3> QED BY <1>1, <3>3, <3>5 DEF Excused
  <2> QED BY <2>3, <2>4
<1>5. CASE TableEnds
  <2>1. /\ conn' = "err" /\ call' = NoCall /\ taken = sent /\ closed
        /\ UNCHANGED <<table, sent, taken, closed, parsing, stream, reply, lost>>
    BY <1>5 DEF TableEnds, Fails
  <2>2. TableInv'
    BY <2>1, Frame, Answered
  <2>3. lost \/ sent < Len(table)
    <3>1. CASE lost
      BY <3>1
    <3>2. CASE ~lost
      <4>1. \A q \in 1..taken : table[q][2] # "end"
        BY <1>2, <3>2 DEF ReadTo
      <4>2. table[Len(table)][2] = "end" /\ Len(table) > 2
        BY Frame DEF WellCut
      <4> QED BY <2>1, <4>1, <4>2, Frame
    <3> QED BY <3>1, <3>2
  <2> QED BY <2>1, <2>2, <2>3 DEF Excused
<1> QED BY <1>3, <1>4, <1>5

LEMMA TableStep == TableInv /\ [TableNext]_tableVars => TableInv' /\ Excused
<1> SUFFICES ASSUME TableInv, [TableNext]_tableVars PROVE TableInv' /\ Excused
  OBVIOUS
<1>1. CASE CasterSends
  <2>1. /\ sent' \in (sent + 1)..Len(table) /\ conn = "probe"
        /\ UNCHANGED <<table, taken, closed, conn, parsing, stream, call, reply, lost>>
    BY <1>1 DEF CasterSends
  <2>2. taken' \in 0..sent' /\ sent' \in 0..Len(table')
    BY <2>1, Frame
  <2>3. TableTypeOK'
    BY <2>1, <2>2 DEF TableInv, TableTypeOK
  <2> QED BY <2>1, <2>3 DEF TableInv, AskedInv, Excused
<1>2. CASE CasterCloses
  <2>1. /\ closed' = TRUE
        /\ UNCHANGED <<table, sent, taken, conn, parsing, stream, call, reply, lost>>
    BY <1>2 DEF CasterCloses
  <2>2. closed' \in BOOLEAN /\ parsing' \in BOOLEAN /\ lost' \in BOOLEAN
    BY <2>1, Frame
  <2>3. TableTypeOK'
    BY <2>1, <2>2 DEF TableInv, TableTypeOK
  <2> QED BY <2>1, <2>3 DEF TableInv, AskedInv, Excused
<1>3. CASE Reads
  BY <1>3, OneRead, Reading DEF Reads
<1>4. CASE Answers
  <2>1. /\ conn = "get" /\ conn' \in {"established", "err"}
        /\ UNCHANGED <<table, sent, taken, closed, parsing, stream, call, reply, lost>>
    BY <1>4 DEF Answers, ReadReply
  <2>2. TableTypeOK'
    BY <2>1 DEF TableInv, TableTypeOK
  <2> QED BY <2>1, <2>2 DEF TableInv, AskedInv, Excused
<1>5. CASE UNCHANGED tableVars
  BY <1>5 DEF TableInv, TableTypeOK, AskedInv, Excused, tableVars
<1> QED BY <1>1, <1>2, <1>3, <1>4, <1>5 DEF TableNext

\* However the table is cut into reads and whatever the caster does, the stream is asked for
\* with the parameters of the last line of its name, and a table is refused only for one of
\* the reasons ntrip_sourcetable_parse has.
THEOREM TableRead == TableSpec => TableIsRead
<1>1. TableInit => TableInv
  BY TableInitial
<1>2. TableInv /\ [TableNext]_tableVars => TableInv'
  BY TableStep
<1>3. TableInv => TableTypeOK /\ AsksAsTold
  BY AskedAsTold DEF TableInv
<1>4. TableInv /\ [TableNext]_tableVars =>
        [conn = "probe" /\ conn' = "err" =>
           \/ reply' = "unreached" \/ lost \/ ~parsing'
           \/ closed /\ sent < Len(table)
           \/ Lines({"unsupported", "long"}, table) # {}
           \/ Lines(Streams, table) = {}]_tableVars
  BY TableStep DEF Excused
<1> QED BY <1>1, <1>2, <1>3, <1>4, PTL DEF TableSpec, TableIsRead, RefusedForAReason
=============================================================================
