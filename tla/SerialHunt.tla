----------------------------- MODULE SerialHunt -----------------------------
(***************************************************************************)
(* How gpsd finds the speed of a serial receiver (serial.c, and the place   *)
(* in gpsd_poll() that asks for the next setting).                          *)
(*                                                                          *)
(* A speed is its index in the table of gpsd_next_hunt_setting(): 0 is B0,  *)
(* which leaves the port as it is, and LastIndex + 1 stands for a speed     *)
(* that is not in the table.  A setting is a speed with its parity and stop *)
(* bits (two stop bits mean seven data bits).  What a poll makes of the     *)
(* characters is its outcome: no packet yet, one whose checksum is wrong, a *)
(* comment, or a packet.  The kernel keeps the setting of a closed port.    *)
(***************************************************************************)
EXTENDS Integers

CONSTANTS
  LastIndex,     \* last index of rates[]
  ProbeRate,     \* the speed tsip_detect() tries, 9600
  SniffRetries,  \* SNIFF_RETRIES
  PacketPolls,   \* polls until a packet is complete, at most
  MaxNoise,      \* bound: polls at the right setting spoilt by noise
  MaxMoves,      \* bound: changes of the receiver's setting
  MaxReleases    \* bound: the last client goes and the device is closed

ASSUME HuntNumbers ==
  /\ LastIndex \in Nat /\ ProbeRate \in 1..LastIndex
  /\ {SniffRetries, PacketPolls} \subseteq Nat \ {0} /\ PacketPolls <= SniffRetries
  /\ {MaxNoise, MaxMoves, MaxReleases} \subseteq Nat

NoSpeed == -1
OffTable == LastIndex + 1
Setting == [rate : 0..OffTable, parity : {"N", "O"}, stop : 1..3]

VARIABLES
  receiver,  \* the setting the receiver sends at
  port,      \* the setting of the terminal
  tty,       \* the device: what gpsd_t keeps of it, see Device
  spent,     \* the bounds used up
  steady     \* nothing has disturbed the reception since the device was opened

huntVars == <<receiver, port, tty, spent, steady>>

Device == [open : BOOLEAN,
           baud : 0..OffTable, parity : {"N", "O"}, stop : 1..3,   \* gpsdata.dev
           old : 0..OffTable,                \* the speed in ttyset_old
           saved : NoSpeed..OffTable,        \* saved_baud
           index : 0..LastIndex,             \* baudindex
           retries : 0..SniffRetries,        \* packet.retry_counter
           polls : 0..2,                     \* getcount, beyond 2 all the same
           type : {"bad", "comment", "packet"},
           pieces : 0..PacketPolls - 1]      \* polls since the last packet

Tuned == tty.open /\ port = receiver
Heard   == Tuned /\ tty.type = "packet"

\* Broken: a setting of the same speed is not applied.
SetSpeed_SameRate(s, rate, parity, stop) ==
  LET set == IF rate \in {0, s.port.rate} THEN s.port ELSE [rate |-> rate, parity |-> parity, stop |-> stop]
  IN  [port |-> set, tty |-> [s.tty EXCEPT !.baud = rate, !.parity = parity, !.stop = stop,
                                           !.type = "bad", !.pieces = 0]]

\* gpsd_set_speed: the port is left alone if nothing changes, its speed if the new one is
\* 0; the lexer starts afresh in any case.
SetSpeed(s, rate, parity, stop) ==
  LET same == rate = s.port.rate /\ parity = s.tty.parity /\ stop = s.tty.stop
      set  == [rate |-> IF rate = 0 THEN s.port.rate ELSE rate, parity |-> parity, stop |-> stop]
  IN  [port |-> IF same THEN s.port ELSE set,
       tty |-> [s.tty EXCEPT !.baud = rate, !.parity = parity, !.stop = stop,
                             !.type = "bad", !.pieces = 0]]

Terminal == [port |-> port, tty |-> tty]
Becomes(s) == port' = s.port /\ tty' = s.tty

\* gpsd_get_speed: what it does not know it takes for 115200.
GetSpeed(rate) == IF rate = OffTable THEN LastIndex ELSE rate

\* gpsd_assert_sync
Synced(t, rate) == [t EXCEPT !.saved = IF @ = NoSpeed THEN rate ELSE @]

-----------------------------------------------------------------------------
\* Broken: the speed of the last time is not tried first.
Reopened_AsItIs(rate) == rate

\* The speed a port has when it is opened: the saved one if there is one.
Reopened(rate) == IF tty.saved = NoSpeed THEN rate ELSE tty.saved

\* gpsd_serial_open, tsip_detect and gpsd_clear: the port is set to 8N1 at the speed it has,
\* the probe tries its own setting for a moment, and stays there if it is answered.
Open(answered) ==
  /\ ~tty.open
  /\ LET rate == Reopened(port.rate)
         opened == [port |-> [port EXCEPT !.rate = rate],
                    tty |-> [tty EXCEPT !.open = TRUE, !.old = rate, !.index = 0]]
         set == SetSpeed(opened, GetSpeed(rate), "N", 1)
         probe == SetSpeed(set, ProbeRate, "O", 1)
         found == [probe EXCEPT !.tty = Synced(@, ProbeRate)]
         s == IF answered THEN found ELSE SetSpeed(probe, set.tty.baud, "N", 1)
     IN  /\ answered => receiver = probe.port
         /\ Becomes([s EXCEPT !.tty.retries = 0, !.tty.polls = 0])
  /\ steady' = TRUE
  /\ UNCHANGED <<receiver, spent>>

\* gpsd_close: ttyset_old goes back to the port.  The number in dev.baudrate is no speed_t
\* and changes nothing in it, except 0, which is B0.
Closed(s) ==
  [port |-> [s.port EXCEPT !.rate = IF s.tty.baud = 0 THEN 0 ELSE s.tty.old],
   tty |-> [s.tty EXCEPT !.open = FALSE]]

\* The last client goes: a device of which the last packet was no bad one is closed.
Release ==
  /\ tty.open /\ tty.type # "bad" /\ spent.releases < MaxReleases
  /\ spent' = [spent EXCEPT !.releases = @ + 1]
  /\ Becomes(Closed(Terminal))
  /\ UNCHANGED <<receiver, steady>>

-----------------------------------------------------------------------------
\* Broken: the table is left one entry early.
LastTried_Early == LastIndex - 1

\* The index after which the table is over.
LastTried == LastIndex

\* Broken: a setting is left one poll after another.
Patient_Never(s) == FALSE

\* The retries at a setting are not used up yet.
Patient(s) == s.tty.retries < SniffRetries

Over(s) == ~Patient(s) /\ s.tty.index >= LastTried /\ s.tty.stop >= 2

\* gpsd_next_hunt_setting: one more retry, or the next speed, or all speeds again with two
\* stop bits; then the hunt is over.
NextHuntSetting(s) ==
  IF Patient(s) THEN [s EXCEPT !.tty.retries = @ + 1]
  ELSE LET wraps == s.tty.index >= LastTried
           index == IF wraps THEN 0 ELSE s.tty.index + 1
           stop  == IF wraps THEN s.tty.stop + 1 ELSE s.tty.stop
           next  == [s EXCEPT !.tty.retries = 0, !.tty.index = index, !.tty.stop = stop]
       IN  IF Over(s) THEN next ELSE SetSpeed(next, index, s.tty.parity, stop)

Outcomes == {"none", "bad", "comment", "packet"}

\* Noise may spoil a packet; otherwise one is complete in time.  At another setting there
\* is nothing but garbage.
Possible(outcome) ==
  IF Tuned
  THEN \/ outcome = "packet"
       \/ outcome = "none" /\ tty.pieces < PacketPolls - 1
       \/ outcome = "bad" /\ spent.noise < MaxNoise
  ELSE outcome # "packet"

\* The type of the last packet: no packet leaves it as it was.
Sniffed(outcome) == IF outcome = "none" THEN tty.type ELSE outcome

\* What a poll changes before the hunt: a first packet selects a driver, and that is sync.
Accepted(outcome) ==
  LET t == [tty EXCEPT !.type = Sniffed(outcome),
                       !.pieces = IF Tuned /\ outcome = "none" THEN @ + 1 ELSE 0]
  IN  IF outcome = "packet" THEN Synced(t, port.rate) ELSE t

\* gpsd_poll, with something read: a bad type is counted, and from the third time on the
\* hunt goes on.
Poll(outcome) ==
  /\ tty.open /\ Possible(outcome)
  /\ LET s == [Terminal EXCEPT !.tty = Accepted(outcome)]
         counted == [s EXCEPT !.tty.polls = IF @ = 2 THEN 2 ELSE @ + 1]
         hunts == s.tty.type = "bad" /\ s.tty.polls = 2
     IN  Becomes(IF s.tty.type # "bad" THEN s
                 ELSE IF ~hunts THEN counted
                 ELSE IF Over(counted) THEN Closed(NextHuntSetting(counted))
                 ELSE NextHuntSetting(counted))
  /\ LET noise == Tuned /\ outcome = "bad"
     IN  /\ spent' = [spent EXCEPT !.noise = IF noise THEN @ + 1 ELSE @]
         /\ steady' = (steady /\ ~noise)
  /\ UNCHANGED receiver

\* The DEVICE request of a client: the receiver is told of a new speed, which it may not
\* take up, and the port follows (set_serial).
ClientSets(rate, obeyed) ==
  /\ tty.open /\ tty.saved # NoSpeed /\ spent.moves < MaxMoves
  /\ spent' = [spent EXCEPT !.moves = @ + 1]
  /\ receiver' = IF obeyed /\ Tuned THEN [receiver EXCEPT !.rate = rate] ELSE receiver
  /\ Becomes(SetSpeed(Terminal, rate, tty.parity, tty.stop))
  /\ steady' = FALSE

\* The receiver is exchanged, or loses its battery and its settings.
ReceiverMoves(setting) ==
  /\ spent.moves < MaxMoves /\ setting # receiver
  /\ spent' = [spent EXCEPT !.moves = @ + 1]
  /\ receiver' = setting
  /\ steady' = FALSE
  /\ UNCHANGED <<port, tty>>

-----------------------------------------------------------------------------
\* Receivers send 8N1, 7N2 or, as the old Trimbles, 8O1 at the speed of the probe.
Receivers == [rate : 1..OffTable, parity : {"N"}, stop : 1..2]
             \cup {[rate |-> ProbeRate, parity |-> "O", stop |-> 1]}

HuntInit ==
  /\ receiver \in Receivers
  /\ port \in [rate : 0..OffTable, parity : {"N"}, stop : {1}]
  /\ tty = [open |-> FALSE, baud |-> 0, parity |-> "N", stop |-> 1, old |-> port.rate,
            saved |-> NoSpeed, index |-> 0, retries |-> 0, polls |-> 0,
            type |-> "bad", pieces |-> 0]
  /\ spent = [noise |-> 0, moves |-> 0, releases |-> 0]
  /\ steady = FALSE

Opens == \E answered \in BOOLEAN : Open(answered)
Polls == \E outcome \in Outcomes : Poll(outcome)

HuntNext ==
  \/ Opens \/ Polls \/ Release
  \/ \E rate \in 1..LastIndex, obeyed \in BOOLEAN : ClientSets(rate, obeyed)
  \/ \E setting \in Receivers : ReceiverMoves(setting)

HuntSpec == HuntInit /\ [][HuntNext]_huntVars

-----------------------------------------------------------------------------
HuntTypeOK ==
  /\ receiver \in Setting /\ port \in Setting /\ tty \in Device
  /\ spent \in [noise : 0..MaxNoise, moves : 0..MaxMoves, releases : 0..MaxReleases]
  /\ steady \in BOOLEAN

\* A receiver the table knows.
Huntable == receiver.rate \in 1..LastIndex /\ receiver.parity = "N"

\* The hunt gives up a receiver of the table only if its reception was disturbed since the
\* device was opened: its setting changed, or noise spoilt a packet of it
\* (gpsd_next_hunt_setting counts the polls without a packet over the whole time the
\* device is open and never starts the table again).
FailsForAReason ==
  [][tty.open /\ ~tty'.open /\ UNCHANGED spent => ~(steady /\ Huntable)]_huntVars

\* "if you've opened this device before you typically don't have to hunt at all": a device
\* that was identified is opened at the speed of that time, unless the probe is answered.
OpensWhereItWas ==
  [][~tty.open /\ tty'.open /\ tty.saved # NoSpeed =>
       port'.rate = tty.saved \/ port' = receiver]_huntVars

\* No packet comes any more but the last one was not bad: nobody hunts.
Deferred == tty.open /\ ~Tuned /\ tty.type # "bad"

\* A receiver of the table that keeps its setting in the end is heard again and again,
\* unless the hunt is put off because the garbage between holds no packet that is
\* rejected (the branch for comments and good packets in gpsd_poll).
HeardInTheEnd == <>[]Huntable => []<>Heard \/ <>[]Deferred

\* The hunt tries every setting long enough, and begins where the device was heard.
HuntIsPatient == []HuntTypeOK /\ FailsForAReason /\ OpensWhereItWas
=============================================================================
