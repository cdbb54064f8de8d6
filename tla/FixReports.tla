----------------------------- MODULE FixReports -----------------------------
(***************************************************************************)
(* One receiver and what gpsd reports of it.  The receiver sends its cycle *)
(* of messages once an epoch, an hour; it has a fix or not; a message may  *)
(* be lost, and it may be unplugged for longer than a day.                 *)
(***************************************************************************)
EXTENDS NmeaDriver, PiecewiseDrivers
LOCAL INSTANCE SequencesExt

CONSTANTS Receivers,   \* records: name, cycle of messages, fix modes, messages that may be lost, outages
          FirstHour,   \* the hour of the first epoch
          MaxEpochs    \* epochs that are followed

ASSUME EpochsAssumption == FirstHour \in Nat /\ MaxEpochs \in Nat \ {0}

VARIABLES receiver, \* the one of Receivers that is connected
          now,      \* the hour
          mode,     \* the mode of the receiver's fix
          clock,    \* whether it has had one, and so knows the time
          next,     \* which message of its cycle comes next
          epoch,    \* how many epochs have begun
          lost, outages, \* how many messages were lost, how many days were missed
          d,        \* what gpsd keeps of it
          out,      \* the reports made of the last packet
          tpv,      \* the last fix reported, and when
          sky,      \* the last sky reported, and when
          reports,  \* how often a fix was reported in this epoch
          steady    \* epochs begun since the mode changed, a message was lost or a day was missed

vars == <<receiver, now, mode, clock, next, epoch, lost, outages, d, out, tpv, sky, reports, steady>>

Init ==
  /\ receiver \in Receivers
  /\ now = FirstHour /\ mode \in receiver.modes /\ clock = (mode >= MODE_2D)
  /\ next = 1 /\ epoch = 1 /\ lost = 0 /\ outages = 0
  /\ d = NewDevice
  /\ out = {} /\ reports = 0 /\ steady = 1
  /\ tpv = [fix |-> gps_clear_fix, at |-> 0] /\ sky = [sats |-> <<>>, at |-> 0]

Message == receiver.cycle[next] @@ [t |-> now, fix |-> mode, clock |-> clock]
Parse(p) ==
  LET begun == Clear(d)
  IN CASE p.driver = "nmea" -> nmea_parse(begun, p)
       [] p.driver \in {"sirf", "tsip", "navcom"} -> PiecewiseParse(p.driver, begun, p)
       [] OTHER -> EpochParse(p.driver, begun, p)

(* A packet is read, merged and reported: consume_packets                  *)
Send ==
  /\ next <= Len(receiver.cycle)
  /\ d' = ReportOrWait(Ship(gpsd_poll(Parse(Message))))
  /\ out' = json_data_report(d')
  /\ tpv' = IF "REPORT" \in out' THEN [fix |-> [mode |-> d'.fix.mode] @@ json_tpv_dump(d'.fix), at |-> now] ELSE tpv
  /\ sky' = IF "SATELLITE" \in out' THEN [sats |-> d'.sky, at |-> now] ELSE sky
  /\ reports' = IF "REPORT" \in out' THEN reports + 1 ELSE reports
  /\ next' = next + 1
  /\ UNCHANGED <<receiver, now, mode, clock, epoch, lost, outages, steady>>

Lose ==
  /\ next <= Len(receiver.cycle) /\ lost < receiver.losses
  /\ lost' = lost + 1 /\ next' = next + 1 /\ steady' = 0 /\ out' = {}
  /\ UNCHANGED <<receiver, now, mode, clock, epoch, outages, d, tpv, sky, reports>>

Begin(hours) ==
  /\ next > Len(receiver.cycle) /\ epoch < MaxEpochs
  /\ epoch' = epoch + 1 /\ next' = 1 /\ reports' = 0 /\ out' = {}
  /\ now' = now + hours
  /\ mode' \in receiver.modes /\ clock' = (clock \/ mode' >= MODE_2D)
  /\ steady' = IF mode' = mode /\ hours = 1 THEN steady + 1 ELSE 1
  /\ UNCHANGED <<receiver, lost, d, tpv, sky>>
NextEpoch == Begin(1) /\ UNCHANGED outages
Outage == outages < receiver.outages /\ Begin(HoursPerDay + 1) /\ outages' = outages + 1

Next == Send \/ Lose \/ NextEpoch \/ Outage
Spec == Init /\ [][Next]_vars

-----------------------------------------------------------------------------
Messages  == {receiver.cycle[i] : i \in DOMAIN receiver.cycle}
Driver    == receiver.cycle[1].driver
Tags      == {m.tag : m \in Messages}
EpochOver == next > Len(receiver.cycle)
Reported  == "REPORT" \in out
AllWhole  == \A m \in Messages : m.whole
SameTagTwice == \E i, j \in DOMAIN receiver.cycle :
                  i # j /\ receiver.cycle[i].tag = receiver.cycle[j].tag /\ Driver = "nmea"
Undisturbed == steady = epoch
(* Without a fix, only these sentences carry a timestamp that gpsd looks   *)
(* at, and only at a timestamp does a cycle begin or end                   *)
TimedWithoutFix == {"GLL", "GST", "GBS"}
NoticesLoss == IF Driver = "nmea" THEN \E m \in Messages : m.tag \in TimedWithoutFix /\ m.whole
               ELSE Driver \notin {"garmin", "geostar", "navcom"}
(* The time gpsd has put together, and whether it was right within a day   *)
Reading == d.day * HoursPerDay + d.hour
Followed == d.year /\ Reading \in (now - HoursPerDay + 1)..now

(* The type invariant; the sky never has more than its channels.           *)
TypeOK ==
  LET Known(v) == Len(v) <= 2 /\ \A i \in DOMAIN v : v[i] \in Int
      IsFix(x) == DOMAIN x = Fields \cup {"mode"} /\ x.mode \in NOT_SEEN..MODE_3D
                  /\ \A f \in Fields : Known(x[f])
  IN /\ receiver \in Receivers /\ next \in 1..(Len(receiver.cycle) + 1) /\ epoch \in 1..MaxEpochs
     /\ IsFix(d.new) /\ IsFix(d.fix) /\ IsFix(d.old) /\ IsFix(tpv.fix)
     /\ d.mask \subseteq Bits /\ out \subseteq ReportBits \cup {"REPORT"}
     /\ d.status \in {STATUS_NO_FIX, STATUS_FIX} /\ Len(d.sky) <= MaxChannels /\ d.fixcnt \in 0..4
     /\ d.enders \subseteq Tags

(* No report mixes epochs: once the end of a cycle is known, what a report *)
(* says of place and movement, and the later end of what gpsd computed of  *)
(* it, is of the epoch in which it is made.  Sentences may be lost; but a  *)
(* lost Thunderbolt 8f-ab is a lost CLEAR, and for a Geostar nothing is    *)
(* ever cleared, so that the climb computed first is reported for good.    *)
ReportsAreOfThisEpoch ==
  Reported /\ d.reliable /\ (lost = 0 \/ Driver # "tsip") =>
    \A f \in {"position", "altitude", "track", "speed", "climb"} :
      tpv.fix[f] = NAN \/ Last(tpv.fix[f]) = now \/ (Driver = "geostar" /\ f = "climb")

(* A report does not claim a better fix than the receiver has: the mode is *)
(* never lowered but by a CLEAR.  The exceptions are the receivers whose   *)
(* driver never clears (Geostar), takes every fix for one of three         *)
(* dimensions (PASHR), or reads the mode byte with the wrong sign (NavCom).*)
ModeIsTheReceivers ==
  Reported /\ d.reliable /\ (lost = 0 \/ Driver # "tsip") =>
    tpv.fix.mode <= mode \/ Driver \in {"geostar", "navcom"} \/ "PASHR" \in Tags

(* The last report of an epoch without a fix does not show a fix, if the   *)
(* receiver has been without for an epoch and sends anything from which    *)
(* gpsd notices: without GLL, GST or GBS an NMEA receiver's last fix is    *)
(* the last thing clients hear.                                            *)
LossIsNoticed ==
  EpochOver /\ steady >= 2 /\ mode = NO_FIX /\ NoticesLoss => tpv.fix.mode < MODE_2D

(* A client is told what the receiver says of its fix, and that it is lost. *)
LossIsTold == ModeIsTheReceivers /\ LossIsNoticed

(* "For devices with a fixed cycle this should work perfectly, locking in  *)
(* detection after one cycle" (driver_nmea.c): from the third epoch on a   *)
(* receiver with a fix is reported exactly once an epoch, provided that    *)
(* nothing was ever lost and no sentence comes twice in its cycle.         *)
OneReportAnEpoch ==
  EpochOver /\ AllWhole /\ ~SameTagTwice /\ Undisturbed /\ epoch >= 3 /\ (mode >= MODE_2D \/ NoticesLoss) =>
    reports = 1

(* A speed or climb computed by gpsd is over the time between two fixes:   *)
(* it is a plain 0 only where the time is merged by an earlier message     *)
(* than the position or altitude, which makes the last fix as new as this  *)
(* one, or where nothing is cleared (Geostar).                             *)
RatesSpanAnEpoch ==
  Reported /\ steady >= 2 =>
    \A f \in {"speed", "climb"} :
      Len(tpv.fix[f]) = 2 /\ tpv.fix[f][1] = tpv.fix[f][2] =>
        \/ Driver = "geostar"
        \/ \E i, j \in DOMAIN receiver.cycle :
             i < j /\ receiver.cycle[i].tag \in {"RMC", "ZDA", "GLL"} /\ receiver.cycle[j].tag = "GGA"

(* The errors gpsd computes from the DOPs are at most an epoch old, unless *)
(* the driver replaces the satellites and keeps the DOPs of others, which  *)
(* fill_dop does not touch (PASHR, Geostar).                               *)
ErrorsFollowTheSky ==
  Reported /\ steady >= 2 =>
    \A f \in {"eph", "epv"} :
      tpv.fix[f] = NAN \/ now - Last(tpv.fix[f]) <= 1 \/ Driver = "geostar" \/ "PASHR" \in Tags

(* What gpsd computes itself, speed, climb and error estimates, belongs to *)
(* the epoch it is reported with.                                          *)
ComputedIsCurrent == RatesSpanAnEpoch /\ ErrorsFollowTheSky

(* All satellites of a reported sky were seen in the epoch of the report,  *)
(* if no part of it was lost.  Two drivers report a list that is partly or *)
(* wholly of the epoch before: TSIP 5c and Zodiac 1002.                    *)
SkyIsOfThisEpoch ==
  "SATELLITE" \in out /\ lost = 0 /\ Driver \notin {"zodiac", "tsip"} =>
    \A i \in DOMAIN sky.sats : sky.sats[i].t = now

(* An epoch is reported once and with what was received in it, except by  *)
(* the receivers and in the states the parts name.                         *)
EpochsAreApart == TypeOK /\ ReportsAreOfThisEpoch /\ SkyIsOfThisEpoch /\ OneReportAnEpoch

(* The time that NMEA sentences give is right whenever the time put        *)
(* together before was right and less than a day ago: over midnight, when  *)
(* sentences are lost, and whichever sentence brings the date.             *)
TimeIsRightWithinADay ==
  [][Driver = "nmea" /\ Followed /\ "TIME" \in d'.mask /\ d' # d => d'.new.time = <<now>>]_vars

(* The times that ntpd is given never go back, not even when a day was     *)
(* missed and the date is wrong, until a dated sentence puts it right.     *)
NtpdTimeAdvances ==
  [][d.shipped = NAN \/ d'.shipped = d.shipped \/ Head(d'.shipped) > Head(d.shipped)]_vars

(* The time clients and ntpd are given is the receiver's and goes forward. *)
TimesAreRight == TimeIsRightWithinADay /\ NtpdTimeAdvances
=============================================================================
