------------------------------ MODULE FixMerge ------------------------------
(***************************************************************************)
(* What gpsd keeps of one receiver and how a packet changes it: gpsd_poll  *)
(* clears newdata, a driver fills it and answers with a mask, the masked   *)
(* fields are merged into the fix, the error model adds what is missing,   *)
(* and consume_packets decides what is reported and what ntpd is given.    *)
(*                                                                         *)
(* A field does not hold a number but where the number comes from: <<>> is *)
(* NAN, <<t>> was measured by the receiver at time t, and <<a, b>> was     *)
(* computed by gpsd from what was measured at a and at b.  "position" is   *)
(* latitude and longitude, "eph" is epx and epy.  epe, which only the      *)
(* pseudo-NMEA of raw clients shows, and epc are left out.                 *)
(***************************************************************************)
EXTENDS Integers, Sequences, FiniteSets, TLC

CONSTANTS HoursPerDay,   \* times are hours: t \div HoursPerDay is the day
          MaxChannels    \* MAXCHANNELS: satellites the sky view has room for

ASSUME DayAssumption == HoursPerDay \in Nat \ {0}
ASSUME ChannelsAssumption == MaxChannels \in Nat \ {0}

Fields == {"time", "position", "altitude", "track", "speed", "climb",
           "ept", "eph", "epv", "eps", "epd"}
NAN == <<>>

NOT_SEEN == 0   NO_FIX == 1   MODE_2D == 2   MODE_3D == 3
STATUS_NO_FIX == 0   STATUS_FIX == 1   STATUS_DGPS_FIX == 2

FixBits == {"TIME", "TIMERR", "LATLON", "ALTITUDE", "SPEED", "TRACK", "CLIMB", "MODE",
            "HERR", "VERR", "SPEEDERR"}
ReportBits == {"GST", "SATELLITE", "SUBFRAME", "ATTITUDE", "RTCM2", "RTCM3", "AIS"}
Bits == FixBits \cup ReportBits \cup {"STATUS", "DOP", "CLEAR", "REPORT", "PPSTIME"}

(* The fields that a bit of the mask transfers to the fix *)
Carries == [b \in Bits |->
  CASE b = "TIME" -> {"time"}         [] b = "TIMERR" -> {"ept"}      [] b = "LATLON" -> {"position"}
    [] b = "ALTITUDE" -> {"altitude"} [] b = "SPEED" -> {"speed"}     [] b = "TRACK" -> {"track"}
    [] b = "CLIMB" -> {"climb"}       [] b = "MODE" -> {"mode"}       [] b = "HERR" -> {"eph"}
    [] b = "VERR" -> {"epv"}          [] b = "SPEEDERR" -> {"eps"}    [] OTHER -> {}]

gps_clear_fix == [f \in Fields \cup {"mode"} |-> IF f = "mode" THEN NOT_SEEN ELSE NAN]
gps_merge_fix(to, transfer, from) ==
  LET taken == UNION {Carries[b] : b \in transfer}
  IN [f \in DOMAIN to |-> IF f \in taken THEN from[f] ELSE to[f]]
(* What is kept of a receiver.  The first line is struct gps_device_t and  *)
(* gps_data_t, the second what the NMEA driver keeps, the third what the   *)
(* other drivers keep.  Before a date is heard the day is in 1899.         *)
NewDevice ==
  [new |-> gps_clear_fix, fix |-> gps_clear_fix, old |-> gps_clear_fix, mask |-> {}, status |-> STATUS_NO_FIX,
   dop |-> NAN, xydop |-> NAN, sky |-> <<>>, used |-> 0, fixcnt |-> 0, reliable |-> FALSE,
   ship |-> FALSE, shipped |-> NAN,
   year |-> FALSE, day |-> -99, hour |-> 0, this |-> 0, last |-> 0, last_gga |-> NAN, latch_mode |-> FALSE,
   latch |-> FALSE, lasttag |-> "", enders |-> {},
   ublox |-> FALSE, weeks |-> FALSE]

(* How drivers say what they do; p is what the receiver measured: the time *)
(* p.t, and p.fix, the mode of its fix.  p.whole is false when the packet  *)
(* has not the form that the driver knows.                                 *)
Put(d, fields, p) == [d EXCEPT !.new = [f \in DOMAIN @ |-> IF f \in fields THEN <<p.t>> ELSE @[f]]]
Announce(d, bits) == [d EXCEPT !.mask = @ \cup bits]
Mode(d, m)        == [d EXCEPT !.new.mode = m]
Status(d, s)      == [d EXCEPT !.status = s]
Dop(d, p)         == [d EXCEPT !.dop = <<p.t>>]
Used(d, p)        == [d EXCEPT !.used = CASE p.fix = MODE_3D -> 4 [] p.fix = MODE_2D -> 3 [] OTHER -> 0]
gpsd_zero_satellites_KeepsDop(d) == [d EXCEPT !.sky = <<>>]
gpsd_zero_satellites(d) == [d EXCEPT !.sky = <<>>, !.dop = NAN, !.xydop = NAN]
Visible(d, p)     == [gpsd_zero_satellites(d) EXCEPT !.sky = <<[t |-> p.t, part |-> 1], [t |-> p.t, part |-> 2]>>]
HasFix(p)         == p.fix >= MODE_2D
FixMode(p)        == IF HasFix(p) THEN p.fix ELSE NO_FIX
FixStatus(p)      == IF HasFix(p) THEN STATUS_FIX ELSE STATUS_NO_FIX
ecef_to_wgs84fix(d, p) == Put(d, {"position", "altitude", "climb", "speed", "track"}, p)

-----------------------------------------------------------------------------
(* A difference of what two fixes say of a field; the same moment gives 0, *)
(* the difference of a value with itself                                   *)
Over(fix, old, field) ==
  IF fix.time # NAN /\ fix.time = old.time THEN <<fix.time[1], fix.time[1]>>
  ELSE IF NAN \in {fix.time, old.time, fix[field], old[field]} THEN NAN
  ELSE <<Head(old[field]), Head(fix[field])>>
Derived(d) ==
  LET both(m) == d.fix.mode >= m /\ d.old.mode >= m
  IN [d.fix EXCEPT
        !.speed = IF both(MODE_2D) /\ @ = NAN THEN Over(d.fix, d.old, "position") ELSE @,
        !.climb = IF both(MODE_3D) /\ @ = NAN THEN Over(d.fix, d.old, "altitude") ELSE @,
        !.ept   = IF @ = NAN THEN d.fix.time ELSE @]
(* epc is computed only after a fix whose mode exceeds MODE_3D: never      *)
Estimated(fix, d) ==
  LET moved == NAN \notin {fix.time, d.old.time} /\ fix.time[1] > d.old.time[1]
      way   == Over(fix, d.old, "position")
      e1    == [fix EXCEPT !.eph = IF @ = NAN /\ d.dop # NAN THEN d.xydop ELSE @,
                           !.epv = IF @ = NAN /\ fix.mode = MODE_3D THEN d.dop ELSE @]
      both  == moved /\ NAN \notin {e1.eph, d.old.eph}
  IN [e1 EXCEPT
        !.eps = IF @ = NAN /\ d.old.mode > NO_FIX /\ both THEN <<Head(d.old.eph), Head(e1.eph)>> ELSE @,
        !.epd = IF fix.mode = MODE_3D /\ moved
                THEN IF d.old.mode >= MODE_2D /\ NAN \notin {e1.eph, way} /\ way[1] # way[2] THEN way ELSE NAN
                ELSE @]
gpsd_error_model_OldFirst(d) ==
  IF d.fix.mode < MODE_2D THEN [d EXCEPT !.fix = Derived(d)]
  ELSE [d EXCEPT !.old = d.fix, !.fix = Estimated(Derived([d EXCEPT !.old = d.fix]), d)]
gpsd_error_model(d) ==
  LET fix == Derived(d)
      est == Estimated(fix, d)
  IN IF fix.mode < MODE_2D THEN [d EXCEPT !.fix = fix]
     ELSE [d EXCEPT !.fix = est, !.old = est]

(* Computed from the satellites in view, only where the receiver was       *)
(* silent, and only if four of them are used                               *)
fill_dop(d) ==
  IF d.used < 4 THEN d
  ELSE LET now == <<Head(d.sky).t>>
       IN [d EXCEPT !.dop = IF @ = NAN THEN now ELSE @, !.xydop = IF @ = NAN THEN now ELSE @,
                    !.mask = @ \cup {"DOP"}]
NoteSky(d) == IF "SATELLITE" \in d.mask /\ d.sky # <<>> THEN fill_dop(d) ELSE d

MergeNew_NeverClears(d) ==
  LET bits == IF d.fix.mode > d.new.mode THEN d.mask \ {"MODE"} ELSE d.mask
  IN [d EXCEPT !.fix = gps_merge_fix(d.fix, bits, d.new), !.mask = bits]
MergeNew(d) ==
  LET kept == IF "CLEAR" \in d.mask THEN gps_clear_fix ELSE d.fix
      bits == IF kept.mode > d.new.mode THEN d.mask \ {"MODE"} ELSE d.mask
  IN [d EXCEPT !.fix = gps_merge_fix(kept, bits, d.new), !.mask = bits]
CountFix(d) ==
  IF "LATLON" \in d.mask /\ d.status > STATUS_NO_FIX
  THEN [d EXCEPT !.fixcnt = IF @ < 4 THEN @ + 1 ELSE @] ELSE d

(* gpsd_poll around the parser of the driver: Clear before it, and the     *)
(* rest after it                                                           *)
Clear(d) == [d EXCEPT !.new = gps_clear_fix, !.mask = {}]
gpsd_poll(parsed) == CountFix(gpsd_error_model(MergeNew(NoteSky(parsed))))

-----------------------------------------------------------------------------
(* consume_packets: what ntpd is given, and whether the fix is reported    *)
Ship(d) ==
  LET ship == "PPSTIME" \in d.mask \/ (d.ship /\ "CLEAR" \notin d.mask)
      send == ship /\ "TIME" \in d.mask /\ d.new.time # NAN /\ d.new.time # d.shipped
  IN [d EXCEPT !.ship = ship, !.shipped = IF send THEN d.new.time ELSE @]
ReportOrWait(d) ==
  IF ~d.reliable /\ d.mask \cap {"LATLON", "MODE"} # {} THEN Announce(d, {"REPORT"}) ELSE d
(* What json_tpv_dump writes of a fix *)
Shown(fix) ==
  {"time", "ept"} \cup
  (IF fix.mode >= MODE_2D THEN {"position", "eph", "track", "speed", "epd", "eps"} ELSE {}) \cup
  (IF fix.mode = MODE_3D THEN {"altitude", "epv", "climb"} ELSE {})
json_tpv_dump(fix) == [f \in Fields |-> IF f \in Shown(fix) THEN fix[f] ELSE NAN]
json_data_report(d) == d.mask \cap (ReportBits \cup {"REPORT"})
=============================================================================
