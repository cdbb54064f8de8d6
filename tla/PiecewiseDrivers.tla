-------------------------- MODULE PiecewiseDrivers --------------------------
(***************************************************************************)
(* The drivers of binary receivers that spread a fix over several          *)
(* messages, or have several messages with a fix: SiRF, TSIP and NavCom.   *)
(* The handlers have the form of EpochDrivers.                             *)
(***************************************************************************)
EXTENDS EpochDrivers

PpsIfSeen(d, bits) == IF Len(d.sky) >= 1 THEN Announce(d, bits \cup {"PPSTIME"}) ELSE Announce(d, bits)

(* SiRF.  The first message 98 puts an end to message 2                    *)
sirf_msg_svinfo(d, p) ==
  IF ~p.whole THEN d
  ELSE Announce(Time(Visible(d, p), p), Timed \cup {"SATELLITE"})
sirf_msg_navsol(d, p) ==
  LET read == Used(Dop(Judge(Time(Place(d, p), p), p), p), p)
  IN IF ~p.whole THEN d
     ELSE PpsIfSeen(read, Judged \cup {"TIME", "LATLON", "ALTITUDE", "TRACK", "SPEED", "DOP"}
                          \cup IF p.fix = MODE_3D THEN {"CLIMB"} ELSE {})
sirf_msg_ublox(d, p) ==
  LET read  == Announce(Dop(Judge(Place([d EXCEPT !.ublox = TRUE], p), p), p), Moving \cup Judged \cup {"DOP"})
  IN IF ~p.whole THEN d
     ELSE IF p.clock THEN PpsIfSeen(Time(read, p), {"TIME"}) ELSE read
sirf_msg_ppstime(d, p) == IF p.whole /\ p.clock THEN PpsIfSeen(Time(d, p), {"TIME"}) ELSE d
sirf_msg_navdata(d, p) == IF p.whole THEN Announce(d, {"SUBFRAME"}) ELSE d
sirf_parse(d, p) ==
  CASE p.msg = "MID2" -> IF d.ublox THEN d ELSE Announce(sirf_msg_navsol(d, p), Cycled)
    [] p.msg = "MID98" -> Announce(sirf_msg_ublox(d, p), Cycled)
    [] p.msg = "MID4" -> sirf_msg_svinfo(d, p)    [] p.msg = "MID8" -> sirf_msg_navdata(d, p)
    [] p.msg = "MID52" -> sirf_msg_ppstime(d, p)

(* TSIP.  Positions (4a, 84) come without a mode and with a time only when *)
(* the week is known, the velocity (56) after them; the superpackets       *)
(* (8f-20, 8f-23) have everything; Thunderbolts send 8f-ab and 8f-ac       *)
TsipTime(d, p) ==
  IF p.whole /\ p.clock THEN Announce([Time(d, p) EXCEPT !.weeks = TRUE], Timed) ELSE d
TsipHealth(d, p) == IF p.whole THEN Announce(Status(d, FixStatus(p)), {"STATUS"}) ELSE d
(* Satellites are looked up in the list that has just been emptied         *)
TsipLevels(d, p) ==
  IF p.whole THEN Announce(gpsd_zero_satellites(d), {"SATELLITE"}) ELSE gpsd_zero_satellites(d)
TsipPosition(d, p) ==
  LET timed == IF d.weeks THEN Announce(Time(d, p), Timed) ELSE d
  IN IF ~p.whole THEN d
     ELSE Announce(Put(timed, {"position", "altitude"}, p), {"LATLON", "ALTITUDE"} \cup Cycled)
TsipVelocity(d, p) ==
  IF p.whole THEN Announce(Put(d, {"climb", "speed", "track"}, p), {"SPEED", "TRACK", "CLIMB"}) ELSE d
(* One satellite at its channel; the last of the list reports it           *)
TsipTracking(d, p) ==
  LET blank(i) == [t |-> 0, part |-> i]
      kept == [d EXCEPT !.sky = [i \in 1..(IF p.part > Len(@) THEN p.part ELSE Len(@)) |->
                IF i = p.part THEN [t |-> p.t, part |-> i] ELSE IF i <= Len(@) THEN @[i] ELSE blank(i)]]
  IN IF ~p.whole THEN d
     ELSE IF p.part = Len(d.sky) THEN Announce(kept, {"SATELLITE"}) ELSE kept
TsipSelection(d, p) == IF p.whole THEN Announce(Used(Dop(d, p), p), {"DOP", "STATUS"}) ELSE d
TsipSuper(d, p) ==
  IF p.whole THEN Announce([Used(Judge(Place(Time(d, p), p), p), p) EXCEPT !.weeks = TRUE],
                           Timed \cup Moving \cup Judged \cup Cycled)
  ELSE d
(* The leap seconds that 8f-ab looks at are the subtype byte: never unknown *)
TsipPrimary(d, p) ==
  IF p.whole THEN Announce([Time(d, p) EXCEPT !.weeks = TRUE], Timed \cup {"CLEAR"}) ELSE d
TsipSupplemental(d, p) ==
  IF p.whole THEN Announce(Judge(Put(d, {"position", "altitude"}, p), p),
                           Judged \cup {"LATLON", "ALTITUDE", "REPORT"})
  ELSE d
tsip_analyze(d, p) ==
  CASE p.msg = "41" -> TsipTime(d, p)                   [] p.msg = "46" -> TsipHealth(d, p)
    [] p.msg = "47" -> TsipLevels(d, p)                 [] p.msg \in {"4a", "84"} -> TsipPosition(d, p)
    [] p.msg = "56" -> TsipVelocity(d, p)               [] p.msg = "5c" -> TsipTracking(d, p)
    [] p.msg = "6d" -> TsipSelection(d, p)              [] p.msg \in {"8f-20", "8f-23"} -> TsipSuper(d, p)
    [] p.msg = "8f-ab" -> TsipPrimary(d, p)             [] p.msg = "8f-ac" -> TsipSupplemental(d, p)

(* NavCom.  The sign in front of the mode byte turns its top bit: a byte   *)
(* of zero, no fix, passes for a fix of two dimensions                     *)
NavMode(p) == CASE p.fix = MODE_3D -> 192 [] p.fix = MODE_2D -> 128 [] OTHER -> 0
Invalid(nav_mode) == (256 - nav_mode) % 256 >= 128
handle_0xb1(d, p) ==
  LET fix  == IF Invalid(NavMode(p)) THEN NO_FIX
              ELSE IF (NavMode(p) \div 64) % 2 = 1 THEN MODE_3D ELSE MODE_2D
      read == Put(Place(Time(d, p), p), {"eph", "ept"}, p)
  IN Announce(Dop(Used(Mode(Status(read, IF fix = NO_FIX THEN STATUS_NO_FIX ELSE STATUS_FIX), fix), p), p),
              Timed \cup Moving \cup Judged \cup {"HERR", "VERR", "TIMERR", "DOP"})
handle_0x86(d, p) ==
  IF p.whole THEN Announce(Status([Used(d, p) EXCEPT !.sky = Visible(d, p).sky], FixStatus(p)), {"SATELLITE", "STATUS"})
  ELSE gpsd_zero_satellites(d)
handle_0xb5(d, p) == Announce(Time(d, p), {"TIME"})
navcom_parse(d, p) ==
  CASE p.msg = "b1" -> Announce(handle_0xb1(d, p), Cycled) [] p.msg = "86" -> handle_0x86(d, p)
    [] p.msg = "b5" -> handle_0xb5(d, p)

PiecewiseParse(driver, d, p) ==
  [CASE driver = "sirf" -> sirf_parse(d, p) [] driver = "tsip" -> tsip_analyze(d, p)
     [] driver = "navcom" -> navcom_parse(d, p) EXCEPT !.reliable = TRUE]
=============================================================================
