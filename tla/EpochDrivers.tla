---------------------------- MODULE EpochDrivers ----------------------------
(***************************************************************************)
(* The drivers of binary receivers whose fix comes in one message: each    *)
(* operator is the handler of one message, from the device d and what the  *)
(* receiver measured, p, to the device with newdata filled and the mask.   *)
(* p.clock says that the receiver knows the time, with or without a fix.   *)
(***************************************************************************)
EXTENDS FixMerge

Moving == {"LATLON", "ALTITUDE", "SPEED", "TRACK", "CLIMB"}
Timed  == {"TIME", "PPSTIME"}
Judged == {"MODE", "STATUS"}
Cycled == {"CLEAR", "REPORT"}
Time(d, p)    == Put(d, {"time"}, p)
Place(d, p)   == ecef_to_wgs84fix(d, p)
Judge(d, p)   == Mode(Status(d, FixStatus(p)), FixMode(p))
InView(d, p)  == Announce(Used(Visible(d, p), p), {"SATELLITE"})

-----------------------------------------------------------------------------
(* EverMore.  The count of satellites in view is zeroed before it is used  *)
EvermoreNavigation(d, p) ==
  Announce(Mode(Place(Time(d, p), p), FixMode(p)),
           Timed \cup Cycled \cup {"LATLON", "TRACK", "SPEED", "MODE"}
                 \cup IF p.fix = MODE_3D THEN {"ALTITUDE", "CLIMB"} ELSE {})
EvermoreDop(d, p) == Announce(Dop(Judge(Time(d, p), p), p), Timed \cup Judged \cup {"DOP"})
EvermoreChannels(d) == Announce(gpsd_zero_satellites(d), {"SATELLITE"})
EvermoreMeasurement(d, p) == Announce(Time(d, p), Timed)
evermore_parse(d, p) ==
  CASE p.msg = "02" -> EvermoreNavigation(d, p) [] p.msg = "04" -> EvermoreDop(d, p)
    [] p.msg = "06" -> EvermoreChannels(d)      [] p.msg = "08" -> EvermoreMeasurement(d, p)

(* u-blox.  The status is not taken back when the fix is lost              *)
ubx_msg_nav_sol(d, p) ==
  LET timed == IF p.clock THEN Announce(Time(d, p), Timed) ELSE d
      placed == Mode(Put(Place(timed, p), {"eph", "eps"}, p), FixMode(p))
  IN IF ~p.whole THEN d
     ELSE Announce(Used(IF HasFix(p) THEN Status(placed, STATUS_FIX) ELSE placed, p), Moving \cup Judged)
ubx_msg_nav_dop(d, p) == IF p.whole THEN Announce(Dop(d, p), {"DOP"}) ELSE d
ubx_msg_nav_timegps(d, p) == IF p.whole THEN Announce(Time(d, p), Timed) ELSE d
ubx_msg_nav_svinfo(d, p) == IF p.whole THEN InView(d, p) ELSE d
ubx_msg_sfrb(d) == Announce(d, {"SUBFRAME"})
ubx_parse_NoClear(d, p) ==
  IF p.msg = "SOL" THEN Announce(ubx_msg_nav_sol(d, p), {"REPORT"})
  ELSE IF p.msg = "SVINFO" THEN ubx_msg_nav_svinfo(d, p) ELSE d
ubx_parse(d, p) ==
  CASE p.msg = "SOL" -> Announce(ubx_msg_nav_sol(d, p), Cycled)
    [] p.msg = "DOP" -> ubx_msg_nav_dop(d, p)         [] p.msg = "TIMEGPS" -> ubx_msg_nav_timegps(d, p)
    [] p.msg = "SVINFO" -> ubx_msg_nav_svinfo(d, p)   [] p.msg = "SFRB" -> ubx_msg_sfrb(d)
(* Garmin.  Without a fix nothing is announced, and nothing reported       *)
GarminPvt(d, p) ==
  LET read == Judge(Put(Place(Time(d, p), p), {"eph", "epv"}, p), p)
      pps  == IF d.fixcnt > 3 THEN {"PPSTIME"} ELSE {}
  IN IF ~HasFix(p) THEN read
     ELSE Announce(read, Moving \cup Judged \cup Cycled \cup pps \cup {"TIME", "HERR", "VERR"})
GarminSat(d, p) == InView(d, p)
PrintSERPacket(d, p) == CASE p.msg = "PVT" -> GarminPvt(d, p) [] p.msg = "SAT" -> GarminSat(d, p)

(* Zodiac.  Errors are read but not announced; 1005 looks at the mode of   *)
(* newdata, which was cleared before                                       *)
handle1000(d, p) ==
  Announce(Judge(Put(Place(Time(d, p), p), {"eph", "epv", "ept", "eps"}, p), p), Timed \cup Moving \cup Judged)
handle1002(d, p) == Announce(Used(d, p), {"SATELLITE"})
handle1003(d, p) == IF p.whole THEN Announce(Dop(Visible(d, p), p), {"SATELLITE", "DOP"}) ELSE d
handle1005(d) == Status(d, IF d.new.mode = NO_FIX THEN STATUS_NO_FIX ELSE STATUS_FIX)
zodiac_analyze(d, p) ==
  CASE p.msg = "1000" -> Announce(handle1000(d, p), Cycled) [] p.msg = "1002" -> handle1002(d, p)
    [] p.msg = "1003" -> handle1003(d, p)                   [] p.msg = "1005" -> handle1005(d)

(* SuperStar II                                                            *)
superstar2_msg_navsol_lla(d, p) ==
  IF ~p.whole \/ ~p.clock THEN d
  ELSE Announce(Dop(Used(Judge(Place(Time(d, p), p), p), p), p), Timed \cup Moving \cup Judged \cup {"DOP"})
superstar2_msg_svinfo(d, p) == IF p.whole THEN InView(d, p) ELSE d
superstar2_msg_timing(d, p) == IF p.whole /\ p.clock THEN Announce(Time(d, p), Timed) ELSE d
superstar2_dispatch(d, p) ==
  CASE p.msg = "NAVSOL" -> Announce(superstar2_msg_navsol_lla(d, p), Cycled)
    [] p.msg = "SVINFO" -> superstar2_msg_svinfo(d, p) [] p.msg = "TIMING" -> superstar2_msg_timing(d, p)

(* Geostar.  Nothing begins a cycle, and the mode comes after the report   *)
Geostar20(d, p) ==
  LET read == Dop(Used(Put(Time(d, p), {"position", "altitude", "speed", "track"}, p), p), p)
  IN Announce([read EXCEPT !.status = FixStatus(p)],
              Timed \cup {"LATLON", "ALTITUDE", "SPEED", "TRACK", "DOP", "REPORT"})
Geostar21(d, p) == Announce(Judge(d, p), Judged)
Geostar22(d, p) == Announce([d EXCEPT !.sky = Visible(d, p).sky], {"SATELLITE"})
geostar_analyze(d, p) ==
  CASE p.msg = "20" -> Geostar20(d, p) [] p.msg = "21" -> Geostar21(d, p) [] p.msg = "22" -> Geostar22(d, p)

(* iTalk.  A fix of the wrong length answers -1, which is every bit        *)
decode_itk_navfix(d, p) ==
  IF ~p.whole THEN Announce(d, Bits)
  ELSE IF ~HasFix(p) THEN Announce(Judge(d, p), {"MODE", "STATUS", "CLEAR"})
  ELSE Announce(Dop(Used(Judge(Put(Place(Time(d, p), p), {"eph", "eps"}, p), p), p), p),
                Timed \cup Moving \cup Judged \cup {"CLEAR", "DOP"})
decode_itk_prnstatus(d, p) == IF p.whole THEN InView(d, p) ELSE d
decode_itk_utcionomodel(d, p) == IF p.whole THEN Announce(Time(d, p), Timed) ELSE d
decode_itk_subframe(d, p) == IF p.whole THEN Announce(d, {"SUBFRAME"}) ELSE d
decode_itk_pseudo(d, p) == Time(d, p)
italk_parse(d, p) ==
  CASE p.msg = "NAV_FIX" -> Announce(decode_itk_navfix(d, p), Cycled)
    [] p.msg = "PRN_STATUS" -> decode_itk_prnstatus(d, p) [] p.msg = "UTC_IONO" -> decode_itk_utcionomodel(d, p)
    [] p.msg = "SUBFRAME" -> decode_itk_subframe(d, p)    [] p.msg = "PSEUDO" -> decode_itk_pseudo(d, p)

(* Oncore.  The sky is that of Ea, which Bb reports once more              *)
oncore_msg_navsol(d, p) ==
  IF ~p.whole THEN d
  ELSE Announce(Judge(Put(InView(Time(d, p), p), {"position", "altitude", "speed", "track"}, p), p),
                {"MODE", "TIME", "LATLON", "ALTITUDE", "SPEED", "TRACK"}
                \cup IF p.clock THEN {"PPSTIME"} ELSE {})
oncore_msg_svinfo(d, p) == IF p.whole THEN Announce(d, {"SATELLITE"}) ELSE d
oncore_dispatch(d, p) ==
  CASE p.msg = "Ea" -> Announce(oncore_msg_navsol(d, p), Cycled) [] p.msg = "Bb" -> oncore_msg_svinfo(d, p)

(* Garmin text.  A field is copied without its last character, so that it  *)
(* never has the length that is asked of it: nothing is ever decoded       *)
gar_decode == FALSE
garmintxt_parse(d, p) ==
  IF ~p.whole THEN d
  ELSE LET none == Announce(Mode(Status(d, STATUS_NO_FIX), NO_FIX), Judged \cup Cycled)
       IN IF gar_decode THEN Announce(Judge(Put(Place(Time(none, p), p), {"eph"}, p), p),
                                      Moving \cup {"TIME", "HERR"})
          ELSE none

EpochParse(driver, d, p) ==
  LET read == CASE driver = "evermore" -> evermore_parse(d, p)     [] driver = "ubx" -> ubx_parse(d, p)
                [] driver = "garmin" -> PrintSERPacket(d, p)       [] driver = "zodiac" -> zodiac_analyze(d, p)
                [] driver = "superstar2" -> superstar2_dispatch(d, p) [] driver = "geostar" -> geostar_analyze(d, p)
                [] driver = "italk" -> italk_parse(d, p)           [] driver = "oncore" -> oncore_dispatch(d, p)
                [] driver = "garmintxt" -> garmintxt_parse(d, p)
  IN [read EXCEPT !.reliable = (driver # "garmintxt") \/ p.whole \/ @]
=============================================================================
