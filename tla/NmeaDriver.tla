----------------------------- MODULE NmeaDriver -----------------------------
(***************************************************************************)
(* driver_nmea.c: the sentences gpsd decodes, the dates and times it puts  *)
(* together from several of them, and how it finds out which sentence      *)
(* begins a cycle and which ends one.  A sentence is the record p of       *)
(* FixMerge, with its tag p.tag, a second field p.kind where the tag       *)
(* alone does not say what it is, and for GSV its part p.part of p.await.  *)
(***************************************************************************)
EXTENDS FixMerge

TimeOfDay(p) == p.t % HoursPerDay

(* The day is taken from the last dated sentence, and advances when the    *)
(* hour goes back                                                          *)
merge_hhmmss_SameDay(d, p) == [d EXCEPT !.hour = TimeOfDay(p)]
merge_hhmmss(d, p) ==
  [d EXCEPT !.hour = TimeOfDay(p), !.day = IF TimeOfDay(p) < d.hour THEN @ + 1 ELSE @]
merge_ddmmyy(d, p) == [d EXCEPT !.year = TRUE, !.day = p.t \div HoursPerDay]
register_fractional_time_NoLatch(d, p) == [d EXCEPT !.last = d.this, !.this = TimeOfDay(p)]
register_fractional_time(d, p) == [d EXCEPT !.last = d.this, !.this = TimeOfDay(p), !.latch = TRUE]
TimeIfDated(d) == IF d.year THEN Announce(d, {"TIME"}) ELSE d
do_lat_lon(d, p) == Announce(Put(d, {"position"}, p), {"LATLON"})
AtLeast(d, mode) == IF d.new.mode < mode THEN Announce(Mode(d, mode), {"MODE"}) ELSE d

(* newdata was cleared before the sentence: a warning never finds a mode   *)
(* to withdraw                                                             *)
processGPRMC(d, p) ==
  IF ~HasFix(p)
  THEN IF d.status # STATUS_NO_FIX THEN Announce(Status(d, STATUS_NO_FIX), {"STATUS"}) ELSE d
  ELSE LET timed == IF p.whole
                    THEN Announce(register_fractional_time(merge_ddmmyy(merge_hhmmss(d, p), p), p), {"TIME"})
                    ELSE d
           moving == Announce(Put(do_lat_lon(timed, p), {"speed", "track"}, p), {"SPEED", "TRACK"})
           fixed == IF d.status = STATUS_NO_FIX THEN Announce(Status(moving, STATUS_FIX), {"STATUS"}) ELSE moving
       IN AtLeast(fixed, MODE_2D)

processGPGLL(d, p) ==
  LET timed == TimeIfDated(register_fractional_time(merge_hhmmss(d, p), p))
  IN IF ~HasFix(p) THEN timed
     ELSE Announce(Status(AtLeast(do_lat_lon(timed, p), MODE_2D), STATUS_FIX), {"STATUS"})

(* A repeated timestamp is taken for a receiver that holds its last fix    *)
processGPGGA(d, p) ==
  LET repeated == d.last_gga = <<TimeOfDay(p)>>
      status   == IF repeated \/ ~HasFix(p) THEN STATUS_NO_FIX ELSE STATUS_FIX
      seen     == [Announce(d, {"STATUS"}) EXCEPT !.latch_mode = repeated, !.status = status,
                     !.last_gga = <<TimeOfDay(p)>>, !.new.mode = IF repeated THEN NO_FIX ELSE @]
      timed    == TimeIfDated(register_fractional_time(merge_hhmmss(seen, p), p))
      placed   == Used(do_lat_lon(timed, p), p)
  IN IF status = STATUS_NO_FIX THEN seen
     ELSE IF p.fix = MODE_2D THEN placed                          \* the altitude is empty
     ELSE AtLeast(Announce(Put(placed, {"altitude"}, p), {"ALTITUDE"}), MODE_3D)

processGPGST(d, p) == IF p.whole THEN Announce(register_fractional_time(d, p), {"GST"}) ELSE d
processGPGSA(d, p) ==
  IF ~p.whole \/ d.latch_mode THEN d
  ELSE Announce(Used(Dop(Mode(d, FixMode(p)), p), p), {"MODE", "DOP"})

(* Parts of a sky view are added up; the first of them empties it, and the *)
(* last of them reports it, whichever others have come                     *)
processGPGSV_AddsUp(d, p) ==
  LET added == IF Len(d.sky) >= MaxChannels THEN gpsd_zero_satellites(d)
               ELSE [d EXCEPT !.sky = Append(@, [t |-> p.t, part |-> p.part])]
  IN IF p.part < p.await THEN added ELSE Announce(added, {"SATELLITE"})
processGPGSV_NoRoom(d, p) ==
  LET room  == IF p.part = 1 THEN gpsd_zero_satellites(d) ELSE d
      added == [room EXCEPT !.sky = Append(@, [t |-> p.t, part |-> p.part])]
  IN IF p.part < p.await THEN added ELSE Announce(added, {"SATELLITE"})
processGPGSV(d, p) ==
  LET room  == IF p.part = 1 THEN gpsd_zero_satellites(d) ELSE d
      added == IF Len(room.sky) >= MaxChannels THEN gpsd_zero_satellites(room)
               ELSE [room EXCEPT !.sky = Append(@, [t |-> p.t, part |-> p.part])]
  IN IF ~p.whole THEN gpsd_zero_satellites(d)
     ELSE IF p.part < p.await THEN added
     ELSE IF added.sky = <<>> THEN gpsd_zero_satellites(added)
     ELSE Announce(added, {"SATELLITE"})

processPGRME(d, p) ==
  LET put == Put(d, {"eph", "epv"}, p)
  IN IF p.whole THEN Announce(put, {"HERR", "VERR"}) ELSE put
processGPGBS(d, p) ==
  LET timed == register_fractional_time(d, p)
  IN IF d.hour = TimeOfDay(p) THEN Announce(Put(timed, {"eph", "epv"}, p), {"HERR", "VERR"}) ELSE timed
processGPZDA_DateFirst(d, p) ==
  IF HasFix(p) THEN Announce(merge_hhmmss(merge_ddmmyy(d, p), p), {"TIME"}) ELSE d
processGPZDA(d, p) ==
  IF HasFix(p) THEN Announce(merge_ddmmyy(merge_hhmmss(d, p), p), {"TIME"}) ELSE d
processHDT(d) == Announce(d, {"ATTITUDE"})
processTNTHTM(d) == Announce(d, {"ATTITUDE"})
processOHPR(d) == Announce(d, {"ALTITUDE"})
processPASHR(d, p) ==
  LET timed == register_fractional_time(merge_hhmmss(Used(d, p), p), p)
      all   == Put(timed, {"position", "altitude", "track", "speed", "climb"}, p)
  IN CASE p.kind = "RID" -> d
       [] p.kind = "SAT" -> Announce(Used([d EXCEPT !.sky = Visible(d, p).sky], p), {"SATELLITE"})
       [] p.kind = "POS" ->
            IF HasFix(p)
            THEN Announce(Dop(Mode(Status(all, STATUS_FIX), MODE_3D), p),
                          {"MODE", "STATUS", "CLEAR", "TIME", "LATLON", "ALTITUDE", "SPEED", "TRACK", "CLIMB", "DOP"})
            ELSE Announce(Mode(Status(d, STATUS_NO_FIX), NO_FIX), {"MODE", "STATUS", "CLEAR"})

Sentence(d, p) ==
  CASE p.tag = "RMC" -> processGPRMC(d, p) [] p.tag = "GLL" -> processGPGLL(d, p)
    [] p.tag = "GGA" -> processGPGGA(d, p) [] p.tag = "GST" -> processGPGST(d, p)
    [] p.tag = "GSA" -> processGPGSA(d, p) [] p.tag = "GSV" -> processGPGSV(d, p)
    [] p.tag = "GBS" -> processGPGBS(d, p) [] p.tag = "ZDA" -> processGPZDA(d, p)
    [] p.tag = "PGRME" -> processPGRME(d, p) [] p.tag = "PASHR" -> processPASHR(d, p)
    [] p.tag = "HDT" -> processHDT(d) [] p.tag = "PTNTHTM" -> processTNTHTM(d)
    [] p.tag = "OHPR" -> processOHPR(d) [] OTHER -> d

(* A timestamp that differs from the one before begins a cycle, and shows  *)
(* that the timestamped sentence before ends one                           *)
Cycle_AnyTimed(d, p) ==
  LET enders == IF d.lasttag # "" THEN d.enders \cup {d.lasttag} ELSE d.enders
      bits  == (IF d.this # d.last THEN {"CLEAR"} ELSE {}) \cup (IF p.tag \in enders THEN {"REPORT"} ELSE {})
  IN [Announce(d, bits) EXCEPT !.enders = enders, !.lasttag = p.tag]
Cycle(d, p) ==
  LET new   == d.this # d.last
      enders == IF new /\ d.lasttag # "" THEN d.enders \cup {d.lasttag} ELSE d.enders
      bits  == (IF new THEN {"CLEAR"} ELSE {}) \cup (IF p.tag \in enders THEN {"REPORT"} ELSE {})
  IN [Announce(d, bits) EXCEPT !.enders = enders, !.lasttag = p.tag]

nmea_parse(d, p) ==
  LET s == Sentence([d EXCEPT !.latch = FALSE], p)
      timed == IF "TIME" \notin s.mask THEN s
               ELSE Announce([s EXCEPT !.new.time = <<s.day * HoursPerDay + s.hour>>],
                             IF s.fixcnt > 3 THEN {"PPSTIME"} ELSE {})
      cycled == IF timed.latch THEN Cycle(timed, p) ELSE timed
  IN [cycled EXCEPT !.reliable = @ \/ cycled.enders # {}]
=============================================================================
