------------------------------ MODULE MCFixes -------------------------------
(***************************************************************************)
(* The receivers: their messages in the order in which they send them.     *)
(***************************************************************************)
EXTENDS FixReports

Item == [driver |-> "nmea", tag |-> "", msg |-> "", kind |-> "", part |-> 1, await |-> 1, whole |-> TRUE]
S(tag)          == [Item EXCEPT !.tag = tag]
View(k)         == [Item EXCEPT !.tag = "GSV", !.part = k, !.await = 2]
Sky             == [Item EXCEPT !.tag = "GSV"]
Ashtech(kind)   == [Item EXCEPT !.tag = "PASHR", !.kind = kind]
Odd(item)       == [item EXCEPT !.whole = FALSE]
B(driver, msgs) == [i \in DOMAIN msgs |-> [Item EXCEPT !.driver = driver, !.msg = msgs[i]]]
Sats(items, at) == [i \in DOMAIN items |-> IF i \in at THEN [items[i] EXCEPT !.part = CHOOSE k \in 1..2 : (k - i) % 2 = 0] ELSE items[i]]
AllOdd(items)   == [i \in DOMAIN items |-> Odd(items[i])]

All == {NO_FIX, MODE_2D, MODE_3D}
R(called, messages, losing, missing) ==
  [name |-> called, cycle |-> messages, modes |-> All, losses |-> losing, outages |-> missing]

Nmea ==
  { R("gga first", <<S("GGA"), S("GSA"), View(1), View(2), S("RMC")>>, 1, 0),
    R("rmc first", <<S("RMC"), S("GGA"), S("GSA")>>, 1, 1),
    R("rmc", <<S("RMC")>>, 1, 1),
    R("gll first", <<S("GLL"), S("GGA"), S("GSA")>>, 1, 0),
    R("gst first", <<S("GST"), S("GSA"), S("GGA"), S("ZDA")>>, 0, 1),
    R("dated once", <<S("ZDA"), S("GLL"), S("GGA")>>, 1, 1),
    R("split", <<S("GLL"), S("RMC"), S("GLL")>>, 0, 0),
    R("ashtech", <<Ashtech("RID"), Ashtech("POS"), Ashtech("SAT")>>, 1, 1),
    R("compass", <<S("HDT"), S("RMC"), Sky, S("PTNTHTM"), S("OHPR")>>, 0, 0),
    R("garmin nmea", <<S("RMC"), S("GGA"), S("PGRME"), S("GBS"), S("VTG")>>, 0, 0),
    R("odd nmea", <<Odd(S("RMC")), S("GGA"), Odd(S("GSA")), Odd(View(1)), Odd(S("GST")), Odd(S("PGRME"))>>, 0, 0) }

Binary ==
  { R("evermore", B("evermore", <<"02", "04", "06", "08">>), 1, 0),
    R("ubx", B("ubx", <<"SOL", "DOP", "TIMEGPS", "SVINFO", "SFRB">>), 1, 0),
    R("garmin", B("garmin", <<"PVT", "SAT">>), 1, 0),
    R("zodiac", B("zodiac", <<"1000", "1002", "1003", "1005">>), 1, 0),
    R("superstar2", B("superstar2", <<"NAVSOL", "SVINFO", "TIMING">>), 1, 0),
    R("geostar", B("geostar", <<"20", "21", "22">>), 1, 0),
    R("italk", B("italk", <<"NAV_FIX", "PRN_STATUS", "UTC_IONO", "SUBFRAME", "PSEUDO">>), 1, 0),
    R("oncore", B("oncore", <<"Ea", "Bb">>), 1, 0),
    R("garmintxt", B("garmintxt", <<"GTXT">>), 1, 0),
    R("sirf", B("sirf", <<"MID2", "MID4", "MID8", "MID52">>), 1, 0),
    R("sirf ublox", B("sirf", <<"MID98", "MID4", "MID2">>), 1, 0),
    R("tsip", Sats(B("tsip", <<"41", "46", "6d", "84", "56", "5c", "5c">>), {6, 7}), 1, 0),
    R("tsip levels", B("tsip", <<"4a", "56", "47">>), 0, 0),
    R("tsip super", B("tsip", <<"8f-20", "46", "6d">>), 1, 0),
    R("thunderbolt", B("tsip", <<"8f-ab", "8f-ac", "6d">>), 1, 0),
    R("navcom", B("navcom", <<"b1", "86", "b5">>), 1, 0) }

Odds ==
  { R("odd " \o r.name, AllOdd(r.cycle), 0, 0) : r \in {s \in Binary : s.name \in
      {"ubx", "zodiac", "superstar2", "italk", "oncore", "garmintxt", "sirf", "sirf ublox", "tsip",
       "tsip levels", "tsip super", "thunderbolt", "navcom"}} }

ReceiversDef == Nmea \cup Binary \cup Odds
=============================================================================
