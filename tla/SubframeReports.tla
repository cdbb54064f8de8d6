--------------------------- MODULE SubframeReports --------------------------
(***************************************************************************)
(* Navigation subframes of the satellites: what gpsd_interpret_subframe()  *)
(* (subframe.c) assigns of struct subframe_t and what                      *)
(* json_subframe_dump() writes of it.  The client has no reader for it.    *)
(* The structure shares its storage with every other kind of message and   *)
(* is not cleared.  A page is named by its subframe and page identifier;   *)
(* "4-2" stands for the pages with an almanac, "4-1" for those that are    *)
(* not decoded, and "5-1" for the almanac pages of subframe 5.             *)
(*                                                                         *)
(* Most fields are kept twice, as they came and scaled: a field x and a    *)
(* field d_x (l_x), written as the one attribute x.                        *)
(***************************************************************************)
EXTENDS JsonReader

SubframeHeader == {"device", "tSV", "TOW17", "frame", "scaled"}

Clock1 == {"WN", "IODC", "L2", "ura", "hlth", "L2P", "Tgd", "toc", "af2", "af1", "af0"}
Orbit2 == {"IODE", "Crs", "deltan", "M0", "Cuc", "e", "Cus", "sqrtA", "toe", "FIT", "AODO"}
Orbit3 == {"IODE", "IDOT", "Cic", "Omega0", "Cis", "i0", "Crc", "omega", "Omegad"}
Almanac == {"ID", "Health", "e", "toa", "deltai", "Omegad", "sqrtA", "Omega0", "omega", "M0", "af0", "af1"}
Ionosphere == {"a0", "a1", "a2", "a3", "b0", "b1", "b2", "b3", "A1", "A0", "tot", "WNt", "ls", "WNlsf", "DN", "lsf"}

SubframePages == {"1", "2", "3", "4-1", "4-2", "4-13", "4-17", "4-18", "4-25", "4-52", "4-55", "4-56", "4-63", "5-1", "5-51"}

\* Pages the decoder returns 0 for: nothing is reported.
Unreported == {"4-1"}

\* The attributes whose raw field is assigned, by page, ...
DecodeEphemeris == "1" :> Named("EPHEM1.", Clock1) @@ "2" :> Named("EPHEM2.", Orbit2) @@ "3" :> Named("EPHEM3.", Orbit3)
DecodeAlmanac == [page \in {"4-2", "5-1"} |-> Named("ALMANAC.", Almanac)]
DecodeErd == [page \in {"4-13", "4-52"} |-> {"ERD.ai", "ERD.ERDi"}]
DecodeHealth == [page \in {"4-25", "4-63"} |-> {"HEALTH.data_id", "HEALTH.SVi", "HEALTH.SVHi"}]
DecodeText == [page \in {"4-17", "4-55"} |-> {"system_message"}]
DecodeIonosphere == [page \in {"4-18", "4-56"} |-> Named("IONO.", Ionosphere)]
DecodePage5 == "5-51" :> {"HEALTH2.WNa", "HEALTH2.SVi"}
DecodeRaw == DecodeEphemeris @@ DecodeAlmanac @@ DecodeErd @@ DecodeHealth @@ DecodeText @@ DecodeIonosphere @@ DecodePage5
\* ... and those whose scaled field is computed from it.  Of page 18 alpha1
\* and beta1 are computed from alpha2 and beta2 before these are assigned,
\* and tot from itself.
DecodeScaled(page) ==
    DecodeRaw[page] \ IF page \in {"4-18", "4-56"} THEN Named("IONO.", {"a1", "b1", "tot"}) ELSE {}

DumpEphemeris(page) ==
    CASE page = "1" -> Ints(Named("EPHEM1.", Clock1))
      [] page = "2" -> Ints(Named("EPHEM2.", Orbit2))
      [] page = "3" -> Ints(Named("EPHEM3.", Orbit3))
DumpAlmanac == Ints(Named("ALMANAC.", Almanac))
\* The pages 17 and 18 are not looked for, only their other numbers.
DumpPage(page) ==
    Ints({"pageid"}) @@
    CASE page \in {"4-13", "4-52"} -> Ints({"ERD.ai", "ERD.ERDi"})
      [] page = "4-55" -> Strs({"system_message"})
      [] page = "4-56" -> Ints(Named("IONO.", Ionosphere))
      [] page \in {"4-25", "4-63"} -> Ints({"HEALTH.data_id", "HEALTH.SVi", "HEALTH.SVHi"})
      [] page = "5-51" -> Ints(Named("HEALTH2.", {"toa", "WNa", "SVi"}))
      [] OTHER -> Ints({"pageid"})
DumpSubframe(page) ==
    Ints(SubframeHeader) @@
    CASE page \in {"1", "2", "3"} -> DumpEphemeris(page)
      [] page \in {"4-2", "5-1"} -> DumpAlmanac
      [] OTHER -> DumpPage(page)

DecodeSubframe(page, scaled) ==
    SubframeHeader \cup {"pageid"} \cup IF scaled THEN DecodeScaled(page) ELSE DecodeRaw[page]
=============================================================================
