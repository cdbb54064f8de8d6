----------------------------- MODULE RtcmReports ----------------------------
(***************************************************************************)
(* Corrections of differential stations: struct rtcm2_t and rtcm3_t, what  *)
(* rtcm2_unpack() and rtcm3_unpack() assign of them, what                  *)
(* json_rtcm2_dump() and json_rtcm3_dump() write, and what                 *)
(* json_rtcm2_read() reads; the client has no reader for version 3.        *)
(* Neither decoder clears the structure first, which shares its storage    *)
(* with every other kind of message.  A field has the name of the          *)
(* attribute it is written as.                                             *)
(*                                                                         *)
(* "shape" of a message:                                                   *)
(*   "empty"   too short for a single element                              *)
(*   "void"    types 3 and 4: too short for the content                    *)
(*   "short"   type 4: long enough for the datum, not for the offsets      *)
(*   "many"    more words than the reader has room for                     *)
(***************************************************************************)
EXTENDS JsonReader

Header2 == Ints({"type", "station_id", "seqnum", "length", "station_health"})
           @@ Reals({"zcount"}) @@ Strs({"device"})
Corrections == Ints(Named("satellites.", {"ident", "udre", "iod"})) @@ Reals(Named("satellites.", {"prc", "rrc"}))
Ecef == Reals({"x", "y", "z"})
Datum == Strs({"system", "datum"}) @@ Ints({"sense"})
Offsets == Reals({"dx", "dy", "dz"})
Health == Ints(Named("satellites.", {"ident", "health", "snr", "tou"}))
          @@ Bools(Named("satellites.", {"iodl", "health_en", "new_data", "los_warning"}))
Stations == Reals(Named("satellites.", {"lat", "lon", "frequency"}))
            @@ Ints(Named("satellites.", {"range", "health", "station_id", "bitrate"}))
Transmitter == Bools({"status", "rangeflag"}) @@ Reals({"lat", "lon"}) @@ Ints({"range"})
GpsTime == Ints({"week", "hour", "leapsecs"})
GlonassCorrections == Ints(Named("satellites.", {"ident", "udre", "tod"})) @@ Bools({"satellites.change"})
                      @@ Reals(Named("satellites.", {"prc", "rrc"}))

\* The types of version 2; "1" stands for 9 as well.
Rtcm2Kinds == {"1", "3", "4", "5", "6", "7", "13", "14", "16", "31", "other"}

\* What rtcm2_unpack() assigns.
Unpack2Position(kind, shape) ==
    IF "void" \in shape THEN {} ELSE
    IF kind = "3" THEN DOMAIN Ecef
    ELSE DOMAIN Datum \cup IF "short" \in shape THEN {} ELSE DOMAIN Offsets
Unpack2Stations(kind) == {"satellites"} \cup IF kind = "5" THEN DOMAIN Health ELSE DOMAIN Stations
Unpack2(kind, shape) ==
    DOMAIN Header2 \cup
    CASE kind = "1" -> IF "empty" \in shape THEN {"satellites"} ELSE {"satellites"} \cup DOMAIN Corrections
      [] kind \in {"3", "4"} -> Unpack2Position(kind, shape)
      [] kind \in {"5", "7"} -> Unpack2Stations(kind)
      [] kind = "13" -> DOMAIN Transmitter
      [] kind = "14" -> DOMAIN GpsTime
      [] kind = "16" -> {"message"}
      [] kind = "31" -> {"satellites"} \cup DOMAIN GlonassCorrections
      [] OTHER -> {"data"}

\* What json_rtcm2_dump() writes: a datum is written whole as soon as it is valid.
Dump2(kind, shape) ==
    Header2 @@
    CASE kind = "1" -> ArrayOf(shape, "satellites", Corrections)
      [] kind = "3" -> IF "void" \in shape THEN Without(Ecef, DOMAIN Ecef) ELSE Ecef
      [] kind = "4" -> IF "void" \in shape THEN Without(Datum, DOMAIN Datum) ELSE Datum @@ Offsets
      [] kind = "5" -> ArrayOf(shape, "satellites", Health)
      [] kind = "6" -> Without(Header2, DOMAIN Header2)
      [] kind = "7" -> ArrayOf(shape, "satellites", Stations)
      [] kind = "13" -> Transmitter
      [] kind = "14" -> GpsTime
      [] kind = "16" -> Strs({"message"})
      [] kind = "31" -> ArrayOf(shape, "satellites", GlonassCorrections)
      [] OTHER -> "data" :> CASE "empty" \in shape -> "none" [] "many" \in shape -> "long" [] OTHER -> "arr"

\* A template that takes what a structure is written as.
Taking(structure) ==
    [n \in DOMAIN structure |-> {CASE structure[n] = "int" -> "integer" [] structure[n] = "real" -> "real"
                                   [] structure[n] = "bool" -> "boolean" [] OTHER -> "string"}]

\* json_rtcm2_read().
Read2Satellites(kind) ==
    Typed({"satellites"}, "array") @@
    CASE kind = "1" -> Taking(Corrections) [] kind = "5" -> Taking(Health)
      [] kind = "7" -> Taking(Stations)    [] kind = "31" -> Taking(GlonassCorrections)
Read2(kind) ==
    Taking(Header2) @@
    CASE kind \in {"1", "5", "7", "31"} -> Read2Satellites(kind)
      [] kind = "3" -> Taking(Ecef)
      [] kind = "4" -> Typed({"valid"}, "boolean") @@ Typed({"system"}, "map") @@ Taking(Datum) @@ Taking(Offsets)
      [] kind = "6" -> Taking(Header2)
      [] kind = "13" -> Taking(Transmitter)
      [] kind = "14" -> Taking(GpsTime)
      [] kind = "16" -> Typed({"message"}, "string")
      [] OTHER -> Typed({"data"}, "array")

Rtcm2Shapes(kind) ==
    CASE kind \in {"1", "5", "7", "31"} -> {{}, {"empty"}}
      [] kind = "3" -> {{}, {"void"}}
      [] kind = "4" -> {{}, {"void"}, {"short"}}
      [] kind = "other" -> {{}, {"empty"}, {"many"}}
      [] OTHER -> {{}}
-----------------------------------------------------------------------------
\* Version 3

Header3 == Ints({"type", "length"}) @@ Strs({"device"})
Rtk == Ints({"station_id", "tow"}) @@ Strs({"sync", "smoothing", "interval"})
Basic == {"ind", "prange", "delta", "lockt"}
Extended == Basic \cup {"amb", "CNR"}
Bands(l1, l2) == Named("satellites.L1.", l1) \cup Named("satellites.L2.", l2)
Antenna == {"station_id", "system", "refstation", "sro", "x", "y", "z"}
Descriptor == {"station_id", "desc", "setup-id"}

Rtcm3Kinds == {"1001", "1002", "1003", "1004", "1005", "1006", "1007", "1008", "1009", "1010", "1011", "1012",
               "1013", "1014", "1019", "1029", "1033", "other"}

\* What rtcm3_unpack() assigns.  A text of type 1029 is copied without an
\* end, and firmware with the length of receiver: what follows is older.
Unpack3Gps(kind) ==
    CASE kind = "1001" -> Named("satellites.", Basic)
      [] kind = "1002" -> Named("satellites.", Extended)
      [] kind = "1003" -> Bands(Basic, Basic)
      [] kind = "1004" -> Bands(Extended, Extended \ {"amb"})
Unpack3Glonass(kind) ==
    CASE kind = "1009" -> Named("satellites.", Basic \cup {"channel"})
      [] kind = "1010" -> Named("satellites.", Extended \cup {"channel"})
      [] kind = "1011" -> {"satellites.channel"} \cup Bands(Extended, Extended)
      [] kind = "1012" -> {"satellites.channel"} \cup Bands(Extended, Extended \ {"amb"})
GpsRtk == {"1001", "1002", "1003", "1004"}
GlonassRtk == {"1009", "1010", "1011", "1012"}
Unpack3Station(kind) ==
    CASE kind = "1005" -> Antenna
      [] kind = "1006" -> Antenna \cup {"h"}
      [] kind = "1007" -> Descriptor
      [] kind = "1008" -> Descriptor \cup {"serial"}
StationKinds == {"1005", "1006", "1007", "1008"}
Unpack3(kind) ==
    DOMAIN Header3 \cup
    CASE kind \in GpsRtk -> DOMAIN Rtk \cup {"satellites", "satellites.ident"} \cup Unpack3Gps(kind)
      [] kind \in GlonassRtk -> DOMAIN Rtk \cup {"satellites", "satcount", "satellites.ident"} \cup Unpack3Glonass(kind)
      [] kind \in StationKinds -> Unpack3Station(kind)
      [] kind = "1013" -> {"station_id", "mjd", "sec", "leapsecs", "id", "sync", "interval"}
      [] kind = "1014" -> {"netid", "subnetid", "statcount", "master", "aux", "lat", "lon", "alt"}
      [] kind = "1029" -> {"station_id", "mjd", "sec", "len", "units"}
      [] kind = "1033" -> Descriptor \cup {"serial", "receiver"}
      [] OTHER -> {"data"}

\* What json_rtcm3_dump() writes: the objects of two bands lack a comma or
\* have one too many, as do the announcements of 1013 and the count of
\* 1014, and receiver has no quotes.
Dump3Gps(kind) ==
    CASE kind = "1001" -> Ints(Named("satellites.", Basic))
      [] kind = "1002" -> Ints(Named("satellites.", Extended))
      [] kind = "1003" -> Garbled @@ Ints(Bands(Basic, Basic))
      [] kind = "1004" -> Garbled @@ Ints(Bands(Extended, Extended \ {"amb"}))
Dump3Glonass(kind) ==
    CASE kind = "1009" -> Ints(Named("satellites.", Basic \cup {"channel"})) @@ Strs({"satcount"})
      [] kind = "1010" -> Ints(Named("satellites.", Extended \cup {"channel"}))
      [] kind = "1011" -> Garbled @@ Ints({"satellites.channel"} \cup Bands(Basic, Basic))
      [] kind = "1012" -> Garbled @@ Ints({"satellites.channel"} \cup Bands(Extended, Extended \ {"amb"}))
Dump3Station(kind) == Ints(Unpack3Station(kind))
Dump3(kind, shape) ==
    Header3 @@
    CASE kind \in GpsRtk -> Rtk @@ ArrayOf(shape, "satellites", Ints({"satellites.ident"}) @@ Dump3Gps(kind))
      [] kind \in GlonassRtk -> Rtk @@ ArrayOf(shape, "satellites", Ints({"satellites.ident"}) @@ Dump3Glonass(kind))
      [] kind \in StationKinds -> Dump3Station(kind)
      [] kind = "1013" -> Ints({"station_id", "mjd", "sec", "leapsecs"}) @@ IF "empty" \in shape THEN Header3 ELSE Garbled
      [] kind = "1014" -> Garbled @@ Ints({"netid", "subnetid", "aux", "lat", "lon", "alt"})
      [] kind = "1019" -> Header3
      [] kind = "1029" -> Ints({"station_id", "mjd", "sec", "len", "units"}) @@ Strs({"msg"})
      [] kind = "1033" -> Garbled @@ Ints(Descriptor) @@ Strs({"serial", "firmware"})
      [] OTHER -> "data" :> "arr"

Rtcm3Shapes(kind) == IF kind \in GpsRtk \cup GlonassRtk \cup {"1013"} THEN {{}, {"empty"}} ELSE {{}}
=============================================================================
