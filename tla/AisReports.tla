----------------------------- MODULE AisReports -----------------------------
(***************************************************************************)
(* What json_aivdm_dump() (gpsd_json.c) writes of an AIS message, for a    *)
(* client that asked for scaled values or not, and the templates           *)
(* json_ais_read() (ais_json.c, ais_json.i) reads it with.  The kinds "1", *)
(* "4" and "7" stand for the types 2 and 3, 11, and 13 as well.            *)
(***************************************************************************)
EXTENDS AisMessages

\* A report to a client that asked for scaled values has reals and legends
\* where the others have the integers of the message.
InUnits(report, scaled, reals, legends) ==
    IF scaled THEN Attributes(reals, "real") @@ Strs(legends) @@ report ELSE report

LonLat == {"lon", "lat"}
Date == {"month", "day", "hour", "minute"}

DumpHeader == Strs({"device"}) @@ Ints({"type", "repeat", "mmsi"}) @@ Bools({"scaled"})

Dump1(scaled, shape) ==
    (IF scaled /\ "extreme" \in shape THEN Strs({"turn", "speed"}) ELSE Strs({}))
    @@ InUnits(Type1, scaled, {"speed"} \cup LonLat, {"status"})
Dump4(scaled) ==
    Strs({"timestamp"}) @@ InUnits(Without(Type4, Date \cup {"year", "second"}), scaled, LonLat, {"epfd"})
Dump5(scaled) ==
    Strs({"eta"}) @@ InUnits(Without(Type5, Date), scaled, {"draught"}, {"shiptype", "epfd"})

\* A tidal window has no comma between cdir and cspeed: the two are one
\* token, which starts with the digits of cdir.
DumpTidals(scaled, shape) ==
    Ints({"month", "day"})
    @@ ArrayOf(shape, "tidals",
               InUnits(Ints(Tidals \ {"tidals.cspeed"}), scaled, {"tidals.lon", "tidals.lat"}, {}))
DumpRoute(scaled, shape) ==
    Strs({"start"}) @@ InUnits(Ints({"linkage", "sender", "rtype", "duration"}), scaled, {}, {"rtype"})
    @@ ArrayOf(shape, "waypoints",
               InUnits(Ints({"waypoints.lon", "waypoints.lat"}), scaled, {"waypoints.lon", "waypoints.lat"}, {}))

Dump6Cargo12 ==
    Strs({"departure", "eta"})
    @@ Without(Cargo12, {"lmonth", "lday", "lhour", "lminute", "nmonth", "nday", "nhour", "nminute"})
Dump6Port18(scaled) == Strs({"arrival"}) @@ InUnits(Without(Port18, Date), scaled, LonLat, {})
\* A quote too many before regional1.
Dump6Berth20(scaled) ==
    Strs({"arrival"}) @@ Garbled
    @@ InUnits(Without(Berth20, Date \cup {"regional1"}), scaled, {"berth_lon", "berth_lat", "berth_depth"}, {})
Dump6Cargo25(shape) ==
    Ints({"unit", "amount"}) @@ ArrayOf(shape, "cargos", Ints({"cargos.code", "cargos.subtype"}))
\* The name waypoints has no closing quote.
Dump6Route28(scaled, shape) ==
    Garbled @@ Without(DumpRoute(scaled, shape), {"waypoints", "waypoints.lon", "waypoints.lat"})

\* The payload of a message of type 6; the raw data follow every one but
\* fid 16, and follow the closing brace when the payload was written.
Dump6Payload(id, scaled, shape) ==
    CASE id = "12" -> Dump6Cargo12
      [] id = "15" -> Ints({"airdraught"})
      [] id = "16" -> Ints({"persons"})
      [] id = "18" -> Dump6Port18(scaled)
      [] id = "20" -> Dump6Berth20(scaled)
      [] id = "25" -> Dump6Cargo25(shape)
      [] id = "28" -> Dump6Route28(scaled, shape)
      [] id = "30" -> Ints({"linkage"}) @@ TextOf(shape, "text")
      [] id \in {"14", "32"} -> DumpTidals(scaled, shape)
      [] OTHER -> TextOf(shape, "data")
Dump6(id, scaled, shape) ==
    Bools({"retransmit"}) @@ Ints({"seqno", "dest_mmsi", "dac", "fid"}) @@ Dump6Payload(id, scaled, shape)
DataAfter6 == {"12", "14", "15", "18", "20", "25", "28", "30", "32"}

Dump7 == Type7

\* The weather report opens a second object, and spells wspeed "wapeed".
Dump8Weather(id, scaled) ==
    LET written == {"visgreater"} \cap (IF scaled THEN DOMAIN Weather31 ELSE {})
        omitted == {"day", "hour", "minute", "wspeed"} \cup written
                   \cup IF id = "31" THEN {} ELSE {"accuracy"}
    IN  Garbled @@ Strs({"timestamp"}) @@ Ints({"wapeed"})
        @@ InUnits(Without(Weather31, omitted), scaled,
                   LonLat \cup {"airtemp", "dewpoint", "visibility", "waterlevel", "cspeed", "cspeed2", "cspeed3",
                                "waveheight", "swellheight", "watertemp", "salinity"},
                   {"pressuretend", "leveltrend"})
Dump8Fairway13 == Strs({"from", "to"}) @@ Strs({"reason", "closefrom", "closeto"}) @@ Ints({"radius", "extunit"})
\* The identifier is named after its type: mmsi, imo, callsign or other.
Dump8Targets(scaled, shape) ==
    ArrayOf(shape, "targets",
            Strs({"targets.mmsi"})
            @@ InUnits(Ints(Targets \ {"targets.id"}), scaled, {"targets.lon", "targets.lat"}, {"targets.idtype"}))
Dump8Signal19(scaled) == InUnits(Signal19, scaled, LonLat, {"signal", "nextsignal"})
Dump8Payload(id, scaled, shape) ==
    CASE id \in {"11", "31"} -> Dump8Weather(id, scaled)
      [] id = "13" -> Dump8Fairway13
      [] id = "15" -> Ints({"airdraught"})
      [] id = "17" -> Dump8Targets(scaled, shape)
      [] id = "19" -> Dump8Signal19(scaled)
      [] id = "27" -> DumpRoute(scaled, shape)
      [] id = "29" -> Ints({"linkage"}) @@ TextOf(shape, "text")
      [] OTHER -> TextOf(shape, "data")
Dump8(id, scaled, shape) == Ints({"dac", "fid"}) @@ Dump8Payload(id, scaled, shape)
DataAfter8 == {"13", "15", "17", "19", "27", "29"}

Dump9(scaled, shape) ==
    (IF scaled /\ "extreme" \in shape THEN Strs({"alt", "speed"}) ELSE Strs({}))
    @@ InUnits(Without(Type9, {"assigned"}), scaled, {"course"} \cup LonLat, {})
Dump10 == Ints({"dest_mmsi"})
Dump12(shape) == TextOf(shape, "text") @@ Type12
Dump14(shape) == TextOf(shape, "text")
Dump15 == Type15
Dump16 == Type16
Dump17(scaled, shape) == TextOf(shape, "data") @@ InUnits(Ints(LonLat), scaled, LonLat, {})
Dump18(scaled) == InUnits(Without(Type18, {"assigned"}), scaled, {"speed", "course"} \cup LonLat, {})
Dump19(scaled) == InUnits(Type19, scaled, {"speed", "course"} \cup LonLat, {"shiptype", "epfd"})
Dump20 == Type20
Dump21(scaled) == InUnits(Without(Type21, {"assigned"}), scaled, LonLat, {"aid_type", "epfd"})
\* No comma between dest2 and addressed, which are read as one token.
Dump22(scaled, shape) ==
    IF "addressed" \in shape THEN Without(Type22, Type22Area \cup {"addressed"})
    ELSE InUnits(Without(Type22, Type22Mmsi), scaled, {}, Type22Area)
Dump23(scaled) == InUnits(Without(Type23, {"txrx"}), scaled, {}, Type22Area \cup {"stationtype", "shiptype"})
\* The quote before the name of mothership_mmsi is inside it.
Dump24(scaled, shape) ==
    InUnits(Without(Type24, Type24Dim \cup {"mothership_mmsi"}), scaled, {}, {"shiptype"})
    @@ IF "auxiliary" \in shape THEN Garbled ELSE Ints(Type24Dim)
Dump25(shape) == TextOf(shape, "data") @@ Without(Type25, {"bitcount", "bitdata"})
\* No comma before radio.
Dump26(shape) == Garbled @@ Dump25(shape)
\* No quote before the name raim; always scaled.
Dump27 == Strs({"status"}) @@ Attributes(LonLat, "real") @@ Garbled @@ Without(Type27, {"raim"})

-----------------------------------------------------------------------------
\* ais_json.i

Declared(type) ==
    [n \in DOMAIN type |-> {CASE type[n] = "int" -> "integer" [] type[n] = "bool" -> "boolean"
                              [] type[n] = "arr" -> "array"   [] OTHER -> "string"}]

ReadHeader == Declared(DumpHeader)
Read1 == Declared(Type1)
Read4 == Declared(Without(Type4, Date \cup {"year", "second"})) @@ Typed({"timestamp"}, "string")
Read5 == Declared(Without(Type5, Date)) @@ Typed({"eta"}, "string")
Read6Common == Declared(Without(Type6, {"bitcount", "bitdata"}))
Read6Raw == Typed({"data"}, "string")
Read6Cargo12 == Typed({"lastport", "departure", "nextport", "eta", "dangerous", "imdcat"}, "string")
                @@ Typed({"unid", "amount", "unit"}, "integer")
Read6Fid15 == Typed({"airdraught"}, "integer")
Read6Fid16 == Typed({"persons"}, "integer")
Read6Cargo25 == Declared(Cargo25)
Read6Port18 == Declared(Without(Port18, Date)) @@ Typed({"arrival"}, "string")
Read6Berth20 == Declared(Without(Berth20, Date)) @@ Typed({"arrival"}, "string")
Read6Route28 == Declared(Without(Route, Date)) @@ Typed({"start"}, "string")
Read6Text30 == Typed({"linkage"}, "integer") @@ Typed({"text"}, "string")
Read6Tidal32 == Declared(Tidal32)
Read7 == Declared(Type7)
Read8Common == Typed({"dac", "fid"}, "integer")
Read8Raw == Typed({"data"}, "string")
Read8Fairway13 == Declared(Fairway13)
Read8Fid15 == Typed({"airdraught"}, "integer")
Read8Targets == Typed({"targets"}, "array") @@ Typed({"targets.id.callsign", "targets.id.other"}, "string")
                @@ Typed((Targets \ {"targets.id"}) \cup {"targets.id.mmsi", "targets.id.imo"}, "integer")
Read8Signal19 == Declared(Signal19)
Read8Route27 == Declared(Without(Route, Date)) @@ Typed({"start"}, "string")
Read8Text29 == Typed({"linkage"}, "integer") @@ Typed({"text"}, "string")
\* wgust is declared with a blank after its name.
Read8Weather == Typed({"wgust "}, "integer")
                @@ Declared(Without(Weather31, {"day", "hour", "minute", "wgust", "humidity", "dewpoint", "watertemp"}))
Read9 == Declared(Without(Type9, {"assigned"}))
\* Broken: the name is not the one that is written.
Read10_Misspelt == Typed({"destination_mmsi"}, "integer")
Read10 == Typed({"dest_mmsi"}, "integer")
Read12 == Declared(Type12)
Read14 == Typed({"text"}, "string")
Read15 == Declared(Type15)
Read16 == Declared(Type16)
Read17 == Typed(LonLat, "integer") @@ Typed({"data"}, "string")
Read18 == Declared(Without(Type18, {"assigned"}))
Read19 == Declared(Type19)
Read20 == Declared(Type20)
Read21 == Declared(Without(Type21, {"assigned"}))
Read22 == Declared(Type22)
Read23 == Declared(Type23)
Read24 == Declared(Type24)
Read25 == Declared(Without(Type25, {"bitcount", "bitdata"})) @@ Typed({"data"}, "string")
Read26 == Read25 @@ Typed({"radio"}, "integer")
Read27 == Declared(Type27)

-----------------------------------------------------------------------------
\* The three tables together.  An entry says what the message leaves in the
\* structure, what is written of it, and what it is read with.

Entry(decoded, report, template) ==
    [decoded |-> Common \cup decoded, report |-> DumpHeader @@ report, template |-> ReadHeader @@ template]

Fid6 == {"12", "14", "15", "16", "18", "20", "25", "28", "30", "32", "other"}
Fid8 == {"11", "13", "15", "17", "19", "27", "29", "31", "other"}

\* json_ais_read() takes fid 11 of type 6 for 18, 14 for 32, and 11 of type
\* 8 for 31.
Template6(id) ==
    Read6Common @@
    CASE id = "12" -> Read6Cargo12 [] id = "15" -> Read6Fid15   [] id = "16" -> Read6Fid16
      [] id = "18" -> Read6Port18  [] id = "20" -> Read6Berth20 [] id = "25" -> Read6Cargo25
      [] id = "28" -> Read6Route28 [] id = "30" -> Read6Text30  [] id \in {"14", "32"} -> Read6Tidal32
      [] OTHER -> Read6Raw
Template8(id) ==
    Read8Common @@
    CASE id = "13" -> Read8Fairway13 [] id = "15" -> Read8Fid15    [] id = "17" -> Read8Targets
      [] id = "19" -> Read8Signal19  [] id = "27" -> Read8Route27  [] id = "29" -> Read8Text29
      [] id \in {"11", "31"} -> Read8Weather [] OTHER -> Read8Raw

\* A kind of message is a type and, for types 6 and 8, an identifier.
AisKinds == {<<6, id>> : id \in Fid6} \cup {<<8, id>> : id \in Fid8}
            \cup ({1, 4, 5, 7, 9, 10, 12} \cup 14..27) \X {"-"}

Ais(kind, scaled, shape) ==
    LET type == kind[1]
        id == kind[2]
    IN  CASE type = 1 -> Entry(Decode1, Dump1(scaled, shape), Read1)
          [] type = 4 -> Entry(Decode4, Dump4(scaled), Read4)
          [] type = 5 -> Entry(Decode5, Dump5(scaled), Read5)
          [] type = 6 -> Entry(Decode6, Dump6(id, scaled, shape), Template6(id))
          [] type = 7 -> Entry(Decode7, Dump7, Read7)
          [] type = 8 -> Entry(Decode8(id), Dump8(id, scaled, shape), Template8(id))
          [] type = 9 -> Entry(Decode9, Dump9(scaled, shape), Read9)
          [] type = 10 -> Entry(Decode10, Dump10, Read10)
          [] type = 12 -> Entry(Decode12, Dump12(shape), Read12)
          [] type = 14 -> Entry(Decode14, Dump14(shape), Read14)
          [] type = 15 -> Entry(Decode15, Dump15, Read15)
          [] type = 16 -> Entry(Decode16, Dump16, Read16)
          [] type = 17 -> Entry(Decode17, Dump17(scaled, shape), Read17)
          [] type = 18 -> Entry(Decode18, Dump18(scaled), Read18)
          [] type = 19 -> Entry(Decode19, Dump19(scaled), Read19)
          [] type = 20 -> Entry(Decode20, Dump20, Read20)
          [] type = 21 -> Entry(Decode21, Dump21(scaled), Read21)
          [] type = 22 -> Entry(Decode22(shape), Dump22(scaled, shape), Read22)
          [] type = 23 -> Entry(Decode23, Dump23(scaled), Read23)
          [] type = 24 -> Entry(Decode24(shape), Dump24(scaled, shape), Read24)
          [] type = 25 -> Entry(Decode25(shape), Dump25(shape), Read25)
          [] type = 26 -> Entry(Decode26(shape), Dump26(shape), Read26)
          [] type = 27 -> Entry(Decode27, Dump27, Read27)

\* What can vary in a message of a kind.
AisShapes(kind) ==
    SUBSET CASE kind[1] \in {1, 9} -> {"extreme"}
             [] kind \in {<<6, id>> : id \in {"14", "25", "28", "32"}} \cup {<<8, "17">>, <<8, "27">>} -> {"empty"}
             [] kind \in {<<6, "30">>, <<6, "other">>, <<8, "29">>, <<8, "other">>} -> {"long"}
             [] kind[1] \in {12, 14, 17} -> {"long"}
             [] kind[1] = 22 -> {"addressed"}
             [] kind[1] \in {25, 26} -> {"addressed", "long"}
             [] kind[1] = 24 -> {"auxiliary"}
             [] OTHER -> {}

\* The fields an attribute is written from, where they have other names.
From(attribute) ==
    CASE attribute = "timestamp" -> Date \cup {"year", "second"}
      [] attribute \in {"eta", "start", "arrival"} -> Date
      [] attribute = "data" -> {"bitcount", "bitdata"}
      [] OTHER -> {attribute}

\* A line that starts with the raw data follows the report.
DataFollows(kind) ==
    kind \in {<<6, id>> : id \in DataAfter6} \cup {<<8, id>> : id \in DataAfter8}

\* The attributes of a report whose bits were packed for other fields.
Foreign(kind) ==
    IF kind[1] = 6 /\ kind[2] \in DOMAIN Payload6 THEN Payload6[kind[2]]
    ELSE IF kind[1] = 8 THEN Overlaid8(kind[2]) ELSE {}
=============================================================================
