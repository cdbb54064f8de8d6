----------------------------- MODULE AisMessages ----------------------------
(***************************************************************************)
(* struct ais_t (gps.h) and what aivdm_decode() (driver_aivdm.c) leaves in *)
(* it.  A message is named by its type, "6.15" and "8.15" by type and      *)
(* application identifier under designated area code 1.  A structure is a  *)
(* function from its fields to the way an unscaled report writes them; the *)
(* fields of the elements of an array are written "array.field".           *)
(*                                                                         *)
(* "shape" is what else varies from one message of a type to the next:     *)
(*   "long"        a text or payload longer than a reader's value buffer   *)
(*   "empty"       an array without elements                               *)
(*   "addressed"   type 22, 25, 26: the message names its destination      *)
(*   "auxiliary"   type 24: the MMSI of an auxiliary craft                 *)
(*   "extreme"     type 1 and 9: speed, turn or altitude out of range      *)
(***************************************************************************)
EXTENDS JsonReader
-----------------------------------------------------------------------------
\* struct ais_t

Type1 == Ints({"status", "turn", "speed", "lon", "lat", "course", "heading", "second", "maneuver", "radio"})
         @@ Bools({"accuracy", "raim"})
Type4 == Ints({"year", "month", "day", "hour", "minute", "second", "lon", "lat", "epfd", "radio"})
         @@ Bools({"accuracy", "raim"})
Type5 == Ints({"imo", "ais_version", "shiptype", "to_bow", "to_stern", "to_port", "to_starboard", "epfd",
               "month", "day", "hour", "minute", "draught", "dte"})
         @@ Strs({"callsign", "shipname", "destination"})
Type6 == Ints({"seqno", "dest_mmsi", "dac", "fid", "bitcount", "bitdata"}) @@ Bools({"retransmit"})
Cargo12 == Strs({"lastport", "nextport", "dangerous", "imdcat"})
           @@ Ints({"lmonth", "lday", "lhour", "lminute", "nmonth", "nday", "nhour", "nminute",
                    "unid", "amount", "unit"})
Port18 == Ints({"linkage", "month", "day", "hour", "minute", "lon", "lat"}) @@ Strs({"portname", "destination"})
BerthServices == {"agent", "fuel", "chandler", "stevedore", "electrical", "water", "customs", "cartage",
                  "crane", "lift", "medical", "navrepair", "provisions", "shiprepair", "surveyor", "steam",
                  "tugs", "solidwaste", "liquidwaste", "hazardouswaste", "ballast", "additional",
                  "regional1", "regional2", "future1", "future2"}
Berth20 == Ints({"linkage", "berth_length", "berth_depth", "position", "month", "day", "hour", "minute",
                 "availability", "berth_lon", "berth_lat"} \cup BerthServices) @@ Strs({"berth_name"})
Cargo25 == Ints({"unit", "amount", "cargos.code", "cargos.subtype"}) @@ "cargos" :> "arr"
Route == Ints({"linkage", "sender", "rtype", "month", "day", "hour", "minute", "duration",
               "waypoints.lon", "waypoints.lat"}) @@ "waypoints" :> "arr"
Tidals == {"tidals.lon", "tidals.lat", "tidals.from_hour", "tidals.from_min", "tidals.to_hour",
           "tidals.to_min", "tidals.cdir", "tidals.cspeed"}
Tidal32 == Ints({"month", "day"} \cup Tidals) @@ "tidals" :> "arr"
Type7 == Ints({"mmsi1", "mmsi2", "mmsi3", "mmsi4"})
Type8 == Ints({"dac", "fid", "bitcount", "bitdata"})
Fairway13 == Strs({"reason", "closefrom", "closeto"})
             @@ Ints({"radius", "extunit", "fday", "fmonth", "fhour", "fminute",
                      "tday", "tmonth", "thour", "tminute"})
Targets == {"targets.idtype", "targets.id", "targets.lat", "targets.lon", "targets.course",
            "targets.second", "targets.speed"}
Signal19 == Ints({"linkage", "lon", "lat", "status", "signal", "hour", "minute", "nextsignal"})
            @@ Strs({"station"})
Weather31 == Ints({"lat", "lon", "day", "hour", "minute", "wspeed", "wgust", "wdir", "wgustdir", "airtemp",
                   "humidity", "dewpoint", "pressure", "pressuretend", "visibility", "waterlevel",
                   "leveltrend", "cspeed", "cdir", "cspeed2", "cdir2", "cdepth2", "cspeed3", "cdir3",
                   "cdepth3", "waveheight", "waveperiod", "wavedir", "swellheight", "swellperiod",
                   "swelldir", "seastate", "watertemp", "preciptype", "salinity"})
             @@ Bools({"accuracy", "visgreater", "ice"})
Type9 == Ints({"alt", "speed", "lon", "lat", "course", "second", "regional", "dte", "radio"})
         @@ Bools({"accuracy", "assigned", "raim"})
Type12 == Ints({"seqno", "dest_mmsi"}) @@ Bools({"retransmit"}) @@ Strs({"text"})
Type15 == Ints({"mmsi1", "type1_1", "offset1_1", "type1_2", "offset1_2", "mmsi2", "type2_1", "offset2_1"})
Type16 == Ints({"mmsi1", "offset1", "increment1", "mmsi2", "offset2", "increment2"})
Type17 == Ints({"lon", "lat", "bitcount", "bitdata"})
Type18 == Ints({"reserved", "speed", "lon", "lat", "course", "heading", "second", "regional", "radio"})
          @@ Bools({"accuracy", "cs", "display", "dsc", "band", "msg22", "assigned", "raim"})
Type19 == Ints({"reserved", "speed", "lon", "lat", "course", "heading", "second", "regional", "shiptype",
                "to_bow", "to_stern", "to_port", "to_starboard", "epfd", "dte"})
          @@ Strs({"shipname"}) @@ Bools({"accuracy", "raim", "assigned"})
Type20 == Ints({"offset1", "number1", "timeout1", "increment1", "offset2", "number2", "timeout2", "increment2",
                "offset3", "number3", "timeout3", "increment3", "offset4", "number4", "timeout4", "increment4"})
Type21 == Ints({"aid_type", "lon", "lat", "to_bow", "to_stern", "to_port", "to_starboard", "epfd",
                "second", "regional"})
          @@ Strs({"name"}) @@ Bools({"accuracy", "off_position", "raim", "virtual_aid", "assigned"})
Type22Area == {"ne_lon", "ne_lat", "sw_lon", "sw_lat"}
Type22Mmsi == {"dest1", "dest2"}
Type22 == Ints({"channel_a", "channel_b", "txrx", "zonesize"} \cup Type22Area \cup Type22Mmsi)
          @@ Bools({"power", "addressed", "band_a", "band_b"})
Type23 == Ints({"ne_lon", "ne_lat", "sw_lon", "sw_lat", "stationtype", "shiptype", "txrx", "interval", "quiet"})
Type24Dim == {"to_bow", "to_stern", "to_port", "to_starboard"}
Type24 == Strs({"shipname", "vendorid", "callsign"}) @@ Ints({"shiptype", "mothership_mmsi"} \cup Type24Dim)
Type25 == Bools({"addressed", "structured"}) @@ Ints({"dest_mmsi", "app_id", "bitcount", "bitdata"})
Type26 == Type25 @@ Ints({"radio"})
Type27 == Ints({"status", "lon", "lat", "speed", "course"}) @@ Bools({"accuracy", "raim", "gnss"})

-----------------------------------------------------------------------------
\* aivdm_decode(): the fields that hold values of the message when it
\* returns true.  The structure was cleared first; a field the message has
\* no bits for stays zero.

Common == {"type", "repeat", "mmsi"}

Decode1 == DOMAIN Type1
Decode4 == DOMAIN Type4
Decode5 == DOMAIN Type5

\* The payload is told from type8.dac and type8.fid, which lie over seqno
\* and dest_mmsi of a message of type 6: no MMSI is an application
\* identifier, so that none is decoded and the bits are copied as they are.
Decode6 == DOMAIN Type6

Decode7 == DOMAIN Type7

\* The payloads of type 8 that have a decoder.
Assigns11 == "11" :> DOMAIN Weather31
Assigns13to29 == "13" :> DOMAIN Fairway13 @@ "15" :> {"airdraught"} @@ "17" :> Targets \cup {"targets"}
                 @@ "19" :> DOMAIN Signal19 @@ "27" :> DOMAIN Route @@ "29" :> {"linkage", "text"}
Assigns31 == "31" :> DOMAIN Weather31
Assigns8 == Assigns11 @@ Assigns13to29 @@ Assigns31

\* Only the weather cases set imo; after every other the raw payload is
\* copied to bitdata, which shares its storage with the decoded payload.
KeepsPayload8 == {"11", "31"}
Decode8(id) == {"dac", "fid", "bitcount"} \cup IF id \in KeepsPayload8 THEN Assigns8[id] ELSE {"bitdata"}

Decode9 == DOMAIN Type9
Decode10 == {"dest_mmsi"}
Decode12 == DOMAIN Type12
Decode14 == {"text"}
Decode15 == DOMAIN Type15
Decode16 == DOMAIN Type16
Decode17 == DOMAIN Type17
Decode18 == DOMAIN Type18
Decode19 == DOMAIN Type19
Decode20 == DOMAIN Type20
Decode21 == DOMAIN Type21
Decode22(shape) ==
    DOMAIN Type22 \ (IF "addressed" \in shape THEN Type22Area ELSE Type22Mmsi)
Decode23 == DOMAIN Type23
Decode24(shape) ==
    DOMAIN Type24 \ (IF "auxiliary" \in shape THEN Type24Dim ELSE {"mothership_mmsi"})
Decode25(shape) == DOMAIN Type25 \ (IF "addressed" \in shape THEN {} ELSE {"dest_mmsi"})
Decode26(shape) == DOMAIN Type26 \ ({"radio"} \cup IF "addressed" \in shape THEN {} ELSE {"dest_mmsi"})
Decode27 == DOMAIN Type27

\* The fields of a payload that the copy of the raw bits overlays: they hold
\* bits of the message, read as the fields of a structure they were not
\* packed for.
Payload6 == ("12" :> DOMAIN Cargo12) @@ ("14" :> DOMAIN Tidal32) @@ ("15" :> {"airdraught"}) @@ ("16" :> {"persons"})
            @@ ("18" :> DOMAIN Port18) @@ ("20" :> DOMAIN Berth20) @@ ("25" :> DOMAIN Cargo25)
            @@ ("28" :> DOMAIN Route) @@ ("30" :> {"linkage", "text"}) @@ ("32" :> DOMAIN Tidal32)
Overlaid8(id) == IF id \in DOMAIN Assigns8 \ KeepsPayload8 THEN Assigns8[id] ELSE {}
=============================================================================
