----------------------------- MODULE GpsReports -----------------------------
(***************************************************************************)
(* The daemon's own reports: what json_*_dump() (gpsd_json.c) writes of a  *)
(* fix, its noise, the sky, the attitude, a device, a watch and the        *)
(* version, and the templates of libgps_json.c and shared_json.c.          *)
(*                                                                         *)
(* "shape" of a report:                                                    *)
(*   "2d", "3d"  TPV: the quality of the fix                               *)
(*   "sats"      SKY: satellites are seen                                  *)
(*   "gap"       SKY: the slots before the first satellite are empty       *)
(*   "dip"       ATT: the sensor reports its dip angle                     *)
(*   "online"    DEVICE: the device has been activated                     *)
(*   "none"      DEVICES: the daemon has no device                         *)
(*   "quoted"    ERROR: the answer to a bad DEVICE request                 *)
(***************************************************************************)
EXTENDS JsonReader

Origin == Strs({"tag", "device"})
Time == Strs({"time"})
\* A time is declared twice, as a date and as a number.
ReadTime == "time" :> {"time", "real"}
ReadOrigin == Typed({"tag", "device"}, "string")

Plane == {"lat", "lon", "epx", "epy", "track", "speed", "epd", "eps"}
Space == {"alt", "epv", "climb", "epc"}
DumpTpv(shape) ==
    Origin @@ Time @@ Ints({"mode"})
    @@ Reals({"ept"} \cup (IF shape \cap {"2d", "3d"} # {} THEN Plane ELSE {}) \cup IF "3d" \in shape THEN Space ELSE {})
ReadTpv == ReadOrigin @@ Typed({"time", "ept"} \cup Plane \cup Space, "real") @@ Typed({"mode"}, "integer")

Deviations == {"rms", "major", "minor", "orient", "lat", "lon", "alt"}
DumpGst == Origin @@ Time @@ Reals(Deviations)
\* Broken: deviations declared as integers.
ReadGst_Integers == ReadOrigin @@ Typed({"time"}, "real") @@ Typed(Deviations, "integer")
ReadGst == ReadOrigin @@ Typed({"time"} \cup Deviations, "real")

Dops == {"xdop", "ydop", "vdop", "tdop", "hdop", "gdop", "pdop"}
Satellite == Ints(Named("satellites.", {"PRN", "el", "az", "ss"})) @@ Bools({"satellites.used"})
\* The loop over the satellites ends after as many slots as there are
\* satellites, empty ones included.
DumpSky(shape) ==
    Origin @@ Time @@ Reals(Dops)
    @@ CASE "gap" \in shape -> "satellites" :> "none"
         [] "sats" \in shape -> "satellites" :> "arr" @@ Satellite
         [] OTHER -> Time
ReadSky == ReadOrigin @@ Typed({"time"} \cup Dops, "real") @@ Typed({"satellites"}, "array")
           @@ Typed(Named("satellites.", {"PRN", "el", "az"}), "integer") @@ Typed({"satellites.ss"}, "real")
           @@ Typed({"satellites.used"}, "boolean")

Angles == {"heading", "pitch", "yaw", "roll"}
AngleStates == {"mag_st", "pitch_st", "yaw_st", "roll_st"}
Sensors == {"mag_len", "mag_x", "mag_y", "mag_z", "acc_len", "acc_x", "acc_y", "acc_z", "gyro_x", "gyro_y",
            "temp", "depth"}
DumpAtt(shape) ==
    Origin @@ Reals(Angles \cup Sensors \cup IF "dip" \in shape THEN {"dip"} ELSE {}) @@ Attributes(AngleStates, "chr")
ReadAtt == ReadOrigin @@ Typed(Angles \cup Sensors, "real") @@ Typed(AngleStates, "character")

DeviceTexts == {"path", "driver", "subtype"}
DeviceNumbers == {"flags", "native", "bps", "stopbits"}
DumpDevice(shape) ==
    IF "online" \in shape
    THEN Strs(DeviceTexts \cup {"activated"}) @@ Ints(DeviceNumbers) @@ Reals({"cycle", "mincycle"}) @@ "parity" :> "chr"
    ELSE Strs({"path"})
\* json_device_read() has activated as a text, to be turned into a time if
\* the field is not a number, which by default it is.
ReadDevice == Typed(DeviceTexts, "string") @@ Typed(DeviceNumbers, "integer") @@ Typed({"cycle", "mincycle"}, "real")
              @@ Typed({"parity"}, "character") @@ "activated" :> {"string", "real"}
DeviceMisread == {"activated"}

DumpDevices(shape) ==
    IF "none" \in shape THEN "devices" :> "none"
    ELSE "devices" :> "arr"
         @@ [n \in Named("devices.", DeviceTexts \cup {"activated"}) |-> "str"] @@ Ints(Named("devices.", DeviceNumbers))
         @@ Reals(Named("devices.", {"cycle", "mincycle"})) @@ "devices.parity" :> "chr"
ReadDevices == Typed({"devices"}, "array") @@ Typed(Named("devices.", DeviceTexts), "string")
               @@ Typed(Named("devices.", DeviceNumbers), "integer")
               @@ Typed(Named("devices.", {"cycle", "mincycle"}), "real") @@ Typed({"devices.parity"}, "character")
               @@ "devices.activated" :> {"time", "real"}

Streams == {"enable", "json", "nmea", "scaled", "timing"}
DumpWatch == Bools(Streams) @@ Ints({"raw"}) @@ Strs({"device"})
ReadWatch == Typed(Streams, "boolean") @@ Typed({"raw"}, "integer") @@ Typed({"device", "remote"}, "string")

DumpVersion == Strs({"release", "rev"}) @@ Ints({"proto_major", "proto_minor"})
ReadVersion == Typed({"release", "rev", "remote"}, "string") @@ Typed({"proto_major", "proto_minor"}, "integer")

\* The answer to a bad DEVICE request has quotes inside the message.
DumpError(shape) == Strs({"message"}) @@ IF "quoted" \in shape THEN Garbled ELSE Strs({"message"})
ReadError == Typed({"message"}, "string")

\* Two reports the library has no reader for.
DumpPoll == Strs({"time"}) @@ Ints({"active"}) @@ [n \in {"tpv", "gst", "sky"} |-> "arr"]
DumpTiming == Strs({"tag"}) @@ Ints({"len"}) @@ Reals({"xmit", "recv", "decode", "emit"})

GpsClasses == {"TPV", "GST", "SKY", "ATT", "DEVICE", "DEVICES", "WATCH", "VERSION", "ERROR", "POLL", "TIMING"}
GpsShapes(class) ==
    CASE class = "TPV" -> {{}, {"2d"}, {"3d"}}
      [] class = "SKY" -> {{}, {"sats"}, {"gap"}}
      [] class = "ATT" -> {{}, {"dip"}}
      [] class = "DEVICE" -> {{}, {"online"}}
      [] class = "DEVICES" -> {{}, {"none"}}
      [] class = "ERROR" -> {{}, {"quoted"}}
      [] OTHER -> {{}}
DumpGps(class, shape) ==
    CASE class = "TPV" -> DumpTpv(shape) [] class = "GST" -> DumpGst         [] class = "SKY" -> DumpSky(shape)
      [] class = "ATT" -> DumpAtt(shape) [] class = "DEVICE" -> DumpDevice(shape)
      [] class = "DEVICES" -> DumpDevices(shape) [] class = "WATCH" -> DumpWatch
      [] class = "VERSION" -> DumpVersion [] class = "ERROR" -> DumpError(shape)
      [] class = "POLL" -> DumpPoll [] class = "TIMING" -> DumpTiming
ReadGps(class) ==
    CASE class = "TPV" -> ReadTime @@ ReadTpv [] class = "GST" -> ReadTime @@ ReadGst [] class = "SKY" -> ReadTime @@ ReadSky
      [] class = "ATT" -> ReadAtt [] class = "DEVICE" -> ReadDevice [] class = "DEVICES" -> ReadDevices
      [] class = "WATCH" -> ReadWatch [] class = "VERSION" -> ReadVersion [] class = "ERROR" -> ReadError
=============================================================================
