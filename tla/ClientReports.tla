--------------------------- MODULE ClientReports ---------------------------
(***************************************************************************)
(* From the structure a driver decoded a message into, over the line the   *)
(* daemon writes of it, to the structure of a client of libgps: the union  *)
(* of struct gps_data_t (gps.h) at both ends, json_data_report()           *)
(* (gpsd_json.c) and libgps_json_unpack() (libgps_json.c).                 *)
(*                                                                         *)
(* A message is a record of the class of its report, its kind within the   *)
(* class, its shape (see the modules of the classes) and whether scaled    *)
(* values are wanted.                                                      *)
(***************************************************************************)
EXTENDS AisReports, RtcmReports, GpsReports, SubframeReports

VARIABLES
    session,  \* the class of the message in the union of the daemon's session
    line,     \* what the client has not read yet: a report, the rest of one, or nothing
    set,      \* the flags of UNION_SET that are up in gpsdata.set, by class
    memory,   \* the union of the client's gpsdata: its class, and whether all of it was read
    last      \* the last line read: class, kind, whether its reader accepted it, wrong values

vars == <<session, line, set, memory, last>>
-----------------------------------------------------------------------------
Message(class, kinds, shapes(_), scaled) ==
    UNION {{[class |-> class, kind |-> k, shape |-> s, scaled |-> b] : s \in shapes(k), b \in scaled} : k \in kinds}

\* Kinds of the classes without numbered types.
Plain(ids) == {<<0, id>> : id \in ids}

Messages ==
    UNION {Message("AIS", AisKinds, AisShapes, BOOLEAN),
           Message("RTCM2", Plain(Rtcm2Kinds), LAMBDA k : Rtcm2Shapes(k[2]), {FALSE}),
           Message("RTCM3", Plain(Rtcm3Kinds), LAMBDA k : Rtcm3Shapes(k[2]), {FALSE}),
           Message("SUBFRAME", Plain(SubframePages \ Unreported), LAMBDA k : {{}}, BOOLEAN)}
    \cup UNION {Message(c, Plain({"-"}), LAMBDA k : GpsShapes(c), {FALSE}) : c \in GpsClasses}

\* Every dump but one asks the policy of the client; json_subframe_dump()
\* asks the policy of the session, which nothing assigns.
SubframesScaled == FALSE

\* What of the report comes from the message (the deviations in the answer
\* to a POLL are those of the union, whatever it holds), ...
Decoded(m) ==
    CASE m.class = "AIS" -> Ais(m.kind, m.scaled, m.shape).decoded \cup {"device", "scaled"}
      [] m.class = "RTCM2" -> Unpack2(m.kind[2], m.shape)
      [] m.class = "RTCM3" -> Unpack3(m.kind[2])
      [] m.class = "SUBFRAME" -> DecodeSubframe(m.kind[2], SubframesScaled)
      [] m.class = "POLL" -> DOMAIN DumpPoll \ (IF session = "GST" THEN {} ELSE {"gst"})
      [] OTHER -> DOMAIN DumpGps(m.class, m.shape)

\* ... what is written, ...
Written(m) ==
    CASE m.class = "AIS" -> Ais(m.kind, m.scaled, m.shape).report
      [] m.class = "RTCM2" -> Dump2(m.kind[2], m.shape)
      [] m.class = "RTCM3" -> Dump3(m.kind[2], m.shape)
      [] m.class = "SUBFRAME" -> DumpSubframe(m.kind[2])
      [] OTHER -> DumpGps(m.class, m.shape)

\* ... and what it is read with.
TemplateOf(m) ==
    CASE m.class = "AIS" -> Ais(m.kind, m.scaled, m.shape).template
      [] m.class = "RTCM2" -> Read2(m.kind[2])
      [] OTHER -> ReadGps(m.class)

\* Broken: the AIS decoder does not clear the structure either.
Clears_None == {}

\* The classes whose structures share the storage of the union; a session
\* decodes into the first six, and only the AIS decoder clears it.
SessionUnion == {"AIS", "RTCM2", "RTCM3", "SUBFRAME", "GST", "ATT"}
ClientUnion == SessionUnion \cup {"VERSION", "DEVICES", "ERROR"}
Clears == {"AIS"}

\* The attributes written that the message did not assign.
Unassigned(m) ==
    {a \in DOMAIN Written(m) \ {"garbled"} :
        ~((IF m.class = "AIS" THEN From(a) ELSE {a}) \subseteq Decoded(m))}
\* Those that hold an earlier message's bits, and those that hold bits of
\* this message meant for something else.
Stale(m) == IF m.class \in Clears \/ session = "none" THEN {} ELSE Unassigned(m)
Misplaced(m) == IF m.class = "AIS" THEN Unassigned(m) \cap Foreign(m.kind) ELSE {}

\* The classes libgps_json_unpack() compares with.
Known == (GpsClasses \ {"POLL", "TIMING"}) \cup {"AIS", "RTCM2"}

\* The reader of the class returns 0.
ReadOK(m) == m.class \in Known /\ Accepts(TemplateOf(m), Written(m))

\* The fields an accepted report leaves without the message's value.
Wrong(m, stale) ==
    stale \cup Misplaced(m) \cup (IF m.class = "DEVICE" THEN DeviceMisread \cap DOMAIN Written(m) ELSE {})
    \cup {a \in DOMAIN Written(m) : ReadBack(TemplateOf(m), Written(m))[a] = "truncated"}

-----------------------------------------------------------------------------
Nothing == [message |-> "none"]
\* Raw data written after the brace that ends the report.
Rest == [message |-> "rest"]

NoPacket == [class |-> "none", kind |-> <<0, "-">>, read |-> FALSE, wrong |-> {}]

Init ==
    /\ session = "none"
    /\ line = Nothing
    /\ set = {}
    /\ memory = [class |-> "none", whole |-> TRUE]
    /\ last = NoPacket

\* A driver has decoded m, or a request is answered, and the line is sent;
\* the client's next gps_read() takes PACKET_SET down.
Report(m) ==
    /\ line = Nothing
    /\ line' = [message |-> m, stale |-> Stale(m)]
    /\ session' = IF m.class \in SessionUnion THEN m.class ELSE session
    /\ last' = NoPacket
    /\ UNCHANGED <<set, memory>>

\* Broken: what a rejected report holds is delivered as well.
Taken_Rejected(m) ==
    /\ line' = IF m.class = "AIS" /\ DataFollows(m.kind) THEN Rest ELSE Nothing
    /\ last' = [class |-> m.class, kind |-> m.kind, read |-> ReadOK(m), wrong |-> line.stale]
    /\ UNCHANGED session

\* The end of gps_unpack() for a line with message m, common to all classes.
Taken(m) ==
    /\ line' = IF m.class = "AIS" /\ DataFollows(m.kind) THEN Rest ELSE Nothing
    /\ last' = [class |-> m.class, kind |-> m.kind, read |-> ReadOK(m),
                wrong |-> IF ReadOK(m) THEN Wrong(m, line.stale) ELSE {}]
    /\ UNCHANGED session

\* Broken: a fix leaves the flags of earlier reports up.
ReadFix_KeepsFlags(m) ==
    /\ m.class = "TPV"
    /\ set' = set
    /\ Taken(m)
    /\ UNCHANGED memory

\* A fix: the flags are set afresh whatever the reader returns.
ReadFix(m) ==
    /\ m.class = "TPV"
    /\ set' = {}
    /\ Taken(m)
    /\ UNCHANGED memory

\* Broken: the flag of the last occupant of the union stays up.
ReadShared_BothFlags(m) ==
    /\ m.class \in ClientUnion \cap Known
    /\ memory' = [class |-> m.class, whole |-> ReadOK(m)]
    /\ set' = IF ReadOK(m) THEN set \cup {m.class} ELSE set
    /\ Taken(m)

\* A class of the union: its structure is written as the attributes come,
\* the flag of the last one is only taken down when all went well.
ReadShared(m) ==
    /\ m.class \in ClientUnion \cap Known
    /\ memory' = [class |-> m.class, whole |-> ReadOK(m)]
    /\ set' = IF ReadOK(m) THEN {m.class} ELSE set
    /\ Taken(m)

\* Classes with storage of their own: sky and device leave the union's
\* flag, a watch takes it down.
ReadOwn(m) ==
    /\ m.class \in {"SKY", "DEVICE", "WATCH"}
    /\ set' = IF m.class = "WATCH" /\ ReadOK(m) THEN {} ELSE set
    /\ Taken(m)
    /\ UNCHANGED memory

\* libgps_json_unpack() finds no class it knows.
Ignore(m) ==
    /\ m.class \notin Known
    /\ Taken(m)
    /\ UNCHANGED <<set, memory>>

\* A line that does not start with a brace is searched for "GPSD".
SkipRest ==
    /\ line = Rest
    /\ line' = Nothing
    /\ last' = NoPacket
    /\ UNCHANGED <<session, set, memory>>

Read ==
    /\ line \notin {Nothing, Rest}
    /\ LET m == line.message
       IN  ReadFix(m) \/ ReadShared(m) \/ ReadOwn(m) \/ Ignore(m)

Next == (\E m \in Messages : Report(m)) \/ Read \/ SkipRest

Spec == Init /\ [][Next]_vars

-----------------------------------------------------------------------------
\* Every variable keeps its type, and a report that was rejected delivers
\* nothing: libgps_json_unpack().
TypeOK ==
    /\ session \in SessionUnion \cup {"none"}
    /\ line \in {Nothing, Rest} \/ line.message \in Messages
    /\ set \subseteq ClientUnion
    /\ memory.class \in ClientUnion \cup {"none"} /\ memory.whole \in BOOLEAN
    /\ last.read \in BOOLEAN /\ (last.wrong # {} => last.read)

\* gps.h packs "things never reported together" in a union, of which the
\* flags in set are the only discriminant: at most one is up, and it names
\* what the union holds unless a report broke off half read.
FlagTellsContents ==
    \A f, g \in set : f = g /\ (memory.whole => memory.class = f)

\* A client that tests a union's flag after gps_read() handles a report
\* again only after a report about the sky or a device, which leave the
\* flag alone, and after a line that was not accepted.
FlagIsOfTheLine ==
    \A f \in set : last.read => f = last.class \/ last.class \in {"SKY", "DEVICE"}

\* What the library tells its user to look at is what the line brought.
FlagsAreRight == TypeOK /\ FlagTellsContents /\ FlagIsOfTheLine

\* Decoders of corrections and subframes write into a union that holds an
\* earlier message: what they do not assign and is written all the same is
\* the datum's offsets of a message cut short, two texts without an end,
\* one time of applicability, and the deviations in the answer to a POLL.
StaleIsKnown ==
    line \notin {Nothing, Rest} => line.stale \subseteq {"dx", "dy", "dz", "msg", "firmware", "HEALTH2.toa", "gst"}

\* Reports the client cannot read: texts, arrays and a dip angle its
\* templates have no room for, an error that quotes, eight kinds of AIS message whose report is no
\* JSON or is spelt otherwise, and legends where a number is declared.
Unreadable(m) ==
    \/ m.class \notin Known
    \/ m.shape \cap {"long", "empty", "many", "gap", "none", "dip", "auxiliary", "quoted"} # {}
    \/ m.class = "AIS" /\ m.kind \in ({6} \X {"20", "28"}) \cup ({8} \X {"11", "13", "17", "31"}) \cup ({26, 27} \X {"-"})
    \/ /\ m.class = "AIS" /\ m.scaled
       /\ \/ m.kind \in ({1, 4, 5, 19, 21, 23, 24} \X {"-"}) \cup ({8} \X {"19", "27"})
          \/ m.kind[1] = 22 /\ m.shape = {}
          \/ m.kind[1] = 9 /\ m.shape = {"extreme"}

\* Every other report of the daemon is accepted by the client of the same
\* release: gpsd_json.c against libgps_json.c, ais_json.i and rtcm2_json.c.
OthersAreRead == [][line \notin {Nothing, Rest} => last'.read \/ Unreadable(line.message)]_vars

\* An accepted report gives the values of the message, but for: the
\* application payloads of AIS, which are copied over their decoded form;
\* scaled positions and speeds declared as integers; the offsets of a short
\* datum; and the time of activation of a device.
WrongIsKnown ==
    \/ last.wrong = {}
    \/ last.class = "AIS" /\ \/ last.wrong \subseteq Foreign(last.kind)
                             \/ last.kind[1] \in {9, 17, 18} /\ last.wrong \subseteq {"lon", "lat", "speed", "course"}
    \/ last.class = "RTCM2" /\ last.kind[2] = "4" /\ last.wrong \subseteq {"dx", "dy", "dz"}
    \/ last.class = "DEVICE" /\ last.wrong = {"activated"}

\* Every member a report carries arrives as it was sent, except the ones named:
\* those are lost, changed or taken from the line before.
MembersAreRead == [](WrongIsKnown /\ StaleIsKnown) /\ OthersAreRead
=============================================================================
