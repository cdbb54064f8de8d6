--------------------------- MODULE PacketStreams ---------------------------
(***************************************************************************)
(* Devices that send packets to gpsd, read through the packet lexer in     *)
(* pieces of any size, in any order.  What a device sends is chosen when   *)
(* it starts: packets of the protocols of PacketLexer, as they should be,  *)
(* spoiled on the line or cut short, with others after them.               *)
(***************************************************************************)
EXTENDS PacketLexer

CONSTANTS Devices,    \* devices the daemon reads
          Sendings,   \* a set of functions from Devices to sequences of items
          Sizes       \* the sizes a read may have

VARIABLES lexer,      \* the lexer of each device, but for the static variables
          n, ctmp,    \* static variables of nextstate(), of which all devices have one
          sent,       \* what each device sends: items of some kind, with their bytes
          taken,      \* how many of its bytes were read
          got,        \* the packets it was found to send: type, place and length
          alone       \* what would be found if it were alone and its bytes there at once

vars == <<lexer, n, ctmp, sent, taken, got, alone>>

Flat(items) == FlattenSeq([i \in DOMAIN items |-> items[i].bytes])

ASSUME StreamsAreBytes ==
  Sizes \subseteq Nat /\ \A s \in Sendings : \A d \in Devices : Flat(s[d]) \in Seq(Byte)

(* what a read of bytes brought, as entries of got; all is what was read   *)
Found(L, all) ==
  [i \in DOMAIN L.out |-> [type |-> L.out[i].type, len |-> Len(L.out[i].bytes),
                           at |-> all - L.len - Len(L.out[i].bytes)]]

InOnePiece(bytes) ==
  LET rest[k \in 0 .. Len(bytes), L \in Lexer] ==
        LET take == Min2(Len(bytes) - k, Room - L.len)
            R    == packet_get(L, SubSeq(bytes, k + 1, k + take))
        IN IF take = 0 /\ Buffered(L) <= 0 THEN <<>>
           ELSE Found(R, k + take) \o rest[k + take, [R EXCEPT !.out = <<>>]]
  IN rest[0, packet_init]

Init ==
  /\ sent \in Sendings
  /\ lexer = [d \in Devices |-> packet_init]
  /\ n = 0 /\ ctmp = 0
  /\ taken = [d \in Devices |-> 0]
  /\ got = [d \in Devices |-> <<>>]
  /\ alone = [d \in Devices |-> InOnePiece(Flat(sent[d]))]

(* packet_get of one device; it is called again while it finds packets, so *)
(* that a call that reads nothing still parses what is buffered            *)
Gets(d, take, R) ==
  /\ lexer' = [lexer EXCEPT ![d] = [R EXCEPT !.n = 0, !.ctmp = 0, !.out = <<>>]]
  /\ n' = R.n /\ ctmp' = R.ctmp
  /\ taken' = [taken EXCEPT ![d] = @ + take]
  /\ got' = [got EXCEPT ![d] = @ \o Found(R, taken[d] + take)]
  /\ UNCHANGED <<sent, alone>>
Get(d, size) ==
  LET bytes == Flat(sent[d])
      take  == Min2(size, Min2(Len(bytes) - taken[d], Room - lexer[d].len))
  IN /\ take > 0 \/ Buffered(lexer[d]) > 0
     /\ Gets(d, take, packet_get([lexer[d] EXCEPT !.n = n, !.ctmp = ctmp],
                                 SubSeq(bytes, taken[d] + 1, taken[d] + take)))

Silent(d) == taken[d] = Len(Flat(sent[d])) /\ Buffered(lexer[d]) <= 0
AllSilent == (\A d \in Devices : Silent(d)) /\ UNCHANGED vars

Next == AllSilent \/ \E d \in Devices : \E size \in Sizes : Get(d, size)
Spec == Init /\ [][Next]_vars

-----------------------------------------------------------------------------
(* Where the items of a device begin; those that were passed over, and     *)
(* those of them that were not found                                       *)
Start(d, i)  == Len(Flat(SubSeq(sent[d], 1, i - 1)))
Size(d, i)   == Len(sent[d][i].bytes)
IsItem(g, d, i) == g.at = Start(d, i) /\ g.len = Size(d, i)
Passed(d)    == {i \in DOMAIN sent[d] : Start(d, i) < taken[d] - lexer[d].len}
Lost(d)      == {i \in Passed(d) : \A k \in DOMAIN got[d] : ~IsItem(got[d][k], d, i)}
Sound(d)     == {i \in DOMAIN sent[d] : sent[d][i].sound}
Others(d)    == UNION {DOMAIN sent[e] : e \in Devices \ {d}}
Sends(d, type) == \E i \in DOMAIN sent[d] : sent[d][i].type = type
AllSound(d)  == Sound(d) = DOMAIN sent[d]

(* No stream leads to ASTRAL_4, TSIP_LEADER ("unused case"),                *)
(* ZODIAC_EXPECTED and RTCM2_SKIP_STATE.                                    *)
Reached == States \ {"ASTRAL_4", "TSIP_LEADER", "ZODIAC_EXPECTED", "RTCM2_SKIP_STATE"}
(* Nor is a state left standing for which nextstate() has no case: it ends *)
(* when its packet has been taken.                                         *)
Between == Reached \ {"COMMENT_RECOGNIZED", "RTCM3_RECOGNIZED", "GTXT_RECOGNIZED", "JSON_RECOGNIZED"}

(* Types; the buffer holds no more than it has room for.                   *)
TypeOK ==
  \A d \in Devices :
    /\ lexer[d].state \in Between
    /\ lexer[d].length \in 0 .. SizeMax - 1
    /\ lexer[d].len \in 0 .. Room /\ Len(lexer[d].mem) \in lexer[d].len .. Room
    /\ lexer[d].ptr \in Nat /\ n \in Nat /\ ctmp \in Byte

(* The pointer stays within the bytes received ("lexer->inbufptr" is read  *)
(* through at every character), unless a $ inside a sentence has moved it  *)
(* on by the count of characters since the ground state.                   *)
PointerInside ==
  \A d \in Devices : lexer[d].ptr > lexer[d].len => lexer[d].state = "NMEA_DOLLAR"

(* The loop of packet_parse ends, though characters go back and the buffer *)
(* is read again: with every byte looked at, or at the first byte behind a *)
(* packet.                                                                 *)
ParseEnds ==
  \A d \in Devices : lexer[d].ptr < lexer[d].len => lexer[d].ptr = 0

(* The lexer's pointers and counters stay within its buffer, and each call *)
(* of packet_get reads it to an end.                                       *)
LexerIsKept == TypeOK /\ PointerInside /\ ParseEnds

(* What a driver is given is what a device sent: nothing put together from *)
(* two packets, nothing under another protocol's name, and a packet that   *)
(* was damaged only if its protocol has no checksum to tell.  NMEA's is    *)
(* optional: a sentence without its '*', or with its digits in small       *)
(* letters (packet.c compares toupper() of them, after it has looked for   *)
(* capitals only), is not checked.  The exception: a TSIP packet of fewer  *)
(* than five bytes and a text that is too short stay in the buffer, and    *)
(* what follows is found with them in front if nothing guards it.          *)
Stranded == {"tsip without data", "short gtxt"}
Unguarded == {"nmea_plain", "eartha", "comment", "gtxt", "rtcm2", "json"}
Unchecked == {"spoiled comment", "spoiled tsip", "spoiled gtxt", "spoiled nmea_plain", "spoiled nmea",
              "nmea of small digits"}
InFront(g, d) ==
  \E i \in DOMAIN sent[d] :
    /\ i + 1 \in DOMAIN sent[d] /\ sent[d][i].kind \in Stranded /\ sent[d][i + 1].kind \in Unguarded
    /\ g.type = sent[d][i + 1].type
    /\ g.at = Start(d, i) /\ g.len = Size(d, i) + Size(d, i + 1)
NothingInvented ==
  \A d \in Devices : \A k \in DOMAIN got[d] :
    got[d][k].type # "BAD_PACKET" =>
      \/ InFront(got[d][k], d)
      \/ \E i \in DOMAIN sent[d] : /\ IsItem(got[d][k], d, i)
                                   /\ sent[d][i].type = got[d][k].type
                                   /\ sent[d][i].sound \/ sent[d][i].kind \in Unchecked

(* "The goal is for the lexer to be able to cope with arbitrarily mixed    *)
(* packet types on the input stream" (packet.c): of the packets of a       *)
(* device that sends only sound ones, one is lost where the protocol       *)
(* changes to one whose leader the state after the packet before does not  *)
(* know, and the next is found.  After RTCM2 everything is lost that has   *)
(* no byte with the tag of its data; ASTRAL is never found.  (For iTalk    *)
(* and other devices see the properties below.)                            *)
Leaders ==
  [NMEA_PACKET |-> OneOf({"$", "!", "#"}) \cup {181}, AIVDM_PACKET |-> OneOf({"$", "!", "#"}) \cup {181},
   UBX_PACKET |-> {181} \cup Is("$"), SIRF_PACKET |-> {160}, SUPERSTAR2_PACKET |-> {SOH},
   ONCORE_PACKET |-> Is("@"), TSIP_PACKET |-> {DLE}, GARMIN_PACKET |-> {DLE}, EVERMORE_PACKET |-> {DLE},
   ZODIAC_PACKET |-> {255}, ITALK_PACKET |-> Is("<"), NAVCOM_PACKET |-> {STX}, GEOSTAR_PACKET |-> Is("P"),
   RTCM2_PACKET |-> Rtcm2Data, RTCM3_PACKET |-> Byte, COMMENT_PACKET |-> Byte, GARMINTXT_PACKET |-> Byte,
   JSON_PACKET |-> Byte]
Knows(type, item) == /\ item.bytes[1] \in Leaders[type]
                     /\ type = "EVERMORE_PACKET" => item.bytes[2] = STX
                     /\ type = "TSIP_PACKET" => item.type # "GARMIN_PACKET"
LosesAtTheSwitch ==
  \A d \in Devices : AllSound(d) /\ Others(d) = {} /\ ~Sends(d, "ITALK_PACKET") =>
    \A i \in Lost(d) : \/ /\ i > 1 /\ i - 1 \notin Lost(d)
                          /\ ~Knows(sent[d][i - 1].type, sent[d][i])
                       \/ \E j \in 1 .. i - 1 : sent[d][j].type = "RTCM2_PACKET" /\ j + 1 .. i \subseteq Lost(d)
                       \/ sent[d][i].kind = "astral"

(* "another good packet will usually be along in less than a second"       *)
(* (packet.c): after a damaged packet, no packet is lost that begins more  *)
(* than a buffer behind it.  JSON is the exception: an object that breaks  *)
(* off leaves json_depth counted up, and no object is found again.         *)
RecoversInABuffer ==
  \A d \in Devices : \A b \in DOMAIN sent[d] \ Sound(d) : \A i \in Lost(d) \cap Sound(d) :
    i > b => \/ Start(d, i) < Start(d, b) + Size(d, b) + Room
             \/ sent[d][i].type = "JSON_PACKET" /\ sent[d][b].type = "JSON_PACKET"

(* What comes out of the lexer is what was sent: nothing else, and all of it *)
(* but for what follows a change of protocol or a damaged packet.       *)
StreamIsRead == NothingInvented /\ LosesAtTheSwitch /\ RecoversInABuffer

(* Where read() cuts the stream makes no difference to what is found in    *)
(* it.  iTalk is the exception: its length is looked up before it need     *)
(* have come, and its end in the two bytes behind the packet.  And a text  *)
(* that is too short is told of as a bad packet only if the read ends with *)
(* it: the parse goes on, and what is found next takes its place.          *)
Told(d, gs) == IF \E i \in DOMAIN sent[d] : sent[d][i].kind = "short gtxt"
               THEN SelectSeq(gs, LAMBDA g : g.type # "BAD_PACKET") ELSE gs
AsAlone(d) ==
  Told(d, got[d]) = Told(d, SelectSeq(alone[d], LAMBDA g : g.at < taken[d] - lexer[d].len))
ReadsMakeNoDifference ==
  \A d \in Devices : Others(d) = {} =>
    AsAlone(d) \/ Sends(d, "ITALK_PACKET")

(* Nor does what other devices send meanwhile.  The static variables of    *)
(* nextstate() are the exception: ctmp, between a SuperStarII message      *)
(* number and its complement, and n, which says how far a $ inside a       *)
(* sentence moves the pointer.                                             *)
DevicesMakeNoDifference ==
  \A d \in Devices : Others(d) # {} =>
    \/ AsAlone(d)
    \/ \A e \in Devices : Sends(e, "SUPERSTAR2_PACKET")
    \/ Sends(d, "NMEA_PACKET") /\ ~AllSound(d)

(* The packets of a device depend on its bytes alone: not on how they come, *)
(* and not on the other devices.                                        *)
CutsMakeNoDifference == ReadsMakeNoDifference /\ DevicesMakeNoDifference
=============================================================================
