----------------------------- MODULE MCPackets -----------------------------
(***************************************************************************)
(* What the devices of PacketStreams send: short packets of every protocol *)
(* the lexer knows, as the lexer's own checks want them.                   *)
(***************************************************************************)
EXTENDS PacketStreams

Text(letters) == [i \in DOMAIN letters |-> Code[letters[i]]]
Summed(letters) ==
  LET crc == XorOf(Tail(Text(letters)))
  IN Text(letters) \o <<Code["*"], Hex(crc \div 16), Hex(crc % 16), CR, LF>>
Item(kind, type, bytes) == [kind |-> kind, type |-> type, bytes |-> bytes, sound |-> TRUE]
Bad(kind, type, bytes) == [kind |-> kind, type |-> type, bytes |-> bytes, sound |-> FALSE]
UbxSummed(b) ==
  LET add(ck, c) == <<(ck[1] + c) % 256, (ck[2] + ck[1] + c) % 256>>
      ck == FoldLeft(add, <<0, 0>>, SubSeq(b, 3, Len(b)))
  IN b \o ck
CrcSummed(b) == LET c == Crc24(b) IN b \o <<c \div 65536, (c \div 256) % 256, c % 256>>

Good ==
  { Item("nmea", "NMEA_PACKET", Summed(<<"$", "G", "P", "x">>)),
    Item("nmea_plain", "NMEA_PACKET", Text(<<"$", "G", "N", "y">>) \o <<CR, LF>>),
    Item("aivdm", "AIVDM_PACKET", Summed(<<"!", "A", "I", "V", "D", "M">>)),
    Item("comment", "COMMENT_PACKET", Text(<<"#", "x">>) \o <<LF>>),
    Item("gtxt", "GARMINTXT_PACKET", Text(<<"@", "0", "1", "0", "1", "N">>) \o <<CR, LF>>),
    Item("sirf", "SIRF_PACKET", <<160, 162, 0, 2, 6, 7, 0, 13, 176, 179>>),
    Item("superstar2", "SUPERSTAR2_PACKET", <<1, 20, 235, 1, 9, 10, 1>>),
    Item("oncore", "ONCORE_PACKET", Text(<<"@", "@", "A", "w">>) \o <<1, 55, CR, LF>>),
    Item("tsip", "TSIP_PACKET", <<16, 130, 7, 16, 3>>),
    Item("garmin", "GARMIN_PACKET", <<16, 51, 1, 9, 195, 16, 3>>),
    Item("evermore", "EVERMORE_PACKET", <<16, 2, 4, 7, 8, 15, 16, 3>>),
    Item("rtcm3", "RTCM3_PACKET", CrcSummed(<<211, 0, 1, 5>>)),
    Item("zodiac", "ZODIAC_PACKET", <<255, 129, 232, 3, 1, 0, 0, 0, 24, 122, 5, 0, 251, 255>>),
    Item("ubx", "UBX_PACKET", UbxSummed(<<181, 98, 1, 6, 2, 0, 9, 8>>)),
    Item("italk", "ITALK_PACKET", Text(<<"<", "!">>) \o <<0, 0, 4, 0, 1, 5, 0, 5, 0>> \o Text(<<">">>)),
    Item("navcom", "NAVCOM_PACKET", <<2, 153, 102, 176, 5, 0, 7, 178, 3>>),
    Item("geostar", "GEOSTAR_PACKET", <<80, 83, 71, 71, 1, 0, 1, 0, 9, 0, 0, 0, 88, 83, 70, 71>>),
    Item("rtcm2", "RTCM2_PACKET", Text(<<"Y", "q", "q">>)),
    Item("json", "JSON_PACKET", Text(<<"{", "\"", "a", "\"", ":", "1", ",", "\"", "b", "\"", ":", "2", "}">>)),
    Item("astral", "NMEA_PACKET", Text(<<"A", "S", "T", "R", "A", "L">>)),
    Item("eartha", "NMEA_PACKET", Text(<<"E", "A", "R", "T", "H", "A">>)) }

(* A byte in the middle changed, or the last three lost                    *)
Spoiled(i) == Bad("spoiled " \o i.kind, i.type,
                   [i.bytes EXCEPT ![Len(i.bytes) \div 2 + 1] = IF @ = 65 THEN 66 ELSE 65])
Cut(i) == Bad("cut " \o i.kind, i.type, SubSeq(i.bytes, 1, Len(i.bytes) - 3))
Odd == { Bad("ubx without payload", "UBX_PACKET", UbxSummed(<<181, 98, 1, 6, 0, 0>>)),
         Bad("geostar without payload", "GEOSTAR_PACKET", <<80, 83, 71, 71, 1, 0, 0, 0, 81, 83, 71, 71>>),
         Bad("tsip without data", "TSIP_PACKET", <<16, 66, 16, 3>>),
         Bad("short gtxt", "GARMINTXT_PACKET", Text(<<"@", "0", "1">>) \o <<CR, LF>>),
         Bad("nmea of small digits", "NMEA_PACKET", Text(<<"$", "G", "P", "x", "*", "a", "a">>) \o <<CR, LF>>),
         Bad("broken json", "JSON_PACKET", Text(<<"{", "\"", "a", "\"", ":", "{", "x">>)) }
Damaged == {Spoiled(i) : i \in Good} \cup {Cut(i) : i \in Good} \cup Odd
Kind(k) == CHOOSE i \in Good \cup Damaged : i.kind = k

CONSTANTS d1, d2
One(items) == [d \in {d1, d2} |-> IF d = d1 THEN items ELSE <<>>]
Two(a, b) == [d \in {d1, d2} |-> IF d = d1 THEN a ELSE b]
Switches == {One(<<i, j, j>>) : i, j \in Good}
Recoveries == {One(<<i, j, j, j, j, j, j>>) : i \in Damaged, j \in {Kind("nmea"), Kind("ubx"), Kind("json")}}
(* a packet that stays in the buffer, before one that still fits into it *)
Strandings == {One(<<Kind(k), j>>) : k \in Stranded, j \in Good}
(* two devices at once *)
Pairs == { Two(<<Kind("superstar2")>>, <<Kind("superstar2")>>),
           Two(<<Kind("cut nmea"), Kind("nmea")>>, <<Kind("navcom")>>),
           Two(<<Kind("nmea")>>, <<Kind("ubx"), Kind("ubx")>>),
           Two(<<Kind("sirf")>>, <<Kind("superstar2")>>) }
SendingsDef == Switches \cup Recoveries \cup Strandings \cup Pairs
=============================================================================
