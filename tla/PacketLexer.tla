---------------------------- MODULE PacketLexer ----------------------------
(***************************************************************************)
(* The packet lexer of gpsd (packet.c): one state machine that finds the   *)
(* packets of some fifteen protocols in the bytes a receiver sends.        *)
(*                                                                         *)
(* A lexer L is a record: the machine's state, the count of payload bytes  *)
(* still to come (length), the bytes read and not thrown away (buf), how   *)
(* many of them have been looked at (ptr), the JSON nesting, the packet    *)
(* found last, and what the RTCM2 bit decoder has locked on.  Two more     *)
(* fields, n and ctmp, are static variables of nextstate(): one copy for   *)
(* every device of the daemon.                                             *)
(*                                                                         *)
(* A byte is its code, 0..255.  The decoder of RTCM2's bit stream          *)
(* (isgps.c) is reduced to bytes: one that begins a message and locks, and *)
(* data bytes of which Rtcm2Length make the message; any other byte with   *)
(* the data tag fails parity.                                              *)
(***************************************************************************)
EXTENDS Integers, Sequences, SequencesExt, FiniteSets, TLC

CONSTANTS MaxPacket,   \* MAX_PACKET_LENGTH; the buffers hold 2 * MaxPacket + 1 bytes
          GtxtLength,  \* the least length of a Garmin text packet (57)
          Rtcm2Length, \* data bytes of an RTCM2 message
          SizeMax      \* the values of size_t, the type of lengths: going below zero leaves a
                       \* number no stream counts down

ASSUME PacketNumbers == MaxPacket \in Nat /\ SizeMax \in Nat /\ SizeMax >= 4

Room == 2 * MaxPacket + 1
Min2(a, b) == IF a < b THEN a ELSE b

Printable ==
  <<" ", "!", "\"", "#", "$", "%", "&", "'", "(", ")", "*", "+", ",", "-", ".", "/", "0", "1",
    "2", "3", "4", "5", "6", "7", "8", "9", ":", ";", "<", "=", ">", "?", "@", "A", "B", "C",
    "D", "E", "F", "G", "H", "I", "J", "K", "L", "M", "N", "O", "P", "Q", "R", "S", "T", "U",
    "V", "W", "X", "Y", "Z", "[", "\\", "]", "^", "_", "grave", "a", "b", "c", "d", "e", "f", "g",
    "h", "i", "j", "k", "l", "m", "n", "o", "p", "q", "r", "s", "t", "u", "v", "w", "x", "y",
    "z", "{", "|", "}", "~">>

Code == [s \in {Printable[i] : i \in DOMAIN Printable} |->
           31 + CHOOSE i \in DOMAIN Printable : Printable[i] = s]
Is(s) == {Code[s]}
OneOf(letters) == {Code[s] : s \in letters}

SOH == 1
STX == 2
ETX == 3
DLE == 16
CR == 13
LF == 10
Byte  == 0 .. 255
Upper == 65 .. 90
Alpha == Upper \cup (97 .. 122)
Graphic == 32 .. 126
Space == (9 .. 13) \cup {32}
Digit == 48 .. 57

-----------------------------------------------------------------------------
(* Every family of states has a table of its transitions that look only    *)
(* at the byte: rows of a set of bytes and the state they lead to.  A byte *)
(* no row has leads to the ground state.  The states that count, compare   *)
(* or push back are the other alternatives of the family's operator.       *)

Row(rows, c) ==
  LET hit == {i \in DOMAIN rows : c \in rows[i][1]}
  IN IF hit = {} THEN "GROUND_STATE"
     ELSE rows[CHOOSE i \in hit : \A j \in hit : i <= j][2]

Go(L, s) == [L EXCEPT !.state = s]
Sized(L, length, s) == [L EXCEPT !.length = length % SizeMax, !.state = s]

(* mutant: a length of signed type *)
Count_Signed(L, next) ==
  [L EXCEPT !.length = @ - 1, !.state = IF L.length = 1 THEN next ELSE @]
(* if (--lexer->length == 0) lexer->state = next; else stay in the payload *)
Count(L, next) ==
  LET left == (L.length + SizeMax - 1) % SizeMax
  IN [L EXCEPT !.length = left, !.state = IF left = 0 THEN next ELSE @]

(* mutant: the pointer goes on instead of back *)
character_pushback_Forward(L) == [L EXCEPT !.ptr = @ + 1]
character_pushback(L) == [L EXCEPT !.ptr = @ - 1]

(* inbuffer[i], and words of it; what lies behind the bytes received is    *)
(* what earlier packets left there                                         *)
At(L, i) == IF i < Len(L.mem) THEN L.mem[i + 1] ELSE 0
Word(L, i) == At(L, 2 * i) + 256 * At(L, 2 * i + 1)
(* the exclusive or: the bits in which x and y differ (a recursive function,
   since nothing can be proved beside the operators of module Bitwise) *)
Xor[x \in Nat, y \in Nat] ==
  IF x = 0 THEN y ELSE IF y = 0 THEN x
  ELSE ((x + y) % 2) + 2 * Xor[x \div 2, y \div 2]
XorOf(bytes) == FoldLeft(LAMBDA x, y : Xor[x, y], 0, bytes)
Total(numbers) == FoldLeft(LAMBDA x, y : x + y, 0, numbers)

(* rtcm2_decode: rt is 0 without lock, 1 when locked between messages, and *)
(* one more for each word of the message                                   *)
Preamble == Code["Y"]
Rtcm2Data == OneOf({"Y", "q"})
rtcm2_decode(rt, c) ==
  CASE c \notin 64 .. 127                -> [is |-> "ISGPS_SKIP", rt |-> rt]
    [] c \in 64 .. 127 /\ rt = 0         -> IF c = Preamble THEN [is |-> "ISGPS_SYNC", rt |-> 2]
                                            ELSE [is |-> "ISGPS_NO_SYNC", rt |-> 0]
    [] rt > 0 /\ c \in (64 .. 127) \ Rtcm2Data -> [is |-> "ISGPS_SYNC", rt |-> 0]
    [] rt = 1 /\ c \in Rtcm2Data         -> IF c = Preamble THEN [is |-> "ISGPS_SYNC", rt |-> 2]
                                            ELSE [is |-> "ISGPS_NO_SYNC", rt |-> 1]
    [] rt > 1 /\ c \in Rtcm2Data         -> IF rt > Rtcm2Length THEN [is |-> "ISGPS_MESSAGE", rt |-> 1]
                                            ELSE [is |-> "ISGPS_SYNC", rt |-> rt + 1]

-----------------------------------------------------------------------------
(* The ground state and comments                                           *)

GroundMoves ==
  << <<Is("#"), "COMMENT_BODY">>, <<Is("$"), "NMEA_DOLLAR">>, <<Is("!"), "NMEA_BANG">>,
     <<Is("@"), "AT1_LEADER">>, <<{160}, "SIRF_LEADER_1">>, <<{SOH}, "SUPERSTAR2_LEADER">>,
     <<{DLE}, "DLE_LEADER">>, <<Is("A"), "ASTRAL_1">>, <<Is("E"), "EARTHA_1">>,
     <<{255}, "ZODIAC_LEADER_1">>, <<{181}, "UBX_LEADER_1">>, <<Is("<"), "ITALK_LEADER_1">>,
     <<{STX}, "NAVCOM_LEADER_1">>, <<Is("P"), "GEOSTAR_LEADER_1">> >>

(* rtcm2_decode sees the A or E that may begin a probe's answer, and every *)
(* byte that begins nothing else; then RTCM3 and JSON have their turn      *)
Ground(L, c) ==
  LET plain == Row(GroundMoves, c)
      try   == rtcm2_decode(L.rt, c)
      G     == [L EXCEPT !.n = 0, !.rt = IF plain \in {"ASTRAL_1", "EARTHA_1", "GROUND_STATE"}
                                         THEN try.rt ELSE @]
  IN CASE plain \in {"ASTRAL_1", "EARTHA_1"} ->
            Go(G, IF try.is = "ISGPS_MESSAGE" THEN "RTCM2_RECOGNIZED" ELSE plain)
       [] plain \notin {"ASTRAL_1", "EARTHA_1", "GROUND_STATE"} -> Go(G, plain)
       [] plain = "GROUND_STATE" ->
            CASE try.is = "ISGPS_SYNC"    -> Go(G, "RTCM2_SYNC_STATE")
              [] try.is = "ISGPS_MESSAGE" -> Go(G, "RTCM2_RECOGNIZED")
              [] c = 211                  -> Go(G, "RTCM3_LEADER_1")
              [] c = Code["{"]            -> character_pushback(Go(G, "JSON_LEADER"))
              [] OTHER                    -> G

Comment(L, c) ==
  CASE c = LF       -> Go(L, "COMMENT_RECOGNIZED")
    [] c \in Graphic  -> L
    [] OTHER        -> character_pushback(Go(L, "GROUND_STATE"))

-----------------------------------------------------------------------------
(* NMEA sentences, AIVDM, SeaTalk, Garmin text, the SiRF acknowledgement   *)

NmeaMoves ==
  [NMEA_DOLLAR      |-> << <<Is("G"), "NMEA_PUB_LEAD">>, <<Is("P"), "NMEA_VENDOR_LEAD">>,
                           <<Is("I"), "SEATALK_LEAD_1">>, <<Is("A"), "SIRF_ACK_LEAD_1">>,
                           <<Is("C"), "NMEA_LEADER_END">> >>,
   NMEA_PUB_LEAD    |-> << <<OneOf({"P", "N", "L"}), "NMEA_LEADER_END">> >>,
   NMEA_VENDOR_LEAD |-> << <<Is("A"), "NMEA_PASHR_A">>, <<Alpha, "NMEA_LEADER_END">> >>,
   NMEA_PASHR_A     |-> << <<Is("S"), "NMEA_PASHR_S">>, <<Alpha, "NMEA_LEADER_END">> >>,
   NMEA_PASHR_S     |-> << <<Is("H"), "NMEA_PASHR_H">>, <<Alpha, "NMEA_LEADER_END">> >>,
   NMEA_PASHR_H     |-> << <<Is("R"), "NMEA_BINARY_BODY">>, <<Alpha, "NMEA_LEADER_END">> >>,
   NMEA_BINARY_BODY |-> << <<{CR}, "NMEA_BINARY_CR">>, <<Byte, "NMEA_BINARY_BODY">> >>,
   NMEA_BINARY_CR   |-> << <<{LF}, "NMEA_BINARY_NL">>, <<Byte, "NMEA_BINARY_BODY">> >>,
   NMEA_BINARY_NL   |-> << <<Is("$"), "NMEA_RECOGNIZED">>, <<Byte, "NMEA_BINARY_BODY">> >>,
   NMEA_BANG        |-> << <<Is("A"), "AIS_LEAD_1">> >>,
   AIS_LEAD_1       |-> << <<Is("I"), "AIS_LEAD_2">> >>,
   AIS_LEAD_2       |-> << <<Alpha, "NMEA_LEADER_END">> >>]

SentenceMoves ==
  [AT1_LEADER       |-> << <<Is("@"), "ONCORE_AT2">>, <<Is("*"), "NMEA_LEADER_END">>,
                           <<{CR}, "AT1_LEADER">>, <<{LF}, "GTXT_RECOGNIZED">>,
                           <<Graphic, "AT1_LEADER">> >>,
   NMEA_LEADER_END  |-> << <<{CR}, "NMEA_CR">>, <<{LF}, "NMEA_RECOGNIZED">>,
                           <<Is("$"), "NMEA_DOLLAR">>, <<Graphic, "NMEA_LEADER_END">> >>,
   NMEA_CR          |-> << <<{LF}, "NMEA_RECOGNIZED">>, <<{CR}, "NMEA_CR">> >>,
   NMEA_RECOGNIZED  |-> << <<Is("#"), "COMMENT_BODY">>, <<Is("$"), "NMEA_DOLLAR">>,
                           <<Is("!"), "NMEA_BANG">>, <<{181}, "UBX_LEADER_1">> >>,
   SEATALK_LEAD_1   |-> << <<OneOf({"I", "N"}), "NMEA_LEADER_END">> >>]

AckMoves ==
  [SIRF_ACK_LEAD_1  |-> << <<Is("c"), "SIRF_ACK_LEAD_2">>, <<Is("I"), "AIS_LEAD_2">> >>,
   SIRF_ACK_LEAD_2  |-> << <<Is("k"), "NMEA_LEADER_END">> >>]

(* A $PASHR sentence ends where the next $ is seen, which goes back.       *)
Binary(L, c) ==
  LET moved == Go(L, Row(NmeaMoves[L.state], c))
  IN IF moved.state = "NMEA_RECOGNIZED" THEN character_pushback(moved) ELSE moved

(* A $ inside a sentence: "lexer->inbufptr += (n-1)" moves the pointer on, *)
(* over what follows the $.                                                *)
Sentence(L, c) ==
  IF L.state = "NMEA_LEADER_END" /\ c = Code["$"]
  THEN [L EXCEPT !.state = "NMEA_DOLLAR", !.ptr = @ + L.n - 1]
  ELSE Go(L, Row(SentenceMoves[L.state], c))

Ack(L, c) == Go(L, Row(AckMoves[L.state], c))

(* The answers of the TripMate (ASTRAL) and the EarthMate (EARTHA), letter *)
(* by letter, each shown to rtcm2_decode.  R leads from the third letter   *)
(* to the fifth: ASTRAL_4 is never entered and the word found is ASTRL.    *)
AstralMoves == [ASTRAL_1 |-> <<Code["S"], "ASTRAL_2">>, ASTRAL_2 |-> <<Code["T"], "ASTRAL_3">>,
                ASTRAL_3 |-> <<Code["R"], "ASTRAL_5">>, ASTRAL_4 |-> <<Code["A"], "ASTRAL_2">>,
                ASTRAL_5 |-> <<Code["L"], "NMEA_RECOGNIZED">>]
EarthaMoves == [EARTHA_1 |-> <<Code["A"], "EARTHA_2">>, EARTHA_2 |-> <<Code["R"], "EARTHA_3">>,
                EARTHA_3 |-> <<Code["T"], "EARTHA_4">>, EARTHA_4 |-> <<Code["H"], "EARTHA_5">>,
                EARTHA_5 |-> <<Code["A"], "NMEA_RECOGNIZED">>]
Letter(L, c, move) ==
  LET try == rtcm2_decode(L.rt, c)
  IN IF c # move[1] THEN Go(L, "GROUND_STATE")
     ELSE [L EXCEPT !.rt = try.rt,
                    !.state = CASE try.is = "ISGPS_SYNC"    -> "RTCM2_SYNC_STATE"
                                [] try.is = "ISGPS_MESSAGE" -> "RTCM2_RECOGNIZED"
                                [] OTHER                    -> move[2]]
Astral(L, c) == Letter(L, c, AstralMoves[L.state])
Eartha(L, c) == Letter(L, c, EarthaMoves[L.state])

-----------------------------------------------------------------------------
(* Binary protocols                                                        *)

(* mutant: no transition to the leader of the next packet *)
SirfMoves_NoRepeat ==
  [SIRF_LEADER_1   |-> << <<{162}, "SIRF_LEADER_2">> >>,
   SIRF_LEADER_2   |-> << <<Byte, "SIRF_LENGTH_1">> >>,
   SIRF_LENGTH_1   |-> << <<Byte, "SIRF_PAYLOAD">> >>,
   SIRF_PAYLOAD    |-> << <<Byte, "SIRF_PAYLOAD">> >>,
   SIRF_DELIVERED  |-> << <<{176}, "SIRF_TRAILER_1">> >>,
   SIRF_TRAILER_1  |-> << <<{179}, "SIRF_RECOGNIZED">> >>,
   SIRF_RECOGNIZED |-> <<>>]
SirfMoves ==
  [SIRF_LEADER_1   |-> << <<{162}, "SIRF_LEADER_2">> >>,
   SIRF_LEADER_2   |-> << <<Byte, "SIRF_LENGTH_1">> >>,
   SIRF_LENGTH_1   |-> << <<Byte, "SIRF_PAYLOAD">> >>,
   SIRF_PAYLOAD    |-> << <<Byte, "SIRF_PAYLOAD">> >>,
   SIRF_DELIVERED  |-> << <<{176}, "SIRF_TRAILER_1">> >>,
   SIRF_TRAILER_1  |-> << <<{179}, "SIRF_RECOGNIZED">> >>,
   SIRF_RECOGNIZED |-> << <<{160}, "SIRF_LEADER_1">> >>]
(* mutant: the high byte of the length is kept in a static variable *)
Sirf_StaticLength(L, c) ==
  CASE L.state = "SIRF_LEADER_2" -> [L EXCEPT !.ctmp = c, !.state = "SIRF_LENGTH_1"]
    [] L.state = "SIRF_LENGTH_1" ->
         LET length == 256 * L.ctmp + c + 2
         IN Sized(L, length, IF length <= MaxPacket THEN "SIRF_PAYLOAD" ELSE "GROUND_STATE")
    [] L.state = "SIRF_PAYLOAD"  -> Count(L, "SIRF_DELIVERED")
    [] OTHER -> Go(L, Row(SirfMoves[L.state], c))
Sirf(L, c) ==
  CASE L.state = "SIRF_LEADER_2" -> Sized(L, 256 * c, "SIRF_LENGTH_1")
    [] L.state = "SIRF_LENGTH_1" ->
         LET length == L.length + c + 2
         IN Sized(L, length, IF length <= MaxPacket THEN "SIRF_PAYLOAD" ELSE "GROUND_STATE")
    [] L.state = "SIRF_PAYLOAD"  -> Count(L, "SIRF_DELIVERED")
    [] OTHER -> Go(L, Row(SirfMoves[L.state], c))

Superstar2Moves ==
  [SUPERSTAR2_LEADER     |-> << <<Byte, "SUPERSTAR2_ID1">> >>,
   SUPERSTAR2_ID1        |-> << <<Byte, "SUPERSTAR2_ID2">> >>,
   SUPERSTAR2_ID2        |-> << <<{0}, "SUPERSTAR2_CKSUM1">>, <<Byte, "SUPERSTAR2_PAYLOAD">> >>,
   SUPERSTAR2_PAYLOAD    |-> << <<Byte, "SUPERSTAR2_PAYLOAD">> >>,
   SUPERSTAR2_CKSUM1     |-> << <<Byte, "SUPERSTAR2_CKSUM2">> >>,
   SUPERSTAR2_CKSUM2     |-> << <<Byte, "SUPERSTAR2_RECOGNIZED">> >>,
   SUPERSTAR2_RECOGNIZED |-> << <<{SOH}, "SUPERSTAR2_LEADER">> >>]
(* ctmp keeps the message number until its complement comes.               *)
Superstar2(L, c) ==
  LET next == Row(Superstar2Moves[L.state], c)
  IN CASE L.state = "SUPERSTAR2_LEADER"  -> [L EXCEPT !.ctmp = c, !.state = next]
       [] L.state = "SUPERSTAR2_ID1"     -> Go(L, IF L.ctmp + c = 255 THEN next ELSE "GROUND_STATE")
       [] L.state = "SUPERSTAR2_ID2"     -> Sized(L, c, next)
       [] L.state = "SUPERSTAR2_PAYLOAD" -> Count(L, "SUPERSTAR2_CKSUM1")
       [] OTHER                          -> Go(L, next)

(* The whole length of an OnCore message, by its two letters; what counts  *)
(* down is the payload and the checksum (0 for a message not listed).      *)
OncoreLengths ==
  { <<"A", {"w", "g", "q", "v", "N", "O", "P", "t"}, 8>>, <<"A", {"b", "a"}, 10>>,
    <<"A", {"c", "d", "e", "z", "y"}, 11>>, <<"A", {"u"}, 12>>, <<"A", {"f"}, 15>>,
    <<"A", {"s"}, 20>>, <<"A", {"p"}, 25>>, <<"B", {"j", "o"}, 8>>, <<"B", {"b"}, 92>>,
    <<"C", {"f", "k"}, 7>>, <<"C", {"h"}, 9>>, <<"C", {"b"}, 33>>, <<"C", {"c"}, 80>>,
    <<"C", {"j"}, 294>>, <<"E", {"n"}, 69>>, <<"E", {"a"}, 76>>, <<"E", {"q"}, 96>>,
    <<"F", {"a"}, 9>>, <<"S", {"z"}, 8>> }
oncore_payload_cksum_length(id1, id2) ==
  LET known == {l \in OncoreLengths : id1 = Code[l[1]] /\ id2 \in OneOf(l[2])}
  IN IF known = {} THEN 0 ELSE (CHOOSE l \in known : TRUE)[3] - 6

OncoreMoves ==
  [ONCORE_AT2        |-> << <<Upper, "ONCORE_ID1">> >>,
   ONCORE_ID1        |-> << <<Alpha, "ONCORE_PAYLOAD">> >>,
   ONCORE_PAYLOAD    |-> << <<Byte, "ONCORE_PAYLOAD">> >>,
   ONCORE_CHECKSUM   |-> << <<{CR}, "ONCORE_CR">> >>,
   ONCORE_CR         |-> << <<{LF}, "ONCORE_RECOGNIZED">>, <<Byte, "ONCORE_PAYLOAD">> >>,
   ONCORE_RECOGNIZED |-> << <<Is("@"), "AT1_LEADER">> >>]
Oncore(L, c) ==
  LET next == Row(OncoreMoves[L.state], c)
  IN CASE L.state = "ONCORE_AT2" -> Sized(L, IF next = "ONCORE_ID1" THEN c ELSE L.length, next)
       [] L.state = "ONCORE_ID1" ->
            LET length == IF c \in Alpha THEN oncore_payload_cksum_length(L.length, c) ELSE L.length
            IN Sized(L, length, IF c \in Alpha /\ length # 0 THEN next ELSE "GROUND_STATE")
       [] L.state = "ONCORE_PAYLOAD" -> Count(L, "ONCORE_CHECKSUM")
       [] OTHER                      -> Go(L, next)

(* DLE leads to EverMore, TSIP or Garmin.  The code falls through into     *)
(* NAVCOM_LEADER_1 with what is left, whose second byte 0x99 is not left.  *)
DleMoves ==
  [DLE_LEADER |-> << <<{STX}, "EVERMORE_LEADER_2">>, <<19 .. 255, "TSIP_PAYLOAD">> >>]
Dle(L, c) == Go(L, Row(DleMoves[L.state], c))

NavcomMoves ==
  [NAVCOM_LEADER_1   |-> << <<{153}, "NAVCOM_LEADER_2">> >>,
   NAVCOM_LEADER_2   |-> << <<{102}, "NAVCOM_LEADER_3">> >>,
   NAVCOM_LEADER_3   |-> << <<Byte, "NAVCOM_ID">> >>,
   NAVCOM_ID         |-> << <<Byte, "NAVCOM_LENGTH_1">> >>,
   NAVCOM_LENGTH_1   |-> << <<Byte, "NAVCOM_LENGTH_2">> >>,
   NAVCOM_LENGTH_2   |-> << <<Byte, "NAVCOM_LENGTH_2">> >>,
   NAVCOM_PAYLOAD    |-> << <<Byte, "NAVCOM_CSUM">> >>,
   NAVCOM_CSUM       |-> << <<{ETX}, "NAVCOM_RECOGNIZED">> >>,
   NAVCOM_RECOGNIZED |-> << <<{STX}, "NAVCOM_LEADER_1">> >>]
(* The checksum loop runs on n, the shared count of characters.            *)
Navcom(L, c) ==
  LET next == Row(NavcomMoves[L.state], c)
  IN CASE L.state = "NAVCOM_ID"       -> Sized(L, c - 4 + SizeMax, next)
       [] L.state = "NAVCOM_LENGTH_1" -> Sized(L, L.length + 256 * c, next)
       [] L.state = "NAVCOM_LENGTH_2" -> Count(L, "NAVCOM_PAYLOAD")
       [] L.state = "NAVCOM_PAYLOAD"  ->
            LET csum == XorOf([i \in 1 .. L.ptr - 4 |-> At(L, i + 2)])
            IN [L EXCEPT !.n = L.ptr - 1, !.state = IF csum = c THEN next ELSE "GROUND_STATE"]
       [] OTHER -> Go(L, next)

Rtcm3Moves ==
  [RTCM3_LEADER_1 |-> << <<0 .. 3, "RTCM3_LEADER_2">> >>,
   RTCM3_LEADER_2 |-> << <<Byte, "RTCM3_PAYLOAD">> >>,
   RTCM3_PAYLOAD  |-> << <<Byte, "RTCM3_PAYLOAD">> >>]
Rtcm3(L, c) ==
  CASE L.state = "RTCM3_LEADER_1" ->
         Sized(L, IF c < 4 THEN 256 * c ELSE L.length, Row(Rtcm3Moves[L.state], c))
    [] L.state = "RTCM3_LEADER_2" -> Sized(L, L.length + c + 3, "RTCM3_PAYLOAD")
    [] L.state = "RTCM3_PAYLOAD"  -> Count(L, "RTCM3_RECOGNIZED")

ZodiacMoves ==
  [ZODIAC_EXPECTED   |-> << <<{255}, "ZODIAC_LEADER_1">> >>,
   ZODIAC_RECOGNIZED |-> << <<{255}, "ZODIAC_LEADER_1">> >>,
   ZODIAC_LEADER_1   |-> << <<{129}, "ZODIAC_LEADER_2">> >>,
   ZODIAC_LEADER_2   |-> << <<Byte, "ZODIAC_ID_1">> >>,
   ZODIAC_ID_1       |-> << <<Byte, "ZODIAC_ID_2">> >>,
   ZODIAC_ID_2       |-> << <<Byte, "ZODIAC_LENGTH_1">> >>,
   ZODIAC_LENGTH_1   |-> << <<Byte, "ZODIAC_LENGTH_2">> >>,
   ZODIAC_LENGTH_2   |-> << <<Byte, "ZODIAC_FLAGS_1">> >>,
   ZODIAC_FLAGS_1    |-> << <<Byte, "ZODIAC_FLAGS_2">> >>,
   ZODIAC_FLAGS_2    |-> << <<Byte, "ZODIAC_HSUM_1">> >>,
   ZODIAC_HSUM_1     |-> << <<Byte, "ZODIAC_PAYLOAD">> >>,
   ZODIAC_PAYLOAD    |-> << <<Byte, "ZODIAC_PAYLOAD">> >>]
Zodiac(L, c) ==
  LET next == Row(ZodiacMoves[L.state], c)
  IN CASE L.state = "ZODIAC_ID_2"     -> Sized(L, c, next)
       [] L.state = "ZODIAC_LENGTH_1" -> Sized(L, L.length + 256 * c, next)
       [] L.state = "ZODIAC_HSUM_1"   ->
            LET headerOk == Total([i \in 1 .. 5 |-> Word(L, i - 1)]) % 65536 = 0
                length   == 2 * L.length + 2
            IN IF ~headerOk THEN Go(L, "GROUND_STATE")
               ELSE IF L.length = 0 THEN Go(L, "ZODIAC_RECOGNIZED")
               ELSE Sized(L, length, IF length <= MaxPacket - 10 THEN next ELSE "GROUND_STATE")
       [] L.state = "ZODIAC_PAYLOAD"  -> Count(L, "ZODIAC_RECOGNIZED")
       [] OTHER                       -> Go(L, next)

UbxMoves ==
  [UBX_LEADER_1   |-> << <<{98}, "UBX_LEADER_2">> >>,
   UBX_LEADER_2   |-> << <<Byte, "UBX_CLASS_ID">> >>,
   UBX_CLASS_ID   |-> << <<Byte, "UBX_MESSAGE_ID">> >>,
   UBX_MESSAGE_ID |-> << <<Byte, "UBX_LENGTH_1">> >>,
   UBX_LENGTH_1   |-> << <<Byte, "UBX_LENGTH_2">> >>,
   UBX_LENGTH_2   |-> << <<Byte, "UBX_PAYLOAD">> >>,
   UBX_PAYLOAD    |-> << <<Byte, "UBX_PAYLOAD">> >>,
   UBX_CHECKSUM_A |-> << <<Byte, "UBX_RECOGNIZED">> >>,
   UBX_RECOGNIZED |-> << <<{181}, "UBX_LEADER_1">>, <<Is("$"), "NMEA_DOLLAR">> >>]
(* The state after the length takes one byte of the payload: what is       *)
(* counted is the payload less that byte and the first of the checksum.    *)
Ubx(L, c) ==
  LET next == Row(UbxMoves[L.state], c)
  IN CASE L.state = "UBX_MESSAGE_ID" -> Sized(L, c, next)
       [] L.state = "UBX_LENGTH_1"   ->
            LET length == L.length + 256 * c
            IN Sized(L, length, IF length <= MaxPacket THEN next ELSE "GROUND_STATE")
       [] L.state = "UBX_PAYLOAD"    -> Count(L, "UBX_CHECKSUM_A")
       [] OTHER                      -> Go(L, next)

EvermoreMoves ==
  [EVERMORE_LEADER_1    |-> << <<{STX}, "EVERMORE_LEADER_2">> >>,
   EVERMORE_LEADER_2    |-> << <<{DLE}, "EVERMORE_PAYLOAD_DLE">>, <<Byte, "EVERMORE_PAYLOAD">> >>,
   EVERMORE_PAYLOAD     |-> << <<{DLE}, "EVERMORE_PAYLOAD_DLE">>, <<Byte, "EVERMORE_PAYLOAD">> >>,
   EVERMORE_PAYLOAD_DLE |-> << <<{DLE}, "EVERMORE_PAYLOAD">>, <<{ETX}, "EVERMORE_RECOGNIZED">> >>,
   EVERMORE_RECOGNIZED  |-> << <<{DLE}, "EVERMORE_LEADER_1">> >>]
Evermore(L, c) ==
  LET next == Row(EvermoreMoves[L.state], c)
  IN CASE L.state = "EVERMORE_LEADER_2"             -> Sized(L, c, next)
       [] L.state = "EVERMORE_PAYLOAD" /\ c # DLE   -> Count(L, "GROUND_STATE")
       [] OTHER                                     -> Go(L, next)

ItalkMoves ==
  [ITALK_LEADER_1   |-> << <<Is("!"), "ITALK_LEADER_2">> >>,
   ITALK_LEADER_2   |-> << <<Byte, "ITALK_LENGTH">> >>,
   ITALK_LENGTH     |-> << <<Byte, "ITALK_PAYLOAD">> >>,
   ITALK_PAYLOAD    |-> << <<Byte, "ITALK_PAYLOAD">> >>,
   ITALK_DELIVERED  |-> << <<Is(">"), "ITALK_RECOGNIZED">> >>,
   ITALK_RECOGNIZED |-> << <<Is("<"), "ITALK_LEADER_1">> >>]
(* The length is looked up at byte 6 when byte 2 is read, and the end of a *)
(* runt packet in the two bytes behind this one: neither need be there.    *)
Italk(L, c) ==
  LET next == Row(ItalkMoves[L.state], c)
      runt == c = Code[">"] /\ At(L, L.ptr) = Code["<"] /\ At(L, L.ptr + 1) = Code["!"]
  IN CASE L.state = "ITALK_LEADER_2" -> Sized(L, At(L, 6), next)
       [] L.state = "ITALK_LENGTH"   -> Sized(L, 2 * (L.length + 1) + 3, next)
       [] L.state = "ITALK_PAYLOAD"  -> IF runt THEN Go(L, "ITALK_RECOGNIZED")
                                        ELSE Count(L, "ITALK_DELIVERED")
       [] OTHER                      -> Go(L, next)

GeostarMoves ==
  [GEOSTAR_LEADER_1     |-> << <<Is("S"), "GEOSTAR_LEADER_2">> >>,
   GEOSTAR_LEADER_2     |-> << <<Is("G"), "GEOSTAR_LEADER_3">> >>,
   GEOSTAR_LEADER_3     |-> << <<Is("G"), "GEOSTAR_LEADER_4">> >>,
   GEOSTAR_LEADER_4     |-> << <<Byte, "GEOSTAR_MESSAGE_ID_1">> >>,
   GEOSTAR_MESSAGE_ID_1 |-> << <<Byte, "GEOSTAR_MESSAGE_ID_2">> >>,
   GEOSTAR_MESSAGE_ID_2 |-> << <<Byte, "GEOSTAR_LENGTH_1">> >>,
   GEOSTAR_LENGTH_1     |-> << <<Byte, "GEOSTAR_LENGTH_2">> >>,
   GEOSTAR_LENGTH_2     |-> << <<Byte, "GEOSTAR_PAYLOAD">> >>,
   GEOSTAR_PAYLOAD      |-> << <<Byte, "GEOSTAR_PAYLOAD">> >>,
   GEOSTAR_CHECKSUM_A   |-> << <<Byte, "GEOSTAR_CHECKSUM_B">> >>,
   GEOSTAR_CHECKSUM_B   |-> << <<Byte, "GEOSTAR_CHECKSUM_C">> >>,
   GEOSTAR_CHECKSUM_C   |-> << <<Byte, "GEOSTAR_RECOGNIZED">> >>,
   GEOSTAR_RECOGNIZED   |-> << <<Is("P"), "GEOSTAR_LEADER_1">> >>]
Geostar(L, c) ==
  LET next == Row(GeostarMoves[L.state], c)
  IN CASE L.state = "GEOSTAR_MESSAGE_ID_2" -> Sized(L, 4 * c, next)
       [] L.state = "GEOSTAR_LENGTH_1"     ->
            LET length == L.length + 1024 * c
            IN Sized(L, length, IF length <= MaxPacket THEN next ELSE "GROUND_STATE")
       [] L.state = "GEOSTAR_PAYLOAD"      -> Count(L, "GEOSTAR_CHECKSUM_A")
       [] OTHER                            -> Go(L, next)

TsipMoves ==
  [TSIP_LEADER     |-> << <<19 .. 255, "TSIP_PAYLOAD">> >>,
   TSIP_PAYLOAD    |-> << <<{DLE}, "TSIP_DLE">>, <<Byte, "TSIP_PAYLOAD">> >>,
   TSIP_DLE        |-> << <<{ETX}, "TSIP_RECOGNIZED">>, <<{DLE}, "TSIP_PAYLOAD">> >>,
   TSIP_RECOGNIZED |-> << <<{DLE}, "DLE_LEADER">> >>]
Tsip(L, c) == Go(L, Row(TsipMoves[L.state], c))

Rtcm2(L, c) ==
  LET try == rtcm2_decode(L.rt, c)
      locked == L.state # "RTCM2_RECOGNIZED"
  IN [L EXCEPT !.rt = try.rt,
               !.state = CASE locked /\ try.is = "ISGPS_MESSAGE" -> "RTCM2_RECOGNIZED"
                           [] locked /\ try.is = "ISGPS_NO_SYNC" -> "GROUND_STATE"
                           [] ~locked -> IF try.is = "ISGPS_SYNC" THEN "RTCM2_SYNC_STATE"
                                         ELSE "GROUND_STATE"
                           [] OTHER   -> @]

-----------------------------------------------------------------------------
(* JSON objects, of another gpsd.  json_depth is counted here and set to 0 *)
(* only when the lexer is initialised.                                     *)

JsonLeader(L, c) ==
  CASE c \in OneOf({"{", "["}) -> [L EXCEPT !.depth = @ + 1]
    [] c \in OneOf({"}", "]"}) -> [L EXCEPT !.depth = @ - 1,
                                            !.state = IF L.depth = 1 THEN "JSON_RECOGNIZED" ELSE @]
    [] c \in Space \cup Is(",") -> L
    [] c = Code["\""]           -> [L EXCEPT !.state = "JSON_STRINGLITERAL", !.after = "JSON_END_ATTRIBUTE"]
    [] OTHER                    -> Go(L, "GROUND_STATE")

JsonString(L, c) ==
  CASE L.state = "JSON_STRING_SOLIDUS" -> Go(L, "JSON_STRINGLITERAL")
    [] L.state = "JSON_STRINGLITERAL" /\ c = Code["\\"] -> Go(L, "JSON_STRING_SOLIDUS")
    [] L.state = "JSON_STRINGLITERAL" /\ c = Code["\""] -> Go(L, L.after)
    [] OTHER -> L

JsonValue(L, c) ==
  LET back(s) == character_pushback(Go(L, s))
  IN CASE L.state \in {"JSON_END_ATTRIBUTE", "JSON_EXPECT_VALUE", "JSON_END_VALUE"} /\ c \in Space -> L
       [] L.state = "JSON_END_ATTRIBUTE" /\ c \notin Space ->
            Go(L, IF c = Code[":"] THEN "JSON_EXPECT_VALUE" ELSE "GROUND_STATE")
       [] L.state = "JSON_EXPECT_VALUE" /\ c \notin Space ->
           (CASE c = Code["\""]                  -> [L EXCEPT !.state = "JSON_STRINGLITERAL",
                                                              !.after = "JSON_END_VALUE"]
              [] c \in OneOf({"{", "["})         -> back("JSON_LEADER")
              [] c \in Digit \cup Is("-")        -> Go(L, "JSON_NUMBER")
              [] c \in OneOf({"t", "f", "n"})    -> Go(L, "JSON_SPECIAL")
              [] OTHER                           -> Go(L, "GROUND_STATE"))
       [] L.state = "JSON_NUMBER"  -> IF c \in Digit \cup OneOf({".", "e", "E", "+", "-"}) THEN L
                                      ELSE back("JSON_END_VALUE")
       [] L.state = "JSON_SPECIAL" -> IF c \in OneOf({"t", "r", "u", "e", "f", "a", "l", "s", "n", "i"})
                                      THEN L ELSE back("JSON_END_VALUE")
       [] L.state = "JSON_END_VALUE" /\ c \notin Space ->
            CASE c = Code[","]               -> Go(L, "JSON_LEADER")
              [] c \in OneOf({"}", "]"})     -> back("JSON_LEADER")
              [] OTHER                       -> Go(L, "GROUND_STATE")

-----------------------------------------------------------------------------
(* nextstate: one character                                                *)

nextstate(K, c) ==
  LET L == [K EXCEPT !.n = @ + 1]
      s == K.state
  IN CASE s = "GROUND_STATE"            -> Ground(L, c)
       [] s = "COMMENT_BODY"            -> Comment(L, c)
       [] s \in DOMAIN NmeaMoves        -> Binary(L, c)
       [] s \in DOMAIN SentenceMoves    -> Sentence(L, c)
       [] s \in DOMAIN AckMoves         -> Ack(L, c)
       [] s \in DOMAIN AstralMoves      -> Astral(L, c)
       [] s \in DOMAIN EarthaMoves      -> Eartha(L, c)
       [] s \in DOMAIN SirfMoves        -> Sirf(L, c)
       [] s \in DOMAIN Superstar2Moves  -> Superstar2(L, c)
       [] s \in DOMAIN OncoreMoves      -> Oncore(L, c)
       [] s \in DOMAIN DleMoves         -> Dle(L, c)
       [] s \in DOMAIN NavcomMoves      -> Navcom(L, c)
       [] s \in DOMAIN Rtcm3Moves       -> Rtcm3(L, c)
       [] s \in DOMAIN ZodiacMoves      -> Zodiac(L, c)
       [] s \in DOMAIN UbxMoves         -> Ubx(L, c)
       [] s \in DOMAIN EvermoreMoves    -> Evermore(L, c)
       [] s \in DOMAIN ItalkMoves       -> Italk(L, c)
       [] s \in DOMAIN GeostarMoves     -> Geostar(L, c)
       [] s \in DOMAIN TsipMoves        -> Tsip(L, c)
       [] s \in {"RTCM2_SYNC_STATE", "RTCM2_SKIP_STATE", "RTCM2_RECOGNIZED"} -> Rtcm2(L, c)
       [] s = "JSON_LEADER"             -> JsonLeader(L, c)
       [] s \in {"JSON_STRINGLITERAL", "JSON_STRING_SOLIDUS"} -> JsonString(L, c)
       [] OTHER                         -> JsonValue(L, c)

-----------------------------------------------------------------------------
(* Taking and throwing away                                                *)

Buffered(L) == L.len - L.ptr
Packet(L) == SubSeq(L.mem, 1, L.ptr)

packet_accept(L, type) ==
  IF L.ptr < Room THEN [L EXCEPT !.out = <<[type |-> type, bytes |-> Packet(L)]>>, !.type = type] ELSE L

(* memmove: the bytes behind those that are kept stay as they were         *)
Shift(L, k) ==
  LET kept == SubSeq(L.mem, k + 1, L.len)
  IN [L EXCEPT !.mem = kept \o SubSeq(@, Len(kept) + 1, Len(@)), !.len = Len(kept), !.ptr = 0]
packet_discard(L)    == Shift(L, L.ptr)
character_discard(L) == Shift(L, 1)

(* The packet has been framed: keep it, or note a bad one and start over   *)
(* from the ground state; throw its bytes away in both cases and return.   *)
Verdict(L, good, type, next) ==
  packet_discard(IF good THEN packet_accept(Go(L, next), type)
                 ELSE packet_accept(Go(L, "GROUND_STATE"), "BAD_PACKET"))

-----------------------------------------------------------------------------
(* The checks of framed packets                                            *)

HexDigits == OneOf({"0", "1", "2", "3", "4", "5", "6", "7", "8", "9", "A", "B", "C", "D", "E", "F"})
Hex(d) == IF d < 10 THEN 48 + d ELSE 55 + d
ToUpper(c) == IF c \in 97 .. 122 THEN c - 32 ELSE c
Latest(S) == CHOOSE i \in S : \A j \in S : j <= i

(* Back over white space, then over (capital) hexadecimal digits: if that  *)
(* ends at a '*', the two digits must be the sum of what stands before it. *)
NmeaOk(b) ==
  LET last == Latest({i \in DOMAIN b : b[i] \notin Space})
      star == Latest({i \in 1 .. last : b[i] \notin HexDigits \cup {0}})
      crc  == XorOf(SubSeq(b, 2, star - 1))
  IN b[star] = Code["*"] =>
       /\ Len(b) >= star + 2
       /\ ToUpper(b[star + 1]) = Hex(crc \div 16)
       /\ ToUpper(b[star + 2]) = Hex(crc % 16)

Begins(b, text) == Len(b) >= Len(text) /\ \A i \in DOMAIN text : b[i] = Code[text[i]]

(* $PASHR has no checksum; AIVDM and AIVDO have a driver of their own      *)
NmeaVerdict(L) ==
  LET b == Packet(L)
      pashr == Begins(b, <<"$", "P", "A", "S", "H", "R", ",">>)
      aivdm == Begins(b, <<"!", "A", "I", "V", "D", "M">>) \/ Begins(b, <<"!", "A", "I", "V", "D", "O">>)
  IN Verdict(L, pashr \/ NmeaOk(b), IF aivdm THEN "AIVDM_PACKET" ELSE "NMEA_PACKET", "NMEA_RECOGNIZED")

SirfOk(b) ==
  LET k == Len(b) - 4
  IN 256 * b[k + 1] + b[k + 2] = Total(SubSeq(b, 5, k)) % 32768

Superstar2Ok(L) ==
  LET k == 4 + At(L, 3)
  IN Total([i \in 1 .. Min2(k, Room) |-> At(L, i - 1)]) = At(L, k) + 256 * At(L, k + 1)

OncoreOk(b) == b[Len(b) - 2] = XorOf(SubSeq(b, 3, Len(b) - 3))

(* Stuffing: a DLE inside the packet is sent twice.  Where count bytes end *)
(* that begin at a place of the buffer, their sum, and whether each DLE    *)
(* was one of a pair.  No more of them are looked at than the buffer has   *)
(* room for: behind it there is no trailer.                                *)
Unstuffed(L, from, count) ==
  LET next(w, k) == LET c == At(L, w.at)
                    IN [at    |-> w.at + (IF c = DLE THEN 2 ELSE 1), sum |-> w.sum + c,
                        pairs |-> w.pairs /\ (c = DLE => At(L, w.at + 1) = DLE)]
  IN FoldLeft(next, [at |-> from, sum |-> 0, pairs |-> TRUE], [k \in 1 .. Min2(count, Room) |-> k])
Trailer(L, w) == w.pairs /\ At(L, w.at) = DLE /\ At(L, w.at + 1) = ETX

(* a number, a length, so many bytes, and what makes their sum 0           *)
GarminOk(L) ==
  LET w == Unstuffed(L, 2, At(L, 2) + 2)
  IN At(L, 0) = DLE /\ Trailer(L, w) /\ (At(L, 1) + w.sum) % 256 = 0

(* The packets of TSIP have no checksum: number and length must go together *)
TsipLengths ==
  [i \in {19} |-> 1 .. Room] @@ [i \in {65} |-> {14, 15}] @@ [i \in {66} |-> {20}]
  @@ [i \in {67, 74, 86} |-> {24}] @@ [i \in {69} |-> {14}] @@ [i \in {70, 94} |-> {6}]
  @@ [i \in {72} |-> {26}] @@ [i \in {73, 91} |-> {36}] @@ [i \in {75} |-> {7}]
  @@ [i \in {76} |-> {21}] @@ [i \in {84} |-> {16}] @@ [i \in {85} |-> {8}]
  @@ [i \in {87} |-> {12}] @@ [i \in {90} |-> 29 .. 31] @@ [i \in {92} |-> 28 .. 30]
  @@ [i \in {95} |-> {70}] @@ [i \in {109} |-> 20 .. 32] @@ [i \in {130} |-> {5}]
  @@ [i \in {132} |-> {40, 41}] @@ [i \in {142, 143} |-> 1 .. Room] @@ [i \in {187} |-> {44}]
TsipOk(b, length) == b[2] \in DOMAIN TsipLengths /\ length \in TsipLengths[b[2]]

(* A packet of fewer than 5 bytes only sets the state: the bytes stay.     *)
(* Garmin is tried unless the packet before was TSIP.                      *)
TsipVerdict(L) ==
  LET b == Packet(L)
      dles == Cardinality({i \in DOMAIN b : b[i] = DLE})
      length == Len(b) - (IF dles > 2 THEN (dles - 2) \div 2 ELSE 0)
  IN CASE length < 5 -> Go(L, "GROUND_STATE")
       [] length >= 5 /\ L.type # "TSIP_PACKET" /\ GarminOk(L) -> Verdict(L, TRUE, "GARMIN_PACKET", L.state)
       [] OTHER -> Verdict(L, TsipOk(b, length), "TSIP_PACKET", L.state)

(* CRC-24Q, 24 bits: the table crc24q says what a byte shifts in, by the   *)
(* polynomial CRCPOLY from the high bit down; crc24q_hash goes on from the *)
(* CRC of the bytes before.                                                *)
ShiftedIn[bits \in 0 .. 8, crc \in Nat] ==
  IF bits = 0 THEN crc
  ELSE ShiftedIn[bits - 1, IF crc >= 2 ^ 23 THEN Xor[(2 * crc) % 2 ^ 24, 8801531] ELSE 2 * crc]
crc24q == [c \in Byte |-> ShiftedIn[8, 65536 * c]]
crc24q_hash[crc \in Nat, bytes \in Seq(Byte)] ==
  IF bytes = <<>> THEN crc
  ELSE crc24q_hash[Xor[256 * (crc % 2 ^ 16), crc24q[Xor[Head(bytes), crc \div 65536]]], Tail(bytes)]
Crc24(bytes) == crc24q_hash[0, bytes]
(* mutant: no check *)
Rtcm3Ok_Unchecked(b) == TRUE
Rtcm3Ok(b) ==
  LET k == Len(b) - 3
  IN Crc24(SubSeq(b, 1, k)) = 65536 * b[k + 1] + 256 * b[k + 2] + b[k + 3]

ZodiacOk(L) ==
  LET words == Word(L, 2)
  IN words = 0 \/ Total([i \in 1 .. words + 1 |-> Word(L, 4 + i)]) % 65536 = 0

UbxOk(b) ==
  LET add(ck, c) == <<(ck[1] + c) % 256, (ck[2] + ck[1] + c) % 256>>
  IN FoldLeft(add, <<0, 0>>, SubSeq(b, 3, Len(b) - 2)) = <<b[Len(b) - 1], b[Len(b)]>>

(* a length that counts itself, the bytes and their sum                    *)
EvermoreOk(L) ==
  LET length == At(L, 2)
      data == Unstuffed(L, 2, length - 1)
      all  == Unstuffed(L, 2, length)
  IN /\ At(L, 0) = DLE /\ At(L, 1) = STX /\ length >= 2
     /\ Trailer(L, all) /\ (data.sum - length) % 256 = all.sum - data.sum

ItalkOk(L) ==
  LET words == At(L, 6)
      getiw(i) == At(L, i) + 256 * At(L, i + 1)
      add(csum, i) == LET t == (csum + 1) * (getiw(7 + 2 * i) + i)
                      IN Xor[Xor[csum, t % 65536], (t \div 65536) % 65536]
  IN words = 0 \/ FoldLeft(add, 0, [i \in 1 .. words |-> i - 1]) = getiw(7 + 2 * words)

(* the exclusive or of 32-bit words, lane by lane *)
GeostarOk(L) ==
  \A lane \in 0 .. 3 : XorOf([i \in 1 .. (L.ptr + 3) \div 4 |-> At(L, 4 * (i - 1) + lane)]) = 0

(* a short text is bad, but its bytes stay and the parse goes on           *)
GtxtVerdict(L) ==
  IF L.ptr >= GtxtLength THEN Verdict(L, TRUE, "GARMINTXT_PACKET", "GROUND_STATE")
  ELSE packet_accept(Go(L, "GROUND_STATE"), "BAD_PACKET")

-----------------------------------------------------------------------------
(* packet_parse and packet_get                                             *)

(* What is done in a state that says a packet is complete                  *)
Recognized(L) ==
  LET b == Packet(L)
      s == L.state
  IN CASE s = "COMMENT_RECOGNIZED"    -> Verdict(L, TRUE, "COMMENT_PACKET", "GROUND_STATE")
       [] s = "NMEA_RECOGNIZED"       -> NmeaVerdict(L)
       [] s = "SIRF_RECOGNIZED"       -> Verdict(L, SirfOk(b), "SIRF_PACKET", s)
       [] s = "SUPERSTAR2_RECOGNIZED" -> Verdict(L, Superstar2Ok(L), "SUPERSTAR2_PACKET", s)
       [] s = "ONCORE_RECOGNIZED"     -> Verdict(L, OncoreOk(b), "ONCORE_PACKET", s)
       [] s = "TSIP_RECOGNIZED"       -> TsipVerdict(L)
       [] s = "RTCM3_RECOGNIZED"      -> Verdict(L, Rtcm3Ok(b), "RTCM3_PACKET", "GROUND_STATE")
       [] s = "ZODIAC_RECOGNIZED"     -> Verdict(L, ZodiacOk(L), "ZODIAC_PACKET", s)
       [] s = "UBX_RECOGNIZED"        -> Verdict(L, UbxOk(b), "UBX_PACKET", s)
       [] s = "EVERMORE_RECOGNIZED"   -> Verdict(L, EvermoreOk(L), "EVERMORE_PACKET", s)
       [] s = "ITALK_RECOGNIZED"      -> Verdict(L, ItalkOk(L), "ITALK_PACKET", s)
       [] s = "NAVCOM_RECOGNIZED"     -> Verdict(L, TRUE, "NAVCOM_PACKET", s)
       [] s = "GEOSTAR_RECOGNIZED"    -> Verdict(L, GeostarOk(L), "GEOSTAR_PACKET", s)
       [] s = "RTCM2_RECOGNIZED"      -> Verdict(L, TRUE, "RTCM2_PACKET", "RTCM2_SYNC_STATE")
       [] s = "GTXT_RECOGNIZED"       -> GtxtVerdict(L)
       [] s = "JSON_RECOGNIZED"       -> Verdict(Go(L, "GROUND_STATE"), L.ptr >= 11, "JSON_PACKET", "GROUND_STATE")

Complete == {"COMMENT_RECOGNIZED", "NMEA_RECOGNIZED", "SIRF_RECOGNIZED", "SUPERSTAR2_RECOGNIZED",
             "ONCORE_RECOGNIZED", "TSIP_RECOGNIZED", "RTCM3_RECOGNIZED", "ZODIAC_RECOGNIZED",
             "UBX_RECOGNIZED", "EVERMORE_RECOGNIZED", "ITALK_RECOGNIZED", "NAVCOM_RECOGNIZED",
             "GEOSTAR_RECOGNIZED", "RTCM2_RECOGNIZED", "GTXT_RECOGNIZED", "JSON_RECOGNIZED"}

(* The states and the types of packets there are *)
States == Complete \cup {"GROUND_STATE", "COMMENT_BODY", "RTCM2_SYNC_STATE", "RTCM2_SKIP_STATE",
                         "JSON_LEADER", "JSON_STRINGLITERAL", "JSON_STRING_SOLIDUS",
                         "JSON_END_ATTRIBUTE", "JSON_EXPECT_VALUE", "JSON_NUMBER", "JSON_SPECIAL",
                         "JSON_END_VALUE"}
          \cup UNION {DOMAIN NmeaMoves, DOMAIN SentenceMoves, DOMAIN AckMoves, DOMAIN AstralMoves,
                      DOMAIN EarthaMoves, DOMAIN SirfMoves, DOMAIN Superstar2Moves, DOMAIN OncoreMoves,
                      DOMAIN DleMoves, DOMAIN NavcomMoves, DOMAIN Rtcm3Moves, DOMAIN ZodiacMoves,
                      DOMAIN UbxMoves, DOMAIN EvermoreMoves, DOMAIN ItalkMoves, DOMAIN GeostarMoves,
                      DOMAIN TsipMoves}
PacketTypes == {"BAD_PACKET", "COMMENT_PACKET", "NMEA_PACKET", "AIVDM_PACKET", "GARMINTXT_PACKET",
                "SIRF_PACKET", "ZODIAC_PACKET", "TSIP_PACKET", "EVERMORE_PACKET", "ITALK_PACKET",
                "GARMIN_PACKET", "NAVCOM_PACKET", "UBX_PACKET", "SUPERSTAR2_PACKET", "ONCORE_PACKET",
                "GEOSTAR_PACKET", "RTCM2_PACKET", "RTCM3_PACKET", "JSON_PACKET"}

(* Characters are looked at until one completes a packet, or none is left. *)
(* In the ground state the first character of the buffer is thrown away    *)
(* and the rest is read again.                                             *)
Seen(L) == CASE L.state = "GROUND_STATE" -> character_discard(L)
             [] L.state \in Complete     -> Recognized(L)
             [] OTHER                    -> L
(* So at every character the buffer gets shorter, or less of it is left to *)
(* look at, or the character goes back to a state that does not give it    *)
(* back again: no parse looks at more than Looks of them.                  *)
Lexer == [state : States, length : Int, mem : Seq(Int), len : Int, ptr : Int, depth : Int,
          after : States, type : PacketTypes, out : Seq([type : PacketTypes, bytes : Seq(Int)]),
          rt : Int, n : Int, ctmp : Int]
Looks == 3 * (Room + 1) * (Room + 1)
Looked(L) == nextstate([L EXCEPT !.ptr = @ + 1], At(L, L.ptr))
(* mutant: a text that is too short ends the parse like a packet *)
Returns_Short(L) == L.state \in Complete
Returns(L) == L.state \in Complete /\ Seen(L).ptr <= 0
Parsed[looks \in 0 .. Looks] ==
  [L \in Lexer |->
     IF looks = 0 \/ Buffered(L) <= 0 THEN L
     ELSE IF Returns(Looked(L)) THEN Seen(Looked(L))
     ELSE Parsed[looks - 1][Seen(Looked(L))]]

packet_parse(L) == Parsed[Looks][[L EXCEPT !.out = <<>>]]

(* read() puts its bytes behind those that are there; a buffer that is     *)
(* still full after the parse is emptied as far as it was looked at.       *)
Read(L, bytes) ==
  LET mem == SubSeq(L.mem, 1, L.len) \o bytes
  IN [L EXCEPT !.mem = mem \o SubSeq(@, Len(mem) + 1, Len(@)), !.len = Len(mem)]
(* mutants: a UBX payload survives the full buffer; what follows a packet  *)
(* in the buffer goes with it                                              *)
Emptied_KeepsState(L) ==
  IF L.len = Room
  THEN Go(packet_discard(L), IF L.state = "UBX_PAYLOAD" THEN L.state ELSE "GROUND_STATE")
  ELSE L
Emptied_DropsRest(L) ==
  IF L.len = Room THEN Go(packet_discard(L), "GROUND_STATE")
  ELSE IF L.out # <<>> THEN [L EXCEPT !.len = 0, !.ptr = 0] ELSE L
Emptied(L) == IF L.len = Room THEN Go(packet_discard(L), "GROUND_STATE") ELSE L
packet_get(L, bytes) ==
  IF bytes = <<>> /\ Buffered(L) <= 0 THEN L ELSE Emptied(packet_parse(Read(L, bytes)))

packet_init ==
  [state |-> "GROUND_STATE", length |-> 0, mem |-> <<>>, len |-> 0, ptr |-> 0, depth |-> 0,
   after |-> "GROUND_STATE", type |-> "BAD_PACKET", out |-> <<>>, rt |-> 0, n |-> 0, ctmp |-> 0]

=============================================================================
