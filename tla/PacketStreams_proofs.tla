------------------------ MODULE PacketStreams_proofs ------------------------
(***************************************************************************)
(* What the packet lexer keeps whatever the devices send and however it is *)
(* cut into reads: its states, its pointer, its buffer, and that the loop  *)
(* of packet_parse ends.                                                   *)
(***************************************************************************)
EXTENDS PacketStreams, SequenceTheorems, FiniteSetTheorems, TLAPS

-----------------------------------------------------------------------------
(* What every step of the lexer keeps, and the tables. *)

Afters == {"GROUND_STATE", "JSON_END_ATTRIBUTE", "JSON_END_VALUE"}
OutPacket == [type : PacketTypes, bytes : Seq(Byte)]
Shape(S) == [state : S, length : 0 .. SizeMax - 1, mem : Seq(Byte), len : Nat, ptr : Nat, depth : Int,
             after : Afters, type : PacketTypes, out : Seq(OutPacket), rt : Nat, n : Nat, ctmp : Byte]

\* A lexer between two characters.
Kept(L) ==
  /\ L \in Shape(Between)
  /\ L.len <= Len(L.mem) /\ Len(L.mem) <= Room
  /\ L.ptr > L.len => L.state = "NMEA_DOLLAR"

\* A lexer that looks at a character: the pointer has gone on behind it.
Fit(L) == L \in Shape(Between) /\ L.ptr >= 1 /\ L.n >= 1

\* The states a character goes back to are ordered, so that it goes back twice at most
\* (and never to a packet that may turn out to be none).
Rank(s) == IF s \in {"JSON_NUMBER", "JSON_SPECIAL", "TSIP_RECOGNIZED", "GTXT_RECOGNIZED"} THEN 2
           ELSE IF s \in {"GROUND_STATE", "JSON_EXPECT_VALUE", "JSON_END_VALUE"} THEN 1 ELSE 0

PointerMoves(L, K) ==
  \/ K.ptr = L.ptr
  \/ K.ptr = L.ptr - 1 /\ (K.state \in {"GROUND_STATE", "NMEA_RECOGNIZED"} \/ Rank(K.state) < Rank(L.state))
  \/ K.ptr >= L.ptr /\ K.state = "NMEA_DOLLAR"

\* What one character does to a lexer.
Moves(L, K) ==
  K \in Shape(Reached) /\ K.mem = L.mem /\ K.len = L.len /\ PointerMoves(L, K)

\* A set of numbers that is not empty has a least one: the least of the intervals from 0.
LEMMA HasLeast ==
  ASSUME NEW T \in SUBSET Nat, T # {}
  PROVE  \E x \in T : \A y \in T : x <= y
<1> DEFINE R == StrictSubsetOrdering(Nat)
           I == {0..x : x \in T}
<1>1. IsWellFoundedOn(R, FiniteSubsetsOf(Nat))
  BY FS_StrictSubsetOrderingWellFounded
<1>2. I \subseteq FiniteSubsetsOf(Nat) /\ I # {}
  <2>1. \A x \in T : 0..x \in SUBSET Nat /\ IsFiniteSet(0..x)
    BY FS_Interval
  <2>2. \A x \in T : 0..x \in FiniteSubsetsOf(Nat)
    BY <2>1 DEF FiniteSubsetsOf
  <2> QED
    BY <2>2
<1>3. PICK i \in I : \A j \in I : <<j, i>> \notin R
  <2> HIDE DEF I, R
  <2> QED BY <1>1, <1>2, WFMin
<1>4. PICK x \in T : i = 0..x
  OBVIOUS
<1>5. ASSUME NEW y \in T, y < x PROVE FALSE
  <2>1. 0..y \in I /\ 0..y \subseteq 0..x /\ x \in 0..x /\ x \notin 0..y
    BY <1>5
  <2>2. <<0..y, 0..x>> \in R
    BY <2>1 DEF StrictSubsetOrdering
  <2> QED
    BY <1>3, <1>4, <2>1, <2>2
<1> QED
  BY <1>5

\* A length is kept in the type it has.
LEMMA SizeOf ==
  ASSUME NEW x \in Nat
  PROVE  x % SizeMax \in 0 .. SizeMax - 1
BY PacketNumbers

LEMMA GroundIsBetween ==
  /\ "GROUND_STATE" \in Between /\ Between \subseteq Reached
  /\ "NMEA_DOLLAR" \in Reached /\ Reached \subseteq States
<1>1. "GROUND_STATE" \in Between
  BY DEF Between, Reached, States
<1>2. "NMEA_DOLLAR" \in Reached
  BY DEF Reached, States, NmeaMoves
<1> QED BY <1>1, <1>2 DEF Between, Reached

\* A byte leads to a state of the row, or to the ground state.
LEMMA RowIn ==
  ASSUME NEW rows, NEW T, NEW c, DOMAIN rows \subseteq Nat,
         \A i \in DOMAIN rows : rows[i][2] \in T
  PROVE  Row(rows, c) \in T \cup {"GROUND_STATE"}
<1> DEFINE hit == {i \in DOMAIN rows : c \in rows[i][1]}
<1>1. CASE hit = {}
  BY <1>1 DEF Row
<1>2. CASE hit # {}
  <2>1. \E i \in hit : \A j \in hit : i <= j
    BY <1>2, HasLeast
  <2>2. (CHOOSE i \in hit : \A j \in hit : i <= j) \in DOMAIN rows
    BY <2>1
  <2> QED BY <1>2, <2>2 DEF Row
<1> QED BY <1>1, <1>2

\* What an assignment to one field leaves.
Same(L, K) == K.mem = L.mem /\ K.len = L.len /\ K.ptr = L.ptr /\ K.state = L.state

LEMMA StateSet ==
  ASSUME NEW S, NEW R, NEW L \in Shape(S), NEW s \in R
  PROVE  /\ Go(L, s) \in Shape(R) /\ Go(L, s).state = s
         /\ Go(L, s).mem = L.mem /\ Go(L, s).len = L.len /\ Go(L, s).ptr = L.ptr
<1>1. Go(L, s) \in Shape(R)
  BY SMTT(60) DEF Shape, Go
<1>2. Go(L, s).state = s /\ Go(L, s).mem = L.mem /\ Go(L, s).len = L.len /\ Go(L, s).ptr = L.ptr
  BY SMTT(20) DEF Shape, Go
<1> QED BY <1>1, <1>2

LEMMA StateIs ==
  ASSUME NEW S, NEW L \in Shape(S), NEW s
  PROVE  /\ Go(L, s).state = s
         /\ Go(L, s).mem = L.mem /\ Go(L, s).len = L.len /\ Go(L, s).ptr = L.ptr
BY SMTT(20) DEF Shape, Go

LEMMA LengthSet ==
  ASSUME NEW S, NEW L \in Shape(S), NEW l \in 0 .. SizeMax - 1
  PROVE  [L EXCEPT !.length = l] \in Shape(S) /\ Same(L, [L EXCEPT !.length = l])
<1>1. [L EXCEPT !.length = l] \in Shape(S)
  BY SMTT(20) DEF Shape
<1>2. Same(L, [L EXCEPT !.length = l])
  BY SMTT(20) DEF Shape, Same
<1> QED BY <1>1, <1>2

LEMMA PointerSet ==
  ASSUME NEW S, NEW L \in Shape(S), NEW p \in Nat
  PROVE  /\ [L EXCEPT !.ptr = p] \in Shape(S) /\ [L EXCEPT !.ptr = p].ptr = p
         /\ [L EXCEPT !.ptr = p].mem = L.mem /\ [L EXCEPT !.ptr = p].len = L.len
         /\ [L EXCEPT !.ptr = p].state = L.state
<1>1. [L EXCEPT !.ptr = p] \in Shape(S)
  BY SMTT(20) DEF Shape
<1>2. /\ [L EXCEPT !.ptr = p].ptr = p
      /\ [L EXCEPT !.ptr = p].mem = L.mem /\ [L EXCEPT !.ptr = p].len = L.len
      /\ [L EXCEPT !.ptr = p].state = L.state
  BY SMTT(20) DEF Shape
<1> QED BY <1>1, <1>2

LEMMA CountSet ==
  ASSUME NEW S, NEW L \in Shape(S), NEW x \in Nat
  PROVE  /\ [L EXCEPT !.n = x] \in Shape(S) /\ Same(L, [L EXCEPT !.n = x])
         /\ [L EXCEPT !.n = x].rt = L.rt
         /\ [L EXCEPT !.rt = x] \in Shape(S) /\ Same(L, [L EXCEPT !.rt = x])
<1>1. /\ [L EXCEPT !.n = x] \in Shape(S) /\ Same(L, [L EXCEPT !.n = x])
      /\ [L EXCEPT !.n = x].rt = L.rt
  BY SMTT(20) DEF Shape, Same
<1>2. [L EXCEPT !.rt = x] \in Shape(S) /\ Same(L, [L EXCEPT !.rt = x])
  BY SMTT(20) DEF Shape, Same
<1> QED BY <1>1, <1>2

LEMMA DepthSet ==
  ASSUME NEW S, NEW L \in Shape(S), NEW z \in Int
  PROVE  [L EXCEPT !.depth = z] \in Shape(S) /\ Same(L, [L EXCEPT !.depth = z])
BY SMTT(20) DEF Shape, Same

LEMMA NumberSet ==
  ASSUME NEW S, NEW L \in Shape(S), NEW c \in Byte
  PROVE  [L EXCEPT !.ctmp = c] \in Shape(S) /\ Same(L, [L EXCEPT !.ctmp = c])
BY SMTT(60) DEF Shape, Same

LEMMA AfterSet ==
  ASSUME NEW S, NEW L \in Shape(S), NEW a \in Afters
  PROVE  [L EXCEPT !.after = a] \in Shape(S) /\ Same(L, [L EXCEPT !.after = a])
BY SMTT(60) DEF Shape, Same

LEMMA OutSet ==
  ASSUME NEW S, NEW L \in Shape(S), NEW o \in Seq(OutPacket)
  PROVE  [L EXCEPT !.out = o] \in Shape(S) /\ Same(L, [L EXCEPT !.out = o])
BY SMTT(120) DEF Shape, Same

LEMMA TypeSet ==
  ASSUME NEW S, NEW L \in Shape(S), NEW t \in PacketTypes
  PROVE  [L EXCEPT !.type = t] \in Shape(S) /\ Same(L, [L EXCEPT !.type = t])
BY SMTT(60) DEF Shape, Same

LEMMA BufferSet ==
  ASSUME NEW S, NEW L \in Shape(S), NEW m \in Seq(Byte)
  PROVE  /\ [L EXCEPT !.mem = m] \in Shape(S) /\ [L EXCEPT !.mem = m].mem = m
         /\ [L EXCEPT !.mem = m].len = L.len /\ [L EXCEPT !.mem = m].ptr = L.ptr
         /\ [L EXCEPT !.mem = m].state = L.state
<1>1. [L EXCEPT !.mem = m] \in Shape(S)
  BY SMTT(120) DEF Shape
<1>2. /\ [L EXCEPT !.mem = m].mem = m
      /\ [L EXCEPT !.mem = m].len = L.len /\ [L EXCEPT !.mem = m].ptr = L.ptr
      /\ [L EXCEPT !.mem = m].state = L.state
  BY SMTT(20) DEF Shape
<1> QED BY <1>1, <1>2

LEMMA EndSet ==
  ASSUME NEW S, NEW L \in Shape(S), NEW l \in Nat
  PROVE  /\ [L EXCEPT !.len = l] \in Shape(S) /\ [L EXCEPT !.len = l].len = l
         /\ [L EXCEPT !.len = l].mem = L.mem /\ [L EXCEPT !.len = l].ptr = L.ptr
         /\ [L EXCEPT !.len = l].state = L.state
<1>1. [L EXCEPT !.len = l] \in Shape(S)
  BY SMTT(20) DEF Shape
<1>2. /\ [L EXCEPT !.len = l].len = l
      /\ [L EXCEPT !.len = l].mem = L.mem /\ [L EXCEPT !.len = l].ptr = L.ptr
      /\ [L EXCEPT !.len = l].state = L.state
  BY SMTT(20) DEF Shape
<1> QED BY <1>1, <1>2

LEMMA FieldsAre ==
  ASSUME NEW S, NEW L \in Shape(S)
  PROVE  /\ L.state \in S /\ L.length \in 0 .. SizeMax - 1 /\ L.mem \in Seq(Byte)
         /\ L.len \in Nat /\ L.ptr \in Nat /\ L.depth \in Int /\ L.after \in Afters
         /\ L.type \in PacketTypes /\ L.out \in Seq(OutPacket) /\ L.rt \in Nat /\ L.n \in Nat
         /\ L.ctmp \in Byte
BY DEF Shape

LEMMA Wider ==
  ASSUME NEW L \in Shape(Between)
  PROVE  L \in Shape(Reached)
BY GroundIsBetween DEF Shape

-----------------------------------------------------------------------------
(* The three ways most characters take. *)

LEMMA GoMoves ==
  ASSUME NEW L, Fit(L), NEW s \in Reached
  PROVE  Moves(L, Go(L, s))
BY StateSet DEF Fit, Moves, PointerMoves

LEMMA GoAfter ==
  ASSUME NEW L, NEW M \in Shape(Between), Same(L, M), NEW s \in Reached
  PROVE  Moves(L, Go(M, s))
BY StateSet DEF Moves, PointerMoves, Same

LEMMA SizedMoves ==
  ASSUME NEW L, Fit(L), NEW length \in Nat, NEW s \in Reached
  PROVE  Moves(L, Sized(L, length, s))
<1> DEFINE M == [L EXCEPT !.length = length % SizeMax]
<1>1. length % SizeMax \in 0 .. SizeMax - 1
  BY SizeOf
<1>2. M \in Shape(Between) /\ Same(L, M)
  BY <1>1, LengthSet DEF Fit
<1>3. Sized(L, length, s) = Go(M, s)
  BY DEF Sized, Go
<1> HIDE DEF M
<1> QED BY <1>2, <1>3, GoAfter

LEMMA CountMoves ==
  ASSUME NEW L, Fit(L), NEW s \in Reached
  PROVE  Moves(L, Count(L, s))
<1> DEFINE left == (L.length + SizeMax - 1) % SizeMax
           M == [L EXCEPT !.length = left]
<1>1. L.length \in 0 .. SizeMax - 1 /\ L.state \in Reached
  BY FieldsAre, GroundIsBetween DEF Fit
<1>2. left \in 0 .. SizeMax - 1
  <2>1. L.length + SizeMax - 1 \in Nat
    BY <1>1, PacketNumbers
  <2> QED BY <2>1, SizeOf
<1>3. M \in Shape(Between) /\ Same(L, M)
  BY <1>2, LengthSet DEF Fit
<1>4. Count(L, s) = Go(M, IF left = 0 THEN s ELSE L.state)
  BY DEF Count, Go
<1>5. (IF left = 0 THEN s ELSE L.state) \in Reached
  BY <1>1
<1> HIDE DEF M, left
<1> QED BY <1>3, <1>4, <1>5, GoAfter

LEMMA SameSame ==
  ASSUME NEW L, NEW M, NEW K, Same(L, M), Same(M, K)
  PROVE  Same(L, K)
BY DEF Same

LEMMA SameGo ==
  ASSUME NEW L, NEW S, NEW M \in Shape(S), Same(L, M), NEW s
  PROVE  /\ Go(M, s).state = s
         /\ Go(M, s).mem = L.mem /\ Go(M, s).len = L.len /\ Go(M, s).ptr = L.ptr
BY StateIs DEF Same

\* Nothing moves.
LEMMA StaysMoves ==
  ASSUME NEW L, NEW M \in Shape(Between), Same(L, M)
  PROVE  Moves(L, M)
BY Wider DEF Moves, PointerMoves, Same

\* A character goes back.
LEMMA BackAfter ==
  ASSUME NEW L, NEW M \in Shape(Reached), M.mem = L.mem, M.len = L.len, M.ptr = L.ptr, M.ptr >= 1,
         M.state \in {"GROUND_STATE", "NMEA_RECOGNIZED"} \/ Rank(M.state) < Rank(L.state)
  PROVE  Moves(L, character_pushback(M))
<1>1. M.ptr - 1 \in Nat
  BY FieldsAre
<1>2. character_pushback(M) = [M EXCEPT !.ptr = M.ptr - 1]
  BY DEF character_pushback
<1> QED BY <1>1, <1>2, PointerSet DEF Moves, PointerMoves

LEMMA GoIs ==
  ASSUME NEW L, Fit(L), NEW s \in Reached
  PROVE  /\ Go(L, s) \in Shape(Reached) /\ Go(L, s).mem = L.mem /\ Go(L, s).len = L.len
         /\ Go(L, s).ptr = L.ptr /\ Go(L, s).ptr >= 1 /\ Go(L, s).state = s
<1>1. L \in Shape(Between) /\ L.ptr >= 1
  BY DEF Fit
<1>2. Go(L, s) \in Shape(Reached)
  BY <1>1, StateSet
<1>3. /\ Go(L, s).mem = L.mem /\ Go(L, s).len = L.len
      /\ Go(L, s).ptr = L.ptr /\ Go(L, s).state = s
  BY <1>1, StateIs
<1> QED BY <1>1, <1>2, <1>3

LEMMA BackMoves ==
  ASSUME NEW L, Fit(L), NEW s \in Reached,
         s \in {"GROUND_STATE", "NMEA_RECOGNIZED"} \/ Rank(s) < Rank(L.state)
  PROVE  Moves(L, character_pushback(Go(L, s)))
BY GoIs, BackAfter

\* A table whose rows lead to states of T, and what follows from it.
Leads(table, T) == \A s \in DOMAIN table : /\ DOMAIN table[s] \subseteq Nat
                                           /\ \A i \in DOMAIN table[s] : table[s][i][2] \in T
LEMMA RowReached ==
  ASSUME NEW table, Leads(table, Reached), NEW s \in DOMAIN table, NEW c
  PROVE  Row(table[s], c) \in Reached
BY RowIn, GroundIsBetween DEF Leads

LEMMA TableMoves ==
  ASSUME NEW L, Fit(L), NEW table, Leads(table, Reached), L.state \in DOMAIN table, NEW c
  PROVE  Moves(L, Go(L, Row(table[L.state], c)))
BY RowReached, GoMoves

LEMMA NmeaLeads == Leads(NmeaMoves, Reached)
<1> DEFINE T == DOMAIN NmeaMoves \cup {"NMEA_LEADER_END", "NMEA_RECOGNIZED", "SEATALK_LEAD_1", "SIRF_ACK_LEAD_1"}
<1>1. T \subseteq Reached
  BY DEF Reached, States, Complete, NmeaMoves, SentenceMoves, AckMoves
<1>2. \A s \in DOMAIN NmeaMoves : DOMAIN NmeaMoves[s] \subseteq Nat
  BY SMTT(30) DEF NmeaMoves
<1>3. \A s \in {"NMEA_DOLLAR", "NMEA_PUB_LEAD", "NMEA_VENDOR_LEAD", "NMEA_PASHR_A", "NMEA_PASHR_S", "NMEA_PASHR_H"} :
        \A i \in DOMAIN NmeaMoves[s] : NmeaMoves[s][i][2] \in T
  BY SMTT(30) DEF NmeaMoves
<1>4. \A s \in {"NMEA_BINARY_BODY", "NMEA_BINARY_CR", "NMEA_BINARY_NL", "NMEA_BANG", "AIS_LEAD_1", "AIS_LEAD_2"} :
        \A i \in DOMAIN NmeaMoves[s] : NmeaMoves[s][i][2] \in T
  BY SMTT(30) DEF NmeaMoves
<1>5. DOMAIN NmeaMoves =
        {"NMEA_DOLLAR", "NMEA_PUB_LEAD", "NMEA_VENDOR_LEAD", "NMEA_PASHR_A", "NMEA_PASHR_S", "NMEA_PASHR_H"}
        \cup {"NMEA_BINARY_BODY", "NMEA_BINARY_CR", "NMEA_BINARY_NL", "NMEA_BANG", "AIS_LEAD_1", "AIS_LEAD_2"}
  BY DEF NmeaMoves
<1> HIDE DEF T
<1> QED BY <1>1, <1>2, <1>3, <1>4, <1>5 DEF Leads

LEMMA SentenceLeads == Leads(SentenceMoves, Reached)
<1> DEFINE T == DOMAIN SentenceMoves \cup {"ONCORE_AT2", "GTXT_RECOGNIZED", "NMEA_DOLLAR", "COMMENT_BODY",
                                           "NMEA_BANG", "UBX_LEADER_1"}
<1>1. T \subseteq Reached
  <2>1. DOMAIN SentenceMoves \subseteq Reached
    BY DEF Reached, States, SentenceMoves
  <2>2. {"ONCORE_AT2", "GTXT_RECOGNIZED", "COMMENT_BODY"} \subseteq Reached
    BY DEF Reached, States, Complete, OncoreMoves
  <2>3. {"NMEA_DOLLAR", "NMEA_BANG", "UBX_LEADER_1"} \subseteq Reached
    BY DEF Reached, States, NmeaMoves, UbxMoves
  <2> QED BY <2>1, <2>2, <2>3
<1>2. \A s \in DOMAIN SentenceMoves : DOMAIN SentenceMoves[s] \subseteq Nat
  BY SMTT(30) DEF SentenceMoves
<1>3. \A s \in {"AT1_LEADER", "SEATALK_LEAD_1"} :
        \A i \in DOMAIN SentenceMoves[s] : SentenceMoves[s][i][2] \in T
  BY SMTT(30) DEF SentenceMoves
<1>4. \A s \in {"NMEA_LEADER_END", "NMEA_CR", "NMEA_RECOGNIZED"} :
        \A i \in DOMAIN SentenceMoves[s] : SentenceMoves[s][i][2] \in T
  BY SMTT(30) DEF SentenceMoves
<1>5. DOMAIN SentenceMoves =
        {"AT1_LEADER", "SEATALK_LEAD_1"} \cup {"NMEA_LEADER_END", "NMEA_CR", "NMEA_RECOGNIZED"}
  BY DEF SentenceMoves
<1> HIDE DEF T
<1> QED BY <1>1, <1>2, <1>3, <1>4, <1>5 DEF Leads

LEMMA AckLeads == Leads(AckMoves, Reached)
BY DEF Leads, AckMoves, Reached, States, Complete, SentenceMoves, NmeaMoves

LEMMA SirfLeads == Leads(SirfMoves, Reached)
BY DEF Leads, SirfMoves, Reached, States, Complete

LEMMA Superstar2Leads == Leads(Superstar2Moves, Reached)
BY DEF Leads, Superstar2Moves, Reached, States, Complete

LEMMA OncoreLeads == Leads(OncoreMoves, Reached)
BY DEF Leads, OncoreMoves, Reached, States, Complete, SentenceMoves

LEMMA DleLeads == Leads(DleMoves, Reached)
BY DEF Leads, DleMoves, Reached, States, Complete, TsipMoves, EvermoreMoves

LEMMA NavcomLeads == Leads(NavcomMoves, Reached)
BY DEF Leads, NavcomMoves, Reached, States, Complete

LEMMA Rtcm3Leads == Leads(Rtcm3Moves, Reached)
BY DEF Leads, Rtcm3Moves, Reached, States, Complete

LEMMA ZodiacLeads == Leads(ZodiacMoves, Reached)
BY DEF Leads, ZodiacMoves, Reached, States, Complete

LEMMA UbxLeads == Leads(UbxMoves, Reached)
BY DEF Leads, UbxMoves, Reached, States, Complete, NmeaMoves

LEMMA EvermoreLeads == Leads(EvermoreMoves, Reached)
BY DEF Leads, EvermoreMoves, Reached, States, Complete

LEMMA ItalkLeads == Leads(ItalkMoves, Reached)
BY DEF Leads, ItalkMoves, Reached, States, Complete

LEMMA GeostarLeads == Leads(GeostarMoves, Reached)
BY DEF Leads, GeostarMoves, Reached, States, Complete

LEMMA TsipLeads == Leads(TsipMoves, Reached)
BY SMTT(30) DEF Leads, TsipMoves, Reached, States, Complete, DleMoves


-----------------------------------------------------------------------------
(* One lemma for each family of states: what its operator does is a move.  *)

LEMMA NamedReached ==
  /\ {"SIRF_LENGTH_1", "SIRF_PAYLOAD", "SIRF_DELIVERED"} \subseteq Reached
  /\ {"SUPERSTAR2_CKSUM1", "ONCORE_CHECKSUM"} \subseteq Reached
  /\ {"NAVCOM_PAYLOAD", "RTCM3_PAYLOAD", "RTCM3_RECOGNIZED"} \subseteq Reached
  /\ {"ZODIAC_RECOGNIZED", "UBX_CHECKSUM_A"} \subseteq Reached
  /\ {"ITALK_RECOGNIZED", "ITALK_DELIVERED", "GEOSTAR_CHECKSUM_A"} \subseteq Reached
  /\ {"RTCM2_SYNC_STATE", "RTCM2_RECOGNIZED", "COMMENT_RECOGNIZED", "NMEA_RECOGNIZED"} \subseteq Reached
  /\ {"JSON_LEADER", "JSON_STRINGLITERAL", "JSON_STRING_SOLIDUS", "JSON_END_ATTRIBUTE", "JSON_EXPECT_VALUE",
      "JSON_NUMBER", "JSON_SPECIAL", "JSON_END_VALUE", "JSON_RECOGNIZED"} \subseteq Reached
<1>1. {"SIRF_LENGTH_1", "SIRF_PAYLOAD", "SIRF_DELIVERED"} \subseteq Reached
  BY DEF Reached, States, SirfMoves
<1>2. {"SUPERSTAR2_CKSUM1", "ONCORE_CHECKSUM"} \subseteq Reached
  BY DEF Reached, States, Superstar2Moves, OncoreMoves
<1>3. {"NAVCOM_PAYLOAD", "RTCM3_PAYLOAD", "RTCM3_RECOGNIZED"} \subseteq Reached
  BY DEF Reached, States, Complete, NavcomMoves, Rtcm3Moves
<1>4. {"ZODIAC_RECOGNIZED", "UBX_CHECKSUM_A"} \subseteq Reached
  BY DEF Reached, States, ZodiacMoves, UbxMoves
<1>5. {"ITALK_RECOGNIZED", "ITALK_DELIVERED", "GEOSTAR_CHECKSUM_A"} \subseteq Reached
  BY DEF Reached, States, ItalkMoves, GeostarMoves
<1>6. {"RTCM2_SYNC_STATE", "RTCM2_RECOGNIZED", "COMMENT_RECOGNIZED", "NMEA_RECOGNIZED"} \subseteq Reached
  BY DEF Reached, States, Complete
<1>7. {"JSON_LEADER", "JSON_STRINGLITERAL", "JSON_STRING_SOLIDUS", "JSON_END_ATTRIBUTE", "JSON_EXPECT_VALUE",
       "JSON_NUMBER", "JSON_SPECIAL", "JSON_END_VALUE", "JSON_RECOGNIZED"} \subseteq Reached
  BY DEF Reached, States, Complete
<1> QED BY <1>1, <1>2, <1>3, <1>4, <1>5, <1>6, <1>7

LEMMA AckStep ==
  ASSUME NEW L, Fit(L), NEW c, L.state \in DOMAIN AckMoves
  PROVE  Moves(L, Ack(L, c))
BY TableMoves, AckLeads DEF Ack

LEMMA DleStep ==
  ASSUME NEW L, Fit(L), NEW c, L.state \in DOMAIN DleMoves
  PROVE  Moves(L, Dle(L, c))
BY TableMoves, DleLeads DEF Dle

LEMMA TsipStep ==
  ASSUME NEW L, Fit(L), NEW c, L.state \in DOMAIN TsipMoves
  PROVE  Moves(L, Tsip(L, c))
BY TableMoves, TsipLeads DEF Tsip

LEMMA BinaryStep ==
  ASSUME NEW L, Fit(L), NEW c, L.state \in DOMAIN NmeaMoves
  PROVE  Moves(L, Binary(L, c))
<1> PICK s : s = Row(NmeaMoves[L.state], c)
  OBVIOUS
<1>1. s \in Reached
  BY RowReached, NmeaLeads
<1>2. Go(L, s).state = s /\ Moves(L, Go(L, s))
  BY <1>1, GoIs, GoMoves
<1>3. s = "NMEA_RECOGNIZED" => Moves(L, character_pushback(Go(L, s)))
  BY <1>1, BackMoves
<1> QED BY <1>2, <1>3 DEF Binary

\* The pointer jumps over what follows the $.
LEMMA JumpMoves ==
  ASSUME NEW L, Fit(L)
  PROVE  Moves(L, [L EXCEPT !.state = "NMEA_DOLLAR", !.ptr = @ + L.n - 1])
<1> PICK M : M = Go(L, "NMEA_DOLLAR")
  OBVIOUS
<1>1. /\ M \in Shape(Reached) /\ M.mem = L.mem /\ M.len = L.len
      /\ M.ptr = L.ptr /\ M.state = "NMEA_DOLLAR"
  BY GoIs, GroundIsBetween
<1>2. L \in Shape(Between) /\ L.n >= 1
  BY DEF Fit
<1>3. L.ptr + L.n - 1 \in Nat /\ L.ptr + L.n - 1 >= L.ptr
  BY <1>2, FieldsAre
<1>4. [L EXCEPT !.state = "NMEA_DOLLAR", !.ptr = @ + L.n - 1] = [M EXCEPT !.ptr = L.ptr + L.n - 1]
  <2>1. [L EXCEPT !.state = "NMEA_DOLLAR", !.ptr = L.ptr + L.n - 1] = [M EXCEPT !.ptr = L.ptr + L.n - 1]
    BY DEF Go
  <2> QED BY <1>2, <2>1 DEF Shape
<1> QED BY <1>1, <1>3, <1>4, PointerSet DEF Moves, PointerMoves

LEMMA SentenceStep ==
  ASSUME NEW L, Fit(L), NEW c, L.state \in DOMAIN SentenceMoves
  PROVE  Moves(L, Sentence(L, c))
<1>1. Moves(L, Go(L, Row(SentenceMoves[L.state], c)))
  BY TableMoves, SentenceLeads
<1> QED BY <1>1, JumpMoves DEF Sentence

LEMMA SirfStep ==
  ASSUME NEW L, Fit(L), NEW c \in Byte, L.state \in DOMAIN SirfMoves
  PROVE  Moves(L, Sirf(L, c))
<1>1. L.length \in Nat /\ c \in Nat
  BY FieldsAre DEF Fit, Byte
<1>2. Moves(L, Sized(L, 256 * c, "SIRF_LENGTH_1"))
  BY <1>1, SizedMoves, NamedReached
<1>3. PICK length : length = L.length + c + 2
  OBVIOUS
<1>4. Moves(L, Sized(L, length, IF length <= MaxPacket THEN "SIRF_PAYLOAD" ELSE "GROUND_STATE"))
  BY <1>1, <1>3, SizedMoves, NamedReached, GroundIsBetween
<1>5. Moves(L, Count(L, "SIRF_DELIVERED"))
  BY CountMoves, NamedReached
<1>6. Moves(L, Go(L, Row(SirfMoves[L.state], c)))
  BY TableMoves, SirfLeads
<1> QED BY <1>2, <1>3, <1>4, <1>5, <1>6 DEF Sirf

LEMMA Superstar2Step ==
  ASSUME NEW L, Fit(L), NEW c \in Byte, L.state \in DOMAIN Superstar2Moves
  PROVE  Moves(L, Superstar2(L, c))
<1> PICK next : next = Row(Superstar2Moves[L.state], c)
  OBVIOUS
<1>1. next \in Reached /\ "GROUND_STATE" \in Reached /\ c \in Nat /\ L \in Shape(Between)
  BY RowReached, Superstar2Leads, GroundIsBetween DEF Byte, Fit
<1>2. Moves(L, [L EXCEPT !.ctmp = c, !.state = next])
  <2> PICK M : M = [L EXCEPT !.ctmp = c]
    OBVIOUS
  <2>1. M \in Shape(Between) /\ Same(L, M)
    BY <1>1, NumberSet
  <2>2. [L EXCEPT !.ctmp = c, !.state = next] = Go(M, next)
    BY DEF Go
  <2> QED BY <1>1, <2>1, <2>2, GoAfter
<1>3. Moves(L, Go(L, IF L.ctmp + c = 255 THEN next ELSE "GROUND_STATE"))
  BY <1>1, GoMoves
<1>4. Moves(L, Sized(L, c, next)) /\ Moves(L, Go(L, next))
  BY <1>1, SizedMoves, GoMoves
<1>5. Moves(L, Count(L, "SUPERSTAR2_CKSUM1"))
  BY CountMoves, NamedReached
<1> QED BY <1>2, <1>3, <1>4, <1>5 DEF Superstar2

\* Every message of OnCore is longer than its frame.
LEMMA OncoreLength ==
  ASSUME NEW i, NEW j
  PROVE  oncore_payload_cksum_length(i, j) \in Nat
<1> DEFINE known == {l \in OncoreLengths : i = Code[l[1]] /\ j \in OneOf(l[2])}
<1>1. \A l \in OncoreLengths : l[3] \in Nat /\ l[3] >= 7
  BY SMTT(60) DEF OncoreLengths
<1>2. CASE known = {}
  BY <1>2 DEF oncore_payload_cksum_length
<1>3. CASE known # {}
  <2>1. (CHOOSE l \in known : TRUE) \in OncoreLengths
    BY <1>3
  <2> QED BY <1>1, <1>3, <2>1 DEF oncore_payload_cksum_length
<1> QED BY <1>2, <1>3

LEMMA OncoreStep ==
  ASSUME NEW L, Fit(L), NEW c \in Byte, L.state \in DOMAIN OncoreMoves
  PROVE  Moves(L, Oncore(L, c))
<1> PICK next : next = Row(OncoreMoves[L.state], c)
  OBVIOUS
<1>1. next \in Reached /\ "GROUND_STATE" \in Reached /\ c \in Nat /\ L.length \in Nat
  BY RowReached, OncoreLeads, GroundIsBetween, FieldsAre DEF Byte, Fit
<1>2. Moves(L, Sized(L, IF next = "ONCORE_ID1" THEN c ELSE L.length, next))
  BY <1>1, SizedMoves
<1>3. PICK length : length = IF c \in Alpha THEN oncore_payload_cksum_length(L.length, c) ELSE L.length
  OBVIOUS
<1>4. length \in Nat
  BY <1>1, <1>3, OncoreLength
<1>5. Moves(L, Sized(L, length, IF c \in Alpha /\ length # 0 THEN next ELSE "GROUND_STATE"))
  BY <1>1, <1>4, SizedMoves
<1>6. Moves(L, Count(L, "ONCORE_CHECKSUM"))
  BY CountMoves, NamedReached
<1>7. Moves(L, Go(L, next))
  BY <1>1, GoMoves
<1> QED BY <1>2, <1>3, <1>5, <1>6, <1>7 DEF Oncore

LEMMA NavcomStep ==
  ASSUME NEW L, Fit(L), NEW c \in Byte, L.state \in DOMAIN NavcomMoves
  PROVE  Moves(L, Navcom(L, c))
<1> PICK next : next = Row(NavcomMoves[L.state], c)
  OBVIOUS
<1>1. next \in Reached /\ "GROUND_STATE" \in Reached /\ c \in Nat /\ L.length \in Nat
  BY RowReached, NavcomLeads, GroundIsBetween, FieldsAre DEF Byte, Fit
<1>2. L \in Shape(Between) /\ L.ptr - 1 \in Nat
  BY FieldsAre DEF Fit
<1>3. Moves(L, Sized(L, c - 4 + SizeMax, next))
  <2>1. c - 4 + SizeMax \in Nat
    BY <1>1, PacketNumbers
  <2> QED BY <1>1, <2>1, SizedMoves
<1>4. Moves(L, Sized(L, L.length + 256 * c, next)) /\ Moves(L, Go(L, next))
  BY <1>1, SizedMoves, GoMoves
<1>5. Moves(L, Count(L, "NAVCOM_PAYLOAD"))
  BY CountMoves, NamedReached
<1>6. PICK csum : csum = XorOf([i \in 1 .. L.ptr - 4 |-> At(L, i + 2)])
  OBVIOUS
<1>7. Moves(L, [L EXCEPT !.n = L.ptr - 1, !.state = IF csum = c THEN next ELSE "GROUND_STATE"])
  <2> PICK M, s : M = [L EXCEPT !.n = L.ptr - 1] /\ s = IF csum = c THEN next ELSE "GROUND_STATE"
    OBVIOUS
  <2>1. M \in Shape(Between) /\ Same(L, M)
    BY <1>2, CountSet
  <2>2. [L EXCEPT !.n = L.ptr - 1, !.state = s] = Go(M, s)
    BY DEF Go
  <2> QED BY <1>1, <2>1, <2>2, GoAfter
<1> QED BY <1>3, <1>4, <1>5, <1>6, <1>7 DEF Navcom

LEMMA Rtcm3Step ==
  ASSUME NEW L, Fit(L), NEW c \in Byte, L.state \in DOMAIN Rtcm3Moves
  PROVE  Moves(L, Rtcm3(L, c))
<1>1. c \in Nat /\ L.length \in Nat /\ Row(Rtcm3Moves[L.state], c) \in Reached
  BY RowReached, Rtcm3Leads, FieldsAre DEF Byte, Fit
<1>2. Moves(L, Sized(L, IF c < 4 THEN 256 * c ELSE L.length, Row(Rtcm3Moves[L.state], c)))
  BY <1>1, SizedMoves
<1>3. Moves(L, Sized(L, L.length + c + 3, "RTCM3_PAYLOAD"))
  BY <1>1, SizedMoves, NamedReached
<1>4. Moves(L, Count(L, "RTCM3_RECOGNIZED"))
  BY CountMoves, NamedReached
<1>5. L.state \in {"RTCM3_LEADER_1", "RTCM3_LEADER_2", "RTCM3_PAYLOAD"}
  BY DEF Rtcm3Moves
<1> QED BY <1>2, <1>3, <1>4, <1>5 DEF Rtcm3

LEMMA ZodiacStep ==
  ASSUME NEW L, Fit(L), NEW c \in Byte, L.state \in DOMAIN ZodiacMoves
  PROVE  Moves(L, Zodiac(L, c))
<1> PICK next : next = Row(ZodiacMoves[L.state], c)
  OBVIOUS
<1>1. next \in Reached /\ "GROUND_STATE" \in Reached /\ c \in Nat /\ L.length \in Nat
  BY RowReached, ZodiacLeads, GroundIsBetween, FieldsAre DEF Byte, Fit
<1>2. /\ Moves(L, Sized(L, c, next)) /\ Moves(L, Sized(L, L.length + 256 * c, next))
      /\ Moves(L, Go(L, next)) /\ Moves(L, Go(L, "GROUND_STATE"))
  BY <1>1, SizedMoves, GoMoves
<1>3. PICK length : length = 2 * L.length + 2
  OBVIOUS
<1>4. Moves(L, Sized(L, length, IF length <= MaxPacket - 10 THEN next ELSE "GROUND_STATE"))
  BY <1>1, <1>3, SizedMoves
<1>5. Moves(L, Go(L, "ZODIAC_RECOGNIZED")) /\ Moves(L, Count(L, "ZODIAC_RECOGNIZED"))
  BY GoMoves, CountMoves, NamedReached
<1> QED BY <1>2, <1>3, <1>4, <1>5 DEF Zodiac

LEMMA UbxStep ==
  ASSUME NEW L, Fit(L), NEW c \in Byte, L.state \in DOMAIN UbxMoves
  PROVE  Moves(L, Ubx(L, c))
<1> PICK next : next = Row(UbxMoves[L.state], c)
  OBVIOUS
<1>1. next \in Reached /\ "GROUND_STATE" \in Reached /\ c \in Nat /\ L.length \in Nat
  BY RowReached, UbxLeads, GroundIsBetween, FieldsAre DEF Byte, Fit
<1>2. Moves(L, Sized(L, c, next)) /\ Moves(L, Go(L, next))
  BY <1>1, SizedMoves, GoMoves
<1>3. PICK length : length = L.length + 256 * c
  OBVIOUS
<1>4. Moves(L, Sized(L, length, IF length <= MaxPacket THEN next ELSE "GROUND_STATE"))
  BY <1>1, <1>3, SizedMoves
<1>5. Moves(L, Count(L, "UBX_CHECKSUM_A"))
  BY CountMoves, NamedReached
<1> QED BY <1>2, <1>3, <1>4, <1>5 DEF Ubx

LEMMA EvermoreStep ==
  ASSUME NEW L, Fit(L), NEW c \in Byte, L.state \in DOMAIN EvermoreMoves
  PROVE  Moves(L, Evermore(L, c))
<1> PICK next : next = Row(EvermoreMoves[L.state], c)
  OBVIOUS
<1>1. next \in Reached /\ "GROUND_STATE" \in Reached /\ c \in Nat
  BY RowReached, EvermoreLeads, GroundIsBetween DEF Byte
<1>2. Moves(L, Sized(L, c, next)) /\ Moves(L, Go(L, next)) /\ Moves(L, Count(L, "GROUND_STATE"))
  BY <1>1, SizedMoves, GoMoves, CountMoves
<1> QED BY <1>2 DEF Evermore

\* What is read of the buffer is a byte, whether it was received or not.
LEMMA AtIs ==
  ASSUME NEW S, NEW L \in Shape(S), NEW i \in Nat
  PROVE  At(L, i) \in Byte
<1>1. L.mem \in Seq(Byte)
  BY FieldsAre
<1>2. i < Len(L.mem) => L.mem[i + 1] \in Byte
  BY <1>1
<1> QED BY <1>2 DEF At, Byte

LEMMA ItalkStep ==
  ASSUME NEW L, Fit(L), NEW c \in Byte, L.state \in DOMAIN ItalkMoves
  PROVE  Moves(L, Italk(L, c))
<1> PICK next : next = Row(ItalkMoves[L.state], c)
  OBVIOUS
<1>1. next \in Reached /\ L \in Shape(Between)
  BY RowReached, ItalkLeads DEF Fit
<1>2. L.length \in Nat /\ At(L, 6) \in Nat
  <2>1. At(L, 6) \in Byte
    BY <1>1, AtIs
  <2>2. L.length \in Nat
    BY <1>1, FieldsAre
  <2> QED BY <2>1, <2>2 DEF Byte
<1>3. /\ Moves(L, Sized(L, At(L, 6), next)) /\ Moves(L, Sized(L, 2 * (L.length + 1) + 3, next))
      /\ Moves(L, Go(L, next))
  BY <1>1, <1>2, SizedMoves, GoMoves
<1>4. Moves(L, Go(L, "ITALK_RECOGNIZED")) /\ Moves(L, Count(L, "ITALK_DELIVERED"))
  BY GoMoves, CountMoves, NamedReached
<1> QED BY <1>3, <1>4 DEF Italk

LEMMA GeostarStep ==
  ASSUME NEW L, Fit(L), NEW c \in Byte, L.state \in DOMAIN GeostarMoves
  PROVE  Moves(L, Geostar(L, c))
<1> PICK next : next = Row(GeostarMoves[L.state], c)
  OBVIOUS
<1>1. next \in Reached /\ "GROUND_STATE" \in Reached /\ c \in Nat /\ L.length \in Nat
  BY RowReached, GeostarLeads, GroundIsBetween, FieldsAre DEF Byte, Fit
<1>2. Moves(L, Sized(L, 4 * c, next)) /\ Moves(L, Go(L, next))
  BY <1>1, SizedMoves, GoMoves
<1>3. PICK length : length = L.length + 1024 * c
  OBVIOUS
<1>4. Moves(L, Sized(L, length, IF length <= MaxPacket THEN next ELSE "GROUND_STATE"))
  BY <1>1, <1>3, SizedMoves
<1>5. Moves(L, Count(L, "GEOSTAR_CHECKSUM_A"))
  BY CountMoves, NamedReached
<1> QED BY <1>2, <1>3, <1>4, <1>5 DEF Geostar

\* The RTCM2 decoder, and what is shown to it.
LEMMA Decodes ==
  ASSUME NEW r \in Nat, NEW c \in Byte
  PROVE  rtcm2_decode(r, c).rt \in Nat
BY DEF rtcm2_decode

LEMMA ShownMoves ==
  ASSUME NEW L, Fit(L), NEW r \in Nat, NEW s \in Reached
  PROVE  Moves(L, [L EXCEPT !.rt = r, !.state = s])
<1> PICK M : M = [L EXCEPT !.rt = r]
  OBVIOUS
<1>1. L \in Shape(Between)
  BY DEF Fit
<1>2. M \in Shape(Between) /\ Same(L, M)
  BY <1>1, CountSet
<1>3. [L EXCEPT !.rt = r, !.state = s] = Go(M, s)
  BY DEF Go
<1> QED BY <1>2, <1>3, GoAfter

LEMMA LetterStep ==
  ASSUME NEW L, Fit(L), NEW c \in Byte, NEW move, move[2] \in Reached
  PROVE  Moves(L, Letter(L, c, move))
<1> PICK try : try = rtcm2_decode(L.rt, c)
  OBVIOUS
<1>1. try.rt \in Nat
  BY Decodes, FieldsAre DEF Fit
<1> PICK s : s = CASE try.is = "ISGPS_SYNC"    -> "RTCM2_SYNC_STATE"
                   [] try.is = "ISGPS_MESSAGE" -> "RTCM2_RECOGNIZED"
                   [] OTHER                    -> move[2]
  OBVIOUS
<1>2. s \in Reached
  BY NamedReached
<1>3. Moves(L, Go(L, "GROUND_STATE")) /\ Moves(L, [L EXCEPT !.rt = try.rt, !.state = s])
  BY <1>1, <1>2, GoMoves, GroundIsBetween, ShownMoves
<1> QED BY <1>3 DEF Letter

LEMMA AstralStep ==
  ASSUME NEW L, Fit(L), NEW c \in Byte, L.state \in DOMAIN AstralMoves
  PROVE  Moves(L, Astral(L, c))
<1>1. L.state # "ASTRAL_4"
  BY FieldsAre DEF Fit, Between, Reached
<1>2. {"ASTRAL_2", "ASTRAL_3", "ASTRAL_5", "NMEA_RECOGNIZED"} \subseteq Reached
  BY DEF Reached, States, Complete, AstralMoves
<1>3. AstralMoves[L.state][2] \in Reached
  BY <1>1, <1>2 DEF AstralMoves
<1> QED BY <1>3, LetterStep DEF Astral

LEMMA EarthaStep ==
  ASSUME NEW L, Fit(L), NEW c \in Byte, L.state \in DOMAIN EarthaMoves
  PROVE  Moves(L, Eartha(L, c))
<1>1. {"EARTHA_2", "EARTHA_3", "EARTHA_4", "EARTHA_5", "NMEA_RECOGNIZED"} \subseteq Reached
  BY DEF Reached, States, Complete, EarthaMoves
<1>2. EarthaMoves[L.state][2] \in Reached
  BY <1>1 DEF EarthaMoves
<1> QED BY <1>2, LetterStep DEF Eartha

LEMMA Rtcm2Step ==
  ASSUME NEW L, Fit(L), NEW c \in Byte
  PROVE  Moves(L, Rtcm2(L, c))
<1> PICK try : try = rtcm2_decode(L.rt, c)
  OBVIOUS
<1>1. try.rt \in Nat /\ L.state \in Reached
  BY Decodes, FieldsAre, GroundIsBetween DEF Fit
<1> DEFINE locked == L.state # "RTCM2_RECOGNIZED"
<1> PICK s : s = CASE locked /\ try.is = "ISGPS_MESSAGE" -> "RTCM2_RECOGNIZED"
                   [] locked /\ try.is = "ISGPS_NO_SYNC" -> "GROUND_STATE"
                   [] ~locked -> IF try.is = "ISGPS_SYNC" THEN "RTCM2_SYNC_STATE" ELSE "GROUND_STATE"
                   [] OTHER   -> L.state
  OBVIOUS
<1>2. s \in Reached
  BY <1>1, NamedReached, GroundIsBetween
<1>3. Moves(L, [L EXCEPT !.rt = try.rt, !.state = s])
  BY <1>1, <1>2, ShownMoves
<1> QED BY <1>3 DEF Rtcm2

LEMMA GroundStep ==
  ASSUME NEW L, Fit(L), NEW c \in Byte, L.state = "GROUND_STATE"
  PROVE  Moves(L, Ground(L, c))
<1> PICK plain : plain = Row(GroundMoves, c)
  OBVIOUS
<1> PICK try : try = rtcm2_decode(L.rt, c)
  OBVIOUS
<1> PICK r : r = IF plain \in {"ASTRAL_1", "EARTHA_1", "GROUND_STATE"} THEN try.rt ELSE L.rt
  OBVIOUS
<1> PICK M : M = [L EXCEPT !.n = 0]
  OBVIOUS
<1> PICK G : G = [M EXCEPT !.rt = r]
  OBVIOUS
<1>1. L \in Shape(Between) /\ L.rt \in Nat /\ L.ptr \in Nat /\ L.ptr >= 1
  BY FieldsAre DEF Fit
<1>2. plain \in Reached
  <2> DEFINE T == {GroundMoves[i][2] : i \in DOMAIN GroundMoves}
  <2>1. T \subseteq Reached
    <3>1. {"COMMENT_BODY", "NMEA_DOLLAR", "NMEA_BANG", "AT1_LEADER", "SIRF_LEADER_1"} \subseteq Reached
      BY DEF Reached, States, NmeaMoves, SentenceMoves, SirfMoves
    <3>2. {"SUPERSTAR2_LEADER", "DLE_LEADER", "ASTRAL_1", "EARTHA_1", "ZODIAC_LEADER_1"} \subseteq Reached
      BY DEF Reached, States, Superstar2Moves, DleMoves, AstralMoves, EarthaMoves, ZodiacMoves
    <3>3. {"UBX_LEADER_1", "ITALK_LEADER_1", "NAVCOM_LEADER_1", "GEOSTAR_LEADER_1"} \subseteq Reached
      BY DEF Reached, States, UbxMoves, ItalkMoves, NavcomMoves, GeostarMoves
    <3> QED BY <3>1, <3>2, <3>3 DEF GroundMoves
  <2>2. DOMAIN GroundMoves \subseteq Nat /\ \A i \in DOMAIN GroundMoves : GroundMoves[i][2] \in T
    BY DEF GroundMoves
  <2> HIDE DEF T
  <2> QED BY <2>1, <2>2, RowIn, GroundIsBetween
<1>3. G \in Shape(Between) /\ Same(L, G)
  <2>1. r \in Nat
    BY <1>1, Decodes
  <2>2. M \in Shape(Between) /\ Same(L, M)
    BY <1>1, CountSet
  <2>4. G \in Shape(Between) /\ Same(M, G)
    BY <2>1, <2>2, CountSet
  <2> QED BY <2>2, <2>4, SameSame
<1>4. /\ \A s \in Reached : Moves(L, Go(G, s))
      /\ Moves(L, G)
  BY <1>3, GoAfter, StaysMoves
<1>5. Moves(L, character_pushback(Go(G, "JSON_LEADER")))
  <2> PICK J : J = Go(G, "JSON_LEADER")
    OBVIOUS
  <2>1. J \in Shape(Reached)
    BY <1>3, StateSet, NamedReached
  <2>2. J.mem = L.mem /\ J.len = L.len /\ J.ptr = L.ptr /\ J.state = "JSON_LEADER"
    BY <1>3, SameGo
  <2>3. Rank("JSON_LEADER") < Rank("GROUND_STATE")
    BY DEF Rank
  <2> QED BY <1>1, <2>1, <2>2, <2>3, BackAfter
<1>6. {"RTCM2_RECOGNIZED", "RTCM2_SYNC_STATE", "RTCM3_LEADER_1"} \subseteq Reached
  BY DEF Reached, States, Complete, Rtcm3Moves
<1>7. G = [L EXCEPT !.n = 0, !.rt = IF plain \in {"ASTRAL_1", "EARTHA_1", "GROUND_STATE"} THEN try.rt ELSE @]
  BY <1>1 DEF Shape
<1>8. Ground(L, c) =
        CASE plain \in {"ASTRAL_1", "EARTHA_1"} ->
               Go(G, IF try.is = "ISGPS_MESSAGE" THEN "RTCM2_RECOGNIZED" ELSE plain)
          [] plain \notin {"ASTRAL_1", "EARTHA_1", "GROUND_STATE"} -> Go(G, plain)
          [] plain = "GROUND_STATE" ->
               CASE try.is = "ISGPS_SYNC"    -> Go(G, "RTCM2_SYNC_STATE")
                 [] try.is = "ISGPS_MESSAGE" -> Go(G, "RTCM2_RECOGNIZED")
                 [] c = 211                  -> Go(G, "RTCM3_LEADER_1")
                 [] c = Code["{"]            -> character_pushback(Go(G, "JSON_LEADER"))
                 [] OTHER                    -> G
  BY <1>7 DEF Ground
<1> QED BY <1>2, <1>4, <1>5, <1>6, <1>8

LEMMA CommentStep ==
  ASSUME NEW L, Fit(L), NEW c \in Byte
  PROVE  Moves(L, Comment(L, c))
<1>1. Moves(L, Go(L, "COMMENT_RECOGNIZED"))
  BY GoMoves, NamedReached
<1>2. Moves(L, L)
  BY StaysMoves DEF Fit, Same
<1>3. Moves(L, character_pushback(Go(L, "GROUND_STATE")))
  BY BackMoves, GroundIsBetween
<1> QED BY <1>1, <1>2, <1>3 DEF Comment

\* A string is read, and what comes after it is noted.
LEMMA AfterMoves ==
  ASSUME NEW L, Fit(L), NEW a \in Afters
  PROVE  Moves(L, [L EXCEPT !.state = "JSON_STRINGLITERAL", !.after = a])
<1> PICK M : M = [L EXCEPT !.after = a]
  OBVIOUS
<1>1. M \in Shape(Between) /\ Same(L, M)
  BY AfterSet DEF Fit
<1>2. [L EXCEPT !.state = "JSON_STRINGLITERAL", !.after = a] = Go(M, "JSON_STRINGLITERAL")
  BY DEF Go, Fit, Shape
<1> QED BY <1>1, <1>2, GoAfter, NamedReached

LEMMA JsonLeaderStep ==
  ASSUME NEW L, Fit(L), NEW c \in Byte
  PROVE  Moves(L, JsonLeader(L, c))
<1>1. L \in Shape(Between) /\ L.depth + 1 \in Int /\ L.depth - 1 \in Int /\ L.state \in Reached
  BY FieldsAre, GroundIsBetween DEF Fit
<1>2. Moves(L, [L EXCEPT !.depth = @ + 1])
  <2>1. [L EXCEPT !.depth = L.depth + 1] = [L EXCEPT !.depth = @ + 1]
    OBVIOUS
  <2> QED BY <1>1, <2>1, DepthSet, StaysMoves
<1>3. Moves(L, [L EXCEPT !.depth = @ - 1, !.state = IF L.depth = 1 THEN "JSON_RECOGNIZED" ELSE @])
  <2> PICK M, s : M = [L EXCEPT !.depth = L.depth - 1] /\ s = IF L.depth = 1 THEN "JSON_RECOGNIZED" ELSE L.state
    OBVIOUS
  <2>1. M \in Shape(Between) /\ Same(L, M)
    BY <1>1, DepthSet
  <2>2. s \in Reached
    BY <1>1, NamedReached
  <2>3. [L EXCEPT !.depth = L.depth - 1, !.state = s] = Go(M, s)
    BY DEF Go
  <2>4. Moves(L, [L EXCEPT !.depth = L.depth - 1, !.state = s])
    BY <2>1, <2>2, <2>3, GoAfter
  <2>5. [L EXCEPT !.depth = @ - 1, !.state = IF L.depth = 1 THEN "JSON_RECOGNIZED" ELSE @]
          = [L EXCEPT !.depth = L.depth - 1, !.state = s]
    BY <1>1 DEF Shape
  <2> QED BY <2>4, <2>5
<1>4. Moves(L, [L EXCEPT !.state = "JSON_STRINGLITERAL", !.after = "JSON_END_ATTRIBUTE"])
  BY AfterMoves DEF Afters
<1>5. Moves(L, L) /\ Moves(L, Go(L, "GROUND_STATE"))
  BY <1>1, StaysMoves, GoMoves, GroundIsBetween DEF Same
<1> QED BY <1>2, <1>3, <1>4, <1>5 DEF JsonLeader

LEMMA JsonStringStep ==
  ASSUME NEW L, Fit(L), NEW c \in Byte
  PROVE  Moves(L, JsonString(L, c))
<1>1. L \in Shape(Between) /\ L.after \in Reached
  BY FieldsAre, NamedReached, GroundIsBetween DEF Fit, Afters
<1>2. Moves(L, Go(L, "JSON_STRINGLITERAL")) /\ Moves(L, Go(L, "JSON_STRING_SOLIDUS")) /\ Moves(L, Go(L, L.after))
  BY <1>1, GoMoves, NamedReached
<1>3. Moves(L, L)
  BY <1>1, StaysMoves DEF Same
<1> QED BY <1>2, <1>3 DEF JsonString

LEMMA JsonValueStep ==
  ASSUME NEW L, Fit(L), NEW c \in Byte,
         L.state \in {"JSON_END_ATTRIBUTE", "JSON_EXPECT_VALUE", "JSON_NUMBER", "JSON_SPECIAL", "JSON_END_VALUE"}
  PROVE  Moves(L, JsonValue(L, c))
<1>1. /\ \A s \in {"GROUND_STATE", "JSON_EXPECT_VALUE", "JSON_NUMBER", "JSON_SPECIAL", "JSON_LEADER"} : Moves(L, Go(L, s))
      /\ Moves(L, L)
  <2>1. Moves(L, L)
    BY StaysMoves DEF Fit, Same
  <2> QED BY <2>1, GoMoves, NamedReached, GroundIsBetween
<1>2. Moves(L, [L EXCEPT !.state = "JSON_STRINGLITERAL", !.after = "JSON_END_VALUE"])
  BY AfterMoves DEF Afters
<1>3. L.state \in {"JSON_EXPECT_VALUE", "JSON_END_VALUE"} => Moves(L, character_pushback(Go(L, "JSON_LEADER")))
  <2> SUFFICES ASSUME L.state \in {"JSON_EXPECT_VALUE", "JSON_END_VALUE"}
               PROVE  Moves(L, character_pushback(Go(L, "JSON_LEADER")))
    OBVIOUS
  <2>1. Rank("JSON_LEADER") < Rank(L.state)
    BY DEF Rank
  <2> QED BY <2>1, BackMoves, NamedReached
<1>4. L.state \in {"JSON_NUMBER", "JSON_SPECIAL"} => Moves(L, character_pushback(Go(L, "JSON_END_VALUE")))
  <2> SUFFICES ASSUME L.state \in {"JSON_NUMBER", "JSON_SPECIAL"}
               PROVE  Moves(L, character_pushback(Go(L, "JSON_END_VALUE")))
    OBVIOUS
  <2>1. Rank("JSON_END_VALUE") < Rank(L.state)
    BY DEF Rank
  <2> QED BY <2>1, BackMoves, NamedReached
<1>5. CASE L.state = "JSON_END_ATTRIBUTE"
  BY <1>1, <1>5 DEF JsonValue
<1>6. CASE L.state = "JSON_EXPECT_VALUE"
  BY <1>1, <1>2, <1>3, <1>6 DEF JsonValue
<1>7. CASE L.state \in {"JSON_NUMBER", "JSON_SPECIAL"}
  BY <1>1, <1>4, <1>7 DEF JsonValue
<1>8. CASE L.state = "JSON_END_VALUE"
  BY <1>1, <1>3, <1>8 DEF JsonValue
<1> QED BY <1>5, <1>6, <1>7, <1>8

-----------------------------------------------------------------------------
(* nextstate: every state that is left standing has its case. *)

LEMMA StatesAre ==
  ASSUME NEW s \in Between
  PROVE  \/ s \in {"GROUND_STATE", "COMMENT_BODY", "RTCM2_SYNC_STATE", "RTCM2_RECOGNIZED", "JSON_LEADER"}
         \/ s \in {"JSON_STRINGLITERAL", "JSON_STRING_SOLIDUS"}
         \/ s \in {"JSON_END_ATTRIBUTE", "JSON_EXPECT_VALUE", "JSON_NUMBER", "JSON_SPECIAL", "JSON_END_VALUE"}
         \/ s \in DOMAIN NmeaMoves \cup DOMAIN SentenceMoves \cup DOMAIN AckMoves
         \/ s \in DOMAIN AstralMoves \cup DOMAIN EarthaMoves
         \/ s \in DOMAIN SirfMoves \cup DOMAIN Superstar2Moves \cup DOMAIN OncoreMoves
         \/ s \in DOMAIN DleMoves \cup DOMAIN NavcomMoves \cup DOMAIN Rtcm3Moves
         \/ s \in DOMAIN ZodiacMoves \cup DOMAIN UbxMoves \cup DOMAIN EvermoreMoves
         \/ s \in DOMAIN ItalkMoves \cup DOMAIN GeostarMoves \cup DOMAIN TsipMoves
<1>1. {"NMEA_RECOGNIZED", "SIRF_RECOGNIZED", "SUPERSTAR2_RECOGNIZED", "ONCORE_RECOGNIZED"} \subseteq
        DOMAIN SentenceMoves \cup DOMAIN SirfMoves \cup DOMAIN Superstar2Moves \cup DOMAIN OncoreMoves
  BY DEF SentenceMoves, SirfMoves, Superstar2Moves, OncoreMoves
<1>2. {"TSIP_RECOGNIZED", "ZODIAC_RECOGNIZED", "UBX_RECOGNIZED", "EVERMORE_RECOGNIZED"} \subseteq
        DOMAIN TsipMoves \cup DOMAIN ZodiacMoves \cup DOMAIN UbxMoves \cup DOMAIN EvermoreMoves
  BY DEF TsipMoves, ZodiacMoves, UbxMoves, EvermoreMoves
<1>3. {"ITALK_RECOGNIZED", "NAVCOM_RECOGNIZED", "GEOSTAR_RECOGNIZED"} \subseteq
        DOMAIN ItalkMoves \cup DOMAIN NavcomMoves \cup DOMAIN GeostarMoves
  BY DEF ItalkMoves, NavcomMoves, GeostarMoves
<1>4. s \in States /\ s \notin {"COMMENT_RECOGNIZED", "RTCM3_RECOGNIZED", "GTXT_RECOGNIZED", "JSON_RECOGNIZED"}
      /\ s # "RTCM2_SKIP_STATE"
  BY DEF Between, Reached
<1>5. CASE s \in Complete
  BY <1>1, <1>2, <1>3, <1>4, <1>5 DEF Complete
<1>6. CASE s \notin Complete
  BY <1>4, <1>6 DEF States
<1> QED BY <1>5, <1>6

LEMMA NextState ==
  ASSUME NEW K, NEW c \in Byte, K \in Shape(Between), K.ptr >= 1
  PROVE  Moves(K, nextstate(K, c))
<1> PICK L : L = [K EXCEPT !.n = K.n + 1]
  OBVIOUS
<1>1. Fit(L) /\ Same(K, L) /\ L.state = K.state
  <2>1. K.n \in Nat /\ K.n + 1 \in Nat
    BY FieldsAre
  <2>2. L \in Shape(Between) /\ Same(K, L)
    BY <2>1, CountSet
  <2>3. L.n = K.n + 1
    BY DEF Shape
  <2>4. L.ptr = K.ptr /\ L.state = K.state
    BY <2>2 DEF Same
  <2>5. L.ptr >= 1 /\ L.n >= 1
    BY <2>1, <2>3, <2>4
  <2> QED BY <2>2, <2>4, <2>5 DEF Fit
<1>2. /\ K.state = "GROUND_STATE" => Moves(L, Ground(L, c))
      /\ Moves(L, Comment(L, c)) /\ Moves(L, Rtcm2(L, c))
      /\ Moves(L, JsonLeader(L, c)) /\ Moves(L, JsonString(L, c))
  BY <1>1, GroundStep, CommentStep, Rtcm2Step, JsonLeaderStep, JsonStringStep
<1>3. /\ K.state \in DOMAIN NmeaMoves => Moves(L, Binary(L, c))
      /\ K.state \in DOMAIN SentenceMoves => Moves(L, Sentence(L, c))
      /\ K.state \in DOMAIN AckMoves => Moves(L, Ack(L, c))
      /\ K.state \in DOMAIN AstralMoves => Moves(L, Astral(L, c))
      /\ K.state \in DOMAIN EarthaMoves => Moves(L, Eartha(L, c))
      /\ K.state \in DOMAIN SirfMoves => Moves(L, Sirf(L, c))
  BY <1>1, BinaryStep, SentenceStep, AckStep, AstralStep, EarthaStep, SirfStep
<1>4. /\ K.state \in DOMAIN Superstar2Moves => Moves(L, Superstar2(L, c))
      /\ K.state \in DOMAIN OncoreMoves => Moves(L, Oncore(L, c))
      /\ K.state \in DOMAIN DleMoves => Moves(L, Dle(L, c))
      /\ K.state \in DOMAIN NavcomMoves => Moves(L, Navcom(L, c))
      /\ K.state \in DOMAIN Rtcm3Moves => Moves(L, Rtcm3(L, c))
      /\ K.state \in DOMAIN ZodiacMoves => Moves(L, Zodiac(L, c))
  BY <1>1, Superstar2Step, OncoreStep, DleStep, NavcomStep, Rtcm3Step, ZodiacStep
<1>5. /\ K.state \in DOMAIN UbxMoves => Moves(L, Ubx(L, c))
      /\ K.state \in DOMAIN EvermoreMoves => Moves(L, Evermore(L, c))
      /\ K.state \in DOMAIN ItalkMoves => Moves(L, Italk(L, c))
      /\ K.state \in DOMAIN GeostarMoves => Moves(L, Geostar(L, c))
      /\ K.state \in DOMAIN TsipMoves => Moves(L, Tsip(L, c))
  BY <1>1, UbxStep, EvermoreStep, ItalkStep, GeostarStep, TsipStep
<1>6. K.state \in {"JSON_END_ATTRIBUTE", "JSON_EXPECT_VALUE", "JSON_NUMBER", "JSON_SPECIAL", "JSON_END_VALUE"}
        => Moves(L, JsonValue(L, c))
  BY <1>1, JsonValueStep
<1>7. K.state \in Between
  BY FieldsAre
<1>8. Moves(L, nextstate(K, c))
  BY <1>2, <1>3, <1>4, <1>5, <1>6, <1>7, StatesAre, SMTT(60) DEF nextstate
<1> QED BY <1>1, <1>8 DEF Moves, PointerMoves, Same

-----------------------------------------------------------------------------
(* What is done with a packet. *)

\* The bytes received are in the buffer.
Held(L) == L.len <= Len(L.mem) /\ Len(L.mem) <= Room

LEMMA RoomIs == Room \in Nat
BY PacketNumbers DEF Room

LEMMA PartOf ==
  ASSUME NEW s \in Seq(Byte), NEW i \in Nat, NEW j \in Nat, j <= Len(s)
  PROVE  /\ SubSeq(s, i + 1, j) \in Seq(Byte)
         /\ Len(SubSeq(s, i + 1, j)) = IF i < j THEN j - i ELSE 0
<1>1. Len(s) \in Nat
  OBVIOUS
<1>2. \A k \in (i + 1) .. j : s[k] \in Byte
  BY <1>1
<1>3. /\ SubSeq(s, i + 1, j) \in Seq(Byte)
      /\ Len(SubSeq(s, i + 1, j)) = IF i + 1 <= j THEN j - (i + 1) + 1 ELSE 0
  BY <1>2, SubSeqProperties
<1> QED BY <1>3

\* What packet_discard leaves of a lexer's record.
Cut(L, m, l) == [L EXCEPT !.mem = m, !.len = l, !.ptr = 0]

LEMMA ShiftSet ==
  ASSUME NEW S, NEW L \in Shape(S), NEW m \in Seq(Byte), NEW l \in Nat
  PROVE  /\ Cut(L, m, l) \in Shape(S) /\ Cut(L, m, l).mem = m /\ Cut(L, m, l).len = l
         /\ Cut(L, m, l).ptr = 0 /\ Cut(L, m, l).state = L.state
<1> DEFINE A == [L EXCEPT !.mem = m]
           B == [A EXCEPT !.len = l]
           C == [B EXCEPT !.ptr = 0]
<1>1. A \in Shape(S) /\ A.mem = m /\ A.state = L.state
  BY BufferSet
<1>2. Cut(L, m, l) = C
  BY DEF Cut
<1> HIDE DEF A
<1>3. B \in Shape(S) /\ B.mem = m /\ B.len = l /\ B.state = L.state
  BY <1>1, EndSet
<1> HIDE DEF B
<1>4. 0 \in Nat
  OBVIOUS
<1>5. C \in Shape(S) /\ C.mem = m /\ C.len = l /\ C.ptr = 0 /\ C.state = L.state
  BY SMTT(30), <1>3, <1>4, PointerSet
<1> HIDE DEF C
<1> QED BY <1>2, <1>5

\* memmove: what is kept stands before what stood behind it.
LEMMA Joined ==
  ASSUME NEW kept \in Seq(Byte), NEW mem \in Seq(Byte), Len(kept) <= Len(mem)
  PROVE  /\ kept \o SubSeq(mem, Len(kept) + 1, Len(mem)) \in Seq(Byte)
         /\ Len(kept \o SubSeq(mem, Len(kept) + 1, Len(mem))) = Len(mem)
<1> DEFINE rest == SubSeq(mem, Len(kept) + 1, Len(mem))
<1>1. Len(kept) \in Nat /\ Len(mem) \in Nat
  OBVIOUS
<1>2. rest \in Seq(Byte) /\ Len(rest) = IF Len(kept) < Len(mem) THEN Len(mem) - Len(kept) ELSE 0
  BY <1>1, PartOf
<1>3. Len(kept) + Len(rest) = Len(mem)
  BY <1>1, <1>2
<1> HIDE DEF rest
<1>4. kept \o rest \in Seq(Byte) /\ Len(kept \o rest) = Len(kept) + Len(rest)
  BY <1>2, ConcatProperties
<1>5. kept \o rest \in Seq(Byte) /\ Len(kept \o rest) = Len(mem)
  BY <1>3, <1>4
<1> QED BY <1>5 DEF rest

LEMMA Shifted ==
  ASSUME NEW S, NEW L \in Shape(S), Held(L), NEW k \in Nat
  PROVE  /\ Shift(L, k) \in Shape(S) /\ Held(Shift(L, k))
         /\ Shift(L, k).len = IF k < L.len THEN L.len - k ELSE 0
         /\ Shift(L, k).ptr = 0 /\ Shift(L, k).state = L.state
<1> DEFINE kept == SubSeq(L.mem, k + 1, L.len)
           m == kept \o SubSeq(L.mem, Len(kept) + 1, Len(L.mem))
<1>1. L.mem \in Seq(Byte) /\ L.len \in Nat
  BY FieldsAre
<1>2. L.len <= Len(L.mem) /\ Len(L.mem) <= Room
  BY DEF Held
<1>3. kept \in Seq(Byte) /\ Len(kept) = IF k < L.len THEN L.len - k ELSE 0
  BY <1>1, <1>2, PartOf
<1>4. Shift(L, k) = Cut(L, m, Len(kept))
  BY DEF Shift, Shape, Cut
<1> HIDE DEF kept
<1>5. Len(kept) \in Nat /\ Len(L.mem) \in Nat /\ Len(kept) <= Len(L.mem)
  BY <1>1, <1>2, <1>3
<1>6. m \in Seq(Byte) /\ Len(m) = Len(L.mem)
  BY <1>1, <1>3, <1>5, Joined
<1> HIDE DEF m
<1>7. /\ Shift(L, k) \in Shape(S) /\ Shift(L, k).mem = m /\ Shift(L, k).len = Len(kept)
      /\ Shift(L, k).ptr = 0 /\ Shift(L, k).state = L.state
  <2> DEFINE l == Len(kept)
  <2>1. m \in Seq(Byte) /\ l \in Nat
    BY <1>5, <1>6
  <2>2. Shift(L, k) = Cut(L, m, l)
    BY <1>4
  <2> HIDE DEF l
  <2>3. /\ Cut(L, m, l) \in Shape(S) /\ Cut(L, m, l).mem = m /\ Cut(L, m, l).len = l
        /\ Cut(L, m, l).ptr = 0 /\ Cut(L, m, l).state = L.state
    BY <2>1, ShiftSet
  <2>4. /\ Shift(L, k) \in Shape(S) /\ Shift(L, k).mem = m /\ Shift(L, k).len = l
        /\ Shift(L, k).ptr = 0 /\ Shift(L, k).state = L.state
    BY <2>2, <2>3
  <2> QED BY <2>4 DEF l
<1>8. Held(Shift(L, k))
  BY <1>2, <1>5, <1>6, <1>7 DEF Held
<1> QED BY <1>3, <1>7, <1>8

\* What packet_accept notes in it.
Noted(L, o, t) == [L EXCEPT !.out = o, !.type = t]

LEMMA NoteSet ==
  ASSUME NEW S, NEW L \in Shape(S), NEW o \in Seq(OutPacket), NEW t \in PacketTypes
  PROVE  Noted(L, o, t) \in Shape(S) /\ Same(L, Noted(L, o, t))
<1> DEFINE A == [L EXCEPT !.out = o]
           B == [A EXCEPT !.type = t]
<1>1. A \in Shape(S) /\ Same(L, A)
  BY OutSet
<1>2. Noted(L, o, t) = B
  BY DEF Noted
<1> HIDE DEF A
<1>3. B \in Shape(S) /\ Same(A, B)
  BY <1>1, TypeSet
<1> HIDE DEF B
<1>4. Same(L, B)
  BY <1>1, <1>3, SameSame
<1> QED BY <1>2, <1>3, <1>4

LEMMA Accepted ==
  ASSUME NEW S, NEW L \in Shape(S), L.ptr <= Len(L.mem), NEW type \in PacketTypes
  PROVE  packet_accept(L, type) \in Shape(S) /\ Same(L, packet_accept(L, type))
<1> DEFINE b == Packet(L)
           o == <<[type |-> type, bytes |-> b]>>
<1>1. b \in Seq(Byte)
  <2>1. L.mem \in Seq(Byte) /\ L.ptr \in Nat /\ 0 \in Nat
    BY FieldsAre
  <2>2. SubSeq(L.mem, 0 + 1, L.ptr) \in Seq(Byte)
    BY <2>1, PartOf
  <2> QED BY <2>2 DEF Packet
<1>2. packet_accept(L, type) = IF L.ptr < Room THEN Noted(L, o, type) ELSE L
  BY DEF packet_accept, Noted
<1> HIDE DEF b
<1>3. o \in Seq(OutPacket)
  <2>1. [type |-> type, bytes |-> b] \in OutPacket
    BY <1>1 DEF OutPacket
  <2> QED BY <2>1
<1> HIDE DEF o
<1>4. Noted(L, o, type) \in Shape(S) /\ Same(L, Noted(L, o, type))
  BY <1>3, NoteSet
<1>5. Same(L, L)
  BY DEF Same
<1> QED BY <1>2, <1>4, <1>5

\* Between characters, at the first of those that follow a packet.
Done(L) == L \in Shape(Between) /\ Held(L) /\ L.ptr = 0

LEMMA Discarded ==
  ASSUME NEW L, NEW M \in Shape(Between), Held(L), M.mem = L.mem, M.len = L.len, M.ptr = L.ptr
  PROVE  Done(packet_discard(M))
<1>1. Held(M) /\ M.ptr \in Nat
  BY FieldsAre DEF Held
<1> QED BY <1>1, Shifted DEF Done, packet_discard

LEMMA TypesAre == {"BAD_PACKET", "GARMINTXT_PACKET", "JSON_PACKET"} \subseteq PacketTypes
BY DEF PacketTypes

LEMMA Judged ==
  ASSUME NEW S, NEW L \in Shape(S), Held(L), L.ptr <= L.len,
         NEW good, NEW type \in PacketTypes, NEW next \in Between
  PROVE  Done(Verdict(L, good, type, next))
<1>1. L.ptr <= Len(L.mem) /\ "BAD_PACKET" \in PacketTypes
  <2>1. L.ptr \in Nat /\ L.len \in Nat /\ L.mem \in Seq(Byte)
    BY FieldsAre
  <2>2. Len(L.mem) \in Nat /\ L.len <= Len(L.mem)
    BY <2>1 DEF Held
  <2>3. "BAD_PACKET" \in PacketTypes
    BY DEF PacketTypes
  <2> QED BY <2>1, <2>2, <2>3
<1>2. ASSUME NEW s \in Between, NEW t \in PacketTypes
      PROVE  Done(packet_discard(packet_accept(Go(L, s), t)))
  <2> DEFINE G == Go(L, s)
             M == packet_accept(G, t)
  <2>1. G \in Shape(Between) /\ G.mem = L.mem /\ G.len = L.len /\ G.ptr = L.ptr
    <3> HIDE DEF Held, G, M
    <3>1. Go(L, s) \in Shape(Between)
      BY StateSet
    <3>2. Go(L, s).mem = L.mem /\ Go(L, s).len = L.len /\ Go(L, s).ptr = L.ptr
      BY StateIs
    <3> QED BY <3>1, <3>2 DEF G
  <2> HIDE DEF G
  <2>2. M \in Shape(Between) /\ Same(G, M)
    BY <1>1, <2>1, Accepted
  <2> HIDE DEF M
  <2>3. M.mem = L.mem /\ M.len = L.len /\ M.ptr = L.ptr
    BY <2>1, <2>2 DEF Same
  <2>4. Done(packet_discard(M))
    BY <2>2, <2>3, Discarded
  <2> QED BY <2>4 DEF M, G
<1>3. CASE good
  BY <1>2, <1>3 DEF Verdict
<1>4. CASE ~good
  BY <1>1, <1>2, <1>4, GroundIsBetween DEF Verdict
<1> QED BY <1>3, <1>4

\* A packet that turns out to be none: its bytes stay, and the parse goes on.
NoPacket(L, M) == M \in Shape(Between) /\ Same(Go(L, "GROUND_STATE"), M)

LEMMA TsipJudged ==
  ASSUME NEW L \in Shape(Reached), Held(L), L.ptr <= L.len, L.state \in Between
  PROVE  Done(TsipVerdict(L)) \/ NoPacket(L, TsipVerdict(L))
<1>1. \A good : \A type \in PacketTypes : Done(Verdict(L, good, type, L.state))
  BY Judged
<1>2. NoPacket(L, Go(L, "GROUND_STATE"))
  BY StateSet, GroundIsBetween DEF NoPacket, Same
<1>3. {"GARMIN_PACKET", "TSIP_PACKET"} \subseteq PacketTypes
  BY DEF PacketTypes
<1>4. \A good : Done(Verdict(L, good, "GARMIN_PACKET", L.state)) /\ Done(Verdict(L, good, "TSIP_PACKET", L.state))
  BY <1>1, <1>3
<1>5. ASSUME NEW b, NEW length, TsipVerdict(L) = CASE length < 5 -> Go(L, "GROUND_STATE")
        [] length >= 5 /\ L.type # "TSIP_PACKET" /\ GarminOk(L) -> Verdict(L, TRUE, "GARMIN_PACKET", L.state)
        [] OTHER -> Verdict(L, TsipOk(b, length), "TSIP_PACKET", L.state)
      PROVE  Done(TsipVerdict(L)) \/ NoPacket(L, TsipVerdict(L))
  <2>1. \/ TsipVerdict(L) = Go(L, "GROUND_STATE") \/ TsipVerdict(L) = Verdict(L, TRUE, "GARMIN_PACKET", L.state)
        \/ TsipVerdict(L) = Verdict(L, TsipOk(b, length), "TSIP_PACKET", L.state)
    BY <1>5, Zenon
  <2> QED BY <1>2, <1>4, <2>1
<1> QED BY <1>5 DEF TsipVerdict

LEMMA GtxtJudged ==
  ASSUME NEW L \in Shape(Reached), Held(L), L.ptr <= L.len
  PROVE  Done(GtxtVerdict(L)) \/ NoPacket(L, GtxtVerdict(L))
<1> DEFINE G == Go(L, "GROUND_STATE")
           M == packet_accept(G, "BAD_PACKET")
<1>1. Done(Verdict(L, TRUE, "GARMINTXT_PACKET", "GROUND_STATE"))
  BY Judged, GroundIsBetween, TypesAre
<1>2. G \in Shape(Between) /\ G.mem = L.mem /\ G.ptr = L.ptr
  BY StateSet, GroundIsBetween
<1>3. G.ptr <= Len(G.mem)
  <2>1. L.ptr \in Nat /\ L.len \in Nat /\ L.mem \in Seq(Byte)
    BY FieldsAre
  <2>2. Len(L.mem) \in Nat /\ L.len <= Len(L.mem)
    BY <2>1 DEF Held
  <2> QED BY <1>2, <2>1, <2>2
<1> HIDE DEF G
<1>4. M \in Shape(Between) /\ Same(G, M)
  BY <1>2, <1>3, Accepted, TypesAre
<1> HIDE DEF M
<1>5. NoPacket(L, M)
  BY <1>4 DEF NoPacket, G
<1> QED BY <1>1, <1>5 DEF GtxtVerdict, M, G

LEMMA CompleteIs ==
  /\ Complete \ {"COMMENT_RECOGNIZED", "RTCM3_RECOGNIZED", "GTXT_RECOGNIZED", "JSON_RECOGNIZED"} \subseteq Between
  /\ "RTCM2_SYNC_STATE" \in Between
<1>1. Complete \cup {"RTCM2_SYNC_STATE"} \subseteq Reached
  BY DEF Complete, Reached, States
<1> QED BY <1>1 DEF Between

\* What becomes of a packet whose characters are complete.
LEMMA RecognizedIs ==
  ASSUME NEW L \in Shape(Reached), Held(L), L.ptr <= L.len, L.state \in Complete
  PROVE  \/ Done(Recognized(L))
         \/ L.state \in {"TSIP_RECOGNIZED", "GTXT_RECOGNIZED"} /\ NoPacket(L, Recognized(L))
<1>1. \A good : \A type \in PacketTypes : \A next \in Between : Done(Verdict(L, good, type, next))
  BY Judged
<1>2. L.state \in Between \/ L.state \in {"COMMENT_RECOGNIZED", "RTCM3_RECOGNIZED", "GTXT_RECOGNIZED", "JSON_RECOGNIZED"}
  BY CompleteIs
<1>3. {"GROUND_STATE", "RTCM2_SYNC_STATE"} \subseteq Between
  BY CompleteIs, GroundIsBetween
<1>4. CASE L.state = "TSIP_RECOGNIZED"
  BY <1>2, <1>4, TsipJudged DEF Recognized
<1>5. CASE L.state = "GTXT_RECOGNIZED"
  BY <1>5, GtxtJudged DEF Recognized
<1>6. CASE L.state = "JSON_RECOGNIZED"
  <2> DEFINE G == Go(L, "GROUND_STATE")
  <2>1. G \in Shape(Between) /\ G.mem = L.mem /\ G.len = L.len /\ G.ptr = L.ptr
    BY StateSet, GroundIsBetween
  <2>2. Held(G) /\ G.ptr <= G.len
    BY <2>1 DEF Held
  <2>3. Recognized(L) = Verdict(G, L.ptr >= 11, "JSON_PACKET", "GROUND_STATE")
    BY <1>6 DEF Recognized
  <2> HIDE DEF G
  <2>4. Done(Verdict(G, L.ptr >= 11, "JSON_PACKET", "GROUND_STATE"))
    BY <2>1, <2>2, <1>3, Judged, TypesAre
  <2> QED BY <2>3, <2>4
<1>7. CASE L.state \in {"COMMENT_RECOGNIZED", "RTCM3_RECOGNIZED", "RTCM2_RECOGNIZED"}
  <2>1. {"COMMENT_PACKET", "RTCM3_PACKET", "RTCM2_PACKET"} \subseteq PacketTypes
    BY DEF PacketTypes
  <2> QED BY <1>1, <1>3, <1>7, <2>1 DEF Recognized
<1>8. CASE L.state = "NMEA_RECOGNIZED"
  <2>1. {"AIVDM_PACKET", "NMEA_PACKET"} \subseteq PacketTypes /\ L.state \in Between
    BY <1>2, <1>8 DEF PacketTypes
  <2>2. Done(NmeaVerdict(L))
    BY <1>1, <1>8, <2>1 DEF NmeaVerdict
  <2> QED BY <1>8, <2>2 DEF Recognized
<1>9. CASE L.state \in {"SIRF_RECOGNIZED", "SUPERSTAR2_RECOGNIZED", "ONCORE_RECOGNIZED", "ZODIAC_RECOGNIZED",
                        "UBX_RECOGNIZED"}
  <2>1. {"SIRF_PACKET", "SUPERSTAR2_PACKET", "ONCORE_PACKET", "ZODIAC_PACKET", "UBX_PACKET"} \subseteq PacketTypes
    BY DEF PacketTypes
  <2>2. L.state \in Between
    BY <1>2, <1>9
  <2> QED BY <1>1, <1>9, <2>1, <2>2 DEF Recognized
<1>10. CASE L.state \in {"EVERMORE_RECOGNIZED", "ITALK_RECOGNIZED", "NAVCOM_RECOGNIZED", "GEOSTAR_RECOGNIZED"}
  <2>1. {"EVERMORE_PACKET", "ITALK_PACKET", "NAVCOM_PACKET", "GEOSTAR_PACKET"} \subseteq PacketTypes
    BY DEF PacketTypes
  <2>2. L.state \in Between
    BY <1>2, <1>10
  <2> QED BY <1>1, <1>10, <2>1, <2>2 DEF Recognized
<1> QED BY <1>4, <1>5, <1>6, <1>7, <1>8, <1>9, <1>10 DEF Complete

-----------------------------------------------------------------------------
(* One turn of the loop of packet_parse. *)

\* As much as there is left to do: more for a byte in the buffer than for all looks at it.
Weight == 3 * Room + 3
Measure(L) == L.len * Weight + 3 * (L.len - L.ptr) + Rank(L.state)

LEMMA LookedIs ==
  ASSUME NEW L, Kept(L), L.ptr < L.len
  PROVE  /\ Looked(L) \in Shape(Reached) /\ Looked(L).mem = L.mem /\ Looked(L).len = L.len
         /\ \/ Looked(L).ptr = L.ptr + 1
            \/ /\ Looked(L).ptr = L.ptr
               /\ \/ Looked(L).state \in {"GROUND_STATE", "NMEA_RECOGNIZED"}
                  \/ Rank(Looked(L).state) < Rank(L.state)
            \/ Looked(L).ptr >= L.ptr + 1 /\ Looked(L).state = "NMEA_DOLLAR"
<1> DEFINE P == [L EXCEPT !.ptr = L.ptr + 1]
           c == At(L, L.ptr)
<1>1. L \in Shape(Between)
  BY DEF Kept
<1>2. L.ptr \in Nat /\ L.mem \in Seq(Byte) /\ L.ptr + 1 \in Nat
  BY <1>1, FieldsAre
<1>3. P \in Shape(Between) /\ P.ptr = L.ptr + 1 /\ P.mem = L.mem /\ P.len = L.len /\ P.state = L.state
  BY <1>1, <1>2, PointerSet
<1>4. c \in Byte
  <2>1. CASE L.ptr < Len(L.mem)
    <3>1. L.ptr + 1 \in 1 .. Len(L.mem)
      BY <1>2, <2>1
    <3>2. L.mem[L.ptr + 1] \in Byte
      BY <1>2, <3>1
    <3> QED BY <2>1, <3>2 DEF At
  <2>2. CASE ~(L.ptr < Len(L.mem))
    BY <2>2 DEF At, Byte
  <2> QED BY <2>1, <2>2
<1>5. Looked(L) = nextstate(P, c)
  BY <1>1 DEF Looked, Shape
<1> HIDE DEF P, c
<1>6. P.ptr >= 1
  BY <1>2, <1>3
<1>7. Moves(P, nextstate(P, c))
  BY <1>3, <1>4, <1>6, NextState
<1>8. Moves(P, Looked(L))
  BY <1>5, <1>7
<1>9. Looked(L) \in Shape(Reached) /\ Looked(L).mem = P.mem /\ Looked(L).len = P.len
  BY <1>8 DEF Moves
<1>11. PointerMoves(P, Looked(L))
  BY <1>8 DEF Moves
<1>12. P.ptr - 1 = L.ptr
  <2>1. P.ptr = L.ptr + 1 /\ L.ptr \in Nat
    BY <1>2, <1>3
  <2> QED BY <2>1
<1>13. \/ Looked(L).ptr = P.ptr
       \/ /\ Looked(L).ptr = P.ptr - 1
          /\ \/ Looked(L).state \in {"GROUND_STATE", "NMEA_RECOGNIZED"}
             \/ Rank(Looked(L).state) < Rank(P.state)
       \/ Looked(L).ptr >= P.ptr /\ Looked(L).state = "NMEA_DOLLAR"
  BY <1>11 DEF PointerMoves
<1>14. P.ptr = L.ptr + 1 /\ P.state = L.state /\ P.mem = L.mem /\ P.len = L.len
  BY <1>3
<1> HIDE DEF P
<1> QED BY <1>9, <1>12, <1>13, <1>14

LEMMA ReachedIs == Reached \ Complete \subseteq Between
BY DEF Between, Complete

\* A packet that ends the loop, or one that was none.
LEMMA SeenIs ==
  ASSUME NEW K \in Shape(Reached), Held(K), K.ptr <= K.len \/ K.state = "NMEA_DOLLAR"
  PROVE  /\ K.state = "GROUND_STATE" =>
              /\ Done(Seen(K)) /\ Seen(K).state = "GROUND_STATE"
              /\ Seen(K).len = IF 1 < K.len THEN K.len - 1 ELSE 0
         /\ K.state \in Complete =>
              \/ Done(Seen(K))
              \/ K.state \in {"TSIP_RECOGNIZED", "GTXT_RECOGNIZED"} /\ NoPacket(K, Seen(K))
         /\ K.state \notin Complete \cup {"GROUND_STATE"} => Seen(K) = K /\ K \in Shape(Between)
<1>1. "GROUND_STATE" \notin Complete /\ "NMEA_DOLLAR" \notin Complete
  BY DEF Complete
<1>2. ASSUME K.state = "GROUND_STATE"
      PROVE  /\ Done(Seen(K)) /\ Seen(K).state = "GROUND_STATE"
             /\ Seen(K).len = IF 1 < K.len THEN K.len - 1 ELSE 0
  <2> DEFINE M == Shift(K, 1)
  <2>1. Seen(K) = M
    BY <1>1, <1>2 DEF Seen, character_discard
  <2>2. K \in Shape({"GROUND_STATE"})
    BY <1>2 DEF Shape
  <2>3. /\ M \in Shape({"GROUND_STATE"}) /\ Held(M) /\ M.ptr = 0 /\ M.state = K.state
        /\ M.len = IF 1 < K.len THEN K.len - 1 ELSE 0
    BY <2>2, Shifted
  <2> HIDE DEF M
  <2>4. M \in Shape(Between)
    BY <2>3, GroundIsBetween DEF Shape
  <2>5. Done(M)
    BY <2>3, <2>4 DEF Done
  <2>6. Done(Seen(K)) /\ Seen(K).state = K.state /\ Seen(K).len = IF 1 < K.len THEN K.len - 1 ELSE 0
    BY <2>1, <2>3, <2>5
  <2> QED BY <1>2, <2>6
<1>3. ASSUME K.state \in Complete
      PROVE  \/ Done(Seen(K))
             \/ K.state \in {"TSIP_RECOGNIZED", "GTXT_RECOGNIZED"} /\ NoPacket(K, Seen(K))
  <2>1. Seen(K) = Recognized(K) /\ K.ptr <= K.len
    BY <1>1, <1>3 DEF Seen
  <2> QED BY <1>3, <2>1, RecognizedIs
<1>4. ASSUME K.state \notin Complete \cup {"GROUND_STATE"}
      PROVE  Seen(K) = K /\ K \in Shape(Between)
  <2>1. Seen(K) = K
    BY <1>4 DEF Seen
  <2>2. K.state \in Between
    <3>1. K.state \in Reached
      BY FieldsAre
    <3> QED BY <1>4, <3>1, ReachedIs
  <2>3. K \in Shape(Between)
    BY <2>2 DEF Shape
  <2> QED BY <2>1, <2>3
<1> QED BY <1>2, <1>3, <1>4

LEMMA DoneIsKept ==
  ASSUME NEW L, Done(L)
  PROVE  Kept(L)
<1>1. L \in Shape(Between) /\ L.ptr = 0 /\ L.len \in Nat
  BY FieldsAre DEF Done
<1>2. ~(L.ptr > L.len)
  BY <1>1
<1> QED BY <1>1, <1>2 DEF Done, Held, Kept

LEMMA Rest ==
  ASSUME NEW L \in Shape(Reached), Held(L), NEW M, NoPacket(L, M), L.ptr <= L.len
  PROVE  /\ Kept(M) /\ M.len = L.len /\ M.ptr = L.ptr /\ M.state = "GROUND_STATE"
         /\ M.ptr <= 0 => Done(M)
<1>1. M \in Shape(Between)
  BY DEF NoPacket
<1>2. M.len = L.len /\ M.ptr = L.ptr /\ M.mem = L.mem /\ M.state = "GROUND_STATE"
  BY StateIs DEF NoPacket, Same
<1>3. L.ptr \in Nat /\ L.len \in Nat
  BY FieldsAre
<1>4. ~(M.ptr > M.len)
  BY <1>2, <1>3
<1>5. Held(M)
  BY <1>2 DEF Held
<1>6. M.ptr <= 0 => M.ptr = 0
  BY <1>2, <1>3
<1> QED BY <1>1, <1>2, <1>4, <1>5, <1>6 DEF Kept, Held, Done

\* One byte less in the buffer leaves less to do, however many of the rest are looked at again.
LEMMA LessByOne ==
  ASSUME NEW l \in Nat, NEW W \in Nat, l >= 1
  PROVE  (l - 1) * W = l * W - W
<1>1. l - 1 \in Nat /\ (l - 1) + 1 = l
  OBVIOUS
<1>2. ((l - 1) + 1) * W = (l - 1) * W + W
  BY <1>1, SMTT(20)
<1> QED BY <1>1, <1>2

LEMMA RankIs == \A s : Rank(s) \in 0 .. 2
BY DEF Rank

LEMMA MeasureIs ==
  ASSUME NEW L, Kept(L)
  PROVE  Measure(L) \in Int /\ (L.ptr < L.len => Measure(L) <= Room * Weight + 3 * Room + 2)
<1>1. L.len \in Nat /\ L.ptr \in Nat /\ L.mem \in Seq(Byte)
  BY FieldsAre DEF Kept
<1>2. L.len <= Room
  BY <1>1, RoomIs DEF Kept
<1>3. Rank(L.state) \in 0 .. 2 /\ Weight \in Nat
  BY RankIs, RoomIs DEF Weight
<1>4. L.len * Weight \in Nat /\ Room * Weight \in Nat
  BY <1>1, <1>3, RoomIs, SMTT(20)
<1>5. L.len * Weight <= Room * Weight
  BY <1>1, <1>2, <1>3, RoomIs, SMTT(20)
<1> PICK a \in Nat : a = L.len * Weight
  BY <1>4
<1> PICK b \in Nat : b = Room * Weight
  BY <1>4
<1>6. a <= b
  BY <1>5
<1>7. Measure(L) = a + 3 * (L.len - L.ptr) + Rank(L.state)
  BY DEF Measure
<1>8. a + 3 * (L.len - L.ptr) + Rank(L.state) <= b + 3 * Room + 2
  <2>1. \A x, y, R \in Nat : \A r \in 0 .. 2 :
          x <= R => a + 3 * (x - y) + r <= b + 3 * R + 2
    BY <1>6
  <2> QED BY <1>1, <1>2, <1>3, <2>1, RoomIs
<1>9. a + 3 * (L.len - L.ptr) + Rank(L.state) \in Int
  BY SMTT(30), <1>1, <1>3
<1> QED BY <1>7, <1>8, <1>9

\* Every turn leaves less to do, or is the last.
LEMMA TurnIs ==
  ASSUME NEW L, Kept(L), L.ptr < L.len, NEW M, M = Seen(Looked(L))
  PROVE  /\ Returns(Looked(L)) => Done(M)
         /\ ~Returns(Looked(L)) => Kept(M) /\ (M.ptr < M.len => Measure(M) < Measure(L))
<1> DEFINE K == Looked(L)
<1>1. /\ L \in Shape(Between) /\ L.len \in Nat /\ L.ptr \in Nat /\ L.len <= Room /\ Held(L)
  <2>1. L \in Shape(Between) /\ Held(L)
    BY DEF Kept, Held
  <2>2. L.len \in Nat /\ L.ptr \in Nat /\ L.mem \in Seq(Byte)
    BY <2>1, FieldsAre
  <2>3. Len(L.mem) \in Nat /\ L.len <= Len(L.mem) /\ Len(L.mem) <= Room
    BY <2>1, <2>2 DEF Held
  <2> QED BY <2>1, <2>2, <2>3, RoomIs
<1>2. /\ K \in Shape(Reached) /\ K.mem = L.mem /\ K.len = L.len
      /\ \/ K.ptr = L.ptr + 1
         \/ /\ K.ptr = L.ptr
            /\ K.state \in {"GROUND_STATE", "NMEA_RECOGNIZED"} \/ Rank(K.state) < Rank(L.state)
         \/ K.ptr >= L.ptr + 1 /\ K.state = "NMEA_DOLLAR"
  BY LookedIs
<1> HIDE DEF K
<1>3. M = Seen(K) /\ (Returns(K) <=> K.state \in Complete /\ M.ptr <= 0)
  BY DEF Returns, K
<1>4. Held(K) /\ (K.ptr <= K.len \/ K.state = "NMEA_DOLLAR") /\ K.ptr \in Nat
  <2>1. K.ptr \in Nat
    BY <1>2, FieldsAre
  <2>2. K.ptr <= K.len \/ K.state = "NMEA_DOLLAR"
    BY <1>1, <1>2
  <2>3. Held(K)
    BY <1>1, <1>2 DEF Held
  <2> QED BY <2>1, <2>2, <2>3
<1>5. /\ K.state = "GROUND_STATE" =>
           Done(M) /\ M.state = "GROUND_STATE" /\ M.len = IF 1 < K.len THEN K.len - 1 ELSE 0
      /\ K.state \in Complete =>
           Done(M) \/ (K.state \in {"TSIP_RECOGNIZED", "GTXT_RECOGNIZED"} /\ NoPacket(K, M))
      /\ K.state \notin Complete \cup {"GROUND_STATE"} => M = K /\ K \in Shape(Between)
  BY <1>2, <1>3, <1>4, SeenIs
<1>6. "GROUND_STATE" \notin Complete /\ "NMEA_DOLLAR" \notin Complete /\ "NMEA_RECOGNIZED" \in Complete
  BY DEF Complete
<1>7. Weight \in Nat /\ L.len * Weight \in Nat /\ 3 * Room < Weight
  <2>1. Weight \in Nat /\ 3 * Room < Weight
    BY RoomIs DEF Weight
  <2> QED BY <1>1, <2>1, SMTT(20)
<1>8. CASE K.state = "GROUND_STATE"
  <2>1. Kept(M) /\ ~Returns(K)
    BY <1>3, <1>5, <1>6, <1>8, DoneIsKept
  <2>2. M.ptr = 0 /\ M.state = "GROUND_STATE" /\ M.len = L.len - 1
    BY <1>1, <1>2, <1>5, <1>8 DEF Done
  <2>3. (L.len - 1) * Weight = L.len * Weight - Weight
    BY <1>1, <1>7, LessByOne
  <2>4. Measure(M) = (L.len * Weight - Weight) + 3 * ((L.len - 1) - 0) + Rank(M.state)
    BY <2>2, <2>3 DEF Measure
  <2>5. PICK w \in Nat : w = L.len * Weight
    BY <1>7
  <2>6. Rank(M.state) \in 0 .. 2 /\ Rank(L.state) \in 0 .. 2
    BY RankIs
  <2>7. Measure(M) < w
    BY <1>1, <1>7, <2>4, <2>5, <2>6, RoomIs DEF Weight
  <2>8. w <= Measure(L)
    BY <1>1, <2>5, <2>6 DEF Measure
  <2>9. Measure(M) < Measure(L)
    <3>1. Measure(M) \in Int /\ Measure(L) \in Int
      BY <1>1, <1>7, <2>4, <2>5, <2>6 DEF Measure
    <3> QED BY <2>7, <2>8, <3>1
  <2> QED BY <2>1, <2>9 DEF K
<1>9. CASE K.state \in Complete
  <2>1. CASE Done(M)
    <3>1. M.ptr = 0
      BY <2>1 DEF Done
    <3> QED BY <1>3, <1>9, <2>1, <3>1 DEF K
  <2>2. CASE K.state \in {"TSIP_RECOGNIZED", "GTXT_RECOGNIZED"} /\ NoPacket(K, M)
    <3>1. Rank(K.state) = 2 /\ K.state \notin {"GROUND_STATE", "NMEA_RECOGNIZED", "NMEA_DOLLAR"}
      BY <2>2 DEF Rank
    <3>2. K.ptr = L.ptr + 1
      BY <1>2, <3>1, RankIs
    <3>3. K \in Shape(Reached) /\ Held(K) /\ K.ptr <= K.len
      BY <1>2, <1>4, <3>1
    <3>4. Kept(M) /\ M.len = K.len /\ M.ptr = K.ptr /\ M.state = "GROUND_STATE" /\ (M.ptr <= 0 => Done(M))
      BY <2>2, <3>3, Rest
    <3>5. Rank(M.state) = 1
      BY <3>4 DEF Rank
    <3>6. Measure(M) = L.len * Weight + 3 * (L.len - (L.ptr + 1)) + 1
      BY <1>2, <3>2, <3>4, <3>5 DEF Measure
    <3>7. Measure(M) < Measure(L)
      <4>1. Rank(L.state) \in 0 .. 2
        BY RankIs
      <4> QED BY <1>1, <1>7, <3>6, <4>1 DEF Measure
    <3> QED BY <1>3, <3>4, <3>7 DEF K
  <2> QED BY <1>5, <1>9, <2>1, <2>2
<1>10. CASE K.state \notin Complete \cup {"GROUND_STATE"}
  <2>1. M = K /\ K \in Shape(Between) /\ ~Returns(K)
    BY <1>3, <1>5, <1>10
  <2>2. Kept(M)
    <3>1. K.ptr > K.len => K.state = "NMEA_DOLLAR"
      BY <1>1, <1>2, <1>4
    <3> QED BY <1>4, <2>1, <3>1 DEF Kept, Held
  <2>3. ASSUME M.ptr < M.len PROVE Measure(M) < Measure(L)
    <3>1. Rank(L.state) \in 0 .. 2 /\ Rank(K.state) \in 0 .. 2
      BY RankIs
    <3>2. Measure(M) = L.len * Weight + 3 * (L.len - K.ptr) + Rank(K.state)
      BY <1>2, <2>1 DEF Measure
    <3>3. K.ptr >= L.ptr + 1 \/ (K.ptr = L.ptr /\ Rank(K.state) < Rank(L.state))
      BY <1>1, <1>2, <1>6, <1>10
    <3> QED BY <1>1, <1>4, <1>7, <3>1, <3>2, <3>3 DEF Measure
  <2> QED BY <2>1, <2>2, <2>3 DEF K
<1> QED BY <1>8, <1>9, <1>10

-----------------------------------------------------------------------------
(* packet_parse: Parsed is the function its equation says, and ends. *)

LEMMA IsLexer ==
  ASSUME NEW L \in Shape(Between)
  PROVE  L \in Lexer
<1>1. Between \subseteq States /\ Afters \subseteq States
  <2>1. {"JSON_END_ATTRIBUTE", "JSON_END_VALUE"} \subseteq States
    BY DEF States
  <2> QED BY <2>1, GroundIsBetween DEF Between, Reached, Afters
<1>2. Seq(Byte) \subseteq Seq(Int)
  <2>1. Byte \subseteq Int
    BY DEF Byte
  <2> QED BY <2>1, SeqMonotonic
<1>3. Seq(OutPacket) \subseteq Seq([type : PacketTypes, bytes : Seq(Int)])
  <2>1. OutPacket \subseteq [type : PacketTypes, bytes : Seq(Int)]
    BY <1>2 DEF OutPacket
  <2> QED BY <2>1, SeqMonotonic
<1>4. 0 .. SizeMax - 1 \subseteq Int /\ Nat \subseteq Int /\ Byte \subseteq Int
  BY DEF Byte
<1> DEFINE Outs == Seq([type : PacketTypes, bytes : Seq(Int)])
           Ours == Seq(OutPacket)
           Bytes == Seq(Byte)
           Ints == Seq(Int)
<1>5. Ours \subseteq Outs /\ Bytes \subseteq Ints
  BY <1>2, <1>3
<1>6. Shape(Between) = [state : Between, length : 0 .. SizeMax - 1, mem : Bytes, len : Nat, ptr : Nat, depth : Int,
             after : Afters, type : PacketTypes, out : Ours, rt : Nat, n : Nat, ctmp : Byte]
  BY DEF Shape
<1>7. Lexer = [state : States, length : Int, mem : Ints, len : Int, ptr : Int, depth : Int,
               after : States, type : PacketTypes, out : Outs, rt : Int, n : Int, ctmp : Int]
  BY DEF Lexer
<1> HIDE DEF Outs, Ours, Bytes, Ints
<1>8. /\ L.state \in States /\ L.length \in Int /\ L.mem \in Ints /\ L.len \in Int /\ L.ptr \in Int
      /\ L.depth \in Int /\ L.after \in States /\ L.type \in PacketTypes /\ L.out \in Outs
      /\ L.rt \in Int /\ L.n \in Int /\ L.ctmp \in Int
  BY <1>1, <1>4, <1>5, FieldsAre DEF Bytes, Ours
<1> QED BY <1>6, <1>7, <1>8, SMTT(30)

Turned(g, k) ==
  [L \in Lexer |-> IF k = 0 \/ Buffered(L) <= 0 THEN L
                   ELSE IF Returns(Looked(L)) THEN Seen(Looked(L))
                   ELSE g[Seen(Looked(L))]]
Parses(f, m) == f = [k \in 0 .. m |-> Turned(f[k - 1], k)]

LEMMA NoTurn == ASSUME NEW g, NEW h PROVE Turned(g, 0) = Turned(h, 0)
<1>1. \A e : Turned(e, 0) = [L \in Lexer |-> L]
  BY DEF Turned
<1> QED BY <1>1

LEMMA ParsedExists ==
  ASSUME NEW m \in Nat
  PROVE  \E f : Parses(f, m)
<1> DEFINE T == {k \in Nat : ~ \E f : Parses(f, k)}
<1> SUFFICES ASSUME T # {} PROVE FALSE
  OBVIOUS
<1>1. PICK k \in T : \A j \in T : k <= j
  BY HasLeast
<1>2. CASE k = 0
  <2>1. PICK f : f = [j \in 0 .. 0 |-> Turned(<<>>, j)]
    OBVIOUS
  <2>2. \A j \in 0 .. 0 : Turned(<<>>, j) = Turned(f[j - 1], j)
    BY NoTurn
  <2>3. Parses(f, 0)
    BY <2>1, <2>2 DEF Parses
  <2> QED BY <1>2, <2>3
<1>3. CASE k # 0
  <2>1. k \in Nat /\ k - 1 \in Nat /\ k - 1 \notin T
    BY <1>1, <1>3
  <2>2. PICK f : Parses(f, k - 1)
    BY <2>1
  <2>3. PICK g : g = [j \in 0 .. k |-> Turned(f[j - 1], j)]
    OBVIOUS
  <2>4. \A j \in 0 .. (k - 1) : g[j] = f[j]
    <3>1. SUFFICES ASSUME NEW j \in 0 .. (k - 1) PROVE g[j] = f[j]
      OBVIOUS
    <3>2. j \in 0 .. k
      BY <2>1
    <3>3. g[j] = Turned(f[j - 1], j)
      BY <2>3, <3>2
    <3>4. f[j] = Turned(f[j - 1], j)
      BY <2>2 DEF Parses
    <3> QED BY <3>3, <3>4
  <2>5. \A j \in 0 .. k : Turned(f[j - 1], j) = Turned(g[j - 1], j)
    <3>1. SUFFICES ASSUME NEW j \in 0 .. k PROVE Turned(f[j - 1], j) = Turned(g[j - 1], j)
      OBVIOUS
    <3>2. CASE j = 0
      BY <3>2, NoTurn
    <3>3. CASE j # 0
      <4>1. j - 1 \in 0 .. (k - 1)
        BY <2>1, <3>3
      <4> QED BY <2>4, <4>1
    <3> QED BY <3>2, <3>3
  <2>6. Parses(g, k)
    BY <2>3, <2>5 DEF Parses
  <2> QED BY <1>1, <2>6
<1> QED BY <1>2, <1>3

LEMMA LooksIs == Looks \in Nat /\ Room * Weight + 3 * Room + 2 <= Looks
<1> PICK R \in Nat : R = Room
  BY RoomIs
<1>1. 3 * (R + 1) * (R + 1) \in Nat /\ R * (3 * R + 3) + 3 * R + 2 <= 3 * (R + 1) * (R + 1)
  BY SMTT(20)
<1> QED BY <1>1 DEF Looks, Weight

LEMMA ParsedIs ==
  ASSUME NEW k \in 0 .. Looks, NEW L \in Lexer
  PROVE  Parsed[k][L] = IF k = 0 \/ Buffered(L) <= 0 THEN L
                        ELSE IF Returns(Looked(L)) THEN Seen(Looked(L))
                        ELSE Parsed[k - 1][Seen(Looked(L))]
<1>1. \E f : Parses(f, Looks)
  BY ParsedExists, LooksIs
<1>2. Parsed = CHOOSE f : Parses(f, Looks)
  BY DEF Parsed, Parses, Turned
<1>3. Parses(Parsed, Looks)
  BY <1>1, <1>2
<1>4. Parsed[k] = Turned(Parsed[k - 1], k)
  BY <1>3 DEF Parses
<1> QED BY <1>4 DEF Turned

\* What the parse comes to.
Ended(L) == Kept(L) /\ (L.ptr < L.len => L.ptr = 0)

LEMMA ParseIsEnded ==
  ASSUME NEW k \in 0 .. Looks, NEW L, Kept(L), L.ptr < L.len => Measure(L) <= k
  PROVE  Ended(Parsed[k][L])
<1> DEFINE Good(j) == \A M : Kept(M) /\ (M.ptr < M.len => Measure(M) <= j) => Ended(Parsed[j][M])
           T == {j \in 0 .. Looks : ~Good(j)}
<1>1. SUFFICES ASSUME T # {} PROVE FALSE
  OBVIOUS
<1>2. PICK j \in T : \A i \in T : j <= i
  <2> HIDE DEF Good
  <2>1. T \in SUBSET Nat
    BY LooksIs
  <2> HIDE DEF T
  <2> QED BY <1>1, <2>1, HasLeast
<1>3. PICK M : Kept(M) /\ (M.ptr < M.len => Measure(M) <= j) /\ ~Ended(Parsed[j][M])
  BY <1>2
<1>4. M \in Lexer /\ M.len \in Nat /\ M.ptr \in Nat /\ M \in Shape(Between)
  <2>1. M \in Shape(Between)
    BY <1>3 DEF Kept
  <2> QED BY <2>1, IsLexer, FieldsAre
<1>5. j \in 0 .. Looks /\ j \in Nat
  BY LooksIs
<1>6. Parsed[j][M] = IF j = 0 \/ Buffered(M) <= 0 THEN M
                     ELSE IF Returns(Looked(M)) THEN Seen(Looked(M))
                     ELSE Parsed[j - 1][Seen(Looked(M))]
  BY <1>4, <1>5, ParsedIs
<1>7. CASE ~(M.ptr < M.len)
  <2>1. Buffered(M) <= 0
    BY <1>4, <1>7 DEF Buffered
  <2> QED BY <1>3, <1>6, <1>7, <2>1 DEF Ended
<1>8. CASE M.ptr < M.len
  <2> DEFINE N == Seen(Looked(M))
  <2>1. ~(Buffered(M) <= 0)
    BY <1>4, <1>8 DEF Buffered
  <2>2. j # 0
    <3>1. Rank(M.state) \in 0 .. 2 /\ M.len * Weight \in Nat
      <4>1. Weight \in Nat
        BY RoomIs DEF Weight
      <4> QED BY <1>4, <4>1, RankIs, SMTT(20)
    <3>2. Measure(M) >= 3
      BY <1>4, <1>8, <3>1 DEF Measure
    <3> QED BY <1>3, <1>5, <1>8, <3>2, MeasureIs
  <2>3. /\ Returns(Looked(M)) => Done(N)
        /\ ~Returns(Looked(M)) => Kept(N) /\ (N.ptr < N.len => Measure(N) < Measure(M))
    BY <1>3, <1>8, TurnIs
  <2>4. CASE Returns(Looked(M))
    <3>1. Parsed[j][M] = N
      BY <1>6, <2>1, <2>2, <2>4
    <3>2. Kept(N) /\ N.ptr = 0
      BY <2>3, <2>4, DoneIsKept DEF Done
    <3> QED BY <1>3, <3>1, <3>2 DEF Ended
  <2>5. CASE ~Returns(Looked(M))
    <3>1. Parsed[j][M] = Parsed[j - 1][N]
      BY <1>6, <2>1, <2>2, <2>5
    <3>2. j - 1 \in 0 .. Looks /\ j - 1 \notin T
      BY <1>2, <1>5, <2>2, LooksIs
    <3>3. Good(j - 1)
      BY <3>2
    <3>4. N.ptr < N.len => Measure(N) <= j - 1
      <4> SUFFICES ASSUME N.ptr < N.len PROVE Measure(N) <= j - 1
        OBVIOUS
      <4>1. Measure(N) < Measure(M) /\ Measure(M) <= j
        BY <1>3, <1>8, <2>3, <2>5
      <4>2. Measure(N) \in Int /\ Measure(M) \in Int
        BY <1>3, <2>3, <2>5, MeasureIs
      <4> QED BY <1>5, <4>1, <4>2
    <3>5. Ended(Parsed[j - 1][N])
      BY <2>3, <2>5, <3>3, <3>4
    <3> QED BY <1>3, <3>1, <3>5
  <2> QED BY <2>4, <2>5
<1> QED BY <1>7, <1>8

\* What differs only in what a lexer found is as good.
LEMMA KeptSame ==
  ASSUME NEW L, NEW M \in Shape(Between), Same(L, M)
  PROVE  (Kept(L) => Kept(M)) /\ (Ended(L) => Ended(M))
BY DEF Same, Kept, Ended

LEMMA ParseKeeps ==
  ASSUME NEW L, Kept(L)
  PROVE  Ended(packet_parse(L))
<1> DEFINE M == [L EXCEPT !.out = <<>>]
<1>1. M \in Shape(Between) /\ Same(L, M)
  <2>1. L \in Shape(Between)
    BY DEF Kept
  <2>2. <<>> \in Seq(OutPacket)
    BY EmptySeq
  <2> QED BY <2>1, <2>2, OutSet
<1>2. packet_parse(L) = Parsed[Looks][M]
  BY DEF packet_parse
<1> HIDE DEF M
<1>3. Kept(M)
  BY <1>1, KeptSame
<1>4. Looks \in 0 .. Looks /\ (M.ptr < M.len => Measure(M) <= Looks)
  <2>1. Measure(M) \in Int /\ (M.ptr < M.len => Measure(M) <= Room * Weight + 3 * Room + 2)
    BY <1>3, MeasureIs
  <2>2. Room * Weight + 3 * Room + 2 \in Int
    <3>1. Weight \in Nat
      BY RoomIs DEF Weight
    <3>2. Room * Weight \in Nat
      BY <3>1, RoomIs, SMTT(20)
    <3> QED BY <3>2, RoomIs
  <2> QED BY <2>1, <2>2, LooksIs
<1> QED BY <1>2, <1>3, <1>4, ParseIsEnded

-----------------------------------------------------------------------------
(* packet_get: what is read is put behind what is there. *)

Filled(L, m, l) == [L EXCEPT !.mem = m, !.len = l]

LEMMA FillSet ==
  ASSUME NEW S, NEW L \in Shape(S), NEW m \in Seq(Byte), NEW l \in Nat
  PROVE  /\ Filled(L, m, l) \in Shape(S) /\ Filled(L, m, l).mem = m /\ Filled(L, m, l).len = l
         /\ Filled(L, m, l).ptr = L.ptr /\ Filled(L, m, l).state = L.state
<1> DEFINE A == [L EXCEPT !.mem = m]
           B == [A EXCEPT !.len = l]
<1>1. A \in Shape(S) /\ A.mem = m /\ A.ptr = L.ptr /\ A.state = L.state
  BY BufferSet
<1>2. Filled(L, m, l) = B
  BY DEF Filled
<1> HIDE DEF A
<1>3. B \in Shape(S) /\ B.mem = m /\ B.len = l /\ B.ptr = A.ptr /\ B.state = A.state
  BY <1>1, EndSet
<1> HIDE DEF B
<1> QED BY <1>1, <1>2, <1>3

\* What is written over the beginning of a buffer.
LEMMA Over ==
  ASSUME NEW s \in Seq(Byte), NEW mem \in Seq(Byte), Len(s) <= Room, Len(mem) <= Room
  PROVE  /\ s \o SubSeq(mem, Len(s) + 1, Len(mem)) \in Seq(Byte)
         /\ Len(s) <= Len(s \o SubSeq(mem, Len(s) + 1, Len(mem)))
         /\ Len(s \o SubSeq(mem, Len(s) + 1, Len(mem))) <= Room
<1> DEFINE rest == SubSeq(mem, Len(s) + 1, Len(mem))
<1>1. Len(s) \in Nat /\ Len(mem) \in Nat
  OBVIOUS
<1>2. rest \in Seq(Byte) /\ Len(rest) = IF Len(s) < Len(mem) THEN Len(mem) - Len(s) ELSE 0
  BY <1>1, PartOf
<1>3. Len(rest) >= 0 /\ Len(s) + Len(rest) <= Room
  BY <1>1, <1>2, RoomIs
<1> HIDE DEF rest
<1>4. s \o rest \in Seq(Byte) /\ Len(s \o rest) = Len(s) + Len(rest)
  BY <1>2, ConcatProperties
<1>5. Len(s) <= Len(s \o rest) /\ Len(s \o rest) <= Room
  <2>1. Len(rest) \in Nat
    BY <1>2
  <2> QED BY <1>1, <1>3, <1>4, <2>1
<1> QED BY <1>4, <1>5 DEF rest

LEMMA ReadKeeps ==
  ASSUME NEW L, Kept(L), NEW bytes \in Seq(Byte), Len(bytes) <= Room - L.len
  PROVE  Kept(Read(L, bytes))
<1> DEFINE kept == SubSeq(L.mem, 1, L.len)
           s == kept \o bytes
           m == s \o SubSeq(L.mem, Len(s) + 1, Len(L.mem))
           l == Len(s)
<1>1. L \in Shape(Between) /\ L.len <= Len(L.mem) /\ Len(L.mem) <= Room
  BY DEF Kept
<1>2. L.mem \in Seq(Byte) /\ L.len \in Nat /\ L.ptr \in Nat
  BY <1>1, FieldsAre
<1>3. kept \in Seq(Byte) /\ Len(kept) = L.len
  <2>1. SubSeq(L.mem, 0 + 1, L.len) \in Seq(Byte)
        /\ Len(SubSeq(L.mem, 0 + 1, L.len)) = IF 0 < L.len THEN L.len - 0 ELSE 0
    BY <1>1, <1>2, PartOf
  <2> QED BY <1>2, <2>1
<1>4. Read(L, bytes) = Filled(L, m, l)
  BY <1>1 DEF Read, Filled, Shape
<1> HIDE DEF kept
<1>5. s \in Seq(Byte) /\ Len(s) = Len(kept) + Len(bytes)
  BY <1>3, ConcatProperties
<1>6. Len(s) \in Nat /\ L.len <= Len(s) /\ Len(s) <= Room
  <2>1. Len(bytes) \in Nat
    OBVIOUS
  <2> QED BY <1>2, <1>3, <1>5, <2>1, RoomIs
<1> HIDE DEF s
<1>7. m \in Seq(Byte) /\ Len(s) <= Len(m) /\ Len(m) <= Room
  BY <1>1, <1>2, <1>5, <1>6, Over
<1>8. l \in Nat /\ L.len <= l /\ l <= Len(m)
  BY <1>6, <1>7
<1> HIDE DEF m, l
<1>9. /\ Filled(L, m, l) \in Shape(Between) /\ Filled(L, m, l).mem = m /\ Filled(L, m, l).len = l
      /\ Filled(L, m, l).ptr = L.ptr /\ Filled(L, m, l).state = L.state
  BY <1>1, <1>7, <1>8, FillSet
<1>10. L.ptr > l => L.state = "NMEA_DOLLAR"
  <2>1. L.ptr > l => L.ptr > L.len
    BY <1>2, <1>8
  <2> QED BY <2>1 DEF Kept
<1> QED BY <1>4, <1>7, <1>8, <1>9, <1>10 DEF Kept

LEMMA DoneIsEnded ==
  ASSUME NEW L, Done(L)
  PROVE  Ended(L)
BY DoneIsKept DEF Done, Ended

LEMMA EmptiedKeeps ==
  ASSUME NEW L, Ended(L)
  PROVE  Ended(Emptied(L))
<1>1. CASE L.len = Room
  <2> DEFINE M == packet_discard(L)
             G == Go(M, "GROUND_STATE")
  <2>1. Emptied(L) = G
    BY <1>1 DEF Emptied
  <2>2. Done(M)
    <3>1. L \in Shape(Between) /\ Held(L)
      BY DEF Ended, Kept, Held
    <3> QED BY <3>1, Discarded
  <2> HIDE DEF M
  <2>3. G \in Shape(Between) /\ G.mem = M.mem /\ G.len = M.len /\ G.ptr = M.ptr
    <3>1. M \in Shape(Between)
      BY <2>2 DEF Done
    <3> QED BY <3>1, StateSet, GroundIsBetween
  <2> HIDE DEF G
  <2>4. Done(G)
    BY <2>2, <2>3 DEF Done, Held
  <2> QED BY <2>1, <2>4, DoneIsEnded
<1>2. CASE L.len # Room
  BY <1>2 DEF Emptied
<1> QED BY <1>1, <1>2

\* One call of packet_get.
LEMMA GetKeeps ==
  ASSUME NEW L, Kept(L), NEW bytes \in Seq(Byte), Len(bytes) <= Room - L.len
  PROVE  Ended(packet_get(L, bytes))
<1>1. CASE bytes = <<>> /\ Buffered(L) <= 0
  <2>1. packet_get(L, bytes) = L
    BY <1>1 DEF packet_get
  <2>2. L.len \in Nat /\ L.ptr \in Nat
    BY FieldsAre DEF Kept
  <2>3. ~(L.ptr < L.len)
    BY <1>1, <2>2 DEF Buffered
  <2> QED BY <2>1, <2>3 DEF Ended
<1>2. CASE ~(bytes = <<>> /\ Buffered(L) <= 0)
  <2>1. packet_get(L, bytes) = Emptied(packet_parse(Read(L, bytes)))
    BY <1>2 DEF packet_get
  <2>2. Ended(packet_parse(Read(L, bytes)))
    BY ReadKeeps, ParseKeeps
  <2> QED BY <2>1, <2>2, EmptiedKeeps
<1> QED BY <1>1, <1>2

-----------------------------------------------------------------------------
(* The devices. *)

\* The static variables come into a lexer, and go out of it.
With(L, m, c) == [L EXCEPT !.n = m, !.ctmp = c]
Without(R) == [R EXCEPT !.n = 0, !.ctmp = 0, !.out = <<>>]

LEMMA WithIs ==
  ASSUME NEW L, Kept(L), NEW m \in Nat, NEW c \in Byte
  PROVE  Kept(With(L, m, c)) /\ With(L, m, c).len = L.len
<1> DEFINE A == [L EXCEPT !.n = m]
           B == [A EXCEPT !.ctmp = c]
<1>1. L \in Shape(Between)
  BY DEF Kept
<1>2. A \in Shape(Between) /\ Same(L, A)
  BY <1>1, CountSet
<1>3. With(L, m, c) = B
  BY DEF With
<1> HIDE DEF A
<1>4. B \in Shape(Between) /\ Same(A, B)
  BY <1>2, NumberSet
<1> HIDE DEF B
<1>5. Same(L, B)
  BY <1>2, <1>4, SameSame
<1>6. Kept(B) /\ B.len = L.len
  BY <1>4, <1>5, KeptSame DEF Same
<1> QED BY <1>3, <1>6

LEMMA WithoutIs ==
  ASSUME NEW R, Ended(R)
  PROVE  Ended(Without(R))
<1> DEFINE A == [R EXCEPT !.n = 0]
           B == [A EXCEPT !.ctmp = 0]
           C == [B EXCEPT !.out = <<>>]
<1>1. R \in Shape(Between) /\ 0 \in Nat /\ 0 \in Byte /\ <<>> \in Seq(OutPacket)
  BY EmptySeq DEF Ended, Kept, Byte
<1>2. A \in Shape(Between) /\ Same(R, A)
  BY <1>1, CountSet
<1>3. Without(R) = C
  BY DEF Without
<1> HIDE DEF A
<1>4. B \in Shape(Between) /\ Same(A, B)
  BY <1>1, <1>2, NumberSet
<1> HIDE DEF B
<1>5. C \in Shape(Between) /\ Same(B, C)
  BY <1>1, <1>4, OutSet
<1> HIDE DEF C
<1>6. Same(R, C)
  BY <1>2, <1>4, <1>5, SameSame
<1>7. Ended(C)
  BY <1>5, <1>6, KeptSame
<1> QED BY <1>3, <1>7

\* Every lexer has been read to an end, and what it is given next is there to be read.
Inv ==
  /\ DOMAIN lexer = Devices /\ \A d \in Devices : Ended(lexer[d])
  /\ n \in Nat /\ ctmp \in Byte /\ sent \in Sendings
  /\ taken \in [Devices -> Nat] /\ \A d \in Devices : taken[d] <= Len(Flat(sent[d]))

LEMMA InitEnded == Ended(packet_init)
<1>1. "BAD_PACKET" \in PacketTypes /\ "GROUND_STATE" \in Between
  BY TypesAre, GroundIsBetween
<1>2. <<>> \in Seq(Byte) /\ <<>> \in Seq(OutPacket) /\ Len(<<>>) = 0
  BY EmptySeq
<1>3. 0 \in 0 .. SizeMax - 1 /\ 0 \in Byte /\ "GROUND_STATE" \in Afters
  BY PacketNumbers DEF Byte, Afters
<1>4. packet_init \in Shape(Between)
  BY <1>1, <1>2, <1>3 DEF packet_init, Shape
<1>5. packet_init.mem = <<>> /\ packet_init.len = 0 /\ packet_init.ptr = 0
  BY DEF packet_init
<1> QED BY <1>2, <1>4, <1>5, RoomIs DEF Ended, Kept

LEMMA InvInit == Init => Inv
<1> SUFFICES ASSUME Init PROVE Inv
  OBVIOUS
<1>1. \A d \in Devices : Flat(sent[d]) \in Seq(Byte)
  BY StreamsAreBytes DEF Init
<1>2. \A d \in Devices : 0 <= Len(Flat(sent[d]))
  BY <1>1, LenProperties
<1>3. lexer = [d \in Devices |-> packet_init] /\ taken = [d \in Devices |-> 0]
  BY DEF Init
<1>4. n \in Nat /\ ctmp \in Byte /\ sent \in Sendings
  BY DEF Init, Byte
<1> QED BY <1>2, <1>3, <1>4, InitEnded DEF Inv

LEMMA GetStep ==
  ASSUME Inv, NEW d \in Devices, NEW size \in Sizes, Get(d, size)
  PROVE  Inv'
<1> DEFINE bytes == Flat(sent[d])
           L == lexer[d]
           take == Min2(size, Min2(Len(bytes) - taken[d], Room - L.len))
           part == SubSeq(bytes, taken[d] + 1, taken[d] + take)
           W == With(L, n, ctmp)
           R == packet_get(W, part)
<1>1. bytes \in Seq(Byte) /\ size \in Nat
  BY StreamsAreBytes DEF Inv
<1>2. Ended(L) /\ Kept(L) /\ n \in Nat /\ ctmp \in Byte
  BY DEF Inv, Ended
<1>3. L.len \in Nat /\ L.len <= Room
  <2>1. L.len \in Nat /\ L.mem \in Seq(Byte)
    BY <1>2, FieldsAre DEF Kept
  <2>2. Len(L.mem) \in Nat
    BY <2>1
  <2>3. L.len <= Len(L.mem) /\ Len(L.mem) <= Room
    BY <1>2 DEF Kept
  <2> QED BY <2>1, <2>2, <2>3, RoomIs
<1>4. taken[d] \in Nat /\ Len(bytes) \in Nat /\ taken[d] <= Len(bytes)
  <2>1. Len(bytes) \in Nat
    BY <1>1, LenProperties
  <2> QED BY <2>1 DEF Inv
<1>5. Gets(d, take, R)
  BY DEF Get, With
<1>6. take \in Nat /\ taken[d] + take <= Len(bytes) /\ take <= Room - L.len
  BY SMTT(30), <1>1, <1>3, <1>4, RoomIs DEF Min2
<1> HIDE DEF bytes, take
<1>7. part \in Seq(Byte) /\ Len(part) <= Room - L.len
  <2>1. taken[d] + take \in Nat
    BY <1>4, <1>6
  <2>2. /\ part \in Seq(Byte)
        /\ Len(part) = IF taken[d] < taken[d] + take THEN (taken[d] + take) - taken[d] ELSE 0
    BY <1>1, <1>4, <1>6, <2>1, PartOf
  <2>3. Len(part) = take
    BY <1>4, <1>6, <2>2
  <2> QED BY <1>6, <2>2, <2>3
<1>8. Kept(W) /\ W.len = L.len
  BY <1>2, WithIs
<1> HIDE DEF W, part
<1>9. Ended(R)
  BY <1>7, <1>8, GetKeeps
<1>10. R.n \in Nat /\ R.ctmp \in Byte
  BY <1>9, FieldsAre DEF Ended, Kept
<1>11. Ended(Without(R))
  BY <1>9, WithoutIs
<1> HIDE DEF R
<1>12. DOMAIN lexer' = Devices /\ \A e \in Devices : Ended(lexer'[e])
  <2>1. lexer' = [lexer EXCEPT ![d] = Without(R)]
    BY <1>5 DEF Gets, Without
  <2>2. DOMAIN lexer = Devices /\ \A e \in Devices : Ended(lexer[e])
    BY DEF Inv
  <2>3. \A e \in Devices : lexer'[e] = IF e = d THEN Without(R) ELSE lexer[e]
    BY <2>1, <2>2
  <2> QED BY <1>11, <2>1, <2>2, <2>3
<1>13. n' = R.n /\ ctmp' = R.ctmp /\ sent' = sent /\ taken' = [taken EXCEPT ![d] = @ + take]
  BY <1>5 DEF Gets
<1>14. taken' \in [Devices -> Nat] /\ \A e \in Devices : taken'[e] <= Len(Flat(sent'[e]))
  <2>1. taken \in [Devices -> Nat] /\ \A e \in Devices : taken[e] <= Len(Flat(sent[e]))
    BY DEF Inv
  <2>2. taken[d] + take \in Nat
    BY <1>4, <1>6
  <2>3. taken' = [taken EXCEPT ![d] = taken[d] + take]
    BY <1>13, <2>1
  <2>4. taken' \in [Devices -> Nat] /\ \A e \in Devices : taken'[e] = IF e = d THEN taken[d] + take ELSE taken[e]
    BY <2>1, <2>2, <2>3
  <2> QED BY <1>6, <1>13, <2>1, <2>4 DEF bytes
<1> QED BY <1>10, <1>12, <1>13, <1>14 DEF Inv

\* Reading leaves every device's lexer as the next read may find it.
LEMMA InvNext == Inv /\ [Next]_vars => Inv'
<1> SUFFICES ASSUME Inv, [Next]_vars PROVE Inv'
  OBVIOUS
<1>1. ASSUME NEW d \in Devices, NEW size \in Sizes, Get(d, size) PROVE Inv'
  BY <1>1, GetStep
<1>2. ASSUME UNCHANGED vars PROVE Inv'
  BY <1>2 DEF Inv, vars
<1> QED BY <1>1, <1>2 DEF Next, AllSilent

LEMMA InvIsKept == Inv => LexerIsKept
<1> SUFFICES ASSUME Inv, NEW d \in Devices
             PROVE  /\ lexer[d].state \in Between
                    /\ lexer[d].length \in 0 .. SizeMax - 1
                    /\ lexer[d].len \in 0 .. Room /\ Len(lexer[d].mem) \in lexer[d].len .. Room
                    /\ lexer[d].ptr \in Nat /\ n \in Nat /\ ctmp \in Byte
                    /\ lexer[d].ptr > lexer[d].len => lexer[d].state = "NMEA_DOLLAR"
                    /\ lexer[d].ptr < lexer[d].len => lexer[d].ptr = 0
  BY DEF LexerIsKept, TypeOK, PointerInside, ParseEnds
<1> DEFINE L == lexer[d]
<1>1. n \in Nat /\ ctmp \in Byte /\ Ended(L)
  BY DEF Inv
<1> HIDE DEF L
<1>2. L \in Shape(Between) /\ L.len <= Len(L.mem) /\ Len(L.mem) <= Room
  BY <1>1 DEF Ended, Kept
<1>3. L.state \in Between /\ L.length \in 0 .. SizeMax - 1 /\ L.mem \in Seq(Byte) /\ L.len \in Nat /\ L.ptr \in Nat
  BY <1>2, FieldsAre
<1>4. L.len \in 0 .. Room /\ Len(L.mem) \in L.len .. Room
  <2>1. Len(L.mem) \in Nat
    BY <1>3
  <2> QED BY <1>2, <1>3, <2>1, RoomIs
<1>5. (L.ptr > L.len => L.state = "NMEA_DOLLAR") /\ (L.ptr < L.len => L.ptr = 0)
  BY <1>1 DEF Ended, Kept
<1> QED BY <1>1, <1>3, <1>4, <1>5 DEF L

\* Whatever the devices send, and however it is cut into reads, the lexer's pointers and counters
\* stay within its buffer (packet.c reads and writes "inbuffer" and "inbufptr" at every character),
\* and the loop of packet_parse ends, whatever it pushes back.
THEOREM LexersAreKept == Spec => []LexerIsKept
<1>1. Spec => []Inv
  BY InvInit, InvNext, PTL DEF Spec
<1> QED BY <1>1, InvIsKept, PTL
=============================================================================
