----------------------------- MODULE NtripTable -----------------------------
(***************************************************************************)
(* The opening of an NTRIP source (net_ntrip.c): the probe that reads the   *)
(* caster's source table, the request for the stream, and its answer.       *)
(*                                                                          *)
(* The table is a sequence of lines of a few pieces each; a piece is        *)
(* <<number of the line, its kind, place in it>>, and the last one ends the *)
(* line.  The caster sends piece after piece, gpsd reads what has come.  A  *)
(* reading of the table is one call: it reads until nothing is left, and    *)
(* its buffer is gone when it returns.                                      *)
(***************************************************************************)
EXTENDS Integers, SequencesExt

CONSTANTS
  Blen,      \* bytes the buffer takes, BUFSIZ - 1, in pieces
  MaxTable   \* bound: lines of the table between its first and its last

ASSUME TableNumbers == Blen \in Nat \ {0} /\ MaxTable \in Nat

\* The kinds of lines: the head and the end of the table, a stream of another name, the
\* stream asked for with its parameters, the same in a format, compression or
\* authentication that is not supported, and a line longer than the buffer.
Streams == {"first", "second"}
Kinds == Streams \cup {"other", "unsupported", "long"}
LengthOf(kind) == CASE kind = "other" -> 1
                    [] kind = "long"  -> Blen + 1
                    [] OTHER          -> 2

Replies == {"icy", "unauthorised", "table", "unknown"}
NoStream == "none"

VARIABLES
  table,    \* the pieces of the caster's answer to the probe
  sent,     \* pieces the caster has sent of its answer
  taken,    \* pieces gpsd has read
  closed,   \* the caster has closed the connection
  conn,     \* ntrip.conn_state
  parsing,  \* ntrip.sourcetable_parse
  stream,   \* ntrip.stream: the line its parameters are from, if it is set
  call,     \* the call under way: its buffer and its match
  reply,    \* the answer to the request for the stream
  lost      \* a call returned with a part of a line in its buffer

tableVars == <<table, sent, taken, closed, conn, parsing, stream, call, reply, lost>>

NoCall == [busy |-> FALSE, buf |-> <<>>, match |-> FALSE]

\* The pieces of a sequence of lines.
Pieces(lines) ==
  FlattenSeq([i \in DOMAIN lines |-> [j \in 1..LengthOf(lines[i]) |-> <<i, lines[i], j>>]])

KindOf(piece) == piece[2]
EndsLine(piece) == piece[3] = LengthOf(KindOf(piece))
BeginsLine(piece) == piece[3] = 1

-----------------------------------------------------------------------------
(* The caster *)

CasterSends ==
  /\ conn = "probe" /\ ~closed /\ sent < Len(table)
  /\ \E n \in sent + 1..Len(table) : sent' = n
  /\ UNCHANGED <<table, taken, closed, conn, parsing, stream, call, reply, lost>>

\* After its answer, or before that.
CasterCloses ==
  /\ conn = "probe" /\ ~closed
  /\ closed' = TRUE
  /\ UNCHANGED <<table, sent, taken, conn, parsing, stream, call, reply, lost>>

-----------------------------------------------------------------------------
(* Reading the table *)

\* select() reports the descriptor, and consume_packets() has the transaction go on.
Call ==
  /\ conn = "probe" /\ ~call.busy /\ (taken < sent \/ closed)
  /\ call' = [NoCall EXCEPT !.busy = TRUE]
  /\ UNCHANGED <<table, sent, taken, closed, conn, parsing, stream, reply, lost>>

\* The lines that start in a buffer: each place where the one before it ends.
Starts(buf) == {p \in DOMAIN buf : p = 1 \/ EndsLine(buf[p - 1])}

\* Where the line that starts at p ends, beyond the buffer if its end has not come.
EndOf(buf, p) ==
  LET ends == {q \in p..Len(buf) : EndsLine(buf[q])}
  IN  IF ends = {} THEN Len(buf) + 1 ELSE CHOOSE q \in ends : \A r \in ends : q <= r

IsWhole(buf, p) == EndOf(buf, p) <= Len(buf)

\* What a line is taken for: the rest of a line of which the beginning is gone is some
\* other line.
Taken(piece) == IF BeginsLine(piece) THEN KindOf(piece) ELSE "other"

\* Parsing stops at the end of the table, of which the name is enough, and at the stream
\* asked for when it is not supported.
StopsAt(buf, p) ==
  \/ Taken(buf[p]) = "end"
  \/ Taken(buf[p]) = "unsupported" /\ IsWhole(buf, p)

\* Broken: a line is taken for whole when it is not.
Parsed_Parts(buf) == Starts(buf)

\* The starts of the lines that are parsed before parsing stops, in a buffer without head.
Parsed(buf) ==
  {p \in Starts(buf) : IsWhole(buf, p) /\ \A q \in Starts(buf) : q <= p => ~StopsAt(buf, q)}

Stops(buf) == {p \in Starts(buf) : /\ StopsAt(buf, p)
                                   /\ \A q \in Starts(buf) : q < p => q \in Parsed(buf)}

Matching(buf) == {p \in Parsed(buf) : Taken(buf[p]) \in Streams}
Latest(S) == CHOOSE p \in S : \A q \in S : p >= q

\* Broken: the rest is moved from the wrong place.
Rest_Nothing(buf) == <<>>

\* memmove: what is left behind the last line parsed stays for the next read.
Rest(buf) ==
  IF Parsed(buf) = {} THEN buf ELSE SubSeq(buf, EndOf(buf, Latest(Parsed(buf))) + 1, Len(buf))

Fails == conn' = "err" /\ call' = NoCall

\* The probe's connection is replaced by one for the stream, if that can be made.
Requests ==
  \/ conn' = "get" /\ reply' \in Replies
  \/ conn' = "err" /\ reply' = "unreached"

\* The answer has to begin with the whole head, until it was seen.
HeadCame(buf) == parsing \/ <<1, "head", 2>> \in Range(buf)

WithoutHead(buf) == IF parsing THEN buf ELSE SubSeq(buf, 3, Len(buf))

\* One read of ntrip_sourcetable_parse(), and the lines in what has come.
ReadTable ==
  /\ call.busy /\ taken < sent
  /\ LET room == Blen - Len(call.buf)
         n == IF sent - taken < room THEN sent - taken ELSE room
         came == call.buf \o SubSeq(table, taken + 1, taken + n)
         buf == WithoutHead(came)
         match == call.match \/ Matching(buf) # {}
     IN  /\ taken' = taken + n
         /\ parsing' = (parsing \/ HeadCame(came))
         /\ stream' = IF HeadCame(came) /\ Matching(buf) # {}
                      THEN Taken(buf[Latest(Matching(buf))]) ELSE stream
         /\ IF ~HeadCame(came) THEN Fails /\ UNCHANGED reply
            ELSE IF Stops(buf) # {}
            THEN IF match /\ \A p \in Stops(buf) : Taken(buf[p]) = "end"
                 THEN Requests /\ call' = NoCall
                 ELSE Fails /\ UNCHANGED reply
            ELSE IF Len(Rest(buf)) = Blen THEN Fails /\ UNCHANGED reply
            ELSE /\ call' = [call EXCEPT !.buf = Rest(buf), !.match = match]
                 /\ UNCHANGED <<conn, reply>>
  /\ UNCHANGED <<table, sent, closed, lost>>

\* EAGAIN: the stream was found, or the call returns and more is waited for.  What its
\* buffer holds of a line is lost.
NothingMore ==
  /\ call.busy /\ taken = sent /\ ~closed
  /\ call' = NoCall
  /\ lost' = (lost \/ call.buf # <<>>)
  /\ IF call.match THEN Requests ELSE UNCHANGED <<conn, reply>>
  /\ UNCHANGED <<table, sent, taken, closed, parsing, stream>>

\* read() returns 0: the table is refused, whatever was found in it.
TableEnds ==
  /\ call.busy /\ taken = sent /\ closed
  /\ Fails
  /\ UNCHANGED <<table, sent, taken, closed, parsing, stream, reply, lost>>

\* One read of the answer to the request: the connection is the source's from now on only
\* if "ICY 200 OK" is in it.  A part of it, or the end of the connection, is an unknown reply.
ReadReply(whole) ==
  /\ conn = "get"
  /\ conn' = IF whole /\ reply = "icy" THEN "established" ELSE "err"
  /\ UNCHANGED <<table, sent, taken, closed, parsing, stream, call, reply, lost>>

-----------------------------------------------------------------------------
TableInit ==
  /\ \E lines \in UNION {[1..n -> Kinds] : n \in 0..MaxTable} :
       table = Pieces(<<"head">> \o lines \o <<"end">>)
  /\ sent = 0 /\ taken = 0 /\ closed = FALSE
  /\ conn = "probe" /\ parsing = FALSE /\ stream = NoStream
  /\ call = NoCall /\ reply = "unknown" /\ lost = FALSE

Reads == Call \/ ReadTable \/ NothingMore \/ TableEnds
Answers == \E whole \in BOOLEAN : ReadReply(whole)

TableNext == CasterSends \/ CasterCloses \/ Reads \/ Answers

TableSpec == TableInit /\ [][TableNext]_tableVars

-----------------------------------------------------------------------------
TableTypeOK ==
  /\ taken \in 0..sent /\ sent \in 0..Len(table)
  /\ {closed, parsing, lost} \subseteq BOOLEAN
  /\ conn \in {"probe", "get", "established", "err"}
  /\ stream \in Streams \cup {NoStream} /\ reply \in Replies \cup {"unreached"}
  /\ call.busy \in BOOLEAN /\ call.match \in BOOLEAN /\ Len(call.buf) < Blen

Lines(kinds, pieces) == {p \in DOMAIN pieces : KindOf(pieces[p]) \in kinds /\ EndsLine(pieces[p])}

\* The stream is asked for with the parameters of the last line of its name that was read,
\* however the table was cut into reads, and, unless a part was lost, not if one of them is
\* unsupported
\* (ntrip_sourcetable_parse copies what it holds of every matching line).
AsksAsTold ==
  conn \in {"get", "established"} =>
    LET read == SubSeq(table, 1, taken)
    IN  /\ Lines(Streams, read) # {} /\ stream = KindOf(read[Latest(Lines(Streams, read))])
        /\ lost \/ Lines({"unsupported"}, read) = {}

\* A table is refused only if the caster closed before its end, if it does not name the
\* stream, names one that is not supported, has a line the buffer cannot hold or does not
\* come with its whole head in the first read, or if a reading of it returned in the middle
\* of a line (read() said EAGAIN) and the part was lost.
RefusedForAReason ==
  [][conn = "probe" /\ conn' = "err" =>
       \/ reply' = "unreached" \/ lost \/ ~parsing'
       \/ closed /\ sent < Len(table)
       \/ Lines({"unsupported", "long"}, table) # {}
       \/ Lines(Streams, table) = {}]_tableVars

\* The probe waits for ever only for a caster that neither completes its table nor closes,
\* or closes not after a table of which a part was lost: there is no timeout.
ProbeEnds == <>[](conn = "probe") => <>[](~closed /\ (sent < Len(table) \/ lost))

\* However the table was cut, the stream is asked for as it says, or refused for a reason.
TableIsRead == [](TableTypeOK /\ AsksAsTold) /\ RefusedForAReason
=============================================================================
