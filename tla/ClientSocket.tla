---------------------------- MODULE ClientSocket ----------------------------
(***************************************************************************)
(* The socket between gpsd and a client of libgps: throttled_write() and   *)
(* detach_client() of gpsd.c at one end, gps_waiting() and gps_sock_read() *)
(* of libgps_sock.c and the loop of cgps.c at the other.                   *)
(*                                                                         *)
(* A byte is <<n, i>>, the i-th of line n; the last byte of a line is its  *)
(* newline <<n, 0>>.  The socket delivers bytes in order, in pieces of any *)
(* length.  The client's buffer comes from malloc() and is never cleared,  *)
(* so that before any line (n = 0) it may hold a newline.                  *)
(***************************************************************************)
EXTENDS Integers, Sequences

CONSTANTS
    Cap,       \* sizeof(buffer): GPS_JSON_RESPONSE_MAX * 2
    Lengths,   \* the lengths of lines, newline included
    MaxLines   \* how many lines the daemon sends

ASSUME CapAssumption == Cap \in Nat \ {0}
ASSUME LengthsAssumption == \A len \in Lengths : len \in 2..(Cap \div 2)
ASSUME MaxLinesAssumption == MaxLines \in Nat

VARIABLES
    lines,     \* the lines the daemon has written, by their lengths
    stream,    \* bytes on their way to the client
    cut,       \* the bytes of the last line that were not written
    closed,    \* the daemon has closed the connection
    buffer,    \* PRIVATE(gpsdata)->buffer, indexed from 0
    waiting,   \* PRIVATE(gpsdata)->waiting
    handled,   \* the texts given to gps_unpack()
    overrun,   \* memmove() was asked to move (size_t)-1 bytes
    crowded,   \* two lines have been in the buffer together
    loop,      \* cgps: "wait", "keys" or "ended"
    quit       \* the user has typed q

daemon == <<lines, stream, cut, closed>>
client == <<buffer, waiting, handled, overrun, crowded>>
vars == <<daemon, client, loop, quit>>
-----------------------------------------------------------------------------
Newline(n) == <<n, 0>>
Nul == <<0, -1>>
Blank == <<0, 1>>
IsNewline(byte) == byte[2] = 0

Text(n) == [i \in 1..(lines[n] - 1) |-> <<n, i>>]
Bytes(n, len) == Append([i \in 1..(len - 1) |-> <<n, i>>], Newline(n))

Init ==
    /\ lines = <<>> /\ stream = <<>> /\ cut = 0 /\ closed = FALSE
    /\ buffer \in {[i \in 0..(Cap - 1) |-> IF i = old THEN Newline(0) ELSE Blank] : old \in -1..(Cap - 1)}
    /\ waiting = 0 /\ handled = <<>> /\ overrun = FALSE /\ crowded = FALSE
    /\ loop = "wait" /\ quit = FALSE

\* throttled_write(): the kernel takes the whole line, ...
Write(len) ==
    /\ ~closed /\ Len(lines) < MaxLines
    /\ lines' = Append(lines, len)
    /\ stream' = stream \o Bytes(Len(lines) + 1, len)
    /\ UNCHANGED <<cut, closed, client, loop, quit>>

\* ... or only its first bytes, which ends the connection, ...
ShortWrite(len, taken) ==
    /\ ~closed /\ Len(lines) < MaxLines
    /\ taken \in 1..(len - 1)
    /\ lines' = Append(lines, len)
    /\ stream' = stream \o SubSeq(Bytes(Len(lines) + 1, len), 1, taken)
    /\ cut' = len - taken
    /\ closed' = TRUE
    /\ UNCHANGED <<client, loop, quit>>

\* ... as does the daemon when it stops.
Detach ==
    /\ ~closed
    /\ closed' = TRUE
    /\ UNCHANGED <<lines, stream, cut, client, loop, quit>>

-----------------------------------------------------------------------------
\* Broken: the search goes on one byte too far.
Eol_Further(bytes, n) ==
    LET found == {i \in 0..(n + 1) : i < Cap /\ IsNewline(bytes[i])}
    IN  IF found = {} THEN -1 ELSE CHOOSE i \in found : \A j \in found : i <= j

\* Where the search for the end of a line stops in bytes with n waiting: at
\* the first newline, which may lie just behind them, or nowhere (-1).
Eol(bytes, n) ==
    LET found == {i \in 0..n : i < Cap /\ IsNewline(bytes[i])}
    IN  IF found = {} THEN -1 ELSE CHOOSE i \in found : \A j \in found : i <= j

\* Broken: the newline is left in the buffer.
Ended_Newline(bytes, eol) == bytes

\* The newline is overwritten with the end of the string.
Ended(bytes, eol) == [bytes EXCEPT ![eol] = Nul]

\* Broken: one byte too few is moved away.
Moved_OneLess(bytes, n, length) ==
    [i \in 0..(Cap - 1) |-> IF i <= n - length THEN bytes[(i + length - 1) % Cap] ELSE bytes[i]]

\* memmove(): the n - length bytes after the line come to the front.
Moved(bytes, n, length) ==
    [i \in 0..(Cap - 1) |-> IF i < n - length THEN bytes[i + length] ELSE bytes[i]]

\* Broken: the line is moved away but still counted.
Take_StillCounted(bytes, n, eol) ==
    LET length == eol + 1
    IN  /\ handled' = Append(handled, [i \in 1..eol |-> bytes[i - 1]])
        /\ waiting' = n
        /\ overrun' = FALSE
        /\ buffer' = Moved(Ended(bytes, eol), n, length)
        /\ UNCHANGED crowded

\* The end of gps_sock_read() with a newline found at eol.
Take(bytes, n, eol) ==
    LET length == eol + 1
    IN  /\ handled' = Append(handled, [i \in 1..eol |-> bytes[i - 1]])
        /\ waiting' = n - length
        /\ overrun' = (n < length)
        /\ buffer' = IF n < length THEN bytes ELSE Moved(Ended(bytes, eol), n, length)
        /\ crowded' = (crowded \/ \E i \in (eol + 1)..(n - 1) : IsNewline(bytes[i]))

\* gps_waiting(): bytes are buffered, or select() finds the socket readable.
Waiting == waiting > 0 \/ stream # <<>> \/ closed

\* Broken: gps_read() is only called when the socket is readable.
ReadBuffered_OnSelect ==
    /\ loop = "wait" /\ ~overrun
    /\ stream # <<>> \/ closed
    /\ Eol(buffer, waiting) # -1
    /\ Take(buffer, waiting, Eol(buffer, waiting))
    /\ loop' = "keys"
    /\ UNCHANGED <<daemon, quit>>

\* gps_sock_read() with a line in the buffer.
ReadBuffered ==
    /\ loop = "wait" /\ ~overrun /\ Waiting
    /\ Eol(buffer, waiting) # -1
    /\ Take(buffer, waiting, Eol(buffer, waiting))
    /\ loop' = "keys"
    /\ UNCHANGED <<daemon, quit>>

\* gps_sock_read() when recv() returns the next count bytes.
ReadSocket(count) ==
    /\ loop = "wait" /\ ~overrun
    /\ Eol(buffer, waiting) = -1
    /\ count \in 1..Len(stream) /\ count <= Cap - waiting
    /\ stream' = SubSeq(stream, count + 1, Len(stream))
    /\ LET n == waiting + count
           bytes == [i \in 0..(Cap - 1) |-> IF i \in waiting..(n - 1) THEN stream[i - waiting + 1] ELSE buffer[i]]
       IN  IF Eol(bytes, n) = -1
           THEN /\ buffer' = bytes /\ waiting' = n
                /\ UNCHANGED <<handled, overrun, crowded>>
           ELSE Take(bytes, n, Eol(bytes, n))
    /\ loop' = "keys"
    /\ UNCHANGED <<lines, cut, closed, quit>>

\* Broken: a close is reported only to a client that had lines.
ReadClosed_AfterLines ==
    /\ loop = "wait" /\ ~overrun
    /\ Eol(buffer, waiting) = -1
    /\ closed /\ stream = <<>>
    /\ loop' = IF waiting = 0 /\ handled # <<>> THEN "ended" ELSE "keys"
    /\ UNCHANGED <<daemon, client, quit>>

\* gps_sock_read() when recv() returns 0: the connection is gone, which is
\* reported (-1) only if nothing is buffered.
ReadClosed ==
    /\ loop = "wait" /\ ~overrun
    /\ Eol(buffer, waiting) = -1
    /\ closed /\ stream = <<>>
    /\ loop' = IF waiting = 0 THEN "ended" ELSE "keys"
    /\ UNCHANGED <<daemon, client, quit>>

\* The user types q.
Type ==
    /\ loop # "ended" /\ ~quit
    /\ quit' = TRUE
    /\ UNCHANGED <<daemon, client, loop>>

\* Broken: the loop goes on when q was typed.
Keys_Ignored ==
    /\ loop = "keys" /\ ~overrun
    /\ loop' = "wait"
    /\ UNCHANGED <<daemon, client, quit>>

\* cgps looks for a key only after gps_read(): a wait that times out skips it.
Keys ==
    /\ loop = "keys" /\ ~overrun
    /\ loop' = IF quit THEN "ended" ELSE "wait"
    /\ UNCHANGED <<daemon, client, quit>>

Read == ReadBuffered \/ (\E count \in 1..Cap : ReadSocket(count)) \/ ReadClosed

Next ==
    \/ \E len \in Lengths : Write(len) \/ \E taken \in 1..Cap : ShortWrite(len, taken)
    \/ Detach
    \/ Read \/ Type \/ Keys

Spec == Init /\ [][Next]_vars

\* cgps calls gps_waiting() and gps_read() for ever.
FairSpec == Spec /\ WF_vars(Read) /\ WF_vars(Keys)
-----------------------------------------------------------------------------
\* Every variable keeps its type, and what is buffered fits: gps_sock_read().
TypeOK ==
    /\ lines \in Seq(Lengths) /\ Len(lines) <= MaxLines
    /\ closed \in BOOLEAN /\ overrun \in BOOLEAN /\ crowded \in BOOLEAN /\ quit \in BOOLEAN
    /\ waiting \in -1..Cap /\ (waiting = -1 <=> overrun)
    /\ DOMAIN buffer = 0..(Cap - 1)
    /\ loop \in {"wait", "keys", "ended"}

\* gps_unpack() is given the lines of the daemon, whole, in order and each
\* once, however the socket cuts them and whatever memmove() left behind --
\* up to the moment the buffer is overrun.
LinesAreWhole ==
    LET sound == IF overrun THEN Len(handled) - 1 ELSE Len(handled)
    IN  sound <= Len(lines) /\ \A n \in 1..sound : handled[n] = Text(n)

\* gps_sock_read() may call recv() with room for at least one more byte, so
\* that a long line can always be completed.
NeverFull == Eol(buffer, waiting) = -1 => waiting < Cap

\* The buffer is overrun only when a newline lies just behind the bytes
\* received: one malloc() left, or one that stayed when two lines that had
\* come together were moved away.
OverrunNeedsOldNewline == overrun => crowded \/ \E i \in 0..(Cap - 1) : buffer[i] = Newline(0)

\* The receive buffer and its count stay together: the library never asks for
\* zero bytes, and looks at a byte behind what it received only where an old
\* newline stands.
BufferIsKept == TypeOK /\ NeverFull /\ OverrunNeedsOldNewline

\* Nothing is lost while the client runs: every line written whole is
\* unpacked, unless the buffer is overrun or the user quits.
EveryLineIsRead ==
    \A n \in 1..MaxLines :
        Len(lines) >= n /\ (n < Len(lines) \/ cut = 0) ~> Len(handled) >= n \/ overrun \/ loop = "ended"

\* The client learns that the daemon has gone, unless the last write was
\* short: then the rest of a line stays in the buffer and gps_sock_read()
\* returns 0 for ever.
CloseIsSeen == closed ~> loop = "ended" \/ overrun \/ cut > 0

\* q ends cgps when reports keep coming: the key is read after a report.
QuitIsSeen == quit ~> loop = "ended" \/ overrun \/ ~Waiting

\* What the daemon sends, that it has gone and what the user types is seen
\* in the end, unless the exceptions named by the parts apply.
SocketIsRead == EveryLineIsRead /\ CloseIsSeen /\ QuitIsSeen

=============================================================================
