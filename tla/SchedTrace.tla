----------------------------- MODULE SchedTrace -----------------------------
(***************************************************************************)
(* The log of context switches (schedtrace/run.py).  The script reads the  *)
(* whole ring buffer of the kernel again and again and keeps the lines     *)
(* whose time stamp, compared as a string, is above that of the last line  *)
(* it kept.                                                                *)
(***************************************************************************)
EXTENDS Integers, Sequences

CONSTANTS
  Base,       \* of the digits of a time stamp
  FirstTime,  \* of the first switch
  MaxTime,    \* bound on the time
  Size,       \* of the ring buffer, in lines
  MaxLines    \* bound: switches

ASSUME SchedAssumption ==
  /\ Base \in Nat \ {0, 1}
  /\ FirstTime \in Nat \ {0} /\ MaxTime \in Nat /\ FirstTime <= MaxTime
  /\ Size \in Nat \ {0} /\ MaxLines \in Nat

VARIABLES
  now,        \* the time
  ring,       \* the trace
  lines,      \* switches so far, which number the lines
  copy,       \* what is left to read of /tmp/run_tmp.tmp
  last_time,  \* in the code
  flog,       \* the log
  missed      \* the lines read and not kept

schedVars == <<now, ring, lines, copy, last_time, flog, missed>>

\* A line is plain, has a name with a space in it that the script knows ("rs:main Q:Reg"),
\* or one that it does not know.
Forms == {"plain", "known", "odd"}

\* The int with which last_time starts is below every string.
Start == 0

\* The time stamp as it is written.
text[n \in 0..MaxTime] == IF n < Base THEN <<n>> ELSE Append(text[n \div Base], n % Base)

\* The order of strings.  (Time stamps have their fraction after a dot, which sorts before the
\* digits: of two that begin alike the one with fewer digits is below the other.)
Higher(s, t) ==
  \E i \in 1..Len(s) :
    /\ i <= Len(t) + 1
    /\ \A j \in 1..(i - 1) : s[j] = t[j]
    /\ i <= Len(t) => s[i] > t[i]

\* Broken: a line with the time of the last one is kept.
Above_OrEqual(a, b) == b = Start \/ a = b \/ Higher(text[a], text[b])

Above(a, b) == b = Start \/ Higher(text[a], text[b])

SchedInit ==
  /\ now = FirstTime
  /\ ring = << >> /\ lines = 0 /\ copy = << >>
  /\ last_time = Start
  /\ flog = << >> /\ missed = {}

\* The kernel; two processors may switch in one microsecond.
Switches ==
  /\ lines < MaxLines
  /\ \E form \in Forms :
       LET grown == Append(ring, [id |-> lines + 1, time |-> now, form |-> form])
       IN  ring' = IF Len(grown) > Size THEN Tail(grown) ELSE grown
  /\ lines' = lines + 1
  /\ UNCHANGED <<now, copy, last_time, flog, missed>>

Passes ==
  /\ now < MaxTime
  /\ now' = now + 1
  /\ UNCHANGED <<ring, lines, copy, last_time, flog, missed>>

\* cat trace > /tmp/run_tmp.tmp
ReadsTrace ==
  /\ copy = << >> /\ ring # << >>
  /\ copy' = ring
  /\ UNCHANGED <<now, ring, lines, last_time, flog, missed>>

\* Broken: a line whose name has a space is not tried again.
Stamped_Once(line) == line.form = "plain"

\* The fourth word is a number: at once, or with the known name replaced.
Stamped(line) == line.form \in {"plain", "known"}

\* One line of the copy.
ReadsLine ==
  /\ copy # << >>
  /\ LET line == Head(copy) IN
       IF Stamped(line) /\ Above(line.time, last_time)
       THEN /\ flog' = Append(flog, line)
            /\ last_time' = line.time
            /\ UNCHANGED missed
       ELSE /\ missed' = missed \cup {line}
            /\ UNCHANGED <<flog, last_time>>
  /\ copy' = Tail(copy)
  /\ UNCHANGED <<now, ring, lines>>

SchedNext == Switches \/ Passes \/ ReadsTrace \/ ReadsLine

SchedSpec == SchedInit /\ [][SchedNext]_schedVars

-----------------------------------------------------------------------------
\* The log holds no switch twice and tells them in their order, though the whole buffer is
\* read again every three seconds.
LogIsInOrder ==
  \A i, j \in DOMAIN flog : i < j => flog[i].id < flog[j].id /\ flog[i].time <= flog[j].time

Kept(line) == \E i \in DOMAIN flog : flog[i].id = line.id

\* A line that was kept although its time stamp, which is earlier, is above that of the line:
\* it has fewer digits.
Overtakes(kept, line) ==
  /\ kept.id < line.id /\ Len(text[kept.time]) < Len(text[line.time])
  /\ Above(kept.time, line.time)

\* A switch that was read is in the log, unless its name has an unknown form, another line
\* of the same time is there instead, or the time stamps have got one more digit: until they
\* begin with higher digits than the last shorter one, nothing is above it.
ReadIsKept ==
  \A line \in missed :
    \/ Kept(line)
    \/ line.form = "odd"
    \/ \E i \in DOMAIN flog : flog[i].time = line.time \/ Overtakes(flog[i], line)

\* The log of task switches is the trace, in its order and without gaps or
\* repetitions, as far as its time stamps can tell.
TraceIsInOrder == LogIsInOrder /\ ReadIsKept

=============================================================================
