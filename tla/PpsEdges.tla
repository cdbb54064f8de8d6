------------------------------ MODULE PpsEdges ------------------------------
(***************************************************************************)
(* Which edges of the carrier-detect line gpsd_ppsmonitor (ntpshm.c) takes *)
(* for the beginning of a second.  The thread may miss an edge while it is *)
(* busy or asleep.  Time is counted in units of 20 ms; the tolerance of    *)
(* one millisecond is left out.                                            *)
(***************************************************************************)
EXTENDS Integers

VARIABLES
  wave,       \* the signal of the receiver
  level,      \* of the line
  age,        \* how long ago pulse[0] and pulse[1] were stamped
  laststate, unchanged,   \* as in the code
  seen,       \* whether the thread saw the last edge and the one before
  verdict     \* on the last edge

edgeVars == <<wave, level, age, laststate, unchanged, seen, verdict>>

Second  == 50
TooLong == 2 * Second + 1
Unset   == -1     \* pulse[] is zero: the difference overflows an int and may be anything

\* The signals the comment of the code names, by their period and the time they are high.
Wave(period, high) == [period |-> period, high |-> high]
Waves ==
  { Wave(Second, 5), Wave(Second, 10),               \* short pulses
    Wave(Second, Second - 5), Wave(Second, Second - 10),   \* the other polarity
    Wave(Second, Second \div 2),                      \* 1 Hz square
    Wave(2 * Second, Second),                         \* 0.5 Hz square
    Wave(Second, 0),                                  \* too short for TIOCMGET to see
    Wave(Second \div 5, 2) }                          \* 5 Hz, 40 ms

FiveHz    == wave.period = Second \div 5
Invisible == wave.high = 0

\* The level after the next edge, and whether a second begins with it.
After == IF Invisible THEN 0 ELSE 1 - level
BeginsSecond ==
  CASE Invisible \/ wave.period > Second    -> TRUE
    [] wave.high > wave.period \div 2       -> level = 1
    [] OTHER                                -> level = 0

\* How long the level lasted before that edge.
Lasted == IF level = 1 THEN wave.high ELSE wave.period - wave.high

Older(a, by) == IF a = Unset THEN Unset ELSE IF a + by > TooLong THEN TooLong ELSE a + by
Reads(a) == IF a = Unset THEN {0, Second \div 5, Second \div 2, Second, 2 * Second, TooLong} ELSE {a}

EdgesInit ==
  /\ wave \in Waves /\ level = 0
  /\ age = [l \in {0, 1} |-> Unset]
  /\ laststate = -1 /\ unchanged = 0
  /\ seen = <<FALSE, FALSE>>
  /\ verdict = [ok |-> FALSE, second |-> FALSE, clean |-> FALSE]

\* Broken: the short half of a second counts as much as the long one.
Accepts1Hz_Short(duration, state) == duration = 0 \/ duration # Second \div 2 \/ state = 1

\* Cycles of a second: an invisible pulse, the rising edge of a square, the end of the long half.
Accepts1Hz(duration, state) ==
  \/ duration = 0
  \/ duration = Second \div 2 /\ state = 1
  \/ duration > Second \div 2

\* Broken: a pulse of a fifth of a second by its long half.
Ok_5HzFront(cycle, duration, state) ==
  \/ cycle = Second \div 5 /\ duration > Second \div 10
  \/ cycle = Second /\ Accepts1Hz(duration, state)
  \/ cycle = 2 * Second /\ duration = Second

\* Is the edge the front of a pulse?
Ok(cycle, duration, state) ==
  \/ cycle = Second \div 5 /\ duration < Second \div 10
  \/ cycle = Second /\ Accepts1Hz(duration, state)
  \/ cycle = 2 * Second /\ duration = Second

\* Broken: the count of strange edges goes on through the sleep.
Strange_GoesOn == unchanged + 1

\* ++unchanged, which starts again at the tenth.
Strange == IF unchanged = 9 THEN 1 ELSE unchanged + 1

\* The thread is busy: the line changes and nobody looks.
MissesEdge ==
  /\ level' = After
  /\ age' = [l \in {0, 1} |-> Older(age[l], Lasted)]
  /\ seen' = <<FALSE, seen[1]>>
  /\ verdict' = [ok |-> FALSE, second |-> FALSE, clean |-> FALSE]
  /\ UNCHANGED <<wave, laststate, unchanged>>

\* Both stamps are those of the last edge of their level.
Clean == seen[1] /\ (seen[2] \/ Invisible)

\* TIOCMIWAIT returns.  The tenth time that nothing seems to have changed the thread sleeps
\* for ten seconds, a whole number of periods.
TakesEdge ==
  LET state == After
      aged  == [l \in {0, 1} |-> Older(age[l], Lasted)]
  IN  \E cycle \in Reads(aged[state]), duration \in Reads(aged[1 - state]) :
        LET same      == state = laststate
            invisible == same /\ cycle = Second
            strange   == same /\ ~invisible
            sleeps    == strange /\ unchanged = 9
        IN  /\ level' = state
            /\ laststate' = state
            /\ unchanged' = IF strange THEN Strange ELSE 0
            /\ age' = IF sleeps THEN [l \in {0, 1} |-> TooLong] ELSE [aged EXCEPT ![state] = 0]
            /\ seen' = IF sleeps THEN <<FALSE, FALSE>> ELSE <<TRUE, seen[1]>>
            /\ verdict' = [ok |-> ~strange /\ Ok(cycle, IF invisible THEN 0 ELSE duration, state),
                           second |-> BeginsSecond, clean |-> Clean]
            /\ UNCHANGED wave

EdgesNext == MissesEdge \/ TakesEdge

EdgesSpec == EdgesInit /\ [][EdgesNext]_edgeVars

-----------------------------------------------------------------------------
\* The variables keep their types: unchanged stays below the ten at which the thread sleeps.
EdgesTypeOK ==
  /\ wave \in Waves /\ level \in {0, 1}
  /\ age \in [{0, 1} -> Unset..TooLong]
  /\ laststate \in -1..1 /\ unchanged \in 0..9
  /\ seen \in BOOLEAN \X BOOLEAN

\* An edge is given to ntpd if and only if a second begins with it, whatever the polarity and
\* the form of the signal: as long as the thread saw the two edges before it.  (After a missed
\* edge the end of a pulse, a second after the last, passes for an invisible pulse.)
TakesTheFrontEdge == verdict.clean /\ ~FiveHz => verdict.ok = verdict.second

\* With five pulses a second ("Set the pulse length to 40ms") every end of a pulse is given,
\* and no front.
TakesTheEndAt5Hz == verdict.clean /\ FiveHz => verdict.ok = ~verdict.second

\* The thread knows which edge of the signal it sees: the front at one pulse a
\* second, and always the wrong one at five.
EdgesAreTold == EdgesTypeOK /\ TakesTheFrontEdge /\ TakesTheEndAt5Hz

=============================================================================
