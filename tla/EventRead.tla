------------------------------ MODULE EventRead ------------------------------
(***************************************************************************)
(* The log of event counters (eventRead.c).  The kernel counts the events  *)
(* that each process consumed of each device; the program polls the        *)
(* devices and logs a counter when it differs from the one logged last,    *)
(* which is a single static for all of them.                               *)
(***************************************************************************)
EXTENDS Integers, Sequences

CONSTANTS
  MaxDevices,   \* bound: input devices
  MaxConsumers, \* bound: processes that use a device
  MaxCount      \* bound: events a process consumes

ASSUME EventReadAssumption == MaxDevices \in Nat /\ MaxConsumers \in Nat /\ MaxCount \in Nat

VARIABLES
  counts,     \* the driver's: a sequence of counters for each device
  at,         \* the device print_devs is called for
  todo,       \* what is left of the copy of its counters
  prev,       \* the static
  read,       \* the value of each counter that was compared last, -1 before
  shown,      \* the last line of each counter, -1 without one
  logged,     \* every count logged
  repeated    \* a line said again what the last one of its counter said

eventVars == <<counts, at, todo, prev, read, shown, logged, repeated>>

Devices == DOMAIN counts
Cell == (1..MaxDevices) \X (1..MaxConsumers)

\* main() reads the devices once, and waits until there is one.
EventInit ==
  /\ \E n \in 1..MaxDevices : counts = [d \in 1..n |-> << >>]
  /\ at = 1 /\ todo = << >>
  /\ prev = 0
  /\ read = [c \in Cell |-> -1] /\ shown = read /\ logged = {} /\ repeated = FALSE

\* A process opens a device, and consumes an event.
Opens(d) ==
  /\ Len(counts[d]) < MaxConsumers
  /\ counts' = [counts EXCEPT ![d] = Append(@, 0)]
  /\ UNCHANGED <<at, todo, prev, read, shown, logged, repeated>>

Consumes(d) ==
  /\ \E i \in DOMAIN counts[d] :
       counts[d][i] < MaxCount /\ counts' = [counts EXCEPT ![d][i] = @ + 1]
  /\ UNCHANGED <<at, todo, prev, read, shown, logged, repeated>>

\* LGETDEVINFO copies the counters of a device at one time; the next device follows, and
\* after the last the first.
Copies ==
  /\ todo = << >>
  /\ todo' = [i \in DOMAIN counts[at] |-> [cell |-> <<at, i>>, count |-> counts[at][i]]]
  /\ at' = IF at = Len(counts) THEN 1 ELSE at + 1
  /\ UNCHANGED <<counts, prev, read, shown, logged, repeated>>

\* Broken: a counter is logged when it is above the last one.
Differs_Above(count) == count > prev

Differs(count) == count # prev

\* Broken: the counter is not remembered.
Remembered_Not(count) == prev

Remembered(count) == count

\* The comparison with prev, and the line.
Compares ==
  /\ todo # << >>
  /\ LET row == Head(todo) IN
       IF Differs(row.count)
       THEN /\ prev' = Remembered(row.count)
            /\ shown' = [shown EXCEPT ![row.cell] = row.count]
            /\ logged' = logged \cup {row.count}
            /\ repeated' = (repeated \/ shown[row.cell] = row.count)
       ELSE UNCHANGED <<prev, shown, logged, repeated>>
  /\ read' = [read EXCEPT ![Head(todo).cell] = Head(todo).count]
  /\ todo' = Tail(todo)
  /\ UNCHANGED <<counts, at>>

EventNext == (\E d \in Devices : Opens(d) \/ Consumes(d)) \/ Copies \/ Compares

EventSpec == EventInit /\ [][EventNext]_eventVars

-----------------------------------------------------------------------------
Cells == {c \in Cell : c[1] \in Devices /\ c[2] \in DOMAIN counts[c[1]]}

\* With a single counter the log is exact, though one prev serves all counters: no line says
\* again what the last one said, and the last says what was read last.  (Of two counters
\* that differ every pass logs both again.)
LoneCounterIsExact ==
  \A c \in Cells : Cells = {c} => ~repeated /\ (read[c] > 0 => shown[c] = read[c])

\* A value that was read is in the log, though perhaps under the name of another counter that
\* had the same: two processes that consume the same events are one in the log.
ReadIsLogged == \A c \in Cells : read[c] > 0 => read[c] \in logged

\* The log of event counters is complete, and exact for a single counter.
EventsAreLogged == LoneCounterIsExact /\ ReadIsLogged

=============================================================================
