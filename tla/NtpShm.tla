------------------------------- MODULE NtpShm -------------------------------
(***************************************************************************)
(* The time gpsd gives to ntpd (ntpshm.c): shared-memory segments that are *)
(* lent to devices, the main thread that writes the time of fixes into one *)
(* of them, a thread per device that writes the time of pulses into        *)
(* another, and ntpd, which reads them without a lock.                     *)
(*                                                                         *)
(* Time is counted in half seconds, a second beginning at every even tick; *)
(* the offsets of the drivers are left out, the memory of a build whose    *)
(* stores become visible in their order is modelled, and an increment of   *)
(* the count is one step, which two writers at once are reported to break  *)
(* in any case.                                                            *)
(***************************************************************************)
EXTENDS Integers, FiniteSets

CONSTANTS
  Slots,       \* the places of the array of devices
  Segments,    \* NTPSHMSEGS: the number of time segments
  Threads,     \* names for the PPS threads that run at the same time
  MaxAdds,     \* bound: devices added in one run
  MaxPuts,     \* bound: times written
  FirstTick,   \* the time at which the daemon starts, long after 1970
  MaxTick      \* bound on the time

ASSUME NtpAssumption ==
  /\ IsFiniteSet(Slots) /\ IsFiniteSet(Threads)
  /\ Segments \in Nat
  /\ MaxAdds \in Nat /\ MaxPuts \in Nat
  /\ FirstTick \in Nat \ {0} /\ MaxTick \in Nat /\ FirstTick <= MaxTick

VARIABLES
  attached,    \* context.shmTime[i] is not NULL
  shmTimePPS,  \* the daemon runs with -n
  inUse,       \* context.shmTimeInuse
  segment,     \* the segments
  slot,        \* the devices
  main,        \* where the main thread is in ntpshm_put
  thread,      \* the PPS threads
  ntpd,        \* where ntpd is in reading a segment
  tick,        \* the time
  puts,        \* times written so far
  dropped,     \* segments whose device was removed while it was closed
  disturbed    \* segments in which writers met, or that were lent out again during an access

linkVars == <<attached, shmTimePPS, inUse, slot, dropped>>
shmVars == <<attached, shmTimePPS, inUse, segment, slot, main, thread, ntpd, tick, puts,
             dropped, disturbed>>

-----------------------------------------------------------------------------
Units == 0..(Segments - 1)
Unlinked == -1

\* A word of a segment carries, besides its value, the put that wrote it.
Stamps == [at : 0..MaxTick, put : 0..MaxPuts, of : {"none", "fix", "pulse"}, opening : 0..1]
Never  == [at |-> 0, put |-> 0, of |-> "none", opening |-> 0]

\* memset in ntpshm_alloc.
Cleared == [valid |-> FALSE, count |-> 0, clock |-> Never, receive |-> Never]

Unused  == [known |-> FALSE, open |-> FALSE, openings |-> 0, adds |-> 0,
            shmindex |-> Unlinked, shmTimeP |-> Unlinked, ship |-> FALSE, last |-> 0]
AtRest  == [pc |-> "idle", unit |-> Unlinked, clock |-> Never, receive |-> Never]
Nobody  == [pc |-> "none", slot |-> Unlinked, tv |-> 0, unit |-> Unlinked, from |-> Unlinked,
            put |-> 0, opening |-> 0, clock |-> Never, receive |-> Never]
Waiting == [pc |-> "idle", unit |-> Unlinked, count |-> 0,
            clock |-> Never, receive |-> Never]

\* ntpshm_init: shmget or shmat may fail for each segment, and only root is given the first two.
ShmInit ==
  /\ attached \in SUBSET Units
  /\ shmTimePPS \in BOOLEAN
  /\ inUse = {}
  /\ segment = [u \in Units |-> Cleared]
  /\ slot = [s \in Slots |-> Unused]
  /\ main = AtRest
  /\ thread = [t \in Threads |-> Nobody]
  /\ ntpd = Waiting
  /\ tick = FirstTick
  /\ puts = 0
  /\ dropped = {} /\ disturbed = {}

-----------------------------------------------------------------------------
(* Lending the segments. *)

Writing == {"clock", "receive", "done"}

\* The threads that are in the middle of a put to a segment.
Writers(u) == {t \in Threads : thread[t].pc \in Writing /\ thread[t].unit = u}

Accessed(u) == Writers(u) # {} \/ (main.pc \in Writing /\ main.unit = u) \/ (ntpd.pc # "idle" /\ ntpd.unit = u)

Running(s) == {t \in Threads : thread[t].pc # "none" /\ thread[t].slot = s}

\* ntpshm_alloc: the first attached segment that is not in use.
Least(S) == CHOOSE u \in S : \A v \in S : u <= v
Alloc(free) == IF free = {} THEN Unlinked ELSE Least(free)

\* The segments a device gets when it is linked: one for fixes, one for pulses.
LinkedTo ==
  LET free  == attached \ inUse
      index == Alloc(free)
  IN  [shmindex |-> index,
       shmTimeP |-> IF shmTimePPS /\ index # Unlinked THEN Alloc(free \ {index}) ELSE Unlinked]

Held(link) == {link.shmindex, link.shmTimeP} \ {Unlinked}

Started(s) == [Nobody EXCEPT !.pc = "await", !.slot = s]

\* ntpd_link_activate: the segments are cleared, and the second starts a thread.
Activate(s, link) ==
  /\ inUse' = inUse \cup Held(link)
  /\ segment' = [u \in Units |-> IF u \in Held(link) THEN Cleared ELSE segment[u]]
  /\ disturbed' = (disturbed \ Held(link)) \cup {u \in Held(link) : Accessed(u)}
  /\ IF link.shmTimeP = Unlinked
     THEN UNCHANGED thread
     ELSE \E t \in Threads : /\ thread[t].pc = "none"
                             /\ thread' = [thread EXCEPT ![t] = Started(s)]

\* The devices added so far: the first, the second ... of each slot.
Additions == {add \in Slots \X (1..MaxAdds) : add[2] <= slot[add[1]].adds}

\* add_device: gpsd_init leaves ship_to_ntpd and last_fixtime as the last device of the slot
\* left them; with -n the device is opened, which may fail.
Add(s) ==
  /\ main.pc = "idle" /\ ~slot[s].known
  /\ Cardinality(Additions) < MaxAdds
  /\ \E opens \in {shmTimePPS, FALSE} :
       slot' = [slot EXCEPT ![s] =
                  [Unused EXCEPT !.known = TRUE, !.open = opens, !.openings = IF opens THEN 1 ELSE 0,
                                 !.adds = slot[s].adds + 1,
                                 !.shmindex = LinkedTo.shmindex, !.shmTimeP = LinkedTo.shmTimeP,
                                 !.ship = slot[s].ship, !.last = slot[s].last]]
  /\ Activate(s, LinkedTo)
  /\ UNCHANGED <<attached, shmTimePPS, main, ntpd, tick, puts, dropped>>

\* Broken: a device is linked whenever it is opened.
Open_Links(s) ==
  /\ main.pc = "idle" /\ slot[s].known /\ ~slot[s].open
  /\ slot' = [slot EXCEPT ![s].open = TRUE, ![s].openings = 2,
                          ![s].shmindex = LinkedTo.shmindex, ![s].shmTimeP = LinkedTo.shmTimeP]
  /\ Activate(s, LinkedTo)
  /\ UNCHANGED <<attached, shmTimePPS, main, ntpd, tick, puts, dropped>>

\* open_device and the openings in awaken and in the main loop: none of them links the device.
Open(s) ==
  /\ main.pc = "idle" /\ slot[s].known /\ ~slot[s].open
  /\ slot' = [slot EXCEPT ![s].open = TRUE,
                          ![s].openings = IF slot[s].openings = 0 THEN 1 ELSE 2]
  /\ UNCHANGED <<attached, shmTimePPS, inUse, segment, main, thread, ntpd, tick, puts, dropped,
                 disturbed>>

\* Broken: only the segment of the fixes is given back.
Unlink_Half(s) ==
  /\ inUse' = inUse \ {slot[s].shmindex}
  /\ slot' = [slot EXCEPT ![s].open = FALSE, ![s].shmindex = Unlinked, ![s].shmTimeP = Unlinked]

\* Broken: the segments are given back and still used.
Unlink_Keeps(s) ==
  /\ inUse' = inUse \ Held(slot[s])
  /\ slot' = [slot EXCEPT ![s].open = FALSE]

\* ntpd_link_deactivate, and gpsd_close after it.
Unlink(s) ==
  /\ inUse' = inUse \ Held(slot[s])
  /\ slot' = [slot EXCEPT ![s].open = FALSE, ![s].shmindex = Unlinked, ![s].shmTimeP = Unlinked]

\* deactivate_device of an open device.
Close(s) ==
  /\ main.pc = "idle" /\ slot[s].open
  /\ Unlink(s)
  /\ UNCHANGED <<attached, shmTimePPS, segment, main, thread, ntpd, tick, puts, dropped, disturbed>>

\* "-" on the control socket: free_device of a device that deactivate_device leaves alone,
\* because it is closed.
Remove(s) ==
  /\ main.pc = "idle" /\ slot[s].known /\ ~slot[s].open
  /\ slot' = [slot EXCEPT ![s].known = FALSE, ![s].shmindex = Unlinked, ![s].shmTimeP = Unlinked]
  /\ dropped' = dropped \cup Held(slot[s])
  /\ UNCHANGED <<attached, shmTimePPS, inUse, segment, main, thread, ntpd, tick, puts, disturbed>>

-----------------------------------------------------------------------------
(* Fixes. *)

\* consume_packets: a cycle begins without a time for ntpd (CLEAR_IS).
BeginCycle(s) ==
  /\ main.pc = "idle" /\ slot[s].open /\ slot[s].ship
  /\ slot' = [slot EXCEPT ![s].ship = FALSE]
  /\ UNCHANGED <<attached, shmTimePPS, inUse, segment, main, thread, ntpd, tick, puts, dropped,
                 disturbed>>

Fix(s, second) ==
  [at |-> second, put |-> puts + 1, of |-> "fix", opening |-> IF slot[s].openings = 1 THEN 1 ELSE 0]

\* The first step of a put: valid = 0, count++.
Invalidated(u) == [segment EXCEPT ![u].valid = FALSE, ![u].count = @ + 1]

\* The last: count++, valid = 1.
Validated(u) == [segment EXCEPT ![u].valid = TRUE, ![u].count = @ + 1]

\* consume_packets and ntpshm_put: a packet with the time of the fix of this second, which is
\* received as the second goes on or as it ends; a second the segment already has is skipped.
Ship(s) ==
  /\ main.pc = "idle" /\ slot[s].open /\ puts < MaxPuts
  /\ LET second == (tick - 1) \div 2
         u      == slot[s].shmindex
         gives  == u # Unlinked /\ segment[u].clock.at # second
     IN  /\ second # slot[s].last
         /\ slot' = [slot EXCEPT ![s].ship = TRUE, ![s].last = second]
         /\ IF gives
            THEN /\ main' = [pc |-> "clock", unit |-> u, clock |-> Fix(s, second),
                             receive |-> [Fix(s, second) EXCEPT !.at = tick]]
                 /\ segment' = Invalidated(u)
                 /\ disturbed' = IF Writers(u) # {} THEN disturbed \cup {u} ELSE disturbed
                 /\ puts' = puts + 1
            ELSE UNCHANGED <<main, segment, disturbed, puts>>
  /\ UNCHANGED <<attached, shmTimePPS, inUse, thread, ntpd, tick, dropped>>

PutClock ==
  /\ main.pc = "clock"
  /\ segment' = [segment EXCEPT ![main.unit].clock = main.clock]
  /\ main' = [main EXCEPT !.pc = "receive"]
  /\ UNCHANGED <<linkVars, thread, ntpd, tick, puts, disturbed>>

PutReceive ==
  /\ main.pc = "receive"
  /\ segment' = [segment EXCEPT ![main.unit].receive = main.receive]
  /\ main' = [main EXCEPT !.pc = "done"]
  /\ UNCHANGED <<linkVars, thread, ntpd, tick, puts, disturbed>>

\* Broken: the count is not taken again after the stamps.
EndPut_CountedOnce ==
  /\ main.pc = "done"
  /\ segment' = [segment EXCEPT ![main.unit].valid = TRUE]
  /\ main' = AtRest
  /\ UNCHANGED <<linkVars, thread, ntpd, tick, puts, disturbed>>

EndPut ==
  /\ main.pc = "done"
  /\ segment' = Validated(main.unit)
  /\ main' = AtRest
  /\ UNCHANGED <<linkVars, thread, ntpd, tick, puts, disturbed>>

-----------------------------------------------------------------------------
(* Pulses: gpsd_ppsmonitor.  A thread knows its slot, not its device. *)

Device(t) == slot[thread[t].slot]
Ended(t) == thread' = [thread EXCEPT ![t] = Nobody]
quietVars == <<linkVars, main, ntpd, tick>>

\* TIOCMIWAIT is called on the descriptor the slot has now, and fails when there is none.
WaitsAgain(t) ==
  thread' = [thread EXCEPT ![t] = IF Device(t).open THEN [Started(@.slot) EXCEPT !.pc = "wait"] ELSE Nobody]

\* The loop that waits for the device to go active.
Awaits(t) ==
  /\ thread[t].pc = "await" /\ Device(t).open
  /\ WaitsAgain(t)
  /\ UNCHANGED <<quietVars, segment, puts, disturbed>>

\* A pulse, at the beginning of a second, is stamped.  A call that waits when its descriptor
\* is closed goes on waiting on the line.
Wakes(t) ==
  /\ thread[t].pc = "wait" /\ tick % 2 = 0
  /\ thread' = [thread EXCEPT ![t].pc = "woken", ![t].tv = tick]
  /\ UNCHANGED <<quietVars, segment, puts, disturbed>>

\* TIOCMIWAIT fails: the line was hung up.
WaitFails(t) ==
  /\ thread[t].pc = "wait"
  /\ Ended(t)
  /\ UNCHANGED <<quietVars, segment, puts, disturbed>>

\* TIOCMGET fails on a closed descriptor, and ends the thread; an edge is rejected (by its
\* shape, PpsEdges, or for want of a fix), or ntpshm_pps finds a segment missing.
Rejects(t) ==
  /\ thread[t].pc = "woken"
  /\ WaitsAgain(t)
  /\ UNCHANGED <<quietVars, segment, puts, disturbed>>

\* ntpshm_pps goes on with the two segments it finds.
SeesEdge(t) ==
  /\ thread[t].pc = "woken" /\ Device(t).open /\ Device(t).ship
  /\ Device(t).shmindex # Unlinked /\ Device(t).shmTimeP # Unlinked
  /\ thread' = [thread EXCEPT ![t].pc = "look", ![t].from = Device(t).shmindex,
                              ![t].unit = Device(t).shmTimeP,
                              ![t].opening = IF Device(t).openings = 1 THEN 1 ELSE 0]
  /\ UNCHANGED <<quietVars, segment, puts, disturbed>>

\* Broken: the fix may be two seconds old.
Fresh_TwoSeconds(tv, receive) == tv - receive \in 0..4

\* l_offset: the fix was received in the second before the pulse.
Fresh(tv, receive) == tv - receive \in 0..2

\* ntpshm_pps reads when the fix was received ...
LooksAtReceive(t) ==
  /\ thread[t].pc = "look"
  /\ LET receive == segment[thread[t].from].receive
     IN  IF Fresh(thread[t].tv, receive.at)
         THEN thread' = [thread EXCEPT ![t].pc = "look2", ![t].receive = receive]
         ELSE WaitsAgain(t)
  /\ UNCHANGED <<quietVars, segment, puts, disturbed>>

\* ... and then the second it was for, which the pulse ends.
LooksAtClock(t) ==
  /\ thread[t].pc = "look2" /\ puts < MaxPuts
  /\ thread' = [thread EXCEPT ![t].pc = "clock", ![t].put = puts + 1,
                              ![t].clock = segment[thread[t].from].clock]
  /\ segment' = Invalidated(thread[t].unit)
  /\ puts' = puts + 1
  /\ disturbed' = IF Writers(thread[t].unit) # {} \/ (main.pc \in Writing /\ main.unit = thread[t].unit)
                  THEN disturbed \cup {thread[t].unit} ELSE disturbed
  /\ UNCHANGED quietVars

Pulse(t, at) == [at |-> at, put |-> thread[t].put, of |-> "pulse", opening |-> thread[t].opening]

StoresClock(t) ==
  /\ thread[t].pc = "clock"
  /\ segment' = [segment EXCEPT ![thread[t].unit].clock = Pulse(t, thread[t].clock.at + 1)]
  /\ thread' = [thread EXCEPT ![t].pc = "receive"]
  /\ UNCHANGED <<quietVars, puts, disturbed>>

StoresReceive(t) ==
  /\ thread[t].pc = "receive"
  /\ segment' = [segment EXCEPT ![thread[t].unit].receive = Pulse(t, thread[t].tv)]
  /\ thread' = [thread EXCEPT ![t].pc = "done"]
  /\ UNCHANGED <<quietVars, puts, disturbed>>

EndsStore(t) ==
  /\ thread[t].pc = "done"
  /\ segment' = Validated(thread[t].unit)
  /\ WaitsAgain(t)
  /\ UNCHANGED <<quietVars, puts, disturbed>>

-----------------------------------------------------------------------------
(* ntpd, by the protocol that ntpshm_put quotes. *)

readerFrame == <<linkVars, main, thread, tick, puts, disturbed>>

ReadsValid(u) ==
  /\ ntpd.pc = "idle" /\ u \in attached /\ segment[u].valid
  /\ ntpd' = [Waiting EXCEPT !.pc = "count", !.unit = u]
  /\ UNCHANGED <<readerFrame, segment>>

ReadsCount ==
  /\ ntpd.pc = "count"
  /\ ntpd' = [ntpd EXCEPT !.pc = "receive", !.count = segment[ntpd.unit].count]
  /\ UNCHANGED <<readerFrame, segment>>

ReadsReceive ==
  /\ ntpd.pc = "receive"
  /\ ntpd' = [ntpd EXCEPT !.pc = "clock", !.receive = segment[ntpd.unit].receive]
  /\ UNCHANGED <<readerFrame, segment>>

ReadsClock ==
  /\ ntpd.pc = "clock"
  /\ ntpd' = [ntpd EXCEPT !.pc = "compare", !.clock = segment[ntpd.unit].clock]
  /\ UNCHANGED <<readerFrame, segment>>

\* The count is read again; the values are used if it is the same.
Accepts == ntpd.pc = "compare" /\ segment[ntpd.unit].count = ntpd.count

\* Used or not, valid is cleared.
Takes ==
  /\ ntpd.pc = "compare"
  /\ segment' = [segment EXCEPT ![ntpd.unit].valid = FALSE]
  /\ ntpd' = Waiting
  /\ UNCHANGED readerFrame

Tick ==
  /\ tick < MaxTick
  /\ tick' = tick + 1
  /\ UNCHANGED <<linkVars, segment, main, thread, ntpd, puts, disturbed>>

-----------------------------------------------------------------------------
ShmNext ==
  \/ \E s \in Slots : Add(s) \/ Open(s) \/ Close(s) \/ Remove(s) \/ BeginCycle(s) \/ Ship(s)
  \/ PutClock \/ PutReceive \/ EndPut
  \/ \E t \in Threads : \/ Awaits(t) \/ Wakes(t) \/ WaitFails(t) \/ Rejects(t) \/ SeesEdge(t)
                        \/ LooksAtReceive(t) \/ LooksAtClock(t)
                        \/ StoresClock(t) \/ StoresReceive(t) \/ EndsStore(t)
  \/ \E u \in Units : ReadsValid(u)
  \/ ReadsCount \/ ReadsClock \/ ReadsReceive \/ Takes
  \/ Tick

ShmSpec == ShmInit /\ [][ShmNext]_shmVars

-----------------------------------------------------------------------------
(* What holds. *)

\* Every variable keeps its type; a segment that is written to is attached.
ShmTypeOK ==
  /\ attached \subseteq Units /\ shmTimePPS \in BOOLEAN
  /\ inUse \subseteq attached /\ dropped \subseteq Units /\ disturbed \subseteq Units
  /\ segment \in [Units -> [valid : BOOLEAN, count : 0..(2 * MaxPuts), clock : Stamps, receive : Stamps]]
  /\ slot \in [Slots -> [known : BOOLEAN, open : BOOLEAN, openings : 0..2, adds : 0..MaxAdds,
                        shmindex : attached \cup {Unlinked}, shmTimeP : attached \cup {Unlinked},
                        ship : BOOLEAN, last : 0..MaxTick]]
  /\ main.pc \in Writing => main.unit \in attached
  /\ \A t \in Threads : thread[t].pc \in Writing => thread[t].unit \in attached
  /\ tick \in FirstTick..MaxTick /\ puts \in 0..MaxPuts

Known == {s \in Slots : slot[s].known}

\* No segment is lent twice or lost: those in use are those of the known devices, no two of
\* which share one, and those of devices that were removed while they were closed, which
\* nothing gives back (deactivate_device, gpsd.c).
SegmentsAreAccounted ==
  /\ inUse = dropped \cup UNION {Held(slot[s]) : s \in Known}
  /\ \A s \in Known : /\ Held(slot[s]) \cap dropped = {}
                      /\ slot[s].shmindex # Unlinked => slot[s].shmindex # slot[s].shmTimeP
                      /\ \A other \in Known \ {s} : Held(slot[s]) \cap Held(slot[other]) = {}

\* "do not start more than one ntp thread" (add_device): a slot has no more threads than
\* devices were ever put into it.  A thread of an earlier device may still be there, waiting
\* for the slot to be opened or on the line of the closed device.
OneThreadADevice == \A s \in Slots : Cardinality(Running(s)) <= slot[s].adds

\* A device is linked when it is added and never again: every time in a segment is from the
\* first opening of its device, and one that is closed and opened again gives no time.
OnlyTheFirstOpeningIsTimed ==
  \A u \in Units : \A w \in {segment[u].clock, segment[u].receive} : w.put # 0 => w.opening = 1

\* A device is linked to ntpd once, when it is added: which segments are lent, what they
\* hold and which threads run follows from that and not from how often it was opened.
DevicesAreLinkedOnce ==
  ShmTypeOK /\ SegmentsAreAccounted /\ OneThreadADevice /\ OnlyTheFirstOpeningIsTimed

\* The two time stamps that ntpd uses are of one put, as the count is there to ensure, unless
\* it read the count in the middle of a put (it was odd, which neither side looks at), or
\* writers met in the segment or it was lent out again during an access.
TornNeedsAnOddCount ==
  Accepts /\ ntpd.clock.put # ntpd.receive.put => ntpd.count % 2 = 1 \/ ntpd.unit \in disturbed

\* The thread that looks at the segment of the fixes takes no part in its protocol.  The
\* second it gives to a pulse is that of the pulse, if the two stamps it looked at are of one
\* fix, received within the second it is for.
PulseHasItsSecond ==
  \A t \in Threads :
    LET fix == thread[t].clock IN
    (/\ thread[t].pc \in Writing
     /\ fix.of = "fix" /\ fix.put = thread[t].receive.put
     /\ thread[t].receive.at <= 2 * fix.at + 1)
    => 2 * (fix.at + 1) = thread[t].tv

\* What ntpd uses of a segment is one time, and a pulse is given the second it
\* begins, but for the reads that the parts name.
SamplesAreWhole == TornNeedsAnOddCount /\ PulseHasItsSecond

=============================================================================
