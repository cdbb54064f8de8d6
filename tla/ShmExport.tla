------------------------------ MODULE ShmExport ------------------------------
(***************************************************************************)
(* The shared-memory export of gpsd.  The daemon copies the state of a     *)
(* device into a segment between two bookends (shmexport.c); a client      *)
(* copies it out and compares the bookends (libgps_shm.c).  No lock is     *)
(* involved, and the segment outlives the daemon, whose tick restarts.     *)
(***************************************************************************)
EXTENDS Integers

CONSTANTS
  Words,      \* the words of gps_data_t, which memcpy moves one at a time
  Fd,         \* the word that holds gps_fd
  Readers,    \* clients that use the shared memory
  MaxStarts,  \* bound: starts of the daemon
  MaxTick,    \* bound: updates of one daemon (an int in the code)
  Barriers    \* barrier() orders memory: FALSE on all but i386 and x86_64

ASSUME ConstantsAssumption ==
  /\ Fd \in Words
  /\ MaxStarts \in Nat /\ MaxTick \in Nat
  /\ Barriers \in BOOLEAN

VARIABLES
  starts,     \* how often the daemon was started
  up,         \* it runs
  exports,    \* context.shmexport is not NULL
  tick,       \* the static counter of shm_update
  step,       \* where shm_update is
  todo,       \* the words memcpy has yet to copy in
  exists,     \* the segment has been created
  bookend1, bookend2, data,   \* the segment
  reader      \* the clients

daemonVars  == <<starts, up, exports, tick, step, todo>>
segmentVars == <<exists, bookend1, bookend2, data>>
vars == <<starts, up, exports, tick, step, todo, exists, bookend1, bookend2, data, reader>>

-----------------------------------------------------------------------------
\* A value in memory carries the report it belongs to: the update of one start of the
\* daemon.  Programs see the tick alone.
Stamp  == [run : 0..MaxStarts, tick : 0..MaxTick]
Zero   == [run |-> 0, tick |-> 0]      \* memory as the kernel hands it out
Hidden == [run |-> 0, tick |-> -1]     \* gps_fd = -1
Now    == [run |-> starts, tick |-> tick]

Idle == [link |-> "closed", pc |-> "idle", left |-> {}, before |-> Zero,
         after |-> Zero, copy |-> [w \in Words |-> Zero], got |-> {}]

Init ==
  /\ starts = 0 /\ up = FALSE /\ exports = FALSE
  /\ tick = 0 /\ step = "idle" /\ todo = {}
  /\ exists = FALSE
  /\ bookend1 = Zero /\ bookend2 = Zero /\ data = [w \in Words |-> Zero]
  /\ reader = [r \in Readers |-> Idle]

-----------------------------------------------------------------------------
(* The daemon. *)

\* Broken: the counter of a new daemon starts one below.
Boot_FromMinusOne ==
  /\ ~up /\ starts < MaxStarts
  /\ starts' = starts + 1 /\ up' = TRUE /\ tick' = -1
  /\ exists' = TRUE /\ exports' = TRUE
  /\ UNCHANGED <<step, todo, bookend1, bookend2, data, reader>>

\* Broken: a new daemon clears the segment.
Boot_Clears ==
  /\ ~up /\ starts < MaxStarts
  /\ starts' = starts + 1 /\ up' = TRUE /\ tick' = 0
  /\ exists' = TRUE /\ exports' = TRUE
  /\ bookend1' = Zero /\ bookend2' = Zero /\ data' = [w \in Words |-> Zero]
  /\ UNCHANGED <<step, todo, reader>>

\* main() calls shm_acquire, which creates the segment unless it is there; shmget and
\* shmat may each fail, and the daemon then goes on without the export.
Boot ==
  /\ ~up /\ starts < MaxStarts
  /\ starts' = starts + 1 /\ up' = TRUE /\ tick' = 0
  /\ \E shmget, shmat \in BOOLEAN :
       /\ exists' = (exists \/ shmget)
       /\ exports' = (shmget /\ shmat)
  /\ UNCHANGED <<step, todo, bookend1, bookend2, data, reader>>

\* A terminating signal in the main loop, where shm_release detaches the segment, or
\* a kill at any point of an update: the segment stays as it is.
Ends ==
  /\ up
  /\ up' = FALSE /\ exports' = FALSE
  /\ step' = "idle" /\ todo' = {}
  /\ UNCHANGED <<starts, tick, segmentVars, reader>>

\* shm_update: ++tick.
StartUpdate ==
  /\ exports /\ step = "idle" /\ tick < MaxTick
  /\ tick' = tick + 1
  /\ step' = "bookend2" /\ todo' = Words
  /\ UNCHANGED <<starts, up, exports, segmentVars, reader>>

WriteBookend2 ==
  /\ step = "bookend2"
  /\ bookend2' = Now
  /\ step' = "data"
  /\ UNCHANGED <<starts, up, exports, tick, todo, exists, bookend1, data, reader>>

\* memcpy, in any order of words; with nothing to hold it in its place it may run
\* at any point of the call.
CopyIn(w) ==
  /\ step # "idle" /\ w \in todo
  /\ Barriers => step = "data"
  /\ data' = [data EXCEPT ![w] = Now]
  /\ todo' = todo \ {w}
  /\ UNCHANGED <<starts, up, exports, tick, step, exists, bookend1, bookend2, reader>>

\* Broken: the descriptor is not hidden.
HideFd_Not ==
  /\ step = "data" /\ Fd \notin todo
  /\ Barriers => todo = {}
  /\ step' = "bookend1"
  /\ UNCHANGED <<starts, up, exports, tick, todo, segmentVars, reader>>

\* shared->gpsdata.gps_fd = -1, after the copy of the same word in every build.
HideFd ==
  /\ step = "data" /\ Fd \notin todo
  /\ Barriers => todo = {}
  /\ data' = [data EXCEPT ![Fd] = Hidden]
  /\ step' = "bookend1"
  /\ UNCHANGED <<starts, up, exports, tick, todo, exists, bookend1, bookend2, reader>>

WriteBookend1 ==
  /\ step = "bookend1"
  /\ bookend1' = Now
  /\ step' = "return"
  /\ UNCHANGED <<starts, up, exports, tick, todo, exists, bookend2, data, reader>>

EndUpdate ==
  /\ step = "return" /\ todo = {}
  /\ step' = "idle"
  /\ UNCHANGED <<starts, up, exports, tick, todo, segmentVars, reader>>

-----------------------------------------------------------------------------
(* The clients. *)

\* gps_shm_open: there is a segment, whoever created it.
Open(r) ==
  /\ reader[r].link = "closed" /\ exists
  /\ reader' = [reader EXCEPT ![r].link = "shm", ![r].got = {}]
  /\ UNCHANGED <<daemonVars, segmentVars>>

\* gps_shm_read is called, gps_fd being -1.
BeginRead(r) ==
  /\ reader[r].link = "shm" /\ reader[r].pc = "idle"
  /\ reader' = [reader EXCEPT ![r].pc = "before", ![r].left = Words]
  /\ UNCHANGED <<daemonVars, segmentVars>>

\* Broken: the bookend that changes first is read before and after the copy.
ReadBefore_Second(r) ==
  /\ reader[r].pc = "before"
  /\ reader' = [reader EXCEPT ![r].pc = "data", ![r].before = bookend2]
  /\ UNCHANGED <<daemonVars, segmentVars>>

ReadBefore(r) ==
  /\ reader[r].pc = "before"
  /\ reader' = [reader EXCEPT ![r].pc = "data", ![r].before = bookend1]
  /\ UNCHANGED <<daemonVars, segmentVars>>

\* memcpy into noclobber, free to move where there is no barrier.
CopyOut(r, w) ==
  /\ reader[r].pc # "idle" /\ w \in reader[r].left
  /\ Barriers => reader[r].pc = "data"
  /\ reader' = [reader EXCEPT ![r].copy[w] = data[w], ![r].left = @ \ {w}]
  /\ UNCHANGED <<daemonVars, segmentVars>>

ReadAfter(r) ==
  /\ reader[r].pc = "data"
  /\ Barriers => reader[r].left = {}
  /\ reader' = [reader EXCEPT ![r].pc = "compare", ![r].after = bookend2]
  /\ UNCHANGED <<daemonVars, segmentVars>>

\* Broken: a report is good once there is one.
Agree_Later(c) == c.before.tick = c.after.tick /\ c.before.tick > 1

\* before == after
Agree(c) == c.before.tick = c.after.tick

\* The copy goes to the caller, gps_fd included, which decides what the next gps_read
\* will read; or gps_shm_read returns 0.
Compare(r) ==
  LET c == reader[r]
  IN  /\ c.pc = "compare" /\ c.left = {}
      /\ reader' = [reader EXCEPT ![r] =
           IF Agree(c)
             THEN [@ EXCEPT !.pc = "idle",
                            !.got = {[before |-> c.before, after |-> c.after, copy |-> c.copy]},
                            !.link = IF c.copy[Fd] = Hidden THEN "shm" ELSE "socket"]
             ELSE [@ EXCEPT !.pc = "idle"]]
      /\ UNCHANGED <<daemonVars, segmentVars>>

\* gps_close
Close(r) ==
  /\ reader[r].link # "closed" /\ reader[r].pc = "idle"
  /\ reader' = [reader EXCEPT ![r] = Idle]
  /\ UNCHANGED <<daemonVars, segmentVars>>

-----------------------------------------------------------------------------
Update ==
  \/ WriteBookend2 \/ (\E w \in Words : CopyIn(w))
  \/ HideFd \/ WriteBookend1 \/ EndUpdate

Read(r) ==
  \/ BeginRead(r) \/ ReadBefore(r) \/ (\E w \in Words : CopyOut(r, w))
  \/ ReadAfter(r) \/ Compare(r)

Next ==
  \/ Boot \/ Ends \/ StartUpdate \/ Update
  \/ \E r \in Readers : Open(r) \/ Read(r) \/ Close(r)

Spec == Init /\ [][Next]_vars

\* An update that has begun goes on, and a client reads in a loop (gpxlogger.c:351-358);
\* nobody is bound to start a daemon, to send it data or to leave.
FairSpec == Spec /\ WF_vars(Update) /\ \A r \in Readers : WF_vars(Read(r))

-----------------------------------------------------------------------------
(* Properties. *)

Value == Stamp \cup {Hidden}

Reading == [before : Stamp, after : Stamp, copy : [Words -> Value]]

Client == [link : {"closed", "shm", "socket"}, pc : {"idle", "before", "data", "compare"},
           left : SUBSET Words, before : Stamp, after : Stamp,
           copy : [Words -> Value], got : SUBSET Reading]

\* Every variable stays in its domain (shmexport.c:60-94, libgps_shm.c:54-104).
TypeOK ==
  /\ starts \in 0..MaxStarts /\ tick \in 0..MaxTick
  /\ up \in BOOLEAN /\ exports \in BOOLEAN /\ exists \in BOOLEAN
  /\ step \in {"idle", "bookend2", "data", "bookend1", "return"}
  /\ todo \in SUBSET Words
  /\ bookend1 \in Stamp /\ bookend2 \in Stamp /\ data \in [Words -> Value]
  /\ reader \in [Readers -> Client]

\* d is the report of stamp s, with the descriptor of the daemon hidden; a segment that
\* was never written is zero throughout.
Whole(d, s) ==
  /\ \A w \in Words \ {Fd} : d[w] = s
  /\ d[Fd] = IF s = Zero THEN Zero ELSE Hidden

\* What a client gets is one report and not a mixture of two, unless the bookends it
\* compared were written by two daemons (shmexport.c:70-79, libgps_shm.c:67-77).
OneDaemonIsWhole ==
  \A r \in Readers : \A g \in reader[r].got :
    g.before.run = g.after.run => Whole(g.copy, g.before)

\* Where a call of gps_shm_read is, and what the last that succeeded gave to the caller.
CallOf(c) == CASE c.pc = "idle"   -> "idle"
               [] c.pc = "before" -> "asked"
               [] OTHER           -> "looked"

Gave(c) == {[report |-> g.before, whole |-> Whole(g.copy, g.before)] : g \in c.got}

\* The first bookend is the register: it is written when the report is complete.
Register ==
  INSTANCE ReportRegister WITH
    current <- bookend1,
    call    <- [r \in Readers |-> CallOf(reader[r])],
    seen    <- [r \in Readers |-> reader[r].before],
    got     <- [r \in Readers |-> Gave(reader[r])]

\* What a client gets is the report that stood in the segment at one point of its call, and
\* all of it, unless that was left by an earlier daemon: the two bookends and the
\* comparison make a register of the segment (shmexport.c:60-94, libgps_shm.c:54-104).
RegisterSpec == Register!Spec

\* a is not a later report than b.
NotLater(a, b) == a.run < b.run \/ (a.run = b.run /\ a.tick <= b.tick)

\* A client never goes back to an earlier report, not even when a daemon is restarted and
\* counts from 1 again (shmexport.c:60-94).
NeverGoesBack ==
  [][\A r \in Readers : \A old \in reader[r].got, new \in reader'[r].got :
        NotLater(old.before, new.before)]_vars

\* A client leaves the shared memory for a socket only after it read the segment before
\* the first report, or across a restart (libgps_shm.c:88-91, libgps_core.c:123-133).
LostOnlyWithoutReport ==
  \A r \in Readers : reader[r].link = "socket" =>
    \E g \in reader[r].got : g.before = Zero \/ g.before.run # g.after.run

\* The segment holds a whole report and it is not being written.
Quiet == step = "idle" /\ bookend1.tick = bookend2.tick

\* Once the daemon pauses after an update, a client that keeps reading gets the last
\* report, unless it is lost or closes (libgps_shm.c:86-103).
QuietIsRead ==
  \A r \in Readers :
    <>[](Quiet /\ reader[r].link = "shm")
      => <>[](\E g \in reader[r].got : g.before = bookend1)

=============================================================================
