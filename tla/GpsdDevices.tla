----------------------------- MODULE GpsdDevices -----------------------------
(***************************************************************************)
(* gpsd's main loop (gpsd.c:2256-2558): the pool of devices, the clients,   *)
(* the descriptors select() listens to, and the timers that release idle    *)
(* devices, retry closed ones and drop idle clients.                        *)
(*                                                                          *)
(* The loop is one thread.  A pass is select(), one accept(), one control   *)
(* connection, then every device, every client and every device again in    *)
(* the order of their slots; what the outside does is chosen where the loop *)
(* looks at it.  A time stamp is kept as its age in ticks, only up to the   *)
(* first age beyond the timeout it is compared with.                        *)
(*                                                                          *)
(* The descriptors that exist for as long as the process (the listening     *)
(* sockets) are the one descriptor Base.  The connections to the accounting *)
(* server, and the descriptors they cost, are in module Accounting.         *)
(***************************************************************************)
EXTENDS Integers, Sequences, FiniteSets

CONSTANTS
  Path,            \* names of devices
  NtripPath,       \* those that are ntrip:// sources
  NoPath,          \* the empty name of a free slot
  All,             \* the watch of a client that names no device
  Off,             \* the watch of a client that is no watcher
  Slots,           \* MAXDEVICES
  Clients,         \* MAXSUBSCRIBERS
  MaxFd,           \* descriptors the process may have beyond Base
  Argv,            \* the devices named on the command line
  ReleaseTimeout,  \* RELEASE_TIMEOUT, in ticks
  Reconnect,       \* DEVICE_RECONNECT, in ticks
  CommandTimeout,  \* COMMAND_TIMEOUT, in ticks
  MaxHups          \* bound: SIGHUPs received

ASSUME NamesDiffer ==
  /\ NtripPath \subseteq Path
  /\ NoPath \notin Path /\ All \notin Path /\ Off \notin Path /\ All # Off
  /\ Argv \in Seq(Path)

ASSUME LimitsAreNumbers ==
  /\ Slots \in Nat \ {0} /\ Clients \in Nat \ {0} /\ MaxFd \in Nat
  /\ ReleaseTimeout \in Nat /\ Reconnect \in Nat /\ CommandTimeout \in Nat
  /\ MaxHups \in Nat

Slot   == 1..Slots
Client == 1..Clients
Base   == 0
NoFd   == -1     \* gps_fd of a closed device, UNALLOCATED_FD of a free client slot
Never  == -1     \* a time stamp that is 0
Fd     == 1..MaxFd
Watch  == Path \cup {All, Off}

VARIABLES
  dev,     \* the pool: what struct gps_device_t keeps of each slot
  sub,     \* the clients: descriptor, policy, age of the last command
  allFds,  \* all_fds
  maxfd,   \* maxfd
  open,    \* descriptors the kernel has open for gpsd
  fresh,   \* descriptors opened since select() returned although it reported them
  ctl,     \* the control connection being served
  pc,      \* where the loop is
  at,      \* the slot it is at
  todo,    \* what is left of an inner loop: slots to awaken, arguments to add
  rfds,    \* the descriptors select() may report in this pass
  hups     \* SIGHUPs received

daemonVars == <<dev, sub, allFds, maxfd, open, fresh>>
vars == <<dev, sub, allFds, maxfd, open, fresh, ctl, pc, at, todo, rfds, hups>>

Age(timeout) == Never..timeout + 1

Device == [path: Path \cup {NoPath}, fd: Fd \cup {NoFd},
           synced: BOOLEAN,                \* packet.type # BAD_PACKET
           released: Age(ReleaseTimeout), opened: Never..Reconnect,
           reawake: BOOLEAN, zerokill: BOOLEAN,
           conn: {"init", "probe", "get", "established"}]
Subscriber == [fd: Fd \cup {NoFd, Base}, watch: Watch, active: Age(CommandTimeout)]

EmptySlot  == [path |-> NoPath, fd |-> NoFd, synced |-> FALSE, released |-> Never,
               opened |-> Never, reawake |-> FALSE, zerokill |-> FALSE,
               conn |-> "init"]
FreeClient == [fd |-> NoFd, watch |-> Off, active |-> Never]

\* The daemon's data as one record, so that a handler reads as the calls it makes.
Daemon == [dev |-> dev, sub |-> sub, all |-> allFds, max |-> maxfd,
           open |-> open, fresh |-> fresh]
Becomes(t) ==
  /\ dev' = t.dev /\ sub' = t.sub /\ allFds' = t.all /\ maxfd' = t.max
  /\ open' = t.open /\ fresh' = t.fresh

Least(S)    == CHOOSE x \in S : \A y \in S : x <= y
Greatest(S) == CHOOSE x \in S : \A y \in S : x >= y

-----------------------------------------------------------------------------
(* Descriptors *)

\* The kernel hands out the lowest free descriptor.
FreeFds(t) == Fd \ t.open
NextFd(t)  == Least(FreeFds(t))

\* Broken: maxfd is not adjusted.
Listen_NoMax(t, f) == [t EXCEPT !.all = @ \cup {f}]

\* FD_SET and adjust_max_fd(fd, true).
Listen(t, f) == [t EXCEPT !.all = @ \cup {f}, !.max = IF f > @ THEN f ELSE @]

\* FD_CLR and adjust_max_fd(fd, false), for each of a set of descriptors: whoever
\* clears the largest one looks for the next.
Unlisten(t, fds) ==
  LET rest == t.all \ fds
  IN  [t EXCEPT !.all = rest,
                !.max = IF @ \in fds THEN Greatest(rest \cup {Base}) ELSE @]

-----------------------------------------------------------------------------
(* Clients *)

Connected(t) == {c \in Client : t.sub[c].active # Never}
Watchers(t, p) == {c \in Connected(t) : t.sub[c].watch \in {All, p}}

\* detach_client, of each of a set of clients that are connected.
Detach(t, cs) ==
  LET fds == {t.sub[c].fd : c \in cs}
  IN  Unlisten([t EXCEPT !.open = @ \ fds,
                         !.sub = [c \in Client |->
                                    IF c \in cs THEN FreeClient ELSE @[c]]],
               fds)

-----------------------------------------------------------------------------
(* Devices *)

Pool(t) == {d \in Slot : t.dev[d].path # NoPath}

\* find_device: the first slot with that name.
Named(t, p) == {d \in Slot : t.dev[d].path = p}
Find(t, p)  == Least(Named(t, p))

\* gpsd_deactivate.  What the closed device keeps of packet type, release mark and
\* NTRIP state is dropped here: Activate sets all three before they are read.
Close(t, d) ==
  [t EXCEPT !.open = @ \ {t.dev[d].fd},
            !.dev[d] = [@ EXCEPT !.fd = NoFd, !.synced = FALSE,
                                 !.released = Never, !.conn = "init"]]

\* Broken: the descriptor stays in all_fds.
Deactivate_NoClr(t, d, gone) ==
  LET u == Detach(t, gone)
  IN  IF u.dev[d].fd = NoFd THEN u ELSE Close(u, d)

\* deactivate_device: the watchers are notified first, and a write to them may fail
\* and detach them (gone).
Deactivate(t, d, gone) ==
  LET u == Detach(t, gone)
  IN  IF u.dev[d].fd = NoFd THEN u ELSE Close(Unlisten(u, {u.dev[d].fd}), d)

\* gpsd_activate: opening may fail, and fails when no descriptor is left.  Neither
\* reawake nor zerokill is touched.
Activate(t, d, ok) ==
  IF ~ok \/ FreeFds(t) = {} THEN t
  ELSE LET f == NextFd(t)
       IN  [t EXCEPT !.open = @ \cup {f}, !.fresh = @ \cup (rfds \cap {f}),
                     !.dev[d] = [@ EXCEPT !.fd = f, !.synced = FALSE,
                          !.released = Never, !.opened = 0,
                          !.conn = IF t.dev[d].path \in NtripPath
                                   THEN "probe" ELSE "init"]]

\* Broken: the opened device is not listened to.
Awaken_NoSet(t, d, ok) == IF t.dev[d].fd # NoFd THEN t ELSE Activate(t, d, ok)

\* awaken.
Awaken(t, d, ok) ==
  IF t.dev[d].fd # NoFd THEN t
  ELSE LET u == Activate(t, d, ok)
       IN  IF u.dev[d].fd = NoFd THEN u ELSE Listen(u, u.dev[d].fd)

\* Broken: the device is opened at once, as with -n.
AddDevice_Opens(t, p, gone) ==
  IF Pool(t) = Slot THEN t
  ELSE LET d == Least(Slot \ Pool(t))
       IN  Awaken(Detach([t EXCEPT !.dev[d] =
                            [@ EXCEPT !.path = p, !.fd = NoFd, !.synced = FALSE,
                                      !.reawake = FALSE, !.zerokill = FALSE]], gone),
                  d, TRUE)

\* add_device (without -n the device is left closed); gone are the clients lost
\* when they are notified.
AddDevice(t, p, gone) ==
  IF Pool(t) = Slot THEN t
  ELSE LET d == Least(Slot \ Pool(t))
       IN  Detach([t EXCEPT !.dev[d] =
                     [@ EXCEPT !.path = p, !.fd = NoFd, !.synced = FALSE,
                               !.reawake = FALSE, !.zerokill = FALSE]], gone)

-----------------------------------------------------------------------------
(* The loop *)

Init ==
  /\ dev = [d \in Slot |-> EmptySlot]
  /\ sub = [c \in Client |-> FreeClient]
  /\ allFds = {Base} /\ maxfd = Base
  /\ open = {} /\ fresh = {} /\ ctl = NoFd
  /\ pc = "args" /\ at = 1 /\ todo = 1..Len(Argv)
  /\ rfds = {} /\ hups = 0

Goto(p)  == pc' = p /\ at' = 1
Stay     == UNCHANGED <<pc, at>>
NextSlot == IF at < Slots THEN pc' = pc /\ at' = at + 1
            ELSE Goto(IF pc = "device" THEN "client" ELSE "select")

\* After the last client nobody looks at what select() reported.
NextClient ==
  IF at < Clients THEN pc' = "client" /\ at' = at + 1 /\ UNCHANGED rfds
                  ELSE Goto("release") /\ rfds' = {}

\* The devices of the command line go into the pool.
AddArgument ==
  /\ pc = "args"
  /\ IF todo = {}
     THEN Goto("select") /\ UNCHANGED <<daemonVars, todo>>
     ELSE LET i == Least(todo)
          IN  /\ \E gone \in SUBSET Watchers(Daemon, Argv[i]) :
                   Becomes(AddDevice(Daemon, Argv[i], gone))
              /\ todo' = todo \ {i}
              /\ Stay
  /\ UNCHANGED <<ctl, rfds, hups>>

\* Broken: the age is not capped.
Older_Uncapped(x, timeout) == IF x = Never THEN x ELSE x + 1

\* How old a time stamp is: beyond its timeout it ages no more.
Older(x, timeout) == IF x = Never \/ x > timeout THEN x ELSE x + 1

\* A stamp older than DEVICE_RECONNECT means what no stamp means: the device may be
\* tried.
Fades(x) == IF x = Never \/ x >= Reconnect THEN Never ELSE x + 1

\* Time passes while select() waits: a tick, or less.  Ages nobody compares stand
\* still.
Aged(tick) ==
  /\ dev' = [d \in Slot |->
       [dev[d] EXCEPT
          !.released = IF tick THEN Older(@, ReleaseTimeout) ELSE @,
          !.opened   = IF tick THEN Fades(@) ELSE @]]
  /\ sub' = [c \in Client |->
       [sub[c] EXCEPT !.active = IF tick /\ sub[c].watch = Off
                                 THEN Older(@, CommandTimeout) ELSE @]]

Selected == {f \in allFds : f <= maxfd}

\* select() returns; which of its descriptors are ready is chosen where they are read.
Select(tick) ==
  /\ pc = "select" /\ Selected \subseteq open \cup {Base}
  /\ Aged(tick)
  /\ rfds' = Selected \ {Base} /\ fresh' = {}
  /\ Goto("accept")
  /\ UNCHANGED <<allFds, maxfd, open, ctl, todo, hups>>

\* EBADF: one of the descriptors is closed, and the daemon gives up.
SelectFails ==
  /\ pc = "select" /\ ~(Selected \subseteq open \cup {Base})
  /\ pc' = "died"
  /\ UNCHANGED <<daemonVars, ctl, at, todo, rfds, hups>>

\* A signal ends the loop where its condition is read.  SIGHUP: the devices are
\* closed (gpsd_wrap), nothing else is undone, and those of the command line are
\* added again.
Restart ==
  /\ pc = "select" /\ hups < MaxHups
  /\ hups' = hups + 1
  /\ dev' = [d \in Slot |-> Close(Daemon, d).dev[d]]
  /\ open' = open \ {dev[d].fd : d \in Slot}
  /\ Goto("args") /\ todo' = 1..Len(Argv)
  /\ UNCHANGED <<sub, allFds, maxfd, fresh, ctl, rfds>>

\* SIGTERM, SIGINT or SIGQUIT: devices and clients are closed.
Terminate ==
  /\ pc = "select"
  /\ Becomes(Detach([Daemon EXCEPT !.dev = [d \in Slot |-> Close(Daemon, d).dev[d]],
                                   !.open = @ \ {dev[d].fd : d \in Slot}],
                    Connected(Daemon)))
  /\ pc' = "exited"
  /\ UNCHANGED <<ctl, at, todo, rfds, hups>>

-----------------------------------------------------------------------------
(* New connections *)

FreeSlots == {c \in Client : sub[c].fd = NoFd}

\* Nobody connects, accept() fails, or no slot is free and the connection is closed.
NobodyAccepted ==
  /\ pc = "accept" /\ Goto("control")
  /\ UNCHANGED <<daemonVars, ctl, todo, rfds, hups>>

\* The slot is taken first; where SO_LINGER cannot be set the connection is closed and
\* the slot stays taken.
SlotLost ==
  /\ pc = "accept" /\ FreeSlots # {} /\ FreeFds(Daemon) # {}
  /\ sub' = [sub EXCEPT ![Least(FreeSlots)].fd = Base]
  /\ Goto("control")
  /\ UNCHANGED <<dev, allFds, maxfd, open, fresh, ctl, todo, rfds, hups>>

\* The client is admitted and sent the banner; that write may fail.
Admit(ok) ==
  /\ pc = "accept" /\ FreeSlots # {} /\ FreeFds(Daemon) # {}
  /\ LET c == Least(FreeSlots)
         f == NextFd(Daemon)
         t == Listen([Daemon EXCEPT !.open = @ \cup {f}, !.fresh = @ \cup (rfds \cap {f}),
                                    !.sub[c] = [fd |-> f, watch |-> Off, active |-> 0]],
                     f)
     IN  Becomes(IF ok THEN t ELSE Detach(t, {c}))
  /\ Goto("control")
  /\ UNCHANGED <<ctl, todo, rfds, hups>>

NoControl ==
  /\ pc = "control" /\ Goto("device")
  /\ UNCHANGED <<daemonVars, ctl, todo, rfds, hups>>

\* A control connection is read until its client closes it: the loop waits for it.
ControlConnects ==
  /\ pc = "control" /\ FreeFds(Daemon) # {}
  /\ LET f == NextFd(Daemon)
     IN  /\ Becomes(Listen([Daemon EXCEPT !.open = @ \cup {f}, !.fresh = @ \cup (rfds \cap {f})], f))
         /\ ctl' = f
  /\ pc' = "commands"
  /\ UNCHANGED <<at, todo, rfds, hups>>

\* "-path"
ControlRemoves(p) ==
  /\ pc = "commands" /\ Named(Daemon, p) # {}
  /\ LET d == Find(Daemon, p)
     IN  \E gone \in SUBSET Watchers(Daemon, p) :
           LET t == Deactivate(Daemon, d, gone)
           IN  Becomes([t EXCEPT !.dev[d].path = NoPath])
  /\ Stay /\ UNCHANGED <<ctl, todo, rfds, hups>>

\* "+path"
ControlAdds(p) ==
  /\ pc = "commands" /\ Named(Daemon, p) = {}
  /\ \E gone \in SUBSET Watchers(Daemon, p) : Becomes(AddDevice(Daemon, p, gone))
  /\ Stay /\ UNCHANGED <<ctl, todo, rfds, hups>>

ControlCloses ==
  /\ pc = "commands"
  /\ Becomes(Unlisten([Daemon EXCEPT !.open = @ \ {ctl}], {ctl}))
  /\ ctl' = NoFd
  /\ Goto("device")
  /\ UNCHANGED <<todo, rfds, hups>>

-----------------------------------------------------------------------------
(* Devices are read *)

AtDevice == pc = "device"
IsOpen(d) == dev[d].path # NoPath /\ dev[d].fd # NoFd
Ready(d)  == IsOpen(d) /\ dev[d].fd \in rfds

\* An NTRIP source whose opening transaction is not complete.
Connecting(d) == dev[d].path \in NtripPath /\ dev[d].conn # "established"

AfterDevice == NextSlot /\ UNCHANGED <<ctl, todo, rfds, hups>>

\* Nothing to read, and nothing due: the 10 ms of DEVICE_REAWAKE are less than a
\* tick, they are over when DeviceReawakes says so.
DeviceQuiet ==
  /\ AtDevice
  /\ UNCHANGED daemonVars /\ AfterDevice

\* Broken: the end of the wait is not noted.
DeviceReawakes_Forgets ==
  /\ AtDevice /\ IsOpen(at) /\ dev[at].reawake
  /\ Becomes(Listen([Daemon EXCEPT !.dev[at].zerokill = TRUE], dev[at].fd))
  /\ AfterDevice

\* The wait after a zero-length read is over: the device is listened to again.
DeviceReawakes ==
  /\ AtDevice /\ IsOpen(at) /\ dev[at].reawake
  /\ Becomes(Listen([Daemon EXCEPT !.dev[at].reawake = FALSE,
                                   !.dev[at].zerokill = TRUE], dev[at].fd))
  /\ AfterDevice

\* gpsd_poll returns an error: a failed read, or no speed left to hunt for.
DeviceFails ==
  /\ AtDevice /\ Ready(at) /\ ~Connecting(at)
  /\ \E gone \in SUBSET Watchers(Daemon, dev[at].path) :
       Becomes(Deactivate(Daemon, at, gone))
  /\ AfterDevice

\* A first read of zero bytes: the device is left alone for a while.
DeviceEmpty ==
  /\ AtDevice /\ Ready(at) /\ ~Connecting(at) /\ ~dev[at].zerokill
  /\ Becomes(Unlisten([Daemon EXCEPT !.dev[at].reawake = TRUE], {dev[at].fd}))
  /\ AfterDevice

\* Again zero bytes after that: the device is closed.  An NTRIP source that worked is
\* opened again at once, and its descriptor listened to without adjust_max_fd.
DeviceKilled(ok) ==
  /\ AtDevice /\ Ready(at) /\ ~Connecting(at) /\ dev[at].zerokill
  /\ \E gone \in SUBSET Watchers(Daemon, dev[at].path) :
       LET t == Deactivate(Daemon, at, gone)
           u == Activate(t, at, ok)
       IN  Becomes(IF dev[at].conn # "established" THEN t
                   ELSE [u EXCEPT !.all = @ \cup ({u.dev[at].fd} \ {NoFd})])
  /\ AfterDevice

\* Data: the packets found go to the watchers, of which some may be lost.  Reading
\* goes on until nothing is left, or (fails) until it fails.
DeviceData(synced, fails) ==
  /\ AtDevice /\ Ready(at) /\ ~Connecting(at)
  /\ \E gone \in SUBSET Watchers(Daemon, dev[at].path) :
       LET t == Detach([Daemon EXCEPT !.dev[at].zerokill = FALSE,
                                      !.dev[at].reawake = FALSE,
                                      !.dev[at].synced = synced], gone)
       IN  Becomes(IF fails THEN Deactivate(t, at, {}) ELSE t)
  /\ AfterDevice

\* ntrip_open takes the opening transaction one step further: the source table is read
\* (more may follow), the probe's connection is replaced by the stream's, the stream's
\* answer is read; what goes wrong closes the device.
NtripMore ==
  /\ AtDevice /\ Ready(at) /\ dev[at].path \in NtripPath /\ dev[at].conn = "probe"
  /\ UNCHANGED daemonVars
  /\ AfterDevice

\* Broken: the probe's connection is not closed.
NtripRequests_NoClose ==
  /\ AtDevice /\ Ready(at) /\ dev[at].path \in NtripPath /\ dev[at].conn = "probe"
  /\ FreeFds(Daemon) # {}
  /\ LET f == dev[at].fd
         g == NextFd(Daemon)
     IN  Becomes([Daemon EXCEPT !.open = @ \cup {g},
                                !.all = (@ \ {f}) \cup {g},
                                !.dev[at].fd = g, !.dev[at].conn = "get"])
  /\ AfterDevice

NtripRequests ==
  /\ AtDevice /\ Ready(at) /\ dev[at].path \in NtripPath /\ dev[at].conn = "probe"
  /\ LET f == dev[at].fd
         t == [Daemon EXCEPT !.all = @ \ {f}, !.open = @ \ {f}]
         g == NextFd(t)
     IN  Becomes([t EXCEPT !.open = @ \cup {g}, !.fresh = @ \cup (rfds \cap {g}),
                           !.all = @ \cup {g},
                           !.dev[at].fd = g, !.dev[at].conn = "get"])
  /\ AfterDevice

NtripEstablished ==
  /\ AtDevice /\ Ready(at) /\ dev[at].path \in NtripPath /\ dev[at].conn = "get"
  /\ Becomes([Daemon EXCEPT !.dev[at].conn = "established"])
  /\ AfterDevice

NtripFails ==
  /\ AtDevice /\ Ready(at) /\ Connecting(at)
  /\ \E gone \in SUBSET Watchers(Daemon, dev[at].path) :
       Becomes(Deactivate(Daemon, at, gone))
  /\ AfterDevice

-----------------------------------------------------------------------------
(* Clients are read *)

AtClient == pc = "client"
Served   == at \in Connected(Daemon)
Readable == Served /\ sub[at].fd \in rfds

\* Broken: the watchers time out instead of the others.
TimedOut_Watcher ==
  Served /\ sub[at].watch # Off /\ sub[at].active > CommandTimeout

TimedOut == Served /\ sub[at].watch = Off /\ sub[at].active > CommandTimeout

ClientQuiet ==
  /\ AtClient /\ ~TimedOut
  /\ NextClient
  /\ UNCHANGED <<daemonVars, ctl, todo, hups>>

\* The client closed its end, or gave no command for too long.
ClientLeaves ==
  /\ AtClient /\ (Readable \/ TimedOut)
  /\ Becomes(Detach(Daemon, {at}))
  /\ NextClient
  /\ UNCHANGED <<ctl, todo, hups>>

\* Commands came in: the requests of the buffer are executed one by one, and answered
\* together.  DEVICES, VERSION and POLL change nothing.
ClientCommands ==
  /\ AtClient /\ Readable
  /\ sub' = [sub EXCEPT ![at].active = 0]
  /\ pc' = "request" /\ at' = at
  /\ UNCHANGED <<dev, allFds, maxfd, open, fresh, ctl, todo, rfds, hups>>

Policy(w) == [Daemon EXCEPT !.sub[at].watch = w]

\* WATCH of no device in particular: the whole pool is awakened.
WatchAll ==
  /\ pc = "request"
  /\ Becomes(Policy(All))
  /\ todo' = Pool(Daemon)
  /\ pc' = IF Pool(Daemon) = {} THEN "request" ELSE "awaken"
  /\ UNCHANGED <<at, ctl, rfds, hups>>

AwakenNext(ok) ==
  /\ pc = "awaken"
  /\ Becomes(Awaken(Daemon, Least(todo), ok))
  /\ todo' = todo \ {Least(todo)}
  /\ pc' = IF todo' = {} THEN "request" ELSE pc
  /\ UNCHANGED <<at, ctl, rfds, hups>>

\* WATCH of one device; the policy stays when there is no such device or it cannot
\* be opened.
WatchOne(p, ok) ==
  /\ pc = "request"
  /\ Becomes(IF Named(Daemon, p) = {} THEN Policy(p)
             ELSE Awaken(Policy(p), Find(Daemon, p), ok))
  /\ Stay /\ UNCHANGED <<ctl, todo, rfds, hups>>

\* WATCH that is turned off, or that is malformed: what was read of it is the policy.
WatchUnread(w) ==
  /\ pc = "request"
  /\ Becomes(Policy(w))
  /\ Stay /\ UNCHANGED <<ctl, todo, rfds, hups>>

\* DEVICE, of a device in the pool: it is awakened.
RequestDevice(p, ok) ==
  /\ pc = "request" /\ Named(Daemon, p) # {}
  /\ Becomes(Awaken(Daemon, Find(Daemon, p), ok))
  /\ Stay /\ UNCHANGED <<ctl, todo, rfds, hups>>

\* DEVICE that changes the speed of a device with one watcher: the packet state is
\* reset.
Reconfigure(p) ==
  /\ pc = "request" /\ Named(Daemon, p) # {}
  /\ LET d == Find(Daemon, p)
     IN  /\ Cardinality(Watchers(Daemon, p)) = 1 /\ dev[d].fd # NoFd
         /\ Becomes([Daemon EXCEPT !.dev[d].synced = FALSE])
  /\ Stay /\ UNCHANGED <<ctl, todo, rfds, hups>>

\* The answer is written; a write that fails detaches the client.
Reply(ok) ==
  /\ pc = "request"
  /\ Becomes(IF ok THEN Daemon ELSE Detach(Daemon, {at}))
  /\ NextClient
  /\ UNCHANGED <<ctl, todo, hups>>

-----------------------------------------------------------------------------
(* Devices are released and retried *)

Needed(d) == Watchers(Daemon, dev[d].path) # {}

AtRelease == pc = "release"

\* Broken: a device is marked once and not looked at again.
Expires_Once ==
  IsOpen(at) /\ ~Needed(at) /\ dev[at].synced /\ dev[at].released = Never

Expires == IsOpen(at) /\ ~Needed(at) /\ dev[at].synced

\* Broken: only an identified device is tried again.
Retries_Identified ==
  /\ dev[at].path # NoPath /\ dev[at].fd = NoFd /\ Needed(at)
  /\ dev[at].opened = Never /\ dev[at].synced

Retries ==
  /\ dev[at].path # NoPath /\ dev[at].fd = NoFd /\ Needed(at)
  /\ dev[at].opened = Never

AfterRelease == NextSlot /\ UNCHANGED <<ctl, todo, rfds, hups>>

\* A device no client needs is marked; an unidentified one is not.
MarkReleased ==
  /\ AtRelease /\ Expires /\ dev[at].released = Never
  /\ Becomes([Daemon EXCEPT !.dev[at].released = 0])
  /\ AfterRelease

\* RELEASE_TIMEOUT after the mark it is closed.
ReleaseDevice ==
  /\ AtRelease /\ Expires /\ dev[at].released > ReleaseTimeout
  /\ Becomes(Deactivate(Daemon, at, {}))
  /\ AfterRelease

\* A closed device with subscribers is tried again every DEVICE_RECONNECT.
RetryDevice(ok) ==
  /\ AtRelease /\ Retries
  /\ Becomes(Awaken([Daemon EXCEPT !.dev[at].opened = 0], at, ok))
  /\ AfterRelease

KeepDevice ==
  /\ AtRelease /\ ~Retries
  /\ Expires => dev[at].released \in 0..ReleaseTimeout
  /\ UNCHANGED daemonVars /\ AfterRelease

Ended == pc \in {"exited", "died"} /\ UNCHANGED vars

\* What the loop does by itself ...
Pass ==
  \/ AddArgument \/ SelectFails
  \/ \E tick \in BOOLEAN : Select(tick)
  \/ NobodyAccepted \/ SlotLost \/ \E ok \in BOOLEAN : Admit(ok)
  \/ NoControl \/ ControlConnects \/ ControlCloses
  \/ DeviceQuiet \/ DeviceReawakes \/ DeviceFails \/ DeviceEmpty
  \/ \E ok \in BOOLEAN : DeviceKilled(ok)
  \/ \E synced, fails \in BOOLEAN : DeviceData(synced, fails)
  \/ NtripMore \/ NtripRequests \/ NtripEstablished \/ NtripFails
  \/ ClientQuiet \/ ClientLeaves \/ ClientCommands
  \/ \E ok \in BOOLEAN : AwakenNext(ok) \/ Reply(ok)
  \/ MarkReleased \/ ReleaseDevice \/ KeepDevice
  \/ \E ok \in BOOLEAN : RetryDevice(ok)

\* ... and what it is asked to do.
Request ==
  \/ Restart \/ Terminate
  \/ \E p \in Path : ControlRemoves(p) \/ ControlAdds(p) \/ Reconfigure(p)
  \/ WatchAll
  \/ \E p \in Path, ok \in BOOLEAN : WatchOne(p, ok) \/ RequestDevice(p, ok)
  \/ \E w \in Watch : WatchUnread(w)

Next == Pass \/ Request \/ Ended

Spec == Init /\ [][Next]_vars

\* The loop never stops by itself, time passes, and no client sends requests for ever
\* without an answer: a buffer ends, and gpsdctl closes its connection after one
\* command (gpsdctl.c:81).
Fairness ==
  /\ WF_vars(Pass)
  /\ WF_vars(ControlCloses)
  /\ SF_vars(\E ok \in BOOLEAN : Reply(ok))
  /\ SF_vars(Select(TRUE)) /\ SF_vars(DeviceReawakes)

FairSpec == Spec /\ Fairness

-----------------------------------------------------------------------------
(* Properties *)

\* Every variable keeps its type.
TypeOK ==
  /\ dev \in [Slot -> Device] /\ sub \in [Client -> Subscriber]
  /\ allFds \subseteq Fd \cup {Base} /\ maxfd \in Fd \cup {Base}
  /\ open \subseteq Fd /\ fresh \subseteq Fd /\ ctl \in Fd \cup {NoFd}
  /\ pc \in {"args", "select", "accept", "control", "commands", "device", "client",
             "request", "awaken", "release", "exited", "died"}
  /\ at \in Nat \ {0} /\ todo \subseteq Nat
  /\ rfds \subseteq Fd /\ hups \in 0..MaxHups

DeviceFds == {d \in Slot : dev[d].fd # NoFd}
ClientFds == {c \in Client : sub[c].fd \in Fd}

\* No descriptor is lost or shared: what is open belongs to one device, one client or
\* the control connection, through failed opens, NTRIP's second connection, clients
\* lost while a device is closed, and restarts.
DescriptorsHaveOneOwner ==
  /\ open = {dev[d].fd : d \in DeviceFds} \cup {sub[c].fd : c \in ClientFds}
              \cup ({ctl} \ {NoFd})
  /\ Cardinality(open) = Cardinality(DeviceFds) + Cardinality(ClientFds)
                           + Cardinality({ctl} \ {NoFd})

\* Until a SIGHUP, all_fds has no closed descriptor, so select() cannot fail with
\* EBADF and the daemon cannot give up (gpsd.c:2278-2283).
SelectSeesOnlyOpen ==
  hups = 0 /\ pc # "exited" => allFds \subseteq open \cup {Base} /\ pc # "died"

\* The daemon's tables and its descriptor set agree with the kernel's table
\* of open files, whatever was opened, closed, handed over and given the same
\* number again.
DescriptorsAreKept == TypeOK /\ DescriptorsHaveOneOwner /\ SelectSeesOnlyOpen

\* An open device is listened to, or will be when its wait is over; every client is
\* listened to.  Nobody is forgotten by all_fds, whichever way he was opened.
EveryoneIsHeard ==
  /\ \A d \in DeviceFds : dev[d].fd \in allFds \/ dev[d].reawake
  /\ \A c \in Connected(Daemon) : sub[c].fd \in allFds

\* Until a SIGHUP, select() looks at every descriptor of all_fds, but for an NTRIP
\* source that was connected again after it had worked.
OnlyAReconnectIsDeaf ==
  hups = 0 /\ pc # "exited" =>
    \A f \in allFds : f > maxfd =>
      \E d \in Slot : dev[d].fd = f /\ dev[d].conn = "probe"

\* select() is asked about every open device and client, except about an
\* NTRIP source that got a higher descriptor when it was connected again.
EveryoneIsSelected == EveryoneIsHeard /\ OnlyAReconnectIsDeaf

\* Descriptors are reused within a pass, but what is read is what select() reported:
\* no reader's descriptor was opened after select() returned while its bit is set.
ReadsWhatSelectSaw ==
  /\ AtDevice /\ Ready(at) => dev[at].fd \notin fresh
  /\ AtClient /\ Readable => sub[at].fd \notin fresh

Over == pc \in {"exited", "died"}

\* A device that is identified and has no watcher any more is closed some time, unless
\* somebody comes back or it loses its identification (gpsd.c:2531-2547).
UnneededIsReleased ==
  \A d \in Slot :
    IsOpen(d) /\ dev[d].synced /\ ~Needed(d)
      ~> ~IsOpen(d) \/ ~dev[d].synced \/ Needed(d) \/ Over

\* A closed device with a watcher is tried, again and again (gpsd.c:2549-2556).
WantedIsTried ==
  \A d \in Slot :
    dev[d].path # NoPath /\ dev[d].fd = NoFd /\ Needed(d)
      ~> dev[d].fd # NoFd \/ dev[d].opened = 0 \/ dev[d].path = NoPath \/ ~Needed(d)
         \/ Over

\* A device is released when nobody has wanted it for the timeout, and is tried
\* again and again while somebody does (gpsd.c 1038-1071, 2473-2538).
DevicesAreServed == UnneededIsReleased /\ WantedIsTried

\* A client that watches nothing and sends nothing is dropped (gpsd.c:2493-2500).
IdleClientIsDropped ==
  \A c \in Client :
    sub[c].active > 0 /\ sub[c].watch = Off
      ~> sub[c].active \in {Never, 0} \/ sub[c].watch # Off \/ Over

\* A device that returned nothing is listened to again, or closed (gpsd.c:2434-2442).
EmptyIsHeardAgain ==
  \A d \in Slot :
    IsOpen(d) /\ dev[d].reawake
      ~> ~IsOpen(d) \/ ~dev[d].reawake \/ Over

\* Nobody is silent for ever unnoticed: a client that asks for nothing is
\* dropped, a device that gave nothing is read again after its rest.
SilenceIsNoticed == IdleClientIsDropped /\ EmptyIsHeardAgain

=============================================================================
