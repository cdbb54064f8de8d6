-------------------------- MODULE GpsdDevices_proofs --------------------------
(***************************************************************************)
(* Proofs about GpsdDevices, for any pool of devices, any number of        *)
(* clients and descriptors, and any timeouts.                              *)
(*                                                                         *)
(* The handlers are operators on the daemon's record, so the invariant is  *)
(* one about a record t (Kept), and each operator is shown to keep it      *)
(* once; a step of the loop then only has to name the operators it calls.  *)
(***************************************************************************)
EXTENDS GpsdDevices, FiniteSetTheorems, TLAPS

USE LimitsAreNumbers

-----------------------------------------------------------------------------
(* The least and the greatest of a set. *)

\* A set of numbers that is not empty has a least one: the least of the intervals from 0.
LEMMA HasLeast ==
  ASSUME NEW T \in SUBSET Nat, T # {}
  PROVE  \E x \in T : \A y \in T : x <= y
<1> DEFINE R == StrictSubsetOrdering(Nat)
           I == {0..x : x \in T}
<1>1. IsWellFoundedOn(R, FiniteSubsetsOf(Nat))
  BY FS_StrictSubsetOrderingWellFounded
<1>2. I \subseteq FiniteSubsetsOf(Nat) /\ I # {}
  <2>1. \A x \in T : 0..x \in SUBSET Nat /\ IsFiniteSet(0..x)
    BY FS_Interval
  <2>2. \A x \in T : 0..x \in FiniteSubsetsOf(Nat)
    BY <2>1 DEF FiniteSubsetsOf
  <2> QED
    BY <2>2
<1>3. PICK i \in I : \A j \in I : <<j, i>> \notin R
  <2> HIDE DEF I, R
  <2> QED BY <1>1, <1>2, WFMin
<1>4. PICK x \in T : i = 0..x
  OBVIOUS
<1>5. ASSUME NEW y \in T, y < x PROVE FALSE
  <2>1. 0..y \in I /\ 0..y \subseteq 0..x /\ x \in 0..x /\ x \notin 0..y
    BY <1>5
  <2>2. <<0..y, 0..x>> \in R
    BY <2>1 DEF StrictSubsetOrdering
  <2> QED
    BY <1>3, <1>4, <2>1, <2>2
<1> QED
  BY <1>5

\* What Least and Greatest return.
LEMMA LeastIs ==
  ASSUME NEW T \in SUBSET Nat, T # {}
  PROVE  Least(T) \in T /\ \A y \in T : Least(T) <= y
BY HasLeast DEF Least

LEMMA GreatestIs ==
  ASSUME NEW n \in Nat, NEW T \in SUBSET (0..n), T # {}
  PROVE  Greatest(T) \in T /\ \A y \in T : Greatest(T) >= y
<1> DEFINE U == {n - x : x \in T}
<1>1. \A x \in T : x \in Int /\ 0 <= x /\ x <= n
  OBVIOUS
<1>2. \A x \in T : n - x \in Nat
  BY <1>1
<1>3. U \in SUBSET Nat /\ U # {}
  BY <1>2
<1>4. PICK u \in U : \A v \in U : u <= v
  <2> HIDE DEF U
  <2> QED BY <1>3, HasLeast
<1>5. PICK x \in T : u = n - x
  BY <1>4
<1>6. ASSUME NEW y \in T PROVE x >= y
  <2>1. n - x <= n - y
    BY <1>4, <1>5
  <2> QED
    BY <2>1, <1>1
<1> QED
  BY <1>6 DEF Greatest

-----------------------------------------------------------------------------
(* The invariant.  k is the descriptor of the control connection, r what   *)
(* select() reported; h counts the SIGHUPs, and D and C are the            *)
(* devices and the clients that the pass has still to read.                *)

Table == [dev: [Slot -> Device], sub: [Client -> Subscriber], all: SUBSET (Fd \cup {Base}),
          max: Fd \cup {Base}, open: SUBSET Fd, fresh: SUBSET Fd]

DevFd(t, d) == t.dev[d].fd
SubFd(t, c) == t.sub[c].fd

\* No two owners have one descriptor.
OwnersDiffer(t, k) ==
  /\ \A d, e \in Slot : d # e /\ DevFd(t, d) \in Fd => DevFd(t, d) # DevFd(t, e)
  /\ \A b, c \in Client : b # c /\ SubFd(t, b) \in Fd => SubFd(t, b) # SubFd(t, c)
  /\ \A d \in Slot, c \in Client : DevFd(t, d) \in Fd => DevFd(t, d) # SubFd(t, c)
  /\ \A d \in Slot : DevFd(t, d) \in Fd => DevFd(t, d) # k
  /\ \A c \in Client : SubFd(t, c) \in Fd => SubFd(t, c) # k

\* What is open has an owner, and what an owner has is open.
OpenIsOwned(t, k) ==
  /\ \A f \in t.open : f = k \/ (\E d \in Slot : f = DevFd(t, d)) \/ (\E c \in Client : f = SubFd(t, c))
  /\ \A d \in Slot : DevFd(t, d) \in Fd => DevFd(t, d) \in t.open
  /\ \A c \in Client : SubFd(t, c) \in Fd => SubFd(t, c) \in t.open
  /\ k \in Fd => k \in t.open

\* A client has a descriptor as long as it is connected, a free slot of the pool
\* has none, and only an open NTRIP source is in the middle of its transaction.
SlotsAgree(t) ==
  /\ \A c \in Client : t.sub[c].active # Never <=> SubFd(t, c) \in Fd
  /\ \A d \in Slot : t.dev[d].path = NoPath => DevFd(t, d) = NoFd
  /\ \A d \in Slot : t.dev[d].conn # "init" => DevFd(t, d) # NoFd /\ t.dev[d].path \in NtripPath

Heard(t) ==
  /\ \A d \in Slot : DevFd(t, d) \in Fd => DevFd(t, d) \in t.all \/ t.dev[d].reawake
  /\ \A c \in Client : SubFd(t, c) \in Fd => SubFd(t, c) \in t.all

\* What holds until a SIGHUP: only what is open is listened to, and what is above
\* maxfd is an NTRIP source that was connected again.
Listed(t) == t.all \subseteq t.open \cup {Base}
Deaf(t)   == \A f \in t.all : f > t.max => \E d \in Slot : DevFd(t, d) = f /\ t.dev[d].conn = "probe"

\* A device that has still to be read was open when select() returned, and is heard
\* and selected as it was then if it was reported.
DeviceWaits(t, d, r) ==
  /\ DevFd(t, d) \notin t.fresh
  /\ DevFd(t, d) \in r => DevFd(t, d) \in t.all /\ DevFd(t, d) <= t.max
ClientWaits(t, c) == SubFd(t, c) \notin t.fresh

Sound(t, k) ==
  t \in Table /\ OwnersDiffer(t, k) /\ OpenIsOwned(t, k) /\ SlotsAgree(t) /\ Heard(t)

Kept(t, k, h, D, C, r) ==
  /\ k \in Fd \cup {NoFd} /\ D \subseteq Slot /\ C \subseteq Client /\ r \subseteq Fd
  /\ Sound(t, k)
  /\ h = 0 => Listed(t) /\ Deaf(t)
  /\ \A d \in D : DeviceWaits(t, d, r)
  /\ \A c \in C : ClientWaits(t, c)

Hups == IF pc = "exited" THEN 1 ELSE hups
Outside == pc \in {"accept", "control", "commands"}
UnreadDevices == {d \in Slot : Outside \/ (pc = "device" /\ d >= at)}
UnreadClients ==
  {c \in Client : \/ Outside \/ pc = "device" \/ (pc = "client" /\ c >= at)
                  \/ (pc \in {"request", "awaken"} /\ c > at)}

\* Where the loop is, and what it has in its hands there.
LoopOK ==
  /\ ctl \in Fd \cup {NoFd} /\ rfds \subseteq Fd /\ hups \in 0..MaxHups
  /\ pc \in {"args", "select", "accept", "control", "commands", "device", "client",
             "request", "awaken", "release", "exited", "died"}
  /\ at \in Nat \ {0} /\ todo \subseteq Nat
  /\ pc \in {"device", "release"} => at \in Slot
  /\ pc \in {"client", "request", "awaken"} => at \in Client
  /\ pc \in {"request", "awaken"} => sub[at].active # Never
  /\ pc = "args" => todo \subseteq 1..Len(Argv)
  /\ pc = "awaken" => todo # {} /\ todo \subseteq Pool(Daemon)
  /\ pc = "accept" => rfds \subseteq open /\ fresh = {}
  /\ ctl # NoFd <=> pc = "commands"
  /\ pc = "died" => hups # 0

DaemonInv == LoopOK /\ Kept(Daemon, ctl, Hups, UnreadDevices, UnreadClients, rfds)

-----------------------------------------------------------------------------
(* What happens to descriptors, as relations between two records. *)

\* The devices of ds and the clients of cs are closed, and the control connection
\* where l is not k; who was above maxfd still is, or is gone.
Gone(t, k, l, ds, cs) == {DevFd(t, d) : d \in ds} \cup {SubFd(t, c) : c \in cs} \cup ({k} \ {l})

Lost(t, u, k, l, ds, cs) ==
  /\ u \in Table /\ l \in {k, NoFd}
  /\ \A d \in ds : u.dev[d].fd = NoFd /\ u.dev[d].conn = "init"
  /\ \A d \in Slot \ ds : u.dev[d] = t.dev[d]
  /\ \A c \in cs : u.sub[c] = FreeClient
  /\ \A c \in Client \ cs : u.sub[c] = t.sub[c]
  /\ u.open = t.open \ Gone(t, k, l, ds, cs) /\ u.fresh = t.fresh
  /\ t.all \ Gone(t, k, l, ds, cs) \subseteq u.all /\ u.all \subseteq t.all
  /\ \A f \in u.all : f <= t.max => f <= u.max

\* Closing keeps the invariant; until a SIGHUP what is closed is not listened to.
LEMMA Losing ==
  ASSUME NEW t, NEW u, NEW k, NEW l, NEW h, NEW D, NEW C, NEW r, NEW ds, NEW cs,
         Kept(t, k, h, D, C, r), ds \subseteq Slot, cs \subseteq Client, Lost(t, u, k, l, ds, cs),
         h = 0 => u.all \cap Gone(t, k, l, ds, cs) = {},
         \A d \in ds : u.dev[d].path = t.dev[d].path \/ u.dev[d].path = NoPath
  PROVE  Kept(u, l, h, D, C, r)
<1>0. k \in Fd \cup {NoFd} /\ D \subseteq Slot /\ C \subseteq Client /\ r \subseteq Fd
  BY DEF Kept
<1> USE <1>0
<1> DEFINE G == Gone(t, k, l, ds, cs)
<1>1. t \in Table /\ u \in Table
  BY DEF Kept, Sound, Lost
<1>2. \A d \in Slot : DevFd(t, d) \in Fd \cup {NoFd} /\ DevFd(u, d) \in Fd \cup {NoFd}
  BY <1>1 DEF Table, Device, DevFd
<1>3. \A c \in Client : SubFd(t, c) \in Fd \cup {NoFd, Base} /\ SubFd(u, c) \in Fd \cup {NoFd, Base}
  BY <1>1 DEF Table, Subscriber, SubFd
<1>4. /\ \A d \in ds : DevFd(u, d) = NoFd /\ DevFd(t, d) \in G
      /\ \A d \in Slot \ ds : DevFd(u, d) = DevFd(t, d) /\ u.dev[d] = t.dev[d]
      /\ \A c \in cs : SubFd(u, c) = NoFd /\ SubFd(t, c) \in G /\ u.sub[c].active = Never
      /\ \A c \in Client \ cs : SubFd(u, c) = SubFd(t, c) /\ u.sub[c] = t.sub[c]
      /\ l = k \/ (l = NoFd /\ k \in G)
      /\ u.open = t.open \ G
  BY DEF Lost, DevFd, SubFd, Gone, FreeClient
<1>5. \A f \in G : (\E d \in ds : f = DevFd(t, d)) \/ (\E c \in cs : f = SubFd(t, c)) \/ (f = k /\ l # k)
  BY DEF Gone
<1>6. NoFd \notin Fd /\ Base \notin Fd /\ NoFd # Base
  BY DEF NoFd, Fd, Base
<1> HIDE DEF G
<1>7. /\ \A d \in Slot \ ds : DevFd(t, d) \in Fd => DevFd(t, d) \notin G
      /\ \A c \in Client \ cs : SubFd(t, c) \in Fd => SubFd(t, c) \notin G
      /\ l \in Fd => l \notin G
  <2>1. OwnersDiffer(t, k) /\ (l \in {k, NoFd})
    BY DEF Kept, Sound, Lost
  <2> QED
    BY <2>1, <1>2, <1>3, <1>5, <1>6 DEF OwnersDiffer
<1>8. OwnersDiffer(u, l)
  <2>1. OwnersDiffer(t, k)
    BY DEF Kept, Sound
  <2> QED
    BY <2>1, <1>2, <1>3, <1>4, <1>6 DEF OwnersDiffer
<1>9. OpenIsOwned(u, l)
  <2>1. OpenIsOwned(t, k)
    BY DEF Kept, Sound
  <2>2. \A d \in Slot : DevFd(u, d) \in Fd => d \notin ds /\ DevFd(u, d) = DevFd(t, d)
    BY <1>4, <1>6
  <2>3. \A c \in Client : SubFd(u, c) \in Fd => c \notin cs /\ SubFd(u, c) = SubFd(t, c)
    BY <1>4, <1>6
  <2>4. \A f \in u.open : f \in t.open /\ f \notin G
    BY <1>4
  <2>5. ASSUME NEW f \in u.open
        PROVE  f = l \/ (\E d \in Slot : f = DevFd(u, d)) \/ (\E c \in Client : f = SubFd(u, c))
    <3>1. f = k \/ (\E d \in Slot : f = DevFd(t, d)) \/ (\E c \in Client : f = SubFd(t, c))
      BY <2>1, <2>4 DEF OpenIsOwned
    <3> QED
      BY <3>1, <2>4, <1>4
  <2> QED
    BY <2>1, <2>2, <2>3, <2>5, <1>4, <1>6, <1>7 DEF OpenIsOwned
<1>10. SlotsAgree(u)
  <2>1. SlotsAgree(t)
    BY DEF Kept, Sound
  <2>2. \A d \in ds : u.dev[d].conn = "init"
    BY DEF Lost
  <2>3. \A c \in Client : u.sub[c].active # Never <=> SubFd(u, c) \in Fd
    BY <2>1, <1>4, <1>6 DEF SlotsAgree
  <2>4. \A d \in Slot : u.dev[d].path = NoPath => DevFd(u, d) = NoFd
    BY <2>1, <1>4 DEF SlotsAgree
  <2>5. \A d \in Slot : u.dev[d].conn # "init" => DevFd(u, d) # NoFd /\ u.dev[d].path \in NtripPath
    BY <2>1, <2>2, <1>4 DEF SlotsAgree
  <2> QED
    BY <2>3, <2>4, <2>5 DEF SlotsAgree
<1>11. Heard(u)
  <2>1. Heard(t) /\ t.all \ G \subseteq u.all
    BY DEF Kept, Sound, Lost, G
  <2> QED
    BY <2>1, <1>4, <1>6, <1>7 DEF Heard
<1>12. h = 0 => Listed(u) /\ Deaf(u)
  <2> SUFFICES ASSUME h = 0 PROVE Listed(u) /\ Deaf(u)
    OBVIOUS
  <2>1. Listed(t) /\ Deaf(t) /\ u.all \subseteq t.all /\ u.all \cap G = {}
    BY DEF Kept, Lost, G
  <2>2. Listed(u)
    BY <2>1, <1>4 DEF Listed
  <2>3. ASSUME NEW f \in u.all, f > u.max
        PROVE  \E d \in Slot : DevFd(u, d) = f /\ u.dev[d].conn = "probe"
    <3>1. f \in Int /\ t.max \in Int /\ u.max \in Int
      BY <1>1 DEF Table, Fd, Base
    <3>2. f > t.max
      BY <2>3, <3>1 DEF Lost
    <3>3. PICK d \in Slot : DevFd(t, d) = f /\ t.dev[d].conn = "probe"
      BY <2>1, <3>2 DEF Deaf
    <3> QED
      BY <3>3, <2>1, <1>4
  <2> QED
    BY <2>2, <2>3 DEF Deaf
<1>13. ASSUME NEW d \in D PROVE DeviceWaits(u, d, r)
  <2>1. DeviceWaits(t, d, r) /\ t.fresh \subseteq Fd /\ u.fresh = t.fresh
    BY <1>1 DEF Kept, Lost, Table
  <2>2. CASE d \in ds
    BY <2>1, <2>2, <1>4, <1>6 DEF DeviceWaits
  <2>3. CASE d \notin ds
    <3>1. DevFd(u, d) = DevFd(t, d) /\ (DevFd(t, d) \in Fd => DevFd(t, d) \notin G)
      BY <2>3, <1>4, <1>7
    <3>2. t.all \ G \subseteq u.all
      BY DEF Lost, G
    <3> QED
      BY <2>1, <3>1, <3>2 DEF DeviceWaits, Lost
  <2> QED
    BY <2>2, <2>3
<1>14. ASSUME NEW c \in C PROVE ClientWaits(u, c)
  <2>1. ClientWaits(t, c) /\ t.fresh \subseteq Fd /\ u.fresh = t.fresh
    BY <1>1 DEF Kept, Lost, Table
  <2> QED
    BY <2>1, <1>4, <1>6 DEF ClientWaits
<1>15. l \in Fd \cup {NoFd}
  BY DEF Lost
<1> QED
  BY <1>15, <1>1, <1>8, <1>9, <1>10, <1>11, <1>12, <1>13, <1>14 DEF Kept, Sound

\* Somebody gets the free descriptor f: device d, client c (nobody where it is not in
\* Slot or Client), or the control connection, which becomes l.
Gained(t, u, r, f) ==
  /\ u \in Table /\ f \in Fd \ t.open
  /\ u.open = t.open \cup {f} /\ u.fresh = t.fresh \cup (r \cap {f})
  /\ u.all = t.all \cup {f} /\ u.max >= t.max

\* A device that has been read already, or is not to be read, may be opened: where
\* maxfd is not adjusted it is a probe.
LEMMA DeviceGains ==
  ASSUME NEW t, NEW u, NEW k, NEW h, NEW D, NEW C, NEW r, NEW f, NEW d,
         Kept(t, k, h, D, C, r), d \in Slot \ D, Gained(t, u, r, f), t.dev[d].fd = NoFd,
         u.dev[d].fd = f, u.dev[d].path # NoPath,
         u.dev[d].conn # "init" => u.dev[d].path \in NtripPath,
         \A e \in Slot \ {d} : u.dev[e] = t.dev[e], u.sub = t.sub,
         f <= u.max \/ u.dev[d].conn = "probe"
  PROVE  Kept(u, k, h, D, C, r)
<1>0. k \in Fd \cup {NoFd} /\ D \subseteq Slot /\ C \subseteq Client /\ r \subseteq Fd
  BY DEF Kept
<1> USE <1>0
<1>1. t \in Table /\ u \in Table /\ f \in Fd /\ f \notin t.open
  BY DEF Kept, Sound, Gained
<1>2. \A e \in Slot : DevFd(t, e) \in Fd \cup {NoFd}
  BY <1>1 DEF Table, Device, DevFd
<1>3. \A c \in Client : SubFd(t, c) \in Fd \cup {NoFd, Base}
  BY <1>1 DEF Table, Subscriber, SubFd
<1>4. /\ DevFd(t, d) = NoFd /\ DevFd(u, d) = f
      /\ \A e \in Slot : e # d => DevFd(u, e) = DevFd(t, e)
      /\ \A c \in Client : SubFd(u, c) = SubFd(t, c)
  BY DEF DevFd, SubFd
<1>5. NoFd \notin Fd /\ Base \notin Fd /\ NoFd # Base
  BY DEF NoFd, Fd, Base
<1>6. OpenIsOwned(t, k) /\ OwnersDiffer(t, k)
  BY DEF Kept, Sound
<1>7. /\ \A e \in Slot : DevFd(t, e) # f
      /\ \A c \in Client : SubFd(t, c) # f
      /\ k # f
  BY <1>1, <1>2, <1>3, <1>5, <1>6 DEF OpenIsOwned
<1>8. OwnersDiffer(u, k)
  BY <1>1, <1>4, <1>5, <1>6, <1>7 DEF OwnersDiffer
<1>9. OpenIsOwned(u, k)
  <2>1. ASSUME NEW g \in u.open
        PROVE  g = k \/ (\E e \in Slot : g = DevFd(u, e)) \/ (\E b \in Client : g = SubFd(u, b))
    <3>1. CASE g = f
      BY <3>1, <1>4
    <3>2. CASE g \in t.open
      <4>1. g = k \/ (\E e \in Slot : g = DevFd(t, e)) \/ (\E b \in Client : g = SubFd(t, b))
        BY <3>2, <1>6 DEF OpenIsOwned
      <4>2. g # NoFd
        BY <3>2, <1>1, <1>5 DEF Table
      <4> QED
        BY <4>1, <4>2, <1>4
    <3> QED
      BY <3>1, <3>2 DEF Gained
  <2>2. \A e \in Slot : DevFd(u, e) \in Fd => DevFd(u, e) \in u.open
    BY <1>4, <1>6 DEF OpenIsOwned, Gained
  <2>3. \A b \in Client : SubFd(u, b) \in Fd => SubFd(u, b) \in u.open
    BY <1>4, <1>6 DEF OpenIsOwned, Gained
  <2>4. k \in Fd => k \in u.open
    BY <1>6 DEF OpenIsOwned, Gained
  <2> QED
    BY <2>1, <2>2, <2>3, <2>4 DEF OpenIsOwned
<1>10. SlotsAgree(u)
  <2>1. SlotsAgree(t)
    BY DEF Kept, Sound
  <2> QED
    BY <2>1, <1>1, <1>4, <1>5 DEF SlotsAgree
<1>11. Heard(u)
  <2>1. Heard(t)
    BY DEF Kept, Sound
  <2> QED
    BY <2>1, <1>4 DEF Heard, Gained
<1>12. \A g \in u.all : g \in Int /\ t.max \in Int /\ u.max \in Int
  BY <1>1 DEF Table, Fd, Base
<1>13. h = 0 => Listed(u) /\ Deaf(u)
  <2> SUFFICES ASSUME h = 0 PROVE Listed(u) /\ Deaf(u)
    OBVIOUS
  <2>1. Listed(t) /\ Deaf(t)
    BY DEF Kept
  <2>2. Listed(u)
    BY <2>1 DEF Listed, Gained
  <2>3. ASSUME NEW g \in u.all, g > u.max
        PROVE  \E e \in Slot : DevFd(u, e) = g /\ u.dev[e].conn = "probe"
    <3>1. CASE g = f
      BY <3>1, <2>3, <1>4, <1>12
    <3>2. CASE g \in t.all
      <4>1. g > t.max
        BY <2>3, <1>12 DEF Gained
      <4>2. PICK e \in Slot : DevFd(t, e) = g /\ t.dev[e].conn = "probe"
        BY <3>2, <4>1, <2>1 DEF Deaf
      <4>3. e # d
        <5>1. g # NoFd
          BY <3>2, <1>1, <1>5 DEF Table, Base, NoFd, Fd
        <5> QED
          BY <5>1, <4>2, <1>4
      <4> QED
        BY <4>2, <4>3, <1>4
    <3> QED
      BY <3>1, <3>2 DEF Gained
  <2> QED
    BY <2>2, <2>3 DEF Deaf
<1>14. ASSUME NEW e \in D PROVE DeviceWaits(u, e, r)
  <2>1. DeviceWaits(t, e, r) /\ e # d
    BY DEF Kept
  <2>2. DevFd(u, e) = DevFd(t, e) /\ DevFd(t, e) # f
    BY <2>1, <1>4, <1>7
  <2>3. DevFd(t, e) \in t.all /\ DevFd(t, e) <= t.max => DevFd(t, e) <= u.max
    BY <1>12 DEF Gained
  <2> QED
    BY <2>1, <2>2, <2>3 DEF DeviceWaits, Gained
<1>15. ASSUME NEW c \in C PROVE ClientWaits(u, c)
  <2>1. ClientWaits(t, c)
    BY DEF Kept
  <2> QED
    BY <2>1, <1>4, <1>7 DEF ClientWaits, Gained
<1> QED
  BY <1>1, <1>8, <1>9, <1>10, <1>11, <1>13, <1>14, <1>15 DEF Kept, Sound

\* A client that connects is not to be read before select() has seen it, or its
\* descriptor is not one that select() reported.
LEMMA ClientGains ==
  ASSUME NEW t, NEW u, NEW k, NEW h, NEW D, NEW C, NEW r, NEW f, NEW c,
         Kept(t, k, h, D, C, r), c \in Client, Gained(t, u, r, f), t.sub[c].fd = NoFd,
         u.sub[c].fd = f, u.sub[c].active # Never, f \notin r \/ c \notin C, f \notin t.fresh,
         \A b \in Client \ {c} : u.sub[b] = t.sub[b], u.dev = t.dev, f <= u.max
  PROVE  Kept(u, k, h, D, C, r)
<1>0. k \in Fd \cup {NoFd} /\ D \subseteq Slot /\ C \subseteq Client /\ r \subseteq Fd
  BY DEF Kept
<1> USE <1>0
<1>1. t \in Table /\ u \in Table /\ f \in Fd /\ f \notin t.open
  BY DEF Kept, Sound, Gained
<1>2. \A e \in Slot : DevFd(t, e) \in Fd \cup {NoFd}
  BY <1>1 DEF Table, Device, DevFd
<1>3. \A b \in Client : SubFd(t, b) \in Fd \cup {NoFd, Base}
  BY <1>1 DEF Table, Subscriber, SubFd
<1>4. /\ SubFd(t, c) = NoFd /\ SubFd(u, c) = f
      /\ \A e \in Slot : DevFd(u, e) = DevFd(t, e)
      /\ \A b \in Client : b # c => SubFd(u, b) = SubFd(t, b)
  BY DEF DevFd, SubFd
<1>5. NoFd \notin Fd /\ Base \notin Fd /\ NoFd # Base
  BY DEF NoFd, Fd, Base
<1>6. OpenIsOwned(t, k) /\ OwnersDiffer(t, k)
  BY DEF Kept, Sound
<1>7. /\ \A e \in Slot : DevFd(t, e) # f
      /\ \A b \in Client : SubFd(t, b) # f
      /\ k # f
  BY <1>1, <1>2, <1>3, <1>5, <1>6 DEF OpenIsOwned
<1>8. OwnersDiffer(u, k)
  BY <1>1, <1>4, <1>5, <1>6, <1>7 DEF OwnersDiffer
<1>9. OpenIsOwned(u, k)
  <2>1. ASSUME NEW g \in u.open
        PROVE  g = k \/ (\E e \in Slot : g = DevFd(u, e)) \/ (\E b \in Client : g = SubFd(u, b))
    <3>1. CASE g = f
      BY <3>1, <1>4
    <3>2. CASE g \in t.open
      <4>1. g = k \/ (\E e \in Slot : g = DevFd(t, e)) \/ (\E b \in Client : g = SubFd(t, b))
        BY <3>2, <1>6 DEF OpenIsOwned
      <4>2. g # NoFd
        BY <3>2, <1>1, <1>5 DEF Table
      <4> QED
        BY <4>1, <4>2, <1>4
    <3> QED
      BY <3>1, <3>2 DEF Gained
  <2>2. \A e \in Slot : DevFd(u, e) \in Fd => DevFd(u, e) \in u.open
    BY <1>4, <1>6 DEF OpenIsOwned, Gained
  <2>3. \A b \in Client : SubFd(u, b) \in Fd => SubFd(u, b) \in u.open
    BY <1>4, <1>6 DEF OpenIsOwned, Gained
  <2>4. k \in Fd => k \in u.open
    BY <1>6 DEF OpenIsOwned, Gained
  <2> QED
    BY <2>1, <2>2, <2>3, <2>4 DEF OpenIsOwned
<1>10. SlotsAgree(u)
  <2>1. SlotsAgree(t)
    BY DEF Kept, Sound
  <2> QED
    BY <2>1, <1>1, <1>4, <1>5 DEF SlotsAgree
<1>11. Heard(u)
  <2>1. Heard(t)
    BY DEF Kept, Sound
  <2> QED
    BY <2>1, <1>4 DEF Heard, Gained
<1>12. \A g \in u.all : g \in Int /\ t.max \in Int /\ u.max \in Int
  BY <1>1 DEF Table, Fd, Base
<1>13. h = 0 => Listed(u) /\ Deaf(u)
  <2> SUFFICES ASSUME h = 0 PROVE Listed(u) /\ Deaf(u)
    OBVIOUS
  <2>1. Listed(t) /\ Deaf(t)
    BY DEF Kept
  <2>2. Listed(u)
    BY <2>1 DEF Listed, Gained
  <2>3. ASSUME NEW g \in u.all, g > u.max
        PROVE  \E e \in Slot : DevFd(u, e) = g /\ u.dev[e].conn = "probe"
    <3>1. g \in t.all /\ g > t.max
      BY <2>3, <1>12 DEF Gained
    <3> QED
      BY <3>1, <2>1, <1>4 DEF Deaf
  <2> QED
    BY <2>2, <2>3 DEF Deaf
<1>14. ASSUME NEW e \in D PROVE DeviceWaits(u, e, r)
  <2>1. DeviceWaits(t, e, r)
    BY DEF Kept
  <2>2. DevFd(u, e) = DevFd(t, e) /\ DevFd(t, e) # f
    BY <1>4, <1>7
  <2>3. DevFd(t, e) \in t.all /\ DevFd(t, e) <= t.max => DevFd(t, e) <= u.max
    BY <1>12 DEF Gained
  <2> QED
    BY <2>1, <2>2, <2>3 DEF DeviceWaits, Gained
<1>15. ASSUME NEW b \in C PROVE ClientWaits(u, b)
  <2>1. ClientWaits(t, b)
    BY DEF Kept
  <2>2. CASE b = c
    BY <2>2, <1>4 DEF ClientWaits, Gained
  <2>3. CASE b # c
    BY <2>1, <2>3, <1>4, <1>7 DEF ClientWaits, Gained
  <2> QED
    BY <2>2, <2>3
<1> QED
  BY <1>1, <1>8, <1>9, <1>10, <1>11, <1>13, <1>14, <1>15 DEF Kept, Sound

\* The control connection, which is not one of the readers.
LEMMA ControlGains ==
  ASSUME NEW t, NEW u, NEW h, NEW D, NEW C, NEW r, NEW f,
         Kept(t, NoFd, h, D, C, r), Gained(t, u, r, f), u.sub = t.sub, u.dev = t.dev, f <= u.max
  PROVE  Kept(u, f, h, D, C, r)
<1>0. NoFd \in Fd \cup {NoFd} /\ D \subseteq Slot /\ C \subseteq Client /\ r \subseteq Fd
  BY DEF Kept
<1> USE <1>0
<1>1. t \in Table /\ u \in Table /\ f \in Fd /\ f \notin t.open
  BY DEF Kept, Sound, Gained
<1>2. \A e \in Slot : DevFd(t, e) \in Fd \cup {NoFd}
  BY <1>1 DEF Table, Device, DevFd
<1>3. \A b \in Client : SubFd(t, b) \in Fd \cup {NoFd, Base}
  BY <1>1 DEF Table, Subscriber, SubFd
<1>4. /\ \A e \in Slot : DevFd(u, e) = DevFd(t, e)
      /\ \A b \in Client : SubFd(u, b) = SubFd(t, b)
  BY DEF DevFd, SubFd
<1>5. NoFd \notin Fd /\ Base \notin Fd /\ NoFd # Base
  BY DEF NoFd, Fd, Base
<1>6. OpenIsOwned(t, NoFd) /\ OwnersDiffer(t, NoFd)
  BY DEF Kept, Sound
<1>7. /\ \A e \in Slot : DevFd(t, e) # f
      /\ \A b \in Client : SubFd(t, b) # f
  BY <1>1, <1>2, <1>3, <1>5, <1>6 DEF OpenIsOwned
<1>8. OwnersDiffer(u, f)
  BY <1>1, <1>4, <1>5, <1>6, <1>7 DEF OwnersDiffer
<1>9. OpenIsOwned(u, f)
  <2>1. \A g \in t.open : g # NoFd
    BY <1>1, <1>5 DEF Table
  <2> QED
    BY <2>1, <1>1, <1>4, <1>5, <1>6 DEF OpenIsOwned, Gained
<1>10. SlotsAgree(u)
  <2>1. SlotsAgree(t)
    BY DEF Kept, Sound
  <2> QED
    BY <2>1, <1>1, <1>4, <1>5 DEF SlotsAgree
<1>11. Heard(u)
  <2>1. Heard(t)
    BY DEF Kept, Sound
  <2> QED
    BY <2>1, <1>4 DEF Heard, Gained
<1>12. \A g \in u.all : g \in Int /\ t.max \in Int /\ u.max \in Int
  BY <1>1 DEF Table, Fd, Base
<1>13. h = 0 => Listed(u) /\ Deaf(u)
  <2> SUFFICES ASSUME h = 0 PROVE Listed(u) /\ Deaf(u)
    OBVIOUS
  <2>1. Listed(t) /\ Deaf(t)
    BY DEF Kept
  <2>2. Listed(u)
    BY <2>1 DEF Listed, Gained
  <2>3. ASSUME NEW g \in u.all, g > u.max
        PROVE  \E e \in Slot : DevFd(u, e) = g /\ u.dev[e].conn = "probe"
    <3>1. g \in t.all /\ g > t.max
      BY <2>3, <1>12 DEF Gained
    <3> QED
      BY <3>1, <2>1, <1>4 DEF Deaf
  <2> QED
    BY <2>2, <2>3 DEF Deaf
<1>14. ASSUME NEW e \in D PROVE DeviceWaits(u, e, r)
  <2>1. DeviceWaits(t, e, r)
    BY DEF Kept
  <2>2. DevFd(u, e) = DevFd(t, e) /\ DevFd(t, e) # f
    BY <1>4, <1>7
  <2>3. DevFd(t, e) \in t.all /\ DevFd(t, e) <= t.max => DevFd(t, e) <= u.max
    BY <1>12 DEF Gained
  <2> QED
    BY <2>1, <2>2, <2>3 DEF DeviceWaits, Gained
<1>15. ASSUME NEW b \in C PROVE ClientWaits(u, b)
  <2>1. ClientWaits(t, b)
    BY DEF Kept
  <2> QED
    BY <2>1, <1>4, <1>7 DEF ClientWaits, Gained
<1> QED
  BY <1>1, <1>8, <1>9, <1>10, <1>11, <1>13, <1>14, <1>15 DEF Kept, Sound

\* Nothing is opened or closed; names, marks and ages may change, and more may be
\* listened to.  Only who is not the owner of a descriptor may be renamed.
Unmoved(t, u) ==
  /\ u \in Table
  /\ \A d \in Slot :
       /\ DevFd(u, d) = DevFd(t, d)
       /\ u.dev[d].path = t.dev[d].path
            \/ (DevFd(t, d) = NoFd /\ (t.dev[d].path = NoPath \/ u.dev[d].path = NoPath))
       /\ u.dev[d].conn = t.dev[d].conn
            \/ (u.dev[d].conn # "init" /\ t.dev[d].conn \notin {"init", "probe"})
       /\ u.dev[d].reawake = t.dev[d].reawake \/ (DevFd(t, d) \in Fd => DevFd(t, d) \in u.all)
  /\ \A c \in Client :
       /\ SubFd(u, c) = SubFd(t, c) \/ (SubFd(t, c) \notin Fd /\ SubFd(u, c) \notin Fd)
       /\ u.sub[c].active # Never <=> t.sub[c].active # Never
  /\ u.open = t.open /\ u.fresh = t.fresh
  /\ t.all \subseteq u.all /\ u.max >= t.max
  /\ \A f \in u.all \ t.all : f <= u.max /\ \E d \in Slot : DevFd(t, d) = f

LEMMA Unmoving ==
  ASSUME NEW t, NEW u, NEW k, NEW h, NEW D, NEW C, NEW r,
         Kept(t, k, h, D, C, r), Unmoved(t, u)
  PROVE  Kept(u, k, h, D, C, r)
<1>0. k \in Fd \cup {NoFd} /\ D \subseteq Slot /\ C \subseteq Client /\ r \subseteq Fd
  BY DEF Kept
<1> USE <1>0
<1>1. t \in Table /\ u \in Table
  BY DEF Kept, Sound, Unmoved
<1>2. \A e \in Slot : DevFd(t, e) \in Fd \cup {NoFd}
  BY <1>1 DEF Table, Device, DevFd
<1>3. \A b \in Client : SubFd(t, b) \in Fd \cup {NoFd, Base} /\ SubFd(u, b) \in Fd \cup {NoFd, Base}
  BY <1>1 DEF Table, Subscriber, SubFd
<1>4. /\ \A e \in Slot : DevFd(u, e) = DevFd(t, e)
      /\ \A b \in Client : SubFd(u, b) = SubFd(t, b) \/ (SubFd(t, b) \notin Fd /\ SubFd(u, b) \notin Fd)
      /\ u.open = t.open /\ u.fresh = t.fresh /\ t.all \subseteq u.all
  BY DEF Unmoved
<1>5. NoFd \notin Fd /\ Base \notin Fd /\ NoFd # Base
  BY DEF NoFd, Fd, Base
<1>6. OpenIsOwned(t, k) /\ OwnersDiffer(t, k)
  BY DEF Kept, Sound
<1>8. OwnersDiffer(u, k)
  BY <1>4, <1>6, <1>5 DEF OwnersDiffer
<1>9. OpenIsOwned(u, k)
  <2>1. \A g \in t.open : g \in Fd
    BY <1>1 DEF Table
  <2> QED
    BY <2>1, <1>4, <1>6 DEF OpenIsOwned
<1>10. SlotsAgree(u)
  <2>1. SlotsAgree(t)
    BY DEF Kept, Sound
  <2> QED
    BY <2>1, <1>4, <1>5 DEF SlotsAgree, Unmoved
<1>11. Heard(u)
  <2>1. Heard(t)
    BY DEF Kept, Sound
  <2> QED
    BY <2>1, <1>4 DEF Heard, Unmoved
<1>12. t.max \in Int /\ u.max \in Int /\ \A g \in u.all : g \in Int
  BY <1>1 DEF Table, Fd, Base
<1>13. h = 0 => Listed(u) /\ Deaf(u)
  <2> SUFFICES ASSUME h = 0 PROVE Listed(u) /\ Deaf(u)
    OBVIOUS
  <2>1. Listed(t) /\ Deaf(t)
    BY DEF Kept
  <2>2. Listed(u)
    <3>1. ASSUME NEW g \in u.all \ t.all PROVE g \in t.open
      <4>1. PICK d \in Slot : DevFd(t, d) = g
        BY <3>1 DEF Unmoved
      <4>2. g # NoFd
        BY <1>1, <1>5 DEF Table
      <4> QED
        BY <4>1, <4>2, <1>2, <1>6 DEF OpenIsOwned
    <3> QED
      BY <3>1, <2>1, <1>4 DEF Listed
  <2>3. ASSUME NEW g \in u.all, g > u.max
        PROVE  \E e \in Slot : DevFd(u, e) = g /\ u.dev[e].conn = "probe"
    <3>1. g \in t.all /\ g > t.max
      BY <2>3, <1>12 DEF Unmoved
    <3>2. PICK e \in Slot : DevFd(t, e) = g /\ t.dev[e].conn = "probe"
      BY <3>1, <2>1 DEF Deaf
    <3> QED
      BY <3>2, <1>4 DEF Unmoved
  <2> QED
    BY <2>2, <2>3 DEF Deaf
<1>14. ASSUME NEW e \in D PROVE DeviceWaits(u, e, r)
  <2>1. DeviceWaits(t, e, r)
    BY DEF Kept
  <2>2. DevFd(t, e) \in t.all /\ DevFd(t, e) <= t.max => DevFd(t, e) <= u.max
    BY <1>12, <1>4 DEF Unmoved
  <2> QED
    BY <2>1, <2>2, <1>4 DEF DeviceWaits
<1>15. ASSUME NEW b \in C PROVE ClientWaits(u, b)
  <2>1. ClientWaits(t, b) /\ t.fresh \subseteq Fd
    BY <1>1 DEF Kept, Table
  <2> QED
    BY <2>1, <1>4 DEF ClientWaits
<1> QED
  BY <1>1, <1>8, <1>9, <1>10, <1>11, <1>13, <1>14, <1>15 DEF Kept, Sound

\* What is asked of fewer readers, or of none when what is reported is forgotten.
LEMMA Fewer ==
  ASSUME NEW t, NEW k, NEW h, NEW D, NEW C, NEW r, NEW g, NEW E, NEW F, NEW s,
         Kept(t, k, h, D, C, r), g = 0 => h = 0, E \subseteq D, F \subseteq C,
         s = r \/ (E = {} /\ s \subseteq Fd)
  PROVE  Kept(t, k, g, E, F, s)
BY DEF Kept

-----------------------------------------------------------------------------
(* The operators of the daemon keep the invariant. *)

\* FD_CLR and adjust_max_fd leave the descriptors that were below maxfd below it.
LEMMA Unlistening ==
  ASSUME NEW t \in Table, NEW fds
  PROVE  LET u == Unlisten(t, fds)
         IN  /\ u \in Table
             /\ u.dev = t.dev /\ u.sub = t.sub /\ u.open = t.open /\ u.fresh = t.fresh
             /\ u.all = t.all \ fds
             /\ \A f \in u.all : f <= t.max => f <= u.max
<1> DEFINE rest == t.all \ fds
           T == rest \cup {Base}
           m == IF t.max \in fds THEN Greatest(T) ELSE t.max
           u == Unlisten(t, fds)
<1>1. t.all \in SUBSET (Fd \cup {Base}) /\ t.max \in Fd \cup {Base}
  BY DEF Table
<1>2. T \in SUBSET (0..MaxFd) /\ T # {} /\ MaxFd \in Nat
  BY <1>1 DEF Fd, Base
<1>3. Greatest(T) \in T /\ \A y \in T : Greatest(T) >= y
  <2> HIDE DEF T
  <2> QED BY <1>2, GreatestIs
<1>4. m \in Fd \cup {Base} /\ \A f \in rest : f <= t.max => f <= m
  <2>1. \A f \in rest : f \in Int /\ f \in T
    BY <1>1 DEF Fd, Base
  <2>2. Greatest(T) \in Fd \cup {Base} /\ \A f \in rest : f <= Greatest(T)
    <3>1. Greatest(T) \in Fd \cup {Base}
      BY <1>3, <1>1
    <3>2. Greatest(T) \in Int
      BY <3>1 DEF Fd, Base
    <3> HIDE DEF T, rest
    <3> QED BY <1>3, <2>1, <3>1, <3>2
  <2> HIDE DEF T, rest
  <2> QED BY <2>2, <1>1
<1>5. u = [t EXCEPT !.all = rest, !.max = m]
  BY DEF Unlisten, Table
<1> HIDE DEF m, T
<1>6. u = [dev |-> t.dev, sub |-> t.sub, all |-> rest, max |-> m, open |-> t.open, fresh |-> t.fresh]
  BY <1>5 DEF Table
<1>7. rest \in SUBSET (Fd \cup {Base})
  BY <1>1
<1>8. u \in Table
  BY <1>4, <1>6, <1>7 DEF Table
<1> HIDE DEF u
<1>9. u.dev = t.dev /\ u.sub = t.sub /\ u.open = t.open /\ u.fresh = t.fresh /\ u.all = rest /\ u.max = m
  BY <1>6
<1>10. \A f \in u.all : f <= t.max => f <= u.max
  BY <1>9, <1>4
<1> QED
  BY <1>8, <1>9, <1>10 DEF u

\* detach_client closes what the clients have, and they are free again.
LEMMA Detached ==
  ASSUME NEW t \in Table, NEW cs \in SUBSET Client, NEW k
  PROVE  LET u == Detach(t, cs)
         IN  /\ Lost(t, u, k, k, {}, cs)
             /\ u.all \cap Gone(t, k, k, {}, cs) = {}
             /\ u.dev = t.dev
<1> DEFINE fds == {t.sub[c].fd : c \in cs}
           s == [c \in Client |-> IF c \in cs THEN FreeClient ELSE t.sub[c]]
           v == [t EXCEPT !.open = @ \ fds, !.sub = s]
           u == Unlisten(v, fds)
<1>1. Detach(t, cs) = u
  BY DEF Detach
<1>2. Gone(t, k, k, {}, cs) = fds
  BY DEF Gone, SubFd
<1>3. s \in [Client -> Subscriber]
  <2>1. FreeClient \in Subscriber
    BY DEF FreeClient, Subscriber, Watch, Age, Never
  <2> QED
    BY <2>1 DEF Table
<1> HIDE DEF s, fds
<1>6. v.dev = t.dev /\ v.sub = s /\ v.all = t.all /\ v.max = t.max /\ v.open = t.open \ fds /\ v.fresh = t.fresh
  BY DEF Table
<1>5. v \in Table
  BY <1>3, <1>6 DEF Table
<1> HIDE DEF v, fds
<1>7. /\ u \in Table
      /\ u.dev = v.dev /\ u.sub = v.sub /\ u.open = v.open /\ u.fresh = v.fresh
      /\ u.all = v.all \ fds
      /\ \A f \in u.all : f <= v.max => f <= u.max
  BY <1>5, Unlistening
<1> HIDE DEF u
<1>8. \A c \in cs : u.sub[c] = FreeClient
  BY <1>6, <1>7 DEF s
<1>9. \A c \in Client \ cs : u.sub[c] = t.sub[c]
  BY <1>6, <1>7 DEF s
<1>10. Lost(t, u, k, k, {}, cs)
  BY <1>2, <1>6, <1>7, <1>8, <1>9 DEF Lost
<1> QED
  BY <1>1, <1>2, <1>6, <1>7, <1>10

LEMMA DetachKeeps ==
  ASSUME NEW t, NEW k, NEW h, NEW D, NEW C, NEW r, NEW cs, NEW u,
         Kept(t, k, h, D, C, r), cs \subseteq Client, u = Detach(t, cs)
  PROVE  Kept(u, k, h, D, C, r) /\ u.dev = t.dev
<1>0. k \in Fd \cup {NoFd} /\ D \subseteq Slot /\ C \subseteq Client /\ r \subseteq Fd
  BY DEF Kept
<1> USE <1>0
<1>1. t \in Table
  BY DEF Kept, Sound
<1>2. Lost(t, u, k, k, {}, cs) /\ u.all \cap Gone(t, k, k, {}, cs) = {} /\ u.dev = t.dev
  BY <1>1, Detached
<1>3. Kept(u, k, h, D, C, r)
  BY <1>2, Losing
<1> QED
  BY <1>2, <1>3

\* gpsd_deactivate with FD_CLR and adjust_max_fd before it.
Closed(t, d) == Close(Unlisten(t, {t.dev[d].fd}), d)

LEMMA CloseKeeps ==
  ASSUME NEW t, NEW k, NEW h, NEW D, NEW C, NEW r, NEW d, NEW u,
         Kept(t, k, h, D, C, r), d \in Slot, u = Closed(t, d)
  PROVE  /\ Kept(u, k, h, D, C, r)
         /\ u.sub = t.sub /\ u.dev[d].fd = NoFd
         /\ \A e \in Slot : u.dev[e].path = t.dev[e].path
<1>0. k \in Fd \cup {NoFd} /\ D \subseteq Slot /\ C \subseteq Client /\ r \subseteq Fd
  BY DEF Kept
<1> USE <1>0
<1> DEFINE f == t.dev[d].fd
           v == Unlisten(t, {f})
           x == [t.dev[d] EXCEPT !.fd = NoFd, !.synced = FALSE, !.released = Never, !.conn = "init"]
<1>1. t \in Table
  BY DEF Kept, Sound
<1>a. u = Close(v, d)
  BY DEF Closed
<1>2. /\ v \in Table
      /\ v.dev = t.dev /\ v.sub = t.sub /\ v.open = t.open /\ v.fresh = t.fresh
      /\ v.all = t.all \ {f}
      /\ \A g \in v.all : g <= t.max => g <= v.max
  BY <1>1, Unlistening
<1> HIDE DEF v
<1>3. t.dev[d] \in Device
  BY <1>1 DEF Table
<1>4. x \in Device /\ x.fd = NoFd /\ x.conn = "init" /\ x.path = t.dev[d].path
  <2>1. Never \in Age(ReleaseTimeout)
    BY DEF Age, Never
  <2> QED
    BY <1>3, <2>1 DEF Device
<1>5. u = [dev |-> [t.dev EXCEPT ![d] = x], sub |-> t.sub, all |-> v.all, max |-> v.max,
           open |-> t.open \ {f}, fresh |-> t.fresh]
  <2>1. u = [v EXCEPT !.open = v.open \ {f}, !.dev = [t.dev EXCEPT ![d] = x]]
    BY <1>a, <1>2 DEF Close, Table
  <2> DEFINE g == [t.dev EXCEPT ![d] = x]
  <2> HIDE DEF x, f, g
  <2> QED
    BY <1>2, <2>1 DEF Table, g
<1> HIDE DEF x
<1>6. /\ u.dev = [t.dev EXCEPT ![d] = x] /\ u.sub = t.sub /\ u.all = v.all /\ u.max = v.max
      /\ u.open = t.open \ {f} /\ u.fresh = t.fresh
  BY <1>5
<1>7. u \in Table
  BY <1>1, <1>2, <1>4, <1>5 DEF Table
<1>8. u.dev[d] = x /\ \A e \in Slot : e # d => u.dev[e] = t.dev[e]
  BY <1>6, <1>1 DEF Table
<1> DEFINE ds == {d}
           cs == {}
<1>9. Gone(t, k, k, ds, cs) = {f}
  BY DEF Gone, DevFd
<1>10. Lost(t, u, k, k, ds, cs)
  <2> HIDE DEF f
  <2>1. u.open = t.open \ Gone(t, k, k, ds, cs) /\ u.all = t.all \ Gone(t, k, k, ds, cs)
    BY <1>2, <1>6, <1>9
  <2>2. \A g \in u.all : g <= t.max => g <= u.max
    BY <1>2, <1>6
  <2> QED
    BY <1>4, <1>6, <1>7, <1>8, <2>1, <2>2 DEF Lost
<1>11. u.all \cap Gone(t, k, k, ds, cs) = {}
  BY <1>2, <1>6, <1>9
<1>12. \A e \in ds : u.dev[e].path = t.dev[e].path \/ u.dev[e].path = NoPath
  BY <1>4, <1>8
<1>13. Kept(u, k, h, D, C, r)
  <2>1. ds \subseteq Slot /\ cs \subseteq Client
    OBVIOUS
  <2> HIDE DEF ds, cs
  <2> QED
    BY <2>1, <1>10, <1>11, <1>12, Losing
<1> QED
  BY <1>4, <1>6, <1>8, <1>13

\* deactivate_device.
LEMMA DeactivateKeeps ==
  ASSUME NEW t, NEW k, NEW h, NEW D, NEW C, NEW r, NEW d, NEW gone, NEW u,
         Kept(t, k, h, D, C, r), d \in Slot, gone \subseteq Client, u = Deactivate(t, d, gone)
  PROVE  /\ Kept(u, k, h, D, C, r) /\ u.dev[d].fd = NoFd
         /\ \A e \in Slot : u.dev[e].path = t.dev[e].path
<1>0. k \in Fd \cup {NoFd} /\ D \subseteq Slot /\ C \subseteq Client /\ r \subseteq Fd
  BY DEF Kept
<1> USE <1>0
<1> DEFINE v == Detach(t, gone)
           w == Closed(v, d)
<1>1. Kept(v, k, h, D, C, r) /\ v.dev = t.dev
  BY DetachKeeps
<1>2. u = IF v.dev[d].fd = NoFd THEN v ELSE w
  BY DEF Deactivate, Closed
<1> HIDE DEF v
<1>4. w = Closed(v, d)
  OBVIOUS
<1> HIDE DEF w
<1>3. Kept(w, k, h, D, C, r) /\ w.dev[d].fd = NoFd /\ \A e \in Slot : w.dev[e].path = v.dev[e].path
  BY <1>1, <1>4, CloseKeeps
<1> QED
  BY <1>1, <1>2, <1>3

\* The kernel hands out a descriptor that is not open.
LEMMA NextIsFree ==
  ASSUME NEW t, FreeFds(t) # {}
  PROVE  NextFd(t) \in Fd \ t.open
<1>1. FreeFds(t) \in SUBSET Nat
  BY DEF FreeFds, Fd
<1> QED
  BY <1>1, LeastIs DEF NextFd, FreeFds

\* What gpsd_activate does to a closed device, if it opens it.
Activated(t, u, d, f) ==
  /\ u \in Table /\ f \in Fd \ t.open
  /\ u.dev[d].fd = f /\ u.dev[d].path = t.dev[d].path
  /\ u.dev[d].conn = IF t.dev[d].path \in NtripPath THEN "probe" ELSE "init"
  /\ \A e \in Slot \ {d} : u.dev[e] = t.dev[e]
  /\ u.open = t.open \cup {f} /\ u.fresh = t.fresh \cup (rfds \cap {f})
  /\ u.all = t.all /\ u.max = t.max /\ u.sub = t.sub

LEMMA Activating ==
  ASSUME NEW t, NEW d, NEW ok, NEW u, t \in Table, d \in Slot, u = Activate(t, d, ok)
  PROVE  u = t \/ Activated(t, u, d, NextFd(t))
<1> SUFFICES ASSUME ok, FreeFds(t) # {} PROVE Activated(t, u, d, NextFd(t))
  BY DEF Activate
<1> DEFINE f == NextFd(t)
           c == IF t.dev[d].path \in NtripPath THEN "probe" ELSE "init"
           x == [t.dev[d] EXCEPT !.fd = f, !.synced = FALSE, !.released = Never, !.opened = 0, !.conn = c]
           o == t.open \cup {f}
           n == t.fresh \cup (rfds \cap {f})
           s == [t.dev EXCEPT ![d] = x]
<1>1. f \in Fd /\ f \notin t.open
  BY NextIsFree
<1>2. u = [t EXCEPT !.open = o, !.fresh = n, !.dev = s]
  BY DEF Activate, Table
<1>3. t.dev \in [Slot -> Device] /\ t.dev[d] \in Device
  BY DEF Table
<1>4. o \in SUBSET Fd /\ n \in SUBSET Fd
  BY <1>1 DEF Table
<1>5. Never \in Age(ReleaseTimeout) /\ 0 \in Never..Reconnect /\ c \in {"init", "probe", "get", "established"}
  BY DEF Age, Never
<1> HIDE DEF f, c, o, n
<1>6. x \in Device /\ x.fd = f /\ x.conn = c /\ x.path = t.dev[d].path
  BY <1>1, <1>3, <1>5 DEF Device
<1> HIDE DEF x
<1>7. s \in [Slot -> Device] /\ s[d] = x /\ \A e \in Slot \ {d} : s[e] = t.dev[e]
  BY <1>3, <1>6
<1> HIDE DEF s
<1>8. /\ u.dev = s /\ u.sub = t.sub /\ u.all = t.all /\ u.max = t.max
      /\ u.open = o /\ u.fresh = n
  BY <1>2 DEF Table
<1>9. u \in Table
  BY <1>2, <1>4, <1>7, <1>8 DEF Table
<1> QED
  BY <1>1, <1>6, <1>7, <1>8, <1>9 DEF Activated, f, c, o, n

\* FD_SET and adjust_max_fd.
LEMMA Listening ==
  ASSUME NEW t, NEW f, NEW u, t \in Table, f \in Fd, u = Listen(t, f)
  PROVE  /\ u \in Table /\ u.dev = t.dev /\ u.sub = t.sub /\ u.open = t.open /\ u.fresh = t.fresh
         /\ u.all = t.all \cup {f} /\ u.max >= t.max /\ f <= u.max
<1> DEFINE a == t.all \cup {f}
           m == IF f > t.max THEN f ELSE t.max
<1>1. u = [t EXCEPT !.all = a, !.max = m]
  BY DEF Listen, Table
<1>2. t.max \in Int /\ f \in Int /\ m \in Fd \cup {Base} /\ m >= t.max /\ f <= m /\ a \in SUBSET (Fd \cup {Base})
  BY DEF Table, Fd, Base
<1> HIDE DEF a, m
<1>3. /\ u.dev = t.dev /\ u.sub = t.sub /\ u.open = t.open /\ u.fresh = t.fresh
      /\ u.all = a /\ u.max = m
  BY <1>1 DEF Table
<1>4. u \in Table
  BY <1>1, <1>2, <1>3 DEF Table
<1> QED
  BY <1>2, <1>3, <1>4 DEF a

\* awaken, of a device in the pool that is not to be read in this pass any more.
LEMMA AwakenKeeps ==
  ASSUME NEW t, NEW k, NEW h, NEW D, NEW C, NEW d, NEW ok, NEW u,
         Kept(t, k, h, D, C, rfds), d \in Slot \ D, t.dev[d].path # NoPath,
         u = Awaken(t, d, ok)
  PROVE  Kept(u, k, h, D, C, rfds) /\ u.sub = t.sub /\ \A e \in Slot : u.dev[e].path = t.dev[e].path
<1> DEFINE w == Activate(t, d, ok)
           f == w.dev[d].fd
           v == Listen(w, f)
<1>1. t \in Table
  BY DEF Kept, Sound
<1>2. CASE t.dev[d].fd # NoFd
  BY <1>2 DEF Awaken
<1>3. CASE t.dev[d].fd = NoFd
  <2>1. u = IF w.dev[d].fd = NoFd THEN w ELSE v
    BY <1>3 DEF Awaken
  <2>2. w = t \/ Activated(t, w, d, NextFd(t))
    <3>1. w = Activate(t, d, ok)
      OBVIOUS
    <3> HIDE DEF w
    <3> QED BY <3>1, <1>1, Activating
  <2>3. v = Listen(w, f)
    OBVIOUS
  <2> HIDE DEF w, v
  <2>4. CASE w = t
    BY <2>4, <2>1, <1>3
  <2>5. CASE Activated(t, w, d, NextFd(t))
    <3>1. f \in Fd /\ f \notin t.open /\ w \in Table /\ f = NextFd(t) /\ f # NoFd
      BY <2>5 DEF Activated, Fd, NoFd
    <3>2. u = v
      BY <2>1, <3>1
    <3>3. /\ v \in Table /\ v.dev = w.dev /\ v.sub = w.sub /\ v.open = w.open /\ v.fresh = w.fresh
          /\ v.all = w.all \cup {f} /\ v.max >= w.max /\ f <= v.max
      <4> HIDE DEF f
      <4> QED BY <3>1, <2>3, Listening
    <3>4. Gained(t, v, rfds, f)
      BY <2>5, <3>1, <3>3 DEF Activated, Gained
    <3>5. /\ v.dev[d].fd = f /\ v.dev[d].path = t.dev[d].path
          /\ v.dev[d].conn # "init" => v.dev[d].path \in NtripPath
          /\ \A e \in Slot \ {d} : v.dev[e] = t.dev[e]
          /\ v.sub = t.sub
      BY <2>5, <3>3 DEF Activated
    <3> HIDE DEF f
    <3>6. Kept(v, k, h, D, C, rfds)
      BY <1>3, <3>3, <3>4, <3>5, DeviceGains
    <3> QED
      BY <3>2, <3>5, <3>6
  <2> QED
    BY <2>2, <2>4, <2>5
<1> QED
  BY <1>2, <1>3

\* add_device takes a free slot, which has no descriptor; nothing is opened.
LEMMA AddKeeps ==
  ASSUME NEW t, NEW k, NEW h, NEW D, NEW C, NEW r, NEW p, NEW gone, NEW u,
         Kept(t, k, h, D, C, r), p \in Path, gone \subseteq Client, u = AddDevice(t, p, gone)
  PROVE  Kept(u, k, h, D, C, r)
<1> DEFINE d == Least(Slot \ Pool(t))
           x == [t.dev[d] EXCEPT !.path = p, !.fd = NoFd, !.synced = FALSE, !.reawake = FALSE,
                                 !.zerokill = FALSE]
           s == [t.dev EXCEPT ![d] = x]
           v == [t EXCEPT !.dev = s]
<1>1. t \in Table /\ SlotsAgree(t) /\ Heard(t)
  BY DEF Kept, Sound
<1>2. CASE Pool(t) = Slot
  BY <1>2 DEF AddDevice
<1>3. CASE Pool(t) # Slot
  <2>1. d \in Slot /\ t.dev[d].path = NoPath
    <3>1. Slot \ Pool(t) \in SUBSET Nat /\ Slot \ Pool(t) # {}
      BY <1>3 DEF Pool, Slot
    <3>2. d \in Slot \ Pool(t)
      BY <3>1, LeastIs
    <3> QED
      BY <3>2 DEF Pool
  <2>2. u = Detach(v, gone)
    BY <1>3, <1>1, <2>1 DEF AddDevice, Table
  <2> HIDE DEF d
  <2>3. t.dev \in [Slot -> Device] /\ t.dev[d] \in Device
    BY <1>1, <2>1 DEF Table
  <2>4. x \in Device /\ x.fd = NoFd /\ x.conn = t.dev[d].conn
    BY <2>3 DEF Device
  <2> HIDE DEF x
  <2>5. s \in [Slot -> Device] /\ s[d] = x /\ \A e \in Slot \ {d} : s[e] = t.dev[e]
    BY <2>1, <2>3, <2>4
  <2> HIDE DEF s
  <2>6. v.dev = s /\ v.sub = t.sub /\ v.all = t.all /\ v.max = t.max /\ v.open = t.open /\ v.fresh = t.fresh
    BY <1>1 DEF Table
  <2>7. v \in Table
    BY <1>1, <2>5, <2>6 DEF Table
  <2> HIDE DEF v
  <2>8. t.dev[d].fd = NoFd
    BY <1>1, <2>1 DEF SlotsAgree, DevFd
  <2>9. Unmoved(t, v)
    <3>1. ASSUME NEW e \in Slot
          PROVE  /\ DevFd(v, e) = DevFd(t, e)
                 /\ v.dev[e].path = t.dev[e].path
                      \/ (DevFd(t, e) = NoFd /\ (t.dev[e].path = NoPath \/ v.dev[e].path = NoPath))
                 /\ v.dev[e].conn = t.dev[e].conn
                 /\ v.dev[e].reawake = t.dev[e].reawake \/ (DevFd(t, e) \in Fd => DevFd(t, e) \in v.all)
      <4>1. CASE e = d
        BY <4>1, <2>1, <2>4, <2>5, <2>6, <2>8 DEF DevFd, NoFd, Fd
      <4>2. CASE e # d
        BY <4>2, <2>5, <2>6 DEF DevFd
      <4> QED
        BY <4>1, <4>2
    <3>2. v.max >= t.max
      BY <1>1, <2>6 DEF Table, Fd, Base
    <3> QED
      BY <3>1, <3>2, <2>6, <2>7 DEF Unmoved, SubFd
  <2>10. Kept(v, k, h, D, C, r)
    BY <2>9, Unmoving
  <2> QED
    BY <2>2, <2>10, DetachKeeps
<1> QED
  BY <1>2, <1>3

\* The variables are the record that a handler leaves.
LEMMA Becoming ==
  ASSUME NEW t, t \in Table, Becomes(t)
  PROVE  Daemon' = t
<1>1. t = [dev |-> t.dev, sub |-> t.sub, all |-> t.all, max |-> t.max, open |-> t.open, fresh |-> t.fresh]
  BY DEF Table
<1> QED
  BY <1>1 DEF Daemon, Becomes

\* The end of a step: the handler's record is the daemon's, and the loop goes on to
\* where no more readers wait.
LEMMA StepEnds ==
  ASSUME NEW t, NEW h, NEW D, NEW C, NEW r,
         Kept(t, ctl', h, D, C, r), Becomes(t), Hups' = 0 => h = 0,
         UnreadDevices' \subseteq D, UnreadClients' \subseteq C,
         rfds' = r \/ (UnreadDevices' = {} /\ rfds' \subseteq Fd)
  PROVE  Kept(Daemon, ctl, Hups, UnreadDevices, UnreadClients, rfds)'
<1>1. Daemon' = t
  BY Becoming DEF Kept, Sound
<1>2. Kept(t, ctl', Hups', UnreadDevices', UnreadClients', rfds')
  BY Fewer
<1> QED
  BY <1>1, <1>2 DEF Kept, Sound, OwnersDiffer, OpenIsOwned, SlotsAgree, Heard, Listed, Deaf,
                    DeviceWaits, ClientWaits, DevFd, SubFd

\* A device is marked, or what is known of it changes; it keeps its descriptor.
Altered(t, d, x) == [t EXCEPT !.dev = [t.dev EXCEPT ![d] = x]]

LEMMA AlterKeeps ==
  ASSUME NEW t, NEW k, NEW h, NEW D, NEW C, NEW r, NEW d, NEW x, NEW u,
         Kept(t, k, h, D, C, r), d \in Slot, x \in Device,
         x.fd = t.dev[d].fd, x.path = t.dev[d].path,
         x.conn = t.dev[d].conn \/ (t.dev[d].conn = "get" /\ x.conn = "established"),
         x.reawake = t.dev[d].reawake \/ (x.fd \in Fd => x.fd \in t.all),
         u = Altered(t, d, x)
  PROVE  /\ Kept(u, k, h, D, C, r)
         /\ u.dev[d] = x /\ (\A e \in Slot \ {d} : u.dev[e] = t.dev[e])
         /\ u.sub = t.sub /\ u.all = t.all /\ u.max = t.max /\ u.open = t.open /\ u.fresh = t.fresh
<1> DEFINE s == [t.dev EXCEPT ![d] = x]
<1>1. t \in Table
  BY DEF Kept, Sound
<1>2. s \in [Slot -> Device] /\ s[d] = x /\ \A e \in Slot \ {d} : s[e] = t.dev[e]
  BY <1>1 DEF Table
<1> HIDE DEF s
<1>3. u = [t EXCEPT !.dev = s]
  BY DEF s, Altered
<1>4. /\ u.dev = s /\ u.sub = t.sub /\ u.all = t.all /\ u.max = t.max
      /\ u.open = t.open /\ u.fresh = t.fresh
  BY <1>1, <1>3 DEF Table
<1>5. u \in Table
  BY <1>1, <1>2, <1>3, <1>4 DEF Table
<1>6. u.max >= t.max
  BY <1>1, <1>4 DEF Table, Fd, Base
<1>7. ASSUME NEW e \in Slot
      PROVE  /\ DevFd(u, e) = DevFd(t, e) /\ u.dev[e].path = t.dev[e].path
             /\ u.dev[e].conn = t.dev[e].conn
                  \/ (u.dev[e].conn # "init" /\ t.dev[e].conn \notin {"init", "probe"})
             /\ u.dev[e].reawake = t.dev[e].reawake \/ (DevFd(t, e) \in Fd => DevFd(t, e) \in u.all)
  BY <1>2, <1>4 DEF DevFd
<1>8. Unmoved(t, u)
  BY <1>4, <1>5, <1>6, <1>7 DEF Unmoved, SubFd
<1>9. Kept(u, k, h, D, C, r)
  BY <1>8, Unmoving
<1> QED
  BY <1>2, <1>4, <1>9

\* A client's policy or time stamp changes, or a free slot is lost; it keeps its
\* descriptor.
Replaced(t, c, x) == [t EXCEPT !.sub = [t.sub EXCEPT ![c] = x]]

LEMMA PolicyKeeps ==
  ASSUME NEW t, NEW k, NEW h, NEW D, NEW C, NEW r, NEW c, NEW x, NEW u,
         Kept(t, k, h, D, C, r), c \in Client, x \in Subscriber,
         x.fd = t.sub[c].fd \/ (x.fd \notin Fd /\ t.sub[c].fd \notin Fd),
         x.active # Never <=> t.sub[c].active # Never,
         u = Replaced(t, c, x)
  PROVE  /\ Kept(u, k, h, D, C, r)
         /\ u.sub[c] = x /\ (\A b \in Client \ {c} : u.sub[b] = t.sub[b])
         /\ u.dev = t.dev /\ u.all = t.all /\ u.max = t.max /\ u.open = t.open /\ u.fresh = t.fresh
<1> DEFINE s == [t.sub EXCEPT ![c] = x]
<1>1. t \in Table
  BY DEF Kept, Sound
<1>2. s \in [Client -> Subscriber] /\ s[c] = x /\ \A b \in Client \ {c} : s[b] = t.sub[b]
  BY <1>1 DEF Table
<1> HIDE DEF s
<1>3. u = [t EXCEPT !.sub = s]
  BY DEF s, Replaced
<1>4. /\ u.dev = t.dev /\ u.sub = s /\ u.all = t.all /\ u.max = t.max
      /\ u.open = t.open /\ u.fresh = t.fresh
  BY <1>1, <1>3 DEF Table
<1>5. u \in Table
  BY <1>1, <1>2, <1>3, <1>4 DEF Table
<1>6. u.max >= t.max
  BY <1>1, <1>4 DEF Table, Fd, Base
<1>7. ASSUME NEW b \in Client
      PROVE  /\ SubFd(u, b) = SubFd(t, b) \/ (SubFd(t, b) \notin Fd /\ SubFd(u, b) \notin Fd)
             /\ u.sub[b].active # Never <=> t.sub[b].active # Never
  BY <1>2, <1>4 DEF SubFd
<1>8. Unmoved(t, u)
  BY <1>4, <1>5, <1>6, <1>7 DEF Unmoved, DevFd
<1>9. Kept(u, k, h, D, C, r)
  BY <1>8, Unmoving
<1> QED
  BY <1>2, <1>4, <1>9

\* A device that waits (reawake) and is not to be read in this pass may be cleared from
\* all_fds.
LEMMA RestKeeps ==
  ASSUME NEW t, NEW k, NEW h, NEW D, NEW C, NEW r, NEW d, NEW f, NEW s, NEW u,
         Kept(t, k, h, D, C, r), d \in Slot \ D, t.dev[d].reawake, f = t.dev[d].fd, s = {f}, f \in Fd,
         u = Unlisten(t, s)
  PROVE  Kept(u, k, h, D, C, r)
<1>0. k \in Fd \cup {NoFd} /\ D \subseteq Slot /\ C \subseteq Client /\ r \subseteq Fd
  BY DEF Kept
<1>1. t \in Table /\ OwnersDiffer(t, k) /\ Heard(t)
  BY DEF Kept, Sound
<1>2. /\ u \in Table
      /\ u.dev = t.dev /\ u.sub = t.sub /\ u.open = t.open /\ u.fresh = t.fresh
      /\ u.all = t.all \ s
      /\ \A g \in u.all : g <= t.max => g <= u.max
  BY <1>1, Unlistening
<1>3. /\ \A e \in Slot : DevFd(u, e) = DevFd(t, e) /\ u.dev[e] = t.dev[e]
      /\ \A c \in Client : SubFd(u, c) = SubFd(t, c) /\ u.sub[c] = t.sub[c]
      /\ u.all = t.all \ {f} /\ DevFd(t, d) = f
  BY <1>2 DEF DevFd, SubFd
<1>4. OwnersDiffer(u, k) /\ OpenIsOwned(u, k) /\ SlotsAgree(u)
  <2>1. OpenIsOwned(t, k) /\ SlotsAgree(t)
    BY DEF Kept, Sound
  <2>2. OwnersDiffer(u, k)
    <3>1. /\ \A e \in Slot : DevFd(u, e) = DevFd(t, e)
          /\ \A c \in Client : SubFd(u, c) = SubFd(t, c)
      BY <1>3
    <3> QED
      BY <1>1, <3>1 DEF OwnersDiffer
  <2>3. OpenIsOwned(u, k)
    BY SMTT(20), <2>1, <1>2, <1>3 DEF OpenIsOwned
  <2>4. SlotsAgree(u)
    BY ZenonT(30), <2>1, <1>3 DEF SlotsAgree
  <2> QED
    BY <2>2, <2>3, <2>4
<1>5. /\ \A e \in Slot : e # d /\ DevFd(t, e) \in Fd => DevFd(t, e) # f
      /\ \A c \in Client : SubFd(t, c) # f
  BY <1>1, <1>3 DEF OwnersDiffer
<1>6. Heard(u)
  BY <1>1, <1>3, <1>5 DEF Heard
<1>7. h = 0 => Listed(u) /\ Deaf(u)
  <2> SUFFICES ASSUME h = 0 PROVE Listed(u) /\ Deaf(u)
    OBVIOUS
  <2>1. Listed(t) /\ Deaf(t)
    BY DEF Kept
  <2>2. Listed(u)
    BY <2>1, <1>2 DEF Listed
  <2>3. ASSUME NEW g \in u.all, g > u.max
        PROVE  \E e \in Slot : DevFd(u, e) = g /\ u.dev[e].conn = "probe"
    <3>1. g \in Int /\ t.max \in Int /\ u.max \in Int
      BY <1>1, <1>2 DEF Table, Fd, Base
    <3>2. g > t.max /\ g \in t.all
      BY <2>3, <3>1, <1>2
    <3>3. PICK e \in Slot : DevFd(t, e) = g /\ t.dev[e].conn = "probe"
      BY <3>2, <2>1 DEF Deaf
    <3> QED
      BY <3>3, <1>3
  <2> QED
    BY <2>2, <2>3 DEF Deaf
<1>8. ASSUME NEW e \in D PROVE DeviceWaits(u, e, r)
  <2>1. DeviceWaits(t, e, r) /\ e \in Slot /\ e # d /\ DevFd(t, e) \in Fd \cup {NoFd}
    BY <1>0, <1>1 DEF Kept, Table, Device, DevFd
  <2>2. DevFd(t, e) \in r => DevFd(t, e) # f
    BY <2>1, <1>0, <1>5
  <2> QED
    BY <2>1, <2>2, <1>2, <1>3 DEF DeviceWaits
<1>9. ASSUME NEW c \in C PROVE ClientWaits(u, c)
  <2>1. ClientWaits(t, c)
    BY DEF Kept
  <2> QED
    BY <2>1, <1>0, <1>2, <1>3 DEF ClientWaits
<1> QED
  BY <1>0, <1>2, <1>4, <1>6, <1>7, <1>8, <1>9 DEF Kept, Sound

-----------------------------------------------------------------------------
(* The steps of the loop. *)

\* What DaemonInv says of the daemon's record.
LEMMA DaemonFacts ==
  ASSUME DaemonInv
  PROVE  /\ Kept(Daemon, ctl, Hups, UnreadDevices, UnreadClients, rfds) /\ LoopOK
         /\ Daemon \in Table /\ SlotsAgree(Daemon) /\ Heard(Daemon)
         /\ Daemon.dev = dev /\ Daemon.sub = sub /\ Daemon.all = allFds /\ Daemon.max = maxfd
         /\ Daemon.open = open /\ Daemon.fresh = fresh
BY DEF DaemonInv, Kept, Sound, Daemon

\* After a device the loop goes to the next one, or to the first client.
LEMMA DeviceMoves ==
  ASSUME LoopOK, AtDevice, AfterDevice
  PROVE  /\ LoopOK' /\ ctl' = ctl /\ rfds' = rfds /\ at \in Slot /\ at \notin UnreadDevices'
         /\ Hups' = Hups /\ UnreadDevices' \subseteq UnreadDevices /\ UnreadClients' \subseteq UnreadClients
<1>1. /\ pc = "device" /\ at \in Slot /\ ctl = NoFd /\ rfds \subseteq Fd /\ hups \in 0..MaxHups
      /\ todo \subseteq Nat
  BY DEF LoopOK, AtDevice
<1>2. UNCHANGED <<ctl, todo, rfds, hups>>
  BY DEF AfterDevice
<1>3. CASE pc' = "device" /\ at' = at + 1 /\ at < Slots
  <2>1. at' \in Slot /\ at' \in Nat \ {0}
    BY <1>1, <1>3 DEF Slot
  <2>2. LoopOK'
    BY <1>1, <1>2, <1>3, <2>1 DEF LoopOK
  <2>3. UnreadDevices' \subseteq UnreadDevices /\ at \notin UnreadDevices'
    BY <1>1, <1>3 DEF UnreadDevices, Outside, Slot
  <2>4. UnreadClients' \subseteq UnreadClients
    BY <1>1, <1>3 DEF UnreadClients, Outside
  <2>5. Hups' = Hups
    BY <1>1, <1>2, <1>3 DEF Hups
  <2> QED
    BY <1>1, <1>2, <2>2, <2>3, <2>4, <2>5
<1>4. CASE pc' = "client" /\ at' = 1
  <2>1. at' \in Client /\ at' \in Nat \ {0}
    BY <1>4 DEF Client
  <2>2. LoopOK'
    BY <1>1, <1>2, <1>4, <2>1 DEF LoopOK
  <2>3. UnreadDevices' = {}
    BY <1>4 DEF UnreadDevices, Outside
  <2>4. UnreadClients' \subseteq UnreadClients
    BY <1>1, <1>4 DEF UnreadClients, Outside
  <2>5. Hups' = Hups
    BY <1>1, <1>2, <1>4 DEF Hups
  <2> QED
    BY <1>1, <1>2, <2>2, <2>3, <2>4, <2>5
<1> QED
  BY <1>1, <1>3, <1>4 DEF AfterDevice, NextSlot, Goto

\* The end of a step at a device: what a handler keeps is kept.
LEMMA DeviceEnds ==
  ASSUME LoopOK, AtDevice, AfterDevice, NEW t, NEW D, UnreadDevices' \subseteq D,
         Kept(t, ctl, Hups, D, UnreadClients, rfds), Becomes(t)
  PROVE  DaemonInv'
<1>1. /\ LoopOK' /\ ctl' = ctl /\ rfds' = rfds /\ Hups' = Hups
      /\ UnreadClients' \subseteq UnreadClients
  BY DeviceMoves
<1>2. Kept(Daemon, ctl, Hups, UnreadDevices, UnreadClients, rfds)'
  BY <1>1, StepEnds
<1> QED
  BY <1>1, <1>2 DEF DaemonInv

\* Clients that are lost are clients.
LEMMA WatchersAreClients ==
  ASSUME NEW t, NEW p
  PROVE  Watchers(t, p) \subseteq Connected(t) /\ Connected(t) \subseteq Client
BY DEF Watchers, Connected

LEMMA DeviceCloses ==
  ASSUME DaemonInv,
         \/ DeviceFails \/ NtripFails \/ DeviceQuiet \/ NtripMore
  PROVE  DaemonInv'
<1>1. /\ Kept(Daemon, ctl, Hups, UnreadDevices, UnreadClients, rfds) /\ LoopOK
      /\ Daemon \in Table
  BY DaemonFacts
<1>2. AtDevice /\ AfterDevice
  BY DEF DeviceFails, NtripFails, DeviceQuiet, NtripMore
<1>3. at \in Slot /\ UnreadDevices' \subseteq UnreadDevices
  BY <1>1, <1>2, DeviceMoves
<1>4. CASE DeviceFails \/ NtripFails
  <2>1. PICK gone \in SUBSET Watchers(Daemon, dev[at].path) : Becomes(Deactivate(Daemon, at, gone))
    BY <1>4 DEF DeviceFails, NtripFails
  <2>2. gone \subseteq Client
    BY WatchersAreClients
  <2> DEFINE t == Deactivate(Daemon, at, gone)
  <2>3. t = Deactivate(Daemon, at, gone) /\ Becomes(t)
    BY <2>1
  <2> HIDE DEF t
  <2>4. Kept(t, ctl, Hups, UnreadDevices, UnreadClients, rfds)
    BY <1>1, <1>3, <2>2, <2>3, DeactivateKeeps
  <2> QED
    BY <1>1, <1>2, <1>3, <2>3, <2>4, DeviceEnds
<1>5. CASE DeviceQuiet \/ NtripMore
  <2>1. Becomes(Daemon)
    BY <1>5 DEF DeviceQuiet, NtripMore, daemonVars, Becomes, Daemon
  <2> QED
    BY <1>1, <1>2, <1>3, <2>1, DeviceEnds
<1> QED
  BY <1>4, <1>5

\* A device that is read is open, listened to, below maxfd, and not opened since
\* select() returned.
LEMMA ReadyIsSelected ==
  ASSUME DaemonInv, AtDevice, Ready(at), at \in Slot
  PROVE  /\ dev[at].fd \in Fd /\ dev[at].fd \in open /\ dev[at].fd \in allFds
         /\ dev[at].fd <= maxfd /\ dev[at].fd \notin fresh
<1>1. Kept(Daemon, ctl, Hups, UnreadDevices, UnreadClients, rfds)
  BY DaemonFacts
<1>2. DevFd(Daemon, at) = dev[at].fd /\ dev[at].fd \in rfds /\ dev[at].fd # NoFd
  BY DaemonFacts DEF DevFd, Ready, IsOpen
<1>3. at \in UnreadDevices
  BY DEF UnreadDevices, AtDevice, Slot
<1>4. DeviceWaits(Daemon, at, rfds) /\ rfds \subseteq Fd
  BY <1>1, <1>3 DEF Kept
<1>5. OpenIsOwned(Daemon, ctl)
  BY <1>1 DEF Kept, Sound
<1> QED
  BY <1>2, <1>4, <1>5, DaemonFacts DEF DeviceWaits, OpenIsOwned

LEMMA DeviceRests ==
  ASSUME DaemonInv, DeviceEmpty
  PROVE  DaemonInv'
<1>1. /\ Kept(Daemon, ctl, Hups, UnreadDevices, UnreadClients, rfds) /\ LoopOK
      /\ Daemon \in Table /\ Daemon.dev = dev /\ Daemon.all = allFds
  BY DaemonFacts
<1>2. AtDevice /\ AfterDevice /\ Ready(at)
  BY DEF DeviceEmpty
<1>3. at \in Slot /\ UnreadDevices' \subseteq UnreadDevices /\ at \notin UnreadDevices'
  BY <1>1, <1>2, DeviceMoves
<1>4. dev[at].fd \in Fd /\ dev[at].fd \in allFds
  BY <1>2, <1>3, ReadyIsSelected
<1> DEFINE f == dev[at].fd
           x == [dev[at] EXCEPT !.reawake = TRUE]
           v == Altered(Daemon, at, x)
           s == {f}
           u == Unlisten(v, s)
           D == UnreadDevices'
<1>5. Becomes(u)
  <2>1. v = [Daemon EXCEPT !.dev[at].reawake = TRUE]
    BY <1>1, <1>3 DEF Table, Altered
  <2> HIDE DEF v
  <2> QED
    BY <2>1 DEF DeviceEmpty
<1>6. dev[at] \in Device
  BY <1>1, <1>3 DEF Table
<1>7. x \in Device /\ x.fd = f /\ x.path = dev[at].path /\ x.conn = dev[at].conn /\ x.reawake
  BY <1>6 DEF Device
<1> HIDE DEF x
<1>8. Kept(Daemon, ctl, Hups, D, UnreadClients, rfds)
  BY <1>1, <1>3, Fewer
<1>9. at \in Slot \ D
  BY <1>3
<1> HIDE DEF D
<1>a. /\ v = Altered(Daemon, at, x)
      /\ x.fd = Daemon.dev[at].fd /\ x.path = Daemon.dev[at].path /\ x.conn = Daemon.dev[at].conn
      /\ x.fd \in Daemon.all
  BY <1>1, <1>4, <1>7
<1> HIDE DEF v
<1>10. Kept(v, ctl, Hups, D, UnreadClients, rfds) /\ v.dev[at] = x
  BY <1>3, <1>7, <1>8, <1>a, AlterKeeps
<1>11. u = Unlisten(v, s) /\ f = v.dev[at].fd /\ s = {f} /\ f \in Fd /\ v.dev[at].reawake
  BY <1>4, <1>7, <1>10
<1> HIDE DEF s, u, f
<1>12. Kept(u, ctl, Hups, D, UnreadClients, rfds)
  BY <1>9, <1>10, <1>11, RestKeeps
<1>13. UnreadDevices' \subseteq D
  BY DEF D
<1> QED
  BY <1>1, <1>2, <1>5, <1>12, <1>13, DeviceEnds

LEMMA DeviceWakes ==
  ASSUME DaemonInv, DeviceReawakes
  PROVE  DaemonInv'
<1>1. /\ Kept(Daemon, ctl, Hups, UnreadDevices, UnreadClients, rfds) /\ LoopOK
      /\ Daemon \in Table /\ Daemon.dev = dev
  BY DaemonFacts
<1>2. AtDevice /\ AfterDevice
  BY DEF DeviceReawakes
<1>3. at \in Slot /\ UnreadDevices' \subseteq UnreadDevices
  BY <1>1, <1>2, DeviceMoves
<1> DEFINE f == dev[at].fd
           x == [dev[at] EXCEPT !.reawake = FALSE, !.zerokill = TRUE]
           w == [Daemon.dev EXCEPT ![at] = x]
           v == [Daemon EXCEPT !.dev = w]
           u == Listen(v, f)
<1>4. Becomes(u)
  <2>1. v = [Daemon EXCEPT !.dev[at].reawake = FALSE, !.dev[at].zerokill = TRUE]
    BY <1>1, <1>3 DEF Table
  <2> HIDE DEF v
  <2> QED
    BY <2>1 DEF DeviceReawakes
<1>5. dev[at] \in Device
  BY <1>1, <1>3 DEF Table
<1>6. x \in Device /\ x.fd = f /\ x.path = dev[at].path /\ x.conn = dev[at].conn
  BY <1>5 DEF Device
<1>7. f \in Fd
  BY <1>5 DEF DeviceReawakes, IsOpen, Device
<1> HIDE DEF x
<1>8. w \in [Slot -> Device] /\ w[at] = x /\ \A e \in Slot \ {at} : w[e] = dev[e]
  BY <1>1, <1>3, <1>6 DEF Table
<1> HIDE DEF w
<1>9. /\ v.dev = w /\ v.sub = Daemon.sub /\ v.all = Daemon.all /\ v.max = Daemon.max
      /\ v.open = Daemon.open /\ v.fresh = Daemon.fresh
  BY <1>1 DEF Table
<1>10. v \in Table
  BY <1>1, <1>8, <1>9 DEF Table
<1>11. u = Listen(v, f)
  OBVIOUS
<1> HIDE DEF v, u
<1>12. /\ u \in Table /\ u.dev = v.dev /\ u.sub = v.sub /\ u.open = v.open /\ u.fresh = v.fresh
       /\ u.all = v.all \cup {f} /\ u.max >= v.max /\ f <= u.max
  <2> HIDE DEF f
  <2> QED BY <1>7, <1>10, <1>11, Listening
<1>13. ASSUME NEW e \in Slot
       PROVE  /\ DevFd(u, e) = DevFd(Daemon, e) /\ u.dev[e].path = Daemon.dev[e].path
              /\ u.dev[e].conn = Daemon.dev[e].conn
              /\ u.dev[e].reawake = Daemon.dev[e].reawake
                   \/ (DevFd(Daemon, e) \in Fd => DevFd(Daemon, e) \in u.all)
  <2>1. CASE e = at
    BY <2>1, <1>1, <1>6, <1>8, <1>9, <1>12 DEF DevFd
  <2>2. CASE e # at
    BY <2>2, <1>1, <1>8, <1>9, <1>12 DEF DevFd
  <2> QED
    BY <2>1, <2>2
<1>14. \A g \in u.all \ Daemon.all : g <= u.max /\ \E d \in Slot : DevFd(Daemon, d) = g
  BY <1>1, <1>3, <1>9, <1>12 DEF DevFd
<1>15. Unmoved(Daemon, u)
  BY <1>9, <1>12, <1>13, <1>14 DEF Unmoved, SubFd
<1>16. Kept(u, ctl, Hups, UnreadDevices, UnreadClients, rfds)
  BY <1>1, <1>15, Unmoving
<1> QED
  BY <1>1, <1>2, <1>3, <1>4, <1>16, DeviceEnds

LEMMA SourceIsEstablished ==
  ASSUME DaemonInv, NtripEstablished
  PROVE  DaemonInv'
<1>1. /\ Kept(Daemon, ctl, Hups, UnreadDevices, UnreadClients, rfds) /\ LoopOK
      /\ Daemon \in Table /\ Daemon.dev = dev
  BY DaemonFacts
<1>2. AtDevice /\ AfterDevice
  BY DEF NtripEstablished
<1>3. at \in Slot /\ UnreadDevices' \subseteq UnreadDevices
  BY <1>1, <1>2, DeviceMoves
<1> DEFINE x == [dev[at] EXCEPT !.conn = "established"]
           v == Altered(Daemon, at, x)
<1>4. Becomes(v)
  <2>1. v = [Daemon EXCEPT !.dev[at].conn = "established"]
    BY <1>1, <1>3 DEF Table, Altered
  <2> HIDE DEF v
  <2> QED
    BY <2>1 DEF NtripEstablished
<1>5. dev[at] \in Device /\ dev[at].conn = "get"
  BY <1>1, <1>3 DEF Table, NtripEstablished
<1>6. /\ x \in Device /\ x.fd = Daemon.dev[at].fd /\ x.path = Daemon.dev[at].path
      /\ x.conn = "established" /\ Daemon.dev[at].conn = "get"
      /\ x.reawake = Daemon.dev[at].reawake
  BY <1>1, <1>5 DEF Device
<1>7. v = Altered(Daemon, at, x)
  OBVIOUS
<1> HIDE DEF x, v
<1>8. Kept(v, ctl, Hups, UnreadDevices, UnreadClients, rfds)
  BY <1>1, <1>3, <1>6, <1>7, AlterKeeps
<1> QED
  BY <1>1, <1>2, <1>3, <1>4, <1>8, DeviceEnds

LEMMA DeviceIsRead ==
  ASSUME DaemonInv, NEW synced \in BOOLEAN, NEW fails \in BOOLEAN, DeviceData(synced, fails)
  PROVE  DaemonInv'
<1>1. /\ Kept(Daemon, ctl, Hups, UnreadDevices, UnreadClients, rfds) /\ LoopOK
      /\ Daemon \in Table /\ Daemon.dev = dev /\ Daemon.all = allFds
  BY DaemonFacts
<1>2. AtDevice /\ AfterDevice /\ Ready(at)
  BY DEF DeviceData
<1>3. at \in Slot /\ UnreadDevices' \subseteq UnreadDevices
  BY <1>1, <1>2, DeviceMoves
<1>4. dev[at].fd \in allFds
  BY <1>2, <1>3, ReadyIsSelected
<1> DEFINE x == [dev[at] EXCEPT !.zerokill = FALSE, !.reawake = FALSE, !.synced = synced]
           v == Altered(Daemon, at, x)
<1>5. PICK gone \in SUBSET Watchers(Daemon, dev[at].path) :
        LET t == Detach([Daemon EXCEPT !.dev[at].zerokill = FALSE, !.dev[at].reawake = FALSE,
                                       !.dev[at].synced = synced], gone)
        IN  Becomes(IF fails THEN Deactivate(t, at, {}) ELSE t)
  BY DEF DeviceData
<1> DEFINE w == Detach(v, gone)
           none == {}
           y == Deactivate(w, at, none)
<1>6. Becomes(IF fails THEN y ELSE w)
  <2>1. v = [Daemon EXCEPT !.dev[at].zerokill = FALSE, !.dev[at].reawake = FALSE,
                           !.dev[at].synced = synced]
    BY <1>1, <1>3 DEF Table, Altered
  <2> HIDE DEF v
  <2> QED
    BY <1>5, <2>1
<1>7. dev[at] \in Device
  BY <1>1, <1>3 DEF Table
<1>8. /\ x \in Device /\ x.fd = Daemon.dev[at].fd /\ x.path = Daemon.dev[at].path
      /\ x.conn = Daemon.dev[at].conn /\ x.fd \in Daemon.all
  BY <1>1, <1>4, <1>7 DEF Device
<1>9. v = Altered(Daemon, at, x)
  OBVIOUS
<1> HIDE DEF x, v
<1>10. Kept(v, ctl, Hups, UnreadDevices, UnreadClients, rfds)
  BY <1>1, <1>3, <1>8, <1>9, AlterKeeps
<1>11. gone \subseteq Client
  BY WatchersAreClients
<1>12. w = Detach(v, gone)
  OBVIOUS
<1> HIDE DEF w
<1>13. Kept(w, ctl, Hups, UnreadDevices, UnreadClients, rfds)
  BY <1>10, <1>11, <1>12, DetachKeeps
<1>14. y = Deactivate(w, at, none) /\ none \subseteq Client
  OBVIOUS
<1> HIDE DEF y, none
<1>15. Kept(y, ctl, Hups, UnreadDevices, UnreadClients, rfds)
  BY <1>3, <1>13, <1>14, DeactivateKeeps
<1> DEFINE z == IF fails THEN y ELSE w
<1>16. Becomes(z) /\ Kept(z, ctl, Hups, UnreadDevices, UnreadClients, rfds)
  BY <1>6, <1>13, <1>15
<1> HIDE DEF z
<1> QED
  BY <1>1, <1>2, <1>3, <1>16, DeviceEnds

\* An NTRIP source that worked is opened again: maxfd is not adjusted, but it is a probe.
LEMMA DeviceIsKilled ==
  ASSUME DaemonInv, NEW ok \in BOOLEAN, DeviceKilled(ok)
  PROVE  DaemonInv'
<1>1. /\ Kept(Daemon, ctl, Hups, UnreadDevices, UnreadClients, rfds) /\ LoopOK
      /\ Daemon \in Table /\ Daemon.dev = dev /\ SlotsAgree(Daemon)
  BY DaemonFacts
<1>2. AtDevice /\ AfterDevice
  BY DEF DeviceKilled
<1>3. at \in Slot /\ UnreadDevices' \subseteq UnreadDevices /\ at \notin UnreadDevices'
  BY <1>1, <1>2, DeviceMoves
<1>4. PICK gone \in SUBSET Watchers(Daemon, dev[at].path) :
        LET t == Deactivate(Daemon, at, gone)
            u == Activate(t, at, ok)
        IN  Becomes(IF dev[at].conn # "established" THEN t
                    ELSE [u EXCEPT !.all = @ \cup ({u.dev[at].fd} \ {NoFd})])
  BY DEF DeviceKilled
<1> DEFINE t == Deactivate(Daemon, at, gone)
           u == Activate(t, at, ok)
           a == u.all \cup ({u.dev[at].fd} \ {NoFd})
           v == [u EXCEPT !.all = a]
           D == UnreadDevices'
<1>5. Becomes(IF dev[at].conn # "established" THEN t ELSE v)
  BY <1>4
<1>6. gone \subseteq Client
  BY WatchersAreClients
<1>7. t = Deactivate(Daemon, at, gone)
  OBVIOUS
<1>8. u = Activate(t, at, ok)
  OBVIOUS
<1> HIDE DEF t, u
<1>9. /\ Kept(t, ctl, Hups, UnreadDevices, UnreadClients, rfds) /\ t.dev[at].fd = NoFd
      /\ t.dev[at].path = dev[at].path
  BY <1>1, <1>3, <1>6, <1>7, DeactivateKeeps
<1>10. CASE dev[at].conn # "established"
  <2>1. Becomes(t)
    BY <1>5, <1>10
  <2> QED
    BY <1>1, <1>2, <1>3, <1>9, <2>1, DeviceEnds
<1>11. CASE dev[at].conn = "established"
  <2>1. dev[at].path \in NtripPath /\ dev[at].path # NoPath
    BY <1>1, <1>3, <1>11, NamesDiffer DEF SlotsAgree
  <2>2. t \in Table /\ Becomes(v)
    BY <1>5, <1>9, <1>11 DEF Kept, Sound
  <2>3. at \in Slot \ D /\ D \subseteq UnreadDevices /\ UnreadDevices' \subseteq D
    BY <1>3
  <2> HIDE DEF D
  <2>4. Kept(t, ctl, Hups, D, UnreadClients, rfds)
    BY <1>9, <2>3, Fewer
  <2>5. u = t \/ Activated(t, u, at, NextFd(t))
    BY <1>3, <1>8, <2>2, Activating
  <2>6. CASE u = t
    <3>1. a = t.all
      BY <2>6, <1>9
    <3>2. v = t
      <4> HIDE DEF a
      <4> QED BY <2>2, <2>6, <3>1 DEF Table
    <3> QED
      BY <1>1, <1>2, <2>2, <2>3, <2>4, <3>2, DeviceEnds
  <2>7. CASE Activated(t, u, at, NextFd(t))
    <3> DEFINE f == NextFd(t)
    <3>1. /\ u \in Table /\ f \in Fd \ t.open /\ f # NoFd
          /\ u.dev[at].fd = f /\ u.dev[at].path = dev[at].path /\ u.dev[at].conn = "probe"
          /\ \A e \in Slot \ {at} : u.dev[e] = t.dev[e]
          /\ u.open = t.open \cup {f} /\ u.fresh = t.fresh \cup (rfds \cap {f})
          /\ u.all = t.all /\ u.max = t.max /\ u.sub = t.sub
      BY <1>9, <2>1, <2>7 DEF Activated, Fd, NoFd
    <3> HIDE DEF f
    <3>2. a = t.all \cup {f} /\ a \in SUBSET (Fd \cup {Base})
      BY <2>2, <3>1 DEF Table
    <3> HIDE DEF a
    <3>3. /\ v.dev = u.dev /\ v.sub = t.sub /\ v.all = a /\ v.max = t.max
          /\ v.open = t.open \cup {f} /\ v.fresh = t.fresh \cup (rfds \cap {f})
      BY <3>1 DEF Table
    <3>4. v \in Table
      BY <3>1, <3>2, <3>3 DEF Table
    <3> HIDE DEF v
    <3>5. v.max >= t.max
      BY <2>2, <3>3 DEF Table, Fd, Base
    <3>6. Gained(t, v, rfds, f)
      BY <3>1, <3>2, <3>3, <3>4, <3>5 DEF Gained
    <3>7. /\ v.dev[at].fd = f /\ v.dev[at].path # NoPath /\ v.dev[at].conn = "probe"
          /\ v.dev[at].path \in NtripPath /\ v.sub = t.sub
          /\ \A e \in Slot \ {at} : v.dev[e] = t.dev[e]
      BY <2>1, <3>1, <3>3
    <3>8. Kept(v, ctl, Hups, D, UnreadClients, rfds)
      BY <1>9, <2>3, <2>4, <3>6, <3>7, DeviceGains
    <3> QED
      BY <1>1, <1>2, <2>2, <2>3, <3>8, DeviceEnds
  <2> QED
    BY <2>5, <2>6, <2>7
<1> QED
  BY <1>10, <1>11

\* The stream's connection replaces the probe's: the lowest free descriptor is not above
\* the one just closed, so maxfd need not be adjusted.
LEMMA SourceIsRequested ==
  ASSUME DaemonInv, NtripRequests
  PROVE  DaemonInv'
<1>1. /\ Kept(Daemon, ctl, Hups, UnreadDevices, UnreadClients, rfds) /\ LoopOK
      /\ Daemon \in Table /\ Daemon.dev = dev /\ Daemon.all = allFds /\ Daemon.max = maxfd
      /\ Daemon.open = open
  BY DaemonFacts
<1>2. AtDevice /\ AfterDevice /\ Ready(at) /\ dev[at].path \in NtripPath
  BY DEF NtripRequests
<1>3. at \in Slot /\ UnreadDevices' \subseteq UnreadDevices /\ at \notin UnreadDevices'
  BY <1>1, <1>2, DeviceMoves
<1> DEFINE f == dev[at].fd
           o == open \ {f}
           a == allFds \ {f}
           v == [Daemon EXCEPT !.all = @ \ {f}, !.open = @ \ {f}]
           g == NextFd(v)
           u == [v EXCEPT !.open = @ \cup {g}, !.fresh = @ \cup (rfds \cap {g}),
                          !.all = @ \cup {g}, !.dev[at].fd = g, !.dev[at].conn = "get"]
           D == UnreadDevices'
           ds == {at}
           none == {}
           x == [dev[at] EXCEPT !.fd = NoFd, !.conn = "init"]
           y == [x EXCEPT !.fd = g, !.conn = "get"]
           w == [dev |-> [dev EXCEPT ![at] = x], sub |-> sub, all |-> a, max |-> maxfd,
                 open |-> o, fresh |-> fresh]
<1>4. Becomes(u)
  BY DEF NtripRequests
<1>5. f \in Fd /\ f \in open /\ f \in allFds /\ f <= maxfd
  BY <1>2, <1>3, ReadyIsSelected
<1>6. dev \in [Slot -> Device] /\ dev[at] \in Device
  BY <1>1, <1>3 DEF Table
<1>7. x \in Device /\ x.fd = NoFd /\ x.conn = "init" /\ x.path = dev[at].path
  BY <1>6 DEF Device
<1>8. /\ v.dev = dev /\ v.sub = sub /\ v.all = a /\ v.max = maxfd /\ v.open = o /\ v.fresh = fresh
      /\ v \in Table
  <2>1. a \in SUBSET (Fd \cup {Base}) /\ o \in SUBSET Fd
    BY <1>1 DEF Table
  <2>2. Daemon.sub = sub /\ Daemon.fresh = fresh
    BY DEF Daemon
  <2>3. v = [Daemon EXCEPT !.all = a, !.open = o]
    BY <1>1 DEF Table
  <2> HIDE DEF v, a, o
  <2>4. v.dev = dev /\ v.sub = sub /\ v.all = a /\ v.max = maxfd /\ v.open = o /\ v.fresh = fresh
    BY <1>1, <2>2, <2>3 DEF Table
  <2>5. v \in Table
    BY <1>1, <2>1, <2>3, <2>4 DEF Table
  <2> QED
    BY <2>4, <2>5
<1>9. g \in Fd /\ g \notin o /\ g <= f
  <2>1. FreeFds(v) \in SUBSET Nat /\ f \in FreeFds(v)
    <3> HIDE DEF v, f
    <3> QED BY <1>5, <1>8 DEF FreeFds, Fd, o
  <2>2. g \in FreeFds(v) /\ g <= f
    <3> HIDE DEF v, f
    <3> QED BY <2>1, LeastIs DEF NextFd
  <2> QED
    BY <2>2, <1>8 DEF FreeFds
<1> HIDE DEF g
<1>10. u = [v EXCEPT !.open = o \cup {g}, !.fresh = fresh \cup (rfds \cap {g}),
                     !.all = a \cup {g}, !.dev = [dev EXCEPT ![at] = y]]
  <2>1. u = [v EXCEPT !.open = v.open \cup {g}, !.fresh = v.fresh \cup (rfds \cap {g}),
                      !.all = v.all \cup {g},
                      !.dev = [v.dev EXCEPT ![at] = [v.dev[at] EXCEPT !.fd = g, !.conn = "get"]]]
    <3> HIDE DEF v
    <3> QED BY ZenonT(30), <1>3, <1>8 DEF Table
  <2>2. y = [dev[at] EXCEPT !.fd = g, !.conn = "get"]
    BY <1>6 DEF Device
  <2> HIDE DEF v, y, u, o, a
  <2> QED
    BY <1>8, <2>1, <2>2
<1>11. y \in Device /\ y.fd = g /\ y.conn = "get" /\ y.path = dev[at].path
  <2> HIDE DEF x
  <2> QED BY <1>7, <1>9 DEF Device
<1>12. /\ w.dev = [dev EXCEPT ![at] = x] /\ w.sub = sub /\ w.all = a /\ w.max = maxfd
       /\ w.open = o /\ w.fresh = fresh
  OBVIOUS
<1> HIDE DEF x, y
<1>13. w \in Table
  <2> USE DEF Daemon
  <2> QED BY <1>1, <1>6, <1>7 DEF Table
<1> HIDE DEF w, v, u
<1>14. w.dev[at] = x /\ \A e \in Slot \ ds : w.dev[e] = dev[e]
  BY <1>3, <1>6, <1>12
<1>15. Gone(Daemon, ctl, ctl, ds, none) = {f}
  BY <1>1 DEF Gone, DevFd
<1>16. Lost(Daemon, w, ctl, ctl, ds, none)
  <2>1. Daemon.fresh = fresh /\ Daemon.sub = sub
    BY DEF Daemon
  <2>2. w.open = Daemon.open \ Gone(Daemon, ctl, ctl, ds, none) /\ w.all = Daemon.all \ Gone(Daemon, ctl, ctl, ds, none)
    BY <1>1, <1>12, <1>15
  <2> HIDE DEF f, o, a
  <2> QED
    BY <1>1, <1>7, <1>12, <1>13, <1>14, <2>1, <2>2 DEF Lost
<1>17. w.all \cap Gone(Daemon, ctl, ctl, ds, none) = {}
  BY <1>12, <1>15
<1>18. /\ ds \subseteq Slot /\ none \subseteq Client
       /\ \A e \in ds : w.dev[e].path = Daemon.dev[e].path
  BY <1>1, <1>3, <1>7, <1>14
<1>19. at \in Slot \ D /\ D \subseteq UnreadDevices /\ UnreadDevices' \subseteq D
  BY <1>3
<1> HIDE DEF ds, none, D
<1>20. Kept(w, ctl, Hups, D, UnreadClients, rfds)
  <2>1. Kept(w, ctl, Hups, UnreadDevices, UnreadClients, rfds)
    BY <1>1, <1>16, <1>17, <1>18, Losing
  <2> QED
    BY <2>1, <1>19, Fewer
<1> HIDE DEF f
<1>21. /\ u.dev = [dev EXCEPT ![at] = y] /\ u.sub = sub /\ u.all = a \cup {g} /\ u.max = maxfd
       /\ u.open = o \cup {g} /\ u.fresh = fresh \cup (rfds \cap {g})
       /\ u \in Table
  <2> DEFINE s == [dev EXCEPT ![at] = y]
             n == fresh \cup (rfds \cap {g})
             p == o \cup {g}
             b == a \cup {g}
  <2>1. s \in [Slot -> Device] /\ n \in SUBSET Fd /\ p \in SUBSET Fd /\ b \in SUBSET (Fd \cup {Base})
    <3>1. a \in SUBSET (Fd \cup {Base}) /\ o \in SUBSET Fd /\ fresh \in SUBSET Fd
      BY <1>8 DEF Table
    <3> QED
      BY <3>1, <1>6, <1>9, <1>11
  <2>2. u = [v EXCEPT !.open = p, !.fresh = n, !.all = b, !.dev = s]
    BY <1>10
  <2> HIDE DEF s, n, p, b
  <2>3. u.dev = s /\ u.sub = sub /\ u.all = b /\ u.max = maxfd /\ u.open = p /\ u.fresh = n
    BY <1>8, <2>2 DEF Table
  <2>4. u \in Table
    BY <1>8, <2>1, <2>2, <2>3 DEF Table
  <2> QED
    BY <2>3, <2>4 DEF s, n, p, b
<1>22. u.max >= w.max /\ g <= u.max
  <2>1. maxfd \in Int /\ g \in Int /\ f \in Int
    BY <1>1, <1>5, <1>9 DEF Table, Fd, Base
  <2> QED
    BY <2>1, <1>5, <1>9, <1>12, <1>21
<1>23. Gained(w, u, rfds, g)
  BY <1>9, <1>12, <1>21, <1>22 DEF Gained
<1>24. u.dev[at] = y /\ (\A e \in Slot \ {at} : u.dev[e] = w.dev[e]) /\ u.sub = w.sub
  BY <1>3, <1>6, <1>12, <1>21
<1>25. /\ w.dev[at].fd = NoFd /\ u.dev[at].fd = g /\ u.dev[at].path # NoPath
       /\ u.dev[at].path \in NtripPath
  BY <1>2, <1>7, <1>11, <1>14, <1>24, NamesDiffer
<1>26. Kept(u, ctl, Hups, D, UnreadClients, rfds)
  BY <1>19, <1>20, <1>22, <1>23, <1>24, <1>25, DeviceGains
<1> QED
  BY <1>1, <1>2, <1>4, <1>19, <1>26, DeviceEnds

\* Before the devices are read everybody has still to be read.
LEMMA OutsideEnds ==
  ASSUME LoopOK, Outside, pc' \in {"control", "commands", "device"},
         at' = 1 \/ (at' = at /\ pc' = "commands"), hups' = hups, rfds' = rfds, todo' = todo,
         ctl' # NoFd <=> pc' = "commands",
         NEW t, Kept(t, ctl', Hups, Slot, Client, rfds), Becomes(t)
  PROVE  DaemonInv'
<1>1. /\ at \in Nat \ {0} /\ rfds \subseteq Fd /\ hups \in 0..MaxHups /\ todo \subseteq Nat
      /\ pc \in {"accept", "control", "commands"} /\ ctl' \in Fd \cup {NoFd}
  BY DEF LoopOK, Outside, Kept
<1>2. at' \in Nat \ {0} /\ (pc' = "device" => at' \in Slot)
  BY <1>1 DEF Slot
<1>3. LoopOK'
  BY <1>1, <1>2 DEF LoopOK
<1>4. Hups' = Hups
  BY <1>1 DEF Hups
<1>5. UnreadDevices' \subseteq Slot /\ UnreadClients' \subseteq Client
  BY DEF UnreadDevices, UnreadClients
<1>6. Kept(Daemon, ctl, Hups, UnreadDevices, UnreadClients, rfds)'
  BY <1>4, <1>5, StepEnds
<1> QED
  BY <1>3, <1>6 DEF DaemonInv

LEMMA OutsideFacts ==
  ASSUME DaemonInv, Outside
  PROVE  Kept(Daemon, ctl, Hups, Slot, Client, rfds)
<1>1. UnreadDevices = Slot /\ UnreadClients = Client
  BY DEF UnreadDevices, UnreadClients
<1> QED
  BY <1>1, DaemonFacts

LEMMA NobodyComes ==
  ASSUME DaemonInv, NobodyAccepted \/ NoControl
  PROVE  DaemonInv'
<1>1. Outside /\ LoopOK
  BY DaemonFacts DEF Outside, NobodyAccepted, NoControl
<1>2. Kept(Daemon, ctl, Hups, Slot, Client, rfds)
  BY <1>1, OutsideFacts
<1>3. Becomes(Daemon)
  BY DEF NobodyAccepted, NoControl, daemonVars, Becomes, Daemon
<1>4. ctl' = NoFd /\ ctl' = ctl
  BY <1>1 DEF NobodyAccepted, NoControl, LoopOK
<1>5. pc' \in {"control", "device"} /\ at' = 1 /\ hups' = hups /\ rfds' = rfds /\ todo' = todo
  BY DEF NobodyAccepted, NoControl, Goto
<1> QED
  BY <1>1, <1>2, <1>3, <1>4, <1>5, OutsideEnds

LEMMA FreeSlotIsFree ==
  ASSUME DaemonInv, FreeSlots # {}
  PROVE  Least(FreeSlots) \in Client /\ sub[Least(FreeSlots)].fd = NoFd /\ sub[Least(FreeSlots)] \in Subscriber
<1>1. FreeSlots \in SUBSET Nat
  BY DEF FreeSlots, Client
<1>2. Least(FreeSlots) \in FreeSlots
  BY <1>1, LeastIs
<1>3. sub \in [Client -> Subscriber]
  BY DaemonFacts DEF Table
<1> QED
  BY <1>2, <1>3 DEF FreeSlots

LEMMA SlotIsLost ==
  ASSUME DaemonInv, SlotLost
  PROVE  DaemonInv'
<1>1. Outside /\ LoopOK /\ Daemon \in Table /\ Daemon.sub = sub /\ SlotsAgree(Daemon)
  BY DaemonFacts DEF Outside, SlotLost
<1>2. Kept(Daemon, ctl, Hups, Slot, Client, rfds)
  BY <1>1, OutsideFacts
<1> DEFINE c == Least(FreeSlots)
           x == [sub[c] EXCEPT !.fd = Base]
           u == Replaced(Daemon, c, x)
<1>3. c \in Client /\ sub[c].fd = NoFd /\ sub[c] \in Subscriber
  BY FreeSlotIsFree DEF SlotLost
<1>4. x \in Subscriber /\ x.fd = Base /\ x.active = sub[c].active
  BY <1>3 DEF Subscriber
<1>5. Base \notin Fd /\ NoFd \notin Fd
  BY DEF Base, NoFd, Fd
<1>6. Becomes(u)
  <2>1. sub' = [sub EXCEPT ![c] = x] /\ UNCHANGED <<dev, allFds, maxfd, open, fresh>>
    <3>1. sub \in [Client -> Subscriber]
      BY <1>1 DEF Table
    <3> QED
      BY <1>3, <3>1 DEF SlotLost
  <2> HIDE DEF x, c
  <2>2. u = [dev |-> dev, sub |-> [sub EXCEPT ![c] = x], all |-> allFds, max |-> maxfd, open |-> open,
             fresh |-> fresh]
    BY DEF Replaced, Daemon
  <2> HIDE DEF u
  <2> QED
    BY <2>1, <2>2 DEF Becomes
<1>7. u = Replaced(Daemon, c, x) /\ Daemon.sub[c].fd \notin Fd /\ x.fd \notin Fd
      /\ x.active = Daemon.sub[c].active
  BY <1>1, <1>3, <1>4, <1>5
<1> HIDE DEF c, x, u
<1>8. Kept(u, ctl, Hups, Slot, Client, rfds)
  BY <1>2, <1>3, <1>4, <1>7, PolicyKeeps
<1>9. ctl' = NoFd /\ ctl' = ctl
  BY <1>1 DEF SlotLost, LoopOK
<1>10. pc' = "control" /\ at' = 1 /\ hups' = hups /\ rfds' = rfds /\ todo' = todo
  BY DEF SlotLost, Goto
<1> QED
  BY <1>1, <1>6, <1>8, <1>9, <1>10, OutsideEnds

\* A client is admitted, or lost at once when it cannot be told of the daemon.
LEMMA ClientComes ==
  ASSUME DaemonInv, NEW ok \in BOOLEAN, Admit(ok)
  PROVE  DaemonInv'
<1>1. /\ Outside /\ LoopOK /\ Daemon \in Table /\ Daemon.sub = sub /\ Daemon.open = open
      /\ Daemon.fresh = fresh
  BY DaemonFacts DEF Outside, Admit
<1>2. Kept(Daemon, ctl, Hups, Slot, Client, rfds)
  BY <1>1, OutsideFacts
<1>3. rfds \subseteq open /\ fresh = {}
  BY <1>1 DEF LoopOK, Admit
<1> DEFINE c == Least(FreeSlots)
           f == NextFd(Daemon)
           x == [fd |-> f, watch |-> Off, active |-> 0]
           v == [Daemon EXCEPT !.open = @ \cup {f}, !.fresh = @ \cup (rfds \cap {f}), !.sub[c] = x]
           t == Listen(v, f)
           one == {c}
           u == Detach(t, one)
<1>4. Becomes(IF ok THEN t ELSE u)
  BY DEF Admit
<1>5. c \in Client /\ sub[c].fd = NoFd
  BY FreeSlotIsFree DEF Admit
<1>6. f \in Fd \ open
  BY <1>1, NextIsFree DEF Admit
<1>7. one \subseteq Client
  BY <1>5
<1> HIDE DEF c, f
<1>8. x \in Subscriber /\ x.fd = f /\ x.active = 0
  BY <1>6 DEF Subscriber, Age, Never, Watch
<1> HIDE DEF x
<1> DEFINE o == open \cup {f}
           n == fresh \cup (rfds \cap {f})
           s == [sub EXCEPT ![c] = x]
<1>9. v = [Daemon EXCEPT !.open = o, !.fresh = n, !.sub = s]
  BY <1>1, <1>5 DEF Table
<1>10. o \in SUBSET Fd /\ n \in SUBSET Fd
  BY <1>1, <1>6 DEF Table
<1>11. s \in [Client -> Subscriber] /\ s[c] = x /\ \A b \in Client \ {c} : s[b] = sub[b]
  BY <1>1, <1>5, <1>8 DEF Table
<1>12. t = Listen(v, f)
  OBVIOUS
<1>13. u = Detach(t, one)
  OBVIOUS
<1> HIDE DEF o, n, s, v, t, u, one
<1>14. /\ v.dev = Daemon.dev /\ v.sub = s /\ v.all = Daemon.all /\ v.max = Daemon.max
       /\ v.open = o /\ v.fresh = n
  BY <1>1, <1>9 DEF Table
<1>15. v \in Table
  BY <1>1, <1>9, <1>10, <1>11, <1>14 DEF Table
<1>16. /\ t \in Table /\ t.dev = v.dev /\ t.sub = v.sub /\ t.open = v.open /\ t.fresh = v.fresh
       /\ t.all = v.all \cup {f} /\ t.max >= v.max /\ f <= t.max
  BY <1>6, <1>12, <1>15, Listening
<1>17. Gained(Daemon, t, rfds, f)
  BY <1>1, <1>6, <1>14, <1>16 DEF Gained, o, n
<1>18. f \notin rfds /\ f \notin Daemon.fresh
  BY <1>1, <1>3, <1>6
<1>19. /\ Daemon.sub[c].fd = NoFd /\ t.sub[c].fd = f /\ t.sub[c].active # Never
       /\ \A b \in Client \ {c} : t.sub[b] = Daemon.sub[b]
       /\ t.dev = Daemon.dev
  BY <1>1, <1>5, <1>8, <1>11, <1>14, <1>16 DEF Never
<1>20. Kept(t, ctl, Hups, Slot, Client, rfds)
  BY <1>2, <1>5, <1>16, <1>17, <1>18, <1>19, ClientGains
<1>21. Kept(u, ctl, Hups, Slot, Client, rfds)
  BY <1>7, <1>13, <1>20, DetachKeeps
<1> DEFINE z == IF ok THEN t ELSE u
<1>22. Becomes(z) /\ Kept(z, ctl, Hups, Slot, Client, rfds)
  BY <1>4, <1>20, <1>21
<1> HIDE DEF z
<1>23. ctl' = NoFd /\ ctl' = ctl
  BY <1>1 DEF Admit, LoopOK
<1>24. pc' = "control" /\ at' = 1 /\ hups' = hups /\ rfds' = rfds /\ todo' = todo
  BY DEF Admit, Goto
<1> QED
  BY <1>1, <1>22, <1>23, <1>24, OutsideEnds

LEMMA ControlComes ==
  ASSUME DaemonInv, ControlConnects
  PROVE  DaemonInv'
<1>1. /\ Outside /\ LoopOK /\ Daemon \in Table /\ Daemon.open = open
      /\ Daemon.fresh = fresh
  BY DaemonFacts DEF Outside, ControlConnects
<1>2. Kept(Daemon, NoFd, Hups, Slot, Client, rfds)
  BY <1>1, OutsideFacts DEF LoopOK, ControlConnects
<1> DEFINE f == NextFd(Daemon)
           v == [Daemon EXCEPT !.open = @ \cup {f}, !.fresh = @ \cup (rfds \cap {f})]
           t == Listen(v, f)
<1>3. Becomes(t) /\ ctl' = f
  BY DEF ControlConnects
<1>4. f \in Fd \ open
  BY <1>1, NextIsFree DEF ControlConnects
<1> HIDE DEF f
<1> DEFINE o == open \cup {f}
           n == fresh \cup (rfds \cap {f})
<1>5. v = [Daemon EXCEPT !.open = o, !.fresh = n]
  BY <1>1 DEF Table
<1>6. o \in SUBSET Fd /\ n \in SUBSET Fd
  BY <1>1, <1>4 DEF Table
<1>7. t = Listen(v, f)
  OBVIOUS
<1> HIDE DEF o, n, v, t
<1>8. /\ v.dev = Daemon.dev /\ v.sub = Daemon.sub /\ v.all = Daemon.all /\ v.max = Daemon.max
      /\ v.open = o /\ v.fresh = n
  BY <1>1, <1>5 DEF Table
<1>9. v \in Table
  BY <1>1, <1>5, <1>6, <1>8 DEF Table
<1>10. /\ t \in Table /\ t.dev = v.dev /\ t.sub = v.sub /\ t.open = v.open /\ t.fresh = v.fresh
       /\ t.all = v.all \cup {f} /\ t.max >= v.max /\ f <= t.max
  BY <1>4, <1>7, <1>9, Listening
<1>11. Gained(Daemon, t, rfds, f) /\ t.sub = Daemon.sub /\ t.dev = Daemon.dev
  BY <1>1, <1>4, <1>8, <1>10 DEF Gained, o, n
<1>12. Kept(t, f, Hups, Slot, Client, rfds)
  BY <1>2, <1>10, <1>11, ControlGains
<1>13. f # NoFd
  BY <1>4 DEF Fd, NoFd
<1>14. /\ pc' = "commands" /\ at' = at /\ hups' = hups /\ rfds' = rfds /\ todo' = todo
       /\ Kept(t, ctl', Hups, Slot, Client, rfds) /\ ctl' # NoFd
  BY <1>3, <1>12, <1>13 DEF ControlConnects
<1> QED
  BY <1>1, <1>3, <1>14, OutsideEnds

LEMMA ControlLeaves ==
  ASSUME DaemonInv, ControlCloses
  PROVE  DaemonInv'
<1>1. /\ Outside /\ LoopOK /\ Daemon \in Table /\ Daemon.open = open /\ ctl \in Fd
  BY DaemonFacts DEF Outside, ControlCloses, LoopOK
<1>2. Kept(Daemon, ctl, Hups, Slot, Client, rfds)
  BY <1>1, OutsideFacts
<1> DEFINE one == {ctl}
           o == open \ one
           v == [Daemon EXCEPT !.open = o]
           u == Unlisten(v, one)
           none == {}
<1>3. Becomes(u)
  BY <1>1 DEF ControlCloses
<1>4. Gone(Daemon, ctl, NoFd, none, none) = one
  BY <1>1 DEF Gone, NoFd, Fd
<1>5. o \in SUBSET Fd
  BY <1>1 DEF Table
<1> HIDE DEF o
<1>6. /\ v.dev = Daemon.dev /\ v.sub = Daemon.sub /\ v.all = Daemon.all /\ v.max = Daemon.max
      /\ v.open = o /\ v.fresh = Daemon.fresh
  BY <1>1 DEF Table
<1>7. v \in Table
  BY <1>1, <1>5, <1>6 DEF Table
<1> HIDE DEF v, one
<1>8. /\ u \in Table
      /\ u.dev = v.dev /\ u.sub = v.sub /\ u.open = v.open /\ u.fresh = v.fresh
      /\ u.all = v.all \ one
      /\ \A g \in u.all : g <= v.max => g <= u.max
  BY <1>7, Unlistening
<1> HIDE DEF u
<1>9. Lost(Daemon, u, ctl, NoFd, none, none)
  BY <1>1, <1>4, <1>6, <1>8 DEF Lost, o
<1>10. u.all \cap Gone(Daemon, ctl, NoFd, none, none) = {}
  BY <1>4, <1>8
<1>11. none \subseteq Slot /\ none \subseteq Client /\ \A d \in none : u.dev[d].path = NoPath
  OBVIOUS
<1> HIDE DEF none
<1>12. Kept(u, NoFd, Hups, Slot, Client, rfds)
  BY <1>2, <1>9, <1>10, <1>11, Losing
<1>13. /\ pc' = "device" /\ at' = 1 /\ hups' = hups /\ rfds' = rfds /\ todo' = todo /\ ctl' = NoFd
  BY DEF ControlCloses, Goto
<1>14. Kept(u, ctl', Hups, Slot, Client, rfds)
  BY <1>12, <1>13
<1> QED
  BY <1>1, <1>3, <1>13, <1>14, OutsideEnds

\* "-path" and "+path".
LEMMA ControlCommands ==
  ASSUME DaemonInv, NEW p \in Path, ControlRemoves(p) \/ ControlAdds(p)
  PROVE  DaemonInv'
<1>1. /\ Outside /\ LoopOK /\ Daemon \in Table /\ Daemon.dev = dev
  BY DaemonFacts DEF Outside, ControlRemoves, ControlAdds
<1>2. Kept(Daemon, ctl, Hups, Slot, Client, rfds)
  BY <1>1, OutsideFacts
<1>3. /\ pc' = "commands" /\ at' = at /\ hups' = hups /\ rfds' = rfds /\ todo' = todo /\ ctl' = ctl
      /\ ctl' # NoFd
  BY <1>1 DEF ControlRemoves, ControlAdds, Stay, LoopOK
<1>4. CASE ControlAdds(p)
  <2>1. PICK gone \in SUBSET Watchers(Daemon, p) : Becomes(AddDevice(Daemon, p, gone))
    BY <1>4 DEF ControlAdds
  <2>2. gone \subseteq Client
    BY WatchersAreClients
  <2> DEFINE t == AddDevice(Daemon, p, gone)
  <2>3. t = AddDevice(Daemon, p, gone) /\ Becomes(t)
    BY <2>1
  <2> HIDE DEF t
  <2>4. Kept(t, ctl, Hups, Slot, Client, rfds)
    BY <1>2, <2>2, <2>3, AddKeeps
  <2> QED
    BY <1>1, <1>3, <2>3, <2>4, OutsideEnds
<1>5. CASE ControlRemoves(p)
  <2> DEFINE d == Find(Daemon, p)
  <2>1. PICK gone \in SUBSET Watchers(Daemon, p) :
          LET t == Deactivate(Daemon, d, gone)
          IN  Becomes([t EXCEPT !.dev[d].path = NoPath])
    BY <1>5 DEF ControlRemoves
  <2>2. gone \subseteq Client
    BY WatchersAreClients
  <2>3. d \in Slot
    <3>1. Named(Daemon, p) \in SUBSET Nat /\ Named(Daemon, p) # {}
      BY <1>5 DEF ControlRemoves, Named, Slot
    <3> QED
      BY <3>1, LeastIs DEF Find, Named
  <2> DEFINE t == Deactivate(Daemon, d, gone)
             x == [t.dev[d] EXCEPT !.path = NoPath]
             s == [t.dev EXCEPT ![d] = x]
             u == [t EXCEPT !.dev[d].path = NoPath]
  <2>4. Becomes(u)
    BY <2>1
  <2>5. t = Deactivate(Daemon, d, gone)
    OBVIOUS
  <2> HIDE DEF t, d
  <2>6. Kept(t, ctl, Hups, Slot, Client, rfds) /\ t.dev[d].fd = NoFd
    BY <1>2, <2>2, <2>3, <2>5, DeactivateKeeps
  <2>7. t \in Table /\ t.dev \in [Slot -> Device] /\ t.dev[d] \in Device
    BY <2>3, <2>6 DEF Kept, Sound, Table
  <2>8. u = [t EXCEPT !.dev = s]
    BY <2>3, <2>7 DEF Table
  <2>9. x \in Device /\ x.fd = NoFd /\ x.path = NoPath /\ x.conn = t.dev[d].conn
    BY <2>6, <2>7 DEF Device
  <2> HIDE DEF x
  <2>10. s \in [Slot -> Device] /\ s[d] = x /\ \A e \in Slot \ {d} : s[e] = t.dev[e]
    BY <2>3, <2>7, <2>9
  <2> HIDE DEF s, u
  <2>11. u.dev = s /\ u.sub = t.sub /\ u.all = t.all /\ u.max = t.max /\ u.open = t.open /\ u.fresh = t.fresh
    BY <2>7, <2>8 DEF Table
  <2>12. u \in Table
    BY <2>7, <2>8, <2>10, <2>11 DEF Table
  <2>13. u.max >= t.max
    BY <2>7, <2>11 DEF Table, Fd, Base
  <2>14. ASSUME NEW e \in Slot
         PROVE  /\ DevFd(u, e) = DevFd(t, e)
                /\ u.dev[e].path = t.dev[e].path
                     \/ (DevFd(t, e) = NoFd /\ u.dev[e].path = NoPath)
                /\ u.dev[e].conn = t.dev[e].conn
                /\ u.dev[e].reawake = t.dev[e].reawake \/ DevFd(t, e) \notin Fd
    <3>1. NoFd \notin Fd
      BY DEF NoFd, Fd
    <3>2. CASE e = d
      BY <3>1, <3>2, <2>6, <2>9, <2>10, <2>11 DEF DevFd
    <3>3. CASE e # d
      BY <3>3, <2>10, <2>11 DEF DevFd
    <3> QED
      BY <3>2, <3>3
  <2>15. Unmoved(t, u)
    BY <2>11, <2>12, <2>13, <2>14 DEF Unmoved, SubFd
  <2>16. Kept(u, ctl, Hups, Slot, Client, rfds)
    BY <2>6, <2>15, Unmoving
  <2> QED
    BY <1>1, <1>3, <2>4, <2>16, OutsideEnds
<1> QED
  BY <1>4, <1>5

\* While the clients are read no device is, and what is left are the clients after this
\* one.
Later == {c \in Client : c > at}

LEMMA ClientFacts ==
  ASSUME DaemonInv, pc \in {"client", "request", "awaken"}
  PROVE  /\ Kept(Daemon, ctl, Hups, {}, Later, rfds) /\ LoopOK /\ Daemon \in Table
         /\ Daemon.dev = dev /\ Daemon.sub = sub /\ at \in Client /\ ctl = NoFd
         /\ pc \in {"request", "awaken"} => sub[at].active # Never
<1>1. Kept(Daemon, ctl, Hups, UnreadDevices, UnreadClients, rfds) /\ LoopOK
  BY DaemonFacts
<1>2. Later \subseteq UnreadClients
  <2>1. at \in Client
    BY <1>1 DEF LoopOK
  <2> QED
    BY <2>1 DEF Later, UnreadClients, Client
<1>3. Kept(Daemon, ctl, Hups, {}, Later, rfds)
  BY <1>1, <1>2, Fewer
<1> QED
  BY <1>1, <1>3, DaemonFacts DEF LoopOK

LEMMA ClientEnds ==
  ASSUME DaemonInv, pc \in {"client", "request"}, NextClient, UNCHANGED <<ctl, todo, hups>>,
         NEW t, Kept(t, ctl, Hups, {}, Later, rfds), Becomes(t)
  PROVE  DaemonInv'
<1>1. /\ at \in Client /\ ctl = NoFd /\ rfds \subseteq Fd /\ hups \in 0..MaxHups /\ todo \subseteq Nat
  BY ClientFacts DEF LoopOK
<1>2. Kept(t, ctl', Hups, {}, Later, rfds)
  BY <1>1
<1>3. CASE pc' = "client" /\ at' = at + 1 /\ at < Clients /\ rfds' = rfds
  <2>1. at' \in Client /\ at' \in Nat \ {0}
    BY <1>1, <1>3 DEF Client
  <2>2. LoopOK'
    BY <1>1, <1>3, <2>1 DEF LoopOK
  <2>3. UnreadDevices' = {} /\ UnreadClients' \subseteq Later /\ Hups' = Hups
    BY <1>1, <1>3 DEF UnreadDevices, UnreadClients, Outside, Hups, Later, Client
  <2>4. Kept(Daemon, ctl, Hups, UnreadDevices, UnreadClients, rfds)'
    BY <1>2, <1>3, <2>3, StepEnds
  <2> QED
    BY <2>2, <2>4 DEF DaemonInv
<1>4. CASE pc' = "release" /\ at' = 1 /\ rfds' = {}
  <2>1. at' \in Slot /\ at' \in Nat \ {0}
    BY <1>4 DEF Slot
  <2>2. LoopOK'
    BY <1>1, <1>4, <2>1 DEF LoopOK
  <2>3. UnreadDevices' = {} /\ UnreadClients' \subseteq Later /\ Hups' = Hups
    BY <1>1, <1>4 DEF UnreadDevices, UnreadClients, Outside, Hups, Later
  <2>4. Kept(Daemon, ctl, Hups, UnreadDevices, UnreadClients, rfds)'
    BY <1>2, <1>4, <2>3, StepEnds
  <2> QED
    BY <2>2, <2>4 DEF DaemonInv
<1> QED
  BY <1>1, <1>3, <1>4 DEF NextClient, Goto

LEMMA RequestEnds ==
  ASSUME DaemonInv, pc \in {"client", "request", "awaken"}, pc' \in {"request", "awaken"},
         at' = at, UNCHANGED <<ctl, rfds, hups>>, todo' \subseteq Nat,
         NEW t, Kept(t, ctl, Hups, {}, Later, rfds), Becomes(t), t.sub[at].active # Never,
         pc' = "awaken" => todo' # {} /\ todo' \subseteq Pool(t)
  PROVE  DaemonInv'
<1>1. /\ at \in Client /\ ctl = NoFd /\ rfds \subseteq Fd /\ hups \in 0..MaxHups
      /\ at \in Nat \ {0}
  BY ClientFacts DEF LoopOK
<1>2. Daemon' = t
  BY Becoming DEF Kept, Sound
<1>3. sub'[at].active # Never
  BY <1>2 DEF Becomes
<1>4. Pool(Daemon)' = Pool(t)
  BY <1>2 DEF Pool
<1>5. LoopOK'
  BY <1>1, <1>3, <1>4 DEF LoopOK
<1>6. UnreadDevices' = {} /\ UnreadClients' \subseteq Later /\ Hups' = Hups
  BY <1>1 DEF UnreadDevices, UnreadClients, Outside, Hups, Later
<1>7. Kept(t, ctl', Hups, {}, Later, rfds)
  BY <1>1
<1>8. Kept(Daemon, ctl, Hups, UnreadDevices, UnreadClients, rfds)'
  BY <1>6, <1>7, StepEnds
<1> QED
  BY <1>5, <1>8 DEF DaemonInv

LEMMA ClientIsKept ==
  ASSUME DaemonInv, ClientQuiet \/ ClientLeaves \/ \E ok \in BOOLEAN : Reply(ok)
  PROVE  DaemonInv'
<1>1. pc \in {"client", "request"} /\ NextClient /\ UNCHANGED <<ctl, todo, hups>>
  BY DEF ClientQuiet, ClientLeaves, Reply, AtClient
<1>2. /\ Kept(Daemon, ctl, Hups, {}, Later, rfds) /\ at \in Client
  BY <1>1, ClientFacts
<1> DEFINE one == {at}
           u == Detach(Daemon, one)
<1>3. one \subseteq Client /\ u = Detach(Daemon, one)
  BY <1>2
<1>4. Becomes(Daemon) \/ Becomes(u)
  BY DEF ClientQuiet, ClientLeaves, Reply, daemonVars, Becomes, Daemon
<1> HIDE DEF one, u
<1>5. Kept(u, ctl, Hups, {}, Later, rfds)
  BY <1>2, <1>3, DetachKeeps
<1> QED
  BY <1>1, <1>2, <1>4, <1>5, ClientEnds

\* A client's policy or time stamp changes.
LEMMA PolicyIsSet ==
  ASSUME DaemonInv, pc \in {"client", "request", "awaken"}, NEW x \in Subscriber, NEW u,
         x.fd = sub[at].fd, x.active # Never, sub[at].active # Never,
         u = Replaced(Daemon, at, x)
  PROVE  /\ Kept(u, ctl, Hups, {}, Later, rfds) /\ u.dev = dev
         /\ u.sub[at].active # Never
<1>1. /\ Kept(Daemon, ctl, Hups, {}, Later, rfds) /\ at \in Client
      /\ Daemon.dev = dev /\ Daemon.sub = sub
  BY ClientFacts
<1>2. x.fd = Daemon.sub[at].fd /\ x.active # Never /\ Daemon.sub[at].active # Never
  BY <1>1
<1> DEFINE D == {}
<1>3. Kept(Daemon, ctl, Hups, D, Later, rfds)
  BY <1>1
<1> HIDE DEF D
<1>a. /\ Daemon.sub[at].fd = x.fd \/ (x.fd \notin Fd /\ Daemon.sub[at].fd \notin Fd)
      /\ x.active # Never <=> Daemon.sub[at].active # Never
      /\ x \in Subscriber /\ u = Replaced(Daemon, at, x) /\ at \in Client
  BY <1>1, <1>2
<1>4. Kept(u, ctl, Hups, D, Later, rfds) /\ u.dev = Daemon.dev /\ u.sub[at] = x
  BY ONLY <1>a, <1>3, PolicyKeeps
<1> QED
  BY <1>1, <1>4 DEF D

\* The policy that a request sets.
LEMMA PolicyOf ==
  ASSUME DaemonInv, pc = "request", NEW w \in Watch, NEW u, u = Policy(w)
  PROVE  /\ Kept(u, ctl, Hups, {}, Later, rfds) /\ u.dev = dev
         /\ u.sub[at].active # Never
<1> DEFINE x == [sub[at] EXCEPT !.watch = w]
<1>1. at \in Client /\ Daemon \in Table /\ Daemon.sub = sub /\ sub[at].active # Never
  BY ClientFacts
<1>2. sub[at] \in Subscriber
  BY <1>1 DEF Table
<1>3. x \in Subscriber /\ x.fd = sub[at].fd /\ x.active = sub[at].active
  BY <1>2 DEF Subscriber
<1>4. u = Replaced(Daemon, at, x)
  BY <1>1 DEF Policy, Replaced, Table
<1> HIDE DEF x
<1> QED
  BY <1>1, <1>3, <1>4, PolicyIsSet

LEMMA CommandsCome ==
  ASSUME DaemonInv, ClientCommands
  PROVE  DaemonInv'
<1> DEFINE x == [sub[at] EXCEPT !.active = 0]
           u == Replaced(Daemon, at, x)
<1>1. pc = "client" /\ pc' = "request" /\ at' = at /\ UNCHANGED <<ctl, todo, rfds, hups>>
  BY DEF ClientCommands, AtClient
<1>2. at \in Client /\ Daemon \in Table /\ Daemon.sub = sub /\ todo \subseteq Nat
  BY <1>1, ClientFacts DEF LoopOK
<1>3. sub[at] \in Subscriber /\ sub[at].active # Never
  BY <1>2 DEF Table, ClientCommands, Readable, Served, Connected
<1>4. x \in Subscriber /\ x.fd = sub[at].fd /\ x.active # Never
  <2>1. 0 \in Age(CommandTimeout) /\ 0 # Never
    BY DEF Age, Never
  <2> QED
    BY <1>3, <2>1 DEF Subscriber
<1>5. Becomes(u)
  <2>1. sub' = [sub EXCEPT ![at] = x] /\ UNCHANGED <<dev, allFds, maxfd, open, fresh>>
    BY <1>2 DEF ClientCommands, Table
  <2> HIDE DEF x
  <2>2. u = [dev |-> dev, sub |-> [sub EXCEPT ![at] = x], all |-> allFds, max |-> maxfd, open |-> open,
             fresh |-> fresh]
    BY DEF Replaced, Daemon
  <2> HIDE DEF u
  <2> QED
    BY <2>1, <2>2 DEF Becomes
<1>6. u = Replaced(Daemon, at, x)
  OBVIOUS
<1> HIDE DEF x, u
<1>7. Kept(u, ctl, Hups, {}, Later, rfds) /\ u.sub[at].active # Never
  BY <1>1, <1>3, <1>4, <1>6, PolicyIsSet
<1> QED
  BY <1>1, <1>2, <1>5, <1>7, RequestEnds

\* A request that only sets the policy.
LEMMA WatchIsSet ==
  ASSUME DaemonInv, WatchAll \/ \E w \in Watch : WatchUnread(w)
  PROVE  DaemonInv'
<1>1. PICK w \in Watch : /\ Becomes(Policy(w)) /\ pc = "request" /\ at' = at
                         /\ UNCHANGED <<ctl, rfds, hups>>
                         /\ \/ pc' = "request" /\ todo' = todo
                            \/ /\ todo' = Pool(Daemon)
                               /\ pc' = IF Pool(Daemon) = {} THEN "request" ELSE "awaken"
  BY DEF WatchAll, WatchUnread, Watch, Stay
<1> DEFINE u == Policy(w)
<1>2. u = Policy(w) /\ Becomes(u)
  BY <1>1
<1> HIDE DEF u
<1>3. Kept(u, ctl, Hups, {}, Later, rfds) /\ u.dev = dev /\ u.sub[at].active # Never
  BY <1>1, <1>2, PolicyOf
<1>4. todo \subseteq Nat /\ Pool(Daemon) \subseteq Nat /\ Pool(u) = Pool(Daemon)
  <2>1. LoopOK /\ Daemon.dev = dev
    BY <1>1, ClientFacts
  <2> QED
    BY <1>3, <2>1 DEF LoopOK, Pool, Slot
<1>5. pc' \in {"request", "awaken"} /\ todo' \subseteq Nat
      /\ (pc' = "awaken" => todo' # {} /\ todo' \subseteq Pool(u))
  BY <1>1, <1>4
<1> QED
  BY <1>1, <1>2, <1>3, <1>5, RequestEnds

\* A device named in a request is in the pool.
LEMMA FoundIsPooled ==
  ASSUME NEW t, NEW p \in Path, Named(t, p) # {}
  PROVE  Find(t, p) \in Slot /\ t.dev[Find(t, p)].path = p /\ p # NoPath
<1>1. Named(t, p) \in SUBSET Nat
  BY DEF Named, Slot
<1>2. Find(t, p) \in Named(t, p)
  BY <1>1, LeastIs DEF Find
<1> QED
  BY <1>2, NamesDiffer DEF Named

\* awaken, for a client whose requests are executed.
LEMMA AwakenFor ==
  ASSUME NEW t, NEW d, NEW ok, NEW u,
         Kept(t, ctl, Hups, {}, Later, rfds), d \in Slot, t.dev[d].path # NoPath,
         t.sub[at].active # Never, u = Awaken(t, d, ok)
  PROVE  Kept(u, ctl, Hups, {}, Later, rfds) /\ u.sub[at].active # Never /\ Pool(u) = Pool(t)
<1> DEFINE D == {}
<1>1. Kept(t, ctl, Hups, D, Later, rfds) /\ d \in Slot \ D
  OBVIOUS
<1> HIDE DEF D
<1>2. Kept(u, ctl, Hups, D, Later, rfds) /\ u.sub = t.sub /\ \A e \in Slot : u.dev[e].path = t.dev[e].path
  BY <1>1, AwakenKeeps
<1> QED
  BY <1>2 DEF D, Pool

LEMMA WatchOneStep ==
  ASSUME DaemonInv, NEW p \in Path, NEW ok \in BOOLEAN, WatchOne(p, ok) \/ RequestDevice(p, ok)
  PROVE  DaemonInv'
<1> DEFINE v == Policy(p)
           d == Find(Daemon, p)
           a == Awaken(v, d, ok)
           b == Awaken(Daemon, d, ok)
<1>1. /\ pc = "request" /\ pc' = "request" /\ at' = at /\ UNCHANGED <<ctl, todo, rfds, hups>>
      /\ Becomes(v) \/ (Named(Daemon, p) # {} /\ (Becomes(a) \/ Becomes(b)))
  BY DEF WatchOne, RequestDevice, Stay
<1>2. /\ Kept(Daemon, ctl, Hups, {}, Later, rfds) /\ Daemon.dev = dev /\ Daemon.sub = sub
      /\ sub[at].active # Never /\ todo \subseteq Nat
  BY <1>1, ClientFacts DEF LoopOK
<1>3. v = Policy(p) /\ a = Awaken(v, d, ok) /\ b = Awaken(Daemon, d, ok) /\ p \in Watch
  BY DEF Watch
<1>4. Named(Daemon, p) # {} => d \in Slot /\ dev[d].path # NoPath
  BY <1>2, FoundIsPooled
<1> HIDE DEF v, a, b, d
<1>5. Kept(v, ctl, Hups, {}, Later, rfds) /\ v.dev = dev /\ v.sub[at].active # Never
  BY <1>1, <1>3, PolicyOf
<1>6. CASE Becomes(v)
  BY <1>1, <1>2, <1>5, <1>6, RequestEnds
<1>7. CASE Named(Daemon, p) # {} /\ Becomes(a)
  <2>1. v.dev[d].path # NoPath /\ d \in Slot
    BY <1>4, <1>5, <1>7
  <2>2. Kept(a, ctl, Hups, {}, Later, rfds) /\ a.sub[at].active # Never
    BY <1>3, <1>5, <2>1, AwakenFor
  <2> QED
    BY <1>1, <1>2, <1>7, <2>2, RequestEnds
<1>8. CASE Named(Daemon, p) # {} /\ Becomes(b)
  <2>1. Daemon.dev[d].path # NoPath /\ d \in Slot /\ Daemon.sub[at].active # Never
    BY <1>2, <1>4, <1>8
  <2>2. Kept(b, ctl, Hups, {}, Later, rfds) /\ b.sub[at].active # Never
    BY <1>2, <1>3, <2>1, AwakenFor
  <2> QED
    BY <1>1, <1>2, <1>8, <2>2, RequestEnds
<1> QED
  BY <1>1, <1>6, <1>7, <1>8

LEMMA AwakenStep ==
  ASSUME DaemonInv, NEW ok \in BOOLEAN, AwakenNext(ok)
  PROVE  DaemonInv'
<1> DEFINE d == Least(todo)
           u == Awaken(Daemon, d, ok)
<1>1. /\ pc = "awaken" /\ at' = at /\ UNCHANGED <<ctl, rfds, hups>> /\ Becomes(u)
      /\ todo' = todo \ {d} /\ pc' = IF todo' = {} THEN "request" ELSE "awaken"
  BY DEF AwakenNext
<1>2. /\ Kept(Daemon, ctl, Hups, {}, Later, rfds) /\ Daemon.dev = dev /\ Daemon.sub = sub
      /\ sub[at].active # Never /\ todo \subseteq Nat /\ todo # {} /\ todo \subseteq Pool(Daemon)
  BY <1>1, ClientFacts DEF LoopOK
<1>3. d \in todo
  BY <1>2, LeastIs
<1>4. u = Awaken(Daemon, d, ok)
  OBVIOUS
<1> HIDE DEF d, u
<1>5. d \in Slot /\ Daemon.dev[d].path # NoPath /\ Daemon.sub[at].active # Never
  BY <1>2, <1>3 DEF Pool
<1>6. Kept(u, ctl, Hups, {}, Later, rfds) /\ u.sub[at].active # Never /\ Pool(u) = Pool(Daemon)
  BY <1>2, <1>4, <1>5, AwakenFor
<1>7. /\ pc' \in {"request", "awaken"} /\ todo' \subseteq Nat
      /\ pc' = "awaken" => todo' # {} /\ todo' \subseteq Pool(u)
  BY <1>1, <1>2, <1>6
<1> QED
  BY <1>1, <1>6, <1>7, RequestEnds

LEMMA ReconfigureStep ==
  ASSUME DaemonInv, NEW p \in Path, Reconfigure(p)
  PROVE  DaemonInv'
<1> DEFINE d == Find(Daemon, p)
           x == [dev[d] EXCEPT !.synced = FALSE]
           u == Altered(Daemon, d, x)
<1>1. /\ pc = "request" /\ pc' = "request" /\ at' = at /\ UNCHANGED <<ctl, todo, rfds, hups>>
      /\ Named(Daemon, p) # {}
  BY DEF Reconfigure, Stay
<1>2. /\ Kept(Daemon, ctl, Hups, {}, Later, rfds) /\ Daemon.dev = dev /\ Daemon.sub = sub
      /\ sub[at].active # Never /\ todo \subseteq Nat /\ Daemon \in Table
  BY <1>1, ClientFacts DEF LoopOK
<1>3. d \in Slot
  BY <1>1, FoundIsPooled
<1>4. Becomes(u)
  <2> HIDE DEF d
  <2>1. u = [Daemon EXCEPT !.dev[d].synced = FALSE]
    BY <1>2, <1>3 DEF Altered, Table
  <2> HIDE DEF u
  <2> QED
    BY <2>1 DEF Reconfigure, d
<1> HIDE DEF d
<1>5. dev[d] \in Device
  BY <1>2, <1>3 DEF Table
<1>6. /\ x \in Device /\ x.fd = Daemon.dev[d].fd /\ x.path = Daemon.dev[d].path
      /\ x.conn = Daemon.dev[d].conn /\ x.reawake = Daemon.dev[d].reawake
  BY <1>2, <1>5 DEF Device
<1> DEFINE D == {}
<1>7. Kept(Daemon, ctl, Hups, D, Later, rfds) /\ u = Altered(Daemon, d, x)
  BY <1>2
<1> HIDE DEF x, u, D
<1>8. Kept(u, ctl, Hups, D, Later, rfds) /\ u.sub = Daemon.sub
  BY ONLY <1>3, <1>6, <1>7, AlterKeeps
<1>9. Kept(u, ctl, Hups, {}, Later, rfds) /\ u.sub[at].active # Never
  BY <1>2, <1>8 DEF D
<1> QED
  BY <1>1, <1>2, <1>4, <1>9, RequestEnds

\* When the devices are released nobody has still to be read.
LEMMA ReleaseEnds ==
  ASSUME DaemonInv, AtRelease, AfterRelease, NEW t, Kept(t, ctl, Hups, {}, {}, rfds), Becomes(t)
  PROVE  DaemonInv'
<1>1. /\ at \in Slot /\ ctl = NoFd /\ rfds \subseteq Fd /\ hups \in 0..MaxHups /\ todo \subseteq Nat
      /\ pc = "release"
  BY DaemonFacts DEF LoopOK, AtRelease
<1>2. UNCHANGED <<ctl, todo, rfds, hups>>
  BY DEF AfterRelease
<1>3. CASE pc' = "release" /\ at' = at + 1 /\ at < Slots
  <2>1. at' \in Slot /\ at' \in Nat \ {0}
    BY <1>1, <1>3 DEF Slot
  <2>2. LoopOK'
    BY <1>1, <1>2, <1>3, <2>1 DEF LoopOK
  <2>3. UnreadDevices' = {} /\ UnreadClients' = {} /\ Hups' = Hups
    BY <1>1, <1>2, <1>3 DEF UnreadDevices, UnreadClients, Outside, Hups
  <2>4. Kept(Daemon, ctl, Hups, UnreadDevices, UnreadClients, rfds)'
    BY <1>2, <2>3, StepEnds
  <2> QED
    BY <2>2, <2>4 DEF DaemonInv
<1>4. CASE pc' = "select" /\ at' = 1
  <2>1. LoopOK'
    BY <1>1, <1>2, <1>4 DEF LoopOK
  <2>2. UnreadDevices' = {} /\ UnreadClients' = {} /\ Hups' = Hups
    BY <1>1, <1>2, <1>4 DEF UnreadDevices, UnreadClients, Outside, Hups
  <2>3. Kept(Daemon, ctl, Hups, UnreadDevices, UnreadClients, rfds)'
    BY <1>2, <2>2, StepEnds
  <2> QED
    BY <2>1, <2>3 DEF DaemonInv
<1> QED
  BY <1>1, <1>3, <1>4 DEF AfterRelease, NextSlot, Goto

LEMMA ReleaseFacts ==
  ASSUME DaemonInv, pc \in {"release", "select", "args"}
  PROVE  /\ Kept(Daemon, ctl, Hups, {}, {}, rfds) /\ Daemon \in Table /\ Daemon.dev = dev
         /\ Daemon.all = allFds /\ Daemon.open = open /\ LoopOK /\ ctl = NoFd
BY DaemonFacts, Fewer DEF LoopOK

LEMMA ReleaseStep ==
  ASSUME DaemonInv, MarkReleased \/ ReleaseDevice \/ KeepDevice
  PROVE  DaemonInv'
<1> DEFINE D == {}
<1>1. AtRelease /\ AfterRelease
  BY DEF MarkReleased, ReleaseDevice, KeepDevice
<1>2. /\ Kept(Daemon, ctl, Hups, D, D, rfds) /\ Daemon \in Table /\ Daemon.dev = dev /\ at \in Slot
  BY <1>1, ReleaseFacts DEF AtRelease, LoopOK
<1>3. D = {} /\ D \subseteq Client
  OBVIOUS
<1> HIDE DEF D
<1>4. CASE KeepDevice
  <2>1. Becomes(Daemon)
    BY <1>4 DEF KeepDevice, daemonVars, Becomes, Daemon
  <2> QED
    BY <1>1, <1>2, <1>3, <2>1, ReleaseEnds
<1>5. CASE ReleaseDevice
  <2> DEFINE u == Deactivate(Daemon, at, D)
  <2>1. u = Deactivate(Daemon, at, D) /\ Becomes(u)
    BY <1>3, <1>5 DEF ReleaseDevice
  <2> HIDE DEF u
  <2>2. Kept(u, ctl, Hups, D, D, rfds)
    BY <1>2, <1>3, <2>1, DeactivateKeeps
  <2> QED
    BY <1>1, <1>3, <2>1, <2>2, ReleaseEnds
<1>6. CASE MarkReleased
  <2> DEFINE x == [dev[at] EXCEPT !.released = 0]
             u == Altered(Daemon, at, x)
  <2>1. Becomes(u)
    <3>1. u = [Daemon EXCEPT !.dev[at].released = 0]
      BY <1>2 DEF Altered, Table
    <3> HIDE DEF u
    <3> QED
      BY <1>6, <3>1 DEF MarkReleased
  <2>2. dev[at] \in Device
    BY <1>2 DEF Table
  <2>3. 0 \in Age(ReleaseTimeout)
    BY DEF Age, Never
  <2>4. /\ x \in Device /\ x.fd = Daemon.dev[at].fd /\ x.path = Daemon.dev[at].path
        /\ x.conn = Daemon.dev[at].conn /\ x.reawake = Daemon.dev[at].reawake
    BY <1>2, <2>2, <2>3 DEF Device
  <2>5. u = Altered(Daemon, at, x)
    OBVIOUS
  <2> HIDE DEF x, u
  <2>6. Kept(u, ctl, Hups, D, D, rfds)
    BY <1>2, <2>4, <2>5, AlterKeeps
  <2> QED
    BY <1>1, <1>3, <2>1, <2>6, ReleaseEnds
<1> QED
  BY <1>4, <1>5, <1>6

LEMMA RetryStep ==
  ASSUME DaemonInv, NEW ok \in BOOLEAN, RetryDevice(ok)
  PROVE  DaemonInv'
<1> DEFINE D == {}
           x == [dev[at] EXCEPT !.opened = 0]
           v == Altered(Daemon, at, x)
           u == Awaken(v, at, ok)
<1>1. AtRelease /\ AfterRelease /\ dev[at].path # NoPath
  BY DEF RetryDevice, Retries
<1>2. /\ Kept(Daemon, ctl, Hups, D, D, rfds) /\ Daemon \in Table /\ Daemon.dev = dev /\ at \in Slot
  BY <1>1, ReleaseFacts DEF AtRelease, LoopOK
<1>3. D = {} /\ at \in Slot \ D
  BY <1>2
<1> HIDE DEF D
<1>4. Becomes(u)
  <2>1. v = [Daemon EXCEPT !.dev[at].opened = 0]
    BY <1>2 DEF Altered, Table
  <2> HIDE DEF v
  <2> QED
    BY <2>1 DEF RetryDevice
<1>5. dev[at] \in Device
  BY <1>2 DEF Table
<1>6. 0 \in Never..Reconnect
  BY DEF Never
<1>7. /\ x \in Device /\ x.fd = Daemon.dev[at].fd /\ x.path = Daemon.dev[at].path
      /\ x.conn = Daemon.dev[at].conn /\ x.reawake = Daemon.dev[at].reawake
  BY <1>2, <1>5, <1>6 DEF Device
<1>8. v = Altered(Daemon, at, x)
  OBVIOUS
<1> HIDE DEF x, v
<1>9. Kept(v, ctl, Hups, D, D, rfds) /\ v.dev[at] = x
  BY <1>2, <1>7, <1>8, AlterKeeps
<1>10. v.dev[at].path # NoPath
  BY <1>1, <1>2, <1>7, <1>9
<1>11. u = Awaken(v, at, ok)
  OBVIOUS
<1> HIDE DEF u
<1>12. Kept(u, ctl, Hups, D, D, rfds)
  BY <1>3, <1>9, <1>10, <1>11, AwakenKeeps
<1> QED
  BY <1>1, <1>3, <1>4, <1>12, ReleaseEnds

LEMMA ArgumentStep ==
  ASSUME DaemonInv, AddArgument
  PROVE  DaemonInv'
<1>1. pc = "args" /\ UNCHANGED <<ctl, rfds, hups>>
  BY DEF AddArgument
<1>2. /\ Kept(Daemon, ctl, Hups, {}, {}, rfds) /\ ctl = NoFd /\ rfds \subseteq Fd /\ hups \in 0..MaxHups
      /\ at \in Nat \ {0} /\ todo \subseteq Nat /\ todo \subseteq 1..Len(Argv)
  BY <1>1, ReleaseFacts DEF LoopOK
<1>3. CASE todo = {}
  <2>1. Becomes(Daemon) /\ pc' = "select" /\ at' = 1 /\ todo' = todo
    BY <1>3 DEF AddArgument, Goto, daemonVars, Becomes, Daemon
  <2>2. LoopOK'
    BY <1>1, <1>2, <2>1 DEF LoopOK
  <2>3. UnreadDevices' = {} /\ UnreadClients' = {} /\ Hups' = Hups
    BY <1>1, <2>1 DEF UnreadDevices, UnreadClients, Outside, Hups
  <2>4. Kept(Daemon, ctl, Hups, UnreadDevices, UnreadClients, rfds)'
    BY <1>1, <1>2, <2>1, <2>3, StepEnds
  <2> QED
    BY <2>2, <2>4 DEF DaemonInv
<1>4. CASE todo # {}
  <2> DEFINE i == Least(todo)
  <2>1. /\ \E gone \in SUBSET Watchers(Daemon, Argv[i]) : Becomes(AddDevice(Daemon, Argv[i], gone))
        /\ todo' = todo \ {i} /\ pc' = pc /\ at' = at
    BY <1>4 DEF AddArgument, Stay
  <2>2. i \in 1..Len(Argv)
    <3>1. i \in todo
      BY <1>2, <1>4, LeastIs
    <3> QED
      BY <3>1, <1>2
  <2> HIDE DEF i
  <2>3. Argv[i] \in Path
    BY <2>2, NamesDiffer
  <2> DEFINE p == Argv[i]
  <2>4. p \in Path
    BY <2>3
  <2>5. PICK gone \in SUBSET Watchers(Daemon, p) : Becomes(AddDevice(Daemon, p, gone))
    BY <2>1
  <2> HIDE DEF p
  <2>6. gone \subseteq Client
    BY WatchersAreClients
  <2> DEFINE u == AddDevice(Daemon, p, gone)
             D == {}
  <2>7. u = AddDevice(Daemon, p, gone) /\ Becomes(u) /\ Kept(Daemon, ctl, Hups, D, D, rfds)
    BY <1>2, <2>5
  <2> HIDE DEF u, D
  <2>8. Kept(u, ctl, Hups, D, D, rfds)
    BY <2>4, <2>6, <2>7, AddKeeps
  <2>9. LoopOK'
    BY <1>1, <1>2, <2>1 DEF LoopOK
  <2>10. UnreadDevices' = {} /\ UnreadClients' = {} /\ Hups' = Hups
    BY <1>1, <2>1 DEF UnreadDevices, UnreadClients, Outside, Hups
  <2>11. Kept(u, ctl', Hups, D, D, rfds)
    BY <1>1, <2>8
  <2>12. Kept(Daemon, ctl, Hups, UnreadDevices, UnreadClients, rfds)'
    BY <1>1, <2>7, <2>10, <2>11, StepEnds DEF D
  <2> QED
    BY <2>9, <2>12 DEF DaemonInv
<1> QED
  BY <1>3, <1>4

\* Time stamps get older, and stay what they are.
LEMMA AgedKeeps ==
  ASSUME Daemon \in Table, NEW tick \in BOOLEAN, Aged(tick)
  PROVE  /\ dev' \in [Slot -> Device] /\ sub' \in [Client -> Subscriber]
         /\ \A d \in Slot : /\ dev'[d].fd = dev[d].fd /\ dev'[d].path = dev[d].path
                            /\ dev'[d].conn = dev[d].conn /\ dev'[d].reawake = dev[d].reawake
         /\ \A c \in Client : sub'[c].fd = sub[c].fd /\ (sub'[c].active # Never <=> sub[c].active # Never)
<1>1. dev \in [Slot -> Device] /\ sub \in [Client -> Subscriber]
  BY DEF Daemon, Table
<1>2. \A n \in Nat : \A x \in Age(n) : Older(x, n) \in Age(n) /\ (Older(x, n) # Never <=> x # Never)
  BY DEF Age, Older, Never
<1>3. \A x \in Never..Reconnect : Fades(x) \in Never..Reconnect
  BY DEF Fades, Never
<1>4. ASSUME NEW d \in Slot
      PROVE  /\ dev'[d] \in Device
             /\ dev'[d].fd = dev[d].fd /\ dev'[d].path = dev[d].path
             /\ dev'[d].conn = dev[d].conn /\ dev'[d].reawake = dev[d].reawake
  <2> DEFINE a == IF tick THEN Older(dev[d].released, ReleaseTimeout) ELSE dev[d].released
             b == IF tick THEN Fades(dev[d].opened) ELSE dev[d].opened
  <2>1. dev'[d] = [dev[d] EXCEPT !.released = a, !.opened = b]
    BY DEF Aged
  <2>2. dev[d] \in Device
    BY <1>1
  <2>3. a \in Age(ReleaseTimeout) /\ b \in Never..Reconnect
    BY <1>2, <1>3, <2>2 DEF Device
  <2> HIDE DEF a, b
  <2> QED
    BY <2>1, <2>2, <2>3 DEF Device
<1>5. ASSUME NEW c \in Client
      PROVE  /\ sub'[c] \in Subscriber
             /\ sub'[c].fd = sub[c].fd /\ (sub'[c].active # Never <=> sub[c].active # Never)
  <2> DEFINE a == IF tick /\ sub[c].watch = Off THEN Older(sub[c].active, CommandTimeout) ELSE sub[c].active
  <2>1. sub'[c] = [sub[c] EXCEPT !.active = a]
    BY DEF Aged
  <2>2. sub[c] \in Subscriber
    BY <1>1
  <2>3. a \in Age(CommandTimeout) /\ (a # Never <=> sub[c].active # Never)
    BY <1>2, <2>2 DEF Subscriber
  <2> HIDE DEF a
  <2> QED
    BY <2>1, <2>2, <2>3 DEF Subscriber
<1>7. dev' = [d \in Slot |-> dev'[d]] /\ sub' = [c \in Client |-> sub'[c]]
  BY DEF Aged
<1>8. dev' \in [Slot -> Device]
  BY <1>4, <1>7
<1>9. sub' \in [Client -> Subscriber]
  BY <1>5, <1>7
<1> QED
  BY <1>4, <1>5, <1>8, <1>9

\* select() returns: what it may report is open, listened to and below maxfd, and
\* nothing was opened since.
LEMMA SelectKeeps ==
  ASSUME NEW t, NEW k, NEW h, NEW D, NEW C, NEW r, NEW u, NEW s,
         Kept(t, k, h, D, C, r), u \in Table,
         s = {f \in t.all : f <= t.max} \ {Base},
         u.dev = t.dev, u.sub = t.sub, u.all = t.all, u.max = t.max, u.open = t.open, u.fresh = {}
  PROVE  Kept(u, k, h, Slot, Client, s)
<1>1. t \in Table
  BY DEF Kept, Sound
<1>2. s \subseteq Fd
  BY <1>1 DEF Table
<1>3. \A d \in Slot : DevFd(u, d) = DevFd(t, d)
  BY DEF DevFd
<1>4. \A c \in Client : SubFd(u, c) = SubFd(t, c)
  BY DEF SubFd
<1>5. OwnersDiffer(u, k)
  BY <1>3, <1>4 DEF Kept, Sound, OwnersDiffer
<1>6. OpenIsOwned(u, k)
  BY <1>3, <1>4 DEF Kept, Sound, OpenIsOwned
<1>7. SlotsAgree(u)
  BY <1>3, <1>4 DEF Kept, Sound, SlotsAgree
<1>8. Heard(u)
  BY <1>3, <1>4 DEF Kept, Sound, Heard
<1>9. h = 0 => Listed(u) /\ Deaf(u)
  BY <1>3 DEF Kept, Listed, Deaf
<1>10. \A d \in Slot : DeviceWaits(u, d, s)
  BY DEF DeviceWaits
<1>11. \A c \in Client : ClientWaits(u, c)
  BY DEF ClientWaits
<1> QED
  BY <1>2, <1>5, <1>6, <1>7, <1>8, <1>9, <1>10, <1>11 DEF Kept, Sound

LEMMA SelectStep ==
  ASSUME DaemonInv, NEW tick \in BOOLEAN, Select(tick)
  PROVE  DaemonInv'
<1>1. /\ pc = "select" /\ Selected \subseteq open \cup {Base} /\ Aged(tick)
      /\ rfds' = Selected \ {Base} /\ fresh' = {} /\ pc' = "accept" /\ at' = 1
      /\ UNCHANGED <<allFds, maxfd, open, ctl, todo, hups>>
  BY DEF Select, Goto
<1>2. /\ Kept(Daemon, ctl, Hups, {}, {}, rfds) /\ ctl = NoFd /\ hups \in 0..MaxHups
      /\ todo \subseteq Nat /\ Daemon \in Table
  BY <1>1, ReleaseFacts DEF LoopOK
<1>3. /\ dev' \in [Slot -> Device] /\ sub' \in [Client -> Subscriber]
      /\ \A d \in Slot : /\ dev'[d].fd = dev[d].fd /\ dev'[d].path = dev[d].path
                         /\ dev'[d].conn = dev[d].conn /\ dev'[d].reawake = dev[d].reawake
      /\ \A c \in Client : sub'[c].fd = sub[c].fd /\ (sub'[c].active # Never <=> sub[c].active # Never)
  BY <1>1, <1>2, AgedKeeps
<1>4. \E d, s : d = dev' /\ s = sub'
  OBVIOUS
<1>5. PICK d, s : d = dev' /\ s = sub'
  BY <1>4
<1> DEFINE t == [dev |-> d, sub |-> s, all |-> allFds, max |-> maxfd, open |-> open, fresh |-> fresh]
           u == [dev |-> d, sub |-> s, all |-> allFds, max |-> maxfd, open |-> open, fresh |-> {}]
           D == {}
           r == Selected \ {Base}
<1>6. t \in Table /\ u \in Table
  <2>1. /\ allFds \in SUBSET (Fd \cup {Base}) /\ maxfd \in Fd \cup {Base}
        /\ open \in SUBSET Fd /\ fresh \in SUBSET Fd
    BY <1>2 DEF Table, Daemon
  <2>2. d \in [Slot -> Device] /\ s \in [Client -> Subscriber]
    BY <1>3, <1>5
  <2> QED
    BY <2>1, <2>2 DEF Table
<1>7. Unmoved(Daemon, t)
  <2>1. t.max >= Daemon.max
    BY <1>6 DEF Daemon, Table, Fd, Base
  <2>2. \A e \in Slot : /\ DevFd(t, e) = DevFd(Daemon, e) /\ t.dev[e].path = Daemon.dev[e].path
                        /\ t.dev[e].conn = Daemon.dev[e].conn /\ t.dev[e].reawake = Daemon.dev[e].reawake
    BY <1>3, <1>5 DEF DevFd, Daemon
  <2>3. \A c \in Client : /\ SubFd(t, c) = SubFd(Daemon, c)
                          /\ t.sub[c].active # Never <=> Daemon.sub[c].active # Never
    BY <1>3, <1>5 DEF SubFd, Daemon
  <2>4. t.open = Daemon.open /\ t.fresh = Daemon.fresh /\ t.all = Daemon.all
    BY DEF Daemon
  <2> HIDE DEF t
  <2> QED
    BY <1>6, <2>1, <2>2, <2>3, <2>4 DEF Unmoved
<1>8. Kept(Daemon, ctl, Hups, D, D, rfds)
  BY <1>2
<1> HIDE DEF D
<1>9. /\ r = {f \in t.all : f <= t.max} \ {Base}
      /\ u.dev = t.dev /\ u.sub = t.sub /\ u.all = t.all /\ u.max = t.max /\ u.open = t.open /\ u.fresh = {}
  BY DEF Selected
<1>10. Becomes(u)
  BY <1>1, <1>5 DEF Becomes
<1> HIDE DEF t, u, r
<1>11. Kept(t, ctl, Hups, D, D, rfds)
  BY <1>7, <1>8, Unmoving
<1>12. Kept(u, ctl, Hups, Slot, Client, r)
  BY <1>6, <1>9, <1>11, SelectKeeps
<1>13. Hups' = Hups /\ UnreadDevices' \subseteq Slot /\ UnreadClients' \subseteq Client
  BY <1>1 DEF Hups, UnreadDevices, UnreadClients
<1>14. Kept(u, ctl', Hups, Slot, Client, r) /\ rfds' = r
  BY <1>1, <1>12 DEF r
<1>15. Kept(Daemon, ctl, Hups, UnreadDevices, UnreadClients, rfds)'
  BY <1>10, <1>13, <1>14, StepEnds
<1>16. LoopOK'
  <2>1. r \subseteq Fd /\ r \subseteq open
    BY <1>1, <1>12 DEF Kept, r
  <2> QED
    BY <1>1, <1>2, <1>14, <2>1 DEF LoopOK
<1> QED
  BY <1>15, <1>16 DEF DaemonInv

\* Until a SIGHUP select() does not fail.
LEMMA FailStep ==
  ASSUME DaemonInv, SelectFails
  PROVE  DaemonInv'
<1>1. pc = "select" /\ pc' = "died" /\ UNCHANGED <<ctl, at, todo, rfds, hups>> /\ Becomes(Daemon)
  BY DEF SelectFails, daemonVars, Becomes, Daemon
<1>2. /\ Kept(Daemon, ctl, Hups, {}, {}, rfds) /\ ctl = NoFd /\ hups \in 0..MaxHups /\ LoopOK
      /\ Daemon.all = allFds /\ Daemon.open = open
  BY <1>1, ReleaseFacts DEF LoopOK
<1>3. hups # 0
  <2> SUFFICES ASSUME hups = 0 PROVE FALSE
    OBVIOUS
  <2>1. Listed(Daemon)
    BY <1>1, <1>2 DEF Kept, Hups
  <2> QED
    BY <1>2, <2>1 DEF SelectFails, Selected, Listed
<1>4. LoopOK'
  BY <1>1, <1>2, <1>3 DEF LoopOK
<1>5. UnreadDevices' = {} /\ UnreadClients' = {} /\ Hups' = Hups
  BY <1>1 DEF UnreadDevices, UnreadClients, Outside, Hups
<1>6. Kept(Daemon, ctl, Hups, UnreadDevices, UnreadClients, rfds)'
  BY <1>1, <1>2, <1>5, StepEnds
<1> QED
  BY <1>4, <1>6 DEF DaemonInv

\* gpsd_wrap closes the devices and leaves all_fds as it is.
Shut == [Daemon EXCEPT !.dev = [d \in Slot |-> Close(Daemon, d).dev[d]],
                       !.open = @ \ {dev[d].fd : d \in Slot}]

LEMMA ShutKeeps ==
  ASSUME DaemonInv, pc = "select"
  PROVE  /\ Kept(Shut, NoFd, 1, {}, {}, rfds)
         /\ Shut = [dev |-> [d \in Slot |-> Close(Daemon, d).dev[d]], sub |-> sub, all |-> allFds,
                    max |-> maxfd, open |-> open \ {dev[d].fd : d \in Slot}, fresh |-> fresh]
<1>1. /\ Kept(Daemon, NoFd, Hups, {}, {}, rfds) /\ Daemon \in Table /\ Daemon.dev = dev
      /\ Daemon.open = open
  BY ReleaseFacts
<1> DEFINE x(d) == [dev[d] EXCEPT !.fd = NoFd, !.synced = FALSE, !.released = Never, !.conn = "init"]
           s == [d \in Slot |-> Close(Daemon, d).dev[d]]
           g == {dev[d].fd : d \in Slot}
           o == open \ g
           D == {}
<1>2. \A d \in Slot : Close(Daemon, d).dev[d] = x(d)
  BY <1>1 DEF Close, Table
<1>3. \A d \in Slot : x(d) \in Device /\ x(d).fd = NoFd /\ x(d).conn = "init" /\ x(d).path = dev[d].path
  <2>1. Never \in Age(ReleaseTimeout)
    BY DEF Age, Never
  <2>2. \A d \in Slot : dev[d] \in Device
    BY <1>1 DEF Table
  <2> QED
    BY <2>1, <2>2 DEF Device
<1> HIDE DEF x
<1>4. s \in [Slot -> Device] /\ \A d \in Slot : s[d] = x(d)
  BY <1>2, <1>3
<1>5. Shut = [dev |-> s, sub |-> sub, all |-> allFds, max |-> maxfd, open |-> o, fresh |-> fresh]
  <2>1. Shut = [Daemon EXCEPT !.dev = s, !.open = o]
    BY <1>1 DEF Shut
  <2> HIDE DEF s, o
  <2> QED
    BY <2>1 DEF Daemon
<1> HIDE DEF s, o
<1>6. /\ Shut.dev = s /\ Shut.sub = sub /\ Shut.all = allFds /\ Shut.max = maxfd /\ Shut.open = o
      /\ Shut.fresh = fresh
  BY <1>5
<1>7. Shut \in Table
  <2>1. /\ sub \in [Client -> Subscriber] /\ allFds \in SUBSET (Fd \cup {Base})
        /\ maxfd \in Fd \cup {Base} /\ fresh \in SUBSET Fd /\ o \in SUBSET Fd
    BY <1>1 DEF Table, Daemon, o
  <2> QED
    BY <1>4, <1>5, <2>1 DEF Table
<1>8. Gone(Daemon, NoFd, NoFd, Slot, D) = g
  BY <1>1 DEF Gone, DevFd
<1>9. Lost(Daemon, Shut, NoFd, NoFd, Slot, D)
  <2>1. /\ Shut.sub = Daemon.sub /\ Shut.all = Daemon.all /\ Shut.max = Daemon.max
        /\ Shut.fresh = Daemon.fresh /\ Shut.open = Daemon.open \ g
    BY <1>6 DEF Daemon, o
  <2>2. \A d \in Slot : Shut.dev[d].fd = NoFd /\ Shut.dev[d].conn = "init"
    BY <1>3, <1>4, <1>6
  <2> HIDE DEF g
  <2> QED
    BY <1>7, <1>8, <2>1, <2>2 DEF Lost
<1>10. \A d \in Slot : Shut.dev[d].path = Daemon.dev[d].path
  BY <1>1, <1>3, <1>4, <1>6
<1>11. D \subseteq Client /\ Kept(Daemon, NoFd, 1, D, D, rfds)
  BY <1>1, Fewer
<1> HIDE DEF D
<1>12. Kept(Shut, NoFd, 1, D, D, rfds)
  BY <1>9, <1>10, <1>11, Losing
<1> QED
  BY <1>5, <1>12 DEF D, s, o

LEMMA RestartStep ==
  ASSUME DaemonInv, Restart
  PROVE  DaemonInv'
<1>1. /\ pc = "select" /\ pc' = "args" /\ at' = 1 /\ todo' = 1..Len(Argv) /\ hups < MaxHups
      /\ hups' = hups + 1 /\ UNCHANGED <<sub, allFds, maxfd, fresh, ctl, rfds>>
  BY DEF Restart, Goto
<1>2. ctl = NoFd /\ rfds \subseteq Fd /\ hups \in 0..MaxHups
  BY <1>1, ReleaseFacts DEF LoopOK
<1>3. Kept(Shut, NoFd, 1, {}, {}, rfds)
  BY <1>1, ShutKeeps
<1>4. Becomes(Shut)
  <2>1. Shut = [dev |-> [d \in Slot |-> Close(Daemon, d).dev[d]], sub |-> sub, all |-> allFds,
                max |-> maxfd, open |-> open \ {dev[d].fd : d \in Slot}, fresh |-> fresh]
    BY <1>1, ShutKeeps
  <2> DEFINE s == [d \in Slot |-> Close(Daemon, d).dev[d]]
             o == open \ {dev[d].fd : d \in Slot}
  <2>2. dev' = s /\ open' = o
    BY DEF Restart
  <2> HIDE DEF s, o
  <2>3. Shut = [dev |-> s, sub |-> sub, all |-> allFds, max |-> maxfd, open |-> o, fresh |-> fresh]
    BY <2>1 DEF s, o
  <2> QED
    BY <1>1, <2>2, <2>3 DEF Becomes
<1>5. LoopOK'
  <2>1. Len(Argv) \in Nat
    BY NamesDiffer
  <2> QED
    BY <1>1, <1>2, <2>1 DEF LoopOK
<1>6. UnreadDevices' = {} /\ UnreadClients' = {} /\ Hups' # 0
  BY <1>1, <1>2 DEF UnreadDevices, UnreadClients, Outside, Hups
<1>7. Kept(Shut, ctl', 1, {}, {}, rfds) /\ rfds' = rfds
  BY <1>1, <1>2, <1>3
<1>8. Kept(Daemon, ctl, Hups, UnreadDevices, UnreadClients, rfds)'
  BY <1>4, <1>6, <1>7, StepEnds
<1> QED
  BY <1>5, <1>8 DEF DaemonInv

LEMMA TerminateStep ==
  ASSUME DaemonInv, Terminate
  PROVE  DaemonInv'
<1>1. pc = "select" /\ pc' = "exited" /\ UNCHANGED <<ctl, at, todo, rfds, hups>>
  BY DEF Terminate
<1>2. ctl = NoFd /\ rfds \subseteq Fd /\ hups \in 0..MaxHups /\ at \in Nat \ {0} /\ todo \subseteq Nat
  BY <1>1, ReleaseFacts DEF LoopOK
<1> DEFINE cs == Connected(Daemon)
           u == Detach(Shut, cs)
           D == {}
<1>3. Becomes(u)
  BY DEF Terminate, Shut
<1>4. cs \subseteq Client /\ u = Detach(Shut, cs) /\ Kept(Shut, NoFd, 1, D, D, rfds)
  BY <1>1, ShutKeeps DEF Connected
<1> HIDE DEF cs, u, D
<1>5. Kept(u, NoFd, 1, D, D, rfds)
  BY <1>4, DetachKeeps
<1>6. LoopOK'
  BY <1>1, <1>2 DEF LoopOK
<1>7. UnreadDevices' = {} /\ UnreadClients' = {} /\ Hups' # 0
  BY <1>1 DEF UnreadDevices, UnreadClients, Outside, Hups
<1>8. Kept(u, ctl', 1, D, D, rfds) /\ rfds' = rfds
  BY <1>1, <1>2, <1>5
<1>9. Kept(Daemon, ctl, Hups, UnreadDevices, UnreadClients, rfds)'
  BY <1>3, <1>7, <1>8, StepEnds
<1> QED
  BY <1>6, <1>9 DEF DaemonInv

-----------------------------------------------------------------------------
(* The invariant is inductive. *)

LEMMA DaemonStarts ==
  ASSUME Init
  PROVE  DaemonInv
<1>1. Len(Argv) \in Nat
  BY NamesDiffer
<1>2. LoopOK
  BY <1>1 DEF Init, LoopOK, NoFd, Fd
<1>3. EmptySlot \in Device /\ FreeClient \in Subscriber
  BY DEF EmptySlot, Device, FreeClient, Subscriber, Age, Never, Watch
<1>4. /\ Daemon.dev = [d \in Slot |-> EmptySlot] /\ Daemon.sub = [c \in Client |-> FreeClient]
      /\ Daemon.all = {Base} /\ Daemon.max = Base /\ Daemon.open = {} /\ Daemon.fresh = {}
  BY DEF Init, Daemon
<1>5. Daemon \in Table
  BY <1>3, <1>4 DEF Table, Daemon
<1>6. /\ \A d \in Slot : DevFd(Daemon, d) = NoFd /\ Daemon.dev[d].path = NoPath /\ Daemon.dev[d].conn = "init"
      /\ \A c \in Client : SubFd(Daemon, c) = NoFd /\ Daemon.sub[c].active = Never
      /\ NoFd \notin Fd /\ Base \notin Fd
  BY <1>4 DEF DevFd, SubFd, EmptySlot, FreeClient, NoFd, Fd, Base
<1>7. Sound(Daemon, NoFd)
  BY <1>4, <1>5, <1>6 DEF Sound, OwnersDiffer, OpenIsOwned, SlotsAgree, Heard
<1>8. Listed(Daemon) /\ Deaf(Daemon)
  BY <1>4 DEF Listed, Deaf, Base
<1>9. UnreadDevices = {} /\ UnreadClients = {} /\ ctl = NoFd /\ rfds = {}
  BY DEF Init, UnreadDevices, UnreadClients, Outside
<1> QED
  BY <1>2, <1>7, <1>8, <1>9 DEF DaemonInv, Kept

\* Nothing changes.
LEMMA NothingChanges ==
  ASSUME DaemonInv, UNCHANGED vars
  PROVE  DaemonInv'
<1>1. Daemon' = Daemon /\ Becomes(Daemon)
  BY DEF vars, Daemon, Becomes
<1>2. UnreadDevices' = UnreadDevices /\ UnreadClients' = UnreadClients /\ Hups' = Hups /\ rfds' = rfds /\ ctl' = ctl
  BY DEF vars, UnreadDevices, UnreadClients, Outside, Hups
<1>3. Kept(Daemon, ctl', Hups, UnreadDevices, UnreadClients, rfds)
  BY <1>2, DaemonFacts
<1>4. Kept(Daemon, ctl, Hups, UnreadDevices, UnreadClients, rfds)'
  BY <1>1, <1>2, <1>3, StepEnds
<1>5. LoopOK'
  BY <1>1, DaemonFacts DEF LoopOK, vars, Pool
<1> QED
  BY <1>4, <1>5 DEF DaemonInv

LEMMA DaemonStep ==
  ASSUME DaemonInv, [Next]_vars
  PROVE  DaemonInv'
<1>1. CASE Pass
  <2>1. CASE AddArgument \/ SelectFails \/ \E tick \in BOOLEAN : Select(tick)
    BY <2>1, ArgumentStep, FailStep, SelectStep
  <2>2. CASE NobodyAccepted \/ SlotLost \/ \E ok \in BOOLEAN : Admit(ok)
    BY <2>2, NobodyComes, SlotIsLost, ClientComes
  <2>3. CASE NoControl \/ ControlConnects \/ ControlCloses
    BY <2>3, NobodyComes, ControlComes, ControlLeaves
  <2>4. CASE DeviceQuiet \/ DeviceReawakes \/ DeviceFails \/ DeviceEmpty
    BY <2>4, DeviceCloses, DeviceWakes, DeviceRests
  <2>5. CASE \E ok \in BOOLEAN : DeviceKilled(ok)
    BY <2>5, DeviceIsKilled
  <2>6. CASE \E synced, fails \in BOOLEAN : DeviceData(synced, fails)
    BY <2>6, DeviceIsRead
  <2>7. CASE NtripMore \/ NtripRequests \/ NtripEstablished \/ NtripFails
    BY <2>7, DeviceCloses, SourceIsRequested, SourceIsEstablished
  <2>8. CASE ClientQuiet \/ ClientLeaves \/ ClientCommands
    BY <2>8, ClientIsKept, CommandsCome
  <2>9. CASE \E ok \in BOOLEAN : AwakenNext(ok) \/ Reply(ok)
    BY <2>9, AwakenStep, ClientIsKept
  <2>10. CASE MarkReleased \/ ReleaseDevice \/ KeepDevice
    BY <2>10, ReleaseStep
  <2>11. CASE \E ok \in BOOLEAN : RetryDevice(ok)
    BY <2>11, RetryStep
  <2> QED
    BY <1>1, <2>1, <2>2, <2>3, <2>4, <2>5, <2>6, <2>7, <2>8, <2>9, <2>10, <2>11 DEF Pass
<1>2. CASE Request
  <2>1. CASE Restart \/ Terminate
    BY <2>1, RestartStep, TerminateStep
  <2>2. CASE \E p \in Path : ControlRemoves(p) \/ ControlAdds(p) \/ Reconfigure(p)
    BY <2>2, ControlCommands, ReconfigureStep
  <2>3. CASE WatchAll \/ \E w \in Watch : WatchUnread(w)
    BY <2>3, WatchIsSet
  <2>4. CASE \E p \in Path, ok \in BOOLEAN : WatchOne(p, ok) \/ RequestDevice(p, ok)
    BY <2>4, WatchOneStep
  <2> QED
    BY <1>2, <2>1, <2>2, <2>3, <2>4 DEF Request
<1>3. CASE Ended \/ UNCHANGED vars
  BY <1>3, NothingChanges DEF Ended
<1> QED
  BY <1>1, <1>2, <1>3 DEF Next

-----------------------------------------------------------------------------
(* What the invariant says of the loop: the properties. *)

\* Owners that have different descriptors have as many as they are.
LEMMA AsManyAsOwners ==
  ASSUME NEW S, IsFiniteSet(S), NEW g, \A x, y \in S : x # y => g[x] # g[y]
  PROVE  /\ IsFiniteSet({g[x] : x \in S})
         /\ Cardinality({g[x] : x \in S}) = Cardinality(S)
<1> DEFINE T == {g[x] : x \in S}
           f == [x \in S |-> g[x]]
<1>1. f \in [S -> T] /\ \A x, y \in S : f[x] = f[y] => x = y
  OBVIOUS
<1>2. \A z \in T : \E x \in S : f[x] = z
  OBVIOUS
<1> HIDE DEF f, T
<1>3. f \in Surjection(S, T) /\ f \in Injection(S, T)
  BY <1>1, <1>2 DEF Surjection, Injection, IsInjective
<1>4. IsFiniteSet(T) /\ Cardinality(T) = Cardinality(S)
  BY <1>3, FS_Surjection
<1> QED
  BY <1>4 DEF T

\* Two finite sets that have nothing in common.
LEMMA Apart ==
  ASSUME NEW S, NEW T, IsFiniteSet(S), IsFiniteSet(T), S \cap T = {}
  PROVE  /\ IsFiniteSet(S \cup T)
         /\ Cardinality(S \cup T) = Cardinality(S) + Cardinality(T)
<1>1. /\ IsFiniteSet(S \cup T)
      /\ Cardinality(S \cup T) = Cardinality(S) + Cardinality(T) - Cardinality({})
  BY FS_Union
<1>2. Cardinality(S) \in Nat /\ Cardinality(T) \in Nat /\ Cardinality({}) = 0
  BY FS_CardinalityType, FS_EmptySet
<1> QED
  BY <1>1, <1>2

LEMMA InvTyped ==
  ASSUME DaemonInv
  PROVE  TypeOK
BY DaemonFacts DEF Table, TypeOK, LoopOK

LEMMA InvOneOwner ==
  ASSUME DaemonInv
  PROVE  DescriptorsHaveOneOwner
<1>1. OwnersDiffer(Daemon, ctl) /\ OpenIsOwned(Daemon, ctl) /\ TypeOK
  BY InvTyped DEF DaemonInv, Kept, Sound
<1>2. /\ \A d \in Slot : DevFd(Daemon, d) = dev[d].fd /\ dev[d].fd \in Fd \cup {NoFd}
      /\ \A c \in Client : SubFd(Daemon, c) = sub[c].fd /\ sub[c].fd \in Fd \cup {NoFd, Base}
      /\ Daemon.open = open /\ open \subseteq Fd /\ ctl \in Fd \cup {NoFd}
  BY <1>1 DEF TypeOK, Device, Subscriber, Daemon, DevFd, SubFd
<1>3. NoFd \notin Fd /\ Base \notin Fd /\ NoFd # Base
  BY DEF NoFd, Fd, Base
<1> DEFINE DF == [d \in Slot |-> dev[d].fd]
           CF == [c \in Client |-> sub[c].fd]
           A == {DF[d] : d \in DeviceFds}
           B == {CF[c] : c \in ClientFds}
           K == {ctl} \ {NoFd}
<1>4. A = {dev[d].fd : d \in DeviceFds} /\ B = {sub[c].fd : c \in ClientFds}
  BY DEF DeviceFds, ClientFds
<1>5. open = A \cup B \cup K
  <2>1. \A f \in open : f \in A \cup B \cup K
    BY <1>1, <1>2, <1>3, <1>4 DEF OpenIsOwned, DeviceFds, ClientFds
  <2>2. A \subseteq open
    BY <1>1, <1>2, <1>3, <1>4 DEF OpenIsOwned, DeviceFds
  <2>3. B \subseteq open
    BY <1>1, <1>2, <1>3, <1>4 DEF OpenIsOwned, ClientFds
  <2>4. K \subseteq open
    BY <1>1, <1>2, <1>3 DEF OpenIsOwned
  <2> QED
    BY <2>1, <2>2, <2>3, <2>4
<1>6. A \cap B = {} /\ (A \cup B) \cap K = {}
  <2>1. \A d \in DeviceFds, c \in ClientFds : dev[d].fd # sub[c].fd
    BY <1>1, <1>2 DEF OwnersDiffer, DeviceFds, ClientFds
  <2>2. \A d \in DeviceFds : dev[d].fd # ctl
    BY <1>1, <1>2 DEF OwnersDiffer, DeviceFds
  <2>3. \A c \in ClientFds : sub[c].fd # ctl
    BY <1>1, <1>2 DEF OwnersDiffer, ClientFds
  <2> HIDE DEF A, B, DF, CF
  <2>4. \A x \in A, y \in B : x # y
    BY <2>1, <1>4
  <2>5. \A x \in A : x # ctl
    BY <2>2, <1>4
  <2>6. \A y \in B : y # ctl
    BY <2>3, <1>4
  <2> QED
    BY <2>4, <2>5, <2>6
<1>7. IsFiniteSet(DeviceFds) /\ IsFiniteSet(ClientFds)
  <2>1. IsFiniteSet(Slot) /\ IsFiniteSet(Client)
    BY FS_Interval DEF Slot, Client
  <2> QED
    BY <2>1, FS_Subset DEF DeviceFds, ClientFds
<1>8. IsFiniteSet(K)
  <2>1. IsFiniteSet({ctl})
    BY FS_Singleton
  <2> QED
    BY <2>1, FS_Subset
<1>9. /\ \A d, e \in DeviceFds : d # e => DF[d] # DF[e]
      /\ \A b, c \in ClientFds : b # c => CF[b] # CF[c]
  BY <1>1, <1>2 DEF OwnersDiffer, DeviceFds, ClientFds
<1>10. IsFiniteSet(A) /\ Cardinality(A) = Cardinality(DeviceFds)
  <2> HIDE DEF DF
  <2> QED BY <1>7, <1>9, AsManyAsOwners
<1>11. IsFiniteSet(B) /\ Cardinality(B) = Cardinality(ClientFds)
  <2> HIDE DEF CF
  <2> QED BY <1>7, <1>9, AsManyAsOwners
<1> HIDE DEF A, B, K
<1>12. Cardinality(open) = Cardinality(DeviceFds) + Cardinality(ClientFds) + Cardinality(K)
  <2>1. IsFiniteSet(A \cup B) /\ Cardinality(A \cup B) = Cardinality(A) + Cardinality(B)
    BY <1>6, <1>10, <1>11, Apart
  <2>2. Cardinality(A \cup B \cup K) = Cardinality(A \cup B) + Cardinality(K)
    BY <1>6, <1>8, <2>1, Apart
  <2> QED
    BY <2>1, <2>2, <1>5, <1>10, <1>11
<1> QED
  BY <1>4, <1>5, <1>12 DEF DescriptorsHaveOneOwner, K

LEMMA InvSeesOpen ==
  ASSUME DaemonInv
  PROVE  SelectSeesOnlyOpen /\ OnlyAReconnectIsDeaf
<1> SUFFICES ASSUME hups = 0, pc # "exited" PROVE SelectSeesOnlyOpen /\ OnlyAReconnectIsDeaf
  BY DEF SelectSeesOnlyOpen, OnlyAReconnectIsDeaf
<1>1. Hups = 0 /\ pc # "died"
  BY DaemonFacts DEF Hups, LoopOK
<1>2. Listed(Daemon) /\ Deaf(Daemon)
  BY <1>1 DEF DaemonInv, Kept
<1>3. SelectSeesOnlyOpen
  BY <1>1, <1>2, DaemonFacts DEF SelectSeesOnlyOpen, Listed
<1>4. OnlyAReconnectIsDeaf
  BY <1>2, DaemonFacts DEF OnlyAReconnectIsDeaf, Deaf, DevFd
<1> QED
  BY <1>3, <1>4

LEMMA InvHeard ==
  ASSUME DaemonInv
  PROVE  EveryoneIsHeard
<1>1. SlotsAgree(Daemon) /\ Heard(Daemon) /\ TypeOK
  BY DaemonFacts, InvTyped
<1>2. \A d \in DeviceFds : dev[d].fd \in allFds \/ dev[d].reawake
  <2>1. \A d \in DeviceFds : dev[d].fd \in Fd
    BY <1>1 DEF TypeOK, Device, DeviceFds
  <2> QED
    BY <1>1, <2>1, DaemonFacts DEF Heard, DevFd, DeviceFds
<1>3. \A c \in Connected(Daemon) : sub[c].fd \in allFds
  BY <1>1, DaemonFacts DEF Heard, SlotsAgree, SubFd, Connected
<1> QED
  BY <1>2, <1>3 DEF EveryoneIsHeard

LEMMA InvReads ==
  ASSUME DaemonInv
  PROVE  ReadsWhatSelectSaw
<1>1. /\ \A d \in UnreadDevices : DeviceWaits(Daemon, d, rfds)
      /\ \A c \in UnreadClients : ClientWaits(Daemon, c)
  BY DEF DaemonInv, Kept
<1>2. ASSUME AtDevice PROVE dev[at].fd \notin fresh
  <2>1. at \in UnreadDevices
    BY <1>2, DaemonFacts DEF AtDevice, LoopOK, UnreadDevices, Slot
  <2> QED
    BY <1>1, <2>1, DaemonFacts DEF DeviceWaits, DevFd
<1>3. ASSUME AtClient PROVE sub[at].fd \notin fresh
  <2>1. at \in UnreadClients
    BY <1>3, DaemonFacts DEF AtClient, LoopOK, UnreadClients, Client
  <2> QED
    BY <1>1, <2>1, DaemonFacts DEF ClientWaits, SubFd
<1> QED
  BY <1>2, <1>3 DEF ReadsWhatSelectSaw

\* The invariant of the loop, from its first state and through every step.
LEMMA DaemonAlways == Spec => []DaemonInv
<1>1. Init => DaemonInv
  BY DaemonStarts
<1>2. DaemonInv /\ [Next]_vars => DaemonInv'
  BY DaemonStep
<1> QED
  BY <1>1, <1>2, PTL DEF Spec

\* The tables of devices and clients, all_fds and the kernel's open files agree for as
\* long as the daemon runs: every open descriptor has exactly one owner, and until a
\* SIGHUP select() is asked about open descriptors only (gpsd.c:2256-2558).
THEOREM DescriptorsKept == Spec => []DescriptorsAreKept
<1>1. DaemonInv => DescriptorsAreKept
  BY InvTyped, InvOneOwner, InvSeesOpen DEF DescriptorsAreKept
<1> QED
  BY <1>1, DaemonAlways, PTL

\* Every open device is in all_fds or waits for its reawakening, every client is in it,
\* and nothing of it is above maxfd but an NTRIP source that was connected again
\* (gpsd.c:482-500, 1038-1071).
THEOREM EveryoneSelected == Spec => []EveryoneIsSelected
<1>1. DaemonInv => EveryoneIsSelected
  BY InvHeard, InvSeesOpen DEF EveryoneIsSelected
<1> QED
  BY <1>1, DaemonAlways, PTL

\* A descriptor that was closed and opened again since select() returned is never read
\* for what select() said of its predecessor (gpsd.c:2285-2500).
THEOREM ReadsSelected == Spec => []ReadsWhatSelectSaw
<1>1. DaemonInv => ReadsWhatSelectSaw
  BY InvReads
<1> QED
  BY <1>1, DaemonAlways, PTL

=============================================================================
