------------------------------ MODULE TimeBase ------------------------------
(***************************************************************************)
(* The week of a GPS time (timebase.c).  Receivers send it modulo 1024 or  *)
(* whole; one context, shared by all receivers, counts the rollovers.      *)
(***************************************************************************)
EXTENDS Integers

CONSTANTS
  Rollover,    \* 1024: weeks to a rollover
  MaxWeek,     \* bound on the week
  MaxRollovers \* bound on the rollovers counted

ASSUME TimeBaseAssumption ==
  /\ Rollover \in Nat \ {0} /\ MaxWeek \in Nat /\ MaxRollovers \in Nat
  /\ MaxWeek \div Rollover <= MaxRollovers

VARIABLES
  week,        \* the week it is
  started,     \* the week in which the daemon was started
  rollovers, gps_week,   \* of the context
  newest,      \* the newest week told of so far
  causes,      \* what happened that the code does not provide for
  resolved     \* the last week resolved, the week it was sent for, and whether it was sent whole

weekVars == <<week, started, rollovers, gps_week, newest, causes, resolved>>

\* gpsd_time_init: the system clock is right when the daemon starts.
WeeksInit ==
  /\ week \in 0..MaxWeek
  /\ started = week
  /\ rollovers = week \div Rollover
  /\ gps_week = 0
  /\ newest = -1 /\ causes = {}
  /\ resolved = [week |-> week, sent |-> week, whole |-> FALSE]

\* The last week the daemon knows of.
Latest == IF newest = -1 THEN started ELSE newest
Newer(meant) == IF meant > newest THEN meant ELSE newest

\* Is it the first the daemon hears of a new rollover?
Crosses(meant) == meant \div Rollover # Latest \div Rollover

NextWeek ==
  /\ week < MaxWeek
  /\ week' = week + 1
  /\ UNCHANGED <<started, rollovers, gps_week, newest, causes, resolved>>

\* Broken: the same week twice is a rollover.
RolledOver_Same(sent) == sent <= gps_week % Rollover

\* The comparison of gpsd_gpstime_resolve.
RolledOver(sent) == sent < gps_week % Rollover

\* A message of a receiver, of this week or still of the last one, modulo Rollover or whole.
Resolve ==
  \E meant \in {week, week - 1} \cap Nat, whole \in BOOLEAN :
    LET sent  == IF whole THEN meant ELSE meant % Rollover
        count == IF RolledOver(sent) THEN rollovers + 1 ELSE rollovers
        full  == IF sent < Rollover THEN sent + count * Rollover ELSE sent
    IN  /\ rollovers < MaxRollovers
        /\ rollovers' = count
        /\ gps_week' = full
        /\ newest' = Newer(meant)
        /\ causes' = causes \cup {c \in {"late", "first", "silent", "hidden"} :
                        \/ c = "late" /\ meant < Latest
                        \/ c = "first" /\ newest = -1 /\ Crosses(meant)
                        \/ c = "silent" /\ meant - Latest >= Rollover
                        \/ c = "hidden" /\ sent >= Rollover /\ Crosses(meant)}
        /\ resolved' = [week |-> full, sent |-> meant, whole |-> sent >= Rollover]
        /\ UNCHANGED <<week, started>>

\* A subframe (subframe.c) or a message of a NavCom sets gps_week and resolves nothing; it
\* is not noticed when that takes the rollover with it.
SetAside ==
  /\ gps_week' = week % Rollover
  /\ causes' = IF Crosses(week) THEN causes \cup {"hidden"} ELSE causes
  /\ newest' = Newer(week)
  /\ UNCHANGED <<week, started, rollovers, resolved>>

WeeksNext == NextWeek \/ Resolve \/ SetAside

WeeksSpec == WeeksInit /\ [][WeeksNext]_weekVars

-----------------------------------------------------------------------------
\* The counters keep their ranges.
WeeksTypeOK ==
  /\ week \in 0..MaxWeek /\ rollovers \in 0..MaxRollovers
  /\ gps_week \in 0..(Rollover * (MaxRollovers + 1))
  /\ newest \in -1..MaxWeek /\ causes \subseteq {"late", "first", "silent", "hidden"}

\* "This code detects and compensates for week counter rollovers that happen while gpsd is
\* running": the week is the one the receiver meant, unless a message came after one of a
\* later week (a late packet, a second receiver, a receiver without fix), the first message
\* came after the rollover, none came for a whole period, or a subframe or a whole week told
\* of the rollover first.  A week that is
\* sent whole is always right.
WeekIsRight == causes = {} \/ resolved.whole => resolved.week = resolved.sent

\* A week counted modulo 1024 is resolved to the week it was sent in, unless a
\* cause named in the module came between.
WeeksAreKept == WeeksTypeOK /\ WeekIsRight

=============================================================================
