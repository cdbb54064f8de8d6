---------------------------- MODULE ReportRegister ----------------------------
(***************************************************************************)
(* What the shared-memory export promises its clients: a register of one   *)
(* report, which the daemon replaces at once, and which a call of a client *)
(* reads at one point between its beginning and its end.  A call may fail, *)
(* and it may give a mixture for the report it read, but only if that was  *)
(* of a daemon that is not the present one.                                *)
(***************************************************************************)
EXTENDS Integers

CONSTANTS Readers,    \* the clients
          MaxStarts,  \* bound: starts of the daemon
          MaxTick     \* bound: reports of one daemon

VARIABLES starts,     \* how often the daemon was started
          current,    \* the report in the register
          call,       \* where the call of each client is
          seen,       \* the report it read there
          got         \* the report it gave last, if any, and whether it was that report

registerVars == <<starts, current, call, seen, got>>

Report   == [run : 0..MaxStarts, tick : 0..MaxTick]
NoReport == [run |-> 0, tick |-> 0]

Later(a, b) == a.run > b.run \/ (a.run = b.run /\ a.tick > b.tick)

Init ==
  /\ starts = 0 /\ current = NoReport
  /\ call = [r \in Readers |-> "idle"]
  /\ seen = [r \in Readers |-> NoReport]
  /\ got  = [r \in Readers |-> {}]

Start ==
  /\ starts' = starts + 1
  /\ UNCHANGED <<current, call, seen, got>>

Publish ==
  /\ current' \in {c \in Report : c.run = starts /\ Later(c, current)}
  /\ UNCHANGED <<starts, call, seen, got>>

Ask(r) ==
  /\ call[r] = "idle"
  /\ call' = [call EXCEPT ![r] = "asked"]
  /\ UNCHANGED <<starts, current, seen, got>>

Look(r) ==
  /\ call[r] = "asked"
  /\ call' = [call EXCEPT ![r] = "looked"]
  /\ seen' = [seen EXCEPT ![r] = current]
  /\ UNCHANGED <<starts, current, got>>

Answer(r) ==
  /\ call[r] = "looked"
  /\ call' = [call EXCEPT ![r] = "idle"]
  /\ \E whole \in BOOLEAN :
       /\ whole \/ seen[r].run # starts
       /\ got' = [got EXCEPT ![r] = {[report |-> seen[r], whole |-> whole]}]
  /\ UNCHANGED <<starts, current, seen>>

Fail(r) ==
  /\ call[r] = "looked"
  /\ call' = [call EXCEPT ![r] = "idle"]
  /\ UNCHANGED <<starts, current, seen, got>>

Leave(r) ==
  /\ call[r] = "idle"
  /\ seen' = [seen EXCEPT ![r] = NoReport]
  /\ got'  = [got EXCEPT ![r] = {}]
  /\ UNCHANGED <<starts, current, call>>

Next ==
  \/ Start \/ Publish
  \/ \E r \in Readers : Ask(r) \/ Look(r) \/ Answer(r) \/ Fail(r) \/ Leave(r)

Spec == Init /\ [][Next]_registerVars

===============================================================================
