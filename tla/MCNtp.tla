------------------------------- MODULE MCNtp --------------------------------
(***************************************************************************)
(* Small instances of the parts that bring time to ntpd, one of which runs *)
(* in a behaviour.                                                         *)
(***************************************************************************)
EXTENDS NtpShm, PpsEdges, TimeBase, TLC

VARIABLE part

vars == <<part, shmVars, edgeVars, weekVars>>

\* The parts that do not run start in one of their initial states.
Init ==
  /\ part \in {"shm", "edges", "weeks"}
  /\ ShmInit /\ (part # "shm" => attached = {} /\ ~shmTimePPS)
  /\ EdgesInit /\ (part # "edges" => wave = Wave(Second, 0))
  /\ WeeksInit /\ (part # "weeks" => week = 0)

Next ==
  \/ part = "shm" /\ ShmNext /\ UNCHANGED <<part, edgeVars, weekVars>>
  \/ part = "edges" /\ EdgesNext /\ UNCHANGED <<part, shmVars, weekVars>>
  \/ part = "weeks" /\ WeeksNext /\ UNCHANGED <<part, shmVars, edgeVars>>

Spec == Init /\ [][Next]_vars

\* Three times are written with one device, two when its slot is used again, and one, by the
\* first pulse, with two devices.
Few ==
  /\ puts <= IF \E s \in Slots : slot[s].adds = 2 THEN 2 ELSE 3
  /\ (\A s \in Slots : slot[s].adds > 0) => puts <= 1 /\ tick <= FirstTick + 1

Alike == Permutations(Slots) \cup Permutations(Threads)

=============================================================================
