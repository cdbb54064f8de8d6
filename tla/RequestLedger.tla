----------------------------- MODULE RequestLedger -----------------------------
(***************************************************************************)
(* What the socket log promises to the scripts that read it: an            *)
(* append-only list that tells, for every client in the order gpsd         *)
(* accepted them, at most one REQUEST and then at most one RESPONCE.       *)
(* Entries may be missing (a message can be lost); none is repeated, moved *)
(* or rewritten.                                                           *)
(***************************************************************************)
EXTENDS Integers, Sequences

CONSTANT MaxAccept   \* bound: the accept() calls of gpsd

VARIABLE entries

REQUEST  == 0
RESPONCE == 1

Entry == [nr : 1..MaxAccept, type : {REQUEST, RESPONCE}]

\* Entry e belongs before entry f.
Earlier(e, f) == e.nr < f.nr \/ (e.nr = f.nr /\ e.type < f.type)

Init == entries = <<>>

Record(e) ==
  /\ \A i \in 1..Len(entries) : Earlier(entries[i], e)
  /\ entries' = Append(entries, e)

Next == \E e \in Entry : Record(e)

Spec == Init /\ [][Next]_entries

=============================================================================
