----------------------------- MODULE MCSources -----------------------------
(* Small instances of the two ways to a source of data: the speed of a serial *)
(* receiver and the stream of an NTRIP caster.  One of them runs in a         *)
(* behaviour.                                                                 *)
EXTENDS SerialHunt, NtripTable

VARIABLE source

vars == <<source, huntVars, tableVars>>

\* The source that does not run starts in one of its initial states.
Init ==
  /\ source \in {"serial", "caster"}
  /\ HuntInit /\ (source # "serial" => ~Huntable /\ receiver.stop = 1 /\ port.rate = 1)
  /\ TableInit /\ (source # "caster" => table = Pieces(<<"head", "end">>))

Next ==
  \/ source = "serial" /\ HuntNext /\ UNCHANGED <<source, tableVars>>
  \/ source = "caster" /\ TableNext /\ UNCHANGED <<source, huntVars>>

\* A receiver that is powered sends, and the main loop reads every descriptor that is
\* ready and opens the devices its clients want.
FairSpec ==
  /\ Init /\ [][Next]_vars
  /\ WF_vars(source = "serial" /\ Opens /\ UNCHANGED <<source, tableVars>>)
  /\ WF_vars(source = "serial" /\ Polls /\ UNCHANGED <<source, tableVars>>)
  /\ WF_vars(source = "caster" /\ Reads /\ UNCHANGED <<source, huntVars>>)

\* A receiver that keeps its setting is heard again and again, and the probe of a caster is
\* waited for no longer than the caster has it.
SourceIsReached == HeardInTheEnd /\ ProbeEnds
=============================================================================
