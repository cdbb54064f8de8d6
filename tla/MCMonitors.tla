----------------------------- MODULE MCMonitors -----------------------------
(* Small instances of the three monitors, one of which runs in a behaviour. *)
EXTENDS EventRead, SchedTrace, ResourceUsage

VARIABLE monitor

vars == <<monitor, eventVars, schedVars, usageVars>>

\* The devices in the order of the array, in another one, and with a gap.
Numbered == {<<0, 1>>, <<1, 0>>, <<0, 2>>}

\* The monitors that do not run start in one of their initial states.
Init ==
  /\ monitor \in {"events", "switches", "usage"}
  /\ EventInit /\ (monitor # "events" => Len(counts) = 1)
  /\ SchedInit
  /\ UsageInit /\ (monitor # "usage" => minors = <<0, 1>>)

Next ==
  \/ monitor = "events" /\ EventNext /\ UNCHANGED <<monitor, schedVars, usageVars>>
  \/ monitor = "switches" /\ SchedNext /\ UNCHANGED <<monitor, eventVars, usageVars>>
  \/ monitor = "usage" /\ UsageNext /\ UNCHANGED <<monitor, eventVars, schedVars>>

Spec == Init /\ [][Next]_vars

=============================================================================
