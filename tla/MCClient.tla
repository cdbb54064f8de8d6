------------------------------ MODULE MCClient ------------------------------
(***************************************************************************)
(* Small instances of the two halves of libgps, of which one runs in a     *)
(* behaviour: the socket, whose lines are numbers, and the reports, which  *)
(* come as whole lines.  The tables of the reports are finite as they are. *)
(***************************************************************************)
EXTENDS ClientSocket

VARIABLES half, session, line, set, memory, last

Reports == INSTANCE ClientReports

socketVars == <<lines, stream, cut, closed, buffer, waiting, handled, overrun, crowded, loop, quit>>
reportVars == <<session, line, set, memory, last>>
clientVars == <<half, socketVars, reportVars>>

\* The half that does not run stays in one of its initial states.
ClientInit ==
    /\ half \in {"socket", "reports"}
    /\ Init /\ (half = "reports" => \A i \in DOMAIN buffer : ~IsNewline(buffer[i]))
    /\ Reports!Init

ClientNext ==
    \/ half = "socket" /\ Next /\ UNCHANGED <<half, reportVars>>
    \/ half = "reports" /\ Reports!Next /\ UNCHANGED <<half, socketVars>>

\* cgps calls gps_waiting() and gps_read() for ever.
ClientSpec ==
    /\ ClientInit /\ [][ClientNext]_clientVars
    /\ WF_clientVars(half = "socket" /\ Read /\ UNCHANGED <<half, reportVars>>)
    /\ WF_clientVars(half = "socket" /\ Keys /\ UNCHANGED <<half, reportVars>>)

-----------------------------------------------------------------------------
\* The flags libgps_json_unpack() raises: see ClientReports.
FlagsAreRight == Reports!FlagsAreRight
\* The members it reads, from json_*_dump() on: see ClientReports.
MembersAreRead == Reports!MembersAreRead
=============================================================================
