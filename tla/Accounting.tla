------------------------------ MODULE Accounting ------------------------------
(***************************************************************************)
(* The accounting path: applications connect to gpsd, gpsd reports each    *)
(* connection to the accounting server of measurement.py over a fresh TCP  *)
(* connection (one REQUEST on accept, one RESPONCE after the banner), and  *)
(* the server looks up who owns the client's port and appends a record to  *)
(* the socket log.                                                         *)
(*                                                                         *)
(* Three kinds of process run concurrently: the applications, gpsd's       *)
(* single-threaded accept loop (gpsd.c) and the server's main loop         *)
(* (measurement.py).  gpsd's connect() is blocking, so a full backlog of   *)
(* the server stalls gpsd; the owner of a port is looked up long after the *)
(* message was sent, when the application may be gone.                     *)
(***************************************************************************)
EXTENDS Integers, Sequences, FiniteSets

CONSTANTS
  App,        \* names of the client processes
  Gpsd,       \* the name lsof shows for gpsd's own end of a connection
  NoName,     \* the empty process name
  Port,       \* ephemeral ports the kernel hands to the applications
  Backlog,    \* connections the kernel queues for the server before accept()
  MaxFd,      \* descriptors gpsd may have open beyond the ones it starts with
  MaxSlot,    \* subscriber slots of gpsd (MAXSUBSCRIBERS)
  MaxConn,    \* bound: connections the applications make
  MaxAccept   \* bound: accept() calls gpsd makes

ASSUME NamesDiffer == Gpsd \notin App /\ NoName \notin App /\ Gpsd # NoName

ASSUME LimitsAreNumbers ==
  /\ Backlog \in Nat \ {0} /\ MaxFd \in Nat /\ MaxSlot \in Nat
  /\ MaxConn \in Nat /\ MaxAccept \in Nat

VARIABLES
  conns,      \* every connection made: conns[i] is [app, port] of connection i
  appOpen,    \* connections whose application end is open
  listenq,    \* connections gpsd has not accepted yet
  gpc,        \* where gpsd's main loop is
  ssock,      \* the connection being accepted, 0 when accept() failed
  fsin,       \* the peer port left by the last successful accept(), 0 at first
  nacc,       \* accept() calls made
  cur,        \* the message send_to_server is sending (or sent last)
  subs,       \* connections that hold a subscriber slot
  deadSlots,  \* slots allocated but never given a descriptor nor freed
  leaked,     \* descriptors send_to_server opened: none is ever closed
  announced,  \* connections whose client was sent the version banner
  queue,      \* connections to the server it has not accepted
  spc,        \* where the server's main loop is
  inhand,     \* the message of the connection the server is working on
  cut,        \* the message gpsd died in the middle of sending, if any
  pname,      \* the process name the server looked up
  stopped,    \* the server was interrupted from outside
  log         \* the socket log

gpsdVars   == <<gpc, ssock, fsin, nacc, cur, subs, deadSlots, leaked, announced>>
serverVars == <<spc, inhand, pname, stopped, log>>
appVars    == <<conns, appOpen>>
vars       == <<conns, appOpen, listenq, gpc, ssock, fsin, nacc, cur, subs,
                deadSlots, leaked, announced, queue, spc, inhand, cut, pname,
                stopped, log>>

-----------------------------------------------------------------------------
REQUEST  == 0
RESPONCE == 1

ConnId  == 1..MaxConn
Conn    == [app : App, port : Port]

\* What "type|port|time" carries.  The time is the order of the messages: nr is
\* the number of the accept() call it belongs to.  id is not on the wire: it is
\* the connection the message is about, 0 when accept() had failed.
Message == [type : {REQUEST, RESPONCE}, nr : 1..MaxAccept,
            port : Port \cup {0}, id : 0..MaxConn]
Name    == App \cup {Gpsd, NoName}
Record  == [msg : Message, name : Name]

NoMessage == [type |-> REQUEST, nr |-> 0, port |-> 0, id |-> 0]

\* Connections gpsd holds a descriptor of, and all the descriptors it uses.
GpsdOpen == (subs \cup {ssock}) \ {0}
FdUsed   == Cardinality(GpsdOpen) + leaked

Init ==
  /\ conns = <<>> /\ appOpen = {} /\ listenq = <<>>
  /\ gpc = "select" /\ ssock = 0 /\ fsin = 0 /\ nacc = 0 /\ cur = NoMessage
  /\ subs = {} /\ deadSlots = 0 /\ leaked = 0 /\ announced = {}
  /\ queue = <<>> /\ cut = NoMessage
  /\ spc = "boot" /\ inhand = NoMessage /\ pname = NoName /\ stopped = FALSE
  /\ log = <<>>

-----------------------------------------------------------------------------
(* The applications. *)

\* Process a connects to gpsd.  The kernel gives it a port no application uses.
AppConnect(a, p) ==
  /\ gpc # "dead"
  /\ Len(conns) < MaxConn
  /\ \A i \in appOpen : conns[i].port # p
  /\ conns'   = Append(conns, [app |-> a, port |-> p])
  /\ appOpen' = appOpen \cup {Len(conns) + 1}
  /\ listenq' = Append(listenq, Len(conns) + 1)
  /\ UNCHANGED <<gpsdVars, queue, cut, serverVars>>

\* The application closes its end, or exits; it may do so before gpsd accepts.
AppClose(i) ==
  /\ i \in appOpen
  /\ appOpen' = appOpen \ {i}
  /\ UNCHANGED <<conns, listenq, gpsdVars, queue, cut, serverVars>>

-----------------------------------------------------------------------------
(* gpsd: the accept loop, send_to_server and the departure of a client. *)

\* Broken: every message goes out as a REQUEST.
Sending_OneType(type, nr, port, id) ==
  [type |-> REQUEST, nr |-> nr, port |-> port, id |-> id]

Sending(type, nr, port, id) ==
  [type |-> type, nr |-> nr, port |-> port, id |-> id]

\* The listening socket is readable: accept(), remember the peer's port and
\* report the REQUEST, before looking at whether accept() succeeded.
AcceptOk ==
  /\ gpc = "select" /\ listenq # <<>> /\ nacc < MaxAccept
  /\ FdUsed < MaxFd
  /\ nacc'    = nacc + 1
  /\ ssock'   = Head(listenq)
  /\ listenq' = Tail(listenq)
  /\ fsin'    = conns[Head(listenq)].port
  /\ cur'     = Sending(REQUEST, nacc + 1, conns[Head(listenq)].port, Head(listenq))
  /\ gpc'     = "connect"
  /\ UNCHANGED <<appVars, subs, deadSlots, leaked, announced, queue, cut, serverVars>>

\* accept() fails: out of descriptors the connection stays queued, on a network
\* error it is dropped.  The REQUEST goes out with the port of an earlier peer.
AcceptFails ==
  /\ gpc = "select" /\ listenq # <<>> /\ nacc < MaxAccept
  /\ listenq' = IF FdUsed < MaxFd THEN Tail(listenq) ELSE listenq
  /\ nacc'    = nacc + 1
  /\ ssock'   = 0
  /\ cur'     = Sending(REQUEST, nacc + 1, fsin, 0)
  /\ gpc'     = "connect"
  /\ UNCHANGED <<appVars, fsin, subs, deadSlots, leaked, announced, queue, cut, serverVars>>

\* Broken: the REQUEST of a failed accept() is followed by an admission.
Return_Unchecked ==
  gpc' = IF cur.type = REQUEST THEN "admit" ELSE "select"

\* Where send_to_server returns to: its result is not looked at.
Return ==
  gpc' = IF cur.type = REQUEST /\ ssock # 0 THEN "admit" ELSE "select"

ServerListens == spc \notin {"boot", "down"}

\* socket() fails for want of a descriptor, or connect() is refused; the message
\* is lost, and a descriptor that socket() returned stays open.
SendFails ==
  /\ gpc = "connect"
  /\ \/ FdUsed >= MaxFd /\ leaked' = leaked
     \/ FdUsed < MaxFd /\ ~ServerListens /\ leaked' = leaked + 1
  /\ Return
  /\ UNCHANGED <<appVars, listenq, ssock, fsin, nacc, cur, subs, deadSlots, announced,
                 queue, cut, serverVars>>

\* connect() waits for room in the backlog until the kernel gives up.
SendTimesOut ==
  /\ gpc = "connect"
  /\ FdUsed < MaxFd /\ ServerListens /\ Len(queue) >= Backlog
  /\ leaked' = leaked + 1
  /\ Return
  /\ UNCHANGED <<appVars, listenq, ssock, fsin, nacc, cur, subs, deadSlots, announced,
                 queue, cut, serverVars>>

\* connect() succeeds as soon as the kernel has queued the connection.
SendConnects ==
  /\ gpc = "connect"
  /\ FdUsed < MaxFd /\ ServerListens /\ Len(queue) < Backlog
  /\ leaked' = leaked + 1
  /\ queue'  = Append(queue, cur)
  /\ gpc'    = "write"
  /\ UNCHANGED <<appVars, listenq, ssock, fsin, nacc, cur, subs, deadSlots,
                 announced, cut, serverVars>>

\* Broken: a message that was written is sent once more.
SendWrites_Again ==
  /\ gpc = "write"
  /\ gpc' = "connect"
  /\ UNCHANGED <<appVars, listenq, ssock, fsin, nacc, cur, subs, deadSlots, leaked,
                 announced, queue, cut, serverVars>>

\* write() and return, without close().
SendWrites ==
  /\ gpc = "write"
  /\ Return
  /\ UNCHANGED <<appVars, listenq, ssock, fsin, nacc, cur, subs, deadSlots, leaked,
                 announced, queue, cut, serverVars>>

\* No slot is free: the client is turned away and no RESPONCE is reported.
AdmitNoSlot ==
  /\ gpc = "admit"
  /\ Cardinality(subs) + deadSlots >= MaxSlot
  /\ gpc' = "select" /\ ssock' = 0
  /\ UNCHANGED <<appVars, listenq, fsin, nacc, cur, subs, deadSlots, leaked,
                 announced, queue, cut, serverVars>>

\* setsockopt() fails: the socket is closed but the slot stays allocated.
AdmitOptFails ==
  /\ gpc = "admit"
  /\ Cardinality(subs) + deadSlots < MaxSlot
  /\ deadSlots' = deadSlots + 1
  /\ gpc' = "select" /\ ssock' = 0
  /\ UNCHANGED <<appVars, listenq, fsin, nacc, cur, subs, leaked, announced,
                 queue, cut, serverVars>>

\* The client gets its slot and the version banner.  throttled_write may send
\* it, give up on EAGAIN, or detach the client; the RESPONCE follows anyway.
AdmitAnnounce ==
  /\ gpc = "admit"
  /\ Cardinality(subs) + deadSlots < MaxSlot
  /\ \/ subs' = subs \cup {ssock} /\ announced' = announced \cup {ssock}
     \/ subs' = subs \cup {ssock} /\ UNCHANGED announced
     \/ UNCHANGED <<subs, announced>>
  /\ cur' = Sending(RESPONCE, nacc, fsin, ssock)
  /\ ssock' = 0
  /\ gpc' = "connect"
  /\ UNCHANGED <<appVars, listenq, fsin, nacc, deadSlots, leaked, queue, cut, serverVars>>

DetachClient(i) ==
  /\ gpc = "select"
  /\ i \in subs
  /\ subs' = subs \ {i}
  /\ UNCHANGED <<appVars, listenq, gpc, ssock, fsin, nacc, cur, deadSlots, leaked,
                 announced, queue, cut, serverVars>>

\* Broken: a client that was not sent the banner is never read.
Hangup_Announced(i) == i \in announced /\ i \notin appOpen /\ DetachClient(i)

\* recv() on a client that closed its end returns 0.
Hangup(i) == i \notin appOpen /\ DetachClient(i)

\* A client that sends no command for COMMAND_TIMEOUT seconds, or a bad one.
Expel(i) == i \in appOpen /\ DetachClient(i)

\* gpsd exits or is killed, at any point.  The kernel closes its descriptors;
\* a connection it had not written to yet is left with nothing but an EOF.
GpsdDies ==
  /\ gpc # "dead"
  /\ cut' = IF gpc = "write" THEN cur ELSE cut
  /\ gpc' = "dead" /\ ssock' = 0 /\ subs' = {} /\ leaked' = 0 /\ listenq' = <<>>
  /\ UNCHANGED <<appVars, fsin, nacc, cur, deadSlots, announced, queue, serverVars>>

-----------------------------------------------------------------------------
(* The accounting server. *)

\* bind() and listen(); when bind() fails the program ends.
Boot ==
  /\ spc = "boot"
  /\ spc' \in {"accept", "down"}
  /\ stopped' = (spc' = "down")
  /\ UNCHANGED <<appVars, listenq, gpsdVars, queue, cut, inhand, pname, log>>

ServerAccepts ==
  /\ spc = "accept" /\ queue # <<>>
  /\ spc' = "recv" /\ inhand' = Head(queue) /\ queue' = Tail(queue)
  /\ UNCHANGED <<appVars, listenq, gpsdVars, cut, pname, stopped, log>>

\* Broken: the server reads until gpsd closes the connection.
ServerReceives_UntilEOF ==
  /\ spc = "recv"
  /\ inhand # cut
  /\ gpc = "dead"
  /\ spc' = "lookup"
  /\ UNCHANGED <<appVars, listenq, gpsdVars, queue, cut, inhand, pname, stopped, log>>

\* recv() waits for the message gpsd has connected for but not written yet.
\* An EOF instead of a message makes the split() fail: see ServerBreaks.
ServerReceives ==
  /\ spc = "recv"
  /\ inhand # cut
  /\ ~(gpc = "write" /\ inhand = cur)
  /\ spc' = "lookup"
  /\ UNCHANGED <<appVars, listenq, gpsdVars, queue, cut, inhand, pname, stopped, log>>

\* The processes lsof -i :port lists.
Owners(p) ==
  {conns[i].app : i \in {j \in appOpen : conns[j].port = p}}
    \cup (IF \E i \in GpsdOpen : conns[i].port = p THEN {Gpsd} ELSE {})

\* Broken: gpsd is not skipped among several rows.
ProcessNames_AnyRow(p) == IF Owners(p) # {} THEN Owners(p) ELSE {NoName}

\* Broken: the name of the last lookup is kept when there is no row.
ProcessNames_Sticky(p) ==
  IF Cardinality(Owners(p)) > 1 THEN Owners(p) \ {Gpsd}
  ELSE IF Owners(p) # {} THEN Owners(p)
  ELSE {pname}

\* getProcessName: with several rows the first one that is not gpsd's, with one
\* row that one whoever it is, with none the empty name.
ProcessNames(p) ==
  IF Cardinality(Owners(p)) > 1 THEN Owners(p) \ {Gpsd}
  ELSE IF Owners(p) # {} THEN Owners(p)
  ELSE {NoName}

\* Broken: a client nobody can name is not recorded.
ServerLooksUp_NamedOnly ==
  /\ spc = "lookup"
  /\ pname' \in ProcessNames(inhand.port)
  /\ spc' = IF pname' = NoName THEN "accept" ELSE "save"
  /\ UNCHANGED <<appVars, listenq, gpsdVars, queue, cut, inhand, stopped, log>>

ServerLooksUp ==
  /\ spc = "lookup"
  /\ pname' \in ProcessNames(inhand.port)
  /\ spc' = "save"
  /\ UNCHANGED <<appVars, listenq, gpsdVars, queue, cut, inhand, stopped, log>>

\* convert_time and saveRecords_socket.
ServerSaves ==
  /\ spc = "save"
  /\ log' = Append(log, [msg |-> inhand, name |-> pname])
  /\ spc' = "accept"
  /\ UNCHANGED <<appVars, listenq, gpsdVars, queue, cut, inhand, pname, stopped>>

\* Any exception in the loop closes the listening socket, is raised again and
\* ends the program; the connections it had not accepted are reset.
Down == spc' = "down" /\ queue' = <<>>

\* Broken: recv() does not wait for the message.
ServerBreaks_NonBlocking ==
  /\ spc = "recv" /\ (inhand = cut \/ (gpc = "write" /\ inhand = cur))
  /\ Down
  /\ UNCHANGED <<appVars, listenq, gpsdVars, cut, inhand, pname, stopped, log>>

ServerBreaks ==
  /\ spc = "recv" /\ inhand = cut
  /\ Down
  /\ UNCHANGED <<appVars, listenq, gpsdVars, cut, inhand, pname, stopped, log>>

\* A keyboard interrupt, a signal, or an I/O error of the log file.
ServerStopped ==
  /\ spc \notin {"boot", "down"}
  /\ Down
  /\ stopped' = TRUE
  /\ UNCHANGED <<appVars, listenq, gpsdVars, cut, inhand, pname, log>>

-----------------------------------------------------------------------------
AppStep ==
  \/ \E a \in App, p \in Port : AppConnect(a, p)
  \/ \E i \in ConnId : AppClose(i)

Send   == SendFails \/ SendConnects \/ SendWrites
Admit  == AdmitNoSlot \/ AdmitOptFails \/ AdmitAnnounce
Accept == AcceptOk \/ AcceptFails

Server == ServerAccepts \/ ServerReceives \/ ServerLooksUp \/ ServerSaves \/ ServerBreaks

Next ==
  \/ AppStep
  \/ Accept \/ Send \/ SendTimesOut \/ Admit
  \/ \E i \in ConnId : Hangup(i) \/ Expel(i)
  \/ GpsdDies
  \/ Boot \/ Server \/ ServerStopped

Spec == Init /\ [][Next]_vars

\* gpsd's main loop and the server's loop keep running while they can, and every
\* pass of gpsd's loop reads all its clients (hence SF).  The applications, the
\* timeouts (of connect() too), the deaths and the interrupts may or may not happen.
Fairness ==
  /\ WF_vars(Accept) /\ WF_vars(Send) /\ WF_vars(Admit)
  /\ \A i \in ConnId : SF_vars(Hangup(i))
  /\ WF_vars(Boot) /\ WF_vars(Server)

FairSpec == Spec /\ Fairness

-----------------------------------------------------------------------------
(* Properties. *)

GpsdStates   == {"select", "connect", "write", "admit", "dead"}
ServerStates == {"boot", "accept", "recv", "lookup", "save", "down"}

\* Every variable stays in its domain (gpsd.c:174-213, 2298-2364 and
\* measurement.py:226-280).
TypeOK ==
  /\ conns \in Seq(Conn) /\ Len(conns) <= MaxConn
  /\ appOpen \subseteq 1..Len(conns)
  /\ listenq \in Seq(1..Len(conns))
  /\ gpc \in GpsdStates
  /\ ssock \in 0..Len(conns)
  /\ fsin \in Port \cup {0}
  /\ nacc \in 0..MaxAccept
  /\ cur \in Message \cup {NoMessage}
  /\ subs \subseteq 1..Len(conns)
  /\ deadSlots \in Nat /\ leaked \in Nat
  /\ announced \subseteq 1..Len(conns)
  /\ queue \in Seq(Message)
  /\ spc \in ServerStates
  /\ inhand \in Message \cup {NoMessage}
  /\ cut \in Message \cup {NoMessage}
  /\ pname \in Name
  /\ stopped \in BOOLEAN
  /\ log \in Seq(Record)
  /\ gpc \in {"connect", "write", "admit"} => cur \in Message /\ nacc # 0
  /\ gpc = "admit" => ssock # 0
  /\ spc \in {"recv", "lookup", "save"} => inhand \in Message

\* The place of a message in gpsd's history: the REQUEST and then the RESPONCE
\* of the first accept(), of the second, and so on.
Place(m) == 2 * m.nr + m.type

\* The socket log is in the order of gpsd's history and repeats nothing: one
\* REQUEST and one RESPONCE at most for each accept(), the REQUEST first, although
\* each travels on a connection of its own (gpsd.c:2312, 2359; measurement.py:238-254).
LedgerOrder ==
  \A i, j \in 1..Len(log) : i < j => Place(log[i].msg) < Place(log[j].msg)

\* What the order of the log rests on: the messages that wait in the backlog, the
\* one the server works on and the one gpsd is sending follow each other and come
\* after the log.
QueueInOrder ==
  /\ \A i, j \in 1..Len(queue) : i < j => Place(queue[i]) < Place(queue[j])
  /\ \A i \in 1..Len(log), j \in 1..Len(queue) : Place(log[i].msg) < Place(queue[j])

Busy == spc \in {"recv", "lookup", "save"}

InhandInOrder ==
  Busy =>
    /\ \A i \in 1..Len(log) : Place(log[i].msg) < Place(inhand)
    /\ \A j \in 1..Len(queue) : Place(inhand) < Place(queue[j])

\* Every message on its way is older than bound.
AllBefore(bound) ==
  /\ \A i \in 1..Len(log) : Place(log[i].msg) < bound
  /\ \A j \in 1..Len(queue) : Place(queue[j]) < bound
  /\ Busy => Place(inhand) < bound

SenderInOrder ==
  /\ gpc \in {"connect", "write", "admit"} => cur.nr = nacc
  /\ gpc = "admit" => cur.type = REQUEST
  /\ gpc = "connect" => AllBefore(Place(cur))
  /\ gpc \in {"write", "admit"} => AllBefore(Place(cur) + 1)
  /\ gpc \in {"select", "dead"} => AllBefore(2 * nacc + 2)

LedgerInv ==
  TypeOK /\ LedgerOrder /\ QueueInOrder /\ InhandInOrder /\ SenderInOrder

\* A record about a client that still holds its socket names that client: the
\* lookup by port is right as long as the client stays (measurement.py:65-99).
LiveClientIsNamed ==
  \A i \in 1..Len(log) :
    LET r == log[i] IN r.msg.id \in appOpen => r.name = conns[r.msg.id].app

\* A record names an application that is not the client only when that
\* application was given the client's port after it (measurement.py:243).
WrongNameNeedsReuse ==
  \A i \in 1..Len(log) :
    LET r == log[i]
        c == conns[r.msg.id]
    IN  r.msg.id # 0 /\ r.name \in App \ {c.app} =>
          \E j \in (r.msg.id + 1)..Len(conns) : conns[j] = [app |-> r.name, port |-> c.port]

\* What the log says of a port is true of the client that has it, unless a
\* later client was given the port: the server's table of ports and the
\* kernel's agree as far as gpsd tells it (gpsd.c 2318-2357).
NamesAreRight == LiveClientIsNamed /\ WrongNameNeedsReuse

\* The server ends only when it is stopped from outside or when gpsd died with a
\* connection open and nothing written (measurement.py:240-242, 257-278).
ServerEndsForAReason == spc = "down" => stopped \/ cut # NoMessage

\* A message the server's kernel accepted is logged, unless the server ends
\* (measurement.py:236-255).
Logged(n, t) == \E i \in 1..Len(log) : log[i].msg.nr = n /\ log[i].msg.type = t
Queued(n, t) == \E i \in 1..Len(queue) : queue[i].nr = n /\ queue[i].type = t

QueuedIsLogged ==
  \A n \in 1..MaxAccept, t \in {REQUEST, RESPONCE} :
    Queued(n, t) ~> Logged(n, t) \/ spc = "down"

\* gpsd's blocking connect() never stalls it for good: the main loop comes back to
\* select() after every accept() (gpsd.c:203, 2298-2364).
GpsdComesBack == gpc \in {"connect", "write", "admit"} ~> gpc \in {"select", "dead"}

\* A client that is gone loses its slot, however busy the accounting is
\* (gpsd.c:2463-2475).
GoneClientIsDetached ==
  \A i \in ConnId : i \in subs /\ i \notin appOpen ~> i \notin subs

\* Nobody waits for ever: not a report in the server's backlog, not gpsd in
\* its send, not the slot of a client that has gone.
EveryoneIsServed == QueuedIsLogged /\ GpsdComesBack /\ GoneClientIsDetached

\* What the log promises its readers, as a specification of its own.
Ledger == INSTANCE RequestLedger
            WITH entries <- [i \in 1..Len(log) |-> [nr |-> log[i].msg.nr,
                                                    type |-> log[i].msg.type]]
LedgerSpec == Ledger!Spec

-----------------------------------------------------------------------------
(* A claim of the source that the code does not keep. *)

\* "Message send to server closing the socket...." (gpsd.c:210): no descriptor of
\* send_to_server is open when gpsd is back in its main loop.
SocketsAreClosed == gpc = "select" => leaked = 0

=============================================================================
