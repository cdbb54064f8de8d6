-------------------------- MODULE Accounting_proofs --------------------------
(* Theorems about Accounting, for every value of its constants. *)
EXTENDS Accounting, FiniteSetTheorems, TLAPS

-----------------------------------------------------------------------------
(* Facts about sequences that the steps use. *)

LEMMA SeqWiden ==
  ASSUME NEW S, NEW T, S \subseteq T, NEW s \in Seq(S)
  PROVE  s \in Seq(T)
OBVIOUS

\* The head and the tail of a non-empty sequence.
LEMMA HeadTail ==
  ASSUME NEW S, NEW s \in Seq(S), s # <<>>
  PROVE  /\ Head(s) \in S /\ Head(s) = s[1] /\ Len(s) \in Nat \ {0}
         /\ Tail(s) \in Seq(S) /\ Len(Tail(s)) = Len(s) - 1
         /\ \A i \in 1..Len(Tail(s)) : Tail(s)[i] = s[i + 1]
OBVIOUS

\* What Append adds and what it leaves alone.
LEMMA AppendElements ==
  ASSUME NEW S, NEW s \in Seq(S), NEW e \in S
  PROVE  /\ Append(s, e) \in Seq(S)
         /\ Len(Append(s, e)) = Len(s) + 1 /\ Len(s) \in Nat
         /\ \A i \in 1..Len(s) : Append(s, e)[i] = s[i]
         /\ Append(s, e)[Len(s) + 1] = e
OBVIOUS

\* The empty sequence belongs to every set of sequences and has no element.
LEMMA EmptySeq == ASSUME NEW S PROVE <<>> \in Seq(S) /\ Len(<<>>) = 0
OBVIOUS

-----------------------------------------------------------------------------
(* Type correctness. *)

\* A message of gpsd is well-formed: its accept() has a number within the bound.
LEMMA MessageTyped ==
  ASSUME NEW t \in {REQUEST, RESPONCE}, NEW n \in 1..MaxAccept,
         NEW p \in Port \cup {0}, NEW i \in 0..MaxConn
  PROVE  Sending(t, n, p, i) \in Message
BY DEF Sending, Message

\* What a connection's record holds.
LEMMA ConnFields ==
  ASSUME TypeOK, NEW i \in 1..Len(conns)
  PROVE  conns[i].app \in App /\ conns[i].port \in Port
<1>1. conns[i] \in Conn
  BY DEF TypeOK
<1> QED
  BY <1>1 DEF Conn

\* The initial state is well typed.
LEMMA InitTyped == Init => TypeOK
<1> USE LimitsAreNumbers
<1> SUFFICES ASSUME Init PROVE TypeOK
  OBVIOUS
<1>1. /\ conns \in Seq(Conn) /\ Len(conns) = 0
      /\ listenq \in Seq(1..Len(conns)) /\ queue \in Seq(Message) /\ log \in Seq(Record)
  BY EmptySeq DEF Init
<1>2. gpc \in GpsdStates \ {"connect", "write", "admit"}
  BY DEF Init, GpsdStates
<1>3. spc \in ServerStates \ {"recv", "lookup", "save"}
  BY DEF Init, ServerStates
<1>4. ssock \in 0..Len(conns) /\ nacc \in 0..MaxAccept /\ Len(conns) <= MaxConn
  BY <1>1 DEF Init
<1>5. /\ appOpen \subseteq 1..Len(conns) /\ subs \subseteq 1..Len(conns)
      /\ announced \subseteq 1..Len(conns)
  BY DEF Init
<1>6. gpc # "admit"
  BY DEF Init
<1> QED
  BY <1>1, <1>2, <1>3, <1>4, <1>5, <1>6 DEF Init, TypeOK, Name

\* Every variable keeps its type in every reachable state, whatever the names,
\* the ports and the limits are.
THEOREM TypeCorrect == Spec => []TypeOK
<1> USE LimitsAreNumbers
<1>1. Init => TypeOK
  BY InitTyped
<1>2. TypeOK /\ [Next]_vars => TypeOK'
  <2> SUFFICES ASSUME TypeOK, [Next]_vars PROVE TypeOK'
    OBVIOUS
  <2> USE DEF gpsdVars, serverVars, appVars
  <2>1. ASSUME NEW a \in App, NEW p \in Port, AppConnect(a, p) PROVE TypeOK'
    <3>1. [app |-> a, port |-> p] \in Conn
      BY DEF Conn
    <3>2. conns' \in Seq(Conn) /\ Len(conns') = Len(conns) + 1 /\ Len(conns) \in Nat
      BY <2>1, <3>1, AppendElements DEF AppConnect, TypeOK
    <3>3. 1..Len(conns) \subseteq 1..Len(conns') /\ Len(conns) + 1 \in 1..Len(conns')
      BY <3>2
    <3>4. listenq \in Seq(1..Len(conns'))
      BY <3>3, SeqWiden DEF TypeOK
    <3>5. listenq' \in Seq(1..Len(conns'))
      BY <2>1, <3>3, <3>4, AppendElements DEF AppConnect
    <3>6. /\ appOpen' \subseteq 1..Len(conns') /\ subs' \subseteq 1..Len(conns')
          /\ announced' \subseteq 1..Len(conns')
      BY <2>1, <3>3 DEF AppConnect, TypeOK
    <3>7. ssock' \in 0..Len(conns') /\ Len(conns') <= MaxConn
      BY <2>1, <3>2 DEF AppConnect, TypeOK
    <3> QED
      BY <2>1, <3>2, <3>5, <3>6, <3>7 DEF AppConnect, TypeOK
  <2>2. ASSUME NEW i \in ConnId, AppClose(i) PROVE TypeOK'
    BY <2>2 DEF AppClose, TypeOK
  <2>3. CASE AcceptOk
    <3>1. /\ Head(listenq) \in 1..Len(conns)
          /\ Tail(listenq) \in Seq(1..Len(conns))
      BY <2>3, HeadTail DEF AcceptOk, TypeOK
    <3>2. conns[Head(listenq)].port \in Port /\ Head(listenq) \in 0..MaxConn
      BY SMTT(20), <3>1, ConnFields DEF TypeOK
    <3>3. nacc + 1 \in 1..MaxAccept
      BY <2>3 DEF AcceptOk, TypeOK
    <3>4. cur' \in Message
      BY <2>3, <3>2, <3>3, MessageTyped DEF AcceptOk
    <3>5. ssock' \in 0..Len(conns) /\ fsin' \in Port \cup {0} /\ nacc' \in 0..MaxAccept /\ nacc' # 0
      BY <2>3, <3>1, <3>2, <3>3 DEF AcceptOk
    <3> QED
      BY <2>3, <3>1, <3>4, <3>5 DEF AcceptOk, TypeOK, GpsdStates
  <2>4. CASE AcceptFails
    <3>1. listenq' \in Seq(1..Len(conns))
      BY <2>4, HeadTail DEF AcceptFails, TypeOK
    <3>2. nacc + 1 \in 1..MaxAccept
      BY <2>4 DEF AcceptFails, TypeOK
    <3>3. cur' \in Message
      <4>1. REQUEST \in {REQUEST, RESPONCE} /\ fsin \in Port \cup {0} /\ 0 \in 0..MaxConn
        BY DEF TypeOK
      <4> QED
        BY <2>4, <3>2, <4>1, MessageTyped DEF AcceptFails
    <3> QED
      BY <2>4, <3>1, <3>2, <3>3 DEF AcceptFails, TypeOK, GpsdStates
  <2>5. ASSUME SendFails \/ SendTimesOut PROVE TypeOK'
    <3>1. leaked' \in Nat
      BY <2>5 DEF SendFails, SendTimesOut, TypeOK
    <3>2. Return /\ gpc = "connect" /\ UNCHANGED ssock
      BY <2>5 DEF SendFails, SendTimesOut
    <3>3. gpc' \in {"admit", "select"} /\ (gpc' = "admit" => ssock' # 0)
      BY <3>2 DEF Return
    <3> QED
      BY <2>5, <3>1, <3>2, <3>3 DEF SendFails, SendTimesOut, TypeOK, GpsdStates
  <2>6. CASE SendConnects
    <3>1. queue' \in Seq(Message)
      BY <2>6, AppendElements DEF SendConnects, TypeOK
    <3> QED
      BY <2>6, <3>1 DEF SendConnects, TypeOK, GpsdStates
  <2>7. CASE SendWrites
    BY <2>7 DEF SendWrites, Return, TypeOK, GpsdStates
  <2>8. CASE AdmitNoSlot
    BY <2>8 DEF AdmitNoSlot, TypeOK, GpsdStates
  <2>9. CASE AdmitOptFails
    BY <2>9 DEF AdmitOptFails, TypeOK, GpsdStates
  <2>10. CASE AdmitAnnounce
    <3>1. nacc \in 1..MaxAccept
      BY <2>10 DEF AdmitAnnounce, TypeOK, Message
    <3>2. cur' \in Message
      <4>1. RESPONCE \in {REQUEST, RESPONCE} /\ fsin \in Port \cup {0} /\ ssock \in 0..MaxConn
        BY DEF TypeOK
      <4> QED
        BY <2>10, <3>1, <4>1, MessageTyped DEF AdmitAnnounce
    <3>3. {ssock} \subseteq 1..Len(conns)
      BY <2>10 DEF AdmitAnnounce, TypeOK
    <3>4. subs' \subseteq 1..Len(conns) /\ announced' \subseteq 1..Len(conns)
      BY <2>10, <3>3 DEF AdmitAnnounce, TypeOK
    <3>5. ssock' \in 0..Len(conns)
      BY <2>10 DEF AdmitAnnounce, TypeOK
    <3> QED
      BY <2>10, <3>1, <3>2, <3>4, <3>5 DEF AdmitAnnounce, TypeOK, GpsdStates
  <2>11. ASSUME NEW i \in ConnId, Hangup(i) \/ Expel(i) PROVE TypeOK'
    BY <2>11 DEF Hangup, Expel, DetachClient, TypeOK
  <2>12. CASE GpsdDies
    BY <2>12, EmptySeq DEF GpsdDies, TypeOK, GpsdStates
  <2>13. CASE Boot
    BY <2>13 DEF Boot, TypeOK, ServerStates
  <2>14. CASE ServerAccepts
    BY <2>14, HeadTail DEF ServerAccepts, TypeOK, ServerStates
  <2>15. CASE ServerReceives
    BY <2>15 DEF ServerReceives, TypeOK, ServerStates
  <2>16. CASE ServerLooksUp
    <3>1. \A i \in appOpen : conns[i].app \in App
      BY ConnFields DEF TypeOK
    <3>2. Owners(inhand.port) \subseteq Name
      BY <3>1 DEF Owners, Name
    <3>3. pname' \in Name
      BY <2>16, <3>2 DEF ServerLooksUp, ProcessNames, Name
    <3> QED
      BY <2>16, <3>3 DEF ServerLooksUp, TypeOK, ServerStates
  <2>17. CASE ServerSaves
    <3>1. [msg |-> inhand, name |-> pname] \in Record
      BY <2>17 DEF ServerSaves, TypeOK, Record
    <3>2. log' \in Seq(Record)
      BY <2>17, <3>1, AppendElements DEF ServerSaves, TypeOK
    <3> QED
      BY <2>17, <3>2 DEF ServerSaves, TypeOK, ServerStates
  <2>18. CASE ServerBreaks
    BY <2>18, EmptySeq DEF ServerBreaks, Down, TypeOK, ServerStates
  <2>19. CASE ServerStopped
    BY <2>19, EmptySeq DEF ServerStopped, Down, TypeOK, ServerStates
  <2>20. CASE UNCHANGED vars
    BY <2>20 DEF vars, TypeOK
  <2> QED
    BY <2>1, <2>2, <2>3, <2>4, <2>5, <2>6, <2>7, <2>8, <2>9, <2>10, <2>11, <2>12,
       <2>13, <2>14, <2>15, <2>16, <2>17, <2>18, <2>19, <2>20
       DEF Next, AppStep, Accept, Send, Admit, Server
<1> QED
  BY <1>1, <1>2, PTL DEF Spec

-----------------------------------------------------------------------------
(* The order of the log. *)

\* A message's place is a number that its accept() and its type determine.
LEMMA PlaceOfMessage ==
  ASSUME NEW m \in Message
  PROVE  /\ Place(m) \in Nat /\ m.nr \in Nat
         /\ m.type = REQUEST => Place(m) = 2 * m.nr
         /\ m.type = RESPONCE => Place(m) = 2 * m.nr + 1
         /\ Place(m) <= 2 * m.nr + 1
BY LimitsAreNumbers DEF Place, Message, REQUEST, RESPONCE

\* All the places the invariant compares are numbers.
LEMMA Places ==
  ASSUME TypeOK
  PROVE  /\ Len(log) \in Nat /\ Len(queue) \in Nat
         /\ \A i \in 1..Len(log) : Place(log[i].msg) \in Nat
         /\ \A j \in 1..Len(queue) : queue[j] \in Message /\ Place(queue[j]) \in Nat
         /\ Busy => Place(inhand) \in Nat
         /\ gpc \in {"connect", "write", "admit"} => Place(cur) \in Nat
         /\ nacc \in Nat
<1>1. log \in Seq(Record) /\ queue \in Seq(Message)
  BY DEF TypeOK
<1>2. \A i \in 1..Len(log) : log[i].msg \in Message
  <2>1. \A i \in 1..Len(log) : log[i] \in Record
    BY <1>1
  <2> QED
    BY <2>1 DEF Record
<1>3. \A j \in 1..Len(queue) : queue[j] \in Message
  BY <1>1
<1>4. Busy => inhand \in Message
  BY DEF TypeOK, Busy
<1>5. gpc \in {"connect", "write", "admit"} => cur \in Message
  BY DEF TypeOK
<1>6. nacc \in Nat
  BY LimitsAreNumbers DEF TypeOK
<1> QED
  BY <1>1, <1>2, <1>3, <1>4, <1>5, <1>6, PlaceOfMessage

\* What is before a bound is before every later one.
LEMMA AllBeforeGrows ==
  ASSUME TypeOK, NEW b \in Nat, NEW c \in Nat, b <= c, AllBefore(b)
  PROVE  AllBefore(c)
BY Places DEF AllBefore

\* A step that moves no message keeps the order, if the sender's part holds.
LEMMA NothingMoves ==
  ASSUME LedgerInv, UNCHANGED <<log, queue, inhand>>, Busy' = Busy
  PROVE  /\ LedgerOrder' /\ QueueInOrder' /\ InhandInOrder'
         /\ \A b : AllBefore(b) => AllBefore(b)'
BY DEF LedgerInv, LedgerOrder, QueueInOrder, InhandInOrder, AllBefore, Place

\* A step of neither gpsd nor the server's queue keeps the order.
LEMMA SenderStays ==
  ASSUME LedgerInv, UNCHANGED <<log, queue, inhand, gpc, cur, nacc>>, Busy' = Busy
  PROVE  LedgerOrder' /\ QueueInOrder' /\ InhandInOrder' /\ SenderInOrder'
<1>1. SenderInOrder'
  BY DEF LedgerInv, SenderInOrder, AllBefore, Place, Busy
<1> QED
  BY <1>1, NothingMoves

\* The invariant behind the order of the log is inductive: one step per action.
LEMMA LedgerInvStep == LedgerInv /\ TypeOK' /\ [Next]_vars => LedgerInv'
<1> SUFFICES ASSUME LedgerInv, TypeOK', [Next]_vars PROVE LedgerInv'
  OBVIOUS
<1> USE DEF gpsdVars, serverVars, appVars
<1>t. TypeOK
  BY DEF LedgerInv
<1>p. /\ Len(log) \in Nat /\ Len(queue) \in Nat /\ nacc \in Nat
      /\ \A i \in 1..Len(log) : Place(log[i].msg) \in Nat
      /\ \A j \in 1..Len(queue) : Place(queue[j]) \in Nat
  BY <1>t, Places
<1>1. ASSUME NEW a \in App, NEW p \in Port, AppConnect(a, p) PROVE LedgerInv'
  <2>1. UNCHANGED <<log, queue, inhand, gpc, cur, nacc>> /\ Busy' = Busy
    BY <1>1 DEF AppConnect, Busy
  <2> QED
    BY <2>1, SenderStays DEF LedgerInv
<1>2. ASSUME NEW i \in ConnId, AppClose(i) PROVE LedgerInv'
  <2>1. UNCHANGED <<log, queue, inhand, gpc, cur, nacc>> /\ Busy' = Busy
    BY <1>2 DEF AppClose, Busy
  <2> QED
    BY <2>1, SenderStays DEF LedgerInv
<1>3. CASE Accept
  <2>1. /\ UNCHANGED <<log, queue, inhand>> /\ Busy' = Busy
        /\ gpc = "select" /\ gpc' = "connect"
        /\ nacc' = nacc + 1 /\ cur'.type = REQUEST /\ cur'.nr = nacc + 1
    BY <1>3 DEF Accept, AcceptOk, AcceptFails, Sending, Busy
  <2>2. PICK b \in Nat : b = 2 * nacc + 2
    BY <1>p
  <2>3. AllBefore(b)
    BY <2>1, <2>2 DEF LedgerInv, SenderInOrder
  <2>4. Place(cur)' = b
    BY <2>1, <2>2, <1>p DEF Place, REQUEST
  <2>5. SenderInOrder'
    BY <2>1, <2>3, <2>4, NothingMoves DEF SenderInOrder
  <2> QED
    BY <2>1, <2>5, NothingMoves DEF LedgerInv
<1>4. ASSUME SendFails \/ SendTimesOut \/ SendWrites PROVE LedgerInv'
  <2>1. /\ UNCHANGED <<log, queue, inhand, cur, nacc>> /\ Busy' = Busy
        /\ gpc \in {"connect", "write"} /\ gpc' \in {"admit", "select"}
        /\ gpc' = "admit" => cur.type = REQUEST
    BY <1>4 DEF SendFails, SendTimesOut, SendWrites, Return, Busy
  <2>2. cur \in Message /\ cur.nr = nacc
    BY <2>1, <1>t DEF LedgerInv, SenderInOrder, TypeOK
  <2>3. Place(cur) \in Nat /\ Place(cur) <= 2 * nacc + 1
    BY <2>2, PlaceOfMessage
  <2>4. AllBefore(Place(cur) + 1)
    <3>1. CASE gpc = "connect"
      BY <3>1, <2>3, <1>t, AllBeforeGrows DEF LedgerInv, SenderInOrder
    <3>2. CASE gpc = "write"
      BY <3>2 DEF LedgerInv, SenderInOrder
    <3> QED
      BY <2>1, <3>1, <3>2
  <2>5. AllBefore(2 * nacc + 2)
    BY <2>3, <2>4, <1>t, <1>p, AllBeforeGrows
  <2>6. AllBefore(Place(cur) + 1)' /\ AllBefore(2 * nacc + 2)'
    BY <2>1, <2>4, <2>5 DEF AllBefore, Place
  <2>7. SenderInOrder'
    BY <2>1, <2>2, <2>6 DEF SenderInOrder
  <2> QED
    BY <2>1, <2>7, NothingMoves DEF LedgerInv
<1>5. CASE SendConnects
  <2>1. /\ UNCHANGED <<log, inhand, cur, nacc, spc>> /\ queue' = Append(queue, cur)
        /\ gpc = "connect" /\ gpc' = "write"
    BY <1>5 DEF SendConnects
  <2>2. cur \in Message /\ cur.nr = nacc /\ AllBefore(Place(cur)) /\ Place(cur) \in Nat
    BY <2>1, <1>t, PlaceOfMessage DEF LedgerInv, SenderInOrder, TypeOK
  <2>3. /\ Len(queue') = Len(queue) + 1
        /\ \A j \in 1..Len(queue) : queue'[j] = queue[j]
        /\ queue'[Len(queue) + 1] = cur
    BY <2>1, <2>2, <1>t, AppendElements DEF TypeOK
  <2>4. QueueInOrder'
    <3>1. \A j \in 1..Len(queue') : j \in 1..Len(queue) \/ j = Len(queue) + 1
      BY <2>3, <1>p
    <3>2. \A j \in 1..Len(queue) : Place(queue[j]) < Place(cur)
      BY <2>2 DEF AllBefore
    <3>3. \A i \in 1..Len(log) : Place(log[i].msg) < Place(cur)
      BY <2>2 DEF AllBefore
    <3>4. ASSUME NEW i \in 1..Len(queue'), NEW j \in 1..Len(queue'), i < j
          PROVE  Place(queue'[i]) < Place(queue'[j])
      <4>1. i \in 1..Len(queue)
        BY <3>1, <3>4, <2>3, <1>p
      <4> QED
        BY <4>1, <3>1, <3>2, <3>4, <2>3, <1>p DEF LedgerInv, QueueInOrder
    <3>5. \A i \in 1..Len(log), j \in 1..Len(queue') : Place(log[i].msg) < Place(queue'[j])
      BY <3>1, <3>3, <2>3 DEF LedgerInv, QueueInOrder
    <3> QED
      BY <3>4, <3>5, <2>1 DEF QueueInOrder, Place
  <2>5. InhandInOrder'
    BY <2>1, <2>2, <2>3, <1>p DEF LedgerInv, InhandInOrder, AllBefore, Busy, Place
  <2>6. AllBefore(Place(cur) + 1)'
    BY SMTT(20), <2>1, <2>2, <2>3, <1>p, <1>t, Places DEF AllBefore, Busy, Place
  <2>7. SenderInOrder'
    BY <2>1, <2>2, <2>6 DEF SenderInOrder
  <2>8. LedgerOrder'
    BY <2>1 DEF LedgerInv, LedgerOrder, Place
  <2> QED
    BY <2>4, <2>5, <2>7, <2>8 DEF LedgerInv
<1>6. ASSUME AdmitNoSlot \/ AdmitOptFails PROVE LedgerInv'
  <2>1. /\ UNCHANGED <<log, queue, inhand, cur, nacc>> /\ Busy' = Busy
        /\ gpc = "admit" /\ gpc' = "select"
    BY <1>6 DEF AdmitNoSlot, AdmitOptFails, Busy
  <2>2. Place(cur) \in Nat /\ Place(cur) <= 2 * nacc + 1 /\ AllBefore(Place(cur) + 1)
    BY <2>1, <1>t, PlaceOfMessage DEF LedgerInv, SenderInOrder, TypeOK
  <2>3. AllBefore(2 * nacc + 2)
    BY <2>2, <1>t, <1>p, AllBeforeGrows
  <2>4. SenderInOrder'
    BY <2>1, <2>3 DEF SenderInOrder, AllBefore, Place
  <2> QED
    BY <2>1, <2>4, NothingMoves DEF LedgerInv
<1>7. CASE AdmitAnnounce
  <2>1. /\ UNCHANGED <<log, queue, inhand, nacc>> /\ Busy' = Busy
        /\ gpc = "admit" /\ gpc' = "connect"
        /\ cur'.type = RESPONCE /\ cur'.nr = nacc
    BY <1>7 DEF AdmitAnnounce, Sending, Busy
  <2>2. AllBefore(2 * nacc + 1)
    BY <2>1, <1>t, PlaceOfMessage DEF LedgerInv, SenderInOrder, TypeOK
  <2>3. Place(cur)' = 2 * nacc + 1
    BY <2>1, <1>p DEF Place, RESPONCE
  <2>4. SenderInOrder'
    BY <2>1, <2>2, <2>3 DEF SenderInOrder, AllBefore, Place
  <2> QED
    BY <2>1, <2>4, NothingMoves DEF LedgerInv
<1>8. ASSUME NEW i \in ConnId, Hangup(i) \/ Expel(i) PROVE LedgerInv'
  <2>1. UNCHANGED <<log, queue, inhand, gpc, cur, nacc>> /\ Busy' = Busy
    BY <1>8 DEF Hangup, Expel, DetachClient, Busy
  <2> QED
    BY <2>1, SenderStays DEF LedgerInv
<1>9. CASE GpsdDies
  <2>1. /\ UNCHANGED <<log, queue, inhand, cur, nacc>> /\ Busy' = Busy
        /\ gpc # "dead" /\ gpc' = "dead"
    BY <1>9 DEF GpsdDies, Busy
  <2>2. AllBefore(2 * nacc + 2)
    <3>1. CASE gpc = "select"
      BY <3>1 DEF LedgerInv, SenderInOrder
    <3>2. CASE gpc \in {"connect", "write", "admit"}
      <4>1. Place(cur) \in Nat /\ Place(cur) <= 2 * nacc + 1
        BY <3>2, <1>t, PlaceOfMessage DEF LedgerInv, SenderInOrder, TypeOK
      <4>2. AllBefore(Place(cur)) \/ AllBefore(Place(cur) + 1)
        BY <3>2 DEF LedgerInv, SenderInOrder
      <4> QED
        BY <4>1, <4>2, <1>t, <1>p, AllBeforeGrows
    <3> QED
      BY <2>1, <3>1, <3>2, <1>t DEF TypeOK, GpsdStates
  <2>3. SenderInOrder'
    BY <2>1, <2>2 DEF SenderInOrder, AllBefore, Place
  <2> QED
    BY <2>1, <2>3, NothingMoves DEF LedgerInv
<1>10. CASE Boot
  <2>1. UNCHANGED <<log, queue, inhand, gpc, cur, nacc>> /\ Busy' = Busy
    BY <1>10 DEF Boot, Busy
  <2> QED
    BY <2>1, SenderStays DEF LedgerInv
<1>11. CASE ServerAccepts
  <2>1. /\ UNCHANGED <<log, gpc, cur, nacc>>
        /\ ~Busy /\ Busy' /\ inhand' = Head(queue) /\ queue' = Tail(queue) /\ queue # <<>>
    BY <1>11 DEF ServerAccepts, Busy
  <2>2. /\ inhand' = queue[1] /\ Len(queue) # 0
        /\ Len(queue') = Len(queue) - 1
        /\ \A j \in 1..Len(queue') : queue'[j] = queue[j + 1]
    BY <2>1, <1>t, HeadTail DEF TypeOK
  <2>i. \A j \in 1..Len(queue') : j + 1 \in 2..Len(queue)
    BY <2>2, <1>p
  <2>3. QueueInOrder'
    <3>1. ASSUME NEW i \in 1..Len(queue'), NEW j \in 1..Len(queue'), i < j
          PROVE  Place(queue'[i]) < Place(queue'[j])
      <4>1. i + 1 \in 1..Len(queue) /\ j + 1 \in 1..Len(queue) /\ i + 1 < j + 1
        BY <2>i, <3>1
      <4>2. Place(queue[i + 1]) < Place(queue[j + 1])
        BY <4>1 DEF LedgerInv, QueueInOrder
      <4> QED
        BY <4>2, <2>2
    <3>2. \A i \in 1..Len(log), j \in 1..Len(queue') : Place(log[i].msg) < Place(queue'[j])
      BY <2>2, <2>i DEF LedgerInv, QueueInOrder
    <3> QED
      BY <3>1, <3>2, <2>1 DEF QueueInOrder, Place
  <2>4. InhandInOrder'
    BY <2>1, <2>2, <1>p DEF LedgerInv, QueueInOrder, InhandInOrder, Place
  <2>5. \A b : AllBefore(b) => AllBefore(b)'
    <3> SUFFICES ASSUME NEW b, AllBefore(b) PROVE AllBefore(b)'
      OBVIOUS
    <3>1. \A j \in 1..Len(queue') : Place(queue'[j]) < b
      BY <2>2, <2>i DEF AllBefore
    <3>2. Place(inhand') < b
      BY <2>2, <1>p DEF AllBefore
    <3> QED
      BY <2>1, <3>1, <3>2 DEF AllBefore, Place
  <2>6. SenderInOrder'
    BY <2>1, <2>5 DEF LedgerInv, SenderInOrder, Place
  <2>7. LedgerOrder'
    BY <2>1 DEF LedgerInv, LedgerOrder, Place
  <2> QED
    BY <2>3, <2>4, <2>6, <2>7 DEF LedgerInv
<1>12. ASSUME ServerReceives \/ ServerLooksUp PROVE LedgerInv'
  <2>1. UNCHANGED <<log, queue, inhand, gpc, cur, nacc>> /\ Busy' = Busy
    BY <1>12 DEF ServerReceives, ServerLooksUp, Busy
  <2> QED
    BY <2>1, SenderStays DEF LedgerInv
<1>13. CASE ServerSaves
  <2> DEFINE r == [msg |-> inhand, name |-> pname]
  <2>1. /\ UNCHANGED <<queue, inhand, gpc, cur, nacc>> /\ log' = Append(log, r)
        /\ Busy /\ ~Busy'
    BY <1>13 DEF ServerSaves, Busy
  <2>2. r \in Record /\ inhand \in Message /\ Place(inhand) \in Nat /\ r.msg = inhand
    BY <2>1, <1>t, Places DEF Busy, TypeOK, Record
  <2>3. /\ Len(log') = Len(log) + 1
        /\ \A i \in 1..Len(log) : log'[i] = log[i]
        /\ log'[Len(log) + 1].msg = inhand
    BY <2>1, <2>2, <1>t, AppendElements DEF TypeOK
  <2>4. LedgerOrder'
    BY <2>1, <2>2, <2>3, <1>p DEF LedgerInv, LedgerOrder, InhandInOrder, Place
  <2>5. QueueInOrder'
    BY <2>1, <2>2, <2>3, <1>p DEF LedgerInv, QueueInOrder, InhandInOrder, Place
  <2>6. \A b : AllBefore(b) => AllBefore(b)'
    BY <2>1, <2>2, <2>3, <1>p DEF AllBefore, Place
  <2>7. SenderInOrder'
    BY <2>1, <2>6 DEF LedgerInv, SenderInOrder, Place
  <2> QED
    BY <2>1, <2>4, <2>5, <2>7 DEF LedgerInv, InhandInOrder
<1>14. ASSUME ServerBreaks \/ ServerStopped PROVE LedgerInv'
  <2>1. UNCHANGED <<log, gpc, cur, nacc>> /\ ~Busy' /\ queue' = <<>>
    BY <1>14 DEF ServerBreaks, ServerStopped, Down, Busy
  <2>2. Len(queue') = 0
    BY <2>1, EmptySeq
  <2>3. \A b : AllBefore(b) => AllBefore(b)'
    BY <2>1, <2>2 DEF AllBefore, Place
  <2>4. SenderInOrder'
    BY <2>1, <2>3 DEF LedgerInv, SenderInOrder, Place
  <2> QED
    BY <2>1, <2>2, <2>4 DEF LedgerInv, LedgerOrder, QueueInOrder, InhandInOrder, Place
<1>15. CASE UNCHANGED vars
  <2>1. UNCHANGED <<log, queue, inhand, gpc, cur, nacc>> /\ Busy' = Busy
    BY <1>15 DEF vars, Busy
  <2> QED
    BY <2>1, SenderStays DEF LedgerInv
<1> QED
  BY <1>1, <1>2, <1>3, <1>4, <1>5, <1>6, <1>7, <1>8, <1>9, <1>10, <1>11, <1>12,
     <1>13, <1>14, <1>15
     DEF Next, AppStep, Send, Admit, Server

\* The invariant holds at the start.
LEMMA InitLedger == Init => LedgerInv
<1> SUFFICES ASSUME Init PROVE LedgerInv
  OBVIOUS
<1>1. TypeOK
  BY InitTyped
<1> QED
  BY <1>1, EmptySeq DEF Init, LedgerInv, LedgerOrder, QueueInOrder, InhandInOrder,
     SenderInOrder, AllBefore, Busy

\* The log lists gpsd's accepts in order, at most one REQUEST and then at most one
\* RESPONCE for each, however the deliveries interleave, fail and are cut short.
THEOREM LedgerIsOrdered == Spec => []LedgerInv
  BY InitLedger, TypeCorrect, LedgerInvStep, PTL DEF Spec

-----------------------------------------------------------------------------
(* The log implements RequestLedger. *)

Projected(l) == [i \in 1..Len(l) |-> [nr |-> l[i].msg.nr, type |-> l[i].msg.type]]

\* Appending a record to the log appends its entry to the ledger.
LEMMA ProjectAppend ==
  ASSUME NEW l \in Seq(Record), NEW r \in Record
  PROVE  Projected(Append(l, r)) =
           Append(Projected(l), [nr |-> r.msg.nr, type |-> r.msg.type])
<1> DEFINE k == Append(l, r)
           e == [nr |-> r.msg.nr, type |-> r.msg.type]
<1>1. /\ Len(k) = Len(l) + 1 /\ Len(l) \in Nat
      /\ \A i \in 1..Len(l) : k[i] = l[i]
      /\ k[Len(l) + 1] = r
  BY AppendElements
<1>2. DOMAIN Projected(k) = 1..(Len(l) + 1) /\ DOMAIN Projected(l) = 1..Len(l)
  BY <1>1 DEF Projected
<1>3. Projected(l) \in Seq({Projected(l)[i] : i \in 1..Len(l)}) /\ Len(Projected(l)) = Len(l)
  <2> DEFINE T == {Projected(l)[i] : i \in 1..Len(l)}
             f == Projected(l)
  <2>1. f = [i \in 1..Len(l) |-> f[i]] /\ \A i \in 1..Len(l) : f[i] \in T
    BY DEF Projected
  <2> HIDE DEF T, f
  <2>2. Len(l) \in Nat
    BY <1>1
  <2>3. f \in [1..Len(l) -> T]
    BY <2>1
  <2>4. f \in Seq(T) /\ Len(f) = Len(l)
    BY <2>2, <2>3
  <2> QED BY <2>4 DEF T, f
<1>4. \A i \in 1..(Len(l) + 1) : Projected(k)[i] = Append(Projected(l), e)[i]
  <2> SUFFICES ASSUME NEW i \in 1..(Len(l) + 1)
               PROVE  Projected(k)[i] = Append(Projected(l), e)[i]
    OBVIOUS
  <2>1. CASE i = Len(l) + 1
    BY <1>1, <1>3, <2>1 DEF Projected
  <2>2. CASE i \in 1..Len(l)
    BY <1>1, <1>3, <2>2 DEF Projected
  <2>3. i = Len(l) + 1 \/ i \in 1..Len(l)
    <3>1. Len(l) \in Nat
      BY <1>1
    <3> QED
      BY <3>1
  <2> QED
    BY <2>1, <2>2, <2>3
<1>5. Append(Projected(l), e) = [i \in 1..(Len(l) + 1) |-> Append(Projected(l), e)[i]]
  BY <1>3
<1>6. Projected(k) = [i \in 1..(Len(l) + 1) |-> Projected(k)[i]]
  BY <1>1 DEF Projected
<1> QED
  BY <1>4, <1>5, <1>6

\* Comparing places compares numbers of accepts first and types second.
LEMMA Lexicographic ==
  ASSUME NEW a \in Nat, NEW s \in {0, 1}, NEW b \in Nat, NEW t \in {0, 1},
         2 * a + s < 2 * b + t
  PROVE  a < b \/ (a = b /\ s < t)
OBVIOUS

\* The detailed protocol implements the promise made to the log's readers: every
\* step adds the next entry of the ledger or leaves the ledger alone.
THEOREM ImplementsLedger == Spec => LedgerSpec
<1>1. Init => Ledger!Init
  BY EmptySeq DEF Init, Ledger!Init
<1>2. LedgerInv /\ TypeOK' /\ [Next]_vars => [Ledger!Next]_(Projected(log))
  <2> SUFFICES ASSUME LedgerInv, TypeOK', [Next]_vars
               PROVE  Ledger!Next \/ Projected(log)' = Projected(log)
    OBVIOUS
  <2>1. CASE log' = log
    BY <2>1 DEF Projected
  <2>2. CASE ServerSaves
    <3> DEFINE r == [msg |-> inhand, name |-> pname]
               e == [nr |-> inhand.nr, type |-> inhand.type]
    <3>1. inhand \in Message /\ r \in Record /\ r.msg = inhand /\ Busy /\ log \in Seq(Record)
      BY <2>2 DEF ServerSaves, LedgerInv, TypeOK, Record, Busy
    <3>2. e \in Ledger!Entry
      BY <3>1 DEF Message, Ledger!Entry, REQUEST, RESPONCE, Ledger!REQUEST, Ledger!RESPONCE
    <3>3. Len(Projected(log)) = Len(log) /\ Len(log) \in Nat
      BY <3>1 DEF Projected
    <3>4. \A i \in 1..Len(log) : Ledger!Earlier(Projected(log)[i], e)
      <4> SUFFICES ASSUME NEW i \in 1..Len(log) PROVE Ledger!Earlier(Projected(log)[i], e)
        OBVIOUS
      <4>1. Place(log[i].msg) < Place(inhand)
        BY <3>1 DEF LedgerInv, InhandInOrder
      <4>2. log[i] \in Record
        BY <3>1
      <4>3. log[i].msg \in Message
        BY <4>2 DEF Record
      <4>4. log[i].msg.nr < inhand.nr \/ (log[i].msg.nr = inhand.nr /\ log[i].msg.type < inhand.type)
        <5>1. /\ log[i].msg.nr \in Nat /\ log[i].msg.type \in {0, 1}
              /\ inhand.nr \in Nat /\ inhand.type \in {0, 1}
          BY <3>1, <4>3, LimitsAreNumbers DEF Message, REQUEST, RESPONCE
        <5>2. 2 * log[i].msg.nr + log[i].msg.type < 2 * inhand.nr + inhand.type
          BY <4>1 DEF Place
        <5> QED
          BY <5>1, <5>2, Lexicographic
      <4> QED
        BY <4>4 DEF Projected, Ledger!Earlier
    <3>5. Projected(log)' = Append(Projected(log), e)
      <4>1. log' = Append(log, r)
        BY <2>2 DEF ServerSaves
      <4>2. Projected(Append(log, r)) = Append(Projected(log), [nr |-> r.msg.nr, type |-> r.msg.type])
        BY <3>1, ProjectAppend
      <4> QED
        BY <3>1, <4>1, <4>2 DEF Projected
    <3> HIDE DEF e
    <3>6. Ledger!Next
      BY <3>2, <3>3, <3>4, <3>5 DEF Ledger!Next, Ledger!Record, Projected
    <3> QED
      BY <3>6
  <2>3. log' = log \/ ServerSaves
    BY DEF Next, vars, AppStep, AppConnect, AppClose, Accept, AcceptOk, AcceptFails, Send,
           SendFails, SendTimesOut, SendConnects, SendWrites, Admit, AdmitNoSlot, AdmitOptFails,
           AdmitAnnounce, Hangup, Expel, DetachClient, GpsdDies, Boot, Server,
           ServerAccepts, ServerReceives, ServerLooksUp, ServerBreaks, ServerStopped,
           serverVars
  <2> QED
    BY <2>1, <2>2, <2>3
<1>3. LedgerInv /\ TypeOK' /\ [Next]_vars => LedgerInv'
  BY LedgerInvStep
<1>4. Init => LedgerInv
  BY InitLedger
<1> QED
  BY <1>1, <1>2, <1>3, <1>4, TypeCorrect, PTL DEF Spec, LedgerSpec, Ledger!Spec, Projected

-----------------------------------------------------------------------------
(* The end of the server. *)

\* With the kind of end in the state, the invariant is inductive as it stands: a
\* message that broke the server was cut short, and no cut is forgotten.
LEMMA EndStep == TypeOK /\ ServerEndsForAReason /\ [Next]_vars => ServerEndsForAReason'
<1> SUFFICES ASSUME TypeOK, ServerEndsForAReason, [Next]_vars PROVE ServerEndsForAReason'
  OBVIOUS
<1> USE DEF gpsdVars, serverVars, appVars
<1>m. NoMessage \notin Message
  BY DEF NoMessage, Message
<1>1. CASE GpsdDies
  <2>1. UNCHANGED <<spc, stopped>> /\ cut' = IF gpc = "write" THEN cur ELSE cut
    BY <1>1 DEF GpsdDies
  <2>2. gpc = "write" => cur \in Message
    BY DEF TypeOK
  <2> QED
    BY <2>1, <2>2, <1>m DEF ServerEndsForAReason
<1>2. CASE ServerBreaks
  <2>1. inhand \in Message /\ inhand = cut /\ cut' = cut
    BY <1>2 DEF ServerBreaks, TypeOK
  <2> QED
    BY <2>1, <1>m DEF ServerEndsForAReason
<1>3. ASSUME UNCHANGED <<spc, stopped, cut>> PROVE ServerEndsForAReason'
  BY <1>3 DEF ServerEndsForAReason
<1>4. ASSUME Boot \/ ServerStopped PROVE ServerEndsForAReason'
  BY <1>4 DEF Boot, ServerStopped, ServerEndsForAReason
<1>5. ASSUME ServerAccepts \/ ServerReceives \/ ServerLooksUp \/ ServerSaves
      PROVE  ServerEndsForAReason'
  BY <1>5 DEF ServerAccepts, ServerReceives, ServerLooksUp, ServerSaves, ServerEndsForAReason
<1>6. \/ UNCHANGED <<spc, stopped, cut>>
      \/ GpsdDies \/ ServerBreaks \/ Boot \/ ServerStopped
      \/ ServerAccepts \/ ServerReceives \/ ServerLooksUp \/ ServerSaves
  BY DEF Next, vars, AppStep, AppConnect, AppClose, Accept, AcceptOk, AcceptFails, Send,
         SendFails, SendTimesOut, SendConnects, SendWrites, Admit, AdmitNoSlot,
         AdmitOptFails, AdmitAnnounce, Hangup, Expel, DetachClient, Server
<1> QED
  BY <1>1, <1>2, <1>3, <1>4, <1>5, <1>6

\* The server ends only when it is stopped from outside or handed a connection
\* on which gpsd died: no order of messages makes it fail.
THEOREM ServerEndsForReason == Spec => []ServerEndsForAReason
<1>1. Init => ServerEndsForAReason
  BY DEF Init, ServerEndsForAReason
<1> QED
  BY <1>1, EndStep, TypeCorrect, PTL DEF Spec

-----------------------------------------------------------------------------
(* Who the log says owns a port. *)

\* A message names the connection it is about by the port the kernel gave it.
TellsItsPort(m) == m.id # 0 => m.id \in 1..Len(conns) /\ m.port = conns[m.id].port

\* So does every message on its way, and gpsd still has the port of the
\* connection it is admitting.
PortsAreTold ==
  /\ TellsItsPort(cur) /\ TellsItsPort(inhand)
  /\ \A j \in 1..Len(queue) : TellsItsPort(queue[j])
  /\ \A i \in 1..Len(log) : TellsItsPort(log[i].msg)
  /\ ssock # 0 => fsin = conns[ssock].port

\* A connection that is still open was the last to be given its port.
OpenIsNewest ==
  \A j \in appOpen, i \in 1..Len(conns) : i > j => conns[i].port # conns[j].port

\* What the two parts of NamesAreRight say of one record.
RightName(m, name) ==
  /\ m.id \in appOpen => name = conns[m.id].app
  /\ m.id # 0 /\ name \in App \ {conns[m.id].app} =>
       \E j \in (m.id + 1)..Len(conns) : conns[j] = [app |-> name, port |-> conns[m.id].port]

\* The name looked up is still right when it is saved, whatever happened between.
PnameIsRight == spc = "save" => RightName(inhand, pname)

NamesInv == PortsAreTold /\ OpenIsNewest /\ PnameIsRight /\ NamesAreRight

\* NamesAreRight, record by record.
LEMMA NamesByRecord ==
  NamesAreRight <=> \A i \in 1..Len(log) : RightName(log[i].msg, log[i].name)
BY DEF NamesAreRight, LiveClientIsNamed, WrongNameNeedsReuse, RightName

\* A name that lsof gives for the port of a connection is right for it.
LEMMA LookupIsRight ==
  ASSUME TypeOK, OpenIsNewest, NEW m \in Message, TellsItsPort(m),
         NEW n \in ProcessNames(m.port)
  PROVE  RightName(m, n)
<1> DEFINE apps == {conns[i].app : i \in {j \in appOpen : conns[j].port = m.port}}
<1>n. Gpsd \notin App /\ NoName \notin App /\ Len(conns) \in Nat /\ appOpen \subseteq 1..Len(conns)
  BY NamesDiffer DEF TypeOK
<1>1. Owners(m.port) \subseteq apps \cup {Gpsd} /\ apps \subseteq Owners(m.port)
  BY DEF Owners
<1>2. n \in Owners(m.port) \/ n = NoName
  BY DEF ProcessNames
<1>3. ASSUME m.id # 0, n \in App, n # conns[m.id].app
      PROVE  \E j \in (m.id + 1)..Len(conns) : conns[j] = [app |-> n, port |-> conns[m.id].port]
  <2>1. n \in apps
    BY <1>n, <1>1, <1>2, <1>3
  <2>2. PICK j \in appOpen : conns[j].port = m.port /\ conns[j].app = n
    BY <2>1
  <2>3. m.id \in 1..Len(conns) /\ m.port = conns[m.id].port /\ j \in 1..Len(conns)
    BY <1>3, <1>n DEF TellsItsPort
  <2>4. ~(m.id > j) /\ m.id # j
    BY <2>2, <2>3, <1>3 DEF OpenIsNewest
  <2>5. j \in (m.id + 1)..Len(conns)
    BY <2>3, <2>4, <1>n
  <2>6. conns[j] \in Conn
    BY <2>3 DEF TypeOK
  <2>7. conns[j] = [app |-> n, port |-> conns[m.id].port]
    BY <2>2, <2>3, <2>6 DEF Conn
  <2> QED
    BY <2>5, <2>7
<1>4. ASSUME m.id \in appOpen PROVE n = conns[m.id].app
  <2> DEFINE a == conns[m.id].app
  <2>1. m.id \in 1..Len(conns) /\ m.port = conns[m.id].port /\ a \in App
    BY <1>4, <1>n, ConnFields DEF TellsItsPort
  <2>2. \A j \in appOpen : conns[j].port = m.port => j = m.id
    BY <2>1, <1>4, <1>n DEF OpenIsNewest
  <2>3. apps = {a}
    BY <2>1, <2>2, <1>4
  <2>4. CASE Owners(m.port) = {a}
    <3>1. Cardinality(Owners(m.port)) = 1
      BY <2>4, FS_Singleton
    <3> QED
      BY <2>4, <3>1 DEF ProcessNames
  <2>5. CASE Owners(m.port) = {a, Gpsd}
    <3>1. Cardinality({a, Gpsd}) = 2
      <4>1. IsFiniteSet({a}) /\ Cardinality({a}) = 1
        BY FS_Singleton
      <4>2. Gpsd \notin {a} /\ {a, Gpsd} = {a} \cup {Gpsd}
        BY <2>1, <1>n
      <4> QED
        BY SMTT(20), <4>1, <4>2, FS_AddElement
    <3>2. ProcessNames(m.port) = {a, Gpsd} \ {Gpsd}
      BY <2>5, <3>1 DEF ProcessNames
    <3> QED
      BY <3>2
  <2>6. Owners(m.port) = {a} \/ Owners(m.port) = {a, Gpsd}
    BY <2>3, <1>1
  <2> QED
    BY <2>4, <2>5, <2>6
<1> QED
  BY <1>3, <1>4 DEF RightName

\* A step of gpsd keeps the names right, as far as it moves no message.
LEMMA NamesUnmoved ==
  ASSUME NamesInv, UNCHANGED <<conns, appOpen, spc, inhand, pname, log>>
  PROVE  /\ OpenIsNewest' /\ PnameIsRight' /\ NamesAreRight' /\ TellsItsPort(inhand)'
         /\ \A i \in 1..Len(log') : TellsItsPort(log[i].msg)'
<1>1. OpenIsNewest' /\ PnameIsRight' /\ TellsItsPort(inhand)'
  BY DEF NamesInv, PortsAreTold, OpenIsNewest, PnameIsRight, RightName, TellsItsPort
<1>2. NamesAreRight'
  BY DEF NamesInv, NamesAreRight, LiveClientIsNamed, WrongNameNeedsReuse
<1>3. \A i \in 1..Len(log') : TellsItsPort(log[i].msg)'
  BY DEF NamesInv, PortsAreTold, TellsItsPort
<1> QED
  BY <1>1, <1>2, <1>3

\* The names stay right: one step per action.
LEMMA NamesStep == TypeOK /\ NamesInv /\ TypeOK' /\ [Next]_vars => NamesInv'
<1> SUFFICES ASSUME TypeOK, NamesInv, TypeOK', [Next]_vars PROVE NamesInv'
  OBVIOUS
<1> USE DEF gpsdVars, serverVars, appVars
<1>t. /\ Len(conns) \in Nat /\ Len(queue) \in Nat /\ Len(log) \in Nat
      /\ appOpen \subseteq 1..Len(conns) /\ ssock \in 0..Len(conns)
  BY SMTT(20) DEF TypeOK
<1>1. ASSUME NEW a \in App, NEW p \in Port, AppConnect(a, p) PROVE NamesInv'
  <2> DEFINE c == [app |-> a, port |-> p]
             new == Len(conns) + 1
  <2>1. /\ conns' = Append(conns, c) /\ appOpen' = appOpen \cup {new}
        /\ \A i \in appOpen : conns[i].port # p
        /\ UNCHANGED <<cur, inhand, queue, log, ssock, fsin, spc, pname>>
    BY <1>1 DEF AppConnect
  <2>2. /\ Len(conns') = new /\ \A i \in 1..Len(conns) : conns'[i] = conns[i]
        /\ conns'[new].port = p
    <3>1. c \in Conn /\ conns \in Seq(Conn)
      BY DEF Conn, TypeOK
    <3> QED
      BY <2>1, <3>1, AppendElements
  <2> HIDE DEF c
  <2>3. ASSUME NEW m, TellsItsPort(m)
        PROVE  m.id # 0 => m.id \in 1..Len(conns') /\ m.port = conns'[m.id].port
    BY <2>2, <2>3, <1>t DEF TellsItsPort
  <2>4. PortsAreTold'
    <3>1. ssock # 0 => ssock \in 1..Len(conns)
      BY <1>t
    <3>2. \A i \in 1..Len(log) : TellsItsPort(log[i].msg)
      BY DEF NamesInv, PortsAreTold
    <3>3. \A j \in 1..Len(queue) : TellsItsPort(queue[j])
      BY DEF NamesInv, PortsAreTold
    <3>4. TellsItsPort(cur)' /\ TellsItsPort(inhand)'
      BY <2>1, <2>3 DEF NamesInv, PortsAreTold, TellsItsPort
    <3>5. \A i \in 1..Len(log') : TellsItsPort(log[i].msg)'
      BY <2>1, <2>3, <3>2 DEF TellsItsPort
    <3>6. \A j \in 1..Len(queue') : TellsItsPort(queue[j])'
      BY <2>1, <2>3, <3>3 DEF TellsItsPort
    <3>7. ssock' # 0 => fsin' = conns'[ssock'].port
      BY <2>1, <2>2, <3>1 DEF NamesInv, PortsAreTold
    <3> QED
      BY <3>4, <3>5, <3>6, <3>7 DEF PortsAreTold
  <2>5. OpenIsNewest'
    <3> SUFFICES ASSUME NEW j \in appOpen', NEW i \in 1..Len(conns'), i > j
                 PROVE  conns'[i].port # conns'[j].port
      BY DEF OpenIsNewest
    <3>1. j \in appOpen /\ j \in 1..Len(conns)
      BY <2>1, <2>2, <1>t
    <3>2. CASE i = new
      BY <2>1, <2>2, <3>1, <3>2
    <3>3. CASE i \in 1..Len(conns)
      BY <2>2, <3>1, <3>3 DEF NamesInv, OpenIsNewest
    <3> QED
      BY <2>2, <3>2, <3>3, <1>t
  <2>6. ASSUME NEW m, NEW n, TellsItsPort(m), RightName(m, n)
        PROVE  /\ m.id \in appOpen' => n = conns'[m.id].app
               /\ m.id # 0 /\ n \in App \ {conns'[m.id].app} =>
                    \E j \in (m.id + 1)..Len(conns') :
                       conns'[j] = [app |-> n, port |-> conns'[m.id].port]
    <3>1. CASE m.id = 0
      <4>1. m.id \notin appOpen'
        BY <3>1, <2>1, <1>t
      <4> QED
        BY <3>1, <4>1
    <3>2. CASE m.id # 0
      <4>1. m.id \in 1..Len(conns) /\ conns'[m.id] = conns[m.id]
        BY <2>2, <2>6, <3>2 DEF TellsItsPort
      <4>2. m.id \in appOpen' => n = conns'[m.id].app
        BY <2>1, <2>6, <4>1, <1>t DEF RightName
      <4>3. ASSUME n \in App \ {conns'[m.id].app}
            PROVE  \E j \in (m.id + 1)..Len(conns') :
                      conns'[j] = [app |-> n, port |-> conns'[m.id].port]
        <5>1. PICK j \in (m.id + 1)..Len(conns) : conns[j] = [app |-> n, port |-> conns[m.id].port]
          BY <2>6, <3>2, <4>1, <4>3 DEF RightName
        <5>2. j \in (m.id + 1)..Len(conns') /\ conns'[j] = conns[j]
          BY <2>2, <4>1, <1>t
        <5> QED
          BY <4>1, <5>1, <5>2
      <4> QED
        BY <4>2, <4>3
    <3> QED
      BY <3>1, <3>2
  <2>7. PnameIsRight'
    <3>1. spc = "save" => TellsItsPort(inhand) /\ RightName(inhand, pname)
      BY DEF NamesInv, PortsAreTold, PnameIsRight
    <3> QED
      BY ZenonT(30), <2>1, <2>6, <3>1 DEF PnameIsRight, RightName
  <2>8. NamesAreRight'
    <3>1. \A i \in 1..Len(log) : TellsItsPort(log[i].msg) /\ RightName(log[i].msg, log[i].name)
      BY NamesByRecord DEF NamesInv, PortsAreTold
    <3> QED
      BY ZenonT(30), <2>1, <2>6, <3>1 DEF NamesAreRight, LiveClientIsNamed, WrongNameNeedsReuse
  <2> QED
    BY <2>4, <2>5, <2>7, <2>8 DEF NamesInv
<1>2. ASSUME NEW i \in ConnId, AppClose(i) PROVE NamesInv'
  <2>1. /\ appOpen' \subseteq appOpen
        /\ UNCHANGED <<conns, cur, inhand, queue, log, ssock, fsin, spc, pname>>
    BY <1>2 DEF AppClose
  <2>2. PortsAreTold' /\ OpenIsNewest'
    BY <2>1 DEF NamesInv, PortsAreTold, OpenIsNewest, TellsItsPort
  <2>3. PnameIsRight'
    BY <2>1 DEF NamesInv, PnameIsRight, RightName
  <2>4. NamesAreRight'
    BY <2>1 DEF NamesInv, NamesAreRight, LiveClientIsNamed, WrongNameNeedsReuse
  <2> QED
    BY <2>2, <2>3, <2>4 DEF NamesInv
<1>3. CASE AcceptOk
  <2>1. /\ UNCHANGED <<conns, appOpen, spc, inhand, pname, log, queue>>
        /\ ssock' = Head(listenq) /\ fsin' = conns[Head(listenq)].port
        /\ cur'.id = Head(listenq) /\ cur'.port = conns[Head(listenq)].port
        /\ listenq # <<>>
    BY <1>3 DEF AcceptOk, Sending
  <2>2. Head(listenq) \in 1..Len(conns)
    BY <2>1, HeadTail DEF TypeOK
  <2>3. TellsItsPort(cur)' /\ (ssock' # 0 => fsin' = conns'[ssock'].port)
    BY <2>1, <2>2 DEF TellsItsPort
  <2>4. \A j \in 1..Len(queue') : TellsItsPort(queue[j])'
    BY <2>1 DEF NamesInv, PortsAreTold, TellsItsPort
  <2> QED
    BY <2>1, <2>3, <2>4, NamesUnmoved DEF NamesInv, PortsAreTold
<1>4. ASSUME AcceptFails PROVE NamesInv'
  <2>1. /\ UNCHANGED <<conns, appOpen, spc, inhand, pname, log, queue>>
        /\ ssock' = 0 /\ cur'.id = 0
    BY <1>4 DEF AcceptFails, Sending
  <2>2. TellsItsPort(cur)'
    BY <2>1 DEF TellsItsPort
  <2>3. \A j \in 1..Len(queue') : TellsItsPort(queue[j])'
    BY <2>1 DEF NamesInv, PortsAreTold, TellsItsPort
  <2> QED
    BY <2>1, <2>2, <2>3, NamesUnmoved DEF NamesInv, PortsAreTold
<1>5. CASE SendConnects
  <2>1. /\ UNCHANGED <<conns, appOpen, spc, inhand, pname, log, cur, ssock, fsin>>
        /\ queue' = Append(queue, cur) /\ cur \in Message /\ queue \in Seq(Message)
    BY <1>5 DEF SendConnects, TypeOK
  <2>2. /\ Len(queue') = Len(queue) + 1 /\ queue'[Len(queue) + 1] = cur
        /\ \A j \in 1..Len(queue) : queue'[j] = queue[j]
    BY <2>1, AppendElements
  <2>3. \A j \in 1..Len(queue') : j \in 1..Len(queue) \/ j = Len(queue) + 1
    BY <2>2, <1>t
  <2>4. \A j \in 1..Len(queue') : TellsItsPort(queue[j])'
    BY <2>1, <2>2, <2>3 DEF NamesInv, PortsAreTold, TellsItsPort
  <2>5. TellsItsPort(cur)' /\ (ssock' # 0 => fsin' = conns'[ssock'].port)
    BY <2>1 DEF NamesInv, PortsAreTold, TellsItsPort
  <2> QED
    BY <2>1, <2>4, <2>5, NamesUnmoved DEF NamesInv, PortsAreTold
<1>6. CASE AdmitAnnounce
  <2>1. /\ UNCHANGED <<conns, appOpen, spc, inhand, pname, log, queue>>
        /\ ssock' = 0 /\ cur'.id = ssock /\ cur'.port = fsin
    BY <1>6 DEF AdmitAnnounce, Sending
  <2>2. TellsItsPort(cur)'
    <3>1. ssock # 0 => ssock \in 1..Len(conns)
      BY <1>t
    <3> QED
      BY <2>1, <3>1 DEF NamesInv, PortsAreTold, TellsItsPort
  <2>3. \A j \in 1..Len(queue') : TellsItsPort(queue[j])'
    BY <2>1 DEF NamesInv, PortsAreTold, TellsItsPort
  <2> QED
    BY <2>1, <2>2, <2>3, NamesUnmoved DEF NamesInv, PortsAreTold
<1>7. ASSUME \/ SendFails \/ SendTimesOut \/ SendWrites \/ AdmitNoSlot \/ AdmitOptFails
             \/ GpsdDies \/ (\E i \in ConnId : Hangup(i) \/ Expel(i))
             \/ Boot \/ UNCHANGED vars
      PROVE  NamesInv'
  <2>1. UNCHANGED <<conns, appOpen, inhand, pname, log, queue, cur, fsin>>
    BY <1>7 DEF SendFails, SendTimesOut, SendWrites, AdmitNoSlot, AdmitOptFails, GpsdDies,
                Hangup, Expel, DetachClient, Boot, vars
  <2>2. ssock' \in {0, ssock} /\ (UNCHANGED spc \/ spc' # "save")
    BY <1>7 DEF SendFails, SendTimesOut, SendWrites, AdmitNoSlot, AdmitOptFails, GpsdDies,
                Hangup, Expel, DetachClient, Boot, vars
  <2>3. PortsAreTold'
    BY <2>1, <2>2 DEF NamesInv, PortsAreTold, TellsItsPort
  <2>4. OpenIsNewest' /\ PnameIsRight'
    BY <2>1, <2>2 DEF NamesInv, OpenIsNewest, PnameIsRight, RightName
  <2>5. NamesAreRight'
    BY <2>1 DEF NamesInv, NamesAreRight, LiveClientIsNamed, WrongNameNeedsReuse
  <2> QED
    BY <2>3, <2>4, <2>5 DEF NamesInv
<1>8. ASSUME \/ ServerAccepts \/ ServerReceives \/ ServerBreaks \/ ServerStopped
      PROVE  NamesInv'
  <2>1. /\ UNCHANGED <<conns, appOpen, pname, log, cur, ssock, fsin>>
        /\ spc' # "save"
    BY <1>8 DEF ServerAccepts, ServerReceives, ServerBreaks, ServerStopped, Down
  <2>2. TellsItsPort(inhand)' /\ \A j \in 1..Len(queue') : TellsItsPort(queue[j])'
    <3>1. CASE ServerAccepts
      <4>1. queue # <<>> /\ inhand' = Head(queue) /\ queue' = Tail(queue)
        BY <3>1 DEF ServerAccepts
      <4>2. /\ inhand' = queue[1] /\ 1 \in 1..Len(queue)
            /\ \A j \in 1..Len(queue') : queue'[j] = queue[j + 1] /\ j + 1 \in 1..Len(queue)
        BY SMTT(20), <4>1, HeadTail, <1>t DEF TypeOK
      <4> QED
        BY <4>2, <2>1 DEF NamesInv, PortsAreTold, TellsItsPort
    <3>2. CASE ServerReceives
      BY <3>2, <2>1 DEF ServerReceives, NamesInv, PortsAreTold, TellsItsPort
    <3>3. CASE ServerBreaks \/ ServerStopped
      <4>1. UNCHANGED inhand /\ Len(queue') = 0
        BY <3>3, EmptySeq DEF ServerBreaks, ServerStopped, Down
      <4> QED
        BY <4>1, <2>1 DEF NamesInv, PortsAreTold, TellsItsPort
    <3> QED
      BY <1>8, <3>1, <3>2, <3>3
  <2>3. PortsAreTold' /\ OpenIsNewest' /\ PnameIsRight'
    BY <2>1, <2>2 DEF NamesInv, PortsAreTold, OpenIsNewest, PnameIsRight, TellsItsPort
  <2>4. NamesAreRight'
    BY <2>1 DEF NamesInv, NamesAreRight, LiveClientIsNamed, WrongNameNeedsReuse
  <2> QED
    BY <2>3, <2>4 DEF NamesInv
<1>9. CASE ServerLooksUp
  <2>1. /\ UNCHANGED <<conns, appOpen, inhand, log, queue, cur, ssock, fsin>>
        /\ pname' \in ProcessNames(inhand.port) /\ inhand \in Message
    BY <1>9 DEF ServerLooksUp, TypeOK
  <2>2. RightName(inhand, pname')
    BY <2>1, LookupIsRight DEF NamesInv, PortsAreTold
  <2>3. PnameIsRight'
    BY <2>1, <2>2 DEF PnameIsRight, RightName
  <2>4. PortsAreTold' /\ OpenIsNewest'
    BY <2>1 DEF NamesInv, PortsAreTold, OpenIsNewest, TellsItsPort
  <2>5. NamesAreRight'
    BY <2>1 DEF NamesInv, NamesAreRight, LiveClientIsNamed, WrongNameNeedsReuse
  <2> QED
    BY <2>3, <2>4, <2>5 DEF NamesInv
<1>10. CASE ServerSaves
  <2> DEFINE r == [msg |-> inhand, name |-> pname]
  <2>1. /\ UNCHANGED <<conns, appOpen, inhand, queue, cur, ssock, fsin>>
        /\ log' = Append(log, r) /\ spc = "save" /\ spc' # "save"
        /\ log \in Seq(Record) /\ r \in Record
    BY <1>10 DEF ServerSaves, TypeOK, Record
  <2>2. /\ Len(log') = Len(log) + 1 /\ \A i \in 1..Len(log) : log'[i] = log[i]
        /\ log'[Len(log) + 1].msg = inhand /\ log'[Len(log) + 1].name = pname
    BY <2>1, AppendElements
  <2>3. \A i \in 1..Len(log') : i \in 1..Len(log) \/ i = Len(log) + 1
    BY <2>2, <1>t
  <2>4. \A i \in 1..Len(log') : TellsItsPort(log'[i].msg) /\ RightName(log'[i].msg, log'[i].name)
    <3>1. TellsItsPort(inhand) /\ RightName(inhand, pname)
      BY <2>1 DEF NamesInv, PortsAreTold, PnameIsRight
    <3>2. \A i \in 1..Len(log) : TellsItsPort(log[i].msg) /\ RightName(log[i].msg, log[i].name)
      BY NamesByRecord DEF NamesInv, PortsAreTold
    <3> QED
      BY <3>1, <3>2, <2>2, <2>3
  <2>5. PortsAreTold'
    BY <2>1, <2>4 DEF NamesInv, PortsAreTold, TellsItsPort
  <2>6. NamesAreRight'
    BY <2>1, <2>4 DEF NamesAreRight, LiveClientIsNamed, WrongNameNeedsReuse, RightName
  <2> QED
    BY <2>1, <2>5, <2>6 DEF NamesInv, OpenIsNewest, PnameIsRight
<1> QED
  BY <1>1, <1>2, <1>3, <1>4, <1>5, <1>6, <1>7, <1>8, <1>9, <1>10
     DEF Next, AppStep, Accept, Send, Admit, Server

\* A record that names another application than the client's is one of a port that
\* was given away after the client; as long as the client is there, it names the client.
THEOREM NamesRight == Spec => []NamesAreRight
<1>1. Init => NamesInv
  <2> SUFFICES ASSUME Init PROVE NamesInv
    OBVIOUS
  <2>1. TellsItsPort(NoMessage)
    BY DEF TellsItsPort, NoMessage
  <2> QED
    BY <2>1, EmptySeq DEF Init, NamesInv, PortsAreTold, OpenIsNewest, PnameIsRight,
       NamesAreRight, LiveClientIsNamed, WrongNameNeedsReuse
<1>2. NamesInv => NamesAreRight
  BY DEF NamesInv
<1> QED
  BY <1>1, <1>2, NamesStep, TypeCorrect, PTL DEF Spec

=============================================================================
