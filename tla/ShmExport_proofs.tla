--------------------------- MODULE ShmExport_proofs ---------------------------
(***************************************************************************)
(* Proofs about ShmExport, for all words, clients and bounds.              *)
(***************************************************************************)
EXTENDS ShmExport, TLAPS

USE ConstantsAssumption

-----------------------------------------------------------------------------
(* Types. *)

LEMMA IdleTyped == Zero \in Stamp /\ Idle \in Client
<1>1. Zero \in Stamp BY DEF Zero, Stamp
<1>2. [w \in Words |-> Zero] \in [Words -> Value] BY <1>1 DEF Value
<1> QED BY <1>1, <1>2 DEF Idle, Client

LEMMA TypeInit == Init => TypeOK
<1>1. [w \in Words |-> Zero] \in [Words -> Value] BY IdleTyped DEF Value
<1>2. SUFFICES ASSUME Init PROVE TypeOK
      OBVIOUS
<1>3. [r \in Readers |-> Idle] \in [Readers -> Client] BY IdleTyped
<1>4. reader \in [Readers -> Client] BY <1>2, <1>3 DEF Init
<1>5. data \in [Words -> Value] BY <1>1, <1>2 DEF Init
<1>6. starts \in 0..MaxStarts /\ tick \in 0..MaxTick BY <1>2 DEF Init
<1>7. up \in BOOLEAN /\ exports \in BOOLEAN /\ exists \in BOOLEAN BY <1>2 DEF Init
<1>8. step \in {"idle", "bookend2", "data", "bookend1", "return"} /\ todo \in SUBSET Words
      BY <1>2 DEF Init
<1>9. bookend1 \in Stamp /\ bookend2 \in Stamp BY <1>2, IdleTyped DEF Init
<1> QED BY <1>4, <1>5, <1>6, <1>7, <1>8, <1>9 DEF TypeOK

LEMMA DaemonTyped == TypeOK /\ (Boot \/ Ends \/ StartUpdate \/ Update) => TypeOK'
<1> SUFFICES ASSUME TypeOK, Boot \/ Ends \/ StartUpdate \/ Update PROVE TypeOK'
    OBVIOUS
<1> USE DEF TypeOK
<1>1. CASE Boot BY <1>1 DEF Boot
<1>2. CASE Ends BY <1>2 DEF Ends, segmentVars
<1>3. CASE StartUpdate BY <1>3 DEF StartUpdate, segmentVars
<1>4. CASE WriteBookend2 BY <1>4 DEF WriteBookend2, Now, Stamp
<1>5. ASSUME NEW w \in Words, CopyIn(w) PROVE TypeOK'
      BY <1>5 DEF CopyIn, Now, Stamp, Value
<1>6. CASE HideFd BY <1>6 DEF HideFd, Value
<1>7. CASE WriteBookend1 BY <1>7 DEF WriteBookend1, Now, Stamp
<1>8. CASE EndUpdate BY <1>8 DEF EndUpdate, segmentVars
<1> QED BY <1>1, <1>2, <1>3, <1>4, <1>5, <1>6, <1>7, <1>8 DEF Update

\* A step of a client replaces its own record by another one of the type.
LEMMA OneClientTyped ==
  ASSUME TypeOK, NEW r \in Readers, NEW c \in Client,
         reader' = [reader EXCEPT ![r] = c], UNCHANGED <<daemonVars, segmentVars>>
  PROVE  TypeOK'
BY DEF TypeOK, daemonVars, segmentVars

LEMMA ClientTyped ==
  ASSUME TypeOK, NEW r \in Readers, Open(r) \/ Read(r) \/ Close(r)
  PROVE  TypeOK'
<1> DEFINE c == reader[r]
<1>0. c \in Client BY DEF TypeOK
<1>1. CASE Open(r)
  <2>1. [c EXCEPT !.link = "shm", !.got = {}] \in Client BY <1>0 DEF Client
  <2> QED BY ZenonT(30), <2>1, <1>1, OneClientTyped DEF Open
<1>2. CASE BeginRead(r)
  <2>1. [c EXCEPT !.pc = "before", !.left = Words] \in Client BY <1>0 DEF Client
  <2> QED BY <2>1, <1>2, OneClientTyped DEF BeginRead
<1>3. CASE ReadBefore(r)
  <2>1. [c EXCEPT !.pc = "data", !.before = bookend1] \in Client BY <1>0 DEF Client, TypeOK
  <2> QED BY ZenonT(30), <2>1, <1>3, OneClientTyped DEF ReadBefore
<1>4. ASSUME NEW w \in Words, CopyOut(r, w) PROVE TypeOK'
  <2>1. [c EXCEPT !.copy[w] = data[w], !.left = @ \ {w}] \in Client
        BY <1>0 DEF Client, TypeOK
  <2> QED BY <2>1, <1>4, OneClientTyped DEF CopyOut
<1>5. CASE ReadAfter(r)
  <2>1. [c EXCEPT !.pc = "compare", !.after = bookend2] \in Client BY <1>0 DEF Client, TypeOK
  <2> QED BY ZenonT(30), <2>1, <1>5, OneClientTyped DEF ReadAfter
<1>6. CASE Compare(r)
  <2>1. [before |-> c.before, after |-> c.after, copy |-> c.copy] \in Reading
        BY <1>0 DEF Client, Reading
  <2>2. [c EXCEPT !.pc = "idle"] \in Client BY <1>0 DEF Client
  <2>3. \A x \in {"shm", "socket"} :
          [c EXCEPT !.pc = "idle",
                    !.got = {[before |-> c.before, after |-> c.after, copy |-> c.copy]},
                    !.link = x] \in Client
        BY <1>0, <2>1 DEF Client
  <2> QED BY <2>2, <2>3, <1>6, OneClientTyped DEF Compare
<1>7. CASE Close(r)
  <2> QED BY <1>7, IdleTyped, OneClientTyped DEF Close
<1> QED BY <1>1, <1>2, <1>3, <1>4, <1>5, <1>6, <1>7 DEF Read

LEMMA TypeStep == TypeOK /\ [Next]_vars => TypeOK'
<1>1. TypeOK /\ UNCHANGED vars => TypeOK' BY DEF TypeOK, vars
<1> QED BY <1>1, DaemonTyped, ClientTyped DEF Next

\* Every variable stays in its domain, whatever the words, the clients and the bounds.
THEOREM TypeCorrect == Spec => []TypeOK
BY TypeInit, TypeStep, PTL DEF Spec

-----------------------------------------------------------------------------
(* Reports are whole.                                                      *)
(*                                                                         *)
(* The bookend written first tells a report under way from all that were   *)
(* read before (Fresh); while it differs from the other one the data may   *)
(* be in pieces, and once it is equal they are whole (Writing, Settled).   *)
(* A client whose first bookend is still the second one of the segment has *)
(* copied nothing else (Copying), and this is what Compare finds out.      *)

\* Nothing in the segment or in a client is later than the present update, and an update
\* under way has a stamp that no client has read as its first bookend.
Fresh ==
  /\ NotLater(bookend1, Now) /\ NotLater(bookend2, Now)
  /\ \A r \in Readers : NotLater(reader[r].before, Now)
  /\ step \in {"bookend2", "data", "bookend1"} =>
       Now # Zero /\ bookend1 # Now /\ \A r \in Readers : reader[r].before # Now

\* How far the update is.
Writing ==
  /\ ~up => step = "idle" /\ ~exports
  /\ step = "bookend2" => todo = Words
  /\ step \in {"data", "bookend1"} => bookend2 = Now
  /\ step = "data" => \A w \in Words \ todo : data[w] = Now
  /\ step = "bookend1" => Whole(data, Now)
  /\ step # "data" /\ step # "bookend2" => todo = {}

\* Equal bookends hold a whole report.
Settled == bookend1 = bookend2 => Whole(data, bookend1)

\* What a client that has not been overtaken has copied is what is there.
Copying(c) ==
  /\ c.pc = "before" => c.left = Words
  /\ c.pc = "data" /\ bookend2 = c.before =>
       bookend1 = c.before /\ \A w \in Words \ c.left : c.copy[w] = data[w]
  /\ c.pc = "compare" /\ c.after = c.before => Whole(c.copy, c.before)

Accepted(c) == \A g \in c.got : g.before.run = g.after.run => Whole(g.copy, g.before)

WholeInv ==
  /\ TypeOK /\ Fresh /\ Writing /\ Settled
  /\ \A r \in Readers : Copying(reader[r]) /\ Accepted(reader[r])

LEMMA WholeInit == Init => WholeInv
<1> SUFFICES ASSUME Init PROVE WholeInv
    OBVIOUS
<1>1. TypeOK BY TypeInit
<1>2. Now = Zero BY DEF Init, Now, Zero
<1>3. \A r \in Readers : reader[r] = Idle BY DEF Init
<1>4. Fresh BY <1>2, <1>3 DEF Init, Fresh, Idle, NotLater, Zero
<1>5. Writing BY DEF Init, Writing
<1>6. Settled BY DEF Init, Settled, Whole
<1>7. Copying(Idle) /\ Accepted(Idle) BY DEF Copying, Accepted, Idle
<1> QED BY <1>1, <1>3, <1>4, <1>5, <1>6, <1>7 DEF WholeInv

\* The order of stamps.
LEMMA StampOrder ==
  ASSUME NEW a \in Stamp, NEW b \in Stamp, NEW c \in Stamp
  PROVE  /\ NotLater(a, a)
         /\ NotLater(a, b) /\ NotLater(b, c) => NotLater(a, c)
         /\ NotLater(a, b) /\ NotLater(b, a) => a = b
BY DEF Stamp, NotLater

\* A step of one client.
LEMMA OneClientWhole ==
  ASSUME WholeInv, NEW r \in Readers, NEW c \in Client,
         reader' = [reader EXCEPT ![r] = c], UNCHANGED <<daemonVars, segmentVars>>,
         c.before \in {reader[r].before, bookend1, Zero},
         Copying(c), Accepted(c)
  PROVE  WholeInv'
<1>1. TypeOK' BY OneClientTyped DEF WholeInv
<1>2. \A q \in Readers : reader'[q] = IF q = r THEN c ELSE reader[q]
      BY DEF WholeInv, TypeOK
<1>3. Now' = Now BY DEF Now, daemonVars
<1>4. NotLater(Zero, Now) BY DEF WholeInv, TypeOK, NotLater, Zero, Now
<1>5. Fresh' BY <1>2, <1>3, <1>4 DEF WholeInv, Fresh, daemonVars, segmentVars
<1>10. Writing' /\ Settled'
      BY <1>3 DEF WholeInv, Writing, Settled, daemonVars, segmentVars
<1>6. bookend1' = bookend1 /\ bookend2' = bookend2 /\ data' = data
      BY DEF segmentVars
<1>7. ASSUME NEW q \in Readers PROVE Copying(reader[q])'
  <2>1. Copying(reader'[q]) BY <1>2 DEF WholeInv
  <2> QED BY <2>1, <1>6 DEF Copying, Whole
<1>8. ASSUME NEW q \in Readers PROVE Accepted(reader[q])'
  <2>1. Accepted(reader'[q]) BY <1>2 DEF WholeInv
  <2> QED BY <2>1 DEF Accepted, Whole
<1> QED BY <1>1, <1>5, <1>7, <1>8, <1>10 DEF WholeInv

LEMMA ClientWhole ==
  ASSUME WholeInv, Barriers, NEW r \in Readers, Open(r) \/ Read(r) \/ Close(r)
  PROVE  WholeInv'
<1> DEFINE c == reader[r]
<1>0. c \in Client /\ Copying(c) /\ Accepted(c) BY DEF WholeInv, TypeOK
<1>1. CASE Open(r)
  <2> DEFINE d == [c EXCEPT !.link = "shm", !.got = {}]
  <2>1. d \in Client /\ d.before = c.before /\ Copying(d) /\ Accepted(d)
        BY <1>0 DEF Client, Copying, Accepted
  <2>2. reader' = [reader EXCEPT ![r] = d] /\ UNCHANGED <<daemonVars, segmentVars>>
        BY <1>1 DEF Open
  <2> QED BY <2>1, <2>2, OneClientWhole
<1>2. CASE BeginRead(r)
  <2> DEFINE d == [c EXCEPT !.pc = "before", !.left = Words]
  <2>1. d \in Client /\ d.before = c.before /\ Copying(d) /\ Accepted(d)
        BY <1>0 DEF Client, Copying, Accepted
  <2>2. reader' = [reader EXCEPT ![r] = d] /\ UNCHANGED <<daemonVars, segmentVars>>
        BY <1>2 DEF BeginRead
  <2> QED BY <2>1, <2>2, OneClientWhole
<1>3. CASE ReadBefore(r)
  <2> DEFINE d == [c EXCEPT !.pc = "data", !.before = bookend1]
  <2>1. c.pc = "before" BY <1>3 DEF ReadBefore
  <2>2. d \in Client /\ d.before = bookend1 /\ d.left = Words /\ Accepted(d)
        BY <1>0, <2>1 DEF Client, Copying, Accepted, WholeInv, TypeOK
  <2>3. Copying(d) BY <2>2, <1>0 DEF Copying, Client
  <2>4. reader' = [reader EXCEPT ![r] = d] /\ UNCHANGED <<daemonVars, segmentVars>>
        BY <1>3 DEF ReadBefore
  <2> QED BY <2>2, <2>3, <2>4, OneClientWhole
<1>4. ASSUME NEW w \in Words, CopyOut(r, w) PROVE WholeInv'
  <2> DEFINE d == [c EXCEPT !.copy[w] = data[w], !.left = @ \ {w}]
  <2>1. c.pc = "data" BY <1>4 DEF CopyOut
  <2>2. d \in Client /\ d.before = c.before /\ Accepted(d)
        BY <1>0 DEF Client, Accepted, WholeInv, TypeOK
  <2>3. /\ d.pc = "data" /\ d.left = c.left \ {w}
        /\ \A v \in Words : d.copy[v] = IF v = w THEN data[w] ELSE c.copy[v]
        BY <1>0, <2>1 DEF Client
  <2>4. Copying(d) BY <1>0, <2>1, <2>2, <2>3 DEF Copying
  <2>5. reader' = [reader EXCEPT ![r] = d] /\ UNCHANGED <<daemonVars, segmentVars>>
        BY <1>4 DEF CopyOut
  <2> QED BY <2>2, <2>4, <2>5, OneClientWhole
<1>5. CASE ReadAfter(r)
  <2> DEFINE d == [c EXCEPT !.pc = "compare", !.after = bookend2]
  <2>1. c.pc = "data" /\ c.left = {} BY <1>5 DEF ReadAfter
  <2>2. /\ d \in Client /\ d.before = c.before /\ Accepted(d)
        /\ d.pc = "compare" /\ d.after = bookend2 /\ d.copy = c.copy
        BY <1>0 DEF Client, Accepted, WholeInv, TypeOK
  <2>3. ASSUME bookend2 = c.before PROVE Whole(c.copy, c.before)
    <3>1. bookend1 = c.before /\ \A w \in Words : c.copy[w] = data[w]
          BY <1>0, <2>1, <2>3 DEF Copying
    <3>2. Whole(data, c.before) BY <2>3, <3>1 DEF WholeInv, Settled
    <3> QED BY <3>1, <3>2 DEF Whole
  <2>4. Copying(d) BY <2>2, <2>3 DEF Copying
  <2>5. reader' = [reader EXCEPT ![r] = d] /\ UNCHANGED <<daemonVars, segmentVars>>
        BY <1>5 DEF ReadAfter
  <2> QED BY <2>2, <2>4, <2>5, OneClientWhole
<1>6. CASE Compare(r)
  <2>0. c.pc = "compare" /\ UNCHANGED <<daemonVars, segmentVars>> BY <1>6 DEF Compare
  <2>1. CASE ~Agree(c)
    <3> DEFINE d == [c EXCEPT !.pc = "idle"]
    <3>1. d \in Client /\ d.before = c.before /\ Copying(d) /\ Accepted(d)
          BY <1>0 DEF Client, Copying, Accepted
    <3>2. reader' = [reader EXCEPT ![r] = d] BY <2>1, <1>6 DEF Compare
    <3> QED BY <2>0, <3>1, <3>2, OneClientWhole
  <2>2. CASE Agree(c)
    <3> DEFINE g == [before |-> c.before, after |-> c.after, copy |-> c.copy]
               x == IF c.copy[Fd] = Hidden THEN "shm" ELSE "socket"
               d == [c EXCEPT !.pc = "idle", !.got = {g}, !.link = x]
    <3>1. g.before.run = g.after.run => Whole(g.copy, g.before)
      <4> SUFFICES ASSUME c.before.run = c.after.run PROVE Whole(c.copy, c.before)
          OBVIOUS
      <4>1. c.before = c.after BY <1>0, <2>2 DEF Client, Stamp, Agree
      <4> QED BY <1>0, <2>0, <4>1 DEF Copying
    <3>2. g \in Reading BY <1>0 DEF Client, Reading
    <3>3. d \in Client /\ d.before = c.before /\ d.pc = "idle" /\ d.got = {g}
          BY <1>0, <3>2 DEF Client
    <3>4. Copying(d) BY <3>3 DEF Copying
    <3>5. Accepted(d) BY <3>1, <3>3 DEF Accepted
    <3>6. reader' = [reader EXCEPT ![r] = d] BY <2>2, <1>6 DEF Compare
    <3> QED BY <2>0, <3>3, <3>4, <3>5, <3>6, OneClientWhole
  <2> QED BY <2>1, <2>2
<1>7. CASE Close(r)
  <2>1. Idle \in Client /\ Idle.before = Zero /\ Copying(Idle) /\ Accepted(Idle)
        BY IdleTyped DEF Idle, Copying, Accepted
  <2>2. reader' = [reader EXCEPT ![r] = Idle] /\ UNCHANGED <<daemonVars, segmentVars>>
        BY <1>7 DEF Close
  <2> QED BY <2>1, <2>2, OneClientWhole
<1> QED BY <1>1, <1>2, <1>3, <1>4, <1>5, <1>6, <1>7 DEF Read

\* A daemon that starts or counts on leaves the segment and the clients alone.
LEMMA CountingWhole ==
  ASSUME WholeInv, Boot \/ Ends \/ StartUpdate
  PROVE  WholeInv'
<1>0. TypeOK' BY DaemonTyped DEF WholeInv
<1>1. UNCHANGED <<bookend1, bookend2, data, reader>>
      BY DEF Boot, Ends, StartUpdate, segmentVars
<1>2. \A x \in Stamp : NotLater(x, Now) => NotLater(x, Now')
      BY DEF Boot, Ends, StartUpdate, WholeInv, TypeOK, Stamp, NotLater, Now
<1>3. /\ NotLater(bookend1, Now') /\ NotLater(bookend2, Now')
      /\ \A r \in Readers : NotLater(reader[r].before, Now')
      BY <1>2 DEF WholeInv, Fresh, TypeOK, Client
<1>4. Fresh'
  <2>1. CASE StartUpdate
    <3>1. \A x \in Stamp : NotLater(x, Now) => x # Now'
          BY <2>1 DEF StartUpdate, WholeInv, TypeOK, Stamp, NotLater, Now
    <3>2. Now' # Zero BY <2>1 DEF StartUpdate, WholeInv, TypeOK, Now, Zero
    <3>3. /\ bookend1 # Now' /\ \A r \in Readers : reader[r].before # Now'
          BY <3>1 DEF WholeInv, Fresh, TypeOK, Client
    <3> QED BY <1>1, <1>3, <3>2, <3>3 DEF Fresh
  <2>2. CASE Boot \/ Ends
    <3>1. step' = "idle" BY <2>2 DEF Boot, Ends, WholeInv, Writing
    <3> QED BY <1>1, <1>3, <3>1 DEF Fresh
  <2> QED BY <2>1, <2>2
<1>5. Writing' BY DEF Boot, Ends, StartUpdate, WholeInv, Writing, TypeOK
<1>6. Settled' BY <1>1 DEF WholeInv, Settled, Whole
<1>7. \A r \in Readers : Copying(reader[r])' /\ Accepted(reader[r])'
      BY <1>1 DEF WholeInv, Copying, Accepted, Whole
<1> QED BY <1>0, <1>4, <1>5, <1>6, <1>7 DEF WholeInv

LEMMA UpdateWhole ==
  ASSUME WholeInv, Barriers, Update
  PROVE  WholeInv'
<1>0. TypeOK' BY DaemonTyped DEF WholeInv
<1>1. reader' = reader /\ Now' = Now /\ UNCHANGED <<starts, up, exports, tick>>
      BY DEF Update, WriteBookend2, CopyIn, HideFd, WriteBookend1, EndUpdate, Now
<1>2. \A r \in Readers : Accepted(reader[r])'
      BY <1>1 DEF WholeInv, Accepted, Whole
<1>3. Now \in Stamp /\ NotLater(Now, Now)
      BY DEF WholeInv, TypeOK, Now, Stamp, NotLater
<1>4. \A r \in Readers : NotLater(reader[r].before, Now) BY DEF WholeInv, Fresh
<1>5. CASE WriteBookend2
  <2>1. step = "bookend2" /\ step' = "data" /\ bookend2' = Now /\ todo' = todo
        /\ UNCHANGED <<bookend1, data>>
        BY <1>5 DEF WriteBookend2
  <2>2. todo = Words BY <2>1 DEF WholeInv, Writing
  <2>3. Fresh' BY <1>1, <1>3, <2>1 DEF WholeInv, Fresh
  <2>4. Writing' BY <1>1, <2>1, <2>2 DEF WholeInv, Writing
  <2>5. Settled' BY <2>1 DEF WholeInv, Fresh, Settled
  <2>6. \A r \in Readers : Copying(reader[r])'
        BY <1>1, <2>1 DEF WholeInv, Fresh, Copying, Whole
  <2> QED BY <1>0, <1>2, <2>3, <2>4, <2>5, <2>6 DEF WholeInv
<1>6. ASSUME NEW w \in Words, CopyIn(w) PROVE WholeInv'
  <2>1. step = "data" /\ UNCHANGED <<step, bookend1, bookend2>> /\ todo' = todo \ {w}
        BY <1>6 DEF CopyIn
  <2>2. \A v \in Words : data'[v] = IF v = w THEN Now ELSE data[v]
        BY <1>6 DEF CopyIn, WholeInv, TypeOK
  <2>3. bookend2 = Now /\ bookend1 # Now BY <2>1 DEF WholeInv, Writing, Fresh
  <2>4. Fresh' BY <1>1, <2>1 DEF WholeInv, Fresh
  <2>5. Writing' BY <1>1, <2>1, <2>2 DEF WholeInv, Writing
  <2>6. Settled' BY <2>1, <2>3 DEF Settled
  <2>7. \A r \in Readers : Copying(reader[r])'
        BY <1>1, <2>1, <2>3 DEF WholeInv, Fresh, Copying, Whole
  <2> QED BY <1>0, <1>2, <2>4, <2>5, <2>6, <2>7 DEF WholeInv
<1>7. CASE HideFd
  <2>1. step = "data" /\ step' = "bookend1" /\ todo = {}
        /\ UNCHANGED <<todo, bookend1, bookend2>>
        BY <1>7 DEF HideFd
  <2>2. \A v \in Words : data'[v] = IF v = Fd THEN Hidden ELSE data[v]
        BY <1>7 DEF HideFd, WholeInv, TypeOK
  <2>3. bookend2 = Now /\ bookend1 # Now /\ Now # Zero
        BY <2>1 DEF WholeInv, Writing, Fresh
  <2>4. Fresh' BY <1>1, <2>1 DEF WholeInv, Fresh
  <2>5. Whole(data', Now) BY <2>1, <2>2, <2>3 DEF WholeInv, Writing, Whole
  <2>6. Writing' BY <1>1, <2>1, <2>5 DEF WholeInv, Writing, Whole
  <2>7. Settled' BY <2>1, <2>3 DEF Settled
  <2>8. \A r \in Readers : Copying(reader[r])'
        BY <1>1, <2>1, <2>3 DEF WholeInv, Fresh, Copying, Whole
  <2> QED BY <1>0, <1>2, <2>4, <2>6, <2>7, <2>8 DEF WholeInv
<1>8. CASE WriteBookend1
  <2>1. step = "bookend1" /\ step' = "return" /\ bookend1' = Now
        /\ UNCHANGED <<todo, bookend2, data>>
        BY <1>8 DEF WriteBookend1
  <2>2. bookend2 = Now /\ Whole(data, Now) BY <2>1 DEF WholeInv, Writing
  <2>3. Fresh' BY <1>1, <1>3, <1>4, <2>1, <2>2 DEF Fresh
  <2>4. Writing' BY <1>1, <2>1 DEF WholeInv, Writing
  <2>5. Settled' BY <2>1, <2>2 DEF Settled, Whole
  <2>6. \A r \in Readers : Copying(reader[r])'
        BY <1>1, <2>1, <2>2 DEF WholeInv, Fresh, Copying, Whole
  <2> QED BY <1>0, <1>2, <2>3, <2>4, <2>5, <2>6 DEF WholeInv
<1>9. CASE EndUpdate
  <2>1. step' = "idle" /\ todo = {} /\ UNCHANGED <<todo, bookend1, bookend2, data>>
        BY <1>9 DEF EndUpdate, segmentVars
  <2>2. step = "return" BY <1>9 DEF EndUpdate
  <2>3. Fresh' BY <1>1, <2>1 DEF WholeInv, Fresh
  <2>4. Writing' BY <1>1, <2>1, <2>2 DEF WholeInv, Writing
  <2>5. Settled' BY <2>1 DEF WholeInv, Settled, Whole
  <2>6. \A r \in Readers : Copying(reader[r])'
        BY <1>1, <2>1 DEF WholeInv, Copying, Whole
  <2> QED BY <1>0, <1>2, <2>3, <2>4, <2>5, <2>6 DEF WholeInv
<1> QED BY <1>5, <1>6, <1>7, <1>8, <1>9 DEF Update

LEMMA WholeStep ==
  ASSUME Barriers PROVE WholeInv /\ [Next]_vars => WholeInv'
<1>1. WholeInv /\ UNCHANGED vars => WholeInv'
  <2> SUFFICES ASSUME WholeInv, UNCHANGED vars PROVE WholeInv'
      OBVIOUS
  <2>1. Now' = Now BY DEF Now, vars
  <2>2. TypeOK' BY TypeStep DEF WholeInv
  <2>3. Fresh' /\ Writing' /\ Settled'
        BY <2>1 DEF WholeInv, Fresh, Writing, Settled, Whole, vars
  <2>4. \A r \in Readers : Copying(reader[r])' /\ Accepted(reader[r])'
        BY DEF WholeInv, Copying, Accepted, Whole, vars
  <2> QED BY <2>2, <2>3, <2>4 DEF WholeInv
<1> QED BY <1>1, CountingWhole, UpdateWhole, ClientWhole DEF Next

\* With barriers, a read accepted on two bookends of one daemon is one whole report, with
\* the daemon's descriptor hidden: the optimistic technique of shm_update and gps_shm_read.
THEOREM ReportsAreWhole ==
  ASSUME Barriers PROVE Spec => []OneDaemonIsWhole
<1>1. WholeInv => OneDaemonIsWhole BY DEF WholeInv, Accepted, OneDaemonIsWhole
<1> QED BY <1>1, WholeInit, WholeStep, PTL DEF Spec

-----------------------------------------------------------------------------
(* The way to the socket: a client is lost by a descriptor it has copied. *)

Link == \A r \in Readers :
          reader[r].link = "socket" => \E g \in reader[r].got : g.copy[Fd] # Hidden

LinkInv == TypeOK /\ Link

LEMMA LinkStep == LinkInv /\ [Next]_vars => LinkInv'
<1> SUFFICES ASSUME LinkInv, [Next]_vars PROVE LinkInv'
    OBVIOUS
<1>1. TypeOK' BY TypeStep DEF LinkInv
<1>2. CASE reader' = reader BY <1>1, <1>2 DEF LinkInv, Link
<1>3. ASSUME NEW r \in Readers, Open(r) \/ Read(r) \/ Close(r) PROVE LinkInv'
  <2>0. \A q \in Readers : q # r => reader'[q] = reader[q]
        BY <1>3 DEF Open, Read, Close, BeginRead, ReadBefore, CopyOut, ReadAfter, Compare,
                    LinkInv, TypeOK
  <2>1. SUFFICES reader'[r].link = "socket" =>
                   \E g \in reader'[r].got : g.copy[Fd] # Hidden
        BY <1>1, <2>0 DEF LinkInv, Link
  <2>2. reader[r] \in Client BY DEF LinkInv, TypeOK
  <2>3. CASE Compare(r) /\ Agree(reader[r])
    <3> DEFINE c == reader[r]
               g == [before |-> c.before, after |-> c.after, copy |-> c.copy]
    <3>1. reader'[r].got = {g}
          BY <2>2, <2>3 DEF Compare, LinkInv, TypeOK, Client
    <3>2. reader'[r].link = IF c.copy[Fd] = Hidden THEN "shm" ELSE "socket"
          BY <2>2, <2>3 DEF Compare, LinkInv, TypeOK, Client
    <3> QED BY <3>1, <3>2
  <2>4. CASE Compare(r) /\ ~Agree(reader[r])
        BY <2>2, <2>4 DEF Compare, LinkInv, Link, TypeOK, Client
  <2>5. CASE Open(r) BY <2>2, <2>5 DEF Open, LinkInv, TypeOK, Client
  <2>6. CASE Close(r) BY <2>6 DEF Close, Idle, LinkInv, TypeOK
  <2>7. CASE BeginRead(r) \/ ReadBefore(r) \/ ReadAfter(r)
        BY <2>2, <2>7 DEF BeginRead, ReadBefore, ReadAfter, LinkInv, Link, TypeOK, Client
  <2>8. ASSUME NEW w \in Words, CopyOut(r, w)
        PROVE  reader'[r].link = reader[r].link /\ reader'[r].got = reader[r].got
        BY <2>2, <2>8 DEF CopyOut, LinkInv, TypeOK, Client
  <2>9. CASE \E w \in Words : CopyOut(r, w) BY <2>8, <2>9 DEF LinkInv, Link
  <2> QED BY <1>3, <2>3, <2>4, <2>5, <2>6, <2>7, <2>9 DEF Read
<1>4. (Boot \/ Ends \/ StartUpdate \/ Update) \/ UNCHANGED vars => reader' = reader
      BY DEF Boot, Ends, StartUpdate, Update, WriteBookend2, CopyIn, HideFd,
             WriteBookend1, EndUpdate, vars
<1> QED BY <1>2, <1>3, <1>4 DEF Next

\* With barriers, a client leaves the shared memory only because of the segment before the
\* first report, or across a restart.
THEOREM LostClientsSawNoReport ==
  ASSUME Barriers PROVE Spec => []LostOnlyWithoutReport
<1>1. Init => LinkInv
      BY TypeInit DEF Init, LinkInv, Link, Idle
<1>2. LinkInv /\ WholeInv => LostOnlyWithoutReport
  <2> SUFFICES ASSUME LinkInv, WholeInv, NEW r \in Readers, reader[r].link = "socket"
               PROVE  \E g \in reader[r].got : g.before = Zero \/ g.before.run # g.after.run
      BY DEF LostOnlyWithoutReport
  <2>1. PICK g \in reader[r].got : g.copy[Fd] # Hidden BY DEF LinkInv, Link
  <2>2. g.before.run = g.after.run => Whole(g.copy, g.before) BY DEF WholeInv, Accepted
  <2> QED BY <2>1, <2>2 DEF Whole
<1> QED BY <1>1, <1>2, LinkStep, WholeInit, WholeStep, PTL DEF Spec

-----------------------------------------------------------------------------
(* Clients go forward: the first bookend never goes back, and a client     *)
(* that has got a report reads the bookend again before it gets another.   *)

Past(c) ==
  /\ NotLater(c.before, bookend1)
  /\ \A g, h \in c.got : g = h
  /\ \A g \in c.got :
       /\ NotLater(g.before, bookend1)
       /\ c.pc \in {"data", "compare"} => NotLater(g.before, c.before)

PastInv ==
  /\ TypeOK /\ NotLater(bookend1, Now)
  /\ \A r \in Readers : Past(reader[r])

LEMMA PastInit == Init => PastInv
BY TypeInit DEF Init, PastInv, Past, Idle, NotLater, Now, Zero

\* The daemon only ever makes the first bookend later.
LEMMA DaemonForward ==
  ASSUME PastInv, Boot \/ Ends \/ StartUpdate \/ Update
  PROVE  PastInv' /\ reader' = reader
<1>0. TypeOK' BY DaemonTyped DEF PastInv
<1>1. reader' = reader /\ (bookend1' = bookend1 \/ (bookend1' = Now /\ Now' = Now))
      BY DEF Boot, Ends, StartUpdate, Update, WriteBookend2, CopyIn, HideFd, WriteBookend1,
             EndUpdate, segmentVars, Now
<1>2. Now \in Stamp /\ Now' \in Stamp /\ NotLater(Now, Now')
      BY <1>0 DEF PastInv, TypeOK, Now, Stamp, NotLater, Boot, Ends, StartUpdate, Update,
                  WriteBookend2, CopyIn, HideFd, WriteBookend1, EndUpdate
<1>3. bookend1 \in Stamp /\ bookend1' \in Stamp /\ NotLater(bookend1, Now)
      BY <1>0 DEF PastInv, TypeOK
<1>4. NotLater(bookend1', Now') /\ NotLater(bookend1, bookend1')
      BY <1>1, <1>2, <1>3, StampOrder
<1>5. \A x \in Stamp : NotLater(x, bookend1) => NotLater(x, bookend1')
      BY <1>3, <1>4, StampOrder
<1>6. ASSUME NEW r \in Readers PROVE Past(reader[r])'
  <2>1. reader[r] \in Client /\ Past(reader[r]) BY DEF PastInv, TypeOK
  <2>2. reader[r].before \in Stamp /\ \A g \in reader[r].got : g.before \in Stamp
        BY <2>1 DEF Client, Reading
  <2> QED BY <1>1, <1>5, <2>1, <2>2 DEF Past
<1> QED BY <1>0, <1>1, <1>4, <1>6 DEF PastInv

\* What a step does to the client that takes it, as far as its reports are concerned.
Forward(c, d) ==
  /\ d \in Client /\ Past(d)
  /\ \A old \in c.got, new \in d.got : NotLater(old.before, new.before)

LEMMA ClientForward ==
  ASSUME PastInv, NEW r \in Readers, Open(r) \/ Read(r) \/ Close(r)
  PROVE  Forward(reader[r], reader'[r])
<1> DEFINE c == reader[r]
           d == reader'[r]
<1>0. c \in Client /\ Past(c) BY DEF PastInv, TypeOK
<1>1. d \in Client BY ClientTyped DEF PastInv, TypeOK
<1>2. bookend1 \in Stamp /\ c.before \in Stamp /\ \A g \in c.got : g.before \in Stamp
      BY <1>0 DEF PastInv, TypeOK, Client, Reading
<1>3. NotLater(bookend1, bookend1) /\ NotLater(Zero, bookend1)
      /\ \A g \in c.got : NotLater(g.before, g.before)
      BY <1>2, StampOrder DEF NotLater, Zero, Stamp
<1>4. CASE Open(r)
  <2>1. d.got = {} /\ d.before = c.before
        BY <1>0, <1>4 DEF Open, PastInv, TypeOK, Client
  <2> QED BY <1>0, <1>1, <2>1 DEF Forward, Past
<1>5. CASE BeginRead(r)
  <2>1. d.got = c.got /\ d.before = c.before /\ d.pc = "before"
        BY <1>0, <1>5 DEF BeginRead, PastInv, TypeOK, Client
  <2> QED BY <1>0, <1>1, <1>3, <2>1 DEF Forward, Past
<1>6. CASE ReadBefore(r)
  <2>1. d.got = c.got /\ d.before = bookend1
        BY <1>0, <1>6 DEF ReadBefore, PastInv, TypeOK, Client
  <2> QED BY <1>0, <1>1, <1>3, <2>1 DEF Forward, Past
<1>7. ASSUME NEW w \in Words, CopyOut(r, w) PROVE Forward(c, d)
  <2>1. d.got = c.got /\ d.before = c.before /\ d.pc = c.pc
        BY <1>0, <1>7 DEF CopyOut, PastInv, TypeOK, Client
  <2> QED BY <1>0, <1>1, <1>3, <2>1 DEF Forward, Past
<1>10. CASE ReadAfter(r)
  <2>1. d.got = c.got /\ d.before = c.before /\ c.pc = "data"
        BY <1>0, <1>10 DEF ReadAfter, PastInv, TypeOK, Client
  <2> QED BY <1>0, <1>1, <1>3, <2>1 DEF Forward, Past
<1>8. CASE Compare(r)
  <2>1. c.pc = "compare" BY <1>8 DEF Compare
  <2>2. d.before = c.before /\ d.pc = "idle"
        BY <1>0, <1>8 DEF Compare, PastInv, TypeOK, Client
  <2>4. \A g \in c.got : NotLater(g.before, c.before) BY <1>0, <2>1 DEF Past
  <2>5. d.got = c.got \/ d.got = {[before |-> c.before, after |-> c.after, copy |-> c.copy]}
        BY <1>0, <1>8 DEF Compare, PastInv, TypeOK, Client
  <2>6. ASSUME NEW old \in c.got, NEW new \in d.got
        PROVE  NotLater(old.before, new.before)
        BY <1>0, <1>3, <2>4, <2>5, <2>6 DEF Past
  <2>7. Past(d)
    <3>1. NotLater(d.before, bookend1) /\ \A g, h \in d.got : g = h
          BY <1>0, <2>2, <2>5 DEF Past
    <3>2. \A g \in d.got : NotLater(g.before, bookend1) BY <1>0, <2>5 DEF Past
    <3> QED BY <3>1, <3>2, <2>2 DEF Past
  <2> QED BY <1>1, <2>6, <2>7 DEF Forward
<1>9. CASE Close(r)
  <2>1. d = Idle BY <1>9 DEF Close, PastInv, TypeOK
  <2> QED BY <1>1, <1>3, <2>1 DEF Forward, Past, Idle
<1> QED BY <1>4, <1>5, <1>6, <1>7, <1>8, <1>9, <1>10 DEF Read

LEMMA PastStep ==
  PastInv /\ [Next]_vars
    => PastInv' /\ \A r \in Readers : \A old \in reader[r].got, new \in reader'[r].got :
                     NotLater(old.before, new.before)
<1> SUFFICES ASSUME PastInv, [Next]_vars
             PROVE  PastInv' /\ \A r \in Readers : \A old \in reader[r].got, new \in reader'[r].got :
                                  NotLater(old.before, new.before)
    OBVIOUS
<1>0. ASSUME NEW r \in Readers, NEW g \in reader[r].got, NEW h \in reader[r].got
      PROVE  NotLater(g.before, h.before)
  <2>1. g = h BY DEF PastInv, Past
  <2>2. g.before \in Stamp BY DEF PastInv, TypeOK, Client, Reading
  <2> QED BY <2>1, <2>2, StampOrder
<1>1. CASE Boot \/ Ends \/ StartUpdate \/ Update BY <1>0, <1>1, DaemonForward
<1>2. CASE UNCHANGED vars
  <2>1. TypeOK' /\ Now' = Now BY <1>2, TypeStep DEF PastInv, Now, vars
  <2> QED BY <1>0, <1>2, <2>1 DEF PastInv, Past, vars
<1>3. ASSUME NEW r \in Readers, Open(r) \/ Read(r) \/ Close(r)
      PROVE  PastInv' /\ \A q \in Readers : \A old \in reader[q].got, new \in reader'[q].got :
                           NotLater(old.before, new.before)
  <2>1. TypeOK' BY <1>3, ClientTyped DEF PastInv
  <2>2. /\ \A q \in Readers : q # r => reader'[q] = reader[q]
        /\ bookend1' = bookend1 /\ Now' = Now
        BY <1>3 DEF Open, Read, Close, BeginRead, ReadBefore, CopyOut, ReadAfter, Compare,
                    PastInv, TypeOK, daemonVars, segmentVars, Now
  <2>3. Forward(reader[r], reader'[r]) BY <1>3, ClientForward
  <2>4. ASSUME NEW q \in Readers PROVE Past(reader[q])'
    <3>1. Past(reader'[q]) BY <2>2, <2>3 DEF Forward, PastInv
    <3> QED BY <2>2, <3>1 DEF Past
  <2>5. NotLater(bookend1, Now)' BY <2>2 DEF PastInv, NotLater
  <2> QED BY <1>0, <2>1, <2>2, <2>3, <2>4, <2>5 DEF Forward, PastInv
<1> QED BY <1>1, <1>2, <1>3 DEF Next

\* No client gets an earlier report after a later one, with or without barriers, however
\* often the daemon is restarted.
THEOREM ClientsGoForward == Spec => NeverGoesBack
<1>1. PastInv /\ [Next]_vars => PastInv' BY PastStep
<1>2. PastInv /\ [Next]_vars
        => [\A r \in Readers : \A old \in reader[r].got, new \in reader'[r].got :
              NotLater(old.before, new.before)]_vars
      BY PastStep
<1> QED BY <1>1, <1>2, PastInit, PTL DEF Spec, NeverGoesBack

-----------------------------------------------------------------------------
(* The segment is a register.                                              *)
(*                                                                         *)
(* A call reads the register where it reads the first bookend, which every *)
(* update makes later when its report is complete.  The second bookend is  *)
(* ahead of the first, and so of what a call has read (Ahead): if the two  *)
(* that a call compares differ in their daemon, the report it read was of  *)
(* an earlier one, and if not, it has copied that report (WholeInv).       *)

Ahead(c) ==
  /\ c.link = "closed" => c = Idle
  /\ c.pc = "compare" => NotLater(c.before, c.after) /\ NotLater(c.after, Now)

RegisterInv ==
  /\ WholeInv /\ PastInv
  /\ NotLater(bookend1, bookend2)
  /\ \A r \in Readers : Ahead(reader[r])

LEMMA RegisterInvInit == Init => RegisterInv
<1>1. Idle.pc = "idle"
  BY DEF Idle
<1> QED BY <1>1, WholeInit, PastInit DEF Init, RegisterInv, Ahead, NotLater, Zero

\* The daemon keeps the second bookend ahead.
LEMMA DaemonAhead ==
  ASSUME RegisterInv, Boot \/ Ends \/ StartUpdate \/ Update
  PROVE  NotLater(bookend1, bookend2)' /\ \A r \in Readers : Ahead(reader[r])'
<1>1. TypeOK /\ TypeOK' /\ reader' = reader
  BY DaemonForward DEF RegisterInv, PastInv
<1>2. Now \in Stamp /\ Now' \in Stamp /\ NotLater(Now, Now')
  BY <1>1 DEF TypeOK, Now, Stamp, NotLater, Boot, Ends, StartUpdate, Update,
              WriteBookend2, CopyIn, HideFd, WriteBookend1, EndUpdate
<1>3. /\ {bookend1, bookend2} \subseteq Stamp /\ NotLater(bookend1, Now)
      /\ NotLater(bookend1, bookend2) /\ NotLater(Now, Now)
  BY <1>1, <1>2, StampOrder DEF RegisterInv, PastInv, TypeOK
<1>4. \/ UNCHANGED <<bookend1, bookend2>>
      \/ bookend1' = bookend1 /\ bookend2' = Now
      \/ bookend1' = Now /\ bookend2' = bookend2 /\ step = "bookend1"
  BY DEF Boot, Ends, StartUpdate, Update, WriteBookend2, CopyIn, HideFd, WriteBookend1,
         EndUpdate, segmentVars
<1>5. step = "bookend1" => bookend2 = Now
  BY DEF RegisterInv, WholeInv, Writing
<1>6. NotLater(bookend1, bookend2)'
  BY <1>3, <1>4, <1>5 DEF NotLater
<1>7. ASSUME NEW r \in Readers PROVE Ahead(reader[r])'
  <2>1. Ahead(reader[r]) /\ reader[r].after \in Stamp
    BY <1>1 DEF RegisterInv, TypeOK, Client
  <2>2. NotLater(reader[r].after, Now) => NotLater(reader[r].after, Now')
    BY <1>2, <2>1, StampOrder
  <2> QED BY <1>1, <2>1, <2>2 DEF Ahead
<1> QED BY <1>6, <1>7

\* A client reads the first bookend before the second.
LEMMA ClientAhead ==
  ASSUME RegisterInv, NEW r \in Readers, Open(r) \/ Read(r) \/ Close(r)
  PROVE  Ahead(reader[r])'
<1> DEFINE c == reader[r]
           d == reader'[r]
<1>0. c \in Client /\ Ahead(c) /\ NotLater(c.before, bookend1) /\ TypeOK
  BY DEF RegisterInv, PastInv, TypeOK, Past
<1>1. Now' = Now
  BY DEF Open, Read, Close, BeginRead, ReadBefore, CopyOut, ReadAfter, Compare, daemonVars, Now
<1>2. /\ {c.before, bookend1, bookend2} \subseteq Stamp /\ Now \in Stamp
      /\ NotLater(bookend1, bookend2) /\ NotLater(bookend2, Now)
  BY <1>0 DEF RegisterInv, WholeInv, Fresh, TypeOK, Client, Now, Stamp
<1>3. CASE ReadAfter(r)
  <2>1. d.before = c.before /\ d.after = bookend2 /\ d.link = c.link /\ c.pc = "data"
    BY <1>0, <1>3 DEF ReadAfter, TypeOK, Client
  <2>2. d.link # "closed"
    BY <1>0, <2>1 DEF Ahead, Idle
  <2>3. NotLater(d.before, d.after) /\ NotLater(d.after, Now)
    BY <1>0, <1>2, <2>1, StampOrder
  <2> QED BY <1>1, <2>2, <2>3 DEF Ahead
<1>4. CASE Close(r)
  <2>1. d = Idle
    BY <1>0, <1>4 DEF Close, TypeOK
  <2> QED BY <2>1 DEF Ahead, Idle
<1>5. CASE Open(r)
  <2>1. d.link = "shm" /\ d.pc = c.pc /\ c.link = "closed"
    BY <1>0, <1>5 DEF Open, TypeOK, Client
  <2> QED BY <1>0, <2>1 DEF Ahead, Idle
<1>6. CASE BeginRead(r) \/ ReadBefore(r)
  <2>1. d.link = c.link /\ d.pc # "compare" /\ (c.link = "shm" \/ c.pc # "idle")
    BY <1>0, <1>6 DEF BeginRead, ReadBefore, TypeOK, Client
  <2> QED BY <1>0, <2>1 DEF Ahead, Idle
<1>7. ASSUME NEW w \in Words, CopyOut(r, w) PROVE Ahead(reader[r])'
  <2>1. d.link = c.link /\ d.pc = c.pc /\ c.pc # "idle" /\ d.before = c.before /\ d.after = c.after
    BY <1>0, <1>7 DEF CopyOut, TypeOK, Client
  <2> QED BY <1>0, <1>1, <2>1 DEF Ahead, Idle
<1>8. CASE Compare(r)
  <2>1. d.pc = "idle" /\ c.pc = "compare" /\ (d.link = c.link \/ d.link \in {"shm", "socket"})
    BY <1>0, <1>8 DEF Compare, TypeOK, Client
  <2> QED BY <1>0, <2>1 DEF Ahead, Idle
<1> QED BY <1>3, <1>4, <1>5, <1>6, <1>7, <1>8 DEF Read

LEMMA RegisterInvStep ==
  ASSUME Barriers PROVE RegisterInv /\ [Next]_vars => RegisterInv'
<1> SUFFICES ASSUME RegisterInv, [Next]_vars PROVE RegisterInv'
    OBVIOUS
<1>1. WholeInv' /\ PastInv'
  BY WholeStep, PastStep DEF RegisterInv
<1>2. CASE Boot \/ Ends \/ StartUpdate \/ Update
  BY <1>1, <1>2, DaemonAhead DEF RegisterInv
<1>3. CASE UNCHANGED vars
  BY <1>1, <1>3 DEF RegisterInv, Ahead, Now, vars
<1>4. ASSUME NEW r \in Readers, Open(r) \/ Read(r) \/ Close(r) PROVE RegisterInv'
  <2>1. /\ \A q \in Readers : q # r => reader'[q] = reader[q]
        /\ UNCHANGED <<bookend1, bookend2, Now>>
    BY <1>4 DEF Open, Read, Close, BeginRead, ReadBefore, CopyOut, ReadAfter, Compare,
                RegisterInv, PastInv, TypeOK, daemonVars, segmentVars, Now
  <2>2. \A q \in Readers : q # r => Ahead(reader[q])'
    BY <2>1 DEF RegisterInv, Ahead
  <2>3. Ahead(reader[r])'
    BY <1>4, ClientAhead
  <2> QED BY <1>1, <2>1, <2>2, <2>3 DEF RegisterInv
<1> QED BY <1>2, <1>3, <1>4 DEF Next

\* The register as the segment and the clients show it.
Called == [r \in Readers |-> CallOf(reader[r])]
Seen   == [r \in Readers |-> reader[r].before]
Given  == [r \in Readers |-> Gave(reader[r])]

\* What a step of one client does to it.
LEMMA ClientShows ==
  ASSUME TypeOK, NEW r \in Readers, NEW d, reader' = [reader EXCEPT ![r] = d]
  PROVE  /\ Called' = [Called EXCEPT ![r] = CallOf(d)]
         /\ Seen' = [Seen EXCEPT ![r] = d.before]
         /\ Given' = [Given EXCEPT ![r] = Gave(d)]
<1>1. reader' = [q \in Readers |-> IF q = r THEN d ELSE reader[q]]
  BY DEF TypeOK
<1> HIDE DEF TypeOK
<1>2. Called' = [q \in Readers |-> IF q = r THEN CallOf(d) ELSE CallOf(reader[q])]
  BY <1>1 DEF Called
<1>3. Seen' = [q \in Readers |-> IF q = r THEN d.before ELSE reader[q].before]
  BY <1>1 DEF Seen
<1>4. Given' = [q \in Readers |-> IF q = r THEN Gave(d) ELSE Gave(reader[q])]
  BY <1>1 DEF Given
<1> QED BY <1>2, <1>3, <1>4 DEF Called, Seen, Given

\* A report is published when the first bookend is written.
LEMMA DaemonShows ==
  ASSUME RegisterInv, Boot \/ Ends \/ StartUpdate \/ Update
  PROVE  Register!Next \/ UNCHANGED Register!registerVars
<1>1. TypeOK /\ reader' = reader
  BY DaemonForward DEF RegisterInv, PastInv
<1>2. UNCHANGED <<Called, Seen, Given>>
  BY <1>1 DEF Called, Seen, Given
<1>3. CASE Boot
  <2>1. Register!Start
    BY <1>2, <1>3 DEF Boot, Register!Start, Called, Seen, Given
  <2> QED BY <2>1 DEF Register!Next
<1>4. CASE WriteBookend1
  <2>1. bookend1' = Now /\ UNCHANGED <<starts, reader>> /\ step = "bookend1"
    BY <1>4 DEF WriteBookend1
  <2>2. /\ Now \in Stamp /\ Now.run = starts
        /\ bookend1 \in Stamp /\ NotLater(bookend1, Now) /\ bookend1 # Now
    BY <1>1, <2>1 DEF RegisterInv, WholeInv, Fresh, TypeOK, Now, Stamp
  <2>3. Now \in Register!Report /\ Register!Later(Now, bookend1)
    BY <2>2 DEF Register!Report, Register!Later, Stamp, NotLater
  <2>4. Register!Publish
    BY <1>2, <2>1, <2>2, <2>3 DEF Register!Publish, Called, Seen, Given
  <2> QED BY <2>4 DEF Register!Next
<1>5. ASSUME Ends \/ StartUpdate \/ WriteBookend2 \/ (\E w \in Words : CopyIn(w))
             \/ HideFd \/ EndUpdate
      PROVE  UNCHANGED Register!registerVars
  <2>1. UNCHANGED <<starts, bookend1>>
    BY <1>5 DEF Ends, StartUpdate, WriteBookend2, CopyIn, HideFd, EndUpdate, segmentVars
  <2> QED BY <1>2, <2>1 DEF Register!registerVars, Called, Seen, Given
<1> QED BY <1>3, <1>4, <1>5 DEF Update

\* A comparison that succeeds answers with the report the call has read; what it gives is not
\* that report only if it was of an earlier daemon.
LEMMA CompareShows ==
  ASSUME RegisterInv, NEW r \in Readers, Compare(r)
  PROVE  Register!Answer(r) \/ Register!Fail(r)
<1> DEFINE c == reader[r]
           d == reader'[r]
           g == [before |-> c.before, after |-> c.after, copy |-> c.copy]
<1>0. TypeOK /\ c \in Client /\ Ahead(c) /\ Copying(c) /\ bookend1 \in Stamp
  BY DEF RegisterInv, WholeInv, TypeOK
<1>1. c.pc = "compare" /\ UNCHANGED <<starts, bookend1>> /\ reader' = [reader EXCEPT ![r] = d]
  BY <1>0 DEF Compare, TypeOK, daemonVars, segmentVars
<1>2. d.pc = "idle" /\ d.before = c.before /\ (d.got = c.got \/ (d.got = {g} /\ Agree(c)))
  BY <1>0 DEF Compare, TypeOK, Client
<1> HIDE DEF c, d
<1>3. CallOf(c) = "looked" /\ CallOf(d) = "idle"
  BY <1>1, <1>2 DEF CallOf
<1>4. /\ Called' = [Called EXCEPT ![r] = "idle"] /\ Seen' = Seen
      /\ Given' = [Given EXCEPT ![r] = Gave(d)]
      /\ Called[r] = "looked" /\ Seen[r] = c.before
  <2>1. /\ Called' = [Called EXCEPT ![r] = CallOf(d)]
        /\ Seen' = [Seen EXCEPT ![r] = d.before]
        /\ Given' = [Given EXCEPT ![r] = Gave(d)]
    BY <1>0, <1>1, ClientShows
  <2>2. Called[r] = CallOf(c) /\ Seen[r] = c.before /\ Seen = [Seen EXCEPT ![r] = c.before]
    BY DEF Called, Seen, c
  <2> QED BY <1>2, <1>3, <2>1, <2>2
<1>5. CASE d.got = c.got
  <2>1. Given' = Given
    BY <1>4, <1>5 DEF Given, Gave, c
  <2> QED BY <1>1, <1>4, <2>1 DEF Register!Fail, Called, Seen, Given
<1>6. CASE d.got = {g} /\ Agree(c)
  <2>1. Gave(d) = {[report |-> c.before, whole |-> Whole(c.copy, c.before)]}
    BY <1>6 DEF Gave
  <2>2. Whole(c.copy, c.before) \in BOOLEAN
    BY DEF Whole
  <2>3. Whole(c.copy, c.before) \/ c.before.run # starts
    <3>1. c.before \in Stamp /\ c.after \in Stamp /\ Now.run = starts /\ starts \in Nat
      BY <1>0 DEF Client, TypeOK, Now
    <3>2. c.before.run = starts => c.after = c.before
      BY <1>0, <1>1, <1>6, <3>1 DEF Ahead, NotLater, Agree, Stamp
    <3> QED BY <1>0, <1>1, <3>2 DEF Copying
  <2>4. Given' = [Given EXCEPT ![r] = {[report |-> Seen[r], whole |-> Whole(c.copy, c.before)]}]
    BY <1>4, <2>1
  <2>5. Register!Answer(r)
    BY <1>1, <1>4, <2>2, <2>3, <2>4 DEF Register!Answer, Called, Seen, Given
  <2> QED BY <2>5
<1> QED BY <1>2, <1>5, <1>6

\* A call begins, reads the register and ends where the client does.
LEMMA ClientShowsStep ==
  ASSUME RegisterInv, NEW r \in Readers, Open(r) \/ Read(r) \/ Close(r)
  PROVE  Register!Next \/ UNCHANGED Register!registerVars
<1> DEFINE c == reader[r]
           d == reader'[r]
<1>0. TypeOK /\ c \in Client /\ Ahead(c)
  BY DEF RegisterInv, WholeInv, TypeOK
<1>1. /\ UNCHANGED <<starts, bookend1>> /\ reader' = [reader EXCEPT ![r] = d]
  BY <1>0 DEF Open, Read, Close, BeginRead, ReadBefore, CopyOut, ReadAfter, Compare,
              TypeOK, daemonVars, segmentVars
<1>2. /\ Called' = [Called EXCEPT ![r] = CallOf(d)]
      /\ Seen' = [Seen EXCEPT ![r] = d.before]
      /\ Given' = [Given EXCEPT ![r] = Gave(d)]
  BY <1>0, <1>1, ClientShows
<1>3. /\ Called[r] = CallOf(c) /\ Called = [Called EXCEPT ![r] = CallOf(c)]
      /\ Seen = [Seen EXCEPT ![r] = c.before] /\ Given = [Given EXCEPT ![r] = Gave(c)]
  BY DEF Called, Seen, Given
<1>4. CASE CallOf(d) = CallOf(c) /\ d.before = c.before /\ d.got = c.got
  <2>1. Gave(d) = Gave(c)
    BY <1>4 DEF Gave
  <2>2. UNCHANGED <<Called, Seen, Given>>
    BY <1>2, <1>3, <1>4, <2>1
  <2> QED BY <1>1, <2>2 DEF Register!registerVars, Called, Seen, Given
<1>5. CASE Open(r)
  <2>1. d = [c EXCEPT !.link = "shm", !.got = {}] /\ c = Idle
    BY <1>0, <1>5 DEF Open, TypeOK, Ahead
  <2>2. CallOf(d) = CallOf(c) /\ d.before = c.before /\ d.got = c.got
    BY <2>1 DEF Idle, CallOf
  <2> QED BY <1>4, <2>2
<1>6. CASE BeginRead(r)
  <2>1. d = [c EXCEPT !.pc = "before", !.left = Words] /\ c.pc = "idle"
    BY <1>0, <1>6 DEF BeginRead, TypeOK
  <2>2. CallOf(c) = "idle" /\ CallOf(d) = "asked" /\ d.before = c.before /\ Gave(d) = Gave(c)
    BY <1>0, <2>1 DEF CallOf, Gave, Client
  <2>3. /\ Called[r] = "idle" /\ Called' = [Called EXCEPT ![r] = "asked"]
        /\ UNCHANGED <<Seen, Given>>
    BY <1>2, <1>3, <2>2
  <2>4. Register!Ask(r)
    BY <1>1, <2>3 DEF Register!Ask, Called, Seen, Given
  <2> QED BY <2>4 DEF Register!Next
<1>7. CASE ReadBefore(r)
  <2>1. d = [c EXCEPT !.pc = "data", !.before = bookend1] /\ c.pc = "before"
    BY <1>0, <1>7 DEF ReadBefore, TypeOK
  <2>2. CallOf(c) = "asked" /\ CallOf(d) = "looked" /\ d.before = bookend1 /\ Gave(d) = Gave(c)
    BY <1>0, <2>1 DEF CallOf, Gave, Client
  <2>3. /\ Called[r] = "asked" /\ Called' = [Called EXCEPT ![r] = "looked"]
        /\ Seen' = [Seen EXCEPT ![r] = bookend1] /\ Given' = Given
    BY <1>2, <1>3, <2>2
  <2>4. Register!Look(r)
    BY <1>1, <2>3 DEF Register!Look, Called, Seen, Given
  <2> QED BY <2>4 DEF Register!Next
<1>8. ASSUME NEW w \in Words, CopyOut(r, w) PROVE UNCHANGED Register!registerVars
  <2>1. d.pc = c.pc /\ d.before = c.before /\ d.got = c.got
    BY <1>0, <1>8 DEF CopyOut, TypeOK, Client
  <2>2. CallOf(d) = CallOf(c)
    BY <2>1 DEF CallOf
  <2>3. Gave(d) = Gave(c)
    BY <2>1 DEF Gave
  <2>4. UNCHANGED <<Called, Seen, Given>>
    BY <1>2, <1>3, <2>1, <2>2, <2>3
  <2> QED BY <1>1, <2>4 DEF Register!registerVars, Called, Seen, Given
<1>9. CASE ReadAfter(r)
  <2>1. c.pc = "data" /\ d.pc = "compare" /\ d.before = c.before /\ d.got = c.got
    BY <1>0, <1>9 DEF ReadAfter, TypeOK, Client
  <2>2. CallOf(d) = CallOf(c)
    BY <2>1 DEF CallOf
  <2> QED BY <1>4, <2>1, <2>2
<1>10. CASE Compare(r)
  BY <1>10, CompareShows DEF Register!Next
<1>11. CASE Close(r)
  <2>1. d = Idle /\ c.pc = "idle"
    BY <1>0, <1>11 DEF Close, TypeOK
  <2>2. CallOf(c) = "idle" /\ CallOf(d) = "idle" /\ d.before = Zero /\ Gave(d) = {}
    BY <2>1 DEF CallOf, Gave, Idle
  <2>3. /\ Called[r] = "idle" /\ Called' = Called
        /\ Seen' = [Seen EXCEPT ![r] = Zero] /\ Given' = [Given EXCEPT ![r] = {}]
    BY <1>2, <1>3, <2>2
  <2>4. Register!Leave(r)
    BY <1>1, <2>3 DEF Register!Leave, Register!NoReport, Zero, Called, Seen, Given
  <2> QED BY <2>4 DEF Register!Next
<1> QED BY <1>5, <1>6, <1>7, <1>8, <1>9, <1>10, <1>11 DEF Read

LEMMA RegisterStarts == Init => Register!Init
<1> SUFFICES ASSUME Init PROVE Register!Init
    OBVIOUS
<1>1. CallOf(Idle) = "idle" /\ Idle.before = Zero /\ Gave(Idle) = {}
  BY DEF CallOf, Gave, Idle
<1>2. \A r \in Readers : reader[r] = Idle
  BY DEF Init
<1> QED BY <1>1, <1>2 DEF Init, Register!Init, Register!NoReport, Zero

\* With barriers the export implements a register that is read at once: every step of the
\* daemon and of any number of clients is one of the register's or leaves it alone.
THEOREM ImplementsRegister ==
  ASSUME Barriers PROVE Spec => RegisterSpec
<1>1. RegisterInv /\ [Next]_vars => [Register!Next]_(Register!registerVars)
  <2> SUFFICES ASSUME RegisterInv, [Next]_vars
               PROVE  Register!Next \/ UNCHANGED Register!registerVars
      OBVIOUS
  <2>1. CASE UNCHANGED vars
    BY <2>1 DEF vars, Register!registerVars, CallOf, Gave, Whole
  <2> QED BY <2>1, DaemonShows, ClientShowsStep DEF Next
<1>2. RegisterInv /\ [Next]_vars => RegisterInv'
  BY RegisterInvStep
<1> QED BY <1>1, <1>2, RegisterInvInit, RegisterStarts, PTL DEF Spec, RegisterSpec, Register!Spec

=============================================================================
