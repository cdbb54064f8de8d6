--------------------------- MODULE Monitors_proofs ---------------------------
(***************************************************************************)
(* Theorems about the four monitors: the log of event counters, the log of *)
(* context switches, the files of the Android reader, and the power log.   *)
(***************************************************************************)
EXTENDS EventRead, SchedTrace, ResourceUsage, PowerLog, SequenceTheorems, FiniteSetTheorems, TLAPS

-----------------------------------------------------------------------------
(* The log of event counters. *)

Row == [cell : Cell, count : Nat]

\* A cell stands for a counter the driver has; what was not opened was not read either.
EventsTyped ==
  /\ counts \in Seq(Seq(Nat)) /\ Len(counts) \in 1..MaxDevices
  /\ \A d \in DOMAIN counts : Len(counts[d]) <= MaxConsumers
  /\ at \in DOMAIN counts /\ todo \in Seq(Row)
  /\ prev \in Nat
  /\ read \in [Cell -> Nat \cup {-1}] /\ shown \in [Cell -> Nat \cup {-1}]

OnlyOpenedIsRead ==
  /\ \A i \in DOMAIN todo : todo[i].cell \in Cells
  /\ \A c \in Cell : read[c] # -1 => c \in Cells
  /\ Cells = {} => prev = 0 /\ ~repeated
  /\ \A c \in Cell : c \notin Cells => shown[c] = -1

\* The static is the last reading of a lone counter, and its last line.
LoneCounterIsPrev ==
  \A c \in Cells : Cells = {c} =>
    /\ ~repeated
    /\ read[c] > 0 => prev = read[c]
    /\ shown[c] = prev \/ (prev = 0 /\ shown[c] = -1)

\* The inductive invariant of the event log.
EventsInv ==
  /\ EventsTyped /\ OnlyOpenedIsRead /\ LoneCounterIsPrev
  /\ prev > 0 => prev \in logged
  /\ \A c \in Cell : read[c] > 0 => read[c] \in logged

CellsAreOpened == \A d, i : <<d, i>> \in Cells <=> d \in DOMAIN counts /\ i \in DOMAIN counts[d]

LEMMA CellsAre ==
  EventsTyped =>
    /\ Cells \subseteq Cell
    /\ \A c \in Cells : c = <<c[1], c[2]>>
    /\ CellsAreOpened
<1> SUFFICES ASSUME EventsTyped
             PROVE  /\ Cells \subseteq Cell
                    /\ \A c \in Cells : c = <<c[1], c[2]>>
                    /\ CellsAreOpened
  OBVIOUS
<1>1. ASSUME NEW d \in DOMAIN counts, NEW i \in DOMAIN counts[d]
      PROVE  <<d, i>> \in Cell
  <2>1. /\ counts \in Seq(Seq(Nat)) /\ Len(counts) \in 1..MaxDevices
        /\ counts[d] \in Seq(Nat) /\ Len(counts[d]) <= MaxConsumers
    BY <1>1 DEF EventsTyped
  <2>2. d \in 1..MaxDevices /\ i \in 1..MaxConsumers
    BY <1>1, <2>1, EventReadAssumption
  <2> QED BY <2>2 DEF Cell
<1>2. \A d, i : <<d, i>> \in Cells => d \in DOMAIN counts /\ i \in DOMAIN counts[d]
  BY DEF Cells, Devices
<1>3. \A d, i : d \in DOMAIN counts /\ i \in DOMAIN counts[d] => <<d, i>> \in Cells
  BY <1>1 DEF Cells, Devices
<1>4. Cells \subseteq Cell
  BY DEF Cells
<1>5. \A c \in Cell : c = <<c[1], c[2]>>
  BY DEF Cell
<1> QED BY <1>2, <1>3, <1>4, <1>5 DEF CellsAreOpened

LEMMA CellsNext == EventsTyped' => CellsAreOpened'
<1>1. EventsTyped => CellsAreOpened
  BY CellsAre
<1> QED BY <1>1, PTL

LEMMA EventsInit == EventInit => EventsInv
<1> SUFFICES ASSUME EventInit PROVE EventsInv
  OBVIOUS
<1>1. PICK n \in 1..MaxDevices : counts = [d \in 1..n |-> << >>]
  BY DEF EventInit
<1>2. counts \in Seq(Seq(Nat)) /\ Len(counts) = n /\ \A d \in DOMAIN counts : counts[d] = << >>
  BY <1>1, EventReadAssumption
<1>3. EventsTyped
  BY <1>1, <1>2, EventReadAssumption DEF EventInit, EventsTyped, Row
<1>4. Cells = {}
  BY <1>2 DEF Cells, Devices
<1> QED
  BY <1>3, <1>4 DEF EventInit, EventsInv, OnlyOpenedIsRead, LoneCounterIsPrev

LEMMA EventsStep == EventsInv /\ [EventNext]_eventVars => EventsInv'
<1> SUFFICES ASSUME EventsInv, [EventNext]_eventVars PROVE EventsInv'
  OBVIOUS
<1> USE DEF EventsInv
<1>t. /\ Cells \subseteq Cell /\ \A c \in Cells : c = <<c[1], c[2]>>
      /\ \A d, i : <<d, i>> \in Cells <=> d \in DOMAIN counts /\ i \in DOMAIN counts[d]
  BY CellsAre DEF CellsAreOpened
<1>1. ASSUME NEW d \in Devices, Opens(d) PROVE EventsInv'
  <2>1. Append(counts[d], 0) \in Seq(Nat) /\ Len(Append(counts[d], 0)) = Len(counts[d]) + 1
    BY DEF EventsTyped, Devices
  <2>2. /\ counts' \in Seq(Seq(Nat)) /\ DOMAIN counts' = DOMAIN counts /\ Len(counts') = Len(counts)
        /\ \A e \in DOMAIN counts : e # d => counts'[e] = counts[e]
        /\ counts'[d] = Append(counts[d], 0)
    BY <1>1, <2>1 DEF Opens, EventsTyped, Devices
  <2>3. counts[d] \in Seq(Nat) /\ Len(counts'[d]) <= MaxConsumers
    BY <1>1, <2>1, <2>2, EventReadAssumption DEF Opens, EventsTyped, Devices
  <2>4. \A e \in DOMAIN counts' : Len(counts'[e]) <= MaxConsumers
    BY <2>2, <2>3 DEF EventsTyped
  <2>5. EventsTyped'
    BY <1>1, <2>2, <2>4 DEF Opens, EventsTyped
  <2>6. \A e, i : <<e, i>> \in Cells' <=> e \in DOMAIN counts' /\ i \in DOMAIN counts'[e]
    BY <2>5, CellsNext DEF CellsAreOpened
  <2>7. ASSUME NEW c \in Cells PROVE c \in Cells'
    <3>1. c = <<c[1], c[2]>> /\ c[1] \in DOMAIN counts /\ c[2] \in DOMAIN counts[c[1]]
      BY <1>t, <2>7 DEF Cells, Devices
    <3>2. c[2] \in DOMAIN counts'[c[1]]
      <4>1. CASE c[1] = d
        <5>1. c[2] \in DOMAIN counts[d]
          BY <3>1, <4>1
        <5>2. c[2] \in DOMAIN Append(counts[d], 0)
          BY <2>1, <2>3, <5>1
        <5> QED BY <2>2, <4>1, <5>2
      <4>2. CASE c[1] # d
        BY <2>2, <3>1, <4>2
      <4> QED BY <4>1, <4>2
    <3> QED BY <2>2, <2>6, <3>1, <3>2
  <2>8. PICK new : new \in Cells' /\ new \notin Cells
    <3>1. Len(counts[d]) + 1 \in DOMAIN counts'[d] /\ Len(counts[d]) + 1 \notin DOMAIN counts[d]
      BY <2>1, <2>2, <2>3
    <3>2. <<d, Len(counts[d]) + 1>> \in Cells' /\ <<d, Len(counts[d]) + 1>> \notin Cells
      BY <1>t, <2>2, <2>6, <3>1 DEF Devices
    <3> QED BY <3>2
  <2>9. OnlyOpenedIsRead'
    BY <1>1, <2>7, <2>8 DEF Opens, OnlyOpenedIsRead
  <2>10. ASSUME NEW c \in Cells', Cells' = {c}
         PROVE  Cells = {} /\ c \in Cell /\ c \notin Cells
    BY <1>t, <2>7, <2>8, <2>10 DEF Cells
  <2>11. LoneCounterIsPrev'
    <3> SUFFICES ASSUME NEW c \in Cells', Cells' = {c}
                 PROVE  ~repeated /\ read[c] = -1 /\ prev = 0 /\ shown[c] = -1
      BY <1>1 DEF Opens, LoneCounterIsPrev
    <3> QED BY <2>10 DEF OnlyOpenedIsRead
  <2> QED BY <1>1, <2>5, <2>9, <2>11 DEF Opens
<1>2. ASSUME NEW d \in Devices, Consumes(d) PROVE EventsInv'
  <2>1. PICK i \in DOMAIN counts[d] : counts' = [counts EXCEPT ![d][i] = @ + 1]
    BY <1>2 DEF Consumes
  <2>2. counts[d] \in Seq(Nat) /\ counts[d][i] \in Nat
    BY DEF EventsTyped, Devices
  <2>3. PICK row : row = [counts[d] EXCEPT ![i] = @ + 1]
    OBVIOUS
  <2>4. row \in Seq(Nat) /\ Len(row) = Len(counts[d]) /\ DOMAIN row = DOMAIN counts[d]
    BY <2>2, <2>3
  <2>5. counts' = [counts EXCEPT ![d] = row]
    BY <2>1, <2>3
  <2>6. /\ counts' \in Seq(Seq(Nat)) /\ DOMAIN counts' = DOMAIN counts /\ Len(counts') = Len(counts)
        /\ \A e \in DOMAIN counts : DOMAIN counts'[e] = DOMAIN counts[e] /\ Len(counts'[e]) = Len(counts[e])
    BY SMTT(20), <2>4, <2>5 DEF EventsTyped, Devices
  <2>7. EventsTyped'
    BY <1>2, <2>6 DEF Consumes, EventsTyped, Devices
  <2>8. Cells' = Cells
    BY <2>6 DEF Cells, Devices
  <2> QED
    BY <1>2, <2>7, <2>8 DEF Consumes, OnlyOpenedIsRead, LoneCounterIsPrev
<1>3. CASE Copies
  <2>1. counts[at] \in Seq(Nat)
    BY DEF EventsTyped
  <2>2. \A i \in DOMAIN counts[at] : <<at, i>> \in Cells /\ <<at, i>> \in Cell
    BY <1>t DEF EventsTyped
  <2>3. todo' \in Seq(Row) /\ \A i \in DOMAIN todo' : todo'[i].cell \in Cells
    <3>1. todo' = [i \in DOMAIN counts[at] |-> [cell |-> <<at, i>>, count |-> counts[at][i]]]
      BY <1>3 DEF Copies
    <3>2. \A i \in DOMAIN counts[at] : todo'[i] \in Row /\ todo'[i].cell \in Cells
      BY <2>1, <2>2, <3>1 DEF Row
    <3>3. DOMAIN todo' = 1..Len(counts[at]) /\ Len(counts[at]) \in Nat
      BY <2>1, <3>1
    <3> QED BY SMTT(20), <3>1, <3>2, <3>3
  <2>4. at' \in DOMAIN counts
    BY <1>3 DEF Copies, EventsTyped
  <2>5. Cells' = Cells
    BY <1>3 DEF Copies, Cells, Devices
  <2> QED
    BY <1>3, <2>3, <2>4, <2>5 DEF Copies, EventsTyped, OnlyOpenedIsRead, LoneCounterIsPrev
<1>4. CASE Compares
  <2>1. PICK row : row = Head(todo)
    OBVIOUS
  <2>2. row \in Row /\ row.cell \in Cells /\ row.cell \in Cell /\ row.count \in Nat
    <3>1. todo \in Seq(Row) /\ todo # << >>
      BY <1>4 DEF Compares, EventsTyped
    <3>2. 1 \in DOMAIN todo /\ row = todo[1] /\ row \in Row
      BY <2>1, <3>1
    <3>3. row.cell \in Cells
      BY <3>2 DEF OnlyOpenedIsRead
    <3> QED BY <3>2, <3>3 DEF Row
  <2>3. Cells' = Cells
    BY <1>4 DEF Compares, Cells, Devices
  <2>4. todo' \in Seq(Row) /\ \A i \in DOMAIN todo' : todo'[i].cell \in Cells
    BY <1>4 DEF Compares, EventsTyped, OnlyOpenedIsRead
  <2>5. read' = [read EXCEPT ![row.cell] = row.count]
    BY <1>4, <2>1 DEF Compares
  <2>6. /\ read'[row.cell] = row.count
        /\ \A c \in Cell : c # row.cell => read'[c] = read[c]
        /\ read' \in [Cell -> Nat \cup {-1}]
    BY <2>2, <2>5 DEF EventsTyped
  <2>7. CASE row.count # prev
    <3>1. /\ prev' = row.count /\ shown' = [shown EXCEPT ![row.cell] = row.count]
          /\ logged' = logged \cup {row.count}
          /\ repeated' = (repeated \/ shown[row.cell] = row.count)
      BY <1>4, <2>1, <2>7 DEF Compares, Differs, Remembered
    <3>2. /\ shown'[row.cell] = row.count
          /\ \A c \in Cell : c # row.cell => shown'[c] = shown[c]
          /\ shown' \in [Cell -> Nat \cup {-1}]
      BY <2>2, <3>1 DEF EventsTyped
    <3>3. EventsTyped'
      BY <1>4, <2>2, <2>4, <2>6, <3>1, <3>2 DEF Compares, EventsTyped
    <3>4. OnlyOpenedIsRead'
      BY <2>2, <2>3, <2>4, <2>6, <3>1, <3>2 DEF OnlyOpenedIsRead
    <3>5. LoneCounterIsPrev'
      <4> SUFFICES ASSUME Cells = {row.cell}
                   PROVE  ~repeated' /\ read'[row.cell] = prev' /\ shown'[row.cell] = prev'
        BY <2>2, <2>3 DEF LoneCounterIsPrev
      <4>1. ~repeated /\ (shown[row.cell] = prev \/ (prev = 0 /\ shown[row.cell] = -1))
        BY DEF LoneCounterIsPrev
      <4>2. shown[row.cell] # row.count
        BY <2>2, <2>7, <4>1
      <4> QED BY <2>6, <3>1, <3>2, <4>1, <4>2
    <3> QED
      BY <2>6, <3>1, <3>3, <3>4, <3>5
  <2>8. CASE row.count = prev
    <3>1. UNCHANGED <<prev, shown, logged, repeated>>
      BY <1>4, <2>1, <2>8 DEF Compares, Differs
    <3>2. EventsTyped'
      BY <1>4, <2>2, <2>4, <2>6, <3>1 DEF Compares, EventsTyped
    <3>3. OnlyOpenedIsRead'
      BY <2>2, <2>3, <2>4, <2>6, <3>1 DEF OnlyOpenedIsRead
    <3>4. LoneCounterIsPrev'
      BY <2>2, <2>3, <2>6, <2>8, <3>1 DEF LoneCounterIsPrev
    <3> QED
      BY <2>2, <2>6, <2>8, <3>1, <3>2, <3>3, <3>4
  <2> QED BY <2>7, <2>8
<1>5. CASE UNCHANGED eventVars
  BY <1>5 DEF eventVars, EventsTyped, OnlyOpenedIsRead, LoneCounterIsPrev, Cells, Devices
<1> QED
  BY <1>1, <1>2, <1>3, <1>4, <1>5 DEF EventNext

\* The log of event counters has every value that was read, and that of a single counter is
\* exact: one static serves all counters of all devices (eventRead.c 23-45).
THEOREM EventsLogged == EventSpec => []EventsAreLogged
<1>1. EventsInv => EventsAreLogged
  <2> SUFFICES ASSUME EventsInv PROVE EventsAreLogged
    OBVIOUS
  <2>1. Cells \subseteq Cell /\ read \in [Cell -> Nat \cup {-1}]
    BY CellsAre DEF EventsInv, EventsTyped
  <2>2. LoneCounterIsExact
    BY <2>1 DEF EventsInv, LoneCounterIsPrev, LoneCounterIsExact
  <2>3. ReadIsLogged
    BY <2>1 DEF EventsInv, ReadIsLogged
  <2> QED BY <2>2, <2>3 DEF EventsAreLogged
<1> QED BY <1>1, EventsInit, EventsStep, PTL DEF EventSpec

-----------------------------------------------------------------------------
(* The files of the Android reader. *)

Line   == [by : Nat, round : Int]
Wrote  == [round : Nat, update : Nat]
Update == [task : Nat, round : Nat]
TaskState ==
  [running : BOOLEAN, output : [Places -> Nat], round : Nat, row : 0..(Length + 1),
   opened : SUBSET Places, offset : [Places -> Nat], wrote : [Places -> Seq(Wrote)]]

UsageTyped ==
  /\ minors \in Minors
  /\ tasks \in Seq(TaskState) /\ Len(tasks) >= 1
  /\ posted \in Seq(Update) /\ update \in Update
  /\ index \in Places
  /\ usage \in [Places -> Seq(Line)]
  /\ app \in {"runs", "crashed"}

\* Every minor number is a place of the array.
NoGap == \A i \in 1..Length : minors[i] \in Places

\* The row of a place that has been filled in this pass is of this round, the others are of the
\* round before; a pass that is over has filled all of them.
Filled(x, i) == x.row = 0 \/ i < x.row

PassFills(x) ==
  /\ x.row > 0 => x.round > 0
  /\ \A i \in 1..Length : minors[i] \in Places =>
       x.output[minors[i]] = IF Filled(x, i) THEN x.round ELSE x.round - 1
  /\ \A i \in 1..Length : i < x.row => minors[i] \in Places
  /\ x.round > 1 \/ (x.round = 1 /\ x.row = 0) => NoGap

OutputIsFilled == \A t \in DOMAIN tasks : PassFills(tasks[t])

\* The rounds of a task that were published, and those that came to the UI thread.
Published(t) == IF tasks[t].row = 0 THEN tasks[t].round ELSE tasks[t].round - 1
Begun(t)     == IF update.task = t THEN update.round ELSE Len(tasks[t].wrote[0])

\* The updates of a task are its rounds, each once and in their order.
RoundsAreUpdates(t) ==
  /\ Begun(t) <= Published(t)
  /\ update.task = t => update.round > 0
  /\ \A i \in DOMAIN posted : posted[i].task = t =>
       posted[i].round > Begun(t) /\ posted[i].round <= Published(t)
  /\ \A r \in (Begun(t) + 1)..Published(t) :
       \E i \in DOMAIN posted : posted[i].task = t /\ posted[i].round = r

UpdatesAreRounds ==
  /\ update.task \in DOMAIN tasks \cup {0}
  /\ update.task = 0 => update = NoUpdate /\ index = 0
  /\ \A i \in DOMAIN posted : posted[i].task \in DOMAIN tasks
  /\ \A i, j \in DOMAIN posted :
       i < j /\ posted[i].task = posted[j].task => posted[i].round < posted[j].round
  /\ \A t \in DOMAIN tasks : RoundsAreUpdates(t)

\* An update that was begun has written the rows before the index; each wrote a row of its own
\* round or of a later one.
RowsAreWritten(t) ==
  \A p \in Places :
    /\ Len(tasks[t].wrote[p]) = IF update.task = t /\ index <= p THEN update.round - 1 ELSE Begun(t)
    /\ \A i \in DOMAIN tasks[t].wrote[p] :
         tasks[t].wrote[p][i].update = i /\ tasks[t].wrote[p][i].round >= i

UpdatesAreWritten == \A t \in DOMAIN tasks : RowsAreWritten(t)

\* With one task a file is its header and what the task wrote.
FilesAreWritten ==
  Len(tasks) = 1 =>
    \A p \in Places :
      LET wrote == tasks[1].wrote[p]
      IN  IF Len(wrote) = 0 THEN p \notin tasks[1].opened
          ELSE /\ p \in tasks[1].opened /\ tasks[1].offset[p] = Len(wrote) + 1
               /\ Len(usage[p]) = Len(wrote) + 1
               /\ \A i \in DOMAIN wrote : usage[p][i + 1] = [by |-> 1, round |-> wrote[i].round]

\* The inductive invariant of the reader.
UsageInv ==
  /\ UsageTyped /\ OutputIsFilled /\ UpdatesAreRounds /\ UpdatesAreWritten /\ FilesAreWritten
  /\ CrashNeedsAGap

LEMMA TasksAre ==
  ASSUME NEW x, x \in TaskState
  PROVE  /\ x.running \in BOOLEAN /\ x.output \in [Places -> Nat] /\ x.round \in Nat
         /\ x.row \in Nat /\ x.row <= Length + 1
         /\ x.opened \subseteq Places /\ x.offset \in [Places -> Nat]
         /\ x.wrote \in [Places -> Seq(Wrote)]
BY ResourceAssumption DEF TaskState

LEMMA PlacesAre == 0 \in Places /\ Places \subseteq Int /\ \A p \in Places : 0 <= p /\ p < Length
BY ResourceAssumption DEF Places

LEMMA CreatedIs ==
  /\ Created \in TaskState
  /\ Created.round = 0 /\ Created.row = 0 /\ \A p \in Places : Created.wrote[p] = << >>
  /\ \A p \in Places : Created.output[p] = 0
  /\ Created.opened = {}
BY ResourceAssumption, PlacesAre DEF Created, TaskState

LEMMA MinorsAre ==
  ASSUME minors \in Minors
  PROVE  minors \in [1..Length -> Nat] /\ \A i, j \in 1..Length : i # j => minors[i] # minors[j]
BY ResourceAssumption

\* If every minor number is a place, every place has one.
LEMMA EveryPlaceHasARow ==
  ASSUME minors \in Minors, NoGap, NEW p, p \in Places
  PROVE  \E i \in 1..Length : minors[i] = p
<1> SUFFICES ASSUME \A i \in 1..Length : minors[i] # p PROVE FALSE
  OBVIOUS
<1> DEFINE T == Places \ {p}
<1>1. IsFiniteSet(1..Length) /\ Cardinality(1..Length) = Length
  BY FS_Interval, ResourceAssumption
<1>2. IsFiniteSet(Places) /\ Cardinality(Places) = Length
  <2>1. PICK top : top = Length - 1
    OBVIOUS
  <2>2. top \in Int /\ 0 \in Int /\ 0 <= top /\ Places = 0..top
    BY <2>1, ResourceAssumption DEF Places
  <2>3. IsFiniteSet(0..top) /\ Cardinality(0..top) = IF 0 > top THEN 0 ELSE top - 0 + 1
    BY <2>2, FS_Interval
  <2>4. Cardinality(0..top) = Length
    BY <2>1, <2>2, <2>3, ResourceAssumption
  <2> QED BY <2>2, <2>3, <2>4
<1>3. IsFiniteSet(T) /\ Cardinality(T) = Length - 1
  BY <1>2, FS_RemoveElement
<1>4. Cardinality(T) < Cardinality(1..Length)
  BY <1>1, <1>3, ResourceAssumption
<1>5. minors \in [1..Length -> T]
  BY MinorsAre DEF NoGap
<1>6. \E x, y \in 1..Length : x # y /\ minors[x] = minors[y]
  <2> HIDE DEF T
  <2> DEFINE rows == 1..Length
  <2>1. IsFiniteSet(rows) /\ Cardinality(T) < Cardinality(rows) /\ minors \in [rows -> T]
    BY <1>1, <1>4, <1>5
  <2> HIDE DEF rows
  <2>2. \E x, y \in rows : x # y /\ minors[x] = minors[y]
    BY ONLY <1>3, <2>1, FS_PigeonHole
  <2> QED BY <2>2 DEF rows
<1> QED BY <1>6, MinorsAre

\* A task is changed, the others are not.
LEMMA OneTaskChanges ==
  ASSUME NEW old, old \in Seq(TaskState), NEW t, t \in DOMAIN old,
         NEW x, x \in TaskState, NEW new, new = [old EXCEPT ![t] = x]
  PROVE  /\ new \in Seq(TaskState) /\ Len(new) = Len(old) /\ DOMAIN new = DOMAIN old
         /\ new[t] = x /\ \A s \in DOMAIN old : s # t => new[s] = old[s]
OBVIOUS

LEMMA UsageInitInv == UsageInit => UsageInv
<1> SUFFICES ASSUME UsageInit PROVE UsageInv
  OBVIOUS
<1>1. /\ tasks \in Seq(TaskState) /\ Len(tasks) = 1 /\ DOMAIN tasks = {1} /\ tasks[1] = Created
  BY CreatedIs DEF UsageInit
<1>2. UsageTyped
  BY <1>1, PlacesAre DEF UsageInit, UsageTyped, NoUpdate, Update
<1>3. OutputIsFilled
  BY <1>1, CreatedIs DEF OutputIsFilled, PassFills, Filled
<1>4. Begun(1) = 0 /\ Published(1) = 0
  BY <1>1, CreatedIs, PlacesAre DEF UsageInit, Begun, Published, NoUpdate
<1>5. UpdatesAreRounds
  BY <1>1, <1>4 DEF UsageInit, UpdatesAreRounds, RoundsAreUpdates, NoUpdate
<1>6. UpdatesAreWritten
  BY <1>1, <1>4, CreatedIs DEF UsageInit, UpdatesAreWritten, RowsAreWritten, NoUpdate
<1>7. FilesAreWritten
  BY <1>1, CreatedIs DEF FilesAreWritten
<1> QED
  BY <1>2, <1>3, <1>5, <1>6, <1>7 DEF UsageInit, UsageInv, CrashNeedsAGap

\* What the invariant says of a task and an update, for the steps.
LEMMA InvIs ==
  ASSUME UsageInv
  PROVE  /\ UsageTyped /\ OutputIsFilled /\ UpdatesAreRounds /\ UpdatesAreWritten
         /\ FilesAreWritten /\ CrashNeedsAGap
         /\ minors \in Minors /\ tasks \in Seq(TaskState) /\ Len(tasks) >= 1
         /\ posted \in Seq(Update) /\ update \in Update /\ index \in Places
         /\ usage \in [Places -> Seq(Line)] /\ app \in {"runs", "crashed"}
         /\ \A t \in DOMAIN tasks : tasks[t] \in TaskState /\ PassFills(tasks[t])
BY DEF UsageInv, UsageTyped, OutputIsFilled

LEMMA CountsAre ==
  ASSUME UsageInv, NEW t, t \in DOMAIN tasks
  PROVE  Begun(t) \in Nat /\ Published(t) \in Nat /\ Begun(t) <= Published(t)
<1>1. tasks[t] \in TaskState /\ PassFills(tasks[t]) /\ update \in Update /\ RoundsAreUpdates(t)
  BY InvIs DEF UpdatesAreRounds
<1>2. tasks[t].wrote \in [Places -> Seq(Wrote)] /\ tasks[t].round \in Nat /\ tasks[t].row \in Nat
  BY <1>1, TasksAre
<1>3. Len(tasks[t].wrote[0]) \in Nat /\ update.round \in Nat
  BY <1>1, <1>2, PlacesAre DEF Update
<1>4. Begun(t) \in Nat
  BY <1>3 DEF Begun
<1>5. Published(t) \in Nat
  BY <1>1, <1>2 DEF Published, PassFills
<1> QED BY <1>1, <1>4, <1>5 DEF RoundsAreUpdates

\* What is said of a task does not change with the tasks.
LEMMA FillsNext ==
  ASSUME minors' = minors, \A s \in DOMAIN tasks' : PassFills(tasks'[s])
  PROVE  OutputIsFilled'
BY DEF OutputIsFilled, PassFills, Filled, NoGap, Places

\* Steps that do not publish and do not write.
LEMMA NothingPublished ==
  ASSUME UpdatesAreRounds, UNCHANGED <<posted, update, index>>, DOMAIN tasks' = DOMAIN tasks,
         \A s \in DOMAIN tasks : Begun(s)' = Begun(s) /\ Published(s)' = Published(s)
  PROVE  UpdatesAreRounds'
<1>1. \A s \in DOMAIN tasks : RoundsAreUpdates(s)'
  <2> SUFFICES ASSUME NEW s \in DOMAIN tasks PROVE RoundsAreUpdates(s)'
    OBVIOUS
  <2>1. RoundsAreUpdates(s) /\ Begun(s)' = Begun(s) /\ Published(s)' = Published(s)
    BY DEF UpdatesAreRounds
  <2> QED BY <2>1 DEF RoundsAreUpdates
<1> QED BY <1>1 DEF UpdatesAreRounds, NoUpdate

LEMMA NothingAppended ==
  ASSUME UpdatesAreWritten, UNCHANGED <<update, index>>, DOMAIN tasks' = DOMAIN tasks,
         \A s \in DOMAIN tasks : tasks'[s].wrote = tasks[s].wrote
  PROVE  UpdatesAreWritten' /\ \A s \in DOMAIN tasks : Begun(s)' = Begun(s)
<1>1. \A s \in DOMAIN tasks : Begun(s)' = Begun(s)
  BY DEF Begun
<1>2. \A s \in DOMAIN tasks : RowsAreWritten(s)'
  <2> SUFFICES ASSUME NEW s \in DOMAIN tasks PROVE RowsAreWritten(s)'
    OBVIOUS
  <2>1. RowsAreWritten(s) /\ Begun(s)' = Begun(s) /\ tasks'[s].wrote = tasks[s].wrote
    BY <1>1 DEF UpdatesAreWritten
  <2> QED BY <2>1 DEF RowsAreWritten, Places
<1> QED BY <1>1, <1>2 DEF UpdatesAreWritten

\* The files of a lone task, when nothing is written.
LEMMA NothingWritten ==
  ASSUME FilesAreWritten, usage' = usage, Len(tasks') = Len(tasks),
         Len(tasks) = 1 => /\ tasks'[1].wrote = tasks[1].wrote /\ tasks'[1].opened = tasks[1].opened
                           /\ tasks'[1].offset = tasks[1].offset
  PROVE  FilesAreWritten'
<1> SUFFICES ASSUME Len(tasks') = 1, NEW p \in Places'
             PROVE  (LET wrote == tasks[1].wrote[p]
                     IN  IF Len(wrote) = 0 THEN p \notin tasks[1].opened
                         ELSE /\ p \in tasks[1].opened /\ tasks[1].offset[p] = Len(wrote) + 1
                              /\ Len(usage[p]) = Len(wrote) + 1
                              /\ \A i \in DOMAIN wrote :
                                   usage[p][i + 1] = [by |-> 1, round |-> wrote[i].round])'
  BY DEF FilesAreWritten
<1>1. /\ tasks'[1].wrote = tasks[1].wrote /\ tasks'[1].opened = tasks[1].opened
      /\ tasks'[1].offset = tasks[1].offset /\ Len(tasks) = 1 /\ p \in Places
  BY DEF Places
<1> QED BY <1>1 DEF FilesAreWritten

LEMMA CreatesStep == UsageInv /\ Creates => UsageInv'
<1> SUFFICES ASSUME UsageInv, Creates PROVE UsageInv'
  OBVIOUS
<1>t. tasks' = Append(tasks, Created) /\ UNCHANGED <<minors, posted, update, index, usage, app>>
  BY DEF Creates
<1>1. PICK n : n = Len(tasks) + 1
  OBVIOUS
<1>2. /\ tasks' \in Seq(TaskState) /\ Len(tasks') = n /\ n \in Nat /\ n >= 2
      /\ DOMAIN tasks' = DOMAIN tasks \cup {n} /\ n \notin DOMAIN tasks
      /\ tasks'[n] = Created /\ \A t \in DOMAIN tasks : tasks'[t] = tasks[t]
  BY <1>t, <1>1, InvIs, CreatedIs
<1>3. UsageTyped'
  BY <1>t, <1>2, InvIs DEF UsageTyped
<1>4. PassFills(Created)
  BY CreatedIs DEF PassFills, Filled
<1>5. OutputIsFilled'
  <2>1. \A s \in DOMAIN tasks' : PassFills(tasks'[s])
    BY <1>2, <1>4, InvIs
  <2> QED BY <1>t, <2>1, FillsNext
<1>6. update.task # n /\ n # 0
  BY <1>2, InvIs DEF UpdatesAreRounds
<1>7. Begun(n)' = 0 /\ Published(n)' = 0
  BY <1>t, <1>2, <1>6, CreatedIs, PlacesAre DEF Begun, Published
<1>8. \A t \in DOMAIN tasks : Begun(t)' = Begun(t) /\ Published(t)' = Published(t)
  BY <1>t, <1>2 DEF Begun, Published
<1>9. UpdatesAreRounds'
  <2>1. RoundsAreUpdates(n)'
    <3>1. \A i \in DOMAIN posted : posted[i].task # n
      BY <1>2, InvIs DEF UpdatesAreRounds
    <3> QED BY <1>t, <1>6, <1>7, <3>1 DEF RoundsAreUpdates
  <2>2. ASSUME NEW s \in DOMAIN tasks PROVE RoundsAreUpdates(s)'
    <3>1. RoundsAreUpdates(s) /\ Begun(s)' = Begun(s) /\ Published(s)' = Published(s)
      BY <1>8, InvIs DEF UpdatesAreRounds
    <3> QED BY <1>t, <3>1 DEF RoundsAreUpdates
  <2>3. \A s \in DOMAIN tasks' : RoundsAreUpdates(s)'
    BY <1>2, <2>1, <2>2
  <2> QED BY <1>t, <1>2, <2>3, InvIs DEF UpdatesAreRounds, NoUpdate
<1>10. UpdatesAreWritten'
  <2>1. RowsAreWritten(n)'
    BY <1>t, <1>2, <1>6, <1>7, CreatedIs DEF RowsAreWritten, Places
  <2>2. ASSUME NEW s \in DOMAIN tasks PROVE RowsAreWritten(s)'
    <3>1. RowsAreWritten(s) /\ Begun(s)' = Begun(s) /\ tasks'[s] = tasks[s]
      BY <1>2, <1>8, InvIs DEF UpdatesAreWritten
    <3> QED BY <1>t, <3>1 DEF RowsAreWritten, Places
  <2> QED BY <1>2, <2>1, <2>2 DEF UpdatesAreWritten
<1>11. FilesAreWritten'
  BY <1>2 DEF FilesAreWritten
<1>12. CrashNeedsAGap'
  BY <1>t, InvIs DEF CrashNeedsAGap, Places
<1> QED
  BY <1>3, <1>5, <1>9, <1>10, <1>11, <1>12 DEF UsageInv

LEMMA BeginsRoundStep == ASSUME NEW t \in DOMAIN tasks PROVE UsageInv /\ BeginsRound(t) => UsageInv'
<1> SUFFICES ASSUME UsageInv, BeginsRound(t) PROVE UsageInv'
  OBVIOUS
<1>t. UNCHANGED <<minors, posted, update, index, usage, app>> /\ tasks[t].row = 0
  BY DEF BeginsRound, Task
<1>x. tasks[t] \in TaskState /\ PassFills(tasks[t])
  BY InvIs
<1>1. PICK x : /\ tasks' = [tasks EXCEPT ![t] = x]
               /\ \/ x = [tasks[t] EXCEPT !.round = @ + 1, !.row = 1]
                  \/ x = [tasks[t] EXCEPT !.running = FALSE]
  BY DEF BeginsRound
<1>2. /\ x \in TaskState /\ x.wrote = tasks[t].wrote /\ x.opened = tasks[t].opened
      /\ x.offset = tasks[t].offset /\ x.output = tasks[t].output
      /\ \/ x.round = tasks[t].round + 1 /\ x.row = 1
         \/ x.round = tasks[t].round /\ x.row = 0
  <2>1. 1 \in 0..(Length + 1) /\ 0 \in 0..(Length + 1) /\ tasks[t].round + 1 \in Nat
    BY <1>x, TasksAre, ResourceAssumption
  <2>2. CASE x = [tasks[t] EXCEPT !.round = @ + 1, !.row = 1]
    BY <1>x, <2>1, <2>2 DEF TaskState
  <2>3. CASE x = [tasks[t] EXCEPT !.running = FALSE]
    BY <1>t, <1>x, <2>3 DEF TaskState
  <2> QED BY <1>1, <2>2, <2>3
<1>3. /\ tasks' \in Seq(TaskState) /\ Len(tasks') = Len(tasks) /\ DOMAIN tasks' = DOMAIN tasks
      /\ tasks'[t] = x /\ \A s \in DOMAIN tasks : s # t => tasks'[s] = tasks[s]
  BY <1>1, <1>2, InvIs, OneTaskChanges
<1>4. UsageTyped'
  BY <1>t, <1>3, InvIs DEF UsageTyped
<1>5. PassFills(x)
  <2>1. CASE x.round = tasks[t].round + 1 /\ x.row = 1
    <3>1. tasks[t].round \in Nat /\ x.round > 0 /\ x.row = 1 /\ x.round - 1 = tasks[t].round
      BY <1>x, <2>1, TasksAre
    <3>2. \A i \in 1..Length : ~(i < x.row) /\ ~Filled(x, i) /\ Filled(tasks[t], i)
      BY <1>t, <2>1 DEF Filled
    <3>3. x.round > 1 => NoGap
      <4>1. x.round > 1 => tasks[t].round > 1 \/ tasks[t].round = 1
        BY <2>1, <3>1
      <4> QED BY <1>t, <1>x, <4>1 DEF PassFills
    <3>4. \A i \in 1..Length : minors[i] \in Places => x.output[minors[i]] = x.round - 1
      BY <1>x, <1>2, <3>1, <3>2 DEF PassFills
    <3> QED BY <3>1, <3>2, <3>3, <3>4 DEF PassFills
  <2>2. CASE x.round = tasks[t].round /\ x.row = 0
    BY <1>t, <1>x, <1>2, <2>2 DEF PassFills, Filled
  <2> QED BY <1>2, <2>1, <2>2
<1>6. OutputIsFilled'
  <2>1. \A s \in DOMAIN tasks : PassFills(tasks'[s])
    BY <1>3, <1>5, InvIs
  <2> QED BY <1>t, <1>3, <2>1, FillsNext
<1>7. \A s \in DOMAIN tasks : Begun(s)' = Begun(s) /\ Published(s)' = Published(s)
  <2>1. \A s \in DOMAIN tasks : tasks'[s].wrote = tasks[s].wrote
    BY <1>2, <1>3
  <2>2. (IF x.row = 0 THEN x.round ELSE x.round - 1) = IF tasks[t].row = 0 THEN tasks[t].round ELSE tasks[t].round - 1
    <3>1. tasks[t].round \in Nat
      BY <1>x DEF TaskState
    <3> QED BY <1>t, <1>2, <3>1
  <2>3. \A s \in DOMAIN tasks : Published(s)' = Published(s)
    BY <1>3, <2>2 DEF Published
  <2> QED BY <1>t, <2>1, <2>3 DEF Begun
<1>8. UpdatesAreRounds'
  BY <1>t, <1>3, <1>7, InvIs, NothingPublished
<1>9. \A s \in DOMAIN tasks : tasks'[s].wrote = tasks[s].wrote
  BY <1>2, <1>3
<1>10. UpdatesAreWritten'
  BY <1>t, <1>3, <1>9, InvIs, NothingAppended
<1>11. FilesAreWritten'
  <2>1. tasks'[1].wrote = tasks[1].wrote /\ tasks'[1].opened = tasks[1].opened
        /\ tasks'[1].offset = tasks[1].offset
    <3>1. 1 \in DOMAIN tasks
      BY InvIs
    <3> QED BY <1>2, <1>3, <3>1
  <2> QED BY <1>t, <1>3, <2>1, InvIs, NothingWritten
<1>12. CrashNeedsAGap'
  BY <1>t, InvIs DEF CrashNeedsAGap, Places
<1> QED
  BY <1>4, <1>6, <1>8, <1>10, <1>11, <1>12 DEF UsageInv

LEMMA FillsRowStep == ASSUME NEW t \in DOMAIN tasks PROVE UsageInv /\ FillsRow(t) => UsageInv'
<1> SUFFICES ASSUME UsageInv, FillsRow(t) PROVE UsageInv'
  OBVIOUS
<1>t. UNCHANGED <<minors, posted, update, index, usage>> /\ tasks[t].row \in 1..Length
  BY DEF FillsRow, Task
<1>x. tasks[t] \in TaskState /\ PassFills(tasks[t])
  BY InvIs
<1>w. tasks[t].row \in Nat /\ tasks[t].round \in Nat /\ tasks[t].output \in [Places -> Nat]
  BY <1>x, ResourceAssumption DEF TaskState
<1>p. PICK place : place = minors[tasks[t].row]
  OBVIOUS
<1>1. CASE place \in Places
  <2>1. /\ app' = app
        /\ tasks' = [tasks EXCEPT ![t].output[place] = tasks[t].round, ![t].row = @ + 1]
    BY <1>p, <1>1 DEF FillsRow, Task
  <2>2. PICK rows : rows = [tasks[t].output EXCEPT ![place] = tasks[t].round]
    OBVIOUS
  <2>3. rows \in [Places -> Nat] /\ rows[place] = tasks[t].round
        /\ \A p \in Places : p # place => rows[p] = tasks[t].output[p]
    BY <1>1, <1>w, <2>2
  <2>4. PICK x : x = [tasks[t] EXCEPT !.output = rows, !.row = @ + 1]
    OBVIOUS
  <2>5. /\ x \in TaskState /\ x.wrote = tasks[t].wrote /\ x.opened = tasks[t].opened
        /\ x.offset = tasks[t].offset /\ x.output = rows
        /\ x.round = tasks[t].round /\ x.row = tasks[t].row + 1
    <3>1. tasks[t].row + 1 \in 0..(Length + 1)
      BY <1>t, <1>w, ResourceAssumption
    <3> QED BY <1>x, <2>3, <2>4, <3>1 DEF TaskState
  <2>6. tasks' = [tasks EXCEPT ![t] = x]
    BY <2>1, <2>2, <2>4
  <2>7. /\ tasks' \in Seq(TaskState) /\ Len(tasks') = Len(tasks) /\ DOMAIN tasks' = DOMAIN tasks
        /\ tasks'[t] = x /\ \A s \in DOMAIN tasks : s # t => tasks'[s] = tasks[s]
    BY <2>5, <2>6, InvIs, OneTaskChanges
  <2>8. UsageTyped'
    BY <1>t, <2>1, <2>7, InvIs DEF UsageTyped
  <2>9. PassFills(x)
    <3>1. \A i \in 1..Length : i # tasks[t].row => minors[i] # place /\ (Filled(x, i) <=> Filled(tasks[t], i))
      BY <1>t, <1>w, <1>p, <2>5, MinorsAre, InvIs DEF Filled
    <3>2. Filled(x, tasks[t].row) /\ minors[tasks[t].row] = place
      BY <1>w, <1>p, <2>5 DEF Filled
    <3>3. ASSUME NEW i \in 1..Length, minors[i] \in Places
          PROVE  x.output[minors[i]] = IF Filled(x, i) THEN x.round ELSE x.round - 1
      <4>1. CASE i = tasks[t].row
        BY <2>3, <2>5, <3>2, <4>1
      <4>2. CASE i # tasks[t].row
        <5>1. x.output[minors[i]] = tasks[t].output[minors[i]]
          BY <2>3, <2>5, <3>1, <3>3, <4>2
        <5>2. tasks[t].output[minors[i]] = IF Filled(tasks[t], i) THEN tasks[t].round ELSE tasks[t].round - 1
          BY <1>x, <3>3 DEF PassFills
        <5> QED BY <2>5, <3>1, <4>2, <5>1, <5>2
      <4> QED BY <4>1, <4>2
    <3>4. \A i \in 1..Length : i < x.row => minors[i] \in Places
      BY <1>1, <1>p, <1>w, <1>x, <2>5 DEF PassFills
    <3>5. x.row > 0 /\ x.round > 0 /\ x.row # 0
      BY <1>t, <1>w, <1>x, <2>5 DEF PassFills
    <3>6. x.round > 1 => NoGap
      BY <1>x, <2>5 DEF PassFills
    <3> QED BY <3>3, <3>4, <3>5, <3>6 DEF PassFills
  <2>10. OutputIsFilled'
    <3>1. \A s \in DOMAIN tasks : PassFills(tasks'[s])
      BY <2>7, <2>9, InvIs
    <3> QED BY <1>t, <2>7, <3>1, FillsNext
  <2>11. \A s \in DOMAIN tasks : tasks'[s].wrote = tasks[s].wrote
    BY <2>5, <2>7
  <2>12. \A s \in DOMAIN tasks : Begun(s)' = Begun(s) /\ Published(s)' = Published(s)
    <3>1. tasks[t].row # 0 /\ x.row # 0
      BY <1>t, <1>w, <2>5
    <3>2. \A s \in DOMAIN tasks : Published(s)' = Published(s)
      BY <2>5, <2>7, <3>1 DEF Published
    <3> QED BY <1>t, <2>11, <3>2 DEF Begun
  <2>13. UpdatesAreRounds'
    BY <1>t, <2>7, <2>12, InvIs, NothingPublished
  <2>14. UpdatesAreWritten'
    BY <1>t, <2>7, <2>11, InvIs, NothingAppended
  <2>15. FilesAreWritten'
    <3>1. 1 \in DOMAIN tasks
      BY InvIs
    <3>2. tasks'[1].wrote = tasks[1].wrote /\ tasks'[1].opened = tasks[1].opened
          /\ tasks'[1].offset = tasks[1].offset
      BY <2>5, <2>7, <3>1
    <3> QED BY <1>t, <2>7, <3>2, InvIs, NothingWritten
  <2>16. CrashNeedsAGap'
    BY <1>t, <2>1, InvIs DEF CrashNeedsAGap, Places
  <2> QED
    BY <2>8, <2>10, <2>13, <2>14, <2>15, <2>16 DEF UsageInv
<1>2. CASE place \notin Places
  <2>1. app' = "crashed" /\ tasks' = tasks
    BY <1>p, <1>2 DEF FillsRow, Task
  <2>2. CrashNeedsAGap'
    BY <1>t, <1>p, <1>2 DEF CrashNeedsAGap, Places
  <2>3. UsageTyped'
    BY <1>t, <2>1, InvIs DEF UsageTyped
  <2>4. OutputIsFilled'
    <3>1. \A s \in DOMAIN tasks' : PassFills(tasks'[s])
      BY <2>1, InvIs
    <3> QED BY <1>t, <3>1, FillsNext
  <2>5. UpdatesAreRounds' /\ UpdatesAreWritten'
    <3>1. \A s : Begun(s)' = Begun(s) /\ Published(s)' = Published(s)
      BY <1>t, <2>1 DEF Begun, Published
    <3>2. UpdatesAreRounds'
      BY <1>t, <2>1, <3>1, InvIs, NothingPublished
    <3>3. UpdatesAreWritten'
      BY <1>t, <2>1, InvIs, NothingAppended
    <3> QED BY <3>2, <3>3
  <2>6. FilesAreWritten'
    BY <1>t, <2>1, InvIs, NothingWritten
  <2> QED BY <2>2, <2>3, <2>4, <2>5, <2>6 DEF UsageInv
<1> QED BY <1>1, <1>2

LEMMA PublishesStep == ASSUME NEW t \in DOMAIN tasks PROVE UsageInv /\ Publishes(t) => UsageInv'
<1> SUFFICES ASSUME UsageInv, Publishes(t) PROVE UsageInv'
  OBVIOUS
<1>t. UNCHANGED <<minors, update, index, usage, app>> /\ tasks[t].row = Length + 1
  BY DEF Publishes, Task
<1>x. tasks[t] \in TaskState /\ PassFills(tasks[t])
  BY InvIs
<1>w. /\ tasks[t].row > Length /\ tasks[t].row > 0 /\ tasks[t].round \in Nat /\ tasks[t].round > 0
      /\ t \in Nat /\ t # 0
  <2>1. tasks[t].round \in Nat /\ t \in Nat /\ t # 0
    BY SMTT(60), <1>x, InvIs DEF TaskState
  <2>2. tasks[t].row > Length /\ tasks[t].row > 0
    BY <1>t, ResourceAssumption
  <2> QED BY <1>x, <2>1, <2>2 DEF PassFills
<1>1. PICK x : x = [tasks[t] EXCEPT !.row = 0]
  OBVIOUS
<1>2. tasks' = [tasks EXCEPT ![t] = x]
  BY <1>1 DEF Publishes
<1>3. /\ x \in TaskState /\ x.wrote = tasks[t].wrote /\ x.opened = tasks[t].opened
      /\ x.offset = tasks[t].offset /\ x.output = tasks[t].output
      /\ x.round = tasks[t].round /\ x.row = 0
  <2>1. 0 \in 0..(Length + 1)
    BY ResourceAssumption
  <2> QED BY <1>x, <1>1, <2>1 DEF TaskState
<1>4. /\ tasks' \in Seq(TaskState) /\ Len(tasks') = Len(tasks) /\ DOMAIN tasks' = DOMAIN tasks
      /\ tasks'[t] = x /\ \A s \in DOMAIN tasks : s # t => tasks'[s] = tasks[s]
  BY <1>2, <1>3, InvIs, OneTaskChanges
<1>5. PICK u : u = [task |-> t, round |-> tasks[t].round]
  OBVIOUS
<1>6. u \in Update /\ u.task = t /\ u.round = tasks[t].round
  BY <1>w, <1>5 DEF Update
<1>7. posted' = Append(posted, u)
  BY <1>5 DEF Publishes, Post, Task
<1>8. PICK n : n = Len(posted) + 1
  OBVIOUS
<1>9. /\ posted' \in Seq(Update) /\ n \in Nat
      /\ DOMAIN posted' = DOMAIN posted \cup {n} /\ posted'[n] = u
      /\ \A i \in DOMAIN posted : posted'[i] = posted[i] /\ i < n /\ i \in Nat
  BY <1>6, <1>7, <1>8, InvIs
<1>10. UsageTyped'
  BY <1>t, <1>4, <1>9, InvIs DEF UsageTyped
<1>11. PassFills(x)
  <2>1. \A i \in 1..Length : Filled(x, i) /\ Filled(tasks[t], i) /\ minors[i] \in Places
    <3> SUFFICES ASSUME NEW i \in 1..Length
                 PROVE  Filled(x, i) /\ Filled(tasks[t], i) /\ minors[i] \in Places
      OBVIOUS
    <3>1. i < tasks[t].row
      BY <1>t, ResourceAssumption
    <3> QED BY <1>x, <1>3, <3>1 DEF Filled, PassFills
  <2>2. NoGap
    BY <2>1 DEF NoGap
  <2> QED BY <1>x, <1>3, <2>1, <2>2 DEF PassFills
<1>12. OutputIsFilled'
  <2>1. \A s \in DOMAIN tasks : PassFills(tasks'[s])
    BY <1>4, <1>11, InvIs
  <2> QED BY <1>t, <1>4, <2>1, FillsNext
<1>13. \A s \in DOMAIN tasks : tasks'[s].wrote = tasks[s].wrote
  BY <1>3, <1>4
<1>14. UpdatesAreWritten' /\ \A s \in DOMAIN tasks : Begun(s)' = Begun(s)
  BY <1>t, <1>4, <1>13, InvIs, NothingAppended
<1>15. /\ \A s \in DOMAIN tasks : s # t => Published(s)' = Published(s)
       /\ Published(t)' = u.round /\ Published(t) = u.round - 1 /\ u.round \in Nat
  BY <1>w, <1>3, <1>4, <1>6 DEF Published
<1>16. Begun(t) \in Nat /\ RoundsAreUpdates(t)
  BY InvIs, CountsAre DEF UpdatesAreRounds
<1>17. \A i \in DOMAIN posted : posted[i].round \in Nat
  <2>1. posted \in Seq(Update)
    BY InvIs
  <2>2. \A i \in DOMAIN posted : posted[i] \in Update
    BY <2>1
  <2> QED BY <2>2 DEF Update
<1>18. UpdatesAreRounds'
  <2>1. RoundsAreUpdates(t)'
    <3>1. Begun(t)' = Begun(t) /\ Begun(t) <= Published(t)
      BY <1>14, <1>16 DEF RoundsAreUpdates
    <3>2. update'.task = t => update'.round > 0
      BY <1>t, <1>16 DEF RoundsAreUpdates
    <3>3. ASSUME NEW i \in DOMAIN posted', posted'[i].task = t
          PROVE  posted'[i].round > Begun(t) /\ posted'[i].round <= u.round
      <4>1. CASE i = n
        BY <1>6, <1>9, <1>15, <1>16, <3>1, <4>1
      <4>2. CASE i \in DOMAIN posted
        <5>1. posted[i].round > Begun(t) /\ posted[i].round <= Published(t)
          BY <1>9, <1>16, <3>3, <4>2 DEF RoundsAreUpdates
        <5> QED BY <1>9, <1>15, <1>17, <4>2, <5>1
      <4> QED BY <1>9, <4>1, <4>2
    <3>4. ASSUME NEW r \in (Begun(t) + 1)..u.round
          PROVE  \E i \in DOMAIN posted' : posted'[i].task = t /\ posted'[i].round = r
      <4>1. CASE r = u.round
        BY <1>6, <1>9, <4>1
      <4>2. CASE r # u.round
        <5>1. r \in (Begun(t) + 1)..Published(t)
          BY <1>15, <1>16, <3>4, <4>2
        <5>2. PICK i \in DOMAIN posted : posted[i].task = t /\ posted[i].round = r
          BY <1>16, <5>1 DEF RoundsAreUpdates
        <5> QED BY <1>9, <5>2
      <4> QED BY <4>1, <4>2
    <3>5. Begun(t) <= u.round
      BY <1>15, <1>16, <3>1
    <3> QED BY <1>15, <3>1, <3>2, <3>3, <3>4, <3>5 DEF RoundsAreUpdates
  <2>2. ASSUME NEW s \in DOMAIN tasks, s # t PROVE RoundsAreUpdates(s)'
    <3>1. RoundsAreUpdates(s) /\ Begun(s)' = Begun(s) /\ Published(s)' = Published(s)
      BY <1>14, <1>15, <2>2, InvIs DEF UpdatesAreRounds
    <3>2. \A i \in DOMAIN posted' : posted'[i].task = s => i \in DOMAIN posted /\ posted'[i] = posted[i]
      BY <1>6, <1>9, <2>2
    <3> QED BY <1>t, <1>9, <3>1, <3>2 DEF RoundsAreUpdates
  <2>3. \A i \in DOMAIN posted' : posted'[i].task \in DOMAIN tasks
    BY <1>6, <1>9, InvIs DEF UpdatesAreRounds
  <2>4. ASSUME NEW i \in DOMAIN posted', NEW j \in DOMAIN posted', i < j, posted'[i].task = posted'[j].task
        PROVE  posted'[i].round < posted'[j].round
    <3>1. i \in DOMAIN posted /\ posted'[i] = posted[i]
      BY <1>9, <2>4
    <3>2. CASE j = n
      <4>1. posted[i].task = t /\ posted'[j].round = u.round
        BY <1>6, <1>9, <2>4, <3>1, <3>2
      <4>2. posted[i].round <= Published(t)
        BY <1>16, <3>1, <4>1 DEF RoundsAreUpdates
      <4> QED BY <1>15, <1>17, <3>1, <4>1, <4>2
    <3>3. CASE j # n
      BY <1>9, <2>4, <3>1, <3>3, InvIs DEF UpdatesAreRounds
    <3> QED BY <3>2, <3>3
  <2>5. \A s \in DOMAIN tasks' : RoundsAreUpdates(s)'
    BY <1>4, <2>1, <2>2
  <2> QED BY <1>t, <1>4, <2>3, <2>4, <2>5, InvIs DEF UpdatesAreRounds, NoUpdate
<1>19. FilesAreWritten'
  <2>1. 1 \in DOMAIN tasks
    BY InvIs
  <2>2. tasks'[1].wrote = tasks[1].wrote /\ tasks'[1].opened = tasks[1].opened
        /\ tasks'[1].offset = tasks[1].offset
    BY <1>3, <1>4, <2>1
  <2> QED BY <1>t, <1>4, <2>2, InvIs, NothingWritten
<1>20. CrashNeedsAGap'
  BY <1>t, InvIs DEF CrashNeedsAGap, Places
<1> QED
  BY <1>10, <1>12, <1>14, <1>18, <1>19, <1>20 DEF UsageInv

LEMMA BeginsUpdateStep == UsageInv /\ BeginsUpdate => UsageInv'
<1> SUFFICES ASSUME UsageInv, BeginsUpdate PROVE UsageInv'
  OBVIOUS
<1>t. /\ UNCHANGED <<minors, tasks, usage, app>> /\ update = NoUpdate /\ posted # << >>
      /\ update' = Head(posted) /\ posted' = Tail(posted) /\ index' = 0
  BY DEF BeginsUpdate
<1>z. update.task = 0
  BY <1>t DEF NoUpdate
<1>1. PICK u : u = Head(posted)
  OBVIOUS
<1>2. PICK n : n = Len(posted)
  OBVIOUS
<1>3. /\ n \in Nat /\ n >= 1 /\ DOMAIN posted = 1..n /\ u = posted[1] /\ u \in Update
      /\ posted' \in Seq(Update) /\ DOMAIN posted' = 1..(n - 1)
      /\ \A i \in 1..(n - 1) : posted'[i] = posted[i + 1]
  BY <1>t, <1>1, <1>2, InvIs
<1>4. u.task \in DOMAIN tasks /\ u.task # 0 /\ u.round \in Nat
  <2>1. 1 \in DOMAIN posted
    BY <1>3
  <2>2. u.task \in DOMAIN tasks
    BY <1>3, <2>1, InvIs DEF UpdatesAreRounds
  <2>3. u.round \in Nat
    BY <1>3 DEF Update
  <2> QED BY <2>2, <2>3, InvIs
<1>5. PICK t : t = u.task
  OBVIOUS
<1>6. RoundsAreUpdates(t) /\ Begun(t) \in Nat /\ Published(t) \in Nat
  BY <1>4, <1>5, InvIs, CountsAre DEF UpdatesAreRounds
<1>7. u.round > Begun(t) /\ u.round <= Published(t)
  <2>1. 1 \in DOMAIN posted /\ posted[1].task = t
    BY <1>3, <1>5
  <2> QED BY <1>3, <1>6, <2>1 DEF RoundsAreUpdates
<1>8. \A i \in DOMAIN posted : posted[i].round \in Nat
  <2>1. \A i \in DOMAIN posted : posted[i] \in Update
    BY InvIs
  <2> QED BY <2>1 DEF Update
<1>9. \A i \in 2..n : posted[i].task = t => u.round < posted[i].round
  <2>1. 1 \in DOMAIN posted /\ \A i \in 2..n : i \in DOMAIN posted /\ 1 < i
    BY <1>3
  <2>2. \A i, j \in DOMAIN posted :
          i < j /\ posted[i].task = posted[j].task => posted[i].round < posted[j].round
    BY InvIs DEF UpdatesAreRounds
  <2> QED BY <1>3, <1>5, <2>1, <2>2
<1>10. u.round = Begun(t) + 1
  <2>1. PICK i \in DOMAIN posted : posted[i].task = t /\ posted[i].round = Begun(t) + 1
    <3>1. Begun(t) + 1 \in (Begun(t) + 1)..Published(t)
      BY <1>4, <1>6, <1>7
    <3> QED BY <1>6, <3>1 DEF RoundsAreUpdates
  <2>2. CASE i = 1
    BY <1>3, <2>1, <2>2
  <2>3. CASE i # 1
    <3>1. i \in 2..n
      BY <1>3, <2>3
    <3>2. u.round < Begun(t) + 1
      BY <1>9, <2>1, <3>1
    <3> QED BY <1>4, <1>6, <1>7, <3>2
  <2> QED BY <2>2, <2>3
<1>11. Begun(t)' = u.round /\ \A s : Published(s)' = Published(s)
  BY <1>t, <1>1, <1>5 DEF Begun, Published
<1>12. \A s \in DOMAIN tasks : s # t => Begun(s)' = Begun(s)
  <2>1. \A s \in DOMAIN tasks : s # 0
    BY InvIs
  <2> QED BY <1>t, <1>z, <1>1, <1>5, <2>1 DEF Begun
<1>13. UsageTyped'
  BY <1>t, <1>1, <1>3, InvIs, PlacesAre DEF UsageTyped, Places
<1>14. OutputIsFilled'
  <2>1. \A s \in DOMAIN tasks' : PassFills(tasks'[s])
    BY <1>t, InvIs
  <2> QED BY <1>t, <2>1, FillsNext
<1>15. RoundsAreUpdates(t)'
  <2>1. ASSUME NEW i \in 1..(n - 1), posted'[i].task = t
        PROVE  posted'[i].round > u.round /\ posted'[i].round <= Published(t)
    <3>1. i + 1 \in 2..n /\ i + 1 \in DOMAIN posted /\ posted'[i] = posted[i + 1]
      BY <1>3
    <3>2. posted[i + 1].round <= Published(t)
      BY <1>6, <2>1, <3>1 DEF RoundsAreUpdates
    <3>3. u.round < posted[i + 1].round
      BY <1>9, <2>1, <3>1
    <3> QED BY <1>4, <1>8, <3>1, <3>2, <3>3
  <2>2. ASSUME NEW r \in (u.round + 1)..Published(t)
        PROVE  \E i \in 1..(n - 1) : posted'[i].task = t /\ posted'[i].round = r
    <3>1. PICK j \in DOMAIN posted : posted[j].task = t /\ posted[j].round = r
      <4>1. r \in (Begun(t) + 1)..Published(t)
        BY <1>6, <1>10
      <4> QED BY <1>6, <4>1 DEF RoundsAreUpdates
    <3>2. j # 1
      BY <1>3, <1>4, <3>1
    <3>3. j - 1 \in 1..(n - 1) /\ (j - 1) + 1 = j
      BY <1>3, <3>2
    <3>4. posted'[j - 1] = posted[j]
      BY <1>3, <3>3
    <3> QED BY <3>1, <3>3, <3>4
  <2>3. u.round > 0 /\ u.round <= Published(t)
    BY <1>6, <1>7, <1>10
  <2> QED BY <1>t, <1>1, <1>3, <1>11, <2>1, <2>2, <2>3 DEF RoundsAreUpdates
<1>16. ASSUME NEW s \in DOMAIN tasks, s # t PROVE RoundsAreUpdates(s)'
  <2>1. RoundsAreUpdates(s) /\ Begun(s)' = Begun(s) /\ Published(s)' = Published(s)
    BY <1>11, <1>12, <1>16, InvIs DEF UpdatesAreRounds
  <2>2. ASSUME NEW i \in 1..(n - 1), posted'[i].task = s
        PROVE  posted'[i].round > Begun(s) /\ posted'[i].round <= Published(s)
    <3>1. i + 1 \in DOMAIN posted /\ posted'[i] = posted[i + 1]
      BY <1>3
    <3> QED BY <2>1, <2>2, <3>1 DEF RoundsAreUpdates
  <2>3. ASSUME NEW r \in (Begun(s) + 1)..Published(s)
        PROVE  \E i \in 1..(n - 1) : posted'[i].task = s /\ posted'[i].round = r
    <3>1. PICK j \in DOMAIN posted : posted[j].task = s /\ posted[j].round = r
      BY <2>1 DEF RoundsAreUpdates
    <3>2. j # 1
      BY <1>3, <1>5, <1>16, <3>1
    <3>3. j - 1 \in 1..(n - 1) /\ (j - 1) + 1 = j
      BY <1>3, <3>2
    <3>4. posted'[j - 1] = posted[j]
      BY <1>3, <3>3
    <3> QED BY <3>1, <3>3, <3>4
  <2>4. update'.task # s
    BY <1>t, <1>1, <1>5, <1>16
  <2> QED BY <1>3, <2>1, <2>2, <2>3, <2>4 DEF RoundsAreUpdates
<1>17. UpdatesAreRounds'
  <2>1. \A i \in 1..(n - 1) : i + 1 \in DOMAIN posted /\ posted'[i] = posted[i + 1]
    BY <1>3
  <2>2. \A i \in DOMAIN posted' : posted'[i].task \in DOMAIN tasks
    BY <1>3, <2>1, InvIs DEF UpdatesAreRounds
  <2>3. ASSUME NEW i \in DOMAIN posted', NEW j \in DOMAIN posted', i < j, posted'[i].task = posted'[j].task
        PROVE  posted'[i].round < posted'[j].round
    <3>1. i + 1 < j + 1
      BY <1>3, <2>3
    <3> QED BY <1>3, <2>1, <2>3, <3>1, InvIs DEF UpdatesAreRounds
  <2>4. \A s \in DOMAIN tasks' : RoundsAreUpdates(s)'
    BY <1>t, <1>15, <1>16
  <2>5. update'.task \in DOMAIN tasks /\ update'.task # 0
    BY <1>t, <1>1, <1>4
  <2> QED BY <1>t, <2>2, <2>3, <2>4, <2>5 DEF UpdatesAreRounds
<1>18. UpdatesAreWritten'
  <2>1. ASSUME NEW s \in DOMAIN tasks PROVE RowsAreWritten(s)'
    <3>1. RowsAreWritten(s) /\ s # 0
      BY InvIs DEF UpdatesAreWritten
    <3>2. \A p \in Places : Len(tasks[s].wrote[p]) = Begun(s)
      BY <1>z, <3>1 DEF RowsAreWritten
    <3>3. CASE s = t
      <4>1. update'.task = s /\ update'.round - 1 = Begun(s) /\ \A p \in Places : 0 <= p
        BY <1>t, <1>1, <1>5, <1>6, <1>10, <3>3, PlacesAre
      <4> QED BY <1>t, <3>1, <3>2, <4>1 DEF RowsAreWritten, Places
    <3>4. CASE s # t
      <4>1. update'.task # s /\ Begun(s)' = Begun(s)
        BY <1>t, <1>1, <1>5, <1>12, <3>4
      <4> QED BY <1>t, <3>1, <3>2, <4>1 DEF RowsAreWritten, Places
    <3> QED BY <3>3, <3>4
  <2> QED BY <1>t, <2>1 DEF UpdatesAreWritten
<1>19. FilesAreWritten'
  BY <1>t, InvIs, NothingWritten
<1>20. CrashNeedsAGap'
  BY <1>t, InvIs DEF CrashNeedsAGap, Places
<1> QED
  BY <1>13, <1>14, <1>17, <1>18, <1>19, <1>20 DEF UsageInv

\* What a stream writes at the end of a file is appended.
LEMMA WrittenAtEnd ==
  ASSUME NEW cells, cells \in Seq(Line), NEW line, line \in Line
  PROVE  /\ WrittenAt(cells, Len(cells), line) \in Seq(Line)
         /\ Len(WrittenAt(cells, Len(cells), line)) = Len(cells) + 1
         /\ \A i \in 1..Len(cells) : WrittenAt(cells, Len(cells), line)[i] = cells[i]
         /\ WrittenAt(cells, Len(cells), line)[Len(cells) + 1] = line
<1>1. PICK n : n = Len(cells)
  OBVIOUS
<1>2. PICK w : w = WrittenAt(cells, Len(cells), line)
  OBVIOUS
<1>3. n \in Nat /\ \A i \in 1..n : cells[i] \in Line
  BY <1>1
<1>4. w = [i \in 1..(n + 1) |-> IF i = n + 1 THEN line ELSE IF i <= n THEN cells[i] ELSE Hole]
  BY <1>1, <1>2, <1>3 DEF WrittenAt
<1>5. \A i \in 1..(n + 1) : i = n + 1 \/ i \in 1..n
  BY <1>3
<1>6. \A i \in 1..n : w[i] = cells[i]
  BY <1>3, <1>4
<1>7. w[n + 1] = line
  BY <1>3, <1>4
<1>8. \A i \in 1..(n + 1) : w[i] \in Line
  BY <1>3, <1>5, <1>6, <1>7
<1>9. w \in Seq(Line) /\ Len(w) = n + 1
  BY <1>3, <1>4, <1>8
<1> QED BY <1>1, <1>2, <1>6, <1>7, <1>9

LEMMA WrittenTyped ==
  ASSUME NEW cells, cells \in Seq(Line), NEW line, line \in Line, NEW offset, offset \in Nat
  PROVE  WrittenAt(cells, offset, line) \in Seq(Line)
<1>1. PICK n : n = IF offset < Len(cells) THEN Len(cells) ELSE offset + 1
  OBVIOUS
<1>2. PICK w : w = WrittenAt(cells, offset, line)
  OBVIOUS
<1>3. n \in Nat /\ Len(cells) \in Nat /\ \A i \in 1..Len(cells) : cells[i] \in Line
  BY <1>1
<1>4. w = [i \in 1..n |-> IF i = offset + 1 THEN line ELSE IF i <= Len(cells) THEN cells[i] ELSE Hole]
  BY <1>1, <1>2 DEF WrittenAt
<1>5. Hole \in Line
  BY DEF Hole, Line
<1>6. ASSUME NEW i \in 1..n PROVE w[i] \in Line
  <2>1. i <= Len(cells) => i \in 1..Len(cells)
    BY <1>3
  <2> QED BY <1>3, <1>4, <1>5, <2>1
<1>7. w \in Seq(Line)
  BY <1>3, <1>4, <1>6
<1> QED BY <1>2, <1>7

\* The update in hand is of a task that has filled every row, of the round of the update or later.
LEMMA RowIsThere ==
  ASSUME UsageInv, NEW t, t = update.task, t \in DOMAIN tasks
  PROVE  /\ tasks[t].output[index] \in Nat /\ tasks[t].output[index] >= update.round
         /\ update.round > 0 /\ update.round \in Nat
<1>1. /\ tasks[t] \in TaskState /\ PassFills(tasks[t]) /\ RoundsAreUpdates(t)
      /\ minors \in Minors /\ index \in Places /\ update \in Update
  BY InvIs DEF UpdatesAreRounds
<1>2. /\ tasks[t].output \in [Places -> Nat] /\ tasks[t].round \in Nat /\ tasks[t].row \in Nat
      /\ update.round \in Nat
  BY <1>1, TasksAre DEF Update
<1>3. update.round > 0 /\ update.round <= Published(t)
  BY <1>1 DEF RoundsAreUpdates, Begun
<1>4. NoGap
  <2>1. tasks[t].round > 1 \/ (tasks[t].round = 1 /\ tasks[t].row = 0)
    BY <1>2, <1>3 DEF Published
  <2> QED BY <1>1, <2>1 DEF PassFills
<1>5. PICK i \in 1..Length : minors[i] = index
  BY <1>1, <1>4, EveryPlaceHasARow
<1>6. tasks[t].output[index] = IF Filled(tasks[t], i) THEN tasks[t].round ELSE tasks[t].round - 1
  BY <1>1, <1>5 DEF PassFills
<1>7. tasks[t].output[index] >= Published(t)
  BY <1>2, <1>6 DEF Published, Filled
<1>8. tasks[t].output[index] \in Nat
  BY <1>1, <1>2
<1>9. Published(t) \in Int
  BY <1>2 DEF Published
<1> QED BY <1>2, <1>3, <1>7, <1>8, <1>9

LEMMA WritesRowStep == UsageInv /\ WritesRow => UsageInv'
<1> SUFFICES ASSUME UsageInv, WritesRow PROVE UsageInv'
  OBVIOUS
<1>t. UNCHANGED <<minors, posted>> /\ update # NoUpdate
  BY DEF WritesRow
<1>1. PICK t : t = update.task
  OBVIOUS
<1>2. PICK round : round = tasks[t].output[index]
  OBVIOUS
<1>3. PICK offset : offset = IF index \in tasks[t].opened THEN tasks[t].offset[index] ELSE 1
  OBVIOUS
<1>4. PICK cells : cells = IF index \in tasks[t].opened THEN usage[index] ELSE <<Heading>>
  OBVIOUS
<1>5. t \in DOMAIN tasks /\ t \in Nat /\ t # 0
  BY <1>t, <1>1, InvIs DEF UpdatesAreRounds
<1>6. /\ tasks[t] \in TaskState /\ PassFills(tasks[t]) /\ RowsAreWritten(t) /\ RoundsAreUpdates(t)
      /\ index \in Places
  BY <1>5, InvIs DEF UpdatesAreWritten, UpdatesAreRounds
<1>7. round \in Nat /\ round # 0 /\ round >= update.round /\ update.round \in Nat /\ update.round > 0
  BY <1>1, <1>2, <1>5, RowIsThere
<1>8. PICK line : line = [by |-> t, round |-> round]
  OBVIOUS
<1>9. PICK wrote : wrote = [round |-> round, update |-> update.round]
  OBVIOUS
<1>10. /\ app' = app
       /\ usage' = [usage EXCEPT ![index] = WrittenAt(cells, offset, line)]
       /\ tasks' = [tasks EXCEPT ![t].opened = @ \cup {index}, ![t].offset[index] = offset + 1,
                                 ![t].wrote[index] = Append(@, wrote)]
       /\ IF index + 1 \in Places
          THEN index' = index + 1 /\ update' = update
          ELSE update' = NoUpdate /\ index' = 0
  BY <1>1, <1>2, <1>3, <1>4, <1>7, <1>8, <1>9 DEF WritesRow, Task, Opened
<1>11. /\ line \in Line /\ cells \in Seq(Line) /\ offset \in Nat /\ wrote \in Wrote
       /\ wrote.round = round /\ wrote.update = update.round
  <2>1. line \in Line /\ Heading \in Line
    BY <1>5, <1>7, <1>8 DEF Line, Heading
  <2>2. usage[index] \in Seq(Line) /\ tasks[t].offset[index] \in Nat
    BY <1>6, InvIs DEF TaskState
  <2>3. <<Heading>> \in Seq(Line)
    BY <2>1
  <2>4. wrote \in Wrote /\ wrote.round = round /\ wrote.update = update.round
    BY <1>7, <1>9 DEF Wrote
  <2> QED BY <1>3, <1>4, <2>1, <2>2, <2>3, <2>4
<1>12. PICK opened : opened = tasks[t].opened \cup {index}
  OBVIOUS
<1>13. PICK offsets : offsets = [tasks[t].offset EXCEPT ![index] = offset + 1]
  OBVIOUS
<1>14. PICK wrotes : wrotes = [tasks[t].wrote EXCEPT ![index] = Append(@, wrote)]
  OBVIOUS
<1>15. /\ tasks[t].opened \subseteq Places /\ tasks[t].offset \in [Places -> Nat]
       /\ tasks[t].wrote \in [Places -> Seq(Wrote)]
  BY <1>6, TasksAre
<1>16. /\ opened \subseteq Places /\ offsets \in [Places -> Nat] /\ wrotes \in [Places -> Seq(Wrote)]
       /\ offsets[index] = offset + 1 /\ wrotes[index] = Append(tasks[t].wrote[index], wrote)
       /\ \A p \in Places : p # index => offsets[p] = tasks[t].offset[p] /\ wrotes[p] = tasks[t].wrote[p]
       /\ \A p : p # index => (p \in opened <=> p \in tasks[t].opened)
  <2>1. PICK old : old = tasks[t].wrote[index]
    OBVIOUS
  <2>2. PICK more : more = Append(old, wrote)
    OBVIOUS
  <2>3. old \in Seq(Wrote) /\ more \in Seq(Wrote)
    BY <1>6, <1>11, <1>15, <2>1, <2>2
  <2>4. wrotes = [tasks[t].wrote EXCEPT ![index] = more]
    BY <1>14, <2>1, <2>2
  <2>5. /\ wrotes \in [Places -> Seq(Wrote)] /\ wrotes[index] = more
        /\ \A p \in Places : p # index => wrotes[p] = tasks[t].wrote[p]
    BY <1>6, <1>15, <2>3, <2>4
  <2>6. /\ offsets \in [Places -> Nat] /\ offsets[index] = offset + 1
        /\ \A p \in Places : p # index => offsets[p] = tasks[t].offset[p]
    <3>1. offset + 1 \in Nat
      BY <1>11
    <3> QED BY <1>6, <1>13, <1>15, <3>1
  <2>7. opened \subseteq Places /\ \A p : p # index => (p \in opened <=> p \in tasks[t].opened)
    BY <1>6, <1>12, <1>15
  <2> QED BY <2>1, <2>2, <2>5, <2>6, <2>7
<1>17. PICK x : x = [tasks[t] EXCEPT !.opened = opened, !.offset = offsets, !.wrote = wrotes]
  OBVIOUS
<1>18. /\ x \in TaskState /\ x.opened = opened /\ x.offset = offsets /\ x.wrote = wrotes
       /\ x.output = tasks[t].output /\ x.round = tasks[t].round /\ x.row = tasks[t].row
  BY <1>6, <1>16, <1>17 DEF TaskState
<1>19. tasks' = [tasks EXCEPT ![t] = x]
  BY <1>10, <1>12, <1>13, <1>14, <1>17
<1>20. /\ tasks' \in Seq(TaskState) /\ Len(tasks') = Len(tasks) /\ DOMAIN tasks' = DOMAIN tasks
       /\ tasks'[t] = x /\ \A s \in DOMAIN tasks : s # t => tasks'[s] = tasks[s]
  BY <1>5, <1>18, <1>19, InvIs, OneTaskChanges
<1>21. UsageTyped'
  <2>1. WrittenAt(cells, offset, line) \in Seq(Line)
    BY <1>11, WrittenTyped
  <2>2. usage' \in [Places -> Seq(Line)]
    BY <1>6, <1>10, <2>1, InvIs
  <2>3. NoUpdate \in Update
    BY DEF NoUpdate, Update
  <2>4. update' \in Update /\ index' \in Places
    BY <1>10, <2>3, InvIs, PlacesAre
  <2> QED BY <1>t, <1>10, <1>20, <2>2, <2>4, InvIs DEF UsageTyped, Places
<1>22. OutputIsFilled'
  <2>1. PassFills(x)
    BY <1>6, <1>18 DEF PassFills, Filled
  <2>2. \A s \in DOMAIN tasks' : PassFills(tasks'[s])
    BY <1>20, <2>1, InvIs
  <2> QED BY <1>t, <2>2, FillsNext
<1>23. /\ \A p \in Places : p # index => Len(wrotes[p]) = IF index <= p THEN update.round - 1 ELSE update.round
       /\ Len(wrotes[index]) = update.round /\ Len(tasks[t].wrote[index]) = update.round - 1
       /\ \A p \in Places : tasks[t].wrote[p] \in Seq(Wrote)
       /\ Begun(t) = update.round
  <2>1. \A p \in Places : Len(tasks[t].wrote[p]) = IF index <= p THEN update.round - 1 ELSE update.round
    BY <1>1, <1>6 DEF RowsAreWritten, Begun
  <2>2. tasks[t].wrote[index] \in Seq(Wrote) /\ Len(tasks[t].wrote[index]) = update.round - 1
    BY <1>6, <1>15, <2>1, PlacesAre
  <2>3. Len(Append(tasks[t].wrote[index], wrote)) = update.round
    BY <1>7, <1>11, <2>2
  <2> QED BY <1>1, <1>15, <1>16, <2>1, <2>2, <2>3 DEF Begun
<1>24. \A p \in Places : \A i \in DOMAIN wrotes[p] : wrotes[p][i].update = i /\ wrotes[p][i].round >= i
  <2> SUFFICES ASSUME NEW p \in Places, NEW i \in DOMAIN wrotes[p]
               PROVE  wrotes[p][i].update = i /\ wrotes[p][i].round >= i
    OBVIOUS
  <2>1. CASE p # index
    <3>1. wrotes[p] = tasks[t].wrote[p]
      BY <1>16, <2>1
    <3>2. i \in DOMAIN tasks[t].wrote[p]
      BY <3>1
    <3> QED BY <1>6, <3>1, <3>2 DEF RowsAreWritten
  <2>2. CASE p = index
    <3>1. tasks[t].wrote[index] \in Seq(Wrote)
      BY <1>6, <1>23
    <3>2. CASE i = update.round
      <4>1. wrotes[p][i] = wrote
        BY <1>7, <1>11, <1>16, <1>23, <2>2, <3>1, <3>2
      <4> QED BY <1>7, <1>11, <3>2, <4>1
    <3>3. CASE i # update.round
      <4>1. i \in DOMAIN tasks[t].wrote[index] /\ wrotes[p][i] = tasks[t].wrote[index][i]
        <5>1. PICK old : old = tasks[t].wrote[index]
          OBVIOUS
        <5>2. old \in Seq(Wrote) /\ wrotes[p] = Append(old, wrote) /\ Len(old) = update.round - 1
          BY <1>16, <1>23, <2>2, <3>1, <5>1
        <5>3. i \in 1..(Len(old) + 1) /\ i # Len(old) + 1 /\ Len(old) \in Nat
          BY <1>7, <1>11, <3>3, <5>2
        <5>4. i \in 1..Len(old)
          BY <5>3
        <5> QED BY <1>11, <5>1, <5>2, <5>4
      <4> QED BY <1>6, <4>1 DEF RowsAreWritten
    <3> QED BY <3>2, <3>3
  <2> QED BY <2>1, <2>2
<1>25. Begun(t)' = update.round
  <2>1. CASE index + 1 \in Places
    BY <1>1, <1>10, <2>1 DEF Begun
  <2>2. CASE index + 1 \notin Places
    <3>1. update' = NoUpdate /\ NoUpdate.task # t
      BY <1>5, <1>10, <2>2 DEF NoUpdate
    <3>2. Begun(t)' = Len(wrotes[0])
      BY <1>18, <1>20, <3>1 DEF Begun
    <3>3. 0 # index => ~(index <= 0)
      BY <1>6, PlacesAre
    <3> QED BY <1>23, <3>2, <3>3, PlacesAre
  <2> QED BY <2>1, <2>2
<1>26. ASSUME NEW s \in DOMAIN tasks, s # t PROVE Begun(s)' = Begun(s) /\ update'.task # s /\ s # 0
  <2>1. update.task # s /\ update'.task # s /\ s # 0
    BY <1>1, <1>10, <1>26, InvIs DEF NoUpdate
  <2> QED BY <1>20, <1>26, <2>1 DEF Begun
<1>27. \A s \in DOMAIN tasks : Published(s)' = Published(s)
  BY <1>18, <1>20 DEF Published
<1>28. UpdatesAreRounds'
  <2>1. RoundsAreUpdates(t)'
    <3>1. Begun(t)' = Begun(t) /\ Published(t)' = Published(t)
      BY <1>5, <1>23, <1>25, <1>27
    <3>2. update'.task = t => update'.round > 0
      BY <1>5, <1>7, <1>10 DEF NoUpdate
    <3> QED BY <1>t, <1>6, <3>1, <3>2 DEF RoundsAreUpdates
  <2>2. ASSUME NEW s \in DOMAIN tasks, s # t PROVE RoundsAreUpdates(s)'
    <3>1. RoundsAreUpdates(s) /\ Begun(s)' = Begun(s) /\ Published(s)' = Published(s) /\ update'.task # s
      BY <1>26, <1>27, <2>2, InvIs DEF UpdatesAreRounds
    <3> QED BY <1>t, <3>1 DEF RoundsAreUpdates
  <2>3. \A s \in DOMAIN tasks' : RoundsAreUpdates(s)'
    BY <1>20, <2>1, <2>2
  <2>4. update'.task \in DOMAIN tasks \cup {0} /\ (update'.task = 0 => update' = NoUpdate /\ index' = 0)
    BY <1>1, <1>5, <1>10 DEF NoUpdate
  <2>5. /\ \A i \in DOMAIN posted : posted[i].task \in DOMAIN tasks
        /\ \A i, j \in DOMAIN posted :
             i < j /\ posted[i].task = posted[j].task => posted[i].round < posted[j].round
    BY InvIs DEF UpdatesAreRounds
  <2> QED BY <1>t, <1>20, <2>3, <2>4, <2>5 DEF UpdatesAreRounds, NoUpdate
<1>29. UpdatesAreWritten'
  <2>1. RowsAreWritten(t)'
    <3>1. ASSUME NEW p \in Places
          PROVE  Len(wrotes[p]) = IF update'.task = t /\ index' <= p THEN update'.round - 1 ELSE update.round
      <4>0. index \in Int /\ p \in Int /\ p < Length /\ p >= 0
        BY <1>6, PlacesAre
      <4>1. CASE index + 1 \in Places
        <5>1. index' = index + 1 /\ update' = update
          BY <1>10, <4>1
        <5>2. CASE p = index
          BY <1>23, <4>0, <5>1, <5>2
        <5>3. CASE p # index
          BY <1>1, <1>23, <4>0, <5>1, <5>3
        <5> QED BY <5>2, <5>3
      <4>2. CASE index + 1 \notin Places
        <5>1. update'.task # t
          BY <1>5, <1>10, <4>2 DEF NoUpdate
        <5>2. p # index => ~(index <= p)
          BY <1>6, <4>0, <4>2, ResourceAssumption, PlacesAre DEF Places
        <5> QED BY <1>23, <5>1, <5>2
      <4> QED BY <4>1, <4>2
    <3> QED BY <1>18, <1>20, <1>24, <1>25, <3>1 DEF RowsAreWritten, Places
  <2>2. ASSUME NEW s \in DOMAIN tasks, s # t PROVE RowsAreWritten(s)'
    <3>1. RowsAreWritten(s) /\ Begun(s)' = Begun(s) /\ update'.task # s /\ tasks'[s] = tasks[s]
      BY <1>20, <1>26, <2>2, InvIs DEF UpdatesAreWritten
    <3>2. update.task # s
      BY <1>1, <2>2
    <3> QED BY <3>1, <3>2 DEF RowsAreWritten, Places
  <2> QED BY <1>20, <2>1, <2>2 DEF UpdatesAreWritten
<1>30. FilesAreWritten'
  <2> SUFFICES ASSUME Len(tasks) = 1 PROVE FilesAreWritten'
    BY <1>20 DEF FilesAreWritten
  <2>1. t = 1 /\ tasks'[1] = x
    BY <1>5, <1>20, InvIs
  <2> DEFINE Stays(p) ==
        IF Len(wrotes[p]) = 0 THEN p \notin opened
        ELSE /\ p \in opened /\ offsets[p] = Len(wrotes[p]) + 1
             /\ Len(usage'[p]) = Len(wrotes[p]) + 1
             /\ \A i \in DOMAIN wrotes[p] : usage'[p][i + 1] = [by |-> 1, round |-> wrotes[p][i].round]
  <2>2. ASSUME NEW p \in Places, p # index PROVE Stays(p)
    <3>1. usage'[p] = usage[p]
      BY <1>10, <2>2, InvIs
    <3>2. /\ wrotes[p] = tasks[1].wrote[p] /\ offsets[p] = tasks[1].offset[p]
          /\ p \in opened <=> p \in tasks[1].opened
      BY <1>16, <2>1, <2>2
    <3> QED BY <3>1, <3>2, InvIs DEF FilesAreWritten
  <2>3. Stays(index)
    <3>1. PICK old : old = tasks[1].wrote[index]
      OBVIOUS
    <3>2. /\ old \in Seq(Wrote) /\ Len(old) = update.round - 1 /\ Len(old) \in Nat
          /\ wrotes[index] = Append(old, wrote) /\ index \in opened
      BY <1>6, <1>7, <1>12, <1>16, <1>23, <2>1, <3>1
    <3>3. /\ offset = Len(old) + 1 /\ Len(cells) = Len(old) + 1
          /\ \A i \in DOMAIN old : cells[i + 1] = [by |-> 1, round |-> old[i].round]
      <4>1. CASE Len(old) = 0
        <5>1. index \notin tasks[t].opened
          BY <1>6, <2>1, <3>1, <4>1, InvIs DEF FilesAreWritten
        <5>2. offset = 1 /\ cells = <<Heading>>
          BY <1>3, <1>4, <5>1
        <5>3. DOMAIN old = {}
          BY <3>2, <4>1
        <5> QED BY <4>1, <5>2, <5>3
      <4>2. CASE Len(old) # 0
        <5>1. /\ index \in tasks[t].opened /\ tasks[t].offset[index] = Len(old) + 1
              /\ Len(usage[index]) = Len(old) + 1
              /\ \A i \in DOMAIN old : usage[index][i + 1] = [by |-> 1, round |-> old[i].round]
          BY <1>6, <2>1, <3>1, <4>2, InvIs DEF FilesAreWritten
        <5> QED BY <1>3, <1>4, <5>1
      <4> QED BY <4>1, <4>2
    <3>4. PICK new : new = usage'[index]
      OBVIOUS
    <3>5. /\ new = WrittenAt(cells, Len(cells), line) /\ Len(new) = Len(cells) + 1
          /\ \A i \in 1..Len(cells) : new[i] = cells[i]
          /\ new[Len(cells) + 1] = line
      <4>1. new = WrittenAt(cells, Len(cells), line)
        BY <1>6, <1>10, <3>3, <3>4, InvIs
      <4> QED BY ZenonT(30), <1>11, <4>1, WrittenAtEnd
    <3>6. PICK n : n = Len(old)
      OBVIOUS
    <3>7. /\ n \in Nat /\ DOMAIN old = 1..n /\ Len(wrotes[index]) = n + 1
          /\ DOMAIN wrotes[index] = 1..(n + 1) /\ wrotes[index][n + 1] = wrote
          /\ \A i \in 1..n : wrotes[index][i] = old[i]
      BY <1>11, <3>2, <3>6
    <3>8. ASSUME NEW i \in 1..(n + 1) PROVE new[i + 1] = [by |-> 1, round |-> wrotes[index][i].round]
      <4>1. CASE i = n + 1
        <5>1. new[i + 1] = line
          BY <3>3, <3>5, <3>6, <4>1
        <5>2. wrotes[index][i].round = round
          BY <1>11, <3>7, <4>1
        <5> QED BY <1>8, <2>1, <5>1, <5>2
      <4>2. CASE i # n + 1
        <5>1. i \in 1..n /\ i + 1 \in 1..(n + 1)
          BY <3>7, <4>2
        <5>2. new[i + 1] = cells[i + 1] /\ wrotes[index][i] = old[i]
          BY <3>3, <3>5, <3>6, <3>7, <5>1
        <5> QED BY <3>3, <3>7, <5>1, <5>2
      <4> QED BY <4>1, <4>2
    <3>9. offsets[index] = n + 2 /\ Len(new) = n + 2
      BY <1>16, <3>3, <3>5, <3>6, <3>7
    <3> QED BY <3>2, <3>4, <3>7, <3>8, <3>9
  <2> HIDE DEF Stays
  <2>4. \A p \in Places : Stays(p)
    BY <2>2, <2>3
  <2> QED BY <1>18, <2>1, <2>4 DEF FilesAreWritten, Stays, Places
<1>31. CrashNeedsAGap'
  BY <1>t, <1>10, InvIs DEF CrashNeedsAGap, Places
<1> QED
  BY <1>21, <1>22, <1>28, <1>29, <1>30, <1>31 DEF UsageInv

\* The usage log gets every update once and in its order, a row is left out or repeated only
\* where the UI thread was behind, one task's lines stay, and the application crashes only for a
\* minor number beyond the array (BackgroundThread.java 69-147).
THEOREM UsageLogged == UsageSpec => []UsageIsLogged
<1>1. UsageInv /\ [UsageNext]_usageVars => UsageInv'
  <2> SUFFICES ASSUME UsageInv, [UsageNext]_usageVars PROVE UsageInv'
    OBVIOUS
  <2>1. ASSUME NEW t \in DOMAIN tasks, BeginsRound(t) \/ FillsRow(t) \/ Publishes(t) PROVE UsageInv'
    BY <2>1, BeginsRoundStep, FillsRowStep, PublishesStep
  <2>2. CASE UNCHANGED usageVars
    <3>1. \A s : Begun(s)' = Begun(s) /\ Published(s)' = Published(s)
      BY <2>2 DEF usageVars, Begun, Published
    <3>2. UsageTyped' /\ CrashNeedsAGap'
      BY <2>2, InvIs DEF usageVars, UsageTyped, CrashNeedsAGap, Places
    <3>3. OutputIsFilled'
      <4>1. \A s \in DOMAIN tasks' : PassFills(tasks'[s])
        BY <2>2, InvIs DEF usageVars
      <4> QED BY <2>2, <4>1, FillsNext DEF usageVars
    <3>4. UpdatesAreRounds'
      BY <2>2, <3>1, InvIs, NothingPublished DEF usageVars
    <3>5. UpdatesAreWritten'
      BY <2>2, InvIs, NothingAppended DEF usageVars
    <3>6. FilesAreWritten'
      BY <2>2, InvIs, NothingWritten DEF usageVars
    <3> QED BY <3>2, <3>3, <3>4, <3>5, <3>6 DEF UsageInv
  <2> QED
    BY <2>1, <2>2, CreatesStep, BeginsUpdateStep, WritesRowStep DEF UsageNext
<1>2. UsageInv => UsageIsLogged
  <2> SUFFICES ASSUME UsageInv PROVE UsageIsLogged
    OBVIOUS
  <2>1. SkipsNeedALateUi
    <3> SUFFICES ASSUME NEW t \in DOMAIN tasks, NEW p \in Places, NEW i \in 2..Len(tasks[t].wrote[p]),
                        ~(tasks[t].wrote[p][i].round > tasks[t].wrote[p][i].update),
                        ~(tasks[t].wrote[p][i - 1].round > tasks[t].wrote[p][i - 1].update)
                 PROVE  tasks[t].wrote[p][i].round = tasks[t].wrote[p][i - 1].round + 1
      BY DEF SkipsNeedALateUi, Task
    <3>1. tasks[t].wrote \in [Places -> Seq(Wrote)] /\ RowsAreWritten(t)
      BY InvIs, TasksAre DEF UpdatesAreWritten
    <3>2. PICK wrote : wrote = tasks[t].wrote[p]
      OBVIOUS
    <3>3. wrote \in Seq(Wrote) /\ i \in DOMAIN wrote /\ i - 1 \in DOMAIN wrote
      BY <3>1, <3>2
    <3>4. wrote[i] \in Wrote /\ wrote[i - 1] \in Wrote
      BY <3>3
    <3>5. /\ wrote[i].update = i /\ wrote[i].round >= i
          /\ wrote[i - 1].update = i - 1 /\ wrote[i - 1].round >= i - 1
      BY <3>1, <3>2, <3>3 DEF RowsAreWritten
    <3> QED BY <3>2, <3>3, <3>4, <3>5 DEF Wrote
  <2>2. LinesStay
    <3> SUFFICES ASSUME Len(tasks) = 1, NEW p \in Places, NEW i \in DOMAIN tasks[1].wrote[p]
                 PROVE  /\ i + 1 \in DOMAIN usage[p]
                        /\ usage[p][i + 1] = [by |-> 1, round |-> tasks[1].wrote[p][i].round]
      BY DEF LinesStay
    <3>1. tasks[1].wrote \in [Places -> Seq(Wrote)] /\ usage \in [Places -> Seq(Line)]
      BY InvIs, TasksAre
    <3>2. tasks[1].wrote[p] \in Seq(Wrote) /\ usage[p] \in Seq(Line)
      BY <3>1
    <3>3. Len(tasks[1].wrote[p]) # 0 /\ i \in 1..Len(tasks[1].wrote[p])
      BY <3>2
    <3>4. /\ Len(usage[p]) = Len(tasks[1].wrote[p]) + 1
          /\ usage[p][i + 1] = [by |-> 1, round |-> tasks[1].wrote[p][i].round]
      BY <3>3, InvIs DEF FilesAreWritten
    <3> QED BY <3>2, <3>3, <3>4
  <2> QED BY <2>1, <2>2, InvIs DEF UsageIsLogged
<1> QED BY <1>1, <1>2, UsageInitInv, PTL DEF UsageSpec

-----------------------------------------------------------------------------
(* The log of context switches. *)

\* A set of numbers that is not empty has a least one: the least of the intervals from 0.
LEMMA HasLeast ==
  ASSUME NEW T \in SUBSET Nat, T # {}
  PROVE  \E x \in T : \A y \in T : x <= y
<1> DEFINE R == StrictSubsetOrdering(Nat)
           I == {0..x : x \in T}
<1>1. IsWellFoundedOn(R, FiniteSubsetsOf(Nat))
  BY FS_StrictSubsetOrderingWellFounded
<1>2. I \subseteq FiniteSubsetsOf(Nat) /\ I # {}
  <2>1. \A x \in T : 0..x \in SUBSET Nat /\ IsFiniteSet(0..x)
    BY FS_Interval
  <2>2. \A x \in T : 0..x \in FiniteSubsetsOf(Nat)
    BY <2>1 DEF FiniteSubsetsOf
  <2> QED
    BY <2>2
<1>3. PICK i \in I : \A j \in I : <<j, i>> \notin R
  <2> HIDE DEF I, R
  <2> QED BY <1>1, <1>2, WFMin
<1>4. PICK x \in T : i = 0..x
  OBVIOUS
<1>5. ASSUME NEW y \in T, y < x PROVE FALSE
  <2>1. 0..y \in I /\ 0..y \subseteq 0..x /\ x \in 0..x /\ x \notin 0..y
    BY <1>5
  <2>2. <<0..y, 0..x>> \in R
    BY <2>1 DEF StrictSubsetOrdering
  <2> QED
    BY <1>3, <1>4, <2>1, <2>2
<1> QED
  BY <1>5

\* The last digit and the number without it.
LEMMA BaseIs == Base \in Nat /\ Base >= 2 /\ MaxTime \in Nat /\ FirstTime \in Nat /\ FirstTime > 0
                /\ FirstTime <= MaxTime
BY SchedAssumption

LEMMA LastDigit ==
  ASSUME NEW n, n \in Nat
  PROVE  /\ n \div Base \in Nat /\ n % Base \in Nat /\ n % Base < Base
         /\ n = (n \div Base) * Base + (n % Base)
<1>1. Base \in Nat /\ Base > 0
  BY BaseIs
<1>2. n \div Base \in Nat
  BY <1>1
<1>3. n % Base \in 0..(Base - 1)
  BY <1>1
<1>4. \A d \in Nat : d > 0 => n = (n \div d) * d + (n % d)
  OBVIOUS
<1> QED BY <1>1, <1>2, <1>3, <1>4

LEMMA Multiples ==
  ASSUME NEW p, NEW q, p \in Nat, q \in Nat
  PROVE  /\ p * Base \in Nat /\ p * Base >= 2 * p
         /\ p < q => q * Base >= p * Base + Base
<1>1. p * Base \in Nat
  BY BaseIs
<1>2. p * Base >= 2 * p
  <2>1. PICK b : b = Base - 2
    OBVIOUS
  <2>2. b \in Nat /\ Base = b + 2
    BY <2>1, BaseIs
  <2>3. p * (b + 2) = p * b + p * 2
    BY <2>2
  <2>4. p * b \in Nat
    BY <2>2
  <2> QED BY <2>2, <2>3, <2>4
<1>3. ASSUME p < q PROVE q * Base >= p * Base + Base
  <2>1. PICK d : d = q - p - 1
    OBVIOUS
  <2>2. d \in Nat /\ q = p + d + 1
    BY <1>3, <2>1
  <2>3. (p + d + 1) * Base = p * Base + d * Base + Base
    BY <2>2, BaseIs
  <2>4. d * Base \in Nat
    BY <2>2, BaseIs
  <2> QED BY <1>1, <2>2, <2>3, <2>4, BaseIs
<1> QED BY <1>1, <1>2, <1>3

LEMMA Shorter ==
  ASSUME NEW n, n \in Nat, n >= Base
  PROVE  n \div Base \in Nat /\ n \div Base < n /\ n % Base \in Nat
<1>1. PICK q, r : q = n \div Base /\ r = n % Base
  OBVIOUS
<1>2. q \in Nat /\ r \in Nat /\ r < Base /\ n = q * Base + r
  BY <1>1, LastDigit
<1>3. q * Base \in Nat /\ q * Base >= 2 * q
  BY <1>2, Multiples
<1>4. q # 0
  BY <1>2, BaseIs
<1> QED BY <1>1, <1>2, <1>3, <1>4

LEMMA DigitsGrow ==
  ASSUME NEW a, NEW b, a \in Nat, b \in Nat, a < b
  PROVE  /\ a \div Base <= b \div Base
         /\ a \div Base = b \div Base => a % Base < b % Base
<1>1. PICK p, r, q, s : p = a \div Base /\ r = a % Base /\ q = b \div Base /\ s = b % Base
  OBVIOUS
<1>2. p \in Nat /\ r \in Nat /\ r < Base /\ a = p * Base + r
  BY <1>1, LastDigit
<1>3. q \in Nat /\ s \in Nat /\ s < Base /\ b = q * Base + s
  BY <1>1, LastDigit
<1>4. q < p => p * Base >= q * Base + Base
  BY <1>2, <1>3, Multiples
<1>5. p * Base \in Nat /\ q * Base \in Nat
  BY <1>2, <1>3, Multiples
<1>6. p <= q
  BY <1>2, <1>3, <1>4, <1>5, BaseIs
<1>7. p = q => r < s
  BY <1>2, <1>3, <1>5
<1> QED BY <1>1, <1>6, <1>7

\* How a time stamp is written: the recursion of text has a solution.
Digits(f, n) == IF n < Base THEN <<n>> ELSE Append(f[n \div Base], n % Base)
Writes(f, m) == f = [n \in 0..m |-> Digits(f, n)]

LEMMA TextExists ==
  ASSUME NEW m, m \in Nat
  PROVE  \E f : Writes(f, m)
<1> DEFINE T == {k \in Nat : ~ \E f : Writes(f, k)}
<1> SUFFICES ASSUME T # {} PROVE FALSE
  OBVIOUS
<1>1. PICK k \in T : \A j \in T : k <= j
  BY HasLeast
<1>2. \A h, e, n : h[n \div Base] = e[n \div Base] \/ n < Base => Digits(h, n) = Digits(e, n)
  BY DEF Digits
<1>3. CASE k = 0
  <2>1. PICK f : f = [n \in 0..0 |-> Digits(<< >>, n)]
    OBVIOUS
  <2>2. \A n \in 0..0 : Digits(<< >>, n) = Digits(f, n)
    BY <1>2, BaseIs
  <2>3. Writes(f, 0)
    BY <2>1, <2>2 DEF Writes
  <2> QED BY <1>3, <2>3
<1>4. CASE k # 0
  <2>1. k \in Nat /\ k - 1 \in Nat /\ k - 1 \notin T
    BY <1>1, <1>4
  <2>2. PICK f : Writes(f, k - 1)
    BY <2>1
  <2>3. PICK g : g = [n \in 0..k |-> Digits(f, n)]
    OBVIOUS
  <2>4. \A n \in 0..(k - 1) : f[n] = Digits(f, n)
    BY <2>2 DEF Writes
  <2>5. \A n \in 0..(k - 1) : g[n] = f[n]
    BY <2>1, <2>3, <2>4
  <2>6. \A n \in 0..k : ~(n < Base) => n \div Base \in 0..(k - 1)
    BY <2>1, Shorter, BaseIs
  <2>7. \A n \in 0..k : Digits(f, n) = Digits(g, n)
    BY <1>2, <2>5, <2>6
  <2>8. Writes(g, k)
    BY <2>3, <2>7 DEF Writes
  <2> QED BY <1>1, <2>8
<1> QED BY <1>3, <1>4

LEMMA TextIs ==
  ASSUME NEW n, n \in 0..MaxTime
  PROVE  /\ n < Base => text[n] = <<n>>
         /\ n >= Base => text[n] = Append(text[n \div Base], n % Base)
<1>1. \E f : Writes(f, MaxTime)
  BY TextExists, BaseIs
<1>2. \E f : f = [k \in 0..MaxTime |-> IF k < Base THEN <<k>> ELSE Append(f[k \div Base], k % Base)]
  BY <1>1 DEF Writes, Digits
<1>3. text = [k \in 0..MaxTime |-> IF k < Base THEN <<k>> ELSE Append(text[k \div Base], k % Base)]
  BY <1>2 DEF text
<1>4. text[n] = IF n < Base THEN <<n>> ELSE Append(text[n \div Base], n % Base)
  BY <1>3
<1> QED BY <1>4, BaseIs

\* The order of strings is one: irreflexive, transitive and total.
LEMMA HigherIrreflexive ==
  ASSUME NEW s, s \in Seq(Nat)
  PROVE  ~Higher(s, s)
<1> SUFFICES ASSUME NEW i \in 1..Len(s), i <= Len(s) => s[i] > s[i] PROVE FALSE
  BY DEF Higher
<1>1. i <= Len(s) /\ s[i] \in Nat
  OBVIOUS
<1> QED BY <1>1

LEMMA HigherTransitive ==
  ASSUME NEW s, NEW t, NEW u, s \in Seq(Nat), t \in Seq(Nat), u \in Seq(Nat),
         Higher(s, t), Higher(t, u)
  PROVE  Higher(s, u)
<1>1. PICK i \in 1..Len(s) : /\ i <= Len(t) + 1
                             /\ \A k \in 1..(i - 1) : s[k] = t[k]
                             /\ i <= Len(t) => s[i] > t[i]
  BY DEF Higher
<1>2. PICK j \in 1..Len(t) : /\ j <= Len(u) + 1
                             /\ \A k \in 1..(j - 1) : t[k] = u[k]
                             /\ j <= Len(u) => t[j] > u[j]
  BY DEF Higher
<1>3. /\ Len(s) \in Nat /\ Len(t) \in Nat /\ Len(u) \in Nat
      /\ \A k \in 1..Len(s) : s[k] \in Nat
      /\ \A k \in 1..Len(t) : t[k] \in Nat
      /\ \A k \in 1..Len(u) : u[k] \in Nat
  BY SMTT(20)
<1>4. CASE i < j
  <2>1. i <= Len(u) + 1 /\ (i <= Len(u) => s[i] > u[i])
    <3>1. i <= Len(u) + 1 /\ t[i] = u[i]
      BY <1>1, <1>2, <1>3, <1>4
    <3>2. s[i] > t[i]
      BY <1>1, <1>2, <1>3, <1>4
    <3> QED BY <3>1, <3>2
  <2>2. \A k \in 1..(i - 1) : s[k] = u[k]
    BY <1>1, <1>2, <1>4
  <2> QED BY <2>1, <2>2 DEF Higher
<1>5. CASE ~(i < j)
  <2>1. j \in 1..Len(s)
    BY <1>2, <1>3, <1>5, <1>1
  <2>2. \A k \in 1..(j - 1) : s[k] = u[k]
    BY <1>1, <1>2, <1>5
  <2>3. ASSUME j <= Len(u) PROVE s[j] > u[j]
    <3>1. CASE i = j
      <4>1. s[j] > t[j] /\ t[j] > u[j]
        BY <1>1, <1>2, <2>3, <3>1
      <4>2. s[j] \in Nat /\ t[j] \in Nat /\ u[j] \in Nat
        BY <1>3, <1>2, <2>1, <2>3
      <4> QED BY SMTT(20), <4>1, <4>2
    <3>2. CASE j < i
      <4>1. s[j] = t[j]
        BY <1>1, <1>2, <3>2
      <4> QED BY <1>2, <2>3, <4>1
    <3> QED BY <1>5, <3>1, <3>2
  <2> QED BY <1>2, <2>1, <2>2, <2>3 DEF Higher
<1> QED BY <1>4, <1>5

LEMMA HigherTotal ==
  ASSUME NEW s, NEW t, s \in Seq(Nat), t \in Seq(Nat), s # t
  PROVE  Higher(s, t) \/ Higher(t, s)
<1> DEFINE Both(i) == i <= Len(s) /\ i <= Len(t) /\ s[i] = t[i]
           D == {i \in Nat : i > 0 /\ (i <= Len(s) \/ i <= Len(t)) /\ ~Both(i)}
<1>1. /\ Len(s) \in Nat /\ Len(t) \in Nat
      /\ \A k \in 1..Len(s) : s[k] \in Nat
      /\ \A k \in 1..Len(t) : t[k] \in Nat
  OBVIOUS
<1>2. D # {}
  <2> SUFFICES ASSUME D = {} PROVE FALSE
    OBVIOUS
  <2>1. \A i \in Nat : i > 0 /\ (i <= Len(s) \/ i <= Len(t)) => Both(i)
    OBVIOUS
  <2>2. Len(s) = Len(t)
    <3>1. ~(Len(s) < Len(t))
      <4>1. Len(t) > 0 => Len(t) <= Len(s)
        BY <1>1, <2>1
      <4> QED BY <1>1, <4>1
    <3>2. ~(Len(t) < Len(s))
      <4>1. Len(s) > 0 => Len(s) <= Len(t)
        BY <1>1, <2>1
      <4> QED BY <1>1, <4>1
    <3> QED BY <1>1, <3>1, <3>2
  <2>3. \A i \in 1..Len(s) : s[i] = t[i]
    BY <1>1, <2>1
  <2> QED BY <2>2, <2>3
<1>3. PICK k \in D : \A i \in D : k <= i
  BY <1>2, HasLeast
<1>4. ASSUME NEW i \in 1..(k - 1) PROVE Both(i)
  <2>1. i \in Nat /\ i > 0 /\ i < k /\ i \notin D
    BY <1>3
  <2>2. i <= Len(s) \/ i <= Len(t)
    BY <1>1, <1>3, <2>1
  <2> QED BY <2>1, <2>2
<1>5. k \in Nat /\ k > 0 /\ ~Both(k)
  BY <1>3
<1>6. k <= Len(s) + 1 /\ k <= Len(t) + 1
  <2>1. k = 1 \/ Both(k - 1)
    BY <1>4, <1>5
  <2> QED BY <1>1, <1>5, <2>1
<1>7. CASE k <= Len(s) /\ (k <= Len(t) => s[k] > t[k])
  <2>1. k \in 1..Len(s) /\ \A i \in 1..(k - 1) : s[i] = t[i]
    BY <1>4, <1>5, <1>7
  <2> QED BY <1>6, <1>7, <2>1 DEF Higher
<1>8. CASE k <= Len(t) /\ (k <= Len(s) => t[k] > s[k])
  <2>1. k \in 1..Len(t) /\ \A i \in 1..(k - 1) : t[i] = s[i]
    BY <1>4, <1>5, <1>8
  <2> QED BY <1>6, <1>8, <2>1 DEF Higher
<1>9. k <= Len(s) \/ k <= Len(t)
  BY <1>3
<1>10. k <= Len(s) /\ k <= Len(t) => s[k] \in Nat /\ t[k] \in Nat /\ s[k] # t[k]
  BY <1>1, <1>5
<1> QED BY <1>7, <1>8, <1>9, <1>10

\* Of two strings of one length the higher stays so with a digit behind, and of two that
\* differ in their last digit the one with the higher digit is the higher.
LEMMA HigherAppended ==
  ASSUME NEW s, NEW t, NEW x, NEW y, s \in Seq(Nat), t \in Seq(Nat), x \in Nat, y \in Nat,
         Len(s) = Len(t)
  PROVE  /\ Higher(s, t) => Higher(Append(s, x), Append(t, y))
         /\ s = t /\ x > y => Higher(Append(s, x), Append(t, y))
<1>1. PICK v, w : v = Append(s, x) /\ w = Append(t, y)
  OBVIOUS
<1>2. /\ Len(s) \in Nat /\ Len(v) = Len(s) + 1 /\ Len(w) = Len(s) + 1
      /\ v \in Seq(Nat) /\ w \in Seq(Nat)
      /\ \A k \in 1..Len(s) : v[k] = s[k] /\ w[k] = t[k]
      /\ v[Len(s) + 1] = x /\ w[Len(s) + 1] = y
  BY <1>1
<1>3. ASSUME Higher(s, t) PROVE Higher(v, w)
  <2>1. PICK i \in 1..Len(s) : /\ \A k \in 1..(i - 1) : s[k] = t[k]
                               /\ i <= Len(t) => s[i] > t[i]
    BY <1>3 DEF Higher
  <2>2. i \in 1..Len(v) /\ i <= Len(w) + 1 /\ v[i] > w[i]
    BY <1>2, <2>1
  <2>3. \A k \in 1..(i - 1) : v[k] = w[k]
    BY <1>2, <2>1
  <2> QED BY <2>2, <2>3, <1>2 DEF Higher
<1>4. ASSUME s = t, x > y PROVE Higher(v, w)
  <2>1. PICK n : n = Len(s) + 1
    OBVIOUS
  <2>2. n \in 1..Len(v) /\ n <= Len(w) + 1 /\ v[n] > w[n]
    BY <1>2, <1>4, <2>1
  <2>3. \A k \in 1..(n - 1) : v[k] = w[k]
    BY <1>2, <1>4, <2>1
  <2> QED BY <1>2, <2>2, <2>3 DEF Higher
<1> QED BY <1>1, <1>3, <1>4

LEMMA TextOfLonger ==
  ASSUME NEW n \in 0..MaxTime, NEW p, NEW r, ~(n < Base), p = n \div Base, r = n % Base
  PROVE  text[n] = Append(text[p], r)
<1>1. n >= Base
  BY BaseIs
<1>2. text[n] = Append(text[n \div Base], n % Base)
  BY <1>1, TextIs
<1> QED BY <1>2

\* The text of a time is a string that is not empty.
LEMMA TextTyped ==
  ASSUME NEW n, n \in 0..MaxTime
  PROVE  text[n] \in Seq(Nat) /\ Len(text[n]) >= 1
<1> DEFINE Good(k) == text[k] \in Seq(Nat) /\ Len(text[k]) >= 1
           T == {k \in Nat : k <= MaxTime /\ ~Good(k)}
<1> SUFFICES ASSUME T # {} PROVE FALSE
  BY BaseIs
<1>1. PICK k \in T : \A j \in T : k <= j
  BY HasLeast
<1>2. k \in 0..MaxTime /\ ~Good(k)
  BY <1>1, BaseIs
<1>a. \A j \in Nat : j < k /\ j <= MaxTime => Good(j)
  BY <1>1
<1>3. CASE k < Base
  <2>1. text[k] = <<k>>
    BY <1>2, <1>3, TextIs
  <2>2. <<k>> \in Seq(Nat) /\ Len(<<k>>) = 1
    BY <1>2
  <2>3. Good(k)
    BY <2>1, <2>2
  <2> QED BY <1>2, <2>3
<1>4. CASE ~(k < Base)
  <2>1. PICK p, r : p = k \div Base /\ r = k % Base
    OBVIOUS
  <2>2. p \in Nat /\ p < k /\ r \in Nat
    BY <1>2, <1>4, <2>1, Shorter, BaseIs
  <2>3. Good(p)
    BY <1>a, <1>2, <2>2, BaseIs
  <2>4. text[p] \in Seq(Nat) /\ Len(text[p]) >= 1
    BY <2>3
  <2>5. text[k] = Append(text[p], r)
    BY <1>2, <1>4, <2>1, TextOfLonger
  <2>6. Append(text[p], r) \in Seq(Nat) /\ Len(Append(text[p], r)) = Len(text[p]) + 1
    BY <2>2, <2>4
  <2>7. Good(k)
    BY <2>4, <2>5, <2>6
  <2> QED BY <1>2, <2>7
<1> QED BY <1>3, <1>4

\* An earlier time is never the longer one, and of two with as many digits the later one is
\* the higher string.
TextsInOrder(a, b) ==
  /\ Len(text[a]) <= Len(text[b])
  /\ Len(text[a]) = Len(text[b]) => Higher(text[b], text[a])

LEMMA TextOrder ==
  ASSUME NEW a, NEW b, a \in Nat, b \in Nat, a < b, b <= MaxTime
  PROVE  TextsInOrder(a, b)
<1> DEFINE T == {k \in Nat : k <= MaxTime /\ ~ \A j \in Nat : j < k => TextsInOrder(j, k)}
<1> SUFFICES ASSUME T # {} PROVE FALSE
  OBVIOUS
<1>1. PICK k \in T : \A j \in T : k <= j
  BY HasLeast
<1>2. k \in 0..MaxTime
  BY <1>1, BaseIs
<1>3. PICK j \in Nat : j < k /\ ~TextsInOrder(j, k)
  BY <1>1
<1>4. j \in 0..MaxTime
  BY <1>2, <1>3, BaseIs
<1>5. CASE k < Base
  <2>1. text[k] = <<k>> /\ text[j] = <<j>>
    BY <1>2, <1>3, <1>4, <1>5, TextIs, BaseIs
  <2>2. Len(<<k>>) = 1 /\ Len(<<j>>) = 1
    OBVIOUS
  <2>3. Higher(<<k>>, <<j>>)
    <3>1. 1 \in 1..Len(<<k>>) /\ 1 <= Len(<<j>>) + 1 /\ <<k>>[1] > <<j>>[1]
      BY <1>2, <1>3
    <3>2. \A i \in 1..(1 - 1) : <<k>>[i] = <<j>>[i]
      OBVIOUS
    <3> QED BY <3>1, <3>2 DEF Higher
  <2> QED BY <1>3, <2>1, <2>2, <2>3 DEF TextsInOrder
<1>6. CASE ~(k < Base)
  <2>1. PICK p, r : p = k \div Base /\ r = k % Base
    OBVIOUS
  <2>2. p \in Nat /\ p < k /\ r \in Nat
    BY <1>2, <1>6, <2>1, Shorter, BaseIs
  <2>3. text[k] = Append(text[p], r)
    BY <1>2, <1>6, <2>1, TextOfLonger
  <2>4. p \in 0..MaxTime
    BY <1>2, <2>2, BaseIs
  <2>5. text[p] \in Seq(Nat) /\ Len(text[p]) >= 1
    BY <2>4, TextTyped
  <2>6. Len(text[k]) = Len(text[p]) + 1
    BY <2>2, <2>3, <2>5
  <2>7. CASE j < Base
    <3>1. text[j] = <<j>>
      BY <1>4, <2>7, TextIs
    <3>2. Len(text[j]) = 1
      BY <3>1
    <3>3. Len(text[p]) \in Nat
      BY <2>5
    <3> QED BY <1>3, <2>5, <2>6, <3>2, <3>3 DEF TextsInOrder
  <2>8. CASE ~(j < Base)
    <3>1. PICK q, s : q = j \div Base /\ s = j % Base
      OBVIOUS
    <3>2. q \in Nat /\ q < j /\ s \in Nat
      BY <1>4, <2>8, <3>1, Shorter, BaseIs
    <3>3. text[j] = Append(text[q], s)
      BY <1>4, <2>8, <3>1, TextOfLonger
    <3>4. text[q] \in Seq(Nat)
      <4>1. q \in 0..MaxTime
        BY <1>4, <3>2, BaseIs
      <4> QED BY <4>1, TextTyped
    <3>5. Len(text[j]) = Len(text[q]) + 1
      BY <3>2, <3>3, <3>4
    <3>6. q <= p /\ (q = p => s < r)
      <4>1. k \in Nat
        BY <1>2
      <4> QED BY <1>3, <2>1, <3>1, <4>1, DigitsGrow
    <3>7. Len(text[p]) \in Nat /\ Len(text[q]) \in Nat
      BY <2>5, <3>4
    <3>8. CASE q = p
      <4>1. r > s
        BY <2>2, <3>2, <3>6, <3>8
      <4>2. Higher(Append(text[p], r), Append(text[q], s))
        BY <2>2, <2>5, <3>2, <3>8, <4>1, HigherAppended
      <4> QED BY <1>3, <2>3, <2>6, <3>3, <3>5, <3>7, <3>8, <4>2 DEF TextsInOrder
    <3>9. CASE q # p
      <4>1. q < p /\ p <= MaxTime /\ p \notin T
        BY <1>1, <2>2, <2>4, <3>2, <3>6, <3>9
      <4>2. TextsInOrder(q, p)
        BY <2>2, <3>2, <4>1
      <4>3. Len(text[q]) = Len(text[p]) => Higher(Append(text[p], r), Append(text[q], s))
        <5>1. SUFFICES ASSUME Len(text[q]) = Len(text[p])
                       PROVE  Higher(Append(text[p], r), Append(text[q], s))
          OBVIOUS
        <5>2. Higher(text[p], text[q])
          BY <4>2, <5>1 DEF TextsInOrder
        <5> QED BY <2>2, <2>5, <3>2, <3>4, <5>1, <5>2, HigherAppended
      <4>4. TextsInOrder(j, k)
        BY <2>3, <2>6, <3>3, <3>5, <3>7, <4>2, <4>3 DEF TextsInOrder
      <4> QED BY <1>3, <4>4
    <3> QED BY <3>8, <3>9
  <2> QED BY <2>7, <2>8
<1> QED BY <1>5, <1>6

TraceLine == [id : Nat, time : FirstTime..MaxTime, form : Forms]

SchedTyped ==
  /\ now \in FirstTime..MaxTime /\ lines \in Nat
  /\ ring \in Seq(TraceLine) /\ copy \in Seq(TraceLine) /\ flog \in Seq(TraceLine)
  /\ last_time \in Nat /\ missed \in SUBSET TraceLine

Held(s) == {s[i] : i \in DOMAIN s}

\* The lines the script is done with, and all that are left anywhere.
Done == Held(flog) \cup missed
Left == Held(ring) \cup Held(copy) \cup Done

InOrder(s) == \A i, j \in DOMAIN s : i < j => s[i].id < s[j].id

\* A number is one line's, none is beyond the counter, and the times do not fall.
Coherent(L, n, t) ==
  /\ \A x \in L : x.id <= n /\ x.time <= t
  /\ \A x, y \in L : (x.id < y.id => x.time <= y.time) /\ (x.id = y.id => x = y)

\* Of what is in the buffer or in the copy, the script is done with all that is not after a
\* line it is done with: it reads in the order of the buffer, which only loses its oldest lines.
ReadDown(R, C, D) == \A x \in R \cup C, y \in D : x.id <= y.id => x \in D

\* Up to the end of the copy nothing is in the buffer alone.
CopyOfRing(R, C, D) == \A x \in R, y \in C : x.id <= y.id => x \in C \cup D

LastIs == last_time = IF flog = << >> THEN Start ELSE flog[Len(flog)].time

\* No line that was read is above the last one that was kept: none will be kept again.
Past(D, last) == \A y \in D : Stamped(y) => last # Start /\ ~Above(y.time, last)

SchedInv ==
  /\ SchedTyped
  /\ InOrder(ring) /\ InOrder(copy)
  /\ Coherent(Left, lines, now)
  /\ ReadDown(Held(ring), Held(copy), Done)
  /\ CopyOfRing(Held(ring), Held(copy), Done)
  /\ LastIs /\ Past(Done, last_time)
  /\ LogIsInOrder /\ ReadIsKept

\* What a sequence of lines holds when one is appended or the first is taken.
LEMMA HeldTyped ==
  ASSUME NEW s, s \in Seq(TraceLine)
  PROVE  Held(s) \subseteq TraceLine
<1>1. \A i \in DOMAIN s : s[i] \in TraceLine
  OBVIOUS
<1> QED BY <1>1 DEF Held

LEMMA HeldAppend ==
  ASSUME NEW s, NEW z, s \in Seq(TraceLine), z \in TraceLine
  PROVE  /\ Append(s, z) \in Seq(TraceLine) /\ Append(s, z) # << >>
         /\ Held(Append(s, z)) = Held(s) \cup {z}
         /\ Append(s, z)[Len(Append(s, z))] = z
         /\ InOrder(s) /\ (\A x \in Held(s) : x.id < z.id) => InOrder(Append(s, z))
<1>1. PICK u : u = Append(s, z)
  OBVIOUS
<1>2. PICK n : n = Len(s)
  OBVIOUS
<1>3. /\ n \in Nat /\ DOMAIN s = 1..n /\ u \in Seq(TraceLine) /\ DOMAIN u = 1..(n + 1)
      /\ Len(u) = n + 1 /\ u[n + 1] = z /\ \A i \in 1..n : u[i] = s[i]
  BY <1>1, <1>2
<1>4. Held(u) = Held(s) \cup {z}
  <2>1. \A i \in 1..(n + 1) : i \in 1..n \/ i = n + 1
    BY <1>3
  <2>2. \A i \in 1..n : i \in 1..(n + 1)
    BY <1>3
  <2>3. n + 1 \in 1..(n + 1)
    BY <1>3
  <2>4. ASSUME NEW x \in Held(u) PROVE x \in Held(s) \cup {z}
    BY <1>3, <2>1 DEF Held
  <2>5. ASSUME NEW x \in Held(s) \cup {z} PROVE x \in Held(u)
    BY <1>3, <2>2, <2>3 DEF Held
  <2> QED BY <2>4, <2>5
<1>5. ASSUME InOrder(s), \A x \in Held(s) : x.id < z.id PROVE InOrder(u)
  <2> SUFFICES ASSUME NEW i \in 1..(n + 1), NEW j \in 1..(n + 1), i < j PROVE u[i].id < u[j].id
    BY <1>3 DEF InOrder
  <2>1. CASE j = n + 1
    <3>1. i \in 1..n
      BY <1>3, <2>1
    <3>2. s[i] \in Held(s)
      BY <1>3, <3>1 DEF Held
    <3> QED BY <1>3, <1>5, <2>1, <3>1, <3>2
  <2>2. CASE j # n + 1
    <3>1. i \in 1..n /\ j \in 1..n
      BY <1>3, <2>2
    <3>2. s[i].id < s[j].id
      BY <1>3, <1>5, <3>1 DEF InOrder
    <3> QED BY <1>3, <3>1, <3>2
  <2> QED BY <2>1, <2>2
<1>6. u # << >>
  BY <1>3
<1> QED BY <1>1, <1>3, <1>4, <1>5, <1>6

LEMMA HeldTail ==
  ASSUME NEW s, s \in Seq(TraceLine), s # << >>
  PROVE  /\ Tail(s) \in Seq(TraceLine) /\ Head(s) \in TraceLine
         /\ Held(s) = Held(Tail(s)) \cup {Head(s)}
         /\ InOrder(s) => InOrder(Tail(s)) /\ \A x \in Held(Tail(s)) : Head(s).id < x.id
<1>1. PICK u : u = Tail(s)
  OBVIOUS
<1>2. PICK n : n = Len(s)
  OBVIOUS
<1>3. /\ n \in Nat /\ n > 0 /\ DOMAIN s = 1..n /\ u \in Seq(TraceLine) /\ DOMAIN u = 1..(n - 1)
      /\ Head(s) = s[1] /\ \A i \in 1..(n - 1) : u[i] = s[i + 1]
  BY <1>1, <1>2
<1>4. 1 \in 1..n /\ s[1] \in TraceLine
  BY <1>2, <1>3
<1>5. Held(s) = Held(u) \cup {s[1]}
  <2>1. \A i \in 1..n : i = 1 \/ (i - 1 \in 1..(n - 1) /\ (i - 1) + 1 = i)
    BY <1>3
  <2>2. \A i \in 1..(n - 1) : i + 1 \in 1..n
    BY <1>3
  <2>3. ASSUME NEW x \in Held(s) PROVE x \in Held(u) \cup {s[1]}
    <3>1. PICK i \in 1..n : x = s[i]
      BY <1>3 DEF Held
    <3>2. CASE i # 1
      <4>1. PICK k : k = i - 1
        OBVIOUS
      <4>2. k \in 1..(n - 1) /\ i = k + 1
        BY <1>3, <3>2, <4>1
      <4>3. x = u[k]
        BY <1>3, <3>1, <4>2
      <4> QED BY <1>3, <4>2, <4>3 DEF Held
    <3> QED BY <3>1, <3>2
  <2>4. ASSUME NEW x \in Held(u) \cup {s[1]} PROVE x \in Held(s)
    BY <1>3, <1>4, <2>2 DEF Held
  <2> QED BY <2>3, <2>4
<1>6. ASSUME InOrder(s) PROVE InOrder(u) /\ \A x \in Held(u) : s[1].id < x.id
  <2>1. ASSUME NEW i \in 1..(n - 1), NEW j \in 1..(n - 1), i < j PROVE u[i].id < u[j].id
    <3>1. i + 1 \in 1..n /\ j + 1 \in 1..n /\ i + 1 < j + 1
      BY <1>3, <2>1
    <3>2. s[i + 1].id < s[j + 1].id
      BY <1>3, <1>6, <3>1 DEF InOrder
    <3> QED BY <1>3, <3>2
  <2>2. ASSUME NEW i \in 1..(n - 1) PROVE s[1].id < u[i].id
    <3>1. 1 \in 1..n /\ i + 1 \in 1..n /\ 1 < i + 1
      BY <1>3
    <3>2. s[1].id < s[i + 1].id
      BY <1>3, <1>6, <3>1 DEF InOrder
    <3> QED BY <1>3, <3>2
  <2> QED BY <1>3, <2>1, <2>2 DEF InOrder, Held
<1> QED BY <1>1, <1>3, <1>4, <1>5, <1>6

\* The order of the time stamps, for the times of lines.
LEMMA StampsAre ==
  ASSUME NEW a, a \in FirstTime..MaxTime
  PROVE  a \in 0..MaxTime /\ a \in Nat /\ a # Start /\ text[a] \in Seq(Nat)
<1>1. a \in 0..MaxTime /\ a \in Nat /\ a # Start
  BY BaseIs DEF Start
<1> QED BY <1>1, TextTyped

LEMMA NotAboveItself ==
  ASSUME NEW a, a \in FirstTime..MaxTime
  PROVE  ~Above(a, a)
BY StampsAre, HigherIrreflexive DEF Above

LEMMA AboveTransitive ==
  ASSUME NEW a, NEW b, NEW c, a \in FirstTime..MaxTime, b \in FirstTime..MaxTime,
         c \in FirstTime..MaxTime, Above(a, b), Above(b, c)
  PROVE  Above(a, c)
<1>1. Higher(text[a], text[b]) /\ Higher(text[b], text[c])
  BY StampsAre DEF Above
<1>2. text[a] \in Seq(Nat) /\ text[b] \in Seq(Nat) /\ text[c] \in Seq(Nat)
  BY StampsAre
<1> QED BY <1>1, <1>2, HigherTransitive DEF Above

\* A later time that is not above an earlier one has more digits, and is below it.
LEMMA LaterNotAbove ==
  ASSUME NEW a, NEW b, a \in FirstTime..MaxTime, b \in FirstTime..MaxTime, a < b, ~Above(b, a)
  PROVE  Len(text[a]) < Len(text[b]) /\ Above(a, b)
<1>1. text[a] \in Seq(Nat) /\ text[b] \in Seq(Nat) /\ a \in Nat /\ b \in Nat
  BY StampsAre
<1>2. ~Higher(text[b], text[a])
  BY DEF Above
<1>3. TextsInOrder(a, b)
  BY <1>1, BaseIs, TextOrder
<1>4. Len(text[a]) < Len(text[b])
  BY <1>1, <1>2, <1>3 DEF TextsInOrder
<1>5. text[a] # text[b]
  BY <1>1, <1>4
<1> QED BY <1>1, <1>2, <1>4, <1>5, HigherTotal DEF Above

LEMMA SchedInvIs ==
  ASSUME SchedInv
  PROVE  /\ now \in FirstTime..MaxTime /\ lines \in Nat
         /\ ring \in Seq(TraceLine) /\ copy \in Seq(TraceLine) /\ flog \in Seq(TraceLine)
         /\ last_time \in Nat /\ missed \in SUBSET TraceLine
         /\ InOrder(ring) /\ InOrder(copy)
         /\ Coherent(Left, lines, now)
         /\ ReadDown(Held(ring), Held(copy), Done)
         /\ CopyOfRing(Held(ring), Held(copy), Done)
         /\ LastIs /\ Past(Done, last_time)
         /\ LogIsInOrder /\ ReadIsKept
         /\ Held(ring) \subseteq Left /\ Held(copy) \subseteq Left
         /\ Held(flog) \subseteq Done /\ Done \subseteq Left
         /\ Left \subseteq TraceLine
<1>1. Left \subseteq TraceLine
  BY HeldTyped DEF SchedInv, SchedTyped, Left, Done
<1>2. /\ Held(ring) \subseteq Left /\ Held(copy) \subseteq Left
      /\ Held(flog) \subseteq Done /\ Done \subseteq Left
  BY DEF Left, Done
<1> QED BY <1>1, <1>2 DEF SchedInv, SchedTyped

\* With the first line the first time is the last one.
LEMMA SchedInitInv == SchedInit => SchedInv
<1> SUFFICES ASSUME SchedInit PROVE SchedInv
  OBVIOUS
<1>1. PICK e : e = << >>
  OBVIOUS
<1>2. e \in Seq(TraceLine) /\ DOMAIN e = {} /\ Held(e) = {} /\ InOrder(e)
  BY <1>1 DEF Held, InOrder
<1>3. ring = e /\ copy = e /\ flog = e /\ missed = {}
  BY <1>1 DEF SchedInit
<1>4. Held(ring) = {} /\ Held(copy) = {} /\ Done = {} /\ Left = {}
  BY <1>2, <1>3 DEF Done, Left
<1>5. SchedTyped
  BY <1>2, <1>3, BaseIs DEF SchedInit, SchedTyped, Start
<1>6. LastIs
  BY DEF SchedInit, LastIs
<1>7. LogIsInOrder /\ ReadIsKept
  BY <1>2, <1>3 DEF LogIsInOrder, ReadIsKept
<1> QED
  BY <1>2, <1>3, <1>4, <1>5, <1>6, <1>7
     DEF SchedInv, Coherent, ReadDown, CopyOfRing, Past

\* Nothing about the log changes when nothing is read.
LEMMA LogUntouched ==
  ASSUME SchedInv, UNCHANGED <<flog, missed, last_time>>
  PROVE  Done' = Done /\ LastIs' /\ Past(Done, last_time)' /\ LogIsInOrder' /\ ReadIsKept'
<1>1. Done' = Done /\ LastIs'
  BY SchedInvIs DEF Done, LastIs
<1>2. Past(Done, last_time)'
  BY <1>1, SchedInvIs
<1>3. LogIsInOrder'
  BY SchedInvIs DEF LogIsInOrder
<1>4. \A x : Kept(x)' = Kept(x)
  BY DEF Kept
<1>5. ReadIsKept'
  BY <1>4, SchedInvIs DEF ReadIsKept
<1> QED BY <1>1, <1>2, <1>3, <1>5

\* A new switch is after everything: it is at the end of the buffer.
LEMMA SwitchesStep ==
  ASSUME SchedInv, Switches
  PROVE  SchedInv'
<1>1. PICK form \in Forms :
        ring' = LET grown == Append(ring, [id |-> lines + 1, time |-> now, form |-> form])
                IN  IF Len(grown) > Size THEN Tail(grown) ELSE grown
  BY DEF Switches
<1>2. PICK z : z = [id |-> lines + 1, time |-> now, form |-> form]
  OBVIOUS
<1>3. z \in TraceLine /\ z.id = lines + 1 /\ z.time = now
  BY <1>2, SchedInvIs DEF TraceLine
<1>4. PICK grown : grown = Append(ring, z)
  OBVIOUS
<1>5. lines' = lines + 1 /\ UNCHANGED <<now, copy, last_time, flog, missed>>
  BY DEF Switches
<1>6. \A x \in Left : x.id \in Nat /\ x.time \in Nat /\ x.id < z.id /\ x.time <= z.time
  BY <1>3, SchedInvIs, BaseIs DEF Coherent, TraceLine
<1>7. grown \in Seq(TraceLine) /\ grown # << >> /\ Held(grown) = Held(ring) \cup {z} /\ InOrder(grown)
  BY <1>3, <1>4, <1>6, SchedInvIs, HeldAppend
<1>8. ring' = grown \/ ring' = Tail(grown)
  BY <1>1, <1>2, <1>4
<1>9. ring' \in Seq(TraceLine) /\ InOrder(ring)' /\ Held(ring)' \subseteq Held(ring) \cup {z}
  <2>1. CASE ring' = grown
    BY <1>7, <2>1 DEF InOrder, Held
  <2>2. CASE ring' = Tail(grown)
    <3>1. Tail(grown) \in Seq(TraceLine) /\ InOrder(Tail(grown)) /\ Held(Tail(grown)) \subseteq Held(grown)
      BY <1>7, HeldTail
    <3> QED BY <1>7, <2>2, <3>1 DEF InOrder, Held
  <2> QED BY <1>8, <2>1, <2>2
<1>10. /\ Done' = Done /\ Held(copy)' = Held(copy) /\ LastIs' /\ Past(Done, last_time)'
       /\ LogIsInOrder' /\ ReadIsKept'
  BY <1>5, LogUntouched DEF Held
<1>11. Left' \subseteq Left \cup {z}
  BY <1>9, <1>10 DEF Left
<1>12. Coherent(Left, lines, now)'
  <2>1. \A x \in Left \cup {z} : x.id \in Nat /\ x.id <= lines + 1 /\ x.time <= now
    BY <1>3, <1>6, SchedInvIs DEF Coherent, TraceLine
  <2>2. \A x, y \in Left \cup {z} : (x.id < y.id => x.time <= y.time) /\ (x.id = y.id => x = y)
    BY <1>3, <1>6, SchedInvIs DEF Coherent, TraceLine
  <2> QED BY <1>5, <1>11, <2>1, <2>2 DEF Coherent
<1>13. ReadDown(Held(ring), Held(copy), Done)'
  <2>1. \A y \in Done : ~(z.id <= y.id)
    <3>1. \A y \in Done : y.id \in Nat /\ y.id < z.id
      BY <1>6, SchedInvIs
    <3> QED BY <1>3, <3>1, SchedInvIs
  <2>2. \A x \in Held(ring)' \cup Held(copy), y \in Done : x.id <= y.id => x \in Done
    <3>1. \A x \in Held(ring)' \cup Held(copy) : x = z \/ x \in Held(ring) \cup Held(copy)
      BY <1>9
    <3>2. \A x \in Held(ring) \cup Held(copy), y \in Done : x.id <= y.id => x \in Done
      BY SchedInvIs DEF ReadDown
    <3> QED BY <2>1, <3>1, <3>2
  <2> QED BY <1>10, <2>2 DEF ReadDown
<1>14. CopyOfRing(Held(ring), Held(copy), Done)'
  <2>1. \A x \in Held(ring)', y \in Held(copy) : x.id <= y.id => x \in Held(copy) \cup Done
    BY <1>3, <1>6, <1>9, SchedInvIs DEF CopyOfRing, TraceLine
  <2> QED BY <1>10, <2>1 DEF CopyOfRing
<1>15. SchedTyped' /\ InOrder(copy)'
  BY <1>5, <1>9, SchedInvIs DEF SchedTyped, InOrder
<1> QED BY <1>9, <1>10, <1>12, <1>13, <1>14, <1>15 DEF SchedInv

LEMMA PassesStep ==
  ASSUME SchedInv, Passes
  PROVE  SchedInv'
<1>1. now < MaxTime /\ now' = now + 1 /\ UNCHANGED <<ring, lines, copy, last_time, flog, missed>>
  BY DEF Passes
<1>2. /\ Done' = Done /\ LastIs' /\ Past(Done, last_time)' /\ LogIsInOrder' /\ ReadIsKept'
  BY <1>1, LogUntouched
<1>3. Held(ring)' = Held(ring) /\ Held(copy)' = Held(copy) /\ InOrder(ring)' /\ InOrder(copy)'
  BY <1>1, SchedInvIs DEF Held, InOrder
<1>4. Left' = Left
  BY <1>2, <1>3 DEF Left
<1>5. now' \in FirstTime..MaxTime /\ now <= now'
  BY <1>1, SchedInvIs, BaseIs
<1>6. Coherent(Left, lines, now)'
  <2>1. \A x \in Left : x.time <= now'
    BY <1>1, SchedInvIs, BaseIs DEF Coherent, TraceLine
  <2> QED BY <1>1, <1>4, <2>1, SchedInvIs DEF Coherent
<1>7. SchedTyped'
  BY <1>1, <1>5, SchedInvIs DEF SchedTyped
<1>8. ReadDown(Held(ring), Held(copy), Done)' /\ CopyOfRing(Held(ring), Held(copy), Done)'
  BY <1>2, <1>3, SchedInvIs
<1> QED BY <1>2, <1>3, <1>6, <1>7, <1>8 DEF SchedInv

LEMMA ReadsTraceStep ==
  ASSUME SchedInv, ReadsTrace
  PROVE  SchedInv'
<1>1. copy' = ring /\ UNCHANGED <<now, ring, lines, last_time, flog, missed>>
  BY DEF ReadsTrace
<1>2. /\ Done' = Done /\ LastIs' /\ Past(Done, last_time)' /\ LogIsInOrder' /\ ReadIsKept'
  BY <1>1, LogUntouched
<1>3. Held(ring)' = Held(ring) /\ Held(copy)' = Held(ring) /\ InOrder(ring)' /\ InOrder(copy)'
  BY <1>1, SchedInvIs DEF Held, InOrder
<1>4. Left' \subseteq Left
  BY <1>2, <1>3 DEF Left
<1>5. Coherent(Left, lines, now)'
  BY <1>1, <1>4, SchedInvIs DEF Coherent
<1>6. SchedTyped'
  BY <1>1, SchedInvIs DEF SchedTyped
<1>7. ReadDown(Held(ring), Held(copy), Done)'
  BY <1>2, <1>3, SchedInvIs DEF ReadDown
<1>8. CopyOfRing(Held(ring), Held(copy), Done)'
  BY <1>2, <1>3 DEF CopyOfRing
<1> QED BY <1>2, <1>3, <1>5, <1>6, <1>7, <1>8 DEF SchedInv

\* The line that is read is the first of the copy.  It is one the script is done with, or after
\* all of those.
LEMMA ReadsHead ==
  ASSUME SchedInv, NEW h, NEW rest, copy # << >>, h = Head(copy), rest = Tail(copy)
  PROVE  /\ h \in TraceLine /\ h \in Left /\ rest \in Seq(TraceLine) /\ InOrder(rest)
         /\ Held(copy) = Held(rest) \cup {h}
         /\ \A x \in Held(rest) : ~(x.id <= h.id)
         /\ h \in Done \/ \A y \in Done : y.id < h.id /\ y.time <= h.time
         /\ ReadDown(Held(ring), Held(rest), Done \cup {h})
         /\ CopyOfRing(Held(ring), Held(rest), Done \cup {h})
         /\ Held(ring) \cup Held(rest) \cup (Done \cup {h}) \subseteq Left
<1>1. /\ h \in TraceLine /\ rest \in Seq(TraceLine) /\ InOrder(rest)
      /\ Held(copy) = Held(rest) \cup {h}
      /\ \A x \in Held(rest) : h.id < x.id
  BY SchedInvIs, HeldTail
<1>2. h \in Left /\ Held(ring) \cup Held(rest) \cup (Done \cup {h}) \subseteq Left
  BY <1>1, SchedInvIs
<1>3. \A x \in Left : x.id \in Nat
  BY SchedInvIs DEF TraceLine
<1>4. \A x \in Held(rest) : ~(x.id <= h.id)
  BY <1>1, <1>2, <1>3
<1>5. ASSUME h \notin Done, NEW y \in Done PROVE y.id < h.id /\ y.time <= h.time
  <2>1. ~(h.id <= y.id)
    BY <1>1, <1>5, SchedInvIs DEF ReadDown
  <2>2. y \in Left
    BY SchedInvIs
  <2>3. y.id < h.id
    BY <1>2, <1>3, <2>1, <2>2
  <2> QED BY <1>2, <2>2, <2>3, SchedInvIs DEF Coherent
<1>6. ReadDown(Held(ring), Held(rest), Done \cup {h})
  <2>1. ASSUME NEW x \in Held(ring) \cup Held(rest), x.id <= h.id PROVE x \in Done \cup {h}
    <3>1. CASE x \in Held(rest)
      BY <1>4, <2>1, <3>1
    <3>2. CASE x \in Held(ring)
      <4>1. h \in Held(copy)
        BY <1>1
      <4>2. x \in Held(copy) \cup Done
        BY <2>1, <3>2, <4>1, SchedInvIs DEF CopyOfRing
      <4>3. x \in Held(rest) => x = h
        BY <1>4, <2>1
      <4> QED BY <1>1, <4>2, <4>3
    <3> QED BY <3>1, <3>2
  <2>2. \A x \in Held(ring) \cup Held(rest), y \in Done : x.id <= y.id => x \in Done
    BY <1>1, SchedInvIs DEF ReadDown
  <2> QED BY <2>1, <2>2 DEF ReadDown
<1>7. CopyOfRing(Held(ring), Held(rest), Done \cup {h})
  BY <1>1, SchedInvIs DEF CopyOfRing
<1> QED BY <1>1, <1>2, <1>4, <1>5, <1>6, <1>7

\* What is above the last line that was kept is after the whole log.
LEMMA KeepsLineStep ==
  ASSUME SchedInv, NEW h, NEW rest, copy # << >>, h = Head(copy), rest = Tail(copy),
         Stamped(h), Above(h.time, last_time),
         flog' = Append(flog, h), last_time' = h.time, copy' = rest,
         UNCHANGED <<missed, now, ring, lines>>
  PROVE  SchedInv'
<1>1. /\ h \in TraceLine /\ h \in Left /\ rest \in Seq(TraceLine) /\ InOrder(rest)
      /\ h \in Done \/ \A y \in Done : y.id < h.id /\ y.time <= h.time
      /\ ReadDown(Held(ring), Held(rest), Done \cup {h})
      /\ CopyOfRing(Held(ring), Held(rest), Done \cup {h})
      /\ Held(ring) \cup Held(rest) \cup (Done \cup {h}) \subseteq Left
  BY ReadsHead
<1>2. /\ flog' \in Seq(TraceLine) /\ flog' # << >> /\ Held(flog') = Held(flog) \cup {h}
      /\ flog'[Len(flog')] = h
  BY <1>1, SchedInvIs, HeldAppend
<1>3. Done' = Done \cup {h} /\ Held(ring)' = Held(ring) /\ Held(copy)' = Held(rest)
  <2>1. Held(flog)' = Held(flog) \cup {h} /\ missed' = missed
    BY <1>2 DEF Held
  <2> QED BY <2>1 DEF Done, Held
<1>4. Left' \subseteq Left
  BY <1>1, <1>3 DEF Left
<1>5. h.time \in FirstTime..MaxTime /\ h.time \in Nat /\ h.time # Start
  BY <1>1, StampsAre DEF TraceLine
<1>6. h \notin Done
  BY SchedInvIs DEF Past
<1>7. SchedTyped' /\ InOrder(ring)' /\ InOrder(copy)'
  BY <1>1, <1>2, <1>5, SchedInvIs DEF SchedTyped, InOrder
<1>8. Coherent(Left, lines, now)'
  BY <1>4, SchedInvIs DEF Coherent
<1>9. ReadDown(Held(ring), Held(copy), Done)' /\ CopyOfRing(Held(ring), Held(copy), Done)'
  BY <1>1, <1>3 DEF ReadDown, CopyOfRing
<1>10. LastIs'
  BY <1>2 DEF LastIs
<1>11. Past(Done, last_time)'
  <2> SUFFICES ASSUME NEW y \in Done \cup {h}, Stamped(y), Above(y.time, h.time) PROVE FALSE
    BY <1>3, <1>5 DEF Past
  <2>1. CASE y = h
    BY <1>5, <2>1, NotAboveItself
  <2>2. CASE y \in Done
    <3>1. last_time # Start /\ ~Above(y.time, last_time)
      BY <2>2, SchedInvIs DEF Past
    <3>2. flog # << >> /\ last_time = flog[Len(flog)].time
      BY <3>1, SchedInvIs DEF LastIs
    <3>3. last_time \in FirstTime..MaxTime
      <4>1. Len(flog) \in DOMAIN flog
        BY <3>2, SchedInvIs
      <4>2. flog[Len(flog)] \in TraceLine
        BY <4>1, SchedInvIs
      <4> QED BY <3>2, <4>2 DEF TraceLine
    <3>4. y.time \in FirstTime..MaxTime
      <4>1. y \in TraceLine
        BY <2>2, SchedInvIs
      <4> QED BY <4>1 DEF TraceLine
    <3> QED BY <1>5, <3>1, <3>3, <3>4, AboveTransitive
  <2> QED BY <2>1, <2>2
<1>12. \A i \in 1..Len(flog) : flog'[i] = flog[i]
  BY <1>1, SchedInvIs
<1>13. Len(flog') = Len(flog) + 1 /\ DOMAIN flog = 1..Len(flog) /\ DOMAIN flog' = 1..(Len(flog) + 1)
  BY <1>1, SchedInvIs
<1>14. Len(flog) \in Nat
  BY SchedInvIs
<1>15. LogIsInOrder'
  <2> SUFFICES ASSUME NEW i \in 1..(Len(flog) + 1), NEW j \in 1..(Len(flog) + 1), i < j
               PROVE  flog'[i].id < flog'[j].id /\ flog'[i].time <= flog'[j].time
    BY <1>13 DEF LogIsInOrder
  <2>1. i \in 1..Len(flog)
    BY <1>14
  <2>2. CASE j = Len(flog) + 1
    <3>1. flog[i] \in Held(flog)
      BY <1>13, <2>1 DEF Held
    <3>2. flog[i].id < h.id /\ flog[i].time <= h.time
      BY <1>1, <1>6, <3>1, SchedInvIs
    <3>3. flog'[j] = h
      BY <1>2, <1>13, <2>2
    <3> QED BY <1>12, <2>1, <3>2, <3>3
  <2>3. CASE j # Len(flog) + 1
    <3>1. j \in 1..Len(flog)
      BY <1>14, <2>3
    <3> QED BY <1>12, <1>13, <2>1, <3>1, SchedInvIs DEF LogIsInOrder
  <2> QED BY <2>2, <2>3
<1>16. ReadIsKept'
  <2> SUFFICES ASSUME NEW z \in missed
               PROVE  \/ Kept(z)'
                      \/ z.form = "odd"
                      \/ \E i \in DOMAIN flog' : flog'[i].time = z.time \/ Overtakes(flog'[i], z)
    BY DEF ReadIsKept, Overtakes
  <2>1. CASE Kept(z)
    <3>1. PICK i \in DOMAIN flog : flog[i].id = z.id
      BY <2>1 DEF Kept
    <3>2. i \in DOMAIN flog' /\ flog'[i].id = z.id
      BY <1>12, <1>13, <1>14, <3>1
    <3> QED BY <3>2 DEF Kept
  <2>2. CASE z.form = "odd"
    BY <2>2
  <2>3. CASE \E i \in DOMAIN flog : flog[i].time = z.time \/ Overtakes(flog[i], z)
    <3>1. PICK i \in DOMAIN flog : flog[i].time = z.time \/ Overtakes(flog[i], z)
      BY <2>3
    <3>2. i \in DOMAIN flog' /\ flog'[i] = flog[i]
      BY <1>12, <1>13, <1>14, <3>1
    <3> QED BY <3>1, <3>2
  <2> QED BY <2>1, <2>2, <2>3, SchedInvIs DEF ReadIsKept
<1> QED BY <1>7, <1>8, <1>9, <1>10, <1>11, <1>15, <1>16 DEF SchedInv

\* What is not above the last line has been read already, has its time, or has one more digit.
LEMMA MissesLineStep ==
  ASSUME SchedInv, NEW h, NEW rest, copy # << >>, h = Head(copy), rest = Tail(copy),
         ~(Stamped(h) /\ Above(h.time, last_time)),
         missed' = missed \cup {h}, copy' = rest,
         UNCHANGED <<flog, last_time, now, ring, lines>>
  PROVE  SchedInv'
<1>1. /\ h \in TraceLine /\ h \in Left /\ rest \in Seq(TraceLine) /\ InOrder(rest)
      /\ h \in Done \/ \A y \in Done : y.id < h.id /\ y.time <= h.time
      /\ ReadDown(Held(ring), Held(rest), Done \cup {h})
      /\ CopyOfRing(Held(ring), Held(rest), Done \cup {h})
      /\ Held(ring) \cup Held(rest) \cup (Done \cup {h}) \subseteq Left
  BY ReadsHead
<1>2. Done' = Done \cup {h} /\ Held(ring)' = Held(ring) /\ Held(copy)' = Held(rest)
  BY DEF Done, Held
<1>3. Left' \subseteq Left
  BY <1>1, <1>2 DEF Left
<1>4. SchedTyped' /\ InOrder(ring)' /\ InOrder(copy)'
  BY <1>1, SchedInvIs DEF SchedTyped, InOrder
<1>5. Coherent(Left, lines, now)'
  BY <1>3, SchedInvIs DEF Coherent
<1>6. ReadDown(Held(ring), Held(copy), Done)' /\ CopyOfRing(Held(ring), Held(copy), Done)'
  BY <1>1, <1>2 DEF ReadDown, CopyOfRing
<1>7. LastIs' /\ LogIsInOrder'
  BY SchedInvIs DEF LastIs, LogIsInOrder
<1>8. Past(Done, last_time)'
  <2>1. Stamped(h) => last_time # Start /\ ~Above(h.time, last_time)
    BY DEF Above
  <2> QED BY <1>2, <2>1, SchedInvIs DEF Past
<1>9. \/ Kept(h)
      \/ h.form = "odd"
      \/ \E i \in DOMAIN flog : flog[i].time = h.time \/ Overtakes(flog[i], h)
  <2>1. CASE h \in missed
    BY <2>1, SchedInvIs DEF ReadIsKept
  <2>2. CASE h \in Held(flog)
    BY <2>2 DEF Held, Kept
  <2>3. CASE ~Stamped(h)
    BY <1>1, <2>3 DEF Stamped, TraceLine, Forms
  <2>4. CASE h \notin Done /\ Stamped(h)
    <3>1. ~Above(h.time, last_time) /\ last_time # Start
      BY <2>4 DEF Above
    <3>2. flog # << >> /\ last_time = flog[Len(flog)].time
      BY <3>1, SchedInvIs DEF LastIs
    <3>3. PICK n : n = Len(flog)
      OBVIOUS
    <3>4. n \in DOMAIN flog
      BY <3>2, <3>3, SchedInvIs
    <3>5. flog[n] \in Held(flog) /\ flog[n] \in TraceLine
      BY <3>4, SchedInvIs DEF Held
    <3>6. flog[n].id < h.id /\ flog[n].time <= h.time
      BY <1>1, <2>4, <3>5, SchedInvIs
    <3>7. flog[n].time \in FirstTime..MaxTime /\ h.time \in FirstTime..MaxTime
      BY <1>1, <3>5 DEF TraceLine
    <3>8. CASE flog[n].time = h.time
      BY <3>4, <3>8
    <3>9. CASE flog[n].time # h.time
      <4>1. flog[n].time < h.time /\ ~Above(h.time, flog[n].time)
        BY <3>1, <3>2, <3>3, <3>6, <3>7, <3>9, StampsAre
      <4>2. Len(text[flog[n].time]) < Len(text[h.time]) /\ Above(flog[n].time, h.time)
        BY <3>7, <4>1, LaterNotAbove
      <4>3. Overtakes(flog[n], h)
        BY <3>6, <4>2 DEF Overtakes
      <4> QED BY <3>4, <4>3
    <3> QED BY <3>8, <3>9
  <2> QED BY <2>1, <2>2, <2>3, <2>4 DEF Done
<1>10. ReadIsKept'
  <2>1. \A z : Kept(z)' = Kept(z)
    BY DEF Kept
  <2>2. ASSUME NEW z \in missed \cup {h}
        PROVE  \/ Kept(z)
               \/ z.form = "odd"
               \/ \E i \in DOMAIN flog : flog[i].time = z.time \/ Overtakes(flog[i], z)
    BY <1>9, SchedInvIs DEF ReadIsKept
  <2> QED BY <2>1, <2>2 DEF ReadIsKept
<1> QED BY <1>4, <1>5, <1>6, <1>7, <1>8, <1>10 DEF SchedInv

\* The log of task switches is the trace in its order and without repetitions: a line that was
\* read is missing only for its name, its time stamp, or the string order (run.py 13-55).
THEOREM TraceInOrder == SchedSpec => []TraceIsInOrder
<1>1. SchedInv /\ [SchedNext]_schedVars => SchedInv'
  <2> SUFFICES ASSUME SchedInv, [SchedNext]_schedVars PROVE SchedInv'
    OBVIOUS
  <2>1. CASE ReadsLine
    <3>1. PICK h, rest : h = Head(copy) /\ rest = Tail(copy)
      OBVIOUS
    <3>2. CASE Stamped(h) /\ Above(h.time, last_time)
      <4>1. /\ copy # << >> /\ flog' = Append(flog, h) /\ last_time' = h.time /\ copy' = rest
            /\ UNCHANGED <<missed, now, ring, lines>>
        BY <2>1, <3>1, <3>2 DEF ReadsLine
      <4> QED BY <3>1, <3>2, <4>1, KeepsLineStep
    <3>3. CASE ~(Stamped(h) /\ Above(h.time, last_time))
      <4>1. /\ copy # << >> /\ missed' = missed \cup {h} /\ copy' = rest
            /\ UNCHANGED <<flog, last_time, now, ring, lines>>
        BY <2>1, <3>1, <3>3 DEF ReadsLine
      <4> QED BY <3>1, <3>3, <4>1, MissesLineStep
    <3> QED BY <3>2, <3>3
  <2>2. CASE UNCHANGED schedVars
    <3>1. UNCHANGED <<now, ring, lines, copy, last_time, flog, missed>>
      BY <2>2 DEF schedVars
    <3>2. /\ Done' = Done /\ LastIs' /\ Past(Done, last_time)' /\ LogIsInOrder' /\ ReadIsKept'
      BY <3>1, LogUntouched
    <3>3. Held(ring)' = Held(ring) /\ Held(copy)' = Held(copy) /\ InOrder(ring)' /\ InOrder(copy)'
      BY <3>1, SchedInvIs DEF Held, InOrder
    <3>4. Left' = Left
      BY <3>2, <3>3 DEF Left
    <3> QED BY <3>1, <3>2, <3>3, <3>4, SchedInvIs DEF SchedInv, SchedTyped
  <2> QED BY <2>1, <2>2, SwitchesStep, PassesStep, ReadsTraceStep DEF SchedNext
<1>2. SchedInv => TraceIsInOrder
  BY DEF SchedInv, TraceIsInOrder
<1> QED BY <1>1, <1>2, SchedInitInv, PTL DEF SchedSpec

-----------------------------------------------------------------------------
(* The power log. *)

USE SizesArePositive

-----------------------------------------------------------------------------
(* Sequences. *)

LEMMA Appended ==
  ASSUME NEW S, NEW s \in Seq(S), NEW x \in S
  PROVE  /\ Append(s, x) \in Seq(S)
         /\ Len(Append(s, x)) = Len(s) + 1
         /\ \A i \in 1..Len(s) : Append(s, x)[i] = s[i]
         /\ Append(s, x)[Len(s) + 1] = x
OBVIOUS

LEMMA Replaced ==
  ASSUME NEW S, NEW s \in Seq(S), NEW i \in 1..Len(s), NEW x \in S
  PROVE  /\ [s EXCEPT ![i] = x] \in Seq(S)
         /\ Len([s EXCEPT ![i] = x]) = Len(s)
         /\ \A j \in 1..Len(s) : [s EXCEPT ![i] = x][j] = IF j = i THEN x ELSE s[j]
<1>1. [s EXCEPT ![i] = x] \in [1..Len(s) -> S] OBVIOUS
<1>2. [s EXCEPT ![i] = x] \in Seq(S) BY <1>1
<1> QED BY <1>1, <1>2

-----------------------------------------------------------------------------
(* The lock: a writer that writes or has raised holds it.                  *)

States == {"waiting", "writing", "ended", "raised"}

AnyWriter == [batch : Seq(Int), done : Nat, state : States]

LockInv ==
  /\ taken \in Nat /\ buffer \in Seq(Int)
  /\ writers \in Seq(AnyWriter)
  /\ \A w \in 1..Len(writers) : writers[w].state \in {"writing", "raised"} => lock = w
  /\ mpc = "start" => writers = <<>>

\* A step that starts a writer.
LEMMA StartKeepsLock ==
  ASSUME LockInv, NEW b \in Seq(Int), StartWriter(b), lock' = lock, mpc' # "start",
         taken' \in Nat, buffer' \in Seq(Int)
  PROVE  LockInv'
<1> DEFINE x == [batch |-> b, done |-> 0, state |-> "waiting"]
<1>1. x \in AnyWriter BY DEF AnyWriter, States
<1>2. writers' = Append(writers, x) BY DEF StartWriter
<1>3. /\ writers' \in Seq(AnyWriter) /\ Len(writers') = Len(writers) + 1
      /\ \A w \in 1..Len(writers) : writers'[w] = writers[w]
      /\ writers'[Len(writers) + 1] = x
      BY <1>1, <1>2, Appended DEF LockInv
<1>4. ASSUME NEW w \in 1..Len(writers'), writers'[w].state \in {"writing", "raised"}
      PROVE  lock' = w
  <2>1. w # Len(writers) + 1 BY <1>3, <1>4
  <2>2. w \in 1..Len(writers) BY <1>3, <2>1 DEF LockInv
  <2> QED BY <1>3, <1>4, <2>2 DEF LockInv
<1> QED BY <1>3, <1>4 DEF LockInv

\* A step of a writer.
LEMMA WriterKeepsLock ==
  ASSUME LockInv, NEW w \in 1..Len(writers), NEW x \in AnyWriter,
         writers' = [writers EXCEPT ![w] = x],
         UNCHANGED <<taken, buffer, mpc>>,
         \A v \in 1..Len(writers) :
           (IF v = w THEN x ELSE writers[v]).state \in {"writing", "raised"} => lock' = v
  PROVE  LockInv'
<1>1. /\ writers' \in Seq(AnyWriter) /\ Len(writers') = Len(writers)
      /\ \A v \in 1..Len(writers) : writers'[v] = IF v = w THEN x ELSE writers[v]
      BY Replaced DEF LockInv
<1>2. \A v \in 1..Len(writers') : writers'[v].state \in {"writing", "raised"} => lock' = v
      BY <1>1
<1>3. mpc' = "start" => writers' = <<>> BY DEF LockInv
<1> QED BY <1>1, <1>2, <1>3 DEF LockInv

LEMMA LockStep == LockInv /\ [Next]_vars => LockInv'
<1> SUFFICES ASSUME LockInv, [Next]_vars PROVE LockInv'
    OBVIOUS
<1>0. ASSUME NEW w \in DOMAIN writers
      PROVE  w \in 1..Len(writers) /\ writers[w] \in AnyWriter
      BY <1>0 DEF LockInv
<1>1. ASSUME UNCHANGED <<taken, buffer, writers, lock>>, mpc' # "start" \/ mpc' = mpc
      PROVE  LockInv'
      BY <1>1 DEF LockInv
<1>2. CASE WriteHeader BY <1>1, <1>2 DEF WriteHeader
<1>3. CASE Sample
  <2> DEFINE grown == Append(buffer, taken')
  <2>1. /\ taken' = taken + 1 /\ lock' = lock /\ mpc' = "check"
        /\ (StartWriter(grown) /\ buffer' = <<>>) \/ (buffer' = grown /\ writers' = writers)
        BY <1>3 DEF Sample
  <2>2. taken' \in Nat /\ grown \in Seq(Int) BY <2>1, Appended DEF LockInv
  <2>3. <<>> \in Seq(Int) OBVIOUS
  <2> HIDE DEF grown
  <2>4. CASE StartWriter(grown) /\ buffer' = <<>>
        BY <2>1, <2>2, <2>3, <2>4, StartKeepsLock
  <2>5. CASE buffer' = grown /\ writers' = writers BY <2>1, <2>2, <2>5 DEF LockInv
  <2> QED BY <2>1, <2>4, <2>5
<1>4. CASE CheckStop BY <1>1, <1>4 DEF CheckStop
<1>5. CASE WriteRest
  <2>1. StartWriter(buffer) /\ buffer' = <<>> /\ taken' = taken /\ lock' = lock /\ mpc' = "ended"
        BY <1>5 DEF WriteRest
  <2>2. <<>> \in Seq(Int) OBVIOUS
  <2> QED BY <2>1, <2>2, StartKeepsLock DEF LockInv
<1>6. CASE BusFails \/ Stop \/ Kill BY <1>1, <1>6 DEF BusFails, Stop, Kill
<1>7. ASSUME NEW w \in DOMAIN writers, Acquire(w) PROVE LockInv'
  <2> DEFINE x == [writers[w] EXCEPT !.state = "writing"]
  <2>1. x \in AnyWriter BY <1>0 DEF AnyWriter, States
  <2>2. writers' = [writers EXCEPT ![w] = x] /\ UNCHANGED <<taken, buffer, mpc>>
        BY <1>7 DEF Acquire
  <2>3. lock = 0 /\ lock' = w BY <1>7 DEF Acquire
  <2>4. \A v \in 1..Len(writers) : writers[v].state \notin {"writing", "raised"}
        BY <2>3 DEF LockInv
  <2> QED BY <1>0, <2>1, <2>2, <2>3, <2>4, WriterKeepsLock
<1>8. ASSUME NEW w \in DOMAIN writers, WriteRecord(w) PROVE LockInv'
  <2> DEFINE x == [writers[w] EXCEPT !.done = @ + 1]
  <2>1. x \in AnyWriter /\ x.state = writers[w].state BY SMTT(20), <1>0 DEF AnyWriter
  <2>2. writers' = [writers EXCEPT ![w] = x] /\ UNCHANGED <<taken, buffer, mpc, lock>>
        BY <1>8 DEF WriteRecord
  <2> QED BY <1>0, <2>1, <2>2, WriterKeepsLock DEF LockInv
<1>9. ASSUME NEW w \in DOMAIN writers, Release(w) PROVE LockInv'
  <2> DEFINE x == [writers[w] EXCEPT !.state = "ended"]
  <2>1. x \in AnyWriter /\ x.state = "ended" BY <1>0 DEF AnyWriter, States
  <2>2. writers' = [writers EXCEPT ![w] = x] /\ UNCHANGED <<taken, buffer, mpc>>
        BY <1>9 DEF Release
  <2>3. \A v \in 1..Len(writers) : writers[v].state \in {"writing", "raised"} => v = w
        BY <1>0, <1>9 DEF Release, LockInv
  <2> QED BY <1>0, <2>1, <2>2, <2>3, WriterKeepsLock
<1>10. ASSUME NEW w \in DOMAIN writers, WriteFails(w) PROVE LockInv'
  <2> DEFINE x == [writers[w] EXCEPT !.state = "raised"]
  <2>1. x \in AnyWriter /\ x.state = "raised" BY <1>0 DEF AnyWriter, States
  <2>2. writers' = [writers EXCEPT ![w] = x] /\ UNCHANGED <<taken, buffer, mpc, lock>>
        BY <1>10 DEF WriteFails
  <2>3. lock = w BY <1>0, <1>10 DEF WriteFails, LockInv
  <2> QED BY <1>0, <2>1, <2>2, <2>3, WriterKeepsLock DEF LockInv
<1>11. CASE UNCHANGED vars BY <1>1, <1>11 DEF vars
<1> QED BY <1>2, <1>3, <1>4, <1>5, <1>6, <1>7, <1>8, <1>9, <1>10, <1>11
        DEF Next, Measure, Write

\* A write that raises ends the log: the lock is never given back, and no other batch is
\* written, for any sizes and any number of writers.
THEOREM ARaiseEndsTheLog == Spec => NothingAfterARaise
<1>1. Init => LockInv BY DEF Init, LockInv
<1>2. ASSUME LockInv, [Next]_vars, Raised PROVE UNCHANGED file
  <2>1. PICK w \in 1..Len(writers) : writers[w].state = "raised" /\ lock = w
        BY <1>2 DEF Raised, LockInv
  <2>2. ~WriteHeader BY <1>2, <2>1 DEF WriteHeader, LockInv
  <2>3. \A v \in DOMAIN writers : ~WriteRecord(v)
        BY SMTT(20), <1>2, <2>1 DEF WriteRecord, LockInv
  <2>4. CASE Sample \/ CheckStop \/ WriteRest \/ BusFails \/ Stop \/ Kill
        BY <2>4 DEF Sample, CheckStop, WriteRest, BusFails, Stop, Kill
  <2>5. ASSUME NEW v \in DOMAIN writers, Acquire(v) \/ Release(v) \/ WriteFails(v)
        PROVE  UNCHANGED file
        BY <2>5 DEF Acquire, Release, WriteFails
  <2> QED BY <1>2, <2>2, <2>3, <2>4, <2>5 DEF Next, Measure, Write, vars
<1>3. LockInv /\ [Next]_vars => [Raised => UNCHANGED file]_vars BY <1>2
<1> QED BY <1>1, <1>3, LockStep, PTL DEF Spec, NothingAfterARaise

-----------------------------------------------------------------------------
(* The handing over.  The batches follow each other from sample 1 on, and  *)
(* the buffer follows the last one; with the types this is inductive.      *)

HandInv ==
  /\ TypeOK /\ HandedOverInOrder
  /\ mpc = "ended" => writers # <<>>

\* A slice that grows by the next number.
LEMMA SliceGrows ==
  ASSUME NEW k \in Nat, NEW s \in Seq(Int), s = Slice(k, Len(s))
  PROVE  Append(s, k + Len(s) + 1) = Slice(k, Len(s) + 1)
<1> DEFINE t == Append(s, k + Len(s) + 1)
<1>1. t \in Seq(Int) /\ Len(t) = Len(s) + 1 OBVIOUS
<1>2. \A i \in 1..Len(s) + 1 : t[i] = k + i BY DEF Slice
<1>3. t = [i \in 1..Len(s) + 1 |-> t[i]] BY <1>1
<1> QED BY <1>2, <1>3 DEF Slice

LEMMA SliceEmpty == ASSUME NEW k \in Nat PROVE <<>> = Slice(k, 0)
BY DEF Slice

LEMMA BeforeTyped ==
  ASSUME TypeOK, HandedOverInOrder, NEW w \in 1..Len(writers) + 1,
         mpc # "ended" \/ w <= Len(writers)
  PROVE  Before(w) \in 0..MaxSamples
<1>1. CASE w = 1 BY <1>1 DEF Before
<1>2. CASE w # 1
  <2> DEFINE b == writers[w - 1].batch
  <2>1. w - 1 \in 1..Len(writers) BY <1>2 DEF TypeOK
  <2>6. writers[w - 1] \in Writer BY <2>1 DEF TypeOK
  <2>2. b \in Seq(1..MaxSamples) BY <2>6 DEF Writer
  <2>3. Len(b) = BufferSize BY SMTT(30), <2>1 DEF HandedOverInOrder, TypeOK
  <2>4. b[Len(b)] \in 1..MaxSamples BY <2>2, <2>3
  <2> QED BY <1>2, <2>4 DEF Before, LastSample
<1> QED BY <1>1, <1>2

\* The batches of the writers there are, as seen after a step.
BatchesKept ==
  \A w \in 1..Len(writers) : writers'[w].batch = writers[w].batch

LEMMA BeforeKept ==
  ASSUME TypeOK, BatchesKept, NEW w \in 1..Len(writers) + 1
  PROVE  Before(w)' = Before(w)
<1>1. CASE w = 1 BY <1>1 DEF Before
<1>2. CASE w # 1
  <2>1. w - 1 \in 1..Len(writers) BY <1>2 DEF TypeOK
  <2> QED BY <1>2, <2>1 DEF Before, LastSample, BatchesKept
<1> QED BY <1>1, <1>2

\* Steps that hand nothing over.
LEMMA NothingHandedOver ==
  ASSUME TypeOK, HandedOverInOrder, BatchesKept, Len(writers') = Len(writers),
         UNCHANGED <<taken, buffer>>, mpc' = "ended" <=> mpc = "ended",
         mpc = "ended" => writers # <<>>
  PROVE  HandedOverInOrder'
<1>1. Len(writers) \in Nat BY DEF TypeOK
<1>2. \A w \in 1..Len(writers) + 1 : Before(w)' = Before(w) BY BeforeKept
<1>3. ASSUME NEW w \in 1..Len(writers')
      PROVE  /\ (writers[w].batch = Slice(Before(w), Len(writers[w].batch)))'
             /\ mpc' # "ended" \/ w < Len(writers') => Len(writers'[w].batch) = BufferSize
      BY <1>1, <1>2 DEF HandedOverInOrder, BatchesKept, Slice
<1>4. /\ (mpc # "ended" => buffer = Slice(Before(Len(writers) + 1), Len(buffer)))'
      /\ mpc' = "ended" => buffer' = <<>>
      BY <1>1, <1>2 DEF HandedOverInOrder, Slice
<1>5. (taken = IF mpc = "ended" THEN Before(Len(writers)) + Len(writers[Len(writers)].batch)
               ELSE Before(Len(writers) + 1) + Len(buffer))'
  <2>1. CASE mpc = "ended"
    <3>1. Len(writers) \in 1..Len(writers) + 1 BY <1>1, <2>1 DEF TypeOK
    <3> QED BY <1>1, <1>2, <2>1, <3>1 DEF HandedOverInOrder, BatchesKept
  <2>2. CASE mpc # "ended" BY <1>1, <1>2, <2>2 DEF HandedOverInOrder
  <2> QED BY <2>1, <2>2
<1> QED BY <1>3, <1>4, <1>5 DEF HandedOverInOrder

\* A writer is started with a batch that goes on from the last one.
LEMMA HandOver ==
  ASSUME TypeOK, HandedOverInOrder, mpc # "ended", NEW b \in Seq(1..MaxSamples),
         b = Slice(Before(Len(writers) + 1), Len(b)), StartWriter(b),
         buffer' = <<>>, taken' = Before(Len(writers) + 1) + Len(b),
         Len(b) = BufferSize \/ mpc' = "ended"
  PROVE  HandedOverInOrder' /\ writers' \in Seq(Writer) /\ writers' # <<>>
         /\ Len(writers') = Len(writers) + 1
<1> DEFINE x == [batch |-> b, done |-> 0, state |-> "waiting"]
           n == Len(writers)
<1>1. n \in Nat /\ x \in Writer BY DEF TypeOK, Writer
<1>2. writers' = Append(writers, x) BY DEF StartWriter
<1>3. /\ writers' \in Seq(Writer) /\ Len(writers') = n + 1
      /\ \A w \in 1..n : writers'[w] = writers[w]
      /\ writers'[n + 1] = x
      BY <1>1, <1>2, Appended DEF TypeOK
<1>4. \A w \in 1..n + 1 : Before(w)' = Before(w)
      BY <1>3, BeforeKept DEF BatchesKept
<1>5. Before(n + 1) \in Nat BY <1>1, BeforeTyped
<1>6. ASSUME NEW w \in 1..n + 1
      PROVE  /\ (writers[w].batch = Slice(Before(w), Len(writers[w].batch)))'
             /\ mpc' # "ended" \/ w < n + 1 => Len(writers'[w].batch) = BufferSize
  <2>1. CASE w \in 1..n
        BY <1>1, <1>3, <1>4, <2>1 DEF HandedOverInOrder, Slice
  <2>2. CASE w = n + 1
    <3>1. writers'[w].batch = b /\ (Before(w))' = Before(n + 1) BY <1>3, <1>4, <2>2
    <3>2. writers'[w].batch = Slice(Before(w)', Len(writers'[w].batch)) BY <3>1
    <3> QED BY <1>1, <3>1, <3>2, <2>2 DEF Slice
  <2> QED BY <1>1, <2>1, <2>2
<1>7. ASSUME NEW w \in Nat, w = n + 2, mpc' # "ended"
      PROVE  Before(w)' = taken'
  <2>1. Len(b) \in 1..Len(b) /\ Len(b) = BufferSize BY <1>7
  <2>2. b[Len(b)] = Before(n + 1) + Len(b) BY <2>1 DEF Slice
  <2>3. writers'[w - 1].batch = b BY <1>1, <1>3, <1>7
  <2> QED BY <1>1, <1>7, <2>2, <2>3 DEF Before, LastSample
<1>8. ASSUME NEW w \in Nat, w = n + 1
      PROVE  Before(w)' + Len(writers'[w].batch) = taken'
      BY <1>1, <1>3, <1>4, <1>8
<1>9. ASSUME mpc' # "ended"
      PROVE  /\ buffer' = Slice(Before(Len(writers) + 1)', Len(buffer'))
             /\ taken' = Before(Len(writers) + 1)' + Len(buffer')
  <2>1. PICK k \in Nat : k = n + 2 BY <1>1
  <2>2. Before(k)' = taken' BY <1>7, <1>9, <2>1
  <2>3. Len(writers') + 1 = k BY <1>1, <1>3, <2>1
  <2>4. (Before(Len(writers) + 1))' = taken' BY <2>2, <2>3 DEF Before, LastSample
  <2>5. taken' \in Nat BY <1>1, <1>5
  <2> QED BY <2>4, <2>5, SliceEmpty
<1>10. ASSUME mpc' = "ended"
       PROVE  taken' = (Before(Len(writers)) + Len(writers[Len(writers)].batch))'
  <2>1. PICK k \in Nat : k = n + 1 BY <1>1
  <2>2. Before(k)' + Len(writers'[k].batch) = taken' BY <1>8, <2>1
  <2>3. Len(writers') = k BY <1>1, <1>3, <2>1
  <2> QED BY <2>2, <2>3 DEF Before, LastSample
<1>11. \A w \in 1..Len(writers') :
         /\ writers'[w].batch = Slice(Before(w)', Len(writers'[w].batch))
         /\ mpc' # "ended" \/ w < Len(writers') => Len(writers'[w].batch) = BufferSize
       BY <1>1, <1>3, <1>6 DEF Slice
<1>12. HandedOverInOrder'
       BY <1>9, <1>10, <1>11 DEF HandedOverInOrder, Slice
<1> QED BY <1>1, <1>3, <1>12

\* A step of a writer keeps its batch.
LEMMA WriterStepHands ==
  ASSUME HandInv, NEW w \in 1..Len(writers), NEW x \in Writer,
         x.batch = writers[w].batch, writers' = [writers EXCEPT ![w] = x],
         UNCHANGED <<taken, buffer, mpc>>
  PROVE  HandedOverInOrder' /\ writers' \in Seq(Writer) /\ Len(writers') = Len(writers)
         /\ (mpc' = "ended" => writers' # <<>>)
<1>1. /\ writers' \in Seq(Writer) /\ Len(writers') = Len(writers)
      /\ \A v \in 1..Len(writers) : writers'[v] = IF v = w THEN x ELSE writers[v]
      BY Replaced DEF HandInv, TypeOK
<1>2. BatchesKept BY <1>1 DEF BatchesKept
<1>3. HandedOverInOrder' BY <1>1, <1>2, NothingHandedOver DEF HandInv
<1> QED BY <1>1, <1>3 DEF HandInv, TypeOK

LEMMA HandStep == HandInv /\ [Next]_vars => HandInv'
<1> SUFFICES ASSUME HandInv, [Next]_vars PROVE HandInv'
    OBVIOUS
<1>0. TypeOK /\ HandedOverInOrder /\ (mpc = "ended" => writers # <<>>) BY DEF HandInv
<1>10. ASSUME NEW w \in DOMAIN writers
      PROVE  w \in 1..Len(writers) /\ writers[w] \in Writer
      BY <1>0 DEF TypeOK
<1>1. ASSUME UNCHANGED <<taken, buffer, writers>>, TypeOK', mpc' = "ended" <=> mpc = "ended"
      PROVE  HandInv'
  <2>1. HandedOverInOrder' BY <1>0, <1>1, NothingHandedOver DEF BatchesKept
  <2> QED BY <1>0, <1>1, <2>1 DEF HandInv
<1>2. CASE WriteHeader
  <2>1. TypeOK' BY <1>0, <1>2 DEF WriteHeader, TypeOK, Sampling, Header
  <2> QED BY <1>1, <1>2, <2>1 DEF WriteHeader
<1>3. CASE Sample
  <2> DEFINE k == Before(Len(writers) + 1)
             grown == Append(buffer, taken')
  <2>1. /\ mpc = "sample" /\ mpc' = "check" /\ taken < MaxSamples /\ taken' = taken + 1
        /\ UNCHANGED <<stop, lock, file, alive>>
        BY <1>3 DEF Sample
  <2>2. k \in 0..MaxSamples /\ Len(writers) \in Nat
        BY <1>0, <2>1, BeforeTyped DEF TypeOK
  <2>3. buffer \in Seq(1..MaxSamples) /\ Len(buffer) < BufferSize
        /\ buffer = Slice(k, Len(buffer)) /\ taken = k + Len(buffer)
        BY <1>0, <2>1 DEF HandedOverInOrder, TypeOK
  <2>4. taken' \in 1..MaxSamples BY <1>0, <2>1 DEF TypeOK
  <2>5. grown \in Seq(1..MaxSamples) /\ Len(grown) = Len(buffer) + 1
        BY <2>3, <2>4, Appended
  <2>6. grown = Slice(k, Len(grown))
    <3>1. buffer \in Seq(Int) BY <2>3
    <3>2. Append(buffer, k + Len(buffer) + 1) = Slice(k, Len(buffer) + 1)
          BY SMTT(20), <2>2, <2>3, <3>1, SliceGrows
    <3>3. taken' = k + Len(buffer) + 1 BY <2>1, <2>2, <2>3
    <3> QED BY <2>5, <3>2, <3>3
  <2>7. CASE Len(grown) = BufferSize
    <3>1. StartWriter(grown) /\ buffer' = <<>> BY <1>3, <2>7 DEF Sample
    <3>2. taken' = k + Len(grown) BY <2>1, <2>2, <2>3, <2>5
    <3>3. HandedOverInOrder' /\ writers' \in Seq(Writer) /\ Len(writers') = Len(writers) + 1
      <4> HIDE DEF grown
      <4> QED BY <1>0, <2>1, <2>5, <2>6, <2>7, <3>1, <3>2, HandOver
    <3>4. crowded' \in BOOLEAN BY <1>0, <3>1 DEF StartWriter, TypeOK
    <3>5. lock' \in 0..Len(writers') BY <1>0, <2>1, <2>2, <3>3 DEF TypeOK
    <3>6. buffer' \in Seq(1..MaxSamples) /\ Len(buffer') < BufferSize BY <3>1
    <3>7. taken' \in 0..MaxSamples BY <2>4
    <3>8. mpc' \in Sampling BY <2>1 DEF Sampling
    <3>9. stop' \in BOOLEAN /\ alive' \in BOOLEAN /\ file' \in Seq(0..MaxSamples)
          BY <1>0, <2>1 DEF TypeOK
    <3>10. TypeOK' BY <3>3, <3>4, <3>5, <3>6, <3>7, <3>8, <3>9 DEF TypeOK
    <3> QED BY <2>1, <3>3, <3>10 DEF HandInv
  <2>8. CASE Len(grown) # BufferSize
    <3>1. buffer' = grown /\ UNCHANGED <<writers, crowded>> BY <1>3, <2>8 DEF Sample
    <3>2. Len(buffer') < BufferSize BY <2>3, <2>5, <2>8, <3>1
    <3>3. TypeOK' BY <1>0, <2>1, <2>4, <2>5, <3>1, <3>2 DEF TypeOK, Sampling
    <3>4. HandedOverInOrder'
      <4>1. \A w \in 1..Len(writers) + 1 : Before(w)' = Before(w)
            BY <1>0, <3>1, BeforeKept DEF BatchesKept
      <4>2. (Before(Len(writers) + 1))' = k BY <3>1 DEF Before, LastSample
      <4>3. taken' = k + Len(buffer') BY <2>1, <2>2, <2>3, <2>5, <3>1
      <4>4. \A w \in 1..Len(writers') :
              /\ writers'[w].batch = Slice(Before(w)', Len(writers'[w].batch))
              /\ mpc' # "ended" \/ w < Len(writers') => Len(writers'[w].batch) = BufferSize
            BY SMTT(20), <1>0, <2>1, <2>2, <3>1, <4>1 DEF HandedOverInOrder
      <4> QED BY <2>1, <2>6, <3>1, <4>2, <4>3, <4>4 DEF HandedOverInOrder, Slice
    <3> QED BY <2>1, <3>3, <3>4 DEF HandInv
  <2> QED BY <2>7, <2>8
<1>4. CASE CheckStop
  <2>1. TypeOK' BY <1>0, <1>4 DEF CheckStop, TypeOK, Sampling
  <2> QED BY <1>1, <1>4, <2>1 DEF CheckStop
<1>5. CASE WriteRest
  <2> DEFINE k == Before(Len(writers) + 1)
  <2>1. /\ mpc = "rest" /\ mpc' = "ended" /\ StartWriter(buffer) /\ buffer' = <<>>
        /\ UNCHANGED <<taken, stop, lock, file, alive>>
        BY <1>5 DEF WriteRest
  <2>2. buffer \in Seq(1..MaxSamples) /\ buffer = Slice(k, Len(buffer))
        /\ taken' = k + Len(buffer)
        BY <1>0, <2>1 DEF HandedOverInOrder, TypeOK
  <2>3. HandedOverInOrder' /\ writers' \in Seq(Writer) /\ writers' # <<>>
        /\ Len(writers') = Len(writers) + 1
        BY <1>0, <2>1, <2>2, HandOver
  <2>4. crowded' \in BOOLEAN BY <1>0, <2>1 DEF StartWriter, TypeOK
  <2>5. lock' \in 0..Len(writers') /\ taken' \in 0..MaxSamples
        BY <1>0, <2>1, <2>3 DEF TypeOK
  <2>6. buffer' \in Seq(1..MaxSamples) /\ Len(buffer') < BufferSize BY <2>1
  <2>7. mpc' \in Sampling BY <2>1 DEF Sampling
  <2>8. stop' \in BOOLEAN /\ alive' \in BOOLEAN /\ file' \in Seq(0..MaxSamples)
        BY <1>0, <2>1 DEF TypeOK
  <2>9. TypeOK' BY <2>3, <2>4, <2>5, <2>6, <2>7, <2>8 DEF TypeOK
  <2> QED BY <2>3, <2>9 DEF HandInv
<1>6. CASE BusFails \/ Stop \/ Kill
  <2>1. TypeOK' BY <1>0, <1>6 DEF BusFails, Stop, Kill, TypeOK, Sampling
  <2> QED BY <1>1, <1>6, <2>1 DEF BusFails, Stop, Kill
<1>7. ASSUME NEW w \in DOMAIN writers, Acquire(w) \/ Release(w) \/ WriteFails(w)
      PROVE  HandInv'
  <2>1. PICK st \in {"writing", "ended", "raised"} :
          writers' = [writers EXCEPT ![w].state = st]
        BY <1>7 DEF Acquire, Release, WriteFails
  <2> DEFINE x == [writers[w] EXCEPT !.state = st]
  <2>2. x \in Writer /\ x.batch = writers[w].batch BY <1>10 DEF Writer
  <2>3. writers' = [writers EXCEPT ![w] = x] BY <2>1
  <2>4. UNCHANGED <<taken, buffer, mpc, stop, file, alive, crowded>>
        /\ lock' \in {lock, w, 0}
        BY <1>7 DEF Acquire, Release, WriteFails
  <2>5. HandedOverInOrder' /\ writers' \in Seq(Writer) /\ Len(writers') = Len(writers)
        /\ (mpc' = "ended" => writers' # <<>>)
        BY <1>10, <2>2, <2>3, <2>4, WriterStepHands
  <2>6. lock' \in 0..Len(writers') BY <1>0, <1>10, <2>4, <2>5 DEF TypeOK
  <2>7. TypeOK' BY <1>0, <2>4, <2>5, <2>6 DEF TypeOK
  <2> QED BY <2>5, <2>7 DEF HandInv
<1>8. ASSUME NEW w \in DOMAIN writers, WriteRecord(w) PROVE HandInv'
  <2> DEFINE x == [writers[w] EXCEPT !.done = @ + 1]
             b == writers[w].batch
  <2>1. /\ writers' = [writers EXCEPT ![w] = x] /\ writers[w].done < Len(b)
        /\ file' = Append(file, b[writers[w].done + 1])
        /\ UNCHANGED <<taken, buffer, mpc, stop, lock, alive, crowded>>
        BY <1>8 DEF WriteRecord
  <2>2. b \in Seq(1..MaxSamples) /\ writers[w].done \in 0..MaxSamples
        BY <1>10 DEF Writer
  <2>3. b[writers[w].done + 1] \in 1..MaxSamples BY SMTT(20), <2>1, <2>2
  <2>4. Len(b) <= MaxSamples
    <3>1. b = Slice(Before(w), Len(b)) BY <1>0, <1>10 DEF HandedOverInOrder
    <3>2. Before(w) \in 0..MaxSamples BY <1>0, <1>10, BeforeTyped DEF TypeOK
    <3>3. Len(b) \in 1..Len(b) BY <2>1, <2>2
    <3>4. b[Len(b)] = Before(w) + Len(b) BY <3>1, <3>3 DEF Slice
    <3>5. b[Len(b)] \in 1..MaxSamples BY <2>2, <3>3
    <3> QED BY <2>2, <3>2, <3>4, <3>5
  <2>9. writers[w].done + 1 \in 0..MaxSamples BY <2>1, <2>2, <2>4
  <2>5. x \in Writer /\ x.batch = b BY <1>10, <2>9 DEF Writer
  <2>6. HandedOverInOrder' /\ writers' \in Seq(Writer) /\ Len(writers') = Len(writers)
        /\ (mpc' = "ended" => writers' # <<>>)
        BY <1>10, <2>1, <2>5, WriterStepHands
  <2>7. file' \in Seq(0..MaxSamples) BY SMTT(30), <1>0, <2>1, <2>3, Appended DEF TypeOK
  <2>8. TypeOK' BY <1>0, <2>1, <2>6, <2>7 DEF TypeOK
  <2> QED BY <2>6, <2>8 DEF HandInv
<1>9. CASE UNCHANGED vars
  <2>1. TypeOK' BY <1>0, <1>9 DEF vars, TypeOK
  <2> QED BY <1>1, <1>9, <2>1 DEF vars
<1> QED BY <1>2, <1>3, <1>4, <1>5, <1>6, <1>7, <1>8, <1>9 DEF Next, Measure, Write

LEMMA HandInit == Init => HandInv
<1> SUFFICES ASSUME Init PROVE HandInv
    OBVIOUS
<1>1. TypeOK
  <2>1. writers \in Seq(Writer) /\ Len(writers) = 0 /\ lock \in 0..Len(writers) BY DEF Init
  <2>2. buffer \in Seq(1..MaxSamples) /\ Len(buffer) < BufferSize BY DEF Init
  <2>3. taken \in 0..MaxSamples /\ file \in Seq(0..MaxSamples) BY DEF Init
  <2>4. mpc \in Sampling BY DEF Init, Sampling
  <2>5. stop \in BOOLEAN /\ alive \in BOOLEAN /\ crowded \in BOOLEAN BY DEF Init
  <2> QED BY <2>1, <2>2, <2>3, <2>4, <2>5 DEF TypeOK
<1>2. Before(Len(writers) + 1) = 0 BY DEF Init, Before
<1>3. HandedOverInOrder BY <1>2, SliceEmpty DEF Init, HandedOverInOrder
<1> QED BY <1>1, <1>3 DEF HandInv, Init

\* Every variable stays in its domain, and the buffer is never seen full by the next pass.
THEOREM TypeCorrect == Spec => []TypeOK
<1>1. HandInv => TypeOK BY DEF HandInv
<1> QED BY <1>1, HandInit, HandStep, PTL DEF Spec

\* The batches handed to the writers, with the buffer after them, are the samples taken,
\* in order and each once, for any size of the buffer.
THEOREM HandoverIsOrdered == Spec => []HandedOverInOrder
<1>1. HandInv => HandedOverInOrder BY DEF HandInv
<1> QED BY <1>1, HandInit, HandStep, PTL DEF Spec

-----------------------------------------------------------------------------
(* The file.  The invariant says of its contents, writer by writer, what   *)
(* a reader may rely on, and how it goes on while a batch is written.      *)

Reached(w) == Before(w) + writers[w].done
Upto(w)    == Before(w) + Len(writers[w].batch)

\* A writer has written none of its batch while it waits, and all when it has ended.
WritersCount ==
  \A w \in 1..Len(writers) :
    /\ writers[w].done <= Len(writers[w].batch)
    /\ writers[w].state = "waiting" => writers[w].done = 0
    /\ writers[w].state = "ended" => writers[w].done = Len(writers[w].batch)

\* The batches do not overlap.
BatchesFollow == \A v, w \in 1..Len(writers) : v < w => Upto(v) <= Before(w)

\* A sample of the file is one that its writer has written.
FileIsWritten ==
  \A i \in 2..Len(file) :
    \E w \in 1..Len(writers) : Before(w) < file[i] /\ file[i] <= Reached(w)

FileIsDistinct == \A i, j \in 2..Len(file) : i # j => file[i] # file[j]

EndsABatch(s) == \E w \in 1..Len(writers) : Len(writers[w].batch) > 0 /\ s = Upto(w)

FileGoesOn == \A i \in 2..Len(file) - 1 : file[i + 1] = file[i] + 1 \/ EndsABatch(file[i])

\* The last sample of the file is that of the batch being written, or ends one.
FileEnd ==
  IF lock # 0 /\ writers[lock].done # 0
    THEN Len(file) > 1 /\ file[Len(file)] = Reached(lock)
    ELSE Len(file) > 1 => EndsABatch(file[Len(file)])

\* As long as no writer was overtaken only the last one is at work.
KeptUp ==
  ~crowded =>
    /\ \A w \in 1..Len(writers) : w < Len(writers) => writers[w].state = "ended"
    /\ \A i \in 2..Len(file) : file[i] = i - 1
    /\ writers # <<>> => Len(file) = 1 + Reached(Len(writers))
    /\ writers = <<>> => Len(file) <= 1

FileInv ==
  /\ mpc = "start" <=> file = <<>>
  /\ WritersCount /\ BatchesFollow
  /\ FileIsWritten /\ FileIsDistinct /\ FileGoesOn /\ FileEnd
  /\ KeptUp

\* The numbers the invariant compares, and the samples of a batch.
LEMMA FileFacts ==
  ASSUME HandInv, NEW w \in 1..Len(writers)
  PROVE  /\ Before(w) \in Nat /\ Len(writers[w].batch) \in Nat /\ writers[w].done \in Nat
         /\ Upto(w) \in Nat /\ Reached(w) \in Nat
         /\ writers[w] \in Writer /\ Len(writers) \in Nat
         /\ \A k \in 1..Len(writers[w].batch) : writers[w].batch[k] = Before(w) + k
<1>1. Before(w) \in Nat BY BeforeTyped DEF HandInv, TypeOK
<1>2. writers[w] \in Writer /\ Len(writers) \in Nat BY DEF HandInv, TypeOK
<1>3. Len(writers[w].batch) \in Nat /\ writers[w].done \in Nat BY <1>2 DEF Writer
<1>4. writers[w].batch = Slice(Before(w), Len(writers[w].batch))
      BY DEF HandInv, HandedOverInOrder
<1>5. \A k \in 1..Len(writers[w].batch) : writers[w].batch[k] = Before(w) + k
      BY <1>4 DEF Slice
<1> QED BY <1>1, <1>2, <1>3, <1>5 DEF Upto, Reached

\* A number is in one batch at most.
LEMMA InOneBatch ==
  ASSUME HandInv, BatchesFollow, NEW v \in 1..Len(writers), NEW w \in 1..Len(writers),
         NEW s \in Int, Before(v) < s, s <= Upto(v), Before(w) < s, s <= Upto(w)
  PROVE  v = w
<1>1. ~(v < w) BY FileFacts DEF BatchesFollow
<1>2. ~(w < v) BY FileFacts DEF BatchesFollow
<1> QED BY <1>1, <1>2

\* The samples are what follows the header.
LEMMA WrittenElements ==
  ASSUME NEW S, file \in Seq(S)
  PROVE  /\ Written \in Seq(S)
         /\ Len(Written) = IF Len(file) > 1 THEN Len(file) - 1 ELSE 0
         /\ \A i \in 1..Len(Written) : i + 1 \in 2..Len(file) /\ Written[i] = file[i + 1]
<1>1. Len(file) \in Nat /\ \A i \in 2..Len(file) : file[i] \in S OBVIOUS
<1>2. /\ Written \in Seq(S)
      /\ Len(Written) = IF 2 <= Len(file) THEN Len(file) - 2 + 1 ELSE 0
      /\ \A i \in 1..Len(file) - 2 + 1 : Written[i] = file[2 + i - 1]
      BY <1>1, SubSeqProperties DEF Written
<1>3. ASSUME NEW i \in 1..Len(Written)
      PROVE  i + 1 \in 2..Len(file) /\ Written[i] = file[i + 1]
  <2>1. Len(file) > 1 /\ Len(Written) = Len(file) - 1 BY <1>1, <1>2, <1>3
  <2>2. i \in 1..Len(file) - 2 + 1 BY <1>1, <2>1
  <2>3. 2 + i - 1 = i + 1 OBVIOUS
  <2> QED BY <1>1, <1>2, <2>1, <2>2, <2>3
<1> QED BY <1>1, <1>2, <1>3

\* What the invariant is for.
LEMMA FileIsReadable == HandInv /\ FileInv => BatchesAreWhole /\ InOrderIfWritersKeepUp
<1> SUFFICES ASSUME HandInv, FileInv PROVE BatchesAreWhole /\ InOrderIfWritersKeepUp
    OBVIOUS
<1>0. file \in Seq(0..MaxSamples) /\ Len(file) \in Nat BY DEF HandInv, TypeOK
<1>w. /\ Written \in Seq(0..MaxSamples) /\ Len(Written) \in Nat
      /\ Len(Written) = IF Len(file) > 1 THEN Len(file) - 1 ELSE 0
      /\ DOMAIN Written = 1..Len(Written)
      /\ \A i \in 1..Len(Written) : i + 1 \in 2..Len(file) /\ Written[i] = file[i + 1]
  <2>1. /\ Written \in Seq(0..MaxSamples)
        /\ Len(Written) = IF Len(file) > 1 THEN Len(file) - 1 ELSE 0
        /\ \A i \in 1..Len(Written) : i + 1 \in 2..Len(file) /\ Written[i] = file[i + 1]
      BY <1>0, WrittenElements
  <2>2. Len(Written) \in Nat /\ DOMAIN Written = 1..Len(Written)
      BY <2>1
  <2> QED BY <2>1, <2>2
<1>1. \A i, j \in DOMAIN Written : i # j => Written[i] # Written[j]
  <2> SUFFICES ASSUME NEW i \in 1..Len(Written), NEW j \in 1..Len(Written), i # j
               PROVE  Written[i] # Written[j]
      BY <1>w
  <2>1. i + 1 \in 2..Len(file) /\ j + 1 \in 2..Len(file) /\ i + 1 # j + 1 BY SMTT(20), <1>w
  <2> QED BY <1>w, <2>1 DEF FileInv, FileIsDistinct
<1>2. ASSUME NEW i \in 1..Len(Written) - 1
      PROVE  \/ Written[i + 1] = Written[i] + 1
             \/ Written[i] = LastSample(WriterOf(Written[i]))
  <2>1. /\ i + 1 \in 2..Len(file) - 1 /\ Written[i] = file[i + 1]
        /\ Written[i + 1] = file[(i + 1) + 1]
    <3>1. i \in 1..Len(Written) /\ i + 1 \in 1..Len(Written) BY <1>w
    <3>2. i + 1 \in 2..Len(file) /\ (i + 1) + 1 \in 2..Len(file) BY <1>w, <3>1
    <3>3. i + 1 \in 2..Len(file) - 1 BY <1>0, <3>2
    <3> QED BY <1>w, <3>1, <3>3
  <2>2. CASE file[(i + 1) + 1] = file[i + 1] + 1 BY <2>1, <2>2
  <2>3. CASE EndsABatch(file[i + 1])
    <3> DEFINE s == Written[i]
               In(w) == \E k \in DOMAIN writers[w].batch : writers[w].batch[k] = s
    <3>1. PICK w \in 1..Len(writers) : Len(writers[w].batch) > 0 /\ s = Upto(w)
          BY <2>1, <2>3 DEF EndsABatch
    <3>d. \A v \in 1..Len(writers) : DOMAIN writers[v].batch = 1..Len(writers[v].batch)
          BY FileFacts DEF Writer
    <3>2. s \in Int /\ Before(w) < s /\ s <= Upto(w) BY <3>1, FileFacts DEF Upto
    <3>3. \A v \in 1..Len(writers) : In(v) => v = w
      <4> SUFFICES ASSUME NEW v \in 1..Len(writers), NEW k \in 1..Len(writers[v].batch),
                          writers[v].batch[k] = s
                   PROVE  v = w
          BY <3>d
      <4>1. /\ Before(v) \in Nat /\ Len(writers[v].batch) \in Nat
            /\ writers[v].batch[k] = Before(v) + k
            BY FileFacts
      <4>2. Before(v) < s /\ s <= Upto(v) BY <4>1 DEF Upto
      <4> QED BY <3>2, <4>2, InOneBatch DEF FileInv
    <3>4. /\ Len(writers[w].batch) \in 1..Len(writers[w].batch)
          /\ LastSample(w) = s
      <4>1. /\ Before(w) \in Nat /\ Len(writers[w].batch) \in Nat
            /\ \A k \in 1..Len(writers[w].batch) : writers[w].batch[k] = Before(w) + k
            BY FileFacts
      <4>2. Len(writers[w].batch) \in 1..Len(writers[w].batch) BY <3>1, <4>1
      <4> HIDE DEF s
      <4> QED BY <3>1, <4>1, <4>2 DEF LastSample, Upto
    <3>5. In(w) BY <3>4, <3>d DEF LastSample
    <3>6. DOMAIN writers = 1..Len(writers) BY DEF HandInv, TypeOK
    <3>7. WriterOf(s) = w BY <3>3, <3>5, <3>6 DEF WriterOf
    <3> QED BY <3>4, <3>7
  <2> QED BY <2>1, <2>2, <2>3 DEF FileInv, FileGoesOn
<1>3. InOrderIfWritersKeepUp
  <2> SUFFICES ASSUME ~crowded PROVE Written = Slice(0, Len(Written))
      BY DEF InOrderIfWritersKeepUp
  <2>1. ASSUME NEW i \in 1..Len(Written) PROVE Written[i] = 0 + i
    <3>1. Written[i] = file[i + 1] /\ i + 1 \in 2..Len(file) BY <1>w
    <3>2. \A j \in 2..Len(file) : file[j] = j - 1 BY DEF FileInv, KeptUp
    <3>3. file[i + 1] = i + 1 - 1 BY <3>1, <3>2
    <3>4. i \in Int BY <1>w
    <3> QED BY <3>1, <3>3, <3>4
  <2>2. Written = [i \in 1..Len(Written) |-> Written[i]] BY <1>w
  <2> QED BY <2>1, <2>2 DEF Slice
<1> QED BY <1>1, <1>2, <1>3 DEF BatchesAreWhole

\* Steps that touch neither the file nor the writers.
LEMMA FileUnmoved ==
  ASSUME FileInv, UNCHANGED <<file, writers, lock, crowded>>, mpc' = "start" <=> mpc = "start"
  PROVE  FileInv'
<1>1. /\ \A w : Before(w)' = Before(w) /\ Reached(w)' = Reached(w) /\ Upto(w)' = Upto(w)
      BY DEF Before, LastSample, Reached, Upto
<1>2. WritersCount' /\ BatchesFollow' /\ FileIsWritten' /\ FileIsDistinct'
      BY <1>1 DEF FileInv, WritersCount, BatchesFollow, FileIsWritten, FileIsDistinct
<1>3. FileGoesOn' /\ FileEnd' /\ KeptUp'
      BY <1>1 DEF FileInv, FileGoesOn, FileEnd, KeptUp, EndsABatch
<1> QED BY <1>2, <1>3 DEF FileInv

\* A step that starts a writer.
LEMMA StartKeepsFile ==
  ASSUME HandInv, FileInv, mpc \notin {"start", "ended"}, mpc' # "start",
         NEW b \in Seq(1..MaxSamples), StartWriter(b), UNCHANGED <<file, lock>>
  PROVE  FileInv'
<1> DEFINE x == [batch |-> b, done |-> 0, state |-> "waiting"]
<1>n. PICK n \in Nat : n = Len(writers) BY DEF HandInv, TypeOK
<1>1. /\ Len(writers') = n + 1 /\ writers'[n + 1] = x
      /\ \A w \in 1..n : writers'[w] = writers[w]
  <2>1. x \in Writer /\ writers \in Seq(Writer) BY DEF Writer, HandInv, TypeOK
  <2> QED BY <1>n, <2>1, Appended DEF StartWriter
<1>2. \A w \in 1..n + 1 : Before(w)' = Before(w)
      BY <1>n, <1>1, BeforeKept DEF BatchesKept, HandInv
<1>3. \A w \in 1..n : Reached(w)' = Reached(w) /\ Upto(w)' = Upto(w)
      BY <1>1, <1>2 DEF Reached, Upto
<1>4. n # 0 => Before(n + 1) = Upto(n)
  <2> SUFFICES ASSUME n # 0 PROVE Before(n + 1) = Upto(n)
      OBVIOUS
  <2>1. n \in 1..Len(writers) BY <1>n
  <2>2. Len(writers[n].batch) = BufferSize BY <2>1 DEF HandInv, HandedOverInOrder
  <2>3. writers[n].batch[Len(writers[n].batch)] = Upto(n)
    <3>1. BufferSize \in 1..BufferSize OBVIOUS
    <3> QED BY <2>1, <2>2, <3>1, FileFacts DEF Upto
  <2> QED BY <2>1, <2>3 DEF Before, LastSample
<1>5. Before(n + 1) \in Nat BY <1>n, BeforeTyped DEF HandInv
<1>f. \A w \in 1..n : /\ Before(w) \in Nat /\ Reached(w) \in Nat /\ Upto(w) \in Nat
                      /\ Before(w) <= Upto(w)
      BY <1>n, FileFacts DEF Upto
<1>6. WritersCount'
  <2>1. ASSUME NEW w \in 1..n + 1
        PROVE  /\ writers'[w].done <= Len(writers'[w].batch)
               /\ writers'[w].state = "waiting" => writers'[w].done = 0
               /\ writers'[w].state = "ended" => writers'[w].done = Len(writers'[w].batch)
    <3>1. CASE w \in 1..n BY <1>n, <1>1, <3>1 DEF FileInv, WritersCount
    <3>2. CASE w = n + 1
      <4>1. Len(b) \in Nat OBVIOUS
      <4> QED BY <1>1, <3>2, <4>1
    <3> QED BY <3>1, <3>2
  <2> QED BY <1>1, <2>1 DEF WritersCount
<1>7. BatchesFollow'
  <2>1. ASSUME NEW v \in 1..n + 1, NEW w \in 1..n + 1, v < w
        PROVE  Upto(v)' <= Before(w)'
    <3>1. v \in 1..n /\ Upto(v)' = Upto(v) /\ Before(w)' = Before(w) BY <1>2, <1>3, <2>1
    <3>2. CASE w \in 1..n BY <1>n, <2>1, <3>1, <3>2 DEF FileInv, BatchesFollow
    <3>3. CASE w = n + 1 /\ v = n BY <1>4, <1>5, <3>1, <3>3
    <3>4. CASE w = n + 1 /\ v # n
      <4>1. v < n /\ n \in 1..n BY <3>1, <3>4
      <4>2. Upto(v) <= Before(n) BY <1>n, <3>1, <4>1 DEF FileInv, BatchesFollow
      <4> QED BY SMTT(30), <1>4, <1>f, <3>1, <3>4, <4>1, <4>2
    <3> QED BY <3>2, <3>3, <3>4
  <2> QED BY <1>1, <2>1 DEF BatchesFollow
<1>8. FileIsWritten'
      BY SMTT(60), <1>n, <1>1, <1>2, <1>3 DEF FileInv, FileIsWritten
<1>9. \A s : EndsABatch(s) => EndsABatch(s)'
      BY <1>n, <1>1, <1>3 DEF EndsABatch
<1>10. FileGoesOn' BY <1>9 DEF FileInv, FileGoesOn
<1>11. FileEnd'
  <2>1. lock \in 0..n BY <1>n DEF HandInv, TypeOK
  <2> QED BY <1>1, <1>3, <1>9, <2>1 DEF FileInv, FileEnd
<1>12. KeptUp'
  <2> SUFFICES ASSUME ~crowded'
               PROVE  /\ \A w \in 1..n + 1 : w < n + 1 => writers'[w].state = "ended"
                      /\ \A i \in 2..Len(file') : file'[i] = i - 1
                      /\ Len(file') = 1 + Reached(n + 1)'
    <3>1. writers' # <<>> BY <1>1
    <3> QED BY <1>1, <3>1 DEF KeptUp, Reached, Before, LastSample
  <2>1. ~crowded /\ \A w \in 1..n : writers[w].state = "ended"
    <3>1. DOMAIN writers = 1..n BY <1>n DEF HandInv, TypeOK
    <3> QED BY <3>1 DEF StartWriter
  <2>2. Reached(n + 1)' = Before(n + 1) BY <1>1, <1>2, <1>5 DEF Reached
  <2>3. CASE n = 0
    <3>0. writers \in Seq(Writer) /\ file \in Seq(0..MaxSamples) BY DEF HandInv, TypeOK
    <3>1. writers = <<>> /\ file # <<>> BY <1>n, <2>3, <3>0, EmptySeq DEF FileInv
    <3>4. Len(file) <= 1 BY <2>1, <3>1 DEF FileInv, KeptUp
    <3>5. PICK k \in Nat \ {0} : k = Len(file) BY <3>0, <3>1, EmptySeq
    <3>6. k = 1 BY <3>4, <3>5
    <3>2. Len(file) = 1 BY <3>5, <3>6
    <3>3. Before(n + 1) = 0 BY <2>3 DEF Before
    <3> QED BY <1>1, <2>1, <2>2, <2>3, <3>2, <3>3 DEF FileInv, KeptUp
  <2>4. CASE n # 0
    <3>1. writers # <<>> /\ n \in 1..n BY <1>n, <2>4
    <3>2. Reached(n) = Upto(n)
          BY <1>n, <2>1, <3>1 DEF FileInv, WritersCount, Reached, Upto
    <3>3. Len(file) = 1 + Reached(n) BY <1>n, <2>1, <3>1 DEF FileInv, KeptUp
    <3> QED BY <1>1, <1>4, <2>1, <2>2, <2>4, <3>2, <3>3 DEF FileInv, KeptUp
  <2> QED BY <2>3, <2>4
<1> QED BY <1>6, <1>7, <1>8, <1>10, <1>11, <1>12 DEF FileInv, FileIsDistinct

\* A step of a writer that writes nothing.
LEMMA WriterKeepsFile ==
  ASSUME HandInv, FileInv, UNCHANGED <<file, crowded, mpc>>,
         NEW w \in 1..Len(writers), NEW x \in Writer, writers' = [writers EXCEPT ![w] = x],
         x.batch = writers[w].batch, x.done = writers[w].done,
         writers[w].state # "ended", x.state # "waiting",
         x.state = "ended" => x.done = Len(x.batch),
         \/ lock' = lock
         \/ lock = 0 /\ lock' = w /\ x.done = 0
         \/ lock = w /\ lock' = 0 /\ x.done = Len(x.batch)
  PROVE  FileInv'
<1>n. PICK n \in Nat : n = Len(writers) BY DEF HandInv, TypeOK
<1>1. Len(writers') = n /\ \A v \in 1..n : writers'[v] = IF v = w THEN x ELSE writers[v]
      BY <1>n, Replaced DEF HandInv, TypeOK
<1>2. \A v \in 1..n : Before(v)' = Before(v)
      BY <1>n, <1>1, BeforeKept DEF BatchesKept, HandInv
<1>3. \A v \in 1..n : Reached(v)' = Reached(v) /\ Upto(v)' = Upto(v)
      BY <1>1, <1>2 DEF Reached, Upto
<1>4. WritersCount' BY <1>n, <1>1 DEF FileInv, WritersCount
<1>5. BatchesFollow' /\ FileIsWritten'
      BY SMTT(30), <1>n, <1>1, <1>2, <1>3 DEF FileInv, BatchesFollow, FileIsWritten
<1>6. \A s : EndsABatch(s) => EndsABatch(s)'
      BY <1>n, <1>1, <1>3 DEF EndsABatch
<1>7. FileGoesOn' BY <1>6 DEF FileInv, FileGoesOn
<1>8. FileEnd'
  <2>1. lock \in 0..n /\ w \in 1..n BY <1>n DEF HandInv, TypeOK
  <2>2. CASE lock' = lock BY <1>1, <1>3, <1>6, <2>1, <2>2 DEF FileInv, FileEnd
  <2>3. CASE lock = 0 /\ lock' = w /\ x.done = 0
        BY <1>1, <1>6, <2>1, <2>3 DEF FileInv, FileEnd
  <2>4. CASE lock = w /\ lock' = 0 /\ x.done = Len(x.batch)
    <3>1. x.done = 0 => (Len(file) > 1 => EndsABatch(file[Len(file)]))
          BY <2>4 DEF FileInv, FileEnd
    <3>2. x.done # 0 => EndsABatch(file[Len(file)])
      <4> SUFFICES ASSUME x.done # 0 PROVE EndsABatch(file[Len(file)])
          OBVIOUS
      <4>1. file[Len(file)] = Reached(w) BY <2>1, <2>4 DEF FileInv, FileEnd
      <4>2. Reached(w) = Upto(w) /\ Len(writers[w].batch) > 0
            BY <2>4, FileFacts DEF Reached, Upto
      <4> QED BY <4>1, <4>2 DEF EndsABatch
    <3> QED BY <1>6, <2>1, <2>4, <3>1, <3>2 DEF FileEnd
  <2> QED BY <2>2, <2>3, <2>4
<1>9. KeptUp'
  <2> SUFFICES ASSUME ~crowded
               PROVE  /\ \A v \in 1..n : v < n => writers'[v].state = "ended"
                      /\ \A i \in 2..Len(file) : file[i] = i - 1
                      /\ Len(file) = 1 + Reached(n)
    <3>1. n \in 1..n BY <1>n
    <3>2. writers' # <<>> BY <1>1, <3>1
    <3> QED BY SMTT(30), <1>1, <1>3, <3>1, <3>2 DEF KeptUp, Reached, Before, LastSample
  <2>1. ~(w < n) BY <1>n DEF FileInv, KeptUp
  <2>2. writers # <<>> BY <1>n
  <2> QED BY <1>n, <1>1, <2>1, <2>2 DEF FileInv, KeptUp
<1> QED BY <1>4, <1>5, <1>7, <1>8, <1>9 DEF FileInv, FileIsDistinct

\* A record reaches the file.
LEMMA RecordKeepsFile ==
  ASSUME HandInv, LockInv, FileInv, NEW w \in 1..Len(writers), WriteRecord(w)
  PROVE  FileInv'
<1> DEFINE x == [writers[w] EXCEPT !.done = @ + 1]
           b == writers[w].batch
<1>n. PICK n \in Nat : n = Len(writers) BY DEF HandInv, TypeOK
<1>0. /\ Before(w) \in Nat /\ Len(b) \in Nat /\ writers[w].done \in Nat
      /\ writers[w] \in Writer /\ \A k \in 1..Len(b) : b[k] = Before(w) + k
      BY FileFacts
<1>p. \A v \in 1..n : Before(v) \in Nat /\ Reached(v) \in Nat /\ Upto(v) \in Nat
      BY <1>n, FileFacts
<1>1. /\ writers' = [writers EXCEPT ![w] = x] /\ writers[w].done < Len(b)
      /\ writers[w].state = "writing" /\ lock = w
      /\ UNCHANGED <<mpc, lock, crowded>>
      BY DEF WriteRecord, LockInv
<1>2. /\ Len(writers') = n /\ writers'[w].batch = b /\ writers'[w].state = "writing"
      /\ writers'[w].done = writers[w].done + 1
      /\ \A v \in 1..n : v # w => writers'[v] = writers[v]
  <2>1. writers \in Seq(Writer) BY DEF HandInv, TypeOK
  <2> QED BY <1>n, <1>0, <1>1, <2>1
<1>3. \A v \in 1..n : Before(v)' = Before(v)
  <2>1. BatchesKept BY <1>n, <1>2 DEF BatchesKept
  <2> QED BY <1>n, <2>1, BeforeKept DEF HandInv
<1>s. PICK s \in Nat : s = Reached(w) + 1 BY <1>n, <1>p
<1>4. /\ \A v \in 1..n : Upto(v)' = Upto(v)
      /\ \A v \in 1..n : v # w => Reached(v)' = Reached(v)
      /\ Reached(w)' = s /\ Before(w) < s /\ s <= Upto(w)
  <2>1. s = Before(w) + writers[w].done + 1 BY <1>0, <1>s DEF Reached
  <2>2. \A v \in 1..n : writers'[v].batch = writers[v].batch BY <1>2
  <2>3. \A v \in 1..n : Upto(v)' = Upto(v) BY <1>3, <2>2 DEF Upto
  <2>4. \A v \in 1..n : v # w => Reached(v)' = Reached(v) BY <1>2, <1>3 DEF Reached
  <2>5. Reached(w)' = s BY <1>n, <1>0, <1>2, <1>3, <2>1 DEF Reached
  <2>6. Before(w) < s /\ s <= Upto(w) BY <1>0, <1>1, <2>1 DEF Upto
  <2> QED BY <2>3, <2>4, <2>5, <2>6
<1>5. b[writers[w].done + 1] = s
  <2>1. s = Before(w) + (writers[w].done + 1) BY <1>0, <1>s DEF Reached
  <2>2. writers[w].done + 1 \in 1..Len(b) BY <1>0, <1>1
  <2> QED BY <1>0, <2>1, <2>2
<1>l. PICK l \in Nat : l = Len(file) BY DEF HandInv, TypeOK
<1>6. /\ Len(file') = l + 1 /\ file'[l + 1] = s
      /\ \A i \in 1..l : file'[i] = file[i]
      /\ \A i \in 1..l : file[i] \in Nat
  <2>1. file \in Seq(Nat) BY DEF HandInv, TypeOK
  <2>2. file' = Append(file, s) BY <1>5 DEF WriteRecord
  <2> QED BY <1>l, <2>1, <2>2, Appended
<1>7. l > 0
  <2>1. mpc # "start" BY <1>n DEF LockInv
  <2>2. file # <<>> BY <2>1 DEF FileInv
  <2> QED BY <1>l, <2>2 DEF HandInv, TypeOK
<1>8. \A i \in 2..l + 1 : i \in 2..l \/ i = l + 1 OBVIOUS
<1>9. WritersCount' BY SMTT(20), <1>n, <1>0, <1>1, <1>2 DEF FileInv, WritersCount
<1>10. BatchesFollow' BY <1>n, <1>2, <1>3, <1>4 DEF FileInv, BatchesFollow
<1>11. FileIsWritten'
  <2>1. ASSUME NEW i \in 2..l + 1
        PROVE  \E v \in 1..n : Before(v)' < file'[i] /\ file'[i] <= Reached(v)'
    <3>1. CASE i = l + 1 BY <1>n, <1>3, <1>4, <1>6, <3>1
    <3>2. CASE i \in 2..l
      <4>1. PICK v \in 1..n : Before(v) < file[i] /\ file[i] <= Reached(v)
            BY <1>n, <1>l, <3>2 DEF FileInv, FileIsWritten
      <4>2. file'[i] = file[i] /\ file[i] \in Nat BY <1>6, <3>2
      <4>3. Reached(v) <= Reached(v)' BY <1>4, <1>p, <1>s
      <4> QED BY SMTT(20), <1>3, <1>4, <1>p, <4>1, <4>2, <4>3
    <3> QED BY <1>8, <3>1, <3>2
  <2> QED BY <1>2, <1>6, <2>1 DEF FileIsWritten
<1>12. \A i \in 2..l : file[i] # s
  <2> SUFFICES ASSUME NEW i \in 2..l, file[i] = s PROVE FALSE
      OBVIOUS
  <2>1. PICK v \in 1..n : Before(v) < s /\ s <= Reached(v)
        BY <1>n, <1>l DEF FileInv, FileIsWritten
  <2>2. s <= Upto(v)
    <3>1. writers[v].done <= Len(writers[v].batch) BY <1>n DEF FileInv, WritersCount
    <3>2. /\ Before(v) \in Nat /\ Len(writers[v].batch) \in Nat /\ writers[v].done \in Nat
          BY <1>n, FileFacts
    <3> QED BY SMTT(20), <2>1, <3>1, <3>2 DEF Reached, Upto
  <2>3. v = w BY <1>n, <1>4, <2>1, <2>2, InOneBatch DEF FileInv
  <2> QED BY <1>n, <1>p, <1>s, <2>1, <2>3
<1>13. FileIsDistinct'
  <2>1. ASSUME NEW i \in 2..l + 1, NEW j \in 2..l + 1, i # j PROVE file'[i] # file'[j]
        BY <1>l, <1>6, <1>8, <1>12, <2>1 DEF FileInv, FileIsDistinct
  <2> QED BY <1>6, <2>1 DEF FileIsDistinct
<1>14. \A t : EndsABatch(t) => EndsABatch(t)'
  <2>1. \A v \in 1..n : writers'[v].batch = writers[v].batch BY <1>2
  <2> QED BY <1>n, <1>2, <1>4, <2>1 DEF EndsABatch
<1>15. FileGoesOn'
  <2>1. ASSUME NEW i \in 2..l PROVE file'[i + 1] = file'[i] + 1 \/ EndsABatch(file[i])'
    <3>1. CASE i = l
      <4>1. writers[w].done # 0 => file[l] = Reached(w)
            BY <1>n, <1>l, <1>1 DEF FileInv, FileEnd
      <4>2. writers[w].done = 0 => EndsABatch(file[l])
            BY <1>n, <1>l, <1>1, <3>1 DEF FileInv, FileEnd
      <4>3. file'[l] = file[l] BY <1>6, <1>7
      <4> QED BY <1>6, <1>14, <1>s, <3>1, <4>1, <4>2, <4>3
    <3>2. CASE i # l
      <4>1. i \in 2..l - 1 /\ i + 1 \in 2..l BY <3>2
      <4>2. file[i + 1] = file[i] + 1 \/ EndsABatch(file[i])
            BY <1>l, <4>1 DEF FileInv, FileGoesOn
      <4> QED BY <1>6, <1>14, <4>1, <4>2
    <3> QED BY <3>1, <3>2
  <2>2. Len(file') - 1 = l BY <1>6
  <2> QED BY <2>1, <2>2 DEF FileGoesOn
<1>16. FileEnd'
  <2>1. lock' # 0 /\ writers'[lock'].done # 0 BY <1>n, <1>0, <1>1, <1>2
  <2>2. Len(file') > 1 /\ file'[Len(file')] = Reached(w)' BY <1>4, <1>6, <1>7
  <2>3. lock' = w BY <1>1
  <2> QED BY <2>1, <2>2, <2>3 DEF FileEnd, Reached, Before, LastSample
<1>17. KeptUp'
  <2> SUFFICES ASSUME ~crowded
               PROVE  /\ \A v \in 1..n : v < n => writers'[v].state = "ended"
                      /\ \A i \in 2..l + 1 : file'[i] = i - 1
                      /\ l + 1 = 1 + Reached(n)'
    <3>1. writers' # <<>> BY <1>n, <1>2
    <3> QED BY <1>1, <1>2, <1>6, <3>1 DEF KeptUp, Reached, Before, LastSample
  <2>1. w = n
    <3>1. ~(w < n) BY <1>n, <1>1 DEF FileInv, KeptUp
    <3> QED BY <1>n, <3>1
  <2>2. l = 1 + Reached(n)
    <3>1. writers # <<>> BY <1>n
    <3> QED BY <1>n, <1>l, <3>1 DEF FileInv, KeptUp
  <2>3. \A i \in 2..l : file[i] = i - 1 BY <1>l DEF FileInv, KeptUp
  <2>4. \A v \in 1..n : v < n => writers[v].state = "ended" BY <1>n DEF FileInv, KeptUp
  <2>5. l = s BY <1>s, <2>1, <2>2, <1>p
  <2>6. \A i \in 2..l + 1 : file'[i] = i - 1 BY <1>6, <1>8, <2>3, <2>5
  <2>7. Reached(n)' = s BY <1>4, <2>1
  <2> QED BY <1>2, <2>1, <2>4, <2>5, <2>6, <2>7
<1>18. mpc' = "start" <=> file' = <<>>
  <2>1. mpc # "start" BY <1>n DEF LockInv
  <2>2. file' # <<>> BY <1>6
  <2> QED BY <1>1, <2>1, <2>2
<1> QED BY <1>9, <1>10, <1>11, <1>13, <1>15, <1>16, <1>17, <1>18 DEF FileInv

LEMMA FileStep == HandInv /\ LockInv /\ FileInv /\ [Next]_vars => FileInv'
<1> SUFFICES ASSUME HandInv, LockInv, FileInv, [Next]_vars PROVE FileInv'
    OBVIOUS
<1>0. ASSUME NEW w \in DOMAIN writers
      PROVE  w \in 1..Len(writers) /\ writers[w] \in Writer
      BY <1>0 DEF HandInv, TypeOK
<1>1. CASE WriteHeader
  <2>1. /\ mpc = "start" /\ mpc' = "sample" /\ file' = <<Header>>
        /\ UNCHANGED <<writers, lock, crowded>> /\ writers = <<>>
        BY <1>1 DEF WriteHeader, LockInv
  <2>2. Len(file') = 1 /\ file' # <<>> BY <2>1
  <2>3. Len(writers') = 0 /\ lock' = 0 BY <2>1 DEF HandInv, TypeOK
  <2>4. WritersCount' /\ BatchesFollow' BY <2>3 DEF WritersCount, BatchesFollow
  <2>5. FileIsWritten' /\ FileIsDistinct' /\ FileGoesOn'
        BY <2>2 DEF FileIsWritten, FileIsDistinct, FileGoesOn
  <2>6. FileEnd' /\ KeptUp' BY <2>1, <2>2, <2>3 DEF FileEnd, KeptUp
  <2> QED BY <2>1, <2>2, <2>4, <2>5, <2>6 DEF FileInv
<1>2. CASE Sample
  <2> DEFINE grown == Append(buffer, taken')
  <2>1. /\ mpc = "sample" /\ mpc' = "check" /\ UNCHANGED <<file, lock>>
        /\ StartWriter(grown) \/ UNCHANGED <<writers, crowded>>
        /\ taken' = taken + 1 /\ taken < MaxSamples
        BY <1>2 DEF Sample
  <2>2. buffer \in Seq(1..MaxSamples) /\ taken' \in 1..MaxSamples
        BY <2>1 DEF HandInv, TypeOK
  <2>3. grown \in Seq(1..MaxSamples) BY <2>2, Appended
  <2> HIDE DEF grown
  <2>4. CASE StartWriter(grown) BY <2>1, <2>3, <2>4, StartKeepsFile
  <2>5. CASE UNCHANGED <<writers, crowded>> BY <2>1, <2>5, FileUnmoved
  <2> QED BY <2>1, <2>4, <2>5
<1>3. CASE WriteRest
  <2>1. /\ mpc = "rest" /\ mpc' = "ended" /\ UNCHANGED <<file, lock>>
        /\ StartWriter(buffer) /\ buffer \in Seq(1..MaxSamples)
        BY <1>3 DEF WriteRest, HandInv, TypeOK
  <2> QED BY <2>1, StartKeepsFile
<1>4. CASE CheckStop \/ BusFails \/ Stop \/ Kill \/ UNCHANGED vars
  <2>1. UNCHANGED <<file, writers, lock, crowded>> /\ (mpc' = "start" <=> mpc = "start")
        BY <1>4 DEF CheckStop, BusFails, Stop, Kill, vars
  <2> QED BY <2>1, FileUnmoved
<1>5. ASSUME NEW w \in DOMAIN writers, Acquire(w) PROVE FileInv'
  <2> DEFINE x == [writers[w] EXCEPT !.state = "writing"]
  <2>1. /\ UNCHANGED <<file, crowded, mpc>> /\ writers' = [writers EXCEPT ![w] = x]
        /\ lock = 0 /\ lock' = w /\ writers[w].state = "waiting"
        BY <1>5 DEF Acquire
  <2>2. /\ x \in Writer /\ x.batch = writers[w].batch /\ x.done = writers[w].done
        /\ x.state = "writing"
        BY <1>0 DEF Writer
  <2>3. x.done = 0 BY <1>0, <2>1, <2>2 DEF FileInv, WritersCount
  <2> HIDE DEF x
  <2> QED BY <1>0, <2>1, <2>2, <2>3, WriterKeepsFile
<1>6. ASSUME NEW w \in DOMAIN writers, Release(w) PROVE FileInv'
  <2> DEFINE x == [writers[w] EXCEPT !.state = "ended"]
  <2>1. /\ UNCHANGED <<file, crowded, mpc>> /\ writers' = [writers EXCEPT ![w] = x]
        /\ lock' = 0 /\ writers[w].state = "writing"
        /\ writers[w].done = Len(writers[w].batch)
        BY <1>6 DEF Release
  <2>2. /\ x \in Writer /\ x.batch = writers[w].batch /\ x.done = writers[w].done
        /\ x.state = "ended"
        BY <1>0 DEF Writer
  <2>3. lock = w BY <1>0, <2>1 DEF LockInv
  <2> HIDE DEF x
  <2> QED BY <1>0, <2>1, <2>2, <2>3, WriterKeepsFile
<1>7. ASSUME NEW w \in DOMAIN writers, WriteFails(w) PROVE FileInv'
  <2> DEFINE x == [writers[w] EXCEPT !.state = "raised"]
  <2>1. /\ UNCHANGED <<file, crowded, mpc, lock>> /\ writers' = [writers EXCEPT ![w] = x]
        /\ writers[w].state = "writing"
        BY <1>7 DEF WriteFails
  <2>2. /\ x \in Writer /\ x.batch = writers[w].batch /\ x.done = writers[w].done
        /\ x.state = "raised"
        BY <1>0 DEF Writer
  <2> HIDE DEF x
  <2> QED BY <1>0, <2>1, <2>2, WriterKeepsFile
<1>8. ASSUME NEW w \in DOMAIN writers, WriteRecord(w) PROVE FileInv'
      BY <1>0, <1>8, RecordKeepsFile
<1> QED BY <1>1, <1>2, <1>3, <1>4, <1>5, <1>6, <1>7, <1>8 DEF Next, Measure, Write

LEMMA FileInit == Init => FileInv
<1> SUFFICES ASSUME Init PROVE FileInv
    OBVIOUS
<1>1. file = <<>> /\ writers = <<>> /\ lock = 0 /\ mpc = "start" BY DEF Init
<1>2. Len(file) = 0 /\ Len(writers) = 0 BY <1>1
<1>3. WritersCount /\ BatchesFollow BY <1>2 DEF WritersCount, BatchesFollow
<1>4. FileIsWritten /\ FileIsDistinct /\ FileGoesOn
      BY <1>2 DEF FileIsWritten, FileIsDistinct, FileGoesOn
<1>5. FileEnd /\ KeptUp BY <1>1, <1>2 DEF FileEnd, KeptUp
<1> QED BY <1>1, <1>3, <1>4, <1>5 DEF FileInv

\* A reader of the power log can use it, for any sizes and any number of writers: no batch
\* is torn or repeated, and the samples are in order as long as no writer is overtaken.
THEOREM LogReadable == Spec => []LogIsReadable
<1>1. Init => LockInv BY DEF Init, LockInv
<1>2. HandInv /\ FileInv => LogIsReadable
      BY FileIsReadable DEF HandInv, LogIsReadable
<1> QED BY <1>1, <1>2, LockStep, HandInit, HandStep, FileInit, FileStep, PTL DEF Spec

=============================================================================
