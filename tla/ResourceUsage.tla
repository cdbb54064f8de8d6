---------------------------- MODULE ResourceUsage ----------------------------
(***************************************************************************)
(* The Android reader (MainActivity.java, BackgroundThread.java).  Each    *)
(* time the activity is created it starts a task, which nothing ends.  Its *)
(* background thread fills one array with a row for every device,          *)
(* publishes the array, and sleeps; the UI thread, which may be late,      *)
(* writes the rows it finds in the array to the files of the devices.      *)
(***************************************************************************)
EXTENDS Integers, Sequences

CONSTANTS
  Length,     \* of the array: the number of devices
  MaxTasks,   \* bound: times the activity is created
  MaxRounds,  \* bound: passes of all background threads
  Minors      \* the minor numbers the driver may give the devices, as sequences

ASSUME ResourceAssumption ==
  /\ Length \in Nat \ {0} /\ MaxTasks \in Nat /\ MaxRounds \in Nat
  /\ \A m \in Minors :
       m \in [1..Length -> Nat] /\ \A i, j \in 1..Length : i # j => m[i] # m[j]

VARIABLES
  minors,     \* the minor numbers
  tasks,      \* the tasks, in the order of their creation
  posted,     \* the updates that wait for the UI thread
  update,     \* the one it works on
  index,      \* its place in the array
  usage,      \* the file of each device, a line being one cell
  app         \* "runs" or "crashed"

usageVars == <<minors, tasks, posted, update, index, usage, app>>

Places == 0..(Length - 1)
Task(t) == tasks[t]
NoUpdate == [task |-> 0, round |-> 0]

\* output holds the round of each row, 0 for null; row is the place in a pass, 0 in sleep; a
\* usage file is in opened when foshm has a stream for it, which writes at offset.
Created == [running |-> TRUE, output |-> [p \in Places |-> 0], round |-> 0, row |-> 0,
            opened |-> {}, offset |-> [p \in Places |-> 0], wrote |-> [p \in Places |-> << >>]]

UsageInit ==
  /\ minors \in Minors
  /\ tasks = <<Created>>
  /\ posted = << >> /\ update = NoUpdate /\ index = 0
  /\ usage = [p \in Places |-> << >>]
  /\ app = "runs"

\* onCreate, when the screen is turned for one; the task of the old activity goes on.
Creates ==
  /\ app = "runs" /\ Len(tasks) < MaxTasks
  /\ tasks' = Append(tasks, Created)
  /\ UNCHANGED <<minors, posted, update, index, usage, app>>

Rounds == IF Len(tasks) = 1 THEN tasks[1].round ELSE tasks[1].round + tasks[2].round

\* doInBackground begins a pass; the service may be gone, which ends the task.
BeginsRound(t) ==
  /\ app = "runs" /\ Task(t).running /\ Task(t).row = 0 /\ Rounds < MaxRounds
  /\ \/ tasks' = [tasks EXCEPT ![t].round = @ + 1, ![t].row = 1]
     \/ tasks' = [tasks EXCEPT ![t].running = FALSE]
  /\ UNCHANGED <<minors, posted, update, index, usage, app>>

Post(t) == posted' = Append(posted, [task |-> t, round |-> Task(t).round])

\* Broken: the array is published after every row.
FillsRow_Publishes(t) ==
  /\ app = "runs" /\ Task(t).row \in 1..Length
  /\ LET place == minors[Task(t).row]
     IN  /\ place \in Places
         /\ tasks' = [tasks EXCEPT ![t].output[place] = Task(t).round, ![t].row = @ + 1]
  /\ Post(t)
  /\ UNCHANGED <<minors, update, index, usage, app>>

\* output[minor] = oneRow: the minor number is the place, and a number beyond the end of the
\* array ends the application.
FillsRow(t) ==
  /\ app = "runs" /\ Task(t).row \in 1..Length
  /\ LET place == minors[Task(t).row]
     IN  IF place \in Places
         THEN /\ tasks' = [tasks EXCEPT ![t].output[place] = Task(t).round, ![t].row = @ + 1]
              /\ UNCHANGED app
         ELSE app' = "crashed" /\ UNCHANGED tasks
  /\ UNCHANGED <<minors, posted, update, index, usage>>

\* Broken: the array is published before it is filled.
Publishes_First(t) ==
  /\ app = "runs" /\ Task(t).row = 1
  /\ Post(t)
  /\ tasks' = [tasks EXCEPT ![t].row = 0]
  /\ UNCHANGED <<minors, update, index, usage, app>>

\* publishProgress posts the array, not a copy.
Publishes(t) ==
  /\ app = "runs" /\ Task(t).row = Length + 1
  /\ Post(t)
  /\ tasks' = [tasks EXCEPT ![t].row = 0]
  /\ UNCHANGED <<minors, update, index, usage, app>>

\* onProgressUpdate is called, in the order of the updates.
BeginsUpdate ==
  /\ app = "runs" /\ update = NoUpdate /\ posted # << >>
  /\ update' = Head(posted) /\ posted' = Tail(posted) /\ index' = 0
  /\ UNCHANGED <<minors, tasks, usage, app>>

Hole   == [by |-> 0, round |-> 0]
Heading == [by |-> 0, round |-> -1]

\* What a stream does to a file: it writes at its own offset, wherever the file ends.
WrittenAt(cells, offset, line) ==
  [i \in 1..(IF offset < Len(cells) THEN Len(cells) ELSE offset + 1) |->
     IF i = offset + 1 THEN line ELSE IF i <= Len(cells) THEN cells[i] ELSE Hole]

\* Broken: the file is opened for every line.
Opened_Never(t, p) == FALSE

\* foshm.containsKey: the file has been opened by this task.
Opened(t, p) == p \in Task(t).opened

\* One row: openFileOutput with MODE_PRIVATE empties the file, the header is its first line; a
\* null row ends the application.
WritesRow ==
  /\ app = "runs" /\ update # NoUpdate
  /\ LET t      == update.task
         round  == Task(t).output[index]
         offset == IF Opened(t, index) THEN Task(t).offset[index] ELSE 1
         cells  == IF Opened(t, index) THEN usage[index] ELSE <<Heading>>
     IN  IF round = 0
         THEN app' = "crashed" /\ UNCHANGED <<tasks, update, index, usage>>
         ELSE /\ usage' = [usage EXCEPT ![index] = WrittenAt(cells, offset, [by |-> t, round |-> round])]
              /\ tasks' = [tasks EXCEPT ![t].opened = @ \cup {index}, ![t].offset[index] = offset + 1,
                             ![t].wrote[index] = Append(@, [round |-> round, update |-> update.round])]
              /\ IF index + 1 \in Places
                 THEN index' = index + 1 /\ UNCHANGED update
                 ELSE update' = NoUpdate /\ index' = 0
              /\ UNCHANGED app
  /\ UNCHANGED <<minors, posted>>

UsageNext ==
  \/ Creates
  \/ \E t \in DOMAIN tasks : BeginsRound(t) \/ FillsRow(t) \/ Publishes(t)
  \/ BeginsUpdate \/ WritesRow

UsageSpec == UsageInit /\ [][UsageNext]_usageVars

-----------------------------------------------------------------------------
\* A row stands twice in its file, or a pass is left out, only where the UI thread was behind:
\* the row it found in the array was already of a later pass than the update.
SkipsNeedALateUi ==
  \A t \in DOMAIN tasks, p \in Places :
    LET wrote == Task(t).wrote[p]
        late(i) == wrote[i].round > wrote[i].update
    IN  \A i \in 2..Len(wrote) : wrote[i].round = wrote[i - 1].round + 1 \/ late(i - 1) \/ late(i)

\* What was written stays in the file, as long as the activity is created once.  (The file of
\* a second task is emptied under the stream of the first, which goes on at its old offset.)
LinesStay ==
  Len(tasks) = 1 =>
    \A p \in Places : \A i \in DOMAIN tasks[1].wrote[p] :
      /\ i + 1 \in DOMAIN usage[p]
      /\ usage[p][i + 1] = [by |-> 1, round |-> tasks[1].wrote[p][i].round]

\* The application ends by itself only if the minor numbers of the driver are not those of
\* the places of the array.
CrashNeedsAGap == app = "crashed" => \E i \in 1..Length : minors[i] \notin Places

\* The usage log gets each row once and keeps it, and the application stays
\* up, but for the cases the parts name.
UsageIsLogged == SkipsNeedALateUi /\ LinesStay /\ CrashNeedsAGap

=============================================================================
