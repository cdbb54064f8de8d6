------------------------------- MODULE PowerLog -------------------------------
(***************************************************************************)
(* The power log of measurement.py.  A measuring thread samples the board  *)
(* and, whenever its buffer is full, starts a writer thread with it; the   *)
(* writers append their batches to one file under a lock.  A stop request  *)
(* lets the measuring thread hand over what is left and end.  The process  *)
(* may be killed at any point; a read of the bus or a write may raise.     *)
(***************************************************************************)
EXTENDS Integers, Sequences

CONSTANTS
  BufferSize,   \* samples in a full buffer (lineBufferSize)
  MaxSamples    \* bound: samples taken in a run

ASSUME SizesArePositive == BufferSize \in Nat \ {0} /\ MaxSamples \in Nat

VARIABLES
  taken,      \* samples taken so far: they are numbered from 1
  buffer,     \* the samples the measuring thread holds (myArray_power)
  mpc,        \* where the measuring thread is
  stop,       \* the stop request (_stop)
  writers,    \* the writer threads in the order they were started
  lock,       \* the writer that holds fileLock_power, 0 when it is free
  file,       \* the power log: the header and the samples, as written
  alive,      \* the process has not been killed
  crowded     \* a writer was started while another one had not ended

vars == <<taken, buffer, mpc, stop, writers, lock, file, alive, crowded>>

-----------------------------------------------------------------------------
Header == 0

\* A writer thread: its batch, how much of it is in the file, and its state.
Writer == [batch : Seq(1..MaxSamples), done : 0..MaxSamples,
           state : {"waiting", "writing", "ended", "raised"}]

\* thread_power.start()
StartWriter(b) ==
  /\ writers' = Append(writers, [batch |-> b, done |-> 0, state |-> "waiting"])
  /\ crowded' = (crowded \/ \E w \in DOMAIN writers : writers[w].state # "ended")

Init ==
  /\ taken = 0 /\ buffer = <<>> /\ mpc = "start" /\ stop = FALSE
  /\ writers = <<>> /\ lock = 0 /\ file = <<>> /\ alive = TRUE
  /\ crowded = FALSE

-----------------------------------------------------------------------------
(* The measuring thread. *)

WriteHeader ==
  /\ alive /\ mpc = "start"
  /\ file' = <<Header>>
  /\ mpc' = "sample"
  /\ UNCHANGED <<taken, buffer, stop, writers, lock, alive, crowded>>

\* Broken: the buffer is handed over one sample late, and that sample is dropped.
Sample_OneLate ==
  /\ alive /\ mpc = "sample"
  /\ taken < MaxSamples
  /\ taken' = taken + 1
  /\ IF Len(buffer) = BufferSize
       THEN StartWriter(buffer) /\ buffer' = <<>>
       ELSE buffer' = Append(buffer, taken') /\ UNCHANGED <<writers, crowded>>
  /\ mpc' = "check"
  /\ UNCHANGED <<stop, lock, file, alive>>

\* Broken: the buffer is handed over but not emptied.
Sample_Shared ==
  /\ alive /\ mpc = "sample"
  /\ taken < MaxSamples
  /\ taken' = taken + 1
  /\ buffer' = Append(buffer, taken')
  /\ IF Len(buffer') = BufferSize THEN StartWriter(buffer') ELSE UNCHANGED <<writers, crowded>>
  /\ mpc' = "check"
  /\ UNCHANGED <<stop, lock, file, alive>>

\* One pass of the loop up to the stop test: a sample, and a writer for a full
\* buffer.
Sample ==
  /\ alive /\ mpc = "sample"
  /\ taken < MaxSamples
  /\ taken' = taken + 1
  /\ LET grown == Append(buffer, taken')
     IN  IF Len(grown) = BufferSize
           THEN StartWriter(grown) /\ buffer' = <<>>
           ELSE buffer' = grown /\ UNCHANGED <<writers, crowded>>
  /\ mpc' = "check"
  /\ UNCHANGED <<stop, lock, file, alive>>

\* read_word_data raises: the thread ends with what it has in its buffer.
BusFails ==
  /\ alive /\ mpc = "sample"
  /\ mpc' = "raised"
  /\ UNCHANGED <<taken, buffer, stop, writers, lock, file, alive, crowded>>

CheckStop ==
  /\ alive /\ mpc = "check"
  /\ mpc' = IF stop THEN "rest" ELSE "sample"
  /\ UNCHANGED <<taken, buffer, stop, writers, lock, file, alive, crowded>>

\* Broken: a buffer that is not full is not worth a writer.
WriteRest_Skipped ==
  /\ alive /\ mpc = "rest"
  /\ mpc' = "ended"
  /\ UNCHANGED <<taken, buffer, writers, stop, lock, file, alive, crowded>>

\* The rest of the data goes to a last writer, even when there is none.
WriteRest ==
  /\ alive /\ mpc = "rest"
  /\ StartWriter(buffer)
  /\ buffer' = <<>>
  /\ mpc' = "ended"
  /\ UNCHANGED <<taken, stop, lock, file, alive>>

\* The main thread asks for the end, once.
Stop ==
  /\ alive /\ ~stop
  /\ stop' = TRUE
  /\ UNCHANGED <<taken, buffer, mpc, writers, lock, file, alive, crowded>>

-----------------------------------------------------------------------------
(* The writers. *)

\* Broken: the batch is written without the lock.
Acquire_NoLock(w) ==
  /\ alive /\ writers[w].state = "waiting"
  /\ writers' = [writers EXCEPT ![w].state = "writing"]
  /\ UNCHANGED <<taken, buffer, mpc, stop, lock, file, alive, crowded>>

\* The lock is not a queue: any writer that waits may get it.
Acquire(w) ==
  /\ alive /\ writers[w].state = "waiting"
  /\ lock = 0
  /\ lock' = w
  /\ writers' = [writers EXCEPT ![w].state = "writing"]
  /\ UNCHANGED <<taken, buffer, mpc, stop, file, alive, crowded>>

\* One record of the batch reaches the file.
WriteRecord(w) ==
  /\ alive /\ writers[w].state = "writing"
  /\ writers[w].done < Len(writers[w].batch)
  /\ file' = Append(file, writers[w].batch[writers[w].done + 1])
  /\ writers' = [writers EXCEPT ![w].done = @ + 1]
  /\ UNCHANGED <<taken, buffer, mpc, stop, lock, alive, crowded>>

Release(w) ==
  /\ alive /\ writers[w].state = "writing"
  /\ writers[w].done = Len(writers[w].batch)
  /\ lock' = 0
  /\ writers' = [writers EXCEPT ![w].state = "ended"]
  /\ UNCHANGED <<taken, buffer, mpc, stop, file, alive, crowded>>

\* Broken: the lock is given back when a write raises.
WriteFails_Released(w) ==
  /\ alive /\ writers[w].state = "writing"
  /\ lock' = 0
  /\ writers' = [writers EXCEPT ![w].state = "raised"]
  /\ UNCHANGED <<taken, buffer, mpc, stop, file, alive, crowded>>

\* saveRecords_power raises: the thread ends and the lock stays taken.
WriteFails(w) ==
  /\ alive /\ writers[w].state = "writing"
  /\ writers' = [writers EXCEPT ![w].state = "raised"]
  /\ UNCHANGED <<taken, buffer, mpc, stop, lock, file, alive, crowded>>

\* killall python: every thread of the process is gone.
Kill ==
  /\ alive
  /\ alive' = FALSE
  /\ UNCHANGED <<taken, buffer, mpc, stop, writers, lock, file, crowded>>

-----------------------------------------------------------------------------
Measure == WriteHeader \/ Sample \/ CheckStop \/ WriteRest
Write   == \E w \in DOMAIN writers : Acquire(w) \/ WriteRecord(w) \/ Release(w)

Next ==
  \/ Measure \/ BusFails \/ Stop
  \/ Write \/ (\E w \in DOMAIN writers : WriteFails(w))
  \/ Kill

Spec == Init /\ [][Next]_vars

\* The threads run while they can; some writer gets a free lock, not a given one.
FairSpec == Spec /\ WF_vars(Measure) /\ WF_vars(Write)

-----------------------------------------------------------------------------
(* Properties. *)

Sampling == {"start", "sample", "check", "rest", "ended", "raised"}

\* Every variable stays in its domain; in particular the buffer is never seen full
\* by the next pass, so that the test for equality cannot be stepped over
\* (measurement.py:149-195).
TypeOK ==
  /\ taken \in 0..MaxSamples
  /\ buffer \in Seq(1..MaxSamples) /\ Len(buffer) < BufferSize
  /\ mpc \in Sampling
  /\ stop \in BOOLEAN /\ alive \in BOOLEAN /\ crowded \in BOOLEAN
  /\ writers \in Seq(Writer)
  /\ lock \in 0..Len(writers)
  /\ file \in Seq(0..MaxSamples)

\* The numbers that follow k, n of them.
Slice(k, n) == [i \in 1..n |-> k + i]

LastSample(w) == writers[w].batch[Len(writers[w].batch)]

\* The last sample handed over before writer w was started.
Before(w) == IF w = 1 THEN 0 ELSE LastSample(w - 1)

\* Nothing is lost or repeated between the sampling and the writers: every batch
\* continues where the one before ended, all but the rest are full, and the buffer
\* goes on from there to the sample taken last (measurement.py:174-182, 190-195).
HandedOverInOrder ==
  /\ \A w \in 1..Len(writers) :
       /\ writers[w].batch = Slice(Before(w), Len(writers[w].batch))
       /\ mpc # "ended" \/ w < Len(writers) => Len(writers[w].batch) = BufferSize
  /\ mpc # "ended" => buffer = Slice(Before(Len(writers) + 1), Len(buffer))
  /\ mpc = "ended" => buffer = <<>>
  /\ taken = IF mpc = "ended" THEN Before(Len(writers)) + Len(writers[Len(writers)].batch)
             ELSE Before(Len(writers) + 1) + Len(buffer)

WriterOf(s) == CHOOSE w \in DOMAIN writers : \E i \in DOMAIN writers[w].batch : writers[w].batch[i] = s

\* The samples in the file, without the header.
Written == SubSeq(file, 2, Len(file))

\* No sample is in the file twice, and no batch is interleaved with another: what
\* follows a sample is the next sample of its batch, or its batch is over
\* (measurement.py:51-55, 112-114).
BatchesAreWhole ==
  /\ \A i, j \in DOMAIN Written : i # j => Written[i] # Written[j]
  /\ \A i \in 1..Len(Written) - 1 :
       LET w == WriterOf(Written[i])
       IN  Written[i + 1] = Written[i] + 1 \/ Written[i] = LastSample(w)

\* As long as every writer ends before the next one is started, the file is the
\* samples in the order of time with none missing (measurement.py:112, 182); the lock
\* alone does not promise it, since it is not a queue.
InOrderIfWritersKeepUp ==
  ~crowded => Written = Slice(0, Len(Written))

\* A reader of the power log can use it: a batch is in one piece, and the
\* batches are in order as long as no writer is overtaken (measurement.py
\* 158-198).
LogIsReadable == TypeOK /\ BatchesAreWhole /\ InOrderIfWritersKeepUp

\* A write that raises ends the log: the lock is never given back, and no other
\* batch is ever written (measurement.py:112-114).
Raised == \E w \in DOMAIN writers : writers[w].state = "raised"
NothingAfterARaise == [][Raised => UNCHANGED file]_vars

\* After a stop request every sample taken reaches the file, unless the process is
\* killed or the bus or the file fails (measurement.py:184-195).  The request comes
\* while the bound leaves room for the sample that may be under way.
Trouble == ~alive \/ mpc = "raised" \/ Raised
StopSavesAll ==
  stop /\ taken < MaxSamples ~> Trouble \/ (mpc = "ended" /\ Len(Written) = taken)

=============================================================================
