------------------------------- MODULE TraceLog -------------------------------
(***************************************************************************)
(* The logger.  A message is formatted in a buffer of the task and then    *)
(* copied to the trace buffer that the host reads.  The critical section   *)
(* around the copy is commented out in the code, so that a task of higher  *)
(* priority, or a mailbox interrupt that logs a missed event, may write a  *)
(* message in the middle of another's.                                     *)
(*                                                                         *)
(* calls is the stack of the Log calls in progress: the last one runs, and *)
(* it has pre-empted the others.  gTraceWritePtr is read more than once    *)
(* without a lock: the build may or may not load it again.                 *)
(***************************************************************************)
EXTENDS Naturals, Sequences, SequencesExt

CONSTANTS
  LogTasks,           \* the tasks that log, by increasing priority (a sequence)
  Lengths,            \* lengths of formatted messages
  kTraceBufferSize,   \* size of the trace buffer (0x1000)
  HeapBuffers,        \* buffers the heap has room for
  MaxMessages         \* bound on the messages

VARIABLES
  calls,              \* the calls of Log in progress
  tlsLogBuffer,       \* each task's buffer, NoBuffer before its first message
  gLogBufferAssigned,
  allocated,          \* buffers taken from the heap
  text,               \* the message each buffer holds
  gTraceBuffer, gTraceWritePtr,
  since,              \* the cells of the messages since the trace buffer wrapped around
  mixed,              \* has a call pre-empted another one?
  messages            \* number of messages so far

logVars == <<calls, tlsLogBuffer, gLogBufferAssigned, allocated, text, gTraceBuffer,
             gTraceWritePtr, since, mixed, messages>>
LogBufferVars == <<tlsLogBuffer, gLogBufferAssigned, allocated>>
TraceVars == <<gTraceBuffer, gTraceWritePtr, since>>

-----------------------------------------------------------------------------
(* Types *)

Priorities == 1..Len(LogTasks)
Irq == Len(LogTasks) + 1          \* an interrupt is above all tasks
NoBuffer == 0
gLogBuffer == 1                   \* buffers from the heap are numbered from 2
Buffers == 0..HeapBuffers + 1
Cells == 0..kTraceBufferSize - 1
\* A cell holds the message it belongs to; a newline ends a message.
Cell == [id : Nat, newline : BOOLEAN]
Empty == [id |-> 0, newline |-> FALSE]

Callers == Priorities \cup {Irq}
Steps == {"begin", "assign", "format", "put", "copy", "finish", "recursion"}
LogCall ==
  [by : Callers, task : Priorities,   \* whose thread-local storage is used
   step : Steps, id : Nat, length : Lengths, at : Nat]

\* A message and its newline fit the trace buffer.
LogConstants ==
  /\ Len(LogTasks) \in Nat
  /\ kTraceBufferSize \in Nat /\ HeapBuffers \in Nat /\ MaxMessages \in Nat
  /\ \A n \in Lengths : n \in Nat /\ n < kTraceBufferSize

LogTypeOK ==
  /\ calls \in Seq(LogCall)
  /\ tlsLogBuffer \in [Priorities -> Buffers]
  /\ gLogBufferAssigned \in BOOLEAN /\ allocated \in 0..HeapBuffers
  /\ text \in [Buffers -> Nat]
  /\ gTraceBuffer \in [Cells -> Cell] /\ gTraceWritePtr \in 0..kTraceBufferSize
  /\ since \in Seq(Cell) /\ mixed \in BOOLEAN
  /\ messages \in 0..MaxMessages

-----------------------------------------------------------------------------
(* The buffers *)

Running == Last(calls)
At(step) == calls # <<>> /\ Running.step = step
Update(call) == calls' = [calls EXCEPT ![Len(calls)] = call]
Goto(step) == Update([Running EXCEPT !.step = step])

\* A task begins to log, or an interrupt while the task runs: the one of higher
\* priority runs.
BeginLog(by, task, length) ==
  /\ messages < MaxMessages
  /\ calls # <<>> =>
       /\ Running.by # Irq /\ Running.step # "recursion"
       /\ IF by = Irq THEN task = Running.by ELSE by > Running.by
  /\ by # Irq => task = by
  /\ messages' = messages + 1
  /\ mixed' = (mixed \/ calls # <<>>)
  /\ calls' = Append(calls, [by |-> by, task |-> task, step |-> "begin", id |-> messages',
                             length |-> length, at |-> 0])
  /\ UNCHANGED <<LogBufferVars, text, TraceVars>>

\* The task has a buffer, or it needs one.
FindBuffer ==
  /\ At("begin")
  /\ Goto(IF tlsLogBuffer[Running.task] = NoBuffer THEN "assign" ELSE "format")
  /\ UNCHANGED <<LogBufferVars, text, TraceVars, mixed, messages>>

\* The first task gets the static buffer, others one from the heap.  When the heap is
\* empty the malloc hook panics, which logs, which allocates: the call never ends.  An
\* interrupt between the atomic test-and-set and the thread-local store takes a buffer of
\* its own, as one before both does (FindBuffer): they are one step.
AssignBuffer ==
  /\ At("assign")
  /\ LET Assign(buffer) ==
           tlsLogBuffer' = [tlsLogBuffer EXCEPT ![Running.task] = buffer] /\ Goto("format")
     IN  \/ /\ ~gLogBufferAssigned
            /\ Assign(gLogBuffer) /\ gLogBufferAssigned' = TRUE /\ UNCHANGED allocated
         \/ /\ gLogBufferAssigned /\ allocated < HeapBuffers
            /\ allocated' = allocated + 1
            /\ Assign(gLogBuffer + allocated') /\ UNCHANGED gLogBufferAssigned
         \/ /\ gLogBufferAssigned /\ allocated = HeapBuffers
            /\ Goto("recursion") /\ UNCHANGED LogBufferVars
  /\ UNCHANGED <<text, TraceVars, mixed, messages>>

Format ==
  /\ At("format")
  /\ text' = [text EXCEPT ![tlsLogBuffer[Running.task]] = Running.id]
  /\ Goto("put")
  /\ UNCHANGED <<LogBufferVars, TraceVars, mixed, messages>>

-----------------------------------------------------------------------------
(* TracePutString *)

\* A faulty variant of StartOf: the newline is not counted.
StartWithoutNewline(length) ==
  IF kTraceBufferSize - gTraceWritePtr < length THEN 0 ELSE gTraceWritePtr

\* Where a message of this length goes.
StartOf(length) ==
  IF kTraceBufferSize - gTraceWritePtr < length + 1 THEN 0 ELSE gTraceWritePtr

FindPlace ==
  /\ At("put")
  /\ Update([Running EXCEPT !.step = "copy", !.at = StartOf(Running.length)])
  /\ UNCHANGED <<LogBufferVars, text, TraceVars, mixed, messages>>

\* memcpy to the place that was found, or to where the write pointer is by now.  What
\* lies behind the buffer is not modelled.
CopyText ==
  /\ At("copy")
  /\ \E at \in {Running.at} \cup (IF Running.at = 0 THEN {} ELSE {gTraceWritePtr}) :
       /\ gTraceBuffer' = [c \in Cells |->
            IF c >= at /\ c < at + Running.length
            THEN [id |-> text[tlsLogBuffer[Running.task]], newline |-> FALSE]
            ELSE gTraceBuffer[c]]
       /\ Update([Running EXCEPT !.step = "finish", !.at = at])
  /\ UNCHANGED <<LogBufferVars, text, gTraceWritePtr, since, mixed, messages>>

\* What a message is in the trace buffer.
CellsOf(id, length) ==
  [i \in 1..length + 1 |-> [id |-> id, newline |-> i = length + 1]]

\* The pointer is advanced past the message and a newline, and the rest of the buffer
\* is cleared (the condition of that loop is always true).
FinishPut ==
  /\ At("finish")
  /\ LET end == Running.at + Running.length IN
     /\ gTraceBuffer' = [c \in Cells |->
          IF c = end THEN [id |-> Running.id, newline |-> TRUE]
          ELSE IF c > end THEN Empty ELSE gTraceBuffer[c]]
     /\ gTraceWritePtr' = IF end + 1 <= kTraceBufferSize THEN end + 1 ELSE kTraceBufferSize
     /\ since' = (IF Running.at = 0 THEN <<>> ELSE since) \o CellsOf(Running.id, Running.length)
  /\ calls' = Front(calls)
  /\ UNCHANGED <<LogBufferVars, text, mixed, messages>>

-----------------------------------------------------------------------------
(* Specification *)

\* Before the scheduler runs, messages use the static buffer without taking it.
LogInit ==
  /\ calls = <<>>
  /\ tlsLogBuffer = [p \in Priorities |-> NoBuffer]
  /\ gLogBufferAssigned = FALSE /\ allocated = 0
  /\ text = [b \in Buffers |-> 0]
  /\ gTraceBuffer = [c \in Cells |-> Empty] /\ gTraceWritePtr = 0
  /\ since = <<>> /\ mixed = FALSE /\ messages = 0

LogNext ==
  \/ \E by \in Priorities \cup {Irq}, task \in Priorities, length \in Lengths :
       BeginLog(by, task, length)
  \/ FindBuffer \/ AssignBuffer \/ Format \/ FindPlace \/ CopyText \/ FinishPut

LogSpec == LogInit /\ [][LogNext]_logVars

-----------------------------------------------------------------------------
(* Properties *)

\* "a task specific buffer; this avoids needing to take a lock" (Logger::Log): no two
\* tasks format their messages in the same one, though the static buffer is claimed in
\* steps that another task or an interrupt may come between.
BuffersDistinct ==
  \A p, q \in Priorities : p # q /\ tlsLogBuffer[p] # NoBuffer => tlsLogBuffer[p] # tlsLogBuffer[q]

\* The trace buffer holds the messages since it last wrapped around, whole and in
\* order, up to the write pointer, and nothing after them.
Whole ==
  /\ gTraceWritePtr = Len(since)
  /\ \A c \in Cells :
       gTraceBuffer[c] = IF c < gTraceWritePtr THEN since[c + 1] ELSE Empty

\* "This ensures the string is written in one continuous go" (TracePutString), wherever
\* the buffer ends: as long as no call pre-empts another, messages are whole.
TraceWhole == calls = <<>> /\ ~mixed => Whole

\* What the logger promises of the buffers and, while no call pre-empts another, of
\* the trace.
MessagesIntact == LogTypeOK /\ BuffersDistinct /\ TraceWhole

\* "only when we actually modify the trace buffer do we do so from inside a critical
\* section" (Logger::Log, Logger.cpp:40-42): messages are whole although tasks and
\* interrupts log at any time.
TraceWholeAlways == calls = <<>> => Whole

=============================================================================
