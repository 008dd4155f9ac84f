-------------------------- MODULE ResMgrInvariants --------------------------
(***************************************************************************)
(* Why a reply of the resource manager reaches its own caller although it  *)
(* does not name its request and all replies share one buffer: the         *)
(* inductive invariant behind ConfigIsActual, LockGivenBack, WaiterIsKnown *)
(* and the implementation of RemoteCall.  Callers are those of Spec, that  *)
(* wait without a limit.  The task that holds reqLock has at most one      *)
(* message on its way; from when it is handled until the lock is given     *)
(* back, the buffer holds it.                                              *)
(***************************************************************************)
EXTENDS ResMgrRpc

\* The messages that travel between the firmware and the host.
Wire == toHost \cup inbox

\* A task inside the mutex holds it.
HoldsLock(c) == pc[c] \in Locked => reqLock = c

\* The buffer holds the reply to c's current call.
HasReply(c) == rxBuffer.for = Current(c) /\ rxBuffer.resType = resType[c]

\* Only a task that waits is notified, and only with its own reply in the buffer.
PendingAnswered(c) == notify[c].pending => pc[c] = "waitNotify" /\ HasReply(c)

\* So it is when the task has been woken, and a reply that is decoded is complete.
WokenAnswered(c) ==
  /\ pc[c] \in {"measure", "decode"} => HasReply(c)
  /\ pc[c] = "decode" => rxBuffer.body # "short"

\* What a call is about to return is what its reply says; without a reply it is an error.
CodeIsReplys(c) ==
  pc[c] = "unlock" =>
    \/ HasReply(c) /\ rxBuffer.body # "short"
         /\ status[c] = StatusOf(resType[c], rxBuffer.body)
    \/ rxBuffer.for # Current(c) /\ status[c] = "Error"

\* The buffer holds no reply to a call that has not sent its request.
NotAnsweredEarly(c) ==
  /\ pc[c] \in {"reject", "lock", "prepare"} \cup Asking => rxBuffer.for # Current(c)
  /\ pc[c] # "idle" => call[c] # 0

\* A task that asks, or waits for the reply, is the one to be notified, unless that
\* was forgotten...
WaitingTaskKnown(c) ==
  pc[c] \in Asking \cup {"waitNotify"} => waitingTask \in {c, NoTask}

\* ...which does not happen once the request is sent, and not at all if callers cannot run
\* between the notification of a task and the reset of waitingTask.
WaitingTaskKept(c) ==
  /\ Waits(c) => handler = "idle"
  /\ ~CallersPreempt =>
       (pc[c] \in Asking \/ Waits(c) => waitingTask = c /\ handler = "idle")

\* A task outside the mutex does not hold it, unless its reply was short.
LockInUse(c) == reqLock = c => pc[c] \in Locked \/ GotShortReply(c)

\* A configuration that is reported comes from the reply to the call (ConfigIsActual).
ConfigIsOwn(c) == status[c] = "Success" => actual[c] = Current(c)

RequestSafe(c) ==
  /\ HoldsLock(c) /\ LockInUse(c)
  /\ PendingAnswered(c) /\ WokenAnswered(c)
  /\ CodeIsReplys(c) /\ ConfigIsOwn(c)
  /\ NotAnsweredEarly(c)
  /\ WaitingTaskKnown(c) /\ WaitingTaskKept(c)

\* A travelling message belongs to the call that waits for it and is not answered.
Awaits(c, m) ==
  /\ c \in Clients
  /\ m.for = Current(c)
  /\ m.resType = resType[c]
  /\ pc[c] = "waitNotify"
  /\ rxBuffer.for # Current(c)

WireAwaited == \A m \in Wire : Awaits(m.for.task, m)

\* There is at most one message on its way, in one direction.
OneMessage ==
  /\ \A m, n \in toHost : m = n
  /\ \A m, n \in inbox : m = n
  /\ toHost = {} \/ inbox = {}

\* The buffer holds no reply from the future.
BufferIsPast ==
  rxBuffer.for = NoPointer \/ rxBuffer.for.call <= call[rxBuffer.for.task]

\* The inductive invariant.
SafeRequests ==
  /\ TypeOK
  /\ \A c \in Clients : RequestSafe(c)
  /\ WireAwaited
  /\ OneMessage
  /\ BufferIsPast

=============================================================================
