----------------------------- MODULE ResMgrRpc -----------------------------
(***************************************************************************)
(* Resource requests to rproc-srm on the host: Service::setConfig in the   *)
(* calling tasks, one at a time under reqLock, and Handler::handleMessage  *)
(* in the message handler task.  There is one receive buffer and one       *)
(* waiting task; replies carry nothing that names their request, so the    *)
(* model tags each reply with its call only to state the properties.       *)
(***************************************************************************)
EXTENDS Naturals, TaskNotify

CONSTANTS
  Clients,          \* tasks that request resources
  MaxCalls,         \* bound on the calls one task makes
  Bodies,           \* what the host may reply, among AllBodies
  SendMayFail,      \* can rpmsg_sendto return an error?
  CallersPreempt    \* is a caller's priority at least the message handler's?

\* A configuration, an error message, or fewer bytes than a message has.
AllBodies == {"config", "error", "short"}
ResourceTypes == {"Clock", "Regulator"}

ASSUME ResMgrAssumption ==
  /\ "none" \notin Clients
  /\ MaxCalls \in Nat
  /\ Bodies \subseteq AllBodies
  /\ SendMayFail \in BOOLEAN
  /\ CallersPreempt \in BOOLEAN

VARIABLES
  pc,            \* where each task is inside its call
  call,          \* number of the task's current or last call
  resType,       \* resource type of that call
  status,        \* its error code so far
  actual,        \* the call whose reply filled outActualConfig
  reqLock,       \* the task that holds Service::reqLock
  waitingTask,
  rxBuffer,      \* the last message received
  notify,        \* the tasks' DriverPrivate notification slots
  hasReceivedMsg, msgRxSem,
  toHost,        \* requests the host has not answered
  inbox,         \* replies that handleMessage has not been given
  handler        \* the message handler task: "idle" or past the notification

callVars == <<call, resType>>
endpointVars == <<hasReceivedMsg, msgRxSem>>
vars == <<pc, call, resType, status, actual, reqLock, waitingTask, rxBuffer, notify,
          hasReceivedMsg, msgRxSem, toHost, inbox, handler>>

EP == INSTANCE Endpoint

-----------------------------------------------------------------------------
(* Types and null values *)

kNotifyBit == "resmgr"
NoTask == "none"
Pointer == [task : Clients, call : Nat]
NoPointer == [task |-> NoTask, call |-> 0]
Request == [for : Pointer, resType : ResourceTypes]
Reply == [for : Pointer, resType : ResourceTypes, body : AllBodies]
NoReply == [for |-> NoPointer, resType |-> "none", body |-> "short"]

Steps == {"idle", "reject", "lock", "prepare", "checkRemote", "blockRemote", "send",
          "waitNotify", "measure", "decode", "unlock"}
Codes == {"none", "Success", "Timeout", "Error", "TooSmall", "WrongMessage",
          "WrongResource"}

TypeOK ==
  /\ pc \in [Clients -> Steps]
  /\ call \in [Clients -> Nat]
  /\ resType \in [Clients -> ResourceTypes]
  /\ status \in [Clients -> Codes]
  /\ actual \in [Clients -> Pointer \cup {NoPointer}]
  /\ reqLock \in Clients \cup {NoTask}
  /\ waitingTask \in Clients \cup {NoTask}
  /\ rxBuffer \in Reply \cup {NoReply}
  /\ notify \in [Clients -> Slot({kNotifyBit})]
  /\ hasReceivedMsg \in BOOLEAN
  /\ msgRxSem \in BOOLEAN
  /\ toHost \subseteq Request
  /\ inbox \subseteq Reply
  /\ handler \in {"idle", "notified"}

Current(c) == [task |-> c, call |-> call[c]]

Goto(c, step) == pc' = [pc EXCEPT ![c] = step]

\* A task at a step.  The message handler is not preempted by tasks of a lower
\* priority.
At(c, step) == pc[c] = step /\ (CallersPreempt \/ handler = "idle")

Finish(c, step, code) ==
  /\ Goto(c, step)
  /\ status' = [status EXCEPT ![c] = code]

-----------------------------------------------------------------------------
(* The calling task: Service::setConfigInternal *)

\* A request without a resource id and with an empty name is rejected.
BeginCall(c, r) ==
  /\ At(c, "idle")
  /\ call[c] < MaxCalls
  /\ call' = [call EXCEPT ![c] = @ + 1]
  /\ resType' = [resType EXCEPT ![c] = r]
  /\ \E step \in {"lock", "reject"} : Finish(c, step, "none")
  /\ actual' = [actual EXCEPT ![c] = NoPointer]
  /\ UNCHANGED <<reqLock, waitingTask, rxBuffer, notify, endpointVars, toHost, inbox,
                 handler>>

RejectCall(c) ==
  /\ At(c, "reject")
  /\ Finish(c, "idle", "Error")
  /\ UNCHANGED <<callVars, actual, reqLock, waitingTask, rxBuffer, notify, endpointVars,
                 toHost, inbox, handler>>

\* A faulty variant of TakeLock: the mutex is not waited for.
TakeLockRegardless(c) ==
  /\ At(c, "lock")
  /\ reqLock' = c
  /\ Goto(c, "prepare")
  /\ UNCHANGED <<callVars, status, actual, waitingTask, rxBuffer, notify, endpointVars,
                 toHost, inbox, handler>>

TakeLock(c) ==
  /\ At(c, "lock")
  /\ reqLock = NoTask
  /\ reqLock' = c
  /\ Goto(c, "prepare")
  /\ UNCHANGED <<callVars, status, actual, waitingTask, rxBuffer, notify, endpointVars,
                 toHost, inbox, handler>>

LockTimeout(c) ==
  /\ At(c, "lock") /\ reqLock # NoTask
  /\ Finish(c, "idle", "Error")
  /\ UNCHANGED <<callVars, actual, reqLock, waitingTask, rxBuffer, notify, endpointVars,
                 toHost, inbox, handler>>

\* The response's size is checked; a short response returns without the lock
\* being given back.
MeasureReply(c) ==
  /\ At(c, "measure")
  /\ IF rxBuffer.body = "short" THEN Finish(c, "idle", "TooSmall")
     ELSE Finish(c, "decode", "none")
  /\ UNCHANGED <<callVars, actual, reqLock, waitingTask, rxBuffer, notify, endpointVars,
                 toHost, inbox, handler>>

\* A faulty variant of Decoded: the message type is not looked at.
DecodedBlind(r, m) == IF m.resType # r THEN {"WrongResource"} ELSE {"Success"}

\* DecodeResponse, for a request of type r.  The buffer may have been overwritten
\* in part by a short message since it was measured.
Decoded(r, m) ==
  IF m.body = "short" THEN {"Success", "WrongMessage", "WrongResource"}
  ELSE IF m.body = "error" THEN {"WrongMessage"}
  ELSE IF m.resType # r THEN {"WrongResource"}
  ELSE {"Success"}

DecodeResponse(c) ==
  /\ At(c, "decode")
  /\ \E code \in Decoded(resType[c], rxBuffer) :
       /\ Finish(c, "unlock", code)
       /\ actual' = [actual EXCEPT ![c] = IF code = "Success" THEN rxBuffer.for ELSE @]
  /\ UNCHANGED <<callVars, reqLock, waitingTask, rxBuffer, notify, endpointVars, toHost,
                 inbox, handler>>

\* A faulty variant of GiveLock: the lock is given back only after a success.
GiveLockOnSuccess(c) ==
  /\ At(c, "unlock")
  /\ reqLock' = IF status[c] = "Success" THEN NoTask ELSE reqLock
  /\ Goto(c, "idle")
  /\ UNCHANGED <<callVars, status, actual, waitingTask, rxBuffer, notify, endpointVars,
                 toHost, inbox, handler>>

GiveLock(c) ==
  /\ At(c, "unlock")
  /\ reqLock' = NoTask
  /\ Goto(c, "idle")
  /\ UNCHANGED <<callVars, status, actual, waitingTask, rxBuffer, notify, endpointVars,
                 toHost, inbox, handler>>

-----------------------------------------------------------------------------
(* The calling task: Handler::sendRequestAndBlock *)

\* Clear the notification bit and become the waiting task.
PrepareRequest(c) ==
  /\ At(c, "prepare")
  /\ notify' = [notify EXCEPT ![c] = WithoutBits(@, {kNotifyBit})]
  /\ waitingTask' = c
  /\ Goto(c, "checkRemote")
  /\ UNCHANGED <<callVars, status, actual, reqLock, rxBuffer, endpointVars, toHost, inbox,
                 handler>>

\* waitForRemote, as in every endpoint.
CheckRemote(c) ==
  /\ At(c, "checkRemote")
  /\ Goto(c, IF hasReceivedMsg THEN "send" ELSE "blockRemote")
  /\ UNCHANGED <<callVars, status, actual, reqLock, waitingTask, rxBuffer, notify,
                 endpointVars, toHost, inbox, handler>>

AwaitRemote(c) ==
  /\ At(c, "blockRemote")
  /\ EP!TakeRxSem
  /\ Goto(c, "send")
  /\ UNCHANGED <<callVars, status, actual, reqLock, waitingTask, rxBuffer, notify, toHost,
                 inbox, handler>>

RemoteTimeout(c) ==
  /\ At(c, "blockRemote") /\ ~msgRxSem
  /\ Finish(c, "unlock", "Timeout")
  /\ UNCHANGED <<callVars, actual, reqLock, waitingTask, rxBuffer, notify, endpointVars,
                 toHost, inbox, handler>>

\* sendTo, which needs the lock the message handler holds during handleMessage.
SendRequest(c) ==
  /\ At(c, "send")
  /\ handler = "idle"
  /\ toHost' = toHost \cup {[for |-> Current(c), resType |-> resType[c]]}
  /\ Goto(c, "waitNotify")
  /\ UNCHANGED <<callVars, status, actual, reqLock, waitingTask, rxBuffer, notify,
                 endpointVars, inbox, handler>>

\* sendTo has failed.
SendFailed(c) ==
  /\ At(c, "send")
  /\ Finish(c, "unlock", "Error")
  /\ UNCHANGED <<callVars, actual, reqLock, waitingTask, rxBuffer, notify, endpointVars,
                 toHost, inbox, handler>>

\* In rpmsg_sendto, or because the message handler's lock could not be taken in time.
SendFails(c) == SendMayFail /\ handler = "idle" /\ SendFailed(c)
SendTimeout(c) == handler # "idle" /\ SendFailed(c)

\* Woken because the slot is pending; the bits are not looked at.
WakeUp(c) ==
  /\ At(c, "waitNotify")
  /\ notify[c].pending
  /\ notify' = [notify EXCEPT ![c] = Collected(@, {kNotifyBit})]
  /\ Goto(c, "measure")
  /\ UNCHANGED <<callVars, status, actual, reqLock, waitingTask, rxBuffer, endpointVars,
                 toHost, inbox, handler>>

\* waitingTask keeps naming the task that gave up.
WaitTimeout(c) ==
  /\ At(c, "waitNotify") /\ ~notify[c].pending
  /\ Finish(c, "unlock", "Timeout")
  /\ UNCHANGED <<callVars, actual, reqLock, waitingTask, rxBuffer, notify, endpointVars,
                 toHost, inbox, handler>>

-----------------------------------------------------------------------------
(* The message handler task: Handler::handleMessage *)

\* An empty or an oversized message only shows that the host is alive.
HandleOther ==
  /\ handler = "idle"
  /\ EP!MessageSeen
  /\ UNCHANGED <<pc, callVars, status, actual, reqLock, waitingTask, rxBuffer, notify,
                 toHost, inbox, handler>>

\* Copy the message and notify the waiting task, if there is one.
HandleReply(m) ==
  /\ handler = "idle"
  /\ inbox' = inbox \ {m}
  /\ EP!MessageSeen
  /\ rxBuffer' = m
  /\ \/ /\ waitingTask = NoTask
        /\ UNCHANGED <<notify, handler>>
     \/ /\ waitingTask # NoTask
        /\ notify' = [notify EXCEPT ![waitingTask] = WithBits(@, {kNotifyBit})]
        /\ handler' = "notified"
  /\ UNCHANGED <<pc, callVars, status, actual, reqLock, waitingTask, toHost>>

\* waitingTask is reset after the notification.
ForgetWaitingTask ==
  /\ handler = "notified"
  /\ waitingTask' = NoTask
  /\ handler' = "idle"
  /\ UNCHANGED <<pc, callVars, status, actual, reqLock, rxBuffer, notify, endpointVars,
                 toHost, inbox>>

\* The host (rproc-srm, not in this repository) answers each request at most
\* once, about the resource type it asked for.
HostAnswers(m, body) ==
  /\ toHost' = toHost \ {m}
  /\ inbox' = inbox \cup {[for |-> m.for, resType |-> m.resType, body |-> body]}
  /\ UNCHANGED <<pc, callVars, status, actual, reqLock, waitingTask, rxBuffer, notify,
                 endpointVars, handler>>

-----------------------------------------------------------------------------
(* Specification *)

Init ==
  /\ pc = [c \in Clients |-> "idle"]
  /\ call = [c \in Clients |-> 0]
  /\ resType = [c \in Clients |-> "Clock"]
  /\ status = [c \in Clients |-> "none"]
  /\ actual = [c \in Clients |-> NoPointer]
  /\ reqLock = NoTask
  /\ waitingTask = NoTask
  /\ rxBuffer = NoReply
  /\ notify = [c \in Clients |-> NoNotification]
  /\ EP!EndpointInit
  /\ toHost = {}
  /\ inbox = {}
  /\ handler = "idle"

\* The steps a task takes once it has started a call.
Proceed(c) ==
  \/ RejectCall(c)
  \/ TakeLock(c)
  \/ PrepareRequest(c)
  \/ CheckRemote(c)
  \/ AwaitRemote(c)
  \/ SendRequest(c)
  \/ WakeUp(c)
  \/ MeasureReply(c)
  \/ DecodeResponse(c)
  \/ GiveLock(c)

\* Those of a task that was given a timeout, once it has expired.
GiveUp(c) == LockTimeout(c) \/ RemoteTimeout(c) \/ SendTimeout(c) \/ WaitTimeout(c)

HandlerStep == (\E m \in inbox : HandleReply(m)) \/ ForgetWaitingTask

HostStep == \E m \in toHost, body \in Bodies : HostAnswers(m, body)

\* The steps of callers that wait with portMAX_DELAY; Services adds GiveUp.
Next ==
  \/ \E c \in Clients :
       \/ \E r \in ResourceTypes : BeginCall(c, r)
       \/ Proceed(c)
       \/ SendFails(c)
  \/ HandleOther
  \/ HandlerStep
  \/ HostStep

Spec == Init /\ [][Next]_vars

FirmwareFairness ==
  /\ \A c \in Clients : WF_vars(Proceed(c))
  /\ WF_vars(HandlerStep)

\* The host announces itself and answers what it is asked.
HostFairness == WF_vars(HandleOther) /\ WF_vars(HostStep)

FairSpec == Spec /\ FirmwareFairness /\ HostFairness

-----------------------------------------------------------------------------
(* Properties *)

\* The steps taken under reqLock, and those of them before the request is sent.
Asking == {"checkRemote", "blockRemote", "send"}
Locked == {"prepare", "waitNotify", "measure", "decode", "unlock"} \cup Asking

\* A task waits for a notification that is not pending.
Waits(c) == pc[c] = "waitNotify" /\ ~notify[c].pending

\* A task whose priority let it prepare its request between the notification of another
\* one and the reset of waitingTask waits for good: its reply will notify nobody.
Forgotten(c) == Waits(c) /\ waitingTask = NoTask

\* waitingTask is a single pointer, written by every caller and by the message handler.
\* The task that waits is named by it and stays so until it is notified: no other task
\* is named instead, and the message handler is not about to reset the pointer.  Only a
\* task that can preempt the message handler may be forgotten, and no task after it has
\* sent its request.
WaiterIsKnown ==
  \A c \in Clients :
    Waits(c) =>
      /\ waitingTask = c \/ (CallersPreempt /\ Forgotten(c))
      /\ handler = "idle"

\* "Actual configuration applied to the device" (setConfig): a configuration
\* that a call reports comes from the reply to that call, although replies do not
\* name their request and all share one buffer.
ConfigIsActual == \A c \in Clients : status[c] = "Success" => actual[c] = Current(c)

\* The last message was a short reply to the task.
GotShortReply(c) == rxBuffer.body = "short" /\ rxBuffer.for.task = c

\* "Mutex to ensure only one caller at a time can make requests" (reqLock): it is held by
\* a task between taking it and giving it back and by no other, except that the task
\* that got a short reply keeps it when its call returns - for good, since no other
\* message comes after that reply.  The state is well typed.
LockGivenBack ==
  /\ TypeOK
  /\ reqLock # NoTask => pc[reqLock] \in Locked \/ GotShortReply(reqLock)

\* "release lock and return" (setConfigInternal): a task that is not between taking the
\* lock and giving it back does not hold it.
LockReleased == reqLock # NoTask => pc[reqLock] \in Locked

\* The lock will not be given back any more.
LockLost ==
  /\ reqLock # NoTask
  /\ \/ pc[reqLock] \notin Locked /\ GotShortReply(reqLock)
     \/ Forgotten(reqLock)

\* Every call returns, unless the lock was lost: to a short reply or with a task that was
\* forgotten.
CallsReturn == \A c \in Clients : pc[c] # "idle" ~> pc[c] = "idle" \/ LockLost

-----------------------------------------------------------------------------
(* ResMgrRpc implements RemoteCall: the answer to a call is its reply, wherever *)
(* that is, until the call returns.                                             *)

\* What a call makes of a reply.
StatusOf(r, body) ==
  CASE body = "config" -> "Success"
    [] body = "error" -> "WrongMessage"
    [] body = "short" -> "TooSmall"

AnswerAmong(replies, p) ==
  IF \E m \in replies : m.for = p
  THEN (CHOOSE m \in replies : m.for = p).body
  ELSE "none"

AnswerTo(c) == AnswerAmong(inbox \cup {rxBuffer}, Current(c))

Calls == INSTANCE RemoteCall WITH
  MsgTypes <- ResourceTypes,
  busy <- {c \in Clients : pc[c] # "idle"},
  asked <- resType,
  answer <- [c \in Clients |-> IF pc[c] = "idle" THEN "none" ELSE AnswerTo(c)],
  returned <- [c \in Clients |-> IF pc[c] = "idle" THEN status[c] ELSE "none"]

\* A call returns the status of the host's answer to that very call, and fails
\* only if there was none (Service::setConfig over Handler).
ImplementsRemoteCall == Calls!CallSpec

=============================================================================
