---------------------------- MODULE ResMgrProofs ----------------------------
(***************************************************************************)
(* Machine-checked proofs about resource requests, for every number of     *)
(* tasks and calls, whatever the host replies and whatever the priorities. *)
(***************************************************************************)
EXTENDS ResMgrInvariants, TLAPS

-----------------------------------------------------------------------------
(* Type correctness *)

LEMMA TypeInit == Init => TypeOK
<1> SUFFICES ASSUME Init PROVE TypeOK
  OBVIOUS
<1>1. notify \in [Clients -> Slot({kNotifyBit})]
  BY DEF Init, Slot, NoNotification
<1>2. hasReceivedMsg \in BOOLEAN /\ msgRxSem \in BOOLEAN
  BY DEF Init, EP!EndpointInit
<1> QED
  BY <1>1, <1>2 DEF Init, TypeOK, Steps, ResourceTypes, Codes

LEMMA TypeStep ==
  ASSUME TypeOK, [Next]_vars
  PROVE  TypeOK'
<1> USE DEF TypeOK
<1>1. ASSUME NEW c \in Clients, NEW r \in ResourceTypes, BeginCall(c, r)
      PROVE  TypeOK'
  <2>1. pc' \in [Clients -> Steps] /\ status' \in [Clients -> Codes]
    BY <1>1 DEF BeginCall, Finish, Goto, Steps, Codes
  <2>2. call' \in [Clients -> Nat] /\ resType' \in [Clients -> ResourceTypes]
    BY <1>1 DEF BeginCall
  <2>3. actual' \in [Clients -> Pointer \cup {NoPointer}]
    BY <1>1 DEF BeginCall
  <2> QED
    BY <1>1, <2>1, <2>2, <2>3 DEF BeginCall, endpointVars
<1>2. ASSUME NEW c \in Clients, Proceed(c)
      PROVE  TypeOK'
  <2>1. CASE RejectCall(c)
    BY <2>1 DEF RejectCall, Finish, Goto, Steps, Codes, callVars, endpointVars
  <2>2. CASE TakeLock(c)
    BY <2>2 DEF TakeLock, Goto, Steps, callVars, endpointVars
  <2>3. CASE PrepareRequest(c)
    <3>1. notify' \in [Clients -> Slot({kNotifyBit})]
      BY <2>3 DEF PrepareRequest, WithoutBits, Slot
    <3> QED
      BY <2>3, <3>1 DEF PrepareRequest, Goto, Steps, callVars, endpointVars
  <2>4. CASE CheckRemote(c)
    <3>1. pc' \in [Clients -> Steps]
      BY <2>4 DEF CheckRemote, Goto, Steps
    <3> QED
      BY <2>4, <3>1 DEF CheckRemote, callVars, endpointVars
  <2>5. CASE AwaitRemote(c)
    BY <2>5 DEF AwaitRemote, EP!TakeRxSem, Goto, Steps, callVars
  <2>6. CASE SendRequest(c)
    <3>1. toHost' \subseteq Request
      BY <2>6 DEF SendRequest, Request, Current, Pointer
    <3> QED
      BY <2>6, <3>1 DEF SendRequest, Goto, Steps, callVars, endpointVars
  <2>7. CASE WakeUp(c)
    <3>1. notify' \in [Clients -> Slot({kNotifyBit})]
      BY <2>7 DEF WakeUp, Collected, Slot
    <3> QED
      BY <2>7, <3>1 DEF WakeUp, Goto, Steps, callVars, endpointVars
  <2>8. CASE MeasureReply(c)
    <3>1. pc' \in [Clients -> Steps] /\ status' \in [Clients -> Codes]
      BY <2>8 DEF MeasureReply, Finish, Goto, Steps, Codes
    <3> QED
      BY <2>8, <3>1 DEF MeasureReply, callVars, endpointVars
  <2>9. CASE DecodeResponse(c)
    <3>1. PICK code \in Decoded(resType[c], rxBuffer) :
            /\ Finish(c, "unlock", code)
            /\ actual' = [actual EXCEPT ![c] = IF code = "Success" THEN rxBuffer.for ELSE @]
      BY <2>9 DEF DecodeResponse
    <3>2. code \in Codes
      BY DEF Decoded, Codes
    <3>3. rxBuffer.for \in Pointer \cup {NoPointer}
      BY DEF Reply, NoReply
    <3>4. pc' \in [Clients -> Steps] /\ status' \in [Clients -> Codes]
      BY <3>1, <3>2 DEF Finish, Goto, Steps
    <3>5. actual' \in [Clients -> Pointer \cup {NoPointer}]
      BY <3>1, <3>3
    <3> QED
      BY <2>9, <3>4, <3>5 DEF DecodeResponse, callVars, endpointVars
  <2>10. CASE GiveLock(c)
    BY <2>10 DEF GiveLock, Goto, Steps, callVars, endpointVars
  <2> QED
    BY <1>2, <2>1, <2>2, <2>3, <2>4, <2>5, <2>6, <2>7, <2>8, <2>9, <2>10 DEF Proceed
<1>3. ASSUME NEW c \in Clients, SendFails(c)
      PROVE  TypeOK'
  BY <1>3 DEF SendFails, SendFailed, Finish, Goto, Steps, Codes, callVars, endpointVars
<1>4. CASE HandleOther
  BY <1>4 DEF HandleOther, EP!MessageSeen, callVars
<1>5. ASSUME NEW m \in inbox, HandleReply(m)
      PROVE  TypeOK'
  <2>1. notify' \in [Clients -> Slot({kNotifyBit})] /\ handler' \in {"idle", "notified"}
    <3>1. CASE waitingTask = NoTask
      BY <1>5, <3>1 DEF HandleReply
    <3>2. CASE waitingTask # NoTask
      <4>1. WithBits(notify[waitingTask], {kNotifyBit}) \in Slot({kNotifyBit})
        BY <3>2 DEF WithBits, Slot
      <4> QED
        BY <1>5, <3>2, <4>1 DEF HandleReply
    <3> QED
      BY <3>1, <3>2
  <2> QED
    BY <1>5, <2>1 DEF HandleReply, EP!MessageSeen, callVars
<1>6. CASE ForgetWaitingTask
  BY <1>6 DEF ForgetWaitingTask, callVars, endpointVars
<1>7. ASSUME NEW m \in toHost, NEW body \in Bodies, HostAnswers(m, body)
      PROVE  TypeOK'
  <2>1. inbox' \subseteq Reply
    BY <1>7, ResMgrAssumption DEF HostAnswers, Request, Reply, ResMgrAssumption
  <2> QED
    BY <1>7, <2>1 DEF HostAnswers, callVars, endpointVars
<1>8. CASE UNCHANGED vars
  BY <1>8 DEF vars
<1> QED
  BY <1>1, <1>2, <1>3, <1>4, <1>5, <1>6, <1>7, <1>8 DEF Next, HandlerStep, HostStep

\* Every reachable state is well typed (all actions of ResMgrRpc).
THEOREM TypeCorrect == Spec => []TypeOK
<1> QED
  BY TypeInit, TypeStep, PTL DEF Spec

-----------------------------------------------------------------------------
(* Calls without a timeout *)

LEMMA SafeInit == Init => SafeRequests
<1> SUFFICES ASSUME Init PROVE SafeRequests
  OBVIOUS
<1>1. \A c \in Clients : RequestSafe(c)
  BY ResMgrAssumption
  DEF Init, RequestSafe, HoldsLock, LockInUse, GotShortReply, PendingAnswered,
      WokenAnswered, CodeIsReplys, ConfigIsOwn, NotAnsweredEarly, WaitingTaskKnown,
      WaitingTaskKept, Waits, Locked, Asking, NoNotification, NoTask, ResMgrAssumption
<1>2. WireAwaited /\ OneMessage /\ BufferIsPast
  BY DEF Init, WireAwaited, OneMessage, BufferIsPast, Wire, NoReply
<1> QED
  BY TypeInit, <1>1, <1>2 DEF SafeRequests

\* The step concerns no other task than c.
OthersKept(c) ==
  \A d \in Clients \ {c} :
    /\ pc'[d] = pc[d] /\ call'[d] = call[d] /\ resType'[d] = resType[d]
    /\ status'[d] = status[d] /\ actual'[d] = actual[d] /\ notify'[d] = notify[d]

\* A step of task c keeps what concerns the other tasks and the messages on their way
\* if c has no message on its way, if it touches nothing of the other tasks, and if
\* it takes the lock only when that is free, and gives back only its own.
LEMMA ClientStep ==
  ASSUME SafeRequests, TypeOK', NEW c \in Clients,
         pc[c] # "waitNotify" \/ notify[c].pending,
         OthersKept(c),
         call'[c] >= call[c],
         UNCHANGED <<rxBuffer, toHost, inbox, handler>>,
         reqLock' # reqLock => reqLock \in {c, NoTask} /\ reqLock' \in {c, NoTask},
         waitingTask' # waitingTask => pc[c] \in Locked,
         RequestSafe(c)'
  PROVE  SafeRequests'
<1> USE DEF SafeRequests, OthersKept
<1>a. NoTask \notin Clients
  BY ResMgrAssumption DEF ResMgrAssumption, NoTask
<1>1. \A d \in Clients \ {c} : RequestSafe(d)'
  <2> SUFFICES ASSUME NEW d \in Clients \ {c} PROVE RequestSafe(d)'
    OBVIOUS
  <2>1. RequestSafe(d)
    OBVIOUS
  <2>2. Current(d)' = Current(d)
    BY DEF Current
  <2>3. HasReply(d)' <=> HasReply(d)
    BY <2>2 DEF HasReply
  <2>4. HoldsLock(d)' /\ LockInUse(d)'
    BY <1>a, <2>1 DEF RequestSafe, HoldsLock, LockInUse, GotShortReply
  <2>5. PendingAnswered(d)' /\ WokenAnswered(d)'
    BY <2>1, <2>3 DEF RequestSafe, PendingAnswered, WokenAnswered
  <2>6. CodeIsReplys(d)'
    BY <2>1, <2>2, <2>3 DEF RequestSafe, CodeIsReplys
  <2>7. NotAnsweredEarly(d)' /\ ConfigIsOwn(d)'
    BY <2>1, <2>2 DEF RequestSafe, NotAnsweredEarly, ConfigIsOwn
  <2>8. WaitingTaskKnown(d)' /\ WaitingTaskKept(d)'
    <3>1. pc[d] \in Locked => waitingTask' = waitingTask
      BY <2>1 DEF RequestSafe, HoldsLock
    <3> QED
      BY <2>1, <3>1 DEF RequestSafe, WaitingTaskKnown, WaitingTaskKept, Waits, Locked
  <2> QED
    BY <2>4, <2>5, <2>6, <2>7, <2>8 DEF RequestSafe
<1>2. WireAwaited'
  <2> SUFFICES ASSUME NEW m \in Wire PROVE Awaits(m.for.task, m)'
    BY DEF WireAwaited, Wire
  <2>1. Awaits(m.for.task, m)
    BY DEF WireAwaited
  <2>2. m.for.task # c
    BY <2>1 DEF Awaits, RequestSafe, PendingAnswered, HasReply
  <2> QED
    BY <2>1, <2>2 DEF Awaits, Current
<1>3. OneMessage'
  BY DEF OneMessage
<1>4. BufferIsPast'
  <2> SUFFICES ASSUME rxBuffer.for # NoPointer
               PROVE  rxBuffer.for.call <= call'[rxBuffer.for.task]
    BY DEF BufferIsPast
  <2>1. rxBuffer.for \in Pointer
    BY DEF TypeOK, Reply, NoReply
  <2>2. /\ rxBuffer.for.task \in Clients /\ rxBuffer.for.call \in Nat
        /\ rxBuffer.for.call <= call[rxBuffer.for.task]
    BY <2>1 DEF BufferIsPast, Pointer
  <2>3. call[rxBuffer.for.task] <= call'[rxBuffer.for.task]
    BY <2>2 DEF TypeOK
  <2> QED
    BY <2>2, <2>3 DEF TypeOK
<1> QED
  BY <1>1, <1>2, <1>3, <1>4

\* One step of a task's own call.
LEMMA ClientKeepsSafe ==
  ASSUME SafeRequests, TypeOK', NEW c \in Clients,
         (\E r \in ResourceTypes : BeginCall(c, r)) \/ Proceed(c) \/ SendFails(c)
  PROVE  SafeRequests'
<1> USE DEF SafeRequests
<1> DEFINE Parts == /\ HoldsLock(c)' /\ LockInUse(c)'
                    /\ PendingAnswered(c)' /\ WokenAnswered(c)'
                    /\ CodeIsReplys(c)' /\ ConfigIsOwn(c)'
                    /\ NotAnsweredEarly(c)'
                    /\ WaitingTaskKnown(c)' /\ WaitingTaskKept(c)'
<1>a. c # NoTask /\ NoPointer # Current(c) /\ NoPointer # Current(c)'
  BY ResMgrAssumption DEF ResMgrAssumption, NoTask, NoPointer, Current
<1>b. RequestSafe(c)
  OBVIOUS
<1>c. Parts => RequestSafe(c)'
  BY DEF RequestSafe
<1>d. call' = call => Current(c)' = Current(c)
  BY DEF Current
<1>e. call' = call /\ rxBuffer' = rxBuffer /\ resType' = resType => (HasReply(c)' <=> HasReply(c))
  BY <1>d DEF HasReply
<1>f. ASSUME pc[c] # "waitNotify" \/ notify[c].pending,
             OthersKept(c),
             call'[c] >= call[c],
             UNCHANGED <<rxBuffer, toHost, inbox, handler>>,
             reqLock' # reqLock => reqLock \in {c, NoTask} /\ reqLock' \in {c, NoTask},
             waitingTask' # waitingTask => pc[c] \in Locked,
             Parts
      PROVE  SafeRequests'
  <2>1. RequestSafe(c)'
    BY <1>c, <1>f
  <2> HIDE DEF SafeRequests, Parts
  <2> QED
    BY <1>f, <2>1, ClientStep
<1>g. call' = call => call'[c] >= call[c]
  BY DEF TypeOK
<1> HIDE DEF Parts
<1>1. ASSUME NEW r \in ResourceTypes, BeginCall(c, r) PROVE SafeRequests'
  <2>1. PICK step \in {"lock", "reject"} : Finish(c, step, "none")
    BY <1>1 DEF BeginCall
  <2>2. pc[c] = "idle" /\ pc'[c] = step /\ status'[c] = "none" /\ call'[c] = call[c] + 1
    BY <1>1, <2>1 DEF BeginCall, At, Finish, Goto, TypeOK
  <2>3. OthersKept(c)
    BY <1>1, <2>1 DEF BeginCall, Finish, Goto, TypeOK, OthersKept
  <2>4. rxBuffer.for # Current(c)'
    BY <2>2 DEF BufferIsPast, Current, NoPointer, TypeOK
  <2>5. Parts
    BY <1>1, <1>b, <2>2, <2>4
    DEF Parts, BeginCall, RequestSafe, HoldsLock, LockInUse, GotShortReply,
        PendingAnswered, WokenAnswered, CodeIsReplys, ConfigIsOwn, NotAnsweredEarly,
        WaitingTaskKnown, WaitingTaskKept, Waits, Locked, Asking, TypeOK
  <2> QED
    <3>1. call'[c] >= call[c]
      BY <2>2 DEF TypeOK
    <3> QED
      BY <1>1, <1>f, <2>2, <2>3, <2>5, <3>1 DEF BeginCall
<1> USE DEF callVars, endpointVars
<1>2. ASSUME RejectCall(c) PROVE SafeRequests'
  <2>1. /\ pc[c] = "reject"
        /\ pc'[c] = "idle" /\ status'[c] = "Error"
    BY <1>2 DEF RejectCall, At, Finish, Goto, TypeOK
  <2>2. OthersKept(c)
    BY <1>2 DEF RejectCall, Finish, Goto, TypeOK, OthersKept
  <2>3. Parts
    BY <1>2, <1>a, <1>b, <1>d, <1>e, <2>1
    DEF Parts, RejectCall, RequestSafe, HoldsLock, LockInUse, GotShortReply,
        PendingAnswered, WokenAnswered, CodeIsReplys, ConfigIsOwn, NotAnsweredEarly,
        WaitingTaskKnown, WaitingTaskKept, Waits, Locked, Asking, TypeOK
  <2> QED
    BY <1>2, <1>f, <1>g, <2>1, <2>2, <2>3 DEF RejectCall
<1>3. ASSUME TakeLock(c) PROVE SafeRequests'
  <2>1. /\ pc[c] = "lock"
        /\ pc'[c] = "prepare" /\ reqLock = NoTask
    BY <1>3 DEF TakeLock, At, Goto, TypeOK
  <2>2. OthersKept(c)
    BY <1>3 DEF TakeLock, Goto, TypeOK, OthersKept
  <2>3. Parts
    BY <1>3, <1>a, <1>b, <1>d, <1>e, <2>1
    DEF Parts, TakeLock, RequestSafe, HoldsLock, LockInUse, GotShortReply, PendingAnswered,
        WokenAnswered, CodeIsReplys, ConfigIsOwn, NotAnsweredEarly, WaitingTaskKnown,
        WaitingTaskKept, Waits, Locked, Asking, TypeOK
  <2> QED
    BY <1>3, <1>f, <1>g, <2>1, <2>2, <2>3 DEF TakeLock
<1>4. ASSUME CheckRemote(c) PROVE SafeRequests'
  <2>1. /\ pc[c] = "checkRemote"
        /\ pc'[c] \in {"send", "blockRemote"}
    BY <1>4 DEF CheckRemote, At, Goto, TypeOK
  <2>2. OthersKept(c)
    BY <1>4 DEF CheckRemote, Goto, TypeOK, OthersKept
  <2>3. Parts
    BY <1>4, <1>a, <1>b, <1>d, <1>e, <2>1
    DEF Parts, CheckRemote, RequestSafe, HoldsLock, LockInUse, GotShortReply,
        PendingAnswered, WokenAnswered, CodeIsReplys, ConfigIsOwn, NotAnsweredEarly,
        WaitingTaskKnown, WaitingTaskKept, Waits, Locked, Asking, TypeOK
  <2> QED
    BY <1>4, <1>f, <1>g, <2>1, <2>2, <2>3 DEF CheckRemote
<1>5. ASSUME AwaitRemote(c) PROVE SafeRequests'
  <2>1. /\ pc[c] = "blockRemote"
        /\ pc'[c] = "send"
    BY <1>5 DEF AwaitRemote, At, Goto, TypeOK
  <2>2. OthersKept(c)
    BY <1>5 DEF AwaitRemote, Goto, TypeOK, OthersKept
  <2>3. Parts
    BY <1>5, <1>a, <1>b, <1>d, <1>e, <2>1
    DEF Parts, AwaitRemote, RequestSafe, HoldsLock, LockInUse, GotShortReply,
        PendingAnswered, WokenAnswered, CodeIsReplys, ConfigIsOwn, NotAnsweredEarly,
        WaitingTaskKnown, WaitingTaskKept, Waits, Locked, Asking, TypeOK
  <2> QED
    BY <1>5, <1>f, <1>g, <2>1, <2>2, <2>3 DEF AwaitRemote
<1>6. ASSUME GiveLock(c) PROVE SafeRequests'
  <2>1. /\ pc[c] = "unlock"
        /\ pc'[c] = "idle" /\ reqLock = c
    BY <1>6, <1>b DEF GiveLock, At, Goto, TypeOK, RequestSafe, HoldsLock, Locked
  <2>2. OthersKept(c)
    BY <1>6 DEF GiveLock, Goto, TypeOK, OthersKept
  <2>3. Parts
    BY <1>6, <1>a, <1>b, <1>d, <1>e, <2>1
    DEF Parts, GiveLock, RequestSafe, HoldsLock, LockInUse, GotShortReply, PendingAnswered,
        WokenAnswered, CodeIsReplys, ConfigIsOwn, NotAnsweredEarly, WaitingTaskKnown,
        WaitingTaskKept, Waits, Locked, Asking, TypeOK
  <2> QED
    BY <1>6, <1>f, <1>g, <2>1, <2>2, <2>3 DEF GiveLock
<1>7. ASSUME SendFails(c) PROVE SafeRequests'
  <2>1. /\ pc[c] = "send"
        /\ pc'[c] = "unlock" /\ status'[c] = "Error"
    BY <1>7 DEF SendFails, At, SendFailed, Finish, Goto, TypeOK
  <2>2. OthersKept(c)
    BY <1>7 DEF SendFails, SendFailed, Finish, Goto, TypeOK, OthersKept
  <2>3. Parts
    BY <1>7, <1>a, <1>b, <1>d, <1>e, <2>1
    DEF Parts, SendFails, SendFailed, RequestSafe, HoldsLock, LockInUse, GotShortReply,
        PendingAnswered, WokenAnswered, CodeIsReplys, ConfigIsOwn, NotAnsweredEarly,
        WaitingTaskKnown, WaitingTaskKept, Waits, Locked, Asking, TypeOK
  <2> QED
    BY <1>7, <1>f, <1>g, <2>1, <2>2, <2>3 DEF SendFails, SendFailed
<1>8. ASSUME PrepareRequest(c) PROVE SafeRequests'
  <2>1. /\ pc[c] = "prepare" /\ pc'[c] = "checkRemote" /\ ~notify'[c].pending
        /\ reqLock = c
    <3>1. pc[c] = "prepare" /\ pc'[c] = "checkRemote" /\ reqLock = c
      BY <1>8, <1>b DEF PrepareRequest, At, Goto, TypeOK, RequestSafe, HoldsLock, Locked
    <3>2. ~notify[c].pending
      BY <1>b, <3>1 DEF RequestSafe, PendingAnswered
    <3>3. notify'[c].pending = notify[c].pending
      BY <1>8 DEF PrepareRequest, TypeOK, WithoutBits, Slot
    <3> QED
      BY <3>1, <3>2, <3>3
  <2>2. OthersKept(c)
    BY <1>8 DEF PrepareRequest, Goto, TypeOK, OthersKept
  <2>3. ~CallersPreempt => handler = "idle"
    BY <1>8 DEF PrepareRequest, At
  <2>4. Parts
    BY <1>8, <1>a, <1>b, <1>d, <1>e, <2>1, <2>3
    DEF Parts, PrepareRequest, RequestSafe, HoldsLock, LockInUse, GotShortReply,
        PendingAnswered, WokenAnswered, CodeIsReplys, ConfigIsOwn, NotAnsweredEarly,
        WaitingTaskKnown, WaitingTaskKept, Waits, Locked, Asking, TypeOK
  <2> QED
    BY <1>8, <1>f, <1>g, <2>1, <2>2, <2>4 DEF PrepareRequest, Locked
<1>9. ASSUME WakeUp(c) PROVE SafeRequests'
  <2>1. /\ pc[c] = "waitNotify" /\ pc'[c] = "measure"
        /\ notify[c].pending /\ ~notify'[c].pending
    BY <1>9 DEF WakeUp, At, Goto, TypeOK, Collected
  <2>2. OthersKept(c)
    BY <1>9 DEF WakeUp, Goto, TypeOK, OthersKept
  <2>3. Parts
    BY <1>9, <1>a, <1>b, <1>d, <1>e, <2>1
    DEF Parts, WakeUp, RequestSafe, HoldsLock, LockInUse, GotShortReply, PendingAnswered,
        WokenAnswered, CodeIsReplys, ConfigIsOwn, NotAnsweredEarly, WaitingTaskKnown,
        WaitingTaskKept, Waits, Locked, Asking, TypeOK
  <2> QED
    BY <1>9, <1>f, <1>g, <2>1, <2>2, <2>3 DEF WakeUp
<1>10. ASSUME MeasureReply(c) PROVE SafeRequests'
  <2>1. /\ pc[c] = "measure"
        /\ \/ rxBuffer.body = "short" /\ pc'[c] = "idle" /\ status'[c] = "TooSmall"
           \/ rxBuffer.body # "short" /\ pc'[c] = "decode" /\ status'[c] = "none"
    BY <1>10 DEF MeasureReply, At, Finish, Goto, TypeOK
  <2>2. OthersKept(c)
    BY <1>10 DEF MeasureReply, Finish, Goto, TypeOK, OthersKept
  <2>3. rxBuffer.for.task = c
    BY <1>b, <2>1 DEF RequestSafe, WokenAnswered, HasReply, Current
  <2>4. Parts
    BY <1>10, <1>a, <1>b, <1>d, <1>e, <2>1, <2>3
    DEF Parts, MeasureReply, RequestSafe, HoldsLock, LockInUse, GotShortReply,
        PendingAnswered, WokenAnswered, CodeIsReplys, ConfigIsOwn, NotAnsweredEarly,
        WaitingTaskKnown, WaitingTaskKept, Waits, Locked, Asking, TypeOK
  <2> QED
    BY <1>10, <1>f, <1>g, <2>1, <2>2, <2>4 DEF MeasureReply
<1>11. ASSUME DecodeResponse(c) PROVE SafeRequests'
  <2>1. PICK code \in Decoded(resType[c], rxBuffer) :
          /\ Finish(c, "unlock", code)
          /\ actual' = [actual EXCEPT ![c] = IF code = "Success" THEN rxBuffer.for ELSE @]
    BY <1>11 DEF DecodeResponse
  <2>2. pc[c] = "decode" /\ HasReply(c) /\ rxBuffer.body # "short"
    BY <1>11, <1>b DEF DecodeResponse, At, RequestSafe, WokenAnswered
  <2>3. code = StatusOf(resType[c], rxBuffer.body)
    <3>1. rxBuffer \in Reply
      BY <1>a, <2>2 DEF HasReply, NoReply, TypeOK
    <3>2. rxBuffer.body \in {"config", "error"}
      BY <2>2, <3>1 DEF Reply, AllBodies
    <3> QED
      BY <2>1, <2>2, <3>2 DEF Decoded, StatusOf, HasReply
  <2>4. pc'[c] = "unlock" /\ status'[c] = code /\ OthersKept(c)
    BY <1>11, <2>1 DEF DecodeResponse, Finish, Goto, TypeOK, OthersKept
  <2>5. code = "Success" => actual'[c] = Current(c)
    BY <2>1, <2>2 DEF HasReply, TypeOK
  <2>6. UNCHANGED <<callVars, reqLock, waitingTask, rxBuffer, notify, toHost, inbox, handler>>
    BY <1>11 DEF DecodeResponse
  <2>7. Parts
    BY <1>a, <1>b, <1>d, <1>e, <2>2, <2>3, <2>4, <2>5, <2>6
    DEF Parts, RequestSafe, HoldsLock, LockInUse, GotShortReply, PendingAnswered,
        WokenAnswered, CodeIsReplys, ConfigIsOwn, NotAnsweredEarly, WaitingTaskKnown,
        WaitingTaskKept, Waits, Locked, Asking, TypeOK
  <2> QED
    BY <1>f, <1>g, <2>2, <2>4, <2>6, <2>7
<1>12. ASSUME SendRequest(c) PROVE SafeRequests'
  <2>1. /\ pc[c] = "send" /\ pc' = [pc EXCEPT ![c] = "waitNotify"] /\ handler = "idle"
        /\ UNCHANGED <<callVars, status, actual, reqLock, waitingTask, rxBuffer, notify, inbox,
                       handler>>
        /\ toHost' = toHost \cup {[for |-> Current(c), resType |-> resType[c]]}
    BY <1>12 DEF SendRequest, At, Goto
  <2>2. reqLock = c
    BY <1>b, <2>1 DEF RequestSafe, HoldsLock, Locked, Asking
  <2>3. Wire = {}
    BY <2>1, <2>2 DEF WireAwaited, Awaits, RequestSafe, HoldsLock, Locked
  <2>4. \A d \in Clients : RequestSafe(d)'
    <3> SUFFICES ASSUME NEW d \in Clients PROVE RequestSafe(d)'
      OBVIOUS
    <3>1. d # c => pc'[d] = pc[d]
      BY <2>1 DEF TypeOK
    <3>2. pc'[c] = "waitNotify"
      BY <2>1 DEF TypeOK
    <3>3. RequestSafe(d)
      OBVIOUS
    <3>4. Current(d)' = Current(d) /\ (HasReply(d)' <=> HasReply(d))
      BY <2>1 DEF Current, HasReply
    <3> QED
      BY <2>1, <3>1, <3>2, <3>3, <3>4
      DEF RequestSafe, HoldsLock, LockInUse, GotShortReply, PendingAnswered, WokenAnswered,
          CodeIsReplys, ConfigIsOwn, NotAnsweredEarly, WaitingTaskKnown, WaitingTaskKept,
          Waits, Locked, Asking
  <2>5. WireAwaited'
    BY <1>b, <2>1, <2>3
    DEF WireAwaited, Awaits, Wire, RequestSafe, NotAnsweredEarly, Asking, Current, TypeOK
  <2>6. OneMessage' /\ BufferIsPast'
    BY <2>1, <2>3 DEF OneMessage, BufferIsPast, Wire
  <2> QED
    BY <2>4, <2>5, <2>6
<1> QED
  BY <1>1, <1>2, <1>3, <1>4, <1>5, <1>6, <1>7, <1>8, <1>9, <1>10, <1>11, <1>12 DEF Proceed

\* A step of the message handler, or of the host.
LEMMA HandlerKeepsSafe ==
  ASSUME SafeRequests, TypeOK', HandleOther \/ HandlerStep \/ HostStep \/ UNCHANGED vars
  PROVE  SafeRequests'
<1> USE DEF SafeRequests
<1>a. NoTask \notin Clients
  BY ResMgrAssumption DEF ResMgrAssumption, NoTask
<1>1. ASSUME NEW m \in inbox, HandleReply(m) PROVE SafeRequests'
  <2> DEFINE w == m.for.task
  <2>1. /\ w \in Clients /\ Awaits(w, m) /\ RequestSafe(w) /\ m \in Reply
        /\ rxBuffer' = m /\ inbox' = {} /\ toHost' = {} /\ toHost = {}
        /\ handler = "idle"
        /\ UNCHANGED <<pc, callVars, status, actual, reqLock, waitingTask>>
    BY <1>1 DEF HandleReply, WireAwaited, Awaits, Wire, OneMessage, TypeOK
  <2> HIDE DEF w
  <2>2. reqLock = w /\ waitingTask \in {w, NoTask} /\ m.for = Current(w) /\ pc[w] = "waitNotify"
    BY <2>1 DEF RequestSafe, HoldsLock, Locked, WaitingTaskKnown, Awaits, w
  <2>3. /\ \A d \in Clients \ {w} : notify'[d] = notify[d]
        /\ \/ waitingTask = NoTask /\ notify' = notify /\ handler' = handler
           \/ waitingTask = w /\ notify'[w].pending /\ handler' = "notified"
    <3>1. CASE waitingTask = NoTask
      BY <1>1, <3>1 DEF HandleReply
    <3>2. CASE waitingTask = w
      <4>1. notify' = [notify EXCEPT ![w] = WithBits(@, {kNotifyBit})]
        BY <1>1, <1>a, <2>1, <3>2 DEF HandleReply
      <4>2. handler' = "notified"
        BY <1>1, <1>a, <2>1, <3>2 DEF HandleReply
      <4> QED
        BY <2>1, <3>2, <4>1, <4>2 DEF TypeOK, WithBits
    <3> QED
      BY <2>2, <3>1, <3>2
  <2>4. \A d \in Clients : RequestSafe(d)'
    <3> SUFFICES ASSUME NEW d \in Clients PROVE RequestSafe(d)'
      OBVIOUS
    <3>1. RequestSafe(d) /\ Current(d)' = Current(d) /\ call'[d] = call[d]
      BY <2>1 DEF Current, callVars
    <3>2. CASE d = w
      <4>1. HasReply(w)'
        BY <2>1, <2>2 DEF HasReply, Awaits, Current, callVars
      <4> QED
        BY <2>1, <2>2, <2>3, <3>1, <3>2, <4>1
        DEF RequestSafe, HoldsLock, LockInUse, GotShortReply, PendingAnswered,
            WokenAnswered, CodeIsReplys, ConfigIsOwn, NotAnsweredEarly, WaitingTaskKnown,
            WaitingTaskKept, Waits, Locked, Asking
    <3>3. CASE d # w
      <4>1. pc[d] \notin Locked
        BY <2>2, <3>1, <3>3 DEF RequestSafe, HoldsLock
      <4>2. m.for # Current(d)
        BY <2>2, <3>3 DEF Current
      <4> QED
        BY <2>1, <2>2, <2>3, <3>1, <3>3, <4>1, <4>2
        DEF RequestSafe, HoldsLock, LockInUse, GotShortReply, PendingAnswered,
            WokenAnswered, CodeIsReplys, ConfigIsOwn, NotAnsweredEarly, WaitingTaskKnown,
            WaitingTaskKept, Waits, Locked, Asking
    <3> QED
      BY <3>2, <3>3
  <2>5. WireAwaited' /\ OneMessage'
    BY <2>1 DEF WireAwaited, OneMessage, Wire
  <2>6. BufferIsPast'
    BY <2>1, <2>2 DEF BufferIsPast, Current, callVars, TypeOK
  <2> QED
    BY <2>4, <2>5, <2>6
<1>2. CASE HandleOther
  <2>1. \A d \in Clients : RequestSafe(d)'
    BY <1>2
    DEF HandleOther, callVars, RequestSafe, HoldsLock, LockInUse, GotShortReply,
        PendingAnswered, WokenAnswered, CodeIsReplys, ConfigIsOwn, NotAnsweredEarly,
        WaitingTaskKnown, WaitingTaskKept, Waits, HasReply, Current
  <2> QED
    BY <1>2, <2>1
    DEF HandleOther, callVars, WireAwaited, Awaits, Wire, Current, OneMessage, BufferIsPast
<1>3. CASE ForgetWaitingTask
  <2>1. \A d \in Clients : RequestSafe(d)'
    BY <1>3
    DEF ForgetWaitingTask, callVars, RequestSafe, HoldsLock, LockInUse, GotShortReply,
        PendingAnswered, WokenAnswered, CodeIsReplys, ConfigIsOwn, NotAnsweredEarly,
        WaitingTaskKnown, WaitingTaskKept, Waits, HasReply, Current
  <2> QED
    BY <1>3, <2>1
    DEF ForgetWaitingTask, callVars, WireAwaited, Awaits, Wire, Current, OneMessage,
        BufferIsPast
<1>4. ASSUME NEW m \in toHost, NEW body \in Bodies, HostAnswers(m, body) PROVE SafeRequests'
  <2>1. toHost' = {} /\ inbox' = {[for |-> m.for, resType |-> m.resType, body |-> body]}
    BY <1>4 DEF HostAnswers, OneMessage
  <2>2. Awaits(m.for.task, m)
    BY DEF WireAwaited, Wire
  <2>3. \A d \in Clients : RequestSafe(d)'
    BY <1>4
    DEF HostAnswers, callVars, RequestSafe, HoldsLock, LockInUse, GotShortReply,
        PendingAnswered, WokenAnswered, CodeIsReplys, ConfigIsOwn, NotAnsweredEarly,
        WaitingTaskKnown, WaitingTaskKept, Waits, HasReply, Current
  <2>4. WireAwaited'
    BY <1>4, <2>1, <2>2 DEF HostAnswers, callVars, WireAwaited, Awaits, Wire, Current
  <2>5. OneMessage' /\ BufferIsPast'
    BY <1>4, <2>1 DEF HostAnswers, callVars, OneMessage, BufferIsPast
  <2> QED
    BY <2>3, <2>4, <2>5
<1>5. CASE UNCHANGED vars
  <2>1. \A d \in Clients : RequestSafe(d)'
    BY <1>5
    DEF vars, RequestSafe, HoldsLock, LockInUse, GotShortReply, PendingAnswered,
        WokenAnswered, CodeIsReplys, ConfigIsOwn, NotAnsweredEarly, WaitingTaskKnown,
        WaitingTaskKept, Waits, HasReply, Current
  <2> QED
    BY <1>5, <2>1
    DEF vars, WireAwaited, Awaits, Wire, Current, OneMessage, BufferIsPast
<1> QED
  BY <1>1, <1>2, <1>3, <1>4, <1>5 DEF HandlerStep, HostStep

LEMMA SafeStep == SafeRequests /\ [Next]_vars => SafeRequests'
<1> SUFFICES ASSUME SafeRequests, [Next]_vars PROVE SafeRequests'
  OBVIOUS
<1>1. TypeOK'
  BY TypeStep DEF SafeRequests
<1> QED
  BY <1>1, ClientKeepsSafe, HandlerKeepsSafe DEF Next

\* While a request or its reply travels, the task that sent it waits, holds the lock,
\* and the buffer does not hold an answer to it yet; the buffer of a task that is woken
\* holds the reply to its own call (setConfigInternal and handleMessage).
THEOREM RequestsSafe == Spec => []SafeRequests
<1> QED
  BY SafeInit, SafeStep, PTL DEF Spec

\* A configuration that setConfig reports comes from the reply to that call, although
\* replies do not name their requests and share one buffer.
THEOREM ConfigsAreActual == Spec => []ConfigIsActual
<1>1. SafeRequests => ConfigIsActual
  BY DEF SafeRequests, RequestSafe, ConfigIsOwn, ConfigIsActual
<1> QED
  BY <1>1, RequestsSafe, PTL

\* Whatever the priorities: the task that waits for a reply is the one handleMessage will
\* notify, or none is.  It is never displaced by another caller, and once its request is
\* sent handleMessage does not forget it before it has notified it.  Only callers that can
\* preempt the message handler can be forgotten at all (sendRequestAndBlock, handleMessage).
THEOREM WaitersAreKnown == Spec => []WaiterIsKnown
<1>1. SafeRequests => WaiterIsKnown
  BY DEF SafeRequests, RequestSafe, WaitingTaskKnown, WaitingTaskKept, WaiterIsKnown,
     Forgotten, Waits
<1> QED
  BY <1>1, RequestsSafe, PTL

\* Whatever the host sends: a task that is not between taking reqLock and giving it back
\* holds it only if the last message was a short reply to that task (setConfigInternal).
THEOREM LocksGivenBack == Spec => []LockGivenBack
<1>1. SafeRequests => LockGivenBack
  BY DEF SafeRequests, RequestSafe, LockInUse, GotShortReply, LockGivenBack, TypeOK
<1> QED
  BY <1>1, RequestsSafe, PTL

-----------------------------------------------------------------------------
(* The calls implement RemoteCall *)

\* If one message alone belongs to a call, it is the call's answer.
LEMMA AnswerIsTheOne ==
  ASSUME NEW S, NEW p, NEW m \in S, m.for = p, \A n \in S : n.for = p => n = m
  PROVE  AnswerAmong(S, p) = m.body
<1>1. (CHOOSE n \in S : n.for = p) = m
  OBVIOUS
<1> QED
  BY <1>1 DEF AnswerAmong

LEMMA AnswerOfTwo ==
  ASSUME NEW m, NEW n, NEW p, m.for = p, n.for # p
  PROVE  AnswerAmong({m}, p) = m.body /\ AnswerAmong({m, n}, p) = m.body
<1>1. ASSUME NEW S, m \in S, \A k \in S : k.for = p => k = m
      PROVE  AnswerAmong(S, p) = m.body
  BY <1>1, AnswerIsTheOne
<1>2. \A k \in {m, n} : k.for = p => k = m
  OBVIOUS
<1>3. m \in {m} /\ m \in {m, n} /\ \A k \in {m} : k.for = p => k = m
  OBVIOUS
<1>4. AnswerAmong({m}, p) = m.body
  <2> DEFINE S == {m}
  <2>1. m \in S /\ \A k \in S : k.for = p => k = m
    BY <1>3
  <2> HIDE DEF S
  <2>2. AnswerAmong(S, p) = m.body
    BY <2>1, <1>1
  <2> QED
    BY <2>2 DEF S
<1>5. AnswerAmong({m, n}, p) = m.body
  <2> DEFINE S == {m, n}
  <2>1. m \in S /\ \A k \in S : k.for = p => k = m
    BY <1>2, <1>3
  <2> HIDE DEF S
  <2>2. AnswerAmong(S, p) = m.body
    BY <2>1, <1>1
  <2> QED
    BY <2>2 DEF S
<1> QED
  BY <1>4, <1>5

LEMMA NoAnswer ==
  ASSUME NEW S, NEW p, \A n \in S : n.for # p
  PROVE  AnswerAmong(S, p) = "none"
BY DEF AnswerAmong

\* Before the reply is handled the buffer holds no answer to the call, and once the task
\* has been woken no other message does.
LEMMA AnswerInBuffer ==
  ASSUME SafeRequests, NEW c \in Clients, pc[c] # "waitNotify"
  PROVE  /\ \A m \in inbox : m.for # Current(c)
         /\ rxBuffer.for = Current(c) => AnswerTo(c) = rxBuffer.body
         /\ rxBuffer.for # Current(c) => AnswerTo(c) = "none"
<1>1. \A m \in inbox : m.for # Current(c)
  <2> SUFFICES ASSUME NEW m \in inbox, m.for = Current(c) PROVE FALSE
    OBVIOUS
  <2>1. m.for.task = c
    BY DEF Current
  <2> QED
    BY <2>1 DEF SafeRequests, WireAwaited, Wire, Awaits
<1>2. CASE rxBuffer.for = Current(c)
  <2> DEFINE S == inbox \cup {rxBuffer}
             p == Current(c)
  <2>1. rxBuffer \in S /\ rxBuffer.for = p /\ \A n \in S : n.for = p => n = rxBuffer
    BY <1>1, <1>2
  <2> HIDE DEF S, p
  <2>2. AnswerAmong(S, p) = rxBuffer.body
    BY <2>1, AnswerIsTheOne
  <2> USE DEF S, p
  <2> QED
    BY <1>1, <1>2, <2>2 DEF AnswerTo
<1>3. CASE rxBuffer.for # Current(c)
  BY <1>1, <1>3, NoAnswer DEF AnswerTo
<1> QED
  BY <1>1, <1>2, <1>3

\* What a call promises does not change with a step of another task, or with a step that
\* only leads further into the call.
LEMMA CallKept ==
  ASSUME UNCHANGED <<resType, inbox, rxBuffer>>,
         \A d \in Clients : call'[d] = call[d] /\ (pc'[d] = "idle" <=> pc[d] = "idle"),
         \A d \in Clients : pc[d] = "idle" => status'[d] = status[d]
  PROVE  UNCHANGED Calls!callVars
<1>1. \A d \in Clients : Current(d)' = Current(d)
  BY DEF Current
<1>2. \A d \in Clients : AnswerTo(d)' = AnswerTo(d)
  BY <1>1 DEF AnswerTo
<1>3. {d \in Clients : pc'[d] # "idle"} = {d \in Clients : pc[d] # "idle"}
  OBVIOUS
<1>4. [d \in Clients |-> IF pc'[d] = "idle" THEN "none" ELSE AnswerTo(d)']
        = [d \in Clients |-> IF pc[d] = "idle" THEN "none" ELSE AnswerTo(d)]
  BY <1>2
<1>5. [d \in Clients |-> IF pc'[d] = "idle" THEN status'[d] ELSE "none"]
        = [d \in Clients |-> IF pc[d] = "idle" THEN status[d] ELSE "none"]
  OBVIOUS
<1> QED
  BY <1>3, <1>4, <1>5 DEF Calls!callVars

\* Its task is no longer in the call: the call returns what the reply says, or fails.
LEMMA CallEnds ==
  ASSUME SafeRequests, NEW c \in Clients, OthersKept(c),
         pc[c] \notin {"idle", "waitNotify"}, pc'[c] = "idle",
         UNCHANGED <<callVars, inbox, rxBuffer>>,
         \/ rxBuffer.for # Current(c) /\ status'[c] = "Error"
         \/ /\ rxBuffer.for = Current(c)
            /\ status'[c] = StatusOf(resType[c], rxBuffer.body)
  PROVE  Calls!Return(c) \/ Calls!Fail(c)
<1> DEFINE Answers == [d \in Clients |-> IF pc[d] = "idle" THEN "none" ELSE AnswerTo(d)]
           Returned == [d \in Clients |-> IF pc[d] = "idle" THEN status[d] ELSE "none"]
           Busy == {d \in Clients : pc[d] # "idle"}
<1>1. \A d \in Clients : AnswerTo(d)' = AnswerTo(d)
  BY DEF AnswerTo, Current, callVars
<1>2. Busy' = Busy \ {c} /\ c \in Busy
  BY DEF OthersKept
<1>3. Answers' = [Answers EXCEPT ![c] = "none"]
  BY <1>1 DEF OthersKept
<1>4. Returned' = [Returned EXCEPT ![c] = status'[c]]
  BY DEF OthersKept
<1>5. CASE rxBuffer.for = Current(c)
  <2>1. AnswerTo(c) = rxBuffer.body
    BY <1>5, AnswerInBuffer
  <2>2. rxBuffer.body # "none"
    BY <1>5, ResMgrAssumption
    DEF SafeRequests, TypeOK, Reply, NoReply, AllBodies
  <2>3. status'[c] = StatusOf(resType[c], Answers[c]) /\ Answers[c] # "none"
    BY <1>5, <2>1, <2>2
  <2> HIDE DEF Answers, Returned, Busy
  <2>4. Calls!Return(c)
    BY <1>2, <1>3, <1>4, <2>3 DEF Calls!Return, Answers, Returned, Busy, callVars
  <2> QED
    BY <2>4
<1>6. CASE rxBuffer.for # Current(c)
  <2>1. Answers[c] = "none" /\ status'[c] = "Error"
    BY <1>6, AnswerInBuffer
  <2>2. Answers' = Answers
    BY <1>3, <2>1
  <2>3. Calls!Fail(c)
    BY <1>2, <1>4, <2>1, <2>2 DEF Calls!Fail, callVars
  <2> QED
    BY <2>3
<1> QED
  BY <1>5, <1>6

LEMMA CallBegins ==
  ASSUME SafeRequests, SafeRequests', NEW c \in Clients, NEW r \in ResourceTypes,
         BeginCall(c, r)
  PROVE  Calls!Ask(c, r)
<1> DEFINE Answers == [d \in Clients |-> IF pc[d] = "idle" THEN "none" ELSE AnswerTo(d)]
           Returned == [d \in Clients |-> IF pc[d] = "idle" THEN status[d] ELSE "none"]
           Busy == {d \in Clients : pc[d] # "idle"}
<1>1. PICK step \in {"lock", "reject"} : Finish(c, step, "none")
  BY DEF BeginCall
<1>2. /\ pc[c] = "idle" /\ pc'[c] = step /\ resType' = [resType EXCEPT ![c] = r]
      /\ UNCHANGED <<inbox, rxBuffer>>
      /\ \A d \in Clients \ {c} : pc'[d] = pc[d] /\ call'[d] = call[d] /\ status'[d] = status[d]
  BY <1>1 DEF SafeRequests, BeginCall, At, Finish, Goto, TypeOK
<1>3. AnswerTo(c)' = "none"
  <2>1. rxBuffer'.for # Current(c)'
    BY <1>2 DEF SafeRequests, RequestSafe, NotAnsweredEarly
  <2>2. \A m \in inbox' : m.for # Current(c)'
    <3> SUFFICES ASSUME NEW m \in inbox', m.for = Current(c)' PROVE FALSE
      OBVIOUS
    <3>1. m.for.task = c
      BY DEF Current
    <3> QED
      BY <1>2, <3>1 DEF SafeRequests, WireAwaited, Wire, Awaits
  <2> QED
    BY <2>1, <2>2, NoAnswer DEF AnswerTo
<1>4. \A d \in Clients \ {c} : AnswerTo(d)' = AnswerTo(d)
  BY <1>2 DEF AnswerTo, Current
<1>5. Busy' = Busy \cup {c} /\ c \notin Busy
  BY <1>2
<1>6. Answers' = Answers
  BY <1>2, <1>3, <1>4
<1>7. Returned' = [Returned EXCEPT ![c] = "none"]
  BY <1>2
<1> QED
  BY <1>2, <1>5, <1>6, <1>7 DEF Calls!Ask

\* The host's answer comes to the call that waits for it.
LEMMA CallAnswered ==
  ASSUME SafeRequests, SafeRequests', NEW m \in toHost, NEW body \in Bodies,
         HostAnswers(m, body)
  PROVE  m.for.task \in Clients /\ Calls!Answer(m.for.task, body)
<1> DEFINE w == m.for.task
           n == [for |-> m.for, resType |-> m.resType, body |-> body]
           Answers == [d \in Clients |-> IF pc[d] = "idle" THEN "none" ELSE AnswerTo(d)]
<1>1. /\ w \in Clients /\ m.for = Current(w) /\ pc[w] = "waitNotify"
      /\ rxBuffer.for # Current(w)
  BY DEF SafeRequests, WireAwaited, Wire, Awaits
<1>2. inbox = {} /\ inbox' = {n} /\ UNCHANGED <<pc, call, resType, status, rxBuffer>>
  BY DEF SafeRequests, OneMessage, HostAnswers, callVars
<1>3. AnswerTo(w) = "none"
  BY <1>1, <1>2, NoAnswer DEF AnswerTo
<1>4. \A d \in Clients : AnswerTo(d)' = AnswerAmong({n, rxBuffer}, Current(d))
  BY <1>2 DEF AnswerTo, Current
<1>5. AnswerTo(w)' = body
  <2> DEFINE S == {n, rxBuffer}
             p == Current(w)
  <2>1. n \in S /\ n.for = p /\ n.body = body /\ \A k \in S : k.for = p => k = n
    BY <1>1
  <2> HIDE DEF S, p, n
  <2>2. AnswerAmong(S, p) = body
    BY <2>1, AnswerIsTheOne
  <2> QED
    BY <1>1, <1>4, <2>2 DEF S, p
<1>6. \A d \in Clients \ {w} : AnswerTo(d)' = AnswerTo(d)
  <2> SUFFICES ASSUME NEW d \in Clients \ {w} PROVE AnswerTo(d)' = AnswerTo(d)
    OBVIOUS
  <2>1. n.for # Current(d)
    BY <1>1 DEF Current
  <2>2. CASE rxBuffer.for # Current(d)
    BY <1>2, <1>4, <2>1, <2>2, NoAnswer DEF AnswerTo
  <2>3. CASE rxBuffer.for = Current(d)
    <3>1. {rxBuffer, n} = {n, rxBuffer} /\ {} \cup {rxBuffer} = {rxBuffer}
      OBVIOUS
    <3> HIDE DEF n
    <3>2. /\ AnswerAmong({rxBuffer, n}, Current(d)) = rxBuffer.body
          /\ AnswerAmong({rxBuffer}, Current(d)) = rxBuffer.body
      BY <2>1, <2>3, AnswerOfTwo
    <3> QED
      BY <1>2, <1>4, <3>1, <3>2 DEF AnswerTo
  <2> QED
    BY <2>2, <2>3
<1>7. Answers[w] = "none" /\ Answers' = [Answers EXCEPT ![w] = body]
  BY <1>1, <1>2, <1>3, <1>5, <1>6
<1> QED
  BY <1>1, <1>2, <1>7 DEF Calls!Answer

\* Copying the reply to the buffer overwrites no reply that a call still has to return.
LEMMA ReplyHandled ==
  ASSUME SafeRequests, SafeRequests', NEW m \in inbox, HandleReply(m)
  PROVE  UNCHANGED Calls!callVars
<1> DEFINE w == m.for.task
<1>1. /\ w \in Clients /\ m.for = Current(w) /\ pc[w] = "waitNotify" /\ reqLock = w
      /\ rxBuffer.for # Current(w)
  BY DEF SafeRequests, WireAwaited, Wire, Awaits, RequestSafe, HoldsLock, Locked
<1>2. inbox = {m} /\ inbox' = {} /\ rxBuffer' = m /\ UNCHANGED <<pc, call, resType, status>>
  BY DEF SafeRequests, OneMessage, HandleReply, callVars
<1>3. ASSUME NEW d \in Clients, pc[d] # "idle"
      PROVE  AnswerTo(d)' = AnswerTo(d)
  <2>1. d # w => rxBuffer.for # Current(d)
    <3>1. SUFFICES ASSUME d # w PROVE rxBuffer.for # Current(d)
      OBVIOUS
    <3>2. RequestSafe(d) /\ pc[d] \in Steps
      BY DEF SafeRequests, TypeOK
    <3>3. pc[d] \in {"reject", "lock"}
      BY <1>1, <1>3, <3>1, <3>2 DEF RequestSafe, HoldsLock, Locked, Asking, Steps
    <3> QED
      BY <3>2, <3>3 DEF RequestSafe, NotAnsweredEarly
  <2>2. rxBuffer.for # Current(d)
    BY <1>1, <2>1
  <2>3. AnswerTo(d)' = AnswerAmong({m}, Current(d))
    <3>1. AnswerTo(d)' = AnswerAmong({} \cup {m}, Current(d))
      BY <1>2 DEF AnswerTo, Current
    <3>2. {} \cup {m} = {m}
      OBVIOUS
    <3> QED
      BY <3>1, <3>2
  <2>4. CASE m.for = Current(d)
    <3>1. /\ AnswerAmong({m}, Current(d)) = m.body
          /\ AnswerAmong({m, rxBuffer}, Current(d)) = m.body
      BY <2>2, <2>4, AnswerOfTwo
    <3>2. inbox \cup {rxBuffer} = {m, rxBuffer}
      BY <1>2
    <3> QED
      BY <2>3, <3>1, <3>2 DEF AnswerTo
  <2>5. CASE m.for # Current(d)
    BY <1>2, <2>2, <2>3, <2>5, NoAnswer DEF AnswerTo
  <2> QED
    BY <2>4, <2>5
<1>4. [d \in Clients |-> IF pc'[d] = "idle" THEN "none" ELSE AnswerTo(d)']
        = [d \in Clients |-> IF pc[d] = "idle" THEN "none" ELSE AnswerTo(d)]
  BY <1>2, <1>3
<1> QED
  BY <1>2, <1>4 DEF Calls!callVars

LEMMA ImplementsStep ==
  SafeRequests /\ SafeRequests' /\ [Next]_vars => [Calls!CallNext]_(Calls!callVars)
<1> SUFFICES ASSUME SafeRequests, SafeRequests', [Next]_vars
             PROVE  Calls!CallNext \/ UNCHANGED Calls!callVars
  OBVIOUS
<1> USE DEF SafeRequests
<1>1. ASSUME NEW c \in Clients, NEW r \in ResourceTypes, BeginCall(c, r)
      PROVE  Calls!CallNext
  BY <1>1, CallBegins DEF Calls!CallNext
<1>2. ASSUME NEW c \in Clients, Proceed(c) \/ SendFails(c)
      PROVE  Calls!CallNext \/ UNCHANGED Calls!callVars
  <2>1. CASE RejectCall(c)
    <3>1. /\ pc[c] = "reject" /\ pc'[c] = "idle" /\ status'[c] = "Error" /\ OthersKept(c)
          /\ rxBuffer.for # Current(c) /\ UNCHANGED <<callVars, inbox, rxBuffer>>
      BY <2>1
      DEF RejectCall, At, Finish, Goto, TypeOK, OthersKept, RequestSafe, NotAnsweredEarly,
          callVars
    <3> QED
      BY <3>1, CallEnds DEF Calls!CallNext
  <2>2. CASE GiveLock(c)
    <3>1. /\ pc[c] = "unlock" /\ pc'[c] = "idle" /\ status'[c] = status[c] /\ OthersKept(c)
          /\ UNCHANGED <<callVars, inbox, rxBuffer>>
      BY <2>2 DEF GiveLock, At, Goto, TypeOK, OthersKept, callVars
    <3>2. \/ rxBuffer.for # Current(c) /\ status'[c] = "Error"
          \/ /\ rxBuffer.for = Current(c)
             /\ status'[c] = StatusOf(resType[c], rxBuffer.body)
      BY <3>1 DEF RequestSafe, CodeIsReplys, HasReply
    <3> QED
      BY <3>1, <3>2, CallEnds DEF Calls!CallNext
  <2>3. CASE MeasureReply(c) /\ rxBuffer.body = "short"
    <3>1. /\ pc[c] = "measure" /\ pc'[c] = "idle" /\ status'[c] = "TooSmall" /\ OthersKept(c)
          /\ UNCHANGED <<callVars, inbox, rxBuffer>>
      BY <2>3 DEF MeasureReply, At, Finish, Goto, TypeOK, OthersKept, callVars
    <3>2. rxBuffer.for = Current(c) /\ status'[c] = StatusOf(resType[c], rxBuffer.body)
      BY <2>3, <3>1 DEF RequestSafe, WokenAnswered, HasReply, StatusOf
    <3> QED
      BY <3>1, <3>2, CallEnds DEF Calls!CallNext
  <2>4. CASE \/ TakeLock(c) \/ PrepareRequest(c) \/ CheckRemote(c) \/ AwaitRemote(c)
             \/ SendRequest(c) \/ WakeUp(c) \/ SendFails(c) \/ DecodeResponse(c)
             \/ MeasureReply(c) /\ rxBuffer.body # "short"
    <3>1. /\ UNCHANGED <<resType, inbox, rxBuffer, call>>
          /\ pc[c] # "idle" /\ \E step \in Steps \ {"idle"} : pc' = [pc EXCEPT ![c] = step]
          /\ \A d \in Clients \ {c} : status'[d] = status[d]
      BY <2>4
      DEF TakeLock, PrepareRequest, CheckRemote, AwaitRemote, SendRequest, WakeUp,
          SendFails, SendFailed, DecodeResponse, MeasureReply, At, Finish, Goto, Steps,
          TypeOK, callVars
    <3>2. \A d \in Clients : pc'[d] = "idle" <=> pc[d] = "idle"
      BY <3>1 DEF TypeOK
    <3> QED
      BY <3>1, <3>2, CallKept
  <2> QED
    BY <1>2, <2>1, <2>2, <2>3, <2>4 DEF Proceed
<1>3. CASE HandleOther \/ ForgetWaitingTask \/ UNCHANGED vars
  BY <1>3, CallKept DEF HandleOther, ForgetWaitingTask, vars, callVars
<1>4. ASSUME NEW m \in inbox, HandleReply(m) PROVE UNCHANGED Calls!callVars
  BY <1>4, ReplyHandled
<1>5. ASSUME NEW m \in toHost, NEW body \in Bodies, HostAnswers(m, body)
      PROVE  Calls!CallNext
  BY <1>5, CallAnswered DEF Calls!CallNext
<1> QED
  BY <1>1, <1>2, <1>3, <1>4, <1>5 DEF Next, HandlerStep, HostStep

\* Every call of setConfig returns the status of the host's answer to that very call,
\* and fails only if the host did not answer it (Service over Handler).
THEOREM Implementation == Spec => ImplementsRemoteCall
<1>1. Init => Calls!CallInit
  <2> SUFFICES ASSUME Init PROVE Calls!CallInit
    OBVIOUS
  <2>1. \A c \in Clients : pc[c] = "idle" /\ status[c] = "none"
    BY DEF Init
  <2>2. resType \in [Clients -> ResourceTypes]
    BY DEF Init, ResourceTypes
  <2>3. {c \in Clients : pc[c] # "idle"} = {}
    BY <2>1
  <2> QED
    BY <2>1, <2>2, <2>3 DEF Calls!CallInit
<1> QED
  BY <1>1, ImplementsStep, RequestsSafe, PTL DEF Spec, ImplementsRemoteCall, Calls!CallSpec

=============================================================================
