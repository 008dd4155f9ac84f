--------------------------- MODULE ConfdRpcProofs ---------------------------
(***************************************************************************)
(* Machine-checked proofs about configuration calls, for every number of   *)
(* tasks and calls and every capacity.                                     *)
(***************************************************************************)
EXTENDS ConfdInvariants, FiniteSetTheorems, TLAPS

-----------------------------------------------------------------------------
(* Type correctness *)

LEMMA DeletedBlockType == DeletedBlock \in InfoBlock
  BY ConfdAssumption DEF DeletedBlock, InfoBlock, ConfdAssumption

LEMMA TypeInit == Init => TypeOK /\ TagsAssigned
<1> SUFFICES ASSUME Init PROVE TypeOK /\ TagsAssigned
  OBVIOUS
<1>1. pc \in [Clients -> Steps] /\ call \in [Clients -> Nat] /\ cache \in Nat
  BY DEF Init, Steps
<1>2. type \in [Clients -> MsgTypes] /\ result \in [Clients -> Results]
  BY DEF Init, MsgTypes, Results
<1>3. info \in [Clients -> InfoBlock]
  BY ConfdAssumption DEF Init, InfoBlock, DeletedBlock, ConfdAssumption
<1>4. requests \in [Tags -> Pointer \cup {NoPointer}] /\ nextTag \in 0..MaxTag
  BY ConfdAssumption DEF Init, ConfdAssumption
<1>5. notify \in [Clients -> Slot({kNotifyBit})]
  BY DEF Init, Slot, NoNotification
<1>6. hasReceivedMsg \in BOOLEAN /\ msgRxSem \in BOOLEAN
  BY DEF Init, EP!EndpointInit
<1>7. toHost \subseteq Request /\ inbox \subseteq Reply
  BY DEF Init
<1>8. handler \in HandlerState
  BY DEF Init, HandlerState
<1>9. halted \in Causes
  BY DEF Init, Causes
<1>10. TagsAssigned
  BY DEF Init, TagsAssigned
<1> QED
  BY <1>1, <1>2, <1>3, <1>4, <1>5, <1>6, <1>7, <1>8, <1>9, <1>10 DEF TypeOK

LEMMA TypeStep ==
  ASSUME TypeOK, TagsAssigned, [TimedNext]_vars
  PROVE  TypeOK'
<1> USE DEF TypeOK
<1>1. ASSUME NEW c \in Clients, NEW t \in MsgTypes, BeginCall(c, t)
      PROVE  TypeOK'
  <2>1. pc' \in [Clients -> Steps]
    BY <1>1 DEF BeginCall, EncodeRequest, Goto, Steps
  <2>2. cache' \in Nat
    BY <1>1 DEF BeginCall, TakeBuffer
  <2>3. call' \in [Clients -> Nat] /\ type' \in [Clients -> MsgTypes]
    BY <1>1 DEF BeginCall
  <2>4. result' \in [Clients -> Results]
    BY <1>1 DEF BeginCall, Results
  <2> QED
    BY <1>1, <2>1, <2>2, <2>3, <2>4 DEF BeginCall, endpointVars
<1>2. ASSUME NEW c \in Clients, Proceed(c)
      PROVE  TypeOK'
  <2>1. CASE ReturnWithoutReply(c)
    <3>1. pc' \in [Clients -> Steps]
      BY <2>1 DEF ReturnWithoutReply, DiscardBuffer, Goto, Steps
    <3>2. cache' \in Nat
      BY <2>1 DEF ReturnWithoutReply, DiscardBuffer
    <3>3. halted' \in Causes
      BY <2>1 DEF ReturnWithoutReply, DiscardBuffer, Halt, Causes
    <3>4. result' \in [Clients -> Results]
      BY <2>1 DEF ReturnWithoutReply, Results
    <3> QED
      BY <2>1, <3>1, <3>2, <3>3, <3>4 DEF ReturnWithoutReply, endpointVars
  <2>2. CASE ReturnBuffer(c)
    <3>1. pc' \in [Clients -> Steps]
      BY <2>2 DEF ReturnBuffer, DiscardBuffer, Goto, Steps
    <3>2. cache' \in Nat
      BY <2>2 DEF ReturnBuffer, DiscardBuffer
    <3>3. halted' \in Causes
      BY <2>2 DEF ReturnBuffer, DiscardBuffer, Halt, Causes
    <3> QED
      BY <2>2, <3>1, <3>2, <3>3 DEF ReturnBuffer, endpointVars
  <2>3. CASE Collect(c)
    <3>1. pc' \in [Clients -> Steps]
      BY <2>3 DEF Collect, Goto, Steps
    <3>2. result' \in [Clients -> Results]
      BY <2>3 DEF Collect, StatusOf, Results
    <3>3. info' \in [Clients -> InfoBlock]
      BY <2>3, DeletedBlockType DEF Collect
    <3>4. halted' \in Causes
      BY <2>3 DEF Collect, Halt, Causes
    <3> QED
      BY <2>3, <3>1, <3>2, <3>3, <3>4 DEF Collect, endpointVars
  <2>4. CASE PrepareRequest(c)
    <3>1. pc' \in [Clients -> Steps]
      BY <2>4 DEF PrepareRequest, Goto, Steps
    <3>2. info' \in [Clients -> InfoBlock]
      BY <2>4, DeletedBlockType DEF PrepareRequest, DeletedBlock, InfoBlock
    <3>3. notify' \in [Clients -> Slot({kNotifyBit})]
      BY <2>4 DEF PrepareRequest, WithoutBits, Slot
    <3> QED
      BY <2>4, <3>1, <3>2, <3>3 DEF PrepareRequest, endpointVars
  <2>5. CASE RegisterTag(c)
    <3>1. pc' \in [Clients -> Steps]
      BY <2>5 DEF RegisterTag, Goto, Steps
    <3>2. info' \in [Clients -> InfoBlock]
      <4>1. PICK t \in 0..MaxTag : info' = [info EXCEPT ![c].tag = t]
        BY <2>5 DEF RegisterTag
      <4>2. [info[c] EXCEPT !.tag = t] \in InfoBlock
        BY <4>1 DEF InfoBlock
      <4> QED
        BY <4>1, <4>2
    <3>3. requests' \in [Tags -> Pointer \cup {NoPointer}] /\ nextTag' \in 0..MaxTag
      BY <2>5 DEF RegisterTag, Current, Pointer
    <3>4. halted' \in Causes
      BY <2>5 DEF RegisterTag, Halt, Causes
    <3> QED
      BY <2>5, <3>1, <3>2, <3>3, <3>4 DEF RegisterTag, endpointVars
  <2>6. CASE CheckRemote(c)
    <3>1. pc' \in [Clients -> Steps]
      BY <2>6 DEF CheckRemote, Goto, Steps
    <3> QED
      BY <2>6, <3>1 DEF CheckRemote, endpointVars
  <2>7. CASE AwaitRemote(c)
    <3>1. pc' \in [Clients -> Steps]
      BY <2>7 DEF AwaitRemote, Goto, Steps
    <3> QED
      BY <2>7, <3>1 DEF AwaitRemote, EP!TakeRxSem
  <2>8. CASE SendRequest(c)
    <3>1. pc' \in [Clients -> Steps]
      BY <2>8 DEF SendRequest, Goto, Steps
    <3>2. toHost' \subseteq Request
      BY <2>8 DEF SendRequest, At, TagsAssigned, Request, Current, Pointer
    <3> QED
      BY <2>8, <3>1, <3>2 DEF SendRequest, endpointVars
  <2>9. CASE WakeUp(c)
    <3>1. pc' \in [Clients -> Steps]
      BY <2>9 DEF WakeUp, Goto, Steps
    <3>2. notify' \in [Clients -> Slot({kNotifyBit})]
      BY <2>9 DEF WakeUp, Collected, Slot
    <3> QED
      BY <2>9, <3>1, <3>2 DEF WakeUp, endpointVars
  <2> QED
    BY <1>2, <2>1, <2>2, <2>3, <2>4, <2>5, <2>6, <2>7, <2>8, <2>9 DEF Proceed
<1>3. ASSUME NEW c \in Clients, SendFailed(c)
      PROVE  TypeOK'
  <2>1. pc' \in [Clients -> Steps]
    BY <1>3 DEF SendFailed, Goto, Steps
  <2>2. info' \in [Clients -> InfoBlock]
    BY <1>3, DeletedBlockType DEF SendFailed
  <2> QED
    BY <1>3, <2>1, <2>2 DEF SendFailed, endpointVars
<1>4. ASSUME NEW c \in Clients, GiveUp(c)
      PROVE  TypeOK'
  <2>1. CASE LockTimeout(c) \/ RemoteTimeout(c) \/ WaitTimeout(c)
    <3>1. pc' \in [Clients -> Steps]
      BY <2>1 DEF LockTimeout, RemoteTimeout, WaitTimeout, Goto, Steps
    <3>2. info' \in [Clients -> InfoBlock]
      BY <2>1, DeletedBlockType DEF LockTimeout, RemoteTimeout, WaitTimeout
    <3> QED
      BY <2>1, <3>1, <3>2 DEF LockTimeout, RemoteTimeout, WaitTimeout, endpointVars
  <2>2. CASE Abandon(c)
    <3>1. pc' \in [Clients -> Steps]
      BY <2>2 DEF Abandon, Goto, Steps
    <3>2. info' \in [Clients -> InfoBlock]
      BY <2>2 DEF Abandon, InfoBlock
    <3> QED
      BY <2>2, <3>1, <3>2 DEF Abandon, endpointVars
  <2>3. CASE Withdraw(c)
    <3>1. pc' \in [Clients -> Steps]
      BY <2>3 DEF Withdraw, Goto, Steps
    <3>2. info' \in [Clients -> InfoBlock]
      BY <2>3, DeletedBlockType DEF Withdraw
    <3>3. requests' \in [Tags -> Pointer \cup {NoPointer}]
      BY <2>3 DEF Withdraw
    <3> QED
      BY <2>3, <3>1, <3>2, <3>3 DEF Withdraw, endpointVars
  <2>4. CASE SendTimeout(c)
    BY <1>3, <2>4 DEF SendTimeout
  <2> QED
    BY <1>4, <2>1, <2>2, <2>3, <2>4 DEF GiveUp
<1>5. CASE HandleOther
  BY <1>5 DEF HandleOther, EP!MessageSeen, clientVars
<1>6. ASSUME NEW m \in inbox, HandleReply(m)
      PROVE  TypeOK'
  <2>1. requests' \in [Tags -> Pointer \cup {NoPointer}]
    BY <1>6 DEF HandleReply
  <2>2. handler' \in HandlerState
    <3>1. m \in Reply /\ requests[m.tag] \in Pointer \cup {NoPointer}
      BY DEF Reply
    <3>2. CASE Valid(requests[m.tag])
      <4>1. [step |-> "decode", info |-> requests[m.tag], msg |-> m] \in HandlerState
        BY <3>1, <3>2 DEF HandlerState, Valid
      <4> QED
        BY <1>6, <3>2, <4>1 DEF HandleReply
    <3>3. CASE ~Valid(requests[m.tag])
      BY <1>6, <3>3 DEF HandleReply
    <3> QED
      BY <3>2, <3>3
  <2>3. halted' \in Causes
    BY <1>6 DEF HandleReply, Halt, Causes
  <2>4. inbox' \subseteq Reply
    BY <1>6 DEF HandleReply
  <2>5. hasReceivedMsg' \in BOOLEAN /\ msgRxSem' \in BOOLEAN
    BY <1>6 DEF HandleReply, EP!MessageSeen
  <2> QED
    BY <1>6, <2>1, <2>2, <2>3, <2>4, <2>5 DEF HandleReply, clientVars
<1>7. CASE Decode
  <2>1. info' \in [Clients -> InfoBlock]
    <3>1. handler.msg \in Reply
      BY <1>7 DEF Decode, HandlerState, HandlerIdle
    <3>2. Decoded(handler.msg) \in Response
      BY <3>1 DEF Decoded, Response, Reply
    <3> QED
      BY <1>7, <3>1, <3>2 DEF Decode, InfoBlock, Reply
  <2>2. handler' \in HandlerState
    BY <1>7 DEF Decode, HandlerState, HandlerIdle
  <2>3. halted' \in Causes
    BY <1>7 DEF Decode, Halt, Causes
  <2> QED
    BY <1>7, <2>1, <2>2, <2>3 DEF Decode, clientVars, endpointVars
<1>8. CASE NotifyCaller
  <2>1. notify' \in [Clients -> Slot({kNotifyBit})]
    <3>1. CASE Valid(handler.info)
      <4>1. handler.info.task \in Clients
        BY <1>8, <3>1 DEF NotifyCaller, HandlerState, HandlerIdle, Pointer
      <4>2. WithBits(notify[handler.info.task], {kNotifyBit}) \in Slot({kNotifyBit})
        BY <4>1 DEF WithBits, Slot
      <4> QED
        BY <1>8, <3>1, <4>2 DEF NotifyCaller
    <3>2. CASE ~Valid(handler.info)
      BY <1>8, <3>2 DEF NotifyCaller
    <3> QED
      BY <3>1, <3>2
  <2>2. handler' \in HandlerState
    BY <1>8 DEF NotifyCaller, HandlerState
  <2>3. halted' \in Causes
    BY <1>8 DEF NotifyCaller, Halt, Causes
  <2> QED
    BY <1>8, <2>1, <2>2, <2>3 DEF NotifyCaller, clientVars, endpointVars
<1>9. ASSUME NEW m \in toHost, NEW form \in ReplyForms, HostAnswers(m, form)
      PROVE  TypeOK'
  <2>1. toHost' \subseteq Request
    BY <1>9 DEF HostAnswers
  <2>2. inbox' \subseteq Reply
    BY <1>9, ConfdAssumption DEF HostAnswers, ConfdAssumption, Request, Reply
  <2> QED
    BY <1>9, <2>1, <2>2 DEF HostAnswers, clientVars, endpointVars
<1>10. CASE UNCHANGED vars
  BY <1>10 DEF vars
<1> QED
  BY <1>1, <1>2, <1>3, <1>4, <1>5, <1>6, <1>7, <1>8, <1>9, <1>10
  DEF Next, TimedNext, SendFails, HandlerStep, HostStep

LEMMA TagsAssignedStep ==
  ASSUME TypeOK, TagsAssigned, [TimedNext]_vars
  PROVE  TagsAssigned'
<1> USE DEF TypeOK, TagsAssigned, At, Goto
<1>1. ASSUME NEW c \in Clients, NEW t \in MsgTypes, BeginCall(c, t)
      PROVE  TagsAssigned'
  BY <1>1 DEF BeginCall, EncodeRequest
<1>2. ASSUME NEW c \in Clients, Proceed(c)
      PROVE  TagsAssigned'
  <2>1. CASE ReturnWithoutReply(c)
    BY <2>1 DEF ReturnWithoutReply, DiscardBuffer
  <2>2. CASE ReturnBuffer(c)
    BY <2>2 DEF ReturnBuffer, DiscardBuffer
  <2>3. CASE Collect(c)
    BY <2>3 DEF Collect
  <2>4. CASE PrepareRequest(c)
    BY <2>4 DEF PrepareRequest
  <2>5. CASE RegisterTag(c)
    <3>1. PICK t \in Tags : info' = [info EXCEPT ![c].tag = t]
      BY <2>5 DEF RegisterTag, IsNextTag
    <3>2. \A d \in Clients \ {c} : info'[d].tag = info[d].tag
      BY <3>1
    <3>3. info'[c].tag \in Tags
      BY <3>1 DEF InfoBlock
    <3> QED
      BY <2>5, <3>2, <3>3 DEF RegisterTag
  <2>6. CASE CheckRemote(c)
    BY <2>6 DEF CheckRemote
  <2>7. CASE AwaitRemote(c)
    BY <2>7 DEF AwaitRemote
  <2>8. CASE SendRequest(c)
    BY <2>8 DEF SendRequest
  <2>9. CASE WakeUp(c)
    BY <2>9 DEF WakeUp
  <2> QED
    BY <1>2, <2>1, <2>2, <2>3, <2>4, <2>5, <2>6, <2>7, <2>8, <2>9 DEF Proceed
<1>3. ASSUME NEW c \in Clients, SendFailed(c)
      PROVE  TagsAssigned'
  BY <1>3 DEF SendFailed
<1>4. ASSUME NEW c \in Clients, GiveUp(c)
      PROVE  TagsAssigned'
  BY <1>3, <1>4
  DEF GiveUp, LockTimeout, RemoteTimeout, WaitTimeout, SendTimeout, Abandon, Withdraw
<1>5. CASE HandleOther
  BY <1>5 DEF HandleOther, clientVars
<1>6. ASSUME NEW m \in inbox, HandleReply(m)
      PROVE  TagsAssigned'
  BY <1>6 DEF HandleReply, clientVars
<1>7. CASE Decode
  <2>1. \A d \in Clients : info'[d].tag = info[d].tag
    BY <1>7 DEF Decode, InfoBlock
  <2> QED
    BY <1>7, <2>1 DEF Decode, clientVars
<1>8. CASE NotifyCaller
  BY <1>8 DEF NotifyCaller, clientVars
<1>9. ASSUME NEW m \in toHost, NEW form \in ReplyForms, HostAnswers(m, form)
      PROVE  TagsAssigned'
  BY <1>9 DEF HostAnswers, clientVars
<1>10. CASE UNCHANGED vars
  BY <1>10 DEF vars
<1> QED
  BY <1>1, <1>2, <1>3, <1>4, <1>5, <1>6, <1>7, <1>8, <1>9, <1>10
  DEF Next, TimedNext, SendFails, HandlerStep, HostStep

\* Every reachable state is well typed (all actions of ConfdRpc), whether callers
\* give up or not.
THEOREM TypeCorrect == TimedSpec => []TypeOK
<1>1. Init => TypeOK /\ TagsAssigned
  BY TypeInit
<1>2. TypeOK /\ TagsAssigned /\ [TimedNext]_vars => (TypeOK /\ TagsAssigned)'
  BY TypeStep, TagsAssignedStep
<1> QED
  BY <1>1, <1>2, PTL DEF TimedSpec

-----------------------------------------------------------------------------
(* Calls without a timeout *)

LEMMA SafeInit == Init => SafeCalls
<1> SUFFICES ASSUME Init PROVE SafeCalls
  OBVIOUS
<1>1. \A c \in Clients : CallSafe(c)
  BY DEF Init, CallSafe, BlockLives, OwnsTag, PendingAnswered, WokenAnswered,
         DeletedBlock, NoNotification
<1>2. WireAwaited /\ OneMessagePerCall
  BY DEF Init, WireAwaited, OneMessagePerCall, Wire
<1>3. HandlerAwaited
  BY DEF Init, HandlerIdle, HandlerAwaited
<1>4. NeverCorrupted
  BY DEF Init, NeverCorrupted
<1> QED
  BY TypeInit, <1>1, <1>2, <1>3, <1>4 DEF SafeCalls

\* A step of task c keeps the invariant if c is not waiting, or has been
\* notified, if it touches nothing of the other tasks and no entry in use, and if
\* c's own call stays safe.
LEMMA ClientStep ==
  ASSUME SafeCalls, NEW c \in Clients,
         pc[c] # "waitNotify" \/ notify[c].pending,
         \A d \in Clients \ {c} :
           /\ pc'[d] = pc[d] /\ call'[d] = call[d] /\ type'[d] = type[d]
           /\ info'[d] = info[d] /\ notify'[d] = notify[d],
         \A t \in Tags : requests[t] # NoPointer => requests'[t] = requests[t],
         UNCHANGED <<toHost, inbox, handler>>,
         CallSafe(c)'
  PROVE  /\ \A d \in Clients : CallSafe(d)'
         /\ WireAwaited' /\ OneMessagePerCall' /\ HandlerAwaited'
<1> USE DEF SafeCalls
<1>1. \A d \in Clients \ {c} : CallSafe(d)'
  <2> SUFFICES ASSUME NEW d \in Clients \ {c} PROVE CallSafe(d)'
    OBVIOUS
  <2>1. CallSafe(d)
    OBVIOUS
  <2>2. Current(d)' = Current(d)
    BY DEF Current
  <2>3. BlockLives(d)' /\ PendingAnswered(d)' /\ WokenAnswered(d)'
    BY <2>1, <2>2 DEF CallSafe, BlockLives, PendingAnswered, WokenAnswered, HasItsReply
  <2>4. OwnsTag(d)'
    <3> SUFFICES ASSUME pc[d] \in {"checkRemote", "blockRemote", "send"}
                 PROVE  requests'[info[d].tag] = Current(d)
      BY <2>2 DEF OwnsTag
    <3>1. info[d].tag \in Tags /\ requests[info[d].tag] = Current(d) /\ call[d] # 0
      BY <2>1 DEF TagsAssigned, CallSafe, OwnsTag, BlockLives
    <3> QED
      BY <3>1 DEF Current, NoPointer
  <2> QED
    BY <2>3, <2>4 DEF CallSafe
<1>2. ASSUME NEW d \in Clients, NEW m, Awaits(d, m)
      PROVE  Awaits(d, m)' /\ m.info # NoPointer
  <2>1. d # c
    BY <1>2 DEF Awaits
  <2>2. call[d] # 0
    BY <1>2 DEF Awaits, CallSafe, BlockLives
  <2> QED
    BY <1>2, <2>1, <2>2 DEF Awaits, Current, NoPointer
<1>3. WireAwaited'
  <2> SUFFICES ASSUME NEW m \in Wire
               PROVE  requests'[m.tag] = m.info /\ Awaits(m.info.task, m)'
    BY DEF WireAwaited, Wire
  <2>1. requests[m.tag] = m.info /\ Awaits(m.info.task, m)
    BY DEF WireAwaited
  <2>2. m.info.task \in Clients
    BY <2>1 DEF Awaits
  <2>3. Awaits(m.info.task, m)' /\ m.info # NoPointer
    BY <2>1, <2>2, <1>2
  <2>4. m.tag \in Tags
    BY DEF TypeOK, Wire, Request, Reply
  <2> QED
    BY <2>1, <2>3, <2>4
<1>4. OneMessagePerCall'
  BY DEF OneMessagePerCall
<1>5. HandlerAwaited'
  <2> SUFFICES ASSUME handler.step # "idle"
               PROVE  /\ handler.msg.info = handler.info
                      /\ Awaits(handler.info.task, handler.msg)'
                      /\ \A m \in Wire : m.info # handler.info
                      /\ handler.step = "notify" => HasItsReply(handler.info.task)'
    BY DEF HandlerAwaited, Wire
  <2>1. Awaits(handler.info.task, handler.msg)
    BY DEF HandlerAwaited
  <2>2. handler.info.task \in Clients \ {c}
    BY <2>1 DEF Awaits
  <2>3. HasItsReply(handler.info.task) => HasItsReply(handler.info.task)'
    BY <2>2 DEF HasItsReply, Current
  <2> QED
    BY <2>1, <2>2, <2>3, <1>2 DEF HandlerAwaited
<1> QED
  BY <1>1, <1>3, <1>4, <1>5

\* One step of a task's own call.
LEMMA ClientKeepsSafe ==
  ASSUME SafeCalls, NEW c \in Clients,
         (\E t \in MsgTypes : BeginCall(c, t)) \/ Proceed(c) \/ SendFails(c)
  PROVE  /\ \A d \in Clients : CallSafe(d)'
         /\ WireAwaited' /\ OneMessagePerCall' /\ HandlerAwaited' /\ NeverCorrupted'
<1> USE DEF SafeCalls, TypeOK, At, Goto
<1> DEFINE Goal == /\ \A d \in Clients : CallSafe(d)'
                   /\ WireAwaited' /\ OneMessagePerCall' /\ HandlerAwaited'
                   /\ NeverCorrupted'
           Undisturbed ==
             /\ \A d \in Clients \ {c} :
                  /\ pc'[d] = pc[d] /\ call'[d] = call[d] /\ type'[d] = type[d]
                  /\ info'[d] = info[d] /\ notify'[d] = notify[d]
             /\ \A t \in Tags : requests[t] # NoPointer => requests'[t] = requests[t]
             /\ UNCHANGED <<toHost, inbox, handler>>
<1>0. CallSafe(c)
  OBVIOUS
<1>a. ASSUME pc[c] # "waitNotify" \/ notify[c].pending, Undisturbed, CallSafe(c)',
             NeverCorrupted'
      PROVE  Goal
  BY <1>a, ClientStep
<1>1. ASSUME NEW t \in MsgTypes, BeginCall(c, t) PROVE Goal
  <2>1. CallSafe(c)'
    BY <1>0, <1>1 DEF BeginCall, EncodeRequest, CallSafe, BlockLives, OwnsTag,
                      PendingAnswered, WokenAnswered
  <2>2. Undisturbed /\ NeverCorrupted'
    BY <1>1 DEF BeginCall, EncodeRequest, NeverCorrupted
  <2> QED
    BY <1>1, <2>1, <2>2, <1>a DEF BeginCall
<1>2. CASE ReturnWithoutReply(c)
  <2>1. CallSafe(c)'
    BY <1>0, <1>2 DEF ReturnWithoutReply, DiscardBuffer, CallSafe, BlockLives, OwnsTag,
                      PendingAnswered, WokenAnswered
  <2>2. Undisturbed /\ NeverCorrupted'
    BY <1>2 DEF ReturnWithoutReply, DiscardBuffer, Halt, NeverCorrupted
  <2> QED
    BY <1>2, <2>1, <2>2, <1>a DEF ReturnWithoutReply
<1>3. CASE ReturnBuffer(c)
  <2>1. CallSafe(c)'
    BY <1>0, <1>3 DEF ReturnBuffer, DiscardBuffer, CallSafe, BlockLives, OwnsTag,
                      PendingAnswered, WokenAnswered, HasItsReply, Current
  <2>2. Undisturbed /\ NeverCorrupted'
    BY <1>3 DEF ReturnBuffer, DiscardBuffer, Halt, NeverCorrupted
  <2> QED
    BY <1>3, <2>1, <2>2, <1>a DEF ReturnBuffer
<1>4. CASE Collect(c)
  <2>0. info[c].response.type = type[c]
    BY <1>0, <1>4 DEF Collect, CallSafe, WokenAnswered, HasItsReply
  <2>1. CallSafe(c)'
    BY <1>0, <1>4, <2>0 DEF Collect, CallSafe, BlockLives, OwnsTag, PendingAnswered,
                            WokenAnswered, DeletedBlock
  <2>2. Undisturbed /\ NeverCorrupted'
    BY <1>4, <2>0 DEF Collect, NeverCorrupted
  <2> QED
    BY <1>4, <2>1, <2>2, <1>a DEF Collect
<1>5. CASE PrepareRequest(c)
  <2>1. ~notify'[c].pending
    BY <1>0, <1>5 DEF PrepareRequest, WithoutBits, CallSafe, PendingAnswered, Slot
  <2>2. info'[c].live /\ ~info'[c].abandoned
    BY <1>5 DEF PrepareRequest, DeletedBlock
  <2>3. CallSafe(c)'
    BY <1>0, <1>5, <2>1, <2>2 DEF PrepareRequest, CallSafe, BlockLives, OwnsTag,
                                  PendingAnswered, WokenAnswered
  <2>4. Undisturbed /\ NeverCorrupted'
    BY <1>5 DEF PrepareRequest, NeverCorrupted
  <2> QED
    BY <1>5, <2>3, <2>4, <1>a DEF PrepareRequest
<1>6. CASE RegisterTag(c)
  <2>1. PICK t \in Tags \ Registered :
          /\ info' = [info EXCEPT ![c].tag = t]
          /\ \/ /\ requests' = [requests EXCEPT ![t] = Current(c)]
                /\ pc' = [pc EXCEPT ![c] = "checkRemote"]
                /\ UNCHANGED halted
             \/ UNCHANGED <<requests, pc>> /\ halted' = "requestsFull"
    BY <1>6 DEF RegisterTag, IsNextTag, Halt
  <2>2. info'[c].live = info[c].live /\ info'[c].abandoned = info[c].abandoned
        /\ info'[c].response = info[c].response /\ info'[c].tag = t
    BY <2>1 DEF InfoBlock
  <2>3. CallSafe(c)'
    <3>1. BlockLives(c)' /\ PendingAnswered(c)' /\ WokenAnswered(c)'
      BY <1>0, <1>6, <2>1, <2>2 DEF RegisterTag, CallSafe, BlockLives, PendingAnswered,
                                    WokenAnswered
    <3>2. OwnsTag(c)'
      BY <1>6, <2>1, <2>2 DEF RegisterTag, OwnsTag, Current
    <3> QED
      BY <3>1, <3>2 DEF CallSafe
  <2>4. Undisturbed /\ NeverCorrupted'
    BY <1>6, <2>1 DEF RegisterTag, NeverCorrupted, Registered
  <2> QED
    BY <1>6, <2>3, <2>4, <1>a DEF RegisterTag
<1>7. CASE CheckRemote(c)
  <2>1. CallSafe(c)'
    BY <1>0, <1>7 DEF CheckRemote, CallSafe, BlockLives, OwnsTag, PendingAnswered,
                      WokenAnswered, Current
  <2>2. Undisturbed /\ NeverCorrupted'
    BY <1>7 DEF CheckRemote, NeverCorrupted
  <2> QED
    BY <1>7, <2>1, <2>2, <1>a DEF CheckRemote
<1>8. CASE AwaitRemote(c)
  <2>1. CallSafe(c)'
    BY <1>0, <1>8 DEF AwaitRemote, CallSafe, BlockLives, OwnsTag, PendingAnswered,
                      WokenAnswered, Current
  <2>2. Undisturbed /\ NeverCorrupted'
    BY <1>8 DEF AwaitRemote, NeverCorrupted
  <2> QED
    BY <1>8, <2>1, <2>2, <1>a DEF AwaitRemote
<1>9. CASE SendRequest(c)
  <2> DEFINE new == [tag |-> info[c].tag, info |-> Current(c), type |-> type[c]]
  <2>1. /\ toHost' = toHost \cup {new}
        /\ pc' = [pc EXCEPT ![c] = "waitNotify"]
        /\ UNCHANGED <<call, type, info, requests, notify, inbox, handler, halted>>
        /\ pc[c] = "send" /\ handler.step = "idle"
    BY <1>9 DEF SendRequest
  <2>2. ~notify[c].pending /\ requests[new.tag] = new.info
    BY <1>0, <2>1 DEF CallSafe, PendingAnswered, OwnsTag
  <2>3. \A d \in Clients : CallSafe(d)'
    BY <2>1 DEF CallSafe, BlockLives, OwnsTag, PendingAnswered, WokenAnswered,
                HasItsReply, Current
  <2>4. \A m \in Wire : m.info.task # c /\ m.info # new.info
    BY <2>1 DEF WireAwaited, Awaits, Current
  <2>5. \A m \in Wire : Awaits(m.info.task, m)'
    BY <2>1, <2>4 DEF WireAwaited, Awaits, Current
  <2>6. Awaits(c, new)'
    BY <2>1, <2>2 DEF Awaits, Current
  <2>7. WireAwaited'
    BY <2>1, <2>2, <2>5, <2>6 DEF WireAwaited, Wire, Current
  <2>8. OneMessagePerCall'
    BY <2>1, <2>4 DEF OneMessagePerCall, Wire
  <2>9. HandlerAwaited' /\ NeverCorrupted'
    BY <2>1 DEF HandlerAwaited, NeverCorrupted
  <2> QED
    BY <2>3, <2>7, <2>8, <2>9
<1>10. CASE WakeUp(c)
  <2>1. ~notify'[c].pending
    BY <1>10 DEF WakeUp, Collected, Slot
  <2>2. CallSafe(c)'
    BY <1>0, <1>10, <2>1 DEF WakeUp, CallSafe, BlockLives, OwnsTag, PendingAnswered,
                             WokenAnswered, HasItsReply, Current
  <2>3. Undisturbed /\ NeverCorrupted'
    BY <1>10 DEF WakeUp, NeverCorrupted
  <2> QED
    BY <1>10, <2>2, <2>3, <1>a DEF WakeUp
<1>11. CASE SendFails(c)
  <2>1. CallSafe(c)'
    BY <1>0, <1>11 DEF SendFails, SendFailed, CallSafe, BlockLives, OwnsTag, PendingAnswered,
                       WokenAnswered, DeletedBlock
  <2>2. Undisturbed /\ NeverCorrupted'
    BY <1>11 DEF SendFails, SendFailed, NeverCorrupted
  <2> QED
    BY <1>11, <2>1, <2>2, <1>a DEF SendFails, SendFailed
<1> QED
  BY <1>1, <1>2, <1>3, <1>4, <1>5, <1>6, <1>7, <1>8, <1>9, <1>10, <1>11
  DEF Proceed

\* One step of the message handler task or of the host.
LEMMA HandlerKeepsSafe ==
  ASSUME SafeCalls, HandleOther \/ HandlerStep \/ HostStep
  PROVE  /\ \A d \in Clients : CallSafe(d)'
         /\ WireAwaited' /\ OneMessagePerCall' /\ HandlerAwaited' /\ NeverCorrupted'
<1> USE DEF SafeCalls, TypeOK
<1> DEFINE Goal == /\ \A d \in Clients : CallSafe(d)'
                   /\ WireAwaited' /\ OneMessagePerCall' /\ HandlerAwaited'
                   /\ NeverCorrupted'
\* A task that waits has a live block, so a pointer to it may be dereferenced.
<1>a. ASSUME NEW d \in Clients, NEW m, Awaits(d, m)
      PROVE  Valid(m.info) /\ ~info[d].abandoned /\ m.info # NoPointer /\ m.info.task = d
  <2>1. info[d].live /\ call[d] # 0 /\ ~info[d].abandoned
    BY <1>a DEF Awaits, CallSafe, BlockLives
  <2> QED
    BY <1>a, <2>1 DEF Awaits, Valid, Current, NoPointer
<1>1. CASE HandleOther
  BY <1>1 DEF HandleOther, clientVars, CallSafe, BlockLives, OwnsTag, PendingAnswered,
              WokenAnswered, HasItsReply, Current, WireAwaited, Awaits, Wire,
              OneMessagePerCall, HandlerAwaited, NeverCorrupted
<1>2. ASSUME NEW m \in inbox, HandleReply(m) PROVE Goal
  <2> DEFINE d == m.info.task
  <2>1. requests[m.tag] = m.info /\ Awaits(d, m)
    BY DEF WireAwaited, Wire
  <2>2. d \in Clients /\ Valid(m.info) /\ ~info[d].abandoned /\ m.info # NoPointer
    BY <2>1, <1>a DEF Awaits
  <2>3. /\ inbox' = inbox \ {m}
        /\ requests' = [requests EXCEPT ![m.tag] = NoPointer]
        /\ handler' = [step |-> "decode", info |-> m.info, msg |-> m]
        /\ UNCHANGED <<clientVars, info, notify, toHost, halted>>
    BY <1>2, <2>1, <2>2 DEF HandleReply
  <2>4. \A n \in (toHost \cup inbox) \ {m} : n.info # m.info
    BY DEF OneMessagePerCall
  <2>5. \A n \in (toHost \cup inbox) \ {m} : n.tag # m.tag
    BY <2>1, <2>4 DEF WireAwaited, Wire
  <2>6. \A c \in Clients : CallSafe(c)'
    <3> SUFFICES ASSUME NEW c \in Clients PROVE CallSafe(c)'
      OBVIOUS
    <3>1. CallSafe(c)
      OBVIOUS
    <3>2. BlockLives(c)' /\ PendingAnswered(c)' /\ WokenAnswered(c)'
      BY <2>3, <3>1 DEF clientVars, CallSafe, BlockLives, PendingAnswered, WokenAnswered,
                        HasItsReply, Current
    <3>3. OwnsTag(c)'
      <4> SUFFICES ASSUME pc[c] \in {"checkRemote", "blockRemote", "send"}
                   PROVE  requests'[info[c].tag] = Current(c)
        BY <2>3 DEF OwnsTag, clientVars, Current
      <4>1. requests[info[c].tag] = Current(c)
        BY <3>1 DEF CallSafe, OwnsTag
      <4>2. info[c].tag # m.tag
        BY <2>1, <4>1 DEF Awaits, Current
      <4> QED
        BY <2>3, <4>1, <4>2
    <3> QED
      BY <3>2, <3>3 DEF CallSafe
  <2>7. WireAwaited'
    BY <2>3, <2>5 DEF WireAwaited, Wire, Awaits, Current, clientVars, Request, Reply
  <2>8. OneMessagePerCall'
    BY <2>3 DEF OneMessagePerCall
  <2>9. HandlerAwaited'
    <3>1. handler'.step = "decode" /\ handler'.info = m.info /\ handler'.msg = m
      BY <2>3
    <3>2. Awaits(d, m)'
      BY <2>1, <2>3 DEF Awaits, Current, clientVars
    <3>3. \A n \in Wire' : n.info # m.info
      BY <2>3, <2>4 DEF Wire, clientVars, OneMessagePerCall
    <3> QED
      BY <3>1, <3>2, <3>3 DEF HandlerAwaited, Awaits, Current
  <2>10. NeverCorrupted'
    BY <2>3 DEF NeverCorrupted
  <2> QED
    BY <2>6, <2>7, <2>8, <2>9, <2>10
<1>3. CASE Decode
  <2> DEFINE d == handler.info.task
  <2>1. /\ handler.step = "decode" /\ handler.msg.info = handler.info
        /\ Awaits(d, handler.msg)
        /\ \A m \in Wire : m.info # handler.info
        /\ handler.msg \in Reply
    BY <1>3 DEF Decode, HandlerAwaited, HandlerState, HandlerIdle
  <2>2. d \in Clients /\ Valid(handler.info)
    BY <2>1, <1>a DEF Awaits
  <2>3. /\ info' = [info EXCEPT ![d].response = Decoded(handler.msg),
                                ![d].error = ~handler.msg.decodes]
        /\ handler' = [handler EXCEPT !.step = "notify"]
        /\ UNCHANGED <<clientVars, requests, notify, toHost, inbox, halted>>
    BY <1>3, <2>2 DEF Decode
  <2>4. \A c \in Clients \ {d} : info'[c] = info[c]
    BY <2>3
  <2>5. /\ info'[d].response = Decoded(handler.msg)
        /\ info'[d].live = info[d].live /\ info'[d].abandoned = info[d].abandoned
        /\ info'[d].tag = info[d].tag
    BY <2>2, <2>3 DEF InfoBlock
  <2>6. HasItsReply(d)'
    BY <2>1, <2>3, <2>5 DEF HasItsReply, Decoded, Awaits, Current, clientVars
  <2>7. \A c \in Clients : CallSafe(c)'
    BY <2>1, <2>3, <2>4, <2>5, <2>6
    DEF CallSafe, BlockLives, OwnsTag, PendingAnswered, WokenAnswered, HasItsReply,
        Current, clientVars
  <2>8. WireAwaited' /\ OneMessagePerCall'
    BY <2>3 DEF WireAwaited, OneMessagePerCall, Wire, Awaits, Current, clientVars
  <2>9. HandlerAwaited'
    <3>1. handler'.info = handler.info /\ handler'.msg = handler.msg
      BY <2>1, <2>3 DEF HandlerState, HandlerIdle
    <3> QED
      BY <2>1, <2>3, <2>6, <3>1 DEF HandlerAwaited, Wire, Awaits, Current, clientVars
  <2>10. NeverCorrupted'
    BY <2>3 DEF NeverCorrupted
  <2> QED
    BY <2>7, <2>8, <2>9, <2>10
<1>4. CASE NotifyCaller
  <2> DEFINE d == handler.info.task
  <2>1. /\ handler.msg.info = handler.info
        /\ Awaits(d, handler.msg)
        /\ \A m \in Wire : m.info # handler.info
        /\ HasItsReply(d)
    BY <1>4 DEF NotifyCaller, HandlerAwaited
  <2>2. d \in Clients /\ Valid(handler.info)
    BY <2>1, <1>a DEF Awaits
  <2>3. /\ notify' = [notify EXCEPT ![d] = WithBits(@, {kNotifyBit})]
        /\ handler' = HandlerIdle
        /\ UNCHANGED <<clientVars, info, requests, toHost, inbox, halted>>
    BY <1>4, <2>2 DEF NotifyCaller
  <2>4. \A m \in Wire : m.info.task # d
    BY <2>1 DEF WireAwaited, Awaits, Current
  <2>5. \A c \in Clients : CallSafe(c)'
    BY <2>1, <2>2, <2>3
    DEF CallSafe, BlockLives, OwnsTag, PendingAnswered, WokenAnswered, HasItsReply,
        Current, clientVars, Awaits
  <2>6. WireAwaited'
    BY <2>3, <2>4 DEF WireAwaited, Wire, Awaits, Current, clientVars
  <2>7. OneMessagePerCall' /\ HandlerAwaited' /\ NeverCorrupted'
    BY <2>3 DEF OneMessagePerCall, HandlerAwaited, HandlerIdle, NeverCorrupted
  <2> QED
    BY <2>5, <2>6, <2>7
<1>5. ASSUME NEW m \in toHost, NEW form \in ReplyForms, HostAnswers(m, form) PROVE Goal
  <2> DEFINE reply == [tag |-> m.tag, info |-> m.info, type |-> m.type,
                       body |-> form.body, decodes |-> form.decodes]
  <2>1. /\ toHost' = toHost \ {m} /\ inbox' = inbox \cup {reply}
        /\ UNCHANGED <<clientVars, info, requests, notify, handler, halted>>
    BY <1>5 DEF HostAnswers
  <2>2. requests[m.tag] = m.info /\ Awaits(m.info.task, m)
    BY DEF WireAwaited, Wire
  <2>3. Awaits(m.info.task, reply)
    BY <2>2 DEF Awaits
  <2>4. \A c \in Clients : CallSafe(c)'
    BY <2>1 DEF CallSafe, BlockLives, OwnsTag, PendingAnswered, WokenAnswered,
                HasItsReply, Current, clientVars
  <2>5. WireAwaited'
    BY <2>1, <2>2, <2>3 DEF WireAwaited, Wire, Awaits, Current, clientVars
  <2>6. OneMessagePerCall'
    BY <2>1 DEF OneMessagePerCall
  <2>7. HandlerAwaited'
    BY <2>1 DEF HandlerAwaited, Wire, Awaits, HasItsReply, Current, clientVars
  <2>8. NeverCorrupted'
    BY <2>1 DEF NeverCorrupted
  <2> QED
    BY <2>4, <2>5, <2>6, <2>7, <2>8
<1> QED
  BY <1>1, <1>2, <1>3, <1>4, <1>5 DEF HandlerStep, HostStep

LEMMA SafeStep == SafeCalls /\ [Next]_vars => SafeCalls'
<1> SUFFICES ASSUME SafeCalls, [Next]_vars PROVE SafeCalls'
  OBVIOUS
<1>1. TypeOK' /\ TagsAssigned'
  BY TypeStep, TagsAssignedStep DEF SafeCalls, TimedNext
<1>2. ASSUME NEW c \in Clients,
             (\E t \in MsgTypes : BeginCall(c, t)) \/ Proceed(c) \/ SendFails(c)
      PROVE  SafeCalls'
  BY <1>1, <1>2, ClientKeepsSafe DEF SafeCalls
<1>3. CASE HandleOther \/ HandlerStep \/ HostStep
  BY <1>1, <1>3, HandlerKeepsSafe DEF SafeCalls
<1>4. CASE UNCHANGED vars
  <2> USE <1>4 DEF vars, SafeCalls
  <2>1. \A c \in Clients : CallSafe(c)'
    BY DEF CallSafe, BlockLives, OwnsTag, PendingAnswered, WokenAnswered, HasItsReply,
           Current
  <2>2. WireAwaited' /\ OneMessagePerCall'
    BY DEF WireAwaited, Awaits, Current, Wire, OneMessagePerCall
  <2>3. HandlerAwaited'
    BY DEF HandlerAwaited, Awaits, HasItsReply, Current, Wire
  <2>4. NeverCorrupted'
    BY DEF NeverCorrupted
  <2> QED
    BY <1>1, <2>1, <2>2, <2>3, <2>4
<1> QED
  BY <1>2, <1>3, <1>4 DEF Next

\* The inductive invariant: without timeouts every call is in one of the phases
\* that ConfdInvariants describes.
THEOREM CallsSafe == Spec => []SafeCalls
<1> QED
  BY SafeInit, SafeStep, PTL DEF Spec

\* handleResponse never touches a deleted InfoBlock when calls have no timeout.
THEOREM BlocksOutliveReplies == Spec => []NoUseAfterFree
<1>1. SafeCalls => NoUseAfterFree
  BY DEF SafeCalls, NeverCorrupted, NoUseAfterFree
<1> QED
  BY <1>1, CallsSafe, PTL

\* A woken caller finds the reply to its own request in its block, and the REQUIRE
\* in getCommon and setCommon holds, when calls have no timeout.
THEOREM RepliesReachTheirCallers == Spec => []CallerGetsItsReply
<1>1. SafeCalls => CallerGetsItsReply
  BY DEF SafeCalls, NeverCorrupted, CallerGetsItsReply, CallSafe, WokenAnswered,
         HasItsReply
<1> QED
  BY <1>1, CallsSafe, PTL

\* The tag of a travelling message leads to the block of the call it belongs to
\* (the tag loop in sendRequestAndBlock, the lookup in handleResponse), although
\* the tag counter wraps and failed sends leave their entries behind.
THEOREM TagsResolveAlways == Spec => []TagsResolve
<1>1. SafeCalls => TagsResolve
  <2> SUFFICES ASSUME SafeCalls, NEW m \in toHost \cup inbox
               PROVE  /\ requests[m.tag] = m.info
                      /\ Valid(m.info)
                      /\ pc[m.info.task] = "waitNotify"
    BY DEF TagsResolve
  <2>1. requests[m.tag] = m.info /\ Awaits(m.info.task, m)
    BY DEF SafeCalls, WireAwaited, Wire
  <2>2. info[m.info.task].live /\ call[m.info.task] # 0
    BY <2>1 DEF SafeCalls, Awaits, CallSafe, BlockLives
  <2> QED
    BY <2>1, <2>2 DEF Awaits, Valid, Current, NoPointer
<1> QED
  BY <1>1, CallsSafe, PTL

-----------------------------------------------------------------------------
(* Pools: packet buffers *)

\* The tasks that hold a buffer, after a step of task c.
LEMMA HoldersChange ==
  ASSUME IsFiniteSet(Clients), NEW c \in Clients,
         \A d \in Clients \ {c} : pc'[d] = pc[d]
  PROVE  /\ Cardinality(BufferHolders) \in Nat
         /\ pc'[c] \notin {"idle", "collect"} /\ pc[c] \in {"idle", "collect"} =>
              Cardinality(BufferHolders)' = Cardinality(BufferHolders) + 1
         /\ pc'[c] \in {"idle", "collect"} /\ pc[c] \notin {"idle", "collect"} =>
              Cardinality(BufferHolders)' = Cardinality(BufferHolders) - 1
         /\ (pc'[c] \in {"idle", "collect"} <=> pc[c] \in {"idle", "collect"}) =>
              Cardinality(BufferHolders)' = Cardinality(BufferHolders)
<1>1. BufferHolders \subseteq Clients
  BY DEF BufferHolders
<1>2. IsFiniteSet(BufferHolders) /\ Cardinality(BufferHolders) \in Nat
  BY <1>1, FS_Subset, FS_CardinalityType
<1>3. ASSUME pc'[c] \notin {"idle", "collect"}, pc[c] \in {"idle", "collect"}
      PROVE  Cardinality(BufferHolders)' = Cardinality(BufferHolders) + 1
  <2>1. BufferHolders' = BufferHolders \cup {c} /\ c \notin BufferHolders
    BY <1>3 DEF BufferHolders
  <2> QED
    BY <1>2, <2>1, FS_AddElement
<1>4. ASSUME pc'[c] \in {"idle", "collect"}, pc[c] \notin {"idle", "collect"}
      PROVE  Cardinality(BufferHolders)' = Cardinality(BufferHolders) - 1
  <2>1. BufferHolders' = BufferHolders \ {c} /\ c \in BufferHolders
    BY <1>4 DEF BufferHolders
  <2> QED
    BY <1>2, <2>1, FS_RemoveElement
<1>5. ASSUME pc'[c] \in {"idle", "collect"} <=> pc[c] \in {"idle", "collect"}
      PROVE  Cardinality(BufferHolders)' = Cardinality(BufferHolders)
  <2>1. BufferHolders' = BufferHolders
    BY <1>5 DEF BufferHolders
  <2> QED
    BY <2>1
<1> QED
  BY <1>2, <1>3, <1>4, <1>5

LEMMA BuffersStep ==
  ASSUME IsFiniteSet(Clients), Cardinality(Clients) <= kMaxPacketBuffers,
         TypeOK, BuffersFit, halted # "cacheFull", [TimedNext]_vars
  PROVE  BuffersFit' /\ halted' # "cacheFull"
<1> USE DEF TypeOK, At, Goto, Halt
<1>a. /\ Cardinality(Clients) \in Nat /\ kMaxPacketBuffers \in Nat
      /\ Cardinality(BufferHolders) \in Nat
  <2>1. BufferHolders \subseteq Clients
    BY DEF BufferHolders
  <2> QED
    BY <2>1, FS_Subset, FS_CardinalityType, ConfdAssumption DEF ConfdAssumption
<1>1. ASSUME NEW c \in Clients, NEW t \in MsgTypes, BeginCall(c, t)
      PROVE  BuffersFit' /\ halted' # "cacheFull"
  <2>1. /\ \A d \in Clients \ {c} : pc'[d] = pc[d]
        /\ pc[c] = "idle" /\ pc'[c] \in {"prepare", "discard"}
        /\ halted' = halted /\ cache' = IF cache = 0 THEN 0 ELSE cache - 1
    BY <1>1 DEF BeginCall, EncodeRequest, TakeBuffer
  <2>2. Cardinality(BufferHolders)' = Cardinality(BufferHolders) + 1
    BY <2>1, HoldersChange
  <2>3. Cardinality(BufferHolders)' <= Cardinality(Clients)
    <3>1. BufferHolders' \subseteq Clients
      BY DEF BufferHolders
    <3> QED
      BY <3>1, FS_Subset
  <2> QED
    BY <1>a, <2>1, <2>2, <2>3 DEF BuffersFit
<1>2. ASSUME NEW c \in Clients, ReturnWithoutReply(c) \/ ReturnBuffer(c)
      PROVE  BuffersFit' /\ halted' # "cacheFull"
  <2>1. PICK next \in {"idle", "collect"} : DiscardBuffer(c, next)
    BY <1>2 DEF ReturnWithoutReply, ReturnBuffer
  <2>2. pc[c] \notin {"idle", "collect"} /\ c \in BufferHolders
    BY <1>2 DEF ReturnWithoutReply, ReturnBuffer, BufferHolders
  <2>3. Cardinality(BufferHolders) # 0
    <3>1. IsFiniteSet(BufferHolders)
      BY FS_Subset DEF BufferHolders
    <3> QED
      BY <2>2, <3>1, FS_EmptySet
  <2>4. cache < kMaxPacketBuffers
    BY <1>a, <2>3 DEF BuffersFit
  <2>5. /\ cache' = cache + 1 /\ pc'[c] = next /\ UNCHANGED halted
        /\ \A d \in Clients \ {c} : pc'[d] = pc[d]
    BY <1>a, <2>1, <2>4 DEF DiscardBuffer
  <2>6. Cardinality(BufferHolders)' = Cardinality(BufferHolders) - 1
    BY <2>2, <2>5, HoldersChange
  <2> QED
    BY <1>a, <2>5, <2>6 DEF BuffersFit
<1>3. ASSUME NEW c \in Clients,
             \/ Collect(c) \/ PrepareRequest(c) \/ RegisterTag(c) \/ CheckRemote(c)
             \/ AwaitRemote(c) \/ SendRequest(c) \/ WakeUp(c) \/ SendFails(c) \/ GiveUp(c)
      PROVE  BuffersFit' /\ halted' # "cacheFull"
  <2>1. /\ \A d \in Clients \ {c} : pc'[d] = pc[d]
        /\ pc'[c] \in {"idle", "collect"} <=> pc[c] \in {"idle", "collect"}
    BY <1>3
    DEF Collect, PrepareRequest, RegisterTag, CheckRemote, AwaitRemote, SendRequest, WakeUp,
        SendFails, GiveUp, LockTimeout, RemoteTimeout, SendTimeout, SendFailed, WaitTimeout,
        Abandon, Withdraw
  <2>2. cache' = cache /\ halted' # "cacheFull"
    BY <1>3
    DEF Collect, PrepareRequest, RegisterTag, CheckRemote, AwaitRemote, SendRequest, WakeUp,
        SendFails, GiveUp, LockTimeout, RemoteTimeout, SendTimeout, SendFailed, WaitTimeout,
        Abandon, Withdraw
  <2> QED
    BY <2>1, <2>2, HoldersChange DEF BuffersFit
<1>4. CASE HandleOther \/ HandlerStep \/ HostStep \/ UNCHANGED vars
  <2>1. pc' = pc /\ cache' = cache /\ halted' # "cacheFull"
    BY <1>4 DEF HandleOther, HandlerStep, HandleReply, Decode, NotifyCaller, HostStep,
                HostAnswers, vars, clientVars
  <2>2. BufferHolders' = BufferHolders
    BY <2>1 DEF BufferHolders
  <2> QED
    BY <2>1, <2>2 DEF BuffersFit
<1> QED
  BY <1>1, <1>2, <1>3, <1>4 DEF TimedNext, Next, Proceed

\* With at most as many tasks as kMaxPacketBuffers, the cache never holds more packet
\* buffers than it has room for, also with calls that time out, although cacheTotal does
\* not limit the allocation (getPacketBuffer, discardPacketBuffer).
THEOREM BuffersSuffice ==
  ASSUME IsFiniteSet(Clients), Cardinality(Clients) <= kMaxPacketBuffers
  PROVE  TimedSpec => [](PacketBuffersBounded /\ halted # "cacheFull")
<1> DEFINE Inv == TypeOK /\ TagsAssigned /\ BuffersFit /\ halted # "cacheFull"
<1>1. Init => Inv
  <2> SUFFICES ASSUME Init PROVE BuffersFit /\ halted # "cacheFull"
    BY TypeInit
  <2>1. BufferHolders = {} /\ cache = 0
    BY DEF Init, BufferHolders
  <2> QED
    BY <2>1, FS_EmptySet, FS_CardinalityType DEF Init, BuffersFit
<1>2. Inv /\ [TimedNext]_vars => Inv'
  BY TypeStep, TagsAssignedStep, BuffersStep
<1>3. Inv => PacketBuffersBounded /\ halted # "cacheFull"
  <2> SUFFICES ASSUME Inv PROVE PacketBuffersBounded
    OBVIOUS
  <2>1. BufferHolders \subseteq Clients
    BY DEF BufferHolders
  <2>2. Cardinality(BufferHolders) \in Nat /\ Cardinality(Clients) \in Nat
    BY <2>1, FS_Subset, FS_CardinalityType
  <2> QED
    BY <2>2, ConfdAssumption DEF BuffersFit, PacketBuffersBounded, TypeOK, ConfdAssumption
<1> QED
  BY <1>1, <1>2, <1>3, PTL DEF TimedSpec

-----------------------------------------------------------------------------
(* Pools: entries of the map *)

\* What the message handler works on, or is about to, belongs to a task that waits.
LEMMA HandlerElsewhere ==
  ASSUME SafeCalls, NEW c \in Clients, pc[c] \notin {"idle", "waitNotify"}
  PROVE  handler.info # Current(c)
<1>1. CASE handler.step # "idle"
  BY <1>1 DEF SafeCalls, HandlerAwaited, Awaits, Current
<1>2. CASE handler.step = "idle"
  BY <1>2 DEF SafeCalls, CallSafe, BlockLives, TypeOK, HandlerState, HandlerIdle, NoPointer, Current
<1> QED
  BY <1>1, <1>2

LEMMA EntriesClientStep ==
  ASSUME SafeCalls, EntriesOwned, ~SendMayFail, NEW c \in Clients,
         (\E t \in MsgTypes : BeginCall(c, t)) \/ Proceed(c) \/ SendFails(c)
  PROVE  EntriesOwned'
<1> USE DEF SafeCalls, TypeOK, At, Goto
<1>1. CASE \/ \E t \in MsgTypes : BeginCall(c, t)
           \/ ReturnWithoutReply(c) \/ ReturnBuffer(c) \/ Collect(c) \/ PrepareRequest(c)
           \/ WakeUp(c)
  <2>1. \A t \in Tags : ~OwnsEntry(c, t)
    BY <1>1 DEF BeginCall, ReturnWithoutReply, ReturnBuffer, Collect, PrepareRequest, WakeUp,
                OwnsEntry
  <2>2. /\ UNCHANGED <<requests, handler>>
        /\ \A d \in Clients \ {c} : /\ pc'[d] = pc[d] /\ call'[d] = call[d]
                                    /\ info'[d] = info[d] /\ notify'[d] = notify[d]
    BY <1>1 DEF BeginCall, EncodeRequest, ReturnWithoutReply, ReturnBuffer, DiscardBuffer,
                Collect, PrepareRequest, WakeUp
  <2>3. \A t \in Tags, d \in Clients : OwnsEntry(d, t) => OwnsEntry(d, t)'
    BY <2>1, <2>2 DEF OwnsEntry, Current
  <2> QED
    BY <2>2, <2>3 DEF EntriesOwned, Registered
<1>2. CASE CheckRemote(c) \/ AwaitRemote(c) \/ SendRequest(c)
  <2>1. /\ UNCHANGED <<requests, handler, call, info, notify>>
        /\ \A d \in Clients \ {c} : pc'[d] = pc[d]
        /\ pc[c] \in {"checkRemote", "blockRemote", "send"}
        /\ pc'[c] \in {"blockRemote", "send", "waitNotify"}
    BY <1>2 DEF CheckRemote, AwaitRemote, SendRequest
  <2>2. handler.info # Current(c) /\ ~notify[c].pending
    BY <2>1, HandlerElsewhere DEF CallSafe, PendingAnswered
  <2>3. \A t \in Tags, d \in Clients : OwnsEntry(d, t) => OwnsEntry(d, t)'
    BY <2>1, <2>2 DEF OwnsEntry, Current
  <2> QED
    BY <2>1, <2>3 DEF EntriesOwned, Registered
<1>3. CASE RegisterTag(c)
  <2>1. PICK n \in 0..MaxTag :
          /\ IsNextTag(n) /\ info' = [info EXCEPT ![c].tag = n]
          /\ \/ /\ requests' = [requests EXCEPT ![n] = Current(c)]
                /\ pc' = [pc EXCEPT ![c] = "checkRemote"]
             \/ UNCHANGED <<requests, pc>>
    BY <1>3 DEF RegisterTag
  <2>2. pc[c] = "register" /\ UNCHANGED <<call, notify, handler>>
    BY <1>3 DEF RegisterTag
  <2>3. n \in Tags /\ requests[n] = NoPointer
    BY <2>1 DEF IsNextTag, Registered
  <2>4. \A d \in Clients \ {c} : pc'[d] = pc[d] /\ info'[d] = info[d]
    BY <2>1
  <2>5. info'[c].tag = n
    BY <2>1 DEF InfoBlock
  <2>6. \A t \in Tags, d \in Clients : t # n /\ OwnsEntry(d, t) => OwnsEntry(d, t)'
    BY <2>1, <2>2, <2>3, <2>4 DEF OwnsEntry, Current
  <2>7. requests'[n] # NoPointer => OwnsEntry(c, n)'
    BY <2>1, <2>2, <2>3, <2>5 DEF OwnsEntry, Current
  <2>8. \A t \in Tags : t # n => requests'[t] = requests[t]
    BY <2>1
  <2> QED
    BY <2>6, <2>7, <2>8 DEF EntriesOwned, Registered
<1> QED
  BY <1>1, <1>2, <1>3 DEF Proceed, SendFails

LEMMA EntriesHandlerStep ==
  ASSUME SafeCalls, EntriesOwned,
         HandleOther \/ HandlerStep \/ HostStep \/ UNCHANGED vars
  PROVE  EntriesOwned'
<1> USE DEF SafeCalls, TypeOK
<1>1. CASE HandleOther \/ HostStep \/ UNCHANGED vars
  <2>1. UNCHANGED <<requests, clientVars, info, notify, handler>>
    BY <1>1 DEF HandleOther, HostStep, HostAnswers, vars, clientVars
  <2>2. \A t \in Tags, d \in Clients : OwnsEntry(d, t) => OwnsEntry(d, t)'
    BY <2>1 DEF OwnsEntry, Current, clientVars
  <2> QED
    BY <2>1, <2>2 DEF EntriesOwned, Registered
<1>2. ASSUME NEW m \in inbox, HandleReply(m) PROVE EntriesOwned'
  <2>1. PICK w \in Clients : /\ m.info = Current(w) /\ requests[m.tag] = m.info
                             /\ m.info.task = w /\ pc[w] = "waitNotify"
    BY DEF WireAwaited, Wire, Awaits
  <2>2. Valid(m.info) /\ m.info # NoPointer /\ ~info[w].abandoned
    BY <2>1 DEF CallSafe, BlockLives, Valid, Current, NoPointer
  <2>3. m.tag \in Tags
    BY DEF Reply
  <2>4. /\ requests' = [requests EXCEPT ![m.tag] = NoPointer]
        /\ handler'.info = Current(w)
        /\ UNCHANGED <<clientVars, info, notify>>
    BY <1>2, <2>1, <2>2 DEF HandleReply
  <2>5. \A t \in Tags : OwnsEntry(w, t) => t = m.tag
    <3>1. PICK d \in Clients : OwnsEntry(d, m.tag)
      BY <2>1, <2>2, <2>3 DEF EntriesOwned, Registered
    <3>2. d = w
      BY <2>1, <3>1 DEF OwnsEntry, Current
    <3> QED
      BY <3>1, <3>2 DEF OwnsEntry
  <2>6. \A t \in Tags, d \in Clients : t # m.tag /\ OwnsEntry(d, t) => OwnsEntry(d, t)'
    BY <2>1, <2>4, <2>5 DEF OwnsEntry, Current, clientVars
  <2> QED
    BY <2>3, <2>4, <2>6 DEF EntriesOwned, Registered
<1>3. CASE Decode
  <2>1. PICK w \in Clients : /\ handler.info.task = w /\ handler.info = Current(w)
                             /\ handler.step = "decode"
    BY <1>3 DEF Decode, HandlerAwaited, Awaits
  <2>2. /\ UNCHANGED <<requests, clientVars, notify>>
        /\ \A d \in Clients \ {w} : info'[d] = info[d]
        /\ handler'.info = handler.info
    BY <1>3, <2>1 DEF Decode, HandlerState, HandlerIdle
  <2>3. \A t \in Tags, d \in Clients : OwnsEntry(d, t) => OwnsEntry(d, t)'
    <3> SUFFICES ASSUME NEW t \in Tags, NEW d \in Clients, OwnsEntry(d, t)
                 PROVE  OwnsEntry(d, t)'
      OBVIOUS
    <3>1. d # w
      BY <2>1 DEF OwnsEntry, HandlerAwaited, Awaits
    <3> QED
      BY <2>2, <3>1 DEF OwnsEntry, Current, clientVars
  <2> QED
    BY <2>2, <2>3 DEF EntriesOwned, Registered
<1>4. CASE NotifyCaller
  <2>1. PICK w \in Clients : /\ handler.info.task = w /\ handler.info = Current(w)
                             /\ handler.step = "notify" /\ pc[w] = "waitNotify"
    BY <1>4 DEF NotifyCaller, HandlerAwaited, Awaits
  <2>2. /\ UNCHANGED <<requests, clientVars, info>>
        /\ \A d \in Clients \ {w} : notify'[d] = notify[d]
        /\ handler' \in {handler, HandlerIdle}
    BY <1>4, <2>1 DEF NotifyCaller
  <2>3. \A t \in Tags, d \in Clients : OwnsEntry(d, t) => OwnsEntry(d, t)'
    <3> SUFFICES ASSUME NEW t \in Tags, NEW d \in Clients, OwnsEntry(d, t)
                 PROVE  OwnsEntry(d, t)'
      OBVIOUS
    <3>1. d # w
      BY <2>1 DEF OwnsEntry
    <3>2. HandlerIdle.info # Current(d)
      BY DEF OwnsEntry, CallSafe, BlockLives, HandlerIdle, NoPointer, Current
    <3> QED
      BY <2>2, <3>1, <3>2 DEF OwnsEntry, Current, clientVars
  <2> QED
    BY <2>2, <2>3 DEF EntriesOwned, Registered
<1> QED
  BY <1>1, <1>2, <1>3, <1>4 DEF HandlerStep

\* Each entry belongs to another task: the map holds fewer than there are tasks while
\* one has not entered its own.
LEMMA MapHasRoom ==
  ASSUME IsFiniteSet(Clients), SafeCalls, EntriesOwned, NEW c \in Clients, pc[c] = "register"
  PROVE  Cardinality(Registered) < Cardinality(Clients)
<1> DEFINE Owner == [t \in Registered |-> requests[t].task]
<1>1. \A t \in Registered : /\ requests[t].task \in Clients \ {c}
                            /\ info[requests[t].task].tag = t
  <2> SUFFICES ASSUME NEW t \in Registered
               PROVE  /\ requests[t].task \in Clients \ {c}
                      /\ info[requests[t].task].tag = t
    OBVIOUS
  <2>1. PICK d \in Clients : OwnsEntry(d, t)
    BY DEF EntriesOwned
  <2>2. requests[t].task = d /\ info[d].tag = t /\ d # c
    BY <2>1 DEF OwnsEntry, Current
  <2> QED
    BY <2>2
<1>2. Owner \in Injection(Registered, Clients \ {c})
  <2>1. Owner \in [Registered -> Clients \ {c}]
    BY <1>1
  <2>2. \A t, u \in Registered : Owner[t] = Owner[u] => t = u
    BY <1>1
  <2> HIDE DEF Owner
  <2> QED
    BY <2>1, <2>2 DEF Injection, IsInjective
<1>3. /\ IsFiniteSet(Clients \ {c})
      /\ Cardinality(Clients \ {c}) = Cardinality(Clients) - 1
  BY FS_RemoveElement
<1>4. IsFiniteSet(Registered) /\ Cardinality(Registered) <= Cardinality(Clients \ {c})
  <2> HIDE DEF Owner
  <2> QED
    BY <1>2, <1>3, FS_Injection
<1> QED
  BY <1>3, <1>4, FS_CardinalityType

\* With at most as many tasks as packet buffers and as entries in the requests map, and
\* sends that do not fail, neither pool is ever exhausted.
THEOREM PoolsSuffice ==
  ASSUME IsFiniteSet(Clients), ~SendMayFail,
         Cardinality(Clients) <= kMaxPacketBuffers, Cardinality(Clients) <= kMaxInflight
  PROVE  Spec => []NoResourcePanic
<1> DEFINE Inv == SafeCalls /\ EntriesOwned /\ halted # "requestsFull"
<1>1. Init => Inv
  BY SafeInit DEF Init, EntriesOwned, Registered
<1>2. Inv /\ [Next]_vars => Inv'
  <2> SUFFICES ASSUME Inv, [Next]_vars PROVE Inv'
    OBVIOUS
  <2>1. SafeCalls'
    BY SafeStep
  <2>2. EntriesOwned'
    BY EntriesClientStep, EntriesHandlerStep DEF Next
  <2>3. ASSUME NEW c \in Clients, RegisterTag(c) PROVE halted' # "requestsFull"
    <3>1. pc[c] = "register"
      BY <2>3 DEF RegisterTag, At
    <3>2. Cardinality(Registered) < Cardinality(Clients)
      BY <3>1, MapHasRoom
    <3>3. Cardinality(Registered) < kMaxInflight /\ ~ Cardinality(Registered) >= kMaxInflight
      <4>1. Cardinality(Registered) \in Nat
        <5>1. IsFiniteSet(Tags)
          BY FS_Interval, ConfdAssumption DEF Tags, ConfdAssumption
        <5>2. IsFiniteSet(Registered)
          BY <5>1, FS_Subset DEF Registered
        <5> QED
          BY <5>2, FS_CardinalityType
      <4> QED
        BY <3>2, <4>1, FS_CardinalityType, ConfdAssumption DEF ConfdAssumption
    <3> QED
      BY <2>3, <3>3 DEF RegisterTag
  <2>4. ASSUME ~ \E c \in Clients : RegisterTag(c) PROVE halted' # "requestsFull"
    BY <2>4
    DEF Next, BeginCall, Proceed, ReturnWithoutReply, ReturnBuffer, DiscardBuffer, Collect,
        PrepareRequest, CheckRemote, AwaitRemote, SendRequest, WakeUp, SendFails, SendFailed,
        Halt, HandleOther, HandlerStep, HandleReply, Decode, NotifyCaller, HostStep,
        HostAnswers, vars
  <2> QED
    BY <2>1, <2>2, <2>3, <2>4
<1>3. Spec => TimedSpec
  <2>1. [Next]_vars => [TimedNext]_vars
    BY DEF TimedNext
  <2> QED
    BY <2>1, PTL DEF Spec, TimedSpec
<1>4. Inv /\ halted # "cacheFull" => NoResourcePanic
  BY DEF NoResourcePanic
<1> QED
  BY <1>1, <1>2, <1>3, <1>4, BuffersSuffice, PTL DEF Spec

-----------------------------------------------------------------------------
(* Blocks are blank until their reply is decoded *)

\* The step concerns no other task than c.
OthersKept(c) ==
  \A d \in Clients \ {c} :
    /\ pc'[d] = pc[d] /\ call'[d] = call[d] /\ info'[d] = info[d] /\ notify'[d] = notify[d]

\* Where a step of a task's own call leads, and what it leaves alone.
LEMMA ClientSteps ==
  ASSUME SafeCalls, NEW c \in Clients,
         (\E t \in MsgTypes : BeginCall(c, t)) \/ Proceed(c) \/ SendFails(c)
  PROVE  /\ OthersKept(c) /\ UNCHANGED <<handler, inbox>>
         /\ info'[c].response \in {info[c].response, Monostate}
         /\ \/ info'[c].response = Monostate
            \/ /\ pc[c] = "waitNotify" => pc'[c] = "answered"
               /\ pc[c] \in {"answered", "collect"} => pc'[c] \in {"answered", "collect"}
<1> USE DEF SafeCalls, TypeOK, At, Goto, OthersKept
<1>1. ASSUME NEW t \in MsgTypes, BeginCall(c, t)
      PROVE  /\ OthersKept(c) /\ UNCHANGED <<handler, inbox, info>>
             /\ pc[c] = "idle"
  BY <1>1 DEF BeginCall, EncodeRequest
<1>2. CASE ReturnWithoutReply(c)
  BY <1>2 DEF ReturnWithoutReply, DiscardBuffer
<1>3. CASE ReturnBuffer(c)
  BY <1>3 DEF ReturnBuffer, DiscardBuffer
<1>4. CASE Collect(c)
  <2>1. \/ info' = [info EXCEPT ![c] = DeletedBlock]
        \/ UNCHANGED <<info, pc>>
    BY <1>4 DEF Collect
  <2> QED
    BY <1>4, <2>1 DEF Collect, DeletedBlock
<1>5. CASE PrepareRequest(c)
  BY <1>5 DEF PrepareRequest, DeletedBlock
<1>6. CASE RegisterTag(c)
  BY <1>6 DEF RegisterTag, InfoBlock
<1>7. CASE CheckRemote(c) \/ AwaitRemote(c) \/ SendRequest(c) \/ WakeUp(c)
  BY <1>7 DEF CheckRemote, AwaitRemote, SendRequest, WakeUp
<1>8. CASE SendFails(c)
  BY <1>8 DEF SendFails, SendFailed, DeletedBlock
<1> QED
  BY <1>1, <1>2, <1>3, <1>4, <1>5, <1>6, <1>7, <1>8 DEF Proceed

LEMMA PlacedStep == RepliesPlaced /\ [Next]_vars => RepliesPlaced'
<1> SUFFICES ASSUME RepliesPlaced, [Next]_vars PROVE RepliesPlaced'
  OBVIOUS
<1> USE DEF RepliesPlaced
<1>1. SafeCalls'
  BY SafeStep
<1>2. ASSUME NEW c \in Clients,
             (\E t \in MsgTypes : BeginCall(c, t)) \/ Proceed(c) \/ SendFails(c)
      PROVE  RepliesPlaced'
  <2>1. BlankUntilDecoded(c)'
    BY <1>2, ClientSteps DEF BlankUntilDecoded
  <2>2. \A d \in Clients \ {c} : BlankUntilDecoded(d)'
    BY <1>2, ClientSteps DEF BlankUntilDecoded, OthersKept, Current
  <2> QED
    BY <1>1, <2>1, <2>2
<1>3. CASE HandleOther \/ HostStep \/ UNCHANGED vars
  BY <1>1, <1>3
  DEF HandleOther, HostStep, HostAnswers, vars, clientVars, BlankUntilDecoded, Current
<1>4. ASSUME NEW m \in inbox, HandleReply(m) PROVE RepliesPlaced'
  <2>1. handler.step = "idle" /\ UNCHANGED <<clientVars, info, notify>>
    BY <1>4 DEF HandleReply
  <2> QED
    BY <1>1, <2>1 DEF clientVars, BlankUntilDecoded, Current
<1>5. CASE Decode
  <2>1. PICK w \in Clients : /\ handler.info.task = w /\ handler.info = Current(w)
                             /\ pc[w] = "waitNotify" /\ handler.step = "decode"
    BY <1>5 DEF Decode, SafeCalls, HandlerAwaited, Awaits
  <2>2. \/ handler'.step = "notify" /\ handler'.info = handler.info
        \/ UNCHANGED info /\ handler' = handler
    BY <1>5, <2>1 DEF Decode, SafeCalls, TypeOK, HandlerState, HandlerIdle
  <2>3. UNCHANGED <<clientVars, notify>> /\ \A d \in Clients \ {w} : info'[d] = info[d]
    BY <1>5, <2>1 DEF Decode, SafeCalls, TypeOK
  <2>4. \A d \in Clients \ {w} : BlankUntilDecoded(d)'
    BY <2>1, <2>2, <2>3 DEF clientVars, BlankUntilDecoded, Current
  <2>5. BlankUntilDecoded(w)'
    BY <2>1, <2>2, <2>3 DEF clientVars, BlankUntilDecoded, Current
  <2> QED
    BY <1>1, <2>4, <2>5
<1>6. CASE NotifyCaller
  <2>1. PICK w \in Clients : /\ handler.info.task = w /\ handler.info = Current(w)
                             /\ pc[w] = "waitNotify" /\ UNCHANGED <<clientVars, info>>
    BY <1>6 DEF NotifyCaller, SafeCalls, HandlerAwaited, Awaits
  <2>2. \/ notify' = [notify EXCEPT ![w] = WithBits(@, {kNotifyBit})]
        \/ UNCHANGED <<notify, handler>>
    BY <1>6, <2>1 DEF NotifyCaller
  <2>3. \A d \in Clients \ {w} : notify'[d] = notify[d]
    BY <2>1, <2>2 DEF SafeCalls, TypeOK
  <2>4. notify'[w].pending \/ UNCHANGED <<notify, handler>>
    BY <2>1, <2>2 DEF SafeCalls, TypeOK, WithBits
  <2>5. \A d \in Clients \ {w} : BlankUntilDecoded(d)'
    BY <2>1, <2>3 DEF clientVars, BlankUntilDecoded, Current
  <2>6. BlankUntilDecoded(w)'
    BY <2>1, <2>4 DEF clientVars, BlankUntilDecoded, Current
  <2> QED
    BY <1>1, <2>5, <2>6
<1> QED
  BY <1>2, <1>3, <1>4, <1>5, <1>6 DEF Next, HandlerStep

\* Until its reply is decoded a block holds no response (a new InfoBlock's variant is
\* std::monostate), and when it holds one its task has been or is about to be notified.
THEOREM RepliesPlacedAlways == Spec => []RepliesPlaced
<1>1. Init => RepliesPlaced
  BY SafeInit DEF Init, RepliesPlaced, BlankUntilDecoded, DeletedBlock
<1> QED
  BY <1>1, PlacedStep, PTL DEF Spec

-----------------------------------------------------------------------------
(* The calls implement RemoteCall *)

\* If one message alone belongs to a call, it is the call's answer; if there is none, it
\* is what the block holds.
LEMMA AnswerIsTheOne ==
  ASSUME NEW S, NEW p, NEW b, NEW m \in S, m.info = p, \A n \in S : n.info = p => n = m
  PROVE  AnswerAmong(S, p, b) = m.body
<1>1. (CHOOSE n \in S : n.info = p) = m
  OBVIOUS
<1> QED
  BY <1>1 DEF AnswerAmong

LEMMA NoAnswer ==
  ASSUME NEW S, NEW p, NEW b, \A n \in S : n.info # p
  PROVE  AnswerAmong(S, p, b) = b.body
BY DEF AnswerAmong

\* Answers arrive only for calls that wait.
LEMMA ArrivesAwaited ==
  SafeCalls =>
    \A c \in Clients, m \in Arriving :
      m.info = Current(c) => pc[c] = "waitNotify" /\ ~notify[c].pending
<1> SUFFICES ASSUME SafeCalls, NEW c \in Clients, NEW m \in Arriving, m.info = Current(c)
             PROVE  pc[c] = "waitNotify" /\ ~notify[c].pending
  OBVIOUS
<1>1. m.info.task = c
  BY DEF Current
<1>2. CASE m \in inbox
  BY <1>1, <1>2 DEF SafeCalls, WireAwaited, Wire, Awaits
<1>3. CASE handler.step = "decode" /\ m = handler.msg
  BY <1>1, <1>3 DEF SafeCalls, HandlerAwaited, Awaits
<1> QED
  BY <1>2, <1>3 DEF Arriving

LEMMA AnswerInBlock ==
  SafeCalls =>
    \A c \in Clients : pc[c] # "waitNotify" => AnswerTo(c) = info[c].response.body
<1> SUFFICES ASSUME SafeCalls, NEW c \in Clients, pc[c] # "waitNotify"
             PROVE  AnswerTo(c) = info[c].response.body
  OBVIOUS
<1>1. \A m \in Arriving : m.info # Current(c)
  BY ArrivesAwaited
<1> QED
  BY <1>1, NoAnswer DEF AnswerTo

\* A step that leaves replies and blocks alone keeps the answers.
LEMMA AnswersKept ==
  ASSUME UNCHANGED <<inbox, handler>>, NEW c \in Clients,
         call'[c] = call[c], info'[c].response = info[c].response
  PROVE  AnswerTo(c)' = AnswerTo(c)
<1>1. Arriving' = Arriving
  BY DEF Arriving
<1> QED
  BY <1>1 DEF AnswerTo, Current

LEMMA CallKept ==
  ASSUME UNCHANGED <<type, result>>,
         \A c \in Clients : (pc'[c] = "idle" <=> pc[c] = "idle") /\ AnswerTo(c)' = AnswerTo(c)
  PROVE  UNCHANGED Calls!callVars
<1>1. {c \in Clients : pc'[c] # "idle"} = {c \in Clients : pc[c] # "idle"}
  OBVIOUS
<1>2. [c \in Clients |-> AnswerTo(c)'] = [c \in Clients |-> AnswerTo(c)]
  OBVIOUS
<1> QED
  BY <1>1, <1>2 DEF Calls!callVars

LEMMA CallBegins ==
  ASSUME RepliesPlaced, SafeCalls', NEW c \in Clients, NEW t \in MsgTypes, BeginCall(c, t)
  PROVE  Calls!Ask(c, t)
<1> USE DEF RepliesPlaced
<1>1. /\ pc[c] = "idle" /\ type' = [type EXCEPT ![c] = t]
      /\ result' = [result EXCEPT ![c] = "none"]
      /\ UNCHANGED <<info, inbox, handler>>
  BY DEF BeginCall, At
<1>2. /\ pc'[c] \in {"prepare", "discard"}
      /\ \A d \in Clients \ {c} : pc'[d] = pc[d] /\ call'[d] = call[d]
  BY DEF BeginCall, EncodeRequest, Goto, SafeCalls, TypeOK
<1>3. info[c].response = Monostate /\ info'[c].response = Monostate
  BY <1>1 DEF BlankUntilDecoded
<1>4. AnswerTo(c) = Monostate.body
  BY <1>1, <1>3, AnswerInBlock
<1>5. AnswerTo(c)' = Monostate.body
  <2>1. \A m \in Arriving' : m.info # Current(c)'
    <3> SUFFICES ASSUME NEW m \in Arriving', m.info = Current(c)' PROVE FALSE
      OBVIOUS
    <3>1. m.info.task = c
      BY DEF Current
    <3>2. CASE m \in inbox'
      BY <1>2, <3>1, <3>2 DEF SafeCalls, WireAwaited, Wire, Awaits
    <3>3. CASE handler'.step = "decode" /\ m = handler'.msg
      BY <1>2, <3>1, <3>3 DEF SafeCalls, HandlerAwaited, Awaits
    <3> QED
      BY <3>2, <3>3 DEF Arriving
  <2> QED
    BY <1>3, <2>1, NoAnswer DEF AnswerTo
<1>6. \A d \in Clients \ {c} : AnswerTo(d)' = AnswerTo(d)
  BY <1>1, <1>2, AnswersKept
<1>7. [d \in Clients |-> AnswerTo(d)'] = [d \in Clients |-> AnswerTo(d)]
  BY <1>4, <1>5, <1>6
<1>8. /\ {d \in Clients : pc'[d] # "idle"} = {d \in Clients : pc[d] # "idle"} \cup {c}
      /\ c \notin {d \in Clients : pc[d] # "idle"}
  BY <1>1, <1>2
<1> QED
  BY <1>1, <1>7, <1>8 DEF Calls!Ask

\* The call returns what its block says; without a response it fails.
LEMMA CallEnds ==
  ASSUME RepliesPlaced, NEW c \in Clients, UNCHANGED <<type, inbox, handler, call>>,
         pc[c] \notin {"idle", "waitNotify"}, pc' = [pc EXCEPT ![c] = "idle"],
         \A d \in Clients \ {c} : info'[d] = info[d],
         info'[c].response = Monostate,
         \/ /\ info[c].response = Monostate
            /\ result' = [result EXCEPT ![c] = "Error"]
         \/ /\ info[c].response \in Response
            /\ result' = [result EXCEPT ![c] = StatusOf(type[c], info[c].response.body)]
  PROVE  Calls!Return(c) \/ Calls!Fail(c)
<1> USE DEF RepliesPlaced
<1> DEFINE Answers == [d \in Clients |-> AnswerTo(d)]
           Busy == {d \in Clients : pc[d] # "idle"}
<1>1. AnswerTo(c) = info[c].response.body
  BY AnswerInBlock
<1>2. AnswerTo(c)' = "none"
  <2>1. \A m \in Arriving : m.info # Current(c)
    BY ArrivesAwaited
  <2>2. Arriving' = Arriving /\ Current(c)' = Current(c)
    BY DEF Arriving, Current
  <2>3. AnswerAmong(Arriving, Current(c), Monostate) = "none"
    BY <2>1, NoAnswer DEF Monostate
  <2> QED
    BY <2>2, <2>3 DEF AnswerTo
<1>3. \A d \in Clients \ {c} : AnswerTo(d)' = AnswerTo(d)
  BY AnswersKept
<1>4. Busy' = Busy \ {c} /\ c \in Busy
  BY DEF SafeCalls, TypeOK
<1>5. Answers' = [Answers EXCEPT ![c] = "none"]
  BY <1>2, <1>3
<1>6. CASE info[c].response \in Response
  <2>1. Answers[c] # "none" /\ Answers[c] = info[c].response.body
    BY <1>1, <1>6 DEF Response, Bodies
  <2>2. info[c].response # Monostate
    BY <1>6 DEF Response, Monostate, MsgTypes
  <2>3. result' = [result EXCEPT ![c] = StatusOf(type[c], Answers[c])]
    BY <2>1, <2>2
  <2> HIDE DEF Answers, Busy
  <2>4. Calls!Return(c)
    BY <1>4, <1>5, <2>1, <2>3 DEF Calls!Return, Answers, Busy
  <2> QED
    BY <2>4
<1>7. CASE info[c].response = Monostate
  <2>1. Answers[c] = "none"
    BY <1>1, <1>7 DEF Monostate
  <2>2. Answers' = Answers
    BY <1>5, <2>1
  <2>3. result' = [result EXCEPT ![c] = "Error"]
    BY <1>7 DEF Response, Monostate, MsgTypes
  <2>4. Calls!Fail(c)
    BY <1>4, <2>1, <2>2, <2>3 DEF Calls!Fail
  <2> QED
    BY <2>4
<1> QED
  BY <1>6, <1>7

\* A message of another call makes no difference.
LEMMA OtherMessage ==
  ASSUME NEW S, NEW p, NEW b, NEW n, n.info # p,
         \A k, l \in S : k.info = p /\ l.info = p => k = l
  PROVE  AnswerAmong(S \cup {n}, p, b) = AnswerAmong(S, p, b)
<1> DEFINE T == S \cup {n}
<1>1. CASE \E m \in S : m.info = p
  <2>1. PICK m \in S : m.info = p
    BY <1>1
  <2>2. m \in T /\ \A k \in T : k.info = p => k = m
    BY <2>1
  <2> HIDE DEF T
  <2>3. AnswerAmong(T, p, b) = m.body
    BY <2>1, <2>2, AnswerIsTheOne
  <2>4. AnswerAmong(S, p, b) = m.body
    BY <2>1, AnswerIsTheOne
  <2> QED
    BY <2>3, <2>4 DEF T
<1>2. CASE ~ \E m \in S : m.info = p
  <2>1. \A k \in T : k.info # p
    BY <1>2
  <2> HIDE DEF T
  <2>2. AnswerAmong(T, p, b) = b.body /\ AnswerAmong(S, p, b) = b.body
    BY <1>2, <2>1, NoAnswer
  <2> QED
    BY <2>2 DEF T
<1> QED
  BY <1>1, <1>2

\* A call's answer arrives once.
LEMMA ArrivesOnce ==
  SafeCalls => \A k, l \in Arriving : k.info = l.info => k = l
BY DEF SafeCalls, OneMessagePerCall, HandlerAwaited, Wire, Arriving

\* The host's answer comes to the call that waits for it.
LEMMA CallAnswered ==
  ASSUME RepliesPlaced, NEW m \in toHost, NEW form \in ReplyForms, HostAnswers(m, form)
  PROVE  \E c \in Clients, body \in Bodies : Calls!Answer(c, body)
<1> USE DEF RepliesPlaced
<1> DEFINE n == [tag |-> m.tag, info |-> m.info, type |-> m.type,
                 body |-> form.body, decodes |-> form.decodes]
<1>1. PICK w \in Clients : /\ m.info = Current(w) /\ m.info.task = w /\ pc[w] = "waitNotify"
                           /\ ~notify[w].pending
  BY DEF SafeCalls, WireAwaited, Wire, Awaits
<1>2. UNCHANGED <<pc, call, type, result, info, handler>> /\ inbox' = inbox \cup {n}
  BY DEF HostAnswers, clientVars
<1>3. \A k \in Arriving : k.info # Current(w)
  <2>1. \A k \in inbox : k.info # m.info
    BY DEF SafeCalls, OneMessagePerCall
  <2>2. handler.step = "decode" => handler.msg.info # m.info
    BY DEF SafeCalls, HandlerAwaited, Wire
  <2> QED
    BY <1>1, <2>1, <2>2 DEF Arriving
<1>4. info[w].response = Monostate
  BY <1>1 DEF BlankUntilDecoded, SafeCalls, HandlerAwaited, Wire
<1>5. AnswerTo(w) = "none"
  BY <1>3, <1>4, NoAnswer DEF AnswerTo, Monostate
<1>6. \A d \in Clients :
        AnswerTo(d)' = AnswerAmong(Arriving \cup {n}, Current(d), info[d].response)
  <2>1. Arriving' = inbox \cup {n} \cup (IF handler.step = "decode" THEN {handler.msg} ELSE {})
    BY <1>2 DEF Arriving
  <2>2. Arriving' = Arriving \cup {n}
    BY <2>1 DEF Arriving
  <2> QED
    BY <1>2, <2>2 DEF AnswerTo, Current
<1>7. AnswerTo(w)' = form.body
  <2> DEFINE S == Arriving \cup {n}
  <2>1. n \in S /\ n.info = Current(w) /\ n.body = form.body
        /\ \A k \in S : k.info = Current(w) => k = n
    BY <1>1, <1>3
  <2> HIDE DEF S, n
  <2>2. AnswerAmong(S, Current(w), info[w].response) = form.body
    BY <2>1, AnswerIsTheOne
  <2> QED
    BY <1>6, <2>2 DEF S
<1>8. \A d \in Clients \ {w} : AnswerTo(d)' = AnswerTo(d)
  <2> SUFFICES ASSUME NEW d \in Clients \ {w} PROVE AnswerTo(d)' = AnswerTo(d)
    OBVIOUS
  <2>1. n.info # Current(d)
    BY <1>1 DEF Current
  <2>2. \A k, l \in Arriving : k.info = Current(d) /\ l.info = Current(d) => k = l
    BY ArrivesOnce
  <2> HIDE DEF n
  <2>3. AnswerAmong(Arriving \cup {n}, Current(d), info[d].response)
          = AnswerAmong(Arriving, Current(d), info[d].response)
    BY <2>1, <2>2, OtherMessage
  <2> QED
    BY <1>6, <2>3 DEF AnswerTo
<1>9. [d \in Clients |-> AnswerTo(d)'] = [[d \in Clients |-> AnswerTo(d)] EXCEPT ![w] = form.body]
  BY <1>7, <1>8
<1>10. form.body \in Bodies
  BY ConfdAssumption DEF ConfdAssumption
<1>11. Calls!Answer(w, form.body)
  BY <1>1, <1>2, <1>5, <1>9 DEF Calls!Answer
<1> QED
  BY <1>10, <1>11

\* The message handler's own steps only move the answer.
LEMMA AnswersMoved ==
  ASSUME RepliesPlaced, HandlerStep
  PROVE  \A c \in Clients : AnswerTo(c)' = AnswerTo(c)
<1> USE DEF RepliesPlaced
<1>1. ASSUME NEW m \in inbox, HandleReply(m) PROVE \A c \in Clients : AnswerTo(c)' = AnswerTo(c)
  <2>1. PICK w \in Clients : /\ m.info = Current(w) /\ m.info.task = w /\ requests[m.tag] = m.info
                             /\ pc[w] = "waitNotify"
    BY DEF SafeCalls, WireAwaited, Wire, Awaits
  <2>2. Valid(m.info) /\ m.info # NoPointer /\ ~info[w].abandoned
    BY <2>1 DEF SafeCalls, CallSafe, BlockLives, Valid, Current, NoPointer
  <2>3. handler.step = "idle" /\ handler'.step = "decode" /\ handler'.msg = m
        /\ inbox' = inbox \ {m} /\ UNCHANGED <<clientVars, info>>
    BY <1>1, <2>1, <2>2 DEF HandleReply
  <2>4. Arriving = inbox /\ Arriving' = (inbox \ {m}) \cup {m}
    BY <2>3 DEF Arriving
  <2>5. (inbox \ {m}) \cup {m} = inbox
    OBVIOUS
  <2>6. Arriving' = Arriving
    BY <2>4, <2>5
  <2> QED
    BY <2>3, <2>6 DEF AnswerTo, Current, clientVars
<1>2. CASE Decode
  <2>1. PICK w \in Clients :
          /\ handler.info.task = w /\ handler.info = Current(w) /\ pc[w] = "waitNotify"
          /\ handler.msg.info = Current(w) /\ handler.step = "decode"
          /\ \A m \in inbox : m.info # Current(w)
    BY <1>2 DEF Decode, SafeCalls, HandlerAwaited, Awaits, Wire
  <2>2. Valid(handler.info)
    BY <2>1 DEF SafeCalls, CallSafe, BlockLives, Valid, Current, NoPointer
  <2>3. /\ info' = [info EXCEPT ![w].response = Decoded(handler.msg),
                                ![w].error = ~handler.msg.decodes]
        /\ handler' = [handler EXCEPT !.step = "notify"]
        /\ UNCHANGED <<clientVars, inbox>>
    BY <1>2, <2>1, <2>2 DEF Decode
  <2>4. \A d \in Clients \ {w} : info'[d] = info[d]
    BY <2>3 DEF SafeCalls, TypeOK
  <2>5. info'[w].response = Decoded(handler.msg)
    BY <2>3 DEF SafeCalls, TypeOK, InfoBlock
  <2>6. Arriving = inbox \cup {handler.msg}
    BY <2>1 DEF Arriving
  <2>7. Arriving' = inbox \cup {}
    BY <2>1, <2>3 DEF Arriving, SafeCalls, TypeOK, HandlerState, HandlerIdle
  <2>8. inbox \cup {} = inbox
    OBVIOUS
  <2>9. \A d \in Clients : AnswerTo(d)' = AnswerAmong(inbox, Current(d), info'[d].response)
    BY <2>3, <2>7, <2>8 DEF AnswerTo, Current, clientVars
  <2>10. AnswerTo(w)' = handler.msg.body
    BY <2>1, <2>5, <2>9, NoAnswer DEF Decoded
  <2>11. AnswerTo(w) = handler.msg.body
    <3> DEFINE S == Arriving
    <3>1. PICK k \in S : /\ k = handler.msg /\ k.info = Current(w)
                         /\ \A l \in S : l.info = Current(w) => l = k
      BY <2>1, <2>6
    <3> HIDE DEF S
    <3>2. AnswerAmong(S, Current(w), info[w].response) = handler.msg.body
      BY <2>1, <3>1, AnswerIsTheOne
    <3> QED
      BY <3>2 DEF AnswerTo, S
  <2>12. ASSUME NEW d \in Clients \ {w} PROVE AnswerTo(d)' = AnswerTo(d)
    <3>1. handler.msg.info # Current(d)
      BY <2>1 DEF Current
    <3>2. \A k, l \in inbox : k.info = Current(d) /\ l.info = Current(d) => k = l
      BY DEF SafeCalls, OneMessagePerCall
    <3>3. AnswerAmong(inbox \cup {handler.msg}, Current(d), info[d].response)
            = AnswerAmong(inbox, Current(d), info[d].response)
      BY <3>1, <3>2, OtherMessage
    <3> QED
      BY <2>4, <2>6, <2>9, <3>3 DEF AnswerTo
  <2> QED
    BY <2>10, <2>11, <2>12
<1>3. CASE NotifyCaller
  <2>1. handler.step = "notify" /\ UNCHANGED <<clientVars, info, inbox>>
        /\ handler'.step # "decode"
    BY <1>3 DEF NotifyCaller, HandlerIdle
  <2>2. Arriving' = Arriving
    BY <2>1 DEF Arriving
  <2> QED
    BY <2>1, <2>2 DEF AnswerTo, Current, clientVars
<1> QED
  BY <1>1, <1>2, <1>3 DEF HandlerStep

LEMMA ImplementsStep ==
  RepliesPlaced /\ SafeCalls' /\ [Next]_vars => [Calls!CallNext]_(Calls!callVars)
<1> SUFFICES ASSUME RepliesPlaced, SafeCalls', [Next]_vars
             PROVE  Calls!CallNext \/ UNCHANGED Calls!callVars
  OBVIOUS
<1> USE DEF RepliesPlaced
<1>1. ASSUME NEW c \in Clients, NEW t \in MsgTypes, BeginCall(c, t)
      PROVE  Calls!CallNext
  BY <1>1, CallBegins DEF Calls!CallNext
<1>2. ASSUME NEW c \in Clients, Proceed(c) \/ SendFails(c)
      PROVE  Calls!CallNext \/ UNCHANGED Calls!callVars
  <2>0. /\ OthersKept(c) /\ UNCHANGED <<handler, inbox>>
        /\ info'[c].response \in {info[c].response, Monostate}
    BY <1>2, ClientSteps
  <2>1. CASE ReturnWithoutReply(c) /\ Running'
    <3>1. /\ pc[c] \in {"discard", "failed"} /\ pc' = [pc EXCEPT ![c] = "idle"]
          /\ result' = [result EXCEPT ![c] = "Error"]
          /\ UNCHANGED <<call, type, info, inbox, handler>>
      BY <2>1 DEF ReturnWithoutReply, DiscardBuffer, Halt, Running, Goto, SafeCalls, CallSafe,
                  BlockLives
    <3>2. info[c].response = Monostate
      BY <3>1 DEF BlankUntilDecoded
    <3> QED
      BY <3>1, <3>2, CallEnds DEF Calls!CallNext
  <2>2. CASE Collect(c) /\ Running'
    <3>1. /\ pc[c] = "collect" /\ pc' = [pc EXCEPT ![c] = "idle"]
          /\ result' = [result EXCEPT ![c] = StatusOf(type[c], info[c].response.body)]
          /\ info' = [info EXCEPT ![c] = DeletedBlock]
          /\ UNCHANGED <<call, type, inbox, handler>>
      BY <2>2 DEF Collect, At, Halt, Running, Goto
    <3>2. /\ info'[c].response = Monostate
          /\ \A d \in Clients \ {c} : info'[d] = info[d]
      BY <3>1 DEF SafeCalls, TypeOK, DeletedBlock
    <3>3. info[c].response \in Response
      <4>1. info[c].response.for = Current(c) /\ call[c] # 0
        BY <3>1 DEF SafeCalls, CallSafe, WokenAnswered, HasItsReply, BlockLives
      <4>2. info[c].response # Monostate
        BY <4>1 DEF Monostate, NoPointer, Current
      <4> QED
        BY <4>2 DEF SafeCalls, TypeOK, InfoBlock
    <3> QED
      BY <3>1, <3>2, <3>3, CallEnds DEF Calls!CallNext
  <2>3. CASE (ReturnWithoutReply(c) \/ Collect(c)) /\ ~Running'
    <3>1. UNCHANGED <<pc, call, type, result, info>>
      BY <2>3 DEF ReturnWithoutReply, Collect, DiscardBuffer, Running, At
    <3> QED
      BY <2>0, <3>1, AnswersKept, CallKept
  <2>4. CASE \/ ReturnBuffer(c) \/ PrepareRequest(c) \/ RegisterTag(c) \/ CheckRemote(c)
             \/ AwaitRemote(c) \/ SendRequest(c) \/ WakeUp(c) \/ SendFails(c)
    <3>1. /\ UNCHANGED <<type, result, call>>
          /\ pc[c] # "idle" /\ \E step \in Steps \ {"idle"} : pc' = [pc EXCEPT ![c] = step]
          /\ pc[c] \in {"answered", "waitNotify"} => info'[c] = info[c]
      BY <2>4
      DEF ReturnBuffer, DiscardBuffer, PrepareRequest, RegisterTag, CheckRemote, AwaitRemote,
          SendRequest, WakeUp, SendFails, SendFailed, At, Goto, Steps, SafeCalls, TypeOK
    <3>2. \A d \in Clients : pc'[d] = "idle" <=> pc[d] = "idle"
      BY <3>1 DEF SafeCalls, TypeOK
    <3>3. info'[c].response = info[c].response
      <4>1. pc[c] # "collect"
        BY <2>4
        DEF ReturnBuffer, PrepareRequest, RegisterTag, CheckRemote, AwaitRemote,
            SendRequest, WakeUp, SendFails, SendFailed, At
      <4> QED
        BY <2>0, <3>1, <4>1 DEF BlankUntilDecoded
    <3>4. \A d \in Clients : AnswerTo(d)' = AnswerTo(d)
      BY <2>0, <3>1, <3>3, AnswersKept DEF OthersKept
    <3> QED
      BY <3>1, <3>2, <3>4, CallKept
  <2> QED
    BY <1>2, <2>1, <2>2, <2>3, <2>4 DEF Proceed
<1>3. CASE HandleOther \/ UNCHANGED vars
  <2>1. UNCHANGED <<pc, call, type, result, info, inbox, handler>>
    BY <1>3 DEF HandleOther, vars, clientVars
  <2> QED
    BY <2>1, AnswersKept, CallKept
<1>4. CASE HandlerStep
  <2>1. UNCHANGED clientVars
    BY <1>4 DEF HandlerStep, HandleReply, Decode, NotifyCaller
  <2> QED
    BY <1>4, <2>1, AnswersMoved, CallKept DEF clientVars
<1>5. CASE HostStep
  BY <1>5, CallAnswered DEF HostStep, Calls!CallNext
<1> QED
  BY <1>1, <1>2, <1>3, <1>4, <1>5 DEF Next

\* Every call of get and set returns the status of confd's answer to that very call, and
\* fails only if confd did not answer it (Service over Handler).
THEOREM Implementation == Spec => ImplementsRemoteCall
<1>1. Init => Calls!CallInit
  <2> SUFFICES ASSUME Init PROVE Calls!CallInit
    OBVIOUS
  <2>1. \A c \in Clients : pc[c] = "idle" /\ AnswerTo(c) = "none"
    <3>1. Arriving = {}
      BY DEF Init, Arriving, HandlerIdle
    <3>2. \A c \in Clients : info[c].response = Monostate
      BY DEF Init, DeletedBlock
    <3> QED
      BY <3>1, <3>2, NoAnswer DEF Init, AnswerTo, Monostate
  <2>2. type \in [Clients -> MsgTypes] /\ result = [c \in Clients |-> "none"]
    BY DEF Init, MsgTypes
  <2>3. {c \in Clients : pc[c] # "idle"} = {}
    BY <2>1
  <2> QED
    BY <2>1, <2>2, <2>3 DEF Calls!CallInit
<1>2. RepliesPlaced => SafeCalls
  BY DEF RepliesPlaced
<1> QED
  BY <1>1, <1>2, ImplementsStep, RepliesPlacedAlways, PTL
  DEF Spec, ImplementsRemoteCall, Calls!CallSpec

=============================================================================
