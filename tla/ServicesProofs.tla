---------------------------- MODULE ServicesProofs ----------------------------
(***************************************************************************)
(* Why two services that share a notification slot do not disturb each     *)
(* other while their callers wait without a limit, for every number of     *)
(* tasks and calls and every capacity: a slot belongs to the service in    *)
(* whose call its task waits, and nobody else notifies it.                 *)
(*                                                                         *)
(* Seen through its own slots each service behaves as if it were alone: a  *)
(* step of the composition is a step of it, or leaves it unchanged.  So    *)
(* what ConfdRpcProofs and ResMgrProofs prove of one holds of the two.     *)
(***************************************************************************)
EXTENDS Services, TLAPS

-----------------------------------------------------------------------------
(* The inductive invariant *)

\* The slots as one service sees them: those of the tasks that wait for it.
ConfdSlot == [c \in Clients |-> IF pc[c] = "waitNotify" THEN notify[c] ELSE NoNotification]
ResMgrSlot ==
  [c \in Clients |-> IF resPc[c] = "waitNotify" THEN notify[c] ELSE NoNotification]

\* The services with the slots that they see, and what is proved of each by itself.
CF == INSTANCE ConfdRpcProofs WITH notify <- ConfdSlot
RM == INSTANCE ResMgrProofs WITH
  Bodies <- ResBodies, notify <- ResMgrSlot,
  pc <- resPc, call <- resCall, hasReceivedMsg <- resReceivedMsg, msgRxSem <- resRxSem,
  toHost <- resToHost, inbox <- resInbox, handler <- resHandler

Notified(bit) == [bits |-> {bit}, pending |-> TRUE]

\* A task is in a call of one service, and what its slot holds comes from that one.
SlotOwned(c) ==
  /\ pc[c] = "idle" \/ resPc[c] = "idle"
  /\ \/ notify[c] = NoNotification
     \/ pc[c] = "waitNotify" /\ notify[c] = Notified("confd")
     \/ resPc[c] = "waitNotify" /\ notify[c] = Notified("resmgr")

SlotsOwned == notify \in [Clients -> Slot({"confd", "resmgr"})] /\ \A c \in Clients : SlotOwned(c)

\* The inductive invariant: each service is safe with the slots that it sees.
ServicesSafe == patient => SlotsOwned /\ CF!SafeCalls /\ RM!SafeRequests

-----------------------------------------------------------------------------
(* The theorems about one service apply to what it sees *)

LEMMA ConfdApplies == CF!ConfdAssumption
  BY ServicesAssumption DEF CF!ConfdAssumption, Confd!ConfdAssumption, CF!Bodies, Confd!Bodies

LEMMA ResMgrApplies == RM!ResMgrAssumption
  BY ServicesAssumption DEF RM!ResMgrAssumption, ResMgr!ResMgrAssumption, RM!AllBodies,
     ResMgr!AllBodies

LEMMA ConfdKeepsSafe == CF!SafeCalls /\ [CF!Next]_(CF!vars) => CF!SafeCalls'
  BY ConfdApplies, CF!SafeStep

LEMMA ResMgrKeepsSafe == RM!SafeRequests /\ [RM!Next]_(RM!vars) => RM!SafeRequests'
  BY ResMgrApplies, RM!SafeStep

-----------------------------------------------------------------------------
(* A confd step that leaves confd's slots alone is one of confd by itself *)

LEMMA ConfdClientSeen ==
  ASSUME NEW c \in Clients, ConfdSlot' = ConfdSlot, notify' = notify
  PROVE  /\ \A t \in CF!MsgTypes : Confd!BeginCall(c, t) => CF!BeginCall(c, t)
         /\ Confd!ReturnWithoutReply(c) => CF!ReturnWithoutReply(c)
         /\ Confd!ReturnBuffer(c) => CF!ReturnBuffer(c)
         /\ Confd!Collect(c) => CF!Collect(c)
         /\ Confd!RegisterTag(c) => CF!RegisterTag(c)
         /\ Confd!CheckRemote(c) => CF!CheckRemote(c)
         /\ Confd!AwaitRemote(c) => CF!AwaitRemote(c)
         /\ Confd!SendRequest(c) => CF!SendRequest(c)
         /\ Confd!SendFails(c) => CF!SendFails(c)
<1> USE DEF Confd!At, CF!At, Confd!Running, CF!Running, Confd!Goto, CF!Goto,
            Confd!endpointVars, CF!endpointVars, Confd!Halt, CF!Halt,
            Confd!DiscardBuffer, CF!DiscardBuffer, Confd!Current, CF!Current,
            Confd!DeletedBlock, CF!DeletedBlock, Confd!Monostate, CF!Monostate,
            Confd!NoPointer, CF!NoPointer
<1>1. \A t \in CF!MsgTypes : Confd!BeginCall(c, t) => CF!BeginCall(c, t)
  BY DEF Confd!BeginCall, CF!BeginCall, Confd!TakeBuffer, CF!TakeBuffer,
         Confd!EncodeRequest, CF!EncodeRequest
<1>2. Confd!ReturnWithoutReply(c) => CF!ReturnWithoutReply(c)
  BY DEF Confd!ReturnWithoutReply, CF!ReturnWithoutReply
<1>3. Confd!ReturnBuffer(c) => CF!ReturnBuffer(c)
  BY DEF Confd!ReturnBuffer, CF!ReturnBuffer
<1>4. Confd!Collect(c) => CF!Collect(c)
  BY DEF Confd!Collect, CF!Collect, Confd!StatusOf, CF!StatusOf
<1>5. Confd!RegisterTag(c) => CF!RegisterTag(c)
  BY DEF Confd!RegisterTag, CF!RegisterTag, Confd!IsNextTag, CF!IsNextTag, Confd!Ahead,
         CF!Ahead, Confd!Registered, CF!Registered, Confd!Tags, CF!Tags,
         Confd!Cardinality, CF!Cardinality
<1>6. Confd!CheckRemote(c) => CF!CheckRemote(c)
  BY DEF Confd!CheckRemote, CF!CheckRemote
<1>7. Confd!AwaitRemote(c) => CF!AwaitRemote(c)
  BY DEF Confd!AwaitRemote, CF!AwaitRemote, Confd!EP!TakeRxSem, CF!EP!TakeRxSem
<1>8. Confd!SendRequest(c) => CF!SendRequest(c)
  BY DEF Confd!SendRequest, CF!SendRequest
<1>9. Confd!SendFails(c) => CF!SendFails(c)
  BY DEF Confd!SendFails, CF!SendFails, Confd!SendFailed, CF!SendFailed
<1> QED
  BY <1>1, <1>2, <1>3, <1>4, <1>5, <1>6, <1>7, <1>8, <1>9

-----------------------------------------------------------------------------
(* Slots *)

\* What each service does to a slot that is its own, or that nobody uses.
LEMMA ConfdNotifies ==
  /\ Confd!WithoutBits(NoNotification, {Confd!kNotifyBit}) = NoNotification
  /\ Confd!WithBits(NoNotification, {Confd!kNotifyBit}) = Notified("confd")
  /\ Confd!Collected(Notified("confd"), {Confd!kNotifyBit}) = NoNotification
  /\ CF!WithoutBits(NoNotification, {CF!kNotifyBit}) = NoNotification
  /\ CF!WithBits(NoNotification, {CF!kNotifyBit}) = Notified("confd")
  /\ CF!Collected(Notified("confd"), {CF!kNotifyBit}) = NoNotification
<1>1. /\ {} \ {"confd"} = {} /\ {} \cup {"confd"} = {"confd"}
     /\ {"confd"} \ {"confd"} = {}
  OBVIOUS
<1>2. Confd!WithoutBits(NoNotification, {Confd!kNotifyBit}) = NoNotification
  BY <1>1 DEF Confd!WithoutBits, Confd!kNotifyBit, NoNotification
<1>3. Confd!WithBits(NoNotification, {Confd!kNotifyBit}) = Notified("confd")
  BY <1>1 DEF Confd!WithBits, Confd!kNotifyBit, NoNotification, Notified
<1>4. Confd!Collected(Notified("confd"), {Confd!kNotifyBit}) = NoNotification
  BY <1>1 DEF Confd!Collected, Confd!kNotifyBit, NoNotification, Notified
<1>5. CF!WithoutBits(NoNotification, {CF!kNotifyBit}) = NoNotification
  BY <1>1 DEF CF!WithoutBits, CF!kNotifyBit, NoNotification
<1>6. CF!WithBits(NoNotification, {CF!kNotifyBit}) = Notified("confd")
  BY <1>1 DEF CF!WithBits, CF!kNotifyBit, NoNotification, Notified
<1>7. CF!Collected(Notified("confd"), {CF!kNotifyBit}) = NoNotification
  BY <1>1 DEF CF!Collected, CF!kNotifyBit, NoNotification, Notified
<1> QED
  BY <1>2, <1>3, <1>4, <1>5, <1>6, <1>7

LEMMA ResMgrNotifies ==
  /\ ResMgr!WithoutBits(NoNotification, {ResMgr!kNotifyBit}) = NoNotification
  /\ ResMgr!WithBits(NoNotification, {ResMgr!kNotifyBit}) = Notified("resmgr")
  /\ ResMgr!Collected(Notified("resmgr"), {ResMgr!kNotifyBit}) = NoNotification
  /\ RM!WithoutBits(NoNotification, {RM!kNotifyBit}) = NoNotification
  /\ RM!WithBits(NoNotification, {RM!kNotifyBit}) = Notified("resmgr")
  /\ RM!Collected(Notified("resmgr"), {RM!kNotifyBit}) = NoNotification
<1>1. /\ {} \ {"resmgr"} = {} /\ {} \cup {"resmgr"} = {"resmgr"}
     /\ {"resmgr"} \ {"resmgr"} = {}
  OBVIOUS
<1>2. ResMgr!WithoutBits(NoNotification, {ResMgr!kNotifyBit}) = NoNotification
  BY <1>1 DEF ResMgr!WithoutBits, ResMgr!kNotifyBit, NoNotification
<1>3. ResMgr!WithBits(NoNotification, {ResMgr!kNotifyBit}) = Notified("resmgr")
  BY <1>1 DEF ResMgr!WithBits, ResMgr!kNotifyBit, NoNotification, Notified
<1>4. ResMgr!Collected(Notified("resmgr"), {ResMgr!kNotifyBit}) = NoNotification
  BY <1>1 DEF ResMgr!Collected, ResMgr!kNotifyBit, NoNotification, Notified
<1>5. RM!WithoutBits(NoNotification, {RM!kNotifyBit}) = NoNotification
  BY <1>1 DEF RM!WithoutBits, RM!kNotifyBit, NoNotification
<1>6. RM!WithBits(NoNotification, {RM!kNotifyBit}) = Notified("resmgr")
  BY <1>1 DEF RM!WithBits, RM!kNotifyBit, NoNotification, Notified
<1>7. RM!Collected(Notified("resmgr"), {RM!kNotifyBit}) = NoNotification
  BY <1>1 DEF RM!Collected, RM!kNotifyBit, NoNotification, Notified
<1> QED
  BY <1>2, <1>3, <1>4, <1>5, <1>6, <1>7

\* A step of a task that does not wait leaves what its service sees of the slots, and
\* their owners, as they are...
LEMMA ConfdSlotsKept ==
  ASSUME SlotsOwned, NEW c \in Clients, UNCHANGED <<notify, resPc>>,
         resPc[c] = "idle", pc[c] # "waitNotify",
         \A d \in Clients \ {c} : pc'[d] = pc[d]
  PROVE  ConfdSlot' = ConfdSlot /\ ResMgrSlot' = ResMgrSlot /\ SlotsOwned'
<1>1. notify[c] = NoNotification
  BY DEF SlotsOwned, SlotOwned
<1>2. ConfdSlot' = ConfdSlot /\ ResMgrSlot' = ResMgrSlot
  BY <1>1 DEF ConfdSlot, ResMgrSlot
<1> QED
  BY <1>1, <1>2 DEF SlotsOwned, SlotOwned

LEMMA ResMgrSlotsKept ==
  ASSUME SlotsOwned, NEW c \in Clients, UNCHANGED <<notify, pc>>,
         pc[c] = "idle", resPc[c] # "waitNotify",
         \A d \in Clients \ {c} : resPc'[d] = resPc[d]
  PROVE  ConfdSlot' = ConfdSlot /\ ResMgrSlot' = ResMgrSlot /\ SlotsOwned'
<1>1. notify[c] = NoNotification
  BY DEF SlotsOwned, SlotOwned
<1>2. ConfdSlot' = ConfdSlot /\ ResMgrSlot' = ResMgrSlot
  BY <1>1 DEF ConfdSlot, ResMgrSlot
<1> QED
  BY <1>1, <1>2 DEF SlotsOwned, SlotOwned

\* ... and so does a step that no task takes, if it notifies nobody.
LEMMA SlotsKept ==
  ASSUME SlotsOwned, UNCHANGED <<notify, pc, resPc>>
  PROVE  ConfdSlot' = ConfdSlot /\ ResMgrSlot' = ResMgrSlot /\ SlotsOwned'
BY DEF ConfdSlot, ResMgrSlot, SlotsOwned, SlotOwned

-----------------------------------------------------------------------------
(* Steps of the configuration service *)

LEMMA ConfdTaskStep ==
  ASSUME SlotsOwned, CF!SafeCalls, NEW c \in Clients, UNCHANGED resVars,
         \/ BeginConfd(c) \/ Confd!Proceed(c) \/ Confd!SendFails(c)
  PROVE  CF!Next /\ ResMgrSlot' = ResMgrSlot /\ SlotsOwned'
<1> USE DEF CF!SafeCalls, CF!TypeOK, resVars
<1> DEFINE Quiet ==
      /\ notify' = notify /\ resPc[c] = "idle" /\ pc[c] # "waitNotify"
      /\ \A d \in Clients \ {c} : pc'[d] = pc[d]
<1>2. ASSUME Quiet, ConfdSlot' = ConfdSlot /\ notify' = notify => CF!Next
      PROVE  CF!Next /\ ResMgrSlot' = ResMgrSlot /\ SlotsOwned'
  BY <1>2, ConfdSlotsKept
<1>3. pc[c] # "idle" => resPc[c] = "idle"
  BY DEF SlotsOwned, SlotOwned
<1> USE DEF Confd!At, Confd!Goto
<1>4. CASE BeginConfd(c)
  <2>1. PICK t \in CF!MsgTypes : Confd!BeginCall(c, t)
    BY <1>4 DEF BeginConfd, CF!MsgTypes
  <2>2. Quiet
    BY <1>4, <2>1 DEF BeginConfd, MayBegin, Confd!BeginCall, Confd!EncodeRequest
  <2>3. ConfdSlot' = ConfdSlot /\ notify' = notify => CF!Next
    BY <2>1, ConfdClientSeen DEF CF!Next
  <2> QED
    BY <1>2, <2>2, <2>3
<1>5. CASE Confd!ReturnWithoutReply(c)
  <2>1. Quiet
    BY <1>3, <1>5 DEF Confd!ReturnWithoutReply, Confd!DiscardBuffer
  <2>2. ConfdSlot' = ConfdSlot /\ notify' = notify => CF!Next
    BY <1>5, ConfdClientSeen DEF CF!Next, CF!Proceed
  <2> QED
    BY <1>2, <2>1, <2>2
<1>6. CASE Confd!ReturnBuffer(c)
  <2>1. Quiet
    BY <1>3, <1>6 DEF Confd!ReturnBuffer, Confd!DiscardBuffer
  <2>2. ConfdSlot' = ConfdSlot /\ notify' = notify => CF!Next
    BY <1>6, ConfdClientSeen DEF CF!Next, CF!Proceed
  <2> QED
    BY <1>2, <2>1, <2>2
<1>7. CASE Confd!Collect(c)
  <2>1. Quiet
    BY <1>3, <1>7 DEF Confd!Collect
  <2>2. ConfdSlot' = ConfdSlot /\ notify' = notify => CF!Next
    BY <1>7, ConfdClientSeen DEF CF!Next, CF!Proceed
  <2> QED
    BY <1>2, <2>1, <2>2
<1>8. CASE Confd!PrepareRequest(c)
  <2>1. notify[c] = NoNotification /\ resPc[c] = "idle"
    BY <1>3, <1>8 DEF SlotsOwned, SlotOwned, Confd!PrepareRequest
  <2>2. notify' = notify
    BY <1>8, <2>1, ConfdNotifies DEF Confd!PrepareRequest, SlotsOwned
  <2>3. Quiet
    BY <1>8, <2>1, <2>2 DEF Confd!PrepareRequest
  <2>4. ConfdSlot = [ConfdSlot EXCEPT ![c] = CF!WithoutBits(@, {CF!kNotifyBit})]
    BY <2>1, ConfdNotifies DEF ConfdSlot
  <2>5. ConfdSlot' = ConfdSlot => CF!PrepareRequest(c)
    BY <1>8, <2>4 DEF Confd!PrepareRequest, CF!PrepareRequest, CF!At, CF!Goto, CF!Running,
       Confd!Running, CF!DeletedBlock, Confd!DeletedBlock, CF!Monostate, Confd!Monostate,
       CF!NoPointer, Confd!NoPointer, CF!endpointVars, Confd!endpointVars
  <2> QED
    BY <1>2, <2>3, <2>5 DEF CF!Next, CF!Proceed
<1>9. CASE Confd!RegisterTag(c)
  <2>1. Quiet
    BY <1>3, <1>9 DEF Confd!RegisterTag
  <2>2. ConfdSlot' = ConfdSlot /\ notify' = notify => CF!Next
    BY <1>9, ConfdClientSeen DEF CF!Next, CF!Proceed
  <2> QED
    BY <1>2, <2>1, <2>2
<1>10. CASE Confd!CheckRemote(c)
  <2>1. Quiet
    BY <1>3, <1>10 DEF Confd!CheckRemote
  <2>2. ConfdSlot' = ConfdSlot /\ notify' = notify => CF!Next
    BY <1>10, ConfdClientSeen DEF CF!Next, CF!Proceed
  <2> QED
    BY <1>2, <2>1, <2>2
<1>11. CASE Confd!AwaitRemote(c)
  <2>1. Quiet
    BY <1>3, <1>11 DEF Confd!AwaitRemote
  <2>2. ConfdSlot' = ConfdSlot /\ notify' = notify => CF!Next
    BY <1>11, ConfdClientSeen DEF CF!Next, CF!Proceed
  <2> QED
    BY <1>2, <2>1, <2>2
<1>12. CASE Confd!SendRequest(c)
  <2>1. Quiet
    BY <1>3, <1>12 DEF Confd!SendRequest
  <2>2. ConfdSlot' = ConfdSlot /\ notify' = notify => CF!Next
    BY <1>12, ConfdClientSeen DEF CF!Next, CF!Proceed
  <2> QED
    BY <1>2, <2>1, <2>2
<1>13. CASE Confd!SendFails(c)
  <2>1. Quiet
    BY <1>3, <1>13 DEF Confd!SendFails, Confd!SendFailed
  <2>2. ConfdSlot' = ConfdSlot /\ notify' = notify => CF!Next
    BY <1>13, ConfdClientSeen DEF CF!Next
  <2> QED
    BY <1>2, <2>1, <2>2
<1>14. CASE Confd!WakeUp(c)
  <2>1. resPc[c] = "idle" /\ notify[c] = Notified("confd") /\ ConfdSlot[c] = notify[c]
    BY <1>3, <1>14 DEF SlotsOwned, SlotOwned, Confd!WakeUp, NoNotification, ConfdSlot
  <2>2. notify' = [notify EXCEPT ![c] = NoNotification]
    BY <1>14, <2>1, ConfdNotifies DEF Confd!WakeUp
  <2>3. pc' = [pc EXCEPT ![c] = "answered"] /\ pc[c] = "waitNotify"
    BY <1>14 DEF Confd!WakeUp
  <2>5. ConfdSlot' = [ConfdSlot EXCEPT ![c] = CF!Collected(@, {CF!kNotifyBit})]
    <3>1. ConfdSlot' = [ConfdSlot EXCEPT ![c] = NoNotification]
      BY <2>1, <2>2, <2>3 DEF ConfdSlot, SlotsOwned
    <3> QED
      BY <2>1, <3>1, ConfdNotifies
  <2>6. ResMgrSlot' = ResMgrSlot
    BY <2>1, <2>2 DEF ResMgrSlot, SlotsOwned
  <2>7. CF!WakeUp(c)
    BY <1>14, <2>1, <2>5 DEF Confd!WakeUp, CF!WakeUp, CF!At, CF!Goto, CF!Running,
       Confd!Running, CF!endpointVars, Confd!endpointVars
  <2>8. SlotsOwned'
    BY <2>1, <2>2, <2>3 DEF SlotsOwned, SlotOwned, Slot, NoNotification
  <2> QED
    BY <2>6, <2>7, <2>8 DEF CF!Next, CF!Proceed
<1> QED
  BY <1>4, <1>5, <1>6, <1>7, <1>8, <1>9, <1>10, <1>11, <1>12, <1>13, <1>14 DEF Confd!Proceed

LEMMA ConfdHandlerSeen ==
  ASSUME ConfdSlot' = ConfdSlot, notify' = notify
  PROVE  /\ Confd!HandleOther => CF!HandleOther
         /\ \A m \in inbox : Confd!HandleReply(m) => CF!HandleReply(m)
         /\ Confd!Decode => CF!Decode
         /\ Confd!HostStep => CF!HostStep
<1> USE DEF Confd!Running, CF!Running, Confd!clientVars, CF!clientVars, Confd!endpointVars,
            CF!endpointVars, Confd!EP!MessageSeen, CF!EP!MessageSeen, Confd!NoPointer,
            CF!NoPointer, Confd!Valid, CF!Valid, Confd!Halt, CF!Halt
<1>1. Confd!HandleOther => CF!HandleOther
  BY DEF Confd!HandleOther, CF!HandleOther
<1>2. \A m \in inbox : Confd!HandleReply(m) => CF!HandleReply(m)
  BY DEF Confd!HandleReply, CF!HandleReply
<1>3. Confd!Decode => CF!Decode
  BY DEF Confd!Decode, CF!Decode, Confd!Decoded, CF!Decoded
<1>4. Confd!HostStep => CF!HostStep
  BY DEF Confd!HostStep, CF!HostStep, Confd!HostAnswers, CF!HostAnswers
<1> QED
  BY <1>1, <1>2, <1>3, <1>4

LEMMA ConfdHandlerStep ==
  ASSUME SlotsOwned, CF!SafeCalls, UNCHANGED resVars,
         Confd!HandleOther \/ Confd!HandlerStep \/ Confd!HostStep
  PROVE  CF!Next /\ ResMgrSlot' = ResMgrSlot /\ SlotsOwned'
<1> USE DEF resVars, Confd!clientVars
<1>1. CASE Confd!HandleOther
  <2>1. UNCHANGED <<notify, pc, resPc>>
    BY <1>1 DEF Confd!HandleOther
  <2> QED
    BY <1>1, <2>1, SlotsKept, ConfdHandlerSeen DEF CF!Next
<1>2. ASSUME NEW m \in inbox, Confd!HandleReply(m)
      PROVE  CF!Next /\ ResMgrSlot' = ResMgrSlot /\ SlotsOwned'
  <2>1. UNCHANGED <<notify, pc, resPc>>
    BY <1>2 DEF Confd!HandleReply
  <2> QED
    BY <1>2, <2>1, SlotsKept, ConfdHandlerSeen DEF CF!Next, CF!HandlerStep
<1>3. CASE Confd!Decode
  <2>1. UNCHANGED <<notify, pc, resPc>>
    BY <1>3 DEF Confd!Decode
  <2> QED
    BY <1>3, <2>1, SlotsKept, ConfdHandlerSeen DEF CF!Next, CF!HandlerStep
<1>4. CASE Confd!HostStep
  <2>1. UNCHANGED <<notify, pc, resPc>>
    BY <1>4 DEF Confd!HostStep, Confd!HostAnswers
  <2> QED
    BY <1>4, <2>1, SlotsKept, ConfdHandlerSeen DEF CF!Next
<1>5. CASE Confd!NotifyCaller
  <2> DEFINE c == handler.info.task
  <2>1. c \in Clients /\ pc[c] = "waitNotify" /\ ~ConfdSlot[c].pending
    BY <1>5 DEF CF!SafeCalls, CF!HandlerAwaited, CF!Awaits, Confd!NotifyCaller
  <2>2. notify[c] = NoNotification /\ resPc[c] = "idle" /\ ConfdSlot[c] = NoNotification
    BY <2>1 DEF SlotsOwned, SlotOwned, ConfdSlot, Notified
  <2>3. UNCHANGED <<pc, resPc>>
    BY <1>5 DEF Confd!NotifyCaller
  <2>4. CASE notify' = notify
    <3>1. ConfdSlot' = ConfdSlot /\ ResMgrSlot' = ResMgrSlot /\ SlotsOwned'
      BY <2>3, <2>4, SlotsKept
    <3>2. ~Confd!Valid(handler.info)
      BY <1>5, <2>1, <2>2, <2>4, ConfdNotifies
         DEF Confd!NotifyCaller, SlotsOwned, Notified, NoNotification
    <3>3. CF!NotifyCaller
      BY <1>5, <2>4, <3>1, <3>2 DEF Confd!NotifyCaller, CF!NotifyCaller, Confd!Running,
         CF!Running, CF!clientVars, Confd!endpointVars, CF!endpointVars, Confd!Valid,
         CF!Valid, Confd!NoPointer, CF!NoPointer, Confd!Halt, CF!Halt
    <3> QED
      BY <3>1, <3>3 DEF CF!Next, CF!HandlerStep
  <2>5. CASE notify' # notify
    <3>1. /\ Confd!Valid(handler.info) /\ handler' = Confd!HandlerIdle /\ UNCHANGED halted
          /\ notify' = [notify EXCEPT ![c] = Notified("confd")]
      BY <1>5, <2>2, <2>5, ConfdNotifies DEF Confd!NotifyCaller
    <3>2. ConfdSlot' = [ConfdSlot EXCEPT ![c] = CF!WithBits(@, {CF!kNotifyBit})]
      <4>1. ConfdSlot' = [ConfdSlot EXCEPT ![c] = Notified("confd")]
        BY <2>1, <2>3, <3>1 DEF ConfdSlot, SlotsOwned
      <4> QED
        BY <2>2, <4>1, ConfdNotifies
    <3>3. CF!NotifyCaller
      BY <1>5, <3>1, <3>2 DEF Confd!NotifyCaller, CF!NotifyCaller, Confd!Running,
         CF!Running, CF!clientVars, Confd!endpointVars, CF!endpointVars, Confd!Valid,
         CF!Valid, Confd!NoPointer, CF!NoPointer, Confd!HandlerIdle, CF!HandlerIdle,
         Confd!NoReply, CF!NoReply
    <3>4. ResMgrSlot' = ResMgrSlot
      BY <2>2, <2>3, <3>1 DEF ResMgrSlot, SlotsOwned
    <3>5. SlotsOwned'
      BY <2>1, <2>2, <2>3, <3>1 DEF SlotsOwned, SlotOwned, Slot, Notified
    <3> QED
      BY <3>3, <3>4, <3>5 DEF CF!Next, CF!HandlerStep
  <2> QED
    BY <2>4, <2>5
<1> QED
  BY <1>1, <1>2, <1>3, <1>4, <1>5 DEF Confd!HandlerStep

-----------------------------------------------------------------------------
(* Steps of the resource manager *)

LEMMA ResMgrTaskSeen ==
  ASSUME NEW c \in Clients, ResMgrSlot' = ResMgrSlot, notify' = notify
  PROVE  /\ \A r \in RM!ResourceTypes : ResMgr!BeginCall(c, r) => RM!BeginCall(c, r)
         /\ ResMgr!RejectCall(c) => RM!RejectCall(c)
         /\ ResMgr!TakeLock(c) => RM!TakeLock(c)
         /\ ResMgr!CheckRemote(c) => RM!CheckRemote(c)
         /\ ResMgr!AwaitRemote(c) => RM!AwaitRemote(c)
         /\ ResMgr!SendRequest(c) => RM!SendRequest(c)
         /\ ResMgr!MeasureReply(c) => RM!MeasureReply(c)
         /\ ResMgr!DecodeResponse(c) => RM!DecodeResponse(c)
         /\ ResMgr!GiveLock(c) => RM!GiveLock(c)
         /\ ResMgr!SendFails(c) => RM!SendFails(c)
<1> USE DEF ResMgr!At, RM!At, ResMgr!Goto, RM!Goto, ResMgr!Finish, RM!Finish,
            ResMgr!callVars, RM!callVars, ResMgr!endpointVars, RM!endpointVars,
            ResMgr!NoTask, RM!NoTask, ResMgr!NoPointer, RM!NoPointer, ResMgr!Current,
            RM!Current
<1>1. \A r \in RM!ResourceTypes : ResMgr!BeginCall(c, r) => RM!BeginCall(c, r)
  BY DEF ResMgr!BeginCall, RM!BeginCall
<1>2. ResMgr!RejectCall(c) => RM!RejectCall(c)
  BY DEF ResMgr!RejectCall, RM!RejectCall
<1>3. ResMgr!TakeLock(c) => RM!TakeLock(c)
  BY DEF ResMgr!TakeLock, RM!TakeLock
<1>4. ResMgr!CheckRemote(c) => RM!CheckRemote(c)
  BY DEF ResMgr!CheckRemote, RM!CheckRemote
<1>5. ResMgr!AwaitRemote(c) => RM!AwaitRemote(c)
  BY DEF ResMgr!AwaitRemote, RM!AwaitRemote, ResMgr!EP!TakeRxSem, RM!EP!TakeRxSem
<1>6. ResMgr!SendRequest(c) => RM!SendRequest(c)
  BY DEF ResMgr!SendRequest, RM!SendRequest
<1>7. ResMgr!MeasureReply(c) => RM!MeasureReply(c)
  BY DEF ResMgr!MeasureReply, RM!MeasureReply
<1>8. ResMgr!DecodeResponse(c) => RM!DecodeResponse(c)
  BY DEF ResMgr!DecodeResponse, RM!DecodeResponse, ResMgr!Decoded, RM!Decoded
<1>9. ResMgr!GiveLock(c) => RM!GiveLock(c)
  BY DEF ResMgr!GiveLock, RM!GiveLock
<1>10. ResMgr!SendFails(c) => RM!SendFails(c)
  BY DEF ResMgr!SendFails, RM!SendFails, ResMgr!SendFailed, RM!SendFailed
<1> QED
  BY <1>1, <1>2, <1>3, <1>4, <1>5, <1>6, <1>7, <1>8, <1>9, <1>10

LEMMA ResMgrTaskStep ==
  ASSUME SlotsOwned, RM!SafeRequests, NEW c \in Clients, UNCHANGED confdVars,
         \/ BeginResMgr(c) \/ ResMgr!Proceed(c) \/ ResMgr!SendFails(c)
  PROVE  RM!Next /\ ConfdSlot' = ConfdSlot /\ SlotsOwned'
<1> USE DEF RM!SafeRequests, RM!TypeOK, confdVars
<1> DEFINE Quiet ==
      /\ notify' = notify /\ pc[c] = "idle" /\ resPc[c] # "waitNotify"
      /\ \A d \in Clients \ {c} : resPc'[d] = resPc[d]
<1>2. ASSUME Quiet, ResMgrSlot' = ResMgrSlot /\ notify' = notify => RM!Next
      PROVE  RM!Next /\ ConfdSlot' = ConfdSlot /\ SlotsOwned'
  BY <1>2, ResMgrSlotsKept
<1>3. resPc[c] # "idle" => pc[c] = "idle"
  BY DEF SlotsOwned, SlotOwned
<1> USE DEF ResMgr!At, ResMgr!Goto, ResMgr!Finish
<1>4. CASE BeginResMgr(c)
  <2>1. PICK r \in RM!ResourceTypes : ResMgr!BeginCall(c, r)
    BY <1>4 DEF BeginResMgr, RM!ResourceTypes
  <2>2. Quiet
    BY <1>4, <2>1 DEF BeginResMgr, MayBegin, ResMgr!BeginCall
  <2>3. ResMgrSlot' = ResMgrSlot /\ notify' = notify => RM!Next
    BY <2>1, ResMgrTaskSeen DEF RM!Next
  <2> QED
    BY <1>2, <2>2, <2>3
<1>5. CASE ResMgr!RejectCall(c)
  <2>1. Quiet
    BY <1>3, <1>5 DEF ResMgr!RejectCall
  <2>2. ResMgrSlot' = ResMgrSlot /\ notify' = notify => RM!Next
    BY <1>5, ResMgrTaskSeen DEF RM!Next, RM!Proceed
  <2> QED
    BY <1>2, <2>1, <2>2
<1>6. CASE ResMgr!TakeLock(c)
  <2>1. Quiet
    BY <1>3, <1>6 DEF ResMgr!TakeLock
  <2>2. ResMgrSlot' = ResMgrSlot /\ notify' = notify => RM!Next
    BY <1>6, ResMgrTaskSeen DEF RM!Next, RM!Proceed
  <2> QED
    BY <1>2, <2>1, <2>2
<1>7. CASE ResMgr!CheckRemote(c)
  <2>1. Quiet
    BY <1>3, <1>7 DEF ResMgr!CheckRemote
  <2>2. ResMgrSlot' = ResMgrSlot /\ notify' = notify => RM!Next
    BY <1>7, ResMgrTaskSeen DEF RM!Next, RM!Proceed
  <2> QED
    BY <1>2, <2>1, <2>2
<1>8. CASE ResMgr!AwaitRemote(c)
  <2>1. Quiet
    BY <1>3, <1>8 DEF ResMgr!AwaitRemote
  <2>2. ResMgrSlot' = ResMgrSlot /\ notify' = notify => RM!Next
    BY <1>8, ResMgrTaskSeen DEF RM!Next, RM!Proceed
  <2> QED
    BY <1>2, <2>1, <2>2
<1>9. CASE ResMgr!SendRequest(c)
  <2>1. Quiet
    BY <1>3, <1>9 DEF ResMgr!SendRequest
  <2>2. ResMgrSlot' = ResMgrSlot /\ notify' = notify => RM!Next
    BY <1>9, ResMgrTaskSeen DEF RM!Next, RM!Proceed
  <2> QED
    BY <1>2, <2>1, <2>2
<1>10. CASE ResMgr!MeasureReply(c)
  <2>1. Quiet
    BY <1>3, <1>10 DEF ResMgr!MeasureReply
  <2>2. ResMgrSlot' = ResMgrSlot /\ notify' = notify => RM!Next
    BY <1>10, ResMgrTaskSeen DEF RM!Next, RM!Proceed
  <2> QED
    BY <1>2, <2>1, <2>2
<1>11. CASE ResMgr!DecodeResponse(c)
  <2>1. Quiet
    BY <1>3, <1>11 DEF ResMgr!DecodeResponse
  <2>2. ResMgrSlot' = ResMgrSlot /\ notify' = notify => RM!Next
    BY <1>11, ResMgrTaskSeen DEF RM!Next, RM!Proceed
  <2> QED
    BY <1>2, <2>1, <2>2
<1>12. CASE ResMgr!GiveLock(c)
  <2>1. Quiet
    BY <1>3, <1>12 DEF ResMgr!GiveLock
  <2>2. ResMgrSlot' = ResMgrSlot /\ notify' = notify => RM!Next
    BY <1>12, ResMgrTaskSeen DEF RM!Next, RM!Proceed
  <2> QED
    BY <1>2, <2>1, <2>2
<1>13. CASE ResMgr!SendFails(c)
  <2>1. Quiet
    BY <1>3, <1>13 DEF ResMgr!SendFails, ResMgr!SendFailed
  <2>2. ResMgrSlot' = ResMgrSlot /\ notify' = notify => RM!Next
    BY <1>13, ResMgrTaskSeen DEF RM!Next
  <2> QED
    BY <1>2, <2>1, <2>2
<1>14. CASE ResMgr!PrepareRequest(c)
  <2>1. notify[c] = NoNotification /\ pc[c] = "idle"
    BY <1>3, <1>14 DEF SlotsOwned, SlotOwned, ResMgr!PrepareRequest
  <2>2. notify' = notify
    BY <1>14, <2>1, ResMgrNotifies DEF ResMgr!PrepareRequest, SlotsOwned
  <2>3. Quiet
    BY <1>14, <2>1, <2>2 DEF ResMgr!PrepareRequest
  <2>4. ResMgrSlot = [ResMgrSlot EXCEPT ![c] = RM!WithoutBits(@, {RM!kNotifyBit})]
    BY <2>1, ResMgrNotifies DEF ResMgrSlot
  <2>5. ResMgrSlot' = ResMgrSlot => RM!PrepareRequest(c)
    BY <1>14, <2>4 DEF ResMgr!PrepareRequest, RM!PrepareRequest, RM!At, RM!Goto,
       RM!callVars, ResMgr!callVars, RM!endpointVars, ResMgr!endpointVars
  <2> QED
    BY <1>2, <2>3, <2>5 DEF RM!Next, RM!Proceed
<1>15. CASE ResMgr!WakeUp(c)
  <2>1. pc[c] = "idle" /\ notify[c] = Notified("resmgr") /\ ResMgrSlot[c] = notify[c]
    BY <1>3, <1>15 DEF SlotsOwned, SlotOwned, ResMgr!WakeUp, NoNotification, ResMgrSlot
  <2>2. notify' = [notify EXCEPT ![c] = NoNotification]
    BY <1>15, <2>1, ResMgrNotifies DEF ResMgr!WakeUp
  <2>3. resPc' = [resPc EXCEPT ![c] = "measure"] /\ resPc[c] = "waitNotify"
    BY <1>15 DEF ResMgr!WakeUp
  <2>4. ResMgrSlot' = [ResMgrSlot EXCEPT ![c] = RM!Collected(@, {RM!kNotifyBit})]
    <3>1. ResMgrSlot' = [ResMgrSlot EXCEPT ![c] = NoNotification]
      BY <2>1, <2>2, <2>3 DEF ResMgrSlot, SlotsOwned
    <3> QED
      BY <2>1, <3>1, ResMgrNotifies
  <2>5. ConfdSlot' = ConfdSlot
    BY <2>1, <2>2 DEF ConfdSlot, SlotsOwned
  <2>6. RM!WakeUp(c)
    BY <1>15, <2>1, <2>4 DEF ResMgr!WakeUp, RM!WakeUp, RM!At, RM!Goto, RM!callVars,
       ResMgr!callVars, RM!endpointVars, ResMgr!endpointVars
  <2>7. SlotsOwned'
    BY <2>1, <2>2, <2>3 DEF SlotsOwned, SlotOwned, Slot, NoNotification
  <2> QED
    BY <2>5, <2>6, <2>7 DEF RM!Next, RM!Proceed
<1> QED
  BY <1>4, <1>5, <1>6, <1>7, <1>8, <1>9, <1>10, <1>11, <1>12, <1>13, <1>14, <1>15 DEF ResMgr!Proceed

LEMMA ResMgrHandlerSeen ==
  ASSUME ResMgrSlot' = ResMgrSlot, notify' = notify
  PROVE  /\ ResMgr!HandleOther => RM!HandleOther
         /\ ResMgr!ForgetWaitingTask => RM!ForgetWaitingTask
         /\ \A m \in resToHost, body \in ResBodies :
              ResMgr!HostAnswers(m, body) => RM!HostAnswers(m, body)
<1> USE DEF ResMgr!callVars, RM!callVars, ResMgr!endpointVars, RM!endpointVars,
            ResMgr!EP!MessageSeen, RM!EP!MessageSeen, ResMgr!NoTask, RM!NoTask
<1>1. ResMgr!HandleOther => RM!HandleOther
  BY DEF ResMgr!HandleOther, RM!HandleOther
<1>2. ResMgr!ForgetWaitingTask => RM!ForgetWaitingTask
  BY DEF ResMgr!ForgetWaitingTask, RM!ForgetWaitingTask
<1>3. \A m \in resToHost, body \in ResBodies :
        ResMgr!HostAnswers(m, body) => RM!HostAnswers(m, body)
  BY DEF ResMgr!HostAnswers, RM!HostAnswers
<1> QED
  BY <1>1, <1>2, <1>3

LEMMA ResMgrHandlerStep ==
  ASSUME SlotsOwned, RM!SafeRequests, UNCHANGED confdVars,
         \/ ResMgr!HandleOther \/ ResMgr!HandlerStep
         \/ \E m \in resToHost, body \in ResBodies : ResMgr!HostAnswers(m, body)
  PROVE  RM!Next /\ ConfdSlot' = ConfdSlot /\ SlotsOwned'
<1> USE DEF confdVars
<1>1. CASE ResMgr!HandleOther
  <2>1. UNCHANGED <<notify, pc, resPc>>
    BY <1>1 DEF ResMgr!HandleOther
  <2> QED
    BY <1>1, <2>1, SlotsKept, ResMgrHandlerSeen DEF RM!Next
<1>2. CASE ResMgr!ForgetWaitingTask
  <2>1. UNCHANGED <<notify, pc, resPc>>
    BY <1>2 DEF ResMgr!ForgetWaitingTask
  <2> QED
    BY <1>2, <2>1, SlotsKept, ResMgrHandlerSeen DEF RM!Next, RM!HandlerStep
<1>3. ASSUME NEW m \in resToHost, NEW body \in ResBodies, ResMgr!HostAnswers(m, body)
      PROVE  RM!Next /\ ConfdSlot' = ConfdSlot /\ SlotsOwned'
  <2>1. UNCHANGED <<notify, pc, resPc>>
    BY <1>3 DEF ResMgr!HostAnswers
  <2> QED
    BY <1>3, <2>1, SlotsKept, ResMgrHandlerSeen DEF RM!Next, RM!HostStep
<1>4. ASSUME NEW m \in resInbox, ResMgr!HandleReply(m)
      PROVE  RM!Next /\ ConfdSlot' = ConfdSlot /\ SlotsOwned'
  <2>1. UNCHANGED <<pc, resPc>>
    BY <1>4 DEF ResMgr!HandleReply
  <2>2. CASE waitingTask = RM!NoTask
    <3>1. notify' = notify
      BY <1>4, <2>2 DEF ResMgr!HandleReply, ResMgr!NoTask, RM!NoTask
    <3>2. ConfdSlot' = ConfdSlot /\ ResMgrSlot' = ResMgrSlot /\ SlotsOwned'
      BY <2>1, <3>1, SlotsKept
    <3>3. RM!HandleReply(m)
      BY <1>4, <2>2, <3>1, <3>2 DEF ResMgr!HandleReply, RM!HandleReply, ResMgr!callVars,
         RM!callVars, ResMgr!EP!MessageSeen, RM!EP!MessageSeen, ResMgr!NoTask, RM!NoTask
    <3> QED
      BY <3>2, <3>3 DEF RM!Next, RM!HandlerStep
  <2>3. CASE waitingTask # RM!NoTask
    <3> DEFINE c == m.for.task
    <3>1. /\ c \in Clients /\ resPc[c] = "waitNotify" /\ ~ResMgrSlot[c].pending
          /\ waitingTask = c
      BY <2>3 DEF RM!SafeRequests, RM!WireAwaited, RM!Wire, RM!Awaits, RM!RequestSafe,
         RM!PendingAnswered, RM!HasReply, RM!WaitingTaskKnown
    <3>2. notify[c] = NoNotification /\ pc[c] = "idle" /\ ResMgrSlot[c] = NoNotification
      BY <3>1 DEF SlotsOwned, SlotOwned, ResMgrSlot, Notified
    <3>3. notify' = [notify EXCEPT ![c] = Notified("resmgr")] /\ resHandler' = "notified"
      BY <1>4, <2>3, <3>1, <3>2, ResMgrNotifies
         DEF ResMgr!HandleReply, ResMgr!NoTask, RM!NoTask
    <3>4. ResMgrSlot' = [ResMgrSlot EXCEPT ![c] = RM!WithBits(@, {RM!kNotifyBit})]
      <4>1. ResMgrSlot' = [ResMgrSlot EXCEPT ![c] = Notified("resmgr")]
        BY <2>1, <3>1, <3>3 DEF ResMgrSlot, SlotsOwned
      <4> QED
        BY <3>2, <4>1, ResMgrNotifies
    <3>5. RM!HandleReply(m)
      BY <1>4, <2>3, <3>1, <3>3, <3>4 DEF ResMgr!HandleReply, RM!HandleReply,
         ResMgr!callVars, RM!callVars, ResMgr!EP!MessageSeen, RM!EP!MessageSeen
    <3>6. ConfdSlot' = ConfdSlot
      BY <2>1, <3>2, <3>3 DEF ConfdSlot, SlotsOwned
    <3>7. SlotsOwned'
      BY <2>1, <3>1, <3>2, <3>3 DEF SlotsOwned, SlotOwned, Slot, Notified
    <3> QED
      BY <3>5, <3>6, <3>7 DEF RM!Next, RM!HandlerStep
  <2> QED
    BY <2>2, <2>3
<1> QED
  BY <1>1, <1>2, <1>3, <1>4 DEF ResMgr!HandlerStep

-----------------------------------------------------------------------------
(* The two together *)

LEMMA EachInit == ServicesInit => CF!Init /\ RM!Init /\ SlotsOwned
<1> SUFFICES ASSUME ServicesInit PROVE CF!Init /\ RM!Init /\ SlotsOwned
  OBVIOUS
<1>1. /\ notify = [c \in Clients |-> NoNotification]
      /\ pc = [c \in Clients |-> "idle"] /\ resPc = [c \in Clients |-> "idle"]
  BY DEF ServicesInit, Confd!Init, ResMgr!Init, Confd!NoNotification, NoNotification
<1>2. /\ ConfdSlot = [c \in Clients |-> CF!NoNotification]
      /\ ResMgrSlot = [c \in Clients |-> RM!NoNotification]
  BY <1>1 DEF ConfdSlot, ResMgrSlot, CF!NoNotification, RM!NoNotification, NoNotification
<1>3. CF!Init
  BY <1>2 DEF ServicesInit, Confd!Init, CF!Init, Confd!EP!EndpointInit, CF!EP!EndpointInit,
     Confd!DeletedBlock, CF!DeletedBlock, Confd!Monostate, CF!Monostate, Confd!NoPointer,
     CF!NoPointer, Confd!HandlerIdle, CF!HandlerIdle, Confd!NoReply, CF!NoReply, Confd!Tags,
     CF!Tags
<1>4. RM!Init
  BY <1>2 DEF ServicesInit, ResMgr!Init, RM!Init, ResMgr!EP!EndpointInit,
     RM!EP!EndpointInit, ResMgr!NoPointer, RM!NoPointer, ResMgr!NoTask, RM!NoTask,
     ResMgr!NoReply, RM!NoReply
<1>5. SlotsOwned
  BY <1>1 DEF SlotsOwned, SlotOwned, Slot, NoNotification
<1> QED
  BY <1>3, <1>4, <1>5

\* What a step of the composition is for each service.
LEMMA EachStep ==
  ASSUME patient, ServicesSafe, [ServicesNext]_serviceVars
  PROVE  /\ [CF!Next]_(CF!vars) /\ [RM!Next]_(RM!vars)
         /\ SlotsOwned' /\ patient'
<1> DEFINE Each ==
      [CF!Next]_(CF!vars) /\ [RM!Next]_(RM!vars) /\ SlotsOwned' /\ patient'
<1> SUFFICES Each
  OBVIOUS
<1> USE DEF ServicesSafe
<1>1. ASSUME UNCHANGED <<patient, resVars>>,
             CF!Next /\ ResMgrSlot' = ResMgrSlot /\ SlotsOwned'
      PROVE  Each
  BY <1>1 DEF resVars, RM!vars
<1>2. ASSUME UNCHANGED <<patient, confdVars>>,
             RM!Next /\ ConfdSlot' = ConfdSlot /\ SlotsOwned'
      PROVE  Each
  BY <1>2 DEF confdVars, CF!vars
<1>3. ASSUME NEW c \in Clients, UNCHANGED <<patient, resVars>>,
             BeginConfd(c) \/ Confd!Proceed(c) \/ Confd!SendFails(c)
      PROVE  Each
  BY <1>1, <1>3, ConfdTaskStep
<1>4. ASSUME NEW c \in Clients, UNCHANGED <<patient, confdVars>>,
             BeginResMgr(c) \/ ResMgr!Proceed(c) \/ ResMgr!SendFails(c)
      PROVE  Each
  BY <1>2, <1>4, ResMgrTaskStep
<1>5. ASSUME NEW c \in Clients,
             \/ BeginConfd(c) /\ ConfdOnly
             \/ BeginResMgr(c) /\ ResMgrOnly
             \/ ConfdStep(c) \/ ResMgrStep(c) \/ SendFails(c)
      PROVE  Each
  BY <1>3, <1>4, <1>5 DEF ConfdStep, ResMgrStep, SendFails, ConfdOnly, ResMgrOnly
<1>6. CASE MessageStep
  BY <1>1, <1>2, <1>6, ConfdHandlerStep, ResMgrHandlerStep DEF MessageStep, ResMgrOnly
<1>7. CASE HostAlive
  BY <1>1, <1>2, <1>7, ConfdHandlerStep, ResMgrHandlerStep DEF HostAlive, ResMgrOnly
<1>8. CASE HostReplies
  BY <1>1, <1>2, <1>8, ConfdHandlerStep, ResMgrHandlerStep DEF HostReplies, ResMgrOnly,
     ResMgr!HostStep
<1>9. CASE UNCHANGED serviceVars
  BY <1>9, SlotsKept DEF serviceVars, confdVars, resVars, CF!vars, RM!vars
<1> QED
  BY <1>5, <1>6, <1>7, <1>8, <1>9 DEF ServicesNext

LEMMA ServicesSafeInit == ServicesInit => ServicesSafe
  BY EachInit, ConfdApplies, CF!SafeInit, ResMgrApplies, RM!SafeInit DEF ServicesSafe

LEMMA ServicesSafeStep == ServicesSafe /\ [ServicesNext]_serviceVars => ServicesSafe'
<1> SUFFICES ASSUME ServicesSafe, [ServicesNext]_serviceVars PROVE ServicesSafe'
  OBVIOUS
<1>1. CASE patient
  BY <1>1, EachStep, ConfdKeepsSafe, ResMgrKeepsSafe DEF ServicesSafe
<1>2. CASE ~patient
  <2>1. patient' = patient
    BY DEF ServicesNext, ConfdStep, ResMgrStep, SendFails, ConfdOnly, ResMgrOnly, MessageStep,
       HostAlive, HostReplies, serviceVars
  <2> QED
    BY <1>2, <2>1 DEF ServicesSafe
<1> QED
  BY <1>1, <1>2

\* The inductive invariant: with callers that wait without a limit a slot belongs to the
\* service whose reply its task waits for, and each service is safe with what it sees.
THEOREM ServicesAreSafe == ServicesSpec => []ServicesSafe
<1> QED
  BY ServicesSafeInit, ServicesSafeStep, PTL DEF ServicesSpec, ServicesSafety

\* Sharing a slot, a message handler and a panic, each service behaves as it does alone:
\* whatever holds of either by itself holds of the two together (Confd::Handler and
\* ResourceManager::Handler, sendRequestAndBlock and handleMessage).
THEOREM EachAsIfAlone == ServicesSpec => (patient => CF!Spec /\ RM!Spec)
<1>1. ServicesInit => CF!Init /\ RM!Init
  BY EachInit
<1>2. patient /\ ServicesSafe /\ [ServicesNext]_serviceVars =>
        [CF!Next]_(CF!vars) /\ [RM!Next]_(RM!vars) /\ patient'
  BY EachStep
<1> QED
  BY <1>1, <1>2, ServicesAreSafe, PTL DEF ServicesSpec, ServicesSafety, CF!Spec, RM!Spec

\* A notification of one service does not end the wait of the other: with callers that
\* wait without a limit, a call that is woken finds the reply to its own request, and the
\* one that waits at the resource manager is known to it, unless callers can preempt the
\* message handler: then it may be forgotten, but before it sends its request, and
\* never because of the other service.
THEOREM SharedSlotIsSafe == ServicesSpec => []SharedSlotSafe
<1>1. ServicesSafe => SharedSlotSafe
  <2> SUFFICES ASSUME patient, SlotsOwned, CF!SafeCalls, RM!SafeRequests
               PROVE  /\ Confd!NoUseAfterFree /\ Confd!CallerGetsItsReply
                      /\ ResMgr!WaiterIsKnown /\ ResMgr!ConfigIsActual
    BY DEF ServicesSafe, SharedSlotSafe
  <2>1. Confd!NoUseAfterFree /\ Confd!CallerGetsItsReply
    BY DEF CF!SafeCalls, CF!NeverCorrupted, CF!CallSafe, CF!WokenAnswered, CF!HasItsReply,
       CF!Current, Confd!NoUseAfterFree, Confd!CallerGetsItsReply, Confd!Current
  <2>2. ResMgr!WaiterIsKnown
    <3> SUFFICES ASSUME NEW c \in Clients, ResMgr!Waits(c)
                 PROVE  /\ waitingTask = c \/ (CallersPreempt /\ ResMgr!Forgotten(c))
                        /\ resHandler = "idle"
      BY DEF ResMgr!WaiterIsKnown
    <3>1. RM!Waits(c) /\ RM!RequestSafe(c)
      BY DEF ResMgr!Waits, RM!Waits, ResMgrSlot, RM!SafeRequests
    <3>2. waitingTask \in {c, ResMgr!NoTask}
      BY <3>1 DEF RM!RequestSafe, RM!WaitingTaskKnown, RM!Waits, RM!NoTask, ResMgr!NoTask
    <3>3. resHandler = "idle" /\ (~CallersPreempt => waitingTask = c)
      BY <3>1 DEF RM!RequestSafe, RM!WaitingTaskKept
    <3> QED
      BY <3>2, <3>3 DEF ResMgr!Forgotten
  <2>3. ResMgr!ConfigIsActual
    BY DEF RM!SafeRequests, RM!RequestSafe, RM!ConfigIsOwn, RM!Current,
       ResMgr!ConfigIsActual, ResMgr!Current
  <2> QED
    BY <2>1, <2>2, <2>3
<1> QED
  BY <1>1, ServicesAreSafe, PTL

=============================================================================
