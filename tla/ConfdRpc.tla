------------------------------ MODULE ConfdRpc ------------------------------
(***************************************************************************)
(* Configuration calls to confd on the host: Service::get/set and          *)
(* Handler::sendRequestAndBlock run in the calling tasks, handleMessage    *)
(* runs in the message handler task, and confd answers over rpmsg.         *)
(*                                                                         *)
(* A call owns one heap-allocated InfoBlock.  A block is named by its call *)
(* <<task, number>>, so an access through a pointer to a block that has    *)
(* been deleted is recognised even if the heap reuses its address.         *)
(* Sections that hold Handler::lock or Service::cacheLock and never block  *)
(* inside are one step.  The message handler holds MessageHandler::lock    *)
(* from the start of handleMessage to the notification, which is why a     *)
(* task can only send while it is idle.                                    *)
(***************************************************************************)
EXTENDS Naturals, FiniteSets, TaskNotify

CONSTANTS
  Clients,            \* tasks that use the configuration service
  MaxCalls,           \* bound on the calls one task makes
  MaxTag,             \* largest tag (255 in the code: uint8_t, 0 is skipped)
  kMaxInflight,       \* capacity of the requests map
  kMaxPacketBuffers,  \* capacity of the packet buffer cache
  ReplyForms,         \* what confd's replies may say: [body, decodes] records
  SendMayFail         \* can rpmsg_sendto return an error?

Bodies == {"match", "mismatch", "absent"}
MsgTypes == {"Query", "Update"}

ASSUME ConfdAssumption ==
  /\ MaxCalls \in Nat
  /\ MaxTag \in Nat
  /\ kMaxInflight \in Nat /\ kMaxInflight < MaxTag
  /\ kMaxPacketBuffers \in Nat
  /\ ReplyForms \subseteq [body : Bodies, decodes : BOOLEAN]
  /\ SendMayFail \in BOOLEAN

VARIABLES
  pc,              \* where each task is inside its call
  call,            \* number of the task's current or last call
  type,            \* message type of that call: a get or a set
  result,          \* what the last finished call returned
  info,            \* the InfoBlock of the task's current call
  requests,        \* tag -> info block pointer
  nextTag,
  notify,          \* the tasks' DriverPrivate notification slots
  hasReceivedMsg, msgRxSem,
  cache,           \* number of packet buffers in the cache queue
  toHost,          \* requests sent that confd has not answered
  inbox,           \* answers that handleMessage has not been given
  handler,         \* what the message handler task is doing
  halted           \* "no", or why the firmware stopped

clientVars == <<pc, call, type, result>>
endpointVars == <<hasReceivedMsg, msgRxSem>>
vars == <<pc, call, type, result, info, requests, nextTag, notify,
          hasReceivedMsg, msgRxSem, cache, toHost, inbox, handler, halted>>

EP == INSTANCE Endpoint

-----------------------------------------------------------------------------
(* Types and null values *)

kNotifyBit == "confd"
Tags == 1..MaxTag
Pointer == [task : Clients, call : Nat]
NoPointer == [task |-> "none", call |-> 0]
Request == [tag : Tags, info : Pointer, type : MsgTypes]
Reply == [tag : Tags, info : Pointer, type : MsgTypes, body : Bodies, decodes : BOOLEAN]
NoReply == [tag |-> 0, info |-> NoPointer, type |-> "none", body |-> "none",
            decodes |-> FALSE]
Response == [type : MsgTypes, body : Bodies, for : Pointer]
Monostate == [type |-> "none", body |-> "none", for |-> NoPointer]
InfoBlock == [live : BOOLEAN, tag : 0..MaxTag, abandoned : BOOLEAN, error : BOOLEAN,
              response : Response \cup {Monostate}]
DeletedBlock == [live |-> FALSE, tag |-> 0, abandoned |-> FALSE, error |-> FALSE,
                 response |-> Monostate]

\* The message handler task is idle, or works on one reply.
HandlerIdle == [step |-> "idle", info |-> NoPointer, msg |-> NoReply]
HandlerState ==
  {HandlerIdle} \cup [step : {"decode", "notify"}, info : Pointer, msg : Reply]

Steps == {"idle", "discard", "prepare", "register", "checkRemote", "blockRemote",
          "send", "waitNotify", "abandon", "withdraw", "answered", "failed",
          "timedOut", "collect"}
Results == {"none", "Success", "Timeout", "KeyNotFound", "ValueTypeMismatch",
            "PermissionDenied", "Error"}
Causes == {"no", "requestsFull", "cacheFull", "wrongResponse", "useAfterFree"}

TypeOK ==
  /\ pc \in [Clients -> Steps]
  /\ call \in [Clients -> Nat]
  /\ type \in [Clients -> MsgTypes]
  /\ result \in [Clients -> Results]
  /\ info \in [Clients -> InfoBlock]
  /\ requests \in [Tags -> Pointer \cup {NoPointer}]
  /\ nextTag \in 0..MaxTag
  /\ notify \in [Clients -> Slot({kNotifyBit})]
  /\ hasReceivedMsg \in BOOLEAN
  /\ msgRxSem \in BOOLEAN
  /\ cache \in Nat
  /\ toHost \subseteq Request
  /\ inbox \subseteq Reply
  /\ handler \in HandlerState
  /\ halted \in Causes

-----------------------------------------------------------------------------
(* State functions *)

Running == halted = "no"
Current(c) == [task |-> c, call |-> call[c]]

\* A pointer that may be dereferenced: its block has not been deleted.
Valid(p) == p # NoPointer /\ info[p.task].live /\ call[p.task] = p.call

Registered == {t \in Tags : requests[t] # NoPointer}

\* The tag the loop "do ++nextTag while(!tag || in use)" stops at, nextTag being
\* a counter modulo MaxTag + 1.
Ahead(t) == (t + MaxTag - nextTag) % (MaxTag + 1)

IsNextTag(t) ==
  /\ t \in Tags \ Registered
  /\ \A u \in Tags \ Registered : Ahead(t) <= Ahead(u)

Goto(c, step) == pc' = [pc EXCEPT ![c] = step]
At(c, step) == Running /\ pc[c] = step
Halt(cause) == halted' = cause

-----------------------------------------------------------------------------
(* The calling task: Service::getCommon and Service::setCommon *)

\* A faulty variant of TakeBuffer: the cached buffers are never used again.
TakeFreshBuffer == UNCHANGED cache

\* getPacketBuffer takes a buffer from the cache, or allocates one: cacheTotal
\* is never incremented, so its limit never refuses an allocation.
TakeBuffer == cache' = IF cache = 0 THEN 0 ELSE cache - 1

\* serializeQuery, serializeUpdate: encoding may fail (the key does not fit), and
\* then the buffer is given back.
EncodeRequest(c) == Goto(c, "prepare") \/ Goto(c, "discard")

BeginCall(c, t) ==
  /\ At(c, "idle")
  /\ call[c] < MaxCalls
  /\ call' = [call EXCEPT ![c] = @ + 1]
  /\ type' = [type EXCEPT ![c] = t]
  /\ result' = [result EXCEPT ![c] = "none"]
  /\ TakeBuffer
  /\ EncodeRequest(c)
  /\ UNCHANGED <<info, requests, nextTag, notify, endpointVars, toHost, inbox,
                 handler, halted>>

\* discardPacketBuffer: the cache must have room, or the REQUIRE panics.
DiscardBuffer(c, next) ==
  \/ /\ cache < kMaxPacketBuffers
     /\ cache' = cache + 1
     /\ Goto(c, next)
     /\ UNCHANGED halted
  \/ /\ cache >= kMaxPacketBuffers
     /\ Halt("cacheFull")
     /\ UNCHANGED <<cache, pc>>

\* What getCommon and setCommon return when sendRequestAndBlock did not deliver
\* a reply, or when the request could not be encoded.
ReturnWithoutReply(c) ==
  /\ Running /\ pc[c] \in {"discard", "failed", "timedOut"}
  /\ DiscardBuffer(c, "idle")
  /\ result' = IF Running'
               THEN [result EXCEPT ![c] = IF pc[c] = "timedOut" THEN "Timeout" ELSE "Error"]
               ELSE result
  /\ UNCHANGED <<call, type, info, requests, nextTag, notify, endpointVars, toHost,
                 inbox, handler>>

ReturnBuffer(c) ==
  /\ At(c, "answered")
  /\ DiscardBuffer(c, "collect")
  /\ UNCHANGED <<call, type, result, info, requests, nextTag, notify, endpointVars,
                 toHost, inbox, handler>>

\* How get (by the type of the value) and set turn a response into a Status.
StatusOf(t, body) ==
  IF body = "match" THEN "Success"
  ELSE IF t = "Update" THEN "PermissionDenied"
  ELSE IF body = "absent" THEN "KeyNotFound" ELSE "ValueTypeMismatch"

\* The response variant must hold the alternative for this call (REQUIRE), then
\* the block is deleted and the status returned.  InfoBlock::error is not read.
Collect(c) ==
  /\ At(c, "collect")
  /\ LET res == info[c].response IN
     \/ /\ res.type = type[c]
        /\ result' = [result EXCEPT ![c] = StatusOf(type[c], res.body)]
        /\ info' = [info EXCEPT ![c] = DeletedBlock]
        /\ Goto(c, "idle")
        /\ UNCHANGED halted
     \/ /\ res.type # type[c]
        /\ Halt("wrongResponse")
        /\ UNCHANGED <<pc, result, info>>
  /\ UNCHANGED <<call, type, requests, nextTag, notify, endpointVars, cache, toHost,
                 inbox, handler>>

-----------------------------------------------------------------------------
(* The calling task: Handler::sendRequestAndBlock *)

\* Allocate the block; clear the notification bit left by an earlier time out.
PrepareRequest(c) ==
  /\ At(c, "prepare")
  /\ info' = [info EXCEPT ![c] = [DeletedBlock EXCEPT !.live = TRUE]]
  /\ notify' = [notify EXCEPT ![c] = WithoutBits(@, {kNotifyBit})]
  /\ Goto(c, "register")
  /\ UNCHANGED <<call, type, result, requests, nextTag, endpointVars, cache, toHost,
                 inbox, handler, halted>>

\* Under the lock: pick a tag and enter the block in the map.  The map's node
\* pool holds kMaxInflight entries; there is no node for one more.
RegisterTag(c) ==
  /\ At(c, "register")
  /\ \E t \in 0..MaxTag :
       /\ IsNextTag(t)
       /\ nextTag' = t
       /\ info' = [info EXCEPT ![c].tag = t]
       /\ \/ /\ Cardinality(Registered) < kMaxInflight
             /\ requests' = [requests EXCEPT ![t] = Current(c)]
             /\ Goto(c, "checkRemote")
             /\ UNCHANGED halted
          \/ /\ Cardinality(Registered) >= kMaxInflight
             /\ Halt("requestsFull")
             /\ UNCHANGED <<requests, pc>>
  /\ UNCHANGED <<call, type, result, notify, endpointVars, cache, toHost, inbox, handler>>

\* The lock could not be taken within the timeout.
LockTimeout(c) ==
  /\ At(c, "register")
  /\ info' = [info EXCEPT ![c] = DeletedBlock]
  /\ Goto(c, "failed")
  /\ UNCHANGED <<call, type, result, requests, nextTag, notify, endpointVars, cache,
                 toHost, inbox, handler, halted>>

\* waitForRemote: has anything been received on this endpoint yet?
CheckRemote(c) ==
  /\ At(c, "checkRemote")
  /\ Goto(c, IF hasReceivedMsg THEN "send" ELSE "blockRemote")
  /\ UNCHANGED <<call, type, result, info, requests, nextTag, notify, endpointVars,
                 cache, toHost, inbox, handler, halted>>

\* waitForRemote: block on the semaphore, and pass it on.
AwaitRemote(c) ==
  /\ At(c, "blockRemote")
  /\ EP!TakeRxSem
  /\ Goto(c, "send")
  /\ UNCHANGED <<call, type, result, info, requests, nextTag, notify, cache, toHost,
                 inbox, handler, halted>>

\* A faulty variant of RemoteTimeout: the timeout is not passed to waitForRemote.
RemoteNeverTimesOut(c) == FALSE /\ At(c, "blockRemote")

\* waitForRemote's semaphore could not be had within the timeout.
RemoteTimeout(c) ==
  /\ At(c, "blockRemote") /\ ~msgRxSem
  /\ Goto(c, "abandon")
  /\ UNCHANGED <<call, type, result, info, requests, nextTag, notify, endpointVars,
                 cache, toHost, inbox, handler, halted>>

\* sendTo under the message handler's lock.
SendRequest(c) ==
  /\ At(c, "send")
  /\ handler.step = "idle"
  /\ toHost' = toHost \cup {[tag |-> info[c].tag, info |-> Current(c), type |-> type[c]]}
  /\ Goto(c, "waitNotify")
  /\ UNCHANGED <<call, type, result, info, requests, nextTag, notify, endpointVars,
                 cache, inbox, handler, halted>>

\* sendTo has failed: the block is deleted, its entry stays in the map.
SendFailed(c) ==
  /\ At(c, "send")
  /\ info' = [info EXCEPT ![c] = DeletedBlock]
  /\ Goto(c, "failed")
  /\ UNCHANGED <<call, type, result, requests, nextTag, notify, endpointVars, cache,
                 toHost, inbox, handler, halted>>

\* In rpmsg_sendto, or because the message handler's lock could not be taken in time.
SendFails(c) == SendMayFail /\ handler.step = "idle" /\ SendFailed(c)
SendTimeout(c) == handler.step # "idle" /\ SendFailed(c)

\* A faulty variant of WakeUp: the task polls its block instead of its slot.
WakeUpPolling(c) ==
  /\ At(c, "waitNotify")
  /\ info[c].response # Monostate
  /\ Goto(c, "answered")
  /\ UNCHANGED <<call, type, result, info, requests, nextTag, notify, endpointVars,
                 cache, toHost, inbox, handler, halted>>

\* xTaskNotifyWaitIndexed returns because the slot is pending; which bits are set
\* is not looked at.
WakeUp(c) ==
  /\ At(c, "waitNotify")
  /\ notify[c].pending
  /\ notify' = [notify EXCEPT ![c] = Collected(@, {kNotifyBit})]
  /\ Goto(c, "answered")
  /\ UNCHANGED <<call, type, result, info, requests, nextTag, endpointVars, cache,
                 toHost, inbox, handler, halted>>

\* No notification within the timeout.
WaitTimeout(c) ==
  /\ At(c, "waitNotify") /\ ~notify[c].pending
  /\ Goto(c, "abandon")
  /\ UNCHANGED <<call, type, result, info, requests, nextTag, notify, endpointVars,
                 cache, toHost, inbox, handler, halted>>

\* The time out path marks the block without holding the lock...
Abandon(c) ==
  /\ At(c, "abandon")
  /\ info' = [info EXCEPT ![c].abandoned = TRUE]
  /\ Goto(c, "withdraw")
  /\ UNCHANGED <<call, type, result, requests, nextTag, notify, endpointVars, cache,
                 toHost, inbox, handler, halted>>

\* ...then erases its tag, if the lock can be had in time, and deletes the block.
Withdraw(c) ==
  /\ At(c, "withdraw")
  /\ \/ requests' = [requests EXCEPT ![info[c].tag] = NoPointer]
     \/ UNCHANGED requests
  /\ info' = [info EXCEPT ![c] = DeletedBlock]
  /\ Goto(c, "timedOut")
  /\ UNCHANGED <<call, type, result, nextTag, notify, endpointVars, cache, toHost,
                 inbox, handler, halted>>

-----------------------------------------------------------------------------
(* The message handler task: Handler::handleMessage and handleResponse *)

\* A message that is empty, malformed, a no-op or of an unknown type: it only
\* shows that the host is alive.
HandleOther ==
  /\ Running
  /\ handler.step = "idle"
  /\ EP!MessageSeen
  /\ UNCHANGED <<clientVars, info, requests, nextTag, notify, cache, toHost, inbox,
                 handler, halted>>

\* A reply: find its block under the lock and erase its entry.
HandleReply(m) ==
  /\ Running
  /\ handler.step = "idle"
  /\ inbox' = inbox \ {m}
  /\ EP!MessageSeen
  /\ LET p == requests[m.tag] IN
     \/ /\ p = NoPointer
        /\ UNCHANGED <<requests, handler, halted>>
     \/ /\ p # NoPointer /\ ~Valid(p)
        /\ Halt("useAfterFree")
        /\ UNCHANGED <<requests, handler>>
     \/ /\ Valid(p)
        /\ requests' = [requests EXCEPT ![m.tag] = NoPointer]
        /\ handler' = IF info[p.task].abandoned THEN handler
                      ELSE [step |-> "decode", info |-> p, msg |-> m]
        /\ UNCHANGED halted
  /\ UNCHANGED <<clientVars, info, nextTag, notify, cache, toHost>>

\* A faulty variant of Decoded: the reply's fields are never stored.
DecodedDefault(m) == [type |-> m.type, body |-> "absent", for |-> m.info]

\* The response that DeserializeQuery or DeserializeUpdate leaves in the block.
Decoded(m) == [type |-> m.type, body |-> m.body, for |-> m.info]

\* The lock has been given back: decode into the block.
Decode ==
  /\ Running
  /\ handler.step = "decode"
  /\ LET p == handler.info
         m == handler.msg IN
     \/ /\ Valid(p)
        /\ info' = [info EXCEPT ![p.task].response = Decoded(m),
                                ![p.task].error = ~m.decodes]
        /\ handler' = [handler EXCEPT !.step = "notify"]
        /\ UNCHANGED halted
     \/ /\ ~Valid(p)
        /\ Halt("useAfterFree")
        /\ UNCHANGED <<info, handler>>
  /\ UNCHANGED <<clientVars, requests, nextTag, notify, endpointVars, cache, toHost, inbox>>

\* Notify the task named by the block.
NotifyCaller ==
  /\ Running
  /\ handler.step = "notify"
  /\ LET p == handler.info IN
     \/ /\ Valid(p)
        /\ notify' = [notify EXCEPT ![p.task] = WithBits(@, {kNotifyBit})]
        /\ handler' = HandlerIdle
        /\ UNCHANGED halted
     \/ /\ ~Valid(p)
        /\ Halt("useAfterFree")
        /\ UNCHANGED <<notify, handler>>
  /\ UNCHANGED <<clientVars, info, requests, nextTag, endpointVars, cache, toHost, inbox>>

-----------------------------------------------------------------------------
(* The host (not in this repository): confd answers each request at most once,  *)
(* in any order, with a reply of the same tag and type.                         *)

HostAnswers(m, form) ==
  /\ Running
  /\ toHost' = toHost \ {m}
  /\ inbox' = inbox \cup {[tag |-> m.tag, info |-> m.info, type |-> m.type,
                           body |-> form.body, decodes |-> form.decodes]}
  /\ UNCHANGED <<clientVars, info, requests, nextTag, notify, endpointVars, cache,
                 handler, halted>>

-----------------------------------------------------------------------------
(* Specification *)

Init ==
  /\ pc = [c \in Clients |-> "idle"]
  /\ call = [c \in Clients |-> 0]
  /\ type = [c \in Clients |-> "Query"]
  /\ result = [c \in Clients |-> "none"]
  /\ info = [c \in Clients |-> DeletedBlock]
  /\ requests = [t \in Tags |-> NoPointer]
  /\ nextTag = 0
  /\ notify = [c \in Clients |-> NoNotification]
  /\ EP!EndpointInit
  /\ cache = 0
  /\ toHost = {}
  /\ inbox = {}
  /\ handler = HandlerIdle
  /\ halted = "no"

\* The steps a task takes once it has started a call.
Proceed(c) ==
  \/ ReturnWithoutReply(c)
  \/ ReturnBuffer(c)
  \/ Collect(c)
  \/ PrepareRequest(c)
  \/ RegisterTag(c)
  \/ CheckRemote(c)
  \/ AwaitRemote(c)
  \/ SendRequest(c)
  \/ WakeUp(c)

\* Those of a task that was given a timeout, once it has expired.
GiveUp(c) ==
  \/ LockTimeout(c)
  \/ RemoteTimeout(c)
  \/ SendTimeout(c)
  \/ WaitTimeout(c)
  \/ Abandon(c)
  \/ Withdraw(c)

HandlerStep == (\E m \in inbox : HandleReply(m)) \/ Decode \/ NotifyCaller

HostStep == \E m \in toHost, form \in ReplyForms : HostAnswers(m, form)

\* The steps of callers that wait with portMAX_DELAY, the default of get and set...
Next ==
  \/ \E c \in Clients :
       \/ \E t \in MsgTypes : BeginCall(c, t)
       \/ Proceed(c)
       \/ SendFails(c)
  \/ HandleOther
  \/ HandlerStep
  \/ HostStep

Spec == Init /\ [][Next]_vars

\* ... and of those that may also give up.  They are composed with the resource
\* manager's in Services.
TimedNext == Next \/ \E c \in Clients : GiveUp(c)
TimedSpec == Init /\ [][TimedNext]_vars

\* Tasks and the message handler keep running.
FirmwareFairness ==
  /\ \A c \in Clients : WF_vars(Proceed(c))
  /\ WF_vars(HandlerStep)

\* The host announces itself and answers what it is asked.
HostFairness == WF_vars(HandleOther) /\ WF_vars(HostStep)

FairSpec == Spec /\ FirmwareFairness /\ HostFairness

-----------------------------------------------------------------------------
(* Properties *)

\* The message handler never touches an InfoBlock after its caller deleted it
\* ("if we get here, the task should still be blocking", handleResponse).
NoUseAfterFree == halted # "useAfterFree"

\* The REQUIRE in getCommon and setCommon never fires, and a caller that has been
\* woken finds the reply to its own request in its block: never the reply to
\* another call, nor an empty block because of a notification left over from an
\* earlier one.
CallerGetsItsReply ==
  /\ halted # "wrongResponse"
  /\ \A c \in Clients : pc[c] \in {"answered", "collect"} =>
        /\ info[c].response.for = Current(c)
        /\ info[c].response.type = type[c]

\* While a request or its reply travels, its tag leads to the block of the call
\* that sent it, and that call is blocked waiting for it: tags are not reused
\* early although the counter wraps, and failed sends do not confuse them.
TagsResolve ==
  \A m \in toHost \cup inbox :
    /\ requests[m.tag] = m.info
    /\ Valid(m.info)
    /\ pc[m.info.task] = "waitNotify"

\* The tasks that hold a packet buffer.
BufferHolders == {c \in Clients : pc[c] \notin {"idle", "collect"}}

\* "Maximum number of packet buffers to allocate" (Service.h): the buffers in
\* use and in the cache together.
PacketBuffersBounded == cache + Cardinality(BufferHolders) <= kMaxPacketBuffers

\* Returning a buffer never finds the cache full, and entering a request never
\* finds the map full.
NoResourcePanic == halted \notin {"cacheFull", "requestsFull"}

\* Every call returns.
CallsReturn == \A c \in Clients : pc[c] # "idle" ~> (pc[c] = "idle" \/ ~Running)

=============================================================================
