-------------------------- MODULE ConfdInvariants ---------------------------
(***************************************************************************)
(* Why configuration calls are safe when they have no timeout: the         *)
(* inductive invariant behind NoUseAfterFree, CallerGetsItsReply and       *)
(* TagsResolve.  A call is in exactly one of these phases: its block is in *)
(* the map and nothing was sent; a request or a reply of its own travels;  *)
(* the message handler holds its reply; its task has a notification        *)
(* pending; its task has been woken.                                       *)
(***************************************************************************)
EXTENDS ConfdRpc

\* The messages that travel between the firmware and the host.
Wire == toHost \cup inbox

\* The reply to c's current call has been stored in its block.
HasItsReply(c) ==
  /\ info[c].response.for = Current(c)
  /\ info[c].response.type = type[c]

\* Task c is blocked in the call m belongs to, and nothing has woken it.
Awaits(c, m) ==
  /\ c \in Clients
  /\ m.info = Current(c)
  /\ m.type = type[c]
  /\ pc[c] = "waitNotify"
  /\ ~notify[c].pending

\* A call that is about to send has a tag (it is set under the lock, and 0 is
\* skipped).
TagsAssigned ==
  \A c \in Clients :
    pc[c] \in {"checkRemote", "blockRemote", "send"} => info[c].tag \in Tags

\* An InfoBlock lives exactly while its call is inside sendRequestAndBlock or
\* holds its result.
BlockLives(c) ==
  /\ pc[c] \notin {"abandon", "withdraw", "timedOut"}
  /\ info[c].live <=> pc[c] \in {"register", "checkRemote", "blockRemote", "send",
                                 "waitNotify", "answered", "collect"}
  /\ pc[c] # "idle" => call[c] # 0
  /\ ~info[c].abandoned

\* A call that has a tag and has not sent its request owns the tag's entry.
OwnsTag(c) ==
  pc[c] \in {"checkRemote", "blockRemote", "send"} => requests[info[c].tag] = Current(c)

\* Only a task whose reply is complete has a notification pending.
PendingAnswered(c) == notify[c].pending => pc[c] = "waitNotify" /\ HasItsReply(c)

WokenAnswered(c) == pc[c] \in {"answered", "collect"} => HasItsReply(c)

CallSafe(c) == BlockLives(c) /\ OwnsTag(c) /\ PendingAnswered(c) /\ WokenAnswered(c)

\* A travelling message belongs to the call that waits for it, and owns its tag.
WireAwaited ==
  \A m \in Wire : requests[m.tag] = m.info /\ Awaits(m.info.task, m)

\* A call has at most one message on its way, in one direction.
OneMessagePerCall ==
  /\ \A m, n \in toHost : m.info = n.info => m = n
  /\ \A m, n \in inbox : m.info = n.info => m = n
  /\ \A m \in toHost, n \in inbox : m.info # n.info

\* The reply the message handler works on is the last message of a call that
\* still waits.
HandlerAwaited ==
  handler.step # "idle" =>
    /\ handler.msg.info = handler.info
    /\ Awaits(handler.info.task, handler.msg)
    /\ \A m \in Wire : m.info # handler.info
    /\ handler.step = "notify" => HasItsReply(handler.info.task)

NeverCorrupted == halted \notin {"useAfterFree", "wrongResponse"}

\* The inductive invariant: at every moment each call without a timeout is in
\* one of the phases above, so handleResponse finds a live block and its task
\* waiting.
SafeCalls ==
  /\ TypeOK
  /\ TagsAssigned
  /\ \A c \in Clients : CallSafe(c)
  /\ WireAwaited
  /\ OneMessagePerCall
  /\ HandlerAwaited
  /\ NeverCorrupted

-----------------------------------------------------------------------------
(* Where the answer to a call is *)

\* A block holds no response before its reply is decoded, and the task is about to
\* be woken when it does.
BlankUntilDecoded(c) ==
  info[c].response # Monostate =>
    \/ pc[c] \in {"answered", "collect"}
    \/ /\ pc[c] = "waitNotify"
       /\ notify[c].pending \/ (handler.step = "notify" /\ handler.info = Current(c))

RepliesPlaced == SafeCalls /\ \A c \in Clients : BlankUntilDecoded(c)

-----------------------------------------------------------------------------
(* Pools.  Each task has one packet buffer at most, also if it may give up: as *)
(* many buffers as tasks suffice.  If sends never fail each has one entry in   *)
(* the map at most, from the choice of its tag to the arrival of its reply.    *)

BuffersFit == cache + Cardinality(BufferHolders) <= Cardinality(Clients)

OwnsEntry(c, t) ==
  /\ requests[t] = Current(c) /\ info[c].tag = t
  /\ \/ pc[c] \in {"checkRemote", "blockRemote", "send"}
     \/ pc[c] = "waitNotify" /\ ~notify[c].pending /\ handler.info # Current(c)

EntriesOwned == \A t \in Registered : \E c \in Clients : OwnsEntry(c, t)

PoolsFit == SafeCalls /\ BuffersFit /\ EntriesOwned /\ NoResourcePanic

-----------------------------------------------------------------------------
(* ConfdRpc implements RemoteCall.  The answer to a task's call is where the   *)
(* reply happens to be: in the inbox, in the hands of the message handler, or  *)
(* decoded into the call's InfoBlock.                                          *)

\* The replies that are not in their block yet.
Arriving == inbox \cup (IF handler.step = "decode" THEN {handler.msg} ELSE {})

\* The answer to a call, given the replies on their way and what its block holds.
AnswerAmong(replies, p, response) ==
  IF \E m \in replies : m.info = p
  THEN (CHOOSE m \in replies : m.info = p).body
  ELSE response.body

AnswerTo(c) == AnswerAmong(Arriving, Current(c), info[c].response)

Calls == INSTANCE RemoteCall WITH
  busy <- {c \in Clients : pc[c] # "idle"},
  asked <- type,
  answer <- [c \in Clients |-> AnswerTo(c)],
  returned <- result

\* A call returns the status of the host's answer to that very call, and fails
\* only if there was none (Service::get and set over Handler).
ImplementsRemoteCall == Calls!CallSpec

=============================================================================
