---------------------------- MODULE MessagePump ----------------------------
(***************************************************************************)
(* How the host's messages reach their endpoints: the IPCC interrupt       *)
(* handlers of Rpc::Mailbox, which run between any two steps, and the      *)
(* message handler task, which they notify (MessageHandler::main).         *)
(*                                                                         *)
(* The vrings and the IPCC are modelled from their use.  The host takes a  *)
(* request out of its ring (kicking channel 1) and later puts the reply    *)
(* into the other ring (kicking channel 2).  It queues kicks while the     *)
(* firmware has not acknowledged the previous one of a channel, and sends  *)
(* nothing it was not asked for.  rproc_virtio_notified serves the replies *)
(* that are in the ring, and the endpoint's handler lets the caller go on. *)
(* The steps of MessageHandler::sendTo hold MessageHandler::lock, as the   *)
(* message handler does while it serves the mailbox.                       *)
(***************************************************************************)
EXTENDS Naturals, FiniteSets, TaskNotify

CONSTANTS
  Clients,   \* tasks that send requests and wait for the reply
  MaxKicks   \* bound on the kicks the host queues for one channel

ASSUME PumpAssumption ==
  /\ MaxKicks \in Nat \ {0}
  /\ "handler" \notin Clients /\ "nobody" \notin Clients

VARIABLES
  pc,        \* what each task does
  lock,      \* the task that holds MessageHandler::lock
  toHost,    \* tasks whose request is in the host's ring
  hostWork,  \* tasks whose request the host works on
  vring,     \* tasks whose reply is in the firmware's ring
  kicks,     \* channel -> kicks the host has yet to raise
  occupied,  \* channels the host has raised and the firmware not acknowledged
  txBusy,    \* the firmware's own kick has not been acknowledged by the host
  gStatus,   \* channel -> status word that the interrupt handlers write
  pumpSlot,      \* the message handler's TaskSpecific notification slot
  pumpPc       \* where the message handler is

hostVars == <<toHost, hostWork, vring, kicks>>
pumpVars == <<pc, lock, toHost, hostWork, vring, kicks, occupied, txBusy, gStatus,
              pumpSlot, pumpPc>>

-----------------------------------------------------------------------------
(* Types *)

BufferFreed == 1      \* IPCC_CHANNEL_1: the host took a message out of its ring
BufferAvailable == 2  \* IPCC_CHANNEL_2: the host put a message into our ring
Channels == {BufferFreed, BufferAvailable}

\* ChannelStatus: what the interrupt handler of a channel writes.
ChannelEvent == [ch \in Channels |-> IF ch = BufferFreed THEN "RxBufferFreed"
                                                 ELSE "RxBufferAvailable"]

MailboxDeferredIrq == "MailboxDeferredIrq"
Handler == "handler"
Nobody == "nobody"

PumpSteps == {"wait", "lock", "freed", "clearFreed", "available", "drain", "clearAvailable",
          "unlock"}

PumpTypeOK ==
  /\ pc \in [Clients -> {"idle", "lock", "send", "notify", "waiting"}]
  /\ lock \in Clients \cup {Handler, Nobody}
  /\ toHost \subseteq Clients
  /\ hostWork \subseteq Clients
  /\ vring \subseteq Clients
  /\ kicks \in [Channels -> 0..MaxKicks]
  /\ occupied \subseteq Channels
  /\ txBusy \in BOOLEAN
  /\ gStatus \in [Channels -> {"Idle"} \cup {ChannelEvent[ch] : ch \in Channels}]
  /\ \A ch \in Channels : gStatus[ch] \in {"Idle", ChannelEvent[ch]}
  /\ pumpSlot \in Slot({MailboxDeferredIrq})
  /\ pumpPc \in PumpSteps

PumpGoto(c, to) == pc' = [pc EXCEPT ![c] = to]
PumpAt(c, where) == pc[c] = where

-----------------------------------------------------------------------------
(* Tasks: MessageHandler::sendTo and Mailbox::Notify *)

Ask(c) ==
  /\ PumpAt(c, "idle")
  /\ PumpGoto(c, "lock")
  /\ UNCHANGED <<lock, hostVars, occupied, txBusy, gStatus, pumpSlot, pumpPc>>

\* sendTo takes the message handler's lock.
TakeLock(c) ==
  /\ PumpAt(c, "lock")
  /\ lock = Nobody
  /\ lock' = c
  /\ PumpGoto(c, "send")
  /\ UNCHANGED <<hostVars, occupied, txBusy, gStatus, pumpSlot, pumpPc>>

\* rpmsg_sendto puts the message into the ring...
Send(c) ==
  /\ PumpAt(c, "send")
  /\ toHost' = toHost \cup {c}
  /\ PumpGoto(c, "notify")
  /\ UNCHANGED <<lock, hostWork, vring, kicks, occupied, txBusy, gStatus, pumpSlot, pumpPc>>

\* A faulty variant of NotifyHost: sendTo returns without giving the lock back.
NotifyHostKeepingLock(c) ==
  /\ PumpAt(c, "notify")
  /\ ~txBusy
  /\ txBusy' = TRUE
  /\ PumpGoto(c, "waiting")
  /\ UNCHANGED <<lock, hostVars, occupied, gStatus, pumpSlot, pumpPc>>

\* ...and kicks the host, once the channel of the last kick is free.
NotifyHost(c) ==
  /\ PumpAt(c, "notify")
  /\ ~txBusy
  /\ txBusy' = TRUE
  /\ lock' = Nobody
  /\ PumpGoto(c, "waiting")
  /\ UNCHANGED <<hostVars, occupied, gStatus, pumpSlot, pumpPc>>

-----------------------------------------------------------------------------
(* The host *)

\* The host takes a request out of its ring and reports the free buffer.
HostTakes(c) ==
  /\ c \in toHost /\ txBusy
  /\ kicks[BufferFreed] < MaxKicks
  /\ toHost' = toHost \ {c}
  /\ hostWork' = hostWork \cup {c}
  /\ kicks' = [kicks EXCEPT ![BufferFreed] = @ + 1]
  /\ UNCHANGED <<pc, lock, vring, occupied, txBusy, gStatus, pumpSlot, pumpPc>>

\* It acknowledges our kick once its ring is empty.
HostAcknowledges ==
  /\ txBusy /\ toHost = {}
  /\ txBusy' = FALSE
  /\ UNCHANGED <<pc, lock, hostVars, occupied, gStatus, pumpSlot, pumpPc>>

HostReplies(c) ==
  /\ c \in hostWork
  /\ kicks[BufferAvailable] < MaxKicks
  /\ hostWork' = hostWork \ {c}
  /\ vring' = vring \cup {c}
  /\ kicks' = [kicks EXCEPT ![BufferAvailable] = @ + 1]
  /\ UNCHANGED <<pc, lock, toHost, occupied, txBusy, gStatus, pumpSlot, pumpPc>>

\* A queued kick is raised when the channel is free.
HostRaises(ch) ==
  /\ kicks[ch] > 0 /\ ch \notin occupied
  /\ kicks' = [kicks EXCEPT ![ch] = @ - 1]
  /\ occupied' = occupied \cup {ch}
  /\ UNCHANGED <<pc, lock, toHost, hostWork, vring, txBusy, gStatus, pumpSlot, pumpPc>>

-----------------------------------------------------------------------------
(* The interrupt handler of a channel: the callbacks of InstallCallbacks *)

\* A faulty variant of ChannelIrq: the task is not notified for an event it is already
\* serving.
IrqUnlessMissed(ch) ==
  /\ ch \in occupied
  /\ gStatus' = [gStatus EXCEPT ![ch] = ChannelEvent[ch]]
  /\ pumpSlot' = IF pumpPc = "wait" THEN WithBits(pumpSlot, {MailboxDeferredIrq}) ELSE pumpSlot
  /\ occupied' = occupied \ {ch}
  /\ UNCHANGED <<pc, lock, hostVars, txBusy, pumpPc>>

ChannelIrq(ch) ==
  /\ ch \in occupied
  /\ gStatus' = [gStatus EXCEPT ![ch] = ChannelEvent[ch]]
  /\ pumpSlot' = WithBits(pumpSlot, {MailboxDeferredIrq})
  /\ occupied' = occupied \ {ch}
  /\ UNCHANGED <<pc, lock, hostVars, txBusy, pumpPc>>

-----------------------------------------------------------------------------
(* The message handler task: main and Mailbox::ProcessDeferredIrq *)

AdvancePump(from, to) == pumpPc = from /\ pumpPc' = to

WaitForIrq ==
  /\ AdvancePump("wait", "lock")
  /\ pumpSlot.pending
  /\ pumpSlot' = Collected(pumpSlot, {MailboxDeferredIrq})
  /\ UNCHANGED <<pc, lock, hostVars, occupied, txBusy, gStatus>>

Lock ==
  /\ AdvancePump("lock", "freed")
  /\ lock = Nobody
  /\ lock' = Handler
  /\ UNCHANGED <<pc, hostVars, occupied, txBusy, gStatus, pumpSlot>>

\* A faulty variant of ClearFreed: the status words of both channels are reset.
ClearBoth ==
  /\ AdvancePump("clearFreed", "available")
  /\ gStatus' = [ch \in Channels |-> "Idle"]
  /\ UNCHANGED <<pc, lock, hostVars, occupied, txBusy, pumpSlot>>

\* Channel 1: report the freed buffers to rpmsg, then clear the status.
CheckFreed ==
  /\ AdvancePump("freed", IF gStatus[BufferFreed] = ChannelEvent[BufferFreed] THEN "clearFreed"
                      ELSE "available")
  /\ UNCHANGED <<pc, lock, hostVars, occupied, txBusy, gStatus, pumpSlot>>

ClearFreed ==
  /\ AdvancePump("clearFreed", "available")
  /\ gStatus' = [gStatus EXCEPT ![BufferFreed] = "Idle"]
  /\ UNCHANGED <<pc, lock, hostVars, occupied, txBusy, pumpSlot>>

\* Channel 2: serve the ring until it is empty, then clear the status.
CheckAvailable ==
  /\ AdvancePump("available", IF gStatus[BufferAvailable] = ChannelEvent[BufferAvailable] THEN "drain"
                          ELSE "unlock")
  /\ UNCHANGED <<pc, lock, hostVars, occupied, txBusy, gStatus, pumpSlot>>

\* A reply is handed to its endpoint, which wakes the task that waits for it.
Serve(c) ==
  /\ AdvancePump("drain", "drain")
  /\ c \in vring
  /\ vring' = vring \ {c}
  /\ PumpGoto(c, "idle")
  /\ UNCHANGED <<lock, toHost, hostWork, kicks, occupied, txBusy, gStatus, pumpSlot>>

RingEmpty ==
  /\ AdvancePump("drain", "clearAvailable")
  /\ vring = {}
  /\ UNCHANGED <<pc, lock, hostVars, occupied, txBusy, gStatus, pumpSlot>>

ClearAvailable ==
  /\ AdvancePump("clearAvailable", "unlock")
  /\ gStatus' = [gStatus EXCEPT ![BufferAvailable] = "Idle"]
  /\ UNCHANGED <<pc, lock, hostVars, occupied, txBusy, pumpSlot>>

Unlock ==
  /\ AdvancePump("unlock", "wait")
  /\ lock' = Nobody
  /\ UNCHANGED <<pc, hostVars, occupied, txBusy, gStatus, pumpSlot>>

-----------------------------------------------------------------------------
(* Specification *)

PumpInit ==
  /\ pc = [c \in Clients |-> "idle"]
  /\ lock = Nobody
  /\ toHost = {} /\ hostWork = {} /\ vring = {}
  /\ kicks = [ch \in Channels |-> 0]
  /\ occupied = {}
  /\ txBusy = FALSE
  /\ gStatus = [ch \in Channels |-> "Idle"]
  /\ pumpSlot = NoNotification
  /\ pumpPc = "wait"

PumpStep ==
  \/ WaitForIrq \/ Lock
  \/ CheckFreed \/ ClearFreed
  \/ CheckAvailable \/ (\E c \in Clients : Serve(c)) \/ RingEmpty \/ ClearAvailable
  \/ Unlock

HostStep ==
  \/ \E c \in Clients : HostTakes(c) \/ HostReplies(c)
  \/ HostAcknowledges

PumpNext ==
  \/ \E c \in Clients : Ask(c) \/ TakeLock(c) \/ Send(c) \/ NotifyHost(c)
  \/ HostStep
  \/ \E ch \in Channels : HostRaises(ch) \/ ChannelIrq(ch)
  \/ PumpStep

\* Interrupts are taken, tasks and the host go on, the mutex is fair to tasks.
PumpFairness ==
  /\ \A c \in Clients : SF_pumpVars(TakeLock(c)) /\ WF_pumpVars(Send(c)) /\ WF_pumpVars(NotifyHost(c))
  /\ \A c \in Clients : WF_pumpVars(HostTakes(c)) /\ WF_pumpVars(HostReplies(c))
  /\ WF_pumpVars(HostAcknowledges)
  /\ \A ch \in Channels : WF_pumpVars(HostRaises(ch)) /\ WF_pumpVars(ChannelIrq(ch))
  /\ SF_pumpVars(Lock) /\ WF_pumpVars(PumpStep)

PumpSpec == PumpInit /\ [][PumpNext]_pumpVars
FairPumpSpec == PumpSpec /\ PumpFairness

-----------------------------------------------------------------------------
(* Properties *)

\* An interrupt that found the message handler anywhere in its loop is not
\* forgotten: a status word that is set while the task is about to sleep comes
\* with a notification that keeps it awake.  The state is well typed.
IrqNotForgotten ==
  /\ PumpTypeOK
  /\ (pumpPc = "wait" /\ \E ch \in Channels : gStatus[ch] # "Idle")
       => pumpSlot.pending /\ MailboxDeferredIrq \in pumpSlot.bits

\* "Handles deferred interrupts (... or a newly arrived message)"
\* (ProcessDeferredIrq): a reply in the ring has a kick on its way, or a status
\* word that the message handler has yet to look at.
MessageNotForgotten ==
  vring # {} =>
    \/ kicks[BufferAvailable] > 0
    \/ BufferAvailable \in occupied
    \/ pumpPc = "drain"
    \/ /\ gStatus[BufferAvailable] # "Idle"
       /\ pumpPc # "clearAvailable"

\* A reply is only ever served to a task that has finished sending and waits, although
\* the host may take a request that was not announced yet, with an earlier kick ("lock",
\* the mutex sendTo and the message handler share).
ServedWaiting == pumpPc = "drain" => \A c \in vring : pc[c] = "waiting"

\* Every request is answered as far as the caller.
RepliesDelivered == \A c \in Clients : pc[c] = "lock" ~> pc[c] = "idle"

=============================================================================
