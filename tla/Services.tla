------------------------------- MODULE Services -------------------------------
(***************************************************************************)
(* The two services that tasks call, together: the configuration service   *)
(* and the resource manager.  Both wake their caller through the same      *)
(* notification slot (TaskNotifyIndex::DriverPrivate), one task handles    *)
(* the messages of both, and a panic stops both.  A task is in one call at *)
(* a time.  Callers are patient (portMAX_DELAY) or not.                    *)
(***************************************************************************)
EXTENDS Naturals, TaskNotify, Folds

CONSTANTS
  Clients,            \* tasks that use both services
  MaxCalls, MaxTag, kMaxInflight, kMaxPacketBuffers,    \* as in ConfdRpc
  ReplyForms,         \* what confd may answer
  ResBodies,          \* what the resource manager may answer
  SendMayFail,
  CallersPreempt,     \* as in ResMgrRpc
  MaxServiceCalls     \* bound on the calls of both services by all tasks

VARIABLES
  patient,            \* do callers wait without a limit?
  notify,             \* the slots, which the services share
  \* the configuration service
  pc, call, type, result, info, requests, nextTag, hasReceivedMsg, msgRxSem,
  cache, toHost, inbox, handler, halted,
  \* the resource manager
  resPc, resCall, resType, status, actual, reqLock, waitingTask, rxBuffer,
  resReceivedMsg, resRxSem, resToHost, resInbox, resHandler

confdVars == <<pc, call, type, result, info, requests, nextTag, hasReceivedMsg, msgRxSem,
               cache, toHost, inbox, handler, halted>>
resVars == <<resPc, resCall, resType, status, actual, reqLock, waitingTask, rxBuffer,
             resReceivedMsg, resRxSem, resToHost, resInbox, resHandler>>
serviceVars == <<patient, notify, confdVars, resVars>>

Confd == INSTANCE ConfdRpc
ResMgr == INSTANCE ResMgrRpc WITH
  Bodies <- ResBodies,
  pc <- resPc, call <- resCall, hasReceivedMsg <- resReceivedMsg, msgRxSem <- resRxSem,
  toHost <- resToHost, inbox <- resInbox, handler <- resHandler

ASSUME ServicesAssumption == Confd!ConfdAssumption /\ ResMgr!ResMgrAssumption

-----------------------------------------------------------------------------
(* Steps *)

HandlerFree == handler.step = "idle" /\ resHandler = "idle"

\* A step of one service: the message handler's lock is needed to send.
ConfdOnly == UNCHANGED <<patient, resVars>> /\ (toHost' # toHost => resHandler = "idle")
ResMgrOnly ==
  UNCHANGED <<patient, confdVars>> /\ halted = "no" /\ (resToHost' # resToHost => HandlerFree)

Total(f) == MapThenFoldSet(+, 0, LAMBDA c : f[c], LAMBDA S : CHOOSE c \in S : TRUE, Clients)

MayBegin(c) ==
  /\ pc[c] = "idle" /\ resPc[c] = "idle"
  /\ Total(call) + Total(resCall) < MaxServiceCalls

BeginConfd(c) == MayBegin(c) /\ \E t \in {"Query", "Update"} : Confd!BeginCall(c, t)
BeginResMgr(c) == MayBegin(c) /\ \E r \in {"Clock", "Regulator"} : ResMgr!BeginCall(c, r)

ConfdStep(c) ==
  /\ Confd!Proceed(c) \/ (~patient /\ Confd!GiveUp(c))
  /\ ConfdOnly
ResMgrStep(c) ==
  /\ ResMgr!Proceed(c) \/ (~patient /\ ResMgr!GiveUp(c))
  /\ ResMgrOnly

\* The message handler: one message after the other, of either service.
MessageStep ==
  \/ resHandler = "idle" /\ Confd!HandlerStep /\ UNCHANGED <<patient, resVars>>
  \/ handler.step = "idle" /\ ResMgr!HandlerStep /\ ResMgrOnly

HostAlive ==
  \/ HandlerFree /\ Confd!HandleOther /\ UNCHANGED <<patient, resVars>>
  \/ HandlerFree /\ ResMgr!HandleOther /\ ResMgrOnly

HostReplies ==
  \/ Confd!HostStep /\ UNCHANGED <<patient, resVars>>
  \/ ResMgr!HostStep /\ ResMgrOnly

SendFails(c) ==
  \/ Confd!SendFails(c) /\ ConfdOnly
  \/ ResMgr!SendFails(c) /\ ResMgrOnly

-----------------------------------------------------------------------------
(* Specification *)

ServicesInit ==
  /\ patient \in BOOLEAN
  /\ Confd!Init
  /\ ResMgr!Init

ServicesNext ==
  \/ \E c \in Clients :
       \/ BeginConfd(c) /\ ConfdOnly
       \/ BeginResMgr(c) /\ ResMgrOnly
       \/ ConfdStep(c) \/ ResMgrStep(c) \/ SendFails(c)
  \/ MessageStep \/ HostAlive \/ HostReplies

ServicesSafety == ServicesInit /\ [][ServicesNext]_serviceVars

\* The tasks and the message handler run, and finite timeouts expire; the host
\* announces itself and answers if callers are to wait for it without a limit.
ServicesSpec ==
  /\ ServicesSafety
  /\ \A c \in Clients : WF_serviceVars(ConfdStep(c)) /\ WF_serviceVars(ResMgrStep(c))
  /\ WF_serviceVars(MessageStep)
  /\ WF_serviceVars(patient /\ HostAlive) /\ WF_serviceVars(patient /\ HostReplies)

-----------------------------------------------------------------------------
(* Properties *)

\* A notification of one service does not end the wait of the other: although they share
\* a slot, as long as callers wait without a limit every call that is woken finds the
\* reply to its own request (confd) or reports the configuration in it (resource
\* manager).
SharedSlotSafe ==
  patient =>
    /\ Confd!NoUseAfterFree
    /\ Confd!CallerGetsItsReply
    /\ ResMgr!WaiterIsKnown
    /\ ResMgr!ConfigIsActual

\* Every call of either service returns, or the firmware panics: with a host that
\* answers, and with finite timeouts even if it does not.  Without a limit callers of the
\* resource manager wait in vain for a lock that is lost.
ServicesReturn ==
  \A c \in Clients :
    (pc[c] # "idle" \/ resPc[c] # "idle") ~>
      \/ pc[c] = "idle" /\ resPc[c] = "idle"
      \/ halted # "no"
      \/ patient /\ ResMgr!LockLost /\ resPc[c] # "idle"

=============================================================================
