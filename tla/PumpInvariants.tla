--------------------------- MODULE PumpInvariants ---------------------------
(***************************************************************************)
(* Why no interrupt is forgotten, why a reply is only served to a task     *)
(* that waits, and why no message is forgotten while requests are made one *)
(* at a time: the inductive invariants behind IrqNotForgotten,             *)
(* ServedWaiting and MessageNotForgotten.                                  *)
(***************************************************************************)
EXTENDS MessagePump

Notified == pumpSlot.pending /\ MailboxDeferredIrq \in pumpSlot.bits

\* A status word that is set has the task notified, or the task has yet to look at it.
StatusKept ==
  /\ gStatus[BufferFreed] # "Idle" =>
       Notified \/ pumpPc \in {"lock", "freed", "clearFreed"}
  /\ gStatus[BufferAvailable] # "Idle" =>
       \/ Notified
       \/ pumpPc \in {"lock", "freed", "clearFreed", "available", "drain", "clearAvailable"}

\* The mutex is held by the task that sends, or by the message handler while it serves.
LockHeld ==
  /\ \A c \in Clients : pc[c] \in {"send", "notify"} => lock = c
  /\ pumpPc \notin {"wait", "lock"} => lock = Handler

\* A request is in one place at a time, and its task has not gone on.
Outstanding ==
  /\ \A c \in toHost \cup hostWork \cup vring : pc[c] \in {"notify", "waiting"}
  /\ toHost \cap hostWork = {}
  /\ vring \cap (toHost \cup hostWork) = {}

PumpSafe == PumpTypeOK /\ StatusKept /\ LockHeld /\ Outstanding

-----------------------------------------------------------------------------
(* One request at a time *)

\* The kick of a reply is queued, raised, or noted in the status word: never two of them.
OneSignal ==
  /\ kicks[BufferAvailable] > 0 =>
       kicks[BufferAvailable] = 1 /\ BufferAvailable \notin occupied
  /\ kicks[BufferAvailable] > 0 \/ BufferAvailable \in occupied =>
       gStatus[BufferAvailable] = "Idle"

Serving == pumpPc \in {"drain", "clearAvailable"}

\* While the ring holds a reply there is a signal, and no signal outlives its reply
\* except while the message handler is about to reset it.
SignalOfReply ==
  /\ vring # {} =>
       \/ kicks[BufferAvailable] > 0
       \/ BufferAvailable \in occupied
       \/ gStatus[BufferAvailable] # "Idle"
  /\ \/ kicks[BufferAvailable] > 0
     \/ BufferAvailable \in occupied
     \/ gStatus[BufferAvailable] # "Idle" /\ ~Serving
     => vring # {}

\* Nothing can arrive while the ring is served.
ServedAlone ==
  /\ Serving => /\ gStatus[BufferAvailable] # "Idle"
                /\ hostWork = {} /\ toHost = {}
  /\ pumpPc = "clearAvailable" => vring = {}

OneReplySafe == PumpSafe /\ OneSignal /\ SignalOfReply /\ ServedAlone

=============================================================================
