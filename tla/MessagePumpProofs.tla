------------------------- MODULE MessagePumpProofs -------------------------
(***************************************************************************)
(* Machine-checked proofs about the message pump, for every number of      *)
(* callers and of queued kicks: no interrupt is forgotten, a reply is only *)
(* served to a task that waits, and with one caller no message is          *)
(* forgotten.                                                              *)
(***************************************************************************)
EXTENDS PumpInvariants, TLAPS

-----------------------------------------------------------------------------
(* Type correctness *)

LEMMA ChannelsDiffer ==
  /\ BufferFreed \in Channels /\ BufferAvailable \in Channels
  /\ BufferFreed # BufferAvailable
  /\ \A ch \in Channels : ch = BufferFreed \/ ch = BufferAvailable
  /\ \A ch \in Channels : ChannelEvent[ch] # "Idle"
BY DEF Channels, BufferFreed, BufferAvailable, ChannelEvent

LEMMA TypeInit == PumpInit => PumpTypeOK
<1> SUFFICES ASSUME PumpInit PROVE PumpTypeOK
  OBVIOUS
<1>1. pumpSlot \in Slot({MailboxDeferredIrq})
  BY DEF PumpInit, Slot, NoNotification
<1>2. kicks \in [Channels -> 0..MaxKicks]
  BY PumpAssumption DEF PumpInit, PumpAssumption
<1>3. /\ gStatus \in [Channels -> {"Idle"} \cup {ChannelEvent[ch] : ch \in Channels}]
      /\ \A ch \in Channels : gStatus[ch] \in {"Idle", ChannelEvent[ch]}
  BY DEF PumpInit
<1> QED
  BY <1>1, <1>2, <1>3 DEF PumpInit, PumpTypeOK, PumpSteps

LEMMA ClientTypes ==
  ASSUME PumpTypeOK, NEW c \in Clients, Ask(c) \/ TakeLock(c) \/ Send(c) \/ NotifyHost(c)
  PROVE  PumpTypeOK'
BY DEF PumpTypeOK, Ask, TakeLock, Send, NotifyHost, PumpGoto, PumpAt, hostVars

LEMMA HostTypes ==
  ASSUME PumpTypeOK, HostStep \/ \E ch \in Channels : HostRaises(ch)
  PROVE  PumpTypeOK'
<1> USE DEF PumpTypeOK
<1>1. ASSUME NEW c \in Clients, HostTakes(c) \/ HostReplies(c)
      PROVE  PumpTypeOK'
  <2>1. kicks' \in [Channels -> 0..MaxKicks]
    BY <1>1, PumpAssumption, ChannelsDiffer DEF HostTakes, HostReplies, PumpAssumption
  <2> QED
    BY <1>1, <2>1 DEF HostTakes, HostReplies
<1>2. CASE HostAcknowledges
  BY <1>2 DEF HostAcknowledges, hostVars
<1>3. ASSUME NEW ch \in Channels, HostRaises(ch)
      PROVE  PumpTypeOK'
  <2>1. kicks' \in [Channels -> 0..MaxKicks]
    BY <1>3, PumpAssumption DEF HostRaises, PumpAssumption
  <2> QED
    BY <1>3, <2>1 DEF HostRaises
<1> QED
  BY <1>1, <1>2, <1>3 DEF HostStep

LEMMA IrqTypes ==
  ASSUME PumpTypeOK, NEW ch \in Channels, ChannelIrq(ch)
  PROVE  PumpTypeOK'
<1>1. pumpSlot' \in Slot({MailboxDeferredIrq})
  BY DEF PumpTypeOK, ChannelIrq, Slot, WithBits
<1>2. /\ gStatus' \in [Channels -> {"Idle"} \cup {ChannelEvent[d] : d \in Channels}]
      /\ \A d \in Channels : gStatus'[d] \in {"Idle", ChannelEvent[d]}
  BY DEF PumpTypeOK, ChannelIrq
<1> QED
  BY <1>1, <1>2 DEF PumpTypeOK, ChannelIrq, hostVars

LEMMA HandlerTypes ==
  ASSUME PumpTypeOK, PumpStep
  PROVE  PumpTypeOK'
<1> USE DEF PumpTypeOK, PumpSteps, AdvancePump, hostVars
<1>1. CASE WaitForIrq
  <2>1. pumpSlot' \in Slot({MailboxDeferredIrq})
    BY <1>1 DEF WaitForIrq, Slot, Collected
  <2> QED
    BY <1>1, <2>1 DEF WaitForIrq
<1>2. CASE Lock
  BY <1>2 DEF Lock
<1>3. CASE CheckFreed
  BY <1>3 DEF CheckFreed
<1>4. CASE ClearFreed
  BY <1>4 DEF ClearFreed
<1>5. CASE CheckAvailable
  BY <1>5 DEF CheckAvailable
<1>6. ASSUME NEW c \in Clients, Serve(c)
      PROVE  PumpTypeOK'
  BY <1>6 DEF Serve, PumpGoto
<1>7. CASE RingEmpty
  BY <1>7 DEF RingEmpty
<1>8. CASE ClearAvailable
  BY <1>8 DEF ClearAvailable
<1>9. CASE Unlock
  BY <1>9 DEF Unlock
<1> QED
  BY <1>1, <1>2, <1>3, <1>4, <1>5, <1>6, <1>7, <1>8, <1>9 DEF PumpStep

\* A step of the pump keeps its variables of their types.
LEMMA TypeStep ==
  ASSUME PumpTypeOK, [PumpNext]_pumpVars
  PROVE  PumpTypeOK'
<1>1. CASE UNCHANGED pumpVars
  BY <1>1 DEF pumpVars, PumpTypeOK
<1> QED
  BY <1>1, ClientTypes, HostTypes, IrqTypes, HandlerTypes DEF PumpNext

-----------------------------------------------------------------------------
(* Nothing is forgotten, and replies find their task waiting *)

LEMMA StatusStep ==
  ASSUME PumpTypeOK, StatusKept, [PumpNext]_pumpVars
  PROVE  StatusKept'
<1> USE ChannelsDiffer DEF StatusKept, Notified
<1>1. ASSUME NEW c \in Clients, Ask(c) \/ TakeLock(c) \/ Send(c) \/ NotifyHost(c)
      PROVE  StatusKept'
  BY <1>1 DEF Ask, TakeLock, Send, NotifyHost
<1>2. CASE HostStep
  BY <1>2 DEF HostStep, HostTakes, HostReplies, HostAcknowledges
<1>3. ASSUME NEW ch \in Channels, HostRaises(ch)
      PROVE  StatusKept'
  BY <1>3 DEF HostRaises
<1>4. ASSUME NEW ch \in Channels, ChannelIrq(ch)
      PROVE  StatusKept'
  BY <1>4 DEF ChannelIrq, WithBits
<1>5. CASE PumpStep
  <2> USE DEF AdvancePump
  <2>1. CASE WaitForIrq \/ Lock
    BY <2>1 DEF WaitForIrq, Lock
  <2>2. CASE CheckFreed
    BY <2>2 DEF CheckFreed, PumpTypeOK
  <2>3. CASE ClearFreed
    BY <2>3 DEF ClearFreed, PumpTypeOK
  <2>4. CASE CheckAvailable
    BY <2>4 DEF CheckAvailable, PumpTypeOK
  <2>5. ASSUME NEW c \in Clients, Serve(c)
        PROVE  StatusKept'
    BY <2>5 DEF Serve
  <2>6. CASE RingEmpty
    BY <2>6 DEF RingEmpty
  <2>7. CASE ClearAvailable
    BY <2>7 DEF ClearAvailable, PumpTypeOK
  <2>8. CASE Unlock
    BY <2>8 DEF Unlock
  <2> QED
    BY <1>5, <2>1, <2>2, <2>3, <2>4, <2>5, <2>6, <2>7, <2>8 DEF PumpStep
<1>6. CASE UNCHANGED pumpVars
  BY <1>6 DEF pumpVars
<1> QED
  BY <1>1, <1>2, <1>3, <1>4, <1>5, <1>6 DEF PumpNext

LEMMA LockStep ==
  ASSUME PumpTypeOK, LockHeld, [PumpNext]_pumpVars
  PROVE  LockHeld'
<1> USE PumpAssumption DEF LockHeld, PumpAssumption, Handler, Nobody
<1>1. ASSUME NEW c \in Clients, Ask(c) \/ TakeLock(c) \/ Send(c) \/ NotifyHost(c)
      PROVE  LockHeld'
  BY <1>1 DEF Ask, TakeLock, Send, NotifyHost, PumpGoto, PumpAt, PumpTypeOK
<1>2. CASE HostStep \/ \E ch \in Channels : HostRaises(ch) \/ ChannelIrq(ch)
  BY <1>2 DEF HostStep, HostTakes, HostReplies, HostAcknowledges, HostRaises, ChannelIrq
<1>3. CASE PumpStep
  <2> USE DEF AdvancePump
  <2>1. CASE WaitForIrq \/ Lock \/ Unlock
    BY <2>1 DEF WaitForIrq, Lock, Unlock
  <2>2. CASE CheckFreed \/ ClearFreed \/ CheckAvailable \/ RingEmpty \/ ClearAvailable
    BY <2>2 DEF CheckFreed, ClearFreed, CheckAvailable, RingEmpty, ClearAvailable
  <2>3. ASSUME NEW c \in Clients, Serve(c)
        PROVE  LockHeld'
    BY <2>3 DEF Serve, PumpGoto, PumpTypeOK
  <2> QED
    BY <1>3, <2>1, <2>2, <2>3 DEF PumpStep
<1>4. CASE UNCHANGED pumpVars
  BY <1>4 DEF pumpVars
<1> QED
  BY <1>1, <1>2, <1>3, <1>4 DEF PumpNext

LEMMA OutstandingStep ==
  ASSUME PumpTypeOK, Outstanding, [PumpNext]_pumpVars
  PROVE  Outstanding'
<1> USE DEF Outstanding
<1>1. ASSUME NEW c \in Clients, Ask(c) \/ TakeLock(c) \/ NotifyHost(c)
      PROVE  Outstanding'
  BY <1>1 DEF Ask, TakeLock, NotifyHost, PumpGoto, PumpAt, hostVars, PumpTypeOK
<1>2. ASSUME NEW c \in Clients, Send(c)
      PROVE  Outstanding'
  <2>1. c \notin toHost \cup hostWork \cup vring
    BY <1>2 DEF Send, PumpAt
  <2> QED
    BY <1>2, <2>1 DEF Send, PumpGoto, PumpTypeOK
<1>3. ASSUME NEW c \in Clients, HostTakes(c) \/ HostReplies(c)
      PROVE  Outstanding'
  BY <1>3 DEF HostTakes, HostReplies
<1>4. CASE HostAcknowledges \/ \E ch \in Channels : HostRaises(ch) \/ ChannelIrq(ch)
  BY <1>4 DEF HostAcknowledges, HostRaises, ChannelIrq, hostVars
<1>5. CASE PumpStep
  <2>1. CASE WaitForIrq \/ Lock \/ CheckFreed \/ ClearFreed \/ CheckAvailable
    BY <2>1 DEF WaitForIrq, Lock, CheckFreed, ClearFreed, CheckAvailable, hostVars
  <2>2. CASE RingEmpty \/ ClearAvailable \/ Unlock
    BY <2>2 DEF RingEmpty, ClearAvailable, Unlock, hostVars
  <2>3. ASSUME NEW c \in Clients, Serve(c)
        PROVE  Outstanding'
    BY <2>3 DEF Serve, PumpGoto, PumpTypeOK
  <2> QED
    BY <1>5, <2>1, <2>2, <2>3 DEF PumpStep
<1>6. CASE UNCHANGED pumpVars
  BY <1>6 DEF pumpVars
<1> QED
  BY <1>1, <1>2, <1>3, <1>4, <1>5, <1>6 DEF PumpNext, HostStep

\* Whatever the callers, the host and the interrupts do, the inductive invariant of the
\* pump holds: a set status word comes with a notification or with a handler that has
\* yet to look at it, the mutex is held while a task sends and while the ring is served,
\* and every request is in one place.
THEOREM PumpIsSafe == PumpSpec => []PumpSafe
<1>1. PumpInit => PumpSafe
  <2> SUFFICES ASSUME PumpInit PROVE PumpSafe
    OBVIOUS
  <2>1. StatusKept
    BY ChannelsDiffer DEF PumpInit, StatusKept
  <2>2. LockHeld /\ Outstanding
    BY DEF PumpInit, LockHeld, Outstanding
  <2> QED
    BY TypeInit, <2>1, <2>2 DEF PumpSafe
<1>2. PumpSafe /\ [PumpNext]_pumpVars => PumpSafe'
  BY TypeStep, StatusStep, LockStep, OutstandingStep DEF PumpSafe
<1> QED
  BY <1>1, <1>2, PTL DEF PumpSpec

\* The message handler does not go to sleep on an interrupt that it has not served: the
\* interrupt handlers may set a status word between any two of its steps.
THEOREM IrqsAreServed == PumpSpec => []IrqNotForgotten
<1>1. PumpSafe => IrqNotForgotten
  <2> SUFFICES ASSUME PumpSafe, pumpPc = "wait",
                      NEW ch \in Channels, gStatus[ch] # "Idle"
               PROVE  Notified
    BY DEF IrqNotForgotten, Notified, PumpSafe
  <2> QED
    BY ChannelsDiffer DEF PumpSafe, StatusKept
<1> QED
  BY <1>1, PumpIsSafe, PTL

\* A task whose reply is handed over has left sendTo, although the host may take a
\* request before it is kicked for it.
THEOREM RepliesFindTheirTask == PumpSpec => []ServedWaiting
<1>1. PumpSafe => ServedWaiting
  <2> SUFFICES ASSUME PumpSafe, pumpPc = "drain", NEW c \in vring
               PROVE  pc[c] = "waiting"
    BY DEF ServedWaiting
  <2>1. c \in Clients /\ pc[c] \in {"notify", "waiting"}
    BY DEF PumpSafe, Outstanding, PumpTypeOK
  <2>2. pc[c] # "notify"
    BY <2>1, PumpAssumption DEF PumpSafe, LockHeld, PumpAssumption, Handler
  <2> QED
    BY <2>1, <2>2
<1> QED
  BY <1>1, PumpIsSafe, PTL

-----------------------------------------------------------------------------
(* One caller *)

LEMMA OneSignalStep ==
  ASSUME \A c, d \in Clients : c = d, OneReplySafe, [PumpNext]_pumpVars
  PROVE  OneSignal'
<1> USE ChannelsDiffer, PumpAssumption
    DEF OneReplySafe, PumpSafe, PumpTypeOK, OneSignal, PumpAssumption
<1>1. ASSUME NEW c \in Clients, Ask(c) \/ TakeLock(c) \/ Send(c) \/ NotifyHost(c)
      PROVE  OneSignal'
  BY <1>1 DEF Ask, TakeLock, Send, NotifyHost, hostVars
<1>2. ASSUME NEW c \in Clients, HostTakes(c)
      PROVE  OneSignal'
  BY <1>2 DEF HostTakes
<1>3. ASSUME NEW c \in Clients, HostReplies(c)
      PROVE  OneSignal'
  <2>1. vring = {} /\ ~Serving
    BY <1>3 DEF HostReplies, Outstanding, ServedAlone
  <2>2. /\ kicks[BufferAvailable] = 0 /\ BufferAvailable \notin occupied
        /\ gStatus[BufferAvailable] = "Idle"
    BY <2>1 DEF SignalOfReply
  <2> QED
    BY <1>3, <2>2 DEF HostReplies
<1>4. ASSUME NEW ch \in Channels, HostRaises(ch)
      PROVE  OneSignal'
  BY <1>4 DEF HostRaises
<1>5. ASSUME NEW ch \in Channels, ChannelIrq(ch)
      PROVE  OneSignal'
  BY <1>5 DEF ChannelIrq, hostVars
<1>6. CASE HostAcknowledges \/ UNCHANGED pumpVars
  BY <1>6 DEF HostAcknowledges, hostVars, pumpVars
<1>7. CASE PumpStep
  <2>1. CASE WaitForIrq \/ Lock \/ CheckFreed \/ CheckAvailable \/ RingEmpty \/ Unlock
    BY <2>1 DEF WaitForIrq, Lock, CheckFreed, CheckAvailable, RingEmpty, Unlock, hostVars
  <2>2. CASE ClearFreed \/ ClearAvailable
    BY <2>2 DEF ClearFreed, ClearAvailable, hostVars
  <2>3. ASSUME NEW c \in Clients, Serve(c)
        PROVE  OneSignal'
    BY <2>3 DEF Serve
  <2> QED
    BY <1>7, <2>1, <2>2, <2>3 DEF PumpStep
<1> QED
  BY <1>1, <1>2, <1>3, <1>4, <1>5, <1>6, <1>7 DEF PumpNext, HostStep

LEMMA SignalStep ==
  ASSUME \A c, d \in Clients : c = d, OneReplySafe, [PumpNext]_pumpVars
  PROVE  SignalOfReply'
<1> USE ChannelsDiffer DEF OneReplySafe, PumpSafe, PumpTypeOK, SignalOfReply, Serving
<1>1. ASSUME NEW c \in Clients, Ask(c) \/ TakeLock(c) \/ Send(c) \/ NotifyHost(c)
      PROVE  SignalOfReply'
  BY <1>1 DEF Ask, TakeLock, Send, NotifyHost, hostVars
<1>2. ASSUME NEW c \in Clients, HostTakes(c)
      PROVE  SignalOfReply'
  BY <1>2 DEF HostTakes
<1>3. ASSUME NEW c \in Clients, HostReplies(c)
      PROVE  SignalOfReply'
  <2>1. vring' # {} /\ kicks'[BufferAvailable] > 0
    BY <1>3, PumpAssumption DEF HostReplies, PumpAssumption
  <2> QED
    BY <2>1
<1>4. ASSUME NEW ch \in Channels, HostRaises(ch)
      PROVE  SignalOfReply'
  BY <1>4, PumpAssumption DEF HostRaises, PumpAssumption
<1>5. ASSUME NEW ch \in Channels, ChannelIrq(ch)
      PROVE  SignalOfReply'
  BY <1>5 DEF ChannelIrq, hostVars
<1>6. CASE HostAcknowledges \/ UNCHANGED pumpVars
  BY <1>6 DEF HostAcknowledges, hostVars, pumpVars
<1>7. CASE PumpStep
  <2> USE DEF AdvancePump
  <2>1. CASE WaitForIrq \/ Lock \/ CheckFreed \/ RingEmpty \/ Unlock
    BY <2>1 DEF WaitForIrq, Lock, CheckFreed, RingEmpty, Unlock, hostVars
  <2>2. CASE ClearFreed
    BY <2>2 DEF ClearFreed, hostVars
  <2>3. CASE CheckAvailable
    BY <2>3 DEF CheckAvailable, hostVars
  <2>4. ASSUME NEW c \in Clients, Serve(c)
        PROVE  SignalOfReply'
    <3>1. kicks[BufferAvailable] = 0 /\ BufferAvailable \notin occupied
      BY <2>4, PumpAssumption DEF Serve, OneSignal, ServedAlone, PumpAssumption
    <3> QED
      BY <2>4, <3>1 DEF Serve, ServedAlone
  <2>5. CASE ClearAvailable
    <3>1. kicks[BufferAvailable] = 0 /\ BufferAvailable \notin occupied
      BY <2>5, PumpAssumption DEF ClearAvailable, OneSignal, ServedAlone, PumpAssumption
    <3> QED
      BY <2>5, <3>1 DEF ClearAvailable, ServedAlone, hostVars
  <2> QED
    BY <1>7, <2>1, <2>2, <2>3, <2>4, <2>5 DEF PumpStep
<1> QED
  BY <1>1, <1>2, <1>3, <1>4, <1>5, <1>6, <1>7 DEF PumpNext, HostStep

LEMMA AloneStep ==
  ASSUME \A c, d \in Clients : c = d, OneReplySafe, [PumpNext]_pumpVars
  PROVE  ServedAlone'
<1> USE ChannelsDiffer DEF OneReplySafe, PumpSafe, PumpTypeOK, ServedAlone, Serving
<1>1. ASSUME NEW c \in Clients, Ask(c) \/ TakeLock(c) \/ NotifyHost(c)
      PROVE  ServedAlone'
  BY <1>1 DEF Ask, TakeLock, NotifyHost, hostVars
<1>2. ASSUME NEW c \in Clients, Send(c)
      PROVE  ServedAlone'
  <2>1. ~Serving
    BY <1>2, PumpAssumption DEF Send, PumpAt, LockHeld, Handler, PumpAssumption
  <2> QED
    BY <1>2, <2>1 DEF Send
<1>3. ASSUME NEW c \in Clients, HostTakes(c) \/ HostReplies(c)
      PROVE  ServedAlone'
  BY <1>3 DEF HostTakes, HostReplies
<1>4. ASSUME NEW ch \in Channels, HostRaises(ch) \/ ChannelIrq(ch)
      PROVE  ServedAlone'
  BY <1>4 DEF HostRaises, ChannelIrq, hostVars
<1>5. CASE HostAcknowledges \/ UNCHANGED pumpVars
  BY <1>5 DEF HostAcknowledges, hostVars, pumpVars
<1>6. CASE PumpStep
  <2> USE DEF AdvancePump
  <2>1. CASE WaitForIrq \/ Lock \/ CheckFreed \/ Unlock
    BY <2>1 DEF WaitForIrq, Lock, CheckFreed, Unlock, hostVars
  <2>2. CASE ClearFreed \/ ClearAvailable
    BY <2>2 DEF ClearFreed, ClearAvailable, hostVars
  <2>3. CASE CheckAvailable
    <3>1. CASE gStatus[BufferAvailable] = "Idle"
      BY <2>3, <3>1 DEF CheckAvailable, hostVars
    <3>2. CASE gStatus[BufferAvailable] # "Idle"
      <4>1. vring # {}
        BY <2>3, <3>2 DEF CheckAvailable, SignalOfReply
      <4>2. hostWork = {} /\ toHost = {}
        BY <4>1 DEF Outstanding
      <4> QED
        BY <2>3, <3>2, <4>2 DEF CheckAvailable, hostVars
    <3> QED
      BY <3>1, <3>2
  <2>4. ASSUME NEW c \in Clients, Serve(c)
        PROVE  ServedAlone'
    BY <2>4 DEF Serve
  <2>5. CASE RingEmpty
    BY <2>5 DEF RingEmpty, hostVars
  <2> QED
    BY <1>6, <2>1, <2>2, <2>3, <2>4, <2>5 DEF PumpStep
<1> QED
  BY <1>1, <1>2, <1>3, <1>4, <1>5, <1>6 DEF PumpNext, HostStep

\* With a single task that makes requests, a reply and its signal live and die
\* together: the invariant under which no message is forgotten.
THEOREM OneReplyIsSafe ==
  ASSUME \A c, d \in Clients : c = d
  PROVE  PumpSpec => []OneReplySafe
<1>1. PumpInit => OneSignal /\ SignalOfReply /\ ServedAlone
  BY ChannelsDiffer DEF PumpInit, OneSignal, SignalOfReply, ServedAlone, Serving
<1>2. PumpInit => OneReplySafe
  <2>1. PumpInit => StatusKept /\ LockHeld /\ Outstanding
    BY ChannelsDiffer DEF PumpInit, StatusKept, LockHeld, Outstanding
  <2> QED
    BY <1>1, <2>1, TypeInit DEF OneReplySafe, PumpSafe
<1>3. OneReplySafe /\ [PumpNext]_pumpVars => OneReplySafe'
  <2> SUFFICES ASSUME OneReplySafe, [PumpNext]_pumpVars PROVE OneReplySafe'
    OBVIOUS
  <2>1. PumpSafe'
    BY TypeStep, StatusStep, LockStep, OutstandingStep DEF OneReplySafe, PumpSafe
  <2> QED
    BY <2>1, OneSignalStep, SignalStep, AloneStep DEF OneReplySafe
<1> QED
  BY <1>2, <1>3, PTL DEF PumpSpec

\* As long as one task at a time makes requests, no reply is left in the ring without a
\* kick, a status word or a handler that is looking: it takes a second request, whose
\* reply comes between the last look at the ring and the reset of the status word.
THEOREM MessagesAreServed ==
  ASSUME \A c, d \in Clients : c = d
  PROVE  PumpSpec => []MessageNotForgotten
<1>1. OneReplySafe => MessageNotForgotten
  BY DEF OneReplySafe, SignalOfReply, ServedAlone, Serving, MessageNotForgotten
<1> QED
  BY <1>1, OneReplyIsSafe, PTL

=============================================================================
