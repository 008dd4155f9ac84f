------------------------------ MODULE Shutdown ------------------------------
(***************************************************************************)
(* How the firmware stops.  The host raises IPCC channel 3; the message    *)
(* handler task turns the status LED red, calls the shutdown handlers that *)
(* tasks have registered, last one first, waits until every one of these   *)
(* tasks has acknowledged, and acknowledges to the host, which turns the   *)
(* firmware off (MessageHandler::handleShutdown).  The supervisor task     *)
(* feeds the watchdog and blinks the same LED; its shutdown handler, which *)
(* runs in the message handler's context, stops the blinking and           *)
(* acknowledges at once.                                                   *)
(*                                                                         *)
(* The supervisor's priority is higher than the message handler's, so the  *)
(* message handler takes no step while the supervisor is serving a         *)
(* watchdog warning.                                                       *)
(***************************************************************************)
EXTENDS Naturals, Sequences, SequencesExt, TaskNotify

CONSTANTS
  Supervisor,  \* the supervisor task, registered first
  Others,      \* tasks that may register a handler, and acknowledge later
  MaxIrqs      \* bound on the mailbox interrupts

Tasks == Others \cup {Supervisor}

ASSUME ShutdownAssumption ==
  /\ Supervisor \notin Others
  /\ MaxIrqs \in Nat

VARIABLES
  handlerSlot,       \* the message handler's TaskSpecific notification slot
  stage,             \* where the message handler is
  handlerNote,       \* the bits it has collected
  shutdownHandlers,  \* the tasks whose callbacks are registered, in order
  shutdownCounter,
  toCall,            \* callbacks that handleShutdown has yet to invoke
  called,            \* callbacks it has invoked
  acks,              \* task -> "none", "due", "counted" or "done"
  irqs,              \* mailbox interrupts so far
  requested,         \* the host has requested the shutdown
  supervisor,        \* where the supervisor is
  isHeartbeatEnabled,
  numSuccessfulCheckins,  \* its lowest bit
  led

shutdownVars == <<shutdownHandlers, shutdownCounter, toCall, called, acks>>
supervisorVars == <<supervisor, isHeartbeatEnabled, numSuccessfulCheckins>>
irqVars == <<irqs, requested>>
shutdownAllVars == <<handlerSlot, stage, handlerNote, shutdownVars, irqVars, supervisorVars, led>>

-----------------------------------------------------------------------------
(* Types *)

NotifyBits == {"MailboxDeferredIrq", "ShutdownRequest", "ShutdownAck"}
HandlerBits == {"MailboxDeferredIrq", "ShutdownRequest"}

ShutdownTypeOK ==
  /\ handlerSlot \in Slot(NotifyBits)
  /\ stage \in {"wait", "serve", "warn", "callbacks", "checkEmpty", "checkAcks", "awaitAck",
               "ackHost", "off"}
  /\ handlerNote \subseteq HandlerBits
  /\ shutdownHandlers \in Seq(Tasks)
  /\ shutdownCounter \in Nat
  /\ toCall \in Seq(Tasks) /\ called \in Seq(Tasks)
  /\ acks \in [Tasks -> {"none", "due", "counted", "done"}]
  /\ irqs \in 0..MaxIrqs
  /\ requested \in BOOLEAN
  /\ supervisor \in {"waiting", "check", "blink"}
  /\ isHeartbeatEnabled \in BOOLEAN
  /\ numSuccessfulCheckins \in {0, 1}
  /\ led \in {"Cyan", "Green", "Red", "Off"}

NotOff == stage # "off"

\* The message handler goes on: the supervisor does not preempt it.
AdvanceHandler(from, to) == stage = from /\ supervisor = "waiting" /\ stage' = to

-----------------------------------------------------------------------------
(* Interrupts *)

\* Channels 1 and 2; the interrupt handlers are those of MessagePump.
MailboxIrq ==
  /\ NotOff
  /\ irqs < MaxIrqs
  /\ irqs' = irqs + 1
  /\ handlerSlot' = WithBits(handlerSlot, {"MailboxDeferredIrq"})
  /\ UNCHANGED <<stage, handlerNote, shutdownVars, requested, supervisorVars, led>>

\* Channel 3, which is not acknowledged here and so is raised only once.
ShutdownIrq ==
  /\ ~requested
  /\ requested' = TRUE
  /\ handlerSlot' = WithBits(handlerSlot, {"ShutdownRequest"})
  /\ UNCHANGED <<stage, handlerNote, shutdownVars, irqs, supervisorVars, led>>

\* The watchdog's early warning interrupt notifies the supervisor.
WatchdogIrq ==
  /\ NotOff
  /\ supervisor = "waiting"
  /\ supervisor' = "check"
  /\ UNCHANGED <<handlerSlot, stage, handlerNote, shutdownVars, irqVars, isHeartbeatEnabled,
                 numSuccessfulCheckins, led>>

-----------------------------------------------------------------------------
(* The supervisor: wdgEarlyWarning *)

CheckHeartbeat ==
  /\ NotOff
  /\ supervisor = "check"
  /\ numSuccessfulCheckins' = 1 - numSuccessfulCheckins
  /\ supervisor' = IF isHeartbeatEnabled THEN "blink" ELSE "waiting"
  /\ UNCHANGED <<handlerSlot, stage, handlerNote, shutdownVars, irqVars,
                 isHeartbeatEnabled, led>>

Blink ==
  /\ NotOff
  /\ supervisor = "blink"
  /\ led' = IF numSuccessfulCheckins = 1 THEN "Cyan" ELSE "Green"
  /\ supervisor' = "waiting"
  /\ UNCHANGED <<handlerSlot, stage, handlerNote, shutdownVars, irqVars, isHeartbeatEnabled,
                 numSuccessfulCheckins>>

-----------------------------------------------------------------------------
(* Tasks: addShutdownHandler and ackShutdown *)

\* A faulty variant of AddShutdownHandler: the task is not counted.
AddUncounted(t) ==
  /\ NotOff
  /\ t \notin ToSet(shutdownHandlers)
  /\ shutdownHandlers' = Append(shutdownHandlers, t)
  /\ UNCHANGED <<handlerSlot, stage, handlerNote, shutdownCounter, toCall, called, acks,
                 irqVars,
                 supervisorVars, led>>

\* In a critical section: append the callback and count its task.
AddShutdownHandler(t) ==
  /\ NotOff
  /\ t \notin ToSet(shutdownHandlers)
  /\ shutdownHandlers' = Append(shutdownHandlers, t)
  /\ shutdownCounter' = shutdownCounter + 1
  /\ UNCHANGED <<handlerSlot, stage, handlerNote, toCall, called, acks, irqVars,
                 supervisorVars, led>>

\* ackShutdown by a task that was told to shut down: decrement the counter...
CountAck(t) ==
  /\ NotOff
  /\ acks[t] = "due"
  /\ acks' = [acks EXCEPT ![t] = "counted"]
  /\ shutdownCounter' = shutdownCounter - 1
  /\ UNCHANGED <<handlerSlot, stage, handlerNote, shutdownHandlers, toCall, called, irqVars,
                 supervisorVars, led>>

\* ...then notify the message handler.
NotifyAck(t) ==
  /\ NotOff
  /\ acks[t] = "counted"
  /\ acks' = [acks EXCEPT ![t] = "done"]
  /\ handlerSlot' = WithBits(handlerSlot, {"ShutdownAck"})
  /\ UNCHANGED <<stage, handlerNote, shutdownHandlers, shutdownCounter, toCall, called,
                 irqVars,
                 supervisorVars, led>>

-----------------------------------------------------------------------------
(* The message handler: main and handleShutdown *)

\* A faulty variant of WaitForEvent: one event is handled per notification.
WaitForOneRequest ==
  /\ AdvanceHandler("wait", "serve")
  /\ handlerSlot.pending
  /\ handlerNote' = IF "MailboxDeferredIrq" \in handlerSlot.bits THEN {"MailboxDeferredIrq"}
             ELSE handlerSlot.bits \cap HandlerBits
  /\ handlerSlot' = Collected(handlerSlot, HandlerBits)
  /\ UNCHANGED <<shutdownVars, irqVars, supervisorVars, led>>

WaitForRequest ==
  /\ AdvanceHandler("wait", "serve")
  /\ handlerSlot.pending
  /\ handlerNote' = handlerSlot.bits \cap HandlerBits
  /\ handlerSlot' = Collected(handlerSlot, HandlerBits)
  /\ UNCHANGED <<shutdownVars, irqVars, supervisorVars, led>>

\* The mailbox is served (MessagePump) before the shutdown is looked at.
ServeMailbox ==
  /\ AdvanceHandler("serve", IF "ShutdownRequest" \in handlerNote THEN "warn" ELSE "wait")
  /\ UNCHANGED <<handlerSlot, handlerNote, shutdownVars, irqVars, supervisorVars, led>>

\* Show the shutdown; the loop starts at the handler that was added last.
StartShutdown ==
  /\ AdvanceHandler("warn", "callbacks")
  /\ led' = "Red"
  /\ toCall' = Reverse(shutdownHandlers)
  /\ UNCHANGED <<handlerSlot, handlerNote, shutdownHandlers, shutdownCounter, called,
                 acks, irqVars,
                 supervisorVars>>

\* A faulty variant of Invoke: the supervisor is only told, and does not blink less.
InvokeBlinking(t) == acks' = [acks EXCEPT ![t] = "due"] /\ UNCHANGED isHeartbeatEnabled

\* A shutdown callback.  The supervisor's stops the heartbeat; its call of
\* ackShutdown follows before the next callback.
Invoke(t) ==
  /\ acks' = [acks EXCEPT ![t] = "due"]
  /\ isHeartbeatEnabled' = (isHeartbeatEnabled /\ t # Supervisor)

CallHandler ==
  /\ AdvanceHandler("callbacks", "callbacks")
  /\ toCall # <<>>
  /\ acks[Supervisor] \in {"none", "done"}
  /\ Invoke(Head(toCall))
  /\ called' = Append(called, Head(toCall))
  /\ toCall' = Tail(toCall)
  /\ UNCHANGED <<handlerSlot, handlerNote, shutdownHandlers, shutdownCounter, irqVars,
                 supervisor,
                 numSuccessfulCheckins, led>>

CallbacksDone ==
  /\ AdvanceHandler("callbacks", "checkEmpty")
  /\ toCall = <<>>
  /\ acks[Supervisor] \in {"none", "done"}
  /\ UNCHANGED <<handlerSlot, handlerNote, shutdownVars, irqVars, supervisorVars, led>>

CheckEmpty ==
  /\ AdvanceHandler("checkEmpty", IF shutdownHandlers = <<>> THEN "ackHost" ELSE "checkAcks")
  /\ UNCHANGED <<handlerSlot, handlerNote, shutdownVars, irqVars, supervisorVars, led>>

CheckAcks ==
  /\ AdvanceHandler("checkAcks", IF shutdownCounter = 0 THEN "ackHost" ELSE "awaitAck")
  /\ UNCHANGED <<handlerSlot, handlerNote, shutdownVars, irqVars, supervisorVars, led>>

\* A faulty variant of AwaitAck: the counter is not looked at again.
AwaitOneAck ==
  /\ AdvanceHandler("awaitAck", "ackHost")
  /\ handlerSlot.pending
  /\ handlerSlot' = Collected(handlerSlot, {"ShutdownAck"})
  /\ UNCHANGED <<handlerNote, shutdownVars, irqVars, supervisorVars, led>>

\* Any notification ends this wait.  Its other bits are kept, but the slot is no
\* longer pending.
AwaitAck ==
  /\ AdvanceHandler("awaitAck", "checkAcks")
  /\ handlerSlot.pending
  /\ handlerSlot' = Collected(handlerSlot, {"ShutdownAck"})
  /\ UNCHANGED <<handlerNote, shutdownVars, irqVars, supervisorVars, led>>

\* The LED goes out, and the host turns the firmware off.
AckHost ==
  /\ AdvanceHandler("ackHost", "off")
  /\ led' = "Off"
  /\ UNCHANGED <<handlerSlot, handlerNote, shutdownVars, irqVars, supervisorVars>>

-----------------------------------------------------------------------------
(* Specification *)

ShutdownInit ==
  /\ handlerSlot = NoNotification
  /\ stage = "wait"
  /\ handlerNote = {}
  /\ shutdownHandlers = <<Supervisor>>
  /\ shutdownCounter = 1
  /\ toCall = <<>> /\ called = <<>>
  /\ acks = [t \in Tasks |-> "none"]
  /\ irqs = 0
  /\ requested = FALSE
  /\ supervisor = "waiting"
  /\ isHeartbeatEnabled = TRUE
  /\ numSuccessfulCheckins = 0
  /\ led = "Green"

MessageHandlerStep ==
  \/ WaitForRequest \/ ServeMailbox
  \/ StartShutdown \/ CallHandler \/ CallbacksDone
  \/ CheckEmpty \/ CheckAcks \/ AwaitAck \/ AckHost

SupervisorStep == CheckHeartbeat \/ Blink

AckStep(t) == CountAck(t) \/ NotifyAck(t)

ShutdownNext ==
  \/ MailboxIrq \/ ShutdownIrq \/ WatchdogIrq
  \/ SupervisorStep
  \/ \E t \in Tasks : AddShutdownHandler(t) \/ AckStep(t)
  \/ MessageHandlerStep

ShutdownSpec == ShutdownInit /\ [][ShutdownNext]_shutdownAllVars

\* The tasks run; watchdog warnings are far enough apart for the message handler
\* to run between them.
ShutdownFairness ==
  /\ SF_shutdownAllVars(MessageHandlerStep) /\ WF_shutdownAllVars(SupervisorStep)
  /\ \A t \in Tasks : WF_shutdownAllVars(AckStep(t))

FairShutdownSpec == ShutdownSpec /\ ShutdownFairness

-----------------------------------------------------------------------------
(* Properties *)

\* The firmware decides to tell the host that it is done only when every task
\* that has registered a handler was called and has acknowledged.
AckedByAll ==
  [][stage # "ackHost" /\ stage' = "ackHost" =>
       \A t \in ToSet(shutdownHandlers) :
         t \in ToSet(called) /\ acks[t] \in {"counted", "done"}]_shutdownAllVars

\* Tasks that have a handler and whose acknowledgement has not been counted.
Awaited == {t \in ToSet(shutdownHandlers) : acks[t] \notin {"counted", "done"}}

\* The counter is the number of handlers registered whose acknowledgement has
\* not been counted, and the state is well typed.
CounterExact == ShutdownTypeOK /\ shutdownCounter = Cardinality(Awaited)

\* Once the supervisor's callback has run, nothing but the end of the shutdown
\* changes the LED: no heartbeat that was under way comes after it.
HeartbeatStops == [][acks[Supervisor] # "none" => led' \in {led, "Off"}]_shutdownAllVars

\* A handler that was added after the loop over the callbacks had started: its task
\* is counted, but will not be called.
AddedTooLate ==
  /\ stage \notin {"wait", "serve", "warn"}
  /\ Len(shutdownHandlers) > Len(called \o toCall)

\* A shutdown that the host has requested completes, unless a handler is added too
\* late.
ShutdownCompletes == requested ~> stage = "off" \/ AddedTooLate

=============================================================================
