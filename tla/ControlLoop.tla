---------------------------- MODULE ControlLoop ----------------------------
(***************************************************************************)
(* The load's control task (App/Control/Task): other tasks change the      *)
(* configuration and notify it, a timer and two interrupt lines notify it  *)
(* too, and its loop hands the configuration to the driver of the load.    *)
(*                                                                         *)
(* The control task has a higher priority than the tasks that use it, so   *)
(* between two calls of the driver, which wait for the I2C bus, it is not  *)
(* interrupted by them; during these calls they run.  The driver, and the  *)
(* task that is told the load's state (Pinball), are external.             *)
(***************************************************************************)
EXTENDS Naturals, TaskNotify

CONSTANTS
  Users,             \* tasks that change the configuration
  Setpoints,         \* the currents they may ask for
  MaxConfigChanges,  \* bound on the changes they make
  MaxEvents          \* bound on the timer ticks and interrupts

ASSUME ControlAssumption ==
  /\ 0 \in Setpoints
  /\ MaxConfigChanges \in Nat
  /\ MaxEvents \in Nat

VARIABLES
  user,                 \* what each task has written and not yet notified
  configChanges,        \* number of changes so far
  loadCurrentSetpoint, isUsingExternalSense, isLoadEnabled, prevIsLoadEnabled,
  slot,                 \* the control task's TaskSpecific notification slot
  events,               \* number of timer ticks and interrupts so far
  step,                 \* where the control task is
  note,                 \* the bits it has collected and not looked at
  argument,             \* the current it has passed to setOutputCurrent
  load,                 \* what the driver board does
  told                  \* the state of the load that Pinball was last notified of

configVars == <<loadCurrentSetpoint, isUsingExternalSense, isLoadEnabled>>
userVars == <<user, configChanges, configVars>>
controlVars == <<userVars, prevIsLoadEnabled, slot, events, step, note, argument, load,
                 told>>

-----------------------------------------------------------------------------
(* Types *)

All == {"ExternalTrigger", "IrqAsserted", "SampleData", "UpdateSenseRelay", "ConfigChange"}
Nothing == "nothing"

\* The driver calls of the loop, and the places between them.
Calls == {"handleIrq", "setOutputCurrent", "setEnabledTrue", "setEnabledFalse",
          "setOutputCurrentAfter", "readInputCurrent", "readInputVoltage",
          "setExternalVSenseTrue", "setExternalVSenseFalse"}

ControlTypeOK ==
  /\ user \in [Users -> {Nothing, "UpdateSenseRelay", "ConfigChange"}]
  /\ configChanges \in 0..MaxConfigChanges
  /\ loadCurrentSetpoint \in Setpoints
  /\ isUsingExternalSense \in BOOLEAN
  /\ isLoadEnabled \in BOOLEAN
  /\ prevIsLoadEnabled \in BOOLEAN
  /\ slot \in Slot(All)
  /\ events \in 0..MaxEvents
  /\ step \in {"identify", "wait", "dispatch", "halted"} \cup Calls
  /\ note \subseteq All
  /\ step \in {"identify", "wait"} => note = {}
  /\ argument \in Setpoints
  /\ load \in [enabled : BOOLEAN, current : Setpoints, external : BOOLEAN]
  /\ told \in BOOLEAN

NotHalted == step # "halted"

\* Tasks of a lower priority run while the control task waits for a notification
\* or for its driver.
Blocked == step \in {"identify", "wait"} \cup Calls

-----------------------------------------------------------------------------
(* Other tasks: SetCurrentSetpoint, SetIsLoadActive, SetExternalSenseActive *)

Change(u, bit) ==
  /\ Blocked
  /\ user[u] = Nothing
  /\ configChanges < MaxConfigChanges
  /\ configChanges' = configChanges + 1
  /\ user' = [user EXCEPT ![u] = bit]

SetCurrentSetpoint(u) ==
  /\ Change(u, "ConfigChange")
  /\ loadCurrentSetpoint' \in Setpoints
  /\ UNCHANGED <<isUsingExternalSense, isLoadEnabled, prevIsLoadEnabled, slot, events, step,
                 note, argument, load, told>>

SetIsLoadActive(u) ==
  /\ Change(u, "ConfigChange")
  /\ isLoadEnabled' \in BOOLEAN
  /\ UNCHANGED <<loadCurrentSetpoint, isUsingExternalSense, prevIsLoadEnabled, slot, events,
                 step, note, argument, load, told>>

SetExternalSenseActive(u) ==
  /\ Change(u, "UpdateSenseRelay")
  /\ isUsingExternalSense' \in BOOLEAN
  /\ UNCHANGED <<loadCurrentSetpoint, isLoadEnabled, prevIsLoadEnabled, slot, events, step,
                 note, argument, load, told>>

\* NotifyTask, the second half of each of them.
NotifyTask(u) ==
  /\ Blocked
  /\ user[u] # Nothing
  /\ slot' = WithBits(slot, {user[u]})
  /\ user' = [user EXCEPT ![u] = Nothing]
  /\ UNCHANGED <<configChanges, configVars, prevIsLoadEnabled, events, step, note,
                 argument, load,
                 told>>

\* The sample timer, once it has been started, the driver board's interrupt line
\* and the trigger input.
Event(bit) ==
  /\ NotHalted
  /\ bit = "SampleData" => step # "identify"
  /\ events < MaxEvents
  /\ events' = events + 1
  /\ slot' = WithBits(slot, {bit})
  /\ UNCHANGED <<userVars, prevIsLoadEnabled, step, note, argument, load, told>>

-----------------------------------------------------------------------------
(* The control task: main *)

\* identifyDriver: a board that cannot be identified halts the firmware.
IdentifyDriver ==
  /\ step = "identify"
  /\ step' \in {"wait", "halted"}
  /\ UNCHANGED <<userVars, prevIsLoadEnabled, slot, events, note, argument, load, told>>

\* A faulty variant of WaitForEvent: one event is handled per notification.
WaitForOneEvent ==
  /\ step = "wait"
  /\ slot.pending
  /\ \E bit \in slot.bits : note' = {bit}
  /\ slot' = Collected(slot, All)
  /\ step' = "dispatch"
  /\ UNCHANGED <<userVars, prevIsLoadEnabled, events, argument, load, told>>

WaitForEvent ==
  /\ step = "wait"
  /\ slot.pending
  /\ note' = slot.bits
  /\ slot' = Collected(slot, All)
  /\ step' = "dispatch"
  /\ UNCHANGED <<userVars, prevIsLoadEnabled, events, argument, load, told>>

\* The bits are looked at in this order.
Order == <<"IrqAsserted", "ConfigChange", "SampleData", "UpdateSenseRelay">>
IsFirst(bit) ==
  /\ bit \in note
  /\ \E i \in 1..4 : Order[i] = bit /\ \A j \in 1..(i - 1) : Order[j] \notin note

\* Start the driver call that a bit asks for.
Dispatch(bit, name) ==
  /\ step = "dispatch"
  /\ IsFirst(bit)
  /\ note' = note \ {bit}
  /\ step' = name
  /\ UNCHANGED <<userVars, prevIsLoadEnabled, slot, events, load, told>>

HandleDriverIrq == Dispatch("IrqAsserted", "handleIrq") /\ UNCHANGED argument

ReadSensors == Dispatch("SampleData", "readInputCurrent") /\ UNCHANGED argument

UpdateSenseRelay ==
  /\ Dispatch("UpdateSenseRelay", IF isUsingExternalSense THEN "setExternalVSenseTrue"
                                  ELSE "setExternalVSenseFalse")
  /\ UNCHANGED argument

\* A faulty variant of UpdateConfig: the load is enabled at its old current.
UpdateLoadEnableFirst ==
  /\ Dispatch("ConfigChange", IF isLoadEnabled THEN "setEnabledTrue" ELSE "setEnabledFalse")
  /\ UNCHANGED argument

\* updateConfig: the current comes first if the load is to be enabled.
UpdateLoadConfig ==
  \/ /\ isLoadEnabled
     /\ Dispatch("ConfigChange", "setOutputCurrent")
     /\ argument' = loadCurrentSetpoint
  \/ /\ ~isLoadEnabled
     /\ Dispatch("ConfigChange", "setEnabledFalse")
     /\ UNCHANGED argument

\* All bits have been looked at (the trigger is not used).
DispatchDone ==
  /\ step = "dispatch"
  /\ \A i \in 1..4 : Order[i] \notin note
  /\ note' = {}
  /\ step' = "wait"
  /\ UNCHANGED <<userVars, prevIsLoadEnabled, slot, events, argument, load, told>>

-----------------------------------------------------------------------------
(* The control task: a driver call has returned *)

\* An error of the driver halts the firmware.
DriverFails ==
  /\ step \in Calls \ {"handleIrq"}
  /\ step' = "halted"
  /\ UNCHANGED <<userVars, prevIsLoadEnabled, slot, events, note, argument, load, told>>

\* Calls that change nothing here.
Returned(name, next) ==
  /\ step = name
  /\ step' = next
  /\ UNCHANGED <<userVars, prevIsLoadEnabled, slot, events, note, argument, load, told>>

IrqHandled == Returned("handleIrq", "dispatch")
CurrentRead == Returned("readInputCurrent", "readInputVoltage")
VoltageRead == Returned("readInputVoltage", "dispatch")

SenseRelaySet ==
  /\ step \in {"setExternalVSenseTrue", "setExternalVSenseFalse"}
  /\ load' = [load EXCEPT !.external = (step = "setExternalVSenseTrue")]
  /\ step' = "dispatch"
  /\ UNCHANGED <<userVars, prevIsLoadEnabled, slot, events, note, argument, told>>

\* The end of updateConfig: has the state changed since Pinball was last told?
Indicate ==
  /\ told' = IF prevIsLoadEnabled # isLoadEnabled THEN isLoadEnabled ELSE told
  /\ prevIsLoadEnabled' = isLoadEnabled

\* The current is set, then the load enabled.
CurrentSet ==
  /\ step = "setOutputCurrent"
  /\ load' = [load EXCEPT !.current = argument]
  /\ step' = "setEnabledTrue"
  /\ UNCHANGED <<userVars, prevIsLoadEnabled, slot, events, note, argument, told>>

LoadEnabled ==
  /\ step = "setEnabledTrue"
  /\ load' = [load EXCEPT !.enabled = TRUE]
  /\ step' = "dispatch"
  /\ Indicate
  /\ UNCHANGED <<userVars, slot, events, note, argument>>

\* Or the load is disabled, then the current set.
LoadDisabled ==
  /\ step = "setEnabledFalse"
  /\ load' = [load EXCEPT !.enabled = FALSE]
  /\ step' = "setOutputCurrentAfter"
  /\ argument' = loadCurrentSetpoint
  /\ UNCHANGED <<userVars, prevIsLoadEnabled, slot, events, note, told>>

CurrentSetAfter ==
  /\ step = "setOutputCurrentAfter"
  /\ load' = [load EXCEPT !.current = argument]
  /\ step' = "dispatch"
  /\ Indicate
  /\ UNCHANGED <<userVars, slot, events, note, argument>>

-----------------------------------------------------------------------------
(* Specification *)

ControlInit ==
  /\ user = [u \in Users |-> Nothing]
  /\ configChanges = 0
  /\ loadCurrentSetpoint = 0
  /\ isUsingExternalSense = FALSE
  /\ isLoadEnabled = FALSE
  /\ prevIsLoadEnabled = FALSE
  /\ slot = NoNotification
  /\ events = 0
  /\ step = "identify"
  /\ note = {}
  /\ argument = 0
  /\ load = [enabled |-> FALSE, current |-> 0, external |-> FALSE]
  /\ told = FALSE

LoopStep ==
  \/ IdentifyDriver \/ WaitForEvent
  \/ HandleDriverIrq \/ UpdateLoadConfig \/ ReadSensors \/ UpdateSenseRelay \/ DispatchDone
  \/ IrqHandled \/ CurrentRead \/ VoltageRead \/ SenseRelaySet
  \/ CurrentSet \/ LoadEnabled \/ LoadDisabled \/ CurrentSetAfter

UserStep(u) ==
  \/ SetCurrentSetpoint(u) \/ SetIsLoadActive(u) \/ SetExternalSenseActive(u)
  \/ NotifyTask(u)

ControlNext ==
  \/ \E u \in Users : UserStep(u)
  \/ \E bit \in {"SampleData", "IrqAsserted", "ExternalTrigger"} : Event(bit)
  \/ LoopStep
  \/ DriverFails

ControlSpec == ControlInit /\ [][ControlNext]_controlVars

\* The control task and the tasks that use it run.
ControlFairness == WF_controlVars(LoopStep) /\ \A u \in Users : WF_controlVars(NotifyTask(u))

FairControlSpec == ControlSpec /\ ControlFairness

-----------------------------------------------------------------------------
(* Properties *)

\* A change has been written, and its notification has not been collected.
ChangePending(bit) == bit \in slot.bits \/ \E u \in Users : user[u] = bit

\* When the control task sleeps and no change is pending, the load does what the
\* configuration says, however changes and driver calls overlapped.
ConfigApplied ==
  step = "wait" =>
    /\ ~ChangePending("ConfigChange") =>
         load.enabled = isLoadEnabled /\ load.current = loadCurrentSetpoint
    /\ ~ChangePending("UpdateSenseRelay") => load.external = isUsingExternalSense

\* The load is never enabled at a current other than the setpoint, unless the
\* setpoint is just being changed.
EnabledAtSetpoint ==
  [][~load.enabled /\ load'.enabled =>
       load.current = loadCurrentSetpoint \/ ChangePending("ConfigChange")]_controlVars

\* "Did the UI enable state change?" (updateConfig): although the configuration is
\* read again after the driver calls, once everything is quiet Pinball has been told
\* whether the load is enabled.
IndicatorFollows ==
  step = "wait" /\ ~ChangePending("ConfigChange") => told = load.enabled

\* A load that is to be disabled is disabled, unless that is revoked or the firmware
\* halts.
LoadStops == load.enabled /\ ~isLoadEnabled ~> ~load.enabled \/ isLoadEnabled \/ ~NotHalted

=============================================================================
