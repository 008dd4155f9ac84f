------------------------- MODULE ControlLoopProofs --------------------------
(***************************************************************************)
(* Machine-checked proofs about the control loop, for every set of tasks   *)
(* and currents, and any number of changes and events.                     *)
(***************************************************************************)
EXTENDS ControlInvariants, TLAPS

-----------------------------------------------------------------------------
(* Type correctness *)

LEMMA TypeInit == ControlInit => ControlTypeOK
<1> SUFFICES ASSUME ControlInit PROVE ControlTypeOK
  OBVIOUS
<1>1. user \in [Users -> {Nothing, "UpdateSenseRelay", "ConfigChange"}]
  BY DEF ControlInit
<1>2. slot \in Slot(All)
  BY DEF ControlInit, Slot, NoNotification
<1>3. load \in [enabled : BOOLEAN, current : Setpoints, external : BOOLEAN]
  BY ControlAssumption DEF ControlInit, ControlAssumption
<1>4. configChanges \in 0..MaxConfigChanges /\ events \in 0..MaxEvents
  BY ControlAssumption DEF ControlInit, ControlAssumption
<1>5. loadCurrentSetpoint \in Setpoints /\ argument \in Setpoints
  BY ControlAssumption DEF ControlInit, ControlAssumption
<1> QED
  BY <1>1, <1>2, <1>3, <1>4, <1>5 DEF ControlInit, ControlTypeOK

LEMMA ConfigStep ==
  ASSUME ControlTypeOK, NEW u \in Users, UserStep(u)
  PROVE  ControlTypeOK'
<1> USE DEF ControlTypeOK
<1>1. CASE SetCurrentSetpoint(u)
  BY <1>1, ControlAssumption DEF SetCurrentSetpoint, Change, ControlAssumption
<1>2. CASE SetIsLoadActive(u)
  BY <1>2, ControlAssumption DEF SetIsLoadActive, Change, ControlAssumption
<1>3. CASE SetExternalSenseActive(u)
  BY <1>3, ControlAssumption DEF SetExternalSenseActive, Change, ControlAssumption
<1>4. CASE NotifyTask(u)
  <2>1. slot' \in Slot(All)
    BY <1>4 DEF NotifyTask, Slot, WithBits, All, Nothing
  <2> QED
    BY <1>4, <2>1 DEF NotifyTask, configVars, Nothing
<1> QED
  BY <1>1, <1>2, <1>3, <1>4 DEF UserStep

LEMMA LoopTypeStep ==
  ASSUME ControlTypeOK, LoopStep
  PROVE  ControlTypeOK'
<1> USE DEF ControlTypeOK, userVars, configVars
<1>1. CASE IdentifyDriver
  BY <1>1 DEF IdentifyDriver
<1>2. CASE WaitForEvent
  <2>1. slot' \in Slot(All) /\ note' \subseteq All
    BY <1>2 DEF WaitForEvent, Slot, Collected
  <2> QED
    BY <1>2, <2>1 DEF WaitForEvent
<1>3. CASE HandleDriverIrq \/ ReadSensors \/ UpdateSenseRelay
  BY <1>3 DEF HandleDriverIrq, ReadSensors, UpdateSenseRelay, Dispatch, Calls
<1>4. CASE UpdateLoadConfig
  BY <1>4 DEF UpdateLoadConfig, Dispatch, Calls
<1>5. CASE DispatchDone
  BY <1>5 DEF DispatchDone
<1>6. CASE IrqHandled \/ CurrentRead \/ VoltageRead
  BY <1>6 DEF IrqHandled, CurrentRead, VoltageRead, Returned, Calls
<1>7. CASE SenseRelaySet
  BY <1>7 DEF SenseRelaySet
<1>8. CASE CurrentSet
  BY <1>8 DEF CurrentSet, Calls
<1>9. CASE LoadEnabled \/ CurrentSetAfter
  BY <1>9 DEF LoadEnabled, CurrentSetAfter, Indicate
<1>10. CASE LoadDisabled
  BY <1>10 DEF LoadDisabled, Calls
<1> QED
  BY <1>1, <1>2, <1>3, <1>4, <1>5, <1>6, <1>7, <1>8, <1>9, <1>10 DEF LoopStep

LEMMA TypeStep ==
  ASSUME ControlTypeOK, [ControlNext]_controlVars
  PROVE  ControlTypeOK'
<1>1. ASSUME NEW bit \in {"SampleData", "IrqAsserted", "ExternalTrigger"}, Event(bit)
      PROVE  ControlTypeOK'
  <2>1. slot' \in Slot(All)
    BY <1>1 DEF Event, ControlTypeOK, Slot, WithBits, All
  <2> QED
    BY <1>1, <2>1, ControlAssumption
    DEF Event, ControlTypeOK, userVars, configVars, ControlAssumption
<1>2. CASE DriverFails
  BY <1>2 DEF DriverFails, ControlTypeOK, userVars, configVars
<1>3. CASE UNCHANGED controlVars
  BY <1>3 DEF controlVars, userVars, configVars, ControlTypeOK
<1> QED
  BY <1>1, <1>2, <1>3, ConfigStep, LoopTypeStep DEF ControlNext

\* Every reachable state is well typed (all actions of ControlLoop).
THEOREM TypeCorrect == ControlSpec => []ControlTypeOK
  BY TypeInit, TypeStep, PTL DEF ControlSpec

-----------------------------------------------------------------------------
(* The load follows the configuration *)

LEMMA SafeInit == ControlInit => ControlSafe
<1> SUFFICES ASSUME ControlInit PROVE ControlSafe
  OBVIOUS
<1>1. BitTaken /\ ToldInv
  BY DEF ControlInit, BitTaken, ToldInv, Updating
<1>2. ConfigInv
  BY DEF ControlInit, ConfigInv, Followed, Updating
<1>3. SenseInv
  BY DEF ControlInit, SenseInv
<1> QED
  BY <1>1, <1>2, <1>3, TypeInit DEF ControlSafe

\* A change stays fresh while the control task does nothing about it.
LEMMA StaysFresh ==
  ASSUME ControlTypeOK, NEW bit \in {"ConfigChange", "UpdateSenseRelay"}, Fresh(bit),
         \/ \E u \in Users : UserStep(u)
         \/ \E b \in {"SampleData", "IrqAsserted", "ExternalTrigger"} : Event(b)
  PROVE  Fresh(bit)'
<1> USE DEF Fresh, ChangePending
<1>1. CASE bit \in slot.bits \/ bit \in note
  <2>1. ASSUME NEW u \in Users, UserStep(u)
        PROVE  bit \in slot'.bits \/ bit \in note'
    BY <1>1, <2>1 DEF UserStep, SetCurrentSetpoint, SetIsLoadActive,
                      SetExternalSenseActive, NotifyTask, WithBits
  <2>2. ASSUME NEW b \in {"SampleData", "IrqAsserted", "ExternalTrigger"}, Event(b)
        PROVE  bit \in slot'.bits \/ bit \in note'
    BY <1>1, <2>2 DEF Event, WithBits
  <2> QED
    BY <2>1, <2>2
<1>2. CASE \E v \in Users : user[v] = bit
  <2> PICK v \in Users : user[v] = bit
    BY <1>2
  <2>1. ASSUME NEW u \in Users, Change(u, "ConfigChange") \/ Change(u, "UpdateSenseRelay")
        PROVE  user'[v] = bit
    BY <2>1 DEF Change, ControlTypeOK, Nothing
  <2>2. ASSUME NEW u \in Users, NotifyTask(u)
        PROVE  bit \in slot'.bits \/ user'[v] = bit
    BY <2>2 DEF NotifyTask, WithBits, ControlTypeOK
  <2>3. ASSUME NEW b \in {"SampleData", "IrqAsserted", "ExternalTrigger"}, Event(b)
        PROVE  user'[v] = bit
    BY <2>3 DEF Event, userVars
  <2> QED
    BY <2>1, <2>2, <2>3
    DEF UserStep, SetCurrentSetpoint, SetIsLoadActive, SetExternalSenseActive
<1> QED
  BY <1>1, <1>2

LEMMA OthersKeepSafe ==
  ASSUME ControlSafe, ControlTypeOK',
         \/ \E u \in Users : UserStep(u)
         \/ \E b \in {"SampleData", "IrqAsserted", "ExternalTrigger"} : Event(b)
  PROVE  ControlSafe'
<1>1. UNCHANGED <<step, note, argument, load, told, prevIsLoadEnabled>>
  BY DEF UserStep, SetCurrentSetpoint, SetIsLoadActive, SetExternalSenseActive, NotifyTask,
         Event
<1>2. BitTaken' /\ ToldInv'
  BY <1>1 DEF ControlSafe, BitTaken, ToldInv, Updating
<1>3. /\ Fresh("ConfigChange") => Fresh("ConfigChange")'
      /\ Fresh("UpdateSenseRelay") => Fresh("UpdateSenseRelay")'
  BY StaysFresh DEF ControlSafe
<1>4. \/ Fresh("ConfigChange")'
      \/ UNCHANGED <<loadCurrentSetpoint, isLoadEnabled>>
  <2>1. ASSUME NEW u \in Users, Change(u, "ConfigChange")
        PROVE  Fresh("ConfigChange")'
    BY <2>1 DEF Change, Fresh, ChangePending, ControlSafe, ControlTypeOK
  <2> QED
    BY <2>1 DEF UserStep, SetCurrentSetpoint, SetIsLoadActive, SetExternalSenseActive,
                NotifyTask, Event, userVars, configVars
<1>5. \/ Fresh("UpdateSenseRelay")'
      \/ UNCHANGED isUsingExternalSense
  <2>1. ASSUME NEW u \in Users, Change(u, "UpdateSenseRelay")
        PROVE  Fresh("UpdateSenseRelay")'
    BY <2>1 DEF Change, Fresh, ChangePending, ControlSafe, ControlTypeOK
  <2> QED
    BY <2>1 DEF UserStep, SetCurrentSetpoint, SetIsLoadActive, SetExternalSenseActive,
                NotifyTask, Event, userVars, configVars
<1>6. ConfigInv'
  BY <1>1, <1>3, <1>4 DEF ControlSafe, ConfigInv, NotHalted, Followed, Updating
<1>7. SenseInv'
  BY <1>1, <1>3, <1>5 DEF ControlSafe, SenseInv, NotHalted
<1> QED
  BY <1>2, <1>6, <1>7 DEF ControlSafe

\* The loop's own steps leave the configuration alone; all but WaitForEvent leave
\* pending what is pending.
LEMMA LoopLeaves ==
  ASSUME LoopStep \/ DriverFails
  PROVE  /\ UNCHANGED <<user, loadCurrentSetpoint, isUsingExternalSense, isLoadEnabled>>
         /\ WaitForEvent \/ UNCHANGED slot
  BY DEF LoopStep, DriverFails, IdentifyDriver, WaitForEvent, HandleDriverIrq,
     UpdateLoadConfig, ReadSensors, UpdateSenseRelay, DispatchDone, Dispatch,
     IrqHandled, CurrentRead, VoltageRead, Returned, SenseRelaySet, CurrentSet,
     LoadEnabled, LoadDisabled, CurrentSetAfter, userVars, configVars

LEMMA LoopKeepsSafe ==
  ASSUME ControlSafe, ControlTypeOK', LoopStep
  PROVE  ControlSafe'
<1> USE LoopLeaves DEF ControlSafe
<1>1. CASE IdentifyDriver
  <2>1. UNCHANGED <<note, argument, load, told, prevIsLoadEnabled, slot>>
    BY <1>1 DEF IdentifyDriver
  <2>2. step = "identify" /\ step' \in {"wait", "halted"}
    BY <1>1 DEF IdentifyDriver
  <2> QED
    BY <2>1, <2>2 DEF BitTaken, ToldInv, ConfigInv, SenseInv, Followed, Fresh,
                      ChangePending, NotHalted, Updating
<1>2. CASE WaitForEvent
  <2>1. UNCHANGED <<argument, load, told, prevIsLoadEnabled>>
    BY <1>2 DEF WaitForEvent
  <2>2. step = "wait" /\ step' = "dispatch" /\ note = {} /\ note' = slot.bits
    BY <1>2 DEF WaitForEvent, ControlTypeOK
  <2>3. \A bit : Fresh(bit) => Fresh(bit)'
    BY <2>2 DEF Fresh, ChangePending
  <2> QED
    BY <2>1, <2>2, <2>3 DEF BitTaken, ToldInv, ConfigInv, SenseInv, Followed, NotHalted,
                            Updating
<1>3. CASE HandleDriverIrq \/ ReadSensors
  <2>1. UNCHANGED <<argument, load, told, prevIsLoadEnabled, slot>>
    BY <1>3 DEF HandleDriverIrq, ReadSensors, Dispatch
  <2>2. step = "dispatch" /\ step' \in {"handleIrq", "readInputCurrent"}
    BY <1>3 DEF HandleDriverIrq, ReadSensors, Dispatch
  <2>3. note' \in {note \ {"IrqAsserted"}, note \ {"SampleData"}}
    BY <1>3 DEF HandleDriverIrq, ReadSensors, Dispatch
  <2> QED
    BY <2>1, <2>2, <2>3 DEF BitTaken, ToldInv, ConfigInv, SenseInv, Followed, Fresh,
                            ChangePending, NotHalted, Updating
<1>4. CASE UpdateSenseRelay
  <2>1. UNCHANGED <<argument, load, told, prevIsLoadEnabled, slot>>
    BY <1>4 DEF UpdateSenseRelay, Dispatch
  <2>2. /\ step = "dispatch"
        /\ step' = IF isUsingExternalSense THEN "setExternalVSenseTrue"
                   ELSE "setExternalVSenseFalse"
        /\ note' = note \ {"UpdateSenseRelay"}
    BY <1>4 DEF UpdateSenseRelay, Dispatch
  <2>3. BitTaken' /\ ToldInv' /\ ConfigInv'
    BY <2>1, <2>2 DEF BitTaken, ToldInv, ConfigInv, Followed, Fresh, ChangePending,
       NotHalted, Updating
  <2>4. SenseInv'
    BY <2>1, <2>2 DEF SenseInv, NotHalted
  <2> QED
    BY <2>3, <2>4
<1>5. CASE UpdateLoadConfig
  <2>1. UNCHANGED <<load, told, prevIsLoadEnabled, slot>>
    BY <1>5 DEF UpdateLoadConfig, Dispatch
  <2>2. step = "dispatch" /\ note' = note \ {"ConfigChange"}
    BY <1>5 DEF UpdateLoadConfig, Dispatch
  <2>3. \/ isLoadEnabled /\ step' = "setOutputCurrent" /\ argument' = loadCurrentSetpoint
        \/ ~isLoadEnabled /\ step' = "setEnabledFalse"
    BY <1>5 DEF UpdateLoadConfig, Dispatch
  <2>4. BitTaken' /\ ToldInv'
    BY <2>1, <2>2, <2>3 DEF BitTaken, ToldInv
  <2>5. ConfigInv'
    BY <2>1, <2>2, <2>3 DEF ConfigInv, Followed, Updating
  <2>6. SenseInv'
    BY <2>1, <2>2, <2>3 DEF SenseInv, Fresh, ChangePending, NotHalted
  <2> QED
    BY <2>4, <2>5, <2>6
<1>6. CASE DispatchDone
  <2>1. UNCHANGED <<argument, load, told, prevIsLoadEnabled, slot>>
    BY <1>6 DEF DispatchDone
  <2>2. step = "dispatch" /\ step' = "wait" /\ note' = {}
    BY <1>6 DEF DispatchDone
  <2>3. "ConfigChange" \notin note /\ "UpdateSenseRelay" \notin note
    BY <1>6 DEF DispatchDone, Order
  <2> QED
    BY <2>1, <2>2, <2>3 DEF BitTaken, ToldInv, ConfigInv, SenseInv, Followed, Fresh,
                            ChangePending, NotHalted, Updating
<1>7. CASE IrqHandled \/ CurrentRead \/ VoltageRead
  <2>1. UNCHANGED <<note, argument, load, told, prevIsLoadEnabled, slot>>
    BY <1>7 DEF IrqHandled, CurrentRead, VoltageRead, Returned
  <2>2. /\ step \in {"handleIrq", "readInputCurrent", "readInputVoltage"}
        /\ step' \in {"dispatch", "readInputVoltage"}
    BY <1>7 DEF IrqHandled, CurrentRead, VoltageRead, Returned
  <2> QED
    BY <2>1, <2>2 DEF BitTaken, ToldInv, ConfigInv, SenseInv, Followed, Fresh,
                      ChangePending, NotHalted, Updating
<1>8. CASE SenseRelaySet
  <2>1. UNCHANGED <<note, argument, told, prevIsLoadEnabled, slot>>
    BY <1>8 DEF SenseRelaySet
  <2>2. /\ step \in {"setExternalVSenseTrue", "setExternalVSenseFalse"}
        /\ step' = "dispatch"
        /\ load'.external = (step = "setExternalVSenseTrue")
        /\ load'.enabled = load.enabled
        /\ load'.current = load.current
    BY <1>8 DEF SenseRelaySet, ControlTypeOK
  <2>3. BitTaken' /\ ToldInv' /\ ConfigInv'
    BY <2>1, <2>2 DEF BitTaken, ToldInv, ConfigInv, Followed, Fresh, ChangePending,
       NotHalted, Updating
  <2>4. SenseInv'
    BY <2>1, <2>2 DEF SenseInv, Fresh, ChangePending, NotHalted, ControlTypeOK
  <2> QED
    BY <2>3, <2>4
<1>9. CASE CurrentSet \/ LoadEnabled \/ LoadDisabled \/ CurrentSetAfter
  <2>1. UNCHANGED <<note, slot>> /\ load'.external = load.external
    BY <1>9 DEF CurrentSet, LoadEnabled, LoadDisabled, CurrentSetAfter, ControlTypeOK
  <2>2. /\ step \in Updating
        /\ step' \in {"setEnabledTrue", "setOutputCurrentAfter", "dispatch"}
    BY <1>9 DEF CurrentSet, LoadEnabled, LoadDisabled, CurrentSetAfter, Updating
  <2>3. BitTaken'
    BY <2>1, <2>2 DEF BitTaken
  <2>4. ToldInv'
    BY <1>9 DEF CurrentSet, LoadEnabled, LoadDisabled, CurrentSetAfter, Indicate, ToldInv
  <2>5. SenseInv'
    BY <2>1, <2>2 DEF SenseInv, Fresh, ChangePending, NotHalted, Updating
  <2>6. ConfigInv'
    <3> SUFFICES ASSUME ~Fresh("ConfigChange")' PROVE Followed'
      BY DEF ConfigInv
    <3>1. Followed
      BY <2>1, <2>2 DEF ConfigInv, Fresh, ChangePending, NotHalted, Updating
    <3>2. CASE CurrentSet
      BY <3>1, <3>2 DEF CurrentSet, Followed, Updating, ControlTypeOK
    <3>3. CASE LoadEnabled
      BY <3>1, <3>3, <2>4 DEF LoadEnabled, Followed, Updating, Indicate, ToldInv,
         ControlTypeOK
    <3>4. CASE LoadDisabled
      BY <3>1, <3>4 DEF LoadDisabled, Followed, Updating, ControlTypeOK
    <3>5. CASE CurrentSetAfter
      BY <3>1, <3>5, <2>4 DEF CurrentSetAfter, Followed, Updating, Indicate, ToldInv,
         ControlTypeOK
    <3> QED
      BY <1>9, <3>2, <3>3, <3>4, <3>5
  <2> QED
    BY <2>3, <2>4, <2>5, <2>6
<1> QED
  BY <1>1, <1>2, <1>3, <1>4, <1>5, <1>6, <1>7, <1>8, <1>9 DEF LoopStep

LEMMA SafeStep == ControlSafe /\ [ControlNext]_controlVars => ControlSafe'
<1> SUFFICES ASSUME ControlSafe, [ControlNext]_controlVars PROVE ControlSafe'
  OBVIOUS
<1>1. ControlTypeOK'
  BY TypeStep DEF ControlSafe
<1>2. CASE DriverFails
  BY <1>1, <1>2 DEF DriverFails, ControlSafe, BitTaken, ToldInv, ConfigInv, SenseInv,
     NotHalted, Updating
<1>3. CASE UNCHANGED controlVars
  BY <1>1, <1>3 DEF controlVars, userVars, configVars, ControlSafe, BitTaken, ToldInv,
     ConfigInv, SenseInv, Followed, Fresh, ChangePending, NotHalted, Updating
<1> QED
  BY <1>1, <1>2, <1>3, OthersKeepSafe, LoopKeepsSafe DEF ControlNext

\* The loop is never behind the configuration by more than what it is doing and
\* what it has been notified of (Task::main and updateConfig against the setters).
THEOREM LoopFollows == ControlSpec => []ControlSafe
  BY SafeInit, SafeStep, PTL DEF ControlSpec

\* Whenever the control task sleeps and no change is pending, the load does what
\* the configuration says (updateConfig, and the relay in Task::main).
THEOREM ChangesApplied == ControlSpec => []ConfigApplied
<1>1. ControlSafe => ConfigApplied
  BY DEF ControlSafe, ControlTypeOK, ConfigInv, SenseInv, Followed, ConfigApplied, Fresh,
     NotHalted, Updating
<1> QED
  BY <1>1, LoopFollows, PTL

\* Whenever the control task sleeps and no change is pending, Pinball has been told
\* the state of the load (the end of updateConfig).
THEOREM IndicatorTold == ControlSpec => []IndicatorFollows
<1>1. ControlSafe => IndicatorFollows
  BY DEF ControlSafe, ControlTypeOK, ConfigInv, Followed, IndicatorFollows, Fresh,
     NotHalted, Updating
<1> QED
  BY <1>1, LoopFollows, PTL

\* The load is enabled at the set point only (updateConfig sets the current before it
\* enables), except while the set point is being changed.
THEOREM EnabledAtItsSetpoint == ControlSpec => EnabledAtSetpoint
<1>1. ControlSafe /\ [ControlNext]_controlVars =>
        [~load.enabled /\ load'.enabled =>
           load.current = loadCurrentSetpoint \/ ChangePending("ConfigChange")]_controlVars
  <2> SUFFICES ASSUME ControlSafe, ControlNext, ~load.enabled, load'.enabled
               PROVE  load.current = loadCurrentSetpoint \/ ChangePending("ConfigChange")
    OBVIOUS
  <2>1. LoadEnabled
    BY DEF ControlSafe, ControlTypeOK, ControlNext, UserStep, SetCurrentSetpoint,
       SetIsLoadActive, SetExternalSenseActive, NotifyTask, Event, LoopStep,
       DriverFails, IdentifyDriver, WaitForEvent, HandleDriverIrq, UpdateLoadConfig,
       ReadSensors, UpdateSenseRelay, DispatchDone, Dispatch, IrqHandled, CurrentRead,
       VoltageRead, Returned, SenseRelaySet, CurrentSet, LoadDisabled, CurrentSetAfter
  <2>2. step = "setEnabledTrue"
    BY <2>1 DEF LoadEnabled
  <2> QED
    BY <2>2 DEF ControlSafe, BitTaken, ConfigInv, Followed, Fresh, NotHalted, Updating
<1> QED
  BY <1>1, LoopFollows, PTL DEF ControlSpec, EnabledAtSetpoint

=============================================================================
