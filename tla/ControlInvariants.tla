------------------------- MODULE ControlInvariants --------------------------
(***************************************************************************)
(* Why the control loop applies every change: the inductive invariant      *)
(* behind ConfigApplied, IndicatorFollows and EnabledAtSetpoint.  A change *)
(* of the configuration is fresh from the write until the control task     *)
(* looks at its bit; without a fresh change, the loop is as far with the   *)
(* current configuration as its place in updateConfig says.                *)
(***************************************************************************)
EXTENDS ControlLoop

\* A change that the control task has not started to apply.
Fresh(bit) == ChangePending(bit) \/ bit \in note

\* The places in updateConfig.
Updating == {"setOutputCurrent", "setEnabledTrue", "setEnabledFalse", "setOutputCurrentAfter"}

\* The bit was taken out of note when its handling began.
BitTaken == step \in Updating => "ConfigChange" \notin note

\* What the board does when no change is fresh.
Followed ==
  /\ step \notin Updating => /\ load.enabled = isLoadEnabled
                             /\ load.current = loadCurrentSetpoint
                             /\ told = isLoadEnabled
  /\ step = "setOutputCurrent" => isLoadEnabled /\ argument = loadCurrentSetpoint
  /\ step = "setEnabledTrue" => isLoadEnabled /\ load.current = loadCurrentSetpoint
  /\ step = "setEnabledFalse" => ~isLoadEnabled
  /\ step = "setOutputCurrentAfter" =>
       ~isLoadEnabled /\ ~load.enabled /\ argument = loadCurrentSetpoint

ConfigInv == NotHalted /\ ~Fresh("ConfigChange") => Followed

SenseInv ==
  NotHalted /\ ~Fresh("UpdateSenseRelay") =>
    /\ step = "setExternalVSenseTrue" => isUsingExternalSense
    /\ step = "setExternalVSenseFalse" => ~isUsingExternalSense
    /\ step \notin {"setExternalVSenseTrue", "setExternalVSenseFalse"} =>
         load.external = isUsingExternalSense

\* Pinball was told of each state that was noted.
ToldInv == told = prevIsLoadEnabled

\* The inductive invariant: the loop is never behind the configuration by more
\* than what it is just doing and what it has been notified of.
ControlSafe == ControlTypeOK /\ BitTaken /\ ToldInv /\ ConfigInv /\ SenseInv

=============================================================================
