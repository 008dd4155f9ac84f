---------------------------- MODULE AdcConverter ----------------------------
(***************************************************************************)
(* The driver of the analog-to-digital converter MCP3421.  It remembers    *)
(* the settings it writes to the chip: the sample depth decides how many   *)
(* bytes a conversion has, and with the gain what a code is worth.  Every  *)
(* write or read is one transaction, and may fail.                         *)
(***************************************************************************)
EXTENDS Integers

CONSTANTS
  Inputs,       \* voltages at the chip's input, in microvolts
  MaxSettings   \* bound on the calls that change settings

VARIABLES
  gain, depth,    \* the driver's settings: exponent of the gain, SampleDepth
  isOneShot,
  adc,            \* the chip's configuration register
  reading,        \* the voltage that was read last, and the input it was read at
  settingsErr,    \* what the last call that writes settings returned
  settings        \* number of these calls

adcVars == <<gain, depth, isOneShot, adc, reading, settingsErr, settings>>

-----------------------------------------------------------------------------
(* Types *)

SampleDepth == 0..3     \* 12, 14, 16 and 18 bits
Gain == 0..3            \* factors 1, 2, 4 and 8

GainToFactor(g) == <<1, 2, 4, 8>>[g + 1]

\* Steps of the converter in a millivolt (DepthToLsb is a millivolt at the lowest
\* depth and a quarter of that at each higher one), and times the gain.
LsbPerMillivolt(d) == <<1, 4, 16, 64>>[d + 1]
Weight(d, g) == LsbPerMillivolt(d) * GainToFactor(g)

AdcConstants == Inputs \subseteq Int /\ MaxSettings \in Nat

AdcTypeOK ==
  /\ gain \in Gain /\ depth \in SampleDepth /\ isOneShot \in BOOLEAN
  /\ adc \in [gain : Gain, depth : SampleDepth, oneShot : BOOLEAN]
  /\ reading \in [voltage : Int, input : Int]
  /\ settingsErr \in {"absent", "ok", "bus", "panic", "destroyed"}
  /\ settings \in 0..MaxSettings

NoReading == [voltage |-> 0, input |-> 0]

-----------------------------------------------------------------------------
(* The chip: the code of an input voltage, saturated, in two's complement and  *)
(* sign-extended to whole bytes.                                               *)

Truncated(n, d) == IF n >= 0 THEN n \div d ELSE -((-n) \div d)
Saturated(n, limit) == IF n >= limit THEN limit - 1 ELSE IF n < -limit THEN -limit ELSE n

ChipCode(microvolts) ==
  LET millivolts == Truncated(microvolts, 1000)
      rest == microvolts - 1000 * millivolts
      weight == Weight(adc.depth, adc.gain)
  IN  Saturated(millivolts * weight + Truncated(rest * weight, 1000),
                2048 * LsbPerMillivolt(adc.depth))

\* The last n of its three bytes.
ChipBytes(code, n) == [k \in 0..n - 1 |-> (code \div <<65536, 256, 1>>[4 - n + k]) % 256]

-----------------------------------------------------------------------------
(* The driver *)

\* updateConfig writes all settings; they have been changed in the driver already.
UpdateConfig(failed) ==
  \/ /\ adc' = [gain |-> gain', depth |-> depth', oneShot |-> isOneShot']
     /\ settingsErr' = "ok"
  \/ /\ settingsErr' = failed
     /\ UNCHANGED adc

\* The constructor: a failure is a failed REQUIRE.
ConstructAdc(d, g) ==
  /\ settingsErr = "absent"
  /\ depth' = d /\ gain' = g /\ UNCHANGED isOneShot
  /\ UpdateConfig("panic")
  /\ UNCHANGED <<reading, settings>>

\* The destructor puts the chip into one-shot mode.
Destroy ==
  /\ settingsErr \in {"ok", "bus"}
  /\ isOneShot' = TRUE
  /\ \/ adc' = [gain |-> gain, depth |-> depth, oneShot |-> TRUE] /\ settingsErr' = "destroyed"
     \/ settingsErr' = "panic" /\ UNCHANGED adc
  /\ UNCHANGED <<gain, depth, reading, settings>>

ChangeSetting ==
  /\ settingsErr \in {"ok", "bus"}
  /\ settings < MaxSettings
  /\ settings' = settings + 1
  /\ reading' = NoReading

\* A faulty variant of SetGain: the chip is not told.
SetGainLater(g) ==
  /\ ChangeSetting
  /\ gain' = g
  /\ settingsErr' = "ok"
  /\ UNCHANGED <<depth, isOneShot, adc>>

SetGain(g) ==
  /\ ChangeSetting
  /\ gain' = g /\ UNCHANGED <<depth, isOneShot>>
  /\ UpdateConfig("bus")

SetSampleDepth(d) ==
  /\ ChangeSetting
  /\ depth' = d /\ UNCHANGED <<gain, isOneShot>>
  /\ UpdateConfig("bus")

\* read: three bytes at the highest depth, where the sign is bit 1 of the first, and
\* two otherwise; sign-extended to 32 bits.
SignExtended(b) ==
  IF depth = 3
  THEN 65536 * b[0] + 256 * b[1] + b[2] - (IF (b[0] \div 2) % 2 = 1 THEN 16777216 ELSE 0)
  ELSE 256 * b[0] + b[1] - (IF b[0] \div 128 = 1 THEN 65536 ELSE 0)

\* CodeToVoltage: code * (lsb / pga).  The products are exact in a float, and the
\* conversion to int truncates.
CodeToVoltage(code) ==
  IF Weight(depth, gain) < 8 THEN code * (1000 \div Weight(depth, gain))
  ELSE Truncated(code * 125, Weight(depth, gain) \div 8)

\* readVoltage; a failed read leaves the result alone.  A chip that is asked for
\* more bytes than its conversions have is not modelled.
ReadVoltage(microvolts) ==
  /\ settingsErr \in {"ok", "bus"}
  /\ depth = 3 => adc.depth = 3
  /\ LET bytes == ChipBytes(ChipCode(microvolts), IF depth = 3 THEN 3 ELSE 2) IN
     reading' = [voltage |-> CodeToVoltage(SignExtended(bytes)), input |-> microvolts]
  /\ UNCHANGED <<gain, depth, isOneShot, adc, settingsErr, settings>>

-----------------------------------------------------------------------------
(* Specification *)

AdcInit ==
  /\ gain = 0 /\ depth = 0 /\ isOneShot = FALSE
  /\ adc = [gain |-> 0, depth |-> 0, oneShot |-> FALSE]
  /\ reading = NoReading
  /\ settingsErr = "absent" /\ settings = 0

AdcNext ==
  \/ \E d \in SampleDepth, g \in Gain : ConstructAdc(d, g)
  \/ Destroy
  \/ \E g \in Gain : SetGain(g)
  \/ \E d \in SampleDepth : SetSampleDepth(d)
  \/ \E v \in Inputs : ReadVoltage(v)

AdcSpec == AdcInit /\ [][AdcNext]_adcVars

-----------------------------------------------------------------------------
(* Properties *)

Measurable(v) == -2048000 <= v * GainToFactor(gain) /\ v * GainToFactor(gain) < 2047000

\* "ADC input voltage, in uV" (CodeToVoltage): after a setting has been written, and
\* whatever failed before, a voltage that is read is the one at the input, within one
\* step of the converter.
VoltageAtInput ==
  settingsErr = "ok" /\ Measurable(reading.input) =>
    LET step == 1000 \div Weight(depth, gain) + 1 IN
    reading.input - step <= reading.voltage /\ reading.voltage <= reading.input + step

=============================================================================
