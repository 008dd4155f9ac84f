----------------------------- MODULE FanController -----------------------------
(***************************************************************************)
(* The driver of the fan controller EMC2101.  It remembers whether the fan *)
(* follows the temperature table (useFanTable); the table may only be      *)
(* written, and the speed only be set, while it does not.                  *)
(*                                                                         *)
(* Each register access is a transaction on the bus and may fail, which    *)
(* leaves the register alone.  The chip is external: it ignores writes to  *)
(* the table in automatic mode, and reading the first byte of a reading of *)
(* two bytes (the low one of the tachometer, the high one of the           *)
(* temperature) holds the other.                                           *)
(***************************************************************************)
EXTENDS Integers, Sequences

CONSTANTS
  Maps,         \* the maps that setFanMap is given
  Readings,     \* values of the tachometer: 65535 if the fan does not turn
  MaxFanCalls   \* bound on the calls

VARIABLES
  fanPc,         \* where the call is
  useFanTable, invertPwm,
  minRpm,        \* the configured minimum speed
  fan,           \* the chip
  fanMap, entry,    \* the map being uploaded, and the number of registers written
  low,           \* the byte of a reading that has been read
  seen,          \* values the tachometer had since then
  rpm,           \* the last result of getFanSpeed
  fanErr,        \* what the last call returned
  fanCalls

fanVars == <<fanPc, useFanTable, invertPwm, minRpm, fan, fanMap, entry, low, seen, rpm, fanErr,
             fanCalls>>
UploadVars == <<fanMap, entry>>
ReadingVars == <<low, seen, rpm>>

-----------------------------------------------------------------------------
(* Types *)

FanMapEntry == [temp : -128..127, speed : 0..255]
TableSize == 8
\* The registers of the table: the temperature and the speed of each entry in turn.
TableRegisters == 0..2 * TableSize - 1
Unset == [k \in TableRegisters |-> IF k % 2 = 0 THEN 127 ELSE 63]
NotTurning == 65535
CountsPerMinute == 5400000   \* what the tachometer would count at one turn in a minute

Octets == 0..255
Words == {n \in Nat : n < 65536}
DutySteps == 0..63
ChipConfigs == [manual : BOOLEAN, inverted : BOOLEAN]
ChipTables == [TableRegisters -> 0..127]
Chip ==
  [config : ChipConfigs, table : ChipTables, speed : DutySteps, limit : Words, tach : Words,
   held : Octets]

Counts == {n \in Nat : 0 < n /\ n < 65536}

\* Maps have no more entries than the chip, and the fan's tachometer never counts 0.
FanConstants ==
  /\ \A m \in Maps : m \in Seq(FanMapEntry) /\ Len(m) <= TableSize
  /\ Readings \subseteq Counts
  /\ MaxFanCalls \in Nat

FanTypeOK ==
  /\ fanPc \in {"absent", "configuring", "idle", "uploading", "reading", "panic"}
  /\ useFanTable \in BOOLEAN /\ invertPwm \in BOOLEAN /\ minRpm \in Nat
  /\ fan \in Chip
  /\ entry \in 0..2 * TableSize /\ low \in Octets /\ rpm \in Nat \cup {-1}
  /\ seen \in Seq(Words)
  /\ fanErr \in {"ok", "InvalidMode", "InvalidMap", "bus"}
  /\ fanCalls \in 0..MaxFanCalls

-----------------------------------------------------------------------------
(* Construction *)

\* applyConfig begins: the settings go to the driver first.
ConstructFan(inverted, minimum) ==
  /\ fanPc = "absent"
  /\ fanPc' = "configuring"
  /\ invertPwm' = inverted /\ minRpm' = minimum
  /\ UNCHANGED <<useFanTable, fan, UploadVars, ReadingVars, fanErr, fanCalls>>

\* The register with the fan's mode and the polarity of its output.
FanConfig(manual) == [manual |-> manual, inverted |-> invertPwm]

\* Its writes: Control, FanConfig (manual mode, table unlocked), six fixed ones, and
\* the two bytes of the tachometer's limit.
Configured(n) ==
  IF n = 1 THEN [fan EXCEPT !.config = FanConfig(TRUE)]
  ELSE IF n = 8 THEN [fan EXCEPT !.limit = (CountsPerMinute \div minRpm) % 256]
  ELSE IF n = 9 THEN
    [fan EXCEPT !.limit = fan.limit + 256 * (((CountsPerMinute \div minRpm) \div 256) % 256)]
  ELSE fan
ConfigureLength == IF minRpm = 0 THEN 8 ELSE 10

\* A failure is a failed REQUIRE.
Configure ==
  /\ fanPc = "configuring"
  /\ \/ /\ entry' = entry + 1
        /\ fan' = Configured(entry)
        /\ fanPc' = IF entry' = ConfigureLength THEN "idle" ELSE "configuring"
     \/ fanPc' = "panic" /\ UNCHANGED <<fan, entry>>
  /\ UNCHANGED <<useFanTable, invertPwm, minRpm, fanMap, ReadingVars, fanErr, fanCalls>>

-----------------------------------------------------------------------------
(* setFanMap, setFanMode, setFanSpeed *)

FanCall == fanPc = "idle" /\ fanCalls < MaxFanCalls /\ fanCalls' = fanCalls + 1
FanReturn(code) == fanPc' = "idle" /\ fanErr' = code

Refusal(m) ==
  IF useFanTable THEN "InvalidMode"
  ELSE IF Len(m) < 2 \/ \E i \in 2..Len(m) : m[i - 1].temp > m[i].temp THEN "InvalidMap"
  ELSE "ok"

SetFanMap(m) ==
  /\ FanCall
  /\ fanMap' = m /\ entry' = 0
  /\ IF Refusal(m) # "ok" THEN FanReturn(Refusal(m))
     ELSE fanPc' = "uploading" /\ UNCHANGED fanErr
  /\ UNCHANGED <<useFanTable, invertPwm, minRpm, fan, ReadingVars>>

\* What the k-th write puts there: temp & 0x7f or speed & 0x3f.
Byte(k) ==
  LET given == fanMap[(k \div 2) + 1] IN IF k % 2 = 0 THEN given.temp % 128 ELSE given.speed % 64

\* The temperature, then the speed of each entry.
UploadNext ==
  /\ fanPc = "uploading"
  /\ IF entry = 2 * Len(fanMap) THEN FanReturn("ok") /\ UNCHANGED <<fan, entry>>
     ELSE \/ /\ fan' = IF fan.config.manual
                       THEN [fan EXCEPT !.table = [fan.table EXCEPT ![entry] = Byte(entry)]]
                       ELSE fan
             /\ entry' = entry + 1
             /\ UNCHANGED <<fanPc, fanErr>>
          \/ FanReturn("bus") /\ UNCHANGED <<fan, entry>>
  /\ UNCHANGED <<useFanTable, invertPwm, minRpm, fanMap, ReadingVars, fanCalls>>

\* A faulty variant of SetFanMode: the driver's note is made before the write.
SetFanModeEagerly(automatic) ==
  /\ FanCall
  /\ useFanTable' = automatic
  /\ \/ /\ fan' = [fan EXCEPT !.config = FanConfig(~automatic)]
        /\ FanReturn("ok")
     \/ FanReturn("bus") /\ UNCHANGED fan
  /\ UNCHANGED <<invertPwm, minRpm, UploadVars, ReadingVars>>

SetFanMode(automatic) ==
  /\ FanCall
  /\ \/ /\ fan' = [fan EXCEPT !.config = FanConfig(~automatic)]
        /\ useFanTable' = automatic
        /\ FanReturn("ok")
     \/ FanReturn("bus") /\ UNCHANGED <<fan, useFanTable>>
  /\ UNCHANGED <<invertPwm, minRpm, UploadVars, ReadingVars>>

SetFanSpeed(speed) ==
  /\ FanCall
  /\ IF useFanTable THEN FanReturn("InvalidMode") /\ UNCHANGED fan
     ELSE \/ fan' = [fan EXCEPT !.speed = speed \div 4] /\ FanReturn("ok")
          \/ FanReturn("bus") /\ UNCHANGED fan
  /\ UNCHANGED <<useFanTable, invertPwm, minRpm, UploadVars, ReadingVars>>

-----------------------------------------------------------------------------
(* getFanSpeed: two reads, between which the fan may change its speed *)

GetFanSpeed ==
  /\ FanCall
  /\ \/ /\ low' = fan.tach % 256
        /\ fan' = [fan EXCEPT !.held = fan.tach \div 256]
        /\ seen' = <<fan.tach>>
        /\ fanPc' = "reading" /\ UNCHANGED fanErr
     \/ FanReturn("bus") /\ UNCHANGED <<low, fan, seen>>
  /\ UNCHANGED <<useFanTable, invertPwm, minRpm, UploadVars, rpm>>

Speed(count) == IF count = NotTurning THEN -1 ELSE CountsPerMinute \div count

\* A faulty variant of FinishReading: the bytes are put together in the wrong order.
FinishSwapped ==
  /\ fanPc = "reading"
  /\ rpm' = Speed(256 * low + fan.held) /\ FanReturn("ok")
  /\ UNCHANGED <<useFanTable, invertPwm, minRpm, fan, UploadVars, low, seen, fanCalls>>

FinishReading ==
  /\ fanPc = "reading"
  /\ \/ rpm' = Speed(256 * fan.held + low) /\ FanReturn("ok")
     \/ FanReturn("bus") /\ UNCHANGED rpm
  /\ UNCHANGED <<useFanTable, invertPwm, minRpm, fan, UploadVars, low, seen, fanCalls>>

FanTurns(count) ==
  /\ fanPc = "reading" /\ Len(seen) < 2
  /\ fan' = [fan EXCEPT !.tach = count]
  /\ seen' = Append(seen, count)
  /\ UNCHANGED <<fanPc, useFanTable, invertPwm, minRpm, UploadVars, low, rpm, fanErr, fanCalls>>

-----------------------------------------------------------------------------
(* Specification *)

FanInit ==
  /\ fanPc = "absent"
  /\ useFanTable = FALSE /\ invertPwm = FALSE /\ minRpm = 0
  /\ fan = [config |-> FanConfig(TRUE), table |-> Unset,
            speed |-> 0, limit |-> 65535, tach |-> NotTurning, held |-> 0]
  /\ fanMap = <<>> /\ entry = 0
  /\ low = 0 /\ seen = <<>> /\ rpm = 0
  /\ fanErr = "ok" /\ fanCalls = 0

FanNext ==
  \/ \E inverted \in BOOLEAN, minimum \in {0, 1000} : ConstructFan(inverted, minimum)
  \/ Configure
  \/ \E m \in Maps : SetFanMap(m)
  \/ UploadNext
  \/ \E automatic \in BOOLEAN : SetFanMode(automatic)
  \/ \E speed \in {0, 255} : SetFanSpeed(speed)
  \/ GetFanSpeed
  \/ \E count \in Readings : FanTurns(count)
  \/ FinishReading

FanSpec == FanInit /\ [][FanNext]_fanVars

-----------------------------------------------------------------------------
(* Properties *)

\* The driver refuses a map or a speed in automatic mode because the chip would drop
\* it.  Its own idea of the mode follows the chip's through calls that fail, so a map
\* that is accepted ends up in the chip: each register of the table that setFanMap has
\* written holds what it wrote.
UploadTakesEffect ==
  /\ fanPc \in {"idle", "uploading", "reading"} => fan.config = FanConfig(~useFanTable)
  /\ fanPc = "uploading" =>
       \A k \in 0..entry - 1 : fan.table[k] = Byte(k)

\* getFanSpeed returns a speed the fan had at one moment of the call, although it takes
\* two reads to get it.
SpeedWasReal ==
  [][rpm' # rpm => \E i \in 1..Len(seen) : rpm' = Speed(seen[i])]_fanVars

=============================================================================
