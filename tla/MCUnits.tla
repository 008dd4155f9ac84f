------------------------------- MODULE MCUnits -------------------------------
(***************************************************************************)
(* One instance of each unit of the firmware and of the host's library     *)
(* whose module does not interact with the others': the tasks that serve   *)
(* notifications, drivers of chips and ports, the logger, decoders and     *)
(* coders.  A behaviour is one of a single unit, so that their states add  *)
(* up.                                                                     *)
(***************************************************************************)
EXTENDS PumpInvariants, ShutdownInvariants, ControlInvariants, SpiDma, ConfdDecode, IoExpander,
  AdcConverter, Eeprom, FanController, Frequencies, TraceLog, UsbHost, InventoryRom

CONSTANTS sup, t1, t2

VARIABLES
  unit,      \* the unit that takes steps
  input, size, coded, decoded     \* those of Base32

codeVars == <<input, size, coded, decoded>>

-----------------------------------------------------------------------------
(* The instances *)

\* One task that asks the host, two with shutdown handlers, two that change the load.
OneClient == {t1}
TwoTasks == {t1, t2}

\* SPI: transactions without data, below, at and above the DMA threshold, with and
\* without a rest that fills no word, and too long for DMA.
Txn(tx, rx, n) == [tx |-> tx, rx |-> rx, length |-> n]
SpiRequests ==
  {<<>>, <<Txn(TRUE, FALSE, 0)>>, <<Txn(FALSE, FALSE, 3)>>,
   <<Txn(TRUE, FALSE, 2), Txn(TRUE, TRUE, 7)>>,
   <<Txn(TRUE, FALSE, 12), Txn(TRUE, FALSE, 10)>>, <<Txn(TRUE, FALSE, 1), Txn(TRUE, FALSE, 17)>>,
   <<Txn(TRUE, FALSE, 8), Txn(FALSE, TRUE, 4), Txn(FALSE, FALSE, 1)>>}
SpiConfigurations == [useDma : BOOLEAN, rxEnable : BOOLEAN]

\* Replies of confd: every name and type that the decoder tells apart.
SomeNames == AllNames \ {"other"}
SomeValues == AllValues \ {"float", "bytes"}

\* An output that is driven, one that is not, and an input with an interrupt.
PinKinds ==
  LET Pin(isInput, isDriven) ==
        [input |-> isInput, pullUp |-> FALSE, invertInput |-> FALSE, irq |-> isInput,
         irqRising |-> isInput, irqFalling |-> FALSE, irqFilter |-> isInput,
         initialOutput |-> isDriven, tristated |-> ~isDriven]
  IN  {Pin(FALSE, TRUE), Pin(FALSE, FALSE), Pin(TRUE, FALSE)}

\* Within, at and beyond the range of each gain.
AdcInputs == {0, 7, -7, 1000, -1000, 255000, -250001, 2046000, -2047999, 1023999, -1500000}

\* Maps that are too short, not sorted, and full.
FanMap(t, s) == [temp |-> t, speed |-> s]
FanMaps ==
  {<<FanMap(20, 5)>>, <<FanMap(20, 5), FanMap(40, 255)>>, <<FanMap(50, 5), FanMap(40, 63)>>,
   [i \in 1..8 |-> FanMap(10 * i, 7 * i)]}
TachometerCounts == {65535, 1024, 260}

\* Frequencies with exact, rounded and no divisors.
FrequenciesAsked == {45, 46, 91, 183, 1000, 22050, 46875, 46876, 750001, 1900000}
DutyCycles == {-10, 0, 50, 130}

\* The trace buffer has room for two messages of their lengths.
LoggingTasks == <<"AppLow", "AppHigh", "Supervisory">>

\* Another device, and two loads with the same serial number.
UsbDevices ==
  <<[ours |-> FALSE, serial |-> "A"], [ours |-> TRUE, serial |-> "B"],
    [ours |-> TRUE, serial |-> "A"], [ours |-> TRUE, serial |-> "A"]>>

\* Atoms longer, as long and shorter than the buffer for them, and a ROM without an end.
Atom(t, n) == [type |-> t, length |-> n]
AtomLists ==
  {<<Atom("End", 0)>>,
   <<Atom("HwRevision", 2), Atom("DriverId", 16), Atom("Name", 3), Atom("End", 0)>>,
   <<Atom("Name", 0), Atom("HwRevision", 0), Atom("DriverId", 20), Atom("HwRevision", 1),
     Atom("End", 0)>>,
   <<Atom("Name", 1)>>,
   <<Atom("HwRevision", 9), Atom("DriverId", 16), Atom("End", 0)>>}
InventoryRoms ==
  [valid : BOOLEAN, firstAtom : {4, 8, 12}, atoms : AtomLists]
\* As identifyDriver asks for them.
AtomBuffers == [t \in {"End", "HwRevision", "Name", "DriverId"} |->
                  IF t = "DriverId" THEN 16 ELSE IF t = "HwRevision" THEN 2 ELSE 0]

\* Up to 5 bytes: a whole group of 8 digits.
Coder == INSTANCE Base32 WITH Octets <- {0, 1, 128, 255}, MaxLength <- 5, OutputSizes <- {3, 8, 28}

\* What the theorems of UnitProofs assume of the constants.
ASSUME UnitConstants ==
  /\ SpiConstants /\ ExpanderConstants /\ AdcConstants /\ RomConstants /\ FanConstants
  /\ FrequencyConstants /\ LogConstants /\ UsbConstants /\ InventoryConstants

-----------------------------------------------------------------------------
(* All of them *)

UnitNames ==
  {"pump", "shutdown", "control", "spi", "decode", "expander", "adc", "eeprom", "fan", "clocks",
   "trace", "usb", "inventory", "base32"}

\* Units with several initial states are in one of them while others run.
UnitsInit ==
  /\ unit \in UnitNames
  /\ PumpInit /\ ShutdownInit /\ ControlInit
  /\ SpiInit
  /\ Init /\ (unit # "decode" => type = "Query" /\ isMap /\ payload = <<>>)
  /\ ExpanderInit /\ AdcInit /\ RomInit /\ FanInit
  /\ FrequencyInit /\ LogInit /\ UsbInit /\ Coder!CodeInit
  /\ ParseInit
  /\ unit # "inventory" => rom = [valid |-> TRUE, firstAtom |-> 8, atoms |-> <<Atom("End", 0)>>]

Only(u) ==
  /\ unit = u /\ UNCHANGED unit
  /\ u # "pump" => UNCHANGED pumpVars
  /\ u # "shutdown" => UNCHANGED shutdownAllVars
  /\ u # "control" => UNCHANGED controlVars
  /\ u # "spi" => UNCHANGED spiVars
  /\ u # "decode" => UNCHANGED vars
  /\ u # "expander" => UNCHANGED expanderVars
  /\ u # "adc" => UNCHANGED adcVars
  /\ u # "eeprom" => UNCHANGED romVars
  /\ u # "fan" => UNCHANGED fanVars
  /\ u # "clocks" => UNCHANGED frequencyVars
  /\ u # "trace" => UNCHANGED logVars
  /\ u # "usb" => UNCHANGED usbVars
  /\ u # "inventory" => UNCHANGED parseVars
  /\ u # "base32" => UNCHANGED codeVars

UnitsNext ==
  \/ Only("pump") /\ PumpNext
  \/ Only("shutdown") /\ ShutdownNext
  \/ Only("control") /\ ControlNext
  \/ Only("spi") /\ SpiNext
  \/ Only("decode") /\ Next
  \/ Only("expander") /\ ExpanderNext
  \/ Only("adc") /\ AdcNext
  \/ Only("eeprom") /\ RomNext
  \/ Only("fan") /\ FanNext
  \/ Only("clocks") /\ FrequencyNext
  \/ Only("trace") /\ LogNext
  \/ Only("usb") /\ UsbNext
  \/ Only("inventory") /\ ParseNext
  \/ Only("base32") /\ Coder!CodeNext

unitsVars ==
  <<unit, pumpVars, shutdownAllVars, controlVars, spiVars, vars, expanderVars, adcVars,
    romVars, fanVars, frequencyVars, logVars, usbVars, parseVars, codeVars>>

\* Each module's own fairness, for the behaviours of its unit.
UnitsFairness ==
  \/ unit = "pump" /\ PumpFairness
  \/ unit = "shutdown" /\ ShutdownFairness
  \/ unit = "control" /\ ControlFairness
  \/ unit = "spi" /\ SpiFairness
  \/ unit \notin {"pump", "shutdown", "control", "spi"}

UnitsBehaviours == UnitsInit /\ [][UnitsNext]_unitsVars

UnitsSpec == UnitsBehaviours /\ UnitsFairness

-----------------------------------------------------------------------------
(* Properties *)

UnitsTypeOK ==
  /\ PumpTypeOK /\ ShutdownTypeOK /\ ControlTypeOK /\ SpiTypeOK /\ TypeOK
  /\ ExpanderTypeOK /\ AdcTypeOK /\ RomTypeOK /\ FanTypeOK
  /\ FrequencyTypeOK /\ LogTypeOK /\ UsbTypeOK /\ ParseTypeOK /\ Coder!CodeTypeOK

\* The state of every unit is well typed, and the port puts the bytes of its transactions
\* on the wire, in order (SpiDma).
PortSendsAsAsked == UnitsTypeOK /\ SentAsAsked

\* A text in base32 can be read back (Base32).
RoundTrip == Coder!RoundTrip

=============================================================================
