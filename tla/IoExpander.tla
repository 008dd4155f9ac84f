----------------------------- MODULE IoExpander -----------------------------
(***************************************************************************)
(* The drivers of the I/O expanders XRA1203 (two banks of lines) and       *)
(* PI4IOE5V9536 (one bank).  Both keep shadows of the chip's output        *)
(* registers, so that one line can be changed without reading the others   *)
(* back.  A register is the set of the lines whose bit is set; the two     *)
(* chips' registers go by the names of the XRA1203.  Each write of a       *)
(* register is one transaction on the bus, and may fail.                   *)
(***************************************************************************)
EXTENDS Naturals, Sequences

CONSTANTS
  Bank,          \* lines in one bank (8 in XRA1203, all 4 in PI4IOE5V9536)
  PinConfigs,    \* the pin configurations that occur
  MaxChanges     \* bound on the calls after construction

VARIABLES
  expander,      \* which driver, or "none" before it is constructed
  pins,          \* the configuration it was constructed with
  register,      \* the chip: register name -> set of lines
  output, tristate,   \* the driver's shadow registers
  written,       \* number of registers the constructor has written
  expanderErr,   \* what the last call returned
  changes        \* number of calls

expanderVars == <<expander, pins, register, output, tristate, written, expanderErr, changes>>

-----------------------------------------------------------------------------
(* Types *)

PinConfig ==
  [input : BOOLEAN, pullUp : BOOLEAN, invertInput : BOOLEAN, irq : BOOLEAN,
   irqRising : BOOLEAN, irqFalling : BOOLEAN, irqFilter : BOOLEAN,
   initialOutput : BOOLEAN, tristated : BOOLEAN]

\* kPinConfigUnused.
Unused ==
  [input |-> TRUE, pullUp |-> FALSE, invertInput |-> FALSE, irq |-> FALSE,
   irqRising |-> FALSE, irqFalling |-> FALSE, irqFilter |-> FALSE,
   initialOutput |-> FALSE, tristated |-> TRUE]

Drivers == {"XRA1203", "PI4IOE5V9536"}
Lines == IF expander = "XRA1203" THEN 0..2 * Bank - 1 ELSE 0..Bank - 1
AllLines == 0..2 * Bank - 1
Registers == {"OCR", "PIR", "PUR", "GCR", "TSCR", "REIR", "FEIR", "IFR", "IER"}

ExpanderConstants == Bank \in Nat \ {0} /\ PinConfigs \subseteq PinConfig /\ MaxChanges \in Nat

ExpanderTypeOK ==
  /\ expander \in Drivers \cup {"none"}
  /\ pins \in [AllLines -> PinConfig]
  /\ register \in [Registers -> SUBSET AllLines]
  /\ output \subseteq AllLines /\ tristate \subseteq AllLines
  /\ written \in 0..9
  /\ expanderErr \in {"ok", "InvalidPin", "bus", "panic"}
  /\ changes \in 0..MaxChanges

-----------------------------------------------------------------------------
(* The constructors *)

\* A faulty variant of WriteOrder: the lines become outputs first.
DirectionFirst ==
  IF expander = "XRA1203"
  THEN <<"GCR", "PIR", "PUR", "OCR", "TSCR", "REIR", "FEIR", "IFR", "IER">>
  ELSE <<"GCR", "PIR", "OCR">>

\* The registers a constructor writes, in its order.
WriteOrder ==
  IF expander = "XRA1203"
  THEN <<"OCR", "PIR", "PUR", "GCR", "TSCR", "REIR", "FEIR", "IFR", "IER">>
  ELSE <<"OCR", "PIR", "GCR">>

\* The bit that a line's configuration gives it in a register: settings of inputs only
\* apply to inputs, those of outputs only to outputs.
BitOf(p, name) ==
  CASE name = "GCR" -> p.input
    [] name = "OCR" -> ~p.input /\ p.initialOutput
    [] name = "TSCR" -> ~p.input /\ p.tristated
    [] name = "PUR" -> p.input /\ p.pullUp
    [] name = "PIR" -> p.input /\ p.invertInput
    [] name = "IER" -> p.input /\ p.irq
    [] name = "REIR" -> p.input /\ p.irq /\ p.irqRising
    [] name = "FEIR" -> p.input /\ p.irq /\ p.irqFalling
    [] name = "IFR" -> p.input /\ p.irq /\ p.irqFilter

Value(name, config, lines) == {l \in lines : BitOf(config[l], name)}

Constructing == expander # "none" /\ written < Len(WriteOrder) /\ expanderErr # "panic"
Ready == expander # "none" /\ written = Len(WriteOrder)

ConstructExpander(driver, config) ==
  /\ expander = "none"
  /\ expander' = driver
  /\ pins' = config
  /\ LET lines == IF driver = "XRA1203" THEN AllLines ELSE 0..Bank - 1 IN
     /\ output' = Value("OCR", config, lines)
     /\ tristate' = IF driver = "XRA1203" THEN Value("TSCR", config, lines) ELSE {}
  /\ UNCHANGED <<register, written, expanderErr, changes>>

\* One register; a failure is a failed REQUIRE.
WriteNext ==
  /\ Constructing
  /\ \/ LET name == WriteOrder[written + 1] IN
        /\ register' = [register EXCEPT ![name] = Value(name, pins, Lines)]
        /\ written' = written + 1
        /\ UNCHANGED expanderErr
     \/ expanderErr' = "panic" /\ UNCHANGED <<register, written>>
  /\ UNCHANGED <<expander, pins, output, tristate, changes>>

-----------------------------------------------------------------------------
(* Changing outputs *)

\* A byte written to the first register of a pair ends up in the lower lines, one
\* written to the second register in the upper ones.
PutByte(old, second, byte) ==
  LET base == IF second THEN Bank ELSE 0 IN
  {l \in old : (l >= Bank) # second} \cup {base + b : b \in byte}

\* The half of a shadow register that line l is in, as a byte.
HalfOf(shadow, l) == {b \in 0..Bank - 1 : b + (IF l >= Bank THEN Bank ELSE 0) \in shadow}

Set(shadow, lines, on) == IF on THEN shadow \cup lines ELSE shadow \ lines

Call == Ready /\ changes < MaxChanges /\ changes' = changes + 1
Refused == expanderErr' = "InvalidPin" /\ UNCHANGED <<register, output, tristate>>

\* The write reaches the chip, or fails: the shadow has been changed already.
Write(name, value) ==
  \/ /\ register' = [register EXCEPT ![name] = value]
     /\ expanderErr' = "ok"
  \/ /\ expanderErr' = "bus"
     /\ UNCHANGED register

\* XRA1203::setOutput and setOutputTristate write the half with the line to one of
\* the registers of the pair: the first one for the upper lines.
SetOutput(l, on) ==
  /\ Call /\ expander = "XRA1203"
  /\ IF l \notin Lines THEN Refused
     ELSE /\ output' = Set(output, {l}, on)
          /\ Write("OCR", PutByte(register["OCR"], l < Bank, HalfOf(output', l)))
          /\ UNCHANGED tristate
  /\ UNCHANGED <<expander, pins, written>>

SetOutputTristate(l, on) ==
  /\ Call /\ expander = "XRA1203"
  /\ IF l \notin Lines THEN Refused
     ELSE /\ tristate' = Set(tristate, {l}, on)
          /\ Write("TSCR", PutByte(register["TSCR"], l < Bank, HalfOf(tristate', l)))
          /\ UNCHANGED output
  /\ UNCHANGED <<expander, pins, written>>

\* PI4IOE5V9536::setOutputs and clearOutputs; setOutput is the case of one line.
SetOutputs(lines, on) ==
  /\ Call /\ expander = "PI4IOE5V9536"
  /\ IF ~(lines \subseteq Lines) THEN Refused
     ELSE /\ output' = Set(output, lines, on)
          /\ Write("OCR", output')
          /\ UNCHANGED tristate
  /\ UNCHANGED <<expander, pins, written>>

-----------------------------------------------------------------------------
(* Specification *)

\* After power-on all lines are inputs.
ExpanderInit ==
  /\ expander = "none"
  /\ pins = [l \in AllLines |-> Unused]
  /\ register = [name \in Registers |-> IF name \in {"GCR", "OCR"} THEN AllLines ELSE {}]
  /\ output = {} /\ tristate = {}
  /\ written = 0
  /\ expanderErr = "ok"
  /\ changes = 0

ExpanderNext ==
  \/ \E driver \in Drivers, config \in [AllLines -> PinConfigs] : ConstructExpander(driver, config)
  \/ WriteNext
  \/ \E on \in BOOLEAN :
       \/ \E l \in 0..2 * Bank : SetOutput(l, on) \/ SetOutputTristate(l, on)
       \/ \E lines \in SUBSET (0..Bank) : SetOutputs(lines, on)

ExpanderSpec == ExpanderInit /\ [][ExpanderNext]_expanderVars

-----------------------------------------------------------------------------
(* Properties *)

Driven == (Lines \ register["GCR"]) \ register["TSCR"]

\* A line that is driven has the level its user asked for, at every moment of the
\* construction ("the initial state of the pin", PinConfig) and after every call
\* that succeeds, even if calls before it failed: "Shadow of the output port value,
\* to allow setting the state of an individual output pin without needing to do a
\* readback" (PI4IOE5V9536).  Calls to an XRA1203 that change outputs are left out:
\* they write the wrong half.
DrivenAsAsked ==
  expander # "none" /\ expanderErr = "ok" /\ (expander = "XRA1203" => changes = 0) =>
    \A l \in Driven : (l \in register["OCR"]) <=> (l \in output)

=============================================================================
