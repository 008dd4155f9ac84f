----------------------------- MODULE I2cMaster -----------------------------
(***************************************************************************)
(* The I2C bus driver: I2C::perform runs in the tasks that use the bus,    *)
(* one at a time under busLock; the transactions themselves are carried    *)
(* out by the state machine of irqMasterOnBus, which the SERCOM interrupts *)
(* after each byte with the bus held (clock stretched).                    *)
(*                                                                         *)
(* The SERCOM and the devices are external, modelled as the comments of    *)
(* the interrupt handler describe them: interrupt flag MB after a byte     *)
(* sent, SB after a byte received and acknowledged as CTRLB.ACKACT says;   *)
(* reading DATA lets the next byte come (smart mode); writing ADDR or DATA *)
(* or commanding a STOP clears the flag.  The wire is the record of what   *)
(* was done on the bus for one call of perform.  A byte is named by its    *)
(* place, not by its value.  Bus errors and lost arbitration are not       *)
(* modelled.                                                               *)
(***************************************************************************)
EXTENDS Naturals, Sequences, SequencesExt, TaskNotify

CONSTANTS
  Tasks,     \* tasks that use the bus
  MayNack    \* may a device not acknowledge its address or a byte?

Transaction == [read : BOOLEAN, continuation : BOOLEAN, skipRestart : BOOLEAN, length : Nat]

ASSUME I2cAssumption == MayNack \in BOOLEAN /\ "nobody" \notin Tasks

VARIABLES
  pc,                \* where each task is inside perform
  args,              \* the transactions it has passed
  result,            \* what its last call returned
  slot,              \* the tasks' DriverPrivate notification slots
  busLock,           \* the task that holds the bus lock
  waiting, completion, state, currentTxns, currentTxn, currentTxnOffset,
  stored,            \* bytes put into receive buffers: <<transaction, offset, byte>>
  hw                 \* the SERCOM and the wire

driverVars == <<waiting, completion, state, currentTxns, currentTxn, currentTxnOffset>>
i2cVars == <<pc, args, result, slot, busLock, driverVars, stored, hw>>

-----------------------------------------------------------------------------
(* Types *)

I2CMaster == "I2CMaster"
Nobody == "nobody"
Codes == {"unset", "ok", "NoAck", "UnexpectedNAck", "Invalid"}

\* What is seen on the wire.
START(read) == <<"start", read>>
WRITE(txn, offset) == <<"write", txn, offset>>
READ(acknowledged) == <<"read", acknowledged>>
NACK == <<"nack">>
STOP == <<"stop">>
WireEvents ==
  {NACK, STOP} \cup ({"start", "read"} \X BOOLEAN) \cup ({"write"} \X Nat \X Nat)

Hardware ==
  [flag : {"none", "MB", "SB"},   \* INTFLAG; while it is set the bus is held
   rxNack : BOOLEAN,              \* STATUS.RXNACK
   ackAct : {"ACK", "NACK"},      \* CTRLB.ACKACT
   bus : {"idle", "address", "send", "receive", "held"},
   acked : BOOLEAN,               \* the last byte received was acknowledged
   rx : Nat,                      \* bytes received since the last START
   wire : Seq(WireEvents)]

IdleBus == [flag |-> "none", rxNack |-> FALSE, ackAct |-> "ACK", bus |-> "idle",
            acked |-> FALSE, rx |-> 0, wire |-> <<>>]

I2cTypeOK ==
  /\ pc \in [Tasks -> {"idle", "lock", "setup", "wait", "release"}]
  /\ args \in [Tasks -> Seq(Transaction)]
  /\ result \in [Tasks -> Codes]
  /\ slot \in [Tasks -> Slot({I2CMaster})]
  /\ busLock \in Tasks \cup {Nobody}
  /\ waiting \in Tasks \cup {Nobody}
  /\ completion \in Codes \ {"Invalid"}
  /\ state \in {"Idle", "SendAddress", "ReadData", "WriteData"}
  /\ currentTxns \in Seq(Transaction)
  /\ currentTxn \in 0..Len(currentTxns)
  /\ currentTxnOffset \in Nat
  /\ hw \in Hardware
  /\ hw.flag # "none" => hw.bus = "held"

-----------------------------------------------------------------------------
(* Register accesses: what the driver makes the hardware do *)

SetAck(h, ack) == [h EXCEPT !.ackAct = ack]

\* A faulty variant of Stop: the interrupt is not acknowledged.
StopUnacknowledged(h) ==
  IF h.bus = "idle" THEN h
  ELSE [h EXCEPT !.bus = "idle", !.wire = Append(@, STOP)]

\* CTRLB.CMD = 3.  It has no effect on a bus that has been released already.
Stop(h) ==
  IF h.bus = "idle" THEN h
  ELSE [h EXCEPT !.flag = "none", !.bus = "idle", !.wire = Append(@, STOP)]

\* A write to ADDR: a START, repeated if the bus is held, and the address.
Address(h, read) ==
  [h EXCEPT !.flag = "none", !.bus = "address", !.rx = 0,
            !.wire = Append(@, START(read))]

\* A write to DATA.
SendByte(h, txn, offset) ==
  [h EXCEPT !.flag = "none", !.bus = "send", !.wire = Append(@, WRITE(txn, offset))]

\* A read of DATA: the next byte follows if this one was acknowledged.
TakeByte(h) ==
  [h EXCEPT !.flag = "none", !.bus = IF h.bus = "held" /\ h.acked THEN "receive" ELSE @]

\* beginTransaction: a STOP unless the transaction is a continuation, the
\* acknowledge action of its first byte, and its address unless that is skipped.
BeginTransaction(h, txn, needsStop) ==
  LET released == IF needsStop /\ ~txn.continuation THEN Stop(h) ELSE h
      ready == SetAck(released, IF txn.read /\ txn.length = 1 THEN "NACK" ELSE "ACK")
  IN  IF txn.continuation /\ txn.skipRestart THEN ready ELSE Address(ready, txn.read)

-----------------------------------------------------------------------------
(* The calling task: perform *)

Goto(c, step) == pc' = [pc EXCEPT ![c] = step]
At(c, step) == pc[c] = step

\* ValidateTransactions, and the check that there are any.
ValidRequest(txns) ==
  /\ txns # <<>>
  /\ \A i \in 1..Len(txns) : txns[i].length # 0
  /\ ~txns[1].continuation

Perform(c, txns) ==
  /\ At(c, "idle")
  /\ \/ /\ ValidRequest(txns)
        /\ args' = [args EXCEPT ![c] = txns]
        /\ Goto(c, "lock")
        /\ UNCHANGED result
     \/ /\ ~ValidRequest(txns)
        /\ result' = [result EXCEPT ![c] = "Invalid"]
        /\ UNCHANGED <<pc, args>>
  /\ UNCHANGED <<slot, busLock, driverVars, stored, hw>>

TakeBusLock(c) ==
  /\ At(c, "lock")
  /\ busLock = Nobody
  /\ busLock' = c
  /\ Goto(c, "setup")
  /\ UNCHANGED <<args, result, slot, driverVars, stored, hw>>

\* In a critical section: reset the state machine and address the first device.
Setup(c) ==
  /\ At(c, "setup")
  /\ waiting' = c
  /\ completion' = "unset"
  /\ state' = "SendAddress"
  /\ currentTxns' = args[c] /\ currentTxn' = 0 /\ currentTxnOffset' = 0
  /\ hw' = BeginTransaction([hw EXCEPT !.wire = <<>>], Head(args[c]), FALSE)
  /\ stored' = {}
  /\ Goto(c, "wait")
  /\ UNCHANGED <<args, result, slot, busLock>>

\* Woken because the slot is pending: take the completion code.
Wake(c) ==
  /\ At(c, "wait")
  /\ slot[c].pending
  /\ slot' = [slot EXCEPT ![c] = Collected(@, {I2CMaster})]
  /\ result' = [result EXCEPT ![c] = completion]
  /\ Goto(c, "release")
  /\ UNCHANGED <<args, busLock, driverVars, stored, hw>>

\* The model's own records of a call end with it.
ForgetCall(c) ==
  /\ args' = [args EXCEPT ![c] = <<>>]
  /\ stored' = {}
  /\ hw' = [hw EXCEPT !.wire = <<>>]

\* A faulty variant of Release: a failed call returns with the lock held.
ReleaseOnSuccess(c) ==
  /\ At(c, "release")
  /\ waiting' = Nobody
  /\ busLock' = IF result[c] = "ok" THEN Nobody ELSE busLock
  /\ Goto(c, "idle")
  /\ ForgetCall(c)
  /\ UNCHANGED <<result, slot, completion, state, currentTxns, currentTxn,
                 currentTxnOffset>>

Release(c) ==
  /\ At(c, "release")
  /\ waiting' = Nobody
  /\ busLock' = Nobody
  /\ Goto(c, "idle")
  /\ ForgetCall(c)
  /\ UNCHANGED <<result, slot, completion, state, currentTxns, currentTxn,
                 currentTxnOffset>>

-----------------------------------------------------------------------------
(* The interrupt handler: irqMasterOnBus *)

Txn == currentTxns[currentTxn + 1]
Following == currentTxns[currentTxn + 2]
InLastTxn == currentTxn + 1 = Len(currentTxns)

Interrupt(in, flag) == state = in /\ hw.flag = flag

\* irqCompleteTxn
Complete(code) ==
  /\ completion' = code
  /\ slot' = [slot EXCEPT ![waiting] = WithBits(@, {I2CMaster})]

\* Store the byte that is in DATA at the current offset.
StoreByte == stored' = stored \cup {<<currentTxn, currentTxnOffset, hw.rx>>}

\* The end of the handler, when a transaction is over (prepareForNext): finish or
\* start the next one.
NextTransaction(h, needsStop) ==
  \/ /\ InLastTxn
     /\ hw' = IF needsStop THEN Stop(h) ELSE h
     /\ Complete("ok")
     /\ state' = "Idle"
     /\ currentTxnOffset' = currentTxnOffset + (IF Txn.read THEN 1 ELSE 0)
     /\ UNCHANGED currentTxn
  \/ /\ ~InLastTxn
     /\ state' = "SendAddress"
     /\ currentTxnOffset' = 0
     /\ currentTxn' = currentTxn + 1
     /\ hw' = BeginTransaction(h, Following, needsStop)
     /\ UNCHANGED <<completion, slot>>

\* SendAddress, no acknowledge: STOP and abort.
AddressNacked ==
  /\ Interrupt("SendAddress", "MB") /\ hw.rxNack
  /\ hw' = Stop(hw)
  /\ Complete("NoAck")
  /\ state' = "Idle"
  /\ UNCHANGED <<pc, args, result, busLock, waiting, currentTxns, currentTxn,
                 currentTxnOffset, stored>>

\* SendAddress, a write: send the first byte.
StartWriting ==
  /\ Interrupt("SendAddress", "MB") /\ ~hw.rxNack
  /\ hw' = SendByte(hw, currentTxn, currentTxnOffset)
  /\ currentTxnOffset' = currentTxnOffset + 1
  /\ state' = "WriteData"
  /\ UNCHANGED <<pc, args, result, slot, busLock, waiting, completion, currentTxns,
                 currentTxn, stored>>

\* SendAddress, a read of one byte, which has been received and refused: release
\* the bus unless the next transaction continues, then take the byte.
ReadOnlyByte ==
  /\ Interrupt("SendAddress", "SB") /\ Txn.length = 1
  /\ StoreByte
  /\ \/ /\ InLastTxn
        /\ hw' = TakeByte(Stop(hw))
        /\ Complete("ok")
        /\ state' = "ReadData"
        /\ currentTxnOffset' = currentTxnOffset + 1
        /\ UNCHANGED currentTxn
     \/ /\ ~InLastTxn
        /\ NextTransaction(TakeByte(IF Following.continuation THEN hw ELSE Stop(hw)), FALSE)
  /\ UNCHANGED <<pc, args, result, busLock, waiting, currentTxns>>

\* SendAddress, a longer read: take the first byte, having chosen the answer to
\* the second.
ReadFirstByte ==
  /\ Interrupt("SendAddress", "SB") /\ Txn.length > 1
  /\ StoreByte
  /\ hw' = TakeByte(SetAck(hw, IF Txn.length = 2 THEN "NACK" ELSE "ACK"))
  /\ currentTxnOffset' = currentTxnOffset + 1
  /\ state' = "ReadData"
  /\ UNCHANGED <<pc, args, result, slot, busLock, waiting, completion, currentTxns,
                 currentTxn>>

\* WriteData, acknowledged: send the next byte...
WriteNextByte ==
  /\ Interrupt("WriteData", "MB") /\ ~hw.rxNack
  /\ currentTxnOffset # Txn.length
  /\ hw' = SendByte(hw, currentTxn, currentTxnOffset)
  /\ currentTxnOffset' = currentTxnOffset + 1
  /\ UNCHANGED <<pc, args, result, slot, busLock, waiting, completion, state, currentTxns,
                 currentTxn, stored>>

\* ...or go on with the next transaction.
WriteComplete ==
  /\ Interrupt("WriteData", "MB") /\ ~hw.rxNack
  /\ currentTxnOffset = Txn.length
  /\ NextTransaction(hw, TRUE)
  /\ UNCHANGED <<pc, args, result, busLock, waiting, currentTxns, stored>>

\* A faulty variant of WriteNacked: the bus is released after the next interrupt.
WriteNackedHeld ==
  /\ Interrupt("WriteData", "MB") /\ hw.rxNack
  /\ hw' = [hw EXCEPT !.flag = "none"]
  /\ Complete("UnexpectedNAck")
  /\ UNCHANGED <<pc, args, result, busLock, waiting, state, currentTxns, currentTxn,
                 currentTxnOffset, stored>>

\* WriteData, not acknowledged: STOP and abort.
WriteNacked ==
  /\ Interrupt("WriteData", "MB") /\ hw.rxNack
  /\ hw' = Stop(hw)
  /\ Complete("UnexpectedNAck")
  /\ UNCHANGED <<pc, args, result, busLock, waiting, state, currentTxns, currentTxn,
                 currentTxnOffset, stored>>

\* A faulty variant of ReadNextByte: the last byte is refused one byte late.
ReadNextByteAcked ==
  /\ Interrupt("ReadData", "SB")
  /\ currentTxnOffset + 1 # Txn.length
  /\ StoreByte
  /\ hw' = TakeByte(SetAck(hw, "ACK"))
  /\ currentTxnOffset' = currentTxnOffset + 1
  /\ UNCHANGED <<pc, args, result, slot, busLock, waiting, completion, state, currentTxns,
                 currentTxn>>

\* ReadData, a byte that is not the last: take it, having chosen the answer to the
\* next one.
ReadNextByte ==
  /\ Interrupt("ReadData", "SB")
  /\ currentTxnOffset + 1 # Txn.length
  /\ StoreByte
  /\ hw' = TakeByte(SetAck(hw, IF Txn.length = currentTxnOffset + 2 THEN "NACK" ELSE "ACK"))
  /\ currentTxnOffset' = currentTxnOffset + 1
  /\ UNCHANGED <<pc, args, result, slot, busLock, waiting, completion, state, currentTxns,
                 currentTxn>>

\* ReadData, the last byte: STOP, take it and go on with the next transaction.
ReadLastByte ==
  /\ Interrupt("ReadData", "SB")
  /\ currentTxnOffset + 1 = Txn.length
  /\ StoreByte
  /\ NextTransaction(TakeByte(Stop(SetAck(hw, "NACK"))), TRUE)
  /\ UNCHANGED <<pc, args, result, busLock, waiting, currentTxns>>

-----------------------------------------------------------------------------
(* The SERCOM and the devices *)

\* The addressed device answers: a write goes on with MB, a read with its first
\* byte; without an answer MB and RXNACK are set.
AddressSent ==
  /\ hw.bus = "address"
  /\ \/ hw' = IF Last(hw.wire)[2] THEN [hw EXCEPT !.bus = "receive", !.rxNack = FALSE]
              ELSE [hw EXCEPT !.bus = "held", !.flag = "MB", !.rxNack = FALSE]
     \/ /\ MayNack
        /\ hw' = [hw EXCEPT !.bus = "held", !.flag = "MB", !.rxNack = TRUE,
                            !.wire = Append(@, NACK)]
  /\ UNCHANGED <<pc, args, result, slot, busLock, driverVars, stored>>

ByteAccepted ==
  /\ hw.bus = "send"
  /\ hw' = [hw EXCEPT !.bus = "held", !.flag = "MB", !.rxNack = FALSE]
  /\ UNCHANGED <<pc, args, result, slot, busLock, driverVars, stored>>

ByteRefused ==
  /\ MayNack
  /\ hw.bus = "send"
  /\ hw' = [hw EXCEPT !.bus = "held", !.flag = "MB", !.rxNack = TRUE,
                      !.wire = Append(@, NACK)]
  /\ UNCHANGED <<pc, args, result, slot, busLock, driverVars, stored>>

\* A byte is received, and acknowledged as ACKACT says.
ByteReceived ==
  /\ hw.bus = "receive"
  /\ hw' = [hw EXCEPT !.bus = "held", !.flag = "SB", !.rx = @ + 1,
                      !.acked = (hw.ackAct = "ACK"),
                      !.wire = Append(@, READ(hw.ackAct = "ACK"))]
  /\ UNCHANGED <<pc, args, result, slot, busLock, driverVars, stored>>

-----------------------------------------------------------------------------
(* Specification *)

I2cInit ==
  /\ pc = [c \in Tasks |-> "idle"]
  /\ args = [c \in Tasks |-> <<>>]
  /\ result = [c \in Tasks |-> "unset"]
  /\ slot = [c \in Tasks |-> NoNotification]
  /\ busLock = Nobody
  /\ waiting = Nobody
  /\ completion = "ok"
  /\ state = "Idle"
  /\ currentTxns = <<>> /\ currentTxn = 0 /\ currentTxnOffset = 0
  /\ stored = {}
  /\ hw = IdleBus

\* The steps a task takes once it has called perform.
PerformStep(c) == TakeBusLock(c) \/ Setup(c) \/ Wake(c) \/ Release(c)

IrqMasterOnBus ==
  \/ AddressNacked \/ StartWriting \/ ReadOnlyByte \/ ReadFirstByte
  \/ WriteNextByte \/ WriteComplete \/ WriteNacked
  \/ ReadNextByte \/ ReadLastByte

HardwareStep == AddressSent \/ ByteAccepted \/ ByteRefused \/ ByteReceived

-----------------------------------------------------------------------------
(* Properties *)

\* What the wire should show for a list of transactions: each one begins with a
\* START, preceded by a STOP unless it is a continuation (neither if its restart
\* is skipped); the last byte of a read, and no other, is refused.
Lead(txns, i) ==
  IF txns[i].continuation /\ txns[i].skipRestart THEN <<>> ELSE <<START(txns[i].read)>>

ByteOnWire(txns, i, k) ==
  IF txns[i].read THEN READ(k # txns[i].length) ELSE WRITE(i - 1, k - 1)

Trail(txns, i) == IF i < Len(txns) /\ txns[i + 1].continuation THEN <<>> ELSE <<STOP>>

\* The i-th transaction up to its m-th byte, and all of it.
Begun(txns, i, m) == Lead(txns, i) \o [k \in 1..m |-> ByteOnWire(txns, i, k)]
Part(txns, i) == Begun(txns, i, txns[i].length) \o Trail(txns, i)

\* The first n transactions.
Done(txns, n) == FlattenSeq([i \in 1..n |-> Part(txns, i)])
Transcript(txns) == Done(txns, Len(txns))

\* The bytes that should be stored: the k-th byte of a read at offset k - 1.
Bytes(i, n) == {<<i - 1, k - 1, k>> : k \in 1..n}
ReceivedIn(txns, n) == UNION {Bytes(i, txns[i].length) : i \in {j \in 1..n : txns[j].read}}
Received(txns) == ReceivedIn(txns, Len(txns))

\* "Executes one or more transactions back-to-back" (I2CBus::perform): a call that
\* reports success has put exactly its transactions on the bus, as one unit, and has
\* each byte it received in its place.
PerformedAsAsked ==
  \A c \in Tasks : pc[c] = "release" /\ result[c] = "ok" =>
    /\ hw.wire = Transcript(args[c])
    /\ stored = Received(args[c])

\* A call that fails was refused by a device, and has released the bus.
FailedCleanly ==
  \A c \in Tasks : pc[c] = "release" /\ result[c] # "ok" =>
    /\ Len(hw.wire) >= 2
    /\ SubSeq(hw.wire, Len(hw.wire) - 1, Len(hw.wire)) = <<NACK, STOP>>

\* No interrupt comes that the state machine does not expect ("this should really
\* never happen", irqMasterOnBus), or while no task waits for the bus.
InterruptsExpected ==
  hw.flag # "none" =>
    /\ waiting # Nobody /\ pc[waiting] = "wait" /\ ~slot[waiting].pending
    /\ \/ state = "SendAddress" /\ (hw.flag = "SB" => ~hw.rxNack /\ Txn.read)
       \/ state = "WriteData" /\ hw.flag = "MB"
       \/ state = "ReadData" /\ hw.flag = "SB"

=============================================================================
