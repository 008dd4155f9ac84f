---------------------------- MODULE I2cInvariants ----------------------------
(***************************************************************************)
(* Why every interrupt finds the state machine prepared, why a refused     *)
(* call leaves the bus released, why a call that succeeds has put on the   *)
(* bus what it was asked to, and why the channel that the switch driver    *)
(* remembers is the one that is selected: the inductive invariants behind  *)
(* InterruptsExpected, FailedCleanly, PerformedAsAsked and OnOwnChannel.   *)
(***************************************************************************)
EXTENDS I2cMux

-----------------------------------------------------------------------------
(* The bus driver *)

\* The bus lock is held from the set-up of a call to its end, and the waiting task is
\* the one that holds it.
OneOnBus ==
  /\ \A c \in Tasks : pc[c] \in {"setup", "wait", "release"} => busLock = c
  /\ \A c \in Tasks : pc[c] \in {"wait", "release"} <=> waiting = c

\* Transactions are under way: their task waits and has not been notified.
InProgress == waiting # Nobody /\ pc[waiting] = "wait" /\ ~slot[waiting].pending

\* A task is only notified while it waits for its transactions.
NotifiedWaiting == \A c \in Tasks : slot[c].pending => pc[c] = "wait"

\* What a task that waits for the bus has asked for is what is carried out.
Served ==
  /\ \A c \in Tasks : pc[c] \in {"lock", "setup", "wait"} => args[c] # <<>>
  /\ \A c \in Tasks : pc[c] = "wait" => currentTxns = args[c] /\ currentTxn < Len(args[c])

\* The first byte of the read that was addressed is acknowledged unless it is the only
\* one, so that the device does not send a byte too many.
FirstByte(acknowledged) ==
  state = "SendAddress" /\ Txn.read /\ (acknowledged <=> Txn.length # 1)

\* The driver and the hardware agree: whatever the hardware does next, the state machine
\* is in the state for it.
Agree ==
  /\ hw.bus = "address" =>
       /\ state = "SendAddress"
       /\ hw.wire # <<>> /\ Last(hw.wire) = START(Txn.read)
       /\ Txn.read => FirstByte(hw.ackAct = "ACK")
  /\ hw.bus = "send" => state = "WriteData"
  /\ hw.bus = "receive" =>
       ~hw.rxNack /\ (state = "ReadData" \/ FirstByte(hw.ackAct = "ACK"))
  /\ hw.flag = "SB" =>
       ~hw.rxNack /\ (state = "ReadData" \/ FirstByte(hw.acked))
  /\ hw.flag = "MB" =>
       /\ state \in {"SendAddress", "WriteData"}
       /\ hw.rxNack => hw.wire # <<>> /\ Last(hw.wire) = NACK

\* The bus is idle unless transactions are under way.
InStep == (~InProgress => hw.bus = "idle") /\ Agree

\* Refused by a device, and the bus released.
Refused ==
  /\ Len(hw.wire) >= 2
  /\ SubSeq(hw.wire, Len(hw.wire) - 1, Len(hw.wire)) = <<NACK, STOP>>

FailuresRefused ==
  \A c \in Tasks :
    /\ slot[c].pending /\ completion # "ok" => Refused
    /\ pc[c] = "release" /\ result[c] # "ok" => Refused

BusSafe ==
  I2cTypeOK /\ OneOnBus /\ NotifiedWaiting /\ Served /\ InStep /\ FailuresRefused

-----------------------------------------------------------------------------
(* What is on the wire *)

\* Lists of the shape that the device drivers pass: a continuation does not follow a
\* read of more than one byte, and one that skips its restart writes, after a write.
Supported(txns) ==
  \A i \in 1..Len(txns) - 1 : txns[i + 1].continuation =>
    /\ txns[i].read => txns[i].length = 1
    /\ txns[i + 1].skipRestart => ~txns[i].read /\ ~txns[i + 1].read

\* Every list that is on its way to the bus has been validated and has this shape.
Admitted ==
  \A c \in Tasks : pc[c] \in {"lock", "setup", "wait"} =>
                    ValidRequest(args[c]) /\ Supported(args[c])

\* The wire after n transactions and m bytes of the next one; is that what it shows?
Wire(txns, n, m) == Done(txns, n) \o Begun(txns, n + 1, m)
OnWire(m) == hw.wire = Wire(currentTxns, currentTxn, m)

\* All but the last byte of a read are acknowledged.
AckedUnlessLast(acknowledged) == acknowledged <=> currentTxnOffset + 1 # Txn.length

\* Where the hardware is in the current transaction when it holds, or uses, the bus.
Progress ==
  LET fresh == currentTxnOffset = 0
      begun == currentTxnOffset \in 1..Txn.length
      more == currentTxnOffset < Txn.length
  IN  /\ state = "SendAddress" <=> fresh
      /\ hw.bus = "address" => OnWire(0) /\ hw.rx = 0
      /\ hw.bus = "send" => ~Txn.read /\ begun /\ OnWire(currentTxnOffset)
      /\ hw.flag = "MB" /\ ~hw.rxNack =>
           ~Txn.read /\ (state = "SendAddress" \/ begun) /\ OnWire(currentTxnOffset)
      /\ hw.bus = "receive" =>
           /\ Txn.read /\ more /\ OnWire(currentTxnOffset) /\ hw.rx = currentTxnOffset
           /\ AckedUnlessLast(hw.ackAct = "ACK")
      /\ hw.flag = "SB" =>
           /\ Txn.read /\ more /\ OnWire(currentTxnOffset + 1) /\ hw.rx = currentTxnOffset + 1
           /\ AckedUnlessLast(hw.acked)

\* The bytes that have been received so far are stored.
StoredSoFar ==
  stored = ReceivedIn(currentTxns, currentTxn) \cup
             (IF Txn.read THEN Bytes(currentTxn + 1, currentTxnOffset) ELSE {})

\* A call that succeeds has been carried out.
Completed ==
  \A c \in Tasks :
    \/ slot[c].pending /\ completion = "ok"
    \/ pc[c] = "release" /\ result[c] = "ok"
    => hw.wire = Transcript(args[c]) /\ stored = Received(args[c])

\* What the driver has to keep at every step so that a call that returns has done what
\* it was asked.
Carried == Admitted /\ (InProgress => Progress /\ StoredSoFar) /\ Completed

-----------------------------------------------------------------------------
(* The switch driver *)

\* Who holds the mutex of the switch, which task uses the real bus, and what each task
\* was asked to do.
MuxHeld ==
  \A c \in Tasks :
    /\ at[c] \in {"check", "select", "selected", "transfer", "unlock"} => muxLock = c
    /\ at[c] \notin {"select", "transfer", "device"} => pc[c] = "idle"
    /\ IF at[c] \in {"idle", "device"} THEN op[c] = NoOperation ELSE op[c] \in Operations
    /\ at[c] = "select" => op[c].do \in {"select", "transfer"}
    /\ at[c] = "selected" => op[c].do = "transfer"
    /\ at[c] = "transfer" => op[c].do \in {"transfer", "status"}
    /\ at[c] = "publish" => op[c].do = "select"

DriverSafe ==
  BusSafe /\ MuxTypeOK /\ op \in [Tasks -> Operations \cup {NoOperation}] /\ MuxHeld

\* A direct selection has the switch to itself.
SelectingAlone ==
  \A c, d \in Tasks : Selecting(c) /\ c # d => at[d] \in {"idle", "device"}

\* A task that selects a channel writes one byte, and nothing else.
WritesControl ==
  \A c \in Tasks : at[c] = "select" =>
    /\ pc[c] \in {"lock", "setup", "wait"} => args[c] = ControlWrite
    /\ pc[c] = "wait" /\ ~slot[c].pending =>
         /\ currentTxn = 0
         /\ \/ state = "SendAddress" /\ currentTxnOffset = 0
            \/ state = "WriteData" /\ currentTxnOffset = 1

\* The switch has obeyed the task, but the driver has not noted it yet.
Written(c) ==
  \/ at[c] = "select" /\ pc[c] = "wait" /\
       IF slot[c].pending THEN completion = "ok"
                          ELSE state = "WriteData" /\ hw.flag = "MB" /\ ~hw.rxNack
  \/ at[c] = "select" /\ pc[c] \in {"release", "idle"} /\ result[c] = "ok"
  \/ at[c] \in {"unlock", "publish"} /\ op[c].do = "select" /\ result[c] = "ok"

\* The channel that the driver remembers is the one that is selected, except between the
\* acknowledgement of the switch and the note of the driver.
Remembered ==
  /\ (\A c \in Tasks : ~Written(c)) => activeBus = control
  /\ \A c \in Tasks : Written(c) => control = op[c].channel
  /\ \A c \in Tasks : at[c] = "publish" => result[c] = "ok"
  /\ \A c \in Tasks : at[c] = "selected" => activeBus = op[c].channel

SwitchSafe ==
  DriverSafe /\ SelectingAlone /\ WritesControl /\ Remembered /\ OnOwnChannel

=============================================================================
