----------------------------- MODULE I2cProofs -----------------------------
(***************************************************************************)
(* Machine-checked proofs about the I2C bus and its switch, for every set  *)
(* of tasks, whatever lists of transactions they pass, and whatever the    *)
(* devices refuse.                                                         *)
(***************************************************************************)
EXTENDS I2cInvariants, SequenceTheorems, WellFoundedInduction, TLAPS

-----------------------------------------------------------------------------
(* What register accesses do *)

\* A state of the SERCOM in which the bus is held while an interrupt is flagged.
Sound(h) == h \in Hardware /\ (h.flag # "none" => h.bus = "held")

LEMMA WireTypes ==
  /\ NACK \in WireEvents /\ STOP \in WireEvents
  /\ \A b \in BOOLEAN : START(b) \in WireEvents /\ READ(b) \in WireEvents
  /\ \A i, k \in Nat : WRITE(i, k) \in WireEvents
  /\ \A b \in BOOLEAN : START(b)[2] = b
BY DEF WireEvents, NACK, STOP, START, READ, WRITE

LEMMA AppendLast ==
  ASSUME NEW S, NEW s \in Seq(S), NEW e \in S
  PROVE  /\ Append(s, e) \in Seq(S)
         /\ Append(s, e) # <<>>
         /\ Last(Append(s, e)) = e
BY DEF Last

\* A STOP after a refusal.
LEMMA StopAfterNack ==
  ASSUME NEW S, NEW s \in Seq(S), STOP \in S, s # <<>>, Last(s) = NACK
  PROVE  LET t == Append(s, STOP)
         IN  Len(t) >= 2 /\ SubSeq(t, Len(t) - 1, Len(t)) = <<NACK, STOP>>
<1> DEFINE t == Append(s, STOP)
           n == Len(s)
<1>1. n \in Nat \ {0} /\ Len(t) = n + 1 /\ t[n] = NACK /\ t[n + 1] = STOP /\ t \in Seq(S)
  BY DEF Last
<1>2. /\ Len(SubSeq(t, n, n + 1)) = 2
      /\ SubSeq(t, n, n + 1)[1] = t[n] /\ SubSeq(t, n, n + 1)[2] = t[n + 1]
      /\ SubSeq(t, n, n + 1) \in Seq(S)
  BY <1>1, SubSeqProperties
<1> DEFINE u == SubSeq(t, n, n + 1)
<1>3. /\ <<NACK, STOP>> \in Seq(S) /\ u \in Seq(S) /\ Len(u) = Len(<<NACK, STOP>>)
      /\ \A i \in 1..Len(u) : u[i] = <<NACK, STOP>>[i]
  <2>1. NACK \in S
    BY DEF Last
  <2> HIDE DEF u, NACK, STOP
  <2>2. Len(u) = 2 /\ u[1] = NACK /\ u[2] = STOP /\ u \in Seq(S)
    BY <1>1, <1>2 DEF u
  <2> QED
    BY <2>1, <2>2
<1>4. u = <<NACK, STOP>>
  <2> HIDE DEF u
  <2> QED
    BY ONLY <1>3, SeqEqual
<1> QED
  BY <1>1, <1>4

LEMMA StopSound ==
  ASSUME NEW h, Sound(h)
  PROVE  /\ Sound(Stop(h))
         /\ Stop(h).bus = "idle" /\ Stop(h).flag = "none"
         /\ Stop(h).rxNack = h.rxNack /\ Stop(h).acked = h.acked
         /\ h.bus # "idle" => Stop(h).wire = Append(h.wire, STOP)
BY WireTypes, AppendLast DEF Sound, Stop, Hardware

LEMMA SetAckSound ==
  ASSUME NEW h, Sound(h), NEW ack \in {"ACK", "NACK"}
  PROVE  /\ Sound(SetAck(h, ack))
         /\ SetAck(h, ack) = [h EXCEPT !.ackAct = ack]
         /\ SetAck(h, ack).ackAct = ack
         /\ SetAck(h, ack).bus = h.bus /\ SetAck(h, ack).flag = h.flag
         /\ SetAck(h, ack).rxNack = h.rxNack /\ SetAck(h, ack).acked = h.acked
BY DEF Sound, SetAck, Hardware

LEMMA ForgetWire ==
  ASSUME NEW h, Sound(h)
  PROVE  LET r == [h EXCEPT !.wire = <<>>]
         IN  Sound(r) /\ r.bus = h.bus /\ r.flag = h.flag
<1>1. <<>> \in Seq(WireEvents)
  OBVIOUS
<1> QED
  BY <1>1 DEF Sound, Hardware

LEMMA ReceiveSound ==
  ASSUME NEW h, Sound(h), NEW acked \in BOOLEAN
  PROVE  LET r == [h EXCEPT !.bus = "held", !.flag = "SB", !.rx = @ + 1, !.acked = acked,
                            !.wire = Append(@, READ(acked))]
         IN  /\ Sound(r) /\ r.bus = "held" /\ r.flag = "SB"
             /\ r.rxNack = h.rxNack /\ r.acked = acked
<1>1. Append(h.wire, READ(acked)) \in Seq(WireEvents) /\ h.rx + 1 \in Nat
  BY WireTypes, AppendLast DEF Sound, Hardware
<1> QED
  BY <1>1 DEF Sound, Hardware

LEMMA TakeByteSound ==
  ASSUME NEW h, Sound(h)
  PROVE  /\ Sound(TakeByte(h))
         /\ TakeByte(h).flag = "none"
         /\ TakeByte(h).rxNack = h.rxNack /\ TakeByte(h).ackAct = h.ackAct
         /\ TakeByte(h).bus = IF h.bus = "held" /\ h.acked THEN "receive" ELSE h.bus
BY DEF Sound, TakeByte, Hardware

LEMMA SendByteSound ==
  ASSUME NEW h, Sound(h), NEW i \in Nat, NEW k \in Nat
  PROVE  /\ Sound(SendByte(h, i, k))
         /\ SendByte(h, i, k).flag = "none" /\ SendByte(h, i, k).bus = "send"
<1>1. Append(h.wire, WRITE(i, k)) \in Seq(WireEvents)
  BY WireTypes, AppendLast DEF Sound, Hardware
<1> QED
  BY <1>1 DEF Sound, SendByte, Hardware

LEMMA AddressSound ==
  ASSUME NEW h, Sound(h), NEW read \in BOOLEAN
  PROVE  LET r == Address(h, read)
         IN  /\ Sound(r) /\ r.flag = "none" /\ r.bus = "address" /\ r.ackAct = h.ackAct
             /\ r.wire # <<>> /\ Last(r.wire) = START(read)
<1>1. /\ Append(h.wire, START(read)) \in Seq(WireEvents)
      /\ Append(h.wire, START(read)) # <<>> /\ Last(Append(h.wire, START(read))) = START(read)
  BY WireTypes, AppendLast DEF Sound, Hardware
<1> QED
  BY <1>1 DEF Sound, Address, Hardware

\* The device of a transaction is addressed, or the bus is left as it is.
LEMMA BeginSound ==
  ASSUME NEW h, Sound(h), NEW txn \in Transaction, NEW stop \in BOOLEAN
  PROVE  LET r == BeginTransaction(h, txn, stop)
         IN  /\ Sound(r)
             /\ \/ /\ r.flag = "none" /\ r.bus = "address"
                   /\ r.wire # <<>> /\ Last(r.wire) = START(txn.read)
                   /\ txn.read => (r.ackAct = "ACK" <=> txn.length # 1)
                \/ r.flag = h.flag /\ r.bus = h.bus /\ r.rxNack = h.rxNack
<1> DEFINE released == IF stop /\ ~txn.continuation THEN Stop(h) ELSE h
           ack == IF txn.read /\ txn.length = 1 THEN "NACK" ELSE "ACK"
           ready == SetAck(released, ack)
<1>1. Sound(released)
  BY StopSound
<1>2. Sound(ready) /\ ready.ackAct = ack
  BY <1>1, SetAckSound
<1>3. CASE txn.continuation /\ txn.skipRestart
  <2>1. BeginTransaction(h, txn, stop) = ready /\ released = h
    BY <1>3 DEF BeginTransaction
  <2> QED
    BY <1>2, <2>1, SetAckSound
<1>4. CASE ~(txn.continuation /\ txn.skipRestart)
  <2>1. BeginTransaction(h, txn, stop) = Address(ready, txn.read)
    BY <1>4 DEF BeginTransaction
  <2>2. txn.read \in BOOLEAN
    BY DEF Transaction
  <2> HIDE DEF ready
  <2> DEFINE r == Address(ready, txn.read)
  <2>3. /\ Sound(r) /\ r.flag = "none" /\ r.bus = "address" /\ r.ackAct = ready.ackAct
        /\ r.wire # <<>> /\ Last(r.wire) = START(txn.read)
    BY <1>2, <2>2, AddressSound
  <2>4. txn.read => (r.ackAct = "ACK" <=> txn.length # 1)
    BY <1>2, <2>3
  <2> HIDE DEF r
  <2>5. BeginTransaction(h, txn, stop) = r
    BY <2>1 DEF r
  <2> QED
    BY <2>3, <2>4, <2>5
<1> QED
  BY <1>3, <1>4

-----------------------------------------------------------------------------
(* Transactions under way *)

LEMMA Context ==
  ASSUME BusSafe, InProgress
  PROVE  /\ waiting \in Tasks /\ pc[waiting] = "wait" /\ busLock = waiting
         /\ currentTxns = args[waiting] /\ currentTxns \in Seq(Transaction)
         /\ currentTxn \in Nat /\ currentTxn < Len(currentTxns)
         /\ currentTxnOffset \in Nat /\ Txn \in Transaction /\ Sound(hw)
         /\ ~InLastTxn => currentTxn + 1 < Len(currentTxns) /\ Following \in Transaction
         /\ \A c \in Tasks : pc[c] \in {"wait", "release"} => c = waiting
<1>1. /\ waiting \in Tasks /\ pc[waiting] = "wait"
      /\ currentTxns = args[waiting] /\ currentTxns \in Seq(Transaction)
  BY DEF BusSafe, InProgress, I2cTypeOK, Served
<1>2. /\ currentTxn \in Nat /\ currentTxn < Len(currentTxns)
      /\ Len(currentTxns) \in Nat /\ currentTxnOffset \in Nat
  BY <1>1 DEF BusSafe, I2cTypeOK, Served
<1>3. Txn \in Transaction
  BY <1>1, <1>2 DEF Txn
<1>4. ~InLastTxn => currentTxn + 1 < Len(currentTxns) /\ Following \in Transaction
  BY <1>1, <1>2 DEF InLastTxn, Following
<1>5. Sound(hw)
  BY DEF BusSafe, I2cTypeOK, Sound
<1> QED
  BY <1>1, <1>2, <1>3, <1>4, <1>5 DEF BusSafe, OneOnBus

\* A step of the interrupt handler that goes on with the transactions.
LEMMA Continue ==
  ASSUME BusSafe, InProgress,
         UNCHANGED <<pc, args, result, busLock, waiting, currentTxns, slot, completion>>,
         Sound(hw'), state' \in {"SendAddress", "ReadData", "WriteData"},
         currentTxnOffset' \in Nat, currentTxn' \in Nat,
         currentTxn' < Len(currentTxns), Agree'
  PROVE  BusSafe'
<1>1. I2cTypeOK'
  <2>1. Len(currentTxns) \in Nat /\ currentTxn' \in 0..Len(currentTxns)
    BY Context
  <2>2. hw' \in Hardware /\ (hw'.flag # "none" => hw'.bus = "held")
    BY DEF Sound
  <2> QED
    BY <2>1, <2>2 DEF BusSafe, I2cTypeOK
<1>2. OneOnBus' /\ NotifiedWaiting'
  BY DEF BusSafe, OneOnBus, NotifiedWaiting
<1>3. Served'
  BY Context DEF BusSafe, Served
<1>4. InStep'
  BY DEF InStep, InProgress
<1>5. FailuresRefused'
  BY Context DEF BusSafe, FailuresRefused, NotifiedWaiting, InProgress
<1> QED
  BY <1>1, <1>2, <1>3, <1>4, <1>5 DEF BusSafe

\* A step of the interrupt handler that ends them.
LEMMA Finish ==
  ASSUME BusSafe, InProgress,
         UNCHANGED <<pc, args, result, busLock, waiting, currentTxns, currentTxn>>,
         NEW code \in {"ok", "NoAck", "UnexpectedNAck"}, Complete(code),
         code # "ok" => Refused',
         Sound(hw'), hw'.bus = "idle",
         state' \in {"Idle", "ReadData", "WriteData"}, currentTxnOffset' \in Nat
  PROVE  BusSafe'
<1>1. /\ slot' \in [Tasks -> Slot({I2CMaster})] /\ slot'[waiting].pending
      /\ \A c \in Tasks : c # waiting => slot'[c] = slot[c]
  BY Context DEF BusSafe, I2cTypeOK, Complete, Slot, WithBits
<1>2. I2cTypeOK'
  BY <1>1, Context DEF BusSafe, I2cTypeOK, Sound, Complete, Codes
<1>3. OneOnBus' /\ NotifiedWaiting'
  BY <1>1, Context DEF BusSafe, OneOnBus, NotifiedWaiting
<1>4. Served'
  BY DEF BusSafe, Served
<1>5. InStep'
  BY DEF InStep, Agree, Sound
<1>6. FailuresRefused'
  <2> SUFFICES ASSUME NEW c \in Tasks
               PROVE  /\ slot'[c].pending /\ completion' # "ok" => Refused'
                      /\ pc'[c] = "release" /\ result'[c] # "ok" => Refused'
    BY DEF FailuresRefused
  <2>1. pc[c] # "release"
    BY Context
  <2> QED
    BY <2>1 DEF Complete
<1> QED
  BY <1>2, <1>3, <1>4, <1>5, <1>6 DEF BusSafe

\* The transaction that is over is followed by the next one, or the call is complete.
LEMMA NextSafe ==
  ASSUME BusSafe, InProgress,
         UNCHANGED <<pc, args, result, busLock, waiting, currentTxns>>,
         NEW h, Sound(h), h.bus \in {"idle", "held"}, h.flag # "SB",
         h.flag = "MB" => ~h.rxNack,
         NEW stop \in BOOLEAN, InLastTxn => stop,
         NextTransaction(h, stop)
  PROVE  BusSafe'
<1>1. CASE InLastTxn
  <2>1. /\ hw' = Stop(h) /\ Complete("ok") /\ state' = "Idle" /\ UNCHANGED currentTxn
        /\ currentTxnOffset' = currentTxnOffset + (IF Txn.read THEN 1 ELSE 0)
    BY <1>1 DEF NextTransaction
  <2>2. Sound(hw') /\ hw'.bus = "idle"
    BY <2>1, StopSound
  <2>3. currentTxnOffset' \in Nat
    BY <2>1, Context
  <2> QED
    BY <2>1, <2>2, <2>3, Finish
<1>2. CASE ~InLastTxn
  <2>1. /\ state' = "SendAddress" /\ currentTxnOffset' = 0 /\ currentTxn' = currentTxn + 1
        /\ hw' = BeginTransaction(h, Following, stop) /\ UNCHANGED <<completion, slot>>
    BY <1>2 DEF NextTransaction
  <2>2. /\ currentTxn' \in Nat /\ currentTxn' < Len(currentTxns) /\ Following \in Transaction
        /\ Txn' = Following
    BY <1>2, <2>1, Context DEF Txn, Following
  <2>3. /\ Sound(hw')
        /\ \/ /\ hw'.flag = "none" /\ hw'.bus = "address"
              /\ hw'.wire # <<>> /\ Last(hw'.wire) = START(Following.read)
              /\ Following.read => (hw'.ackAct = "ACK" <=> Following.length # 1)
           \/ hw'.flag = h.flag /\ hw'.bus = h.bus /\ hw'.rxNack = h.rxNack
    BY <2>1, <2>2, BeginSound
  <2>4. Agree'
    BY <2>1, <2>2, <2>3 DEF Agree, FirstByte, Sound
  <2> QED
    BY <2>1, <2>2, <2>3, <2>4, Continue
<1> QED
  BY <1>1, <1>2

-----------------------------------------------------------------------------
(* The interrupt handler *)

LEMMA InterruptContext ==
  ASSUME BusSafe, hw.flag # "none"
  PROVE  InProgress /\ hw.bus = "held" /\ hw.flag \in {"MB", "SB"}
BY DEF BusSafe, InStep, I2cTypeOK, Hardware

\* A byte was refused: the bus is released, and the wire says so.
LEMMA AbortSafe ==
  ASSUME BusSafe, hw.flag = "MB", hw.rxNack, hw' = Stop(hw),
         UNCHANGED <<pc, args, result, busLock, waiting, currentTxns, currentTxn,
                     currentTxnOffset>>,
         NEW code \in {"NoAck", "UnexpectedNAck"}, Complete(code),
         state' \in {"Idle", "WriteData"}
  PROVE  BusSafe'
<1>1. InProgress /\ hw.bus = "held"
  BY InterruptContext
<1>2. Sound(hw') /\ hw'.bus = "idle" /\ hw'.wire = Append(hw.wire, STOP)
  BY <1>1, Context, StopSound
<1>3. hw.wire \in Seq(WireEvents) /\ hw.wire # <<>> /\ Last(hw.wire) = NACK
  BY <1>1, Context DEF BusSafe, InStep, Agree, Sound, Hardware
<1>4. Refused'
  BY <1>2, <1>3, StopAfterNack, WireTypes DEF Refused
<1> QED
  BY <1>1, <1>2, <1>4, Context, Finish

LEMMA IrqSafe ==
  ASSUME BusSafe, IrqMasterOnBus
  PROVE  BusSafe'
<1>1. hw.flag # "none"
  BY DEF IrqMasterOnBus, AddressNacked, StartWriting, ReadOnlyByte, ReadFirstByte,
         WriteNextByte, WriteComplete, WriteNacked, ReadNextByte, ReadLastByte, Interrupt
<1>2. InProgress /\ hw.bus = "held"
  BY <1>1, InterruptContext
<1>3. /\ Sound(hw) /\ currentTxn \in Nat /\ currentTxnOffset \in Nat
      /\ currentTxn < Len(currentTxns) /\ Txn \in Transaction
  BY <1>2, Context
<1>4. CASE AddressNacked
  BY <1>4, AbortSafe DEF AddressNacked, Interrupt
<1>5. CASE WriteNacked
  BY <1>5, AbortSafe DEF WriteNacked, Interrupt
<1>6. CASE StartWriting \/ WriteNextByte
  <2>1. Sound(hw') /\ hw'.flag = "none" /\ hw'.bus = "send"
    <3>1. hw' = SendByte(hw, currentTxn, currentTxnOffset)
      BY <1>6 DEF StartWriting, WriteNextByte
    <3> QED
      BY <1>3, <3>1, SendByteSound
  <2>2. state' = "WriteData" /\ Agree'
    BY <1>6, <2>1 DEF StartWriting, WriteNextByte, Interrupt, Agree
  <2> QED
    BY <1>2, <1>3, <1>6, <2>1, <2>2, Continue DEF StartWriting, WriteNextByte
<1>7. CASE WriteComplete
  BY <1>2, <1>3, <1>7, NextSafe DEF WriteComplete, Interrupt
<1>8. ASSUME NEW ack \in {"ACK", "NACK"}, hw.flag = "SB",
             hw' = TakeByte(SetAck(hw, ack)), state' = "ReadData",
             currentTxnOffset' = currentTxnOffset + 1,
             UNCHANGED <<pc, args, result, slot, busLock, waiting, completion, currentTxns,
                         currentTxn>>
      PROVE  BusSafe'
  <2>1. Sound(SetAck(hw, ack)) /\ SetAck(hw, ack).rxNack = hw.rxNack
    BY <1>3, SetAckSound
  <2>2. Sound(hw') /\ hw'.flag = "none" /\ hw'.rxNack = hw.rxNack
        /\ hw'.bus \in {"receive", SetAck(hw, ack).bus}
    BY <1>8, <2>1, TakeByteSound
  <2>3. ~hw'.rxNack /\ hw'.bus \in {"receive", "held"}
    <3>1. SetAck(hw, ack).bus = "held"
      BY <1>2, <1>3, SetAckSound
    <3>2. ~hw.rxNack
      BY <1>8 DEF BusSafe, InStep, Agree
    <3> QED
      BY <2>2, <3>1, <3>2
  <2>4. Agree'
    BY <1>8, <2>2, <2>3 DEF Agree
  <2> QED
    BY <1>2, <1>3, <1>8, <2>2, <2>4, Continue
<1>9. CASE ReadFirstByte
  BY <1>8, <1>9 DEF ReadFirstByte, Interrupt
<1>10. CASE ReadNextByte
  BY <1>8, <1>10 DEF ReadNextByte, Interrupt
<1>11. CASE ReadLastByte
  <2> DEFINE h == TakeByte(Stop(SetAck(hw, "NACK")))
  <2>1. Sound(SetAck(hw, "NACK"))
    BY <1>3, SetAckSound
  <2>2. Sound(Stop(SetAck(hw, "NACK"))) /\ Stop(SetAck(hw, "NACK")).bus = "idle"
    BY <2>1, StopSound
  <2>3. Sound(h) /\ h.bus = "idle" /\ h.flag = "none"
    BY <2>2, TakeByteSound
  <2>4. NextTransaction(h, TRUE)
    BY <1>11 DEF ReadLastByte
  <2> HIDE DEF h
  <2> QED
    BY <1>2, <1>11, <2>3, <2>4, NextSafe DEF ReadLastByte
<1>12. CASE ReadOnlyByte
  <2>1. hw.flag = "SB" /\ state = "SendAddress" /\ Txn.length = 1
    BY <1>12 DEF ReadOnlyByte, Interrupt
  <2>2. ~hw.acked
    BY <1>1, <2>1 DEF BusSafe, InStep, Agree, FirstByte
  <2>3. CASE InLastTxn
    <3>1. /\ hw' = TakeByte(Stop(hw)) /\ Complete("ok") /\ state' = "ReadData"
          /\ currentTxnOffset' = currentTxnOffset + 1 /\ UNCHANGED currentTxn
      BY <1>12, <2>3 DEF ReadOnlyByte
    <3>2. Sound(hw') /\ hw'.bus = "idle"
      BY <1>3, <3>1, StopSound, TakeByteSound
    <3>3. currentTxnOffset' \in Nat
      BY <1>3, <3>1
    <3> QED
      BY <1>2, <1>12, <3>1, <3>2, <3>3, Finish DEF ReadOnlyByte
  <2>4. CASE ~InLastTxn
    <3> DEFINE h == TakeByte(IF Following.continuation THEN hw ELSE Stop(hw))
    <3>1. NextTransaction(h, FALSE)
      BY <1>12, <2>4 DEF ReadOnlyByte
    <3>2. Sound(h) /\ h.bus \in {"idle", "held"} /\ h.flag = "none"
      BY <1>2, <1>3, <2>2, StopSound, TakeByteSound
    <3> HIDE DEF h
    <3> QED
      BY <1>2, <1>12, <2>4, <3>1, <3>2, NextSafe DEF ReadOnlyByte
  <2> QED
    BY <2>3, <2>4
<1> QED
  BY <1>4, <1>5, <1>6, <1>7, <1>9, <1>10, <1>11, <1>12 DEF IrqMasterOnBus

-----------------------------------------------------------------------------
(* The tasks, and the hardware *)

LEMMA PerformSafe ==
  ASSUME BusSafe, NEW c \in Tasks, NEW txns \in Seq(Transaction), Perform(c, txns)
  PROVE  BusSafe'
<1> USE DEF BusSafe
<1>1. /\ At(c, "idle") /\ UNCHANGED <<slot, busLock, driverVars, stored, hw>>
      /\ \/ /\ ValidRequest(txns) /\ args' = [args EXCEPT ![c] = txns]
            /\ pc' = [pc EXCEPT ![c] = "lock"] /\ UNCHANGED result
         \/ result' = [result EXCEPT ![c] = "Invalid"] /\ UNCHANGED <<pc, args>>
  BY DEF Perform, Goto
<1>2. ValidRequest(txns) => txns # <<>>
  BY DEF ValidRequest
<1>3. I2cTypeOK'
  BY <1>1 DEF I2cTypeOK, driverVars, Codes
<1>4. OneOnBus' /\ NotifiedWaiting'
  BY <1>1 DEF OneOnBus, NotifiedWaiting, I2cTypeOK, At, driverVars
<1>5. Served'
  BY <1>1, <1>2 DEF Served, I2cTypeOK, At, driverVars
<1>6. InProgress' <=> InProgress
  BY <1>1 DEF InProgress, I2cTypeOK, At, driverVars
<1>7. InStep'
  BY <1>1, <1>6 DEF InStep, Agree, FirstByte, Txn, driverVars
<1>8. FailuresRefused'
  BY <1>1 DEF FailuresRefused, Refused, I2cTypeOK, At, driverVars
<1> QED
  BY <1>3, <1>4, <1>5, <1>7, <1>8

LEMMA TakeBusLockSafe ==
  ASSUME BusSafe, NEW c \in Tasks, TakeBusLock(c)
  PROVE  BusSafe'
<1> USE DEF BusSafe, TakeBusLock, At, Goto, driverVars
<1>1. I2cTypeOK'
  BY DEF I2cTypeOK
<1>2. OneOnBus' /\ NotifiedWaiting'
  BY I2cAssumption DEF OneOnBus, NotifiedWaiting, I2cTypeOK, I2cAssumption, Nobody
<1>3. Served'
  BY DEF Served, I2cTypeOK
<1>4. InProgress' <=> InProgress
  BY DEF InProgress, I2cTypeOK
<1>5. InStep'
  BY <1>4 DEF InStep, Agree, FirstByte, Txn
<1>6. FailuresRefused'
  BY DEF FailuresRefused, Refused, I2cTypeOK
<1> QED
  BY <1>1, <1>2, <1>3, <1>5, <1>6

LEMMA SetupSafe ==
  ASSUME BusSafe, NEW c \in Tasks, Setup(c)
  PROVE  BusSafe'
<1>1. /\ pc[c] = "setup" /\ busLock = c /\ pc' = [pc EXCEPT ![c] = "wait"]
      /\ waiting' = c /\ completion' = "unset" /\ state' = "SendAddress"
      /\ currentTxns' = args[c] /\ currentTxn' = 0 /\ currentTxnOffset' = 0
      /\ UNCHANGED <<args, result, slot, busLock>>
  BY DEF Setup, At, Goto, BusSafe, OneOnBus
<1>2. \A d \in Tasks : d # c => pc[d] \notin {"setup", "wait", "release"}
  BY <1>1 DEF BusSafe, OneOnBus
<1>3. ~InProgress /\ \A d \in Tasks : ~slot[d].pending
  BY <1>1, <1>2 DEF BusSafe, InProgress, I2cTypeOK, NotifiedWaiting
<1>4. /\ args[c] \in Seq(Transaction) /\ args[c] # <<>> /\ Len(args[c]) \in Nat \ {0}
      /\ Head(args[c]) \in Transaction /\ Head(args[c]) = args[c][1]
  BY <1>1 DEF BusSafe, I2cTypeOK, Served
<1> DEFINE h == [hw EXCEPT !.wire = <<>>]
<1>5. Sound(h) /\ h.bus = "idle" /\ h.flag = "none"
  <2>1. Sound(hw) /\ hw.bus = "idle" /\ hw.flag = "none"
    BY <1>3 DEF BusSafe, InStep, I2cTypeOK, Sound, Hardware
  <2> QED
    BY <2>1, ForgetWire
<1>6. hw' = BeginTransaction(h, Head(args[c]), FALSE)
  BY DEF Setup
<1> HIDE DEF h
<1>7. /\ Sound(hw')
      /\ \/ /\ hw'.flag = "none" /\ hw'.bus = "address"
            /\ hw'.wire # <<>> /\ Last(hw'.wire) = START(Head(args[c]).read)
            /\ Head(args[c]).read => (hw'.ackAct = "ACK" <=> Head(args[c]).length # 1)
         \/ hw'.flag = h.flag /\ hw'.bus = h.bus /\ hw'.rxNack = h.rxNack
  BY <1>4, <1>5, <1>6, BeginSound
<1>8. Txn' = Head(args[c])
  BY <1>1, <1>4 DEF Txn
<1>9. I2cTypeOK'
  <2>1. hw' \in Hardware /\ (hw'.flag # "none" => hw'.bus = "held")
    BY <1>7 DEF Sound
  <2>2. currentTxn' \in 0..Len(currentTxns')
    BY <1>1, <1>4
  <2> QED
    BY <1>1, <1>4, <2>1, <2>2 DEF BusSafe, I2cTypeOK, Codes
<1>10. OneOnBus' /\ NotifiedWaiting'
  BY <1>1, <1>2, <1>3 DEF BusSafe, OneOnBus, NotifiedWaiting, I2cTypeOK
<1>11. Served'
  BY <1>1, <1>2, <1>4 DEF BusSafe, Served, I2cTypeOK
<1>12. InProgress'
  BY <1>1, <1>3, I2cAssumption DEF InProgress, BusSafe, I2cTypeOK, I2cAssumption, Nobody
<1>13. Agree'
  BY <1>1, <1>5, <1>7, <1>8 DEF Agree, FirstByte
<1>14. FailuresRefused'
  BY <1>1, <1>2, <1>3 DEF FailuresRefused, BusSafe, I2cTypeOK
<1> QED
  BY <1>9, <1>10, <1>11, <1>12, <1>13, <1>14 DEF BusSafe, InStep

LEMMA WakeSafe ==
  ASSUME BusSafe, NEW c \in Tasks, Wake(c)
  PROVE  BusSafe'
<1>1. /\ pc[c] = "wait" /\ slot[c].pending /\ pc' = [pc EXCEPT ![c] = "release"]
      /\ slot' = [slot EXCEPT ![c] = Collected(@, {I2CMaster})]
      /\ result' = [result EXCEPT ![c] = completion]
      /\ UNCHANGED <<args, busLock, driverVars, stored, hw>>
  BY DEF Wake, At, Goto
<1>2. slot' \in [Tasks -> Slot({I2CMaster})] /\ ~slot'[c].pending
      /\ \A d \in Tasks : d # c => slot'[d] = slot[d]
  BY <1>1 DEF BusSafe, I2cTypeOK, Slot, Collected
<1>3. I2cTypeOK'
  BY <1>1, <1>2 DEF BusSafe, I2cTypeOK, driverVars, Codes
<1>4. OneOnBus' /\ NotifiedWaiting'
  BY <1>1, <1>2 DEF BusSafe, OneOnBus, NotifiedWaiting, I2cTypeOK, driverVars
<1>5. Served'
  BY <1>1 DEF BusSafe, Served, I2cTypeOK, driverVars
<1>6. ~InProgress /\ hw.bus = "idle"
  BY <1>1 DEF BusSafe, OneOnBus, InProgress, InStep
<1>7. InStep'
  BY <1>1, <1>6 DEF BusSafe, InStep, Agree, FirstByte, Txn, driverVars
<1>8. FailuresRefused'
  BY <1>1, <1>2 DEF BusSafe, FailuresRefused, Refused, I2cTypeOK, driverVars
<1> QED
  BY <1>3, <1>4, <1>5, <1>7, <1>8 DEF BusSafe

LEMMA ReleaseSafe ==
  ASSUME BusSafe, NEW c \in Tasks, Release(c)
  PROVE  BusSafe'
<1>1. /\ pc[c] = "release" /\ pc' = [pc EXCEPT ![c] = "idle"] /\ args' = [args EXCEPT ![c] = <<>>]
      /\ waiting' = Nobody /\ busLock' = Nobody /\ hw' = [hw EXCEPT !.wire = <<>>]
      /\ UNCHANGED <<result, slot, completion, state, currentTxns, currentTxn,
                     currentTxnOffset>>
  BY DEF Release, At, Goto, ForgetCall
<1>2. busLock = c /\ \A d \in Tasks : d # c => pc[d] \notin {"setup", "wait", "release"}
  BY <1>1 DEF BusSafe, OneOnBus
<1>3. \A d \in Tasks : ~slot[d].pending
  BY <1>1, <1>2 DEF BusSafe, NotifiedWaiting
<1>4. ~InProgress /\ hw.bus = "idle" /\ hw.flag = "none"
  BY <1>1, <1>2 DEF BusSafe, OneOnBus, InProgress, InStep, I2cTypeOK, Hardware
<1>5. hw' \in Hardware /\ hw'.bus = "idle" /\ hw'.flag = "none"
  <2>1. Sound(hw)
    BY DEF BusSafe, I2cTypeOK, Sound
  <2> QED
    BY <1>1, <1>4, <2>1, ForgetWire DEF Sound
<1>6. I2cTypeOK'
  <2>1. args' \in [Tasks -> Seq(Transaction)]
    BY <1>1 DEF BusSafe, I2cTypeOK
  <2> QED
    BY <1>1, <1>5, <2>1 DEF BusSafe, I2cTypeOK
<1>7. OneOnBus' /\ NotifiedWaiting'
  BY <1>1, <1>2, <1>3, I2cAssumption
     DEF BusSafe, OneOnBus, NotifiedWaiting, I2cTypeOK, I2cAssumption, Nobody
<1>8. Served'
  BY <1>1, <1>2 DEF BusSafe, Served, I2cTypeOK
<1>9. InStep'
  BY <1>5 DEF InStep, Agree
<1>10. FailuresRefused'
  BY <1>1, <1>2, <1>3 DEF BusSafe, FailuresRefused, I2cTypeOK
<1> QED
  BY <1>6, <1>7, <1>8, <1>9, <1>10 DEF BusSafe

\* The hardware moves only while transactions are under way.
LEMMA HardwareContext ==
  ASSUME BusSafe, HardwareStep
  PROVE  InProgress /\ UNCHANGED <<pc, args, result, slot, busLock, driverVars, stored>>
BY DEF HardwareStep, AddressSent, ByteAccepted, ByteRefused, ByteReceived, BusSafe, InStep

LEMMA HardwareSafe ==
  ASSUME BusSafe, HardwareStep
  PROVE  BusSafe'
<1>1. InProgress /\ UNCHANGED <<pc, args, result, slot, busLock, driverVars, stored>>
  BY HardwareContext
<1>2. Sound(hw) /\ Agree /\ hw.wire \in Seq(WireEvents) /\ hw.rx \in Nat
  BY <1>1, Context DEF BusSafe, InStep, Sound, Hardware
<1>3. state \in {"SendAddress", "ReadData", "WriteData"} => BusSafe' \/ ~Sound(hw') \/ ~Agree'
  BY <1>1, Context, Continue DEF driverVars
<1>4. Txn' = Txn
  BY <1>1 DEF Txn, driverVars
<1>5. CASE AddressSent
  <2>1. /\ hw.bus = "address" /\ state = "SendAddress" /\ Last(hw.wire) = START(Txn.read)
        /\ Txn.read => FirstByte(hw.ackAct = "ACK")
    BY <1>2, <1>5 DEF AddressSent, Agree
  <2>2. Last(hw.wire)[2] = Txn.read /\ Txn.read \in BOOLEAN
    BY <1>1, <2>1, Context, WireTypes DEF Transaction
  <2>3. \/ Txn.read /\ hw' = [hw EXCEPT !.bus = "receive", !.rxNack = FALSE]
        \/ ~Txn.read /\ hw' = [hw EXCEPT !.bus = "held", !.flag = "MB", !.rxNack = FALSE]
        \/ hw' = [hw EXCEPT !.bus = "held", !.flag = "MB", !.rxNack = TRUE,
                            !.wire = Append(@, NACK)]
    BY <1>5, <2>2 DEF AddressSent
  <2>4. /\ Append(hw.wire, NACK) \in Seq(WireEvents) /\ Append(hw.wire, NACK) # <<>>
        /\ Last(Append(hw.wire, NACK)) = NACK
    BY <1>2, AppendLast, WireTypes
  <2>5. Sound(hw')
    BY <1>2, <2>1, <2>3, <2>4 DEF Sound, Hardware
  <2>6. Agree'
    BY <1>1, <1>2, <1>4, <2>1, <2>3, <2>4 DEF Sound, Hardware, Agree, FirstByte, driverVars
  <2> QED
    BY <1>3, <2>1, <2>5, <2>6
<1>6. CASE ByteAccepted \/ ByteRefused
  <2>1. hw.bus = "send" /\ state = "WriteData"
    BY <1>2, <1>6 DEF ByteAccepted, ByteRefused, Agree
  <2>2. \/ hw' = [hw EXCEPT !.bus = "held", !.flag = "MB", !.rxNack = FALSE]
        \/ hw' = [hw EXCEPT !.bus = "held", !.flag = "MB", !.rxNack = TRUE,
                            !.wire = Append(@, NACK)]
    BY <1>6 DEF ByteAccepted, ByteRefused
  <2>3. /\ Append(hw.wire, NACK) \in Seq(WireEvents) /\ Append(hw.wire, NACK) # <<>>
        /\ Last(Append(hw.wire, NACK)) = NACK
    BY <1>2, AppendLast, WireTypes
  <2>4. Sound(hw') /\ Agree'
    BY <1>1, <1>2, <2>1, <2>2, <2>3 DEF Sound, Hardware, Agree, driverVars
  <2> QED
    BY <1>3, <2>1, <2>4
<1>7. CASE ByteReceived
  <2>1. /\ hw.bus = "receive" /\ ~hw.rxNack
        /\ state = "ReadData" \/ FirstByte(hw.ackAct = "ACK")
    BY <1>2, <1>7 DEF ByteReceived, Agree
  <2>2. hw' = [hw EXCEPT !.bus = "held", !.flag = "SB", !.rx = @ + 1,
                         !.acked = (hw.ackAct = "ACK"),
                         !.wire = Append(@, READ(hw.ackAct = "ACK"))]
    BY <1>7 DEF ByteReceived
  <2>3. (hw.ackAct = "ACK") \in BOOLEAN
    OBVIOUS
  <2> DEFINE acked == (hw.ackAct = "ACK")
  <2>4. /\ acked \in BOOLEAN
        /\ hw' = [hw EXCEPT !.bus = "held", !.flag = "SB", !.rx = @ + 1, !.acked = acked,
                            !.wire = Append(@, READ(acked))]
    BY <2>2, <2>3
  <2> HIDE DEF acked
  <2>5. /\ Sound(hw') /\ hw'.bus = "held" /\ hw'.flag = "SB"
        /\ hw'.rxNack = hw.rxNack /\ hw'.acked = acked
    BY <1>2, <2>4, ReceiveSound
  <2>6. hw'.flag = "SB" /\ hw'.bus = "held" /\ ~hw'.rxNack /\ hw'.acked = (hw.ackAct = "ACK")
    BY <2>1, <2>5 DEF acked
  <2>7. Agree'
    BY <1>1, <1>4, <2>1, <2>6 DEF Agree, FirstByte, driverVars
  <2> QED
    BY <1>3, <2>1, <2>5, <2>7 DEF FirstByte
<1> QED
  BY <1>5, <1>6, <1>7 DEF HardwareStep

\* Whatever a step does on the bus, BusSafe is kept.
BusNext ==
  \/ \E c \in Tasks : \/ \E txns \in Seq(Transaction) : Perform(c, txns)
                      \/ PerformStep(c)
  \/ IrqMasterOnBus \/ HardwareStep
  \/ UNCHANGED i2cVars

LEMMA BusSafeStep ==
  ASSUME BusSafe, BusNext
  PROVE  BusSafe'
<1>1. CASE UNCHANGED i2cVars
  BY <1>1 DEF i2cVars, driverVars, BusSafe, I2cTypeOK, OneOnBus, NotifiedWaiting, Served,
              InStep, InProgress, Agree, FirstByte, Txn, FailuresRefused, Refused
<1> QED
  BY <1>1, PerformSafe, TakeBusLockSafe, SetupSafe, WakeSafe, ReleaseSafe, IrqSafe,
     HardwareSafe DEF BusNext, PerformStep

-----------------------------------------------------------------------------
(* The switch driver *)

LEMMA OpTypes ==
  /\ ControlWrite \in Seq(Transaction) /\ StatusRead \in Seq(Transaction)
  /\ \A o \in Operations : o.do \in {"transfer", "select", "status"}
  /\ \A o \in Operations : o.do = "transfer" => o.channel \in Channels
                                              /\ o.txns \in Seq(Transaction)
  /\ \A o \in Operations : o.do = "select" => o.channel \in Channels \cup {NoChannel}
  /\ NoOperation.do = "none" /\ NoOperation \notin Operations
<1>1. OneByte(TRUE) \in Transaction /\ OneByte(FALSE) \in Transaction
  BY DEF OneByte, Transaction
<1>2. ControlWrite \in Seq(Transaction) /\ StatusRead \in Seq(Transaction)
  <2> DEFINE r == OneByte(TRUE)
             w == OneByte(FALSE)
  <2>1. r \in Transaction /\ w \in Transaction
    BY <1>1
  <2>2. ControlWrite = <<w>> /\ StatusRead = <<r>>
    BY DEF ControlWrite, StatusRead
  <2> HIDE DEF r, w
  <2> QED
    BY <2>1, <2>2
<1>3. /\ \A o \in Operations : o.do = "transfer" => o.channel \in Channels
                                                  /\ o.txns \in Seq(Transaction)
      /\ \A o \in Operations : o.do = "select" => o.channel \in Channels \cup {NoChannel}
      /\ \A o \in Operations : o.do \in {"transfer", "select", "status"}
  BY MuxAssumption DEF Operations, MuxAssumption
<1>4. NoOperation.do = "none"
  BY DEF NoOperation
<1> QED
  BY <1>2, <1>3, <1>4

\* A task of the model uses the real bus on behalf of one operation.
LEMMA PerformFrame ==
  ASSUME BusSafe, NEW c \in Tasks, NEW txns, Perform(c, txns)
  PROVE  \A d \in Tasks \ {c} : pc'[d] = pc[d] /\ result'[d] = result[d]
BY DEF Perform, Goto, BusSafe, I2cTypeOK

\* What the steps on the bus do to the tasks that are not on it: nothing.
LEMMA BusFrame ==
  ASSUME BusSafe, (\E c \in Tasks : PerformStep(c)) \/ IrqMasterOnBus \/ HardwareStep
  PROVE  \A d \in Tasks : pc[d] = "idle" => pc'[d] = "idle" /\ result'[d] = result[d]
<1>1. ASSUME NEW c \in Tasks, PerformStep(c)
      PROVE  \A d \in Tasks : pc[d] = "idle" => pc'[d] = "idle" /\ result'[d] = result[d]
  BY <1>1 DEF PerformStep, TakeBusLock, Setup, Wake, Release, At, Goto, BusSafe, I2cTypeOK
<1>2. CASE IrqMasterOnBus
  BY <1>2 DEF IrqMasterOnBus, AddressNacked, StartWriting, ReadOnlyByte, ReadFirstByte,
              WriteNextByte, WriteComplete, WriteNacked, ReadNextByte, ReadLastByte
<1>3. CASE HardwareStep
  BY <1>3, HardwareContext
<1> QED
  BY <1>1, <1>2, <1>3

LEMMA DriverMuxStep ==
  ASSUME DriverSafe, NEW c \in Tasks, MuxStep(c)
  PROVE  DriverSafe'
<1> USE OpTypes DEF DriverSafe, MuxTypeOK, MuxHeld, Enter
<1> USE DEF muxVars
<1>1. CASE TakeMuxLock(c) \/ SelectionDone(c) \/ TransferDone(c) \/ DeviceDone(c)
  <2>1. BusSafe'
    <3>1. UNCHANGED i2cVars
      BY <1>1 DEF TakeMuxLock, SelectionDone, TransferDone, DeviceDone
    <3> QED
      BY <3>1, BusSafeStep DEF BusNext
  <2>2. UNCHANGED <<pc, result, op>>
    BY <1>1 DEF TakeMuxLock, SelectionDone, TransferDone, DeviceDone, i2cVars
  <2>3. CASE TakeMuxLock(c)
    BY <2>1, <2>2, <2>3, I2cAssumption
       DEF TakeMuxLock, BusSafe, I2cAssumption, Nobody
  <2>4. CASE SelectionDone(c)
    BY <2>1, <2>2, <2>4 DEF SelectionDone, BusSafe
  <2>5. CASE TransferDone(c) \/ DeviceDone(c)
    BY <2>1, <2>2, <2>5 DEF TransferDone, DeviceDone, BusSafe
  <2> QED
    BY <1>1, <2>3, <2>4, <2>5
<1>2. CASE GiveMuxLock(c) \/ PublishSelection(c)
  <2>1. UNCHANGED i2cVars
    BY <1>2 DEF GiveMuxLock, PublishSelection
  <2>2. BusSafe' /\ UNCHANGED <<pc, result>>
    BY <2>1, BusSafeStep DEF BusNext, i2cVars
  <2>3. CASE GiveMuxLock(c)
    <3>1. /\ at[c] = "unlock" /\ muxLock = c /\ muxLock' = Nobody
          /\ UNCHANGED <<activeBus, control>>
          /\ \/ /\ op[c].do = "select" /\ at' = [at EXCEPT ![c] = "publish"] /\ op' = op
             \/ /\ at' = [at EXCEPT ![c] = "idle"]
                /\ op' = [op EXCEPT ![c] = NoOperation]
      BY <2>3 DEF GiveMuxLock
    <3>2. MuxTypeOK' /\ op' \in [Tasks -> Operations \cup {NoOperation}]
      BY <2>2, <3>1 DEF BusSafe
    <3>3. MuxHeld'
      BY <2>2, <3>1
    <3> QED
      BY <2>2, <3>2, <3>3
  <2>4. CASE PublishSelection(c)
    BY <2>2, <2>4 DEF PublishSelection, BusSafe
  <2> QED
    BY <1>2, <2>3, <2>4
<1>3. CASE SendSelection(c)
  <2>1. BusSafe'
    BY <1>3, BusSafeStep DEF SendSelection, BusNext
  <2>2. \A d \in Tasks \ {c} : pc'[d] = pc[d]
    BY <1>3, PerformFrame DEF SendSelection
  <2> QED
    BY <1>3, <2>1, <2>2 DEF SendSelection, NeedsSelection, BusSafe
<1>4. CASE SendTransfer(c)
  <2>1. at[c] \in {"check", "selected"} /\ op[c] \in Operations
    BY <1>4 DEF SendTransfer
  <2>2. op[c].do \in {"transfer", "status"}
    BY <1>4, <2>1 DEF SendTransfer, NeedsSelection
  <2>3. (IF op[c].do = "status" THEN StatusRead ELSE op[c].txns) \in Seq(Transaction)
    BY <2>1, <2>2
  <2>4. BusSafe'
    BY <1>4, <2>3, BusSafeStep DEF SendTransfer, BusNext
  <2>5. \A d \in Tasks \ {c} : pc'[d] = pc[d]
    BY <1>4, PerformFrame DEF SendTransfer
  <2> QED
    BY <1>4, <2>1, <2>2, <2>4, <2>5 DEF SendTransfer, BusSafe
<1> QED
  BY <1>1, <1>2, <1>3, <1>4 DEF MuxStep

LEMMA DriverSafeStep ==
  ASSUME DriverSafe, [Next]_vars
  PROVE  DriverSafe'
<1> USE OpTypes DEF DriverSafe, MuxTypeOK, MuxHeld, Enter
<1>1. ASSUME NEW c \in Tasks, NEW o \in Operations, Call(c, o)
      PROVE  DriverSafe'
  <2>1. BusSafe' /\ UNCHANGED pc
    BY <1>1, BusSafeStep DEF Call, BusNext, i2cVars
  <2> QED
    BY <1>1, <2>1 DEF Call, BusSafe
<1>2. ASSUME NEW c \in Tasks, NEW txns \in Direct, CallDevice(c, txns)
      PROVE  DriverSafe'
  <2>1. txns \in Seq(Transaction)
    BY MuxAssumption DEF MuxAssumption
  <2>2. BusSafe'
    BY <1>2, <2>1, BusSafeStep DEF CallDevice, BusNext
  <2>3. \A d \in Tasks \ {c} : pc'[d] = pc[d]
    BY <1>2, PerformFrame DEF CallDevice
  <2> QED
    BY <1>2, <2>2, <2>3 DEF CallDevice, BusSafe
<1>3. CASE BusStep
  <2>1. (\E c \in Tasks : PerformStep(c)) \/ IrqMasterOnBus \/ HardwareStep
    BY <1>3 DEF BusStep, HardwareStep
  <2>2. BusSafe'
    BY <2>1, BusSafeStep DEF BusNext
  <2>3. \A d \in Tasks : pc[d] = "idle" => pc'[d] = "idle"
    BY <2>1, BusFrame
  <2>4. UNCHANGED <<at, op, muxLock, activeBus>>
    BY <1>3 DEF BusStep, muxVars
  <2>5. control' \in Channels \cup {NoChannel}
    <3>1. CASE ByteAccepted
      <4>1. waiting \in Tasks
        BY <3>1, HardwareContext, Context DEF HardwareStep
      <4>2. at[waiting] = "select" => op[waiting].channel \in Channels \cup {NoChannel}
        BY <4>1
      <4> QED
        BY <1>3, <4>2 DEF BusStep, muxVars
    <3>2. CASE ~ByteAccepted
      BY <1>3, <3>2 DEF BusStep, muxVars
    <3> QED
      BY <3>1, <3>2
  <2> QED
    BY <2>2, <2>3, <2>4, <2>5 DEF BusSafe
<1>4. CASE UNCHANGED vars
  <2>1. BusSafe' /\ UNCHANGED <<pc, muxVars>>
    BY <1>4, BusSafeStep DEF BusNext, vars, i2cVars
  <2> QED
    BY <2>1 DEF muxVars, BusSafe
<1> QED
  BY <1>1, <1>2, <1>3, <1>4, DriverMuxStep DEF Next

LEMMA DriverInit == Init => DriverSafe
<1> SUFFICES ASSUME Init PROVE DriverSafe
  OBVIOUS
<1> USE DEF Init, I2cInit
<1>1. hw \in Hardware /\ hw.bus = "idle" /\ hw.flag = "none"
  <2>1. <<>> \in Seq(WireEvents)
    OBVIOUS
  <2> QED
    BY <2>1 DEF IdleBus, Hardware
<1>2. slot \in [Tasks -> Slot({I2CMaster})] /\ \A c \in Tasks : ~slot[c].pending
  BY DEF Slot, NoNotification
<1>3. I2cTypeOK
  <2>1. args \in [Tasks -> Seq(Transaction)] /\ currentTxns \in Seq(Transaction)
    OBVIOUS
  <2>2. currentTxn \in 0..Len(currentTxns)
    OBVIOUS
  <2> QED
    BY <1>1, <1>2, <2>1, <2>2 DEF I2cTypeOK, Codes
<1>4. OneOnBus /\ NotifiedWaiting /\ Served
  BY <1>2, I2cAssumption DEF OneOnBus, NotifiedWaiting, Served, I2cAssumption, Nobody
<1>5. InStep /\ FailuresRefused
  BY <1>1, <1>2 DEF InStep, Agree, FailuresRefused
<1>6. MuxTypeOK /\ MuxHeld /\ op \in [Tasks -> Operations \cup {NoOperation}]
  BY <1>3 DEF MuxTypeOK, MuxHeld, Channels, NoChannel
<1> QED
  BY <1>3, <1>4, <1>5, <1>6 DEF DriverSafe, BusSafe

\* Whatever the tasks ask and the devices refuse, the driver and the hardware stay in
\* step, and every variable has its type.
THEOREM DriverIsSafe == Spec => []DriverSafe
BY DriverInit, DriverSafeStep, PTL DEF Spec

\* The interrupt handler is never called in a state that it does not expect, nor when no
\* task waits for the bus, for any lists of transactions.
THEOREM NoStrayInterrupt == Spec => []InterruptsExpected
<1>1. DriverSafe => InterruptsExpected
  <2> SUFFICES ASSUME BusSafe, hw.flag # "none"
               PROVE  InterruptsExpected
    BY DEF InterruptsExpected, DriverSafe
  <2>1. InProgress /\ hw.flag \in {"MB", "SB"}
    BY InterruptContext
  <2>2. Agree
    BY DEF BusSafe, InStep
  <2> QED
    BY <2>1, <2>2 DEF InProgress, Agree, FirstByte, InterruptsExpected
<1> QED
  BY <1>1, DriverIsSafe, PTL

\* A call that fails was refused by a device, and has released the bus for the others.
THEOREM FailuresAreClean == Spec => []FailedCleanly
<1>1. DriverSafe => FailedCleanly
  BY DEF DriverSafe, BusSafe, FailuresRefused, Refused, FailedCleanly
<1> QED
  BY <1>1, DriverIsSafe, PTL

-----------------------------------------------------------------------------
(* The channel that is selected *)

\* While direct selections have the switch to themselves, at most one task has written
\* to it, and meanwhile no other is using it.
LEMMA WrittenAlone ==
  ASSUME SwitchSafe, NEW c \in Tasks, NEW d \in Tasks, c # d, Written(c)
  PROVE  at[d] \notin {"check", "select", "selected", "transfer"} /\ ~Written(d)
<1>1. \/ at[c] \in {"select", "unlock"} /\ muxLock = c
      \/ at[c] = "publish" /\ Selecting(c)
  BY DEF SwitchSafe, DriverSafe, MuxHeld, Written, Selecting
<1>2. at[d] \in {"check", "select", "selected", "transfer", "unlock"} => muxLock = d
  BY DEF SwitchSafe, DriverSafe, MuxHeld
<1>3. CASE muxLock = c /\ at[c] \in {"select", "unlock"}
  <2>1. at[d] # "publish"
    <3>1. at[d] = "publish" => Selecting(d)
      BY DEF SwitchSafe, DriverSafe, MuxHeld, Selecting
    <3> QED
      BY <1>3, <3>1 DEF SwitchSafe, SelectingAlone
  <2> QED
    BY <1>2, <1>3, <2>1 DEF Written
<1>4. CASE Selecting(c)
  BY <1>4 DEF SwitchSafe, SelectingAlone, Written
<1> QED
  BY <1>1, <1>3, <1>4

LEMMA SelectingStep ==
  ASSUME ~DirectOverlap, DriverSafe, SelectingAlone, [Next]_vars
  PROVE  SelectingAlone'
<1> USE OpTypes DEF SelectingAlone, Selecting, DriverSafe, MuxTypeOK, MuxHeld, Enter
<1>1. ASSUME NEW c \in Tasks, NEW o \in Operations, Call(c, o)
      PROVE  SelectingAlone'
  BY <1>1 DEF Call, Allowed
<1>2. ASSUME NEW c \in Tasks, NEW txns \in Direct, CallDevice(c, txns)
      PROVE  SelectingAlone'
  BY <1>2 DEF CallDevice
<1>3. ASSUME NEW c \in Tasks, MuxStep(c)
      PROVE  SelectingAlone'
  <2>1. at[c] # "idle" /\ \A d \in Tasks \ {c} : at'[d] = at[d] /\ op'[d] = op[d]
    BY <1>3 DEF MuxStep, TakeMuxLock, SendSelection, SendTransfer, SelectionDone,
                TransferDone, GiveMuxLock, PublishSelection, DeviceDone
  <2>2. op'[c] = op[c] \/ (at'[c] = "idle" /\ op'[c] = NoOperation)
    BY <1>3 DEF MuxStep, TakeMuxLock, SendSelection, SendTransfer, SelectionDone,
                TransferDone, GiveMuxLock, PublishSelection, DeviceDone
  <2>3. at'[c] = "idle" \/ at[c] # "device"
    BY <1>3 DEF MuxStep, TakeMuxLock, SendSelection, SendTransfer, SelectionDone,
                TransferDone, GiveMuxLock, PublishSelection, DeviceDone
  <2> QED
    BY <2>1, <2>2, <2>3
<1>4. CASE BusStep
  BY <1>4 DEF BusStep, muxVars
<1>5. CASE UNCHANGED vars
  BY <1>5 DEF vars, muxVars
<1> QED
  BY <1>1, <1>2, <1>3, <1>4, <1>5 DEF Next

\* The only transaction of a task that selects a channel.
LEMMA ControlContext ==
  ASSUME SwitchSafe, NEW c \in Tasks, at[c] = "select", InProgress, waiting = c
  PROVE  /\ InLastTxn /\ ~Txn.read /\ Txn.length = 1 /\ currentTxn = 0
         /\ \/ state = "SendAddress" /\ currentTxnOffset = 0
            \/ state = "WriteData" /\ currentTxnOffset = 1
<1>1. pc[c] = "wait" /\ ~slot[c].pending /\ currentTxns = args[c]
  BY Context DEF InProgress, SwitchSafe, DriverSafe
<1>2. /\ currentTxns = ControlWrite /\ currentTxn = 0
      /\ \/ state = "SendAddress" /\ currentTxnOffset = 0
         \/ state = "WriteData" /\ currentTxnOffset = 1
  BY <1>1 DEF SwitchSafe, WritesControl
<1>3. Len(ControlWrite) = 1 /\ ~ControlWrite[1].read /\ ControlWrite[1].length = 1
  <2> DEFINE w == OneByte(FALSE)
  <2>1. ControlWrite = <<w>> /\ ~w.read /\ w.length = 1
    BY DEF ControlWrite, OneByte
  <2> HIDE DEF w
  <2> QED
    BY <2>1
<1>4. Txn = ControlWrite[1] /\ InLastTxn
  BY <1>2, <1>3 DEF InLastTxn, Txn
<1> QED
  BY <1>2, <1>3, <1>4

\* What the interrupt handler does for a task that selects a channel: it sends the byte,
\* or it completes the call, with success only if the byte was acknowledged.
LEMMA ControlIrq ==
  ASSUME SwitchSafe, NEW c \in Tasks, at[c] = "select", waiting = c, IrqMasterOnBus
  PROVE  \/ /\ state = "SendAddress" /\ state' = "WriteData" /\ currentTxnOffset' = 1
            /\ currentTxn' = 0 /\ slot' = slot /\ hw'.flag = "none"
         \/ /\ slot'[c].pending
            /\ completion' = "ok" <=> state = "WriteData" /\ hw.flag = "MB" /\ ~hw.rxNack
<1>1. hw.flag # "none"
  BY DEF IrqMasterOnBus, AddressNacked, StartWriting, ReadOnlyByte, ReadFirstByte,
         WriteNextByte, WriteComplete, WriteNacked, ReadNextByte, ReadLastByte, Interrupt
<1>2. BusSafe /\ InProgress
  BY <1>1, InterruptContext DEF SwitchSafe, DriverSafe
<1>3. /\ InLastTxn /\ ~Txn.read /\ Txn.length = 1 /\ currentTxn = 0
      /\ \/ state = "SendAddress" /\ currentTxnOffset = 0
         \/ state = "WriteData" /\ currentTxnOffset = 1
  BY <1>2, ControlContext
<1>4. hw.flag # "SB"
  BY <1>2, <1>3 DEF BusSafe, InStep, Agree, FirstByte
<1>5. \A code : Complete(code) => slot'[c].pending /\ completion' = code
  BY DEF Complete, WithBits, SwitchSafe, DriverSafe, BusSafe, I2cTypeOK
<1>6. CASE AddressNacked
  BY <1>5, <1>6 DEF AddressNacked, Interrupt
<1>7. CASE StartWriting
  <2>1. /\ state = "SendAddress" /\ state' = "WriteData" /\ UNCHANGED <<slot, currentTxn>>
        /\ currentTxnOffset' = currentTxnOffset + 1
        /\ hw' = SendByte(hw, currentTxn, currentTxnOffset)
    BY <1>7 DEF StartWriting, Interrupt
  <2>2. hw'.flag = "none"
    BY <1>2, <2>1, Context, SendByteSound
  <2> QED
    BY <1>3, <2>1, <2>2
<1>8. CASE WriteNacked
  BY <1>5, <1>8 DEF WriteNacked, Interrupt
<1>9. CASE WriteComplete
  <2>1. Complete("ok") /\ state = "WriteData" /\ hw.flag = "MB" /\ ~hw.rxNack
    BY <1>3, <1>9 DEF WriteComplete, NextTransaction, Interrupt
  <2> QED
    BY <1>5, <2>1
<1>10. ~WriteNextByte
  BY <1>3 DEF WriteNextByte, Interrupt
<1>11. ~(ReadOnlyByte \/ ReadFirstByte \/ ReadNextByte \/ ReadLastByte)
  BY <1>4 DEF ReadOnlyByte, ReadFirstByte, ReadNextByte, ReadLastByte, Interrupt
<1> QED
  BY <1>6, <1>7, <1>8, <1>9, <1>10, <1>11 DEF IrqMasterOnBus

\* The steps on the bus other than an acknowledged byte neither make nor unmake a
\* selection, and do not change what a selecting task writes.
LEMMA BusKeepsControl ==
  ASSUME SwitchSafe, BusStep, ~ByteAccepted
  PROVE  WritesControl' /\ \A c \in Tasks : Written(c)' <=> Written(c)
<1>1. UNCHANGED muxVars /\ DriverSafe
  BY DEF BusStep, SwitchSafe
<1> SUFFICES ASSUME NEW c \in Tasks
             PROVE  /\ at[c] = "select" =>
                         /\ pc'[c] \in {"lock", "setup", "wait"} => args'[c] = ControlWrite
                         /\ pc'[c] = "wait" /\ ~slot'[c].pending =>
                              /\ currentTxn' = 0
                              /\ \/ state' = "SendAddress" /\ currentTxnOffset' = 0
                                 \/ state' = "WriteData" /\ currentTxnOffset' = 1
                    /\ Written(c)' <=> Written(c)
  BY <1>1 DEF WritesControl, muxVars
<1> USE DEF DriverSafe, BusSafe, I2cTypeOK
<1>2. ASSUME NEW d \in Tasks, TakeBusLock(d) \/ Setup(d) \/ Wake(d) \/ Release(d)
      PROVE  /\ at[c] = "select" =>
                  /\ pc'[c] \in {"lock", "setup", "wait"} => args'[c] = ControlWrite
                  /\ pc'[c] = "wait" /\ ~slot'[c].pending =>
                       /\ currentTxn' = 0
                       /\ \/ state' = "SendAddress" /\ currentTxnOffset' = 0
                          \/ state' = "WriteData" /\ currentTxnOffset' = 1
             /\ Written(c)' <=> Written(c)
  <2>1. \A e \in Tasks : e # d /\ pc[e] = "wait" => pc[d] \notin {"setup", "wait", "release"}
    BY <1>1 DEF OneOnBus
  <2>2. CASE TakeBusLock(d)
    BY <1>1, <2>2 DEF TakeBusLock, At, Goto, driverVars, muxVars, SwitchSafe, WritesControl,
                      Written
  <2>3. CASE Setup(d)
    <3>1. ~slot[d].pending
      BY <1>1, <2>3 DEF Setup, At, NotifiedWaiting
    <3>2. /\ pc[d] = "setup" /\ pc' = [pc EXCEPT ![d] = "wait"] /\ state' = "SendAddress"
          /\ currentTxn' = 0 /\ currentTxnOffset' = 0 /\ UNCHANGED <<args, result, slot>>
      BY <2>3 DEF Setup, At, Goto
    <3>3. CASE c = d
      BY <1>1, <3>1, <3>2, <3>3 DEF muxVars, SwitchSafe, WritesControl, Written
    <3>4. CASE c # d
      BY <1>1, <2>1, <3>2, <3>4 DEF muxVars, SwitchSafe, WritesControl, Written
    <3> QED
      BY <3>3, <3>4
  <2>4. CASE Wake(d)
    <3>1. /\ pc[d] = "wait" /\ slot[d].pending /\ pc' = [pc EXCEPT ![d] = "release"]
          /\ result' = [result EXCEPT ![d] = completion]
          /\ \A e \in Tasks : e # d => slot'[e] = slot[e]
          /\ UNCHANGED <<args, driverVars, hw>>
      BY <1>1, <2>4 DEF Wake, At, Goto
    <3>2. CASE c = d
      <4>1. pc'[c] = "release" /\ result'[c] = completion
        BY <1>1, <3>1, <3>2
      <4>2. Written(c) <=> at[c] = "select" /\ completion = "ok"
        BY <1>1, <3>1, <3>2 DEF Written, SwitchSafe, MuxHeld
      <4>3. Written(c)' <=> at[c] = "select" /\ completion = "ok"
        BY <1>1, <3>1, <3>2, <4>1 DEF Written, SwitchSafe, MuxHeld, muxVars
      <4> QED
        BY <4>1, <4>2, <4>3
    <3>3. CASE c # d
      BY <1>1, <2>1, <3>1, <3>3 DEF driverVars, muxVars, SwitchSafe, WritesControl, Written
    <3> QED
      BY <3>2, <3>3
  <2>5. CASE Release(d)
    BY <1>1, <2>1, <2>5 DEF Release, ForgetCall, At, Goto, muxVars, SwitchSafe, WritesControl,
                            Written
  <2> QED
    BY <1>2, <2>2, <2>3, <2>4, <2>5
<1>3. CASE IrqMasterOnBus
  <2>1. UNCHANGED <<pc, args, result, waiting>>
    BY <1>3 DEF IrqMasterOnBus, AddressNacked, StartWriting, ReadOnlyByte, ReadFirstByte,
                WriteNextByte, WriteComplete, WriteNacked, ReadNextByte, ReadLastByte
  <2>2. CASE at[c] = "select" /\ pc[c] = "wait"
    <3>1. waiting = c /\ ~slot[c].pending
      <4>1. hw.flag # "none"
        BY <1>3 DEF IrqMasterOnBus, AddressNacked, StartWriting, ReadOnlyByte, ReadFirstByte,
                    WriteNextByte, WriteComplete, WriteNacked, ReadNextByte, ReadLastByte,
                    Interrupt
      <4> QED
        BY <1>1, <2>2, <4>1, InterruptContext DEF OneOnBus, InProgress
    <3> QED
      BY <1>1, <1>3, <2>1, <2>2, <3>1, ControlIrq DEF SwitchSafe, WritesControl, Written, muxVars
  <2>3. CASE ~(at[c] = "select" /\ pc[c] = "wait")
    BY <1>1, <2>1, <2>3 DEF SwitchSafe, WritesControl, Written, muxVars
  <2> QED
    BY <2>2, <2>3
<1>4. CASE AddressSent \/ ByteRefused \/ ByteReceived
  <2>1. InProgress /\ UNCHANGED <<pc, args, result, slot, busLock, driverVars, stored>>
    BY <1>1, <1>4, HardwareContext DEF HardwareStep
  <2>2. hw.flag = "none"
    BY <1>1, <1>4 DEF AddressSent, ByteRefused, ByteReceived, Hardware
  <2>3. state = "WriteData" => hw'.flag # "MB" \/ hw'.rxNack
    BY <1>1, <1>4 DEF AddressSent, ByteRefused, ByteReceived, Hardware, InStep, Agree
  <2> QED
    BY <1>1, <2>1, <2>2, <2>3 DEF SwitchSafe, WritesControl, Written, muxVars, driverVars
<1> QED
  BY <1>2, <1>3, <1>4 DEF BusStep, PerformStep

\* The parts of SwitchSafe that are about the channel.
Selected == WritesControl /\ Remembered /\ OnOwnChannel

\* A task that selects nothing comes and goes.
LEMMA CallStep ==
  ASSUME SwitchSafe, DriverSafe',
         (\E c \in Tasks, o \in Operations : Call(c, o))
           \/ (\E c \in Tasks, txns \in Direct : CallDevice(c, txns))
  PROVE  Selected'
<1> USE DEF SwitchSafe, DriverSafe, MuxTypeOK
<1>1. PICK c \in Tasks :
        /\ at[c] = "idle" /\ pc[c] = "idle" /\ UNCHANGED <<activeBus, control>>
        /\ at'[c] \in {"lock", "device"}
        /\ \A d \in Tasks \ {c} : /\ at'[d] = at[d] /\ op'[d] = op[d]
                                  /\ pc'[d] = pc[d] /\ result'[d] = result[d]
                                  /\ args'[d] = args[d] /\ slot'[d] = slot[d]
        /\ UNCHANGED <<hw, state, completion, currentTxn, currentTxnOffset>>
  <2>1. ASSUME NEW c \in Tasks, NEW o \in Operations, Call(c, o)
        PROVE  /\ at[c] = "idle" /\ pc[c] = "idle" /\ UNCHANGED <<activeBus, control>>
               /\ at'[c] \in {"lock", "device"}
               /\ \A d \in Tasks \ {c} : /\ at'[d] = at[d] /\ op'[d] = op[d]
                                         /\ pc'[d] = pc[d] /\ result'[d] = result[d]
                                         /\ args'[d] = args[d] /\ slot'[d] = slot[d]
               /\ UNCHANGED <<hw, state, completion, currentTxn, currentTxnOffset>>
    BY <2>1 DEF Call, Enter, MuxHeld, i2cVars, driverVars
  <2>2. ASSUME NEW c \in Tasks, NEW txns \in Direct, CallDevice(c, txns)
        PROVE  /\ at[c] = "idle" /\ pc[c] = "idle" /\ UNCHANGED <<activeBus, control>>
               /\ at'[c] \in {"lock", "device"}
               /\ \A d \in Tasks \ {c} : /\ at'[d] = at[d] /\ op'[d] = op[d]
                                         /\ pc'[d] = pc[d] /\ result'[d] = result[d]
                                         /\ args'[d] = args[d] /\ slot'[d] = slot[d]
               /\ UNCHANGED <<hw, state, completion, currentTxn, currentTxnOffset>>
    BY <2>2 DEF CallDevice, Perform, Enter, MuxHeld, Goto, driverVars, BusSafe, I2cTypeOK
  <2> QED
    BY <2>1, <2>2
<1>2. \A d \in Tasks : Written(d)' <=> Written(d)
  BY <1>1 DEF Written
<1>3. WritesControl'
  BY <1>1 DEF WritesControl
<1>4. Remembered'
  BY <1>1, <1>2 DEF Remembered, Written
<1>5. OnOwnChannel'
  BY <1>1 DEF OnOwnChannel
<1> QED
  BY <1>3, <1>4, <1>5 DEF Selected

\* The switch driver's own steps outside the real bus.
LEMMA NoteStep ==
  ASSUME SwitchSafe, DriverSafe', NEW c \in Tasks,
         \/ TakeMuxLock(c) \/ SelectionDone(c) \/ TransferDone(c) \/ DeviceDone(c)
         \/ GiveMuxLock(c) \/ PublishSelection(c)
  PROVE  Selected'
<1> USE DEF SwitchSafe, DriverSafe, MuxTypeOK, Enter
<1>1. /\ UNCHANGED <<pc, args, result, slot, hw, state, completion, currentTxn,
                     currentTxnOffset, control>>
      /\ \A d \in Tasks \ {c} : at'[d] = at[d] /\ op'[d] = op[d]
  BY DEF TakeMuxLock, SelectionDone, TransferDone, DeviceDone, GiveMuxLock, PublishSelection,
         i2cVars, driverVars
<1>2. \A d \in Tasks \ {c} : Written(d)' <=> Written(d)
  BY <1>1 DEF Written
<1>3. /\ at'[c] \notin {"select", "transfer"}
      /\ WritesControl' /\ MuxTypeOK'
  BY <1>1 DEF TakeMuxLock, SelectionDone, TransferDone, DeviceDone, GiveMuxLock,
              PublishSelection, WritesControl
<1>4. OnOwnChannel'
  <2>1. \A d \in Tasks \ {c} : at'[d] = "transfer" /\ op'[d].do = "transfer" =>
                                 control' = op'[d].channel
    BY <1>1 DEF OnOwnChannel
  <2> QED
    BY <1>3, <2>1 DEF OnOwnChannel
<1>5. CASE TakeMuxLock(c) \/ TransferDone(c) \/ DeviceDone(c)
  <2>1. /\ UNCHANGED <<op, activeBus>> /\ at[c] \in {"lock", "transfer", "device"}
        /\ at'[c] \in {"check", "unlock", "idle"}
        /\ at'[c] = "unlock" => at[c] = "transfer"
    BY <1>5 DEF TakeMuxLock, TransferDone, DeviceDone
  <2>2. op[c].do # "select" \/ at'[c] # "unlock"
    BY <2>1 DEF MuxHeld
  <2>3. ~Written(c) /\ ~Written(c)'
    BY <2>1, <2>2 DEF Written
  <2>4. Remembered'
    BY <1>1, <1>2, <2>1, <2>3 DEF Remembered
  <2> QED
    BY <1>3, <1>4, <2>4 DEF Selected
<1>6. CASE SelectionDone(c)
  <2>1. /\ at[c] = "select" /\ pc[c] = "idle" /\ UNCHANGED op
        /\ op[c].do \in {"select", "transfer"}
        /\ \/ /\ op[c].do = "transfer" /\ result[c] = "ok"
              /\ activeBus' = op[c].channel /\ at'[c] = "selected"
           \/ /\ op[c].do = "select" \/ result[c] # "ok"
              /\ activeBus' = activeBus /\ at'[c] = "unlock"
    BY <1>6 DEF SelectionDone, MuxHeld
  <2>2. Written(c) <=> result[c] = "ok"
    BY <2>1 DEF Written
  <2>3. Written(c)' <=> op[c].do = "select" /\ result[c] = "ok"
    BY <1>1, <2>1 DEF Written
  <2>4. \A d \in Tasks \ {c} : at[d] # "selected"
    BY <2>1 DEF MuxHeld
  <2>5. Written(c) => \A d \in Tasks \ {c} : ~Written(d)
    BY WrittenAlone
  <2>6. Remembered'
    <3>1. (\A d \in Tasks : ~Written(d)') => activeBus' = control'
      BY <1>1, <1>2, <2>1, <2>2, <2>3 DEF Remembered
    <3>2. \A d \in Tasks : Written(d)' => control' = op'[d].channel
      BY <1>1, <1>2, <2>1, <2>2, <2>3 DEF Remembered
    <3>3. \A d \in Tasks : at'[d] = "publish" => result'[d] = "ok"
      BY <1>1, <2>1 DEF Remembered
    <3>4. \A d \in Tasks : at'[d] = "selected" => activeBus' = op'[d].channel
      BY <1>1, <2>1, <2>4
    <3> QED
      BY <3>1, <3>2, <3>3, <3>4 DEF Remembered
  <2> QED
    BY <1>3, <1>4, <2>6 DEF Selected
<1>7. CASE GiveMuxLock(c)
  <2>1. /\ at[c] = "unlock" /\ UNCHANGED activeBus
        /\ \/ /\ op[c].do = "select" /\ result[c] = "ok"
              /\ at'[c] = "publish" /\ op'[c] = op[c]
           \/ ~(op[c].do = "select" /\ result[c] = "ok") /\ at'[c] = "idle"
    BY <1>7 DEF GiveMuxLock
  <2>2. Written(c) <=> op[c].do = "select" /\ result[c] = "ok"
    BY <2>1 DEF Written
  <2>3. Written(c)' <=> op[c].do = "select" /\ result[c] = "ok"
    BY <1>1, <2>1 DEF Written
  <2>4. Remembered'
    <3>1. (\A d \in Tasks : ~Written(d)') => activeBus' = control'
      BY <1>1, <1>2, <2>1, <2>2, <2>3 DEF Remembered
    <3>2. \A d \in Tasks : Written(d)' => control' = op'[d].channel
      BY <1>1, <1>2, <2>1, <2>2, <2>3 DEF Remembered
    <3>3. \A d \in Tasks : at'[d] = "publish" => result'[d] = "ok"
      BY <1>1, <2>1 DEF Remembered
    <3>4. \A d \in Tasks : at'[d] = "selected" => activeBus' = op'[d].channel
      BY <1>1, <2>1 DEF Remembered
    <3> QED
      BY <3>1, <3>2, <3>3, <3>4 DEF Remembered
  <2> QED
    BY <1>3, <1>4, <2>4 DEF Selected
<1>8. CASE PublishSelection(c)
  <2>1. at[c] = "publish" /\ activeBus' = op[c].channel /\ at'[c] = "idle"
    BY <1>8 DEF PublishSelection
  <2>2. Written(c) /\ ~Written(c)' /\ op[c].do = "select"
    BY <2>1 DEF Remembered, MuxHeld, Written
  <2>3. \A d \in Tasks \ {c} : ~Written(d) /\ at[d] # "selected"
    BY <2>2, WrittenAlone
  <2>4. control = op[c].channel
    BY <2>2 DEF Remembered
  <2>5. Remembered'
    BY <1>1, <1>2, <2>1, <2>2, <2>3, <2>4 DEF Remembered
  <2> QED
    BY <1>3, <1>4, <2>5 DEF Selected
<1> QED
  BY <1>5, <1>6, <1>7, <1>8

\* The switch driver passes transactions to the real bus: for the switch, or, when the
\* channel is the right one, for a device behind it.
LEMMA SendStep ==
  ASSUME SwitchSafe, DriverSafe', NEW c \in Tasks, SendSelection(c) \/ SendTransfer(c)
  PROVE  Selected'
<1> USE DEF SwitchSafe, DriverSafe, MuxTypeOK, Enter
<1>1. /\ UNCHANGED <<op, slot, hw, state, completion, currentTxn, currentTxnOffset, control,
                     activeBus>>
      /\ at[c] \in {"check", "selected"} /\ pc[c] = "idle"
      /\ at' = [at EXCEPT ![c] = IF SendSelection(c) THEN "select" ELSE "transfer"]
      /\ \A d \in Tasks \ {c} : pc'[d] = pc[d] /\ args'[d] = args[d] /\ result'[d] = result[d]
  BY DEF SendSelection, SendTransfer, Perform, At, Goto, driverVars, BusSafe, I2cTypeOK
<1>2. \A d \in Tasks \ {c} : at'[d] = at[d] /\ (Written(d)' <=> Written(d))
  BY <1>1 DEF Written
<1>3. ~Written(c)
  BY <1>1 DEF Written
<1>4. CASE SendSelection(c)
  <2>1. \/ pc'[c] = "lock" /\ args'[c] = ControlWrite
        \/ pc'[c] = "idle" /\ result'[c] = "Invalid"
    BY <1>1, <1>4 DEF SendSelection, Perform, Goto, BusSafe, I2cTypeOK
  <2>2. at'[c] = "select" /\ ~Written(c)'
    BY <1>1, <1>4, <2>1 DEF Written
  <2>3. WritesControl'
    BY <1>1, <1>2, <2>1 DEF WritesControl
  <2>4. Remembered'
    BY <1>1, <1>2, <1>3, <2>2 DEF Remembered
  <2>5. OnOwnChannel'
    BY <1>1, <1>2, <2>2 DEF OnOwnChannel
  <2> QED
    BY <2>3, <2>4, <2>5 DEF Selected
<1>5. CASE ~SendSelection(c)
  <2>1. SendTransfer(c) /\ at'[c] = "transfer"
    BY <1>1, <1>5
  <2>2. op[c].do = "transfer" => activeBus = op[c].channel
    BY <2>1 DEF SendTransfer, NeedsSelection
  <2>3. \A d \in Tasks : ~Written(d)
    BY <1>1, <1>3, WrittenAlone
  <2>4. activeBus = control
    BY <2>3 DEF Remembered
  <2>5. ~Written(c)' /\ WritesControl'
    BY <1>1, <1>2, <2>1 DEF Written, WritesControl
  <2>6. Remembered'
    BY <1>1, <1>2, <1>3, <2>1, <2>5 DEF Remembered
  <2>7. OnOwnChannel'
    BY <1>1, <1>2, <2>1, <2>2, <2>4 DEF OnOwnChannel
  <2> QED
    BY <2>5, <2>6, <2>7 DEF Selected
<1> QED
  BY <1>4, <1>5

\* A byte that is acknowledged is a step of the hardware and of nothing else, so the
\* switch takes it for what it is.
LEMMA SwitchObeys ==
  ASSUME DriverSafe, BusStep, ByteAccepted
  PROVE  control' = IF at[waiting] = "select" THEN op[waiting].channel ELSE control
<1>1. /\ hw \in Hardware /\ hw.bus = "send" /\ hw.flag = "none" /\ ~hw'.rxNack
      /\ pc \in [Tasks -> {"idle", "lock", "setup", "wait", "release"}] /\ UNCHANGED pc
  BY DEF ByteAccepted, DriverSafe, BusSafe, I2cTypeOK, Hardware
<1>2. ASSUME NEW c \in Tasks, PerformStep(c)
      PROVE  FALSE
  BY <1>1, <1>2 DEF PerformStep, TakeBusLock, Setup, Wake, Release, At, Goto
<1>3. ~IrqMasterOnBus
  BY <1>1 DEF IrqMasterOnBus, AddressNacked, StartWriting, ReadOnlyByte, ReadFirstByte,
    WriteNextByte, WriteComplete, WriteNacked, ReadNextByte, ReadLastByte, Interrupt
<1>4. ~AddressSent /\ ~ByteReceived
  BY <1>1 DEF AddressSent, ByteReceived
<1>5. ~ByteRefused
  BY <1>1 DEF ByteRefused, Hardware
<1> QED
  BY <1>2, <1>3, <1>4, <1>5 DEF BusStep

\* On the real bus, the switch obeys the byte that it acknowledges.
LEMMA ObeyStep ==
  ASSUME SwitchSafe, DriverSafe', BusStep
  PROVE  Selected'
<1> USE DEF SwitchSafe, DriverSafe, MuxTypeOK
<1>1. CASE ~ByteAccepted
  <2>1. UNCHANGED muxVars /\ WritesControl' /\ \A c \in Tasks : Written(c)' <=> Written(c)
    BY <1>1, BusKeepsControl DEF BusStep
  <2>2. \A c \in Tasks : at[c] = "publish" => result'[c] = result[c]
    <3>1. (\E c \in Tasks : PerformStep(c)) \/ IrqMasterOnBus \/ HardwareStep
      BY <1>1 DEF BusStep, HardwareStep
    <3> QED
      BY <3>1, BusFrame DEF MuxHeld
  <2>3. Remembered'
    BY <2>1, <2>2 DEF Remembered, muxVars
  <2>4. OnOwnChannel'
    BY <2>1 DEF OnOwnChannel, muxVars
  <2> QED
    BY <2>1, <2>3, <2>4 DEF Selected
<1>2. CASE ByteAccepted
  <2>1. /\ InProgress /\ UNCHANGED <<pc, args, result, slot, busLock, driverVars, stored>>
        /\ hw.bus = "send" /\ hw.flag = "none" /\ hw'.flag = "MB" /\ ~hw'.rxNack
        /\ state = "WriteData" /\ waiting \in Tasks /\ pc[waiting] = "wait"
    <3>1. InProgress /\ UNCHANGED <<pc, args, result, slot, busLock, driverVars, stored>>
      BY <1>2, HardwareContext DEF HardwareStep
    <3>2. hw.bus = "send" /\ hw.flag = "none" /\ hw'.flag = "MB" /\ ~hw'.rxNack
      BY <1>2 DEF ByteAccepted, BusSafe, I2cTypeOK, Hardware
    <3>3. state = "WriteData"
      BY <3>2 DEF BusSafe, InStep, Agree
    <3> QED
      BY <3>1, <3>2, <3>3, Context
  <2>a. PICK w \in Tasks : w = waiting
    BY <2>1
  <2>2. UNCHANGED <<at, op, activeBus>>
    BY <1>2 DEF BusStep, muxVars, ByteAccepted, PerformStep
  <2>3. WritesControl'
    BY <2>1, <2>2 DEF WritesControl, driverVars
  <2>4. \A c \in Tasks \ {w} : Written(c)' <=> Written(c)
    <3>1. \A c \in Tasks \ {w} : pc[c] # "wait"
      BY <2>a DEF BusSafe, OneOnBus
    <3> QED
      BY <2>1, <2>2, <3>1 DEF Written, driverVars
  <2>5. ~Written(w)
    BY <2>a, <2>1 DEF Written, InProgress, MuxHeld
  <2>6. CASE at[w] = "select"
    <3>1. Written(w)'
      BY <2>a, <2>1, <2>2, <2>6 DEF Written, driverVars, InProgress
    <3>2. control' = op[w].channel
      BY <1>2, <2>a, <2>6, SwitchObeys
    <3>3. \A c \in Tasks \ {w} : ~Written(c) /\ at[c] \notin {"selected", "transfer"}
      <4>1. \A c \in Tasks : Written(c) => c = w
        BY <2>a, <2>1, <2>5, <2>6, WrittenAlone
      <4> QED
        BY <2>a, <2>1, <2>6, <4>1 DEF MuxHeld
    <3>4. Remembered'
      <4>1. (\A c \in Tasks : ~Written(c)') => activeBus' = control'
        BY <2>1, <3>1
      <4>2. \A c \in Tasks : Written(c)' => control' = op'[c].channel
        BY <2>2, <2>4, <3>2, <3>3
      <4>3. \A c \in Tasks : at'[c] = "publish" => result'[c] = "ok"
        BY <2>1, <2>2 DEF Remembered
      <4>4. \A c \in Tasks : at'[c] = "selected" => activeBus' = op'[c].channel
        BY <2>2 DEF Remembered
      <4> QED
        BY <4>1, <4>2, <4>3, <4>4 DEF Remembered
    <3>5. OnOwnChannel'
      BY <2>1, <2>2, <2>6, <3>3 DEF OnOwnChannel
    <3> QED
      BY <2>3, <3>4, <3>5 DEF Selected
  <2>7. CASE at[w] # "select"
    <3>1. control' = control
      BY <1>2, <2>a, <2>7, SwitchObeys
    <3>2. ~Written(w)'
      <4>1. at[w] \notin {"unlock", "publish"}
        BY <2>a, <2>1 DEF MuxHeld
      <4> QED
        BY <2>2, <2>7, <4>1 DEF Written
    <3>3. Remembered'
      <4>1. \A c \in Tasks : Written(c)' <=> Written(c)
        BY <2>4, <2>5, <3>2
      <4> QED
        BY <2>1, <2>2, <3>1, <4>1 DEF Remembered
    <3>4. OnOwnChannel'
      BY <2>2, <3>1 DEF OnOwnChannel
    <3> QED
      BY <2>3, <3>3, <3>4 DEF Selected
  <2> QED
    BY <2>6, <2>7
<1> QED
  BY <1>1, <1>2

LEMMA SwitchSafeStep ==
  ASSUME ~DirectOverlap, SwitchSafe, [Next]_vars
  PROVE  SwitchSafe'
<1>1. DriverSafe' /\ SelectingAlone'
  BY DriverSafeStep, SelectingStep DEF SwitchSafe
<1>2. Selected'
  <2>1. CASE (\E c \in Tasks, o \in Operations : Call(c, o))
               \/ (\E c \in Tasks, txns \in Direct : CallDevice(c, txns))
    BY <1>1, <2>1, CallStep
  <2>2. ASSUME NEW c \in Tasks, MuxStep(c)
        PROVE  Selected'
    BY <1>1, <2>2, NoteStep, SendStep DEF MuxStep
  <2>3. CASE BusStep
    BY <1>1, <2>3, ObeyStep
  <2>4. CASE UNCHANGED vars
    <3>1. \A c \in Tasks : Written(c)' <=> Written(c)
      BY <2>4 DEF Written, vars, muxVars, i2cVars, driverVars
    <3>2. WritesControl' /\ OnOwnChannel'
      BY <1>1, <2>4 DEF SwitchSafe, WritesControl, OnOwnChannel, DriverSafe, vars, muxVars,
                        i2cVars, driverVars
    <3>3. Remembered'
      BY <2>4, <3>1 DEF SwitchSafe, Remembered, vars, muxVars, i2cVars
    <3> QED
      BY <3>2, <3>3 DEF Selected
  <2> QED
    BY <2>1, <2>2, <2>3, <2>4 DEF Next
<1> QED
  BY <1>1, <1>2 DEF SwitchSafe, Selected

LEMMA SwitchInit == Init => SwitchSafe
<1> SUFFICES ASSUME Init PROVE SwitchSafe
  OBVIOUS
<1>1. DriverSafe
  BY DriverInit
<1>2. \A c \in Tasks : at[c] = "idle" /\ activeBus = control
  BY DEF Init
<1>3. \A c \in Tasks : ~Written(c)
  BY <1>2 DEF Written
<1>4. SelectingAlone /\ WritesControl /\ OnOwnChannel
  BY <1>1, <1>2 DEF SelectingAlone, Selecting, WritesControl, OnOwnChannel, DriverSafe
<1>5. Remembered
  BY <1>2, <1>3 DEF Remembered, Init
<1> QED
  BY <1>1, <1>4, <1>5 DEF SwitchSafe

\* While direct selections have the switch to themselves, what the driver remembers of
\* the switch is what the switch has obeyed, also after selections that failed.
THEOREM MemoryIsTrue ==
  ASSUME ~DirectOverlap
  PROVE  Spec => []SwitchSafe
BY SwitchInit, SwitchSafeStep, PTL DEF Spec

\* Then whatever a downstream bus puts on the wire reaches the devices of its own channel.
THEOREM TransfersOnOwnChannel ==
  ASSUME ~DirectOverlap
  PROVE  Spec => []OnOwnChannel
<1>1. SwitchSafe => OnOwnChannel
  BY DEF SwitchSafe
<1> QED
  BY <1>1, MemoryIsTrue, PTL

-----------------------------------------------------------------------------
(* Induction over the natural numbers, and FlattenSeq *)

LEMMA LeastElement ==
  ASSUME NEW T, T \subseteq Nat, T # {}
  PROVE  \E x \in T : \A y \in T : x <= y
<1> DEFINE Below == {ss \in Nat \X Nat : ss[1] < ss[2]}
<1>1. IsWellFoundedOn(Below, Nat)
  BY NatLessThanWellFounded DEF OpToRel
<1>2. PICK x \in T : \A y \in T : <<y, x>> \notin Below
  BY <1>1, WFMin, Zenon
<1>3. ASSUME NEW y \in T PROVE x <= y
  <2>1. x \in Nat /\ y \in Nat /\ <<y, x>> \in Nat \X Nat
    OBVIOUS
  <2>2. ~(y < x)
    BY <1>2, <2>1
  <2> QED
    BY <2>1, <2>2
<1> QED
  BY <1>2, <1>3

\* Induction, for a set in place of a predicate.
LEMMA NatSetInduction ==
  ASSUME NEW S, 0 \in S, \A n \in Nat : n \in S => n + 1 \in S
  PROVE  Nat \subseteq S
<1> SUFFICES ASSUME Nat \ S # {} PROVE FALSE
  OBVIOUS
<1>1. PICK x \in Nat \ S : \A y \in Nat \ S : x <= y
  BY LeastElement
<1>2. x - 1 \in Nat /\ x - 1 \in S
  BY <1>1
<1> QED
  BY <1>1, <1>2

\* The beginnings that FlattenSeq goes through, for the first n of a sequence.
Flattens(f, s, n) ==
  f = [i \in 1..n |-> IF i = 1 THEN s[i] ELSE f[i - 1] \o s[i]]

LEMMA FlattensAt ==
  ASSUME NEW f, NEW s, NEW n \in Nat, Flattens(f, s, n), NEW i \in 1..n
  PROVE  f[i] = IF i = 1 THEN s[i] ELSE f[i - 1] \o s[i]
<1> DEFINE body(j) == IF j = 1 THEN s[j] ELSE f[j - 1] \o s[j]
<1>1. f = [j \in 1..n |-> body(j)]
  BY DEF Flattens
<1> HIDE DEF body
<1>2. f[i] = body(i)
  BY <1>1
<1> QED
  BY <1>2 DEF body

LEMMA FlattensExists ==
  ASSUME NEW s
  PROVE  \A n \in Nat : \E f : Flattens(f, s, n)
<1> DEFINE S == {n \in Nat : \E f : Flattens(f, s, n)}
<1>1. 0 \in S
  <2> DEFINE f == [i \in 1..0 |-> <<>>]
  <2>1. Flattens(f, s, 0)
    BY DEF Flattens
  <2> QED
    BY <2>1
<1>2. ASSUME NEW n \in Nat, n \in S PROVE n + 1 \in S
  <2>1. PICK f : Flattens(f, s, n)
    BY <1>2
  <2> DEFINE g == [i \in 1..n + 1 |-> IF i <= n THEN f[i]
                                      ELSE IF i = 1 THEN s[i] ELSE f[n] \o s[i]]
  <2>2. \A i \in 1..n + 1 : g[i] = IF i = 1 THEN s[i] ELSE g[i - 1] \o s[i]
    <3> SUFFICES ASSUME NEW i \in 1..n + 1
                 PROVE  g[i] = IF i = 1 THEN s[i] ELSE g[i - 1] \o s[i]
      OBVIOUS
    <3>1. CASE i <= n
      <4>1. f[i] = IF i = 1 THEN s[i] ELSE f[i - 1] \o s[i]
        BY <2>1, <3>1, FlattensAt
      <4>2. g[i] = f[i] /\ (i # 1 => g[i - 1] = f[i - 1])
        BY <3>1
      <4> QED
        BY <4>1, <4>2
    <3>2. CASE i = n + 1
      BY <3>2
    <3> QED
      BY <3>1, <3>2
  <2>3. g = [i \in 1..n + 1 |-> g[i]]
    OBVIOUS
  <2> HIDE DEF g
  <2>4. Flattens(g, s, n + 1)
    BY <2>2, <2>3 DEF Flattens
  <2> QED
    BY <2>4
<1>3. Nat \subseteq S
  <2> HIDE DEF S
  <2> QED
    BY <1>1, <1>2, NatSetInduction
<1> QED
  BY <1>3

\* They are the same for a longer sequence that begins in the same way.
LEMMA FlattensAgree ==
  ASSUME NEW E, NEW s, NEW t, NEW f, NEW g, NEW n \in Nat, NEW m \in Nat, n <= m,
         \A i \in 1..n : t[i] = s[i] /\ s[i] \in Seq(E),
         Flattens(f, s, n), Flattens(g, t, m)
  PROVE  \A i \in 1..n : f[i] \in Seq(E) /\ g[i] = f[i]
<1> DEFINE S == {k \in Nat : k + 1 <= n => f[k + 1] \in Seq(E) /\ g[k + 1] = f[k + 1]}
<1>1. ASSUME NEW i \in 1..n
      PROVE  /\ f[i] = IF i = 1 THEN s[i] ELSE f[i - 1] \o s[i]
             /\ g[i] = IF i = 1 THEN s[i] ELSE g[i - 1] \o s[i]
             /\ s[i] \in Seq(E)
  <2>1. i \in 1..m /\ t[i] = s[i] /\ s[i] \in Seq(E)
    OBVIOUS
  <2>2. f[i] = IF i = 1 THEN s[i] ELSE f[i - 1] \o s[i]
    BY FlattensAt
  <2>3. g[i] = IF i = 1 THEN t[i] ELSE g[i - 1] \o t[i]
    BY <2>1, FlattensAt
  <2> QED
    BY <2>1, <2>2, <2>3
<1>2. 0 \in S
  <2>1. 1 <= n => 1 \in 1..n
    OBVIOUS
  <2>2. 1 <= n => f[1] \in Seq(E) /\ g[1] = f[1]
    BY <1>1, <2>1
  <2> QED
    BY <2>2
<1>3. ASSUME NEW k \in Nat, k \in S PROVE k + 1 \in S
  <2> SUFFICES ASSUME k + 2 <= n
               PROVE  f[k + 2] \in Seq(E) /\ g[k + 2] = f[k + 2]
    OBVIOUS
  <2>1. k + 1 \in 1..n /\ k + 2 \in 1..n /\ k + 2 # 1 /\ k + 2 - 1 = k + 1
    OBVIOUS
  <2>2. f[k + 1] \in Seq(E) /\ g[k + 1] = f[k + 1]
    BY <1>3, <2>1
  <2>3. f[k + 2] = f[k + 1] \o s[k + 2] /\ g[k + 2] = g[k + 1] \o s[k + 2] /\ s[k + 2] \in Seq(E)
    <3>1. PICK i \in 1..n : i = k + 2
      BY <2>1
    <3>2. i - 1 = k + 1 /\ i # 1
      BY <3>1
    <3>3. /\ f[i] = IF i = 1 THEN s[i] ELSE f[i - 1] \o s[i]
          /\ g[i] = IF i = 1 THEN s[i] ELSE g[i - 1] \o s[i]
          /\ s[i] \in Seq(E)
      BY <1>1, Zenon
    <3> QED
      BY <3>1, <3>2, <3>3, Zenon
  <2>4. f[k + 1] \o s[k + 2] \in Seq(E)
    BY <2>2, <2>3
  <2> QED
    BY <2>2, <2>3, <2>4
<1>4. Nat \subseteq S
  <2> HIDE DEF S
  <2> QED
    BY <1>2, <1>3, NatSetInduction
<1> QED
  <2> SUFFICES ASSUME NEW i \in 1..n PROVE f[i] \in Seq(E) /\ g[i] = f[i]
    OBVIOUS
  <2>1. i - 1 \in S /\ i - 1 + 1 = i /\ i <= n
    <3> HIDE DEF S
    <3> QED
      BY <1>4
  <2> QED
    BY <2>1

\* What FlattenSeq returns, one more sequence at a time.
LEMMA FlattenLast ==
  ASSUME NEW E, NEW s \in Seq(Seq(E)), s # <<>>
  PROVE  \E f : Flattens(f, s, Len(s)) /\ FlattenSeq(s) = f[Len(s)]
<1>1. Len(s) \in Nat /\ Len(s) # 0
  OBVIOUS
<1>2. FlattenSeq(s) = (CHOOSE f : Flattens(f, s, Len(s)))[Len(s)]
  BY <1>1, Zenon DEF FlattenSeq, Flattens
<1>3. \E f : Flattens(f, s, Len(s))
  BY <1>1, FlattensExists
<1> QED
  BY <1>2, <1>3, Zenon

ExtendsBy(q, r, x, E) == q \in Seq(E) /\ r = q \o x

Longer(s, t, n, m, E) ==
  /\ n \in Nat /\ m \in Nat /\ n # 0 /\ m = n + 1
  /\ \A i \in 1..n : t[i] = s[i] /\ s[i] \in Seq(E)

LEMMA FlattensOneMore ==
  ASSUME NEW E, NEW s, NEW t, NEW f, NEW g, NEW n, NEW m, Longer(s, t, n, m, E),
         Flattens(f, s, n), Flattens(g, t, m)
  PROVE  ExtendsBy(f[n], g[m], t[m], E)
<1>1. n \in Nat /\ m \in Nat /\ \A i \in 1..n : t[i] = s[i] /\ s[i] \in Seq(E)
  BY DEF Longer
<1>2. n <= m /\ n \in 1..n /\ m \in 1..m /\ m # 1 /\ m - 1 = n
  BY DEF Longer
<1>3. \A i \in 1..n : f[i] \in Seq(E) /\ g[i] = f[i]
  BY <1>1, <1>2, FlattensAgree
<1>4. g[m] = IF m = 1 THEN t[m] ELSE g[m - 1] \o t[m]
  <2>1. m \in Nat /\ m \in 1..m
    BY <1>1, <1>2
  <2> QED
    BY <2>1, FlattensAt
<1> QED
  BY <1>2, <1>3, <1>4 DEF ExtendsBy

Flattened(q, s, n) == \E f : Flattens(f, s, n) /\ q = f[n]

LEMMA FlattenLonger ==
  ASSUME NEW E, NEW s, NEW t, NEW n, NEW m, NEW q, NEW r, Longer(s, t, n, m, E),
         Flattened(q, s, n), Flattened(r, t, m)
  PROVE  ExtendsBy(q, r, t[m], E)
<1>1. PICK f : Flattens(f, s, n) /\ q = f[n]
  BY DEF Flattened
<1>2. PICK g : Flattens(g, t, m) /\ r = g[m]
  BY DEF Flattened
<1>3. Flattens(f, s, n) /\ Flattens(g, t, m)
  BY <1>1, <1>2
<1>4. ExtendsBy(f[n], g[m], t[m], E)
  BY <1>3, FlattensOneMore
<1> QED
  BY <1>1, <1>2, <1>4

LEMMA FlattenOneMore ==
  ASSUME NEW E, NEW s \in Seq(Seq(E)), NEW t \in Seq(Seq(E)), Longer(s, t, Len(s), Len(t), E)
  PROVE  FlattenSeq(s) \in Seq(E) /\ FlattenSeq(t) = FlattenSeq(s) \o t[Len(t)]
<1>1. s # <<>> /\ t # <<>>
  BY DEF Longer
<1>2. Flattened(FlattenSeq(s), s, Len(s)) /\ Flattened(FlattenSeq(t), t, Len(t))
  BY <1>1, FlattenLast DEF Flattened
<1> QED
  BY <1>2, FlattenLonger DEF ExtendsBy

LEMMA FlattenOne ==
  ASSUME NEW E, NEW x \in Seq(E)
  PROVE  FlattenSeq(<<x>>) = x
<1> DEFINE s == <<x>>
<1>1. s \in Seq(Seq(E)) /\ s # <<>> /\ Len(s) = 1 /\ s[1] = x
  OBVIOUS
<1> HIDE DEF s
<1>2. PICK f : Flattens(f, s, 1) /\ FlattenSeq(s) = f[1]
  BY <1>1, FlattenLast
<1>3. f[1] = IF 1 = 1 THEN s[1] ELSE f[1 - 1] \o s[1]
  BY <1>2, FlattensAt
<1> QED
  BY <1>1, <1>2, <1>3 DEF s

LEMMA FlattenAppend ==
  ASSUME NEW E, NEW s \in Seq(Seq(E)), NEW x \in Seq(E)
  PROVE  /\ FlattenSeq(<<>>) = <<>>
         /\ FlattenSeq(s) \in Seq(E)
         /\ FlattenSeq(Append(s, x)) = FlattenSeq(s) \o x
<1>1. FlattenSeq(<<>>) = <<>>
  BY DEF FlattenSeq
<1>2. CASE s = <<>>
  <2>1. Append(s, x) = <<x>> /\ <<>> \o x = x /\ <<>> \in Seq(E)
    BY <1>2
  <2> QED
    BY <1>1, <1>2, <2>1, FlattenOne
<1>3. CASE s # <<>>
  <2>1. /\ Append(s, x) \in Seq(Seq(E)) /\ Len(Append(s, x)) = Len(s) + 1
        /\ Append(s, x)[Len(s) + 1] = x /\ \A i \in 1..Len(s) : Append(s, x)[i] = s[i]
    OBVIOUS
  <2>2. Longer(s, Append(s, x), Len(s), Len(Append(s, x)), E)
    BY <1>3, <2>1 DEF Longer
  <2>3. FlattenSeq(s) \in Seq(E)
        /\ FlattenSeq(Append(s, x)) = FlattenSeq(s) \o Append(s, x)[Len(Append(s, x))]
    BY <2>1, <2>2, FlattenOneMore, Zenon
  <2> QED
    BY <1>1, <2>1, <2>3
<1> QED
  BY <1>2, <1>3

-----------------------------------------------------------------------------
(* Sequences, one more element at a time *)

LEMMA OneIsAppended ==
  ASSUME NEW S, NEW s \in Seq(S), NEW e \in S
  PROVE  /\ s \o <<e>> = Append(s, e) /\ s \o <<>> = s /\ <<>> \o s = s
         /\ <<>> \in Seq(S) /\ <<e>> \in Seq(S)
OBVIOUS

\* A sequence, of which another has all but the last element.
LEMMA OneMoreElement ==
  ASSUME NEW S, NEW m \in Nat, NEW s \in [1..m -> S], NEW l \in [1..m + 1 -> S],
         \A k \in 1..m : s[k] = l[k]
  PROVE  /\ s \in Seq(S) /\ l \in Seq(S)
         /\ l = Append(s, l[m + 1])
<1>1. s \in Seq(S) /\ Len(s) = m
  BY SeqDef
<1>2. l \in Seq(S) /\ Len(l) = m + 1 /\ l[m + 1] \in S
  <2>1. m + 1 \in Nat /\ m + 1 \in 1..m + 1
    OBVIOUS
  <2> QED
    BY <2>1, SeqDef
<1> DEFINE r == Append(s, l[m + 1])
<1>3. r \in Seq(S) /\ Len(r) = m + 1 /\ r[m + 1] = l[m + 1] /\ \A k \in 1..m : r[k] = s[k]
  BY <1>1, <1>2
<1>4. \A k \in 1..m + 1 : l[k] = r[k]
  BY <1>3
<1> HIDE DEF r
<1>5. l = r
  BY <1>2, <1>3, <1>4, SeqEqual
<1> QED
  BY <1>1, <1>2, <1>5 DEF r

-----------------------------------------------------------------------------
(* What is on the wire *)

LEMMA ElementTypes ==
  ASSUME NEW txns \in Seq(Transaction), NEW i \in 1..Len(txns)
  PROVE  /\ txns[i] \in Transaction /\ txns[i].length \in Nat /\ txns[i].read \in BOOLEAN
         /\ Lead(txns, i) \in Seq(WireEvents) /\ Trail(txns, i) \in Seq(WireEvents)
         /\ \A k \in Nat \ {0} : ByteOnWire(txns, i, k) \in WireEvents
<1>1. txns[i] \in Transaction /\ txns[i].length \in Nat /\ txns[i].read \in BOOLEAN
  <2>1. txns[i] \in Transaction
    OBVIOUS
  <2> QED
    BY <2>1 DEF Transaction
<1>2. Lead(txns, i) \in Seq(WireEvents) /\ Trail(txns, i) \in Seq(WireEvents)
  <2>1. PICK start \in WireEvents, stop \in WireEvents :
          start = START(txns[i].read) /\ stop = STOP
    BY <1>1, WireTypes
  <2>2. Lead(txns, i) = <<>> \/ Lead(txns, i) = <<start>>
    BY <2>1, Zenon DEF Lead
  <2>4. Trail(txns, i) = <<>> \/ Trail(txns, i) = <<stop>>
    BY <2>1, Zenon DEF Trail
  <2>3. <<>> \in Seq(WireEvents) /\ <<start>> \in Seq(WireEvents) /\ <<stop>> \in Seq(WireEvents)
    OBVIOUS
  <2> QED
    BY <2>2, <2>3, <2>4
<1>3. ASSUME NEW k \in Nat \ {0}
      PROVE  ByteOnWire(txns, i, k) \in WireEvents
  <2>1. i - 1 \in Nat /\ k - 1 \in Nat /\ (k # txns[i].length) \in BOOLEAN
    OBVIOUS
  <2> QED
    BY <1>1, <2>1, WireTypes DEF ByteOnWire
<1> QED
  BY <1>1, <1>2, <1>3

LEMMA BegunBytes ==
  ASSUME NEW txns \in Seq(Transaction), NEW i \in 1..Len(txns), NEW m \in Nat
  PROVE  /\ Begun(txns, i, 0) = Lead(txns, i)
         /\ Begun(txns, i, m) \in Seq(WireEvents)
         /\ Begun(txns, i, m + 1) = Append(Begun(txns, i, m), ByteOnWire(txns, i, m + 1))
<1>1. Lead(txns, i) \in Seq(WireEvents) /\ \A k \in Nat \ {0} : ByteOnWire(txns, i, k) \in WireEvents
  BY ElementTypes
<1>2. Begun(txns, i, 0) = Lead(txns, i)
  <2>1. [k \in 1..0 |-> ByteOnWire(txns, i, k)] = <<>>
    OBVIOUS
  <2> QED
    BY <1>1, <2>1, OneIsAppended DEF Begun
<1> DEFINE s == [k \in 1..m |-> ByteOnWire(txns, i, k)]
           l == [k \in 1..m + 1 |-> ByteOnWire(txns, i, k)]
<1>3. /\ s \in [1..m -> WireEvents] /\ l \in [1..m + 1 -> WireEvents]
      /\ \A k \in 1..m : s[k] = l[k]
      /\ l[m + 1] = ByteOnWire(txns, i, m + 1)
  BY <1>1
<1>4. Begun(txns, i, m) = Lead(txns, i) \o s /\ Begun(txns, i, m + 1) = Lead(txns, i) \o l
  BY DEF Begun
<1> HIDE DEF s, l
<1>5. s \in Seq(WireEvents) /\ l = Append(s, l[m + 1])
  BY <1>3, OneMoreElement
<1>6. PICK b \in WireEvents : b = l[m + 1]
  BY <1>3
<1>7. PICK h \in Seq(WireEvents) : h = Lead(txns, i)
  BY <1>1
<1>8. h \o s \in Seq(WireEvents) /\ h \o Append(s, b) = Append(h \o s, b)
  <2>1. Append(s, b) = s \o <<b>> /\ <<b>> \in Seq(WireEvents) /\ h \o s \in Seq(WireEvents)
    BY <1>5, OneIsAppended, ConcatProperties
  <2>2. h \o (s \o <<b>>) = (h \o s) \o <<b>>
    BY <1>5, <2>1, ConcatAssociative
  <2> QED
    BY <2>1, <2>2, OneIsAppended
<1> QED
  BY <1>2, <1>3, <1>4, <1>5, <1>6, <1>7, <1>8

LEMMA PartTypes ==
  ASSUME NEW txns \in Seq(Transaction), NEW i \in 1..Len(txns)
  PROVE  Part(txns, i) \in Seq(WireEvents)
<1>1. txns[i].length \in Nat /\ Trail(txns, i) \in Seq(WireEvents)
  BY ElementTypes
<1>2. Begun(txns, i, txns[i].length) \in Seq(WireEvents)
  BY <1>1, BegunBytes
<1> QED
  BY <1>1, <1>2, ConcatProperties DEF Part

LEMMA DoneOneMore ==
  ASSUME NEW txns \in Seq(Transaction), NEW n \in Nat, n < Len(txns)
  PROVE  /\ Done(txns, 0) = <<>>
         /\ Done(txns, n) \in Seq(WireEvents)
         /\ Done(txns, n + 1) = Done(txns, n) \o Part(txns, n + 1)
<1> DEFINE s == [i \in 1..n |-> Part(txns, i)]
           l == [i \in 1..n + 1 |-> Part(txns, i)]
           E == Seq(WireEvents)
<1>1. \A i \in 1..n + 1 : Part(txns, i) \in E
  <2> SUFFICES ASSUME NEW i \in 1..n + 1 PROVE Part(txns, i) \in E
    OBVIOUS
  <2>1. i \in 1..Len(txns)
    OBVIOUS
  <2> QED
    BY <2>1, PartTypes
<1> HIDE DEF E
<1>2. /\ s \in [1..n -> E] /\ l \in [1..n + 1 -> E]
      /\ \A i \in 1..n : s[i] = l[i]
      /\ l[n + 1] = Part(txns, n + 1) /\ Part(txns, n + 1) \in E
  BY <1>1
<1>3. Done(txns, n) = FlattenSeq(s) /\ Done(txns, n + 1) = FlattenSeq(l)
  BY DEF Done
<1>4. Done(txns, 0) = FlattenSeq(<<>>)
  <2>1. [i \in 1..0 |-> Part(txns, i)] = <<>>
    OBVIOUS
  <2> QED
    BY <2>1 DEF Done
<1> HIDE DEF s, l
<1>5. s \in Seq(E) /\ l = Append(s, Part(txns, n + 1))
  BY <1>2, OneMoreElement
<1>6. PICK x \in Seq(WireEvents) : x = Part(txns, n + 1)
  BY <1>2 DEF E
<1>7. /\ FlattenSeq(<<>>) = <<>> /\ FlattenSeq(s) \in Seq(WireEvents)
      /\ FlattenSeq(Append(s, x)) = FlattenSeq(s) \o x
  BY <1>5, FlattenAppend DEF E
<1> QED
  BY <1>3, <1>4, <1>5, <1>6, <1>7

LEMMA WireGrows ==
  ASSUME NEW txns \in Seq(Transaction), NEW n \in Nat, n < Len(txns), NEW m \in Nat
  PROVE  /\ Wire(txns, n, m) \in Seq(WireEvents)
         /\ Wire(txns, n, m + 1) = Append(Wire(txns, n, m), ByteOnWire(txns, n + 1, m + 1))
         /\ Wire(txns, n, 0) =
              IF txns[n + 1].continuation /\ txns[n + 1].skipRestart THEN Done(txns, n)
              ELSE Append(Done(txns, n), START(txns[n + 1].read))
<1>1. n + 1 \in 1..Len(txns)
  OBVIOUS
<1>2. PICK d \in Seq(WireEvents) : d = Done(txns, n)
  BY DoneOneMore
<1>3. PICK b \in Seq(WireEvents), e \in WireEvents :
        /\ b = Begun(txns, n + 1, m) /\ e = ByteOnWire(txns, n + 1, m + 1)
        /\ Begun(txns, n + 1, m + 1) = Append(b, e)
        /\ Begun(txns, n + 1, 0) = Lead(txns, n + 1)
  <2>1. PICK i \in 1..Len(txns), k \in Nat \ {0} : i = n + 1 /\ k = m + 1
    BY <1>1
  <2>2. ByteOnWire(txns, i, k) \in WireEvents
    BY ElementTypes
  <2>3. /\ Begun(txns, i, m) \in Seq(WireEvents) /\ Begun(txns, i, 0) = Lead(txns, i)
        /\ Begun(txns, i, m + 1) = Append(Begun(txns, i, m), ByteOnWire(txns, i, m + 1))
    BY BegunBytes
  <2> QED
    BY <2>1, <2>2, <2>3
<1>4. PICK start \in WireEvents : start = START(txns[n + 1].read)
  BY <1>1, ElementTypes, WireTypes
<1>5. d \o b \in Seq(WireEvents) /\ d \o Append(b, e) = Append(d \o b, e)
  <2>1. Append(b, e) = b \o <<e>> /\ <<e>> \in Seq(WireEvents) /\ d \o b \in Seq(WireEvents)
    BY OneIsAppended, ConcatProperties
  <2>2. d \o (b \o <<e>>) = (d \o b) \o <<e>>
    BY <2>1, ConcatAssociative
  <2> QED
    BY <2>1, <2>2, OneIsAppended
<1>6. d \o <<>> = d /\ d \o <<start>> = Append(d, start)
  BY OneIsAppended
<1>7. Wire(txns, n, 0) = d \o Lead(txns, n + 1)
  BY <1>2, <1>3 DEF Wire
<1>8. Wire(txns, n, m) = d \o b /\ Wire(txns, n, m + 1) = d \o Append(b, e)
  BY <1>2, <1>3 DEF Wire
<1>9. Wire(txns, n, 0) = IF txns[n + 1].continuation /\ txns[n + 1].skipRestart THEN d
                         ELSE Append(d, start)
  BY <1>4, <1>6, <1>7, Zenon DEF Lead
<1> QED
  BY <1>2, <1>3, <1>4, <1>5, <1>8, <1>9

LEMMA WireOver ==
  ASSUME NEW txns \in Seq(Transaction), NEW n \in Nat, n < Len(txns)
  PROVE  /\ Done(txns, 0) = <<>>
         /\ Done(txns, n) \in Seq(WireEvents)
         /\ Done(txns, n + 1) =
              IF n + 1 < Len(txns) /\ txns[n + 2].continuation THEN Wire(txns, n, txns[n + 1].length)
              ELSE Append(Wire(txns, n, txns[n + 1].length), STOP)
<1>1. n + 1 \in 1..Len(txns) /\ n + 1 + 1 = n + 2
  OBVIOUS
<1>2. PICK m \in Nat : m = txns[n + 1].length
  BY <1>1, ElementTypes
<1>3. PICK d \in Seq(WireEvents), b \in Seq(WireEvents), stop \in WireEvents :
        d = Done(txns, n) /\ b = Begun(txns, n + 1, m) /\ stop = STOP
  BY <1>1, DoneOneMore, BegunBytes, WireTypes
<1>4. Done(txns, 0) = <<>> /\ Done(txns, n + 1) = d \o (b \o Trail(txns, n + 1))
  BY <1>2, <1>3, DoneOneMore DEF Part
<1>5. Trail(txns, n + 1) = IF n + 1 < Len(txns) /\ txns[n + 2].continuation THEN <<>> ELSE <<stop>>
  BY <1>1, <1>3, Zenon DEF Trail
<1>6. Wire(txns, n, txns[n + 1].length) = d \o b
  BY <1>2, <1>3 DEF Wire
<1>7. d \o (b \o <<>>) = d \o b /\ d \o (b \o <<stop>>) = Append(d \o b, stop)
  <2>1. b \o <<>> = b /\ <<stop>> \in Seq(WireEvents) /\ d \o b \in Seq(WireEvents)
    BY OneIsAppended, ConcatProperties
  <2>2. d \o (b \o <<stop>>) = (d \o b) \o <<stop>>
    BY <2>1, ConcatAssociative
  <2> QED
    BY <2>1, <2>2, OneIsAppended
<1> QED
  BY <1>3, <1>4, <1>5, <1>6, <1>7, Zenon

LEMMA BytesReceived ==
  ASSUME NEW i \in Nat, NEW n \in Nat
  PROVE  Bytes(i, 0) = {} /\ Bytes(i, n + 1) = Bytes(i, n) \cup {<<i - 1, n, n + 1>>}
<1>1. Bytes(i, 0) = {}
  BY DEF Bytes
<1>2. 1..n + 1 = 1..n \cup {n + 1}
  OBVIOUS
<1>3. Bytes(i, n + 1) = Bytes(i, n) \cup {<<i - 1, n + 1 - 1, n + 1>>}
  BY <1>2 DEF Bytes
<1>4. n + 1 - 1 = n
  OBVIOUS
<1> QED
  BY <1>1, <1>3, <1>4

LEMMA ReceivedOneMore ==
  ASSUME NEW txns \in Seq(Transaction), NEW n \in Nat
  PROVE  /\ ReceivedIn(txns, 0) = {}
         /\ ReceivedIn(txns, n + 1) =
              ReceivedIn(txns, n) \cup
                (IF txns[n + 1].read THEN Bytes(n + 1, txns[n + 1].length) ELSE {})
<1>1. ReceivedIn(txns, 0) = {}
  <2>1. {j \in 1..0 : txns[j].read} = {}
    OBVIOUS
  <2> QED
    BY <2>1 DEF ReceivedIn
<1> DEFINE r(k) == {j \in 1..k : txns[j].read}
<1>2. r(n + 1) = r(n) \cup (IF txns[n + 1].read THEN {n + 1} ELSE {})
  OBVIOUS
<1>3. ReceivedIn(txns, n) = UNION {Bytes(i, txns[i].length) : i \in r(n)}
      /\ ReceivedIn(txns, n + 1) = UNION {Bytes(i, txns[i].length) : i \in r(n + 1)}
  BY DEF ReceivedIn
<1> HIDE DEF r
<1>4. QED
  BY <1>1, <1>2, <1>3

-----------------------------------------------------------------------------
(* Register accesses, and what they put on the wire *)

LEMMA RegistersKeepWire ==
  ASSUME NEW h, Sound(h)
  PROVE  /\ h.wire \in Seq(WireEvents) /\ h.rx \in Nat
         /\ \A ack : SetAck(h, ack).wire = h.wire /\ SetAck(h, ack).rx = h.rx
         /\ TakeByte(h).wire = h.wire /\ TakeByte(h).rx = h.rx
         /\ Stop(h).rx = h.rx /\ Stop(h).ackAct = h.ackAct
         /\ h.bus = "idle" => Stop(h) = h
         /\ \A i, k : /\ SendByte(h, i, k).wire = Append(h.wire, WRITE(i, k))
                      /\ SendByte(h, i, k).rx = h.rx
         /\ \A b : /\ Address(h, b).wire = Append(h.wire, START(b))
                   /\ Address(h, b).rx = 0
BY DEF Sound, Hardware, SetAck, TakeByte, Stop, SendByte, Address

\* What the beginning of a transaction puts on the wire.
LEMMA BeginWire ==
  ASSUME NEW h, Sound(h), NEW txn \in Transaction, NEW stop \in BOOLEAN
  PROVE  LET r == BeginTransaction(h, txn, stop)
         IN  IF txn.continuation /\ txn.skipRestart
             THEN r.wire = h.wire /\ r.flag = h.flag /\ r.bus = h.bus /\ r.rxNack = h.rxNack
             ELSE /\ r.bus = "address" /\ r.flag = "none" /\ r.rx = 0
                  /\ r.wire = Append(IF stop /\ ~txn.continuation /\ h.bus # "idle"
                                     THEN Append(h.wire, STOP) ELSE h.wire, START(txn.read))
<1> DEFINE released == IF stop /\ ~txn.continuation THEN Stop(h) ELSE h
           ack == IF txn.read /\ txn.length = 1 THEN "NACK" ELSE "ACK"
           ready == SetAck(released, ack)
<1>1. /\ Sound(released)
      /\ released.wire = IF stop /\ ~txn.continuation /\ h.bus # "idle"
                         THEN Append(h.wire, STOP) ELSE h.wire
  BY StopSound, RegistersKeepWire
<1>2. Sound(ready) /\ ready.wire = released.wire
  BY <1>1, SetAckSound, RegistersKeepWire
<1>3. CASE txn.continuation /\ txn.skipRestart
  <2>1. BeginTransaction(h, txn, stop) = SetAck(h, ack) /\ ack \in {"ACK", "NACK"}
    BY <1>3 DEF BeginTransaction
  <2> HIDE DEF ack
  <2> QED
    BY <1>3, <2>1, SetAckSound, RegistersKeepWire
<1>4. CASE ~(txn.continuation /\ txn.skipRestart)
  <2>1. BeginTransaction(h, txn, stop) = Address(ready, txn.read)
    BY <1>4 DEF BeginTransaction
  <2>2. txn.read \in BOOLEAN
    BY DEF Transaction
  <2> HIDE DEF ready, released
  <2>3. /\ Address(ready, txn.read).bus = "address" /\ Address(ready, txn.read).flag = "none"
        /\ Address(ready, txn.read).rx = 0
        /\ Address(ready, txn.read).wire = Append(ready.wire, START(txn.read))
    BY <1>2, <2>2, AddressSound, RegistersKeepWire
  <2> QED
    BY <1>1, <1>2, <1>4, <2>1, <2>3
<1> QED
  BY <1>3, <1>4

LEMMA FirstWire ==
  ASSUME NEW h, Sound(h), NEW txn \in Transaction, ~txn.continuation
  PROVE  LET r == BeginTransaction(h, txn, FALSE)
         IN  /\ r.bus = "address" /\ r.flag = "none" /\ r.rx = 0
             /\ r.wire = Append(h.wire, START(txn.read))
<1>1. PICK ack \in {"ACK", "NACK"} :
        BeginTransaction(h, txn, FALSE) = Address(SetAck(h, ack), txn.read)
  BY DEF BeginTransaction
<1>2. PICK ready : ready = SetAck(h, ack) /\ Sound(ready) /\ ready.wire = h.wire
  BY SetAckSound, RegistersKeepWire
<1>3. /\ Address(ready, txn.read).wire = Append(h.wire, START(txn.read))
      /\ Address(ready, txn.read).rx = 0
  BY <1>2, RegistersKeepWire
<1>4. txn.read \in BOOLEAN
  BY DEF Transaction
<1>5. Address(ready, txn.read).bus = "address" /\ Address(ready, txn.read).flag = "none"
  BY <1>2, <1>4, AddressSound
<1> QED
  BY <1>1, <1>2, <1>3, <1>5

-----------------------------------------------------------------------------
(* A call that succeeds has been carried out *)

LEMMA CarriedContext ==
  ASSUME BusSafe, Carried, InProgress
  PROVE  /\ Progress /\ StoredSoFar /\ Supported(currentTxns)
         /\ currentTxn + 1 \in 1..Len(currentTxns) /\ currentTxn + 1 + 1 = currentTxn + 2
         /\ Txn.length \in Nat \ {0} /\ Txn.read \in BOOLEAN
         /\ InLastTxn <=> currentTxn + 1 = Len(currentTxns)
         /\ ~InLastTxn /\ Following.continuation =>
              /\ Txn.read => Txn.length = 1
              /\ Following.skipRestart => ~Txn.read /\ ~Following.read
<1>1. /\ waiting \in Tasks /\ pc[waiting] = "wait" /\ currentTxns = args[waiting]
      /\ currentTxns \in Seq(Transaction) /\ Txn \in Transaction
      /\ currentTxn \in Nat /\ currentTxn < Len(currentTxns)
  BY Context
<1>2. ValidRequest(currentTxns) /\ Supported(currentTxns) /\ Progress /\ StoredSoFar
  BY <1>1 DEF Carried, Admitted
<1>3. currentTxn + 1 \in 1..Len(currentTxns) /\ currentTxn + 1 + 1 = currentTxn + 2
  BY <1>1
<1>4. Txn.length \in Nat \ {0} /\ Txn.read \in BOOLEAN
  <2>1. Txn.length \in Nat /\ Txn.read \in BOOLEAN
    BY <1>1 DEF Transaction
  <2>2. Txn.length # 0
    BY <1>2, <1>3 DEF ValidRequest, Txn
  <2> QED
    BY <2>1, <2>2
<1>5. ~InLastTxn => currentTxn + 1 \in 1..Len(currentTxns) - 1
  BY <1>1 DEF InLastTxn
<1> QED
  BY <1>2, <1>3, <1>4, <1>5 DEF InLastTxn, Supported, Txn, Following

\* A step of the interrupt handler or of the hardware after which the call goes on.
LEMMA CarriedOn ==
  ASSUME BusSafe, Carried, InProgress,
         UNCHANGED <<pc, args, result, waiting, slot, completion>>,
         Progress', StoredSoFar'
  PROVE  Carried'
<1>1. Admitted'
  BY DEF Carried, Admitted
<1>2. Completed'
  BY Context DEF Completed, BusSafe, NotifiedWaiting, InProgress
<1> QED
  BY <1>1, <1>2 DEF Carried

\* A step of the interrupt handler that completes the call.
LEMMA CarriedOut ==
  ASSUME BusSafe, Carried, InProgress, UNCHANGED <<pc, args, result, waiting>>,
         NEW code, Complete(code),
         code = "ok" => /\ hw'.wire = Transcript(currentTxns)
                        /\ stored' = Received(currentTxns)
  PROVE  Carried'
<1>1. Admitted'
  BY DEF Carried, Admitted
<1>2. /\ slot'[waiting].pending /\ \A c \in Tasks : c # waiting => slot'[c] = slot[c]
      /\ completion' = code
  BY Context DEF BusSafe, I2cTypeOK, Complete, Slot, WithBits
<1>3. ~InProgress'
  BY <1>2 DEF InProgress
<1>4. Completed'
  <2> SUFFICES ASSUME NEW c \in Tasks,
                      \/ slot'[c].pending /\ completion' = "ok"
                      \/ pc'[c] = "release" /\ result'[c] = "ok"
               PROVE  hw'.wire = Transcript(args'[c]) /\ stored' = Received(args'[c])
    BY DEF Completed
  <2>1. pc[c] # "release"
    BY Context
  <2>2. slot'[c].pending /\ code = "ok"
    BY <1>2, <2>1
  <2>3. c = waiting
    BY <1>2, <2>2, Context DEF BusSafe, NotifiedWaiting
  <2> QED
    BY <2>2, <2>3, Context
<1> QED
  BY <1>1, <1>3, <1>4 DEF Carried

\* The wire when a transaction is over: the STOP has been sent, will be sent, or is not
\* wanted because the next one is a continuation.
LEMMA NextCarried ==
  ASSUME BusSafe, Carried, InProgress,
         UNCHANGED <<pc, args, result, waiting, currentTxns>>,
         NEW h, Sound(h), h.bus \in {"idle", "held"}, h.flag # "SB",
         h.flag = "MB" => ~h.rxNack,
         NEW stop \in BOOLEAN, InLastTxn => stop,
         IF h.bus = "idle"
         THEN /\ h.wire = Append(Wire(currentTxns, currentTxn, Txn.length), STOP)
              /\ ~InLastTxn => ~Following.continuation
         ELSE /\ h.wire = Wire(currentTxns, currentTxn, Txn.length)
              /\ ~InLastTxn => stop \/ Following.continuation,
         stored' = ReceivedIn(currentTxns, currentTxn + 1),
         NextTransaction(h, stop)
  PROVE  Carried'
<1> DEFINE n == currentTxn
           T == currentTxns
<1>1. /\ T \in Seq(Transaction) /\ n \in Nat /\ n < Len(T) /\ T[n + 1] = Txn
      /\ ~InLastTxn => n + 1 < Len(T) /\ Following \in Transaction /\ T[n + 2] = Following
  BY Context DEF Txn, Following
<1>2. /\ InLastTxn <=> n + 1 = Len(T)
      /\ ~InLastTxn /\ Following.continuation /\ Following.skipRestart => ~Following.read
  BY CarriedContext
<1>3. /\ Done(T, n + 1) = IF n + 1 < Len(T) /\ T[n + 2].continuation THEN Wire(T, n, Txn.length)
                          ELSE Append(Wire(T, n, Txn.length), STOP)
  BY <1>1, WireOver
<1>4. /\ h.bus = "idle" => /\ h.wire = Append(Wire(T, n, Txn.length), STOP)
                           /\ ~InLastTxn => ~Following.continuation
      /\ h.bus # "idle" => h.wire = Wire(T, n, Txn.length)
  OBVIOUS
<1> HIDE DEF n, T
<1>5. Done(T, n + 1) = IF h.bus # "idle" /\ (InLastTxn \/ ~Following.continuation)
                       THEN Append(h.wire, STOP) ELSE h.wire
  <2>1. (n + 1 < Len(T) /\ T[n + 2].continuation) <=> ~InLastTxn /\ Following.continuation
    BY <1>1, <1>2
  <2>2. CASE h.bus = "idle"
    BY <1>3, <1>4, <2>1, <2>2
  <2>3. CASE h.bus # "idle"
    BY <1>3, <1>4, <2>1, <2>3
  <2> QED
    BY <2>2, <2>3
<1>6. CASE InLastTxn
  <2>1. hw' = Stop(h) /\ Complete("ok")
    BY <1>6 DEF NextTransaction
  <2>2. hw'.wire = Done(T, n + 1)
    BY <1>5, <1>6, <2>1, StopSound, RegistersKeepWire
  <2>3. n + 1 = Len(T)
    BY <1>2, <1>6
  <2> QED
    BY <2>1, <2>2, <2>3, CarriedOut DEF Transcript, Received, n, T
<1>7. CASE ~InLastTxn
  <2>1. /\ state' = "SendAddress" /\ currentTxnOffset' = 0 /\ currentTxn' = n + 1
        /\ hw' = BeginTransaction(h, Following, stop) /\ UNCHANGED <<completion, slot>>
    BY <1>7 DEF NextTransaction, n
  <2>2. n + 1 \in Nat /\ n + 1 < Len(T) /\ n + 1 + 1 = n + 2 /\ T[n + 2] = Following
    BY <1>1, <1>7
  <2>3. Txn' = Following
    BY <2>1, <2>2 DEF Txn, T
  <2>4. IF Following.continuation /\ Following.skipRestart
        THEN hw'.wire = h.wire /\ hw'.flag = h.flag /\ hw'.bus = h.bus /\ hw'.rxNack = h.rxNack
        ELSE /\ hw'.bus = "address" /\ hw'.flag = "none" /\ hw'.rx = 0
             /\ hw'.wire = Append(IF stop /\ ~Following.continuation /\ h.bus # "idle"
                                  THEN Append(h.wire, STOP) ELSE h.wire,
                                  START(Following.read))
    BY <1>1, <1>7, <2>1, BeginWire
  <2>5. Wire(T, n + 1, 0) = IF Following.continuation /\ Following.skipRestart THEN Done(T, n + 1)
                            ELSE Append(Done(T, n + 1), START(Following.read))
    <3>1. PICK k \in Nat : k = n + 1
      BY <2>2
    <3>2. k < Len(T) /\ T[k + 1] = Following
      BY <2>2, <3>1
    <3>3. Wire(T, k, 0) = IF T[k + 1].continuation /\ T[k + 1].skipRestart THEN Done(T, k)
                          ELSE Append(Done(T, k), START(T[k + 1].read))
      BY <1>1, <3>2, WireGrows
    <3> QED
      BY <3>1, <3>2, <3>3
  <2>6. hw'.wire = Wire(T, n + 1, 0)
    <3>1. (IF stop /\ ~Following.continuation /\ h.bus # "idle"
           THEN Append(h.wire, STOP) ELSE h.wire) = Done(T, n + 1)
      BY <1>5, <1>7
    <3>2. Following.continuation => h.wire = Done(T, n + 1)
      BY <1>5, <1>7
    <3> QED
      BY <2>4, <2>5, <3>1, <3>2
  <2>7. OnWire(0)'
    BY <2>1, <2>6 DEF OnWire, T
  <2>8. Progress'
    <3>1. hw'.bus \in {"address", "idle", "held"} /\ hw'.flag \in {"none", "MB"}
      BY <2>4 DEF Sound, Hardware
    <3>2. hw'.bus = "address" => hw'.rx = 0 /\ hw'.flag = "none"
      BY <2>4
    <3>3. hw'.flag = "MB" => ~Following.read
      BY <1>2, <1>7, <2>4
    <3> QED
      BY <2>1, <2>3, <2>7, <3>1, <3>2, <3>3 DEF Progress
  <2>9. StoredSoFar'
    <3>1. Bytes(n + 2, 0) = {} /\ n + 2 \in Nat
      BY <1>1, BytesReceived
    <3> QED
      BY <2>1, <2>2, <3>1 DEF StoredSoFar, n
  <2> QED
    BY <2>1, <2>8, <2>9, CarriedOn
<1> QED
  BY <1>6, <1>7

LEMMA StoreReceived ==
  ASSUME BusSafe, Carried, InProgress, hw.flag = "SB", StoreByte
  PROVE  /\ Txn.read /\ currentTxnOffset < Txn.length
         /\ stored' = ReceivedIn(currentTxns, currentTxn)
                        \cup Bytes(currentTxn + 1, currentTxnOffset + 1)
         /\ currentTxnOffset + 1 = Txn.length =>
              stored' = ReceivedIn(currentTxns, currentTxn + 1)
<1>1. /\ Progress /\ StoredSoFar
      /\ currentTxns \in Seq(Transaction) /\ currentTxn \in Nat /\ currentTxnOffset \in Nat
  BY Context, CarriedContext
<1>2. Txn.read /\ currentTxnOffset < Txn.length /\ hw.rx = currentTxnOffset + 1
  BY <1>1 DEF Progress
<1>3. PICK i \in Nat, o \in Nat : i = currentTxn + 1 /\ o = currentTxnOffset
  BY <1>1
<1>4. i - 1 = currentTxn
  BY <1>1, <1>3
<1>5. Bytes(i, o + 1) = Bytes(i, o) \cup {<<i - 1, o, o + 1>>}
  BY BytesReceived
<1>6. stored' = ReceivedIn(currentTxns, currentTxn) \cup Bytes(i, o + 1)
  BY <1>1, <1>2, <1>3, <1>4, <1>5 DEF StoreByte, StoredSoFar
<1>7. ReceivedIn(currentTxns, currentTxn + 1) =
        ReceivedIn(currentTxns, currentTxn)
          \cup (IF Txn.read THEN Bytes(currentTxn + 1, Txn.length) ELSE {})
  BY <1>1, ReceivedOneMore DEF Txn
<1> QED
  BY <1>2, <1>3, <1>6, <1>7

\* One more byte is written.
LEMMA WriteCarried ==
  ASSUME BusSafe, Carried, InProgress,
         hw.flag = "MB", ~hw.rxNack, currentTxnOffset < Txn.length,
         hw' = SendByte(hw, currentTxn, currentTxnOffset),
         currentTxnOffset' = currentTxnOffset + 1, state' = "WriteData",
         UNCHANGED <<pc, args, result, slot, waiting, completion, currentTxns, currentTxn,
                     stored>>
  PROVE  Carried'
<1>1. /\ Progress /\ StoredSoFar /\ Sound(hw) /\ Txn.length \in Nat
      /\ currentTxns \in Seq(Transaction) /\ currentTxn \in Nat /\ currentTxn < Len(currentTxns)
      /\ currentTxnOffset \in Nat
  BY Context, CarriedContext
<1>2. ~Txn.read /\ hw.wire = Wire(currentTxns, currentTxn, currentTxnOffset)
  BY <1>1 DEF Progress, OnWire
<1>3. /\ hw'.flag = "none" /\ hw'.bus = "send"
      /\ hw'.wire = Append(hw.wire, WRITE(currentTxn, currentTxnOffset))
  <2>1. /\ SendByte(hw, currentTxn, currentTxnOffset).flag = "none"
        /\ SendByte(hw, currentTxn, currentTxnOffset).bus = "send"
    BY <1>1, SendByteSound
  <2>2. SendByte(hw, currentTxn, currentTxnOffset).wire
          = Append(hw.wire, WRITE(currentTxn, currentTxnOffset))
    BY <1>1, RegistersKeepWire
  <2> QED
    BY <2>1, <2>2
<1>4. ByteOnWire(currentTxns, currentTxn + 1, currentTxnOffset + 1)
        = WRITE(currentTxn, currentTxnOffset)
  <2>1. PICK i \in Nat, k \in Nat : i = currentTxn + 1 /\ k = currentTxnOffset + 1
    BY <1>1
  <2>2. ~currentTxns[i].read
    BY <1>2, <2>1 DEF Txn
  <2>3. ByteOnWire(currentTxns, i, k) = WRITE(i - 1, k - 1)
    BY <2>2 DEF ByteOnWire
  <2>4. i - 1 = currentTxn /\ k - 1 = currentTxnOffset
    BY <1>1, <2>1
  <2> QED
    BY <2>1, <2>3, <2>4
<1>5. hw'.wire = Wire(currentTxns, currentTxn, currentTxnOffset + 1)
  BY <1>1, <1>2, <1>3, <1>4, WireGrows
<1>6. Txn' = Txn
  BY DEF Txn
<1>7. OnWire(currentTxnOffset)'
  BY <1>5 DEF OnWire
<1>8. Progress'
  BY <1>1, <1>2, <1>3, <1>6, <1>7 DEF Progress
<1>9. StoredSoFar'
  BY <1>1, <1>2, <1>6 DEF StoredSoFar
<1> QED
  BY <1>8, <1>9, CarriedOn

\* One more byte is taken, and the answer to the next one chosen.
LEMMA ReadCarried ==
  ASSUME BusSafe, Carried, InProgress,
         hw.flag = "SB", StoreByte, currentTxnOffset + 1 # Txn.length,
         hw' = TakeByte(SetAck(hw, IF Txn.length = currentTxnOffset + 2 THEN "NACK" ELSE "ACK")),
         currentTxnOffset' = currentTxnOffset + 1, state' = "ReadData",
         UNCHANGED <<pc, args, result, slot, waiting, completion, currentTxns, currentTxn>>
  PROVE  Carried'
<1>1. /\ Progress /\ StoredSoFar /\ Sound(hw) /\ Txn.length \in Nat
      /\ currentTxns \in Seq(Transaction) /\ currentTxn \in Nat
      /\ currentTxnOffset \in Nat
  BY Context, CarriedContext
<1>2. /\ Txn.read /\ hw.wire = Wire(currentTxns, currentTxn, currentTxnOffset + 1)
      /\ hw.acked /\ hw.rx = currentTxnOffset + 1 /\ hw.bus = "held"
      /\ currentTxnOffset + 1 < Txn.length
  BY <1>1 DEF Progress, OnWire, AckedUnlessLast, Sound
<1>3. PICK ack \in {"ACK", "NACK"} :
        /\ ack = "ACK" <=> currentTxnOffset + 2 # Txn.length
        /\ hw' = TakeByte(SetAck(hw, ack))
  OBVIOUS
<1>4. /\ Sound(SetAck(hw, ack)) /\ SetAck(hw, ack).ackAct = ack
      /\ SetAck(hw, ack).bus = "held" /\ SetAck(hw, ack).acked = hw.acked
      /\ SetAck(hw, ack).wire = hw.wire /\ SetAck(hw, ack).rx = hw.rx
  <2>1. SetAck(hw, ack).wire = hw.wire /\ SetAck(hw, ack).rx = hw.rx
    BY <1>1, RegistersKeepWire
  <2>2. /\ Sound(SetAck(hw, ack)) /\ SetAck(hw, ack).ackAct = ack
        /\ SetAck(hw, ack).bus = hw.bus /\ SetAck(hw, ack).acked = hw.acked
    BY <1>1, SetAckSound
  <2> QED
    BY <1>2, <2>1, <2>2
<1>5. /\ hw'.flag = "none" /\ hw'.bus = "receive" /\ hw'.ackAct = ack
      /\ hw'.wire = hw.wire /\ hw'.rx = hw.rx
  <2>1. PICK h : h = SetAck(hw, ack) /\ Sound(h)
    BY <1>4
  <2>2. TakeByte(h).wire = h.wire /\ TakeByte(h).rx = h.rx
    BY <2>1, RegistersKeepWire
  <2>3. /\ TakeByte(h).flag = "none" /\ TakeByte(h).ackAct = h.ackAct
        /\ TakeByte(h).bus = IF h.bus = "held" /\ h.acked THEN "receive" ELSE h.bus
    BY <2>1, TakeByteSound
  <2> QED
    BY <1>2, <1>3, <1>4, <2>1, <2>2, <2>3
<1>6. Txn' = Txn
  BY DEF Txn
<1>7. OnWire(currentTxnOffset)'
  BY <1>2, <1>5 DEF OnWire
<1>8. Progress'
  <2>1. AckedUnlessLast(hw.ackAct = "ACK")'
    BY <1>1, <1>3, <1>5, <1>6 DEF AckedUnlessLast
  <2> QED
    BY <1>1, <1>2, <1>5, <1>6, <1>7, <2>1 DEF Progress
<1>9. StoredSoFar'
  BY <1>2, <1>6, StoreReceived DEF StoredSoFar
<1> QED
  BY <1>8, <1>9, CarriedOn

\* The last byte of a read is taken from the device, which the bus is held for, or has
\* been released from.
LEMMA LastByteCarried ==
  ASSUME BusSafe, Carried, InProgress,
         UNCHANGED <<pc, args, result, waiting, currentTxns>>,
         hw.flag = "SB", StoreByte, currentTxnOffset + 1 = Txn.length,
         NEW h, Sound(h), h.flag = "none", NEW stop \in BOOLEAN, InLastTxn => stop,
         \/ /\ h.bus = "idle" /\ h.wire = Append(hw.wire, STOP)
            /\ ~InLastTxn => ~Following.continuation
         \/ h.bus = "held" /\ h.wire = hw.wire /\ ~InLastTxn /\ Following.continuation,
         NextTransaction(h, stop)
  PROVE  Carried'
<1>1. Progress
  BY CarriedContext
<1>2. hw.wire = Wire(currentTxns, currentTxn, Txn.length)
  BY <1>1 DEF Progress, OnWire
<1>3. stored' = ReceivedIn(currentTxns, currentTxn + 1)
  BY StoreReceived
<1>4. /\ h.bus \in {"idle", "held"} /\ h.flag # "SB" /\ (h.flag = "MB" => ~h.rxNack)
      /\ IF h.bus = "idle"
         THEN /\ h.wire = Append(Wire(currentTxns, currentTxn, Txn.length), STOP)
              /\ ~InLastTxn => ~Following.continuation
         ELSE /\ h.wire = Wire(currentTxns, currentTxn, Txn.length)
              /\ ~InLastTxn => stop \/ Following.continuation
  BY <1>2
<1> QED
  BY <1>3, <1>4, NextCarried

LEMMA IrqCarried ==
  ASSUME BusSafe, Carried, IrqMasterOnBus
  PROVE  Carried'
<1>1. hw.flag # "none"
  BY DEF IrqMasterOnBus, AddressNacked, StartWriting, ReadOnlyByte, ReadFirstByte,
         WriteNextByte, WriteComplete, WriteNacked, ReadNextByte, ReadLastByte, Interrupt
<1>2. InProgress /\ hw.bus = "held"
  BY <1>1, InterruptContext
<1>3. /\ Sound(hw) /\ Progress /\ StoredSoFar /\ Txn.length \in Nat \ {0}
      /\ currentTxn \in Nat /\ currentTxnOffset \in Nat /\ currentTxns \in Seq(Transaction)
      /\ hw.rxNack \in BOOLEAN
  BY <1>2, Context, CarriedContext DEF Sound, Hardware
<1>4. CASE AddressNacked \/ WriteNacked
  BY <1>2, <1>4, CarriedOut DEF AddressNacked, WriteNacked
<1>5. CASE StartWriting \/ WriteNextByte
  <2>1. currentTxnOffset < Txn.length
    BY <1>3, <1>5 DEF StartWriting, WriteNextByte, Interrupt, Progress
  <2> QED
    BY <1>2, <1>5, <2>1, WriteCarried DEF StartWriting, WriteNextByte, Interrupt
<1>6. CASE ReadFirstByte
  <2>1. currentTxnOffset = 0
    BY <1>3, <1>6 DEF ReadFirstByte, Interrupt, Progress
  <2>2. /\ hw' = TakeByte(SetAck(hw, IF Txn.length = currentTxnOffset + 2 THEN "NACK" ELSE "ACK"))
        /\ currentTxnOffset + 1 # Txn.length
    BY <1>6, <2>1 DEF ReadFirstByte
  <2> QED
    BY <1>2, <1>6, <2>2, ReadCarried DEF ReadFirstByte, Interrupt
<1>7. CASE ReadNextByte
  BY <1>2, <1>7, ReadCarried DEF ReadNextByte, Interrupt
<1>8. CASE WriteComplete
  <2>1. /\ hw.flag = "MB" /\ ~hw.rxNack /\ currentTxnOffset = Txn.length
        /\ NextTransaction(hw, TRUE)
        /\ UNCHANGED <<pc, args, result, waiting, currentTxns, stored>>
    BY <1>8 DEF WriteComplete, Interrupt
  <2>2. ~Txn.read /\ hw.wire = Wire(currentTxns, currentTxn, Txn.length)
    BY <1>3, <2>1 DEF Progress, OnWire
  <2>3. stored' = ReceivedIn(currentTxns, currentTxn + 1)
    <3>1. ReceivedIn(currentTxns, currentTxn + 1) = ReceivedIn(currentTxns, currentTxn)
      <4>1. ~currentTxns[currentTxn + 1].read
        BY <2>2 DEF Txn
      <4>2. /\ currentTxns \in Seq(Transaction) /\ currentTxn \in Nat
        BY <1>3
      <4>3. ReceivedIn(currentTxns, currentTxn + 1) =
              ReceivedIn(currentTxns, currentTxn) \cup
                (IF currentTxns[currentTxn + 1].read
                 THEN Bytes(currentTxn + 1, currentTxns[currentTxn + 1].length) ELSE {})
        BY <4>2, ReceivedOneMore
      <4> QED
        BY <4>1, <4>3
    <3> QED
      BY <1>3, <2>1, <2>2, <3>1 DEF StoredSoFar
  <2> QED
    BY <1>2, <1>3, <2>1, <2>2, <2>3, NextCarried
<1>9. CASE ReadLastByte
  <2>1. /\ hw.flag = "SB" /\ state = "ReadData" /\ StoreByte
        /\ currentTxnOffset + 1 = Txn.length
        /\ NextTransaction(TakeByte(Stop(SetAck(hw, "NACK"))), TRUE)
        /\ UNCHANGED <<pc, args, result, waiting, currentTxns>>
    BY <1>9 DEF ReadLastByte, Interrupt
  <2>2. ~InLastTxn => ~Following.continuation
    <3>1. Txn.length # 1 /\ Txn.read
      BY <1>3, <2>1 DEF Progress
    <3> QED
      BY <1>2, <3>1, CarriedContext
  <2>3. PICK g : /\ g = SetAck(hw, "NACK") /\ Sound(g) /\ g.bus = "held" /\ g.wire = hw.wire
    BY <1>2, <1>3, SetAckSound, RegistersKeepWire
  <2>4. PICK s : /\ s = Stop(g) /\ Sound(s) /\ s.bus = "idle" /\ s.flag = "none"
                 /\ s.wire = Append(hw.wire, STOP)
    BY <2>3, StopSound
  <2>5. PICK h : /\ h = TakeByte(s) /\ Sound(h) /\ h.bus = "idle" /\ h.flag = "none"
                 /\ h.wire = Append(hw.wire, STOP)
    BY <2>4, TakeByteSound, RegistersKeepWire
  <2>6. NextTransaction(h, TRUE)
    BY <2>1, <2>3, <2>4, <2>5
  <2> QED
    BY <1>2, <2>1, <2>2, <2>5, <2>6, LastByteCarried
<1>10. CASE ReadOnlyByte
  <2>1. /\ hw.flag = "SB" /\ state = "SendAddress" /\ StoreByte /\ Txn.length = 1
        /\ UNCHANGED <<pc, args, result, waiting, currentTxns>>
    BY <1>10 DEF ReadOnlyByte, Interrupt
  <2>2. /\ currentTxnOffset + 1 = Txn.length /\ ~hw.acked
        /\ hw.wire = Wire(currentTxns, currentTxn, Txn.length)
    <3>1. currentTxnOffset = 0
      BY <1>3, <2>1 DEF Progress
    <3> QED
      BY <1>3, <2>1, <3>1 DEF Progress, AckedUnlessLast, OnWire, Sound, Hardware
  <2>3. PICK s : /\ s = Stop(hw) /\ Sound(s) /\ s.bus = "idle" /\ s.flag = "none"
                 /\ s.wire = Append(hw.wire, STOP)
    BY <1>2, <1>3, StopSound
  <2>4. PICK t : /\ t = TakeByte(s) /\ Sound(t) /\ t.bus = "idle" /\ t.flag = "none"
                 /\ t.wire = Append(hw.wire, STOP)
    BY <2>3, TakeByteSound, RegistersKeepWire
  <2>5. CASE InLastTxn
    <3>1. hw' = t /\ Complete("ok")
      BY <1>10, <2>3, <2>4, <2>5 DEF ReadOnlyByte
    <3>2. hw'.wire = Done(currentTxns, currentTxn + 1)
      <4>1. currentTxn < Len(currentTxns) /\ Len(currentTxns) \in Nat
        BY <1>2, Context
      <4>2. Done(currentTxns, currentTxn + 1) =
              Append(Wire(currentTxns, currentTxn, Txn.length), STOP)
        <5>1. PICK n \in Nat : n = currentTxn /\ n < Len(currentTxns)
          BY <1>3, <4>1
        <5>2. n + 1 = Len(currentTxns) /\ currentTxns[n + 1] = Txn
          BY <2>5, <5>1 DEF InLastTxn, Txn
        <5>3. Done(currentTxns, n + 1) =
                IF n + 1 < Len(currentTxns) /\ currentTxns[n + 2].continuation
                THEN Wire(currentTxns, n, currentTxns[n + 1].length)
                ELSE Append(Wire(currentTxns, n, currentTxns[n + 1].length), STOP)
          BY <1>3, <5>1, WireOver
        <5> QED
          <6>1. ~(n + 1 < Len(currentTxns))
            BY <4>1, <5>2
          <6>2. Done(currentTxns, n + 1) = Append(Wire(currentTxns, n, Txn.length), STOP)
            BY <5>2, <5>3, <6>1, Zenon
          <6> QED
            BY <5>1, <6>2
      <4> QED
        BY <2>2, <2>4, <3>1, <4>2
    <3>3. stored' = ReceivedIn(currentTxns, currentTxn + 1)
      BY <1>2, <2>1, <2>2, StoreReceived
    <3> QED
      BY <1>2, <2>1, <2>5, <3>1, <3>2, <3>3, CarriedOut DEF InLastTxn, Transcript, Received
  <2>6. CASE ~InLastTxn
    <3>1. NextTransaction(TakeByte(IF Following.continuation THEN hw ELSE Stop(hw)), FALSE)
      BY <1>10, <2>6 DEF ReadOnlyByte
    <3>2. CASE Following.continuation
      <4>1. PICK h : /\ h = TakeByte(hw) /\ Sound(h) /\ h.bus = "held" /\ h.flag = "none"
                     /\ h.wire = hw.wire
        BY <1>2, <1>3, <2>2, TakeByteSound, RegistersKeepWire
      <4>2. NextTransaction(h, FALSE)
        BY <3>1, <3>2, <4>1
      <4> QED
        BY <1>2, <2>1, <2>2, <2>6, <3>2, <4>1, <4>2, LastByteCarried
    <3>3. CASE ~Following.continuation
      <4>1. NextTransaction(t, FALSE)
        BY <2>3, <2>4, <3>1, <3>3
      <4> QED
        BY <1>2, <2>1, <2>2, <2>4, <2>6, <3>3, <4>1, LastByteCarried
    <3> QED
      BY <3>2, <3>3
  <2> QED
    BY <2>5, <2>6
<1> QED
  BY <1>4, <1>5, <1>6, <1>7, <1>8, <1>9, <1>10 DEF IrqMasterOnBus

LEMMA HardwareCarried ==
  ASSUME BusSafe, Carried, HardwareStep
  PROVE  Carried'
<1>1. InProgress /\ UNCHANGED <<pc, args, result, slot, busLock, driverVars, stored>>
  BY HardwareContext
<1>2. /\ Progress /\ StoredSoFar /\ Agree /\ Sound(hw) /\ Txn.length \in Nat \ {0}
      /\ Txn.read \in BOOLEAN /\ currentTxnOffset \in Nat
      /\ currentTxns \in Seq(Transaction) /\ currentTxn \in Nat /\ currentTxn < Len(currentTxns)
  BY <1>1, Context, CarriedContext DEF BusSafe, InStep
<1>3. Txn' = Txn
  BY <1>1 DEF Txn, driverVars
<1>4. StoredSoFar'
  BY <1>1, <1>2, <1>3 DEF StoredSoFar, driverVars
<1>5. CASE AddressSent
  <2>1. /\ hw.bus = "address" /\ state = "SendAddress" /\ Last(hw.wire) = START(Txn.read)
        /\ Txn.read => (hw.ackAct = "ACK" <=> Txn.length # 1)
    BY <1>2, <1>5 DEF AddressSent, Agree, FirstByte
  <2>2. Last(hw.wire)[2] = Txn.read
    BY <1>2, <2>1, WireTypes
  <2>3. \/ Txn.read /\ hw' = [hw EXCEPT !.bus = "receive", !.rxNack = FALSE]
        \/ ~Txn.read /\ hw' = [hw EXCEPT !.bus = "held", !.flag = "MB", !.rxNack = FALSE]
        \/ hw' = [hw EXCEPT !.bus = "held", !.flag = "MB", !.rxNack = TRUE,
                            !.wire = Append(@, NACK)]
    BY <1>5, <2>2 DEF AddressSent
  <2>4. currentTxnOffset = 0 /\ OnWire(0) /\ hw.rx = 0 /\ hw.flag = "none"
    BY <1>2, <2>1 DEF Progress, Sound, Hardware
  <2>5. UNCHANGED <<state, currentTxns, currentTxn, currentTxnOffset>>
    BY <1>1 DEF driverVars
  <2>6. ASSUME Txn.read, hw' = [hw EXCEPT !.bus = "receive", !.rxNack = FALSE]
        PROVE  Progress'
    <3>1. /\ hw'.bus = "receive" /\ hw'.flag = "none" /\ hw'.wire = hw.wire
          /\ hw'.rx = hw.rx /\ hw'.ackAct = hw.ackAct
      BY <1>2, <2>4, <2>6 DEF Sound, Hardware
    <3>2. OnWire(currentTxnOffset)'
      BY <2>4, <2>5, <3>1 DEF OnWire
    <3>3. AckedUnlessLast(hw.ackAct = "ACK")'
      BY <1>2, <1>3, <2>1, <2>4, <2>5, <2>6, <3>1 DEF AckedUnlessLast
    <3> QED
      BY <1>2, <1>3, <2>1, <2>4, <2>5, <2>6, <3>1, <3>2, <3>3 DEF Progress
  <2>7. ASSUME ~Txn.read, hw' = [hw EXCEPT !.bus = "held", !.flag = "MB", !.rxNack = FALSE]
        PROVE  Progress'
    <3>1. hw'.bus = "held" /\ hw'.flag = "MB" /\ hw'.wire = hw.wire
      BY <1>2, <2>7 DEF Sound, Hardware
    <3>2. OnWire(currentTxnOffset)'
      BY <2>4, <2>5, <3>1 DEF OnWire
    <3> QED
      BY <1>3, <2>1, <2>4, <2>5, <2>7, <3>1, <3>2 DEF Progress
  <2>8. ASSUME hw' = [hw EXCEPT !.bus = "held", !.flag = "MB", !.rxNack = TRUE,
                                !.wire = Append(@, NACK)]
        PROVE  Progress'
    <3>1. hw'.bus = "held" /\ hw'.flag = "MB" /\ hw'.rxNack
      BY <1>2, <2>8 DEF Sound, Hardware
    <3> QED
      BY <2>1, <2>4, <2>5, <3>1 DEF Progress
  <2>9. Progress'
    BY <2>3, <2>6, <2>7, <2>8, Zenon
  <2> QED
    BY <1>1, <1>4, <2>9, CarriedOn DEF driverVars
<1>6. CASE ByteAccepted \/ ByteRefused
  <2>1. /\ hw.bus = "send"
        /\ \/ hw' = [hw EXCEPT !.bus = "held", !.flag = "MB", !.rxNack = FALSE]
           \/ hw' = [hw EXCEPT !.bus = "held", !.flag = "MB", !.rxNack = TRUE,
                               !.wire = Append(@, NACK)]
    BY <1>6 DEF ByteAccepted, ByteRefused
  <2>2. Progress'
    BY <1>1, <1>2, <1>3, <2>1 DEF Progress, OnWire, Sound, Hardware, driverVars
  <2> QED
    BY <1>1, <1>4, <2>2, CarriedOn DEF driverVars
<1>7. CASE ByteReceived
  <2> DEFINE acked == (hw.ackAct = "ACK")
  <2>1. /\ hw.bus = "receive"
        /\ hw' = [hw EXCEPT !.bus = "held", !.flag = "SB", !.rx = @ + 1, !.acked = acked,
                            !.wire = Append(@, READ(acked))]
    BY <1>7 DEF ByteReceived
  <2>2. /\ Txn.read /\ currentTxnOffset < Txn.length /\ hw.rx = currentTxnOffset
        /\ hw.wire = Wire(currentTxns, currentTxn, currentTxnOffset)
        /\ acked <=> currentTxnOffset + 1 # Txn.length
    BY <1>2, <2>1 DEF Progress, OnWire, AckedUnlessLast
  <2>3. ByteOnWire(currentTxns, currentTxn + 1, currentTxnOffset + 1) = READ(acked)
    <3>1. currentTxns[currentTxn + 1].read /\ currentTxns[currentTxn + 1] = Txn
      BY <2>2 DEF Txn
    <3>2. ByteOnWire(currentTxns, currentTxn + 1, currentTxnOffset + 1)
            = READ(currentTxnOffset + 1 # Txn.length)
      BY <3>1 DEF ByteOnWire
    <3>3. acked = (currentTxnOffset + 1 # Txn.length)
      BY <2>2
    <3> HIDE DEF acked
    <3> QED
      BY <3>2, <3>3
  <2>4. Wire(currentTxns, currentTxn, currentTxnOffset + 1)
          = Append(Wire(currentTxns, currentTxn, currentTxnOffset), READ(acked))
    <3> HIDE DEF acked
    <3>1. Wire(currentTxns, currentTxn, currentTxnOffset + 1)
            = Append(Wire(currentTxns, currentTxn, currentTxnOffset),
                     ByteOnWire(currentTxns, currentTxn + 1, currentTxnOffset + 1))
      BY <1>2, WireGrows
    <3> QED
      BY <2>3, <3>1
  <2>5. Append(hw.wire, READ(acked)) = Wire(currentTxns, currentTxn, currentTxnOffset + 1)
    BY <2>2, <2>4
  <2> HIDE DEF acked
  <2>6. /\ hw'.bus = "held" /\ hw'.flag = "SB" /\ hw'.rx = hw.rx + 1 /\ hw'.acked = acked
        /\ hw'.wire = Append(hw.wire, READ(acked))
    BY <1>2, <2>1 DEF Sound, Hardware
  <2>7. OnWire(currentTxnOffset + 1)'
    BY <1>1, <2>5, <2>6 DEF OnWire, driverVars
  <2>8. Progress'
    BY <1>1, <1>2, <1>3, <2>2, <2>6, <2>7 DEF Progress, AckedUnlessLast, driverVars
  <2> QED
    BY <1>1, <1>4, <2>8, CarriedOn DEF driverVars
<1> QED
  BY <1>5, <1>6, <1>7 DEF HardwareStep

\* A step that leaves the call under way as it is, and notifies nobody.
LEMMA CarriedFrame ==
  ASSUME BusSafe, Carried, Admitted', UNCHANGED <<slot, driverVars, stored, hw>>,
         InProgress' => InProgress,
         \A c \in Tasks : slot[c].pending \/ pc'[c] = "release" =>
                            /\ args'[c] = args[c] /\ result'[c] = result[c]
                            /\ pc'[c] = pc[c]
  PROVE  Carried'
<1>1. InProgress' => Progress' /\ StoredSoFar'
  BY DEF Carried, Progress, StoredSoFar, OnWire, AckedUnlessLast, Txn, driverVars
<1>2. Completed'
  BY DEF Carried, Completed, driverVars
<1> QED
  BY <1>1, <1>2 DEF Carried

LEMMA TaskCarried ==
  ASSUME BusSafe, Carried, NEW c \in Tasks,
         \/ \E txns \in Seq(Transaction) : Supported(txns) /\ Perform(c, txns)
         \/ PerformStep(c)
  PROVE  Carried'
<1>1. ASSUME NEW txns \in Seq(Transaction), Supported(txns), Perform(c, txns)
      PROVE  Carried'
  <2>1. /\ pc[c] = "idle" /\ UNCHANGED <<slot, busLock, driverVars, stored, hw>>
        /\ \/ /\ ValidRequest(txns) /\ args' = [args EXCEPT ![c] = txns]
              /\ pc' = [pc EXCEPT ![c] = "lock"] /\ UNCHANGED result
           \/ result' = [result EXCEPT ![c] = "Invalid"] /\ UNCHANGED <<pc, args>>
    BY <1>1 DEF Perform, Goto, At
  <2>2. Admitted'
    BY <1>1, <2>1 DEF Carried, Admitted, BusSafe, I2cTypeOK
  <2>3. InProgress' => InProgress
    BY <2>1 DEF InProgress, BusSafe, I2cTypeOK, driverVars
  <2>4. \A d \in Tasks : slot[d].pending \/ pc'[d] = "release" =>
          args'[d] = args[d] /\ result'[d] = result[d] /\ pc'[d] = pc[d]
    BY <2>1 DEF BusSafe, I2cTypeOK, NotifiedWaiting
  <2> QED
    BY <2>1, <2>2, <2>3, <2>4, CarriedFrame
<1>2. CASE TakeBusLock(c)
  <2>1. /\ pc[c] = "lock" /\ pc' = [pc EXCEPT ![c] = "setup"]
        /\ UNCHANGED <<args, result, slot, driverVars, stored, hw>>
    BY <1>2 DEF TakeBusLock, Goto, At
  <2>2. Admitted'
    BY <2>1 DEF Carried, Admitted, BusSafe, I2cTypeOK
  <2>3. InProgress' => InProgress
    BY <2>1 DEF InProgress, BusSafe, I2cTypeOK, driverVars
  <2>4. \A d \in Tasks : slot[d].pending \/ pc'[d] = "release" =>
          args'[d] = args[d] /\ result'[d] = result[d] /\ pc'[d] = pc[d]
    BY <2>1 DEF BusSafe, I2cTypeOK, NotifiedWaiting
  <2> QED
    BY <2>1, <2>2, <2>3, <2>4, CarriedFrame
<1>3. CASE Wake(c)
  <2>1. /\ pc[c] = "wait" /\ slot[c].pending /\ pc' = [pc EXCEPT ![c] = "release"]
        /\ slot' = [slot EXCEPT ![c] = Collected(@, {I2CMaster})]
        /\ result' = [result EXCEPT ![c] = completion]
        /\ UNCHANGED <<args, busLock, driverVars, stored, hw>>
    BY <1>3 DEF Wake, At, Goto
  <2>2. /\ \A d \in Tasks : d # c => pc[d] \notin {"wait", "release"} /\ ~slot[d].pending
        /\ waiting = c /\ waiting' = c
    BY <2>1 DEF BusSafe, OneOnBus, NotifiedWaiting, driverVars
  <2>3. Admitted'
    BY <2>1 DEF Carried, Admitted, BusSafe, I2cTypeOK
  <2>4. ~InProgress'
    BY <2>1, <2>2 DEF InProgress, BusSafe, I2cTypeOK
  <2>5. Completed'
    <3> SUFFICES ASSUME NEW d \in Tasks,
                        \/ slot'[d].pending /\ completion' = "ok"
                        \/ pc'[d] = "release" /\ result'[d] = "ok"
                 PROVE  hw'.wire = Transcript(args'[d]) /\ stored' = Received(args'[d])
      BY DEF Completed
    <3>1. slot'[d].pending => slot[d].pending
      BY <2>1 DEF BusSafe, I2cTypeOK, Slot, Collected
    <3>2. d = c
      BY <2>1, <2>2, <3>1 DEF BusSafe, I2cTypeOK
    <3>3. completion = "ok"
      BY <2>1, <3>2 DEF BusSafe, I2cTypeOK, driverVars
    <3> QED
      BY <2>1, <3>2, <3>3 DEF Carried, Completed
  <2> QED
    BY <2>3, <2>4, <2>5 DEF Carried
<1>4. CASE Release(c)
  <2>1. /\ pc[c] = "release" /\ pc' = [pc EXCEPT ![c] = "idle"]
        /\ args' = [args EXCEPT ![c] = <<>>] /\ waiting' = Nobody
        /\ UNCHANGED <<result, slot>>
    BY <1>4 DEF Release, At, Goto, ForgetCall
  <2>2. /\ \A d \in Tasks : d # c => pc[d] \notin {"wait", "release"}
        /\ \A d \in Tasks : ~slot[d].pending
    BY <2>1 DEF BusSafe, OneOnBus, NotifiedWaiting
  <2>3. Admitted'
    BY <2>1 DEF Carried, Admitted, BusSafe, I2cTypeOK
  <2>4. ~InProgress'
    BY <2>1 DEF InProgress
  <2>5. Completed'
    BY <2>1, <2>2 DEF Completed, BusSafe, I2cTypeOK
  <2> QED
    BY <2>3, <2>4, <2>5 DEF Carried
<1>5. CASE Setup(c)
  <2>1. /\ pc[c] = "setup" /\ pc' = [pc EXCEPT ![c] = "wait"] /\ waiting' = c
        /\ state' = "SendAddress" /\ currentTxns' = args[c] /\ currentTxn' = 0
        /\ currentTxnOffset' = 0 /\ stored' = {} /\ UNCHANGED <<args, result, slot>>
        /\ hw' = BeginTransaction([hw EXCEPT !.wire = <<>>], Head(args[c]), FALSE)
    BY <1>5 DEF Setup, At, Goto
  <2>2. /\ \A d \in Tasks : d # c => pc[d] \notin {"wait", "release"}
        /\ \A d \in Tasks : ~slot[d].pending
    BY <2>1 DEF BusSafe, OneOnBus, NotifiedWaiting
  <2>3. /\ args[c] \in Seq(Transaction) /\ Len(args[c]) \in Nat \ {0}
        /\ Head(args[c]) \in Transaction /\ Head(args[c]) = args[c][1]
        /\ ~Head(args[c]).continuation
    <3>1. args[c] \in Seq(Transaction) /\ ValidRequest(args[c])
      BY <2>1 DEF Carried, Admitted, BusSafe, I2cTypeOK
    <3> QED
      BY <3>1 DEF ValidRequest
  <2>4. PICK h : /\ h = [hw EXCEPT !.wire = <<>>] /\ Sound(h) /\ h.wire = <<>>
    <3>1. Sound(hw)
      BY DEF BusSafe, I2cTypeOK, Sound
    <3>2. [hw EXCEPT !.wire = <<>>].wire = <<>>
      BY <3>1 DEF Sound, Hardware
    <3> QED
      BY <3>1, <3>2, ForgetWire
  <2>5. PICK t \in Transaction : t = Head(args[c]) /\ ~t.continuation
    BY <2>3
  <2>6. /\ hw'.bus = "address" /\ hw'.flag = "none" /\ hw'.rx = 0
        /\ hw'.wire = Append(<<>>, START(t.read))
    <3>1. PICK r : hw' = r /\ r = BeginTransaction(h, t, FALSE)
      BY <2>1, <2>4, <2>5
    <3>2. /\ r.bus = "address" /\ r.flag = "none" /\ r.rx = 0
          /\ r.wire = Append(h.wire, START(t.read))
      BY <2>4, <2>5, <3>1, FirstWire
    <3> QED
      BY <2>4, <3>1, <3>2
  <2>7. PICK T \in Seq(Transaction) : T = args[c] /\ 0 < Len(T) /\ T[1] = t
    BY <2>3, <2>5
  <2>8. Wire(T, 0, 0) = Append(<<>>, START(t.read))
    <3>1. PICK n \in Nat : n = 0 /\ n < Len(T) /\ T[n + 1] = t
      BY <2>7
    <3>2. Wire(T, n, 0) = IF T[n + 1].continuation /\ T[n + 1].skipRestart THEN Done(T, n)
                          ELSE Append(Done(T, n), START(T[n + 1].read))
      BY <3>1, WireGrows
    <3>3. Done(T, 0) = <<>>
      BY <3>1, WireOver
    <3> QED
      BY <2>5, <3>1, <3>2, <3>3
  <2>9. Txn' = t
    BY <2>1, <2>7 DEF Txn
  <2>10. Progress'
    <3>1. OnWire(0)'
      BY <2>1, <2>6, <2>7, <2>8 DEF OnWire
    <3> QED
      BY <2>1, <2>6, <3>1 DEF Progress
  <2>11. StoredSoFar'
    <3>1. ReceivedIn(T, 0) = {} /\ Bytes(1, 0) = {}
      BY ReceivedOneMore, BytesReceived
    <3> QED
      BY <2>1, <2>7, <3>1 DEF StoredSoFar
  <2>12. Admitted'
    BY <2>1 DEF Carried, Admitted, BusSafe, I2cTypeOK
  <2>13. Completed'
    BY <2>1, <2>2 DEF Completed, BusSafe, I2cTypeOK
  <2> QED
    BY <2>10, <2>11, <2>12, <2>13 DEF Carried
<1> QED
  BY <1>1, <1>2, <1>3, <1>4, <1>5 DEF PerformStep

LEMMA SupportedOps ==
  /\ Supported(ControlWrite) /\ Supported(StatusRead)
  /\ \A o \in Operations : o.do = "transfer" => o.txns \in Requests
<1>1. Len(ControlWrite) = 1 /\ Len(StatusRead) = 1
  BY DEF ControlWrite, StatusRead
<1>2. Supported(ControlWrite) /\ Supported(StatusRead)
  BY <1>1 DEF Supported
<1> QED
  BY <1>2 DEF Operations

LEMMA CarriedStep ==
  ASSUME \A txns \in Requests \cup Direct : Supported(txns),
         DriverSafe, Carried, [Next]_vars
  PROVE  Carried'
<1>1. BusSafe
  BY DEF DriverSafe
<1>2. ASSUME NEW c \in Tasks, NEW txns \in Seq(Transaction), Supported(txns), Perform(c, txns)
      PROVE  Carried'
  BY <1>1, <1>2, TaskCarried
<1>3. ASSUME UNCHANGED i2cVars
      PROVE  Carried'
  BY <1>3 DEF i2cVars, driverVars, Carried, Admitted, InProgress, Progress, StoredSoFar, OnWire,
              AckedUnlessLast, Txn, Completed
<1>4. ASSUME NEW c \in Tasks, NEW o \in Operations, Call(c, o)
      PROVE  Carried'
  BY <1>3, <1>4 DEF Call
<1>5. ASSUME NEW c \in Tasks, NEW txns \in Direct, CallDevice(c, txns)
      PROVE  Carried'
  BY <1>2, <1>5, MuxAssumption DEF CallDevice, MuxAssumption
<1>6. ASSUME NEW c \in Tasks, MuxStep(c)
      PROVE  Carried'
  <2>1. CASE SendSelection(c)
    BY <1>2, <2>1, OpTypes, SupportedOps DEF SendSelection
  <2>2. CASE SendTransfer(c)
    <3>1. at[c] \in {"check", "selected"} /\ op[c] \in Operations
      BY <2>2 DEF SendTransfer, DriverSafe, MuxHeld
    <3>2. op[c].do \in {"transfer", "status"}
      BY <2>2, <3>1, OpTypes DEF SendTransfer, NeedsSelection
    <3>3. PICK txns : /\ txns = (IF op[c].do = "status" THEN StatusRead ELSE op[c].txns)
                      /\ Perform(c, txns)
      BY <2>2 DEF SendTransfer
    <3>4. txns \in Seq(Transaction) /\ Supported(txns)
      BY <3>1, <3>2, <3>3, OpTypes, SupportedOps
    <3> QED
      BY <1>2, <3>3, <3>4
  <2>3. CASE ~SendSelection(c) /\ ~SendTransfer(c)
    <3>1. UNCHANGED i2cVars
      BY <1>6, <2>3 DEF MuxStep, TakeMuxLock, SelectionDone, TransferDone, GiveMuxLock,
                        PublishSelection, DeviceDone
    <3> QED
      BY <1>3, <3>1
  <2> QED
    BY <2>1, <2>2, <2>3
<1>7. CASE BusStep
  <2>1. (\E c \in Tasks : PerformStep(c)) \/ IrqMasterOnBus \/ HardwareStep
    BY <1>7 DEF BusStep, HardwareStep
  <2> QED
    BY <1>1, <2>1, TaskCarried, IrqCarried, HardwareCarried
<1>8. CASE UNCHANGED vars
  BY <1>3, <1>8 DEF vars
<1> QED
  BY <1>4, <1>5, <1>6, <1>7, <1>8 DEF Next

\* A call that reports success has put exactly its transactions on the bus, as one unit and
\* each byte acknowledged as it should be, and has stored each byte it received in its
\* place, whatever other tasks ask meanwhile and for transactions of any length, as long as
\* the lists have the shape that the driver supports.
THEOREM CallsAreCarriedOut ==
  ASSUME \A txns \in Requests \cup Direct : Supported(txns)
  PROVE  Spec => []PerformedAsAsked
<1>1. Init => Carried
  BY DEF Init, I2cInit, Carried, Admitted, InProgress, Completed, NoNotification
<1>2. DriverSafe /\ Carried /\ [Next]_vars => Carried'
  BY CarriedStep
<1>3. Carried => PerformedAsAsked
  BY DEF Carried, Completed, PerformedAsAsked
<1> QED
  BY <1>1, <1>2, <1>3, DriverIsSafe, PTL DEF Spec

=============================================================================
