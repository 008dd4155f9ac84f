------------------------------- MODULE I2cMux -------------------------------
(***************************************************************************)
(* The I2C switch PCA9543A in front of the devices: a DownstreamBus looks  *)
(* like a bus of its own, and selects its channel with a write to the      *)
(* switch before it passes the transactions on to the real bus             *)
(* (I2cMaster).  The driver remembers the channel it selected last.  Its   *)
(* recursive mutex is taken before the lock of the real bus, which tasks   *)
(* also use for devices that are not behind the switch.                    *)
(***************************************************************************)
EXTENDS I2cMaster

CONSTANTS
  Requests,      \* the lists of transactions that are passed to a downstream bus
  Direct,        \* the lists that are passed to the real bus
  MaxCalls,      \* bound on the calls all tasks make
  DirectOverlap  \* may activateBus and deactivateBus run while other tasks use the switch?

ASSUME MuxAssumption ==
  /\ Requests \subseteq Seq(Transaction)
  /\ Direct \subseteq Seq(Transaction)
  /\ MaxCalls \in Nat
  /\ DirectOverlap \in BOOLEAN

VARIABLES
  at,         \* where each task is inside the switch driver
  op,         \* what it was asked to do
  calls,      \* number of calls so far
  muxLock,    \* the task that holds the switch's recursive mutex
  activeBus,  \* the channel the driver believes to be selected
  control     \* the channel that the switch has selected

muxVars == <<at, op, calls, muxLock, activeBus, control>>
vars == <<i2cVars, muxVars>>

-----------------------------------------------------------------------------
(* Types *)

Channels == {0, 1}
NoChannel == 2

\* A list of transactions for a channel; a direct selection of a channel or of
\* none; a read of the status register.
Operations == [do : {"transfer"}, channel : Channels, txns : Requests]
         \cup [do : {"select"}, channel : Channels \cup {NoChannel}]
         \cup [do : {"status"}]

NoOperation == [do |-> "none"]

\* The transactions of sendPacket and readStatus.
OneByte(read) ==
  [read |-> read, continuation |-> FALSE, skipRestart |-> FALSE, length |-> 1]
ControlWrite == <<OneByte(FALSE)>>
StatusRead == <<OneByte(TRUE)>>

MuxTypeOK ==
  /\ I2cTypeOK
  /\ at \in [Tasks -> {"idle", "lock", "check", "select", "selected", "transfer", "unlock",
                       "publish", "device"}]
  /\ muxLock \in Tasks \cup {Nobody}
  /\ activeBus \in Channels \cup {NoChannel}
  /\ control \in Channels \cup {NoChannel}

-----------------------------------------------------------------------------
(* DownstreamBus::perform, activateBus, deactivateBus and readIrqState *)

Enter(c, to) == at' = [at EXCEPT ![c] = to]
Selecting(c) == at[c] # "idle" /\ op[c].do = "select"

\* Unless they may overlap, direct selections have the switch to themselves.
Allowed(c, o) ==
  \/ DirectOverlap
  \/ \A d \in Tasks \ {c} : IF o.do = "select" THEN at[d] = "idle" ELSE ~Selecting(d)

Call(c, o) ==
  /\ at[c] = "idle"
  /\ calls < MaxCalls
  /\ Allowed(c, o)
  /\ calls' = calls + 1
  /\ op' = [op EXCEPT ![c] = o]
  /\ Enter(c, "lock")
  /\ UNCHANGED <<i2cVars, muxLock, activeBus, control>>

\* A device on the real bus itself is used.
CallDevice(c, txns) ==
  /\ at[c] = "idle"
  /\ calls < MaxCalls
  /\ Perform(c, txns)
  /\ calls' = calls + 1
  /\ Enter(c, "device")
  /\ UNCHANGED <<op, muxLock, activeBus, control>>

DeviceDone(c) ==
  /\ at[c] = "device" /\ pc[c] = "idle"
  /\ Enter(c, "idle")
  /\ UNCHANGED <<i2cVars, op, calls, muxLock, activeBus, control>>

TakeMuxLock(c) ==
  /\ at[c] = "lock"
  /\ muxLock = Nobody
  /\ muxLock' = c
  /\ Enter(c, "check")
  /\ UNCHANGED <<i2cVars, op, calls, activeBus, control>>

\* A faulty variant of NeedsSelection: only the first use selects the channel.
NeedsSelectionOnce(c) ==
  op[c].do = "select" \/ (op[c].do = "transfer" /\ activeBus = NoChannel)

\* Must the switch be written first?
NeedsSelection(c) ==
  op[c].do = "select" \/ (op[c].do = "transfer" /\ activeBus # op[c].channel)

\* sendPacket: the mutex is recursive, the bus is asked to write one byte.
SendSelection(c) ==
  /\ at[c] = "check"
  /\ NeedsSelection(c)
  /\ Perform(c, ControlWrite)
  /\ Enter(c, "select")
  /\ UNCHANGED <<op, calls, muxLock, activeBus, control>>

\* The channel is current, or the status register is to be read: go ahead.
SendTransfer(c) ==
  /\ at[c] \in {"check", "selected"}
  /\ ~NeedsSelection(c)
  /\ Perform(c, IF op[c].do = "status" THEN StatusRead ELSE op[c].txns)
  /\ Enter(c, "transfer")
  /\ UNCHANGED <<op, calls, muxLock, activeBus, control>>

\* Inside a transfer the channel is noted while the mutex is held, if the write
\* succeeded; otherwise the transfer is given up.
SelectionDone(c) ==
  /\ at[c] = "select" /\ pc[c] = "idle"
  /\ IF op[c].do = "transfer" /\ result[c] = "ok"
     THEN activeBus' = op[c].channel /\ Enter(c, "selected")
     ELSE UNCHANGED activeBus /\ Enter(c, "unlock")
  /\ UNCHANGED <<i2cVars, op, calls, muxLock, control>>

TransferDone(c) ==
  /\ at[c] = "transfer" /\ pc[c] = "idle"
  /\ Enter(c, "unlock")
  /\ UNCHANGED <<i2cVars, op, calls, muxLock, activeBus, control>>

\* A direct selection notes the channel after sendPacket has given the mutex back.
GiveMuxLock(c) ==
  /\ at[c] = "unlock"
  /\ muxLock' = Nobody
  /\ IF op[c].do = "select" /\ result[c] = "ok"
     THEN Enter(c, "publish") /\ UNCHANGED op
     ELSE Enter(c, "idle") /\ op' = [op EXCEPT ![c] = NoOperation]
  /\ UNCHANGED <<i2cVars, calls, activeBus, control>>

PublishSelection(c) ==
  /\ at[c] = "publish"
  /\ activeBus' = op[c].channel
  /\ Enter(c, "idle")
  /\ op' = [op EXCEPT ![c] = NoOperation]
  /\ UNCHANGED <<i2cVars, calls, muxLock, control>>

-----------------------------------------------------------------------------
(* The switch: it obeys a control byte that it has acknowledged. *)

BusStep ==
  \/ /\ (\E c \in Tasks : PerformStep(c)) \/ IrqMasterOnBus
     /\ UNCHANGED muxVars
  \/ /\ AddressSent \/ ByteRefused \/ ByteReceived
     /\ UNCHANGED muxVars
  \/ /\ ByteAccepted
     /\ control' = IF at[waiting] = "select" THEN op[waiting].channel ELSE control
     /\ UNCHANGED <<at, op, calls, muxLock, activeBus>>

-----------------------------------------------------------------------------
(* Specification *)

\* The switch has just been reset.
Init ==
  /\ I2cInit
  /\ at = [c \in Tasks |-> "idle"]
  /\ op = [c \in Tasks |-> NoOperation]
  /\ calls = 0
  /\ muxLock = Nobody
  /\ activeBus = NoChannel
  /\ control = NoChannel

MuxStep(c) ==
  \/ TakeMuxLock(c) \/ SendSelection(c) \/ SendTransfer(c)
  \/ SelectionDone(c) \/ TransferDone(c)
  \/ GiveMuxLock(c) \/ PublishSelection(c)
  \/ DeviceDone(c)

Next ==
  \/ \E c \in Tasks, o \in Operations : Call(c, o)
  \/ \E c \in Tasks, txns \in Direct : CallDevice(c, txns)
  \/ \E c \in Tasks : MuxStep(c)
  \/ BusStep

Spec == Init /\ [][Next]_vars

\* Tasks, interrupts and the bus go on.
FairSpec == Spec /\ WF_vars((\E c \in Tasks : MuxStep(c)) \/ BusStep)

-----------------------------------------------------------------------------
(* Properties *)

\* "Switch to the appropriate downstream bus, if necessary, before the transaction":
\* whatever a downstream bus puts on the wire, the switch has that bus selected, from
\* its first START to the end, and also after selections that failed.  The state is well
\* typed.
OnOwnChannel ==
  /\ MuxTypeOK
  /\ \A c \in Tasks :
       at[c] = "transfer" /\ op[c].do = "transfer" => control = op[c].channel

\* Every operation on the switch ends.
OperationsEnd == \A c \in Tasks : at[c] # "idle" ~> at[c] = "idle"

=============================================================================
