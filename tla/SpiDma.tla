------------------------------- MODULE SpiDma -------------------------------
(***************************************************************************)
(* The SPI driver and the DMA driver below it.  Spi::perform runs in the   *)
(* task that owns the port; long transfers are fed to the port by a DMA    *)
(* channel while the task sleeps, and the channel's interrupt wakes it.    *)
(* Meanwhile the port shifts out words on its own.                         *)
(*                                                                         *)
(* The DMA controller and the SERCOM are external: a channel writes a word *)
(* to DATA whenever that is empty, DATA moves to the shift register when   *)
(* that is empty, flag DRE says that DATA is empty and TXC that both are.  *)
(* A byte is named by its place <<transaction, offset>>.  One channel is   *)
(* modelled: a channel belongs to one port, and a port to one task.        *)
(***************************************************************************)
EXTENDS Naturals, Sequences, TaskNotify

CONSTANTS
  Requests,         \* the lists of transactions that perform is given
  Configurations,   \* the configurations a port is constructed with
  kDmaThreshold,    \* longer transfers use DMA (128 in the code)
  MaxBeats,         \* what a descriptor can count (0xffff in the code)
  MaxPerforms,      \* bound on the calls of perform
  DmaMayFail        \* can the controller report an error?

Transaction == [tx : BOOLEAN, rx : BOOLEAN, length : Nat]
Config == [useDma : BOOLEAN, rxEnable : BOOLEAN]

ASSUME SpiAssumption ==
  /\ Requests \subseteq Seq(Transaction)
  /\ Configurations \subseteq Config
  /\ kDmaThreshold \in Nat /\ kDmaThreshold >= 3
  /\ MaxBeats \in Nat
  /\ MaxPerforms \in Nat
  /\ DmaMayFail \in BOOLEAN

VARIABLES
  spiPc,        \* where the task is
  conf,         \* the port's configuration: dmaCapable and rxEnabled
  txns, txn,    \* the transactions of the call, and the number of the current one
  offset,       \* bytes of it that have been given to the port
  spiErr,       \* what perform returns
  performs,     \* number of calls so far
  channel,      \* the DMA channel and its descriptor
  gBlockedTask, gCompletionReason,
  spiSlot,      \* the task's DriverPrivate notification slot
  port,         \* the SERCOM's registers
  mosi,         \* the bytes shifted out during this call
  received,     \* bytes stored: <<transaction, offset, place on the wire>>
  faults        \* has the DMA controller reported an error in this call?

dmaVars == <<channel, gBlockedTask, gCompletionReason, spiSlot>>
spiCallVars == <<txns, txn, offset, performs, received, faults>>
spiVars == <<spiPc, conf, txns, txn, offset, spiErr, performs, dmaVars, port, mosi, received,
           faults>>

-----------------------------------------------------------------------------
(* Types *)

WordSize == 4
DmaController == "DmaController"
WireByte == Nat \X Nat
Zero == <<0, 0>>       \* a byte of a transaction without a transmit buffer
Codes == {"none", "ok", "InvalidTransaction", "InvalidBuffer", "TooLong"}
Reasons == {"pending", "ok", "InvalidDescriptor", "TransferError"}

Port == [enabled : BOOLEAN, configured : BOOLEAN, LENGTH : 0..WordSize - 1,
         DATA : Seq(WireByte), shifting : Seq(WireByte),
         RX : Seq(Nat),         \* the received word, empty if RXC is clear
         cut : BOOLEAN]         \* LENGTH was written while a word was being sent
Channel == [configured : BOOLEAN, valid : BOOLEAN, enabled : BOOLEAN, beats : Nat,
            flag : {"none", "TCMPL", "FERR", "TERR"}]

IdleChannel == [configured |-> FALSE, valid |-> FALSE, enabled |-> FALSE, beats |-> 0,
                flag |-> "none"]
ResetPort == [enabled |-> FALSE, configured |-> FALSE, LENGTH |-> 0, DATA |-> <<>>,
              shifting |-> <<>>, RX |-> <<>>, cut |-> FALSE]

\* The lists that a port with a DMA channel can send: a long transaction has a buffer to
\* send from, and leaves the port to the next one with whole words.
Sendable(list) ==
  \A t \in 1..Len(list) :
    list[t].length > kDmaThreshold =>
      /\ list[t].tx
      /\ t < Len(list) => list[t].length % WordSize = 0 /\ list[t + 1].length >= WordSize

SpiConstants == \A list \in Requests, c \in Configurations : c.useDma => Sendable(list)

SpiTypeOK ==
  /\ spiPc \in {"absent", "idle", "next", "dma", "configured", "started", "wait", "woken", "rest",
                "stop", "word", "takeWord", "short", "put", "takeShort", "drain",
                "returned", "panic"}
  /\ conf \in Config
  /\ txns \in Seq(Transaction) /\ txn \in Nat /\ offset \in Nat
  /\ spiErr \in Codes /\ performs \in 0..MaxPerforms
  /\ channel \in Channel /\ gBlockedTask \in BOOLEAN /\ gCompletionReason \in Reasons
  /\ spiSlot \in Slot({DmaController})
  /\ port \in Port
  /\ received \subseteq (Nat \X Nat \X Nat) /\ faults \in BOOLEAN

SpiGoto(step) == spiPc' = step
Current == txns[txn]
DRE == port.DATA = <<>>
TXC == DRE /\ port.shifting = <<>>

-----------------------------------------------------------------------------
(* Construction, reset, enable *)

\* ConfigureChannel, DisableChannel and ResetChannel: a channel is disabled while it
\* is configured, and its descriptor is kept in memory when it is reset.
ConfigureChannel(ch) == [ch EXCEPT !.configured = TRUE, !.enabled = FALSE]
DisableChannel(ch) == [ch EXCEPT !.enabled = FALSE]
ResetChannel(ch) == [IdleChannel EXCEPT !.valid = ch.valid]

\* The registers that are written while the port is disabled.
ApplyConfiguration(p) == [p EXCEPT !.configured = TRUE]

\* Reset, configure and enable the port and its DMA channel.  Receiving by DMA
\* "is not yet implemented": a REQUIRE.
Construct(c) ==
  /\ spiPc = "absent"
  /\ IF c.useDma /\ c.rxEnable
     THEN SpiGoto("panic") /\ UNCHANGED <<conf, port, channel>>
     ELSE /\ conf' = c
          /\ port' = [ApplyConfiguration(ResetPort) EXCEPT !.enabled = TRUE]
          /\ channel' = IF c.useDma THEN ConfigureChannel(channel) ELSE channel
          /\ SpiGoto("idle")
  /\ UNCHANGED <<spiCallVars, spiErr, gBlockedTask, gCompletionReason, spiSlot, mosi>>

\* reset: cancel DMA, clear all of the port's registers.
Reset ==
  /\ spiPc = "idle"
  /\ port' = ResetPort
  /\ channel' = IF conf.useDma THEN ResetChannel(channel) ELSE channel
  /\ UNCHANGED <<spiPc, conf, spiCallVars, spiErr, gBlockedTask, gCompletionReason, spiSlot, mosi>>

\* enable: configures the channel again, but not the port.
Enable ==
  /\ spiPc = "idle"
  /\ ~port.enabled
  /\ port' = [port EXCEPT !.enabled = TRUE]
  /\ channel' = IF conf.useDma THEN ConfigureChannel(channel) ELSE channel
  /\ UNCHANGED <<spiPc, conf, spiCallVars, spiErr, gBlockedTask, gCompletionReason, spiSlot, mosi>>

-----------------------------------------------------------------------------
(* perform *)

SpiReturn(code) == SpiGoto("returned") /\ spiErr' = code

Perform(list) ==
  /\ spiPc = "idle" /\ port.enabled
  /\ performs < MaxPerforms
  /\ performs' = performs + 1
  /\ txns' = list /\ txn' = 1 /\ offset' = 0
  /\ received' = {} /\ faults' = FALSE
  /\ mosi' = <<>>
  /\ IF list = <<>> THEN SpiReturn("InvalidTransaction")
     ELSE SpiGoto("next") /\ spiErr' = "none"
  /\ UNCHANGED <<conf, dmaVars, port>>

UsesDma == conf.useDma /\ Current.length > kDmaThreshold

\* Choose between DMA and polling; both refuse a transaction without bytes or
\* without buffers, and switch LENGTH off for whole words.
NextTransaction ==
  /\ spiPc = "next"
  /\ IF Current.length = 0 \/ ~(Current.tx \/ Current.rx) THEN SpiReturn("InvalidBuffer")
     ELSE /\ SpiGoto(IF UsesDma THEN "dma"
                     ELSE IF Current.length >= WordSize THEN "word" ELSE "short")
          /\ UNCHANGED spiErr
  /\ port' = IF Current.length >= WordSize /\ (Current.tx \/ Current.rx)
             THEN [port EXCEPT !.LENGTH = 0, !.cut = @ \/ (~TXC /\ port.LENGTH # 0)] ELSE port
  /\ UNCHANGED <<conf, spiCallVars, dmaVars, mosi>>

\* The next transaction, or the end of perform.
Advance ==
  /\ offset' = 0
  /\ IF txn < Len(txns) THEN txn' = txn + 1 /\ SpiGoto("next") /\ UNCHANGED spiErr
     ELSE SpiReturn("ok") /\ UNCHANGED txn

\* The next n bytes to send, and where they were stored.
Chunk(n) == [k \in 1..n |-> IF Current.tx THEN <<txn, offset + k - 1>> ELSE Zero]
Incoming(word) ==
  IF Current.rx THEN {<<txn, offset - Len(word) + k - 1, word[k]>> : k \in 1..Len(word)}
  ELSE {}

-----------------------------------------------------------------------------
(* doDmaTransfer *)

DmaLength == WordSize * (Current.length \div WordSize)
DmaBeats == Current.length \div WordSize

\* ConfigureTransfer: the descriptor of a transfer of whole words, if there is
\* something to send and the descriptor can count it.
ConfigureTransfer ==
  /\ spiPc = "dma"
  /\ \/ /\ Current.tx /\ DmaBeats <= MaxBeats
        /\ channel' = [channel EXCEPT !.valid = TRUE, !.beats = DmaBeats]
        /\ SpiGoto("configured") /\ UNCHANGED spiErr
     \/ /\ Current.tx /\ DmaBeats > MaxBeats
        /\ SpiReturn("TooLong") /\ UNCHANGED channel
     \/ /\ ~Current.tx
        /\ SpiGoto("rest") /\ UNCHANGED <<channel, spiErr>>
  /\ UNCHANGED <<conf, spiCallVars, gBlockedTask, gCompletionReason, spiSlot, port, mosi>>

\* EnableChannel.
EnableChannel ==
  /\ spiPc = "configured"
  /\ channel' = [channel EXCEPT !.enabled = TRUE]
  /\ SpiGoto("started")
  /\ UNCHANGED <<conf, spiCallVars, spiErr, gBlockedTask, gCompletionReason, spiSlot, port, mosi>>

\* A faulty variant of WaitForCompletion: the task is not named.
WaitUnnamed ==
  /\ spiPc = "started"
  /\ gCompletionReason' = "pending"
  /\ SpiGoto("wait")
  /\ UNCHANGED <<conf, spiCallVars, spiErr, channel, gBlockedTask, spiSlot, port, mosi>>

\* WaitForCompletion, its first critical section: only now is the task named.
WaitForCompletion ==
  /\ spiPc = "started"
  /\ gBlockedTask' = TRUE
  /\ gCompletionReason' = "pending"
  /\ SpiGoto("wait")
  /\ UNCHANGED <<conf, spiCallVars, spiErr, channel, spiSlot, port, mosi>>

SpiWake ==
  /\ spiPc = "wait" /\ spiSlot.pending
  /\ spiSlot' = Collected(spiSlot, {DmaController})
  /\ SpiGoto("woken")
  /\ UNCHANGED <<conf, spiCallVars, spiErr, channel, gBlockedTask, gCompletionReason, port, mosi>>

\* Its second one; the completion code is returned but not looked at.
EndWait ==
  /\ spiPc = "woken"
  /\ gBlockedTask' = FALSE
  /\ SpiGoto("rest")
  /\ UNCHANGED <<conf, spiCallVars, spiErr, channel, gCompletionReason, spiSlot, port, mosi>>

\* The bytes that do not fill a word: wait for the last word to be sent.
DmaRemainder ==
  /\ spiPc = "rest"
  /\ offset' = DmaLength
  /\ SpiGoto(IF DmaLength = Current.length THEN "stop" ELSE "short")
  /\ UNCHANGED <<conf, txns, txn, performs, received, faults, spiErr, dmaVars, port, mosi>>

\* DisableChannel; the last bytes may still be in the port.
StopDma ==
  /\ spiPc = "stop"
  /\ channel' = DisableChannel(channel)
  /\ Advance
  /\ UNCHANGED <<conf, txns, performs, received, faults, gBlockedTask, gCompletionReason, spiSlot, port, mosi>>

-----------------------------------------------------------------------------
(* doPolledTransfer *)

\* One word, when DRE says that DATA is empty.
PutWord ==
  /\ spiPc = "word" /\ DRE
  /\ port' = [port EXCEPT !.DATA = Chunk(WordSize), !.RX = <<>>]
  /\ offset' = offset + WordSize
  /\ SpiGoto(IF conf.rxEnable THEN "takeWord"
             ELSE IF Current.length - offset' >= WordSize THEN "word"
             ELSE IF offset' < Current.length THEN "short" ELSE "drain")
  /\ UNCHANGED <<conf, txns, txn, performs, received, faults, spiErr, dmaVars, mosi>>

\* Read the word that came in, when RXC says so.
TakeWord ==
  /\ spiPc = "takeWord" /\ port.RX # <<>>
  /\ received' = received \cup Incoming(port.RX)
  /\ port' = [port EXCEPT !.RX = <<>>]
  /\ SpiGoto(IF Current.length - offset >= WordSize THEN "word"
             ELSE IF offset < Current.length THEN "short" ELSE "drain")
  /\ UNCHANGED <<conf, txns, txn, offset, performs, faults, spiErr, dmaVars, mosi>>

\* doPolledTransferSingle: one to three bytes.
Remaining == Current.length - offset
RestLength(p) == [p EXCEPT !.LENGTH = Remaining, !.cut = ~TXC \/ @]

\* A faulty variant of SetLength: TXC is not waited for.
SetLengthAtOnce ==
  /\ spiPc = "short"
  /\ port' = RestLength(port)
  /\ SpiGoto("put")
  /\ UNCHANGED <<conf, spiCallVars, spiErr, dmaVars, mosi>>

\* LENGTH is written once the words before have been sent (TXC), if there are any in this
\* transaction.
SetLength ==
  /\ spiPc = "short"
  /\ offset # 0 => TXC
  /\ port' = RestLength(port)
  /\ SpiGoto("put")
  /\ UNCHANGED <<conf, spiCallVars, spiErr, dmaVars, mosi>>

PutRest ==
  /\ spiPc = "put" /\ DRE
  /\ port' = [port EXCEPT !.DATA = Chunk(Remaining), !.RX = <<>>]
  /\ offset' = Current.length
  /\ SpiGoto(IF conf.rxEnable THEN "takeShort" ELSE IF UsesDma THEN "stop" ELSE "drain")
  /\ UNCHANGED <<conf, txns, txn, performs, received, faults, spiErr, dmaVars, mosi>>

TakeRest ==
  /\ spiPc = "takeShort" /\ port.RX # <<>>
  /\ received' = received \cup Incoming(port.RX)
  /\ port' = [port EXCEPT !.RX = <<>>]
  /\ SpiGoto("drain")
  /\ UNCHANGED <<conf, txns, txn, offset, performs, faults, spiErr, dmaVars, mosi>>

\* Wait for the last byte to finish transmitting.
Drain ==
  /\ spiPc = "drain" /\ TXC
  /\ Advance
  /\ UNCHANGED <<conf, txns, performs, received, faults, dmaVars, port, mosi>>

\* The caller goes on; the model forgets the call.
Forget ==
  /\ spiPc = "returned" /\ port.shifting = <<>> /\ DRE
  /\ SpiGoto("idle")
  /\ txns' = <<>> /\ received' = {} /\ faults' = FALSE /\ mosi' = <<>> /\ spiErr' = "none"
  /\ txn' = 0 /\ offset' = 0
  /\ UNCHANGED <<conf, performs, dmaVars, port>>

-----------------------------------------------------------------------------
(* The interrupt handler: HandleIrq and SignalChannelComplete *)

CompletionOf(flag) ==
  CASE flag = "TCMPL" -> "ok"
    [] flag = "FERR" -> "InvalidDescriptor"
    [] flag = "TERR" -> "TransferError"

HandleIrq ==
  /\ channel.flag # "none"
  /\ gCompletionReason' = CompletionOf(channel.flag)
  /\ spiSlot' = IF gBlockedTask THEN WithBits(spiSlot, {DmaController}) ELSE spiSlot
  /\ channel' = [channel EXCEPT !.flag = "none"]
  /\ UNCHANGED <<spiPc, conf, spiCallVars, spiErr, gBlockedTask, port, mosi>>

-----------------------------------------------------------------------------
(* The hardware *)

\* The DMA controller: a beat when the port asks for it; after the last one the
\* channel is disabled and TCMPL set (BLOCKACT).
Beat ==
  /\ channel.enabled /\ channel.valid /\ channel.beats > 0 /\ DRE
  /\ LET sent == DmaLength - WordSize * channel.beats
         word == [k \in 1..WordSize |-> <<txn, sent + k - 1>>] IN
     port' = [port EXCEPT !.DATA = word]
  /\ channel' = IF channel.beats = 1
                THEN [channel EXCEPT !.beats = 0, !.enabled = FALSE, !.flag = "TCMPL"]
                ELSE [channel EXCEPT !.beats = @ - 1]
  /\ UNCHANGED <<spiPc, conf, spiCallVars, spiErr, gBlockedTask, gCompletionReason, spiSlot, mosi>>

BeatFails ==
  /\ DmaMayFail
  /\ channel.enabled
  /\ \E flag \in {"FERR", "TERR"} :
       channel' = [channel EXCEPT !.enabled = FALSE, !.flag = flag]
  /\ faults' = TRUE
  /\ UNCHANGED <<spiPc, conf, txns, txn, offset, performs, received, spiErr, gBlockedTask, gCompletionReason, spiSlot, port, mosi>>

\* DATA to the shift register.  Without the configuration (CTRLC) it is a byte wide.
Load ==
  /\ port.shifting = <<>> /\ ~DRE
  /\ port' = [port EXCEPT !.shifting = IF port.configured THEN port.DATA ELSE <<Head(port.DATA)>>,
                          !.DATA = <<>>]
  /\ UNCHANGED <<spiPc, conf, spiCallVars, spiErr, dmaVars, mosi>>

\* Shift it out; what is left of a word if LENGTH changed meanwhile is not
\* specified.
Shift ==
  /\ port.shifting # <<>>
  /\ \E n \in IF port.cut THEN 0..Len(port.shifting) ELSE {Len(port.shifting)} :
       /\ mosi' = mosi \o SubSeq(port.shifting, 1, n)
       /\ port' = [port EXCEPT !.shifting = <<>>, !.cut = FALSE,
                               !.RX = [k \in 1..n |-> Len(mosi) + k]]
  /\ UNCHANGED <<spiPc, conf, spiCallVars, spiErr, dmaVars>>

-----------------------------------------------------------------------------
(* Specification *)

SpiInit ==
  /\ spiPc = "absent"
  /\ conf = [useDma |-> FALSE, rxEnable |-> FALSE]
  /\ txns = <<>> /\ txn = 0 /\ offset = 0
  /\ spiErr = "none" /\ performs = 0
  /\ channel = IdleChannel /\ gBlockedTask = FALSE /\ gCompletionReason = "ok"
  /\ spiSlot = NoNotification
  /\ port = ResetPort
  /\ mosi = <<>> /\ received = {} /\ faults = FALSE

TransferStep ==
  \/ NextTransaction
  \/ ConfigureTransfer \/ EnableChannel \/ WaitForCompletion \/ SpiWake \/ EndWait
  \/ DmaRemainder \/ StopDma
  \/ PutWord \/ TakeWord \/ SetLength \/ PutRest \/ TakeRest \/ Drain \/ Forget

HardwareStep == Beat \/ Load \/ Shift

SpiNext ==
  \/ \E c \in Configurations : Construct(c)
  \/ Reset \/ Enable
  \/ \E list \in Requests : Perform(list)
  \/ TransferStep
  \/ HandleIrq
  \/ HardwareStep \/ BeatFails

SpiSpec == SpiInit /\ [][SpiNext]_spiVars

SpiFairness == WF_spiVars(TransferStep) /\ WF_spiVars(HandleIrq) /\ WF_spiVars(HardwareStep)

-----------------------------------------------------------------------------
(* Properties *)

\* The bytes a transaction is to put on the wire; those of the first t of a list.
BytesOf(list, t) == [k \in 1..list[t].length |-> IF list[t].tx THEN <<t, k - 1>> ELSE Zero]
Wire(list) ==
  LET wire[t \in 0..Len(list)] == IF t = 0 THEN <<>> ELSE wire[t - 1] \o BytesOf(list, t)
  IN  wire
ToSend(list) == Wire(list)[Len(list)]

\* Where the bytes that come in at the same time are to be stored.
ToStore(list) ==
  UNION {{<<t, k - 1, Len(Wire(list)[t - 1]) + k>> : k \in 1..list[t].length} :
           t \in {u \in 1..Len(list) : list[u].rx}}

\* "0 on success, negative error code otherwise" (perform): after a success the port
\* has put exactly the bytes of the transactions on the wire, or is about to, and
\* every byte that came in is stored at its place - unless the DMA controller
\* reported an error, which perform does not look at.
SentAsAsked ==
  spiPc = "returned" /\ spiErr = "ok" /\ port.configured /\ ~faults =>
    /\ mosi \o port.shifting \o port.DATA = ToSend(txns)
    /\ received = IF conf.rxEnable THEN ToStore(txns) ELSE {}

\* The task waits in vain: its transfer has ended and the interrupt was handled before
\* WaitForCompletion named the task and made the reason "pending".
MissedCompletion ==
  /\ spiPc = "wait" /\ ~spiSlot.pending
  /\ gBlockedTask /\ gCompletionReason = "pending"
  /\ ~channel.enabled /\ channel.flag = "none"

\* A call of perform returns, whether the DMA transfer completes or fails, unless the
\* interrupt came between EnableChannel and WaitForCompletion.
PerformReturns == spiPc = "next" ~> spiPc = "returned" \/ MissedCompletion

\* "Block the calling task until the specified DMA channel transfer completes or fails"
\* (WaitForCompletion): a task does not go on waiting for a transfer that has ended.
WaitEnds == ~MissedCompletion

=============================================================================
