-------------------------------- MODULE Eeprom --------------------------------
(***************************************************************************)
(* The driver of the EEPROM AT24CS32.  A write is split into page writes,  *)
(* each a transaction on the bus that may fail.  The chip is external: it  *)
(* wraps around inside a page during a write and at the end of its memory  *)
(* during a read, and after a write that the bus cut short it has stored   *)
(* some of the page.                                                       *)
(***************************************************************************)
EXTENDS Naturals, Sequences

CONSTANTS
  kPageSize,     \* bytes in a page (32)
  kDeviceSize,   \* bytes in the memory (2048)
  MaxWrites      \* bound on the calls of writeData

VARIABLES
  romPc,      \* where writeData is
  memory,     \* the chip's memory
  before,     \* ... when the last call of writeData began
  request,    \* address and length of that call
  romOffset,  \* bytes that have been written
  romErr,     \* what the last call returned
  copy,       \* what the last readData returned
  writes      \* number of calls so far

romVars == <<romPc, memory, before, request, romOffset, romErr, copy, writes>>

-----------------------------------------------------------------------------
(* Types *)

Addresses == 0..kDeviceSize - 1
\* The i-th byte that the n-th call of writeData is given; 0 is the erased state.
Datum(n, i) == <<n, i>>
Erased == <<0, 0>>
NoCopy == [err |-> "none", bytes |-> <<>>]

\* The memory is a number of whole pages.
RomConstants ==
  /\ kPageSize \in Nat \ {0} /\ kDeviceSize \in Nat \ {0}
  /\ kDeviceSize % kPageSize = 0
  /\ MaxWrites \in Nat

RomTypeOK ==
  /\ romPc \in {"idle", "start", "pages", "rest"}
  /\ memory \in [Addresses -> Nat \X Nat] /\ before \in [Addresses -> Nat \X Nat]
  /\ request \in [address : Addresses, length : Nat]
  /\ romOffset \in Nat
  /\ romErr \in {"ok", "InvalidBuffer", "bus"}
  /\ copy \in [err : {"none", "ok", "InvalidBuffer", "bus"}, bytes : Seq(Nat \X Nat)]
  /\ writes \in 0..MaxWrites

-----------------------------------------------------------------------------
(* The chip *)

\* Memory after the first n of the given bytes have been received at an address.
Programmed(address, bytes, n) ==
  LET page == address - (address % kPageSize)
      at(i) == page + ((address + i - 1) % kPageSize)
  IN  [a \in Addresses |->
         LET hits == {i \in 1..n : at(i) = a} IN
         IF hits = {} THEN memory[a] ELSE bytes[CHOOSE i \in hits : \A j \in hits : j <= i]]

-----------------------------------------------------------------------------
(* The driver *)

RomReturn(code) == romPc' = "idle" /\ romErr' = code

\* The checks of PageWrite: size is that of the buffer.
FitsPage(address, size, numBytes) ==
  /\ size # 0
  /\ size <= kPageSize - (address % kPageSize)
  /\ numBytes <= size

\* PageWrite of the buffer that begins at romOffset; next is where a success leads.
PageWrite(size, numBytes, next) ==
  LET address == (request.address + romOffset) % kDeviceSize
      bytes == [i \in 1..size |-> Datum(writes, romOffset + i)]
      count == IF numBytes = 0 THEN size ELSE numBytes
  IN  \/ /\ ~FitsPage(address, size, numBytes)
         /\ RomReturn("InvalidBuffer")
         /\ UNCHANGED <<memory, romOffset>>
      \/ /\ FitsPage(address, size, numBytes)
         /\ memory' = Programmed(address, bytes, count)
         /\ romOffset' = romOffset + count
         /\ romPc' = next /\ UNCHANGED romErr
      \/ /\ FitsPage(address, size, numBytes)
         /\ \E n \in 0..count - 1 : memory' = Programmed(address, bytes, n)
         /\ RomReturn("bus")
         /\ UNCHANGED romOffset

Left == request.length - romOffset

WriteData(address, length) ==
  /\ romPc = "idle" /\ writes < MaxWrites
  /\ writes' = writes + 1
  /\ request' = [address |-> address, length |-> length]
  /\ before' = memory
  /\ romOffset' = 0 /\ romErr' = "ok"
  /\ romPc' = IF address % kPageSize # 0 THEN "start" ELSE "pages"
  /\ copy' = NoCopy
  /\ UNCHANGED memory

\* The first page if it is a partial one: PageWrite gets all of the data, and the
\* number of bytes up to the end of the page.
WriteStart ==
  /\ romPc = "start"
  /\ PageWrite(request.length, kPageSize - (request.address % kPageSize), "pages")
  /\ UNCHANGED <<before, request, copy, writes>>

\* Full pages.
WritePage ==
  /\ romPc = "pages"
  /\ IF Left >= kPageSize THEN PageWrite(kPageSize, kPageSize, "pages")
     ELSE romPc' = "rest" /\ UNCHANGED <<memory, romOffset, romErr>>
  /\ UNCHANGED <<before, request, copy, writes>>

\* A faulty variant of WriteRest: the rest is dropped.
WriteNoRest ==
  /\ romPc = "rest"
  /\ RomReturn("ok") /\ UNCHANGED <<memory, romOffset>>
  /\ UNCHANGED <<before, request, copy, writes>>

\* What remains of the data.
WriteRest ==
  /\ romPc = "rest"
  /\ IF Left > 0 THEN PageWrite(Left, Left, "rest")
     ELSE RomReturn("ok") /\ UNCHANGED <<memory, romOffset>>
  /\ UNCHANGED <<before, request, copy, writes>>

\* readData, of a length that the buffer may have; readSerial reads other memory of
\* the chip in the same way.
ReadData(address, length) ==
  /\ romPc = "idle" /\ copy.err = "none"
  /\ copy' \in IF length \notin 1..kDeviceSize
              THEN {[err |-> "InvalidBuffer", bytes |-> <<>>]}
              ELSE {[err |-> "bus", bytes |-> <<>>],
                    [err |-> "ok",
                     bytes |-> [i \in 1..length |-> memory[(address + i - 1) % kDeviceSize]]]}
  /\ UNCHANGED <<romPc, memory, before, request, romOffset, romErr, writes>>

-----------------------------------------------------------------------------
(* Specification *)

RomInit ==
  /\ romPc = "idle"
  /\ memory = [a \in Addresses |-> Erased] /\ before = memory
  /\ request = [address |-> 0, length |-> 0]
  /\ romOffset = 0 /\ romErr = "ok"
  /\ copy = NoCopy
  /\ writes = 0

RomNext ==
  \/ \E a \in Addresses, n \in 0..kDeviceSize + 1 : WriteData(a, n) \/ ReadData(a, n)
  \/ WriteStart \/ WritePage \/ WriteRest

RomSpec == RomInit /\ [][RomNext]_romVars

-----------------------------------------------------------------------------
(* Properties *)

\* Memory as it was before the call, with the first n bytes of its data in place.
Stored(n) ==
  [a \in Addresses |->
     LET i == ((a - request.address + kDeviceSize) % kDeviceSize) + 1 IN
     IF i <= n THEN Datum(writes, i) ELSE before[a]]

\* "Writes data to the EEPROM" (AT24CS32::writeData), whatever page boundaries it
\* crosses and wherever the bus fails: after a call that succeeds all of the data is
\* in place, one that refuses its arguments has written nothing, and at every moment
\* the data written is a prefix, in order, with no byte outside of it touched.  Data
\* longer than the memory is left out.
WrittenInPlace ==
  request.length <= kDeviceSize =>
    /\ \E n \in romOffset..request.length : memory = Stored(n)
    /\ (romPc = "idle" /\ romErr = "ok" => memory = Stored(request.length))
    /\ (romErr = "InvalidBuffer" => memory = before)

=============================================================================
