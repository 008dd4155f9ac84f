----------------------------- MODULE InventoryRom -----------------------------
(***************************************************************************)
(* The parser of the inventory ROM of a driver board: a header, and atoms  *)
(* one after the other.  The caller's callbacks choose which atoms' data   *)
(* is read, and receive it.  The ROM's contents are external; a read of it *)
(* may fail.  A callback may decline an atom: it is then read again, and   *)
(* may be accepted or declined again.                                      *)
(***************************************************************************)
EXTENDS Naturals, Sequences

CONSTANTS
  Roms,        \* the contents: [valid |-> header, firstAtom, atoms |-> sequence]
  BufferSize,  \* the buffer the callback gives to each type of atom, 0 for none
  MaxDeclined  \* bound on the times the callback declines an atom

VARIABLES
  parsePc,
  rom,         \* the contents of the ROM that is read
  addr,        \* the address that is read next
  numRead,     \* turns of the loop, the "atoms read" that GetAtoms returns
  declined,    \* those of them in which the callback declined the atom
  atom,        \* the header that was read last
  delivered,   \* what the data callback got: <<type, address, read, buffer>> each, the
               \* length that was read and that of the buffer that was handed over
  parseErr     \* what GetAtoms returns

parseVars == <<parsePc, rom, addr, numRead, declined, atom, delivered, parseErr>>

-----------------------------------------------------------------------------
(* Types *)

IdpromHeaderSize == 8
AtomHeaderSize == 2
AtomLengths == 0..255
AtomTypes == DOMAIN BufferSize
AtomHeader == [type : AtomTypes \cup {"Invalid"}, length : AtomLengths]
NoAtom == [type |-> "Invalid", length |-> 0]

\* A ROM is a header and atoms of the types callbacks know; no type is called "Invalid".
InventoryConstants ==
  /\ BufferSize \in [AtomTypes -> Nat] /\ MaxDeclined \in Nat
  /\ "Invalid" \notin AtomTypes
  /\ \A r \in Roms : r.firstAtom \in Nat /\ r.atoms \in Seq([type : AtomTypes, length : AtomLengths])

ParseTypeOK ==
  /\ parsePc \in {"begin", "atom", "callback", "data", "done"}
  /\ addr \in Nat /\ numRead \in Nat /\ declined \in 0..MaxDeclined
  /\ atom \in AtomHeader
  /\ delivered \in Seq(AtomTypes \X Nat \X Nat \X Nat)
  /\ parseErr \in {"none", "bus", "InvalidHeader", "InvalidType", "ok"}

-----------------------------------------------------------------------------
(* The ROM *)

\* The address of its n-th atom.
AtomAddress(r, n) ==
  LET address[k \in 0..Len(r.atoms)] ==
        IF k = 0 THEN r.firstAtom ELSE address[k - 1] + AtomHeaderSize + r.atoms[k].length
  IN  address[n - 1]

\* The atom whose header is at an address: anywhere else there is something that is
\* no atom.
AtomAt(address) ==
  LET places == {n \in 1..Len(rom.atoms) : AtomAddress(rom, n) = address} IN
  IF places = {} THEN NoAtom ELSE rom.atoms[CHOOSE n \in places : TRUE]

-----------------------------------------------------------------------------
(* GetAtoms *)

ParseReturn(code) == parsePc' = "done" /\ parseErr' = code

\* Read the header: its magic value, size and version must be right, and the atoms
\* must lie behind it.
ReadHeader ==
  /\ parsePc = "begin"
  /\ \/ ParseReturn("bus") /\ UNCHANGED addr
     \/ /\ ~rom.valid \/ rom.firstAtom < IdpromHeaderSize
        /\ ParseReturn("InvalidHeader") /\ UNCHANGED addr
     \/ /\ rom.valid /\ rom.firstAtom >= IdpromHeaderSize
        /\ addr' = rom.firstAtom
        /\ parsePc' = "atom" /\ UNCHANGED parseErr
  /\ UNCHANGED <<rom, numRead, declined, atom, delivered>>

ReadAtom ==
  /\ parsePc = "atom"
  /\ \/ ParseReturn("bus") /\ UNCHANGED atom
     \/ /\ atom' = AtomAt(addr)
        /\ IF atom'.type = "Invalid" THEN ParseReturn("InvalidType")
           ELSE parsePc' = "callback" /\ UNCHANGED parseErr
  /\ UNCHANGED <<rom, addr, numRead, declined, delivered>>

\* The end of a turn of the loop.
NextAtom ==
  /\ numRead' = numRead + 1
  /\ IF atom.type = "End" THEN ParseReturn("ok")
     ELSE parsePc' = "atom" /\ UNCHANGED parseErr

\* Does the callback give a buffer for the atom's data, and is there any?
Wanted(a) == BufferSize[a.type] > 0 /\ a.length > 0

AskCallback ==
  /\ parsePc = "callback"
  /\ IF Wanted(atom)
     THEN /\ addr' = addr + AtomHeaderSize
          /\ parsePc' = "data" /\ UNCHANGED <<numRead, parseErr>>
     ELSE addr' = addr + AtomHeaderSize + atom.length /\ NextAtom
  /\ UNCHANGED <<rom, declined, atom, delivered>>

\* The callback declines the atom: the next turn begins at the same address.
DeclineAtom ==
  /\ parsePc = "callback"
  /\ declined < MaxDeclined
  /\ declined' = declined + 1
  /\ NextAtom
  /\ UNCHANGED <<rom, addr, atom, delivered>>

\* As much of an atom's data as the buffer holds is read, but all of the buffer is handed
\* to the data callback.
DataLength(a) ==
  IF BufferSize[a.type] > a.length THEN a.length ELSE BufferSize[a.type]
DataOf(a, address) == <<a.type, address, DataLength(a), BufferSize[a.type]>>

\* A faulty variant of ReadAtomData: only the data that was read is skipped.
ReadAtomDataOnly ==
  /\ parsePc = "data"
  /\ delivered' = Append(delivered, DataOf(atom, addr))
  /\ addr' = addr + DataLength(atom)
  /\ NextAtom
  /\ UNCHANGED <<rom, declined, atom>>

\* Read what fits, and skip all of the atom.
ReadAtomData ==
  /\ parsePc = "data"
  /\ \/ ParseReturn("bus") /\ UNCHANGED <<addr, numRead, delivered>>
     \/ /\ delivered' = Append(delivered, DataOf(atom, addr))
        /\ addr' = addr + atom.length
        /\ NextAtom
  /\ UNCHANGED <<rom, declined, atom>>

-----------------------------------------------------------------------------
(* Specification *)

ParseInit ==
  /\ parsePc = "begin" /\ rom \in Roms
  /\ addr = 0 /\ numRead = 0 /\ declined = 0 /\ atom = NoAtom
  /\ delivered = <<>> /\ parseErr = "none"

ParseNext == ReadHeader \/ ReadAtom \/ AskCallback \/ DeclineAtom \/ ReadAtomData

ParseSpec == ParseInit /\ [][ParseNext]_parseVars

-----------------------------------------------------------------------------
(* Properties *)

\* What is delivered of the wanted atoms among the first n.
Asked(r, n) ==
  LET data(k) == DataOf(r.atoms[k], AtomAddress(r, k) + AtomHeaderSize)
      list[k \in 0..Len(r.atoms)] ==
        IF k = 0 THEN <<>>
        ELSE IF Wanted(r.atoms[k]) THEN Append(list[k - 1], data(k)) ELSE list[k - 1]
  IN  list[n]

\* The atoms the parser has gone past.
Passed == numRead - declined

\* The parser stays in step with a well-formed ROM, whatever the lengths of atoms and of
\* the buffers they are read into, and however often the callback declines an atom:
\* every atom is passed once, what is read of it delivered once, in order and from the
\* right place, and a complete parse ends at the "End" atom.  What the buffer holds
\* behind the data of an atom that is shorter is not said.
AtomsInStep ==
  /\ delivered = Asked(rom, Passed)
  /\ (parsePc = "atom" => addr = AtomAddress(rom, Passed + 1))
  /\ (parseErr = "ok" =>
        \E n \in {Passed, Passed + 1} : n \in 1..Len(rom.atoms) /\ rom.atoms[n].type = "End")

=============================================================================
