-------------------------------- MODULE Base32 --------------------------------
(***************************************************************************)
(* The base32 coder that serial numbers are printed with.  Encode and      *)
(* Decode keep up to 12 bits that have not been put out yet; of their      *)
(* 32-bit buffer only these bits are modelled.  A character is its digit,  *)
(* 0 to 31; characters that Decode corrects or skips are left out.         *)
(***************************************************************************)
EXTENDS Naturals, Sequences, SequencesExt

CONSTANTS
  Octets,       \* values of input bytes
  MaxLength,    \* bound on the length of the input
  OutputSizes   \* sizes of the buffer for the text

VARIABLES
  input, size,  \* the binary data, and the size of the output buffer
  coded,        \* what Encode wrote
  decoded       \* what Decode makes of it

codeVars == <<input, size, coded, decoded>>

CodeTypeOK ==
  /\ input \in Seq(0..255) /\ size \in Nat
  /\ coded \in Seq(0..31)
  /\ decoded \in Seq(0..255)

-----------------------------------------------------------------------------
(* Encode *)

\* One turn of the loop: fill up with a byte, or with zeros at the end, if there are
\* less than 5 bits, and put out the upper 5.
Turn(s, bytes) ==
  LET filled ==
        IF s.bitsLeft >= 5 THEN s
        ELSE IF s.next <= Len(bytes)
             THEN [s EXCEPT !.bits = @ * 256 + bytes[s.next], !.next = @ + 1, !.bitsLeft = @ + 8]
             ELSE [s EXCEPT !.bits = @ * 2^(5 - s.bitsLeft), !.bitsLeft = 5]
      rest == filled.bitsLeft - 5
  IN  [filled EXCEPT !.text = Append(@, filled.bits \div 2^rest),
                     !.bits = @ % 2^rest, !.bitsLeft = rest]

Encode(bytes, bufSize) ==
  LET start == [bits |-> bytes[1], bitsLeft |-> 8, next |-> 2, text |-> <<>>]
      after[n \in 0..bufSize] ==
        IF n = 0 THEN start
        ELSE LET s == after[n - 1] IN
             IF s.bitsLeft > 0 \/ s.next <= Len(bytes) THEN Turn(s, bytes) ELSE s
  IN  IF bytes = <<>> THEN <<>> ELSE after[bufSize].text

-----------------------------------------------------------------------------
(* Decode *)

\* A faulty variant of Take: bits of the last digit are put out again.
TakeAgain(s, digit) ==
  LET bits == s.bits * 32 + digit
      n == s.bitsLeft + 5
  IN  IF n < 8 THEN [s EXCEPT !.bits = bits, !.bitsLeft = n]
      ELSE [bits |-> bits % 2^(n - 8), bitsLeft |-> n - 7,
            bytes |-> Append(s.bytes, bits \div 2^(n - 8))]

\* One more digit: a byte is put out when there are 8 bits.
Take(s, digit) ==
  LET bits == s.bits * 32 + digit
      n == s.bitsLeft + 5
  IN  IF n < 8 THEN [s EXCEPT !.bits = bits, !.bitsLeft = n]
      ELSE [bits |-> bits % 2^(n - 8), bitsLeft |-> n - 8,
            bytes |-> Append(s.bytes, bits \div 2^(n - 8))]

Decode(text, bufSize) ==
  FoldLeft(LAMBDA s, digit : IF Len(s.bytes) < bufSize THEN Take(s, digit) ELSE s,
           [bits |-> 0, bitsLeft |-> 0, bytes |-> <<>>], text).bytes

-----------------------------------------------------------------------------
(* Specification *)

CodeInit == input = <<>> /\ size = 0 /\ coded = <<>> /\ decoded = <<>>

\* The data may be of any length up to the bound.
CodeNext ==
  /\ Len(input) < MaxLength
  /\ \E octet \in Octets, s \in OutputSizes :
       /\ input' = Append(input, octet) /\ size' = s
       /\ coded' = Encode(input', s)
       /\ decoded' = Decode(coded', Len(input'))

-----------------------------------------------------------------------------
(* Properties *)

\* A serial number can be read back from its text: with room for all digits every byte
\* of any length comes back, and a text that was cut off gives the bytes it covers.
RoundTrip ==
  LET digits == (8 * Len(input) + 4) \div 5 IN
  /\ Len(coded) = IF size < digits THEN size ELSE digits
  /\ IsPrefix(SubSeq(input, 1, (5 * Len(coded)) \div 8), decoded)
  /\ (size >= digits => decoded = input)

=============================================================================
