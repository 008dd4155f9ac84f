----------------------------- MODULE ConfdDecode -----------------------------
(***************************************************************************)
(* Decoding confd's replies: Service::DeserializeQuery and                 *)
(* DeserializeUpdate walk through a CBOR map of unknown contents, key and  *)
(* value in turn, and fill the response of the caller's InfoBlock as they  *)
(* go.  ConfdRpc takes the outcome of this as one step (Decoded).          *)
(*                                                                         *)
(* A payload is a sequence of entries.  Of a key the model keeps which of  *)
(* the known names it is, and of a value its CBOR type and, for a boolean, *)
(* its value.  Value strings always fit: a message is shorter than         *)
(* kMaxStringLen and kMaxBlobLen allow for.  The decoder of tinycbor is    *)
(* external: cbor_value_advance_fixed is specified for values of a fixed   *)
(* size only.  The code also calls it to skip strings, which may or may    *)
(* not fail here, and containers, which fails.                             *)
(***************************************************************************)
EXTENDS Naturals, Sequences

CONSTANTS
  MaxEntries,  \* bound on the entries of a map
  Names,       \* the keys the host may send, among AllNames
  Values       \* the values it may send, among AllValues

AllNames == {"found", "value", "updated", "key", "other", "tooLong", "notText"}
FixedValues == {"true", "false", "int", "float", "null"}
AllValues == FixedValues \cup {"text", "bytes", "container"}
MsgTypes == {"Query", "Update"}

ASSUME DecodeAssumption ==
  /\ MaxEntries \in Nat
  /\ Names \subseteq AllNames
  /\ Values \subseteq AllValues

VARIABLES
  type,      \* Query or Update: which of the two functions runs
  isMap,     \* the payload's root object is a map
  payload,   \* its entries
  pos,       \* number of entries that have been decoded
  isKey,     \* the next item is taken for a key
  next,      \* what the last key was recognised as
  response,  \* the response of the info block
  err        \* "running", "none" or why decoding stopped

vars == <<type, isMap, payload, pos, isKey, next, response, err>>
inputs == <<type, isMap, payload>>

-----------------------------------------------------------------------------
(* Types *)

Entry == [name : Names, value : Values]
Payloads == UNION {[1..n -> Entry] : n \in 0..MaxEntries}
Booleans == {"true", "false"}
Kinds == {"int", "float", "text", "bytes", "monostate"}

Response == [keyFound : BOOLEAN, updated : BOOLEAN, value : Kinds]

TypeOK ==
  /\ type \in MsgTypes
  /\ isMap \in BOOLEAN
  /\ payload \in Payloads
  /\ pos \in 0..Len(payload)
  /\ isKey \in BOOLEAN
  /\ next \in {"Unknown", "KeyName", "IsFound", "Value", "DidUpdate"}
  /\ response \in Response
  /\ err \in {"running", "none", "MalformedResponse", "advance"}

-----------------------------------------------------------------------------
(* The steps of the loop *)

\* A default-constructed GetResponse or SetResponse.
DefaultResponse == [keyFound |-> FALSE, updated |-> FALSE, value |-> "monostate"]

Item == payload[pos + 1]
AtKey == err = "running" /\ isKey /\ pos < Len(payload)
AtValue == err = "running" /\ ~isKey
Stop(why) == err' = why /\ UNCHANGED <<inputs, pos, isKey, next, response>>

\* The root object must be a map.
CheckRoot ==
  /\ err = "running" /\ ~isMap
  /\ Stop("MalformedResponse")

\* A key must be a string.
RejectKey ==
  /\ AtKey
  /\ Item.name = "notText"
  /\ Stop("MalformedResponse")

KnownKey(name) ==
  IF type = "Update" THEN IF name = "updated" THEN "DidUpdate" ELSE "Unknown"
  ELSE CASE name = "found" -> "IsFound"
         [] name = "key"   -> "KeyName"
         [] name = "value" -> "Value"
         [] OTHER          -> "Unknown"

\* A faulty variant of KeyOf: a key that does not fit leaves the last one in force.
KeyOfSticky(name) == IF name = "tooLong" THEN next ELSE KnownKey(name)

\* What a key is recognised as; one that is too long for the buffer is unknown.
KeyOf(name) == IF name = "tooLong" THEN "Unknown" ELSE KnownKey(name)

ReadKey ==
  /\ isMap /\ AtKey
  /\ Item.name # "notText"
  /\ next' = KeyOf(Item.name)
  /\ isKey' = FALSE
  /\ UNCHANGED <<inputs, pos, response, err>>

\* Go on to the next key, with the response changed to r.
Store(r) ==
  /\ response' = r
  /\ pos' = pos + 1
  /\ isKey' = TRUE
  /\ UNCHANGED <<inputs, next, err>>

\* The alternative of the variant that a value is stored in.
Alternative(value) == IF value = "null" THEN "monostate" ELSE value

\* The value of "value"; other types than those of the variant are refused.
ReadValue ==
  /\ AtValue
  /\ next = "Value"
  /\ \/ /\ Item.value \in {"int", "float", "text", "bytes", "null"}
        /\ Store([response EXCEPT !.value = Alternative(Item.value)])
     \/ /\ Item.value \in Booleans \cup {"container"}
        /\ Stop("MalformedResponse")

\* The new value of a flag: a value that is not a boolean is skipped.
Flag(old) == IF Item.value \in Booleans THEN Item.value = "true" ELSE old

ReadFlag ==
  /\ AtValue
  /\ Item.value # "container"
  /\ \/ /\ next = "IsFound"
        /\ Store([response EXCEPT !.keyFound = Flag(response.keyFound)])
     \/ /\ next = "DidUpdate"
        /\ Store([response EXCEPT !.updated = Flag(response.updated)])

\* The value of any other key is skipped.
SkipValue ==
  /\ AtValue
  /\ next \in {"Unknown", "KeyName"}
  /\ Item.value # "container"
  /\ Store(response)

\* cbor_value_advance_fixed on a value that is not of a fixed size.
CannotSkip ==
  /\ AtValue
  /\ next # "Value"
  /\ Item.value \notin FixedValues
  /\ Stop("advance")

Finish ==
  /\ err = "running"
  /\ isMap /\ isKey /\ pos = Len(payload)
  /\ Stop("none")

-----------------------------------------------------------------------------
(* Specification *)

Init ==
  /\ type \in MsgTypes
  /\ isMap \in BOOLEAN
  /\ payload \in Payloads
  /\ isMap \/ payload = <<>>
  /\ pos = 0
  /\ isKey = TRUE
  /\ next = "Unknown"
  /\ response = DefaultResponse
  /\ err = "running"

Next ==
  \/ CheckRoot
  \/ RejectKey \/ ReadKey
  \/ ReadValue \/ ReadFlag \/ SkipValue \/ CannotSkip
  \/ Finish

Spec == Init /\ [][Next]_vars

-----------------------------------------------------------------------------
(* What the caller makes of it: Service::get for a value of kind wanted, and    *)
(* Service::set.                                                                *)

BodyFor(wanted) ==
  IF type = "Update" THEN IF response.updated THEN "match" ELSE "absent"
  ELSE IF ~response.keyFound THEN "absent"
  ELSE IF response.value = wanted THEN "match" ELSE "mismatch"

-----------------------------------------------------------------------------
(* Properties *)

\* The entries of the payload that say what s says, among the first n: the
\* reference that the loop is compared with.
Says(name, values, n) == {i \in 1..n : payload[i].name = name /\ payload[i].value \in values}
LastSays(name, values, among, n) ==
  \E i \in Says(name, values, n) : \A j \in Says(name, among, n) : j <= i

\* At every point the response is what the entries decoded so far say, whatever
\* their order and whatever else is among them; of duplicates the last one counts.
PrefixDecoded ==
  LET found == LastSays("found", {"true"}, Booleans, pos)
      updated == LastSays("updated", {"true"}, Booleans, pos)
  IN  /\ response.keyFound = (type = "Query" /\ found)
      /\ response.updated = (type = "Update" /\ updated)
      /\ \A kind \in Kinds \ {"monostate"} :
           (response.value = kind) =
              (type = "Query" /\ LastSays("value", {kind}, AllValues, pos))

\* Although the status of the decoder is ignored by the caller, a get or set that
\* succeeds is backed by the message, even if the rest of it is malformed: there
\* is an entry that says so, and one with a value of the type asked for.
SuccessIsBacked ==
  \A wanted \in {"int", "float", "text", "bytes"} :
    BodyFor(wanted) = "match" =>
      IF type = "Update" THEN Says("updated", {"true"}, Len(payload)) # {}
      ELSE /\ Says("found", {"true"}, Len(payload)) # {}
           /\ Says("value", {wanted}, Len(payload)) # {}

\* Replies are decoded in order, and say "Success" only with the value.
RepliesDecoded == TypeOK /\ PrefixDecoded /\ SuccessIsBacked

=============================================================================
