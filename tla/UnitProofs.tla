----------------------------- MODULE UnitProofs -----------------------------
(***************************************************************************)
(* Machine-checked proofs about units that work by themselves: the host's  *)
(* library, the decoder of the configuration service's replies, and the    *)
(* drivers of the fan controller, the I/O expander, the converter, the     *)
(* EEPROM, and the timers and serial ports that divide a clock, the parser *)
(* of the inventory ROM, and the logger.                                   *)
(***************************************************************************)
EXTENDS UsbHost, FanController, ConfdDecode, IoExpander, AdcConverter, Eeprom, Frequencies,
  InventoryRom, TraceLog, SequenceTheorems, NaturalsInduction, WellFoundedInduction, TLAPS

-----------------------------------------------------------------------------
(* Listing and connecting *)

Handed == [lists : Nat, configs : Nat, handles : SUBSET (1..Len(Devices))]

CallTyped ==
  /\ usbPc \in {"idle", "list", "descriptor", "open", "serial", "callback", "claim", "config"}
  /\ connecting \in BOOLEAN /\ usbErr \in BOOLEAN /\ leaked \in BOOLEAN
  /\ serial \in Serials

PlacesTyped == at \in 0..Len(Devices) + 1 /\ transport \in 0..Len(Devices)

IsWanted(d) == Devices[d].ours /\ Devices[d].serial = serial

\* No device before d has the serial number that is looked for.
NoneBefore(d) == \A i \in 1..Len(Devices) : i < d => ~IsWanted(i)

\* The steps at which a device's handle is open that is not the transport's yet.
Opened == {"serial", "callback", "claim", "config"}

\* While nothing has leaked, what libusb has given out follows from where the call is, and
\* what has leaked is what one call held.
HeldInStep ==
  /\ ~leaked =>
       held = [lists   |-> IF usbPc \in {"idle", "list"} THEN 0 ELSE 1,
               configs |-> IF usbPc = "config" THEN 1 ELSE 0,
               handles |-> IF usbPc = "idle" THEN {transport} \ {0}
                           ELSE IF usbPc \in Opened THEN {at} ELSE {}]
  /\ leaked => held.lists <= 1 /\ held.configs <= 1 /\ held.handles \subseteq {at}
  /\ transport # 0 => at = transport

\* A call that goes through the list has passed no device that it should have opened,
\* and an open transport is the first device with its serial number.
EnumInStep ==
  /\ usbPc # "idle" => transport = 0 /\ ~leaked
  /\ usbPc = "descriptor" => at \in 1..Len(Devices) + 1
  /\ usbPc \in {"open"} \cup Opened => at \in 1..Len(Devices) /\ Devices[at].ours
  /\ usbPc \in {"descriptor", "open"} \cup Opened /\ connecting => NoneBefore(at)
  /\ usbPc = "callback" => ~connecting
  /\ usbPc \in {"claim", "config"} => connecting /\ Devices[at].serial = serial
  /\ transport # 0 => IsWanted(transport) /\ NoneBefore(transport)

Enumerated == CallTyped /\ PlacesTyped /\ held \in Handed /\ HeldInStep /\ EnumInStep

\* SelectInSeq finds the device that EnumInStep speaks of.
LEMMA FirstIsSelected ==
  ASSUME UsbConstants, NEW d \in 1..Len(Devices), IsWanted(d), NoneBefore(d)
  PROVE  SelectInSeq(Devices, LAMBDA e : e.ours /\ e.serial = serial) = d
<1> DEFINE I == {i \in 1..Len(Devices) : Devices[i].ours /\ Devices[i].serial = serial}
<1>1. d \in I /\ \A i \in I : d <= i
  BY DEF IsWanted, NoneBefore, UsbConstants
<1>2. I \subseteq Int
  BY DEF UsbConstants
<1> HIDE DEF I
<1>3. Min(I) \in I /\ \A i \in I : Min(I) <= i
  BY <1>1 DEF Min
<1>4. Min(I) \in Int /\ d \in Int /\ d <= Min(I) /\ Min(I) <= d
  BY <1>1, <1>2, <1>3
<1>5. Min(I) = d
  BY <1>4
<1> QED
  BY <1>1, <1>5 DEF SelectInSeq, I

LEMMA EnumeratedInit == UsbConstants /\ UsbInit => Enumerated
<1> SUFFICES ASSUME UsbConstants, UsbInit PROVE Enumerated
  OBVIOUS
<1>1. (CHOOSE s \in Serials : TRUE) \in Serials
  BY DEF UsbConstants
<1>2. CallTyped
  BY <1>1 DEF UsbInit, CallTyped
<1>3. PlacesTyped
  BY DEF UsbInit, UsbConstants, PlacesTyped
<1>4. held \in Handed
  BY DEF UsbInit, Handed
<1>5. HeldInStep
  BY DEF UsbInit, HeldInStep
<1>6. EnumInStep
  BY DEF UsbInit, EnumInStep, Opened
<1> QED
  BY <1>2, <1>3, <1>4, <1>5, <1>6 DEF Enumerated

LEMMA EnumeratedNext == UsbConstants /\ Enumerated /\ [UsbNext]_usbVars => Enumerated'
<1> SUFFICES ASSUME UsbConstants, Enumerated, [UsbNext]_usbVars PROVE Enumerated'
  OBVIOUS
<1>a. /\ Len(Devices) \in Nat
      /\ CallTyped /\ PlacesTyped /\ held \in Handed /\ HeldInStep /\ EnumInStep
  BY DEF UsbConstants, Enumerated
<1> USE DEF Continue, Throw, ThrowClean, ThrowLeaky, EnumStep
<1>1. ASSUME NEW s \in Serials, NEW isConnect \in BOOLEAN, BeginEnum(isConnect, s)
      PROVE  Enumerated'
  <2>0. CallTyped'
    BY <1>a, <1>1 DEF BeginEnum, CallTyped
  <2>1. PlacesTyped'
    BY <1>a, <1>1 DEF BeginEnum, PlacesTyped, EnumInStep, Opened
  <2>2. held' \in Handed
    BY <1>a, <1>1 DEF BeginEnum, Handed, CallTyped, PlacesTyped, HeldInStep, EnumInStep, Opened
  <2>3. HeldInStep'
    BY <1>a, <1>1 DEF BeginEnum, Handed, CallTyped, PlacesTyped, HeldInStep, EnumInStep, Opened
  <2>4. EnumInStep'
    BY <1>a, <1>1 DEF BeginEnum, CallTyped, PlacesTyped, EnumInStep, Opened, IsWanted, NoneBefore
  <2> QED
    BY <2>0, <2>1, <2>2, <2>3, <2>4 DEF Enumerated
<1>2. CASE GetDeviceList
  <2>0. CallTyped'
    BY <1>a, <1>2 DEF GetDeviceList, CallTyped
  <2>1. PlacesTyped'
    BY <1>a, <1>2 DEF GetDeviceList, PlacesTyped, EnumInStep, Opened
  <2>2. held' \in Handed
    BY <1>a, <1>2 DEF GetDeviceList, Handed, CallTyped, PlacesTyped, HeldInStep, EnumInStep, Opened
  <2>3. HeldInStep'
    BY <1>a, <1>2 DEF GetDeviceList, Handed, CallTyped, PlacesTyped, HeldInStep, EnumInStep, Opened
  <2>4. EnumInStep'
    BY <1>a, <1>2 DEF GetDeviceList, CallTyped, PlacesTyped, EnumInStep, Opened, IsWanted, NoneBefore
  <2> QED
    BY <2>0, <2>1, <2>2, <2>3, <2>4 DEF Enumerated
<1>3. CASE GetDescriptor
  <2>0. CallTyped'
    BY <1>a, <1>3 DEF GetDescriptor, CallTyped
  <2>1. PlacesTyped'
    BY <1>a, <1>3 DEF GetDescriptor, PlacesTyped, EnumInStep, Opened
  <2>2. held' \in Handed
    BY <1>a, <1>3 DEF GetDescriptor, Handed, CallTyped, PlacesTyped, HeldInStep, EnumInStep, Opened
  <2>3. HeldInStep'
    BY <1>a, <1>3 DEF GetDescriptor, Handed, CallTyped, PlacesTyped, HeldInStep, EnumInStep, Opened
  <2>4. EnumInStep'
    BY <1>a, <1>3 DEF GetDescriptor, CallTyped, PlacesTyped, EnumInStep, Opened, IsWanted, NoneBefore
  <2> QED
    BY <2>0, <2>1, <2>2, <2>3, <2>4 DEF Enumerated
<1>4. CASE Open
  <2>0. CallTyped'
    BY <1>a, <1>4 DEF Open, CallTyped
  <2>1. PlacesTyped'
    BY <1>a, <1>4 DEF Open, PlacesTyped, EnumInStep, Opened
  <2>2. held' \in Handed
    BY <1>a, <1>4 DEF Open, Handed, CallTyped, PlacesTyped, HeldInStep, EnumInStep, Opened
  <2>3. HeldInStep'
    BY <1>a, <1>4 DEF Open, Handed, CallTyped, PlacesTyped, HeldInStep, EnumInStep, Opened
  <2>4. EnumInStep'
    BY <1>a, <1>4 DEF Open, CallTyped, PlacesTyped, EnumInStep, Opened, IsWanted, NoneBefore
  <2> QED
    BY <2>0, <2>1, <2>2, <2>3, <2>4 DEF Enumerated
<1>5. CASE ReadSerial
  <2>0. CallTyped'
    BY <1>a, <1>5 DEF ReadSerial, Close, CallTyped
  <2>1. PlacesTyped'
    BY <1>a, <1>5 DEF ReadSerial, Close, PlacesTyped, EnumInStep, Opened
  <2>2. held' \in Handed
    BY <1>a, <1>5 DEF ReadSerial, Close, Handed, CallTyped, PlacesTyped, HeldInStep, EnumInStep, Opened
  <2>3. HeldInStep'
    BY <1>a, <1>5 DEF ReadSerial, Close, Handed, CallTyped, PlacesTyped, HeldInStep, EnumInStep, Opened
  <2>4. EnumInStep'
    BY <1>a, <1>5 DEF ReadSerial, CallTyped, PlacesTyped, EnumInStep, Opened, IsWanted, NoneBefore
  <2> QED
    BY <2>0, <2>1, <2>2, <2>3, <2>4 DEF Enumerated
<1>6. CASE Callback
  <2>0. CallTyped'
    BY <1>a, <1>6 DEF Callback, Close, CallTyped
  <2>1. PlacesTyped'
    BY <1>a, <1>6 DEF Callback, Close, PlacesTyped, EnumInStep, Opened
  <2>5. at \in 1..Len(Devices) /\ usbPc = "callback" /\ transport = 0 /\ UNCHANGED transport
    BY <1>a, <1>6 DEF Callback, EnumInStep, Opened
  <2>6. ~leaked /\ held = [lists |-> 1, configs |-> 0, handles |-> {at}]
    BY <1>a, <2>5 DEF HeldInStep, EnumInStep, Opened
  <2>7. \/ leaked' /\ held' = held /\ at' = at
        \/ ~leaked' /\ usbPc' = "descriptor" /\ held' = [lists |-> 1, configs |-> 0, handles |-> {}]
        \/ ~leaked' /\ usbPc' = "idle" /\ held' = [lists |-> 0, configs |-> 0, handles |-> {}]
    <3>1. held.handles \ {at} = {}
      BY <2>6
    <3> QED
      BY <1>6, <2>6, <3>1 DEF Callback, Close
  <2>2. held' \in Handed
    BY <1>a, <2>6, <2>7 DEF Handed
  <2>3. HeldInStep'
    <3>1. CASE leaked' /\ held' = held /\ at' = at
      <4>1. held'.lists = 1 /\ held'.configs = 0 /\ held'.handles = {at}
        BY <2>6, <3>1
      <4> QED
        BY <2>5, <3>1, <4>1 DEF HeldInStep
    <3>2. CASE ~leaked'
      BY <2>5, <2>7, <3>2 DEF HeldInStep, Opened
    <3> QED
      BY <2>7, <3>1, <3>2
  <2>4. EnumInStep'
    BY <1>a, <1>6 DEF Callback, CallTyped, PlacesTyped, EnumInStep, Opened, IsWanted, NoneBefore
  <2> QED
    BY <2>0, <2>1, <2>2, <2>3, <2>4 DEF Enumerated
<1>7. CASE Claim
  <2>0. CallTyped'
    BY <1>a, <1>7 DEF Claim, CallTyped
  <2>1. PlacesTyped'
    BY <1>a, <1>7 DEF Claim, PlacesTyped, EnumInStep, Opened
  <2>2. held' \in Handed
    BY <1>a, <1>7 DEF Claim, Handed, CallTyped, PlacesTyped, HeldInStep, EnumInStep, Opened
  <2>3. HeldInStep'
    BY <1>a, <1>7 DEF Claim, Handed, CallTyped, PlacesTyped, HeldInStep, EnumInStep, Opened
  <2>4. EnumInStep'
    BY <1>a, <1>7 DEF Claim, CallTyped, PlacesTyped, EnumInStep, Opened, IsWanted, NoneBefore
  <2> QED
    BY <2>0, <2>1, <2>2, <2>3, <2>4 DEF Enumerated
<1>8. CASE FindEndpoints
  <2>0. CallTyped'
    BY <1>a, <1>8 DEF FindEndpoints, CallTyped
  <2>1. PlacesTyped'
    BY <1>a, <1>8 DEF FindEndpoints, PlacesTyped, EnumInStep, Opened
  <2>5. at \in 1..Len(Devices) /\ usbPc = "config" /\ transport = 0
    BY <1>a, <1>8 DEF FindEndpoints, EnumInStep, Opened
  <2>6. ~leaked /\ held = [lists |-> 1, configs |-> 1, handles |-> {at}]
    BY <1>a, <2>5 DEF HeldInStep, EnumInStep, Opened
  <2>7. \/ leaked' /\ held' = held
        \/ /\ usbPc' = "idle" /\ transport' = at
           /\ held' = [lists |-> 0, configs |-> 0, handles |-> {at}]
    <3>1. held.configs - 1 = 0 /\ held.handles = {at}
      BY <2>6
    <3> QED
      BY <1>8, <3>1 DEF FindEndpoints
  <2>8. {at} \ {0} = {at} /\ {at} \subseteq 1..Len(Devices)
    BY <1>a, <2>5
  <2>2. held' \in Handed
    BY <1>a, <2>7, <2>8 DEF Handed
  <2>3. HeldInStep'
    <3>1. CASE leaked' /\ held' = held
      <4>1. UNCHANGED <<at, transport>>
        BY <1>8, <2>6, <3>1 DEF FindEndpoints
      <4>2. held'.lists = 1 /\ held'.configs = 1 /\ held'.handles = {at}
        BY <2>6, <3>1
      <4> QED
        BY <2>5, <3>1, <4>1, <4>2 DEF HeldInStep
    <3>2. CASE /\ ~leaked' /\ usbPc' = "idle" /\ transport' = at
               /\ held' = [lists |-> 0, configs |-> 0, handles |-> {at}]
      BY <1>8, <2>8, <3>2 DEF HeldInStep, FindEndpoints
    <3> QED
      BY <1>8, <2>6, <2>7, <3>1, <3>2 DEF FindEndpoints
  <2>4. EnumInStep'
    BY <1>a, <1>8 DEF FindEndpoints, CallTyped, PlacesTyped, EnumInStep, Opened, IsWanted, NoneBefore
  <2> QED
    BY <2>0, <2>1, <2>2, <2>3, <2>4 DEF Enumerated
<1>9. CASE Disconnect
  <2>0. CallTyped'
    BY <1>a, <1>9 DEF Disconnect, CallTyped
  <2>1. PlacesTyped'
    BY <1>a, <1>9 DEF Disconnect, PlacesTyped, EnumInStep, Opened
  <2>2. held' \in Handed
    BY <1>a, <1>9 DEF Disconnect, Handed, CallTyped, PlacesTyped, HeldInStep, EnumInStep, Opened
  <2>3. HeldInStep'
    BY <1>a, <1>9 DEF Disconnect, Handed, CallTyped, PlacesTyped, HeldInStep, EnumInStep, Opened
  <2>4. EnumInStep'
    BY <1>a, <1>9 DEF Disconnect, CallTyped, PlacesTyped, EnumInStep, Opened, IsWanted, NoneBefore
  <2> QED
    BY <2>0, <2>1, <2>2, <2>3, <2>4 DEF Enumerated
<1>10. ASSUME NEW t \in Threads,
              (\E k \in Keys : PropertyGet(t, k)) \/ LockDevice(t) \/ WriteRequest(t) \/ ReadAnswer(t)
       PROVE  UNCHANGED enumVars
  BY <1>10 DEF PropertyGet, LockDevice, WriteRequest, ReadAnswer
<1>11. ASSUME UNCHANGED enumVars PROVE Enumerated'
  BY <1>a, <1>11
  DEF Enumerated, CallTyped, PlacesTyped, HeldInStep, EnumInStep, enumVars, IsWanted, NoneBefore
<1>12. UNCHANGED usbVars => UNCHANGED enumVars
  BY DEF usbVars
<1> QED
  BY <1>1, <1>2, <1>3, <1>4, <1>5, <1>6, <1>7, <1>8, <1>9, <1>10, <1>11, <1>12 DEF UsbNext

-----------------------------------------------------------------------------
(* Reading properties *)

LEMMA OneElement == ASSUME NEW S, NEW x \in S PROVE Head(<<x>>) = x /\ Tail(<<x>>) = <<>>
  OBVIOUS

AllIdle == \A t \in Threads : thread[t].pc = "idle"

ThreadRecord ==
  [pc : {"idle", "lock", "write", "read"}, key : Keys,
   result : {"none", "value", "missing", "thrown"}]

PropertyTyped ==
  /\ thread \in [Threads -> ThreadRecord]
  /\ deviceLock \in Threads \cup {NoThread}
  /\ buffer \in {"empty", "request", "response"}
  /\ answers \in Seq(Keys)
  /\ ioFailed \in BOOLEAN

\* Threads read properties of an open transport only.
NeedsTransport == usbPc # "idle" \/ transport = 0 => AllIdle

\* Only the thread with the lock is between its request and the answer.
LockHeld ==
  \A t \in Threads : thread[t].pc \in {"write", "read"} <=> deviceLock = t

\* As long as no transfer has failed, the load owes an answer to the thread that waits
\* for it and to nobody else, and the buffer is the one of its request.
AnswersDue ==
  ~ioFailed =>
    /\ \A t \in Threads : thread[t].result \in {"none", "value"}
    /\ \A t \in Threads : thread[t].pc = "read" =>
                           answers = <<thread[t].key>> /\ buffer = "request"
    /\ (\A t \in Threads : thread[t].pc # "read") => answers = <<>>

PropertySafe == PropertyTyped /\ NeedsTransport /\ LockHeld /\ AnswersDue

LEMMA PropertySafeInit == UsbConstants /\ UsbInit => PropertySafe
<1> SUFFICES ASSUME UsbConstants, UsbInit PROVE PropertySafe
  OBVIOUS
<1>1. (CHOOSE k \in Keys : TRUE) \in Keys
  BY DEF UsbConstants
<1>2. PropertyTyped
  <2>1. thread \in [Threads -> ThreadRecord]
    BY <1>1 DEF UsbInit, ThreadRecord
  <2>2. answers \in Seq(Keys)
    BY DEF UsbInit
  <2> QED
    BY <2>1, <2>2 DEF UsbInit, PropertyTyped
<1>3. \A t \in Threads : thread[t].pc = "idle" /\ thread[t].result = "none"
  BY DEF UsbInit
<1>4. NeedsTransport
  BY <1>3 DEF NeedsTransport, AllIdle
<1>5. LockHeld
  <2>1. deviceLock = NoThread
    BY DEF UsbInit
  <2>2. NoThread \notin Threads
    BY DEF UsbConstants
  <2> QED
    BY <1>3, <2>1, <2>2 DEF LockHeld
<1>6. AnswersDue
  BY <1>3 DEF UsbInit, AnswersDue
<1> QED
  BY <1>2, <1>4, <1>5, <1>6 DEF PropertySafe

\* A step of a thread changes its own record only.
LEMMA ThreadStep ==
  ASSUME PropertyTyped, NEW t \in Threads, NEW r, thread' = [thread EXCEPT ![t] = r]
  PROVE  thread'[t] = r /\ \A u \in Threads : u # t => thread'[u] = thread[u]
BY DEF PropertyTyped

\* The changes of a thread's record, spelled out.
LEMMA GotoStep ==
  ASSUME PropertyTyped, NEW t \in Threads, NEW pc \in {"idle", "lock", "write", "read"},
         ThreadGoto(t, pc)
  PROVE  /\ thread' = [thread EXCEPT ![t] = [pc |-> pc, key |-> thread[t].key,
                                             result |-> thread[t].result]]
         /\ [pc |-> pc, key |-> thread[t].key, result |-> thread[t].result] \in ThreadRecord
<1>1. thread[t] \in ThreadRecord
  BY DEF PropertyTyped
<1>2. [thread[t] EXCEPT !.pc = pc] = [pc |-> pc, key |-> thread[t].key, result |-> thread[t].result]
  BY <1>1 DEF ThreadRecord
<1>3. thread' = [thread EXCEPT ![t] = [thread[t] EXCEPT !.pc = pc]]
  BY DEF ThreadGoto
<1> QED
  BY <1>1, <1>2, <1>3 DEF ThreadRecord

LEMMA ReturnStep ==
  ASSUME PropertyTyped, NEW t \in Threads, NEW result \in {"none", "value", "missing", "thrown"},
         PropertyReturn(t, result)
  PROVE  /\ thread' = [thread EXCEPT ![t] = [pc |-> "idle", key |-> thread[t].key,
                                             result |-> result]]
         /\ [pc |-> "idle", key |-> thread[t].key, result |-> result] \in ThreadRecord
         /\ deviceLock' = NoThread
BY DEF PropertyReturn, PropertyTyped, ThreadRecord

\* Listing, connecting and disconnecting happen while no thread reads a property.
LEMMA EnumStepIdle ==
  ASSUME PropertySafe,
         \/ \E s \in Serials : \E isConnect \in BOOLEAN : BeginEnum(isConnect, s)
         \/ GetDeviceList \/ GetDescriptor \/ Open \/ ReadSerial \/ Callback \/ Claim
         \/ FindEndpoints \/ Disconnect
  PROVE  /\ AllIdle /\ UNCHANGED <<thread, deviceLock, answers, ioFailed>>
         /\ buffer' \in {buffer, "empty"}
<1>1. usbPc # "idle" \/ transport = 0 \/ AllIdle
  BY DEF BeginEnum, GetDeviceList, GetDescriptor, Open, ReadSerial, Callback, Claim, FindEndpoints,
         Disconnect, EnumStep, AllIdle
<1>2. AllIdle
  BY <1>1 DEF PropertySafe, NeedsTransport
<1>3. UNCHANGED <<thread, deviceLock, answers, ioFailed>> /\ buffer' \in {buffer, "empty"}
  BY DEF BeginEnum, GetDeviceList, GetDescriptor, Open, ReadSerial, Callback, Claim, FindEndpoints,
         Disconnect, EnumStep, propertyVars
<1> QED
  BY <1>2, <1>3

LEMMA PropertySafeNext == UsbConstants /\ PropertySafe /\ [UsbNext]_usbVars => PropertySafe'
<1> SUFFICES ASSUME UsbConstants, PropertySafe, [UsbNext]_usbVars PROVE PropertySafe'
  OBVIOUS
<1>a. PropertyTyped /\ NeedsTransport /\ LockHeld /\ AnswersDue /\ NoThread \notin Threads
  BY DEF PropertySafe, UsbConstants
<1>1. ASSUME \/ \E s \in Serials : \E isConnect \in BOOLEAN : BeginEnum(isConnect, s)
             \/ GetDeviceList \/ GetDescriptor \/ Open \/ ReadSerial \/ Callback \/ Claim
             \/ FindEndpoints \/ Disconnect
      PROVE  PropertySafe'
  <2>1. /\ AllIdle /\ UNCHANGED <<thread, deviceLock, answers, ioFailed>>
        /\ buffer' \in {buffer, "empty"}
    BY <1>1, EnumStepIdle
  <2>2. PropertyTyped'
    BY <1>a, <2>1 DEF PropertyTyped
  <2>3. NeedsTransport' /\ LockHeld'
    BY <1>a, <2>1 DEF NeedsTransport, LockHeld, AllIdle
  <2>4. AnswersDue'
    BY <1>a, <2>1 DEF AnswersDue, AllIdle
  <2> QED
    BY <2>2, <2>3, <2>4 DEF PropertySafe
<1>2. ASSUME NEW t \in Threads, NEW k \in Keys, PropertyGet(t, k)
      PROVE  PropertySafe'
  <2> DEFINE r == [pc |-> "lock", key |-> k, result |-> "none"]
  <2>1. r \in ThreadRecord /\ r.pc = "lock" /\ r.result = "none" /\ thread[t].pc = "idle"
    BY <1>2 DEF ThreadRecord, PropertyGet
  <2>2. /\ thread' = [thread EXCEPT ![t] = r] /\ usbPc = "idle" /\ transport # 0
        /\ UNCHANGED <<enumVars, deviceLock, buffer, answers, ioFailed>>
    BY <1>2 DEF PropertyGet
  <2> HIDE DEF r
  <2>3. thread'[t] = r /\ \A u \in Threads : u # t => thread'[u] = thread[u]
    BY <1>a, <2>2, ThreadStep
  <2>4. PropertyTyped'
    BY <1>a, <2>1, <2>2 DEF PropertyTyped
  <2>5. NeedsTransport'
    BY <2>2 DEF NeedsTransport, enumVars
  <2>6. LockHeld'
    BY <1>a, <2>1, <2>2, <2>3 DEF LockHeld
  <2>7. AnswersDue'
    BY <1>a, <2>1, <2>2, <2>3 DEF AnswersDue
  <2> QED
    BY <2>4, <2>5, <2>6, <2>7 DEF PropertySafe
<1>3. ASSUME NEW t \in Threads, LockDevice(t)
      PROVE  PropertySafe'
  <2> DEFINE r == [pc |-> "write", key |-> thread[t].key, result |-> thread[t].result]
  <2>1. /\ deviceLock = NoThread /\ deviceLock' = t /\ thread[t].pc = "lock"
        /\ UNCHANGED <<enumVars, buffer, answers, ioFailed>>
    BY <1>3 DEF LockDevice
  <2>2. thread' = [thread EXCEPT ![t] = r] /\ r \in ThreadRecord
    BY <1>a, <1>3, GotoStep DEF LockDevice
  <2>3. r.pc = "write" /\ r.result = thread[t].result
    OBVIOUS
  <2> HIDE DEF r
  <2>4. thread'[t] = r /\ \A u \in Threads : u # t => thread'[u] = thread[u]
    BY <1>a, <2>2, ThreadStep
  <2>5. PropertyTyped'
    BY <1>a, <2>1, <2>2 DEF PropertyTyped
  <2>6. NeedsTransport'
    BY <1>a, <2>1 DEF NeedsTransport, enumVars, AllIdle
  <2>7. LockHeld'
    BY <1>a, <2>1, <2>3, <2>4 DEF LockHeld
  <2>8. AnswersDue'
    BY <1>a, <2>1, <2>3, <2>4 DEF AnswersDue
  <2> QED
    BY <2>5, <2>6, <2>7, <2>8 DEF PropertySafe
<1>4. ASSUME NEW t \in Threads, WriteRequest(t)
      PROVE  PropertySafe'
  <2>1. /\ thread[t].pc = "write" /\ buffer' = "request" /\ UNCHANGED enumVars
        /\ deviceLock = t
    BY <1>a, <1>4 DEF WriteRequest, LockHeld
  <2>2. NeedsTransport' /\ transport' # 0 /\ usbPc' = "idle"
    BY <1>a, <2>1 DEF NeedsTransport, enumVars, AllIdle
  <2>3. \A u \in Threads : u # t => thread[u].pc \notin {"write", "read"}
    BY <1>a, <2>1 DEF LockHeld
  <2>4. CASE answers' = Append(answers, thread[t].key) /\ ThreadGoto(t, "read")
             /\ UNCHANGED <<deviceLock, ioFailed>>
    <3> DEFINE r == [pc |-> "read", key |-> thread[t].key, result |-> thread[t].result]
    <3>1. thread' = [thread EXCEPT ![t] = r] /\ r \in ThreadRecord
      BY <1>a, <2>4, GotoStep
    <3>2. r.pc = "read" /\ r.result = thread[t].result /\ r.key = thread[t].key
      OBVIOUS
    <3> HIDE DEF r
    <3>3. thread'[t] = r /\ \A u \in Threads : u # t => thread'[u] = thread[u]
      BY <1>a, <3>1, ThreadStep
    <3>4. thread[t].key \in Keys /\ answers \in Seq(Keys)
      BY <1>a DEF PropertyTyped, ThreadRecord
    <3>5. PropertyTyped'
      BY <1>a, <2>1, <2>4, <3>1, <3>4 DEF PropertyTyped
    <3>6. LockHeld'
      BY <1>a, <2>1, <2>4, <3>2, <3>3 DEF LockHeld
    <3>7. ~ioFailed => answers = <<>>
      BY <1>a, <2>1, <2>3 DEF AnswersDue
    <3>8. AnswersDue'
      BY <1>a, <2>1, <2>3, <2>4, <3>2, <3>3, <3>4, <3>7 DEF AnswersDue
    <3> QED
      BY <2>2, <3>5, <3>6, <3>8 DEF PropertySafe
  <2>5. CASE PropertyReturn(t, "thrown") /\ ioFailed' = TRUE /\ UNCHANGED answers
    <3> DEFINE r == [pc |-> "idle", key |-> thread[t].key, result |-> "thrown"]
    <3>1. thread' = [thread EXCEPT ![t] = r] /\ r \in ThreadRecord /\ deviceLock' = NoThread
      BY <1>a, <2>5, ReturnStep
    <3>2. r.pc = "idle"
      OBVIOUS
    <3> HIDE DEF r
    <3>3. thread'[t] = r /\ \A u \in Threads : u # t => thread'[u] = thread[u]
      BY <1>a, <3>1, ThreadStep
    <3>4. PropertyTyped'
      BY <1>a, <2>1, <2>5, <3>1 DEF PropertyTyped
    <3>5. LockHeld'
      BY <1>a, <2>3, <3>1, <3>2, <3>3 DEF LockHeld
    <3>6. AnswersDue'
      BY <2>5 DEF AnswersDue
    <3> QED
      BY <2>2, <3>4, <3>5, <3>6 DEF PropertySafe
  <2> QED
    BY <1>4, <2>4, <2>5 DEF WriteRequest
<1>5. ASSUME NEW t \in Threads, ReadAnswer(t)
      PROVE  PropertySafe'
  <2>1. thread[t].pc = "read" /\ UNCHANGED enumVars /\ deviceLock = t
    BY <1>a, <1>5 DEF ReadAnswer, LockHeld
  <2>2. NeedsTransport'
    BY <1>a, <2>1 DEF NeedsTransport, enumVars, AllIdle
  <2>3. \A u \in Threads : u # t => thread[u].pc \notin {"write", "read"}
    BY <1>a, <2>1 DEF LockHeld
  <2>4. ~ioFailed => answers = <<thread[t].key>> /\ buffer = "request"
    BY <1>a, <2>1 DEF AnswersDue
  <2>5. PICK result \in {"none", "value", "missing", "thrown"} :
          /\ PropertyReturn(t, result)
          /\ \/ ioFailed'
             \/ ioFailed' = ioFailed /\ result = "value" /\ answers' = <<>>
          /\ answers' \in Seq(Keys) /\ ioFailed' \in BOOLEAN
          /\ buffer' \in {"empty", "request", "response"}
    <3>1. /\ answers \in Seq(Keys) /\ ioFailed \in BOOLEAN
          /\ buffer \in {"empty", "request", "response"}
      BY <1>a DEF PropertyTyped
    <3>2. CASE /\ buffer # "request" /\ PropertyReturn(t, "thrown")
               /\ UNCHANGED <<buffer, answers, ioFailed>>
      BY <2>4, <3>1, <3>2
    <3>3. CASE /\ PropertyReturn(t, "thrown") /\ ioFailed' = TRUE /\ UNCHANGED answers
               /\ buffer' = "response"
      BY <3>1, <3>3
    <3>4. CASE /\ answers # <<>>
               /\ PropertyReturn(t, IF Head(answers) = thread[t].key THEN "value" ELSE "missing")
               /\ answers' = Tail(answers) /\ UNCHANGED ioFailed /\ buffer' = "response"
      <4>1. Tail(answers) \in Seq(Keys)
        BY <3>1, <3>4
      <4>2. CASE ioFailed
        <5>1. PropertyReturn(t, "value") \/ PropertyReturn(t, "missing")
          BY <3>4
        <5>2. ioFailed' /\ ioFailed' \in BOOLEAN
          BY <3>1, <3>4, <4>2
        <5> QED
          BY <3>4, <4>1, <5>1, <5>2
      <4>3. CASE ~ioFailed
        <5>1. Head(answers) = thread[t].key /\ Tail(answers) = <<>>
          <6>1. thread[t].key \in Keys
            BY <1>a DEF PropertyTyped, ThreadRecord
          <6> QED
            BY <2>4, <4>3, <6>1, OneElement
        <5> QED
          BY <3>1, <3>4, <4>1, <5>1
      <4> QED
        BY <4>2, <4>3
    <3>5. CASE /\ answers # <<>> /\ PropertyReturn(t, "missing") /\ answers' = Tail(answers)
               /\ ioFailed' = TRUE /\ buffer' = "response"
      BY <3>1, <3>5
    <3> QED
      BY <1>5, <3>2, <3>3, <3>4, <3>5 DEF ReadAnswer
  <2> DEFINE r == [pc |-> "idle", key |-> thread[t].key, result |-> result]
  <2>6. thread' = [thread EXCEPT ![t] = r] /\ r \in ThreadRecord /\ deviceLock' = NoThread
    BY <1>a, <2>5, ReturnStep
  <2>7. r.pc = "idle" /\ r.result = result
    OBVIOUS
  <2> HIDE DEF r
  <2>8. thread'[t] = r /\ \A u \in Threads : u # t => thread'[u] = thread[u]
    BY <1>a, <2>6, ThreadStep
  <2>9. PropertyTyped'
    BY <1>a, <2>5, <2>6 DEF PropertyTyped
  <2>10. LockHeld'
    BY <1>a, <2>3, <2>6, <2>7, <2>8 DEF LockHeld
  <2>11. AnswersDue'
    BY <1>a, <2>3, <2>5, <2>7, <2>8 DEF AnswersDue
  <2> QED
    BY <2>2, <2>9, <2>10, <2>11 DEF PropertySafe
<1>6. CASE UNCHANGED usbVars
  BY <1>a, <1>6 DEF PropertySafe, PropertyTyped, NeedsTransport, LockHeld, AnswersDue, AllIdle,
     usbVars, enumVars, propertyVars
<1> QED
  BY <1>1, <1>2, <1>3, <1>4, <1>5, <1>6 DEF UsbNext

-----------------------------------------------------------------------------
(* The theorems about the host's library *)

UsbCallsBounded == usbCalls \in [enum : 0..MaxUsbCalls, property : 0..MaxUsbCalls]

LibrarySafe == Enumerated /\ PropertySafe /\ UsbCallsBounded

LEMMA UsbCallsCounted == UsbConstants /\ UsbCallsBounded /\ [UsbNext]_usbVars => UsbCallsBounded'
<1> SUFFICES ASSUME UsbConstants, UsbCallsBounded, [UsbNext]_usbVars PROVE UsbCallsBounded'
  OBVIOUS
<1>1. CASE UNCHANGED usbCalls
  BY <1>1 DEF UsbCallsBounded
<1>2. ASSUME NEW s \in Serials, NEW isConnect \in BOOLEAN, BeginEnum(isConnect, s)
      PROVE  UsbCallsBounded'
  BY <1>2 DEF BeginEnum, UsbCallsBounded, UsbConstants
<1>3. ASSUME NEW t \in Threads, NEW k \in Keys, PropertyGet(t, k)
      PROVE  UsbCallsBounded'
  BY <1>3 DEF PropertyGet, UsbCallsBounded, UsbConstants
<1> QED
  BY <1>1, <1>2, <1>3
  DEF UsbNext, usbVars, GetDeviceList, GetDescriptor, Open, ReadSerial, Callback, Claim,
      FindEndpoints, Disconnect, EnumStep, LockDevice, WriteRequest, ReadAnswer

LEMMA LibraryIsSafe == ASSUME UsbConstants PROVE UsbSpec => []LibrarySafe
<1>1. UsbInit => LibrarySafe
  BY EnumeratedInit, PropertySafeInit DEF LibrarySafe, UsbInit, UsbCallsBounded, UsbConstants
<1>2. LibrarySafe /\ [UsbNext]_usbVars => LibrarySafe'
  BY EnumeratedNext, PropertySafeNext, UsbCallsCounted DEF LibrarySafe
<1> QED
  BY <1>1, <1>2, PTL DEF UsbSpec

LEMMA LibraryTyped == LibrarySafe => UsbTypeOK
  BY DEF LibrarySafe, UsbCallsBounded, Enumerated, CallTyped, PlacesTyped, Handed, PropertySafe,
         PropertyTyped, ThreadRecord, UsbTypeOK

\* For any devices on the bus, connectBySerial opens the first load with the serial number.
\* Between calls the library holds that handle and nothing else, unless a call of libusb has
\* failed where the code does not clean up: then it has kept at most a list, a descriptor and
\* the handle of one device, the one that the failed call was about.
THEOREM OpensFirst == ASSUME UsbConstants PROVE UsbSpec => [](UsbTypeOK /\ OpensFirstHoldsNothingElse)
<1>1. LibrarySafe => OpensFirstHoldsNothingElse
  <2> SUFFICES ASSUME LibrarySafe, usbPc = "idle"
               PROVE  /\ \/ held = [lists |-> 0, configs |-> 0, handles |-> {transport} \ {0}]
                         \/ /\ leaked /\ held.lists <= 1 /\ held.configs <= 1
                            /\ held.handles \subseteq {at}
                      /\ transport # 0 =>
                           SelectInSeq(Devices, LAMBDA d : d.ours /\ d.serial = serial) = transport
    BY DEF OpensFirstHoldsNothingElse
  <2>1. \/ held = [lists |-> 0, configs |-> 0, handles |-> {transport} \ {0}]
        \/ leaked /\ held.lists <= 1 /\ held.configs <= 1 /\ held.handles \subseteq {at}
    BY DEF LibrarySafe, Enumerated, HeldInStep, Opened, CallTyped
  <2>2. ASSUME transport # 0
        PROVE  SelectInSeq(Devices, LAMBDA d : d.ours /\ d.serial = serial) = transport
    <3>1. transport \in 1..Len(Devices)
      BY <2>2 DEF LibrarySafe, Enumerated, PlacesTyped, UsbConstants
    <3>2. IsWanted(transport) /\ NoneBefore(transport)
      BY <2>2 DEF LibrarySafe, Enumerated, EnumInStep
    <3> QED
      BY <3>1, <3>2, FirstIsSelected
  <2> QED
    BY <2>1, <2>2
<1> QED
  BY <1>1, LibraryIsSafe, LibraryTyped, PTL

\* However many threads read properties of a load at the same time, each gets the value of
\* its own property as long as no transfer has failed.
THEOREM EachItsOwn == ASSUME UsbConstants PROVE UsbSpec => []PropertyIsOwn
<1>1. LibrarySafe => PropertyIsOwn
  BY DEF LibrarySafe, PropertySafe, AnswersDue, PropertyIsOwn
<1> QED
  BY <1>1, LibraryIsSafe, PTL

-----------------------------------------------------------------------------
(* The fan controller *)

FanCallTyped ==
  /\ fanPc \in {"absent", "configuring", "idle", "uploading", "reading", "panic"}
  /\ useFanTable \in BOOLEAN /\ invertPwm \in BOOLEAN /\ minRpm \in {0, 1000}
  /\ fanErr \in {"ok", "InvalidMode", "InvalidMap", "bus"}

FanCountsTyped ==
  entry \in 0..2 * TableSize /\ low \in 0..255 /\ fanCalls \in 0..MaxFanCalls

FanMapTyped == fanMap \in Seq(FanMapEntry) /\ Len(fanMap) <= TableSize

SeenTyped == seen \in Seq(Counts) /\ fan.tach \in Counts

\* The constructor has put the chip into manual mode before it is done, and the mode that
\* the driver remembers is the chip's ever after.
ModeKnown ==
  /\ fanPc = "absent" => entry = 0 /\ ~useFanTable
  /\ fanPc = "configuring" =>
       /\ ~useFanTable /\ entry < ConfigureLength
       /\ entry >= 2 => fan.config = FanConfig(TRUE)
       /\ entry = 9 => fan.limit < 256
  /\ fanPc \in {"idle", "uploading", "reading"} => fan.config = FanConfig(~useFanTable)

\* An upload takes place in manual mode, and what it has written is in the chip.
Uploaded ==
  fanPc = "uploading" =>
    /\ ~useFanTable /\ entry <= 2 * Len(fanMap)
    /\ \A k \in 0..entry - 1 : fan.table[k] = Byte(k)

\* Between the two reads, the byte that was read and the one that the chip holds are those
\* of the count at the first of them.
ReadingHeld ==
  fanPc = "reading" =>
    /\ seen # <<>> /\ low = seen[1] % 256 /\ fan.held = seen[1] \div 256

FanSafe ==
  /\ FanCallTyped /\ FanCountsTyped /\ FanMapTyped /\ SeenTyped /\ fan \in Chip
  /\ ModeKnown /\ Uploaded /\ ReadingHeld

LEMMA FanConfigTyped ==
  ASSUME invertPwm \in BOOLEAN, NEW manual \in BOOLEAN
  PROVE  FanConfig(manual) \in ChipConfigs
BY DEF FanConfig, ChipConfigs

LEMMA FanSafeInit == FanConstants /\ FanInit => FanSafe
<1> SUFFICES ASSUME FanConstants, FanInit PROVE FanSafe
  OBVIOUS
<1>1. FanCallTyped
  <2>1. /\ fanPc = "absent" /\ useFanTable = FALSE /\ invertPwm = FALSE /\ minRpm = 0
        /\ fanErr = "ok"
    BY DEF FanInit
  <2> QED
    BY <2>1 DEF FanCallTyped
<1>2. FanCountsTyped /\ FanMapTyped /\ SeenTyped
  <2>1. entry = 0 /\ low = 0 /\ fanCalls = 0 /\ fan.tach = 65535 /\ fanMap = <<>> /\ seen = <<>>
    BY DEF FanInit, NotTurning
  <2>2. fanMap \in Seq(FanMapEntry) /\ Len(fanMap) = 0 /\ seen \in Seq(Counts)
    BY <2>1
  <2> QED
    BY <2>1, <2>2 DEF FanCountsTyped, FanMapTyped, SeenTyped, Counts, FanConstants, TableSize
<1>3. fan \in Chip
  <2>1. Unset \in ChipTables
    BY DEF Unset, ChipTables
  <2>3. PICK c \in ChipConfigs : c = FanConfig(TRUE)
    BY <1>1, FanConfigTyped DEF FanCallTyped
  <2>2. fan = [config |-> c, table |-> Unset, speed |-> 0, limit |-> 65535,
               tach |-> 65535, held |-> 0]
    BY <2>3 DEF FanInit, NotTurning
  <2> QED
    BY <2>1, <2>2 DEF Chip, DutySteps, Words, Octets
<1>4. ModeKnown /\ Uploaded /\ ReadingHeld
  BY DEF FanInit, ModeKnown, Uploaded, ReadingHeld
<1> QED
  BY <1>1, <1>2, <1>3, <1>4 DEF FanSafe

\* A byte fits its register.
LEMMA EntryFits ==
  ASSUME NEW e \in FanMapEntry
  PROVE  e.temp % 128 \in 0..127 /\ e.speed % 64 \in 0..127
BY DEF FanMapEntry

LEMMA ByteFits ==
  ASSUME FanMapTyped, NEW k \in Nat, k < 2 * Len(fanMap)
  PROVE  k \in TableRegisters /\ Byte(k) \in 0..127
<1>1. PICK n \in 0..8 : n = Len(fanMap)
  <2>1. fanMap \in Seq(FanMapEntry) /\ Len(fanMap) <= 8
    BY DEF FanMapTyped, TableSize
  <2>2. Len(fanMap) \in Nat
    BY <2>1, LenProperties
  <2>3. \A x \in Nat : x <= 8 => x \in 0..8
    OBVIOUS
  <2>4. Len(fanMap) \in 0..8
    BY <2>1, <2>2, <2>3
  <2> QED
    BY <2>4
<1>2. k \div 2 \in Nat /\ (k \div 2) + 1 \in 1..n /\ k < 16
  <2>1. k < 2 * n
    BY <1>1
  <2>2. PICK q \in Nat : q = k \div 2
    OBVIOUS
  <2>3. 2 * q <= k
    BY <2>2
  <2> QED
    BY <2>1, <2>2, <2>3
<1>3. fanMap[(k \div 2) + 1] \in FanMapEntry
  BY <1>1, <1>2, ElementOfSeq DEF FanMapTyped
<1>4. Byte(k) \in 0..127
  <2>1. /\ fanMap[(k \div 2) + 1].temp % 128 \in 0..127
        /\ fanMap[(k \div 2) + 1].speed % 64 \in 0..127
    BY <1>3, EntryFits
  <2> QED
    BY <2>1 DEF Byte
<1> QED
  BY <1>2, <1>4 DEF TableRegisters, TableSize

\* A count is put together from its bytes.
LEMMA CountOfBytes ==
  ASSUME NEW x \in Counts, NEW q, NEW r, q = x \div 256, r = x % 256
  PROVE  256 * q + r = x
<1>1. q \in Int /\ r \in Int
  BY DEF Counts
<1>2. x % 256 = x - 256 * (x \div 256)
  BY DEF Counts
<1>3. r = x - 256 * q
  BY <1>2
<1> QED
  BY <1>1, <1>3 DEF Counts

LEMMA CountIsWord == ASSUME NEW n \in Counts PROVE n \in Words
BY DEF Counts, Words

\* A write to a register of the chip leaves the others alone.
LEMMA ConfigWritten ==
  ASSUME fan \in Chip, NEW c \in ChipConfigs, fan' = [fan EXCEPT !.config = c]
  PROVE  /\ fan' \in Chip /\ fan'.config = c
         /\ fan'.table = fan.table /\ fan'.limit = fan.limit /\ fan'.tach = fan.tach
         /\ fan'.held = fan.held
BY DEF Chip

LEMMA TableWritten ==
  ASSUME fan \in Chip, NEW k \in TableRegisters, NEW b \in 0..127,
         fan' = [fan EXCEPT !.table = [fan.table EXCEPT ![k] = b]]
  PROVE  /\ fan' \in Chip /\ fan'.config = fan.config /\ fan'.tach = fan.tach
         /\ fan'.held = fan.held
         /\ fan'.table[k] = b /\ \A j \in TableRegisters : j # k => fan'.table[j] = fan.table[j]
<1> DEFINE t == [fan.table EXCEPT ![k] = b]
<1>1. fan.table \in ChipTables
  BY DEF Chip
<1>2. t \in ChipTables /\ t[k] = b /\ \A j \in TableRegisters : j # k => t[j] = fan.table[j]
  BY <1>1 DEF ChipTables
<1>3. fan' = [fan EXCEPT !.table = t]
  OBVIOUS
<1> HIDE DEF t
<1>4. /\ fan' \in Chip /\ fan'.config = fan.config /\ fan'.tach = fan.tach
      /\ fan'.held = fan.held /\ fan'.table = t
  BY <1>2, <1>3 DEF Chip
<1> QED
  BY <1>2, <1>4

LEMMA LimitWritten ==
  ASSUME fan \in Chip, NEW n \in Words, fan' = [fan EXCEPT !.limit = n]
  PROVE  /\ fan' \in Chip /\ fan'.limit = n
         /\ fan'.config = fan.config /\ fan'.tach = fan.tach
BY DEF Chip

LEMMA SpeedWritten ==
  ASSUME fan \in Chip, NEW n \in DutySteps, fan' = [fan EXCEPT !.speed = n]
  PROVE  fan' \in Chip /\ fan'.config = fan.config /\ fan'.tach = fan.tach
BY DEF Chip

LEMMA CountHeld ==
  ASSUME fan \in Chip, NEW n \in Octets, fan' = [fan EXCEPT !.held = n]
  PROVE  fan' \in Chip /\ fan'.config = fan.config /\ fan'.tach = fan.tach /\ fan'.held = n
BY DEF Chip

LEMMA CountChanged ==
  ASSUME fan \in Chip, NEW n \in Counts, fan' = [fan EXCEPT !.tach = n]
  PROVE  fan' \in Chip /\ fan'.config = fan.config /\ fan'.tach = n /\ fan'.held = fan.held
<1>1. n \in Words
  BY CountIsWord
<1> QED
  BY <1>1 DEF Chip

\* The bytes of a count.
LEMMA BytesOfCount ==
  ASSUME NEW x \in Counts
  PROVE  x % 256 \in 0..255 /\ x \div 256 \in Octets
<1>1. x \in Nat /\ x < 65536
  BY DEF Counts
<1>2. PICK q \in Nat : q = x \div 256
  BY <1>1
<1>3. 256 * q <= x
  BY <1>1, <1>2
<1>4. q \in 0..255
  BY <1>1, <1>3
<1> QED
  BY <1>1, <1>2, <1>4 DEF Octets

\* The bytes of the tachometer's limit.
LEMMA BytesOfLimit ==
  ASSUME NEW y \in Nat
  PROVE  y % 256 \in 0..255 /\ (y \div 256) % 256 \in 0..255
OBVIOUS

LEMMA SmallWord == ASSUME NEW l \in Words, l < 256 PROVE l \in 0..255
BY DEF Words

LEMMA LowLimit == ASSUME fan \in Chip, fan.limit < 256 PROVE fan.limit \in 0..255
<1>1. fan.limit \in Words
  BY DEF Chip
<1> QED
  BY <1>1, SmallWord

LEMMA LimitFits == ASSUME NEW l \in 0..255, NEW h \in 0..255 PROVE l + 256 * h \in Words
BY DEF Words

LEMMA FanSafeNext == FanConstants /\ FanSafe /\ [FanNext]_fanVars => FanSafe'
<1> SUFFICES ASSUME FanConstants, FanSafe, [FanNext]_fanVars PROVE FanSafe'
  OBVIOUS
<1>a. /\ FanCallTyped /\ FanCountsTyped /\ FanMapTyped /\ SeenTyped /\ fan \in Chip
      /\ ModeKnown /\ Uploaded /\ ReadingHeld
  BY DEF FanSafe
<1>1. ASSUME NEW inverted \in BOOLEAN, NEW minimum \in {0, 1000}, ConstructFan(inverted, minimum)
      PROVE  FanSafe'
  <2>1. /\ fanPc = "absent" /\ fanPc' = "configuring" /\ invertPwm' = inverted
        /\ minRpm' = minimum /\ UNCHANGED <<useFanTable, fan, fanErr, fanCalls>>
        /\ UNCHANGED <<fanMap, entry, low, seen>>
    BY <1>1 DEF ConstructFan, UploadVars, ReadingVars
  <2>2. FanCallTyped'
    BY <1>a, <2>1 DEF FanCallTyped
  <2>3. FanCountsTyped' /\ FanMapTyped' /\ SeenTyped'
    BY <1>a, <2>1 DEF FanCountsTyped, FanMapTyped, SeenTyped
  <2>4. fan' \in Chip
    BY <1>a, <2>1
  <2>5. ModeKnown'
    BY <1>a, <2>1 DEF ModeKnown, ConfigureLength
  <2>6. Uploaded' /\ ReadingHeld'
    BY <2>1 DEF Uploaded, ReadingHeld
  <2> QED
    BY <2>2, <2>3, <2>4, <2>5, <2>6 DEF FanSafe
<1>2. CASE Configure
  <2>1. /\ fanPc = "configuring"
        /\ UNCHANGED <<useFanTable, invertPwm, minRpm, fanMap, low, seen, fanErr, fanCalls>>
    BY <1>2 DEF Configure, ReadingVars
  <2>2. ~useFanTable /\ entry \in Nat /\ entry < ConfigureLength
    BY <1>a, <2>1 DEF ModeKnown, FanCountsTyped, TableSize
  <2>3. ConfigureLength' = ConfigureLength
    BY <2>1 DEF ConfigureLength
  <2>4. CASE fanPc' = "panic" /\ UNCHANGED <<fan, entry>>
    <3>1. FanCallTyped'
      BY <1>a, <2>1, <2>4 DEF FanCallTyped
    <3>2. FanCountsTyped' /\ FanMapTyped' /\ SeenTyped'
      BY <1>a, <2>1, <2>4 DEF FanCountsTyped, FanMapTyped, SeenTyped
    <3>3. ModeKnown' /\ Uploaded' /\ ReadingHeld' /\ fan' \in Chip
      BY <1>a, <2>4 DEF ModeKnown, Uploaded, ReadingHeld
    <3> QED
      BY <3>1, <3>2, <3>3 DEF FanSafe
  <2>5. CASE /\ entry' = entry + 1
             /\ fanPc' = IF entry' = ConfigureLength THEN "idle" ELSE "configuring"
             /\ fan' = Configured(entry)
    <3>1. entry < 10 /\ (minRpm = 0 => entry < 8) /\ minRpm \in {0, 1000}
      BY <1>a, <2>2 DEF ConfigureLength, FanCallTyped
    <3>2. PICK c \in ChipConfigs : c = FanConfig(TRUE)
      <4>1. invertPwm \in BOOLEAN
        BY <1>a DEF FanCallTyped
      <4>2. FanConfig(TRUE) \in ChipConfigs
        BY <4>1, FanConfigTyped
      <4> QED
        BY <4>2
    <3>3. c = FanConfig(TRUE)'
      BY <2>1, <3>2 DEF FanConfig
    <3>6. entry >= 8 => CountsPerMinute \div minRpm \in Nat
      <4>1. entry >= 8 => minRpm = 1000
        BY <2>2, <3>1
      <4>2. CountsPerMinute \div 1000 \in Nat
        BY SMT DEF CountsPerMinute
      <4> QED
        BY <4>1, <4>2
    <3>11. (entry >= 2 => fan.config = c) /\ (entry = 9 => fan.limit < 256)
      BY <1>a, <2>1, <3>2 DEF ModeKnown
    <3>4. /\ fan' \in Chip /\ fan'.tach = fan.tach
          /\ entry' >= 2 => fan'.config = c
          /\ entry' = 9 => fan'.limit < 256
      <4>1. CASE entry = 1
        <5>1. fan' = [fan EXCEPT !.config = c]
          BY <2>5, <3>2, <4>1 DEF Configured
        <5>2. entry' = 2
          BY <2>5, <4>1
        <5> QED
          BY <1>a, <5>1, <5>2, ConfigWritten
      <4>2. CASE entry = 8
        <5>1. PICK n \in 0..255 : fan' = [fan EXCEPT !.limit = n]
          <6>1. Configured(8) = [fan EXCEPT !.limit = (CountsPerMinute \div minRpm) % 256]
            BY DEF Configured
          <6>2. (CountsPerMinute \div minRpm) % 256 \in 0..255
            BY <3>6, <4>2, BytesOfLimit
          <6> QED
            BY <2>5, <4>2, <6>1, <6>2
        <5>2. n \in Words
          BY DEF Words
        <5>3. fan' \in Chip /\ fan'.limit = n /\ fan'.config = fan.config /\ fan'.tach = fan.tach
          BY <1>a, <5>1, <5>2, LimitWritten
        <5>4. fan.config = c
          BY <3>11, <4>2
        <5> QED
          BY <5>3, <5>4
      <4>3. CASE entry = 9
        <5>1. fan.limit < 256 /\ fan.config = c
          BY <3>11, <4>3
        <5>2. PICK n \in Words : fan' = [fan EXCEPT !.limit = n]
          <6> DEFINE high == ((CountsPerMinute \div minRpm) \div 256) % 256
          <6>1. Configured(9) = [fan EXCEPT !.limit = fan.limit + 256 * high]
            BY DEF Configured
          <6>2. high \in 0..255
            BY <3>6, <4>3, BytesOfLimit
          <6> HIDE DEF high
          <6>3. fan.limit \in 0..255
            BY <1>a, <5>1, LowLimit
          <6>4. fan.limit + 256 * high \in Words
            BY <6>2, <6>3, LimitFits
          <6> QED
            BY <2>5, <4>3, <6>1, <6>4
        <5>4. fan' \in Chip /\ fan'.config = fan.config /\ fan'.tach = fan.tach
          BY <1>a, <5>2, LimitWritten
        <5>5. entry' = 10
          BY <2>5, <4>3
        <5> QED
          BY <5>1, <5>4, <5>5
      <4>4. CASE entry \notin {1, 8, 9}
        <5>1. fan' = fan
          BY <2>5, <4>4 DEF Configured
        <5>2. entry' >= 2 => entry >= 2
          BY <2>2, <2>5, <4>4
        <5>3. entry' # 9
          BY <2>2, <2>5, <4>4
        <5> QED
          BY <1>a, <2>1, <3>2, <5>1, <5>2, <5>3 DEF ModeKnown
      <4> QED
        BY <4>1, <4>2, <4>3, <4>4
    <3>5. FanCallTyped'
      BY <1>a, <2>1, <2>5 DEF FanCallTyped
    <3>10. FanCountsTyped'
      BY <1>a, <2>1, <2>2, <2>5, <3>1 DEF FanCountsTyped, TableSize
    <3>7. FanMapTyped' /\ SeenTyped'
      BY <1>a, <2>1, <3>4 DEF FanMapTyped, SeenTyped
    <3>8. ModeKnown'
      <4>1. CASE fanPc' = "configuring"
        <5>1. entry' < ConfigureLength /\ entry' \in Nat
          <6>1. ConfigureLength \in Nat
            BY DEF ConfigureLength
          <6> QED
            BY <2>2, <2>5, <4>1, <6>1
        <5> QED
          BY <2>1, <2>2, <2>3, <3>3, <3>4, <4>1, <5>1 DEF ModeKnown
      <4>2. CASE fanPc' = "idle"
        <5>1. entry' >= 2
          BY <2>5, <4>2 DEF ConfigureLength
        <5>2. fan'.config = FanConfig(TRUE)'
          BY <3>3, <3>4, <5>1
        <5>3. FanConfig(TRUE)' = FanConfig(~useFanTable)'
          BY <2>1, <2>2 DEF FanConfig
        <5> QED
          BY <4>2, <5>2, <5>3 DEF ModeKnown
      <4> QED
        BY <2>5, <4>1, <4>2
    <3>9. Uploaded' /\ ReadingHeld'
      BY <2>5 DEF Uploaded, ReadingHeld
    <3> QED
      BY <3>4, <3>5, <3>10, <3>7, <3>8, <3>9 DEF FanSafe
  <2> QED
    BY <1>2, <2>4, <2>5 DEF Configure
<1>3. ASSUME NEW m \in Maps, SetFanMap(m) PROVE FanSafe'
  <2>1. /\ fanPc = "idle" /\ fanCalls < MaxFanCalls /\ fanCalls' = fanCalls + 1
        /\ fanMap' = m /\ entry' = 0
        /\ UNCHANGED <<useFanTable, invertPwm, minRpm, fan, low, seen>>
    BY <1>3 DEF SetFanMap, FanCall, ReadingVars
  <2>2. \/ fanPc' = "idle" /\ fanErr' \in {"InvalidMode", "InvalidMap", "ok"}
        \/ fanPc' = "uploading" /\ fanErr' = fanErr /\ ~useFanTable
    BY <1>3 DEF SetFanMap, FanReturn, Refusal
  <2>3. m \in Seq(FanMapEntry) /\ Len(m) <= TableSize
    BY <1>3 DEF FanConstants
  <2>4. FanCallTyped'
    BY <1>a, <2>1, <2>2 DEF FanCallTyped
  <2>5. FanCountsTyped'
    BY <1>a, <2>1 DEF FanCountsTyped, FanConstants, TableSize
  <2>6. FanMapTyped'
    BY <2>1, <2>3 DEF FanMapTyped
  <2>7. SeenTyped' /\ fan' \in Chip
    BY <1>a, <2>1 DEF SeenTyped
  <2>8. ModeKnown'
    BY <1>a, <2>1, <2>2 DEF ModeKnown, FanConfig
  <2>9. Uploaded'
    <3>1. 0 <= 2 * Len(m)
      BY <2>3, LenProperties
    <3> QED
      BY <2>1, <2>2, <3>1 DEF Uploaded
  <2>10. ReadingHeld'
    BY <2>2 DEF ReadingHeld
  <2> QED
    BY <2>4, <2>5, <2>6, <2>7, <2>8, <2>9, <2>10 DEF FanSafe
<1>4. CASE UploadNext
  <2>1. /\ fanPc = "uploading"
        /\ UNCHANGED <<useFanTable, invertPwm, minRpm, fanMap, low, seen, fanCalls>>
    BY <1>4 DEF UploadNext, ReadingVars
  <2>2. /\ ~useFanTable /\ entry <= 2 * Len(fanMap)
        /\ \A k \in 0..entry - 1 : fan.table[k] = Byte(k)
        /\ fan.config = FanConfig(TRUE)
    <3>1. fan.config = FanConfig(~useFanTable)
      BY <1>a, <2>1 DEF ModeKnown
    <3>2. ~useFanTable
      BY <1>a, <2>1 DEF Uploaded
    <3>3. fan.config = FanConfig(TRUE)
      BY <3>1, <3>2 DEF FanConfig
    <3> QED
      BY <1>a, <2>1, <3>2, <3>3 DEF Uploaded
  <2>3. CASE fanPc' = "idle" /\ fanErr' \in {"ok", "bus"} /\ UNCHANGED <<fan, entry>>
    <3>1. FanCallTyped'
      BY <1>a, <2>1, <2>3 DEF FanCallTyped
    <3>2. FanCountsTyped' /\ FanMapTyped' /\ SeenTyped' /\ fan' \in Chip
      BY <1>a, <2>1, <2>3 DEF FanCountsTyped, FanMapTyped, SeenTyped
    <3>3. ModeKnown'
      BY <1>a, <2>1, <2>3 DEF ModeKnown, FanConfig
    <3>4. Uploaded' /\ ReadingHeld'
      BY <2>3 DEF Uploaded, ReadingHeld
    <3> QED
      BY <3>1, <3>2, <3>3, <3>4 DEF FanSafe
  <2>4. CASE /\ entry # 2 * Len(fanMap) /\ entry' = entry + 1 /\ UNCHANGED <<fanPc, fanErr>>
             /\ fan' = IF fan.config.manual
                       THEN [fan EXCEPT !.table = [fan.table EXCEPT ![entry] = Byte(entry)]]
                       ELSE fan
    <3>1. PICK n \in Nat : n = Len(fanMap)
      BY <1>a, LenProperties DEF FanMapTyped
    <3>2. /\ entry \in Nat /\ entry < 2 * Len(fanMap) /\ entry + 1 <= 2 * Len(fanMap)
          /\ entry + 1 <= 16
      <4>1. entry \in Nat /\ entry <= 2 * n /\ entry # 2 * n /\ n <= 8
        BY <1>a, <2>2, <2>4, <3>1 DEF FanCountsTyped, FanMapTyped, TableSize
      <4>2. entry < 2 * n /\ entry + 1 <= 2 * n /\ entry + 1 <= 16
        BY <4>1
      <4> QED
        BY <3>1, <4>1, <4>2
    <3>3. entry \in TableRegisters /\ Byte(entry) \in 0..127
      BY <1>a, <3>2, ByteFits
    <3>4. PICK b \in 0..127 : b = Byte(entry)
      BY <3>3
    <3>5. fan' = [fan EXCEPT !.table = [fan.table EXCEPT ![entry] = b]]
      <4>1. fan.config.manual
        BY <2>2 DEF FanConfig
      <4> QED
        BY <2>4, <3>4, <4>1
    <3>6. /\ fan' \in Chip /\ fan'.config = fan.config /\ fan'.tach = fan.tach
          /\ fan'.table[entry] = b
          /\ \A j \in TableRegisters : j # entry => fan'.table[j] = fan.table[j]
      BY <1>a, <3>3, <3>5, TableWritten
    <3>7. FanCallTyped'
      BY <1>a, <2>1, <2>4 DEF FanCallTyped
    <3>8. FanCountsTyped'
      <4>1. entry' \in 0..16
        BY <2>4, <3>2
      <4>2. low' \in 0..255 /\ fanCalls' \in 0..MaxFanCalls
        BY <1>a, <2>1 DEF FanCountsTyped
      <4> QED
        BY <4>1, <4>2 DEF FanCountsTyped, TableSize
    <3>9. FanMapTyped' /\ SeenTyped'
      BY <1>a, <2>1, <3>6 DEF FanMapTyped, SeenTyped
    <3>10. ModeKnown'
      BY <1>a, <2>1, <2>4, <3>6 DEF ModeKnown, FanConfig
    <3>11. Uploaded'
      <4>1. \A k : Byte(k)' = Byte(k)
        BY <2>1 DEF Byte
      <4>2. \A k \in 0..entry : fan'.table[k] = Byte(k)
        <5> SUFFICES ASSUME NEW k \in 0..entry PROVE fan'.table[k] = Byte(k)
          OBVIOUS
        <5>1. CASE k = entry
          BY <3>4, <3>6, <5>1
        <5>2. CASE k # entry
          <6>1. k \in 0..entry - 1 /\ k \in TableRegisters
            BY <3>2, <5>2 DEF TableRegisters, TableSize
          <6>2. fan'.table[k] = fan.table[k]
            BY <3>6, <5>2, <6>1
          <6> QED
            BY <2>2, <6>1, <6>2
        <5> QED
          BY <5>1, <5>2
      <4>3. entry' - 1 = entry
        BY <2>4, <3>2
      <4>4. \A k \in 0..entry' - 1 : fan'.table[k] = Byte(k)'
        BY <4>1, <4>2, <4>3
      <4>5. ~useFanTable' /\ entry' <= 2 * Len(fanMap')
        BY <2>1, <2>2, <2>4, <3>2
      <4> QED
        BY <4>4, <4>5 DEF Uploaded
    <3>12. ReadingHeld'
      BY <2>1, <2>4 DEF ReadingHeld
    <3> QED
      BY <3>6, <3>7, <3>8, <3>9, <3>10, <3>11, <3>12 DEF FanSafe
  <2> QED
    BY <1>4, <2>3, <2>4 DEF UploadNext, FanReturn
<1>5. ASSUME NEW automatic \in BOOLEAN, SetFanMode(automatic) PROVE FanSafe'
  <2>1. /\ fanPc = "idle" /\ fanPc' = "idle" /\ fanCalls < MaxFanCalls /\ fanCalls' = fanCalls + 1
        /\ UNCHANGED <<invertPwm, minRpm, fanMap, entry, low, seen>>
        /\ \/ /\ fan' = [fan EXCEPT !.config = FanConfig(~automatic)]
              /\ useFanTable' = automatic /\ fanErr' = "ok"
           \/ fanErr' = "bus" /\ UNCHANGED <<fan, useFanTable>>
    BY <1>5 DEF SetFanMode, FanCall, FanReturn, UploadVars, ReadingVars
  <2>2. PICK c \in ChipConfigs : c = FanConfig(~automatic)
    <3>1. invertPwm \in BOOLEAN /\ (~automatic) \in BOOLEAN
      BY <1>a, <1>5 DEF FanCallTyped
    <3>2. FanConfig(~automatic) \in ChipConfigs
      BY <3>1, FanConfigTyped
    <3> QED
      BY <3>2
  <2>3. /\ fan' \in Chip /\ fan'.tach = fan.tach
        /\ \/ fan'.config = c /\ useFanTable' = automatic
           \/ UNCHANGED <<fan, useFanTable>>
    <3>1. CASE fan' = [fan EXCEPT !.config = FanConfig(~automatic)] /\ useFanTable' = automatic
      <4>1. fan' = [fan EXCEPT !.config = c]
        BY <2>2, <3>1
      <4> QED
        BY <1>a, <3>1, <4>1, ConfigWritten
    <3>2. CASE UNCHANGED <<fan, useFanTable>>
      BY <1>a, <3>2
    <3> QED
      BY <2>1, <3>1, <3>2
  <2>4. FanCallTyped'
    BY <1>a, <2>1 DEF FanCallTyped
  <2>5. FanCountsTyped'
    BY <1>a, <2>1 DEF FanCountsTyped, FanConstants, TableSize
  <2>6. FanMapTyped' /\ SeenTyped'
    BY <1>a, <2>1, <2>3 DEF FanMapTyped, SeenTyped
  <2>7. ModeKnown'
    <3>1. fan'.config = FanConfig(~useFanTable)'
      <4>1. CASE fan'.config = c /\ useFanTable' = automatic
        BY <2>1, <2>2, <4>1 DEF FanConfig
      <4>2. CASE UNCHANGED <<fan, useFanTable>>
        BY <1>a, <2>1, <4>2 DEF ModeKnown, FanConfig
      <4> QED
        BY <2>3, <4>1, <4>2
    <3> QED
      BY <2>1, <3>1 DEF ModeKnown
  <2>8. Uploaded' /\ ReadingHeld'
    BY <2>1 DEF Uploaded, ReadingHeld
  <2> QED
    BY <2>3, <2>4, <2>5, <2>6, <2>7, <2>8 DEF FanSafe
<1>6. ASSUME NEW speed \in {0, 255}, SetFanSpeed(speed) PROVE FanSafe'
  <2>1. /\ fanPc = "idle" /\ fanPc' = "idle" /\ fanCalls < MaxFanCalls /\ fanCalls' = fanCalls + 1
        /\ fanErr' \in {"ok", "bus", "InvalidMode"}
        /\ UNCHANGED <<useFanTable, invertPwm, minRpm, fanMap, entry, low, seen>>
        /\ fan' = fan \/ fan' = [fan EXCEPT !.speed = speed \div 4]
    BY <1>6 DEF SetFanSpeed, FanCall, FanReturn, UploadVars, ReadingVars
  <2>2. fan' \in Chip /\ fan'.config = fan.config /\ fan'.tach = fan.tach
    <3>1. PICK n \in DutySteps : n = speed \div 4
      BY DEF DutySteps
    <3>2. fan' = fan \/ fan' = [fan EXCEPT !.speed = n]
      BY <2>1, <3>1
    <3> QED
      BY <1>a, <3>2, SpeedWritten
  <2>3. FanCallTyped'
    BY <1>a, <2>1 DEF FanCallTyped
  <2>4. FanCountsTyped'
    BY <1>a, <2>1 DEF FanCountsTyped, FanConstants, TableSize
  <2>5. FanMapTyped' /\ SeenTyped'
    BY <1>a, <2>1, <2>2 DEF FanMapTyped, SeenTyped
  <2>6. ModeKnown' /\ Uploaded' /\ ReadingHeld'
    BY <1>a, <2>1, <2>2 DEF ModeKnown, FanConfig, Uploaded, ReadingHeld
  <2> QED
    BY <2>2, <2>3, <2>4, <2>5, <2>6 DEF FanSafe
<1>7. CASE GetFanSpeed
  <2>1. /\ fanPc = "idle" /\ fanCalls < MaxFanCalls /\ fanCalls' = fanCalls + 1
        /\ UNCHANGED <<useFanTable, invertPwm, minRpm, fanMap, entry>>
        /\ \/ /\ low' = fan.tach % 256 /\ fan' = [fan EXCEPT !.held = fan.tach \div 256]
              /\ seen' = <<fan.tach>> /\ fanPc' = "reading" /\ fanErr' = fanErr
           \/ fanPc' = "idle" /\ fanErr' = "bus" /\ UNCHANGED <<low, fan, seen>>
    BY <1>7 DEF GetFanSpeed, FanCall, FanReturn, UploadVars
  <2>2. PICK x \in Counts : x = fan.tach
    BY <1>a DEF SeenTyped
  <2>3. x % 256 \in 0..255 /\ x \div 256 \in Octets
    BY BytesOfCount
  <2>4. PICK q \in Octets : q = x \div 256
    BY <2>3
  <2>5. /\ fan' \in Chip /\ fan'.config = fan.config /\ fan'.tach = x
        /\ \/ /\ fanPc' = "reading" /\ seen' = <<x>> /\ low' = x % 256 /\ fan'.held = q
           \/ fanPc' = "idle" /\ seen' = seen /\ low' = low
    <3>1. CASE fan' = fan /\ fanPc' = "idle" /\ seen' = seen /\ low' = low
      BY <1>a, <2>2, <3>1
    <3>2. CASE /\ low' = fan.tach % 256 /\ fan' = [fan EXCEPT !.held = fan.tach \div 256]
               /\ seen' = <<fan.tach>> /\ fanPc' = "reading"
      <4>1. fan' = [fan EXCEPT !.held = q]
        BY <2>2, <2>4, <3>2
      <4>2. fan' \in Chip /\ fan'.config = fan.config /\ fan'.tach = fan.tach /\ fan'.held = q
        BY <1>a, <4>1, CountHeld
      <4> QED
        BY <2>2, <3>2, <4>2
    <3> QED
      BY <2>1, <3>1, <3>2
  <2>6. FanCallTyped'
    BY <1>a, <2>1 DEF FanCallTyped
  <2>7. FanCountsTyped'
    <3>1. low' \in 0..255
      BY <1>a, <2>3, <2>5 DEF FanCountsTyped
    <3>2. entry' \in 0..2 * TableSize /\ fanCalls' \in 0..MaxFanCalls
      BY <1>a, <2>1 DEF FanCountsTyped, FanConstants, TableSize
    <3> QED
      BY <3>1, <3>2 DEF FanCountsTyped
  <2>8. FanMapTyped'
    BY <1>a, <2>1 DEF FanMapTyped
  <2>9. SeenTyped'
    <3>1. <<x>> \in Seq(Counts)
      OBVIOUS
    <3> QED
      BY <1>a, <2>5, <3>1 DEF SeenTyped
  <2>10. ModeKnown'
    BY <1>a, <2>1, <2>5 DEF ModeKnown, FanConfig
  <2>11. Uploaded'
    BY <2>5 DEF Uploaded
  <2>12. ReadingHeld'
    <3>1. <<x>> # <<>> /\ <<x>>[1] = x
      OBVIOUS
    <3> QED
      BY <2>4, <2>5, <3>1 DEF ReadingHeld
  <2> QED
    BY <2>5, <2>6, <2>7, <2>8, <2>9, <2>10, <2>11, <2>12 DEF FanSafe
<1>8. ASSUME NEW count \in Readings, FanTurns(count) PROVE FanSafe'
  <2>1. /\ fanPc = "reading" /\ fan' = [fan EXCEPT !.tach = count] /\ seen' = Append(seen, count)
        /\ UNCHANGED <<fanPc, useFanTable, invertPwm, minRpm, fanMap, entry, low, fanErr, fanCalls>>
    BY <1>8 DEF FanTurns, UploadVars
  <2>2. count \in Counts
    BY <1>8 DEF FanConstants
  <2>3. fan' \in Chip /\ fan'.config = fan.config /\ fan'.tach = count /\ fan'.held = fan.held
    BY <1>a, <2>1, <2>2, CountChanged
  <2>4. seen \in Seq(Counts) /\ seen # <<>>
    BY <1>a, <2>1 DEF SeenTyped, ReadingHeld
  <2>5. seen' \in Seq(Counts) /\ seen' # <<>> /\ seen'[1] = seen[1]
    <3>1. PICK n \in Nat : n = Len(seen)
      BY <2>4, LenProperties
    <3>2. 1 \in 1..n
      BY <2>4, <3>1, EmptySeq
    <3>3. seen' \in Seq(Counts) /\ Len(seen') = n + 1 /\ seen'[1] = seen[1]
      BY <2>1, <2>2, <2>4, <3>1, <3>2, AppendProperties
    <3> QED
      BY <3>1, <3>3
  <2>6. FanCallTyped'
    BY <1>a, <2>1 DEF FanCallTyped
  <2>7. FanCountsTyped' /\ FanMapTyped' /\ SeenTyped'
    BY <1>a, <2>1, <2>2, <2>3, <2>5 DEF FanCountsTyped, FanMapTyped, SeenTyped
  <2>8. ModeKnown'
    BY <1>a, <2>1, <2>3 DEF ModeKnown, FanConfig
  <2>9. Uploaded'
    BY <2>1 DEF Uploaded
  <2>10. ReadingHeld'
    BY <1>a, <2>1, <2>3, <2>5 DEF ReadingHeld
  <2> QED
    BY <2>3, <2>6, <2>7, <2>8, <2>9, <2>10 DEF FanSafe
<1>9. CASE FinishReading
  <2>1. /\ fanPc = "reading" /\ fanPc' = "idle" /\ fanErr' \in {"ok", "bus"}
        /\ UNCHANGED <<useFanTable, invertPwm, minRpm, fan, fanMap, entry, low, seen, fanCalls>>
    BY <1>9 DEF FinishReading, FanReturn, UploadVars
  <2>2. FanCallTyped'
    BY <1>a, <2>1 DEF FanCallTyped
  <2>3. FanCountsTyped' /\ FanMapTyped' /\ SeenTyped'
    BY <1>a, <2>1 DEF FanCountsTyped, FanMapTyped, SeenTyped
  <2>4. ModeKnown'
    BY <1>a, <2>1 DEF ModeKnown, FanConfig
  <2>5. Uploaded' /\ ReadingHeld' /\ fan' \in Chip
    BY <1>a, <2>1 DEF Uploaded, ReadingHeld
  <2> QED
    BY <2>2, <2>3, <2>4, <2>5 DEF FanSafe
<1>10. CASE UNCHANGED fanVars
  <2>1. UNCHANGED <<fanPc, useFanTable, invertPwm, minRpm, fan, fanMap, entry, low, seen, fanErr,
                    fanCalls>>
    BY <1>10 DEF fanVars
  <2>2. FanCallTyped'
    BY <1>a, <2>1 DEF FanCallTyped
  <2>3. FanCountsTyped' /\ FanMapTyped' /\ SeenTyped'
    BY <1>a, <2>1 DEF FanCountsTyped, FanMapTyped, SeenTyped
  <2>4. ModeKnown'
    BY <1>a, <2>1 DEF ModeKnown, FanConfig, ConfigureLength
  <2>5. Uploaded' /\ ReadingHeld' /\ fan' \in Chip
    BY <1>a, <2>1 DEF Uploaded, ReadingHeld, Byte
  <2> QED
    BY <2>2, <2>3, <2>4, <2>5 DEF FanSafe
<1> QED
  BY <1>1, <1>2, <1>3, <1>4, <1>5, <1>6, <1>7, <1>8, <1>9, <1>10 DEF FanNext

LEMMA FanIsSafe == ASSUME FanConstants PROVE FanSpec => []FanSafe
<1>1. FanInit => FanSafe
  BY FanSafeInit
<1>2. FanSafe /\ [FanNext]_fanVars => FanSafe'
  BY FanSafeNext
<1> QED
  BY <1>1, <1>2, PTL DEF FanSpec

\* A result of getFanSpeed is the speed at the first of its two reads.
LEMMA ResultWasSeen ==
  ASSUME FanSafe, [FanNext]_fanVars, rpm' # rpm
  PROVE  seen # <<>> /\ seen[1] \in Counts /\ rpm' = Speed(seen[1])
<1>1. fanPc = "reading" /\ rpm' = Speed(256 * fan.held + low)
  BY DEF FanNext, fanVars, ConstructFan, Configure, SetFanMap, UploadNext, SetFanMode,
     SetFanSpeed, GetFanSpeed, FanTurns, FinishReading, ReadingVars
<1>2. /\ seen \in Seq(Counts) /\ seen # <<>>
      /\ low = seen[1] % 256 /\ fan.held = seen[1] \div 256
  BY <1>1 DEF FanSafe, SeenTyped, ReadingHeld
<1>3. PICK n \in Nat : n = Len(seen)
  BY <1>2, LenProperties
<1>4. 1 \in 1..n
  BY <1>2, <1>3, EmptySeq
<1>5. seen[1] \in Counts
  BY <1>2, <1>3, <1>4, ElementOfSeq
<1>6. 256 * fan.held + low = seen[1]
  BY <1>2, <1>5, CountOfBytes
<1> QED
  BY <1>1, <1>2, <1>5, <1>6

ResultTyped == rpm \in Nat \cup {-1}

LEMMA SpeedTyped == ASSUME NEW count \in Counts PROVE Speed(count) \in Nat \cup {-1}
<1>1. CountsPerMinute \in Nat
  BY SMT DEF CountsPerMinute
<1>2. count \in Nat /\ count > 0
  BY DEF Counts
<1>3. CountsPerMinute \div count \in Nat
  BY <1>1, <1>2
<1> QED
  BY <1>3 DEF Speed

LEMMA FanTyped == ASSUME FanConstants PROVE FanSpec => []FanTypeOK
<1>1. FanInit => ResultTyped
  BY DEF FanInit, ResultTyped
<1>2. ASSUME FanSafe, ResultTyped, [FanNext]_fanVars PROVE ResultTyped'
  <2>1. CASE rpm' = rpm
    BY <1>2, <2>1 DEF ResultTyped
  <2>2. CASE rpm' # rpm
    BY <1>2, <2>2, ResultWasSeen, SpeedTyped DEF ResultTyped
  <2> QED
    BY <2>1, <2>2
<1>3. ASSUME FanSafe, ResultTyped PROVE FanTypeOK
  <2>1. seen \in Seq(Words)
    <3>1. seen \in Seq(Counts) /\ Counts \subseteq Words
      BY <1>3, CountIsWord DEF FanSafe, SeenTyped
    <3> QED
      BY <3>1, SeqMonotonic
  <2>2. minRpm \in Nat
    BY <1>3 DEF FanSafe, FanCallTyped
  <2> QED
    BY <1>3, <2>1, <2>2 DEF FanSafe, FanCallTyped, FanCountsTyped, FanTypeOK, ResultTyped, Octets
<1>4. FanSafe /\ ResultTyped /\ [FanNext]_fanVars => ResultTyped'
  BY <1>2
<1>5. FanSafe /\ ResultTyped => FanTypeOK
  BY <1>3
<1> QED
  BY <1>1, <1>4, <1>5, FanIsSafe, PTL DEF FanSpec

\* Whichever accesses to the bus fail, the mode that the driver remembers is the chip's, and
\* so what setFanMap has written of any map is in the chip's table.
THEOREM MapsAreUploaded == ASSUME FanConstants PROVE FanSpec => [](FanTypeOK /\ UploadTakesEffect)
<1>1. FanSafe => UploadTakesEffect
  BY DEF FanSafe, ModeKnown, Uploaded, UploadTakesEffect
<1> QED
  BY <1>1, FanIsSafe, FanTyped, PTL

\* Although the fan may change its speed between the two reads, what getFanSpeed returns
\* is the speed at the first of them, for every count of the tachometer.
THEOREM SpeedsWereReal == ASSUME FanConstants PROVE FanSpec => SpeedWasReal
<1>1. ASSUME FanSafe, [FanNext]_fanVars, rpm' # rpm
      PROVE  \E i \in 1..Len(seen) : rpm' = Speed(seen[i])
  <2>1. seen \in Seq(Counts)
    BY <1>1 DEF FanSafe, SeenTyped
  <2>2. seen # <<>> /\ rpm' = Speed(seen[1])
    BY <1>1, ResultWasSeen
  <2>3. PICK n \in Nat : n = Len(seen)
    BY <2>1, LenProperties
  <2>4. 1 \in 1..n
    BY <2>1, <2>2, <2>3, EmptySeq
  <2> QED
    BY <2>2, <2>3, <2>4
<1>2. FanSafe /\ [FanNext]_fanVars => [rpm' # rpm => \E i \in 1..Len(seen) : rpm' = Speed(seen[i])]_fanVars
  BY <1>1
<1> QED
  BY <1>2, FanIsSafe, PTL DEF FanSpec, SpeedWasReal

-----------------------------------------------------------------------------
(* The decoder of confd's replies *)

\* A value is decoded as what the key before it was recognised as.
ValueFollowsKey ==
  ~isKey => pos < Len(payload) /\ next = KeyOf(Item.name)

\* PrefixDecoded after n entries, for the response r.
DecodedAs(r, n) ==
  /\ r.keyFound <=> type = "Query" /\ LastSays("found", {"true"}, Booleans, n)
  /\ r.updated <=> type = "Update" /\ LastSays("updated", {"true"}, Booleans, n)
  /\ \A kind \in Kinds \ {"monostate"} :
       (r.value = kind) <=> type = "Query" /\ LastSays("value", {kind}, AllValues, n)

DecodeSafe == TypeOK /\ ValueFollowsKey /\ DecodedAs(response, pos)

LEMMA PayloadIsSeq == ASSUME payload \in Payloads PROVE payload \in Seq(Entry)
<1>1. PICK n \in 0..MaxEntries : payload \in [1..n -> Entry]
  BY DEF Payloads
<1>2. n \in Nat
  BY DecodeAssumption
<1> QED
  BY <1>1, <1>2, SeqDef

LEMMA ItemTyped ==
  ASSUME TypeOK, pos < Len(payload)
  PROVE  /\ Len(payload) \in Nat /\ pos \in Nat /\ pos + 1 \in 1..Len(payload)
         /\ Item.name \in AllNames /\ Item.value \in AllValues
<1>1. payload \in Seq(Entry)
  BY PayloadIsSeq DEF TypeOK
<1>2. Len(payload) \in Nat /\ pos \in 0..Len(payload)
  BY <1>1, LenProperties DEF TypeOK
<1>3. pos + 1 \in 1..Len(payload)
  BY <1>2
<1>4. Item \in Entry
  BY <1>1, <1>3, ElementOfSeq DEF Item
<1>5. Item.name \in Names /\ Item.value \in Values
  BY <1>4 DEF Entry
<1> QED
  BY <1>2, <1>3, <1>5, DecodeAssumption

\* What the last entry of a name says, when there is one more: its value if it has the
\* name, and what was said before otherwise.
LEMMA LastSaysNext ==
  ASSUME NEW name, NEW values, NEW among, values \subseteq among,
         NEW n \in Nat
  PROVE  LastSays(name, values, among, n + 1) <=>
           IF payload[n + 1].name = name /\ payload[n + 1].value \in among
           THEN payload[n + 1].value \in values ELSE LastSays(name, values, among, n)
<1>1. \A i \in 1..n + 1 : i \in 1..n \/ i = n + 1
  OBVIOUS
<1>2. n + 1 \in 1..n + 1 /\ \A i \in 1..n : i \in 1..n + 1 /\ i <= n + 1 /\ i \in Int
  OBVIOUS
<1>3. CASE payload[n + 1].name = name /\ payload[n + 1].value \in among
  <2>1. n + 1 \in Says(name, among, n + 1)
    BY <1>2, <1>3 DEF Says
  <2>2. ASSUME LastSays(name, values, among, n + 1)
        PROVE  payload[n + 1].value \in values
    <3>1. PICK i \in Says(name, values, n + 1) : \A j \in Says(name, among, n + 1) : j <= i
      BY <2>2 DEF LastSays
    <3>2. n + 1 <= i /\ i \in 1..n + 1 /\ payload[i].value \in values
      BY <2>1, <3>1 DEF Says
    <3>3. i = n + 1
      BY <3>2
    <3> QED
      BY <3>2, <3>3
  <2>3. ASSUME payload[n + 1].value \in values
        PROVE  LastSays(name, values, among, n + 1)
    <3>1. n + 1 \in Says(name, values, n + 1)
      BY <1>2, <1>3, <2>3 DEF Says
    <3>2. \A j \in Says(name, among, n + 1) : j <= n + 1
      BY DEF Says
    <3> QED
      BY <3>1, <3>2 DEF LastSays
  <2> QED
    BY <1>3, <2>2, <2>3
<1>4. CASE ~(payload[n + 1].name = name /\ payload[n + 1].value \in among)
  <2>1. Says(name, values, n + 1) = Says(name, values, n)
    BY <1>1, <1>2, <1>4 DEF Says
  <2>2. Says(name, among, n + 1) = Says(name, among, n)
    BY <1>1, <1>2, <1>4 DEF Says
  <2> QED
    BY <1>4, <2>1, <2>2 DEF LastSays
<1> QED
  BY <1>3, <1>4

LEMMA NothingSaid ==
  ASSUME NEW name, NEW values, NEW among PROVE ~LastSays(name, values, among, 0)
BY DEF LastSays, Says

LEMMA KeyMeaning ==
  ASSUME type \in MsgTypes, NEW name \in AllNames
  PROVE  /\ KeyOf(name) = "Value" <=> type = "Query" /\ name = "value"
         /\ KeyOf(name) = "IsFound" <=> type = "Query" /\ name = "found"
         /\ KeyOf(name) = "DidUpdate" <=> type = "Update" /\ name = "updated"
         /\ KeyOf(name) \in {"Unknown", "KeyName", "IsFound", "Value", "DidUpdate"}
BY SMT DEF KeyOf, KnownKey, MsgTypes, AllNames

LEMMA DecodeInit == Init => DecodeSafe
<1> SUFFICES ASSUME Init PROVE DecodeSafe
  OBVIOUS
<1>1. /\ type \in MsgTypes /\ isMap \in BOOLEAN /\ payload \in Payloads
      /\ pos = 0 /\ isKey = TRUE /\ next = "Unknown" /\ err = "running"
      /\ response = [keyFound |-> FALSE, updated |-> FALSE, value |-> "monostate"]
  BY DEF Init, DefaultResponse
<1>2. Len(payload) \in Nat
  BY <1>1, PayloadIsSeq, LenProperties
<1>3. response \in Response
  BY <1>1 DEF Response, Kinds
<1>4. TypeOK
  BY <1>1, <1>2, <1>3 DEF TypeOK
<1>5. ValueFollowsKey
  BY <1>1 DEF ValueFollowsKey
<1>6. DecodedAs(response, pos)
  <2>1. response.keyFound = FALSE /\ response.updated = FALSE /\ response.value = "monostate"
    BY <1>1
  <2> QED
    BY <1>1, <2>1, NothingSaid DEF DecodedAs
<1> QED
  BY <1>4, <1>5, <1>6 DEF DecodeSafe

\* Decoding goes on with the next entry.
LEMMA EntryStored ==
  ASSUME DecodeSafe, pos < Len(payload), NEW r, Store(r), r \in Response,
         DecodedAs(r, pos + 1)
  PROVE  DecodeSafe'
<1>1. /\ TypeOK /\ pos + 1 \in 0..Len(payload)
  BY ItemTyped DEF DecodeSafe
<1>2. /\ response' = r /\ pos' = pos + 1 /\ isKey' = TRUE
      /\ UNCHANGED <<type, isMap, payload, next, err>>
  BY DEF Store, inputs
<1>3. TypeOK'
  BY <1>1, <1>2 DEF TypeOK
<1>4. ValueFollowsKey'
  BY <1>2 DEF ValueFollowsKey
<1>5. DecodedAs(response, pos)'
  BY <1>2 DEF DecodedAs, LastSays, Says
<1> QED
  BY <1>3, <1>4, <1>5 DEF DecodeSafe

LEMMA DecodeStopped ==
  ASSUME DecodeSafe, NEW why \in {"none", "MalformedResponse", "advance"}, Stop(why)
  PROVE  DecodeSafe'
<1>1. /\ TypeOK /\ ValueFollowsKey /\ DecodedAs(response, pos)
      /\ err' = why /\ UNCHANGED <<type, isMap, payload, pos, isKey, next, response>>
  BY DEF DecodeSafe, Stop, inputs
<1>2. TypeOK'
  BY <1>1 DEF TypeOK
<1>3. ValueFollowsKey'
  BY <1>1 DEF ValueFollowsKey, KeyOf, KnownKey, Item
<1>4. DecodedAs(response, pos)'
  BY <1>1 DEF DecodedAs, LastSays, Says
<1> QED
  BY <1>2, <1>3, <1>4 DEF DecodeSafe

LEMMA DecodeNext == DecodeSafe /\ [Next]_vars => DecodeSafe'
<1> SUFFICES ASSUME DecodeSafe, [Next]_vars PROVE DecodeSafe'
  OBVIOUS
<1>a. TypeOK /\ ValueFollowsKey /\ DecodedAs(response, pos)
  BY DEF DecodeSafe
<1>b. type \in MsgTypes /\ response \in Response
  BY <1>a DEF TypeOK
<1>1. CASE \E why \in {"none", "MalformedResponse", "advance"} : Stop(why)
  BY <1>1, DecodeStopped
<1>2. CASE ReadKey
  <2>1. /\ isKey /\ pos < Len(payload) /\ next' = KeyOf(Item.name) /\ isKey' = FALSE
        /\ UNCHANGED <<type, isMap, payload, pos, response, err>>
    BY <1>2 DEF ReadKey, AtKey, inputs
  <2>2. KeyOf(Item.name) \in {"Unknown", "KeyName", "IsFound", "Value", "DidUpdate"}
    BY <1>a, <1>b, <2>1, ItemTyped, KeyMeaning
  <2>3. TypeOK'
    BY <1>a, <2>1, <2>2 DEF TypeOK
  <2>4. ValueFollowsKey'
    BY <2>1 DEF ValueFollowsKey, KeyOf, KnownKey, Item
  <2>5. DecodedAs(response, pos)'
    BY <1>a, <2>1 DEF DecodedAs, LastSays, Says
  <2> QED
    BY <2>3, <2>4, <2>5 DEF DecodeSafe
<1>3. ASSUME AtValue, NEW r, Store(r),
             \/ /\ next = "Value" /\ Item.value \in {"int", "float", "text", "bytes", "null"}
                /\ r = [response EXCEPT !.value = Alternative(Item.value)]
             \/ next = "IsFound" /\ r = [response EXCEPT !.keyFound = Flag(response.keyFound)]
             \/ next = "DidUpdate" /\ r = [response EXCEPT !.updated = Flag(response.updated)]
             \/ next \in {"Unknown", "KeyName"} /\ r = response
      PROVE  DecodeSafe'
  <2>1. pos < Len(payload) /\ next = KeyOf(Item.name)
    BY <1>a, <1>3 DEF AtValue, ValueFollowsKey
  <2>2. pos \in Nat /\ Item.name \in AllNames /\ Item.value \in AllValues
    BY <1>a, <2>1, ItemTyped
  <2>3. /\ next = "Value" <=> type = "Query" /\ Item.name = "value"
        /\ next = "IsFound" <=> type = "Query" /\ Item.name = "found"
        /\ next = "DidUpdate" <=> type = "Update" /\ Item.name = "updated"
    BY <1>b, <2>1, <2>2, KeyMeaning
  <2>4. /\ LastSays("found", {"true"}, Booleans, pos + 1) <=>
             IF Item.name = "found" /\ Item.value \in Booleans
             THEN Item.value = "true" ELSE LastSays("found", {"true"}, Booleans, pos)
        /\ LastSays("updated", {"true"}, Booleans, pos + 1) <=>
             IF Item.name = "updated" /\ Item.value \in Booleans
             THEN Item.value = "true" ELSE LastSays("updated", {"true"}, Booleans, pos)
    <3>1. {"true"} \subseteq Booleans
      BY DEF Booleans
    <3> QED
      BY <2>2, <3>1, LastSaysNext DEF Item
  <2>5. \A kind \in Kinds \ {"monostate"} :
          LastSays("value", {kind}, AllValues, pos + 1) <=>
            IF Item.name = "value" THEN Item.value = kind
            ELSE LastSays("value", {kind}, AllValues, pos)
    <3> SUFFICES ASSUME NEW kind \in Kinds \ {"monostate"}
                 PROVE  LastSays("value", {kind}, AllValues, pos + 1) <=>
                          IF Item.name = "value" THEN Item.value = kind
                          ELSE LastSays("value", {kind}, AllValues, pos)
      OBVIOUS
    <3>1. {kind} \subseteq AllValues
      BY DEF Kinds, AllValues, FixedValues
    <3> QED
      BY <2>2, <3>1, LastSaysNext DEF Item
  <2>6. r \in Response /\ DecodedAs(r, pos + 1)
    <3>1. CASE /\ next = "Value" /\ Item.value \in {"int", "float", "text", "bytes", "null"}
               /\ r = [response EXCEPT !.value = Alternative(Item.value)]
      <4>1. PICK k \in Kinds : k = Alternative(Item.value)
        BY <3>1 DEF Alternative, Kinds
      <4>2. /\ r \in Response /\ r.value = k
            /\ r.keyFound = response.keyFound /\ r.updated = response.updated
        BY <1>b, <3>1, <4>1 DEF Response
      <4>3. type = "Query" /\ Item.name = "value"
        BY <2>3, <3>1
      <4>4. \A kind \in Kinds \ {"monostate"} : k = kind <=> Item.value = kind
        BY <3>1, <4>1 DEF Alternative, Kinds
      <4> QED
        BY <1>a, <2>4, <2>5, <4>2, <4>3, <4>4 DEF DecodedAs
    <3>2. CASE next = "IsFound" /\ r = [response EXCEPT !.keyFound = Flag(response.keyFound)]
      <4>1. PICK b \in BOOLEAN : b = Flag(response.keyFound)
        BY <1>b DEF Flag, Response
      <4>2. /\ r \in Response /\ r.keyFound = b
            /\ r.value = response.value /\ r.updated = response.updated
        BY <1>b, <3>2, <4>1 DEF Response
      <4>3. type = "Query" /\ Item.name = "found"
        BY <2>3, <3>2
      <4>4. b <=> IF Item.value \in Booleans THEN Item.value = "true" ELSE response.keyFound
        BY <4>1 DEF Flag
      <4> QED
        BY <1>a, <2>4, <2>5, <4>2, <4>3, <4>4 DEF DecodedAs
    <3>3. CASE next = "DidUpdate" /\ r = [response EXCEPT !.updated = Flag(response.updated)]
      <4>1. PICK b \in BOOLEAN : b = Flag(response.updated)
        BY <1>b DEF Flag, Response
      <4>2. /\ r \in Response /\ r.updated = b
            /\ r.value = response.value /\ r.keyFound = response.keyFound
        BY <1>b, <3>3, <4>1 DEF Response
      <4>3. type = "Update" /\ Item.name = "updated"
        BY <2>3, <3>3
      <4>4. b <=> IF Item.value \in Booleans THEN Item.value = "true" ELSE response.updated
        BY <4>1 DEF Flag
      <4> QED
        BY <1>a, <2>4, <2>5, <4>2, <4>3, <4>4 DEF DecodedAs
    <3>4. CASE next \in {"Unknown", "KeyName"} /\ r = response
      BY <1>a, <1>b, <2>3, <2>4, <2>5, <3>4 DEF DecodedAs, MsgTypes
    <3> QED
      BY <1>3, <3>1, <3>2, <3>3, <3>4
  <2> QED
    BY <1>3, <2>1, <2>6, EntryStored
<1>4. CASE ReadValue \/ ReadFlag \/ SkipValue
  BY <1>1, <1>3, <1>4 DEF ReadValue, ReadFlag, SkipValue
<1>5. CASE UNCHANGED vars
  <2>1. UNCHANGED <<type, isMap, payload, pos, isKey, next, response, err>>
    BY <1>5 DEF vars
  <2>2. TypeOK'
    BY <1>a, <2>1 DEF TypeOK
  <2>3. ValueFollowsKey'
    BY <1>a, <2>1 DEF ValueFollowsKey, KeyOf, KnownKey, Item
  <2>4. DecodedAs(response, pos)'
    BY <1>a, <2>1 DEF DecodedAs, LastSays, Says
  <2> QED
    BY <2>2, <2>3, <2>4 DEF DecodeSafe
<1> QED
  BY <1>1, <1>2, <1>4, <1>5 DEF Next, CheckRoot, RejectKey, CannotSkip, Finish

\* An equation of truth values.
LEMMA SameTruth == ASSUME NEW x \in BOOLEAN, NEW y \in BOOLEAN, x <=> y PROVE x = y
OBVIOUS

LEMMA DecodedIsRight == ASSUME DecodeSafe PROVE RepliesDecoded
<1>1. response \in Response /\ DecodedAs(response, pos) /\ TypeOK
  BY DEF DecodeSafe, TypeOK
<1>2. response.keyFound \in BOOLEAN /\ response.updated \in BOOLEAN /\ response.value \in Kinds
  BY <1>1 DEF Response
<1>3. PrefixDecoded
  <2>1. response.keyFound = (type = "Query" /\ LastSays("found", {"true"}, Booleans, pos))
    BY <1>1, <1>2, SameTruth DEF DecodedAs
  <2>2. response.updated = (type = "Update" /\ LastSays("updated", {"true"}, Booleans, pos))
    BY <1>1, <1>2, SameTruth DEF DecodedAs
  <2>3. \A kind \in Kinds \ {"monostate"} :
          (response.value = kind) =
             (type = "Query" /\ LastSays("value", {kind}, AllValues, pos))
    BY <1>1, SameTruth DEF DecodedAs
  <2> QED
    BY <2>1, <2>2, <2>3 DEF PrefixDecoded
<1>4. SuccessIsBacked
  <2> SUFFICES ASSUME NEW wanted \in {"int", "float", "text", "bytes"}, BodyFor(wanted) = "match"
               PROVE  IF type = "Update" THEN Says("updated", {"true"}, Len(payload)) # {}
                      ELSE /\ Says("found", {"true"}, Len(payload)) # {}
                           /\ Says("value", {wanted}, Len(payload)) # {}
    BY DEF SuccessIsBacked
  <2>1. ASSUME NEW name, NEW values, NEW among, LastSays(name, values, among, pos)
        PROVE  Says(name, values, Len(payload)) # {}
    <3>1. PICK i : i \in Says(name, values, pos)
      BY <2>1 DEF LastSays
    <3>2. Len(payload) \in Nat /\ pos \in 0..Len(payload)
      BY <1>1, PayloadIsSeq, LenProperties DEF TypeOK
    <3>3. i \in 1..pos /\ \A j \in 1..pos : j \in 1..Len(payload)
      BY <3>1, <3>2 DEF Says
    <3> QED
      BY <3>1, <3>3 DEF Says
  <2>2. CASE type = "Update"
    <3>1. response.updated
      BY <2>2 DEF BodyFor
    <3> QED
      BY <1>1, <2>1, <2>2, <3>1 DEF DecodedAs
  <2>3. CASE type # "Update"
    <3>1. response.keyFound /\ response.value = wanted
      BY <2>3 DEF BodyFor
    <3>2. wanted \in Kinds \ {"monostate"}
      BY DEF Kinds
    <3> QED
      BY <1>1, <2>1, <2>3, <3>1, <3>2 DEF DecodedAs
  <2> QED
    BY <2>2, <2>3
<1> QED
  BY <1>1, <1>3, <1>4 DEF RepliesDecoded

\* Whatever a reply contains, in whatever order and however malformed, at every point the
\* response is what the entries decoded so far say, and a get or set that succeeds is
\* backed by the message.
THEOREM RepliesAreDecoded == Spec => []RepliesDecoded
<1>1. Init => DecodeSafe
  BY DecodeInit
<1>2. DecodeSafe /\ [Next]_vars => DecodeSafe'
  BY DecodeNext
<1>3. DecodeSafe => RepliesDecoded
  BY DecodedIsRight
<1> QED
  BY <1>1, <1>2, <1>3, PTL DEF Spec

-----------------------------------------------------------------------------
(* The port expanders *)

\* The lines stay inputs until their levels have been written.
InputsFirst ==
  /\ expander = "none" => written = 0
  /\ written = 0 => register["GCR"] = AllLines

\* The shadow is what the constructor has been given until it is done, and what the chip
\* has once that has been written.
ShadowFollowed ==
  /\ expander # "none" /\ written = 0 => output = Value("OCR", pins, Lines)
  /\ written # 0 /\ expanderErr = "ok" /\ (expander = "XRA1203" => changes = 0) =>
       register["OCR"] = output

ExpanderSafe == ExpanderTypeOK /\ InputsFirst /\ ShadowFollowed

LEMMA LinesExist == ASSUME ExpanderConstants PROVE Lines \subseteq AllLines
BY DEF ExpanderConstants, Lines, AllLines

\* OCR is written first, and never again.
LEMMA OrderOfWrites ==
  /\ Len(WriteOrder) \in {3, 9} /\ WriteOrder[1] = "OCR"
  /\ \A k \in 2..Len(WriteOrder) : WriteOrder[k] \in Registers \ {"OCR"}
<1>1. CASE expander = "XRA1203"
  <2>1. WriteOrder = <<"OCR", "PIR", "PUR", "GCR", "TSCR", "REIR", "FEIR", "IFR", "IER">>
    BY <1>1 DEF WriteOrder
  <2> QED
    BY <2>1 DEF Registers
<1>2. CASE expander # "XRA1203"
  <2>1. WriteOrder = <<"OCR", "PIR", "GCR">>
    BY <1>2 DEF WriteOrder
  <2> QED
    BY <2>1 DEF Registers
<1> QED
  BY <1>1, <1>2

LEMMA RegisterWritten ==
  ASSUME register \in [Registers -> SUBSET AllLines], NEW name \in Registers,
         NEW value \in SUBSET AllLines, register' = [register EXCEPT ![name] = value]
  PROVE  /\ register' \in [Registers -> SUBSET AllLines]
         /\ register'[name] = value
         /\ \A other \in Registers : other # name => register'[other] = register[other]
OBVIOUS

LEMMA ByteOfLines ==
  ASSUME ExpanderConstants, NEW old \in SUBSET AllLines, NEW second \in BOOLEAN, NEW shadow, NEW l
  PROVE  PutByte(old, second, HalfOf(shadow, l)) \in SUBSET AllLines
<1>1. Bank \in Nat /\ Bank > 0
  BY DEF ExpanderConstants
<1>2. \A b \in 0..Bank - 1 : b \in AllLines /\ Bank + b \in AllLines /\ 0 + b \in AllLines
  BY <1>1 DEF AllLines
<1>3. HalfOf(shadow, l) \subseteq 0..Bank - 1
  BY DEF HalfOf
<1> QED
  BY <1>2, <1>3 DEF PutByte

LEMMA ExpanderSafeInit == ExpanderConstants /\ ExpanderInit => ExpanderSafe
<1> SUFFICES ASSUME ExpanderConstants, ExpanderInit PROVE ExpanderSafe
  OBVIOUS
<1>1. /\ expander = "none" /\ pins = [l \in AllLines |-> Unused]
      /\ register = [name \in Registers |-> IF name \in {"GCR", "OCR"} THEN AllLines ELSE {}]
      /\ output = {} /\ tristate = {} /\ written = 0 /\ expanderErr = "ok" /\ changes = 0
  BY DEF ExpanderInit
<1>2. pins \in [AllLines -> PinConfig]
  <2>1. Unused \in PinConfig
    BY DEF Unused, PinConfig
  <2> QED
    BY <1>1, <2>1
<1>3. register \in [Registers -> SUBSET AllLines] /\ register["GCR"] = AllLines
  BY <1>1 DEF Registers
<1>4. ExpanderTypeOK
  BY <1>1, <1>2, <1>3 DEF ExpanderTypeOK, ExpanderConstants
<1>5. InputsFirst
  BY <1>1, <1>3 DEF InputsFirst
<1> QED
  BY <1>1, <1>4, <1>5 DEF ExpanderSafe, ShadowFollowed

LEMMA ExpanderSafeNext == ExpanderConstants /\ ExpanderSafe /\ [ExpanderNext]_expanderVars => ExpanderSafe'
<1> SUFFICES ASSUME ExpanderConstants, ExpanderSafe, [ExpanderNext]_expanderVars PROVE ExpanderSafe'
  OBVIOUS
<1>a. ExpanderTypeOK /\ InputsFirst /\ ShadowFollowed
  BY DEF ExpanderSafe
<1>1. ASSUME NEW driver \in Drivers, NEW config \in [AllLines -> PinConfigs],
             ConstructExpander(driver, config)
      PROVE  ExpanderSafe'
  <2> DEFINE lines == IF driver = "XRA1203" THEN AllLines ELSE 0..Bank - 1
  <2>1. /\ expander = "none" /\ expander' = driver /\ pins' = config
        /\ output' = Value("OCR", config, lines)
        /\ tristate' = IF driver = "XRA1203" THEN Value("TSCR", config, lines) ELSE {}
        /\ UNCHANGED <<register, written, expanderErr, changes>>
    BY <1>1 DEF ConstructExpander
  <2>2. lines = Lines'
    BY <2>1 DEF Lines, AllLines
  <2>3. lines \subseteq AllLines
    BY DEF ExpanderConstants, AllLines
  <2>4. output' = Value("OCR", pins, Lines)'
    BY <2>1, <2>2 DEF Value
  <2> HIDE DEF lines
  <2>5. output' \subseteq AllLines /\ tristate' \subseteq AllLines
    BY <2>1, <2>3 DEF Value
  <2>6. pins' \in [AllLines -> PinConfig]
    BY <1>1, <2>1 DEF ExpanderConstants
  <2>7. ExpanderTypeOK'
    BY <1>a, <1>1, <2>1, <2>5, <2>6 DEF ExpanderTypeOK, Drivers
  <2>8. written = 0 /\ driver # "none"
    BY <1>a, <1>1, <2>1 DEF InputsFirst, Drivers
  <2>9. InputsFirst' /\ ShadowFollowed'
    BY <1>a, <2>1, <2>4, <2>8 DEF InputsFirst, ShadowFollowed, AllLines
  <2> QED
    BY <2>7, <2>9 DEF ExpanderSafe
<1>2. CASE WriteNext
  <2>1. /\ expander # "none" /\ written < Len(WriteOrder) /\ expanderErr # "panic"
        /\ UNCHANGED <<expander, pins, output, tristate, changes>>
    BY <1>2 DEF WriteNext, Constructing
  <2>2. Value("OCR", pins, Lines)' = Value("OCR", pins, Lines) /\ AllLines' = AllLines
    BY <2>1 DEF Value, Lines, AllLines
  <2>3. CASE expanderErr' = "panic" /\ UNCHANGED <<register, written>>
    <3>1. ExpanderTypeOK'
      BY <1>a, <2>1, <2>3 DEF ExpanderTypeOK
    <3>2. InputsFirst' /\ ShadowFollowed'
      BY <1>a, <2>1, <2>2, <2>3 DEF InputsFirst, ShadowFollowed
    <3> QED
      BY <3>1, <3>2 DEF ExpanderSafe
  <2>4. ASSUME NEW name, name = WriteOrder[written + 1],
               register' = [register EXCEPT ![name] = Value(name, pins, Lines)],
               written' = written + 1, UNCHANGED expanderErr
        PROVE  ExpanderSafe'
    <3>1. written \in Nat /\ written + 1 \in 1..Len(WriteOrder) /\ written + 1 \in 0..9
      BY <1>a, <2>1, OrderOfWrites DEF ExpanderTypeOK
    <3>2. name \in Registers /\ (written = 0 <=> name = "OCR")
      <4>1. CASE written = 0
        BY <2>4, <4>1, OrderOfWrites DEF Registers
      <4>2. CASE written # 0
        <5>1. written + 1 \in 2..Len(WriteOrder)
          BY <3>1, <4>2, OrderOfWrites
        <5> QED
          BY <2>4, <4>2, <5>1, OrderOfWrites
      <4> QED
        BY <4>1, <4>2
    <3>3. Value(name, pins, Lines) \in SUBSET AllLines
      BY LinesExist DEF Value
    <3>4. /\ register' \in [Registers -> SUBSET AllLines]
          /\ register'[name] = Value(name, pins, Lines)
          /\ \A other \in Registers : other # name => register'[other] = register[other]
      BY <1>a, <2>4, <3>2, <3>3, RegisterWritten DEF ExpanderTypeOK
    <3>5. ExpanderTypeOK'
      BY <1>a, <2>1, <2>4, <3>1, <3>4 DEF ExpanderTypeOK
    <3>6. written' # 0
      BY <2>4, <3>1
    <3>7. InputsFirst'
      BY <2>1, <3>6 DEF InputsFirst
    <3>8. ShadowFollowed'
      <4>1. CASE written = 0
        BY <1>a, <2>1, <3>2, <3>4, <3>6, <4>1 DEF ShadowFollowed
      <4>2. CASE written # 0
        <5>1. register'["OCR"] = register["OCR"]
          BY <3>2, <3>4, <4>2 DEF Registers
        <5> QED
          BY <1>a, <2>1, <2>4, <3>6, <4>2, <5>1 DEF ShadowFollowed
      <4> QED
        BY <4>1, <4>2
    <3> QED
      BY <3>5, <3>7, <3>8 DEF ExpanderSafe
  <2> QED
    BY <1>2, <2>3, <2>4 DEF WriteNext
<1>3. ASSUME Call, UNCHANGED <<expander, pins, written>>,
             output' \in SUBSET AllLines, tristate' \in SUBSET AllLines,
             NEW name \in {"OCR", "TSCR"}, NEW value \in SUBSET AllLines,
             \/ Refused
             \/ Write(name, value) /\ (expander # "XRA1203" => name = "OCR" /\ value = output')
      PROVE  ExpanderSafe'
  <2>1. /\ expander # "none" /\ written = Len(WriteOrder) /\ changes < MaxChanges
        /\ changes' = changes + 1
    BY <1>3 DEF Call, Ready
  <2>2. written # 0 /\ changes' \in 0..MaxChanges /\ changes' # 0
    BY <1>a, <2>1, OrderOfWrites DEF ExpanderTypeOK, ExpanderConstants
  <2>3. /\ register' \in [Registers -> SUBSET AllLines]
        /\ expanderErr' \in {"ok", "bus", "InvalidPin"}
        /\ expanderErr' = "ok" /\ expander # "XRA1203" => register'["OCR"] = output'
    <3>1. name \in Registers /\ register \in [Registers -> SUBSET AllLines]
      BY <1>a, <1>3 DEF Registers, ExpanderTypeOK
    <3>2. CASE Refused
      BY <3>1, <3>2 DEF Refused
    <3>3. CASE expanderErr' = "bus" /\ UNCHANGED register
      BY <3>1, <3>3
    <3>4. CASE /\ register' = [register EXCEPT ![name] = value] /\ expanderErr' = "ok"
               /\ expander # "XRA1203" => name = "OCR" /\ value = output'
      BY <1>3, <3>1, <3>4, RegisterWritten
    <3> QED
      BY <1>3, <3>2, <3>3, <3>4 DEF Write
  <2>4. ExpanderTypeOK'
    BY <1>a, <1>3, <2>2, <2>3 DEF ExpanderTypeOK
  <2>5. InputsFirst' /\ ShadowFollowed'
    BY <1>3, <2>1, <2>2, <2>3 DEF InputsFirst, ShadowFollowed
  <2> QED
    BY <2>4, <2>5 DEF ExpanderSafe
<1>4. ASSUME NEW on \in BOOLEAN, NEW l \in 0..2 * Bank, SetOutput(l, on) \/ SetOutputTristate(l, on)
      PROVE  ExpanderSafe'
  <2>1. /\ Call /\ UNCHANGED <<expander, pins, written>> /\ expander = "XRA1203"
    BY <1>4 DEF SetOutput, SetOutputTristate
  <2>2. /\ output \in SUBSET AllLines /\ tristate \in SUBSET AllLines
        /\ register["OCR"] \in SUBSET AllLines /\ register["TSCR"] \in SUBSET AllLines
    BY <1>a DEF ExpanderTypeOK, Registers
  <2>3. (l < Bank) \in BOOLEAN
    OBVIOUS
  <2>4. ASSUME NEW shadow \in SUBSET AllLines, l \in Lines
        PROVE  Set(shadow, {l}, on) \in SUBSET AllLines
    BY <2>4, LinesExist DEF Set
  <2>5. CASE Refused
    BY <1>3, <2>1, <2>2, <2>5 DEF Refused
  <2>6. CASE /\ l \in Lines /\ output' = Set(output, {l}, on) /\ UNCHANGED tristate
             /\ Write("OCR", PutByte(register["OCR"], l < Bank, HalfOf(output', l)))
    <3>1. PICK value \in SUBSET AllLines :
            value = PutByte(register["OCR"], l < Bank, HalfOf(output', l))
      BY <2>2, <2>3, ByteOfLines
    <3>2. output' \in SUBSET AllLines /\ tristate' \in SUBSET AllLines
      BY <2>2, <2>4, <2>6
    <3>3. Write("OCR", value)
      BY <2>6, <3>1
    <3> QED
      BY <1>3, <2>1, <3>2, <3>3
  <2>7. CASE /\ l \in Lines /\ tristate' = Set(tristate, {l}, on) /\ UNCHANGED output
             /\ Write("TSCR", PutByte(register["TSCR"], l < Bank, HalfOf(tristate', l)))
    <3>1. PICK value \in SUBSET AllLines :
            value = PutByte(register["TSCR"], l < Bank, HalfOf(tristate', l))
      BY <2>2, <2>3, ByteOfLines
    <3>2. output' \in SUBSET AllLines /\ tristate' \in SUBSET AllLines
      BY <2>2, <2>4, <2>7
    <3>3. Write("TSCR", value)
      BY <2>7, <3>1
    <3> QED
      BY <1>3, <2>1, <3>2, <3>3
  <2> QED
    BY <1>4, <2>5, <2>6, <2>7 DEF SetOutput, SetOutputTristate
<1>5. ASSUME NEW on \in BOOLEAN, NEW lines \in SUBSET (0..Bank), SetOutputs(lines, on)
      PROVE  ExpanderSafe'
  <2>1. Call /\ UNCHANGED <<expander, pins, written, tristate>> /\ expander = "PI4IOE5V9536"
    BY <1>5 DEF SetOutputs, Refused
  <2>2. output \in SUBSET AllLines /\ tristate \in SUBSET AllLines
    BY <1>a DEF ExpanderTypeOK
  <2>3. CASE Refused
    BY <1>3, <2>1, <2>2, <2>3 DEF Refused
  <2>4. CASE lines \subseteq Lines /\ output' = Set(output, lines, on) /\ Write("OCR", output')
    <3>1. output' \in SUBSET AllLines
      BY <2>2, <2>4, LinesExist DEF Set
    <3> QED
      BY <1>3, <2>1, <2>2, <2>4, <3>1
  <2> QED
    BY <1>5, <2>3, <2>4 DEF SetOutputs
<1>6. CASE UNCHANGED expanderVars
  <2>1. UNCHANGED <<expander, pins, register, output, tristate, written, expanderErr, changes>>
    BY <1>6 DEF expanderVars
  <2>2. ExpanderTypeOK'
    BY <1>a, <2>1 DEF ExpanderTypeOK
  <2>3. InputsFirst' /\ ShadowFollowed'
    BY <1>a, <2>1 DEF InputsFirst, ShadowFollowed, Value, Lines, AllLines
  <2> QED
    BY <2>2, <2>3 DEF ExpanderSafe
<1> QED
  BY <1>1, <1>2, <1>4, <1>5, <1>6 DEF ExpanderNext

\* While an expander is constructed, and after every call that has succeeded, a line that is
\* driven has the level its user asked for, on chips with any number of lines and for any
\* configuration of the pins: the levels are written before the directions, and the driver's
\* shadow is what the chip has after a success.  Nothing is said of the state that a failed
\* call leaves until one succeeds, nor of an XRA1203 once its lines were changed.
THEOREM LinesAreDriven == ASSUME ExpanderConstants PROVE ExpanderSpec => [](ExpanderTypeOK /\ DrivenAsAsked)
<1>1. ExpanderInit => ExpanderSafe
  BY ExpanderSafeInit
<1>2. ExpanderSafe /\ [ExpanderNext]_expanderVars => ExpanderSafe'
  BY ExpanderSafeNext
<1>3. ASSUME ExpanderSafe PROVE DrivenAsAsked
  <2>1. Lines \subseteq AllLines
    BY LinesExist
  <2>2. CASE written = 0
    BY <1>3, <2>1, <2>2 DEF ExpanderSafe, InputsFirst, DrivenAsAsked, Driven
  <2>3. CASE written # 0
    BY <1>3, <2>3 DEF ExpanderSafe, ShadowFollowed, DrivenAsAsked
  <2> QED
    BY <2>2, <2>3
<1>4. ExpanderSafe => ExpanderTypeOK /\ DrivenAsAsked
  BY <1>3 DEF ExpanderSafe
<1> QED
  BY <1>1, <1>2, <1>4, PTL DEF ExpanderSpec

-----------------------------------------------------------------------------
(* The EEPROM *)

Bytes == Nat \X Nat

RomPlaces ==
  /\ romPc \in {"idle", "start", "pages", "rest"}
  /\ memory \in [Addresses -> Bytes] /\ before \in [Addresses -> Bytes]
  /\ request \in [address : Addresses, length : Nat]
  /\ romOffset \in Nat /\ romErr \in {"ok", "InvalidBuffer", "bus"}
  /\ writes \in 0..MaxWrites

CopyTyped ==
  copy \in [err : {"none", "ok", "InvalidBuffer", "bus"}, bytes : Seq(Bytes)]

\* Memory is a prefix of the data at every moment, and what is left begins a page.
RomInStep ==
  request.length <= kDeviceSize =>
    /\ romOffset <= request.length
    /\ romPc # "idle" => memory = Stored(romOffset) /\ romErr = "ok"
    /\ romPc = "start" => romOffset = 0 /\ request.address % kPageSize # 0
    /\ romPc \in {"pages", "rest"} /\ romOffset < request.length =>
         (request.address + romOffset) % kPageSize = 0
    /\ romPc = "rest" => request.length - romOffset < kPageSize
    /\ romPc = "idle" =>
         /\ \E n \in romOffset..request.length : memory = Stored(n)
         /\ romErr = "ok" => memory = Stored(request.length)
         /\ romErr = "InvalidBuffer" => memory = before

RomSafe == RomPlaces /\ CopyTyped /\ RomInStep

-----------------------------------------------------------------------------
(* Addresses *)

LEMMA ModOf ==
  ASSUME NEW p \in Nat, p > 0, NEW q \in Nat, NEW r \in Nat, r < p
  PROVE  (p * q + r) % p = r
OBVIOUS

LEMMA ModParts ==
  ASSUME NEW p \in Nat, p > 0, NEW x \in Nat
  PROVE  x = p * (x \div p) + (x % p)
OBVIOUS

\* Inside a page, addresses do not wrap around.
LEMMA ModStep ==
  ASSUME NEW p \in Nat, p > 0, NEW x \in Nat, NEW j \in Nat, (x % p) + j < p
  PROVE  (x + j) % p = (x % p) + j
<1>1. PICK q \in Nat : q = x \div p
  OBVIOUS
<1>2. PICK r \in Nat : r = x % p
  OBVIOUS
<1>3. r = x - p * q
  BY <1>1, <1>2
<1>4. PICK s \in Nat : s = r + j
  OBVIOUS
<1>5. x + j = p * q + s /\ s < p
  BY <1>2, <1>3, <1>4
<1>6. (p * q + s) % p = s
  BY <1>1, <1>5, ModOf
<1> QED
  BY <1>2, <1>4, <1>5, <1>6

\* A page that begins in the memory ends in it.
LEMMA PageInside ==
  ASSUME NEW p \in Nat, p > 0, NEW d \in Nat, d % p = 0, NEW x \in Nat, x < d
  PROVE  x - (x % p) + p <= d
<1>1. PICK q \in Nat : q = x \div p
  OBVIOUS
<1>2. PICK m \in Nat : m = d \div p
  OBVIOUS
<1>3. x % p = x - p * q /\ d = p * m
  BY <1>1, <1>2
<1>4. p * q <= x
  BY <1>1
<1>5. q < m
  BY <1>3, <1>4
<1>6. p * q + p <= p * m
  BY <1>5
<1> QED
  BY <1>3, <1>6

\* Whole pages more or less do not matter for where in a page an address is.
LEMMA ModWhole ==
  ASSUME NEW p \in Nat, p > 0, NEW d \in Nat, d % p = 0, NEW x \in Nat, x >= d, x % p = 0
  PROVE  (x - d) % p = 0
<1>1. PICK q \in Nat : q = x \div p
  OBVIOUS
<1>2. PICK m \in Nat : m = d \div p
  OBVIOUS
<1>3. x = p * q /\ d = p * m
  BY <1>1, <1>2
<1>4. q - m \in Nat /\ x - d = p * (q - m)
  <2>1. q >= m
    BY <1>3
  <2> QED
    BY <1>3, <2>1
<1>5. (p * (q - m) + 0) % p = 0
  BY <1>4
<1> QED
  BY <1>4, <1>5

LEMMA ModSmall ==
  ASSUME NEW d \in Nat, d > 0, NEW x \in Nat, x < 2 * d
  PROVE  x % d = IF x < d THEN x ELSE x - d
<1>1. CASE x < d
  BY <1>1
<1>2. CASE ~(x < d)
  BY <1>2
<1> QED
  BY <1>1, <1>2

LEMMA RomSizes == RomConstants => kPageSize \in Nat /\ kPageSize > 0 /\ kDeviceSize \in Nat /\ kDeviceSize > 0
BY DEF RomConstants

\* What a page write that stays inside its page leaves in memory.
Put(address, bytes, n) ==
  [a \in Addresses |->
     IF a \in address..address + n - 1 THEN bytes[a - address + 1] ELSE memory[a]]

LEMMA ProgrammedInPage ==
  ASSUME RomConstants, NEW address \in Addresses, NEW bytes, NEW n \in Nat,
         n <= kPageSize - (address % kPageSize)
  PROVE  Programmed(address, bytes, n) = Put(address, bytes, n)
<1> DEFINE place(i) == (address - (address % kPageSize)) + ((address + i - 1) % kPageSize)
<1>1. /\ kPageSize \in Nat /\ kPageSize > 0 /\ address \in Nat
      /\ address % kPageSize \in 0..kPageSize - 1
  BY RomSizes DEF Addresses
<1>2. \A i \in 1..n : place(i) = address + i - 1
  <2> SUFFICES ASSUME NEW i \in 1..n PROVE place(i) = address + i - 1
    OBVIOUS
  <2>1. PICK r \in Nat : r = address % kPageSize
    BY <1>1
  <2>2. i - 1 \in Nat /\ r + (i - 1) < kPageSize
    BY <1>1, <2>1
  <2>3. (address + (i - 1)) % kPageSize = r + (i - 1)
    BY <1>1, <2>1, <2>2, ModStep
  <2>4. address + i - 1 = address + (i - 1)
    BY <1>1
  <2> QED
    BY <1>1, <2>1, <2>2, <2>3, <2>4
<1> HIDE DEF place
<1> DEFINE hits(a) == {i \in 1..n : place(i) = a}
<1>3. \A a \in Addresses :
        hits(a) = IF a \in address..address + n - 1 THEN {a - address + 1} ELSE {}
  <2> SUFFICES ASSUME NEW a \in Addresses
               PROVE  hits(a) = IF a \in address..address + n - 1 THEN {a - address + 1} ELSE {}
    OBVIOUS
  <2>1. a \in Int
    BY <1>1, RomSizes DEF Addresses
  <2>2. \A i \in 1..n : i \in hits(a) <=> i = a - address + 1
    BY <1>1, <1>2, <2>1
  <2>3. a - address + 1 \in 1..n <=> a \in address..address + n - 1
    BY <1>1, <2>1
  <2> QED
    BY <2>2, <2>3
<1>4. \A k \in Int : (CHOOSE i \in {k} : \A j \in {k} : j <= i) = k
  OBVIOUS
<1>5. ASSUME NEW a \in Addresses
      PROVE  (IF hits(a) = {} THEN memory[a]
              ELSE bytes[CHOOSE i \in hits(a) : \A j \in hits(a) : j <= i]) =
             IF a \in address..address + n - 1 THEN bytes[a - address + 1] ELSE memory[a]
  <2> HIDE DEF hits
  <2>1. CASE a \in address..address + n - 1
    <3>1. hits(a) = {a - address + 1} /\ a - address + 1 \in Int
      BY <1>1, <1>3, <1>5, <2>1
    <3> QED
      BY <1>4, <2>1, <3>1
  <2>2. CASE a \notin address..address + n - 1
    BY <1>3, <1>5, <2>2
  <2> QED
    BY <2>1, <2>2
<1>6. Programmed(address, bytes, n) =
        [a \in Addresses |->
           IF hits(a) = {} THEN memory[a]
           ELSE bytes[CHOOSE i \in hits(a) : \A j \in hits(a) : j <= i]]
  BY DEF Programmed, place
<1> QED
  BY <1>5, <1>6 DEF Put

LEMMA PutTyped ==
  ASSUME RomConstants, memory \in [Addresses -> Bytes], NEW address \in Addresses,
         NEW size \in Nat, NEW bytes \in [1..size -> Bytes], NEW n \in Nat, n <= size
  PROVE  Put(address, bytes, n) \in [Addresses -> Bytes]
<1> SUFFICES ASSUME NEW a \in Addresses, a \in address..address + n - 1
             PROVE  bytes[a - address + 1] \in Bytes
  BY DEF Put
<1>1. a \in Int /\ address \in Int
  BY RomSizes DEF Addresses
<1>2. a - address + 1 \in 1..size
  BY <1>1
<1> QED
  BY <1>2

\* A page write goes on where the data in place ends.
LEMMA PutGoesOn ==
  ASSUME RomConstants, RomPlaces, request.length <= kDeviceSize, memory = Stored(romOffset),
         NEW size \in Nat, NEW n \in Nat, n <= size, romOffset + n <= request.length,
         NEW address \in Addresses, address = (request.address + romOffset) % kDeviceSize,
         n <= kPageSize - (address % kPageSize)
  PROVE  Put(address, [i \in 1..size |-> Datum(writes, romOffset + i)], n) = Stored(romOffset + n)
<1> DEFINE bytes == [i \in 1..size |-> Datum(writes, romOffset + i)]
<1>1. PICK ra \in Nat, len \in Nat, off \in Nat, d \in Nat :
        /\ ra = request.address /\ len = request.length /\ off = romOffset /\ d = kDeviceSize
        /\ d > 0 /\ ra < d /\ len <= d /\ off + n <= len
  <2>1. request.address \in Addresses /\ request.length \in Nat /\ romOffset \in Nat
    BY DEF RomPlaces
  <2>2. kDeviceSize \in Nat /\ kDeviceSize > 0
    BY RomSizes
  <2>3. request.address \in Nat /\ request.address < kDeviceSize
    BY <2>1, <2>2 DEF Addresses
  <2> QED
    BY <2>1, <2>2, <2>3
<1>2. address \in Nat /\ address < d
  BY <1>1 DEF Addresses
<1>3. address + n <= d
  <2>1. address - (address % kPageSize) + kPageSize <= d
    <3>1. /\ kPageSize \in Nat /\ kPageSize > 0 /\ kDeviceSize % kPageSize = 0
          /\ kDeviceSize \in Nat /\ address < kDeviceSize
      BY <1>1, <1>2, RomSizes DEF RomConstants
    <3>2. address - (address % kPageSize) + kPageSize <= kDeviceSize
      BY <1>2, <3>1, PageInside
    <3> QED
      BY <1>1, <3>2
  <2>2. PICK r \in Int : r = address % kPageSize
    BY <1>2, RomSizes
  <2>3. n <= kPageSize - r /\ kPageSize \in Nat
    BY <2>2, RomSizes
  <2> QED
    BY <1>1, <1>2, <2>1, <2>2, <2>3
<1>4. CASE n = 0
  <2>1. \A a \in Addresses : a \notin address..address + n - 1
    BY <1>2, <1>4
  <2>2. \A a \in Addresses : memory[a] = Stored(romOffset)[a]
    OBVIOUS
  <2>3. romOffset + n = romOffset
    BY <1>1, <1>4
  <2>4. Put(address, bytes, n) = [a \in Addresses |-> memory[a]]
    BY <2>1 DEF Put
  <2> QED
    BY <2>3, <2>4 DEF RomPlaces
<1>5. CASE n # 0
  <2>1. off < d /\ address = IF ra + off < d THEN ra + off ELSE ra + off - d
    <3>1. off < d
      BY <1>1, <1>5
    <3>2. ra + off \in Nat /\ ra + off < 2 * d
      BY <1>1, <3>1
    <3>3. address = (ra + off) % d
      BY <1>1
    <3> QED
      BY <1>1, <3>1, <3>2, <3>3, ModSmall
  <2>2. ASSUME NEW a \in Addresses
        PROVE  (IF a \in address..address + n - 1 THEN bytes[a - address + 1] ELSE memory[a]) =
               LET i == ((a - request.address + kDeviceSize) % kDeviceSize) + 1 IN
               IF i <= romOffset + n THEN Datum(writes, i) ELSE before[a]
    <3>1. a \in Nat /\ a < d
      BY <1>1, <2>2 DEF Addresses
    <3>2. PICK i \in Nat : i = ((a - ra + d) % d) + 1
      <4>1. a - ra + d \in Nat
        BY <1>1, <3>1
      <4> QED
        BY <1>1, <4>1
    <3>3. i = IF a >= ra THEN a - ra + 1 ELSE a - ra + d + 1
      <4>1. PICK x \in Nat : x = a - ra + d
        BY <1>1, <3>1
      <4>2. x < 2 * d
        BY <1>1, <3>1, <4>1
      <4>3. x % d = IF x < d THEN x ELSE x - d
        BY <1>1, <4>2, ModSmall
      <4> QED
        BY <1>1, <3>1, <3>2, <4>1, <4>3
    <3>4. memory[a] = IF i <= off THEN Datum(writes, i) ELSE before[a]
      BY <1>1, <2>2, <3>2 DEF Stored
    <3>5. CASE a \in address..address + n - 1
      <4>a. address <= a /\ a <= address + n - 1
        BY <1>2, <3>1, <3>5
      <4>b. a - address + 1 \in 1..size
        BY <1>2, <3>1, <4>a
      <4>c. i = off + (a - address + 1)
        <5>1. CASE address = ra + off
          BY <1>1, <3>1, <3>3, <4>a, <5>1
        <5>2. CASE address = ra + off - d
          <6>1. a < ra
            BY <1>1, <3>1, <4>a, <5>2
          <6> QED
            BY <1>1, <3>1, <3>3, <5>2, <6>1
        <5> QED
          BY <2>1, <5>1, <5>2
      <4>d. i <= off + n
        BY <1>1, <1>2, <3>1, <4>a, <4>c
      <4>1. i = off + (a - address + 1) /\ i <= off + n /\ a - address + 1 \in 1..size
        BY <4>b, <4>c, <4>d
      <4>2. bytes[a - address + 1] = Datum(writes, off + (a - address + 1))
        BY <1>1, <4>1
      <4> QED
        BY <1>1, <3>2, <3>5, <4>1, <4>2
    <3>6. CASE a \notin address..address + n - 1
      <4>1. i <= off + n <=> i <= off
        BY <1>1, <1>2, <1>3, <2>1, <3>1, <3>3, <3>6
      <4> QED
        BY <1>1, <3>2, <3>4, <3>6, <4>1
    <3> QED
      BY <3>5, <3>6
  <2> QED
    BY <2>2 DEF Put, Stored
<1> QED
  BY <1>4, <1>5

\* A page write stores a part of the data, or none of it.
LEMMA PageOutcome ==
  ASSUME RomConstants, RomPlaces, NEW size \in Nat, NEW count \in Nat, count > 0,
         NEW phase \in {"pages", "rest"},
         PageWrite(size, count, phase)
  PROVE  /\ memory' \in [Addresses -> Bytes] /\ romOffset' \in Nat
         /\ romPc' \in {"idle", "pages", "rest"} /\ romErr' \in {"ok", "InvalidBuffer", "bus"}
         /\ request.length <= kDeviceSize /\ memory = Stored(romOffset)
              /\ romOffset + size <= request.length =>
              \/ /\ ~FitsPage((request.address + romOffset) % kDeviceSize, size, count)
                 /\ romPc' = "idle" /\ romErr' = "InvalidBuffer" /\ memory' = memory
                 /\ romOffset' = romOffset
              \/ /\ count <= size /\ romOffset' = romOffset + count /\ romPc' = phase
                 /\ romErr' = romErr /\ memory' = Stored(romOffset + count)
              \/ /\ romPc' = "idle" /\ romErr' = "bus" /\ romOffset' = romOffset
                 /\ \E n \in romOffset..request.length : memory' = Stored(n)
<1> DEFINE bytes == [i \in 1..size |-> Datum(writes, romOffset + i)]
<1>1. PICK address \in Addresses : address = (request.address + romOffset) % kDeviceSize
  <2>1. request.address \in Nat /\ romOffset \in Nat
    <3>1. request.address \in Addresses /\ romOffset \in Nat
      BY DEF RomPlaces
    <3> QED
      BY <3>1, RomSizes DEF Addresses
  <2>2. PICK x \in Nat : x = request.address + romOffset
    BY <2>1
  <2>3. x % kDeviceSize \in 0..kDeviceSize - 1
    BY RomSizes
  <2> QED
    BY <2>2, <2>3 DEF Addresses
<1>2. romOffset \in Nat /\ request.length \in Nat /\ memory \in [Addresses -> Bytes]
      /\ romErr \in {"ok", "InvalidBuffer", "bus"} /\ writes \in Nat
  BY DEF RomPlaces, RomConstants
<1>3. bytes \in [1..size -> Bytes]
  <2>1. \A i \in 1..size : Datum(writes, romOffset + i) \in Bytes
    BY <1>2 DEF Datum, Bytes
  <2> QED
    BY <2>1
<1>4. CASE /\ ~FitsPage(address, size, count) /\ RomReturn("InvalidBuffer")
           /\ UNCHANGED <<memory, romOffset>>
  BY <1>1, <1>2, <1>4 DEF RomReturn
<1>5. ASSUME FitsPage(address, size, count)
      PROVE  size <= kPageSize - (address % kPageSize) /\ count <= size
  BY <1>5 DEF FitsPage
<1>6. ASSUME FitsPage(address, size, count), NEW n \in Nat, n <= count
      PROVE  /\ Programmed(address, bytes, n) \in [Addresses -> Bytes]
             /\ request.length <= kDeviceSize /\ memory = Stored(romOffset)
                  /\ romOffset + size <= request.length =>
                  Programmed(address, bytes, n) = Stored(romOffset + n)
  <2> HIDE DEF bytes
  <2>1. n <= size /\ n <= kPageSize - (address % kPageSize)
    <3>1. PICK r \in Int : r = address % kPageSize
      BY RomSizes DEF Addresses
    <3> QED
      BY <1>5, <1>6, <3>1, RomSizes
  <2>2. Programmed(address, bytes, n) = Put(address, bytes, n)
    BY <2>1, ProgrammedInPage
  <2>3. Put(address, bytes, n) \in [Addresses -> Bytes]
    BY <1>2, <1>3, <2>1, PutTyped
  <2>4. ASSUME request.length <= kDeviceSize, memory = Stored(romOffset),
               romOffset + size <= request.length
        PROVE  Put(address, bytes, n) = Stored(romOffset + n)
    <3>1. romOffset + n <= request.length
      BY <1>2, <2>1, <2>4
    <3> QED
      BY <1>1, <2>1, <2>4, <3>1, PutGoesOn DEF bytes
  <2> QED
    BY <2>2, <2>3, <2>4
<1>7. CASE /\ FitsPage(address, size, count)
           /\ memory' = Programmed(address, bytes, count) /\ romOffset' = romOffset + count
           /\ romPc' = phase /\ UNCHANGED romErr
  <2> HIDE DEF bytes
  <2>1. romOffset' \in Nat /\ count <= size
    BY <1>2, <1>5, <1>7
  <2> QED
    BY <1>2, <1>6, <1>7, <2>1
<1>8. CASE /\ FitsPage(address, size, count)
           /\ \E n \in 0..count - 1 : memory' = Programmed(address, bytes, n)
           /\ RomReturn("bus") /\ UNCHANGED romOffset
  <2> HIDE DEF bytes
  <2>1. PICK n \in 0..count - 1 : memory' = Programmed(address, bytes, n)
    BY <1>8
  <2>2. n \in Nat /\ n <= count
    BY <2>1
  <2>3. memory' \in [Addresses -> Bytes]
    BY <1>6, <1>8, <2>1, <2>2
  <2>4. romPc' = "idle" /\ romErr' = "bus" /\ romOffset' = romOffset
    BY <1>8 DEF RomReturn
  <2>5. ASSUME request.length <= kDeviceSize, memory = Stored(romOffset),
               romOffset + size <= request.length
        PROVE  \E m \in romOffset..request.length : memory' = Stored(m)
    <3>1. memory' = Stored(romOffset + n)
      BY <1>6, <1>8, <2>1, <2>2, <2>5
    <3>2. romOffset + n \in romOffset..request.length
      BY <1>2, <1>5, <1>8, <2>2, <2>5
    <3> QED
      BY <3>1, <3>2
  <2> QED
    BY <1>2, <2>3, <2>4, <2>5
<1>9. \/ /\ ~FitsPage(address, size, count) /\ RomReturn("InvalidBuffer")
         /\ UNCHANGED <<memory, romOffset>>
      \/ /\ FitsPage(address, size, count)
         /\ memory' = Programmed(address, bytes, count) /\ romOffset' = romOffset + count
         /\ romPc' = phase /\ UNCHANGED romErr
      \/ /\ FitsPage(address, size, count)
         /\ \E n \in 0..count - 1 : memory' = Programmed(address, bytes, n)
         /\ RomReturn("bus") /\ UNCHANGED romOffset
  <2>1. count # 0
    OBVIOUS
  <2> QED
    BY <1>1, <2>1 DEF PageWrite
<1> QED
  BY <1>4, <1>7, <1>8, <1>9

LEMMA RomSafeInit == RomConstants /\ RomInit => RomSafe
<1> SUFFICES ASSUME RomConstants, RomInit PROVE RomSafe
  OBVIOUS
<1>1. /\ romPc = "idle" /\ memory = [a \in Addresses |-> Erased] /\ before = memory
      /\ request = [address |-> 0, length |-> 0] /\ romOffset = 0 /\ romErr = "ok"
      /\ copy = NoCopy /\ writes = 0
  BY DEF RomInit
<1>2. Erased \in Bytes /\ 0 \in Addresses /\ 0 \in 0..MaxWrites
  BY DEF Erased, Bytes, Addresses, RomConstants
<1>3. memory \in [Addresses -> Bytes]
  BY <1>1, <1>2
<1>4. RomPlaces
  BY <1>1, <1>2, <1>3 DEF RomPlaces
<1>5. CopyTyped
  <2>1. <<>> \in Seq(Bytes)
    OBVIOUS
  <2> QED
    BY <1>1, <2>1 DEF CopyTyped, NoCopy
<1>6. memory = Stored(0)
  <2>1. request.address = 0
    BY <1>1
  <2>2. \A a \in Addresses : a \in Nat
    BY DEF Addresses
  <2>3. \A a \in Addresses : ~(((a - 0 + kDeviceSize) % kDeviceSize) + 1 <= 0)
    BY <2>2, RomSizes
  <2>4. \A a \in Addresses :
          (LET i == ((a - request.address + kDeviceSize) % kDeviceSize) + 1 IN
           IF i <= 0 THEN Datum(writes, i) ELSE before[a]) = memory[a]
    BY <1>1, <2>1, <2>3
  <2> QED
    BY <1>3, <2>4 DEF Stored
<1>7. RomInStep
  BY <1>1, <1>6 DEF RomInStep
<1> QED
  BY <1>4, <1>5, <1>7 DEF RomSafe

\* None of the data is in place when a call begins.
LEMMA NothingStored ==
  ASSUME RomConstants, RomPlaces, RomPlaces', before' = memory, memory' = memory
  PROVE  memory' = Stored(0)'
<1>1. request'.address \in Nat
  BY RomSizes DEF RomPlaces, Addresses
<1>2. \A a \in Addresses : a \in Nat /\ a < kDeviceSize
  BY RomSizes DEF Addresses
<1>3. request'.address < kDeviceSize
  <2>1. request'.address \in Addresses
    BY DEF RomPlaces, Addresses
  <2> QED
    BY <1>2, <2>1
<1>4. \A a \in Addresses : ~(((a - request'.address + kDeviceSize) % kDeviceSize) + 1 <= 0)
  <2> SUFFICES ASSUME NEW a \in Addresses
               PROVE  ~(((a - request'.address + kDeviceSize) % kDeviceSize) + 1 <= 0)
    OBVIOUS
  <2>1. PICK x \in Nat : x = a - request'.address + kDeviceSize
    BY <1>1, <1>2, <1>3, RomSizes
  <2>2. x % kDeviceSize \in 0..kDeviceSize - 1
    BY RomSizes
  <2> QED
    BY <2>1, <2>2, RomSizes
<1>5. memory' = [a \in Addresses |-> memory[a]]
  BY DEF RomPlaces
<1> QED
  BY <1>4, <1>5 DEF Stored, Addresses


\* When a call begins, memory is as it was.
LEMMA StoredNone == ASSUME RomConstants, RomPlaces PROVE Stored(0) = before
<1>1. request.address \in Nat /\ request.address < kDeviceSize
  <2>1. request.address \in Addresses
    BY DEF RomPlaces
  <2> QED
    BY <2>1, RomSizes DEF Addresses
<1>2. ASSUME NEW a \in Addresses
      PROVE  ~(((a - request.address + kDeviceSize) % kDeviceSize) + 1 <= 0)
  <2>1. PICK x \in Nat : x = a - request.address + kDeviceSize
    BY <1>1, <1>2, RomSizes DEF Addresses
  <2>2. x % kDeviceSize \in 0..kDeviceSize - 1
    BY RomSizes
  <2> QED
    BY <2>1, <2>2, RomSizes
<1>3. Stored(0) = [a \in Addresses |-> before[a]]
  BY <1>2 DEF Stored
<1> QED
  BY <1>3 DEF RomPlaces

\* A step inside a call changes no more than the memory, the offset and the outcome.
LEMMA CallSame ==
  ASSUME RomPlaces, CopyTyped, UNCHANGED <<before, request, copy, writes>>,
         memory' \in [Addresses -> Bytes], romOffset' \in Nat,
         romPc' \in {"idle", "pages", "rest"}, romErr' \in {"ok", "InvalidBuffer", "bus"}
  PROVE  RomPlaces' /\ CopyTyped'
<1>1. Addresses' = Addresses
  BY DEF Addresses
<1> QED
  BY <1>1 DEF RomPlaces, CopyTyped

LEMMA StoredSame ==
  ASSUME UNCHANGED <<before, request, copy, writes>>
  PROVE  \A n : Stored(n)' = Stored(n)
BY DEF Stored, Addresses

\* A call that goes on.
LEMMA CallGoesOn ==
  ASSUME UNCHANGED <<before, request, copy, writes>>,
         romPc' \in {"pages", "rest"}, romErr' = "ok", memory' = Stored(romOffset'),
         romOffset' <= request.length,
         romOffset' < request.length => (request.address + romOffset') % kPageSize = 0,
         romPc' = "rest" => request.length - romOffset' < kPageSize
  PROVE  RomInStep'
<1>1. memory' = Stored(romOffset)'
  BY DEF Stored, Addresses
<1> QED
  BY <1>1 DEF RomInStep

\* A call that ends.
LEMMA CallEnds ==
  ASSUME UNCHANGED <<before, request, copy, writes>>,
         romPc' = "idle", romOffset' = romOffset, romOffset <= request.length,
         \E n \in romOffset..request.length : memory' = Stored(n),
         romErr' = "ok" => memory' = Stored(request.length),
         romErr' = "InvalidBuffer" => memory' = before
  PROVE  RomInStep'
<1>1. \A n : Stored(n)' = Stored(n)
  BY StoredSame
<1>2. \E n \in romOffset'..request'.length : memory' = Stored(n)'
  BY <1>1
<1>3. romErr' = "ok" => memory' = Stored(request.length)'
  BY DEF Stored, Addresses
<1> QED
  BY <1>2, <1>3 DEF RomInStep

\* The page after the data in place is where the address goes to.
LEMMA NextAddress ==
  ASSUME RomConstants, RomPlaces, request.length <= kDeviceSize,
         romOffset < request.length, (request.address + romOffset) % kPageSize = 0
  PROVE  ((request.address + romOffset) % kDeviceSize) % kPageSize = 0
<1>1. PICK p \in Nat, d \in Nat : p = kPageSize /\ p > 0 /\ d = kDeviceSize /\ d > 0 /\ d % p = 0
  BY RomSizes DEF RomConstants
<1>2. PICK x \in Nat : x = request.address + romOffset /\ x < 2 * d
  <2>1. request.address \in Addresses /\ request.length \in Nat /\ romOffset \in Nat
    BY DEF RomPlaces
  <2>2. request.address \in Nat /\ request.address < d
    BY <1>1, <2>1 DEF Addresses
  <2> QED
    BY <1>1, <2>1, <2>2
<1>3. x % d = IF x < d THEN x ELSE x - d
  BY <1>1, <1>2, ModSmall
<1>4. x % p = 0
  BY <1>1, <1>2
<1>5. x >= d => (x - d) % p = 0
  BY <1>1, <1>4, ModWhole
<1>6. (x % d) % p = 0
  BY <1>1, <1>2, <1>3, <1>4, <1>5
<1> QED
  BY <1>1, <1>2, <1>6

\* The partial page a call may begin with.
LEMMA WriteStartStep ==
  ASSUME RomConstants, RomSafe, WriteStart
  PROVE  RomSafe'
<1>1. RomPlaces /\ CopyTyped /\ RomInStep
  BY DEF RomSafe
<1>2. UNCHANGED <<before, request, copy, writes>> /\ romPc = "start"
  BY DEF WriteStart
<1>3. PICK p \in Nat, ra \in Nat, len \in Nat :
        p = kPageSize /\ p > 0 /\ ra = request.address /\ len = request.length
  <2>1. request.address \in Addresses /\ request.length \in Nat
    BY <1>1 DEF RomPlaces
  <2>2. request.address \in Nat
    BY <2>1, RomSizes DEF Addresses
  <2> QED
    BY <2>1, <2>2, RomSizes
<1>4. PICK q \in Nat, count \in Nat :
        count = p - (ra % p) /\ count > 0 /\ ra + count = p * q
  <2>1. PICK r \in Nat : r = ra % p /\ r < p
    BY <1>3
  <2>2. PICK k \in Nat : k = ra \div p
    BY <1>3
  <2>3. ra = p * k + r
    BY <1>3, <2>1, <2>2, ModParts
  <2>4. p * (k + 1) = p * k + p
    BY <1>3, <2>2
  <2>5. ra + (p - r) = p * (k + 1)
    BY <1>3, <2>1, <2>2, <2>3, <2>4
  <2>6. k + 1 \in Nat /\ p - r \in Nat /\ p - r > 0 /\ p - r = p - (ra % p)
    BY <1>3, <2>1, <2>2
  <2> QED
    BY <2>5, <2>6
<1>5. PageWrite(len, count, "pages")
  BY <1>3, <1>4 DEF WriteStart
<1>6. /\ memory' \in [Addresses -> Bytes] /\ romOffset' \in Nat
      /\ romPc' \in {"idle", "pages", "rest"} /\ romErr' \in {"ok", "InvalidBuffer", "bus"}
  BY <1>1, <1>4, <1>5, PageOutcome
<1>7. RomInStep'
  <2> SUFFICES ASSUME request.length <= kDeviceSize PROVE RomInStep'
    BY <1>2 DEF RomInStep
  <2>1. romOffset = 0 /\ memory = Stored(romOffset) /\ romErr = "ok"
    BY <1>1, <1>2 DEF RomInStep
  <2>2. romOffset + len <= request.length
    BY <1>3, <2>1
  <2>3. memory = before
    BY <1>1, <2>1, StoredNone
  <2>4. 0 \in romOffset..request.length /\ romOffset <= request.length
    BY <1>3, <2>1
  <2>5. CASE romPc' = "idle" /\ romErr' = "InvalidBuffer" /\ memory' = memory /\ romOffset' = romOffset
    BY <1>2, <2>1, <2>3, <2>4, <2>5, CallEnds
  <2>6. CASE /\ count <= len /\ romOffset' = romOffset + count /\ romPc' = "pages"
             /\ romErr' = romErr /\ memory' = Stored(romOffset + count)
    <3>1. romOffset' = count /\ memory' = Stored(romOffset') /\ romErr' = "ok"
      BY <1>4, <2>1, <2>6
    <3>2. (p * q + 0) % p = 0
      BY <1>3, ModOf
    <3>3. (request.address + romOffset') % kPageSize = 0
      BY <1>3, <1>4, <3>1, <3>2
    <3> QED
      BY <1>2, <1>3, <2>6, <3>1, <3>3, CallGoesOn
  <2>7. CASE /\ romPc' = "idle" /\ romErr' = "bus" /\ romOffset' = romOffset
             /\ \E n \in romOffset..request.length : memory' = Stored(n)
    BY <1>2, <2>4, <2>7, CallEnds
  <2> QED
    BY <1>1, <1>4, <1>5, <2>1, <2>2, <2>5, <2>6, <2>7, PageOutcome
<1> QED
  BY <1>1, <1>2, <1>6, <1>7, CallSame DEF RomSafe

\* A page, or what is less than a page, that begins a page.
LEMMA PageStep ==
  ASSUME RomConstants, RomSafe, UNCHANGED <<before, request, copy, writes>>,
         NEW phase \in {"pages", "rest"}, romPc \in {"pages", "rest"},
         NEW size \in Nat, size > 0, size <= kPageSize, size <= request.length - romOffset,
         size < kPageSize => size = request.length - romOffset,
         phase = "rest" => size = request.length - romOffset,
         PageWrite(size, size, phase)
  PROVE  RomSafe'
<1>1. RomPlaces /\ CopyTyped /\ RomInStep
  BY DEF RomSafe
<1>2. PICK p \in Nat, ra \in Nat, len \in Nat, off \in Nat :
        /\ p = kPageSize /\ p > 0 /\ ra = request.address /\ len = request.length
        /\ off = romOffset
  <2>1. request.address \in Addresses /\ request.length \in Nat /\ romOffset \in Nat
    BY <1>1 DEF RomPlaces
  <2>2. request.address \in Nat
    BY <2>1, RomSizes DEF Addresses
  <2> QED
    BY <2>1, <2>2, RomSizes
<1>3. /\ memory' \in [Addresses -> Bytes] /\ romOffset' \in Nat
      /\ romPc' \in {"idle", "pages", "rest"} /\ romErr' \in {"ok", "InvalidBuffer", "bus"}
  BY <1>1, PageOutcome
<1>4. RomInStep'
  <2> SUFFICES ASSUME request.length <= kDeviceSize PROVE RomInStep'
    BY DEF RomInStep
  <2>1. /\ off < len /\ memory = Stored(romOffset) /\ romErr = "ok"
        /\ romOffset + size <= request.length /\ romOffset <= request.length
    BY <1>1, <1>2 DEF RomInStep
  <2>2. (ra + off) % p = 0
    BY <1>1, <1>2, <2>1 DEF RomInStep
  <2>3. FitsPage((request.address + romOffset) % kDeviceSize, size, size)
    <3>1. ((request.address + romOffset) % kDeviceSize) % kPageSize = 0
      BY <1>1, <1>2, <2>1, <2>2, NextAddress
    <3>2. size <= kPageSize - 0
      BY <1>2
    <3> QED
      BY <3>1, <3>2 DEF FitsPage
  <2>4. CASE /\ romOffset' = romOffset + size /\ romPc' = phase
             /\ romErr' = romErr /\ memory' = Stored(romOffset + size)
    <3>1. memory' = Stored(romOffset') /\ romErr' = "ok" /\ romOffset' = off + size
      BY <1>2, <2>1, <2>4
    <3>2. romOffset' < request.length => (request.address + romOffset') % kPageSize = 0
      <4> SUFFICES ASSUME romOffset' < request.length
                   PROVE  (request.address + romOffset') % kPageSize = 0
        OBVIOUS
      <4>1. size = p
        BY <1>2, <3>1
      <4>2. PICK x \in Nat : x = ra + off /\ x % p = 0
        BY <1>2, <2>2
      <4>3. PICK k \in Nat : k = x \div p
        BY <1>2
      <4>4. x = p * k
        BY <1>2, <4>2, <4>3
      <4>5. p * (k + 1) = p * k + p
        BY <1>2
      <4>6. (p * (k + 1) + 0) % p = 0
        BY <1>2, ModOf
      <4>7. ra + (off + size) = p * (k + 1) + 0
        BY <1>2, <4>1, <4>2, <4>4, <4>5
      <4> QED
        BY <1>2, <3>1, <4>6, <4>7
    <3>3. romPc' = "rest" => request.length - romOffset' < kPageSize
      BY <1>2, <2>4, <3>1
    <3>4. romOffset' <= request.length
      BY <2>1, <2>4
    <3>5. romPc' \in {"pages", "rest"}
      BY <2>4
    <3> QED
      BY <3>1, <3>2, <3>3, <3>4, <3>5, CallGoesOn
  <2>5. CASE /\ romPc' = "idle" /\ romErr' = "bus" /\ romOffset' = romOffset
             /\ \E n \in romOffset..request.length : memory' = Stored(n)
    BY <2>1, <2>5, CallEnds
  <2> QED
    BY <1>1, <2>1, <2>3, <2>4, <2>5, PageOutcome
<1> QED
  BY <1>1, <1>3, <1>4, CallSame DEF RomSafe

\* Full pages.
LEMMA WritePageStep ==
  ASSUME RomConstants, RomSafe, WritePage
  PROVE  RomSafe'
<1>1. RomPlaces /\ CopyTyped /\ RomInStep
  BY DEF RomSafe
<1>2. UNCHANGED <<before, request, copy, writes>> /\ romPc = "pages"
  BY DEF WritePage
<1>3. request.length \in Nat /\ romOffset \in Nat /\ kPageSize \in Nat /\ kPageSize > 0
  BY <1>1, RomSizes DEF RomPlaces
<1>4. CASE Left >= kPageSize /\ PageWrite(kPageSize, kPageSize, "pages")
  <2>1. kPageSize <= request.length - romOffset
    BY <1>3, <1>4 DEF Left
  <2>2. ~(kPageSize < kPageSize)
    BY <1>3
  <2>3. kPageSize <= kPageSize
    BY <1>3
  <2>4. PageWrite(kPageSize, kPageSize, "pages")
    BY <1>4
  <2> QED
    BY <1>2, <1>3, <2>1, <2>2, <2>3, <2>4, PageStep
<1>5. CASE ~(Left >= kPageSize) /\ romPc' = "rest" /\ UNCHANGED <<memory, romOffset, romErr>>
  <2>1. RomPlaces' /\ CopyTyped'
    <3>1. memory' \in [Addresses -> Bytes] /\ romOffset' \in Nat /\ romErr' \in {"ok", "InvalidBuffer", "bus"}
      BY <1>1, <1>5 DEF RomPlaces
    <3>2. romPc' \in {"idle", "pages", "rest"}
      BY <1>5
    <3> QED
      BY <1>1, <1>2, <3>1, <3>2, CallSame
  <2>2. RomInStep'
    <3> SUFFICES ASSUME request.length <= kDeviceSize PROVE RomInStep'
      BY <1>2 DEF RomInStep
    <3>1. /\ romOffset <= request.length /\ memory = Stored(romOffset) /\ romErr = "ok"
          /\ romOffset < request.length => (request.address + romOffset) % kPageSize = 0
      BY <1>1, <1>2 DEF RomInStep
    <3>2. request.length - romOffset < kPageSize
      BY <1>3, <1>5 DEF Left
    <3> QED
      BY <1>2, <1>5, <3>1, <3>2, CallGoesOn
  <2> QED
    BY <2>1, <2>2 DEF RomSafe
<1> QED
  BY <1>4, <1>5 DEF WritePage

\* The rest of the data.
LEMMA WriteRestStep ==
  ASSUME RomConstants, RomSafe, WriteRest
  PROVE  RomSafe'
<1>1. RomPlaces /\ CopyTyped /\ RomInStep
  BY DEF RomSafe
<1>2. UNCHANGED <<before, request, copy, writes>> /\ romPc = "rest"
  BY DEF WriteRest
<1>3. request.length \in Nat /\ romOffset \in Nat /\ kPageSize \in Nat /\ kPageSize > 0
  BY <1>1, RomSizes DEF RomPlaces
<1>4. CASE Left > 0 /\ PageWrite(Left, Left, "rest")
  <2>1. PICK size \in Nat : size = Left /\ size = request.length - romOffset /\ size > 0
    BY <1>3, <1>4 DEF Left
  <2>2. PageWrite(size, size, "rest")
    BY <1>4, <2>1
  <2>3. CASE request.length <= kDeviceSize
    <3>1. size < kPageSize
      BY <1>1, <1>2, <2>1, <2>3 DEF RomInStep
    <3> QED
      BY <1>2, <1>3, <2>1, <2>2, <3>1, PageStep
  <2>4. CASE ~(request.length <= kDeviceSize)
    <3>1. RomInStep'
      BY <1>2, <2>4 DEF RomInStep
    <3>2. /\ memory' \in [Addresses -> Bytes] /\ romOffset' \in Nat
          /\ romPc' \in {"idle", "pages", "rest"} /\ romErr' \in {"ok", "InvalidBuffer", "bus"}
      BY <1>1, <2>1, <2>2, PageOutcome
    <3> QED
      BY <1>1, <1>2, <3>1, <3>2, CallSame DEF RomSafe
  <2> QED
    BY <2>3, <2>4
<1>5. CASE ~(Left > 0) /\ RomReturn("ok") /\ UNCHANGED <<memory, romOffset>>
  <2>1. RomPlaces' /\ CopyTyped'
    <3>1. memory' \in [Addresses -> Bytes] /\ romOffset' \in Nat
      BY <1>1, <1>5 DEF RomPlaces
    <3>2. romPc' \in {"idle", "pages", "rest"} /\ romErr' \in {"ok", "InvalidBuffer", "bus"}
      BY <1>5 DEF RomReturn
    <3> QED
      BY <1>1, <1>2, <3>1, <3>2, CallSame
  <2>2. RomInStep'
    <3> SUFFICES ASSUME request.length <= kDeviceSize PROVE RomInStep'
      BY <1>2 DEF RomInStep
    <3>1. romOffset <= request.length /\ memory = Stored(romOffset)
      BY <1>1, <1>2 DEF RomInStep
    <3>2. romOffset = request.length
      BY <1>3, <1>5, <3>1 DEF Left
    <3>3. memory' = Stored(request.length) /\ request.length \in romOffset..request.length
      BY <1>3, <1>5, <3>1, <3>2
    <3>4. romPc' = "idle" /\ romErr' = "ok" /\ romOffset' = romOffset
      BY <1>5 DEF RomReturn
    <3> QED
      BY <1>2, <3>1, <3>3, <3>4, CallEnds
  <2> QED
    BY <2>1, <2>2 DEF RomSafe
<1> QED
  BY <1>4, <1>5 DEF WriteRest

\* A call of writeData begins.
LEMMA WriteDataStep ==
  ASSUME RomConstants, RomSafe, NEW address \in Addresses, NEW length \in Nat,
         WriteData(address, length)
  PROVE  RomSafe'
<1>1. RomPlaces /\ CopyTyped /\ RomInStep
  BY DEF RomSafe
<1>2. /\ writes < MaxWrites /\ writes' = writes + 1
      /\ request' = [address |-> address, length |-> length]
      /\ before' = memory /\ romOffset' = 0 /\ romErr' = "ok"
      /\ romPc' = IF address % kPageSize # 0 THEN "start" ELSE "pages"
      /\ copy' = NoCopy /\ memory' = memory
  BY DEF WriteData
<1>3. Addresses' = Addresses
  BY DEF Addresses
<1>4. RomPlaces'
  <2>1. writes' \in 0..MaxWrites
    BY <1>1, <1>2 DEF RomPlaces, RomConstants
  <2>2. romPc' \in {"idle", "start", "pages", "rest"}
    BY <1>2
  <2> QED
    BY <1>1, <1>2, <1>3, <2>1, <2>2 DEF RomPlaces
<1>5. CopyTyped'
  <2>1. <<>> \in Seq(Bytes)
    OBVIOUS
  <2> QED
    BY <1>2, <2>1 DEF CopyTyped, NoCopy
<1>6. memory' = Stored(0)'
  BY <1>1, <1>2, <1>4, NothingStored
<1>7. address % kPageSize = 0 => (address + 0) % kPageSize = 0
  BY RomSizes DEF Addresses
<1>8. RomInStep'
  <2>1. romPc' = "start" => address % kPageSize # 0
    BY <1>2
  <2>2. romPc' \in {"pages", "rest"} => (address + 0) % kPageSize = 0 /\ romPc' = "pages"
    BY <1>2, <1>7
  <2>3. romPc' # "idle" /\ request'.address = address /\ request'.length = length
    BY <1>2
  <2>4. memory' = Stored(romOffset)'
    BY <1>2, <1>6 DEF Stored, Addresses
  <2> QED
    BY <1>2, <2>1, <2>2, <2>3, <2>4 DEF RomInStep
<1> QED
  BY <1>4, <1>5, <1>8 DEF RomSafe

\* A call of readData.
LEMMA ReadDataStep ==
  ASSUME RomConstants, RomSafe, NEW address \in Addresses, NEW length \in Nat,
         ReadData(address, length)
  PROVE  RomSafe'
<1>1. RomPlaces /\ CopyTyped /\ RomInStep
  BY DEF RomSafe
<1>2. UNCHANGED <<romPc, memory, before, request, romOffset, romErr, writes>>
  BY DEF ReadData
<1>3. RomPlaces'
  BY <1>1, <1>2 DEF RomPlaces, Addresses
<1>4. RomInStep'
  BY <1>1, <1>2 DEF RomInStep, Stored, Addresses
<1>5. CopyTyped'
  <2>1. <<>> \in Seq(Bytes)
    OBVIOUS
  <2> DEFINE bytes == [i \in 1..length |-> memory[(address + i - 1) % kDeviceSize]]
  <2>2. bytes \in Seq(Bytes)
    <3>1. ASSUME NEW i \in 1..length PROVE memory[(address + i - 1) % kDeviceSize] \in Bytes
      <4>1. PICK x \in Nat : x = address + i - 1
        BY RomSizes DEF Addresses
      <4>2. x % kDeviceSize \in Addresses
        BY RomSizes DEF Addresses
      <4> QED
        BY <1>1, <4>1, <4>2 DEF RomPlaces
    <3>2. bytes \in [1..length -> Bytes]
      BY <3>1
    <3> QED
      BY <3>2
  <2> HIDE DEF bytes
  <2>3. copy' \in {[err |-> "InvalidBuffer", bytes |-> <<>>], [err |-> "bus", bytes |-> <<>>],
                   [err |-> "ok", bytes |-> bytes]}
    BY DEF ReadData, bytes
  <2>4. CASE copy' = [err |-> "ok", bytes |-> bytes]
    BY <2>2, <2>4 DEF CopyTyped
  <2>5. CASE copy' = [err |-> "InvalidBuffer", bytes |-> <<>>]
    BY <2>1, <2>5 DEF CopyTyped
  <2>6. CASE copy' = [err |-> "bus", bytes |-> <<>>]
    BY <2>1, <2>6 DEF CopyTyped
  <2> QED
    BY <2>3, <2>4, <2>5, <2>6
<1> QED
  BY <1>3, <1>4, <1>5 DEF RomSafe

LEMMA RomSafeNext == RomConstants /\ RomSafe /\ [RomNext]_romVars => RomSafe'
<1> SUFFICES ASSUME RomConstants, RomSafe, [RomNext]_romVars PROVE RomSafe'
  OBVIOUS
<1>1. CASE \E a \in Addresses, n \in 0..kDeviceSize + 1 : WriteData(a, n) \/ ReadData(a, n)
  <2>1. PICK a \in Addresses, n \in 0..kDeviceSize + 1 : WriteData(a, n) \/ ReadData(a, n)
    BY <1>1
  <2>2. n \in Nat
    BY RomSizes
  <2> QED
    BY <2>1, <2>2, WriteDataStep, ReadDataStep
<1>2. CASE WriteStart \/ WritePage \/ WriteRest
  BY <1>2, WriteStartStep, WritePageStep, WriteRestStep
<1>3. CASE UNCHANGED romVars
  BY <1>3 DEF romVars, RomSafe, RomPlaces, CopyTyped, RomInStep, Stored, Addresses
<1> QED
  BY <1>1, <1>2, <1>3 DEF RomNext

LEMMA RomSafeGives == RomConstants /\ RomSafe => RomTypeOK /\ WrittenInPlace
<1> SUFFICES ASSUME RomConstants, RomSafe PROVE RomTypeOK /\ WrittenInPlace
  OBVIOUS
<1>1. RomTypeOK
  BY DEF RomSafe, RomPlaces, CopyTyped, RomTypeOK, Bytes
<1>2. WrittenInPlace
  <2> SUFFICES ASSUME request.length <= kDeviceSize
               PROVE  /\ \E n \in romOffset..request.length : memory = Stored(n)
                      /\ (romPc = "idle" /\ romErr = "ok" => memory = Stored(request.length))
                      /\ (romErr = "InvalidBuffer" => memory = before)
    BY DEF WrittenInPlace
  <2>1. romOffset \in Nat /\ request.length \in Nat /\ romOffset <= request.length
    BY DEF RomSafe, RomPlaces, RomInStep
  <2>2. romOffset \in romOffset..request.length
    BY <2>1
  <2> QED
    BY <2>2 DEF RomSafe, RomInStep
<1> QED
  BY <1>1, <1>2

\* Whatever is written at whatever address, and wherever the bus fails, the memory is what
\* it was with a prefix of the data in place, all of it after a call that succeeds and none
\* after one that refuses (AT24CS32::writeData and PageWrite).
THEOREM DataIsInPlace == ASSUME RomConstants PROVE RomSpec => [](RomTypeOK /\ WrittenInPlace)
<1>1. RomInit => RomSafe
  BY RomSafeInit
<1>2. RomSafe /\ [RomNext]_romVars => RomSafe'
  BY RomSafeNext
<1>3. RomSafe => RomTypeOK /\ WrittenInPlace
  BY RomSafeGives
<1> QED
  BY <1>1, <1>2, <1>3, PTL DEF RomSpec

-----------------------------------------------------------------------------
(* Clock dividers: arithmetic *)

LEMMA TimesGrows ==
  ASSUME NEW x \in Nat, NEW y \in Nat, NEW z \in Nat, x <= y
  PROVE  x * z <= y * z
<1>1. PICK w \in Nat : y = x + w
  <2>1. y - x \in Nat /\ y = x + (y - x)
    OBVIOUS
  <2> QED
    BY <2>1
<1>2. y * z = x * z + w * z
  BY <1>1
<1>3. w * z \in Nat /\ x * z \in Nat
  OBVIOUS
<1> QED
  BY <1>2, <1>3

\* What a quotient is at least.
LEMMA QuotientAtLeast ==
  ASSUME NEW a \in Nat, NEW b \in Nat, b > 0, NEW k \in Nat
  PROVE  k <= a \div b <=> k * b <= a
<1>1. PICK q \in Nat : q = a \div b
  OBVIOUS
<1>2. q * b <= a /\ a < q * b + b
  BY <1>1
<1>3. ASSUME k <= q PROVE k * b <= a
  <2>1. k * b <= q * b
    BY <1>3, TimesGrows
  <2>2. k * b \in Nat /\ q * b \in Nat
    OBVIOUS
  <2> QED
    BY <1>2, <2>1, <2>2
<1>4. ASSUME k * b <= a PROVE k <= q
  <2> SUFFICES ASSUME q + 1 <= k PROVE FALSE
    OBVIOUS
  <2>1. (q + 1) * b <= k * b
    BY TimesGrows
  <2>2. (q + 1) * b = q * b + b
    OBVIOUS
  <2>3. k * b \in Nat /\ q * b \in Nat
    OBVIOUS
  <2> QED
    BY <1>2, <1>4, <2>1, <2>2, <2>3
<1> QED
  BY <1>1, <1>3, <1>4

\* A larger divisor makes a smaller quotient.
LEMMA QuotientFalls ==
  ASSUME NEW a \in Nat, NEW b \in Nat, b > 0, NEW c \in Nat, b <= c
  PROVE  a \div c <= a \div b
<1>1. PICK k \in Nat : k = a \div c
  OBVIOUS
<1>2. k * c <= a
  BY <1>1, QuotientAtLeast
<1>3. k * b <= k * c
  <2>1. b * k <= c * k
    BY TimesGrows
  <2> QED
    BY <2>1
<1>4. k * b <= a
  <2>1. k * b \in Nat /\ k * c \in Nat
    OBVIOUS
  <2> QED
    BY <1>2, <1>3, <2>1
<1> QED
  BY <1>1, <1>4, QuotientAtLeast

\* A divisor is slow enough to stay at or above a frequency, or it is not.
LEMMA FastEnough ==
  ASSUME NEW i \in Nat, NEW f \in Nat, f > 0, NEW p \in Nat, p > 0, NEW n \in Nat, n > 0
  PROVE  f <= i \div (p * n) <=> n <= i \div (f * p)
<1>1. p * n \in Nat /\ p * n > 0 /\ f * p \in Nat /\ f * p > 0
  OBVIOUS
<1>2. f <= i \div (p * n) <=> f * (p * n) <= i
  BY <1>1, QuotientAtLeast
<1>3. n <= i \div (f * p) <=> n * (f * p) <= i
  BY <1>1, QuotientAtLeast
<1>4. f * (p * n) = n * (f * p)
  OBVIOUS
<1> QED
  BY <1>2, <1>3, <1>4

-----------------------------------------------------------------------------
(* The serial ports *)

LEMMA BaudClosest ==
  ASSUME FrequencyConstants, NEW f \in Frequencies, Baud(f) \in Periods
  PROVE  LET Actual(baud) == InputClock \div (2 * (baud + 1)) IN
         /\ Actual(Baud(f)) >= f
         /\ \A baud \in Periods : Actual(baud) >= f => Actual(baud) >= Actual(Baud(f))
<1>1. PICK i \in Nat, g \in Nat : i = InputClock /\ g = f /\ g > 0
  BY DEF FrequencyConstants
<1>2. PICK b \in Nat : b = i \div (2 * g) /\ b > 0 /\ Baud(f) + 1 = b
  <2>1. Baud(f) \in Nat
    BY DEF Periods
  <2>2. i \div (2 * g) \in Int /\ Baud(f) = (i \div (2 * g)) - 1
    BY <1>1 DEF Baud
  <2> QED
    BY <2>1, <2>2
<1>3. g * 2 = 2 * g
  OBVIOUS
<1>4. \A n \in Nat : n > 0 => (g <= i \div (2 * n) <=> n <= b)
  BY <1>1, <1>2, <1>3, FastEnough
<1>5. g <= i \div (2 * b)
  BY <1>2, <1>4
<1>6. ASSUME NEW baud \in Periods, i \div (2 * (baud + 1)) >= g
      PROVE  i \div (2 * (baud + 1)) >= i \div (2 * b)
  <2>1. PICK n \in Nat : n = baud + 1 /\ n > 0
    BY DEF Periods
  <2>2. i \div (2 * n) \in Nat /\ i \div (2 * b) \in Nat
    BY <1>2, <2>1
  <2>3. n <= b
    BY <1>4, <1>6, <2>1, <2>2
  <2>4. 2 * n <= 2 * b /\ 2 * n > 0 /\ 2 * n \in Nat /\ 2 * b \in Nat
    BY <2>1, <2>3
  <2>5. i \div (2 * b) <= i \div (2 * n)
    BY <2>4, QuotientFalls
  <2> QED
    BY <2>1, <2>2, <2>5
<1>7. \A baud \in Periods : i \div (2 * (baud + 1)) \in Nat
  BY DEF Periods
<1>8. i \div (2 * b) \in Nat
  BY <1>2
<1> QED
  BY <1>1, <1>2, <1>5, <1>6, <1>8

-----------------------------------------------------------------------------
(* The choice of a prescaler *)

PrescalerValues == {1, 2, 4, 8, 16, 64, 256, 1024}

LEMMA PrescalerIs == \A code \in PrescalerCodes : Prescaler(code) \in PrescalerValues
<1> SUFFICES ASSUME NEW code \in 0..7 PROVE Prescaler(code) \in PrescalerValues
  BY DEF PrescalerCodes
<1>1. CASE code \in 0..3
  BY <1>1 DEF Prescaler, PrescalerValues
<1>2. CASE code \in 4..7
  BY <1>2 DEF Prescaler, PrescalerValues
<1> QED
  BY <1>1, <1>2

LEMMA PrescalerPositive == \A p \in PrescalerValues : p \in Nat /\ p > 0
BY DEF PrescalerValues

\* Of two prescalers, the longest period of the smaller one is a whole number of ticks of
\* the larger one, or no longer than one tick.
LEMMA PrescalerRatios ==
  ASSUME NEW p \in PrescalerValues, NEW s \in PrescalerValues, s < p
  PROVE  256 * s <= p \/ \E m \in Nat : m * p = 256 * s
<1>1. CASE 256 * s <= p
  BY <1>1
<1>2. CASE ~(256 * s <= p)
  <2>1. PICK m \in Nat : m = (256 * s) \div p
    BY PrescalerPositive
  <2>2. CASE p \in {1, 2, 4, 8}
    BY <2>1, <2>2 DEF PrescalerValues
  <2>3. CASE p \in {16, 64}
    BY <2>1, <2>3 DEF PrescalerValues
  <2>4. CASE p = 256
    BY <1>2, <2>1, <2>4 DEF PrescalerValues
  <2>5. CASE p = 1024
    BY <1>2, <2>1, <2>5 DEF PrescalerValues
  <2> QED
    BY <2>2, <2>3, <2>4, <2>5 DEF PrescalerValues
<1> QED
  BY <1>1, <1>2

\* If a prescaler cannot make a period long enough, even its longest is shorter than
\* what a prescaler makes that can.
LEMMA TooFast ==
  ASSUME NEW i \in Nat, NEW f \in Nat, f > 0, NEW p \in PrescalerValues, NEW s \in PrescalerValues,
         NEW b \in Nat, b = i \div (f * p), b > 0, b <= 256, i \div (f * s) > 256
  PROVE  256 * s <= p * b
<1>1. p \in Nat /\ p > 0 /\ s \in Nat /\ s > 0
  BY PrescalerPositive
<1>2. f * p \in Nat /\ f * p > 0 /\ f * s \in Nat /\ f * s > 0
  BY <1>1
<1>3. s < p
  <2> SUFFICES ASSUME p <= s PROVE FALSE
    BY <1>1
  <2>1. p * f <= s * f
    BY <1>1, TimesGrows
  <2>2. f * p <= f * s
    BY <1>1, <2>1
  <2>3. i \div (f * s) <= i \div (f * p)
    BY <1>2, <2>2, QuotientFalls
  <2>4. i \div (f * s) \in Nat
    BY <1>2
  <2> QED
    BY <2>3, <2>4
<1>4. CASE 256 * s <= p
  <2>1. 1 * p <= b * p
    BY <1>1, TimesGrows
  <2>2. p * b = b * p /\ p * b \in Nat
    BY <1>1
  <2> QED
    BY <1>1, <1>4, <2>1, <2>2
<1>5. CASE \E m \in Nat : m * p = 256 * s
  <2>1. PICK m \in Nat : m * p = 256 * s
    BY <1>5
  <2>2. 256 * (f * s) <= i
    <3>1. i \div (f * s) \in Nat
      BY <1>2
    <3>2. 256 <= i \div (f * s)
      BY <3>1
    <3> QED
      BY <1>2, <3>2, QuotientAtLeast
  <2>3. m * (f * p) = 256 * (f * s)
    <3>1. m * (f * p) = f * (m * p)
      BY <1>1
    <3>2. f * (256 * s) = 256 * (f * s)
      BY <1>1
    <3> QED
      BY <2>1, <3>1, <3>2
  <2>4. m <= b
    BY <1>2, <2>2, <2>3, QuotientAtLeast
  <2>5. m * p <= b * p
    BY <1>1, <2>4, TimesGrows
  <2> QED
    BY <1>1, <2>1, <2>5
<1> QED
  BY <1>3, <1>4, <1>5, PrescalerRatios

\* What a prescaler that can make the period gives.
LEMMA AttainableGives ==
  ASSUME FrequencyConstants, NEW f \in Frequencies, NEW code \in Attainable(f)
  PROVE  LET p == Prescaler(code) b == InputClock \div (f * p) IN
         /\ code \in PrescalerCodes /\ p \in PrescalerValues
         /\ b \in Nat /\ b > 0 /\ b <= 256 /\ RequiredPeriod(f, code) = b - 1
         /\ Output(code, RequiredPeriod(f, code)) = InputClock \div (p * b)
         /\ InputClock \div (p * b) \in Nat /\ f <= InputClock \div (p * b)
         /\ Distance(f, code) = (InputClock \div (p * b)) - f
<1>1. code \in PrescalerCodes /\ RequiredPeriod(f, code) \in 0..255
  BY DEF Attainable, Periods
<1>2. PICK p \in PrescalerValues : p = Prescaler(code)
  BY <1>1, PrescalerIs
<1>3. PICK i \in Nat, g \in Nat : i = InputClock /\ g = f /\ g > 0
  BY DEF FrequencyConstants
<1>4. p \in Nat /\ p > 0 /\ g * p \in Nat /\ g * p > 0
  BY <1>2, <1>3, PrescalerPositive
<1>5. PICK b \in Nat : b = i \div (g * p)
  BY <1>4
<1>6. RequiredPeriod(f, code) = b - 1 /\ b > 0 /\ b <= 256
  BY <1>1, <1>2, <1>3, <1>5 DEF RequiredPeriod
<1>7. p * b \in Nat /\ p * b > 0
  BY <1>4, <1>6
<1>8. PICK o \in Nat : o = i \div (p * b)
  BY <1>7
<1>9. g <= o
  BY <1>4, <1>5, <1>6, <1>8, FastEnough
<1>10. Output(code, RequiredPeriod(f, code)) = o
  <2>1. (b - 1) + 1 = b
    OBVIOUS
  <2> QED
    BY <1>2, <1>3, <1>6, <1>8, <2>1 DEF Output
<1>11. Distance(f, code) = o - g
  BY <1>3, <1>8, <1>9, <1>10 DEF Distance
<1> QED
  BY <1>1, <1>2, <1>3, <1>5, <1>6, <1>8, <1>9, <1>10, <1>11

LEMMA LeastNatural ==
  ASSUME NEW T, T \subseteq Nat, T # {}
  PROVE  \E x \in T : \A y \in T : x <= y
<1> DEFINE below == {pair \in Nat \X Nat : pair[1] < pair[2]}
<1>1. IsWellFoundedOn(below, Nat)
  BY NatLessThanWellFounded DEF OpToRel
<1>2. PICK x \in T : \A y \in T : <<y, x>> \notin below
  BY <1>1, WFMin, Zenon
<1>3. ASSUME NEW y \in T PROVE x <= y
  <2>1. x \in Nat /\ y \in Nat /\ <<y, x>> \in Nat \X Nat
    OBVIOUS
  <2>2. ~(y < x)
    BY <1>2, <2>1
  <2> QED
    BY <2>1, <2>2
<1> QED
  BY <1>2, <1>3

\* There is a first prescaler with the least error.
LEMMA BestCodeIs ==
  ASSUME FrequencyConstants, NEW f \in Frequencies, Attainable(f) # {}
  PROVE  /\ BestCode(f) \in Attainable(f)
         /\ \A other \in Attainable(f) : Distance(f, BestCode(f)) <= Distance(f, other)
<1>1. \A code \in Attainable(f) : Distance(f, code) \in Nat /\ code \in Nat
  <2> SUFFICES ASSUME NEW code \in Attainable(f) PROVE Distance(f, code) \in Nat /\ code \in Nat
    OBVIOUS
  <2>1. code \in PrescalerCodes
    BY DEF Attainable
  <2>2. f \in Nat
    BY DEF FrequencyConstants
  <2>3. PICK o \in Nat : Distance(f, code) = o - f /\ f <= o
    BY AttainableGives
  <2> QED
    BY <2>1, <2>2, <2>3 DEF PrescalerCodes
<1>2. PICK least \in {Distance(f, code) : code \in Attainable(f)} :
        \A y \in {Distance(f, code) : code \in Attainable(f)} : least <= y
  <2> DEFINE T == {Distance(f, code) : code \in Attainable(f)}
  <2>1. T \subseteq Nat /\ T # {}
    BY <1>1
  <2> HIDE DEF T
  <2>2. \E x \in T : \A y \in T : x <= y
    BY <2>1, LeastNatural
  <2> QED
    BY <2>2 DEF T
<1>3. least \in Nat /\ \A code \in Attainable(f) : least <= Distance(f, code)
  BY <1>1, <1>2
<1>4. PICK first \in {code \in Attainable(f) : Distance(f, code) = least} :
        \A y \in {code \in Attainable(f) : Distance(f, code) = least} : first <= y
  <2> DEFINE T == {code \in Attainable(f) : Distance(f, code) = least}
  <2>1. T \subseteq Nat /\ T # {}
    BY <1>1, <1>2
  <2> HIDE DEF T
  <2>2. \E x \in T : \A y \in T : x <= y
    BY <2>1, LeastNatural
  <2> QED
    BY <2>2 DEF T
<1> DEFINE good(code) == \A other \in Attainable(f) :
                           \/ Distance(f, code) < Distance(f, other)
                           \/ Distance(f, code) = Distance(f, other) /\ code <= other
<1>5. first \in Attainable(f) /\ good(first)
  <2>1. first \in Attainable(f) /\ Distance(f, first) = least
    BY <1>4
  <2>2. ASSUME NEW other \in Attainable(f)
        PROVE  \/ Distance(f, first) < Distance(f, other)
               \/ Distance(f, first) = Distance(f, other) /\ first <= other
    <3>1. least <= Distance(f, other) /\ Distance(f, other) \in Nat
      BY <1>1, <1>3
    <3>2. CASE Distance(f, other) = least
      BY <1>4, <2>1, <3>2
    <3>3. CASE Distance(f, other) # least
      BY <1>3, <2>1, <3>1, <3>3
    <3> QED
      BY <3>2, <3>3
  <2> QED
    BY <2>1, <2>2
<1>6. BestCode(f) = CHOOSE code \in Attainable(f) : good(code)
  BY DEF BestCode
<1> HIDE DEF good
<1>7. BestCode(f) \in Attainable(f) /\ good(BestCode(f))
  BY <1>5, <1>6
<1>8. ASSUME NEW other \in Attainable(f)
      PROVE  Distance(f, BestCode(f)) <= Distance(f, other)
  <2>1. Distance(f, BestCode(f)) \in Nat /\ Distance(f, other) \in Nat
    BY <1>1, <1>7
  <2> QED
    BY <1>7, <2>1 DEF good
<1> QED
  BY <1>7, <1>8

\* The period of that prescaler is the best of all prescalers and periods.
LEMMA BestIsClosest ==
  ASSUME FrequencyConstants, NEW f \in Frequencies, Attainable(f) # {}
  PROVE  LET actual == Output(BestCode(f), RequiredPeriod(f, BestCode(f))) IN
         /\ actual >= f
         /\ \A code \in PrescalerCodes, period \in Periods :
              Output(code, period) >= f => Output(code, period) >= actual
<1> DEFINE best == BestCode(f)
<1>1. best \in Attainable(f) /\ \A other \in Attainable(f) : Distance(f, best) <= Distance(f, other)
  BY BestCodeIs
<1> HIDE DEF best
<1>2. PICK i \in Nat, g \in Nat : i = InputClock /\ g = f /\ g > 0
  BY DEF FrequencyConstants
<1>3. PICK p \in PrescalerValues, b \in Nat, actual \in Nat :
        /\ b = i \div (g * p) /\ b > 0 /\ b <= 256 /\ actual = i \div (p * b)
        /\ Output(best, RequiredPeriod(f, best)) = actual
        /\ g <= actual /\ Distance(f, best) = actual - g
  BY <1>1, <1>2, AttainableGives
<1>4. ASSUME NEW code \in PrescalerCodes, NEW period \in Periods, Output(code, period) >= f
      PROVE  Output(code, period) >= actual
  <2>1. PICK s \in PrescalerValues, n \in Nat : s = Prescaler(code) /\ n = period + 1 /\ n > 0 /\ n <= 256
    BY PrescalerIs DEF Periods
  <2>2. p \in Nat /\ p > 0 /\ s \in Nat /\ s > 0
    BY PrescalerPositive
  <2>3. s * n \in Nat /\ s * n > 0 /\ g * s \in Nat /\ g * s > 0 /\ p * b \in Nat /\ p * b > 0
    BY <1>2, <1>3, <2>1, <2>2
  <2>4. PICK o \in Nat : o = i \div (s * n)
    BY <2>3
  <2>5. Output(code, period) = o
    BY <1>2, <2>1, <2>4 DEF Output
  <2>6. PICK r \in Nat : r = i \div (g * s)
    BY <2>3
  <2>7. g <= o
    BY <1>2, <1>4, <2>5
  <2>8. n <= r
    BY <1>2, <2>1, <2>2, <2>4, <2>6, <2>7, FastEnough
  <2>9. CASE r <= 256
    <3>1. RequiredPeriod(f, code) = r - 1 /\ r - 1 \in 0..255
      BY <1>2, <2>1, <2>6, <2>8, <2>9 DEF RequiredPeriod
    <3>2. code \in Attainable(f)
      BY <3>1 DEF Attainable, Periods
    <3>3. PICK other \in Nat : other = i \div (s * r) /\ Distance(f, code) = other - g
      BY <1>2, <2>1, <2>6, <3>2, AttainableGives
    <3>4. actual - g <= other - g
      BY <1>1, <1>3, <3>2, <3>3
    <3>5. s * n <= s * r /\ s * r \in Nat
      <4>1. n * s <= r * s
        BY <2>2, <2>8, TimesGrows
      <4> QED
        BY <2>2, <4>1
    <3>6. other <= o
      BY <2>3, <2>4, <3>3, <3>5, QuotientFalls
    <3> QED
      BY <2>5, <3>4, <3>6
  <2>10. CASE r > 256
    <3>1. 256 * s <= p * b
      BY <1>2, <1>3, <2>6, <2>10, TooFast
    <3>2. s * n <= 256 * s
      <4>1. n * s <= 256 * s
        BY <2>1, <2>2, TimesGrows
      <4> QED
        BY <2>2, <4>1
    <3>3. s * n <= p * b
      BY <2>2, <2>3, <3>1, <3>2
    <3>4. actual <= o
      BY <1>3, <2>3, <2>4, <3>3, QuotientFalls
    <3> QED
      BY <2>5, <3>4
  <2> QED
    BY <2>9, <2>10
<1> QED
  BY <1>2, <1>3, <1>4 DEF best

-----------------------------------------------------------------------------
(* Timers and ports *)

\* A timer that was constructed and never changed runs with the best of all choices, and a
\* port with the divisor that was computed.
Tuned(t) ==
  /\ t.wanted \in Frequencies /\ Attainable(t.wanted) # {}
  /\ t.code = BestCode(t.wanted) /\ t.period = RequiredPeriod(t.wanted, t.code)

TimersTuned == \A u \in Units : timer[u].constructed /\ ~timer[u].retuned => Tuned(timer[u])

PortTuned ==
  sercom.wanted # 0 => /\ sercom.wanted \in Frequencies /\ Baud(sercom.wanted) \in Periods
                       /\ sercom.baud = Baud(sercom.wanted)

FrequencySafe == FrequencyTypeOK /\ TimersTuned /\ PortTuned

LEMMA FrequencySafeGives == FrequencyConstants /\ FrequencySafe => FrequenciesRoundedUp
<1> SUFFICES ASSUME FrequencyConstants, FrequencySafe PROVE FrequenciesRoundedUp
  OBVIOUS
<1>1. TimerRoundedUp
  <2> SUFFICES ASSUME NEW u \in Units, timer[u].constructed, ~timer[u].retuned
               PROVE  LET actual == Output(timer[u].code, timer[u].period) IN
                      /\ actual >= timer[u].wanted
                      /\ \A code \in PrescalerCodes, period \in Periods :
                           Output(code, period) >= timer[u].wanted => Output(code, period) >= actual
    BY DEF TimerRoundedUp
  <2>1. PICK f \in Frequencies : /\ f = timer[u].wanted /\ Attainable(f) # {}
                                 /\ timer[u].code = BestCode(f)
                                 /\ timer[u].period = RequiredPeriod(f, BestCode(f))
    BY DEF FrequencySafe, TimersTuned, Tuned
  <2> QED
    BY <2>1, BestIsClosest
<1>2. PortRoundedUp
  <2> SUFFICES ASSUME sercom.wanted # 0
               PROVE  LET Actual(baud) == InputClock \div (2 * (baud + 1)) IN
                      /\ Actual(sercom.baud) >= sercom.wanted
                      /\ \A baud \in Periods :
                           Actual(baud) >= sercom.wanted => Actual(baud) >= Actual(sercom.baud)
    BY DEF PortRoundedUp
  <2>1. PICK f \in Frequencies : f = sercom.wanted /\ Baud(f) \in Periods /\ sercom.baud = Baud(f)
    BY DEF FrequencySafe, PortTuned
  <2> QED
    BY <2>1, BaudClosest
<1> QED
  BY <1>1, <1>2 DEF FrequenciesRoundedUp, FrequencySafe

LEMMA IdleTimerTyped == IdleTimer \in Timer
<1>1. 0 \in PrescalerCodes /\ 0 \in Periods /\ 255 \in Periods
  BY DEF PrescalerCodes, Periods
<1> QED
  BY <1>1 DEF IdleTimer, Timer

\* The values that are computed fit their registers.
LEMMA BestFits ==
  ASSUME FrequencyConstants, NEW f \in Frequencies, Attainable(f) # {}
  PROVE  BestCode(f) \in PrescalerCodes /\ RequiredPeriod(f, BestCode(f)) \in Periods /\ f \in Nat
<1>1. BestCode(f) \in Attainable(f)
  BY BestCodeIs
<1> QED
  BY <1>1 DEF Attainable, FrequencyConstants

LEMMA AppliedTyped ==
  ASSUME FrequencyConstants, NEW f \in Frequencies, Attainable(f) # {}
  PROVE  Applied(f, 0) \in Timer /\ Tuned(Applied(f, 0))
<1>1. 0 \in Periods
  BY DEF Periods
<1>2. Applied(f, 0) \in Timer
  BY <1>1, BestFits DEF Applied, Timer
<1>3. Tuned(Applied(f, 0))
  BY DEF Applied, Tuned
<1> QED
  BY <1>2, <1>3

LEMMA BitwiseOrTyped == \A a, b \in PrescalerCodes : BitwiseOr(a, b) \in PrescalerCodes
<1> SUFFICES ASSUME NEW a \in PrescalerCodes, NEW b \in PrescalerCodes
             PROVE  BitwiseOr(a, b) \in PrescalerCodes
  OBVIOUS
<1> QED
  BY DEF BitwiseOr, PrescalerCodes

LEMMA RetunedTyped ==
  ASSUME FrequencyConstants, NEW f \in Frequencies, Attainable(f) # {}, NEW t \in Timer
  PROVE  Retuned(t, f) \in Timer /\ Retuned(t, f).retuned
<1>1. PICK code \in PrescalerCodes : code = BitwiseOr(t.code, BestCode(f))
  <2>1. t.code \in PrescalerCodes
    BY DEF Timer
  <2> QED
    BY <2>1, BestFits, BitwiseOrTyped
<1>2. PICK period \in Periods : period = RequiredPeriod(f, BestCode(f))
  BY BestFits
<1>3. f \in Nat
  BY BestFits
<1>4. Retuned(t, f) = [t EXCEPT !.code = code, !.period = period, !.wanted = f, !.retuned = TRUE]
  BY <1>1, <1>2 DEF Retuned
<1> QED
  BY <1>3, <1>4 DEF Timer

\* A duty cycle is a part of the period.
LEMMA DutyTyped ==
  ASSUME FrequencyConstants, NEW duty \in Duties, NEW period \in Periods
  PROVE  LET clamped == IF duty < 0 THEN 0 ELSE IF duty > 100 THEN 100 ELSE duty IN
         (period * clamped) \div 100 \in Periods
<1>1. PICK clamped \in Nat : /\ clamped = IF duty < 0 THEN 0 ELSE IF duty > 100 THEN 100 ELSE duty
                             /\ clamped <= 100
  BY DEF FrequencyConstants
<1>2. PICK q \in Nat : q = period /\ q <= 255
  BY DEF Periods
<1>3. PICK x \in Nat : x = q * clamped
  OBVIOUS
<1>4. x <= 255 * 100
  <2>1. q * clamped <= 255 * clamped
    BY <1>2, TimesGrows
  <2> QED
    BY <1>1, <1>3, <2>1
<1>5. x \div 100 \in 0..255
  BY <1>4
<1> QED
  BY <1>1, <1>2, <1>3, <1>5 DEF Periods

LEMMA FrequencySafeInit == FrequencyConstants /\ FrequencyInit => FrequencySafe
<1> SUFFICES ASSUME FrequencyConstants, FrequencyInit PROVE FrequencySafe
  OBVIOUS
<1>1. timer \in [Units -> Timer]
  BY IdleTimerTyped DEF FrequencyInit
<1>2. 0 \in Periods
  BY DEF Periods
<1>3. FrequencyTypeOK
  <2>1. sercom \in [baud : Periods, wanted : Nat]
    BY <1>2 DEF FrequencyInit
  <2>2. 0 \in 0..MaxTunings
    BY DEF FrequencyConstants
  <2>3. tunings \in 0..MaxTunings
    BY <2>2 DEF FrequencyInit
  <2>4. panicked \in BOOLEAN /\ gInitialized \subseteq Units
    BY DEF FrequencyInit
  <2> QED
    BY <1>1, <2>1, <2>3, <2>4 DEF FrequencyTypeOK
<1>4. TimersTuned
  BY DEF FrequencyInit, TimersTuned, IdleTimer
<1>5. PortTuned
  BY DEF FrequencyInit, PortTuned
<1> QED
  BY <1>3, <1>4, <1>5 DEF FrequencySafe

\* A step that puts a timer, or leaves it, in tune keeps the timers in tune.
LEMMA OneTimer ==
  ASSUME timer \in [Units -> Timer], TimersTuned, NEW u \in Units, NEW t \in Timer,
         timer' = [timer EXCEPT ![u] = t], t.constructed /\ ~t.retuned => Tuned(t)
  PROVE  timer' \in [Units -> Timer] /\ TimersTuned'
<1>1. timer' \in [Units -> Timer]
  OBVIOUS
<1>2. \A v \in Units : timer'[v] = IF v = u THEN t ELSE timer[v]
  OBVIOUS
<1>3. \A v \in Units : timer'[v].constructed /\ ~timer'[v].retuned => Tuned(timer'[v])
  BY <1>2 DEF TimersTuned
<1>4. TimersTuned'
  BY <1>3 DEF TimersTuned, Tuned, Attainable, BestCode, RequiredPeriod, Prescaler, Distance, Output,
              PrescalerCodes, Periods
<1> QED
  BY <1>1, <1>4

LEMMA FrequencySafeNext == FrequencyConstants /\ FrequencySafe /\ [FrequencyNext]_frequencyVars => FrequencySafe'
<1> SUFFICES ASSUME FrequencyConstants, FrequencySafe, [FrequencyNext]_frequencyVars
             PROVE  FrequencySafe'
  OBVIOUS
<1>1. /\ gInitialized \subseteq Units /\ timer \in [Units -> Timer]
      /\ sercom \in [baud : Periods, wanted : Nat] /\ panicked \in BOOLEAN
      /\ tunings \in 0..MaxTunings /\ TimersTuned /\ PortTuned
  BY DEF FrequencySafe, FrequencyTypeOK
<1>2. TimerCall => tunings' \in 0..MaxTunings
  BY <1>1 DEF TimerCall, FrequencyConstants
<1>3. ASSUME UNCHANGED timer PROVE timer' \in [Units -> Timer] /\ TimersTuned'
  BY <1>1, <1>3 DEF TimersTuned
<1>4. ASSUME UNCHANGED sercom PROVE sercom' \in [baud : Periods, wanted : Nat] /\ PortTuned'
  BY <1>1, <1>4 DEF PortTuned
<1>5. ASSUME NEW u \in Units, NEW f \in Frequencies, ConstructTimer(u, f, 0)
      PROVE  FrequencySafe'
  <2>1. tunings' \in 0..MaxTunings /\ UNCHANGED sercom
    BY <1>2, <1>5 DEF ConstructTimer
  <2>2. CASE panicked' = TRUE /\ UNCHANGED <<gInitialized, timer>>
    BY <1>1, <1>3, <1>4, <2>1, <2>2 DEF FrequencySafe, FrequencyTypeOK
  <2>3. CASE /\ Attainable(f) # {} /\ timer' = [timer EXCEPT ![u] = Applied(f, 0)]
             /\ gInitialized' = gInitialized \cup (Units \ {u}) /\ UNCHANGED panicked
    <3>1. timer' \in [Units -> Timer] /\ TimersTuned'
      BY <1>1, <2>3, AppliedTyped, OneTimer
    <3>2. gInitialized' \subseteq Units
      BY <1>1, <2>3
    <3> QED
      BY <1>1, <1>4, <2>1, <2>3, <3>1, <3>2 DEF FrequencySafe, FrequencyTypeOK
  <2> QED
    BY <1>5, <2>2, <2>3 DEF ConstructTimer
<1>6. ASSUME NEW u \in Units, NEW f \in Frequencies, SetFrequency(u, f)
      PROVE  FrequencySafe'
  <2>1. tunings' \in 0..MaxTunings /\ UNCHANGED <<sercom, gInitialized>>
    BY <1>2, <1>6 DEF SetFrequency
  <2>2. CASE panicked' = TRUE /\ UNCHANGED timer
    BY <1>1, <1>3, <1>4, <2>1, <2>2 DEF FrequencySafe, FrequencyTypeOK
  <2>3. CASE /\ Attainable(f) # {} /\ timer' = [timer EXCEPT ![u] = Retuned(timer[u], f)]
             /\ UNCHANGED panicked
    <3>1. timer' \in [Units -> Timer] /\ TimersTuned'
      BY <1>1, <2>3, RetunedTyped, OneTimer
    <3> QED
      BY <1>1, <1>4, <2>1, <2>3, <3>1 DEF FrequencySafe, FrequencyTypeOK
  <2> QED
    BY <1>6, <2>2, <2>3 DEF SetFrequency
<1>7. ASSUME NEW u \in Units, DestroyTimer(u) PROVE FrequencySafe'
  <2>1. UNCHANGED <<sercom, panicked, tunings>> /\ gInitialized' \subseteq Units
    BY <1>1, <1>7 DEF DestroyTimer
  <2>2. timer' = [timer EXCEPT ![u] = IdleTimer] /\ ~IdleTimer.constructed
    BY <1>7 DEF DestroyTimer, IdleTimer
  <2>3. timer' \in [Units -> Timer] /\ TimersTuned'
    BY <1>1, <2>2, IdleTimerTyped, OneTimer
  <2> QED
    BY <1>1, <1>4, <2>1, <2>3 DEF FrequencySafe, FrequencyTypeOK
<1>8. ASSUME NEW u \in Units, NEW on \in BOOLEAN, SetEnabled(u, on) PROVE FrequencySafe'
  <2>1. UNCHANGED <<sercom, panicked, tunings, gInitialized>>
    BY <1>8 DEF SetEnabled
  <2>2. PICK t : t = [timer[u] EXCEPT !.enabled = on, !.running = on]
    OBVIOUS
  <2>3. timer' = [timer EXCEPT ![u] = t]
    BY <1>1, <1>8, <2>2 DEF SetEnabled
  <2>4. t \in Timer /\ t.constructed = timer[u].constructed /\ t.retuned = timer[u].retuned
        /\ t.wanted = timer[u].wanted /\ t.code = timer[u].code /\ t.period = timer[u].period
    BY <1>1, <2>2 DEF Timer
  <2>5. t.constructed /\ ~t.retuned => Tuned(t)
    BY <1>1, <2>4 DEF TimersTuned, Tuned
  <2>6. timer' \in [Units -> Timer] /\ TimersTuned'
    BY <1>1, <2>3, <2>4, <2>5, OneTimer
  <2> QED
    BY <1>1, <1>4, <2>1, <2>6 DEF FrequencySafe, FrequencyTypeOK
<1>9. ASSUME NEW u \in Units, NEW duty \in Duties, SetDutyCycle(u, duty) PROVE FrequencySafe'
  <2>1. tunings' \in 0..MaxTunings /\ UNCHANGED <<sercom, panicked, gInitialized>>
    BY <1>2, <1>9 DEF SetDutyCycle
  <2>2. timer[u].period \in Periods
    BY <1>1 DEF Timer
  <2>3. PICK compare \in Periods : timer' = [timer EXCEPT ![u].compare = compare]
    BY <1>9, <2>2, DutyTyped DEF SetDutyCycle
  <2>4. PICK t : t = [timer[u] EXCEPT !.compare = compare]
    OBVIOUS
  <2>5. timer' = [timer EXCEPT ![u] = t]
    BY <1>1, <2>3, <2>4
  <2>6. t \in Timer /\ t.constructed = timer[u].constructed /\ t.retuned = timer[u].retuned
        /\ t.wanted = timer[u].wanted /\ t.code = timer[u].code /\ t.period = timer[u].period
    BY <1>1, <2>4 DEF Timer
  <2>7. t.constructed /\ ~t.retuned => Tuned(t)
    BY <1>1, <2>6 DEF TimersTuned, Tuned
  <2>8. timer' \in [Units -> Timer] /\ TimersTuned'
    BY <1>1, <2>5, <2>6, <2>7, OneTimer
  <2> QED
    BY <1>1, <1>4, <2>1, <2>8 DEF FrequencySafe, FrequencyTypeOK
<1>10. ASSUME NEW f \in Frequencies, UpdateFreq(f) PROVE FrequencySafe'
  <2>1. tunings' \in 0..MaxTunings /\ UNCHANGED <<gInitialized, timer>>
    BY <1>2, <1>10 DEF UpdateFreq
  <2>2. CASE panicked' = TRUE /\ UNCHANGED sercom
    BY <1>1, <1>3, <1>4, <2>1, <2>2 DEF FrequencySafe, FrequencyTypeOK
  <2>3. CASE /\ Baud(f) \in Periods /\ sercom' = [baud |-> Baud(f), wanted |-> f]
             /\ UNCHANGED panicked
    <3>1. f \in Nat
      BY DEF FrequencyConstants
    <3>2. sercom' \in [baud : Periods, wanted : Nat]
      BY <2>3, <3>1
    <3>3. PortTuned'
      BY <2>3 DEF PortTuned, Baud, Periods
    <3> QED
      BY <1>1, <1>3, <2>1, <2>3, <3>2, <3>3 DEF FrequencySafe, FrequencyTypeOK
  <2> QED
    BY <1>10, <2>2, <2>3 DEF UpdateFreq
<1>11. CASE UNCHANGED frequencyVars
  BY <1>1, <1>3, <1>4, <1>11 DEF frequencyVars, FrequencySafe, FrequencyTypeOK
<1> QED
  BY <1>5, <1>6, <1>7, <1>8, <1>9, <1>10, <1>11 DEF FrequencyNext

\* Whatever frequencies are asked for, and in whatever order timers are constructed, changed
\* and destroyed: a timer that keeps the frequency it was constructed with, and a serial
\* port, run at the closest frequency not below the one asked for that any setting of the
\* registers gives (TimerCounter::CalculateFrequency, and updateFreq of the ports).
THEOREM FrequenciesAreRoundedUp ==
  ASSUME FrequencyConstants
  PROVE  FrequencySpec => []FrequenciesRoundedUp
<1>1. FrequencyInit => FrequencySafe
  BY FrequencySafeInit
<1>2. FrequencySafe /\ [FrequencyNext]_frequencyVars => FrequencySafe'
  BY FrequencySafeNext
<1>3. FrequencySafe => FrequenciesRoundedUp
  BY FrequencySafeGives
<1> QED
  BY <1>1, <1>2, <1>3, PTL DEF FrequencySpec

-----------------------------------------------------------------------------
(* Definitions that go through a sequence *)

\* A set of numbers that has 0, and with each number the next one, has them all.
LEMMA AllNumbers ==
  ASSUME NEW S, 0 \in S, \A n \in Nat : n \in S => n + 1 \in S
  PROVE  \A n \in Nat : n \in S
<1> SUFFICES ASSUME Nat \ S # {} PROVE FALSE
  OBVIOUS
<1>1. PICK x \in Nat \ S : \A y \in Nat \ S : x <= y
  BY LeastNatural
<1>2. x - 1 \in Nat /\ x - 1 \in S
  BY <1>1
<1>3. (x - 1) + 1 = x
  BY <1>1
<1> QED
  BY <1>1, <1>2, <1>3

\* A function given by its first value, and each other one by the one before.
Follows(f, v, G, n) == f[0] = v /\ \A k \in 1..n : f[k] = G[<<k, f[k - 1]>>]

LEMMA StepByStep ==
  ASSUME NEW V, NEW v \in V, NEW G \in [Nat \X V -> V], NEW n \in Nat
  PROVE  \E f \in [0..n -> V] : Follows(f, v, G, n)
<1> DEFINE Made(f, m) == /\ f \in [0..m -> V]
                         /\ f[0] = v /\ \A k \in 1..m : f[k] = G[<<k, f[k - 1]>>]
           S == {m \in Nat : \E f : Made(f, m)}
<1>1. 0 \in S
  <2> DEFINE f == [k \in 0..0 |-> v]
  <2>1. Made(f, 0)
    OBVIOUS
  <2> QED
    BY <2>1
<1>2. ASSUME NEW m \in Nat, m \in S PROVE m + 1 \in S
  <2>1. PICK f : Made(f, m)
    BY <1>2
  <2>a. f \in [0..m -> V]
    BY <2>1
  <2> DEFINE last == G[<<m + 1, f[m]>>]
  <2>2. f[m] \in V /\ last \in V
    BY <2>a
  <2> DEFINE g == [k \in 0..m + 1 |-> IF k <= m THEN f[k] ELSE last]
  <2>3. g \in [0..m + 1 -> V]
    BY <2>a, <2>2
  <2>4. g[0] = v
    BY <2>1
  <2>5. ASSUME NEW k \in 1..m + 1 PROVE g[k] = G[<<k, g[k - 1]>>]
    <3>1. CASE k <= m
      <4>1. k \in 1..m /\ k \in 0..m + 1 /\ k - 1 \in 0..m + 1 /\ k - 1 <= m
        BY <3>1
      <4>2. g[k] = f[k] /\ g[k - 1] = f[k - 1]
        BY <3>1, <4>1
      <4>3. f[k] = G[<<k, f[k - 1]>>]
        BY <2>1, <4>1
      <4> QED
        BY <4>2, <4>3
    <3>2. CASE k = m + 1
      <4>1. m \in 0..m + 1 /\ k - 1 = m /\ ~(k <= m) /\ k \in 0..m + 1
        BY <3>2
      <4>2. g[k] = last /\ g[m] = f[m]
        BY <4>1
      <4> QED
        BY <3>2, <4>1, <4>2
    <3> QED
      BY <3>1, <3>2
  <2> HIDE DEF g
  <2>6. Made(g, m + 1)
    BY <2>3, <2>4, <2>5
  <2> HIDE DEF Made
  <2> QED
    BY <2>6
<1> HIDE DEF S
<1>3. n \in S
  BY <1>1, <1>2, AllNumbers
<1> QED
  BY <1>3 DEF S, Follows
-----------------------------------------------------------------------------
(* The inventory ROM *)

LEMMA AtomsTyped ==
  ASSUME InventoryConstants, NEW r \in Roms
  PROVE  /\ r.firstAtom \in Nat /\ Len(r.atoms) \in Nat
         /\ \A n \in 1..Len(r.atoms) :
              /\ r.atoms[n] \in [type : AtomTypes, length : AtomLengths]
              /\ r.atoms[n].length \in Nat /\ r.atoms[n].type \in AtomTypes
<1> DEFINE Atoms == [type : AtomTypes, length : AtomLengths]
<1>1. r.atoms \in Seq(Atoms) /\ r.firstAtom \in Nat
  BY DEF InventoryConstants
<1> HIDE DEF Atoms
<1>2. Len(r.atoms) \in Nat /\ \A n \in 1..Len(r.atoms) : r.atoms[n] \in Atoms
  BY <1>1
<1>3. \A a \in Atoms : a.length \in AtomLengths /\ a.type \in AtomTypes
  BY DEF Atoms
<1>4. \A n \in AtomLengths : n \in Nat
  BY DEF AtomLengths
<1> QED
  BY <1>1, <1>2, <1>3, <1>4 DEF Atoms

\* Where atoms lie.
LEMMA AddressIs ==
  ASSUME InventoryConstants, NEW r \in Roms
  PROVE  /\ AtomAddress(r, 1) = r.firstAtom
         /\ \A n \in 1..Len(r.atoms) :
              /\ AtomAddress(r, n) \in Nat
              /\ AtomAddress(r, n + 1) = AtomAddress(r, n) + AtomHeaderSize + r.atoms[n].length
<1>1. PICK last \in Nat : last = Len(r.atoms)
  BY AtomsTyped
<1>2. \A k \in 1..last : r.atoms[k].length \in Nat
  BY <1>1, AtomsTyped
<1>3. r.firstAtom \in Nat
  BY AtomsTyped
<1> DEFINE Body(f) == f = [k \in 0..last |->
                       IF k = 0 THEN r.firstAtom
                       ELSE f[k - 1] + AtomHeaderSize + r.atoms[k].length]
           address == CHOOSE f : Body(f)
<1>4. \E f : Body(f)
  <2> DEFINE G == [p \in Nat \X Nat |->
                     IF p[1] \in 1..last THEN p[2] + AtomHeaderSize + r.atoms[p[1]].length ELSE 0]
  <2>1. G \in [Nat \X Nat -> Nat]
    BY <1>2 DEF AtomHeaderSize
  <2>2. \A k \in 1..last, a \in Nat : G[<<k, a>>] = a + AtomHeaderSize + r.atoms[k].length
    OBVIOUS
  <2> HIDE DEF G
  <2>3. PICK f \in [0..last -> Nat] : Follows(f, r.firstAtom, G, last)
    BY <1>1, <1>3, <2>1, StepByStep
  <2>4. \A k \in 0..last : k # 0 => k \in 1..last /\ f[k - 1] \in Nat
    BY <2>3
  <2>5. Body(f)
    BY <2>2, <2>3, <2>4 DEF Follows
  <2> QED
    BY <2>5
<1>5. Body(address)
  BY <1>4
<1>6. \A n : AtomAddress(r, n) = address[n - 1]
  BY <1>1 DEF AtomAddress
<1> HIDE DEF address
<1>7. address[0] = r.firstAtom
        /\ \A k \in 1..last : address[k] = address[k - 1] + AtomHeaderSize + r.atoms[k].length
  BY <1>1, <1>5
<1>8. \A k \in Nat : k <= last => address[k] \in Nat
  <2> DEFINE S == {k \in Nat : k <= last => address[k] \in Nat}
  <2>1. 0 \in S
    BY <1>3, <1>7
  <2>2. ASSUME NEW k \in Nat, k \in S PROVE k + 1 \in S
    <3> SUFFICES ASSUME k + 1 <= last PROVE address[k + 1] \in Nat
      OBVIOUS
    <3>1. address[k] \in Nat /\ k + 1 \in 1..last /\ (k + 1) - 1 = k
      BY <1>1, <2>2
    <3> QED
      BY <1>2, <1>7, <3>1 DEF AtomHeaderSize
  <2> HIDE DEF S
  <2>3. \A k \in Nat : k \in S
    BY <2>1, <2>2, AllNumbers
  <2> QED
    BY <2>3 DEF S
<1>9. ASSUME NEW n \in 1..last
      PROVE  /\ AtomAddress(r, n) \in Nat
             /\ AtomAddress(r, n + 1) = AtomAddress(r, n) + AtomHeaderSize + r.atoms[n].length
  <2>1. n - 1 \in Nat /\ n - 1 <= last /\ (n + 1) - 1 = n
    BY <1>1
  <2> QED
    BY <1>6, <1>7, <1>8, <2>1
<1> QED
  BY <1>1, <1>6, <1>7, <1>9

\* No two atoms lie at the same address, and none where the last one ends.
LEMMA AddressesGrow ==
  ASSUME InventoryConstants, NEW r \in Roms,
         NEW n \in 1..Len(r.atoms) + 1, NEW m \in 1..Len(r.atoms), m < n
  PROVE  AtomAddress(r, m) < AtomAddress(r, n)
<1>1. PICK last \in Nat : last = Len(r.atoms)
  BY AtomsTyped
<1>2. \A k \in 1..last : r.atoms[k].length \in Nat
  BY <1>1, AtomsTyped
<1>3. \A k \in 1..last : /\ AtomAddress(r, k) \in Nat
                         /\ AtomAddress(r, k + 1) = AtomAddress(r, k) + AtomHeaderSize + r.atoms[k].length
  BY <1>1, AddressIs
<1>4. ASSUME NEW k \in 1..last
      PROVE  AtomAddress(r, k + 1) \in Nat /\ AtomAddress(r, k) < AtomAddress(r, k + 1)
  <2>1. PICK a \in Nat, l \in Nat : /\ a = AtomAddress(r, k) /\ l = r.atoms[k].length
                                    /\ AtomAddress(r, k + 1) = a + AtomHeaderSize + l
    BY <1>2, <1>3
  <2> QED
    BY <2>1 DEF AtomHeaderSize
<1> DEFINE S == {k \in Nat : m + 1 + k <= last + 1 => AtomAddress(r, m) < AtomAddress(r, m + 1 + k)}
<1>5. 0 \in S
  BY <1>1, <1>4
<1>6. ASSUME NEW k \in Nat, k \in S PROVE k + 1 \in S
  <2> SUFFICES ASSUME m + 1 + (k + 1) <= last + 1
               PROVE  AtomAddress(r, m) < AtomAddress(r, m + 1 + (k + 1))
    OBVIOUS
  <2>1. PICK j \in 1..last : j = m + 1 + k /\ m + 1 + (k + 1) = j + 1
    BY <1>1
  <2>2. AtomAddress(r, m) < AtomAddress(r, j)
    BY <1>6, <2>1
  <2>3. AtomAddress(r, m) \in Nat /\ AtomAddress(r, j) \in Nat /\ AtomAddress(r, j + 1) \in Nat
        /\ AtomAddress(r, j) < AtomAddress(r, j + 1)
    BY <1>1, <1>3, <1>4
  <2>4. AtomAddress(r, m) < AtomAddress(r, j + 1)
    BY <2>2, <2>3
  <2> QED
    BY <2>1, <2>4
<1> HIDE DEF S
<1>7. \A k \in Nat : k \in S
  BY <1>5, <1>6, AllNumbers
<1>8. n - m - 1 \in Nat /\ m + 1 + (n - m - 1) = n /\ n <= last + 1
  BY <1>1
<1>9. n - m - 1 \in S
  BY <1>7, <1>8
<1> QED
  BY <1>8, <1>9 DEF S

\* The ROM gives the n-th atom at the n-th address, and nothing after the last one.
LEMMA AtomThere ==
  ASSUME InventoryConstants, rom \in Roms, NEW n \in 1..Len(rom.atoms) + 1
  PROVE  AtomAt(AtomAddress(rom, n)) = IF n <= Len(rom.atoms) THEN rom.atoms[n] ELSE NoAtom
<1>1. PICK last \in Nat : last = Len(rom.atoms)
  BY AtomsTyped
<1> DEFINE places == {k \in 1..last : AtomAddress(rom, k) = AtomAddress(rom, n)}
<1>2. AtomAt(AtomAddress(rom, n)) =
        IF places = {} THEN NoAtom ELSE rom.atoms[CHOOSE k \in places : TRUE]
  BY <1>1 DEF AtomAt
<1>3. ASSUME NEW k \in places PROVE k = n
  <2>1. \A j \in 1..last : AtomAddress(rom, j) \in Nat
    BY <1>1, AddressIs
  <2>2. CASE k < n
    <3>1. AtomAddress(rom, k) < AtomAddress(rom, n)
      BY <1>1, <1>3, <2>2, AddressesGrow
    <3> QED
      BY <1>3, <2>1, <3>1
  <2>3. CASE n < k
    <3>1. n \in 1..last /\ k \in 1..last + 1
      BY <1>1, <1>3, <2>3
    <3>2. AtomAddress(rom, n) < AtomAddress(rom, k)
      BY <1>1, <2>3, <3>1, AddressesGrow
    <3> QED
      BY <1>3, <2>1, <3>1, <3>2
  <2> QED
    BY <1>1, <1>3, <2>2, <2>3
<1>4. CASE n <= last
  <2>1. n \in places
    BY <1>1, <1>4
  <2>2. places = {n}
    BY <1>3, <2>1
  <2> HIDE DEF places
  <2>3. (CHOOSE k \in places : TRUE) = n
    BY <2>2
  <2> QED
    BY <1>1, <1>2, <1>4, <2>2, <2>3
<1>5. CASE ~(n <= last)
  <2>1. places = {}
    BY <1>3, <1>5
  <2> QED
    BY <1>1, <1>2, <1>5, <2>1
<1> QED
  BY <1>4, <1>5

\* The data that is asked for, atom by atom.
LEMMA AskedIs ==
  ASSUME InventoryConstants, NEW r \in Roms
  PROVE  /\ Asked(r, 0) = <<>>
         /\ \A n \in 1..Len(r.atoms) :
              Asked(r, n) = IF Wanted(r.atoms[n])
                         THEN Append(Asked(r, n - 1),
                                     DataOf(r.atoms[n], AtomAddress(r, n) + AtomHeaderSize))
                         ELSE Asked(r, n - 1)
<1>1. PICK last \in Nat : last = Len(r.atoms)
  BY AtomsTyped
<1> DEFINE data(k) == DataOf(r.atoms[k], AtomAddress(r, k) + AtomHeaderSize)
           Body(f) == f = [k \in 0..last |->
                       IF k = 0 THEN <<>>
                       ELSE IF Wanted(r.atoms[k]) THEN Append(f[k - 1], data(k)) ELSE f[k - 1]]
           list == CHOOSE f : Body(f)
<1>2. \A n : Asked(r, n) = list[n]
  BY <1>1 DEF Asked
<1>3. \E f : Body(f)
  <2> DEFINE Places == {data(k) : k \in 1..last}
             Lists == Seq(Places)
             G == [p \in Nat \X Lists |->
                     IF p[1] \in 1..last /\ Wanted(r.atoms[p[1]]) THEN Append(p[2], data(p[1])) ELSE p[2]]
  <2>1. \A k \in 1..last, s \in Lists : Append(s, data(k)) \in Lists
    <3> HIDE DEF data
    <3> QED
      OBVIOUS
  <2> HIDE DEF Lists, data
  <2>2. G \in [Nat \X Lists -> Lists]
    BY <2>1
  <2>3. \A k \in 1..last, s \in Lists :
          G[<<k, s>>] = IF Wanted(r.atoms[k]) THEN Append(s, data(k)) ELSE s
    OBVIOUS
  <2>4. <<>> \in Lists
    BY DEF Lists
  <2> HIDE DEF G
  <2>5. PICK f \in [0..last -> Lists] : Follows(f, <<>>, G, last)
    BY <1>1, <2>2, <2>4, StepByStep
  <2>6. \A k \in 0..last : k # 0 => k \in 1..last /\ f[k - 1] \in Lists
    BY <2>5
  <2>7. Body(f)
    BY <2>3, <2>5, <2>6 DEF Follows
  <2> QED
    BY <2>7
<1>4. Body(list)
  BY <1>3
<1> HIDE DEF list
<1>5. list[0] = <<>>
  BY <1>1, <1>4
<1>6. \A k \in 1..last :
        list[k] = IF Wanted(r.atoms[k]) THEN Append(list[k - 1], data(k)) ELSE list[k - 1]
  <2> SUFFICES ASSUME NEW k \in 1..last
               PROVE  list[k] = IF Wanted(r.atoms[k]) THEN Append(list[k - 1], data(k)) ELSE list[k - 1]
    OBVIOUS
  <2> HIDE DEF data
  <2>1. k \in 0..last /\ k # 0
    BY <1>1
  <2>2. list = [j \in 0..last |->
                  IF j = 0 THEN <<>>
                  ELSE IF Wanted(r.atoms[j]) THEN Append(list[j - 1], data(j)) ELSE list[j - 1]]
    BY <1>4
  <2> QED
    BY <2>1, <2>2
<1> QED
  BY <1>1, <1>2, <1>5, <1>6

\* An atom's data is somewhere, and of some length.
LEMMA DataTyped ==
  ASSUME InventoryConstants, NEW a \in [type : AtomTypes, length : AtomLengths],
         NEW address \in Nat
  PROVE  a.length \in Nat /\ DataOf(a, address) \in AtomTypes \X Nat \X Nat \X Nat
<1>1. a.length \in Nat
  BY DEF AtomLengths
<1>2. BufferSize[a.type] \in Nat
  BY DEF InventoryConstants
<1>3. DataLength(a) \in Nat
  BY <1>1, <1>2 DEF DataLength
<1> QED
  BY <1>1, <1>2, <1>3 DEF DataOf

\* What a turn of the loop counts.
LEMMA PassedIs ==
  ASSUME numRead \in Nat, declined \in 0..MaxDeclined, MaxDeclined \in Nat
  PROVE  /\ UNCHANGED <<numRead, declined>> => Passed' = Passed
         /\ NextAtom /\ UNCHANGED declined => Passed' = Passed + 1
         /\ NextAtom /\ declined' = declined + 1 => Passed' = Passed
         /\ NextAtom => numRead' \in Nat
  BY DEF Passed, NextAtom

\* The parser and the ROM are in step.
Pieces == AtomTypes \X Nat \X Nat \X Nat
ParseSafe ==
  /\ ParseTypeOK
  /\ rom \in Roms
  /\ Passed \in 0..Len(rom.atoms) /\ delivered = Asked(rom, Passed)
  /\ parsePc # "done" => parseErr = "none"
  /\ parsePc = "begin" => Passed = 0
  /\ parsePc = "atom" => addr = AtomAddress(rom, Passed + 1)
  /\ parsePc \in {"callback", "data"} => Passed < Len(rom.atoms) /\ atom = rom.atoms[Passed + 1]
  /\ parsePc = "callback" => addr = AtomAddress(rom, Passed + 1)
  /\ parsePc = "data" => addr = AtomAddress(rom, Passed + 1) + AtomHeaderSize /\ Wanted(atom)
  /\ parseErr = "ok" =>
       \E n \in {Passed, Passed + 1} : n \in 1..Len(rom.atoms) /\ rom.atoms[n].type = "End"

LEMMA ParseSafeInit == InventoryConstants /\ ParseInit => ParseSafe
<1> SUFFICES ASSUME InventoryConstants, ParseInit PROVE ParseSafe
  OBVIOUS
<1>1. /\ parsePc = "begin" /\ rom \in Roms /\ addr = 0 /\ numRead = 0 /\ declined = 0
      /\ atom = NoAtom /\ delivered = <<>> /\ parseErr = "none" /\ Passed = 0 /\ 0 \in 0..MaxDeclined
  BY DEF ParseInit, Passed, InventoryConstants
<1>2. Asked(rom, 0) = <<>> /\ 0 \in 0..Len(rom.atoms)
  BY <1>1, AskedIs, AtomsTyped
<1>3. NoAtom \in AtomHeader
  <2>1. 0 \in AtomLengths
    BY DEF AtomLengths
  <2> QED
    BY <2>1 DEF NoAtom, AtomHeader
<1>4. <<>> \in Seq(Pieces)
  OBVIOUS
<1>5. ParseTypeOK
  BY <1>1, <1>3, <1>4 DEF ParseTypeOK, Pieces
<1> QED
  BY <1>1, <1>2, <1>5 DEF ParseSafe

\* The end of a turn of the loop: what is left is to read the next atom, or nothing.
LEMMA TurnEnds ==
  ASSUME InventoryConstants, rom \in Roms, UNCHANGED <<rom, atom>>, NextAtom,
         parseErr = "none", Passed \in 0..Len(rom.atoms), numRead \in Nat,
         UNCHANGED declined, declined \in 0..MaxDeclined,
         Passed < Len(rom.atoms), atom = rom.atoms[Passed + 1], atom \in AtomHeader,
         delivered' \in Seq(Pieces),
         delivered' = Asked(rom, Passed + 1), addr' = AtomAddress(rom, Passed + 2),
         addr' \in Nat
  PROVE  ParseSafe'
<1>1. numRead' \in Nat /\ Passed' = Passed + 1
  BY PassedIs DEF InventoryConstants
<1>2. /\ Passed' \in 1..Len(rom.atoms) /\ Passed' \in 0..Len(rom.atoms)
      /\ Passed' + 1 = Passed + 2
  BY <1>1, AtomsTyped
<1>3. rom' = rom /\ atom' = atom /\ declined' \in 0..MaxDeclined
  OBVIOUS
<1>4. CASE atom.type = "End" /\ parsePc' = "done" /\ parseErr' = "ok"
  <2>1. ParseTypeOK'
    BY <1>1, <1>3, <1>4 DEF ParseTypeOK, Pieces
  <2>2. rom'.atoms[Passed'].type = "End" /\ Passed' \in 1..Len(rom'.atoms)
    BY <1>1, <1>2, <1>3, <1>4
  <2> QED
    BY <1>1, <1>2, <1>3, <1>4, <2>1, <2>2 DEF ParseSafe
<1>5. CASE parsePc' = "atom" /\ parseErr' = parseErr
  <2>1. ParseTypeOK'
    BY <1>1, <1>3, <1>5 DEF ParseTypeOK, Pieces
  <2> QED
    BY <1>1, <1>2, <1>3, <1>5, <2>1 DEF ParseSafe
<1> QED
  BY <1>4, <1>5 DEF NextAtom, ParseReturn

LEMMA ParseSafeNext == InventoryConstants /\ ParseSafe /\ [ParseNext]_parseVars => ParseSafe'
<1> SUFFICES ASSUME InventoryConstants, ParseSafe, [ParseNext]_parseVars PROVE ParseSafe'
  OBVIOUS
<1>1. PICK last \in Nat : last = Len(rom.atoms)
  BY AtomsTyped DEF ParseSafe
<1>2. /\ rom \in Roms /\ Passed \in 0..last /\ Passed \in Nat /\ delivered = Asked(rom, Passed)
      /\ numRead \in Nat /\ declined \in 0..MaxDeclined
      /\ addr \in Nat /\ atom \in AtomHeader
      /\ delivered \in Seq(Pieces)
      /\ parsePc \in {"begin", "atom", "callback", "data", "done"}
      /\ parseErr \in {"none", "bus", "InvalidHeader", "InvalidType", "ok"}
  BY <1>1 DEF ParseSafe, ParseTypeOK, Pieces
<1>p. UNCHANGED <<numRead, declined>> => Passed' = Passed
  BY <1>2, PassedIs DEF InventoryConstants
\* A call that ends with an error has changed nothing that matters.
<1>3. ASSUME UNCHANGED <<rom, numRead, declined, delivered>>, addr' \in Nat, atom' \in AtomHeader,
             NEW code \in {"bus", "InvalidHeader", "InvalidType"}, ParseReturn(code)
      PROVE  ParseSafe'
  <2>1. ParseTypeOK'
    BY <1>2, <1>3 DEF ParseTypeOK, ParseReturn, Pieces
  <2> QED
    BY <1>1, <1>2, <1>3, <1>p, <2>1 DEF ParseSafe, ParseReturn
<1>4. CASE ReadHeader
  <2>1. UNCHANGED <<rom, numRead, declined, atom, delivered>> /\ parsePc = "begin" /\ Passed = 0
        /\ Passed' = Passed
    BY <1>4, <1>p DEF ReadHeader, ParseSafe
  <2>2. CASE (ParseReturn("bus") \/ ParseReturn("InvalidHeader")) /\ UNCHANGED addr
    BY <1>2, <1>3, <2>1, <2>2
  <2>3. CASE addr' = rom.firstAtom /\ parsePc' = "atom" /\ UNCHANGED parseErr
    <3>1. addr' = AtomAddress(rom, 0 + 1) /\ addr' \in Nat
      BY <1>2, <2>3, AddressIs, AtomsTyped
    <3>2. parseErr = "none"
      BY <2>1 DEF ParseSafe
    <3> QED
      BY <1>1, <1>2, <2>1, <2>3, <3>1, <3>2 DEF ParseSafe, ParseTypeOK, Pieces
  <2> QED
    BY <1>4, <2>2, <2>3 DEF ReadHeader
<1>5. CASE ReadAtom
  <2>1. /\ UNCHANGED <<rom, addr, numRead, declined, delivered>> /\ parsePc = "atom" /\ parseErr = "none"
        /\ addr = AtomAddress(rom, Passed + 1) /\ Passed' = Passed
    BY <1>5, <1>p DEF ReadAtom, ParseSafe
  <2>2. CASE ParseReturn("bus") /\ UNCHANGED atom
    BY <1>2, <1>3, <2>1, <2>2
  <2>3. CASE /\ atom' = AtomAt(addr)
             /\ IF atom'.type = "Invalid" THEN ParseReturn("InvalidType")
                ELSE parsePc' = "callback" /\ UNCHANGED parseErr
    <3>1. Passed + 1 \in 1..last + 1
      BY <1>2
    <3>2. atom' = IF Passed + 1 <= last THEN rom.atoms[Passed + 1] ELSE NoAtom
      BY <1>1, <1>2, <2>1, <2>3, <3>1, AtomThere
    <3>3. CASE Passed + 1 <= last
      <4>1. Passed + 1 \in 1..last /\ Passed < last /\ atom' = rom.atoms[Passed + 1]
        BY <1>2, <3>2, <3>3
      <4>2. atom' \in [type : AtomTypes, length : AtomLengths] /\ atom'.type # "Invalid"
        <5>1. atom' \in [type : AtomTypes, length : AtomLengths] /\ atom'.type \in AtomTypes
          BY <1>1, <1>2, <4>1, AtomsTyped
        <5> QED
          BY <5>1 DEF InventoryConstants
      <4>3. atom' \in AtomHeader
        BY <4>2 DEF AtomHeader
      <4>4. parsePc' = "callback" /\ parseErr' = "none"
        BY <2>1, <2>3, <4>2
      <4> QED
        BY <1>1, <1>2, <2>1, <4>1, <4>3, <4>4 DEF ParseSafe, ParseTypeOK, Pieces
    <3>4. CASE ~(Passed + 1 <= last)
      <4>1. atom' = NoAtom /\ atom'.type = "Invalid"
        BY <3>2, <3>4 DEF NoAtom
      <4>2. atom' \in AtomHeader
        <5>1. 0 \in AtomLengths
          BY DEF AtomLengths
        <5> QED
          BY <4>1, <5>1 DEF NoAtom, AtomHeader
      <4> QED
        BY <1>2, <1>3, <2>1, <2>3, <4>1, <4>2
    <3> QED
      BY <3>3, <3>4
  <2> QED
    BY <1>5, <2>2, <2>3 DEF ReadAtom
<1>6. ASSUME parsePc \in {"callback", "data"}
      PROVE  /\ Passed < last /\ atom = rom.atoms[Passed + 1] /\ Passed + 1 \in 1..last
             /\ atom \in [type : AtomTypes, length : AtomLengths]
             /\ atom.length \in Nat /\ DataOf(atom, addr) \in Pieces
             /\ AtomAddress(rom, Passed + 1) \in Nat
             /\ AtomAddress(rom, Passed + 2) = AtomAddress(rom, Passed + 1) + AtomHeaderSize + atom.length
             /\ Asked(rom, Passed + 1) =
                  IF Wanted(atom)
                  THEN Append(delivered, DataOf(atom, AtomAddress(rom, Passed + 1) + AtomHeaderSize))
                  ELSE delivered
             /\ parseErr = "none"
  <2>1. Passed < last /\ atom = rom.atoms[Passed + 1] /\ parseErr = "none"
    BY <1>1, <1>6 DEF ParseSafe
  <2>2. Passed + 1 \in 1..last /\ (Passed + 1) - 1 = Passed /\ (Passed + 1) + 1 = Passed + 2
    BY <1>2, <2>1
  <2>3. atom \in [type : AtomTypes, length : AtomLengths]
    BY <1>1, <1>2, <2>1, <2>2, AtomsTyped
  <2>4. atom.length \in Nat /\ DataOf(atom, addr) \in Pieces
    BY <1>2, <2>3, DataTyped DEF Pieces
  <2>5. /\ AtomAddress(rom, Passed + 1) \in Nat
        /\ AtomAddress(rom, Passed + 2) = AtomAddress(rom, Passed + 1) + AtomHeaderSize + atom.length
    BY <1>1, <1>2, <2>1, <2>2, AddressIs
  <2>6. Asked(rom, Passed + 1) =
          IF Wanted(atom)
          THEN Append(delivered, DataOf(atom, AtomAddress(rom, Passed + 1) + AtomHeaderSize))
          ELSE delivered
    BY <1>1, <1>2, <2>1, <2>2, AskedIs
  <2> QED
    BY <2>1, <2>2, <2>3, <2>4, <2>5, <2>6
<1>7. CASE AskCallback
  <2>1. UNCHANGED <<rom, declined, atom, delivered>> /\ parsePc = "callback"
        /\ addr = AtomAddress(rom, Passed + 1)
    BY <1>7 DEF AskCallback, ParseSafe
  <2>2. CASE Wanted(atom) /\ addr' = addr + AtomHeaderSize
             /\ parsePc' = "data" /\ UNCHANGED <<numRead, parseErr>>
    <3>1. addr' \in Nat
      BY <1>2, <2>2 DEF AtomHeaderSize
    <3> QED
      <4>1. ParseTypeOK'
        BY <1>2, <2>1, <2>2, <3>1 DEF ParseTypeOK, Pieces
      <4>2. Passed' = Passed /\ rom' = rom /\ atom' = atom /\ Wanted(atom)'
        BY <1>p, <2>1, <2>2 DEF Wanted
      <4>3. addr' = AtomAddress(rom, Passed + 1) + AtomHeaderSize
        BY <2>1, <2>2, Zenon
      <4> QED
        BY <1>1, <1>2, <1>6, <2>1, <2>2, <4>1, <4>2, <4>3 DEF ParseSafe
  <2>3. CASE ~Wanted(atom) /\ addr' = addr + AtomHeaderSize + atom.length /\ NextAtom
    <3>1. addr' \in Nat /\ addr' = AtomAddress(rom, Passed + 2)
      BY <1>2, <1>6, <2>1, <2>3 DEF AtomHeaderSize
    <3>2. delivered' = Asked(rom, Passed + 1)
      BY <1>6, <2>1, <2>3
    <3> QED
      BY <1>1, <1>2, <1>6, <2>1, <2>3, <3>1, <3>2, TurnEnds
  <2> QED
    BY <1>7, <2>2, <2>3 DEF AskCallback
<1>8. CASE ReadAtomData
  <2>1. UNCHANGED <<rom, declined, atom>> /\ parsePc = "data" /\ Wanted(atom)
        /\ addr = AtomAddress(rom, Passed + 1) + AtomHeaderSize
    BY <1>8 DEF ReadAtomData, ParseSafe
  <2>2. CASE ParseReturn("bus") /\ UNCHANGED <<addr, numRead, delivered>>
    BY <1>2, <1>3, <2>1, <2>2
  <2>3. CASE /\ delivered' = Append(delivered, DataOf(atom, addr))
             /\ addr' = addr + atom.length /\ NextAtom
    <3>1. addr' \in Nat /\ addr' = AtomAddress(rom, Passed + 2)
      <4>1. AtomAddress(rom, Passed + 2) = AtomAddress(rom, Passed + 1) + AtomHeaderSize + atom.length
        BY <1>6, <2>1
      <4>2. addr' = AtomAddress(rom, Passed + 2)
        BY <2>1, <2>3, <4>1, Zenon
      <4>3. atom.length \in Nat /\ addr \in Nat
        BY <1>2, <1>6, <2>1
      <4> QED
        BY <2>3, <4>2, <4>3
    <3>2. delivered' = Asked(rom, Passed + 1)
      <4>1. Asked(rom, Passed + 1) =
              Append(delivered, DataOf(atom, AtomAddress(rom, Passed + 1) + AtomHeaderSize))
        BY <1>6, <2>1
      <4> QED
        BY <2>1, <2>3, <4>1, Zenon
    <3>3. delivered' \in Seq(Pieces)
      <4> DEFINE piece == DataOf(atom, addr)
      <4>1. delivered \in Seq(Pieces) /\ piece \in Pieces
        BY <1>2, <1>6, <2>1
      <4> HIDE DEF piece
      <4>2. Append(delivered, piece) \in Seq(Pieces)
        BY <4>1
      <4> QED
        BY <2>3, <4>2 DEF piece
    <3> QED
      BY <1>1, <1>2, <1>6, <2>1, <2>3, <3>1, <3>2, <3>3, TurnEnds
  <2> QED
    BY <1>8, <2>2, <2>3 DEF ReadAtomData
<1>9. CASE DeclineAtom
  <2>1. /\ UNCHANGED <<rom, addr, atom, delivered>> /\ parsePc = "callback"
        /\ addr = AtomAddress(rom, Passed + 1) /\ NextAtom
        /\ declined < MaxDeclined /\ declined' = declined + 1
    BY <1>9 DEF DeclineAtom, ParseSafe
  <2>2. Passed' = Passed /\ numRead' \in Nat
    BY <1>2, <2>1, PassedIs DEF InventoryConstants
  <2>3. declined' \in 0..MaxDeclined
    BY <1>2, <2>1 DEF InventoryConstants
  <2>4. Passed + 1 \in 1..last /\ atom = rom.atoms[Passed + 1] /\ parseErr = "none"
    BY <1>6, <2>1
  <2>5. CASE atom.type = "End" /\ parsePc' = "done" /\ parseErr' = "ok"
    <3>1. ParseTypeOK'
      BY <1>2, <2>1, <2>2, <2>3, <2>5 DEF ParseTypeOK, Pieces
    <3> QED
      BY <1>1, <1>2, <2>1, <2>2, <2>4, <2>5, <3>1 DEF ParseSafe
  <2>6. CASE parsePc' = "atom" /\ parseErr' = parseErr
    <3>1. ParseTypeOK'
      BY <1>2, <2>1, <2>2, <2>3, <2>6 DEF ParseTypeOK, Pieces
    <3> QED
      BY <1>1, <1>2, <2>1, <2>2, <2>4, <2>6, <3>1 DEF ParseSafe
  <2> QED
    BY <2>1, <2>5, <2>6 DEF NextAtom, ParseReturn
<1>10. CASE UNCHANGED parseVars
  <2>1. ParseTypeOK'
    BY <1>10 DEF parseVars, ParseSafe, ParseTypeOK
  <2>2. Passed' = Passed
    BY <1>10, <1>p DEF parseVars
  <2> QED
    BY <1>10, <2>1, <2>2 DEF parseVars, ParseSafe, Wanted
<1> QED
  BY <1>4, <1>5, <1>7, <1>8, <1>9, <1>10 DEF ParseNext

\* Whatever atoms a ROM has, of whatever lengths, whatever buffers the callbacks give, and
\* however often they decline an atom: the parser passes each atom once and in order, reads
\* what the buffer holds of its data from the right place, hands over the whole buffer, and
\* ends where the ROM does (InventoryRom::GetAtoms).  That the bytes of a buffer behind the
\* data of a shorter atom belong to it is neither true nor claimed.
THEOREM AtomsAreInStep ==
  ASSUME InventoryConstants
  PROVE  ParseSpec => [](ParseTypeOK /\ AtomsInStep)
<1>1. ParseInit => ParseSafe
  BY ParseSafeInit
<1>2. ParseSafe /\ [ParseNext]_parseVars => ParseSafe'
  BY ParseSafeNext
<1>3. ParseSafe => ParseTypeOK /\ AtomsInStep
  BY DEF ParseSafe, AtomsInStep
<1> QED
  BY <1>1, <1>2, <1>3, PTL DEF ParseSpec

-----------------------------------------------------------------------------
(* The logger *)

\* What is known of the buffers that have been given out.
BuffersTaken ==
  \A p \in Priorities : tlsLogBuffer[p] # NoBuffer =>
    /\ tlsLogBuffer[p] = gLogBuffer => gLogBufferAssigned
    /\ tlsLogBuffer[p] <= gLogBuffer + allocated

\* The message is in the trace buffer, up to its newline.
PutAt(c) ==
  /\ gTraceWritePtr = Len(since)
  /\ \A cell \in Cells :
       /\ cell < c.at => gTraceBuffer[cell] = since[cell + 1]
       /\ c.at <= cell /\ cell < c.at + c.length => gTraceBuffer[cell] = [id |-> c.id, newline |-> FALSE]

\* A call that is alone.
InStep(c) ==
  /\ c.step \in {"put", "copy", "finish"} => text[tlsLogBuffer[c.task]] = c.id
  /\ c.step # "finish" => Whole
  /\ c.step \in {"copy", "finish"} =>
       c.at + c.length < kTraceBufferSize /\ (c.at = 0 \/ c.at = gTraceWritePtr)
  /\ c.step = "finish" => PutAt(c)

CallsInStep ==
  ~mixed => IF calls = <<>> THEN Whole ELSE Len(calls) = 1 /\ InStep(Running)

LogSafe == LogTypeOK /\ BuffersTaken /\ BuffersDistinct /\ CallsInStep

-----------------------------------------------------------------------------
(* The stack of calls *)

LEMMA RunningIs ==
  ASSUME calls \in Seq(LogCall), calls # <<>>
  PROVE  Running \in LogCall /\ Len(calls) \in Nat /\ Len(calls) > 0 /\ Running = calls[Len(calls)]
<1> USE DEF Running, Last
<1>1. Len(calls) \in Nat /\ Len(calls) > 0
  BY EmptySeq
<1> QED
  BY <1>1, ElementOfSeq

LEMMA UpdateIs ==
  ASSUME calls \in Seq(LogCall), calls # <<>>, NEW c \in LogCall, Update(c)
  PROVE  calls' \in Seq(LogCall) /\ calls' # <<>> /\ Len(calls') = Len(calls) /\ Running' = c
<1>1. Len(calls) \in Nat /\ Len(calls) > 0 /\ Len(calls) \in 1..Len(calls)
  BY RunningIs
<1>2. calls' \in Seq(LogCall) /\ Len(calls') = Len(calls) /\ calls'[Len(calls)] = c
  BY <1>1, ExceptSeq DEF Update
<1>3. calls' # <<>>
  BY <1>1, <1>2
<1> QED
  BY <1>2, <1>3 DEF Running, Last

\* A call that goes to another step.
LEMMA GotoIs ==
  ASSUME calls \in Seq(LogCall), calls # <<>>, NEW step \in Steps, Goto(step)
  PROVE  /\ calls' \in Seq(LogCall) /\ calls' # <<>> /\ Len(calls') = Len(calls)
         /\ Running'.step = step /\ Running'.task = Running.task /\ Running'.id = Running.id
         /\ Running'.length = Running.length /\ Running'.at = Running.at
<1>1. PICK c : c = [Running EXCEPT !.step = step]
  OBVIOUS
<1>2. Running \in LogCall
  BY RunningIs
<1>3. /\ c \in LogCall /\ c.step = step /\ c.task = Running.task /\ c.id = Running.id
      /\ c.length = Running.length /\ c.at = Running.at
  BY <1>1, <1>2 DEF LogCall
<1>4. Update(c)
  BY <1>1 DEF Goto
<1> QED
  BY <1>3, <1>4, UpdateIs

\* A call that found its place.
LEMMA PlaceIs ==
  ASSUME calls \in Seq(LogCall), calls # <<>>, NEW step \in Steps, NEW place \in Nat,
         Update([Running EXCEPT !.step = step, !.at = place])
  PROVE  /\ calls' \in Seq(LogCall) /\ calls' # <<>> /\ Len(calls') = Len(calls)
         /\ Running'.step = step /\ Running'.task = Running.task /\ Running'.id = Running.id
         /\ Running'.length = Running.length /\ Running'.at = place
<1>1. PICK c : c = [Running EXCEPT !.step = step, !.at = place]
  OBVIOUS
<1>2. Running \in LogCall
  BY RunningIs
<1>3. /\ c \in LogCall /\ c.step = step /\ c.task = Running.task /\ c.id = Running.id
      /\ c.length = Running.length /\ c.at = place
  BY <1>1, <1>2 DEF LogCall
<1>4. Update(c)
  BY <1>1
<1> QED
  BY <1>3, <1>4, UpdateIs

\* The call that ends was the last one.
LEMMA FrontIs ==
  ASSUME calls \in Seq(LogCall), calls # <<>>
  PROVE  Front(calls) \in Seq(LogCall) /\ (Len(calls) = 1 => Front(calls) = <<>>)
<1>1. Len(calls) \in Nat /\ Len(calls) > 0
  BY RunningIs
<1>2. SubSeq(calls, 1, Len(calls) - 1) \in Seq(LogCall)
        /\ Len(SubSeq(calls, 1, Len(calls) - 1)) = Len(calls) - 1
  <2>1. \A i \in 1..Len(calls) - 1 : calls[i] \in LogCall
    BY <1>1, ElementOfSeq
  <2>2. PICK m \in Nat : m = Len(calls) - 1
    BY <1>1
  <2>3. /\ SubSeq(calls, 1, m) \in Seq(LogCall)
        /\ Len(SubSeq(calls, 1, m)) = IF 1 <= m THEN m - 1 + 1 ELSE 0
    BY <2>1, <2>2, SubSeqProperties
  <2> QED
    BY <2>2, <2>3
<1>3. Len(calls) = 1 => Front(calls) = <<>>
  BY <1>1, <1>2, EmptySeq DEF Front
<1> QED
  BY <1>2, <1>3 DEF Front

-----------------------------------------------------------------------------
(* The steps of a call *)

\* What a step that leaves the trace buffer and the tasks' buffers alone has to show.
LEMMA OtherSame ==
  ASSUME LogSafe, UNCHANGED <<LogBufferVars, TraceVars>>,
         calls' \in Seq(LogCall), text' \in [Buffers -> Nat], mixed' \in BOOLEAN,
         messages' \in 0..MaxMessages, CallsInStep'
  PROVE  LogSafe'
<1>1. LogTypeOK'
  BY DEF LogSafe, LogTypeOK, LogBufferVars, TraceVars
<1>2. BuffersTaken' /\ BuffersDistinct'
  BY DEF LogSafe, BuffersTaken, BuffersDistinct, LogBufferVars
<1> QED
  BY <1>1, <1>2 DEF LogSafe

LEMMA LogSafeInit == LogConstants /\ LogInit => LogSafe
<1> SUFFICES ASSUME LogConstants, LogInit PROVE LogSafe
  OBVIOUS
<1>1. /\ calls = <<>> /\ tlsLogBuffer = [p \in Priorities |-> NoBuffer]
      /\ gLogBufferAssigned = FALSE /\ allocated = 0 /\ text = [b \in Buffers |-> 0]
      /\ gTraceBuffer = [c \in Cells |-> Empty] /\ gTraceWritePtr = 0
      /\ since = <<>> /\ mixed = FALSE /\ messages = 0
  BY DEF LogInit
<1>2. LogTypeOK
  <2>1. NoBuffer \in Buffers /\ 0 \in 0..HeapBuffers
    BY DEF NoBuffer, Buffers, LogConstants
  <2>2. 0 \in 0..MaxMessages /\ 0 \in 0..kTraceBufferSize
    BY DEF LogConstants
  <2>3. Empty \in Cell
    BY DEF Empty, Cell
  <2>4. calls \in Seq(LogCall) /\ since \in Seq(Cell)
    BY <1>1
  <2>5. gTraceBuffer \in [Cells -> Cell]
    BY <1>1, <2>3
  <2>6. tlsLogBuffer \in [Priorities -> Buffers] /\ text \in [Buffers -> Nat]
    BY <1>1, <2>1
  <2>7. /\ gLogBufferAssigned \in BOOLEAN /\ mixed \in BOOLEAN /\ allocated \in 0..HeapBuffers
        /\ gTraceWritePtr \in 0..kTraceBufferSize /\ messages \in 0..MaxMessages
    BY <1>1, <2>1, <2>2
  <2> QED
    BY <2>4, <2>5, <2>6, <2>7 DEF LogTypeOK
<1>3. BuffersTaken /\ BuffersDistinct
  BY <1>1 DEF BuffersTaken, BuffersDistinct
<1>4. CallsInStep
  <2>1. \A c \in Cells : ~(c < 0)
    BY DEF Cells, LogConstants
  <2> QED
    BY <1>1, <2>1, EmptySeq DEF CallsInStep, Whole
<1> QED
  BY <1>2, <1>3, <1>4 DEF LogSafe

\* A call begins: it is alone, or the calls are mixed.
LEMMA BeginLogStep ==
  ASSUME LogConstants, LogSafe, NEW by \in Callers, NEW task \in Priorities, NEW length \in Lengths,
         BeginLog(by, task, length)
  PROVE  LogSafe'
<1>1. /\ calls \in Seq(LogCall) /\ text \in [Buffers -> Nat] /\ mixed \in BOOLEAN
      /\ messages \in 0..MaxMessages /\ CallsInStep
  BY DEF LogSafe, LogTypeOK
<1>2. /\ messages < MaxMessages /\ messages' = messages + 1
      /\ mixed' = (mixed \/ calls # <<>>) /\ UNCHANGED <<LogBufferVars, text, TraceVars>>
  BY DEF BeginLog
<1>3. PICK c : c = [by |-> by, task |-> task, step |-> "begin", id |-> messages',
                    length |-> length, at |-> 0]
  OBVIOUS
<1>4. c \in LogCall /\ c.step = "begin"
  <2>1. messages' \in Nat /\ "begin" \in Steps
    BY <1>1, <1>2 DEF Steps, LogConstants
  <2> QED
    BY <1>3, <2>1 DEF LogCall
<1>5. calls' = Append(calls, c)
  BY <1>3 DEF BeginLog
<1>6. calls' \in Seq(LogCall) /\ Len(calls') = Len(calls) + 1 /\ calls'[Len(calls) + 1] = c
      /\ Len(calls) \in Nat
  BY <1>1, <1>4, <1>5
<1>7. calls' # <<>> /\ Running' = c
  BY <1>6 DEF Running, Last
<1>8. CallsInStep'
  <2> SUFFICES ASSUME ~mixed' PROVE Len(calls') = 1 /\ InStep(Running)'
    BY <1>7 DEF CallsInStep
  <2>1. calls = <<>> /\ Whole
    BY <1>1, <1>2 DEF CallsInStep
  <2>2. Len(calls') = 1
    BY <1>6, <2>1, EmptySeq
  <2>3. Whole'
    BY <1>2, <2>1 DEF Whole, TraceVars, Cells
  <2>4. InStep(Running)'
    BY <1>4, <1>7, <2>3 DEF InStep
  <2> QED
    BY <2>2, <2>4
<1>9. messages' \in 0..MaxMessages /\ mixed' \in BOOLEAN /\ text' \in [Buffers -> Nat]
  <2>1. messages' \in 0..MaxMessages
    BY <1>1, <1>2 DEF LogConstants
  <2>2. text' \in [Buffers -> Nat]
    BY <1>1, <1>2 DEF Buffers
  <2> QED
    BY <1>1, <1>2, <2>1, <2>2
<1> QED
  BY <1>2, <1>6, <1>8, <1>9, OtherSame

\* The task looks for its buffer.
LEMMA FindBufferStep ==
  ASSUME LogConstants, LogSafe, FindBuffer
  PROVE  LogSafe'
<1>1. /\ calls \in Seq(LogCall) /\ text \in [Buffers -> Nat] /\ mixed \in BOOLEAN
      /\ messages \in 0..MaxMessages /\ CallsInStep
  BY DEF LogSafe, LogTypeOK
<1>2. calls # <<>> /\ Running.step = "begin" /\ UNCHANGED <<LogBufferVars, text, TraceVars, mixed, messages>>
  BY DEF FindBuffer, At
<1>3. PICK step \in {"assign", "format"} : Goto(step)
  BY DEF FindBuffer
<1>4. calls' \in Seq(LogCall) /\ calls' # <<>> /\ Len(calls') = Len(calls) /\ Running'.step = step
  BY <1>1, <1>2, <1>3, GotoIs DEF Steps
<1>5. CallsInStep'
  <2> SUFFICES ASSUME ~mixed' PROVE Len(calls') = 1 /\ InStep(Running)'
    BY <1>4 DEF CallsInStep
  <2>1. Len(calls) = 1 /\ InStep(Running)
    BY <1>1, <1>2 DEF CallsInStep
  <2>2. Whole'
    BY <1>2, <2>1 DEF Whole, TraceVars, Cells, InStep
  <2> QED
    BY <1>4, <2>1, <2>2 DEF InStep
<1>6. text' \in [Buffers -> Nat]
  BY <1>1, <1>2 DEF Buffers
<1> QED
  BY <1>1, <1>2, <1>4, <1>5, <1>6, OtherSame

\* A buffer is given to the task that has none.
LEMMA AssignBufferStep ==
  ASSUME LogConstants, LogSafe, AssignBuffer
  PROVE  LogSafe'
<1>1. /\ calls \in Seq(LogCall) /\ text \in [Buffers -> Nat] /\ mixed \in BOOLEAN
      /\ messages \in 0..MaxMessages /\ CallsInStep /\ BuffersTaken /\ BuffersDistinct
      /\ tlsLogBuffer \in [Priorities -> Buffers] /\ gLogBufferAssigned \in BOOLEAN
      /\ allocated \in 0..HeapBuffers
  BY DEF LogSafe, LogTypeOK
<1>2. calls # <<>> /\ Running.step = "assign" /\ UNCHANGED <<text, TraceVars, mixed, messages>>
  BY DEF AssignBuffer, At
<1>3. PICK step \in {"format", "recursion"} : Goto(step)
  BY DEF AssignBuffer
<1>4. calls' \in Seq(LogCall) /\ calls' # <<>> /\ Len(calls') = Len(calls) /\ Running'.step = step
  BY <1>1, <1>2, <1>3, GotoIs DEF Steps
<1>5. CallsInStep'
  <2> SUFFICES ASSUME ~mixed' PROVE Len(calls') = 1 /\ InStep(Running)'
    BY <1>4 DEF CallsInStep
  <2>1. Len(calls) = 1 /\ InStep(Running)
    BY <1>1, <1>2 DEF CallsInStep
  <2>2. Whole'
    BY <1>2, <2>1 DEF Whole, TraceVars, Cells, InStep
  <2> QED
    BY <1>4, <2>1, <2>2 DEF InStep
<1>6. PICK task \in Priorities : task = Running.task
  <2>1. Running \in LogCall
    BY <1>1, <1>2, RunningIs
  <2> QED
    BY <2>1 DEF LogCall
\* A buffer that no task has.
<1>7. ASSUME NEW fresh \in Buffers, fresh # NoBuffer, \A p \in Priorities : tlsLogBuffer[p] # fresh,
             tlsLogBuffer' = [tlsLogBuffer EXCEPT ![task] = fresh]
      PROVE  BuffersDistinct' /\ tlsLogBuffer' \in [Priorities -> Buffers]
  <2>1. tlsLogBuffer' \in [Priorities -> Buffers]
    BY <1>1, <1>7
  <2>2. \A p \in Priorities : tlsLogBuffer'[p] = IF p = task THEN fresh ELSE tlsLogBuffer[p]
    BY <1>1, <1>7
  <2>3. ASSUME NEW p \in Priorities, NEW q \in Priorities, p # q, tlsLogBuffer'[p] # NoBuffer
        PROVE  tlsLogBuffer'[p] # tlsLogBuffer'[q]
    BY <1>1, <1>7, <2>2, <2>3 DEF BuffersDistinct
  <2>4. BuffersDistinct'
    BY <2>3 DEF BuffersDistinct, Priorities
  <2> QED
    BY <2>1, <2>4
<1>8. \A p \in Priorities : tlsLogBuffer[p] \in Nat
  BY <1>1 DEF Buffers
<1>9. /\ BuffersDistinct' /\ BuffersTaken' /\ tlsLogBuffer' \in [Priorities -> Buffers]
      /\ gLogBufferAssigned' \in BOOLEAN /\ allocated' \in 0..HeapBuffers
  <2>1. CASE /\ ~gLogBufferAssigned /\ tlsLogBuffer' = [tlsLogBuffer EXCEPT ![task] = gLogBuffer]
             /\ gLogBufferAssigned' = TRUE /\ UNCHANGED allocated
    <3>1. gLogBuffer \in Buffers /\ gLogBuffer # NoBuffer
      BY DEF gLogBuffer, Buffers, NoBuffer, LogConstants
    <3>2. \A p \in Priorities : tlsLogBuffer[p] # gLogBuffer
      BY <1>1, <2>1, <3>1 DEF BuffersTaken
    <3>3. BuffersDistinct' /\ tlsLogBuffer' \in [Priorities -> Buffers]
      BY <1>7, <2>1, <3>1, <3>2
    <3>4. \A p \in Priorities : tlsLogBuffer'[p] = IF p = task THEN gLogBuffer ELSE tlsLogBuffer[p]
      BY <1>1, <2>1
    <3>5. gLogBuffer <= gLogBuffer + allocated
      BY <1>1 DEF gLogBuffer
    <3>6. BuffersTaken'
      BY <1>1, <2>1, <3>4, <3>5 DEF BuffersTaken, Priorities
    <3> QED
      BY <1>1, <2>1, <3>3, <3>6
  <2>2. CASE /\ gLogBufferAssigned /\ allocated < HeapBuffers /\ allocated' = allocated + 1
             /\ tlsLogBuffer' = [tlsLogBuffer EXCEPT ![task] = gLogBuffer + allocated']
             /\ UNCHANGED gLogBufferAssigned
    <3>1. PICK fresh \in Buffers : /\ fresh = gLogBuffer + allocated' /\ fresh # NoBuffer
                                    /\ fresh # gLogBuffer
      BY <1>1, <2>2 DEF gLogBuffer, Buffers, NoBuffer, LogConstants
    <3>2. \A p \in Priorities : tlsLogBuffer[p] # NoBuffer => tlsLogBuffer[p] <= gLogBuffer + allocated
      BY <1>1 DEF BuffersTaken
    <3>3. \A p \in Priorities : tlsLogBuffer[p] # fresh
      BY <1>1, <1>8, <2>2, <3>1, <3>2 DEF gLogBuffer
    <3>4. BuffersDistinct' /\ tlsLogBuffer' \in [Priorities -> Buffers]
      BY <1>7, <2>2, <3>1, <3>3
    <3>5. \A p \in Priorities : tlsLogBuffer'[p] = IF p = task THEN fresh ELSE tlsLogBuffer[p]
      BY <1>1, <2>2, <3>1
    <3>6. allocated' \in 0..HeapBuffers
      BY <1>1, <2>2 DEF LogConstants
    <3>7. ASSUME NEW p \in Priorities, tlsLogBuffer'[p] # NoBuffer
          PROVE  tlsLogBuffer'[p] <= gLogBuffer + allocated'
      <4>1. CASE p = task
        BY <1>1, <2>2, <3>1, <3>5, <4>1 DEF gLogBuffer
      <4>2. CASE p # task
        BY <1>1, <1>8, <2>2, <3>2, <3>5, <3>7, <4>2 DEF gLogBuffer
      <4> QED
        BY <2>1, <4>1, <4>2
    <3>8. BuffersTaken'
      BY <2>2, <3>7 DEF BuffersTaken, Priorities
    <3> QED
      BY <1>1, <2>2, <3>4, <3>6, <3>8
  <2>3. CASE UNCHANGED LogBufferVars
    BY <1>1, <2>3 DEF LogBufferVars, BuffersDistinct, BuffersTaken, Priorities, Buffers
  <2> QED
    BY <1>6, <2>1, <2>2, <2>3 DEF AssignBuffer
<1>10. LogTypeOK'
  BY <1>1, <1>2, <1>4, <1>9 DEF LogSafe, LogTypeOK, TraceVars
<1> QED
  BY <1>5, <1>9, <1>10 DEF LogSafe

\* The message is formatted in the task's buffer.
LEMMA FormatStep ==
  ASSUME LogConstants, LogSafe, Format
  PROVE  LogSafe'
<1>1. /\ calls \in Seq(LogCall) /\ text \in [Buffers -> Nat] /\ mixed \in BOOLEAN
      /\ messages \in 0..MaxMessages /\ CallsInStep /\ tlsLogBuffer \in [Priorities -> Buffers]
  BY DEF LogSafe, LogTypeOK
<1>2. /\ calls # <<>> /\ Running.step = "format" /\ Goto("put")
      /\ text' = [text EXCEPT ![tlsLogBuffer[Running.task]] = Running.id]
      /\ UNCHANGED <<LogBufferVars, TraceVars, mixed, messages>>
  BY DEF Format, At
<1>3. Running.id \in Nat /\ Running.task \in Priorities
  <2>1. Running \in LogCall
    BY <1>1, <1>2, RunningIs
  <2> QED
    BY <2>1 DEF LogCall
<1>4. /\ calls' \in Seq(LogCall) /\ calls' # <<>> /\ Len(calls') = Len(calls) /\ Running'.step = "put"
      /\ Running'.task = Running.task /\ Running'.id = Running.id
  BY <1>1, <1>2, GotoIs DEF Steps
<1>5. text' \in [Buffers -> Nat] /\ text'[tlsLogBuffer[Running.task]] = Running.id
  BY <1>1, <1>2, <1>3
<1>6. tlsLogBuffer' = tlsLogBuffer
  BY <1>2 DEF LogBufferVars
<1>7. CallsInStep'
  <2> SUFFICES ASSUME ~mixed' PROVE Len(calls') = 1 /\ InStep(Running)'
    BY <1>4 DEF CallsInStep
  <2>1. Len(calls) = 1 /\ InStep(Running)
    BY <1>1, <1>2 DEF CallsInStep
  <2>2. Whole'
    BY <1>2, <2>1 DEF Whole, TraceVars, Cells, InStep
  <2>3. text'[tlsLogBuffer'[Running'.task]] = Running'.id
    BY <1>4, <1>5, <1>6
  <2> QED
    BY <1>4, <2>1, <2>2, <2>3 DEF InStep
<1>8. text' \in [Buffers -> Nat]'
  BY <1>5 DEF Buffers
<1> QED
  BY <1>1, <1>2, <1>4, <1>5, <1>7, OtherSame

\* The place that is found has room for the message and its newline.
LEMMA FindPlaceStep ==
  ASSUME LogConstants, LogSafe, FindPlace
  PROVE  LogSafe'
<1>1. /\ calls \in Seq(LogCall) /\ text \in [Buffers -> Nat] /\ mixed \in BOOLEAN
      /\ messages \in 0..MaxMessages /\ CallsInStep /\ gTraceWritePtr \in 0..kTraceBufferSize
  BY DEF LogSafe, LogTypeOK
<1>2. /\ calls # <<>> /\ Running.step = "put"
      /\ Update([Running EXCEPT !.step = "copy", !.at = StartOf(Running.length)])
      /\ UNCHANGED <<LogBufferVars, text, TraceVars, mixed, messages>>
  BY DEF FindPlace, At
<1>3. Running.length \in Nat /\ Running.length < kTraceBufferSize
  <2>1. Running \in LogCall
    BY <1>1, <1>2, RunningIs
  <2>2. Running.length \in Lengths
    BY <2>1 DEF LogCall
  <2> QED
    BY <2>2 DEF LogConstants
<1>4. PICK place \in Nat : /\ place = StartOf(Running.length)
                           /\ place = 0 \/ place = gTraceWritePtr
                           /\ place + Running.length < kTraceBufferSize
  BY <1>1, <1>3 DEF StartOf, LogConstants
<1>5. /\ calls' \in Seq(LogCall) /\ calls' # <<>> /\ Len(calls') = Len(calls) /\ Running'.step = "copy"
      /\ Running'.task = Running.task /\ Running'.id = Running.id
      /\ Running'.length = Running.length /\ Running'.at = place
  BY <1>1, <1>2, <1>4, PlaceIs DEF Steps
<1>6. CallsInStep'
  <2> SUFFICES ASSUME ~mixed' PROVE Len(calls') = 1 /\ InStep(Running)'
    BY <1>5 DEF CallsInStep
  <2>1. Len(calls) = 1 /\ InStep(Running)
    BY <1>1, <1>2 DEF CallsInStep
  <2>2. Whole'
    BY <1>2, <2>1 DEF Whole, TraceVars, Cells, InStep
  <2>3. text'[tlsLogBuffer'[Running'.task]] = Running'.id
    BY <1>2, <1>5, <2>1 DEF InStep, LogBufferVars
  <2>4. gTraceWritePtr' = gTraceWritePtr
    BY <1>2 DEF TraceVars
  <2> QED
    BY <1>4, <1>5, <2>1, <2>2, <2>3, <2>4 DEF InStep
<1>7. text' \in [Buffers -> Nat]
  BY <1>1, <1>2
<1> QED
  BY <1>1, <1>2, <1>5, <1>6, <1>7, OtherSame

\* The message is in the buffer, and what was before it still is.
LEMMA CopyTextStep ==
  ASSUME LogConstants, LogSafe, CopyText
  PROVE  LogSafe'
<1>1. /\ calls \in Seq(LogCall) /\ text \in [Buffers -> Nat] /\ mixed \in BOOLEAN
      /\ messages \in 0..MaxMessages /\ CallsInStep /\ gTraceWritePtr \in 0..kTraceBufferSize
      /\ tlsLogBuffer \in [Priorities -> Buffers] /\ gTraceBuffer \in [Cells -> Cell]
  BY DEF LogSafe, LogTypeOK
<1>2. /\ calls # <<>> /\ Running.step = "copy"
      /\ UNCHANGED <<LogBufferVars, text, gTraceWritePtr, since, mixed, messages>>
  BY DEF CopyText, At
<1>3. /\ Running.length \in Nat /\ Running.at \in Nat /\ Running.id \in Nat
      /\ Running.task \in Priorities
  <2>1. Running \in LogCall
    BY <1>1, <1>2, RunningIs
  <2>2. Running.length \in Lengths /\ Running.at \in Nat /\ Running.id \in Nat
        /\ Running.task \in Priorities
    BY <2>1 DEF LogCall
  <2> QED
    BY <2>2 DEF LogConstants
<1>4. PICK place \in {Running.at} \cup (IF Running.at = 0 THEN {} ELSE {gTraceWritePtr}) :
       /\ gTraceBuffer' = [c \in Cells |->
            IF c >= place /\ c < place + Running.length
            THEN [id |-> text[tlsLogBuffer[Running.task]], newline |-> FALSE]
            ELSE gTraceBuffer[c]]
       /\ Update([Running EXCEPT !.step = "finish", !.at = place])
  BY DEF CopyText
<1>5. place \in Nat
  BY <1>1, <1>3, <1>4
<1>6. /\ calls' \in Seq(LogCall) /\ calls' # <<>> /\ Len(calls') = Len(calls) /\ Running'.step = "finish"
      /\ Running'.task = Running.task /\ Running'.id = Running.id
      /\ Running'.length = Running.length /\ Running'.at = place
  BY <1>1, <1>2, <1>4, <1>5, PlaceIs DEF Steps
<1>7. CallsInStep'
  <2> SUFFICES ASSUME ~mixed' PROVE Len(calls') = 1 /\ InStep(Running)'
    BY <1>6 DEF CallsInStep
  <2>1. Len(calls) = 1 /\ InStep(Running)
    BY <1>1, <1>2 DEF CallsInStep
  <2>2. /\ text[tlsLogBuffer[Running.task]] = Running.id /\ Whole
        /\ Running.at + Running.length < kTraceBufferSize
        /\ Running.at = 0 \/ Running.at = gTraceWritePtr
    BY <1>2, <2>1 DEF InStep
  <2>3. place = Running.at
    BY <1>4, <2>2
  <2>4. text'[tlsLogBuffer'[Running'.task]] = Running'.id
    BY <1>2, <1>6, <2>2 DEF LogBufferVars
  <2>5. gTraceWritePtr' = gTraceWritePtr /\ since' = since
    BY <1>2
  <2>6. place + Running'.length < kTraceBufferSize /\ (place = 0 \/ place = gTraceWritePtr')
    BY <1>6, <2>2, <2>3, <2>5
  <2>7. PutAt(Running)'
    <3>1. gTraceWritePtr' = Len(since')
      BY <2>2, <2>5 DEF Whole
    <3>2. ASSUME NEW cell \in Cells, cell < place
          PROVE  gTraceBuffer'[cell] = since'[cell + 1]
      <4>1. cell \in Nat
        BY DEF Cells, LogConstants
      <4>2. gTraceBuffer'[cell] = gTraceBuffer[cell]
        BY <1>3, <1>4, <1>5, <3>2, <4>1
      <4>3. cell < gTraceWritePtr
        BY <1>1, <1>5, <2>2, <2>3, <3>2, <4>1 DEF LogConstants
      <4> QED
        BY <2>2, <2>5, <4>2, <4>3 DEF Whole
    <3>3. ASSUME NEW cell \in Cells, place <= cell, cell < place + Running.length
          PROVE  gTraceBuffer'[cell] = [id |-> Running.id, newline |-> FALSE]
      <4>1. cell \in Nat
        BY DEF Cells, LogConstants
      <4>2. cell >= place
        BY <1>5, <3>3, <4>1
      <4> QED
        BY <1>4, <2>2, <3>3, <4>2
    <3> QED
      BY <1>6, <3>1, <3>2, <3>3 DEF PutAt, Cells
  <2> QED
    BY <1>6, <2>1, <2>4, <2>6, <2>7 DEF InStep
<1>8. gTraceBuffer' \in [Cells -> Cell]
  <2>1. tlsLogBuffer[Running.task] \in Buffers
    BY <1>1, <1>3
  <2>2. [id |-> text[tlsLogBuffer[Running.task]], newline |-> FALSE] \in Cell
    BY <1>1, <2>1 DEF Cell
  <2> QED
    BY <1>1, <1>4, <2>2
<1>9. LogTypeOK'
  BY <1>2, <1>6, <1>8 DEF LogSafe, LogTypeOK, LogBufferVars
<1>10. BuffersTaken' /\ BuffersDistinct'
  BY <1>2 DEF LogSafe, BuffersTaken, BuffersDistinct, LogBufferVars
<1> QED
  BY <1>7, <1>9, <1>10 DEF LogSafe

\* The cells of a message.
LEMMA CellsOfIs ==
  ASSUME NEW id \in Nat, NEW length \in Nat
  PROVE  /\ CellsOf(id, length) \in Seq(Cell) /\ Len(CellsOf(id, length)) = length + 1
         /\ \A i \in 1..length + 1 :
              CellsOf(id, length)[i] = [id |-> id, newline |-> i = length + 1]
<1>1. PICK f : f = CellsOf(id, length)
  OBVIOUS
<1>2. PICK n \in Nat : n = length + 1
  OBVIOUS
<1>3. \A i \in 1..n : [id |-> id, newline |-> i = n] \in Cell
  BY DEF Cell
<1>4. f = [i \in 1..n |-> [id |-> id, newline |-> i = n]]
  BY <1>1, <1>2 DEF CellsOf
<1>5. f \in [1..n -> Cell]
  BY <1>3, <1>4
<1>6. f \in Seq(Cell) /\ Len(f) = n
  BY <1>5
<1>7. \A i \in 1..n : f[i] = [id |-> id, newline |-> i = n]
  BY <1>4
<1> QED
  BY <1>1, <1>2, <1>6, <1>7

\* A trace buffer with a message behind the cells of others, and nothing after it.
MessageIn(trace, earlier, place, length, id) ==
  \A c \in Cells :
    /\ c < place => trace[c] = earlier[c + 1]
    /\ place <= c /\ c < place + length => trace[c] = [id |-> id, newline |-> FALSE]
    /\ c = place + length => trace[c] = [id |-> id, newline |-> TRUE]
    /\ c > place + length => trace[c] = Empty

\* What the trace buffer holds is then whole again.
LEMMA PutIsWhole ==
  ASSUME LogConstants, NEW place \in Nat, NEW length \in Nat, NEW id \in Nat,
         NEW earlier \in Seq(Cell), Len(earlier) = place, place + length < kTraceBufferSize,
         MessageIn(gTraceBuffer', earlier, place, length, id),
         gTraceWritePtr' = place + length + 1,
         since' = earlier \o CellsOf(id, length)
  PROVE  Whole'
<1>1. PICK mine \in Seq(Cell) :
        /\ mine = CellsOf(id, length) /\ Len(mine) = length + 1
        /\ \A i \in 1..length + 1 : mine[i] = [id |-> id, newline |-> i = length + 1]
  BY CellsOfIs
<1>2. /\ Len(since') = place + length + 1
      /\ \A i \in 1..place + (length + 1) :
           since'[i] = IF i <= place THEN earlier[i] ELSE mine[i - place]
  BY <1>1, ConcatProperties
<1>3. ASSUME NEW c \in Cells
      PROVE  gTraceBuffer'[c] = IF c < place + length + 1 THEN since'[c + 1] ELSE Empty
  <2>1. c \in Nat
    BY DEF Cells, LogConstants
  <2>2. CASE c < place
    <3>1. since'[c + 1] = earlier[c + 1]
      BY <1>2, <2>1, <2>2
    <3>2. gTraceBuffer'[c] = earlier[c + 1]
      BY <2>2 DEF MessageIn
    <3>3. c < place + length + 1
      BY <2>1, <2>2
    <3> QED
      BY <3>1, <3>2, <3>3, Zenon
  <2>3. CASE place <= c /\ c < place + length
    <3>1. since'[c + 1] = mine[c + 1 - place]
      <4>1. PICK i \in 1..place + (length + 1) : i = c + 1 /\ ~(i <= place)
        BY <2>1, <2>3
      <4>2. since'[i] = mine[i - place]
        BY <1>2, <4>1, Zenon
      <4> QED
        BY <2>1, <4>1, <4>2
    <3>2. mine[c + 1 - place] = [id |-> id, newline |-> FALSE]
      <4>1. PICK i \in 1..length + 1 : i = c + 1 - place
        BY <2>1, <2>3
      <4>2. i # length + 1
        BY <2>1, <2>3, <4>1
      <4> QED
        BY <1>1, <4>1, <4>2
    <3>3. gTraceBuffer'[c] = [id |-> id, newline |-> FALSE]
      BY <2>3 DEF MessageIn
    <3>4. c < place + length + 1
      BY <2>1, <2>3
    <3> QED
      BY <3>1, <3>2, <3>3, <3>4, Zenon
  <2>4. CASE c = place + length
    <3>1. since'[c + 1] = mine[c + 1 - place]
      <4>1. PICK i \in 1..place + (length + 1) : i = c + 1 /\ ~(i <= place)
        BY <2>1, <2>4
      <4>2. since'[i] = mine[i - place]
        BY <1>2, <4>1, Zenon
      <4> QED
        BY <2>1, <4>1, <4>2
    <3>2. mine[c + 1 - place] = [id |-> id, newline |-> TRUE]
      <4>1. PICK i \in 1..length + 1 : i = c + 1 - place
        BY <2>1, <2>4
      <4>2. i = length + 1
        BY <2>1, <2>4, <4>1
      <4> QED
        BY <1>1, <4>1, <4>2
    <3>3. gTraceBuffer'[c] = [id |-> id, newline |-> TRUE]
      BY <2>4 DEF MessageIn
    <3>4. c < place + length + 1
      BY <2>1, <2>4
    <3> QED
      BY <3>1, <3>2, <3>3, <3>4, Zenon
  <2>5. CASE c > place + length
    <3>1. gTraceBuffer'[c] = Empty
      BY <2>5 DEF MessageIn
    <3>2. ~(c < place + length + 1)
      BY <2>1, <2>5
    <3> QED
      BY <3>1, <3>2, Zenon
  <2>6. \/ c < place \/ (place <= c /\ c < place + length)
        \/ c = place + length \/ c > place + length
    BY <2>1
  <2> QED
    BY <2>2, <2>3, <2>4, <2>5, <2>6, Zenon
<1> QED
  BY <1>2, <1>3 DEF Whole, Cells

\* The message gets its newline, and the pointer is behind it.
LEMMA FinishPutStep ==
  ASSUME LogConstants, LogSafe, FinishPut
  PROVE  LogSafe'
<1>1. /\ calls \in Seq(LogCall) /\ text \in [Buffers -> Nat] /\ mixed \in BOOLEAN
      /\ messages \in 0..MaxMessages /\ CallsInStep /\ gTraceWritePtr \in 0..kTraceBufferSize
      /\ tlsLogBuffer \in [Priorities -> Buffers] /\ gTraceBuffer \in [Cells -> Cell]
      /\ since \in Seq(Cell)
  BY DEF LogSafe, LogTypeOK
<1>2. /\ calls # <<>> /\ Running.step = "finish" /\ calls' = Front(calls)
      /\ UNCHANGED <<LogBufferVars, text, mixed, messages>>
  BY DEF FinishPut, At
<1>3. /\ Running.length \in Nat /\ Running.at \in Nat /\ Running.id \in Nat
      /\ Running.length < kTraceBufferSize
  <2>1. Running \in LogCall
    BY <1>1, <1>2, RunningIs
  <2>2. Running.length \in Lengths /\ Running.at \in Nat /\ Running.id \in Nat
    BY <2>1 DEF LogCall
  <2> QED
    BY <2>2 DEF LogConstants
<1>4. PICK end \in Nat : end = Running.at + Running.length
  BY <1>3
<1>5. PICK earlier \in Seq(Cell) : earlier = IF Running.at = 0 THEN <<>> ELSE since
  <2>1. <<>> \in Seq(Cell)
    BY EmptySeq
  <2> QED
    BY <1>1, <2>1, Zenon
<1>6. /\ gTraceBuffer' = [c \in Cells |->
          IF c = end THEN [id |-> Running.id, newline |-> TRUE]
          ELSE IF c > end THEN Empty ELSE gTraceBuffer[c]]
      /\ gTraceWritePtr' = IF end + 1 <= kTraceBufferSize THEN end + 1 ELSE kTraceBufferSize
      /\ since' = earlier \o CellsOf(Running.id, Running.length)
  BY <1>4, <1>5 DEF FinishPut
<1>7. calls' \in Seq(LogCall) /\ (Len(calls) = 1 => calls' = <<>>)
  BY <1>1, <1>2, FrontIs
<1>8. CallsInStep'
  <2> SUFFICES ASSUME ~mixed' PROVE calls' = <<>> /\ Whole'
    BY DEF CallsInStep
  <2>1. Len(calls) = 1 /\ InStep(Running)
    BY <1>1, <1>2 DEF CallsInStep
  <2>2. /\ end < kTraceBufferSize /\ PutAt(Running)
        /\ Running.at = 0 \/ Running.at = gTraceWritePtr
    BY <1>2, <1>4, <2>1 DEF InStep
  <2>3. Len(earlier) = Running.at
    BY <1>5, <2>2, EmptySeq DEF PutAt
  <2>4. gTraceWritePtr' = Running.at + Running.length + 1
    BY <1>3, <1>4, <1>6, <2>2 DEF LogConstants
  <2>5. ASSUME NEW c \in Cells
        PROVE  /\ c < Running.at => gTraceBuffer'[c] = earlier[c + 1]
               /\ Running.at <= c /\ c < Running.at + Running.length =>
                    gTraceBuffer'[c] = [id |-> Running.id, newline |-> FALSE]
               /\ c = Running.at + Running.length =>
                    gTraceBuffer'[c] = [id |-> Running.id, newline |-> TRUE]
               /\ c > Running.at + Running.length => gTraceBuffer'[c] = Empty
    <3>1. c \in Nat
      BY DEF Cells, LogConstants
    <3>2. ASSUME c < Running.at PROVE gTraceBuffer'[c] = earlier[c + 1]
      <4>1. gTraceBuffer'[c] = gTraceBuffer[c]
        BY <1>3, <1>4, <1>6, <3>1, <3>2
      <4>2. earlier = since
        BY <1>3, <1>5, <3>1, <3>2
      <4> QED
        BY <2>2, <3>2, <4>1, <4>2 DEF PutAt
    <3>3. ASSUME Running.at <= c, c < Running.at + Running.length
          PROVE  gTraceBuffer'[c] = [id |-> Running.id, newline |-> FALSE]
      <4>1. gTraceBuffer'[c] = gTraceBuffer[c]
        BY <1>3, <1>4, <1>6, <3>1, <3>3
      <4> QED
        BY <2>2, <3>3, <4>1 DEF PutAt
    <3>4. ASSUME c = Running.at + Running.length
          PROVE  gTraceBuffer'[c] = [id |-> Running.id, newline |-> TRUE]
      BY <1>4, <1>6, <3>4
    <3>5. ASSUME c > Running.at + Running.length PROVE gTraceBuffer'[c] = Empty
      BY <1>4, <1>6, <3>1, <3>5
    <3> QED
      BY <3>2, <3>3, <3>4, <3>5
  <2>6. Whole'
    <3>1. PICK place \in Nat, length \in Nat, id \in Nat :
            place = Running.at /\ length = Running.length /\ id = Running.id
      BY <1>3
    <3>2. /\ Len(earlier) = place /\ place + length < kTraceBufferSize
          /\ gTraceWritePtr' = place + length + 1 /\ since' = earlier \o CellsOf(id, length)
      BY <1>4, <1>6, <2>2, <2>3, <2>4, <3>1
    <3>3. MessageIn(gTraceBuffer', earlier, place, length, id)
      BY <2>5, <3>1, Zenon DEF MessageIn
    <3> QED
      BY <3>2, <3>3, PutIsWhole
  <2> QED
    BY <1>7, <2>1, <2>6
<1>9. gTraceBuffer' \in [Cells -> Cell] /\ since' \in Seq(Cell)
  <2>1. [id |-> Running.id, newline |-> TRUE] \in Cell /\ Empty \in Cell
    BY <1>3 DEF Cell, Empty
  <2>2. CellsOf(Running.id, Running.length) \in Seq(Cell)
    BY <1>3, CellsOfIs
  <2>3. since' \in Seq(Cell)
    BY <1>6, <2>2, ConcatProperties
  <2> QED
    BY <1>1, <1>6, <2>1, <2>3
<1>10. gTraceWritePtr' \in 0..kTraceBufferSize
  BY <1>6 DEF LogConstants
<1>11. LogTypeOK'
  BY <1>2, <1>7, <1>9, <1>10 DEF LogSafe, LogTypeOK, LogBufferVars
<1>12. BuffersTaken' /\ BuffersDistinct'
  BY <1>2 DEF LogSafe, BuffersTaken, BuffersDistinct, LogBufferVars
<1> QED
  BY <1>8, <1>11, <1>12 DEF LogSafe

LEMMA LogSafeNext ==
  ASSUME LogConstants, LogSafe, [LogNext]_logVars
  PROVE  LogSafe'
<1>1. ASSUME NEW by \in Priorities \cup {Irq}, NEW task \in Priorities, NEW length \in Lengths,
             BeginLog(by, task, length)
      PROVE  LogSafe'
  <2>1. by \in Callers
    BY DEF Callers
  <2> QED
    BY <1>1, <2>1, BeginLogStep
<1>2. CASE FindBuffer
  BY <1>2, FindBufferStep
<1>3. CASE AssignBuffer
  BY <1>3, AssignBufferStep
<1>4. CASE Format
  BY <1>4, FormatStep
<1>5. CASE FindPlace
  BY <1>5, FindPlaceStep
<1>6. CASE CopyText
  BY <1>6, CopyTextStep
<1>7. CASE FinishPut
  BY <1>7, FinishPutStep
<1>8. CASE UNCHANGED logVars
  <2>1. /\ UNCHANGED <<LogBufferVars, TraceVars>> /\ calls' = calls /\ text' = text
        /\ mixed' = mixed /\ messages' = messages
    BY <1>8 DEF logVars, LogBufferVars, TraceVars
  <2>2. CallsInStep'
    BY <2>1 DEF LogSafe, CallsInStep, Whole, InStep, PutAt, Running, LogBufferVars, TraceVars, Cells
  <2> QED
    BY <2>1, <2>2, OtherSame DEF LogSafe, LogTypeOK
<1> QED
  BY <1>1, <1>2, <1>3, <1>4, <1>5, <1>6, <1>7, <1>8 DEF LogNext

\* No two tasks format their messages in one buffer, and as long as no call pre-empts
\* another the trace buffer holds its messages whole and in order up to the write
\* pointer, wherever the buffer wraps around (TracePutString).
THEOREM MessagesAreIntact ==
  ASSUME LogConstants
  PROVE  LogSpec => []MessagesIntact
<1>1. LogInit => LogSafe
  BY LogSafeInit
<1>2. LogSafe /\ [LogNext]_logVars => LogSafe'
  BY LogSafeNext
<1>3. LogSafe => MessagesIntact
  BY DEF LogSafe, MessagesIntact, TraceWhole, CallsInStep
<1> QED
  BY <1>1, <1>2, <1>3, PTL DEF LogSpec

-----------------------------------------------------------------------------
(* The converter *)

\* A number in thousands, rounded towards zero.
LEMMA TruncatedThousands ==
  ASSUME NEW n \in Int
  PROVE  /\ Truncated(n, 1000) \in Int
         /\ n >= 0 => 1000 * Truncated(n, 1000) <= n /\ n < 1000 * Truncated(n, 1000) + 1000
         /\ n < 0 => n <= 1000 * Truncated(n, 1000) /\ 1000 * Truncated(n, 1000) < n + 1000
BY DEF Truncated

\* ChipCode before it is saturated.
Code(v, w) ==
  Truncated(v, 1000) * w + Truncated((v - 1000 * Truncated(v, 1000)) * w, 1000)

Powers == {1, 2, 4, 8, 16, 32, 64, 128, 256, 512}

\* Its two divisions are as good as one: a code is the input's, rounded towards zero.
LEMMA CodeIsClose ==
  ASSUME NEW v \in Int, NEW w \in Powers
  PROVE  /\ Code(v, w) \in Int
         /\ v >= 0 => 1000 * Code(v, w) <= v * w /\ v * w < 1000 * Code(v, w) + 1000
         /\ v < 0 => v * w <= 1000 * Code(v, w) /\ 1000 * Code(v, w) < v * w + 1000
<1> DEFINE t == Truncated(v, 1000)
           r == v - 1000 * t
           n == Truncated(r * w, 1000)
<1>1. t \in Int /\ r \in Int
  BY TruncatedThousands
<1>2. (v >= 0 => r >= 0 /\ r < 1000) /\ (v < 0 => r <= 0 /\ -1000 < r)
  BY TruncatedThousands
<1>3. w \in Int /\ w > 0 /\ r * w \in Int
  BY <1>1 DEF Powers
<1> HIDE DEF t, r
<1>4. n \in Int
  BY <1>3, TruncatedThousands
<1>5. (v >= 0 => r * w >= 0) /\ (v < 0 => r * w <= 0)
  BY <1>1, <1>2 DEF Powers
<1>6. /\ v >= 0 => 1000 * n <= r * w /\ r * w < 1000 * n + 1000
      /\ v < 0 => r * w <= 1000 * n /\ 1000 * n < r * w + 1000
  <2>1. /\ r * w >= 0 => 1000 * n <= r * w /\ r * w < 1000 * n + 1000
        /\ r * w < 0 => r * w <= 1000 * n /\ 1000 * n < r * w + 1000
    BY <1>3, TruncatedThousands
  <2>2. r * w = 0 => n = 0
    BY <1>3 DEF Truncated
  <2> HIDE DEF n
  <2> QED
    BY <1>3, <1>4, <1>5, <2>1, <2>2
<1> HIDE DEF n
<1>7. v = 1000 * t + r
  BY <1>1 DEF r
<1>8. v * w = 1000 * (t * w) + r * w /\ t * w \in Int
  BY <1>1, <1>7 DEF Powers
<1>9. Code(v, w) = t * w + n
  BY DEF Code, t, r, n
<1> QED
  BY <1>3, <1>4, <1>6, <1>8, <1>9

\* The factors of the settings, and their product.
LEMMA Factors ==
  ASSUME NEW d \in SampleDepth, NEW g \in Gain
  PROVE  /\ LsbPerMillivolt(d) \in {1, 4, 16, 64} /\ GainToFactor(g) \in {1, 2, 4, 8}
         /\ Weight(d, g) \in Powers
BY DEF SampleDepth, Gain, LsbPerMillivolt, GainToFactor, Weight, Powers

\* Measurable, by its factor.
InRange(v, f) == -2048000 <= v * f /\ v * f < 2047000

\* A voltage in the range of the gain is not saturated.
LEMMA CodeInRange ==
  ASSUME NEW v \in Int, NEW s \in {1, 4, 16, 64}, NEW f \in {1, 2, 4, 8}, InRange(v, f),
         s * f \in Powers
  PROVE  -(2048 * s) <= Code(v, s * f) /\ Code(v, s * f) < 2048 * s
<1> DEFINE n == Code(v, s * f)
           x == v * f
<1>1. x \in Int /\ -2048000 <= x /\ x < 2047000
  BY DEF InRange
<1>2. v * (s * f) = s * x
  <2>1. CASE f = 1  BY <2>1
  <2>2. CASE f = 2  BY <2>2
  <2>3. CASE f = 4  BY <2>3
  <2>4. CASE f = 8  BY <2>4
  <2> QED
    BY <2>1, <2>2, <2>3, <2>4
<1>3. (v >= 0 => x >= 0) /\ (v < 0 => x < 0)
  OBVIOUS
<1> HIDE DEF x
<1>4. /\ n \in Int
      /\ v >= 0 => 1000 * n <= s * x /\ s * x < 1000 * n + 1000
      /\ v < 0 => s * x <= 1000 * n /\ 1000 * n < s * x + 1000
  BY <1>2, CodeIsClose
<1> HIDE DEF n
<1>5. -(2048 * s) <= n /\ n < 2048 * s
  <2>1. CASE s = 1  BY <1>1, <1>3, <1>4, <2>1
  <2>2. CASE s = 4  BY <1>1, <1>3, <1>4, <2>2
  <2>3. CASE s = 16  BY <1>1, <1>3, <1>4, <2>3
  <2>4. CASE s = 64  BY <1>1, <1>3, <1>4, <2>4
  <2> QED
    BY <2>1, <2>2, <2>3, <2>4
<1> QED
  BY <1>5 DEF n

\* A number that fits into two bytes, or into 18 bits, is what its sign-extended bytes say.
LEMMA TwoBytesBack ==
  ASSUME NEW c \in Int, -32768 <= c, c < 32768
  PROVE  256 * ((c \div 256) % 256) + (c % 256)
           - (IF ((c \div 256) % 256) \div 128 = 1 THEN 65536 ELSE 0) = c
OBVIOUS

LEMMA ThreeBytesBack ==
  ASSUME NEW c \in Int, -131072 <= c, c < 131072
  PROVE  65536 * ((c \div 65536) % 256) + 256 * ((c \div 256) % 256) + (c % 256)
           - (IF (((c \div 65536) % 256) \div 2) % 2 = 1 THEN 16777216 ELSE 0) = c
OBVIOUS

\* The driver reads the code of the chip from the bytes it asks for.
LEMMA CodeIsRead ==
  ASSUME depth \in SampleDepth, NEW c \in Int,
         -(2048 * LsbPerMillivolt(depth)) <= c, c < 2048 * LsbPerMillivolt(depth)
  PROVE  SignExtended(ChipBytes(c, IF depth = 3 THEN 3 ELSE 2)) = c
<1>1. CASE depth = 3
  <2> DEFINE b == ChipBytes(c, 3)
  <2>1. -131072 <= c /\ c < 131072
    BY <1>1 DEF LsbPerMillivolt
  <2>2. b[0] = (c \div 65536) % 256 /\ b[1] = (c \div 256) % 256 /\ b[2] = (c \div 1) % 256
    BY DEF ChipBytes
  <2>3. c \div 1 = c
    OBVIOUS
  <2>4. SignExtended(b) = 65536 * b[0] + 256 * b[1] + b[2]
                            - (IF (b[0] \div 2) % 2 = 1 THEN 16777216 ELSE 0)
    BY <1>1 DEF SignExtended
  <2> HIDE DEF b
  <2>5. SignExtended(b) = 65536 * ((c \div 65536) % 256) + 256 * ((c \div 256) % 256) + (c % 256)
           - (IF (((c \div 65536) % 256) \div 2) % 2 = 1 THEN 16777216 ELSE 0)
    BY <2>2, <2>3, <2>4
  <2>6. SignExtended(b) = c
    BY <2>1, <2>5, ThreeBytesBack
  <2> QED
    BY <1>1, <2>6 DEF b
<1>2. CASE depth # 3
  <2> DEFINE b == ChipBytes(c, 2)
  <2>1. -32768 <= c /\ c < 32768
    BY <1>2 DEF LsbPerMillivolt, SampleDepth
  <2>2. b[0] = (c \div 256) % 256 /\ b[1] = (c \div 1) % 256
    BY DEF ChipBytes
  <2>3. c \div 1 = c
    OBVIOUS
  <2>4. SignExtended(b) = 256 * b[0] + b[1] - (IF b[0] \div 128 = 1 THEN 65536 ELSE 0)
    BY <1>2 DEF SignExtended
  <2> HIDE DEF b
  <2>5. SignExtended(b) = 256 * ((c \div 256) % 256) + (c % 256)
           - (IF ((c \div 256) % 256) \div 128 = 1 THEN 65536 ELSE 0)
    BY <2>2, <2>3, <2>4
  <2>6. SignExtended(b) = c
    BY <2>1, <2>5, TwoBytesBack
  <2> QED
    BY <1>2, <2>6 DEF b
<1> QED
  BY <1>1, <1>2

\* What a code is worth, from its weight.
Worth(c, w) == IF w < 8 THEN c * (1000 \div w) ELSE Truncated(c * 125, w \div 8)

\* Within a step of a converter with this weight.
Near(a, b, w) == b - (1000 \div w + 1) <= a /\ a <= b + (1000 \div w + 1)

\* What a code is worth is within a step of any voltage that has the code.
LEMMA WorthIsNear ==
  ASSUME NEW v \in Int, NEW c \in Int, NEW w \in Powers,
         v * w - 1000 * c < 1000, 1000 * c - v * w < 1000
  PROVE  Worth(c, w) \in Int /\ Near(Worth(c, w), v, w)
<1>1. CASE w = 1  BY <1>1 DEF Worth, Near
<1>2. CASE w = 2  BY <1>2 DEF Worth, Near
<1>3. CASE w = 4  BY <1>3 DEF Worth, Near
<1>4. CASE w = 8  BY <1>4 DEF Worth, Near, Truncated
<1>5. CASE w = 16  BY <1>5 DEF Worth, Near, Truncated
<1>6. CASE w = 32  BY <1>6 DEF Worth, Near, Truncated
<1>7. CASE w = 64  BY <1>7 DEF Worth, Near, Truncated
<1>8. CASE w = 128  BY <1>8 DEF Worth, Near, Truncated
<1>9. CASE w = 256  BY <1>9 DEF Worth, Near, Truncated
<1>10. CASE w = 512  BY <1>10 DEF Worth, Near, Truncated
<1> QED
  BY <1>1, <1>2, <1>3, <1>4, <1>5, <1>6, <1>7, <1>8, <1>9, <1>10 DEF Powers

\* The chip converts as the driver supposes, unless the bus has failed.
SettingsKnown == settingsErr = "ok" => adc.gain = gain /\ adc.depth = depth

\* The inductive invariant.
AdcSafe ==
  /\ AdcTypeOK
  /\ settingsErr = "absent" => reading = NoReading
  /\ SettingsKnown
  /\ VoltageAtInput

\* A step is some number of microvolts.
LEMMA StepIsNatural ==
  ASSUME NEW w \in Powers
  PROVE  1000 \div w + 1 \in Nat
BY DEF Powers

\* A step that writes the settings, and leaves no reading.
LEMMA WritingSettings ==
  ASSUME AdcSafe, gain' \in Gain, depth' \in SampleDepth, isOneShot' \in BOOLEAN,
         settings' \in 0..MaxSettings, reading' = NoReading,
         NEW failed \in {"bus", "panic"}, UpdateConfig(failed)
  PROVE  AdcSafe'
<1>1. adc' \in [gain : Gain, depth : SampleDepth, oneShot : BOOLEAN] /\ settingsErr' \in {"ok", failed}
  BY DEF AdcSafe, AdcTypeOK, UpdateConfig
<1>2. reading' \in [voltage : Int, input : Int]
  BY DEF NoReading
<1>3. SettingsKnown'
  BY DEF UpdateConfig, SettingsKnown
<1>4. VoltageAtInput'
  <2>1. reading'.voltage = 0 /\ reading'.input = 0
    BY DEF NoReading
  <2> DEFINE step == 1000 \div Weight(depth', gain') + 1
  <2>2. step \in Nat
    BY Factors, StepIsNatural
  <2>3. (reading'.input - step <= reading'.voltage /\ reading'.voltage <= reading'.input + step)
          => VoltageAtInput'
    BY DEF VoltageAtInput
  <2> HIDE DEF step
  <2>4. 0 - step <= 0 /\ 0 <= 0 + step
    BY <2>2
  <2> QED
    BY <2>1, <2>3, <2>4
<1> QED
  BY <1>1, <1>2, <1>3, <1>4 DEF AdcSafe, AdcTypeOK, NoReading

\* What is read, whatever the settings of the chip, is a voltage.
LEMMA CodesAreIntegers ==
  ASSUME AdcTypeOK, NEW v \in Int
  PROVE  ChipCode(v) \in Int
<1> DEFINE w == Weight(adc.depth, adc.gain)
           s == LsbPerMillivolt(adc.depth)
<1>1. w \in Powers /\ s \in {1, 4, 16, 64}
  BY Factors DEF AdcTypeOK
<1>2. Code(v, w) \in Int
  BY <1>1, CodeIsClose
<1>3. ChipCode(v) = Saturated(Code(v, w), 2048 * s)
  BY DEF ChipCode, Code
<1> QED
  BY <1>1, <1>2, <1>3 DEF Saturated

LEMMA ReadingsAreIntegers ==
  ASSUME AdcTypeOK, NEW c \in Int
  PROVE  CodeToVoltage(SignExtended(ChipBytes(c, IF depth = 3 THEN 3 ELSE 2))) \in Int
<1> DEFINE b == ChipBytes(c, IF depth = 3 THEN 3 ELSE 2)
           w == Weight(depth, gain)
<1>1. w \in Powers
  BY Factors DEF AdcTypeOK
<1>2. b[0] \in Int /\ b[1] \in Int /\ (depth = 3 => b[2] \in Int)
  BY DEF ChipBytes
<1> HIDE DEF b
<1>3. SignExtended(b) \in Int
  BY <1>2 DEF SignExtended
<1>4. \A code \in Int : CodeToVoltage(code) = Worth(code, w)
  BY DEF CodeToVoltage, Worth
<1>5. \A code \in Int : Worth(code, w) \in Int
  BY <1>1 DEF Worth, Truncated, Powers
<1>6. CodeToVoltage(SignExtended(b)) \in Int
  BY <1>3, <1>4, <1>5
<1> QED
  BY <1>6 DEF b

\* readVoltage keeps it.
LEMMA Reading ==
  ASSUME AdcSafe, NEW v \in Int, ReadVoltage(v)
  PROVE  AdcSafe'
<1> DEFINE code == ChipCode(v)
           voltage == CodeToVoltage(SignExtended(ChipBytes(code, IF depth = 3 THEN 3 ELSE 2)))
<1>1. /\ reading' = [voltage |-> voltage, input |-> v]
      /\ UNCHANGED <<gain, depth, isOneShot, adc, settingsErr, settings>>
      /\ settingsErr \in {"ok", "bus"}
  BY DEF ReadVoltage
<1>2. voltage \in Int
  BY CodesAreIntegers, ReadingsAreIntegers DEF AdcSafe
<1>3. ASSUME settingsErr = "ok", Measurable(v)
      PROVE  Near(voltage, v, Weight(depth, gain))
  <2> DEFINE s == LsbPerMillivolt(depth)
             f == GainToFactor(gain)
             c == Code(v, s * f)
  <2>1. adc.depth = depth /\ adc.gain = gain /\ depth \in SampleDepth /\ gain \in Gain
    BY <1>3 DEF AdcSafe, SettingsKnown, AdcTypeOK
  <2>2. s \in {1, 4, 16, 64} /\ f \in {1, 2, 4, 8} /\ s * f = Weight(depth, gain) /\ s * f \in Powers
    BY <2>1, Factors DEF Weight
  <2>3. InRange(v, f)
    BY <1>3 DEF Measurable, InRange
  <2>4. code = Saturated(c, 2048 * s)
    BY <2>1 DEF ChipCode, Code, Weight
  <2> HIDE DEF s, f
  <2>5. /\ c \in Int /\ -(2048 * s) <= c /\ c < 2048 * s
        /\ v * (s * f) - 1000 * c < 1000 /\ 1000 * c - v * (s * f) < 1000
    <3>1. c \in Int /\ -(2048 * s) <= c /\ c < 2048 * s
      BY <2>2, <2>3, CodeInRange, CodeIsClose
    <3>2. /\ v >= 0 => 1000 * c <= v * (s * f) /\ v * (s * f) < 1000 * c + 1000
          /\ v < 0 => v * (s * f) <= 1000 * c /\ 1000 * c < v * (s * f) + 1000
      BY <2>2, CodeIsClose
    <3>3. v * (s * f) \in Int
      BY <2>2
    <3> HIDE DEF c
    <3> QED
      BY <3>1, <3>2, <3>3
  <2> HIDE DEF c
  <2>6. code = c
    BY <2>2, <2>4, <2>5 DEF Saturated
  <2>7. SignExtended(ChipBytes(c, IF depth = 3 THEN 3 ELSE 2)) = c
    BY <2>1, <2>5, CodeIsRead DEF s
  <2>8. voltage = Worth(c, s * f)
    BY <2>2, <2>6, <2>7 DEF CodeToVoltage, Worth
  <2>9. Near(Worth(c, s * f), v, s * f)
    BY <2>2, <2>5, WorthIsNear
  <2> QED
    BY <2>2, <2>8, <2>9
<1> HIDE DEF voltage
<1>4. VoltageAtInput'
  BY <1>1, <1>2, <1>3 DEF VoltageAtInput, Near, Measurable
<1> QED
  BY <1>1, <1>2, <1>4 DEF AdcSafe, AdcTypeOK, SettingsKnown

\* The voltage that readVoltage returns after a setting has been written is the one at the
\* chip's input within one step of the converter, whichever depth and gain are set, however
\* often they were changed and whatever failed before, for every set of input voltages.
THEOREM VoltagesAreAccurate ==
  ASSUME AdcConstants
  PROVE  AdcSpec => [](AdcTypeOK /\ VoltageAtInput)
<1>1. AdcInit => AdcSafe
  <2> SUFFICES ASSUME AdcInit
               PROVE  AdcSafe
    OBVIOUS
  <2>1. AdcTypeOK /\ reading = NoReading /\ SettingsKnown
    <3>1. gain \in Gain /\ depth \in SampleDepth /\ settings \in 0..MaxSettings
      BY DEF AdcConstants, AdcInit, Gain, SampleDepth
    <3>2. adc \in [gain : Gain, depth : SampleDepth, oneShot : BOOLEAN] /\ SettingsKnown
      BY DEF AdcInit, Gain, SampleDepth, SettingsKnown
    <3>3. reading \in [voltage : Int, input : Int]
      BY DEF AdcInit, NoReading
    <3> QED
      BY <3>1, <3>2, <3>3 DEF AdcInit, AdcTypeOK
  <2>2. VoltageAtInput
    BY DEF AdcInit, VoltageAtInput
  <2> QED
    BY <2>1, <2>2 DEF AdcSafe
<1>2. AdcSafe /\ [AdcNext]_adcVars => AdcSafe'
  <2> SUFFICES ASSUME AdcSafe, [AdcNext]_adcVars
               PROVE  AdcSafe'
    OBVIOUS
  <2> USE DEF AdcConstants
  <2>1. ASSUME NEW d \in SampleDepth, NEW g \in Gain, ConstructAdc(d, g)
        PROVE  AdcSafe'
    <3>1. /\ gain' \in Gain /\ depth' \in SampleDepth /\ isOneShot' \in BOOLEAN
          /\ settings' \in 0..MaxSettings /\ reading' = NoReading /\ UpdateConfig("panic")
      BY <2>1 DEF AdcSafe, AdcTypeOK, ConstructAdc
    <3> QED
      BY <3>1, WritingSettings
  <2>2. CASE Destroy
    <3>1. gain \in Gain /\ depth \in SampleDepth
          /\ adc \in [gain : Gain, depth : SampleDepth, oneShot : BOOLEAN]
      BY DEF AdcSafe, AdcTypeOK
    <3>2. adc' \in [gain : Gain, depth : SampleDepth, oneShot : BOOLEAN]
      <4>1. CASE adc' = [gain |-> gain, depth |-> depth, oneShot |-> TRUE]
        BY <3>1, <4>1
      <4> QED
        BY <2>2, <3>1, <4>1 DEF Destroy
    <3>3. /\ settingsErr' \in {"destroyed", "panic"} /\ isOneShot' \in BOOLEAN
          /\ UNCHANGED <<gain, depth, reading, settings>>
      BY <2>2 DEF Destroy
    <3>4. VoltageAtInput' /\ SettingsKnown'
      BY <3>3 DEF VoltageAtInput, SettingsKnown
    <3> QED
      BY <3>2, <3>3, <3>4 DEF AdcSafe, AdcTypeOK
  <2>3. ASSUME NEW g \in Gain, SetGain(g)
        PROVE  AdcSafe'
    <3>1. /\ gain' \in Gain /\ depth' \in SampleDepth /\ isOneShot' \in BOOLEAN
          /\ settings' \in 0..MaxSettings /\ reading' = NoReading /\ UpdateConfig("bus")
      BY <2>3 DEF AdcSafe, AdcTypeOK, SetGain, ChangeSetting
    <3> QED
      BY <3>1, WritingSettings
  <2>4. ASSUME NEW d \in SampleDepth, SetSampleDepth(d)
        PROVE  AdcSafe'
    <3>1. /\ gain' \in Gain /\ depth' \in SampleDepth /\ isOneShot' \in BOOLEAN
          /\ settings' \in 0..MaxSettings /\ reading' = NoReading /\ UpdateConfig("bus")
      BY <2>4 DEF AdcSafe, AdcTypeOK, SetSampleDepth, ChangeSetting
    <3> QED
      BY <3>1, WritingSettings
  <2>5. ASSUME NEW v \in Inputs, ReadVoltage(v)
        PROVE  AdcSafe'
    BY <2>5, Reading
  <2>6. CASE UNCHANGED adcVars
    BY <2>6 DEF adcVars, AdcSafe, AdcTypeOK, SettingsKnown, VoltageAtInput, Measurable
  <2> QED
    BY <2>1, <2>2, <2>3, <2>4, <2>5, <2>6 DEF AdcNext
<1>3. AdcSafe => AdcTypeOK /\ VoltageAtInput
  BY DEF AdcSafe
<1> QED
  BY <1>1, <1>2, <1>3, PTL DEF AdcSpec

=============================================================================
