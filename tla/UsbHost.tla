-------------------------------- MODULE UsbHost --------------------------------
(***************************************************************************)
(* The host's library (LibLoad): it lists the loads on USB, opens the one  *)
(* with a given serial number, and several threads read properties of it,  *)
(* a request and an answer at a time.  Every call of libusb may fail, which *)
(* is an exception of the library.  libusb and the load are external: the  *)
(* load answers requests in order.                                         *)
(***************************************************************************)
EXTENDS Naturals, Sequences, FiniteSets, SequencesExt

CONSTANTS
  Devices,       \* USB devices in order: [ours |-> vendor and product match, serial]
  Serials,       \* serial numbers to connect to
  Threads, Keys,
  MaxUsbCalls    \* bound on the calls of each kind

VARIABLES
  usbPc,         \* where the thread that lists or connects is
  connecting,    \* connectBySerial (or getDevices)
  serial, at,    \* the serial number looked for, and the device looked at
  held,          \* what libusb has given out: lists, descriptors, open handles
  transport,     \* the device of the open transport, 0 if there is none
  usbErr,        \* did the last call throw?
  leaked,        \* has a call thrown where the code does not clean up?
  thread,        \* the threads that read properties
  deviceLock, buffer,
  answers,       \* keys whose values the load is sending
  ioFailed,      \* has a transfer failed, or brought no payload, on this transport?
  usbCalls

enumVars == <<usbPc, connecting, serial, at, held, transport, usbErr, leaked>>
propertyVars == <<thread, deviceLock, buffer, answers, ioFailed>>
usbVars == <<enumVars, propertyVars, usbCalls>>

-----------------------------------------------------------------------------
(* Types *)

NoThread == "none"

\* There is a serial number and a key to ask for, and the name for "no thread" is none.
UsbConstants ==
  /\ Len(Devices) \in Nat
  /\ Serials # {} /\ Keys # {}
  /\ NoThread \notin Threads
  /\ MaxUsbCalls \in Nat

UsbTypeOK ==
  /\ usbPc \in {"idle", "list", "descriptor", "open", "serial", "callback", "claim", "config"}
  /\ connecting \in BOOLEAN /\ serial \in Serials /\ at \in 0..Len(Devices) + 1
  /\ held \in [lists : Nat, configs : Nat, handles : SUBSET (1..Len(Devices))]
  /\ transport \in 0..Len(Devices)
  /\ usbErr \in BOOLEAN /\ leaked \in BOOLEAN
  /\ thread \in [Threads -> [pc : {"idle", "lock", "write", "read"}, key : Keys,
                             result : {"none", "value", "missing", "thrown"}]]
  /\ deviceLock \in Threads \cup {NoThread}
  /\ buffer \in {"empty", "request", "response"}
  /\ answers \in Seq(Keys) /\ ioFailed \in BOOLEAN
  /\ usbCalls \in [enum : 0..MaxUsbCalls, property : 0..MaxUsbCalls]

-----------------------------------------------------------------------------
(* getDevices and connectBySerial *)

\* An exception; what is cleaned up is given by held'.
Throw == usbPc' = "idle" /\ usbErr' = TRUE
ThrowClean == Throw /\ held' = [held EXCEPT !.lists = 0] /\ UNCHANGED leaked
ThrowLeaky == Throw /\ leaked' = TRUE /\ UNCHANGED held

EnumStep(pc) == usbPc = pc /\ UNCHANGED <<connecting, serial, propertyVars, usbCalls>>
Continue(pc) == usbPc' = pc /\ UNCHANGED <<usbErr, leaked>>

\* Calls after one that left something open are not modelled.
BeginEnum(isConnect, s) ==
  /\ usbPc = "idle" /\ transport = 0 /\ ~leaked
  /\ usbCalls.enum < MaxUsbCalls
  /\ usbCalls' = [usbCalls EXCEPT !.enum = @ + 1]
  /\ usbPc' = "list" /\ connecting' = isConnect /\ serial' = s /\ at' = 0 /\ usbErr' = FALSE
  /\ UNCHANGED <<held, transport, leaked, propertyVars>>

GetDeviceList ==
  /\ EnumStep("list")
  /\ \/ Continue("descriptor") /\ held' = [held EXCEPT !.lists = 1] /\ at' = 1
     \/ ThrowClean /\ UNCHANGED at
  /\ UNCHANGED transport

\* The next device's descriptor; the list is freed at its end, and if this fails.
GetDescriptor ==
  /\ EnumStep("descriptor")
  /\ IF at > Len(Devices)
     THEN Continue("idle") /\ held' = [held EXCEPT !.lists = 0] /\ UNCHANGED at
     ELSE \/ ThrowClean /\ UNCHANGED at
          \/ /\ IF Devices[at].ours THEN Continue("open") /\ UNCHANGED at
                ELSE Continue("descriptor") /\ at' = at + 1
             /\ UNCHANGED held
  /\ UNCHANGED transport

\* connectBySerial frees the list if the device cannot be opened, probeDevice does not.
Open ==
  /\ EnumStep("open")
  /\ \/ Continue("serial") /\ held' = [held EXCEPT !.handles = @ \cup {at}]
     \/ IF connecting THEN ThrowClean ELSE ThrowLeaky
  /\ UNCHANGED <<at, transport>>

Close == held' = [held EXCEPT !.handles = @ \ {at}]

\* A faulty variant of ReadSerial: a device with another serial number stays open.
ReadSerialUnclosed ==
  /\ EnumStep("serial")
  /\ IF ~connecting THEN Continue("callback") /\ UNCHANGED at
     ELSE IF Devices[at].serial = serial THEN Continue("claim") /\ UNCHANGED at
     ELSE Continue("descriptor") /\ at' = at + 1
  /\ UNCHANGED <<transport, held>>

ReadSerial ==
  /\ EnumStep("serial")
  /\ \/ ThrowLeaky /\ UNCHANGED at
     \/ ~connecting /\ Continue("callback") /\ UNCHANGED <<at, held>>
     \/ connecting /\ Devices[at].serial = serial /\ Continue("claim") /\ UNCHANGED <<at, held>>
     \/ /\ connecting /\ Devices[at].serial # serial
        /\ Continue("descriptor") /\ Close /\ at' = at + 1
  /\ UNCHANGED transport

\* The callback of getDevices may end the list; the one that EnumerateDevices passes ignores
\* what its own callback returns, and does not.
Callback ==
  /\ EnumStep("callback")
  /\ \/ Continue("descriptor") /\ Close /\ at' = at + 1
     \/ /\ Continue("idle") /\ UNCHANGED at
        /\ held' = [held EXCEPT !.lists = 0, !.handles = @ \ {at}]
     \/ ThrowLeaky /\ UNCHANGED at
  /\ UNCHANGED transport

\* The constructor of Transport claims the interface ...
Claim ==
  /\ EnumStep("claim")
  /\ \/ Continue("config") /\ held' = [held EXCEPT !.configs = @ + 1]
     \/ ThrowLeaky
  /\ UNCHANGED <<at, transport>>

\* ... and looks for its endpoints in the configuration, which may have too few.
FindEndpoints ==
  /\ usbPc = "config"
  /\ \/ /\ Continue("idle") /\ transport' = at /\ buffer' = "empty"
        /\ held' = [lists |-> 0, configs |-> held.configs - 1, handles |-> held.handles]
     \/ ThrowLeaky /\ UNCHANGED <<transport, buffer>>
  /\ UNCHANGED <<connecting, serial, at, thread, deviceLock, answers, ioFailed, usbCalls>>

\* The destructor of Transport throws before it closes the device if it cannot release it.
Disconnect ==
  /\ EnumStep("idle")
  /\ transport # 0 /\ \A t \in Threads : thread[t].pc = "idle"
  /\ transport' = 0
  /\ \/ held' = [held EXCEPT !.handles = @ \ {transport}] /\ UNCHANGED <<usbPc, usbErr, leaked>>
     \/ ThrowLeaky
  /\ UNCHANGED at

-----------------------------------------------------------------------------
(* propertyGet *)

ThreadGoto(t, pc) == thread' = [thread EXCEPT ![t].pc = pc]
\* The lock guard gives the lock back, with an exception too.
PropertyReturn(t, result) ==
  /\ thread' = [thread EXCEPT ![t] = [pc |-> "idle", key |-> @.key, result |-> result]]
  /\ deviceLock' = NoThread

PropertyGet(t, k) ==
  /\ usbPc = "idle" /\ transport # 0
  /\ thread[t].pc = "idle"
  /\ usbCalls.property < MaxUsbCalls
  /\ usbCalls' = [usbCalls EXCEPT !.property = @ + 1]
  /\ thread' = [thread EXCEPT ![t] = [pc |-> "lock", key |-> k, result |-> "none"]]
  /\ UNCHANGED <<enumVars, deviceLock, buffer, answers, ioFailed>>

\* A faulty variant of LockDevice: the lock is ignored.
LockNothing(t) ==
  /\ thread[t].pc = "lock"
  /\ ThreadGoto(t, "write")
  /\ UNCHANGED <<enumVars, deviceLock, buffer, answers, ioFailed, usbCalls>>

LockDevice(t) ==
  /\ thread[t].pc = "lock" /\ deviceLock = NoThread
  /\ deviceLock' = t
  /\ ThreadGoto(t, "write")
  /\ UNCHANGED <<enumVars, buffer, answers, ioFailed, usbCalls>>

\* The transport's buffer is sized for the request.
WriteRequest(t) ==
  /\ thread[t].pc = "write"
  /\ buffer' = "request"
  /\ \/ answers' = Append(answers, thread[t].key) /\ ThreadGoto(t, "read")
        /\ UNCHANGED <<deviceLock, ioFailed>>
     \/ PropertyReturn(t, "thrown") /\ ioFailed' = TRUE /\ UNCHANGED answers
  /\ UNCHANGED <<enumVars, usbCalls>>

\* The buffer that is checked is the transport's: after a write it is small, but after
\* a read larger than a packet may be.  Then it is sized for the answer.  The answer's
\* tag is ignored; the value is looked up by its key, also if the load sent no payload.
ReadAnswer(t) ==
  /\ thread[t].pc = "read"
  /\ \/ buffer # "request" /\ PropertyReturn(t, "thrown") /\ UNCHANGED <<buffer, answers, ioFailed>>
     \/ /\ buffer = "request"
        /\ buffer' = "response"
        /\ \/ /\ answers # <<>>
              /\ PropertyReturn(t, IF Head(answers) = thread[t].key THEN "value" ELSE "missing")
              /\ answers' = Tail(answers) /\ UNCHANGED ioFailed
           \/ /\ answers # <<>>
              /\ PropertyReturn(t, "missing") /\ answers' = Tail(answers) /\ ioFailed' = TRUE
           \/ PropertyReturn(t, "thrown") /\ ioFailed' = TRUE /\ UNCHANGED answers
  /\ UNCHANGED <<enumVars, usbCalls>>

-----------------------------------------------------------------------------
(* Specification *)

UsbInit ==
  /\ usbPc = "idle" /\ connecting = FALSE /\ serial = (CHOOSE s \in Serials : TRUE) /\ at = 0
  /\ held = [lists |-> 0, configs |-> 0, handles |-> {}]
  /\ transport = 0 /\ usbErr = FALSE /\ leaked = FALSE
  /\ thread = [t \in Threads |-> [pc |-> "idle", key |-> CHOOSE k \in Keys : TRUE,
                                  result |-> "none"]]
  /\ deviceLock = NoThread /\ buffer = "empty" /\ answers = <<>> /\ ioFailed = FALSE
  /\ usbCalls = [enum |-> 0, property |-> 0]

UsbNext ==
  \/ \E s \in Serials : \E isConnect \in BOOLEAN : BeginEnum(isConnect, s)
  \/ GetDeviceList \/ GetDescriptor \/ Open \/ ReadSerial \/ Callback \/ Claim \/ FindEndpoints
  \/ Disconnect
  \/ \E t \in Threads :
       \/ \E k \in Keys : PropertyGet(t, k)
       \/ LockDevice(t) \/ WriteRequest(t) \/ ReadAnswer(t)

UsbSpec == UsbInit /\ [][UsbNext]_usbVars

-----------------------------------------------------------------------------
(* Properties *)

\* Whatever call of libusb fails: between calls the library holds the handle of its
\* transport and nothing else, or the call that failed is one after which the code does not
\* clean up, and has left no more than a list, a descriptor and the handle of the device it
\* was at; every other device was closed.  connectBySerial that found devices with the
\* serial number has opened the first of them ("the first (in enumeration order) will win").
OpensFirstHoldsNothingElse ==
  usbPc = "idle" =>
    /\ \/ held = [lists |-> 0, configs |-> 0, handles |-> {transport} \ {0}]
       \/ leaked /\ held.lists <= 1 /\ held.configs <= 1 /\ held.handles \subseteq {at}
    /\ (transport # 0 => SelectInSeq(Devices, LAMBDA d : d.ours /\ d.serial = serial) = transport)

\* Threads that read properties at the same time each get the value of their own key, as
\* long as no transfer has failed: an answer is not taken by another thread, and none is
\* refused because of the state another left the shared buffer in.
PropertyIsOwn ==
  ~ioFailed => \A t \in Threads : thread[t].result \in {"none", "value"}

=============================================================================
