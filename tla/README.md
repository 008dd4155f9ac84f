# Verification of the programmable load firmware

TLA+ models of the real-time firmware of the programmable load (`src/Firmware`):
the part that runs under FreeRTOS on the Cortex-M4 of an STM32MP15x and talks to
Linux on the Cortex-A7 through shared memory; and of the library with which a PC
talks to the load over USB (`src/Host`). The models are checked by TLC on small
instances; the central results about both RPC services, the message pump, the
shutdown, the control loop, the I2C bus and most of the smaller units are proved with
TLAPS for all instances. `PROJECT.json` lists the components, the runs, the
source lines each definition models, the hazards and the theorems.

Paths below are relative to `src/Firmware/Sources` unless they start with `src/`.

## 1. The system

Several FreeRTOS tasks share one processor core; interrupts pre-empt them. Tasks
wake each other through *task notifications*: a slot of a task (index
`DriverPrivate` or `TaskSpecific`, `Rtos/Rtos.h:75-90`) holds 32 bits and a
"pending" state. Sending sets bits and the pending state; a wait returns at once
if the slot is pending, clears the bits it was told to clear, and always the
pending state. Many of the hard behaviours below come from that difference.

    confd (Linux)    rproc-srm (Linux)   control tool (Linux)
         \                |                 /
          rpmsg endpoints over two rings + IPCC mailbox interrupts
                          |
      Mailbox (interrupts) -> MessageHandler task -> Endpoint handlers
                          |          |                   |
              Supervisor task    shutdown      Confd::Handler, ResourceManager::Handler,
              (watchdog, LED)    callbacks     App::Rpmsg
                                                         |
                                          Confd::Service, ResourceManager::Service
                                                         |
                                              callers in application tasks
      App::Control task -> load driver -> I2C switch -> I2C master (interrupts)

| Component | State | Operations | Hard behaviour | What makes it correct |
| --- | --- | --- | --- | --- |
| `Rpc/Endpoints/Confd` | map tag -> InfoBlock, next tag, packet buffer cache, one heap block per call | get, set, the reply handler | the reply is decoded into memory the caller owns; tags wrap; sends fail; callers time out | a reply reaches its own caller, never a deleted block; pools suffice; calls return |
| `Rpc/Endpoints/Handler.h` | first-message flag, counting semaphore | waitForRemote, handleMessage | only the first message gives the semaphore | every waiter gets past it |
| `Rpc/Endpoints/ResourceManager` | request mutex, one receive buffer, one waiting task | setConfig, the reply handler | replies do not name their request; error paths | a result belongs to its request; the mutex is given back |
| `Rpc/Mailbox`, `Rpc/MessageHandler` | status word per channel, lock, shutdown counter and handlers | interrupts, serve, sendTo, shutdown | interrupts against the loop that resets the status words | no message is forgotten; the host is told last |
| `Supervisor`, `Drivers/Watchdog` | heartbeat flag, check-in counter | early warning, heartbeat, shutdown callback | shares the LED with the shutdown | no heartbeat after the callback |
| `App/Control` | set point, enable, sense input, previous enable | setters, timer, interrupts, main loop | configuration is read between driver calls while others write it | the load follows the configuration, never at an old current |
| `Drivers/I2C`, `I2CBus` | bus lock, state machine of the interrupt | perform, interrupt handler | the next acknowledge is chosen one byte ahead; failures | exactly the requested transactions; the bus is released |
| `Drivers/I2CDevice/PCA9543A` | recursive mutex, remembered channel | transfers behind the switch, selection, status | the record may differ from the chip | transfers run on their own channel |
| `Drivers/I2CDevice/XRA1203`, `PI4IOE5V9536` | shadows of the output registers | construction, setting lines | many registers, one after the other; writes fail | no line is driven at a level nobody asked for |
| `Drivers/I2CDevice/MCP3421` | gain, depth | settings, conversions | the record may differ from the chip; two's complement of several widths | voltages are those at the input |
| `Drivers/I2CDevice/AT24CS32` | none | page writes, reads | partial pages; a write fails in the middle | what was written is a prefix, in its place |
| `Drivers/I2CDevice/EMC2101` | fan mode | configuration, table upload, speed | the chip ignores table writes in one mode; readings of two bytes | an accepted table is in the chip, a speed is one the fan had |
| `Drivers/Dma`, `Drivers/Spi` | waiting task, completion code; none | transfers by DMA and polling, reset, enable | completion against wait; the word length changes between words | the bytes on the wire are those asked for; transfers end |
| `Drivers/TimerCounter`, dividers of `Spi` and `I2C` | units in use, period | construction, frequency, duty | integer rounding and widths | the lowest attainable frequency that is not below the one asked for |
| `Log` | trace buffer, a buffer for each task | log from tasks and interrupts | shared buffer without a lock | messages are whole |
| `Util/InventoryRom`, `Util/Base32` | none | atom walk with callbacks; coding | lengths against buffers | the walk stays in step; what is coded can be read back |
| `App/Rpmsg` | endpoint, host-seen flag | start-up wait, measurements, messages | 5 s deadline; sends with a 10 ms limit | not modelled |
| `Rpc/OpenAmp`, `ResourceTable`, `Rpc`, `Init`, `Rtos`, `Main` | set up once | initialisation | sequential | not modelled |
| `src/Host/LibLoad` | USB handles, transport, its lock and buffer | list, connect, disconnect, read a property | every USB call fails while something is held; threads share the transport | opens the right device, keeps nothing else where the code cleans up; each thread gets its own answer |
| `src/Host/LoadUtil` | none | command line | - | not modelled |
| `src/Hardware` | board designs | - | - | no program |

Interactions: Confd and ResourceManager calls run in the caller's task, wait on
its `DriverPrivate` slot, and send through `MessageHandler::sendTo` under
`MessageHandler::lock`. The message handler task holds the same lock while it
serves the ring and runs the endpoint handlers; so a task can send only while no
handler runs. Handlers notify the waiting task. Shutdown callbacks run in the
message handler task, their acknowledgements come from other tasks. The control
task has a priority above the tasks that use it, but waits for the I2C bus.

The build (`src/Firmware/CMakeLists.txt`) compiles a list of files. The I2C, SPI
and DMA drivers and the I2C devices are in the tree and not in that list.
`App/Control/Task.cpp` is in the tree, but the driver of the load that it names
(`DumbLoadDriver`) and `App::Main`, `App::Pinball` are not. They are modelled as
written.

## 2. Modules

| Module | Models | Remarks |
| --- | --- | --- |
| `TaskNotify` | FreeRTOS notification slots (external) | used by every module whose tasks wait for notifications |
| `Endpoint` | `Rpc/Endpoints/Handler.h` | instantiated by the two services |
| `ConfdRpc` | Confd `Service` and `Handler` | the core module |
| `ConfdInvariants` | - | the inductive invariants `SafeCalls`, `RepliesPlaced` and `PoolsFit`; the refinement mapping to `RemoteCall` |
| `ConfdRpcProofs` | - | theorems about `ConfdRpc`, with the proof that it implements `RemoteCall` |
| `RemoteCall` | what both services promise | abstract specification |
| `ConfdDecode` | `Service::DeserializeQuery`, `DeserializeUpdate` | pure algorithm as a state machine |
| `ResMgrRpc` | ResourceManager `Service` and `Handler` | implements `RemoteCall` |
| `ResMgrInvariants` | - | the inductive invariant `SafeRequests` |
| `ResMgrProofs` | - | theorems about `ResMgrRpc` |
| `MessagePump` | interrupts, rings, message handler loop, sending | composes the callers, the host and the handler |
| `PumpInvariants` | - | the inductive invariants `PumpSafe` and `OneReplySafe` |
| `MessagePumpProofs` | - | theorems about `MessagePump` |
| `Shutdown` | shutdown in `MessageHandler`, `Supervisor` | shares the slot with mailbox interrupts |
| `ShutdownInvariants` | - | the inductive invariant `ShutdownSafe` |
| `ShutdownProofs` | - | theorems about `Shutdown` |
| `I2cMaster` | `Drivers/I2C.cpp`, `Drivers/I2CBus.cpp` | SERCOM and devices external |
| `Services` | Confd and ResourceManager called by the same tasks | composes `ConfdRpc` and `ResMgrRpc` over one notification slot, one message handler, one panic |
| `ServicesProofs` | - | the inductive invariant `ServicesSafe` and theorems about `Services`; uses `ConfdRpcProofs` and `ResMgrProofs` for what each service sees |
| `I2cMux` | `Drivers/I2CDevice/PCA9543A.cpp` | extends `I2cMaster`: the composition is what is checked |
| `I2cInvariants` | - | the inductive invariants `DriverSafe`, `Carried` and `SwitchSafe` |
| `I2cProofs` | - | theorems about `I2cMaster` and `I2cMux` |
| `ControlLoop` | `App/Control` | load driver and Pinball external |
| `ControlInvariants` | - | the inductive invariant `ControlSafe` |
| `ControlLoopProofs` | - | theorems about `ControlLoop` |
| `SpiDma` | `Drivers/Spi`, `Drivers/Dma` | SERCOM and DMA controller external |
| `IoExpander` | `Drivers/I2CDevice/XRA1203`, `PI4IOE5V9536` | chips external |
| `AdcConverter` | `Drivers/I2CDevice/MCP3421` | chip external |
| `Eeprom` | `Drivers/I2CDevice/AT24CS32` | chip external |
| `FanController` | `Drivers/I2CDevice/EMC2101` | chip external |
| `Frequencies` | `Drivers/TimerCounter`, `updateFreq` of `Spi` and `I2C` | integer arithmetic |
| `TraceLog` | `Log/Logger` | a stack of pre-empted calls |
| `UsbHost` | `src/Host/LibLoad` | libusb and the load external |
| `InventoryRom` | `Util/InventoryRom` | the ROM external |
| `Base32` | `Util/Base32.h` | pure algorithm |
| `UnitProofs` | - | inductive invariants and theorems about `ConfdDecode`, `IoExpander`, `AdcConverter`, `Eeprom`, `FanController`, `Frequencies`, `TraceLog`, `UsbHost`, `InventoryRom` |
| `MC*` | - | instances for TLC; `MCUnits` has one of each unit that shares no state with the others |

**Conventions.** One action is one section of code that no other actor can
observe in the middle: a section under a lock that does not block, a critical
section, an interrupt handler, or statements that only touch the task's own
state. `pc`, `step`, `at` say where an actor is between two sections. Definitions
called *faulty variants* are plausible wrong versions of the definition that
follows them; each property is violated if the named variant takes its place, and
no other definition uses them.

### ConfdRpc

`BeginCall` is `serializeQuery`/`serializeUpdate` after taking a packet buffer
(`TakeBuffer`: from the cache, or a new one). `PrepareRequest`, `RegisterTag`,
`CheckRemote`, `AwaitRemote`, `SendRequest`/`SendFails`, `WakeUp` are
`sendRequestAndBlock` (`Handler.cpp:184-265`) cut where it takes a lock or blocks;
`GiveUp` (`LockTimeout`, `RemoteTimeout`, `SendTimeout`, `WaitTimeout`, `Abandon`,
`Withdraw`) its time-out paths, which only `TimedSpec` and *Services* take;
`ReturnBuffer`, `ReturnWithoutReply` and `Collect` what the caller does with
the result. `HandleReply`, `Decode` and `NotifyCaller` are `handleResponse` cut
where it releases `Handler::lock`: the decoding runs without it. A block is named
by its call, so an access to a deleted block is recognised (`halted =
"useAfterFree"`) even if the heap reuses the address. `halted` also records the
firmware's own panics. What a reply says is one of three bodies: a value of the
type asked for, of another type, none. `HostAnswers` answers requests in any order.

`RemoteCall` says what a call returns and nothing about when: it is a safety
specification, so that the implementation can be proved step by step, and `CallsReturn`
says of each service that its calls end. The ends of `ConfdInvariants` and `ResMgrRpc`
map the services to it: the answer to a call is its reply, wherever that is (`Arriving`,
`AnswerAmong`), until the call returns.

### ConfdDecode

A reply's payload is a list of entries (name, type of value). The decoder is one
loop, an entry's name and value being two steps, with the state of the source's
loop: the key it holds, the response it fills. Type mismatches, unknown names,
names too long for the buffer and repeated names are in the input set. The
reference is declarative: the last entry of a name counts.

### ResMgrRpc

Like `ConfdRpc`, with one buffer (`rxBuffer`), one `waitingTask` and a mutex held
over the whole call. The constant `CallersPreempt` says whether a caller may run
between the handler's notification and its reset of `waitingTask`, as the priorities of
`Rtos/Rtos.h` allow; it is TRUE in every run. Replies may be shorter than their header:
the call then returns with the mutex (`MeasureReply`). `GotShortReply`, `Forgotten` and
`LockLost` name the states after which the mutex is not given back any more.

### MessagePump

The IPCC interrupt of each channel writes that channel's status word and notifies;
the handler's loop reads and resets the words (`Mailbox::ProcessDeferredIrq`,
`Mailbox.cpp:127-146`) with the ring being served in between; tasks send under the
lock and kick the host, busy-waiting until it has acknowledged the last kick.

### Shutdown

The handler collects `ShutdownRequest`, shows the red LED, calls the callbacks,
waits for the counter to reach zero and tells the host. Acknowledgements are two
steps (count, notify). The supervisor's heartbeat is cut between its test of
`isHeartbeatEnabled` and its setting of the LED. At most `MaxIrqs` mailbox
interrupts and watchdog warnings occur.

### I2cMaster and I2cMux

`Perform`, `TakeBusLock`, `Setup`, `Wake`, `Release` are `I2C::perform`
(`Drivers/I2C.cpp:202-286`). Each case of `irqMasterOnBus` (`:296-563`) that the
modelled hardware can cause is one action: the interrupt is not pre-empted by
tasks. `hw` holds the registers the handler reads and writes and `wire`, the
record of what was put on the bus. The hardware is external and follows the
comments of the handler: smart mode (reading DATA goes on with the next byte,
acknowledged as ACKACT says), MB after a byte sent, SB after one received, writing
ADDR while the bus is held is a repeated start. A byte is its place (transaction,
offset), so a byte stored twice or in the wrong place is seen.

In `I2cMux` a task transfers on a channel, selects a channel or none directly,
reads the status register, or uses a device in front of the switch. `control` is
the chip's register, changed when the chip has acknowledged the control byte,
which may be followed by anything; `activeBus` is the driver's record.

### ControlLoop

Setters are two steps (write, notify). Each call of the driver is a step of its
own, during which other tasks run; between two calls they do not, for the control
task's priority is higher (`Blocked`). A failing driver call halts the firmware
(`DriverFails`). Pinball is external: `told` is what it was last notified of.

### Services

Both services notify their caller in the same slot (`DriverPrivate`, bits of their
own), so this module instantiates `ConfdRpc` and `ResMgrRpc` with one variable
`notify`. A task is in one call at a time; the message handler handles one message
of either service; sending needs its lock; a panic of one stops both. `patient` is
chosen at the start: all callers wait without a limit, or all with one.

### SpiDma

`NextTransaction` is the choice between `doDmaTransfer` and `doPolledTransfer` with
the checks of each. The DMA path is cut into configuring the descriptor, enabling
the channel, the two critical sections of `WaitForCompletion`, and the rest; the
polled path at each busy-wait for a flag. `HandleIrq` is the interrupt; it may come at any
point, so also between the enabling of the channel and the wait, where it notifies nobody
(`MissedCompletion`). A transfer of more beats than a descriptor counts (`MaxBeats`) is
refused. `port` has
the registers with the shift register behind them, which empties by itself: a byte
is its place (transaction, offset), and what is put out while LENGTH changes is any
part of the word.

### The devices

`IoExpander` writes one register per step, so that a moment at which some are
written and others are not is a state. `Eeprom` and `FanController` have one step
per bus transaction, which may fail; a page write that fails has written any prefix.
`AdcConverter` computes the code that the chip would deliver for an input in
microvolts, in the bytes of the depth the chip has, and the driver's conversion back.

### Frequencies

`BestCode` is the loop of `CalculateFrequency` over the prescalers, as the choice it
makes; `Applied` what `applyConfiguration` writes. `Baud` is `updateFreq`.

### TraceLog

`calls` is a stack: the last call of `Log` runs and has pre-empted those below; an
interrupt is above all tasks and uses the thread-local buffer of the task it
interrupts. A call is cut between finding its buffer, taking one, formatting,
choosing the place in the trace buffer, copying, and advancing the pointer, which
the build may or may not read again. A cell holds the number of its message.

### UsbHost

`usbPc` is the thread that lists or connects; each step is one call of libusb, which
may throw, and `held` counts what it has given out. `ThrowClean` and `ThrowLeaky`
are the exits that free the list and those that free nothing; what those leave stays in
`held`, and no call is made after one of them. `Usb::getDevices` lets its callback end the
enumeration, and so does the model, although the one callback in the tree never does. Threads that read
properties take the lock, write and read; the load answers in order.

### InventoryRom, Base32

`GetAtoms` with one step per read of the ROM and per callback. An atom that the callback
declines is counted and read again (`DeclineAtom`, at most `MaxDeclined` times). The data
callback is handed its whole buffer, so `delivered` has both what was read and the size of
the buffer. `Encode` and `Decode`
are functions of the bytes, built up a byte at a time by `CodeNext` so that every
input up to the bound is a state.

## 3. Runs

| Run | Instance | Shows |
| --- | --- | --- |
| `confd_calls` | 2 tasks, 3 calls each, 3 tags, 2 map entries, 2 buffers, sends may fail | `NoUseAfterFree`, `CallerGetsItsReply` |
| `confd_live` | 2 tasks, 2 calls, all reply bodies, sends succeed, fair | no pool is exhausted, calls return, `RemoteCall` is implemented |
| `resmgr_calls` | 2 tasks, 2 calls, sends may fail, replies complete or short, callers that pre-empt the handler, fair | results belong to requests; only a short reply makes a task keep the mutex; calls return unless the mutex was lost; `RemoteCall` is implemented |
| `service_calls` | 2 tasks, 2 calls in all of either service, replies complete or short, sends may fail, callers that pre-empt the handler, without and with finite timeouts | with no limit, the shared slot does no harm; calls return in both cases, except those without a limit behind a mutex that was lost |
| `i2c_switch` | 2 tasks, 3 calls, 2 channels, refusing devices, fair | transactions as asked, on their channel, clean failures, operations end |
| `units` | one of each unit, see below, fair | pump: no interrupt or message forgotten, replies delivered; shutdown: counter exact, acknowledged by all, completes, no late heartbeat; control loop: configuration applied, enabled at set point, stops; and what SPI, decoder, expander, converter, EEPROM, fan controller, dividers, logger, USB library, inventory ROM and Base32 promise |
| `confd_buffers` | 3 tasks, 1 call | *violation*: a third buffer is allocated |
| `pump_lost` | 2 requesting tasks | *violation*: a message is forgotten |
| `resmgr_lock` | as `resmgr_calls` | *violation*: a call returns with the mutex |
| `units_wait` | as `units` | *violation*: a task waits for a transfer that has ended |
| `units_clock` | as `units` | *violation*: a port's clock is rounded up |
| `trace_torn` | 3 tasks, 3 messages, buffer of 8 | *violation*: a message is torn by another |

**Bounds.** *Confd*: three tags and three calls a task make the counter wrap while
an entry of a failed send is still in the map; with two entries the map fills. The
order of the constants is that of the code (`kMaxInflight` 4 < 255 tags,
`kMaxPacketBuffers` 2); two tasks are as many as there are buffers in the code,
and a third shows what happens beyond. The safety properties of this run are
proved without the bounds. *ResourceManager*: two callers, since the mutex admits
one; the second call of a task meets what the first left behind. *Services*: two
calls are one after the other by the same task, which meets what the first left in
the slot, or two at once. *Pump*: two kicks queue up while an
interrupt is handled; more would be merged in the same status word. *Shutdown*: a
task that registers early, one that registers late, and interrupts before and
during the wait for acknowledgements. *I2C*: the lists have the shapes that occur
in device drivers (write then continued read) and one- and two-byte reads, split
writes and a refused list; three calls let a task use a channel after another task
changed it or failed to. *Control*: three changes by two tasks allow the load to be
switched, and a change and its revocation during a driver call of that update. *Logger*: three messages let one be
pre-empted twice, once by an interrupt; two messages fill the trace buffer, so the
third wraps around.

*Units*: `MCUnits` extends the modules of all of them, `MessagePump`, `Shutdown` and
`ControlLoop` included (and has an instance of `Base32`); the type invariant of all units
is in `PortSendsAsAsked`. A behaviour is one of a single unit
(`unit`, chosen at the start), so the states add up instead of multiplying, and a
property of one unit is true trivially in behaviours of the others. The bounds:
SPI, two calls with lists that mix lengths around the threshold (7 for 128 in the
code) and the word size 4, and descriptors of at most 3 beats, so that a list is too long. Decoder, maps of two entries, which is every ordered
pair; two types that the code treats like ones that remain (float, bytes) and one
more unknown name are left out. Expander, banks of 2 lines for 8. Converter, 11
voltages within and beyond the range of each gain, two changes of settings. EEPROM,
a write of any length from any address over three pages of two bytes. Fan
controller, three calls. Dividers, two units at 12 MHz, and frequencies that divide
it, that do not, and that no prescaler reaches; three calls. Logger, as above. USB,
another device and three loads of which two have the same serial number, two
threads, two calls of each kind. ROM, five lists of atoms with lengths below, at and
above the buffers, headers good and bad, and a callback that declines up to twice. Base32, all inputs of up to 5 of 4 bytes:
five bytes are a whole group of eight digits.

**Fairness.** Tasks and the message handler run (weak fairness on their steps):
FreeRTOS schedules by priority and every task here blocks. The finite timeouts of
*Services* expire.
The host announces itself and answers (`HostFairness`) in the runs that ask for
replies; `Services` asks for this only if callers wait without a limit, and then their
timeouts do not expire either. In `units` the fairness is that of the unit that
the behaviour is of (`UnitsFairness`). *Pump*: mutexes are
strongly fair: FreeRTOS wakes the waiting task of highest priority, and no caller
takes the lock over and over without blocking. *Shutdown*: strong fairness of the
handler, because the supervisor has a higher priority and may pre-empt it any
finite number of times; the tasks that were called back acknowledge. *I2C*: weak
fairness of "somebody goes on" is enough, since the number of calls is bounded and
each consists of finitely many steps; the hardware is part of it. *Control*: the
loop goes on, and setters reach their notification. *SPI*: the task, the interrupt
and the hardware each go on: nothing else is required for a transfer to end.

A send that fails, a driver call that fails, a late handler and a change of the
configuration are never required to happen.

`CHECK_DEADLOCK FALSE` is stated where the bounds on calls or events end a run, or
the firmware halts or is turned off.

## 4. Proofs

The runs check what the components promise; the inductive invariants from which the
proofs derive it are in modules of their own (`*Invariants`; that of `Services` is in
`ServicesProofs`, those of the units are in `UnitProofs`), which the MC modules extend:
any of them can be given to TLC by naming it in the `.cfg` of the component's run. All of
them hold on these instances (`PumpSafe` and `ServedWaiting` also with the two tasks of
`pump_lost`). `TagsResolve`, `IndicatorFollows`, `WaiterIsKnown` and `ServedWaiting` follow
from them and have no run of their own either. The assumptions of the theorems are those
of the modules (bounds are natural numbers and the like), which TLC evaluates on every
run, and those stated with a theorem. What the theorems of `UnitProofs` assume of the
constants has a name in the unit's module (`UsbConstants`, `RomConstants`, ...), and
`MCUnits` and `MCI2c` assume it of their instances, so that TLC evaluates it too.

| Module | Theorems | For every |
| --- | --- | --- |
| `ConfdRpcProofs` | `TypeCorrect`, `CallsSafe`, `BlocksOutliveReplies`, `RepliesReachTheirCallers`, `TagsResolveAlways` | set of tasks, number of calls, tags, entries and buffers |
| | `BuffersSuffice` | at most `kMaxPacketBuffers` tasks |
| | `PoolsSuffice` | at most `kMaxPacketBuffers` and `kMaxInflight` tasks, sends that succeed |
| | `RepliesPlacedAlways`, `Implementation` (of `RemoteCall`) | as the first row |
| `ResMgrProofs` | `TypeCorrect`, `RequestsSafe`, `ConfigsAreActual`, `Implementation` (of `RemoteCall`) | set of tasks, number of calls, replies, priorities |
| | `LocksGivenBack`: a task keeps the mutex only with a short reply | as the first row |
| | `WaitersAreKnown`: a task is forgotten only if it pre-empted the handler, and before it sends | as the first row |
| `ServicesProofs` | `ServicesAreSafe`, `EachAsIfAlone` | set of tasks that use both services, their bounds and replies |
| | `SharedSlotIsSafe`: about callers that wait without a limit | the same, whatever the priorities |
| `MessagePumpProofs` | `PumpIsSafe`, `IrqsAreServed`, `RepliesFindTheirTask` | set of tasks, number of kicks |
| | `OneReplyIsSafe`, `MessagesAreServed` | single task that makes requests |
| `ShutdownProofs` | `Safe`, `CounterIsExact`, `HostToldLast`, `HeartbeatIsOver` | set of tasks, number of interrupts |
| `ControlLoopProofs` | `TypeCorrect`, `LoopFollows`, `ChangesApplied`, `IndicatorTold`, `EnabledAtItsSetpoint` | set of tasks and set points, number of changes and events |
| `I2cProofs` | `DriverIsSafe`, `NoStrayInterrupt`, `FailuresAreClean` | set of tasks, lists of transactions, number of calls, behaviour of the devices |
| | `CallsAreCarriedOut` | the same, for lists that the interrupt handler can carry out (`Supported`) |
| | `MemoryIsTrue`, `TransfersOnOwnChannel` | the same, if direct selections have the switch to themselves |
| `UnitProofs` | `OpensFirst`, `EachItsOwn` | USB devices, serial numbers, threads, number of calls |
| | `RepliesAreDecoded` | length of a reply, names and values |
| | `VoltagesAreAccurate` | set of input voltages, number of calls |
| | `LinesAreDriven`: during construction and after calls that succeed, but not of an XRA1203 once its lines were changed | size of a bank, pin configurations, number of calls |
| | `DataIsInPlace` | page size, device of whole pages, number of calls |
| | `MapsAreUploaded`, `SpeedsWereReal` | maps of at most 8 entries, counts from 1 to 65535 |
| | `FrequenciesAreRoundedUp`: the lowest attainable frequency that is not below the one asked for | input clock, frequencies but 0, duty cycles |
| | `AtomsAreInStep` | ROM, atoms, buffers, number of declined atoms |
| | `MessagesAreIntact` | tasks, size of the trace buffer, lengths below it, size of the heap |

### Configuration service

*Why an inductive invariant is needed.* `NoUseAfterFree` says that the handler,
working without `Handler::lock`, finds the block alive. That is so because the
caller deletes its block only after a wake-up; it wakes only on a notification;
only the handler of its own reply notifies it; that reply carries the tag of the
caller's entry; and no one else has the tag. `SafeCalls` states this for every
phase of a call (see the comments in `ConfdInvariants`): a block lives exactly
while its call needs it (`BlockLives`), a call about to send owns its tag
(`OwnsTag`), messages on the way belong to blocked calls and own their tags
(`WireAwaited`), each call has one message on its way (`OneMessagePerCall`), the
handler's reply is the last (`HandlerAwaited`), a pending notification means a
complete reply (`PendingAnswered`). The step lemmas are `ClientStep`,
`ClientKeepsSafe` and `HandlerKeepsSafe`, one step per action. The type invariant and
`BuffersSuffice` hold of `TimedSpec` too, in which callers give up.

*Which callers.* `Spec` (and not `TimedSpec`) says that callers pass `portMAX_DELAY`, the
default of `get` and `set`. No caller in the tree passes anything else. With finite
timeouts the property fails (section 5).

*Pools.* A task has one packet buffer at most (`BuffersFit`) and, if sends never fail,
one entry in the map at most, from the choice of its tag until its reply is handled
(`EntriesOwned`); so with no more tasks than places nothing overflows. The bounds on the
number of tasks are what the code leaves unchecked (`confd_buffers`), and a send that
fails leaves its entry behind for good, so without `~SendMayFail` the statement is false.

*Implementation.* What a call will return is determined by its reply, and the reply is
found by looking through the messages that arrive, the message in the handler and the
block. That there is one such place is `SafeCalls`; that the block holds nothing that is
not announced is `RepliesPlaced`, which the proof adds. Each action is then one step of
`RemoteCall` (the host's answer is `Answer`, `Collect` is `Return`, the ways in which a
call ends without a reply are `Fail`) or moves the answer from one place to the next
and changes none of the abstract variables.

### Resource manager service

Replies do not name their requests. They need not: the task that holds `reqLock` has at
most one message on its way (`OneMessage`), the buffer holds no reply from the future
(`BufferIsPast`), and whoever has been notified finds its own reply in it
(`PendingAnswered`, `WokenAnswered`). `SafeRequests` holds for short replies and for
callers of any priority. Two of its conjuncts carry what goes wrong in the code: a task that
got a short reply keeps the mutex (`LockInUse`), and a caller that runs between the
handler's notification and its reset of `waitingTask` can be forgotten, but only before it
sends its request (`WaitingTaskKept`). `LockGivenBack` and `WaiterIsKnown` say that nothing
else does, and need no assumption. Callers are those of `Spec`, without a limit.

### Both services together

A slot belongs to the service in whose call its task waits (`SlotOwned`): no step of the
other service notifies it, for confd notifies only the task whose reply it handles and the
resource manager only the task that waits for the message (`SafeCalls`, `SafeRequests`).
`ConfdSlot` and `ResMgrSlot` are the slots as one service sees them, those of the tasks
that wait for it, and `CF` and `RM` are the two services, with what is proved of them, over
these slots. Each step of the composition is then a step of one and leaves the other
unchanged (`EachStep`), whence `EachAsIfAlone`: if callers are patient, the composition
implements the specification of either, and all the theorems of the sections above
hold of it. The argument needs each service's invariant to show that it only notifies its
own, and the ownership of the slots to show that it keeps its invariant; the three are
inductive together (`ServicesSafe`). With finite limits `SlotOwned` fails with the first
notification that is late (section 5).

### Message pump

The status words, the slot of the handler and its place in the loop belong together:
`StatusKept` says that a word that is set has the task notified, or the task has yet to
look at it in this turn; `LockHeld` that the mutex covers each use of the rings, and
`Outstanding` that a request is with the host, in its work, or answered in the ring,
and its task waits. With one task that makes requests a reply and its signal (queued,
raised, noted) come and go together (`OneSignal`, `SignalOfReply`), and nothing can arrive
while the ring is served (`ServedAlone`), which is what fails with two tasks in
`pump_lost`. The restriction to one task is therefore part of what is true.

### Shutdown

The counter that the handler waits for is the number of the tasks that were registered and
have not acknowledged (`Awaited`, `CounterExact`). It is exact because no task registers
twice (`CalledOnce`), a callback that is still to be invoked is of a task that was not told
before (`ToCallFresh`), and only a task that was called acknowledges (`AckersCalled`).
`HostToldLast` is an action property and follows from the invariant in the state
before the step; `HeartbeatIsOver` from `HeartbeatOver`: the supervisor is called once, and
the heartbeat is disabled and not under way from then on.

### Control loop

`ConfigApplied` speaks of the moments when the control task sleeps,
and `updateConfig` reads the configuration several times while others change it. A
change is *fresh* from its write until its bit is taken from `note` to be handled.
`ConfigInv` says that without a fresh change the loop is as far with the *current*
configuration as its place in `updateConfig` says (`Followed`): what was read before
a driver call is still true after it, or the bit has been set again. `BitTaken` says
that the bit is taken before the first read, so a change during the handling is
fresh once more; `SenseInv` is the same for the sense input, and `ToldInv` ties what
Pinball knows to `prevIsLoadEnabled`. Neither property is inductive without the
intermediate places.

### I2C

The interrupt handler has no case for an interrupt it does not expect, so the state
machine must be in the right state *before* the hardware acts: `Agree` says so for each
thing the bus may be doing. That the first byte of a read is refused exactly if it is the
only one (`FirstByte`) is what tells apart its two cases. `OneOnBus` and `NotifiedWaiting`
tie the machine to the one task that holds the bus lock. The lists of transactions are
arbitrary sequences: the proof uses that the list is not empty and that the current
transaction is one of it (`Served`), and nothing about their lengths. The lists in which a longer read is followed by a continuation, on which the
wire is not what the documentation says (section 5), are included, for the interrupts are
expected there too.

The switch driver reads its own record and not the chip. `Remembered` says that the record
is true at all times except from the moment when the chip has acknowledged the control
byte to the driver's note, and that at most one task is in that stretch (`Written`). While
a task writes the switch, its single transaction is the control byte (`WritesControl`), so
no failure can leave the switch changed and the call refused. Selections by
`activateBus` note the channel after the mutex was given back; without
`~DirectOverlap` both theorems are false (section 5).

*What is on the wire.* `PerformedAsAsked` compares the wire at the end of a call with the
transcript of its whole list. `Carried` says what the wire shows on the way: `Wire(txns, n,
m)`, the transcript of the first n transactions and m bytes of the next, where n and m
are the driver's `currentTxn` and `currentTxnOffset`. Nearly every step of the hardware moves one
of them by one; so the acknowledge that was chosen one byte ahead has to be tied to the
offset as well (`AckedUnlessLast`), and what has been stored to the bytes received
(`StoredSoFar`). `Supported` is needed: on lists that it excludes the wire differs from what is
documented (section 5). The lists of all drivers in the tree satisfy it.

### The units

*Host library.* Of listing and connecting, the invariant says at each place which list,
descriptor and handles are held, and that no device before the current one had the
serial number looked for (`NoneBefore`); a call that fails where the code does not clean up
leaves a part of what was held for the current device. Of reading properties, `LockHeld` says that only
the thread with the transport's lock is between its write and its read, and `AnswersDue`
that what the load will send next is the answer to that thread.

*Decoder.* `ValueFollowsKey` says that a value that is decoded belongs to the last name
that was, and `DecodedAs` that the response so far says what the last entry of each name
among those read says (`LastSays`): the property is this at the end of the map.

*Expanders.* The lines stay inputs until their levels have been written (`InputsFirst`: the
output register is written first, the directions afterwards, `OrderOfWrites`), and the
shadow is what the chip has once a call has succeeded (`ShadowFollowed`).

*Converter.* The driver's settings are the chip's unless the bus has failed
(`SettingsKnown`), and changing a setting forgets the reading. The rest is arithmetic: a
voltage within the range of the gain is not saturated (`CodeInRange`), its code survives
the chip's two or three bytes and the sign extension (`CodeIsRead`), and what the code is
worth is within a step of every voltage that has this code (`WorthIsNear`).

*EEPROM.* The memory is what it was before the call, with a prefix of the data in it
(`Stored(n)`), n between the bytes that were acknowledged and those of the page under
way (`RomInStep`). What is left after the first page begins a page, so no page write
wraps around within its page; that the device consists of whole pages is what makes this
true at its end.

*Fan controller.* The mode the driver remembers is the chip's from the end of the
constructor on (`ModeKnown`), an upload takes place in manual mode (`Uploaded`). `SpeedWasReal`
is an action property; between the two reads, the byte that was read and the one that the
chip latched are those of one count (`ReadingHeld`). The assumptions are gaps of
the code (section 5): maps of more entries than the chip has, and a count of 0.

*Dividers.* No inductive argument but an arithmetical one: of a prescaler, the period that
is computed gives the least frequency that is not below the one asked for; a prescaler
whose period does not fit would be faster with any period that does (`TooFast`: of two
prescalers that follow each other one is a multiple of the other); and the first with the least
error is the closest of the others. All of them are at or above the frequency asked for.

*Inventory ROM.* The address of an atom and what has been delivered before it are recursive
functions of the number of atoms passed, which is the turns of the loop less the declined
atoms (`AtomAddress`, `Asked`, `Passed`); `ParseSafe` says that the parser's
address and its deliveries are these. That no other atom is at that address follows
from the addresses growing.

*Logger.* A buffer that a task has was given out (`BuffersTaken`), and is given out once.
As long as no call pre-empts another, the running call is alone, and `InStep` says what it has
done to the trace buffer so far: the text is in the place that was chosen, and before it
stands what stood there. A message with its newline has to fit the trace buffer: the
code's 256 bytes against 4096.

*Induction.* Where a proof needs induction over a number, it is in the form of a
statement about a set (`NatSetInduction`, `AllNumbers`: a set that holds 0 and with every number the next
holds all of them), derived from the well-foundedness of the numbers by way of the least
element; and the recursion is that of a function (`f[n \in Nat]`), whose existence the same
lemmas show. `FlattenSeq` of the community modules is one, too.

### What is only model-checked

* Liveness (`CallsReturn`, `ServicesReturn`, `RepliesDelivered`, `ShutdownCompletes`,
  `OperationsEnd`, `LoadStops`, `PerformReturns`): fairness is outside the prover's reach.
* `PortSendsAsAsked` (`SpiDma`): the polled path and the DMA path each have a shift register
  of several words behind them, whose contents are compared as sequences byte by byte.
* `RoundTrip` (`Base32`): coding is a fold over the input with the bits of each byte.

## 5. Disagreements between code and documentation

Kept as runs:

* `confd_buffers`: "Maximum number of packet buffers to allocate"
  (`Confd/Service.h:147`) is not enforced: `cacheTotal` is never incremented
  (`Service.cpp:72`). With more concurrent callers than the maximum, returning the
  last buffer finds the cache full and panics (`Service.cpp:98`).
* `pump_lost`: a message that arrives after the ring was found empty and before the
  status word is reset (`Mailbox.cpp:140`) waits until the next one.
* `resmgr_lock`: a ResourceManager reply that is too short returns with the mutex held
  (`ResourceManager/Service.cpp:272`, against "release lock and return" at `:278`).
* `units_wait`: "Block the calling task until the specified DMA channel transfer completes or
  fails" (`Drivers/Dma.cpp:269`); the waiting task is named after the transfer was started
  (`:283`), so the interrupt of one that ends before notifies nobody, and the wait has no limit.
* `units_clock`: "the calculation will round down" (`Drivers/Spi.cpp:387`, `Spi.h:143-145`,
  `I2C.cpp:723`); the divider is rounded down, and so the clock is faster than asked.
* `trace_torn`: "only when we actually modify the trace buffer do we do so from inside
  a critical section" (`Log/Logger.cpp:40-42`); the critical section is commented out
  (`:114`), so two calls may write to the same place.

Observed with these models or while writing them, without a run of their own:

* With a finite timeout, `sendRequestAndBlock` may time out while `handleResponse`
  decodes into its block; it then marks and deletes the block without the lock
  (`Confd/Handler.cpp:246`). The comment at `:154` says "the task should still be
  blocking". (Check `NoUseAfterFree` under `TimedSpec`.)
* A send that fails leaves its entry in the map (`Confd/Handler.cpp:235`); its tag
  is skipped for good, and repeated failures fill the map (`NoResourcePanic` fails
  with `SendMayFail = TRUE`).
* With a finite timeout a late ResourceManager reply is taken by the next request
  (`ResourceManager/Handler.cpp:118`).
  `waitingTask` is reset after the notification (`:68`): a caller of higher
  priority that sends again in between is forgotten (`Forgotten`), and keeps the mutex.
* `Confd/Service.h:25-26` speaks of "an application-specified timeout", but `get` and `set`
  take none and wait with the default, `portMAX_DELAY` (`Confd/Handler.h:124`);
  `InfoBlock::error` is written and never read (`Confd/Handler.cpp:158`).
* `Confd/Handler.cpp:204-205` clears the bit of an old notification, not its
  pending state.
* A shutdown handler that registers while the callbacks run is counted and not
  called: the shutdown waits for good (`MessageHandler.cpp:140`). In the tree only
  the supervisor registers. `MessageHandler.h:197-198` mentions a timeout;
  `MessageHandler.cpp:108` waits with `portMAX_DELAY`. The red LED is overwritten by
  the heartbeat (`:88-90`) until the supervisor's callback.
* I2C: a read of two or more bytes ends with a STOP (`Drivers/I2C.cpp:487-489`) even
  if the next transaction is a continuation, for which "the bus will not be
  relinquished" (`I2CBus.h:45-46`). Such lists are not in the instance; no driver
  in the tree passes one. `ValidateTransactions` is documented to check "that
  buffers are the correct size", and checks that they are not empty.
  `activateBus`/`deactivateBus` note the channel after the mutex was given back
  (`PCA9543A.cpp:85`, `:98`): with `DirectOverlap = TRUE`,
  `OnOwnChannel` fails. The branch of the constructor for two active channels
  (`:34`) cannot be reached.
* I2C completions and DMA completions use the same bits of `DriverPrivate` as Confd
  and ResourceManager. No task in the build uses both.
* With finite timeouts, a late notification of one service ends a wait for the other:
  a Confd call then finds no reply (a failed REQUIRE), a ResourceManager call decodes
  what the buffer held (`Rtos/Rtos.h:85`; `SharedSlotSafe` without `patient` fails).
* DMA: `Spi` ignores the completion code (`Spi.cpp:190`), returns before the last
  bytes have left after DMA, skips a transaction by DMA that only receives, and writes
  LENGTH at the start of a transaction while the last word may still be shifted out.
  `reset()` followed by `enable()` does not configure the port again. The default
  configuration (DMA and receiving) panics in the constructor. Such ports are left
  out of `SentAsAsked`.
* XRA1203: `setOutput` and `setOutputTristate` write half of the shadow to the register
  of the other half (`XRA1203.cpp:125-129`, `:153-157`, by the one-byte `writeRegister` of
  `XRA1203.h:180`). `DrivenAsAsked` leaves out an XRA1203 from then on. A line configured
  tristated is driven between the writes of its direction (`:86`) and of its tristate (`:88`).
* AT24CS32: a write that begins inside a page passes the whole buffer for the first
  page (`AT24CS32.h:114`) and is refused unless the data end with that page.
* EMC2101: a map's speed is documented up to 0xFF and masked with 0x3f; negative
  temperatures wrap; a map of more than 8 entries runs on into other registers; a
  tachometer count of 0 is divided by.
* TimerCounter: the constructor sets every bit of `gInitialized` but its own, so a
  second unit panics and the same one may be constructed twice; `setFrequency` adds
  prescaler bits to those that are set; the frequency is the closest of those that are not
  below the one asked for, and not the "closest" (`TimerCounter.cpp:274`); one of 2^22 Hz or
  more divides by zero.
* Logger: an interrupt formats its message in the buffer of the task that it interrupts
  (with what that task has formatted lost); if the heap is exhausted, the hook that
  reports it needs a buffer from the heap; the loop that clears the rest of the trace
  buffer has a condition that is always true.
* Host library: `probeDevice`, the constructor and the destructor of `Transport`, and
  a callback that throws leave handles, lists or descriptors behind; a callback that
  asks for the end of the enumeration is ignored; a read checks the size of the
  transport's own buffer, not of the caller's (`Usb.cpp`); an answer that comes after
  its transfer failed is taken for the next one's.
* InventoryRom: an atom that the callback declines is read again, and again until it is
  accepted (`Util/InventoryRom.cpp:68-70`), where `InventoryRom.h:206` says whether "iteration
  should continue". The control task's callback declines none. The data callback gets the
  whole buffer, longer than the data if the atom is shorter (`:82`); the control task's
  reader fills all of it ("TODO: take length into account", `App/Control/Task.cpp:151`).
* ExternalIrq: the configuration register is chosen by the sense, not by the line.

## 6. Not modelled, and why

* External code is modelled by what the firmware relies on: FreeRTOS
  notifications, semaphores and mutexes; rpmsg and the rings; tinycbor; the daemons
  on Linux; SERCOM and IPCC; the load driver.
* Start-up: interrupts are enabled before `SetDeferredIsrHandler` names the task;
  endpoint registration.
* The host's forced power-off half a second after a shutdown request
  (`Mailbox.cpp:197-199`).
* Sizes of encoded messages: a value is at most 486 bytes and fits in a packet of 512.
* Bus errors and lost arbitration of the I2C bus (`irqError`), enabling and disabling.
* Time: the watchdog's window, the timer's period, the five seconds that the host has
  to open the control channel (`App/Rpmsg`).
* The LED driver PCA9955B and the DAC60501, Gpio, ClockMgmt, ExternalIrq and Random: one
  register access per call, and nothing that a later call could meet in a wrong state.
* MurmurHash3 (`Util/Hash.cpp`) has no specification but its algorithm.
* Panics, timeouts of register synchronisation and formatting of messages.
* `src/Host/LoadUtil`, `src/Hardware`, vendored code under `External`.

## 7. Plan

The core came first: calls to the host (`ConfdRpc` with its proofs, `ResMgrRpc`,
both against `RemoteCall`), then the pump beneath them, the shutdown, and the two
applications of the same patterns below the RPC layer (`I2cMux`, and `ControlLoop`
with its proofs).

The units below and beside them followed: the composition of both services
(`Services`), DMA and SPI, the I2C devices with state, the dividers, the logger, the
host's library, and the algorithms of `Util`.

Extensions, in this order:

1. `App/Rpmsg/Task.cpp`: start-up deadline, measurements sent with a 10 ms limit,
   composed with `MessagePump`.
2. `MessagePump` with `Shutdown` (pending state consumed by the wait for
   acknowledgements).
3. `Watchdog` and `Supervisor` with a discrete clock.
4. Bus errors of the I2C master.

Proofs left: `SentAsAsked` of `SpiDma`, for whose shift registers an invariant in the manner
of `Carried` would be needed, and `RoundTrip` of `Base32`.
