SPECIFICATION UnitsBehaviours
CONSTANTS
  sup = sup
  t1 = t1
  t2 = t2
  Clients <- OneClient
  MaxKicks = 2
  Supervisor = sup
  Others <- TwoTasks
  MaxIrqs = 2
  Users <- TwoTasks
  Setpoints = {0, 1}
  MaxConfigChanges = 3
  MaxEvents = 1
  Requests <- SpiRequests
  Configurations <- SpiConfigurations
  kDmaThreshold = 7
  MaxBeats = 3
  MaxPerforms = 2
  DmaMayFail = TRUE
  MaxEntries = 2
  Names <- SomeNames
  Values <- SomeValues
  Bank = 2
  PinConfigs <- PinKinds
  MaxChanges = 2
  Inputs <- AdcInputs
  MaxSettings = 2
  kPageSize = 2
  kDeviceSize = 6
  MaxWrites = 1
  Maps <- FanMaps
  Readings <- TachometerCounts
  MaxFanCalls = 3
  Units = {"Tc0", "Tc1"}
  InputClock = 12000000
  Frequencies <- FrequenciesAsked
  Duties <- DutyCycles
  MaxTunings = 3
  LogTasks <- LoggingTasks
  Lengths = {2, 3}
  kTraceBufferSize = 8
  HeapBuffers = 1
  MaxMessages = 3
  Devices <- UsbDevices
  Serials = {"A", "C"}
  Threads = {"t1", "t2"}
  Keys = {1, 2}
  MaxUsbCalls = 2
  Roms <- InventoryRoms
  BufferSize <- AtomBuffers
  MaxDeclined = 2
CHECK_DEADLOCK FALSE
INVARIANTS WaitEnds
