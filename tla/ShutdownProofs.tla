--------------------------- MODULE ShutdownProofs ---------------------------
(***************************************************************************)
(* Machine-checked proofs about the shutdown, for every set of tasks and   *)
(* any number of mailbox interrupts.                                       *)
(***************************************************************************)
EXTENDS ShutdownInvariants, FiniteSetTheorems, TLAPS

-----------------------------------------------------------------------------
(* The sequences of callbacks *)

\* Append adds its element to the range, and keeps an injective sequence injective when
\* the element is new.
LEMMA AppendRange ==
  ASSUME NEW S, NEW s \in Seq(S), NEW t \in S
  PROVE  /\ Append(s, t) \in Seq(S)
         /\ ToSet(Append(s, t)) = ToSet(s) \cup {t}
         /\ IsInjective(s) /\ t \notin ToSet(s) => IsInjective(Append(s, t))
<1>1. /\ Append(s, t) \in Seq(S)
      /\ Len(s) \in Nat /\ DOMAIN s = 1..Len(s) /\ DOMAIN Append(s, t) = 1..(Len(s) + 1)
      /\ \A i \in 1..Len(s) : Append(s, t)[i] = s[i]
      /\ Append(s, t)[Len(s) + 1] = t
  OBVIOUS
<1>2. ToSet(Append(s, t)) \subseteq ToSet(s) \cup {t}
  BY <1>1 DEF ToSet
<1>3. ToSet(s) \subseteq ToSet(Append(s, t)) /\ t \in ToSet(Append(s, t))
  BY <1>1 DEF ToSet
<1>4. IsInjective(s) /\ t \notin ToSet(s) => IsInjective(Append(s, t))
  BY <1>1 DEF ToSet, IsInjective
<1> QED
  BY <1>1, <1>2, <1>3, <1>4

\* Reverse keeps the range, and an injective sequence injective.
LEMMA ReverseRange ==
  ASSUME NEW S, NEW s \in Seq(S)
  PROVE  /\ Reverse(s) \in Seq(S)
         /\ ToSet(Reverse(s)) = ToSet(s)
         /\ IsInjective(s) => IsInjective(Reverse(s))
<1> DEFINE n == Len(s)
<1>1. /\ n \in Nat /\ DOMAIN s = 1..n
      /\ Reverse(s) \in Seq(S) /\ DOMAIN Reverse(s) = 1..n
      /\ \A i \in 1..n : n - i + 1 \in 1..n /\ Reverse(s)[i] = s[n - i + 1]
  BY DEF Reverse
<1>2. ToSet(Reverse(s)) \subseteq ToSet(s)
  BY <1>1 DEF ToSet
<1>3. ASSUME NEW x \in ToSet(s)
      PROVE  x \in ToSet(Reverse(s))
  <2>1. PICK i \in 1..n : x = s[i]
    BY <1>1 DEF ToSet
  <2>2. n - i + 1 \in 1..n /\ n - (n - i + 1) + 1 = i
    BY <1>1
  <2> QED
    BY <1>1, <2>1, <2>2 DEF ToSet
<1>4. IsInjective(s) => IsInjective(Reverse(s))
  <2> SUFFICES ASSUME IsInjective(s), NEW i \in 1..n, NEW j \in 1..n,
                      Reverse(s)[i] = Reverse(s)[j]
               PROVE  i = j
    BY <1>1 DEF IsInjective
  <2>1. n - i + 1 = n - j + 1
    BY <1>1 DEF IsInjective
  <2> QED
    BY <1>1, <2>1
<1> QED
  BY <1>1, <1>2, <1>3, <1>4

\* An injective sequence holds its head only once.
LEMMA HeadAndTail ==
  ASSUME NEW S, NEW s \in Seq(S), s # <<>>
  PROVE  /\ Head(s) \in ToSet(s) /\ Head(s) \in S /\ Tail(s) \in Seq(S)
         /\ ToSet(Tail(s)) \subseteq ToSet(s)
         /\ IsInjective(s) => IsInjective(Tail(s)) /\ Head(s) \notin ToSet(Tail(s))
<1>1. /\ Len(s) \in Nat \ {0} /\ DOMAIN s = 1..Len(s)
      /\ Head(s) = s[1] /\ Tail(s) \in Seq(S) /\ DOMAIN Tail(s) = 1..(Len(s) - 1)
      /\ \A i \in 1..(Len(s) - 1) : Tail(s)[i] = s[i + 1] /\ i + 1 \in 1..Len(s)
  OBVIOUS
<1>2. Head(s) \in ToSet(s) /\ Head(s) \in S
  BY <1>1 DEF ToSet
<1>3. ToSet(Tail(s)) \subseteq ToSet(s)
  BY <1>1 DEF ToSet
<1>4. IsInjective(s) => IsInjective(Tail(s))
  <2> SUFFICES ASSUME IsInjective(s),
                      NEW i \in 1..(Len(s) - 1), NEW j \in 1..(Len(s) - 1),
                      s[i + 1] = s[j + 1]
               PROVE  i = j
    BY <1>1 DEF IsInjective
  <2>1. i + 1 = j + 1
    BY <1>1 DEF IsInjective
  <2> QED
    BY <1>1, <2>1
<1>5. IsInjective(s) => Head(s) \notin ToSet(Tail(s))
  <2> SUFFICES ASSUME IsInjective(s), NEW i \in 1..(Len(s) - 1), s[i + 1] = s[1]
               PROVE  FALSE
    BY <1>1 DEF ToSet
  <2>1. i + 1 = 1
    BY <1>1 DEF IsInjective
  <2> QED
    BY <1>1, <2>1
<1> QED
  BY <1>1, <1>2, <1>3, <1>4, <1>5

-----------------------------------------------------------------------------
(* Steps that leave the callbacks and their acknowledgements alone *)

\* The parts of the invariant that are about the callbacks and the counter.
Bookkeeping ==
  /\ shutdownHandlers \in Seq(Tasks) /\ toCall \in Seq(Tasks) /\ called \in Seq(Tasks)
  /\ acks \in [Tasks -> {"none", "due", "counted", "done"}]
  /\ IsFiniteSet(Awaited) /\ shutdownCounter = Cardinality(Awaited)
  /\ CalledOnce /\ ToCallFresh /\ AckersCalled

\* The parts that are about where the tasks are.
Places == NotBefore /\ HeartbeatOver

LEMMA SafeParts ==
  ShutdownSafe <=> ShutdownTypeOK /\ Bookkeeping /\ Places
BY DEF ShutdownSafe, CounterExact, Bookkeeping, Places, ShutdownTypeOK

LEMMA QuietBookkeeping ==
  ASSUME Bookkeeping, UNCHANGED shutdownVars
  PROVE  Bookkeeping'
BY DEF shutdownVars, Bookkeeping, Awaited, CalledOnce, ToCallFresh, AckersCalled

QuietHandlerStep ==
  \/ WaitForRequest \/ ServeMailbox \/ CallbacksDone
  \/ CheckEmpty \/ CheckAcks \/ AwaitAck \/ AckHost

QuietStep ==
  \/ MailboxIrq \/ ShutdownIrq \/ WatchdogIrq \/ SupervisorStep \/ QuietHandlerStep

LEMMA QuietPlaces ==
  ASSUME ShutdownTypeOK, Places, QuietStep
  PROVE  UNCHANGED shutdownVars /\ Places'
<1> USE DEF ShutdownTypeOK, Places, NotBefore, HeartbeatOver, shutdownVars
<1>1. CASE MailboxIrq \/ ShutdownIrq \/ WatchdogIrq
  BY <1>1 DEF MailboxIrq, ShutdownIrq, WatchdogIrq, supervisorVars
<1>2. CASE SupervisorStep
  BY <1>2 DEF SupervisorStep, CheckHeartbeat, Blink
<1>3. CASE QuietHandlerStep
  BY <1>3 DEF QuietHandlerStep, WaitForRequest, ServeMailbox, CallbacksDone, CheckEmpty,
              CheckAcks, AwaitAck, AckHost, AdvanceHandler, supervisorVars
<1> QED
  BY <1>1, <1>2, <1>3 DEF QuietStep

LEMMA QuietTypes ==
  ASSUME ShutdownTypeOK, QuietStep
  PROVE  ShutdownTypeOK'
<1> USE DEF ShutdownTypeOK, shutdownVars, supervisorVars, irqVars
<1>1. CASE MailboxIrq
  <2>1. handlerSlot' \in Slot(NotifyBits)
    BY <1>1 DEF MailboxIrq, Slot, WithBits, NotifyBits
  <2> QED
    BY <1>1, <2>1, ShutdownAssumption DEF MailboxIrq, ShutdownAssumption
<1>2. CASE ShutdownIrq
  <2>1. handlerSlot' \in Slot(NotifyBits)
    BY <1>2 DEF ShutdownIrq, Slot, WithBits, NotifyBits
  <2> QED
    BY <1>2, <2>1 DEF ShutdownIrq
<1>3. CASE WatchdogIrq
  BY <1>3 DEF WatchdogIrq
<1>4. CASE SupervisorStep
  BY <1>4 DEF SupervisorStep, CheckHeartbeat, Blink
<1>5. CASE WaitForRequest \/ AwaitAck
  <2>1. handlerSlot' \in Slot(NotifyBits)
    <3>1. handlerSlot.bits \subseteq NotifyBits
      BY DEF Slot
    <3>2. PICK b \in SUBSET NotifyBits : handlerSlot' = [bits |-> b, pending |-> FALSE]
      BY <1>5, <3>1 DEF WaitForRequest, AwaitAck, Collected
    <3> QED
      BY <3>2 DEF Slot
  <2>2. handlerNote' \subseteq HandlerBits
    BY <1>5 DEF WaitForRequest, AwaitAck
  <2> QED
    BY <1>5, <2>1, <2>2 DEF WaitForRequest, AwaitAck, AdvanceHandler
<1>6. CASE ServeMailbox \/ CallbacksDone \/ CheckEmpty \/ CheckAcks
  BY <1>6 DEF ServeMailbox, CallbacksDone, CheckEmpty, CheckAcks, AdvanceHandler
<1>7. CASE AckHost
  BY <1>7 DEF AckHost, AdvanceHandler
<1> QED
  BY <1>1, <1>2, <1>3, <1>4, <1>5, <1>6, <1>7 DEF QuietStep, QuietHandlerStep

-----------------------------------------------------------------------------
(* Registration and acknowledgements *)

LEMMA AddStep ==
  ASSUME ShutdownTypeOK, Bookkeeping, Places, NEW t \in Tasks, AddShutdownHandler(t)
  PROVE  ShutdownTypeOK' /\ Bookkeeping' /\ Places'
<1> USE DEF AddShutdownHandler
<1>1. /\ shutdownHandlers' \in Seq(Tasks)
      /\ ToSet(shutdownHandlers') = ToSet(shutdownHandlers) \cup {t}
      /\ IsInjective(shutdownHandlers')
  BY AppendRange DEF Bookkeeping, CalledOnce
<1>2. acks[t] = "none"
  BY DEF ShutdownTypeOK, Bookkeeping, AckersCalled
<1>3. Awaited' = Awaited \cup {t} /\ t \notin Awaited
  BY <1>1, <1>2 DEF Awaited
<1>4. /\ IsFiniteSet(Awaited') /\ Cardinality(Awaited) \in Nat
      /\ Cardinality(Awaited') = Cardinality(Awaited) + 1
  BY <1>3, FS_AddElement, FS_CardinalityType DEF Bookkeeping
<1>5. Bookkeeping'
  BY <1>1, <1>4 DEF Bookkeeping, CalledOnce, ToCallFresh, AckersCalled
<1>6. ShutdownTypeOK'
  BY <1>1 DEF ShutdownTypeOK, irqVars, supervisorVars
<1>7. Places'
  BY DEF Places, NotBefore, HeartbeatOver, supervisorVars
<1> QED
  BY <1>5, <1>6, <1>7

LEMMA AckStepSafe ==
  ASSUME ShutdownTypeOK, Bookkeeping, Places, NEW t \in Tasks, AckStep(t)
  PROVE  ShutdownTypeOK' /\ Bookkeeping' /\ Places'
<1>1. CASE CountAck(t)
  <2> USE <1>1 DEF CountAck
  <2>1. t \in Awaited
    BY DEF Bookkeeping, AckersCalled, Awaited
  <2>2. Awaited' = Awaited \ {t}
    BY DEF Bookkeeping, Awaited
  <2>3. /\ IsFiniteSet(Awaited') /\ Cardinality(Awaited') \in Nat
        /\ Cardinality(Awaited') = Cardinality(Awaited) - 1
    BY <2>1, <2>2, FS_RemoveElement, FS_CardinalityType DEF Bookkeeping
  <2>4. Bookkeeping'
    BY <2>3 DEF Bookkeeping, CalledOnce, ToCallFresh, AckersCalled
  <2>5. shutdownCounter' \in Nat
    BY <2>3 DEF Bookkeeping
  <2>6. ShutdownTypeOK'
    BY <2>5 DEF ShutdownTypeOK, irqVars, supervisorVars
  <2>7. Places'
    BY DEF ShutdownTypeOK, Places, NotBefore, HeartbeatOver, supervisorVars
  <2> QED
    BY <2>4, <2>6, <2>7
<1>2. CASE NotifyAck(t)
  <2> USE <1>2 DEF NotifyAck
  <2>1. Awaited' = Awaited
    BY DEF Bookkeeping, Awaited
  <2>2. Bookkeeping'
    BY <2>1 DEF Bookkeeping, CalledOnce, ToCallFresh, AckersCalled
  <2>3. handlerSlot' \in Slot(NotifyBits)
    BY DEF ShutdownTypeOK, Slot, WithBits, NotifyBits
  <2>4. ShutdownTypeOK'
    BY <2>3 DEF ShutdownTypeOK, irqVars, supervisorVars
  <2>5. Places'
    BY DEF ShutdownTypeOK, Places, NotBefore, HeartbeatOver, supervisorVars
  <2> QED
    BY <2>2, <2>4, <2>5
<1> QED
  BY <1>1, <1>2 DEF AckStep

-----------------------------------------------------------------------------
(* The callbacks *)

LEMMA StartStep ==
  ASSUME ShutdownTypeOK, Bookkeeping, Places, StartShutdown
  PROVE  ShutdownTypeOK' /\ Bookkeeping' /\ Places'
<1> USE DEF StartShutdown, AdvanceHandler
<1>1. /\ toCall' \in Seq(Tasks) /\ ToSet(toCall') = ToSet(shutdownHandlers)
      /\ IsInjective(toCall')
  BY ReverseRange DEF Bookkeeping, CalledOnce
<1>2. ToSet(shutdownHandlers) \subseteq Tasks
  BY DEF ShutdownTypeOK, ToSet
<1>3. \A t \in Tasks : acks[t] = "none"
  BY DEF Places, NotBefore
<1>4. Awaited' = Awaited
  BY DEF Awaited
<1>5. Bookkeeping'
  BY <1>1, <1>2, <1>3, <1>4 DEF Bookkeeping, CalledOnce, ToCallFresh, AckersCalled
<1>6. ShutdownTypeOK'
  BY <1>1 DEF ShutdownTypeOK, irqVars, supervisorVars
<1>7. Places'
  BY DEF Places, NotBefore, HeartbeatOver, supervisorVars
<1> QED
  BY <1>5, <1>6, <1>7

LEMMA CallStep ==
  ASSUME ShutdownTypeOK, Bookkeeping, Places, CallHandler
  PROVE  ShutdownTypeOK' /\ Bookkeeping' /\ Places'
<1> DEFINE t == Head(toCall)
<1> USE DEF CallHandler, AdvanceHandler, Invoke
<1>1. /\ t \in ToSet(toCall) /\ t \in Tasks /\ toCall' \in Seq(Tasks)
      /\ ToSet(toCall') \subseteq ToSet(toCall)
      /\ IsInjective(toCall') /\ t \notin ToSet(toCall')
  BY HeadAndTail DEF Bookkeeping, CalledOnce
<1>2. called' \in Seq(Tasks) /\ ToSet(called') = ToSet(called) \cup {t}
  BY <1>1, AppendRange DEF Bookkeeping
<1>3. acks' = [acks EXCEPT ![t] = "due"] /\ acks[t] = "none" /\ t \in ToSet(shutdownHandlers)
  BY <1>1 DEF Bookkeeping, ToCallFresh
<1> HIDE DEF t
<1>4. Awaited' = Awaited
  <2>1. \A u \in ToSet(shutdownHandlers) : u \in Tasks
    BY DEF ShutdownTypeOK, ToSet
  <2> QED
    BY <1>1, <1>3, <2>1 DEF Bookkeeping, Awaited
<1>5. \A u \in ToSet(toCall) : u \in Tasks
  BY DEF ShutdownTypeOK, ToSet
<1>6. Bookkeeping'
  <2>1. acks' \in [Tasks -> {"none", "due", "counted", "done"}]
    BY <1>1, <1>3 DEF Bookkeeping
  <2>2. CalledOnce'
    BY <1>1 DEF Bookkeeping, CalledOnce
  <2>3. ToCallFresh'
    BY <1>1, <1>3, <1>5 DEF Bookkeeping, ToCallFresh
  <2>4. AckersCalled'
    BY <1>1, <1>2, <1>3 DEF Bookkeeping, AckersCalled
  <2> QED
    BY <1>1, <1>2, <1>4, <2>1, <2>2, <2>3, <2>4 DEF Bookkeeping
<1>7. ShutdownTypeOK'
  <2>1. isHeartbeatEnabled' \in BOOLEAN
    BY DEF ShutdownTypeOK
  <2> QED
    BY <1>6, <2>1 DEF ShutdownTypeOK, Bookkeeping, irqVars
<1>8. Places'
  <2>1. t = Supervisor => ~isHeartbeatEnabled'
    BY DEF t
  <2>2. isHeartbeatEnabled' => isHeartbeatEnabled
    BY DEF ShutdownTypeOK
  <2> QED
    BY <1>1, <1>3, <2>1, <2>2 DEF ShutdownTypeOK, Places, NotBefore, HeartbeatOver, Tasks
<1> QED
  BY <1>6, <1>7, <1>8

-----------------------------------------------------------------------------
(* Theorems *)

\* The inductive invariant: tasks are called once each, after the shutdown was seen and
\* before they acknowledge, and the counter is the number of those awaited.
THEOREM Safe == ShutdownSpec => []ShutdownSafe
<1>1. ShutdownInit => ShutdownSafe
  <2> SUFFICES ASSUME ShutdownInit PROVE ShutdownTypeOK /\ Bookkeeping /\ Places
    BY SafeParts
  <2> USE DEF ShutdownInit
  <2>1. Supervisor \in Tasks /\ handlerSlot \in Slot(NotifyBits)
    BY DEF Tasks, Slot, NoNotification
  <2>2. ToSet(shutdownHandlers) = {Supervisor} /\ ToSet(toCall) = {}
    BY DEF ToSet
  <2>3. Awaited = {} \cup {Supervisor}
    BY <2>1, <2>2 DEF Awaited
  <2>4. IsFiniteSet(Awaited) /\ Cardinality(Awaited) = 1
    <3>1. Supervisor \notin {} /\ IsFiniteSet({}) /\ Cardinality({}) = 0
      BY FS_EmptySet
    <3> QED
      BY ONLY <2>3, <3>1, FS_AddElement
  <2>5. CalledOnce /\ ToCallFresh /\ AckersCalled
    BY <2>2 DEF CalledOnce, ToCallFresh, AckersCalled, IsInjective
  <2>6. ShutdownTypeOK
    <3>1. /\ acks \in [Tasks -> {"none", "due", "counted", "done"}]
          /\ irqs \in 0..MaxIrqs
      BY ShutdownAssumption DEF ShutdownAssumption
    <3>2. /\ shutdownHandlers \in Seq(Tasks) /\ shutdownCounter \in Nat
          /\ toCall \in Seq(Tasks) /\ called \in Seq(Tasks)
      BY <2>1
    <3> QED
      BY <2>1, <3>1, <3>2 DEF ShutdownTypeOK
  <2>7. Places
    BY <2>1 DEF Places, NotBefore, HeartbeatOver
  <2> QED
    BY <2>4, <2>5, <2>6, <2>7 DEF Bookkeeping, ShutdownTypeOK
<1>2. ShutdownSafe /\ [ShutdownNext]_shutdownAllVars => ShutdownSafe'
  <2> SUFFICES ASSUME ShutdownTypeOK, Bookkeeping, Places, [ShutdownNext]_shutdownAllVars
               PROVE  ShutdownTypeOK' /\ Bookkeeping' /\ Places'
    BY SafeParts, PTL
  <2>1. CASE QuietStep
    BY <2>1, QuietPlaces, QuietTypes, QuietBookkeeping
  <2>2. ASSUME NEW t \in Tasks, AddShutdownHandler(t) \/ AckStep(t)
        PROVE  ShutdownTypeOK' /\ Bookkeeping' /\ Places'
    BY <2>2, AddStep, AckStepSafe
  <2>3. CASE StartShutdown \/ CallHandler
    BY <2>3, StartStep, CallStep
  <2>4. CASE UNCHANGED shutdownAllVars
    <3>1. UNCHANGED shutdownVars
      BY <2>4 DEF shutdownAllVars, irqVars, supervisorVars, shutdownVars
    <3> QED
      BY <2>4, <3>1, QuietBookkeeping
         DEF shutdownAllVars, irqVars, supervisorVars, ShutdownTypeOK, Places, NotBefore, HeartbeatOver, shutdownVars
  <2> QED
    BY <2>1, <2>2, <2>3, <2>4 DEF ShutdownNext, MessageHandlerStep, QuietStep,
       QuietHandlerStep
<1> QED
  BY <1>1, <1>2, PTL DEF ShutdownSpec

\* The counter that decides when the firmware may be turned off is never off by one, and
\* never wraps below zero, whatever the order in which tasks register and acknowledge.
THEOREM CounterIsExact == ShutdownSpec => []CounterExact
<1>1. ShutdownSafe => CounterExact
  BY DEF ShutdownSafe
<1> QED
  BY <1>1, Safe, PTL

\* The host is told to turn the firmware off only after every registered task was called
\* and has acknowledged.
THEOREM HostToldLast == ShutdownSpec => AckedByAll
<1>1. /\ ShutdownSafe /\ [ShutdownNext]_shutdownAllVars
      => (stage # "ackHost" /\ stage' = "ackHost" =>
            \A t \in ToSet(shutdownHandlers) :
              t \in ToSet(called) /\ acks[t] \in {"counted", "done"})
  <2> SUFFICES ASSUME ShutdownSafe, [ShutdownNext]_shutdownAllVars, stage # "ackHost", stage' = "ackHost",
                      NEW t \in ToSet(shutdownHandlers)
               PROVE  t \in ToSet(called) /\ acks[t] \in {"counted", "done"}
    OBVIOUS
  <2>1. CheckEmpty \/ CheckAcks
    BY DEF ShutdownNext, shutdownAllVars, irqVars, supervisorVars, MailboxIrq, ShutdownIrq,
       WatchdogIrq, SupervisorStep, CheckHeartbeat, Blink, AddShutdownHandler, AckStep,
       CountAck, NotifyAck, MessageHandlerStep, AdvanceHandler, WaitForRequest,
       ServeMailbox, StartShutdown, CallHandler, CallbacksDone, AwaitAck, AckHost
  <2>2. Awaited = {}
    <3>1. CASE CheckEmpty
      BY <2>1, <3>1 DEF CheckEmpty, AdvanceHandler, ToSet
    <3>2. CASE CheckAcks
      <4>1. shutdownCounter = 0
        BY <3>2 DEF CheckAcks, AdvanceHandler
      <4> QED
        BY <4>1, FS_EmptySet DEF ShutdownSafe, CounterExact
    <3> QED
      BY <2>1, <3>1, <3>2
  <2>3. t \in Tasks
    BY DEF ShutdownSafe, CounterExact, ShutdownTypeOK, ToSet
  <2>4. acks[t] \in {"counted", "done"}
    BY <2>2 DEF Awaited
  <2> QED
    BY <2>3, <2>4 DEF ShutdownSafe, AckersCalled
<1> QED
  BY <1>1, Safe, PTL DEF ShutdownSpec, AckedByAll

\* Once the supervisor was told to shut down, no heartbeat that was under way hides the
\* LED's colour of the shutdown.
THEOREM HeartbeatIsOver == ShutdownSpec => HeartbeatStops
<1>1. ShutdownSafe /\ [ShutdownNext]_shutdownAllVars => (acks[Supervisor] # "none" => led' \in {led, "Off"})
  <2> SUFFICES ASSUME ShutdownSafe, [ShutdownNext]_shutdownAllVars, acks[Supervisor] # "none"
               PROVE  led' \in {led, "Off"}
    OBVIOUS
  <2>1. ~Blink
    BY DEF ShutdownSafe, HeartbeatOver, Blink
  <2>2. ~StartShutdown
    BY DEF ShutdownSafe, NotBefore, StartShutdown, AdvanceHandler, Tasks
  <2> QED
    BY <2>1, <2>2
       DEF ShutdownNext, shutdownAllVars, irqVars, supervisorVars, MailboxIrq, ShutdownIrq,
          WatchdogIrq, SupervisorStep, CheckHeartbeat, AddShutdownHandler, AckStep,
          CountAck, NotifyAck, MessageHandlerStep, WaitForRequest, ServeMailbox,
          CallHandler, CallbacksDone, CheckEmpty, CheckAcks, AwaitAck, AckHost
<1> QED
  BY <1>1, Safe, PTL DEF ShutdownSpec, HeartbeatStops

=============================================================================
