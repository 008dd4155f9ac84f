----------------------------- MODULE Frequencies -----------------------------
(***************************************************************************)
(* The drivers that divide a clock: the timer/counters (TimerCounter), and *)
(* the baud rate of the serial ports (Spi, I2C).                           *)
(*                                                                         *)
(* Frequencies are in Hz and stay below 2^21, so that no product of one    *)
(* with a prescaler exceeds 32 bits.                                       *)
(***************************************************************************)
EXTENDS Integers, FiniteSets

CONSTANTS
  Units,          \* timer/counters
  InputClock,     \* frequency of the clock of a timer or port
  Frequencies,    \* frequencies that are asked for
  Duties,         \* duty cycles, in percent
  MaxTunings      \* bound on the calls that change a timer or a port

VARIABLES
  gInitialized,   \* units whose bit is set
  timer,          \* the timers' registers and their drivers' state
  sercom,         \* the port's BAUD register, and the frequency asked for
  panicked,       \* has a REQUIRE failed?
  tunings         \* number of calls

frequencyVars == <<gInitialized, timer, sercom, panicked, tunings>>

-----------------------------------------------------------------------------
(* Types *)

\* The prescaler of each code of CTRLA.PRESCALER.
Prescaler(code) == <<1, 2, 4, 8, 16, 64, 256, 1024>>[code + 1]
PrescalerCodes == 0..7
Periods == 0..255

IdleTimer == [constructed |-> FALSE, enabled |-> FALSE, running |-> FALSE, code |-> 0,
              period |-> 255, compare |-> 0, wanted |-> 0, retuned |-> FALSE]

Timer == [constructed : BOOLEAN, enabled : BOOLEAN, running : BOOLEAN,
          code : PrescalerCodes, period : Periods, compare : Periods,
          wanted : Nat, retuned : BOOLEAN]

\* No frequency that is asked for is zero, and duty cycles are whole numbers.
FrequencyConstants ==
  /\ InputClock \in Nat
  /\ Frequencies \subseteq Nat \ {0}
  /\ Duties \subseteq Int
  /\ MaxTunings \in Nat

FrequencyTypeOK ==
  /\ gInitialized \subseteq Units
  /\ timer \in [Units -> Timer]
  /\ sercom \in [baud : Periods, wanted : Nat]
  /\ panicked \in BOOLEAN /\ tunings \in 0..MaxTunings

-----------------------------------------------------------------------------
(* CalculateFrequency *)

Output(code, period) == InputClock \div (Prescaler(code) * (period + 1))

\* A subtraction from 0 wraps around, and is far above 255.
RequiredPeriod(f, code) == (InputClock \div (f * Prescaler(code))) - 1

Attainable(f) == {code \in PrescalerCodes : RequiredPeriod(f, code) \in Periods}

Distance(f, code) ==
  LET diff == Output(code, RequiredPeriod(f, code)) - f IN IF diff < 0 THEN -diff ELSE diff

\* A faulty variant of BestCode: the least error is not remembered.
LastCode(f) == CHOOSE code \in Attainable(f) : \A other \in Attainable(f) : other <= code

\* The first of the prescalers with the least error.
BestCode(f) ==
  CHOOSE code \in Attainable(f) :
    \A other \in Attainable(f) :
      \/ Distance(f, code) < Distance(f, other)
      \/ Distance(f, code) = Distance(f, other) /\ code <= other

\* Bitwise or of two codes.
BitwiseOr(a, b) ==
  LET bit(n, weight) == (n \div weight) % 2
      or(weight) == IF bit(a, weight) = 1 \/ bit(b, weight) = 1 THEN weight ELSE 0
  IN  or(1) + or(2) + or(4)

-----------------------------------------------------------------------------
(* The timers *)

TimerCall == ~panicked /\ tunings < MaxTunings /\ tunings' = tunings + 1

\* A timer after applyConfiguration, enabled: prescaler, period and compare values.
Applied(f, compare) ==
  [constructed |-> TRUE, enabled |-> TRUE, running |-> TRUE, code |-> BestCode(f),
   period |-> RequiredPeriod(f, BestCode(f)), compare |-> compare, wanted |-> f,
   retuned |-> FALSE]

\* The constructor leaves every bit of gInitialized set but its own.
ConstructTimer(u, f, compare) ==
  /\ TimerCall
  /\ ~timer[u].constructed
  /\ IF u \in gInitialized \/ Attainable(f) = {}
     THEN panicked' = TRUE /\ UNCHANGED <<gInitialized, timer>>
     ELSE /\ timer' = [timer EXCEPT ![u] = Applied(f, compare)]
          /\ gInitialized' = gInitialized \cup (Units \ {u})
          /\ UNCHANGED panicked
  /\ UNCHANGED sercom

DestroyTimer(u) ==
  /\ ~panicked /\ timer[u].constructed
  /\ timer' = [timer EXCEPT ![u] = IdleTimer]
  /\ gInitialized' = gInitialized \ {u}
  /\ UNCHANGED <<sercom, panicked, tunings>>

\* enable and disable do nothing if the driver believes it is done.
SetEnabled(u, on) ==
  /\ ~panicked /\ timer[u].constructed
  /\ timer[u].enabled # on
  /\ timer' = [timer EXCEPT ![u].enabled = on, ![u].running = on]
  /\ UNCHANGED <<gInitialized, sercom, panicked, tunings>>

\* The prescaler's bits are added to those that are set.
Retuned(t, f) ==
  [t EXCEPT !.code = BitwiseOr(t.code, BestCode(f)), !.period = RequiredPeriod(f, BestCode(f)),
            !.wanted = f, !.retuned = TRUE]

\* setFrequency stops a timer that runs for the change.
SetFrequency(u, f) ==
  /\ TimerCall
  /\ timer[u].constructed
  /\ IF Attainable(f) = {} THEN panicked' = TRUE /\ UNCHANGED timer
     ELSE /\ timer' = [timer EXCEPT ![u] = Retuned(timer[u], f)]
          /\ UNCHANGED panicked
  /\ UNCHANGED <<gInitialized, sercom>>

\* setDutyCycle of one of the lines; the duty is clamped.
SetDutyCycle(u, duty) ==
  /\ TimerCall
  /\ timer[u].constructed
  /\ LET clamped == IF duty < 0 THEN 0 ELSE IF duty > 100 THEN 100 ELSE duty IN
     timer' = [timer EXCEPT ![u].compare = (timer[u].period * clamped) \div 100]
  /\ UNCHANGED <<gInitialized, sercom, panicked>>

-----------------------------------------------------------------------------
(* The serial ports *)

Baud(f) == (InputClock \div (2 * f)) - 1

UpdateFreq(f) ==
  /\ TimerCall
  /\ IF Baud(f) \notin Periods THEN panicked' = TRUE /\ UNCHANGED sercom
     ELSE sercom' = [baud |-> Baud(f), wanted |-> f] /\ UNCHANGED panicked
  /\ UNCHANGED <<gInitialized, timer>>

-----------------------------------------------------------------------------
(* Specification *)

FrequencyInit ==
  /\ gInitialized = {}
  /\ timer = [u \in Units |-> IdleTimer]
  /\ sercom = [baud |-> 0, wanted |-> 0]
  /\ panicked = FALSE /\ tunings = 0

FrequencyNext ==
  \/ \E u \in Units :
       \/ \E f \in Frequencies : ConstructTimer(u, f, 0) \/ SetFrequency(u, f)
       \/ DestroyTimer(u)
       \/ \E on \in BOOLEAN : SetEnabled(u, on)
       \/ \E duty \in Duties : SetDutyCycle(u, duty)
  \/ \E f \in Frequencies : UpdateFreq(f)

FrequencySpec == FrequencyInit /\ [][FrequencyNext]_frequencyVars

-----------------------------------------------------------------------------
(* Properties *)

\* A timer that has been constructed runs at the lowest frequency of all prescalers and
\* periods that is not below the one asked for ("whichever one has the least error" in
\* CalculateFrequency, of one period for each prescaler, none of which errs downwards).
\* A timer whose frequency has been changed is left out: its prescaler is wrong.
TimerRoundedUp ==
  \A u \in Units :
    timer[u].constructed /\ ~timer[u].retuned =>
      LET actual == Output(timer[u].code, timer[u].period) IN
      /\ actual >= timer[u].wanted
      /\ \A code \in PrescalerCodes, period \in Periods :
           Output(code, period) >= timer[u].wanted => Output(code, period) >= actual

\* The clock of a serial port runs at the lowest frequency of all values of the register
\* that is not below the one asked for: UpdateSckFreq and UpdateFreq round the divisor
\* down, and the frequency with it up.
PortRoundedUp ==
  sercom.wanted # 0 =>
    LET Actual(baud) == InputClock \div (2 * (baud + 1)) IN
    /\ Actual(sercom.baud) >= sercom.wanted
    /\ \A baud \in Periods : Actual(baud) >= sercom.wanted => Actual(baud) >= Actual(sercom.baud)

\* What the timers and the ports make of the frequencies they are asked for; their state
\* is well typed.
FrequenciesRoundedUp == FrequencyTypeOK /\ TimerRoundedUp /\ PortRoundedUp

\* "If the exact frequency cannot be achieved, the calculation will round down"
\* (UpdateSckFreq and UpdateFreq): a port is not clocked faster than it was asked for.
PortRoundsDown ==
  sercom.wanted # 0 => InputClock \div (2 * (sercom.baud + 1)) <= sercom.wanted

=============================================================================
