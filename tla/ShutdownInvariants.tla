------------------------- MODULE ShutdownInvariants -------------------------
(***************************************************************************)
(* Why the counter of acknowledgements can be trusted: the inductive       *)
(* invariant behind CounterExact, AckedByAll and HeartbeatStops.           *)
(***************************************************************************)
EXTENDS Shutdown

\* No task registers twice, and no callback is left twice in the loop.
CalledOnce ==
  /\ IsInjective(shutdownHandlers)
  /\ IsInjective(toCall)

\* A callback that the loop has yet to invoke is registered, and its task was not
\* told to shut down before.
ToCallFresh ==
  \A t \in ToSet(toCall) : t \in ToSet(shutdownHandlers) /\ acks[t] = "none"

\* Only a task that was called acknowledges.
AckersCalled ==
  \A t \in Tasks : acks[t] # "none" => t \in ToSet(called) /\ t \in ToSet(shutdownHandlers)

\* Nobody is called before the shutdown was seen.
NotBefore ==
  stage \in {"wait", "serve", "warn"} => \A t \in Tasks : acks[t] = "none"

\* No heartbeat is under way after the supervisor's callback.
HeartbeatOver ==
  acks[Supervisor] # "none" => ~isHeartbeatEnabled /\ supervisor # "blink"

ShutdownSafe ==
  /\ IsFiniteSet(Awaited) /\ CounterExact
  /\ CalledOnce /\ ToCallFresh /\ AckersCalled /\ NotBefore /\ HeartbeatOver

=============================================================================
