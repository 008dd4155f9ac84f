------------------------------ MODULE Endpoint ------------------------------
(***************************************************************************)
(* The base class of every rpmsg endpoint handler                          *)
(* (Rpc/Endpoints/Handler.h): it remembers whether the host has sent       *)
(* anything yet, and lets tasks block until it has.  A task that is woken  *)
(* gives the binary semaphore back, so one message releases every waiter.  *)
(***************************************************************************)

VARIABLES
  hasReceivedMsg,   \* at least one message has arrived on this endpoint
  msgRxSem          \* the binary semaphore is available

EndpointTypeOK == hasReceivedMsg \in BOOLEAN /\ msgRxSem \in BOOLEAN

EndpointInit == hasReceivedMsg = FALSE /\ msgRxSem = FALSE

\* Endpoint::handleMessage: test-and-set the flag; the first message gives the
\* semaphore.
MessageSeen ==
  /\ hasReceivedMsg' = TRUE
  /\ msgRxSem' = (msgRxSem \/ ~hasReceivedMsg)

\* A faulty variant of TakeRxSem: the semaphore is not passed on.
TakeRxSemForGood == msgRxSem /\ msgRxSem' = FALSE /\ UNCHANGED hasReceivedMsg

\* The blocking half of waitForRemote: take the semaphore, then give it back for
\* the next waiter.
TakeRxSem ==
  /\ msgRxSem
  /\ msgRxSem' = TRUE
  /\ UNCHANGED hasReceivedMsg

=============================================================================
