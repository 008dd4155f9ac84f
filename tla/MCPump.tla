------------------------------- MODULE MCPump -------------------------------
(* Instances of the message pump for TLC. *)
EXTENDS PumpInvariants

CONSTANTS t1, t2

OneClient == {t1}
TwoClients == {t1, t2}

=============================================================================
