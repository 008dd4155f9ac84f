------------------------------ MODULE MCResMgr ------------------------------
(* Instances of the resource manager service for TLC. *)
EXTENDS ResMgrInvariants

CONSTANTS t1, t2

TwoClients == {t1, t2}

=============================================================================
