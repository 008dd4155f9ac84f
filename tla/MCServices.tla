----------------------------- MODULE MCServices -----------------------------
(* Instances of the two services together for TLC. *)
EXTENDS ServicesProofs

CONSTANTS t1, t2

TwoClients == {t1, t2}
OneForm == {[body |-> "match", decodes |-> TRUE]}

=============================================================================
