------------------------------ MODULE MCConfd -------------------------------
(* Instances of the configuration service for TLC. *)
EXTENDS ConfdInvariants, TLC

CONSTANTS t1, t2, t3

TwoClients == {t1, t2}
ThreeClients == {t1, t2, t3}

\* Replies that decode, and a smaller choice for the runs where what a reply
\* says does not matter.
WellFormed == [body : Bodies, decodes : {TRUE}]
OneForm == {[body |-> "match", decodes |-> TRUE]}

ClientSymmetry == Permutations(Clients)

=============================================================================
