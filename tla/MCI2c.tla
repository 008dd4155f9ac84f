------------------------------- MODULE MCI2c --------------------------------
(* Instances of the I2C bus behind its switch for TLC. *)
EXTENDS I2cInvariants

CONSTANTS t1, t2

TwoTasks == {t1, t2}

W(n) == [read |-> FALSE, continuation |-> FALSE, skipRestart |-> FALSE, length |-> n]
R(n) == [W(n) EXCEPT !.read = TRUE]
Then(txn) == [txn EXCEPT !.continuation = TRUE]
Skip(txn) == [Then(txn) EXCEPT !.skipRestart = TRUE]

\* The shapes of the lists that the device drivers pass, several transactions
\* in one list, and a list that is refused.  A read of two bytes or more is never
\* followed by a continuation.
Lists == {<<W(1), Then(R(3))>>, <<W(2), Skip(W(1))>>,
          <<R(1), R(1), Then(W(1)), R(2)>>, <<Then(W(1))>>}
DirectLists == {<<W(1), Then(R(2))>>}

\* What CallsAreCarriedOut (I2cProofs) assumes of them.
ASSUME ListsSupported == \A txns \in Requests \cup Direct : Supported(txns)

=============================================================================
