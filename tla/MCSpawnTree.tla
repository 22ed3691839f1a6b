---------------------------- MODULE MCSpawnTree ----------------------------
(* Three levels, wider than both limits: the shape of issue #3749. *)
EXTENDS SpawnTree, SequencesExt

CONSTANTS root, a1, a2, b1, b2, b3

MCAgents == {root, a1, a2, b1, b2, b3}
MCChildren ==
  [a \in MCAgents |-> CASE a = root -> <<a1, a2>>
                        [] a = a1 -> <<b1, b2>>
                        [] a = a2 -> <<b3>>
                        [] OTHER -> <<>>]

\* The closed form of AcquireAll agrees with one Acquire after the other, for
\* every semaphore on which nobody waits while a slot is free.
ASSUME AcquireAllIsFold ==
  \A max \in 0..3, current \in 0..4 :
    \A queue \in {<<>>, <<b1>>, <<b1, b2>>}, cs \in {<<>>, <<a1>>, <<a1, a2>>, <<a1, a2, b3>>} :
      LET s == [max |-> max, current |-> current, queue |-> queue]
      IN  ~HasRoom(s) \/ queue = <<>> =>
            AcquireAll(s, cs) = FoldLeft(Acquire, s, cs)

\* WithdrawAll is one listener after the other, in any order.
ASSUME WithdrawAllIsFold ==
  \A queue \in {<<>>, <<b1>>, <<b2, b1>>, <<a1, b1, a2, b2>>}, D \in SUBSET MCAgents :
    LET s == [max |-> 1, current |-> 1, queue |-> queue]
    IN  \A cs \in SetToSeqs(D) : WithdrawAll(s, D) = FoldLeft(Withdraw, s, cs)
=============================================================================
