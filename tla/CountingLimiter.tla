-------------------------- MODULE CountingLimiter --------------------------
(***************************************************************************)
(* What a concurrency limiter promises: a set of members and a cap that    *)
(* may change at any time.  Members leave freely; members join only while  *)
(* the cap in force after the step has room for everyone inside.  A cap    *)
(* lowered under its members admits nobody until enough of them have left. *)
(***************************************************************************)
EXTENDS Naturals, FiniteSets

CONSTANT Callers
VARIABLES cap, members

Fits(n) == cap' = 0 \/ n <= cap'

Init == cap \in Nat /\ members = {}

Step == /\ cap' \in Nat
        /\ members' \subseteq Callers
        /\ \/ members' \subseteq members
           \/ Fits(Cardinality(members'))

Spec == Init /\ [][Step]_<<cap, members>>
=============================================================================
