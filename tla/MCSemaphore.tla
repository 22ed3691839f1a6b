---------------------------- MODULE MCSemaphore ----------------------------
(* Instance of Semaphore for TLC: the raw limits hold an "unlimited" value   *)
(* (a negative setting) and two finite ceilings below the number of callers. *)
EXTENDS Semaphore

MCLimits == {-1, 1, 2}
=============================================================================
