--------------------------- MODULE MCJobDelivery ----------------------------
(* Jobs of one session with the job tool and bash. *)
EXTENDS JobDelivery
=============================================================================
