-------------------------- MODULE MCCollabSession --------------------------
(* A host with a small buffer, one guest that may write and one that may not. *)
EXTENDS CollabSession
=============================================================================
