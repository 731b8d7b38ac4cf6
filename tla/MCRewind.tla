------------------------------ MODULE MCRewind ------------------------------
(* Two or three short turns of one thread. *)
EXTENDS Rewind
=============================================================================
