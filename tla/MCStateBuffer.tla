---------------------------- MODULE MCStateBuffer ----------------------------
(* One call more than the batch has rows. *)
EXTENDS PlayerBatch
=============================================================================
