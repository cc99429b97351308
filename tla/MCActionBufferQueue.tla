------------------------ MODULE MCActionBufferQueue ------------------------
(***************************************************************************)
(* Two clients and two workers on a ring of 2 * 2 slots that wraps.        *)
(***************************************************************************)
EXTENDS ActionBufferQueue
=============================================================================
