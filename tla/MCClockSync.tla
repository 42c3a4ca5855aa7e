---------------------------- MODULE MCClockSync ----------------------------
(***************************************************************************)
(* Two peers, the first of which never answers.                            *)
(***************************************************************************)
EXTENDS ClockSync
=============================================================================
