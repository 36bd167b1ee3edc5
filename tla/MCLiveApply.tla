----------------------------- MODULE MCLiveApply -----------------------------
(* A small instance of LiveApply for TLC. *)
EXTENDS LiveApply
=============================================================================
