----------------------------- MODULE MCObserver -----------------------------
(* A small instance of Observer for TLC. *)
EXTENDS Observer, TLC
\* The other publishers' operations are numbered after the observer's.
OtherOperations == {MaxJobs + 1}
=============================================================================
