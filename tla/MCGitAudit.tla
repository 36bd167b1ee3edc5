----------------------------- MODULE MCGitAudit -----------------------------
(* Small instances of GitAudit for TLC. *)
EXTENDS GitAudit, TLC
CONSTANTS c1, c2, c3
\* c2 and c3 both come after c1: from one to the other, history is rewritten.
Fork(base, tip) == base = tip \/ base = c1
=============================================================================
