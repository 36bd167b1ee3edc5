------------------------------ MODULE MCDrafts ------------------------------
(* Small instances of Drafts for TLC. *)
EXTENDS Drafts, TLC
CONSTANTS w1, w2, c1, c2, alice, o1, o2
OnePrincipal == [w \in Callers |-> alice]
\* The two contents replace different modules.
Sources == [c \in Contents |-> IF c = c1 THEN "module" ELSE "other"]
Symmetry == Permutations({w1, w2}) \union Permutations(Operations \ Foreign)
\* Bounds for histories of three revisions: up to the first one rights are revoked and operation
\* ids of other workflows are tried, and a client is done once it has read a history.
Bounds ==
    /\ \/ grants[alice] = {"project:read", "source:edit"}
       \/ grants[alice] # {} /\ \A d \in Drafts : heads[d] <= 1
    /\ \A w \in Callers : calls[w].operation \in Foreign => \A d \in Drafts : heads[d] <= 1
    /\ \A r \in Readers : readers[r].draft # NoDraft => readers[r].before > 0
=============================================================================
