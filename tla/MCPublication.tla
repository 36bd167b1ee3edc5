--------------------------- MODULE MCPublication ---------------------------
(* Small instances of Publication for TLC. *)
EXTENDS Publication, TLC
WriterSymmetry == Permutations(Writers) \union Permutations(Operations)
                  \union Permutations(Generations) \union Permutations(Contents)
\* A bound for three publications in a row: only before the first, only one caller, and only
\* its analysis:run is revoked.
EarlyRevocation ==
    LET revoked == {w \in Writers : grants[w] # Permissions}
    IN \/ revoked = {}
       \/ /\ head.revision = 0 /\ Cardinality(revoked) = 1
          /\ \A w \in Writers : grants[w] # {}
=============================================================================
