-------------------------- MODULE MCSchemaUpgrade --------------------------
(* A small instance of SchemaUpgrade for TLC. *)
EXTENDS SchemaUpgrade, TLC
Symmetry == Permutations(Runs) \union Permutations(Actors) \union Permutations(Operations)
=============================================================================
