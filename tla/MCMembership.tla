---------------------------- MODULE MCMembership ----------------------------
(* Small instances of Membership for TLC. *)
EXTENDS Membership, TLC
CONSTANTS p1, p2, p3
Symmetry == Permutations(Callers) \union Permutations(Operations)
Asks(actor_, target_, permissions_) ==
    [actor |-> actor_, target |-> target_, permissions |-> permissions_]
\* Local administrators p1 and p2 and a remote one, p3, appear and turn on each other.
Rivals ==
    {Asks(p1, p2, Effective), Asks(p1, p3, Effective),
     Asks(p2, p1, NoMember), Asks(p3, p1, NoMember), Asks(p3, p3, {"project:read"})}
=============================================================================
