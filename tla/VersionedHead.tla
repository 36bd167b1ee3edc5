---------------------------- MODULE VersionedHead ----------------------------
(***************************************************************************)
(* What publication promises its callers: one project head that moves by   *)
(* compare-and-set.  An operation moves it at most once, from exactly the  *)
(* head it names, in one indivisible step that also leaves the receipt;    *)
(* the administrator's source configuration advances independently.  There *)
(* are no writers, files, transactions or failures here.                   *)
(***************************************************************************)
EXTENDS Integers

CONSTANTS Operations, Snapshots, NoSnapshot

VARIABLES head, receipts

promised == <<head, receipts>>

Init ==
    /\ head = [revision |-> 0, snapshot |-> NoSnapshot, source |-> 1]
    /\ receipts = {}

Publish(o, s) ==
    /\ \A r \in receipts : r.operation # o
    /\ head' = [revision |-> head.revision + 1, snapshot |-> s, source |-> head.source]
    /\ receipts' = receipts \union
         {[operation |-> o, expected |-> head, snapshot |-> s, revision |-> head.revision + 1]}

Reconfigure ==
    /\ head' = [head EXCEPT !.source = @ + 1]
    /\ UNCHANGED receipts

Next == Reconfigure \/ \E o \in Operations, s \in Snapshots : Publish(o, s)

Spec == Init /\ [][Next]_promised
=============================================================================
