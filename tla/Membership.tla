----------------------------- MODULE Membership -----------------------------
(***************************************************************************)
(* Project access: audited changes of memberships with an operation id and *)
(* an expected administrative revision (src/rentgen_core/authorization.py, *)
(* src/rentgen_core/access.py).  Several administrators act at once, each  *)
(* in a call of its own; a call is one write transaction and, when its     *)
(* result is uncertain, one read transaction that looks for its receipt.   *)
(***************************************************************************)
EXTENDS Integers, Sequences

CONSTANTS
    Callers,
    Principals,
    Local,        \* principals of authority local_os
    Owner,        \* who registered the project
    Operations,
    NoOperation,
    NoRequest,
    NoMember,     \* no membership row; as a requested value, a revocation
    Changes,      \* what the callers ask for: actor, target, permissions
    MaxRevision   \* 2^63-1 in the code

ASSUME PrincipalAssumption == Local \subseteq Principals /\ Owner \in Local
ASSUME RevisionAssumption == MaxRevision \in Nat
ASSUME NullAssumption == NoOperation \notin Operations

VARIABLES
    access,    \* memberships and their permissions
    receipts,  \* project_action_receipts in the order of their sequence
    calls      \* the volatile state of each caller

vars == <<access, receipts, calls>>

Effective == {"project:read", "project:admin"}
\* A set needs project:read; the other permissions do not interact with this one.
PermissionSets == {{"project:read"}, Effective}
ASSUME MemberAssumption == NoMember \notin PermissionSets
Memberships == PermissionSets \union {NoMember}
ASSUME ChangeAssumption ==
    Changes \subseteq [actor: Principals, target: Principals, permissions: Memberships]

RequestOf(change, expected) ==
    [actor |-> change.actor, target |-> change.target, permissions |-> change.permissions,
     expected |-> expected]
Request == {RequestOf(change, expected) : change \in Changes, expected \in 0..(MaxRevision - 1)}
Receipt == [operation: Operations, request: Request, before: Memberships, after: Memberships]
Errors == {"PROJECT_FORBIDDEN", "OPERATION_CONFLICT", "MEMBERSHIP_CONFLICT",
           "MEMBERSHIP_SELF_LOCKOUT", "MEMBERSHIP_LAST_ADMIN", "MEMBERSHIP_LAST_LOCAL_ADMIN",
           "MEMBERSHIP_INVALID", "STATE_UNAVAILABLE"}
Outcomes == Errors \union {"none", "committed", "crashed", "MEMBERSHIP_OUTCOME_UNKNOWN"}
Calls == [pc: {"idle", "transaction", "reconcile", "done"}, operation: Operations \union {NoOperation},
          request: Request \union {NoRequest}, applied: BOOLEAN, outcome: Outcomes]

Init ==
    /\ access = [p \in Principals |-> IF p = Owner THEN Effective ELSE NoMember]
    /\ receipts = << >>
    /\ calls = [w \in Callers |-> [pc |-> "idle", operation |-> NoOperation,
                                   request |-> NoRequest, applied |-> FALSE, outcome |-> "none"]]

-----------------------------------------------------------------------------
Administers(membership) == membership # NoMember /\ Effective \subseteq membership
Administrators == {p \in Principals : Administers(access[p])}

FindAction(o) == {i \in DOMAIN receipts : receipts[i].operation = o}
Answer(i, request) == IF receipts[i].request = request THEN "committed" ELSE "OPERATION_CONFLICT"

Put(w, call) == calls' = [calls EXCEPT ![w] = call]
Finish(w, outcome) == Put(w, [calls[w] EXCEPT !.pc = "done", !.outcome = outcome])

\* The administrators that must remain, checked against the stored memberships.
Protection_AnyAuthority(request) ==
    IF ~Administers(access[request.target]) \/ Administers(request.permissions) THEN "none"
    ELSE IF request.target = request.actor THEN "MEMBERSHIP_SELF_LOCKOUT"
    ELSE IF Administrators = {request.target} THEN "MEMBERSHIP_LAST_ADMIN"
    ELSE "none"
Protection(request) ==
    IF ~Administers(access[request.target]) \/ Administers(request.permissions) THEN "none"
    ELSE IF request.target = request.actor THEN "MEMBERSHIP_SELF_LOCKOUT"
    ELSE IF Administrators = {request.target} THEN "MEMBERSHIP_LAST_ADMIN"
    ELSE IF request.target \in Local /\ Administrators \intersect Local = {request.target}
    THEN "MEMBERSHIP_LAST_LOCAL_ADMIN"
    ELSE "none"

Stale_Unread(request) == FALSE
Stale(request) == request.expected # Len(receipts)

\* What the write transaction decides.
Authorized_AtCall(w) == TRUE
Authorized(w) == Administers(access[calls[w].request.actor])
Verdict(w) ==
    LET request == calls[w].request
        found == FindAction(calls[w].operation)
    IN IF ~Authorized(w) THEN "PROJECT_FORBIDDEN"
       ELSE IF found # {} THEN Answer(CHOOSE i \in found : TRUE, request)
       ELSE IF Stale(request) THEN "MEMBERSHIP_CONFLICT"
       ELSE IF Protection(request) # "none" THEN Protection(request)
       ELSE "change"

-----------------------------------------------------------------------------
Start(w, o, request) ==
    Put(w, [pc |-> "transaction", operation |-> o, request |-> request, applied |-> FALSE,
            outcome |-> "none"])

\* The revision that a request names must leave room for the next one.
RevisionValue(v) == v < MaxRevision

\* A call with the revision just read; the operation id may have been used before.
Call(w) ==
    /\ calls[w].pc \in {"idle", "done"}
    /\ IF RevisionValue(Len(receipts))
       THEN \E o \in Operations, change \in Changes : Start(w, o, RequestOf(change, Len(receipts)))
       ELSE Put(w, [pc |-> "done", operation |-> NoOperation, request |-> NoRequest,
                    applied |-> FALSE, outcome |-> "MEMBERSHIP_INVALID"])
    /\ UNCHANGED <<access, receipts>>

\* The same operation with the same request.
Retry(w) ==
    /\ calls[w].pc = "done" /\ calls[w].operation # NoOperation
    /\ Start(w, calls[w].operation, calls[w].request)
    /\ UNCHANGED <<access, receipts>>

Refuse(w) ==
    /\ calls[w].pc = "transaction" /\ Verdict(w) # "change"
    /\ Finish(w, Verdict(w))
    /\ UNCHANGED <<access, receipts>>

\* Membership, permissions and receipt are one commit.
Change(w) ==
    LET request == calls[w].request
    IN /\ calls[w].pc = "transaction" /\ Verdict(w) = "change"
       /\ access' = [access EXCEPT ![request.target] = request.permissions]
       /\ receipts' = Append(receipts,
            [operation |-> calls[w].operation, request |-> request,
             before |-> access[request.target], after |-> request.permissions])
       /\ \/ Put(w, [calls[w] EXCEPT !.applied = TRUE, !.pc = "done", !.outcome = "committed"])
          \/ Put(w, [calls[w] EXCEPT !.applied = TRUE, !.pc = "reconcile"])

\* The transaction fails to begin or to commit.
LoseTransaction(w) ==
    /\ calls[w].pc = "transaction"
    /\ Put(w, [calls[w] EXCEPT !.pc = "reconcile"])
    /\ UNCHANGED <<access, receipts>>

\* Reading the receipt needs project:admin as well.
Reconcile_Denied(w) ==
    /\ calls[w].pc = "reconcile"
    /\ IF Authorized(w) THEN Finish(w, "MEMBERSHIP_OUTCOME_UNKNOWN")
       ELSE Finish(w, "PROJECT_FORBIDDEN")
    /\ UNCHANGED <<access, receipts>>
Reconcile(w) ==
    LET found == FindAction(calls[w].operation)
    IN /\ calls[w].pc = "reconcile"
       /\ \/ Finish(w, "MEMBERSHIP_OUTCOME_UNKNOWN")
          \/ /\ Authorized(w)
             /\ \/ found = {} /\ Finish(w, "STATE_UNAVAILABLE")
                \/ \E i \in found : Finish(w, Answer(i, calls[w].request))
       /\ UNCHANGED <<access, receipts>>

Crash(w) ==
    /\ calls[w].pc \in {"transaction", "reconcile"}
    /\ Finish(w, "crashed")
    /\ UNCHANGED <<access, receipts>>

Next == \E w \in Callers :
    Call(w) \/ Retry(w) \/ Refuse(w) \/ Change(w) \/ LoseTransaction(w) \/ Reconcile(w) \/ Crash(w)

Spec == Init /\ [][Next]_vars

-----------------------------------------------------------------------------
\* The membership of p after the first n changes, told by the receipts alone.
Told(p, n) ==
    LET changes == {i \in 1..n : receipts[i].request.target = p}
    IN IF changes = {} THEN IF p = Owner THEN Effective ELSE NoMember
       ELSE receipts[CHOOSE i \in changes : \A j \in changes : j <= i].after

\* Every value stays in its type; above all the administrative revision stays
\* within its 64-bit column.
TypeOK ==
    /\ access \in [Principals -> Memberships]
    /\ receipts \in Seq(Receipt) /\ Len(receipts) <= MaxRevision
    /\ calls \in [Callers -> Calls]

\* A project is never left without a local administrator, although each of
\* several concurrent changes alone would leave one.
AdministratorRemains == Administrators \intersect Local # {}

\* The audit is complete and true: access is exactly what the receipts say, each
\* receipt's "before" is what the earlier ones left, and whoever changed access
\* administered the project at that very revision and still does after its own
\* change: no stale permission was used.
ReceiptsExplainAccess ==
    /\ \A p \in Principals : access[p] = Told(p, Len(receipts))
    /\ \A i \in DOMAIN receipts :
         /\ receipts[i].before = Told(receipts[i].request.target, i - 1)
         /\ Administers(Told(receipts[i].request.actor, i - 1))
         /\ Administers(Told(receipts[i].request.actor, i))

\* A receipt that a call returns is its own operation's and request's, and a
\* definite error never hides a change of this call.
AnswersAreTrue ==
    \A w \in Callers :
      /\ calls[w].outcome = "committed" =>
        \E i \in DOMAIN receipts :
          /\ receipts[i].operation = calls[w].operation
          /\ receipts[i].request = calls[w].request
      /\ calls[w].outcome \in Errors => ~calls[w].applied

\* The administrative history is an append-only log with idempotent operations.
History == [i \in DOMAIN receipts |-> [operation |-> receipts[i].operation,
                                       request |-> receipts[i].request]]
Log == INSTANCE OperationLog WITH
         Streams <- {"access"}, Requests <- Request, logs <- [s \in {"access"} |-> History]
ImplementsLog == Log!Spec
=============================================================================
