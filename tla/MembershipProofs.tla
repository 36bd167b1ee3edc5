-------------------------- MODULE MembershipProofs --------------------------
(* Proofs about Membership for every value of its constants. *)
EXTENDS Membership, TLAPS

USE PrincipalAssumption, RevisionAssumption, NullAssumption, MemberAssumption, ChangeAssumption

\* A call that runs has an operation id and a request.
CallOK(call) ==
    /\ call \in Calls
    /\ call.pc \in {"transaction", "reconcile"} => call.operation \in Operations
    /\ call.operation \in Operations => call.request \in Request
TypeInv == TypeOK /\ \A w \in Callers : CallOK(calls[w])

LEMMA PutTyped ==
    ASSUME TypeInv, NEW w \in Callers, NEW call, Put(w, call), CallOK(call)
    PROVE  calls' \in [Callers -> Calls] /\ \A v \in Callers : CallOK(calls[v])'
  BY DEF Put, TypeInv, TypeOK, CallOK

LEMMA FinishTyped ==
    ASSUME TypeInv, NEW w \in Callers, NEW outcome \in Outcomes, Finish(w, outcome),
           calls[w].pc \in {"transaction", "reconcile"}
    PROVE  calls' \in [Callers -> Calls] /\ \A v \in Callers : CallOK(calls[v])'
  <1> DEFINE call == [calls[w] EXCEPT !.pc = "done", !.outcome = outcome]
  <1>1. CallOK(call)
    BY DEF TypeInv, TypeOK, CallOK, Calls
  <1> QED BY <1>1, PutTyped DEF Finish

LEMMA RequestFields ==
    ASSUME NEW request \in Request
    PROVE  /\ request.actor \in Principals /\ request.target \in Principals
           /\ request.permissions \in Memberships /\ request.expected \in 0..(MaxRevision - 1)
  <1>1. PICK change \in Changes, expected \in 0..(MaxRevision - 1) : request = RequestOf(change, expected)
    BY DEF Request
  <1> QED BY <1>1 DEF RequestOf

LEMMA StartTyped ==
    ASSUME TypeInv, NEW w \in Callers, NEW o \in Operations, NEW request \in Request,
           Start(w, o, request)
    PROVE  calls' \in [Callers -> Calls] /\ \A v \in Callers : CallOK(calls[v])'
  <1> DEFINE call == [pc |-> "transaction", operation |-> o, request |-> request,
                      applied |-> FALSE, outcome |-> "none"]
  <1>1. CallOK(call)
    BY DEF CallOK, Calls, Outcomes
  <1> QED BY <1>1, PutTyped DEF Start

LEMMA AnswerTyped == \A i, request : Answer(i, request) \in {"committed", "OPERATION_CONFLICT"}
  BY DEF Answer

LEMMA ProtectionTyped ==
    \A request : Protection(request) \in {"none", "MEMBERSHIP_SELF_LOCKOUT", "MEMBERSHIP_LAST_ADMIN",
                                          "MEMBERSHIP_LAST_LOCAL_ADMIN"}
  BY DEF Protection

LEMMA OutcomesListed ==
    /\ Errors \subseteq Outcomes
    /\ {"committed", "crashed", "MEMBERSHIP_OUTCOME_UNKNOWN"} \subseteq Outcomes
    /\ {"PROJECT_FORBIDDEN", "OPERATION_CONFLICT", "MEMBERSHIP_CONFLICT",
        "MEMBERSHIP_SELF_LOCKOUT", "MEMBERSHIP_LAST_ADMIN", "MEMBERSHIP_LAST_LOCAL_ADMIN",
        "MEMBERSHIP_INVALID", "STATE_UNAVAILABLE"} \subseteq Errors
  BY DEF Outcomes, Errors

LEMMA VerdictTyped == \A w : Verdict(w) = "change" \/ Verdict(w) \in Outcomes
  BY AnswerTyped, ProtectionTyped, OutcomesListed DEF Verdict

\* What the write transaction has established when it changes access.
LEMMA VerdictChange ==
    ASSUME NEW w \in Callers, Verdict(w) = "change"
    PROVE  /\ Authorized(w)
           /\ FindAction(calls[w].operation) = {}
           /\ calls[w].request.expected = Len(receipts)
           /\ Protection(calls[w].request) = "none"
  BY AnswerTyped, ProtectionTyped DEF Verdict, Stale

-----------------------------------------------------------------------------
LEMMA TypeInit == Init => TypeInv
  <1> SUFFICES ASSUME Init PROVE TypeInv
    OBVIOUS
  <1>1. access \in [Principals -> Memberships]
    BY DEF Init, Memberships, PermissionSets, Effective
  <1>2. receipts \in Seq(Receipt) /\ Len(receipts) <= MaxRevision
    BY DEF Init
  <1>3. \A w \in Callers : calls[w] \in Calls /\ calls[w].pc = "idle"
                            /\ calls[w].operation = NoOperation
    BY DEF Init, Calls, Outcomes
  <1>4. calls \in [Callers -> Calls]
    BY <1>3 DEF Init
  <1> QED BY <1>1, <1>2, <1>3, <1>4 DEF TypeInv, TypeOK, CallOK

LEMMA ChangeTyped ==
    ASSUME TypeInv, NEW w \in Callers, Change(w)
    PROVE  TypeInv'
  <1> DEFINE request == calls[w].request
             receipt == [operation |-> calls[w].operation, request |-> request,
                         before |-> access[request.target], after |-> request.permissions]
  <1>1. calls[w].pc = "transaction" /\ Verdict(w) = "change"
    BY DEF Change
  <1>2. calls[w] \in Calls /\ calls[w].operation \in Operations /\ request \in Request
    BY <1>1 DEF TypeInv, CallOK
  <1>3. request.target \in Principals /\ request.permissions \in Memberships
    BY <1>2, RequestFields
  <1>4. access' \in [Principals -> Memberships]
    BY <1>3 DEF Change, TypeInv, TypeOK
  <1>5. receipt \in Receipt
    BY <1>2, <1>3 DEF Receipt, TypeInv, TypeOK
  <1>6. receipts' = Append(receipts, receipt) /\ receipts \in Seq(Receipt)
    BY DEF Change, TypeInv, TypeOK
  <1>7. receipts' \in Seq(Receipt) /\ Len(receipts') = Len(receipts) + 1
    BY <1>5, <1>6
  <1>8. Len(receipts) \in 0..(MaxRevision - 1)
    BY <1>1, <1>2, RequestFields, VerdictChange
  <1>9. Len(receipts') <= MaxRevision
    BY <1>7, <1>8
  <1>10. PICK call \in {[calls[w] EXCEPT !.applied = TRUE, !.pc = "done", !.outcome = "committed"],
                        [calls[w] EXCEPT !.applied = TRUE, !.pc = "reconcile"]} : Put(w, call)
    BY DEF Change
  <1>11. CallOK(call)
    BY <1>2 DEF CallOK, Calls, Outcomes
  <1> QED BY <1>4, <1>7, <1>9, <1>10, <1>11, PutTyped DEF TypeInv, TypeOK

LEMMA TypeStep == TypeInv /\ [Next]_vars => TypeInv'
  <1> SUFFICES ASSUME TypeInv, [Next]_vars PROVE TypeInv'
    OBVIOUS
  <1> USE OutcomesListed
  <1>1. ASSUME UNCHANGED <<access, receipts>>,
               calls' \in [Callers -> Calls] /\ \A v \in Callers : CallOK(calls[v])'
        PROVE  TypeInv'
    BY <1>1 DEF TypeInv, TypeOK
  <1>2. ASSUME NEW w \in Callers, Call(w) PROVE TypeInv'
    <2>1. CASE RevisionValue(Len(receipts))
      <3>1. PICK o \in Operations, change \in Changes :
              Start(w, o, RequestOf(change, Len(receipts)))
        BY <1>2, <2>1 DEF Call
      <3>2. Len(receipts) \in 0..(MaxRevision - 1)
        BY <2>1 DEF TypeInv, TypeOK, RevisionValue
      <3>3. RequestOf(change, Len(receipts)) \in Request
        BY <3>2 DEF Request
      <3> QED BY <1>1, <1>2, <3>1, <3>3, StartTyped DEF Call
    <2>2. CASE ~RevisionValue(Len(receipts))
      <3> DEFINE call == [pc |-> "done", operation |-> NoOperation, request |-> NoRequest,
                          applied |-> FALSE, outcome |-> "MEMBERSHIP_INVALID"]
      <3>1. CallOK(call)
        BY DEF CallOK, Calls
      <3> QED BY <1>1, <1>2, <2>2, <3>1, PutTyped DEF Call
    <2> QED BY <2>1, <2>2
  <1>3. ASSUME NEW w \in Callers, Retry(w) PROVE TypeInv'
    <2>1. calls[w].operation \in Operations /\ calls[w].request \in Request
      BY <1>3 DEF Retry, TypeInv, CallOK, Calls
    <2> QED BY <1>1, <1>3, <2>1, StartTyped DEF Retry
  <1>4. ASSUME NEW w \in Callers, Refuse(w) \/ Reconcile(w) \/ Crash(w) PROVE TypeInv'
    <2>1. /\ calls[w].pc \in {"transaction", "reconcile"} /\ UNCHANGED <<access, receipts>>
          /\ \E outcome \in Outcomes : Finish(w, outcome)
      BY <1>4, VerdictTyped, AnswerTyped DEF Refuse, Reconcile, Crash
    <2> QED BY <1>1, <2>1, FinishTyped
  <1>5. ASSUME NEW w \in Callers, LoseTransaction(w) PROVE TypeInv'
    <2> DEFINE call == [calls[w] EXCEPT !.pc = "reconcile"]
    <2>1. CallOK(call)
      BY <1>5 DEF LoseTransaction, TypeInv, CallOK, Calls
    <2> QED BY <1>1, <1>5, <2>1, PutTyped DEF LoseTransaction
  <1>6. CASE UNCHANGED vars
    BY <1>6 DEF vars, TypeInv, TypeOK, CallOK
  <1> QED BY <1>2, <1>3, <1>4, <1>5, <1>6, ChangeTyped DEF Next

\* Every reachable state is well typed: in particular the administrative revision,
\* the number of receipts, stays within its column.
THEOREM TypeCorrect == Spec => []TypeOK
  <1>1. Spec => []TypeInv
    BY TypeInit, TypeStep, PTL DEF Spec
  <1>2. TypeInv => TypeOK
    BY DEF TypeInv
  <1> QED BY <1>1, <1>2, PTL

-----------------------------------------------------------------------------
(* A local administrator remains.                                           *)

LEMMA AccessStep ==
    ASSUME [Next]_vars
    PROVE  UNCHANGED <<access, receipts>> \/ \E w \in Callers : Change(w)
  BY DEF Next, vars, Call, Retry, Refuse, LoseTransaction, Reconcile, Crash

LEMMA RemainsInit == Init => AdministratorRemains
  <1> SUFFICES ASSUME Init PROVE Owner \in Administrators \intersect Local
    BY DEF AdministratorRemains
  <1>1. Owner \in Principals /\ access[Owner] = Effective
    BY DEF Init
  <1>2. Effective # NoMember
    BY DEF PermissionSets
  <1> QED BY <1>1, <1>2 DEF Administrators, Administers

LEMMA RemainsChange ==
    ASSUME TypeInv, AdministratorRemains, NEW w \in Callers, Change(w)
    PROVE  AdministratorRemains'
  <1> DEFINE request == calls[w].request
  <1>1. /\ calls[w].pc = "transaction" /\ Protection(request) = "none"
        /\ access' = [access EXCEPT ![request.target] = request.permissions]
    BY VerdictChange DEF Change
  <1>2. request.target \in Principals
    BY <1>1, RequestFields DEF TypeInv, CallOK
  <1>3. \A p \in Principals : p # request.target => access'[p] = access[p]
    BY <1>1 DEF TypeInv, TypeOK
  <1>4. access'[request.target] = request.permissions
    BY <1>1, <1>2 DEF TypeInv, TypeOK
  \* Somebody other than the target administers, or the target still does.
  <1>5. PICK p \in Administrators \intersect Local :
          p # request.target \/ ~Administers(access[request.target])
             \/ Administers(request.permissions)
    BY <1>1 DEF Protection, AdministratorRemains
  <1>6. p \in Principals /\ Administers(access[p])
    BY <1>5 DEF Administrators
  <1>7. Administers(access'[p])
    BY <1>3, <1>4, <1>5, <1>6
  <1> QED BY <1>5, <1>6, <1>7 DEF AdministratorRemains, Administrators

\* However many administrators change each other at once, from however many
\* processes, the project keeps a local administrator.
THEOREM LocalAdministratorRemains == Spec => []AdministratorRemains
  <1>1. Spec => []TypeInv
    BY TypeInit, TypeStep, PTL DEF Spec
  <1>2. TypeInv /\ AdministratorRemains /\ [Next]_vars => AdministratorRemains'
    <2>1. UNCHANGED <<access, receipts>> /\ AdministratorRemains => AdministratorRemains'
      BY DEF AdministratorRemains, Administrators
    <2> QED BY <2>1, AccessStep, RemainsChange
  <1> QED BY <1>1, <1>2, RemainsInit, PTL DEF Spec
-----------------------------------------------------------------------------
(* The answers of the calls.                                                *)

Receipted(call) == \E i \in DOMAIN receipts :
    receipts[i].operation = call.operation /\ receipts[i].request = call.request
\* A call whose change is stored has its receipt, and no error since.
Honest(call) ==
    /\ call.pc \in {"idle", "transaction"} => ~call.applied
    /\ call.pc \in {"transaction", "reconcile"} => call.outcome = "none"
    /\ call.applied => Receipted(call)
    /\ call.outcome = "committed" => Receipted(call)
    /\ call.outcome \in Errors => ~call.applied
OneReceipt == \A i, j \in DOMAIN receipts : receipts[i].operation = receipts[j].operation => i = j
AnswersInv == OneReceipt /\ \A w \in Callers : Honest(calls[w])

LEMMA Distinct == {"none", "committed", "crashed", "MEMBERSHIP_OUTCOME_UNKNOWN", "change"}
                    \intersect Errors = {}
  BY DEF Errors

LEMMA AnswersInit == Init => AnswersInv
  <1> SUFFICES ASSUME Init PROVE AnswersInv
    OBVIOUS
  <1>1. \A w \in Callers : calls[w].pc = "idle" /\ calls[w].applied = FALSE
                            /\ calls[w].outcome = "none"
    BY DEF Init
  <1>2. OneReceipt
    BY DEF Init, OneReceipt
  <1> QED BY <1>1, <1>2, Distinct DEF AnswersInv, Honest

\* A step that stores nothing has only the caller's own new state to justify.
LEMMA PutHonest ==
    ASSUME TypeInv, AnswersInv, NEW w \in Callers, NEW call, Put(w, call), Honest(call),
           UNCHANGED receipts
    PROVE  AnswersInv'
  <1>1. \A v \in Callers : calls'[v] = IF v = w THEN call ELSE calls[v]
    BY DEF Put, TypeInv, TypeOK
  <1>2. \A v \in Callers : Honest(calls'[v])
    BY <1>1 DEF AnswersInv
  <1>3. \A v \in Callers : Honest(calls[v])'
    BY <1>2 DEF Honest, Receipted
  <1> QED BY <1>3 DEF AnswersInv, OneReceipt

LEMMA FinishHonest ==
    ASSUME TypeInv, AnswersInv, NEW w \in Callers, NEW outcome \in Outcomes, Finish(w, outcome),
           calls[w].pc \in {"transaction", "reconcile"}, UNCHANGED receipts,
           outcome = "committed" => Receipted(calls[w]),
           outcome \in Errors => ~calls[w].applied
    PROVE  AnswersInv'
  <1>1. PICK c : c = calls[w]
    OBVIOUS
  <1>2. PICK call : call = [c EXCEPT !.pc = "done", !.outcome = outcome]
    OBVIOUS
  <1>3. c \in Calls /\ Honest(c)
    BY <1>1 DEF TypeInv, TypeOK, AnswersInv
  <1>4. /\ call.pc = "done" /\ call.outcome = outcome /\ call.applied = c.applied
        /\ call.operation = c.operation /\ call.request = c.request
    BY <1>2, <1>3 DEF Calls
  <1>5. Honest(call)
    BY <1>1, <1>3, <1>4 DEF Honest, Receipted
  <1> QED BY <1>1, <1>2, <1>5, PutHonest DEF Finish

LEMMA StartHonest ==
    ASSUME TypeInv, AnswersInv, NEW w \in Callers, NEW o, NEW request, Start(w, o, request),
           UNCHANGED receipts
    PROVE  AnswersInv'
  <1> DEFINE call == [pc |-> "transaction", operation |-> o, request |-> request,
                      applied |-> FALSE, outcome |-> "none"]
  <1>1. Honest(call)
    BY Distinct DEF Honest
  <1> QED BY <1>1, PutHonest DEF Start

\* The receipt found under an operation id is the only one.
LEMMA AnswerHonest ==
    ASSUME AnswersInv, NEW w \in Callers, NEW i \in FindAction(calls[w].operation)
    PROVE  /\ Answer(i, calls[w].request) = "committed" => Receipted(calls[w])
           /\ Answer(i, calls[w].request) \in Errors => ~calls[w].applied
  <1>1. i \in DOMAIN receipts /\ receipts[i].operation = calls[w].operation
    BY DEF FindAction
  <1>2. CASE receipts[i].request = calls[w].request
    BY <1>1, <1>2, Distinct DEF Answer, Receipted
  <1>3. CASE receipts[i].request # calls[w].request
    <2>1. ~Receipted(calls[w])
      BY <1>1, <1>3 DEF Receipted, AnswersInv, OneReceipt
    <2> QED BY <1>3, <2>1 DEF Answer, AnswersInv, Honest
  <1> QED BY <1>2, <1>3

LEMMA ReconcileHonest ==
    ASSUME TypeInv, AnswersInv, NEW w \in Callers, Reconcile(w)
    PROVE  AnswersInv'
  <1> USE OutcomesListed, Distinct
  <1>1. calls[w].pc = "reconcile" /\ UNCHANGED receipts
    BY DEF Reconcile
  <1>2. CASE Finish(w, "MEMBERSHIP_OUTCOME_UNKNOWN")
    BY <1>1, <1>2, FinishHonest
  <1>3. CASE FindAction(calls[w].operation) = {} /\ Finish(w, "STATE_UNAVAILABLE")
    <2>1. ~Receipted(calls[w])
      BY <1>3 DEF FindAction, Receipted
    <2> QED BY <1>1, <1>3, <2>1, FinishHonest DEF AnswersInv, Honest
  <1>4. ASSUME NEW i \in FindAction(calls[w].operation), Finish(w, Answer(i, calls[w].request))
        PROVE  AnswersInv'
    BY <1>1, <1>4, AnswerHonest, AnswerTyped, FinishHonest
  <1> QED BY <1>2, <1>3, <1>4 DEF Reconcile

LEMMA RefuseHonest ==
    ASSUME TypeInv, AnswersInv, NEW w \in Callers, Refuse(w)
    PROVE  AnswersInv'
  <1>1. calls[w].pc = "transaction" /\ UNCHANGED receipts /\ Verdict(w) # "change"
        /\ Finish(w, Verdict(w))
    BY DEF Refuse
  <1>2. ~calls[w].applied
    BY <1>1 DEF AnswersInv, Honest
  <1>3. Verdict(w) = "committed" => Receipted(calls[w])
    <2> SUFFICES ASSUME Verdict(w) = "committed" PROVE Receipted(calls[w])
      OBVIOUS
    <2>1. PICK i \in FindAction(calls[w].operation) : Answer(i, calls[w].request) = "committed"
      BY ProtectionTyped DEF Verdict
    <2> QED BY <2>1, AnswerHonest
  <1> QED BY <1>1, <1>2, <1>3, VerdictTyped, FinishHonest

\* What a change does to the receipts: one more, of an operation not used before.
LEMMA ChangeFacts ==
    ASSUME TypeInv, NEW w \in Callers, Change(w), NEW r,
           r = [operation |-> calls[w].operation, request |-> calls[w].request,
                before |-> access[calls[w].request.target], after |-> calls[w].request.permissions]
    PROVE  /\ r \in Receipt /\ r.operation = calls[w].operation /\ r.request = calls[w].request
           /\ receipts \in Seq(Receipt) /\ receipts' = Append(receipts, r)
           /\ \A i \in DOMAIN receipts : receipts[i].operation # r.operation
  <1>1. calls[w].pc = "transaction" /\ Verdict(w) = "change"
    BY DEF Change
  <1>2. calls[w].operation \in Operations /\ calls[w].request \in Request
    BY <1>1 DEF TypeInv, CallOK
  <1>3. calls[w].request.target \in Principals /\ calls[w].request.permissions \in Memberships
    BY <1>2, RequestFields
  <1>4. r \in Receipt /\ r.operation = calls[w].operation /\ r.request = calls[w].request
    BY <1>2, <1>3 DEF Receipt, TypeInv, TypeOK
  <1>5. \A i \in DOMAIN receipts : receipts[i].operation # r.operation
    BY <1>1, <1>4, VerdictChange DEF FindAction
  <1> QED BY <1>4, <1>5 DEF Change, TypeInv, TypeOK

LEMMA Appended ==
    ASSUME NEW S, NEW q \in Seq(S), NEW e \in S
    PROVE  /\ Append(q, e) \in Seq(S) /\ Len(Append(q, e)) = Len(q) + 1 /\ Len(q) \in Nat
           /\ DOMAIN q = 1..Len(q) /\ DOMAIN Append(q, e) = 1..(Len(q) + 1)
           /\ Append(q, e)[Len(q) + 1] = e
           /\ \A i \in DOMAIN q : i \in DOMAIN Append(q, e) /\ Append(q, e)[i] = q[i]
           /\ \A i \in DOMAIN Append(q, e) : i = Len(q) + 1 \/ i \in DOMAIN q
  OBVIOUS

LEMMA ChangeHonest ==
    ASSUME TypeInv, AnswersInv, NEW w \in Callers, Change(w)
    PROVE  AnswersInv'
  <1>1. PICK r : r = [operation |-> calls[w].operation, request |-> calls[w].request,
                      before |-> access[calls[w].request.target],
                      after |-> calls[w].request.permissions]
    OBVIOUS
  <1>2. PICK n, rs, qs : n = Len(receipts) /\ rs = receipts /\ qs = receipts'
    OBVIOUS
  <1>3. /\ r \in Receipt /\ r.operation = calls[w].operation /\ r.request = calls[w].request
        /\ rs \in Seq(Receipt) /\ qs = Append(rs, r)
        /\ \A i \in DOMAIN rs : rs[i].operation # r.operation
    BY <1>1, <1>2, ChangeFacts
  <1>4. /\ n + 1 \in DOMAIN qs /\ qs[n + 1] = r
        /\ \A i \in DOMAIN rs : i \in DOMAIN qs /\ qs[i] = rs[i]
        /\ \A i \in DOMAIN qs : i = n + 1 \/ i \in DOMAIN rs
    <2>1. Len(rs) = n /\ n + 1 \in 1..(n + 1)
      BY <1>2, <1>3
    <2> QED BY <1>3, <2>1, Appended
  <1>5. OneReceipt'
    BY <1>2, <1>3, <1>4 DEF AnswersInv, OneReceipt
  <1>6. PICK c : c = calls[w]
    OBVIOUS
  <1>7. PICK call \in {[c EXCEPT !.applied = TRUE, !.pc = "done", !.outcome = "committed"],
                       [c EXCEPT !.applied = TRUE, !.pc = "reconcile"]} : Put(w, call)
    BY <1>6 DEF Change
  <1>8. c \in Calls /\ c.pc = "transaction" /\ c.outcome = "none"
    BY <1>6 DEF TypeInv, TypeOK, AnswersInv, Honest, Change
  <1>9. /\ call.operation = c.operation /\ call.request = c.request /\ call.applied = TRUE
        /\ call.pc \in {"done", "reconcile"} /\ call.outcome \in {"committed", "none"}
        /\ call.pc = "reconcile" => call.outcome = "none"
    BY <1>7, <1>8 DEF Calls
  <1>10. \A v \in Callers : calls'[v] = IF v = w THEN call ELSE calls[v]
    BY <1>7 DEF Put, TypeInv, TypeOK
  <1>11. ASSUME NEW v \in Callers, v = w PROVE Honest(calls[v])'
    BY <1>2, <1>3, <1>4, <1>6, <1>9, <1>10, <1>11, Distinct DEF Honest, Receipted
  <1>12. ASSUME NEW v \in Callers, v # w PROVE Honest(calls[v])'
    <2>1. Honest(calls[v]) /\ calls'[v] = calls[v]
      BY <1>10, <1>12 DEF AnswersInv
    <2>2. Receipted(calls[v]) => Receipted(calls[v])'
      BY <1>2, <1>4, <2>1 DEF Receipted
    <2> QED BY <2>1, <2>2 DEF Honest
  <1> QED BY <1>5, <1>11, <1>12 DEF AnswersInv

LEMMA AnswersStep == TypeInv /\ AnswersInv /\ [Next]_vars => AnswersInv'
  <1> SUFFICES ASSUME TypeInv, AnswersInv, [Next]_vars PROVE AnswersInv'
    OBVIOUS
  <1>1. ASSUME NEW w \in Callers, Call(w) PROVE AnswersInv'
    <2>1. CASE RevisionValue(Len(receipts))
      BY <1>1, <2>1, StartHonest DEF Call
    <2>2. CASE ~RevisionValue(Len(receipts))
      <3> DEFINE call == [pc |-> "done", operation |-> NoOperation, request |-> NoRequest,
                          applied |-> FALSE, outcome |-> "MEMBERSHIP_INVALID"]
      <3>1. Honest(call)
        BY DEF Honest
      <3> QED BY <1>1, <2>2, <3>1, PutHonest DEF Call
    <2> QED BY <2>1, <2>2
  <1>2. ASSUME NEW w \in Callers, Retry(w) PROVE AnswersInv'
    BY <1>2, StartHonest DEF Retry
  <1>3. ASSUME NEW w \in Callers, LoseTransaction(w) PROVE AnswersInv'
    <2>1. PICK c : c = calls[w]
      OBVIOUS
    <2>2. PICK call : call = [c EXCEPT !.pc = "reconcile"]
      OBVIOUS
    <2>3. c \in Calls /\ Honest(c) /\ c.pc = "transaction"
      BY <1>3, <2>1 DEF TypeInv, TypeOK, AnswersInv, LoseTransaction
    <2>4. /\ call.pc = "reconcile" /\ call.outcome = c.outcome /\ call.applied = c.applied
          /\ call.operation = c.operation /\ call.request = c.request
      BY <2>2, <2>3 DEF Calls
    <2>5. Honest(call)
      BY <2>3, <2>4, Distinct DEF Honest, Receipted
    <2> QED BY <1>3, <2>1, <2>2, <2>5, PutHonest DEF LoseTransaction
  <1>4. ASSUME NEW w \in Callers, Crash(w) PROVE AnswersInv'
    BY <1>4, OutcomesListed, Distinct, FinishHonest DEF Crash
  <1>5. CASE UNCHANGED vars
    BY <1>5 DEF vars, AnswersInv, OneReceipt, Honest, Receipted
  <1> QED BY <1>1, <1>2, <1>3, <1>4, <1>5, RefuseHonest, ReconcileHonest, ChangeHonest DEF Next

\* Whatever is lost, retried or sent again under a used operation id: a receipt that
\* a call returns is its own, and a definite error means that it changed nothing.
THEOREM AnswersOfCallsAreTrue == Spec => []AnswersAreTrue
  <1>1. Spec => [](TypeInv /\ AnswersInv)
    BY TypeInit, TypeStep, AnswersInit, AnswersStep, PTL DEF Spec
  <1>2. TypeInv /\ AnswersInv => AnswersAreTrue
    BY DEF AnswersInv, Honest, Receipted, AnswersAreTrue
  <1> QED BY <1>1, <1>2, PTL

-----------------------------------------------------------------------------
(* The administrative history is an append-only log.                        *)

LEMMA LogInitial == Init => Log!Init
  <1> SUFFICES ASSUME Init PROVE Log!Init
    OBVIOUS
  <1>1. History = << >>
    BY DEF Init, History
  <1> QED BY <1>1 DEF Log!Init

LEMMA AppendedFunction ==
    ASSUME NEW n \in Nat, NEW S, NEW h \in [1..n -> S], NEW g \in [1..(n + 1) -> S], NEW e,
           \A i \in 1..(n + 1) : g[i] = IF i = n + 1 THEN e ELSE h[i]
    PROVE  Len(h) = n /\ g = Append(h, e) /\ g # h
  <1>1. h = [i \in 1..n |-> h[i]] /\ g = [i \in 1..(n + 1) |-> g[i]]
    OBVIOUS
  <1>2. Len(h) = n
    BY <1>1
  <1>3. Append(h, e) = [i \in 1..(n + 1) |-> IF i = n + 1 THEN e ELSE h[i]]
    BY <1>1, <1>2
  <1>4. g = Append(h, e)
    BY <1>1, <1>3
  <1>5. n + 1 \in DOMAIN g /\ n + 1 \notin DOMAIN h
    BY <1>1
  <1> QED BY <1>2, <1>4, <1>5

LEMMA HistoryOfChange ==
    ASSUME TypeInv, NEW w \in Callers, Change(w)
    PROVE  /\ Len(History) = Len(receipts) /\ History' # History
           /\ History' = Append(History, [operation |-> calls[w].operation,
                                          request |-> calls[w].request])
  <1>1. PICK r : r = [operation |-> calls[w].operation, request |-> calls[w].request,
                      before |-> access[calls[w].request.target],
                      after |-> calls[w].request.permissions]
    OBVIOUS
  <1>2. PICK n, rs, qs : n = Len(receipts) /\ rs = receipts /\ qs = receipts'
    OBVIOUS
  <1>3. PICK h, g : h = History /\ g = History'
    OBVIOUS
  <1>4. PICK e : e = [operation |-> calls[w].operation, request |-> calls[w].request]
    OBVIOUS
  <1>5. /\ r \in Receipt /\ r.operation = calls[w].operation /\ r.request = calls[w].request
        /\ rs \in Seq(Receipt) /\ qs = Append(rs, r)
    BY <1>1, <1>2, ChangeFacts
  <1>6. /\ n \in Nat /\ DOMAIN rs = 1..n /\ DOMAIN qs = 1..(n + 1) /\ qs[n + 1] = r
        /\ \A i \in 1..n : qs[i] = rs[i]
    BY <1>2, <1>5, Appended
  <1>7. /\ h = [i \in 1..n |-> [operation |-> rs[i].operation, request |-> rs[i].request]]
        /\ g = [i \in 1..(n + 1) |-> [operation |-> qs[i].operation, request |-> qs[i].request]]
    BY <1>2, <1>3, <1>6 DEF History
  <1>8. \A i \in 1..(n + 1) : g[i] = IF i = n + 1 THEN e ELSE h[i]
    <2>1. g[n + 1] = e
      BY <1>4, <1>5, <1>6, <1>7
    <2>2. ASSUME NEW i \in 1..n PROVE g[i] = h[i]
      <3>1. i \in 1..(n + 1)
        BY <1>6
      <3>2. g[i] = [operation |-> qs[i].operation, request |-> qs[i].request]
        BY <1>7, <3>1
      <3>3. h[i] = [operation |-> rs[i].operation, request |-> rs[i].request]
        BY <1>7
      <3> QED BY <1>6, <3>2, <3>3
    <2>3. \A i \in 1..(n + 1) : i = n + 1 \/ i \in 1..n
      BY <1>6
    <2> QED BY <2>1, <2>2, <2>3
  <1>9. Len(h) = n /\ g = Append(h, e) /\ g # h
    <2>1. PICK S : S = {h[i] : i \in 1..n} \union {g[i] : i \in 1..(n + 1)}
      OBVIOUS
    <2>2. h \in [1..n -> S] /\ g \in [1..(n + 1) -> S]
      BY <1>7, <2>1
    <2>3. n \in Nat
      BY <1>6
    <2> QED BY <1>8, <2>2, <2>3, AppendedFunction
  <1> QED BY <1>2, <1>3, <1>4, <1>9

LEMMA LogStep == TypeInv /\ [Next]_vars => [Log!Next]_([s \in {"access"} |-> History])
  <1> SUFFICES ASSUME TypeInv, [Next]_vars PROVE [Log!Next]_([s \in {"access"} |-> History])
    OBVIOUS
  <1>1. ASSUME UNCHANGED receipts PROVE UNCHANGED [s \in {"access"} |-> History]
    BY <1>1 DEF History
  <1>2. ASSUME NEW w \in Callers, Change(w) PROVE Log!Next
    <2>1. PICK o, request : o = calls[w].operation /\ request = calls[w].request
      OBVIOUS
    <2>2. /\ calls[w].pc = "transaction" /\ FindAction(o) = {} /\ request.expected = Len(receipts)
      BY <1>2, <2>1, VerdictChange DEF Change
    <2>3. o \in Operations /\ request \in Request
      BY <2>1, <2>2 DEF TypeInv, CallOK
    <2>4. /\ Len(History) = Len(receipts) /\ History' # History
          /\ History' = Append(History, [operation |-> o, request |-> request])
      BY <1>2, <2>1, HistoryOfChange
    <2>5. ~Log!Used(o)
      BY <2>2 DEF Log!Used, History, FindAction
    <2>6. Log!Add("access", o, request)
      BY <2>2, <2>4, <2>5 DEF Log!Add
    <2>7. [s \in {"access"} |-> History]' # [s \in {"access"} |-> History]
      <3>1. PICK f, g : f = [s \in {"access"} |-> History]' /\ g = [s \in {"access"} |-> History]
        OBVIOUS
      <3>2. f["access"] = History' /\ g["access"] = History
        BY <3>1
      <3> QED BY <2>4, <3>1, <3>2
    <2> QED BY <2>3, <2>6, <2>7 DEF Log!Next
  <1> QED BY <1>1, <1>2, AccessStep

\* Through crashes, lost answers and retries the history of access changes remains an
\* append-only log to which an operation is appended once, at the revision it expected.
THEOREM MembershipImplementsLog == Spec => ImplementsLog
  <1>1. Spec => Log!Init
    BY LogInitial DEF Spec
  <1>2. Spec => [][Log!Next]_([s \in {"access"} |-> History])
    BY TypeInit, TypeStep, LogStep, PTL DEF Spec
  <1> QED BY <1>1, <1>2, PTL DEF ImplementsLog, Log!Spec

-----------------------------------------------------------------------------
(* The receipts explain access.  What they tell is a CHOOSE of the latest    *)
(* one; that there is a latest one is part of the invariant.                 *)

First(p) == IF p = Owner THEN Effective ELSE NoMember
Untouched(rs, p, n) == \A j \in 1..n : rs[j].request.target # p
Latest(rs, p, n, i) ==
    /\ i \in 1..n /\ rs[i].request.target = p
    /\ \A j \in 1..n : rs[j].request.target = p => j <= i
HasLatest(rs, p, n) == Untouched(rs, p, n) \/ \E i \in 1..n : Latest(rs, p, n, i)
ToldBy(rs, p, n) ==
    LET changes == {i \in 1..n : rs[i].request.target = p}
    IN IF changes = {} THEN IF p = Owner THEN Effective ELSE NoMember
       ELSE rs[CHOOSE i \in changes : \A j \in changes : j <= i].after

LEMMA ToldUntouched ==
    ASSUME NEW rs, NEW p, NEW n \in Nat, Untouched(rs, p, n)
    PROVE  ToldBy(rs, p, n) = First(p)
  BY DEF Untouched, ToldBy, First

LEMMA ToldLatest ==
    ASSUME NEW rs, NEW p, NEW n \in Nat, NEW i, Latest(rs, p, n, i)
    PROVE  ToldBy(rs, p, n) = rs[i].after
  <1> DEFINE changes == {k \in 1..n : rs[k].request.target = p}
             latest == CHOOSE k \in changes : \A j \in changes : j <= k
  <1>1. i \in changes /\ \A j \in changes : j <= i
    BY DEF Latest
  <1>2. latest \in changes /\ \A j \in changes : j <= latest
    BY <1>1
  <1>3. \A k \in changes : k \in Int
    OBVIOUS
  <1> HIDE DEF latest
  <1>4. latest = i
    BY <1>1, <1>2, <1>3
  <1> USE DEF latest
  <1> QED BY <1>1, <1>4 DEF ToldBy

\* A receipt that is added tells about its target, and leaves everything else as it was told.
LEMMA ToldKept ==
    ASSUME NEW rs, NEW qs, NEW p, NEW m \in Nat, \A i \in 1..m : qs[i] = rs[i],
           HasLatest(rs, p, m)
    PROVE  HasLatest(qs, p, m) /\ ToldBy(qs, p, m) = ToldBy(rs, p, m)
  <1>1. CASE Untouched(rs, p, m)
    <2>1. Untouched(qs, p, m)
      BY <1>1 DEF Untouched
    <2> QED BY <1>1, <2>1, ToldUntouched DEF HasLatest
  <1>2. ASSUME NEW i \in 1..m, Latest(rs, p, m, i)
        PROVE  HasLatest(qs, p, m) /\ ToldBy(qs, p, m) = ToldBy(rs, p, m)
    <2>1. Latest(qs, p, m, i)
      BY <1>2 DEF Latest
    <2>2. ToldBy(qs, p, m) = qs[i].after /\ ToldBy(rs, p, m) = rs[i].after
      BY <1>2, <2>1, ToldLatest
    <2> QED BY <2>1, <2>2 DEF HasLatest
  <1> QED BY <1>1, <1>2 DEF HasLatest

LEMMA ToldAdded ==
    ASSUME NEW rs, NEW qs, NEW r, NEW p, NEW n \in Nat, qs[n + 1] = r,
           \A i \in 1..n : qs[i] = rs[i], HasLatest(rs, p, n)
    PROVE  /\ HasLatest(qs, p, n + 1)
           /\ ToldBy(qs, p, n + 1) = IF p = r.request.target THEN r.after ELSE ToldBy(rs, p, n)
  <1>1. n + 1 \in Nat /\ n + 1 \in 1..(n + 1) /\ \A j \in 1..(n + 1) : j <= n + 1
    OBVIOUS
  <1>2. \A j \in 1..(n + 1) : j = n + 1 \/ j \in 1..n
    OBVIOUS
  <1>3. CASE p = r.request.target
    <2>1. Latest(qs, p, n + 1, n + 1)
      BY <1>1, <1>3 DEF Latest
    <2> QED BY <1>1, <1>3, <2>1, ToldLatest DEF HasLatest
  <1>4. CASE p # r.request.target /\ Untouched(rs, p, n)
    <2>1. Untouched(qs, p, n + 1)
      BY <1>2, <1>4 DEF Untouched
    <2> QED BY <1>1, <1>4, <2>1, ToldUntouched DEF HasLatest
  <1>5. ASSUME p # r.request.target, NEW i \in 1..n, Latest(rs, p, n, i)
        PROVE  /\ HasLatest(qs, p, n + 1)
               /\ ToldBy(qs, p, n + 1) = ToldBy(rs, p, n)
    <2>1. i \in 1..(n + 1)
      OBVIOUS
    <2>2. Latest(qs, p, n + 1, i)
      BY <1>2, <1>5, <2>1 DEF Latest
    <2>3. ToldBy(qs, p, n + 1) = qs[i].after /\ ToldBy(rs, p, n) = rs[i].after
      BY <1>1, <1>5, <2>2, ToldLatest
    <2> QED BY <2>1, <2>2, <2>3 DEF HasLatest
  <1> QED BY <1>3, <1>4, <1>5 DEF HasLatest

Explained(rs) ==
    /\ \A p \in Principals : access[p] = ToldBy(rs, p, Len(rs))
    /\ \A i \in DOMAIN rs :
         /\ rs[i].before = ToldBy(rs, rs[i].request.target, i - 1)
         /\ Administers(ToldBy(rs, rs[i].request.actor, i - 1))
         /\ Administers(ToldBy(rs, rs[i].request.actor, i))
ExplainInv ==
    /\ Explained(receipts)
    /\ \A p \in Principals, n \in 0..Len(receipts) : HasLatest(receipts, p, n)

LEMMA ExplainInit == Init => ExplainInv
  <1> SUFFICES ASSUME Init PROVE ExplainInv
    OBVIOUS
  <1>1. receipts = << >> /\ Len(receipts) = 0 /\ DOMAIN receipts = {}
    BY DEF Init
  <1>2. \A p : Untouched(receipts, p, 0)
    BY DEF Untouched
  <1>3. \A p \in Principals : ToldBy(receipts, p, 0) = First(p)
    BY <1>2, ToldUntouched
  <1>4. \A p \in Principals : access[p] = First(p)
    BY DEF Init, First
  <1>5. \A n \in 0..Len(receipts) : n = 0
    BY <1>1
  <1>6. Explained(receipts)
    BY <1>1, <1>3, <1>4 DEF Explained
  <1> QED BY <1>2, <1>5, <1>6 DEF ExplainInv, HasLatest

LEMMA ExplainChange ==
    ASSUME TypeInv, ExplainInv, NEW w \in Callers, Change(w)
    PROVE  ExplainInv'
  <1>1. PICK request : request = calls[w].request
    OBVIOUS
  <1>2. PICK r : r = [operation |-> calls[w].operation, request |-> calls[w].request,
                      before |-> access[calls[w].request.target],
                      after |-> calls[w].request.permissions]
    OBVIOUS
  <1>3. PICK n, rs, qs : n = Len(receipts) /\ rs = receipts /\ qs = receipts'
    OBVIOUS
  <1>4. r \in Receipt /\ r.request = request /\ rs \in Seq(Receipt) /\ qs = Append(rs, r)
    BY <1>1, <1>2, <1>3, ChangeFacts
  <1>5. /\ n \in Nat /\ DOMAIN rs = 1..n /\ DOMAIN qs = 1..(n + 1) /\ qs[n + 1] = r
        /\ Len(qs) = n + 1 /\ \A i \in 1..n : qs[i] = rs[i]
    BY <1>3, <1>4, Appended
  <1>6. \A i \in 1..(n + 1) : qs[i].request.target \in Principals
                             /\ qs[i].request.actor \in Principals
    <2>1. \A i \in 1..(n + 1) : qs[i] \in Receipt
      <3>1. qs \in Seq(Receipt)
        BY <1>4
      <3> QED BY <1>5, <3>1
    <2>2. \A i \in 1..(n + 1) : qs[i].request \in Request
      BY <2>1 DEF Receipt
    <2> QED BY <2>2, RequestFields
  <1>7. request.target \in Principals /\ request.actor \in Principals
    BY <1>4, <1>5, <1>6
  <1>8. /\ Administers(access[request.actor]) /\ Protection(request) = "none"
        /\ access' = [access EXCEPT ![request.target] = request.permissions]
    BY <1>1, VerdictChange DEF Change, Authorized
  <1>9. \A p \in Principals : access'[p] = IF p = request.target THEN request.permissions
                                           ELSE access[p]
    BY <1>7, <1>8 DEF TypeInv, TypeOK
  <1>10. r.before = access[request.target] /\ r.after = request.permissions
    BY <1>1, <1>2
  \* What was told about the earlier revisions is told still.
  <1>11. \A p \in Principals, m \in 0..n :
           HasLatest(qs, p, m) /\ ToldBy(qs, p, m) = ToldBy(rs, p, m)
    <2> SUFFICES ASSUME NEW p \in Principals, NEW m \in 0..n
                 PROVE  HasLatest(qs, p, m) /\ ToldBy(qs, p, m) = ToldBy(rs, p, m)
      OBVIOUS
    <2>1. HasLatest(rs, p, m)
      BY <1>3 DEF ExplainInv
    <2>2. m \in Nat /\ \A i \in 1..m : qs[i] = rs[i]
      BY <1>5
    <2> QED BY <2>1, <2>2, ToldKept
  <1>12. \A p \in Principals : HasLatest(qs, p, n + 1) /\ ToldBy(qs, p, n + 1) = access'[p]
    <2> SUFFICES ASSUME NEW p \in Principals
                 PROVE  HasLatest(qs, p, n + 1) /\ ToldBy(qs, p, n + 1) = access'[p]
      OBVIOUS
    <2>1. HasLatest(rs, p, n) /\ access[p] = ToldBy(rs, p, n)
      BY <1>3, <1>5 DEF ExplainInv, Explained
    <2>2. /\ HasLatest(qs, p, n + 1)
          /\ ToldBy(qs, p, n + 1) = IF p = r.request.target THEN r.after ELSE ToldBy(rs, p, n)
      <3>1. n \in Nat /\ qs[n + 1] = r /\ \A i \in 1..n : qs[i] = rs[i]
        BY <1>5
      <3> QED BY <2>1, <3>1, ToldAdded
    <2> QED BY <1>4, <1>9, <1>10, <2>1, <2>2
  <1>13. \A p \in Principals : ToldBy(qs, p, n) = access[p]
    BY <1>3, <1>5, <1>11 DEF ExplainInv, Explained
  <1>14. Administers(access'[request.actor])
    <2>1. CASE request.actor = request.target
      BY <1>7, <1>8, <1>9, <2>1 DEF Protection
    <2>2. CASE request.actor # request.target
      BY <1>7, <1>8, <1>9, <2>2
    <2> QED BY <2>1, <2>2
  <1>15. ASSUME NEW i \in 1..(n + 1)
         PROVE  /\ qs[i].before = ToldBy(qs, qs[i].request.target, i - 1)
                /\ Administers(ToldBy(qs, qs[i].request.actor, i - 1))
                /\ Administers(ToldBy(qs, qs[i].request.actor, i))
    <2>1. CASE i = n + 1
      <3>1. i - 1 = n /\ qs[i] = r
        BY <1>5, <2>1
      <3> QED BY <1>4, <1>7, <1>8, <1>10, <1>12, <1>13, <1>14, <2>1, <3>1
    <2>2. CASE i \in 1..n
      <3>1. i - 1 \in 0..n /\ i \in 0..n /\ qs[i] = rs[i] /\ i \in DOMAIN rs
        BY <1>5, <2>2
      <3>2. /\ rs[i].before = ToldBy(rs, rs[i].request.target, i - 1)
            /\ Administers(ToldBy(rs, rs[i].request.actor, i - 1))
            /\ Administers(ToldBy(rs, rs[i].request.actor, i))
        BY <1>3, <3>1 DEF ExplainInv, Explained
      <3> QED BY <1>6, <1>11, <3>1, <3>2
    <2> QED BY <1>5, <2>1, <2>2
  <1>16. Explained(receipts)'
    BY <1>3, <1>5, <1>12, <1>15 DEF Explained
  <1>17. \A m \in 0..(n + 1) : m = n + 1 \/ m \in 0..n
    BY <1>5
  <1>18. \A p \in Principals, m \in 0..Len(qs) : HasLatest(qs, p, m)
    BY <1>5, <1>11, <1>12, <1>17
  <1> QED BY <1>3, <1>16, <1>18 DEF ExplainInv

\* The audit tells the whole truth: access is what the receipts say at every revision,
\* and whoever changed it administered the project before and after.
THEOREM AuditExplainsAccess == Spec => []ReceiptsExplainAccess
  <1>1. Spec => []TypeInv
    BY TypeInit, TypeStep, PTL DEF Spec
  <1>2. TypeInv /\ ExplainInv /\ [Next]_vars => ExplainInv'
    <2>1. UNCHANGED <<access, receipts>> /\ ExplainInv => ExplainInv'
      BY DEF ExplainInv, Explained
    <2> QED BY <2>1, AccessStep, ExplainChange
  <1>3. ExplainInv => ReceiptsExplainAccess
    <2>1. \A p, n : Told(p, n) = ToldBy(receipts, p, n)
      BY DEF Told, ToldBy
    <2> QED BY <2>1 DEF ExplainInv, Explained, ReceiptsExplainAccess
  <1> QED BY <1>1, <1>2, <1>3, ExplainInit, PTL DEF Spec
=============================================================================
