------------------------------- MODULE Drafts -------------------------------
(***************************************************************************)
(* Shared, versioned project drafts (src/rentgen_core/drafts.py).  Editors *)
(* save, archive and restore drafts from several processes; each change    *)
(* names an operation id and the revision it was made from.  A change is a *)
(* permission check, for a save a validation of the proposal, one write    *)
(* transaction, and a read transaction when the result is uncertain.  A    *)
(* reader pages through the history of a draft meanwhile.                  *)
(***************************************************************************)
EXTENDS Integers, Sequences

CONSTANTS
    Callers, Readers, \* processes; two of them may act for one principal
    PrincipalOf,      \* [Callers -> principals]
    Drafts,
    Contents,         \* a title and a replacement text
    SourceOf,         \* [Contents -> source references of published layers]
    Operations,
    Foreign,          \* operation ids that other workflow actions have used
    NoOperation, NoContent, NoRequest, NoDraft,
    PageSize,         \* at most 25 in the code
    MaxRevision       \* 2^63-1 in the code

ASSUME OperationAssumption == Foreign \subseteq Operations /\ NoOperation \notin Operations
ASSUME NullAssumption == NoContent \notin Contents /\ NoDraft \notin Drafts
ASSUME BoundAssumption == MaxRevision \in Nat \ {0} /\ PageSize \in Nat \ {0}
ASSUME SourceAssumption == DOMAIN SourceOf = Contents /\ DOMAIN PrincipalOf = Callers

VARIABLES
    heads,      \* workflow_draft_heads
    revisions,  \* workflow_draft_revisions
    receipts,   \* workflow_receipts of draft actions
    stored,     \* workflow_proposals
    grants,     \* project permissions of each principal
    calls,      \* the volatile state of each caller
    readers     \* clients that page through one history each

store == <<heads, revisions, receipts, stored>>
vars == <<heads, revisions, receipts, stored, grants, calls, readers>>

Principals == {PrincipalOf[w] : w \in Callers}
Actions == {"draft.saved", "draft.archived", "draft.restored"}
Grants == {{}, {"project:read"}, {"project:read", "source:edit"}}
Request ==
    [action: {"draft.saved"}, actor: Principals, draft: Drafts, expected: 0..MaxRevision,
     content: Contents] \union
    [action: Actions \ {"draft.saved"}, actor: Principals, draft: Drafts,
     expected: 0..MaxRevision, content: {NoContent}]
Revision == [content: Contents, status: {"active", "archived"}, operation: Operations]
Receipt == [operation: Operations, request: Request]

\* What the transaction decides for good, and what it cannot tell.
Verdicts == {"OPERATION_CONFLICT", "DRAFT_CONFLICT", "DRAFT_ARCHIVED", "DRAFT_SOURCE_MISMATCH",
             "DRAFT_NOT_FOUND", "DRAFT_STATUS_CONFLICT"}
Errors == Verdicts \union {"DRAFT_INVALID", "PROPOSAL_INVALID", "STATE_UNAVAILABLE"}
Outcomes == Errors \union {"none", "committed", "crashed", "PROJECT_FORBIDDEN",
                           "DRAFT_OUTCOME_UNKNOWN"}
Call == [pc: {"idle", "require", "parse", "transaction", "reconcile", "done"},
         operation: Operations \union {NoOperation}, request: Request \union {NoRequest},
         applied: BOOLEAN, outcome: Outcomes]

Init ==
    /\ heads = [d \in Drafts |-> 0]
    /\ revisions = [d \in Drafts |-> << >>]
    /\ receipts = {}
    /\ stored = {}
    /\ grants = [p \in Principals |-> {"project:read", "source:edit"}]
    /\ calls = [w \in Callers |-> [pc |-> "idle", operation |-> NoOperation,
                                   request |-> NoRequest, applied |-> FALSE, outcome |-> "none"]]
    /\ readers = [r \in Readers |-> [draft |-> NoDraft, top |-> 0, before |-> 0, items |-> << >>]]

-----------------------------------------------------------------------------
Put(w, call) == calls' = [calls EXCEPT ![w] = call]
Goto(w, pc) == Put(w, [calls[w] EXCEPT !.pc = pc])
Finish(w, outcome) == Put(w, [calls[w] EXCEPT !.pc = "done", !.outcome = outcome])

Require(w) == {"project:read", "source:edit"} \subseteq grants[PrincipalOf[w]]

FindOperation(o) == {receipt \in receipts : receipt.operation = o}

\* The answer for an operation id that is already taken.
Answer(o, request) ==
    IF o \notin Foreign /\ \A receipt \in FindOperation(o) : receipt.request = request
    THEN "committed"
    ELSE "OPERATION_CONFLICT"
Taken(o) == o \in Foreign \/ FindOperation(o) # {}

Previous(d) == revisions[d][heads[d]]

Save_Archived(request) ==
    IF heads[request.draft] # 0
       /\ SourceOf[request.content] # SourceOf[Previous(request.draft).content]
    THEN "DRAFT_SOURCE_MISMATCH"
    ELSE "change"
Save(request) ==
    IF heads[request.draft] = 0 THEN "change"
    ELSE IF Previous(request.draft).status = "archived" THEN "DRAFT_ARCHIVED"
    ELSE IF SourceOf[request.content] # SourceOf[Previous(request.draft).content]
    THEN "DRAFT_SOURCE_MISMATCH"
    ELSE "change"

StatusChange(request) ==
    IF heads[request.draft] = 0 THEN "DRAFT_NOT_FOUND"
    ELSE IF Previous(request.draft).status
              # (IF request.action = "draft.archived" THEN "active" ELSE "archived")
    THEN "DRAFT_STATUS_CONFLICT"
    ELSE "change"

Stale_Never(request) == FALSE
Stale(request) == heads[request.draft] # request.expected

Verdict_StaleFirst(w) ==
    LET request == calls[w].request
    IN IF ~Require(w) THEN "PROJECT_FORBIDDEN"
       ELSE IF Stale(request) THEN "DRAFT_CONFLICT"
       ELSE IF Taken(calls[w].operation) THEN Answer(calls[w].operation, request)
       ELSE IF request.action = "draft.saved" THEN Save(request)
       ELSE StatusChange(request)
\* What _commit decides inside the write transaction.
Verdict(w) ==
    LET request == calls[w].request
    IN IF ~Require(w) THEN "PROJECT_FORBIDDEN"
       ELSE IF Taken(calls[w].operation) THEN Answer(calls[w].operation, request)
       ELSE IF Stale(request) THEN "DRAFT_CONFLICT"
       ELSE IF request.action = "draft.saved" THEN Save(request)
       ELSE StatusChange(request)

\* The revision that a change appends.
NextRevision(request, o) ==
    [content |-> IF request.action = "draft.saved" THEN request.content
                 ELSE Previous(request.draft).content,
     status |-> IF request.action = "draft.archived" THEN "archived" ELSE "active",
     operation |-> o]

-----------------------------------------------------------------------------
Start(w, o, request) ==
    Put(w, [pc |-> "require", operation |-> o, request |-> request, applied |-> FALSE,
            outcome |-> "none"])

\* A change of the revision just seen; its operation id may be an old one.
Edit(w) ==
    /\ calls[w].pc \in {"idle", "done"}
    /\ \E o \in Operations, request \in Request :
         /\ request.actor = PrincipalOf[w] /\ request.expected = heads[request.draft]
         /\ Start(w, o, request)
    /\ UNCHANGED <<store, grants, readers>>

\* The operation of this or another process of the same principal once more,
\* which may still be running there.
Retry(w) ==
    /\ calls[w].pc \in {"idle", "done"}
    /\ \E v \in Callers :
         /\ calls[v].pc # "idle" /\ PrincipalOf[v] = PrincipalOf[w]
         /\ Start(w, calls[v].operation, calls[v].request)
    /\ UNCHANGED <<store, grants, readers>>

\* save_draft, _status_change: permission first, then the validity of the request.
CheckRequest(w) ==
    /\ calls[w].pc = "require"
    /\ IF ~Require(w) THEN Finish(w, "PROJECT_FORBIDDEN")
       ELSE IF calls[w].request.expected = MaxRevision THEN Finish(w, "DRAFT_INVALID")
       ELSE IF calls[w].request.action = "draft.saved" THEN Goto(w, "parse")
       ELSE Goto(w, "transaction")
    /\ UNCHANGED <<store, grants, readers>>

\* parse_proposal rebuilds the proposal from the retained snapshot.
ParseProposal(w) ==
    /\ calls[w].pc = "parse"
    /\ Goto(w, "transaction") \/ Finish(w, "PROPOSAL_INVALID")
    /\ UNCHANGED <<store, grants, readers>>

Refuse(w) ==
    /\ calls[w].pc = "transaction" /\ Verdict(w) # "change"
    /\ Finish(w, Verdict(w))
    /\ UNCHANGED <<store, grants, readers>>

Commit_Torn(w) ==
    LET request == calls[w].request
    IN /\ calls[w].pc = "transaction" /\ Verdict(w) = "change"
       /\ heads' = [heads EXCEPT ![request.draft] = request.expected + 1]
       /\ Goto(w, "reconcile")
       /\ UNCHANGED <<revisions, receipts, stored, grants, readers>>
\* Proposal, receipt, head and revision are one commit; its answer may be lost.
Commit(w) ==
    LET request == calls[w].request
        next == NextRevision(request, calls[w].operation)
    IN /\ calls[w].pc = "transaction" /\ Verdict(w) = "change"
       /\ heads' = [heads EXCEPT ![request.draft] = request.expected + 1]
       /\ revisions' = [revisions EXCEPT ![request.draft] = Append(@, next)]
       /\ receipts' = receipts \union {[operation |-> calls[w].operation, request |-> request]}
       /\ stored' = stored \union {next.content}
       /\ \/ Put(w, [calls[w] EXCEPT !.applied = TRUE, !.pc = "done", !.outcome = "committed"])
          \/ Put(w, [calls[w] EXCEPT !.applied = TRUE, !.pc = "reconcile"])
       /\ UNCHANGED <<grants, readers>>

\* The transaction fails to begin or to commit, or is interrupted.
LoseTransaction(w) ==
    /\ calls[w].pc = "transaction"
    /\ Goto(w, "reconcile")
    /\ UNCHANGED <<store, grants, readers>>

\* Looks for the receipt; this needs permission to write as well.
Reconcile(w) ==
    LET o == calls[w].operation
    IN /\ calls[w].pc = "reconcile"
       /\ \/ Finish(w, "DRAFT_OUTCOME_UNKNOWN")
          \/ ~Require(w) /\ Finish(w, "PROJECT_FORBIDDEN")
          \/ Require(w) /\ ~Taken(o) /\ Finish(w, "STATE_UNAVAILABLE")
          \/ Require(w) /\ Taken(o) /\ Finish(w, Answer(o, calls[w].request))
       /\ UNCHANGED <<store, grants, readers>>

Crash(w) ==
    /\ calls[w].pc \notin {"idle", "done"}
    /\ Finish(w, "crashed")
    /\ UNCHANGED <<store, grants, readers>>

SetMembership ==
    /\ \E p \in Principals, permissions \in Grants :
         grants' = [grants EXCEPT ![p] = permissions]
    /\ UNCHANGED <<store, calls, readers>>

-----------------------------------------------------------------------------
OperationsOf(d) == [i \in DOMAIN revisions[d] |-> revisions[d][i].operation]

\* One page: the revisions from last down to first, and where the next one ends.
Paged(r, d, last, items, top) ==
    LET first == IF last > PageSize THEN last - PageSize + 1 ELSE 1
        size == last - first + 1
    IN readers' = [readers EXCEPT ![r] =
         [draft |-> d, top |-> top, before |-> IF first > 1 THEN first ELSE 0,
          items |-> items \o [i \in 1..size |-> OperationsOf(d)[last - i + 1]]]]
Page_ByOffset(r, d, before, items, top) == Paged(r, d, heads[d] - Len(items), items, top)
Page(r, d, before, items, top) ==
    Paged(r, d, IF before - 1 < heads[d] THEN before - 1 ELSE heads[d], items, top)

\* draft_history without before_revision: from the head.
OpenHistory(r) ==
    /\ readers[r].before = 0
    /\ \E d \in Drafts : heads[d] # 0 /\ Page(r, d, heads[d] + 1, << >>, heads[d])
    /\ UNCHANGED <<store, grants, calls>>
\* draft_history with the next_before of the page before.
NextPage(r) ==
    /\ readers[r].before > 0
    /\ Page(r, readers[r].draft, readers[r].before, readers[r].items, readers[r].top)
    /\ UNCHANGED <<store, grants, calls>>

Next ==
    \/ \E w \in Callers :
         \/ Edit(w) \/ Retry(w) \/ CheckRequest(w) \/ ParseProposal(w) \/ Refuse(w)
         \/ Commit(w) \/ LoseTransaction(w) \/ Reconcile(w) \/ Crash(w)
    \/ \E r \in Readers : OpenHistory(r) \/ NextPage(r)
    \/ SetMembership

Spec == Init /\ [][Next]_vars

-----------------------------------------------------------------------------
\* Every value stays in its type; above all no draft outgrows the largest revision.
TypeOK ==
    /\ heads \in [Drafts -> 0..MaxRevision]
    /\ revisions \in [Drafts -> Seq(Revision)]
    /\ receipts \subseteq Receipt
    /\ stored \subseteq Contents
    /\ grants \in [Principals -> Grants]
    /\ calls \in [Callers -> Call]
    /\ readers \in [Readers -> [draft: Drafts \union {NoDraft}, top: 0..MaxRevision,
                               before: 0..MaxRevision, items: Seq(Operations)]]

\* A stored history is never what the readers call STATE_CORRUPT: the head is the
\* last revision, each revision has one receipt that was made from the one before
\* it, and its proposal is stored.
HistoryIsBound ==
    /\ \A d \in Drafts :
         /\ heads[d] = Len(revisions[d])
         /\ \A i \in DOMAIN revisions[d] :
              /\ revisions[d][i].content \in stored
              /\ \E receipt \in receipts :
                   /\ receipt.operation = revisions[d][i].operation
                   /\ receipt.request.draft = d /\ receipt.request.expected = i - 1
                   /\ revisions[d][i].status = "archived" <=>
                        receipt.request.action = "draft.archived"
    /\ \A receipt \in receipts :
         revisions[receipt.request.draft][receipt.request.expected + 1].operation
           = receipt.operation

\* A draft stays with the exact source it began with; archiving and restoring keep
\* its text; an archived draft is only ever restored, and only such a draft is.
HistoryIsOneDraft ==
    \A d \in Drafts : \A i \in 1..(Len(revisions[d]) - 1) :
      LET before == revisions[d][i]  after == revisions[d][i + 1]
      IN /\ SourceOf[before.content] = SourceOf[after.content]
         /\ \E receipt \in receipts :
              /\ receipt.operation = after.operation
              /\ receipt.request.action # "draft.saved" => before.content = after.content
              /\ receipt.request.action = "draft.restored" <=> before.status = "archived"

\* A receipt that a call returns is its own operation's and request's; an error
\* other than PROJECT_FORBIDDEN never hides a change of this very call; and a
\* refusal is final: no process of the same principal that still runs the same
\* operation and request commits it later, nor has it been committed.
AnswersAreTrue ==
    \A w \in Callers :
      LET own == [operation |-> calls[w].operation, request |-> calls[w].request]
      IN /\ calls[w].outcome = "committed" => own \in receipts
         /\ calls[w].outcome \in Errors => ~calls[w].applied
         /\ calls[w].outcome \in Verdicts => own \notin receipts

\* Paging returns every revision below the head it began at once, newest first,
\* whatever is saved between two pages.
HistoryIsPagedWhole ==
    \A r \in Readers :
      LET read == readers[r]
      IN read.draft # NoDraft /\ read.before = 0 =>
           read.items = [i \in 1..read.top |-> OperationsOf(read.draft)[read.top - i + 1]]

\* Each draft is an append-only log with idempotent operations.
LogOf(d) ==
    [i \in DOMAIN revisions[d] |->
       CHOOSE receipt \in receipts : receipt.operation = revisions[d][i].operation]
Log == INSTANCE OperationLog WITH
         Streams <- Drafts, Requests <- Request, logs <- [d \in Drafts |-> LogOf(d)]
ImplementsLog == Log!Spec
=============================================================================
