---------------------------- MODULE Publication ----------------------------
(***************************************************************************)
(* Snapshot publication: capture of the live source, an immutable          *)
(* generation of files under a fresh physical name, and one transaction of *)
(* the project's state database that makes it visible (catalog row, head,  *)
(* operation receipt).  src/rentgen_core/publication.py is the portable    *)
(* backend, src/rentgen_core/_linux_capture.py the Linux one.              *)
(*                                                                         *)
(* A writer is one caller inside one process.  An action is one            *)
(* transaction of the state database, or one stretch of file work that no  *)
(* other writer can observe before the transaction that follows it.        *)
(***************************************************************************)
EXTENDS Integers, FiniteSets

CONSTANTS
    Writers,       \* callers of capture_and_publish
    Operations,    \* operation ids, chosen by the callers
    Layouts,       \* ordered source layers of a configuration
    Contents,      \* bytes of the live source tree
    Generations,   \* physical names (uuid4) of generation directories
    NoSnapshot,    \* SQL NULL in snapshot columns
    NoGeneration,  \* no locator
    NoOperation,   \* a writer that has not called yet
    MaxRevision,   \* the head cannot advance past it (2^63-1 in the code)
    MaxSource,     \* bound of the model on source configuration changes
    Backend        \* "portable" or "linux"

Snapshots == Layouts \X Contents

ASSUME RevisionAssumption == MaxRevision \in Nat /\ MaxSource \in Nat \ {0}
ASSUME LayoutAssumption == Layouts # {}
ASSUME NullAssumption ==
    /\ NoSnapshot \notin Snapshots
    /\ NoGeneration \notin Generations
    /\ NoOperation \notin Operations
ASSUME BackendAssumption == Backend \in {"portable", "linux"}

VARIABLES
    head,           \* project_head joined with the source revision
    layout,         \* source_layers
    configurations, \* history: every [source, layout] that was ever configured
    catalog,        \* snapshots
    receipts,       \* publication_receipts (with its event and outbox rows)
    files,          \* the generations directory
    tree,           \* the live source
    grants,         \* permissions of each writer's principal
    attempt         \* the volatile state of each writer's call

store == <<head, layout, configurations, catalog, receipts>>
vars == <<store, files, tree, grants, attempt>>

-----------------------------------------------------------------------------
ProjectHead == [revision: 0..MaxRevision, snapshot: Snapshots \union {NoSnapshot},
                source: 1..MaxSource]
CatalogRow == [snapshot: Snapshots, generation: Generations]
Receipt == [operation: Operations, expected: ProjectHead, snapshot: Snapshots,
            revision: 1..MaxRevision]
Stages == {"absent", "captured", "written", "flushed", "lost"}
GenerationFiles == [stage: Stages, snapshot: Snapshots \union {NoSnapshot}]
Permissions == {"project:read", "analysis:run"}

Steps == {"idle", "lookup", "capture", "read", "build", "flush", "select",
          "check", "commit", "reconcile", "release", "done"}
Errors == {"PROJECT_FORBIDDEN", "OPERATION_CONFLICT", "SOURCE_CONFIGURATION_CONFLICT",
           "HEAD_CONFLICT", "SOURCE_CAPTURE_CHANGED", "GRAPH_BUILD_FAILED",
           "GRAPH_SCANNER_CANCELLED", "SNAPSHOT_CORRUPT", "STATE_CORRUPT", "STATE_BUSY",
           "STATE_UNAVAILABLE"}
Outcomes == Errors \union {"none", "committed", "crashed", "PUBLICATION_OUTCOME_UNKNOWN"}
Attempt == [pc: Steps, operation: Operations \union {NoOperation}, expected: ProjectHead,
            layout: Layouts, generation: Generations \union {NoGeneration},
            snapshot: Snapshots \union {NoSnapshot},
            existing: Generations \union {NoGeneration},
            seen: ProjectHead,  \* history: the head while the sources were read
            applied: BOOLEAN,   \* history: this call's own transaction committed
            outcome: Outcomes]

\* A new state database: no snapshot, source configuration 1, one base layer.
FirstLayout == CHOOSE l \in Layouts : TRUE
FirstHead == [revision |-> 0, snapshot |-> NoSnapshot, source |-> 1]
NewAttempt(o, expected) ==
    [pc |-> "lookup", operation |-> o, expected |-> expected, layout |-> FirstLayout,
     generation |-> NoGeneration, snapshot |-> NoSnapshot, existing |-> NoGeneration,
     seen |-> FirstHead, applied |-> FALSE, outcome |-> "none"]

Init ==
    /\ head = FirstHead
    /\ layout = FirstLayout
    /\ configurations = {[source |-> 1, layout |-> FirstLayout]}
    /\ catalog = {}
    /\ receipts = {}
    /\ files = [g \in Generations |-> [stage |-> "absent", snapshot |-> NoSnapshot]]
    /\ tree \in Contents
    /\ grants = [w \in Writers |-> Permissions]
    /\ attempt = [w \in Writers |->
                    [NewAttempt(NoOperation, FirstHead) EXCEPT !.pc = "idle"]]

-----------------------------------------------------------------------------
At(w, pc) == attempt[w].pc = pc
Holds(w, permissions) == permissions \subseteq grants[w]
FindPublication_Forgotten(o) == {}
FindPublication(o) == {r \in receipts : r.operation = o}
FindSnapshot(s) == {c \in catalog : c.snapshot = s}
Complete(g, s) == files[g] = [stage |-> "flushed", snapshot |-> s]

Put(w, a) == attempt' = [attempt EXCEPT ![w] = a]
Goto(w, pc) == Put(w, [attempt[w] EXCEPT !.pc = pc])
Finish(w, outcome) == Put(w, [attempt[w] EXCEPT !.pc = "done", !.outcome = outcome])

\* The stored head, source configuration included, is not the expected one.
HeadMoved_IgnoringSource(w) ==
    [head EXCEPT !.source = 1] # [attempt[w].expected EXCEPT !.source = 1]
HeadMoved_IgnoringRevision(w) ==
    [head EXCEPT !.revision = 0] # [attempt[w].expected EXCEPT !.revision = 0]
HeadMoved_Never(w) == FALSE
HeadMoved(w) == head # attempt[w].expected

\* The error that a comparison of the stored head with the expected one raises.
HeadError(w) ==
    IF head.source # attempt[w].expected.source
    THEN "SOURCE_CONFIGURATION_CONFLICT" ELSE "HEAD_CONFLICT"

\* The result of a durable receipt for this caller's operation; the snapshot is
\* compared once the caller has one.
Answer(w, r) ==
    IF /\ r.expected = attempt[w].expected
       /\ attempt[w].snapshot \in {NoSnapshot, r.snapshot}
    THEN "committed" ELSE "OPERATION_CONFLICT"

-----------------------------------------------------------------------------
(* The caller.                                                             *)

\* A call names an operation and the head it was computed from: the one just
\* read, or (a retry) the one of the caller's previous call.
Call(w) ==
    /\ attempt[w].pc \in {"idle", "done"}
    /\ Holds(w, {"project:read"})
    /\ \E o \in Operations, expected \in {head, attempt[w].expected} :
         Put(w, NewAttempt(o, expected))
    /\ UNCHANGED <<store, files, tree, grants>>

\* The receipt is looked up before any source is read: a replay needs neither
\* the old head nor a scanner.
Lookup(w) ==
    /\ At(w, "lookup")
    /\ \/ ~Holds(w, Permissions) /\ Finish(w, "PROJECT_FORBIDDEN")
       \/ /\ Holds(w, Permissions)
          /\ \/ \E r \in FindPublication(attempt[w].operation) : Finish(w, Answer(w, r))
             \/ FindPublication(attempt[w].operation) = {} /\ Goto(w, "capture")
    /\ UNCHANGED <<store, files, tree, grants>>

\* One read transaction compares head and configuration; then the attempt owns
\* a directory that did not exist.
StartCapture(w) ==
    /\ At(w, "capture")
    /\ \/ ~Holds(w, Permissions) /\ Finish(w, "PROJECT_FORBIDDEN") /\ UNCHANGED files
       \/ /\ Holds(w, Permissions) /\ HeadMoved(w)
          /\ Finish(w, HeadError(w)) /\ UNCHANGED files
       \/ /\ Holds(w, Permissions) /\ ~HeadMoved(w)
          /\ \E g \in Generations :
               /\ files[g].stage = "absent"
               /\ files' = [files EXCEPT ![g].stage = "captured"]
               /\ Put(w, [attempt[w] EXCEPT !.pc = "read", !.generation = g, !.layout = layout])
    /\ UNCHANGED <<store, tree, grants>>

\* The Linux backend repeats authorization, head and configuration checks around
\* every stage of file work; the portable one checks them in its transactions.
GateOpen(w) == Backend = "linux" => Holds(w, Permissions) /\ ~HeadMoved(w)
Gate(w) ==
    /\ attempt[w].pc \in {"read", "build", "flush", "select", "check"}
    /\ ~GateOpen(w)
    /\ Finish(w, IF Holds(w, Permissions) THEN HeadError(w) ELSE "PROJECT_FORBIDDEN")
    /\ UNCHANGED <<store, files, tree, grants>>

\* Two passes over the live tree between three inventories: either they agree
\* or the capture fails and its directory stays behind as an orphan.
ReadSources(w) ==
    /\ At(w, "read") /\ GateOpen(w)
    /\ \/ Finish(w, "SOURCE_CAPTURE_CHANGED")
       \/ Put(w, [attempt[w] EXCEPT !.pc = "build", !.snapshot = <<attempt[w].layout, tree>>,
                                 !.seen = head])
    /\ UNCHANGED <<store, files, tree, grants>>

\* Scanner and graph builder, then the manifest whose hash names the snapshot.
Build(w) ==
    /\ At(w, "build") /\ GateOpen(w)
    /\ \/ Finish(w, "GRAPH_BUILD_FAILED") /\ UNCHANGED files
       \/ /\ files' = [files EXCEPT ![attempt[w].generation] =
                           [stage |-> "written", snapshot |-> attempt[w].snapshot]]
          /\ Goto(w, "flush")
    /\ UNCHANGED <<store, tree, grants>>

\* Outputs reach the disk; the whole generation is then read back and verified
\* (nobody else writes under its name, so it verifies).
Flush_Skipped(w) ==
    /\ At(w, "flush") /\ GateOpen(w) /\ Goto(w, "select")
    /\ UNCHANGED <<store, files, tree, grants>>
Flush(w) ==
    /\ At(w, "flush") /\ GateOpen(w)
    /\ files' = [files EXCEPT ![attempt[w].generation].stage = "flushed"]
    /\ Goto(w, "select")
    /\ UNCHANGED <<store, tree, grants>>

\* Equal content may already be published under another physical name: that
\* generation is verified and its locator reused.
Select(w) ==
    /\ At(w, "select") /\ GateOpen(w)
    /\ \/ ~Holds(w, {"project:read"}) /\ Finish(w, "PROJECT_FORBIDDEN")
       \/ /\ Holds(w, {"project:read"})
          /\ \/ FindSnapshot(attempt[w].snapshot) = {} /\ Goto(w, "check")
             \/ \E c \in FindSnapshot(attempt[w].snapshot) :
                  IF Complete(c.generation, c.snapshot)
                  THEN Put(w, [attempt[w] EXCEPT !.pc = "check", !.existing = c.generation])
                  ELSE Finish(w, "SNAPSHOT_CORRUPT")
    /\ UNCHANGED <<store, files, tree, grants>>

\* The last check outside the write transaction.
Check(w) ==
    /\ At(w, "check") /\ GateOpen(w)
    /\ Goto(w, "commit")
    /\ UNCHANGED <<store, files, tree, grants>>

\* The trusted cancellation callback, asked between the stages.
Cancel(w) ==
    /\ attempt[w].pc \in {"capture", "build", "flush", "select", "check"}
    /\ Finish(w, "GRAPH_SCANNER_CANCELLED")
    /\ UNCHANGED <<store, files, tree, grants>>

-----------------------------------------------------------------------------
(* The write transaction.                                                  *)

Selected(w) == {c.generation : c \in FindSnapshot(attempt[w].snapshot)}
Locator(w) == IF attempt[w].existing = NoGeneration
              THEN attempt[w].generation ELSE attempt[w].existing

\* The revision is a 64-bit column: the head stops before it would overflow.
Exhausted == head.revision = MaxRevision

\* What the checks of the write transaction decide, in their order.
Verdict_CatalogFirst(w) ==
    LET found == FindPublication(attempt[w].operation)
    IN IF ~Holds(w, Permissions) THEN "PROJECT_FORBIDDEN"
       ELSE IF found # {} THEN Answer(w, CHOOSE r \in found : TRUE)
       ELSE IF Selected(w) # {attempt[w].existing} \ {NoGeneration} THEN "STATE_CORRUPT"
       ELSE IF HeadMoved(w) THEN HeadError(w)
       ELSE IF Exhausted THEN "HEAD_CONFLICT"
       ELSE IF layout # attempt[w].layout THEN "SOURCE_CONFIGURATION_CONFLICT"
       ELSE "publish"
Verdict(w) ==
    LET found == FindPublication(attempt[w].operation)
    IN IF ~Holds(w, Permissions) THEN "PROJECT_FORBIDDEN"
       ELSE IF found # {} THEN Answer(w, CHOOSE r \in found : TRUE)
       ELSE IF HeadMoved(w) THEN HeadError(w)
       ELSE IF Selected(w) # {attempt[w].existing} \ {NoGeneration} THEN "STATE_CORRUPT"
       ELSE IF Exhausted THEN "HEAD_CONFLICT"
       ELSE IF layout # attempt[w].layout THEN "SOURCE_CONFIGURATION_CONFLICT"
       ELSE "publish"

\* The candidate's pins are released after the transaction; the Linux backend
\* closed its owners before it.
Committed(w) == IF Backend = "linux" THEN Finish(w, "committed") ELSE Goto(w, "release")

Refuse(w) ==
    /\ At(w, "commit")
    /\ \/ Verdict(w) \in Errors /\ Finish(w, Verdict(w))
       \/ Verdict(w) = "committed" /\ Committed(w)
    /\ UNCHANGED <<store, files, tree, grants>>

\* Catalog row, head, receipt, event and outbox row are one commit.  Its
\* acknowledgment may get lost.
Publish(w) ==
    LET a == attempt[w]
        next == [revision |-> head.revision + 1, snapshot |-> a.snapshot, source |-> head.source]
    IN /\ At(w, "commit") /\ Verdict(w) = "publish"
       /\ catalog' = catalog \union {[snapshot |-> a.snapshot, generation |-> Locator(w)]}
       /\ head' = next
       /\ receipts' = receipts \union {[operation |-> a.operation, expected |-> a.expected,
                                       snapshot |-> a.snapshot, revision |-> next.revision]}
       /\ \/ Put(w, [a EXCEPT !.applied = TRUE, !.pc = "reconcile"])
          \/ Backend = "portable" /\ Put(w, [a EXCEPT !.applied = TRUE, !.pc = "release"])
          \/ /\ Backend = "linux"
             /\ Put(w, [a EXCEPT !.applied = TRUE, !.pc = "done", !.outcome = "committed"])
       /\ UNCHANGED <<layout, configurations, files, tree, grants>>

\* The commit itself fails: the caller cannot tell it from a lost acknowledgment.
LoseCommit(w) ==
    /\ At(w, "commit") /\ Verdict(w) = "publish"
    /\ Goto(w, "reconcile")
    /\ UNCHANGED <<store, files, tree, grants>>

\* A transaction cannot begin, or is rolled back before its commit (the Linux
\* deadline inside it included), or the file work of a stage fails.
Unavailable(w) ==
    /\ attempt[w].pc \in {"lookup", "capture", "read", "build", "flush", "select", "check", "commit"}
    /\ Finish(w, "STATE_BUSY")
    /\ UNCHANGED <<store, files, tree, grants>>

-----------------------------------------------------------------------------
(* Reconciliation by the durable receipt.                                  *)

Reconcile(w) ==
    /\ At(w, "reconcile")
    /\ \/ Finish(w, "PUBLICATION_OUTCOME_UNKNOWN")
       \/ /\ Holds(w, {"project:read"})
          /\ \/ \E r \in FindPublication(attempt[w].operation) :
                  IF Answer(w, r) = "committed" THEN Committed(w) ELSE Finish(w, Answer(w, r))
             \/ /\ FindPublication(attempt[w].operation) = {}
                /\ Finish(w, "STATE_UNAVAILABLE")
    /\ UNCHANGED <<store, files, tree, grants>>

\* Closing the candidate's handles may fail after the commit and interrupt the
\* acknowledgment: the receipt decides again.
Release_Raises(w) ==
    /\ At(w, "release")
    /\ Finish(w, "committed") \/ Finish(w, "STATE_UNAVAILABLE")
    /\ UNCHANGED <<store, files, tree, grants>>
Release(w) ==
    /\ At(w, "release")
    /\ \/ Finish(w, "committed")
       \/ Finish(w, "PUBLICATION_OUTCOME_UNKNOWN")
       \/ /\ Holds(w, {"project:read"})
          /\ \E r \in FindPublication(attempt[w].operation) : Finish(w, Answer(w, r))
    /\ UNCHANGED <<store, files, tree, grants>>

-----------------------------------------------------------------------------
(* The environment.                                                        *)

\* A process dies; its candidate stays behind and its caller may call again.
Crash(w) ==
    /\ attempt[w].pc \notin {"idle", "done"}
    /\ Finish(w, "crashed")
    /\ UNCHANGED <<store, files, tree, grants>>

\* Every process dies and bytes that were not flushed are gone.
PowerLoss ==
    /\ \E w \in Writers : attempt[w].pc \notin {"idle", "done"}
    /\ attempt' = [w \in Writers |->
                     IF attempt[w].pc \in {"idle", "done"} THEN attempt[w]
                     ELSE [attempt[w] EXCEPT !.pc = "done", !.outcome = "crashed"]]
    /\ files' = [g \in Generations |->
                   IF files[g].stage \in {"captured", "written"}
                   THEN [files[g] EXCEPT !.stage = "lost"] ELSE files[g]]
    /\ UNCHANGED <<store, tree, grants>>

\* An administrator replaces the source layers.
ConfigureSourceLayers(l) ==
    /\ head.source < MaxSource
    /\ head' = [head EXCEPT !.source = @ + 1]
    /\ layout' = l
    /\ configurations' = configurations \union {[source |-> head.source + 1, layout |-> l]}
    /\ UNCHANGED <<catalog, receipts, files, tree, grants, attempt>>

\* An administrator grants or revokes; analysis:run needs project:read.
SetMembership(w, permissions) ==
    /\ grants' = [grants EXCEPT ![w] = permissions]
    /\ UNCHANGED <<store, files, tree, attempt>>

EditSource(c) ==
    /\ tree' = c
    /\ UNCHANGED <<store, files, grants, attempt>>

Write(w) ==
    \/ Lookup(w) \/ StartCapture(w) \/ Gate(w) \/ ReadSources(w) \/ Build(w)
    \/ Flush(w) \/ Select(w) \/ Check(w) \/ Cancel(w) \/ Refuse(w) \/ Publish(w)
    \/ LoseCommit(w) \/ Unavailable(w) \/ Reconcile(w) \/ Release(w)

Next ==
    \/ \E w \in Writers :
         \/ Call(w) \/ Write(w) \/ Crash(w)
         \/ \E permissions \in {{}, {"project:read"}, Permissions} : SetMembership(w, permissions)
    \/ \E l \in Layouts : ConfigureSourceLayers(l)
    \/ \E c \in Contents : EditSource(c)
    \/ PowerLoss

Spec == Init /\ [][Next]_vars

-----------------------------------------------------------------------------
\* Every value stays in its type; above all the head's revision stays within its
\* 64-bit column, which its last publication may only just reach.
TypeOK ==
    /\ head \in ProjectHead
    /\ layout \in Layouts
    /\ configurations \subseteq [source: 1..MaxSource, layout: Layouts]
    /\ catalog \subseteq CatalogRow
    /\ receipts \subseteq Receipt
    /\ files \in [Generations -> GenerationFiles]
    /\ tree \in Contents
    /\ grants \in [Writers -> SUBSET Permissions]
    /\ attempt \in [Writers -> Attempt]

\* Files first, catalog last: whatever the catalog names is on disk, complete,
\* flushed and holds exactly that snapshot, after every crash, power loss,
\* cancellation and lost race (publication.py, "Complete files first").
CatalogComplete == \A c \in catalog : Complete(c.generation, c.snapshot)

\* The cross-check that get_generation_attribution runs on what it reads, and
\* answers with STATE_CORRUPT when it fails, can never fail: the latest receipt
\* of a catalogued snapshot agrees with the head it is compared with.
AttributionSound ==
    \A c \in catalog :
      LET published == {r \in receipts : r.snapshot = c.snapshot}
      IN \E r \in published :
           /\ \A other \in published : other.revision <= r.revision
           /\ r.revision = r.expected.revision + 1
           /\ r.revision <= head.revision
           /\ r.expected.source <= head.source
           /\ (head.snapshot = c.snapshot) => (r.revision = head.revision)
           /\ (r.revision = head.revision) => (r.snapshot = head.snapshot)

\* A call that answers "committed" is backed by a durable receipt of its own
\* operation, expected head and content, whichever of the four places answered
\* (replay before capture, replay in the transaction, commit, reconciliation);
\* and a call that raises a definite error has not moved the head: only a crash or
\* PUBLICATION_OUTCOME_UNKNOWN may hide a commit.
AcknowledgedIsDurable ==
    \A w \in Writers :
      attempt[w].outcome = "committed" =>
        \E r \in receipts :
          /\ r.operation = attempt[w].operation
          /\ r.expected = attempt[w].expected
          /\ attempt[w].snapshot \in {NoSnapshot, r.snapshot}
DefiniteFailureIsNotCommitted ==
    \A w \in Writers : attempt[w].outcome \in Errors => ~attempt[w].applied
AnswersAreTrue == AcknowledgedIsDurable /\ DefiniteFailureIsNotCommitted

\* The branches that diagnose a broken state invariant ("Catalog changed without
\* a head transition", a reused generation that does not verify) are dead under
\* every interleaving of publications of equal content.
NeverCorrupt ==
    \A w \in Writers : attempt[w].outcome \notin {"STATE_CORRUPT", "SNAPSHOT_CORRUPT"}

\* The bytes that replace a head were read while exactly that head, revision and
\* configuration included, was current, and the receipt gives them the revision
\* after it: an old capture never overtakes a newer publication, not even one that
\* put the same content there again.
CapturedAtExpectedHead ==
    \A w \in Writers :
      LET a == attempt[w]
      IN a.applied =>
           /\ a.seen = a.expected
           /\ \E r \in receipts :
                /\ r.operation = a.operation
                /\ r.expected = a.seen /\ r.snapshot = a.snapshot
                /\ r.revision = a.seen.revision + 1

\* A snapshot is published with the source layers that were configured at the
\* source revision its receipt records.
PublishedUnderItsConfiguration ==
    \A r \in receipts :
      [source |-> r.expected.source, layout |-> r.snapshot[1]] \in configurations

\* Publication behaves as one compare-and-set register with idempotent operations.
Promise == INSTANCE VersionedHead
ImplementsPromise == Promise!Spec
=============================================================================
