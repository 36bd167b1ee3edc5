-------------------------- MODULE PublicationProofs --------------------------
(* Proofs about Publication for every value of its constants: types, the      *)
(* refinement of the compare-and-set head, the invariants of the shared state, *)
(* and what a call answers.                                                  *)
EXTENDS Publication, TLAPS

USE RevisionAssumption, LayoutAssumption, NullAssumption, BackendAssumption

-----------------------------------------------------------------------------
(* Types, strengthened by what the steps of a call have already produced.   *)

Owning == {"read", "build", "flush", "select", "check", "commit", "reconcile", "release"}
Named == Owning \ {"read"}
Running == Owning \union {"lookup", "capture"}
Typed(w) ==
    /\ attempt[w].pc \in Running => attempt[w].operation \in Operations
    /\ attempt[w].pc \in Owning => attempt[w].generation \in Generations
    /\ attempt[w].pc \in Named => attempt[w].snapshot \in Snapshots
TypeInv == TypeOK /\ \A w \in Writers : Typed(w)

TypedRecord(a) ==
    /\ a \in Attempt
    /\ a.pc \in Running => a.operation \in Operations
    /\ a.pc \in Owning => a.generation \in Generations
    /\ a.pc \in Named => a.snapshot \in Snapshots

\* A call that has ended owns and names nothing.
LEMMA EndTyped ==
    ASSUME NEW a \in Attempt, NEW outcome \in Outcomes
    PROVE  TypedRecord([a EXCEPT !.pc = "done", !.outcome = outcome])
  <1> DEFINE b == [a EXCEPT !.pc = "done", !.outcome = outcome]
  <1>1. b \in Attempt
    BY DEF Attempt, Steps
  <1>2. b.pc = "done"
    BY DEF Attempt
  <1>3. "done" \notin Running \union Owning \union Named
    BY DEF Running, Owning, Named
  <1> QED BY <1>1, <1>2, <1>3 DEF TypedRecord

\* A committed call that goes on with its operation, generation and snapshot.
LEMMA AppliedTyped ==
    ASSUME NEW a \in Attempt, NEW pc \in {"reconcile", "release"},
           a.operation \in Operations, a.generation \in Generations, a.snapshot \in Snapshots
    PROVE  TypedRecord([a EXCEPT !.applied = TRUE, !.pc = pc])
  <1> DEFINE b == [a EXCEPT !.applied = TRUE, !.pc = pc]
  <1>1. b \in Attempt
    BY DEF Attempt, Steps
  <1>2. b.operation = a.operation /\ b.generation = a.generation /\ b.snapshot = a.snapshot
    BY DEF Attempt
  <1> QED BY <1>1, <1>2 DEF TypedRecord

\* Replacing one call by a well-typed one keeps all calls well typed.
LEMMA PutTyped ==
    ASSUME TypeInv, NEW w \in Writers, NEW a, TypedRecord(a),
           Put(w, a)
    PROVE  attempt' \in [Writers -> Attempt] /\ \A u \in Writers : Typed(u)'
  BY DEF Put, TypeInv, TypeOK, Typed, TypedRecord

\* A finished call is well typed whatever it did before.
LEMMA FinishTyped ==
    ASSUME TypeInv, NEW w \in Writers, NEW outcome \in Outcomes, Finish(w, outcome)
    PROVE  attempt' \in [Writers -> Attempt] /\ \A u \in Writers : Typed(u)'
  <1> DEFINE a == [attempt[w] EXCEPT !.pc = "done", !.outcome = outcome]
  <1>1. TypedRecord(a)
    BY EndTyped DEF TypeInv, TypeOK
  <1> QED BY <1>1, PutTyped DEF Finish

\* Moving on keeps a call well typed when the next step needs nothing new.
LEMMA GotoTyped ==
    ASSUME TypeInv, NEW w \in Writers, NEW pc \in Steps, Goto(w, pc),
           pc \in Running => attempt[w].operation \in Operations,
           pc \in Owning => attempt[w].generation \in Generations,
           pc \in Named => attempt[w].snapshot \in Snapshots
    PROVE  attempt' \in [Writers -> Attempt] /\ \A u \in Writers : Typed(u)'
  <1> DEFINE a == [attempt[w] EXCEPT !.pc = pc]
  <1>1. a \in Attempt
    BY DEF TypeInv, TypeOK, Attempt
  <1>2. a.pc = pc /\ a.operation = attempt[w].operation
        /\ a.generation = attempt[w].generation /\ a.snapshot = attempt[w].snapshot
    BY DEF TypeInv, TypeOK, Attempt
  <1>3. TypedRecord(a)
    BY <1>1, <1>2 DEF TypedRecord
  <1> QED BY <1>3, PutTyped DEF Goto

LEMMA FirstLayoutTyped == FirstLayout \in Layouts
  BY DEF FirstLayout

LEMMA FirstHeadTyped == FirstHead \in ProjectHead
  BY DEF FirstHead, ProjectHead

LEMMA AnswerTyped == \A w, r : Answer(w, r) \in {"committed", "OPERATION_CONFLICT"}
  BY DEF Answer

LEMMA HeadErrorTyped ==
    \A w : HeadError(w) \in {"SOURCE_CONFIGURATION_CONFLICT", "HEAD_CONFLICT"}
  BY DEF HeadError

LEMMA OutcomesListed ==
    /\ Errors \subseteq Outcomes
    /\ {"committed", "crashed", "PUBLICATION_OUTCOME_UNKNOWN"} \subseteq Outcomes
    /\ {"PROJECT_FORBIDDEN", "OPERATION_CONFLICT", "SOURCE_CONFIGURATION_CONFLICT",
        "HEAD_CONFLICT", "SOURCE_CAPTURE_CHANGED", "GRAPH_BUILD_FAILED",
        "GRAPH_SCANNER_CANCELLED", "SNAPSHOT_CORRUPT", "STATE_CORRUPT", "STATE_BUSY",
        "STATE_UNAVAILABLE"} \subseteq Errors
  BY DEF Outcomes, Errors

\* What the write transaction has established when it publishes.
LEMMA VerdictPublish ==
    ASSUME NEW w \in Writers, Verdict(w) = "publish"
    PROVE  /\ FindPublication(attempt[w].operation) = {}
           /\ head = attempt[w].expected
           /\ Selected(w) = {attempt[w].existing} \ {NoGeneration}
           /\ head.revision # MaxRevision
           /\ layout = attempt[w].layout
  BY AnswerTyped, HeadErrorTyped DEF Verdict, HeadMoved, Exhausted

LEMMA LocatorTyped ==
    ASSUME TypeInv, NEW w \in Writers, attempt[w].pc \in Owning
    PROVE  Locator(w) \in Generations
  BY DEF TypeInv, TypeOK, Typed, Locator, Attempt

LEMMA CommittedTyped ==
    ASSUME TypeInv, NEW w \in Writers, Committed(w), attempt[w].pc \in {"commit", "reconcile"}
    PROVE  attempt' \in [Writers -> Attempt] /\ \A u \in Writers : Typed(u)'
  <1>1. CASE Backend = "linux"
    BY <1>1, FinishTyped, OutcomesListed DEF Committed
  <1>2. CASE Backend # "linux"
    BY <1>2, GotoTyped DEF Committed, Steps, Running, Owning, Named, TypeInv, Typed
  <1> QED BY <1>1, <1>2

\* The part of TypeInv that does not speak of calls.
SharedTyped ==
    /\ head \in ProjectHead
    /\ layout \in Layouts
    /\ configurations \subseteq [source: 1..MaxSource, layout: Layouts]
    /\ catalog \subseteq CatalogRow
    /\ receipts \subseteq Receipt
    /\ files \in [Generations -> GenerationFiles]
    /\ tree \in Contents
    /\ grants \in [Writers -> SUBSET Permissions]

LEMMA SharedUnchanged ==
    ASSUME TypeInv, UNCHANGED <<store, tree, grants>>,
           files' \in [Generations -> GenerationFiles]
    PROVE  SharedTyped'
  BY DEF TypeInv, TypeOK, SharedTyped, store

LEMMA TypeInit == Init => TypeInv
  <1> SUFFICES ASSUME Init PROVE TypeInv
    OBVIOUS
  <1> DEFINE a == [NewAttempt(NoOperation, FirstHead) EXCEPT !.pc = "idle"]
  <1>1. a \in Attempt /\ a.pc = "idle"
    BY FirstHeadTyped, FirstLayoutTyped DEF NewAttempt, Attempt, Steps, Outcomes
  <1>2. attempt = [w \in Writers |-> a]
    BY DEF Init
  <1>3. files \in [Generations -> GenerationFiles]
    BY DEF Init, GenerationFiles, Stages
  <1>4. configurations \subseteq [source: 1..MaxSource, layout: Layouts]
    BY FirstLayoutTyped DEF Init
  <1>5. TypeOK
    BY <1>1, <1>2, <1>3, <1>4, FirstHeadTyped, FirstLayoutTyped DEF Init, TypeOK
  <1>6. \A w \in Writers : Typed(w)
    BY <1>1, <1>2 DEF Typed, Running, Owning, Named
  <1> QED BY <1>5, <1>6 DEF TypeInv

LEMMA TypeStep == TypeInv /\ [Next]_vars => TypeInv'
  <1> SUFFICES ASSUME TypeInv, [Next]_vars
               PROVE  SharedTyped' /\ attempt' \in [Writers -> Attempt]
                        /\ \A u \in Writers : Typed(u)'
    BY DEF SharedTyped, TypeInv, TypeOK
  <1> USE OutcomesListed
  <1>1. ASSUME NEW w \in Writers, Call(w)
        PROVE  SharedTyped' /\ attempt' \in [Writers -> Attempt] /\ \A u \in Writers : Typed(u)'
    <2>1. PICK o \in Operations, expected \in {head, attempt[w].expected} :
            Put(w, NewAttempt(o, expected))
      BY <1>1 DEF Call
    <2>2. expected \in ProjectHead
      BY DEF TypeInv, TypeOK, Attempt
    <2>3. TypedRecord(NewAttempt(o, expected))
      BY <2>2, FirstHeadTyped, FirstLayoutTyped
         DEF TypedRecord, NewAttempt, Attempt, Steps, Outcomes, Running, Owning, Named
    <2> QED BY <1>1, <2>1, <2>3, PutTyped, SharedUnchanged DEF Call, TypeInv, TypeOK
  <1>2. ASSUME NEW w \in Writers, Lookup(w) \/ Gate(w) \/ Cancel(w) \/ Unavailable(w) \/ Crash(w)
        PROVE  SharedTyped' /\ attempt' \in [Writers -> Attempt] /\ \A u \in Writers : Typed(u)'
    <2>1. SharedTyped'
      BY <1>2, SharedUnchanged DEF Lookup, Gate, Cancel, Unavailable, Crash, TypeInv, TypeOK
    <2>2. \/ \E outcome \in Outcomes : Finish(w, outcome)
          \/ Goto(w, "capture") /\ attempt[w].operation \in Operations
      BY <1>2, AnswerTyped, HeadErrorTyped
         DEF Lookup, Gate, Cancel, Unavailable, Crash, At, TypeInv, Typed, Running
    <2> QED BY <2>1, <2>2, FinishTyped, GotoTyped DEF Steps, Running, Owning, Named
  <1>3. ASSUME NEW w \in Writers, StartCapture(w)
        PROVE  SharedTyped' /\ attempt' \in [Writers -> Attempt] /\ \A u \in Writers : Typed(u)'
    <2>1. CASE UNCHANGED files /\ \E outcome \in Outcomes : Finish(w, outcome)
      BY <1>3, <2>1, FinishTyped, SharedUnchanged DEF StartCapture, TypeInv, TypeOK
    <2>2. CASE \E g \in Generations :
               /\ files' = [files EXCEPT ![g].stage = "captured"]
               /\ Put(w, [attempt[w] EXCEPT !.pc = "read", !.generation = g, !.layout = layout])
      <3>1. PICK g \in Generations :
               /\ files' = [files EXCEPT ![g].stage = "captured"]
               /\ Put(w, [attempt[w] EXCEPT !.pc = "read", !.generation = g, !.layout = layout])
        BY <2>2
      <3>2. files' \in [Generations -> GenerationFiles]
        BY <3>1 DEF TypeInv, TypeOK, GenerationFiles, Stages
      <3>3. TypedRecord([attempt[w] EXCEPT !.pc = "read", !.generation = g, !.layout = layout])
        <4>1. attempt[w] \in Attempt /\ attempt[w].operation \in Operations /\ layout \in Layouts
          BY <1>3 DEF StartCapture, At, Typed, TypeInv, TypeOK, Running
        <4> QED BY <4>1 DEF TypedRecord, Running, Owning, Named, Attempt, Steps
      <3> QED BY <1>3, <3>1, <3>2, <3>3, PutTyped, SharedUnchanged DEF StartCapture
    <2> QED BY <1>3, <2>1, <2>2, HeadErrorTyped DEF StartCapture
  <1>4. ASSUME NEW w \in Writers, ReadSources(w)
        PROVE  SharedTyped' /\ attempt' \in [Writers -> Attempt] /\ \A u \in Writers : Typed(u)'
    <2>1. SharedTyped'
      BY <1>4, SharedUnchanged DEF ReadSources, TypeInv, TypeOK
    <2>2. CASE Finish(w, "SOURCE_CAPTURE_CHANGED")
      BY <2>1, <2>2, FinishTyped
    <2>3. CASE Put(w, [attempt[w] EXCEPT !.pc = "build", !.snapshot = <<attempt[w].layout, tree>>,
                                      !.seen = head])
      <3>1. <<attempt[w].layout, tree>> \in Snapshots
        BY DEF TypeInv, TypeOK, Attempt, Snapshots
      <3>2. TypedRecord([attempt[w] EXCEPT !.pc = "build",
                           !.snapshot = <<attempt[w].layout, tree>>, !.seen = head])
        <4> DEFINE a == attempt[w]
                   b == [a EXCEPT !.pc = "build", !.snapshot = <<a.layout, tree>>, !.seen = head]
        <4>1. a \in Attempt /\ head \in ProjectHead /\ a.pc = "read"
          BY <1>4 DEF ReadSources, At, TypeInv, TypeOK
        <4>2. a.operation \in Operations /\ a.generation \in Generations
          BY <4>1 DEF TypeInv, Typed, Running, Owning
        <4>3. b \in Attempt
          BY <3>1, <4>1 DEF Attempt, Steps
        <4>4. b.operation = a.operation /\ b.generation = a.generation
              /\ b.snapshot = <<a.layout, tree>>
          BY <4>1 DEF Attempt
        <4> QED BY <3>1, <4>2, <4>3, <4>4 DEF TypedRecord
      <3> QED BY <2>1, <2>3, <3>2, PutTyped
    <2> QED BY <1>4, <2>2, <2>3 DEF ReadSources
  <1>5. ASSUME NEW w \in Writers, Build(w) \/ Flush(w)
        PROVE  SharedTyped' /\ attempt' \in [Writers -> Attempt] /\ \A u \in Writers : Typed(u)'
    <2>1. /\ attempt[w].generation \in Generations /\ attempt[w].snapshot \in Snapshots
          /\ attempt[w].operation \in Operations
      BY <1>5 DEF Build, Flush, At, TypeInv, Typed, Running, Owning, Named
    <2>2. files' \in [Generations -> GenerationFiles]
      BY <1>5, <2>1 DEF Build, Flush, TypeInv, TypeOK, GenerationFiles, Stages
    <2>3. (\E outcome \in Outcomes : Finish(w, outcome)) \/ Goto(w, "flush") \/ Goto(w, "select")
      BY <1>5 DEF Build, Flush
    <2>4. SharedTyped'
      BY <1>5, <2>2, SharedUnchanged DEF Build, Flush
    <2> QED BY <2>1, <2>3, <2>4, FinishTyped, GotoTyped DEF Steps
  <1>6. ASSUME NEW w \in Writers, Select(w)
        PROVE  SharedTyped' /\ attempt' \in [Writers -> Attempt] /\ \A u \in Writers : Typed(u)'
    <2>1. SharedTyped'
      BY <1>6, SharedUnchanged DEF Select, TypeInv, TypeOK
    <2>2. CASE (\E outcome \in Outcomes : Finish(w, outcome)) \/ Goto(w, "check")
      BY <1>6, <2>1, <2>2, FinishTyped, GotoTyped DEF Select, At, Steps, TypeInv, Typed, Running, Owning, Named
    <2>3. ASSUME NEW c \in FindSnapshot(attempt[w].snapshot),
                 Put(w, [attempt[w] EXCEPT !.pc = "check", !.existing = c.generation])
          PROVE  attempt' \in [Writers -> Attempt] /\ \A u \in Writers : Typed(u)'
      <3>1. c.generation \in Generations
        BY DEF FindSnapshot, TypeInv, TypeOK, CatalogRow
      <3>2. TypedRecord([attempt[w] EXCEPT !.pc = "check", !.existing = c.generation])
        <4> DEFINE a == attempt[w]
                   b == [a EXCEPT !.pc = "check", !.existing = c.generation]
        <4>1. a \in Attempt /\ a.pc = "select"
          BY <1>6 DEF Select, At, TypeInv, TypeOK
        <4>2. a.operation \in Operations /\ a.generation \in Generations /\ a.snapshot \in Snapshots
          BY <4>1 DEF TypeInv, Typed, Running, Owning, Named
        <4>3. b \in Attempt
          BY <3>1, <4>1 DEF Attempt, Steps
        <4>4. b.operation = a.operation /\ b.generation = a.generation /\ b.snapshot = a.snapshot
          BY <4>1 DEF Attempt
        <4> QED BY <4>2, <4>3, <4>4 DEF TypedRecord
      <3> QED BY <2>3, <3>2, PutTyped
    <2> QED BY <1>6, <2>1, <2>2, <2>3 DEF Select
  <1>7. ASSUME NEW w \in Writers, Check(w) \/ Refuse(w) \/ LoseCommit(w) \/ Reconcile(w) \/ Release(w)
        PROVE  SharedTyped' /\ attempt' \in [Writers -> Attempt] /\ \A u \in Writers : Typed(u)'
    <2>1. SharedTyped'
      BY <1>7, SharedUnchanged
         DEF Check, Refuse, LoseCommit, Reconcile, Release, TypeInv, TypeOK
    <2>2. /\ attempt[w].pc \in {"check", "commit", "reconcile", "release"}
          /\ attempt[w].generation \in Generations /\ attempt[w].snapshot \in Snapshots
          /\ attempt[w].operation \in Operations
      BY <1>7 DEF Check, Refuse, LoseCommit, Reconcile, Release, At, TypeInv, Typed, Running, Owning, Named
    <2>3. \/ \E outcome \in Outcomes : Finish(w, outcome)
          \/ Goto(w, "commit") \/ Goto(w, "reconcile")
          \/ Committed(w) /\ attempt[w].pc \in {"commit", "reconcile"}
      BY <1>7, AnswerTyped DEF Check, Refuse, LoseCommit, Reconcile, Release, At
    <2> QED BY <2>1, <2>2, <2>3, FinishTyped, GotoTyped, CommittedTyped DEF Steps
  <1>8. ASSUME NEW w \in Writers, Publish(w)
        PROVE  SharedTyped' /\ attempt' \in [Writers -> Attempt] /\ \A u \in Writers : Typed(u)'
    <2> DEFINE a == attempt[w]
               next == [revision |-> head.revision + 1, snapshot |-> a.snapshot, source |-> head.source]
    <2>1. At(w, "commit") /\ Verdict(w) = "publish"
      BY <1>8 DEF Publish
    <2>2. /\ a \in Attempt /\ a.operation \in Operations
          /\ a.generation \in Generations /\ a.snapshot \in Snapshots
      BY <2>1 DEF At, TypeInv, TypeOK, Typed, Running, Owning, Named
    <2>3. next \in ProjectHead /\ next.revision \in 1..MaxRevision
      <3>1. head.revision \in 0..MaxRevision /\ head.revision # MaxRevision /\ head \in ProjectHead
        BY <2>1, VerdictPublish DEF TypeInv, TypeOK, ProjectHead
      <3>3. head.revision + 1 \in 1..MaxRevision
        BY <3>1
      <3> QED BY <2>2, <3>1, <3>3 DEF ProjectHead
    <2>4. Locator(w) \in Generations
      BY <2>1, LocatorTyped DEF At, Owning
    <2>5. catalog' \subseteq CatalogRow
      BY <1>8, <2>2, <2>4 DEF Publish, TypeInv, TypeOK, CatalogRow
    <2>6. receipts' \subseteq Receipt
      BY <1>8, <2>2, <2>3 DEF Publish, TypeInv, TypeOK, Receipt, Attempt
    <2>7. SharedTyped'
      BY <1>8, <2>3, <2>5, <2>6 DEF Publish, SharedTyped, TypeInv, TypeOK
    <2>8. PICK b \in {[a EXCEPT !.applied = TRUE, !.pc = "reconcile"],
                      [a EXCEPT !.applied = TRUE, !.pc = "release"],
                      [a EXCEPT !.applied = TRUE, !.pc = "done", !.outcome = "committed"]} :
            Put(w, b)
      BY <1>8 DEF Publish
    <2>9. TypedRecord(b)
      <3>1. [a EXCEPT !.applied = TRUE] \in Attempt
        BY <2>2 DEF Attempt
      <3>2. CASE b = [a EXCEPT !.applied = TRUE, !.pc = "done", !.outcome = "committed"]
        <4>1. b = [[a EXCEPT !.applied = TRUE] EXCEPT !.pc = "done", !.outcome = "committed"]
          BY <3>2, <2>2 DEF Attempt
        <4> QED BY <3>1, <4>1, EndTyped, OutcomesListed
      <3>3. CASE b # [a EXCEPT !.applied = TRUE, !.pc = "done", !.outcome = "committed"]
        BY <2>2, <2>8, <3>3, AppliedTyped
      <3> QED BY <3>2, <3>3
    <2> QED BY <2>7, <2>8, <2>9, PutTyped
  <1>9. CASE PowerLoss
    <2>1. files' \in [Generations -> GenerationFiles]
      BY <1>9 DEF PowerLoss, TypeInv, TypeOK, GenerationFiles, Stages
    <2>2. ASSUME NEW w \in Writers
          PROVE  attempt'[w] \in Attempt /\ Typed(w)'
      <3>1. attempt[w] \in Attempt /\ TypedRecord(attempt[w])
        BY DEF TypeInv, TypeOK, Typed, TypedRecord
      <3>2. TypedRecord([attempt[w] EXCEPT !.pc = "done", !.outcome = "crashed"])
        BY <3>1, EndTyped, OutcomesListed
      <3>3. TypedRecord(attempt'[w])
        BY <1>9, <3>1, <3>2 DEF PowerLoss
      <3> QED BY <3>3 DEF TypedRecord, Typed
    <2>3. attempt' = [w \in Writers |-> attempt'[w]]
      BY <1>9 DEF PowerLoss
    <2> QED BY <1>9, <2>1, <2>2, <2>3, SharedUnchanged DEF PowerLoss
  <1>10. ASSUME NEW l \in Layouts, ConfigureSourceLayers(l)
         PROVE  SharedTyped' /\ attempt' \in [Writers -> Attempt] /\ \A u \in Writers : Typed(u)'
    BY <1>10 DEF ConfigureSourceLayers, SharedTyped, TypeInv, TypeOK, Typed, ProjectHead
  <1>11. ASSUME NEW w \in Writers, NEW permissions \in {{}, {"project:read"}, Permissions},
                SetMembership(w, permissions)
         PROVE  SharedTyped' /\ attempt' \in [Writers -> Attempt] /\ \A u \in Writers : Typed(u)'
    BY <1>11 DEF SetMembership, SharedTyped, TypeInv, TypeOK, Typed, store, Permissions
  <1>12. ASSUME NEW c \in Contents, EditSource(c)
         PROVE  SharedTyped' /\ attempt' \in [Writers -> Attempt] /\ \A u \in Writers : Typed(u)'
    BY <1>12 DEF EditSource, SharedTyped, TypeInv, TypeOK, Typed, store
  <1>13. CASE UNCHANGED vars
    BY <1>13 DEF vars, store, SharedTyped, TypeInv, TypeOK, Typed
  <1> QED
    BY <1>1, <1>2, <1>3, <1>4, <1>5, <1>6, <1>7, <1>8, <1>9, <1>10, <1>11, <1>12, <1>13
       DEF Next, Write

\* Every reachable state is well typed: in particular the head's revision stays
\* within its column and a publication always has a generation to point at.
THEOREM TypeCorrect == Spec => []TypeOK
  <1>1. Spec => []TypeInv
    BY TypeInit, TypeStep, PTL DEF Spec
  <1>2. TypeInv => TypeOK
    BY DEF TypeInv
  <1> QED BY <1>1, <1>2, PTL

-----------------------------------------------------------------------------
(* Only two kinds of step touch the state database.                         *)

LEMMA StoreStep ==
    ASSUME [Next]_vars
    PROVE  \/ UNCHANGED store
           \/ \E w \in Writers : Publish(w)
           \/ \E l \in Layouts : ConfigureSourceLayers(l)
  <1>1. ASSUME NEW w \in Writers, Call(w) \/ Write(w) \/ Crash(w)
        PROVE  UNCHANGED store \/ Publish(w)
    BY <1>1 DEF Call, Write, Lookup, StartCapture, Gate, ReadSources, Build, Flush, Select, Check,
                Cancel, Refuse, LoseCommit, Unavailable, Reconcile, Release, Crash
  <1>2. ASSUME NEW w \in Writers, NEW permissions, SetMembership(w, permissions)
        PROVE  UNCHANGED store
    BY <1>2 DEF SetMembership
  <1>3. ASSUME NEW c, EditSource(c) PROVE UNCHANGED store
    BY <1>3 DEF EditSource
  <1>4. PowerLoss => UNCHANGED store
    BY DEF PowerLoss
  <1>5. UNCHANGED vars => UNCHANGED store
    BY DEF vars
  <1> QED BY <1>1, <1>2, <1>3, <1>4, <1>5 DEF Next

\* What a publication writes, told from the head it replaces.
LEMMA PublishWrites ==
    ASSUME TypeInv, NEW w \in Writers, Publish(w)
    PROVE  LET a == attempt[w]
               new == [operation |-> a.operation, expected |-> head, snapshot |-> a.snapshot,
                       revision |-> head.revision + 1]
           IN /\ a.operation \in Operations /\ a.snapshot \in Snapshots
              /\ \A r \in receipts : r.operation # a.operation
              /\ head' = [revision |-> head.revision + 1, snapshot |-> a.snapshot,
                          source |-> head.source]
              /\ receipts' = receipts \union {new}
              /\ catalog' = catalog \union {[snapshot |-> a.snapshot, generation |-> Locator(w)]}
              /\ layout' = layout /\ configurations' = configurations
  <1>1. At(w, "commit") /\ Verdict(w) = "publish"
    BY DEF Publish
  <1>2. FindPublication(attempt[w].operation) = {} /\ head = attempt[w].expected
    BY <1>1, VerdictPublish
  <1>3. attempt[w].operation \in Operations /\ attempt[w].snapshot \in Snapshots
    BY <1>1 DEF At, TypeInv, Typed, Running, Owning, Named
  <1>4. \A r \in receipts : r.operation # attempt[w].operation
    BY <1>2 DEF FindPublication
  <1> QED BY <1>2, <1>3, <1>4 DEF Publish

-----------------------------------------------------------------------------
(* Refinement.                                                              *)

LEMMA PromiseInit == Init => Promise!Init
  BY DEF Init, Promise!Init, FirstHead

LEMMA PromiseStep == TypeInv /\ [Next]_vars => [Promise!Next]_Promise!promised
  <1> SUFFICES ASSUME TypeInv, [Next]_vars PROVE [Promise!Next]_Promise!promised
    OBVIOUS
  <1>1. CASE UNCHANGED store
    BY <1>1 DEF store, Promise!promised
  <1>2. ASSUME NEW w \in Writers, Publish(w) PROVE Promise!Next
    <2>1. Promise!Publish(attempt[w].operation, attempt[w].snapshot)
      BY <1>2, PublishWrites DEF Promise!Publish
    <2>2. attempt[w].operation \in Operations /\ attempt[w].snapshot \in Snapshots
      BY <1>2, PublishWrites
    <2> QED BY <2>1, <2>2 DEF Promise!Next
  <1>3. ASSUME NEW l \in Layouts, ConfigureSourceLayers(l) PROVE Promise!Next
    BY <1>3 DEF ConfigureSourceLayers, Promise!Next, Promise!Reconfigure
  <1> QED BY <1>1, <1>2, <1>3, StoreStep

\* Capture, files, two backends, lost commits, crashes and power losses together
\* behave as one compare-and-set head with idempotent operations.
THEOREM PublicationImplementsPromise == Spec => ImplementsPromise
  <1>1. Spec => []TypeInv
    BY TypeInit, TypeStep, PTL DEF Spec
  <1>2. Spec => Promise!Spec
    BY <1>1, PromiseInit, PromiseStep, PTL DEF Spec, Promise!Spec
  <1> QED BY <1>2 DEF ImplementsPromise

-----------------------------------------------------------------------------
(* Head, catalog and receipts agree.                                        *)

ReceiptsBehindHead ==
    \A r \in receipts :
      /\ r.revision = r.expected.revision + 1
      /\ r.revision <= head.revision
      /\ r.expected.source <= head.source
HeadHasReceipt ==
    /\ head.revision = 0 => head.snapshot = NoSnapshot
    /\ head.revision # 0 =>
         \E r \in receipts : r.revision = head.revision /\ r.snapshot = head.snapshot
ReceiptsUnique ==
    \A r, s \in receipts : r.operation = s.operation \/ r.revision = s.revision => r = s
\* The receipt that get_generation_attribution reads for a catalog row, and the
\* checks that it makes.
Attributes(r, c) ==
    /\ r.snapshot = c.snapshot
    /\ \A other \in receipts : other.snapshot = c.snapshot => other.revision <= r.revision
    /\ r.revision = r.expected.revision + 1
    /\ r.revision <= head.revision
    /\ r.expected.source <= head.source
    /\ (head.snapshot = c.snapshot) => (r.revision = head.revision)
    /\ (r.revision = head.revision) => (r.snapshot = head.snapshot)
Attributed == \A c \in catalog : \E r \in receipts : Attributes(r, c)
HeadInv == TypeInv /\ ReceiptsBehindHead /\ HeadHasReceipt /\ ReceiptsUnique /\ Attributed

LEMMA HeadInit == Init => HeadInv
  BY TypeInit DEF Init, FirstHead, HeadInv, ReceiptsBehindHead, HeadHasReceipt, ReceiptsUnique,
                  Attributed

LEMMA HeadPublish ==
    ASSUME HeadInv, NEW w \in Writers, Publish(w)
    PROVE  /\ ReceiptsBehindHead' /\ HeadHasReceipt' /\ ReceiptsUnique' /\ Attributed'
  <1>a. PICK new : new = [operation |-> attempt[w].operation, expected |-> head,
                          snapshot |-> attempt[w].snapshot, revision |-> head.revision + 1]
    OBVIOUS
  <1>1. /\ \A r \in receipts : r.operation # new.operation
        /\ head' = [revision |-> head.revision + 1, snapshot |-> new.snapshot,
                    source |-> head.source]
        /\ receipts' = receipts \union {new}
        /\ \A c \in catalog' : c \in catalog \/ c.snapshot = new.snapshot
    BY <1>a, PublishWrites DEF HeadInv
  <1>0. /\ new \in receipts'
        /\ head'.revision = new.revision /\ head'.snapshot = new.snapshot
        /\ head'.source = head.source
        /\ new.revision = head.revision + 1 /\ new.expected = head
    BY <1>a, <1>1
  <1>2. /\ head.revision \in Nat /\ head.source \in Nat
        /\ \A r \in receipts : r.revision \in Nat /\ r.expected.source \in Nat
    BY DEF HeadInv, TypeInv, TypeOK, ProjectHead, Receipt
  <1>3. \A r \in receipts : r.revision <= head.revision /\ r.revision # new.revision
    BY <1>0, <1>2 DEF HeadInv, ReceiptsBehindHead
  <1>4. ReceiptsBehindHead'
    BY <1>0, <1>1, <1>2 DEF HeadInv, ReceiptsBehindHead
  <1>5. HeadHasReceipt'
    BY <1>0, <1>2 DEF HeadHasReceipt
  <1>6. ReceiptsUnique'
    BY <1>1, <1>3 DEF HeadInv, ReceiptsUnique
  <1>7. ASSUME NEW c \in catalog'
        PROVE  \E r \in receipts' : Attributes(r, c)'
    <2>1. CASE c.snapshot = new.snapshot
      <3>1. Attributes(new, c)'
        <4>1. \A other \in receipts' : other.revision <= new.revision
          BY <1>0, <1>1, <1>2, <1>3
        <4> QED BY <1>0, <1>2, <2>1, <4>1 DEF Attributes
      <3> QED BY <1>0, <3>1
    <2>2. CASE c.snapshot # new.snapshot
      <3>1. c \in catalog
        BY <1>1, <2>2
      <3>2. PICK r \in receipts : Attributes(r, c)
        BY <3>1 DEF HeadInv, Attributed
      <3>3. \A other \in receipts' : other.snapshot = c.snapshot => other.revision <= r.revision
        BY <1>1, <2>2, <3>2 DEF Attributes
      <3>4. r.revision <= head'.revision /\ r.revision # head'.revision
            /\ r.expected.source <= head'.source
        BY <1>0, <1>1, <1>2, <1>3, <3>2 DEF Attributes
      <3>5. Attributes(r, c)'
        BY <1>0, <2>2, <3>2, <3>3, <3>4 DEF Attributes
      <3> QED BY <1>1, <3>5
    <2> QED BY <2>1, <2>2
  <1> QED BY <1>4, <1>5, <1>6, <1>7 DEF Attributed

LEMMA HeadConfigure ==
    ASSUME HeadInv, NEW l \in Layouts, ConfigureSourceLayers(l)
    PROVE  /\ ReceiptsBehindHead' /\ HeadHasReceipt' /\ ReceiptsUnique' /\ Attributed'
  <1>1. /\ head'.revision = head.revision /\ head'.snapshot = head.snapshot
        /\ head'.source = head.source + 1
        /\ receipts' = receipts /\ catalog' = catalog
    BY DEF ConfigureSourceLayers, HeadInv, TypeInv, TypeOK, ProjectHead
  <1>2. /\ head.source \in Nat
        /\ \A r \in receipts : r.expected.source \in Nat
    BY DEF HeadInv, TypeInv, TypeOK, ProjectHead, Receipt
  <1>3. \A r \in receipts : r.expected.source <= head.source => r.expected.source <= head'.source
    BY <1>1, <1>2
  <1>4. ReceiptsBehindHead' /\ HeadHasReceipt' /\ ReceiptsUnique'
    BY <1>1, <1>3 DEF HeadInv, ReceiptsBehindHead, HeadHasReceipt, ReceiptsUnique
  <1>5. Attributed'
    BY <1>1, <1>3 DEF HeadInv, Attributed, Attributes
  <1> QED BY <1>4, <1>5

LEMMA HeadStep == HeadInv /\ [Next]_vars => HeadInv'
  <1> SUFFICES ASSUME HeadInv, [Next]_vars
               PROVE  ReceiptsBehindHead' /\ HeadHasReceipt' /\ ReceiptsUnique' /\ Attributed'
    BY TypeStep DEF HeadInv
  <1>1. CASE UNCHANGED store
    BY <1>1 DEF store, HeadInv, ReceiptsBehindHead, HeadHasReceipt, ReceiptsUnique, Attributed, Attributes
  <1> QED BY <1>1, StoreStep, HeadPublish, HeadConfigure

\* No reader of attributions ever meets STATE_CORRUPT: whatever was published,
\* also the same content again under a later revision, agrees with the head.
THEOREM AttributionCorrect == Spec => []AttributionSound
  <1>1. Spec => []HeadInv
    BY HeadInit, HeadStep, PTL DEF Spec
  <1>2. HeadInv => AttributionSound
    <2> SUFFICES ASSUME Attributed, NEW c \in catalog
                 PROVE  LET published == {r \in receipts : r.snapshot = c.snapshot}
                        IN \E r \in published :
                             /\ \A other \in published : other.revision <= r.revision
                             /\ r.revision = r.expected.revision + 1
                             /\ r.revision <= head.revision
                             /\ r.expected.source <= head.source
                             /\ (head.snapshot = c.snapshot) => (r.revision = head.revision)
                             /\ (r.revision = head.revision) => (r.snapshot = head.snapshot)
      BY DEF HeadInv, AttributionSound
    <2> QED BY DEF Attributed, Attributes
  <1> QED BY <1>1, <1>2, PTL

-----------------------------------------------------------------------------
(* Files and catalog.  A writer owns its generation until its transaction;  *)
(* no two own the same one, and nothing the catalog names is owned.         *)

OwnerSteps == {"read", "build", "flush", "select", "check", "commit"}
Owner(a) == a.pc \in OwnerSteps
FilesOK(a) ==
    /\ a.pc \in {"read", "build"} => files[a.generation].stage = "captured"
    /\ a.pc = "flush" => files[a.generation] = [stage |-> "written", snapshot |-> a.snapshot]
    /\ a.pc \in {"select", "check", "commit"} => Complete(a.generation, a.snapshot)
    /\ Owner(a) => \A c \in catalog : c.generation # a.generation
    /\ a.pc = "check" \/ a.pc = "commit" =>
         \/ a.existing = NoGeneration
         \/ [snapshot |-> a.snapshot, generation |-> a.existing] \in catalog
    /\ a.pc \in {"lookup", "capture", "read", "build", "flush", "select"} =>
         a.existing = NoGeneration
OwnersDiffer ==
    \A u, v \in Writers : u # v /\ Owner(attempt[u]) /\ Owner(attempt[v]) =>
      attempt[u].generation # attempt[v].generation
FilesOwned == CatalogComplete /\ OwnersDiffer /\ \A u \in Writers : FilesOK(attempt[u])
FilesInv == TypeInv /\ FilesOwned

LEMMA CompleteStage == \A g, s : Complete(g, s) => files[g].stage = "flushed"
  BY DEF Complete

\* What a writer owns exists, and what the catalog names is flushed.
LEMMA OwnedExists ==
    ASSUME FilesInv
    PROVE  /\ \A u \in Writers : Owner(attempt[u]) =>
                /\ attempt[u].generation \in Generations
                /\ files[attempt[u].generation].stage \in {"captured", "written", "flushed"}
           /\ \A c \in catalog : c.generation \in Generations
                                 /\ files[c.generation].stage = "flushed"
  <1>1. ASSUME NEW u \in Writers, Owner(attempt[u])
        PROVE  /\ attempt[u].generation \in Generations
               /\ files[attempt[u].generation].stage \in {"captured", "written", "flushed"}
    <2>1. attempt[u].generation \in Generations
      BY <1>1 DEF FilesInv, TypeInv, Typed, Owner, OwnerSteps, Owning
    <2>2. FilesOK(attempt[u])
      BY DEF FilesInv, FilesOwned
    <2>3. attempt[u].pc = "flush" => files[attempt[u].generation].stage = "written"
      <3>1. attempt[u].pc = "flush" =>
              files[attempt[u].generation] = [stage |-> "written", snapshot |-> attempt[u].snapshot]
        BY <2>2 DEF FilesOK
      <3> QED BY <3>1
    <2> QED BY <1>1, <2>1, <2>2, <2>3, CompleteStage DEF FilesOK, Owner, OwnerSteps
  <1>2. ASSUME NEW c \in catalog
        PROVE  c.generation \in Generations /\ files[c.generation].stage = "flushed"
    BY CompleteStage DEF FilesInv, FilesOwned, CatalogComplete, TypeInv, TypeOK, CatalogRow
  <1> QED BY <1>1, <1>2

\* A step of w that leaves files and catalog alone and takes no generation.
LEMMA FilesPut ==
    ASSUME FilesInv, NEW w \in Writers, NEW a, Put(w, a), UNCHANGED <<files, catalog>>,
           FilesOK(a), Owner(a) => Owner(attempt[w]) /\ a.generation = attempt[w].generation
    PROVE  FilesOwned'
  <1>1. attempt'[w] = a /\ \A u \in Writers : u # w => attempt'[u] = attempt[u]
    BY DEF Put, FilesInv, TypeInv, TypeOK
  <1>2. CatalogComplete'
    BY DEF FilesInv, FilesOwned, CatalogComplete, Complete
  <1>3. OwnersDiffer'
    BY <1>1 DEF FilesInv, FilesOwned, OwnersDiffer, Owner
  <1>4. \A b : FilesOK(b) => FilesOK(b)'
    BY DEF FilesOK, Complete
  <1>5. ASSUME NEW u \in Writers PROVE FilesOK(attempt[u])'
    <2>1. CASE u = w
      BY <1>1, <1>4, <2>1
    <2>2. CASE u # w
      <3>1. FilesOK(attempt[u])
        BY DEF FilesInv, FilesOwned
      <3> QED BY <1>1, <2>2, <3>1 DEF FilesOK, Complete, Owner
    <2> QED BY <2>1, <2>2
  <1> QED BY <1>2, <1>3, <1>5 DEF FilesOwned

\* A step of w that writes its own generation, or one that did not exist.
LEMMA FilesWrite ==
    ASSUME FilesInv, NEW w \in Writers, NEW a, Put(w, a), UNCHANGED catalog,
           NEW g \in Generations, NEW f, files' = [files EXCEPT ![g] = f],
           \/ Owner(attempt[w]) /\ attempt[w].generation = g
              /\ files[g].stage \in {"captured", "written"}
           \/ files[g].stage = "absent",
           FilesOK(a)', Owner(a) => a.generation = g
    PROVE  FilesOwned'
  <1>1. attempt'[w] = a /\ \A u \in Writers : u # w => attempt'[u] = attempt[u]
    BY DEF Put, FilesInv, TypeInv, TypeOK
  <1>2. \A h \in Generations : h # g => files'[h] = files[h]
    BY DEF FilesInv, TypeInv, TypeOK
  <1>3. \A c \in catalog : c.generation \in Generations /\ c.generation # g
    BY OwnedExists DEF FilesInv, FilesOwned, FilesOK
  <1>4. CatalogComplete'
    BY <1>2, <1>3 DEF FilesInv, FilesOwned, CatalogComplete, Complete
  <1>5. ASSUME NEW u \in Writers, u # w
        PROVE  /\ FilesOK(attempt[u])'
               /\ Owner(attempt[u]) => attempt[u].generation # g
    <2> DEFINE b == attempt[u]
    <2>1. Owner(b) => b.generation \in Generations
      BY DEF FilesInv, TypeInv, Typed, Owner, OwnerSteps, Owning
    <2>2. Owner(b) => b.generation # g
      <3>1. CASE files[g].stage = "absent"
        BY <3>1, OwnedExists
      <3>2. CASE Owner(attempt[w]) /\ attempt[w].generation = g
        BY <1>5, <3>2 DEF FilesInv, FilesOwned, OwnersDiffer
      <3> QED BY <3>1, <3>2
    <2>3. attempt'[u] = attempt[u]
      BY <1>1, <1>5
    <2>4. Owner(b) => files'[b.generation] = files[b.generation]
      BY <1>2, <2>1, <2>2
    <2>5. FilesOK(attempt[u])'
      BY <2>3, <2>4 DEF FilesInv, FilesOwned, FilesOK, Complete, Owner, OwnerSteps
    <2> QED BY <2>2, <2>5
  <1>6. OwnersDiffer'
    BY <1>1, <1>5 DEF FilesInv, FilesOwned, OwnersDiffer, Owner
  <1>7. \A u \in Writers : FilesOK(attempt[u])'
    BY <1>1, <1>5
  <1> QED BY <1>4, <1>6, <1>7 DEF FilesOwned

LEMMA FilesLeave ==
    ASSUME FilesInv, NEW w \in Writers, NEW pc \in {"reconcile", "release", "done"},
           NEW a, a.pc = pc, Put(w, a), UNCHANGED <<files, catalog>>
    PROVE  FilesOwned'
  BY FilesPut DEF FilesOK, Owner, OwnerSteps

LEMMA FilesFinish ==
    ASSUME FilesInv, NEW w \in Writers, NEW outcome, Finish(w, outcome),
           UNCHANGED <<files, catalog>>
    PROVE  FilesOwned'
  <1> DEFINE a == [attempt[w] EXCEPT !.pc = "done", !.outcome = outcome]
  <1>1. a.pc = "done"
    BY DEF FilesInv, TypeInv, TypeOK, Attempt
  <1> QED BY <1>1, FilesLeave DEF Finish

LEMMA FilesGoto ==
    ASSUME FilesInv, NEW w \in Writers, NEW pc \in {"reconcile", "release"}, Goto(w, pc),
           UNCHANGED <<files, catalog>>
    PROVE  FilesOwned'
  <1> DEFINE a == [attempt[w] EXCEPT !.pc = pc]
  <1>1. a.pc = pc
    BY DEF FilesInv, TypeInv, TypeOK, Attempt
  <1> QED BY <1>1, FilesLeave DEF Goto

LEMMA FilesPublish ==
    ASSUME FilesInv, NEW w \in Writers, Publish(w)
    PROVE  FilesOwned'
  <1>1. /\ At(w, "commit") /\ files' = files
        /\ catalog' = catalog \union {[snapshot |-> attempt[w].snapshot, generation |-> Locator(w)]}
    BY DEF Publish
  <1>2. PICK a \in {[attempt[w] EXCEPT !.applied = TRUE, !.pc = "reconcile"],
                    [attempt[w] EXCEPT !.applied = TRUE, !.pc = "release"],
                    [attempt[w] EXCEPT !.applied = TRUE, !.pc = "done", !.outcome = "committed"]} :
          Put(w, a)
    BY DEF Publish
  <1>3. a.pc \in {"reconcile", "release", "done"}
    BY <1>2 DEF FilesInv, TypeInv, TypeOK, Attempt
  <1>4. attempt'[w] = a /\ \A u \in Writers : u # w => attempt'[u] = attempt[u]
    BY <1>2 DEF Put, FilesInv, TypeInv, TypeOK
  <1>5. FilesOK(attempt[w]) /\ Owner(attempt[w])
    BY <1>1 DEF FilesInv, FilesOwned, Owner, OwnerSteps, At
  <1>6. \/ [snapshot |-> attempt[w].snapshot, generation |-> Locator(w)] \in catalog
        \/ Locator(w) = attempt[w].generation /\ Complete(Locator(w), attempt[w].snapshot)
    BY <1>1, <1>5 DEF FilesOK, Locator, At
  <1>7. CatalogComplete'
    <2> SUFFICES ASSUME NEW c \in catalog' PROVE Complete(c.generation, c.snapshot)'
      BY DEF CatalogComplete
    <2>1. Complete(c.generation, c.snapshot)
      <3>1. CASE c \in catalog
        BY <3>1 DEF FilesInv, FilesOwned, CatalogComplete
      <3>2. CASE c = [snapshot |-> attempt[w].snapshot, generation |-> Locator(w)]
        <4>1. c.snapshot = attempt[w].snapshot /\ c.generation = Locator(w)
          BY <3>2
        <4> QED BY <1>6, <3>1, <3>2, <4>1
      <3> QED BY <1>1, <3>1, <3>2
    <2> QED BY <1>1, <2>1 DEF Complete
  <1>8. OwnersDiffer'
    BY <1>3, <1>4 DEF FilesInv, FilesOwned, OwnersDiffer, Owner, OwnerSteps
  <1>9. ASSUME NEW u \in Writers PROVE FilesOK(attempt[u])'
    <2>1. CASE u = w
      BY <1>3, <1>4, <2>1 DEF FilesOK, Owner, OwnerSteps
    <2>2. CASE u # w
      <3>1. FilesOK(attempt[u])
        BY DEF FilesInv, FilesOwned
      <3>2. Owner(attempt[u]) => attempt[u].generation # attempt[w].generation
        BY <1>5, <2>2 DEF FilesInv, FilesOwned, OwnersDiffer
      <3>3. Owner(attempt[u]) => \A c \in catalog' : c.generation # attempt[u].generation
        <4>1. Owner(attempt[u]) => \A c \in catalog : c.generation # attempt[u].generation
          BY <3>1 DEF FilesOK
        <4>2. Owner(attempt[u]) => Locator(w) # attempt[u].generation
          BY <1>6, <3>2, <4>1
        <4> QED BY <1>1, <4>1, <4>2
      <3> QED BY <1>1, <1>4, <2>2, <3>1, <3>3 DEF FilesOK, Complete, Owner
    <2> QED BY <2>1, <2>2
  <1> QED BY <1>7, <1>8, <1>9 DEF FilesOwned

LEMMA FilesPowerLoss ==
    ASSUME FilesInv, PowerLoss
    PROVE  FilesOwned'
  <1>1. catalog' = catalog
    BY DEF PowerLoss, store
  <1>2. \A g \in Generations : files[g].stage = "flushed" => files'[g] = files[g]
    BY DEF PowerLoss
  <1>3. CatalogComplete'
    BY <1>1, <1>2, OwnedExists DEF FilesInv, FilesOwned, CatalogComplete, Complete
  <1>4. \A u \in Writers : attempt'[u].pc \in {"idle", "done"}
    BY DEF PowerLoss, FilesInv, TypeInv, TypeOK, Attempt
  <1>5. OwnersDiffer'
    BY <1>4 DEF OwnersDiffer, Owner, OwnerSteps
  <1>6. \A u \in Writers : FilesOK(attempt[u])'
    BY <1>4 DEF FilesOK, Owner, OwnerSteps
  <1> QED BY <1>3, <1>5, <1>6 DEF FilesOwned

\* The steps of a call before its transaction.
LEMMA FilesWork ==
    ASSUME FilesInv, NEW w \in Writers,
           Call(w) \/ Lookup(w) \/ StartCapture(w) \/ ReadSources(w) \/ Build(w) \/ Flush(w)
             \/ Select(w) \/ Check(w)
    PROVE  FilesOwned'
  <1>1. catalog' = catalog /\ FilesOK(attempt[w]) /\ attempt[w] \in Attempt
    BY DEF Call, Lookup, StartCapture, ReadSources, Build, Flush, Select, Check, store,
           FilesInv, FilesOwned, TypeInv, TypeOK
  <1>2. ASSUME Call(w) PROVE FilesOwned'
    <2>1. PICK o \in Operations, expected \in {head, attempt[w].expected} :
            Put(w, NewAttempt(o, expected))
      BY <1>2 DEF Call
    <2>2. FilesOK(NewAttempt(o, expected)) /\ ~Owner(NewAttempt(o, expected))
      BY DEF FilesOK, Owner, OwnerSteps, NewAttempt
    <2> QED BY <1>1, <1>2, <2>1, <2>2, FilesPut DEF Call
  <1>3. ASSUME UNCHANGED files, NEW outcome, Finish(w, outcome) PROVE FilesOwned'
    BY <1>1, <1>3, FilesFinish
  <1>4. ASSUME Lookup(w) PROVE FilesOwned'
    <2>1. CASE Goto(w, "capture") /\ At(w, "lookup")
      <3> DEFINE a == [attempt[w] EXCEPT !.pc = "capture"]
      <3>1. FilesOK(a) /\ ~Owner(a)
        BY <1>1, <2>1 DEF FilesOK, Owner, OwnerSteps, At, Attempt
      <3> QED BY <1>1, <1>4, <2>1, <3>1, FilesPut DEF Lookup, Goto
    <2> QED BY <1>3, <1>4, <2>1 DEF Lookup
  <1>5. ASSUME StartCapture(w) PROVE FilesOwned'
    <2>1. ASSUME NEW g \in Generations, files[g].stage = "absent",
                 files' = [files EXCEPT ![g].stage = "captured"],
                 Put(w, [attempt[w] EXCEPT !.pc = "read", !.generation = g, !.layout = layout])
          PROVE  FilesOwned'
      <3> DEFINE a == [attempt[w] EXCEPT !.pc = "read", !.generation = g, !.layout = layout]
                 f == [files[g] EXCEPT !.stage = "captured"]
      <3>1. files' = [files EXCEPT ![g] = f]
        BY <2>1
      <3>2. a.pc = "read" /\ a.generation = g /\ a.existing = attempt[w].existing
        BY <1>1 DEF Attempt
      <3>3. files'[g].stage = "captured"
        BY <3>1 DEF FilesInv, TypeInv, TypeOK, GenerationFiles
      <3>4. \A c \in catalog' : c.generation # g
        BY <1>1, <2>1, OwnedExists
      <3>5. attempt[w].existing = NoGeneration
        BY <1>1, <1>5 DEF StartCapture, At, FilesOK
      <3>6. PICK b : b = a
        OBVIOUS
      <3>7. FilesOK(b)'
        BY <3>2, <3>3, <3>4, <3>5, <3>6 DEF FilesOK
      <3>8. PICK h : h = f
        OBVIOUS
      <3> QED BY <1>1, <2>1, <3>1, <3>2, <3>6, <3>7, <3>8, FilesWrite
    <2> QED BY <1>3, <1>5, <2>1 DEF StartCapture
  <1>6. ASSUME ReadSources(w) PROVE FilesOwned'
    <2>1. CASE Put(w, [attempt[w] EXCEPT !.pc = "build", !.snapshot = <<attempt[w].layout, tree>>,
                                      !.seen = head])
      <3> DEFINE a == [attempt[w] EXCEPT !.pc = "build", !.snapshot = <<attempt[w].layout, tree>>,
                                         !.seen = head]
      <3>1. /\ a.pc = "build" /\ a.generation = attempt[w].generation
            /\ a.existing = attempt[w].existing
        BY <1>1 DEF Attempt
      <3>2. attempt[w].pc = "read"
        BY <1>6 DEF ReadSources, At
      <3>3. FilesOK(a) /\ Owner(attempt[w])
        BY <1>1, <3>1, <3>2 DEF FilesOK, Owner, OwnerSteps
      <3> QED BY <1>1, <1>6, <2>1, <3>1, <3>3, FilesPut DEF ReadSources
    <2> QED BY <1>3, <1>6, <2>1 DEF ReadSources
  <1>7. ASSUME Build(w) PROVE FilesOwned'
    <2>1. CASE /\ files' = [files EXCEPT ![attempt[w].generation] =
                             [stage |-> "written", snapshot |-> attempt[w].snapshot]]
               /\ Goto(w, "flush")
      <3> DEFINE a == [attempt[w] EXCEPT !.pc = "flush"]
      <3>1. attempt[w].pc = "build"
        BY <1>7 DEF Build, At
      <3>2. PICK g \in Generations : g = attempt[w].generation
        BY <3>1, OwnedExists DEF Owner, OwnerSteps
      <3>3. PICK f : f = [stage |-> "written", snapshot |-> attempt[w].snapshot]
        OBVIOUS
      <3>4. PICK b : b = a
        OBVIOUS
      <3>5. /\ b.pc = "flush" /\ b.generation = g /\ b.existing = attempt[w].existing
            /\ b.snapshot = attempt[w].snapshot
        BY <1>1, <3>2, <3>4 DEF Attempt
      <3>6. files' = [files EXCEPT ![g] = f] /\ files'[g] = f
        BY <2>1, <3>2, <3>3 DEF FilesInv, TypeInv, TypeOK
      <3>7. files[g].stage = "captured" /\ Owner(attempt[w])
        BY <1>1, <3>1, <3>2 DEF FilesOK, Owner, OwnerSteps
      <3>8. f = [stage |-> "written", snapshot |-> b.snapshot]
        BY <3>3, <3>5
      <3>9. b.existing = NoGeneration /\ \A c \in catalog : c.generation # g
        BY <1>1, <3>1, <3>2, <3>5, <3>7 DEF FilesOK
      <3>10. FilesOK(b)'
        BY <1>1, <3>5, <3>6, <3>8, <3>9 DEF FilesOK
      <3>11. Put(w, b)
        BY <2>1, <3>4 DEF Goto
      <3>12. /\ Owner(attempt[w]) /\ attempt[w].generation = g
             /\ files[g].stage \in {"captured", "written"}
        BY <3>2, <3>7
      <3>13. b.generation = g /\ catalog' = catalog /\ files' = [files EXCEPT ![g] = f]
        BY <1>1, <3>5, <3>6
      <3> QED BY <3>10, <3>11, <3>12, <3>13, FilesWrite
    <2> QED BY <1>3, <1>7, <2>1 DEF Build
  <1>8. ASSUME Flush(w) PROVE FilesOwned'
    <2> DEFINE a == [attempt[w] EXCEPT !.pc = "select"]
    <2>1. attempt[w].pc = "flush"
      BY <1>8 DEF Flush, At
    <2>2. PICK g \in Generations : g = attempt[w].generation
      BY <2>1, OwnedExists DEF Owner, OwnerSteps
    <2>3. files[g] = [stage |-> "written", snapshot |-> attempt[w].snapshot]
      BY <1>1, <2>1, <2>2 DEF FilesOK
    <2>4. PICK f : f = [stage |-> "flushed", snapshot |-> attempt[w].snapshot]
      OBVIOUS
    <2>5. files' = [files EXCEPT ![g] = f] /\ files'[g] = f
      <3>1. [files[g] EXCEPT !.stage = "flushed"] = f
        BY <2>3, <2>4
      <3> QED BY <1>8, <2>2, <3>1 DEF Flush, FilesInv, TypeInv, TypeOK
    <2>6. PICK b : b = a
      OBVIOUS
    <2>7. /\ b.pc = "select" /\ b.generation = g /\ b.existing = attempt[w].existing
          /\ b.snapshot = attempt[w].snapshot
      BY <1>1, <2>2, <2>6 DEF Attempt
    <2>8. Complete(b.generation, b.snapshot)'
      BY <2>4, <2>5, <2>7 DEF Complete
    <2>9. b.existing = NoGeneration /\ (\A c \in catalog : c.generation # g) /\ Owner(attempt[w])
      BY <1>1, <2>1, <2>2, <2>7 DEF FilesOK, Owner, OwnerSteps
    <2>10. FilesOK(b)'
      BY <1>1, <2>7, <2>8, <2>9 DEF FilesOK
    <2>11. files[g].stage = "written"
      BY <2>3
    <2>12. Put(w, b)
      BY <1>8, <2>6 DEF Flush, Goto
    <2>13. /\ Owner(attempt[w]) /\ attempt[w].generation = g
           /\ files[g].stage \in {"captured", "written"}
      BY <2>2, <2>9, <2>11
    <2>14. b.generation = g /\ catalog' = catalog /\ files' = [files EXCEPT ![g] = f]
      BY <1>1, <2>5, <2>7
    <2> QED BY <2>10, <2>12, <2>13, <2>14, FilesWrite
  <1>9. ASSUME Select(w) PROVE FilesOwned'
    <2>0. attempt[w].pc = "select" /\ Owner(attempt[w]) /\ files' = files
      BY <1>9 DEF Select, At, Owner, OwnerSteps
    <2>1. CASE Goto(w, "check")
      <3> DEFINE a == [attempt[w] EXCEPT !.pc = "check"]
      <3>1. /\ a.pc = "check" /\ a.generation = attempt[w].generation
            /\ a.existing = attempt[w].existing /\ a.snapshot = attempt[w].snapshot
        BY <1>1 DEF Attempt
      <3>2. FilesOK(a)
        BY <1>1, <2>0, <3>1 DEF FilesOK, Owner
      <3> QED BY <1>1, <2>0, <2>1, <3>1, <3>2, FilesPut DEF Goto
    <2>2. ASSUME NEW c \in FindSnapshot(attempt[w].snapshot),
                 Put(w, [attempt[w] EXCEPT !.pc = "check", !.existing = c.generation])
          PROVE  FilesOwned'
      <3> DEFINE a == [attempt[w] EXCEPT !.pc = "check", !.existing = c.generation]
      <3>1. /\ a.pc = "check" /\ a.generation = attempt[w].generation
            /\ a.existing = c.generation /\ a.snapshot = attempt[w].snapshot
        BY <1>1 DEF Attempt
      <3>2. c = [snapshot |-> a.snapshot, generation |-> a.existing] /\ c \in catalog
        BY <3>1 DEF FindSnapshot, FilesInv, TypeInv, TypeOK, CatalogRow
      <3>3. FilesOK(a)
        BY <1>1, <2>0, <3>1, <3>2 DEF FilesOK, Owner
      <3> QED BY <1>1, <2>0, <2>2, <3>1, <3>3, FilesPut
    <2> QED BY <1>3, <1>9, <2>0, <2>1, <2>2 DEF Select
  <1>10. ASSUME Check(w) PROVE FilesOwned'
    <2> DEFINE a == [attempt[w] EXCEPT !.pc = "commit"]
    <2>1. attempt[w].pc = "check" /\ Owner(attempt[w]) /\ files' = files
      BY <1>10 DEF Check, At, Owner, OwnerSteps
    <2>2. /\ a.pc = "commit" /\ a.generation = attempt[w].generation
          /\ a.existing = attempt[w].existing /\ a.snapshot = attempt[w].snapshot
      BY <1>1 DEF Attempt
    <2>3. FilesOK(a)
      BY <1>1, <2>1, <2>2 DEF FilesOK, Owner
    <2> QED BY <1>1, <1>10, <2>1, <2>2, <2>3, FilesPut DEF Check, Goto
  <1> QED BY <1>2, <1>4, <1>5, <1>6, <1>7, <1>8, <1>9, <1>10

LEMMA FilesInit == Init => FilesInv
  <1> SUFFICES ASSUME Init PROVE FilesOwned
    BY TypeInit DEF FilesInv
  <1>1. \A w \in Writers : attempt[w].pc = "idle"
    BY DEF Init, NewAttempt
  <1> QED BY <1>1 DEF Init, FilesOwned, CatalogComplete, OwnersDiffer, FilesOK, Owner, OwnerSteps

LEMMA FilesStep == FilesInv /\ [Next]_vars => FilesInv'
  <1> SUFFICES ASSUME FilesInv, [Next]_vars PROVE FilesOwned'
    BY TypeStep DEF FilesInv
  <1>1. CASE UNCHANGED <<files, catalog, attempt>>
    BY <1>1 DEF FilesInv, FilesOwned, CatalogComplete, OwnersDiffer, FilesOK, Complete, Owner
  <1>2. ASSUME NEW w \in Writers,
               Gate(w) \/ Cancel(w) \/ Unavailable(w) \/ Crash(w) \/ Refuse(w) \/ LoseCommit(w)
                 \/ Reconcile(w) \/ Release(w)
        PROVE  FilesOwned'
    <2>1. UNCHANGED <<files, catalog>>
      BY <1>2 DEF Gate, Cancel, Unavailable, Crash, Refuse, LoseCommit, Reconcile, Release, store
    <2>2. (\E outcome : Finish(w, outcome)) \/ Goto(w, "reconcile") \/ Goto(w, "release")
      BY <1>2 DEF Gate, Cancel, Unavailable, Crash, Refuse, LoseCommit, Reconcile, Release, Committed
    <2> QED BY <2>1, <2>2, FilesFinish, FilesGoto
  <1>3. (\E w \in Writers : \E permissions : SetMembership(w, permissions))
        \/ (\E l : ConfigureSourceLayers(l)) \/ (\E c : EditSource(c)) \/ UNCHANGED vars
          => UNCHANGED <<files, catalog, attempt>>
    BY DEF SetMembership, ConfigureSourceLayers, EditSource, store, vars
  <1> QED
    BY <1>1, <1>2, <1>3, FilesWork, FilesPublish, FilesPowerLoss DEF Next, Write

\* Whatever the catalog names is complete and flushed, for any number of writers,
\* generations and equal contents, through crashes and power losses.
THEOREM CatalogIsComplete == Spec => []CatalogComplete
  <1>1. Spec => []FilesInv
    BY FilesInit, FilesStep, PTL DEF Spec
  <1>2. FilesInv => CatalogComplete
    BY DEF FilesInv, FilesOwned
  <1> QED BY <1>1, <1>2, PTL

-----------------------------------------------------------------------------
(* What a call answers: an invariant of each call over the shared state.    *)

Behind(h, k) == h.revision <= k.revision /\ h.source <= k.source

\* The head that a call expects and the one it read its sources under: heads only
\* grow, so as long as neither number has changed it is the same head.
Sourced == {"build", "flush", "select", "check", "commit"}
HeadOK(a) ==
    /\ Behind(a.expected, head)
    /\ a.pc \in Sourced =>
         /\ Behind(a.expected, a.seen) /\ Behind(a.seen, head)
         /\ (a.seen.revision = head.revision /\ a.seen.source = head.source) => a.seen = head
         /\ a.snapshot[1] = a.layout
    /\ (a.pc \in {"check", "commit"} /\ head = a.expected) =>
         {c.generation : c \in FindSnapshot(a.snapshot)} = {a.existing} \ {NoGeneration}

Backed(a) ==
    \E r \in receipts : /\ r.operation = a.operation /\ r.expected = a.expected
                        /\ a.snapshot \in {NoSnapshot, r.snapshot}
Own(a) ==
    \E r \in receipts : /\ r.operation = a.operation /\ r.expected = a.expected
                        /\ r.snapshot = a.snapshot
                        /\ r.revision = r.expected.revision + 1
Corrupt == {"STATE_CORRUPT", "SNAPSHOT_CORRUPT"}
AnswerOK(a) ==
    /\ a.pc # "done" => a.outcome = "none"
    /\ a.outcome \notin Corrupt
    /\ a.applied => /\ a.pc \in {"reconcile", "release", "done"}
                    /\ a.seen = a.expected /\ Own(a)
    /\ (a.outcome = "committed" \/ a.pc = "release") => Backed(a)
    /\ a.outcome \in Errors => ~a.applied
CallOK(a) == HeadOK(a) /\ AnswerOK(a)

CatalogUnique == \A c, d \in catalog : c.snapshot = d.snapshot => c = d
LayoutRecorded == [source |-> head.source, layout |-> layout] \in configurations
CallInv == /\ HeadInv /\ FilesInv /\ CatalogUnique /\ LayoutRecorded
           /\ PublishedUnderItsConfiguration
           /\ \A u \in Writers : CallOK(attempt[u])

-----------------------------------------------------------------------------
(* The state database only grows.                                           *)

Grows ==
    /\ receipts \subseteq receipts' /\ configurations \subseteq configurations'
    /\ \/ head' = head /\ catalog' = catalog
       \/ Behind(head, head') /\ ~Behind(head', head)

LEMMA PublishGrows ==
    ASSUME CallInv, NEW w \in Writers, Publish(w)
    PROVE  Grows /\ CatalogUnique' /\ LayoutRecorded' /\ PublishedUnderItsConfiguration'
  <1> USE DEF CallInv
  <1>1. PICK new : new = [operation |-> attempt[w].operation, expected |-> head,
                          snapshot |-> attempt[w].snapshot, revision |-> head.revision + 1]
    OBVIOUS
  <1>2. PICK row : row = [snapshot |-> attempt[w].snapshot, generation |-> Locator(w)]
    OBVIOUS
  <1>3. /\ head' = [revision |-> head.revision + 1, snapshot |-> attempt[w].snapshot,
                    source |-> head.source]
        /\ receipts' = receipts \union {new} /\ catalog' = catalog \union {row}
        /\ layout' = layout /\ configurations' = configurations
    BY <1>1, <1>2, PublishWrites DEF HeadInv
  <1>4. head.revision \in Int /\ head.source \in Int
    BY DEF HeadInv, TypeInv, TypeOK, ProjectHead
  <1>5. Grows
    BY <1>3, <1>4 DEF Grows, Behind
  <1>6. /\ attempt[w].pc = "commit" /\ head = attempt[w].expected
        /\ Selected(w) = {attempt[w].existing} \ {NoGeneration} /\ layout = attempt[w].layout
    BY VerdictPublish DEF Publish, At
  <1>7. CatalogUnique'
    <2>1. \A c \in catalog : c.snapshot = row.snapshot => c = row
      <3> SUFFICES ASSUME NEW c \in catalog, c.snapshot = row.snapshot PROVE c = row
        OBVIOUS
      <3>1. c.generation \in {attempt[w].existing} \ {NoGeneration}
        BY <1>2, <1>6 DEF Selected, FindSnapshot
      <3>2. c.generation = row.generation /\ c.snapshot = row.snapshot
        BY <1>2, <3>1 DEF Locator
      <3>3. c = [snapshot |-> c.snapshot, generation |-> c.generation]
        BY DEF HeadInv, TypeInv, TypeOK, CatalogRow
      <3> QED BY <1>2, <3>2, <3>3
    <2> QED BY <1>3, <2>1 DEF CatalogUnique
  <1>8. LayoutRecorded'
    BY <1>3 DEF LayoutRecorded
  <1>9. PublishedUnderItsConfiguration'
    <2>1. new.expected = head /\ new.snapshot[1] = layout
      BY <1>1, <1>6 DEF CallOK, HeadOK, Sourced
    <2>2. [source |-> new.expected.source, layout |-> new.snapshot[1]] \in configurations'
      BY <1>3, <2>1 DEF LayoutRecorded
    <2> QED BY <1>3, <2>2 DEF PublishedUnderItsConfiguration
  <1> QED BY <1>5, <1>7, <1>8, <1>9

LEMMA ConfigureGrows ==
    ASSUME CallInv, NEW l \in Layouts, ConfigureSourceLayers(l)
    PROVE  Grows /\ CatalogUnique' /\ LayoutRecorded' /\ PublishedUnderItsConfiguration'
  <1>1. head \in ProjectHead
    BY DEF CallInv, HeadInv, TypeInv, TypeOK
  <1>2. /\ head'.source = head.source + 1 /\ head'.revision = head.revision
        /\ layout' = l /\ catalog' = catalog /\ receipts' = receipts
        /\ configurations' = configurations \union {[source |-> head.source + 1, layout |-> l]}
    BY <1>1 DEF ConfigureSourceLayers, ProjectHead
  <1>3. head.source \in Int /\ head.revision \in Int
    BY <1>1 DEF ProjectHead
  <1>4. Grows
    BY <1>2, <1>3 DEF Grows, Behind
  <1>5. CatalogUnique' /\ LayoutRecorded' /\ PublishedUnderItsConfiguration'
    BY <1>2 DEF CallInv, CatalogUnique, LayoutRecorded, PublishedUnderItsConfiguration
  <1> QED BY <1>4, <1>5

LEMMA StoreGrows ==
    ASSUME CallInv, [Next]_vars
    PROVE  Grows /\ CatalogUnique' /\ LayoutRecorded' /\ PublishedUnderItsConfiguration'
  <1>1. CASE UNCHANGED store
    BY <1>1 DEF store, Grows, CallInv, CatalogUnique, LayoutRecorded,
                PublishedUnderItsConfiguration
  <1> QED BY <1>1, StoreStep, PublishGrows, ConfigureGrows

-----------------------------------------------------------------------------
(* Calls.                                                                   *)

\* What is true of a call stays true while others publish and configure.
LEMMA CallKept ==
    ASSUME CallInv, Grows, head' \in ProjectHead, NEW a \in Attempt, CallOK(a)
    PROVE  CallOK(a)'
  <1>1. /\ head \in ProjectHead /\ a.expected \in ProjectHead /\ a.seen \in ProjectHead
    BY DEF CallInv, HeadInv, TypeInv, TypeOK, Attempt
  <1>2. \A h \in ProjectHead : h.revision \in Int /\ h.source \in Int
    BY DEF ProjectHead
  <1>4. HeadOK(a)'
    <2>1. CASE Behind(head, head') /\ ~Behind(head', head)
      <3>1. \A h \in ProjectHead : Behind(h, head) =>
              /\ Behind(h, head') /\ head' # h
              /\ ~(h.revision = head'.revision /\ h.source = head'.source)
        BY <1>1, <1>2, <2>1 DEF Behind
      <3>2. /\ Behind(a.expected, head)
            /\ a.pc \in Sourced => /\ Behind(a.expected, a.seen) /\ Behind(a.seen, head)
                                   /\ a.snapshot[1] = a.layout
        BY DEF CallOK, HeadOK
      <3> QED BY <1>1, <3>1, <3>2 DEF HeadOK, Behind
    <2>2. CASE head' = head /\ catalog' = catalog
      BY <2>2 DEF CallOK, HeadOK, FindSnapshot
    <2> QED BY <2>1, <2>2 DEF Grows
  <1>5. AnswerOK(a)'
    <2>1. Own(a) => Own(a)'
      BY DEF Own, Grows
    <2>2. Backed(a) => Backed(a)'
      BY DEF Backed, Grows
    <2> QED BY <2>1, <2>2 DEF CallOK, AnswerOK
  <1> QED BY <1>4, <1>5 DEF CallOK

LEMMA CallsKept ==
    ASSUME CallInv, Grows, head' \in ProjectHead, NEW u \in Writers, attempt'[u] = attempt[u]
    PROVE  CallOK(attempt[u])'
  <1>1. PICK a \in Attempt : a = attempt[u]
    BY DEF CallInv, HeadInv, TypeInv, TypeOK
  <1>2. CallOK(a)'
    BY <1>1, CallKept DEF CallInv
  <1>3. attempt'[u] = a
    BY <1>1
  <1> QED BY <1>2, <1>3 DEF CallOK, HeadOK, AnswerOK, Backed, Own

LEMMA CallsPut ==
    ASSUME CallInv, Grows, head' \in ProjectHead, NEW w \in Writers, NEW a, Put(w, a),
           CallOK(a)'
    PROVE  \A u \in Writers : CallOK(attempt[u])'
  <1>1. attempt'[w] = a /\ \A u \in Writers : u # w => attempt'[u] = attempt[u]
    BY DEF Put, CallInv, HeadInv, TypeInv, TypeOK
  <1>2. CallOK(attempt[w])'
    BY <1>1 DEF CallOK, HeadOK, AnswerOK, Backed, Own
  <1> QED BY <1>1, <1>2, CallsKept

\* A step that leaves the state database alone.
LEMMA CallsMove ==
    ASSUME CallInv, UNCHANGED store, NEW w \in Writers, NEW a, Put(w, a), CallOK(a)
    PROVE  \A u \in Writers : CallOK(attempt[u])'
  <1>1. Grows /\ head' \in ProjectHead
    BY DEF Grows, store, CallInv, HeadInv, TypeInv, TypeOK
  <1>2. CallOK(a)'
    BY DEF store, CallOK, HeadOK, AnswerOK, Backed, Own, FindSnapshot
  <1> QED BY <1>1, <1>2, CallsPut

LEMMA CallsFinish ==
    ASSUME CallInv, UNCHANGED store, NEW w \in Writers, NEW outcome, Finish(w, outcome),
           outcome \notin Corrupt,
           outcome = "committed" => Backed(attempt[w]),
           outcome \in Errors => ~attempt[w].applied
    PROVE  \A u \in Writers : CallOK(attempt[u])'
  <1>1. PICK a : a = [attempt[w] EXCEPT !.pc = "done", !.outcome = outcome]
    OBVIOUS
  <1>2. CallOK(attempt[w]) /\ attempt[w] \in Attempt
    BY DEF CallInv, HeadInv, TypeInv, TypeOK
  <1>3. /\ a.pc = "done" /\ a.outcome = outcome /\ a.applied = attempt[w].applied
        /\ a.expected = attempt[w].expected /\ a.seen = attempt[w].seen
        /\ a.operation = attempt[w].operation /\ a.snapshot = attempt[w].snapshot
    BY <1>1, <1>2 DEF Attempt
  <1>4. HeadOK(a)
    BY <1>2, <1>3 DEF CallOK, HeadOK, Sourced
  <1>5. (Backed(attempt[w]) => Backed(a)) /\ (Own(attempt[w]) => Own(a))
    BY <1>3 DEF Backed, Own
  <1>6. AnswerOK(a)
    BY <1>2, <1>3, <1>5 DEF CallOK, AnswerOK
  <1> QED BY <1>1, <1>4, <1>6, CallsMove DEF Finish, CallOK

\* A step before the transaction: nothing is applied or answered yet.
LEMMA CallsAdvance ==
    ASSUME CallInv, UNCHANGED store, NEW w \in Writers, NEW a, Put(w, a), HeadOK(a),
           a.outcome = "none", ~a.applied, a.pc = "release" => Backed(a)
    PROVE  \A u \in Writers : CallOK(attempt[u])'
  <1>1. "none" \notin Errors /\ "none" \notin Corrupt
    BY DEF Errors, Corrupt
  <1>2. AnswerOK(a)
    BY <1>1 DEF AnswerOK
  <1> QED BY <1>2, CallsMove DEF CallOK

Early == {"lookup", "capture", "read", "build", "flush", "select", "check", "commit"}
LEMMA EarlyCalls ==
    ASSUME CallInv, NEW w \in Writers, attempt[w].pc \in Early
    PROVE  ~attempt[w].applied /\ attempt[w].outcome = "none"
  <1>1. AnswerOK(attempt[w])
    BY DEF CallInv, CallOK
  <1> QED BY <1>1 DEF AnswerOK, Early

LEMMA AnswerBacked ==
    ASSUME NEW w, NEW r \in FindPublication(attempt[w].operation), Answer(w, r) = "committed"
    PROVE  Backed(attempt[w])
  BY DEF FindPublication, Answer, Backed

\* There is one receipt of an operation, so a backed call is answered by it.
LEMMA BackedAnswer ==
    ASSUME CallInv, NEW w \in Writers, Backed(attempt[w]),
           NEW r \in FindPublication(attempt[w].operation)
    PROVE  Answer(w, r) = "committed"
  BY DEF CallInv, HeadInv, ReceiptsUnique, Backed, FindPublication, Answer

LEMMA AnswerHarmless ==
    \A w, r : Answer(w, r) \in {"committed", "OPERATION_CONFLICT"} \ Corrupt
  BY DEF Answer, Corrupt

LEMMA AnswersListed ==
    /\ {"PROJECT_FORBIDDEN", "OPERATION_CONFLICT", "SOURCE_CONFIGURATION_CONFLICT",
        "HEAD_CONFLICT", "SOURCE_CAPTURE_CHANGED", "GRAPH_BUILD_FAILED",
        "GRAPH_SCANNER_CANCELLED", "STATE_BUSY", "STATE_UNAVAILABLE"} \subseteq Errors \ Corrupt
    /\ {"crashed", "committed", "PUBLICATION_OUTCOME_UNKNOWN"} \intersect (Errors \union Corrupt) = {}
    /\ "committed" \notin Errors
  BY DEF Errors, Corrupt

\* An error before the transaction is definite.
LEMMA CallsFail ==
    ASSUME CallInv, UNCHANGED store, NEW w \in Writers, attempt[w].pc \in Early,
           NEW outcome \in Errors \ Corrupt, Finish(w, outcome)
    PROVE  \A u \in Writers : CallOK(attempt[u])'
  BY EarlyCalls, CallsFinish, AnswersListed

-----------------------------------------------------------------------------
(* The steps before the transaction.                                        *)

LEMMA CallsCall ==
    ASSUME CallInv, NEW w \in Writers, Call(w)
    PROVE  \A u \in Writers : CallOK(attempt[u])'
  <1>1. PICK o \in Operations, expected \in {head, attempt[w].expected} :
          Put(w, NewAttempt(o, expected))
    BY DEF Call
  <1>2. PICK a : a = NewAttempt(o, expected)
    OBVIOUS
  <1>3. /\ a.pc = "lookup" /\ a.outcome = "none" /\ ~a.applied /\ a.expected = expected
    BY <1>2 DEF NewAttempt
  <1>4. Behind(expected, head)
    <2>1. Behind(attempt[w].expected, head)
      BY DEF CallInv, CallOK, HeadOK
    <2>2. Behind(head, head)
      BY DEF Behind, CallInv, HeadInv, TypeInv, TypeOK, ProjectHead
    <2> QED BY <2>1, <2>2
  <1>5. HeadOK(a)
    BY <1>3, <1>4 DEF HeadOK, Sourced
  <1> QED BY <1>1, <1>2, <1>3, <1>5, CallsAdvance DEF Call

\* A call that moves on without new data, where HeadOK asks for nothing more.
LEMMA CallsGoto ==
    ASSUME CallInv, UNCHANGED store, NEW w \in Writers, NEW pc, Goto(w, pc),
           attempt[w].pc \in Early,
           pc \in Sourced => attempt[w].pc \in Sourced,
           pc \in {"check", "commit"} => attempt[w].pc \in {"check", "commit"},
           pc = "release" => Backed(attempt[w])
    PROVE  \A u \in Writers : CallOK(attempt[u])'
  <1>1. PICK a : a = [attempt[w] EXCEPT !.pc = pc]
    OBVIOUS
  <1>2. CallOK(attempt[w]) /\ attempt[w] \in Attempt
    BY DEF CallInv, HeadInv, TypeInv, TypeOK
  <1>3. /\ a.pc = pc /\ a.outcome = attempt[w].outcome /\ a.applied = attempt[w].applied
        /\ a.expected = attempt[w].expected /\ a.seen = attempt[w].seen
        /\ a.operation = attempt[w].operation /\ a.snapshot = attempt[w].snapshot
        /\ a.existing = attempt[w].existing /\ a.layout = attempt[w].layout
    BY <1>1, <1>2 DEF Attempt
  <1>4. HeadOK(a)
    BY <1>2, <1>3 DEF CallOK, HeadOK
  <1>5. Backed(attempt[w]) => Backed(a)
    BY <1>3 DEF Backed
  <1>6. Put(w, a)
    BY <1>1 DEF Goto
  <1> QED BY <1>3, <1>4, <1>5, <1>6, EarlyCalls, CallsAdvance

LEMMA CallsLookup ==
    ASSUME CallInv, NEW w \in Writers, Lookup(w)
    PROVE  \A u \in Writers : CallOK(attempt[u])'
  <1>1. attempt[w].pc = "lookup" /\ UNCHANGED store
    BY DEF Lookup, At, store
  <1>2. ASSUME NEW r \in FindPublication(attempt[w].operation), Finish(w, Answer(w, r))
        PROVE  \A u \in Writers : CallOK(attempt[u])'
    BY <1>1, <1>2, AnswerBacked, AnswerHarmless, EarlyCalls, CallsFinish DEF Early
  <1>3. CASE Goto(w, "capture")
    BY <1>1, <1>3, CallsGoto DEF Early, Sourced
  <1>4. CASE Finish(w, "PROJECT_FORBIDDEN")
    BY <1>1, <1>4, CallsFail, AnswersListed DEF Early
  <1> QED BY <1>2, <1>3, <1>4 DEF Lookup

LEMMA CallsStart ==
    ASSUME CallInv, NEW w \in Writers, StartCapture(w)
    PROVE  \A u \in Writers : CallOK(attempt[u])'
  <1>1. attempt[w].pc = "capture" /\ UNCHANGED store
    BY DEF StartCapture, At, store
  <1>2. ASSUME NEW g \in Generations,
               Put(w, [attempt[w] EXCEPT !.pc = "read", !.generation = g, !.layout = layout])
        PROVE  \A u \in Writers : CallOK(attempt[u])'
    <2>1. PICK a : a = [attempt[w] EXCEPT !.pc = "read", !.generation = g, !.layout = layout]
      OBVIOUS
    <2>2. CallOK(attempt[w]) /\ attempt[w] \in Attempt
      BY DEF CallInv, HeadInv, TypeInv, TypeOK
    <2>3. /\ a.pc = "read" /\ a.outcome = attempt[w].outcome
          /\ a.applied = attempt[w].applied /\ a.expected = attempt[w].expected
      BY <2>1, <2>2 DEF Attempt
    <2>4. HeadOK(a)
      BY <2>2, <2>3 DEF CallOK, HeadOK, Sourced
    <2> QED BY <1>1, <1>2, <2>1, <2>3, <2>4, EarlyCalls, CallsAdvance DEF Early
  <1>3. CASE Finish(w, "PROJECT_FORBIDDEN") \/ Finish(w, HeadError(w))
    BY <1>1, <1>3, CallsFail, AnswersListed, HeadErrorTyped DEF Early
  <1> QED BY <1>2, <1>3 DEF StartCapture

LEMMA CallsRead ==
    ASSUME CallInv, NEW w \in Writers, ReadSources(w)
    PROVE  \A u \in Writers : CallOK(attempt[u])'
  <1>1. attempt[w].pc = "read" /\ UNCHANGED store
    BY DEF ReadSources, At, store
  <1>2. CASE Put(w, [attempt[w] EXCEPT !.pc = "build", !.snapshot = <<attempt[w].layout, tree>>,
                                    !.seen = head])
    <2>1. PICK a : a = [attempt[w] EXCEPT !.pc = "build", !.seen = head,
                                          !.snapshot = <<attempt[w].layout, tree>>]
      OBVIOUS
    <2>2. CallOK(attempt[w]) /\ attempt[w] \in Attempt /\ head \in ProjectHead
      BY DEF CallInv, HeadInv, TypeInv, TypeOK
    <2>3. /\ a.pc = "build" /\ a.outcome = attempt[w].outcome
          /\ a.applied = attempt[w].applied /\ a.expected = attempt[w].expected
          /\ a.seen = head /\ a.layout = attempt[w].layout
          /\ a.snapshot = <<attempt[w].layout, tree>>
      BY <2>1, <2>2 DEF Attempt
    <2>4. Behind(head, head)
      BY <2>2 DEF Behind, ProjectHead
    <2>5. a.snapshot[1] = a.layout
      BY <2>3
    <2>6. HeadOK(a)
      BY <2>2, <2>3, <2>4, <2>5 DEF CallOK, HeadOK
    <2>7. Put(w, a)
      BY <1>2, <2>1
    <2> QED BY <1>1, <2>3, <2>6, <2>7, EarlyCalls, CallsAdvance DEF Early
  <1>3. CASE Finish(w, "SOURCE_CAPTURE_CHANGED")
    BY <1>1, <1>3, CallsFail, AnswersListed DEF Early
  <1> QED BY <1>2, <1>3 DEF ReadSources

\* What the caller selects is all that the catalog has for its snapshot.
LEMMA CallsSelect ==
    ASSUME CallInv, NEW w \in Writers, Select(w)
    PROVE  \A u \in Writers : CallOK(attempt[u])'
  <1>1. attempt[w].pc = "select" /\ UNCHANGED store
    BY DEF Select, At, store
  <1>2. CallOK(attempt[w]) /\ attempt[w] \in Attempt
    BY DEF CallInv, HeadInv, TypeInv, TypeOK
  <1>3. attempt[w].existing = NoGeneration
    <2>1. FilesOK(attempt[w])
      BY DEF CallInv, FilesInv, FilesOwned
    <2> QED BY <1>1, <2>1 DEF FilesOK
  <1>4. ASSUME NEW a, NEW existing, a = [attempt[w] EXCEPT !.pc = "check", !.existing = existing],
               Put(w, a),
               {c.generation : c \in FindSnapshot(attempt[w].snapshot)}
                 = {existing} \ {NoGeneration}
        PROVE  \A u \in Writers : CallOK(attempt[u])'
    <2>1. /\ a.pc = "check" /\ a.outcome = attempt[w].outcome
          /\ a.applied = attempt[w].applied /\ a.expected = attempt[w].expected
          /\ a.seen = attempt[w].seen /\ a.layout = attempt[w].layout
          /\ a.snapshot = attempt[w].snapshot /\ a.existing = existing
      BY <1>2, <1>4 DEF Attempt
    <2>2. HeadOK(a)
      BY <1>1, <1>2, <1>4, <2>1 DEF CallOK, HeadOK, Sourced
    <2> QED BY <1>1, <1>4, <2>1, <2>2, EarlyCalls, CallsAdvance DEF Early
  <1>5. CASE FindSnapshot(attempt[w].snapshot) = {} /\ Goto(w, "check")
    <2>1. PICK a : a = [attempt[w] EXCEPT !.pc = "check"]
      OBVIOUS
    <2>2. a = [attempt[w] EXCEPT !.pc = "check", !.existing = NoGeneration]
      BY <1>2, <1>3, <2>1 DEF Attempt
    <2>3. {c.generation : c \in FindSnapshot(attempt[w].snapshot)}
            = {NoGeneration} \ {NoGeneration}
      BY <1>5
    <2> QED BY <1>4, <1>5, <2>1, <2>2, <2>3 DEF Goto
  <1>6. ASSUME NEW c \in FindSnapshot(attempt[w].snapshot),
               Put(w, [attempt[w] EXCEPT !.pc = "check", !.existing = c.generation])
        PROVE  \A u \in Writers : CallOK(attempt[u])'
    <2>1. PICK a : a = [attempt[w] EXCEPT !.pc = "check", !.existing = c.generation]
      OBVIOUS
    <2>2. \A d \in FindSnapshot(attempt[w].snapshot) : d = c
      BY DEF FindSnapshot, CallInv, CatalogUnique
    <2>3. c.generation # NoGeneration
      <3>1. c \in catalog /\ catalog \subseteq CatalogRow
        BY DEF FindSnapshot, CallInv, HeadInv, TypeInv, TypeOK
      <3>2. c.generation \in Generations
        BY <3>1 DEF CatalogRow
      <3> QED BY <3>2, NullAssumption
    <2>4. {d.generation : d \in FindSnapshot(attempt[w].snapshot)}
            = {c.generation} \ {NoGeneration}
      BY <2>2, <2>3
    <2> QED BY <1>4, <1>6, <2>1, <2>4
  <1>7. ASSUME NEW c \in FindSnapshot(attempt[w].snapshot) PROVE Complete(c.generation, c.snapshot)
    BY DEF FindSnapshot, CallInv, FilesInv, FilesOwned, CatalogComplete
  <1>8. CASE Finish(w, "PROJECT_FORBIDDEN")
    BY <1>1, <1>8, CallsFail, AnswersListed DEF Early
  <1> QED BY <1>5, <1>6, <1>7, <1>8 DEF Select

LEMMA CallsWork ==
    ASSUME CallInv, NEW w \in Writers,
           Build(w) \/ Flush(w) \/ Check(w) \/ Gate(w) \/ Cancel(w) \/ Unavailable(w)
             \/ LoseCommit(w)
    PROVE  \A u \in Writers : CallOK(attempt[u])'
  <1>1. attempt[w].pc \in Early /\ UNCHANGED store
    BY DEF Build, Flush, Check, Gate, Cancel, Unavailable, LoseCommit, At, Early, store
  <1>2. ASSUME NEW outcome \in Errors \ Corrupt, Finish(w, outcome)
        PROVE  \A u \in Writers : CallOK(attempt[u])'
    BY <1>1, <1>2, CallsFail
  <1>3. CASE Build(w)
    <2>1. CASE Goto(w, "flush")
      BY <1>1, <1>3, <2>1, CallsGoto DEF Build, At, Sourced
    <2> QED BY <1>2, <1>3, <2>1, AnswersListed DEF Build
  <1>4. CASE Flush(w)
    BY <1>1, <1>4, CallsGoto DEF Flush, At, Sourced
  <1>5. CASE Check(w)
    BY <1>1, <1>5, CallsGoto DEF Check, At, Sourced
  <1>6. CASE LoseCommit(w)
    BY <1>1, <1>6, CallsGoto DEF LoseCommit, At, Sourced
  <1>7. CASE Gate(w)
    BY <1>2, <1>7, AnswersListed, HeadErrorTyped DEF Gate
  <1>8. CASE Cancel(w) \/ Unavailable(w)
    BY <1>2, <1>8, AnswersListed DEF Cancel, Unavailable
  <1> QED BY <1>3, <1>4, <1>5, <1>6, <1>7, <1>8

-----------------------------------------------------------------------------
(* The transaction and what follows it.                                     *)

LEMMA CallsCommitted ==
    ASSUME CallInv, UNCHANGED store, NEW w \in Writers,
           attempt[w].pc \in {"commit", "reconcile"}, Committed(w), Backed(attempt[w])
    PROVE  \A u \in Writers : CallOK(attempt[u])'
  <1>1. CASE Backend = "linux"
    BY <1>1, CallsFinish, AnswersListed DEF Committed
  <1>2. CASE Backend # "linux"
    <2>1. PICK a : a = [attempt[w] EXCEPT !.pc = "release"]
      OBVIOUS
    <2>2. CallOK(attempt[w]) /\ attempt[w] \in Attempt
      BY DEF CallInv, HeadInv, TypeInv, TypeOK
    <2>3. /\ a.pc = "release" /\ a.outcome = attempt[w].outcome
          /\ a.applied = attempt[w].applied /\ a.seen = attempt[w].seen
          /\ a.expected = attempt[w].expected /\ a.operation = attempt[w].operation
          /\ a.snapshot = attempt[w].snapshot
      BY <2>1, <2>2 DEF Attempt
    <2>4. HeadOK(a)
      BY <2>2, <2>3 DEF CallOK, HeadOK, Sourced
    <2>5. Backed(a) /\ (Own(attempt[w]) => Own(a))
      BY <2>3 DEF Backed, Own
    <2>6. AnswerOK(a)
      BY <2>2, <2>3, <2>5 DEF CallOK, AnswerOK
    <2>7. Put(w, a)
      BY <1>2, <2>1 DEF Committed, Goto
    <2> QED BY <2>4, <2>6, <2>7, CallsMove DEF CallOK
  <1> QED BY <1>1, <1>2

\* The transaction never finds the catalog changed under an unchanged head.
LEMMA CallsRefuse ==
    ASSUME CallInv, NEW w \in Writers, Refuse(w)
    PROVE  \A u \in Writers : CallOK(attempt[u])'
  <1>1. attempt[w].pc = "commit" /\ UNCHANGED store
    BY DEF Refuse, At, store
  <1>2. CASE Verdict(w) = "committed" /\ Committed(w)
    <2>1. \E r \in FindPublication(attempt[w].operation) : Answer(w, r) = "committed"
      BY <1>2, HeadErrorTyped DEF Verdict
    <2> QED BY <1>1, <1>2, <2>1, AnswerBacked, CallsCommitted
  <1>3. CASE Verdict(w) \in Errors /\ Finish(w, Verdict(w))
    <2>1. ~HeadMoved(w) => Selected(w) = {attempt[w].existing} \ {NoGeneration}
      BY <1>1 DEF HeadMoved, Selected, CallInv, CallOK, HeadOK
    <2>2. Verdict(w) \notin Corrupt
      BY <2>1, AnswerHarmless, HeadErrorTyped DEF Verdict, Corrupt
    <2> QED BY <1>1, <1>3, <2>2, CallsFail DEF Early
  <1> QED BY <1>2, <1>3 DEF Refuse

LEMMA CallsReconcile ==
    ASSUME CallInv, NEW w \in Writers, Reconcile(w)
    PROVE  \A u \in Writers : CallOK(attempt[u])'
  <1>1. attempt[w].pc = "reconcile" /\ UNCHANGED store
    BY DEF Reconcile, At, store
  <1>2. CASE Finish(w, "PUBLICATION_OUTCOME_UNKNOWN")
    BY <1>1, <1>2, CallsFinish, AnswersListed
  <1>3. attempt[w].applied => Backed(attempt[w])
    <2>1. attempt[w].applied => Own(attempt[w])
      BY DEF CallInv, CallOK, AnswerOK
    <2> QED BY <2>1 DEF Own, Backed
  <1>4. ASSUME NEW r \in FindPublication(attempt[w].operation),
               IF Answer(w, r) = "committed" THEN Committed(w) ELSE Finish(w, Answer(w, r))
        PROVE  \A u \in Writers : CallOK(attempt[u])'
    <2>1. CASE Answer(w, r) = "committed"
      BY <1>1, <1>4, <2>1, AnswerBacked, CallsCommitted
    <2>2. CASE Answer(w, r) # "committed"
      <3>1. ~attempt[w].applied
        BY <1>3, <2>2, BackedAnswer
      <3> QED BY <1>1, <1>4, <2>2, <3>1, AnswerHarmless, CallsFinish
    <2> QED BY <2>1, <2>2
  <1>5. CASE FindPublication(attempt[w].operation) = {} /\ Finish(w, "STATE_UNAVAILABLE")
    <2>1. ~Backed(attempt[w])
      BY <1>5 DEF Backed, FindPublication
    <2> QED BY <1>1, <1>3, <1>5, <2>1, CallsFinish, AnswersListed
  <1> QED BY <1>2, <1>4, <1>5 DEF Reconcile

LEMMA CallsRelease ==
    ASSUME CallInv, NEW w \in Writers, Release(w) \/ Crash(w)
    PROVE  \A u \in Writers : CallOK(attempt[u])'
  <1>1. UNCHANGED store
    BY DEF Release, Crash, store
  <1>2. CASE Finish(w, "crashed") \/ Finish(w, "PUBLICATION_OUTCOME_UNKNOWN")
    BY <1>1, <1>2, CallsFinish, AnswersListed
  <1>3. CASE Release(w)
    <2>1. Backed(attempt[w])
      BY <1>3 DEF Release, At, CallInv, CallOK, AnswerOK
    <2>2. CASE Finish(w, "committed")
      BY <1>1, <2>1, <2>2, CallsFinish, AnswersListed
    <2>3. ASSUME NEW r \in FindPublication(attempt[w].operation), Finish(w, Answer(w, r))
          PROVE  Finish(w, "committed")
      BY <2>1, <2>3, BackedAnswer
    <2> QED BY <1>2, <1>3, <2>2, <2>3 DEF Release
  <1> QED BY <1>2, <1>3 DEF Crash

LEMMA CallsPublish ==
    ASSUME CallInv, NEW w \in Writers, Publish(w), head' \in ProjectHead
    PROVE  \A u \in Writers : CallOK(attempt[u])'
  <1>1. attempt[w].pc = "commit" /\ Grows
    BY PublishGrows DEF Publish, At
  <1>2. CallOK(attempt[w]) /\ attempt[w] \in Attempt
    BY DEF CallInv, HeadInv, TypeInv, TypeOK
  <1>3. PICK a \in {[attempt[w] EXCEPT !.applied = TRUE, !.pc = "reconcile"],
                    [attempt[w] EXCEPT !.applied = TRUE, !.pc = "release"],
                    [attempt[w] EXCEPT !.applied = TRUE, !.pc = "done", !.outcome = "committed"]} :
          Put(w, a)
    BY DEF Publish
  <1>4. /\ \/ a.pc \in {"reconcile", "release"} /\ a.outcome = attempt[w].outcome
           \/ a.pc = "done" /\ a.outcome = "committed"
        /\ a.seen = attempt[w].seen /\ a.expected = attempt[w].expected
        /\ a.operation = attempt[w].operation /\ a.snapshot = attempt[w].snapshot
    BY <1>2, <1>3 DEF Attempt
  <1>5. head = attempt[w].expected
    BY VerdictPublish DEF Publish
  <1>6. a.seen = a.expected
    <2>1. Behind(a.expected, a.seen) /\ Behind(a.seen, a.expected)
      BY <1>1, <1>2, <1>4, <1>5 DEF CallOK, HeadOK, Sourced
    <2>2. a.seen \in ProjectHead /\ a.expected \in ProjectHead
      BY <1>2, <1>4 DEF Attempt
    <2>3. a.seen.revision = a.expected.revision /\ a.seen.source = a.expected.source
      BY <2>1, <2>2 DEF Behind, ProjectHead
    <2> QED BY <1>1, <1>2, <1>4, <1>5, <2>3 DEF CallOK, HeadOK, Sourced
  <1>7. Own(a)'
    <2>1. PICK new : new = [operation |-> attempt[w].operation, expected |-> head,
                            snapshot |-> attempt[w].snapshot, revision |-> head.revision + 1]
      OBVIOUS
    <2>2. receipts' = receipts \union {new}
      BY <2>1, PublishWrites DEF CallInv, HeadInv
    <2>3. /\ new.operation = a.operation /\ new.expected = a.expected
          /\ new.snapshot = a.snapshot /\ new.revision = new.expected.revision + 1
      BY <1>4, <1>5, <2>1
    <2> QED BY <2>2, <2>3 DEF Own
  <1>8. Backed(a)'
    BY <1>7 DEF Own, Backed
  <1>9. AnswerOK(a)'
    <2>1. a.outcome \notin Corrupt \union Errors
      BY <1>1, <1>4, EarlyCalls DEF Early, Corrupt, Errors
    <2>2. a.pc # "done" => a.outcome = "none"
      BY <1>1, <1>4, EarlyCalls DEF Early
    <2> QED BY <1>4, <1>6, <1>7, <1>8, <2>1, <2>2 DEF AnswerOK
  <1>10. HeadOK(a)'
    <2>1. Behind(head, head')
      BY <1>1 DEF Grows, Behind, CallInv, HeadInv, TypeInv, TypeOK, ProjectHead
    <2> QED BY <1>4, <1>5, <2>1 DEF HeadOK, Sourced
  <1> QED BY <1>1, <1>3, <1>9, <1>10, CallsPut DEF CallOK

LEMMA CallsPowerLoss ==
    ASSUME CallInv, PowerLoss
    PROVE  \A u \in Writers : CallOK(attempt[u])'
  <1> SUFFICES ASSUME NEW u \in Writers PROVE CallOK(attempt[u])'
    OBVIOUS
  <1>1. /\ UNCHANGED store /\ CallOK(attempt[u]) /\ attempt[u] \in Attempt
        /\ Grows /\ head' \in ProjectHead
    BY DEF PowerLoss, store, Grows, CallInv, HeadInv, TypeInv, TypeOK
  <1>2. CASE attempt'[u] = attempt[u]
    BY <1>1, <1>2, CallsKept
  <1>3. CASE attempt'[u] = [attempt[u] EXCEPT !.pc = "done", !.outcome = "crashed"]
    <2>1. PICK a : a = [attempt[u] EXCEPT !.pc = "done", !.outcome = "crashed"]
      OBVIOUS
    <2>2. /\ a.pc = "done" /\ a.outcome = "crashed" /\ a.applied = attempt[u].applied
          /\ a.expected = attempt[u].expected /\ a.seen = attempt[u].seen
          /\ a.operation = attempt[u].operation /\ a.snapshot = attempt[u].snapshot
      BY <1>1, <2>1 DEF Attempt
    <2>3. HeadOK(a) /\ (Own(attempt[u]) => Own(a))
      BY <1>1, <2>2 DEF CallOK, HeadOK, Sourced, Own
    <2>4. AnswerOK(a)
      BY <1>1, <2>2, <2>3, AnswersListed DEF CallOK, AnswerOK
    <2>5. CallOK(a)'
      BY <1>1, <2>3, <2>4
         DEF store, CallOK, HeadOK, AnswerOK, Backed, Own, FindSnapshot
    <2> QED BY <1>3, <2>1, <2>5 DEF CallOK, HeadOK, AnswerOK, Backed, Own
  <1> QED BY <1>2, <1>3 DEF PowerLoss

-----------------------------------------------------------------------------

LEMMA CallInit == Init => CallInv
  <1> SUFFICES ASSUME Init PROVE CallInv
    OBVIOUS
  <1>1. HeadInv /\ FilesInv
    BY HeadInit, FilesInit
  <1>2. ASSUME NEW u \in Writers PROVE CallOK(attempt[u])
    <2>1. PICK a : a = attempt[u]
      OBVIOUS
    <2>2. /\ a.pc = "idle" /\ a.expected = FirstHead /\ a.outcome = "none" /\ ~a.applied
      BY <2>1 DEF Init, NewAttempt
    <2>3. HeadOK(a)
      BY <2>2 DEF Init, HeadOK, Sourced, Behind, FirstHead
    <2>4. AnswerOK(a)
      BY <2>2 DEF AnswerOK, Corrupt, Errors
    <2> QED BY <2>1, <2>3, <2>4 DEF CallOK
  <1>3. CatalogUnique /\ LayoutRecorded /\ PublishedUnderItsConfiguration
    BY DEF Init, CatalogUnique, LayoutRecorded, PublishedUnderItsConfiguration, FirstHead
  <1> QED BY <1>1, <1>2, <1>3 DEF CallInv

LEMMA CallStep == CallInv /\ [Next]_vars => CallInv'
  <1> SUFFICES ASSUME CallInv, [Next]_vars PROVE CallInv'
    OBVIOUS
  <1>1. HeadInv' /\ FilesInv'
    BY HeadStep, FilesStep DEF CallInv
  <1>2. Grows /\ CatalogUnique' /\ LayoutRecorded' /\ PublishedUnderItsConfiguration'
    BY StoreGrows
  <1>3. head' \in ProjectHead
    BY <1>1 DEF HeadInv, TypeInv, TypeOK
  <1>4. ASSUME UNCHANGED attempt PROVE \A u \in Writers : CallOK(attempt[u])'
    BY <1>2, <1>3, <1>4, CallsKept
  <1>5. (\E w \in Writers : \E permissions : SetMembership(w, permissions))
        \/ (\E l : ConfigureSourceLayers(l)) \/ (\E c : EditSource(c)) \/ UNCHANGED vars
          => UNCHANGED attempt
    BY DEF SetMembership, ConfigureSourceLayers, EditSource, vars
  <1>6. \A u \in Writers : CallOK(attempt[u])'
    BY <1>3, <1>4, <1>5, CallsCall, CallsLookup, CallsStart, CallsRead, CallsSelect, CallsWork,
       CallsRefuse, CallsPublish, CallsReconcile, CallsRelease, CallsPowerLoss DEF Next, Write
  <1> QED BY <1>1, <1>2, <1>6 DEF CallInv

LEMMA CallAlways == Spec => []CallInv
  BY CallInit, CallStep, PTL DEF Spec

\* Whoever is told "committed" has a durable receipt of its own operation, head and
\* content, however the answer came about; whoever is told of a definite error has
\* not moved the head: only a crash and PUBLICATION_OUTCOME_UNKNOWN can hide a commit.
THEOREM AnswersOfCallsAreTrue == Spec => []AnswersAreTrue
  <1>1. CallInv => AcknowledgedIsDurable
    BY DEF CallInv, CallOK, AnswerOK, Backed, AcknowledgedIsDurable
  <1>2. CallInv => DefiniteFailureIsNotCommitted
    BY DEF CallInv, CallOK, AnswerOK, DefiniteFailureIsNotCommitted
  <1>3. CallInv => AnswersAreTrue
    BY <1>1, <1>2 DEF AnswersAreTrue
  <1> QED BY <1>3, CallAlways, PTL

\* The branches that report a corrupt catalog or generation are unreachable for
\* any number of publications of equal content.
THEOREM CorruptionIsUnreachable == Spec => []NeverCorrupt
  <1>1. CallInv => NeverCorrupt
    BY DEF CallInv, CallOK, AnswerOK, Corrupt, NeverCorrupt
  <1> QED BY <1>1, CallAlways, PTL

\* Published bytes were read under exactly the head that they replaced: their
\* receipt is the very next revision, in whatever order equal content came back.
THEOREM CapturesAreCurrent == Spec => []CapturedAtExpectedHead
  <1>1. CallInv => CapturedAtExpectedHead
    BY DEF CallInv, CallOK, AnswerOK, Own, CapturedAtExpectedHead
  <1> QED BY <1>1, CallAlways, PTL

\* Each receipt's source revision tells the layers that its snapshot was made of.
THEOREM ConfigurationsAreRecorded == Spec => []PublishedUnderItsConfiguration
  <1>1. CallInv => PublishedUnderItsConfiguration
    BY DEF CallInv
  <1> QED BY <1>1, CallAlways, PTL

LEMMA NothingForgotten ==
    ASSUME CallInv, [Next]_vars
    PROVE  /\ receipts \subseteq receipts' /\ configurations \subseteq configurations'
           /\ catalog \subseteq catalog'
           /\ head' = head \/ (Behind(head, head') /\ ~Behind(head', head))
  <1>1. Grows
    BY StoreGrows
  <1>2. catalog \subseteq catalog'
    BY StoreStep DEF store, Publish, ConfigureSourceLayers
  <1> QED BY <1>1, <1>2 DEF Grows

\* The state file is never set back: receipts, catalogued locators and source
\* configurations stay as they were written, and a head that was left does not
\* come back, even when equal content is published again (commit_publication,
\* configure_source_layers).
THEOREM NothingIsTakenBack ==
    Spec => [][/\ receipts \subseteq receipts' /\ configurations \subseteq configurations'
               /\ catalog \subseteq catalog'
               /\ head' = head \/ (Behind(head, head') /\ ~Behind(head', head))]_vars
  <1>1. CallInv /\ [Next]_vars =>
          [/\ receipts \subseteq receipts' /\ configurations \subseteq configurations'
           /\ catalog \subseteq catalog'
           /\ head' = head \/ (Behind(head, head') /\ ~Behind(head', head))]_vars
    BY NothingForgotten
  <1> QED BY <1>1, CallAlways, PTL DEF Spec
=============================================================================
