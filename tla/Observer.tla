------------------------------ MODULE Observer ------------------------------
(***************************************************************************)
(* The source observer (src/rentgen_core/observer.py): a worker that polls *)
(* the live sources, captures them when they differ from the project head, *)
(* and reports every change in a journal of its own.  It publishes like    *)
(* any other caller, so the project's state is the VersionedHead that      *)
(* Publication implements, and other publishers move the head under it.    *)
(*                                                                         *)
(* A worker owns the profile's worker.lock for a whole tick; the lock is   *)
(* the operating system's and is free again when the process dies.  An     *)
(* action is one transaction of the project's state or of the journal.     *)
(***************************************************************************)
EXTENDS Integers, Sequences

CONSTANTS
    Workers,     \* processes that run this profile's worker
    Contents,    \* bytes of the live source tree
    NoSnapshot,  \* SQL NULL in snapshot columns
    MaxJobs,     \* the journal holds 10000 jobs in the code
    Others,      \* operation ids of the other publishers
    MaxSource,   \* bounds of the model: configurations, changes of the
    MaxChanges,  \* tree, and errors and deaths of the workers
    MaxFaults

\* What a source digest and a snapshot id tell apart.
Snapshots == (1..MaxSource) \X Contents

ASSUME BoundAssumption ==
    MaxJobs \in Nat \ {0} /\ MaxSource \in Nat \ {0} /\ MaxChanges \in Nat /\ MaxFaults \in Nat
ASSUME OthersAssumption == Others \intersect (1..MaxJobs) = {}
ASSUME ContentsAssumption == Contents # {}
ASSUME NullAssumption == NoSnapshot \notin Snapshots

VARIABLES
    tree,          \* the live source
    head,          \* the project head, and
    receipts,      \* the publications, as VersionedHead promises them
    jobs,          \* the journal, in the order of rowid; a job's id is its index
    last_snapshot, \* the last snapshot that was reported
    worker,        \* the volatile state of each worker
    changes,       \* changes of the tree so far
    faults         \* errors and deaths so far

vars == <<tree, head, receipts, jobs, last_snapshot, worker, changes, faults>>

State == INSTANCE VersionedHead WITH Operations <- 1..MaxJobs \union Others

-----------------------------------------------------------------------------
NoJob == 0
MaybeSnapshot == Snapshots \union {NoSnapshot}
ProjectHead == [revision: Nat, snapshot: MaybeSnapshot, source: 1..MaxSource]
Job == [phase: {"capture", "report", "done", "superseded", "failed"}, expected: ProjectHead,
        baseline: MaybeSnapshot, result: MaybeSnapshot, attempts: Nat]
Worker == [pc: {"idle", "probe", "decide", "lookup", "commit", "note", "report", "error"},
           job: 0..MaxJobs, head: ProjectHead, seen: MaybeSnapshot,
           conflict: BOOLEAN]  \* the error in hand is a conflict with the head
FirstHead == [revision |-> 0, snapshot |-> NoSnapshot, source |-> 1]
Idle == [pc |-> "idle", job |-> NoJob, head |-> FirstHead, seen |-> NoSnapshot,
         conflict |-> FALSE]

Init ==
    /\ tree \in Contents
    /\ State!Init
    /\ jobs = << >>
    /\ last_snapshot = NoSnapshot
    /\ worker = [w \in Workers |-> Idle]
    /\ changes = 0 /\ faults = 0

-----------------------------------------------------------------------------
project == <<head, receipts>>
journal == <<jobs, last_snapshot>>
environment == <<tree, changes>>

Put(w, record) == worker' = [worker EXCEPT ![w] = record]
Goto(w, pc) == Put(w, [worker[w] EXCEPT !.pc = pc])
\* A CoreError reaches the handler of _tick.
Raise(w, conflict) == Put(w, [worker[w] EXCEPT !.pc = "error", !.conflict = conflict])

\* worker.lock is free.
Free_Unlocked == TRUE
Free == \A w \in Workers : worker[w].pc = "idle"

\* The oldest job that is not over.
Active(list) == {j \in DOMAIN list : list[j].phase \in {"capture", "report", "failed"}}
First(list) ==
    IF Active(list) = {} THEN NoJob
    ELSE CHOOSE j \in Active(list) : \A k \in Active(list) : j <= k
StepFor(job) == IF job.phase = "capture" THEN "lookup" ELSE "report"

\* What reading the sources under the present configuration yields.
Sources == <<head.source, tree>>

\* A tick starts.  A failed job ends it at once, until somebody retries that job.
Begin(w) ==
    LET j == First(jobs)
    IN /\ Free
       /\ j # NoJob => jobs[j].phase # "failed"
       /\ Put(w, [Idle EXCEPT !.job = j, !.pc = IF j = NoJob THEN "probe" ELSE StepFor(jobs[j])])
       /\ UNCHANGED <<project, journal, environment, faults>>

\* The sources are hashed while the head stands still.
Probe(w) ==
    /\ worker[w].pc = "probe"
    /\ Put(w, [worker[w] EXCEPT !.pc = "decide", !.head = head, !.seen = Sources])
    /\ UNCHANGED <<project, journal, environment, faults>>

NewJob(h, digest) ==
    IF h.snapshot = digest
    THEN [phase |-> "report", expected |-> h, baseline |-> last_snapshot, result |-> digest,
          attempts |-> 0]
    ELSE [phase |-> "capture", expected |-> h, baseline |-> last_snapshot,
          result |-> NoSnapshot, attempts |-> 0]

\* Nothing new, or a job with the head it expects; a full journal is an error.
Decide(w) ==
    LET h == worker[w].head
        longer == Append(jobs, NewJob(h, worker[w].seen))
        j == First(longer)
    IN /\ worker[w].pc = "decide"
       /\ \/ /\ h.snapshot = worker[w].seen /\ last_snapshot = h.snapshot
             /\ Put(w, Idle)
             /\ UNCHANGED jobs
          \/ /\ h.snapshot # worker[w].seen \/ last_snapshot # h.snapshot
             /\ IF Len(jobs) >= MaxJobs
                THEN Raise(w, FALSE) /\ UNCHANGED jobs
                ELSE /\ jobs' = longer
                     /\ Put(w, [worker[w] EXCEPT !.pc = StepFor(longer[j]), !.job = j])
       /\ UNCHANGED <<project, last_snapshot, environment, faults>>

\* capture_and_publish looks for the job's own receipt first, whatever the head
\* is now; otherwise it reads the sources, if the head is still the expected one.
Lookup_HeadFirst(w) ==
    LET j == worker[w].job
        own == {r \in receipts : r.operation = j}
    IN /\ worker[w].pc = "lookup"
       /\ IF head # jobs[j].expected THEN Raise(w, TRUE)
          ELSE IF own # {} THEN Put(w, [worker[w] EXCEPT !.pc = "note",
                                  !.seen = (CHOOSE r \in own : TRUE).snapshot])
          ELSE Put(w, [worker[w] EXCEPT !.pc = "commit", !.seen = Sources])
       /\ UNCHANGED <<project, journal, environment, faults>>
Lookup(w) ==
    LET j == worker[w].job
        own == {r \in receipts : r.operation = j}
    IN /\ worker[w].pc = "lookup"
       /\ \/ \E r \in own : Put(w, [worker[w] EXCEPT !.pc = "note", !.seen = r.snapshot])
          \/ /\ own = {}
             /\ IF head = jobs[j].expected
                THEN Put(w, [worker[w] EXCEPT !.pc = "commit", !.seen = Sources])
                ELSE Raise(w, TRUE)
       /\ UNCHANGED <<project, journal, environment, faults>>

\* The publication commits under the job's id if the head is still the expected
\* one; whether it did may remain unknown to the caller.
Commit(w) ==
    LET j == worker[w].job
    IN /\ worker[w].pc = "commit"
       /\ \/ /\ head = jobs[j].expected
             /\ State!Publish(j, worker[w].seen)
             /\ \/ Goto(w, "note") /\ UNCHANGED faults
                \/ faults < MaxFaults /\ faults' = faults + 1 /\ Raise(w, FALSE)
          \/ /\ head # jobs[j].expected
             /\ Raise(w, TRUE)
             /\ UNCHANGED <<project, faults>>
       /\ UNCHANGED <<journal, environment>>

Note(w) ==
    /\ worker[w].pc = "note"
    /\ jobs' = [jobs EXCEPT ![worker[w].job] =
         [@ EXCEPT !.phase = "report", !.result = worker[w].seen, !.attempts = 0]]
    /\ Goto(w, "report")
    /\ UNCHANGED <<project, last_snapshot, environment, faults>>

\* The report and the last reported snapshot are one commit of the journal; the
\* read transaction of the project's state around it may still fail afterwards.
Report_Torn(w) ==
    /\ worker[w].pc = "report"
    /\ jobs' = [jobs EXCEPT ![worker[w].job] = [@ EXCEPT !.phase = "done"]]
    /\ Put(w, Idle)
    /\ UNCHANGED <<project, last_snapshot, environment, faults>>
Report(w) ==
    LET j == worker[w].job
    IN /\ worker[w].pc = "report"
       /\ jobs' = [jobs EXCEPT ![j] = [@ EXCEPT !.phase = "done"]]
       /\ last_snapshot' = jobs[j].result
       /\ \/ Put(w, Idle) /\ UNCHANGED faults
          \/ faults < MaxFaults /\ faults' = faults + 1 /\ Raise(w, FALSE)
       /\ UNCHANGED <<project, environment>>

\* A conflict with the head ends the job; the third error in a row stops it.
Handled_ConflictRetried(job, conflict) ==
    [job EXCEPT !.attempts = @ + 1, !.phase = IF job.attempts >= 2 THEN "failed" ELSE @]
Handled(job, conflict) ==
    IF conflict THEN [job EXCEPT !.phase = "superseded"]
    ELSE [job EXCEPT !.attempts = @ + 1, !.phase = IF job.attempts >= 2 THEN "failed" ELSE @]
HandleError(w) ==
    LET j == worker[w].job
    IN /\ worker[w].pc = "error"
       /\ \/ j = NoJob /\ UNCHANGED jobs
          \/ j # NoJob /\ jobs' = [jobs EXCEPT ![j] = Handled(@, worker[w].conflict)]
       /\ Put(w, Idle)
       /\ UNCHANGED <<project, last_snapshot, environment, faults>>

\* The operator lets the failed job go on from where it was.
Resumed(job) ==
    IF job.phase = "failed"
    THEN [job EXCEPT !.phase = IF job.result = NoSnapshot THEN "capture" ELSE "report",
                     !.attempts = 0]
    ELSE job
Retry ==
    /\ Free
    /\ \E j \in DOMAIN jobs : jobs[j].phase = "failed"
    /\ jobs' = [j \in DOMAIN jobs |-> Resumed(jobs[j])]
    /\ UNCHANGED <<project, last_snapshot, worker, environment, faults>>

-----------------------------------------------------------------------------
\* Any other CoreError of a step that has not changed anything.
Fail(w) ==
    /\ worker[w].pc \notin {"idle", "error"}
    /\ faults < MaxFaults /\ faults' = faults + 1
    /\ Raise(w, FALSE)
    /\ UNCHANGED <<project, journal, environment>>

\* The process dies, or leaves the tick by an exception that is no CoreError.
Crash(w) ==
    /\ worker[w].pc # "idle"
    /\ faults < MaxFaults /\ faults' = faults + 1
    /\ Put(w, Idle)
    /\ UNCHANGED <<project, journal, environment>>

\* Another caller's publication: it read the sources some time before.
OtherPublishes ==
    /\ \E o \in Others, c \in Contents : State!Publish(o, <<head.source, c>>)
    /\ UNCHANGED <<journal, worker, environment, faults>>

Reconfigure ==
    /\ head.source < MaxSource
    /\ State!Reconfigure
    /\ UNCHANGED <<journal, worker, environment, faults>>

ChangeTree ==
    /\ changes < MaxChanges /\ changes' = changes + 1
    /\ \E c \in Contents \ {tree} : tree' = c
    /\ UNCHANGED <<project, journal, worker, faults>>

Tick(w) == Begin(w) \/ Probe(w) \/ Decide(w) \/ Lookup(w) \/ Commit(w) \/ Note(w) \/ Report(w)
           \/ HandleError(w)
Next ==
    \/ \E w \in Workers : Tick(w) \/ Fail(w) \/ Crash(w)
    \/ Retry \/ OtherPublishes \/ Reconfigure \/ ChangeTree

Spec == Init /\ [][Next]_vars

\* The worker polls for ever: the polling loop of a process that died is started again.
\* The operator retries what has failed.
FairSpec == Spec /\ \A w \in Workers : WF_vars(Tick(w)) /\ WF_vars(Retry)

-----------------------------------------------------------------------------
\* Every value stays in its type.
TypeOK ==
    /\ tree \in Contents /\ head \in ProjectHead
    /\ jobs \in Seq(Job) /\ Len(jobs) <= MaxJobs
    /\ last_snapshot \in MaybeSnapshot
    /\ worker \in [Workers -> Worker]
    /\ changes \in Nat /\ faults \in Nat

Kept == {j \in DOMAIN jobs : jobs[j].phase # "superseded"}
Follows(k, j) == k < j /\ \A i \in Kept : ~(k < i /\ i < j)

\* The reports are one chain of changes without a gap or a fork: each job starts
\* from the snapshot at which the one before it ended, over superseded attempts,
\* deaths of the worker, errors and a second worker; only the newest may be open.
ReportsChain ==
    /\ \A j \in Kept : (\A k \in Kept : k >= j) => jobs[j].baseline = NoSnapshot
    /\ \A k, j \in Kept : Follows(k, j) => jobs[j].baseline = jobs[k].result
    /\ \A j, k \in Kept : j < k => jobs[j].phase = "done"

\* Whatever the observer published is accounted for: its job is not given up as
\* superseded, and is never reported as another snapshot, although the worker
\* may have died or lost the answer, and the head may have moved on since.
PublicationIsAccountedFor ==
    \A r \in receipts : \A j \in DOMAIN jobs :
      r.operation = j =>
        /\ r.expected = jobs[j].expected
        /\ jobs[j].phase # "superseded"
        /\ jobs[j].result \in {r.snapshot, NoSnapshot}
        /\ jobs[j].phase = "done" => jobs[j].result = r.snapshot

\* Once the sources and the head stand still and errors end, the last report is
\* about the head, and the head is what the sources are, unless the journal fills.
CatchesUp ==
    <>[](\/ Len(jobs) = MaxJobs
         \/ /\ First(jobs) = NoJob
            /\ last_snapshot = head.snapshot /\ head.snapshot = Sources)
=============================================================================
