--------------------------- MODULE ObserverProofs ---------------------------
(* Proofs about Observer for every value of its constants. *)
EXTENDS Observer, TLAPS

USE BoundAssumption, OthersAssumption, ContentsAssumption, NullAssumption DEF NoJob

Receipt == [operation: (1..MaxJobs) \union Others, expected: ProjectHead, snapshot: Snapshots,
            revision: Nat]
Typed == TypeOK /\ receipts \subseteq Receipt

-----------------------------------------------------------------------------
(* The inductive invariant.                                                *)

\* One worker at a time holds the profile's lock.
Exclusive ==
    \A v, w \in Workers : (worker[v].pc # "idle" /\ worker[w].pc # "idle") => v = w

\* The journal: whatever is open is the newest job, every job starts where the
\* one kept before it ended, and last_snapshot is where the newest one starts or
\* ends.
Newest(j) ==
    /\ last_snapshot \in {jobs[j].baseline, jobs[j].result}
    /\ jobs[j].result = NoSnapshot => last_snapshot = jobs[j].baseline
    /\ jobs[j].phase = "done" => last_snapshot = jobs[j].result
    /\ jobs[j].phase = "superseded" => last_snapshot = jobs[j].baseline
    /\ jobs[j].phase = "capture" => jobs[j].result = NoSnapshot
    /\ jobs[j].phase \in {"report", "done"} => jobs[j].result # NoSnapshot
Settled == \A j \in DOMAIN jobs : j < Len(jobs) => jobs[j].phase \in {"done", "superseded"}
Chained ==
    \A j \in DOMAIN jobs :
      /\ (\A k \in Kept : k >= j) => jobs[j].baseline = NoSnapshot
      /\ \A k \in Kept : Follows(k, j) => jobs[j].baseline = jobs[k].result
Journal ==
    /\ Settled /\ Chained
    /\ \A j \in DOMAIN jobs : j = Len(jobs) => Newest(j)
    /\ jobs = << >> => last_snapshot = NoSnapshot

\* The observer's receipts: one per job, told from the job's own record.
Accounted ==
    /\ \A r, q \in receipts : r.operation = q.operation => r = q
    /\ \A r \in receipts : r.operation \notin Others => r.operation \in DOMAIN jobs
    /\ PublicationIsAccountedFor

\* What the worker in a tick has established.
Unpublished(j) == \A r \in receipts : r.operation # j
WorkerOK(c) ==
    /\ c.pc \in {"probe", "decide"} => Active(jobs) = {}
    /\ c.pc = "decide" => c.seen \in Snapshots
    /\ (c.pc # "idle" /\ c.job # NoJob) => c.job = Len(jobs)
    /\ c.pc \in {"lookup", "commit", "note"} =>
         c.job # NoJob /\ jobs[c.job].phase = "capture"
    /\ c.pc = "commit" => c.seen \in Snapshots /\ Unpublished(c.job)
    /\ c.pc = "note" =>
         /\ c.seen \in Snapshots
         /\ \E r \in receipts : r.operation = c.job /\ r.snapshot = c.seen
    /\ c.pc = "report" => c.job # NoJob /\ jobs[c.job].phase = "report"
    /\ (c.pc = "error" /\ c.conflict) =>
         c.job # NoJob /\ jobs[c.job].phase = "capture" /\ Unpublished(c.job)

IInv == Typed /\ Exclusive /\ Journal /\ Accounted
        /\ \A w \in Workers : WorkerOK(worker[w])

-----------------------------------------------------------------------------
LEMMA IdleFacts == Idle \in Worker /\ Idle.pc = "idle" /\ Idle.job = NoJob /\ ~Idle.conflict
  BY DEF Idle, Worker, FirstHead, ProjectHead, MaybeSnapshot

LEMMA IdleOK == WorkerOK(Idle)
  BY IdleFacts DEF WorkerOK

\* A record of a worker is changed by the worker that holds the lock.
LEMMA PutKeeps ==
    ASSUME Typed, Exclusive, NEW w \in Workers, NEW c \in Worker, Put(w, c),
           (\A v \in Workers : worker[v].pc = "idle") \/ worker[w].pc # "idle",
           WorkerOK(c)'
    PROVE  /\ worker' \in [Workers -> Worker]
           /\ Exclusive'
           /\ (\A v \in Workers : WorkerOK(worker[v]))'
  <1>1. worker \in [Workers -> Worker] /\ worker' = [worker EXCEPT ![w] = c]
    BY DEF Put, Typed, TypeOK
  <1>2. worker' \in [Workers -> Worker] /\ worker'[w] = c
        /\ \A v \in Workers \ {w} : worker'[v] = worker[v]
    BY <1>1
  <1>3. \A v \in Workers \ {w} : worker[v].pc = "idle" \/ (worker[w].pc = "idle" /\ worker[v].pc = "idle")
    BY DEF Exclusive
  <1>4. \A v \in Workers \ {w} : worker'[v].pc = "idle" /\ worker[v].pc = "idle"
    BY <1>2, <1>3
  <1>5. Exclusive'
    BY <1>2, <1>4 DEF Exclusive
  <1>6. ASSUME NEW v \in Workers \ {w} PROVE WorkerOK(worker[v])'
    <2>1. worker'[v] = worker[v] /\ worker'[v].pc = "idle" /\ worker'[v] \in Worker
      BY <1>2, <1>4
    <2> QED BY <2>1 DEF WorkerOK
  <1> QED BY <1>2, <1>5, <1>6

-----------------------------------------------------------------------------
(* The journal.                                                            *)

LEMMA JobFields ==
    ASSUME NEW job \in Job
    PROVE  /\ job.phase \in {"capture", "report", "done", "superseded", "failed"}
           /\ job.expected \in ProjectHead /\ job.baseline \in MaybeSnapshot
           /\ job.result \in MaybeSnapshot /\ job.attempts \in Nat
  BY DEF Job

LEMMA FirstIsNewest ==
    ASSUME NEW list \in Seq(Job),
           \A j \in DOMAIN list : j < Len(list) => list[j].phase \in {"done", "superseded"}
    PROVE  \/ First(list) = NoJob /\ Active(list) = {}
           \/ /\ First(list) = Len(list) /\ Len(list) \in DOMAIN list
              /\ list[Len(list)].phase \in {"capture", "report", "failed"}
  <1>1. \A j \in Active(list) : j = Len(list) /\ j \in DOMAIN list
    <2> SUFFICES ASSUME NEW j \in Active(list) PROVE j = Len(list) /\ j \in DOMAIN list
      OBVIOUS
    <2>1. j \in DOMAIN list /\ list[j].phase \in {"capture", "report", "failed"}
      BY DEF Active
    <2>2. j \in 1..Len(list) /\ Len(list) \in Nat
      BY <2>1
    <2> QED BY <2>1, <2>2
  <1>2. CASE Active(list) = {}
    BY <1>2 DEF First
  <1>3. CASE Active(list) # {}
    <2>1. Len(list) \in Active(list) /\ Len(list) \in Nat
      BY <1>1, <1>3
    <2>2. First(list) \in Active(list)
      <3>1. \E j \in Active(list) : \A k \in Active(list) : j <= k
        BY <1>1, <2>1
      <3> QED BY <1>3, <3>1 DEF First
    <2> QED BY <1>1, <2>2 DEF Active
  <1> QED BY <1>2, <1>3

\* Nothing of the journal changes but its newest job.
Rewritten(job) ==
    /\ Len(jobs) \in DOMAIN jobs /\ job \in Job
    /\ jobs' = [jobs EXCEPT ![Len(jobs)] = job]
    /\ job.baseline = jobs[Len(jobs)].baseline /\ job.expected = jobs[Len(jobs)].expected

LEMMA RewrittenFacts ==
    ASSUME Typed, NEW job, Rewritten(job)
    PROVE  /\ jobs' \in Seq(Job) /\ Len(jobs') = Len(jobs) /\ DOMAIN jobs' = DOMAIN jobs
           /\ DOMAIN jobs = 1..Len(jobs) /\ Len(jobs) \in Nat
           /\ jobs'[Len(jobs)] = job
           /\ \A j \in DOMAIN jobs : j # Len(jobs) => jobs'[j] = jobs[j]
  BY DEF Typed, TypeOK, Rewritten

LEMMA RewrittenKeepsJournal ==
    ASSUME Typed, Journal, NEW job, Rewritten(job), Newest(Len(jobs))'
    PROVE  Journal'
  <1> DEFINE n == Len(jobs)
  <1>0. n \in Nat /\ n \in DOMAIN jobs /\ DOMAIN jobs = 1..n /\ DOMAIN jobs' = 1..n /\ Len(jobs') = n
        /\ jobs'[n] = job /\ job.baseline = jobs[n].baseline
        /\ \A j \in DOMAIN jobs : j # n => jobs'[j] = jobs[j]
    BY RewrittenFacts DEF Rewritten
  <1> HIDE DEF n
  <1>1. Settled'
    BY <1>0 DEF Settled, Journal, n
  <1>2. \A k \in 1..n : k # n => (k \in Kept' <=> k \in Kept)
    BY <1>0 DEF Kept
  <1>3. \A k : (k \in Kept' \/ k \in Kept) => k \in 1..n
    BY <1>0 DEF Kept
  <1>4. ASSUME NEW j \in DOMAIN jobs', \A k \in Kept' : k >= j
        PROVE  jobs'[j].baseline = NoSnapshot
    <2>1. \A k \in Kept : k >= j
      BY <1>0, <1>2, <1>3, <1>4
    <2>2. jobs[j].baseline = NoSnapshot
      BY <1>0, <2>1 DEF Journal, Chained
    <2> QED BY <1>0, <2>2
  <1>5. ASSUME NEW j \in DOMAIN jobs', NEW k \in Kept', Follows(k, j)'
        PROVE  jobs'[j].baseline = jobs'[k].result
    <2>1. k \in 1..n /\ k < j /\ j \in 1..n
      BY <1>0, <1>3, <1>5 DEF Follows
    <2>2. k \in Kept /\ k # n
      BY <1>0, <1>2, <2>1
    <2>3. Follows(k, j)
      BY <1>0, <1>2, <1>3, <1>5, <2>1 DEF Follows
    <2>4. jobs[j].baseline = jobs[k].result
      BY <1>0, <2>2, <2>3 DEF Journal, Chained
    <2> QED BY <1>0, <2>1, <2>2, <2>4
  <1>6. Chained'
    BY <1>4, <1>5 DEF Chained
  <1>7. \A j \in DOMAIN jobs' : j = Len(jobs') => Newest(j)'
    BY <1>0 DEF n
  <1>8. jobs' # << >>
    BY <1>0
  <1> QED BY <1>1, <1>6, <1>7, <1>8 DEF Journal

LEMMA AppendedKeepsJournal ==
    ASSUME Typed, Journal, NEW job \in Job, jobs' = Append(jobs, job), Active(jobs) = {},
           last_snapshot' = last_snapshot, job.baseline = last_snapshot,
           NEW m, m = Len(jobs) + 1, Newest(m)'
    PROVE  Journal'
  <1> DEFINE n == Len(jobs)
  <1>0. n \in Nat /\ DOMAIN jobs = 1..n /\ DOMAIN jobs' = 1..(n + 1) /\ Len(jobs') = n + 1
        /\ jobs'[n + 1] = job /\ \A j \in 1..n : jobs'[j] = jobs[j]
    BY DEF Typed, TypeOK
  <1>00. \A j \in 1..n : jobs[j] \in Job
    BY DEF Typed, TypeOK
  <1>1. \A j \in 1..n : jobs[j].phase \in {"done", "superseded"}
    BY <1>0, <1>00, JobFields DEF Active
  <1>2. Settled'
    BY <1>0, <1>1 DEF Settled
  <1>3. \A k \in 1..n : k \in Kept' <=> k \in Kept
    BY <1>0 DEF Kept
  <1>4. \A k : (k \in Kept' => k \in 1..(n + 1)) /\ (k \in Kept => k \in 1..n)
    BY <1>0 DEF Kept
  <1>5. n > 0 => Newest(n)
    BY <1>0 DEF Journal
  <1>6. n = 0 => last_snapshot = NoSnapshot
    BY <1>0 DEF Journal
  <1> HIDE DEF n
  <1>7. ASSUME NEW j \in DOMAIN jobs', \A k \in Kept' : k >= j
        PROVE  jobs'[j].baseline = NoSnapshot
    <2>1. CASE j \in 1..n
      <3>1. \A k \in Kept : k >= j
        BY <1>3, <1>4, <1>7
      <3> QED BY <1>0, <2>1, <3>1 DEF Journal, Chained
    <2>2. CASE j = n + 1 /\ n = 0
      BY <1>0, <1>6, <2>2
    <2>3. CASE j = n + 1 /\ n > 0
      <3>1. n \notin Kept' /\ n \in 1..n
        BY <1>0, <1>7, <2>3
      <3>2. jobs[n].phase = "superseded"
        BY <1>0, <1>3, <3>1 DEF Kept
      <3>3. \A k \in Kept : k >= n
        BY <1>0, <1>3, <1>4, <1>7, <2>3
      <3>4. jobs[n].baseline = NoSnapshot
        BY <1>0, <3>1, <3>3 DEF Journal, Chained
      <3> QED BY <1>0, <1>5, <2>3, <3>2, <3>4 DEF Newest
    <2> QED BY <1>0, <2>1, <2>2, <2>3
  <1>8. ASSUME NEW j \in DOMAIN jobs', NEW k \in Kept', Follows(k, j)'
        PROVE  jobs'[j].baseline = jobs'[k].result
    <2>1. k \in 1..(n + 1) /\ j \in 1..(n + 1) /\ k < j /\ \A i \in Kept' : ~(k < i /\ i < j)
      BY <1>0, <1>4, <1>8 DEF Follows
    <2>2. k \in 1..n /\ k \in Kept
      BY <1>0, <1>3, <2>1
    <2>3. CASE j \in 1..n
      <3>1. Follows(k, j)
        BY <1>3, <1>4, <2>1 DEF Follows
      <3> QED BY <1>0, <2>2, <2>3, <3>1 DEF Journal, Chained
    <2>4. CASE j = n + 1 /\ k = n
      <3>1. jobs[n].phase = "done"
        BY <1>0, <1>1, <2>2, <2>4 DEF Kept
      <3> QED BY <1>0, <1>5, <2>2, <2>4, <3>1 DEF Newest
    <2>5. CASE j = n + 1 /\ k < n
      <3>1. n \in 1..n /\ n \notin Kept'
        BY <1>0, <2>1, <2>2, <2>5
      <3>2. jobs[n].phase = "superseded" /\ n \notin Kept
        BY <1>0, <1>3, <3>1 DEF Kept
      <3>3. Follows(k, n)
        BY <1>0, <1>3, <1>4, <2>1, <2>5 DEF Follows
      <3>4. jobs[n].baseline = jobs[k].result
        BY <1>0, <2>2, <3>1, <3>3 DEF Journal, Chained
      <3> QED BY <1>0, <1>5, <2>2, <2>5, <3>2, <3>4 DEF Newest
    <2> QED BY <1>0, <2>1, <2>2, <2>3, <2>4, <2>5
  <1>9. Chained'
    BY <1>7, <1>8 DEF Chained
  <1>10. \A j \in DOMAIN jobs' : j = Len(jobs') => Newest(j)'
    BY <1>0 DEF n
  <1>11. jobs' # << >>
    BY <1>0
  <1> QED BY <1>2, <1>9, <1>10, <1>11 DEF Journal

LEMMA UnchangedKeepsJournal ==
    ASSUME Journal, UNCHANGED <<jobs, last_snapshot>>
    PROVE  Journal' /\ Active(jobs)' = Active(jobs)
  <1>1. jobs' = jobs /\ last_snapshot' = last_snapshot
    OBVIOUS
  <1>2. Kept' = Kept /\ Active(jobs)' = Active(jobs)
    BY <1>1 DEF Kept, Active
  <1>3. \A j, k : Follows(k, j)' <=> Follows(k, j)
    BY <1>2 DEF Follows
  <1>4. \A j : Newest(j)' <=> Newest(j)
    BY <1>1 DEF Newest
  <1>5. Settled' /\ Chained'
    BY <1>1, <1>2, <1>3 DEF Journal, Settled, Chained
  <1> QED BY <1>1, <1>2, <1>4, <1>5 DEF Journal

-----------------------------------------------------------------------------
(* The receipts.                                                           *)

LEMMA RewrittenKeepsAccounted ==
    ASSUME Typed, Accounted, NEW job, Rewritten(job), UNCHANGED receipts,
           \A r \in receipts : r.operation = Len(jobs) =>
             /\ job.phase # "superseded"
             /\ job.result \in {r.snapshot, NoSnapshot}
             /\ job.phase = "done" => job.result = r.snapshot
    PROVE  Accounted'
  <1>1. DOMAIN jobs' = DOMAIN jobs /\ jobs'[Len(jobs)] = job
        /\ \A j \in DOMAIN jobs : j # Len(jobs) => jobs'[j] = jobs[j]
    BY RewrittenFacts
  <1>2. receipts' = receipts /\ Len(jobs) \in DOMAIN jobs
        /\ job.expected = jobs[Len(jobs)].expected
    BY DEF Rewritten
  <1>3. ASSUME NEW r \in receipts, NEW j \in DOMAIN jobs, r.operation = j
        PROVE  /\ r.expected = jobs'[j].expected
               /\ jobs'[j].phase # "superseded"
               /\ jobs'[j].result \in {r.snapshot, NoSnapshot}
               /\ jobs'[j].phase = "done" => jobs'[j].result = r.snapshot
    <2>1. r.expected = jobs[j].expected /\ jobs[j].phase # "superseded"
          /\ jobs[j].result \in {r.snapshot, NoSnapshot}
          /\ (jobs[j].phase = "done" => jobs[j].result = r.snapshot)
      BY <1>3 DEF Accounted, PublicationIsAccountedFor
    <2> QED BY <1>1, <1>2, <1>3, <2>1
  <1> QED BY <1>1, <1>2, <1>3 DEF Accounted, PublicationIsAccountedFor

LEMMA AppendedKeepsAccounted ==
    ASSUME Typed, Accounted, NEW job \in Job, jobs' = Append(jobs, job), UNCHANGED receipts,
           Len(jobs) < MaxJobs
    PROVE  Accounted' /\ Unpublished(Len(jobs) + 1)
  <1>1. DOMAIN jobs = 1..Len(jobs) /\ DOMAIN jobs' = 1..(Len(jobs) + 1) /\ Len(jobs) \in Nat
        /\ \A j \in DOMAIN jobs : jobs'[j] = jobs[j]
    BY DEF Typed, TypeOK
  <1>2. \A r \in receipts : r.operation \in DOMAIN jobs \/ r.operation \in Others
    BY DEF Accounted
  <1>3. \A j \in 1..MaxJobs : j \notin Others
    OBVIOUS
  <1>4. Unpublished(Len(jobs) + 1)
    <2>1. Len(jobs) + 1 \in 1..MaxJobs /\ Len(jobs) + 1 \notin DOMAIN jobs
      BY <1>1
    <2> QED BY <1>2, <1>3, <2>1 DEF Unpublished
  <1>5. PublicationIsAccountedFor'
    <2>1. ASSUME NEW r \in receipts, NEW j \in DOMAIN jobs', r.operation = j
          PROVE  j \in DOMAIN jobs
      BY <1>1, <1>4, <2>1 DEF Unpublished
    <2> QED BY <1>1, <2>1 DEF PublicationIsAccountedFor, Accounted
  <1>6. \A r \in receipts : r.operation \notin Others => r.operation \in DOMAIN jobs'
    BY <1>1, <1>2
  <1> QED BY <1>4, <1>5, <1>6 DEF Accounted

\* A publication under a new operation: another caller's, or the job's own
\* from the head it expects.
LEMMA PublishedKeepsAccounted ==
    ASSUME Typed, Accounted, NEW o \in (1..MaxJobs) \union Others, NEW s \in Snapshots,
           State!Publish(o, s), UNCHANGED jobs,
           o \notin Others =>
             /\ o \in DOMAIN jobs /\ head = jobs[o].expected
             /\ jobs[o].phase = "capture" /\ jobs[o].result = NoSnapshot
    PROVE  /\ Accounted' /\ head' \in ProjectHead /\ receipts' \subseteq Receipt
           /\ \A j : (j # o /\ Unpublished(j)) => Unpublished(j)'
  <1> DEFINE receipt == [operation |-> o, expected |-> head, snapshot |-> s,
                         revision |-> head.revision + 1]
  <1>1. receipts' = receipts \union {receipt} /\ \A r \in receipts : r.operation # o
    BY DEF State!Publish
  <1>2. head \in ProjectHead /\ head.revision \in Nat /\ head.source \in 1..MaxSource
    BY DEF Typed, TypeOK, ProjectHead
  <1>3. receipt \in Receipt
    BY <1>2 DEF Receipt
  <1>4. receipts' \subseteq Receipt
    BY <1>1, <1>3 DEF Typed
  <1>5. head' \in ProjectHead
    BY <1>2 DEF State!Publish, ProjectHead, MaybeSnapshot
  <1>6. receipt.operation = o /\ receipt.expected = head /\ receipt.snapshot = s
    OBVIOUS
  <1> HIDE DEF receipt
  <1>7. \A r, q \in receipts' : r.operation = q.operation => r = q
    BY <1>1, <1>6 DEF Accounted
  <1>8. \A r \in receipts' : r.operation \notin Others => r.operation \in DOMAIN jobs'
    BY <1>1, <1>6 DEF Accounted
  <1>9. \A j \in DOMAIN jobs : j \notin Others
    BY DEF Typed, TypeOK
  <1>10. PublicationIsAccountedFor'
    BY <1>1, <1>6, <1>9 DEF PublicationIsAccountedFor, Accounted
  <1>11. \A j : (j # o /\ Unpublished(j)) => Unpublished(j)'
    BY <1>1, <1>6 DEF Unpublished
  <1> QED BY <1>4, <1>5, <1>7, <1>8, <1>10, <1>11 DEF Accounted

LEMMA UnchangedKeepsAccounted ==
    ASSUME Accounted, UNCHANGED <<jobs, receipts>>
    PROVE  Accounted' /\ \A j : Unpublished(j)' <=> Unpublished(j)
  BY DEF Accounted, PublicationIsAccountedFor, Unpublished

-----------------------------------------------------------------------------
(* Steps.                                                                  *)

Current(w) == (\A v \in Workers : worker[v].pc = "idle") \/ worker[w].pc # "idle"

\* A step of a worker that changes neither the project nor the journal.
LEMMA LocalStep ==
    ASSUME IInv, NEW w \in Workers, NEW c \in Worker, Put(w, c), Current(w), WorkerOK(c),
           UNCHANGED <<project, journal, environment>>, faults' \in Nat
    PROVE  IInv'
  <1>1. jobs' = jobs /\ receipts' = receipts /\ last_snapshot' = last_snapshot /\ head' = head
        /\ tree' = tree /\ changes' = changes
    BY DEF project, journal, environment
  <1>2. Journal' /\ Active(jobs)' = Active(jobs)
    BY <1>1, UnchangedKeepsJournal DEF IInv
  <1>3. Accounted' /\ \A j : Unpublished(j)' <=> Unpublished(j)
    BY <1>1, UnchangedKeepsAccounted DEF IInv
  <1>4. WorkerOK(c)'
    BY <1>1, <1>2, <1>3 DEF WorkerOK
  <1>5. /\ worker' \in [Workers -> Worker] /\ Exclusive'
        /\ (\A v \in Workers : WorkerOK(worker[v]))'
    BY <1>4, PutKeeps DEF IInv, Current
  <1>6. Typed'
    BY <1>1, <1>5 DEF IInv, Typed, TypeOK
  <1> QED BY <1>2, <1>3, <1>5, <1>6 DEF IInv

\* A step of a worker that rewrites the newest job.
LEMMA JournalStep ==
    ASSUME IInv, NEW w \in Workers, NEW c \in Worker, Put(w, c), Current(w), WorkerOK(c)',
           NEW job, Rewritten(job), Newest(Len(jobs))',
           \A r \in receipts : r.operation = Len(jobs) =>
             /\ job.phase # "superseded"
             /\ job.result \in {r.snapshot, NoSnapshot}
             /\ job.phase = "done" => job.result = r.snapshot,
           UNCHANGED <<project, environment>>, faults' \in Nat, last_snapshot' \in MaybeSnapshot
    PROVE  IInv'
  <1>1. receipts' = receipts /\ head' = head /\ tree' = tree /\ changes' = changes
    BY DEF project, environment
  <1>2. Journal'
    BY RewrittenKeepsJournal DEF IInv
  <1>3. Accounted'
    BY <1>1, RewrittenKeepsAccounted DEF IInv
  <1>4. /\ worker' \in [Workers -> Worker] /\ Exclusive'
        /\ (\A v \in Workers : WorkerOK(worker[v]))'
    BY PutKeeps DEF IInv, Current
  <1>5. jobs' \in Seq(Job) /\ Len(jobs') = Len(jobs)
    BY RewrittenFacts DEF IInv
  <1>6. Typed'
    BY <1>1, <1>4, <1>5 DEF IInv, Typed, TypeOK
  <1> QED BY <1>2, <1>3, <1>4, <1>6 DEF IInv

LEMMA WorkerFields ==
    ASSUME NEW c \in Worker
    PROVE  /\ c.job \in 0..MaxJobs /\ c.head \in ProjectHead /\ c.seen \in MaybeSnapshot
           /\ c.conflict \in BOOLEAN
           /\ \A l \in {"idle", "probe", "decide", "lookup", "commit", "note", "report", "error"} :
                [c EXCEPT !.pc = l] \in Worker /\ [c EXCEPT !.pc = l].pc = l
                /\ [c EXCEPT !.pc = l].job = c.job /\ [c EXCEPT !.pc = l].seen = c.seen
                /\ [c EXCEPT !.pc = l].conflict = c.conflict
  BY DEF Worker

LEMMA SeenFields ==
    ASSUME NEW c \in Worker, NEW l \in {"decide", "commit", "note"}, NEW s \in Snapshots
    PROVE  LET d == [c EXCEPT !.pc = l, !.seen = s]
           IN d \in Worker /\ d.pc = l /\ d.seen = s /\ d.job = c.job
  BY DEF Worker, MaybeSnapshot

LEMMA PlacedFields ==
    ASSUME NEW c \in Worker, NEW l \in {"lookup", "report"}, NEW m \in 0..MaxJobs
    PROVE  LET d == [c EXCEPT !.pc = l, !.job = m]
           IN d \in Worker /\ d.pc = l /\ d.job = m
  BY DEF Worker

LEMMA RaiseFields ==
    ASSUME NEW c \in Worker, NEW x \in BOOLEAN
    PROVE  LET d == [c EXCEPT !.pc = "error", !.conflict = x]
           IN d \in Worker /\ d.pc = "error" /\ d.conflict = x /\ d.job = c.job
  BY DEF Worker

LEMMA Facts ==
    ASSUME IInv, NEW w \in Workers
    PROVE  /\ worker[w] \in Worker /\ WorkerOK(worker[w])
           /\ faults \in Nat /\ faults + 1 \in Nat /\ last_snapshot \in MaybeSnapshot
           /\ jobs \in Seq(Job) /\ Len(jobs) \in Nat /\ Len(jobs) <= MaxJobs
           /\ DOMAIN jobs = 1..Len(jobs) /\ \A j \in DOMAIN jobs : jobs[j] \in Job
           /\ head \in ProjectHead /\ head.source \in 1..MaxSource /\ Sources \in Snapshots
  BY DEF IInv, Typed, TypeOK, ProjectHead, Sources, Snapshots

LEMMA ReceiptFields ==
    ASSUME IInv, NEW r \in receipts
    PROVE  r.snapshot \in Snapshots
  <1>1. r \in Receipt
    BY DEF IInv, Typed
  <1> QED BY <1>1 DEF Receipt

LEMMA BeginStep == ASSUME IInv, NEW w \in Workers, Begin(w) PROVE IInv'
  <1> DEFINE j == First(jobs)
             c == [Idle EXCEPT !.job = j, !.pc = IF j = NoJob THEN "probe" ELSE StepFor(jobs[j])]
  <1>1. Put(w, c) /\ Current(w) /\ UNCHANGED <<project, journal, environment, faults>>
        /\ (j # NoJob => jobs[j].phase # "failed")
    BY DEF Begin, Free, Current
  <1>2. \/ j = NoJob /\ Active(jobs) = {}
        \/ j = Len(jobs) /\ j \in 1..MaxJobs /\ jobs[j].phase \in {"capture", "report"}
    BY <1>1, Facts, FirstIsNewest DEF IInv, Journal, Settled
  <1> HIDE DEF j
  <1> DEFINE l == IF j = NoJob THEN "probe" ELSE StepFor(jobs[j])
  <1>5. l \in {"probe", "lookup", "report"} /\ j \in 0..MaxJobs
    BY <1>2 DEF StepFor
  <1>6. c = [Idle EXCEPT !.job = j, !.pc = l]
    OBVIOUS
  <1> HIDE DEF c, l
  <1>7. c \in Worker /\ c.job = j /\ c.pc = l
    BY <1>5, <1>6, IdleFacts DEF Worker
  <1>3. /\ c \in Worker /\ c.job = j
        /\ c.pc = IF j = NoJob THEN "probe" ELSE StepFor(jobs[j])
    BY <1>7 DEF l
  <1>4. WorkerOK(c)
    BY <1>2, <1>3 DEF WorkerOK, StepFor
  <1> QED BY <1>1, <1>3, <1>4, Facts, LocalStep DEF project, journal, environment

LEMMA ProbeStep == ASSUME IInv, NEW w \in Workers, Probe(w) PROVE IInv'
  <1> DEFINE c == [worker[w] EXCEPT !.pc = "decide", !.head = head, !.seen = Sources]
  <1>1. worker[w].pc = "probe" /\ Put(w, c) /\ UNCHANGED <<project, journal, environment, faults>>
    BY DEF Probe
  <1>2. c \in Worker /\ c.pc = "decide" /\ c.seen = Sources /\ c.job = worker[w].job
    BY Facts DEF Worker, MaybeSnapshot
  <1> HIDE DEF c
  <1>3. WorkerOK(c)
    BY <1>1, <1>2, Facts DEF WorkerOK
  <1> QED BY <1>1, <1>2, <1>3, Facts, LocalStep DEF Current

LEMMA LookupStep == ASSUME IInv, NEW w \in Workers, Lookup(w) PROVE IInv'
  <1> DEFINE j == worker[w].job
             own == {r \in receipts : r.operation = j}
  <1>1. worker[w].pc = "lookup" /\ Current(w) /\ UNCHANGED <<project, journal, environment, faults>>
    BY DEF Lookup, Current
  <1>2. j # NoJob /\ j = Len(jobs) /\ jobs[j].phase = "capture" /\ worker[w] \in Worker
    BY <1>1, Facts DEF WorkerOK
  <1>3. ASSUME NEW r \in own, Put(w, [worker[w] EXCEPT !.pc = "note", !.seen = r.snapshot])
        PROVE  IInv'
    <2>0. r \in receipts /\ r.operation = j
      OBVIOUS
    <2> HIDE DEF own
    <2>1. r.snapshot \in Snapshots
      BY <2>0, ReceiptFields
    <2>2. PICK t \in Snapshots : t = r.snapshot
      BY <2>1
    <2> DEFINE c == [worker[w] EXCEPT !.pc = "note", !.seen = t]
    <2>3. c \in Worker /\ c.pc = "note" /\ c.seen = t /\ c.job = j
      BY <1>2, SeenFields
    <2>4. Put(w, c)
      BY <1>3, <2>2
    <2> HIDE DEF c, j
    <2>5. WorkerOK(c)
      BY <1>2, <2>0, <2>2, <2>3 DEF WorkerOK
    <2> QED BY <1>1, <2>3, <2>4, <2>5, Facts, LocalStep
  <1>4. ASSUME own = {}, Put(w, [worker[w] EXCEPT !.pc = "commit", !.seen = Sources])
        PROVE  IInv'
    <2> DEFINE c == [worker[w] EXCEPT !.pc = "commit", !.seen = Sources]
    <2>1. Sources \in Snapshots
      BY Facts
    <2>2. c \in Worker /\ c.pc = "commit" /\ c.seen = Sources /\ c.job = j
      BY <1>2, <2>1, SeenFields
    <2>3. Unpublished(j)
      BY <1>4 DEF Unpublished
    <2> HIDE DEF c, j
    <2>4. WorkerOK(c)
      BY <1>2, <2>1, <2>2, <2>3 DEF WorkerOK
    <2> QED BY <1>1, <1>4, <2>2, <2>4, Facts, LocalStep DEF c
  <1>5. ASSUME own = {}, Raise(w, TRUE) PROVE IInv'
    <2> DEFINE c == [worker[w] EXCEPT !.pc = "error", !.conflict = TRUE]
    <2>1. c \in Worker /\ c.pc = "error" /\ c.job = j
      BY <1>2, RaiseFields
    <2>2. Unpublished(j)
      BY <1>5 DEF Unpublished
    <2> HIDE DEF c, j
    <2>3. WorkerOK(c)
      BY <1>2, <2>1, <2>2 DEF WorkerOK
    <2> QED BY <1>1, <1>5, <2>1, <2>3, Facts, LocalStep DEF c, Raise
  <1> QED BY <1>3, <1>4, <1>5 DEF Lookup

LEMMA FailStep == ASSUME IInv, NEW w \in Workers, Fail(w) PROVE IInv'
  <1> DEFINE c == [worker[w] EXCEPT !.pc = "error", !.conflict = FALSE]
  <1>1. worker[w].pc # "idle" /\ Put(w, c) /\ faults' = faults + 1
        /\ UNCHANGED <<project, journal, environment>>
    BY DEF Fail, Raise
  <1>2. c \in Worker /\ c.pc = "error" /\ c.conflict = FALSE /\ c.job = worker[w].job
    BY Facts, RaiseFields
  <1> HIDE DEF c
  <1>3. WorkerOK(c)
    BY <1>1, <1>2, Facts DEF WorkerOK
  <1> QED BY <1>1, <1>2, <1>3, Facts, LocalStep DEF Current

LEMMA CrashStep == ASSUME IInv, NEW w \in Workers, Crash(w) PROVE IInv'
  BY IdleFacts, IdleOK, Facts, LocalStep DEF Crash, Current

LEMMA DecideStep == ASSUME IInv, NEW w \in Workers, Decide(w) PROVE IInv'
  <1> DEFINE h == worker[w].head
             job == NewJob(h, worker[w].seen)
             longer == Append(jobs, job)
             n == Len(jobs) + 1
             c == [worker[w] EXCEPT !.pc = StepFor(longer[First(longer)]), !.job = First(longer)]
  <1>1. /\ worker[w].pc = "decide" /\ Current(w)
        /\ UNCHANGED <<project, last_snapshot, environment, faults>>
    BY DEF Decide, Current
  <1>2. worker[w] \in Worker /\ worker[w].seen \in Snapshots /\ Active(jobs) = {}
        /\ h \in ProjectHead
    BY <1>1, Facts, WorkerFields DEF WorkerOK
  <1>3. ASSUME Put(w, Idle), UNCHANGED jobs PROVE IInv'
    BY <1>1, <1>3, IdleFacts, IdleOK, Facts, LocalStep DEF journal
  <1>4. ASSUME Raise(w, FALSE), UNCHANGED jobs PROVE IInv'
    <2> DEFINE d == [worker[w] EXCEPT !.pc = "error", !.conflict = FALSE]
    <2>1. d \in Worker /\ d.pc = "error" /\ d.conflict = FALSE /\ d.job = worker[w].job
      BY <1>2, RaiseFields
    <2>2. Put(w, d)
      BY <1>4 DEF Raise
    <2> HIDE DEF d
    <2>3. WorkerOK(d)
      BY <1>1, <2>1, Facts DEF WorkerOK
    <2> QED BY <1>1, <1>4, <2>1, <2>2, <2>3, Facts, LocalStep DEF journal
  <1>5. ASSUME Len(jobs) < MaxJobs, jobs' = longer, Put(w, c) PROVE IInv'
    <2>1. /\ job \in Job /\ job.baseline = last_snapshot
          /\ \/ job.phase = "report" /\ job.result # NoSnapshot
             \/ job.phase = "capture" /\ job.result = NoSnapshot
      <3>1. last_snapshot \in MaybeSnapshot /\ worker[w].seen # NoSnapshot
            /\ worker[w].seen \in MaybeSnapshot /\ NoSnapshot \in MaybeSnapshot
        BY <1>2, Facts DEF MaybeSnapshot
      <3> QED BY <1>2, <3>1 DEF NewJob, Job
    <2> HIDE DEF job
    <2>2. /\ longer \in Seq(Job) /\ Len(longer) = n /\ longer[n] = job /\ n \in 1..MaxJobs
          /\ DOMAIN longer = 1..n /\ DOMAIN jobs = 1..Len(jobs) /\ n = Len(jobs) + 1
          /\ Len(jobs) \in Nat /\ \A j \in DOMAIN jobs : longer[j] = jobs[j] /\ jobs[j] \in Job
      BY <1>5, <2>1, Facts
    <2> HIDE DEF longer, n
    <2>16. PICK m : m = n
      OBVIOUS
    <2>3. \A j \in DOMAIN jobs : jobs[j].phase \in {"done", "superseded"}
      BY <1>2, <2>2, JobFields DEF Active
    <2>4. \A j \in DOMAIN longer : j < Len(longer) => longer[j].phase \in {"done", "superseded"}
      BY <2>2, <2>3
    <2>5. n \in Active(longer)
      BY <2>1, <2>2 DEF Active
    <2>6. First(longer) = n
      BY <2>2, <2>4, <2>5, FirstIsNewest
    <2>7. PICK l \in {"lookup", "report"} : l = StepFor(job)
      BY <2>1 DEF StepFor
    <2>17. PICK d : d = [worker[w] EXCEPT !.pc = l, !.job = m]
      OBVIOUS
    <2>18. Put(w, d)
      BY <1>5, <2>2, <2>6, <2>7, <2>16, <2>17
    <2> HIDE DEF c
    <2>8. d \in Worker /\ d.pc = l /\ d.job = m
      <3>1. m \in 0..MaxJobs
        BY <2>2, <2>16
      <3>2. worker[w] \in Worker
        BY <1>2
      <3> QED BY <3>1, <3>2, <2>17 DEF Worker
    <2>9. last_snapshot' = last_snapshot /\ receipts' = receipts
      BY <1>1 DEF project
    <2>10. Newest(m)'
      BY <1>5, <2>1, <2>2, <2>9, <2>16 DEF Newest
    <2>11. Journal'
      BY <1>2, <1>5, <2>1, <2>2, <2>9, <2>10, <2>16, AppendedKeepsJournal DEF IInv, longer
    <2>12. Accounted'
      BY <1>5, <2>1, <2>9, AppendedKeepsAccounted DEF IInv, longer
    <2>19. jobs'[m] = job /\ Len(jobs') = m /\ m # NoJob
      BY <1>5, <2>2, <2>16
    <2>13. WorkerOK(d)'
      BY <2>1, <2>7, <2>8, <2>19 DEF WorkerOK, StepFor
    <2>14. /\ worker' \in [Workers -> Worker] /\ Exclusive'
           /\ (\A v \in Workers : WorkerOK(worker[v]))'
      BY <1>1, <2>18, <2>8, <2>13, PutKeeps DEF IInv, Current
    <2>15. Typed'
      BY <1>1, <1>5, <2>2, <2>9, <2>14 DEF IInv, Typed, TypeOK, project, environment
    <2> QED BY <2>11, <2>12, <2>14, <2>15 DEF IInv
  <1>6. Len(jobs) < MaxJobs \/ Len(jobs) >= MaxJobs
    BY Facts
  <1> QED BY <1>3, <1>4, <1>5, <1>6 DEF Decide

LEMMA CommitStep == ASSUME IInv, NEW w \in Workers, Commit(w) PROVE IInv'
  <1> DEFINE j == worker[w].job
             s == worker[w].seen
  <1>1. /\ worker[w].pc = "commit" /\ Current(w) /\ UNCHANGED <<journal, environment>>
        /\ worker[w] \in Worker /\ s \in Snapshots /\ Unpublished(j)
        /\ j # NoJob /\ j = Len(jobs) /\ jobs[j].phase = "capture" /\ j \in DOMAIN jobs
    <2>1. worker[w].pc = "commit" /\ Current(w) /\ UNCHANGED <<journal, environment>>
      BY DEF Commit, Current
    <2> QED BY <2>1, Facts DEF WorkerOK
  <1>2. ASSUME head # jobs[j].expected, Raise(w, TRUE), UNCHANGED <<project, faults>> PROVE IInv'
    <2> DEFINE c == [worker[w] EXCEPT !.pc = "error", !.conflict = TRUE]
    <2>1. c \in Worker /\ c.pc = "error" /\ c.job = j /\ Put(w, c)
      BY <1>1, <1>2, RaiseFields DEF Raise
    <2> HIDE DEF c, j
    <2>2. WorkerOK(c)
      BY <1>1, <2>1 DEF WorkerOK
    <2> QED BY <1>1, <1>2, <2>1, <2>2, Facts, LocalStep
  <1>3. ASSUME head = jobs[j].expected, State!Publish(j, s), faults' \in Nat,
               NEW c \in Worker, Put(w, c), c.job = j,
               \/ c.pc = "note" /\ c.seen = s
               \/ c.pc = "error" /\ c.conflict = FALSE
        PROVE  IInv'
    <2> HIDE DEF j, s
    <2>1. jobs' = jobs /\ last_snapshot' = last_snapshot /\ tree' = tree /\ changes' = changes
      BY <1>1 DEF journal, environment
    <2>2. j \in 1..MaxJobs /\ jobs[j].result = NoSnapshot
      BY <1>1, Facts DEF IInv, Journal, Newest
    <2>3. /\ Accounted' /\ head' \in ProjectHead /\ receipts' \subseteq Receipt
      BY <1>1, <1>3, <2>1, <2>2, PublishedKeepsAccounted DEF IInv
    <2>4. Journal' /\ Active(jobs)' = Active(jobs)
      BY <2>1, UnchangedKeepsJournal DEF IInv
    <2>5. \E r \in receipts' : r.operation = j /\ r.snapshot = s
      <3> DEFINE r == [operation |-> j, expected |-> head, snapshot |-> s,
                       revision |-> head.revision + 1]
      <3>1. r \in receipts' /\ r.operation = j /\ r.snapshot = s
        BY <1>3 DEF State!Publish
      <3> QED BY <3>1
    <2>6. WorkerOK(c)'
      BY <1>1, <1>3, <2>1, <2>5 DEF WorkerOK
    <2>7. /\ worker' \in [Workers -> Worker] /\ Exclusive'
          /\ (\A v \in Workers : WorkerOK(worker[v]))'
      BY <1>1, <1>3, <2>6, PutKeeps DEF IInv, Current
    <2>8. Typed'
      BY <1>3, <2>1, <2>3, <2>7 DEF IInv, Typed, TypeOK
    <2> QED BY <2>3, <2>4, <2>7, <2>8 DEF IInv
  <1>4. ASSUME head = jobs[j].expected, State!Publish(j, s), Goto(w, "note"), UNCHANGED faults
        PROVE  IInv'
    <2> DEFINE c == [worker[w] EXCEPT !.pc = "note"]
    <2>1. c \in Worker /\ c.pc = "note" /\ c.seen = s /\ c.job = j /\ Put(w, c) /\ faults' \in Nat
      BY <1>1, <1>4, Facts, WorkerFields DEF Goto
    <2> HIDE DEF c, j, s
    <2> QED BY <1>3, <1>4, <2>1
  <1>5. ASSUME head = jobs[j].expected, State!Publish(j, s), Raise(w, FALSE), faults' = faults + 1
        PROVE  IInv'
    <2> DEFINE c == [worker[w] EXCEPT !.pc = "error", !.conflict = FALSE]
    <2>1. c \in Worker /\ c.pc = "error" /\ c.conflict = FALSE /\ c.job = j /\ Put(w, c)
          /\ faults' \in Nat
      BY <1>1, <1>5, Facts, RaiseFields DEF Raise
    <2> HIDE DEF c, j, s
    <2> QED BY <1>3, <1>5, <2>1
  <1> QED BY <1>2, <1>4, <1>5 DEF Commit

LEMMA PhaseFields ==
    ASSUME NEW job \in Job, NEW p \in {"capture", "report", "done", "superseded", "failed"}
    PROVE  LET b == [job EXCEPT !.phase = p]
           IN /\ b \in Job /\ b.phase = p /\ b.expected = job.expected
              /\ b.baseline = job.baseline /\ b.result = job.result
  BY DEF Job

LEMMA AttemptFields ==
    ASSUME NEW job \in Job, NEW p \in {"capture", "report", "done", "superseded", "failed"},
           NEW x \in Nat
    PROVE  LET b == [job EXCEPT !.attempts = x, !.phase = p]
               d == [job EXCEPT !.phase = p, !.attempts = x]
           IN /\ b \in Job /\ b.phase = p /\ b.expected = job.expected
              /\ b.baseline = job.baseline /\ b.result = job.result
              /\ d = b
  BY DEF Job

LEMMA NoteStep == ASSUME IInv, NEW w \in Workers, Note(w) PROVE IInv'
  <1> DEFINE j == worker[w].job
             s == worker[w].seen
             job == [jobs[j] EXCEPT !.phase = "report", !.result = s, !.attempts = 0]
  <1>1. /\ worker[w].pc = "note" /\ Current(w)
        /\ UNCHANGED <<project, last_snapshot, environment, faults>>
        /\ worker[w] \in Worker /\ s \in Snapshots /\ j # NoJob /\ j = Len(jobs)
        /\ jobs[j].phase = "capture" /\ j \in DOMAIN jobs /\ jobs[j] \in Job
        /\ \E r \in receipts : r.operation = j /\ r.snapshot = s
    <2>1. worker[w].pc = "note" /\ Current(w)
          /\ UNCHANGED <<project, last_snapshot, environment, faults>>
      BY DEF Note, Current
    <2> QED BY <2>1, Facts DEF WorkerOK
  <1>2. job \in Job /\ job.phase = "report" /\ job.result = s
        /\ job.expected = jobs[j].expected /\ job.baseline = jobs[j].baseline
    BY <1>1 DEF Job, MaybeSnapshot
  <1>3. jobs' = [jobs EXCEPT ![j] = job] /\ Goto(w, "report")
    BY DEF Note
  <1> HIDE DEF job
  <1>4. Rewritten(job)
    BY <1>1, <1>2, <1>3 DEF Rewritten
  <1>5. PICK c : c = [worker[w] EXCEPT !.pc = "report"]
    OBVIOUS
  <1>6. c \in Worker /\ c.pc = "report" /\ c.job = j /\ Put(w, c)
    BY <1>1, <1>3, <1>5, WorkerFields DEF Goto
  <1>7. jobs'[Len(jobs)] = job /\ Len(jobs') = Len(jobs)
    BY <1>4, RewrittenFacts DEF IInv
  <1>8. PICK m : m = j
    OBVIOUS
  <1>9. jobs'[m] = job /\ Len(jobs') = m /\ m # NoJob /\ c.job = m
    BY <1>1, <1>6, <1>7, <1>8
  <1>10. WorkerOK(c)'
    BY <1>2, <1>6, <1>9 DEF WorkerOK
  <1>11. last_snapshot' = last_snapshot /\ last_snapshot = jobs[j].baseline
    BY <1>1 DEF IInv, Journal, Newest
  <1>12. Newest(m)'
    BY <1>1, <1>2, <1>9, <1>11 DEF Newest
  <1>13. \A r \in receipts : r.operation = Len(jobs) => r.snapshot = s
    BY <1>1 DEF IInv, Accounted
  <1>14. Newest(Len(jobs))'
    BY <1>9, <1>12
  <1> QED BY <1>1, <1>2, <1>4, <1>6, <1>10, <1>11, <1>13, <1>14, Facts, JournalStep

LEMMA ReportStep == ASSUME IInv, NEW w \in Workers, Report(w) PROVE IInv'
  <1> DEFINE j == worker[w].job
             job == [jobs[j] EXCEPT !.phase = "done"]
  <1>1. /\ worker[w].pc = "report" /\ Current(w) /\ UNCHANGED <<project, environment>>
        /\ worker[w] \in Worker /\ j # NoJob /\ j = Len(jobs)
        /\ jobs[j].phase = "report" /\ j \in DOMAIN jobs /\ jobs[j] \in Job
    <2>1. worker[w].pc = "report" /\ Current(w) /\ UNCHANGED <<project, environment>>
      BY DEF Report, Current
    <2> QED BY <2>1, Facts DEF WorkerOK
  <1>2. job \in Job /\ job.phase = "done" /\ job.result = jobs[j].result
        /\ job.expected = jobs[j].expected /\ job.baseline = jobs[j].baseline
    BY <1>1, PhaseFields
  <1>3. jobs' = [jobs EXCEPT ![j] = job] /\ last_snapshot' = jobs[j].result
    BY DEF Report
  <1> HIDE DEF job
  <1>4. Rewritten(job)
    BY <1>1, <1>2, <1>3 DEF Rewritten
  <1>5. PICK m : m = j
    OBVIOUS
  <1>6. jobs'[m] = job /\ Len(jobs') = m /\ m # NoJob
    BY <1>1, <1>4, <1>5, RewrittenFacts DEF IInv
  <1>7. jobs[j].result # NoSnapshot /\ jobs[j].result \in MaybeSnapshot
    BY <1>1, JobFields DEF IInv, Journal, Newest
  <1>8. Newest(m)'
    BY <1>2, <1>3, <1>6, <1>7 DEF Newest
  <1>9. Newest(Len(jobs))'
    BY <1>6, <1>8
  <1>10. \A r \in receipts : r.operation = Len(jobs) => jobs[j].result = r.snapshot
    BY <1>1, <1>7 DEF IInv, Accounted, PublicationIsAccountedFor
  <1>11. ASSUME NEW c \in Worker, Put(w, c), faults' \in Nat, WorkerOK(c)' PROVE IInv'
    BY <1>1, <1>2, <1>3, <1>4, <1>7, <1>9, <1>10, <1>11, JournalStep
  <1>12. ASSUME Put(w, Idle), UNCHANGED faults PROVE IInv'
    <2>1. PICK c : c = Idle
      OBVIOUS
    <2>2. c \in Worker /\ c.pc = "idle"
      BY <2>1, IdleFacts
    <2>3. WorkerOK(c)'
      BY <2>2 DEF WorkerOK
    <2> QED BY <1>11, <1>12, <2>1, <2>2, <2>3, Facts
  <1>13. ASSUME Raise(w, FALSE), faults' = faults + 1 PROVE IInv'
    <2>1. PICK c : c = [worker[w] EXCEPT !.pc = "error", !.conflict = FALSE]
      OBVIOUS
    <2>2. c \in Worker /\ c.pc = "error" /\ c.conflict = FALSE /\ c.job = m
      BY <1>1, <1>5, <2>1, RaiseFields
    <2>3. WorkerOK(c)'
      BY <1>6, <2>2 DEF WorkerOK
    <2> QED BY <1>11, <1>13, <2>1, <2>2, <2>3, Facts DEF Raise
  <1> QED BY <1>12, <1>13 DEF Report

LEMMA HandledFacts ==
    ASSUME NEW job \in Job, NEW conflict \in BOOLEAN
    PROVE  /\ Handled(job, conflict) \in Job
           /\ Handled(job, conflict).phase = IF conflict THEN "superseded"
                ELSE IF job.attempts >= 2 THEN "failed" ELSE job.phase
           /\ Handled(job, conflict).expected = job.expected
           /\ Handled(job, conflict).baseline = job.baseline
           /\ Handled(job, conflict).result = job.result
  <1> DEFINE p == IF job.attempts >= 2 THEN "failed" ELSE job.phase
  <1>1. p \in {"capture", "report", "done", "superseded", "failed"} /\ job.attempts + 1 \in Nat
    BY JobFields
  <1>2. CASE conflict
    <2>1. Handled(job, conflict) = [job EXCEPT !.phase = "superseded"]
      BY <1>2 DEF Handled
    <2>2. PICK b : b = [job EXCEPT !.phase = "superseded"]
      OBVIOUS
    <2>3. /\ b \in Job /\ b.phase = "superseded" /\ b.expected = job.expected
          /\ b.baseline = job.baseline /\ b.result = job.result
      BY <2>2, PhaseFields
    <2> QED BY <1>2, <2>1, <2>2, <2>3
  <1>3. CASE ~conflict
    <2>1. Handled(job, conflict) = [job EXCEPT !.attempts = job.attempts + 1, !.phase = p]
      BY <1>3 DEF Handled
    <2>2. PICK q \in {"capture", "report", "done", "superseded", "failed"} : q = p
      BY <1>1
    <2>3. PICK x \in Nat : x = job.attempts + 1
      BY <1>1
    <2> HIDE DEF p
    <2>4. Handled(job, conflict) = [job EXCEPT !.attempts = x, !.phase = q]
      BY <2>1, <2>2, <2>3
    <2>5. /\ Handled(job, conflict) \in Job /\ Handled(job, conflict).phase = p
          /\ Handled(job, conflict).expected = job.expected
          /\ Handled(job, conflict).baseline = job.baseline
          /\ Handled(job, conflict).result = job.result
      BY <2>2, <2>4 DEF Job
    <2> QED BY <1>3, <2>5 DEF p
  <1> QED BY <1>2, <1>3

LEMMA HandleErrorStep == ASSUME IInv, NEW w \in Workers, HandleError(w) PROVE IInv'
  <1> DEFINE j == worker[w].job
             conflict == worker[w].conflict
             job == Handled(jobs[j], conflict)
  <1>1. /\ worker[w].pc = "error" /\ Current(w) /\ Put(w, Idle)
        /\ UNCHANGED <<project, last_snapshot, environment, faults>>
    BY DEF HandleError, Current
  <1>2. CASE j = NoJob
    <2>1. jobs' = jobs
      BY <1>2 DEF HandleError
    <2> QED BY <1>1, <2>1, IdleFacts, IdleOK, Facts, LocalStep DEF journal
  <1>3. CASE j # NoJob
    <2>1. /\ j = Len(jobs) /\ j \in DOMAIN jobs /\ jobs[j] \in Job /\ conflict \in BOOLEAN
          /\ conflict => jobs[j].phase = "capture" /\ Unpublished(j)
      <3>1. WorkerOK(worker[w]) /\ worker[w] \in Worker
        BY Facts
      <3>2. j = Len(jobs)
        BY <1>1, <1>3, <3>1 DEF WorkerOK
      <3>3. j \in DOMAIN jobs /\ jobs[j] \in Job
        BY <1>3, <3>2, Facts
      <3>4. conflict \in BOOLEAN
        BY <3>1, WorkerFields
      <3>5. conflict => jobs[j].phase = "capture" /\ Unpublished(j)
        BY <1>1, <3>1 DEF WorkerOK
      <3> QED BY <3>2, <3>3, <3>4, <3>5
    <2>2. /\ job \in Job /\ job.expected = jobs[j].expected
          /\ job.baseline = jobs[j].baseline /\ job.result = jobs[j].result
          /\ job.phase = IF conflict THEN "superseded"
                         ELSE IF jobs[j].attempts >= 2 THEN "failed" ELSE jobs[j].phase
      BY <2>1, HandledFacts
    <2>3. jobs' = [jobs EXCEPT ![j] = job]
      BY <1>3 DEF HandleError
    <2> HIDE DEF job
    <2>4. Rewritten(job)
      BY <2>1, <2>2, <2>3 DEF Rewritten
    <2>5. PICK m : m = j
      OBVIOUS
    <2>6. jobs'[m] = job
      BY <2>1, <2>4, <2>5, RewrittenFacts DEF IInv
    <2>7. Newest(j) /\ last_snapshot' = last_snapshot
      BY <1>1, <2>1 DEF IInv, Journal
    <2>8. Newest(m)'
      BY <2>1, <2>2, <2>5, <2>6, <2>7 DEF Newest
    <2>9. Newest(Len(jobs))'
      <3>1. Len(jobs') = m
        BY <2>1, <2>4, <2>5, RewrittenFacts DEF IInv
      <3> QED BY <2>8, <3>1
    <2>10. \A r \in receipts : r.operation = Len(jobs) =>
             /\ job.phase # "superseded"
             /\ job.result \in {r.snapshot, NoSnapshot}
             /\ job.phase = "done" => job.result = r.snapshot
      <3>1. ASSUME NEW r \in receipts, r.operation = Len(jobs)
            PROVE  /\ ~conflict /\ jobs[j].phase # "superseded"
                   /\ jobs[j].result \in {r.snapshot, NoSnapshot}
                   /\ jobs[j].phase = "done" => jobs[j].result = r.snapshot
        BY <2>1, <3>1 DEF Unpublished, IInv, Accounted, PublicationIsAccountedFor
      <3> QED BY <2>2, <3>1
    <2>11. PICK c : c = Idle
      OBVIOUS
    <2>12. c \in Worker /\ c.pc = "idle" /\ Put(w, c)
      BY <1>1, <2>11, IdleFacts
    <2>13. WorkerOK(c)'
      BY <2>12 DEF WorkerOK
    <2> QED BY <1>1, <2>4, <2>7, <2>9, <2>10, <2>12, <2>13, Facts, JournalStep
  <1> QED BY <1>2, <1>3

\* A failed job is the newest: nothing else is resumed.
LEMMA RetryStep == ASSUME IInv, Retry PROVE IInv'
  <1>1. /\ jobs' = [i \in DOMAIN jobs |-> Resumed(jobs[i])]
        /\ \A v \in Workers : worker[v].pc = "idle"
        /\ UNCHANGED <<project, last_snapshot, worker, environment, faults>>
    BY DEF Retry, Free
  <1>2. PICK n \in DOMAIN jobs : jobs[n].phase = "failed"
    BY DEF Retry
  <1>3. /\ jobs \in Seq(Job) /\ Len(jobs) \in Nat /\ DOMAIN jobs = 1..Len(jobs)
        /\ \A i \in DOMAIN jobs : jobs[i] \in Job
    BY DEF IInv, Typed, TypeOK
  <1>4. n = Len(jobs)
    BY <1>2, <1>3 DEF IInv, Journal, Settled
  <1>5. PICK p \in {"capture", "report"} :
          p = IF jobs[n].result = NoSnapshot THEN "capture" ELSE "report"
    OBVIOUS
  <1>6. PICK job : job = [jobs[n] EXCEPT !.phase = p, !.attempts = 0]
    OBVIOUS
  <1>7. /\ job \in Job /\ job.phase = p /\ job.expected = jobs[n].expected
        /\ job.baseline = jobs[n].baseline /\ job.result = jobs[n].result
    BY <1>2, <1>3, <1>6 DEF Job
  <1>8. Resumed(jobs[n]) = job
    BY <1>2, <1>5, <1>6 DEF Resumed
  <1>9. \A i \in DOMAIN jobs : i # n => Resumed(jobs[i]) = jobs[i]
    BY <1>3, <1>4 DEF IInv, Journal, Settled, Resumed
  <1>10. jobs' = [jobs EXCEPT ![n] = job]
    BY <1>1, <1>3, <1>8, <1>9
  <1>11. Rewritten(job)
    BY <1>4, <1>7, <1>10 DEF Rewritten
  <1>12. jobs'[n] = job /\ Len(jobs') = n
    BY <1>4, <1>11, RewrittenFacts DEF IInv
  <1>13. Newest(n) /\ last_snapshot' = last_snapshot
    BY <1>1, <1>4 DEF IInv, Journal
  <1>14. Newest(n)'
    BY <1>5, <1>7, <1>12, <1>13 DEF Newest
  <1>15. Newest(Len(jobs))'
    BY <1>12, <1>14
  <1>16. Journal'
    BY <1>11, <1>15, RewrittenKeepsJournal DEF IInv
  <1>17. \A r \in receipts : r.operation = Len(jobs) => job.result \in {r.snapshot, NoSnapshot}
    BY <1>2, <1>4, <1>7 DEF IInv, Accounted, PublicationIsAccountedFor
  <1>18. Accounted' /\ receipts' = receipts
    BY <1>1, <1>7, <1>11, <1>17, RewrittenKeepsAccounted DEF IInv, project
  <1>19. Typed'
    BY <1>1, <1>11, RewrittenFacts DEF IInv, Typed, TypeOK, project, environment
  <1>20. Exclusive' /\ (\A v \in Workers : WorkerOK(worker[v]))'
    <2>1. worker' = worker
      BY <1>1
    <2>2. \A v \in Workers : WorkerOK(worker[v])'
      BY <1>1, <2>1 DEF WorkerOK
    <2> QED BY <2>1, <2>2 DEF IInv, Exclusive
  <1> QED BY <1>16, <1>18, <1>19, <1>20 DEF IInv

-----------------------------------------------------------------------------
(* The environment.                                                        *)

\* Only the receipts and the head may change: what the workers know stays true.
LEMMA EnvironmentStep ==
    ASSUME IInv, UNCHANGED <<journal, worker, faults>>, Accounted', Typed',
           receipts \subseteq receipts',
           \A j \in 1..MaxJobs : Unpublished(j) => Unpublished(j)'
    PROVE  IInv'
  <1>1. jobs' = jobs /\ last_snapshot' = last_snapshot /\ worker' = worker
    BY DEF journal
  <1>2. Journal' /\ Active(jobs)' = Active(jobs)
    BY <1>1, UnchangedKeepsJournal DEF IInv
  <1>3. ASSUME NEW v \in Workers PROVE WorkerOK(worker[v])'
    <2>1. PICK c : c = worker[v]
      OBVIOUS
    <2>2. c \in Worker /\ WorkerOK(c) /\ c.job \in 0..MaxJobs
      BY <2>1, Facts, WorkerFields
    <2>3. (c.job # NoJob /\ Unpublished(c.job)) => Unpublished(c.job)'
      BY <2>2
    <2>4. (c.pc = "error" /\ c.conflict) =>
            c.job # NoJob /\ jobs[c.job].phase = "capture" /\ Unpublished(c.job)
      BY <2>2 DEF WorkerOK
    <2>5. c.pc = "commit" => c.job # NoJob /\ Unpublished(c.job)
      BY <2>2 DEF WorkerOK
    <2>6. WorkerOK(c)'
      BY <1>1, <1>2, <2>2, <2>3, <2>4, <2>5 DEF WorkerOK
    <2> QED BY <1>1, <2>1, <2>6
  <1>4. Exclusive'
    BY <1>1 DEF IInv, Exclusive
  <1> QED BY <1>2, <1>3, <1>4 DEF IInv

LEMMA OtherPublishesStep == ASSUME IInv, OtherPublishes PROVE IInv'
  <1>1. PICK o \in Others, c \in Contents : State!Publish(o, <<head.source, c>>)
    BY DEF OtherPublishes
  <1>2. jobs' = jobs /\ UNCHANGED <<journal, worker, environment, faults>>
    BY DEF OtherPublishes, journal
  <1>3. PICK s \in Snapshots : s = <<head.source, c>>
    BY DEF IInv, Typed, TypeOK, ProjectHead, Snapshots
  <1>4. o \in (1..MaxJobs) \union Others /\ State!Publish(o, s)
    BY <1>1, <1>3
  <1>5. /\ Accounted' /\ head' \in ProjectHead /\ receipts' \subseteq Receipt
        /\ \A j : (j # o /\ Unpublished(j)) => Unpublished(j)'
    BY <1>2, <1>4, PublishedKeepsAccounted DEF IInv
  <1>6. \A j \in 1..MaxJobs : j # o
    OBVIOUS
  <1>7. Typed'
    BY <1>2, <1>5 DEF IInv, Typed, TypeOK, journal, environment
  <1>8. receipts \subseteq receipts'
    BY <1>4 DEF State!Publish
  <1> QED BY <1>2, <1>5, <1>6, <1>7, <1>8, EnvironmentStep

LEMMA ReconfigureStep == ASSUME IInv, Reconfigure PROVE IInv'
  <1>1. /\ head.source < MaxSource /\ head' = [head EXCEPT !.source = @ + 1]
        /\ receipts' = receipts /\ UNCHANGED <<journal, worker, environment, faults>>
    BY DEF Reconfigure, State!Reconfigure
  <1>2. head \in ProjectHead
    BY DEF IInv, Typed, TypeOK
  <1>3. head' \in ProjectHead
    BY <1>1, <1>2 DEF ProjectHead
  <1>4. Typed'
    BY <1>1, <1>3 DEF IInv, Typed, TypeOK, journal, environment
  <1>5. Accounted' /\ \A j : Unpublished(j)' <=> Unpublished(j)
    BY <1>1, UnchangedKeepsAccounted DEF IInv, journal
  <1> QED BY <1>1, <1>4, <1>5, EnvironmentStep

LEMMA ChangeTreeStep == ASSUME IInv, ChangeTree PROVE IInv'
  <1>1. /\ tree' \in Contents /\ changes' = changes + 1
        /\ head' = head /\ receipts' = receipts /\ UNCHANGED <<journal, worker, faults>>
    BY DEF ChangeTree, project
  <1>2. Typed'
    BY <1>1 DEF IInv, Typed, TypeOK, journal
  <1>3. Accounted' /\ \A j : Unpublished(j)' <=> Unpublished(j)
    BY <1>1, UnchangedKeepsAccounted DEF IInv, journal
  <1> QED BY <1>1, <1>2, <1>3, EnvironmentStep

LEMMA StutterStep == ASSUME IInv, UNCHANGED vars PROVE IInv'
  <1>1. UNCHANGED <<journal, worker, faults>> /\ UNCHANGED <<jobs, receipts>>
    BY DEF vars, journal
  <1>2. Typed'
    BY DEF IInv, Typed, TypeOK, vars
  <1>3. Accounted' /\ \A j : Unpublished(j)' <=> Unpublished(j)
    BY <1>1, UnchangedKeepsAccounted DEF IInv
  <1> QED BY <1>1, <1>2, <1>3, EnvironmentStep

-----------------------------------------------------------------------------
(* The specification.                                                      *)

LEMMA InitIInv == Init => IInv
  <1> SUFFICES ASSUME Init PROVE IInv
    OBVIOUS
  <1>1. /\ jobs = << >> /\ last_snapshot = NoSnapshot /\ receipts = {}
        /\ worker = [w \in Workers |-> Idle] /\ tree \in Contents /\ changes = 0 /\ faults = 0
        /\ head = FirstHead
    BY DEF Init, State!Init, FirstHead
  <1>2. FirstHead \in ProjectHead
    BY DEF FirstHead, ProjectHead, MaybeSnapshot
  <1>3. jobs \in Seq(Job) /\ Len(jobs) = 0 /\ DOMAIN jobs = {}
    BY <1>1
  <1>4. Typed
    BY <1>1, <1>2, <1>3, IdleFacts DEF Typed, TypeOK, MaybeSnapshot
  <1>5. Journal
    BY <1>1, <1>3 DEF Journal, Settled, Chained
  <1>6. Accounted
    BY <1>1 DEF Accounted, PublicationIsAccountedFor
  <1>7. Exclusive
    BY <1>1, IdleFacts DEF Exclusive
  <1>8. \A w \in Workers : WorkerOK(worker[w])
    BY <1>1, IdleOK
  <1> QED BY <1>4, <1>5, <1>6, <1>7, <1>8 DEF IInv

LEMMA NextIInv == IInv /\ [Next]_vars => IInv'
  <1> SUFFICES ASSUME IInv, [Next]_vars PROVE IInv'
    OBVIOUS
  <1>1. ASSUME NEW w \in Workers, Tick(w) PROVE IInv'
    BY <1>1, BeginStep, ProbeStep, DecideStep, LookupStep, CommitStep, NoteStep, ReportStep,
       HandleErrorStep DEF Tick
  <1>2. ASSUME NEW w \in Workers, Fail(w) \/ Crash(w) PROVE IInv'
    BY <1>2, FailStep, CrashStep
  <1>3. CASE Retry
    BY <1>3, RetryStep
  <1>4. CASE OtherPublishes \/ Reconfigure \/ ChangeTree
    BY <1>4, OtherPublishesStep, ReconfigureStep, ChangeTreeStep
  <1>5. CASE UNCHANGED vars
    BY <1>5, StutterStep
  <1> QED BY <1>1, <1>2, <1>3, <1>4, <1>5 DEF Next

\* The journal, the project's state and the workers stay in their types.
THEOREM TypeCorrect == Spec => []TypeOK
  <1>1. IInv => TypeOK
    BY DEF IInv, Typed
  <1> QED BY <1>1, InitIInv, NextIInv, PTL DEF Spec

\* However many workers, errors, deaths, retries and rival publishers there are,
\* the observer's reports are one chain without a gap or a fork.
THEOREM ReportsAreOneChain == Spec => []ReportsChain
  <1>1. IInv => ReportsChain
    <2> SUFFICES ASSUME IInv PROVE ReportsChain
      OBVIOUS
    <2>1. \A j \in Kept : j \in DOMAIN jobs /\ jobs[j].phase # "superseded"
      BY DEF Kept
    <2>2. DOMAIN jobs = 1..Len(jobs) /\ Len(jobs) \in Nat
      BY DEF IInv, Typed, TypeOK
    <2>3. ASSUME NEW j \in Kept, NEW k \in Kept, j < k PROVE jobs[j].phase = "done"
      BY <2>1, <2>2, <2>3 DEF IInv, Journal, Settled
    <2>4. \A j \in Kept : (\A k \in Kept : k >= j) => jobs[j].baseline = NoSnapshot
      BY <2>1 DEF IInv, Journal, Chained
    <2>5. \A k, j \in Kept : Follows(k, j) => jobs[j].baseline = jobs[k].result
      BY <2>1 DEF IInv, Journal, Chained
    <2> QED BY <2>3, <2>4, <2>5 DEF ReportsChain
  <1> QED BY <1>1, InitIInv, NextIInv, PTL DEF Spec

\* Whatever a job published is never given up as superseded nor reported as
\* another snapshot, whoever else moved the head and wherever the worker died.
THEOREM PublicationsAreAccountedFor == Spec => []PublicationIsAccountedFor
  <1>1. IInv => PublicationIsAccountedFor
    BY DEF IInv, Accounted
  <1> QED BY <1>1, InitIInv, NextIInv, PTL DEF Spec
=============================================================================
