------------------------------ MODULE GitAudit ------------------------------
(***************************************************************************)
(* The Git audit service: one process (src/rentgen_core/                   *)
(* service_composition.py, GitAuditWorker with a scanner) runs the         *)
(* scheduler of src/rentgen_core/git_watcher.py.  A cycle captures the     *)
(* sources with the observer, binds the published snapshot to the commit,  *)
(* analyzes the commit, records the findings, keeps an owner report, and   *)
(* announces the result; the findings, the owner reports, the scheduler's  *)
(* journal and the outbox are four stores that do not commit together.     *)
(*                                                                         *)
(* Git and the sources are outside: they change between any two reads.     *)
(* The process holds the profile's lock, so lifetimes follow one another.  *)
(***************************************************************************)
EXTENDS Integers, Sequences

CONSTANTS
    Commits,
    Descends(_, _), \* the second commit is the first one or comes after it
    FirstCommit,
    Edited,         \* sources that differ from the commit that is checked out
    NoCommit,
    NoSnapshot,
    Capacity,       \* pending events the outbox holds, 1000 in the code
    MaxSource,      \* bounds of the model: configurations, changes of the
    MaxMoves,       \* working tree and of HEAD, lifetimes, and faults
    MaxLives,
    MaxFaults

Snapshots == (1..MaxSource) \X (Commits \union {Edited})

ASSUME CommitAssumption ==
    /\ FirstCommit \in Commits
    /\ NoCommit \notin Commits /\ Edited \notin Commits
    /\ \A c, d \in Commits : Descends(c, d) \in BOOLEAN
\* Git's histories have no cycles.
ASSUME HistoryAssumption ==
    /\ \A c, d \in Commits : Descends(c, d) /\ Descends(d, c) => c = d
    /\ \A c, d, e \in Commits : Descends(c, d) /\ Descends(d, e) => Descends(c, e)
ASSUME SnapshotAssumption == NoSnapshot \notin Snapshots
ASSUME BoundAssumption ==
    /\ Capacity \in Nat \ {0} /\ MaxSource \in Nat \ {0}
    /\ MaxMoves \in Nat /\ MaxLives \in Nat /\ MaxFaults \in Nat

VARIABLES
    git,      \* what is checked out: [head, edited]
    project,  \* the published head: [source, snapshot, probed]; probed stands for the
              \* revision: nothing has moved the head since a probe read it
    findings, \* finding_reports and their bindings, in the order of rowid
    saved,    \* the owner reports, in the order they were saved
    journal,  \* the scheduler's journal: [phase, life]
    torn,     \* a write of the journal left its temporary file behind
    pending,  \* how many events wait in the outbox
    announced,\* history: how often each commit's success was enqueued
    run,      \* the volatile state of the process
    lives,    \* history: how each lifetime of the process ended
    refused,  \* history: the operator's recover was refused
    moves, faults

outbox == <<pending, announced>>
stores == <<project, findings, saved, journal, torn, outbox>>
vars == <<git, stores, run, lives, refused, moves, faults>>

-----------------------------------------------------------------------------
MaybeCommit == Commits \union {NoCommit}
MaybeSnapshot == Snapshots \union {NoSnapshot}
Steps == {"off", "begin", "top", "observe", "capture", "recheck", "verify", "probe", "bind",
          "watch", "analyze", "check", "record", "report", "cycle", "enqueue", "fatal",
          "fatal event", "stop"}
Stages == {"prepare", "watch", "record"}  \* who asks for the evidence
Statuses == {"none", "analyzed", "unchanged", "error", "fatal"}
Run == [pc: Steps, commit: MaybeCommit, status: Statuses, stage: Stages,
        seen: MaybeSnapshot,      \* the sources, as the last probe read them
        prepared: MaybeSnapshot,  \* the snapshot that the service bound to the commit
        evidence: MaybeSnapshot,  \* the one that the watcher bound to it later
        reported: [commit: MaybeCommit, snapshot: MaybeSnapshot]]  \* _last_binding
TypeOK ==
    /\ git \in [head: Commits, edited: BOOLEAN]
    /\ project \in [source: 1..MaxSource, snapshot: MaybeSnapshot, probed: BOOLEAN]
    /\ findings \in Seq([commit: Commits, snapshot: Snapshots, life: Nat])
    /\ saved \in Seq([commit: Commits, snapshot: Snapshots])
    /\ journal \in [phase: {"absent", "running", "recovered", "idle"}, life: Nat]
    /\ torn \in BOOLEAN /\ refused \in BOOLEAN
    /\ pending \in Nat /\ announced \in [Commits -> Nat]
    /\ run \in Run
    /\ lives \in Seq({"alive", "refused", "died", "failed", "stopped"})
    /\ moves \in Nat /\ faults \in Nat
Off == [pc |-> "off", commit |-> NoCommit, status |-> "none", stage |-> "prepare",
        seen |-> NoSnapshot, prepared |-> NoSnapshot, evidence |-> NoSnapshot,
        reported |-> [commit |-> NoCommit, snapshot |-> NoSnapshot]]

Init ==
    /\ git = [head |-> FirstCommit, edited |-> FALSE]
    /\ project = [source |-> 1, snapshot |-> NoSnapshot, probed |-> FALSE]
    /\ findings = << >> /\ saved = << >>
    /\ journal = [phase |-> "absent", life |-> 0] /\ torn = FALSE
    /\ pending = 0 /\ announced = [c \in Commits |-> 0]
    /\ run = Off /\ lives = << >> /\ refused = FALSE
    /\ moves = 0 /\ faults = 0

-----------------------------------------------------------------------------
Life == Len(lives)
environment == <<git, refused, moves>>
evidenceStores == <<project, findings, saved>>

Goto(pc) == run' = [run EXCEPT !.pc = pc]
\* An error of the tick that the service may retry, and any other one.
Transient == run' = [run EXCEPT !.pc = "cycle", !.status = "error", !.stage = "prepare",
                              !.seen = NoSnapshot, !.prepared = NoSnapshot,
                              !.evidence = NoSnapshot]
Fatal == run' = [Off EXCEPT !.pc = "fatal"]
Ends(how) == run' = Off /\ lives' = [lives EXCEPT ![Life] = how]

LastAnalyzed == IF findings = << >> THEN NoCommit ELSE findings[Len(findings)].commit
Ancestor_Unchecked(base, tip) == TRUE
Ancestor(base, tip) == base = NoCommit \/ Descends(base, tip)

\* observe_git sees a commit whose tracked files are not edited.
Clean == ~git.edited
Sources == <<project.source, IF git.edited THEN Edited ELSE git.head>>
\* HEAD is still what this cycle observed first.
Current == Clean /\ git.head = run.commit

\* The journal's writes go through a temporary file, which must not exist.
Write(phase) ==
    /\ ~torn
    /\ journal' = [phase |-> phase, life |-> Life]
    /\ UNCHANGED torn
WriteFails ==
    /\ \/ torn /\ UNCHANGED <<torn, faults>>
       \/ ~torn /\ faults < MaxFaults /\ faults' = faults + 1 /\ torn' \in BOOLEAN
    /\ UNCHANGED journal

Room == pending < Capacity
Enqueue(status) ==
    /\ Room /\ pending' = pending + 1
    /\ announced' = IF status = "analyzed" THEN [announced EXCEPT ![run.commit] = @ + 1]
                    ELSE announced

-----------------------------------------------------------------------------
(* The scheduler *)

StartProcess ==
    /\ run.pc = "off" /\ Life < MaxLives
    /\ lives' = Append(lives, "alive")
    /\ run' = [Off EXCEPT !.pc = "begin"]
    /\ UNCHANGED <<stores, environment, faults>>

\* A run that was interrupted must be recovered first.
Begin ==
    /\ run.pc = "begin"
    /\ \/ /\ journal.phase # "running" /\ Write("running")
          /\ Goto("top") /\ UNCHANGED <<lives, faults>>
       \/ journal.phase # "running" /\ WriteFails /\ Ends("refused")
       \/ journal.phase = "running" /\ Ends("refused") /\ UNCHANGED <<journal, torn, faults>>
    /\ UNCHANGED <<evidenceStores, outbox, environment>>

\* The next cycle starts, or the service was told to stop.
Top ==
    /\ run.pc = "top"
    /\ \/ Goto("stop") /\ UNCHANGED <<journal, torn, faults>>
       \/ Write("running") /\ Goto("observe") /\ UNCHANGED faults
       \/ WriteFails /\ Fatal
    /\ UNCHANGED <<evidenceStores, outbox, lives, environment>>

\* The cycle is over: its event goes to the journal,
Cycle ==
    /\ run.pc = "cycle"
    /\ \/ Write("running") /\ Goto("enqueue") /\ UNCHANGED faults
       \/ WriteFails /\ Fatal
    /\ UNCHANGED <<evidenceStores, outbox, lives, environment>>

\* and to the outbox, unless nothing has changed; a full outbox ends the run.
Announce_BestEffort ==
    /\ run.pc = "enqueue"
    /\ IF run.status # "unchanged" /\ Room THEN Enqueue(run.status) ELSE UNCHANGED outbox
    /\ Goto("top")
    /\ UNCHANGED <<evidenceStores, journal, torn, lives, environment, faults>>
Announce ==
    /\ run.pc = "enqueue"
    /\ \/ run.status = "unchanged" /\ Goto("top") /\ UNCHANGED outbox
       \/ run.status # "unchanged" /\ Enqueue(run.status) /\ Goto("top")
       \/ run.status # "unchanged" /\ ~Room /\ Fatal /\ UNCHANGED outbox
    /\ UNCHANGED <<evidenceStores, journal, torn, lives, environment, faults>>

\* A fatal error is recorded and announced as well as can be, and ends the run.
RecordFatal ==
    /\ run.pc = "fatal"
    /\ (Write("idle") /\ UNCHANGED faults) \/ WriteFails
    /\ Goto("fatal event")
    /\ UNCHANGED <<evidenceStores, outbox, lives, environment>>
AnnounceFatal ==
    /\ run.pc = "fatal event"
    /\ Enqueue("fatal") \/ (~Room /\ UNCHANGED outbox)
    /\ Ends("failed")
    /\ UNCHANGED <<evidenceStores, journal, torn, environment, faults>>

Stop ==
    /\ run.pc = "stop"
    /\ \/ Write("idle") /\ Ends("stopped") /\ UNCHANGED faults
       \/ WriteFails /\ Ends("failed")
    /\ UNCHANGED <<evidenceStores, outbox, environment>>

-----------------------------------------------------------------------------
(* A cycle *)

\* Steps that change no store.
Quiet == UNCHANGED <<stores, lives, environment, faults>>

\* The commit to audit; a history that was rewritten is fatal before any capture.
Observe_Sticky ==
    /\ run.pc = "observe"
    /\ \/ ~Clean /\ Transient
       \/ /\ Clean /\ Ancestor(LastAnalyzed, git.head)
          /\ run' = [run EXCEPT !.pc = "capture", !.stage = "prepare",
                              !.prepared = NoSnapshot, !.evidence = NoSnapshot,
                              !.commit = IF @ = NoCommit THEN git.head ELSE @]
       \/ Clean /\ ~Ancestor(LastAnalyzed, git.head) /\ Fatal
    /\ Quiet
Observe ==
    /\ run.pc = "observe"
    /\ \/ ~Clean /\ Transient
       \/ /\ Clean /\ Ancestor(LastAnalyzed, git.head)
          /\ run' = [run EXCEPT !.pc = "capture", !.commit = git.head, !.stage = "prepare",
                              !.prepared = NoSnapshot, !.evidence = NoSnapshot]
       \/ Clean /\ ~Ancestor(LastAnalyzed, git.head) /\ Fatal
    /\ Quiet

\* The observer's tick publishes what the sources are now.
Capture ==
    /\ run.pc = "capture"
    /\ project' = [project EXCEPT !.snapshot = Sources, !.probed = FALSE]
    /\ Goto("recheck")
    /\ UNCHANGED <<findings, saved, journal, torn, outbox, lives, environment, faults>>

Recheck ==
    /\ run.pc = "recheck"
    /\ IF Current THEN Goto("verify") ELSE Transient
    /\ Quiet

\* verify_git_snapshot: HEAD, the sources, the published snapshot, HEAD again.
Verify ==
    /\ run.pc = "verify"
    /\ IF Current THEN Goto("probe") ELSE Transient
    /\ Quiet
Probe ==
    /\ run.pc = "probe"
    /\ IF Sources = project.snapshot
       THEN /\ run' = [run EXCEPT !.pc = "bind", !.seen = Sources]
            /\ project' = [project EXCEPT !.probed = TRUE]
       ELSE Fatal /\ UNCHANGED project
    /\ UNCHANGED <<findings, saved, journal, torn, outbox, lives, environment, faults>>
\* Every captured file must be the commit's own blob.
Bound_Unread(snapshot, commit) == TRUE
Bound(snapshot, commit) == snapshot[2] = commit
\* What the evidence is for decides what comes next: the service keeps what it
\* asked for before the watcher's tick, the watcher what its findings will be
\* recorded with, and record_findings compares that with a third look.
Verified ==
    CASE run.stage = "prepare" ->
           run' = [run EXCEPT !.pc = "watch", !.prepared = run.seen, !.seen = NoSnapshot]
      [] run.stage = "watch" ->
           run' = [run EXCEPT !.pc = "analyze", !.evidence = run.seen, !.seen = NoSnapshot]
      [] run.stage = "record" ->
           IF run.evidence = run.seen
           THEN run' = [run EXCEPT !.pc = "record", !.seen = NoSnapshot]
           ELSE Fatal
Bind ==
    /\ run.pc = "bind"
    /\ \/ ~Bound(run.seen, run.commit) /\ Fatal
       \/ Bound(run.seen, run.commit) /\ ~Current /\ Transient
       \/ Bound(run.seen, run.commit) /\ Current /\ ~project.probed /\ Fatal
       \/ Bound(run.seen, run.commit) /\ Current /\ project.probed /\ Verified
    /\ project' = [project EXCEPT !.probed = FALSE]
    /\ UNCHANGED <<findings, saved, journal, torn, outbox, lives, environment, faults>>

\* GitWatcher.tick: the commit may have been analyzed already.
Unchanged == LastAnalyzed = run.commit
Watch ==
    /\ run.pc = "watch"
    /\ \/ ~Current /\ Transient
       \/ /\ Current /\ Unchanged
          /\ run' = [run EXCEPT !.pc = "report", !.status = "unchanged"]
       \/ /\ Current /\ ~Unchanged
          /\ IF Ancestor(LastAnalyzed, run.commit)
             THEN run' = [run EXCEPT !.pc = "verify", !.stage = "watch"]
             ELSE Fatal
    /\ Quiet

\* The analyzer reads the commit's blobs; its report may be incomplete.
Analyze ==
    /\ run.pc = "analyze"
    /\ Goto("check")
    /\ Quiet
\* HEAD again, then record_findings, which asks for the evidence once more.
Check ==
    /\ run.pc = "check"
    /\ IF Current THEN run' = [run EXCEPT !.pc = "verify", !.stage = "record"] ELSE Transient
    /\ Quiet

\* A commit has one receipt for ever; a new one becomes the current state.  (An
\* equal replay finds its receipt; in this service ancestry leaves none to replay.)
Record ==
    /\ run.pc = "record"
    /\ IF \E i \in DOMAIN findings : findings[i].commit = run.commit
       THEN UNCHANGED findings
       ELSE findings' = Append(findings,
              [commit |-> run.commit, snapshot |-> run.evidence, life |-> Life])
    /\ run' = [run EXCEPT !.pc = "report", !.status = "analyzed"]
    /\ UNCHANGED <<project, saved, journal, torn, outbox, lives, environment, faults>>

\* The owner report is of the snapshot that the service prepared: it needs the
\* findings of the commit to be bound to that very snapshot, whatever the watcher
\* saw.  An equal report that is stored already is used again.
Binding == [commit |-> run.commit, snapshot |-> run.prepared]
Available_AnySnapshot == LastAnalyzed = run.commit
Available ==
    /\ LastAnalyzed = run.commit
    /\ \E i \in DOMAIN findings :
         findings[i].commit = run.commit /\ findings[i].snapshot = run.prepared
Retained_Never == FALSE
Retained == \E i \in DOMAIN saved : saved[i] = Binding
Report ==
    /\ run.pc = "report"
    /\ \/ ~Available /\ Fatal /\ UNCHANGED saved
       \/ /\ Available
          /\ run' = [run EXCEPT !.pc = "cycle", !.reported = Binding]
          /\ IF run.reported = Binding \/ Retained
             THEN UNCHANGED saved
             ELSE saved' = Append(saved, Binding)
    /\ UNCHANGED <<project, findings, journal, torn, outbox, lives, environment, faults>>

-----------------------------------------------------------------------------
Tick == Observe \/ Capture \/ Recheck \/ Verify \/ Probe \/ Bind \/ Watch \/ Analyze \/ Check
        \/ Record \/ Report
Process == Begin \/ Top \/ Tick \/ Cycle \/ Announce \/ RecordFatal \/ AnnounceFatal \/ Stop

\* A step of the tick fails before it has changed anything: Git is slow (which
\* may be retried), or a store, the scanner or the analyzer fails.
Fail ==
    /\ run.pc \in {"observe", "capture", "recheck", "verify", "probe", "bind", "watch",
                   "analyze", "check", "record", "report", "enqueue"}
    /\ faults < MaxFaults /\ faults' = faults + 1
    /\ \/ Fatal
       \/ run.pc \in {"observe", "recheck", "verify", "bind", "watch", "check"} /\ Transient
    /\ UNCHANGED <<stores, lives, environment>>

\* The process dies, perhaps in the middle of a write of the journal.
Die ==
    /\ run.pc # "off"
    /\ faults < MaxFaults /\ faults' = faults + 1
    /\ Ends("died")
    /\ \/ UNCHANGED torn
       \/ run.pc \in {"begin", "top", "cycle", "fatal", "stop"} /\ torn' = TRUE
    /\ UNCHANGED <<evidenceStores, journal, outbox, environment>>

\* The operator recovers the journal of a run that is over.
Recover ==
    /\ run.pc = "off" /\ journal.phase = "running"
    /\ IF torn THEN refused' = TRUE /\ UNCHANGED journal
       ELSE journal' = [journal EXCEPT !.phase = "recovered"] /\ UNCHANGED refused
    /\ UNCHANGED <<git, evidenceStores, torn, outbox, run, lives, moves, faults>>

\* The sender acknowledges an event.
Ack ==
    /\ pending > 0 /\ pending' = pending - 1
    /\ UNCHANGED <<git, project, findings, saved, journal, torn, announced, run, lives, refused,
                   moves, faults>>

Move ==
    /\ moves < MaxMoves /\ moves' = moves + 1
    /\ \/ git' = [git EXCEPT !.edited = ~git.edited]
       \/ Clean /\ \E c \in Commits \ {git.head} : git' = [git EXCEPT !.head = c]
    /\ UNCHANGED <<stores, run, lives, refused, faults>>

\* The administrator changes the source layers; another caller publishes.
Reconfigure ==
    /\ project.source < MaxSource /\ moves < MaxMoves /\ moves' = moves + 1
    /\ project' = [project EXCEPT !.source = @ + 1, !.probed = FALSE]
    /\ UNCHANGED <<git, findings, saved, journal, torn, outbox, run, lives, refused, faults>>
OtherPublishes ==
    /\ project' = [project EXCEPT !.snapshot = Sources, !.probed = FALSE]
    /\ UNCHANGED <<git, findings, saved, journal, torn, outbox, run, lives, refused, moves, faults>>

Next == Process \/ StartProcess \/ Fail \/ Die \/ Recover \/ Ack \/ Move \/ Reconfigure
        \/ OtherPublishes

Spec == Init /\ [][Next]_vars

\* The process runs, it is started again, and the operator and the sender act.
FairSpec == Spec /\ WF_vars(Process) /\ WF_vars(StartProcess) /\ WF_vars(Recover) /\ WF_vars(Ack)

-----------------------------------------------------------------------------
\* Findings follow one line of history: no force-push, and no race of HEAD with
\* the checks, makes a commit follow one it does not descend from.
LineageKept ==
    \A i, j \in DOMAIN findings : i < j => Descends(findings[i].commit, findings[j].commit)

\* Evidence, and the findings and owner reports that rest on it, name a snapshot of
\* exactly their commit, even when the sources were something else whenever they were read and
\* were restored whenever HEAD was.
EvidenceBound ==
    /\ run.prepared # NoSnapshot => run.prepared[2] = run.commit
    /\ run.evidence # NoSnapshot => run.evidence[2] = run.commit
    /\ \A k \in DOMAIN saved : saved[k].snapshot[2] = saved[k].commit
    /\ \A i \in DOMAIN findings : findings[i].snapshot[2] = findings[i].commit

\* An event of success comes after the findings and the owner report it is about,
\* and these two are of one snapshot, although the service and its watcher look at
\* the project at different moments and another process may publish in between
\* (SERVICE_EVIDENCE_INCOMPLETE is what the service answers then).
SuccessIsEvidenced ==
    \A c \in Commits : announced[c] > 0 =>
      \E i \in DOMAIN findings :
        /\ findings[i].commit = c
        /\ \E k \in DOMAIN saved :
             saved[k] = [commit |-> c, snapshot |-> findings[i].snapshot]

\* Each commit is announced once, and a binding has one owner report, over any
\* number of lifetimes.
AnnouncedOnce ==
    /\ \A c \in Commits : announced[c] <= 1
    /\ \A i, j \in DOMAIN saved : saved[i] = saved[j] => i = j

\* Findings that were never announced belong to a lifetime that died or failed;
\* no run goes on, or stops in order, over a success it has swallowed.
SilenceIsExplained ==
    \A i \in DOMAIN findings :
      \/ announced[findings[i].commit] > 0
      \/ lives[findings[i].life] \in {"died", "failed"}
      \/ /\ findings[i].life = Life
         /\ run.pc \in {"report", "cycle", "enqueue", "fatal", "fatal event"}

\* When the sources rest and faults are over, the commit is analyzed, unless its
\* history was rewritten, the journal is stuck, or no process runs any more.
KeepsUp ==
    <>[](\/ LastAnalyzed = git.head
         \/ ~Clean \/ ~Ancestor(LastAnalyzed, git.head)
         \/ torn
         \/ Life = MaxLives /\ run.pc = "off")

\* docs/product/GIT-WATCHER.md:41: a run that died is continued after an operator
\* calls recover.
RecoveryIsNeverRefused == ~refused
=============================================================================
