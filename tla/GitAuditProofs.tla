--------------------------- MODULE GitAuditProofs ---------------------------
(* Proofs about GitAudit for every value of its constants: any history of   *)
(* commits, any number of lifetimes, moves, publications and faults.        *)
EXTENDS GitAudit, TLAPS

USE CommitAssumption, SnapshotAssumption, BoundAssumption

-----------------------------------------------------------------------------
(* The inductive invariant.                                                *)

\* What is stored, told from the stores alone.
Findings == \A i \in DOMAIN findings :
    findings[i].snapshot[2] = findings[i].commit /\ findings[i].life \in 1..Life
Reports == \A k \in DOMAIN saved : saved[k].snapshot[2] = saved[k].commit
Stored == Findings /\ Reports /\ LineageKept /\ SuccessIsEvidenced /\ AnnouncedOnce

Evidenced(c) ==
    \E i \in DOMAIN findings :
      /\ findings[i].commit = c
      /\ \E k \in DOMAIN saved : saved[k] = [commit |-> c, snapshot |-> findings[i].snapshot]

\* What the process has established.
Auditing == {"capture", "recheck", "verify", "probe", "bind", "watch", "analyze", "check",
             "record", "report"}
New == LastAnalyzed # run.commit /\ Ancestor(LastAnalyzed, run.commit)
Succeeding == run.pc \in {"report", "cycle", "enqueue"} /\ run.status = "analyzed"
Ending == {"fatal", "fatal event"}
Working ==
    /\ run.pc \in Auditing => run.commit \in Commits
    /\ run.pc = "bind" => run.seen \in Snapshots
    /\ run.pc = "record" => run.evidence \in Snapshots
    /\ run.prepared # NoSnapshot => run.prepared[2] = run.commit
    /\ run.evidence # NoSnapshot => run.evidence[2] = run.commit
    /\ run.pc \in {"analyze", "check", "record"} => New
    /\ (run.pc \in {"verify", "probe", "bind"} /\ run.stage # "prepare") => New
    /\ run.pc \in {"capture", "recheck"} => run.stage = "prepare"
    /\ run.reported.snapshot # NoSnapshot => \E k \in DOMAIN saved : saved[k] = run.reported
    /\ Succeeding => run.commit \in Commits /\ announced[run.commit] = 0
    /\ (Succeeding /\ run.pc # "report") => Evidenced(run.commit)

\* Why a finding may still be silent.
Explained(i) ==
    \/ announced[findings[i].commit] > 0
    \/ lives[findings[i].life] \in {"died", "failed"}
    \/ /\ findings[i].life = Life
       /\ run.pc \in Ending \/ (Succeeding /\ findings[i].commit = run.commit)
Silence == \A i \in DOMAIN findings : Explained(i)

Alive == run.pc # "off" => Life > 0 /\ lives[Life] = "alive"

IInv == TypeOK /\ Stored /\ Working /\ Silence /\ Alive

-----------------------------------------------------------------------------
(* Types.                                                                  *)

LEMMA RunFields ==
    ASSUME NEW c \in Run
    PROVE  /\ c.pc \in Steps /\ c.commit \in MaybeCommit /\ c.status \in Statuses
           /\ c.stage \in Stages /\ c.seen \in MaybeSnapshot /\ c.evidence \in MaybeSnapshot
           /\ c.prepared \in MaybeSnapshot
           /\ c.reported \in [commit: MaybeCommit, snapshot: MaybeSnapshot]
  BY DEF Run

LEMMA OffFacts ==
    /\ Off \in Run /\ Off.pc = "off" /\ Off.status = "none" /\ Off.evidence = NoSnapshot
    /\ Off.prepared = NoSnapshot
    /\ Off.reported.snapshot = NoSnapshot
    /\ [Off EXCEPT !.pc = "begin"] \in Run /\ [Off EXCEPT !.pc = "begin"].pc = "begin"
    /\ [Off EXCEPT !.pc = "begin"].evidence = NoSnapshot /\ [Off EXCEPT !.pc = "begin"].prepared = NoSnapshot
    /\ [Off EXCEPT !.pc = "begin"].reported.snapshot = NoSnapshot
    /\ [Off EXCEPT !.pc = "fatal"] \in Run /\ [Off EXCEPT !.pc = "fatal"].pc = "fatal"
    /\ [Off EXCEPT !.pc = "fatal"].evidence = NoSnapshot /\ [Off EXCEPT !.pc = "fatal"].prepared = NoSnapshot
    /\ [Off EXCEPT !.pc = "fatal"].reported.snapshot = NoSnapshot
  <1>1. NoCommit \in MaybeCommit /\ NoSnapshot \in MaybeSnapshot
    BY DEF MaybeCommit, MaybeSnapshot
  <1> QED BY <1>1 DEF Off, Run, Steps, Statuses, Stages

\* A step of the process that goes on to another place of the code.
LEMMA GotoFacts ==
    ASSUME run \in Run, NEW l \in Steps, Goto(l)
    PROVE  /\ run' \in Run /\ run'.pc = l /\ run'.commit = run.commit
           /\ run'.status = run.status /\ run'.stage = run.stage /\ run'.seen = run.seen
           /\ run'.evidence = run.evidence /\ run'.prepared = run.prepared /\ run'.reported = run.reported
  BY DEF Goto, Run

LEMMA TransientFacts ==
    ASSUME run \in Run, Transient
    PROVE  /\ run' \in Run /\ run'.pc = "cycle" /\ run'.status = "error"
           /\ run'.evidence = NoSnapshot /\ run'.prepared = NoSnapshot /\ run'.reported = run.reported
  BY DEF Transient, Run, Steps, Statuses, Stages, MaybeSnapshot

-----------------------------------------------------------------------------
(* Steps that leave the stores alone.                                      *)

\* Commits and their history as the stores tell it.
LEMMA Same ==
    ASSUME UNCHANGED <<findings, saved, announced, lives>>
    PROVE  /\ Stored => Stored'
           /\ LastAnalyzed' = LastAnalyzed /\ Life' = Life
           /\ \A c : Evidenced(c)' <=> Evidenced(c)
  <1>1. findings' = findings /\ saved' = saved /\ announced' = announced /\ lives' = lives
    OBVIOUS
  <1> QED BY <1>1 DEF Stored, Findings, Reports, LineageKept, SuccessIsEvidenced, AnnouncedOnce,
                      LastAnalyzed, Life, Evidenced

\* The process takes a step that changes none of them.
LEMMA RunStep ==
    ASSUME IInv, UNCHANGED <<findings, saved, announced, lives>>, TypeOK', Working',
           run.pc # "off",
           \/ run'.pc \in Ending
           \/ run.pc \notin Ending /\ ~Succeeding
           \/ Succeeding /\ Succeeding' /\ run'.commit = run.commit
    PROVE  IInv'
  <1>1. findings' = findings /\ announced' = announced /\ lives' = lives
        /\ Stored' /\ Life' = Life
    BY Same DEF IInv
  <1>2. Silence'
    <2> SUFFICES ASSUME NEW i \in DOMAIN findings PROVE Explained(i)'
      BY <1>1 DEF Silence
    <2>1. Explained(i)
      BY DEF IInv, Silence
    <2> QED BY <1>1, <2>1 DEF Explained, Succeeding, Ending
  <1>3. Alive'
    BY <1>1 DEF IInv, Alive
  <1> QED BY <1>1, <1>2, <1>3 DEF IInv

\* An error that is retried, or one that ends the run.
LEMMA TransientStep ==
    ASSUME IInv, UNCHANGED <<findings, saved, announced, lives>>, Transient, TypeOK',
           run.pc # "off", run.pc \notin Ending, ~Succeeding
    PROVE  IInv'
  <1>1. run'.pc = "cycle" /\ run'.status = "error" /\ run'.evidence = NoSnapshot /\ run'.prepared = NoSnapshot
        /\ run'.reported = run.reported /\ saved' = saved
    BY TransientFacts DEF IInv, TypeOK
  <1>2. Working'
    BY <1>1 DEF IInv, Working, Auditing, Succeeding
  <1> QED BY <1>2, RunStep

LEMMA FatalStep ==
    ASSUME IInv, UNCHANGED <<findings, saved, announced, lives>>, Fatal, TypeOK', run.pc # "off"
    PROVE  IInv'
  <1>1. /\ run'.pc = "fatal" /\ run'.evidence = NoSnapshot /\ run'.prepared = NoSnapshot
        /\ run'.reported.snapshot = NoSnapshot
    BY OffFacts DEF Fatal
  <1>2. Working'
    BY <1>1 DEF Working, Auditing, Succeeding
  <1> QED BY <1>1, <1>2, RunStep DEF Ending

\* The lifetime is over.
LEMMA EndsStep ==
    ASSUME IInv, UNCHANGED <<findings, saved, announced>>, TypeOK', run.pc # "off",
           NEW how \in {"refused", "died", "failed", "stopped"}, Ends(how),
           how \in {"died", "failed"} \/ (run.pc \notin Ending /\ ~Succeeding)
    PROVE  IInv'
  <1>1. findings' = findings /\ saved' = saved /\ announced' = announced
        /\ run' = Off /\ lives' = [lives EXCEPT ![Life] = how]
    BY DEF Ends
  <1>2. lives \in Seq({"alive", "refused", "died", "failed", "stopped"}) /\ Life > 0
        /\ lives[Life] = "alive" /\ Life = Len(lives)
    BY DEF IInv, TypeOK, Alive, Life
  <1>3. Len(lives') = Len(lives) /\ lives'[Life] = how
        /\ \A n \in 1..Life : n # Life => lives'[n] = lives[n]
    BY <1>1, <1>2
  <1>4. Life' = Life
    BY <1>3 DEF Life
  <1>5. Stored'
    BY <1>1, <1>4 DEF IInv, Stored, Findings, Reports, LineageKept, SuccessIsEvidenced, AnnouncedOnce
  <1>6. Working' /\ Alive'
    BY <1>1, OffFacts DEF Working, Auditing, Succeeding, Alive
  <1>7. ASSUME NEW i \in DOMAIN findings PROVE Explained(i)'
    <2>1. Explained(i) /\ findings[i].life \in 1..Life
      BY DEF IInv, Silence, Stored, Findings
    <2>2. CASE findings[i].life = Life
      BY <1>1, <1>2, <1>3, <2>1, <2>2 DEF Explained
    <2>3. CASE findings[i].life # Life
      BY <1>1, <1>3, <2>1, <2>3 DEF Explained
    <2> QED BY <2>2, <2>3
  <1>8. Silence'
    BY <1>1, <1>7 DEF Silence
  <1> QED BY <1>5, <1>6, <1>8 DEF IInv

\* The process is not concerned.
LEMMA OutsideStep ==
    ASSUME IInv, UNCHANGED <<findings, saved, announced, lives, run>>, TypeOK'
    PROVE  IInv'
  <1>1. findings' = findings /\ saved' = saved /\ announced' = announced /\ lives' = lives
        /\ run' = run
    OBVIOUS
  <1>2. Stored' /\ LastAnalyzed' = LastAnalyzed /\ Life' = Life
        /\ \A c : Evidenced(c)' <=> Evidenced(c)
    BY Same DEF IInv
  <1>3. New' <=> New
    BY <1>1, <1>2 DEF New
  <1>4. Working'
    BY <1>1, <1>2, <1>3 DEF IInv, Working, Succeeding
  <1>5. Silence' /\ Alive'
    BY <1>1, <1>2 DEF IInv, Silence, Explained, Succeeding, Alive
  <1> QED BY <1>2, <1>4, <1>5 DEF IInv
-----------------------------------------------------------------------------
(* The scheduler.                                                          *)

ProjectType == [source: 1..MaxSource, snapshot: MaybeSnapshot, probed: BOOLEAN]
JournalType == [phase: {"absent", "running", "recovered", "idle"}, life: Nat]

LEMMA TypeStep ==
    ASSUME IInv, UNCHANGED <<git, findings, saved, announced, lives, refused, moves>>,
           run' \in Run, project' \in ProjectType, journal' \in JournalType, torn' \in BOOLEAN,
           pending' \in Nat, faults' \in Nat
    PROVE  TypeOK'
  BY DEF IInv, TypeOK, ProjectType, JournalType

LEMMA Types ==
    ASSUME IInv
    PROVE  /\ run \in Run /\ project \in ProjectType /\ journal \in JournalType
           /\ torn \in BOOLEAN /\ pending \in Nat /\ faults \in Nat /\ faults + 1 \in Nat
           /\ Life \in Nat /\ git.head \in Commits /\ Sources \in Snapshots
           /\ findings \in Seq([commit: Commits, snapshot: Snapshots, life: Nat])
           /\ saved \in Seq([commit: Commits, snapshot: Snapshots])
           /\ announced \in [Commits -> Nat]
  <1>1. git \in [head: Commits, edited: BOOLEAN] /\ project \in ProjectType
        /\ lives \in Seq({"alive", "refused", "died", "failed", "stopped"})
    BY DEF IInv, TypeOK, ProjectType
  <1>2. git.head \in Commits /\ project.source \in 1..MaxSource
    BY <1>1 DEF ProjectType
  <1>3. Sources \in Snapshots
    BY <1>2 DEF Sources, Snapshots
  <1>4. Life \in Nat
    BY <1>1 DEF Life
  <1> QED BY <1>1, <1>2, <1>3, <1>4 DEF IInv, TypeOK, JournalType

LEMMA FindingFields ==
    ASSUME IInv, NEW i \in DOMAIN findings
    PROVE  /\ findings[i].commit \in Commits /\ findings[i].snapshot \in Snapshots
           /\ findings[i].life \in Nat
  <1> DEFINE R == [commit: Commits, snapshot: Snapshots, life: Nat]
  <1>1. findings \in Seq(R)
    BY DEF IInv, TypeOK
  <1>2. findings[i] \in R
    <2> HIDE DEF R
    <2> QED BY <1>1
  <1> QED BY <1>2

LEMMA EndsTypes ==
    ASSUME IInv, UNCHANGED <<git, findings, saved, announced, refused, moves>>,
           NEW how \in {"refused", "died", "failed", "stopped"}, Ends(how), run.pc # "off",
           project' \in ProjectType, journal' \in JournalType, torn' \in BOOLEAN,
           pending' \in Nat, faults' \in Nat
    PROVE  TypeOK'
  <1> DEFINE T == {"alive", "refused", "died", "failed", "stopped"}
  <1>1. lives \in Seq(T) /\ Life \in DOMAIN lives
    BY DEF IInv, TypeOK, Alive, Life
  <1>2. lives' = [lives EXCEPT ![Life] = how] /\ how \in T
    BY DEF Ends
  <1>3. lives' \in Seq(T)
    BY <1>1, <1>2
  <1>4. run' \in Run
    BY OffFacts DEF Ends
  <1> QED BY <1>3, <1>4 DEF IInv, TypeOK, ProjectType, JournalType

LEMMA WriteTypes ==
    ASSUME IInv, NEW p \in {"running", "idle"}
    PROVE  /\ Write(p) => journal' \in JournalType /\ torn' \in BOOLEAN
           /\ WriteFails => journal' = journal /\ torn' \in BOOLEAN /\ faults' \in Nat
  <1>1. Write(p) => journal' \in JournalType /\ torn' \in BOOLEAN
    BY Types DEF Write, JournalType
  <1>2. WriteFails => journal' = journal /\ torn' \in BOOLEAN /\ faults' \in Nat
    BY Types DEF WriteFails
  <1> QED BY <1>1, <1>2

\* What the process goes on from.
LEMMA StartedStep ==
    ASSUME IInv, UNCHANGED <<findings, saved, announced, lives>>, TypeOK',
           NEW l \in {"top", "observe", "enqueue", "fatal event", "stop"}, Goto(l),
           run.pc \in {"begin", "top", "cycle", "enqueue", "fatal"},
           l = "enqueue" => run.pc = "cycle",
           l = "fatal event" <=> run.pc = "fatal",
           l # "enqueue" => ~Succeeding
    PROVE  IInv'
  <1>1. run \in Run /\ l \in Steps
    BY Types DEF Steps
  <1>2. /\ run'.pc = l /\ run'.commit = run.commit /\ run'.status = run.status
        /\ run'.evidence = run.evidence /\ run'.prepared = run.prepared /\ run'.reported = run.reported
        /\ saved' = saved /\ announced' = announced
    BY <1>1, GotoFacts
  <1>3. \A c : Evidenced(c)' <=> Evidenced(c)
    BY Same
  <1>4. Succeeding' <=> (l = "enqueue" /\ Succeeding)
    BY <1>2 DEF Succeeding
  <1>5. Working'
    BY <1>2, <1>3, <1>4 DEF IInv, Working, Auditing, Succeeding
  <1> QED BY <1>2, <1>4, <1>5, RunStep DEF Ending

LEMMA StartProcessStep == ASSUME IInv, StartProcess PROVE IInv'
  <1>1. /\ run.pc = "off" /\ lives' = Append(lives, "alive")
        /\ run' = [Off EXCEPT !.pc = "begin"]
        /\ UNCHANGED <<git, project, findings, saved, journal, torn, pending, announced, refused,
                       moves, faults>>
    BY DEF StartProcess, stores, outbox, environment
  <1>2. /\ lives \in Seq({"alive", "refused", "died", "failed", "stopped"}) /\ Life = Len(lives)
        /\ Life \in Nat
    BY DEF IInv, TypeOK, Life
  <1>3. /\ lives' \in Seq({"alive", "refused", "died", "failed", "stopped"})
        /\ Len(lives') = Life + 1 /\ lives'[Life + 1] = "alive"
        /\ \A n \in 1..Life : lives'[n] = lives[n]
    BY <1>1, <1>2
  <1>4. Life' = Life + 1
    BY <1>3 DEF Life
  <1>5. TypeOK'
    BY <1>1, <1>3, OffFacts DEF IInv, TypeOK
  <1>6. Stored'
    BY <1>1, <1>2, <1>4 DEF IInv, Stored, Findings, Reports, LineageKept, SuccessIsEvidenced,
                                   AnnouncedOnce
  <1>7. Working' /\ Alive'
    BY <1>1, <1>2, <1>3, <1>4, OffFacts DEF Working, Auditing, Succeeding, Alive
  <1>8. ASSUME NEW i \in DOMAIN findings PROVE Explained(i)'
    <2>1. Explained(i) /\ findings[i].life \in 1..Life
      BY DEF IInv, Silence, Stored, Findings
    <2> QED BY <1>1, <1>3, <2>1 DEF Explained, Ending, Succeeding
  <1>9. Silence'
    BY <1>1, <1>8 DEF Silence
  <1> QED BY <1>5, <1>6, <1>7, <1>9 DEF IInv

LEMMA BeginStep == ASSUME IInv, Begin PROVE IInv'
  <1>1. /\ run.pc = "begin"
        /\ UNCHANGED <<git, project, findings, saved, pending, announced, refused, moves>>
    BY DEF Begin, evidenceStores, outbox, environment
  <1>2. ASSUME Write("running"), Goto("top"), UNCHANGED <<lives, faults>> PROVE IInv'
    <2>1. run' \in Run
      BY <1>2, Types, GotoFacts DEF Steps
    <2>2. TypeOK'
      BY <1>1, <1>2, <2>1, Types, WriteTypes, TypeStep
    <2> QED BY <1>1, <1>2, <2>2, StartedStep DEF Succeeding
  <1>3. ASSUME Ends("refused"), journal' \in JournalType, torn' \in BOOLEAN, faults' \in Nat
        PROVE IInv'
    <2>1. TypeOK'
      BY <1>1, <1>3, Types, EndsTypes
    <2> QED BY <1>1, <1>3, <2>1, EndsStep DEF Ending, Succeeding
  <1> QED BY <1>2, <1>3, Types, WriteTypes DEF Begin

LEMMA TopStep == ASSUME IInv, Top PROVE IInv'
  <1>1. /\ run.pc = "top"
        /\ UNCHANGED <<git, project, findings, saved, pending, announced, lives, refused, moves>>
    BY DEF Top, evidenceStores, outbox, environment
  <1>2. ASSUME NEW l \in {"stop", "observe"}, Goto(l), journal' \in JournalType, torn' \in BOOLEAN,
               faults' \in Nat
        PROVE IInv'
    <2>1. run' \in Run
      BY <1>2, Types, GotoFacts DEF Steps
    <2>2. TypeOK'
      BY <1>1, <1>2, <2>1, Types, TypeStep
    <2> QED BY <1>1, <1>2, <2>2, StartedStep DEF Succeeding
  <1>3. ASSUME WriteFails, Fatal PROVE IInv'
    <2>1. TypeOK'
      BY <1>1, <1>3, Types, WriteTypes, OffFacts, TypeStep DEF Fatal
    <2> QED BY <1>1, <1>3, <2>1, FatalStep
  <1> QED BY <1>2, <1>3, Types, WriteTypes DEF Top

LEMMA CycleStep == ASSUME IInv, Cycle PROVE IInv'
  <1>1. /\ run.pc = "cycle"
        /\ UNCHANGED <<git, project, findings, saved, pending, announced, lives, refused, moves>>
    BY DEF Cycle, evidenceStores, outbox, environment
  <1>2. ASSUME Write("running"), Goto("enqueue"), UNCHANGED faults PROVE IInv'
    <2>1. run' \in Run
      BY <1>2, Types, GotoFacts DEF Steps
    <2>2. TypeOK'
      BY <1>1, <1>2, <2>1, Types, WriteTypes, TypeStep
    <2> QED BY <1>1, <1>2, <2>2, StartedStep
  <1>3. ASSUME WriteFails, Fatal PROVE IInv'
    <2>1. TypeOK'
      BY <1>1, <1>3, Types, WriteTypes, OffFacts, TypeStep DEF Fatal
    <2> QED BY <1>1, <1>3, <2>1, FatalStep
  <1> QED BY <1>2, <1>3 DEF Cycle

\* The success of a commit that was never announced is announced.
LEMMA AnnouncedStep ==
    ASSUME IInv, run.pc = "enqueue", run.status = "analyzed", Enqueue(run.status), Goto("top"),
           UNCHANGED <<git, project, findings, saved, journal, torn, lives, refused, moves, faults>>
    PROVE  IInv'
  <1> DEFINE c == run.commit
  <1>1. c \in Commits /\ announced[c] = 0 /\ Evidenced(c)
    BY DEF IInv, Working, Succeeding
  <1>2. announced' = [announced EXCEPT ![c] = announced[c] + 1] /\ pending' = pending + 1
    BY DEF Enqueue
  <1>3. announced \in [Commits -> Nat] /\ pending \in Nat /\ run \in Run
    BY Types
  <1> HIDE DEF c
  <1>4. announced' \in [Commits -> Nat] /\ announced'[c] = 1 /\ pending' \in Nat
        /\ \A d \in Commits \ {c} : announced'[d] = announced[d]
    BY <1>1, <1>2, <1>3
  <1>5. /\ run' \in Run /\ run'.pc = "top" /\ run'.evidence = run.evidence /\ run'.prepared = run.prepared
        /\ run'.commit = run.commit /\ run'.reported = run.reported
    BY <1>3, GotoFacts DEF Steps
  <1>6. TypeOK'
    BY <1>4, <1>5 DEF IInv, TypeOK
  <1>7. Life' = Life /\ findings' = findings /\ saved' = saved /\ lives' = lives
    BY DEF Life
  <1>8. Findings' /\ Reports' /\ LineageKept'
    BY <1>7 DEF IInv, Stored, Findings, Reports, LineageKept
  <1>9. SuccessIsEvidenced'
    BY <1>1, <1>4, <1>7 DEF IInv, Stored, SuccessIsEvidenced, Evidenced
  <1>10. AnnouncedOnce'
    BY <1>4, <1>7 DEF IInv, Stored, AnnouncedOnce
  <1>11. Working' /\ Alive'
    BY <1>5, <1>7 DEF IInv, Working, Auditing, Succeeding, Alive
  <1>12. ASSUME NEW i \in DOMAIN findings PROVE Explained(i)'
    <2>1. Explained(i) /\ findings[i].commit \in Commits
      BY FindingFields DEF IInv, Silence
    <2>2. announced[findings[i].commit] > 0 => announced'[findings[i].commit] > 0
      BY <1>3, <1>4, <2>1
    <2>3. findings[i].commit = c => announced'[findings[i].commit] > 0
      BY <1>4
    <2> QED BY <1>7, <2>1, <2>2, <2>3 DEF Explained, Ending, Succeeding, c
  <1>13. Silence'
    BY <1>7, <1>12 DEF Silence
  <1> QED BY <1>6, <1>8, <1>9, <1>10, <1>11, <1>13 DEF IInv, Stored

LEMMA AnnounceStep == ASSUME IInv, Announce PROVE IInv'
  <1>1. /\ run.pc = "enqueue"
        /\ UNCHANGED <<git, project, findings, saved, journal, torn, lives, refused, moves, faults>>
    BY DEF Announce, evidenceStores, environment
  <1>2. ASSUME run.status # "analyzed", Goto("top"), announced' = announced, pending' \in Nat
        PROVE IInv'
    <2>1. run' \in Run
      BY <1>2, Types, GotoFacts DEF Steps
    <2>2. TypeOK'
      BY <1>1, <1>2, <2>1, Types, TypeStep
    <2> QED BY <1>1, <1>2, <2>2, StartedStep DEF Succeeding
  <1>3. ASSUME Fatal, UNCHANGED outbox PROVE IInv'
    <2>1. TypeOK'
      BY <1>1, <1>3, Types, OffFacts, TypeStep DEF Fatal, outbox
    <2> QED BY <1>1, <1>3, <2>1, FatalStep DEF outbox
  <1>4. CASE run.status = "unchanged" /\ Goto("top") /\ UNCHANGED outbox
    BY <1>2, <1>4, Types DEF outbox
  <1>5. CASE Enqueue(run.status) /\ Goto("top")
    BY <1>1, <1>2, <1>5, Types, AnnouncedStep DEF Enqueue
  <1> QED BY <1>3, <1>4, <1>5 DEF Announce

LEMMA RecordFatalStep == ASSUME IInv, RecordFatal PROVE IInv'
  <1>1. /\ run.pc = "fatal" /\ Goto("fatal event")
        /\ UNCHANGED <<git, project, findings, saved, pending, announced, lives, refused, moves>>
    BY DEF RecordFatal, evidenceStores, outbox, environment
  <1>2. journal' \in JournalType /\ torn' \in BOOLEAN /\ faults' \in Nat
    BY Types, WriteTypes DEF RecordFatal
  <1>3. run' \in Run /\ run'.pc = "fatal event"
    BY <1>1, Types, GotoFacts DEF Steps
  <1>4. TypeOK'
    BY <1>1, <1>2, <1>3, Types, TypeStep
  <1> QED BY <1>1, <1>4, StartedStep DEF Succeeding

LEMMA AnnounceFatalStep == ASSUME IInv, AnnounceFatal PROVE IInv'
  <1>1. /\ run.pc = "fatal event" /\ Ends("failed") /\ announced' = announced /\ pending' \in Nat
        /\ UNCHANGED <<git, project, findings, saved, journal, torn, refused, moves, faults>>
    <2>1. /\ run.pc = "fatal event" /\ Ends("failed")
          /\ UNCHANGED <<git, project, findings, saved, journal, torn, refused, moves, faults>>
      BY DEF AnnounceFatal, evidenceStores, environment
    <2>2. Enqueue("fatal") => announced' = announced /\ pending' = pending + 1
      BY DEF Enqueue
    <2>3. Enqueue("fatal") \/ (announced' = announced /\ pending' = pending)
      BY DEF AnnounceFatal, outbox
    <2>4. announced' = announced /\ pending' \in Nat
      BY <2>2, <2>3, Types
    <2> QED BY <2>1, <2>4
  <1>2. TypeOK'
    BY <1>1, Types, EndsTypes
  <1> QED BY <1>1, <1>2, EndsStep

LEMMA StopStep == ASSUME IInv, Stop PROVE IInv'
  <1>1. /\ run.pc = "stop"
        /\ UNCHANGED <<git, project, findings, saved, pending, announced, refused, moves>>
    BY DEF Stop, evidenceStores, outbox, environment
  <1>2. ASSUME NEW how \in {"stopped", "failed"}, Ends(how), journal' \in JournalType,
               torn' \in BOOLEAN, faults' \in Nat
        PROVE IInv'
    <2>1. TypeOK'
      BY <1>1, <1>2, Types, EndsTypes
    <2> QED BY <1>1, <1>2, <2>1, EndsStep DEF Ending, Succeeding
  <1> QED BY <1>2, Types, WriteTypes DEF Stop
-----------------------------------------------------------------------------
(* A cycle.                                                                *)

\* A step of the tick that goes on and writes no store.
LEMMA TickStep ==
    ASSUME IInv, UNCHANGED <<findings, saved, announced, lives>>, TypeOK', Working',
           run.pc \in Auditing \union {"observe"}, run.pc # "report"
    PROVE  IInv'
  BY RunStep DEF Auditing, Ending, Succeeding

LEMMA TickFails ==
    ASSUME IInv, Transient \/ Fatal, UNCHANGED <<git, findings, saved, announced, lives, refused, moves>>,
           project' \in ProjectType, journal' \in JournalType, torn' \in BOOLEAN,
           pending' \in Nat, faults' \in Nat,
           run.pc # "off", Fatal \/ (run.pc \notin Ending /\ ~Succeeding)
    PROVE  IInv'
  <1>1. run' \in Run
    BY Types, TransientFacts, OffFacts DEF Fatal
  <1>2. TypeOK'
    BY <1>1, TypeStep
  <1> QED BY <1>2, TransientStep, FatalStep

LEMMA QuietFacts ==
    ASSUME IInv, Quiet
    PROVE  /\ UNCHANGED <<git, findings, saved, announced, lives, refused, moves>>
           /\ project' \in ProjectType /\ journal' \in JournalType /\ torn' \in BOOLEAN
           /\ pending' \in Nat /\ faults' \in Nat
  <1>1. UNCHANGED <<git, project, findings, saved, journal, torn, pending, announced, lives,
                    refused, moves, faults>>
    BY DEF Quiet, stores, outbox, environment
  <1> QED BY <1>1, Types

\* A quiet step to another place of the tick.
LEMMA QuietGoto ==
    ASSUME IInv, Quiet, NEW l \in {"verify", "probe", "check"}, Goto(l),
           \/ run.pc = "recheck" /\ l = "verify" /\ run.stage = "prepare"
           \/ run.pc = "verify" /\ l = "probe"
           \/ run.pc = "analyze" /\ l = "check"
    PROVE  IInv'
  <1>1. /\ run' \in Run /\ run'.pc = l /\ run'.commit = run.commit /\ run'.stage = run.stage
        /\ run'.evidence = run.evidence /\ run'.prepared = run.prepared /\ run'.reported = run.reported
    BY Types, GotoFacts DEF Steps
  <1>2. UNCHANGED <<git, findings, saved, announced, lives, refused, moves>> /\ TypeOK'
    BY <1>1, QuietFacts, TypeStep
  <1>3. New' <=> New
    BY <1>1, <1>2 DEF New, LastAnalyzed, Ancestor
  <1>4. Working'
    BY <1>1, <1>2, <1>3 DEF IInv, Working, Auditing, Succeeding
  <1> QED BY <1>2, <1>4, TickStep DEF Auditing

LEMMA ObserveStep == ASSUME IInv, Observe PROVE IInv'
  <1>1. run.pc = "observe" /\ Quiet /\ run \in Run /\ git.head \in Commits
    BY Types DEF Observe
  <1>2. ASSUME run' = [run EXCEPT !.pc = "capture", !.commit = git.head, !.stage = "prepare",
                                  !.prepared = NoSnapshot, !.evidence = NoSnapshot]
        PROVE IInv'
    <2>1. /\ run' \in Run /\ run'.pc = "capture" /\ run'.commit = git.head
          /\ run'.evidence = NoSnapshot /\ run'.prepared = NoSnapshot /\ run'.reported = run.reported
          /\ run'.stage = "prepare"
      BY <1>1, <1>2 DEF Run, Steps, Stages, MaybeCommit, MaybeSnapshot
    <2>2. UNCHANGED <<git, findings, saved, announced, lives, refused, moves>> /\ TypeOK'
      BY <1>1, <2>1, QuietFacts, TypeStep
    <2>3. Working'
      BY <1>1, <2>1, <2>2 DEF IInv, Working, Auditing, Succeeding
    <2> QED BY <1>1, <2>2, <2>3, TickStep
  <1>3. ASSUME Transient \/ Fatal PROVE IInv'
    BY <1>1, <1>3, QuietFacts, TickFails DEF Ending, Succeeding
  <1> QED BY <1>2, <1>3 DEF Observe

LEMMA CaptureStep == ASSUME IInv, Capture PROVE IInv'
  <1>1. /\ run.pc = "capture" /\ Goto("recheck")
        /\ project' = [project EXCEPT !.snapshot = Sources, !.probed = FALSE]
        /\ UNCHANGED <<git, findings, saved, journal, torn, pending, announced, lives, refused,
                       moves, faults>>
    BY DEF Capture, outbox, environment
  <1>2. project' \in ProjectType
    BY <1>1, Types DEF ProjectType, MaybeSnapshot
  <1>3. /\ run' \in Run /\ run'.pc = "recheck" /\ run'.commit = run.commit
        /\ run'.stage = run.stage
        /\ run'.evidence = run.evidence /\ run'.prepared = run.prepared /\ run'.reported = run.reported
    BY <1>1, Types, GotoFacts DEF Steps
  <1>4. TypeOK'
    BY <1>1, <1>2, <1>3, Types, TypeStep
  <1>5. Working'
    BY <1>1, <1>3 DEF IInv, Working, Auditing, Succeeding
  <1> QED BY <1>1, <1>4, <1>5, TickStep DEF Auditing

LEMMA RecheckStep == ASSUME IInv, Recheck PROVE IInv'
  <1>1. run.pc = "recheck" /\ Quiet
    BY DEF Recheck
  <1>2. CASE Goto("verify") /\ run.stage = "prepare"
    BY <1>1, <1>2, QuietGoto
  <1>3. CASE Transient
    BY <1>1, <1>3, QuietFacts, TickFails DEF Ending, Succeeding
  <1>4. run.stage = "prepare"
    BY <1>1 DEF IInv, Working
  <1> QED BY <1>2, <1>3, <1>4 DEF Recheck

LEMMA VerifyStep == ASSUME IInv, Verify PROVE IInv'
  <1>1. run.pc = "verify" /\ Quiet
    BY DEF Verify
  <1>2. CASE Goto("probe")
    BY <1>1, <1>2, QuietGoto
  <1>3. CASE Transient
    BY <1>1, <1>3, QuietFacts, TickFails DEF Ending, Succeeding
  <1> QED BY <1>2, <1>3 DEF Verify

LEMMA ProbeStep == ASSUME IInv, Probe PROVE IInv'
  <1>1. /\ run.pc = "probe" /\ run \in Run /\ Sources \in Snapshots
        /\ UNCHANGED <<git, findings, saved, journal, torn, pending, announced, lives, refused,
                       moves, faults>>
    BY Types DEF Probe, outbox, environment
  <1>2. ASSUME run' = [run EXCEPT !.pc = "bind", !.seen = Sources],
               project' = [project EXCEPT !.probed = TRUE]
        PROVE  IInv'
    <2>1. /\ run' \in Run /\ run'.pc = "bind" /\ run'.seen = Sources /\ run'.commit = run.commit
          /\ run'.evidence = run.evidence /\ run'.prepared = run.prepared /\ run'.reported = run.reported
          /\ run'.stage = run.stage
      BY <1>1, <1>2 DEF Run, Steps, MaybeSnapshot
    <2>2. project' \in ProjectType
      BY <1>2, Types DEF ProjectType
    <2>3. TypeOK'
      BY <1>1, <2>1, <2>2, Types, TypeStep
    <2>4. New' <=> New
      BY <1>1, <2>1 DEF New, LastAnalyzed, Ancestor
    <2>5. Working'
      BY <1>1, <2>1, <2>4 DEF IInv, Working, Auditing, Succeeding
    <2> QED BY <1>1, <2>3, <2>5, TickStep DEF Auditing
  <1>3. ASSUME Fatal, UNCHANGED project PROVE IInv'
    BY <1>1, <1>3, Types, TickFails
  <1> QED BY <1>2, <1>3 DEF Probe

LEMMA BindStep == ASSUME IInv, Bind PROVE IInv'
  <1>1. /\ run.pc = "bind" /\ run \in Run /\ run.seen \in Snapshots
        /\ UNCHANGED <<git, findings, saved, journal, torn, pending, announced, lives, refused,
                       moves, faults>>
    BY Types DEF Bind, outbox, environment, IInv, Working
  <1>2. project' \in ProjectType
    <2>1. project' = [project EXCEPT !.probed = FALSE]
      BY DEF Bind
    <2> QED BY <2>1, Types DEF ProjectType
  <1>3. ASSUME Transient \/ Fatal PROVE IInv'
    BY <1>1, <1>2, <1>3, Types, TickFails DEF Ending, Succeeding
  <1>4. ASSUME Bound(run.seen, run.commit), NEW l \in {"watch", "analyze", "record"},
               run' \in Run, run'.pc = l, run'.commit = run.commit,
               run'.evidence \in {run.evidence, run.seen}, run'.prepared \in {run.prepared, run.seen},
               l = "record" => run'.evidence = run.seen, run'.reported = run.reported,
               l # "watch" => run.stage # "prepare"
        PROVE  IInv'
    <2>1. TypeOK'
      BY <1>1, <1>2, <1>4, Types, TypeStep
    <2>2. New' <=> New
      BY <1>1, <1>4 DEF New, LastAnalyzed, Ancestor
    <2>3. run.seen[2] = run.commit
      BY <1>4 DEF Bound
    <2>4. Working'
      BY <1>1, <1>4, <2>2, <2>3 DEF IInv, Working, Auditing, Succeeding
    <2> QED BY <1>1, <2>1, <2>4, TickStep DEF Auditing
  <1>5. CASE Bound(run.seen, run.commit) /\ Verified
    <2>1. run.stage \in Stages /\ run.stage \in {"prepare", "watch", "record"}
      BY <1>1, RunFields DEF Stages
    <2>2. CASE run.stage = "prepare"
      <3>1. run' = [run EXCEPT !.pc = "watch", !.prepared = run.seen, !.seen = NoSnapshot]
        BY <1>5, <2>2 DEF Verified
      <3>2. /\ run' \in Run /\ run'.pc = "watch" /\ run'.commit = run.commit
            /\ run'.prepared = run.seen /\ run'.evidence = run.evidence
            /\ run'.reported = run.reported
        BY <1>1, <3>1 DEF Run, Steps, MaybeSnapshot
      <3> QED BY <1>4, <1>5, <3>2
    <2>3. CASE run.stage = "watch"
      <3>1. run' = [run EXCEPT !.pc = "analyze", !.evidence = run.seen, !.seen = NoSnapshot]
        BY <1>5, <2>3 DEF Verified
      <3>2. /\ run' \in Run /\ run'.pc = "analyze" /\ run'.commit = run.commit
            /\ run'.evidence = run.seen /\ run'.prepared = run.prepared
            /\ run'.reported = run.reported
        BY <1>1, <3>1 DEF Run, Steps, MaybeSnapshot
      <3> QED BY <1>4, <1>5, <2>3, <3>2
    <2>4. CASE run.stage = "record" /\ run.evidence = run.seen
      <3>1. run' = [run EXCEPT !.pc = "record", !.seen = NoSnapshot]
        BY <1>5, <2>4 DEF Verified
      <3>2. /\ run' \in Run /\ run'.pc = "record" /\ run'.commit = run.commit
            /\ run'.evidence = run.seen /\ run'.prepared = run.prepared
            /\ run'.reported = run.reported
        BY <1>1, <2>4, <3>1 DEF Run, Steps, MaybeSnapshot
      <3> QED BY <1>4, <1>5, <2>4, <3>2
    <2>5. CASE run.stage = "record" /\ run.evidence # run.seen
      BY <1>3, <1>5, <2>5 DEF Verified
    <2> QED BY <2>1, <2>2, <2>3, <2>4, <2>5
  <1> QED BY <1>3, <1>5 DEF Bind

LEMMA WatchStep == ASSUME IInv, Watch PROVE IInv'
  <1>1. run.pc = "watch" /\ Quiet /\ run \in Run
    BY Types DEF Watch
  <1>2. ASSUME run' = [run EXCEPT !.pc = "report", !.status = "unchanged"] PROVE IInv'
    <2>1. /\ run' \in Run /\ run'.pc = "report" /\ run'.status = "unchanged"
          /\ run'.commit = run.commit /\ run'.evidence = run.evidence /\ run'.prepared = run.prepared
          /\ run'.reported = run.reported
      BY <1>1, <1>2 DEF Run, Steps, Statuses
    <2>2. UNCHANGED <<git, findings, saved, announced, lives, refused, moves>> /\ TypeOK'
      BY <1>1, <2>1, QuietFacts, TypeStep
    <2>3. Working'
      BY <1>1, <2>1, <2>2 DEF IInv, Working, Auditing, Succeeding
    <2> QED BY <1>1, <2>2, <2>3, TickStep DEF Auditing
  <1>3. ASSUME New, run' = [run EXCEPT !.pc = "verify", !.stage = "watch"] PROVE IInv'
    <2>1. /\ run' \in Run /\ run'.pc = "verify"
          /\ run'.commit = run.commit /\ run'.evidence = run.evidence /\ run'.prepared = run.prepared
          /\ run'.reported = run.reported
      BY <1>1, <1>3 DEF Run, Steps, Stages
    <2>2. UNCHANGED <<git, findings, saved, announced, lives, refused, moves>> /\ TypeOK'
      BY <1>1, <2>1, QuietFacts, TypeStep
    <2>3. New'
      BY <1>3, <2>1, <2>2 DEF New, LastAnalyzed, Ancestor
    <2>4. Working'
      BY <1>1, <2>1, <2>2, <2>3 DEF IInv, Working, Auditing, Succeeding
    <2> QED BY <1>1, <2>2, <2>4, TickStep DEF Auditing
  <1>4. ASSUME Transient \/ Fatal PROVE IInv'
    BY <1>1, <1>4, QuietFacts, TickFails DEF Ending, Succeeding
  <1> QED BY <1>2, <1>3, <1>4 DEF Watch, Unchanged, New

LEMMA AnalyzeStep == ASSUME IInv, Analyze PROVE IInv'
  BY QuietGoto DEF Analyze

LEMMA CheckStep == ASSUME IInv, Check PROVE IInv'
  <1>1. run.pc = "check" /\ Quiet /\ run \in Run /\ New
    BY Types DEF Check, IInv, Working
  <1>2. ASSUME run' = [run EXCEPT !.pc = "verify", !.stage = "record"] PROVE IInv'
    <2>1. /\ run' \in Run /\ run'.pc = "verify"
          /\ run'.commit = run.commit /\ run'.evidence = run.evidence /\ run'.prepared = run.prepared
          /\ run'.reported = run.reported
      BY <1>1, <1>2 DEF Run, Steps, Stages
    <2>2. UNCHANGED <<git, findings, saved, announced, lives, refused, moves>> /\ TypeOK'
      BY <1>1, <2>1, QuietFacts, TypeStep
    <2>3. New'
      BY <1>1, <2>1, <2>2 DEF New, LastAnalyzed, Ancestor
    <2>4. Working'
      BY <1>1, <2>1, <2>2, <2>3 DEF IInv, Working, Auditing, Succeeding
    <2> QED BY <1>1, <2>2, <2>4, TickStep DEF Auditing
  <1>3. ASSUME Transient PROVE IInv'
    BY <1>1, <1>3, QuietFacts, TickFails DEF Ending, Succeeding
  <1> QED BY <1>2, <1>3 DEF Check

\* A commit that follows the last one analyzed has not been analyzed before.
LEMMA NewFacts ==
    ASSUME IInv, New, run.commit \in Commits, NEW i \in DOMAIN findings
    PROVE  findings[i].commit # run.commit /\ Descends(findings[i].commit, run.commit)
  <1> DEFINE n == Len(findings)
             L == findings[n].commit
  <1>1. DOMAIN findings = 1..n /\ n \in Nat
    BY Types
  <1>2. n \in DOMAIN findings /\ findings # << >> /\ LastAnalyzed = L
    BY <1>1 DEF LastAnalyzed
  <1>3. L \in Commits /\ L # NoCommit /\ findings[i].commit \in Commits
    BY <1>2, FindingFields
  <1>4. L # run.commit /\ Descends(L, run.commit)
    BY <1>2, <1>3 DEF New, Ancestor
  <1>5. i = n \/ Descends(findings[i].commit, L)
    BY <1>1, <1>2 DEF IInv, Stored, LineageKept
  <1> HIDE DEF L, n
  <1>6. CASE i = n
    BY <1>4, <1>6 DEF L
  <1>7. CASE Descends(findings[i].commit, L)
    <2>1. Descends(findings[i].commit, run.commit)
      BY <1>3, <1>4, <1>7, HistoryAssumption
    <2>2. findings[i].commit # run.commit
      BY <1>3, <1>4, <1>7, HistoryAssumption
    <2> QED BY <2>1, <2>2
  <1> QED BY <1>5, <1>6, <1>7

LEMMA RecordStep == ASSUME IInv, Record PROVE IInv'
  <1>1. /\ run.pc = "record" /\ run \in Run /\ New
        /\ run.commit \in Commits /\ run.evidence \in Snapshots
        /\ run.evidence[2] = run.commit /\ Life > 0 /\ Life \in Nat
        /\ UNCHANGED <<git, project, saved, journal, torn, pending, announced, lives, refused,
                       moves, faults>>
    BY Types DEF Record, outbox, environment, IInv, Working, Auditing, Alive
  <1>2. \A i \in DOMAIN findings :
          findings[i].commit # run.commit /\ Descends(findings[i].commit, run.commit)
    BY <1>1, NewFacts
  <1>3. PICK new : new = [commit |-> run.commit, snapshot |-> run.evidence, life |-> Life]
    OBVIOUS
  <1>4. findings' = Append(findings, new)
    BY <1>2, <1>3 DEF Record
  <1>5. /\ new.commit = run.commit /\ new.snapshot = run.evidence /\ new.life = Life
        /\ new \in [commit: Commits, snapshot: Snapshots, life: Nat]
    BY <1>1, <1>3
  <1>6. PICK n \in Nat : n = Len(findings)
    BY Types
  <1>7. /\ findings' \in Seq([commit: Commits, snapshot: Snapshots, life: Nat])
        /\ DOMAIN findings = 1..n /\ DOMAIN findings' = 1..(n + 1) /\ findings'[n + 1] = new
        /\ \A i \in 1..n : findings'[i] = findings[i]
    <2> DEFINE R == [commit: Commits, snapshot: Snapshots, life: Nat]
    <2>1. findings \in Seq(R) /\ new \in R
      BY <1>5, Types
    <2> HIDE DEF R
    <2>2. /\ findings' \in Seq(R)
          /\ DOMAIN findings = 1..n /\ DOMAIN findings' = 1..(n + 1) /\ findings'[n + 1] = new
          /\ \A i \in 1..n : findings'[i] = findings[i]
      BY <1>4, <1>6, <2>1
    <2> QED BY <2>2 DEF R
  <1>8. /\ run' \in Run /\ run'.pc = "report" /\ run'.status = "analyzed"
        /\ run'.commit = run.commit /\ run'.evidence = run.evidence /\ run'.prepared = run.prepared
        /\ run'.reported = run.reported
    <2>1. run' = [run EXCEPT !.pc = "report", !.status = "analyzed"]
      BY DEF Record
    <2> QED BY <1>1, <2>1 DEF Run, Steps, Statuses
  <1>9. TypeOK'
    BY <1>1, <1>7, <1>8 DEF IInv, TypeOK
  <1>10. Life' = Life
    BY <1>1 DEF Life
  <1>11. Findings' /\ Reports'
    <2>1. Findings /\ Reports
      BY DEF IInv, Stored
    <2>2. /\ new.snapshot[2] = new.commit /\ new.life \in 1..Life
          /\ findings'[n + 1] = new /\ \A i \in 1..n : findings'[i] = findings[i]
      <3>1. new.snapshot[2] = new.commit
        BY <1>1, <1>5
      <3>2. new.life \in 1..Life
        BY <1>1, <1>5
      <3> QED BY <1>7, <3>1, <3>2
    <2>3. Reports'
      BY <1>1, <2>1 DEF Reports
    <2>4. ASSUME NEW i \in 1..(n + 1)
          PROVE  findings'[i].snapshot[2] = findings'[i].commit /\ findings'[i].life \in 1..Life
      <3>1. CASE i \in 1..n
        BY <1>7, <2>1, <2>2, <3>1 DEF Findings
      <3>2. CASE i = n + 1
        BY <2>2, <3>2
      <3> QED BY <3>1, <3>2
    <2> QED BY <1>7, <1>10, <2>3, <2>4 DEF Findings
  <1>12. LineageKept'
    <2> SUFFICES ASSUME NEW i \in 1..(n + 1), NEW j \in 1..(n + 1), i < j
                 PROVE  Descends(findings'[i].commit, findings'[j].commit)
      BY <1>7 DEF LineageKept
    <2>1. CASE j \in 1..n
      <3>1. i \in DOMAIN findings /\ j \in DOMAIN findings
        BY <1>7, <2>1
      <3>2. Descends(findings[i].commit, findings[j].commit)
        BY <3>1 DEF IInv, Stored, LineageKept
      <3> QED BY <1>7, <3>1, <3>2
    <2>2. CASE j = n + 1
      <3>1. i \in DOMAIN findings /\ findings'[i] = findings[i]
        BY <1>7, <2>2
      <3>2. findings'[j].commit = run.commit
        BY <1>5, <1>7, <2>2
      <3>3. Descends(findings[i].commit, run.commit)
        BY <1>2, <3>1
      <3> QED BY <3>1, <3>2, <3>3
    <2> QED BY <2>1, <2>2
  <1>13. SuccessIsEvidenced' /\ AnnouncedOnce'
    <2>1. ASSUME NEW c \in Commits, announced[c] > 0
          PROVE  \E i \in DOMAIN findings' :
                   /\ findings'[i].commit = c
                   /\ \E k \in DOMAIN saved :
                        saved[k] = [commit |-> c, snapshot |-> findings'[i].snapshot]
      <3>1. PICK i \in DOMAIN findings :
              /\ findings[i].commit = c
              /\ \E k \in DOMAIN saved :
                   saved[k] = [commit |-> c, snapshot |-> findings[i].snapshot]
        BY <2>1 DEF IInv, Stored, SuccessIsEvidenced
      <3>2. i \in DOMAIN findings' /\ findings'[i] = findings[i]
        BY <1>7
      <3> QED BY <3>1, <3>2
    <2>2. SuccessIsEvidenced'
      BY <1>1, <2>1 DEF SuccessIsEvidenced
    <2>3. AnnouncedOnce'
      BY <1>1 DEF IInv, Stored, AnnouncedOnce
    <2> QED BY <2>2, <2>3
  <1>14. announced[run.commit] = 0
    <2>1. announced[run.commit] > 0 => \E i \in DOMAIN findings : findings[i].commit = run.commit
      BY <1>1 DEF IInv, Stored, SuccessIsEvidenced
    <2>2. announced[run.commit] \in Nat
      BY <1>1, Types
    <2> QED BY <1>2, <2>1, <2>2
  <1>15. Working' /\ Alive'
    BY <1>1, <1>8, <1>10, <1>14 DEF IInv, Working, Auditing, Succeeding, Alive
  <1>16. ASSUME NEW i \in DOMAIN findings' PROVE Explained(i)'
    <2>1. CASE i \in 1..n
      <3>1. Explained(i) /\ findings'[i] = findings[i]
        BY <1>7, <2>1 DEF IInv, Silence
      <3>2. announced[findings[i].commit] > 0 \/ lives[findings[i].life] \in {"died", "failed"}
        BY <1>1, <3>1 DEF Explained, Ending, Succeeding
      <3> QED BY <1>1, <3>1, <3>2 DEF Explained
    <2>2. CASE i = n + 1
      <3>1. findings'[i].life = Life' /\ findings'[i].commit = run'.commit /\ Succeeding'
        BY <1>5, <1>7, <1>8, <1>10, <2>2 DEF Succeeding
      <3> QED BY <3>1 DEF Explained
    <2> QED BY <1>7, <2>1, <2>2
  <1>17. Silence'
    BY <1>16 DEF Silence
  <1> QED BY <1>9, <1>11, <1>12, <1>13, <1>15, <1>17 DEF IInv, Stored

LEMMA ReportStep == ASSUME IInv, Report PROVE IInv'
  <1>1. /\ run.pc = "report" /\ run \in Run /\ run.commit \in Commits
        /\ UNCHANGED <<git, project, findings, journal, torn, pending, announced, lives, refused,
                       moves, faults>>
    BY Types DEF Report, outbox, environment, IInv, Working, Auditing
  <1>2. ASSUME Fatal, UNCHANGED saved PROVE IInv'
    BY <1>1, <1>2, Types, TickFails
  <1>3. ASSUME Available, run' = [run EXCEPT !.pc = "cycle", !.reported = Binding],
               IF run.reported = Binding \/ Retained
               THEN UNCHANGED saved ELSE saved' = Append(saved, Binding)
        PROVE  IInv'
    <2>1. PICK f \in DOMAIN findings :
            findings[f].commit = run.commit /\ findings[f].snapshot = run.prepared
      BY <1>3 DEF Available
    <2>2. PICK b : b = Binding
      OBVIOUS
    <2>3. /\ run.prepared \in Snapshots /\ b \in [commit: Commits, snapshot: Snapshots]
          /\ b.snapshot = run.prepared /\ b.snapshot[2] = b.commit
          /\ b = [commit |-> run.commit, snapshot |-> findings[f].snapshot]
      <3>1. run.prepared \in Snapshots /\ run.prepared[2] = run.commit
        BY <2>1, FindingFields DEF IInv, Stored, Findings
      <3> QED BY <1>1, <2>1, <2>2, <3>1 DEF Binding
    <2>4. /\ run' \in Run /\ run'.pc = "cycle" /\ run'.status = run.status
          /\ run'.commit = run.commit /\ run'.reported = b
          /\ run'.evidence = run.evidence /\ run'.prepared = run.prepared
      <3>1. b \in [commit: MaybeCommit, snapshot: MaybeSnapshot]
        BY <2>3 DEF MaybeCommit, MaybeSnapshot
      <3> QED BY <1>1, <1>3, <2>2, <3>1 DEF Run, Steps
    <2>5. /\ saved' \in Seq([commit: Commits, snapshot: Snapshots])
          /\ \E k \in DOMAIN saved' : saved'[k] = b
          /\ \A k \in DOMAIN saved : k \in DOMAIN saved' /\ saved'[k] = saved[k]
          /\ \A k \in DOMAIN saved' : saved'[k] = b \/ \E j \in DOMAIN saved : saved'[k] = saved[j]
          /\ \A i, j \in DOMAIN saved' : saved'[i] = saved'[j] => i = j
      <3>1. \A i, j \in DOMAIN saved : saved[i] = saved[j] => i = j
        BY DEF IInv, Stored, AnnouncedOnce
      <3>2. CASE run.reported = b \/ Retained
        <4>1. saved' = saved
          BY <1>3, <2>2, <3>2
        <4>2. run.reported = b => \E k \in DOMAIN saved : saved[k] = b
          <5>1. run.reported = b => run.reported.snapshot # NoSnapshot
            BY <2>3
          <5> QED BY <5>1 DEF IInv, Working
        <4>3. Retained => \E k \in DOMAIN saved : saved[k] = b
          BY <2>2 DEF Retained
        <4> QED BY <3>1, <3>2, <4>1, <4>2, <4>3, Types
      <3>3. CASE ~(run.reported = b \/ Retained)
        <4> DEFINE R == [commit: Commits, snapshot: Snapshots]
        <4>1. saved \in Seq(R) /\ b \in R /\ saved' = Append(saved, b)
              /\ \A k \in DOMAIN saved : saved[k] # b
          BY <1>3, <2>2, <2>3, <3>3, Types DEF Retained
        <4> HIDE DEF R
        <4>2. PICK n \in Nat : n = Len(saved)
          BY <4>1
        <4>3. /\ saved' \in Seq(R) /\ DOMAIN saved = 1..n /\ DOMAIN saved' = 1..(n + 1)
              /\ saved'[n + 1] = b /\ \A k \in 1..n : saved'[k] = saved[k]
          BY <4>1, <4>2
        <4>4. \A i, j \in DOMAIN saved' : saved'[i] = saved'[j] => i = j
          <5> SUFFICES ASSUME NEW i \in 1..(n + 1), NEW j \in 1..(n + 1), saved'[i] = saved'[j]
                       PROVE  i = j
            BY <4>3
          <5>1. i \in 1..n \/ i = n + 1
            OBVIOUS
          <5>2. j \in 1..n \/ j = n + 1
            OBVIOUS
          <5> QED BY <3>1, <4>1, <4>3, <5>1, <5>2
        <4>5. n + 1 \in DOMAIN saved' /\ \A k \in DOMAIN saved : k \in DOMAIN saved'
          BY <4>3
        <4>6. \A k \in DOMAIN saved' : saved'[k] = b \/ \E j \in DOMAIN saved : saved'[k] = saved[j]
          <5> SUFFICES ASSUME NEW k \in 1..(n + 1)
                       PROVE  saved'[k] = b \/ \E j \in DOMAIN saved : saved'[k] = saved[j]
            BY <4>3
          <5>1. k \in 1..n \/ k = n + 1
            OBVIOUS
          <5> QED BY <4>3, <5>1
        <4> QED BY <4>3, <4>4, <4>5, <4>6 DEF R
      <3> QED BY <3>2, <3>3
    <2>6. TypeOK'
      BY <1>1, <2>4, <2>5 DEF IInv, TypeOK
    <2>7. Life' = Life
      BY <1>1 DEF Life
    <2>8. Findings' /\ Reports' /\ LineageKept'
      BY <1>1, <2>3, <2>5, <2>7 DEF IInv, Stored, Findings, Reports, LineageKept
    <2>9. SuccessIsEvidenced'
      <3> SUFFICES ASSUME NEW c \in Commits, announced[c] > 0
                   PROVE  \E i \in DOMAIN findings :
                            /\ findings[i].commit = c
                            /\ \E k \in DOMAIN saved' :
                                 saved'[k] = [commit |-> c, snapshot |-> findings[i].snapshot]
        BY <1>1 DEF SuccessIsEvidenced
      <3> QED BY <2>5 DEF IInv, Stored, SuccessIsEvidenced
    <2>10. AnnouncedOnce'
      BY <1>1, <2>5 DEF IInv, Stored, AnnouncedOnce
    <2>11. Evidenced(run.commit)'
      <3>1. \E k \in DOMAIN saved' :
              saved'[k] = [commit |-> run'.commit, snapshot |-> findings'[f].snapshot]
        BY <1>1, <2>3, <2>4, <2>5
      <3>2. f \in DOMAIN findings' /\ findings'[f].commit = run'.commit
        BY <1>1, <2>1, <2>4
      <3> QED BY <3>1, <3>2 DEF Evidenced
    <2>12. Succeeding' <=> Succeeding
      BY <1>1, <2>4 DEF Succeeding
    <2>13. Working'
      BY <1>1, <2>4, <2>5, <2>11, <2>12 DEF IInv, Working, Auditing
    <2>14. Alive'
      BY <1>1, <2>7 DEF IInv, Alive
    <2>15. ASSUME NEW i \in DOMAIN findings PROVE Explained(i)'
      <3>1. Explained(i)
        BY DEF IInv, Silence
      <3> QED BY <1>1, <2>4, <2>7, <2>12, <3>1 DEF Explained, Ending
    <2>16. Silence'
      BY <1>1, <2>15 DEF Silence
    <2> QED BY <2>6, <2>8, <2>9, <2>10, <2>13, <2>14, <2>16 DEF IInv, Stored
  <1> QED BY <1>2, <1>3 DEF Report

-----------------------------------------------------------------------------
(* Faults and the environment.                                             *)

LEMMA FailStep == ASSUME IInv, Fail PROVE IInv'
  <1>1. /\ run.pc # "off" /\ run.pc \notin Ending /\ faults' = faults + 1
        /\ Fatal \/ (Transient /\ ~Succeeding)
        /\ UNCHANGED <<git, project, findings, saved, journal, torn, pending, announced, lives,
                       refused, moves>>
    BY DEF Fail, stores, outbox, environment, Ending, Succeeding
  <1> QED BY <1>1, Types, TickFails

LEMMA DieStep == ASSUME IInv, Die PROVE IInv'
  <1>1. /\ run.pc # "off" /\ faults' = faults + 1 /\ Ends("died")
        /\ torn' = torn \/ torn' = TRUE
        /\ UNCHANGED <<git, project, findings, saved, journal, pending, announced, refused, moves>>
    BY DEF Die, evidenceStores, outbox, environment
  <1>2. torn' \in BOOLEAN /\ faults' \in Nat
    BY <1>1, Types
  <1>3. TypeOK'
    BY <1>1, <1>2, Types, EndsTypes
  <1> QED BY <1>1, <1>3, EndsStep

LEMMA OutsideSteps ==
    ASSUME IInv, Recover \/ Ack \/ Move \/ Reconfigure \/ OtherPublishes \/ UNCHANGED vars
    PROVE  IInv'
  <1>1. UNCHANGED <<findings, saved, announced, lives, run>>
    BY DEF Recover, Ack, Move, Reconfigure, OtherPublishes, stores, outbox, evidenceStores, vars
  <1>2. CASE Recover
    <2>1. journal' \in JournalType
      BY <1>2, Types DEF Recover, JournalType
    <2>2. TypeOK'
      BY <1>2, <2>1 DEF Recover, IInv, TypeOK, evidenceStores, outbox, JournalType
    <2> QED BY <1>1, <2>2, OutsideStep
  <1>3. CASE Ack
    <2>1. pending' \in Nat
      BY <1>3, Types DEF Ack
    <2>2. TypeOK'
      BY <1>3, <2>1 DEF Ack, IInv, TypeOK
    <2> QED BY <1>1, <2>2, OutsideStep
  <1>4. CASE Move
    <2>1. git' \in [head: Commits, edited: BOOLEAN]
      BY <1>4 DEF Move, IInv, TypeOK
    <2>2. moves' \in Nat
      BY <1>4 DEF Move, IInv, TypeOK
    <2>3. TypeOK'
      BY <1>4, <2>1, <2>2 DEF Move, IInv, TypeOK, stores, outbox
    <2> QED BY <1>1, <2>3, OutsideStep
  <1>5. CASE Reconfigure
    <2>1. project' \in ProjectType
      <3>1. project' = [project EXCEPT !.source = project.source + 1, !.probed = FALSE]
            /\ project.source < MaxSource
        BY <1>5 DEF Reconfigure
      <3>2. project.source \in 1..MaxSource
        BY Types DEF ProjectType
      <3>3. PICK n \in 1..MaxSource : n = project.source + 1
        BY <3>1, <3>2
      <3>4. project' = [project EXCEPT !.source = n, !.probed = FALSE]
        BY <3>1, <3>3
      <3> QED BY <3>4, Types DEF ProjectType
    <2>2. moves' \in Nat
      BY <1>5 DEF Reconfigure, IInv, TypeOK
    <2>3. TypeOK'
      BY <1>5, <2>1, <2>2 DEF Reconfigure, IInv, TypeOK, outbox, ProjectType
    <2> QED BY <1>1, <2>3, OutsideStep
  <1>6. CASE OtherPublishes
    <2>1. project' \in ProjectType
      BY <1>6, Types DEF OtherPublishes, ProjectType, MaybeSnapshot
    <2>2. TypeOK'
      BY <1>6, <2>1 DEF OtherPublishes, IInv, TypeOK, outbox, ProjectType
    <2> QED BY <1>1, <2>2, OutsideStep
  <1>7. CASE UNCHANGED vars
    <2>1. TypeOK'
      BY <1>7 DEF vars, stores, outbox, IInv, TypeOK
    <2> QED BY <1>1, <2>1, OutsideStep
  <1> QED BY <1>2, <1>3, <1>4, <1>5, <1>6, <1>7

-----------------------------------------------------------------------------
(* The specification.                                                      *)

LEMMA InitIInv == Init => IInv
  <1> SUFFICES ASSUME Init PROVE IInv
    OBVIOUS
  <1>1. /\ findings = << >> /\ saved = << >> /\ lives = << >> /\ run = Off
        /\ announced = [c \in Commits |-> 0] /\ pending = 0 /\ moves = 0 /\ faults = 0
        /\ torn = FALSE /\ refused = FALSE
    BY DEF Init
  <1>2. git \in [head: Commits, edited: BOOLEAN]
        /\ journal \in [phase: {"absent", "running", "recovered", "idle"}, life: Nat]
    BY DEF Init
  <1>3. project \in [source: 1..MaxSource, snapshot: MaybeSnapshot, probed: BOOLEAN]
    BY DEF Init, MaybeSnapshot
  <1>4. TypeOK
    <2>1. findings \in Seq([commit: Commits, snapshot: Snapshots, life: Nat])
      BY <1>1
    <2>2. saved \in Seq([commit: Commits, snapshot: Snapshots])
      BY <1>1
    <2>3. lives \in Seq({"alive", "refused", "died", "failed", "stopped"})
      BY <1>1
    <2>4. run \in Run /\ announced \in [Commits -> Nat]
      BY <1>1, OffFacts
    <2>5. pending \in Nat /\ moves \in Nat /\ faults \in Nat /\ torn \in BOOLEAN
          /\ refused \in BOOLEAN
      BY <1>1
    <2> QED BY <1>2, <1>3, <2>1, <2>2, <2>3, <2>4, <2>5 DEF TypeOK
  <1>5. Stored /\ Silence
    BY <1>1 DEF Stored, Findings, Reports, LineageKept, SuccessIsEvidenced, AnnouncedOnce, Silence
  <1>6. Working /\ Alive
    BY <1>1, OffFacts DEF Working, Auditing, Succeeding, Alive
  <1> QED BY <1>4, <1>5, <1>6 DEF IInv

LEMMA NextIInv == IInv /\ [Next]_vars => IInv'
  <1> SUFFICES ASSUME IInv, [Next]_vars PROVE IInv'
    OBVIOUS
  <1>1. CASE Tick
    BY <1>1, ObserveStep, CaptureStep, RecheckStep, VerifyStep, ProbeStep, BindStep, WatchStep,
       AnalyzeStep, CheckStep, RecordStep, ReportStep DEF Tick
  <1>2. CASE Begin \/ Top \/ Cycle \/ Announce \/ RecordFatal \/ AnnounceFatal \/ Stop
    BY <1>2, BeginStep, TopStep, CycleStep, AnnounceStep, RecordFatalStep, AnnounceFatalStep,
       StopStep
  <1>3. CASE StartProcess \/ Fail \/ Die
    BY <1>3, StartProcessStep, FailStep, DieStep
  <1>4. CASE Recover \/ Ack \/ Move \/ Reconfigure \/ OtherPublishes \/ UNCHANGED vars
    BY <1>4, OutsideSteps
  <1> QED BY <1>1, <1>2, <1>3, <1>4 DEF Next, Process

\* Git, the stores and the process stay in their types.
THEOREM TypeCorrect == Spec => []TypeOK
  <1>1. IInv => TypeOK
    BY DEF IInv
  <1> QED BY <1>1, InitIInv, NextIInv, PTL DEF Spec

\* In any acyclic history, however it is rewritten while the service looks at it,
\* each commit with findings descends from the ones before it.
THEOREM FindingsFollowOneLine == Spec => []LineageKept
  <1>1. IInv => LineageKept
    BY DEF IInv, Stored
  <1> QED BY <1>1, InitIInv, NextIInv, PTL DEF Spec

\* Evidence, findings and owner reports name a snapshot of exactly their commit,
\* wherever HEAD and the sources were moved between the reads.
THEOREM EvidenceIsBound == Spec => []EvidenceBound
  <1>1. IInv => EvidenceBound
    BY DEF IInv, Stored, Findings, Reports, Working, EvidenceBound
  <1> QED BY <1>1, InitIInv, NextIInv, PTL DEF Spec

\* A success that was announced has its findings and its owner report, and both are
\* of one snapshot although the service and the watcher bind the commit separately,
\* whoever publishes in between and whatever dies or fails on the way.
THEOREM SuccessesAreEvidenced == Spec => []SuccessIsEvidenced
  <1>1. IInv => SuccessIsEvidenced
    BY DEF IInv, Stored
  <1> QED BY <1>1, InitIInv, NextIInv, PTL DEF Spec

\* Over any number of lifetimes a commit is announced at most once, and no owner
\* report is saved twice.
THEOREM AnnouncementsAreUnique == Spec => []AnnouncedOnce
  <1>1. IInv => AnnouncedOnce
    BY DEF IInv, Stored
  <1> QED BY <1>1, InitIInv, NextIInv, PTL DEF Spec

\* Findings that were never announced belong to a lifetime that died or failed.
THEOREM SilencesAreExplained == Spec => []SilenceIsExplained
  <1>1. IInv => SilenceIsExplained
    BY DEF IInv, Silence, Explained, SilenceIsExplained, Ending, Succeeding
  <1> QED BY <1>1, InitIInv, NextIInv, PTL DEF Spec
=============================================================================
