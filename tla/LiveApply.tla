------------------------------- MODULE LiveApply -------------------------------
(***************************************************************************)
(* Journaled replacement of live source files: the two direct writers of   *)
(* src/rentgen_core, proposal_live_apply.py (one BSL module) and           *)
(* metadata_live_apply.py (the files of a metadata plan), which keep one   *)
(* protocol, and _live_recovery_stage.py.  One operation and its journal:  *)
(* apply puts the replacement in, undo and recover put the original back.  *)
(* A call holds the lock of the project from its first step to its last;   *)
(* people edit the files meanwhile, and a call may stop at any step, in    *)
(* the middle of a write too.                                              *)
(***************************************************************************)
EXTENDS Integers

CONSTANT Files      \* how many files a metadata plan changes

ASSUME FilesAssumption == Files \in Nat \ {0}

VARIABLES
    writer,     \* which of the two modules runs the operation
    source,     \* the live tree: the changed files by their order, 0 is all the rest
    records,    \* the directory of the operation and its sealed records
    areas,      \* backup, stage, undo-stage and recovery-stage
    call,       \* the call that holds the lock
    answer,     \* what the last call came to
    touched     \* somebody else has edited the live tree

vars == <<writer, source, records, areas, call, answer, touched>>
journal == <<records, areas>>

Paths == IF writer = "proposal" THEN {1} ELSE 1..Files
Last == IF writer = "proposal" THEN 1 ELSE Files
Contents == {"original", "replacement", "foreign", "missing"}
Trees == [0..Files -> Contents]
Before == [p \in 0..Files |-> "original"]
After == [p \in 0..Files |-> IF p \in Paths THEN "replacement" ELSE "original"]

(* A record is absent, torn by an interrupted write, or whole.  The        *)
(* identities that records quote of each other are hashes of their         *)
(* contents, so they agree exactly when statuses do.                       *)
Terminal == {"undone", "recovered"}
Statuses == {"applied"} \union Terminal
Phases == {"prepared", "applying", "complete", "undoing"} \union Terminal
Broken == {"absent", "torn"}
Records == [directory: {"absent", "made"}, undoStage: {"absent", "made"},
            intent: Broken \union {"whole"},
            state: Broken \union Phases, stateTmp: Broken \union Phases,
            result: Broken \union Statuses, resultTmp: Broken \union Statuses]
Areas == {"backup", "stage", "undo", "recovery"}
Copies == Broken \union {"whole"}

Labels == {"idle", "intent", "backup", "stage", "prepare", "promote", "settle", "decide",
           "restage", "begin", "check", "swap", "verify", "record", "finish", "complete", "return"}
Operations == {"none", "apply", "undo", "recover"}
Calls == [op: Operations, at: Labels, path: 1..Files, expected: Trees, raced: BOOLEAN]
Idle == [op |-> "none", at |-> "idle", path |-> 1, expected |-> Before, raced |-> FALSE]
Answers == [op: Operations, what: Statuses \union {"none", "refused", "interrupted"}]
NoAnswer == [op |-> "none", what |-> "none"]

PhaseOf(status) == IF status = "applied" THEN "complete" ELSE status
\* What a call puts into a live file, where it keeps it and what it comes to.
Put == IF call.op = "apply" THEN "replacement" ELSE "original"
Staging == CASE call.op = "apply" -> "stage" [] call.op = "undo" -> "undo" [] OTHER -> "recovery"
Goal == IF call.op = "apply" THEN After ELSE Before
Outcome == CASE call.op = "apply" -> "applied" [] call.op = "undo" -> "undone"
             [] OTHER -> "recovered"

Init ==
    /\ writer \in {"proposal", "metadata"}
    /\ source = Before
    /\ records = [directory |-> "absent", undoStage |-> "absent", intent |-> "absent",
                  state |-> "absent", stateTmp |-> "absent",
                  result |-> "absent", resultTmp |-> "absent"]
    /\ areas = [a \in Areas |-> [p \in 1..Files |-> "absent"]]
    /\ call = Idle
    /\ answer = NoAnswer
    /\ touched = FALSE

-----------------------------------------------------------------------------
(* How a call goes on, and how it ends. *)

Goto(label) == call' = [call EXCEPT !.at = label] /\ UNCHANGED answer
Ends(what) == call' = Idle /\ answer' = [op |-> call.op, what |-> what]
Refused == Ends("refused") /\ UNCHANGED journal
Loop(label, next, seen) ==
    /\ call' = IF call.path < Last
                  THEN [call EXCEPT !.at = label, !.path = @ + 1, !.expected = seen]
                  ELSE [call EXCEPT !.at = next, !.path = 1, !.expected = seen]
    /\ UNCHANGED answer

(* An exclusive create, a write and an fsync: it succeeds as a whole, or   *)
(* the call stops and leaves a shorter file.                               *)
WriteRecord(name, value, next) ==
    \/ /\ records[name] = "absent"
       /\ \/ records' = [records EXCEPT ![name] = value] /\ Goto(next)
          \/ records' = [records EXCEPT ![name] = "torn"] /\ Ends("interrupted")
       /\ UNCHANGED areas
    \/ records[name] # "absent" /\ Refused

(* The temporary file is written, or taken over when it already holds this *)
(* very record; then it replaces the record.                               *)
ReplaceRecord(name, temporary, value, next) ==
    CASE records[temporary] = "absent" -> WriteRecord(temporary, value, call.at)
      [] records[temporary] = value ->
            /\ records' = [records EXCEPT ![name] = value, ![temporary] = "absent"]
            /\ Goto(next)
            /\ UNCHANGED areas
      [] OTHER -> Refused

Copied(area) == areas' = [areas EXCEPT ![area][call.path] = "whole"] /\ UNCHANGED records
CopyStops(area, left) ==
    areas' = [areas EXCEPT ![area][call.path] = left] /\ UNCHANGED records /\ Ends("interrupted")

At(label) == call.at = label /\ UNCHANGED <<writer, touched>>

-----------------------------------------------------------------------------
(* Apply. *)

Status_ByResult ==  \* fault: the phase is not asked
    IF records.intent # "whole" \/ records.result = "torn" THEN "refused"
    ELSE IF records.result \in Statuses THEN records.result ELSE "unknown"
Status ==
    IF records.intent # "whole" \/ records.result = "torn" \/ records.state = "torn" THEN "refused"
    ELSE IF records.result \in Statuses /\ records.state \in {"complete"} \union Terminal
           THEN IF records.state = PhaseOf(records.result) THEN records.result ELSE "refused"
           ELSE "unknown"

StartApply ==
    /\ At("idle") /\ records.directory = "absent" /\ source = Before
    /\ records' = [records EXCEPT !.directory = "made"]
    /\ call' = [Idle EXCEPT !.op = "apply", !.at = "intent"]
    /\ answer' = NoAnswer
    /\ UNCHANGED <<source, areas>>

\* The operation id has been used: its receipt, while the tree is still what it says.
ApplyAgain ==
    /\ At("idle") /\ records.directory = "made"
    /\ answer' = [op |-> "apply",
                  what |-> IF Status = "applied" /\ source = After THEN "applied" ELSE "refused"]
    /\ UNCHANGED <<source, journal, call>>

WriteIntent == At("intent") /\ WriteRecord("intent", "whole", "backup") /\ UNCHANGED source

BackUp_Unverified ==  \* fault: a copy that stops is passed over
    /\ At("backup")
    /\ \/ source[call.path] # "original" /\ Refused
       \/ source[call.path] = "original" /\ Copied("backup") /\ Goto("stage")
       \/ /\ source[call.path] = "original" /\ Goto("stage")
          /\ areas' = [areas EXCEPT !["backup"][call.path] = "torn"] /\ UNCHANGED records
    /\ UNCHANGED source
BackUp ==
    /\ At("backup")
    /\ \/ source[call.path] # "original" /\ Refused
       \/ source[call.path] = "original" /\ Copied("backup") /\ Goto("stage")
       \/ source[call.path] = "original" /\ CopyStops("backup", "torn")
    /\ UNCHANGED source

Stage ==
    /\ At("stage")
    /\ \/ Copied("stage") /\ Loop("backup", "prepare", call.expected)
       \/ CopyStops("stage", "torn")
    /\ UNCHANGED source

Prepare == At("prepare") /\ WriteRecord("state", "prepared", "begin") /\ UNCHANGED source

-----------------------------------------------------------------------------
(* Undo and recover. *)

StartRestore(op) ==
    /\ At("idle") /\ records.intent = "whole" /\ records.result # "torn"
    /\ call' = [Idle EXCEPT !.op = op, !.at = "promote"]
    /\ answer' = NoAnswer
    /\ UNCHANGED <<source, journal>>

\* May a whole state.json.tmp, left by an interrupted call, replace state.json?
ValidPending(state, pending, result) ==
    CASE pending = "applying" -> state = "prepared" /\ result = "absent"
      [] pending = "complete" -> state = "applying" /\ result = "applied" /\ source = After
      [] pending = "undoing" ->
            /\ state \in {"absent", "prepared", "applying", "complete", "undoing"}
            /\ result \in {"absent", "applied"}
            /\ state \in {"absent", "prepared"} => result = "absent"
            /\ state = "complete" => result = "applied"
      [] pending \in Terminal -> state = "undoing" /\ result = pending /\ source = Before
      [] OTHER -> FALSE

PromoteState ==
    /\ At("promote")
    /\ \/ records.stateTmp = "absent" /\ Goto("settle") /\ UNCHANGED journal
       \/ /\ ValidPending(records.state, records.stateTmp, records.result)
          /\ records' = [records EXCEPT !.state = records.stateTmp, !.stateTmp = "absent"]
          /\ Goto("settle")
          /\ UNCHANGED areas
       \/ /\ records.stateTmp # "absent"
          /\ ~ValidPending(records.state, records.stateTmp, records.result)
          /\ Refused
    /\ UNCHANGED source

ValidResult ==
    /\ records.resultTmp \in Terminal /\ records.result \in {"absent", "applied"}
    /\ records.state = "undoing" /\ source = Before

\* Undo of a proposal does not look at result.json.tmp.
Overlooks == call.op = "undo" /\ writer = "proposal"

PromoteResult ==
    /\ At("settle")
    /\ \/ /\ Overlooks \/ records.resultTmp = "absent"
          /\ Goto("decide")
          /\ UNCHANGED journal
       \/ /\ ~Overlooks /\ ValidResult
          /\ records' = [records EXCEPT !.result = records.resultTmp, !.resultTmp = "absent"]
          /\ Goto("finish")
          /\ UNCHANGED areas
       \/ ~Overlooks /\ records.resultTmp # "absent" /\ ~ValidResult /\ Refused
    /\ UNCHANGED source

\* Undo wants the tree exactly as apply left it; recover takes a file that is either way or gone.
Undoable == records.result = "applied" /\ source = After /\ records.undoStage = "absent"
Recoverable_Anything ==  \* fault: foreign bytes in a changed file are not looked for
    records.result \in {"absent", "applied"} /\ source[0] = "original"
Recoverable ==
    /\ records.result \in {"absent", "applied"} /\ source[0] = "original"
    /\ \A p \in Paths : areas["backup"][p] # "absent" /\ source[p] # "foreign"

Decide ==
    /\ At("decide")
    /\ \/ records.result \in Terminal /\ Goto("finish") /\ UNCHANGED journal
       \/ /\ call.op = "undo" /\ Undoable
          /\ records' = [records EXCEPT !.undoStage = "made"]
          /\ call' = [call EXCEPT !.at = "restage", !.expected = After]
          /\ UNCHANGED <<areas, answer>>
       \/ /\ call.op = "recover" /\ Recoverable
          /\ call' = [call EXCEPT !.at = "restage", !.expected = source]
          /\ UNCHANGED <<journal, answer>>
       \/ /\ records.result \notin Terminal
          /\ ~(IF call.op = "undo" THEN Undoable ELSE Recoverable)
          /\ Refused
    /\ UNCHANGED source

Restage_NoReuse ==  \* fault: a file staged by an earlier try is in the way
    /\ At("restage")
    /\ \/ areas[Staging][call.path] = "absent" /\ Copied(Staging)
             /\ Loop("restage", "begin", call.expected)
       \/ areas[Staging][call.path] # "absent" /\ Refused
    /\ UNCHANGED source
(* From the verified backup into the staging of the call.  Recovery keeps  *)
(* a good copy of an earlier try and removes a short one.                  *)
Restage ==
    /\ At("restage")
    /\ LET staged == areas[Staging][call.path]
           sealed == areas["backup"][call.path] = "whole"
       IN  \/ staged = "whole" /\ Loop("restage", "begin", call.expected) /\ UNCHANGED journal
           \/ staged # "whole" /\ sealed /\ Copied(Staging)
                /\ Loop("restage", "begin", call.expected)
           \/ staged # "whole" /\ sealed /\ CopyStops(Staging, "torn")
           \/ staged = "torn" /\ CopyStops(Staging, "absent")
           \/ staged # "whole" /\ ~sealed /\ Refused
    /\ UNCHANGED source

-----------------------------------------------------------------------------
(* What the three have in common: the phase is announced, each file is     *)
(* checked with the whole tree and replaced, the result is recorded, and   *)
(* the phase is closed.                                                    *)

Begin_Applying ==  \* fault: recovery announces itself as another application
    /\ At("begin")
    /\ ReplaceRecord("state", "stateTmp", IF call.op = "undo" THEN "undoing" ELSE "applying", "check")
    /\ UNCHANGED source
Begin ==
    /\ At("begin")
    /\ ReplaceRecord("state", "stateTmp", IF call.op = "apply" THEN "applying" ELSE "undoing", "check")
    /\ UNCHANGED source

\* Recovery passes over a file that is as it should be.
Check ==
    /\ At("check")
    /\ \/ source # call.expected /\ Refused
       \/ /\ source = call.expected /\ source[call.path] = Put
          /\ Loop("check", "verify", call.expected) /\ UNCHANGED journal
       \/ /\ source = call.expected /\ source[call.path] # Put
          /\ call' = [call EXCEPT !.at = "swap", !.raced = FALSE]
          /\ UNCHANGED <<journal, answer>>
    /\ UNCHANGED source

\* os.replace of a staged file; only recovery may put one where there is none.
Swappable ==
    /\ source[call.path] # "missing" \/ call.op = "recover"
    /\ areas[Staging][call.path] # "absent"
Swap ==
    /\ At("swap")
    /\ \/ ~Swappable /\ Refused /\ UNCHANGED source
       \/ /\ Swappable
          /\ source' = [source EXCEPT ![call.path] = Put]
          /\ areas' = [areas EXCEPT ![Staging][call.path] = "absent"]
          /\ Loop("check", "verify", [call.expected EXCEPT ![call.path] = Put])
          /\ UNCHANGED records

Verify ==
    /\ At("verify")
    /\ IF source = Goal THEN Goto("record") /\ UNCHANGED journal ELSE Refused
    /\ UNCHANGED source

Record ==
    /\ At("record")
    /\ IF call.op = "apply"
         THEN WriteRecord("result", Outcome, "complete")
         ELSE ReplaceRecord("result", "resultTmp", Outcome, "complete")
    /\ UNCHANGED source

Complete ==
    /\ At("complete")
    /\ ReplaceRecord("state", "stateTmp", PhaseOf(records.result), "return")
    /\ UNCHANGED source

Finish_NoPhase ==  \* fault: the receipt is returned, the phase stays open
    /\ At("finish")
    /\ IF source = Before THEN Goto("return") /\ UNCHANGED journal ELSE Refused
    /\ UNCHANGED source
\* A terminal result is there already: only the phase may be left to close.
Finish ==
    /\ At("finish")
    /\ \/ source = Before /\ records.state = "undoing" /\ Goto("complete") /\ UNCHANGED journal
       \/ source = Before /\ records.state = records.result /\ Goto("return") /\ UNCHANGED journal
       \/ ~(source = Before /\ records.state \in {"undoing", records.result}) /\ Refused
    /\ UNCHANGED source

Return == At("return") /\ Ends(records.result) /\ UNCHANGED <<source, journal>>

-----------------------------------------------------------------------------
(* The world: a permission is revoked, an I/O call fails or the process    *)
(* dies between two steps; people edit, delete and restore live files.     *)

Interrupt ==
    /\ call.op # "none"
    /\ Ends("interrupted")
    /\ UNCHANGED <<writer, source, journal, touched>>

Edit(p, content) ==
    /\ records.directory = "made"
    /\ p = 0 => content \in {"original", "foreign"}
    /\ source[p] # content
    /\ source' = [source EXCEPT ![p] = content]
    /\ touched' = TRUE
    /\ call' = [call EXCEPT !.raced = call.op # "none"]
    /\ UNCHANGED <<writer, journal, answer>>

Advance ==
    \/ WriteIntent \/ BackUp \/ Stage \/ Prepare
    \/ PromoteState \/ PromoteResult \/ Decide \/ Restage
    \/ Begin \/ Check \/ Swap \/ Verify \/ Record \/ Complete \/ Finish \/ Return

Next ==
    \/ StartApply \/ ApplyAgain \/ StartRestore("undo") \/ StartRestore("recover")
    \/ Advance \/ Interrupt
    \/ \E p \in Paths \union {0}, content \in Contents : Edit(p, content)

Spec == Init /\ [][Next]_vars

\* A call that runs goes on, and the operator asks for recovery again and again.
FairSpec == Spec /\ WF_vars(Advance) /\ SF_vars(StartRestore("recover"))

-----------------------------------------------------------------------------
TypeOK ==
    /\ writer \in {"proposal", "metadata"}
    /\ source \in Trees
    /\ records \in Records
    /\ areas \in [Areas -> [1..Files -> Copies]]
    /\ call \in Calls
    /\ answer \in Answers
    /\ touched \in BOOLEAN

Quiet == call.op = "none"

(* Bytes that are neither the original nor the replacement are lost to a   *)
(* writer only when somebody put them there between its last look at the   *)
(* whole tree and its os.replace (_source_rows before each os.replace).    *)
OthersBytesKept ==
    [][\A p \in Paths : source[p] = "foreign" /\ source'[p] = Put /\ Swap => call.raced]_vars

(* However calls are interrupted, a file that nobody else has touched is   *)
(* the original, or a sealed intent and a whole backup of it exist.        *)
OriginalSurvives ==
    ~touched => \A p \in Paths :
        source[p] # "original" => records.intent = "whole" /\ areas["backup"][p] = "whole"

(* get_live_status: a confirmed outcome is true of all files at once while *)
(* nobody else has touched them, the two records never contradict each     *)
(* other (the "terminal state differs from result" refusal of whole        *)
(* records is unreachable), and it says what the last call has returned.   *)
StatusIsTrue ==
    Quiet =>
        /\ Status = "applied" /\ ~touched => source = After
        /\ Status \in Terminal /\ ~touched => source = Before
        /\ Status = "refused" => "torn" \in {records.state, records.result} \/ records.intent # "whole"
        /\ answer.what \in Statuses => Status = answer.what

(* A restoration, once announced, is never turned back: no later call puts *)
(* the replacement into a file or reports it applied ("never replays the   *)
(* proposal", docs/superpowers/specs/2026-09-15-live-designer-xml-apply-   *)
(* design.md:24).                                                          *)
NeverReplayed ==
    [][records.state \in {"undoing"} \union Terminal =>
        /\ records'.state \in {"undoing"} \union Terminal
        /\ Swap /\ source' # source => source'[call.path] = "original"]_vars

(* Nobody else has touched the files and the journal is whole, but for a   *)
(* torn state.json that no pending state waits to replace.                 *)
Repairable ==
    /\ ~touched /\ records.intent = "whole"
    /\ \A p \in Paths : areas["backup"][p] = "whole"
    /\ "torn" \notin {records.stateTmp, records.result, records.resultTmp}
    /\ records.state = "torn" => records.stateTmp = "absent"
Settled == records.result \in Terminal /\ records.state = records.result /\ source = Before

(* Recovery of a repairable operation is never refused, whichever calls    *)
(* were interrupted at which steps before.                                 *)
RecoveryIsAccepted == Quiet /\ Repairable /\ answer.op = "recover" => answer.what # "refused"

(* Once interruptions cease, a repairable operation gets back to the       *)
(* original files and a terminal result.                                   *)
Recovers == <>[](answer.what # "interrupted") => (Repairable ~> (Settled \/ ~Repairable))
=============================================================================
