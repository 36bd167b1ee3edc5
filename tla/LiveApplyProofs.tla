---------------------------- MODULE LiveApplyProofs ----------------------------
(***************************************************************************)
(* The live writers keep their types, the original of every file they      *)
(* replace, the bytes of others and the direction of a restoration; what   *)
(* they tell is true, and recovery goes through.  For any number of files. *)
(***************************************************************************)
EXTENDS LiveApply, TLAPS

(* Where the calls can be, and what the end of one relies on. *)
Restoring == {"undo", "recover"}
ApplyAt == {"intent", "backup", "stage", "prepare", "begin", "check", "swap", "verify", "record",
            "complete", "return"}
RestoreAt == {"promote", "settle", "decide", "restage", "begin", "check", "swap", "verify",
              "record", "finish", "complete", "return"}
Placed ==
    /\ call.op = "none" <=> call.at = "idle"
    /\ call.op = "apply" => call.at \in ApplyAt
    /\ call.op \in Restoring => call.at \in RestoreAt
    /\ call.path \in Paths
Resulted ==
    /\ call.op = "apply" /\ call.at \in {"complete", "return"} => records.result = "applied"
    /\ call.op \in Restoring /\ call.at \in {"finish", "complete", "return"} =>
          records.result \in Terminal
TypeInv == TypeOK /\ Placed /\ Resulted

LEMMA IdleTyped == Before \in Trees /\ Idle \in Calls
<1>1. Before \in Trees  BY DEF Before, Trees, Contents
<1> QED  BY <1>1, FilesAssumption DEF Idle, Calls, Operations, Labels

(* How a call moves on keeps a call a call. *)
LEMMA GotoType ==
    ASSUME TypeOK, NEW label \in Labels, Goto(label)
    PROVE  call' \in Calls /\ answer' \in Answers
BY DEF TypeOK, Goto, Calls

LEMMA EndsType ==
    ASSUME TypeOK, NEW what \in Statuses \union {"none", "refused", "interrupted"}, Ends(what)
    PROVE  call' \in Calls /\ answer' \in Answers
BY IdleTyped DEF TypeOK, Ends, Calls, Answers

LEMMA LoopType ==
    ASSUME TypeOK, NEW label \in Labels, NEW next \in Labels, NEW seen \in Trees,
           Loop(label, next, seen)
    PROVE  call' \in Calls /\ answer' \in Answers
<1>1. Last \in Nat /\ Last <= Files  BY FilesAssumption DEF Last
<1>2. call.path \in 1..Files  BY DEF TypeOK, Calls
<1>3. CASE call.path < Last
  <2>1. call' = [call EXCEPT !.at = label, !.path = @ + 1, !.expected = seen]  BY <1>3 DEF Loop
  <2>2. call.path + 1 \in 1..Files  BY <1>1, <1>2, <1>3, FilesAssumption
  <2> QED  BY <2>1, <2>2 DEF TypeOK, Calls, Loop
<1>4. CASE ~(call.path < Last)
  <2>1. call' = [call EXCEPT !.at = next, !.path = 1, !.expected = seen]  BY <1>4 DEF Loop
  <2>2. 1 \in 1..Files  BY FilesAssumption
  <2> QED  BY <2>1, <2>2 DEF TypeOK, Calls, Loop
<1> QED  BY <1>3, <1>4
(* What they leave of the place: a call that has ended is idle. *)
LEMMA EndsPlaced ==
    ASSUME NEW what, Ends(what), writer' = writer
    PROVE  Placed' /\ Resulted'
BY FilesAssumption DEF Ends, Idle, Placed, Resulted, Restoring, Paths

LEMMA GotoPlaced ==
    ASSUME TypeInv, writer' = writer, NEW label, Goto(label), label # "idle", call.op # "none",
           call.op = "apply" => label \in ApplyAt, call.op \in Restoring => label \in RestoreAt
    PROVE  Placed'
BY DEF Goto, Placed, TypeInv, TypeOK, Calls, Paths

LEMMA LoopPlaced ==
    ASSUME TypeInv, writer' = writer, NEW label, NEW next, NEW seen, Loop(label, next, seen),
           call.op # "none", "idle" \notin {label, next},
           call.op = "apply" => {label, next} \subseteq ApplyAt,
           call.op \in Restoring => {label, next} \subseteq RestoreAt
    PROVE  Placed'
<1> USE FilesAssumption
<1>1. call.path \in Paths /\ call \in Calls  BY DEF TypeInv, TypeOK, Placed
<1>2. CASE call.path < Last
  <2>1. call' = [call EXCEPT !.at = label, !.path = @ + 1, !.expected = seen]  BY <1>2 DEF Loop
  <2>2. call.path + 1 \in Paths  BY <1>1, <1>2 DEF Paths, Last
  <2> QED  BY <2>1, <2>2, <1>1 DEF Placed, Calls, Paths
<1>3. CASE ~(call.path < Last)
  <2>1. call' = [call EXCEPT !.at = next, !.path = 1, !.expected = seen]  BY <1>3 DEF Loop
  <2>2. 1 \in Paths  BY DEF Paths
  <2> QED  BY <2>1, <2>2, <1>1 DEF Placed, Calls, Paths
<1> QED  BY <1>2, <1>3

(* What writing a record changes: the one record, as a whole or torn. *)
Names == {"intent", "state", "stateTmp", "result", "resultTmp"}
ValuesOf(name) ==
    CASE name = "intent" -> {"whole"}
      [] name \in {"state", "stateTmp"} -> Phases
      [] OTHER -> Statuses

LEMMA WriteType ==
    ASSUME TypeOK, NEW name \in Names, NEW value \in ValuesOf(name), NEW next,
           WriteRecord(name, value, next)
    PROVE  records' \in Records /\ areas' \in [Areas -> [1..Files -> Copies]]
<1>1. CASE records' = [records EXCEPT ![name] = value] /\ UNCHANGED areas
  BY <1>1 DEF TypeOK, Names, ValuesOf, Records, Broken
<1>2. CASE records' = [records EXCEPT ![name] = "torn"] /\ UNCHANGED areas
  BY <1>2 DEF TypeOK, Names, ValuesOf, Records, Broken
<1>3. CASE UNCHANGED journal
  BY <1>3 DEF TypeOK, journal
<1> QED  BY <1>1, <1>2, <1>3 DEF WriteRecord, Refused

LEMMA ReplaceType ==
    ASSUME TypeOK, NEW name \in {"state", "result"}, NEW temporary \in {"stateTmp", "resultTmp"},
           temporary = IF name = "state" THEN "stateTmp" ELSE "resultTmp",
           NEW value \in ValuesOf(name), NEW next, ReplaceRecord(name, temporary, value, next)
    PROVE  records' \in Records /\ areas' \in [Areas -> [1..Files -> Copies]]
<1>1. CASE WriteRecord(temporary, value, call.at)
  <2>1. temporary \in Names /\ value \in ValuesOf(temporary)  BY DEF Names, ValuesOf
  <2> QED  BY <1>1, <2>1, WriteType
<1>2. CASE /\ records' = [records EXCEPT ![name] = value, ![temporary] = "absent"]
           /\ UNCHANGED areas
  BY <1>2 DEF TypeOK, ValuesOf, Records, Broken
<1>3. CASE UNCHANGED journal
  BY <1>3 DEF TypeOK, journal
<1> QED  BY <1>1, <1>2, <1>3 DEF ReplaceRecord, Refused
LEMMA WriteSteps ==
    ASSUME NEW name, NEW value, NEW next, WriteRecord(name, value, next)
    PROVE  \/ Goto(next) /\ records' = [records EXCEPT ![name] = value]
           \/ Ends("interrupted")
           \/ Ends("refused")
BY DEF WriteRecord, Refused

LEMMA ReplaceSteps ==
    ASSUME NEW name, NEW temporary, NEW value, NEW next, ReplaceRecord(name, temporary, value, next)
    PROVE  \/ Goto(call.at) /\ records' = [records EXCEPT ![temporary] = value]
           \/ /\ Goto(next)
              /\ records' = [records EXCEPT ![name] = value, ![temporary] = "absent"]
           \/ Ends("interrupted")
           \/ Ends("refused")
BY WriteSteps DEF ReplaceRecord, Refused

(* The part of a step that every action shares. *)
Framed == writer' = writer /\ touched' = touched
CallTyped == call' \in Calls /\ answer' \in Answers
JournalTyped == records' \in Records /\ areas' \in [Areas -> [1..Files -> Copies]]

LEMMA Ended ==
    ASSUME TypeInv, Framed, Ends("refused") \/ Ends("interrupted")
    PROVE  CallTyped /\ Placed' /\ Resulted'
BY EndsType, EndsPlaced DEF Framed, CallTyped, TypeInv

LEMMA Gone ==
    ASSUME TypeInv, Framed, call.op # "none", NEW label, Goto(label), label # "idle",
           call.op = "apply" => label \in ApplyAt, call.op \in Restoring => label \in RestoreAt
    PROVE  CallTyped /\ Placed' /\ call' = [call EXCEPT !.at = label]
<1>1. label \in Labels  BY DEF TypeInv, TypeOK, Calls, Operations, Restoring, ApplyAt, RestoreAt, Labels
<1> QED  BY <1>1, GotoType, GotoPlaced DEF Framed, CallTyped, TypeInv, Goto

LEMMA Looped ==
    ASSUME TypeInv, Framed, NEW label \in Labels, NEW next \in Labels, NEW seen \in Trees,
           Loop(label, next, seen), call.op # "none", "idle" \notin {label, next},
           call.op = "apply" => {label, next} \subseteq ApplyAt,
           call.op \in Restoring => {label, next} \subseteq RestoreAt
    PROVE  /\ CallTyped /\ Placed'
           /\ call'.op = call.op /\ call'.at \in {label, next}
<1>1. CallTyped  BY LoopType DEF CallTyped, TypeInv
<1>2. Placed'  BY LoopPlaced DEF Framed
<1>3. call'.op = call.op /\ call'.at \in {label, next}
  BY DEF Loop, TypeInv, TypeOK, Calls
<1> QED  BY <1>1, <1>2, <1>3

LEMMA TypeInvSplit ==
    ASSUME Framed, TypeInv, source' \in Trees, CallTyped, JournalTyped, Placed', Resulted'
    PROVE  TypeInv'
BY DEF Framed, TypeInv, TypeOK, CallTyped, JournalTyped

-----------------------------------------------------------------------------
LEMMA InitTyped == Init => TypeInv
<1> SUFFICES ASSUME Init PROVE TypeInv  OBVIOUS
<1> USE FilesAssumption
<1>3. TypeOK
  BY IdleTyped DEF Init, TypeOK, Records, Broken, Areas, Copies, Answers, NoAnswer, Operations
<1>4. Placed /\ Resulted  BY DEF Init, Idle, Placed, Resulted, Paths, Restoring
<1> QED  BY <1>3, <1>4 DEF TypeInv

LEMMA StartApplyTyped == TypeInv /\ StartApply => TypeInv'
<1> SUFFICES ASSUME TypeInv, StartApply PROVE TypeInv'  OBVIOUS
<1> USE FilesAssumption
<1>1. Framed /\ source' = source /\ areas' = areas  BY DEF StartApply, At, Framed
<1>2. call' = [Idle EXCEPT !.op = "apply", !.at = "intent"]  BY DEF StartApply
<1>3. call' \in Calls
  BY <1>2, IdleTyped DEF Calls, Operations, Labels
<1>4. CallTyped
  BY <1>3 DEF StartApply, CallTyped, Answers, NoAnswer, Operations
<1>5. JournalTyped  BY <1>1 DEF StartApply, JournalTyped, TypeInv, TypeOK, Records
<1>6. Placed' /\ Resulted'
  BY <1>1, <1>2 DEF Idle, Framed, Placed, Resulted, Paths, ApplyAt, Restoring
<1> QED  BY <1>1, <1>4, <1>5, <1>6, TypeInvSplit DEF TypeInv, TypeOK

LEMMA StartRestoreTyped ==
    ASSUME TypeInv, NEW op \in Restoring, StartRestore(op)
    PROVE  TypeInv'
<1> USE FilesAssumption
<1>1. Framed /\ UNCHANGED <<source, records, areas>>  BY DEF StartRestore, At, Framed, journal
<1>2. call' = [Idle EXCEPT !.op = op, !.at = "promote"]  BY DEF StartRestore
<1>3. call' \in Calls
  BY <1>2, IdleTyped DEF Calls, Operations, Labels, Restoring
<1>4. CallTyped
  BY <1>3 DEF StartRestore, CallTyped, Answers, NoAnswer, Operations
<1>5. JournalTyped  BY <1>1 DEF JournalTyped, TypeInv, TypeOK
<1>6. Placed' /\ Resulted'
  BY <1>1, <1>2 DEF Idle, Framed, Placed, Resulted, Paths, RestoreAt, Restoring
<1> QED  BY <1>1, <1>4, <1>5, <1>6, TypeInvSplit DEF TypeInv, TypeOK

LEMMA ApplyAgainTyped == TypeInv /\ ApplyAgain => TypeInv'
BY DEF ApplyAgain, At, journal, TypeInv, TypeOK, Placed, Resulted, Paths, Answers, Operations, Statuses
-----------------------------------------------------------------------------
(* The steps of a call, one by one. *)

\* At a label other than idle a call runs, with the operations that pass there.
LEMMA Runs ==
    ASSUME TypeInv, NEW label, At(label), label # "idle"
    PROVE  /\ Framed /\ call.op \in {"apply"} \union Restoring
           /\ label \notin RestoreAt => call.op = "apply"
           /\ label \notin ApplyAt => call.op \in Restoring
BY DEF At, Framed, TypeInv, TypeOK, Calls, Operations, Placed, Restoring

LEMMA WriteTyped ==
    ASSUME TypeInv, Framed, source' = source, call.op \in {"apply"} \union Restoring,
           NEW name \in Names, NEW value \in ValuesOf(name), NEW next, WriteRecord(name, value, next),
           next \notin {"idle", "finish", "complete", "return"},
           call.op = "apply" => next \in ApplyAt, call.op \in Restoring => next \in RestoreAt
    PROVE  TypeInv'
<1>1. JournalTyped  BY WriteType DEF JournalTyped, TypeInv
<1>2. source' \in Trees  BY DEF TypeInv, TypeOK
<1>3. CASE Goto(next)
  <2>1. CallTyped /\ Placed' /\ call' = [call EXCEPT !.at = next]  BY <1>3, Gone DEF Restoring
  <2>2. Resulted'  BY <2>1 DEF Resulted, TypeInv, TypeOK, Calls
  <2> QED  BY <1>1, <1>2, <2>1, <2>2, TypeInvSplit
<1>4. CASE Ends("interrupted") \/ Ends("refused")
  BY <1>1, <1>2, <1>4, Ended, TypeInvSplit
<1> QED  BY <1>3, <1>4, WriteSteps

LEMMA WriteIntentTyped == TypeInv /\ WriteIntent => TypeInv'
<1> SUFFICES ASSUME TypeInv, WriteIntent PROVE TypeInv'  OBVIOUS
<1>1. Framed /\ call.op = "apply"  BY Runs DEF WriteIntent, RestoreAt
<1> QED  BY <1>1, WriteTyped DEF WriteIntent, Names, ValuesOf, ApplyAt, Restoring

LEMMA PrepareTyped == TypeInv /\ Prepare => TypeInv'
<1> SUFFICES ASSUME TypeInv, Prepare PROVE TypeInv'  OBVIOUS
<1>1. Framed /\ call.op = "apply"  BY Runs DEF Prepare, RestoreAt
<1> QED  BY <1>1, WriteTyped DEF Prepare, Names, ValuesOf, Phases, ApplyAt, Restoring

LEMMA CopyTyped ==
    ASSUME TypeInv, NEW area \in Areas,
           Copied(area) \/ (\E left \in Broken : CopyStops(area, left))
    PROVE  JournalTyped
<1> SUFFICES ASSUME NEW left \in Copies,
                    areas' = [areas EXCEPT ![area][call.path] = left], records' = records
             PROVE  JournalTyped
  BY DEF Copied, CopyStops, Copies
<1> QED  BY DEF JournalTyped, TypeInv, TypeOK, Calls

LEMMA BackUpTyped == TypeInv /\ BackUp => TypeInv'
<1> SUFFICES ASSUME TypeInv, BackUp PROVE TypeInv'  OBVIOUS
<1>1. Framed /\ call.op = "apply"  BY Runs DEF BackUp, RestoreAt
<1>2. source' \in Trees  BY DEF BackUp, TypeInv, TypeOK
<1>3. CASE Refused
  BY <1>1, <1>2, <1>3, Ended, TypeInvSplit DEF Refused, journal, JournalTyped, TypeInv, TypeOK
<1>4. CASE Copied("backup") /\ Goto("stage")
  <2>1. CallTyped /\ Placed' /\ call' = [call EXCEPT !.at = "stage"]
    BY <1>1, <1>4, Gone DEF ApplyAt, Restoring
  <2>2. Resulted'  BY <2>1 DEF Resulted, TypeInv, TypeOK, Calls
  <2> QED  BY <1>1, <1>2, <1>4, <2>1, <2>2, CopyTyped, TypeInvSplit DEF Areas
<1>5. CASE CopyStops("backup", "torn")
  BY <1>1, <1>2, <1>5, CopyTyped, Ended, TypeInvSplit DEF CopyStops, Areas, Broken
<1> QED  BY <1>3, <1>4, <1>5 DEF BackUp

LEMMA StageTyped == TypeInv /\ Stage => TypeInv'
<1> SUFFICES ASSUME TypeInv, Stage PROVE TypeInv'  OBVIOUS
<1>1. Framed /\ call.op = "apply"  BY Runs DEF Stage, RestoreAt
<1>2. source' \in Trees /\ call.expected \in Trees  BY DEF Stage, TypeInv, TypeOK, Calls
<1>3. CASE Copied("stage") /\ Loop("backup", "prepare", call.expected)
  <2>1. CallTyped /\ Placed' /\ call'.op = call.op /\ call'.at \in {"backup", "prepare"}
    BY <1>1, <1>2, <1>3, Looped DEF ApplyAt, Restoring, Labels
  <2>2. Resulted'  BY <1>1, <2>1 DEF Resulted, Restoring
  <2> QED  BY <1>1, <1>2, <1>3, <2>1, <2>2, CopyTyped, TypeInvSplit DEF Areas
<1>4. CASE CopyStops("stage", "torn")
  BY <1>1, <1>2, <1>4, CopyTyped, Ended, TypeInvSplit DEF CopyStops, Areas, Broken
<1> QED  BY <1>3, <1>4 DEF Stage
LEMMA RefusedTyped ==
    ASSUME TypeInv, Framed, Refused, source' = source
    PROVE  TypeInv'
BY Ended, TypeInvSplit DEF Refused, journal, JournalTyped, TypeInv, TypeOK

\* A call goes on without touching the journal, or with one record promoted.
LEMMA GoneTyped ==
    ASSUME TypeInv, Framed, source' = source, JournalTyped, call.op # "none", NEW label,
           Goto(label), label # "idle",
           call.op = "apply" => label \in ApplyAt, call.op \in Restoring => label \in RestoreAt,
           label \in {"complete", "return"} /\ call.op = "apply" => records'.result = "applied",
           label \in {"finish", "complete", "return"} /\ call.op \in Restoring =>
               records'.result \in Terminal
    PROVE  TypeInv'
<1>1. CallTyped /\ Placed' /\ call' = [call EXCEPT !.at = label]  BY Gone
<1>2. Resulted'  BY <1>1 DEF Resulted, TypeInv, TypeOK, Calls
<1> QED  BY <1>1, <1>2, TypeInvSplit DEF TypeInv, TypeOK

LEMMA PromoteStateTyped == TypeInv /\ PromoteState => TypeInv'
<1> SUFFICES ASSUME TypeInv, PromoteState PROVE TypeInv'  OBVIOUS
<1>1. Framed /\ call.op \in Restoring /\ source' = source
  BY Runs DEF PromoteState, ApplyAt
<1>2. CASE Goto("settle") /\ UNCHANGED journal
  <2>1. JournalTyped  BY <1>2 DEF journal, JournalTyped, TypeInv, TypeOK
  <2> QED  BY <1>1, <1>2, <2>1, GoneTyped DEF RestoreAt, Restoring
<1>3. CASE /\ records' = [records EXCEPT !.state = records.stateTmp, !.stateTmp = "absent"]
           /\ Goto("settle") /\ UNCHANGED areas
  <2>1. JournalTyped  BY <1>3 DEF JournalTyped, TypeInv, TypeOK, Records, Broken
  <2> QED  BY <1>1, <1>3, <2>1, GoneTyped DEF RestoreAt, Restoring
<1>4. CASE Refused
  BY <1>1, <1>4, RefusedTyped
<1> QED  BY <1>2, <1>3, <1>4 DEF PromoteState

LEMMA PromoteResultTyped == TypeInv /\ PromoteResult => TypeInv'
<1> SUFFICES ASSUME TypeInv, PromoteResult PROVE TypeInv'  OBVIOUS
<1>1. Framed /\ call.op \in Restoring /\ source' = source
  BY Runs DEF PromoteResult, ApplyAt
<1>2. CASE Goto("decide") /\ UNCHANGED journal
  <2>1. JournalTyped  BY <1>2 DEF journal, JournalTyped, TypeInv, TypeOK
  <2> QED  BY <1>1, <1>2, <2>1, GoneTyped DEF RestoreAt, Restoring
<1>3. CASE /\ ValidResult
           /\ records' = [records EXCEPT !.result = records.resultTmp, !.resultTmp = "absent"]
           /\ Goto("finish") /\ UNCHANGED areas
  <2>1. JournalTyped /\ records'.result \in Terminal
    BY <1>3 DEF ValidResult, JournalTyped, TypeInv, TypeOK, Records, Broken
  <2> QED  BY <1>1, <1>3, <2>1, GoneTyped DEF RestoreAt, Restoring
<1>4. CASE Refused
  BY <1>1, <1>4, RefusedTyped
<1> QED  BY <1>2, <1>3, <1>4 DEF PromoteResult

LEMMA DecideTyped == TypeInv /\ Decide => TypeInv'
<1> SUFFICES ASSUME TypeInv, Decide PROVE TypeInv'  OBVIOUS
<1>1. Framed /\ call.op \in Restoring /\ source' = source
  BY Runs DEF Decide, ApplyAt
<1>2. CASE records.result \in Terminal /\ Goto("finish") /\ UNCHANGED journal
  <2>1. JournalTyped /\ records'.result \in Terminal
    BY <1>2 DEF journal, JournalTyped, TypeInv, TypeOK
  <2> QED  BY <1>1, <1>2, <2>1, GoneTyped DEF RestoreAt, Restoring
<1>3. CASE /\ JournalTyped /\ answer' = answer
           /\ \E seen \in Trees : call' = [call EXCEPT !.at = "restage", !.expected = seen]
  <2>1. CallTyped  BY <1>3 DEF CallTyped, TypeInv, TypeOK, Calls, Labels
  <2>2. Placed' /\ Resulted'
    BY <1>1, <1>3 DEF Framed, Placed, Resulted, TypeInv, TypeOK, Calls, Paths, RestoreAt, Restoring
  <2> QED  BY <1>1, <1>3, <2>1, <2>2, TypeInvSplit DEF TypeInv, TypeOK
<1>4. CASE Refused
  BY <1>1, <1>4, RefusedTyped
<1>5. After \in Trees /\ source \in Trees  BY DEF After, Trees, Contents, TypeInv, TypeOK
<1>6. UNCHANGED journal => JournalTyped  BY DEF journal, JournalTyped, TypeInv, TypeOK
<1>7. records' = [records EXCEPT !.undoStage = "made"] /\ areas' = areas => JournalTyped
  BY DEF JournalTyped, TypeInv, TypeOK, Records
<1> QED  BY <1>2, <1>3, <1>4, <1>5, <1>6, <1>7 DEF Decide

LEMMA LoopedTyped ==
    ASSUME TypeInv, Framed, source' \in Trees, JournalTyped, NEW label \in Labels,
           NEW next \in Labels, NEW seen \in Trees, Loop(label, next, seen),
           call.op \in {"apply"} \union Restoring,
           {label, next} \intersect {"idle", "finish", "complete", "return"} = {},
           call.op = "apply" => {label, next} \subseteq ApplyAt,
           call.op \in Restoring => {label, next} \subseteq RestoreAt
    PROVE  TypeInv'
<1>1. /\ CallTyped /\ Placed'
      /\ call'.op = call.op /\ call'.at \in {label, next}
  BY Looped DEF Restoring
<1>2. Resulted'  BY <1>1 DEF Resulted
<1> QED  BY <1>1, <1>2, TypeInvSplit

LEMMA RestageTyped == TypeInv /\ Restage => TypeInv'
<1> SUFFICES ASSUME TypeInv, Restage PROVE TypeInv'  OBVIOUS
<1>1. Framed /\ call.op \in Restoring /\ source' = source
  BY Runs DEF Restage, ApplyAt
<1>2. source' \in Trees /\ call.expected \in Trees /\ Staging \in Areas
  BY <1>1 DEF TypeInv, TypeOK, Calls, Staging, Areas
<1>3. CASE Loop("restage", "begin", call.expected) /\ (UNCHANGED journal \/ Copied(Staging))
  <2>1. JournalTyped
    BY <1>2, <1>3, CopyTyped DEF journal, JournalTyped, TypeInv, TypeOK
  <2> QED  BY <1>1, <1>2, <1>3, <2>1, LoopedTyped DEF RestoreAt, Restoring, Labels
<1>4. CASE \E left \in Broken : CopyStops(Staging, left)
  BY <1>1, <1>2, <1>4, CopyTyped, Ended, TypeInvSplit DEF CopyStops
<1>5. CASE Refused
  BY <1>1, <1>5, RefusedTyped
<1> QED  BY <1>3, <1>4, <1>5 DEF Restage, Broken
LEMMA ReplaceTyped ==
    ASSUME TypeInv, Framed, source' = source, call.op \in {"apply"} \union Restoring,
           NEW name \in {"state", "result"}, NEW temporary \in {"stateTmp", "resultTmp"},
           temporary = IF name = "state" THEN "stateTmp" ELSE "resultTmp",
           NEW value \in ValuesOf(name), NEW next \in {"check", "complete", "return"},
           next \in {"complete", "return"} /\ call.op = "apply" =>
               records.result = "applied" /\ name = "state",
           next \in {"complete", "return"} /\ call.op \in Restoring =>
               IF name = "result" THEN value \in Terminal ELSE records.result \in Terminal,
           ReplaceRecord(name, temporary, value, next)
    PROVE  TypeInv'
<1>1. JournalTyped  BY ReplaceType DEF JournalTyped, TypeInv
<1>2. CASE Goto(call.at) /\ records' = [records EXCEPT ![temporary] = value]
  <2>1. /\ call.at # "idle"
        /\ call.op = "apply" => call.at \in ApplyAt
        /\ call.op \in Restoring => call.at \in RestoreAt
    BY DEF TypeInv, Placed, Restoring
  <2>2. records'.result = records.result  BY <1>2 DEF TypeInv, TypeOK, Records
  <2>3. TypeInv'
    BY <1>1, <1>2, <2>1, <2>2, GoneTyped DEF TypeInv, Resulted, Restoring
  <2> QED  BY <2>3
<1>3. CASE Goto(next) /\ records' = [records EXCEPT ![name] = value, ![temporary] = "absent"]
  <2>1. records'.result = IF name = "result" THEN value ELSE records.result
    BY <1>3 DEF TypeInv, TypeOK, Records
  <2> QED  BY <1>1, <1>3, <2>1, GoneTyped DEF ApplyAt, RestoreAt, Restoring
<1>4. CASE Ends("interrupted") \/ Ends("refused")
  BY <1>1, <1>4, Ended, TypeInvSplit DEF TypeInv, TypeOK
<1> QED  BY <1>2, <1>3, <1>4, ReplaceSteps

LEMMA BeginTyped == TypeInv /\ Begin => TypeInv'
<1> SUFFICES ASSUME TypeInv, Begin PROVE TypeInv'  OBVIOUS
<1>1. Framed /\ call.op \in {"apply"} \union Restoring /\ source' = source
  BY Runs DEF Begin
<1>2. PICK phase : phase = IF call.op = "apply" THEN "applying" ELSE "undoing"  OBVIOUS
<1>3. phase \in ValuesOf("state")  BY <1>2 DEF ValuesOf, Phases
<1>4. ReplaceRecord("state", "stateTmp", phase, "check")  BY <1>2 DEF Begin
<1> QED  BY <1>1, <1>3, <1>4, ReplaceTyped

LEMMA RecordTyped == TypeInv /\ Record => TypeInv'
<1> SUFFICES ASSUME TypeInv, Record PROVE TypeInv'  OBVIOUS
<1>1. Framed /\ call.op \in {"apply"} \union Restoring /\ source' = source
  BY Runs DEF Record
<1>2. Outcome \in Statuses /\ (call.op \in Restoring => Outcome \in Terminal)
  BY <1>1 DEF Outcome, Statuses, Terminal, Restoring
<1>3. CASE call.op = "apply"
  <2>1. WriteRecord("result", "applied", "complete")  BY <1>3 DEF Record, Outcome
  <2>2. JournalTyped  BY <2>1, WriteType DEF JournalTyped, TypeInv, Names, ValuesOf, Statuses
  <2>3. CASE Goto("complete") /\ records' = [records EXCEPT !["result"] = "applied"]
    <3>1. records'.result = "applied"  BY <2>3 DEF TypeInv, TypeOK, Records
    <3> QED  BY <1>1, <1>3, <2>2, <2>3, <3>1, GoneTyped DEF ApplyAt, Restoring
  <2>4. CASE Ends("interrupted") \/ Ends("refused")
    BY <1>1, <2>2, <2>4, Ended, TypeInvSplit DEF TypeInv, TypeOK
  <2> QED  BY <2>1, <2>3, <2>4, WriteSteps
<1>4. CASE call.op \in Restoring
  <2>1. ReplaceRecord("result", "resultTmp", Outcome, "complete")  BY <1>4 DEF Record, Restoring
  <2>2. PICK status : status = Outcome  OBVIOUS
  <2>3. status \in ValuesOf("result") /\ status \in Terminal  BY <1>2, <1>4, <2>2 DEF ValuesOf
  <2>4. call.op # "apply"  BY <1>4 DEF Restoring
  <2> QED  BY <1>1, <2>1, <2>2, <2>3, <2>4, ReplaceTyped
<1> QED  BY <1>1, <1>3, <1>4

LEMMA CompleteTyped == TypeInv /\ Complete => TypeInv'
<1> SUFFICES ASSUME TypeInv, Complete PROVE TypeInv'  OBVIOUS
<1>1. Framed /\ call.op \in {"apply"} \union Restoring /\ source' = source
  BY Runs DEF Complete
<1>2. /\ call.op = "apply" => records.result = "applied"
      /\ call.op \in Restoring => records.result \in Terminal
  BY DEF Complete, At, TypeInv, Resulted
<1>3. PICK phase : phase = PhaseOf(records.result)  OBVIOUS
<1>4. phase \in ValuesOf("state")
  BY <1>1, <1>2, <1>3 DEF PhaseOf, ValuesOf, Phases, Terminal
<1>5. ReplaceRecord("state", "stateTmp", phase, "return")  BY <1>3 DEF Complete
<1> QED  BY <1>1, <1>2, <1>4, <1>5, ReplaceTyped

LEMMA CheckTyped == TypeInv /\ Check => TypeInv'
<1> SUFFICES ASSUME TypeInv, Check PROVE TypeInv'  OBVIOUS
<1>1. Framed /\ call.op \in {"apply"} \union Restoring /\ source' = source
  BY Runs DEF Check
<1>2. source' \in Trees /\ call.expected \in Trees  BY <1>1 DEF TypeInv, TypeOK, Calls
<1>3. UNCHANGED journal => JournalTyped  BY DEF journal, JournalTyped, TypeInv, TypeOK
<1>4. CASE Refused
  BY <1>1, <1>4, RefusedTyped
<1>5. CASE Loop("check", "verify", call.expected) /\ UNCHANGED journal
  BY <1>1, <1>2, <1>3, <1>5, LoopedTyped DEF ApplyAt, RestoreAt, Restoring, Labels
<1>6. CASE call' = [call EXCEPT !.at = "swap", !.raced = FALSE] /\ UNCHANGED <<journal, answer>>
  <2>1. CallTyped  BY <1>6 DEF CallTyped, TypeInv, TypeOK, Calls, Labels
  <2>2. Placed' /\ Resulted'
    BY <1>1, <1>6 DEF Framed, Placed, Resulted, TypeInv, TypeOK, Calls, Paths, ApplyAt, RestoreAt,
                      Restoring
  <2> QED  BY <1>1, <1>2, <1>3, <1>6, <2>1, <2>2, TypeInvSplit
<1> QED  BY <1>4, <1>5, <1>6 DEF Check

LEMMA SwapTyped == TypeInv /\ Swap => TypeInv'
<1> SUFFICES ASSUME TypeInv, Swap PROVE TypeInv'  OBVIOUS
<1>1. Framed /\ call.op \in {"apply"} \union Restoring
  BY Runs DEF Swap
<1>2. CASE Refused /\ UNCHANGED source
  BY <1>1, <1>2, RefusedTyped
<1>3. CASE /\ source' = [source EXCEPT ![call.path] = Put]
           /\ areas' = [areas EXCEPT ![Staging][call.path] = "absent"]
           /\ Loop("check", "verify", [call.expected EXCEPT ![call.path] = Put])
           /\ UNCHANGED records
  <2>1. Put \in Contents /\ Staging \in Areas
    BY <1>1 DEF Put, Contents, Staging, Areas
  <2>2. /\ source' \in Trees
        /\ [call.expected EXCEPT ![call.path] = Put] \in Trees
    BY <1>3, <2>1 DEF TypeInv, TypeOK, Calls, Trees
  <2>3. JournalTyped
    BY <1>3, <2>1 DEF JournalTyped, TypeInv, TypeOK, Calls, Copies, Broken
  <2> QED
    BY <1>1, <1>3, <2>2, <2>3, LoopedTyped DEF ApplyAt, RestoreAt, Restoring, Labels
<1> QED  BY <1>2, <1>3 DEF Swap

LEMMA VerifyTyped == TypeInv /\ Verify => TypeInv'
<1> SUFFICES ASSUME TypeInv, Verify PROVE TypeInv'  OBVIOUS
<1>1. Framed /\ call.op \in {"apply"} \union Restoring /\ source' = source
  BY Runs DEF Verify
<1>2. CASE Refused
  BY <1>1, <1>2, RefusedTyped
<1>3. CASE Goto("record") /\ UNCHANGED journal
  <2>1. JournalTyped  BY <1>3 DEF journal, JournalTyped, TypeInv, TypeOK
  <2> QED  BY <1>1, <1>3, <2>1, GoneTyped DEF ApplyAt, RestoreAt, Restoring
<1> QED  BY <1>2, <1>3 DEF Verify

LEMMA FinishTyped == TypeInv /\ Finish => TypeInv'
<1> SUFFICES ASSUME TypeInv, Finish PROVE TypeInv'  OBVIOUS
<1>1. Framed /\ call.op \in Restoring /\ source' = source
  BY Runs DEF Finish, ApplyAt
<1>2. CASE Refused
  BY <1>1, <1>2, RefusedTyped
<1>3. CASE (Goto("complete") \/ Goto("return")) /\ UNCHANGED journal
  <2>1. JournalTyped  BY <1>3 DEF journal, JournalTyped, TypeInv, TypeOK
  <2>2. records'.result \in Terminal
    BY <1>1, <1>3 DEF Finish, At, journal, TypeInv, Resulted
  <2> QED  BY <1>1, <1>3, <2>1, <2>2, GoneTyped DEF RestoreAt, Restoring
<1> QED  BY <1>2, <1>3 DEF Finish

LEMMA ReturnTyped == TypeInv /\ Return => TypeInv'
<1> SUFFICES ASSUME TypeInv, Return PROVE TypeInv'  OBVIOUS
<1>1. Framed /\ call.op \in {"apply"} \union Restoring /\ UNCHANGED <<source, journal>>
  BY Runs DEF Return
<1>2. records.result \in Statuses
  BY <1>1 DEF Return, At, TypeInv, Resulted, Statuses, Terminal
<1>3. Ends(records.result)  BY DEF Return
<1>4. CallTyped /\ Placed' /\ Resulted'
  BY <1>1, <1>2, <1>3, EndsType, EndsPlaced DEF Framed, CallTyped, TypeInv
<1> QED  BY <1>1, <1>4, TypeInvSplit DEF journal, JournalTyped, TypeInv, TypeOK

LEMMA InterruptTyped == TypeInv /\ Interrupt => TypeInv'
<1> SUFFICES ASSUME TypeInv, Interrupt PROVE TypeInv'  OBVIOUS
<1>1. Framed /\ Ends("interrupted") /\ UNCHANGED <<source, journal>>
  BY DEF Interrupt, Framed, journal
<1> QED  BY <1>1, Ended, TypeInvSplit DEF journal, JournalTyped, TypeInv, TypeOK

LEMMA EditTyped ==
    ASSUME TypeInv, NEW p \in Paths \union {0}, NEW content \in Contents, Edit(p, content)
    PROVE  TypeInv'
<1>1. /\ source' = [source EXCEPT ![p] = content] /\ touched' = TRUE
      /\ call' = [call EXCEPT !.raced = call.op # "none"]
      /\ UNCHANGED <<writer, records, areas, answer>>
  BY DEF Edit, journal
<1>2. call' \in Calls  BY <1>1 DEF TypeInv, TypeOK, Calls
<1>3. source' \in Trees  BY <1>1 DEF TypeInv, TypeOK, Trees
<1>4. TypeOK'  BY <1>1, <1>2, <1>3 DEF TypeInv, TypeOK
<1>5. Placed' /\ Resulted'
  BY <1>1 DEF TypeInv, TypeOK, Calls, Placed, Resulted, Paths
<1> QED  BY <1>4, <1>5 DEF TypeInv

LEMMA NextTyped == TypeInv /\ [Next]_vars => TypeInv'
<1> SUFFICES ASSUME TypeInv, [Next]_vars PROVE TypeInv'  OBVIOUS
<1>1. CASE Advance
  BY <1>1, WriteIntentTyped, BackUpTyped, StageTyped, PrepareTyped, PromoteStateTyped,
     PromoteResultTyped, DecideTyped, RestageTyped, BeginTyped, CheckTyped, SwapTyped, VerifyTyped,
     RecordTyped, CompleteTyped, FinishTyped, ReturnTyped DEF Advance
<1>2. CASE StartApply \/ ApplyAgain \/ StartRestore("undo") \/ StartRestore("recover")
  BY <1>2, StartApplyTyped, ApplyAgainTyped, StartRestoreTyped DEF Restoring
<1>3. CASE Interrupt \/ \E p \in Paths \union {0}, content \in Contents : Edit(p, content)
  BY <1>3, InterruptTyped, EditTyped
<1>4. CASE UNCHANGED vars
  BY <1>4 DEF vars, TypeInv, TypeOK, Placed, Resulted, Paths
<1> QED  BY <1>1, <1>2, <1>3, <1>4 DEF Next

(* Type correctness: no interruption makes a record or a copy anything but *)
(* absent, torn or a whole one of its own kind, for any number of files    *)
(* (write_record, _replace_record and _write_bytes).                       *)
THEOREM TypeCorrect == Spec => []TypeOK
<1>1. TypeInv => TypeOK  BY DEF TypeInv
<1> QED  BY InitTyped, NextTyped, <1>1, PTL DEF Spec
-----------------------------------------------------------------------------
(* What a step can do to each record. *)

RecordNames == Names \union {"directory", "undoStage"}

LEMMA RecordsDomain == TypeOK => DOMAIN records = RecordNames
BY DEF TypeOK, Records, RecordNames, Names

LEMMA WriteKeeps ==
    ASSUME TypeOK, NEW name \in Names, NEW value, NEW next, WriteRecord(name, value, next)
    PROVE  /\ areas' = areas
           /\ \A other \in RecordNames \ {name} : records'[other] = records[other]
           /\ records'[name] \in {records[name], value, "torn"}
BY RecordsDomain DEF WriteRecord, Refused, journal, RecordNames

LEMMA ReplaceKeeps ==
    ASSUME TypeOK, NEW name \in Names, NEW temporary \in Names, name # temporary, NEW value,
           NEW next, ReplaceRecord(name, temporary, value, next)
    PROVE  /\ areas' = areas
           /\ \A other \in RecordNames \ {name, temporary} : records'[other] = records[other]
           /\ records'[name] \in {records[name], value}
<1>1. CASE WriteRecord(temporary, value, call.at)
  BY <1>1, WriteKeeps DEF RecordNames
<1>2. CASE /\ records' = [records EXCEPT ![name] = value, ![temporary] = "absent"]
           /\ UNCHANGED areas
  BY <1>2, RecordsDomain DEF RecordNames
<1>3. CASE Refused
  BY <1>3 DEF Refused, journal
<1> QED  BY <1>1, <1>2, <1>3 DEF ReplaceRecord

(* The phase is moved forward by apply, and back by undo and recover only. *)
ForwardPhases == {"prepared", "torn", "applying", "complete"}
BackPhases == {"undoing"} \union Terminal

LEMMA PhaseMoves ==
    ASSUME TypeInv, Advance
    PROVE  \/ records'.state = records.state
           \/ call.op = "apply" /\ records'.state \in ForwardPhases
           \/ /\ call.op \in Restoring
              /\ records.state \in BackPhases => records'.state \in BackPhases
<1> USE DEF RecordNames, Names
<1>0. TypeOK  BY DEF TypeInv
<1>1. CASE WriteIntent
  BY <1>0, <1>1, WriteKeeps DEF WriteIntent
<1>2. CASE Prepare
  BY <1>0, <1>2, WriteKeeps, Runs DEF Prepare, RestoreAt, ForwardPhases
<1>3. CASE PromoteState
  <2>1. call.op \in Restoring  BY <1>3, Runs DEF PromoteState, ApplyAt
  <2>2. CASE UNCHANGED journal
    BY <2>2 DEF journal
  <2>3. CASE /\ ValidPending(records.state, records.stateTmp, records.result)
             /\ records' = [records EXCEPT !.state = records.stateTmp, !.stateTmp = "absent"]
    <3>1. records'.state = records.stateTmp  BY <1>0, <2>3 DEF TypeOK, Records
    <3>2. records.state \in BackPhases => records.stateTmp \in BackPhases
      BY <2>3 DEF ValidPending, BackPhases, Terminal
    <3> QED  BY <2>1, <3>1, <3>2
  <2> QED  BY <1>3, <2>2, <2>3 DEF PromoteState, Refused
<1>4. CASE Begin
  <2>1. call.op \in {"apply"} \union Restoring  BY <1>4, Runs DEF Begin
  <2>2. records'.state \in {records.state, IF call.op = "apply" THEN "applying" ELSE "undoing"}
    BY <1>0, <1>4, ReplaceKeeps DEF Begin
  <2> QED  BY <2>1, <2>2 DEF ForwardPhases, BackPhases, Restoring
<1>5. CASE Record
  BY <1>0, <1>5, WriteKeeps, ReplaceKeeps DEF Record
<1>6. CASE Complete
  <2>1. call.op \in {"apply"} \union Restoring  BY <1>6, Runs DEF Complete
  <2>2. /\ call.op = "apply" => records.result = "applied"
        /\ call.op \in Restoring => records.result \in Terminal
    BY <1>6 DEF Complete, At, TypeInv, Resulted
  <2>3. records'.state \in {records.state, PhaseOf(records.result)}
    BY <1>0, <1>6, ReplaceKeeps DEF Complete
  <2> QED  BY <2>1, <2>2, <2>3 DEF PhaseOf, ForwardPhases, BackPhases, Restoring, Terminal
<1>7. CASE PromoteResult \/ Decide
  BY <1>0, <1>7 DEF PromoteResult, Decide, Refused, journal, TypeOK, Records
<1>8. CASE BackUp \/ Stage \/ Restage
  BY <1>8 DEF BackUp, Stage, Restage, Copied, CopyStops, Refused, journal
<1>9. CASE Check \/ Swap \/ Verify \/ Finish \/ Return
  BY <1>9 DEF Check, Swap, Verify, Finish, Return, Refused, journal
<1> QED  BY <1>1, <1>2, <1>3, <1>4, <1>5, <1>6, <1>7, <1>8, <1>9 DEF Advance
(* A step of a call keeps the operation until it ends the call. *)
LEMMA OpMoves ==
    ASSUME TypeInv, Advance
    PROVE  call.op # "none" /\ call'.op \in {call.op, "none"} /\ Framed
<1> USE DEF TypeInv, TypeOK, Calls
<1>1. \A label : Goto(label) => call'.op = call.op  BY DEF Goto
<1>2. \A what : Ends(what) => call'.op = "none"  BY DEF Ends, Idle
<1>3. \A label, next, seen : Loop(label, next, seen) => call'.op = call.op  BY DEF Loop
<1>4. Refused => call'.op = "none"  BY <1>2 DEF Refused
<1>5. \A name, value, next : WriteRecord(name, value, next) => call'.op \in {call.op, "none"}
  BY <1>1, <1>2, <1>4 DEF WriteRecord
<1>6. \A name, temporary, value, next :
        ReplaceRecord(name, temporary, value, next) => call'.op \in {call.op, "none"}
  BY <1>1, <1>4, <1>5 DEF ReplaceRecord
<1>7. \A area, left : CopyStops(area, left) => call'.op = "none"  BY <1>2 DEF CopyStops
<1>8. call.op # "none" /\ Framed
  BY DEF Advance, WriteIntent, BackUp, Stage, Prepare, PromoteState, PromoteResult, Decide, Restage,
         Begin, Check, Swap, Verify, Record, Complete, Finish, Return, At, Framed, Placed
<1>9. call'.op \in {call.op, "none"}
  BY <1>1, <1>2, <1>3, <1>4, <1>5, <1>6, <1>7
  DEF Advance, WriteIntent, BackUp, Stage, Prepare, PromoteState, PromoteResult, Decide, Restage,
      Begin, Check, Swap, Verify, Record, Complete, Finish, Return
<1> QED  BY <1>8, <1>9

LEMMA IntentMoves ==
    ASSUME TypeInv, Advance
    PROVE  /\ records'.directory = records.directory
           /\ records'.intent = records.intent \/ At("intent")
<1> USE DEF RecordNames, Names
<1>0. TypeOK  BY DEF TypeInv
<1>1. CASE WriteIntent \/ Prepare
  BY <1>0, <1>1, WriteKeeps DEF WriteIntent, Prepare
<1>2. CASE Begin \/ Complete
  BY <1>0, <1>2, ReplaceKeeps DEF Begin, Complete
<1>3. CASE Record
  BY <1>0, <1>3, WriteKeeps, ReplaceKeeps DEF Record
<1>4. CASE PromoteState \/ PromoteResult \/ Decide
  BY <1>0, <1>4 DEF PromoteState, PromoteResult, Decide, Refused, journal, TypeOK, Records
<1>5. CASE BackUp \/ Stage \/ Restage
  BY <1>5 DEF BackUp, Stage, Restage, Copied, CopyStops, Refused, journal
<1>6. CASE Check \/ Swap \/ Verify \/ Finish \/ Return
  BY <1>6 DEF Check, Swap, Verify, Finish, Return, Refused, journal
<1> QED  BY <1>1, <1>2, <1>3, <1>4, <1>5, <1>6 DEF Advance

-----------------------------------------------------------------------------
(* An announced restoration is never turned back.  It is inductive that no *)
(* application runs when one has been announced: apply starts in a new     *)
(* directory only, and moves the phase forward.                            *)
Directed ==
    /\ call.op = "apply" => records.state \notin BackPhases
    /\ records.directory = "absent" =>
          call.op = "none" /\ records.intent = "absent" /\ records.state = "absent"

LEMMA InitDirected == Init => Directed
BY DEF Init, Idle, Directed

LEMMA NextDirected == TypeInv /\ Directed /\ [Next]_vars => Directed'
<1> SUFFICES ASSUME TypeInv, Directed, [Next]_vars PROVE Directed'  OBVIOUS
<1>1. CASE Advance
  <2>1. records.directory # "absent" /\ records'.directory = records.directory
    BY <1>1, OpMoves, IntentMoves DEF Directed
  <2>2. CASE call.op = "apply"
    BY <1>1, <2>1, <2>2, PhaseMoves
    DEF Directed, ForwardPhases, BackPhases, Terminal, Restoring
  <2>3. CASE call.op # "apply"
    BY <1>1, <2>1, <2>3, OpMoves DEF Directed
  <2> QED  BY <2>2, <2>3
<1>2. CASE StartApply
  <2>1. records'.directory = "made" /\ records'.state = records.state
    BY <1>2 DEF StartApply, TypeInv, TypeOK, Records
  <2> QED  BY <1>2, <2>1 DEF Directed, StartApply, BackPhases, Terminal
<1>3. CASE \E op \in Restoring : StartRestore(op)
  <2>1. PICK op \in Restoring : StartRestore(op)  BY <1>3
  <2>2. call'.op = op /\ records' = records /\ records.intent = "whole"
    BY <2>1 DEF StartRestore, Idle, journal
  <2> QED  BY <2>1, <2>2 DEF Directed, Restoring
<1>4. CASE Interrupt \/ ApplyAgain \/ UNCHANGED vars
  BY <1>4 DEF Interrupt, Ends, Idle, ApplyAgain, At, vars, journal, Directed
<1>5. CASE \E p \in Paths \union {0}, content \in Contents : Edit(p, content)
  <2>1. call'.op = call.op /\ records' = records
    BY <1>5 DEF Edit, journal, TypeInv, TypeOK, Calls
  <2> QED  BY <2>1 DEF Directed
<1> QED  BY <1>1, <1>2, <1>3, <1>4, <1>5 DEF Next, Restoring

LEMMA StepBack ==
    ASSUME TypeInv, Directed, [Next]_vars, records.state \in BackPhases
    PROVE  /\ records'.state \in BackPhases
           /\ Swap /\ source' # source => source'[call.path] = "original"
<1>1. call.op # "apply"  BY DEF Directed
<1>2. records'.state \in BackPhases
  <2>1. CASE Advance
    BY <1>1, <2>1, PhaseMoves
  <2>2. CASE StartApply
    BY <2>2 DEF Directed, StartApply, BackPhases, Terminal
  <2>3. CASE UNCHANGED records
    BY <2>3
  <2> QED
    BY <2>1, <2>2, <2>3 DEF Next, vars, ApplyAgain, StartRestore, Interrupt, Edit, journal
<1>3. ASSUME Swap, source' # source PROVE source'[call.path] = "original"
  <2>1. source' = [source EXCEPT ![call.path] = "original"]
    BY <1>1, <1>3 DEF Swap, Put
  <2> QED  BY <2>1 DEF TypeInv, TypeOK, Calls, Trees
<1> QED  BY <1>2, <1>3

(* Recovery never replays the replacement: once undo or recover has        *)
(* announced itself in state.json, every later phase is theirs and every   *)
(* os.replace puts an original back, whatever is interrupted.              *)
THEOREM RestorationsAreFinal == Spec => NeverReplayed
<1>1. TypeInv /\ Directed /\ [Next]_vars =>
        [records.state \in {"undoing"} \union Terminal =>
          /\ records'.state \in {"undoing"} \union Terminal
          /\ Swap /\ source' # source => source'[call.path] = "original"]_vars
  BY StepBack DEF BackPhases
<1> QED  BY <1>1, InitTyped, NextTyped, InitDirected, NextDirected, PTL DEF Spec, NeverReplayed
-----------------------------------------------------------------------------
(* The original survives: an application replaces files only when the      *)
(* intent and every backup are whole, and nothing tears them afterwards.   *)
Early == {"intent", "backup", "stage", "prepare", "begin"}
Saved(p) == areas["backup"][p] = "whole"
Kept ==
    /\ call.op = "apply" /\ call.at = "intent" => call.path = 1
    /\ call.op = "apply" /\ call.at # "intent" => records.intent = "whole"
    /\ call.op = "apply" /\ call.at \in {"backup", "stage"} =>
          \A p \in Paths : p < call.path \/ (p = call.path /\ call.at = "stage") => Saved(p)
    /\ call.op = "apply" /\ call.at \in ApplyAt \ {"intent", "backup", "stage"} =>
          \A p \in Paths : Saved(p)
    /\ call.op = "apply" /\ call.at \in Early /\ ~touched => source = Before

LEMMA InitKept == Init => Kept /\ OriginalSurvives
<1> SUFFICES ASSUME Init PROVE Kept /\ OriginalSurvives  OBVIOUS
<1>1. \A p \in Paths : p \in 0..Files  BY FilesAssumption DEF Paths
<1> QED  BY <1>1 DEF Init, Idle, Kept, OriginalSurvives, Before

LEMMA BackupMoves ==
    ASSUME TypeInv, Advance
    PROVE  areas'["backup"] = areas["backup"] \/ BackUp
<1> USE DEF RecordNames, Names
<1>0. TypeOK /\ DOMAIN areas = Areas  BY DEF TypeInv, TypeOK
<1>1. CASE WriteIntent \/ Prepare \/ Record
  BY <1>0, <1>1, WriteKeeps, ReplaceKeeps DEF WriteIntent, Prepare, Record
<1>2. CASE Begin \/ Complete
  BY <1>0, <1>2, ReplaceKeeps DEF Begin, Complete
<1>3. CASE PromoteState \/ PromoteResult \/ Decide \/ Check \/ Verify \/ Finish \/ Return
  BY <1>3 DEF PromoteState, PromoteResult, Decide, Check, Verify, Finish, Return, Refused, journal
<1>4. CASE Stage \/ Restage \/ Swap
  <2> DEFINE Same == areas'["backup"] = areas["backup"]
  <2>1. Staging # "backup" /\ "backup" \in Areas  BY DEF Staging, Areas
  <2>2. \A area, left : areas' = [areas EXCEPT ![area][call.path] = left] /\ area # "backup" => Same
    BY <1>0, <2>1
  <2>3. \A area : Copied(area) /\ area # "backup" => Same  BY <2>2 DEF Copied
  <2>4. \A area, left : CopyStops(area, left) /\ area # "backup" => Same  BY <2>2 DEF CopyStops
  <2>5. Refused => Same  BY DEF Refused, journal
  <2>6. CASE Stage
    BY <2>6, <2>3, <2>4 DEF Stage
  <2>7. CASE Restage
    BY <2>7, <2>1, <2>3, <2>4, <2>5 DEF Restage, journal
  <2>8. CASE Swap
    BY <2>8, <2>1, <2>2, <2>5 DEF Swap
  <2> QED  BY <1>4, <2>6, <2>7, <2>8
<1> QED  BY <1>1, <1>2, <1>3, <1>4 DEF Advance

LEMMA SourceMoves ==
    ASSUME TypeInv, Advance
    PROVE  \/ source' = source
           \/ Swap /\ source' = [source EXCEPT ![call.path] = Put]
BY DEF Advance, WriteIntent, BackUp, Stage, Prepare, PromoteState, PromoteResult, Decide, Restage,
       Begin, Check, Swap, Verify, Record, Complete, Finish, Return

LEMMA NextSurvives ==
    ASSUME TypeInv, Kept, OriginalSurvives, Advance
    PROVE  OriginalSurvives'
<1> SUFFICES ASSUME ~touched', NEW p \in Paths', source'[p] # "original"
             PROVE  records'.intent = "whole" /\ areas'["backup"][p] = "whole"
  BY DEF OriginalSurvives
<1>1. ~touched /\ p \in Paths  BY OpMoves DEF Framed, Paths
<1>2. p \in 0..Files /\ source \in Trees  BY <1>1, FilesAssumption DEF Paths, TypeInv, TypeOK
<1>3. /\ records.intent = "whole" /\ areas["backup"][p] = "whole"
      /\ ~At("intent") /\ ~BackUp
  <2>1. CASE source[p] = "original"
    <3>1. Swap /\ source' = [source EXCEPT ![call.path] = Put]
      BY <2>1, SourceMoves
    <3>2. Put # "original"  BY <1>2, <2>1, <3>1 DEF Trees
    <3>3. call.op = "apply"  BY <3>2 DEF Put
    <3>4. call.at = "swap"  BY <3>1 DEF Swap, At
    <3> QED  BY <1>1, <3>3, <3>4 DEF Kept, Saved, ApplyAt, At, BackUp
  <2>2. CASE source[p] # "original"
    <3>1. records.intent = "whole" /\ areas["backup"][p] = "whole"
      BY <1>1, <2>2 DEF OriginalSurvives
    <3>2. source # Before  BY <1>2, <2>2 DEF Before
    <3>3. ~(call.op = "apply" /\ call.at \in Early)  BY <1>1, <3>2 DEF Kept
    <3>4. call.at \in {"intent", "backup"} => call.op = "apply"
      BY DEF TypeInv, TypeOK, Calls, Operations, Placed, RestoreAt, Restoring
    <3> QED  BY <3>1, <3>3, <3>4 DEF Early, At, BackUp
  <2> QED  BY <2>1, <2>2
<1> QED  BY <1>3, IntentMoves, BackupMoves
\* From the announcement on, an application does not come back to an earlier label.
Late == ApplyAt \ Early

LEMMA LateMoves ==
    ASSUME TypeInv, Advance, call.op = "apply", call'.op = "apply", call.at \in Late \union {"begin"}
    PROVE  call'.at \in Late \/ (call'.at = "begin" /\ call.at = "begin")
<1> USE DEF TypeInv, TypeOK, Calls
<1>1. \A label : Goto(label) => call'.at = label  BY DEF Goto
<1>2. \A what : ~Ends(what)  BY DEF Ends, Idle
<1>3. ~Refused  BY <1>2 DEF Refused
<1>4. \A label, next, seen : Loop(label, next, seen) => call'.at \in {label, next}  BY DEF Loop
<1>5. \A name, value, next : WriteRecord(name, value, next) => call'.at = next
  BY <1>1, <1>2, <1>3 DEF WriteRecord
<1>6. \A name, temporary, value, next :
        ReplaceRecord(name, temporary, value, next) => call'.at \in {call.at, next}
  BY <1>1, <1>3, <1>5 DEF ReplaceRecord
<1>7. CASE Begin
  BY <1>6, <1>7 DEF Begin, At, Late, ApplyAt, Early
<1>8. CASE Check
  <2>1. call' = [call EXCEPT !.at = "swap", !.raced = FALSE] => call'.at = "swap"  OBVIOUS
  <2>2. call'.at \in {"check", "verify", "swap"}
    BY <1>3, <1>4, <1>8, <2>1 DEF Check
  <2> QED  BY <2>2 DEF Late, ApplyAt, Early
<1>9. CASE Swap
  BY <1>3, <1>4, <1>9 DEF Swap, Late, ApplyAt, Early
<1>10. CASE Verify \/ Record
  BY <1>1, <1>3, <1>5, <1>10 DEF Verify, Record, Late, ApplyAt, Early
<1>11. CASE Complete
  BY <1>6, <1>11 DEF Complete, At, Late, ApplyAt, Early
<1>12. ~Return  BY <1>2 DEF Return
<1>13. ~(WriteIntent \/ BackUp \/ Stage \/ Prepare \/ PromoteState \/ PromoteResult \/ Decide
          \/ Restage \/ Finish)
  BY DEF WriteIntent, BackUp, Stage, Prepare, PromoteState, PromoteResult, Decide, Restage, Finish,
         At, Late, ApplyAt, Early
<1> QED  BY <1>7, <1>8, <1>9, <1>10, <1>11, <1>12, <1>13 DEF Advance

LEMMA AdvanceKept ==
    ASSUME TypeInv, Kept, Advance
    PROVE  Kept'
<1> USE FilesAssumption
<1>1. SUFFICES ASSUME call.op = "apply", call'.op = "apply" PROVE Kept'
  BY OpMoves DEF Kept, Restoring
<1>2. Paths' = Paths /\ touched' = touched /\ call.path \in Paths /\ TypeOK
  BY OpMoves DEF Framed, Paths, TypeInv, Placed
<1>3. \A what : ~Ends(what)  BY <1>1 DEF Ends, Idle
<1>4. ~Refused  BY <1>3 DEF Refused
<1>5. CASE WriteIntent
  <2>1. /\ records' = [records EXCEPT !["intent"] = "whole"] /\ Goto("backup")
        /\ areas' = areas /\ source' = source /\ call.at = "intent"
    BY <1>3, <1>4, <1>5 DEF WriteIntent, WriteRecord, At
  <2>2. call'.at = "backup" /\ call'.path = 1 /\ records'.intent = "whole"
    BY <1>1, <1>2, <2>1 DEF Goto, Kept, TypeOK, Calls, Records
  <2> QED  BY <1>1, <1>2, <2>1, <2>2 DEF Kept, Paths, Early
<1>6. CASE BackUp
  <2>1. /\ areas' = [areas EXCEPT !["backup"][call.path] = "whole"] /\ records' = records
        /\ Goto("stage") /\ source' = source /\ call.at = "backup"
    BY <1>3, <1>4, <1>6 DEF BackUp, At, Copied, CopyStops
  <2>2. call'.at = "stage" /\ call'.path = call.path
    BY <1>2, <2>1 DEF Goto, TypeOK, Calls
  <2>3. \A p \in Paths : Saved(p) \/ p = call.path => Saved(p)'
    BY <1>2, <2>1 DEF Saved, TypeOK, Areas, Calls, Paths
  <2> QED  BY <1>1, <1>2, <2>1, <2>2, <2>3 DEF Kept, Early
<1>7. CASE Stage
  <2>1. /\ Copied("stage") /\ Loop("backup", "prepare", call.expected)
        /\ source' = source /\ call.at = "stage"
    BY <1>3, <1>7 DEF Stage, At, CopyStops
  <2>2. records' = records /\ areas'["backup"] = areas["backup"]
    BY <1>2, <2>1 DEF Copied, TypeOK, Areas
  <2>3. \/ call'.at = "backup" /\ call'.path = call.path + 1
        \/ call'.at = "prepare" /\ ~(call.path < Last)
    BY <1>2, <2>1 DEF Loop, TypeOK, Calls
  <2>4. \A p \in Paths : p \in Nat /\ p <= Last  BY DEF Paths, Last
  <2>5. call.path \in Nat /\ Last \in Nat  BY <1>2 DEF Last, Paths
  <2> QED  BY <1>1, <1>2, <2>1, <2>2, <2>3, <2>4, <2>5 DEF Kept, Saved, Early
<1>8. CASE Prepare
  <2>1. /\ records' = [records EXCEPT !["state"] = "prepared"] /\ Goto("begin")
        /\ areas' = areas /\ source' = source /\ call.at = "prepare"
    BY <1>3, <1>4, <1>8 DEF Prepare, WriteRecord, At
  <2>2. call'.at = "begin" /\ records'.intent = records.intent
    BY <1>2, <2>1 DEF Goto, TypeOK, Calls, Records
  <2> QED  BY <1>1, <1>2, <2>1, <2>2 DEF Kept, Saved, Early, ApplyAt
<1>9. CASE call.at \in Late \union {"begin"}
  <2>1. call'.at \in Late \/ (call'.at = "begin" /\ call.at = "begin")
    BY <1>1, <1>9, LateMoves
  <2>2. records'.intent = records.intent /\ areas'["backup"] = areas["backup"]
    BY <1>9, IntentMoves, BackupMoves DEF At, BackUp, Late, ApplyAt, Early
  <2>3. call.at = "begin" => source' = source
    BY SourceMoves DEF Swap, At
  <2> QED  BY <1>1, <1>2, <1>9, <2>1, <2>2, <2>3 DEF Kept, Saved, Late, Early, ApplyAt
<1>10. call.at \in ApplyAt  BY <1>1 DEF TypeInv, Placed
<1>11. /\ call.at = "intent" => WriteIntent
       /\ call.at = "backup" => BackUp
       /\ call.at = "stage" => Stage
       /\ call.at = "prepare" => Prepare
  BY DEF Advance, WriteIntent, BackUp, Stage, Prepare, PromoteState, PromoteResult, Decide, Restage,
         Begin, Check, Swap, Verify, Record, Complete, Finish, Return, At
<1> QED  BY <1>5, <1>6, <1>7, <1>8, <1>9, <1>10, <1>11 DEF Late, Early, ApplyAt

LEMMA NextKept ==
    ASSUME TypeInv, Kept, OriginalSurvives, [Next]_vars
    PROVE  Kept' /\ OriginalSurvives'
<1>1. CASE Advance
  BY <1>1, AdvanceKept, NextSurvives
<1>2. CASE StartApply
  <2>1. /\ UNCHANGED <<source, areas, writer, touched>> /\ source = Before
        /\ records'.intent = records.intent
    BY <1>2 DEF StartApply, At, TypeInv, TypeOK, Records
  <2>2. call'.op = "apply" /\ call'.at = "intent" /\ call'.path = 1
    BY <1>2 DEF StartApply, Idle
  <2>3. Kept'  BY <2>1, <2>2 DEF Kept, Before
  <2> QED  BY <2>1, <2>3 DEF OriginalSurvives, Paths
<1>3. CASE \E op \in Restoring : StartRestore(op)
  <2>1. UNCHANGED <<source, journal, writer, touched>> /\ call'.op # "apply"
    BY <1>3 DEF StartRestore, At, Idle, Restoring
  <2> QED  BY <2>1 DEF Kept, OriginalSurvives, Paths, journal
<1>4. CASE Interrupt
  <2>1. UNCHANGED <<source, journal, writer, touched>> /\ call'.op # "apply"
    BY <1>4 DEF Interrupt, Ends, Idle
  <2> QED  BY <2>1 DEF Kept, OriginalSurvives, Paths, journal
<1>5. CASE ApplyAgain \/ UNCHANGED vars
  BY <1>5 DEF ApplyAgain, At, vars, journal, Kept, OriginalSurvives, Paths, Saved, Before
<1>6. CASE \E p \in Paths \union {0}, content \in Contents : Edit(p, content)
  <2>1. /\ touched' = TRUE /\ UNCHANGED <<journal, writer>>
        /\ call'.op = call.op /\ call'.at = call.at /\ call'.path = call.path
    BY <1>6 DEF Edit, TypeInv, TypeOK, Calls
  <2> QED  BY <2>1 DEF Kept, OriginalSurvives, Saved, Paths, journal
<1> QED  BY <1>1, <1>2, <1>3, <1>4, <1>5, <1>6 DEF Next, Restoring

(* Whatever is interrupted and however many files a plan has: as long as   *)
(* nobody else edits them, a changed file that is not the original has a   *)
(* whole intent and a whole backup to recover from.                        *)
THEOREM OriginalIsKept == Spec => []OriginalSurvives
<1>1. Init => TypeInv /\ Kept /\ OriginalSurvives
  BY InitTyped, InitKept
<1>2. TypeInv /\ Kept /\ OriginalSurvives /\ [Next]_vars =>
        (TypeInv /\ Kept /\ OriginalSurvives)'
  BY NextTyped, NextKept
<1> QED  BY <1>1, <1>2, PTL DEF Spec
-----------------------------------------------------------------------------
(* How a call moves, field by field. *)

LEMMA GotoMoves ==
    ASSUME TypeOK, NEW label, Goto(label)
    PROVE  /\ call'.op = call.op /\ call'.at = label /\ call'.path = call.path
           /\ call'.expected = call.expected /\ call'.raced = call.raced /\ answer' = answer
BY DEF TypeOK, Calls, Goto

LEMMA LoopMoves ==
    ASSUME TypeOK, NEW label, NEW next, NEW seen, Loop(label, next, seen)
    PROVE  /\ call'.op = call.op /\ call'.expected = seen /\ answer' = answer
           /\ \/ call.path < Last /\ call'.at = label /\ call'.path = call.path + 1
              \/ ~(call.path < Last) /\ call'.at = next /\ call'.path = 1
<1>1. CASE call.path < Last
  <2>1. call' = [call EXCEPT !.at = label, !.path = @ + 1, !.expected = seen] /\ answer' = answer
    BY <1>1 DEF Loop
  <2> QED  BY <1>1, <2>1 DEF TypeOK, Calls
<1>2. CASE ~(call.path < Last)
  <2>1. call' = [call EXCEPT !.at = next, !.path = 1, !.expected = seen] /\ answer' = answer
    BY <1>2 DEF Loop
  <2> QED  BY <1>2, <2>1 DEF TypeOK, Calls
<1> QED  BY <1>1, <1>2

LEMMA EndsMoves ==
    ASSUME NEW what, Ends(what)
    PROVE  /\ call'.op = "none" /\ call'.at = "idle" /\ call'.expected = Before
           /\ answer'.op = call.op /\ answer'.what = what
BY DEF Ends, Idle

LEMMA WriteCalls ==
    ASSUME TypeOK, NEW name, NEW value, NEW next, WriteRecord(name, value, next)
    PROVE  /\ call'.at \in {next, "idle"}
           /\ call'.expected \in {call.expected, Before}
BY GotoMoves, EndsMoves DEF WriteRecord, Refused

LEMMA ReplaceCalls ==
    ASSUME TypeOK, NEW name, NEW temporary, NEW value, NEW next,
           ReplaceRecord(name, temporary, value, next)
    PROVE  /\ call'.at \in {call.at, next, "idle"}
           /\ call'.expected \in {call.expected, Before}
BY GotoMoves, EndsMoves, WriteCalls DEF ReplaceRecord, Refused

-----------------------------------------------------------------------------
(* The bytes of others: what a call expects of a changed file is never     *)
(* theirs, and from the look at the whole tree to os.replace the tree is   *)
(* as expected unless somebody edits it.                                   *)
Seen ==
    /\ \A p \in Paths : call.expected[p] # "foreign"
    /\ call.at = "swap" /\ ~call.raced => source = call.expected

LEMMA Plain == \A p \in Paths : p \in 0..Files /\ Before[p] # "foreign" /\ After[p] # "foreign"
BY FilesAssumption DEF Paths, Before, After

LEMMA ExpectedMoves ==
    ASSUME TypeInv, Advance
    PROVE  \/ call'.expected \in {call.expected, Before, After}
           \/ Recoverable /\ call'.expected = source
           \/ call'.expected = [call.expected EXCEPT ![call.path] = Put]
<1>0. TypeOK  BY DEF TypeInv
<1>1. CASE WriteIntent \/ Prepare
  BY <1>0, <1>1, WriteCalls DEF WriteIntent, Prepare
<1>2. CASE Begin \/ Complete
  BY <1>0, <1>2, ReplaceCalls DEF Begin, Complete
<1>3. CASE Record
  BY <1>0, <1>3, WriteCalls, ReplaceCalls DEF Record
<1>4. CASE BackUp \/ PromoteState \/ PromoteResult \/ Verify \/ Finish \/ Return
  BY <1>0, <1>4, GotoMoves, EndsMoves
  DEF BackUp, CopyStops, PromoteState, PromoteResult, Verify, Finish, Return, Refused
<1>5. CASE Stage \/ Restage
  BY <1>0, <1>5, LoopMoves, EndsMoves DEF Stage, Restage, CopyStops, Refused
<1>6. CASE Decide
  <2>1. \A seen : call' = [call EXCEPT !.at = "restage", !.expected = seen] => call'.expected = seen
    BY <1>0 DEF TypeOK, Calls
  <2> QED  BY <1>0, <1>6, <2>1, GotoMoves, EndsMoves DEF Decide, Refused
<1>7. CASE Check
  <2>1. call' = [call EXCEPT !.at = "swap", !.raced = FALSE] => call'.expected = call.expected
    BY <1>0 DEF TypeOK, Calls
  <2> QED  BY <1>0, <1>7, <2>1, LoopMoves, EndsMoves DEF Check, Refused
<1>8. CASE Swap
  BY <1>0, <1>8, LoopMoves, EndsMoves DEF Swap, Refused
<1> QED  BY <1>1, <1>2, <1>3, <1>4, <1>5, <1>6, <1>7, <1>8 DEF Advance

\* Only the look at the whole tree leads to os.replace.
LEMMA SwapIsChecked ==
    ASSUME TypeInv, Advance, call'.at = "swap"
    PROVE  source' = source /\ source = call.expected /\ call'.expected = call.expected
<1>0. TypeOK  BY DEF TypeInv
<1>1. ~WriteIntent /\ ~Prepare
  BY <1>0, WriteCalls DEF WriteIntent, Prepare
<1>2. ~Begin /\ ~Complete
  BY <1>0, ReplaceCalls DEF Begin, Complete, At
<1>3. ~Record
  BY <1>0, WriteCalls, ReplaceCalls DEF Record, At
<1>4. ~(BackUp \/ PromoteState \/ PromoteResult \/ Verify \/ Finish \/ Return)
  BY <1>0, GotoMoves, EndsMoves
  DEF BackUp, CopyStops, PromoteState, PromoteResult, Verify, Finish, Return, Refused
<1>5. ~(Stage \/ Restage \/ Swap)
  BY <1>0, LoopMoves, EndsMoves DEF Stage, Restage, Swap, CopyStops, Refused
<1>6. ~Decide
  <2>1. \A seen : call' = [call EXCEPT !.at = "restage", !.expected = seen] => call'.at = "restage"
    BY <1>0 DEF TypeOK, Calls
  <2> SUFFICES ASSUME Decide PROVE FALSE
    OBVIOUS
  <2>2. CASE Goto("finish")
    BY <1>0, <2>2, GotoMoves
  <2>3. CASE \E seen : call' = [call EXCEPT !.at = "restage", !.expected = seen]
    BY <2>1, <2>3
  <2>4. CASE Refused
    BY <2>4, EndsMoves DEF Refused
  <2> QED BY <2>2, <2>3, <2>4 DEF Decide
<1>7. Check  BY <1>1, <1>2, <1>3, <1>4, <1>5, <1>6 DEF Advance
<1>8. call' = [call EXCEPT !.at = "swap", !.raced = FALSE] /\ source = call.expected /\ source' = source
  BY <1>0, <1>7, LoopMoves, EndsMoves DEF Check, Refused
<1> QED  BY <1>0, <1>8 DEF TypeOK, Calls

LEMMA InitSeen == Init => Seen
BY Plain DEF Init, Idle, Seen

LEMMA NextSeen == TypeInv /\ Seen /\ [Next]_vars => Seen'
<1> SUFFICES ASSUME TypeInv, Seen, [Next]_vars PROVE Seen'  OBVIOUS
<1>0. TypeOK /\ call.path \in Paths  BY DEF TypeInv, Placed
<1>1. CASE Advance
  <2>1. Paths' = Paths  BY <1>1, OpMoves DEF Framed, Paths
  <2>2. Put # "foreign"  BY DEF Put
  <2>3. \A p \in Paths : p \in 0..Files  BY Plain
  <2>4. \A p \in Paths : [call.expected EXCEPT ![call.path] = Put][p] # "foreign"
    BY <1>0, <2>2, <2>3 DEF TypeOK, Calls, Trees, Seen
  <2>5. \A p \in Paths : call'.expected[p] # "foreign"
    BY <1>1, <2>4, ExpectedMoves, Plain DEF Seen, Recoverable
  <2>6. call'.at = "swap" => source' = call'.expected
    BY <1>1, SwapIsChecked
  <2> QED  BY <2>1, <2>5, <2>6 DEF Seen
<1>2. CASE StartApply \/ \E op \in Restoring : StartRestore(op)
  <2>1. writer' = writer /\ call'.at # "swap" /\ call'.expected = Before
    BY <1>2 DEF StartApply, StartRestore, At, Idle
  <2> QED  BY <2>1, Plain DEF Seen, Paths
<1>3. CASE Interrupt
  <2>1. writer' = writer /\ call'.at # "swap" /\ call'.expected = Before
    BY <1>3 DEF Interrupt, Ends, Idle
  <2> QED  BY <2>1, Plain DEF Seen, Paths
<1>4. CASE ApplyAgain \/ UNCHANGED vars
  BY <1>4 DEF ApplyAgain, At, vars, Seen, Paths
<1>5. CASE \E p \in Paths \union {0}, content \in Contents : Edit(p, content)
  <2>1. /\ writer' = writer /\ call'.at = call.at /\ call'.expected = call.expected
        /\ call'.raced = (call.op # "none")
    BY <1>0, <1>5 DEF Edit, TypeOK, Calls
  <2>2. call.at = "swap" => call.op # "none"  BY DEF TypeInv, Placed
  <2> QED  BY <2>1, <2>2 DEF Seen, Paths
<1> QED  BY <1>1, <1>2, <1>3, <1>4, <1>5 DEF Next, Restoring

(* No writer overwrites bytes that are neither the original nor the        *)
(* replacement, unless they were put there after its last look at the      *)
(* whole tree (_source_rows before each os.replace).                       *)
THEOREM OthersAreRespected == Spec => OthersBytesKept
<1>1. TypeInv /\ Seen /\ [Next]_vars =>
        [\A p \in Paths : source[p] = "foreign" /\ source'[p] = Put /\ Swap => call.raced]_vars
  <2> SUFFICES ASSUME TypeInv, Seen, NEW p \in Paths, source[p] = "foreign", source'[p] = Put, Swap
               PROVE  call.raced
    OBVIOUS
  <2>1. Put # "foreign"  BY DEF Put
  <2>2. source' = [source EXCEPT ![call.path] = Put] /\ call.at = "swap"
    BY <2>1 DEF Swap, At
  <2>3. call.raced \in BOOLEAN  BY DEF TypeInv, TypeOK, Calls
  <2> QED  BY <2>2, <2>3 DEF Seen
<1> QED  BY <1>1, InitTyped, NextTyped, InitSeen, NextSeen, PTL DEF Spec, OthersBytesKept
-----------------------------------------------------------------------------
(* The records agree: what an interrupted or finished call may leave in    *)
(* them, and what a running one has made of them where it is.              *)
Journal(r) ==
    /\ r.state \in {"absent", "torn", "prepared"} => r.result = "absent"
    /\ r.state = "applying" => r.result \in {"absent", "torn", "applied"}
    /\ r.state = "complete" => r.result = "applied"
    /\ r.state = "undoing" => r.result # "torn"
    /\ r.state \in Terminal => r.result = r.state
Pending(r) ==
    /\ r.stateTmp # "prepared"
    /\ r.stateTmp = "applying" => r.state = "prepared"
    /\ r.stateTmp = "complete" => r.state = "applying" /\ r.result = "applied"
    /\ r.stateTmp = "undoing" => r.state \notin Terminal /\ r.result \in {"absent", "applied"}
    /\ r.stateTmp \in Terminal => r.state = "undoing" /\ r.result = r.stateTmp
    /\ r.resultTmp \in Statuses =>
          /\ r.resultTmp \in Terminal /\ r.result \in {"absent", "applied"}
          /\ r.state = "undoing"
Blank(r) ==
    r.state = "absent" /\ r.stateTmp = "absent" /\ r.result = "absent" /\ r.resultTmp = "absent"

ApplyStage(at, r) ==
    /\ r.resultTmp = "absent"
    /\ r.intent = IF at = "intent" THEN "absent" ELSE "whole"
    /\ at \in {"intent", "backup", "stage", "prepare"} => Blank(r)
    /\ at = "begin" => r.state = "prepared" /\ r.stateTmp \in {"absent", "applying"}
    /\ at \in {"check", "swap", "verify", "record"} =>
          r.state = "applying" /\ r.stateTmp = "absent" /\ r.result = "absent"
    /\ at = "complete" => r.state = "applying" /\ r.stateTmp \in {"absent", "complete"}
    /\ at = "return" => r.state = "complete" /\ r.stateTmp = "absent"

\* Undo of a proposal is blind: it does not look at result.json.tmp.
Blind(op) == op = "undo" /\ writer = "proposal"
Moving == {"restage", "begin", "check", "swap", "verify"}
RestoreStage(op, at, r) ==
    /\ r.intent = "whole" /\ r.result # "torn"
    /\ at \notin {"promote", "begin", "complete"} => r.stateTmp = "absent"
    /\ at \in Moving \union {"record"} =>
          r.result = "applied" \/ (op = "recover" /\ r.result = "absent")
    /\ at = "begin" => r.stateTmp \in {"absent", "undoing"}
    /\ at \in {"check", "swap", "verify", "record", "complete"} => r.state = "undoing"
    /\ at = "complete" => r.stateTmp \in {"absent", r.result}
    /\ at = "return" => r.state = r.result
    /\ at \in Moving \union {"decide"} /\ ~Blind(op) => r.resultTmp = "absent"
    /\ at = "record" /\ ~Blind(op) =>
          r.resultTmp \in {"absent", IF op = "undo" THEN "undone" ELSE "recovered"}

Sound(r) ==
    /\ Journal(r) /\ Pending(r)
    /\ r.intent # "whole" => Blank(r)
    /\ r.directory = "absent" => r.intent = "absent"
Staged(c, r) ==
    /\ c.op = "apply" => ApplyStage(c.at, r)
    /\ c.op \in Restoring => RestoreStage(c.op, c.at, r)
Agreed == Sound(records) /\ Staged(call, records)

(* What a write of a record, and a replacement of one, come to. *)
Others(names) == \A other \in RecordNames \ names : records'[other] = records[other]

LEMMA WriteSplits ==
    ASSUME TypeOK, NEW name \in Names, NEW value, NEW next, WriteRecord(name, value, next)
    PROVE  /\ areas' = areas
           /\ \/ /\ records[name] = "absent" /\ records'[name] = value /\ Others({name})
                 /\ Goto(next)
              \/ /\ records[name] = "absent" /\ records'[name] = "torn" /\ Others({name})
                 /\ Ends("interrupted")
              \/ records[name] # "absent" /\ records' = records /\ Ends("refused")
BY RecordsDomain DEF WriteRecord, Refused, journal, RecordNames, Others

LEMMA ReplaceSplits ==
    ASSUME TypeOK, NEW name \in Names, NEW temporary \in Names, name # temporary, NEW value,
           value # "absent", NEW next, ReplaceRecord(name, temporary, value, next)
    PROVE  /\ areas' = areas
           /\ \/ /\ records[temporary] = "absent" /\ records'[temporary] = value
                 /\ Others({temporary}) /\ Goto(call.at)
              \/ /\ records[temporary] = "absent" /\ records'[temporary] = "torn"
                 /\ Others({temporary}) /\ Ends("interrupted")
              \/ /\ records[temporary] = value /\ records'[name] = value
                 /\ records'[temporary] = "absent" /\ Others({name, temporary}) /\ Goto(next)
              \/ /\ records[temporary] \notin {"absent", value} /\ records' = records
                 /\ Ends("refused")
<1>1. CASE records[temporary] = "absent"
  <2>1. WriteRecord(temporary, value, call.at)  BY <1>1 DEF ReplaceRecord
  <2> QED  BY <1>1, <2>1, WriteSplits
<1>2. CASE records[temporary] # "absent" /\ records[temporary] = value
  <2>1. /\ records' = [records EXCEPT ![name] = value, ![temporary] = "absent"]
        /\ Goto(next) /\ areas' = areas
    BY <1>2 DEF ReplaceRecord
  <2> QED  BY <1>2, <2>1, RecordsDomain DEF RecordNames, Others
<1>3. CASE records[temporary] \notin {"absent", value}
  BY <1>3 DEF ReplaceRecord, Refused, journal
<1> QED  BY <1>1, <1>2, <1>3

LEMMA StateSplits ==
    ASSUME TypeOK, NEW value, value # "absent", NEW next,
           ReplaceRecord("state", "stateTmp", value, next)
    PROVE  /\ areas' = areas
           /\ \/ /\ records.stateTmp = "absent" /\ records'.stateTmp = value
                 /\ Others({"stateTmp"}) /\ Goto(call.at)
              \/ /\ records.stateTmp = "absent" /\ records'.stateTmp = "torn"
                 /\ Others({"stateTmp"}) /\ Ends("interrupted")
              \/ /\ records.stateTmp = value /\ records'.state = value
                 /\ records'.stateTmp = "absent" /\ Others({"state", "stateTmp"}) /\ Goto(next)
              \/ /\ records.stateTmp \notin {"absent", value} /\ records' = records
                 /\ Ends("refused")
<1>1. "state" \in Names /\ "stateTmp" \in Names /\ "state" # "stateTmp"  BY DEF Names
<1> QED  BY <1>1, ReplaceSplits

LEMMA ResultSplits ==
    ASSUME TypeOK, NEW value, value # "absent", NEW next,
           ReplaceRecord("result", "resultTmp", value, next)
    PROVE  /\ areas' = areas
           /\ \/ /\ records.resultTmp = "absent" /\ records'.resultTmp = value
                 /\ Others({"resultTmp"}) /\ Goto(call.at)
              \/ /\ records.resultTmp = "absent" /\ records'.resultTmp = "torn"
                 /\ Others({"resultTmp"}) /\ Ends("interrupted")
              \/ /\ records.resultTmp = value /\ records'.result = value
                 /\ records'.resultTmp = "absent" /\ Others({"result", "resultTmp"}) /\ Goto(next)
              \/ /\ records.resultTmp \notin {"absent", value} /\ records' = records
                 /\ Ends("refused")
<1>1. "result" \in Names /\ "resultTmp" \in Names /\ "result" # "resultTmp"  BY DEF Names
<1> QED  BY <1>1, ReplaceSplits

LEMMA EndsAgreed ==
    ASSUME NEW what, Ends(what), Sound(records')
    PROVE  Agreed'
BY EndsMoves DEF Agreed, Staged, Restoring, Sound, Journal, Pending, Blank

\* A call goes on and the records stay.
LEMMA GoesAgreed ==
    ASSUME Agreed, Framed, records' = records, call'.op = call.op,
           call.op = "apply" => ApplyStage(call'.at, records),
           call.op \in Restoring => RestoreStage(call.op, call'.at, records)
    PROVE  Agreed'
BY DEF Agreed, Framed, Staged, RestoreStage, Blind, ApplyStage, Sound, Journal, Pending, Blank

LEMMA RefusedAgreed == Agreed /\ Refused => Agreed'
<1> SUFFICES ASSUME Agreed, Refused PROVE Agreed'  OBVIOUS
<1>1. Ends("refused") /\ records' = records  BY DEF Refused, journal
<1> QED  BY <1>1, EndsAgreed DEF Agreed

\* The one record that a step writes, and the others it leaves.
LEMMA OthersAre ==
    ASSUME NEW names, Others(names)
    PROVE  /\ "directory" \notin names => records'.directory = records.directory
           /\ "intent" \notin names => records'.intent = records.intent
           /\ "state" \notin names => records'.state = records.state
           /\ "stateTmp" \notin names => records'.stateTmp = records.stateTmp
           /\ "result" \notin names => records'.result = records.result
           /\ "resultTmp" \notin names => records'.resultTmp = records.resultTmp
BY DEF Others, RecordNames, Names

LEMMA WriteIntentAgreed == TypeInv /\ Directed /\ Agreed /\ WriteIntent => Agreed'
<1> SUFFICES ASSUME TypeInv, Directed, Agreed, WriteIntent PROVE Agreed'  OBVIOUS
<1>1. TypeOK /\ call.op = "apply" /\ call.at = "intent"
  BY Runs DEF WriteIntent, At, TypeInv, RestoreAt
<1>2. Blank(records) /\ records.directory # "absent"
  BY <1>1 DEF Agreed, Staged, ApplyStage, Directed
<1>3. WriteRecord("intent", "whole", "backup") /\ "intent" \in Names  BY DEF WriteIntent, Names
<1>4. CASE records'.intent = "whole" /\ Others({"intent"}) /\ Goto("backup")
  <2>1. call'.op = "apply" /\ call'.at = "backup"  BY <1>1, <1>4, GotoMoves
  <2>2. Blank(records') /\ records'.directory # "absent"  BY <1>2, <1>4, OthersAre DEF Blank
  <2> QED
    BY <1>4, <2>1, <2>2
    DEF Agreed, Staged, ApplyStage, Sound, Journal, Pending, Blank, Restoring, Statuses, Terminal
<1>5. CASE records'.intent = "torn" /\ Others({"intent"}) /\ Ends("interrupted")
  <2>1. Blank(records') /\ records'.directory # "absent"  BY <1>2, <1>5, OthersAre DEF Blank
  <2>2. Sound(records')  BY <2>1 DEF Sound, Journal, Pending, Blank, Statuses, Terminal
  <2> QED  BY <1>5, <2>2, EndsAgreed
<1>6. CASE records' = records /\ Ends("refused")
  BY <1>6, EndsAgreed DEF Agreed
<1> QED  BY <1>1, <1>3, <1>4, <1>5, <1>6, WriteSplits

LEMMA PrepareAgreed == TypeInv /\ Agreed /\ Prepare => Agreed'
<1> SUFFICES ASSUME TypeInv, Agreed, Prepare PROVE Agreed'  OBVIOUS
<1>1. TypeOK /\ call.op = "apply" /\ call.at = "prepare"
  BY Runs DEF Prepare, At, TypeInv, RestoreAt
<1>2. Blank(records) /\ records.intent = "whole"
  BY <1>1 DEF Agreed, Staged, ApplyStage
<1>3. WriteRecord("state", "prepared", "begin") /\ "state" \in Names  BY DEF Prepare, Names
<1>4. Sound(records)  BY DEF Agreed
<1>5. ASSUME records'.state \in {"prepared", "torn"}, Others({"state"})
      PROVE  /\ Sound(records')
             /\ records'.intent = "whole" /\ records'.stateTmp = "absent"
             /\ records'.resultTmp = "absent"
  BY <1>2, <1>4, <1>5, OthersAre DEF Sound, Journal, Pending, Blank, Statuses, Terminal
<1>6. CASE records'.state = "prepared" /\ Others({"state"}) /\ Goto("begin")
  <2>1. call'.op = "apply" /\ call'.at = "begin"  BY <1>1, <1>6, GotoMoves
  <2> QED  BY <1>5, <1>6, <2>1 DEF Agreed, Staged, ApplyStage, Restoring, Sound, Journal, Pending, Blank
<1>7. CASE records'.state = "torn" /\ Others({"state"}) /\ Ends("interrupted")
  BY <1>5, <1>7, EndsAgreed
<1>8. CASE records' = records /\ Ends("refused")
  BY <1>8, EndsAgreed DEF Agreed
<1> QED  BY <1>1, <1>3, <1>6, <1>7, <1>8, WriteSplits

LEMMA CopiesAgreed == TypeInv /\ Agreed /\ (BackUp \/ Stage \/ Restage) => Agreed'
<1> SUFFICES ASSUME TypeInv, Agreed, BackUp \/ Stage \/ Restage PROVE Agreed'  OBVIOUS
<1>1. TypeOK /\ Framed  BY Runs DEF TypeInv, BackUp, Stage, Restage
<1>2. CASE Refused
  BY <1>2, RefusedAgreed
<1>3. CASE \E area, left : CopyStops(area, left)
  BY <1>3, EndsAgreed DEF CopyStops, Agreed
<1>4. CASE BackUp /\ Copied("backup") /\ Goto("stage")
  <2>1. call.op = "apply" /\ call.at = "backup"  BY <1>4, Runs DEF BackUp, At, RestoreAt
  <2>2. call'.op = "apply" /\ call'.at = "stage" /\ records' = records
    BY <1>1, <1>4, <2>1, GotoMoves DEF Copied
  <2> QED  BY <1>1, <2>1, <2>2, GoesAgreed DEF Agreed, Staged, ApplyStage, Restoring
<1>5. CASE Stage /\ Copied("stage") /\ Loop("backup", "prepare", call.expected)
  <2>1. call.op = "apply" /\ call.at = "stage"  BY <1>5, Runs DEF Stage, At, RestoreAt
  <2>2. call'.op = "apply" /\ call'.at \in {"backup", "prepare"} /\ records' = records
    BY <1>1, <1>5, <2>1, LoopMoves DEF Copied
  <2> QED  BY <1>1, <2>1, <2>2, GoesAgreed DEF Agreed, Staged, ApplyStage, Restoring
<1>6. CASE Restage /\ records' = records /\ Loop("restage", "begin", call.expected)
  <2>1. call.op \in Restoring /\ call.at = "restage"  BY <1>6, Runs DEF Restage, At, ApplyAt
  <2>2. call'.op = call.op /\ call'.at \in {"restage", "begin"}
    BY <1>1, <1>6, LoopMoves
  <2>3. RestoreStage(call.op, call.at, records)  BY <2>1 DEF Agreed, Staged
  <2>4. RestoreStage(call.op, call'.at, records)  BY <2>1, <2>2, <2>3 DEF RestoreStage, Moving
  <2> QED  BY <1>1, <1>6, <2>1, <2>2, <2>4, GoesAgreed DEF Restoring
<1> QED  BY <1>2, <1>3, <1>4, <1>5, <1>6 DEF BackUp, Stage, Restage, Copied, journal

LEMMA PromoteStateAgreed == TypeInv /\ Agreed /\ PromoteState => Agreed'
<1> SUFFICES ASSUME TypeInv, Agreed, PromoteState PROVE Agreed'  OBVIOUS
<1>1. TypeOK /\ Framed /\ call.op \in Restoring /\ call.at = "promote"
  BY Runs DEF PromoteState, At, TypeInv, ApplyAt
<1>2. RestoreStage(call.op, "promote", records) /\ Sound(records)
  BY <1>1 DEF Agreed, Staged
<1>3. CASE records.stateTmp = "absent" /\ Goto("settle") /\ UNCHANGED journal
  <2>1. call'.op = call.op /\ call'.at = "settle" /\ records' = records
    BY <1>1, <1>3, GotoMoves DEF journal
  <2>2. RestoreStage(call.op, "settle", records)  BY <1>2, <1>3 DEF RestoreStage, Moving
  <2> QED  BY <1>1, <2>1, <2>2, GoesAgreed DEF Restoring
<1>4. CASE /\ ValidPending(records.state, records.stateTmp, records.result)
           /\ records' = [records EXCEPT !.state = records.stateTmp, !.stateTmp = "absent"]
           /\ Goto("settle")
  <2>1. call'.op = call.op /\ call'.at = "settle"  BY <1>1, <1>4, GotoMoves
  <2>2. /\ records'.state = records.stateTmp /\ records'.stateTmp = "absent"
        /\ records'.result = records.result /\ records'.resultTmp = records.resultTmp
        /\ records'.intent = records.intent /\ records'.directory = records.directory
    BY <1>1, <1>4 DEF TypeOK, Records
  <2>3. Sound(records')
    BY <1>2, <1>4, <2>2 DEF Sound, Journal, Pending, Blank, ValidPending, Statuses, Terminal, RestoreStage
  <2>4. RestoreStage(call.op, "settle", records)'
    BY <1>1, <1>2, <2>1, <2>2 DEF RestoreStage, Moving, Blind, Framed
  <2> QED  BY <1>1, <2>1, <2>3, <2>4 DEF Agreed, Staged, Restoring
<1>5. CASE Refused
  BY <1>5, RefusedAgreed
<1> QED  BY <1>3, <1>4, <1>5 DEF PromoteState

LEMMA PromoteResultAgreed == TypeInv /\ Agreed /\ PromoteResult => Agreed'
<1> SUFFICES ASSUME TypeInv, Agreed, PromoteResult PROVE Agreed'  OBVIOUS
<1>1. TypeOK /\ Framed /\ call.op \in Restoring /\ call.at = "settle"
  BY Runs DEF PromoteResult, At, TypeInv, ApplyAt
<1>2. RestoreStage(call.op, "settle", records) /\ Sound(records)
  BY <1>1 DEF Agreed, Staged
<1>3. CASE (Overlooks \/ records.resultTmp = "absent") /\ Goto("decide") /\ UNCHANGED journal
  <2>1. call'.op = call.op /\ call'.at = "decide" /\ records' = records
    BY <1>1, <1>3, GotoMoves DEF journal
  <2>2. RestoreStage(call.op, "decide", records)
    BY <1>2, <1>3 DEF RestoreStage, Moving, Blind, Overlooks
  <2> QED  BY <1>1, <2>1, <2>2, GoesAgreed DEF Restoring
<1>4. CASE /\ ValidResult
           /\ records' = [records EXCEPT !.result = records.resultTmp, !.resultTmp = "absent"]
           /\ Goto("finish")
  <2>1. call'.op = call.op /\ call'.at = "finish"  BY <1>1, <1>4, GotoMoves
  <2>2. /\ records'.result = records.resultTmp /\ records'.resultTmp = "absent"
        /\ records'.state = records.state /\ records'.stateTmp = records.stateTmp
        /\ records'.intent = records.intent /\ records'.directory = records.directory
    BY <1>1, <1>4 DEF TypeOK, Records
  <2>3. Sound(records')
    BY <1>2, <1>4, <2>2 DEF Sound, Journal, Pending, Blank, ValidResult, Statuses, Terminal, RestoreStage
  <2>4. RestoreStage(call.op, "finish", records)'
    BY <1>1, <1>2, <1>4, <2>1, <2>2 DEF RestoreStage, Moving, Blind, Framed, ValidResult, Terminal
  <2> QED  BY <1>1, <2>1, <2>3, <2>4 DEF Agreed, Staged, Restoring
<1>5. CASE Refused
  BY <1>5, RefusedAgreed
<1> QED  BY <1>3, <1>4, <1>5 DEF PromoteResult

LEMMA DecideAgreed == TypeInv /\ Agreed /\ Decide => Agreed'
<1> SUFFICES ASSUME TypeInv, Agreed, Decide PROVE Agreed'  OBVIOUS
<1>1. TypeOK /\ Framed /\ call.op \in Restoring /\ call.at = "decide"
  BY Runs DEF Decide, At, TypeInv, ApplyAt
<1>2. RestoreStage(call.op, "decide", records) /\ Sound(records)
  BY <1>1 DEF Agreed, Staged
<1>3. CASE records.result \in Terminal /\ Goto("finish") /\ UNCHANGED journal
  <2>1. call'.op = call.op /\ call'.at = "finish" /\ records' = records
    BY <1>1, <1>3, GotoMoves DEF journal
  <2>2. RestoreStage(call.op, "finish", records)  BY <1>2 DEF RestoreStage, Moving
  <2> QED  BY <1>1, <2>1, <2>2, GoesAgreed DEF Restoring
<1>4. CASE /\ call.op = "undo" /\ Undoable
           /\ records' = [records EXCEPT !.undoStage = "made"]
           /\ call' = [call EXCEPT !.at = "restage", !.expected = After]
  <2>1. call'.op = "undo" /\ call'.at = "restage"  BY <1>1, <1>4 DEF TypeOK, Calls
  <2>2. /\ records'.result = records.result /\ records'.resultTmp = records.resultTmp
        /\ records'.state = records.state /\ records'.stateTmp = records.stateTmp
        /\ records'.intent = records.intent /\ records'.directory = records.directory
    BY <1>1, <1>4 DEF TypeOK, Records
  <2>3. Sound(records')  BY <1>2, <2>2 DEF Sound, Journal, Pending, Blank
  <2>4. RestoreStage(call.op, "restage", records)'
    BY <1>1, <1>2, <1>4, <2>1, <2>2 DEF RestoreStage, Moving, Blind, Framed, Undoable
  <2> QED  BY <1>1, <2>1, <2>3, <2>4 DEF Agreed, Staged, Restoring
<1>5. CASE /\ call.op = "recover" /\ Recoverable
           /\ call' = [call EXCEPT !.at = "restage", !.expected = source]
           /\ UNCHANGED journal
  <2>1. call'.op = "recover" /\ call'.at = "restage" /\ records' = records
    BY <1>1, <1>5 DEF TypeOK, Calls, journal
  <2>2. RestoreStage(call.op, "restage", records)
    BY <1>2, <1>5 DEF RestoreStage, Moving, Blind, Recoverable
  <2> QED  BY <1>1, <1>5, <2>1, <2>2, GoesAgreed DEF Restoring
<1>6. CASE Refused
  BY <1>6, RefusedAgreed
<1> QED  BY <1>3, <1>4, <1>5, <1>6 DEF Decide

LEMMA BeginAgreed == TypeInv /\ Agreed /\ Begin => Agreed'
<1> SUFFICES ASSUME TypeInv, Agreed, Begin PROVE Agreed'  OBVIOUS
<1>1. TypeOK /\ Framed /\ call.op \in {"apply"} \union Restoring /\ call.at = "begin"
  BY Runs DEF Begin, At, TypeInv
<1>2. PICK phase : phase = IF call.op = "apply" THEN "applying" ELSE "undoing"  OBVIOUS
<1>3. /\ ReplaceRecord("state", "stateTmp", phase, "check")
      /\ phase # "absent" /\ "state" \in Names /\ "stateTmp" \in Names
  BY <1>2 DEF Begin, Names
<1>4. /\ Sound(records)
      /\ call.op = "apply" => ApplyStage("begin", records)
      /\ call.op \in Restoring => RestoreStage(call.op, "begin", records)
  BY <1>1 DEF Agreed, Staged
<1>5. ASSUME records'.stateTmp \in {phase, "torn"}, Others({"stateTmp"})
      PROVE  Sound(records')
  BY <1>1, <1>2, <1>4, <1>5, OthersAre
  DEF Sound, Journal, Pending, Blank, Statuses, Terminal, ApplyStage, RestoreStage, Restoring, Moving
<1>6. CASE records'.stateTmp = phase /\ Others({"stateTmp"}) /\ Goto(call.at)
  <2>1. call'.op = call.op /\ call'.at = "begin"  BY <1>1, <1>6, GotoMoves
  <2>2. call.op = "apply" => ApplyStage("begin", records')
    BY <1>2, <1>4, <1>6, OthersAre DEF ApplyStage
  <2>3. call.op \in Restoring => RestoreStage(call.op, "begin", records)'
    BY <1>1, <1>2, <1>4, <1>6, <2>1, OthersAre DEF RestoreStage, Moving, Blind, Framed, Restoring
  <2> QED  BY <1>5, <1>6, <2>1, <2>2, <2>3 DEF Agreed, Staged, ApplyStage, Blank
<1>7. CASE records'.stateTmp = "torn" /\ Others({"stateTmp"}) /\ Ends("interrupted")
  BY <1>5, <1>7, EndsAgreed
<1>8. CASE /\ records'.state = phase /\ records'.stateTmp = "absent"
           /\ Others({"state", "stateTmp"}) /\ Goto("check")
  <2>1. call'.op = call.op /\ call'.at = "check"  BY <1>1, <1>8, GotoMoves
  <2>2. Sound(records')
    BY <1>1, <1>2, <1>4, <1>8, OthersAre
    DEF Sound, Journal, Pending, Blank, Statuses, Terminal, ApplyStage, RestoreStage, Restoring, Moving
  <2>3. call.op = "apply" => ApplyStage("check", records')
    BY <1>2, <1>4, <1>8, OthersAre DEF ApplyStage, Sound, Journal
  <2>4. call.op \in Restoring => RestoreStage(call.op, "check", records)'
    BY <1>1, <1>2, <1>4, <1>8, <2>1, OthersAre DEF RestoreStage, Moving, Blind, Framed, Restoring
  <2> QED  BY <2>1, <2>2, <2>3, <2>4 DEF Agreed, Staged, ApplyStage, Blank
<1>9. CASE records' = records /\ Ends("refused")
  BY <1>9, EndsAgreed DEF Agreed
<1> QED  BY <1>1, <1>3, <1>6, <1>7, <1>8, <1>9, StateSplits

LEMMA CheckAgreed == TypeInv /\ Agreed /\ (Check \/ Swap) => Agreed'
<1> SUFFICES ASSUME TypeInv, Agreed, Check \/ Swap PROVE Agreed'  OBVIOUS
<1>1. TypeOK /\ Framed /\ call.op \in {"apply"} \union Restoring /\ call.at \in {"check", "swap"}
  BY Runs DEF Check, Swap, At, TypeInv
<1>2. ASSUME records' = records, call'.op = call.op, call'.at \in {"check", "swap", "verify"}
      PROVE  Agreed'
  <2>1. call.op = "apply" => ApplyStage(call'.at, records)
    BY <1>1, <1>2 DEF Agreed, Staged, ApplyStage
  <2>2. call.op \in Restoring => RestoreStage(call.op, call'.at, records)
    BY <1>1, <1>2 DEF Agreed, Staged, RestoreStage, Moving
  <2> QED  BY <1>1, <1>2, <2>1, <2>2, GoesAgreed
<1>3. CASE Refused
  BY <1>3, RefusedAgreed
<1>4. CASE records' = records /\ \E seen : Loop("check", "verify", seen)
  BY <1>1, <1>2, <1>4, LoopMoves
<1>5. CASE records' = records /\ call' = [call EXCEPT !.at = "swap", !.raced = FALSE]
  BY <1>1, <1>2, <1>5 DEF TypeOK, Calls
<1> QED  BY <1>3, <1>4, <1>5 DEF Check, Swap, journal

LEMMA VerifyAgreed == TypeInv /\ Agreed /\ Verify => Agreed'
<1> SUFFICES ASSUME TypeInv, Agreed, Verify PROVE Agreed'  OBVIOUS
<1>1. TypeOK /\ Framed /\ call.op \in {"apply"} \union Restoring /\ call.at = "verify"
  BY Runs DEF Verify, At, TypeInv
<1>2. CASE Refused
  BY <1>2, RefusedAgreed
<1>3. CASE Goto("record") /\ UNCHANGED journal
  <2>1. call'.op = call.op /\ call'.at = "record" /\ records' = records
    BY <1>1, <1>3, GotoMoves DEF journal
  <2>2. call.op = "apply" => ApplyStage("record", records)
    BY <1>1 DEF Agreed, Staged, ApplyStage
  <2>3. call.op \in Restoring => RestoreStage(call.op, "record", records)
    BY <1>1 DEF Agreed, Staged, RestoreStage, Moving
  <2> QED  BY <1>1, <2>1, <2>2, <2>3, GoesAgreed
<1> QED  BY <1>2, <1>3 DEF Verify

LEMMA RecordAgreed == TypeInv /\ Agreed /\ Record => Agreed'
<1> SUFFICES ASSUME TypeInv, Agreed, Record PROVE Agreed'  OBVIOUS
<1>1. TypeOK /\ Framed /\ call.op \in {"apply"} \union Restoring /\ call.at = "record"
  BY Runs DEF Record, At, TypeInv
<1>2. CASE call.op = "apply"
  <2>1. WriteRecord("result", "applied", "complete") /\ "result" \in Names
    BY <1>2 DEF Record, Outcome, Names
  <2>2. ApplyStage("record", records) /\ Sound(records)  BY <1>1, <1>2 DEF Agreed, Staged
  <2>3. ASSUME records'.result \in {"applied", "torn"}, Others({"result"}) PROVE Sound(records')
    BY <2>2, <2>3, OthersAre DEF Sound, Journal, Pending, Blank, Statuses, Terminal, ApplyStage
  <2>4. CASE records'.result = "applied" /\ Others({"result"}) /\ Goto("complete")
    <3>1. call'.op = "apply" /\ call'.at = "complete"  BY <1>1, <1>2, <2>4, GotoMoves
    <3>2. ApplyStage("complete", records')  BY <2>2, <2>4, OthersAre DEF ApplyStage
    <3> QED  BY <2>3, <2>4, <3>1, <3>2 DEF Agreed, Staged, ApplyStage, Blank, Restoring
  <2>5. CASE records'.result = "torn" /\ Others({"result"}) /\ Ends("interrupted")
    BY <2>3, <2>5, EndsAgreed
  <2>6. CASE records' = records /\ Ends("refused")
    BY <2>6, EndsAgreed DEF Agreed
  <2> QED  BY <1>1, <2>1, <2>4, <2>5, <2>6, WriteSplits
<1>3. CASE call.op \in Restoring
  <2>1. PICK status : status = Outcome  OBVIOUS
  <2>2. /\ ReplaceRecord("result", "resultTmp", status, "complete") /\ status \in Terminal
        /\ status = IF call.op = "undo" THEN "undone" ELSE "recovered"
    BY <1>3, <2>1 DEF Record, Outcome, Restoring, Terminal
  <2>3. status # "absent"  BY <2>2 DEF Terminal
  <2>4. RestoreStage(call.op, "record", records) /\ Sound(records)
    BY <1>1, <1>3 DEF Agreed, Staged
  <2>5. ASSUME records'.resultTmp \in {status, "torn"}, Others({"resultTmp"}) PROVE Sound(records')
    BY <2>2, <2>4, <2>5, OthersAre
    DEF Sound, Journal, Pending, Blank, Statuses, Terminal, RestoreStage, Moving
  <2>6. CASE records'.resultTmp = status /\ Others({"resultTmp"}) /\ Goto(call.at)
    <3>1. call'.op = call.op /\ call'.at = "record"  BY <1>1, <2>6, GotoMoves
    <3>2. RestoreStage(call.op, "record", records)'
      BY <1>1, <2>2, <2>4, <2>6, <3>1, OthersAre DEF RestoreStage, Moving, Blind, Framed
    <3> QED  BY <1>3, <2>5, <2>6, <3>1, <3>2 DEF Agreed, Staged, Restoring
  <2>7. CASE records'.resultTmp = "torn" /\ Others({"resultTmp"}) /\ Ends("interrupted")
    BY <2>5, <2>7, EndsAgreed
  <2>8. CASE /\ records'.result = status /\ records'.resultTmp = "absent"
             /\ Others({"result", "resultTmp"}) /\ Goto("complete")
    <3>1. call'.op = call.op /\ call'.at = "complete"  BY <1>1, <2>8, GotoMoves
    <3>2. Sound(records')
      BY <2>2, <2>4, <2>8, OthersAre
      DEF Sound, Journal, Pending, Blank, Statuses, Terminal, RestoreStage, Moving
    <3>3. RestoreStage(call.op, "complete", records)'
      BY <1>1, <2>2, <2>4, <2>8, <3>1, OthersAre DEF RestoreStage, Moving, Blind, Framed, Terminal
    <3> QED  BY <1>3, <3>1, <3>2, <3>3 DEF Agreed, Staged, Restoring
  <2>9. CASE records' = records /\ Ends("refused")
    BY <2>9, EndsAgreed DEF Agreed
  <2> QED  BY <1>1, <2>2, <2>3, <2>6, <2>7, <2>8, <2>9, ResultSplits
<1> QED  BY <1>1, <1>2, <1>3

LEMMA CompleteAgreed == TypeInv /\ Agreed /\ Complete => Agreed'
<1> SUFFICES ASSUME TypeInv, Agreed, Complete PROVE Agreed'  OBVIOUS
<1>1. TypeOK /\ Framed /\ call.op \in {"apply"} \union Restoring /\ call.at = "complete"
  BY Runs DEF Complete, At, TypeInv
<1>2. PICK phase : phase = PhaseOf(records.result)  OBVIOUS
<1>3. /\ call.op = "apply" => records.result = "applied" /\ phase = "complete"
      /\ call.op \in Restoring => records.result \in Terminal /\ phase = records.result
  BY <1>1, <1>2 DEF TypeInv, Resulted, PhaseOf, Terminal
<1>4. ReplaceRecord("state", "stateTmp", phase, "return") /\ phase # "absent"
  BY <1>1, <1>2, <1>3 DEF Complete, Terminal
<1>5. /\ Sound(records)
      /\ call.op = "apply" => ApplyStage("complete", records)
      /\ call.op \in Restoring => RestoreStage(call.op, "complete", records)
  BY <1>1 DEF Agreed, Staged
<1>6. ASSUME records'.stateTmp \in {phase, "torn"}, Others({"stateTmp"})
      PROVE  Sound(records')
  BY <1>1, <1>3, <1>5, <1>6, OthersAre
  DEF Sound, Journal, Pending, Blank, Statuses, Terminal, ApplyStage, RestoreStage, Restoring, Moving
<1>7. CASE records'.stateTmp = phase /\ Others({"stateTmp"}) /\ Goto(call.at)
  <2>1. call'.op = call.op /\ call'.at = "complete"  BY <1>1, <1>7, GotoMoves
  <2>2. call.op = "apply" => ApplyStage("complete", records')
    BY <1>3, <1>5, <1>7, OthersAre DEF ApplyStage
  <2>3. call.op \in Restoring => RestoreStage(call.op, "complete", records)'
    BY <1>1, <1>3, <1>5, <1>7, <2>1, OthersAre DEF RestoreStage, Moving, Blind, Framed, Restoring
  <2> QED  BY <1>6, <1>7, <2>1, <2>2, <2>3 DEF Agreed, Staged, ApplyStage, Blank
<1>8. CASE records'.stateTmp = "torn" /\ Others({"stateTmp"}) /\ Ends("interrupted")
  BY <1>6, <1>8, EndsAgreed
<1>9. CASE /\ records'.state = phase /\ records'.stateTmp = "absent"
           /\ Others({"state", "stateTmp"}) /\ Goto("return")
  <2>1. call'.op = call.op /\ call'.at = "return"  BY <1>1, <1>9, GotoMoves
  <2>2. Sound(records')
    BY <1>1, <1>3, <1>5, <1>9, OthersAre
    DEF Sound, Journal, Pending, Blank, Statuses, Terminal, ApplyStage, RestoreStage, Restoring, Moving
  <2>3. call.op = "apply" => ApplyStage("return", records')
    BY <1>3, <1>5, <1>9, OthersAre DEF ApplyStage
  <2>4. call.op \in Restoring => RestoreStage(call.op, "return", records)'
    BY <1>1, <1>3, <1>5, <1>9, <2>1, OthersAre DEF RestoreStage, Moving, Blind, Framed, Restoring
  <2> QED  BY <2>1, <2>2, <2>3, <2>4 DEF Agreed, Staged, ApplyStage, Blank
<1>10. CASE records' = records /\ Ends("refused")
  BY <1>10, EndsAgreed DEF Agreed
<1> QED  BY <1>1, <1>4, <1>7, <1>8, <1>9, <1>10, StateSplits

LEMMA FinishAgreed == TypeInv /\ Agreed /\ (Finish \/ Return) => Agreed'
<1> SUFFICES ASSUME TypeInv, Agreed, Finish \/ Return PROVE Agreed'  OBVIOUS
<1>1. TypeOK /\ Framed  BY Runs DEF Finish, Return, TypeInv
<1>2. CASE Refused
  BY <1>2, RefusedAgreed
<1>3. CASE Return
  BY <1>3, EndsAgreed DEF Return, journal, Agreed
<1>4. CASE Finish /\ UNCHANGED journal /\ \/ records.state = "undoing" /\ Goto("complete")
                                          \/ records.state = records.result /\ Goto("return")
  <2>1. call.op \in Restoring /\ call.at = "finish"  BY <1>4, Runs DEF Finish, At, ApplyAt
  <2>2. /\ call'.op = call.op /\ records' = records
        /\ \/ records.state = "undoing" /\ call'.at = "complete"
           \/ records.state = records.result /\ call'.at = "return"
    BY <1>1, <1>4, GotoMoves DEF journal
  <2>3. RestoreStage(call.op, "finish", records)  BY <2>1 DEF Agreed, Staged
  <2>4. RestoreStage(call.op, call'.at, records)  BY <2>2, <2>3 DEF RestoreStage, Moving
  <2> QED  BY <1>1, <2>1, <2>2, <2>4, GoesAgreed DEF Restoring
<1> QED  BY <1>2, <1>3, <1>4 DEF Finish

LEMMA AdvanceAgreed == TypeInv /\ Directed /\ Agreed /\ Advance => Agreed'
BY WriteIntentAgreed, PrepareAgreed, CopiesAgreed, PromoteStateAgreed, PromoteResultAgreed,
   DecideAgreed, BeginAgreed, CheckAgreed, VerifyAgreed, RecordAgreed, CompleteAgreed, FinishAgreed
DEF Advance

LEMMA InitAgreed == Init => Agreed
BY DEF Init, Idle, Agreed, Staged, Sound, Journal, Pending, Blank, Restoring, Statuses, Terminal

LEMMA NextAgreed == TypeInv /\ Directed /\ Agreed /\ [Next]_vars => Agreed'
<1> SUFFICES ASSUME TypeInv, Directed, Agreed, [Next]_vars PROVE Agreed'  OBVIOUS
<1>0. TypeOK  BY DEF TypeInv
<1>1. CASE Advance
  BY <1>1, AdvanceAgreed
<1>2. CASE StartApply
  <2>1. Blank(records) /\ records.intent = "absent"
    BY <1>2 DEF StartApply, Agreed, Sound
  <2>2. /\ records'.result = records.result /\ records'.resultTmp = records.resultTmp
        /\ records'.state = records.state /\ records'.stateTmp = records.stateTmp
        /\ records'.intent = records.intent
    BY <1>0, <1>2 DEF StartApply, TypeOK, Records
  <2>3. call'.op = "apply" /\ call'.at = "intent"  BY <1>2 DEF StartApply, Idle
  <2>4. Blank(records') /\ records'.intent = "absent"  BY <2>1, <2>2 DEF Blank
  <2>5. Sound(records') /\ ApplyStage("intent", records')
    BY <2>4 DEF Sound, Journal, Pending, Blank, ApplyStage, Statuses, Terminal
  <2> QED  BY <2>3, <2>5 DEF Agreed, Staged, ApplyStage, Restoring, Blank
<1>3. CASE \E op \in Restoring : StartRestore(op)
  <2>1. PICK op \in Restoring : StartRestore(op)  BY <1>3
  <2>2. /\ call'.op = op /\ call'.at = "promote" /\ records' = records /\ writer' = writer
        /\ records.intent = "whole" /\ records.result # "torn"
    BY <2>1 DEF StartRestore, Idle, journal, At
  <2>3. RestoreStage(op, "promote", records)  BY <2>2 DEF RestoreStage, Moving
  <2>4. Sound(records')  BY <2>2 DEF Agreed
  <2> QED  BY <2>1, <2>2, <2>3, <2>4 DEF Agreed, Staged, Restoring, RestoreStage, Moving
<1>4. CASE Interrupt
  BY <1>4, EndsAgreed DEF Interrupt, journal, Agreed
<1>5. CASE ApplyAgain \/ UNCHANGED vars
  BY <1>5 DEF ApplyAgain, At, vars, journal, Agreed, Sound, Journal, Pending, Blank, Staged,
              ApplyStage, RestoreStage, Moving, Blind
<1>6. CASE \E p \in Paths \union {0}, content \in Contents : Edit(p, content)
  <2>1. /\ records' = records /\ writer' = writer
        /\ call'.op = call.op /\ call'.at = call.at
    BY <1>0, <1>6 DEF Edit, TypeOK, Calls, journal
  <2> QED
    BY <2>1 DEF Agreed, Sound, Journal, Pending, Blank, Staged, ApplyStage, RestoreStage, Moving, Blind
<1> QED  BY <1>1, <1>2, <1>3, <1>4, <1>5, <1>6 DEF Next, Restoring
-----------------------------------------------------------------------------
(* The records tell the truth of files that nobody else has touched, and a *)
(* call knows how far it has come with them.                               *)
Told(s, r) ==
    /\ r.state \in {"absent", "torn", "prepared"} => s = Before
    /\ r.state = "applying" /\ r.result = "applied" => s = After
    /\ r.state = "complete" => s = After
    /\ r.result \in Terminal => s = Before
    /\ r.resultTmp \in Statuses => s = Before
Ours(s) ==
    \A p \in 0..Files : s[p] = "original" \/ (p \in Paths /\ s[p] = "replacement")
Seeing == {"intent", "backup", "stage", "prepare", "restage", "begin", "check", "swap", "verify"}
Progress ==
    /\ call.at \in Seeing => source = call.expected
    /\ call.at \in {"prepare", "begin"} => call.path = 1
    /\ call.at \in {"check", "swap"} => \A p \in Paths : p < call.path => source[p] = Put
    /\ call.at = "verify" => \A p \in Paths : source[p] = Put
    /\ call.at = "record" => source = Goal
    /\ call.at \in Moving => records.resultTmp \notin Statuses
Truthful == Ours(source) /\ Told(source, records) /\ Progress
Untouched == ~touched => Truthful

LEMMA BothWays ==
    /\ Ours(Before) /\ Ours(After) /\ Before # After
    /\ \A p \in Paths : p \in 0..Files /\ p \in Nat /\ p <= Last
<1>1. 1 \in Paths /\ 1 \in 0..Files  BY FilesAssumption DEF Paths
<1>2. Before[1] # After[1]  BY <1>1 DEF Before, After
<1>3. \A p \in Paths : p \in 0..Files /\ p \in Nat /\ p <= Last
  BY FilesAssumption DEF Paths, Last
<1> QED  BY <1>2, <1>3 DEF Ours, Before, After

\* A call that has ended knows nothing.
LEMMA EndsUntouched ==
    ASSUME NEW what, Ends(what), Framed, source' = source, Untouched,
           ~touched => Told(source, records')
    PROVE  Untouched'
<1>1. call'.at = "idle"  BY EndsMoves
<1>2. Progress'  BY <1>1 DEF Progress, Seeing, Moving
<1>3. Paths' = Paths  BY DEF Framed, Paths
<1> QED  BY <1>2, <1>3 DEF Untouched, Truthful, Framed, Ours, Told, Before, After

LEMMA RefusedUntouched ==
    ASSUME Untouched, Framed, Refused, source' = source
    PROVE  Untouched'
<1>1. Ends("refused") /\ records' = records  BY DEF Refused, journal
<1> QED  BY <1>1, EndsUntouched DEF Untouched, Truthful

\* The files stay as they are; what the records tell and where the call is have to be seen.
LEMMA StaysUntouched ==
    ASSUME Framed, source' = source, Untouched,
           ~touched /\ Truthful => Told(source, records') /\ Progress'
    PROVE  Untouched'
<1>1. Paths' = Paths  BY DEF Framed, Paths
<1> QED  BY <1>1 DEF Untouched, Truthful, Framed, Ours, Told, Before, After

LEMMA ToldStays ==
    ASSUME Told(source, records), records'.state = records.state,
           records'.result = records.result, records'.resultTmp = records.resultTmp
    PROVE  Told(source, records')
BY DEF Told

LEMMA WriteIntentUntouched == TypeInv /\ Agreed /\ Untouched /\ WriteIntent => Untouched'
<1> SUFFICES ASSUME TypeInv, Agreed, Untouched, WriteIntent PROVE Untouched'  OBVIOUS
<1>1. TypeOK /\ Framed /\ call.at = "intent" /\ source' = source
  BY Runs DEF WriteIntent, At, TypeInv
<1>2. WriteRecord("intent", "whole", "backup") /\ "intent" \in Names  BY DEF WriteIntent, Names
<1>3. CASE Others({"intent"}) /\ Goto("backup")
  <2>1. call'.at = "backup" /\ call'.expected = call.expected  BY <1>1, <1>3, GotoMoves
  <2>2. ~touched /\ Truthful => Told(source, records')
    BY <1>3, OthersAre, ToldStays DEF Truthful
  <2>3. Truthful => Progress'
    BY <1>1, <2>1 DEF Truthful, Progress, Seeing, Moving
  <2> QED  BY <1>1, <2>2, <2>3, StaysUntouched
<1>4. CASE Others({"intent"}) /\ Ends("interrupted")
  <2>1. ~touched => Told(source, records')
    BY <1>4, OthersAre, ToldStays DEF Truthful, Untouched
  <2> QED  BY <1>1, <1>4, <2>1, EndsUntouched
<1>5. CASE records' = records /\ Ends("refused")
  BY <1>1, <1>5, EndsUntouched DEF Untouched, Truthful
<1> QED  BY <1>1, <1>2, <1>3, <1>4, <1>5, WriteSplits

LEMMA PrepareUntouched == TypeInv /\ Agreed /\ Untouched /\ Prepare => Untouched'
<1> SUFFICES ASSUME TypeInv, Agreed, Untouched, Prepare PROVE Untouched'  OBVIOUS
<1>1. TypeOK /\ Framed /\ call.op = "apply" /\ call.at = "prepare" /\ source' = source
  BY Runs DEF Prepare, At, TypeInv, RestoreAt
<1>2. WriteRecord("state", "prepared", "begin") /\ "state" \in Names  BY DEF Prepare, Names
<1>3. Blank(records)  BY <1>1 DEF Agreed, Staged, ApplyStage
<1>4. ASSUME records'.state \in {"prepared", "torn"}, Others({"state"}), Truthful
      PROVE  Told(source, records') /\ records'.resultTmp = "absent"
  BY <1>3, <1>4, OthersAre DEF Told, Truthful, Blank, Terminal, Statuses
<1>5. CASE records'.state = "prepared" /\ Others({"state"}) /\ Goto("begin")
  <2>1. call'.at = "begin" /\ call'.expected = call.expected /\ call'.path = call.path
    BY <1>1, <1>5, GotoMoves
  <2>2. Truthful => Progress'
    BY <1>1, <1>4, <1>5, <2>1 DEF Truthful, Progress, Seeing, Moving, Statuses, Terminal
  <2> QED  BY <1>1, <1>4, <1>5, <2>2, StaysUntouched
<1>6. CASE records'.state = "torn" /\ Others({"state"}) /\ Ends("interrupted")
  BY <1>1, <1>4, <1>6, EndsUntouched DEF Untouched
<1>7. CASE records' = records /\ Ends("refused")
  BY <1>1, <1>7, EndsUntouched DEF Untouched, Truthful
<1> QED  BY <1>1, <1>2, <1>5, <1>6, <1>7, WriteSplits

LEMMA CopiesUntouched == TypeInv /\ Untouched /\ (BackUp \/ Stage \/ Restage) => Untouched'
<1> SUFFICES ASSUME TypeInv, Untouched, BackUp \/ Stage \/ Restage PROVE Untouched'  OBVIOUS
<1>1. /\ TypeOK /\ Framed /\ source' = source
      /\ call.at \in {"backup", "stage", "restage"}
  BY Runs DEF TypeInv, BackUp, Stage, Restage, At
<1>2. CASE Refused
  BY <1>1, <1>2, RefusedUntouched
<1>3. CASE \E area, left : CopyStops(area, left)
  BY <1>1, <1>3, EndsUntouched DEF CopyStops, Untouched, Truthful
<1>4. CASE records' = records /\ Goto("stage")
  <2>1. call'.at = "stage" /\ call'.expected = call.expected  BY <1>1, <1>4, GotoMoves
  <2>2. Truthful => Told(source, records') /\ Progress'
    BY <1>1, <1>4, <2>1 DEF Truthful, Progress, Seeing, Moving
  <2> QED  BY <1>1, <2>2, StaysUntouched
<1>5. CASE Stage /\ records' = records /\ Loop("backup", "prepare", call.expected)
  <2>1. /\ call'.at \in {"backup", "prepare"} /\ call'.expected = call.expected
        /\ call'.at = "prepare" => call'.path = 1
    BY <1>1, <1>5, LoopMoves
  <2>2. Truthful => Told(source, records') /\ Progress'
    BY <1>1, <1>5, <2>1 DEF Truthful, Progress, Seeing, Moving
  <2> QED  BY <1>1, <2>2, StaysUntouched
<1>6. CASE Restage /\ records' = records /\ Loop("restage", "begin", call.expected)
  <2>1. /\ call.at = "restage"
        /\ call'.at \in {"restage", "begin"} /\ call'.expected = call.expected
        /\ call'.at = "begin" => call'.path = 1
    BY <1>1, <1>6, LoopMoves DEF Restage, At
  <2>2. Truthful => Told(source, records') /\ Progress'
    BY <1>1, <1>6, <2>1 DEF Truthful, Progress, Seeing, Moving
  <2> QED  BY <1>1, <2>2, StaysUntouched
<1> QED  BY <1>2, <1>3, <1>4, <1>5, <1>6 DEF BackUp, Stage, Restage, Copied, journal

\* A call goes to a place of which nothing is said.
LEMMA GoesUntouched ==
    ASSUME TypeInv, Framed, source' = source, Untouched, NEW label, Goto(label),
           label \notin Seeing \union {"record"},
           ~touched /\ Truthful => Told(source, records')
    PROVE  Untouched'
<1>1. call'.at = label  BY GotoMoves DEF TypeInv
<1>2. Progress'  BY <1>1 DEF Progress, Seeing, Moving
<1> QED  BY <1>2, StaysUntouched

LEMMA PromoteStateUntouched == TypeInv /\ Agreed /\ Untouched /\ PromoteState => Untouched'
<1> SUFFICES ASSUME TypeInv, Agreed, Untouched, PromoteState PROVE Untouched'  OBVIOUS
<1>1. TypeOK /\ Framed /\ source' = source
  BY Runs DEF PromoteState, TypeInv
<1>2. "settle" \notin Seeing \union {"record"}  BY DEF Seeing
<1>3. CASE Goto("settle") /\ UNCHANGED journal
  BY <1>1, <1>2, <1>3, GoesUntouched DEF journal, Truthful
<1>4. CASE /\ ValidPending(records.state, records.stateTmp, records.result)
           /\ records' = [records EXCEPT !.state = records.stateTmp, !.stateTmp = "absent"]
           /\ Goto("settle")
  <2>1. /\ records'.state = records.stateTmp
        /\ records'.result = records.result /\ records'.resultTmp = records.resultTmp
    BY <1>1, <1>4 DEF TypeOK, Records
  <2>2. Pending(records) /\ Journal(records)  BY DEF Agreed, Sound
  <2>3. Truthful => Told(source, records')
    BY <1>4, <2>1, <2>2 DEF Told, Truthful, ValidPending, Pending, Journal, Terminal
  <2> QED  BY <1>1, <1>2, <1>4, <2>3, GoesUntouched
<1>5. CASE Refused
  BY <1>1, <1>5, RefusedUntouched
<1> QED  BY <1>3, <1>4, <1>5 DEF PromoteState

LEMMA PromoteResultUntouched == TypeInv /\ Untouched /\ PromoteResult => Untouched'
<1> SUFFICES ASSUME TypeInv, Untouched, PromoteResult PROVE Untouched'  OBVIOUS
<1>1. TypeOK /\ Framed /\ source' = source
  BY Runs DEF PromoteResult, TypeInv
<1>2. {"decide", "finish"} \intersect (Seeing \union {"record"}) = {}  BY DEF Seeing
<1>3. CASE Goto("decide") /\ UNCHANGED journal
  BY <1>1, <1>2, <1>3, GoesUntouched DEF journal, Truthful
<1>4. CASE /\ ValidResult
           /\ records' = [records EXCEPT !.result = records.resultTmp, !.resultTmp = "absent"]
           /\ Goto("finish")
  <2>1. records'.state = records.state /\ records'.resultTmp = "absent"
    BY <1>1, <1>4 DEF TypeOK, Records
  <2>2. source = Before /\ records.state = "undoing"  BY <1>4 DEF ValidResult
  <2>3. Told(source, records')
    BY <2>1, <2>2 DEF Told, Statuses, Terminal
  <2> QED  BY <1>1, <1>2, <1>4, <2>3, GoesUntouched
<1>5. CASE Refused
  BY <1>1, <1>5, RefusedUntouched
<1> QED  BY <1>3, <1>4, <1>5 DEF PromoteResult

LEMMA DecideUntouched == TypeInv /\ Agreed /\ Untouched /\ Decide => Untouched'
<1> SUFFICES ASSUME TypeInv, Agreed, Untouched, Decide PROVE Untouched'  OBVIOUS
<1>1. /\ TypeOK /\ Framed /\ source' = source
      /\ call.op \in Restoring /\ call.at = "decide"
  BY Runs DEF Decide, At, TypeInv, ApplyAt
<1>2. CASE Goto("finish") /\ UNCHANGED journal
  <2>1. "finish" \notin Seeing \union {"record"}  BY DEF Seeing
  <2> QED  BY <1>1, <1>2, <2>1, GoesUntouched DEF journal, Truthful
<1>3. CASE /\ Undoable
           /\ records' = [records EXCEPT !.undoStage = "made"]
           /\ call' = [call EXCEPT !.at = "restage", !.expected = After]
  <2>1. /\ records'.state = records.state /\ records'.result = records.result
        /\ records'.resultTmp = records.resultTmp
    BY <1>1, <1>3 DEF TypeOK, Records
  <2>2. call'.at = "restage" /\ call'.expected = After  BY <1>1, <1>3 DEF TypeOK, Calls
  <2>3. source = After /\ source # Before  BY <1>3, BothWays DEF Undoable
  <2>4. Truthful => Told(source, records') /\ records'.resultTmp \notin Statuses
    BY <2>1, <2>3, ToldStays DEF Truthful, Told
  <2>5. Truthful => Progress'
    BY <1>1, <2>2, <2>3, <2>4 DEF Progress
  <2> QED  BY <1>1, <2>4, <2>5, StaysUntouched
<1>4. CASE /\ call.op = "recover" /\ UNCHANGED journal
           /\ call' = [call EXCEPT !.at = "restage", !.expected = source]
  <2>1. call'.at = "restage" /\ call'.expected = source  BY <1>1, <1>4 DEF TypeOK, Calls
  <2>2. records.resultTmp \notin Statuses
    BY <1>1, <1>4 DEF Agreed, Staged, RestoreStage, Blind, Moving, Statuses, Terminal
  <2>3. Progress'
    BY <1>1, <1>4, <2>1, <2>2 DEF Progress, journal
  <2> QED  BY <1>1, <1>4, <2>3, StaysUntouched DEF journal, Truthful
<1>5. CASE Refused
  BY <1>1, <1>5, RefusedUntouched
<1> QED  BY <1>2, <1>3, <1>4, <1>5 DEF Decide

LEMMA BeginUntouched == TypeInv /\ Agreed /\ Untouched /\ Begin => Untouched'
<1> SUFFICES ASSUME TypeInv, Agreed, Untouched, Begin PROVE Untouched'  OBVIOUS
<1>1. /\ TypeOK /\ Framed /\ source' = source /\ call.at = "begin"
      /\ call.op \in {"apply"} \union Restoring
  BY Runs DEF Begin, At, TypeInv
<1>2. PICK phase : phase = IF call.op = "apply" THEN "applying" ELSE "undoing"  OBVIOUS
<1>3. ReplaceRecord("state", "stateTmp", phase, "check") /\ phase # "absent"
  BY <1>2 DEF Begin
<1>4. CASE Others({"stateTmp"}) /\ Goto(call.at)
  <2>1. call'.at = "begin" /\ call'.expected = call.expected /\ call'.path = call.path
    BY <1>1, <1>4, GotoMoves
  <2>2. records'.resultTmp = records.resultTmp  BY <1>4, OthersAre
  <2>3. Truthful => Told(source, records')  BY <1>4, OthersAre, ToldStays DEF Truthful
  <2>4. Truthful => Progress'  BY <1>1, <2>1, <2>2 DEF Truthful, Progress, Seeing, Moving
  <2> QED  BY <1>1, <2>3, <2>4, StaysUntouched
<1>5. CASE Others({"stateTmp"}) /\ Ends("interrupted")
  <2>1. ~touched => Told(source, records')
    BY <1>5, OthersAre, ToldStays DEF Truthful, Untouched
  <2> QED  BY <1>1, <1>5, <2>1, EndsUntouched
<1>6. CASE records'.state = phase /\ Others({"state", "stateTmp"}) /\ Goto("check")
  <2>1. call'.at = "check" /\ call'.expected = call.expected /\ call'.path = call.path
    BY <1>1, <1>6, GotoMoves
  <2>2. records'.resultTmp = records.resultTmp /\ records'.result = records.result
    BY <1>6, OthersAre
  <2>3. phase = "applying" => records.result = "absent"
    BY <1>1, <1>2 DEF Agreed, Staged, ApplyStage, Sound, Journal
  <2>4. Truthful => Told(source, records')
    BY <1>2, <1>6, <2>2, <2>3 DEF Told, Truthful, Terminal
  <2>5. \A p \in Paths : ~(p < 1)  BY FilesAssumption DEF Paths
  <2>6. Paths' = Paths  BY <1>1 DEF Framed, Paths
  <2>7. Truthful => Progress'
    BY <1>1, <2>1, <2>2, <2>5, <2>6 DEF Truthful, Progress, Seeing, Moving
  <2> QED  BY <1>1, <2>4, <2>7, StaysUntouched
<1>7. CASE records' = records /\ Ends("refused")
  BY <1>1, <1>7, EndsUntouched DEF Untouched, Truthful
<1> QED  BY <1>1, <1>3, <1>4, <1>5, <1>6, <1>7, StateSplits

\* One file further, or all files done.
LEMMA Further ==
    ASSUME TypeInv, Framed, NEW seen, Loop("check", "verify", seen), source' = seen,
           \A p \in Paths : p < call.path => source'[p] = Put, source'[call.path] = Put,
           records'.resultTmp \notin Statuses
    PROVE  Progress'
<1>1. TypeOK /\ call.path \in Paths /\ Last \in Nat
  BY FilesAssumption DEF TypeInv, Placed, Last
<1>2. /\ call'.op = call.op /\ call'.expected = seen
      /\ \/ call.path < Last /\ call'.at = "check" /\ call'.path = call.path + 1
         \/ ~(call.path < Last) /\ call'.at = "verify" /\ call'.path = 1
  BY <1>1, LoopMoves
<1>3. Paths' = Paths /\ Put' = Put  BY <1>2 DEF Framed, Paths, Put
<1>4. CASE call'.at = "check"
  <2>1. \A p \in Paths : p < call'.path => p < call.path \/ p = call.path
    BY <1>1, <1>2, <1>4, BothWays
  <2> QED  BY <1>2, <1>3, <1>4, <2>1 DEF Progress
<1>5. CASE call'.at = "verify"
  <2>1. \A p \in Paths : p < call.path \/ p = call.path
    BY <1>1, <1>2, <1>5, BothWays
  <2> QED  BY <1>2, <1>3, <1>5, <2>1 DEF Progress
<1> QED  BY <1>2, <1>4, <1>5

LEMMA CheckUntouched == TypeInv /\ Untouched /\ Check => Untouched'
<1> SUFFICES ASSUME TypeInv, Untouched, Check PROVE Untouched'  OBVIOUS
<1>1. TypeOK /\ Framed /\ source' = source /\ call.at = "check"
  BY Runs DEF Check, At, TypeInv
<1>2. CASE Refused
  BY <1>1, <1>2, RefusedUntouched
<1>3. CASE /\ source = call.expected /\ source[call.path] = Put
           /\ Loop("check", "verify", call.expected) /\ UNCHANGED journal
  <2>1. Truthful => Progress'
    BY <1>1, <1>3, Further DEF Truthful, Progress, Moving, journal
  <2> QED  BY <1>1, <1>3, <2>1, StaysUntouched DEF Truthful, journal
<1>4. CASE /\ call' = [call EXCEPT !.at = "swap", !.raced = FALSE] /\ UNCHANGED journal
           /\ source = call.expected
  <2>1. /\ call'.at = "swap" /\ call'.op = call.op /\ call'.expected = call.expected
        /\ call'.path = call.path
    BY <1>1, <1>4 DEF TypeOK, Calls
  <2>2. Paths' = Paths /\ Put' = Put /\ records' = records
    BY <1>1, <1>4, <2>1 DEF Framed, Paths, Put, journal
  <2>3. Truthful => Progress'
    BY <1>1, <1>4, <2>1, <2>2 DEF Truthful, Progress, Moving
  <2> QED  BY <1>1, <1>4, <2>3, StaysUntouched DEF Truthful, journal
<1> QED  BY <1>2, <1>3, <1>4 DEF Check

LEMMA SwapUntouched == TypeInv /\ Agreed /\ Untouched /\ Swap => Untouched'
<1> SUFFICES ASSUME TypeInv, Agreed, Untouched, Swap PROVE Untouched'  OBVIOUS
<1>1. /\ TypeOK /\ Framed /\ call.at = "swap" /\ call.path \in Paths
      /\ call.op \in {"apply"} \union Restoring
  BY Runs DEF Swap, At, TypeInv, Placed
<1>2. CASE Refused /\ UNCHANGED source
  BY <1>1, <1>2, RefusedUntouched
<1>3. CASE /\ source' = [source EXCEPT ![call.path] = Put]
           /\ Loop("check", "verify", [call.expected EXCEPT ![call.path] = Put])
           /\ UNCHANGED records
  <2>1. SUFFICES ASSUME ~touched PROVE Truthful'
    BY <1>1 DEF Untouched, Framed
  <2>2. Truthful /\ source = call.expected /\ records.resultTmp \notin Statuses
    BY <1>1, <2>1 DEF Untouched, Truthful, Progress, Seeing, Moving
  <2>3. Paths' = Paths  BY <1>1 DEF Framed, Paths
  <2>4. Put \in {"original", "replacement"}  BY DEF Put
  <2>5. /\ source \in [0..Files -> Contents] /\ call.path \in 0..Files
        /\ \A p \in Paths : p \in 0..Files
    BY <1>1, BothWays DEF TypeOK, Trees
  <2>6. source'[call.path] = Put /\ \A p \in 0..Files : p # call.path => source'[p] = source[p]
    BY <1>3, <2>5
  <2>7. Ours(source)'
    BY <1>1, <2>2, <2>3, <2>4, <2>6 DEF Truthful, Ours
  <2>8. /\ records.state \in {"applying", "undoing"}
        /\ records.state = "applying" => records.result = "absent"
        /\ records.result \notin Terminal
    BY <1>1 DEF Agreed, Staged, ApplyStage, RestoreStage, Moving, Terminal
  <2>9. Told(source, records)'
    BY <1>3, <2>2, <2>8 DEF Told, Terminal
  <2>10. \A p \in Paths : p < call.path => source'[p] = Put
    BY <1>1, <2>2, <2>5, <2>6 DEF Truthful, Progress
  <2>11. Progress'
    BY <1>1, <1>3, <2>2, <2>6, <2>10, Further
  <2> QED  BY <2>7, <2>9, <2>11 DEF Truthful
<1> QED  BY <1>2, <1>3 DEF Swap

LEMMA VerifyUntouched == TypeInv /\ Untouched /\ Verify => Untouched'
<1> SUFFICES ASSUME TypeInv, Untouched, Verify PROVE Untouched'  OBVIOUS
<1>1. TypeOK /\ Framed /\ source' = source
  BY Runs DEF Verify, At, TypeInv
<1>2. CASE Refused
  BY <1>1, <1>2, RefusedUntouched
<1>3. CASE source = Goal /\ Goto("record") /\ UNCHANGED journal
  <2>1. call'.at = "record" /\ call'.op = call.op  BY <1>1, <1>3, GotoMoves
  <2>2. Goal' = Goal  BY <1>1, <2>1 DEF Goal, Framed, After, Before, Paths
  <2>3. Progress'  BY <1>1, <1>3, <2>1, <2>2 DEF Progress, Seeing, Moving
  <2> QED  BY <1>1, <1>3, <2>3, StaysUntouched DEF journal, Truthful
<1> QED  BY <1>2, <1>3 DEF Verify

LEMMA RecordUntouched == TypeInv /\ Agreed /\ Untouched /\ Record => Untouched'
<1> SUFFICES ASSUME TypeInv, Agreed, Untouched, Record PROVE Untouched'  OBVIOUS
<1>1. /\ TypeOK /\ Framed /\ source' = source /\ call.at = "record"
      /\ call.op \in {"apply"} \union Restoring
  BY Runs DEF Record, At, TypeInv
<1>2. Truthful => source = Goal  BY <1>1 DEF Truthful, Progress
<1>3. "complete" \notin Seeing \union {"record"}  BY DEF Seeing
<1>4. CASE call.op = "apply"
  <2>1. WriteRecord("result", "applied", "complete") /\ "result" \in Names
    BY <1>4 DEF Record, Outcome, Names
  <2>2. records.state = "applying" /\ records.resultTmp = "absent"
    BY <1>1, <1>4 DEF Agreed, Staged, ApplyStage
  <2>3. ASSUME records'.result \in {"applied", "torn"}, Others({"result"}), Truthful
        PROVE  Told(source, records')
    BY <1>2, <1>4, <2>2, <2>3, OthersAre DEF Told, Goal, Terminal, Statuses
  <2>4. CASE records'.result = "applied" /\ Others({"result"}) /\ Goto("complete")
    BY <1>1, <1>3, <2>3, <2>4, GoesUntouched
  <2>5. CASE records'.result = "torn" /\ Others({"result"}) /\ Ends("interrupted")
    BY <1>1, <2>3, <2>5, EndsUntouched DEF Untouched
  <2>6. CASE records' = records /\ Ends("refused")
    BY <1>1, <2>6, EndsUntouched DEF Untouched, Truthful
  <2> QED  BY <1>1, <2>1, <2>4, <2>5, <2>6, WriteSplits
<1>5. CASE call.op \in Restoring
  <2>1. PICK status : status = Outcome  OBVIOUS
  <2>2. ReplaceRecord("result", "resultTmp", status, "complete") /\ status # "absent"
    BY <1>5, <2>1 DEF Record, Outcome, Restoring
  <2>3. records.state = "undoing"  BY <1>1, <1>5 DEF Agreed, Staged, RestoreStage
  <2>4. ASSUME Truthful, records'.state = records.state PROVE Told(source, records')
    BY <1>2, <1>5, <2>3, <2>4 DEF Told, Goal, Restoring
  <2>5. CASE Others({"resultTmp"}) /\ Goto(call.at)
    <3>1. call'.at = "record" /\ call'.op = call.op  BY <1>1, <2>5, GotoMoves
    <3>2. Goal' = Goal  BY <1>1, <3>1 DEF Goal, Framed, After, Before, Paths
    <3>3. Truthful => Progress'  BY <1>1, <1>2, <3>1, <3>2 DEF Progress, Seeing, Moving
    <3> QED  BY <1>1, <2>4, <2>5, <3>3, OthersAre, StaysUntouched
  <2>6. CASE Others({"resultTmp"}) /\ Ends("interrupted")
    BY <1>1, <2>4, <2>6, OthersAre, EndsUntouched DEF Untouched
  <2>7. CASE Others({"result", "resultTmp"}) /\ Goto("complete")
    BY <1>1, <1>3, <2>4, <2>7, OthersAre, GoesUntouched
  <2>8. CASE records' = records /\ Ends("refused")
    BY <1>1, <2>8, EndsUntouched DEF Untouched, Truthful
  <2> QED  BY <1>1, <2>2, <2>5, <2>6, <2>7, <2>8, ResultSplits
<1> QED  BY <1>1, <1>4, <1>5

LEMMA CompleteUntouched == TypeInv /\ Agreed /\ Untouched /\ Complete => Untouched'
<1> SUFFICES ASSUME TypeInv, Agreed, Untouched, Complete PROVE Untouched'  OBVIOUS
<1>1. /\ TypeOK /\ Framed /\ source' = source /\ call.at = "complete"
      /\ call.op \in {"apply"} \union Restoring
  BY Runs DEF Complete, At, TypeInv
<1>2. PICK phase : phase = PhaseOf(records.result)  OBVIOUS
<1>3. /\ call.op = "apply" => records.result = "applied" /\ phase = "complete"
      /\ call.op \in Restoring => records.result \in Terminal /\ phase = records.result
  BY <1>1, <1>2 DEF TypeInv, Resulted, PhaseOf, Terminal
<1>4. ReplaceRecord("state", "stateTmp", phase, "return") /\ phase # "absent"
  BY <1>1, <1>2, <1>3 DEF Complete, Terminal
<1>5. {"complete", "return"} \intersect (Seeing \union {"record"}) = {}  BY DEF Seeing
<1>6. CASE Others({"stateTmp"}) /\ Goto(call.at)
  <2>1. Truthful => Told(source, records')  BY <1>6, OthersAre, ToldStays DEF Truthful
  <2> QED  BY <1>1, <1>5, <1>6, <2>1, GoesUntouched
<1>7. CASE Others({"stateTmp"}) /\ Ends("interrupted")
  <2>1. ~touched => Told(source, records')
    BY <1>7, OthersAre, ToldStays DEF Truthful, Untouched
  <2> QED  BY <1>1, <1>7, <2>1, EndsUntouched
<1>8. CASE records'.state = phase /\ Others({"state", "stateTmp"}) /\ Goto("return")
  <2>1. records'.result = records.result /\ records'.resultTmp = records.resultTmp
    BY <1>8, OthersAre
  <2>2. call.op = "apply" => records.state = "applying"
    BY <1>1 DEF Agreed, Staged, ApplyStage
  <2>3. Truthful => Told(source, records')
    BY <1>1, <1>3, <1>8, <2>1, <2>2 DEF Told, Truthful, Terminal
  <2> QED  BY <1>1, <1>5, <1>8, <2>3, GoesUntouched
<1>9. CASE records' = records /\ Ends("refused")
  BY <1>1, <1>9, EndsUntouched DEF Untouched, Truthful
<1> QED  BY <1>1, <1>4, <1>6, <1>7, <1>8, <1>9, StateSplits

LEMMA FinishUntouched == TypeInv /\ Untouched /\ (Finish \/ Return) => Untouched'
<1> SUFFICES ASSUME TypeInv, Untouched, Finish \/ Return PROVE Untouched'  OBVIOUS
<1>1. TypeOK /\ Framed /\ source' = source
  BY Runs DEF Finish, Return, TypeInv
<1>2. {"complete", "return"} \intersect (Seeing \union {"record"}) = {}  BY DEF Seeing
<1>3. CASE Refused
  BY <1>1, <1>3, RefusedUntouched
<1>4. CASE UNCHANGED journal /\ (Goto("complete") \/ Goto("return"))
  BY <1>1, <1>2, <1>4, GoesUntouched DEF journal, Truthful
<1>5. CASE Return
  BY <1>1, <1>5, EndsUntouched DEF Return, journal, Untouched, Truthful
<1> QED  BY <1>3, <1>4, <1>5 DEF Finish

LEMMA AdvanceUntouched == TypeInv /\ Agreed /\ Untouched /\ Advance => Untouched'
BY WriteIntentUntouched, PrepareUntouched, CopiesUntouched, PromoteStateUntouched,
   PromoteResultUntouched, DecideUntouched, BeginUntouched, CheckUntouched, SwapUntouched,
   VerifyUntouched, RecordUntouched, CompleteUntouched, FinishUntouched
DEF Advance

LEMMA InitUntouched == Init => Untouched
BY BothWays DEF Init, Idle, Untouched, Truthful, Told, Progress, Seeing, Moving, Terminal, Statuses

LEMMA NextUntouched == TypeInv /\ Agreed /\ Untouched /\ [Next]_vars => Untouched'
<1> SUFFICES ASSUME TypeInv, Agreed, Untouched, [Next]_vars PROVE Untouched'  OBVIOUS
<1>0. TypeOK  BY DEF TypeInv
<1>1. CASE Advance
  BY <1>1, AdvanceUntouched
<1>2. CASE StartApply
  <2>1. Framed /\ source' = source /\ source = Before
    BY <1>2 DEF StartApply, At, Framed
  <2>2. /\ records'.state = records.state /\ records'.result = records.result
        /\ records'.resultTmp = records.resultTmp
    BY <1>0, <1>2 DEF StartApply, TypeOK, Records
  <2>3. Truthful => Told(source, records')  BY <2>2, ToldStays DEF Truthful
  <2>4. call'.at = "intent" /\ call'.expected = Before  BY <1>2 DEF StartApply, Idle
  <2>5. Progress'  BY <2>1, <2>4 DEF Progress, Seeing, Moving
  <2> QED  BY <2>1, <2>3, <2>5, StaysUntouched
<1>3. CASE \E op \in Restoring : StartRestore(op)
  <2>1. /\ Framed /\ source' = source /\ records' = records /\ call'.at = "promote"
    BY <1>3 DEF StartRestore, At, Framed, Idle, journal
  <2>2. Progress'  BY <2>1 DEF Progress, Seeing, Moving
  <2> QED  BY <2>1, <2>2, StaysUntouched DEF Truthful
<1>4. CASE Interrupt
  BY <1>4, EndsUntouched DEF Interrupt, Framed, journal, Untouched, Truthful
<1>5. CASE ApplyAgain \/ UNCHANGED vars
  <2>1. Framed /\ UNCHANGED <<source, records, call>>
    BY <1>5 DEF ApplyAgain, At, vars, journal, Framed
  <2>2. Truthful => Told(source, records') /\ Progress'
    BY <2>1 DEF Truthful, Framed, Progress, Goal, Put, Before, After, Paths
  <2> QED  BY <2>1, <2>2, StaysUntouched
<1>6. CASE \E p \in Paths \union {0}, content \in Contents : Edit(p, content)
  BY <1>6 DEF Edit, Untouched
<1> QED  BY <1>1, <1>2, <1>3, <1>4, <1>5, <1>6 DEF Next, Restoring
-----------------------------------------------------------------------------
(* Between the staging and the last os.replace of a recovery every file    *)
(* that is still to be put back has a whole staged copy, so the look for   *)
(* it in Swap never fails.                                                 *)
Ready ==
    call.op = "recover" =>
        /\ call.at \in {"promote", "settle", "decide", "begin"} => call.path = 1
        /\ call.at = "restage" => \A p \in Paths : p < call.path => areas["recovery"][p] = "whole"
        /\ call.at \in {"begin", "check", "swap"} =>
              \A p \in Paths : p >= call.path => areas["recovery"][p] = "whole"

LEMMA InitReady == Init => Ready
BY DEF Init, Idle, Ready

LEMMA AdvanceReady ==
    ASSUME TypeInv, Ready, Advance, call'.op = "recover"
    PROVE  Ready'
<1>1. TypeOK /\ call.op = "recover" /\ Framed /\ call.at \in RestoreAt /\ call.path \in Paths
  BY OpMoves DEF TypeInv, Placed, Restoring
<1>2. Paths' = Paths /\ Staging = "recovery"  BY <1>1 DEF Framed, Paths, Staging
<1>3. \A what : ~Ends(what)  BY EndsMoves
<1>4. \A area, left : ~CopyStops(area, left)  BY <1>3 DEF CopyStops
<1>5. ~Refused  BY <1>3 DEF Refused
<1>6. ~(WriteIntent \/ BackUp \/ Stage \/ Prepare)
  BY <1>1 DEF WriteIntent, BackUp, Stage, Prepare, At, RestoreAt
<1>7. CASE PromoteState \/ PromoteResult
  BY <1>1, <1>5, <1>7, GotoMoves DEF PromoteState, PromoteResult, At, Ready
<1>8. CASE Decide
  <2>1. \A seen : call' = [call EXCEPT !.at = "restage", !.expected = seen] =>
                    call'.at = "restage" /\ call'.path = call.path
    BY <1>1 DEF TypeOK, Calls
  <2>2. call.path = 1  BY <1>1, <1>8 DEF Decide, At, Ready
  <2>3. call'.at = "finish" \/ (call'.at = "restage" /\ call'.path = 1)
    BY <1>1, <1>5, <1>8, <2>1, <2>2, GotoMoves DEF Decide
  <2>4. \A p \in Paths : ~(p < 1)  BY FilesAssumption DEF Paths
  <2> QED  BY <1>2, <2>3, <2>4 DEF Ready
<1>9. CASE Restage
  <2>1. /\ call.at = "restage"
        /\ areas'["recovery"][call.path] = "whole"
        /\ \A p \in Paths : p # call.path => areas'["recovery"][p] = areas["recovery"][p]
    BY <1>1, <1>2, <1>4, <1>5, <1>9, FilesAssumption DEF Restage, At, Copied, journal, TypeOK, Areas, Paths
  <2>2. Loop("restage", "begin", call.expected)  BY <1>4, <1>5, <1>9 DEF Restage
  <2>3. \A p \in Paths : p < call.path \/ p = call.path => areas'["recovery"][p] = "whole"
    BY <1>1, <2>1 DEF Ready
  <2>4. \/ call'.at = "restage" /\ call'.path = call.path + 1
        \/ ~(call.path < Last) /\ call'.at = "begin" /\ call'.path = 1
    BY <1>1, <2>2, LoopMoves
  <2>5. CASE call'.at = "restage" /\ call'.path = call.path + 1
    <3>1. \A p \in Paths : p < call'.path => p < call.path \/ p = call.path
      BY <1>1, <2>5, BothWays
    <3> QED  BY <1>2, <2>3, <2>5, <3>1 DEF Ready
  <2>6. CASE ~(call.path < Last) /\ call'.at = "begin" /\ call'.path = 1
    <3>1. \A p \in Paths : p < call.path \/ p = call.path
      BY <1>1, <2>6, FilesAssumption DEF Paths, Last
    <3> QED  BY <1>2, <2>3, <2>6, <3>1 DEF Ready
  <2> QED  BY <2>4, <2>5, <2>6
<1>10. CASE Begin
  <2>1. /\ call.at = "begin" /\ areas' = areas
        /\ ReplaceRecord("state", "stateTmp", "undoing", "check")
    BY <1>1, <1>10, ReplaceKeeps DEF Begin, At, Names
  <2>2. call'.at \in {"begin", "check"} /\ call'.path = call.path
    BY <1>1, <1>3, <2>1, ReplaceSteps, GotoMoves
  <2> QED  BY <1>1, <1>2, <2>1, <2>2 DEF Ready
<1>11. CASE Check
  <2>1. call' = [call EXCEPT !.at = "swap", !.raced = FALSE] =>
          call'.at = "swap" /\ call'.path = call.path
    BY <1>1 DEF TypeOK, Calls
  <2>2. /\ call.at = "check" /\ areas' = areas
        /\ \/ call'.at = "swap" /\ call'.path = call.path
           \/ call'.at = "check" /\ call'.path = call.path + 1
           \/ call'.at = "verify"
    BY <1>1, <1>5, <1>11, <2>1, LoopMoves DEF Check, At, journal
  <2>3. \A p \in Paths : p >= call.path + 1 => p >= call.path  BY <1>1, BothWays
  <2> QED  BY <1>1, <1>2, <2>2, <2>3 DEF Ready
<1>12. CASE Swap
  <2>0. /\ call.at = "swap"
        /\ areas' = [areas EXCEPT !["recovery"][call.path] = "absent"]
        /\ Loop("check", "verify", [call.expected EXCEPT ![call.path] = Put])
    BY <1>2, <1>5, <1>12 DEF Swap, At
  <2>1. /\ \A p \in Paths : p # call.path => areas'["recovery"][p] = areas["recovery"][p]
        /\ \/ call'.at = "check" /\ call'.path = call.path + 1
           \/ call'.at = "verify"
    BY <1>1, <2>0, LoopMoves, FilesAssumption DEF TypeOK, Areas, Paths
  <2>2. \A p \in Paths : p >= call.path + 1 => p >= call.path /\ p # call.path
    BY <1>1, BothWays
  <2> QED  BY <1>1, <1>2, <2>0, <2>1, <2>2 DEF Ready
<1>13. CASE Verify \/ Record \/ Complete \/ Finish \/ Return
  <2>1. call'.at \in {"record", "complete", "return"}
    BY <1>1, <1>3, <1>5, <1>13, GotoMoves, ReplaceSteps
    DEF Verify, Record, Complete, Finish, Return, At
  <2> QED  BY <2>1 DEF Ready
<1> QED  BY <1>6, <1>7, <1>8, <1>9, <1>10, <1>11, <1>12, <1>13 DEF Advance

LEMMA NextReady == TypeInv /\ Ready /\ [Next]_vars => Ready'
<1> SUFFICES ASSUME TypeInv, Ready, [Next]_vars, call'.op = "recover" PROVE Ready'
  BY DEF Ready
<1>1. CASE Advance
  BY <1>1, AdvanceReady
<1>2. CASE \E op \in Restoring : StartRestore(op)
  <2>1. call'.at = "promote" /\ call'.path = 1  BY <1>2 DEF StartRestore, Idle
  <2> QED  BY <2>1 DEF Ready
<1>3. CASE StartApply \/ Interrupt
  BY <1>3, EndsMoves DEF StartApply, Interrupt, Idle
<1>4. CASE ApplyAgain \/ UNCHANGED vars \/ \E p \in Paths \union {0}, content \in Contents : Edit(p, content)
  <2>1. /\ call'.op = call.op /\ call'.at = call.at /\ call'.path = call.path
        /\ areas' = areas /\ writer' = writer
    BY <1>4 DEF ApplyAgain, Edit, At, vars, journal, TypeInv, TypeOK, Calls
  <2> QED  BY <2>1 DEF Ready, Paths
<1> QED  BY <1>1, <1>2, <1>3, <1>4 DEF Next, Restoring
-----------------------------------------------------------------------------
(* What callers are told. *)

\* A step that ends a call either refuses, and leaves the journal, or is cut short, or returns.
LEMMA EndMoves ==
    ASSUME TypeInv, Advance, call'.op = "none"
    PROVE  \/ answer'.what = "refused" /\ answer'.op = call.op /\ UNCHANGED journal
           \/ answer'.what = "interrupted"
           \/ Return
<1> DEFINE Denied == answer'.what = "refused" /\ answer'.op = call.op /\ UNCHANGED journal
           Cut == answer'.what = "interrupted"
<1>0. TypeOK /\ call.op # "none"  BY OpMoves DEF TypeInv
<1>1. \A label : ~Goto(label)  BY <1>0, GotoMoves
<1>2. \A label, next, seen : ~Loop(label, next, seen)  BY <1>0, LoopMoves
<1>3. Refused => Denied  BY EndsMoves DEF Refused
<1>4. \A area, left : CopyStops(area, left) => Cut  BY EndsMoves DEF CopyStops
<1>5. \A name, value, next : WriteRecord(name, value, next) => Denied \/ Cut
  BY <1>1, <1>3, EndsMoves DEF WriteRecord
<1>6. \A name, temporary, value, next : ReplaceRecord(name, temporary, value, next) => Denied \/ Cut
  BY <1>1, <1>3, <1>5 DEF ReplaceRecord
<1>7. \A label : call' = [call EXCEPT !.at = label, !.raced = FALSE] => FALSE
  BY <1>0 DEF TypeOK, Calls
<1>8. \A label, seen : call' = [call EXCEPT !.at = label, !.expected = seen] => FALSE
  BY <1>0 DEF TypeOK, Calls
<1>9. CASE WriteIntent \/ Prepare \/ Begin \/ Record \/ Complete
  BY <1>5, <1>6, <1>9 DEF WriteIntent, Prepare, Begin, Record, Complete
<1>10. CASE BackUp \/ Stage \/ Restage
  BY <1>1, <1>2, <1>3, <1>4, <1>10 DEF BackUp, Stage, Restage
<1>11. CASE PromoteState \/ PromoteResult \/ Verify \/ Finish
  BY <1>1, <1>3, <1>11 DEF PromoteState, PromoteResult, Verify, Finish
<1>12. CASE Decide
  BY <1>1, <1>3, <1>8, <1>12 DEF Decide
<1>13. CASE Check \/ Swap
  BY <1>2, <1>3, <1>7, <1>13 DEF Check, Swap
<1> QED  BY <1>9, <1>10, <1>11, <1>12, <1>13 DEF Advance

(* Nothing on the way of a recovery refuses a repairable operation: its    *)
(* leftovers are the ones that can be promoted, its files are either way,  *)
(* and its backups are there to copy.                                      *)
LEMMA NothingRefuses ==
    ASSUME TypeInv, Agreed, Untouched, Ready, Repairable, Advance, call.op = "recover",
           call'.op = "none", answer'.what = "refused"
    PROVE  FALSE
<1>0. TypeOK /\ call.at \in RestoreAt /\ call.path \in Paths
  BY DEF TypeInv, Placed, Restoring
<1>1. \A label : ~Goto(label)  BY <1>0, GotoMoves
<1>2. \A label, next, seen : ~Loop(label, next, seen)  BY <1>0, LoopMoves
<1>3. ~Ends("interrupted")  BY EndsMoves
<1>4. \A area, left : ~CopyStops(area, left)  BY <1>3 DEF CopyStops
<1>5. /\ Sound(records) /\ RestoreStage("recover", call.at, records) /\ ~Blind("recover")
      /\ Truthful
  BY DEF Agreed, Staged, Restoring, Blind, Untouched, Repairable
<1>6. /\ records.stateTmp \in {"absent"} \union Phases
      /\ records.resultTmp \in {"absent"} \union Statuses
  BY <1>0 DEF Repairable, TypeOK, Records, Broken
<1>7. ~PromoteState
  <2>1. SUFFICES ASSUME records.stateTmp # "absent"
                 PROVE  ValidPending(records.state, records.stateTmp, records.result)
    BY <1>1 DEF PromoteState
  <2>2. records.state # "torn" /\ records.state \in Broken \union Phases
    BY <1>0, <2>1 DEF Repairable, TypeOK, Records
  <2>3. records.stateTmp \in {"applying", "complete", "undoing"} \union Terminal
    BY <1>5, <1>6, <2>1 DEF Sound, Pending, Phases
  <2>4. CASE records.stateTmp = "applying" \/ records.stateTmp = "complete"
    BY <1>5, <2>4 DEF ValidPending, Sound, Pending, Journal, Truthful, Told
  <2>5. CASE records.stateTmp = "undoing"
    BY <1>5, <2>2, <2>5 DEF ValidPending, Sound, Pending, Journal, Broken, Phases
  <2>6. CASE records.stateTmp \in Terminal
    BY <1>5, <2>6 DEF ValidPending, Sound, Pending, Truthful, Told, Terminal
  <2> QED  BY <2>3, <2>4, <2>5, <2>6
<1>8. ~PromoteResult
  BY <1>1, <1>5, <1>6
  DEF PromoteResult, ValidResult, Sound, Pending, Truthful, Told
<1>9. ~Decide
  <2>1. \A seen : call' # [call EXCEPT !.at = "restage", !.expected = seen]
    BY <1>0 DEF TypeOK, Calls
  <2>2. SUFFICES ASSUME call.at = "decide", records.result \notin Terminal PROVE Recoverable
    BY <1>1, <2>1 DEF Decide, At
  <2>3. records.result \in {"absent", "applied"}
    BY <1>0, <2>2 DEF Repairable, TypeOK, Records, Broken, Statuses
  <2>4. source[0] = "original" /\ \A p \in Paths : source[p] # "foreign"
    BY <1>5, BothWays, FilesAssumption DEF Truthful, Ours, Paths
  <2> QED  BY <2>3, <2>4 DEF Recoverable, Repairable
<1>10. ~Restage
  BY <1>0, <1>2, <1>4 DEF Restage, Repairable
<1>11. ~Begin
  <2>1. SUFFICES ASSUME call.at = "begin", ReplaceRecord("state", "stateTmp", "undoing", "check")
                 PROVE  FALSE
    BY DEF Begin, At
  <2>2. records.stateTmp \in {"absent", "undoing"}  BY <1>5, <2>1 DEF RestoreStage
  <2> QED  BY <1>0, <1>1, <1>3, <2>1, <2>2, StateSplits
<1>12. ~Check
  <2>1. call.at = "check" => source = call.expected  BY <1>5 DEF Truthful, Progress, Seeing
  <2>2. call' # [call EXCEPT !.at = "swap", !.raced = FALSE]  BY <1>0 DEF TypeOK, Calls
  <2> QED  BY <1>2, <2>1, <2>2 DEF Check, At
<1>13. ~Swap
  <2>1. call.at = "swap" => areas["recovery"][call.path] = "whole"
    BY <1>0, FilesAssumption DEF Ready, Paths
  <2>2. call.at = "swap" => Swappable
    BY <2>1 DEF Swappable, Staging
  <2> QED  BY <1>2, <2>2 DEF Swap, At
<1>14. ~Verify
  <2>1. SUFFICES ASSUME call.at = "verify" PROVE source = Goal
    BY <1>1 DEF Verify, At
  <2>2. \A p \in 0..Files : source[p] = "original"
    BY <1>5, <2>1 DEF Truthful, Progress, Ours, Put
  <2>3. source = Before  BY <1>0, <2>2 DEF TypeOK, Trees, Before
  <2> QED  BY <2>3 DEF Goal
<1>15. ~Record
  <2>1. SUFFICES ASSUME call.at = "record",
                        ReplaceRecord("result", "resultTmp", "recovered", "complete")
                 PROVE  FALSE
    BY DEF Record, At, Outcome
  <2>2. records.resultTmp \in {"absent", "recovered"}  BY <1>5, <2>1 DEF RestoreStage
  <2> QED  BY <1>0, <1>1, <1>3, <2>1, <2>2, ResultSplits
<1>16. ~Complete
  <2>1. SUFFICES ASSUME call.at = "complete" PROVE ~Complete  BY DEF Complete, At
  <2>2. records.result \in Terminal  BY <2>1 DEF TypeInv, Resulted, Restoring
  <2>3. PICK phase : phase = records.result  OBVIOUS
  <2>4. Complete => ReplaceRecord("state", "stateTmp", phase, "return")
    BY <2>2, <2>3 DEF Complete, PhaseOf, Terminal
  <2>5. phase # "absent" /\ records.stateTmp \in {"absent", phase}
    BY <1>5, <2>1, <2>2, <2>3 DEF RestoreStage, Terminal
  <2> QED  BY <1>0, <1>1, <1>3, <2>4, <2>5, StateSplits
<1>17. ~Finish
  <2>1. SUFFICES ASSUME call.at = "finish"
                 PROVE  source = Before /\ records.state \in {"undoing", records.result}
    BY <1>1 DEF Finish, At
  <2>2. records.result \in Terminal  BY <2>1 DEF TypeInv, Resulted, Restoring
  <2>3. source = Before  BY <1>5, <2>2 DEF Truthful, Told
  <2>4. records.state \in Broken \union Phases  BY <1>0 DEF TypeOK, Records
  <2>5. records.state \in {"undoing", records.result}
    BY <1>5, <2>2, <2>4 DEF Sound, Journal, Broken, Phases, Terminal
  <2> QED  BY <2>3, <2>5
<1>18. ~Return
  <2>1. SUFFICES ASSUME call.at = "return", Ends(records.result) PROVE FALSE  BY DEF Return, At
  <2>2. records.result \in Terminal  BY <2>1 DEF TypeInv, Resulted, Restoring
  <2> QED  BY <2>1, <2>2, EndsMoves DEF Terminal
<1>19. ~(WriteIntent \/ BackUp \/ Stage \/ Prepare)
  BY <1>0 DEF WriteIntent, BackUp, Stage, Prepare, At, RestoreAt
<1> QED
  BY <1>7, <1>8, <1>9, <1>10, <1>11, <1>12, <1>13, <1>14, <1>15, <1>16, <1>17, <1>18, <1>19
  DEF Advance

\* The last answer stays true until the next call.
AnswerHolds == Quiet /\ answer.what \in Statuses => Status = answer.what

LEMMA StatusStays ==
    ASSUME Framed, source' = source, journal' = journal
    PROVE  Status' = Status /\ (Repairable' => Repairable)
BY DEF Framed, journal, Status, PhaseOf, Repairable, Paths

LEMMA InitAnswered == Init => AnswerHolds /\ RecoveryIsAccepted
BY DEF Init, Idle, NoAnswer, AnswerHolds, RecoveryIsAccepted, Statuses, Terminal

LEMMA NextAnswered ==
    ASSUME TypeInv, Agreed, Untouched, Ready, AnswerHolds, RecoveryIsAccepted, [Next]_vars
    PROVE  AnswerHolds' /\ RecoveryIsAccepted'
<1>0. TypeOK  BY DEF TypeInv
<1>1. CASE Advance
  <2>1. SUFFICES ASSUME call'.op = "none" PROVE AnswerHolds' /\ RecoveryIsAccepted'
    BY DEF AnswerHolds, RecoveryIsAccepted, Quiet
  <2>2. Framed  BY <1>1, OpMoves
  <2>3. CASE Return
    <3>1. call.at = "return" /\ answer'.what = records.result /\ UNCHANGED <<source, journal>>
      BY <2>3, EndsMoves DEF Return, At
    <3>2. call.op \in {"apply"} \union Restoring
      BY <2>3, Runs DEF Return
    <3>3. records.intent = "whole" /\ records.result \in Statuses /\ records.state = PhaseOf(records.result)
      BY <3>1, <3>2
      DEF TypeInv, Resulted, Agreed, Staged, ApplyStage, RestoreStage, PhaseOf, Statuses, Terminal
    <3>4. Status = records.result
      BY <3>3 DEF Status, PhaseOf, Statuses, Terminal
    <3>5. Status' = records.result  BY <2>2, <3>1, <3>4, StatusStays
    <3>6. records.result # "refused"  BY <3>3 DEF Statuses, Terminal
    <3> QED  BY <3>1, <3>5, <3>6 DEF AnswerHolds, RecoveryIsAccepted
  <2>4. CASE answer'.what = "interrupted"
    BY <2>4 DEF AnswerHolds, RecoveryIsAccepted, Statuses, Terminal
  <2>5. CASE answer'.what = "refused" /\ answer'.op = call.op /\ UNCHANGED journal
    <3>1. AnswerHolds'  BY <2>5 DEF AnswerHolds, Statuses, Terminal
    <3>2. Repairable' => Repairable  BY <2>2, <2>5 DEF Framed, journal, Repairable, Paths
    <3>3. RecoveryIsAccepted'
      BY <1>1, <2>1, <2>5, <3>2, NothingRefuses DEF RecoveryIsAccepted
    <3> QED  BY <3>1, <3>3
  <2> QED  BY <1>1, <2>1, <2>3, <2>4, <2>5, EndMoves
<1>2. CASE StartApply \/ \E op \in Restoring : StartRestore(op)
  <2>1. call'.op # "none"  BY <1>2 DEF StartApply, StartRestore, Idle, Restoring
  <2> QED  BY <2>1 DEF AnswerHolds, RecoveryIsAccepted, Quiet
<1>3. CASE ApplyAgain
  <2>1. Framed /\ source' = source /\ journal' = journal
    BY <1>3 DEF ApplyAgain, At, Framed
  <2>2. /\ answer'.op = "apply" /\ answer'.what \in {"applied", "refused"}
        /\ answer'.what = "applied" => Status = "applied"
    BY <1>3 DEF ApplyAgain
  <2>3. Status' = Status  BY <2>1, StatusStays
  <2> QED  BY <2>2, <2>3 DEF AnswerHolds, RecoveryIsAccepted, Statuses, Terminal
<1>4. CASE Interrupt
  <2>1. answer'.what = "interrupted"  BY <1>4, EndsMoves DEF Interrupt
  <2> QED  BY <2>1 DEF AnswerHolds, RecoveryIsAccepted, Statuses, Terminal
<1>5. CASE UNCHANGED vars
  <2>1. Framed /\ source' = source /\ journal' = journal /\ UNCHANGED <<call, answer>>
    BY <1>5 DEF vars, Framed, journal
  <2> QED  BY <2>1, StatusStays DEF AnswerHolds, RecoveryIsAccepted, Quiet
<1>6. CASE \E p \in Paths \union {0}, content \in Contents : Edit(p, content)
  <2>1. /\ touched' = TRUE /\ records' = records /\ answer' = answer /\ call'.op = call.op
    BY <1>0, <1>6 DEF Edit, TypeOK, Calls, journal
  <2>2. Status' = Status  BY <2>1 DEF Status, PhaseOf
  <2>3. ~Repairable'  BY <2>1 DEF Repairable
  <2> QED  BY <2>1, <2>2, <2>3 DEF AnswerHolds, RecoveryIsAccepted, Quiet
<1> QED  BY <1>1, <1>2, <1>3, <1>4, <1>5, <1>6 DEF Next, Restoring

LEMMA StatusFollows ==
    ASSUME TypeInv, Agreed, Untouched, AnswerHolds
    PROVE  StatusIsTrue
<1> SUFFICES ASSUME Quiet PROVE StatusIsTrue  BY DEF StatusIsTrue
<1>1. ASSUME Status \in Statuses
      PROVE  records.result = Status /\ records.state = PhaseOf(Status)
  BY <1>1 DEF Status, Statuses, Terminal
<1>2. Status = "applied" /\ ~touched => source = After
  BY <1>1 DEF Statuses, PhaseOf, Untouched, Truthful, Told
<1>3. Status \in Terminal /\ ~touched => source = Before
  BY <1>1 DEF Statuses, PhaseOf, Untouched, Truthful, Told
<1>4. Status = "refused" =>
        "torn" \in {records.state, records.result} \/ records.intent # "whole"
  BY DEF Status, Statuses, Terminal, PhaseOf, Agreed, Sound, Journal
<1> QED  BY <1>2, <1>3, <1>4 DEF StatusIsTrue, AnswerHolds

LEMMA Operated ==
    Spec => [](TypeInv /\ Agreed /\ Untouched /\ Ready /\ AnswerHolds /\ RecoveryIsAccepted)
<1>1. Init => TypeInv /\ Directed /\ Agreed /\ Untouched /\ Ready /\ AnswerHolds /\ RecoveryIsAccepted
  BY InitTyped, InitDirected, InitAgreed, InitUntouched, InitReady, InitAnswered
<1>2. TypeInv /\ Directed /\ Agreed /\ Untouched /\ Ready /\ AnswerHolds /\ RecoveryIsAccepted /\ [Next]_vars =>
        (TypeInv /\ Directed /\ Agreed /\ Untouched /\ Ready /\ AnswerHolds /\ RecoveryIsAccepted)'
  BY NextTyped, NextDirected, NextAgreed, NextUntouched, NextReady, NextAnswered
<1> QED  BY <1>1, <1>2, PTL DEF Spec

(* get_live_status tells the truth of every number of files: a confirmed   *)
(* outcome is what all untouched files are, the two records never          *)
(* contradict each other, and the last returned outcome is still the one   *)
(* it reports (_status_locked and the writes of state.json, result.json).  *)
THEOREM StatusIsRight == Spec => []StatusIsTrue
<1>1. TypeInv /\ Agreed /\ Untouched /\ AnswerHolds => StatusIsTrue  BY StatusFollows
<1> QED  BY <1>1, Operated, PTL

(* Whatever was interrupted before, and wherever: recovery of an operation *)
(* whose journal is whole and whose files nobody else has touched is never *)
(* refused (recover_live and the promotion of pending records).            *)
THEOREM RecoveryGoesThrough == Spec => []RecoveryIsAccepted
BY Operated, PTL
=============================================================================
