------------------------- MODULE SchemaUpgradeProofs -------------------------
(***************************************************************************)
(* Upgrades keep their types, leave a sealed backup of every schema behind *)
(* and answer truthfully, for any number of runs, operations and           *)
(* administrators, and of calls, writes and faults.                        *)
(***************************************************************************)
EXTENDS SchemaUpgrade, TLAPS

(* Where a run can be. *)
Making == {"copy", "copying", "seal"}
Settled == {"recheck", "confirm", "release"}
Holding == {"check", "migrate"} \union Settled

(* What the records of a run, of the state and of the backups have to do   *)
(* with each other: the receipt of the run's operation in the state, the   *)
(* one that the run would leave, and whether its backup is sealed.         *)
Own(c, s) == s.receipts[c.source + 1][c.operation]
Mine(c, b) == [actor |-> c.actor, backup |-> b[c.operation].receipt]
Sealed(c, b) == b[c.operation].receipt # NoReceipt
SealedFor(c, b) == Sealed(c, b) /\ b[c.operation].receipt.copy.schema = c.source

(* Who makes a directory has it for itself until it is sealed, and nobody  *)
(* attempts a migration without a sealed backup of its step.               *)
CopyFits(c, b, l) ==
    /\ c.pc \in Making => b[c.operation].made /\ ~Sealed(c, b)
    /\ c.pc = "copying" => [schema |-> c.source, writes |-> c.seen] \in l
    /\ c.pc = "seal" => b[c.operation].copy \in Copy /\ b[c.operation].copy \in l
    /\ c.pc \in Holding \/ c.attempted => SealedFor(c, b)
CallFits(c) ==
    /\ c.attempted => c.pc \in {"migrate", "handle", "verify", "reverify"} \union Settled
    /\ c.pc = "migrate" => c.attempted
    /\ c.applied /\ c.pc # "idle" => c.attempted /\ c.pc # "migrate"
    /\ c.applied /\ c.pc = "handle" /\ c.source >= 2 => c.error # "OPERATION_CONFLICT"
StateFits(c, s) ==
    /\ c.pc = "look" /\ c.current => c.source = 1 /\ s.schema >= 2
    /\ c.pc = "release" /\ c.source = 1 =>
         s.schema >= 2 /\ c.outcome \in {"reconciled", "version_confirmed"}
    /\ c.pc \in {"verify", "reverify"} => c.source >= 2
(* Once the state is past the step, the operation's receipt is settled.    *)
ReceiptFits(c, s, b) == c.source >= 2 =>
    /\ c.applied => s.schema > c.source /\ Own(c, s) = Mine(c, b) /\ Sealed(c, b)
    /\ c.pc \in Settled =>
         s.schema > c.source /\ Own(c, s) = c.found /\ c.found \in {NoReceipt, Mine(c, b)}
    /\ c.pc = "release" =>
         c.outcome = IF c.found = NoReceipt THEN "already_current" ELSE "committed"
    /\ c.pc \in {"verify", "reverify"} =>
         /\ s.schema > c.source
         /\ c.found # NoReceipt /\ Own(c, s) = c.found /\ c.found.actor = c.actor
    /\ c.pc = "reverify" => c.found.backup = b[c.operation].receipt
AnswerFits(c, s, b) == c.pc = "idle" =>
    IF c.source >= 2
    THEN /\ c.outcome \in {"committed", "reconciled"} =>
              s.schema > c.source /\ Own(c, s) = Mine(c, b) /\ Sealed(c, b)
         /\ c.outcome = "already_current" => s.schema > c.source /\ Own(c, s) = NoReceipt
         /\ c.outcome = "MIGRATION_COMMITTED_BACKUP_INVALID" =>
              s.schema > c.source /\ Own(c, s) # NoReceipt
         /\ c.outcome \notin OpenOutcomes => ~c.applied
    ELSE /\ c.outcome \in Successes => s.schema >= 2
         /\ c.outcome \in {"version_confirmed", "reconciled"} => SealedFor(c, b)
Fits(c, s, b, l) ==
    /\ CopyFits(c, b, l) /\ CallFits(c) /\ StateFits(c, s)
    /\ ReceiptFits(c, s, b) /\ AnswerFits(c, s, b)

(* The inductive invariant. *)
World ==
    /\ [schema |-> state.schema, writes |-> state.writes] \in lived
    /\ \A c \in lived : c.schema <= state.schema
    /\ \A t \in 3..4, o \in Operations : state.schema < t => state.receipts[t][o] = NoReceipt
    /\ \A o \in Operations : backups[o].receipt # NoReceipt =>
         /\ backups[o].made /\ backups[o].copy = backups[o].receipt.copy
         /\ backups[o].copy \in lived
Alone ==
    \A q, r \in Runs : q # r /\ run[q].pc \in Making /\ run[r].pc \in Making =>
      run[q].operation # run[r].operation
AllFit == \A r \in Runs : Fits(run[r], state, backups, lived)
Inv == TypeOK /\ World /\ Alone /\ AllFit /\ UpgradesAreBackedUp

-----------------------------------------------------------------------------
(* What grows and is never taken back. *)
Grows ==
    /\ state.schema <= state'.schema
    /\ \A t \in 3..4 : t <= state.schema => state'.receipts[t] = state.receipts[t]
    /\ \A o \in Operations :
         /\ backups[o].made => backups'[o].made
         /\ backups[o].receipt # NoReceipt =>
              backups'[o].receipt = backups[o].receipt /\ backups'[o].copy = backups[o].copy
    /\ lived \subseteq lived'

LEMMA FoundTyped ==
    ASSUME NEW c \in Run, c.found # NoReceipt
    PROVE  c.found \in Upgrade /\ c.found.backup \in Binding /\ c.found.backup # NoReceipt
BY NullAssumption DEF Run, Upgrade

LEMMA FitsGrows ==
    ASSUME TypeOK, NEW c \in Run, Fits(c, state, backups, lived), Grows, state' \in State,
           c.pc \in Making =>
               /\ backups'[c.operation].receipt = backups[c.operation].receipt
               /\ backups'[c.operation].copy = backups[c.operation].copy
    PROVE  Fits(c, state', backups', lived')
<1> USE DEF Grows
<1>1. /\ c.operation \in Operations /\ c.source \in 1..3
      /\ state.schema \in 1..4 /\ state'.schema \in 1..4
  BY DEF TypeOK, State, Run
<1>2. Sealed(c, backups) =>
        /\ Sealed(c, backups') /\ Mine(c, backups') = Mine(c, backups)
        /\ backups'[c.operation].receipt = backups[c.operation].receipt
  BY <1>1 DEF Sealed, Mine
<1>3. SealedFor(c, backups) => SealedFor(c, backups')  BY <1>2 DEF SealedFor
<1>4. c.source >= 2 /\ state.schema > c.source =>
        state'.schema > c.source /\ Own(c, state') = Own(c, state)
  <2>1. c.source >= 2 => c.source + 1 \in 3..4  BY <1>1
  <2> QED  BY <1>1, <2>1 DEF Own
<1>5. CopyFits(c, backups', lived')
  <2>1. CopyFits(c, backups, lived)  BY DEF Fits
  <2>2. c.pc \in Making => backups'[c.operation].made /\ ~Sealed(c, backups')
    BY <1>1, <2>1 DEF CopyFits, Sealed
  <2>3. c.pc = "copying" => [schema |-> c.source, writes |-> c.seen] \in lived'
    BY <2>1 DEF CopyFits
  <2>4. c.pc = "seal" => backups'[c.operation].copy \in Copy /\ backups'[c.operation].copy \in lived'
    BY <2>1 DEF CopyFits, Making
  <2>5. c.pc \in Holding \/ c.attempted => SealedFor(c, backups')
    BY <1>3, <2>1 DEF CopyFits
  <2> QED  BY <2>2, <2>3, <2>4, <2>5 DEF CopyFits
<1>6. StateFits(c, state')  BY <1>1 DEF Fits, StateFits
<1>7. ReceiptFits(c, state', backups')
  <2>1. SUFFICES ASSUME c.source >= 2 PROVE ReceiptFits(c, state', backups')  BY DEF ReceiptFits
  <2>2. c.applied => state'.schema > c.source /\ Own(c, state') = Mine(c, backups') /\ Sealed(c, backups')
    BY <1>2, <1>4, <2>1 DEF Fits, ReceiptFits
  <2>3. c.pc \in Settled => SealedFor(c, backups)  BY DEF Fits, CopyFits, Holding
  <2>4. c.pc \in Settled =>
          /\ state'.schema > c.source /\ Own(c, state') = c.found
          /\ c.found \in {NoReceipt, Mine(c, backups')}
    BY <1>2, <1>4, <2>1, <2>3 DEF Fits, ReceiptFits, SealedFor
  <2>5. c.pc \in {"verify", "reverify"} =>
          /\ state'.schema > c.source
          /\ c.found # NoReceipt /\ Own(c, state') = c.found /\ c.found.actor = c.actor
    BY <1>4, <2>1 DEF Fits, ReceiptFits
  <2>6. c.pc = "reverify" => c.found.backup = backups'[c.operation].receipt
    BY <1>2, <2>1, <2>5, FoundTyped DEF Fits, ReceiptFits, Sealed
  <2> QED  BY <2>1, <2>2, <2>4, <2>5, <2>6 DEF Fits, ReceiptFits
<1>8. AnswerFits(c, state', backups')
  BY <1>1, <1>2, <1>3, <1>4 DEF Fits, AnswerFits
<1> QED  BY <1>5, <1>6, <1>7, <1>8 DEF Fits

(* While the state keeps its schema, its backups stay what they are of. *)
LEMMA BackedGrows ==
    ASSUME TypeOK, World, UpgradesAreBackedUp, Grows, state' \in State,
           state'.schema = state.schema,
           \A c \in lived' : c \in lived \/ c.schema = state.schema
    PROVE  UpgradesAreBackedUp'
<1> SUFFICES ASSUME NEW s \in 1..3, s < state'.schema, NEW c \in lived', c.schema = s
             PROVE  \E o \in Operations :
                      LET d == backups'[o]
                      IN /\ d.receipt # NoReceipt /\ d.copy = d.receipt.copy
                         /\ d.copy.schema = s /\ d.copy \in lived'
                         /\ s >= 2 =>
                              /\ state'.receipts[s + 1][o] # NoReceipt
                              /\ state'.receipts[s + 1][o].backup = d.receipt
                              /\ \A p \in Operations \ {o} :
                                   state'.receipts[s + 1][p] = NoReceipt
  BY DEF UpgradesAreBackedUp
<1>1. s < state.schema /\ c \in lived  BY DEF TypeOK, State
<1>2. PICK o \in Operations :
        LET d == backups[o]
        IN /\ d.receipt # NoReceipt /\ d.copy = d.receipt.copy
           /\ d.copy.schema = s /\ d.copy \in lived
           /\ s >= 2 =>
                /\ state.receipts[s + 1][o] # NoReceipt
                /\ state.receipts[s + 1][o].backup = d.receipt
                /\ \A p \in Operations \ {o} : state.receipts[s + 1][p] = NoReceipt
  BY <1>1 DEF UpgradesAreBackedUp
<1>3. /\ backups'[o].receipt = backups[o].receipt /\ backups'[o].copy = backups[o].copy
      /\ lived \subseteq lived'
  BY <1>2 DEF Grows
<1>4. s >= 2 => state'.receipts[s + 1] = state.receipts[s + 1]
  BY <1>1 DEF Grows, TypeOK, State
<1> QED  BY <1>2, <1>3, <1>4
-----------------------------------------------------------------------------
(* One run moves. *)

LEMMA OneRun ==
    ASSUME TypeOK, NEW r \in Runs, NEW c \in Run, Put(r, c)
    PROVE  /\ run' \in [Runs -> Run] /\ run'[r] = c
           /\ \A q \in Runs : q # r => run'[q] = run[q]
BY DEF TypeOK, Put

(* A run moves by itself: it keeps to what the state and the backups are.  *)
LEMMA PrivateStep ==
    ASSUME Inv, NEW r \in Runs, NEW c \in Run, Put(r, c), UNCHANGED <<state, backups, lived>>,
           calls' \in Nat, faults' \in Nat, Fits(c, state, backups, lived),
           c.pc \in Making => run[r].pc \in Making /\ c.operation = run[r].operation
    PROVE  Inv'
<1>1. /\ run' \in [Runs -> Run] /\ run'[r] = c
      /\ \A q \in Runs : q # r => run'[q] = run[q]
  BY OneRun DEF Inv
<1>2. TypeOK'  BY <1>1 DEF Inv, TypeOK
<1>3. World'  BY DEF Inv, World
<1>4. Alone'  BY <1>1 DEF Inv, Alone
<1>5. AllFit'
  <2> SUFFICES ASSUME NEW q \in Runs PROVE Fits(run'[q], state', backups', lived')
    BY DEF AllFit
  <2>1. CASE q = r
    BY <1>1, <2>1
  <2>2. CASE q # r
    BY <1>1, <2>2 DEF Inv, AllFit
  <2> QED  BY <2>1, <2>2
<1>6. UpgradesAreBackedUp'  BY DEF Inv, UpgradesAreBackedUp
<1> QED  BY <1>2, <1>3, <1>4, <1>5, <1>6 DEF Inv

LEMMA SpentTyped ==
    ASSUME TypeOK, spent' = spent \/ Fault
    PROVE  calls' \in Nat /\ faults' \in Nat
BY DEF TypeOK, spent, Fault

(* The shapes of a step. *)
Moved(old, label) == [old EXCEPT !.pc = label]
Raised(old, code) == [old EXCEPT !.pc = "handle", !.error = code]
Finished(old, answer) ==
    [Called(old.operation, old.source, old.actor) EXCEPT
       !.pc = "idle", !.applied = old.applied, !.outcome = answer]

LEMMA GotoRecord ==
    ASSUME NEW old \in Run, NEW label \in Labels, NEW c, c = Moved(old, label)
    PROVE  /\ c \in Run /\ c.pc = label
           /\ c.operation = old.operation /\ c.source = old.source /\ c.actor = old.actor
           /\ c.existed = old.existed /\ c.current = old.current /\ c.seen = old.seen
           /\ c.attempted = old.attempted /\ c.returned = old.returned /\ c.cleanup = old.cleanup
           /\ c.found = old.found /\ c.applied = old.applied /\ c.error = old.error
           /\ c.outcome = old.outcome
BY DEF Run, Moved

LEMMA CalledTyped ==
    ASSUME NEW o \in Operations, NEW source \in 1..3, NEW a \in Actors
    PROVE  Called(o, source, a) \in Run
BY DEF Called, Run, Labels, Codes, Outcomes

LEMMA FinishRecord ==
    ASSUME NEW old \in Run, NEW answer \in Outcomes, NEW c, c = Finished(old, answer)
    PROVE  /\ c \in Run /\ c.pc = "idle" /\ c.outcome = answer
           /\ c.operation = old.operation /\ c.source = old.source /\ c.actor = old.actor
           /\ c.applied = old.applied /\ ~c.attempted
<1>1. old.operation \in Operations /\ old.source \in 1..3 /\ old.actor \in Actors /\ old.applied \in BOOLEAN
  BY DEF Run
<1>2. Called(old.operation, old.source, old.actor) \in Run  BY <1>1, CalledTyped
<1>3. c \in Run  BY <1>1, <1>2 DEF Run, Labels, Finished
<1> QED  BY <1>3 DEF Called, Finished

LEMMA RaiseRecord ==
    ASSUME NEW old \in Run, NEW code \in Codes, NEW c, c = Raised(old, code)
    PROVE  /\ c \in Run /\ c.pc = "handle" /\ c.error = code
           /\ c.operation = old.operation /\ c.source = old.source /\ c.actor = old.actor
           /\ c.applied = old.applied /\ c.attempted = old.attempted
BY DEF Run, Labels, Raised

(* A run finishes with an answer that is true. *)
AnswerIsTrue(c, answer) ==
    IF c.source >= 2
    THEN /\ answer \in {"committed", "reconciled"} =>
              state.schema > c.source /\ Own(c, state) = Mine(c, backups) /\ Sealed(c, backups)
         /\ answer = "already_current" => state.schema > c.source /\ Own(c, state) = NoReceipt
         /\ answer = "MIGRATION_COMMITTED_BACKUP_INVALID" =>
              state.schema > c.source /\ Own(c, state) # NoReceipt
         /\ answer \notin OpenOutcomes => ~c.applied
    ELSE /\ answer \in Successes => state.schema >= 2
         /\ answer \in {"version_confirmed", "reconciled"} => SealedFor(c, backups)

LEMMA FinishStep ==
    ASSUME Inv, NEW r \in Runs, NEW answer \in Outcomes, Finish(r, answer),
           UNCHANGED <<state, backups, lived>>, spent' = spent \/ Fault,
           AnswerIsTrue(run[r], answer)
    PROVE  Inv'
<1>1. PICK old \in Run : old = run[r]  BY DEF Inv, TypeOK
<1>2. PICK c : c = Finished(old, answer)  OBVIOUS
<1>3. /\ c \in Run /\ c.pc = "idle" /\ c.outcome = answer
      /\ c.operation = old.operation /\ c.source = old.source /\ c.actor = old.actor
      /\ c.applied = old.applied /\ ~c.attempted
  BY <1>2, FinishRecord
<1>4. Put(r, c)  BY <1>1, <1>2 DEF Finish, Finished
<1>5. Fits(old, state, backups, lived)  BY <1>1 DEF Inv, AllFit
<1>6. /\ Own(c, state) = Own(old, state) /\ Mine(c, backups) = Mine(old, backups)
      /\ Sealed(c, backups) = Sealed(old, backups) /\ SealedFor(c, backups) = SealedFor(old, backups)
  BY <1>3 DEF Own, Mine, Sealed, SealedFor
<1>7. CopyFits(c, backups, lived) /\ CallFits(c) /\ StateFits(c, state)
  BY <1>3 DEF CopyFits, CallFits, StateFits, Making, Holding, Settled
<1>8. ReceiptFits(c, state, backups)
  BY <1>3, <1>5, <1>6 DEF Fits, ReceiptFits, Settled
<1>9. AnswerFits(c, state, backups)
  BY <1>1, <1>3, <1>6 DEF AnswerFits, AnswerIsTrue
<1>10. TypeOK  BY DEF Inv
<1> QED
  BY <1>3, <1>4, <1>7, <1>8, <1>9, <1>10, SpentTyped, PrivateStep DEF Fits, Making

LEMMA RaiseStep ==
    ASSUME Inv, NEW r \in Runs, NEW code \in Codes, Raise(r, code), run[r].pc # "idle",
           UNCHANGED <<state, backups, lived>>, spent' = spent \/ Fault,
           code = "OPERATION_CONFLICT" /\ run[r].source >= 2 => ~run[r].applied
    PROVE  Inv'
<1>1. PICK old \in Run : old = run[r]  BY DEF Inv, TypeOK
<1>2. PICK c : c = Raised(old, code)  OBVIOUS
<1>3. /\ c \in Run /\ c.pc = "handle" /\ c.error = code
      /\ c.operation = old.operation /\ c.source = old.source /\ c.actor = old.actor
      /\ c.applied = old.applied /\ c.attempted = old.attempted
  BY <1>2, RaiseRecord
<1>4. Put(r, c)  BY <1>1, <1>2 DEF Raise, Raised
<1>5. Fits(old, state, backups, lived)  BY <1>1 DEF Inv, AllFit
<1>6. /\ Own(c, state) = Own(old, state) /\ Mine(c, backups) = Mine(old, backups)
      /\ Sealed(c, backups) = Sealed(old, backups) /\ SealedFor(c, backups) = SealedFor(old, backups)
  BY <1>3 DEF Own, Mine, Sealed, SealedFor
<1>7. CopyFits(c, backups, lived)
  BY <1>3, <1>5, <1>6 DEF Fits, CopyFits, Making, Holding, Settled
<1>8. CallFits(c) /\ StateFits(c, state)
  BY <1>1, <1>3, <1>5 DEF Fits, CallFits, StateFits
<1>9. ReceiptFits(c, state, backups) /\ AnswerFits(c, state, backups)
  BY <1>3, <1>5, <1>6 DEF Fits, ReceiptFits, Settled, AnswerFits
<1>10. TypeOK  BY DEF Inv
<1> QED
  BY <1>3, <1>4, <1>7, <1>8, <1>9, <1>10, SpentTyped, PrivateStep DEF Fits, Making

(* What a run sees of the state. *)
LEMMA Sees ==
    ASSUME Inv, NEW r \in Runs
    PROVE  /\ run[r] \in Run /\ Fits(run[r], state, backups, lived)
           /\ run[r].source \in 1..3 /\ state.schema \in 1..4
           /\ Receipted(r) <=> run[r].source >= 2
           /\ Target(r) = run[r].source + 1
           /\ Directory(r) = backups[run[r].operation]
           /\ Receipted(r) /\ state.schema = Target(r) => Committed(r) = Own(run[r], state)
           /\ ~(Receipted(r) /\ state.schema = Target(r)) => Committed(r) = NoReceipt
           /\ Receipted(r) => Own(run[r], state) \in Upgrade \union {NoReceipt}
           /\ Refusal(r) \in {"none", "PROJECT_FORBIDDEN", "MIGRATION_TARGET_MISMATCH",
                              "OPERATION_CONFLICT"}
<1>1. run[r] \in Run /\ Fits(run[r], state, backups, lived)
  BY DEF Inv, TypeOK, AllFit
<1>2. run[r].source \in 1..3 /\ run[r].operation \in Operations /\ state.schema \in 1..4
  BY <1>1 DEF Run, Inv, TypeOK, State
<1>3. Receipted(r) <=> run[r].source >= 2  BY <1>2 DEF Receipted
<1>4. Target(r) = run[r].source + 1 /\ Directory(r) = backups[run[r].operation]
  BY DEF Target, Directory
<1>5. /\ Receipted(r) /\ state.schema = Target(r) => Committed(r) = Own(run[r], state)
      /\ ~(Receipted(r) /\ state.schema = Target(r)) => Committed(r) = NoReceipt
  BY DEF Committed, Own, Target
<1>6. Receipted(r) => Own(run[r], state) \in Upgrade \union {NoReceipt}
  BY <1>2, <1>3 DEF Own, Inv, TypeOK, State
<1>7. Refusal(r) \in {"none", "PROJECT_FORBIDDEN", "MIGRATION_TARGET_MISMATCH", "OPERATION_CONFLICT"}
  BY DEF Refusal
<1> QED  BY <1>1, <1>2, <1>3, <1>4, <1>5, <1>6, <1>7

\* Nobody applies before it attempts.
LEMMA NotApplied ==
    ASSUME Inv, NEW r \in Runs,
           run[r].pc \in {"observe", "look", "make", "hold", "check", "migrate"} \union Making
                         \/ (~run[r].attempted /\ run[r].pc # "idle")
    PROVE  ~run[r].applied
BY Sees DEF Fits, CallFits, Making, Settled

LEMMA CallInv ==
    ASSUME Inv, NEW r \in Runs, Call(r)
    PROVE  Inv'
<1>1. PICK o \in Operations, source \in 1..3, a \in Actors : Put(r, Called(o, source, a))
  BY DEF Call
<1>2. PICK c \in Run : c = Called(o, source, a)  BY CalledTyped
<1>3. c.pc = "observe" /\ ~c.attempted /\ ~c.applied  BY <1>2 DEF Called
<1>4. Fits(c, state, backups, lived)
  BY <1>3 DEF Fits, CopyFits, CallFits, StateFits, ReceiptFits, AnswerFits, Making, Holding, Settled
<1>5. calls' \in Nat /\ faults' \in Nat  BY DEF Call, Inv, TypeOK
<1> QED  BY <1>1, <1>2, <1>3, <1>4, <1>5, PrivateStep DEF Call, Making

LEMMA ObserveInv ==
    ASSUME Inv, NEW r \in Runs, Observe(r)
    PROVE  Inv'
<1>0. UNCHANGED <<state, backups, lived, spent>> /\ run[r].pc = "observe"  BY DEF Observe
<1>1. PICK old \in Run : old = run[r]  BY Sees
<1>2. ~old.applied /\ ~old.attempted
  BY <1>0, <1>1, NotApplied, Sees DEF Fits, CallFits, Settled
<1>3. TypeOK  BY DEF Inv
<1>4. CASE Refusal(r) # "none" /\ Finish(r, Refusal(r))
  <2>1. AnswerIsTrue(run[r], Refusal(r))
    BY <1>1, <1>2, <1>4, Sees DEF AnswerIsTrue, Successes
  <2> QED  BY <1>0, <1>4, <2>1, Sees, FinishStep DEF Outcomes, Codes
<1>5. CASE /\ Receipted(r) /\ state.schema = Target(r)
           /\ Committed(r) = NoReceipt /\ Finish(r, "already_current")
  <2>1. AnswerIsTrue(run[r], "already_current")
    BY <1>5, Sees DEF AnswerIsTrue, Successes, OpenOutcomes
  <2>2. "already_current" \in Outcomes  BY DEF Outcomes, Successes
  <2> QED  BY <1>0, <1>5, <2>1, <2>2, FinishStep
<1>6. CASE /\ Refusal(r) = "none" /\ Receipted(r) /\ state.schema = Target(r)
           /\ Committed(r) # NoReceipt
           /\ Put(r, [run[r] EXCEPT !.pc = "verify", !.found = Committed(r)])
  <2>1. PICK c : c = [old EXCEPT !.pc = "verify", !.found = Committed(r)]  OBVIOUS
  <2>2. Committed(r) \in Upgrade /\ Committed(r).actor = run[r].actor
    BY <1>6, Sees DEF Refusal
  <2>3. /\ c \in Run /\ c.pc = "verify" /\ c.found = Committed(r)
        /\ c.operation = old.operation /\ c.source = old.source /\ c.actor = old.actor
        /\ c.applied = old.applied /\ c.attempted = old.attempted
    BY <2>1, <2>2 DEF Run, Labels
  <2>4. ReceiptFits(c, state, backups)
    BY <1>1, <1>2, <1>6, <2>2, <2>3, Sees DEF ReceiptFits, Own, Settled
  <2>5. Fits(c, state, backups, lived)
    BY <1>1, <1>2, <1>6, <2>3, <2>4, Sees
    DEF Fits, CopyFits, CallFits, StateFits, AnswerFits, Making, Holding, Settled
  <2> QED
    BY <1>0, <1>1, <1>3, <1>6, <2>1, <2>3, <2>5, SpentTyped, PrivateStep DEF Making
<1>7. CASE /\ ~(Receipted(r) /\ state.schema = Target(r))
           /\ Refusal(r) = "none"
           /\ Put(r, [run[r] EXCEPT !.pc = "look", !.current = state.schema = Target(r)])
  <2>1. PICK c : c = [old EXCEPT !.pc = "look", !.current = (state.schema = Target(r))]  OBVIOUS
  <2>3. /\ c \in Run /\ c.pc = "look" /\ c.current = (state.schema = Target(r))
        /\ c.operation = old.operation /\ c.source = old.source /\ c.actor = old.actor
        /\ c.applied = old.applied /\ c.attempted = old.attempted
    BY <2>1 DEF Run, Labels
  <2>4. StateFits(c, state)
    <3>1. c.current => state.schema = Target(r) /\ ~Receipted(r)  BY <1>7, <2>3
    <3>2. c.current => old.source = 1 /\ state.schema = 2
      BY <1>1, <3>1, Sees
    <3> QED  BY <2>3, <3>2 DEF StateFits
  <2>5. Fits(c, state, backups, lived)
    BY <1>2, <2>3, <2>4
    DEF Fits, CopyFits, CallFits, ReceiptFits, AnswerFits, Making, Holding, Settled
  <2> QED
    BY <1>0, <1>1, <1>3, <1>7, <2>1, <2>3, <2>5, SpentTyped, PrivateStep DEF Making
<1> QED  BY <1>4, <1>5, <1>6, <1>7 DEF Observe

\* A run goes on to where nothing more is asked of it than before.
LEMMA GotoStep ==
    ASSUME Inv, NEW r \in Runs, NEW label \in Labels, Goto(r, label),
           UNCHANGED <<state, backups, lived, spent>>,
           Fits(Moved(run[r], label), state, backups, lived), label \notin Making
    PROVE  Inv'
<1>1. PICK old \in Run : old = run[r]  BY Sees
<1>2. PICK c : c = Moved(old, label)  OBVIOUS
<1>3. c \in Run /\ c.pc = label  BY <1>2, GotoRecord
<1>4. Put(r, c)  BY <1>1, <1>2 DEF Goto, Moved
<1>5. TypeOK  BY DEF Inv
<1> QED  BY <1>1, <1>2, <1>3, <1>4, <1>5, SpentTyped, PrivateStep

LEMMA LookInv ==
    ASSUME Inv, NEW r \in Runs, Look(r)
    PROVE  Inv'
<1>0. UNCHANGED <<state, backups, lived, spent>> /\ run[r].pc = "look"  BY DEF Look
<1>1. PICK old \in Run : old = run[r]  BY Sees
<1>2. Fits(old, state, backups, lived) /\ ~old.applied /\ ~old.attempted
  BY <1>0, <1>1, NotApplied, Sees DEF Fits, CallFits, Settled
<1>3. TypeOK  BY DEF Inv
<1>4. CASE Put(r, [run[r] EXCEPT !.pc = "hold", !.existed = TRUE])
  <2>1. PICK c : c = [old EXCEPT !.pc = "hold", !.existed = TRUE]  OBVIOUS
  <2>2. c \in Run /\ c.pc = "hold" /\ ~c.applied /\ ~c.attempted
    BY <1>2, <2>1 DEF Run, Labels
  <2>3. Fits(c, state, backups, lived)
    BY <2>2
    DEF Fits, CopyFits, CallFits, StateFits, ReceiptFits, AnswerFits, Making, Holding, Settled
  <2> QED
    BY <1>0, <1>1, <1>3, <1>4, <2>1, <2>2, <2>3, SpentTyped, PrivateStep DEF Making
<1>5. CASE run[r].current /\ Finish(r, "already_current")
  <2>1. AnswerIsTrue(run[r], "already_current")
    BY <1>0, <1>1, <1>2, <1>5 DEF AnswerIsTrue, Fits, StateFits
  <2>2. "already_current" \in Outcomes  BY DEF Outcomes, Successes
  <2> QED  BY <1>0, <1>5, <2>1, <2>2, FinishStep
<1>6. CASE Goto(r, "make")
  <2>1. PICK c : c = Moved(old, "make")  OBVIOUS
  <2>2. "make" \in Labels \ Making  BY DEF Labels, Making
  <2>3. c.pc = "make" /\ ~c.applied /\ ~c.attempted
    BY <1>2, <2>1, <2>2, GotoRecord
  <2>4. Fits(c, state, backups, lived)
    BY <2>3
    DEF Fits, CopyFits, CallFits, StateFits, ReceiptFits, AnswerFits, Making, Holding, Settled
  <2> QED  BY <1>0, <1>1, <1>6, <2>1, <2>2, <2>4, GotoStep
<1> QED  BY <1>4, <1>5, <1>6 DEF Look

(* A run writes into its directory while it is being made. *)
LEMMA StoreStep ==
    ASSUME Inv, NEW r \in Runs, NEW c \in Run, NEW d \in Backup, Put(r, c), Store(r, d),
           UNCHANGED <<state, lived, spent>>,
           ~Sealed(run[r], backups), Directory(r).made => d.made,
           d.receipt # NoReceipt => d.made /\ d.copy = d.receipt.copy /\ d.copy \in lived,
           c.operation = run[r].operation,
           run[r].pc \in Making \/ ~Directory(r).made,
           Fits(c, state, backups', lived)
    PROVE  Inv'
<1>0. /\ TypeOK /\ run[r].operation \in Operations
      /\ Directory(r) = backups[run[r].operation]
  BY Sees DEF Inv, Run
<1>1. /\ run' \in [Runs -> Run] /\ run'[r] = c
      /\ \A q \in Runs : q # r => run'[q] = run[q]
  BY <1>0, OneRun
<1>2. /\ backups' \in [Operations -> Backup] /\ backups'[run[r].operation] = d
      /\ \A o \in Operations : o # run[r].operation => backups'[o] = backups[o]
  BY <1>0 DEF Store, TypeOK
<1>3. Grows
  BY <1>0, <1>2 DEF Grows, Sealed, TypeOK, State
<1>4. TypeOK'  BY <1>0, <1>1, <1>2 DEF TypeOK, spent
<1>5. World'
  <2>1. \A o \in Operations : backups'[o].receipt # NoReceipt =>
          /\ backups'[o].made /\ backups'[o].copy = backups'[o].receipt.copy
          /\ backups'[o].copy \in lived
    BY <1>2 DEF Inv, World
  <2> QED  BY <2>1 DEF Inv, World
<1>6. \A q \in Runs : q # r /\ run[q].pc \in Making => run[q].operation # run[r].operation
  <2> SUFFICES ASSUME NEW q \in Runs, q # r, run[q].pc \in Making,
                      run[q].operation = run[r].operation
               PROVE  FALSE
    OBVIOUS
  <2>1. backups[run[q].operation].made  BY Sees DEF Fits, CopyFits
  <2> QED  BY <1>0, <2>1 DEF Inv, Alone
<1>7. Alone'  BY <1>1, <1>6 DEF Inv, Alone
<1>8. AllFit'
  <2> SUFFICES ASSUME NEW q \in Runs PROVE Fits(run'[q], state', backups', lived')
    BY DEF AllFit
  <2>1. CASE q = r
    BY <1>1, <2>1
  <2>2. CASE q # r
    <3>1. run[q] \in Run /\ Fits(run[q], state, backups, lived) /\ run'[q] = run[q]
      BY <1>1, <2>2, Sees
    <3>2. run[q].pc \in Making =>
            /\ backups'[run[q].operation].receipt = backups[run[q].operation].receipt
            /\ backups'[run[q].operation].copy = backups[run[q].operation].copy
      BY <1>2, <1>6, <2>2, <3>1 DEF Run
    <3>3. state' \in State  BY <1>4 DEF TypeOK
    <3> QED  BY <1>0, <1>3, <3>1, <3>2, <3>3, FitsGrows
  <2> QED  BY <2>1, <2>2
<1>9. UpgradesAreBackedUp'
  <2>1. state' \in State  BY <1>4 DEF TypeOK
  <2> QED  BY <1>0, <1>3, <2>1, BackedGrows DEF Inv
<1> QED  BY <1>4, <1>5, <1>7, <1>8, <1>9 DEF Inv

\* A run that fails where no conflict is what it says.
LEMMA FailsSafely ==
    ASSUME Inv, NEW r \in Runs, NEW code \in Codes \ {"OPERATION_CONFLICT"}, Raise(r, code),
           run[r].pc # "idle", UNCHANGED <<state, backups, lived>>, spent' = spent \/ Fault
    PROVE  Inv'
BY RaiseStep

LEMMA MakeInv ==
    ASSUME Inv, NEW r \in Runs, Make(r)
    PROVE  Inv'
<1>0. UNCHANGED <<state, lived, spent>> /\ run[r].pc = "make"  BY DEF Make
<1>1. PICK old \in Run : old = run[r]  BY Sees
<1>2. ~old.applied /\ ~old.attempted
  BY <1>0, <1>1, NotApplied, Sees DEF Fits, CallFits, Settled
<1>3. CASE Raise(r, "FAILED") /\ UNCHANGED backups
  BY <1>0, <1>3, FailsSafely DEF Codes
<1>4. CASE ~Directory(r).made /\ Goto(r, "copy") /\ Store(r, [Directory(r) EXCEPT !.made = TRUE])
  <2>1. PICK c : c = Moved(old, "copy")  OBVIOUS
  <2>2. /\ c \in Run /\ c.pc = "copy" /\ c.operation = old.operation
        /\ ~c.applied /\ ~c.attempted
    BY <1>2, <2>1, GotoRecord DEF Labels
  <2>3. Put(r, c)  BY <1>1, <1>4, <2>1 DEF Goto, Moved
  <2>4. Directory(r) \in Backup /\ Directory(r) = backups[old.operation] /\ old.operation \in Operations
    BY <1>1 DEF Directory, Inv, TypeOK, Run
  <2>5. Directory(r).receipt = NoReceipt
    BY <1>4, <2>4 DEF Inv, World
  <2>6. PICK d : d = [Directory(r) EXCEPT !.made = TRUE]  OBVIOUS
  <2>7. d \in Backup /\ d.made /\ d.receipt = NoReceipt
    BY <2>4, <2>5, <2>6 DEF Backup
  <2>8. Store(r, d) /\ backups'[c.operation] = d
    BY <1>1, <1>4, <2>2, <2>4, <2>6 DEF Store, Inv, TypeOK
  <2>9. Fits(c, state, backups', lived)
    BY <2>2, <2>7, <2>8
    DEF Fits, CopyFits, CallFits, StateFits, ReceiptFits, AnswerFits, Making, Holding, Settled, Sealed
  <2>10. ~Sealed(run[r], backups)  BY <1>1, <2>4, <2>5 DEF Sealed
  <2> QED  BY <1>0, <1>1, <1>4, <2>2, <2>3, <2>7, <2>8, <2>9, <2>10, StoreStep
<1> QED  BY <1>3, <1>4 DEF Make

LEMMA BeginCopyInv ==
    ASSUME Inv, NEW r \in Runs, BeginCopy(r)
    PROVE  Inv'
<1>0. UNCHANGED <<state, backups, lived, spent>> /\ run[r].pc = "copy"  BY DEF BeginCopy
<1>1. PICK old \in Run : old = run[r]  BY Sees
<1>2. /\ ~old.applied /\ ~old.attempted /\ Fits(old, state, backups, lived)
  BY <1>0, <1>1, NotApplied, Sees DEF Fits, CallFits, Settled, Making
<1>3. TypeOK /\ state.writes \in Nat  BY DEF Inv, TypeOK, State
<1>4. CASE Raise(r, "PROJECT_FORBIDDEN") \/ Raise(r, "MIGRATION_STATE_CHANGED")
  BY <1>0, <1>4, FailsSafely DEF Codes
<1>5. CASE state.schema = run[r].source /\ Put(r, [run[r] EXCEPT !.pc = "copying", !.seen = state.writes])
  <2>1. PICK c : c = [old EXCEPT !.pc = "copying", !.seen = state.writes]  OBVIOUS
  <2>2. /\ c \in Run /\ c.pc = "copying" /\ c.seen = state.writes
        /\ c.operation = old.operation /\ c.source = old.source
        /\ ~c.applied /\ ~c.attempted
    BY <1>2, <1>3, <2>1 DEF Run, Labels
  <2>3. [schema |-> c.source, writes |-> c.seen] \in lived
    BY <1>1, <1>5, <2>2 DEF Inv, World
  <2>4. Fits(c, state, backups, lived)
    BY <1>0, <1>1, <1>2, <2>2, <2>3
    DEF Fits, CopyFits, CallFits, StateFits, ReceiptFits, AnswerFits, Making, Holding, Settled, Sealed
  <2> QED
    BY <1>0, <1>1, <1>3, <1>5, <2>1, <2>2, <2>4, SpentTyped, PrivateStep DEF Making
<1> QED  BY <1>4, <1>5 DEF BeginCopy

LEMMA EndCopyInv ==
    ASSUME Inv, NEW r \in Runs, EndCopy(r)
    PROVE  Inv'
<1>0. UNCHANGED <<state, lived, spent>> /\ run[r].pc = "copying" /\ Goto(r, "seal")
  BY DEF EndCopy
<1>1. PICK old \in Run : old = run[r]  BY Sees
<1>2. /\ ~old.applied /\ ~old.attempted /\ Fits(old, state, backups, lived)
  BY <1>0, <1>1, NotApplied, Sees DEF Fits, CallFits, Settled, Making
<1>3. PICK c : c = Moved(old, "seal")  OBVIOUS
<1>4. /\ c \in Run /\ c.pc = "seal" /\ c.operation = old.operation
      /\ ~c.applied /\ ~c.attempted
  BY <1>2, <1>3, GotoRecord DEF Labels
<1>5. Put(r, c)  BY <1>0, <1>1, <1>3 DEF Goto, Moved
<1>6. /\ Directory(r) \in Backup /\ Directory(r) = backups[old.operation]
      /\ old.operation \in Operations
  BY <1>1 DEF Directory, Inv, TypeOK, Run
<1>7. PICK copy : copy = [schema |-> old.source, writes |-> old.seen]  OBVIOUS
<1>8. copy \in lived /\ copy \in Copy
  BY <1>0, <1>1, <1>2, <1>7 DEF Fits, CopyFits, Copy, Run
<1>9. Directory(r).made /\ Directory(r).receipt = NoReceipt
  BY <1>0, <1>1, <1>2, <1>6 DEF Fits, CopyFits, Making, Sealed
<1>10. PICK d : d = [Directory(r) EXCEPT !.copy = copy]  OBVIOUS
<1>11. d \in Backup /\ d.made /\ d.receipt = NoReceipt /\ d.copy = copy
  BY <1>6, <1>8, <1>9, <1>10 DEF Backup
<1>12. Store(r, d)  BY <1>1, <1>7, <1>10 DEF EndCopy
<1>13. backups'[c.operation] = d
  BY <1>1, <1>4, <1>6, <1>12 DEF Store, Inv, TypeOK
<1>14. Fits(c, state, backups', lived)
  BY <1>4, <1>8, <1>11, <1>13
  DEF Fits, CopyFits, CallFits, StateFits, ReceiptFits, AnswerFits, Making, Holding, Settled, Sealed
<1>15. ~Sealed(run[r], backups) /\ run[r].pc \in Making
  BY <1>0, <1>1, <1>6, <1>9 DEF Sealed, Making
<1> QED  BY <1>0, <1>1, <1>4, <1>5, <1>11, <1>12, <1>14, <1>15, StoreStep

LEMMA SealInv ==
    ASSUME Inv, NEW r \in Runs, Seal(r)
    PROVE  Inv'
<1>0. UNCHANGED <<state, lived, spent>> /\ run[r].pc = "seal" /\ Goto(r, "hold")
  BY DEF Seal
<1>1. PICK old \in Run : old = run[r]  BY Sees
<1>2. /\ ~old.applied /\ ~old.attempted /\ Fits(old, state, backups, lived)
  BY <1>0, <1>1, NotApplied, Sees DEF Fits, CallFits, Settled, Making
<1>3. PICK c : c = Moved(old, "hold")  OBVIOUS
<1>4. /\ c \in Run /\ c.pc = "hold" /\ c.operation = old.operation
      /\ ~c.applied /\ ~c.attempted
  BY <1>2, <1>3, GotoRecord DEF Labels
<1>5. Put(r, c)  BY <1>0, <1>1, <1>3 DEF Goto, Moved
<1>6. /\ Directory(r) \in Backup /\ Directory(r) = backups[old.operation]
      /\ old.operation \in Operations /\ old.actor \in Actors
  BY <1>1 DEF Directory, Inv, TypeOK, Run
<1>7. /\ Directory(r).made /\ Directory(r).receipt = NoReceipt
      /\ Directory(r).copy \in Copy /\ Directory(r).copy \in lived
  BY <1>0, <1>1, <1>2, <1>6 DEF Fits, CopyFits, Making, Sealed
<1>8. PICK sealed : sealed = [copy |-> Directory(r).copy, actor |-> old.actor]  OBVIOUS
<1>9. sealed \in Binding /\ sealed.copy = Directory(r).copy
  BY <1>6, <1>7, <1>8 DEF Binding
<1>10. PICK d : d = [Directory(r) EXCEPT !.receipt = sealed]  OBVIOUS
<1>11. /\ d \in Backup /\ d.made /\ d.receipt = sealed /\ d.copy = sealed.copy
       /\ d.copy \in lived
  BY <1>6, <1>7, <1>9, <1>10 DEF Backup
<1>12. Store(r, d)  BY <1>1, <1>8, <1>10 DEF Seal
<1>13. Fits(c, state, backups', lived)
  BY <1>4
  DEF Fits, CopyFits, CallFits, StateFits, ReceiptFits, AnswerFits, Making, Holding, Settled
<1>14. ~Sealed(run[r], backups) /\ run[r].pc \in Making
  BY <1>0, <1>1, <1>6, <1>7 DEF Sealed, Making
<1> QED  BY <1>0, <1>1, <1>4, <1>5, <1>11, <1>12, <1>13, <1>14, StoreStep

LEMMA HoldInv ==
    ASSUME Inv, NEW r \in Runs, Hold(r)
    PROVE  Inv'
<1>0. UNCHANGED <<state, backups, lived, spent>> /\ run[r].pc = "hold"  BY DEF Hold
<1>1. PICK old \in Run : old = run[r]  BY Sees
<1>2. ~old.applied /\ ~old.attempted
  BY <1>0, <1>1, NotApplied, Sees DEF Fits, CallFits, Settled
<1>3. CASE Raise(r, "MIGRATION_BACKUP_INCOMPLETE") \/ Raise(r, "MIGRATION_BACKUP_CORRUPT")
  BY <1>0, <1>3, FailsSafely DEF Codes
<1>4. CASE Verified(r) /\ Goto(r, "check")
  <2>1. PICK c : c = Moved(old, "check")  OBVIOUS
  <2>2. "check" \in Labels \ Making  BY DEF Labels, Making
  <2>3. /\ c.pc = "check" /\ ~c.applied /\ ~c.attempted
        /\ c.operation = old.operation /\ c.source = old.source
    BY <1>2, <2>1, <2>2, GotoRecord
  <2>4. SealedFor(c, backups)
    BY <1>1, <1>4, <2>3 DEF Verified, Directory, SealedFor, Sealed
  <2>5. Fits(c, state, backups, lived)
    BY <2>3, <2>4
    DEF Fits, CopyFits, CallFits, StateFits, ReceiptFits, AnswerFits, Making, Holding, Settled
  <2> QED  BY <1>0, <1>1, <1>4, <2>1, <2>2, <2>5, GotoStep
<1> QED  BY <1>3, <1>4 DEF Hold

LEMMA CheckInv ==
    ASSUME Inv, NEW r \in Runs, Check(r)
    PROVE  Inv'
<1>0. UNCHANGED <<state, backups, lived, spent>> /\ run[r].pc = "check"  BY DEF Check
<1>1. PICK old \in Run : old = run[r]  BY Sees
<1>2. ~old.applied /\ Fits(old, state, backups, lived) /\ TypeOK
  BY <1>0, <1>1, NotApplied, Sees DEF Inv
<1>3. CASE Raise(r, "MIGRATION_BACKUP_CORRUPT")
  BY <1>0, <1>3, FailsSafely DEF Codes
<1>4. CASE Put(r, [run[r] EXCEPT !.pc = "migrate", !.attempted = TRUE])
  <2>1. PICK c : c = [old EXCEPT !.pc = "migrate", !.attempted = TRUE]  OBVIOUS
  <2>2. /\ c \in Run /\ c.pc = "migrate" /\ ~c.applied /\ c.attempted
        /\ c.operation = old.operation /\ c.source = old.source
    BY <1>2, <2>1 DEF Run, Labels
  <2>3. SealedFor(c, backups)
    BY <1>0, <1>1, <1>2, <2>2 DEF Fits, CopyFits, SealedFor, Sealed, Holding
  <2>4. Fits(c, state, backups, lived)
    BY <2>2, <2>3
    DEF Fits, CopyFits, CallFits, StateFits, ReceiptFits, AnswerFits, Making, Holding, Settled
  <2> QED
    BY <1>0, <1>1, <1>2, <1>4, <2>1, <2>2, <2>4, SpentTyped, PrivateStep DEF Making
<1> QED  BY <1>3, <1>4 DEF Check

LEMMA MeetInv ==
    ASSUME Inv, NEW r \in Runs, Meet(r)
    PROVE  Inv'
<1>0. UNCHANGED <<state, backups, lived, spent>> /\ run[r].pc = "migrate"  BY DEF Meet
<1>1. PICK old \in Run : old = run[r]  BY Sees
<1>2. ~old.applied /\ Fits(old, state, backups, lived) /\ TypeOK
  BY <1>0, <1>1, NotApplied, Sees DEF Inv
<1>3. CASE Raise(r, "PROJECT_FORBIDDEN") \/ Raise(r, "MIGRATION_TARGET_MISMATCH")
  BY <1>0, <1>3, FailsSafely DEF Codes
<1>4. CASE Raise(r, "OPERATION_CONFLICT")
  BY <1>0, <1>1, <1>2, <1>4, RaiseStep DEF Codes
<1>5. CASE /\ state.schema = Target(r)
           /\ Committed(r) \in {NoReceipt, [actor |-> run[r].actor, backup |-> Directory(r).receipt]}
           /\ Put(r, [run[r] EXCEPT !.pc = "recheck", !.returned = TRUE, !.found = Committed(r)])
  <2>1. PICK c : c = [old EXCEPT !.pc = "recheck", !.returned = TRUE, !.found = Committed(r)]
    OBVIOUS
  <2>2. Committed(r) \in Upgrade \union {NoReceipt}  BY Sees
  <2>3. /\ c \in Run /\ c.pc = "recheck" /\ ~c.applied /\ c.found = Committed(r)
        /\ c.operation = old.operation /\ c.source = old.source /\ c.actor = old.actor
        /\ c.attempted = old.attempted
    BY <1>2, <2>1, <2>2 DEF Run, Labels
  <2>4. SealedFor(c, backups)
    BY <1>0, <1>1, <1>2, <2>3 DEF Fits, CopyFits, SealedFor, Sealed, Holding
  <2>5. ReceiptFits(c, state, backups)
    <3>1. SUFFICES ASSUME c.source >= 2 PROVE ReceiptFits(c, state, backups)
      BY DEF ReceiptFits
    <3>2. state.schema > c.source /\ Own(c, state) = c.found
      BY <1>1, <1>5, <2>3, <3>1, Sees DEF Own
    <3>3. c.found \in {NoReceipt, Mine(c, backups)}
      BY <1>1, <1>5, <2>3 DEF Mine, Directory
    <3> QED  BY <2>3, <3>2, <3>3 DEF ReceiptFits
  <2>6. Fits(c, state, backups, lived)
    BY <2>3, <2>4, <2>5
    DEF Fits, CopyFits, CallFits, StateFits, AnswerFits, Making, Holding, Settled
  <2> QED
    BY <1>0, <1>1, <1>2, <1>5, <2>1, <2>3, <2>6, SpentTyped, PrivateStep DEF Making
<1> QED  BY <1>3, <1>4, <1>5 DEF Meet

LEMMA RecheckInv ==
    ASSUME Inv, NEW r \in Runs, Recheck(r)
    PROVE  Inv'
<1>0. UNCHANGED <<state, backups, lived, spent>> /\ run[r].pc = "recheck"  BY DEF Recheck
<1>1. PICK old \in Run : old = run[r]  BY Sees
<1>2. Fits(old, state, backups, lived)  BY <1>1, Sees
<1>3. CASE Raise(r, "MIGRATION_BACKUP_CORRUPT")
  BY <1>0, <1>3, FailsSafely DEF Codes
<1>4. CASE Goto(r, "confirm")
  <2>1. PICK c : c = Moved(old, "confirm")  OBVIOUS
  <2>2. "confirm" \in Labels \ Making  BY DEF Labels, Making
  <2>3. /\ c.pc = "confirm" /\ c.applied = old.applied /\ c.attempted = old.attempted
        /\ c.operation = old.operation /\ c.source = old.source /\ c.actor = old.actor
        /\ c.found = old.found
    BY <2>1, <2>2, GotoRecord
  <2>4. /\ Own(c, state) = Own(old, state) /\ Mine(c, backups) = Mine(old, backups)
        /\ Sealed(c, backups) = Sealed(old, backups)
        /\ SealedFor(c, backups) = SealedFor(old, backups)
    BY <2>3 DEF Own, Mine, Sealed, SealedFor
  <2>5. Fits(c, state, backups, lived)
    BY <1>0, <1>1, <1>2, <2>3, <2>4
    DEF Fits, CopyFits, CallFits, StateFits, ReceiptFits, AnswerFits, Making, Holding, Settled
  <2> QED  BY <1>0, <1>1, <1>4, <2>1, <2>2, <2>5, GotoStep
<1> QED  BY <1>3, <1>4 DEF Recheck

(* A run that changed the state finds its own receipt there, no other's.   *)
LEMMA FindsItsOwn ==
    ASSUME Inv, NEW r \in Runs, Receipted(r), run[r].applied
    PROVE  /\ Own(run[r], state) = Mine(run[r], backups) /\ Own(run[r], state) # NoReceipt
           /\ Own(run[r], state).actor = run[r].actor
           /\ state.schema > run[r].source /\ Refusal(r) # "OPERATION_CONFLICT"
<1>1. /\ Own(run[r], state) = Mine(run[r], backups) /\ Sealed(run[r], backups)
      /\ state.schema > run[r].source
  BY Sees DEF Fits, ReceiptFits
<1>2. backups[run[r].operation].receipt \in Binding /\ run[r].actor \in Actors
  BY <1>1, Sees DEF Inv, TypeOK, Run, Backup, Sealed
<1>3. Mine(run[r], backups) \in Upgrade /\ Mine(run[r], backups).actor = run[r].actor
  BY <1>2 DEF Mine, Upgrade
<1>4. Own(run[r], state) # NoReceipt  BY <1>1, <1>3, UpgradeAssumption
<1>5. Refusal(r) # "OPERATION_CONFLICT"  BY <1>1, <1>3, Sees DEF Refusal
<1> QED  BY <1>1, <1>3, <1>4, <1>5

LEMMA ConfirmInv ==
    ASSUME Inv, NEW r \in Runs, Confirm(r)
    PROVE  Inv'
<1>0. UNCHANGED <<state, backups, lived, spent>> /\ run[r].pc = "confirm"  BY DEF Confirm
<1>1. PICK old \in Run : old = run[r]  BY Sees
<1>2. Fits(old, state, backups, lived) /\ TypeOK  BY <1>1, Sees DEF Inv
<1>3. CASE (~Administers(r) \/ (Receipted(r) /\ Refusal(r) # "none")) /\ Raise(r, Refusal(r))
  <2>1. Refusal(r) \in Codes  BY <1>3, Sees DEF Codes, Refusal
  <2>2. Refusal(r) = "OPERATION_CONFLICT" /\ run[r].source >= 2 => ~run[r].applied
    BY FindsItsOwn, Sees
  <2> QED  BY <1>0, <1>3, <2>1, <2>2, RaiseStep
<1>4. CASE Raise(r, "MIGRATION_OUTCOME_UNKNOWN")
  BY <1>0, <1>4, FailsSafely DEF Codes
<1>5. CASE /\ ~Receipted(r) => state.schema = 2
           /\ Put(r, [run[r] EXCEPT !.pc = "release", !.outcome = Conclusion(r)])
  <2>1. PICK c : c = [old EXCEPT !.pc = "release", !.outcome = Conclusion(r)]  OBVIOUS
  <2>2. Conclusion(r) \in Outcomes  BY DEF Conclusion, Outcomes, Successes
  <2>3. /\ c \in Run /\ c.pc = "release" /\ c.applied = old.applied /\ c.found = old.found
        /\ c.operation = old.operation /\ c.source = old.source /\ c.actor = old.actor
        /\ c.attempted = old.attempted /\ c.outcome = Conclusion(r)
    BY <2>1, <2>2 DEF Run, Labels
  <2>4. /\ Own(c, state) = Own(old, state) /\ Mine(c, backups) = Mine(old, backups)
        /\ Sealed(c, backups) = Sealed(old, backups)
        /\ SealedFor(c, backups) = SealedFor(old, backups)
    BY <2>3 DEF Own, Mine, Sealed, SealedFor
  <2>5. CopyFits(c, backups, lived) /\ CallFits(c) /\ AnswerFits(c, state, backups)
    BY <1>0, <1>1, <1>2, <2>3, <2>4
    DEF Fits, CopyFits, CallFits, AnswerFits, Making, Holding, Settled
  <2>6. StateFits(c, state)
    BY <1>1, <1>5, <2>3, Sees DEF StateFits, Conclusion
  <2>7. c.source >= 2 => c.outcome = IF c.found = NoReceipt THEN "already_current" ELSE "committed"
    BY <1>1, <2>3, Sees DEF Conclusion
  <2>8. ReceiptFits(c, state, backups)
    BY <1>0, <1>1, <1>2, <2>3, <2>4, <2>7 DEF Fits, ReceiptFits, Settled
  <2> QED
    BY <1>0, <1>1, <1>2, <1>5, <2>1, <2>3, <2>5, <2>6, <2>8, SpentTyped, PrivateStep
    DEF Fits, Making
<1> QED  BY <1>3, <1>4, <1>5 DEF Confirm

LEMMA ReleaseInv ==
    ASSUME Inv, NEW r \in Runs, Release(r)
    PROVE  Inv'
<1>0. UNCHANGED <<state, backups, lived, spent>> /\ run[r].pc = "release"  BY DEF Release
<1>1. PICK old \in Run : old = run[r]  BY Sees
<1>2. Fits(old, state, backups, lived) /\ old.outcome \in Outcomes
  BY <1>1, Sees DEF Run
<1>3. CASE Raise(r, "MIGRATION_BACKUP_CORRUPT")
  BY <1>0, <1>3, FailsSafely DEF Codes
<1>4. CASE Finish(r, run[r].outcome)
  <2>1. SealedFor(old, backups) /\ Sealed(old, backups)
    BY <1>0, <1>1, <1>2 DEF Fits, CopyFits, Holding, Settled, SealedFor
  <2>2. CASE old.source >= 2
    <3>1. /\ state.schema > old.source /\ Own(old, state) = old.found
          /\ old.found \in {NoReceipt, Mine(old, backups)}
          /\ old.outcome = IF old.found = NoReceipt THEN "already_current" ELSE "committed"
      BY <1>0, <1>1, <1>2, <2>2 DEF Fits, ReceiptFits, Settled
    <3>2. old.outcome \in OpenOutcomes /\ old.outcome # "MIGRATION_COMMITTED_BACKUP_INVALID"
      BY <3>1 DEF OpenOutcomes, Successes
    <3>3. AnswerIsTrue(old, old.outcome)
      BY <2>1, <2>2, <3>1, <3>2 DEF AnswerIsTrue
    <3> QED  BY <1>0, <1>1, <1>2, <1>4, <3>3, FinishStep
  <2>3. CASE ~(old.source >= 2)
    <3>1. old.source = 1  BY <1>1, <2>3, Sees
    <3>2. state.schema >= 2  BY <1>0, <1>1, <1>2, <3>1 DEF Fits, StateFits
    <3>3. AnswerIsTrue(old, old.outcome)
      BY <2>1, <2>3, <3>2 DEF AnswerIsTrue
    <3> QED  BY <1>0, <1>1, <1>2, <1>4, <3>3, FinishStep
  <2> QED  BY <2>2, <2>3
<1> QED  BY <1>3, <1>4 DEF Release

\* Success is no error.
LEMMA ErrorsAreNoAnswers ==
    /\ Codes \subseteq Outcomes /\ Codes \cap Successes = {}
    /\ "MIGRATION_COMMITTED_BACKUP_INVALID" \notin Codes
BY DEF Codes, Successes, Outcomes

LEMMA AnsweredInv ==
    ASSUME Inv, NEW r \in Runs, Receipted(r), run[r].pc = "handle",
           UNCHANGED <<state, backups, lived, spent>>, Answered(r), run[r].attempted
    PROVE  Inv'
<1>1. PICK old \in Run : old = run[r]  BY Sees
<1>2. Fits(old, state, backups, lived) /\ TypeOK /\ old.error \in Codes /\ old.source >= 2
  BY <1>1, Sees DEF Inv, Run
<1>3. CASE Refusal(r) # "none" /\ Finish(r, "MIGRATION_OUTCOME_UNKNOWN")
  <2>1. AnswerIsTrue(run[r], "MIGRATION_OUTCOME_UNKNOWN")
    BY <1>1, <1>2 DEF AnswerIsTrue, OpenOutcomes
  <2>2. "MIGRATION_OUTCOME_UNKNOWN" \in Outcomes  BY DEF Outcomes, Codes
  <2> QED  BY <1>3, <2>1, <2>2, FinishStep
<1>4. CASE Committed(r) # NoReceipt /\ Finish(r, "MIGRATION_COMMITTED_BACKUP_INVALID")
  <2>1. state.schema > run[r].source /\ Own(run[r], state) # NoReceipt
    BY <1>4, Sees
  <2>2. AnswerIsTrue(run[r], "MIGRATION_COMMITTED_BACKUP_INVALID")
    BY <1>1, <1>2, <2>1 DEF AnswerIsTrue, OpenOutcomes
  <2>3. "MIGRATION_COMMITTED_BACKUP_INVALID" \in Outcomes  BY DEF Outcomes
  <2> QED  BY <1>4, <2>2, <2>3, FinishStep
<1>5. CASE /\ Refusal(r) = "none" /\ Committed(r) # NoReceipt
           /\ Put(r, [run[r] EXCEPT !.pc = "verify", !.found = Committed(r), !.outcome = "none"])
  <2>1. PICK c : c = [old EXCEPT !.pc = "verify", !.found = Committed(r), !.outcome = "none"]
    OBVIOUS
  <2>2. /\ Committed(r) \in Upgrade /\ Committed(r).actor = run[r].actor
        /\ state.schema = Target(r) /\ Committed(r) = Own(run[r], state)
    BY <1>5, Sees DEF Refusal
  <2>3. /\ c \in Run /\ c.pc = "verify" /\ c.found = Committed(r)
        /\ c.operation = old.operation /\ c.source = old.source /\ c.actor = old.actor
        /\ c.applied = old.applied /\ c.attempted = old.attempted
    BY <2>1, <2>2 DEF Run, Labels, Outcomes
  <2>4. /\ Own(c, state) = Own(old, state) /\ Mine(c, backups) = Mine(old, backups)
        /\ Sealed(c, backups) = Sealed(old, backups)
        /\ SealedFor(c, backups) = SealedFor(old, backups)
    BY <2>3 DEF Own, Mine, Sealed, SealedFor
  <2>5. ReceiptFits(c, state, backups)
    BY <1>1, <1>2, <1>5, <2>2, <2>3, <2>4, Sees DEF Fits, ReceiptFits, Settled
  <2>6. CopyFits(c, backups, lived) /\ CallFits(c) /\ StateFits(c, state)
        /\ AnswerFits(c, state, backups)
    BY <1>1, <1>2, <2>3, <2>4
    DEF Fits, CopyFits, CallFits, StateFits, AnswerFits, Making, Holding, Settled
  <2> QED
    BY <1>1, <1>2, <1>5, <2>1, <2>3, <2>5, <2>6, SpentTyped, PrivateStep DEF Fits, Making
<1>6. CASE /\ Committed(r) = NoReceipt /\ state.schema = Target(r)
           /\ \/ Finish(r, "MIGRATION_BACKUP_CLEANUP_FAILED")
              \/ Finish(r, "already_current")
  <2>1. state.schema > run[r].source /\ Own(run[r], state) = NoReceipt
    BY <1>6, Sees
  <2>2. ~run[r].applied  BY <2>1, FindsItsOwn
  <2>3. \A answer \in {"MIGRATION_BACKUP_CLEANUP_FAILED", "already_current"} :
          answer \in Outcomes /\ AnswerIsTrue(run[r], answer)
    BY <1>1, <1>2, <2>1, <2>2 DEF AnswerIsTrue, Outcomes, Codes, Successes
  <2> QED  BY <1>6, <2>3, FinishStep
<1>7. CASE /\ Refusal(r) = "none" /\ state.schema # Target(r) /\ Finish(r, run[r].error)
  <2>1. state.schema = run[r].source
    BY <1>7, Sees DEF Refusal
  <2>2. ~run[r].applied  BY <2>1, FindsItsOwn, Sees
  <2>3. AnswerIsTrue(run[r], run[r].error)
    BY <1>1, <1>2, <2>2, ErrorsAreNoAnswers DEF AnswerIsTrue, Successes
  <2> QED  BY <1>1, <1>2, <1>7, <2>3, ErrorsAreNoAnswers, FinishStep
<1> QED  BY <1>3, <1>4, <1>5, <1>6, <1>7 DEF Answered

LEMMA HandleInv ==
    ASSUME Inv, NEW r \in Runs, Handle(r)
    PROVE  Inv'
<1>0. /\ UNCHANGED <<state, backups, lived, spent>> /\ run[r].pc = "handle" /\ Receipted(r)
  BY DEF Handle
<1>1. PICK old \in Run : old = run[r]  BY Sees
<1>2. Fits(old, state, backups, lived) /\ old.error \in Codes /\ old.source >= 2
  BY <1>0, <1>1, Sees DEF Run
<1>3. CASE /\ ~run[r].attempted \/ run[r].error \in {"PROJECT_FORBIDDEN", "OPERATION_CONFLICT"}
           /\ Finish(r, run[r].error)
  <2>1. old.error = "PROJECT_FORBIDDEN" \/ ~old.applied
    BY <1>0, <1>1, <1>2, <1>3 DEF Fits, CallFits
  <2>2. AnswerIsTrue(run[r], run[r].error)
    BY <1>1, <1>2, <2>1, ErrorsAreNoAnswers DEF AnswerIsTrue, Successes, OpenOutcomes
  <2> QED  BY <1>0, <1>1, <1>2, <1>3, <2>2, ErrorsAreNoAnswers, FinishStep
<1>4. CASE run[r].attempted /\ Answered(r)
  BY <1>0, <1>4, AnsweredInv
<1> QED  BY <1>3, <1>4 DEF Handle

LEMMA HandlePlainInv ==
    ASSUME Inv, NEW r \in Runs, HandlePlain(r)
    PROVE  Inv'
<1>0. /\ UNCHANGED <<state, backups, lived, spent>> /\ run[r].pc = "handle" /\ ~Receipted(r)
  BY DEF HandlePlain
<1>1. PICK old \in Run : old = run[r]  BY Sees
<1>2. Fits(old, state, backups, lived) /\ TypeOK /\ old.error \in Codes /\ old.source = 1
  BY <1>0, <1>1, Sees DEF Inv, Run
<1>3. CASE Finish(r, run[r].error)
  <2>1. AnswerIsTrue(run[r], run[r].error)
    BY <1>1, <1>2, ErrorsAreNoAnswers DEF AnswerIsTrue, Successes
  <2> QED  BY <1>0, <1>1, <1>2, <1>3, <2>1, ErrorsAreNoAnswers, FinishStep
<1>4. CASE \/ Finish(r, "MIGRATION_OUTCOME_UNKNOWN") \/ Finish(r, "MIGRATION_BACKUP_CLEANUP_FAILED")
           \/ Finish(r, "SCHEMA_CONFIRMED_BACKUP_INVALID")
  <2>1. \A answer \in {"MIGRATION_OUTCOME_UNKNOWN", "MIGRATION_BACKUP_CLEANUP_FAILED",
                       "SCHEMA_CONFIRMED_BACKUP_INVALID"} :
          answer \in Outcomes /\ AnswerIsTrue(run[r], answer)
    BY <1>1, <1>2 DEF AnswerIsTrue, Outcomes, Codes, Successes
  <2> QED  BY <1>0, <1>4, <2>1, FinishStep
<1>5. CASE /\ run[r].attempted /\ state.schema = 2
           /\ Put(r, [run[r] EXCEPT !.pc = "release", !.outcome = "reconciled"])
  <2>1. PICK c : c = [old EXCEPT !.pc = "release", !.outcome = "reconciled"]  OBVIOUS
  <2>2. /\ c \in Run /\ c.pc = "release" /\ c.outcome = "reconciled"
        /\ c.operation = old.operation /\ c.source = 1
        /\ c.applied = old.applied /\ c.attempted
    BY <1>1, <1>2, <1>5, <2>1 DEF Run, Labels, Outcomes, Successes
  <2>3. SealedFor(c, backups)
    BY <1>1, <1>2, <1>5, <2>2 DEF Fits, CopyFits, SealedFor, Sealed
  <2>4. Fits(c, state, backups, lived)
    BY <1>5, <2>2, <2>3
    DEF Fits, CopyFits, CallFits, StateFits, ReceiptFits, AnswerFits, Making, Holding, Settled
  <2> QED
    BY <1>0, <1>1, <1>2, <1>5, <2>1, <2>2, <2>4, SpentTyped, PrivateStep DEF Making
<1> QED  BY <1>3, <1>4, <1>5 DEF HandlePlain

LEMMA VerifyInv ==
    ASSUME Inv, NEW r \in Runs, Verify(r)
    PROVE  Inv'
<1>0. UNCHANGED <<state, backups, lived, spent>> /\ run[r].pc = "verify"  BY DEF Verify
<1>1. PICK old \in Run : old = run[r]  BY Sees
<1>2. Fits(old, state, backups, lived) /\ old.source >= 2
  BY <1>0, <1>1, Sees DEF Fits, StateFits
<1>3. /\ state.schema > old.source /\ Own(old, state) # NoReceipt
  BY <1>0, <1>1, <1>2 DEF Fits, ReceiptFits
<1>4. CASE Finish(r, "MIGRATION_COMMITTED_BACKUP_INVALID")
  <2>1. AnswerIsTrue(run[r], "MIGRATION_COMMITTED_BACKUP_INVALID")
    BY <1>1, <1>2, <1>3 DEF AnswerIsTrue, OpenOutcomes
  <2>2. "MIGRATION_COMMITTED_BACKUP_INVALID" \in Outcomes  BY DEF Outcomes
  <2> QED  BY <1>0, <1>4, <2>1, <2>2, FinishStep
<1>5. CASE Directory(r).receipt = run[r].found.backup /\ Goto(r, "reverify")
  <2>1. PICK c : c = Moved(old, "reverify")  OBVIOUS
  <2>2. "reverify" \in Labels \ Making  BY DEF Labels, Making
  <2>3. /\ c.pc = "reverify" /\ c.applied = old.applied /\ c.attempted = old.attempted
        /\ c.operation = old.operation /\ c.source = old.source /\ c.actor = old.actor
        /\ c.found = old.found
    BY <2>1, <2>2, GotoRecord
  <2>4. /\ Own(c, state) = Own(old, state) /\ Mine(c, backups) = Mine(old, backups)
        /\ Sealed(c, backups) = Sealed(old, backups)
        /\ SealedFor(c, backups) = SealedFor(old, backups)
        /\ c.found.backup = backups[c.operation].receipt
    BY <1>1, <1>5, <2>3 DEF Own, Mine, Sealed, SealedFor, Directory
  <2>5. Fits(c, state, backups, lived)
    BY <1>0, <1>1, <1>2, <2>3, <2>4
    DEF Fits, CopyFits, CallFits, StateFits, ReceiptFits, AnswerFits, Making, Holding, Settled
  <2> QED  BY <1>0, <1>1, <1>5, <2>1, <2>2, <2>5, GotoStep
<1> QED  BY <1>4, <1>5 DEF Verify

LEMMA ReverifyInv ==
    ASSUME Inv, NEW r \in Runs, Reverify(r)
    PROVE  Inv'
<1>0. UNCHANGED <<state, backups, lived, spent>> /\ run[r].pc = "reverify"  BY DEF Reverify
<1>1. PICK old \in Run : old = run[r]  BY Sees
<1>2. Fits(old, state, backups, lived) /\ old.source >= 2
  BY <1>0, <1>1, Sees DEF Fits, StateFits
<1>3. /\ state.schema > old.source /\ old.found # NoReceipt /\ Own(old, state) = old.found
      /\ old.found.actor = old.actor /\ old.found.backup = backups[old.operation].receipt
  BY <1>0, <1>1, <1>2 DEF Fits, ReceiptFits
<1>4. old.found \in Upgrade /\ old.found.backup # NoReceipt  BY <1>3, FoundTyped
<1>5. CASE Finish(r, "PROJECT_FORBIDDEN") \/ Finish(r, "MIGRATION_OUTCOME_UNKNOWN")
           \/ Finish(r, "MIGRATION_COMMITTED_BACKUP_INVALID")
  <2>1. \A answer \in {"PROJECT_FORBIDDEN", "MIGRATION_OUTCOME_UNKNOWN",
                       "MIGRATION_COMMITTED_BACKUP_INVALID"} :
          answer \in Outcomes /\ AnswerIsTrue(run[r], answer)
    BY <1>1, <1>2, <1>3 DEF AnswerIsTrue, OpenOutcomes, Outcomes, Codes
  <2> QED  BY <1>0, <1>5, <2>1, FinishStep
<1>6. CASE Finish(r, "reconciled")
  <2>1. Own(old, state) = Mine(old, backups) /\ Sealed(old, backups)
    BY <1>3, <1>4 DEF Mine, Sealed, Upgrade
  <2>2. AnswerIsTrue(run[r], "reconciled") /\ "reconciled" \in Outcomes
    BY <1>1, <1>2, <1>3, <2>1 DEF AnswerIsTrue, OpenOutcomes, Outcomes, Successes
  <2> QED  BY <1>0, <1>6, <2>2, FinishStep
<1> QED  BY <1>5, <1>6 DEF Reverify

LEMMA FailInv ==
    ASSUME Inv, NEW r \in Runs, Fail(r)
    PROVE  Inv'
BY FailsSafely DEF Fail, Codes

LEMMA FailFinallyInv ==
    ASSUME Inv, NEW r \in Runs, FailFinally(r)
    PROVE  Inv'
<1>0. UNCHANGED <<state, backups, lived>> /\ Fault  BY DEF FailFinally
<1>1. PICK old \in Run : old = run[r]  BY Sees
<1>2. Fits(old, state, backups, lived)  BY <1>1, Sees
<1>3. CASE run[r].pc = "observe" /\ Finish(r, "FAILED")
  <2>1. ~run[r].applied  BY <1>3, NotApplied
  <2>2. AnswerIsTrue(run[r], "FAILED") /\ "FAILED" \in Outcomes
    BY <2>1 DEF AnswerIsTrue, Successes, Outcomes, Codes
  <2> QED  BY <1>0, <1>3, <2>2, FinishStep
<1>4. CASE run[r].pc = "verify" /\ Finish(r, "MIGRATION_COMMITTED_BACKUP_INVALID")
  <2>1. old.source >= 2  BY <1>1, <1>2, <1>4 DEF Fits, StateFits
  <2>2. state.schema > old.source /\ Own(old, state) # NoReceipt
    BY <1>1, <1>2, <1>4, <2>1 DEF Fits, ReceiptFits
  <2>3. AnswerIsTrue(run[r], "MIGRATION_COMMITTED_BACKUP_INVALID")
    BY <1>1, <2>1, <2>2 DEF AnswerIsTrue, OpenOutcomes
  <2>4. "MIGRATION_COMMITTED_BACKUP_INVALID" \in Outcomes  BY DEF Outcomes
  <2> QED  BY <1>0, <1>4, <2>3, <2>4, FinishStep
<1>5. CASE Finish(r, "MIGRATION_OUTCOME_UNKNOWN")
  <2>1. AnswerIsTrue(run[r], "MIGRATION_OUTCOME_UNKNOWN") /\ "MIGRATION_OUTCOME_UNKNOWN" \in Outcomes
    BY DEF AnswerIsTrue, OpenOutcomes, Successes, Outcomes, Codes
  <2> QED  BY <1>0, <1>5, <2>1, FinishStep
<1> QED  BY <1>3, <1>4, <1>5 DEF FailFinally

LEMMA FailClosingInv ==
    ASSUME Inv, NEW r \in Runs, FailClosing(r)
    PROVE  Inv'
<1>0. /\ UNCHANGED <<state, backups, lived>> /\ Fault /\ TypeOK
      /\ run[r].pc \in {"release", "handle", "reverify"}
      /\ Put(r, [run[r] EXCEPT !.cleanup = TRUE])
  BY DEF FailClosing, Inv
<1>1. PICK old \in Run : old = run[r]  BY Sees
<1>2. Fits(old, state, backups, lived)  BY <1>1, Sees
<1>3. PICK c : c = [old EXCEPT !.cleanup = TRUE]  OBVIOUS
<1>4. /\ c \in Run /\ c.pc = old.pc /\ c.applied = old.applied /\ c.attempted = old.attempted
      /\ c.operation = old.operation /\ c.source = old.source /\ c.actor = old.actor
      /\ c.found = old.found /\ c.error = old.error /\ c.outcome = old.outcome
      /\ c.current = old.current /\ c.seen = old.seen
  BY <1>3 DEF Run
<1>5. /\ Own(c, state) = Own(old, state) /\ Mine(c, backups) = Mine(old, backups)
      /\ Sealed(c, backups) = Sealed(old, backups)
      /\ SealedFor(c, backups) = SealedFor(old, backups)
  BY <1>4 DEF Own, Mine, Sealed, SealedFor
<1>6. CopyFits(c, backups, lived) /\ CallFits(c) /\ StateFits(c, state)
  BY <1>2, <1>4, <1>5 DEF Fits, CopyFits, CallFits, StateFits
<1>7. ReceiptFits(c, state, backups) /\ AnswerFits(c, state, backups)
  BY <1>2, <1>4, <1>5 DEF Fits, ReceiptFits, AnswerFits
<1> QED
  BY <1>0, <1>1, <1>3, <1>4, <1>6, <1>7, SpentTyped, PrivateStep DEF Fits, Making

LEMMA CrashInv ==
    ASSUME Inv, NEW r \in Runs, Crash(r)
    PROVE  Inv'
<1>1. AnswerIsTrue(run[r], "none") /\ "none" \in Outcomes
  BY DEF AnswerIsTrue, OpenOutcomes, Successes, Outcomes
<1> QED  BY <1>1, FinishStep DEF Crash
-----------------------------------------------------------------------------
(* Somebody else moves: what no run does.                                  *)
LEMMA OthersStep ==
    ASSUME Inv, UNCHANGED run, Grows, TypeOK', World', state'.schema = state.schema,
           \A c \in lived' : c \in lived \/ c.schema = state.schema,
           \A o \in Operations : /\ backups'[o].receipt = backups[o].receipt
                                 /\ backups'[o].copy = backups[o].copy
    PROVE  Inv'
<1>1. TypeOK /\ state' \in State  BY DEF Inv, TypeOK
<1>2. Alone'  BY DEF Inv, Alone
<1>3. AllFit'
  <2> SUFFICES ASSUME NEW q \in Runs PROVE Fits(run'[q], state', backups', lived')
    BY DEF AllFit
  <2>1. run[q] \in Run /\ Fits(run[q], state, backups, lived) /\ run[q].operation \in Operations
    BY Sees DEF Run
  <2>2. Fits(run[q], state', backups', lived')  BY <1>1, <2>1, FitsGrows
  <2> QED  BY <2>2
<1>4. UpgradesAreBackedUp'  BY <1>1, BackedGrows DEF Inv
<1> QED  BY <1>2, <1>3, <1>4 DEF Inv

LEMMA WriteInv ==
    ASSUME Inv, Write
    PROVE  Inv'
<1>0. /\ UNCHANGED <<backups, run, spent>> /\ state' = [state EXCEPT !.writes = @ + 1]
      /\ lived' = lived \union {[schema |-> state.schema, writes |-> state.writes + 1]}
  BY DEF Write
<1>1. TypeOK /\ state \in State /\ state.writes \in Nat /\ state.schema \in 1..4
  BY DEF Inv, TypeOK, State
<1>2. /\ state' \in State /\ state'.writes = state.writes + 1 /\ state'.schema = state.schema
      /\ state'.receipts = state.receipts
  BY <1>0, <1>1 DEF State
<1>3. [schema |-> state.schema, writes |-> state.writes + 1] \in [schema: 1..4, writes: Nat]
  BY <1>1
<1>4. TypeOK'  BY <1>0, <1>1, <1>2, <1>3 DEF TypeOK, spent
<1>5. Grows  BY <1>0, <1>1, <1>2 DEF Grows
<1>6. World'
  <2>1. [schema |-> state'.schema, writes |-> state'.writes] \in lived'
    BY <1>0, <1>2
  <2>2. \A c \in lived' : c.schema <= state'.schema
    BY <1>0, <1>1, <1>2 DEF Inv, World
  <2> QED  BY <1>0, <1>2, <2>1, <2>2 DEF Inv, World
<1>7. \A c \in lived' : c \in lived \/ c.schema = state.schema  BY <1>0
<1> QED  BY <1>0, <1>2, <1>4, <1>5, <1>6, <1>7, OthersStep

LEMMA RevokeInv ==
    ASSUME Inv, Revoke
    PROVE  Inv'
<1>0. UNCHANGED <<backups, run, lived, spent>>  BY DEF Revoke
<1>1. PICK a \in state.administrators :
        state' = [state EXCEPT !.administrators = @ \ {a}]
  BY DEF Revoke
<1>2. TypeOK /\ state \in State /\ state.schema \in 1..4  BY DEF Inv, TypeOK, State
<1>3. /\ state' \in State /\ state'.writes = state.writes /\ state'.schema = state.schema
      /\ state'.receipts = state.receipts
  BY <1>1, <1>2 DEF State
<1>4. TypeOK'  BY <1>0, <1>2, <1>3 DEF TypeOK, spent
<1>5. Grows  BY <1>0, <1>2, <1>3 DEF Grows
<1>6. World'  BY <1>0, <1>3 DEF Inv, World
<1> QED  BY <1>0, <1>3, <1>4, <1>5, <1>6, OthersStep

LEMMA HandsInv ==
    ASSUME Inv, Damage \/ Litter
    PROVE  Inv'
<1>0. UNCHANGED <<state, run, lived>> /\ Fault  BY DEF Damage, Litter
<1>1. PICK o \in Operations :
        \/ backups' = [backups EXCEPT ![o] = [@ EXCEPT !.intact = FALSE]]
        \/ backups' = [backups EXCEPT ![o] = [@ EXCEPT !.clean = FALSE]]
  BY DEF Damage, Litter
<1>2. TypeOK /\ state.schema \in 1..4  BY DEF Inv, TypeOK, State
<1>3. backups \in [Operations -> Backup] /\ backups[o] \in Backup  BY <1>2 DEF TypeOK
<1>4. backups' \in [Operations -> Backup]
  <2>1. /\ [backups[o] EXCEPT !.intact = FALSE] \in Backup
        /\ [backups[o] EXCEPT !.clean = FALSE] \in Backup
    BY <1>3 DEF Backup
  <2> QED  BY <1>1, <1>3, <2>1
<1>5. \A p \in Operations : /\ backups'[p].receipt = backups[p].receipt
                            /\ backups'[p].copy = backups[p].copy
                            /\ backups'[p].made = backups[p].made
  BY <1>1, <1>3 DEF Backup
<1>6. TypeOK'  BY <1>0, <1>2, <1>4, SpentTyped DEF TypeOK
<1>7. Grows  BY <1>0, <1>2, <1>5 DEF Grows
<1>8. World'  BY <1>0, <1>5 DEF Inv, World
<1> QED  BY <1>0, <1>5, <1>6, <1>7, <1>8, OthersStep
-----------------------------------------------------------------------------
(* The migration: one commit changes the schema and leaves the receipt.    *)

LEMMA MigratedState ==
    ASSUME Inv, NEW r \in Runs, run[r].pc = "migrate", state.schema = run[r].source,
           state' = Migrated(r)
    PROVE  /\ state' \in State /\ state'.schema = run[r].source + 1
           /\ state'.writes = state.writes
           /\ \A t \in 3..4, o \in Operations :
                state'.receipts[t][o] =
                  IF t = run[r].source + 1 /\ o = run[r].operation
                  THEN Mine(run[r], backups) ELSE state.receipts[t][o]
           /\ \A t \in 3..4 : t # run[r].source + 1 => state'.receipts[t] = state.receipts[t]
           /\ Mine(run[r], backups) \in Upgrade
<1>1. /\ state \in State /\ run[r] \in Run /\ backups \in [Operations -> Backup]
      /\ run[r].operation \in Operations /\ run[r].actor \in Actors
      /\ run[r].source \in 1..3
  BY DEF Inv, TypeOK, Run
<1>2. backups[run[r].operation].receipt \in Binding
  BY <1>1, Sees DEF Fits, CopyFits, Holding, SealedFor, Sealed, Backup
<1>3. Mine(run[r], backups) \in Upgrade  BY <1>1, <1>2 DEF Mine, Upgrade
<1>4. CASE ~Receipted(r)
  <2>1. state' = [state EXCEPT !.schema = run[r].source + 1]
    BY <1>4 DEF Migrated, Target
  <2>2. run[r].source = 1  BY <1>1, <1>4 DEF Receipted
  <2> QED  BY <1>1, <1>3, <2>1, <2>2 DEF State
<1>5. CASE Receipted(r)
  <2>1. PICK t \in 3..4 : t = run[r].source + 1  BY <1>1, <1>5 DEF Receipted
  <2>2. PICK mine \in Upgrade : mine = Mine(run[r], backups)  BY <1>3
  <2>3. PICK left : left = [state.receipts[t] EXCEPT ![run[r].operation] = mine]  OBVIOUS
  <2>4. /\ state.receipts \in [3..4 -> [Operations -> Upgrade \union {NoReceipt}]]
        /\ state.receipts[t] \in [Operations -> Upgrade \union {NoReceipt}]
    BY <1>1 DEF State
  <2>5. /\ left \in [Operations -> Upgrade \union {NoReceipt}]
        /\ \A o \in Operations :
             left[o] = IF o = run[r].operation THEN mine ELSE state.receipts[t][o]
    BY <1>1, <2>3, <2>4
  <2>6. PICK all : all = [state.receipts EXCEPT ![t] = left]  OBVIOUS
  <2>7. /\ all \in [3..4 -> [Operations -> Upgrade \union {NoReceipt}]]
        /\ all[t] = left /\ \A u \in 3..4 : u # t => all[u] = state.receipts[u]
    BY <2>4, <2>5, <2>6
  <2>8. state' = [state EXCEPT !.schema = t, !.receipts = all]
    <3>1. state' = [state EXCEPT !.schema = t, !.receipts[t][run[r].operation] = mine]
      BY <1>5, <2>1, <2>2 DEF Migrated, Target, Mine, Directory
    <3>2. PICK next : next = [state.receipts EXCEPT ![t][run[r].operation] = mine]
      OBVIOUS
    <3>3. state' = [state EXCEPT !.schema = t, !.receipts = next]
      BY <3>1, <3>2
    <3>4. all = next  BY <2>3, <2>6, <3>2
    <3> QED  BY <3>3, <3>4
  <2>9. /\ state' \in State /\ state'.schema = t /\ state'.writes = state.writes
        /\ state'.receipts = all
    <3> DEFINE Receipts == [3..4 -> [Operations -> Upgrade \union {NoReceipt}]]
    <3>1. /\ state \in [schema: 1..4, writes: Nat, administrators: SUBSET Actors, receipts: Receipts]
          /\ State = [schema: 1..4, writes: Nat, administrators: SUBSET Actors, receipts: Receipts]
          /\ all \in Receipts /\ t \in 1..4
      BY <1>1, <2>7 DEF State
    <3> HIDE DEF Receipts
    <3> QED  BY <2>8, <3>1
  <2>10. \A u \in 3..4, o \in Operations :
           state'.receipts[u][o] = IF u = t /\ o = run[r].operation
                                   THEN mine ELSE state.receipts[u][o]
    BY <2>5, <2>7, <2>9
  <2> QED  BY <1>3, <2>1, <2>2, <2>7, <2>9, <2>10
<1> QED  BY <1>4, <1>5

LEMMA MigratedGrows ==
    ASSUME Inv, NEW r \in Runs, run[r].pc = "migrate", state.schema = run[r].source,
           state' = Migrated(r), UNCHANGED backups,
           lived' = lived \union {[schema |-> Target(r), writes |-> state.writes]}
    PROVE  Grows /\ World' /\ lived' \in SUBSET [schema: 1..4, writes: Nat]
<1>1. /\ state'.schema = state.schema + 1 /\ state'.writes = state.writes
      /\ \A t \in 3..4 : t # state.schema + 1 => state'.receipts[t] = state.receipts[t]
  BY MigratedState
<1>2. /\ state.schema \in 1..3 /\ Target(r) = state.schema + 1 /\ state.writes \in Nat
      /\ lived \in SUBSET [schema: 1..4, writes: Nat]
  BY Sees DEF Inv, TypeOK, State
<1>3. Grows  BY <1>1, <1>2 DEF Grows
<1>4. World'
  <2>1. [schema |-> state'.schema, writes |-> state'.writes] \in lived'
    BY <1>1, <1>2
  <2>2. \A c \in lived' : c.schema <= state'.schema
    BY <1>1, <1>2 DEF Inv, World
  <2>3. \A t \in 3..4, o \in Operations :
          state'.schema < t => state'.receipts[t][o] = NoReceipt
    BY <1>1, <1>2 DEF Inv, World
  <2> QED  BY <2>1, <2>2, <2>3 DEF Inv, World
<1>5. [schema |-> Target(r), writes |-> state.writes] \in [schema: 1..4, writes: Nat]
  BY <1>2
<1> QED  BY <1>2, <1>3, <1>4, <1>5

\* What the state leaves is what the run's backup is of, and only its operation says so.
LEMMA MigratedIsBackedUp ==
    ASSUME Inv, NEW r \in Runs, run[r].pc = "migrate", state.schema = run[r].source,
           state' = Migrated(r), UNCHANGED backups,
           lived' = lived \union {[schema |-> Target(r), writes |-> state.writes]}
    PROVE  UpgradesAreBackedUp'
<1> DEFINE mine == Mine(run[r], backups)
           op == run[r].operation
<1>1. /\ state'.schema = state.schema + 1 /\ mine \in Upgrade
      /\ \A t \in 3..4, o \in Operations :
           state'.receipts[t][o] = IF t = state.schema + 1 /\ o = op
                                   THEN mine ELSE state.receipts[t][o]
  BY MigratedState
<1>2. state.schema \in 1..3 /\ Target(r) = state.schema + 1 /\ op \in Operations
  BY Sees DEF Run
<1>3. /\ backups[op].receipt # NoReceipt /\ backups[op].receipt.copy.schema = state.schema
  BY Sees DEF Fits, CopyFits, Holding, SealedFor, Sealed
<1>4. backups[op].copy = backups[op].receipt.copy /\ backups[op].copy \in lived
  BY <1>2, <1>3 DEF Inv, World
<1> SUFFICES ASSUME NEW s \in 1..3, s < state'.schema, NEW c \in lived', c.schema = s
             PROVE  \E o \in Operations :
                      LET d == backups'[o]
                      IN /\ d.receipt # NoReceipt /\ d.copy = d.receipt.copy
                         /\ d.copy.schema = s /\ d.copy \in lived'
                         /\ s >= 2 =>
                              /\ state'.receipts[s + 1][o] # NoReceipt
                              /\ state'.receipts[s + 1][o].backup = d.receipt
                              /\ \A p \in Operations \ {o} :
                                   state'.receipts[s + 1][p] = NoReceipt
  BY DEF UpgradesAreBackedUp
<1>5. c \in lived /\ s <= state.schema
  BY <1>1, <1>2
<1>6. CASE s = state.schema
  <2>1. s >= 2 => /\ s + 1 \in 3..4
                  /\ state'.receipts[s + 1][op] = mine /\ mine # NoReceipt
                  /\ mine.backup = backups[op].receipt
                  /\ \A p \in Operations \ {op} : state'.receipts[s + 1][p] = NoReceipt
    <3> SUFFICES ASSUME s >= 2
                 PROVE  /\ s + 1 \in 3..4
                        /\ state'.receipts[s + 1][op] = mine /\ mine # NoReceipt
                        /\ mine.backup = backups[op].receipt
                        /\ \A p \in Operations \ {op} : state'.receipts[s + 1][p] = NoReceipt
      OBVIOUS
    <3>1. s + 1 \in 3..4  OBVIOUS
    <3>2. \A p \in Operations : state.receipts[s + 1][p] = NoReceipt
      BY <1>2, <1>6, <3>1 DEF Inv, World
    <3>3. mine.backup = backups[op].receipt  BY DEF Mine
    <3> QED  BY <1>1, <1>2, <1>6, <3>1, <3>2, <3>3, UpgradeAssumption
  <2> QED  BY <1>2, <1>3, <1>4, <1>6, <2>1
<1>7. CASE s < state.schema
  <2>1. PICK o \in Operations :
          LET d == backups[o]
          IN /\ d.receipt # NoReceipt /\ d.copy = d.receipt.copy
             /\ d.copy.schema = s /\ d.copy \in lived
             /\ s >= 2 =>
                  /\ state.receipts[s + 1][o] # NoReceipt
                  /\ state.receipts[s + 1][o].backup = d.receipt
                  /\ \A p \in Operations \ {o} : state.receipts[s + 1][p] = NoReceipt
    BY <1>5, <1>7 DEF Inv, UpgradesAreBackedUp
  <2>2. s >= 2 => \A p \in Operations : state'.receipts[s + 1][p] = state.receipts[s + 1][p]
    BY <1>1, <1>2, <1>7
  <2> QED  BY <2>1, <2>2
<1> QED  BY <1>2, <1>5, <1>6, <1>7

LEMMA MigrateInv ==
    ASSUME Inv, NEW r \in Runs, Migrate(r)
    PROVE  Inv'
<1>0. /\ run[r].pc = "migrate" /\ state.schema = run[r].source /\ state' = Migrated(r)
      /\ lived' = lived \union {[schema |-> Target(r), writes |-> state.writes]}
      /\ UNCHANGED backups /\ TypeOK
  BY DEF Migrate, Inv
<1>1. PICK old \in Run : old = run[r]  BY Sees
<1>2. /\ Fits(old, state, backups, lived) /\ old.source \in 1..3 /\ old.operation \in Operations
      /\ SealedFor(old, backups) /\ old.attempted
  BY <1>0, <1>1, Sees DEF Fits, CopyFits, CallFits, Holding, Run
<1>3. /\ state' \in State /\ state'.schema = old.source + 1
      /\ old.source >= 2 => Own(old, state') = Mine(old, backups)
      /\ Mine(old, backups) \in Upgrade
  <2>1. old.source >= 2 => old.source + 1 \in 3..4  BY <1>2
  <2> QED  BY <1>0, <1>1, <1>2, <2>1, MigratedState DEF Own
<1>4. Grows /\ World' /\ lived' \in SUBSET [schema: 1..4, writes: Nat]
  BY <1>0, MigratedGrows
<1>5. PICK c \in Run :
        /\ Put(r, c) /\ calls' \in Nat /\ faults' \in Nat
        /\ c.operation = old.operation /\ c.source = old.source /\ c.actor = old.actor
        /\ c.attempted = old.attempted /\ c.applied
        /\ \/ /\ c.pc = "recheck"
              /\ c.found = IF old.source >= 2 THEN Mine(old, backups) ELSE NoReceipt
           \/ c.pc = "handle" /\ c.error = "FAILED"
  <2>1. CASE Fault /\ Put(r, [run[r] EXCEPT !.pc = "handle", !.applied = TRUE, !.error = "FAILED"])
    <3>1. PICK c : c = [old EXCEPT !.pc = "handle", !.applied = TRUE, !.error = "FAILED"]
      OBVIOUS
    <3>2. /\ c \in Run /\ c.pc = "handle" /\ c.error = "FAILED" /\ c.applied
          /\ c.operation = old.operation /\ c.source = old.source /\ c.actor = old.actor
          /\ c.attempted = old.attempted
      BY <3>1 DEF Run, Labels, Codes
    <3>3. Put(r, c)  BY <1>1, <2>1, <3>1
    <3> QED  BY <1>0, <2>1, <3>2, <3>3, SpentTyped
  <2>2. CASE /\ UNCHANGED spent
             /\ Put(r, [run[r] EXCEPT !.pc = "recheck", !.returned = TRUE, !.applied = TRUE,
                          !.found = IF Receipted(r)
                                    THEN state'.receipts[Target(r)][run[r].operation]
                                    ELSE NoReceipt])
    <3>1. PICK found : found = IF Receipted(r)
                               THEN state'.receipts[Target(r)][run[r].operation]
                               ELSE NoReceipt
      OBVIOUS
    <3>2. found = IF old.source >= 2 THEN Mine(old, backups) ELSE NoReceipt
      BY <1>1, <1>3, <3>1, Sees DEF Own
    <3>3. PICK c : c = [old EXCEPT !.pc = "recheck", !.returned = TRUE, !.applied = TRUE,
                          !.found = found]
      OBVIOUS
    <3>4. found \in Upgrade \union {NoReceipt}  BY <1>3, <3>2
    <3>5. /\ c \in Run /\ c.pc = "recheck" /\ c.found = found /\ c.applied
          /\ c.operation = old.operation /\ c.source = old.source /\ c.actor = old.actor
          /\ c.attempted = old.attempted
      BY <3>3, <3>4 DEF Run, Labels
    <3>6. Put(r, c)  BY <1>1, <2>2, <3>1, <3>3
    <3> QED  BY <1>0, <2>2, <3>2, <3>5, <3>6, SpentTyped
  <2> QED  BY <2>1, <2>2 DEF Migrate
<1>6. /\ run' \in [Runs -> Run] /\ run'[r] = c
      /\ \A q \in Runs : q # r => run'[q] = run[q]
  BY <1>0, <1>5, OneRun
<1>7. TypeOK'  BY <1>0, <1>3, <1>4, <1>5, <1>6 DEF TypeOK
<1>8. Alone'  BY <1>5, <1>6 DEF Inv, Alone, Making
<1>9. Fits(c, state', backups', lived')
  <2>1. /\ Own(c, state') = Own(old, state') /\ Mine(c, backups') = Mine(old, backups)
        /\ Sealed(c, backups') = Sealed(old, backups)
        /\ SealedFor(c, backups') = SealedFor(old, backups)
    BY <1>0, <1>5 DEF Own, Mine, Sealed, SealedFor
  <2>2. CopyFits(c, backups', lived') /\ CallFits(c) /\ StateFits(c, state')
    BY <1>2, <1>5, <2>1 DEF CopyFits, CallFits, StateFits, Making, Settled
  <2>3. Sealed(old, backups)  BY <1>2 DEF SealedFor
  <2>4. ReceiptFits(c, state', backups')
    BY <1>2, <1>3, <1>5, <2>1, <2>3 DEF ReceiptFits, Settled
  <2>5. AnswerFits(c, state', backups')  BY <1>5 DEF AnswerFits
  <2> QED  BY <2>2, <2>4, <2>5 DEF Fits
<1>10. AllFit'
  <2> SUFFICES ASSUME NEW q \in Runs PROVE Fits(run'[q], state', backups', lived')
    BY DEF AllFit
  <2>1. CASE q = r
    BY <1>6, <1>9, <2>1
  <2>2. CASE q # r
    BY <1>0, <1>3, <1>4, <1>6, <2>2, Sees, FitsGrows
  <2> QED  BY <2>1, <2>2
<1>11. UpgradesAreBackedUp'  BY <1>0, MigratedIsBackedUp
<1> QED  BY <1>4, <1>7, <1>8, <1>10, <1>11 DEF Inv
-----------------------------------------------------------------------------
LEMMA InitInv ==
    ASSUME Init
    PROVE  Inv
<1>1. /\ state \in [schema: Origins, writes: {0}, administrators: {Actors},
                    receipts: {[s \in 3..4 |-> [o \in Operations |-> NoReceipt]]}]
      /\ backups = [o \in Operations |-> NoBackup]
      /\ lived = {[schema |-> state.schema, writes |-> 0]}
      /\ calls = 0 /\ faults = 0
  BY DEF Init
<1>2. PICK o \in Operations, a \in Actors :
        run = [r \in Runs |-> [Called(o, 1, a) EXCEPT !.pc = "idle"]]
  BY DEF Init
<1>3. PICK called \in Run : called = Called(o, 1, a)  BY CalledTyped
<1>4. PICK c : c = [called EXCEPT !.pc = "idle"]  OBVIOUS
<1>5. /\ c \in Run /\ c.pc = "idle" /\ c.source = 1 /\ ~c.attempted /\ ~c.applied
      /\ c.outcome = "none"
  BY <1>3, <1>4 DEF Called, Run, Labels
<1>6. /\ state.schema \in 1..4 /\ state.writes = 0
      /\ state.receipts = [s \in 3..4 |-> [p \in Operations |-> NoReceipt]]
      /\ state \in State
  <2>1. [s \in 3..4 |-> [p \in Operations |-> NoReceipt]]
          \in [3..4 -> [Operations -> Upgrade \union {NoReceipt}]]
    OBVIOUS
  <2>2. state.schema \in 1..4 /\ state.writes = 0 /\ state.administrators = Actors
    BY <1>1, OriginAssumption
  <2>3. state.receipts = [s \in 3..4 |-> [p \in Operations |-> NoReceipt]]  BY <1>1
  <2>4. state = [schema |-> state.schema, writes |-> state.writes,
                 administrators |-> state.administrators, receipts |-> state.receipts]
    BY <1>1
  <2> QED  BY <2>1, <2>2, <2>3, <2>4 DEF State
<1>7. TypeOK
  <2>1. NoBackup \in Backup  BY DEF NoBackup, Backup
  <2>2. run \in [Runs -> Run]  BY <1>2, <1>3, <1>4, <1>5
  <2>3. [schema |-> state.schema, writes |-> 0] \in [schema: 1..4, writes: Nat]  BY <1>6
  <2> QED  BY <1>1, <1>6, <2>1, <2>2, <2>3 DEF TypeOK
<1>8. World  BY <1>1, <1>6 DEF World, NoBackup
<1>9. \A r \in Runs : run[r] = c  BY <1>2, <1>3, <1>4
<1>10. Alone  BY <1>5, <1>9 DEF Alone, Making
<1>11. Fits(c, state, backups, lived)
  BY <1>5
  DEF Fits, CopyFits, CallFits, StateFits, ReceiptFits, AnswerFits, Making, Holding, Settled,
      Successes
<1>12. AllFit  BY <1>9, <1>11 DEF AllFit
<1>13. UpgradesAreBackedUp  BY <1>1, <1>6 DEF UpgradesAreBackedUp
<1> QED  BY <1>7, <1>8, <1>10, <1>12, <1>13 DEF Inv

LEMMA NextInv ==
    ASSUME Inv, [Next]_vars
    PROVE  Inv'
<1>1. CASE UNCHANGED vars
  BY <1>1 DEF vars, Inv, TypeOK, World, Alone, AllFit, UpgradesAreBackedUp
<1>2. CASE \E r \in Runs :
             Call(r) \/ Step(r) \/ Fail(r) \/ FailFinally(r) \/ FailClosing(r) \/ Crash(r)
  <2>1. PICK r \in Runs :
          Call(r) \/ Step(r) \/ Fail(r) \/ FailFinally(r) \/ FailClosing(r) \/ Crash(r)
    BY <1>2
  <2>2. CASE Step(r)
    BY <2>2, ObserveInv, LookInv, MakeInv, BeginCopyInv, EndCopyInv, SealInv, HoldInv, CheckInv,
       MeetInv, MigrateInv, RecheckInv, ConfirmInv, ReleaseInv, HandleInv, HandlePlainInv,
       VerifyInv, ReverifyInv DEF Step
  <2>3. CASE Call(r) \/ Fail(r) \/ FailFinally(r) \/ FailClosing(r) \/ Crash(r)
    BY <2>3, CallInv, FailInv, FailFinallyInv, FailClosingInv, CrashInv
  <2> QED  BY <2>1, <2>2, <2>3
<1>3. CASE Write \/ Revoke \/ Damage \/ Litter
  BY <1>3, WriteInv, RevokeInv, HandsInv
<1> QED  BY <1>1, <1>2, <1>3 DEF Next

LEMMA AlwaysInv == Spec => []Inv
BY InitInv, NextInv, PTL DEF Spec

\* Every value keeps its type, whatever runs meet, fail, die or are repeated.
THEOREM TypeCorrect == Spec => []TypeOK
<1>1. Inv => TypeOK  BY DEF Inv
<1> QED  BY <1>1, AlwaysInv, PTL

\* A sealed backup remains of a state of every schema that the state has left;
\* for steps with receipts exactly one operation's receipt names it
\* (migrate_state, _ensure_backup, migrate_project_state).
THEOREM UpgradesHaveBackups == Spec => []UpgradesAreBackedUp
<1>1. Inv => UpgradesAreBackedUp  BY DEF Inv
<1> QED  BY <1>1, AlwaysInv, PTL

LEMMA AnswersFit ==
    ASSUME Inv
    PROVE  AnswersAreTrue
<1> SUFFICES ASSUME NEW r \in Runs, run[r].pc = "idle"
             PROVE  IF Receipted(r) THEN TrueWithReceipt(r) ELSE TrueWithoutReceipt(r)
  BY DEF AnswersAreTrue
<1>1. /\ AnswerFits(run[r], state, backups) /\ run[r].source \in 1..3 /\ state.schema \in 1..4
      /\ Receipted(r) <=> run[r].source >= 2
      /\ Target(r) = run[r].source + 1 /\ Directory(r) = backups[run[r].operation]
  BY Sees DEF Fits
<1>2. OwnReceipt(r) = Own(run[r], state)  BY DEF OwnReceipt, Own, Target
<1>3. Mine(run[r], backups) = [actor |-> run[r].actor, backup |-> Directory(r).receipt]
  BY <1>1 DEF Mine
<1>4. CASE Receipted(r)
  BY <1>1, <1>2, <1>3, <1>4 DEF AnswerFits, TrueWithReceipt
<1>5. CASE ~Receipted(r)
  <2>1. run[r].source = 1 /\ ~(run[r].source >= 2)  BY <1>1, <1>5
  <2> QED
    BY <1>1, <1>5, <2>1 DEF AnswerFits, TrueWithoutReceipt, SealedFor, Sealed
<1> QED  BY <1>4, <1>5

\* The answers are true: success names the caller's own receipt and its backup,
\* and no error that closes the matter hides a commit of its run
\* (upgrade_receipted_state, _verified_committed, migrate_project_state).
THEOREM AnswersAreRight == Spec => []AnswersAreTrue
BY AlwaysInv, AnswersFit, PTL

LEMMA StepGrows ==
    ASSUME Inv, [Next]_vars
    PROVE  Grows
<1>0. TypeOK /\ state.schema \in 1..4  BY DEF Inv, TypeOK, State
<1>1. CASE UNCHANGED <<state, backups, lived>>
  BY <1>0, <1>1 DEF Grows
<1>2. ASSUME NEW r \in Runs, Make(r) \/ EndCopy(r) \/ Seal(r)
      PROVE  Grows
  <2>1. UNCHANGED <<state, lived>>  BY <1>2 DEF Make, EndCopy, Seal
  <2>2. run[r].operation \in Operations /\ Directory(r) = backups[run[r].operation]
    BY Sees DEF Run
  <2>3. CASE UNCHANGED backups
    BY <1>1, <2>1, <2>3
  <2>4. CASE Make(r) /\ ~Directory(r).made /\ Store(r, [Directory(r) EXCEPT !.made = TRUE])
    <3>1. Directory(r).receipt = NoReceipt  BY <2>2, <2>4 DEF Inv, World
    <3>2. \A o \in Operations : o # run[r].operation => backups'[o] = backups[o]
      BY <1>0, <2>2, <2>4 DEF Store, TypeOK
    <3>3. \A o \in Operations :
            /\ backups[o].made => backups'[o].made
            /\ backups[o].receipt # NoReceipt =>
                 backups'[o].receipt = backups[o].receipt /\ backups'[o].copy = backups[o].copy
      BY <2>2, <2>4, <3>1, <3>2
    <3> QED  BY <1>0, <2>1, <3>3 DEF Grows
  <2>5. CASE EndCopy(r) \/ Seal(r)
    <3>1. Directory(r).made /\ Directory(r).receipt = NoReceipt
      BY <2>2, <2>5, Sees DEF EndCopy, Seal, Fits, CopyFits, Making, Sealed
    <3>2. PICK d : Store(r, d) /\ d.made = Directory(r).made
      <4>1. Directory(r) \in Backup  BY <1>0, <2>2 DEF TypeOK
      <4> QED  BY <2>5, <4>1 DEF EndCopy, Seal, Backup
    <3>3. /\ backups'[run[r].operation] = d
          /\ \A o \in Operations : o # run[r].operation => backups'[o] = backups[o]
      BY <1>0, <2>2, <3>2 DEF Store, TypeOK
    <3>4. \A o \in Operations :
            /\ backups[o].made => backups'[o].made
            /\ backups[o].receipt # NoReceipt =>
                 backups'[o].receipt = backups[o].receipt /\ backups'[o].copy = backups[o].copy
      BY <2>2, <3>1, <3>2, <3>3
    <3> QED  BY <1>0, <2>1, <3>4 DEF Grows
  <2> QED  BY <1>2, <2>3, <2>4, <2>5 DEF Make
<1>3. ASSUME NEW r \in Runs, Migrate(r) PROVE Grows
  BY <1>3, MigratedGrows DEF Migrate
<1>4. ASSUME NEW r \in Runs,
             Call(r) \/ Step(r) \/ Fail(r) \/ FailFinally(r) \/ FailClosing(r) \/ Crash(r)
      PROVE  \/ UNCHANGED <<state, backups, lived>>
             \/ Make(r) \/ EndCopy(r) \/ Seal(r) \/ Migrate(r)
  BY <1>4 DEF Call, Step, Fail, FailFinally, FailClosing, Crash, Observe, Look, BeginCopy, Hold,
              Check, Meet, Recheck, Confirm, Release, Handle, HandlePlain, Verify, Reverify
<1>5. CASE Write
  <2>1. state'.schema = state.schema /\ state'.receipts = state.receipts
    BY <1>0, <1>5 DEF Write, TypeOK, State
  <2> QED  BY <1>0, <1>5, <2>1 DEF Write, Grows
<1>6. CASE Revoke
  <2>1. state'.schema = state.schema /\ state'.receipts = state.receipts
    BY <1>0, <1>6 DEF Revoke, TypeOK, State
  <2> QED  BY <1>0, <1>6, <2>1 DEF Revoke, Grows
<1>7. CASE Damage \/ Litter
  <2>1. PICK o \in Operations :
          \/ backups' = [backups EXCEPT ![o] = [@ EXCEPT !.intact = FALSE]]
          \/ backups' = [backups EXCEPT ![o] = [@ EXCEPT !.clean = FALSE]]
    BY <1>7 DEF Damage, Litter
  <2>2. \A p \in Operations : /\ backups'[p].receipt = backups[p].receipt
                              /\ backups'[p].copy = backups[p].copy
                              /\ backups'[p].made = backups[p].made
    BY <1>0, <2>1 DEF TypeOK, Backup
  <2> QED  BY <1>0, <1>7, <2>2 DEF Damage, Litter, Grows
<1>8. CASE UNCHANGED vars
  BY <1>1, <1>8 DEF vars
<1> QED  BY <1>1, <1>2, <1>3, <1>4, <1>5, <1>6, <1>7, <1>8 DEF Next

\* Nothing is taken back: the schema never falls, a receipt of a schema reached is
\* final, and no later run of the same operation, however the earlier ones ended,
\* writes over a directory that was made or a backup that was sealed
\* (_create_backup, migrate_state).
THEOREM NothingIsTakenBack == Spec => [][Grows]_vars
<1>1. Inv /\ [Next]_vars => [Grows]_vars  BY StepGrows
<1> QED  BY <1>1, AlwaysInv, PTL DEF Spec
=============================================================================
