--------------------------- MODULE SchemaUpgrade ---------------------------
(***************************************************************************)
(* Upgrades of a project's state (src/rentgen_core/state_migration.py,     *)
(* _schema_upgrade.py, access_migration.py, workflow_migration.py).  A run *)
(* backs the state up into a directory named by its operation id, seals    *)
(* the copy with a receipt, and changes the schema in one transaction.     *)
(* Steps 2 to 3 and 3 to 4 leave a receipt of the operation in the state,  *)
(* bound to the backup; step 1 to 2 leaves none and claims no attribution. *)
(*                                                                         *)
(* Runs of several processes and administrators meet, with the same or     *)
(* with different operation ids.  An action is one transaction of the      *)
(* state or one access to the backup directory.                            *)
(***************************************************************************)
EXTENDS Integers

CONSTANTS
    Runs,        \* processes that run an upgrade
    Operations,  \* operation ids, each with its directory of backups
    Actors,      \* who administers the project at first
    Origins,     \* the schemas the state may be of at first
    NoReceipt,   \* no receipt, or one that is not whole
    NoCopy,      \* no copy of the state, or one that is not whole
    MaxCalls,    \* bounds of the model: runs started, writes of the state by
    MaxWrites,   \* others, and errors, deaths and hands on the backups
    MaxFaults

ASSUME OriginAssumption == Origins \subseteq 1..4
ASSUME BoundAssumption == MaxCalls \in Nat /\ MaxWrites \in Nat /\ MaxFaults \in Nat
ASSUME ActorAssumption == Actors # {}

VARIABLES
    state,    \* schema, what was written, administrators, upgrade receipts
    backups,  \* the directory of each operation
    run,      \* the volatile state of each run
    lived,    \* history: the states there have been, as a copy tells them apart
    calls,    \* runs started and
    faults    \* faults so far

vars == <<state, backups, run, lived, calls, faults>>
spent == <<calls, faults>>

-----------------------------------------------------------------------------
\* What a copy of the state is of; its bytes stand for nothing else here.
Copy == [schema: 1..3, writes: Nat]
\* StateBackupReceipt: the copy's hash and who made it.
Binding == [copy: Copy, actor: Actors]
ASSUME NullAssumption == NoCopy \notin Copy /\ NoReceipt \notin Binding

\* The receipt of an upgrade in the state.
Upgrade == [actor: Actors, backup: Binding]
ASSUME UpgradeAssumption == NoReceipt \notin Upgrade

State == [schema: 1..4, writes: Nat, administrators: SUBSET Actors,
          receipts: [3..4 -> [Operations -> Upgrade \union {NoReceipt}]]]
\* intact: the bytes are what was written; clean: nothing else is in the directory.
Backup == [made: BOOLEAN, copy: Copy \union {NoCopy}, receipt: Binding \union {NoReceipt},
           intact: BOOLEAN, clean: BOOLEAN]

Codes == {"PROJECT_FORBIDDEN", "OPERATION_CONFLICT", "MIGRATION_TARGET_MISMATCH",
          "MIGRATION_STATE_CHANGED", "MIGRATION_BACKUP_INCOMPLETE", "MIGRATION_BACKUP_CORRUPT",
          "MIGRATION_BACKUP_CLEANUP_FAILED", "MIGRATION_OUTCOME_UNKNOWN", "FAILED"}
Successes == {"committed", "reconciled", "version_confirmed", "already_current"}
Outcomes == Codes \union Successes \union
            {"none", "MIGRATION_COMMITTED_BACKUP_INVALID", "SCHEMA_CONFIRMED_BACKUP_INVALID"}
Labels == {"idle", "observe", "look", "make", "copy", "copying", "seal", "hold", "check",
           "migrate", "recheck", "confirm", "release", "handle", "verify", "reverify"}
Run == [pc: Labels, operation: Operations, source: 1..3, actor: Actors,
        existed: BOOLEAN,                           \* the directory, when the run came
        current: BOOLEAN,                           \* the target was there at first
        seen: Nat,                                  \* writes in the copy being made
        attempted: BOOLEAN, returned: BOOLEAN,      \* the migration was called; it returned
        cleanup: BOOLEAN,                           \* closing a handle failed
        found: Upgrade \union {NoReceipt},          \* the receipt in hand
        applied: BOOLEAN,                           \* history: this run changed the schema
        error: Codes, outcome: Outcomes]

NoBackup == [made |-> FALSE, copy |-> NoCopy, receipt |-> NoReceipt, intact |-> TRUE,
             clean |-> TRUE]
Called(o, source, a) ==
    [pc |-> "observe", operation |-> o, source |-> source, actor |-> a, existed |-> FALSE,
     current |-> FALSE, seen |-> 0, attempted |-> FALSE, returned |-> FALSE, cleanup |-> FALSE,
     found |-> NoReceipt, applied |-> FALSE, error |-> "FAILED", outcome |-> "none"]

Init ==
    /\ state \in [schema: Origins, writes: {0}, administrators: {Actors},
                  receipts: {[s \in 3..4 |-> [o \in Operations |-> NoReceipt]]}]
    /\ backups = [o \in Operations |-> NoBackup]
    /\ \E o \in Operations, a \in Actors :
         run = [r \in Runs |-> [Called(o, 1, a) EXCEPT !.pc = "idle"]]
    /\ lived = {[schema |-> state.schema, writes |-> 0]}
    /\ calls = 0 /\ faults = 0

-----------------------------------------------------------------------------
Receipted(r) == run[r].source \in {2, 3}
Target(r) == run[r].source + 1
Directory(r) == backups[run[r].operation]
Administers(r) == run[r].actor \in state.administrators

Put(r, record) == run' = [run EXCEPT ![r] = record]
Goto(r, label) == Put(r, [run[r] EXCEPT !.pc = label])
Finish(r, answer) ==
    Put(r, [Called(run[r].operation, run[r].source, run[r].actor) EXCEPT
              !.pc = "idle", !.applied = run[r].applied, !.outcome = answer])
\* An exception leaves the backup's handles and reaches the handler.
Raise(r, code) == Put(r, [run[r] EXCEPT !.pc = "handle", !.error = code])
Store(r, directory) == backups' = [backups EXCEPT ![run[r].operation] = directory]
Fault == faults < MaxFaults /\ faults' = faults + 1 /\ UNCHANGED calls

\* The receipt of this operation's upgrade.
Committed(r) ==
    IF Receipted(r) /\ state.schema = Target(r)
    THEN state.receipts[Target(r)][run[r].operation] ELSE NoReceipt

\* What ReceiptUpgrade.observe, or the reading of the version, refuses.
Refusal(r) ==
    IF ~Administers(r) THEN "PROJECT_FORBIDDEN"
    ELSE IF state.schema \notin {run[r].source, Target(r)} THEN "MIGRATION_TARGET_MISMATCH"
    ELSE IF Committed(r) # NoReceipt /\ Committed(r).actor # run[r].actor
    THEN "OPERATION_CONFLICT"
    ELSE "none"

\* The backup is whole, untampered and of this step.
Verified_Existing(r) == Directory(r).made
Verified(r) ==
    LET d == Directory(r)
    IN /\ d.receipt # NoReceipt /\ d.receipt.copy.schema = run[r].source
       /\ d.copy = d.receipt.copy
       /\ d.intact /\ d.clean

-----------------------------------------------------------------------------
\* An administrator asks for an upgrade, with an operation id that may be old.
Call(r) ==
    /\ run[r].pc = "idle"
    /\ \E o \in Operations, source \in 1..3, a \in Actors : Put(r, Called(o, source, a))
    /\ calls < MaxCalls /\ calls' = calls + 1
    /\ UNCHANGED <<state, backups, lived, faults>>

\* The state is looked at before any backup is.
Observe(r) ==
    /\ run[r].pc = "observe"
    /\ IF Refusal(r) # "none" THEN Finish(r, Refusal(r))
       ELSE IF Receipted(r) /\ state.schema = Target(r)
       THEN IF Committed(r) = NoReceipt THEN Finish(r, "already_current")
            ELSE Put(r, [run[r] EXCEPT !.pc = "verify", !.found = Committed(r)])
       ELSE Put(r, [run[r] EXCEPT !.pc = "look", !.current = state.schema = Target(r)])
    /\ UNCHANGED <<state, backups, lived, spent>>

Look(r) ==
    /\ run[r].pc = "look"
    /\ IF Directory(r).made THEN Put(r, [run[r] EXCEPT !.pc = "hold", !.existed = TRUE])
       ELSE IF run[r].current THEN Finish(r, "already_current")
       ELSE Goto(r, "make")
    /\ UNCHANGED <<state, backups, lived, spent>>

\* The directory is made exclusively.
Make(r) ==
    /\ run[r].pc = "make"
    /\ IF Directory(r).made THEN Raise(r, "FAILED") /\ UNCHANGED backups
       ELSE Goto(r, "copy") /\ Store(r, [Directory(r) EXCEPT !.made = TRUE])
    /\ UNCHANGED <<state, lived, spent>>

\* The copy is of the state as it was when its read transaction began.
BeginCopy(r) ==
    /\ run[r].pc = "copy"
    /\ IF ~Administers(r) THEN Raise(r, "PROJECT_FORBIDDEN")
       ELSE IF state.schema # run[r].source THEN Raise(r, "MIGRATION_STATE_CHANGED")
       ELSE Put(r, [run[r] EXCEPT !.pc = "copying", !.seen = state.writes])
    /\ UNCHANGED <<state, backups, lived, spent>>
EndCopy(r) ==
    /\ run[r].pc = "copying"
    /\ Store(r, [Directory(r) EXCEPT !.copy =
         [schema |-> run[r].source, writes |-> run[r].seen]])
    /\ Goto(r, "seal")
    /\ UNCHANGED <<state, lived, spent>>

\* The receipt is written after the copy was flushed and verified.
Seal(r) ==
    /\ run[r].pc = "seal"
    /\ Store(r, [Directory(r) EXCEPT !.receipt =
         [copy |-> Directory(r).copy, actor |-> run[r].actor]])
    /\ Goto(r, "hold")
    /\ UNCHANGED <<state, lived, spent>>

\* Copy and receipt are verified and held open, against writing and deleting,
\* until the run ends.
Hold(r) ==
    /\ run[r].pc = "hold"
    /\ IF Verified(r) THEN Goto(r, "check")
       ELSE IF Directory(r).receipt = NoReceipt THEN Raise(r, "MIGRATION_BACKUP_INCOMPLETE")
       ELSE Raise(r, "MIGRATION_BACKUP_CORRUPT")
    /\ UNCHANGED <<state, backups, lived, spent>>

Check(r) ==
    /\ run[r].pc = "check"
    /\ IF Directory(r).clean
       THEN Put(r, [run[r] EXCEPT !.pc = "migrate", !.attempted = TRUE])
       ELSE Raise(r, "MIGRATION_BACKUP_CORRUPT")
    /\ UNCHANGED <<state, backups, lived, spent>>

\* The write transaction: nothing to do, or refused.
Meet(r) ==
    LET found == Committed(r)
    IN /\ run[r].pc = "migrate"
       /\ \/ ~Administers(r) /\ Raise(r, "PROJECT_FORBIDDEN")
          \/ /\ Administers(r)
             /\ state.schema \notin {run[r].source, Target(r)}
             /\ Raise(r, "MIGRATION_TARGET_MISMATCH")
          \/ /\ Administers(r) /\ state.schema = Target(r)
             /\ IF found # NoReceipt
                   /\ found # [actor |-> run[r].actor, backup |-> Directory(r).receipt]
                THEN Raise(r, "OPERATION_CONFLICT")
                ELSE Put(r, [run[r] EXCEPT !.pc = "recheck", !.returned = TRUE, !.found = found])
       /\ UNCHANGED <<state, backups, lived, spent>>

\* Or the schema and the operation's receipt change in one commit, which the run
\* may not hear of.
Migrated(r) ==
    LET receipt == [actor |-> run[r].actor, backup |-> Directory(r).receipt]
    IN IF Receipted(r)
       THEN [state EXCEPT !.schema = Target(r),
               !.receipts[Target(r)][run[r].operation] = receipt]
       ELSE [state EXCEPT !.schema = Target(r)]
Migrate(r) ==
    /\ run[r].pc = "migrate"
    /\ Administers(r) /\ state.schema = run[r].source
    /\ state' = Migrated(r)
    /\ lived' = lived \union {[schema |-> Target(r), writes |-> state.writes]}
    /\ \/ /\ Put(r, [run[r] EXCEPT !.pc = "recheck", !.returned = TRUE, !.applied = TRUE,
                       !.found = IF Receipted(r)
                                 THEN state'.receipts[Target(r)][run[r].operation]
                                 ELSE NoReceipt])
          /\ UNCHANGED spent
       \/ /\ Fault
          /\ Put(r, [run[r] EXCEPT !.pc = "handle", !.applied = TRUE, !.error = "FAILED"])
    /\ UNCHANGED backups

Recheck(r) ==
    /\ run[r].pc = "recheck"
    /\ IF Directory(r).clean THEN Goto(r, "confirm") ELSE Raise(r, "MIGRATION_BACKUP_CORRUPT")
    /\ UNCHANGED <<state, backups, lived, spent>>

\* The state is read once more: the version for step 1 to 2, else the receipt.
Conclusion(r) ==
    IF Receipted(r)
    THEN IF run[r].found = NoReceipt THEN "already_current" ELSE "committed"
    ELSE IF run[r].existed THEN "reconciled" ELSE "version_confirmed"
Confirm(r) ==
    /\ run[r].pc = "confirm"
    /\ IF ~Administers(r) \/ (Receipted(r) /\ Refusal(r) # "none") THEN Raise(r, Refusal(r))
       ELSE IF \/ ~Receipted(r) /\ state.schema # 2
               \/ Receipted(r) /\ run[r].found \notin {NoReceipt, Committed(r)}
       THEN Raise(r, "MIGRATION_OUTCOME_UNKNOWN")
       ELSE Put(r, [run[r] EXCEPT !.pc = "release", !.outcome = Conclusion(r)])
    /\ UNCHANGED <<state, backups, lived, spent>>

\* The handles are checked a last time and closed.
Release(r) ==
    /\ run[r].pc = "release"
    /\ IF Directory(r).clean /\ ~run[r].cleanup THEN Finish(r, run[r].outcome)
       ELSE Raise(r, "MIGRATION_BACKUP_CORRUPT")
    /\ UNCHANGED <<state, backups, lived, spent>>

-----------------------------------------------------------------------------
\* The handler of upgrade_receipted_state: an error of the migration is no answer
\* until the state was asked for the operation's receipt.
Answered_VersionOnly(r) ==
    IF state.schema = Target(r) THEN Finish(r, "already_current") ELSE Finish(r, run[r].error)
Answered(r) ==
    IF Refusal(r) # "none" THEN Finish(r, "MIGRATION_OUTCOME_UNKNOWN")
    ELSE IF Committed(r) # NoReceipt
    THEN IF run[r].cleanup THEN Finish(r, "MIGRATION_COMMITTED_BACKUP_INVALID")
         ELSE Put(r, [run[r] EXCEPT !.pc = "verify", !.found = Committed(r), !.outcome = "none"])
    ELSE IF state.schema = Target(r)
    THEN Finish(r, IF run[r].cleanup THEN "MIGRATION_BACKUP_CLEANUP_FAILED"
                   ELSE "already_current")
    ELSE Finish(r, run[r].error)
Handle(r) ==
    /\ run[r].pc = "handle" /\ Receipted(r)
    /\ IF ~run[r].attempted \/ run[r].error \in {"PROJECT_FORBIDDEN", "OPERATION_CONFLICT"}
       THEN Finish(r, run[r].error)
       ELSE Answered(r)
    /\ UNCHANGED <<state, backups, lived, spent>>

\* The handlers of migrate_project_state: first the one around the migration, and
\* after a result the one around the closing of the handles.  An error once the
\* schema was confirmed is MIGRATION_BACKUP_CORRUPT with details that say so.
HandlePlain(r) ==
    LET result == run[r].outcome \in {"reconciled", "version_confirmed"}
    IN /\ run[r].pc = "handle" /\ ~Receipted(r)
       /\ IF ~run[r].attempted \/ (~run[r].returned /\ run[r].error = "PROJECT_FORBIDDEN")
          THEN Finish(r, run[r].error)
          ELSE IF ~Administers(r) \/ (result /\ state.schema # 2)
          THEN Finish(r, "MIGRATION_OUTCOME_UNKNOWN")
          ELSE IF result
          THEN Finish(r, IF run[r].cleanup THEN "MIGRATION_BACKUP_CLEANUP_FAILED"
                         ELSE "SCHEMA_CONFIRMED_BACKUP_INVALID")
          ELSE IF state.schema = 2
          THEN Put(r, [run[r] EXCEPT !.pc = "release", !.outcome = "reconciled"])
          ELSE Finish(r, run[r].error)
       /\ UNCHANGED <<state, backups, lived, spent>>

\* _verified_committed: the receipt proves the commit; the backup must still be
\* the one it names.
Verify(r) ==
    /\ run[r].pc = "verify"
    /\ IF Verified(r) /\ Directory(r).receipt = run[r].found.backup
       THEN Goto(r, "reverify")
       ELSE Finish(r, "MIGRATION_COMMITTED_BACKUP_INVALID")
    /\ UNCHANGED <<state, backups, lived, spent>>
Reverify(r) ==
    /\ run[r].pc = "reverify"
    /\ IF ~Administers(r) THEN Finish(r, "PROJECT_FORBIDDEN")
       ELSE IF Committed(r) # run[r].found THEN Finish(r, "MIGRATION_OUTCOME_UNKNOWN")
       ELSE IF Directory(r).clean /\ ~run[r].cleanup THEN Finish(r, "reconciled")
       ELSE Finish(r, "MIGRATION_COMMITTED_BACKUP_INVALID")
    /\ UNCHANGED <<state, backups, lived, spent>>

-----------------------------------------------------------------------------
\* Any other error of a step, an interrupt, or a transaction that could not begin
\* or rolled back.
Fail(r) ==
    /\ run[r].pc \in {"look", "make", "copy", "copying", "seal", "hold", "check", "migrate",
                     "recheck", "confirm", "release"}
    /\ Fault /\ Raise(r, "FAILED")
    /\ UNCHANGED <<state, backups, lived>>

\* The same where no handler tries again.
FailFinally(r) ==
    /\ \/ run[r].pc = "observe" /\ Finish(r, "FAILED")
       \/ run[r].pc = "verify" /\ Finish(r, "MIGRATION_COMMITTED_BACKUP_INVALID")
       \/ /\ \/ run[r].pc = "reverify"
             \/ /\ run[r].pc = "handle" /\ run[r].attempted
                /\ run[r].error \notin {"PROJECT_FORBIDDEN", "OPERATION_CONFLICT"}
          /\ Finish(r, "MIGRATION_OUTCOME_UNKNOWN")
    /\ Fault
    /\ UNCHANGED <<state, backups, lived>>


FailClosing(r) ==
    /\ run[r].pc \in {"release", "handle", "reverify"} /\ ~run[r].cleanup
    /\ Fault /\ Put(r, [run[r] EXCEPT !.cleanup = TRUE])
    /\ UNCHANGED <<state, backups, lived>>

\* The process dies; what it was writing stays as it is.
Crash(r) ==
    /\ run[r].pc # "idle"
    /\ Fault /\ Finish(r, "none")
    /\ UNCHANGED <<state, backups, lived>>

\* Another use of the project writes its state.
Write ==
    /\ state.writes < MaxWrites
    /\ state' = [state EXCEPT !.writes = @ + 1]
    /\ lived' = lived \union {[schema |-> state.schema, writes |-> state.writes + 1]}
    /\ UNCHANGED <<backups, run, spent>>

\* An administrator is revoked; one always remains.
Revoke ==
    /\ \E a \in state.administrators :
         /\ state.administrators # {a}
         /\ state' = [state EXCEPT !.administrators = @ \ {a}]
    /\ UNCHANGED <<backups, run, lived, spent>>

\* Somebody damages a backup that no run holds, or drops a file beside it.
Held(o) == \E r \in Runs :
    /\ run[r].operation = o
    /\ run[r].pc \in {"check", "migrate", "recheck", "confirm", "release", "reverify"}
Damage ==
    /\ \E o \in Operations :
         /\ backups[o].receipt # NoReceipt /\ backups[o].intact /\ ~Held(o)
         /\ backups' = [backups EXCEPT ![o] = [@ EXCEPT !.intact = FALSE]]
    /\ Fault
    /\ UNCHANGED <<state, run, lived>>
Litter ==
    /\ \E o \in Operations :
         /\ backups[o].made /\ backups[o].clean
         /\ backups' = [backups EXCEPT ![o] = [@ EXCEPT !.clean = FALSE]]
    /\ Fault
    /\ UNCHANGED <<state, run, lived>>

Step(r) ==
    Observe(r) \/ Look(r) \/ Make(r) \/ BeginCopy(r) \/ EndCopy(r) \/ Seal(r) \/ Hold(r)
    \/ Check(r) \/ Meet(r) \/ Migrate(r) \/ Recheck(r) \/ Confirm(r) \/ Release(r)
    \/ Handle(r) \/ HandlePlain(r) \/ Verify(r) \/ Reverify(r)
Next ==
    \/ \E r \in Runs :
         Call(r) \/ Step(r) \/ Fail(r) \/ FailFinally(r) \/ FailClosing(r) \/ Crash(r)
    \/ Write \/ Revoke \/ Damage \/ Litter

Spec == Init /\ [][Next]_vars

-----------------------------------------------------------------------------
\* Every value stays in its type.
TypeOK ==
    /\ state \in State
    /\ backups \in [Operations -> Backup]
    /\ run \in [Runs -> Run]
    /\ lived \in SUBSET [schema: 1..4, writes: Nat]
    /\ calls \in Nat /\ faults \in Nat

\* Whatever schema the state has left, there is a sealed backup of a state that
\* really was of that schema; and for steps with receipts exactly one operation's
\* receipt says so and names that backup, whatever runs met, died or were retried.
UpgradesAreBackedUp ==
    \A s \in 1..3 : (s < state.schema /\ \E c \in lived : c.schema = s) =>
      \E o \in Operations :
        LET d == backups[o]
        IN /\ d.receipt # NoReceipt /\ d.copy = d.receipt.copy
           /\ d.copy.schema = s /\ d.copy \in lived
           /\ s >= 2 =>
                /\ state.receipts[s + 1][o] # NoReceipt
                /\ state.receipts[s + 1][o].backup = d.receipt
                /\ \A p \in Operations \ {o} : state.receipts[s + 1][p] = NoReceipt

\* The answers are true.  Success names the receipt of the caller's own operation
\* and its sealed backup, or for step 1 to 2 the version and the backup alone;
\* 'already_current' never denies a commit of the operation; and an error other
\* than the ones that leave the outcome open, or refuse a former administrator,
\* never hides a commit of this run that left a receipt.
OpenOutcomes ==
    Successes \union {"none", "PROJECT_FORBIDDEN", "MIGRATION_OUTCOME_UNKNOWN",
                      "MIGRATION_COMMITTED_BACKUP_INVALID"}
OwnReceipt(r) == state.receipts[Target(r)][run[r].operation]
TrueWithReceipt(r) ==
    /\ run[r].outcome \in {"committed", "reconciled"} =>
         OwnReceipt(r) = [actor |-> run[r].actor, backup |-> Directory(r).receipt]
    /\ run[r].outcome = "already_current" =>
         state.schema >= Target(r) /\ OwnReceipt(r) = NoReceipt
    /\ run[r].outcome = "MIGRATION_COMMITTED_BACKUP_INVALID" => OwnReceipt(r) # NoReceipt
    /\ run[r].outcome \notin OpenOutcomes => ~run[r].applied
TrueWithoutReceipt(r) ==
    /\ run[r].outcome \in Successes => state.schema >= 2
    /\ run[r].outcome \in {"version_confirmed", "reconciled"} =>
         Directory(r).receipt # NoReceipt /\ Directory(r).receipt.copy.schema = 1
AnswersAreTrue ==
    \A r \in Runs : run[r].pc = "idle" =>
      IF Receipted(r) THEN TrueWithReceipt(r) ELSE TrueWithoutReceipt(r)
=============================================================================
