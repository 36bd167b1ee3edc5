# TLA+ specifications of the Rentgen core

Rentgen ("Рентген") is a local service for 1C code bases. It captures source trees into
immutable snapshots, builds a graph over them, keeps shared drafts of changes, controls who
may do what, applies proposals to live files and tells others about it. The program logic
that this directory specifies is in `rentgen_core/`; it runs in several processes of one host
(service, command line, MCP server, watcher) that share SQLite state files and directories.

The specifications are translated from the source. `PROJECT.json` maps each definition to the
lines it stands for.

## 1. Inventory

| Component | State it keeps | Operations | Talks to | What is hard | What makes it correct |
|---|---|---|---|---|---|
| Snapshot publication (`publication.py`, `capture.py`, `_linux_capture.py`) | `project_head`, `snapshots`, `publication_receipts` in the state file; a directory per generation | capture and publish, retry, reconcile | permissions, registry, scanner, graph builder | two writers, lost commits, crash between files and rows, A-B-A of equal content | the head moves by compare-and-set; the catalog only names complete files; a definite error hides no commit |
| Project permissions (`authorization.py`, `_sqlite.py`, `state.py`) | memberships, permissions, action receipts, source layers | require, change membership, configure layers, attribute a generation | everything that writes | check and change must be one transaction | no write without the permission at that moment |
| Project access (`access.py`) | `project_action_receipts` | grant, revoke, list, audit | permissions | administrators who revoke each other | a local administrator remains; the audit explains the access |
| Project drafts (`drafts.py`, `draft_editing.py`, `mcp_drafts.py`) | draft heads, revisions, workflow receipts, proposals | save, archive, restore, history, reconcile | permissions, snapshots | a retry that meets its own first attempt; paging while others append | a history is an append-only log; a verdict is final |
| Notification outbox, delivery, journal, host (`git_watcher.py`, `notification_delivery.py`, `notification_journal.py`, `notification_host.py`) | outbox file, journal file, their locks and temporary files | enqueue, deliver, acknowledge, rearm, reconcile | receiver, operator | crash between any two writes, lost responses, clock set back | nothing is acknowledged that was not accepted; attempts stay within their budget; everything settles |
| Notification receiver (`notification_receiver.py`, `_asgi`) | receipts database | accept | delivery | duplicates, full receipt table | one durable receipt per envelope |
| Git watcher and scheduler (`git_watcher.py`, `git_observer.py`, `_git_capture.py`) | run journal, last revision | tick, run, recover | outbox, publication | dies between its stores and the outbox; HEAD moves under a cycle | findings follow one line of history; a success is announced once, with its evidence |
| Observer (`observer.py`, `owner_report*.py`) | job journal, last reported snapshot, findings | tick, retry, verify, record findings, report | publication, reports | other publishers move the head meanwhile; a tick dies after it published | reports are one chain; whatever was published is accounted for |
| Live application of proposals (`proposal_live_apply.py`, `_live_recovery_stage.py`) | `state.json` of each run, backup and stage files | apply, undo, recover | live source tree, drafts | crash at each rename; foreign edits | the file is the old or the new one, and never somebody else's edit that was overwritten |
| Live application of metadata plans (`metadata_live_apply.py`) | the same journal over several files | apply, undo, recover | live source tree, metadata plans | stops between two files | as above, over a set of files; a mixture is never called applied |
| Metadata plans and native application (other `metadata_*`) | plan and run directories | plan, preview, native apply | platform process | a process that is killed | a candidate is what its plan says |
| Source reading and snapshot sessions (`sources.py`, `generation_verification.py`, `_posix_*`, `_windows_source_tree.py`) | open handles | read, list, verify | generations | a generation replaced while it is open | what is read is what the manifest says |
| Migrations (`state_migration.py`, `workflow_migration.py`, `access_migration.py`, `_schema_upgrade.py`) | schema version, backups | migrate, upgrade | all state | rivals with the same or other operation ids; death between backup, commit and answer | every schema that was left has a sealed backup; answers are true |
| Project registry (`registry.py`, `local.py`) | `registry.sqlite3`, private directories | register | state | two registrations of one root | one project per root |
| Service host (`service_*.py`) | process and service state | install, start, stop | the components above | stop during start | every started part is stopped |
| Platform runs (`platform_runs.py`, `native_*.py`, `yaxunit_runner.py`, `edt_execution.py`) | scratch directories, run records | run, cancel | external processes | time limits, leftovers | bounded and cleaned up |
| Three-way merge (`three_way.py`, `bsl_three_way.py`, `metadata_three_way.py`) | none | plan, materialize | command line, MCP, GUI | moved objects, edits that meet, three passes over one plan | each change reaches the candidate once, or there is no candidate |
| EDT plans and diffs (`edt_*_three_way.py`, `*_diff.py`) | none | compare | command line, GUI | - | - |
| Command line, MCP, GUI (`cli.py`, `stdio_mcp.py`, `gui*.py`) | none of their own | parse and format | all | - | - |
| Graph (`rentgen_graph/`), BSL scanner (`go/`), diagnostics (`rentgen_diagnostics/`, `rust/`), editor integrations, site, packaging, scripts | caches at most | analyse | publication | - | deterministic results |

What one process does is a sequence of transactions and file operations, and every other process
may act between two of them. That is the granularity of all modules: one action is one
transaction or one file operation that others can observe. A transaction of `_sqlite.py`
(`BEGIN IMMEDIATE` ... `COMMIT`) is atomic and serialised; it can fail to begin, be rolled back,
or commit and lose its acknowledgment.

`PROJECT.json` lists the hazards of this code, each at its line, with the properties about it.

## 2. Modules

| Module | Role |
|---|---|
| `Publication` | capture and publication of snapshots, both backends |
| `VersionedHead` | what publication promises: a compare-and-set head with idempotent operations |
| `PublicationProofs` | type correctness of `Publication`, its refinement of `VersionedHead`, attribution, the catalog, and what a call answers |
| `Membership` | audited access changes |
| `MembershipProofs` | type correctness of `Membership`, its safety properties, and that it implements `OperationLog` |
| `Drafts` | drafts, their receipts and their histories |
| `OperationLog` | what access and drafts promise: append-only streams with idempotent operations |
| `Observer` | the observer's jobs, over the head that `VersionedHead` promises |
| `ObserverProofs` | type correctness of `Observer`, the chain of reports, no publication lost |
| `GitAudit` | the Git audit service: scheduler, watcher, evidence, findings, owner reports, outbox |
| `GitAuditProofs` | type correctness of `GitAudit` and its safety properties |
| `NotificationDelivery` | outbox, journal, batches, host, receiver, disk, clock |
| `NotificationDeliveryProofs` | type correctness of `NotificationDelivery`, acceptance, no repetition, refusals and budgets |
| `LiveApply` | journaled replacement of live files: proposals and metadata plans |
| `LiveApplyProofs` | type correctness of `LiveApply` and all its safety properties |
| `SchemaUpgrade` | backups and upgrades of the state, run by rivals |
| `SchemaUpgradeProofs` | type correctness of `SchemaUpgrade`, the backups that remain, what a run answers |
| `TextMerge` | the three-way merge of one module's text |
| `ThreeWay` | the three materializations over paths, texts and metadata objects |
| `EditingProofs` | the components that carry what editors change: type correctness of `Drafts`, its safety properties and its refinement of `OperationLog`; what a candidate of `ThreeWay` and `TextMerge` is |
| `MC...` | symmetry and constants of the runs |

`Observer` composes with publication through its promise: it instantiates `VersionedHead`, which
`Publication` is proved to implement, instead of `Publication`. `GitAudit` takes the observer's tick as the
one step that its caller sees (the head becomes what the sources are, or the tick fails). Its outbox is
the upstream end of `NotificationDelivery`: there an event appears by `Enqueue`, here it leaves by
`Ack`. `ThreeWay` extends `TextMerge`; its specification is named `MergeSpec`, so that it can be reasoned about beside `Drafts`.

A definition whose name has a suffix (`Flush_Skipped`, `Answer_Any`, ...) is no part of its
specification: it is a plausible mistake, kept to show that the property it is listed with in
`PROJECT.json` notices it. Nothing refers to it.

### Publication

`attempt[w]` is one caller inside `capture_and_publish`. Its `pc` follows the code: the receipt is
looked up first (`Lookup`, `publication.py` 103-116), one read transaction compares head and
configuration and creates a fresh directory (`StartCapture`), the live tree is read in two passes
(`ReadSources`), scanner and graph builder write their outputs and the manifest (`Build`), everything
is flushed and verified (`Flush`), an equal snapshot that is already catalogued is verified and reused
(`Select`), a last check (`Check`) and the write transaction `commit_publication` (`Refuse`,
`Publish`, `LoseCommit`; `Verdict` lists its checks in their order). An uncertain commit is decided by
the durable receipt (`Reconcile`), and in the portable backend so is a failure to close handles after
the commit (`Release`). `Gate` is the Linux backend's repeated check. `Cancel`, `Unavailable`,
`Crash`, `PowerLoss`, `ConfigureSourceLayers`, `SetMembership` and `EditSource` interleave anywhere.

A snapshot is the pair of source layers and contents that its manifest hash names. `files` has one
entry per generation directory and the stage of its bytes; a power loss destroys what is not
flushed. `configurations`, `seen` and `applied` are history.

### Membership

`Call` is a validated request with the revision just read, `Retry` the same request and operation id
again. `Verdict` is `_change_membership`: permission, receipt, revision, `_protect_administrators`.
`Change` writes membership and receipt. `Reconcile` reads the receipt, for which the caller must
still administer the project; otherwise the outcome stays unknown. Permissions that do not take
part in `_protect_administrators` are left out, as is the delegation of permissions other
than these two: a permission set is `project:read` alone or the effective pair.
`MEMBERSHIP_LAST_ADMIN` is modelled where the code has it and is never the verdict: the actor is
itself an effective administrator, and a change of the actor is refused before as a self lockout.

### Drafts

`Edit`, `Retry`, `CheckRequest`, `ParseProposal`, `Refuse`, `Commit`, `LoseTransaction`, `Reconcile`
and `Crash` are the steps of `save_draft`, `archive_draft` and `restore_draft`; `Verdict` is the order
of checks in `_commit`. A title and a replacement text are one value of `Contents`; a proposal's exact
source is `SourceOf`. `Foreign` are operation ids that another workflow action has put into the
receipts (`workflow_migration.py`). `OpenHistory` and `NextPage` are `draft_history`; the permission of
the reader is left out, it changes nothing but whether the page is returned.
`AnswersAreTrue` says nothing of `PROJECT_FORBIDDEN` after a change: a right that is revoked before the
reconciliation hides a commit, and `docs/product/PROJECT-DRAFTS-HTTP.md` documents exactly that.

### Observer

`jobs` is the journal's table in the order of its rows, `last_snapshot` the snapshot that was last
reported, `head` and `receipts` the project's state. `worker[w]` is a process inside `_tick`: it holds
the profile's lock from `Begin` to the end of the tick (`Free`). Without an open job the sources are
hashed while the head stands still (`Probe`) and compared with head and last report (`Decide`), which
adds a job that names the head it expects. `Lookup` and `Commit` are `capture_and_publish` with the job's id
as operation: its own receipt first, then compare-and-set. `Note` stores the result, `Report` writes the report and
the last snapshot in one commit. `HandleError` is the handler of `_tick`: a conflict with the head
supersedes the job, the third other error in a row fails it until `Retry`. `Fail` and `Crash` interrupt
any step; `Commit` and `Report` may besides succeed and raise. `OtherPublishes`, `Reconfigure` and
`ChangeTree` are everybody else.

### GitAudit

One action is one look at Git, one transaction of a store or one write of a file. `run.pc` follows
`Scheduler.run` (`Begin`, `Top`, `Cycle`, `Announce`, `RecordFatal`, `AnnounceFatal`, `Stop`) and inside a cycle
`GitAuditWorker` with `GitWatcher.tick`: `Observe`, `Capture`, `Recheck`, then `Watch`, `Analyze`,
`Check`, `Record`, `Report`. The evidence is asked for three times by `Verify`, `Probe` and
`Bind` (`run.stage` says by whom): HEAD, the sources, the head's snapshot, HEAD again. Two of the answers are kept apart, as
the code does: `run.prepared` is what the service bound before it called the watcher, `run.evidence` what the watcher bound itself.
Findings are recorded under the second, the owner report and its binding are made of the first, and `Available` is the comparison
of both (`SERVICE_EVIDENCE_INCOMPLETE`): a snapshot published in between ends the run after its findings were recorded. `project.probed` stands
for the head's revision: it is true while nothing has moved the head since the probe. `Move`, `Reconfigure` and
`OtherPublishes` change what these steps read, between any two of them. Errors that the service may
retry end the cycle (`Transient`), others end the run (`Fatal`); `Die` ends the process anywhere,
inside a write of the journal too, and leaves its temporary file (`torn`). `Recover` and `Ack` belong to the operator and
the sender. `announced`, `lives` and `refused` are history.

A file that the snapshot has no entry for is counted in the code and not proven; here a snapshot
either is its commit or is edited. The journal's event text, its bounded list of events, the back-off between cycles
and the counters of status are left out.

### SchemaUpgrade

`state` is the SQLite file: its schema, a counter of other writes, the administrators and the upgrade receipts of
steps 2 to 3 and 3 to 4. `backups[o]` is the directory of an operation: a copy, its sealed receipt, and whether
bytes and directory are as they were written. `run[r]` follows `upgrade_receipted_state` and `_upgrade`:
`Observe`, `Look`, `Make`, `BeginCopy`, `EndCopy`, `Seal`, `Hold`, `Check`, `Migrate` (or `Meet` a
rival's receipt), `Recheck`, `Confirm`, `Release`, and the handlers `Handle`, `HandlePlain`,
`Verify`, `Reverify`. `Fail*` are errors of a step, before or after it took effect, `Crash` is a death; `Write`, `Revoke`,
`Damage` and `Litter` are others. A backup that a run holds open cannot be damaged.

What the code answers here is weaker than one may expect, and the model has it so: `PROJECT_FORBIDDEN` may follow a commit
when the administrator was revoked meanwhile; step 1 to 2 leaves no receipt, so it confirms a version
and a backup and attributes nothing; a retry of a committed 2 to 3 upgrade after the state went on to 4 gets
`MIGRATION_TARGET_MISMATCH`; and a retried operation may reuse a backup from before later writes.

### TextMerge and ThreeWay

These calls keep no state. A behaviour is one call: its arguments (`call`) are any triple of the
instance's inputs, its `answer` is the candidate or the refusal. `TextMerge` follows `bsl_three_way.py`: exact
selection, checks in their order (`Composite`), `Edits` as the gaps between difflib's matching blocks,
`Combine` and `Weave`. `ThreeWay` follows `metadata_three_way.py`: path plan, objects by type and UUID
(`RecordOf`, `MergeAction`), direct properties with their order (`MergedRecord`), companions and
their owners (`ScopeReasons`), the blockers, and the candidate that three passes put together (`Candidate`) and check again.

A tree is a function from paths to files; a path is a place and what lies there. XML is its meaning: a
descriptor's type, object, direct properties and everything else (`outer`). Changes of the text that leave the
meaning alone are left out, and with them `property_lexical_change_unsupported`; so are encodings, limits in bytes
and files, and the case folding of paths. Types that may own a module are reduced to two (`Owned`).

### NotificationDelivery

`outbox` and `journal` are the two documents; `leftover` says whose write was interrupted and left a
temporary file, which makes every later write of that file refuse. `stable` is the version of the
outbox that a power loss cannot take back: the outbox is replaced without a sync of the directory,
and the journal, which syncs the directory they share, makes it stable as well. `run[c]` is a batch of
`deliver_outbox`: with the journal `Open`, `Reconcile`, `Begin`, `Record`, `Ack`, `Forget`, `RecoverAck`
and `EndBatch`, without it `OpenDirect`, `SendDirect`, `RespondDirect` and `Ack`. A request stays in
`inflight` until the receiver sees it, which may be after the sender has given up. Time is relative: `wait`
counts down to the due time of an attempt, and `Beyond` is any time out of reach, as a clock that was
set back leaves it. `Rearm`, `RemoveLeftover` and `RecreateOutbox` are the operator's decisions.

### LiveApply

`proposal_live_apply.py` and `metadata_live_apply.py` keep one protocol, over one file and over the files
of a plan. `writer` chooses between them; they differ in the number of files and in `Overlooks`.
`records` are the sealed files of the operation's directory with their temporary files, `areas` its copies of
the changed files, `source` the live tree, in which 0 stands for all files that the operation does not change.
`call` is the call that holds the project's lock: its `at` follows the code through `apply_live` (`StartApply`,
`WriteIntent`, `BackUp`, `Stage`, `Prepare`) or `undo_live` and `recover_live` (`StartRestore`, `PromoteState`,
`PromoteResult`, `Decide`, `Restage`) to what they share: the phase is announced (`Begin`), each file is compared with the
whole tree and replaced (`Check`, `Swap`; `Swappable` is what must be there for the replacement: the target, and the staged file), the tree is compared again (`Verify`), result and phase are written (`Record`,
`Complete`, `Finish`). `Status` is `get_live_status`.

`Interrupt` may end a call between any two steps: a permission was revoked, an I/O call failed or the process
died. `WriteRecord`, `Copied` and `CopyStops` may besides leave a shorter file. `Edit` changes any file between any two
steps, between the last comparison and `os.replace` too; `call.raced` remembers that this has just
happened. A power loss is a crash at an earlier step: every record is flushed, source and journal lie on one volume
(`_same_volume`), and the model assumes that this volume keeps the order of its renames. `_source_rows` is one
look at the tree; the model does not show edits in the middle of it.

What the run taught about the protocol: some journals are refused for good, and by design, because
damaged records are left to the owner: a torn `state.json` beside a whole pending "undoing", a torn
temporary file or result, and a pending "complete" after the files were restored by hand. `Repairable`
excludes these, operations that stopped before their intent and backups were whole (they have
written nothing), and trees that somebody else has edited; from there recovery always succeeds.

## 3. Runs

| Run | States | Question | Instance |
|---|---|---|---|
| `publication_races` | 0.64 M | Do two callers over a changing tree keep head, catalog, receipts and answers together? Does attribution survive A-B-A, and does an old capture ever overtake content that was published again? | portable backend, 3 operations, 2 contents, 3 generations, revisions up to 3; one caller loses `analysis:run`, before the first publication only |
| `publication_linux` | 1.1 M | The Linux gate, while source layers are replaced and permissions revoked at every step, and the last revision of the head | 2 layouts, 2 source revisions, 1 content, 2 operations, revisions up to 1 |
| `membership_rivals` | 0.15 M | Two local administrators and a remote one grant and revoke each other | 2 callers, 3 principals, 3 operations, revisions up to 3 |
| `drafts` | 0.74 M | Retries that meet the attempt they repeat, lost commits and revoked rights, up to the last revision. Does an archived draft leave the archive by a restoration only, and do pages join while revisions are added between them? | two processes of one editor and a reader, 1 draft, 2 contents over 2 sources, page size 1, 3 operations and a foreign one, revisions up to 3; rights are revoked and the foreign id is tried up to revision 1 |
| `delivery_misused` | 5.2 M | What is left of the promise when a consumer without the journal works beside one with it and the outbox is recreated under a journal that knows its ids | 2 envelopes, 2 consumers, 2 faults |
| `delivery_hosted` | 0.30 M | Do batches end and envelopes settle, with every crash point of the journal and the policy lowered between batches? | 1 consumer, receiver that holds one receipt, policies of 1 and 3 attempts, 2 faults |
| `live_apply` | 0.45 M | Are bytes lost, outcomes untrue or recovery refused, however calls are interrupted and files edited? Does recovery end? | both writers, a plan of 2 files |
| `observer_jobs` | 1.2 M | Are reports one chain and publications accounted for, with two workers, another publisher and deaths anywhere? Does the observer catch up? | 2 workers, 2 contents, 3 jobs, 2 source revisions, 2 changes, 3 faults |
| `git_audit` | 1.2 M | Does one service over two lifetimes keep findings, evidence, owner reports and events consistent while HEAD and the sources move? Does it keep up? | 3 commits of which two are a fork, an outbox of 1, 3 moves, 2 source revisions, 1 fault |
| `git_audit_recovery` | violation | Can the operator always recover a service that died? No: see below | 2 lifetimes, 1 fault |
| `upgrade_rivals` | 3.9 M | Is every schema that was left backed up, and is every answer true, with rivals, deaths and damaged backups? | 2 runs of 2 administrators, 2 operations, schemas 1 and 2 at first, 3 calls, 1 write, 1 fault |
| `threeway` | 0.75 M | Is a candidate the sum of both sides' changes? | all triples of 50 texts of up to 5 lines, and of 50 trees of up to 2 files |

**The finding.** `docs/product/GIT-WATCHER.md:41` says that a service that dies leaves `phase="running"` and that a later run
is refused until an operator calls `journal.recover(reason)`. A service that dies inside a write of that journal
also leaves the temporary file of the write, and then `recover` is itself refused: nothing in the repository removes
the file. `git_audit_recovery` shows it.

**Why these bounds.** Each conflict in publication, access, drafts and upgrades is between two calls and the
rows they compare, so two callers show it. A third revision is what an A-B-A needs, a draft that leaves the archive, and
a history that grows between two of its pages; both modules have it. What this costs is
saved on the side by two constraints: `EarlyRevocation` lets one caller lose a permission before the first publication only
(after a commit a lost permission merely takes answers away, and `publication_linux` revokes everywhere), and `Bounds` of `MCDrafts` revokes rights and tries another
workflow's operation id up to the first revision. `Bounds` also stops a client that has read a history; another
history starts from nothing, so no behaviour is lost by that. Each capture takes a generation for good, so three publications need three. The
stale capture that `CapturedAtExpectedHead` is about waits at revision 1 while the same content is published over
itself; a stale capture behind a whole A-B-A would need a fourth revision, which is too large a run: the theorem covers it. `MaxRevision` is the largest revision of the code
(2^63-1) brought within reach, so the branches at the limit fire. Two envelopes are what
head-of-line blocking and a reused id need, three jobs a chain with a gap in the middle, a fork of
three commits a rewritten history, and each fault may fall between any two steps. `Capacity` (1000 pending events in the code)
and `MaxJobs` (10000 jobs) are limits of the code brought within reach.
`MaxFaults` bounds crashes, power losses, revocations, clock changes and operator decisions
together, `MaxNotifications` the ids, `MaxSource` the configuration changes, `MaxChanges` and `MaxMoves` those of the tree
and of HEAD, `MaxLives` and `MaxCalls` how often processes and calls are started. They are bounds of the
model. `live_apply` has no such bound: interruptions, edits and repeated calls are unlimited, only the number of
files is fixed, and two files have a state between them.

In `threeway`, three lines are what an edit needs to lie before, at or after another one with a line between; the texts are all those over three
letters, and odd ones with other endings, a BOM and more lines than `MaxLines` allows. `MaxCells` is `_MAX_DIFF_CELLS` brought within
reach. Trees have two places, so that an object can be moved or copied; the properties of one object are changed,
deleted, added and reordered in every combination of two sides.

`publication_linux` checks only what the other backend cannot show, a source configuration that changes between capture and
commit; the remaining properties of
`Publication` are proved for both backends (section 4). The type invariants of the modules that have
proofs are proved rather than run.

`CHECK_DEADLOCK` is off where the system may be done: in `git_audit` and `git_audit_recovery` when the last lifetime is over,
in `upgrade_rivals` when everybody has made their calls, and in `threeway`, where a call returns once. In every other run something can always happen.

**Symmetry** is used for operations, generations, contents, callers or envelopes that the
specification does not tell apart, and never in a run with liveness properties.

**Fairness** is assumed in `delivery_hosted`, `live_apply`, `observer_jobs` and `git_audit`.

In `delivery_hosted` a started batch goes on, because every exchange
has a socket timeout (`Running`). The foreground host starts batch after batch, time passes,
permission is restored and somebody removes the leftovers of interrupted writes (`Hosting`); without
the last two the code stops by design with `FORBIDDEN` or `RECOVERY_REQUIRED`. Nothing is assumed of
the receiver or the network, and faults are finitely many. `EventSettles` is therefore a statement
about attempts: an envelope leaves the outbox or becomes terminal, in spite of a receiver that
never answers.

In `live_apply` a call that runs goes on (`WF(Advance)`: nothing in it waits once it holds the lock), and the operator asks for
recovery again and again when no other call holds the lock (`SF(StartRestore("recover"))`). That interruptions
cease is a premise of `Recovers`, not of the specification; people may go on editing, which makes the operation
no longer `Repairable`.

In `observer_jobs` each worker polls for ever (`observer_cli.py` calls tick after tick, and each step of a tick ends), and the operator retries a
failed job. `Crash` ends the process, and nothing in the repository starts it again: `CatchesUp` presumes that whoever runs
the observer (a service manager or a person) starts its polling loop again after a death. Without that
a dead observer stays behind for ever. The tree and the other publishers need not rest by assumption: their changes are bounded, so they
do in the end, as faults do. `CatchesUp` excludes a full journal, which the code never empties.

In `git_audit` a process that runs goes on, a service manager starts it again while lifetimes are left, the operator
recovers the journal and the sender acknowledges events. `KeepsUp` excludes what the code cannot get out of:
a rewritten history (fatal by design), edited sources, a stuck journal, and no process at all.

**What is modelled as given.** The graph builder is deterministic. The entries of generation
directories survive a power loss once their files are flushed. Outbox and journal lie in one
directory on a file system with POSIX `fsync` semantics; on Windows `_fsync_directory` does nothing,
and the code makes no promise about power loss there. An envelope is enqueued at most once.

## 4. Proofs

For all values of the constants that satisfy the named assumptions of the modules (revision bounds
are natural numbers, null values are none of the values they stand for, the owner is local, descriptors and texts are what their readers admit):

| Theorem | Says |
|---|---|
| `PublicationProofs!TypeCorrect` | `Publication` is well typed; the revision stays within its column |
| `PublicationProofs!PublicationImplementsPromise` | `Publication` implements `VersionedHead` |
| `PublicationProofs!AttributionCorrect` | `AttributionSound`: the cross-check of `get_generation_attribution` never fails |
| `PublicationProofs!CatalogIsComplete` | `CatalogComplete`: what the catalog names is complete and flushed |
| `PublicationProofs!AnswersOfCallsAreTrue` | `AnswersAreTrue`: acknowledged publications are durable, definite failures hide no commit |
| `PublicationProofs!CorruptionIsUnreachable` | `NeverCorrupt` |
| `PublicationProofs!CapturesAreCurrent` | `CapturedAtExpectedHead` |
| `PublicationProofs!ConfigurationsAreRecorded` | `PublishedUnderItsConfiguration` |
| `PublicationProofs!NothingIsTakenBack` | no step changes a receipt, a locator or a configuration, or brings back a head that was left |
| `LiveApplyProofs!TypeCorrect` | `LiveApply` is well typed, for any number of files |
| `LiveApplyProofs!RestorationsAreFinal` | `NeverReplayed` |
| `LiveApplyProofs!OriginalIsKept` | `OriginalSurvives` |
| `LiveApplyProofs!OthersAreRespected` | `OthersBytesKept` |
| `LiveApplyProofs!StatusIsRight` | `StatusIsTrue` |
| `LiveApplyProofs!RecoveryGoesThrough` | `RecoveryIsAccepted` |
| `NotificationDeliveryProofs!TypeCorrect` | `NotificationDelivery` is well typed |
| `NotificationDeliveryProofs!AcknowledgedIsAccepted` | `AckedWasAccepted`, in every use, the misuses included |
| `NotificationDeliveryProofs!AcceptedIsNeverResent` | `NeverResent`, in every use |
| `NotificationDeliveryProofs!RefusalIsNeverFalse` | `NoFalseConflict`, while nobody deletes the outbox |
| `NotificationDeliveryProofs!BudgetIsKept` | `BudgetKept`, while nobody deletes the outbox |
| `NotificationDeliveryProofs!JournalIsKept` | no step lowers the high water, changes the envelope of an entry or undoes an acceptance; a count falls only by `rearm` |
| `SchemaUpgradeProofs!TypeCorrect` | `SchemaUpgrade` is well typed |
| `SchemaUpgradeProofs!UpgradesHaveBackups` | `UpgradesAreBackedUp`, for any number of runs and operations |
| `SchemaUpgradeProofs!AnswersAreRight` | `AnswersAreTrue` |
| `SchemaUpgradeProofs!NothingIsTakenBack` | no step lowers the schema, changes the receipt of a reached schema or writes over a sealed backup |
| `MembershipProofs!TypeCorrect` | `Membership` is well typed |
| `MembershipProofs!LocalAdministratorRemains` | `AdministratorRemains` |
| `MembershipProofs!AnswersOfCallsAreTrue` | `AnswersAreTrue` |
| `MembershipProofs!MembershipImplementsLog` | `Membership` implements `OperationLog` |
| `MembershipProofs!AuditExplainsAccess` | `ReceiptsExplainAccess` |
| `EditingProofs!TypeCorrect` | `Drafts` is well typed |
| `EditingProofs!HistoriesAreBound` | `HistoryIsBound`: readers never find a history that disagrees with its receipts |
| `EditingProofs!HistoriesAreOfOneDraft` | `HistoryIsOneDraft` |
| `EditingProofs!AnswersOfCallsAreTrue` | `AnswersAreTrue` |
| `EditingProofs!HistoriesArePagedWhole` | `HistoryIsPagedWhole` |
| `EditingProofs!DraftsImplementLog` | `Drafts` implements `OperationLog` |
| `ObserverProofs!TypeCorrect` | `Observer` is well typed |
| `ObserverProofs!ReportsAreOneChain` | `ReportsChain`, for any number of workers and jobs |
| `ObserverProofs!PublicationsAreAccountedFor` | `PublicationIsAccountedFor` |
| `GitAuditProofs!TypeCorrect` | `GitAudit` is well typed |
| `GitAuditProofs!FindingsFollowOneLine` | `LineageKept`, in any acyclic history |
| `GitAuditProofs!EvidenceIsBound` | `EvidenceBound` |
| `GitAuditProofs!SuccessesAreEvidenced` | `SuccessIsEvidenced` |
| `GitAuditProofs!AnnouncementsAreUnique` | `AnnouncedOnce` |
| `GitAuditProofs!SilencesAreExplained` | `SilenceIsExplained` |
| `EditingProofs!MetadataIsWoven` | `ObjectsAreWoven`, for any trees of well-formed descriptors |
| `EditingProofs!TextsAreWoven` | `TextIsWoven`, for any texts of any length |

`TypeInv` is `TypeOK` and, for each call, which fields are filled at its `pc`: from "read" on the
attempt owns a generation, from "build" on it has a snapshot, and a call that runs names an
operation. `TypeOK` alone is not inductive, `Publish` would write the null values into the catalog.

The refinement follows from `TypeInv` and two facts: only `Publish` and `ConfigureSourceLayers` touch
the state file (`StoreStep`), and what `Publish` writes is told by the head it replaces
(`PublishWrites`), because the verdict "publish" implies that the head is the expected one and
that no receipt has this operation.

`AttributionSound` needs `HeadInv`: receipts lie behind the head in revision and source
(`ReceiptsBehindHead`), a head that has moved has the receipt that moved it (`HeadHasReceipt`), no two
receipts share a revision or an operation (`ReceiptsUnique`), and each catalogued snapshot has a
latest receipt (`Attributed`).

`CatalogComplete` needs `FilesInv`: no two running attempts own one generation (`OwnersDiffer`), and for
each attempt between "read" and "commit" its generation is not in the catalog and is at the stage that
its `pc` says, and a reused generation is complete (`FilesOK`). Then a step of one attempt leaves the
others' files and the catalogued ones alone.

What a call answers follows from `CallInv`: `HeadInv`, `FilesInv`, a catalog with one row per
snapshot, and for each call `HeadOK` and `AnswerOK`. The state file only grows (`Grows`): receipts and
configurations are never taken back, and the head either stays or gets ahead of every head there was. So a
call that still finds the head it expects at its transaction knows that nothing was published or
reconfigured since it read its sources (`HeadOK`: expected <= seen <= head), and that the catalog still
has the rows that it selected. Receipts are unique per operation, so an applied call that
looks for its receipt finds its own (`AnswerOK`).

`AdministratorRemains` is inductive with the types: the actor of a change administers the project when it is made,
and `_protect_administrators` refuses the change that would remove the last local one.
The answers need that operation ids are unique among the receipts and that a call with its change stored reports no error
since (`Honest`). What the receipts tell is a `CHOOSE` of the latest one; that each principal that was ever
touched has a latest one at every revision (`HasLatest`) is carried along as part of the invariant, so that the proof needs no
induction over sequences.

The types of `LiveApply` need to know where a call can be (`Placed`: an application is never at "decide", say) and what the
last steps of a call rely on (`Resulted`: at "complete" there is a result). `NeverReplayed` needs `Directed`, which ties
the phase in `state.json`, the pending one and the direction of the running call together; the lemma `PhaseMoves`
lists how phases follow each other. `OriginalSurvives` needs `Kept`: an application at file p has
whole backups of the files before p, and of all of them once it is past staging, and while nobody else has touched the
tree it has changed nothing before it announces itself. `IntentMoves` and `BackupMoves` say that nothing but these
early steps writes the intent or a backup.

`OthersBytesKept` needs `Seen`: nothing expects foreign bytes in a changed file, and from the look at the whole tree to
`os.replace` the tree is as expected unless somebody edits it. The two properties of the answers need to know what
every reachable journal looks like. `Agreed` says it of the records (`Sound`: `Journal` for the sealed ones,
`Pending` for the temporary ones, `Blank` before the intent is whole) and of the running call (`Staged`: what it has found or
written at each of its steps). `Untouched` says it of the files as long as nobody else edits them: each is the
original or the replacement (`Ours`), the records tell which (`Told`), and a call knows how many it has replaced
(`Progress`). The lemma `NothingRefuses` is the argument for `RecoveryIsAccepted`: where the operation is repairable, no
record that a recovery writes is in the way of another, no comparison with the tree fails, and every file still to be put back
has its whole staged copy (`Ready`). `AnswerHolds` carries
the last answer from call to call.

In `NotificationDelivery`, `Inv` is what holds in every use: the journal's lock has one holder (`Exclusive`), a batch holds
notifications of this outbox in the order of their ids and keeps what was accepted (`BatchOK`), what reconciliation
has found stays so while the batch runs (`JournaledOK`), and acceptance in the journal is true and final (`AcceptedOK`,
`RecordedOK`). `OwnInv` adds what holds while nobody deletes the outbox (`~Recreated`, as in `delivery_hosted`): queue and
journal agree now and after a power loss (`QueueOK`), the journal counts at least what was sent (`SendsOK`), and what is
queued and no part of a batch came later than it (`BatchInOrder`, `BatchInBudget`). With the deletion the two properties are false:
the ids begin again under a journal that knows them. That a batch has a first notification rests on the
well-founded order of the natural numbers (`LessIsWellFounded`).

The invariant of `SchemaUpgrade` is about the world (`World`: there is no receipt of a schema not yet reached, a sealed
backup is a copy of a state that there was), about the runs that make a backup (`Alone`: no two in one directory) and, with
`Fits`, about each run: who makes a directory finds it unsealed, and nobody attempts a migration without a sealed
backup of its step (`CopyFits`); a run that changed the schema has attempted it and was not told of a conflict (`CallFits`); and
once the state is past a step, the operation's receipt there is settled, so what a run has found stays what the state
says (`ReceiptFits`, `AnswerFits`). `Fits` takes run, state and backups as arguments, so that one lemma (`FitsGrows`) shows
that no step of another process disturbs it: the schema only rises, receipts below it and sealed backups
never change (`Grows`). A migration is the one step that adds a schema to leave; its own sealed backup is the witness
(`MigratedIsBackedUp`).

The invariant of `Drafts` has a part for the store (`Stored`: heads and revisions agree, each revision has one receipt and each receipt one
revision), one for each call and one for each reader. A call that was refused can never have changed
anything, and never will: `Doomed` says why: its operation id is taken by something else, the head is beyond the revision it expects, or at
that revision the draft does not admit the action. No later step undoes any of these. `ReadOK` says that a reader has exactly the
revisions from `top` down to `Low`; revisions appended meanwhile are above `top`. The refinement then needs only
that a step appends at most one revision, with an operation that had none.

In `Observer` the lock makes all but one worker idle (`Exclusive`), and only the newest job can be open, because a job is
added only when none is. `WorkerOK` ties a worker to that job: at "commit" its operation is unpublished, at
"note" its receipt has the snapshot in hand, and a conflict is raised only while the operation is unpublished. That is why a superseded job
never published: `Lookup` finds the receipt before it compares heads.

The invariant of `GitAudit` says what the stores contain (`Stored`), what the process knows at each `pc` (`Working`: past "bind" the
evidence is the commit's, the service's and the watcher's each from its own stage on; from "analyze" on the commit is new and follows all earlier findings), why a finding is
still silent (`Silence`), and that a running process has a lifetime (`Alive`). `HistoryAssumption` (histories are
partial orders) is all that is assumed of Git.

The three-way merge has no steps to speak of: `Answered` says that an answer is the materialization of its call, and the rest is about
functions of the call. Two assumptions say what the readers admit. `TreeAssumption`: a descriptor has a UUID, no property
twice, and no value that stands for "none" (`_object` refuses the others). `TextAssumption`: only the last line of a text may lack its
terminator (`_document` splits at line feeds). Loops are recursive functions: `AllNumbers` is induction over the naturals, taken
from the library's theorem that `<` is well founded; `Repeated` gives the states of a loop and `Throughout` what holds in all of them; `Recursion` gives
a function that calls itself with smaller arguments (`Gaps`, `Combine`).

- *Objects.* In a plan that passed its checks (`Ready`) a path holds the same object in every tree that has a descriptor there
  (`OneObjectPerPath`). `CandidateShape` says which of the three passes of `Candidate` decides a path, and
  `NoOtherDescriptor` that none of them puts an object anywhere but at the place that was decided for it. `InsertedFacts` says that the splice of the property orders
  loses and doubles no name, which is what `Property` needs to find each of them.
- *Texts.* `EditsTraced`: the edits of a branch are the gaps of a `Trace`, a path through both texts whose other parts are equal
  line by line; margins and each matching block keep that. From it follow that they are in order with a line between any two (`TracedInOrder`), that
  weaving them into the base gives the branch (`EditsWeave`), and that the unterminated line of either text is met at its end only (`EditsEndWell`).
  `CombineSorts`: two such sequences clash exactly where two of their edits touch, and are else one sequence in order with the
  edits of both. `WeaveIsWoven`: weaving a sequence in order is putting each edit at its place, whatever the order they are listed in. That the branches may be
  exchanged then needs no second induction: `Touch` is symmetric, and so is the union of the edits.

Nothing is used of difflib but that the block it returns is not empty and equal on both sides (`LongestFits`); which of the longest blocks it prefers does not matter to
any of this.

**Model-checked only**: the liveness properties `EventSettles`, `Recovers`, `CatchesUp` and `KeepsUp`, because liveness and
`ENABLED` are beyond the prover. Every other property of a passing run is a theorem.

## 5. Not modelled

- Bytes: manifests, hashes, proposal formats, JSON limits, HTTP parsing and authentication. Their
  failures are outcomes of the step they belong to.
- Read sessions over generations, which write nothing, and the two passes of a capture, which are one step of
  `Publication` (the files of the first are those of the second, or the capture is refused).
- Of the observer: the accounting of gaps between polls, which is written before a tick and read by status only.
- EDT inventories, their three-way plans, and the textual diffs: read-only reports.
- The registry, the service host and its installer: see the plan.
- Metadata plans and platform processes: a bounded child process over a scratch copy, whose candidate enters `LiveApply`.
- The graph, the scanner, the Rust and Go parts: pure or read-only analysis.
- GUI, command line and editor integrations, which call the operations above. They, the graph and the
  acceptance scripts are most of the lines of the repository, and the reason why the definitions stand for a small
  share of them.

## 6. Plan

1. Two operations of `LiveApply` over one tree: recovery of the first accepts replacement bytes that the second confirmed
   (`proposal_live_apply.py` 867).
2. `Capture`: the two passes of `capture.py` over a tree that changes between them, as a refinement of
   `ReadSources`.
3. The registry and the service host, if they turn out to have interleavings that matter.
