------------------------ MODULE NotificationDelivery ------------------------
(***************************************************************************)
(* Delivery of queued notifications: the outbox file (git_watcher.py), the *)
(* attempt journal next to it (notification_journal.py), the batches that  *)
(* send and acknowledge (notification_delivery.py) and the receiver that   *)
(* deduplicates (notification_receiver.py).                                *)
(*                                                                         *)
(* Time is relative: an attempt's "wait" counts down to its due time, and  *)
(* anything further away than the longest delay is Beyond.                 *)
(***************************************************************************)
EXTENDS Integers, FiniteSets

CONSTANTS
    Consumers,         \* processes that run batches
    Events,            \* notification envelopes, each enqueued at most once
    Journaled,         \* the consumers that give deliver_outbox the journal
    MaxNotifications,  \* bound of the model on ids
    MaxEvents,         \* capacity of the outbox
    MaxReceipts,       \* capacity of the receiver
    Policies,          \* max_attempts of the retry policies in use
    BaseDelay,
    MaxDelay,
    Limit,             \* results of one batch
    MaxFaults,         \* bound of the model on faults and operator decisions
    Recreated,         \* TRUE: an operator may delete the outbox and keep the journal
    NoNotification

ASSUME DelayAssumption == BaseDelay \in Nat \ {0} /\ MaxDelay \in Nat /\ BaseDelay <= MaxDelay
ASSUME PolicyAssumption == Policies # {} /\ Policies \subseteq Nat \ {0}
ASSUME BoundAssumption ==
    /\ MaxNotifications \in Nat /\ MaxEvents \in Nat /\ MaxReceipts \in Nat
    /\ Limit \in Nat \ {0} /\ MaxFaults \in Nat
ASSUME ModeAssumption == Journaled \subseteq Consumers /\ Recreated \in BOOLEAN

VARIABLES
    outbox,    \* the outbox document
    stable,    \* the version of it that a power loss cannot take back
    journal,   \* the journal document
    leftover,  \* which of the two has a temporary file of an interrupted write
    run,       \* each consumer's batch
    inflight,  \* requests that the receiver may still see
    receipts,  \* the receiver's durable receipts
    allowed,   \* what the authorize callback answers
    faults,
    produced,  \* history: envelopes that have been enqueued
    acked,     \* history: notifications acknowledged to the outbox
    recorded,  \* history: notifications whose acceptance was journaled
    sends      \* history: requests per id since the last rearm

queue == <<outbox, stable, produced>>
environment == <<allowed, faults>>
vars == <<queue, journal, leftover, run, inflight, receipts, environment,
          acked, recorded, sends>>

Ids == 1..MaxNotifications
Notification == [id: Ids, event: Events]
Beyond == MaxDelay + 1
Waits == 0..Beyond
States == {"pending", "sending", "accepted", "terminal"}
Entry == [event: Events, state: States, attempts: Nat, wait: Waits]
Replies == {"none", "accepted", "retryable", "permanent"}
Results == {"none", "batch", "crashed", "FORBIDDEN", "NOTIFICATION_DELIVERY_CONFLICT",
            "RECOVERY_REQUIRED", "UNKNOWN_NOTIFICATION"}
Run == [pc: {"idle", "reconcile", "next", "wait", "ack", "forget"},
        todo: SUBSET Notification, current: Notification \union {NoNotification},
        policy: Policies, count: Nat, reply: Replies, result: Results]

IdleRun == [pc |-> "idle", todo |-> {}, current |-> NoNotification,
            policy |-> CHOOSE p \in Policies : TRUE, count |-> 0, reply |-> "none",
            result |-> "none"]

Init ==
    /\ outbox = [next |-> 1, events |-> {}]
    /\ stable = outbox
    /\ journal = [highWater |-> 0, entries |-> << >>]
    /\ leftover = {}
    /\ run = [c \in Consumers |-> IdleRun]
    /\ inflight = {} /\ receipts = {}
    /\ allowed = TRUE /\ faults = 0
    /\ produced = {} /\ acked = {} /\ recorded = {}
    /\ sends = [i \in Ids |-> 0]

-----------------------------------------------------------------------------
Entries == journal.entries
Known(i) == i \in DOMAIN Entries
With(i, entry) == [j \in DOMAIN Entries \union {i} |-> IF j = i THEN entry ELSE Entries[j]]
Without(i) == [j \in DOMAIN Entries \ {i} |-> Entries[j]]

\* A journal write replaces the file and syncs the directory it shares with the
\* outbox; an outbox write replaces the file only.
WriteJournal_Unsynced(document) == journal' = document /\ UNCHANGED stable
WriteJournal(document) == journal' = document /\ stable' = outbox
WriteOutbox(document) == outbox' = document /\ UNCHANGED stable

Delay_Uncapped(attempts) == BaseDelay * 2 ^ (attempts - 1)
Delay(attempts) ==
    LET delay == BaseDelay * 2 ^ (attempts - 1)
    IN IF delay \in 1..MaxDelay THEN delay ELSE MaxDelay

\* Due at its time, or at once when a clock rollback put it out of reach.
Due(entry) == entry.wait \in {0, Beyond}

First(ns) == CHOOSE n \in ns : \A m \in ns : n.id <= m.id
Larger(a, b) == IF a < b THEN b ELSE a

Put(c, r) == run' = [run EXCEPT ![c] = r]
End(c, result) == Put(c, [IdleRun EXCEPT !.result = result])
LockFree == \A c \in Journaled : run[c].pc = "idle"

\* Crashes, power losses, revocations, clock rollbacks and operator decisions.
Fault == faults < MaxFaults /\ faults' = faults + 1

-----------------------------------------------------------------------------
(* The outbox's producers and the operator.                                *)

Enqueue(e) ==
    /\ e \notin produced /\ "outbox" \notin leftover
    /\ Cardinality(outbox.events) < MaxEvents /\ outbox.next <= MaxNotifications
    /\ WriteOutbox([next |-> outbox.next + 1,
                    events |-> outbox.events \union {[id |-> outbox.next, event |-> e]}])
    /\ produced' = produced \union {e}
    /\ UNCHANGED <<journal, leftover, run, inflight, receipts, environment, acked, recorded, sends>>

\* One terminal event gets a fresh attempt budget.
Rearm(i) ==
    /\ Fault /\ LockFree /\ "journal" \notin leftover
    /\ Known(i) /\ Entries[i].state = "terminal"
    /\ WriteJournal([journal EXCEPT !.entries =
                       With(i, [Entries[i] EXCEPT !.state = "pending", !.attempts = 0, !.wait = 0])])
    /\ sends' = [sends EXCEPT ![i] = 0]
    /\ UNCHANGED <<outbox, produced, leftover, run, inflight, receipts, allowed, acked, recorded>>

\* Whoever inspected an interrupted write removes its temporary file.
RemoveLeftover(file) ==
    /\ file \in leftover /\ leftover' = leftover \ {file}
    /\ UNCHANGED <<queue, journal, run, inflight, receipts, environment, acked, recorded, sends>>

\* The outbox is deleted: its ids restart, its journal stays.
RecreateOutbox ==
    /\ Fault /\ Recreated /\ outbox.next > 1
    /\ \A c \in Consumers : run[c].pc = "idle"
    /\ outbox' = [next |-> 1, events |-> {}] /\ stable' = outbox'
    /\ UNCHANGED <<produced, journal, leftover, run, inflight, receipts, allowed, acked, recorded, sends>>

-----------------------------------------------------------------------------
(* A journaled batch.  The journal's lock is held from Open to the end.     *)

\* The queue is read after the lock is taken.
Open(c) ==
    /\ c \in Journaled /\ LockFree /\ allowed
    /\ \/ "journal" \in leftover /\ run[c].result # "RECOVERY_REQUIRED" /\ End(c, "RECOVERY_REQUIRED")
       \/ /\ "journal" \notin leftover
          /\ \E p \in Policies :
               Put(c, [IdleRun EXCEPT !.pc = "reconcile", !.todo = outbox.events, !.policy = p])
    /\ UNCHANGED <<queue, journal, leftover, inflight, receipts, environment, acked, recorded, sends>>

\* A notification without an entry was delivered before, or differs from the
\* attempt in the journal.
Conflict(ns) ==
    \E n \in ns : IF Known(n.id) THEN Entries[n.id].event # n.event
                  ELSE n.id <= journal.highWater

\* An interrupted attempt counts; a lowered policy ends what exceeds it.
Exhausted(attempts, policy) == attempts >= policy
Reconciled_Resend(entry, policy, wait) ==
    IF entry.state \in {"sending", "pending"} /\ Exhausted(entry.attempts, policy)
    THEN [entry EXCEPT !.state = "terminal", !.wait = 0]
    ELSE IF entry.state \in {"sending", "accepted"}
    THEN [entry EXCEPT !.state = "pending", !.wait = wait] ELSE entry
Reconciled(entry, policy, wait) ==
    IF entry.state \in {"sending", "pending"} /\ Exhausted(entry.attempts, policy)
    THEN [entry EXCEPT !.state = "terminal", !.wait = 0]
    ELSE IF entry.state = "sending" THEN [entry EXCEPT !.state = "pending", !.wait = wait]
    ELSE entry

Reconcile(c) ==
    /\ run[c].pc = "reconcile"
    /\ \/ /\ Conflict(run[c].todo)
          /\ End(c, "NOTIFICATION_DELIVERY_CONFLICT") /\ UNCHANGED <<journal, stable>>
       \/ /\ ~Conflict(run[c].todo)
          /\ \E elapsed \in 0..MaxDelay :
               LET Wait(entry) == Larger(0, Delay(entry.attempts) - elapsed)
                   entries == [i \in DOMAIN Entries \intersect {n.id : n \in run[c].todo} |->
                                 Reconciled(Entries[i], run[c].policy, Wait(Entries[i]))]
               IN IF entries = Entries THEN UNCHANGED <<journal, stable>>
                  ELSE WriteJournal([journal EXCEPT !.entries = entries])
          /\ Put(c, [run[c] EXCEPT !.pc = "next"])
    /\ UNCHANGED <<outbox, produced, leftover, inflight, receipts, environment, acked, recorded, sends>>

Ready_HeadOfLine(c) ==
    {n \in run[c].todo :
       /\ n = First(run[c].todo)
       /\ Known(n.id) => \/ Entries[n.id].state = "accepted"
                         \/ Entries[n.id].state = "pending" /\ Due(Entries[n.id])}
Ready(c) ==
    {n \in run[c].todo :
       Known(n.id) => \/ Entries[n.id].state = "accepted"
                      \/ Entries[n.id].state = "pending" /\ Due(Entries[n.id])}
BatchOver(c) == run[c].count = Limit \/ Ready(c) = {}
Later(c, n) == {m \in run[c].todo : m.id > n.id}

EndBatch(c) ==
    /\ c \in Journaled /\ run[c].pc = "next" /\ BatchOver(c)
    /\ End(c, "batch")
    /\ UNCHANGED <<queue, journal, leftover, inflight, receipts, environment, acked, recorded, sends>>

\* Acceptance is in the journal: acknowledge, never send.
RecoverAck(c) ==
    /\ c \in Journaled /\ run[c].pc = "next" /\ ~BatchOver(c)
    /\ LET n == First(Ready(c))
       IN /\ Known(n.id) /\ Entries[n.id].state = "accepted"
          /\ Put(c, [run[c] EXCEPT !.pc = "ack", !.todo = Later(c, n), !.current = n])
    /\ UNCHANGED <<queue, journal, leftover, inflight, receipts, environment, acked, recorded, sends>>

\* The attempt is counted durably before its request leaves the process.
Begin(c) ==
    /\ c \in Journaled /\ run[c].pc = "next" /\ ~BatchOver(c)
    /\ LET n == First(Ready(c))
           attempts == IF Known(n.id) THEN Entries[n.id].attempts + 1 ELSE 1
       IN /\ Known(n.id) => Entries[n.id].state # "accepted"
          /\ \/ /\ ~allowed /\ End(c, "FORBIDDEN")
                /\ UNCHANGED <<journal, stable, inflight, sends>>
             \/ /\ allowed
                /\ WriteJournal([journal EXCEPT !.entries =
                     With(n.id, [event |-> n.event, state |-> "sending", attempts |-> attempts,
                                 wait |-> 0])])
                /\ inflight' = inflight \union {n}
                /\ sends' = [sends EXCEPT ![n.id] = @ + 1]
                /\ Put(c, [run[c] EXCEPT !.pc = "wait", !.todo = Later(c, n), !.current = n,
                                         !.reply = "none"])
    /\ UNCHANGED <<outbox, produced, leftover, receipts, environment, acked, recorded>>

\* What one exchange can end with: the receiver's answer, a transport error at
\* any time, or a response (or payload) that is not acceptable at all.
Outcomes_Hopeful(c) == {"accepted", "permanent"}
Outcomes(c) == {"retryable", "permanent"} \union ({run[c].reply} \ {"none"})

\* The outcome is journaled before anything else happens.
Record(c) ==
    /\ c \in Journaled /\ run[c].pc = "wait"
    /\ \E outcome \in Outcomes(c) :
         LET n == run[c].current
             entry == Entries[n.id]
             next == [run[c] EXCEPT !.pc = "next", !.count = @ + 1]
         IN \/ /\ outcome = "accepted"
               /\ WriteJournal([highWater |-> Larger(journal.highWater, n.id),
                                entries |-> With(n.id, [entry EXCEPT !.state = "accepted"])])
               /\ recorded' = recorded \union {n}
               /\ Put(c, [run[c] EXCEPT !.pc = "ack"])
            \/ /\ outcome = "retryable" /\ entry.attempts < run[c].policy
               /\ WriteJournal([journal EXCEPT !.entries =
                    With(n.id, [entry EXCEPT !.state = "pending", !.wait = Delay(entry.attempts)])])
               /\ Put(c, next) /\ UNCHANGED recorded
            \/ /\ outcome = "retryable" => entry.attempts >= run[c].policy
               /\ outcome # "accepted"
               /\ WriteJournal([journal EXCEPT !.entries =
                    With(n.id, [entry EXCEPT !.state = "terminal"])])
               /\ Put(c, next) /\ UNCHANGED recorded
    /\ UNCHANGED <<outbox, produced, leftover, inflight, receipts, environment, acked, sends>>

\* Permission is asked again before the event leaves the outbox.
Ack(c) ==
    LET n == run[c].current
    IN /\ run[c].pc = "ack"
       /\ \/ ~allowed /\ End(c, "FORBIDDEN") /\ UNCHANGED <<outbox, stable, acked>>
          \/ /\ allowed /\ n.id \notin {m.id : m \in outbox.events}
             /\ End(c, "UNKNOWN_NOTIFICATION") /\ UNCHANGED <<outbox, stable, acked>>
          \/ /\ allowed /\ n.id \in {m.id : m \in outbox.events} /\ "outbox" \in leftover
             /\ End(c, "RECOVERY_REQUIRED") /\ UNCHANGED <<outbox, stable, acked>>
          \/ /\ allowed /\ n.id \in {m.id : m \in outbox.events} /\ "outbox" \notin leftover
             /\ WriteOutbox([outbox EXCEPT !.events = {m \in @ : m.id # n.id}])
             /\ acked' = acked \union {m \in outbox.events : m.id = n.id}
             /\ Put(c, IF c \in Journaled THEN [run[c] EXCEPT !.pc = "forget"]
                       ELSE [run[c] EXCEPT !.pc = "next", !.count = @ + 1])
       /\ UNCHANGED <<produced, journal, leftover, inflight, receipts, environment, recorded, sends>>

Forget(c) ==
    /\ run[c].pc = "forget"
    /\ WriteJournal([journal EXCEPT !.entries = Without(run[c].current.id)])
    /\ Put(c, [run[c] EXCEPT !.pc = "next", !.count = @ + 1])
    /\ UNCHANGED <<outbox, produced, leftover, inflight, receipts, environment, acked, recorded, sends>>

-----------------------------------------------------------------------------
(* A batch without a journal: every selected event is attempted once.      *)

OpenDirect(c) ==
    /\ c \notin Journaled /\ run[c].pc = "idle"
    /\ Put(c, [IdleRun EXCEPT !.pc = "next", !.todo = outbox.events])
    /\ UNCHANGED <<queue, journal, leftover, inflight, receipts, environment, acked, recorded, sends>>

SendDirect(c) ==
    /\ c \notin Journaled /\ run[c].pc = "next"
    /\ \/ /\ run[c].todo = {} \/ run[c].count = Limit
          /\ End(c, "batch") /\ UNCHANGED inflight
       \/ /\ run[c].todo # {} /\ run[c].count < Limit
          /\ LET n == First(run[c].todo)
             IN \/ ~allowed /\ End(c, "FORBIDDEN") /\ UNCHANGED inflight
                \/ /\ allowed /\ inflight' = inflight \union {n}
                   /\ Put(c, [run[c] EXCEPT !.pc = "wait", !.todo = Later(c, n), !.current = n,
                                            !.reply = "none"])
    /\ UNCHANGED <<queue, journal, leftover, receipts, environment, acked, recorded, sends>>

RespondDirect(c) ==
    /\ c \notin Journaled /\ run[c].pc = "wait"
    /\ \E outcome \in Outcomes(c) :
         Put(c, IF outcome = "accepted" THEN [run[c] EXCEPT !.pc = "ack"]
                ELSE [run[c] EXCEPT !.pc = "next", !.count = @ + 1])
    /\ UNCHANGED <<queue, journal, leftover, inflight, receipts, environment, acked, recorded, sends>>

-----------------------------------------------------------------------------
(* The receiver.                                                           *)

\* The sender that still waits for n gets the answer.
Answer(n, reply) ==
    run' = [c \in Consumers |->
              IF run[c].pc = "wait" /\ run[c].current = n
              THEN [run[c] EXCEPT !.reply = reply] ELSE run[c]]

\* One transaction per request; an uncertain commit is reported as unavailable.
SameKey(n) == {m \in receipts : m.id = n.id}
Receive(n) ==
    /\ n \in inflight /\ inflight' = inflight \ {n}
    /\ \/ SameKey(n) = {n} /\ Answer(n, "accepted") /\ UNCHANGED receipts
       \/ SameKey(n) \notin {{}, {n}} /\ Answer(n, "permanent") /\ UNCHANGED receipts
       \/ /\ SameKey(n) = {} /\ Cardinality(receipts) < MaxReceipts
          /\ receipts' = receipts \union {n}
          /\ Answer(n, "accepted") \/ Answer(n, "retryable")
       \/ Answer(n, "retryable") /\ UNCHANGED receipts
    /\ UNCHANGED <<queue, journal, leftover, environment, acked, recorded, sends>>

-----------------------------------------------------------------------------
(* Faults and the clock.                                                   *)

\* The file whose write a consumer may be in the middle of.
Writing(c) ==
    IF run[c].pc = "ack" THEN {"outbox"}
    ELSE IF c \in Journaled /\ run[c].pc # "idle" THEN {"journal"} ELSE {}

\* A consumer dies, or one of its writes fails; so may a producer's.
Crash(c) ==
    /\ Fault /\ run[c].pc # "idle" /\ End(c, "crashed")
    /\ \E files \in SUBSET Writing(c) : leftover' = leftover \union files
    /\ UNCHANGED <<queue, journal, inflight, receipts, allowed, acked, recorded, sends>>

CrashEnqueue ==
    /\ Fault /\ leftover' = leftover \union {"outbox"}
    /\ UNCHANGED <<queue, journal, run, inflight, receipts, allowed, acked, recorded, sends>>

\* Directory updates that were not synced may be taken back.
PowerLoss ==
    /\ Fault
    /\ run' = [c \in Consumers |-> IF run[c].pc = "idle" THEN run[c]
                                   ELSE [IdleRun EXCEPT !.result = "crashed"]]
    /\ \E files \in SUBSET UNION {Writing(c) : c \in Consumers} : leftover' = leftover \union files
    /\ outbox' \in {outbox, stable} /\ stable' = outbox'
    /\ UNCHANGED <<produced, journal, inflight, receipts, allowed, acked, recorded, sends>>

SetAllowed(permission) ==
    /\ allowed # permission /\ allowed' = permission
    /\ IF permission THEN UNCHANGED faults ELSE Fault
    /\ UNCHANGED <<queue, journal, leftover, run, inflight, receipts, acked, recorded, sends>>

Pending(i) == Entries[i].state = "pending"
ClockMoves(waits) ==
    /\ journal' = [journal EXCEPT !.entries =
                     [i \in DOMAIN Entries |-> [Entries[i] EXCEPT !.wait = waits[i]]]]
    /\ UNCHANGED <<queue, leftover, run, inflight, receipts, allowed, acked, recorded, sends>>

\* One unit of time: what is beyond reach may come back into reach.
Aged(wait) == IF wait = Beyond THEN {Beyond, MaxDelay} ELSE {Larger(0, wait - 1)}
Tick ==
    /\ \E i \in DOMAIN Entries : Pending(i) /\ Entries[i].wait > 0
    /\ \E waits \in [DOMAIN Entries -> Waits] :
         /\ \A i \in DOMAIN Entries : waits[i] \in Aged(Entries[i].wait)
         /\ ClockMoves(waits)
    /\ UNCHANGED faults

\* The clock is set back: every due time moves away.
Rollback ==
    /\ Fault
    /\ \E waits \in [DOMAIN Entries -> Waits] :
         /\ \A i \in DOMAIN Entries :
              IF Pending(i) THEN waits[i] >= Entries[i].wait ELSE waits[i] = Entries[i].wait
         /\ ClockMoves(waits)

-----------------------------------------------------------------------------
Batch(c) ==
    \/ Reconcile(c) \/ EndBatch(c) \/ RecoverAck(c) \/ Begin(c) \/ Record(c) \/ Ack(c)
    \/ Forget(c) \/ SendDirect(c) \/ RespondDirect(c)

Next ==
    \/ \E e \in Events : Enqueue(e)
    \/ \E i \in Ids : Rearm(i)
    \/ \E file \in {"outbox", "journal"} : RemoveLeftover(file)
    \/ \E c \in Consumers : Open(c) \/ OpenDirect(c) \/ Batch(c) \/ Crash(c)
    \/ \E n \in Notification : Receive(n)
    \/ RecreateOutbox \/ CrashEnqueue \/ PowerLoss \/ Tick \/ Rollback
    \/ \E permission \in BOOLEAN : SetAllowed(permission)

Spec == Init /\ [][Next]_vars

\* A started batch runs on (every exchange has a socket timeout), time passes.
Running == \A c \in Consumers : WF_vars(Batch(c))

\* The foreground host runs batch after batch, permission is restored and
\* interrupted writes are cleaned up.
Hosting ==
    /\ Running /\ WF_vars(Tick)
    /\ \A c \in Journaled : WF_vars(Open(c))
    /\ WF_vars(\E permission \in {TRUE} : SetAllowed(permission))
    /\ \A file \in {"outbox", "journal"} : WF_vars(RemoveLeftover(file))
HostedSpec == Spec /\ Hosting

-----------------------------------------------------------------------------
\* Nothing is lost by acknowledging: whatever left the outbox has a durable
\* receipt of exactly this envelope at the receiver.
AckedWasAccepted == acked \subseteq receipts

\* Once acceptance is in the journal the notification is never sent again,
\* whatever crash, lost acknowledgment or power loss follows.
NeverResent ==
    \A c \in Journaled : run[c].pc = "wait" => run[c].current \notin recorded

\* The refusal to present a delivered id again never hits a queue that only
\* this journal's consumers have used.
NoFalseConflict ==
    \A c \in Consumers : run[c].result # "NOTIFICATION_DELIVERY_CONFLICT"

\* Interrupted attempts count and a lowered policy never grants extra ones: no
\* run sends an event beyond its own budget; and no delay exceeds the policy's
\* maximum, unless the clock was set back.
BudgetKept ==
    /\ \A c \in Journaled :
         run[c].pc = "wait" => sends[run[c].current.id] <= run[c].policy
    /\ \A i \in DOMAIN Entries : Entries[i].wait \in Waits

\* Under a host that keeps running, every notification is delivered and
\* acknowledged, or becomes terminal for the operator to decide.
EventSettles ==
    \A n \in Notification :
      n \in outbox.events ~>
        \/ n \notin outbox.events
        \/ Known(n.id) /\ Entries[n.id].state = "terminal"
=============================================================================
