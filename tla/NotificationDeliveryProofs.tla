---------------------- MODULE NotificationDeliveryProofs ----------------------
(* Proofs about NotificationDelivery for every value of its constants.       *)
EXTENDS NotificationDelivery, WellFoundedInduction, TLAPS

USE DelayAssumption, PolicyAssumption, BoundAssumption, ModeAssumption

-----------------------------------------------------------------------------
(* The inductive invariant of every use, the misuses included.              *)

Busy == {"wait", "ack", "forget"}
Working == {"next"} \union Busy

\* Each clause of the types below speaks of one variable.
QueueType(document) ==
    /\ document \in [next : Nat \ {0}, events : SUBSET Notification]
    /\ \A n \in document.events : n.id < document.next
    /\ \A m, n \in document.events : m.id = n.id => m = n
JournalType(document) ==
    /\ document = [highWater |-> document.highWater, entries |-> document.entries]
    /\ document.highWater \in Nat
    /\ DOMAIN document.entries \subseteq Ids
    /\ document.entries \in [DOMAIN document.entries -> Entry]
    /\ \A i \in DOMAIN document.entries :
         document.entries[i].state = "sending" => document.entries[i].attempts > 0
TypeOK ==
    /\ QueueType(outbox) /\ QueueType(stable)
    /\ JournalType(journal)
    /\ leftover \subseteq {"outbox", "journal"}
    /\ run \in [Consumers -> Run]
    /\ inflight \subseteq Notification /\ receipts \subseteq Notification
    /\ allowed \in BOOLEAN /\ faults \in Nat
    /\ produced \subseteq Events
    /\ acked \subseteq Notification /\ recorded \subseteq Notification
    /\ sends \in [Ids -> Nat]

\* The journal's lock has one holder, and only journaled batches go through its states.
Exclusive ==
    /\ \A c, d \in Journaled : run[c].pc # "idle" /\ run[d].pc # "idle" => c = d
    /\ \A c \in Consumers : run[c].pc \in {"reconcile", "forget"} => c \in Journaled

\* A batch holds notifications of this outbox, in the order of their ids.
OfThis(queued, n) == n.id < queued.next /\ \A m \in queued.events : m.id = n.id => m = n
BatchOK(queued, kept, r) ==
    /\ r.pc # "idle" => \A n \in r.todo : OfThis(queued, n)
    /\ r.pc \in Busy =>
         /\ r.current \in Notification /\ OfThis(queued, r.current)
         /\ \A n \in r.todo : n.id > r.current.id
    /\ r.pc = "wait" /\ r.reply = "accepted" => r.current \in kept
    /\ r.pc \in {"ack", "forget"} => r.current \in kept

\* What reconcile has found of the notifications that are left to do.
Fits(j, n) ==
    /\ n.id \in DOMAIN j.entries => j.entries[n.id].event = n.event
    /\ n.id \notin DOMAIN j.entries => n.id > j.highWater
Sending(j, n) ==
    /\ n.id \in DOMAIN j.entries
    /\ j.entries[n.id].event = n.event /\ j.entries[n.id].state = "sending"
JournaledOK(j, r) ==
    /\ r.pc \in Working => \A n \in r.todo : Fits(j, n)
    /\ r.pc = "wait" => Sending(j, r.current)

\* Acceptance in the journal is true and final.
AcceptedOK(j, kept) ==
    \A i \in DOMAIN j.entries :
      j.entries[i].state = "accepted" => [id |-> i, event |-> j.entries[i].event] \in kept
RecordedOK(j, ns) ==
    \A n \in ns :
      /\ n.id <= j.highWater
      /\ n.id \in DOMAIN j.entries => j.entries[n.id].state = "accepted"

Inv ==
    /\ TypeOK /\ Exclusive
    /\ \A c \in Consumers : BatchOK(outbox, receipts, run[c])
    /\ \A c \in Journaled : JournaledOK(journal, run[c])
    /\ AcceptedOK(journal, receipts) /\ RecordedOK(journal, recorded)
    /\ AckedWasAccepted

-----------------------------------------------------------------------------
(* The operators that the actions are made of.                              *)

\* The order of the natural numbers is well-founded, so a batch has a first one.
Less == {p \in Nat \X Nat : p[1] < p[2]}
LEMMA LessIsWellFounded == IsWellFoundedOn(Less, Nat)
  BY NatLessThanWellFounded DEF Less, OpToRel

\* The first of some notifications is one of them and has the least id.
LEMMA FirstIsLeast ==
    ASSUME NEW ns, ns \subseteq Notification, ns # {}
    PROVE  First(ns) \in ns /\ \A m \in ns : First(ns).id <= m.id
  <1> DEFINE ids == {n.id : n \in ns}
  <1>1. ids \subseteq Nat /\ ids # {}
    BY DEF Notification, Ids
  <1>2. PICK i \in ids : \A j \in ids : <<j, i>> \notin Less
    <2> HIDE DEF ids
    <2> QED BY <1>1, WFMin, LessIsWellFounded
  <1>3. ASSUME NEW j \in ids PROVE i <= j
    <2>1. i \in Nat /\ j \in Nat
      BY <1>1
    <2>2. j < i => <<j, i>> \in Less
      BY <2>1 DEF Less
    <2> QED BY <1>2, <2>1, <2>2
  <1>4. PICK n \in ns : n.id = i
    BY <1>2
  <1>5. \A m \in ns : n.id <= m.id
    BY <1>3, <1>4
  <1> QED BY <1>4, <1>5 DEF First

\* A delay never exceeds the policy's maximum.
LEMMA DelayIsCapped ==
    ASSUME NEW n \in Nat \ {0}
    PROVE  Delay(n) \in 0..MaxDelay /\ \A e \in 0..MaxDelay : Larger(0, Delay(n) - e) \in Waits
  <1>1. Delay(n) \in 0..MaxDelay
    BY DEF Delay
  <1> QED BY <1>1 DEF Larger, Waits, Beyond

\* Reconciling changes neither the envelope nor the count of an attempt, ends
\* every interrupted attempt and leaves no attempt beyond the budget pending.
LEMMA ReconciledFacts ==
    ASSUME NEW e \in Entry, NEW p \in Nat, NEW w, e.state = "sending" => w \in Waits
    PROVE  /\ Reconciled(e, p, w) \in Entry
           /\ Reconciled(e, p, w).event = e.event
           /\ Reconciled(e, p, w).attempts = e.attempts
           /\ Reconciled(e, p, w).state # "sending"
           /\ Reconciled(e, p, w).state = "accepted" <=> e.state = "accepted"
           /\ Reconciled(e, p, w).state = "pending" => e.attempts < p
           /\ e.state = "terminal" => Reconciled(e, p, w).state = "terminal"
  <1>1. 0 \in Waits
    BY DEF Waits, Beyond
  <1>2. CASE e.state \in {"sending", "pending"} /\ Exhausted(e.attempts, p)
    <2>1. Reconciled(e, p, w) = [e EXCEPT !.state = "terminal", !.wait = 0]
      BY <1>2 DEF Reconciled
    <2> QED BY <1>1, <1>2, <2>1 DEF Entry, States
  <1>3. CASE e.state = "sending" /\ ~Exhausted(e.attempts, p)
    <2>1. Reconciled(e, p, w) = [e EXCEPT !.state = "pending", !.wait = w]
      BY <1>3 DEF Reconciled
    <2>2. ~(e.attempts >= p) /\ e.attempts \in Nat
      BY <1>3 DEF Exhausted, Entry
    <2>3. e.attempts < p
      BY <2>2
    <2> HIDE DEF Waits
    <2> QED BY <1>3, <2>1, <2>3 DEF Entry, States
  <1>4. CASE e.state # "sending" /\ ~(e.state = "pending" /\ Exhausted(e.attempts, p))
    <2>1. Reconciled(e, p, w) = e
      BY <1>4 DEF Reconciled
    <2> QED BY <1>4, <2>1 DEF Entry, States, Exhausted
  <1> QED BY <1>2, <1>3, <1>4

LEMMA IdleIsRun ==
    /\ IdleRun \in Run
    /\ \A x \in Results :
         /\ [IdleRun EXCEPT !.result = x] \in Run
         /\ [IdleRun EXCEPT !.result = x].pc = "idle"
         /\ [IdleRun EXCEPT !.result = x].result = x
  <1>1. PICK q \in Policies : q = CHOOSE p \in Policies : TRUE
    OBVIOUS
  <1>2. IdleRun = [pc |-> "idle", todo |-> {}, current |-> NoNotification, policy |-> q,
                   count |-> 0, reply |-> "none", result |-> "none"]
    BY <1>1 DEF IdleRun
  <1> QED BY <1>2 DEF Run, Replies, Results

LEMMA PutRun ==
    ASSUME NEW c \in Consumers, NEW r \in Run, run \in [Consumers -> Run], Put(c, r)
    PROVE  /\ run' \in [Consumers -> Run] /\ run'[c] = r
           /\ \A d \in Consumers : d # c => run'[d] = run[d]
  BY DEF Put

LEMMA EndRun ==
    ASSUME NEW c \in Consumers, NEW x \in Results, run \in [Consumers -> Run], End(c, x)
    PROVE  /\ run' \in [Consumers -> Run] /\ run'[c].pc = "idle" /\ run'[c].result = x
           /\ \A d \in Consumers : d # c => run'[d] = run[d]
  <1>1. PICK r \in Run : r = [IdleRun EXCEPT !.result = x] /\ r.pc = "idle" /\ r.result = x
    BY IdleIsRun
  <1>2. Put(c, r)
    BY <1>1 DEF End
  <1> QED BY <1>1, <1>2, PutRun

\* A journal in which one entry is written, or from which one is dropped.
Sets(j, k, i, e) ==
    /\ DOMAIN k.entries = DOMAIN j.entries \union {i}
    /\ k.entries[i] = e
    /\ \A x \in DOMAIN j.entries : x # i => k.entries[x] = j.entries[x]
Drops(j, k, i) ==
    /\ DOMAIN k.entries = DOMAIN j.entries \ {i}
    /\ \A x \in DOMAIN k.entries : k.entries[x] = j.entries[x]

LEMMA WithSets ==
    ASSUME JournalType(journal), NEW i \in Ids, NEW e \in Entry,
           e.state = "sending" => e.attempts > 0,
           NEW k, NEW h \in Nat, k = [highWater |-> h, entries |-> With(i, e)]
    PROVE  JournalType(k) /\ Sets(journal, k, i, e) /\ k.highWater = h
  <1>1. DOMAIN k.entries = DOMAIN Entries \union {i} /\ k.highWater = h
    BY DEF With
  <1>2. \A x \in DOMAIN k.entries : k.entries[x] = IF x = i THEN e ELSE Entries[x]
    BY DEF With
  <1>3. k.entries \in [DOMAIN k.entries -> Entry]
    BY <1>1, <1>2 DEF With, JournalType, Entries
  <1>4. DOMAIN k.entries \subseteq Ids
    BY <1>1 DEF JournalType, Entries
  <1>5. k = [highWater |-> k.highWater, entries |-> k.entries]
    OBVIOUS
  <1> QED BY <1>1, <1>2, <1>3, <1>4, <1>5 DEF JournalType, Sets, Entries

LEMMA WithoutDrops ==
    ASSUME JournalType(journal), NEW i \in Ids,
           NEW k, k = [highWater |-> journal.highWater, entries |-> Without(i)]
    PROVE  JournalType(k) /\ Drops(journal, k, i) /\ k.highWater = journal.highWater
  <1>1. DOMAIN k.entries = DOMAIN Entries \ {i} /\ k.highWater = journal.highWater
    BY DEF Without
  <1>2. \A x \in DOMAIN k.entries : k.entries[x] = Entries[x]
    BY DEF Without
  <1>3. k.entries \in [DOMAIN k.entries -> Entry]
    BY <1>1, <1>2 DEF Without, JournalType, Entries
  <1>4. DOMAIN k.entries \subseteq Ids
    BY <1>1 DEF JournalType, Entries
  <1> QED BY <1>1, <1>2, <1>3, <1>4 DEF JournalType, Drops, Entries

LEMMA EntriesChanged ==
    ASSUME JournalType(journal), NEW f
    PROVE  [journal EXCEPT !.entries = f] = [highWater |-> journal.highWater, entries |-> f]
  <1>1. PICK h, e : journal = [highWater |-> h, entries |-> e]
    BY DEF JournalType
  <1> QED BY <1>1

-----------------------------------------------------------------------------
(* Every step keeps the invariant.                                          *)

\* The outbox may lose notifications and get new ones under a batch.
Follows(q, k) ==
    /\ q.next <= k.next
    /\ \A m \in k.events : m \in q.events \/ m.id >= q.next

LEMMA BatchFrame ==
    ASSUME NEW q, NEW k, QueueType(q), QueueType(k), Follows(q, k),
           NEW s, NEW t, s \subseteq t, NEW r \in Run, BatchOK(q, s, r)
    PROVE  BatchOK(k, t, r)
  <1>1. q.next \in Nat /\ k.next \in Nat /\ k.events \subseteq Notification
    BY DEF QueueType
  <1>2. ASSUME NEW n \in Notification, OfThis(q, n) PROVE OfThis(k, n)
    BY <1>1, <1>2 DEF OfThis, Follows, Notification, Ids
  <1>3. r.todo \subseteq Notification
    BY DEF Run
  <1> QED BY <1>2, <1>3 DEF BatchOK, Busy

\* What a step that moves one batch has to show.
LEMMA OneRun ==
    ASSUME Inv, TypeOK', NEW c \in Consumers,
           \A d \in Consumers : d # c => run'[d] = run[d],
           Follows(outbox, outbox'), receipts \subseteq receipts',
           BatchOK(outbox', receipts', run'[c]),
           run'[c].pc \in {"reconcile", "forget"} => c \in Journaled,
           c \in Journaled /\ run'[c].pc # "idle" => run[c].pc # "idle" \/ LockFree,
           journal' = journal \/ (c \in Journaled /\ run[c].pc # "idle"),
           c \in Journaled => JournaledOK(journal', run'[c]),
           AcceptedOK(journal', receipts'), RecordedOK(journal', recorded'), AckedWasAccepted'
    PROVE  Inv'
  <1>1. QueueType(outbox) /\ QueueType(outbox') /\ run \in [Consumers -> Run]
    BY DEF Inv, TypeOK
  <1>2. Exclusive'
    <2>1. ASSUME NEW a \in Journaled, NEW b \in Journaled, run'[a].pc # "idle", run'[b].pc # "idle"
          PROVE  a = b
      <3>1. a \in Consumers /\ b \in Consumers
        OBVIOUS
      <3> QED BY <2>1, <3>1 DEF Inv, Exclusive, LockFree
    <2> QED BY <2>1 DEF Inv, Exclusive
  <1>3. ASSUME NEW d \in Consumers PROVE BatchOK(outbox', receipts', run'[d])
    <2>1. CASE d = c
      BY <2>1
    <2>2. CASE d # c
      <3>1. BatchOK(outbox, receipts, run[d]) /\ run[d] \in Run /\ run'[d] = run[d]
        BY <1>1, <2>2 DEF Inv
      <3> QED BY <1>1, <3>1, BatchFrame
    <2> QED BY <2>1, <2>2
  <1>4. ASSUME NEW d \in Journaled PROVE JournaledOK(journal', run'[d])
    <2>1. CASE d = c
      BY <2>1
    <2>2. CASE d # c /\ journal' = journal
      BY <2>2 DEF Inv
    <2>3. CASE d # c /\ c \in Journaled /\ run[c].pc # "idle"
      <3>1. run'[d].pc = "idle"
        BY <2>3 DEF Inv, Exclusive
      <3> QED BY <3>1 DEF JournaledOK, Working, Busy
    <2> QED BY <2>1, <2>2, <2>3
  <1> QED BY <1>2, <1>3, <1>4 DEF Inv

\* A batch that ends, crashes or goes on without changing anything else.
LEMMA MovesAlone ==
    ASSUME Inv, NEW c \in Consumers, run' \in [Consumers -> Run],
           \A d \in Consumers : d # c => run'[d] = run[d],
           UNCHANGED <<queue, journal, receipts, acked, recorded, sends>>,
           leftover' \subseteq {"outbox", "journal"}, inflight' \subseteq Notification,
           allowed' \in BOOLEAN, faults' \in Nat,
           BatchOK(outbox, receipts, run'[c]),
           run'[c].pc \in {"reconcile", "forget"} => c \in Journaled,
           c \in Journaled /\ run'[c].pc # "idle" => run[c].pc # "idle" \/ LockFree,
           c \in Journaled => JournaledOK(journal, run'[c])
    PROVE  Inv'
  <1>1. TypeOK'
    BY DEF Inv, TypeOK, queue
  <1>2. Follows(outbox, outbox')
    BY DEF Follows, queue, Inv, TypeOK, QueueType
  <1>3. AcceptedOK(journal', receipts') /\ RecordedOK(journal', recorded') /\ AckedWasAccepted'
    BY DEF Inv, AckedWasAccepted
  <1>4. outbox' = outbox /\ journal' = journal /\ receipts' = receipts
    BY DEF queue
  <1> QED BY <1>1, <1>2, <1>3, <1>4, OneRun

LEMMA IdleIsOK ==
    ASSUME NEW r, r.pc = "idle", NEW q, NEW s, NEW j
    PROVE  BatchOK(q, s, r) /\ JournaledOK(j, r)
  BY DEF BatchOK, JournaledOK, Working, Busy

LEMMA Ends ==
    ASSUME Inv, NEW c \in Consumers, NEW x \in Results, End(c, x),
           UNCHANGED <<queue, journal, receipts, acked, recorded, sends>>,
           leftover' \subseteq {"outbox", "journal"}, inflight' \subseteq Notification,
           allowed' \in BOOLEAN, faults' \in Nat
    PROVE  Inv'
  <1>1. run \in [Consumers -> Run]
    BY DEF Inv, TypeOK
  <1>2. /\ run' \in [Consumers -> Run] /\ run'[c].pc = "idle"
        /\ \A d \in Consumers : d # c => run'[d] = run[d]
    BY <1>1, EndRun
  <1>3. BatchOK(outbox, receipts, run'[c]) /\ JournaledOK(journal, run'[c])
    BY <1>2, IdleIsOK
  <1>4. run'[c].pc \notin {"reconcile", "forget"}
    BY <1>2
  <1> QED BY <1>2, <1>3, <1>4, MovesAlone

LEMMA InitInv == Init => Inv
  <1> SUFFICES ASSUME Init PROVE Inv
    OBVIOUS
  <1>1. \A c \in Consumers : run[c] = IdleRun /\ run[c].pc = "idle"
    BY DEF Init, IdleRun
  <1>2. run \in [Consumers -> Run]
    BY IdleIsRun DEF Init
  <1>3. DOMAIN journal.entries = {} /\ journal.entries \in [{} -> Entry]
    BY DEF Init
  <1>4. JournalType(journal)
    BY <1>3 DEF Init, JournalType
  <1>5. QueueType(outbox) /\ QueueType(stable)
    BY DEF Init, QueueType
  <1>6. TypeOK
    BY <1>2, <1>4, <1>5 DEF Init, TypeOK
  <1>7. Exclusive
    BY <1>1 DEF Exclusive
  <1>8. AcceptedOK(journal, receipts) /\ RecordedOK(journal, recorded) /\ AckedWasAccepted
    BY <1>3 DEF Init, AcceptedOK, RecordedOK, AckedWasAccepted
  <1> QED BY <1>1, <1>6, <1>7, <1>8, IdleIsOK DEF Inv

\* Steps of the environment that move no batch and touch neither document.
LEMMA Unmoved ==
    ASSUME Inv, UNCHANGED <<queue, journal, run, receipts, acked, recorded, sends>>,
           leftover' \subseteq {"outbox", "journal"}, inflight' \subseteq Notification,
           allowed' \in BOOLEAN, faults' \in Nat
    PROVE  Inv'
  <1>1. TypeOK'
    BY DEF Inv, TypeOK, queue
  <1> QED BY <1>1 DEF Inv, Exclusive, AckedWasAccepted, queue

LEMMA EnqueueStep ==
    ASSUME Inv, NEW e \in Events, Enqueue(e)
    PROVE  Inv'
  <1>1. /\ outbox.next \in Ids /\ stable' = stable /\ produced' = produced \union {e}
        /\ outbox' = [next |-> outbox.next + 1,
                      events |-> outbox.events \union {[id |-> outbox.next, event |-> e]}]
        /\ UNCHANGED <<journal, leftover, run, inflight, receipts, environment, acked,
                       recorded, sends>>
    BY DEF Enqueue, WriteOutbox, Inv, TypeOK, QueueType, Ids
  <1>2. QueueType(outbox) /\ outbox.next \in Nat \ {0}
    BY DEF Inv, TypeOK, QueueType
  <1>3. PICK new \in Notification : new = [id |-> outbox.next, event |-> e] /\ new.id = outbox.next
    <2>1. [id |-> outbox.next, event |-> e] \in Notification
      BY <1>1 DEF Notification
    <2> QED BY <2>1
  <1>4. outbox'.next = outbox.next + 1 /\ outbox'.events = outbox.events \union {new}
    BY <1>1, <1>3
  <1>5. QueueType(outbox')
    <2>1. \A n \in outbox.events : n.id < outbox.next /\ n.id \in Nat
      BY <1>2 DEF QueueType, Notification, Ids
    <2>2. \A n \in outbox'.events : n.id < outbox'.next
      BY <1>2, <1>3, <1>4, <2>1
    <2>3. \A m, n \in outbox'.events : m.id = n.id => m = n
      BY <1>2, <1>3, <1>4, <2>1 DEF QueueType
    <2>4. outbox' \in [next : Nat \ {0}, events : SUBSET Notification]
      BY <1>1, <1>2, <1>3 DEF QueueType
    <2> QED BY <2>2, <2>3, <2>4 DEF QueueType
  <1>6. TypeOK'
    BY <1>1, <1>5 DEF Inv, TypeOK, environment
  <1>7. Follows(outbox, outbox')
    BY <1>2, <1>3, <1>4 DEF Follows
  <1>8. ASSUME NEW c \in Consumers PROVE BatchOK(outbox', receipts', run'[c])
    <2>1. run[c] \in Run /\ BatchOK(outbox, receipts, run[c]) /\ run' = run /\ receipts' = receipts
      BY <1>1 DEF Inv, TypeOK
    <2> QED BY <1>2, <1>5, <1>7, <2>1, BatchFrame
  <1> QED BY <1>1, <1>6, <1>8 DEF Inv, Exclusive, AckedWasAccepted

LEMMA RearmStep ==
    ASSUME Inv, NEW i \in Ids, Rearm(i)
    PROVE  Inv'
  <1>1. PICK e : e = [Entries[i] EXCEPT !.state = "pending", !.attempts = 0, !.wait = 0]
    OBVIOUS
  <1>2. JournalType(journal) /\ Known(i) /\ Entries[i] \in Entry /\ Entries[i].state = "terminal"
    BY DEF Inv, TypeOK, JournalType, Rearm, Known, Entries
  <1>3. e \in Entry /\ e.event = Entries[i].event /\ e.state = "pending"
    <2>1. 0 \in Waits
      BY DEF Waits, Beyond
    <2> QED BY <1>1, <1>2, <2>1 DEF Entry, States
  <1>4. /\ journal' = [highWater |-> journal.highWater, entries |-> With(i, e)]
        /\ stable' = outbox
        /\ UNCHANGED <<outbox, produced, leftover, run, inflight, receipts, allowed, acked, recorded>>
        /\ faults' \in Nat /\ LockFree /\ sends' \in [Ids -> Nat]
    BY <1>1, <1>2, EntriesChanged DEF Rearm, WriteJournal, Fault, Inv, TypeOK
  <1>5. JournalType(journal') /\ Sets(journal, journal', i, e) /\ journal'.highWater = journal.highWater
    <2>1. journal.highWater \in Nat
      BY <1>2 DEF JournalType
    <2> QED BY <1>2, <1>3, <1>4, <2>1, WithSets
  <1>6. TypeOK'
    BY <1>4, <1>5 DEF Inv, TypeOK
  <1>7. ASSUME NEW c \in Journaled PROVE JournaledOK(journal', run'[c])
    BY <1>4, IdleIsOK DEF LockFree
  <1>8. AcceptedOK(journal', receipts') /\ RecordedOK(journal', recorded')
    BY <1>2, <1>3, <1>4, <1>5 DEF Inv, AcceptedOK, RecordedOK, Sets, Known, Entries
  <1> QED BY <1>4, <1>6, <1>7, <1>8 DEF Inv, Exclusive, AckedWasAccepted

\* The clock moves due times and nothing else.
Retimed(j, k) ==
    /\ k.highWater = j.highWater /\ DOMAIN k.entries = DOMAIN j.entries
    /\ \A i \in DOMAIN j.entries :
         /\ k.entries[i].event = j.entries[i].event /\ k.entries[i].state = j.entries[i].state
         /\ k.entries[i].attempts = j.entries[i].attempts

LEMMA ClockRetimes ==
    ASSUME JournalType(journal), NEW waits \in [DOMAIN Entries -> Waits], ClockMoves(waits)
    PROVE  /\ JournalType(journal') /\ Retimed(journal, journal')
           /\ UNCHANGED <<queue, leftover, run, inflight, receipts, allowed, acked, recorded, sends>>
  <1>1. /\ journal'.highWater = journal.highWater
        /\ journal'.entries = [i \in DOMAIN Entries |-> [Entries[i] EXCEPT !.wait = waits[i]]]
        /\ journal' = [highWater |-> journal'.highWater, entries |-> journal'.entries]
    BY EntriesChanged DEF ClockMoves
  <1>2. \A i \in DOMAIN Entries :
          /\ [Entries[i] EXCEPT !.wait = waits[i]] \in Entry
          /\ [Entries[i] EXCEPT !.wait = waits[i]].event = Entries[i].event
          /\ [Entries[i] EXCEPT !.wait = waits[i]].state = Entries[i].state
          /\ [Entries[i] EXCEPT !.wait = waits[i]].attempts = Entries[i].attempts
    BY DEF JournalType, Entries, Entry
  <1>3. DOMAIN journal'.entries = DOMAIN Entries /\ journal'.entries \in [DOMAIN Entries -> Entry]
    BY <1>1, <1>2
  <1>4. Retimed(journal, journal')
    BY <1>1, <1>2 DEF Retimed, Entries
  <1>5. JournalType(journal')
    BY <1>1, <1>3, <1>4 DEF JournalType, Retimed, Entries
  <1> QED BY <1>4, <1>5 DEF ClockMoves

LEMMA ClockStep ==
    ASSUME Inv, Tick \/ Rollback
    PROVE  Inv'
  <1>1. PICK waits \in [DOMAIN Entries -> Waits] : ClockMoves(waits)
    BY DEF Tick, Rollback
  <1>2. JournalType(journal)
    BY DEF Inv, TypeOK
  <1>3. /\ JournalType(journal') /\ Retimed(journal, journal')
        /\ UNCHANGED <<queue, leftover, run, inflight, receipts, allowed, acked, recorded, sends>>
    BY <1>1, <1>2, ClockRetimes
  <1>4. faults' \in Nat
    BY DEF Tick, Rollback, Fault, Inv, TypeOK
  <1>5. TypeOK'
    BY <1>3, <1>4 DEF Inv, TypeOK, queue
  <1>6. ASSUME NEW c \in Journaled PROVE JournaledOK(journal', run'[c])
    BY <1>3 DEF Inv, JournaledOK, Fits, Sending, Retimed
  <1>7. AcceptedOK(journal', receipts') /\ RecordedOK(journal', recorded')
    BY <1>3 DEF Inv, AcceptedOK, RecordedOK, Retimed
  <1> QED BY <1>3, <1>5, <1>6, <1>7 DEF Inv, Exclusive, AckedWasAccepted, queue

\* All batches idle: after a power loss, and when the outbox is deleted.
LEMMA AllIdle ==
    ASSUME Inv, TypeOK', \A c \in Consumers : run'[c].pc = "idle",
           UNCHANGED <<journal, receipts, acked, recorded>>
    PROVE  Inv'
  <1>1. ASSUME NEW c \in Consumers
        PROVE  BatchOK(outbox', receipts', run'[c]) /\ JournaledOK(journal', run'[c])
    BY IdleIsOK
  <1> QED BY <1>1 DEF Inv, Exclusive, AckedWasAccepted

LEMMA RecreateStep ==
    ASSUME Inv, RecreateOutbox
    PROVE  Inv'
  <1>1. QueueType(outbox') /\ stable' = outbox'
    BY DEF RecreateOutbox, QueueType
  <1>2. /\ UNCHANGED <<produced, journal, leftover, run, inflight, receipts, allowed, acked, recorded, sends>>
        /\ faults' \in Nat /\ \A c \in Consumers : run'[c].pc = "idle"
    BY DEF RecreateOutbox, Fault, Inv, TypeOK
  <1>3. TypeOK'
    BY <1>1, <1>2 DEF Inv, TypeOK
  <1> QED BY <1>2, <1>3, AllIdle

LEMMA PowerLossStep ==
    ASSUME Inv, PowerLoss
    PROVE  Inv'
  <1>1. PICK idle \in Run : idle = [IdleRun EXCEPT !.result = "crashed"] /\ idle.pc = "idle"
    BY IdleIsRun DEF Results
  <1>2. run' = [c \in Consumers |-> IF run[c].pc = "idle" THEN run[c] ELSE idle]
    BY <1>1 DEF PowerLoss
  <1>3. run' \in [Consumers -> Run] /\ \A c \in Consumers : run'[c].pc = "idle"
    BY <1>1, <1>2 DEF Inv, TypeOK
  <1>4. QueueType(outbox') /\ QueueType(stable')
    BY DEF PowerLoss, Inv, TypeOK
  <1>5. leftover' \subseteq {"outbox", "journal"}
    BY DEF PowerLoss, Writing, Inv, TypeOK
  <1>6. UNCHANGED <<produced, journal, inflight, receipts, allowed, acked, recorded, sends>> /\ faults' \in Nat
    BY DEF PowerLoss, Fault, Inv, TypeOK
  <1>7. TypeOK'
    BY <1>3, <1>4, <1>5, <1>6 DEF Inv, TypeOK
  <1> QED BY <1>3, <1>6, <1>7, AllIdle

LEMMA CrashStep ==
    ASSUME Inv, NEW c \in Consumers, Crash(c)
    PROVE  Inv'
  <1>1. leftover' \subseteq {"outbox", "journal"}
    BY DEF Crash, Writing, Inv, TypeOK
  <1>2. UNCHANGED <<queue, journal, inflight, receipts, allowed, acked, recorded, sends>> /\ faults' \in Nat
    BY DEF Crash, Fault, Inv, TypeOK
  <1>3. End(c, "crashed") /\ "crashed" \in Results
    BY DEF Crash, Results
  <1>4. inflight' \subseteq Notification /\ allowed' \in BOOLEAN
    BY <1>2 DEF Inv, TypeOK
  <1> QED BY <1>1, <1>2, <1>3, <1>4, Ends

\* The receiver's answer is "accepted" only with a receipt of this very notification.
LEMMA AnswerKeeps ==
    ASSUME NEW n \in Notification, NEW reply \in Replies, run \in [Consumers -> Run],
           Answer(n, reply), NEW s, reply = "accepted" => n \in s, NEW q, NEW j
    PROVE  /\ run' \in [Consumers -> Run]
           /\ \A c \in Consumers :
                /\ run'[c].pc = run[c].pc
                /\ BatchOK(q, s, run[c]) => BatchOK(q, s, run'[c])
                /\ JournaledOK(j, run[c]) => JournaledOK(j, run'[c])
  <1>1. ASSUME NEW c \in Consumers, run[c].pc = "wait", run[c].current = n
        PROVE  /\ run'[c] \in Run /\ run'[c].pc = run[c].pc
               /\ BatchOK(q, s, run[c]) => BatchOK(q, s, run'[c])
               /\ JournaledOK(j, run[c]) => JournaledOK(j, run'[c])
    <2>1. run'[c] = [run[c] EXCEPT !.reply = reply] /\ run[c] \in Run
      BY <1>1 DEF Answer
    <2>2. PICK r \in Run : r = run[c]
      BY <2>1
    <2>3. PICK t : t = run'[c]
      OBVIOUS
    <2>4. t \in Run /\ t.pc = r.pc /\ t.todo = r.todo /\ t.current = r.current /\ t.reply = reply
      BY <2>1, <2>2, <2>3 DEF Run
    <2>5. r.pc = "wait" /\ r.current = n
      BY <1>1, <2>2
    <2>6. BatchOK(q, s, r) => BatchOK(q, s, t)
      BY <2>4, <2>5 DEF BatchOK
    <2>7. JournaledOK(j, r) => JournaledOK(j, t)
      BY <2>4, <2>5 DEF JournaledOK
    <2> QED BY <2>2, <2>3, <2>4, <2>6, <2>7
  <1>2. ASSUME NEW c \in Consumers, ~(run[c].pc = "wait" /\ run[c].current = n)
        PROVE  run'[c] = run[c]
    BY <1>2 DEF Answer
  <1>3. \A c \in Consumers : run'[c] \in Run
    BY <1>1, <1>2
  <1>4. run' \in [Consumers -> Run]
    BY <1>3 DEF Answer
  <1> QED BY <1>1, <1>2, <1>4

LEMMA ReceiveStep ==
    ASSUME Inv, NEW n \in Notification, Receive(n)
    PROVE  Inv'
  <1>1. /\ UNCHANGED <<queue, journal, leftover, environment, acked, recorded, sends>>
        /\ inflight' \subseteq inflight
        /\ receipts \subseteq receipts' /\ receipts' \subseteq receipts \union {n}
    BY DEF Receive
  <1>2. PICK reply \in Replies : Answer(n, reply) /\ (reply = "accepted" => n \in receipts')
    <2>1. CASE SameKey(n) = {n} /\ Answer(n, "accepted") /\ UNCHANGED receipts
      BY <2>1 DEF SameKey, Replies
    <2>2. CASE Answer(n, "permanent") \/ Answer(n, "retryable")
      BY <2>2 DEF Replies
    <2>3. CASE receipts' = receipts \union {n} /\ Answer(n, "accepted")
      BY <2>3 DEF Replies
    <2> QED BY <2>1, <2>2, <2>3 DEF Receive
  <1>3. run \in [Consumers -> Run] /\ QueueType(outbox) /\ receipts \subseteq Notification
    BY DEF Inv, TypeOK
  <1>4. /\ run' \in [Consumers -> Run]
        /\ \A c \in Consumers :
             /\ run'[c].pc = run[c].pc
             /\ BatchOK(outbox, receipts', run[c]) => BatchOK(outbox, receipts', run'[c])
             /\ JournaledOK(journal, run[c]) => JournaledOK(journal, run'[c])
    BY <1>2, <1>3, AnswerKeeps
  <1>5. TypeOK'
    BY <1>1, <1>4 DEF Inv, TypeOK, queue, environment
  <1>6. ASSUME NEW c \in Consumers PROVE BatchOK(outbox', receipts', run'[c])
    <2>1. Follows(outbox, outbox)
      BY <1>3 DEF Follows, QueueType
    <2>2. run[c] \in Run /\ BatchOK(outbox, receipts, run[c])
      BY <1>3 DEF Inv
    <2>3. BatchOK(outbox, receipts', run[c])
      BY <1>1, <1>3, <2>1, <2>2, BatchFrame
    <2> QED BY <1>1, <1>4, <2>3 DEF queue
  <1>7. ASSUME NEW c \in Journaled PROVE JournaledOK(journal', run'[c])
    BY <1>1, <1>4 DEF Inv
  <1>8. Exclusive'
    BY <1>4 DEF Inv, Exclusive
  <1>9. AcceptedOK(journal', receipts') /\ RecordedOK(journal', recorded') /\ AckedWasAccepted'
    BY <1>1 DEF Inv, AcceptedOK, AckedWasAccepted
  <1> QED BY <1>5, <1>6, <1>7, <1>8, <1>9 DEF Inv

LEMMA OpenStep ==
    ASSUME Inv, NEW c \in Consumers, Open(c)
    PROVE  Inv'
  <1>1. /\ UNCHANGED <<queue, journal, leftover, inflight, receipts, environment, acked, recorded, sends>>
        /\ c \in Journaled /\ LockFree
    BY DEF Open
  <1>2. /\ leftover' \subseteq {"outbox", "journal"} /\ inflight' \subseteq Notification
        /\ allowed' \in BOOLEAN /\ faults' \in Nat /\ run \in [Consumers -> Run]
    BY <1>1 DEF Inv, TypeOK, environment
  <1>3. CASE End(c, "RECOVERY_REQUIRED")
    <2>1. "RECOVERY_REQUIRED" \in Results
      BY DEF Results
    <2> QED BY <1>1, <1>2, <1>3, <2>1, Ends
  <1>4. ASSUME NEW p \in Policies,
               Put(c, [IdleRun EXCEPT !.pc = "reconcile", !.todo = outbox.events, !.policy = p])
        PROVE  Inv'
    <2>1. PICK r : r = [IdleRun EXCEPT !.pc = "reconcile", !.todo = outbox.events, !.policy = p]
      OBVIOUS
    <2>2. outbox.events \subseteq Notification /\ \A n \in outbox.events : OfThis(outbox, n)
      BY DEF Inv, TypeOK, QueueType, OfThis
    <2>3. r \in Run /\ r.pc = "reconcile" /\ r.todo = outbox.events
      BY <2>1, <2>2, IdleIsRun DEF IdleRun, Run
    <2>4. BatchOK(outbox, receipts, r) /\ JournaledOK(journal, r)
      BY <2>2, <2>3 DEF BatchOK, JournaledOK, Busy, Working
    <2>5. run' \in [Consumers -> Run] /\ run'[c] = r /\ \A d \in Consumers : d # c => run'[d] = run[d]
      BY <1>2, <1>4, <2>1, <2>3, PutRun
    <2> QED BY <1>1, <1>2, <2>4, <2>5, MovesAlone
  <1> QED BY <1>3, <1>4 DEF Open

\* What a batch selects comes from what it has left to do.
LEMMA Selected ==
    ASSUME Inv, NEW c \in Consumers, NEW ns, ns \subseteq run[c].todo, ns # {}
    PROVE  /\ First(ns) \in ns /\ First(ns) \in Notification
           /\ \A m \in ns : First(ns).id <= m.id
  <1>1. run[c].todo \subseteq Notification
    BY DEF Inv, TypeOK, Run
  <1> QED BY <1>1, FirstIsLeast

\* Going on with one selected notification.
LEMMA TakesOne ==
    ASSUME Inv, NEW c \in Consumers, run[c].pc # "idle", NEW n \in run[c].todo, NEW r,
           r.pc \in Busy, r.todo = Later(c, n), r.current = n,
           r.pc = "wait" /\ r.reply = "accepted" => n \in receipts,
           r.pc \in {"ack", "forget"} => n \in receipts
    PROVE  BatchOK(outbox, receipts, r)
  <1>1. BatchOK(outbox, receipts, run[c]) /\ run[c].todo \subseteq Notification
    BY DEF Inv, TypeOK, Run
  <1>2. OfThis(outbox, n) /\ n \in Notification
    BY <1>1 DEF BatchOK
  <1>3. \A m \in r.todo : OfThis(outbox, m) /\ m.id > n.id
    BY <1>1 DEF BatchOK, Later
  <1> QED BY <1>2, <1>3 DEF BatchOK, Busy

LEMMA RecoverAckStep ==
    ASSUME Inv, NEW c \in Consumers, RecoverAck(c)
    PROVE  Inv'
  <1>1. PICK n : n = First(Ready(c))
    OBVIOUS
  <1>2. PICK r : r = [run[c] EXCEPT !.pc = "ack", !.todo = Later(c, n), !.current = n]
    OBVIOUS
  <1>3. /\ c \in Journaled /\ run[c].pc = "next" /\ ~BatchOver(c)
        /\ Known(n.id) /\ Entries[n.id].state = "accepted" /\ Put(c, r)
        /\ UNCHANGED <<queue, journal, leftover, inflight, receipts, environment, acked, recorded, sends>>
    BY <1>1, <1>2 DEF RecoverAck
  <1>4. n \in run[c].todo /\ n \in Notification
    BY <1>1, <1>3, Selected DEF Ready, BatchOver
  <1>5. run[c] \in Run /\ run \in [Consumers -> Run]
    BY DEF Inv, TypeOK
  <1>6. r \in Run /\ r.pc = "ack" /\ r.todo = Later(c, n) /\ r.current = n
    BY <1>2, <1>4, <1>5 DEF Run, Later
  <1>7. n \in receipts
    <2>1. Entries[n.id].event = n.event
      BY <1>3, <1>4 DEF Inv, JournaledOK, Working, Fits, Known, Entries
    <2>2. n = [id |-> n.id, event |-> n.event]
      BY <1>4 DEF Notification
    <2> QED BY <1>3, <2>1, <2>2 DEF Inv, AcceptedOK, Known, Entries
  <1>8. BatchOK(outbox, receipts, r)
    BY <1>3, <1>4, <1>6, <1>7, TakesOne DEF Busy
  <1>9. JournaledOK(journal, r)
    BY <1>3, <1>6 DEF Inv, JournaledOK, Working, Busy, Later
  <1>10. /\ leftover' \subseteq {"outbox", "journal"} /\ inflight' \subseteq Notification
         /\ allowed' \in BOOLEAN /\ faults' \in Nat
    BY <1>3 DEF Inv, TypeOK, environment
  <1>11. run' \in [Consumers -> Run] /\ run'[c] = r /\ \A d \in Consumers : d # c => run'[d] = run[d]
    BY <1>3, <1>5, <1>6, PutRun
  <1> QED BY <1>3, <1>6, <1>8, <1>9, <1>10, <1>11, MovesAlone

LEMMA EndBatchStep ==
    ASSUME Inv, NEW c \in Consumers, EndBatch(c)
    PROVE  Inv'
  <1>1. End(c, "batch") /\ "batch" \in Results
    BY DEF EndBatch, Results
  <1>2. /\ UNCHANGED <<queue, journal, leftover, inflight, receipts, environment, acked, recorded, sends>>
        /\ leftover' \subseteq {"outbox", "journal"} /\ inflight' \subseteq Notification
        /\ allowed' \in BOOLEAN /\ faults' \in Nat
    BY DEF EndBatch, Inv, TypeOK, environment
  <1> QED BY <1>1, <1>2, Ends

LEMMA OpenDirectStep ==
    ASSUME Inv, NEW c \in Consumers, OpenDirect(c)
    PROVE  Inv'
  <1>1. PICK r : r = [IdleRun EXCEPT !.pc = "next", !.todo = outbox.events]
    OBVIOUS
  <1>2. c \notin Journaled /\ Put(c, r)
        /\ UNCHANGED <<queue, journal, leftover, inflight, receipts, environment, acked, recorded, sends>>
    BY <1>1 DEF OpenDirect
  <1>3. outbox.events \subseteq Notification /\ \A n \in outbox.events : OfThis(outbox, n)
    BY DEF Inv, TypeOK, QueueType, OfThis
  <1>4. r \in Run /\ r.pc = "next" /\ r.todo = outbox.events
    BY <1>1, <1>3, IdleIsRun DEF IdleRun, Run
  <1>5. BatchOK(outbox, receipts, r)
    BY <1>3, <1>4 DEF BatchOK, Busy
  <1>6. /\ leftover' \subseteq {"outbox", "journal"} /\ inflight' \subseteq Notification
        /\ allowed' \in BOOLEAN /\ faults' \in Nat /\ run \in [Consumers -> Run]
    BY <1>2 DEF Inv, TypeOK, environment
  <1>7. run' \in [Consumers -> Run] /\ run'[c] = r /\ \A d \in Consumers : d # c => run'[d] = run[d]
    BY <1>2, <1>4, <1>6, PutRun
  <1> QED BY <1>2, <1>4, <1>5, <1>6, <1>7, MovesAlone

LEMMA SendDirectStep ==
    ASSUME Inv, NEW c \in Consumers, SendDirect(c)
    PROVE  Inv'
  <1>1. /\ UNCHANGED <<queue, journal, leftover, receipts, environment, acked, recorded, sends>>
        /\ c \notin Journaled /\ run[c].pc = "next"
    BY DEF SendDirect
  <1>2. /\ leftover' \subseteq {"outbox", "journal"} /\ allowed' \in BOOLEAN /\ faults' \in Nat
        /\ run \in [Consumers -> Run] /\ run[c] \in Run /\ inflight \subseteq Notification
    BY <1>1 DEF Inv, TypeOK, environment
  <1>3. CASE (End(c, "batch") \/ End(c, "FORBIDDEN")) /\ UNCHANGED inflight
    <2>1. {"batch", "FORBIDDEN"} \subseteq Results /\ inflight' \subseteq Notification
      BY <1>2, <1>3 DEF Results
    <2> QED BY <1>1, <1>2, <1>3, <2>1, Ends
  <1>4. ASSUME NEW n, n = First(run[c].todo), run[c].todo # {}, inflight' = inflight \union {n},
               Put(c, [run[c] EXCEPT !.pc = "wait", !.todo = Later(c, n), !.current = n,
                                     !.reply = "none"])
        PROVE  Inv'
    <2>1. PICK r : r = [run[c] EXCEPT !.pc = "wait", !.todo = Later(c, n), !.current = n,
                                      !.reply = "none"]
      OBVIOUS
    <2>2. n \in run[c].todo /\ n \in Notification
      BY <1>4, Selected
    <2>3. r \in Run /\ r.pc = "wait" /\ r.todo = Later(c, n) /\ r.current = n /\ r.reply = "none"
      BY <1>2, <2>1, <2>2 DEF Run, Later, Replies
    <2>4. BatchOK(outbox, receipts, r)
      BY <1>1, <2>2, <2>3, TakesOne DEF Busy
    <2>5. run' \in [Consumers -> Run] /\ run'[c] = r /\ \A d \in Consumers : d # c => run'[d] = run[d]
      BY <1>2, <1>4, <2>1, <2>3, PutRun
    <2>6. inflight' \subseteq Notification
      BY <1>2, <1>4, <2>2
    <2> QED BY <1>1, <1>2, <2>3, <2>4, <2>5, <2>6, MovesAlone
  <1> QED BY <1>3, <1>4 DEF SendDirect

\* The end of one attempt: the batch goes on with what it has left.
LEMMA GoesOn ==
    ASSUME Inv, NEW c \in Consumers, run[c].pc \in Busy, NEW r,
           r = [run[c] EXCEPT !.pc = "next", !.count = @ + 1]
    PROVE  /\ r \in Run /\ r.pc = "next" /\ r.todo = run[c].todo /\ r.policy = run[c].policy
           /\ BatchOK(outbox, receipts, r)
  <1>1. run[c] \in Run /\ BatchOK(outbox, receipts, run[c])
    BY DEF Inv, TypeOK
  <1>2. r \in Run /\ r.pc = "next" /\ r.todo = run[c].todo /\ r.policy = run[c].policy
    <2>1. PICK old \in Run : old = run[c]
      BY <1>1
    <2>2. r = [old EXCEPT !.pc = "next", !.count = old.count + 1] /\ old.count + 1 \in Nat
      BY <2>1 DEF Run
    <2> QED BY <2>1, <2>2 DEF Run
  <1> QED BY <1>1, <1>2 DEF BatchOK, Busy

LEMMA RespondDirectStep ==
    ASSUME Inv, NEW c \in Consumers, RespondDirect(c)
    PROVE  Inv'
  <1>1. /\ UNCHANGED <<queue, journal, leftover, inflight, receipts, environment, acked, recorded, sends>>
        /\ c \notin Journaled /\ run[c].pc = "wait"
    BY DEF RespondDirect
  <1>2. /\ leftover' \subseteq {"outbox", "journal"} /\ inflight' \subseteq Notification
        /\ allowed' \in BOOLEAN /\ faults' \in Nat
        /\ run \in [Consumers -> Run] /\ run[c] \in Run /\ BatchOK(outbox, receipts, run[c])
    BY <1>1 DEF Inv, TypeOK, environment
  <1>3. PICK r : Put(c, r) /\ \/ r = [run[c] EXCEPT !.pc = "ack"] /\ run[c].reply = "accepted"
                              \/ r = [run[c] EXCEPT !.pc = "next", !.count = @ + 1]
    BY DEF RespondDirect, Outcomes
  <1>4. r \in Run /\ r.pc \in {"ack", "next"} /\ BatchOK(outbox, receipts, r)
    <2>1. CASE r = [run[c] EXCEPT !.pc = "ack"] /\ run[c].reply = "accepted"
      <3>1. r \in Run /\ r.pc = "ack" /\ r.todo = run[c].todo /\ r.current = run[c].current
        BY <1>2, <2>1 DEF Run
      <3> QED BY <1>1, <1>2, <2>1, <3>1 DEF BatchOK, Busy
    <2>2. CASE r = [run[c] EXCEPT !.pc = "next", !.count = @ + 1]
      BY <1>1, <2>2, GoesOn DEF Busy
    <2> QED BY <1>3, <2>1, <2>2
  <1>5. run' \in [Consumers -> Run] /\ run'[c] = r /\ \A d \in Consumers : d # c => run'[d] = run[d]
    BY <1>2, <1>3, <1>4, PutRun
  <1> QED BY <1>1, <1>2, <1>4, <1>5, MovesAlone

\* The rest of a batch does not see the entry of the notification before it.
LEMMA RestFits ==
    ASSUME NEW j, NEW k, JournalType(j), JournalType(k), NEW i \in Ids, k.highWater \in {j.highWater, i},
           \A x \in DOMAIN j.entries : x # i => x \in DOMAIN k.entries /\ k.entries[x] = j.entries[x],
           \A x \in DOMAIN k.entries : x # i => x \in DOMAIN j.entries,
           NEW m \in Notification, m.id > i, Fits(j, m)
    PROVE  Fits(k, m)
  BY DEF Fits, JournalType, Notification, Ids

\* The step that one journaled batch makes together with a write of the journal.
LEMMA WritesJournal ==
    ASSUME Inv, NEW c \in Journaled, run[c].pc # "idle", NEW r \in Run, Put(c, r),
           UNCHANGED <<outbox, produced, leftover, receipts, environment, acked>>,
           stable' \in {stable, outbox}, inflight' \subseteq Notification, sends' \in [Ids -> Nat],
           recorded' \subseteq Notification,
           JournalType(journal'), BatchOK(outbox, receipts, r), JournaledOK(journal', r),
           AcceptedOK(journal', receipts), RecordedOK(journal', recorded')
    PROVE  Inv'
  <1>1. run \in [Consumers -> Run] /\ c \in Consumers
    BY DEF Inv, TypeOK
  <1>2. run' \in [Consumers -> Run] /\ run'[c] = r /\ \A d \in Consumers : d # c => run'[d] = run[d]
    BY <1>1, PutRun
  <1>3. TypeOK'
    BY <1>2 DEF Inv, TypeOK, environment
  <1>4. Follows(outbox, outbox')
    BY DEF Follows, Inv, TypeOK, QueueType
  <1>5. AckedWasAccepted'
    BY DEF Inv, AckedWasAccepted
  <1>6. outbox' = outbox /\ receipts' = receipts
    OBVIOUS
  <1> QED BY <1>1, <1>2, <1>3, <1>4, <1>5, <1>6, OneRun

\* What an attempt writes before its request leaves.
Attempt(n) ==
    [event |-> n.event, state |-> "sending",
     attempts |-> IF Known(n.id) THEN Entries[n.id].attempts + 1 ELSE 1, wait |-> 0]
Selection(c) == First(Ready(c))
Attempting(c) ==
    [run[c] EXCEPT !.pc = "wait", !.todo = Later(c, Selection(c)), !.current = Selection(c),
                   !.reply = "none"]
Attempts(c) ==
    LET n == Selection(c)
    IN /\ WriteJournal([journal EXCEPT !.entries = With(n.id, Attempt(n))])
       /\ inflight' = inflight \union {n} /\ sends' = [sends EXCEPT ![n.id] = @ + 1]
       /\ Put(c, Attempting(c))

LEMMA BeginSplits ==
    ASSUME NEW c, Begin(c)
    PROVE  /\ c \in Journaled /\ run[c].pc = "next" /\ ~BatchOver(c)
           /\ Known(Selection(c).id) => Entries[Selection(c).id].state # "accepted"
           /\ UNCHANGED <<outbox, produced, leftover, receipts, environment, acked, recorded>>
           /\ \/ End(c, "FORBIDDEN") /\ UNCHANGED <<journal, stable, inflight, sends>>
              \/ Attempts(c)
  BY DEF Begin, Selection, Attempts, Attempt, Attempting

LEMMA AttemptIsEntry ==
    ASSUME Inv, NEW n \in Notification
    PROVE  /\ Attempt(n) \in Entry /\ Attempt(n).attempts > 0
           /\ Attempt(n).event = n.event /\ Attempt(n).state = "sending"
           /\ Attempt(n).attempts = IF Known(n.id) THEN Entries[n.id].attempts + 1 ELSE 1
  <1>1. 0 \in Waits
    BY DEF Waits, Beyond
  <1>2. PICK a : a = IF Known(n.id) THEN Entries[n.id].attempts + 1 ELSE 1
    OBVIOUS
  <1>3. Known(n.id) => Entries[n.id].attempts \in Nat
    BY DEF Inv, TypeOK, JournalType, Entry, Known, Entries
  <1>4. a \in Nat \ {0}
    BY <1>2, <1>3
  <1>5. Attempt(n) = [event |-> n.event, state |-> "sending", attempts |-> a, wait |-> 0]
    BY <1>2 DEF Attempt
  <1> QED BY <1>1, <1>2, <1>4, <1>5 DEF Entry, States, Notification

\* What the step of an attempt has done, in terms of documents and records.
LEMMA AttemptFacts ==
    ASSUME Inv, NEW c \in Journaled, run[c].pc = "next", ~BatchOver(c), Attempts(c),
           NEW n, n = Selection(c), NEW r, r = Attempting(c)
    PROVE  /\ n \in run[c].todo /\ n \in Notification /\ n \in Ready(c)
           /\ \A m \in Ready(c) : n.id <= m.id
           /\ r \in Run /\ r.pc = "wait" /\ r.todo = Later(c, n) /\ r.current = n /\ r.reply = "none"
           /\ r.policy = run[c].policy
           /\ JournalType(journal') /\ journal'.highWater = journal.highWater
           /\ Sets(journal, journal', n.id, Attempt(n))
  <1>1. c \in Consumers /\ Ready(c) \subseteq run[c].todo /\ Ready(c) # {}
    BY DEF Ready, BatchOver
  <1>2. /\ n \in run[c].todo /\ n \in Notification /\ n \in Ready(c)
        /\ \A m \in Ready(c) : n.id <= m.id
    BY <1>1, Selected DEF Selection
  <1>3. run[c] \in Run /\ JournalType(journal)
    BY <1>1 DEF Inv, TypeOK
  <1>4. r = [run[c] EXCEPT !.pc = "wait", !.todo = Later(c, n), !.current = n, !.reply = "none"]
    BY DEF Attempting
  <1>5. /\ r \in Run /\ r.pc = "wait" /\ r.todo = Later(c, n) /\ r.current = n /\ r.reply = "none"
        /\ r.policy = run[c].policy
    <2>1. PICK old \in Run : old = run[c]
      BY <1>3
    <2>2. PICK todo : todo = Later(c, n)
      OBVIOUS
    <2>3. todo \subseteq Notification
      BY <1>3, <2>2 DEF Later, Run
    <2>4. r = [old EXCEPT !.pc = "wait", !.todo = todo, !.current = n, !.reply = "none"]
      BY <1>4, <2>1, <2>2
    <2> QED BY <1>2, <2>1, <2>2, <2>3, <2>4 DEF Run, Replies
  <1>6. journal' = [highWater |-> journal.highWater, entries |-> With(n.id, Attempt(n))]
    BY <1>3, EntriesChanged DEF Attempts, WriteJournal
  <1>7. n.id \in Ids /\ journal.highWater \in Nat
    BY <1>2, <1>3 DEF Notification, JournalType
  <1>8. Attempt(n) \in Entry /\ Attempt(n).attempts > 0
    BY <1>2, AttemptIsEntry
  <1>9. /\ JournalType(journal') /\ Sets(journal, journal', n.id, Attempt(n))
        /\ journal'.highWater = journal.highWater
    BY <1>3, <1>6, <1>7, <1>8, WithSets
  <1> QED BY <1>2, <1>5, <1>9

LEMMA BeginStep ==
    ASSUME Inv, NEW c \in Consumers, Begin(c)
    PROVE  Inv'
  <1>1. /\ c \in Journaled /\ run[c].pc = "next" /\ ~BatchOver(c)
        /\ Known(Selection(c).id) => Entries[Selection(c).id].state # "accepted"
        /\ UNCHANGED <<outbox, produced, leftover, receipts, environment, acked, recorded>>
    BY BeginSplits
  <1>2. CASE End(c, "FORBIDDEN") /\ UNCHANGED <<journal, stable, inflight, sends>>
    <2>1. "FORBIDDEN" \in Results
      BY DEF Results
    <2>2. /\ leftover' \subseteq {"outbox", "journal"} /\ inflight' \subseteq Notification
          /\ allowed' \in BOOLEAN /\ faults' \in Nat
      BY <1>1, <1>2 DEF Inv, TypeOK, environment
    <2> QED BY <1>1, <1>2, <2>1, <2>2, Ends DEF queue
  <1>3. CASE Attempts(c)
    <2>1. PICK n : n = Selection(c)
      OBVIOUS
    <2>2. PICK r : r = Attempting(c)
      OBVIOUS
    <2>3. /\ n \in run[c].todo /\ n \in Notification /\ n \in Ready(c)
          /\ r \in Run /\ r.pc = "wait" /\ r.todo = Later(c, n) /\ r.current = n /\ r.reply = "none"
          /\ JournalType(journal') /\ journal'.highWater = journal.highWater
          /\ Sets(journal, journal', n.id, Attempt(n))
      BY <1>1, <1>3, <2>1, <2>2, AttemptFacts
    <2>4. Attempt(n).event = n.event /\ Attempt(n).state = "sending"
      BY <2>3, AttemptIsEntry
    <2>5. BatchOK(outbox, receipts, r)
      BY <1>1, <2>3, TakesOne DEF Busy
    <2>6. Fits(journal, n) /\ (n.id \in DOMAIN journal.entries => journal.entries[n.id].state # "accepted")
      BY <1>1, <2>1, <2>3 DEF Inv, JournaledOK, Working, Known, Entries
    <2>7. JournaledOK(journal', r)
      <3>1. ASSUME NEW m \in r.todo PROVE Fits(journal', m)
        <4>1. m \in run[c].todo /\ m.id > n.id /\ m \in Notification
          BY <2>3 DEF Later, Inv, TypeOK, Run
        <4>2. Fits(journal, m)
          BY <1>1, <4>1 DEF Inv, JournaledOK, Working
        <4>3. JournalType(journal) /\ n.id \in Ids
          BY <2>3 DEF Inv, TypeOK, Notification
        <4> QED BY <2>3, <4>1, <4>2, <4>3, RestFits DEF Sets
      <3>2. Sending(journal', n)
        BY <2>3, <2>4 DEF Sets, Sending
      <3> QED BY <2>3, <3>1, <3>2 DEF JournaledOK
    <2>8. AcceptedOK(journal', receipts)
      BY <2>3, <2>4 DEF Inv, AcceptedOK, Sets
    <2>9. RecordedOK(journal', recorded')
      <3>1. ASSUME NEW x \in recorded, x.id \in DOMAIN journal'.entries
            PROVE  journal'.entries[x.id].state = "accepted"
        <4>1. x.id <= journal.highWater /\ (x.id \in DOMAIN journal.entries => journal.entries[x.id].state = "accepted")
          BY DEF Inv, RecordedOK
        <4>2. x.id # n.id
          <5>1. x.id \in Nat /\ n.id \in Nat /\ journal.highWater \in Nat
            BY <2>3 DEF Inv, TypeOK, JournalType, Notification, Ids
          <5> QED BY <2>6, <4>1, <5>1 DEF Fits
        <4> QED BY <2>3, <3>1, <4>1, <4>2 DEF Sets
      <3> QED BY <1>1, <2>3, <3>1 DEF Inv, RecordedOK
    <2>10. /\ inflight' \subseteq Notification /\ sends' \in [Ids -> Nat] /\ recorded' \subseteq Notification
           /\ stable' = outbox
      <3>1. n.id \in Ids
        BY <2>3 DEF Notification
      <3>2. inflight' = inflight \union {n} /\ sends' = [sends EXCEPT ![n.id] = @ + 1] /\ stable' = outbox
        BY <1>3, <2>1 DEF Attempts, WriteJournal
      <3> QED BY <1>1, <2>3, <3>1, <3>2 DEF Inv, TypeOK
    <2>11. Put(c, r)
      BY <1>3, <2>2 DEF Attempts
    <2> QED BY <1>1, <2>3, <2>5, <2>7, <2>8, <2>9, <2>10, <2>11, WritesJournal
  <1> QED BY <1>2, <1>3, BeginSplits

\* The outcome of an attempt, written over its entry.
LEMMA OutcomeFacts ==
    ASSUME Inv, NEW c \in Journaled, run[c].pc = "wait", NEW n, n = run[c].current,
           NEW e \in Entry, e.event = n.event, e.state # "sending",
           NEW h, h = Larger(journal.highWater, n.id) \/ h = journal.highWater,
           e.state = "accepted" => h = Larger(journal.highWater, n.id) /\ n \in receipts,
           journal' = [highWater |-> h, entries |-> With(n.id, e)]
    PROVE  /\ n \in Notification /\ JournalType(journal') /\ Sets(journal, journal', n.id, e)
           /\ h \in Nat /\ journal'.highWater = h
           /\ \A m \in run[c].todo : Fits(journal', m)
           /\ AcceptedOK(journal', receipts) /\ RecordedOK(journal', recorded)
           /\ e.state = "accepted" => RecordedOK(journal', recorded \union {n})
  <1>1. /\ n \in Notification /\ Sending(journal, n)
        /\ \A m \in run[c].todo : m.id > n.id /\ Fits(journal, m) /\ m \in Notification
    BY DEF Inv, TypeOK, Run, BatchOK, JournaledOK, Busy, Working
  <1>2. n.id \in Ids /\ n.id \in Nat /\ JournalType(journal) /\ journal.highWater \in Nat
    BY <1>1 DEF Notification, Ids, Inv, TypeOK, JournalType
  <1>3. h \in Nat /\ h >= journal.highWater /\ h \in {journal.highWater, n.id}
        /\ (e.state = "accepted" => h >= n.id)
    BY <1>2 DEF Larger
  <1>4. JournalType(journal') /\ Sets(journal, journal', n.id, e) /\ journal'.highWater = h
    BY <1>2, <1>3, WithSets
  <1>5. ASSUME NEW m \in run[c].todo PROVE Fits(journal', m)
    BY <1>1, <1>2, <1>3, <1>4, RestFits DEF Sets
  <1>6. AcceptedOK(journal', receipts)
    <2>1. e.state = "accepted" => [id |-> n.id, event |-> e.event] \in receipts
      BY <1>1 DEF Notification
    <2> QED BY <1>4, <2>1 DEF Inv, AcceptedOK, Sets
  <1>7. ASSUME NEW x \in recorded
        PROVE  x.id <= h /\ x.id # n.id
               /\ (x.id \in DOMAIN journal'.entries => journal'.entries[x.id].state = "accepted")
    <2>1. x.id <= journal.highWater /\ x.id \in Nat
      BY DEF Inv, TypeOK, RecordedOK, Notification, Ids
    <2>2. x.id \in DOMAIN journal.entries => journal.entries[x.id].state = "accepted"
      BY DEF Inv, RecordedOK
    <2>3. x.id # n.id
      BY <1>1, <2>2 DEF Sending
    <2> QED BY <1>2, <1>3, <1>4, <2>1, <2>2, <2>3 DEF Sets
  <1>8. RecordedOK(journal', recorded)
    BY <1>4, <1>7 DEF RecordedOK
  <1>9. e.state = "accepted" => RecordedOK(journal', recorded \union {n})
    BY <1>3, <1>4, <1>7 DEF RecordedOK, Sets
  <1> QED BY <1>1, <1>3, <1>4, <1>5, <1>6, <1>8, <1>9

\* The three ways to record an outcome.
Accepts(c, n) ==
    /\ run[c].reply = "accepted"
    /\ WriteJournal([highWater |-> Larger(journal.highWater, n.id),
                     entries |-> With(n.id, [Entries[n.id] EXCEPT !.state = "accepted"])])
    /\ recorded' = recorded \union {n}
    /\ Put(c, [run[c] EXCEPT !.pc = "ack"])
Retries(c, n) ==
    /\ Entries[n.id].attempts < run[c].policy
    /\ WriteJournal([journal EXCEPT !.entries =
         With(n.id, [Entries[n.id] EXCEPT !.state = "pending", !.wait = Delay(Entries[n.id].attempts)])])
    /\ Put(c, [run[c] EXCEPT !.pc = "next", !.count = @ + 1]) /\ UNCHANGED recorded
GivesUp(c, n) ==
    /\ WriteJournal([journal EXCEPT !.entries =
         With(n.id, [Entries[n.id] EXCEPT !.state = "terminal"])])
    /\ Put(c, [run[c] EXCEPT !.pc = "next", !.count = @ + 1]) /\ UNCHANGED recorded

LEMMA RecordSplits ==
    ASSUME NEW c, Record(c), NEW n, n = run[c].current
    PROVE  /\ c \in Journaled /\ run[c].pc = "wait"
           /\ UNCHANGED <<outbox, produced, leftover, inflight, receipts, environment, acked, sends>>
           /\ Accepts(c, n) \/ Retries(c, n) \/ GivesUp(c, n)
  BY DEF Record, Outcomes, Accepts, Retries, GivesUp

LEMMA OutcomesDiffer ==
    ASSUME Inv, NEW c \in Journaled, NEW n, Retries(c, n) \/ GivesUp(c, n)
    PROVE  ~Accepts(c, n)
  <1>1. run[c] \in Run /\ run \in [Consumers -> Run] /\ c \in Consumers
    BY DEF Inv, TypeOK
  <1>2. PICK r, s : r = [run[c] EXCEPT !.pc = "next", !.count = @ + 1] /\ s = [run[c] EXCEPT !.pc = "ack"]
    OBVIOUS
  <1>3. r.pc = "next" /\ s.pc = "ack"
    BY <1>1, <1>2 DEF Run
  <1>4. run'[c] = r
    BY <1>1, <1>2 DEF Retries, GivesUp, Put
  <1> QED BY <1>1, <1>2, <1>3, <1>4 DEF Accepts, Put

\* The entry that an outcome leaves behind.
LEMMA RecordFacts ==
    ASSUME Inv, NEW c \in Journaled, run[c].pc = "wait", NEW n, n = run[c].current,
           Accepts(c, n) \/ Retries(c, n) \/ GivesUp(c, n)
    PROVE  \E e \in Entry, h \in Nat :
             /\ e.event = n.event /\ e.state # "sending"
             /\ e.attempts = Entries[n.id].attempts
             /\ h = Larger(journal.highWater, n.id) \/ h = journal.highWater
             /\ e.state = "accepted" => h = Larger(journal.highWater, n.id) /\ n \in receipts
             /\ journal' = [highWater |-> h, entries |-> With(n.id, e)] /\ stable' = outbox
             /\ e.state = "pending" => Retries(c, n)
             /\ e.state = "accepted" <=> Accepts(c, n)
  <1>1. /\ n \in Notification /\ Sending(journal, n)
        /\ (run[c].reply = "accepted" => n \in receipts) /\ JournalType(journal)
    BY DEF Inv, TypeOK, BatchOK, JournaledOK, Busy
  <1>2. /\ n.id \in Nat /\ journal.highWater \in Nat
        /\ Larger(journal.highWater, n.id) \in Nat
    BY <1>1 DEF Notification, Ids, JournalType, Larger
  <1>3. PICK old \in Entry : old = Entries[n.id] /\ old.event = n.event /\ old.attempts \in Nat \ {0}
    <2>1. Entries[n.id] \in Entry /\ Entries[n.id].event = n.event /\ Entries[n.id].attempts > 0
      BY <1>1 DEF Sending, JournalType, Entries
    <2> QED BY <2>1 DEF Entry
  <1>4. CASE Accepts(c, n)
    <2>1. PICK e : e = [old EXCEPT !.state = "accepted"]
      OBVIOUS
    <2>2. e \in Entry /\ e.event = n.event /\ e.state = "accepted" /\ e.attempts = old.attempts
      BY <1>3, <2>1 DEF Entry, States
    <2>3. /\ journal' = [highWater |-> Larger(journal.highWater, n.id), entries |-> With(n.id, e)]
          /\ stable' = outbox /\ run[c].reply = "accepted"
      BY <1>3, <1>4, <2>1 DEF Accepts, WriteJournal
    <2> QED BY <1>1, <1>2, <1>3, <1>4, <2>2, <2>3
  <1>5. CASE Retries(c, n)
    <2>1. PICK d \in Waits : d = Delay(old.attempts)
      BY <1>3, DelayIsCapped DEF Waits, Beyond
    <2>2. PICK e : e = [old EXCEPT !.state = "pending", !.wait = d]
      OBVIOUS
    <2>3. e \in Entry /\ e.event = n.event /\ e.state = "pending" /\ e.attempts = old.attempts
      BY <1>3, <2>1, <2>2 DEF Entry, States
    <2>4. journal' = [highWater |-> journal.highWater, entries |-> With(n.id, e)] /\ stable' = outbox
      BY <1>1, <1>3, <1>5, <2>1, <2>2, EntriesChanged DEF Retries, WriteJournal
    <2>5. ~Accepts(c, n)
      BY <1>5, OutcomesDiffer
    <2> QED BY <1>2, <1>3, <1>5, <2>3, <2>4, <2>5
  <1>6. CASE GivesUp(c, n)
    <2>1. PICK e : e = [old EXCEPT !.state = "terminal"]
      OBVIOUS
    <2>2. e \in Entry /\ e.event = n.event /\ e.state = "terminal" /\ e.attempts = old.attempts
      BY <1>3, <2>1 DEF Entry, States
    <2>3. journal' = [highWater |-> journal.highWater, entries |-> With(n.id, e)] /\ stable' = outbox
      BY <1>1, <1>3, <1>6, <2>1, EntriesChanged DEF GivesUp, WriteJournal
    <2>4. ~Accepts(c, n)
      BY <1>6, OutcomesDiffer
    <2> QED BY <1>2, <1>3, <2>2, <2>3, <2>4
  <1> QED BY <1>4, <1>5, <1>6

LEMMA RecordStep ==
    ASSUME Inv, NEW c \in Consumers, Record(c)
    PROVE  Inv'
  <1>1. PICK n : n = run[c].current
    OBVIOUS
  <1>2. /\ c \in Journaled /\ run[c].pc = "wait"
        /\ UNCHANGED <<outbox, produced, leftover, inflight, receipts, environment, acked, sends>>
        /\ Accepts(c, n) \/ Retries(c, n) \/ GivesUp(c, n)
    BY <1>1, RecordSplits
  <1>3. PICK e \in Entry, h \in Nat :
             /\ e.event = n.event /\ e.state # "sending"
             /\ h = Larger(journal.highWater, n.id) \/ h = journal.highWater
             /\ e.state = "accepted" => h = Larger(journal.highWater, n.id) /\ n \in receipts
             /\ journal' = [highWater |-> h, entries |-> With(n.id, e)] /\ stable' = outbox
             /\ e.state = "accepted" <=> Accepts(c, n)
    BY <1>1, <1>2, RecordFacts
  <1>4. /\ n \in Notification /\ JournalType(journal')
        /\ \A m \in run[c].todo : Fits(journal', m)
        /\ AcceptedOK(journal', receipts) /\ RecordedOK(journal', recorded)
        /\ e.state = "accepted" => RecordedOK(journal', recorded \union {n})
    BY <1>1, <1>2, <1>3, OutcomeFacts
  <1>5. RecordedOK(journal', recorded') /\ recorded' \subseteq Notification
    BY <1>2, <1>3, <1>4 DEF Accepts, Retries, GivesUp, Inv, TypeOK
  <1>6. PICK r \in Run : Put(c, r) /\ r.pc \in {"ack", "next"} /\ r.todo = run[c].todo
                         /\ BatchOK(outbox, receipts, r)
    <2>1. CASE Accepts(c, n)
      <3>1. PICK r : r = [run[c] EXCEPT !.pc = "ack"]
        OBVIOUS
      <3>2. run[c] \in Run /\ BatchOK(outbox, receipts, run[c]) /\ run[c].reply = "accepted"
        BY <2>1 DEF Inv, TypeOK, Accepts
      <3>3. r \in Run /\ r.pc = "ack" /\ r.todo = run[c].todo /\ r.current = run[c].current
        BY <3>1, <3>2 DEF Run
      <3>4. BatchOK(outbox, receipts, r)
        BY <1>2, <3>2, <3>3 DEF BatchOK, Busy
      <3> QED BY <2>1, <3>1, <3>3, <3>4 DEF Accepts
    <2>2. CASE Retries(c, n) \/ GivesUp(c, n)
      <3>1. PICK r : r = [run[c] EXCEPT !.pc = "next", !.count = @ + 1]
        OBVIOUS
      <3>2. r \in Run /\ r.pc = "next" /\ r.todo = run[c].todo /\ BatchOK(outbox, receipts, r)
        BY <1>2, <3>1, GoesOn DEF Busy
      <3> QED BY <2>2, <3>1, <3>2 DEF Retries, GivesUp
    <2> QED BY <1>2, <2>1, <2>2
  <1>7. JournaledOK(journal', r)
    BY <1>4, <1>6 DEF JournaledOK
  <1>8. inflight' \subseteq Notification /\ sends' \in [Ids -> Nat]
    BY <1>2 DEF Inv, TypeOK
  <1> QED BY <1>2, <1>3, <1>4, <1>5, <1>6, <1>7, <1>8, WritesJournal

\* The event leaves the outbox, or the batch ends.
Acknowledges(c) ==
    /\ "outbox" \notin leftover
    /\ WriteOutbox([outbox EXCEPT !.events = {m \in @ : m.id # run[c].current.id}])
    /\ acked' = acked \union {m \in outbox.events : m.id = run[c].current.id}
    /\ Put(c, IF c \in Journaled THEN [run[c] EXCEPT !.pc = "forget"]
              ELSE [run[c] EXCEPT !.pc = "next", !.count = @ + 1])

LEMMA AckSplits ==
    ASSUME NEW c, Ack(c)
    PROVE  /\ run[c].pc = "ack"
           /\ UNCHANGED <<produced, journal, leftover, inflight, receipts, environment, recorded, sends>>
           /\ \/ Acknowledges(c)
              \/ /\ End(c, "FORBIDDEN") \/ End(c, "UNKNOWN_NOTIFICATION") \/ End(c, "RECOVERY_REQUIRED")
                 /\ UNCHANGED <<outbox, stable, acked>>
  BY DEF Ack, Acknowledges

\* The outbox and the batch after an acknowledgment.
LEMMA AcknowledgesFacts ==
    ASSUME Inv, NEW c \in Consumers, run[c].pc = "ack", Acknowledges(c), NEW n, n = run[c].current
    PROVE  /\ n \in Notification /\ n \in receipts
           /\ outbox'.next = outbox.next /\ outbox'.events = {m \in outbox.events : m.id # n.id}
           /\ QueueType(outbox') /\ Follows(outbox, outbox') /\ stable' = stable
           /\ acked' \subseteq acked \union {n}
           /\ \E r \in Run :
                /\ Put(c, r) /\ r.todo = run[c].todo /\ r.policy = run[c].policy
                /\ IF c \in Journaled THEN r.pc = "forget" /\ r.current = n ELSE r.pc = "next"
                /\ BatchOK(outbox, receipts, r)
  <1>1. /\ QueueType(outbox) /\ run[c] \in Run /\ BatchOK(outbox, receipts, run[c])
        /\ n \in Notification /\ OfThis(outbox, n) /\ n \in receipts
    BY DEF Inv, TypeOK, BatchOK, Busy
  <1>2. outbox' = [outbox EXCEPT !.events = {m \in outbox.events : m.id # n.id}] /\ stable' = stable
    BY DEF Acknowledges, WriteOutbox
  <1>3. outbox'.next = outbox.next /\ outbox'.events = {m \in outbox.events : m.id # n.id}
    BY <1>1, <1>2 DEF QueueType
  <1>4. outbox' \in [next : Nat \ {0}, events : SUBSET Notification]
    BY <1>1, <1>2 DEF QueueType
  <1>5. QueueType(outbox') /\ Follows(outbox, outbox')
    BY <1>1, <1>3, <1>4 DEF QueueType, Follows
  <1>6. acked' \subseteq acked \union {n}
    BY <1>1 DEF Acknowledges, OfThis
  <1>7. CASE c \in Journaled
    <2>1. PICK r : r = [run[c] EXCEPT !.pc = "forget"]
      OBVIOUS
    <2>2. r \in Run /\ r.pc = "forget" /\ r.todo = run[c].todo /\ r.current = n /\ r.policy = run[c].policy
      BY <1>1, <2>1 DEF Run
    <2>3. BatchOK(outbox, receipts, r)
      BY <1>1, <2>2 DEF BatchOK, Busy
    <2>4. Put(c, r)
      BY <1>7, <2>1 DEF Acknowledges
    <2> QED BY <1>1, <1>3, <1>5, <1>2, <1>6, <1>7, <2>2, <2>3, <2>4
  <1>8. CASE c \notin Journaled
    <2>1. PICK r : r = [run[c] EXCEPT !.pc = "next", !.count = @ + 1]
      OBVIOUS
    <2>2. r \in Run /\ r.pc = "next" /\ r.todo = run[c].todo /\ r.policy = run[c].policy
          /\ BatchOK(outbox, receipts, r)
      BY <2>1, GoesOn DEF Busy
    <2>3. Put(c, r)
      BY <1>8, <2>1 DEF Acknowledges
    <2> QED BY <1>1, <1>3, <1>5, <1>2, <1>6, <1>8, <2>2, <2>3
  <1> QED BY <1>7, <1>8

LEMMA AckStep ==
    ASSUME Inv, NEW c \in Consumers, Ack(c)
    PROVE  Inv'
  <1>1. /\ run[c].pc = "ack"
        /\ UNCHANGED <<produced, journal, leftover, inflight, receipts, environment, recorded, sends>>
    BY AckSplits
  <1>2. /\ leftover' \subseteq {"outbox", "journal"} /\ inflight' \subseteq Notification
        /\ allowed' \in BOOLEAN /\ faults' \in Nat /\ run \in [Consumers -> Run]
    BY <1>1 DEF Inv, TypeOK, environment
  <1>3. ASSUME NEW x \in {"FORBIDDEN", "UNKNOWN_NOTIFICATION", "RECOVERY_REQUIRED"}, End(c, x),
               UNCHANGED <<outbox, stable, acked>>
        PROVE  Inv'
    <2>1. x \in Results
      BY DEF Results
    <2> QED BY <1>1, <1>2, <1>3, <2>1, Ends DEF queue
  <1>4. CASE Acknowledges(c)
    <2>1. PICK n : n = run[c].current
      OBVIOUS
    <2>2. /\ n \in Notification /\ n \in receipts
          /\ QueueType(outbox') /\ Follows(outbox, outbox') /\ stable' = stable
          /\ acked' \subseteq acked \union {n}
      BY <1>1, <1>4, <2>1, AcknowledgesFacts
    <2>3. PICK r \in Run :
                /\ Put(c, r) /\ r.todo = run[c].todo
                /\ IF c \in Journaled THEN r.pc = "forget" ELSE r.pc = "next"
                /\ BatchOK(outbox, receipts, r)
      BY <1>1, <1>4, <2>1, AcknowledgesFacts
    <2>4. run' \in [Consumers -> Run] /\ run'[c] = r /\ \A d \in Consumers : d # c => run'[d] = run[d]
      BY <1>2, <2>3, PutRun
    <2>5. TypeOK'
      BY <1>1, <1>2, <2>2, <2>4 DEF Inv, TypeOK
    <2>6. BatchOK(outbox', receipts', r)
      <3>1. QueueType(outbox) /\ receipts' = receipts
        BY <1>1 DEF Inv, TypeOK
      <3> QED BY <2>2, <2>3, <3>1, BatchFrame
    <2>7. c \in Journaled => JournaledOK(journal', r)
      BY <1>1, <2>3 DEF Inv, JournaledOK, Working, Busy
    <2>8. /\ AcceptedOK(journal', receipts') /\ RecordedOK(journal', recorded') /\ AckedWasAccepted'
          /\ journal' = journal /\ receipts' = receipts
      BY <1>1, <2>2 DEF Inv, AckedWasAccepted
    <2>9. /\ run'[c].pc \in {"reconcile", "forget"} => c \in Journaled
          /\ run[c].pc # "idle"
      BY <1>1, <2>3, <2>4
    <2> QED BY <2>2, <2>4, <2>5, <2>6, <2>7, <2>8, <2>9, OneRun
  <1> QED BY <1>3, <1>4, AckSplits

LEMMA ForgetFacts ==
    ASSUME Inv, NEW c \in Consumers, Forget(c), NEW n, n = run[c].current
    PROVE  /\ c \in Journaled /\ run[c].pc = "forget" /\ n \in Notification
           /\ JournalType(journal') /\ Drops(journal, journal', n.id)
           /\ journal'.highWater = journal.highWater /\ stable' = outbox
           /\ UNCHANGED <<outbox, produced, leftover, inflight, receipts, environment, acked, recorded, sends>>
           /\ Put(c, [run[c] EXCEPT !.pc = "next", !.count = @ + 1])
  <1>1. c \in Journaled /\ run[c].pc = "forget" /\ n \in Notification /\ JournalType(journal)
    BY DEF Forget, Inv, Exclusive, BatchOK, Busy, TypeOK
  <1>2. journal' = [highWater |-> journal.highWater, entries |-> Without(n.id)] /\ stable' = outbox
    BY <1>1, EntriesChanged DEF Forget, WriteJournal
  <1>3. n.id \in Ids
    BY <1>1 DEF Notification
  <1> QED BY <1>1, <1>2, <1>3, WithoutDrops DEF Forget

LEMMA ForgetStep ==
    ASSUME Inv, NEW c \in Consumers, Forget(c)
    PROVE  Inv'
  <1>1. PICK n, r : n = run[c].current /\ r = [run[c] EXCEPT !.pc = "next", !.count = @ + 1]
    OBVIOUS
  <1>2. /\ c \in Journaled /\ run[c].pc = "forget" /\ n \in Notification
        /\ JournalType(journal') /\ Drops(journal, journal', n.id)
        /\ journal'.highWater = journal.highWater /\ stable' = outbox
        /\ UNCHANGED <<outbox, produced, leftover, inflight, receipts, environment, acked, recorded, sends>>
        /\ Put(c, r)
    BY <1>1, ForgetFacts
  <1>3. r \in Run /\ r.pc = "next" /\ r.todo = run[c].todo /\ BatchOK(outbox, receipts, r)
    BY <1>1, <1>2, GoesOn DEF Busy
  <1>4. ASSUME NEW m \in r.todo PROVE Fits(journal', m)
    <2>1. m.id > n.id /\ Fits(journal, m) /\ m \in Notification
      BY <1>1, <1>2, <1>3 DEF Inv, TypeOK, Run, BatchOK, JournaledOK, Busy, Working
    <2>2. n.id \in Ids /\ JournalType(journal)
      BY <1>2 DEF Notification, Inv, TypeOK
    <2> QED BY <1>2, <2>1, <2>2, RestFits DEF Drops
  <1>5. JournaledOK(journal', r)
    BY <1>3, <1>4 DEF JournaledOK
  <1>6. AcceptedOK(journal', receipts) /\ RecordedOK(journal', recorded')
    BY <1>2 DEF Inv, AcceptedOK, RecordedOK, Drops
  <1>7. inflight' \subseteq Notification /\ sends' \in [Ids -> Nat] /\ recorded' \subseteq Notification
    BY <1>2 DEF Inv, TypeOK
  <1> QED BY <1>2, <1>3, <1>5, <1>6, <1>7, WritesJournal

\* A journal reconciled with a queue under a policy.
Pruned(j, k, todo, policy) ==
    /\ k.highWater = j.highWater
    /\ DOMAIN k.entries = DOMAIN j.entries \intersect {n.id : n \in todo}
    /\ \A i \in DOMAIN k.entries :
         /\ k.entries[i].event = j.entries[i].event
         /\ k.entries[i].attempts = j.entries[i].attempts
         /\ k.entries[i].state = "accepted" <=> j.entries[i].state = "accepted"
         /\ k.entries[i].state = "pending" => j.entries[i].attempts < policy
         /\ j.entries[i].state = "terminal" => k.entries[i].state = "terminal"

LEMMA ReconcileFacts ==
    ASSUME Inv, NEW c \in Consumers, Reconcile(c), ~Conflict(run[c].todo)
    PROVE  /\ c \in Journaled /\ run[c].pc = "reconcile"
           /\ UNCHANGED <<outbox, produced, leftover, inflight, receipts, environment, acked, recorded, sends>>
           /\ JournalType(journal') /\ Pruned(journal, journal', run[c].todo, run[c].policy)
           /\ (journal' = journal /\ stable' = stable) \/ stable' = outbox
           /\ Put(c, [run[c] EXCEPT !.pc = "next"])
  <1>1. PICK elapsed \in 0..MaxDelay :
          LET Wait(entry) == Larger(0, Delay(entry.attempts) - elapsed)
              entries == [i \in DOMAIN Entries \intersect {n.id : n \in run[c].todo} |->
                            Reconciled(Entries[i], run[c].policy, Wait(Entries[i]))]
          IN IF entries = Entries THEN UNCHANGED <<journal, stable>>
             ELSE WriteJournal([journal EXCEPT !.entries = entries])
    BY DEF Reconcile
  <1>2. c \in Journaled /\ run[c].pc = "reconcile" /\ JournalType(journal) /\ run[c].policy \in Nat
    BY DEF Inv, Exclusive, Reconcile, TypeOK, Run
  <1> DEFINE kept == DOMAIN Entries \intersect {n.id : n \in run[c].todo}
             new(i) == Reconciled(Entries[i], run[c].policy,
                                  Larger(0, Delay(Entries[i].attempts) - elapsed))
  <1>3. PICK f : f = [i \in kept |-> new(i)]
    OBVIOUS
  <1>4. DOMAIN f = kept /\ \A i \in kept : f[i] = new(i)
    BY <1>3
  <1>5. ASSUME NEW i \in kept
        PROVE  /\ f[i] \in Entry /\ f[i].event = Entries[i].event
               /\ f[i].attempts = Entries[i].attempts /\ f[i].state # "sending"
               /\ f[i].state = "accepted" <=> Entries[i].state = "accepted"
               /\ f[i].state = "pending" => Entries[i].attempts < run[c].policy
               /\ Entries[i].state = "terminal" => f[i].state = "terminal"
    <2>1. PICK e \in Entry : e = Entries[i] /\ (e.state = "sending" => e.attempts > 0)
      BY <1>2 DEF JournalType, Entries
    <2>2. PICK w : w = Larger(0, Delay(e.attempts) - elapsed)
      OBVIOUS
    <2>3. e.state = "sending" => w \in Waits
      BY <2>1, <2>2, DelayIsCapped DEF Entry
    <2>4. f[i] = Reconciled(e, run[c].policy, w)
      BY <1>4, <2>1, <2>2
    <2> QED BY <1>2, <2>1, <2>3, <2>4, ReconciledFacts
  <1>6. IF f = Entries THEN UNCHANGED <<journal, stable>>
        ELSE WriteJournal([journal EXCEPT !.entries = f])
    BY <1>1, <1>3
  <1> HIDE DEF new
  <1>7. journal' = [highWater |-> journal.highWater, entries |-> f]
        /\ ((journal' = journal /\ stable' = stable) \/ stable' = outbox)
    <2>1. CASE f = Entries
      BY <1>2, <1>6, <2>1 DEF JournalType, Entries
    <2>2. CASE f # Entries
      BY <1>2, <1>6, <2>2, EntriesChanged DEF WriteJournal
    <2> QED BY <2>1, <2>2
  <1>8. journal'.highWater = journal.highWater /\ journal'.entries = f
    BY <1>7
  <1>9. f \in [kept -> Entry]
    BY <1>3, <1>4, <1>5
  <1>10. JournalType(journal')
    BY <1>2, <1>4, <1>5, <1>7, <1>8, <1>9 DEF JournalType, Entries
  <1>11. Pruned(journal, journal', run[c].todo, run[c].policy)
    BY <1>4, <1>5, <1>8 DEF Pruned, Entries
  <1> QED BY <1>2, <1>7, <1>10, <1>11 DEF Reconcile

LEMMA ReconcileStep ==
    ASSUME Inv, NEW c \in Consumers, Reconcile(c)
    PROVE  Inv'
  <1>1. CASE Conflict(run[c].todo)
    <2>1. /\ End(c, "NOTIFICATION_DELIVERY_CONFLICT") /\ "NOTIFICATION_DELIVERY_CONFLICT" \in Results
          /\ UNCHANGED <<queue, journal, leftover, inflight, receipts, environment, acked, recorded, sends>>
      BY <1>1 DEF Reconcile, Results, queue
    <2>2. /\ leftover' \subseteq {"outbox", "journal"} /\ inflight' \subseteq Notification
          /\ allowed' \in BOOLEAN /\ faults' \in Nat
      BY <2>1 DEF Inv, TypeOK, environment
    <2> QED BY <2>1, <2>2, Ends
  <1>2. CASE ~Conflict(run[c].todo)
    <2>1. /\ c \in Journaled /\ run[c].pc = "reconcile"
          /\ UNCHANGED <<outbox, produced, leftover, inflight, receipts, environment, acked, recorded, sends>>
          /\ JournalType(journal') /\ Pruned(journal, journal', run[c].todo, run[c].policy)
          /\ (journal' = journal /\ stable' = stable) \/ stable' = outbox
          /\ Put(c, [run[c] EXCEPT !.pc = "next"])
      BY <1>2, ReconcileFacts
    <2>2. PICK r : r = [run[c] EXCEPT !.pc = "next"]
      OBVIOUS
    <2>3. run[c] \in Run /\ BatchOK(outbox, receipts, run[c])
      BY DEF Inv, TypeOK
    <2>4. r \in Run /\ r.pc = "next" /\ r.todo = run[c].todo
      BY <2>2, <2>3 DEF Run
    <2>5. BatchOK(outbox, receipts, r)
      BY <2>1, <2>3, <2>4 DEF BatchOK, Busy
    <2>6. ASSUME NEW m \in r.todo PROVE Fits(journal', m)
      <3>1. m \in run[c].todo
        BY <2>4
      <3>2. m.id \in DOMAIN journal.entries => journal.entries[m.id].event = m.event
        BY <1>2, <3>1 DEF Conflict, Known, Entries
      <3>3. m.id \notin DOMAIN journal.entries => ~(m.id <= journal.highWater)
        BY <1>2, <3>1 DEF Conflict, Known, Entries
      <3>4. m.id \in Nat /\ journal.highWater \in Nat
        BY <2>3, <3>1 DEF Run, Notification, Ids, Inv, TypeOK, JournalType
      <3> QED BY <2>1, <3>1, <3>2, <3>3, <3>4 DEF Fits, Pruned
    <2>7. JournaledOK(journal', r)
      BY <2>4, <2>6 DEF JournaledOK
    <2>8. AcceptedOK(journal', receipts) /\ RecordedOK(journal', recorded')
      BY <2>1 DEF Inv, AcceptedOK, RecordedOK, Pruned
    <2>9. inflight' \subseteq Notification /\ sends' \in [Ids -> Nat] /\ recorded' \subseteq Notification
      BY <2>1 DEF Inv, TypeOK
    <2>10. Put(c, r) /\ run[c].pc # "idle" /\ stable' \in {stable, outbox}
      BY <2>1, <2>2
    <2> QED BY <2>1, <2>4, <2>5, <2>7, <2>8, <2>9, <2>10, WritesJournal
  <1> QED BY <1>1, <1>2

LEMMA StepInv == Inv /\ [Next]_vars => Inv'
  <1> SUFFICES ASSUME Inv, [Next]_vars PROVE Inv'
    OBVIOUS
  <1>1. ASSUME NEW e \in Events, Enqueue(e) PROVE Inv'
    BY <1>1, EnqueueStep
  <1>2. ASSUME NEW i \in Ids, Rearm(i) PROVE Inv'
    BY <1>2, RearmStep
  <1>3. ASSUME NEW file \in {"outbox", "journal"}, RemoveLeftover(file) PROVE Inv'
    BY <1>3, Unmoved DEF RemoveLeftover, environment, Inv, TypeOK
  <1>4. ASSUME NEW c \in Consumers, Open(c) \/ OpenDirect(c) \/ Crash(c) PROVE Inv'
    BY <1>4, OpenStep, OpenDirectStep, CrashStep
  <1>5. ASSUME NEW c \in Consumers, Batch(c) PROVE Inv'
    BY <1>5, ReconcileStep, EndBatchStep, RecoverAckStep, BeginStep, RecordStep, AckStep, ForgetStep,
       SendDirectStep, RespondDirectStep DEF Batch
  <1>6. ASSUME NEW n \in Notification, Receive(n) PROVE Inv'
    BY <1>6, ReceiveStep
  <1>7. CASE RecreateOutbox
    BY <1>7, RecreateStep
  <1>8. CASE CrashEnqueue
    BY <1>8, Unmoved DEF CrashEnqueue, Fault, Inv, TypeOK
  <1>9. CASE PowerLoss
    BY <1>9, PowerLossStep
  <1>10. CASE Tick \/ Rollback
    BY <1>10, ClockStep
  <1>11. ASSUME NEW permission \in BOOLEAN, SetAllowed(permission) PROVE Inv'
    BY <1>11, Unmoved DEF SetAllowed, Fault, Inv, TypeOK
  <1>12. CASE UNCHANGED vars
    BY <1>12, Unmoved DEF vars, environment, Inv, TypeOK
  <1> QED BY <1>1, <1>2, <1>3, <1>4, <1>5, <1>6, <1>7, <1>8, <1>9, <1>10, <1>11, <1>12 DEF Next

\* Every reachable state is well typed: ids stay unique in the outbox, entries
\* belong to ids, and an interrupted attempt has been counted.
THEOREM TypeCorrect == Spec => []TypeOK
  <1>1. Spec => []Inv
    BY InitInv, StepInv, PTL DEF Spec
  <1>2. Inv => TypeOK
    BY DEF Inv
  <1> QED BY <1>1, <1>2, PTL

\* What left the outbox has a durable receipt of exactly that envelope, for any
\* number of consumers, with or without the journal, and whatever is deleted.
THEOREM AcknowledgedIsAccepted == Spec => []AckedWasAccepted
  <1>1. Spec => []Inv
    BY InitInv, StepInv, PTL DEF Spec
  <1>2. Inv => AckedWasAccepted
    BY DEF Inv
  <1> QED BY <1>1, <1>2, PTL

\* A notification whose acceptance is in the journal is never sent again by a
\* journaled consumer: its entry stays accepted, or is gone below the high water.
THEOREM AcceptedIsNeverResent == Spec => []NeverResent
  <1>1. Spec => []Inv
    BY InitInv, StepInv, PTL DEF Spec
  <1>2. Inv => NeverResent
    <2> SUFFICES ASSUME Inv, NEW c \in Journaled, run[c].pc = "wait", run[c].current \in recorded
                 PROVE  FALSE
      BY DEF NeverResent
    <2>1. Sending(journal, run[c].current)
      BY DEF Inv, JournaledOK
    <2> QED BY <2>1 DEF Inv, RecordedOK, Sending
  <1> QED BY <1>1, <1>2, PTL

-----------------------------------------------------------------------------
(* The inductive invariant of an outbox that is never deleted.               *)

\* A notification that the journal does not know has not been sent since it came.
Unsent(j, s, n) == n.id \notin DOMAIN j.entries => s[n.id] = 0

\* The queue and the journal agree, now and after a power loss.
QueueOK(q, st, j, s) ==
    /\ st.next <= q.next /\ j.highWater < st.next
    /\ \A i \in DOMAIN j.entries : i < st.next
    /\ \A n \in q.events \union st.events : Fits(j, n) /\ Unsent(j, s, n)
    /\ \A i \in Ids : i >= st.next => s[i] = 0
SendsOK(j, s) == \A i \in DOMAIN j.entries : s[i] <= j.entries[i].attempts

\* What is queued and not part of the batch came later; what comes before a
\* notification of the batch is part of it or in the journal.
BatchInOrder(q, j, s, r) ==
    /\ r.pc # "idle" => \A n \in r.todo : Unsent(j, s, n)
    /\ r.pc = "reconcile" =>
         /\ \A n \in r.todo : Fits(j, n)
         /\ \A m \in q.events :
              m \in r.todo \/ (m.id \notin DOMAIN j.entries /\ \A n \in r.todo : m.id > n.id)
    /\ r.pc \in Working =>
         \A n \in r.todo : \A m \in q.events :
           m.id <= n.id => m.id \in DOMAIN j.entries \/ m \in r.todo
    /\ r.pc = "wait" => \A m \in q.events : m.id <= r.current.id => m.id \in DOMAIN j.entries
    /\ r.pc = "forget" => \A m \in q.events : m.id # r.current.id
BatchInBudget(j, r) ==
    /\ r.pc \in Working =>
         \A n \in r.todo :
           n.id \in DOMAIN j.entries /\ j.entries[n.id].state = "pending" =>
             j.entries[n.id].attempts < r.policy
    /\ r.pc = "wait" => j.entries[r.current.id].attempts <= r.policy

OwnInv ==
    /\ Inv /\ QueueOK(outbox, stable, journal, sends) /\ SendsOK(journal, sends)
    /\ \A c \in Journaled :
         BatchInOrder(outbox, journal, sends, run[c]) /\ BatchInBudget(journal, run[c])
    /\ NoFalseConflict

LEMMA IdleIsInOrder ==
    ASSUME NEW r, r.pc = "idle", NEW q, NEW j, NEW s
    PROVE  BatchInOrder(q, j, s, r) /\ BatchInBudget(j, r)
  BY DEF BatchInOrder, BatchInBudget, Working, Busy

\* What is enqueued under a batch comes after all that the batch holds.
LEMMA OrderFrame ==
    ASSUME NEW q, NEW k, QueueType(q), QueueType(k), Follows(q, k), NEW j,
           \A i \in DOMAIN j.entries : i \in Nat /\ i < q.next,
           NEW t, NEW r \in Run, BatchOK(q, t, r), NEW s, BatchInOrder(q, j, s, r)
    PROVE  BatchInOrder(k, j, s, r)
  <1>1. r.todo \subseteq Notification /\ q.next \in Nat /\ q.events \subseteq Notification
        /\ k.events \subseteq Notification
    BY DEF Run, QueueType
  <1>2. r.pc # "idle" => \A n \in r.todo : n.id < q.next /\ n.id \in Nat
    BY <1>1 DEF BatchOK, OfThis, Notification, Ids
  <1>3. r.pc \in Busy => r.current.id < q.next /\ r.current.id \in Nat
    BY DEF BatchOK, OfThis, Notification, Ids
  <1>4. ASSUME NEW m \in k.events
        PROVE  m.id \in Nat /\ (m \in q.events \/ (m.id >= q.next /\ m.id \notin DOMAIN j.entries))
    BY <1>1, <1>4 DEF Follows, Notification, Ids
  <1>5. r.pc = "reconcile" => \A m \in k.events :
          m \in r.todo \/ (m.id \notin DOMAIN j.entries /\ \A n \in r.todo : m.id > n.id)
    BY <1>1, <1>2, <1>4 DEF BatchInOrder
  <1>6. r.pc \in Working => \A n \in r.todo : \A m \in k.events :
           m.id <= n.id => m.id \in DOMAIN j.entries \/ m \in r.todo
    BY <1>1, <1>2, <1>4 DEF BatchInOrder, Working, Busy
  <1>7. r.pc = "wait" => \A m \in k.events : m.id <= r.current.id => m.id \in DOMAIN j.entries
    BY <1>1, <1>3, <1>4 DEF BatchInOrder, Busy
  <1>8. r.pc = "forget" => \A m \in k.events : m.id # r.current.id
    BY <1>1, <1>3, <1>4 DEF BatchInOrder, Busy
  <1> QED BY <1>5, <1>6, <1>7, <1>8 DEF BatchInOrder

\* What the invariant says of the outbox itself.
LEMMA OfTheOutbox ==
    ASSUME OwnInv
    PROVE  /\ QueueType(outbox) /\ QueueType(stable) /\ JournalType(journal)
           /\ outbox.next \in Nat /\ stable.next \in Nat /\ journal.highWater \in Nat
           /\ journal.highWater < outbox.next
           /\ \A i \in DOMAIN journal.entries : i \in Nat /\ i < outbox.next
           /\ \A n \in outbox.events : Fits(journal, n) /\ Unsent(journal, sends, n) /\ n \in Notification
           /\ \A i \in Ids : i \in Nat /\ (i >= outbox.next => sends[i] = 0)
  <1>1. QueueType(outbox) /\ QueueType(stable) /\ JournalType(journal)
    BY DEF OwnInv, Inv, TypeOK
  <1>2. outbox.next \in Nat /\ stable.next \in Nat /\ journal.highWater \in Nat
        /\ outbox.events \subseteq Notification
    BY <1>1 DEF QueueType, JournalType
  <1>3. \A i \in Ids : i \in Nat
    BY DEF Ids
  <1>4. \A i \in DOMAIN journal.entries : i \in Nat
    BY <1>1, <1>3 DEF JournalType
  <1> QED BY <1>1, <1>2, <1>3, <1>4 DEF OwnInv, QueueOK

\* What a step that moves one batch has to show.
LEMMA OwnOneRun ==
    ASSUME OwnInv, Inv', NEW c \in Consumers,
           \A d \in Consumers : d # c => run'[d] = run[d],
           Follows(outbox, outbox'),
           UNCHANGED <<journal, sends>> \/ (c \in Journaled /\ run[c].pc # "idle"),
           QueueOK(outbox', stable', journal', sends'), SendsOK(journal', sends'),
           c \in Journaled => /\ BatchInOrder(outbox', journal', sends', run'[c])
                              /\ BatchInBudget(journal', run'[c]),
           NoFalseConflict'
    PROVE  OwnInv'
  <1>1. ASSUME NEW d \in Journaled
        PROVE  BatchInOrder(outbox', journal', sends', run'[d]) /\ BatchInBudget(journal', run'[d])
    <2>1. CASE d = c
      BY <2>1
    <2>2. CASE d # c /\ UNCHANGED <<journal, sends>>
      <3>1. run'[d] = run[d] /\ run[d] \in Run /\ BatchOK(outbox, receipts, run[d])
        BY <2>2 DEF OwnInv, Inv, TypeOK
      <3>2. QueueType(outbox) /\ QueueType(outbox')
        BY DEF OwnInv, Inv, TypeOK
      <3>3. \A i \in DOMAIN journal.entries : i \in Nat /\ i < outbox.next
        BY OfTheOutbox
      <3>4. BatchInOrder(outbox, journal, sends, run[d]) /\ BatchInBudget(journal, run[d])
        BY DEF OwnInv
      <3>5. BatchInOrder(outbox', journal, sends, run[d])
        BY <3>1, <3>2, <3>3, <3>4, OrderFrame
      <3> QED BY <2>2, <3>1, <3>4, <3>5
    <2>3. CASE d # c /\ c \in Journaled /\ run[c].pc # "idle"
      <3>1. run'[d].pc = "idle"
        BY <2>3 DEF OwnInv, Inv, Exclusive
      <3> QED BY <3>1, IdleIsInOrder
    <2> QED BY <2>1, <2>2, <2>3
  <1> QED BY <1>1 DEF OwnInv

\* A write of the journal makes the outbox durable: both versions agree with it.
LEMMA SyncedQueue ==
    ASSUME NEW q, QueueType(q), NEW k, NEW t, k.highWater < q.next,
           \A i \in DOMAIN k.entries : i < q.next,
           \A n \in q.events : Fits(k, n) /\ Unsent(k, t, n),
           \A i \in Ids : i >= q.next => t[i] = 0
    PROVE  QueueOK(q, q, k, t)
  BY DEF QueueOK, QueueType

\* Only a reconciliation that found a conflict reports one.
Refused == "NOTIFICATION_DELIVERY_CONFLICT"
LEMMA PutResult ==
    ASSUME Inv, NoFalseConflict, NEW c \in Consumers, NEW r, Put(c, r), r.result # Refused
    PROVE  NoFalseConflict'
  BY DEF Put, Inv, TypeOK, NoFalseConflict, Refused

LEMMA EndResult ==
    ASSUME Inv, NoFalseConflict, NEW c \in Consumers, NEW x \in Results \ {Refused}, End(c, x)
    PROVE  NoFalseConflict'
  <1>1. run \in [Consumers -> Run]
    BY DEF Inv, TypeOK
  <1>2. run'[c].result = x /\ \A d \in Consumers : d # c => run'[d] = run[d]
    BY <1>1, EndRun
  <1> QED BY <1>2 DEF NoFalseConflict, Refused

LEMMA EnvironmentResult ==
    ASSUME Inv, NoFalseConflict,
           UNCHANGED run \/ PowerLoss \/ \E n \in Notification, reply \in Replies : Answer(n, reply)
    PROVE  NoFalseConflict'
  <1>1. CASE UNCHANGED run
    BY <1>1 DEF NoFalseConflict
  <1>2. CASE PowerLoss
    <2>1. PICK idle \in Run : idle = [IdleRun EXCEPT !.result = "crashed"] /\ idle.result = "crashed"
      BY IdleIsRun DEF Results
    <2>2. run' = [c \in Consumers |-> IF run[c].pc = "idle" THEN run[c] ELSE idle]
      BY <1>2, <2>1 DEF PowerLoss
    <2> QED BY <2>1, <2>2 DEF NoFalseConflict
  <1>3. ASSUME NEW n \in Notification, NEW reply \in Replies, Answer(n, reply) PROVE NoFalseConflict'
    <2>1. ASSUME NEW c \in Consumers PROVE run'[c].result = run[c].result
      <3>1. PICK old \in Run : old = run[c]
        BY DEF Inv, TypeOK
      <3>2. PICK new : new = [old EXCEPT !.reply = reply]
        OBVIOUS
      <3>3. new.result = old.result
        BY <3>1, <3>2 DEF Run
      <3>4. run'[c] = new \/ run'[c] = old
        BY <1>3, <3>1, <3>2 DEF Answer
      <3> QED BY <3>1, <3>3, <3>4
    <2> QED BY <2>1 DEF NoFalseConflict
  <1> QED BY <1>1, <1>2, <1>3

LEMMA BatchResult ==
    ASSUME Inv, NoFalseConflict, NEW c \in Consumers, Batch(c),
           run[c].pc = "reconcile" => ~Conflict(run[c].todo)
    PROVE  NoFalseConflict'
  <1>1. PICK old \in Run : old = run[c] /\ old.result # Refused
    BY DEF Inv, TypeOK, NoFalseConflict, Refused
  <1>2. ASSUME NEW x \in {"batch", "FORBIDDEN", "UNKNOWN_NOTIFICATION", "RECOVERY_REQUIRED"}, End(c, x)
        PROVE  NoFalseConflict'
    <2>1. x \in Results \ {Refused}
      BY DEF Results, Refused
    <2> QED BY <1>2, <2>1, EndResult
  <1>3. ASSUME NEW pc, Put(c, [run[c] EXCEPT !.pc = pc]) PROVE NoFalseConflict'
    <2>1. PICK r : r = [old EXCEPT !.pc = pc]
      OBVIOUS
    <2>2. r.result = old.result
      BY <2>1 DEF Run
    <2> QED BY <1>1, <1>3, <2>1, <2>2, PutResult
  <1>4. ASSUME Put(c, [run[c] EXCEPT !.pc = "next", !.count = @ + 1]) PROVE NoFalseConflict'
    <2>1. PICK r : r = [run[c] EXCEPT !.pc = "next", !.count = @ + 1]
      OBVIOUS
    <2>2. r.result = old.result
      BY <1>1, <2>1 DEF Run
    <2> QED BY <1>1, <1>4, <2>1, <2>2, PutResult
  <1>5. ASSUME NEW n, NEW todo, Put(c, [run[c] EXCEPT !.pc = "ack", !.todo = todo, !.current = n])
        PROVE  NoFalseConflict'
    <2>1. PICK r : r = [old EXCEPT !.pc = "ack", !.todo = todo, !.current = n]
      OBVIOUS
    <2>2. r.result = old.result
      BY <2>1 DEF Run
    <2> QED BY <1>1, <1>5, <2>1, <2>2, PutResult
  <1>6. ASSUME NEW n, NEW todo,
               Put(c, [run[c] EXCEPT !.pc = "wait", !.todo = todo, !.current = n, !.reply = "none"])
        PROVE  NoFalseConflict'
    <2>1. PICK r : r = [old EXCEPT !.pc = "wait", !.todo = todo, !.current = n, !.reply = "none"]
      OBVIOUS
    <2>2. r.result = old.result
      BY <2>1 DEF Run
    <2> QED BY <1>1, <1>6, <2>1, <2>2, PutResult
  <1>7. CASE Reconcile(c)
    BY <1>3, <1>7 DEF Reconcile
  <1>8. CASE EndBatch(c)
    BY <1>2, <1>8 DEF EndBatch
  <1>9. CASE RecoverAck(c)
    BY <1>5, <1>9 DEF RecoverAck
  <1>10. CASE Begin(c)
    BY <1>2, <1>6, <1>10, BeginSplits DEF Attempts, Attempting
  <1>11. CASE Record(c)
    <2>1. PICK n : n = run[c].current
      OBVIOUS
    <2> QED BY <1>3, <1>4, <1>11, <2>1, RecordSplits DEF Accepts, Retries, GivesUp
  <1>12. CASE Ack(c)
    BY <1>2, <1>3, <1>4, <1>12, AckSplits DEF Acknowledges
  <1>13. CASE Forget(c)
    BY <1>4, <1>13 DEF Forget
  <1>14. CASE SendDirect(c)
    BY <1>2, <1>6, <1>14 DEF SendDirect
  <1>15. CASE RespondDirect(c)
    BY <1>3, <1>4, <1>15 DEF RespondDirect
  <1> QED BY <1>7, <1>8, <1>9, <1>10, <1>11, <1>12, <1>13, <1>14, <1>15 DEF Batch

\* The queue that a batch has read is one that the journal can explain.
LEMMA NoConflict ==
    ASSUME OwnInv, NEW c \in Consumers, run[c].pc = "reconcile"
    PROVE  ~Conflict(run[c].todo)
  <1>1. c \in Journaled
    BY DEF OwnInv, Inv, Exclusive
  <1>2. \A n \in run[c].todo : Fits(journal, n)
    BY <1>1 DEF OwnInv, BatchInOrder
  <1>3. \A n \in run[c].todo : n.id \in Nat
    BY DEF OwnInv, Inv, TypeOK, Run, Notification, Ids
  <1>4. journal.highWater \in Nat
    BY DEF OwnInv, Inv, TypeOK, JournalType
  <1> QED BY <1>2, <1>3, <1>4 DEF Conflict, Fits, Known, Entries

LEMMA ResultStep ==
    ASSUME OwnInv, [Next]_vars
    PROVE  NoFalseConflict'
  <1>1. Inv /\ NoFalseConflict
    BY DEF OwnInv
  <1>2. ASSUME NEW c \in Consumers, Batch(c) PROVE NoFalseConflict'
    BY <1>1, <1>2, NoConflict, BatchResult
  <1>3. ASSUME NEW c \in Consumers, Open(c) PROVE NoFalseConflict'
    <2>1. CASE End(c, "RECOVERY_REQUIRED")
      BY <1>1, <2>1, EndResult DEF Results, Refused
    <2>2. ASSUME NEW p \in Policies,
                 Put(c, [IdleRun EXCEPT !.pc = "reconcile", !.todo = outbox.events, !.policy = p])
          PROVE  NoFalseConflict'
      <3>1. PICK r : r = [IdleRun EXCEPT !.pc = "reconcile", !.todo = outbox.events, !.policy = p]
        OBVIOUS
      <3>2. r.result # Refused
        BY <3>1 DEF IdleRun, Refused
      <3> QED BY <1>1, <2>2, <3>1, <3>2, PutResult
    <2> QED BY <1>3, <2>1, <2>2 DEF Open
  <1>4. ASSUME NEW c \in Consumers, OpenDirect(c) PROVE NoFalseConflict'
    <2>1. PICK r : r = [IdleRun EXCEPT !.pc = "next", !.todo = outbox.events]
      OBVIOUS
    <2>2. r.result # Refused
      BY <2>1 DEF IdleRun, Refused
    <2> QED BY <1>1, <1>4, <2>1, <2>2, PutResult DEF OpenDirect
  <1>5. ASSUME NEW c \in Consumers, Crash(c) PROVE NoFalseConflict'
    BY <1>1, <1>5, EndResult DEF Crash, Results, Refused
  <1>6. ASSUME NEW n \in Notification, Receive(n) PROVE NoFalseConflict'
    <2>1. \E reply \in Replies : Answer(n, reply)
      BY <1>6 DEF Receive, Replies
    <2> QED BY <1>1, <2>1, EnvironmentResult
  <1>7. CASE UNCHANGED run \/ PowerLoss
    BY <1>1, <1>7, EnvironmentResult
  <1>8. CASE UNCHANGED vars \/ RecreateOutbox \/ CrashEnqueue \/ Tick \/ Rollback
    BY <1>7, <1>8 DEF vars, RecreateOutbox, CrashEnqueue, Tick, Rollback, ClockMoves
  <1>9. ASSUME NEW e \in Events, Enqueue(e) PROVE NoFalseConflict'
    BY <1>7, <1>9 DEF Enqueue
  <1>10. ASSUME NEW i \in Ids, Rearm(i) PROVE NoFalseConflict'
    BY <1>7, <1>10 DEF Rearm
  <1>11. ASSUME NEW file \in {"outbox", "journal"}, RemoveLeftover(file) PROVE NoFalseConflict'
    BY <1>7, <1>11 DEF RemoveLeftover
  <1>12. ASSUME NEW permission \in BOOLEAN, SetAllowed(permission) PROVE NoFalseConflict'
    BY <1>7, <1>12 DEF SetAllowed
  <1> QED BY <1>2, <1>3, <1>4, <1>5, <1>6, <1>7, <1>8, <1>9, <1>10, <1>11, <1>12 DEF Next

LEMMA OwnInit == Init => OwnInv
  <1> SUFFICES ASSUME Init PROVE OwnInv
    OBVIOUS
  <1>1. \A c \in Consumers : run[c].pc = "idle" /\ run[c].result = "none"
    BY DEF Init, IdleRun
  <1>2. QueueOK(outbox, stable, journal, sends) /\ SendsOK(journal, sends)
    BY DEF Init, QueueOK, SendsOK
  <1> QED BY <1>1, <1>2, InitInv, IdleIsInOrder DEF OwnInv, NoFalseConflict

LEMMA OwnEnqueue ==
    ASSUME OwnInv, Inv', NoFalseConflict', NEW e \in Events, Enqueue(e)
    PROVE  OwnInv'
  <1>1. /\ outbox.next \in Ids /\ stable' = stable
        /\ outbox' = [next |-> outbox.next + 1,
                      events |-> outbox.events \union {[id |-> outbox.next, event |-> e]}]
        /\ UNCHANGED <<journal, run, sends>>
    BY OfTheOutbox DEF Enqueue, WriteOutbox, Ids, OwnInv, Inv, TypeOK, QueueType
  <1>2. PICK new : new = [id |-> outbox.next, event |-> e] /\ new.id = outbox.next
    <2>1. PICK new : new = [id |-> outbox.next, event |-> e]
      OBVIOUS
    <2> QED BY <2>1
  <1>3. outbox'.next = outbox.next + 1 /\ outbox'.events = outbox.events \union {new}
    BY <1>1, <1>2
  <1>4. Follows(outbox, outbox')
    BY <1>2, <1>3, OfTheOutbox DEF Follows
  <1>5. stable.next <= outbox.next
    BY DEF OwnInv, QueueOK
  <1>6. Fits(journal, new) /\ Unsent(journal, sends, new)
    BY <1>1, <1>2, <1>5, OfTheOutbox DEF Fits, Unsent
  <1>7. QueueOK(outbox', stable', journal', sends')
    BY <1>1, <1>3, <1>5, <1>6, OfTheOutbox DEF OwnInv, QueueOK
  <1>8. QueueType(outbox) /\ QueueType(outbox')
    BY DEF OwnInv, Inv, TypeOK
  <1>9. ASSUME NEW c \in Journaled
        PROVE  BatchInOrder(outbox', journal', sends', run'[c]) /\ BatchInBudget(journal', run'[c])
    <2>1. run[c] \in Run /\ BatchOK(outbox, receipts, run[c])
      BY DEF OwnInv, Inv, TypeOK
    <2>2. BatchInOrder(outbox, journal, sends, run[c]) /\ BatchInBudget(journal, run[c])
      BY DEF OwnInv
    <2>3. BatchInOrder(outbox', journal, sends, run[c])
      BY <1>4, <1>8, <2>1, <2>2, OfTheOutbox, OrderFrame
    <2> QED BY <1>1, <2>2, <2>3
  <1> QED BY <1>1, <1>7, <1>9 DEF OwnInv

LEMMA OwnRearm ==
    ASSUME OwnInv, Inv', NoFalseConflict', NEW i \in Ids, Rearm(i)
    PROVE  OwnInv'
  <1>1. PICK e : e = [Entries[i] EXCEPT !.state = "pending", !.attempts = 0, !.wait = 0]
    OBVIOUS
  <1>2. JournalType(journal) /\ Known(i) /\ Entries[i] \in Entry
    BY DEF OwnInv, Inv, TypeOK, JournalType, Rearm, Known, Entries
  <1>3. 0 \in Waits
    BY DEF Waits, Beyond
  <1>4. e \in Entry /\ e.event = Entries[i].event /\ e.state = "pending" /\ e.attempts = 0
    BY <1>1, <1>2, <1>3 DEF Entry, States
  <1>5. /\ journal' = [highWater |-> journal.highWater, entries |-> With(i, e)]
        /\ stable' = outbox /\ UNCHANGED <<outbox, run>> /\ LockFree
        /\ sends' = [sends EXCEPT ![i] = 0] /\ sends \in [Ids -> Nat]
    BY <1>1, <1>2, EntriesChanged DEF Rearm, WriteJournal, OwnInv, Inv, TypeOK
  <1>6. JournalType(journal') /\ Sets(journal, journal', i, e) /\ journal'.highWater = journal.highWater
    <2>1. journal.highWater \in Nat
      BY <1>2 DEF JournalType
    <2> QED BY <1>2, <1>4, <1>5, <2>1, WithSets
  <1>7. DOMAIN journal'.entries = DOMAIN journal.entries
    BY <1>2, <1>6 DEF Sets, Known, Entries
  <1>8. ASSUME NEW n \in outbox.events PROVE Fits(journal', n) /\ Unsent(journal', sends', n)
    <2>1. Fits(journal, n) /\ Unsent(journal, sends, n) /\ n.id \in Ids
      BY OfTheOutbox DEF Notification
    <2> QED BY <1>2, <1>4, <1>5, <1>6, <1>7, <2>1 DEF Fits, Unsent, Sets, Known, Entries
  <1>9. \A k \in Ids : k >= outbox.next => sends'[k] = 0
    BY <1>5, OfTheOutbox
  <1>10. QueueOK(outbox', stable', journal', sends')
    BY <1>5, <1>6, <1>7, <1>8, <1>9, OfTheOutbox, SyncedQueue
  <1>11. SendsOK(journal', sends')
    <2>1. \A k \in DOMAIN journal.entries : k \in Ids
      BY <1>2 DEF JournalType
    <2> QED BY <1>4, <1>5, <1>6, <1>7, <2>1 DEF OwnInv, SendsOK, Sets
  <1>12. \A c \in Journaled : run'[c].pc = "idle"
    BY <1>5 DEF LockFree
  <1> QED BY <1>10, <1>11, <1>12, IdleIsInOrder DEF OwnInv

\* Steps that change neither document nor batch, or only due times.
LEMMA OwnUnmoved ==
    ASSUME OwnInv, Inv', UNCHANGED <<outbox, stable, journal, run, sends>>
    PROVE  OwnInv'
  BY DEF OwnInv, NoFalseConflict

LEMMA OwnClock ==
    ASSUME OwnInv, Inv', NoFalseConflict', Tick \/ Rollback
    PROVE  OwnInv'
  <1>1. PICK waits \in [DOMAIN Entries -> Waits] : ClockMoves(waits)
    BY DEF Tick, Rollback
  <1>2. JournalType(journal)
    BY DEF OwnInv, Inv, TypeOK
  <1>3. Retimed(journal, journal') /\ UNCHANGED <<outbox, stable, run, sends>>
    BY <1>1, <1>2, ClockRetimes DEF queue
  <1>4. \A n : Fits(journal, n) => Fits(journal', n)
    BY <1>3 DEF Fits, Retimed
  <1>5. \A n : Unsent(journal, sends, n) => Unsent(journal', sends, n)
    BY <1>3 DEF Unsent, Retimed
  <1>6. QueueOK(outbox', stable', journal', sends') /\ SendsOK(journal', sends')
    BY <1>3, <1>4, <1>5 DEF OwnInv, QueueOK, SendsOK, Retimed
  <1>7. ASSUME NEW c \in Journaled
        PROVE  BatchInOrder(outbox', journal', sends', run'[c]) /\ BatchInBudget(journal', run'[c])
    <2>1. BatchInOrder(outbox, journal, sends, run[c]) /\ BatchInBudget(journal, run[c])
      BY DEF OwnInv
    <2>2. BatchInOrder(outbox', journal', sends', run'[c])
      BY <1>3, <1>4, <1>5, <2>1 DEF BatchInOrder, Retimed
    <2>3. run[c].pc = "wait" => run[c].current.id \in DOMAIN journal.entries
      BY DEF OwnInv, Inv, JournaledOK, Sending
    <2>4. BatchInBudget(journal', run'[c])
      BY <1>3, <2>1, <2>3 DEF BatchInBudget, Retimed
    <2> QED BY <2>2, <2>4
  <1> QED BY <1>6, <1>7 DEF OwnInv

LEMMA OwnReceive ==
    ASSUME OwnInv, Inv', NoFalseConflict', NEW n \in Notification, Receive(n)
    PROVE  OwnInv'
  <1>1. PICK reply \in Replies : Answer(n, reply)
    BY DEF Receive, Replies
  <1>2. UNCHANGED <<outbox, stable, journal, sends>>
    BY DEF Receive, queue
  <1>3. ASSUME NEW c \in Journaled
        PROVE  BatchInOrder(outbox, journal, sends, run'[c]) /\ BatchInBudget(journal, run'[c])
    <2>1. PICK old \in Run : old = run[c]
      BY DEF OwnInv, Inv, TypeOK
    <2>2. PICK new : new = [old EXCEPT !.reply = reply]
      OBVIOUS
    <2>3. new.pc = old.pc /\ new.todo = old.todo /\ new.current = old.current /\ new.policy = old.policy
      BY <2>1, <2>2 DEF Run
    <2>4. BatchInOrder(outbox, journal, sends, old) /\ BatchInBudget(journal, old)
      BY <2>1 DEF OwnInv
    <2>5. BatchInOrder(outbox, journal, sends, new) /\ BatchInBudget(journal, new)
      BY <2>3, <2>4 DEF BatchInOrder, BatchInBudget
    <2>6. run'[c] = new \/ run'[c] = old
      BY <1>1, <2>1, <2>2 DEF Answer
    <2> QED BY <2>4, <2>5, <2>6
  <1> QED BY <1>2, <1>3 DEF OwnInv

LEMMA OwnPowerLoss ==
    ASSUME OwnInv, Inv', NoFalseConflict', PowerLoss
    PROVE  OwnInv'
  <1>1. /\ outbox' \in {outbox, stable} /\ stable' = outbox' /\ UNCHANGED <<journal, sends>>
        /\ \A c \in Consumers : run'[c].pc = "idle"
    <2>1. PICK idle \in Run : idle = [IdleRun EXCEPT !.result = "crashed"] /\ idle.pc = "idle"
      BY IdleIsRun DEF Results
    <2>2. run' = [c \in Consumers |-> IF run[c].pc = "idle" THEN run[c] ELSE idle]
      BY <2>1 DEF PowerLoss
    <2> QED BY <2>1, <2>2 DEF PowerLoss
  <1>2. QueueOK(outbox', stable', journal, sends)
    BY <1>1, OfTheOutbox DEF OwnInv, QueueOK
  <1> QED BY <1>1, <1>2, IdleIsInOrder DEF OwnInv

\* A batch that ends or crashes.
LEMMA OwnEnds ==
    ASSUME OwnInv, Inv', NoFalseConflict', NEW c \in Consumers, NEW x \in Results, End(c, x),
           UNCHANGED <<outbox, stable, journal, sends>>
    PROVE  OwnInv'
  <1>1. run \in [Consumers -> Run]
    BY DEF OwnInv, Inv, TypeOK
  <1>2. run'[c].pc = "idle" /\ \A d \in Consumers : d # c => run'[d] = run[d]
    BY <1>1, EndRun
  <1>3. BatchInOrder(outbox', journal', sends', run'[c]) /\ BatchInBudget(journal', run'[c])
    BY <1>2, IdleIsInOrder
  <1>4. Follows(outbox, outbox')
    BY OfTheOutbox DEF Follows
  <1> QED BY <1>2, <1>3, <1>4, OwnOneRun DEF OwnInv

\* A batch without the journal touches neither document.
LEMMA OwnDirect ==
    ASSUME OwnInv, Inv', NoFalseConflict', NEW c \in Consumers, c \notin Journaled,
           OpenDirect(c) \/ SendDirect(c) \/ RespondDirect(c)
    PROVE  OwnInv'
  <1>1. \A d \in Consumers : d # c => run'[d] = run[d]
    BY DEF OpenDirect, SendDirect, RespondDirect, End, Put, OwnInv, Inv, TypeOK
  <1>2. UNCHANGED <<outbox, stable, journal, sends>>
    BY DEF OpenDirect, SendDirect, RespondDirect, queue
  <1>3. Follows(outbox, outbox')
    BY <1>2, OfTheOutbox DEF Follows
  <1> QED BY <1>1, <1>2, <1>3, OwnOneRun DEF OwnInv

LEMMA OwnOpen ==
    ASSUME OwnInv, Inv', NoFalseConflict', NEW c \in Consumers, Open(c)
    PROVE  OwnInv'
  <1>1. c \in Journaled /\ LockFree /\ UNCHANGED <<outbox, stable, journal, sends>>
    BY DEF Open, queue
  <1>2. CASE End(c, "RECOVERY_REQUIRED")
    BY <1>1, <1>2, OwnEnds DEF Results
  <1>3. ASSUME NEW p \in Policies,
               Put(c, [IdleRun EXCEPT !.pc = "reconcile", !.todo = outbox.events, !.policy = p])
        PROVE  OwnInv'
    <2>1. PICK r : r = [IdleRun EXCEPT !.pc = "reconcile", !.todo = outbox.events, !.policy = p]
      OBVIOUS
    <2>2. r \in Run /\ r.pc = "reconcile" /\ r.todo = outbox.events
      BY <2>1, IdleIsRun, OfTheOutbox DEF IdleRun, Run
    <2>3. run \in [Consumers -> Run]
      BY DEF OwnInv, Inv, TypeOK
    <2>4. run'[c] = r /\ \A d \in Consumers : d # c => run'[d] = run[d]
      BY <1>3, <2>1, <2>2, <2>3, PutRun
    <2>5. BatchInOrder(outbox, journal, sends, r) /\ BatchInBudget(journal, r)
      BY <2>2, OfTheOutbox DEF BatchInOrder, BatchInBudget, Working, Busy
    <2>6. Follows(outbox, outbox')
      BY <1>1, OfTheOutbox DEF Follows
    <2> QED BY <1>1, <2>4, <2>5, <2>6, OwnOneRun DEF OwnInv
  <1> QED BY <1>2, <1>3 DEF Open

\* What a step of a journaled batch has to show of the batch and the documents.
LEMMA OwnBatchStep ==
    ASSUME OwnInv, Inv', NoFalseConflict', NEW c \in Journaled, run[c].pc # "idle",
           NEW r \in Run, Put(c, r), Follows(outbox, outbox'),
           QueueOK(outbox', stable', journal', sends'), SendsOK(journal', sends'),
           BatchInOrder(outbox', journal', sends', r), BatchInBudget(journal', r)
    PROVE  OwnInv'
  <1>1. run \in [Consumers -> Run] /\ c \in Consumers
    BY DEF OwnInv, Inv, TypeOK
  <1>2. run'[c] = r /\ \A d \in Consumers : d # c => run'[d] = run[d]
    BY <1>1, PutRun
  <1> QED BY <1>1, <1>2, OwnOneRun

\* After the first ready notification the batch is still in order: what it left
\* behind is in the journal.
LEMMA LaterInOrder ==
    ASSUME OwnInv, NEW c \in Journaled, run[c].pc = "next", NEW n \in Ready(c),
           \A m \in Ready(c) : n.id <= m.id,
           NEW dom, n.id \in dom, DOMAIN journal.entries \subseteq dom
    PROVE  /\ \A m \in outbox.events : m.id <= n.id => m.id \in dom
           /\ \A k \in Later(c, n) : \A m \in outbox.events :
                m.id <= k.id => m.id \in dom \/ m \in Later(c, n)
  <1>1. /\ run[c].todo \subseteq Notification /\ n \in run[c].todo
        /\ \A m \in outbox.events : m.id \in Nat
    BY OfTheOutbox DEF OwnInv, Inv, TypeOK, Run, Ready, Notification, Ids
  <1>2. \A m \in run[c].todo : m.id \in Nat
    BY <1>1 DEF Notification, Ids
  <1>3. ASSUME NEW m \in run[c].todo, m.id <= n.id PROVE m.id \in dom
    <2>1. m.id \notin DOMAIN journal.entries => m \in Ready(c)
      BY DEF Ready, Known, Entries
    <2> QED BY <1>1, <1>2, <1>3, <2>1
  <1>4. ASSUME NEW k \in run[c].todo, NEW m \in outbox.events, m.id <= k.id
        PROVE  m.id \in DOMAIN journal.entries \/ m \in run[c].todo
    BY <1>4 DEF OwnInv, BatchInOrder, Working
  <1>5. ASSUME NEW m \in outbox.events, m.id <= n.id PROVE m.id \in dom
    BY <1>1, <1>3, <1>4, <1>5
  <1>6. ASSUME NEW k \in Later(c, n), NEW m \in outbox.events, m.id <= k.id
        PROVE  m.id \in dom \/ m \in Later(c, n)
    <2>1. m.id \in DOMAIN journal.entries \/ m \in run[c].todo
      BY <1>4, <1>6 DEF Later
    <2>2. m.id <= n.id \/ m.id > n.id
      BY <1>1, <1>2
    <2> QED BY <1>5, <2>1, <2>2 DEF Later
  <1> QED BY <1>5, <1>6

LEMMA OwnRecoverAck ==
    ASSUME OwnInv, Inv', NoFalseConflict', NEW c \in Consumers, RecoverAck(c)
    PROVE  OwnInv'
  <1>1. PICK n : n = First(Ready(c))
    OBVIOUS
  <1>2. PICK r : r = [run[c] EXCEPT !.pc = "ack", !.todo = Later(c, n), !.current = n]
    OBVIOUS
  <1>3. /\ c \in Journaled /\ run[c].pc = "next" /\ ~BatchOver(c) /\ Known(n.id) /\ Put(c, r)
        /\ UNCHANGED <<outbox, stable, journal, sends>>
    BY <1>1, <1>2 DEF RecoverAck, queue
  <1>4. n \in Ready(c) /\ n \in Notification /\ \A m \in Ready(c) : n.id <= m.id
    BY <1>1, <1>3, Selected DEF Ready, BatchOver, OwnInv
  <1>5. r \in Run /\ r.pc = "ack" /\ r.todo = Later(c, n) /\ r.policy = run[c].policy
    <2>1. run[c] \in Run
      BY DEF OwnInv, Inv, TypeOK
    <2> QED BY <1>2, <1>4, <2>1 DEF Run, Later
  <1>6. \A k \in Later(c, n) : \A m \in outbox.events :
          m.id <= k.id => m.id \in DOMAIN journal.entries \/ m \in Later(c, n)
    BY <1>3, <1>4, LaterInOrder DEF Known, Entries
  <1>7. BatchInOrder(outbox, journal, sends, run[c]) /\ BatchInBudget(journal, run[c])
    BY <1>3 DEF OwnInv
  <1>8. BatchInOrder(outbox, journal, sends, r)
    BY <1>3, <1>5, <1>6, <1>7 DEF BatchInOrder, Later
  <1>9. BatchInBudget(journal, r)
    BY <1>3, <1>5, <1>7 DEF BatchInBudget, Later, Working
  <1>10. Follows(outbox, outbox')
    BY <1>3, OfTheOutbox DEF Follows
  <1> QED BY <1>3, <1>5, <1>8, <1>9, <1>10, OwnBatchStep DEF OwnInv

LEMMA OwnBegin ==
    ASSUME OwnInv, Inv', NoFalseConflict', NEW c \in Consumers, Begin(c)
    PROVE  OwnInv'
  <1>1. /\ c \in Journaled /\ run[c].pc = "next" /\ ~BatchOver(c)
        /\ Known(Selection(c).id) => Entries[Selection(c).id].state # "accepted"
        /\ UNCHANGED outbox
    BY BeginSplits
  <1>2. CASE End(c, "FORBIDDEN") /\ UNCHANGED <<journal, stable, inflight, sends>>
    BY <1>1, <1>2, OwnEnds DEF Results
  <1>3. CASE Attempts(c)
    <2>1. PICK n, r : n = Selection(c) /\ r = Attempting(c)
      OBVIOUS
    <2>2. /\ n \in run[c].todo /\ n \in Notification /\ n \in Ready(c)
          /\ \A m \in Ready(c) : n.id <= m.id
          /\ r \in Run /\ r.pc = "wait" /\ r.todo = Later(c, n) /\ r.current = n
          /\ r.policy = run[c].policy
          /\ JournalType(journal') /\ journal'.highWater = journal.highWater
          /\ Sets(journal, journal', n.id, Attempt(n))
      BY <1>1, <1>3, <2>1, AttemptFacts DEF OwnInv
    <2>3. PICK e \in Entry :
             /\ e = Attempt(n) /\ e.event = n.event /\ e.state = "sending"
             /\ e.attempts = IF Known(n.id) THEN Entries[n.id].attempts + 1 ELSE 1
      BY <2>2, AttemptIsEntry DEF OwnInv
    <2>4. Sets(journal, journal', n.id, e)
      BY <2>2, <2>3
    <2>5. /\ sends' = [sends EXCEPT ![n.id] = @ + 1] /\ sends \in [Ids -> Nat] /\ n.id \in Ids
          /\ stable' = outbox /\ Put(c, r)
      BY <1>3, <2>1, <2>2 DEF Attempts, WriteJournal, OwnInv, Inv, TypeOK, Notification
    <2>6. /\ BatchInOrder(outbox, journal, sends, run[c]) /\ BatchInBudget(journal, run[c])
          /\ OfThis(outbox, n) /\ Unsent(journal, sends, n)
      BY <1>1, <2>2 DEF OwnInv, Inv, BatchOK, BatchInOrder
    <2>7. QueueOK(outbox', stable', journal', sends')
      <3>1. ASSUME NEW m \in outbox.events PROVE Fits(journal', m) /\ Unsent(journal', sends', m)
        <4>1. Fits(journal, m) /\ Unsent(journal, sends, m) /\ m.id \in Ids
          BY OfTheOutbox DEF Notification
        <4>2. CASE m.id = n.id
          <5>1. m = n
            BY <2>6, <4>2 DEF OfThis
          <5> QED BY <2>3, <2>4, <5>1 DEF Fits, Unsent, Sets
        <4>3. CASE m.id # n.id
          BY <2>2, <2>4, <2>5, <4>1, <4>3 DEF Fits, Unsent, Sets
        <4> QED BY <4>2, <4>3
      <3>2. n.id < outbox.next
        BY <2>6 DEF OfThis
      <3>3. \A i \in DOMAIN journal'.entries : i < outbox.next
        BY <2>4, <3>2, OfTheOutbox DEF Sets
      <3>4. \A i \in Ids : i >= outbox.next => sends'[i] = 0
        BY <2>5, <3>2, OfTheOutbox
      <3> QED BY <1>1, <2>2, <2>5, <3>1, <3>3, <3>4, OfTheOutbox, SyncedQueue
    <2>8. SendsOK(journal', sends')
      <3>1. JournalType(journal) /\ SendsOK(journal, sends)
        BY DEF OwnInv, Inv, TypeOK
      <3>2. \A i \in DOMAIN journal.entries : i \in Ids /\ journal.entries[i].attempts \in Nat
        BY <3>1 DEF JournalType, Entry
      <3>3. sends'[n.id] = sends[n.id] + 1 /\ sends[n.id] \in Nat
        BY <2>5
      <3>4. sends'[n.id] <= e.attempts
        BY <2>3, <2>6, <3>1, <3>2, <3>3 DEF SendsOK, Unsent, Known, Entries
      <3>5. ASSUME NEW i \in DOMAIN journal.entries, i # n.id
            PROVE  sends'[i] <= journal'.entries[i].attempts
        BY <2>4, <2>5, <3>1, <3>2, <3>5 DEF SendsOK, Sets
      <3> QED BY <2>4, <3>4, <3>5 DEF SendsOK, Sets
    <2>9. BatchInOrder(outbox, journal', sends', r)
      <3>1. /\ \A m \in outbox.events : m.id <= n.id => m.id \in DOMAIN journal'.entries
            /\ \A k \in Later(c, n) : \A m \in outbox.events :
                 m.id <= k.id => m.id \in DOMAIN journal'.entries \/ m \in Later(c, n)
        BY <1>1, <2>2, <2>4, LaterInOrder DEF Sets
      <3>2. ASSUME NEW m \in Later(c, n) PROVE Unsent(journal', sends', m)
        <4>1. m \in run[c].todo /\ m.id > n.id /\ m.id \in Ids
          BY DEF Later, OwnInv, Inv, TypeOK, Run, Notification
        <4>2. Unsent(journal, sends, m) /\ m.id # n.id
          BY <1>1, <2>6, <4>1 DEF BatchInOrder, Ids
        <4> QED BY <2>4, <2>5, <4>1, <4>2 DEF Unsent, Sets
      <3> QED BY <2>2, <3>1, <3>2 DEF BatchInOrder
    <2>10. BatchInBudget(journal', r)
      <3>1. ASSUME NEW m \in Later(c, n), m.id \in DOMAIN journal'.entries,
                   journal'.entries[m.id].state = "pending"
            PROVE  journal'.entries[m.id].attempts < r.policy
        <4>1. m \in run[c].todo /\ m.id # n.id
          BY <2>2 DEF Later, OwnInv, Inv, TypeOK, Run, Notification, Ids
        <4> QED BY <1>1, <2>2, <2>4, <2>6, <3>1, <4>1 DEF BatchInBudget, Sets, Working
      <3>2. e.attempts <= r.policy
        <4>1. r.policy \in Nat \ {0}
          BY <2>2 DEF Run
        <4>2. Known(n.id) => /\ Entries[n.id].attempts < r.policy
                             /\ Entries[n.id].attempts \in Nat
          <5>1. Known(n.id) => Entries[n.id].state = "pending"
            BY <1>1, <2>1, <2>2 DEF Ready
          <5>2. Known(n.id) => Entries[n.id].attempts \in Nat
            BY DEF OwnInv, Inv, TypeOK, JournalType, Known, Entries, Entry
          <5> QED BY <1>1, <2>2, <2>6, <5>1, <5>2 DEF BatchInBudget, Working, Known, Entries
        <4> QED BY <2>3, <4>1, <4>2
      <3> QED BY <2>2, <2>4, <3>1, <3>2 DEF BatchInBudget, Sets
    <2>11. Follows(outbox, outbox')
      BY <1>1, OfTheOutbox DEF Follows
    <2> QED BY <1>1, <2>2, <2>5, <2>7, <2>8, <2>9, <2>10, <2>11, OwnBatchStep
  <1> QED BY <1>2, <1>3, BeginSplits

LEMMA OwnRecord ==
    ASSUME OwnInv, Inv', NoFalseConflict', NEW c \in Consumers, Record(c)
    PROVE  OwnInv'
  <1>1. PICK n : n = run[c].current
    OBVIOUS
  <1>2. /\ c \in Journaled /\ run[c].pc = "wait" /\ UNCHANGED <<outbox, sends>>
        /\ Accepts(c, n) \/ Retries(c, n) \/ GivesUp(c, n)
    BY <1>1, RecordSplits
  <1>3. PICK e \in Entry, h \in Nat :
             /\ e.event = n.event /\ e.state # "sending"
             /\ e.attempts = Entries[n.id].attempts
             /\ h = Larger(journal.highWater, n.id) \/ h = journal.highWater
             /\ e.state = "accepted" => h = Larger(journal.highWater, n.id) /\ n \in receipts
             /\ journal' = [highWater |-> h, entries |-> With(n.id, e)] /\ stable' = outbox
    BY <1>1, <1>2, RecordFacts DEF OwnInv
  <1>4. /\ n \in Notification /\ Sets(journal, journal', n.id, e) /\ journal'.highWater = h
    BY <1>1, <1>2, <1>3, OutcomeFacts DEF OwnInv
  <1>5. /\ BatchInOrder(outbox, journal, sends, run[c]) /\ BatchInBudget(journal, run[c])
        /\ OfThis(outbox, n) /\ n.id \in DOMAIN journal.entries /\ n.id \in Nat
        /\ run[c] \in Run /\ \A m \in run[c].todo : m.id # n.id
    <2>1. BatchOK(outbox, receipts, run[c]) /\ JournaledOK(journal, run[c]) /\ run[c] \in Run
      BY <1>2 DEF OwnInv, Inv, TypeOK
    <2>2. \A m \in run[c].todo : m.id \in Nat
      BY <2>1 DEF Run, Notification, Ids
    <2> QED BY <1>1, <1>2, <1>4, <2>1, <2>2 DEF OwnInv, BatchOK, Busy, JournaledOK, Sending, Notification, Ids
  <1>6. DOMAIN journal'.entries = DOMAIN journal.entries
    BY <1>4, <1>5 DEF Sets
  <1>7. QueueOK(outbox', stable', journal', sends')
    <2>1. ASSUME NEW m \in outbox.events PROVE Fits(journal', m) /\ Unsent(journal', sends', m)
      <3>1. Fits(journal, m) /\ Unsent(journal, sends, m) /\ m.id \in Nat
        BY OfTheOutbox DEF Notification, Ids
      <3>2. m.id \in DOMAIN journal'.entries => journal'.entries[m.id].event = m.event
        <4>1. CASE m.id = n.id
          <5>1. m = n
            BY <1>5, <4>1 DEF OfThis
          <5> QED BY <1>3, <1>4, <5>1 DEF Sets
        <4>2. CASE m.id # n.id
          BY <1>4, <3>1, <4>2 DEF Sets, Fits
        <4> QED BY <4>1, <4>2
      <3>3. m.id \notin DOMAIN journal.entries => m.id > journal.highWater /\ m.id > n.id
        BY <1>1, <1>2, <1>5, <3>1 DEF Fits, BatchInOrder
      <3>4. m.id \notin DOMAIN journal'.entries => m.id > journal'.highWater
        BY <1>3, <1>4, <1>6, <3>3 DEF Larger
      <3> QED BY <1>2, <1>6, <3>1, <3>2, <3>4 DEF Fits, Unsent
    <2>2. h < outbox.next
      BY <1>3, <1>5, OfTheOutbox DEF Larger, OfThis
    <2> QED BY <1>2, <1>3, <1>4, <1>6, <2>1, <2>2, OfTheOutbox, SyncedQueue
  <1>8. SendsOK(journal', sends')
    BY <1>2, <1>3, <1>4, <1>5, <1>6 DEF OwnInv, SendsOK, Sets, Entries
  <1>9. PICK r \in Run : Put(c, r) /\ r.pc \in {"ack", "next"} /\ r.todo = run[c].todo
                         /\ r.policy = run[c].policy
    <2>1. CASE Accepts(c, n)
      <3>1. PICK r : r = [run[c] EXCEPT !.pc = "ack"]
        OBVIOUS
      <3>2. r \in Run /\ r.pc = "ack" /\ r.todo = run[c].todo /\ r.policy = run[c].policy
        BY <1>5, <3>1 DEF Run
      <3> QED BY <2>1, <3>1, <3>2 DEF Accepts
    <2>2. CASE Retries(c, n) \/ GivesUp(c, n)
      <3>1. PICK r : r = [run[c] EXCEPT !.pc = "next", !.count = @ + 1]
        OBVIOUS
      <3>2. r \in Run /\ r.pc = "next" /\ r.todo = run[c].todo /\ r.policy = run[c].policy
        BY <1>2, <3>1, GoesOn DEF Busy, OwnInv
      <3> QED BY <2>2, <3>1, <3>2 DEF Retries, GivesUp
    <2> QED BY <1>2, <2>1, <2>2
  <1>10. BatchInOrder(outbox', journal', sends', r)
    BY <1>2, <1>5, <1>6, <1>9 DEF BatchInOrder, Unsent, Working, Busy
  <1>11. BatchInBudget(journal', r)
    BY <1>2, <1>4, <1>5, <1>6, <1>9 DEF BatchInBudget, Sets, Working, Busy
  <1>12. Follows(outbox, outbox')
    BY <1>2, OfTheOutbox DEF Follows
  <1> QED BY <1>2, <1>7, <1>8, <1>9, <1>10, <1>11, <1>12, OwnBatchStep

LEMMA OwnAck ==
    ASSUME OwnInv, Inv', NoFalseConflict', NEW c \in Consumers, Ack(c)
    PROVE  OwnInv'
  <1>1. run[c].pc = "ack" /\ UNCHANGED <<journal, sends>>
    BY AckSplits
  <1>2. ASSUME NEW x \in {"FORBIDDEN", "UNKNOWN_NOTIFICATION", "RECOVERY_REQUIRED"}, End(c, x),
               UNCHANGED <<outbox, stable, acked>>
        PROVE  OwnInv'
    BY <1>1, <1>2, OwnEnds DEF Results
  <1>3. CASE Acknowledges(c)
    <2>1. PICK n : n = run[c].current
      OBVIOUS
    <2>2. /\ n \in Notification /\ stable' = stable /\ Follows(outbox, outbox')
          /\ outbox'.next = outbox.next /\ outbox'.events = {m \in outbox.events : m.id # n.id}
      BY <1>1, <1>3, <2>1, AcknowledgesFacts DEF OwnInv
    <2>3. PICK r \in Run :
                /\ Put(c, r) /\ r.todo = run[c].todo /\ r.policy = run[c].policy
                /\ IF c \in Journaled THEN r.pc = "forget" /\ r.current = n ELSE r.pc = "next"
      BY <1>1, <1>3, <2>1, AcknowledgesFacts DEF OwnInv
    <2>4. QueueOK(outbox', stable', journal', sends') /\ SendsOK(journal', sends')
      BY <1>1, <2>2 DEF OwnInv, QueueOK
    <2>5. CASE c \in Journaled
      <3>1. BatchInOrder(outbox, journal, sends, run[c]) /\ BatchInBudget(journal, run[c])
        BY <2>5 DEF OwnInv
      <3>2. r.pc = "forget" /\ r.current = n
        BY <2>3, <2>5
      <3>3. BatchInOrder(outbox', journal', sends', r)
        BY <1>1, <2>2, <2>3, <3>1, <3>2 DEF BatchInOrder, Working, Busy
      <3>4. BatchInBudget(journal', r)
        BY <1>1, <2>3, <3>1, <3>2 DEF BatchInBudget, Working, Busy
      <3> QED BY <1>1, <2>2, <2>3, <2>4, <2>5, <3>3, <3>4, OwnBatchStep
    <2>6. CASE c \notin Journaled
      <3>1. run \in [Consumers -> Run]
        BY DEF OwnInv, Inv, TypeOK
      <3>2. \A d \in Consumers : d # c => run'[d] = run[d]
        BY <2>3, <3>1, PutRun
      <3> QED BY <1>1, <2>2, <2>4, <2>6, <3>2, OwnOneRun
    <2> QED BY <2>5, <2>6
  <1> QED BY <1>2, <1>3, AckSplits

LEMMA OwnForget ==
    ASSUME OwnInv, Inv', NoFalseConflict', NEW c \in Consumers, Forget(c)
    PROVE  OwnInv'
  <1>1. PICK n, r : n = run[c].current /\ r = [run[c] EXCEPT !.pc = "next", !.count = @ + 1]
    OBVIOUS
  <1>2. /\ c \in Journaled /\ run[c].pc = "forget" /\ n \in Notification
        /\ Drops(journal, journal', n.id) /\ journal'.highWater = journal.highWater
        /\ stable' = outbox /\ UNCHANGED <<outbox, sends>> /\ Put(c, r)
    BY <1>1, ForgetFacts DEF OwnInv
  <1>3. r \in Run /\ r.pc = "next" /\ r.todo = run[c].todo /\ r.policy = run[c].policy
    BY <1>1, <1>2, GoesOn DEF Busy, OwnInv
  <1>4. /\ BatchInOrder(outbox, journal, sends, run[c]) /\ BatchInBudget(journal, run[c])
        /\ \A m \in outbox.events : m.id # n.id
        /\ \A m \in run[c].todo : m.id # n.id
    <2>1. BatchOK(outbox, receipts, run[c]) /\ run[c] \in Run
      BY DEF OwnInv, Inv, TypeOK
    <2>2. \A m \in run[c].todo : m.id \in Nat
      BY <2>1 DEF Run, Notification, Ids
    <2> QED BY <1>1, <1>2, <2>1, <2>2 DEF OwnInv, BatchOK, BatchInOrder, Busy, Notification, Ids
  <1>5. QueueOK(outbox', stable', journal', sends')
    <2>1. ASSUME NEW m \in outbox.events PROVE Fits(journal', m) /\ Unsent(journal', sends', m)
      BY <1>2, <1>4, OfTheOutbox DEF Fits, Unsent, Drops
    <2> QED BY <1>2, <2>1, OfTheOutbox, SyncedQueue DEF Drops
  <1>6. SendsOK(journal', sends')
    BY <1>2 DEF OwnInv, SendsOK, Drops
  <1>7. BatchInOrder(outbox', journal', sends', r)
    BY <1>2, <1>3, <1>4 DEF BatchInOrder, Unsent, Drops, Working, Busy
  <1>8. BatchInBudget(journal', r)
    BY <1>2, <1>3, <1>4 DEF BatchInBudget, Drops, Working, Busy
  <1>9. Follows(outbox, outbox')
    BY <1>2, OfTheOutbox DEF Follows
  <1> QED BY <1>2, <1>3, <1>5, <1>6, <1>7, <1>8, <1>9, OwnBatchStep

LEMMA OwnReconcile ==
    ASSUME OwnInv, Inv', NoFalseConflict', NEW c \in Consumers, Reconcile(c)
    PROVE  OwnInv'
  <1>1. PICK r : r = [run[c] EXCEPT !.pc = "next"]
    OBVIOUS
  <1>2. ~Conflict(run[c].todo)
    BY NoConflict DEF Reconcile
  <1>3. /\ c \in Journaled /\ run[c].pc = "reconcile" /\ UNCHANGED <<outbox, sends>>
        /\ JournalType(journal') /\ Pruned(journal, journal', run[c].todo, run[c].policy)
        /\ (journal' = journal /\ stable' = stable) \/ stable' = outbox
        /\ Put(c, r)
    BY <1>1, <1>2, ReconcileFacts DEF OwnInv
  <1>4. r \in Run /\ r.pc = "next" /\ r.todo = run[c].todo /\ r.policy = run[c].policy
    <2>1. run[c] \in Run
      BY DEF OwnInv, Inv, TypeOK
    <2> QED BY <1>1, <2>1 DEF Run
  <1>5. /\ \A n \in run[c].todo : Unsent(journal, sends, n) /\ n.id \in Nat
        /\ \A m \in outbox.events :
             /\ m.id \in Nat
             /\ m \in run[c].todo \/ (m.id \notin DOMAIN journal.entries /\ \A n \in run[c].todo : m.id > n.id)
    <2>1. BatchInOrder(outbox, journal, sends, run[c]) /\ run[c] \in Run
      BY <1>3 DEF OwnInv, Inv, TypeOK
    <2> QED BY <1>3, <2>1, OfTheOutbox DEF BatchInOrder, Run, Notification, Ids
  <1>6. ASSUME NEW m \in outbox.events PROVE Fits(journal', m) /\ Unsent(journal', sends', m)
    <2>1. Fits(journal, m) /\ Unsent(journal, sends, m)
      BY OfTheOutbox
    <2>2. CASE m \in run[c].todo
      BY <1>3, <2>1, <2>2 DEF Fits, Unsent, Pruned
    <2>3. CASE m.id \notin DOMAIN journal.entries
      BY <1>3, <2>1, <2>3 DEF Fits, Unsent, Pruned
    <2> QED BY <1>5, <2>2, <2>3
  <1>7. QueueOK(outbox', stable', journal', sends')
    <2>1. CASE journal' = journal /\ stable' = stable
      BY <1>3, <2>1 DEF OwnInv
    <2>2. CASE stable' = outbox
      BY <1>3, <1>6, <2>2, OfTheOutbox, SyncedQueue DEF Pruned
    <2> QED BY <1>3, <2>1, <2>2
  <1>8. SendsOK(journal', sends')
    BY <1>3 DEF OwnInv, SendsOK, Pruned
  <1>9. BatchInOrder(outbox', journal', sends', r)
    <2>1. \A n \in r.todo : Unsent(journal', sends', n)
      BY <1>3, <1>4, <1>5 DEF Unsent, Pruned
    <2>2. \A n \in r.todo : \A m \in outbox.events :
            m.id <= n.id => m.id \in DOMAIN journal'.entries \/ m \in r.todo
      BY <1>4, <1>5
    <2> QED BY <1>3, <1>4, <2>1, <2>2 DEF BatchInOrder
  <1>10. BatchInBudget(journal', r)
    BY <1>3, <1>4 DEF BatchInBudget, Pruned
  <1>11. Follows(outbox, outbox')
    BY <1>3, OfTheOutbox DEF Follows
  <1> QED BY <1>3, <1>4, <1>7, <1>8, <1>9, <1>10, <1>11, OwnBatchStep

LEMMA OwnStep == ~Recreated /\ OwnInv /\ [Next]_vars => OwnInv'
  <1> SUFFICES ASSUME ~Recreated, OwnInv, [Next]_vars PROVE OwnInv'
    OBVIOUS
  <1>1. Inv' /\ NoFalseConflict'
    BY StepInv, ResultStep DEF OwnInv
  <1>2. ASSUME NEW e \in Events, Enqueue(e) PROVE OwnInv'
    BY <1>1, <1>2, OwnEnqueue
  <1>3. ASSUME NEW i \in Ids, Rearm(i) PROVE OwnInv'
    BY <1>1, <1>3, OwnRearm
  <1>4. ASSUME NEW file \in {"outbox", "journal"}, RemoveLeftover(file) PROVE OwnInv'
    BY <1>1, <1>4, OwnUnmoved DEF RemoveLeftover, queue
  <1>5. ASSUME NEW c \in Consumers, Open(c) PROVE OwnInv'
    BY <1>1, <1>5, OwnOpen
  <1>6. ASSUME NEW c \in Consumers, Crash(c) PROVE OwnInv'
    BY <1>1, <1>6, OwnEnds DEF Crash, Results, queue
  <1>7. ASSUME NEW c \in Consumers, OpenDirect(c) \/ SendDirect(c) \/ RespondDirect(c) PROVE OwnInv'
    BY <1>1, <1>7, OwnDirect DEF OpenDirect, SendDirect, RespondDirect
  <1>8. ASSUME NEW c \in Consumers, EndBatch(c) PROVE OwnInv'
    BY <1>1, <1>8, OwnEnds DEF EndBatch, Results, queue
  <1>9. ASSUME NEW c \in Consumers, Batch(c) PROVE OwnInv'
    BY <1>1, <1>7, <1>8, <1>9, OwnReconcile, OwnRecoverAck, OwnBegin, OwnRecord, OwnAck, OwnForget DEF Batch
  <1>10. ASSUME NEW n \in Notification, Receive(n) PROVE OwnInv'
    BY <1>1, <1>10, OwnReceive
  <1>11. CASE RecreateOutbox
    BY <1>11 DEF RecreateOutbox
  <1>12. CASE PowerLoss
    BY <1>1, <1>12, OwnPowerLoss
  <1>13. CASE Tick \/ Rollback
    BY <1>1, <1>13, OwnClock
  <1>14. CASE CrashEnqueue \/ UNCHANGED vars \/ \E permission \in BOOLEAN : SetAllowed(permission)
    BY <1>1, <1>14, OwnUnmoved DEF CrashEnqueue, SetAllowed, vars, queue
  <1> QED BY <1>2, <1>3, <1>4, <1>5, <1>6, <1>7, <1>9, <1>10, <1>11, <1>12, <1>13, <1>14 DEF Next

\* While nobody deletes the outbox, the refusal to present a delivered id again
\* never hits: through crashes, power losses and beside unjournaled consumers,
\* what the queue presents is what the journal knows, or newer than all of it.
THEOREM RefusalIsNeverFalse ==
    ASSUME ~Recreated
    PROVE  Spec => []NoFalseConflict
  <1>1. Spec => []OwnInv
    BY OwnInit, OwnStep, PTL DEF Spec
  <1>2. OwnInv => NoFalseConflict
    BY DEF OwnInv
  <1> QED BY <1>1, <1>2, PTL

\* While nobody deletes the outbox, every request is covered by an attempt that
\* the journal has counted, within the policy of the batch that sends it; and no
\* delay exceeds the policy's maximum.
THEOREM BudgetIsKept ==
    ASSUME ~Recreated
    PROVE  Spec => []BudgetKept
  <1>1. Spec => []OwnInv
    BY OwnInit, OwnStep, PTL DEF Spec
  <1>2. OwnInv => BudgetKept
    <2> SUFFICES ASSUME OwnInv PROVE BudgetKept
      OBVIOUS
    <2>1. JournalType(journal) /\ sends \in [Ids -> Nat] /\ run \in [Consumers -> Run]
      BY DEF OwnInv, Inv, TypeOK
    <2>2. ASSUME NEW c \in Journaled, run[c].pc = "wait"
          PROVE  sends[run[c].current.id] <= run[c].policy
      <3>1. PICK n \in Notification : n = run[c].current
        BY <2>2 DEF OwnInv, Inv, BatchOK, Busy
      <3>2. Sending(journal, n) /\ BatchInBudget(journal, run[c])
        BY <2>2, <3>1 DEF OwnInv, Inv, JournaledOK
      <3>3. sends[n.id] <= journal.entries[n.id].attempts
        BY <3>2 DEF OwnInv, SendsOK, Sending
      <3>4. journal.entries[n.id].attempts <= run[c].policy
        BY <2>2, <3>1, <3>2 DEF BatchInBudget
      <3>5. journal.entries[n.id].attempts \in Nat /\ sends[n.id] \in Nat /\ run[c].policy \in Nat
        BY <2>1, <3>1, <3>2 DEF Sending, JournalType, Entry, Notification, Run
      <3> QED BY <3>1, <3>3, <3>4, <3>5
    <2>3. \A i \in DOMAIN Entries : Entries[i].wait \in Waits
      BY <2>1 DEF JournalType, Entries, Entry
    <2> QED BY <2>2, <2>3 DEF BudgetKept
  <1> QED BY <1>1, <1>2, PTL

-----------------------------------------------------------------------------
(* The journal through one step, in every use.                              *)

\* What of a journal j is still in a later one, k.
Rearmed(x, y) == x.state = "terminal" /\ y.state = "pending" /\ y.attempts = 0
Continues(x, y) ==
    /\ y.event = x.event
    /\ x.state = "accepted" => y.state = "accepted"
    /\ \/ x.attempts <= y.attempts /\ (x.state = "terminal" => y.state = "terminal")
       \/ Rearmed(x, y)
Remembers(j, k) ==
    /\ j.highWater <= k.highWater
    /\ \A i \in DOMAIN j.entries \intersect DOMAIN k.entries : Continues(j.entries[i], k.entries[i])

\* An entry that is carried over continues itself, and so does a whole journal.
LEMMA SameContinues ==
    ASSUME NEW x \in Entry
    PROVE  Continues(x, x)
  <1>1. x.attempts \in Nat
    BY DEF Entry
  <1> QED BY <1>1 DEF Continues

LEMMA SetContinues ==
    ASSUME JournalType(journal), NEW k, NEW i, NEW e, Sets(journal, k, i, e),
           k.highWater \in Nat, journal.highWater <= k.highWater,
           i \in DOMAIN journal.entries => Continues(journal.entries[i], e)
    PROVE  Remembers(journal, k)
  <1>1. ASSUME NEW x \in DOMAIN journal.entries PROVE Continues(journal.entries[x], k.entries[x])
    <2>1. journal.entries[x] \in Entry
      BY DEF JournalType
    <2>2. CASE x = i
      BY <2>2 DEF Sets
    <2>3. CASE x # i
      BY <2>1, <2>3, SameContinues DEF Sets
    <2> QED BY <2>2, <2>3
  <1> QED BY <1>1 DEF Remembers

LEMMA SubsetContinues ==
    ASSUME JournalType(journal), NEW k, k.highWater = journal.highWater,
           \A i \in DOMAIN journal.entries \intersect DOMAIN k.entries :
             \/ k.entries[i] = journal.entries[i]
             \/ /\ k.entries[i].event = journal.entries[i].event
                /\ k.entries[i].attempts = journal.entries[i].attempts
                /\ journal.entries[i].state = "accepted" => k.entries[i].state = "accepted"
                /\ journal.entries[i].state = "terminal" => k.entries[i].state = "terminal"
    PROVE  Remembers(journal, k)
  <1>1. journal.highWater \in Nat
    BY DEF JournalType
  <1>2. ASSUME NEW i \in DOMAIN journal.entries \intersect DOMAIN k.entries
        PROVE  Continues(journal.entries[i], k.entries[i])
    <2>1. journal.entries[i].attempts \in Nat
      BY DEF JournalType, Entry
    <2> QED BY <2>1 DEF Continues
  <1> QED BY <1>1, <1>2 DEF Remembers

LEMMA RearmRemembers ==
    ASSUME Inv, NEW i \in Ids, Rearm(i)
    PROVE  Remembers(journal, journal')
  <1>1. PICK e : e = [Entries[i] EXCEPT !.state = "pending", !.attempts = 0, !.wait = 0]
    OBVIOUS
  <1>2. JournalType(journal) /\ Known(i) /\ Entries[i] \in Entry /\ Entries[i].state = "terminal"
    BY DEF Inv, TypeOK, JournalType, Rearm, Known, Entries
  <1>3. e \in Entry /\ e.event = Entries[i].event /\ e.state = "pending" /\ e.attempts = 0
    <2>1. 0 \in Waits
      BY DEF Waits, Beyond
    <2> QED BY <1>1, <1>2, <2>1 DEF Entry, States
  <1>4. journal' = [highWater |-> journal.highWater, entries |-> With(i, e)]
    BY <1>1, <1>2, EntriesChanged DEF Rearm, WriteJournal
  <1>5. journal.highWater \in Nat
    BY <1>2 DEF JournalType
  <1>6. Sets(journal, journal', i, e) /\ journal'.highWater = journal.highWater
    BY <1>2, <1>3, <1>4, <1>5, WithSets
  <1>7. Continues(journal.entries[i], e)
    BY <1>2, <1>3 DEF Continues, Rearmed, Entries
  <1>8. journal.highWater <= journal'.highWater /\ journal'.highWater \in Nat
    BY <1>5, <1>6
  <1> QED BY <1>2, <1>6, <1>7, <1>8, SetContinues

\* Only a notification that is new or pending is attempted, once more than before.
LEMMA BeginRemembers ==
    ASSUME Inv, NEW c \in Consumers, Begin(c)
    PROVE  Remembers(journal, journal')
  <1>1. /\ c \in Journaled /\ run[c].pc = "next" /\ ~BatchOver(c)
        /\ Known(Selection(c).id) => Entries[Selection(c).id].state # "accepted"
    BY BeginSplits
  <1>2. JournalType(journal) /\ journal.highWater \in Nat
    BY DEF Inv, TypeOK, JournalType
  <1>3. CASE journal' = journal
    BY <1>2, <1>3, SubsetContinues
  <1>4. CASE Attempts(c)
    <2>1. PICK n : n = Selection(c)
      OBVIOUS
    <2>2. PICK r : r = Attempting(c)
      OBVIOUS
    <2>3. /\ n \in Notification /\ n \in Ready(c) /\ n \in run[c].todo
          /\ journal'.highWater = journal.highWater /\ Sets(journal, journal', n.id, Attempt(n))
      BY <1>1, <1>4, <2>1, <2>2, AttemptFacts
    <2>4. ASSUME n.id \in DOMAIN journal.entries
          PROVE  Continues(journal.entries[n.id], Attempt(n))
      <3>1. journal.entries[n.id].state = "pending"
        BY <1>1, <2>1, <2>3, <2>4 DEF Ready, Known, Entries
      <3>2. journal.entries[n.id].event = n.event
        BY <1>1, <2>3, <2>4 DEF Inv, JournaledOK, Working, Fits
      <3>3. /\ Attempt(n).event = n.event
            /\ Attempt(n).attempts = journal.entries[n.id].attempts + 1
        BY <2>3, <2>4, AttemptIsEntry DEF Known, Entries
      <3>4. journal.entries[n.id].attempts \in Nat
        BY <1>2, <2>4 DEF JournalType, Entry
      <3> QED BY <3>1, <3>2, <3>3, <3>4 DEF Continues
    <2>5. journal.highWater <= journal'.highWater /\ journal'.highWater \in Nat
      BY <1>2, <2>3
    <2> QED BY <1>2, <2>3, <2>4, <2>5, SetContinues
  <1> QED BY <1>3, <1>4, BeginSplits

\* An outcome is written over the attempt that it is the outcome of.
LEMMA RecordRemembers ==
    ASSUME Inv, NEW c \in Consumers, Record(c)
    PROVE  Remembers(journal, journal')
  <1>1. PICK n : n = run[c].current
    OBVIOUS
  <1>2. c \in Journaled /\ run[c].pc = "wait" /\ (Accepts(c, n) \/ Retries(c, n) \/ GivesUp(c, n))
    BY <1>1, RecordSplits
  <1>3. PICK e \in Entry, h \in Nat :
          /\ e.event = n.event /\ e.state # "sending" /\ e.attempts = Entries[n.id].attempts
          /\ h = Larger(journal.highWater, n.id) \/ h = journal.highWater
          /\ journal' = [highWater |-> h, entries |-> With(n.id, e)]
    BY <1>1, <1>2, RecordFacts
  <1>4. n \in Notification /\ Sending(journal, n) /\ JournalType(journal)
    BY <1>1, <1>2 DEF Inv, TypeOK, BatchOK, JournaledOK, Busy
  <1>5. n.id \in Ids /\ n.id \in Nat /\ journal.highWater \in Nat
    BY <1>4 DEF Notification, Ids, JournalType
  <1>6. Sets(journal, journal', n.id, e) /\ journal'.highWater = h
    BY <1>3, <1>4, <1>5, WithSets
  <1>7. journal.highWater <= h
    BY <1>3, <1>5 DEF Larger
  <1>8. Continues(journal.entries[n.id], e)
    <2>1. e.attempts \in Nat
      BY DEF Entry
    <2> QED BY <1>3, <1>4, <2>1 DEF Continues, Sending, Entries
  <1> QED BY <1>4, <1>6, <1>7, <1>8, SetContinues

LEMMA BatchRemembers ==
    ASSUME Inv, NEW c \in Consumers, Batch(c)
    PROVE  Remembers(journal, journal')
  <1>1. JournalType(journal)
    BY DEF Inv, TypeOK
  <1>2. CASE journal' = journal
    BY <1>1, <1>2, SubsetContinues
  <1>3. CASE Reconcile(c)
    <2>1. CASE Conflict(run[c].todo)
      BY <1>2, <1>3, <2>1 DEF Reconcile
    <2>2. CASE ~Conflict(run[c].todo)
      <3>1. Pruned(journal, journal', run[c].todo, run[c].policy)
        BY <1>3, <2>2, ReconcileFacts
      <3> QED BY <1>1, <3>1, SubsetContinues DEF Pruned
    <2> QED BY <2>1, <2>2
  <1>4. CASE Forget(c)
    <2>1. PICK n : n = run[c].current
      OBVIOUS
    <2>2. Drops(journal, journal', n.id) /\ journal'.highWater = journal.highWater
      BY <1>4, <2>1, ForgetFacts
    <2> QED BY <1>1, <2>2, SubsetContinues DEF Drops
  <1>5. CASE EndBatch(c) \/ RecoverAck(c) \/ Ack(c) \/ SendDirect(c) \/ RespondDirect(c)
    BY <1>2, <1>5 DEF EndBatch, RecoverAck, Ack, SendDirect, RespondDirect
  <1> QED BY <1>3, <1>4, <1>5, BeginRemembers, RecordRemembers DEF Batch

LEMMA StepRemembers == Inv /\ [Next]_vars => Remembers(journal, journal')
  <1> SUFFICES ASSUME Inv, [Next]_vars PROVE Remembers(journal, journal')
    OBVIOUS
  <1>1. JournalType(journal)
    BY DEF Inv, TypeOK
  <1>2. CASE journal' = journal
    BY <1>1, <1>2, SubsetContinues
  <1>3. ASSUME NEW i \in Ids, Rearm(i) PROVE Remembers(journal, journal')
    BY <1>3, RearmRemembers
  <1>4. ASSUME NEW c \in Consumers, Batch(c) PROVE Remembers(journal, journal')
    BY <1>4, BatchRemembers
  <1>5. CASE Tick \/ Rollback
    <2>1. PICK waits \in [DOMAIN Entries -> Waits] : ClockMoves(waits)
      BY <1>5 DEF Tick, Rollback
    <2>2. Retimed(journal, journal')
      BY <1>1, <2>1, ClockRetimes
    <2> QED BY <1>1, <2>2, SubsetContinues DEF Retimed
  <1>6. ASSUME NEW c \in Consumers, Open(c) \/ OpenDirect(c) \/ Crash(c)
        PROVE  Remembers(journal, journal')
    BY <1>2, <1>6 DEF Open, OpenDirect, Crash
  <1>7. ASSUME \/ \E e \in Events : Enqueue(e)
               \/ \E file \in {"outbox", "journal"} : RemoveLeftover(file)
               \/ \E n \in Notification : Receive(n)
               \/ RecreateOutbox \/ CrashEnqueue \/ PowerLoss
               \/ \E permission \in BOOLEAN : SetAllowed(permission)
               \/ UNCHANGED vars
        PROVE  Remembers(journal, journal')
    BY <1>2, <1>7 DEF Enqueue, RemoveLeftover, Receive, RecreateOutbox, CrashEnqueue, PowerLoss,
       SetAllowed, vars
  <1> QED BY <1>3, <1>4, <1>5, <1>6, <1>7 DEF Next

\* The journal never forgets an attempt that it still has an entry for: the high
\* water does not fall, an id keeps its envelope, accepted stays accepted, and
\* the count of attempts falls, and terminal ends, only where an operator rearms
\* the notification; through crashes, clock rollbacks, changed policies and a
\* deleted outbox (notification_journal.py: reconcile, begin, accepted, retry,
\* terminal, forget, rearm).
THEOREM JournalIsKept == Spec => [][Remembers(journal, journal')]_vars
  <1>1. Spec => []Inv
    BY InitInv, StepInv, PTL DEF Spec
  <1>2. Inv /\ [Next]_vars => [Remembers(journal, journal')]_vars
    BY StepRemembers
  <1> QED BY <1>1, <1>2, PTL DEF Spec
=============================================================================
