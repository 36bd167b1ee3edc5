---------------------------- MODULE OperationLog ----------------------------
(***************************************************************************)
(* What the audited administrative history and the draft histories promise:*)
(* append-only streams.  A request is appended at most once, under its     *)
(* caller's operation id, to exactly the revision it was computed from,    *)
(* and nothing that was appended ever changes.                             *)
(***************************************************************************)
EXTENDS Integers, Sequences

CONSTANTS Streams, Operations, Requests

VARIABLE logs

Used(o) == \E s \in Streams : \E i \in DOMAIN logs[s] : logs[s][i].operation = o

Init == logs = [s \in Streams |-> << >>]

Add(s, o, request) ==
    /\ ~Used(o)
    /\ request.expected = Len(logs[s])
    /\ logs' = [logs EXCEPT ![s] = Append(@, [operation |-> o, request |-> request])]

\* Every step appends (said first: TLC then sees at once which steps do not).
Next == logs' # logs /\ \E s \in Streams, o \in Operations, request \in Requests : Add(s, o, request)

Spec == Init /\ [][Next]_logs
=============================================================================
