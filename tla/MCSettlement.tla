------------------------------ MODULE MCSettlement ------------------------------
(***************************************************************************)
(* What must eventually happen, on small instances: the settlement of      *)
(* developer transfers by overlapping requests, the delivery of an event   *)
(* to an endpoint (Hooks), and requests that wait for each other's keys,   *)
(* rows and connections (Requests).  A behaviour is one of them, told      *)
(* apart by focus, and fair to the part that runs.                         *)
(***************************************************************************)
EXTENDS DeveloperHistory, TLC

CONSTANTS r1, r2, e1, v1, w2, w3, p1, p2, h1, h2, h3, q1, q2, s1, s2, x1, x2, Nobody

VARIABLES
  focus,                                                       \* the part that runs
  endpoint, row, queue, delayed, due, dispatch, worker, promoter, accepted, losses,
  kept, journal, keyLock, refLock, rowLock, request, reply

hookVars == <<endpoint, row, queue, delayed, due, dispatch, worker, promoter, accepted, losses>>
requestVars == <<kept, journal, keyLock, refLock, rowLock, request, reply>>
transferVars == <<vars, history>>
allVars == <<focus, transferVars, hookVars, requestVars>>

\* What overlaps: every operation on a transfer whose webhooks share an id (r1), or on
\* one whose webhooks do not (r2), or initiations of both under one key.
ById == focus = "by id"
ByName == focus = "by name"
OneKey == focus = "one key"
Jobs == {job[w] : w \in Worker} \ {NoJob}
Concerned ==
  CASE ById   -> \A j \in Jobs : j.ref = r1
    [] ByName -> \A j \in Jobs : j.ref = r2
    [] OneKey -> \A j \in Jobs : j.kind = "initiate"

\* The transfer that is worked on, where what it settles as must show.
Settling == ById \/ ByName
Focus == IF ById THEN r1 ELSE r2

Hooks == INSTANCE WebhookDelivery WITH
  Endpoint <- {e1}, Event <- {v1}, Worker <- {w2, w3}, Promoter <- {p1, p2},
  MaxAttempts <- 3, MaxLosses <- 1, NoRow <- NoRecord

\* Two opposite payouts, and a transfer with the reference of the one and the key of the
\* other, in a pool of two connections.
Sent(key, kind, ref, from, to) ==
  [key |-> key, payload |-> [kind |-> kind, ref |-> ref, from |-> from, to |-> to]]
Handler == {h1, h2, h3}
Opposite ==
  [w \in Handler |-> CASE w = h1 -> Sent(q1, "payout", s1, x1, x2)
                       [] w = h2 -> Sent(q2, "payout", s2, x2, x1)
                       [] w = h3 -> Sent(q2, "ledger", s1, x1, x2)]

Requests == INSTANCE IdempotentRequests WITH
  Worker <- Handler, Key <- {q1, q2}, Ref <- {s1, s2}, Account <- {x1, x2},
  Payload <- {Opposite[w].payload : w \in Handler}, Batch <- {Opposite},
  Before <- LAMBDA x, y : x = x1 /\ y = x2, MaxConnections <- 2,
  NoJournal <- NoRecord, record <- kept

SettlementInit ==
  /\ focus \in {"by id", "by name", "one key", "hooks", "requests"}
  /\ HInit /\ Hooks!Init /\ Requests!Init
  /\ rail[r1] = rail[r2]
  /\ ~ById => rail[r1] = "paystack"

\* Only r1 and r2 as the focus says are worked on; where keys alone matter, the
\* provider takes its time.
TransfersNext ==
  /\ focus \in {"by id", "by name", "one key"}
  /\ HNext
  /\ Concerned'
  /\ IF OneKey THEN \A r \in Ref : upstream'[r] \notin {"success", "failed"} ELSE TRUE

SettlementNext ==
  /\ UNCHANGED focus
  /\ \/ TransfersNext /\ UNCHANGED <<hookVars, requestVars>>
     \/ focus = "hooks" /\ Hooks!Next /\ UNCHANGED <<transferVars, requestVars>>
     \/ focus = "requests" /\ Requests!Next /\ UNCHANGED <<transferVars, hookVars>>

\* Node runs a request to its end and is not killed for ever; the provider settles what
\* it accepted and repeats that webhook until it is answered.
SettlementFairness ==
  /\ <>[][Settling => \A w \in Worker : ~Crash(w)]_vars
  /\ \A w \in Worker : WF_vars(Settling /\ Step(w))
  /\ WF_vars(Settling /\ Settle(Focus))
  /\ \A s \in {"successful", "failed"} :
       SF_vars(Settling /\ \E w \in Worker : StartWebhook(w, Focus, s))

\* The fairness of the other two; IdempotentRequests has its own.
HookFairness ==
  /\ \A v \in {v1} : WF_hookVars(focus = "hooks" /\ (Hooks!CreateRow(v) \/ Hooks!Enqueue(v)))
  /\ \A w \in {w2, w3} : WF_hookVars(focus = "hooks" /\ Hooks!Poll(w))
  /\ \A p \in {p1, p2} : WF_hookVars(focus = "hooks" /\ Hooks!Promote(p))
  /\ WF_hookVars(focus = "hooks" /\ Hooks!Elapse)

RequestFairness == WF_requestVars(focus = "requests" /\ \E w \in Handler : Requests!Advance(w))

Settlement ==
  /\ SettlementInit /\ [][SettlementNext]_allVars
  /\ SettlementFairness /\ HookFairness /\ RequestFairness

\* Every job of an outgoing webhook is worked off: retries end, no delayed job is forgotten
\* (BackgroundWorker.poll, processWebhookDelivery and promoteDelayedJobs).
JobsAreWorkedOff == Hooks!JobsAreWorkedOff

\* Every request ends, although ledger transfers wait for a second connection while they
\* hold the first and payouts lock their wallets in opposite orders
\* (IdempotencyService.runIdempotent, initiateTransfer, LedgerService.transfer).
RequestsEnd == <>[](focus = "requests" => \A w \in Handler : Requests!At(w, "ended"))
=================================================================================
