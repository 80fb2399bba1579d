---------------------------- MODULE ExternalTransfers ----------------------------
(***************************************************************************)
(* Ledger-backed external transfers of one project: the external branch of *)
(* TransferService.initiateTransfer, settleTransfer and reverseTransfer,   *)
(* the webhook branch and the sandbox simulation that call them.           *)
(*                                                                         *)
(* The hold, the provider call and whatever the provider answers at once   *)
(* are one database transaction under the wallet's row lock: its writes    *)
(* become visible, together, when it commits.  A resolution by webhook or  *)
(* simulation is a second transaction, which locks nothing before it       *)
(* writes.                                                                 *)
(***************************************************************************)
EXTENDS Integers, Functions

CONSTANTS
  Worker,       \* requests that may be in flight at once
  Resolver,     \* those of them that may be webhooks or simulations
  Wallet,       \* customer accounts, all active and in one currency
  Ref,          \* client references, unique per project
  Amount,       \* amounts in minor units
  Opening,      \* balance of each wallet when the model starts
  Kinds,        \* the operations that are called
  Faults,       \* what may go wrong
  MaxDispatch,  \* bound: how often one reference may be sent to the provider
  NoWorker, NoTransfer, NoJob

OperationKinds == {"hold", "webhook", "simulate"}
FaultKinds == {"timeout", "network", "rollback"}

ASSUME WorkerAssumption == Resolver \subseteq Worker /\ NoWorker \notin Worker
ASSUME AmountAssumption == Amount \subseteq Nat \ {0}
ASSUME OpeningAssumption == Opening \in [Wallet -> Nat]
ASSUME KindAssumption == Kinds \subseteq OperationKinds /\ Faults \subseteq FaultKinds
ASSUME BoundAssumption == MaxDispatch \in Nat

VARIABLES
  wallet,      \* the cached available and pending balances of the Account rows
  transfer,    \* Transfer rows by reference
  posted,      \* how many hold_, settle_ and rev_hold_ journals each reference has
  event,       \* WebhookEvent.status by event; "none" where there is no row
  lock,        \* which worker's transaction holds each Account row
  upstream,    \* the provider's own word for the reference
  dispatched,  \* how many requests for the reference the provider accepted
  pc, job      \* per worker: the step it is at, and what it works on

tables == <<wallet, transfer, posted, event>>
provider == <<upstream, dispatched>>
vars == <<tables, lock, provider, pc, job>>

Status == {"pending", "processing", "successful", "failed"}
Outcome == {"successful", "failed"}
Event == Ref \X Outcome

Transfer == [from : Wallet, amount : Amount, status : Status]
Cached == [available : Int, pending : Int]
Postings == [hold : Nat, settle : Nat, release : Nat]

\* seen is the Account row the worker has read; target the status it will write.
Hold == [kind : {"hold"}, ref : Ref, from : Wallet, amount : Amount,
         seen : Cached, target : Status]
Resolution == [kind : {"webhook", "simulate"}, ref : Ref, seen : Cached,
               target : Outcome]

ASSUME DistinctAssumption == NoTransfer \notin Transfer

Steps == {"idle", "source lock", "checking", "inserting", "calling", "answer",
          "committing", "locate", "resolving", "reading", "posting",
          "processed", "ignored", "unmatched"}

TypeOK ==
  /\ wallet \in [Wallet -> Cached]
  /\ transfer \in [Ref -> Transfer \cup {NoTransfer}]
  /\ posted \in [Ref -> Postings]
  /\ event \in [Event -> {"none", "received", "processed", "ignored", "unmatched"}]
  /\ lock \in [Wallet -> Worker \cup {NoWorker}]
  /\ upstream \in [Ref -> {"none", "accepted", "paid", "refused"}]
  /\ dispatched \in [Ref -> Nat]
  /\ pc \in [Worker -> Steps]
  /\ job \in [Worker -> Hold \cup Resolution \cup {NoJob}]

Init ==
  /\ wallet = [a \in Wallet |-> [available |-> Opening[a], pending |-> 0]]
  /\ transfer = [r \in Ref |-> NoTransfer]
  /\ posted = [r \in Ref |-> [hold |-> 0, settle |-> 0, release |-> 0]]
  /\ event = [e \in Event |-> "none"]
  /\ lock = [a \in Wallet |-> NoWorker]
  /\ upstream = [r \in Ref |-> "none"]
  /\ dispatched = [r \in Ref |-> 0]
  /\ pc = [w \in Worker |-> "idle"]
  /\ job = [w \in Worker |-> NoJob]

\* A transfer has a row; its status; the transfers of a wallet.
Exists(r) == transfer[r] # NoTransfer
From(a) == {r \in Ref : Exists(r) /\ transfer[r].from = a}
InStatus(r, s) == Exists(r) /\ transfer[r].status = s
Open(r) == InStatus(r, "pending") \/ InStatus(r, "processing")

\* What each transfer of a wallet takes from its ledger account: a hold debits it,
\* and its release credits it; settling moves money between the transit accounts only.
Holding(a) ==
  [r \in From(a) |-> transfer[r].amount * (posted[r].hold - posted[r].release)]

\* calculateBalance of the wallet's ledger account.
Balance(a) == Opening[a] - SumFunction(Holding(a))

-----------------------------------------------------------------------------
(* Control of one request.                                                 *)

Begin(w, step, j) ==
  /\ pc[w] = "idle"
  /\ pc' = [pc EXCEPT ![w] = step]
  /\ job' = [job EXCEPT ![w] = j]
  /\ UNCHANGED lock

At(w, step) == pc[w] = step
GoTo(w, step) == pc' = [pc EXCEPT ![w] = step]

\* COMMIT, ROLLBACK or the end of a request without a transaction.
End(w) ==
  /\ pc' = [pc EXCEPT ![w] = "idle"]
  /\ job' = [job EXCEPT ![w] = NoJob]
  /\ lock' = [a \in Wallet |-> IF lock[a] = w THEN NoWorker ELSE lock[a]]

Fail(w) == End(w) /\ UNCHANGED <<tables, provider>>

Post(r, hold, settle, release) ==
  posted' = [posted EXCEPT ![r].hold = @ + hold, ![r].settle = @ + settle,
                           ![r].release = @ + release]

-----------------------------------------------------------------------------
(* initiateTransfer, type external.                                        *)

\* The Account row is read before it is locked.
StartHold(w) ==
  /\ "hold" \in Kinds
  /\ \E a \in Wallet, r \in Ref, n \in Amount :
       /\ dispatched[r] < MaxDispatch
       /\ Begin(w, "source lock", [kind |-> "hold", ref |-> r, from |-> a,
                  amount |-> n, seen |-> wallet[a], target |-> "processing"])
  /\ UNCHANGED <<tables, provider>>

LockSource(w) ==
  /\ At(w, "source lock")
  /\ lock[job[w].from] = NoWorker
  /\ lock' = [lock EXCEPT ![job[w].from] = w]
  /\ GoTo(w, "checking")
  /\ UNCHANGED <<tables, provider, job>>

\* Mutant of Funds: the cached balance read before the lock is trusted.
FundsSeen(w) == job[w].seen.available
\* The ledger is summed under the row lock.
Funds(w) == Balance(job[w].from)

CheckHold(w) ==
  /\ At(w, "checking")
  /\ IF ~Exists(job[w].ref) /\ Funds(w) >= job[w].amount
     THEN GoTo(w, "inserting") /\ UNCHANGED <<lock, job>>
     ELSE End(w)
  /\ UNCHANGED <<tables, provider>>

\* Mutant of Inserted: the index knows committed rows only.
InsertedUnseen(w, r) == FALSE
\* The workers whose transaction has inserted a row for r and not yet ended.
Inserted(w, r) == pc[w] \in {"calling", "answer", "committing"} /\ job[w].ref = r

\* The unique index on (projectId, reference) makes the insert wait for a
\* transaction that has inserted the reference, and fail if it is committed.
Insert(w) ==
  LET r == job[w].ref IN
  /\ At(w, "inserting")
  /\ \A v \in Worker : ~Inserted(v, r)
  /\ IF Exists(r) THEN End(w) ELSE GoTo(w, "calling") /\ UNCHANGED <<lock, job>>
  /\ UNCHANGED <<tables, provider>>

\* createTransfer reaches the provider, which accepts the request.
Dispatch(w) ==
  LET r == job[w].ref IN
  /\ At(w, "calling")
  /\ upstream' = [upstream EXCEPT ![r] = "accepted"]
  /\ dispatched' = [dispatched EXCEPT ![r] = @ + 1]
  /\ GoTo(w, "answer")
  /\ UNCHANGED <<tables, lock, job>>

Commits(w, s) ==
  /\ GoTo(w, "committing")
  /\ job' = [job EXCEPT ![w].target = s]
  /\ UNCHANGED <<tables, lock>>

\* The provider rejects the request.
Refuse(w) ==
  /\ At(w, "calling")
  /\ upstream' = [upstream EXCEPT ![job[w].ref] = "refused"]
  /\ Commits(w, "failed")
  /\ UNCHANGED dispatched

\* A timeout leaves the transfer processing, any other error releases the hold.
StatusAfter(e) == IF e = "timeout" THEN "processing" ELSE "failed"

\* The call throws before the request has reached the provider, or after.
LoseCall(w) ==
  /\ pc[w] \in {"calling", "answer"}
  /\ \E e \in Faults \cap {"timeout", "network"} : Commits(w, StatusAfter(e))
  /\ UNCHANGED provider

\* The provider's first word for an accepted request.
Answer(w) ==
  LET r == job[w].ref IN
  /\ At(w, "answer")
  /\ \/ /\ upstream[r] = "accepted"
        /\ \E s \in {"pending", "processing"} : Commits(w, s)
     \/ upstream[r] = "paid" /\ Commits(w, "successful")
     \/ upstream[r] = "refused" /\ Commits(w, "failed")
  /\ UNCHANGED provider

\* Mutant of Releases: a lost answer gives the money back as well.
ReleasesUnlessPaid(s) == s # "successful"
\* Only a failure gives the held money back.
Releases(s) == s = "failed"

\* Hold, and settlement or release when the provider has answered for good.
Commit(w) ==
  LET j == job[w] IN
  /\ At(w, "committing")
  /\ transfer' = [transfer EXCEPT ![j.ref] =
                    [from |-> j.from, amount |-> j.amount, status |-> j.target]]
  /\ Post(j.ref, 1, IF j.target = "successful" THEN 1 ELSE 0,
                    IF Releases(j.target) THEN 1 ELSE 0)
  /\ wallet' = [wallet EXCEPT ![j.from] =
       [available |-> IF j.target = "failed" THEN j.seen.available
                      ELSE j.seen.available - j.amount,
        pending |-> IF j.target \in Outcome THEN j.seen.pending
                    ELSE j.seen.pending + j.amount]]
  /\ End(w)
  /\ UNCHANGED <<event, provider>>

-----------------------------------------------------------------------------
(* RicarutWebhookService.processWebhook for such a transfer, and           *)
(* SandboxService.simulateTransferScenario.                                *)

Announced(r) ==
  CASE upstream[r] = "paid"    -> {"successful"}
    [] upstream[r] = "refused" -> {"failed"}
    [] OTHER                   -> {}

NewResolution(kind, r, s) ==
  [kind |-> kind, ref |-> r, seen |-> [available |-> 0, pending |-> 0], target |-> s]

\* Mutant of Receipt: the event is taken as processed before it is applied.
ReceiptAsProcessed == "processed"
\* The status an event row is created with.
Receipt == "received"

\* An event that is not processed or ignored yet is taken up (again).
Duplicate(mark) == mark \in {"processed", "ignored"}

StartWebhook(w, r, s) ==
  /\ "webhook" \in Kinds /\ w \in Resolver
  /\ s \in Announced(r)
  /\ ~Duplicate(event[<<r, s>>])
  /\ event' = [event EXCEPT ![<<r, s>>] = IF @ = "none" THEN Receipt ELSE @]
  /\ Begin(w, "locate", NewResolution("webhook", r, s))
  /\ UNCHANGED <<wallet, transfer, posted, provider>>

\* The transfer is looked up, and the transition checked, outside any
\* transaction; a transfer that is not committed yet does not match.
Locate(w) ==
  LET r == job[w].ref
      s == job[w].target
  IN
  /\ At(w, "locate")
  /\ GoTo(w, CASE ~Exists(r)             -> "unmatched"
               [] Open(r)                -> "resolving"
               [] InStatus(r, s)         -> "processed"
               [] OTHER                  -> "ignored")
  /\ UNCHANGED <<tables, lock, provider, job>>

\* Only a processing transfer may be simulated.
StartSimulation(w) ==
  /\ "simulate" \in Kinds /\ w \in Resolver
  /\ \E r \in Ref, s \in Outcome :
       /\ InStatus(r, "processing")
       /\ Begin(w, "resolving", NewResolution("simulate", r, s))
  /\ UNCHANGED <<tables, provider>>

\* A webhook has its event to mark; a simulation is done.
Resolved(w) ==
  IF job[w].kind = "webhook" THEN GoTo(w, "processed") /\ UNCHANGED <<lock, job>>
  ELSE End(w)

\* settleTransferInternal and reverseTransferInternal return a resolved transfer.
ReadTransfer(w) ==
  /\ At(w, "resolving")
  /\ IF Open(job[w].ref) THEN GoTo(w, "reading") /\ UNCHANGED <<lock, job>>
     ELSE Resolved(w)
  /\ UNCHANGED <<tables, provider>>

ReadAccount(w) ==
  /\ At(w, "reading")
  /\ job' = [job EXCEPT ![w].seen = wallet[transfer[job[w].ref].from]]
  /\ GoTo(w, "posting")
  /\ UNCHANGED <<tables, lock, provider>>

\* Mutant of Freed: a settlement leaves the reservation pending.
FreedOnFailure(row, seen, n, s) ==
  IF s = "successful" THEN row
  ELSE [available |-> seen.available + n, pending |-> seen.pending - n]
\* The reservation ends; only a release gives the money back, and only a release writes
\* the available balance of the row.
Freed(row, seen, n, s) ==
  [available |-> IF s = "failed" THEN seen.available + n ELSE row.available,
   pending |-> seen.pending - n]

\* The journal, the Account row (an UPDATE that waits for its lock) and the
\* status are committed together.
Resolve(w) ==
  LET j == job[w]
      t == transfer[j.ref]
  IN
  /\ At(w, "posting")
  /\ lock[t.from] = NoWorker
  /\ IF j.target = "successful" THEN Post(j.ref, 0, 1, 0) ELSE Post(j.ref, 0, 0, 1)
  /\ wallet' = [wallet EXCEPT ![t.from] = Freed(@, j.seen, t.amount, j.target)]
  /\ transfer' = [transfer EXCEPT ![j.ref].status = j.target]
  /\ Resolved(w)
  /\ UNCHANGED <<event, provider>>

\* markEventStatus.
Mark(w) ==
  /\ pc[w] \in {"processed", "ignored", "unmatched"}
  /\ event' = [event EXCEPT ![<<job[w].ref, job[w].target>>] = pc[w]]
  /\ End(w)
  /\ UNCHANGED <<wallet, transfer, posted, provider>>

-----------------------------------------------------------------------------
(* The provider, and lost requests.                                        *)

Conclude(r) ==
  /\ upstream[r] = "accepted"
  /\ \E word \in {"paid", "refused"} : upstream' = [upstream EXCEPT ![r] = word]
  /\ UNCHANGED <<tables, lock, dispatched, pc, job>>

\* The process dies, the transaction outlives its five seconds or a statement
\* fails: what it wrote is gone, what the provider accepted is not.
Rollback(w) ==
  /\ "rollback" \in Faults
  /\ pc[w] # "idle"
  /\ Fail(w)

-----------------------------------------------------------------------------
Start(w) ==
  \/ StartHold(w)
  \/ StartSimulation(w)
  \/ \E r \in Ref, s \in Outcome : StartWebhook(w, r, s)

Step(w) ==
  \/ LockSource(w) \/ CheckHold(w) \/ Insert(w)
  \/ Dispatch(w) \/ Refuse(w) \/ LoseCall(w) \/ Answer(w) \/ Commit(w)
  \/ Locate(w) \/ ReadTransfer(w) \/ ReadAccount(w) \/ Resolve(w) \/ Mark(w)

Next ==
  \/ \E w \in Worker : Start(w) \/ Step(w) \/ Rollback(w)
  \/ \E r \in Ref : Conclude(r)

Spec == Init /\ [][Next]_vars

-----------------------------------------------------------------------------
(* Properties.                                                             *)

\* A wallet's ledger account never goes below zero, whatever holds and releases
\* are in flight: holds are checked and posted under the wallet's row lock.
NoOverdraft == \A a \in Wallet : Balance(a) >= 0

\* The journals of a transfer tell its status: an open one holds the money, a
\* successful one was settled once, a failed one was released once, and money
\* that is held is never both settled and given back.
PostingsMatchStatus ==
  \A r \in Ref :
    posted[r] = [hold    |-> IF Exists(r) THEN 1 ELSE 0,
                 settle  |-> IF InStatus(r, "successful") THEN 1 ELSE 0,
                 release |-> IF InStatus(r, "failed") THEN 1 ELSE 0]

\* A webhook event is not taken as processed, and refused as a duplicate, while
\* its transfer still holds the money.
ProcessedEventsResolve ==
  \A e \in Event : event[e] = "processed" => Exists(e[1]) /\ ~Open(e[1])

\* The amounts of a wallet's open transfers.
Reserved(a) == [r \in {q \in From(a) : Open(q)} |-> transfer[r].amount]

\* What a row of the wallet, or a copy of it, says too much.
AvailableError(row, a) == row.available - Balance(a)
PendingError(row, a) == row.pending - SumFunction(Reserved(a))

\* Request w writes the wallet's row from its copy; it resolves what is resolved.
Writes(w, a) ==
  \/ Commit(w) /\ a = job[w].from
  \/ Resolve(w) /\ a = transfer[job[w].ref].from
ResolvesAgain(w) == pc[w] = "posting" /\ ~Open(job[w].ref)

\* Whatever holds, answers, webhooks and simulations overlap and wherever they are lost,
\* a wallet's cached available and pending balances go wrong, or change their errors, only
\* where a commit writes a copy another has outdated, and then by exactly what the copy
\* misses; or where a transfer is resolved a second time.
DriftsAreCopied ==
  [][\A a \in Wallet :
       /\ \/ AvailableError(wallet[a], a)' = AvailableError(wallet[a], a)
          \/ \E w \in Worker :
               Writes(w, a) /\ AvailableError(wallet[a], a)' = AvailableError(job[w].seen, a)
       /\ \/ PendingError(wallet[a], a)' = PendingError(wallet[a], a)
          \/ \E w \in Worker :
               /\ Writes(w, a)
               /\ \/ PendingError(wallet[a], a)' = PendingError(job[w].seen, a)
                  \/ ResolvesAgain(w)]_vars

\* Holding, settling and giving back are what AtomicEscrow says, each at one commit and
\* only where its conditions hold at that moment, although a hold is checked and dispatched
\* awaits before and a resolution locks nothing (initiateTransfer, settleTransfer,
\* reverseTransfer).
Escrow == INSTANCE AtomicEscrow WITH balance <- [a \in Wallet |-> Balance(a)]
HoldsInEscrow == Escrow!Spec

\* The provider is asked to pay a reference once, even if the server crashes.
DispatchedOnce == \A r \in Ref : dispatched[r] <= 1
=============================================================================
