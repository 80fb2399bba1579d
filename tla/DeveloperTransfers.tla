--------------------------- MODULE DeveloperTransfers ---------------------------
(***************************************************************************)
(* Developer transfers of one project: RicarutTransferService (initiate    *)
(* and synchronize), RicarutWebhookService, TransferStateService and       *)
(* ReconciliationService, as concurrent requests against PostgreSQL and a  *)
(* payment provider (Paystack or M-Pesa).                                  *)
(*                                                                         *)
(* A worker is one HTTP request in flight; each await is a step.  The      *)
(* status column is read without a lock and written back later, so a step  *)
(* carries the status it has seen.  A worker can be lost at any await.     *)
(***************************************************************************)
EXTENDS Naturals, Sequences, FiniteSets

CONSTANTS
  Worker,      \* requests that may be in flight at once
  Key,         \* idempotency keys
  Ref,         \* client references; unique per project, so they name transfers
  Kinds,       \* the operations that are called
  Faults,      \* what may go wrong
  Identified,  \* transfers whose webhooks carry the provider's data.id
  NoTransfer, NoRecord, NoKey, NoJob

OperationKinds == {"initiate", "sync", "webhook", "reconcile"}
FaultKinds == {"timeout", "network", "database", "crash"}

ASSUME KindAssumption == Kinds \subseteq OperationKinds /\ Faults \subseteq FaultKinds
ASSUME IdentifiedAssumption == Identified \subseteq Ref

VARIABLES
  status,      \* Transfer.status by reference; NoTransfer where there is no row
  rail,        \* the provider the router resolves for the request
  record,      \* IdempotencyRecord by key
  event,       \* WebhookEvent.status by event; "none" where there is no row
  reconciled,  \* outcomes of the ReconciliationRecords of each transfer
  upstream,    \* the provider's own word for the transfer
  dispatched,  \* the key of every request the provider accepted, in order
  pc, job      \* per worker: the step it is at, and what it works on

tables == <<status, record, event, reconciled>>
provider == <<rail, upstream, dispatched>>
vars == <<tables, provider, pc, job>>

Lifecycle == INSTANCE TransferLifecycle WITH Transfer <- Ref

Status == Lifecycle!Status
IsValid(s, t) == Lifecycle!IsValid(s, t)

Rail == {"paystack", "mpesa"}
Outcome == {"successful", "failed", "reversed"}

\* "none" until the provider accepts the request; "otp" and "received" are the
\* words it may use while it works on the transfer.
Word == {"none", "received", "otp", "success", "failed", "reversed"}

\* A record stores the hash of the last request it registered (the request is
\* named by its reference) and the transfer it answers with.
Record == [hash : Ref, state : {"pending", "completed", "failed"},
           resource : Ref \cup {NoTransfer}]

ASSUME DistinctAssumption == NoTransfer \notin Status /\ NoRecord \notin Record

\* A provider event is keyed by its id.  The adapter takes data.id, which all the
\* webhooks of an identified transfer share; where there is none, it joins the name
\* of the event to the transfer.
Event == Ref \X (Outcome \cup {"id"})
EventOf(r, s) == <<r, IF r \in Identified THEN "id" ELSE s>>

Steps == {"idle", "reference", "register", "create", "dispatch", "answer",
          "transition", "update", "complete", "record failure",
          "verify", "overwrite",
          "receive", "locate", "mark processed", "mark ignored", "reconciling"}

Job == [kind : OperationKinds, key : Key \cup {NoKey}, ref : Ref,
        seen : Status, target : Status, error : {"none", "timeout", "error"}]

TypeOK ==
  /\ status \in [Ref -> Status \cup {NoTransfer}]
  /\ rail \in [Ref -> Rail]
  /\ record \in [Key -> Record \cup {NoRecord}]
  /\ event \in [Event -> {"none", "received", "processed", "ignored"}]
  /\ reconciled \in [Ref -> SUBSET {"unresolvable"}]
  /\ upstream \in [Ref -> Word]
  /\ dispatched \in [Ref -> Seq(Key)]
  /\ pc \in [Worker -> Steps]
  /\ job \in [Worker -> Job \cup {NoJob}]

Init ==
  /\ status = [r \in Ref |-> NoTransfer]
  /\ rail \in [Ref -> Rail]
  /\ record = [k \in Key |-> NoRecord]
  /\ event = [e \in Event |-> "none"]
  /\ reconciled = [r \in Ref |-> {}]
  /\ upstream = [r \in Ref |-> "none"]
  /\ dispatched = [r \in Ref |-> <<>>]
  /\ pc = [w \in Worker |-> "idle"]
  /\ job = [w \in Worker |-> NoJob]

-----------------------------------------------------------------------------
(* Control of one request.                                                 *)

NewJob(kind, k, r, seen, target) ==
  [kind |-> kind, key |-> k, ref |-> r, seen |-> seen, target |-> target,
   error |-> "none"]

Begin(w, step, j) ==
  /\ pc[w] = "idle"
  /\ pc' = [pc EXCEPT ![w] = step]
  /\ job' = [job EXCEPT ![w] = j]

At(w, step) == pc[w] = step
GoTo(w, step) == pc' = [pc EXCEPT ![w] = step]

End(w) ==
  /\ pc' = [pc EXCEPT ![w] = "idle"]
  /\ job' = [job EXCEPT ![w] = NoJob]

\* Mutant of StatusAfter: a timeout counts as a failure.
StatusAfterBlindly(e) == "failed"
\* statusToSet: only a timeout leaves the transfer open.
StatusAfter(e) == IF e = "timeout" THEN "processing" ELSE "failed"

\* The try block of initiateTransfer throws e: its catch block sets a status.
Throw(w, e) ==
  /\ GoTo(w, "transition")
  /\ job' = [job EXCEPT ![w].error = e, ![w].target = StatusAfter(e)]

-----------------------------------------------------------------------------
(* RicarutTransferService.initiateTransfer.                                *)

\* Mutant of Proceeds: the record is looked up by key and hash together.
ProceedsUnmatched(k, r) ==
  record[k] # NoRecord /\ record[k].hash = r => record[k].state = "failed"
\* A request whose hash differs, a pending record and a completed one are
\* answered without touching anything.
Proceeds(k, r) ==
  record[k] # NoRecord => record[k].hash = r /\ record[k].state = "failed"

StartInitiate(w, k, r) ==
  /\ Proceeds(k, r)
  /\ Begin(w, "reference", NewJob("initiate", k, r, "pending", "pending"))
  /\ UNCHANGED <<tables, provider>>

CheckReference(w) ==
  /\ At(w, "reference")
  /\ IF status[job[w].ref] = NoTransfer
     THEN GoTo(w, "register") /\ UNCHANGED job
     ELSE End(w)
  /\ UNCHANGED <<tables, provider>>

\* The upsert keeps the resource a former request left in the record.
Register(w) ==
  LET k == job[w].key IN
  /\ At(w, "register")
  /\ record' = [record EXCEPT ![k] =
       [hash |-> job[w].ref, state |-> "pending",
        resource |-> IF @ = NoRecord THEN NoTransfer ELSE @.resource]]
  /\ GoTo(w, "create")
  /\ UNCHANGED <<status, event, reconciled, provider, job>>

\* Mutant of Fresh: the unique index on (projectId, reference) is missing.
FreshUnchecked(r) == TRUE
\* The unique index on (projectId, reference) admits the row.
Fresh(r) == status[r] = NoTransfer

\* A unique violation is thrown outside the try block: the record stays pending.
Create(w) ==
  LET r == job[w].ref IN
  /\ At(w, "create")
  /\ IF Fresh(r)
     THEN /\ status' = [status EXCEPT ![r] = "pending"]
          /\ GoTo(w, "dispatch")
          /\ UNCHANGED job
     ELSE End(w) /\ UNCHANGED status
  /\ UNCHANGED <<record, event, reconciled, provider>>

\* The provider accepts the request.
Dispatch(w) ==
  LET r == job[w].ref IN
  /\ At(w, "dispatch")
  /\ \E word \in (IF rail[r] = "paystack" THEN {"received", "otp"} ELSE {"received"}) :
       upstream' = [upstream EXCEPT ![r] = word]
  /\ dispatched' = [dispatched EXCEPT ![r] = Append(@, job[w].key)]
  /\ GoTo(w, "answer")
  /\ UNCHANGED <<tables, rail, job>>

\* The provider refuses it, or an earlier call of the adapter (account
\* resolution, recipient creation) fails or times out: nothing was accepted.
Refuse(w) ==
  /\ At(w, "dispatch")
  /\ \E e \in {"error"} \cup (Faults \cap {"timeout"}) : Throw(w, e)
  /\ UNCHANGED <<tables, provider>>

\* Mutant of mapTransferStatus: an unknown word counts as success.
mapTransferStatusEagerly(word) ==
  CASE word = "failed"   -> "failed"
    [] word = "reversed" -> "reversed"
    [] word = "received" -> "processing"
    [] OTHER             -> "successful"

\* PaystackAdapter.mapTransferStatus.
mapTransferStatus(word) ==
  CASE word = "success"  -> "successful"
    [] word = "failed"   -> "failed"
    [] word = "reversed" -> "reversed"
    [] word = "received" -> "processing"
    [] OTHER             -> "pending"

\* Mutant of InitialStatus: the provider's word is taken as it is.
InitialStatusRaw(r) == upstream[r]
\* M-Pesa's first answer is always pending.
InitialStatus(r) ==
  IF rail[r] = "mpesa" THEN "pending" ELSE mapTransferStatus(upstream[r])

Answer(w) ==
  /\ At(w, "answer")
  /\ job' = [job EXCEPT ![w].target = InitialStatus(job[w].ref)]
  /\ GoTo(w, "transition")
  /\ UNCHANGED <<tables, provider>>

\* The request was accepted, but the answer does not arrive.
LoseAnswer(w) ==
  /\ At(w, "answer")
  /\ \/ "timeout" \in Faults /\ Throw(w, "timeout")
     \/ "network" \in Faults /\ Throw(w, "error")
  /\ UNCHANGED <<tables, provider>>

\* A database error inside the try block is caught as if the provider failed.
DatabaseError(w) ==
  /\ "database" \in Faults
  /\ pc[w] \in {"transition", "update", "complete"}
  /\ job[w].kind = "initiate" /\ job[w].error = "none"
  /\ Throw(w, "error")
  /\ UNCHANGED <<tables, provider>>

Complete(w) ==
  LET k == job[w].key IN
  /\ At(w, "complete")
  /\ record' = [record EXCEPT ![k].state = "completed", ![k].resource = job[w].ref]
  /\ End(w)
  /\ UNCHANGED <<status, event, reconciled, provider>>

RecordFailure(w) ==
  /\ At(w, "record failure")
  /\ record' = [record EXCEPT ![job[w].key].state =
                  IF job[w].error = "timeout" THEN "pending" ELSE "failed"]
  /\ End(w)
  /\ UNCHANGED <<status, event, reconciled, provider>>

-----------------------------------------------------------------------------
(* TransferStateService.transition with strict = false: a read and, when   *)
(* the table allows it, a write, in a transaction that locks nothing.      *)

AfterTransition(w) ==
  IF job[w].kind = "webhook" THEN "mark processed"
  ELSE IF job[w].error = "none" THEN "complete" ELSE "record failure"

TransitionRead(w) ==
  LET s == status[job[w].ref] IN
  /\ At(w, "transition")
  /\ IF s # job[w].target /\ IsValid(s, job[w].target)
     THEN GoTo(w, "update") /\ job' = [job EXCEPT ![w].seen = s]
     ELSE GoTo(w, AfterTransition(w)) /\ UNCHANGED job
  /\ UNCHANGED <<tables, provider>>

TransitionWrite(w) ==
  /\ At(w, "update")
  /\ status' = [status EXCEPT ![job[w].ref] = job[w].target]
  /\ GoTo(w, AfterTransition(w))
  /\ UNCHANGED <<record, event, reconciled, provider, job>>

-----------------------------------------------------------------------------
(* RicarutTransferService.synchronizeTransferStatus.                       *)

\* Terminal transfers are returned as they are.
StartSync(w, r) ==
  /\ status[r] \notin Lifecycle!Terminal \cup {NoTransfer}
  /\ Begin(w, "verify", NewJob("sync", NoKey, r, status[r], status[r]))
  /\ UNCHANGED <<tables, provider>>

\* M-Pesa only acknowledges the query, which its adapter reports as processing.
VerifiedStatus(r) ==
  IF rail[r] = "mpesa" THEN "processing" ELSE mapTransferStatus(upstream[r])

\* A failed inquiry, as for a transfer Paystack does not know, preserves the
\* status; so does an answer that would be a regression.
Verify(w) ==
  LET r == job[w].ref
      target == VerifiedStatus(r)
  IN
  /\ At(w, "verify")
  /\ \/ /\ rail[r] = "mpesa" \/ upstream[r] # "none"
        /\ target # job[w].seen /\ IsValid(job[w].seen, target)
        /\ job' = [job EXCEPT ![w].target = target]
        /\ GoTo(w, "overwrite")
     \/ End(w)
  /\ UNCHANGED <<tables, provider>>

\* The status is written whatever it is by now.
Overwrite(w) ==
  /\ At(w, "overwrite")
  /\ status' = [status EXCEPT ![job[w].ref] = job[w].target]
  /\ End(w)
  /\ UNCHANGED <<record, event, reconciled, provider>>

-----------------------------------------------------------------------------
(* RicarutWebhookService.processWebhook.                                   *)

\* What the provider has announced, and repeats until it gets a 200.
Announced(r) ==
  CASE upstream[r] = "success"  -> {"successful"}
    [] upstream[r] = "failed"   -> {"failed"}
    [] upstream[r] = "reversed" -> {"successful", "reversed"}
    [] OTHER                    -> {}

\* The event row is read; an event already processed or ignored is a duplicate.
StartWebhook(w, r, s) ==
  /\ s \in Announced(r)
  /\ event[EventOf(r, s)] \in {"none", "received"}
  /\ Begin(w, IF event[EventOf(r, s)] = "none" THEN "receive" ELSE "locate",
           NewJob("webhook", NoKey, r, "pending", s))
  /\ UNCHANGED <<tables, provider>>

\* Mutant of Receipt: the event is taken as processed before it is applied.
ReceiptAsProcessed == "processed"
\* The status an event row is created with.
Receipt == "received"

\* A concurrent delivery that has inserted the row makes this one a duplicate.
Receive(w) ==
  LET e == EventOf(job[w].ref, job[w].target) IN
  /\ At(w, "receive")
  /\ IF event[e] = "none"
     THEN /\ event' = [event EXCEPT ![e] = Receipt]
          /\ GoTo(w, "locate")
          /\ UNCHANGED job
     ELSE End(w) /\ UNCHANGED event
  /\ UNCHANGED <<status, record, reconciled, provider>>

Locate(w) ==
  LET s == status[job[w].ref] IN
  /\ At(w, "locate")
  /\ GoTo(w, IF ~IsValid(s, job[w].target) THEN "mark ignored"
             ELSE IF s = job[w].target THEN "mark processed" ELSE "transition")
  /\ UNCHANGED <<tables, provider, job>>

\* markEventStatus.
Mark(w, mark) ==
  /\ event' = [event EXCEPT ![EventOf(job[w].ref, job[w].target)] = mark]
  /\ End(w)
  /\ UNCHANGED <<status, record, reconciled, provider>>

MarkEvent(w) ==
  \/ At(w, "mark processed") /\ Mark(w, "processed")
  \/ At(w, "mark ignored") /\ Mark(w, "ignored")

-----------------------------------------------------------------------------
(* ReconciliationService.reconcileTransfer, of one transfer or of each     *)
(* open one in a batch.                                                    *)

StartReconcile(w, r) ==
  /\ status[r] # NoTransfer
  /\ Begin(w, "reconciling", NewJob("reconcile", NoKey, r, status[r], status[r]))
  /\ UNCHANGED <<tables, provider>>

\* The provider is queried with transferReference alone.  Both adapters demand
\* reference or providerReference and throw, so the outcome is unresolvable.
Reconcile(w) ==
  /\ At(w, "reconciling")
  /\ reconciled' = [reconciled EXCEPT ![job[w].ref] = @ \cup {"unresolvable"}]
  /\ End(w)
  /\ UNCHANGED <<status, record, event, provider>>

-----------------------------------------------------------------------------
(* The provider, and lost requests.                                        *)

Settle(r) ==
  /\ upstream[r] \in {"received", "otp"}
  /\ \E word \in {"success", "failed"} : upstream' = [upstream EXCEPT ![r] = word]
  /\ UNCHANGED <<tables, rail, dispatched, pc, job>>

\* Only Paystack announces reversals.
Return(r) ==
  /\ rail[r] = "paystack" /\ upstream[r] = "success"
  /\ upstream' = [upstream EXCEPT ![r] = "reversed"]
  /\ UNCHANGED <<tables, rail, dispatched, pc, job>>

\* The process dies, or the database refuses the request's next statement
\* where no catch block is left to handle it.
Crash(w) ==
  /\ "crash" \in Faults
  /\ pc[w] # "idle"
  /\ End(w)
  /\ UNCHANGED <<tables, provider>>

-----------------------------------------------------------------------------
Start(w) ==
  \/ "initiate" \in Kinds /\ \E k \in Key, r \in Ref : StartInitiate(w, k, r)
  \/ "sync" \in Kinds /\ \E r \in Ref : StartSync(w, r)
  \/ "webhook" \in Kinds /\ \E r \in Ref, s \in Outcome : StartWebhook(w, r, s)
  \/ "reconcile" \in Kinds /\ \E r \in Ref : StartReconcile(w, r)

Step(w) ==
  \/ CheckReference(w) \/ Register(w) \/ Create(w)
  \/ Dispatch(w) \/ Refuse(w) \/ Answer(w) \/ LoseAnswer(w) \/ DatabaseError(w)
  \/ Complete(w) \/ RecordFailure(w)
  \/ TransitionRead(w) \/ TransitionWrite(w)
  \/ Verify(w) \/ Overwrite(w)
  \/ Receive(w) \/ Locate(w) \/ MarkEvent(w)
  \/ Reconcile(w)

Next ==
  \/ \E w \in Worker : Start(w) \/ Step(w) \/ Crash(w)
  \/ \E r \in Ref : Settle(r) \/ Return(r)

Spec == Init /\ [][Next]_vars

-----------------------------------------------------------------------------
(* Properties.                                                             *)

\* At most one request for a reference is ever accepted by the provider, under
\* whatever keys, races, retries, faults and crashes.
DispatchedOnce == \A r \in Ref : Len(dispatched[r]) <= 1

\* What a status claims, the provider has done.
Earned(r, s) ==
  /\ s = "successful" => upstream[r] \in {"success", "reversed"}
  /\ s = "reversed" => upstream[r] = "reversed"

\* A transfer is never shown as paid or as returned unless the provider paid or
\* returned it, however stale the status its writer had read.
StatusIsEarned == \A r \in Ref : Earned(r, status[r])

\* A transfer shown as failed was not paid: nobody who repeats it under a new
\* reference pays twice.
FailedMeansNotPaid ==
  \A r \in Ref : status[r] = "failed" => upstream[r] \in {"none", "failed"}

\* A request writes the status of r over one that another has written since it
\* read: what TransferStateService.transition and the poll, which lock nothing, may do.
WritesOver(r) ==
  \E w \in Worker : /\ TransitionWrite(w) \/ Overwrite(w)
                    /\ job[w].ref = r /\ job[w].seen # status[r]

\* The writers of the status column implement the state machine, however many run at
\* once, but for the writes over another request's: nothing else breaks the table.
FollowsLifecycle == Lifecycle!Init /\ [][Lifecycle!Next \/ \E r \in Ref : WritesOver(r)]_status

\* A terminal status is left only along the table, whoever writes.
TerminalIsFinal ==
  [][\A r \in Ref : status[r] \in Lifecycle!Terminal => IsValid(status[r], status'[r])]_vars

\* One idempotency key disburses once.
OneDisbursementPerKey ==
  \A k \in Key : Cardinality({r \in Ref : \E i \in DOMAIN dispatched[r] : dispatched[r][i] = k}) <= 1
=============================================================================
