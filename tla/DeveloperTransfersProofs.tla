------------------------ MODULE DeveloperTransfersProofs ------------------------
(***************************************************************************)
(* Proofs about DeveloperTransfers for any number of requests, keys and    *)
(* references: type correctness, one dispatch per reference, statuses the  *)
(* provider has earned, the implementation of the transfer state machine,  *)
(* keys that disburse once and webhooks that are not lost, the last three  *)
(* up to the writes over another request's that DeveloperHistory records.  *)
(***************************************************************************)
EXTENDS DeveloperHistory, FiniteSetTheorems, TLAPS

\* The steps of an initiation that has registered its idempotency record.
Registered == {"create", "dispatch", "answer", "transition", "update", "complete",
               "record failure"}

\* The steps of a request that works on a transfer row it knows to exist.
WithRow == {"dispatch", "answer", "transition", "update", "complete",
            "record failure", "verify", "overwrite", "receive", "locate",
            "mark processed", "mark ignored", "reconciling"}

InitiateOnly == {"reference", "register", "create", "dispatch", "answer", "complete",
                 "record failure"}
WebhookOnly == {"receive", "locate", "mark processed", "mark ignored"}

\* What a request in flight may rely on.
RequestInv(w) ==
  pc[w] # "idle" =>
    /\ job[w] \in Job
    /\ job[w].kind = "initiate" => job[w].key \in Key
    /\ pc[w] \in InitiateOnly => job[w].kind = "initiate"
    /\ pc[w] \in WebhookOnly => job[w].kind = "webhook"
    /\ pc[w] \in {"verify", "overwrite"} => job[w].kind = "sync"
    /\ pc[w] \in {"transition", "update"} => job[w].kind \in {"initiate", "webhook"}
    /\ job[w].kind = "webhook" => job[w].target \in Outcome
    /\ pc[w] \in Registered /\ job[w].kind = "initiate" => record[job[w].key] # NoRecord
    /\ pc[w] \in WithRow => status[job[w].ref] # NoTransfer
    /\ Earned(job[w].ref, job[w].target)
    /\ pc[w] = "dispatch" =>
         upstream[job[w].ref] = "none" /\ dispatched[job[w].ref] = <<>>
    /\ pc[w] = "answer" => upstream[job[w].ref] # "none"

\* The provider hears of a transfer only once it has a row, and once.
RowInv(r) ==
  /\ status[r] = NoTransfer => upstream[r] = "none" /\ dispatched[r] = <<>>
  /\ Len(dispatched[r]) <= 1
  /\ Earned(r, status[r])

\* One request at most is about to dispatch a transfer.
DispatcherInv ==
  \A v, w \in Worker :
    pc[v] = "dispatch" /\ pc[w] = "dispatch" /\ job[v].ref = job[w].ref => v = w

Inv ==
  /\ TypeOK
  /\ \A r \in Ref : RowInv(r)
  /\ \A w \in Worker : RequestInv(w)
  /\ DispatcherInv

\* Rows and records are never deleted, and the provider does not take back
\* what it has done.
Grows ==
  /\ \A r \in Ref : status[r] # NoTransfer => status'[r] # NoTransfer
  /\ \A k \in Key : record[k] # NoRecord => record'[k] # NoRecord
  /\ \A r \in Ref, s \in Status : Earned(r, s) => Earned(r, s)'
  /\ \A r \in Ref : upstream[r] # "none" => upstream'[r] # "none"

USE DEF Status, Lifecycle!Status

-----------------------------------------------------------------------------
\* A step of request w preserves the invariant if it preserves the part about w
\* and the rows, and takes no transfer that another request is dispatching.
LEMMA Frame ==
  ASSUME Inv, NEW w \in Worker,
         \A v \in Worker \ {w} : pc'[v] = pc[v] /\ job'[v] = job[v],
         Grows,
         \A v \in Worker \ {w} : pc[v] = "dispatch" =>
            /\ upstream'[job[v].ref] = upstream[job[v].ref]
            /\ dispatched'[job[v].ref] = dispatched[job[v].ref],
         pc'[w] = "dispatch" =>
            \A v \in Worker \ {w} : pc[v] = "dispatch" => job[v].ref # job'[w].ref,
         TypeOK', \A r \in Ref : RowInv(r)', RequestInv(w)'
  PROVE  Inv'
<1>1. ASSUME NEW v \in Worker PROVE RequestInv(v)'
  <2>1. CASE v = w BY <2>1, <1>1
  <2>2. CASE v # w
    <3>1. pc'[v] = pc[v] /\ job'[v] = job[v] BY <2>2
    <3>2. RequestInv(v) BY DEF Inv
    <3>3. SUFFICES ASSUME pc[v] # "idle" PROVE RequestInv(v)'
      BY <3>1 DEF RequestInv
    <3>4. job[v] \in Job BY <3>2, <3>3 DEF RequestInv
    <3>5. job[v].ref \in Ref /\ job[v].target \in Status BY <3>4 DEF Job
    <3>6. Earned(job[v].ref, job[v].target) BY <3>2, <3>3 DEF RequestInv
    <3>7. DEFINE r == job[v].ref
                 s == job[v].target
    <3>8. r \in Ref /\ s \in Status /\ Earned(r, s) BY <3>5, <3>6
    <3>9. (upstream'[r] \in {"success", "reversed"} \/ s # "successful")
          /\ (upstream'[r] = "reversed" \/ s # "reversed")
      BY <3>8 DEF Grows, Earned
    <3>10. Earned(job[v].ref, job[v].target)' BY <3>1, <3>9 DEF Earned
    <3> QED BY <3>1, <3>2, <3>3, <3>5, <3>10, <2>2 DEF RequestInv, Grows
  <2> QED BY <2>1, <2>2
<1>2. DispatcherInv' BY DEF Inv, DispatcherInv
<1> QED BY <1>1, <1>2 DEF Inv

\* A step that only moves request w on.
LEMMA LocalStep ==
  ASSUME Inv, NEW w \in Worker, UNCHANGED <<tables, provider>>,
         NEW step \in Steps \ {"dispatch"}, NEW j \in Job \cup {NoJob},
         pc' = [pc EXCEPT ![w] = step], job' = [job EXCEPT ![w] = j],
         RequestInv(w)'
  PROVE  Inv'
<1>1. TypeOK' BY DEF Inv, TypeOK, tables, provider
<1>2. Grows BY DEF Grows, Earned, tables, provider
<1>3. \A r \in Ref : RowInv(r)' BY DEF Inv, RowInv, Earned, tables, provider
<1>4. \A v \in Worker \ {w} : pc'[v] = pc[v] /\ job'[v] = job[v] BY DEF Inv, TypeOK
<1>5. pc'[w] # "dispatch" BY DEF Inv, TypeOK
<1> QED BY <1>1, <1>2, <1>3, <1>4, <1>5, Frame DEF tables, provider

\* A request that ends leaves nothing to rely on.
LEMMA EndStep ==
  ASSUME Inv, NEW w \in Worker, UNCHANGED <<tables, provider>>, End(w)
  PROVE  Inv'
<1>1. RequestInv(w)' BY DEF Inv, TypeOK, End, RequestInv
<1> QED BY <1>1, LocalStep DEF End, Steps

-----------------------------------------------------------------------------
(* The steps that only move a request on.                                  *)

LEMMA JobInFlight ==
  ASSUME Inv, NEW w \in Worker, pc[w] # "idle"
  PROVE  /\ job[w] \in Job /\ job[w].ref \in Ref
         /\ RequestInv(w)
BY DEF Inv, RequestInv, Job

LEMMA StartInitiateKeeps ==
  ASSUME Inv, NEW w \in Worker, NEW k \in Key, NEW r \in Ref, StartInitiate(w, k, r)
  PROVE  Inv'
<1>1. NewJob("initiate", k, r, "pending", "pending") \in Job
  BY DEF NewJob, Job, OperationKinds
<1>2. RequestInv(w)'
  BY <1>1 DEF StartInitiate, Begin, NewJob, Inv, TypeOK, RequestInv, Earned,
              InitiateOnly, WebhookOnly, Registered, WithRow
<1> QED BY <1>1, <1>2, LocalStep DEF StartInitiate, Begin, Steps

LEMMA CheckReferenceKeeps ==
  ASSUME Inv, NEW w \in Worker, CheckReference(w)
  PROVE  Inv'
<1>1. CASE status[job[w].ref] = NoTransfer
  <2>1. job[w] \in Job /\ RequestInv(w) BY JobInFlight DEF CheckReference, At
  <2>2. job' = [job EXCEPT ![w] = job[w]] BY <1>1 DEF CheckReference, Inv, TypeOK
  <2>3. RequestInv(w)'
    BY <1>1, <2>1 DEF CheckReference, At, GoTo, Inv, TypeOK, RequestInv, Earned,
              InitiateOnly, WebhookOnly, Registered, WithRow, provider, tables
  <2> QED BY <1>1, <2>1, <2>2, <2>3, LocalStep DEF CheckReference, GoTo, Steps
<1>2. CASE status[job[w].ref] # NoTransfer
  BY <1>2, EndStep DEF CheckReference
<1> QED BY <1>1, <1>2

LEMMA ThrowKeeps ==
  ASSUME Inv, NEW w \in Worker, NEW e \in {"timeout", "error"}, Throw(w, e),
         pc[w] \in {"dispatch", "answer", "transition", "update", "complete"},
         job[w].kind = "initiate", UNCHANGED <<tables, provider>>
  PROVE  Inv'
<1>1. job[w] \in Job /\ RequestInv(w) BY JobInFlight
<1>2. DEFINE j == [job[w] EXCEPT !.error = e, !.target = StatusAfter(e)]
<1>3. job' = [job EXCEPT ![w] = j] BY DEF Throw, Inv, TypeOK
<1>4. j \in Job BY <1>1 DEF Job, StatusAfter
<1>5. pc'[w] = "transition" /\ job'[w] = j BY <1>3 DEF Throw, GoTo, Inv, TypeOK
<1>6. /\ j.kind = "initiate" /\ j.key = job[w].key /\ j.ref = job[w].ref
      /\ j.target \in {"processing", "failed"}
  BY <1>1 DEF Job, StatusAfter
<1>7. /\ job[w].key \in Key /\ status[job[w].ref] # NoTransfer
      /\ record[job[w].key] # NoRecord
  BY <1>1 DEF RequestInv, Registered, WithRow
<1>8. RequestInv(w)'
  BY <1>4, <1>5, <1>6, <1>7 DEF RequestInv, Earned, InitiateOnly, WebhookOnly, tables
<1> QED BY <1>3, <1>4, <1>8, LocalStep DEF Throw, GoTo, Steps

LEMMA RefuseKeeps ==
  ASSUME Inv, NEW w \in Worker, Refuse(w)
  PROVE  Inv'
<1>1. job[w].kind = "initiate"
  BY JobInFlight DEF Refuse, At, RequestInv, InitiateOnly
<1> QED BY <1>1, ThrowKeeps DEF Refuse, At

LEMMA LoseAnswerKeeps ==
  ASSUME Inv, NEW w \in Worker, LoseAnswer(w)
  PROVE  Inv'
<1>1. job[w].kind = "initiate"
  BY JobInFlight DEF LoseAnswer, At, RequestInv, InitiateOnly
<1> QED BY <1>1, ThrowKeeps DEF LoseAnswer, At

LEMMA DatabaseErrorKeeps ==
  ASSUME Inv, NEW w \in Worker, DatabaseError(w)
  PROVE  Inv'
BY ThrowKeeps DEF DatabaseError

\* Whatever the provider answers, it has done.
LEMMA AnswersAreEarned ==
  ASSUME NEW r \in Ref, upstream[r] \in Word
  PROVE  /\ InitialStatus(r) \in Status /\ Earned(r, InitialStatus(r))
         /\ VerifiedStatus(r) \in Status /\ Earned(r, VerifiedStatus(r))
<1>1. mapTransferStatus(upstream[r]) \in Status
  BY DEF Word, mapTransferStatus
<1>2. Earned(r, mapTransferStatus(upstream[r]))
  BY DEF Word, mapTransferStatus, Earned
<1> QED BY <1>1, <1>2 DEF InitialStatus, VerifiedStatus, Earned

LEMMA AnswerKeeps ==
  ASSUME Inv, NEW w \in Worker, Answer(w)
  PROVE  Inv'
<1>1. job[w] \in Job /\ RequestInv(w) /\ job[w].ref \in Ref
  BY JobInFlight DEF Answer, At
<1>2. upstream[job[w].ref] \in Word BY <1>1 DEF Inv, TypeOK
<1>3. DEFINE s == InitialStatus(job[w].ref)
             j == [job[w] EXCEPT !.target = s]
<1>4. s \in Status /\ Earned(job[w].ref, s) BY <1>1, <1>2, AnswersAreEarned
<1> HIDE DEF s
<1>5. job' = [job EXCEPT ![w] = j] BY DEF Answer, Inv, TypeOK, s
<1>6. j \in Job BY <1>1, <1>4 DEF Job
<1>7. pc'[w] = "transition" /\ job'[w] = j BY <1>5 DEF Answer, GoTo, Inv, TypeOK
<1>8. j.kind = job[w].kind /\ j.key = job[w].key /\ j.ref = job[w].ref /\ j.target = s
  BY <1>1 DEF Job
<1>9. /\ job[w].kind = "initiate" /\ job[w].key \in Key
      /\ record[job[w].key] # NoRecord /\ status[job[w].ref] # NoTransfer
  BY <1>1 DEF Answer, At, RequestInv, InitiateOnly, Registered, WithRow
<1>10. /\ j.target = "successful" => upstream'[j.ref] \in {"success", "reversed"}
       /\ j.target = "reversed" => upstream'[j.ref] = "reversed"
  BY <1>4, <1>8 DEF Answer, Earned, provider
<1>11. RequestInv(w)'
  BY <1>6, <1>7, <1>8, <1>9, <1>10 DEF Answer, RequestInv, Earned, InitiateOnly, WebhookOnly, tables
<1> QED BY <1>5, <1>6, <1>11, LocalStep DEF Answer, GoTo, Steps

LEMMA TransitionReadKeeps ==
  ASSUME Inv, NEW w \in Worker, TransitionRead(w)
  PROVE  Inv'
<1>1. job[w] \in Job /\ RequestInv(w) /\ job[w].ref \in Ref
  BY JobInFlight DEF TransitionRead, At
<1>2. status[job[w].ref] \in Status
  BY <1>1 DEF Inv, TypeOK, TransitionRead, At, RequestInv, WithRow
<1>3. CASE pc'[w] = "update"
  <2>1. DEFINE j == [job[w] EXCEPT !.seen = status[job[w].ref]]
  <2>2. job' = [job EXCEPT ![w] = j] /\ pc' = [pc EXCEPT ![w] = "update"]
    BY <1>3 DEF TransitionRead, GoTo, Inv, TypeOK, AfterTransition
  <2>3. j \in Job BY <1>1, <1>2 DEF Job
  <2>4. RequestInv(w)'
    BY <1>1, <2>2, <2>3 DEF TransitionRead, At, GoTo, Inv, TypeOK, RequestInv, Earned, Job,
              InitiateOnly, WebhookOnly, Registered, WithRow, provider, tables
  <2> QED BY <2>2, <2>3, <2>4, LocalStep DEF TransitionRead, Steps
<1>4. CASE pc'[w] # "update"
  <2>1. pc' = [pc EXCEPT ![w] = AfterTransition(w)] /\ UNCHANGED job
    BY <1>4 DEF TransitionRead, GoTo, Inv, TypeOK
  <2>2. job' = [job EXCEPT ![w] = job[w]] BY <2>1 DEF Inv, TypeOK
  <2>3. AfterTransition(w) \in Steps \ {"dispatch"} BY DEF AfterTransition, Steps
  <2>4. RequestInv(w)'
    BY <1>1, <2>1, <2>3 DEF TransitionRead, At, AfterTransition, Inv, TypeOK, RequestInv, Earned,
              InitiateOnly, WebhookOnly, Registered, WithRow, provider, tables
  <2> QED BY <1>1, <2>1, <2>2, <2>3, <2>4, LocalStep DEF TransitionRead
<1> QED BY <1>3, <1>4

LEMMA StartSyncKeeps ==
  ASSUME Inv, NEW w \in Worker, NEW r \in Ref, StartSync(w, r)
  PROVE  Inv'
<1>1. status[r] \in Status /\ status[r] # NoTransfer BY DEF StartSync, Inv, TypeOK
<1>2. NewJob("sync", NoKey, r, status[r], status[r]) \in Job
  BY <1>1 DEF NewJob, Job, OperationKinds
<1>3. Earned(r, status[r]) BY DEF Inv, RowInv
<1>4. RequestInv(w)'
  BY <1>1, <1>2, <1>3 DEF StartSync, Begin, NewJob, Inv, TypeOK, RequestInv, Earned,
              InitiateOnly, WebhookOnly, Registered, WithRow, tables, provider
<1> QED BY <1>2, <1>4, LocalStep DEF StartSync, Begin, Steps

LEMMA StartReconcileKeeps ==
  ASSUME Inv, NEW w \in Worker, NEW r \in Ref, StartReconcile(w, r)
  PROVE  Inv'
<1>1. status[r] \in Status /\ status[r] # NoTransfer BY DEF StartReconcile, Inv, TypeOK
<1>2. NewJob("reconcile", NoKey, r, status[r], status[r]) \in Job
  BY <1>1 DEF NewJob, Job, OperationKinds
<1>3. Earned(r, status[r]) BY DEF Inv, RowInv
<1>4. RequestInv(w)'
  BY <1>1, <1>2, <1>3 DEF StartReconcile, Begin, NewJob, Inv, TypeOK, RequestInv, Earned,
              InitiateOnly, WebhookOnly, Registered, WithRow, tables, provider
<1> QED BY <1>2, <1>4, LocalStep DEF StartReconcile, Begin, Steps

LEMMA VerifyKeeps ==
  ASSUME Inv, NEW w \in Worker, Verify(w)
  PROVE  Inv'
<1>1. CASE pc'[w] = "overwrite"
  <2>1. job[w] \in Job /\ RequestInv(w) /\ job[w].ref \in Ref
    BY JobInFlight DEF Verify, At
  <2>2. upstream[job[w].ref] \in Word BY <2>1 DEF Inv, TypeOK
  <2>3. DEFINE s == VerifiedStatus(job[w].ref)
               j == [job[w] EXCEPT !.target = s]
  <2>4. s \in Status /\ Earned(job[w].ref, s) BY <2>1, <2>2, AnswersAreEarned
  <2> HIDE DEF s
  <2>5. job' = [job EXCEPT ![w] = j] /\ pc' = [pc EXCEPT ![w] = "overwrite"]
    BY <1>1 DEF Verify, End, GoTo, Inv, TypeOK, s
  <2>6. j \in Job BY <2>1, <2>4 DEF Job
  <2>7. pc'[w] = "overwrite" /\ job'[w] = j BY <2>5 DEF Inv, TypeOK
  <2>8. j.kind = job[w].kind /\ j.key = job[w].key /\ j.ref = job[w].ref /\ j.target = s
    BY <2>1 DEF Job
  <2>9. job[w].kind = "sync" /\ status[job[w].ref] # NoTransfer
    BY <2>1 DEF Verify, At, RequestInv, WithRow
  <2>10. /\ j.target = "successful" => upstream'[j.ref] \in {"success", "reversed"}
         /\ j.target = "reversed" => upstream'[j.ref] = "reversed"
    BY <2>4, <2>8 DEF Verify, Earned, provider
  <2>11. RequestInv(w)'
    BY <2>6, <2>7, <2>8, <2>9, <2>10
       DEF Verify, RequestInv, Earned, InitiateOnly, WebhookOnly, Registered, WithRow, tables
  <2> QED BY <2>5, <2>6, <2>11, LocalStep DEF Verify, Steps
<1>2. CASE pc'[w] # "overwrite"
  <2>1. End(w) BY <1>2 DEF Verify, GoTo, Inv, TypeOK
  <2> QED BY <2>1, EndStep DEF Verify
<1> QED BY <1>1, <1>2

LEMMA StartWebhookKeeps ==
  ASSUME Inv, NEW w \in Worker, NEW r \in Ref, NEW s \in Outcome, StartWebhook(w, r, s)
  PROVE  Inv'
<1>1. status[r] # NoTransfer /\ Earned(r, s)
  BY DEF StartWebhook, Announced, Inv, RowInv, Earned
<1>2. NewJob("webhook", NoKey, r, "pending", s) \in Job
  BY DEF NewJob, Job, OperationKinds, Outcome
<1>3. DEFINE step == IF event[EventOf(r, s)] = "none" THEN "receive" ELSE "locate"
<1>4. step \in {"receive", "locate"} OBVIOUS
<1> HIDE DEF step
<1>5. pc' = [pc EXCEPT ![w] = step] BY DEF StartWebhook, Begin, step
<1>6. RequestInv(w)'
  BY <1>1, <1>2, <1>4, <1>5
     DEF StartWebhook, Begin, NewJob, Inv, TypeOK, RequestInv, Earned,
         InitiateOnly, WebhookOnly, Registered, WithRow, tables, provider
<1> QED BY <1>2, <1>4, <1>5, <1>6, LocalStep DEF StartWebhook, Begin, Steps

LEMMA LocateKeeps ==
  ASSUME Inv, NEW w \in Worker, Locate(w)
  PROVE  Inv'
<1>1. job[w] \in Job /\ RequestInv(w) BY JobInFlight DEF Locate, At
<1>2. PICK step \in {"mark ignored", "mark processed", "transition"} :
        pc' = [pc EXCEPT ![w] = step]
  BY DEF Locate, GoTo
<1>3. job' = [job EXCEPT ![w] = job[w]] BY DEF Locate, Inv, TypeOK
<1>4. RequestInv(w)'
  BY <1>1, <1>2 DEF Locate, At, Inv, TypeOK, RequestInv, Earned,
              InitiateOnly, WebhookOnly, Registered, WithRow, tables, provider
<1> QED BY <1>1, <1>2, <1>3, <1>4, LocalStep DEF Locate, Steps

LEMMA CrashKeeps ==
  ASSUME Inv, NEW w \in Worker, Crash(w)
  PROVE  Inv'
BY EndStep DEF Crash

-----------------------------------------------------------------------------
(* The steps that write a table.                                           *)

LEMMA RegisterKeeps ==
  ASSUME Inv, NEW w \in Worker, Register(w)
  PROVE  Inv'
<1>1. job[w] \in Job /\ RequestInv(w) /\ job[w].ref \in Ref
  BY JobInFlight DEF Register, At
<1>2. job[w].kind = "initiate" /\ job[w].key \in Key
  BY <1>1 DEF Register, At, RequestInv, InitiateOnly
<1> DEFINE old == record[job[w].key]
             kept == IF old = NoRecord THEN NoTransfer ELSE old.resource
             new == [hash |-> job[w].ref, state |-> "pending", resource |-> kept]
<1>3. old \in Record \cup {NoRecord} BY <1>2 DEF Inv, TypeOK
<1>4. kept \in Ref \cup {NoTransfer} BY <1>3 DEF Record
<1>5. new \in Record BY <1>1, <1>4 DEF Record
<1>6. record' = [record EXCEPT ![job[w].key] = new]
  BY <1>2 DEF Register, Inv, TypeOK
<1>7. PICK rec \in Record : record' = [record EXCEPT ![job[w].key] = rec]
  BY <1>5, <1>6
<1>8. TypeOK' BY <1>2, <1>7 DEF Register, GoTo, Inv, TypeOK, Steps, provider
<1>9. \A k \in Key : record[k] # NoRecord => record'[k] # NoRecord
  BY <1>2, <1>7, DistinctAssumption DEF Inv, TypeOK
<1>10. Grows BY <1>9 DEF Register, Grows, Earned, provider
<1>11. \A r \in Ref : RowInv(r)' BY DEF Register, Inv, RowInv, Earned, provider
<1>12. record'[job[w].key] # NoRecord
  BY <1>2, <1>7, DistinctAssumption DEF Inv, TypeOK
<1>13. pc'[w] = "create" /\ job'[w] = job[w] BY DEF Register, GoTo, Inv, TypeOK
<1>14. RequestInv(w)'
  BY <1>1, <1>2, <1>12, <1>13 DEF Register, At, RequestInv, Earned,
              InitiateOnly, WebhookOnly, Registered, WithRow, provider
<1> QED BY <1>8, <1>10, <1>11, <1>13, <1>14, Frame DEF Register, GoTo, Inv, TypeOK, provider

LEMMA CreateKeeps ==
  ASSUME Inv, NEW w \in Worker, Create(w)
  PROVE  Inv'
<1>1. job[w] \in Job /\ RequestInv(w) /\ job[w].ref \in Ref
  BY JobInFlight DEF Create, At
<1>2. CASE ~Fresh(job[w].ref)
  BY <1>2, EndStep DEF Create, tables, provider
<1>3. CASE Fresh(job[w].ref)
  <2>1. /\ job[w].kind = "initiate" /\ job[w].key \in Key
        /\ record[job[w].key] # NoRecord
    BY <1>1 DEF Create, At, RequestInv, InitiateOnly, Registered
  <2>2. /\ status[job[w].ref] = NoTransfer
        /\ upstream[job[w].ref] = "none" /\ dispatched[job[w].ref] = <<>>
    BY <1>1, <1>3 DEF Fresh, Inv, RowInv
  <2>3. status' = [status EXCEPT ![job[w].ref] = "pending"] /\ UNCHANGED job
    BY <1>3 DEF Create
  <2>4. TypeOK' BY <1>3, <2>3 DEF Create, GoTo, Inv, TypeOK, Steps, provider
  <2>5. \A r \in Ref : status[r] # NoTransfer => status'[r] # NoTransfer
    BY <2>3, DistinctAssumption DEF Inv, TypeOK
  <2>6. Grows BY <2>5 DEF Create, Grows, Earned, provider
  <2>7. \A r \in Ref : RowInv(r)'
    BY <1>1, <2>3, DistinctAssumption DEF Create, Inv, TypeOK, RowInv, Earned, provider
  <2>8. status'[job[w].ref] # NoTransfer
    BY <1>1, <2>3, DistinctAssumption DEF Inv, TypeOK
  <2>9. pc'[w] = "dispatch" /\ job'[w] = job[w]
    BY <1>3 DEF Create, GoTo, Inv, TypeOK
  <2>10. RequestInv(w)'
    BY <1>1, <2>1, <2>2, <2>8, <2>9 DEF Create, At, RequestInv, Earned,
              InitiateOnly, WebhookOnly, Registered, WithRow, provider
  <2>11. \A v \in Worker : pc[v] = "dispatch" => job[v].ref # job[w].ref
    BY <2>2 DEF Inv, RequestInv, WithRow
  <2>12. \A v \in Worker \ {w} : pc'[v] = pc[v] /\ job'[v] = job[v]
    BY <1>3, <2>3 DEF Create, GoTo, Inv, TypeOK
  <2>13. upstream' = upstream /\ dispatched' = dispatched BY DEF Create, provider
  <2> QED BY <2>4, <2>6, <2>7, <2>9, <2>10, <2>11, <2>12, <2>13, Frame
<1> QED BY <1>2, <1>3

LEMMA DispatchKeeps ==
  ASSUME Inv, NEW w \in Worker, Dispatch(w)
  PROVE  Inv'
<1>1. job[w] \in Job /\ RequestInv(w) /\ job[w].ref \in Ref
  BY JobInFlight DEF Dispatch, At
<1>2. /\ job[w].kind = "initiate" /\ job[w].key \in Key
      /\ record[job[w].key] # NoRecord /\ status[job[w].ref] # NoTransfer
      /\ upstream[job[w].ref] = "none" /\ dispatched[job[w].ref] = <<>>
  BY <1>1 DEF Dispatch, At, RequestInv, InitiateOnly, Registered, WithRow
<1>3. PICK word \in {"received", "otp"} : upstream' = [upstream EXCEPT ![job[w].ref] = word]
  BY DEF Dispatch
<1>4. dispatched' = [dispatched EXCEPT ![job[w].ref] = <<job[w].key>>]
  BY <1>1, <1>2 DEF Dispatch, Inv, TypeOK
<1>5. pc' = [pc EXCEPT ![w] = "answer"] /\ UNCHANGED <<tables, rail, job>>
  BY DEF Dispatch, GoTo
<1>6. TypeOK'
  <2>1. <<job[w].key>> \in Seq(Key) BY <1>2
  <2>2. dispatched' \in [Ref -> Seq(Key)] BY <1>4, <2>1 DEF Inv, TypeOK
  <2>3. upstream' \in [Ref -> Word] BY <1>3 DEF Inv, TypeOK, Word
  <2>4. pc' \in [Worker -> Steps] BY <1>5 DEF Inv, TypeOK, Steps
  <2> QED BY <1>5, <2>2, <2>3, <2>4 DEF Inv, TypeOK, tables
<1>7. Grows BY <1>1, <1>2, <1>3, <1>5 DEF Inv, TypeOK, Grows, Earned, tables
<1>8. ASSUME NEW r \in Ref PROVE RowInv(r)'
  <2>1. RowInv(r) BY DEF Inv
  <2>2. CASE r = job[w].ref
    <3>1. dispatched'[r] = <<job[w].key>> BY <2>2, <1>1, <1>4 DEF Inv, TypeOK
    <3>2. Len(dispatched'[r]) = 1 BY <3>1
    <3>3. status'[r] = status[r] /\ status[r] # NoTransfer BY <2>2, <1>2, <1>5 DEF tables
    <3>4. Earned(r, status[r]) /\ upstream[r] = "none" BY <2>1, <2>2, <1>2 DEF RowInv
    <3> QED BY <3>2, <3>3, <3>4 DEF RowInv, Earned
  <2>3. CASE r # job[w].ref
    BY <2>1, <2>3, <1>3, <1>4, <1>5 DEF Inv, TypeOK, RowInv, Earned, tables
  <2> QED BY <2>2, <2>3
<1>9. pc'[w] = "answer" /\ job'[w] = job[w] BY <1>5 DEF Inv, TypeOK
<1>10. upstream'[job[w].ref] # "none" BY <1>1, <1>3 DEF Inv, TypeOK
<1>11. /\ job[w].target # "successful" /\ job[w].target # "reversed"
  BY <1>1, <1>2 DEF Dispatch, At, RequestInv, Earned
<1>12. RequestInv(w)'
  BY <1>1, <1>2, <1>5, <1>9, <1>10, <1>11 DEF RequestInv, Earned,
              InitiateOnly, WebhookOnly, Registered, WithRow, tables
<1>13. \A v \in Worker \ {w} : pc[v] = "dispatch" =>
         job[v].ref \in Ref /\ job[v].ref # job[w].ref
  BY JobInFlight DEF Dispatch, At, Inv, DispatcherInv
<1>14. \A v \in Worker \ {w} : pc[v] = "dispatch" =>
         /\ upstream'[job[v].ref] = upstream[job[v].ref]
         /\ dispatched'[job[v].ref] = dispatched[job[v].ref]
  BY <1>3, <1>4, <1>13 DEF Inv, TypeOK
<1>15. \A v \in Worker \ {w} : pc'[v] = pc[v] /\ job'[v] = job[v]
  BY <1>5 DEF Inv, TypeOK
<1> QED BY <1>6, <1>7, <1>8, <1>9, <1>12, <1>14, <1>15, Frame

\* The two ways to finish an idempotency record.
LEMMA RecordKeeps ==
  ASSUME Inv, NEW w \in Worker, pc[w] \in {"complete", "record failure"},
         NEW rec \in Record, record' = [record EXCEPT ![job[w].key] = rec],
         End(w), UNCHANGED <<status, event, reconciled, provider>>
  PROVE  Inv'
<1>1. job[w] \in Job /\ RequestInv(w) BY JobInFlight
<1>2. job[w].key \in Key BY <1>1 DEF RequestInv, InitiateOnly
<1>3. TypeOK' BY <1>2 DEF End, Inv, TypeOK, Steps, provider
<1>4. \A k \in Key : record[k] # NoRecord => record'[k] # NoRecord
  BY <1>2, DistinctAssumption DEF Inv, TypeOK
<1>5. Grows BY <1>4 DEF Grows, Earned, provider
<1>6. \A r \in Ref : RowInv(r)' BY DEF Inv, RowInv, Earned, provider
<1>7. pc'[w] = "idle" /\ \A v \in Worker \ {w} : pc'[v] = pc[v] /\ job'[v] = job[v]
  BY DEF End, Inv, TypeOK
<1>8. RequestInv(w)' BY <1>7 DEF RequestInv
<1> QED BY <1>3, <1>5, <1>6, <1>7, <1>8, Frame DEF provider

LEMMA RecordFinished ==
  ASSUME Inv, NEW w \in Worker, pc[w] \in {"complete", "record failure"}
  PROVE  record[job[w].key] \in Record
<1>1. RequestInv(w) BY DEF Inv
<1> QED BY <1>1 DEF RequestInv, InitiateOnly, Registered, Inv, TypeOK

LEMMA CompleteKeeps ==
  ASSUME Inv, NEW w \in Worker, Complete(w)
  PROVE  Inv'
<1>1. record[job[w].key] \in Record BY RecordFinished DEF Complete, At
<1>2. job[w].ref \in Ref /\ job[w].key \in Key
  BY JobInFlight DEF Complete, At, RequestInv, InitiateOnly
<1>3. DEFINE rec == [record[job[w].key] EXCEPT !.state = "completed", !.resource = job[w].ref]
<1>4. rec \in Record BY <1>1, <1>2 DEF Record
<1>5. record' = [record EXCEPT ![job[w].key] = rec]
  BY <1>2 DEF Complete, Inv, TypeOK
<1> QED BY <1>4, <1>5, RecordKeeps DEF Complete, At

LEMMA RecordFailureKeeps ==
  ASSUME Inv, NEW w \in Worker, RecordFailure(w)
  PROVE  Inv'
<1>1. record[job[w].key] \in Record BY RecordFinished DEF RecordFailure, At
<1>2. job[w].key \in Key
  BY JobInFlight DEF RecordFailure, At, RequestInv, InitiateOnly
<1>3. DEFINE st == IF job[w].error = "timeout" THEN "pending" ELSE "failed"
             rec == [record[job[w].key] EXCEPT !.state = st]
<1>4. rec \in Record BY <1>1 DEF Record
<1>5. record' = [record EXCEPT ![job[w].key] = rec]
  BY <1>2 DEF RecordFailure, Inv, TypeOK
<1> QED BY <1>4, <1>5, RecordKeeps DEF RecordFailure, At

\* A status write of an earned status to an existing row.
LEMMA StatusWriteKeeps ==
  ASSUME Inv, NEW w \in Worker, pc[w] \in {"update", "overwrite"},
         status' = [status EXCEPT ![job[w].ref] = job[w].target],
         UNCHANGED <<record, event, reconciled, provider>>,
         \A v \in Worker \ {w} : pc'[v] = pc[v] /\ job'[v] = job[v],
         pc' \in [Worker -> Steps], pc'[w] # "dispatch",
         job' \in [Worker -> Job \cup {NoJob}], RequestInv(w)'
  PROVE  Inv'
<1>1. job[w] \in Job /\ RequestInv(w) BY JobInFlight
<1>2. job[w].ref \in Ref /\ job[w].target \in Status BY <1>1 DEF Job
<1>3. Earned(job[w].ref, job[w].target) /\ status[job[w].ref] # NoTransfer
  BY <1>1 DEF RequestInv, WithRow
<1>4. TypeOK' BY <1>2 DEF Inv, TypeOK, provider
<1>5. \A r \in Ref : status[r] # NoTransfer => status'[r] # NoTransfer
  BY <1>2, DistinctAssumption DEF Inv, TypeOK
<1>6. Grows BY <1>5 DEF Grows, Earned, provider
<1>7. ASSUME NEW r \in Ref PROVE RowInv(r)'
  <2>1. CASE r = job[w].ref
    <3>1. status'[r] = job[w].target BY <2>1, <1>2 DEF Inv, TypeOK
    <3>2. RowInv(r) /\ status[r] # NoTransfer BY <2>1, <1>3 DEF Inv
    <3>3. Earned(r, job[w].target) BY <2>1, <1>3
    <3> QED BY <3>1, <3>2, <3>3, <1>2, DistinctAssumption DEF RowInv, Earned, provider
  <2>2. CASE r # job[w].ref
    BY <2>2 DEF Inv, TypeOK, RowInv, Earned, provider
  <2> QED BY <2>1, <2>2
<1> QED BY <1>4, <1>6, <1>7, Frame DEF provider

LEMMA TransitionWriteKeeps ==
  ASSUME Inv, NEW w \in Worker, TransitionWrite(w)
  PROVE  Inv'
<1>1. job[w] \in Job /\ RequestInv(w) /\ job[w].ref \in Ref /\ job[w].target \in Status
  BY JobInFlight DEF TransitionWrite, At, Job
<1>2. pc' = [pc EXCEPT ![w] = AfterTransition(w)] /\ job' = job
  BY DEF TransitionWrite, GoTo
<1>3. AfterTransition(w) \in {"mark processed", "complete", "record failure"}
  BY DEF AfterTransition
<1>4. pc'[w] = AfterTransition(w) /\ pc' \in [Worker -> Steps]
  BY <1>2, <1>3 DEF Inv, TypeOK, Steps
<1>5. status'[job[w].ref] # NoTransfer
  BY <1>1, DistinctAssumption DEF TransitionWrite, Inv, TypeOK
<1>6. RequestInv(w)'
  BY <1>1, <1>2, <1>4, <1>5 DEF TransitionWrite, At, AfterTransition, RequestInv, Earned,
              InitiateOnly, WebhookOnly, Registered, WithRow, provider
<1>7. job' \in [Worker -> Job \cup {NoJob}]
      /\ \A v \in Worker \ {w} : pc'[v] = pc[v] /\ job'[v] = job[v]
  BY <1>2 DEF Inv, TypeOK
<1> QED BY <1>3, <1>4, <1>6, <1>7, StatusWriteKeeps DEF TransitionWrite, At

LEMMA OverwriteKeeps ==
  ASSUME Inv, NEW w \in Worker, Overwrite(w)
  PROVE  Inv'
<1>1. /\ pc'[w] = "idle" /\ pc' \in [Worker -> Steps]
      /\ job' \in [Worker -> Job \cup {NoJob}]
      /\ \A v \in Worker \ {w} : pc'[v] = pc[v] /\ job'[v] = job[v]
  BY DEF Overwrite, End, Inv, TypeOK, Steps
<1>2. RequestInv(w)' BY <1>1 DEF RequestInv
<1> QED BY <1>1, <1>2, StatusWriteKeeps DEF Overwrite, At

\* A write of the event table.
LEMMA EventKeeps ==
  ASSUME Inv, NEW w \in Worker, pc[w] \in WebhookOnly,
         NEW mark \in {"received", "processed", "ignored"},
         event' = [event EXCEPT ![EventOf(job[w].ref, job[w].target)] = mark],
         UNCHANGED <<status, record, reconciled, provider>>,
         \A v \in Worker \ {w} : pc'[v] = pc[v] /\ job'[v] = job[v],
         pc' \in [Worker -> Steps], pc'[w] # "dispatch",
         job' \in [Worker -> Job \cup {NoJob}], RequestInv(w)'
  PROVE  Inv'
<1>1. TypeOK' BY DEF Inv, TypeOK, provider
<1>2. Grows BY DEF Grows, Earned, provider
<1>3. \A r \in Ref : RowInv(r)' BY DEF Inv, RowInv, Earned, provider
<1> QED BY <1>1, <1>2, <1>3, Frame DEF provider

LEMMA ReceiveKeeps ==
  ASSUME Inv, NEW w \in Worker, Receive(w)
  PROVE  Inv'
<1>1. job[w] \in Job /\ RequestInv(w) BY JobInFlight DEF Receive, At
<1>2. CASE event[EventOf(job[w].ref, job[w].target)] = "none"
  <2>1. pc' = [pc EXCEPT ![w] = "locate"] /\ job' = job
    BY <1>2 DEF Receive, GoTo
  <2>2. /\ pc'[w] = "locate" /\ pc' \in [Worker -> Steps]
        /\ job' \in [Worker -> Job \cup {NoJob}]
        /\ \A v \in Worker \ {w} : pc'[v] = pc[v] /\ job'[v] = job[v]
    BY <2>1 DEF Inv, TypeOK, Steps
  <2>3. RequestInv(w)'
    BY <1>1, <2>1, <2>2 DEF Receive, At, RequestInv, Earned,
              InitiateOnly, WebhookOnly, Registered, WithRow, provider
  <2> QED BY <1>2, <2>2, <2>3, EventKeeps DEF Receive, At, Receipt, WebhookOnly
<1>3. CASE event[EventOf(job[w].ref, job[w].target)] # "none"
  BY <1>3, EndStep DEF Receive, tables
<1> QED BY <1>2, <1>3

LEMMA MarkEventKeeps ==
  ASSUME Inv, NEW w \in Worker, MarkEvent(w)
  PROVE  Inv'
<1>1. PICK mark \in {"processed", "ignored"} : Mark(w, mark) BY DEF MarkEvent
<1>2. pc[w] \in WebhookOnly BY DEF MarkEvent, At, WebhookOnly
<1>3. /\ pc'[w] = "idle" /\ pc' \in [Worker -> Steps]
      /\ job' \in [Worker -> Job \cup {NoJob}]
      /\ \A v \in Worker \ {w} : pc'[v] = pc[v] /\ job'[v] = job[v]
  BY <1>1 DEF Mark, End, Inv, TypeOK, Steps
<1>4. RequestInv(w)' BY <1>3 DEF RequestInv
<1> QED BY <1>1, <1>2, <1>3, <1>4, EventKeeps DEF Mark

LEMMA ReconcileKeeps ==
  ASSUME Inv, NEW w \in Worker, Reconcile(w)
  PROVE  Inv'
<1>1. TypeOK' BY DEF Reconcile, End, Inv, TypeOK, Steps, provider
<1>2. Grows BY DEF Reconcile, Grows, Earned, provider
<1>3. \A r \in Ref : RowInv(r)' BY DEF Reconcile, Inv, RowInv, Earned, provider
<1>4. pc'[w] = "idle" /\ \A v \in Worker \ {w} : pc'[v] = pc[v] /\ job'[v] = job[v]
  BY DEF Reconcile, End, Inv, TypeOK
<1>5. RequestInv(w)' BY <1>4 DEF RequestInv
<1> QED BY <1>1, <1>2, <1>3, <1>4, <1>5, Frame DEF Reconcile, provider

\* The provider moves a transfer it has accepted.
LEMMA ProviderKeeps ==
  ASSUME Inv, NEW r \in Ref, Settle(r) \/ Return(r)
  PROVE  Inv'
<1>1. PICK word \in {"success", "failed", "reversed"} :
        upstream' = [upstream EXCEPT ![r] = word]
  BY DEF Settle, Return
<1>2. UNCHANGED <<tables, rail, dispatched, pc, job>> BY DEF Settle, Return
<1>3. upstream[r] # "none" /\ upstream[r] # "reversed"
      /\ (upstream[r] = "success" => word = "reversed")
  BY <1>1 DEF Settle, Return, Inv, TypeOK
<1>4. TypeOK' BY <1>1, <1>2 DEF Inv, TypeOK, Word, tables
<1>5. \A q \in Ref, s \in Status \cup {NoTransfer} :
        Earned(q, s) =>
          /\ s = "successful" => upstream'[q] \in {"success", "reversed"}
          /\ s = "reversed" => upstream'[q] = "reversed"
  BY <1>1, <1>3 DEF Inv, TypeOK, Earned
<1>6. \A q \in Ref : upstream[q] = "none" => upstream'[q] = "none"
  BY <1>1, <1>3 DEF Inv, TypeOK
<1>7. \A q \in Ref : upstream[q] # "none" => upstream'[q] # "none"
  BY <1>1 DEF Inv, TypeOK
<1>8. ASSUME NEW q \in Ref PROVE RowInv(q)'
  <2>1. RowInv(q) /\ status[q] \in Status \cup {NoTransfer} BY DEF Inv, TypeOK
  <2> QED BY <1>2, <1>5, <1>6, <2>1 DEF RowInv, Earned, tables
<1>9. ASSUME NEW w \in Worker PROVE RequestInv(w)'
  <2>1. SUFFICES ASSUME pc[w] # "idle" PROVE RequestInv(w)'
    BY <1>2 DEF RequestInv
  <2>2. RequestInv(w) /\ job[w].ref \in Ref /\ job[w].target \in Status
    BY <2>1, JobInFlight DEF Job
  <2>3. Earned(job[w].ref, job[w].target) BY <2>1, <2>2 DEF RequestInv
  <2>4. /\ job[w].target = "successful" => upstream'[job[w].ref] \in {"success", "reversed"}
        /\ job[w].target = "reversed" => upstream'[job[w].ref] = "reversed"
    BY <1>5, <2>2, <2>3
  <2> QED BY <1>2, <1>6, <1>7, <2>1, <2>2, <2>4 DEF RequestInv, Earned, tables
<1>10. DispatcherInv' BY <1>2 DEF Inv, DispatcherInv
<1> QED BY <1>4, <1>8, <1>9, <1>10 DEF Inv

-----------------------------------------------------------------------------
LEMMA InitInv == Init => Inv
<1> SUFFICES ASSUME Init PROVE Inv OBVIOUS
<1>1. TypeOK BY DEF Init, TypeOK, Word, Steps, Event
<1>2. \A r \in Ref : RowInv(r)
  BY DistinctAssumption DEF Init, RowInv, Earned
<1>3. (\A w \in Worker : RequestInv(w)) /\ DispatcherInv
  BY DEF Init, RequestInv, DispatcherInv
<1> QED BY <1>1, <1>2, <1>3 DEF Inv

LEMMA NextInv == Inv /\ [Next]_vars => Inv'
<1> SUFFICES ASSUME Inv, [Next]_vars PROVE Inv' OBVIOUS
<1>1. CASE UNCHANGED vars
  BY <1>1 DEF vars, tables, provider, Inv, TypeOK, RowInv, RequestInv, DispatcherInv, Earned
<1>2. ASSUME NEW w \in Worker, Start(w) PROVE Inv'
  BY <1>2, StartInitiateKeeps, StartSyncKeeps, StartWebhookKeeps, StartReconcileKeeps DEF Start
<1>3. ASSUME NEW w \in Worker, Step(w) PROVE Inv'
  BY <1>3, CheckReferenceKeeps, RegisterKeeps, CreateKeeps, DispatchKeeps, RefuseKeeps,
     AnswerKeeps, LoseAnswerKeeps, DatabaseErrorKeeps, CompleteKeeps, RecordFailureKeeps,
     TransitionReadKeeps, TransitionWriteKeeps, VerifyKeeps, OverwriteKeeps,
     ReceiveKeeps, LocateKeeps, MarkEventKeeps, ReconcileKeeps DEF Step
<1>4. ASSUME NEW w \in Worker, Crash(w) PROVE Inv' BY <1>4, CrashKeeps
<1>5. ASSUME NEW r \in Ref, Settle(r) \/ Return(r) PROVE Inv' BY <1>5, ProviderKeeps
<1> QED BY <1>1, <1>2, <1>3, <1>4, <1>5 DEF Next

\* Inv, the inductive invariant behind the theorems below, always holds.
THEOREM InvHolds == Spec => []Inv
BY InitInv, NextInv, PTL DEF Spec

\* Every value the services keep has its type, under every fault.
THEOREM TypeCorrect == Spec => []TypeOK
<1>1. Inv => TypeOK BY DEF Inv
<1> QED BY <1>1, InvHolds, PTL

\* The provider accepts at most one request per reference, however many clients
\* retry it, under whatever keys, and whatever is lost in between: initiate's
\* unique row is created before the provider is called.
THEOREM NeverDispatchedTwice == Spec => []DispatchedOnce
<1>1. Inv => DispatchedOnce BY DEF Inv, RowInv, DispatchedOnce
<1> QED BY <1>1, InvHolds, PTL

\* No transfer is shown as successful or reversed that the provider has not paid
\* or returned, although every writer of the status may act on a stale read.
THEOREM StatusesAreEarned == Spec => []StatusIsEarned
<1>1. Inv => StatusIsEarned BY DEF Inv, RowInv, StatusIsEarned
<1> QED BY <1>1, InvHolds, PTL

-----------------------------------------------------------------------------
(* The writers of the status implement the state machine.                  *)

\* A request is moved by its own steps only.
LEMMA OthersStay ==
  ASSUME Inv, [Next]_vars, NEW v \in Worker, ~(Start(v) \/ Step(v) \/ Crash(v))
  PROVE  pc'[v] = pc[v] /\ job'[v] = job[v]
<1>1. job \in [Worker -> Job \cup {NoJob}] /\ pc \in [Worker -> Steps] BY DEF Inv, TypeOK
<1>2. CASE UNCHANGED vars BY <1>2 DEF vars
<1>3. ASSUME NEW r \in Ref, Settle(r) \/ Return(r) PROVE pc'[v] = pc[v] /\ job'[v] = job[v]
  BY <1>3 DEF Settle, Return
<1>4. ASSUME NEW w \in Worker, w # v, Start(w) \/ Step(w) \/ Crash(w)
      PROVE  pc'[v] = pc[v] /\ job'[v] = job[v]
  BY <1>1, <1>4 DEF Start, Step, Crash, StartInitiate, StartSync, StartWebhook,
     StartReconcile, Begin, CheckReference, Register, Create, Refuse, Answer, LoseAnswer,
     Dispatch, DatabaseError, Complete, RecordFailure, TransitionRead, TransitionWrite,
     Verify, Overwrite, Receive, Locate, MarkEvent, Mark, Reconcile, Throw, GoTo, End
<1> QED BY <1>2, <1>3, <1>4 DEF Next

\* Three statements write the status column.
LEMMA StatusWriters ==
  ASSUME [Next]_vars, status' # status
  PROVE  \E w \in Worker : Create(w) \/ TransitionWrite(w) \/ Overwrite(w)
BY DEF Next, vars, tables, Start, Step, Crash, StartInitiate, StartSync, StartWebhook,
   StartReconcile, CheckReference, Register, Refuse, Answer, LoseAnswer, Dispatch,
   DatabaseError, Complete, RecordFailure, TransitionRead, Verify,
   Receive, Locate, MarkEvent, Mark, Reconcile, Settle, Return

\* A write that is decided is a move from the status its request has seen.
SeenInv ==
  \A w \in Worker : pc[w] \in {"update", "overwrite"} =>
    job[w].target \in Lifecycle!Allowed[job[w].seen]

LEMMA SeenStep ==
  ASSUME Inv, SeenInv, [Next]_vars
  PROVE  SeenInv'
<1> SUFFICES ASSUME NEW v \in Worker, pc'[v] \in {"update", "overwrite"}
             PROVE  job'[v].target \in Lifecycle!Allowed[job'[v].seen]
  BY DEF SeenInv
<1>1. pc \in [Worker -> Steps] /\ job \in [Worker -> Job \cup {NoJob}] BY DEF Inv, TypeOK
<1>2. CASE ~(Start(v) \/ Step(v) \/ Crash(v))
  BY <1>2, OthersStay DEF SeenInv
<1>3. CASE TransitionRead(v)
  <2>1. job[v] \in Job BY <1>3, JobInFlight DEF TransitionRead, At
  <2>2. status[job[v].ref] # job[v].target /\ IsValid(status[job[v].ref], job[v].target)
        /\ job' = [job EXCEPT ![v].seen = status[job[v].ref]]
    BY <1>1, <1>3 DEF TransitionRead, GoTo, AfterTransition
  <2> QED BY <1>1, <2>1, <2>2 DEF IsValid, Lifecycle!IsValid, Job
<1>4. CASE Verify(v)
  <2>1. job[v] \in Job BY <1>4, JobInFlight DEF Verify, At
  <2>2. PICK target : target = VerifiedStatus(job[v].ref) OBVIOUS
  <2>3. /\ target # job[v].seen /\ IsValid(job[v].seen, target)
        /\ job' = [job EXCEPT ![v].target = target]
    BY <1>1, <1>4, <2>2 DEF Verify, End
  <2> QED BY <1>1, <2>1, <2>3 DEF IsValid, Lifecycle!IsValid, Job
<1>5. CASE Start(v) \/ CheckReference(v) \/ Refuse(v) \/ Answer(v) \/ LoseAnswer(v)
           \/ DatabaseError(v) \/ Locate(v) \/ Crash(v) \/ Dispatch(v)
  BY <1>1, <1>5 DEF Start, StartInitiate, StartSync, StartWebhook, StartReconcile, Begin,
     CheckReference, Refuse, Answer, LoseAnswer, DatabaseError, Locate, Crash, Dispatch,
     Throw, GoTo, End
<1>6. CASE Register(v) \/ Create(v) \/ Complete(v) \/ RecordFailure(v) \/ Receive(v)
           \/ MarkEvent(v) \/ Reconcile(v) \/ TransitionWrite(v) \/ Overwrite(v)
  BY <1>1, <1>6 DEF Register, Create, Complete, RecordFailure, Receive, MarkEvent, Mark,
     Reconcile, TransitionWrite, Overwrite, AfterTransition, GoTo, End
<1> QED BY <1>2, <1>3, <1>4, <1>5, <1>6 DEF Step

\* A write to a status nobody has changed since it was read is a move of the table.
LEMMA WriteIsMove ==
  ASSUME Inv, SeenInv, NEW w \in Worker, TransitionWrite(w) \/ Overwrite(w)
  PROVE  /\ job[w].ref \in Ref
         /\ status' = [status EXCEPT ![job[w].ref] = job[w].target]
         /\ job[w].seen = status[job[w].ref] => Lifecycle!Move(job[w].ref, job[w].target)
         /\ job[w].seen # status[job[w].ref] => WritesOver(job[w].ref)
         /\ job[w].target \in Status
<1>1. job[w].ref \in Ref /\ job[w].target \in Status /\ status[job[w].ref] # NoTransfer
  BY JobInFlight DEF TransitionWrite, Overwrite, At, Job, RequestInv, WithRow
<1>2. job[w].target \in Lifecycle!Allowed[job[w].seen]
  BY DEF SeenInv, TransitionWrite, Overwrite, At
<1>3. status' = [status EXCEPT ![job[w].ref] = job[w].target]
  BY DEF TransitionWrite, Overwrite
<1> QED BY <1>1, <1>2, <1>3 DEF Lifecycle!Move, WritesOver

LEMMA LifecycleStep ==
  ASSUME Inv, SeenInv, [Next]_vars
  PROVE  [Lifecycle!Next \/ \E r \in Ref : WritesOver(r)]_status
<1>1. CASE status' = status BY <1>1
<1>2. ASSUME NEW w \in Worker, Create(w), status' # status PROVE Lifecycle!Next
  <2>1. job[w].ref \in Ref BY <1>2, JobInFlight DEF Create, At
  <2>2. Lifecycle!Create(job[w].ref) BY <1>2 DEF Create, Fresh, Lifecycle!Create
  <2> QED BY <2>1, <2>2 DEF Lifecycle!Next
<1>3. ASSUME NEW w \in Worker, TransitionWrite(w) \/ Overwrite(w)
      PROVE  Lifecycle!Next \/ \E r \in Ref : WritesOver(r)
  BY <1>3, WriteIsMove DEF Lifecycle!Next
<1> QED BY <1>1, <1>2, <1>3, StatusWriters

\* However many requests write the status column at once, and whatever fails, each
\* write is a step of the state machine of transfer-state-machine.ts or overwrites a
\* status that was written after its request had read.
THEOREM RequestsFollowLifecycle == Spec => FollowsLifecycle
<1>1. Init => Lifecycle!Init BY DEF Init, Lifecycle!Init
<1>2. Init => SeenInv BY DEF Init, SeenInv
<1>3. Inv /\ SeenInv /\ [Next]_vars => SeenInv' BY SeenStep
<1>4. Inv /\ SeenInv /\ [Next]_vars => [Lifecycle!Next \/ \E r \in Ref : WritesOver(r)]_status
  BY LifecycleStep
<1> QED BY <1>1, <1>2, <1>3, <1>4, InvHolds, PTL DEF Spec, FollowsLifecycle

-----------------------------------------------------------------------------
(* One idempotency key disburses once.                                     *)

\* HSpec adds variables to Spec and restricts nothing.
THEOREM HistoryRefines == HSpec => Spec
<1>1. HInit => Init BY DEF HInit
<1>2. [HNext]_<<vars, history>> => [Next]_vars BY DEF HNext
<1> QED BY <1>1, <1>2, PTL DEF HSpec, Spec

\* The record of a key nobody has taken names the one transfer the key was used for, and
\* a request whose record has not changed since it read it may go on.
KeyInv ==
  /\ \A r \in Ref : \A i \in DOMAIN dispatched[r] : dispatched[r][i] \notin taken =>
       record[dispatched[r][i]] # NoRecord /\ record[dispatched[r][i]].hash = r
  /\ \A w \in Worker :
       /\ pc[w] \in {"reference", "register"} /\ w \notin outdated =>
            Proceeds(job[w].key, job[w].ref)
       /\ pc[w] \in Registered /\ job[w].kind = "initiate" /\ job[w].key \notin taken =>
            record[job[w].key].hash = job[w].ref

\* A request keeps its key and its reference, and passes from "register" to the steps
\* that follow it only by registering its record.
LEMMA RequestsKeepTheirKey ==
  ASSUME Inv, NEW w \in Worker, Step(w), ~Register(w), ~CheckReference(w), pc'[w] # "idle"
  PROVE  /\ job'[w].key = job[w].key /\ job'[w].ref = job[w].ref
         /\ job'[w].kind = job[w].kind
         /\ pc'[w] \notin {"reference", "register"}
         /\ pc'[w] \in Registered /\ job[w].kind = "initiate" => pc[w] \in Registered
<1>1. pc \in [Worker -> Steps] /\ job \in [Worker -> Job \cup {NoJob}] BY DEF Inv, TypeOK
<1>2. ASSUME End(w) PROVE FALSE BY <1>1, <1>2 DEF End
<1>3. ASSUME NEW e, Throw(w, e), pc[w] \in Registered, job[w] \in Job
      PROVE  /\ job'[w].key = job[w].key /\ job'[w].ref = job[w].ref
             /\ job'[w].kind = job[w].kind
             /\ pc'[w] = "transition"
  BY <1>1, <1>3 DEF Throw, GoTo, Job
<1>4. CASE Create(w) \/ Dispatch(w) \/ TransitionWrite(w)
  BY <1>1, <1>2, <1>4 DEF Create, Dispatch, TransitionWrite, AfterTransition, GoTo, At, Registered
<1>5. CASE Refuse(w) \/ LoseAnswer(w) \/ DatabaseError(w)
  <2>1. pc[w] \in Registered /\ pc[w] # "idle"
    BY <1>5 DEF Refuse, LoseAnswer, DatabaseError, At, Registered
  <2>2. job[w] \in Job BY <2>1, JobInFlight
  <2> QED BY <1>3, <1>5, <2>1, <2>2 DEF Refuse, LoseAnswer, DatabaseError
<1>6. CASE Answer(w)
  <2>1. job[w] \in Job BY <1>6, JobInFlight DEF Answer, At
  <2> QED BY <1>1, <1>6, <2>1 DEF Answer, GoTo, At, Registered, Job
<1>7. CASE TransitionRead(w)
  <2>1. job[w] \in Job BY <1>7, JobInFlight DEF TransitionRead, At
  <2> QED BY <1>1, <1>7, <2>1 DEF TransitionRead, AfterTransition, GoTo, At, Registered, Job
<1>8. CASE Verify(w)
  <2>1. job[w] \in Job BY <1>8, JobInFlight DEF Verify, At
  <2>2. /\ pc'[w] = "overwrite"
        /\ job' = [job EXCEPT ![w].target = VerifiedStatus(job[w].ref)]
    BY <1>1, <1>2, <1>8 DEF Verify, GoTo
  <2> QED BY <1>1, <2>1, <2>2 DEF Registered, Job
<1>9. CASE Receive(w) \/ Locate(w)
  <2>1. job'[w] = job[w] /\ pc'[w] \in {"locate", "mark ignored", "mark processed", "transition"}
    BY <1>1, <1>2, <1>9 DEF Receive, Locate, GoTo
  <2>2. job[w].kind = "webhook"
    BY <1>9, JobInFlight DEF Receive, Locate, At, RequestInv, WebhookOnly
  <2> QED BY <2>1, <2>2
<1>10. CASE Complete(w) \/ RecordFailure(w) \/ Overwrite(w) \/ MarkEvent(w) \/ Reconcile(w)
  BY <1>2, <1>10 DEF Complete, RecordFailure, Overwrite, MarkEvent, Mark, Reconcile
<1> QED BY <1>4, <1>5, <1>6, <1>7, <1>8, <1>9, <1>10 DEF Step

\* A record is never given to another request, but where a request takes its key.
HashesStay ==
  \A k \in Key \ taken' : record[k] # NoRecord =>
    record'[k] # NoRecord /\ record'[k].hash = record[k].hash

\* Only registering writes the hash, and it writes the hash that is there unless the
\* record has changed since the request read it.
LEMMA HashesStayByStep ==
  ASSUME Inv, KeyInv, [HNext]_<<vars, history>>
  PROVE  HashesStay
<1>1. record \in [Key -> Record \cup {NoRecord}] BY DEF Inv, TypeOK
<1>2. CASE UNCHANGED record BY <1>2 DEF HashesStay
<1>3. ASSUME NEW w \in Worker, Register(w) PROVE HashesStay
  <2>1. PICK k \in Key : k = job[w].key
    BY <1>3, JobInFlight DEF Register, At, RequestInv, InitiateOnly
  <2>2. CASE w \in outdated
    <3>1. record' # record => k \in taken'
      BY <1>3, <2>1, <2>2 DEF HNext, RegistersOver, vars, tables
    <3>2. \A l \in Key \ {k} : record'[l] = record[l] BY <1>1, <1>3, <2>1 DEF Register
    <3> QED BY <3>1, <3>2 DEF HashesStay
  <2>3. CASE w \notin outdated
    <3>1. Proceeds(k, job[w].ref) BY <1>3, <2>1, <2>3 DEF Register, At, KeyInv
    <3>2. job[w].ref \in Ref BY <1>3, JobInFlight DEF Register, At
    <3> DEFINE old == record[k]
               rec == [hash |-> job[w].ref, state |-> "pending",
                       resource |-> IF old = NoRecord THEN NoTransfer ELSE old.resource]
    <3>3. record' = [record EXCEPT ![k] = rec] BY <1>1, <1>3, <2>1 DEF Register
    <3>4. rec \in Record /\ rec.hash = job[w].ref BY <1>1, <3>2 DEF Record
    <3> HIDE DEF rec
    <3>5. record'[k] = rec /\ \A l \in Key \ {k} : record'[l] = record[l] BY <1>1, <3>3
    <3>6. record'[k] # NoRecord /\ record'[k].hash = job[w].ref
      BY <3>4, <3>5, DistinctAssumption
    <3> QED BY <3>1, <3>5, <3>6 DEF HashesStay, Proceeds
  <2> QED BY <2>2, <2>3
<1>4. ASSUME NEW w \in Worker, Complete(w) \/ RecordFailure(w) PROVE HashesStay
  <2>1. PICK k \in Key : k = job[w].key
    BY <1>4, JobInFlight DEF Complete, RecordFailure, At, RequestInv, InitiateOnly
  <2>2. record[k] \in Record BY <1>4, <2>1, RecordFinished DEF Complete, RecordFailure, At
  <2>3. job[w].ref \in Ref BY <1>4, JobInFlight DEF Complete, RecordFailure, At
  <2>4. \E rec \in Record : rec.hash = record[k].hash /\ record' = [record EXCEPT ![k] = rec]
    <3>1. CASE Complete(w)
      <4> DEFINE rec == [record[k] EXCEPT !.state = "completed", !.resource = job[w].ref]
      <4>1. rec \in Record /\ rec.hash = record[k].hash BY <2>2, <2>3 DEF Record
      <4>2. record' = [record EXCEPT ![k] = rec] BY <1>1, <2>1, <3>1 DEF Complete
      <4> QED BY <4>1, <4>2
    <3>2. CASE RecordFailure(w)
      <4> DEFINE st == IF job[w].error = "timeout" THEN "pending" ELSE "failed"
                 rec == [record[k] EXCEPT !.state = st]
      <4>1. rec \in Record /\ rec.hash = record[k].hash BY <2>2 DEF Record
      <4>2. record' = [record EXCEPT ![k] = rec] BY <1>1, <2>1, <3>2 DEF RecordFailure
      <4> QED BY <4>1, <4>2
    <3> QED BY <1>4, <3>1, <3>2
  <2>5. PICK rec \in Record : rec.hash = record[k].hash /\ record' = [record EXCEPT ![k] = rec]
    BY <2>4
  <2>6. record'[k] = rec /\ \A l \in Key \ {k} : record'[l] = record[l] BY <1>1, <2>5
  <2> QED BY <2>5, <2>6, DistinctAssumption DEF HashesStay
<1>5. \/ UNCHANGED record
      \/ \E w \in Worker : Register(w) \/ Complete(w) \/ RecordFailure(w)
  BY DEF HNext, Next, vars, tables, Start, Step, Crash, StartInitiate, StartSync, StartWebhook,
     StartReconcile, CheckReference, Create, Refuse, Answer, LoseAnswer, Dispatch,
     DatabaseError, TransitionRead, TransitionWrite, Verify, Overwrite, Receive, Locate,
     MarkEvent, Mark, Reconcile, Settle, Return
<1> QED BY <1>2, <1>3, <1>4, <1>5

\* A key that is taken stays so, and a request is outdated by any write of its record.
LEMMA HistoryGrows ==
  ASSUME Inv, [HNext]_<<vars, history>>
  PROVE  /\ [Next]_vars /\ taken \subseteq taken' /\ overwritten \subseteq overwritten'
         /\ \A v \in Worker :
              pc[v] \in {"reference", "register"} /\ pc'[v] \in {"reference", "register"}
                /\ v \notin outdated' =>
              v \notin outdated /\ record'[job[v].key] = record[job[v].key]
         /\ \A r \in Ref \ overwritten' : ~(status' # status /\ WritesOver(r))
<1>1. CASE UNCHANGED <<vars, history>> BY <1>1 DEF vars, tables, history
<1>2. CASE HNext BY <1>2 DEF HNext, Outdates, Registering
<1> QED BY <1>1, <1>2

\* What is dispatched under a key is the request its record names.
LEMMA KeyStep ==
  ASSUME Inv, KeyInv, [HNext]_<<vars, history>>
  PROVE  KeyInv'
<1> DEFINE Named == \A r \in Ref : \A i \in DOMAIN dispatched'[r] :
                      dispatched'[r][i] \notin taken' =>
                        /\ record'[dispatched'[r][i]] # NoRecord
                        /\ record'[dispatched'[r][i]].hash = r
           MayGoOn(w) == pc'[w] \in {"reference", "register"} /\ w \notin outdated' =>
                           Proceeds(job[w].key, job[w].ref)'
           Holds(w) == pc'[w] \in Registered /\ job'[w].kind = "initiate"
                         /\ job'[w].key \notin taken' =>
                           record'[job'[w].key].hash = job'[w].ref
<1>1. HashesStay BY HashesStayByStep
<1>2. /\ pc \in [Worker -> Steps] /\ job \in [Worker -> Job \cup {NoJob}]
      /\ dispatched \in [Ref -> Seq(Key)]
  BY DEF Inv, TypeOK
<1>3. [Next]_vars /\ taken \subseteq taken' BY HistoryGrows
<1>4. ASSUME UNCHANGED dispatched PROVE Named
  <2> SUFFICES ASSUME NEW r \in Ref, NEW i \in DOMAIN dispatched[r],
                      dispatched[r][i] \notin taken'
               PROVE  /\ record'[dispatched[r][i]] # NoRecord
                      /\ record'[dispatched[r][i]].hash = r
    BY <1>4
  <2>1. dispatched[r][i] \in Key BY <1>2
  <2> QED BY <1>1, <1>3, <2>1 DEF HashesStay, KeyInv
<1>5. ASSUME NEW w \in Worker, Dispatch(w) PROVE Named
  <2>1. PICK k \in Key, q \in Ref : k = job[w].key /\ q = job[w].ref
    BY <1>5, JobInFlight DEF Dispatch, At, RequestInv, InitiateOnly
  <2>2. RequestInv(w) /\ pc[w] = "dispatch" /\ job[w].kind = "initiate"
    BY <1>5, JobInFlight DEF Dispatch, At, RequestInv, InitiateOnly
  <2>3. record[k] # NoRecord /\ (k \notin taken => record[k].hash = q) /\ dispatched[q] = <<>>
    BY <2>1, <2>2 DEF RequestInv, KeyInv, Registered
  <2>4. record' = record /\ dispatched' = [dispatched EXCEPT ![q] = <<k>>]
    BY <1>2, <1>5, <2>1, <2>3 DEF Dispatch, tables
  <2> SUFFICES ASSUME NEW r \in Ref, NEW i \in DOMAIN dispatched'[r],
                      dispatched'[r][i] \notin taken
               PROVE  /\ record[dispatched'[r][i]] # NoRecord
                      /\ record[dispatched'[r][i]].hash = r
    BY <1>3, <2>4
  <2>5. CASE r = q
    <3>1. dispatched'[r] = <<k>> BY <1>2, <2>4, <2>5
    <3>2. dispatched'[r][i] = k BY <3>1
    <3> QED BY <2>3, <2>5, <3>2
  <2>6. CASE r # q
    <3>1. dispatched'[r] = dispatched[r] BY <1>2, <2>4, <2>6
    <3> QED BY <3>1 DEF KeyInv
  <2> QED BY <2>5, <2>6
<1>6. UNCHANGED dispatched \/ \E w \in Worker : Dispatch(w)
  BY <1>3 DEF Next, vars, provider, Start, Step, Crash, StartInitiate, StartSync, StartWebhook,
     StartReconcile, CheckReference, Register, Create, Refuse, Answer, LoseAnswer,
     DatabaseError, Complete, RecordFailure, TransitionRead, TransitionWrite, Verify,
     Overwrite, Receive, Locate, MarkEvent, Mark, Reconcile, Settle, Return
<1>7. Named BY <1>4, <1>5, <1>6
<1>8. ASSUME NEW w \in Worker PROVE MayGoOn(w)
  <2> SUFFICES ASSUME pc'[w] \in {"reference", "register"}, w \notin outdated'
               PROVE  Proceeds(job[w].key, job[w].ref)'
    OBVIOUS
  <2>1. ASSUME pc[w] \in {"reference", "register"}, job'[w] = job[w]
        PROVE  Proceeds(job[w].key, job[w].ref)'
    BY <2>1, HistoryGrows DEF KeyInv, Proceeds
  <2>2. CASE ~(Start(w) \/ Step(w) \/ Crash(w)) BY <1>3, <2>1, <2>2, OthersStay
  <2>3. ASSUME NEW k \in Key, NEW r \in Ref, StartInitiate(w, k, r)
        PROVE  Proceeds(job[w].key, job[w].ref)'
    <3>1. job'[w].key = k /\ job'[w].ref = r /\ record' = record
      BY <1>2, <2>3 DEF StartInitiate, Begin, NewJob, tables
    <3> QED BY <2>3, <3>1 DEF StartInitiate, Proceeds
  <2>4. ASSUME \/ \E r \in Ref : StartSync(w, r) \/ StartReconcile(w, r)
               \/ \E r \in Ref, s \in Outcome : StartWebhook(w, r, s)
        PROVE  FALSE
    BY <1>2, <2>4 DEF StartSync, StartReconcile, StartWebhook, Begin
  <2>5. CASE CheckReference(w)
    <3>1. pc[w] = "reference" /\ job'[w] = job[w]
      BY <1>2, <2>5 DEF CheckReference, At, GoTo, End
    <3> QED BY <2>1, <3>1
  <2>6. CASE Register(w) \/ Crash(w) BY <1>2, <2>6 DEF Register, Crash, GoTo, End
  <2>7. CASE Step(w) /\ ~Register(w) /\ ~CheckReference(w)
    <3>1. pc'[w] # "idle" OBVIOUS
    <3> QED BY <2>7, <3>1, RequestsKeepTheirKey
  <2> QED BY <2>2, <2>3, <2>4, <2>5, <2>6, <2>7 DEF Start
<1>9. ASSUME NEW w \in Worker PROVE Holds(w)
  <2> SUFFICES ASSUME pc'[w] \in Registered, job'[w].kind = "initiate", job'[w].key \notin taken'
               PROVE  record'[job'[w].key].hash = job'[w].ref
    OBVIOUS
  <2>1. ASSUME pc[w] \in Registered, job[w].kind = "initiate", job'[w].key = job[w].key,
               job'[w].ref = job[w].ref
        PROVE  record'[job'[w].key].hash = job'[w].ref
    <3>1. PICK k \in Key : k = job[w].key /\ record[k] # NoRecord
      BY <2>1, JobInFlight DEF RequestInv, Registered
    <3> QED BY <1>1, <1>3, <2>1, <3>1 DEF HashesStay, KeyInv
  <2>2. CASE ~(Start(w) \/ Step(w) \/ Crash(w)) BY <1>3, <2>1, <2>2, OthersStay
  <2>3. CASE Start(w) \/ Crash(w) \/ CheckReference(w)
    BY <1>2, <2>3 DEF Start, StartInitiate, StartSync, StartReconcile, StartWebhook, Begin,
       CheckReference, Crash, GoTo, End, Registered
  <2>4. CASE Register(w)
    <3>1. PICK k \in Key : k = job[w].key
      BY <2>4, JobInFlight DEF Register, At, RequestInv, InitiateOnly
    <3>2. job' = job /\ record'[k].hash = job[w].ref
      BY <1>2, <2>4, <3>1 DEF Register, GoTo, Inv, TypeOK
    <3> QED BY <3>1, <3>2
  <2>5. CASE Step(w) /\ ~Register(w) /\ ~CheckReference(w)
    <3>1. pc'[w] # "idle" BY DEF Registered
    <3>2. /\ job'[w].key = job[w].key /\ job'[w].ref = job[w].ref
          /\ job'[w].kind = job[w].kind
          /\ pc'[w] \in Registered /\ job[w].kind = "initiate" => pc[w] \in Registered
      BY <2>5, <3>1, RequestsKeepTheirKey
    <3> QED BY <2>1, <3>2
  <2> QED BY <2>2, <2>3, <2>4, <2>5
<1> QED BY <1>7, <1>8, <1>9 DEF KeyInv

\* One idempotency key pays one transfer, however many requests overlap, whatever fails
\* in between and however often the client repeats the key with another reference,
\* unless a request registers over a record it has not seen.
THEOREM KeysDisburseOnce == HSpec => []KeyDisbursesOnce
<1>1. HInit => KeyInv
  BY DEF HInit, Init, KeyInv, Registered
<1>2. Inv /\ KeyInv /\ [HNext]_<<vars, history>> => KeyInv' BY KeyStep
<1>3. KeyInv => KeyDisbursesOnce
  <2> SUFFICES ASSUME KeyInv, NEW k \in Key \ taken PROVE Cardinality(PaidUnder(k)) <= 1
    BY DEF KeyDisbursesOnce
  <2>1. PaidUnder(k) \subseteq {record[k].hash} BY DEF KeyInv, PaidUnder
  <2>2. IsFiniteSet({record[k].hash}) /\ Cardinality({record[k].hash}) = 1
    BY FS_Singleton
  <2>3. Cardinality(PaidUnder(k)) <= Cardinality({record[k].hash}) BY <2>1, <2>2, FS_Subset
  <2> QED BY <2>2, <2>3
<1> QED BY <1>1, <1>2, <1>3, HistoryRefines, InvHolds, PTL DEF HSpec

-----------------------------------------------------------------------------
(* With no fault but timeouts and crashes, failed transfers were not paid.  *)

\* The provider rejected r, or never heard of it and never will.
NotPaid(r) ==
  \/ upstream[r] = "failed"
  \/ /\ upstream[r] = "none" /\ status[r] # NoTransfer
     /\ \A w \in Worker : pc[w] = "dispatch" => job[w].ref # r

FailedInv ==
  /\ \A r \in Ref : status[r] = "failed" => NotPaid(r)
  /\ \A w \in Worker : pc[w] # "idle" /\ job[w].target = "failed" => NotPaid(job[w].ref)

\* Only Create takes a request to the point of dispatching.
LEMMA DispatchersAreCreated ==
  ASSUME Inv, [Next]_vars, NEW v \in Worker, pc'[v] = "dispatch"
  PROVE  \/ pc[v] = "dispatch" /\ job'[v] = job[v]
         \/ Create(v) /\ status[job[v].ref] = NoTransfer /\ job'[v] = job[v]
<1>1. CASE UNCHANGED vars BY <1>1 DEF vars
<1>2. ASSUME NEW r \in Ref, Settle(r) \/ Return(r)
      PROVE  pc[v] = "dispatch" /\ job'[v] = job[v]
  BY <1>2 DEF Settle, Return
<1>3. ASSUME NEW w \in Worker, Start(w) \/ Step(w) \/ Crash(w)
      PROVE  \/ pc[v] = "dispatch" /\ job'[v] = job[v]
             \/ Create(v) /\ status[job[v].ref] = NoTransfer /\ job'[v] = job[v]
  <2>1. pc \in [Worker -> Steps] /\ job \in [Worker -> Job \cup {NoJob}] BY DEF Inv, TypeOK
  <2>2. CASE Create(w)
    BY <2>1, <2>2 DEF Create, Fresh, GoTo, End
  <2>3. CASE Start(w)
    BY <2>1, <2>3 DEF Start, StartInitiate, StartSync, StartWebhook, StartReconcile, Begin
  <2>4. CASE CheckReference(w) \/ Refuse(w) \/ Answer(w) \/ LoseAnswer(w)
             \/ DatabaseError(w) \/ Locate(w) \/ Crash(w) \/ Dispatch(w)
    BY <2>1, <2>4 DEF CheckReference, Refuse, Answer, LoseAnswer, DatabaseError, Locate,
       Crash, Dispatch, Throw, GoTo, End
  <2>5. CASE Register(w) \/ Complete(w) \/ RecordFailure(w) \/ Receive(w) \/ MarkEvent(w)
             \/ Reconcile(w)
    BY <2>1, <2>5 DEF Register, Complete, RecordFailure, Receive, MarkEvent, Mark,
       Reconcile, GoTo, End
  <2>6. CASE TransitionRead(w) \/ TransitionWrite(w) \/ Verify(w) \/ Overwrite(w)
    BY <2>1, <2>6 DEF TransitionRead, TransitionWrite, Verify, Overwrite, AfterTransition,
       GoTo, End
  <2> QED BY <1>3, <2>2, <2>3, <2>4, <2>5, <2>6 DEF Step
<1> QED BY <1>1, <1>2, <1>3 DEF Next

\* Nothing pays a transfer later that is not paid.
LEMMA NotPaidStays ==
  ASSUME Inv, Inv', [Next]_vars, NEW r \in Ref, NotPaid(r)
  PROVE  NotPaid(r)'
<1>1. upstream \in [Ref -> Word] /\ upstream' \in [Ref -> Word] BY DEF Inv, TypeOK
<1>2. ASSUME upstream'[r] # upstream[r] PROVE FALSE
  <2>1. ASSUME NEW q \in Ref, Settle(q) \/ Return(q) PROVE FALSE
    BY <1>1, <1>2, <2>1 DEF Settle, Return, NotPaid
  <2>2. ASSUME NEW w \in Worker, Dispatch(w) PROVE FALSE
    <3>1. job[w].ref \in Ref /\ upstream[job[w].ref] = "none"
      BY <2>2, JobInFlight DEF Dispatch, At, RequestInv
    <3>2. job[w].ref = r BY <1>1, <1>2, <2>2, <3>1 DEF Dispatch
    <3> QED BY <2>2, <3>1, <3>2 DEF Dispatch, At, NotPaid
  <2>3. UNCHANGED upstream \/ (\E w \in Worker : Dispatch(w))
        \/ (\E q \in Ref : Settle(q) \/ Return(q))
    BY DEF Next, vars, provider, Start, Step, Crash, StartInitiate, StartSync, StartWebhook,
       StartReconcile, CheckReference, Register, Create, Refuse, Answer, LoseAnswer,
       DatabaseError, Complete, RecordFailure, TransitionRead, TransitionWrite, Verify,
       Overwrite, Receive, Locate, MarkEvent, Mark, Reconcile
  <2> QED BY <1>2, <2>1, <2>2, <2>3
<1>3. CASE upstream[r] = "failed" BY <1>2, <1>3 DEF NotPaid
<1>4. CASE upstream[r] # "failed"
  <2>1. /\ upstream[r] = "none" /\ status[r] # NoTransfer
        /\ \A w \in Worker : pc[w] = "dispatch" => job[w].ref # r
    BY <1>4 DEF NotPaid
  <2>2. \A w \in Worker : pc'[w] = "dispatch" => job'[w].ref # r
    BY <2>1, DispatchersAreCreated
  <2>3. status'[r] # NoTransfer
    <3>1. SUFFICES ASSUME status' # status PROVE status'[r] # NoTransfer BY <2>1
    <3>2. \E w \in Worker : Create(w) \/ TransitionWrite(w) \/ Overwrite(w)
      BY <3>1, StatusWriters
    <3>3. PICK w \in Worker : Create(w) \/ TransitionWrite(w) \/ Overwrite(w) BY <3>2
    <3>4. job[w].ref \in Ref /\ job[w].target \in Status
      BY <3>3, JobInFlight DEF Create, TransitionWrite, Overwrite, At, Job
    <3>5. PICK s \in Status : status' = [status EXCEPT ![job[w].ref] = s]
      BY <3>1, <3>3, <3>4 DEF Create, TransitionWrite, Overwrite
    <3> QED BY <2>1, <3>4, <3>5, DistinctAssumption DEF Inv, TypeOK
  <2> QED BY <1>2, <2>1, <2>2, <2>3 DEF NotPaid
<1> QED BY <1>3, <1>4

\* What a request is about to write as failed was not paid.
LEMMA FailedTargets ==
  ASSUME Faults \cap {"network", "database"} = {}, Inv, Inv', FailedInv,
         NEW w \in Worker, Start(w) \/ Step(w) \/ Crash(w), [Next]_vars,
         pc'[w] # "idle", job'[w].target = "failed"
  PROVE  NotPaid(job[w].ref)'
<1>1. pc \in [Worker -> Steps] /\ job \in [Worker -> Job \cup {NoJob}] BY DEF Inv, TypeOK
<1>2. job'[w].ref \in Ref BY DEF Inv, RequestInv, Job
<1>3. PICK r \in Ref : r = job'[w].ref BY <1>2
<1>4. ASSUME NotPaid(r) PROVE NotPaid(job[w].ref)'
  BY <1>3, <1>4, NotPaidStays DEF NotPaid
<1>5. ASSUME NEW q \in Ref, StartSync(w, q) PROVE FALSE
  BY <1>1, <1>5 DEF StartSync, Begin, NewJob, Lifecycle!Terminal
<1>6. ASSUME NEW q \in Ref, StartReconcile(w, q) PROVE NotPaid(job[w].ref)'
  <2>1. q = r /\ status[q] = "failed"
    BY <1>1, <1>3, <1>6 DEF StartReconcile, Begin, NewJob
  <2> QED BY <1>4, <2>1 DEF FailedInv
<1>7. ASSUME NEW q \in Ref, NEW s \in Outcome, StartWebhook(w, q, s)
      PROVE  NotPaid(job[w].ref)'
  <2>1. q = r /\ s = "failed" BY <1>1, <1>3, <1>7 DEF StartWebhook, Begin, NewJob
  <2>2. upstream[r] = "failed" BY <1>7, <2>1 DEF StartWebhook, Announced
  <2> QED BY <1>4, <2>2 DEF NotPaid
<1>8. ASSUME NEW k \in Key, NEW q \in Ref, StartInitiate(w, k, q) PROVE FALSE
  BY <1>1, <1>8 DEF StartInitiate, Begin, NewJob
<1>9. CASE Refuse(w)
  <2>1. job[w] \in Job /\ RequestInv(w) BY <1>9, JobInFlight DEF Refuse, At
  <2>2. job'[w].ref = job[w].ref BY <1>1, <1>9, <2>1 DEF Refuse, Throw, Job
  <2>3. upstream[r] = "none" /\ status[r] # NoTransfer
    BY <1>3, <1>9, <2>1, <2>2 DEF Refuse, At, RequestInv, WithRow
  <2>4. \A v \in Worker : pc'[v] = "dispatch" => job'[v].ref # r
    BY <1>1, <1>3, <1>9, <2>2 DEF Refuse, At, Throw, GoTo, Inv, DispatcherInv
  <2> QED BY <1>3, <1>9, <2>3, <2>4 DEF Refuse, NotPaid, tables, provider
<1>10. CASE LoseAnswer(w)
  <2>1. job[w] \in Job BY <1>10, JobInFlight DEF LoseAnswer, At
  <2>2. Throw(w, "timeout") BY <1>10 DEF LoseAnswer
  <2>3. job'[w].target = "processing" BY <1>1, <2>1, <2>2 DEF Throw, StatusAfter, Job
  <2> QED BY <2>3
<1>11. CASE DatabaseError(w) BY <1>11 DEF DatabaseError
<1>12. CASE Answer(w)
  <2>1. job[w] \in Job BY <1>12, JobInFlight DEF Answer, At
  <2>2. job'[w].ref = job[w].ref /\ job'[w].target = InitialStatus(job[w].ref)
    BY <1>1, <1>12, <2>1 DEF Answer, Job
  <2>3. InitialStatus(r) = "failed" BY <1>3, <2>2
  <2>4. upstream[r] = "failed" BY <2>3 DEF InitialStatus, mapTransferStatus, Inv, TypeOK, Word
  <2> QED BY <1>4, <2>4 DEF NotPaid
<1>13. CASE Verify(w)
  <2>1. job[w] \in Job BY <1>13, JobInFlight DEF Verify, At
  <2>2. job'[w].ref = job[w].ref /\ job'[w].target = VerifiedStatus(job[w].ref)
    BY <1>1, <1>13, <2>1 DEF Verify, End, Job
  <2>3. VerifiedStatus(r) = "failed" BY <1>3, <2>2
  <2>4. upstream[r] = "failed" BY <2>3 DEF VerifiedStatus, mapTransferStatus, Inv, TypeOK, Word
  <2> QED BY <1>4, <2>4 DEF NotPaid
<1>14. CASE TransitionRead(w)
  <2>1. job[w] \in Job BY <1>14, JobInFlight DEF TransitionRead, At
  <2>2. job'[w].ref = job[w].ref /\ job'[w].target = job[w].target
    BY <1>1, <1>14, <2>1 DEF TransitionRead, Job
  <2>3. NotPaid(r) BY <1>3, <1>14, <2>2 DEF TransitionRead, At, FailedInv
  <2> QED BY <1>4, <2>3
<1>15. ASSUME job'[w] = job[w], pc[w] # "idle" PROVE NotPaid(job[w].ref)'
  BY <1>3, <1>4, <1>15 DEF FailedInv
<1>16. CASE CheckReference(w) \/ Register(w) \/ Create(w) \/ Dispatch(w) \/ Complete(w)
            \/ RecordFailure(w) \/ TransitionWrite(w) \/ Overwrite(w) \/ Receive(w)
            \/ Locate(w) \/ MarkEvent(w) \/ Reconcile(w) \/ Crash(w)
  <2>1. pc[w] # "idle"
    BY <1>16 DEF CheckReference, Register, Create, Dispatch, Complete, RecordFailure,
       TransitionWrite, Overwrite, Receive, Locate, MarkEvent, Reconcile, Crash, At
  <2>2. job'[w] = job[w] \/ End(w)
    BY <1>16 DEF CheckReference, Register, Create, Dispatch, Complete, RecordFailure,
       TransitionWrite, Overwrite, Receive, Locate, MarkEvent, Mark, Reconcile, Crash
  <2>3. ~End(w) BY <1>1 DEF End
  <2> QED BY <1>15, <2>1, <2>2, <2>3
<1> QED
  BY <1>5, <1>6, <1>7, <1>8, <1>9, <1>10, <1>11, <1>12, <1>13, <1>14, <1>16 DEF Start, Step

LEMMA FailedStep ==
  ASSUME Faults \cap {"network", "database"} = {}, Inv, Inv', FailedInv, [Next]_vars
  PROVE  FailedInv'
<1>1. status \in [Ref -> Status \cup {NoTransfer}] /\ job \in [Worker -> Job \cup {NoJob}]
      /\ pc \in [Worker -> Steps]
  BY DEF Inv, TypeOK
<1>2. ASSUME NEW r \in Ref, status'[r] = "failed" PROVE NotPaid(r)
  <2>1. CASE status[r] = "failed" BY <2>1 DEF FailedInv
  <2>2. CASE status[r] # "failed"
    <3>1. \E w \in Worker : Create(w) \/ TransitionWrite(w) \/ Overwrite(w)
      BY <1>1, <1>2, <2>2, StatusWriters
    <3>2. PICK w \in Worker : Create(w) \/ TransitionWrite(w) \/ Overwrite(w) BY <3>1
    <3>3. job[w].ref \in Ref BY <3>2, JobInFlight DEF Create, TransitionWrite, Overwrite, At
    <3>4. ~Create(w) BY <1>1, <1>2, <2>2, <3>3 DEF Create
    <3>5. status' = [status EXCEPT ![job[w].ref] = job[w].target] /\ pc[w] # "idle"
      BY <3>2, <3>4 DEF TransitionWrite, Overwrite, At
    <3>6. r = job[w].ref /\ job[w].target = "failed" BY <1>1, <1>2, <2>2, <3>3, <3>5
    <3> QED BY <3>5, <3>6 DEF FailedInv
  <2> QED BY <2>1, <2>2
<1>3. ASSUME NEW v \in Worker, pc'[v] # "idle", job'[v].target = "failed"
      PROVE  NotPaid(job[v].ref)'
  <2>1. CASE Start(v) \/ Step(v) \/ Crash(v) BY <1>3, <2>1, FailedTargets
  <2>2. CASE ~(Start(v) \/ Step(v) \/ Crash(v))
    <3>1. pc'[v] = pc[v] /\ job'[v] = job[v] BY <2>2, OthersStay
    <3>2. PICK r \in Ref : r = job'[v].ref BY <1>3 DEF Inv, RequestInv, Job
    <3>3. NotPaid(r) BY <1>3, <3>1, <3>2 DEF FailedInv
    <3> QED BY <3>2, <3>3, NotPaidStays DEF NotPaid
  <2> QED BY <2>1, <2>2
<1>4. \A r \in Ref : status'[r] = "failed" => NotPaid(r)' BY <1>2, NotPaidStays
<1> QED BY <1>3, <1>4 DEF FailedInv

\* Where the only faults are timeouts and crashes, a transfer shown as failed was
\* never paid and never will be.
THEOREM FailuresAreFinal ==
  ASSUME Faults \cap {"network", "database"} = {}
  PROVE  Spec => []FailedMeansNotPaid
<1>1. Init => FailedInv BY DistinctAssumption DEF Init, FailedInv
<1>2. Inv /\ Inv' /\ FailedInv /\ [Next]_vars => FailedInv' BY FailedStep
<1>3. FailedInv => FailedMeansNotPaid BY DEF FailedInv, FailedMeansNotPaid, NotPaid
<1> QED BY <1>1, <1>2, <1>3, InvHolds, PTL DEF Spec

-----------------------------------------------------------------------------
(* What a processed webhook has announced is not lost.                      *)

\* What a webhook in flight has found out about the status is still so, unless another
\* request wrote over it.
WebhookInv(w) ==
  pc[w] # "idle" /\ job[w].kind = "webhook" /\ job[w].ref \notin overwritten =>
    /\ pc[w] = "mark processed" => IsValid(job[w].target, status[job[w].ref])
    /\ pc[w] = "transition" /\ job[w].target = "reversed" => status[job[w].ref] # "pending"

\* The statuses no service writes.
Unused == {"created", "cancelled"}

EventInv ==
  /\ ProcessedEventsHold
  /\ \A r \in Ref : status[r] \notin Unused
  /\ \A w \in Worker : (pc[w] # "idle" => job[w].target \notin Unused) /\ WebhookInv(w)

\* A status that nobody writes over stays or moves along the table.
Moves(r) ==
  \/ status'[r] = status[r]
  \/ status[r] = NoTransfer /\ status'[r] = "pending"
  \/ status[r] \in Status /\ status'[r] \in Lifecycle!Allowed[status[r]]

LEMMA RowMoves ==
  ASSUME Inv, SeenInv, [HNext]_<<vars, history>>, NEW r \in Ref \ overwritten'
  PROVE  Moves(r)
<1>1. CASE status' = status BY <1>1 DEF Moves
<1>2. ASSUME NEW w \in Worker, Create(w) PROVE Moves(r)
  <2>1. job[w].ref \in Ref BY <1>2, JobInFlight DEF Create, At
  <2> QED BY <1>2, <2>1 DEF Create, Fresh, Moves, Inv, TypeOK
<1>3. ASSUME NEW w \in Worker, TransitionWrite(w) \/ Overwrite(w), status' # status
      PROVE  Moves(r)
  <2>1. status \in [Ref -> Status \cup {NoTransfer}] BY DEF Inv, TypeOK
  <2>2. CASE job[w].ref = r
    <3>1. Lifecycle!Move(r, job[w].target) BY <1>3, <2>2, WriteIsMove, HistoryGrows
    <3> QED BY <2>1, <3>1 DEF Lifecycle!Move, Moves
  <2>3. CASE job[w].ref # r
    BY <1>3, <2>1, <2>3, WriteIsMove DEF Moves
  <2> QED BY <2>2, <2>3
<1> QED BY <1>1, <1>2, <1>3, StatusWriters, HistoryGrows

\* The table, row by row.
LEMMA TableRows ==
  /\ Lifecycle!Allowed["created"] = {"pending", "processing", "failed", "cancelled"}
  /\ Lifecycle!Allowed["pending"] = {"processing", "successful", "failed", "cancelled"}
  /\ Lifecycle!Allowed["processing"] = {"successful", "failed", "reversed"}
  /\ Lifecycle!Allowed["successful"] = {"reversed"}
  /\ Lifecycle!Allowed["failed"] = {}
  /\ Lifecycle!Allowed["reversed"] = {}
  /\ Lifecycle!Allowed["cancelled"] = {}
BY DEF Lifecycle!Allowed

\* What an event has announced stays reachable along the state machine, and nothing
\* becomes pending again.
LEMMA OutcomesHold ==
  ASSUME Inv, NEW r \in Ref, Moves(r), NEW s \in Outcome
  PROVE  /\ IsValid(s, status[r]) => IsValid(s, status'[r])
         /\ status[r] \notin {NoTransfer, "created", "pending"} => status'[r] # "pending"
<1>1. status[r] \in Status \cup {NoTransfer} BY DEF Inv, TypeOK
<1>2. NoTransfer \notin Status BY DistinctAssumption
<1>3. s \in {"successful", "failed", "reversed"} BY DEF Outcome
<1>4. CASE status'[r] = status[r] BY <1>4
<1>5. CASE status[r] = NoTransfer /\ status'[r] = "pending"
  <2>1. ~IsValid(s, NoTransfer) BY <1>2, <1>3, TableRows DEF IsValid, Lifecycle!IsValid
  <2> QED BY <1>5, <2>1
<1>6. ASSUME NEW p \in Status, NEW q, p = status[r], q = status'[r], q \in Lifecycle!Allowed[p]
      PROVE  ((IsValid(s, p) => IsValid(s, q)) /\ q # "pending") \/ p = "created"
  BY <1>3, <1>6, TableRows DEF IsValid, Lifecycle!IsValid
<1>7. ~IsValid(s, "created") BY <1>3, TableRows DEF IsValid, Lifecycle!IsValid
<1>8. CASE status[r] \in Status /\ status'[r] \in Lifecycle!Allowed[status[r]]
  BY <1>6, <1>7, <1>8
<1> QED BY <1>4, <1>5, <1>8 DEF Moves

\* No request aims at a status the services do not use.
LEMMA UsedStatuses ==
  ASSUME Inv, [Next]_vars, \A r \in Ref : status[r] \notin Unused,
         \A w \in Worker : pc[w] # "idle" => job[w].target \notin Unused
  PROVE  /\ \A r \in Ref : status'[r] \notin Unused
         /\ \A w \in Worker : pc'[w] # "idle" => job'[w].target \notin Unused
<1>1. /\ pc \in [Worker -> Steps] /\ job \in [Worker -> Job \cup {NoJob}]
      /\ status \in [Ref -> Status \cup {NoTransfer}]
  BY DEF Inv, TypeOK
<1>2. \A r \in Ref : status'[r] \notin Unused
  <2>1. CASE status' = status BY <2>1
  <2>2. CASE status' # status
    <3>1. PICK w \in Worker : Create(w) \/ TransitionWrite(w) \/ Overwrite(w)
      BY <2>2, StatusWriters
    <3>2. job[w].ref \in Ref /\ pc[w] # "idle"
      BY <3>1, JobInFlight DEF Create, TransitionWrite, Overwrite, At
    <3>3. \E s \in Status \ Unused : status' = [status EXCEPT ![job[w].ref] = s]
      <4>1. job[w].target \in Status BY <3>2, JobInFlight DEF Job
      <4> QED BY <2>2, <3>1, <3>2, <4>1 DEF Create, TransitionWrite, Overwrite, Unused
    <3> QED BY <1>1, <3>2, <3>3
  <2> QED BY <2>1, <2>2
<1>3. ASSUME NEW w \in Worker, pc'[w] # "idle" PROVE job'[w].target \notin Unused
  <2>1. ASSUME job'[w].target = job[w].target, pc[w] # "idle" PROVE job'[w].target \notin Unused
    BY <2>1
  <2>2. CASE ~(Start(w) \/ Step(w) \/ Crash(w)) BY <1>3, <2>1, <2>2, OthersStay
  <2>3. CASE Start(w)
    BY <1>1, <2>3 DEF Start, StartInitiate, StartSync, StartWebhook, StartReconcile, Begin,
       NewJob, Unused, Outcome
  <2>4. \A e : StatusAfter(e) \notin Unused BY DEF StatusAfter, Unused
  <2>5. \A word : mapTransferStatus(word) \notin Unused BY DEF mapTransferStatus, Unused
  <2>6. CASE Refuse(w) \/ LoseAnswer(w) \/ DatabaseError(w)
    <3>1. pc[w] # "idle" BY <2>6 DEF Refuse, LoseAnswer, DatabaseError, At
    <3>2. job[w] \in Job BY <3>1, JobInFlight
    <3>3. PICK e : Throw(w, e) BY <2>6 DEF Refuse, LoseAnswer, DatabaseError
    <3>4. job'[w].target = StatusAfter(e) BY <1>1, <3>2, <3>3 DEF Throw, Job
    <3> QED BY <2>4, <3>4
  <2>7. CASE Answer(w) \/ Verify(w)
    <3>1. job[w] \in Job /\ pc[w] # "idle" BY <2>7, JobInFlight DEF Answer, Verify, At
    <3>2. InitialStatus(job[w].ref) \notin Unused /\ VerifiedStatus(job[w].ref) \notin Unused
      BY <2>5 DEF InitialStatus, VerifiedStatus, Unused
    <3>3. job'[w].target \in {InitialStatus(job[w].ref), VerifiedStatus(job[w].ref)}
      BY <1>1, <1>3, <2>7, <3>1 DEF Answer, Verify, End, Job
    <3> QED BY <3>2, <3>3
  <2>8. CASE TransitionRead(w)
    <3>1. job[w] \in Job /\ pc[w] # "idle" BY <2>8, JobInFlight DEF TransitionRead, At
    <3>2. job'[w].target = job[w].target BY <1>1, <2>8, <3>1 DEF TransitionRead, Job
    <3> QED BY <2>1, <3>1, <3>2
  <2>9. CASE CheckReference(w) \/ Register(w) \/ Create(w) \/ Dispatch(w) \/ Complete(w)
             \/ RecordFailure(w) \/ TransitionWrite(w) \/ Overwrite(w) \/ Receive(w)
             \/ Locate(w) \/ MarkEvent(w) \/ Reconcile(w) \/ Crash(w)
    <3>1. pc[w] # "idle"
      BY <2>9 DEF CheckReference, Register, Create, Dispatch, Complete, RecordFailure,
         TransitionWrite, Overwrite, Receive, Locate, MarkEvent, Reconcile, Crash, At
    <3>2. job'[w] = job[w] \/ End(w)
      BY <2>9 DEF CheckReference, Register, Create, Dispatch, Complete, RecordFailure,
         TransitionWrite, Overwrite, Receive, Locate, MarkEvent, Mark, Reconcile, Crash
    <3>3. ~End(w) BY <1>1, <1>3 DEF End
    <3> QED BY <2>1, <3>1, <3>2, <3>3
  <2> QED BY <2>2, <2>3, <2>6, <2>7, <2>8, <2>9 DEF Step
<1> QED BY <1>2, <1>3

\* A webhook announces nothing that contradicts the status: who is paid is not shown
\* as failed, and who failed is not shown as paid.
LEMMA WebhooksAgree ==
  ASSUME Inv, FailedInv, EventInv, NEW w \in Worker, pc[w] \in {"transition", "locate"},
         job[w].kind = "webhook"
  PROVE  /\ job[w].ref \in Ref /\ job[w].target \in Outcome
         /\ status[job[w].ref] \in {"pending", "processing", "successful", "failed", "reversed"}
         /\ job[w].target = "failed" => status[job[w].ref] \notin {"successful", "reversed"}
         /\ job[w].target # "failed" => status[job[w].ref] # "failed"
<1>1. /\ job[w].ref \in Ref /\ job[w].target \in Outcome /\ RequestInv(w)
      /\ status[job[w].ref] # NoTransfer /\ Earned(job[w].ref, job[w].target)
  BY JobInFlight DEF RequestInv, WithRow
<1>2. PICK r \in Ref : r = job[w].ref BY <1>1
<1>3. status[r] \in Status /\ status[r] \notin Unused /\ Earned(r, status[r])
  BY <1>1, <1>2 DEF Inv, TypeOK, RowInv, EventInv
<1>4. job[w].target = "failed" => upstream[r] \in {"none", "failed"}
  BY <1>2 DEF FailedInv, NotPaid
<1>5. status[r] = "failed" => upstream[r] \in {"none", "failed"}
  BY DEF FailedInv, NotPaid
<1>6. job[w].target # "failed" => upstream[r] \in {"success", "reversed"}
  BY <1>1, <1>2 DEF Earned, Outcome
<1> QED BY <1>1, <1>2, <1>3, <1>4, <1>5, <1>6 DEF Earned, Unused

\* A webhook that another request has not overtaken finds the outcome in the status
\* when it marks its event.
LEMMA WebhookStep ==
  ASSUME Inv, FailedInv, SeenInv, EventInv, [HNext]_<<vars, history>>, NEW w \in Worker
  PROVE  WebhookInv(w)'
<1> SUFFICES ASSUME pc'[w] # "idle", job'[w].kind = "webhook", job'[w].ref \notin overwritten'
             PROVE  /\ pc'[w] = "mark processed" => IsValid(job'[w].target, status'[job'[w].ref])
                    /\ pc'[w] = "transition" /\ job'[w].target = "reversed" =>
                         status'[job'[w].ref] # "pending"
  BY DEF WebhookInv
<1>1. pc \in [Worker -> Steps] /\ job \in [Worker -> Job \cup {NoJob}] BY DEF Inv, TypeOK
<1>2. [Next]_vars /\ overwritten \subseteq overwritten' BY HistoryGrows
<1> DEFINE Keeps == /\ pc'[w] = "mark processed" => IsValid(job'[w].target, status'[job'[w].ref])
                    /\ pc'[w] = "transition" /\ job'[w].target = "reversed" =>
                         status'[job'[w].ref] # "pending"
<1>3. ASSUME pc'[w] = pc[w], job'[w] = job[w] PROVE Keeps
  <2>1. PICK r \in Ref \ overwritten', s \in Outcome : r = job[w].ref /\ s = job[w].target
    BY <1>3, JobInFlight DEF RequestInv
  <2>2. Moves(r) BY RowMoves
  <2>3. pc[w] = "transition" => status[r] # NoTransfer
    BY <1>3, <2>1, JobInFlight DEF RequestInv, WithRow
  <2>4. WebhookInv(w) BY DEF EventInv
  <2>5. /\ pc[w] = "mark processed" => IsValid(s, status[r])
        /\ pc[w] = "transition" /\ s = "reversed" => status[r] # "pending"
    BY <1>2, <1>3, <2>1, <2>4 DEF WebhookInv
  <2>6. /\ IsValid(s, status[r]) => IsValid(s, status'[r])
        /\ status[r] \notin {NoTransfer, "created", "pending"} => status'[r] # "pending"
    BY <2>2, OutcomesHold
  <2>7. status[r] # "created" BY <2>1 DEF EventInv, Unused
  <2> QED BY <1>3, <2>1, <2>3, <2>5, <2>6, <2>7
<1>4. CASE ~(Start(w) \/ Step(w) \/ Crash(w)) BY <1>2, <1>3, <1>4, OthersStay
<1>5. ASSUME pc'[w] \notin {"mark processed", "transition"} PROVE Keeps BY <1>5
<1>6. CASE Start(w) \/ Crash(w)
  BY <1>1, <1>5, <1>6 DEF Start, StartInitiate, StartSync, StartWebhook, StartReconcile, Begin,
     Crash, End
<1>7. CASE CheckReference(w) \/ Register(w) \/ Create(w) \/ Dispatch(w) \/ Complete(w)
           \/ RecordFailure(w) \/ Verify(w) \/ Overwrite(w) \/ Reconcile(w) \/ Receive(w)
           \/ MarkEvent(w)
  BY <1>1, <1>5, <1>7 DEF CheckReference, Register, Create, Dispatch, Complete, RecordFailure,
     Verify, Overwrite, Reconcile, Receive, MarkEvent, Mark, GoTo, End
<1>8. CASE Refuse(w) \/ Answer(w) \/ LoseAnswer(w) \/ DatabaseError(w)
  <2>1. pc[w] # "idle"
    BY <1>8 DEF Refuse, Answer, LoseAnswer, DatabaseError, At
  <2>2. job[w] \in Job /\ job[w].kind = "initiate"
    BY <1>8, <2>1, JobInFlight
       DEF Refuse, Answer, LoseAnswer, DatabaseError, At, RequestInv, InitiateOnly
  <2>3. ASSUME NEW e, Throw(w, e) PROVE job'[w].kind = "initiate"
    BY <1>1, <2>2, <2>3 DEF Throw, Job
  <2>4. CASE Answer(w) BY <1>1, <2>2, <2>4 DEF Answer, Job
  <2> QED BY <1>8, <2>3, <2>4 DEF Refuse, LoseAnswer, DatabaseError
<1>9. CASE TransitionRead(w)
  <2>1. job[w] \in Job BY <1>9, JobInFlight DEF TransitionRead, At
  <2>2. status' = status /\ pc'[w] # "transition"
    BY <1>1, <1>9 DEF TransitionRead, GoTo, AfterTransition, tables
  <2> SUFFICES ASSUME pc'[w] = "mark processed"
               PROVE  IsValid(job'[w].target, status[job'[w].ref])
    BY <2>2
  <2>3. job' = job BY <1>1, <1>9 DEF TransitionRead, GoTo, AfterTransition
  <2>4. job[w].kind = "webhook" /\ pc[w] = "transition" BY <1>9, <2>3 DEF TransitionRead, At
  <2>5. PICK r \in Ref, t \in Outcome, s \in Status :
          r = job[w].ref /\ t = job[w].target /\ s = status[r]
    BY <2>4, WebhooksAgree
  <2>6. s = t \/ ~IsValid(s, t)
    BY <1>1, <1>9, <2>3, <2>5 DEF TransitionRead, GoTo
  <2>7. t = "reversed" => s # "pending"
    BY <1>2, <2>3, <2>4, <2>5 DEF EventInv, WebhookInv
  <2>8. /\ s \in {"pending", "processing", "successful", "failed", "reversed"}
        /\ t = "failed" => s \notin {"successful", "reversed"}
        /\ t # "failed" => s # "failed"
    BY <2>4, <2>5, WebhooksAgree
  <2>9. IsValid(t, s)
    BY <2>6, <2>7, <2>8, TableRows DEF IsValid, Lifecycle!IsValid, Outcome
  <2> QED BY <2>3, <2>5, <2>9
<1>10. CASE TransitionWrite(w)
  <2>1. job[w].ref \in Ref BY <1>10, JobInFlight DEF TransitionWrite, At
  <2>2. status' = [status EXCEPT ![job[w].ref] = job[w].target] /\ job' = job
    BY <1>10 DEF TransitionWrite
  <2>3. status'[job[w].ref] = job[w].target BY <2>1, <2>2 DEF Inv, TypeOK
  <2>4. pc'[w] # "transition" BY <1>1, <1>10 DEF TransitionWrite, GoTo, AfterTransition
  <2> QED BY <2>2, <2>3, <2>4 DEF IsValid, Lifecycle!IsValid
<1>11. CASE Locate(w)
  <2>1. status' = status /\ job' = job BY <1>11 DEF Locate, tables
  <2>2. pc'[w] = "mark processed" => status[job[w].ref] = job[w].target
    BY <1>1, <1>11 DEF Locate, GoTo
  <2>3. pc'[w] = "transition" => IsValid(status[job[w].ref], job[w].target)
    BY <1>1, <1>11 DEF Locate, GoTo
  <2>4. ~IsValid("pending", "reversed") BY TableRows DEF IsValid, Lifecycle!IsValid
  <2> QED BY <2>1, <2>2, <2>3, <2>4 DEF IsValid, Lifecycle!IsValid
<1> QED BY <1>4, <1>6, <1>7, <1>8, <1>9, <1>10, <1>11 DEF Step

\* An event becomes processed where a webhook marks it.
LEMMA ProcessedStep ==
  ASSUME Inv, FailedInv, SeenInv, EventInv, [HNext]_<<vars, history>>
  PROVE  ProcessedEventsHold'
<1> SUFFICES ASSUME NEW r \in Ref \ overwritten', NEW e \in Event,
                    e[1] = r, event'[e] = "processed"
             PROVE  \E s \in Outcome : EventOf(r, s) = e /\ IsValid(s, status'[r])
  BY DEF ProcessedEventsHold
<1>1. r \notin overwritten /\ [Next]_vars BY HistoryGrows
<1>2. Moves(r) BY RowMoves
<1>3. CASE event[e] = "processed"
  <2>1. PICK s \in Outcome : EventOf(r, s) = e /\ IsValid(s, status[r])
    BY <1>1, <1>3 DEF EventInv, ProcessedEventsHold
  <2> QED BY <1>2, <2>1, OutcomesHold
<1>4. ASSUME NEW w \in Worker, MarkEvent(w), event[e] # "processed"
      PROVE  \E s \in Outcome : EventOf(r, s) = e /\ IsValid(s, status'[r])
  <2>1. /\ status' = status
        /\ \E mark \in {"processed", "ignored"} :
             /\ event' = [event EXCEPT ![EventOf(job[w].ref, job[w].target)] = mark]
             /\ mark = "processed" => pc[w] = "mark processed"
    BY <1>4 DEF MarkEvent, Mark, At
  <2>2. EventOf(job[w].ref, job[w].target) = e /\ pc[w] = "mark processed"
    BY <1>4, <2>1 DEF Inv, TypeOK
  <2>3. job[w].kind = "webhook" /\ job[w].target \in Outcome /\ job[w].ref = r
    BY <2>2, JobInFlight DEF RequestInv, WebhookOnly, EventOf
  <2>4. IsValid(job[w].target, status[r])
    BY <1>1, <2>2, <2>3 DEF EventInv, WebhookInv
  <2> QED BY <2>1, <2>2, <2>3, <2>4
<1>5. event' # event => \E w \in Worker : Receive(w) \/ MarkEvent(w)
  BY <1>1 DEF Next, vars, tables, Start, Step, Crash, StartInitiate, StartSync, StartWebhook,
     StartReconcile, CheckReference, Register, Create, Refuse, Answer, LoseAnswer, Dispatch,
     DatabaseError, Complete, RecordFailure, TransitionRead, TransitionWrite, Verify, Overwrite,
     Locate, Reconcile, Settle, Return
<1>6. ASSUME NEW w \in Worker, Receive(w) PROVE event[e] = "processed"
  BY <1>6 DEF Receive, Receipt, Inv, TypeOK
<1> QED BY <1>3, <1>4, <1>5, <1>6

\* Where the only faults are timeouts and crashes, an event that is marked as processed,
\* and refused as a duplicate from then on, has reached the transfer, however many
\* requests overlap, unless one of them wrote over the status.
THEOREM EventsAreNotLost ==
  ASSUME Faults \cap {"network", "database"} = {}
  PROVE  HSpec => []ProcessedEventsHold
<1>1. HInit => FailedInv /\ SeenInv /\ EventInv
  BY DistinctAssumption DEF HInit, Init, FailedInv, SeenInv, EventInv, ProcessedEventsHold,
     WebhookInv, Unused, Status, Lifecycle!Status
<1>2. [HNext]_<<vars, history>> => [Next]_vars BY DEF HNext
<1>3. Inv /\ Inv' /\ FailedInv /\ [Next]_vars => FailedInv' BY FailedStep
<1>4. Inv /\ SeenInv /\ [Next]_vars => SeenInv' BY SeenStep
<1>5. Inv /\ FailedInv /\ SeenInv /\ EventInv /\ [HNext]_<<vars, history>> => EventInv'
  BY <1>2, UsedStatuses, WebhookStep, ProcessedStep DEF EventInv
<1>6. EventInv => ProcessedEventsHold BY DEF EventInv
<1> QED BY <1>1, <1>2, <1>3, <1>4, <1>5, <1>6, HistoryRefines, InvHolds, PTL DEF HSpec
=============================================================================
