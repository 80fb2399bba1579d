-------------------------- MODULE WebhookDeliveryProofs --------------------------
(***************************************************************************)
(* Proofs about outgoing webhooks, for any number of endpoints, events,    *)
(* poll loops, overlapping promotions and attempts.                        *)
(*                                                                         *)
(* DeliveredWasAccepted and PendingHasJob speak of rows, while the steps   *)
(* that could break them look only at the job in somebody's hands.         *)
(* HandsInv says what being at a step means for that job: a worker about   *)
(* to record a success holds a job whose receiver has accepted it, one     *)
(* that is about to delay a job may still count up, and who is idle holds  *)
(* nothing, so that taking a job never overwrites another.                 *)
(***************************************************************************)
EXTENDS WebhookDelivery, SequenceTheorems, TLAPS

-----------------------------------------------------------------------------
(* The inductive invariant.                                                *)

WorkerInv(w) ==
  /\ worker[w].step = "idle" <=> worker[w].job = NoJob
  /\ worker[w].step = "accepted" => worker[w].job.delivery \in accepted
  /\ worker[w].step = "delaying" => worker[w].job.attempt < MaxAttempts

DispatchInv(v) == dispatch[v].step = "queueing" <=> dispatch[v].job # NoJob

PromoterInv(p) == promoter[p].step = "idle" => promoter[p].jobs = {}

HandsInv ==
  /\ \A w \in Worker : WorkerInv(w)
  /\ \A v \in Event : DispatchInv(v)
  /\ \A p \in Promoter : PromoterInv(p)

IInv == TypeOK /\ HandsInv /\ DeliveredWasAccepted /\ PendingHasJob

-----------------------------------------------------------------------------
(* Lemmas about the data.                                                  *)

\* A job names a delivery and an attempt, and is not the mark for none.
LEMMA JobFields ==
  ASSUME ConstantsOK, NEW j \in Job
  PROVE  /\ j.delivery \in Delivery /\ j.attempt \in 1..MaxAttempts /\ j # NoJob
         /\ j = [delivery |-> j.delivery, attempt |-> j.attempt]
BY DEF ConstantsOK, Job

\* A row has a status and a count, and is not the mark for none.
LEMMA RowFields ==
  ASSUME ConstantsOK, NEW s \in {"pending", "delivered", "failed"},
         NEW n \in 0..MaxAttempts
  PROVE  /\ [status |-> s, attempts |-> n] \in Row
         /\ [status |-> s, attempts |-> n] # NoRow
BY DEF ConstantsOK, Row

\* lpush adds one job to the queue and keeps the others.
LEMMA Pushed ==
  ASSUME NEW S, NEW q \in Seq(S), NEW j \in S
  PROVE  /\ Append(q, j) \in Seq(S)
         /\ ToSet(Append(q, j)) = ToSet(q) \cup {j}
<1> DEFINE a == Append(q, j)
<1>1. a \in Seq(S) /\ Len(a) = Len(q) + 1 /\ a[Len(q) + 1] = j
      /\ \A i \in 1..Len(q) : a[i] = q[i]
  BY AppendProperties
<1>2. Len(q) \in Nat /\ DOMAIN q = 1..Len(q) /\ DOMAIN a = 1..(Len(q) + 1)
  BY <1>1, LenProperties
<1>3. DOMAIN a = DOMAIN q \cup {Len(q) + 1}
  BY <1>2
<1> HIDE DEF a
<1>4. {a[i] : i \in DOMAIN a} = {q[i] : i \in DOMAIN q} \cup {j}
  BY <1>1, <1>2, <1>3
<1> QED  BY <1>1, <1>4 DEF ToSet, a

\* brpop takes one job off the queue and keeps the others.
LEMMA Popped ==
  ASSUME NEW S, NEW q \in Seq(S), q # <<>>
  PROVE  /\ Head(q) \in S
         /\ Tail(q) \in Seq(S)
         /\ ToSet(q) = ToSet(Tail(q)) \cup {Head(q)}
<1> DEFINE t == Tail(q)  h == Head(q)
<1>1. h \in S /\ t \in Seq(S) /\ Len(q) = Len(t) + 1 /\ h = q[1]
      /\ \A i \in 1..Len(t) : t[i] = q[i + 1]
  BY HeadTailProperties, EmptySeq, LenProperties
<1>2. Len(t) \in Nat /\ DOMAIN t = 1..Len(t) /\ DOMAIN q = 1..(Len(t) + 1)
  BY <1>1, LenProperties
<1> HIDE DEF t, h
<1>3. ASSUME NEW i \in DOMAIN q  PROVE q[i] \in {t[k] : k \in DOMAIN t} \cup {h}
  <2>1. CASE i = 1
    BY <2>1, <1>1
  <2>2. CASE i # 1
    <3>1. i - 1 \in 1..Len(t)
      BY <2>2, <1>2
    <3>2. t[i - 1] = q[i]
      BY <3>1, <1>1, <1>2
    <3> QED  BY <3>1, <3>2, <1>2
  <2> QED  BY <2>1, <2>2
<1>4. ASSUME NEW i \in DOMAIN t  PROVE t[i] \in {q[k] : k \in DOMAIN q}
  <2>1. i + 1 \in DOMAIN q /\ t[i] = q[i + 1]
    BY <1>1, <1>2
  <2> QED  BY <2>1
<1>5. h \in {q[k] : k \in DOMAIN q}
  BY <1>1, <1>2
<1>6. {q[k] : k \in DOMAIN q} = {t[k] : k \in DOMAIN t} \cup {h}
  BY <1>3, <1>4, <1>5
<1> QED  BY <1>1, <1>6 DEF ToSet, t, h

\* Rows stay accepted when no row becomes delivered unaccepted; pending rows keep a
\* job when no job is lost.
LEMMA RowsUnchanged ==
  ASSUME DeliveredWasAccepted, PendingHasJob, UNCHANGED <<row, losses>>,
         accepted \subseteq accepted',
         \A d \in Delivery : HasJob(d) => HasJob(d)'
  PROVE  DeliveredWasAccepted' /\ PendingHasJob'
<1>1. DeliveredWasAccepted'
  BY DEF DeliveredWasAccepted
<1>2. ASSUME losses' = 0, NEW d \in Delivery, Pending(d)'  PROVE HasJob(d)'
  <2>1. losses = 0 /\ Pending(d)
    BY <1>2 DEF Pending
  <2> QED  BY <2>1 DEF PendingHasJob
<1> QED  BY <1>1, <1>2 DEF PendingHasJob

\* A step that loses a job leaves nothing to promise about pending rows.
LEMMA LossesCount ==
  ASSUME ConstantsOK, TypeOK, Lose, UNCHANGED row, accepted \subseteq accepted',
         DeliveredWasAccepted
  PROVE  DeliveredWasAccepted' /\ PendingHasJob' /\ losses' \in 0..MaxLosses
<1>1. losses' \in 0..MaxLosses /\ losses' # 0
  BY DEF ConstantsOK, TypeOK, Lose
<1>2. DeliveredWasAccepted'
  BY DEF DeliveredWasAccepted
<1> QED  BY <1>1, <1>2 DEF PendingHasJob

-----------------------------------------------------------------------------
(* The handlers.                                                           *)

\* The invariant holds at first.
LEMMA InitInv == ConstantsOK /\ Init => IInv
<1> SUFFICES ASSUME ConstantsOK, Init  PROVE IInv
  OBVIOUS
<1>1. TypeOK
  BY DEF TypeOK, Init, ConstantsOK
<1>2. HandsInv
  BY DEF Init, HandsInv, WorkerInv, DispatchInv, PromoterInv, ConstantsOK
<1>3. DeliveredWasAccepted /\ PendingHasJob
  BY DEF Init, DeliveredWasAccepted, PendingHasJob, Pending
<1> QED  BY <1>1, <1>2, <1>3 DEF IInv

\* An endpoint is registered, enabled or disabled.
LEMMA SetEndpointInv ==
  ASSUME ConstantsOK, IInv, NEW e \in Endpoint, SetEndpoint(e)
  PROVE  IInv'
<1>1. UNCHANGED <<row, redis, dispatch, worker, promoter, accepted, losses>>
      /\ endpoint' \in [Endpoint -> {"absent", "active", "disabled"}]
  BY DEF SetEndpoint, IInv, TypeOK
<1>2. TypeOK'
  BY <1>1 DEF IInv, TypeOK, redis
<1>3. HandsInv'
  BY <1>1 DEF IInv, HandsInv, WorkerInv, DispatchInv, PromoterInv
<1>4. DeliveredWasAccepted' /\ PendingHasJob'
  BY <1>1, RowsUnchanged DEF IInv, HasJob, redis
<1> QED  BY <1>2, <1>3, <1>4 DEF IInv

\* What a step of one handler leaves to show, the queue and the rows aside.
LEMMA DispatchStep ==
  ASSUME ConstantsOK, IInv, NEW v \in Event,
         NEW step \in {"new", "creating", "queueing", "done"},
         NEW left \in SUBSET Endpoint, NEW j \in Job \cup {NoJob},
         step = "queueing" <=> j # NoJob,
         Dispatching(v, step, left, j),
         UNCHANGED <<endpoint, delayed, due, worker, promoter, accepted>>,
         queue' \in Seq(Job), row' \in [Delivery -> Row \cup {NoRow}],
         losses' \in 0..MaxLosses
  PROVE  /\ TypeOK' /\ HandsInv'
         /\ dispatch'[v].job = j
         /\ \A u \in Event \ {v} : dispatch'[u] = dispatch[u]
<1>1. dispatch' = [dispatch EXCEPT ![v] = [step |-> step, left |-> left, job |-> j]]
  BY DEF Dispatching
<1>2. dispatch \in [Event -> [step : {"new", "creating", "queueing", "done"},
                             left : SUBSET Endpoint, job : Job \cup {NoJob}]]
  BY DEF IInv, TypeOK
<1>3. dispatch'[v] = [step |-> step, left |-> left, job |-> j]
      /\ \A u \in Event \ {v} : dispatch'[u] = dispatch[u]
  BY <1>1, <1>2
<1>4. TypeOK'
  BY <1>1, <1>2 DEF IInv, TypeOK
<1>5. \A u \in Event : DispatchInv(u)'
  BY <1>3 DEF IInv, HandsInv, DispatchInv
<1>6. (\A w \in Worker : WorkerInv(w)') /\ (\A p \in Promoter : PromoterInv(p)')
  BY DEF IInv, HandsInv, WorkerInv, PromoterInv
<1> QED  BY <1>3, <1>4, <1>5, <1>6 DEF HandsInv

\* A dispatch begins: nothing is queued yet.
LEMMA StartDispatchInv ==
  ASSUME ConstantsOK, IInv, NEW v \in Event, StartDispatch(v)
  PROVE  IInv'
<1>1. dispatch[v].step = "new"
      /\ UNCHANGED <<endpoint, row, redis, worker, promoter, accepted, losses>>
  BY DEF StartDispatch
<1>2. PICK left \in SUBSET Endpoint : Remaining(v, left)
  <2>1. CASE Remaining(v, {e \in Endpoint : endpoint[e] = "active"})
    BY <2>1
  <2>2. CASE \E e \in Endpoint : endpoint[e] # "absent" /\ Remaining(v, {e})
    BY <2>2
  <2> QED  BY <2>1, <2>2 DEF StartDispatch
<1>3. dispatch[v].job = NoJob
  BY <1>1 DEF IInv, HandsInv, DispatchInv
<1>4. /\ TypeOK' /\ HandsInv' /\ dispatch'[v].job = NoJob
      /\ \A u \in Event \ {v} : dispatch'[u] = dispatch[u]
  <2>1. PICK step \in {"creating", "done"} : Dispatching(v, step, left, NoJob)
    BY <1>2 DEF Remaining
  <2>2. queue' \in Seq(Job) /\ row' \in [Delivery -> Row \cup {NoRow}]
        /\ losses' \in 0..MaxLosses
        /\ UNCHANGED <<endpoint, delayed, due, worker, promoter, accepted>>
    BY <1>1 DEF redis, IInv, TypeOK
  <2> QED  BY <2>1, <2>2, DispatchStep
<1>5. \A d \in Delivery : HasJob(d) => HasJob(d)'
  BY <1>1, <1>3, <1>4 DEF HasJob, redis
<1> QED  BY <1>1, <1>4, <1>5, RowsUnchanged DEF IInv

\* A row is created, and its job is in the handler's hands.
LEMMA CreateRowInv ==
  ASSUME ConstantsOK, IInv, NEW v \in Event, CreateRow(v)
  PROVE  IInv'
<1>1. dispatch[v].step = "creating"
      /\ UNCHANGED <<endpoint, redis, worker, promoter, accepted, losses>>
  BY DEF CreateRow
<1>2. PICK e \in dispatch[v].left :
       /\ row' = [row EXCEPT ![<<v, e>>] = [status |-> "pending", attempts |-> 0]]
       /\ Dispatching(v, "queueing", dispatch[v].left \ {e},
                      [delivery |-> <<v, e>>, attempt |-> 1])
  BY DEF CreateRow
<1>3. dispatch[v].left \in SUBSET Endpoint /\ e \in Endpoint /\ <<v, e>> \in Delivery
  BY <1>2 DEF IInv, TypeOK, Delivery
<1> DEFINE d0 == <<v, e>>
           j == [delivery |-> <<v, e>>, attempt |-> 1]
           left == dispatch[v].left \ {e}
<1>4. j \in Job /\ j # NoJob /\ j.delivery = d0
  BY <1>3, JobFields DEF Job, ConstantsOK
<1>5. /\ row' \in [Delivery -> Row \cup {NoRow}]
      /\ row'[d0] = [status |-> "pending", attempts |-> 0]
      /\ \A d \in Delivery \ {d0} : row'[d] = row[d]
  BY <1>2, <1>3 DEF IInv, TypeOK, Row, ConstantsOK
<1>6. left \in SUBSET Endpoint /\ Dispatching(v, "queueing", left, j)
  BY <1>2, <1>3
<1>7. dispatch[v].job = NoJob
  BY <1>1 DEF IInv, HandsInv, DispatchInv
<1> HIDE DEF j, left, d0
<1>8. /\ TypeOK' /\ HandsInv' /\ dispatch'[v].job = j
      /\ \A u \in Event \ {v} : dispatch'[u] = dispatch[u]
  <2>1. queue' \in Seq(Job) /\ losses' \in 0..MaxLosses
        /\ UNCHANGED <<endpoint, delayed, due, worker, promoter, accepted>>
    BY <1>1 DEF redis, IInv, TypeOK
  <2> QED  BY <2>1, <1>4, <1>5, <1>6, DispatchStep
<1>9. \A d \in Delivery : HasJob(d) => HasJob(d)'
  BY <1>1, <1>7, <1>8 DEF HasJob, redis
<1>10. DeliveredWasAccepted'
  BY <1>1, <1>5 DEF IInv, DeliveredWasAccepted
<1>11. ASSUME losses' = 0, NEW d \in Delivery, Pending(d)'  PROVE HasJob(d)'
  <2>1. CASE d = d0
    BY <2>1, <1>4, <1>8 DEF HasJob
  <2>2. CASE d # d0
    <3>1. Pending(d) /\ losses = 0
      BY <2>2, <1>1, <1>5, <1>11 DEF Pending
    <3> QED  BY <3>1, <1>9 DEF IInv, PendingHasJob
  <2> QED  BY <2>1, <2>2
<1> QED  BY <1>8, <1>10, <1>11 DEF IInv, PendingHasJob

\* The job leaves the handler's hands for the queue.
LEMMA EnqueueInv ==
  ASSUME ConstantsOK, IInv, NEW v \in Event, Enqueue(v)
  PROVE  IInv'
<1> DEFINE j == dispatch[v].job
<1>1. dispatch[v].step = "queueing" /\ queue' = Append(queue, j)
      /\ UNCHANGED <<endpoint, row, delayed, due, worker, promoter, accepted, losses>>
  BY DEF Enqueue
<1>2. j \in Job /\ dispatch[v].left \in SUBSET Endpoint
  BY <1>1 DEF IInv, TypeOK, HandsInv, DispatchInv
<1>3. queue' \in Seq(Job) /\ ToSet(queue') = ToSet(queue) \cup {j}
  <2>1. queue \in Seq(Job)
    BY DEF IInv, TypeOK
  <2> HIDE DEF j
  <2> QED  BY <2>1, <1>1, <1>2, Pushed
<1>4. /\ TypeOK' /\ HandsInv'
      /\ \A u \in Event \ {v} : dispatch'[u] = dispatch[u]
  <2>1. PICK step \in {"creating", "done"} : Dispatching(v, step, dispatch[v].left, NoJob)
    BY DEF Enqueue, Remaining
  <2>2. row' \in [Delivery -> Row \cup {NoRow}] /\ losses' \in 0..MaxLosses
    BY <1>1 DEF IInv, TypeOK
  <2> QED  BY <1>1, <1>2, <1>3, <2>1, <2>2, DispatchStep
<1>5. \A d \in Delivery : HasJob(d) => HasJob(d)'
  BY <1>1, <1>3, <1>4 DEF HasJob
<1> QED  BY <1>1, <1>4, <1>5, RowsUnchanged DEF IInv

\* The handler dies, and what it had left is lost.
LEMMA DispatchFailsInv ==
  ASSUME ConstantsOK, IInv, NEW v \in Event, DispatchFails(v)
  PROVE  IInv'
<1>1. /\ Lose /\ Dispatching(v, "done", {}, NoJob)
      /\ UNCHANGED <<endpoint, row, redis, worker, promoter, accepted>>
  BY DEF DispatchFails
<1>2. DeliveredWasAccepted' /\ PendingHasJob' /\ losses' \in 0..MaxLosses
  BY <1>1, LossesCount DEF IInv
<1>3. TypeOK' /\ HandsInv'
  BY <1>1, <1>2, DispatchStep DEF IInv, TypeOK, redis
<1> QED  BY <1>2, <1>3 DEF IInv

-----------------------------------------------------------------------------
(* The poll loops.                                                         *)

Working(w, step, j) == worker' = [worker EXCEPT ![w] = [step |-> step, job |-> j]]

WorkerStep == {"idle", "reading", "disabled", "posting", "accepted", "caught", "delaying"}

\* A worker that goes on keeps its job, one that has finished drops it.
LEMMA GoesOn ==
  ASSUME TypeOK, NEW w \in Worker
  PROVE  /\ \A step : GoTo(w, step) => Working(w, step, worker[w].job)
         /\ Finish(w) => Working(w, "idle", NoJob)
BY DEF TypeOK, GoTo, Finish, Working

\* A worker at work holds a job.
LEMMA HoldsJob ==
  ASSUME ConstantsOK, IInv, NEW w \in Worker, worker[w].step # "idle"
  PROVE  /\ worker[w].job \in Job /\ worker[w].job # NoJob
         /\ worker[w].job.delivery \in Delivery
         /\ worker[w].job.attempt \in 1..MaxAttempts
<1>1. worker[w].job \in Job
  BY DEF IInv, TypeOK, HandsInv, WorkerInv
<1> QED  BY <1>1, JobFields

\* What a step of one worker leaves to show, the queue and the rows aside.
LEMMA WorkStep ==
  ASSUME ConstantsOK, IInv, NEW w \in Worker,
         NEW step \in WorkerStep, NEW j \in Job \cup {NoJob},
         step = "idle" <=> j = NoJob,
         step = "accepted" => j.delivery \in accepted',
         step = "delaying" => j.attempt < MaxAttempts,
         Working(w, step, j),
         UNCHANGED <<endpoint, dispatch, promoter>>,
         accepted \subseteq accepted', accepted' \subseteq Delivery,
         queue' \in Seq(Job), row' \in [Delivery -> Row \cup {NoRow}],
         delayed' \subseteq Job, due' \subseteq delayed',
         losses' \in 0..MaxLosses
  PROVE  /\ TypeOK' /\ HandsInv'
         /\ worker'[w].job = j
         /\ \A u \in Worker \ {w} : worker'[u] = worker[u]
<1>1. worker' = [worker EXCEPT ![w] = [step |-> step, job |-> j]]
  BY DEF Working
<1>2. worker \in [Worker -> [step : WorkerStep, job : Job \cup {NoJob}]]
  BY DEF IInv, TypeOK, WorkerStep
<1>3. worker'[w] = [step |-> step, job |-> j]
      /\ \A u \in Worker \ {w} : worker'[u] = worker[u]
  BY <1>1, <1>2
<1>4. worker' \in [Worker -> [step : WorkerStep, job : Job \cup {NoJob}]]
  BY <1>1, <1>2
<1>5. TypeOK'
  BY <1>4 DEF IInv, TypeOK, WorkerStep
<1>6. ASSUME NEW u \in Worker  PROVE WorkerInv(u)'
  <2>1. CASE u = w
    BY <2>1, <1>3 DEF WorkerInv
  <2>2. CASE u # w
    BY <2>2, <1>3 DEF IInv, HandsInv, WorkerInv
  <2> QED  BY <2>1, <2>2
<1>7. (\A v \in Event : DispatchInv(v)') /\ (\A p \in Promoter : PromoterInv(p)')
  BY DEF IInv, HandsInv, DispatchInv, PromoterInv
<1> QED  BY <1>3, <1>5, <1>6, <1>7 DEF HandsInv

\* A worker that keeps its job and changes no row.
LEMMA KeepsJob ==
  ASSUME ConstantsOK, IInv, NEW w \in Worker, NEW step \in WorkerStep \ {"idle"},
         worker[w].step # "idle", GoTo(w, step),
         step = "accepted" => worker[w].job.delivery \in accepted',
         step # "delaying",
         accepted \subseteq accepted', accepted' \subseteq Delivery,
         UNCHANGED <<endpoint, row, redis, dispatch, promoter, losses>>
  PROVE  IInv'
<1> DEFINE j == worker[w].job
<1>1. j \in Job /\ j # NoJob
  BY HoldsJob
<1>2. Working(w, step, j)
  BY GoesOn DEF IInv
<1>3. /\ UNCHANGED <<endpoint, dispatch, promoter>>
      /\ queue' \in Seq(Job) /\ row' \in [Delivery -> Row \cup {NoRow}]
      /\ delayed' \subseteq Job /\ due' \subseteq delayed' /\ losses' \in 0..MaxLosses
  BY DEF IInv, TypeOK, redis
<1>4. step = "accepted" => j.delivery \in accepted'
  OBVIOUS
<1>5. j = worker[w].job
  OBVIOUS
<1> HIDE DEF j
<1>6. /\ TypeOK' /\ HandsInv' /\ worker'[w].job = j
      /\ \A u \in Worker \ {w} : worker'[u] = worker[u]
  BY <1>1, <1>2, <1>3, <1>4, WorkStep
<1>7. \A d \in Delivery : HasJob(d) => HasJob(d)'
  BY <1>5, <1>6 DEF HasJob, redis
<1> QED  BY <1>6, <1>7, RowsUnchanged DEF IInv

\* The job leaves the queue for the worker's hands.
LEMMA PopInv ==
  ASSUME ConstantsOK, IInv, NEW w \in Worker, Pop(w)
  PROVE  IInv'
<1> DEFINE j == Head(queue)
<1>1. /\ worker[w].step = "idle" /\ queue # <<>> /\ queue' = Tail(queue)
      /\ Working(w, "reading", j)
      /\ UNCHANGED <<endpoint, row, delayed, due, dispatch, promoter, accepted, losses>>
  BY DEF Pop, At, Working
<1>2. queue \in Seq(Job)
  BY DEF IInv, TypeOK
<1>3. j \in Job /\ queue' \in Seq(Job) /\ ToSet(queue) = ToSet(queue') \cup {j}
  BY <1>1, <1>2, Popped
<1>4. j # NoJob
  BY <1>3, JobFields
<1>5. worker[w].job = NoJob
  BY <1>1 DEF IInv, HandsInv, WorkerInv
<1>6. /\ row' \in [Delivery -> Row \cup {NoRow}] /\ accepted' \subseteq Delivery
      /\ delayed' \subseteq Job /\ due' \subseteq delayed' /\ losses' \in 0..MaxLosses
      /\ accepted \subseteq accepted' /\ "reading" \in WorkerStep
  BY <1>1 DEF IInv, TypeOK, WorkerStep
<1> HIDE DEF j
<1>7. /\ TypeOK' /\ HandsInv' /\ worker'[w].job = j
      /\ \A u \in Worker \ {w} : worker'[u] = worker[u]
  BY <1>1, <1>3, <1>4, <1>6, WorkStep
<1>8. \A d \in Delivery : HasJob(d) => HasJob(d)'
  BY <1>1, <1>3, <1>4, <1>5, <1>7 DEF HasJob
<1> QED  BY <1>1, <1>7, <1>8, RowsUnchanged DEF IInv

\* Reading the endpoint, posting, and a failed statement keep the job in hand.
LEMMA ReadEndpointInv ==
  ASSUME ConstantsOK, IInv, NEW w \in Worker, ReadEndpoint(w) \/ StatementFails(w)
  PROVE  IInv'
<1>1. /\ worker[w].step # "idle"
      /\ UNCHANGED <<endpoint, row, redis, dispatch, promoter, accepted, losses>>
      /\ \E step \in {"posting", "disabled", "caught"} : GoTo(w, step)
  BY DEF ReadEndpoint, StatementFails, At
<1>2. accepted' \subseteq Delivery /\ accepted \subseteq accepted'
  BY <1>1 DEF IInv, TypeOK
<1> QED  BY <1>1, <1>2, KeepsJob DEF WorkerStep

\* A worker that goes on to record a success has had its delivery accepted.
LEMMA PostInv ==
  ASSUME ConstantsOK, IInv, NEW w \in Worker, Post(w)
  PROVE  IInv'
<1>1. /\ worker[w].step # "idle"
      /\ UNCHANGED <<endpoint, row, redis, dispatch, promoter, losses>>
  BY DEF Post, At
<1>2. PICK received, answered \in BOOLEAN :
       /\ accepted' = IF received THEN accepted \cup {worker[w].job.delivery} ELSE accepted
       /\ GoTo(w, IF Ok(received, answered) THEN "accepted" ELSE "caught")
  BY DEF Post
<1>3. accepted' \subseteq Delivery /\ accepted \subseteq accepted'
  BY <1>1, <1>2, HoldsJob DEF IInv, TypeOK
<1>4. CASE Ok(received, answered)
  <2>1. worker[w].job.delivery \in accepted' /\ GoTo(w, "accepted")
    BY <1>2, <1>4 DEF Ok
  <2> QED  BY <1>1, <1>3, <2>1, KeepsJob DEF WorkerStep
<1>5. CASE ~Ok(received, answered)
  <2>1. GoTo(w, "caught")
    BY <1>2, <1>5
  <2> QED  BY <1>1, <1>3, <2>1, KeepsJob DEF WorkerStep
<1> QED  BY <1>4, <1>5

\* A worker that writes its row and drops its job, or keeps it to delay it.
LEMMA RecordStep ==
  ASSUME ConstantsOK, IInv, NEW w \in Worker, worker[w].step # "idle",
         NEW s \in {"pending", "delivered", "failed"}, Record(w, s),
         s = "delivered" => worker[w].step = "accepted",
         \/ Finish(w) /\ s # "pending"
         \/ GoTo(w, "delaying") /\ worker[w].job.attempt < MaxAttempts,
         UNCHANGED <<endpoint, redis, dispatch, promoter, accepted, losses>>
  PROVE  IInv'
<1> DEFINE j == worker[w].job
           r == [status |-> s, attempts |-> j.attempt]
<1>1. /\ j \in Job /\ j # NoJob /\ j.delivery \in Delivery
      /\ j.attempt \in 1..MaxAttempts
  BY HoldsJob
<1>2. r \in Row /\ r # NoRow
  BY <1>1, RowFields DEF ConstantsOK
<1>3. row' = [row EXCEPT ![j.delivery] = r]
  BY DEF Record
<1>4. /\ row' \in [Delivery -> Row \cup {NoRow}] /\ row'[j.delivery] = r
      /\ \A d \in Delivery \ {j.delivery} : row'[d] = row[d]
  BY <1>1, <1>2, <1>3 DEF IInv, TypeOK
<1>5. PICK step \in {"idle", "delaying"}, k \in {NoJob, j} :
        /\ Working(w, step, k)
        /\ step = "idle" <=> k = NoJob
        /\ k = NoJob => s # "pending"
        /\ step = "delaying" => k.attempt < MaxAttempts
  BY <1>1, GoesOn DEF IInv
<1>6. /\ queue' \in Seq(Job) /\ accepted' \subseteq Delivery /\ accepted \subseteq accepted'
      /\ delayed' \subseteq Job /\ due' \subseteq delayed' /\ losses' \in 0..MaxLosses
      /\ step \in WorkerStep /\ step # "accepted" /\ k \in Job \cup {NoJob}
      /\ UNCHANGED <<endpoint, dispatch, promoter>>
  BY <1>1 DEF IInv, TypeOK, WorkerStep, redis
<1>7. s = "delivered" => j.delivery \in accepted
  BY DEF IInv, HandsInv, WorkerInv
<1>8. r.status = s /\ j = worker[w].job
  OBVIOUS
<1> HIDE DEF j, r
<1>9. /\ TypeOK' /\ HandsInv' /\ worker'[w].job = k
      /\ \A u \in Worker \ {w} : worker'[u] = worker[u]
  BY <1>4, <1>5, <1>6, WorkStep
<1>10. ASSUME NEW d \in Delivery, row'[d] # NoRow, row'[d].status = "delivered"
       PROVE  d \in accepted'
  <2>1. CASE d = j.delivery
    BY <2>1, <1>4, <1>6, <1>7, <1>8, <1>10
  <2>2. CASE d # j.delivery
    BY <2>2, <1>4, <1>6, <1>10 DEF IInv, DeliveredWasAccepted
  <2> QED  BY <2>1, <2>2
<1>11. ASSUME NEW d \in Delivery, losses' = 0, Pending(d)'  PROVE HasJob(d)'
  <2>1. CASE d = j.delivery
    <3>1. s = "pending"
      BY <2>1, <1>4, <1>8, <1>11 DEF Pending
    <3>2. worker'[w].job = j
      BY <3>1, <1>5, <1>9
    <3> QED  BY <3>2, <2>1, <1>1 DEF HasJob
  <2>2. CASE d # j.delivery
    <3>1. Pending(d) /\ losses = 0
      BY <2>2, <1>4, <1>11 DEF Pending
    <3>2. HasJob(d)
      BY <3>1 DEF IInv, PendingHasJob
    <3> QED  BY <3>2, <2>2, <1>8, <1>9 DEF HasJob, redis
  <2> QED  BY <2>1, <2>2
<1> QED  BY <1>9, <1>10, <1>11 DEF IInv, DeliveredWasAccepted, PendingHasJob

\* The update that ends the job.
LEMMA ConcludeInv ==
  ASSUME ConstantsOK, IInv, NEW w \in Worker, Conclude(w)
  PROVE  IInv'
BY RecordStep DEF Conclude, At

\* The catch block writes the row, and retries or gives up.
LEMMA CatchInv ==
  ASSUME ConstantsOK, IInv, NEW w \in Worker, Catch(w)
  PROVE  IInv'
<1>1. /\ worker[w].step = "caught"
      /\ UNCHANGED <<endpoint, redis, dispatch, promoter, accepted, losses>>
  BY DEF Catch, At
<1>2. worker[w].job.attempt \in 1..MaxAttempts
  BY <1>1, HoldsJob
<1>3. CASE MayRetry(worker[w].job.attempt)
  <2>1. Record(w, "pending") /\ GoTo(w, "delaying")
    BY <1>3 DEF Catch
  <2>2. worker[w].job.attempt < MaxAttempts
    BY <1>3 DEF MayRetry
  <2> QED  BY <1>1, <2>1, <2>2, RecordStep
<1>4. CASE ~MayRetry(worker[w].job.attempt)
  <2>1. Record(w, "failed") /\ Finish(w)
    BY <1>4 DEF Catch
  <2> QED  BY <1>1, <2>1, RecordStep
<1> QED  BY <1>3, <1>4

\* The job is scheduled again, its attempt counted, and a job for the same delivery
\* waits from then on.
LEMMA DelayInv ==
  ASSUME ConstantsOK, IInv, NEW w \in Worker, Delay(w)
  PROVE  IInv'
<1> DEFINE j == worker[w].job
           k == [j EXCEPT !.attempt = NextAttempt(@)]
<1>1. /\ worker[w].step = "delaying"
      /\ delayed' = delayed \cup {k} /\ due' = due \ {k}
      /\ Finish(w)
      /\ UNCHANGED <<endpoint, row, queue, dispatch, promoter, accepted, losses>>
  BY DEF Delay, At
<1>2. j \in Job /\ j.attempt \in 1..MaxAttempts /\ j.attempt < MaxAttempts
  BY <1>1, HoldsJob DEF IInv, HandsInv, WorkerInv
<1>3. k \in Job /\ k.delivery = j.delivery
  BY <1>2 DEF Job, NextAttempt, ConstantsOK
<1>4. Working(w, "idle", NoJob)
  BY <1>1, GoesOn DEF IInv
<1>5. /\ queue' \in Seq(Job) /\ row' \in [Delivery -> Row \cup {NoRow}]
      /\ accepted' \subseteq Delivery /\ accepted \subseteq accepted'
      /\ delayed' \subseteq Job /\ due' \subseteq delayed' /\ losses' \in 0..MaxLosses
      /\ "idle" \in WorkerStep
  BY <1>1, <1>3 DEF IInv, TypeOK, WorkerStep
<1>6. j = worker[w].job
  OBVIOUS
<1> HIDE DEF j, k
<1>7. /\ TypeOK' /\ HandsInv'
      /\ \A u \in Worker \ {w} : worker'[u] = worker[u]
  BY <1>1, <1>4, <1>5, WorkStep
<1>8. ASSUME NEW d \in Delivery, HasJob(d)  PROVE HasJob(d)'
  <2>1. CASE d = j.delivery
    BY <2>1, <1>1, <1>3 DEF HasJob
  <2>2. CASE d # j.delivery
    BY <2>2, <1>1, <1>6, <1>7, <1>8 DEF HasJob
  <2> QED  BY <2>1, <2>2
<1> QED  BY <1>1, <1>5, <1>7, <1>8, RowsUnchanged DEF IInv

\* The process dies with the job.
LEMMA WorkerFailsInv ==
  ASSUME ConstantsOK, IInv, NEW w \in Worker, WorkerFails(w)
  PROVE  IInv'
<1>1. Lose /\ Finish(w) /\ UNCHANGED <<endpoint, row, redis, dispatch, promoter, accepted>>
  BY DEF WorkerFails
<1>2. DeliveredWasAccepted' /\ PendingHasJob' /\ losses' \in 0..MaxLosses
  BY <1>1, LossesCount DEF IInv
<1>3. Working(w, "idle", NoJob) /\ "idle" \in WorkerStep
  BY <1>1, GoesOn DEF IInv, WorkerStep
<1>4. /\ queue' \in Seq(Job) /\ row' \in [Delivery -> Row \cup {NoRow}]
      /\ accepted' \subseteq Delivery /\ accepted \subseteq accepted'
      /\ delayed' \subseteq Job /\ due' \subseteq delayed'
      /\ UNCHANGED <<endpoint, dispatch, promoter>>
  BY <1>1 DEF IInv, TypeOK, redis
<1>5. TypeOK' /\ HandsInv'
  BY <1>2, <1>3, <1>4, WorkStep
<1> QED  BY <1>2, <1>5 DEF IInv

-----------------------------------------------------------------------------
(* The promotions, and time.                                               *)

\* What a step of one promotion leaves to show.
LEMMA PromoteStep ==
  ASSUME ConstantsOK, IInv, NEW p \in Promoter,
         NEW step \in {"idle", "removing", "pushing"}, NEW jobs \in SUBSET Job,
         step = "idle" => jobs = {},
         Promoting(p, step, jobs),
         UNCHANGED <<endpoint, row, dispatch, worker, accepted>>,
         queue' \in Seq(Job), delayed' \subseteq Job, due' \subseteq delayed',
         losses' \in 0..MaxLosses
  PROVE  /\ TypeOK' /\ HandsInv'
         /\ promoter'[p].jobs = jobs
         /\ \A q \in Promoter \ {p} : promoter'[q] = promoter[q]
<1>1. promoter' = [promoter EXCEPT ![p] = [step |-> step, jobs |-> jobs]]
  BY DEF Promoting
<1>2. promoter \in [Promoter -> [step : {"idle", "removing", "pushing"}, jobs : SUBSET Job]]
  BY DEF IInv, TypeOK
<1>3. promoter'[p] = [step |-> step, jobs |-> jobs]
      /\ \A q \in Promoter \ {p} : promoter'[q] = promoter[q]
  BY <1>1, <1>2
<1>4. TypeOK'
  BY <1>1, <1>2 DEF IInv, TypeOK
<1>5. \A q \in Promoter : PromoterInv(q)'
  BY <1>3 DEF IInv, HandsInv, PromoterInv
<1>6. (\A w \in Worker : WorkerInv(w)') /\ (\A v \in Event : DispatchInv(v)')
  BY DEF IInv, HandsInv, WorkerInv, DispatchInv
<1> QED  BY <1>3, <1>4, <1>5, <1>6 DEF HandsInv

\* The jobs whose time has come are read, and stay where they are.
LEMMA ReadReadyInv ==
  ASSUME ConstantsOK, IInv, NEW p \in Promoter, ReadReady(p)
  PROVE  IInv'
<1>1. /\ promoter[p].step = "idle" /\ Promoting(p, "removing", due)
      /\ UNCHANGED <<endpoint, row, redis, dispatch, worker, accepted, losses>>
  BY DEF ReadReady
<1>2. /\ queue' \in Seq(Job) /\ delayed' \subseteq Job /\ due' \subseteq delayed'
      /\ losses' \in 0..MaxLosses /\ due \in SUBSET Job
  BY <1>1 DEF IInv, TypeOK, redis
<1>3. promoter[p].jobs = {}
  BY <1>1 DEF IInv, HandsInv, PromoterInv
<1>4. /\ TypeOK' /\ HandsInv'
      /\ \A q \in Promoter \ {p} : promoter'[q] = promoter[q]
  BY <1>1, <1>2, PromoteStep DEF redis
<1>5. \A d \in Delivery : HasJob(d) => HasJob(d)'
  BY <1>1, <1>3, <1>4 DEF HasJob, redis
<1> QED  BY <1>1, <1>4, <1>5, RowsUnchanged DEF IInv

\* Only jobs that this promotion has read, and still has, are removed.
LEMMA RemoveReadyInv ==
  ASSUME ConstantsOK, IInv, NEW p \in Promoter, RemoveReady(p)
  PROVE  IInv'
<1> DEFINE jobs == promoter[p].jobs
<1>1. /\ delayed' = delayed \ Ready(p) /\ due' = due \ Ready(p)
      /\ Promoting(p, "pushing", jobs)
      /\ UNCHANGED <<endpoint, row, queue, dispatch, worker, accepted, losses>>
  BY DEF RemoveReady
<1>2. /\ queue' \in Seq(Job) /\ delayed' \subseteq Job /\ due' \subseteq delayed'
      /\ losses' \in 0..MaxLosses /\ jobs \in SUBSET Job
  BY <1>1 DEF IInv, TypeOK
<1>3. Ready(p) \subseteq jobs
  BY DEF Ready
<1>4. jobs = promoter[p].jobs
  OBVIOUS
<1> HIDE DEF jobs
<1>5. /\ TypeOK' /\ HandsInv' /\ promoter'[p].jobs = jobs
      /\ \A q \in Promoter \ {p} : promoter'[q] = promoter[q]
  BY <1>1, <1>2, PromoteStep
<1>6. ASSUME NEW d \in Delivery, HasJob(d)  PROVE HasJob(d)'
  <2>1. ASSUME NEW q \in Promoter, NEW i \in Job, i \in promoter[q].jobs
        PROVE  i \in promoter'[q].jobs
    BY <2>1, <1>4, <1>5
  <2>2. ASSUME NEW i \in delayed, i.delivery = d, i \notin delayed'
        PROVE  \E k \in Job : k \in promoter'[p].jobs /\ k.delivery = d
    BY <2>2, <1>1, <1>2, <1>3, <1>5
  <2> QED  BY <1>1, <1>6, <2>1, <2>2 DEF HasJob
<1> QED  BY <1>1, <1>5, <1>6, RowsUnchanged DEF IInv

\* A job goes from the promotion's memory to the queue.
LEMMA PushInv ==
  ASSUME ConstantsOK, IInv, NEW p \in Promoter, Push(p)
  PROVE  IInv'
<1>1. PICK j \in promoter[p].jobs :
        /\ queue' = Append(queue, j)
        /\ Promoting(p, IF promoter[p].jobs \ {j} = {} THEN "idle" ELSE "pushing",
                     promoter[p].jobs \ {j})
  BY DEF Push
<1> DEFINE jobs == promoter[p].jobs \ {j}
<1>2. UNCHANGED <<endpoint, row, delayed, due, dispatch, worker, accepted, losses>>
  BY DEF Push
<1>3. promoter[p].jobs \in SUBSET Job /\ queue \in Seq(Job)
  BY DEF IInv, TypeOK
<1>4. j \in Job /\ jobs \in SUBSET Job
  BY <1>1, <1>3
<1>5. queue' \in Seq(Job) /\ ToSet(queue') = ToSet(queue) \cup {j}
  BY <1>1, <1>3, <1>4, Pushed
<1>6. PICK step \in {"idle", "pushing"} :
        Promoting(p, step, jobs) /\ (step = "idle" => jobs = {})
  BY <1>1
<1>7. promoter[p].jobs = jobs \cup {j}
  BY <1>1
<1> HIDE DEF jobs
<1>8. /\ delayed' \subseteq Job /\ due' \subseteq delayed' /\ losses' \in 0..MaxLosses
      /\ UNCHANGED <<endpoint, row, dispatch, worker, accepted>>
  BY <1>2 DEF IInv, TypeOK
<1>9. /\ TypeOK' /\ HandsInv' /\ promoter'[p].jobs = jobs
      /\ \A q \in Promoter \ {p} : promoter'[q] = promoter[q]
  BY <1>4, <1>5, <1>6, <1>8, PromoteStep
<1>10. ASSUME NEW d \in Delivery, HasJob(d)  PROVE HasJob(d)'
  <2>1. ASSUME NEW q \in Promoter, NEW i \in promoter[q].jobs
        PROVE  i \in promoter'[q].jobs \/ i \in ToSet(queue')
    BY <2>1, <1>5, <1>7, <1>9
  <2>2. ToSet(queue) \subseteq ToSet(queue')
    BY <1>5
  <2> QED  BY <1>2, <1>10, <2>1, <2>2 DEF HasJob
<1> QED  BY <1>2, <1>9, <1>10, RowsUnchanged DEF IInv

\* The process dies with the jobs the promotion had read.
LEMMA PromoterFailsInv ==
  ASSUME ConstantsOK, IInv, NEW p \in Promoter, PromoterFails(p)
  PROVE  IInv'
<1>1. /\ Lose /\ Promoting(p, "idle", {})
      /\ UNCHANGED <<endpoint, row, redis, dispatch, worker, accepted>>
  BY DEF PromoterFails
<1>2. DeliveredWasAccepted' /\ PendingHasJob' /\ losses' \in 0..MaxLosses
  BY <1>1, LossesCount DEF IInv
<1>3. queue' \in Seq(Job) /\ delayed' \subseteq Job /\ due' \subseteq delayed'
  BY <1>1 DEF IInv, TypeOK, redis
<1>4. TypeOK' /\ HandsInv'
  BY <1>1, <1>2, <1>3, PromoteStep
<1> QED  BY <1>2, <1>4 DEF IInv

\* A backoff ends, and its job stays where it is.
LEMMA ElapseInv ==
  ASSUME ConstantsOK, IInv, Elapse
  PROVE  IInv'
<1>1. /\ due' \subseteq delayed
      /\ UNCHANGED <<endpoint, row, queue, delayed, dispatch, worker, promoter, accepted,
                     losses>>
  BY DEF Elapse, IInv, TypeOK
<1>2. TypeOK'
  BY <1>1 DEF IInv, TypeOK
<1>3. HandsInv'
  BY <1>1 DEF IInv, HandsInv, WorkerInv, DispatchInv, PromoterInv
<1>4. \A d \in Delivery : HasJob(d) => HasJob(d)'
  BY <1>1 DEF HasJob
<1> QED  BY <1>1, <1>2, <1>3, <1>4, RowsUnchanged DEF IInv

-----------------------------------------------------------------------------
(* The theorems.                                                           *)

\* Every step keeps the invariant.
LEMMA StepInv == ConstantsOK /\ IInv /\ [Next]_vars => IInv'
<1> SUFFICES ASSUME ConstantsOK, IInv, [Next]_vars  PROVE IInv'
  OBVIOUS
<1>1. ASSUME NEW e \in Endpoint, SetEndpoint(e)  PROVE IInv'
  BY <1>1, SetEndpointInv
<1>2. ASSUME NEW v \in Event, Handle(v) \/ DispatchFails(v)  PROVE IInv'
  BY <1>2, StartDispatchInv, CreateRowInv, EnqueueInv, DispatchFailsInv DEF Handle
<1>3. ASSUME NEW w \in Worker, Poll(w) \/ StatementFails(w) \/ WorkerFails(w)  PROVE IInv'
  BY <1>3, PopInv, ReadEndpointInv, PostInv, ConcludeInv, CatchInv, DelayInv,
     WorkerFailsInv DEF Poll
<1>4. ASSUME NEW p \in Promoter, Promote(p) \/ PromoterFails(p)  PROVE IInv'
  BY <1>4, ReadReadyInv, RemoveReadyInv, PushInv, PromoterFailsInv DEF Promote
<1>5. CASE Elapse
  BY <1>5, ElapseInv
<1>6. CASE UNCHANGED vars
  BY <1>6 DEF vars, redis, IInv, TypeOK, HandsInv, WorkerInv, DispatchInv, PromoterInv,
     DeliveredWasAccepted, PendingHasJob, Pending, HasJob
<1> QED  BY <1>1, <1>2, <1>3, <1>4, <1>5, <1>6 DEF Next

\* The invariant is one.
LEMMA Invariance ==
  ASSUME ConstantsOK  PROVE Spec => []IInv
<1>1. Init => IInv
  BY InitInv
<1>2. IInv /\ [Next]_vars => IInv'
  BY StepInv
<1> QED  BY <1>1, <1>2, PTL DEF Spec

\* Every variable of the dispatcher, the poll loops and the promotions keeps its type;
\* in particular no job counts beyond maxAttempts, wherever it is, because only a
\* worker that may still count up schedules a retry (processWebhookDelivery).
THEOREM AttemptsAreBounded ==
  ASSUME ConstantsOK  PROVE Spec => []TypeOK
<1>1. IInv => TypeOK
  BY DEF IInv
<1>2. Spec => []IInv
  BY Invariance
<1> QED  BY <1>1, <1>2, PTL

\* A delivery is shown as delivered only if its receiver has accepted it: for any
\* number of copies of a job, of poll loops and of overlapping promotions, and
\* wherever a process dies (processWebhookDelivery).
THEOREM DeliveredOnlyIfAccepted ==
  ASSUME ConstantsOK  PROVE Spec => []DeliveredWasAccepted
<1>1. IInv => DeliveredWasAccepted
  BY DEF IInv
<1>2. Spec => []IInv
  BY Invariance
<1> QED  BY <1>1, <1>2, PTL

\* As long as nothing is lost with a process or a statement, no delivery is left
\* pending without a job: neither a handler, a poll loop nor one of several
\* promotions that read the same jobs lets one fall (promoteDelayedJobs).
THEOREM PendingIsNeverForgotten ==
  ASSUME ConstantsOK  PROVE Spec => []PendingHasJob
<1>1. IInv => PendingHasJob
  BY DEF IInv
<1>2. Spec => []IInv
  BY Invariance
<1> QED  BY <1>1, <1>2, PTL
=============================================================================
