----------------------------- MODULE WebhookDelivery -----------------------------
(***************************************************************************)
(* Outgoing webhooks: WebhookService.dispatch and the test-event handler   *)
(* create WebhookDelivery rows and queue a job for each; BackgroundWorker  *)
(* pops the jobs, posts to the endpoint, and schedules a failed attempt    *)
(* again through a sorted set from which promoteDelayedJobs moves it back. *)
(*                                                                         *)
(* Every process runs one poll loop, and starts a promotion each second    *)
(* without waiting for the one before.  Redis and PostgreSQL are shared.   *)
(***************************************************************************)
EXTENDS Integers, Sequences, SequencesExt

CONSTANTS
  Endpoint,     \* receivers a project may register
  Event,        \* calls of dispatch, and of the test-event handler
  Worker,       \* poll loops, one per process
  Promoter,     \* runs of promoteDelayedJobs that may overlap
  MaxAttempts,  \* maxAttempts, 5 in the code
  MaxLosses,    \* bound: how often a job may be lost with a process or a statement
  NoRow, NoJob

VARIABLES
  endpoint,    \* WebhookEndpoint.status, or "absent"
  row,         \* WebhookDelivery rows
  queue,       \* ricarut:queue:webhooks, the next job to pop first
  delayed,     \* ricarut:delayed:webhooks, a set of distinct jobs
  due,         \* those of them whose time has come
  dispatch,    \* per event: the handler's step and the endpoints it has left
  worker,      \* per poll loop: its step and the job in its hands
  promoter,    \* per promotion: its step and the jobs it has read
  accepted,    \* the deliveries their receiver has accepted
  losses       \* how often a job has been lost

redis == <<queue, delayed, due>>
vars == <<endpoint, row, redis, dispatch, worker, promoter, accepted, losses>>

\* An event makes at most one delivery per endpoint.
Delivery == Event \X Endpoint
Job == [delivery : Delivery, attempt : 1..MaxAttempts]
Row == [status : {"pending", "delivered", "failed"}, attempts : 0..MaxAttempts]

\* The bounds are numbers, and what stands for no row and no job is neither.
ConstantsOK ==
  /\ MaxAttempts \in Nat \ {0} /\ MaxLosses \in Nat
  /\ NoRow \notin Row /\ NoJob \notin Job

TypeOK ==
  /\ endpoint \in [Endpoint -> {"absent", "active", "disabled"}]
  /\ row \in [Delivery -> Row \cup {NoRow}]
  /\ queue \in Seq(Job)
  /\ delayed \subseteq Job /\ due \subseteq delayed
  /\ dispatch \in [Event -> [step : {"new", "creating", "queueing", "done"},
                             left : SUBSET Endpoint, job : Job \cup {NoJob}]]
  /\ worker \in [Worker -> [step : {"idle", "reading", "disabled", "posting",
                                    "accepted", "caught", "delaying"},
                            job : Job \cup {NoJob}]]
  /\ promoter \in [Promoter -> [step : {"idle", "removing", "pushing"}, jobs : SUBSET Job]]
  /\ accepted \subseteq Delivery
  /\ losses \in 0..MaxLosses

Init ==
  /\ endpoint = [e \in Endpoint |-> "absent"]
  /\ row = [d \in Delivery |-> NoRow]
  /\ queue = <<>> /\ delayed = {} /\ due = {}
  /\ dispatch = [v \in Event |-> [step |-> "new", left |-> {}, job |-> NoJob]]
  /\ worker = [w \in Worker |-> [step |-> "idle", job |-> NoJob]]
  /\ promoter = [p \in Promoter |-> [step |-> "idle", jobs |-> {}]]
  /\ accepted = {}
  /\ losses = 0

-----------------------------------------------------------------------------
(* Endpoints.                                                              *)

\* POST registers an endpoint, PATCH and DELETE enable and disable it.
SetEndpoint(e) ==
  /\ \E s \in {"active", "disabled"} :
       /\ endpoint[e] = "absent" => s = "active"
       /\ endpoint' = [endpoint EXCEPT ![e] = s]
  /\ UNCHANGED <<row, redis, dispatch, worker, promoter, accepted, losses>>

-----------------------------------------------------------------------------
(* WebhookService.dispatch and the test-event handler.                     *)

Dispatching(v, step, left, j) ==
  dispatch' = [dispatch EXCEPT ![v] = [step |-> step, left |-> left, job |-> j]]

Remaining(v, left) ==
  Dispatching(v, IF left = {} THEN "done" ELSE "creating", left, NoJob)

\* The endpoints are read once; a test event goes to one, whatever its status.
StartDispatch(v) ==
  /\ dispatch[v].step = "new"
  /\ \/ Remaining(v, {e \in Endpoint : endpoint[e] = "active"})
     \/ \E e \in Endpoint : endpoint[e] # "absent" /\ Remaining(v, {e})
  /\ UNCHANGED <<endpoint, row, redis, worker, promoter, accepted, losses>>

CreateRow(v) ==
  /\ dispatch[v].step = "creating"
  /\ \E e \in dispatch[v].left :
       /\ row' = [row EXCEPT ![<<v, e>>] = [status |-> "pending", attempts |-> 0]]
       /\ Dispatching(v, "queueing", dispatch[v].left \ {e},
                      [delivery |-> <<v, e>>, attempt |-> 1])
  /\ UNCHANGED <<endpoint, redis, worker, promoter, accepted, losses>>

Enqueue(v) ==
  /\ dispatch[v].step = "queueing"
  /\ queue' = Append(queue, dispatch[v].job)
  /\ Remaining(v, dispatch[v].left)
  /\ UNCHANGED <<endpoint, row, delayed, due, worker, promoter, accepted, losses>>

Lose == losses < MaxLosses /\ losses' = losses + 1

\* A statement fails or the process dies: the remaining endpoints are dropped.
DispatchFails(v) ==
  /\ Lose
  /\ dispatch[v].step \in {"creating", "queueing"}
  /\ Dispatching(v, "done", {}, NoJob)
  /\ UNCHANGED <<endpoint, row, redis, worker, promoter, accepted>>

-----------------------------------------------------------------------------
(* BackgroundWorker.poll and processWebhookDelivery.                       *)

At(w, step) == worker[w].step = step
GoTo(w, step) == worker' = [worker EXCEPT ![w].step = step]
Finish(w) == worker' = [worker EXCEPT ![w] = [step |-> "idle", job |-> NoJob]]

\* The popped job exists only in the worker's memory.
Pop(w) ==
  /\ At(w, "idle") /\ queue # <<>>
  /\ worker' = [worker EXCEPT ![w] = [step |-> "reading", job |-> Head(queue)]]
  /\ queue' = Tail(queue)
  /\ UNCHANGED <<endpoint, row, delayed, due, dispatch, promoter, accepted, losses>>

ReadEndpoint(w) ==
  /\ At(w, "reading")
  /\ GoTo(w, IF endpoint[worker[w].job.delivery[2]] = "active" THEN "posting" ELSE "disabled")
  /\ UNCHANGED <<endpoint, row, redis, dispatch, promoter, accepted, losses>>

\* Mutant of Ok: the status of the response is not looked at.
OkWhatever(received, answered) == answered
\* response.ok: the receiver has taken the event and its answer has arrived.
Ok(received, answered) == received /\ answered

\* The receiver takes the event or not, and its answer arrives or not.
Post(w) ==
  LET d == worker[w].job.delivery IN
  /\ At(w, "posting")
  /\ \E received, answered \in BOOLEAN :
       /\ accepted' = IF received THEN accepted \cup {d} ELSE accepted
       /\ GoTo(w, IF Ok(received, answered) THEN "accepted" ELSE "caught")
  /\ UNCHANGED <<endpoint, row, redis, dispatch, promoter, losses>>

Record(w, s) ==
  LET j == worker[w].job IN
  row' = [row EXCEPT ![j.delivery] = [status |-> s, attempts |-> j.attempt]]

\* The update that ends the job; it may fail, and is then caught.
Conclude(w) ==
  /\ \/ At(w, "accepted") /\ Record(w, "delivered") /\ Finish(w)
     \/ At(w, "disabled") /\ Record(w, "failed") /\ Finish(w)
  /\ UNCHANGED <<endpoint, redis, dispatch, promoter, accepted, losses>>

StatementFails(w) ==
  /\ worker[w].step \in {"reading", "disabled", "accepted"}
  /\ GoTo(w, "caught")
  /\ UNCHANGED <<endpoint, row, redis, dispatch, promoter, accepted, losses>>

\* Mutant of MayRetry: one attempt too many.
MayRetryOnceMore(n) == n <= MaxAttempts
\* The last attempt is not scheduled again.
MayRetry(n) == n < MaxAttempts

\* The catch block: the row is written first, then the retry is scheduled.
Catch(w) ==
  /\ At(w, "caught")
  /\ IF MayRetry(worker[w].job.attempt)
     THEN Record(w, "pending") /\ GoTo(w, "delaying")
     ELSE Record(w, "failed") /\ Finish(w)
  /\ UNCHANGED <<endpoint, redis, dispatch, promoter, accepted, losses>>

\* Mutant of NextAttempt: the attempt is not counted.
SameAttempt(n) == n
\* Retries count up.
NextAttempt(n) == n + 1

\* zadd: a job that is already waiting only gets a later time.
Delay(w) ==
  LET j == [worker[w].job EXCEPT !.attempt = NextAttempt(@)] IN
  /\ At(w, "delaying")
  /\ delayed' = delayed \cup {j}
  /\ due' = due \ {j}
  /\ Finish(w)
  /\ UNCHANGED <<endpoint, row, queue, dispatch, promoter, accepted, losses>>

\* The process dies, or a statement of the catch block fails: the job is gone.
WorkerFails(w) ==
  /\ Lose
  /\ ~At(w, "idle")
  /\ Finish(w)
  /\ UNCHANGED <<endpoint, row, redis, dispatch, promoter, accepted>>

-----------------------------------------------------------------------------
(* BackgroundWorker.promoteDelayedJobs.                                    *)

\* The backoff of a waiting job is over.
Elapse ==
  /\ \E j \in delayed \ due : due' = due \cup {j}
  /\ UNCHANGED <<endpoint, row, queue, delayed, dispatch, worker, promoter, accepted, losses>>

Promoting(p, step, jobs) ==
  promoter' = [promoter EXCEPT ![p] = [step |-> step, jobs |-> jobs]]

\* zrangebyscore(0, now).
ReadReady(p) ==
  /\ promoter[p].step = "idle" /\ due # {}
  /\ Promoting(p, "removing", due)
  /\ UNCHANGED <<endpoint, row, redis, dispatch, worker, accepted, losses>>

\* Mutant of Ready: the removal takes whatever waits by then.
ReadyAll(p) == delayed
\* The jobs a removal up to the same instant finds: those read that nobody has
\* removed or scheduled anew.
Ready(p) == promoter[p].jobs \cap due

\* zremrangebyscore(0, now).
RemoveReady(p) ==
  /\ promoter[p].step = "removing"
  /\ delayed' = delayed \ Ready(p)
  /\ due' = due \ Ready(p)
  /\ Promoting(p, "pushing", promoter[p].jobs)
  /\ UNCHANGED <<endpoint, row, queue, dispatch, worker, accepted, losses>>

\* One lpush per job that was read, removed by this run or not.
Push(p) ==
  /\ promoter[p].step = "pushing"
  /\ \E j \in promoter[p].jobs :
       LET left == promoter[p].jobs \ {j} IN
       /\ queue' = Append(queue, j)
       /\ Promoting(p, IF left = {} THEN "idle" ELSE "pushing", left)
  /\ UNCHANGED <<endpoint, row, delayed, due, dispatch, worker, accepted, losses>>

PromoterFails(p) ==
  /\ Lose
  /\ promoter[p].step # "idle"
  /\ Promoting(p, "idle", {})
  /\ UNCHANGED <<endpoint, row, redis, dispatch, worker, accepted>>

-----------------------------------------------------------------------------
Handle(v) == StartDispatch(v) \/ CreateRow(v) \/ Enqueue(v)

Poll(w) ==
  Pop(w) \/ ReadEndpoint(w) \/ Post(w) \/ Conclude(w) \/ Catch(w) \/ Delay(w)

Promote(p) == ReadReady(p) \/ RemoveReady(p) \/ Push(p)

Next ==
  \/ \E e \in Endpoint : SetEndpoint(e)
  \/ \E v \in Event : Handle(v) \/ DispatchFails(v)
  \/ \E w \in Worker : Poll(w) \/ StatementFails(w) \/ WorkerFails(w)
  \/ \E p \in Promoter : Promote(p) \/ PromoterFails(p)
  \/ Elapse

\* A handler that has begun, a poll loop and the timer go on; time passes.
Fairness ==
  /\ \A v \in Event : WF_vars(CreateRow(v) \/ Enqueue(v))
  /\ \A w \in Worker : WF_vars(Poll(w))
  /\ \A p \in Promoter : WF_vars(Promote(p))
  /\ WF_vars(Elapse)

Spec == Init /\ [][Next]_vars
FairSpec == Spec /\ Fairness

-----------------------------------------------------------------------------
(* Properties.                                                             *)

\* A job for the delivery is in Redis or in somebody's hands.
HasJob(d) ==
  \/ \E j \in ToSet(queue) \cup delayed : j.delivery = d
  \/ \E v \in Event : dispatch[v].job # NoJob /\ dispatch[v].job.delivery = d
  \/ \E w \in Worker : worker[w].job # NoJob /\ worker[w].job.delivery = d
  \/ \E p \in Promoter, j \in Job : j \in promoter[p].jobs /\ j.delivery = d

Pending(d) == row[d] # NoRow /\ row[d].status = "pending"

\* A delivery is shown as delivered only if its receiver has accepted it, however
\* many copies of its job are worked on.
DeliveredWasAccepted ==
  \A d \in Delivery : row[d] # NoRow /\ row[d].status = "delivered" => d \in accepted

\* No delivery is left pending without a job, however workers, promotions and
\* handlers interleave, as long as no process dies and Redis does not fail.
PendingHasJob ==
  losses = 0 => \A d \in Delivery : Pending(d) => HasJob(d)

\* Every job is worked off: retries end, and no delayed job is forgotten.
JobsAreWorkedOff == \A d \in Delivery : HasJob(d) ~> ~HasJob(d)
=============================================================================
