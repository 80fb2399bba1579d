------------------------- MODULE ExternalTransfersProofs -------------------------
(***************************************************************************)
(* Proofs about ExternalTransfers, for any number of workers, wallets and  *)
(* references and under every fault.                                       *)
(***************************************************************************)
EXTENDS ExternalTransfers, Sums

InsertedSteps == {"calling", "answer", "committing"}
HoldSteps == {"source lock", "checking", "inserting"} \cup InsertedSteps
FoundSteps == {"resolving", "reading", "posting"}
ResolvingSteps == {"locate", "processed", "ignored", "unmatched"} \cup FoundSteps

\* What request w relies on: its job fits its step, a row it has inserted is
\* not committed yet, and what it has found out about its transfer stays true.
RequestInv(w) ==
  /\ pc[w] \in HoldSteps => job[w] \in Hold
  /\ pc[w] \in ResolvingSteps => job[w] \in Resolution /\ w \in Resolver
  /\ pc[w] \in InsertedSteps => ~Exists(job[w].ref)
  /\ pc[w] \in FoundSteps => Exists(job[w].ref)
  /\ pc[w] = "processed" => Exists(job[w].ref) /\ ~Open(job[w].ref)

\* Two transactions never have the same reference inserted.
SlotInv ==
  \A v, w \in Worker :
    v # w /\ pc[v] \in InsertedSteps /\ pc[w] \in InsertedSteps => job[v].ref # job[w].ref

Inv == TypeOK /\ SlotInv /\ ProcessedEventsResolve /\ \A w \in Worker : RequestInv(w)

\* Transfers appear and are resolved for good.
Advances ==
  \A r \in Ref : Exists(r) => Exists(r)' /\ (~Open(r) => ~Open(r)')

LEMMA InitInv == Init => Inv
<1> SUFFICES ASSUME Init PROVE Inv
  OBVIOUS
<1>1. TypeOK
  BY OpeningAssumption DEF Init, TypeOK, Cached, Postings, Steps
<1> QED BY <1>1 DEF Init, Inv, RequestInv, SlotInv, ProcessedEventsResolve,
  HoldSteps, ResolvingSteps, InsertedSteps, FoundSteps, Event

-----------------------------------------------------------------------------
\* A step of request w preserves the invariant if it preserves the part about w
\* and the rows, and leaves alone what other transactions have inserted.
LEMMA Frame ==
  ASSUME Inv, NEW w \in Worker, TypeOK', RequestInv(w)', Advances,
         \A v \in Worker \ {w} : pc'[v] = pc[v] /\ job'[v] = job[v],
         \A v \in Worker \ {w} : pc[v] \in InsertedSteps =>
            transfer'[job[v].ref] = transfer[job[v].ref],
         pc'[w] \in InsertedSteps =>
            \A v \in Worker \ {w} : pc[v] \in InsertedSteps => job[v].ref # job'[w].ref,
         ProcessedEventsResolve'
  PROVE  Inv'
<1>1. ASSUME NEW v \in Worker PROVE RequestInv(v)'
  <2>1. CASE v = w BY <2>1
  <2>2. CASE v # w
    <3>1. pc'[v] = pc[v] /\ job'[v] = job[v] BY <2>2
    <3>2. RequestInv(v) BY DEF Inv
    <3>3. pc[v] \in HoldSteps \cup ResolvingSteps => job[v].ref \in Ref
      BY <3>2 DEF RequestInv, Hold, Resolution
    <3>4. pc[v] \in InsertedSteps => transfer'[job[v].ref] = NoTransfer
      BY <2>2, <3>2 DEF RequestInv, Exists
    <3>5. pc[v] \in FoundSteps \cup {"processed"} => transfer'[job[v].ref] # NoTransfer
      BY <3>2, <3>3 DEF RequestInv, Advances, Exists, FoundSteps, ResolvingSteps
    <3>6. DEFINE r == job[v].ref
    <3>7. pc[v] = "processed" => r \in Ref /\ ~Open(r) /\ Exists(r)
      BY <3>2, <3>3 DEF RequestInv, ResolvingSteps
    <3>8. pc[v] = "processed" =>
             transfer'[r].status # "pending" /\ transfer'[r].status # "processing"
      <4> HIDE DEF r
      <4> QED BY <3>7 DEF Advances, Open, InStatus, Exists
    <3>9. pc[v] = "processed" => ~Open(job[v].ref)'
      BY <3>1, <3>8 DEF Open, InStatus
    <3> QED BY <3>1, <3>2, <3>4, <3>5, <3>9 DEF RequestInv, Exists
  <2> QED BY <2>1, <2>2
<1>2. SlotInv' BY DEF Inv, SlotInv
<1> QED BY <1>1, <1>2 DEF Inv

\* A step that only moves request w on, or changes what the provider says.
LEMMA LocalStep ==
  ASSUME Inv, NEW w \in Worker, UNCHANGED tables,
         NEW step \in Steps, NEW j \in Hold \cup Resolution \cup {NoJob},
         pc' = [pc EXCEPT ![w] = step], job' = [job EXCEPT ![w] = j],
         lock' \in [Wallet -> Worker \cup {NoWorker}],
         upstream' \in [Ref -> {"none", "accepted", "paid", "refused"}],
         dispatched' \in [Ref -> Nat],
         step \in InsertedSteps =>
            \A v \in Worker \ {w} : pc[v] \in InsertedSteps => job[v].ref # j.ref,
         RequestInv(w)'
  PROVE  Inv'
<1>1. TypeOK' BY DEF Inv, TypeOK, tables
<1>2. Advances BY DEF Advances, Exists, Open, InStatus, tables
<1>3. ProcessedEventsResolve'
  BY DEF Inv, ProcessedEventsResolve, Exists, Open, InStatus, tables
<1>4. \A v \in Worker \ {w} : pc'[v] = pc[v] /\ job'[v] = job[v] BY DEF Inv, TypeOK
<1>5. pc'[w] = step /\ job'[w] = j BY DEF Inv, TypeOK
<1> QED BY <1>1, <1>2, <1>3, <1>4, <1>5, Frame DEF tables

\* A request that ends leaves nothing to rely on.
LEMMA EndStep ==
  ASSUME Inv, NEW w \in Worker, UNCHANGED <<tables, provider>>, End(w)
  PROVE  Inv'
<1>1. RequestInv(w)'
  BY DEF Inv, TypeOK, End, RequestInv, HoldSteps, ResolvingSteps, InsertedSteps, FoundSteps
<1>2. lock' \in [Wallet -> Worker \cup {NoWorker}] BY DEF Inv, TypeOK, End
<1>3. "idle" \in Steps /\ "idle" \notin InsertedSteps BY DEF Steps, InsertedSteps
<1> QED BY <1>1, <1>2, <1>3, LocalStep DEF End, provider, Inv, TypeOK

-----------------------------------------------------------------------------
(* The steps of a hold before it commits.                                  *)

LEMMA HoldJob ==
  ASSUME Inv, NEW w \in Worker, pc[w] \in HoldSteps
  PROVE  /\ job[w] \in Hold /\ job[w].ref \in Ref /\ job[w].from \in Wallet
         /\ job[w].kind = "hold" /\ RequestInv(w)
BY DEF Inv, RequestInv, Hold

LEMMA ResolutionJob ==
  ASSUME Inv, NEW w \in Worker, pc[w] \in ResolvingSteps
  PROVE  /\ job[w] \in Resolution /\ job[w].ref \in Ref /\ job[w].target \in Outcome
         /\ w \in Resolver /\ RequestInv(w)
BY DEF Inv, RequestInv, Resolution

\* A step of a hold that keeps its job.
LEMMA HoldMovesOn ==
  ASSUME Inv, NEW w \in Worker, pc[w] \in HoldSteps, NEW step \in HoldSteps,
         UNCHANGED <<tables, job>>, GoTo(w, step),
         lock' \in [Wallet -> Worker \cup {NoWorker}],
         upstream' \in [Ref -> {"none", "accepted", "paid", "refused"}],
         dispatched' \in [Ref -> Nat],
         step \in InsertedSteps =>
            /\ ~Exists(job[w].ref)
            /\ \A v \in Worker \ {w} : pc[v] \in InsertedSteps => job[v].ref # job[w].ref
  PROVE  Inv'
<1>1. job[w] \in Hold BY HoldJob
<1>2. job' = [job EXCEPT ![w] = job[w]] BY DEF Inv, TypeOK
<1>3. step \in Steps BY DEF HoldSteps, InsertedSteps, Steps
<1>4. pc'[w] = step /\ job'[w] = job[w] BY DEF GoTo, Inv, TypeOK
<1>5. step \notin ResolvingSteps /\ step \notin FoundSteps /\ step # "processed"
  BY DEF HoldSteps, InsertedSteps, ResolvingSteps, FoundSteps
<1>6. RequestInv(w)' BY <1>1, <1>4, <1>5 DEF RequestInv, Exists, tables
<1> QED BY <1>1, <1>2, <1>3, <1>6, LocalStep DEF GoTo

LEMMA StartHoldKeeps ==
  ASSUME Inv, NEW w \in Worker, StartHold(w)
  PROVE  Inv'
<1>1. PICK a \in Wallet, r \in Ref, n \in Amount :
        Begin(w, "source lock", [kind |-> "hold", ref |-> r, from |-> a,
              amount |-> n, seen |-> wallet[a], target |-> "processing"])
  BY DEF StartHold
<1>2. DEFINE j == [kind |-> "hold", ref |-> r, from |-> a,
                   amount |-> n, seen |-> wallet[a], target |-> "processing"]
<1>3. j \in Hold BY DEF Hold, Status, Inv, TypeOK
<1>4. "source lock" \in Steps /\ "source lock" \notin InsertedSteps
  BY DEF Steps, InsertedSteps
<1> HIDE DEF j
<1>5. pc' = [pc EXCEPT ![w] = "source lock"] /\ job' = [job EXCEPT ![w] = j]
  BY <1>1 DEF Begin, j
<1>6. RequestInv(w)'
  BY <1>3, <1>5 DEF Inv, TypeOK, RequestInv, HoldSteps, InsertedSteps, ResolvingSteps, FoundSteps
<1> QED BY <1>1, <1>3, <1>4, <1>5, <1>6, LocalStep DEF StartHold, Begin, provider, Inv, TypeOK

LEMMA LockSourceKeeps ==
  ASSUME Inv, NEW w \in Worker, LockSource(w)
  PROVE  Inv'
<1>1. pc[w] \in HoldSteps /\ "checking" \in HoldSteps /\ "checking" \notin InsertedSteps
  BY DEF LockSource, At, HoldSteps, InsertedSteps
<1>2. lock' \in [Wallet -> Worker \cup {NoWorker}]
  BY DEF LockSource, Inv, TypeOK
<1> QED BY <1>1, <1>2, HoldMovesOn DEF LockSource, provider, Inv, TypeOK

LEMMA CheckHoldKeeps ==
  ASSUME Inv, NEW w \in Worker, CheckHold(w)
  PROVE  Inv'
<1>1. CASE End(w) BY <1>1, EndStep DEF CheckHold
<1>2. CASE ~End(w)
  <2>1. GoTo(w, "inserting") /\ UNCHANGED <<tables, provider, lock, job>>
    BY <1>2 DEF CheckHold
  <2>2. pc[w] \in HoldSteps /\ "inserting" \in HoldSteps /\ "inserting" \notin InsertedSteps
    BY DEF CheckHold, At, HoldSteps, InsertedSteps
  <2> QED BY <2>1, <2>2, HoldMovesOn DEF provider, Inv, TypeOK
<1> QED BY <1>1, <1>2

LEMMA InsertKeeps ==
  ASSUME Inv, NEW w \in Worker, Insert(w)
  PROVE  Inv'
<1>1. CASE Exists(job[w].ref) BY <1>1, EndStep DEF Insert
<1>2. CASE ~Exists(job[w].ref)
  <2>1. GoTo(w, "calling") /\ UNCHANGED <<tables, provider, lock, job>>
    BY <1>2 DEF Insert
  <2>2. pc[w] \in HoldSteps /\ "calling" \in HoldSteps
    BY DEF Insert, At, HoldSteps, InsertedSteps
  <2>3. \A v \in Worker \ {w} : pc[v] \in InsertedSteps => job[v].ref # job[w].ref
    BY DEF Insert, Inserted, InsertedSteps
  <2> QED BY <1>2, <2>1, <2>2, <2>3, HoldMovesOn DEF provider, Inv, TypeOK
<1> QED BY <1>1, <1>2

\* What a transaction that has inserted its row knows.
LEMMA Alone ==
  ASSUME Inv, NEW w \in Worker, pc[w] \in InsertedSteps
  PROVE  /\ job[w] \in Hold /\ job[w].ref \in Ref /\ ~Exists(job[w].ref)
         /\ \A v \in Worker \ {w} : pc[v] \in InsertedSteps => job[v].ref # job[w].ref
<1>1. pc[w] \in HoldSteps BY DEF HoldSteps
<1> QED BY <1>1, HoldJob DEF Inv, SlotInv, RequestInv

LEMMA DispatchKeeps ==
  ASSUME Inv, NEW w \in Worker, Dispatch(w)
  PROVE  Inv'
<1>1. pc[w] \in InsertedSteps /\ pc[w] \in HoldSteps /\ "answer" \in HoldSteps
  BY DEF Dispatch, At, HoldSteps, InsertedSteps
<1>2. upstream' \in [Ref -> {"none", "accepted", "paid", "refused"}] /\ dispatched' \in [Ref -> Nat]
  BY <1>1, Alone DEF Dispatch, Inv, TypeOK
<1>3. UNCHANGED <<tables, job>> /\ GoTo(w, "answer") /\ UNCHANGED lock
  BY DEF Dispatch
<1> QED BY <1>1, <1>2, <1>3, Alone, HoldMovesOn DEF Inv, TypeOK

\* A hold that knows the status it will commit.
LEMMA CommitsKeeps ==
  ASSUME Inv, NEW w \in Worker, pc[w] \in InsertedSteps, NEW s \in Status, Commits(w, s),
         upstream' \in [Ref -> {"none", "accepted", "paid", "refused"}],
         UNCHANGED dispatched
  PROVE  Inv'
<1>1. DEFINE j == [job[w] EXCEPT !.target = s]
<1>2. job[w] \in Hold /\ ~Exists(job[w].ref)
      /\ \A v \in Worker \ {w} : pc[v] \in InsertedSteps => job[v].ref # job[w].ref
  BY Alone
<1>3. j \in Hold /\ j.ref = job[w].ref BY <1>2 DEF Hold
<1>4. job' = [job EXCEPT ![w] = j] /\ pc' = [pc EXCEPT ![w] = "committing"]
      /\ UNCHANGED <<tables, lock>>
  BY DEF Commits, GoTo, Inv, TypeOK
<1>5. pc'[w] = "committing" /\ job'[w] = j BY <1>4 DEF Inv, TypeOK
<1> HIDE DEF j
<1>6. RequestInv(w)'
  BY <1>2, <1>3, <1>4, <1>5 DEF RequestInv, Exists, tables, HoldSteps, InsertedSteps,
     ResolvingSteps, FoundSteps
<1>7. "committing" \in Steps BY DEF Steps
<1> QED BY <1>2, <1>3, <1>4, <1>6, <1>7, LocalStep DEF Inv, TypeOK

LEMMA RefuseKeeps ==
  ASSUME Inv, NEW w \in Worker, Refuse(w)
  PROVE  Inv'
<1>1. pc[w] \in InsertedSteps BY DEF Refuse, At, InsertedSteps
<1>2. upstream' \in [Ref -> {"none", "accepted", "paid", "refused"}]
  BY <1>1, Alone DEF Refuse, Inv, TypeOK
<1> QED BY <1>1, <1>2, CommitsKeeps DEF Refuse, Status

LEMMA LoseCallKeeps ==
  ASSUME Inv, NEW w \in Worker, LoseCall(w)
  PROVE  Inv'
<1>1. pc[w] \in InsertedSteps BY DEF LoseCall, InsertedSteps
<1>2. PICK e \in Faults \cap {"timeout", "network"} : Commits(w, StatusAfter(e))
  BY DEF LoseCall
<1>3. StatusAfter(e) \in Status BY DEF StatusAfter, Status
<1> QED BY <1>1, <1>2, <1>3, CommitsKeeps DEF LoseCall, provider, Inv, TypeOK

LEMMA AnswerKeeps ==
  ASSUME Inv, NEW w \in Worker, Answer(w)
  PROVE  Inv'
<1>1. pc[w] \in InsertedSteps BY DEF Answer, At, InsertedSteps
<1>2. PICK s \in Status : Commits(w, s)
  BY DEF Answer, Status
<1> QED BY <1>1, <1>2, CommitsKeeps DEF Answer, provider, Inv, TypeOK

\* The commit of a hold brings its transfer into being; nobody else has it.
LEMMA CommitKeeps ==
  ASSUME Inv, NEW w \in Worker, Commit(w)
  PROVE  Inv'
<1>1. DEFINE j == job[w]
             row == [from |-> j.from, amount |-> j.amount, status |-> j.target]
<1>2. pc[w] \in InsertedSteps /\ pc[w] \in HoldSteps
  BY DEF Commit, At, HoldSteps, InsertedSteps
<1>3. j \in Hold /\ j.ref \in Ref /\ ~Exists(j.ref)
      /\ \A v \in Worker \ {w} : pc[v] \in InsertedSteps => job[v].ref # j.ref
  BY <1>2, Alone
<1>4. row \in Transfer /\ row # NoTransfer BY <1>3, DistinctAssumption DEF Hold, Transfer
<1> HIDE DEF row
<1>5. transfer' = [transfer EXCEPT ![j.ref] = row] BY DEF Commit, row
<1>6. TypeOK'
  <2>1. wallet' \in [Wallet -> Cached]
    <3>1. /\ j.from \in Wallet /\ j.amount \in Int
          /\ j.seen.available \in Int /\ j.seen.pending \in Int
      <4> HIDE DEF j
      <4>1. j.from \in Wallet /\ j.amount \in Amount /\ j.seen \in Cached BY <1>3 DEF Hold
      <4>2. j.seen.available \in Int /\ j.seen.pending \in Int BY <4>1 DEF Cached
      <4>3. Amount \subseteq Int BY AmountAssumption
      <4>4. j.amount \in Int BY <4>1, <4>3
      <4> QED BY <4>1, <4>2, <4>4
    <3> QED BY <3>1 DEF Commit, Inv, TypeOK, Cached
  <2>2. posted' \in [Ref -> Postings]
    BY <1>3 DEF Commit, Post, Releases, Inv, TypeOK, Postings
  <2>3. transfer' \in [Ref -> Transfer \cup {NoTransfer}] BY <1>4, <1>5 DEF Inv, TypeOK
  <2> QED BY <2>1, <2>2, <2>3 DEF Commit, End, provider, Inv, TypeOK, Steps
<1>7. Advances
  BY <1>3, <1>4, <1>5 DEF Advances, Exists, Open, InStatus, Inv, TypeOK
<1>8. ProcessedEventsResolve'
  <2> SUFFICES ASSUME NEW e \in Event, event'[e] = "processed"
               PROVE  Exists(e[1])' /\ ~Open(e[1])'
    BY DEF ProcessedEventsResolve
  <2>1. e[1] \in Ref /\ Exists(e[1]) /\ ~Open(e[1])
    BY DEF Inv, ProcessedEventsResolve, Commit, Event
  <2> QED BY <2>1, <1>7 DEF Advances
<1>9. RequestInv(w)'
  BY DEF Commit, End, Inv, TypeOK, RequestInv, HoldSteps, ResolvingSteps, InsertedSteps, FoundSteps
<1>10. \A v \in Worker \ {w} : pc'[v] = pc[v] /\ job'[v] = job[v]
  BY DEF Commit, End, Inv, TypeOK
<1>11. pc'[w] \notin InsertedSteps BY DEF Commit, End, Inv, TypeOK, InsertedSteps
<1>12. \A v \in Worker \ {w} : pc[v] \in InsertedSteps =>
         transfer'[job[v].ref] = transfer[job[v].ref]
  <2> SUFFICES ASSUME NEW v \in Worker \ {w}, pc[v] \in InsertedSteps
               PROVE  transfer'[job[v].ref] = transfer[job[v].ref]
    OBVIOUS
  <2>1. job[v].ref \in Ref /\ job[v].ref # j.ref BY <1>3, Alone
  <2> QED BY <2>1, <1>3, <1>5 DEF Inv, TypeOK
<1> QED BY <1>6, <1>7, <1>8, <1>9, <1>10, <1>11, <1>12, Frame

-----------------------------------------------------------------------------
(* The steps of a resolution.                                              *)

LEMMA StartWebhookKeeps ==
  ASSUME Inv, NEW w \in Worker, NEW r \in Ref, NEW s \in Outcome, StartWebhook(w, r, s)
  PROVE  Inv'
<1>1. DEFINE j == NewResolution("webhook", r, s)
<1>2. j \in Resolution BY DEF NewResolution, Resolution, Cached
<1> HIDE DEF j
<1>3. pc' = [pc EXCEPT ![w] = "locate"] /\ job' = [job EXCEPT ![w] = j] /\ UNCHANGED lock
  BY DEF StartWebhook, Begin, j
<1>4. pc'[w] = "locate" /\ job'[w] = j BY <1>3 DEF Inv, TypeOK
<1>5. RequestInv(w)'
  BY <1>2, <1>4 DEF StartWebhook, RequestInv, HoldSteps, InsertedSteps, ResolvingSteps, FoundSteps
<1>6. UNCHANGED <<wallet, transfer, posted, provider>> BY DEF StartWebhook
<1>7. event' = [event EXCEPT ![<<r, s>>] = IF @ = "none" THEN "received" ELSE @]
  BY DEF StartWebhook, Receipt
<1>8. TypeOK'
  BY <1>2, <1>3, <1>6, <1>7 DEF Inv, TypeOK, provider, Steps, Event
<1>9. ProcessedEventsResolve'
  BY <1>6, <1>7 DEF Inv, TypeOK, ProcessedEventsResolve, Exists, Open, InStatus
<1>10. Advances BY <1>6 DEF Advances, Exists, Open, InStatus
<1>11. \A v \in Worker \ {w} : pc'[v] = pc[v] /\ job'[v] = job[v] BY <1>3 DEF Inv, TypeOK
<1>12. pc'[w] \notin InsertedSteps BY <1>4 DEF InsertedSteps
<1> QED BY <1>5, <1>6, <1>8, <1>9, <1>10, <1>11, <1>12, Frame

\* A step of a resolution that keeps its job and the tables.
LEMMA ResolutionMovesOn ==
  ASSUME Inv, NEW w \in Worker, pc[w] \in ResolvingSteps, NEW step \in ResolvingSteps,
         UNCHANGED <<tables, lock, provider, job>>, GoTo(w, step),
         step \in FoundSteps => Exists(job[w].ref),
         step = "processed" => Exists(job[w].ref) /\ ~Open(job[w].ref)
  PROVE  Inv'
<1>1. job[w] \in Resolution /\ w \in Resolver BY ResolutionJob
<1>2. job' = [job EXCEPT ![w] = job[w]] BY DEF Inv, TypeOK
<1>3. step \in Steps BY DEF ResolvingSteps, FoundSteps, Steps
<1>4. pc'[w] = step /\ job'[w] = job[w] BY DEF GoTo, Inv, TypeOK
<1>5. step \notin HoldSteps /\ step \notin InsertedSteps
  BY DEF HoldSteps, InsertedSteps, ResolvingSteps, FoundSteps
<1>6. RequestInv(w)' BY <1>1, <1>4, <1>5 DEF RequestInv, Exists, Open, InStatus, tables
<1> QED BY <1>1, <1>2, <1>3, <1>5, <1>6, LocalStep DEF GoTo, provider, Inv, TypeOK

LEMMA LocateKeeps ==
  ASSUME Inv, NEW w \in Worker, Locate(w)
  PROVE  Inv'
<1>1. pc[w] \in ResolvingSteps BY DEF Locate, At, ResolvingSteps
<1>2. UNCHANGED <<tables, lock, provider, job>> BY DEF Locate
<1>3. {"resolving", "processed", "ignored", "unmatched"} \subseteq ResolvingSteps
      /\ "resolving" \in FoundSteps
      /\ {"processed", "ignored", "unmatched"} \cap FoundSteps = {}
  BY DEF ResolvingSteps, FoundSteps
<1>4. CASE ~Exists(job[w].ref)
  <2>1. GoTo(w, "unmatched") BY <1>4 DEF Locate, Open, InStatus
  <2> QED BY <1>1, <1>2, <1>3, <2>1, ResolutionMovesOn
<1>5. CASE Exists(job[w].ref) /\ Open(job[w].ref)
  <2>1. GoTo(w, "resolving") BY <1>5, <1>1, ResolutionJob DEF Locate, Open, InStatus, Outcome
  <2> QED BY <1>1, <1>2, <1>3, <1>5, <2>1, ResolutionMovesOn
<1>6. CASE Exists(job[w].ref) /\ ~Open(job[w].ref)
  <2>1. GoTo(w, "processed") \/ GoTo(w, "ignored") BY <1>6 DEF Locate, InStatus
  <2> QED BY <1>1, <1>2, <1>3, <1>6, <2>1, ResolutionMovesOn
<1> QED BY <1>4, <1>5, <1>6

LEMMA StartSimulationKeeps ==
  ASSUME Inv, NEW w \in Worker, StartSimulation(w)
  PROVE  Inv'
<1>1. PICK r \in Ref, s \in Outcome :
        InStatus(r, "processing") /\ Begin(w, "resolving", NewResolution("simulate", r, s))
  BY DEF StartSimulation
<1>2. DEFINE j == NewResolution("simulate", r, s)
<1>3. j \in Resolution /\ j.ref = r BY DEF NewResolution, Resolution, Cached
<1> HIDE DEF j
<1>4. pc' = [pc EXCEPT ![w] = "resolving"] /\ job' = [job EXCEPT ![w] = j] /\ UNCHANGED lock
  BY <1>1 DEF Begin, j
<1>5. UNCHANGED <<tables, provider>> BY DEF StartSimulation
<1>6. Exists(r) BY <1>1 DEF InStatus
<1>7. RequestInv(w)'
  <2>1. pc'[w] = "resolving" /\ job'[w] = j BY <1>4 DEF Inv, TypeOK
  <2>2. w \in Resolver BY DEF StartSimulation
  <2>3. transfer'[r] # NoTransfer BY <1>5, <1>6 DEF Exists, tables
  <2>4. pc'[w] \notin HoldSteps /\ pc'[w] \notin InsertedSteps /\ pc'[w] # "processed"
    BY <2>1 DEF HoldSteps, InsertedSteps
  <2>5. job'[w] \in Resolution /\ transfer'[job'[w].ref] # NoTransfer BY <1>3, <2>1, <2>3
  <2>6. (pc[w] \in HoldSteps => job[w] \in Hold)' BY <2>1 DEF HoldSteps, InsertedSteps
  <2>7. (pc[w] \in ResolvingSteps => job[w] \in Resolution /\ w \in Resolver)' BY <2>2, <2>5
  <2>8. (pc[w] \in InsertedSteps => ~Exists(job[w].ref))' BY <2>1 DEF InsertedSteps
  <2>9. Exists(job[w].ref)' BY <2>5 DEF Exists
  <2>10. (pc[w] # "processed")' BY <2>1
  <2> QED BY <2>6, <2>7, <2>8, <2>9, <2>10 DEF RequestInv
<1>8. "resolving" \in Steps /\ "resolving" \notin InsertedSteps BY DEF Steps, InsertedSteps
<1> QED BY <1>3, <1>4, <1>5, <1>7, <1>8, LocalStep DEF provider, Inv, TypeOK

\* A resolution that is done with a transfer no longer open.
LEMMA ResolvedKeeps ==
  ASSUME Inv, NEW w \in Worker, pc[w] \in ResolvingSteps, Resolved(w),
         UNCHANGED <<tables, provider>>, Exists(job[w].ref), ~Open(job[w].ref)
  PROVE  Inv'
<1>1. CASE End(w) BY <1>1, EndStep
<1>2. CASE GoTo(w, "processed") /\ UNCHANGED <<lock, job>>
  <2>1. "processed" \in ResolvingSteps BY DEF ResolvingSteps
  <2> QED BY <1>2, <2>1, ResolutionMovesOn
<1> QED BY <1>1, <1>2 DEF Resolved

LEMMA ReadTransferKeeps ==
  ASSUME Inv, NEW w \in Worker, ReadTransfer(w)
  PROVE  Inv'
<1>1. pc[w] \in ResolvingSteps /\ pc[w] \in FoundSteps /\ "reading" \in ResolvingSteps
  BY DEF ReadTransfer, At, ResolvingSteps, FoundSteps
<1>2. Exists(job[w].ref) BY <1>1, ResolutionJob DEF RequestInv
<1>3. CASE Open(job[w].ref)
  BY <1>1, <1>2, <1>3, ResolutionMovesOn DEF ReadTransfer
<1>4. CASE ~Open(job[w].ref)
  BY <1>1, <1>2, <1>4, ResolvedKeeps DEF ReadTransfer
<1> QED BY <1>3, <1>4

LEMMA ReadAccountKeeps ==
  ASSUME Inv, NEW w \in Worker, ReadAccount(w)
  PROVE  Inv'
<1>1. pc[w] \in ResolvingSteps /\ pc[w] \in FoundSteps
  BY DEF ReadAccount, At, ResolvingSteps, FoundSteps
<1>2. /\ job[w] \in Resolution /\ w \in Resolver /\ job[w].ref \in Ref
      /\ Exists(job[w].ref)
  BY <1>1, ResolutionJob DEF RequestInv
<1>3. DEFINE a == transfer[job[w].ref].from
             j == [job[w] EXCEPT !.seen = wallet[a]]
<1>4. a \in Wallet BY <1>2 DEF Exists, Inv, TypeOK, Transfer
<1>5. wallet[a] \in Cached BY <1>4 DEF Inv, TypeOK
<1>6. j \in Resolution /\ j.ref = job[w].ref BY <1>2, <1>5 DEF Resolution
<1>7. job' = [job EXCEPT ![w] = j] /\ pc' = [pc EXCEPT ![w] = "posting"]
      /\ UNCHANGED <<tables, lock, provider>>
  BY DEF ReadAccount, GoTo, Inv, TypeOK
<1> HIDE DEF j
<1>8. RequestInv(w)'
  <2>1. pc'[w] = "posting" /\ job'[w] = j BY <1>7 DEF Inv, TypeOK
  <2>2. transfer'[j.ref] # NoTransfer BY <1>2, <1>6, <1>7 DEF Exists, tables
  <2>3. (pc[w] \in HoldSteps => job[w] \in Hold)' BY <2>1 DEF HoldSteps, InsertedSteps
  <2>4. (pc[w] \in ResolvingSteps => job[w] \in Resolution /\ w \in Resolver)'
    BY <1>2, <1>6, <2>1
  <2>5. (pc[w] \in InsertedSteps => ~Exists(job[w].ref))' BY <2>1 DEF InsertedSteps
  <2>6. Exists(job[w].ref)' BY <2>1, <2>2 DEF Exists
  <2>7. (pc[w] # "processed")' BY <2>1
  <2> QED BY <2>3, <2>4, <2>5, <2>6, <2>7 DEF RequestInv
<1>9. "posting" \in Steps /\ "posting" \notin InsertedSteps BY DEF Steps, InsertedSteps
<1>10. UNCHANGED tables
       /\ lock' \in [Wallet -> Worker \cup {NoWorker}]
       /\ upstream' \in [Ref -> {"none", "accepted", "paid", "refused"}]
       /\ dispatched' \in [Ref -> Nat]
  BY <1>7 DEF provider, Inv, TypeOK
<1>11. j \in Hold \cup Resolution \cup {NoJob} BY <1>6
<1> QED BY <1>7, <1>8, <1>9, <1>10, <1>11, LocalStep

\* A resolution that posts its journal leaves the transfer resolved for good,
\* whatever another resolution has done to it meanwhile.
LEMMA ResolveKeeps ==
  ASSUME Inv, NEW w \in Worker, Resolve(w)
  PROVE  Inv'
<1>1. DEFINE j == job[w]
             t == transfer[j.ref]
             row == [t EXCEPT !.status = j.target]
<1>2. pc[w] \in ResolvingSteps /\ pc[w] \in FoundSteps
  BY DEF Resolve, At, ResolvingSteps, FoundSteps
<1>3. /\ j \in Resolution /\ j.ref \in Ref /\ j.target \in Outcome /\ w \in Resolver
      /\ Exists(j.ref)
  BY <1>2, ResolutionJob DEF RequestInv
<1>4. t \in Transfer BY <1>3 DEF Exists, Inv, TypeOK
<1>5. row \in Transfer /\ row.status = j.target /\ row # NoTransfer
  BY <1>3, <1>4, DistinctAssumption DEF Transfer, Outcome, Status
<1>6. transfer' = [transfer EXCEPT ![j.ref] = row] BY <1>3 DEF Resolve, Inv, TypeOK
<1>7. t.from \in Wallet /\ t.amount \in Nat BY <1>4, AmountAssumption DEF Transfer
<1>8. j.seen \in Cached BY <1>3 DEF Resolution
<1> HIDE DEF row
<1>9. transfer'[j.ref] = row BY <1>3, <1>6 DEF Inv, TypeOK
<1>10. transfer'[j.ref] # NoTransfer
       /\ transfer'[j.ref].status # "pending" /\ transfer'[j.ref].status # "processing"
  BY <1>3, <1>5, <1>9 DEF Outcome
<1>11. TypeOK'
  <2>1. wallet' \in [Wallet -> Cached]
    <3>1. wallet[t.from] \in Cached BY <1>7 DEF Inv, TypeOK
    <3>2. Freed(wallet[t.from], j.seen, t.amount, j.target) \in Cached
      BY <1>7, <1>8, <3>1 DEF Freed, Cached
    <3> QED BY <3>2, <1>7 DEF Resolve, Inv, TypeOK
  <2>2. posted' \in [Ref -> Postings]
    BY <1>3 DEF Resolve, Post, Inv, TypeOK, Postings
  <2>3. transfer' \in [Ref -> Transfer \cup {NoTransfer}]
    BY <1>5, <1>6 DEF Inv, TypeOK
  <2>4. /\ pc' \in [Worker -> Steps]
        /\ job' \in [Worker -> Hold \cup Resolution \cup {NoJob}]
        /\ lock' \in [Wallet -> Worker \cup {NoWorker}]
    <3>1. Resolved(w) BY DEF Resolve
    <3>2. CASE End(w) BY <3>2 DEF End, Inv, TypeOK, Steps
    <3>3. CASE GoTo(w, "processed") /\ UNCHANGED <<lock, job>>
      BY <3>3 DEF GoTo, Inv, TypeOK, Steps
    <3> QED BY <3>1, <3>2, <3>3 DEF Resolved
  <2>5. UNCHANGED <<event, provider>> BY DEF Resolve
  <2> QED BY <2>1, <2>2, <2>3, <2>4, <2>5 DEF provider, Inv, TypeOK
<1>12. Advances
  <2> SUFFICES ASSUME NEW r \in Ref, Exists(r)
               PROVE  Exists(r)' /\ (~Open(r) => ~Open(r)')
    BY DEF Advances
  <2>1. CASE r = j.ref BY <2>1, <1>10 DEF Exists, Open, InStatus
  <2>2. CASE r # j.ref
    <3>1. transfer'[r] = transfer[r] BY <2>2, <1>6 DEF Inv, TypeOK
    <3> QED BY <3>1 DEF Exists, Open, InStatus
  <2> QED BY <2>1, <2>2
<1>13. ProcessedEventsResolve'
  <2> SUFFICES ASSUME NEW e \in Event, event'[e] = "processed"
               PROVE  Exists(e[1])' /\ ~Open(e[1])'
    BY DEF ProcessedEventsResolve
  <2>1. e[1] \in Ref /\ Exists(e[1]) /\ ~Open(e[1])
    BY DEF Inv, ProcessedEventsResolve, Resolve, Event
  <2> QED BY <2>1, <1>12 DEF Advances
<1>14. \A v \in Worker \ {w} : pc'[v] = pc[v] /\ job'[v] = job[v]
  BY DEF Resolve, Resolved, GoTo, End, Inv, TypeOK
<1>15. (pc'[w] = "idle" \/ (pc'[w] = "processed" /\ job'[w] = j))
  BY DEF Resolve, Resolved, GoTo, End, Inv, TypeOK
<1>16. RequestInv(w)'
  <2>1. CASE pc'[w] = "idle"
    BY <2>1 DEF RequestInv, HoldSteps, InsertedSteps, ResolvingSteps, FoundSteps
  <2>2. CASE pc'[w] = "processed" /\ job'[w] = j
    BY <2>2, <1>3, <1>10 DEF RequestInv, Exists, Open, InStatus,
       HoldSteps, InsertedSteps, ResolvingSteps, FoundSteps
  <2> QED BY <1>15, <2>1, <2>2
<1>17. pc'[w] \notin InsertedSteps BY <1>15 DEF InsertedSteps
<1>18. \A v \in Worker \ {w} : pc[v] \in InsertedSteps =>
         transfer'[job[v].ref] = transfer[job[v].ref]
  <2> SUFFICES ASSUME NEW v \in Worker \ {w}, pc[v] \in InsertedSteps
               PROVE  transfer'[job[v].ref] = transfer[job[v].ref]
    OBVIOUS
  <2>1. job[v].ref \in Ref /\ ~Exists(job[v].ref) BY Alone
  <2>2. job[v].ref # j.ref BY <2>1, <1>3
  <2> QED BY <2>1, <2>2, <1>6 DEF Inv, TypeOK
<1> QED BY <1>11, <1>12, <1>13, <1>14, <1>16, <1>17, <1>18, Frame

\* An event is marked processed only by a request that has seen its transfer
\* resolved.
LEMMA MarkKeeps ==
  ASSUME Inv, NEW w \in Worker, Mark(w)
  PROVE  Inv'
<1>1. DEFINE r == job[w].ref
             s == job[w].target
<1>2. pc[w] \in ResolvingSteps BY DEF Mark, ResolvingSteps
<1>3. r \in Ref /\ s \in Outcome /\ RequestInv(w) BY <1>2, ResolutionJob
<1>4. event' = [event EXCEPT ![<<r, s>>] = pc[w]]
      /\ UNCHANGED <<wallet, transfer, posted, provider>> /\ End(w)
  BY DEF Mark
<1>5. pc[w] \in {"processed", "ignored", "unmatched"} BY DEF Mark
<1>6. <<r, s>> \in Event BY <1>3 DEF Event
<1>7. TypeOK' BY <1>4, <1>5, <1>6 DEF End, provider, Inv, TypeOK, Steps
<1>8. ProcessedEventsResolve'
  <2> SUFFICES ASSUME NEW e \in Event, event'[e] = "processed"
               PROVE  transfer'[e[1]] # NoTransfer /\ ~Open(e[1])'
    BY DEF ProcessedEventsResolve, Exists
  <2>1. CASE e = <<r, s>>
    <3>1. pc[w] = "processed" BY <2>1, <1>4, <1>6 DEF Inv, TypeOK
    <3>2. transfer[r] # NoTransfer /\ ~Open(r) BY <3>1, <1>3 DEF RequestInv, Exists
    <3>3. e[1] = r BY <2>1
    <3>4. transfer'[e[1]] # NoTransfer /\ transfer'[e[1]].status # "pending"
          /\ transfer'[e[1]].status # "processing"
      BY <3>2, <3>3, <1>4 DEF Open, InStatus, Exists
    <3> QED BY <3>4 DEF Open, InStatus
  <2>2. CASE e # <<r, s>>
    <3>1. event[e] = "processed" BY <2>2, <1>4 DEF Inv, TypeOK
    <3> QED BY <3>1, <1>4 DEF Inv, ProcessedEventsResolve, Exists, Open, InStatus
  <2> QED BY <2>1, <2>2
<1>9. RequestInv(w)'
  BY <1>4 DEF End, Inv, TypeOK, RequestInv, HoldSteps, ResolvingSteps, InsertedSteps, FoundSteps
<1>10. \A v \in Worker \ {w} : pc'[v] = pc[v] /\ job'[v] = job[v]
  BY <1>4 DEF End, Inv, TypeOK
<1>11. pc'[w] \notin InsertedSteps BY <1>4 DEF End, Inv, TypeOK, InsertedSteps
<1>12. Advances BY <1>4 DEF Advances, Exists, Open, InStatus
<1> QED BY <1>4, <1>7, <1>8, <1>9, <1>10, <1>11, <1>12, Frame

-----------------------------------------------------------------------------
(* The whole system.                                                       *)

LEMMA ConcludeKeeps ==
  ASSUME Inv, NEW r \in Ref, Conclude(r)
  PROVE  Inv'
<1>1. UNCHANGED <<tables, lock, dispatched, pc, job>>
      /\ upstream' \in [Ref -> {"none", "accepted", "paid", "refused"}]
  BY DEF Conclude, Inv, TypeOK
<1>2. TypeOK' BY <1>1 DEF Inv, TypeOK, tables
<1> QED BY <1>1, <1>2 DEF Inv, SlotInv, RequestInv, ProcessedEventsResolve, Exists, Open,
       InStatus, tables

LEMMA StepKeeps ==
  ASSUME Inv, NEW w \in Worker, Start(w) \/ Step(w) \/ Rollback(w)
  PROVE  Inv'
<1>1. CASE Start(w)
  BY <1>1, StartHoldKeeps, StartSimulationKeeps, StartWebhookKeeps DEF Start
<1>2. CASE Step(w)
  BY <1>2, LockSourceKeeps, CheckHoldKeeps, InsertKeeps, DispatchKeeps, RefuseKeeps,
     LoseCallKeeps, AnswerKeeps, CommitKeeps, LocateKeeps, ReadTransferKeeps,
     ReadAccountKeeps, ResolveKeeps, MarkKeeps DEF Step
<1>3. CASE Rollback(w)
  BY <1>3, EndStep DEF Rollback, Fail
<1> QED BY <1>1, <1>2, <1>3

LEMMA NextKeeps == Inv /\ [Next]_vars => Inv'
<1> SUFFICES ASSUME Inv, [Next]_vars PROVE Inv'
  OBVIOUS
<1>1. CASE UNCHANGED vars
  BY <1>1 DEF vars, tables, provider, Inv, TypeOK, SlotInv, RequestInv,
     ProcessedEventsResolve, Exists, Open, InStatus
<1>2. CASE Next BY <1>2, StepKeeps, ConcludeKeeps DEF Next
<1> QED BY <1>1, <1>2

LEMMA InvHolds == Spec => []Inv
BY InitInv, NextKeeps, PTL DEF Spec

\* Every value the service keeps has its type, under every fault.
THEOREM TypeCorrect == Spec => []TypeOK
<1>1. Inv => TypeOK BY DEF Inv
<1> QED BY <1>1, InvHolds, PTL

\* However webhooks, simulations and holds interleave and wherever they are lost,
\* a webhook event marked processed belongs to a transfer that is resolved.
THEOREM ProcessedEventsAreResolved == Spec => []ProcessedEventsResolve
<1>1. Inv => ProcessedEventsResolve BY DEF Inv
<1> QED BY <1>1, InvHolds, PTL

-----------------------------------------------------------------------------
(* One webhook or simulation at a time.                                    *)

OneResolver == \A v, w \in Resolver : v = w

\* A resolution that has found its transfer open still finds it open.
FoundOpen(w) == pc[w] \in {"reading", "posting"} => Open(job[w].ref)

PostingInv == PostingsMatchStatus /\ \A w \in Worker : FoundOpen(w)

LEMMA InitPosting == Init => PostingInv
BY DEF Init, PostingInv, PostingsMatchStatus, FoundOpen, Exists, InStatus

\* A step of request w that posts nothing and changes no transfer.
LEMMA QuietStep ==
  ASSUME PostingInv, NEW w \in Worker, UNCHANGED <<transfer, posted>>,
         \A v \in Worker \ {w} : pc'[v] = pc[v] /\ job'[v] = job[v],
         pc'[w] \in {"reading", "posting"} => Open(job'[w].ref)
  PROVE  PostingInv'
<1>1. PostingsMatchStatus' BY DEF PostingInv, PostingsMatchStatus, Exists, InStatus
<1>2. ASSUME NEW v \in Worker PROVE FoundOpen(v)'
  <2>1. CASE v = w BY <2>1 DEF FoundOpen, Open, InStatus, Exists
  <2>2. CASE v # w BY <2>2 DEF PostingInv, FoundOpen, Open, InStatus, Exists
  <2> QED BY <2>1, <2>2
<1> QED BY <1>1, <1>2 DEF PostingInv

\* The commit of a hold: its reference had no journal, and now has those of the
\* status it commits.
LEMMA CommitPosts ==
  ASSUME Inv, PostingInv, NEW w \in Worker, Commit(w)
  PROVE  PostingInv'
<1>1. DEFINE r == job[w].ref
             s == job[w].target
             row == [from |-> job[w].from, amount |-> job[w].amount, status |-> s]
<1>2. pc[w] \in InsertedSteps BY DEF Commit, At, InsertedSteps
<1>3. job[w] \in Hold /\ r \in Ref /\ ~Exists(r) BY <1>2, Alone
<1>4. row \in Transfer /\ row # NoTransfer BY <1>3, DistinctAssumption DEF Hold, Transfer
<1>5. transfer' = [transfer EXCEPT ![r] = row] BY DEF Commit
<1>6. posted[r] = [hold |-> 0, settle |-> 0, release |-> 0]
  BY <1>3 DEF PostingInv, PostingsMatchStatus, InStatus
<1>7. row.status = s OBVIOUS
<1> HIDE DEF row
<1>8. transfer'[r] = row BY <1>3, <1>5 DEF Inv, TypeOK
<1>9. posted'[r] = [hold    |-> 1,
                    settle  |-> IF s = "successful" THEN 1 ELSE 0,
                    release |-> IF s = "failed" THEN 1 ELSE 0]
  <2> DEFINE n == IF s = "successful" THEN 1 ELSE 0
             m == IF s = "failed" THEN 1 ELSE 0
  <2>1. n \in Nat /\ m \in Nat OBVIOUS
  <2>2. Post(r, 1, n, m) BY DEF Commit, Releases
  <2> HIDE DEF n, m, r
  <2>3. posted \in [Ref -> Postings] /\ r \in Ref BY <1>3 DEF Inv, TypeOK
  <2>4. posted'[r] = [hold    |-> posted[r].hold + 1,
                      settle  |-> posted[r].settle + n,
                      release |-> posted[r].release + m]
    BY <2>2, <2>3 DEF Post, Postings
  <2>5. posted[r].hold = 0 /\ posted[r].settle = 0 /\ posted[r].release = 0 BY <1>6
  <2>6. posted'[r] = [hold |-> 1, settle |-> n, release |-> m]
    BY <2>1, <2>4, <2>5
  <2> QED BY <2>6 DEF n, m
<1>10. ASSUME NEW q \in Ref, q # r
       PROVE  transfer'[q] = transfer[q] /\ posted'[q] = posted[q]
  BY <1>3, <1>5, <1>10 DEF Commit, Post, Inv, TypeOK
<1>11. PostingsMatchStatus'
  <2> SUFFICES ASSUME NEW q \in Ref
        PROVE  posted'[q] =
          [hold    |-> IF transfer'[q] # NoTransfer THEN 1 ELSE 0,
           settle  |-> IF transfer'[q] # NoTransfer /\ transfer'[q].status = "successful"
                       THEN 1 ELSE 0,
           release |-> IF transfer'[q] # NoTransfer /\ transfer'[q].status = "failed"
                       THEN 1 ELSE 0]
    BY DEF PostingsMatchStatus, Exists, InStatus
  <2>1. CASE q = r BY <2>1, <1>4, <1>7, <1>8, <1>9
  <2>2. CASE q # r
    BY <2>2, <1>10 DEF PostingInv, PostingsMatchStatus, Exists, InStatus
  <2> QED BY <2>1, <2>2
<1>12. ASSUME NEW v \in Worker PROVE FoundOpen(v)'
  <2>1. CASE v = w
    BY <2>1 DEF FoundOpen, Commit, End, Inv, TypeOK
  <2>2. CASE v # w
    <3>1. pc'[v] = pc[v] /\ job'[v] = job[v] BY <2>2 DEF Commit, End, Inv, TypeOK
    <3> SUFFICES ASSUME pc[v] \in {"reading", "posting"} PROVE Open(job[v].ref)'
      BY <3>1 DEF FoundOpen
    <3>2. Open(job[v].ref) BY DEF PostingInv, FoundOpen
    <3>3. pc[v] \in ResolvingSteps BY DEF ResolvingSteps, FoundSteps
    <3>4. job[v].ref \in Ref /\ job[v].ref # r
      BY <1>3, <3>2, <3>3, ResolutionJob DEF Open, InStatus
    <3>5. transfer'[job[v].ref] = transfer[job[v].ref] BY <1>10, <3>4
    <3> QED BY <3>1, <3>2, <3>5 DEF Open, InStatus, Exists
  <2> QED BY <2>1, <2>2
<1> QED BY <1>11, <1>12 DEF PostingInv

\* A resolution posts once: nobody else can have resolved what it found open.
LEMMA ResolvePosts ==
  ASSUME OneResolver, Inv, PostingInv, NEW w \in Worker, Resolve(w)
  PROVE  PostingInv'
<1>1. DEFINE r == job[w].ref
             s == job[w].target
             row == [transfer[r] EXCEPT !.status = s]
<1>2. pc[w] \in ResolvingSteps BY DEF Resolve, At, ResolvingSteps, FoundSteps
<1>3. r \in Ref /\ s \in Outcome /\ w \in Resolver BY <1>2, ResolutionJob
<1>4. Exists(r) /\ Open(r)
  BY DEF Resolve, At, PostingInv, FoundOpen, Open, InStatus
<1>5. transfer[r] \in Transfer BY <1>3, <1>4 DEF Exists, Inv, TypeOK
<1>6. row \in Transfer /\ row.status = s /\ row # NoTransfer
  BY <1>3, <1>5, DistinctAssumption DEF Transfer, Outcome, Status
<1>7. transfer' = [transfer EXCEPT ![r] = row] BY <1>3 DEF Resolve, Inv, TypeOK
<1>8. posted[r] = [hold |-> 1, settle |-> 0, release |-> 0]
  BY <1>3, <1>4 DEF PostingInv, PostingsMatchStatus, Open, InStatus
<1> HIDE DEF row
<1>9. transfer'[r] = row BY <1>3, <1>7 DEF Inv, TypeOK
<1>10. posted'[r] = [hold    |-> 1,
                     settle  |-> IF s = "successful" THEN 1 ELSE 0,
                     release |-> IF s = "failed" THEN 1 ELSE 0]
  BY <1>3, <1>8 DEF Resolve, Post, Outcome, Inv, TypeOK, Postings
<1>11. ASSUME NEW q \in Ref, q # r
       PROVE  transfer'[q] = transfer[q] /\ posted'[q] = posted[q]
  BY <1>3, <1>7, <1>11 DEF Resolve, Post, Inv, TypeOK
<1>12. PostingsMatchStatus'
  <2> SUFFICES ASSUME NEW q \in Ref
        PROVE  posted'[q] =
          [hold    |-> IF transfer'[q] # NoTransfer THEN 1 ELSE 0,
           settle  |-> IF transfer'[q] # NoTransfer /\ transfer'[q].status = "successful"
                       THEN 1 ELSE 0,
           release |-> IF transfer'[q] # NoTransfer /\ transfer'[q].status = "failed"
                       THEN 1 ELSE 0]
    BY DEF PostingsMatchStatus, Exists, InStatus
  <2>1. CASE q = r BY <2>1, <1>6, <1>9, <1>10
  <2>2. CASE q # r
    BY <2>2, <1>11 DEF PostingInv, PostingsMatchStatus, Exists, InStatus
  <2> QED BY <2>1, <2>2
<1>13. ASSUME NEW v \in Worker PROVE FoundOpen(v)'
  <2>1. CASE v = w
    BY <2>1 DEF FoundOpen, Resolve, Resolved, GoTo, End, Inv, TypeOK
  <2>2. CASE v # w
    <3>1. pc'[v] = pc[v] BY <2>2 DEF Resolve, Resolved, GoTo, End, Inv, TypeOK
    <3>2. pc[v] \notin ResolvingSteps BY <1>3, <2>2, ResolutionJob DEF OneResolver
    <3> QED BY <3>1, <3>2 DEF FoundOpen, ResolvingSteps, FoundSteps
  <2> QED BY <2>1, <2>2
<1> QED BY <1>12, <1>13 DEF PostingInv

LEMMA PostingKeeps ==
  ASSUME OneResolver, Inv, PostingInv, [Next]_vars
  PROVE  PostingInv'
<1>1. CASE UNCHANGED vars
  BY <1>1 DEF vars, tables, PostingInv, PostingsMatchStatus, FoundOpen, Exists, Open, InStatus
<1>2. ASSUME NEW r \in Ref, Conclude(r) PROVE PostingInv'
  BY <1>2 DEF Conclude, tables, PostingInv, PostingsMatchStatus, FoundOpen, Exists, Open, InStatus
<1>3. ASSUME NEW w \in Worker, Start(w) PROVE PostingInv'
  <2>1. UNCHANGED <<transfer, posted>>
    BY <1>3 DEF Start, StartHold, StartWebhook, StartSimulation, tables
  <2>2. pc'[w] \notin {"reading", "posting"}
        /\ \A v \in Worker \ {w} : pc'[v] = pc[v] /\ job'[v] = job[v]
    BY <1>3 DEF Start, StartHold, StartWebhook, StartSimulation, Begin, Inv, TypeOK
  <2> QED BY <2>1, <2>2, QuietStep
<1>4. ASSUME NEW w \in Worker, End(w), UNCHANGED <<transfer, posted>> PROVE PostingInv'
  <2>1. pc'[w] = "idle" /\ \A v \in Worker \ {w} : pc'[v] = pc[v] /\ job'[v] = job[v]
    BY <1>4 DEF End, Inv, TypeOK
  <2> QED BY <2>1, <1>4, QuietStep
<1>5. ASSUME NEW w \in Worker, NEW step \in Steps \ {"reading", "posting"}, GoTo(w, step),
             UNCHANGED <<transfer, posted, job>>
      PROVE  PostingInv'
  <2>1. pc'[w] = step /\ \A v \in Worker \ {w} : pc'[v] = pc[v] /\ job'[v] = job[v]
    BY <1>5 DEF GoTo, Inv, TypeOK
  <2> QED BY <2>1, <1>5, QuietStep
<1>6. ASSUME NEW w \in Worker, LockSource(w) \/ CheckHold(w) \/ Insert(w) \/ Dispatch(w)
      PROVE  PostingInv'
  <2>1. UNCHANGED <<transfer, posted>>
    BY <1>6 DEF LockSource, CheckHold, Insert, Dispatch, tables
  <2>2. \/ End(w)
        \/ \E step \in {"checking", "inserting", "calling", "answer"} :
             GoTo(w, step) /\ UNCHANGED job
    BY <1>6 DEF LockSource, CheckHold, Insert, Dispatch
  <2> QED BY <2>1, <2>2, <1>4, <1>5 DEF Steps
<1>7. ASSUME NEW w \in Worker, Refuse(w) \/ LoseCall(w) \/ Answer(w)
      PROVE  PostingInv'
  <2>1. PICK s \in Status : Commits(w, s)
    BY <1>7 DEF Refuse, LoseCall, Answer, StatusAfter, Status
  <2>2. UNCHANGED <<transfer, posted>> /\ pc'[w] = "committing"
        /\ \A v \in Worker \ {w} : pc'[v] = pc[v] /\ job'[v] = job[v]
    BY <2>1 DEF Commits, GoTo, tables, Inv, TypeOK
  <2> QED BY <2>2, QuietStep
<1>8. ASSUME NEW w \in Worker, Locate(w) PROVE PostingInv'
  <2>1. \E step \in {"unmatched", "resolving", "processed", "ignored"} : GoTo(w, step)
    BY <1>8 DEF Locate
  <2>2. UNCHANGED <<transfer, posted, job>> BY <1>8 DEF Locate, tables
  <2> QED BY <2>1, <2>2, <1>5 DEF Steps
<1>9. ASSUME NEW w \in Worker, ReadTransfer(w) PROVE PostingInv'
  <2>1. UNCHANGED <<transfer, posted>> BY <1>9 DEF ReadTransfer, tables
  <2>2. CASE ~Open(job[w].ref)
    <3>1. Resolved(w) BY <1>9, <2>2 DEF ReadTransfer
    <3>2. End(w) \/ (GoTo(w, "processed") /\ UNCHANGED job) BY <3>1 DEF Resolved
    <3> QED BY <2>1, <3>2, <1>4, <1>5 DEF Steps
  <2>3. CASE Open(job[w].ref)
    <3>1. job' = job /\ \A v \in Worker \ {w} : pc'[v] = pc[v]
      BY <1>9, <2>3 DEF ReadTransfer, GoTo, Inv, TypeOK
    <3> QED BY <2>1, <2>3, <3>1, QuietStep
  <2> QED BY <2>2, <2>3
<1>10. ASSUME NEW w \in Worker, ReadAccount(w) PROVE PostingInv'
  <2>1. UNCHANGED <<transfer, posted>> BY <1>10 DEF ReadAccount, tables
  <2>2. Open(job[w].ref) BY <1>10 DEF ReadAccount, At, PostingInv, FoundOpen
  <2>3. pc[w] \in ResolvingSteps
    BY <1>10 DEF ReadAccount, At, ResolvingSteps, FoundSteps
  <2>4. job[w] \in Resolution BY <2>3, ResolutionJob
  <2>5. job'[w].ref = job[w].ref BY <1>10, <2>4 DEF ReadAccount, Resolution, Inv, TypeOK
  <2>6. \A v \in Worker \ {w} : pc'[v] = pc[v] /\ job'[v] = job[v]
    BY <1>10 DEF ReadAccount, GoTo, Inv, TypeOK
  <2> QED BY <2>1, <2>2, <2>5, <2>6, QuietStep
<1>11. ASSUME NEW w \in Worker, Mark(w) \/ Rollback(w) PROVE PostingInv'
  BY <1>11, <1>4 DEF Mark, Rollback, Fail, tables
<1> QED BY <1>1, <1>2, <1>3, <1>6, <1>7, <1>8, <1>9, <1>10, <1>11, CommitPosts, ResolvePosts
    DEF Next, Step

\* As long as webhooks and simulations come one at a time, the journals of a
\* transfer tell its status: money held is settled once or given back once, never
\* both, whatever holds are in flight and wherever a request is lost.
THEOREM PostingsTellStatus ==
  ASSUME OneResolver
  PROVE  Spec => []PostingsMatchStatus
<1>1. Inv /\ PostingInv /\ [Next]_vars => PostingInv' BY PostingKeeps
<1>2. PostingInv => PostingsMatchStatus BY DEF PostingInv
<1> QED BY <1>1, <1>2, InitPosting, InvHolds, PTL DEF Spec

-----------------------------------------------------------------------------
(* What a wallet's ledger account holds.                                   *)

CheckedSteps == {"inserting"} \cup InsertedSteps

\* The balances of all wallets.
Balances == [a \in Wallet |-> Balance(a)]

\* A hold keeps its wallet's row locked from the moment it looks at the balance,
\* which suffices for it until it commits.
FundsChecked(w) ==
  /\ pc[w] \in {"checking"} \cup CheckedSteps => lock[job[w].from] = w
  /\ pc[w] \in CheckedSteps => Balances[job[w].from] >= job[w].amount

\* Nothing is posted for a reference before its transfer is committed.
Unposted == \A r \in Ref : ~Exists(r) => posted[r].hold = 0 /\ posted[r].release = 0

Committed == {r \in Ref : Exists(r)}

FundsInv ==
  IsFiniteSet(Committed) /\ Unposted /\ NoOverdraft /\ \A w \in Worker : FundsChecked(w)

\* The terms of the sum a balance is made of are integers.
LEMMA HoldingType ==
  ASSUME TypeOK, IsFiniteSet(Committed), NEW a \in Wallet
  PROVE  /\ From(a) \subseteq Ref /\ IsFiniteSet(From(a))
         /\ DOMAIN Holding(a) = From(a)
         /\ \A r \in From(a) :
              /\ transfer[r].amount \in Nat
              /\ posted[r].hold \in Nat /\ posted[r].release \in Nat
              /\ Holding(a)[r] = transfer[r].amount * (posted[r].hold - posted[r].release)
              /\ Holding(a)[r] \in Int
<1>1. From(a) \subseteq Committed BY DEF From, Committed
<1>2. IsFiniteSet(From(a)) BY <1>1, FS_Subset
<1>3. From(a) \subseteq Ref BY DEF From
<1>4. ASSUME NEW r \in From(a)
      PROVE  /\ transfer[r].amount \in Nat
             /\ posted[r].hold \in Nat /\ posted[r].release \in Nat
  BY AmountAssumption DEF From, Exists, TypeOK, Transfer, Postings
<1>5. \A x, y, z \in Nat : x * (y - z) \in Int OBVIOUS
<1> QED BY <1>2, <1>3, <1>4, <1>5 DEF Holding

LEMMA BalanceType ==
  ASSUME TypeOK, IsFiniteSet(Committed), NEW a \in Wallet
  PROVE  Balance(a) \in Int /\ Balance(a) = Opening[a] - SumFunctionOnSet(Holding(a), From(a))
<1>1. SumFunction(Holding(a)) = SumFunctionOnSet(Holding(a), From(a))
  BY HoldingType DEF SumFunction
<1>2. SumFunctionOnSet(Holding(a), From(a)) \in Int BY HoldingType, SumType
<1> QED BY <1>1, <1>2, OpeningAssumption DEF Balance

\* The same, in a form that holds of the next state as well.
BalanceFacts ==
  \A a \in Wallet :
    /\ IsFiniteSet(From(a))
    /\ \A r \in From(a) : Holding(a)[r] \in Int
    /\ Balance(a) \in Int
    /\ Balance(a) = Opening[a] - SumFunctionOnSet(Holding(a), From(a))

LEMMA BalancesAreSums == TypeOK /\ IsFiniteSet(Committed) => BalanceFacts
BY BalanceType, HoldingType DEF BalanceFacts

LEMMA InitFunds == Init => FundsInv
<1> SUFFICES ASSUME Init PROVE FundsInv
  OBVIOUS
<1>1. TypeOK BY InitInv DEF Inv
<1>2. Committed = {} BY DEF Init, Committed, Exists
<1>3. IsFiniteSet(Committed) BY <1>2, FS_EmptySet
<1>4. ASSUME NEW a \in Wallet PROVE Balance(a) >= 0
  <2>1. From(a) = {} BY <1>2 DEF From, Committed
  <2>2. Balance(a) = Opening[a] - 0 BY <1>1, <1>3, <2>1, BalanceType, SumEmpty
  <2> QED BY <2>2, OpeningAssumption
<1>5. Unposted BY DEF Init, Unposted
<1>6. \A w \in Worker : FundsChecked(w)
  BY DEF Init, FundsChecked, CheckedSteps, InsertedSteps
<1> QED BY <1>3, <1>4, <1>5, <1>6 DEF FundsInv, NoOverdraft

\* A step of request w that posts nothing and takes no lock another request holds.
LEMMA QuietFunds ==
  ASSUME FundsInv, NEW w \in Worker, UNCHANGED <<transfer, posted>>,
         \A v \in Worker \ {w} : pc'[v] = pc[v] /\ job'[v] = job[v],
         \A v \in Worker \ {w}, a \in Wallet : lock[a] = v => lock'[a] = v,
         \A v \in Worker \ {w} : pc[v] \in {"checking"} \cup CheckedSteps => job[v].from \in Wallet,
         FundsChecked(w)'
  PROVE  FundsInv'
<1>1. Committed' = Committed BY DEF Committed, Exists
<1>2. Unposted' BY DEF FundsInv, Unposted, Exists
<1>3. \A a : Balance(a)' = Balance(a) BY DEF Balance, Holding, From, Exists
<1>4. NoOverdraft' BY <1>3 DEF FundsInv, NoOverdraft
<1>5. Balances' = Balances BY <1>3 DEF Balances
<1>6. ASSUME NEW v \in Worker PROVE FundsChecked(v)'
  <2>1. CASE v = w BY <2>1
  <2>2. CASE v # w
    <3>1. FundsChecked(v) /\ pc'[v] = pc[v] /\ job'[v] = job[v] BY <2>2 DEF FundsInv
    <3>2. pc[v] \in {"checking"} \cup CheckedSteps => lock'[job[v].from] = v
      BY <2>2, <3>1 DEF FundsChecked
    <3> QED BY <1>5, <3>1, <3>2 DEF FundsChecked
  <2> QED BY <2>1, <2>2
<1> QED BY <1>1, <1>2, <1>4, <1>6 DEF FundsInv

\* A step of request w that posts nothing, and either keeps its job and the lock it
\* has, or is not one the wallet's funds matter to.
LEMMA HoldFunds ==
  ASSUME Inv, FundsInv, NEW w \in Worker, NEW step \in Steps,
         UNCHANGED <<transfer, posted>>,
         pc' = [pc EXCEPT ![w] = step],
         job' = [job EXCEPT ![w] = job'[w]],
         \/ /\ UNCHANGED lock
            /\ step \in CheckedSteps => /\ pc[w] \in CheckedSteps
                                       /\ job'[w].from = job[w].from
                                       /\ job'[w].amount = job[w].amount
            /\ step # "checking"
         \/ /\ lock' = [a \in Wallet |-> IF lock[a] = w THEN NoWorker ELSE lock[a]]
            /\ step = "idle"
  PROVE  FundsInv'
<1>1. \A v \in Worker \ {w} : pc'[v] = pc[v] /\ job'[v] = job[v] BY DEF Inv, TypeOK
<1>2. \A v \in Worker \ {w}, a \in Wallet : lock[a] = v => lock'[a] = v BY DEF Inv, TypeOK
<1>3. \A v \in Worker : pc[v] \in {"checking"} \cup CheckedSteps => job[v].from \in Wallet
  BY HoldJob DEF HoldSteps, CheckedSteps
<1>4. \A a : Balance(a)' = Balance(a) BY DEF Balance, Holding, From, Exists
<1>5. Balances' = Balances BY <1>4 DEF Balances
<1>6. pc'[w] = step BY DEF Inv, TypeOK
<1>7. FundsChecked(w)'
  <2>1. "idle" \notin {"checking"} \cup CheckedSteps BY DEF CheckedSteps, InsertedSteps
  <2> QED BY <1>5, <1>6, <2>1 DEF FundsInv, FundsChecked
<1> QED BY <1>1, <1>2, <1>3, <1>7, QuietFunds

LEMMA EndFunds ==
  ASSUME Inv, FundsInv, NEW w \in Worker, End(w), UNCHANGED <<transfer, posted>>
  PROVE  FundsInv'
<1>1. job' = [job EXCEPT ![w] = job'[w]] BY DEF End, Inv, TypeOK
<1> QED BY <1>1, HoldFunds DEF End, Steps

\* The row is locked before the balance is looked at.
LEMMA LockFunds ==
  ASSUME Inv, FundsInv, NEW w \in Worker, LockSource(w)
  PROVE  FundsInv'
<1>1. pc[w] \in HoldSteps BY DEF LockSource, At, HoldSteps
<1>2. job[w].from \in Wallet BY <1>1, HoldJob
<1>3. /\ UNCHANGED <<transfer, posted, job>>
      /\ lock[job[w].from] = NoWorker /\ lock' = [lock EXCEPT ![job[w].from] = w]
      /\ pc' = [pc EXCEPT ![w] = "checking"]
  BY DEF LockSource, GoTo, tables
<1>4. pc'[w] = "checking" /\ \A v \in Worker \ {w} : pc'[v] = pc[v] /\ job'[v] = job[v]
  BY <1>3 DEF Inv, TypeOK
<1>5. lock'[job'[w].from] = w BY <1>2, <1>3 DEF Inv, TypeOK
<1>6. \A v \in Worker \ {w}, a \in Wallet : lock[a] = v => lock'[a] = v
  BY <1>3, WorkerAssumption DEF Inv, TypeOK
<1>7. \A v \in Worker : pc[v] \in {"checking"} \cup CheckedSteps => job[v].from \in Wallet
  BY HoldJob DEF HoldSteps, CheckedSteps
<1>8. FundsChecked(w)'
  BY <1>4, <1>5 DEF FundsChecked, CheckedSteps, InsertedSteps
<1> QED BY <1>3, <1>4, <1>6, <1>7, <1>8, QuietFunds

\* The balance is summed under the lock, and found to be enough.
LEMMA CheckFunds ==
  ASSUME Inv, FundsInv, NEW w \in Worker, CheckHold(w)
  PROVE  FundsInv'
<1>1. CASE End(w) BY <1>1, EndFunds DEF CheckHold, tables
<1>2. CASE ~End(w)
  <2>1. /\ GoTo(w, "inserting") /\ UNCHANGED <<tables, lock, job>>
        /\ Funds(w) >= job[w].amount /\ pc[w] = "checking"
    BY <1>2 DEF CheckHold, At
  <2>2. pc[w] \in HoldSteps /\ pc[w] \in {"checking"} \cup CheckedSteps
    BY <2>1 DEF HoldSteps
  <2>3. job[w].from \in Wallet BY <2>2, HoldJob
  <2>4. lock[job[w].from] = w BY <2>2 DEF FundsInv, FundsChecked
  <2>5. Balances[job[w].from] >= job[w].amount BY <2>1, <2>3 DEF Balances, Funds
  <2>6. \A a : Balance(a)' = Balance(a) BY <2>1 DEF Balance, Holding, From, Exists, tables
  <2>7. Balances' = Balances BY <2>6 DEF Balances
  <2>8. pc'[w] = "inserting" /\ \A v \in Worker \ {w} : pc'[v] = pc[v] /\ job'[v] = job[v]
    BY <2>1 DEF GoTo, Inv, TypeOK
  <2>9. FundsChecked(w)' BY <2>1, <2>4, <2>5, <2>7 DEF FundsChecked
  <2>10. \A v \in Worker : pc[v] \in {"checking"} \cup CheckedSteps => job[v].from \in Wallet
    BY HoldJob DEF HoldSteps, CheckedSteps
  <2> QED BY <2>1, <2>8, <2>9, <2>10, QuietFunds DEF tables
<1> QED BY <1>1, <1>2

\* A request that goes on with a balance it has already found enough, or needs none.
LEMMA GoOnFunds ==
  ASSUME Inv, FundsInv, NEW w \in Worker, NEW step \in Steps \ {"checking"}, GoTo(w, step),
         UNCHANGED <<transfer, posted, lock, job>>,
         step \in CheckedSteps => pc[w] \in CheckedSteps
  PROVE  FundsInv'
<1>1. job' = [job EXCEPT ![w] = job'[w]] BY DEF Inv, TypeOK
<1> QED BY <1>1, HoldFunds DEF GoTo

LEMMA CommitsFunds ==
  ASSUME Inv, FundsInv, NEW w \in Worker, pc[w] \in InsertedSteps, NEW s \in Status,
         Commits(w, s)
  PROVE  FundsInv'
<1>1. job[w] \in Hold BY Alone
<1>2. job' = [job EXCEPT ![w] = job'[w]] /\ job'[w].from = job[w].from
      /\ job'[w].amount = job[w].amount
  BY <1>1 DEF Commits, Inv, TypeOK, Hold
<1>3. UNCHANGED <<transfer, posted, lock>> /\ pc' = [pc EXCEPT ![w] = "committing"]
  BY DEF Commits, GoTo, tables
<1>4. "committing" \in Steps /\ "committing" # "checking" /\ pc[w] \in CheckedSteps
  BY DEF Steps, CheckedSteps
<1> QED BY <1>2, <1>3, <1>4, HoldFunds

\* A step of request w that takes nothing from wallets it has not locked.
LEMMA SpendFunds ==
  ASSUME Inv, FundsInv, NoOverdraft', BalanceFacts', IsFiniteSet(Committed)', Unposted',
         NEW w \in Worker,
         \A a \in Wallet : lock[a] # w => Balance(a)' >= Balance(a),
         \A v \in Worker \ {w} : pc'[v] = pc[v] /\ job'[v] = job[v],
         \A v \in Worker \ {w}, a \in Wallet : lock[a] = v => lock'[a] = v,
         pc'[w] \notin {"checking"} \cup CheckedSteps
  PROVE  FundsInv'
<1>1. \A a \in Wallet : Balance(a) \in Int /\ Balance(a)' \in Int
  BY BalanceType DEF FundsInv, Inv, BalanceFacts
<1>2. ASSUME NEW v \in Worker PROVE FundsChecked(v)'
  <2>1. CASE v = w BY <2>1 DEF FundsChecked
  <2>2. CASE v # w
    <3>1. pc'[v] = pc[v] /\ job'[v] = job[v] BY <2>2
    <3>2. pc[v] \in {"checking"} \cup CheckedSteps =>
             lock[job[v].from] = v /\ lock'[job[v].from] = v /\ job[v].from \in Wallet
             /\ job[v].amount \in Nat
      BY <2>2, HoldJob, AmountAssumption
      DEF HoldSteps, CheckedSteps, FundsInv, FundsChecked, Hold
    <3>3. ASSUME pc[v] \in CheckedSteps PROVE Balances'[job[v].from] >= job[v].amount
      <4>1. PICK a \in Wallet : a = job[v].from BY <3>2, <3>3
      <4>2. lock[a] # w BY <2>2, <3>2, <3>3, <4>1
      <4>3. Balances[a] >= job[v].amount /\ job[v].amount \in Nat
        BY <3>2, <3>3, <4>1 DEF FundsInv, FundsChecked
      <4>4. Balances[a] = Balance(a) /\ Balances'[a] = Balance(a)' BY DEF Balances
      <4>5. Balance(a)' >= Balance(a) /\ Balance(a) \in Int /\ Balance(a)' \in Int
        BY <1>1, <4>2
      <4>6. Balance(a)' >= job[v].amount BY <4>3, <4>4, <4>5
      <4> QED BY <4>1, <4>4, <4>6
    <3> QED BY <3>1, <3>2, <3>3 DEF FundsChecked
  <2> QED BY <2>1, <2>2
<1> QED BY <1>2 DEF FundsInv

\* What the commit of a hold does to the transfers and to the balances.
LEMMA CommitBalances ==
  ASSUME Inv, FundsInv, NEW w \in Worker, Commit(w), NEW j, j = job[w]
  PROVE  /\ j.ref \in Ref /\ j.from \in Wallet /\ j.amount \in Nat /\ j.target \in Status
         /\ ~Exists(j.ref) /\ Exists(j.ref)'
         /\ transfer'[j.ref] = [from |-> j.from, amount |-> j.amount, status |-> j.target]
         /\ \A q \in Ref \ {j.ref} : transfer'[q] = transfer[q]
         /\ IsFiniteSet(Committed)' /\ Unposted' /\ BalanceFacts /\ BalanceFacts'
         /\ \A a \in Wallet : From(a)' = IF a = j.from THEN From(a) \cup {j.ref} ELSE From(a)
         /\ \A a \in Wallet :
              Balance(a)' = Balance(a) - IF a = j.from /\ j.target # "failed"
                                         THEN j.amount ELSE 0
<1>0. PICK r, b, n, s : r = j.ref /\ b = j.from /\ n = j.amount /\ s = j.target
  OBVIOUS
<1>1. pc[w] \in InsertedSteps BY DEF Commit, At, InsertedSteps
<1>2. job[w] \in Hold /\ r \in Ref /\ ~Exists(r) BY <1>0, <1>1, Alone
<1>3. b \in Wallet /\ n \in Amount /\ n \in Nat /\ s \in Status
  BY <1>0, <1>2, AmountAssumption DEF Hold
<1> DEFINE row == [from |-> b, amount |-> n, status |-> s]
           m == IF s = "failed" THEN 1 ELSE 0
<1>4. row \in Transfer /\ row # NoTransfer
  <2>1. row \in Transfer BY <1>3 DEF Transfer
  <2> QED BY <2>1, DistinctAssumption
<1>5. transfer' = [transfer EXCEPT ![r] = row] BY <1>0, <1>3 DEF Commit
<1>6. row.from = b /\ row.amount = n OBVIOUS
<1>7. posted[r].hold = 0 /\ posted[r].release = 0 BY <1>2 DEF FundsInv, Unposted
<1>8. PICK k \in {0, 1} : Post(r, 1, k, m)
  BY <1>0 DEF Commit, Releases
<1>9. m \in {0, 1} OBVIOUS
<1> HIDE DEF m
<1>10. /\ posted'[r].hold = 1 /\ posted'[r].release = m
       /\ \A q \in Ref \ {r} : posted'[q] = posted[q]
  BY <1>2, <1>7, <1>8, <1>9 DEF Post, Inv, TypeOK, Postings
<1>11. Inv' BY CommitKeeps
<1> HIDE DEF row
<1>12. /\ transfer'[r] = row
       /\ \A q \in Ref \ {r} : transfer'[q] = transfer[q]
  BY <1>2, <1>5 DEF Inv, TypeOK
<1>13. Committed' = Committed \cup {r} /\ Exists(r)'
  BY <1>2, <1>4, <1>12 DEF Committed, Exists
<1>14. IsFiniteSet(Committed)' BY <1>13, FS_AddElement DEF FundsInv
<1>15. Unposted' BY <1>4, <1>10, <1>12 DEF Unposted, FundsInv, Exists
<1>16. ASSUME NEW a \in Wallet
       PROVE  /\ r \notin From(a)
              /\ From(a)' = IF a = b THEN From(a) \cup {r} ELSE From(a)
              /\ \A q \in From(a) : Holding(a)'[q] = Holding(a)[q]
  <2>1. r \notin From(a) BY <1>2 DEF From
  <2>2. From(a)' = IF a = b THEN From(a) \cup {r} ELSE From(a)
    BY <1>2, <1>4, <1>6, <1>12 DEF From, Exists
  <2>3. ASSUME NEW q \in From(a) PROVE Holding(a)'[q] = Holding(a)[q]
    <3>1. q \in Ref \ {r} /\ q \in From(a)' BY <2>1, <2>2 DEF From
    <3> QED BY <1>10, <1>12, <3>1 DEF Holding
  <2> QED BY <2>1, <2>2, <2>3
<1>17. BalanceFacts /\ BalanceFacts'
  <2>1. TypeOK /\ IsFiniteSet(Committed) /\ (TypeOK /\ IsFiniteSet(Committed))'
    BY <1>11, <1>14 DEF Inv, FundsInv
  <2> QED BY <2>1, BalancesAreSums, PTL
<1>18. n * (1 - m) = IF s # "failed" THEN n ELSE 0
  <2>1. n * (1 - 0) = n /\ n * (1 - 1) = 0 BY <1>3
  <2> QED BY <2>1 DEF m
<1>19. ASSUME NEW a \in Wallet
       PROVE  SumFunctionOnSet(Holding(a), From(a))' =
                SumFunctionOnSet(Holding(a), From(a)) + IF a = b THEN n * (1 - m) ELSE 0
  <2> DEFINE f == Holding(a)
             g == Holding(a)'
             F == From(a)
             G == From(a)'
  <2>1. IsFiniteSet(F) /\ IsFiniteSet(G) /\ (\A q \in F : f[q] \in Int)
        /\ (\A q \in G : g[q] \in Int)
    BY <1>17 DEF BalanceFacts
  <2>2. r \notin F /\ G = (IF a = b THEN F \cup {r} ELSE F) /\ \A q \in F : f[q] = g[q]
    BY <1>16
  <2>3. a = b => g[r] = n * (1 - m)
    <3>1. a = b => r \in From(a)' BY <1>16
    <3> QED BY <1>6, <1>10, <1>12, <3>1 DEF Holding
  <2>4. SumFunctionOnSet(Holding(a), From(a))' = SumFunctionOnSet(g, G) OBVIOUS
  <2> HIDE DEF f, g, F, G
  <2>5. SumFunctionOnSet(g, F) = SumFunctionOnSet(f, F) BY <2>1, <2>2, SumEqual
  <2>6. SumFunctionOnSet(f, F) \in Int BY <2>1, SumType
  <2>7. a = b => SumFunctionOnSet(g, G) = g[r] + SumFunctionOnSet(g, F)
    BY <2>1, <2>2, SumAdd
  <2>8. n * (1 - m) \in Int BY <1>3, <1>18
  <2>9. SumFunctionOnSet(g, G) = SumFunctionOnSet(f, F) + IF a = b THEN n * (1 - m) ELSE 0
    BY <2>2, <2>3, <2>5, <2>6, <2>7, <2>8
  <2> QED BY <2>4, <2>9 DEF f, F
<1>20. ASSUME NEW a \in Wallet
       PROVE  Balance(a)' = Balance(a) - IF a = b /\ s # "failed" THEN n ELSE 0
  <2>1. SumFunctionOnSet(Holding(a), From(a)) \in Int BY <1>17, SumType DEF BalanceFacts
  <2>2. Opening[a] \in Int BY OpeningAssumption
  <2>3. Balance(a)' = Opening[a] - SumFunctionOnSet(Holding(a), From(a))'
    BY <1>17 DEF BalanceFacts
  <2>4. Balance(a) = Opening[a] - SumFunctionOnSet(Holding(a), From(a))
    BY <1>17 DEF BalanceFacts
  <2> QED BY <1>3, <1>18, <1>19, <2>1, <2>2, <2>3, <2>4
<1>21. \A a \in Wallet : From(a)' = IF a = b THEN From(a) \cup {r} ELSE From(a)
  BY <1>16
<1>22. transfer'[r] = [from |-> b, amount |-> n, status |-> s]
  BY <1>12 DEF row
<1> QED BY <1>0, <1>2, <1>3, <1>12, <1>13, <1>14, <1>15, <1>17, <1>20, <1>21, <1>22

\* The commit of a hold takes what its request has found to be there.
LEMMA CommitFunds ==
  ASSUME Inv, FundsInv, NEW w \in Worker, Commit(w)
  PROVE  FundsInv'
<1>1. PICK j : j = job[w]
  OBVIOUS
<1>2. /\ j.from \in Wallet /\ j.amount \in Nat
      /\ IsFiniteSet(Committed)' /\ Unposted' /\ BalanceFacts /\ BalanceFacts'
      /\ \A a \in Wallet :
           Balance(a)' = Balance(a) - IF a = j.from /\ j.target # "failed"
                                      THEN j.amount ELSE 0
  BY <1>1, CommitBalances
<1>3. pc[w] \in CheckedSteps BY DEF Commit, At, CheckedSteps, InsertedSteps
<1>4. lock[j.from] = w /\ Balance(j.from) >= j.amount
  BY <1>1, <1>2, <1>3 DEF FundsInv, FundsChecked, Balances
<1>5. \A a \in Wallet : lock[a] # w => Balance(a)' >= Balance(a)
  BY <1>2, <1>4 DEF BalanceFacts
<1>6. NoOverdraft' BY <1>2, <1>4 DEF NoOverdraft, FundsInv, BalanceFacts
<1>7. \A v \in Worker \ {w} : pc'[v] = pc[v] /\ job'[v] = job[v]
  BY DEF Commit, End, Inv, TypeOK
<1>8. \A v \in Worker \ {w}, a \in Wallet : lock[a] = v => lock'[a] = v
  BY DEF Commit, End, Inv, TypeOK
<1>9. pc'[w] \notin {"checking"} \cup CheckedSteps
  BY DEF Commit, End, Inv, TypeOK, CheckedSteps, InsertedSteps
<1> QED BY <1>2, <1>5, <1>6, <1>7, <1>8, <1>9, SpendFunds

\* What a resolution does to the transfers and to the balances: settling leaves the
\* wallet's ledger account alone, releasing credits it.
LEMMA ResolveBalances ==
  ASSUME Inv, FundsInv, NEW w \in Worker, Resolve(w),
         NEW r, r = job[w].ref, NEW s, s = job[w].target,
         NEW b, b = transfer[r].from, NEW n, n = transfer[r].amount
  PROVE  /\ r \in Ref /\ b \in Wallet /\ n \in Nat /\ s \in Outcome /\ Exists(r) /\ Exists(r)'
         /\ transfer'[r].from = b /\ transfer'[r].amount = n /\ transfer'[r].status = s
         /\ \A q \in Ref \ {r} : transfer'[q] = transfer[q]
         /\ IsFiniteSet(Committed)' /\ Unposted' /\ BalanceFacts /\ BalanceFacts'
         /\ \A a \in Wallet : From(a)' = From(a)
         /\ \A a \in Wallet :
              Balance(a)' = Balance(a) + IF a = b /\ s = "failed" THEN n ELSE 0
<1> DEFINE row == [transfer[r] EXCEPT !.status = s]
           m == IF s = "failed" THEN 1 ELSE 0
<1>1. pc[w] \in ResolvingSteps /\ pc[w] \in FoundSteps
  BY DEF Resolve, At, ResolvingSteps, FoundSteps
<1>2. r \in Ref /\ Exists(r) /\ s \in Outcome
  BY <1>1, ResolutionJob DEF RequestInv
<1>3. transfer[r] \in Transfer BY <1>2 DEF Exists, Inv, TypeOK
<1>4. b \in Wallet /\ n \in Nat BY <1>3, AmountAssumption DEF Transfer
<1>5. /\ row \in Transfer /\ row # NoTransfer
      /\ row.from = b /\ row.amount = n /\ row.status = s
  BY <1>2, <1>3, DistinctAssumption DEF Transfer, Outcome, Status
<1>6. transfer' = [transfer EXCEPT ![r] = row] BY <1>2 DEF Resolve, Inv, TypeOK
<1>7. PICK k \in {0, 1} : Post(r, 0, k, m)
  BY <1>2 DEF Resolve, Outcome
<1>8. m \in {0, 1} OBVIOUS
<1>9. Inv' BY ResolveKeeps
<1> HIDE DEF row, m
<1>10. /\ posted'[r].hold = posted[r].hold /\ posted'[r].release = posted[r].release + m
       /\ \A q \in Ref \ {r} : posted'[q] = posted[q]
  BY <1>2, <1>7, <1>8 DEF Post, Inv, TypeOK, Postings
<1>11. /\ transfer'[r] = row
       /\ \A q \in Ref \ {r} : transfer'[q] = transfer[q]
  BY <1>2, <1>6 DEF Inv, TypeOK
<1>12. Committed' = Committed /\ Exists(r)' BY <1>2, <1>5, <1>11 DEF Committed, Exists
<1>13. IsFiniteSet(Committed)' BY <1>12 DEF FundsInv
<1>14. Unposted' BY <1>5, <1>10, <1>11 DEF Unposted, FundsInv, Exists
<1>15. BalanceFacts /\ BalanceFacts'
  <2>1. TypeOK /\ IsFiniteSet(Committed) /\ (TypeOK /\ IsFiniteSet(Committed))'
    BY <1>9, <1>13 DEF Inv, FundsInv
  <2> QED BY <2>1, BalancesAreSums, PTL
<1>16. ASSUME NEW a \in Wallet
       PROVE  /\ From(a)' = From(a) /\ (r \in From(a) <=> a = b)
              /\ \A q \in From(a) \ {r} : Holding(a)'[q] = Holding(a)[q]
              /\ a = b => Holding(a)'[r] - Holding(a)[r] = -(n * m)
  <2>1. From(a)' = From(a) /\ (r \in From(a) <=> a = b)
    BY <1>2, <1>5, <1>11 DEF From, Exists
  <2>2. ASSUME NEW q \in From(a) \ {r} PROVE Holding(a)'[q] = Holding(a)[q]
    <3>1. q \in Ref \ {r} /\ q \in From(a)' BY <2>1 DEF From
    <3> QED BY <1>10, <1>11, <3>1 DEF Holding
  <2>3. ASSUME a = b PROVE Holding(a)'[r] - Holding(a)[r] = -(n * m)
    <3>1. r \in From(a) /\ r \in From(a)' BY <2>1, <2>3
    <3>2. /\ Holding(a)[r] = n * (posted[r].hold - posted[r].release)
          /\ Holding(a)'[r] = n * (posted[r].hold - (posted[r].release + m))
      BY <1>5, <1>10, <1>11, <3>1 DEF Holding
    <3>3. PICK h \in Nat, t \in Nat : h = posted[r].hold /\ t = posted[r].release
      BY <1>2 DEF Inv, TypeOK, Postings
    <3>4. Holding(a)[r] = n * (h - t) /\ Holding(a)'[r] = n * (h - (t + m))
      BY <3>2, <3>3
    <3>5. n * (h - (t + m)) - n * (h - t) = -(n * m)
      <4>1. CASE m = 0 BY <1>4, <4>1
      <4>2. CASE m = 1 BY <1>4, <4>2
      <4> QED BY <1>8, <4>1, <4>2
    <3> QED BY <3>4, <3>5
  <2> QED BY <2>1, <2>2, <2>3
<1>17. n * m = IF s = "failed" THEN n ELSE 0
  <2>1. n * 1 = n /\ n * 0 = 0 BY <1>4
  <2> QED BY <2>1 DEF m
<1>18. ASSUME NEW a \in Wallet
       PROVE  Balance(a)' = Balance(a) + IF a = b /\ s = "failed" THEN n ELSE 0
  <2> DEFINE f == Holding(a)
             g == Holding(a)'
             F == From(a)
  <2>1. IsFiniteSet(F) /\ \A q \in F : g[q] \in Int /\ f[q] \in Int
    BY <1>15, <1>16 DEF BalanceFacts
  <2>2. /\ Balance(a) = Opening[a] - SumFunctionOnSet(f, F)
        /\ Balance(a)' = Opening[a] - SumFunctionOnSet(g, F)
    BY <1>15, <1>16 DEF BalanceFacts
  <2>3. /\ \A q \in F \ {r} : g[q] = f[q]
        /\ r \in F <=> a = b
        /\ a = b => g[r] - f[r] = -(n * m)
    BY <1>16
  <2>4. Opening[a] \in Int BY OpeningAssumption
  <2> HIDE DEF f, g, F
  <2>5. SumFunctionOnSet(g, F) \in Int /\ SumFunctionOnSet(f, F) \in Int BY <2>1, SumType
  <2>6. CASE a = b
    <3>1. SumFunctionOnSet(g, F) = SumFunctionOnSet(f, F) + (g[r] - f[r])
      BY <2>1, <2>3, <2>6, SumChange
    <3> QED BY <1>4, <1>17, <2>2, <2>3, <2>4, <2>5, <2>6, <3>1
  <2>7. CASE a # b
    <3>1. SumFunctionOnSet(g, F) = SumFunctionOnSet(f, F) BY <2>1, <2>3, <2>7, SumEqual
    <3> QED BY <2>2, <2>4, <2>5, <2>7, <3>1
  <2> QED BY <2>6, <2>7
<1> QED BY <1>2, <1>4, <1>5, <1>11, <1>12, <1>13, <1>14, <1>15, <1>16, <1>18

LEMMA ResolveFunds ==
  ASSUME Inv, FundsInv, NEW w \in Worker, Resolve(w)
  PROVE  FundsInv'
<1>1. PICK r, s : r = job[w].ref /\ s = job[w].target
  OBVIOUS
<1>2. PICK b, n : b = transfer[r].from /\ n = transfer[r].amount
  OBVIOUS
<1>3. /\ n \in Nat
      /\ IsFiniteSet(Committed)' /\ Unposted' /\ BalanceFacts /\ BalanceFacts'
      /\ \A a \in Wallet :
           Balance(a)' = Balance(a) + IF a = b /\ s = "failed" THEN n ELSE 0
  BY <1>1, <1>2, ResolveBalances
<1>4. \A a \in Wallet : Balance(a)' >= Balance(a) BY <1>3 DEF BalanceFacts
<1>5. NoOverdraft' BY <1>3, <1>4 DEF BalanceFacts, FundsInv, NoOverdraft
<1>6. \A v \in Worker \ {w} : pc'[v] = pc[v] /\ job'[v] = job[v]
  BY DEF Resolve, Resolved, GoTo, End, Inv, TypeOK
<1>7. \A v \in Worker \ {w}, a \in Wallet : lock[a] = v => lock'[a] = v
  BY DEF Resolve, Resolved, GoTo, End, Inv, TypeOK
<1>8. pc'[w] \notin {"checking"} \cup CheckedSteps
  BY DEF Resolve, Resolved, GoTo, End, Inv, TypeOK, CheckedSteps, InsertedSteps
<1> QED BY <1>3, <1>4, <1>5, <1>6, <1>7, <1>8, SpendFunds

LEMMA StepFunds ==
  ASSUME Inv, FundsInv, NEW w \in Worker, Start(w) \/ Step(w) \/ Rollback(w)
  PROVE  FundsInv'
<1>1. ASSUME Start(w) PROVE FundsInv'
  <2>1. PICK step \in {"source lock", "locate", "resolving"} :
          pc' = [pc EXCEPT ![w] = step] /\ UNCHANGED <<transfer, posted, lock>>
          /\ \E j : job' = [job EXCEPT ![w] = j]
    BY <1>1 DEF Start, StartHold, StartWebhook, StartSimulation, Begin, tables
  <2>2. job' = [job EXCEPT ![w] = job'[w]] BY <2>1 DEF Inv, TypeOK
  <2>3. step \in Steps /\ step \notin CheckedSteps /\ step # "checking"
    BY DEF Steps, CheckedSteps, InsertedSteps
  <2> QED BY <2>1, <2>2, <2>3, HoldFunds
<1>2. ASSUME Insert(w) PROVE FundsInv'
  <2>1. UNCHANGED <<transfer, posted>> /\ pc[w] \in CheckedSteps
    BY <1>2 DEF Insert, At, CheckedSteps, tables
  <2>2. End(w) \/ (GoTo(w, "calling") /\ UNCHANGED <<lock, job>>) BY <1>2 DEF Insert
  <2> QED BY <2>1, <2>2, EndFunds, GoOnFunds DEF Steps
<1>3. ASSUME Dispatch(w) PROVE FundsInv'
  <2>1. UNCHANGED <<transfer, posted, lock, job>> /\ pc[w] \in CheckedSteps
        /\ GoTo(w, "answer")
    BY <1>3 DEF Dispatch, At, CheckedSteps, InsertedSteps, tables
  <2> QED BY <2>1, GoOnFunds DEF Steps
<1>4. ASSUME Refuse(w) \/ LoseCall(w) \/ Answer(w) PROVE FundsInv'
  <2>1. pc[w] \in InsertedSteps BY <1>4 DEF Refuse, LoseCall, Answer, At, InsertedSteps
  <2>2. \E s \in Status : Commits(w, s)
    BY <1>4 DEF Refuse, LoseCall, Answer, StatusAfter, Status
  <2> QED BY <2>1, <2>2, CommitsFunds
<1>5. ASSUME Locate(w) PROVE FundsInv'
  <2>1. UNCHANGED <<transfer, posted, lock, job>>
        /\ \E step \in {"unmatched", "resolving", "processed", "ignored"} : GoTo(w, step)
    BY <1>5 DEF Locate, tables
  <2> QED BY <2>1, GoOnFunds DEF Steps, CheckedSteps, InsertedSteps
<1>6. ASSUME ReadTransfer(w) PROVE FundsInv'
  <2>1. UNCHANGED <<transfer, posted>> BY <1>6 DEF ReadTransfer, tables
  <2>2. \/ End(w)
        \/ \E step \in {"reading", "processed"} :
             GoTo(w, step) /\ UNCHANGED <<lock, job>>
    BY <1>6 DEF ReadTransfer, Resolved
  <2> QED BY <2>1, <2>2, EndFunds, GoOnFunds DEF Steps, CheckedSteps, InsertedSteps
<1>7. ASSUME ReadAccount(w) PROVE FundsInv'
  <2>1. UNCHANGED <<transfer, posted, lock>> /\ pc' = [pc EXCEPT ![w] = "posting"]
        /\ \E j : job' = [job EXCEPT ![w] = j]
    BY <1>7 DEF ReadAccount, GoTo, tables
  <2>2. job' = [job EXCEPT ![w] = job'[w]] BY <2>1 DEF Inv, TypeOK
  <2> QED BY <2>1, <2>2, HoldFunds DEF Steps, CheckedSteps, InsertedSteps
<1>8. ASSUME Mark(w) \/ Rollback(w) PROVE FundsInv'
  BY <1>8, EndFunds DEF Mark, Rollback, Fail, tables
<1> QED BY <1>1, <1>2, <1>3, <1>4, <1>5, <1>6, <1>7, <1>8, LockFunds, CheckFunds,
        CommitFunds, ResolveFunds DEF Step

LEMMA NextFunds == Inv /\ FundsInv /\ [Next]_vars => FundsInv'
<1> SUFFICES ASSUME Inv, FundsInv, [Next]_vars PROVE FundsInv'
  OBVIOUS
<1>1. ASSUME UNCHANGED <<transfer, posted, lock, pc, job>> PROVE FundsInv'
  <2>1. \A a : Balance(a)' = Balance(a) BY <1>1 DEF Balance, Holding, From, Exists
  <2>2. Balances' = Balances /\ Committed' = Committed
    BY <1>1, <2>1 DEF Balances, Committed, Exists
  <2> QED BY <1>1, <2>1, <2>2 DEF FundsInv, FundsChecked, Unposted, NoOverdraft, Exists
<1>2. ASSUME NEW r \in Ref, Conclude(r) PROVE FundsInv'
  BY <1>1, <1>2 DEF Conclude, tables
<1> QED BY <1>1, <1>2, StepFunds DEF Next, vars, tables

\* Whatever holds, webhooks and simulations are in flight and wherever they are lost,
\* a wallet's ledger account never goes below zero: a hold sums the journals under
\* the wallet's row lock and keeps it until it commits.
THEOREM WalletsAreNeverOverdrawn == Spec => []NoOverdraft
<1>1. FundsInv => NoOverdraft BY DEF FundsInv
<1> QED BY <1>1, InitFunds, NextFunds, InvHolds, PTL DEF Spec

-----------------------------------------------------------------------------
(* The escrow.                                                             *)

\* A commit takes from the wallet what its request has found to be there, for a
\* reference no transfer has.
LEMMA CommitHolds ==
  ASSUME Inv, FundsInv, NEW w \in Worker, Commit(w)
  PROVE  Escrow!Next
<1>1. PICK j : j = job[w]
  OBVIOUS
<1>2. PICK r, b, n, s : r = j.ref /\ b = j.from /\ n = j.amount /\ s = j.target
  OBVIOUS
<1>3. /\ r \in Ref /\ b \in Wallet /\ n \in Nat /\ s \in Status /\ ~Exists(r)
      /\ BalanceFacts /\ BalanceFacts'
      /\ \A a \in Wallet :
           Balance(a)' = Balance(a) - IF a = b /\ s # "failed" THEN n ELSE 0
  BY <1>1, <1>2, CommitBalances
<1>4. pc[w] \in InsertedSteps /\ pc[w] \in CheckedSteps
  BY DEF Commit, At, CheckedSteps, InsertedSteps
<1>5. n \in Amount BY <1>1, <1>2, <1>4, Alone DEF Hold
<1>6. transfer' = [transfer EXCEPT ![r] = [from |-> b, amount |-> n, status |-> s]]
  BY <1>1, <1>2 DEF Commit
<1>7. Balance(b) >= n BY <1>1, <1>2, <1>3, <1>4 DEF FundsInv, FundsChecked, Balances
<1>8. CASE s = "failed"
  <2>1. [a \in Wallet |-> Balance(a)]' = [a \in Wallet |-> Balance(a)]
    BY <1>3, <1>8 DEF BalanceFacts
  <2>2. Escrow!Refuse(r, b, n)
    BY <1>3, <1>6, <1>7, <1>8, <2>1 DEF Escrow!Refuse, Exists
  <2> QED BY <1>3, <1>5, <2>2 DEF Escrow!Next
<1>9. CASE s # "failed"
  <2>1. [a \in Wallet |-> Balance(a)]' = [[a \in Wallet |-> Balance(a)] EXCEPT ![b] = @ - n]
    <3>1. PICK f, g : /\ f = [a \in Wallet |-> Balance(a)]
                      /\ g = [a \in Wallet |-> Balance(a)]'
      OBVIOUS
    <3>2. \A a \in Wallet : Balance(a) \in Int BY <1>3 DEF BalanceFacts
    <3>3. \A a \in Wallet : f[a] \in Int /\ g[a] = f[a] - IF a = b THEN n ELSE 0
      BY <1>3, <1>9, <3>1, <3>2
    <3>4. n \in Nat BY <1>3
    <3>5. \A a \in Wallet : g[a] = IF a = b THEN f[a] - n ELSE f[a] BY <3>3, <3>4
    <3>6. g = [f EXCEPT ![b] = @ - n] BY <3>1, <3>5
    <3> QED BY <3>1, <3>6
  <2>2. s \in {"pending", "processing", "successful"} BY <1>3, <1>9 DEF Status
  <2>3. Escrow!Hold(r, b, n)
    BY <1>3, <1>6, <1>7, <2>1, <2>2 DEF Escrow!Hold, Exists
  <2> QED BY <1>3, <1>5, <2>3 DEF Escrow!Next
<1> QED BY <1>8, <1>9

\* A resolution ends a transfer that is still open.
LEMMA ResolveEnds ==
  ASSUME Inv, FundsInv, PostingInv, NEW w \in Worker, Resolve(w)
  PROVE  Escrow!Next
<1>1. PICK r, s : r = job[w].ref /\ s = job[w].target
  OBVIOUS
<1>2. PICK b, n : b = transfer[r].from /\ n = transfer[r].amount
  OBVIOUS
<1>3. /\ r \in Ref /\ b \in Wallet /\ n \in Nat /\ s \in Outcome /\ Exists(r)
      /\ BalanceFacts /\ BalanceFacts'
      /\ \A a \in Wallet : Balance(a)' = Balance(a) + IF a = b /\ s = "failed" THEN n ELSE 0
  BY <1>1, <1>2, ResolveBalances
<1>4. Escrow!IsOpen(transfer[r])
  BY <1>1 DEF Resolve, At, PostingInv, FoundOpen, Open, InStatus, Exists, Escrow!IsOpen
<1>5. transfer' = [transfer EXCEPT ![r].status = s] BY <1>1 DEF Resolve
<1>6. CASE s = "failed"
  <2>1. [a \in Wallet |-> Balance(a)]' = [[a \in Wallet |-> Balance(a)] EXCEPT ![b] = @ + n]
    <3>1. PICK f, g : /\ f = [a \in Wallet |-> Balance(a)]
                      /\ g = [a \in Wallet |-> Balance(a)]'
      OBVIOUS
    <3>2. \A a \in Wallet : Balance(a) \in Int BY <1>3 DEF BalanceFacts
    <3>3. \A a \in Wallet : f[a] \in Int /\ g[a] = f[a] + IF a = b THEN n ELSE 0
      BY <1>3, <1>6, <3>1, <3>2
    <3>4. n \in Nat BY <1>3
    <3>5. \A a \in Wallet : g[a] = IF a = b THEN f[a] + n ELSE f[a] BY <3>3, <3>4
    <3>6. g = [f EXCEPT ![b] = @ + n] BY <3>1, <3>5
    <3> QED BY <3>1, <3>6
  <2>2. Escrow!Release(r) BY <1>2, <1>4, <1>5, <1>6, <2>1 DEF Escrow!Release
  <2> QED BY <1>3, <2>2 DEF Escrow!Next
<1>7. CASE s = "successful"
  <2>1. [a \in Wallet |-> Balance(a)]' = [a \in Wallet |-> Balance(a)]
    BY <1>3, <1>7 DEF BalanceFacts
  <2>2. Escrow!Settle(r) BY <1>4, <1>5, <1>7, <2>1 DEF Escrow!Settle
  <2> QED BY <1>3, <2>2 DEF Escrow!Next
<1> QED BY <1>3, <1>6, <1>7 DEF Outcome

\* Every other step leaves the wallets, the transfers and the journals alone.
LEMMA QuietSteps ==
  ASSUME [Next]_vars, ~\E w \in Worker : Commit(w) \/ Resolve(w)
  PROVE  UNCHANGED <<wallet, transfer, posted>>
<1>1. CASE UNCHANGED vars BY <1>1 DEF vars, tables
<1>2. ASSUME NEW r \in Ref, Conclude(r) PROVE UNCHANGED <<wallet, transfer, posted>>
  BY <1>2 DEF Conclude, tables
<1>3. ASSUME NEW w \in Worker, Start(w) \/ Rollback(w) PROVE UNCHANGED <<wallet, transfer, posted>>
  BY <1>3 DEF Start, StartHold, StartWebhook, StartSimulation, Rollback, Fail, tables
<1>4. ASSUME NEW w \in Worker, Step(w) PROVE UNCHANGED <<wallet, transfer, posted>>
  <2>1. \/ LockSource(w) \/ CheckHold(w) \/ Insert(w) \/ Dispatch(w) \/ Refuse(w)
        \/ LoseCall(w) \/ Answer(w) \/ Locate(w) \/ ReadTransfer(w) \/ ReadAccount(w)
        \/ Mark(w)
    BY <1>4 DEF Step
  <2>2. CASE Refuse(w) \/ LoseCall(w) \/ Answer(w)
    BY <2>2 DEF Refuse, LoseCall, Answer, Commits, tables
  <2> QED BY <2>1, <2>2
    DEF LockSource, CheckHold, Insert, Dispatch, Locate, ReadTransfer, ReadAccount, Mark, tables
<1> QED BY <1>1, <1>2, <1>3, <1>4 DEF Next

\* Holding, settling and giving back are AtomicEscrow's, as long as webhooks and simulations
\* come one at a time: whatever holds overlap and wherever they are lost, each commit finds
\* the money it takes and the transfer it ends as it left them (initiateTransfer,
\* settleTransfer, reverseTransfer).
THEOREM HoldsAreEscrow ==
  ASSUME OneResolver
  PROVE  Spec => HoldsInEscrow
<1>1. Init => Escrow!Init
  <2> SUFFICES ASSUME Init PROVE Escrow!Init
    OBVIOUS
  <2>1. TypeOK /\ Committed = {} BY InitInv DEF Init, Inv, Committed, Exists
  <2>2. ASSUME NEW a \in Wallet PROVE Balance(a) = Opening[a]
    <3>1. IsFiniteSet(Committed) /\ From(a) = {} BY <2>1, FS_EmptySet DEF From, Committed
    <3>2. Balance(a) = Opening[a] - 0 BY <2>1, <3>1, BalanceType, SumEmpty
    <3> QED BY <3>2, OpeningAssumption
  <2>3. [a \in Wallet |-> Balance(a)] = Opening BY <2>2, OpeningAssumption
  <2> QED BY <2>3 DEF Init, Escrow!Init
<1>2. Inv /\ FundsInv /\ PostingInv /\ [Next]_vars
        => [Escrow!Next]_<<[a \in Wallet |-> Balance(a)], transfer>>
  <2> SUFFICES ASSUME Inv, FundsInv, PostingInv, [Next]_vars
        PROVE  Escrow!Next \/ UNCHANGED <<[a \in Wallet |-> Balance(a)], transfer>>
    OBVIOUS
  <2>1. CASE \E w \in Worker : Commit(w) \/ Resolve(w) BY <2>1, CommitHolds, ResolveEnds
  <2>2. CASE ~\E w \in Worker : Commit(w) \/ Resolve(w)
    <3>1. UNCHANGED <<transfer, posted>> BY <2>2, QuietSteps
    <3>2. \A a : Balance(a)' = Balance(a) BY <3>1 DEF Balance, Holding, From, Exists
    <3> QED BY <3>1, <3>2
  <2> QED BY <2>1, <2>2
<1>3. Inv /\ PostingInv /\ [Next]_vars => PostingInv' BY PostingKeeps
<1> QED BY <1>1, <1>2, <1>3, InitPosting, InitFunds, NextFunds, InvHolds, PTL
    DEF Spec, HoldsInEscrow, Escrow!Spec

-----------------------------------------------------------------------------
(* The cached balances, whatever overlaps.                                 *)

OpenFrom(a) == {q \in From(a) : Open(q)}

\* The reserved amounts are a sum of naturals.
ReservedFacts ==
  \A a \in Wallet :
    /\ IsFiniteSet(OpenFrom(a))
    /\ \A q \in OpenFrom(a) : Reserved(a)[q] = transfer[q].amount /\ Reserved(a)[q] \in Nat
    /\ SumFunction(Reserved(a)) = SumFunctionOnSet(Reserved(a), OpenFrom(a))
    /\ SumFunction(Reserved(a)) \in Int

LEMMA ReservedAreSums == TypeOK /\ IsFiniteSet(Committed) => ReservedFacts
<1> SUFFICES ASSUME TypeOK, IsFiniteSet(Committed), NEW a \in Wallet
    PROVE  /\ IsFiniteSet(OpenFrom(a))
           /\ \A q \in OpenFrom(a) :
                Reserved(a)[q] = transfer[q].amount /\ Reserved(a)[q] \in Nat
           /\ SumFunction(Reserved(a)) = SumFunctionOnSet(Reserved(a), OpenFrom(a))
           /\ SumFunction(Reserved(a)) \in Int
  BY DEF ReservedFacts
<1>1. OpenFrom(a) \subseteq From(a) BY DEF OpenFrom
<1>2. IsFiniteSet(OpenFrom(a)) BY <1>1, HoldingType, FS_Subset
<1>3. ASSUME NEW q \in OpenFrom(a)
      PROVE  Reserved(a)[q] = transfer[q].amount /\ Reserved(a)[q] \in Nat
  <2>1. transfer[q].amount \in Nat BY <1>1, HoldingType
  <2> QED BY <2>1 DEF Reserved, OpenFrom
<1>4. SumFunction(Reserved(a)) = SumFunctionOnSet(Reserved(a), OpenFrom(a))
  BY DEF SumFunction, Reserved, OpenFrom
<1>5. SumFunctionOnSet(Reserved(a), OpenFrom(a)) \in Int BY <1>2, <1>3, SumType
<1> QED BY <1>2, <1>3, <1>4, <1>5

\* A hold leaves its wallet the errors of the copy that it writes; no other wallet's change.
LEMMA CommitDrifts ==
  ASSUME Inv, FundsInv, NEW w \in Worker, Commit(w), NEW a \in Wallet
  PROVE  IF a = job[w].from
         THEN /\ AvailableError(wallet[a], a)' = AvailableError(job[w].seen, a)
              /\ PendingError(wallet[a], a)' = PendingError(job[w].seen, a)
         ELSE /\ AvailableError(wallet[a], a)' = AvailableError(wallet[a], a)
              /\ PendingError(wallet[a], a)' = PendingError(wallet[a], a)
<1>1. PICK j : j = job[w]
  OBVIOUS
<1>2. /\ j.ref \in Ref /\ j.from \in Wallet /\ j.amount \in Nat /\ j.target \in Status
      /\ ~Exists(j.ref) /\ Exists(j.ref)'
      /\ transfer'[j.ref] = [from |-> j.from, amount |-> j.amount, status |-> j.target]
      /\ \A q \in Ref \ {j.ref} : transfer'[q] = transfer[q]
      /\ IsFiniteSet(Committed)' /\ BalanceFacts
      /\ \A c \in Wallet : From(c)' = IF c = j.from THEN From(c) \cup {j.ref} ELSE From(c)
      /\ \A c \in Wallet :
           Balance(c)' = Balance(c) - IF c = j.from /\ j.target # "failed"
                                      THEN j.amount ELSE 0
  BY <1>1, CommitBalances
<1>3. pc[w] \in InsertedSteps BY DEF Commit, At, InsertedSteps
<1>4. j.seen.available \in Int /\ j.seen.pending \in Int
  BY <1>1, <1>3, Alone DEF Hold, Cached
<1>5. ReservedFacts /\ ReservedFacts'
  <2>1. TypeOK /\ IsFiniteSet(Committed) /\ (TypeOK /\ IsFiniteSet(Committed))'
    BY <1>2, CommitKeeps DEF Inv, FundsInv
  <2> QED BY <2>1, ReservedAreSums, PTL
<1>6. wallet' = [wallet EXCEPT ![j.from] =
        [available |-> IF j.target = "failed" THEN j.seen.available
                       ELSE j.seen.available - j.amount,
         pending |-> IF j.target \in Outcome THEN j.seen.pending
                     ELSE j.seen.pending + j.amount]]
  BY <1>1 DEF Commit
<1>7. /\ j.ref \notin OpenFrom(a)
      /\ OpenFrom(a)' = IF a = j.from /\ j.target \notin Outcome
                               THEN OpenFrom(a) \cup {j.ref} ELSE OpenFrom(a)
  <2>1. \A q \in Ref \ {j.ref} : Open(q)' <=> Open(q)
    BY <1>2 DEF Open, InStatus, Exists
  <2>2. Open(j.ref)' <=> j.target \notin Outcome
    BY <1>2 DEF Open, InStatus, Outcome, Status, Exists
  <2>3. j.ref \notin From(a) /\ From(a) \subseteq Ref BY <1>2 DEF From
  <2>4. OpenFrom(a)' = {q \in From(a)' : Open(q)'} BY DEF OpenFrom
  <2>5. From(a)' = IF a = j.from THEN From(a) \cup {j.ref} ELSE From(a) BY <1>2
  <2> QED BY <2>1, <2>2, <2>3, <2>4, <2>5 DEF OpenFrom
<1>8. SumFunction(Reserved(a))' =
        SumFunction(Reserved(a)) + IF a = j.from /\ j.target \notin Outcome
                                          THEN j.amount ELSE 0
  <2> DEFINE f == Reserved(a)
             g == Reserved(a)'
             F == OpenFrom(a)
             G == OpenFrom(a)'
  <2>1. /\ IsFiniteSet(F) /\ IsFiniteSet(G)
        /\ \A q \in F : f[q] = transfer[q].amount /\ f[q] \in Int
        /\ \A q \in G : g[q] = transfer'[q].amount /\ g[q] \in Int
        /\ SumFunction(Reserved(a)) = SumFunctionOnSet(f, F)
        /\ SumFunction(Reserved(a))' = SumFunctionOnSet(g, G)
    BY <1>5 DEF ReservedFacts
  <2>2. /\ j.ref \notin F
        /\ G = IF a = j.from /\ j.target \notin Outcome THEN F \cup {j.ref} ELSE F
        /\ \A q \in F : q \in Ref
    BY <1>7 DEF OpenFrom, From
  <2>3. \A q \in F : q \in G /\ q \in Ref \ {j.ref} BY <2>2
  <2>4. \A q \in F : f[q] = g[q] BY <1>2, <2>1, <2>3
  <2>5. j.ref \in G => g[j.ref] = j.amount BY <1>2, <2>1
  <2> HIDE DEF f, g, F, G
  <2>6. SumFunctionOnSet(g, F) = SumFunctionOnSet(f, F) /\ SumFunctionOnSet(f, F) \in Int
    BY <2>1, <2>4, SumEqual, SumType
  <2>7. CASE a = j.from /\ j.target \notin Outcome
    <3>1. SumFunctionOnSet(g, G) = g[j.ref] + SumFunctionOnSet(g, F)
      BY <2>1, <2>2, <2>3, <2>7, SumAdd
    <3> QED BY <1>2, <2>1, <2>2, <2>5, <2>6, <2>7, <3>1
  <2>8. CASE ~(a = j.from /\ j.target \notin Outcome)
    BY <2>1, <2>2, <2>6, <2>8
  <2> QED BY <2>7, <2>8
<1>9. Balance(a) \in Int /\ SumFunction(Reserved(a)) \in Int
  BY <1>2, <1>5 DEF BalanceFacts, ReservedFacts
<1>10. wallet \in [Wallet -> Cached] BY DEF Inv, TypeOK
<1>11. CASE a # j.from
  <2>1. wallet'[a] = wallet[a] BY <1>6, <1>10, <1>11
  <2>2. Balance(a)' = Balance(a) BY <1>2, <1>9, <1>11
  <2>3. SumFunction(Reserved(a))' = SumFunction(Reserved(a)) BY <1>8, <1>9, <1>11
  <2> QED BY <1>1, <1>11, <2>1, <2>2, <2>3 DEF AvailableError, PendingError
<1>12. CASE a = j.from
  <2>1. /\ wallet'[a].available = IF j.target = "failed" THEN j.seen.available
                                  ELSE j.seen.available - j.amount
        /\ wallet'[a].pending = IF j.target \in Outcome THEN j.seen.pending
                                ELSE j.seen.pending + j.amount
    BY <1>6, <1>10, <1>12
  <2>2. Balance(a)' = Balance(a) - IF j.target # "failed" THEN j.amount ELSE 0
    BY <1>2, <1>12
  <2>3. SumFunction(Reserved(a))' =
          SumFunction(Reserved(a)) + IF j.target \notin Outcome THEN j.amount ELSE 0
    BY <1>8, <1>12
  <2>4. wallet'[a].available - Balance(a)' = j.seen.available - Balance(a)
    BY <1>2, <1>4, <1>9, <2>1, <2>2
  <2>5. wallet'[a].pending - SumFunction(Reserved(a))' =
          j.seen.pending - SumFunction(Reserved(a))
    BY <1>2, <1>4, <1>9, <2>1, <2>3
  <2> QED BY <1>1, <1>12, <2>4, <2>5 DEF AvailableError, PendingError
<1> QED BY <1>1, <1>11, <1>12

\* A resolution leaves its wallet the errors of the copy that it writes, where it writes
\* one: settling leaves the available balance alone, and only the first resolution of a
\* transfer ends a reservation.
LEMMA ResolveDrifts ==
  ASSUME Inv, FundsInv, NEW w \in Worker, Resolve(w), NEW a \in Wallet
  PROVE  /\ \/ AvailableError(wallet[a], a)' = AvailableError(wallet[a], a)
            \/ /\ a = transfer[job[w].ref].from
               /\ AvailableError(wallet[a], a)' = AvailableError(job[w].seen, a)
         /\ \/ PendingError(wallet[a], a)' = PendingError(wallet[a], a)
            \/ /\ a = transfer[job[w].ref].from
               /\ PendingError(wallet[a], a)' = PendingError(job[w].seen, a) \/ ResolvesAgain(w)
<1>1. PICK r, s : r = job[w].ref /\ s = job[w].target
  OBVIOUS
<1>2. PICK b, n : b = transfer[r].from /\ n = transfer[r].amount
  OBVIOUS
<1>3. /\ r \in Ref /\ b \in Wallet /\ n \in Nat /\ s \in Outcome /\ Exists(r) /\ Exists(r)'
      /\ transfer'[r].amount = n /\ transfer'[r].status = s
      /\ \A q \in Ref \ {r} : transfer'[q] = transfer[q]
      /\ IsFiniteSet(Committed)' /\ BalanceFacts
      /\ \A c \in Wallet : From(c)' = From(c)
      /\ \A c \in Wallet :
           Balance(c)' = Balance(c) + IF c = b /\ s = "failed" THEN n ELSE 0
  BY <1>1, <1>2, ResolveBalances
<1>4. pc[w] \in ResolvingSteps /\ pc[w] = "posting"
  BY DEF Resolve, At, ResolvingSteps, FoundSteps
<1>5. PICK seen : seen = job[w].seen /\ seen.available \in Int /\ seen.pending \in Int
  BY <1>4, ResolutionJob DEF Resolution, Cached
<1>6. wallet' = [wallet EXCEPT ![b] =
        [available |-> IF s = "failed" THEN seen.available + n ELSE @.available,
         pending |-> seen.pending - n]]
  BY <1>1, <1>2, <1>5 DEF Resolve, Freed
<1>7. ReservedFacts /\ ReservedFacts'
  <2>1. TypeOK /\ IsFiniteSet(Committed) /\ (TypeOK /\ IsFiniteSet(Committed))'
    BY <1>3, ResolveKeeps DEF Inv, FundsInv
  <2> QED BY <2>1, ReservedAreSums, PTL
<1>8. /\ OpenFrom(a)' = OpenFrom(a) \ {r}
      /\ r \in OpenFrom(a) <=> a = b /\ Open(r)
  <2>1. \A q \in Ref \ {r} : Open(q)' <=> Open(q)
    BY <1>3 DEF Open, InStatus, Exists
  <2>2. ~Open(r)' BY <1>3 DEF Open, InStatus, Outcome
  <2>3. From(a) \subseteq Ref /\ From(a)' = From(a) BY <1>3 DEF From
  <2>4. OpenFrom(a)' = {q \in From(a)' : Open(q)'} BY DEF OpenFrom
  <2>5. r \in From(a) <=> a = b BY <1>2, <1>3 DEF From
  <2> QED BY <2>1, <2>2, <2>3, <2>4, <2>5 DEF OpenFrom
<1>9. SumFunction(Reserved(a))' =
        SumFunction(Reserved(a)) - IF a = b /\ Open(r) THEN n ELSE 0
  <2> DEFINE f == Reserved(a)
             g == Reserved(a)'
             F == OpenFrom(a)
             G == OpenFrom(a)'
  <2>1. /\ IsFiniteSet(F) /\ IsFiniteSet(G)
        /\ \A q \in F : f[q] = transfer[q].amount /\ f[q] \in Int
        /\ \A q \in G : g[q] = transfer'[q].amount /\ g[q] \in Int
        /\ SumFunction(Reserved(a)) = SumFunctionOnSet(f, F)
        /\ SumFunction(Reserved(a))' = SumFunctionOnSet(g, G)
    BY <1>7 DEF ReservedFacts
  <2>2. G = F \ {r} /\ (r \in F <=> a = b /\ Open(r)) /\ \A q \in F : q \in Ref
    BY <1>8 DEF OpenFrom, From
  <2>3. \A q \in G : f[q] = g[q] BY <1>3, <2>1, <2>2
  <2>4. r \in F => f[r] = n BY <1>2, <2>1
  <2> HIDE DEF f, g, F, G
  <2>5. SumFunctionOnSet(g, G) = SumFunctionOnSet(f, G) /\ SumFunctionOnSet(f, F) \in Int
    BY <2>1, <2>3, SumEqual, SumType
  <2>6. SumFunctionOnSet(f, G) \in Int BY <2>1, <2>2, SumType
  <2>7. CASE a = b /\ Open(r)
    <3>1. SumFunctionOnSet(f, F) = f[r] + SumFunctionOnSet(f, G)
      BY <2>1, <2>2, <2>7, SumRemove
    <3> QED BY <1>3, <2>1, <2>2, <2>4, <2>5, <2>6, <2>7, <3>1
  <2>8. CASE ~(a = b /\ Open(r))
    <3>1. G = F BY <2>2, <2>8
    <3> QED BY <2>1, <2>5, <2>8, <3>1
  <2> QED BY <2>7, <2>8
<1>10. Balance(a) \in Int /\ SumFunction(Reserved(a)) \in Int
  BY <1>3, <1>7 DEF BalanceFacts, ReservedFacts
<1>11. wallet \in [Wallet -> Cached] BY DEF Inv, TypeOK
<1>12. CASE a # b
  <2>1. wallet'[a] = wallet[a] BY <1>6, <1>11, <1>12
  <2>2. Balance(a)' = Balance(a) BY <1>3, <1>10, <1>12
  <2>3. SumFunction(Reserved(a))' = SumFunction(Reserved(a)) BY <1>9, <1>10, <1>12
  <2> QED BY <2>1, <2>2, <2>3 DEF AvailableError, PendingError
<1>13. CASE a = b
  <2>1. /\ wallet'[a].available = IF s = "failed" THEN seen.available + n
                                  ELSE wallet[a].available
        /\ wallet'[a].pending = seen.pending - n
    BY <1>6, <1>11, <1>13
  <2>2. wallet[a].available \in Int BY <1>11 DEF Cached
  <2>3. Balance(a)' = Balance(a) + IF s = "failed" THEN n ELSE 0 BY <1>3, <1>13
  <2>4. IF s = "failed" THEN wallet'[a].available - Balance(a)' = seen.available - Balance(a)
        ELSE wallet'[a].available - Balance(a)' = wallet[a].available - Balance(a)
    BY <1>3, <1>5, <1>10, <2>1, <2>2, <2>3
  <2>5. \/ AvailableError(wallet[a], a)' = AvailableError(wallet[a], a)
        \/ AvailableError(wallet[a], a)' = AvailableError(job[w].seen, a)
    BY <1>5, <2>4 DEF AvailableError
  <2>6. CASE Open(r)
    <3>1. SumFunction(Reserved(a))' = SumFunction(Reserved(a)) - n BY <1>9, <1>13, <2>6
    <3>2. wallet'[a].pending - SumFunction(Reserved(a))' =
            seen.pending - SumFunction(Reserved(a))
      BY <1>3, <1>5, <1>10, <2>1, <3>1
    <3> QED BY <1>1, <1>2, <1>5, <1>13, <2>5, <3>2 DEF PendingError
  <2>7. CASE ~Open(r)
    BY <1>1, <1>2, <1>4, <1>13, <2>5, <2>7 DEF ResolvesAgain
  <2> QED BY <2>6, <2>7
<1> QED BY <1>12, <1>13

\* However many holds, answers, webhooks and simulations overlap, and under every fault, a
\* cached balance changes its error only where a copy that is out of date is written, to
\* the error of that copy, or where a transfer is resolved a second time.
THEOREM CachedBalancesDriftAsCopied == Spec => DriftsAreCopied
<1>1. ASSUME Inv, FundsInv, [Next]_vars, NEW a \in Wallet
      PROVE  /\ \/ AvailableError(wallet[a], a)' = AvailableError(wallet[a], a)
                \/ \E w \in Worker : /\ Writes(w, a)
                     /\ AvailableError(wallet[a], a)' = AvailableError(job[w].seen, a)
             /\ \/ PendingError(wallet[a], a)' = PendingError(wallet[a], a)
                \/ \E w \in Worker : /\ Writes(w, a)
                     /\ \/ PendingError(wallet[a], a)' = PendingError(job[w].seen, a)
                        \/ ResolvesAgain(w)
  <2>1. ASSUME NEW w \in Worker, Commit(w)
        PROVE  \/ /\ Writes(w, a)
                  /\ AvailableError(wallet[a], a)' = AvailableError(job[w].seen, a)
                  /\ PendingError(wallet[a], a)' = PendingError(job[w].seen, a)
               \/ /\ AvailableError(wallet[a], a)' = AvailableError(wallet[a], a)
                  /\ PendingError(wallet[a], a)' = PendingError(wallet[a], a)
    BY <1>1, <2>1, CommitDrifts DEF Writes
  <2>2. ASSUME NEW w \in Worker, Resolve(w)
        PROVE  /\ \/ AvailableError(wallet[a], a)' = AvailableError(wallet[a], a)
                  \/ /\ Writes(w, a)
                     /\ AvailableError(wallet[a], a)' = AvailableError(job[w].seen, a)
               /\ \/ PendingError(wallet[a], a)' = PendingError(wallet[a], a)
                  \/ /\ Writes(w, a)
                     /\ \/ PendingError(wallet[a], a)' = PendingError(job[w].seen, a)
                        \/ ResolvesAgain(w)
    BY <1>1, <2>2, ResolveDrifts DEF Writes
  <2>3. CASE ~\E w \in Worker : Commit(w) \/ Resolve(w)
    <3>1. UNCHANGED <<wallet, transfer, posted>> BY <1>1, <2>3, QuietSteps
    <3>2. Balance(a)' = Balance(a) BY <3>1 DEF Balance, Holding, From, Exists
    <3>3. Reserved(a)' = Reserved(a) BY <3>1 DEF Reserved, From, Open, InStatus, Exists
    <3> QED BY <3>1, <3>2, <3>3 DEF AvailableError, PendingError
  <2> QED BY <2>1, <2>2, <2>3
<1>2. Inv /\ FundsInv /\ [Next]_vars =>
        [\A a \in Wallet :
           /\ \/ AvailableError(wallet[a], a)' = AvailableError(wallet[a], a)
              \/ \E w \in Worker :
                   Writes(w, a) /\ AvailableError(wallet[a], a)' = AvailableError(job[w].seen, a)
           /\ \/ PendingError(wallet[a], a)' = PendingError(wallet[a], a)
              \/ \E w \in Worker :
                   /\ Writes(w, a)
                   /\ \/ PendingError(wallet[a], a)' = PendingError(job[w].seen, a)
                      \/ ResolvesAgain(w)]_vars
  BY <1>1
<1> QED BY <1>2, InitFunds, NextFunds, InvHolds, PTL DEF Spec, DriftsAreCopied
-----------------------------------------------------------------------------
(* Without a rollback the provider is asked once.                          *)

\* The request for r has been sent and its transaction has not ended.
Requested(r) == \E w \in Worker : pc[w] \in {"answer", "committing"} /\ job[w].ref = r

\* What the provider was asked is known here, or is about to be.
DispatchInv ==
  \A r \in Ref : dispatched[r] = 0 \/ (dispatched[r] = 1 /\ (Exists(r) \/ Requested(r)))

\* Steps that send nothing and end no transaction that has sent something.
LEMMA QuietDispatch ==
  ASSUME DispatchInv, UNCHANGED dispatched,
         \A r \in Ref : Exists(r) => Exists(r)',
         \A r \in Ref : Requested(r) => Requested(r)' \/ Exists(r)'
  PROVE  DispatchInv'
BY DEF DispatchInv

\* A worker that has sent nothing goes on, ends or starts.
LEMMA UnsentStep ==
  ASSUME NEW w \in Worker, pc[w] \notin {"answer", "committing"},
         \A v \in Worker \ {w} : pc'[v] = pc[v] /\ job'[v] = job[v],
         NEW r \in Ref, Requested(r)
  PROVE  Requested(r)'
BY DEF Requested

\* The hold's request is sent when no transaction has sent one for its reference.
LEMMA DispatchOnce ==
  ASSUME Inv, DispatchInv, NEW w \in Worker, Dispatch(w)
  PROVE  DispatchInv'
<1>1. pc[w] = "calling" /\ job[w] \in Hold /\ ~Exists(job[w].ref)
  BY DEF Dispatch, At, Inv, RequestInv, HoldSteps, InsertedSteps
<1>2. job[w].ref \in Ref BY <1>1 DEF Hold
<1>3. ~Requested(job[w].ref)
  BY <1>1 DEF Requested, Inv, SlotInv, InsertedSteps
<1>4. dispatched[job[w].ref] = 0 BY <1>1, <1>2, <1>3 DEF DispatchInv
<1>5. /\ dispatched' = [dispatched EXCEPT ![job[w].ref] = @ + 1]
      /\ pc' = [pc EXCEPT ![w] = "answer"] /\ job' = job /\ transfer' = transfer
  BY DEF Dispatch, GoTo, tables
<1>6. dispatched \in [Ref -> Nat] /\ pc \in [Worker -> Steps] BY DEF Inv, TypeOK
<1>7. ASSUME NEW r \in Ref
      PROVE  dispatched'[r] = 0 \/ (dispatched'[r] = 1 /\ (Exists(r)' \/ Requested(r)'))
  <2>1. CASE r = job[w].ref
    <3>1. dispatched'[r] = 1 BY <1>2, <1>4, <1>5, <1>6, <2>1
    <3>2. pc'[w] = "answer" /\ job'[w].ref = r BY <1>5, <1>6, <2>1
    <3> QED BY <3>1, <3>2 DEF Requested
  <2>2. CASE r # job[w].ref
    <3>1. dispatched'[r] = dispatched[r] BY <1>5, <1>6, <2>2
    <3>2. Exists(r)' <=> Exists(r) BY <1>5 DEF Exists
    <3>3. Requested(r) => Requested(r)' BY <1>1, <1>5, <1>6, UnsentStep
    <3> QED BY <3>1, <3>2, <3>3 DEF DispatchInv
  <2> QED BY <2>1, <2>2
<1> QED BY <1>7 DEF DispatchInv
\* A request that was sent is remembered in memory until it is in the database.
LEMMA CommitRemembers ==
  ASSUME Inv, DispatchInv, NEW w \in Worker, Commit(w)
  PROVE  DispatchInv'
<1>1. pc[w] = "committing" /\ job[w] \in Hold
  BY DEF Commit, At, Inv, RequestInv, HoldSteps, InsertedSteps
<1>2. /\ transfer' = [transfer EXCEPT ![job[w].ref] =
            [from |-> job[w].from, amount |-> job[w].amount, status |-> job[w].target]]
      /\ pc' = [pc EXCEPT ![w] = "idle"] /\ job' = [job EXCEPT ![w] = NoJob]
      /\ dispatched' = dispatched
  BY DEF Commit, End, provider
<1>3. /\ transfer \in [Ref -> Transfer \cup {NoTransfer}]
      /\ pc \in [Worker -> Steps] /\ job \in [Worker -> Hold \cup Resolution \cup {NoJob}]
      /\ job[w].ref \in Ref
  BY <1>1 DEF Inv, TypeOK, Hold
<1>4. PICK q \in Ref : q = job[w].ref BY <1>3
<1>5. Exists(q)'
  <2>1. [from |-> job[w].from, amount |-> job[w].amount, status |-> job[w].target] \in Transfer
    BY <1>1 DEF Hold, Transfer
  <2>2. transfer'[q] =
          [from |-> job[w].from, amount |-> job[w].amount, status |-> job[w].target]
    BY <1>2, <1>3, <1>4
  <2>3. transfer'[q] \in Transfer BY <2>1, <2>2
  <2> QED BY <2>3, DistinctAssumption DEF Exists
<1>6. ASSUME NEW r \in Ref, r # q
      PROVE  (Exists(r) => Exists(r)') /\ (Requested(r) => Requested(r)')
  BY <1>2, <1>3, <1>4, <1>6 DEF Exists, Requested
<1>7. \A r \in Ref : Exists(r) => Exists(r)' BY <1>5, <1>6
<1>8. \A r \in Ref : Requested(r) => Requested(r)' \/ Exists(r)' BY <1>5, <1>6
<1> QED BY <1>2, <1>7, <1>8, QuietDispatch

LEMMA StepDispatch ==
  ASSUME "rollback" \notin Faults, Inv, DispatchInv,
         NEW w \in Worker, Start(w) \/ Step(w) \/ Rollback(w)
  PROVE  DispatchInv'
<1>1. /\ pc \in [Worker -> Steps] /\ job \in [Worker -> Hold \cup Resolution \cup {NoJob}]
      /\ transfer \in [Ref -> Transfer \cup {NoTransfer}]
  BY DEF Inv, TypeOK
<1>2. ASSUME pc[w] \notin {"answer", "committing"}, UNCHANGED <<dispatched, transfer>>,
             \A v \in Worker \ {w} : pc'[v] = pc[v] /\ job'[v] = job[v]
      PROVE  DispatchInv'
  <2>1. \A r \in Ref : Requested(r) => Requested(r)' BY <1>2, UnsentStep
  <2> QED BY <1>2, <2>1, QuietDispatch DEF Exists
<1>3. ASSUME pc'[w] = "committing", job'[w].ref = job[w].ref,
             UNCHANGED <<dispatched, transfer>>,
             \A v \in Worker \ {w} : pc'[v] = pc[v] /\ job'[v] = job[v]
      PROVE  DispatchInv'
  <2>1. \A r \in Ref : Requested(r) => Requested(r)' BY <1>3 DEF Requested
  <2> QED BY <1>3, <2>1, QuietDispatch DEF Exists
<1>4. CASE StartHold(w) \/ StartSimulation(w) \/ \E r \in Ref, s \in Outcome : StartWebhook(w, r, s)
  BY <1>1, <1>2, <1>4 DEF StartHold, StartSimulation, StartWebhook, Begin, tables, provider
<1>5. CASE LockSource(w) \/ CheckHold(w) \/ Insert(w)
  BY <1>1, <1>2, <1>5 DEF LockSource, CheckHold, Insert, At, GoTo, End, tables, provider
<1>6. CASE Dispatch(w) BY <1>6, DispatchOnce
<1>7. ASSUME NEW s \in Status, Commits(w, s), UNCHANGED dispatched, pc[w] \in InsertedSteps
      PROVE  DispatchInv'
  <2>1. job[w] \in Hold BY <1>7 DEF Inv, RequestInv, HoldSteps
  <2>2. /\ pc' = [pc EXCEPT ![w] = "committing"] /\ job' = [job EXCEPT ![w].target = s]
        /\ transfer' = transfer
    BY <1>7 DEF Commits, GoTo, tables
  <2>3. job'[w].ref = job[w].ref BY <1>1, <2>1, <2>2 DEF Hold
  <2> QED BY <1>1, <1>3, <1>7, <2>2, <2>3
<1>8. CASE Refuse(w)
  BY <1>7, <1>8 DEF Refuse, At, InsertedSteps, Status
<1>9. CASE LoseCall(w)
  <2>1. PICK e \in Faults \cap {"timeout", "network"} : Commits(w, StatusAfter(e))
    BY <1>9 DEF LoseCall
  <2>2. StatusAfter(e) \in Status BY DEF StatusAfter, Status
  <2> QED BY <1>7, <1>9, <2>1, <2>2 DEF LoseCall, InsertedSteps, provider
<1>10. CASE Answer(w)
  BY <1>7, <1>10 DEF Answer, At, InsertedSteps, Status, provider
<1>11. CASE Commit(w) BY <1>11, CommitRemembers
<1>12. CASE Locate(w) \/ ReadTransfer(w) \/ ReadAccount(w) \/ Mark(w)
  BY <1>1, <1>2, <1>12 DEF Locate, ReadTransfer, ReadAccount, Mark, Resolved, At, GoTo, End,
     tables, provider
<1>13. CASE Resolve(w)
  <2>1. /\ pc[w] = "posting" /\ dispatched' = dispatched
        /\ transfer' = [transfer EXCEPT ![job[w].ref].status = job[w].target]
        /\ \A v \in Worker \ {w} : pc'[v] = pc[v] /\ job'[v] = job[v]
    BY <1>1, <1>13 DEF Resolve, Resolved, At, GoTo, End, provider
  <2>2. \A r \in Ref : Requested(r) => Requested(r)' BY <2>1, UnsentStep
  <2>3. job[w] \in Resolution /\ Exists(job[w].ref)
    BY <2>1 DEF Inv, RequestInv, ResolvingSteps, FoundSteps
  <2>4. PICK q \in Ref : q = job[w].ref BY <2>3 DEF Resolution
  <2>5. Exists(q)'
    <3>1. job[w].target \in Status BY <2>3 DEF Resolution, Outcome, Status
    <3>2. transfer[q] \in Transfer BY <1>1, <2>3, <2>4 DEF Exists
    <3>3. transfer'[q] \in Transfer BY <1>1, <2>1, <2>4, <3>1, <3>2 DEF Transfer
    <3> QED BY <3>3, DistinctAssumption DEF Exists
  <2>6. ASSUME NEW r \in Ref, r # q PROVE Exists(r) => Exists(r)'
    BY <1>1, <2>1, <2>4, <2>6 DEF Exists
  <2>7. \A r \in Ref : Exists(r) => Exists(r)' BY <2>5, <2>6
  <2> QED BY <2>1, <2>2, <2>7, QuietDispatch
<1>14. CASE Rollback(w) BY <1>14 DEF Rollback
<1> QED BY <1>4, <1>5, <1>6, <1>8, <1>9, <1>10, <1>11, <1>12, <1>13, <1>14 DEF Start, Step

LEMMA NextDispatch ==
  ASSUME "rollback" \notin Faults, Inv, DispatchInv, [Next]_vars
  PROVE  DispatchInv'
<1>1. CASE UNCHANGED vars
  BY <1>1, QuietDispatch DEF vars, tables, provider, Exists, Requested
<1>2. ASSUME NEW r \in Ref, Conclude(r) PROVE DispatchInv'
  BY <1>2, QuietDispatch DEF Conclude, tables, Exists, Requested
<1> QED BY <1>1, <1>2, StepDispatch DEF Next

\* Timeouts and lost answers never make the service ask the provider twice for one
\* reference, however often clients send it and however requests overlap: only a
\* rollback after the call, which forgets what was asked, can.
THEOREM OnlyRollbacksRepeat ==
  ASSUME "rollback" \notin Faults
  PROVE  Spec => []DispatchedOnce
<1>1. Init => DispatchInv
  <2> SUFFICES ASSUME Init PROVE DispatchInv
    OBVIOUS
  <2>1. dispatched = [r \in Ref |-> 0] BY DEF Init
  <2>2. \A r \in Ref : dispatched[r] = 0 BY <2>1
  <2> QED BY <2>2 DEF DispatchInv
<1>2. Inv /\ DispatchInv /\ [Next]_vars => DispatchInv' BY NextDispatch
<1>3. Inv /\ DispatchInv => DispatchedOnce BY DEF DispatchInv, DispatchedOnce
<1> QED BY <1>1, <1>2, <1>3, InvHolds, PTL DEF Spec
===================================================================================
