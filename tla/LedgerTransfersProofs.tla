------------------------- MODULE LedgerTransfersProofs -------------------------
(***************************************************************************)
(* Proofs about LedgerTransfers, for any number of accounts, projects,     *)
(* concurrent requests and operations: the types and the lock discipline   *)
(* first, then the safety properties that rest on them.                    *)
(***************************************************************************)
EXTENDS LedgerTransfers, Sums, WellFoundedInduction, TLAPS

\* The rows a worker's transaction holds FOR UPDATE, and those it needs.
Held(w) == {a \in Account : lock[a] = w}
Needed(w) == {job[w].from, job[w].to}

\* What the request of a worker is at each of its steps.
JobShape(w) ==
  /\ pc[w] \in MovementSteps => job[w] \in Movement
  /\ pc[w] = "funding" => job[w] \in Funding
  /\ pc[w] = "updating" => job[w] \in StatusChange
  /\ pc[w] = "source lock" => job[w].kind = "internal"
  /\ pc[w] = "reference" => job[w].kind = "transfer"
  /\ pc[w] = "destination" => job[w].kind \in {"transfer", "internal"}
  /\ pc[w] = "accounts" => job[w].kind = "reverse"
  /\ pc[w] \in MovementSteps /\ job[w].target # NoJournal =>
       journal[job[w].target] # NoJournal

\* No step takes a posted journal away.
JournalsStay == \A k \in JournalKey : journal[k] # NoJournal => journal'[k] # NoJournal

Unlocked == {"idle", "source lock", "reference", "accounts", "funding", "updating"}

\* Which rows a worker has locked at each of its steps.
LockDiscipline(w) ==
  /\ pc[w] \in Unlocked => Held(w) = {}
  /\ pc[w] = "destination" =>
       Held(w) = IF job[w].kind = "internal" THEN {job[w].from} ELSE {}
  /\ pc[w] = "locking" =>
       /\ Needed(w) \ Held(w) # {}
       /\ Held(w) \subseteq Needed(w)
       /\ job[w].kind # "internal" =>
            \A a \in Held(w), b \in Needed(w) \ Held(w) : a < b
  /\ pc[w] \in {"checking", "posting"} => Held(w) = Needed(w)

LockInv == TypeOK /\ \A w \in Worker : JobShape(w) /\ LockDiscipline(w)

-----------------------------------------------------------------------------
(* Lemmas about the helpers.                                               *)

\* While a request is locking rows, the row it locks next is one it needs and
\* has not locked, and the smallest such row.
LEMMA NextRowIsLeast ==
  ASSUME NEW w \in Worker, job[w] \in Movement, Needed(w) \ Held(w) # {}
  PROVE  /\ RowsLeft(w) = Needed(w) \ Held(w)
         /\ NextRow(w) \in RowsLeft(w)
         /\ \A b \in RowsLeft(w) : NextRow(w) <= b
         /\ NextRow(w) \in Account
  <1>1. Needed(w) \subseteq Account
    BY DEF Movement, Needed
  <1>2. RowsLeft(w) = Needed(w) \ Held(w)
    BY <1>1 DEF RowsLeft, Held, Needed
  <1>3. job[w].from \in Nat /\ job[w].to \in Nat
    BY AccountAssumption DEF Movement
  <1>4. \E a \in RowsLeft(w) : \A b \in RowsLeft(w) : a <= b
    <2>1. CASE job[w].from \in RowsLeft(w) /\ job[w].to \in RowsLeft(w)
      BY <1>2, <1>3, <2>1 DEF Needed
    <2>2. CASE job[w].from \notin RowsLeft(w) \/ job[w].to \notin RowsLeft(w)
      BY <1>2, <1>3, <2>2 DEF Needed
    <2> QED
      BY <2>1, <2>2
  <1> QED
    BY <1>1, <1>2, <1>4 DEF NextRow

\* An ending request gives back its rows and nobody else's.
LEMMA EndReleases ==
  ASSUME TypeOK, NEW w \in Worker, End(w)
  PROVE  /\ Held(w)' = {}
         /\ \A v \in Worker \ {w} : Held(v)' = Held(v)
         /\ pc'[w] = "idle"
         /\ \A v \in Worker \ {w} : pc'[v] = pc[v] /\ job'[v] = job[v]
         /\ pc' \in [Worker -> Steps]
         /\ job' \in [Worker -> Movement \cup Funding \cup StatusChange \cup {NoJob}]
         /\ lock' \in [Account -> Worker \cup {NoWorker}]
  BY WorkerAssumption DEF TypeOK, End, Held, Steps

\* A lock is taken from nobody.
LEMMA TakeAcquires ==
  ASSUME TypeOK, NEW w \in Worker, NEW a \in Account, Take(w, a)
  PROVE  /\ Held(w)' = Held(w) \cup {a}
         /\ \A v \in Worker \ {w} : Held(v)' = Held(v)
         /\ lock' \in [Account -> Worker \cup {NoWorker}]
  BY WorkerAssumption DEF TypeOK, Take, Held

\* What a step of one worker leaves alone keeps its shape and its locks.
LEMMA FrameOfOthers ==
  ASSUME NEW v \in Worker, JobShape(v), LockDiscipline(v),
         pc'[v] = pc[v], job'[v] = job[v], Held(v)' = Held(v), JournalsStay
  PROVE  JobShape(v)' /\ LockDiscipline(v)'
  <1>1. pc[v] \in MovementSteps => job[v].target \in JournalKey \cup {NoJournal}
    BY DEF JobShape, Movement
  <1>2. JobShape(v)'
    BY <1>1 DEF JobShape, JournalsStay
  <1> QED
    BY <1>2 DEF LockDiscipline, Needed

\* A request that ends leaves the locks in order.
LEMMA EndKeepsLockInv ==
  ASSUME LockInv, NEW w \in Worker, End(w), JournalsStay
  PROVE  \A v \in Worker : JobShape(v)' /\ LockDiscipline(v)'
  <1> SUFFICES ASSUME NEW v \in Worker
               PROVE  JobShape(v)' /\ LockDiscipline(v)'
    OBVIOUS
  <1>1. CASE v = w
    BY <1>1, EndReleases DEF LockInv, JobShape, LockDiscipline, Unlocked, MovementSteps
  <1>2. CASE v # w
    BY <1>2, EndReleases, FrameOfOthers DEF LockInv
  <1> QED
    BY <1>1, <1>2

LEMMA FailKeepsLockInv ==
  ASSUME LockInv, NEW w \in Worker, Fail(w)
  PROVE  LockInv'
  <1>1. TypeOK'
    BY EndReleases DEF LockInv, TypeOK, Fail, tables
  <1>2. JournalsStay
    BY DEF Fail, tables, JournalsStay
  <1> QED
    BY <1>1, <1>2, EndKeepsLockInv DEF LockInv, Fail

\* A worker that moves on to another step without touching the locks keeps the
\* invariant when its new shape and its locks fit the new step.
LEMMA MoveKeepsLockInv ==
  ASSUME LockInv, NEW w \in Worker, TypeOK', UNCHANGED <<lock, journal>>,
         \A v \in Worker \ {w} : pc'[v] = pc[v] /\ job'[v] = job[v],
         JobShape(w)', LockDiscipline(w)'
  PROVE  LockInv'
  <1>1. \A v \in Worker : Held(v)' = Held(v)
    BY DEF Held
  <1>2. \A v \in Worker \ {w} : JobShape(v)' /\ LockDiscipline(v)'
    BY <1>1, FrameOfOthers DEF LockInv, JournalsStay
  <1> QED
    BY <1>2 DEF LockInv

\* A request begins with nothing locked.
LEMMA BeginKeepsLockInv ==
  ASSUME LockInv, NEW w \in Worker, NEW step \in {"destination", "source lock", "accounts",
         "funding", "updating"}, NEW j, Begin(w, step, j),
         step \in MovementSteps => j \in Movement,
         step = "funding" => j \in Funding,
         step = "updating" => j \in StatusChange,
         step = "destination" => j.kind = "transfer",
         step = "source lock" => j.kind = "internal",
         step = "accounts" => j.kind = "reverse",
         step \in MovementSteps /\ j.target # NoJournal => journal[j.target] # NoJournal
  PROVE  LockInv'
  <1>1. pc[w] = "idle" /\ pc'[w] = step /\ job'[w] = j /\ UNCHANGED <<tables, lock>>
    BY DEF LockInv, TypeOK, Begin
  <1>2. TypeOK'
    BY DEF LockInv, TypeOK, Begin, tables, Steps, MovementSteps
  <1>3. Held(w)' = {}
    BY <1>1 DEF LockInv, LockDiscipline, Unlocked, Held
  <1>4. JobShape(w)'
    BY <1>1 DEF JobShape, MovementSteps, tables
  <1>5. LockDiscipline(w)'
    BY <1>1, <1>3 DEF LockDiscipline, Unlocked
  <1>6. \A v \in Worker \ {w} : pc'[v] = pc[v] /\ job'[v] = job[v]
    BY DEF LockInv, TypeOK, Begin
  <1> QED
    BY <1>1, <1>2, <1>4, <1>5, <1>6, MoveKeepsLockInv DEF tables

LEMMA StartKeepsLockInv ==
  ASSUME LockInv, NEW w \in Worker, Start(w)
  PROVE  LockInv'
  <1>1. CASE StartTransfer(w)
    <2>1. PICK a \in Account, b \in Account, n \in Amount, s \in Base :
            Begin(w, "destination", NewMovement("transfer", a, b, n, <<s, 0>>))
      BY <1>1 DEF StartTransfer
    <2>2. NewMovement("transfer", a, b, n, <<s, 0>>) \in Movement
      BY ProjectAssumption, BoundAssumption
      DEF NewMovement, Movement, LockInv, TypeOK, JournalKey, Reference
    <2>3. NewMovement("transfer", a, b, n, <<s, 0>>).kind = "transfer"
          /\ NewMovement("transfer", a, b, n, <<s, 0>>).target = NoJournal
      BY DEF NewMovement
    <2> QED
      BY <2>1, <2>2, <2>3, BeginKeepsLockInv
  <1>2. CASE StartInternal(w)
    <2>1. PICK a \in Account, b \in Account, n \in Amount, s \in Base :
            Begin(w, "source lock", NewMovement("internal", a, b, n, <<s, 0>>))
      BY <1>2 DEF StartInternal
    <2>2. NewMovement("internal", a, b, n, <<s, 0>>) \in Movement
      BY ProjectAssumption, BoundAssumption
      DEF NewMovement, Movement, LockInv, TypeOK, JournalKey, Reference
    <2>3. NewMovement("internal", a, b, n, <<s, 0>>).kind = "internal"
          /\ NewMovement("internal", a, b, n, <<s, 0>>).target = NoJournal
      BY DEF NewMovement
    <2> QED
      BY <2>1, <2>2, <2>3, BeginKeepsLockInv
  <1>3. CASE StartReversal(w)
    <2>1. PICK p \in Project, k \in JournalKey :
            /\ k[2][2] < MaxDepth
            /\ journal[k] # NoJournal
            /\ Begin(w, "accounts",
                     [kind |-> "reverse", project |-> p,
                      from |-> journal[k].to, to |-> journal[k].from,
                      amount |-> journal[k].amount,
                      key |-> ReversalKey(p, k), target |-> k,
                      seenFrom |-> 0, seenTo |-> 0])
      BY <1>3 DEF StartReversal, VisibleTo
    <2>2. ReversalKey(p, k) \in JournalKey
      BY <2>1, BoundAssumption DEF ReversalKey, JournalKey, Reference
    <2>3. journal[k] \in Journal
      BY <2>1 DEF LockInv, TypeOK
    <2> DEFINE j == [kind |-> "reverse", project |-> p,
                     from |-> journal[k].to, to |-> journal[k].from,
                     amount |-> journal[k].amount,
                     key |-> ReversalKey(p, k), target |-> k,
                     seenFrom |-> 0, seenTo |-> 0]
    <2>4. j \in Movement /\ j.kind = "reverse" /\ journal[j.target] # NoJournal
      BY <2>1, <2>2, <2>3 DEF Movement, Journal
    <2>5. Begin(w, "accounts", j)
      BY <2>1
    <2> HIDE DEF j
    <2> QED
      BY <2>4, <2>5, BeginKeepsLockInv
  <1>4. CASE StartFunding(w)
    <2>1. PICK a \in Account, n \in Amount :
            Begin(w, "funding", [kind |-> "fund", to |-> a, amount |-> n,
                                 seenTo |-> account[a].available])
      BY <1>4 DEF StartFunding
    <2>2. [kind |-> "fund", to |-> a, amount |-> n, seenTo |-> account[a].available]
            \in Funding
      BY DEF Funding, LockInv, TypeOK
    <2> QED
      BY <2>1, <2>2, BeginKeepsLockInv DEF MovementSteps
  <1>5. CASE StartStatusChange(w)
    <2>1. PICK a \in Account, s \in AccountStatus :
            Begin(w, "updating", [kind |-> "status", to |-> a, status |-> s])
      BY <1>5 DEF StartStatusChange
    <2>2. [kind |-> "status", to |-> a, status |-> s] \in StatusChange
      BY DEF StatusChange
    <2> QED
      BY <2>1, <2>2, BeginKeepsLockInv DEF MovementSteps
  <1> QED
    BY <1>1, <1>2, <1>3, <1>4, <1>5 DEF Start

LEMMA LockSourceKeepsLockInv ==
  ASSUME LockInv, NEW w \in Worker, LockSource(w)
  PROVE  LockInv'
  <1> USE DEF LockInv
  <1>1. pc[w] = "source lock" /\ job[w] \in Movement /\ job[w].kind = "internal"
    BY DEF LockSource, JobShape, MovementSteps
  <1>2. job[w].from \in Account /\ Take(w, job[w].from)
    BY <1>1 DEF LockSource, Movement
  <1>3. /\ pc'[w] = "destination" /\ UNCHANGED job
        /\ \A v \in Worker \ {w} : pc'[v] = pc[v]
    BY DEF LockSource, GoTo, TypeOK
  <1>4. TypeOK'
    BY <1>2, <1>3, TakeAcquires DEF LockSource, GoTo, TypeOK, tables, Steps, MovementSteps
  <1>5. Held(w)' = {job[w].from}
    <2>1. Held(w) = {}
      BY <1>1 DEF LockDiscipline, Unlocked
    <2> QED
      BY <1>2, <2>1, TakeAcquires
  <1>6. JobShape(w)'
    BY <1>1, <1>3 DEF JobShape, MovementSteps, LockSource, tables
  <1>7. LockDiscipline(w)'
    BY <1>1, <1>3, <1>5 DEF LockDiscipline, Unlocked
  <1>8. \A v \in Worker \ {w} : JobShape(v)' /\ LockDiscipline(v)'
    BY <1>2, <1>3, TakeAcquires, FrameOfOthers DEF JournalsStay, LockSource, tables
  <1> QED
    BY <1>4, <1>6, <1>7, <1>8

LEMMA AcquireLockKeepsLockInv ==
  ASSUME LockInv, NEW w \in Worker, AcquireLock(w)
  PROVE  LockInv'
  <1> USE DEF LockInv
  <1>1. pc[w] = "locking" /\ job[w] \in Movement /\ Needed(w) \ Held(w) # {}
    BY DEF AcquireLock, JobShape, LockDiscipline, MovementSteps
  <1> DEFINE a == NextRow(w)
  <1>2. /\ RowsLeft(w) = Needed(w) \ Held(w) /\ a \in RowsLeft(w) /\ a \in Account
        /\ \A b \in RowsLeft(w) : a <= b
    BY <1>1, NextRowIsLeast
  <1>3. /\ Take(w, a) /\ UNCHANGED <<tables, job>>
        /\ pc' = [pc EXCEPT ![w] = IF RowsLeft(w) = {a} THEN "checking" ELSE "locking"]
    BY DEF AcquireLock, GoTo
  <1> HIDE DEF a
  <1>4. /\ Held(w)' = Held(w) \cup {a}
        /\ \A v \in Worker \ {w} : Held(v)' = Held(v)
        /\ lock' \in [Account -> Worker \cup {NoWorker}]
    BY <1>2, <1>3, TakeAcquires
  <1>5. /\ TypeOK'
        /\ pc'[w] = IF RowsLeft(w) = {a} THEN "checking" ELSE "locking"
        /\ \A v \in Worker \ {w} : pc'[v] = pc[v]
    BY <1>3, <1>4 DEF TypeOK, tables, Steps, MovementSteps
  <1>6. JobShape(w)'
    <2>1. pc'[w] \in {"checking", "locking"} /\ job'[w] = job[w] /\ UNCHANGED journal
      BY <1>3, <1>5 DEF tables
    <2> QED
      BY <1>1, <2>1 DEF JobShape, MovementSteps
  <1>7. LockDiscipline(w)'
    <2>1. Needed(w)' = Needed(w) /\ Held(w) \subseteq Needed(w) /\ Needed(w) \subseteq Nat
      BY <1>1, <1>3, AccountAssumption DEF Needed, Movement, LockDiscipline
    <2>2. CASE RowsLeft(w) = {a}
      <3>1. Held(w)' = Needed(w)'
        BY <1>2, <1>4, <2>1, <2>2
      <3> QED
        BY <1>5, <2>2, <3>1 DEF LockDiscipline, Unlocked
    <2>3. CASE RowsLeft(w) # {a}
      <3>1. pc'[w] = "locking"
        BY <1>5, <2>3
      <3>2. (Needed(w) \ Held(w))' # {} /\ Held(w)' \subseteq Needed(w)'
        BY <1>2, <1>4, <2>1, <2>3
      <3>3. Held(w) = {}
        BY <1>2, <2>1, <2>3 DEF Needed
      <3>4. \A c \in Held(w)', b \in (Needed(w) \ Held(w))' : c < b
        BY <1>2, <1>4, <2>1, <3>3
      <3> QED
        BY <3>1, <3>2, <3>4 DEF LockDiscipline, Unlocked
    <2> QED
      BY <2>2, <2>3
  <1>8. \A v \in Worker \ {w} : JobShape(v)' /\ LockDiscipline(v)'
    BY <1>3, <1>4, <1>5, FrameOfOthers DEF JournalsStay, tables
  <1> QED
    BY <1>5, <1>6, <1>7, <1>8

\* The updates of the projected balances keep the type of the Account rows.
LEMMA ProjectionType ==
  ASSUME TypeOK, NEW j \in Movement
  PROVE  Projection(j) \subseteq [Account -> [status : AccountStatus, available : Int]]
  <1> DEFINE Rows == [Account -> [status : AccountStatus, available : Int]]
  <1>1. /\ j.seenFrom \in Int /\ j.seenTo \in Int /\ j.amount \in Int
        /\ j.from \in Account /\ j.to \in Account
    <2>1. j.amount \in Amount /\ j.seenFrom \in Int /\ j.seenTo \in Int
      BY DEF Movement
    <2>2. j.from \in Account /\ j.to \in Account
      BY DEF Movement
    <2>3. j.amount \in Int
      <3>1. \A n \in Amount : n \in Int
        BY AmountAssumption
      <3> QED
        BY <2>1, <3>1
    <2> QED
      BY <2>1, <2>2, <2>3
  <1>2. /\ j.seenFrom - j.amount \in Int
        /\ j.seenTo + j.amount \in Int
        /\ j.seenTo - j.amount \in Int
    BY <1>1
  <1>3. \A f \in Rows, c \in Account, v \in Int : [f EXCEPT ![c].available = v] \in Rows
    OBVIOUS
  <1>4. account \in Rows
    BY DEF TypeOK
  <1> HIDE DEF Rows
  <1> SUFFICES ASSUME NEW rows \in Projection(j)
               PROVE  rows \in Rows
    BY DEF Rows
  <1>5. CASE j.from # j.to
    <2> DEFINE debited == [account EXCEPT ![j.from].available = j.seenFrom - j.amount]
    <2>1. rows = [debited EXCEPT ![j.to].available = j.seenTo + j.amount]
      BY <1>5 DEF Projection
    <2>2. debited \in Rows
      BY <1>1, <1>2, <1>3, <1>4
    <2> QED
      BY <2>1, <2>2, <1>1, <1>2, <1>3
  <1>6. CASE j.from = j.to
    <2>1. PICK v \in {j.seenTo + j.amount, j.seenTo - j.amount} :
            rows = [account EXCEPT ![j.to].available = v]
      BY <1>6 DEF Projection
    <2> QED
      BY <2>1, <1>1, <1>2, <1>3, <1>4
  <1> QED
    BY <1>5, <1>6

\* The journals a commit leaves are journals.
LEMMA PostedType ==
  ASSUME TypeOK, NEW j \in Movement, j.target # NoJournal => journal[j.target] # NoJournal
  PROVE  /\ Posted(j) \in [JournalKey -> Journal \cup {NoJournal}]
         /\ \A k \in JournalKey : journal[k] # NoJournal => Posted(j)[k] # NoJournal
  <1> DEFINE linked == IF j.target = NoJournal THEN journal
                       ELSE [journal EXCEPT ![j.target].reversal = j.key]
             row == [from |-> j.from, to |-> j.to, amount |-> j.amount,
                     reverses |-> j.target, reversal |-> NoJournal]
  <1>1. row \in Journal
    BY DEF Movement, Journal
  <1>2. /\ linked \in [JournalKey -> Journal \cup {NoJournal}]
        /\ \A k \in JournalKey : journal[k] # NoJournal => linked[k] # NoJournal
    <2>1. CASE j.target = NoJournal
      BY <2>1 DEF TypeOK
    <2>2. CASE j.target # NoJournal
      <3>1. j.target \in JournalKey /\ j.key \in JournalKey
        BY <2>2 DEF Movement
      <3>2. journal[j.target] \in Journal
        BY <2>2, <3>1 DEF TypeOK
      <3>3. [journal[j.target] EXCEPT !.reversal = j.key] \in Journal
        BY <3>1, <3>2 DEF Journal
      <3>4. linked = [journal EXCEPT ![j.target] = [journal[j.target] EXCEPT !.reversal = j.key]]
        BY <2>2
      <3> QED
        BY <3>1, <3>3, <3>4, NoJournalAssumption DEF TypeOK
    <2> QED
      BY <2>1, <2>2
  <1>3. Posted(j) = [linked EXCEPT ![j.key] = row]
    BY DEF Posted
  <1> HIDE DEF linked, row
  <1> QED
    BY <1>1, <1>2, <1>3, NoJournalAssumption

\* The reads and checks of a request, which change no table and no lock.
LEMMA CheckKeepsLockInv ==
  ASSUME LockInv, NEW w \in Worker, NEW step \in MovementSteps, NEW j \in Movement,
         pc[w] \in MovementSteps, j.target = job[w].target,
         pc' = [pc EXCEPT ![w] = step], job' = [job EXCEPT ![w] = j],
         UNCHANGED <<tables, lock>>,
         step \notin {"source lock", "accounts", "destination"},
         step = "reference" => j.kind = "transfer",
         LockDiscipline(w)'
  PROVE  LockInv'
  <1>1. /\ pc'[w] = step /\ job'[w] = j
        /\ \A v \in Worker \ {w} : pc'[v] = pc[v] /\ job'[v] = job[v]
    BY DEF LockInv, TypeOK
  <1>2. TypeOK'
    BY DEF LockInv, TypeOK, tables, Steps
  <1>3. JobShape(w)'
    BY <1>1 DEF LockInv, JobShape, MovementSteps, tables
  <1> QED
    BY <1>1, <1>2, <1>3, MoveKeepsLockInv DEF tables

LEMMA ReadDestinationKeepsLockInv ==
  ASSUME LockInv, NEW w \in Worker, ReadDestination(w)
  PROVE  LockInv'
  <1>1. CASE Fail(w)
    BY <1>1, FailKeepsLockInv
  <1>2. CASE ~Fail(w)
    <2>1. /\ pc[w] = "destination" /\ job[w] \in Movement
          /\ job[w].kind \in {"transfer", "internal"}
      BY DEF ReadDestination, LockInv, JobShape, MovementSteps
    <2> DEFINE j == [job[w] EXCEPT !.seenTo = account[job[w].to].available]
               step == IF job[w].kind = "transfer" THEN "reference" ELSE "locking"
    <2>2. /\ job[w].kind = "internal" => job[w].from # job[w].to
          /\ job' = [job EXCEPT ![w] = j]
          /\ pc' = [pc EXCEPT ![w] = step]
          /\ UNCHANGED <<tables, lock>>
      BY <1>2 DEF ReadDestination, GoTo
    <2>3. job[w].to \in Account /\ account[job[w].to].available \in Int
      BY <2>1 DEF Movement, LockInv, TypeOK
    <2>4. /\ j \in Movement /\ j.target = job[w].target /\ j.kind = job[w].kind
          /\ j.from = job[w].from /\ j.to = job[w].to
      BY <2>1, <2>3 DEF Movement
    <2>5. /\ step \in MovementSteps \ {"source lock", "accounts", "destination"}
          /\ step = "reference" => j.kind = "transfer"
      BY <2>4 DEF MovementSteps
    <2>6. /\ pc'[w] = step /\ Held(w)' = Held(w) /\ job'[w] = j
          /\ Needed(w)' = {j.from, j.to}
      BY <2>2 DEF LockInv, TypeOK, Held, Needed
    <2>7. Held(w) = IF job[w].kind = "internal" THEN {job[w].from} ELSE {}
      BY <2>1 DEF LockInv, LockDiscipline
    <2> HIDE DEF j
    <2>8. LockDiscipline(w)'
      <3>1. CASE job[w].kind = "transfer"
        BY <2>6, <2>7, <3>1 DEF LockDiscipline, Unlocked
      <3>2. CASE job[w].kind = "internal"
        <4>1. pc'[w] = "locking" /\ job'[w].kind = "internal"
          BY <2>4, <2>6, <3>2
        <4>2. Held(w)' = {j.from} /\ Needed(w)' = {j.from, j.to} /\ j.from # j.to
          BY <2>2, <2>4, <2>6, <2>7, <3>2
        <4> QED
          BY <4>1, <4>2 DEF LockDiscipline, Unlocked
      <3> QED
        BY <2>1, <3>1, <3>2
    <2> QED
      BY <2>1, <2>2, <2>4, <2>5, <2>8, CheckKeepsLockInv DEF MovementSteps
  <1> QED
    BY <1>1, <1>2

LEMMA CheckReferenceKeepsLockInv ==
  ASSUME LockInv, NEW w \in Worker, CheckReference(w)
  PROVE  LockInv'
  <1>1. CASE Fail(w)
    BY <1>1, FailKeepsLockInv
  <1>2. CASE ~Fail(w)
    <2>1. pc[w] = "reference" /\ job[w] \in Movement /\ Held(w) = {}
      BY DEF CheckReference, LockInv, JobShape, MovementSteps, LockDiscipline, Unlocked
    <2>2. /\ pc' = [pc EXCEPT ![w] = "locking"] /\ job' = [job EXCEPT ![w] = job[w]]
          /\ UNCHANGED <<tables, lock>>
      BY <1>2 DEF CheckReference, GoTo, LockInv, TypeOK
    <2>3. /\ pc'[w] = "locking" /\ Held(w)' = {} /\ job'[w] = job[w]
      BY <2>1, <2>2 DEF LockInv, TypeOK, Held
    <2>4. LockDiscipline(w)'
      BY <2>3 DEF LockDiscipline, Unlocked, Needed
    <2> QED
      BY <2>1, <2>2, <2>4, CheckKeepsLockInv DEF MovementSteps
  <1> QED
    BY <1>1, <1>2

LEMMA ReadAccountsKeepsLockInv ==
  ASSUME LockInv, NEW w \in Worker, ReadAccounts(w)
  PROVE  LockInv'
  <1>1. CASE Fail(w)
    BY <1>1, FailKeepsLockInv
  <1>2. CASE ~Fail(w)
    <2>1. pc[w] = "accounts" /\ job[w] \in Movement /\ Held(w) = {}
      BY DEF ReadAccounts, LockInv, JobShape, MovementSteps, LockDiscipline, Unlocked
    <2> DEFINE j == [job[w] EXCEPT !.seenFrom = account[job[w].from].available,
                                   !.seenTo = account[job[w].to].available]
    <2>2. /\ pc' = [pc EXCEPT ![w] = "locking"]
          /\ job' = [job EXCEPT ![w] = j]
          /\ UNCHANGED <<tables, lock>>
      <3>1. job' = [job EXCEPT ![w].seenFrom = account[job[w].from].available,
                               ![w].seenTo = account[job[w].to].available]
        BY <1>2 DEF ReadAccounts
      <3>2. [job EXCEPT ![w].seenFrom = account[job[w].from].available,
                        ![w].seenTo = account[job[w].to].available]
              = [job EXCEPT ![w] = j]
        BY DEF LockInv, TypeOK
      <3> QED
        BY <1>2, <3>1, <3>2 DEF ReadAccounts, GoTo
    <2>3. /\ job[w].from \in Account /\ account[job[w].from].available \in Int
          /\ job[w].to \in Account /\ account[job[w].to].available \in Int
      BY <2>1 DEF Movement, LockInv, TypeOK
    <2>4. j \in Movement /\ j.target = job[w].target
      BY <2>1, <2>3 DEF Movement
    <2>5. /\ pc'[w] = "locking" /\ Held(w)' = {} /\ job'[w] = j
      BY <2>1, <2>2 DEF LockInv, TypeOK, Held
    <2> HIDE DEF j
    <2>6. LockDiscipline(w)'
      BY <2>5 DEF LockDiscipline, Unlocked, Needed
    <2> QED
      BY <2>1, <2>2, <2>4, <2>6, CheckKeepsLockInv DEF MovementSteps
  <1> QED
    BY <1>1, <1>2

LEMMA CheckFundsKeepsLockInv ==
  ASSUME LockInv, NEW w \in Worker, CheckFunds(w)
  PROVE  LockInv'
  <1>1. CASE Fail(w)
    BY <1>1, FailKeepsLockInv
  <1>2. CASE ~Fail(w)
    <2>1. pc[w] = "checking" /\ job[w] \in Movement /\ Held(w) = Needed(w)
      BY DEF CheckFunds, LockInv, JobShape, MovementSteps, LockDiscipline
    <2>2. /\ pc' = [pc EXCEPT ![w] = "posting"] /\ job' = [job EXCEPT ![w] = job[w]]
          /\ UNCHANGED <<tables, lock>>
      BY <1>2 DEF CheckFunds, GoTo, LockInv, TypeOK
    <2>3. /\ pc'[w] = "posting" /\ Held(w)' = Needed(w)' /\ job'[w] = job[w]
      BY <2>1, <2>2 DEF LockInv, TypeOK, Held, Needed
    <2>4. LockDiscipline(w)'
      BY <2>3 DEF LockDiscipline, Unlocked
    <2> QED
      BY <2>1, <2>2, <2>4, CheckKeepsLockInv DEF MovementSteps
  <1> QED
    BY <1>1, <1>2

LEMMA MovementAmount ==
  ASSUME NEW j \in Movement
  PROVE  j.amount \in Nat \ {0}
  <1>1. \A n \in Amount : n \in Nat \ {0}
    BY AmountAssumption
  <1> QED
    BY <1>1 DEF Movement

LEMMA PostKeepsLockInv ==
  ASSUME LockInv, NEW w \in Worker, Post(w)
  PROVE  LockInv'
  <1>1. CASE Fail(w)
    BY <1>1, FailKeepsLockInv
  <1>2. CASE ~Fail(w)
    <2> DEFINE j == job[w]
    <2>1. /\ journal' = Posted(j) /\ Debit(j.from, j.amount) /\ Credit(j.to, j.amount)
          /\ account' \in Projection(j) /\ UNCHANGED funded /\ End(w)
      BY <1>2 DEF Post
    <2>2. /\ j \in Movement
          /\ j.target # NoJournal => journal[j.target] # NoJournal
      BY DEF Post, LockInv, JobShape, MovementSteps
    <2>3. journal' \in [JournalKey -> Journal \cup {NoJournal}] /\ JournalsStay
      BY <2>1, <2>2, PostedType DEF LockInv, JournalsStay
    <2>4. account' \in [Account -> [status : AccountStatus, available : Int]]
      BY <2>1, <2>2, ProjectionType DEF LockInv
    <2>5. j.amount \in Nat /\ j.from \in Account /\ j.to \in Account
      BY <2>2, MovementAmount DEF Movement
    <2>6. credits' \in [Account -> Nat] /\ debits' \in [Account -> Nat]
      <3>1. /\ credits' = [credits EXCEPT ![j.to] = @ + j.amount]
            /\ debits' = [debits EXCEPT ![j.from] = @ + j.amount]
        BY <2>1 DEF Debit, Credit
      <3>2. credits \in [Account -> Nat] /\ debits \in [Account -> Nat]
        BY DEF LockInv, TypeOK
      <3> HIDE DEF j
      <3> QED
        BY <2>5, <3>1, <3>2
    <2>7. TypeOK'
      BY <2>1, <2>3, <2>4, <2>6, EndReleases DEF LockInv, TypeOK
    <2> QED
      BY <2>1, <2>3, <2>7, EndKeepsLockInv DEF LockInv
  <1> QED
    BY <1>1, <1>2

LEMMA PostFundingKeepsLockInv ==
  ASSUME LockInv, NEW w \in Worker, PostFunding(w)
  PROVE  LockInv'
  <1> DEFINE j == job[w]
  <1>1. j \in Funding /\ End(w) /\ UNCHANGED <<debits, journal>>
    BY DEF PostFunding, LockInv, JobShape
  <1>2. j.to \in Account /\ j.amount \in Nat /\ j.seenTo \in Int
    BY <1>1, AmountAssumption DEF Funding
  <1>3. funded' \in [Project -> Nat] /\ credits' \in [Account -> Nat]
    <2>1. projectOf[j.to] \in Project
      BY <1>2, ProjectAssumption
    <2> QED
      BY <1>2, <2>1 DEF PostFunding, Credit, LockInv, TypeOK
  <1>4. account' \in [Account -> [status : AccountStatus, available : Int]]
    <2>1. account' = [account EXCEPT ![j.to].available = j.seenTo + j.amount]
      BY DEF PostFunding
    <2>2. j.seenTo + j.amount \in Int
      BY <1>2
    <2> QED
      BY <1>2, <2>1, <2>2 DEF LockInv, TypeOK
  <1>5. TypeOK'
    BY <1>1, <1>3, <1>4, EndReleases DEF LockInv, TypeOK
  <1> QED
    BY <1>1, <1>5, EndKeepsLockInv DEF LockInv, JournalsStay

LEMMA ApplyStatusKeepsLockInv ==
  ASSUME LockInv, NEW w \in Worker, ApplyStatus(w)
  PROVE  LockInv'
  <1>1. job[w] \in StatusChange /\ End(w) /\ UNCHANGED <<credits, debits, journal, funded>>
    BY DEF ApplyStatus, LockInv, JobShape
  <1>2. account' \in [Account -> [status : AccountStatus, available : Int]]
    BY <1>1 DEF ApplyStatus, StatusChange, LockInv, TypeOK
  <1>3. TypeOK'
    BY <1>1, <1>2, EndReleases DEF LockInv, TypeOK
  <1> QED
    BY <1>1, <1>3, EndKeepsLockInv DEF LockInv, JournalsStay

\* The types and the lock discipline are inductive.
LEMMA StepKeepsLockInv ==
  ASSUME LockInv, [Next]_vars
  PROVE  LockInv'
  <1>1. CASE UNCHANGED vars
    <2>1. TypeOK' /\ JournalsStay
      BY <1>1 DEF vars, LockInv, TypeOK, JournalsStay
    <2>2. \A v \in Worker : pc'[v] = pc[v] /\ job'[v] = job[v] /\ Held(v)' = Held(v)
      BY <1>1 DEF vars, Held
    <2> QED
      BY <2>1, <2>2, FrameOfOthers DEF LockInv
  <1>2. ASSUME NEW w \in Worker, Start(w) \/ WaitingStep(w) \/ LocalStep(w) \/ Abort(w)
        PROVE  LockInv'
    BY <1>2, StartKeepsLockInv, LockSourceKeepsLockInv, AcquireLockKeepsLockInv,
       ReadDestinationKeepsLockInv, CheckReferenceKeepsLockInv, ReadAccountsKeepsLockInv,
       CheckFundsKeepsLockInv, PostKeepsLockInv, PostFundingKeepsLockInv,
       ApplyStatusKeepsLockInv, FailKeepsLockInv DEF WaitingStep, LocalStep, Abort
  <1> QED
    BY <1>1, <1>2 DEF Next

LEMMA InitLockInv == Init => LockInv
  <1> SUFFICES ASSUME Init PROVE LockInv
    OBVIOUS
  <1>1. TypeOK
    BY OpeningAssumption, BoundAssumption DEF Init, TypeOK, AccountStatus, Steps
  <1>2. ASSUME NEW w \in Worker PROVE JobShape(w) /\ LockDiscipline(w)
    <2>1. pc[w] = "idle" /\ Held(w) = {}
      BY WorkerAssumption DEF Init, Held
    <2> QED
      BY <2>1 DEF JobShape, LockDiscipline, MovementSteps, Unlocked
  <1> QED
    BY <1>1, <1>2 DEF LockInv

THEOREM LockInvHolds == Spec => []LockInv
  BY InitLockInv, StepKeepsLockInv, PTL DEF Spec

\* The state of the ledger and of its requests is always well formed: a job at
\* a step is one the step can run, sums stay natural numbers.
THEOREM TypeCorrect == Spec => []TypeOK
  <1>1. LockInv => TypeOK
    BY DEF LockInv
  <1> QED
    BY <1>1, LockInvHolds, PTL

-----------------------------------------------------------------------------
(* Safety.                                                                 *)

\* A request that passed the balance check is still covered when it posts: its
\* transaction holds the source row, so nobody else has debited the account.
FundsReserved(w) ==
  pc[w] = "posting" => Balance(job[w].from) >= job[w].amount

FundsInv == NoOverdraft /\ \A w \in Worker : FundsReserved(w)

LEMMA BalanceType ==
  ASSUME LockInv
  PROVE  \A a \in Account : Balance(a) \in Int
  <1>1. \A a \in Account : credits[a] \in Nat /\ debits[a] \in Nat
    BY DEF LockInv, TypeOK
  <1> QED
    BY <1>1 DEF Balance

\* A step of one worker leaves the requests of the others alone.
LEMMA OthersStay ==
  ASSUME LockInv, NEW w \in Worker, Start(w) \/ WaitingStep(w) \/ LocalStep(w) \/ Abort(w)
  PROVE  \A v \in Worker \ {w} : pc'[v] = pc[v] /\ job'[v] = job[v]
  <1>1. pc \in [Worker -> Steps] /\ DOMAIN job = Worker
    BY DEF LockInv, TypeOK
  <1>2. CASE Start(w)
    BY <1>1, <1>2 DEF Start, StartTransfer, StartInternal, StartReversal, StartFunding,
       StartStatusChange, Begin
  <1>3. CASE WaitingStep(w)
    BY <1>1, <1>3 DEF WaitingStep, LockSource, AcquireLock, PostFunding, ApplyStatus, GoTo, End
  <1>4. CASE LocalStep(w)
    BY <1>1, <1>4 DEF LocalStep, ReadDestination, CheckReference, ReadAccounts, CheckFunds,
       Post, GoTo, Fail, End
  <1>5. CASE Abort(w)
    BY <1>1, <1>5 DEF Abort, Fail, End
  <1> QED
    BY <1>2, <1>3, <1>4, <1>5

\* What a step of a worker can do to the balances.
Unharmed == \A a \in Account : Balance(a)' >= Balance(a)

DebitedAtMost(from, amount) ==
  \A a \in Account : Balance(a)' >= IF a = from THEN Balance(a) - amount ELSE Balance(a)

\* Only a post takes money out of an account, and only the amount of its request
\* out of the account it debits.
LEMMA OnlyPostDebits ==
  ASSUME LockInv, NEW w \in Worker, Start(w) \/ WaitingStep(w) \/ LocalStep(w) \/ Abort(w)
  PROVE  \/ Unharmed
         \/ /\ pc[w] = "posting" /\ pc'[w] = "idle"
            /\ DebitedAtMost(job[w].from, job[w].amount)
  <1>1. credits \in [Account -> Nat] /\ debits \in [Account -> Nat]
    BY DEF LockInv, TypeOK
  <1>2. CASE UNCHANGED <<credits, debits>>
    BY <1>1, <1>2, BalanceType DEF Balance, Unharmed
  <1>3. CASE PostFunding(w)
    <2>1. job[w] \in Funding
      BY <1>3 DEF PostFunding, LockInv, JobShape
    <2>2. job[w].to \in Account /\ job[w].amount \in Nat
      <3>1. \A n \in Amount : n \in Nat
        BY AmountAssumption
      <3> QED
        BY <2>1, <3>1 DEF Funding
    <2>3. debits' = debits /\ credits' = [credits EXCEPT ![job[w].to] = @ + job[w].amount]
      BY <1>3 DEF PostFunding, Credit
    <2> QED
      BY <1>1, <2>2, <2>3 DEF Unharmed, Balance
  <1>4. CASE Post(w) /\ ~Fail(w)
    <2> DEFINE j == job[w]
    <2>1. j \in Movement /\ pc[w] = "posting"
      BY <1>4 DEF Post, LockInv, JobShape, MovementSteps
    <2>2. j.from \in Account /\ j.to \in Account /\ j.amount \in Nat
      BY <2>1, MovementAmount DEF Movement
    <2>3. /\ debits' = [debits EXCEPT ![j.from] = @ + j.amount]
          /\ credits' = [credits EXCEPT ![j.to] = @ + j.amount]
          /\ End(w)
      BY <1>4 DEF Post, Debit, Credit
    <2>4. pc'[w] = "idle"
      BY <2>3, EndReleases DEF LockInv
    <2> HIDE DEF j
    <2>5. ASSUME NEW a \in Account, a # j.from
          PROVE  Balance(a)' >= Balance(a)
      <3>1. debits'[a] = debits[a] /\ credits'[a] >= credits[a]
        BY <1>1, <2>2, <2>3, <2>5
      <3>2. credits'[a] \in Nat /\ credits[a] \in Nat /\ debits[a] \in Nat
        BY <1>1, <2>2, <2>3
      <3> QED
        BY <3>1, <3>2 DEF Balance
    <2>6. ASSUME NEW a \in Account, a = j.from
          PROVE  Balance(a)' >= Balance(a) - j.amount
      <3>1. debits'[a] = debits[a] + j.amount /\ credits'[a] >= credits[a]
        BY <1>1, <2>2, <2>3, <2>6
      <3>2. credits'[a] \in Nat /\ credits[a] \in Nat /\ debits[a] \in Nat
        BY <1>1, <2>2, <2>3
      <3> QED
        BY <2>2, <3>1, <3>2 DEF Balance
    <2>7. DebitedAtMost(j.from, j.amount)
      BY <2>5, <2>6 DEF DebitedAtMost
    <2> QED
      BY <2>1, <2>4, <2>7 DEF j
  <1>5. CASE Start(w)
    BY <1>2, <1>5 DEF Start, StartTransfer, StartInternal, StartReversal, StartFunding,
       StartStatusChange, Begin, tables
  <1>6. CASE Fail(w)
    BY <1>2, <1>6 DEF Fail, tables
  <1>7. CASE WaitingStep(w)
    BY <1>2, <1>3, <1>7 DEF WaitingStep, LockSource, AcquireLock, ApplyStatus, tables
  <1>8. CASE LocalStep(w)
    BY <1>2, <1>4, <1>6, <1>8 DEF LocalStep, ReadDestination, CheckReference, ReadAccounts,
       CheckFunds, tables
  <1> QED
    BY <1>5, <1>6, <1>7, <1>8 DEF Abort

\* A request reaches the posting step only through the balance check.
LEMMA PostingIsChecked ==
  ASSUME LockInv, NEW w \in Worker, Start(w) \/ WaitingStep(w) \/ LocalStep(w) \/ Abort(w),
         pc'[w] = "posting"
  PROVE  /\ job'[w] = job[w] /\ UNCHANGED <<credits, debits>>
         /\ Balance(job[w].from) >= job[w].amount
         /\ projectOf[job[w].from] = job[w].project
  <1>1. pc \in [Worker -> Steps]
    BY DEF LockInv, TypeOK
  <1>2. ~Fail(w) /\ ~End(w)
    BY <1>1 DEF Fail, End
  <1>3. ~Start(w)
    BY <1>1 DEF Start, StartTransfer, StartInternal, StartReversal, StartFunding,
       StartStatusChange, Begin
  <1>4. ~WaitingStep(w)
    BY <1>1, <1>2 DEF WaitingStep, LockSource, AcquireLock, PostFunding, ApplyStatus, GoTo
  <1>5. CheckFunds(w)
    BY <1>1, <1>2, <1>3, <1>4 DEF LocalStep, ReadDestination, CheckReference, ReadAccounts,
       Post, GoTo, Abort
  <1> QED
    BY <1>2, <1>5 DEF CheckFunds, tables

LEMMA StepKeepsFundsInv ==
  ASSUME LockInv, FundsInv, [Next]_vars
  PROVE  FundsInv'
  <1>1. CASE UNCHANGED vars
    BY <1>1 DEF vars, FundsInv, FundsReserved, NoOverdraft, Balance
  <1>2. ASSUME NEW w \in Worker, Start(w) \/ WaitingStep(w) \/ LocalStep(w) \/ Abort(w)
        PROVE  FundsInv'
    <2>1. \A a \in Account : Balance(a) \in Int /\ Balance(a)' \in Int
      <3>1. LockInv'
        BY <1>2, StepKeepsLockInv DEF Next
      <3> QED
        BY <3>1, BalanceType DEF LockInv, TypeOK, Balance
    <2>2. \A v \in Worker \ {w} : pc'[v] = pc[v] /\ job'[v] = job[v]
      BY <1>2, OthersStay
    <2>3. \A v \in Worker : pc[v] = "posting" =>
            /\ job[v].from \in Account /\ job[v].amount \in Nat
            /\ lock[job[v].from] = v
      <3> SUFFICES ASSUME NEW v \in Worker, pc[v] = "posting"
                   PROVE  /\ job[v].from \in Account /\ job[v].amount \in Nat
                          /\ lock[job[v].from] = v
        OBVIOUS
      <3>1. job[v] \in Movement /\ Held(v) = Needed(v)
        BY DEF LockInv, JobShape, LockDiscipline, MovementSteps
      <3> QED
        BY <3>1, MovementAmount DEF Movement, Held, Needed
    <2>4. FundsReserved(w)'
      BY <1>2, PostingIsChecked DEF FundsReserved, Balance
    <2>5. CASE Unharmed
      <3>1. NoOverdraft'
        BY <2>1, <2>5 DEF FundsInv, NoOverdraft, Unharmed
      <3>2. \A v \in Worker \ {w} : FundsReserved(v)'
        BY <2>1, <2>2, <2>3, <2>5 DEF FundsInv, FundsReserved, Unharmed
      <3> QED
        BY <2>4, <3>1, <3>2 DEF FundsInv
    <2>6. CASE /\ pc[w] = "posting" /\ pc'[w] = "idle"
               /\ DebitedAtMost(job[w].from, job[w].amount)
      <3>1. Balance(job[w].from) >= job[w].amount
        BY <2>6 DEF FundsInv, FundsReserved
      <3>2. NoOverdraft'
        <4> SUFFICES ASSUME NEW a \in Account
                     PROVE  Balance(a)' >= 0
          BY DEF NoOverdraft
        <4>1. CASE a = job[w].from
          BY <2>1, <2>3, <2>6, <3>1, <4>1 DEF DebitedAtMost
        <4>2. CASE a # job[w].from
          BY <2>1, <2>6, <4>2 DEF DebitedAtMost, FundsInv, NoOverdraft
        <4> QED
          BY <4>1, <4>2
      <3>3. ASSUME NEW v \in Worker \ {w}
            PROVE  FundsReserved(v)'
        <4> SUFFICES ASSUME pc[v] = "posting"
                     PROVE  Balance(job[v].from)' >= job'[v].amount
          BY <2>2 DEF FundsReserved
        <4> DEFINE a == job[v].from
        <4>1. a # job[w].from /\ a \in Account /\ job[v].amount \in Nat
          BY <2>3, <2>6
        <4>2. Balance(a) >= job[v].amount
          BY DEF FundsInv, FundsReserved
        <4>3. \A c \in Account : c # job[w].from => Balance(c)' >= Balance(c)
          BY <2>6 DEF DebitedAtMost
        <4>4. \A c \in Account : c = a => Balance(c)' >= job[v].amount
          BY <2>1, <4>1, <4>2, <4>3
        <4>5. job'[v].from = a /\ job'[v].amount = job[v].amount
          BY <2>2
        <4> QED
          BY <4>1, <4>4, <4>5
      <3> QED
        BY <2>4, <3>2, <3>3 DEF FundsInv
    <2> QED
      BY <1>2, <2>5, <2>6, OnlyPostDebits
  <1> QED
    BY <1>1, <1>2 DEF Next

\* Nothing is spent before the first request.
LEMMA InitFundsInv == Init => FundsInv
  <1> SUFFICES ASSUME Init PROVE FundsInv
    OBVIOUS
  <1>1. NoOverdraft
    BY OpeningAssumption DEF Init, NoOverdraft, Balance
  <1>2. \A w \in Worker : FundsReserved(w)
    BY DEF Init, FundsReserved
  <1> QED
    BY <1>1, <1>2 DEF FundsInv

\* No interleaving of transfers, reversals, funding and status changes spends
\* money an account does not have.
THEOREM NeverOverdrawn == Spec => []NoOverdraft
  <1>1. FundsInv => NoOverdraft
    BY DEF FundsInv
  <1> QED
    BY <1>1, InitFundsInv, LockInvHolds, StepKeepsFundsInv, PTL DEF Spec

-----------------------------------------------------------------------------
(* Reversals.                                                              *)

\* A posted reversal mirrors a posted journal that points back at it.
MirrorsItsTarget(k) ==
  LET t == journal[k].reverses
  IN t # NoJournal =>
       /\ journal[t] # NoJournal /\ journal[t].reversal = k
       /\ journal[t].from = journal[k].to /\ journal[t].to = journal[k].from
       /\ journal[t].amount = journal[k].amount

\* The link of a reversed journal is determined by the journal: only the
\* project of the account that was credited can have reversed it, under the
\* one reference the journal's own reference leads to.
LinkIsDetermined(k) ==
  LET r == journal[k].reversal
  IN r # NoJournal => r = ReversalKey(projectOf[journal[k].to], k) /\ journal[r] # NoJournal

\* A reversal in flight is about the journal it read.
ReversesItsTarget(w) ==
  LET j == job[w]
      t == journal[j.target]
  IN pc[w] \in MovementSteps /\ j.target # NoJournal =>
       /\ j.from = t.to /\ j.to = t.from /\ j.amount = t.amount
       /\ j.key = ReversalKey(j.project, j.target)
       /\ pc[w] = "posting" => projectOf[j.from] = j.project

JournalInv ==
  /\ \A k \in JournalKey : journal[k] # NoJournal => MirrorsItsTarget(k) /\ LinkIsDetermined(k)
  /\ \A w \in Worker : ReversesItsTarget(w)

\* What worker w commits when its request posts.
Commits(w) ==
  /\ pc[w] = "posting" /\ pc'[w] = "idle"
  /\ journal[job[w].key] = NoJournal
  /\ journal' = Posted(job[w])

LEMMA OnlyPostWritesJournals ==
  ASSUME LockInv, NEW w \in Worker, Start(w) \/ WaitingStep(w) \/ LocalStep(w) \/ Abort(w)
  PROVE  Commits(w) \/ UNCHANGED journal
  <1>1. CASE Start(w)
    BY <1>1 DEF Start, StartTransfer, StartInternal, StartReversal, StartFunding,
       StartStatusChange, Begin, tables
  <1>2. CASE WaitingStep(w)
    BY <1>2 DEF WaitingStep, LockSource, AcquireLock, PostFunding, ApplyStatus, tables
  <1>3. CASE Fail(w)
    BY <1>3 DEF Fail, tables
  <1>4. CASE Post(w) /\ ~Fail(w)
    BY <1>4, EndReleases DEF Post, Unposted, Commits, LockInv
  <1>5. CASE LocalStep(w)
    BY <1>3, <1>4, <1>5 DEF LocalStep, ReadDestination, CheckReference, ReadAccounts,
       CheckFunds, tables
  <1> QED
    BY <1>1, <1>2, <1>3, <1>5 DEF Abort

\* A commit adds one row; of the rows that were there it changes only the link of
\* the target of a reversal, which was not linked before.
LEMMA CommitAddsOneRow ==
  ASSUME LockInv, JournalInv, NEW w \in Worker, Commits(w)
  PROVE  /\ job[w] \in Movement
         /\ journal'[job[w].key] = [from |-> job[w].from, to |-> job[w].to,
                                     amount |-> job[w].amount,
                                     reverses |-> job[w].target, reversal |-> NoJournal]
         /\ job[w].target # NoJournal =>
              /\ job[w].target \in JournalKey
              /\ journal[job[w].target] \in Journal
              /\ journal[job[w].target].reversal = NoJournal
              /\ journal'[job[w].target] =
                   [journal[job[w].target] EXCEPT !.reversal = job[w].key]
         /\ \A k \in JournalKey \ {job[w].key, job[w].target} : journal'[k] = journal[k]
  <1> DEFINE j == job[w]
  <1>1. /\ j \in Movement
        /\ j.target # NoJournal => journal[j.target] # NoJournal
    BY DEF Commits, LockInv, JobShape, MovementSteps
  <1>2. j.key \in JournalKey /\ j.target \in JournalKey \cup {NoJournal}
    BY <1>1 DEF Movement
  <1>3. journal \in [JournalKey -> Journal \cup {NoJournal}]
    BY DEF LockInv, TypeOK
  <1>4. ASSUME j.target # NoJournal
        PROVE  journal[j.target] \in Journal /\ journal[j.target].reversal = NoJournal
    <2>1. journal[j.target] \in Journal /\ journal[j.target] # NoJournal
      BY <1>1, <1>2, <1>3, <1>4
    <2>2. j.key = ReversalKey(projectOf[journal[j.target].to], j.target)
      BY <1>4 DEF Commits, JournalInv, ReversesItsTarget, MovementSteps
    <2>3. journal[j.target].reversal \in {NoJournal, j.key}
      BY <1>2, <1>4, <2>1, <2>2 DEF JournalInv, LinkIsDetermined
    <2>4. journal[j.target].reversal # j.key
      <3>1. journal[j.key] = NoJournal
        BY DEF Commits
      <3>2. j.key # NoJournal
        BY <1>2, NoJournalAssumption
      <3> QED
        BY <1>2, <1>4, <2>1, <3>1, <3>2 DEF JournalInv, LinkIsDetermined
    <2> QED
      BY <2>1, <2>3, <2>4
  <1>5. j.target # j.key
    BY <1>1, <1>2, NoJournalAssumption DEF Commits
  <1> DEFINE linked == IF j.target = NoJournal THEN journal
                       ELSE [journal EXCEPT ![j.target].reversal = j.key]
             row == [from |-> j.from, to |-> j.to, amount |-> j.amount,
                     reverses |-> j.target, reversal |-> NoJournal]
  <1>6. journal' = [linked EXCEPT ![j.key] = row]
    BY DEF Commits, Posted
  <1>7. /\ DOMAIN linked = JournalKey
        /\ \A k \in JournalKey \ {j.target} : linked[k] = journal[k]
        /\ j.target # NoJournal =>
             linked[j.target] = [journal[j.target] EXCEPT !.reversal = j.key]
    BY <1>2, <1>3
  <1> HIDE DEF linked, row
  <1>8. journal'[j.key] = row
    BY <1>2, <1>6, <1>7
  <1>9. \A k \in JournalKey \ {j.key} : journal'[k] = linked[k]
    BY <1>6, <1>7
  <1> HIDE DEF j
  <1>10. j.target # NoJournal =>
           journal'[j.target] = [journal[j.target] EXCEPT !.reversal = j.key]
    BY <1>2, <1>5, <1>7, <1>9
  <1>11. \A k \in JournalKey \ {j.key, j.target} : journal'[k] = journal[k]
    BY <1>7, <1>9
  <1> QED
    BY <1>1, <1>2, <1>4, <1>8, <1>10, <1>11 DEF j, row

\* Posted rows keep what they say; only a missing link may be filled in.
RowsAreFinal ==
  \A k \in JournalKey : journal[k] # NoJournal =>
    /\ journal'[k] # NoJournal
    /\ [journal'[k] EXCEPT !.reversal = journal[k].reversal] = journal[k]
    /\ journal[k].reversal # NoJournal => journal'[k] = journal[k]

LEMMA StepKeepsRows ==
  ASSUME LockInv, JournalInv, [Next]_vars
  PROVE  RowsAreFinal
  <1>1. \A k \in JournalKey : journal[k] # NoJournal =>
          journal[k] \in Journal
          /\ [journal[k] EXCEPT !.reversal = journal[k].reversal] = journal[k]
    BY DEF LockInv, TypeOK, Journal
  <1>2. CASE UNCHANGED journal
    BY <1>1, <1>2 DEF RowsAreFinal
  <1>3. ASSUME NEW w \in Worker, Commits(w)
        PROVE  RowsAreFinal
    <2> SUFFICES ASSUME NEW k \in JournalKey, journal[k] # NoJournal
                 PROVE  /\ journal'[k] # NoJournal
                        /\ [journal'[k] EXCEPT !.reversal = journal[k].reversal] = journal[k]
                        /\ journal[k].reversal # NoJournal => journal'[k] = journal[k]
      BY DEF RowsAreFinal
    <2>1. k # job[w].key
      BY <1>3 DEF Commits
    <2>2. CASE k = job[w].target
      <3>1. k # NoJournal
        BY NoJournalAssumption
      <3>2. /\ journal[k] \in Journal /\ journal[k].reversal = NoJournal
            /\ journal'[k] = [journal[k] EXCEPT !.reversal = job[w].key]
        BY <1>3, <2>2, <3>1, CommitAddsOneRow
      <3>3. job[w].key \in JournalKey
        BY <1>3, CommitAddsOneRow DEF Movement
      <3>4. journal'[k] \in Journal
        BY <3>2, <3>3 DEF Journal
      <3>5. [journal'[k] EXCEPT !.reversal = journal[k].reversal] = journal[k]
        BY <3>2 DEF Journal
      <3> QED
        BY <3>2, <3>4, <3>5, NoJournalAssumption
    <2>3. CASE k # job[w].target
      <3>1. journal'[k] = journal[k]
        BY <1>3, <2>1, <2>3, CommitAddsOneRow
      <3> QED
        BY <1>1, <3>1
    <2> QED
      BY <2>2, <2>3
  <1>4. ASSUME NEW w \in Worker, Start(w) \/ WaitingStep(w) \/ LocalStep(w) \/ Abort(w)
        PROVE  RowsAreFinal
    BY <1>2, <1>3, <1>4, OnlyPostWritesJournals
  <1>5. CASE UNCHANGED vars
    BY <1>2, <1>5 DEF vars
  <1> QED
    BY <1>4, <1>5 DEF Next

\* What a movement is about does not change while it is in flight.
SameMovement(w) ==
  /\ pc[w] \in MovementSteps
  /\ job'[w].target = job[w].target /\ job'[w].key = job[w].key
  /\ job'[w].from = job[w].from /\ job'[w].to = job[w].to
  /\ job'[w].amount = job[w].amount /\ job'[w].project = job[w].project

LEMMA MovementStays ==
  ASSUME LockInv, NEW w \in Worker, WaitingStep(w) \/ LocalStep(w) \/ Abort(w),
         pc'[w] \in MovementSteps
  PROVE  SameMovement(w)
  <1>1. pc \in [Worker -> Steps] /\ DOMAIN job = Worker
    BY DEF LockInv, TypeOK
  <1>2. ~Fail(w) /\ ~End(w)
    BY <1>1 DEF Fail, End, MovementSteps
  <1>3. pc[w] \in MovementSteps => job[w] \in Movement
    BY DEF LockInv, JobShape
  <1>4. CASE UNCHANGED job /\ pc[w] \in MovementSteps
    BY <1>4 DEF SameMovement
  <1>5. CASE WaitingStep(w)
    BY <1>2, <1>4, <1>5 DEF WaitingStep, LockSource, AcquireLock, PostFunding, ApplyStatus,
       MovementSteps
  <1>6. CASE ReadDestination(w)
    <2>1. pc[w] \in MovementSteps
      BY <1>6 DEF ReadDestination, MovementSteps
    <2>2. job'[w] = [job[w] EXCEPT !.seenTo = account[job[w].to].available]
      BY <1>1, <1>2, <1>6 DEF ReadDestination
    <2> QED
      BY <1>3, <2>1, <2>2 DEF SameMovement, Movement
  <1>7. CASE ReadAccounts(w)
    <2>1. pc[w] \in MovementSteps
      BY <1>7 DEF ReadAccounts, MovementSteps
    <2>2. job'[w] = [job[w] EXCEPT !.seenFrom = account[job[w].from].available,
                                   !.seenTo = account[job[w].to].available]
      BY <1>1, <1>2, <1>7 DEF ReadAccounts
    <2> QED
      BY <1>3, <2>1, <2>2 DEF SameMovement, Movement
  <1>8. CASE CheckReference(w) \/ CheckFunds(w)
    BY <1>2, <1>4, <1>8 DEF CheckReference, CheckFunds, MovementSteps
  <1> QED
    BY <1>2, <1>5, <1>6, <1>7, <1>8 DEF LocalStep, Post, Abort

LEMMA StepKeepsReversalJobs ==
  ASSUME LockInv, JournalInv, [Next]_vars
  PROVE  \A w \in Worker : ReversesItsTarget(w)'
  <1> SUFFICES ASSUME NEW v \in Worker, pc'[v] \in MovementSteps, job'[v].target # NoJournal
               PROVE  ReversesItsTarget(v)'
    BY DEF ReversesItsTarget
  <1>1. ASSUME SameMovement(v),
               pc'[v] = "posting" => pc[v] = "posting" \/ projectOf[job[v].from] = job[v].project
        PROVE  ReversesItsTarget(v)'
    <2> DEFINE t == job[v].target
    <2>1. job[v] \in Movement /\ t # NoJournal /\ journal[t] # NoJournal
      BY <1>1 DEF SameMovement, LockInv, JobShape
    <2>2. t \in JournalKey /\ journal[t] \in Journal
      BY <2>1 DEF Movement, LockInv, TypeOK
    <2>3. [journal'[t] EXCEPT !.reversal = journal[t].reversal] = journal[t]
      BY <2>1, <2>2, StepKeepsRows DEF RowsAreFinal
    <2>4. LockInv'
      BY StepKeepsLockInv
    <2>5. journal'[t] \in Journal
      BY <2>1, <2>2, <2>4, StepKeepsRows DEF RowsAreFinal, LockInv, TypeOK
    <2>6. /\ journal'[t].from = journal[t].from /\ journal'[t].to = journal[t].to
          /\ journal'[t].amount = journal[t].amount
      BY <2>2, <2>3, <2>5 DEF Journal
    <2>7. /\ job[v].from = journal[t].to /\ job[v].to = journal[t].from
          /\ job[v].amount = journal[t].amount
          /\ job[v].key = ReversalKey(job[v].project, t)
          /\ pc[v] = "posting" => projectOf[job[v].from] = job[v].project
      BY <1>1, <2>1 DEF JournalInv, ReversesItsTarget, SameMovement
    <2> QED
      BY <1>1, <2>6, <2>7 DEF ReversesItsTarget, SameMovement, ReversalKey
  <1>2. CASE UNCHANGED <<pc, job>>
    <2>1. SameMovement(v)
      BY <1>2 DEF SameMovement
    <2> QED
      BY <1>1, <1>2, <2>1
  <1>3. ASSUME NEW w \in Worker, Start(w) \/ WaitingStep(w) \/ LocalStep(w) \/ Abort(w)
        PROVE  ReversesItsTarget(v)'
    <2>1. CASE v # w
      <3>1. pc'[v] = pc[v] /\ job'[v] = job[v]
        BY <1>3, <2>1, OthersStay
      <3>2. SameMovement(v)
        BY <3>1 DEF SameMovement
      <3> QED
        BY <1>1, <3>1, <3>2
    <2>2. CASE v = w /\ ~Start(w)
      <3>1. SameMovement(v)
        BY <1>3, <2>2, MovementStays
      <3> QED
        BY <1>1, <1>3, <2>2, <3>1, PostingIsChecked
    <2>3. CASE v = w /\ Start(w)
      <3>1. pc \in [Worker -> Steps] /\ DOMAIN job = Worker
        BY DEF LockInv, TypeOK
      <3>2. StartReversal(w)
        <4>1. ~StartFunding(w) /\ ~StartStatusChange(w)
          BY <2>3, <3>1 DEF StartFunding, StartStatusChange, Begin, MovementSteps
        <4>2. ASSUME StartTransfer(w) \/ StartInternal(w)
              PROVE  FALSE
          <5>1. PICK kind \in {"transfer", "internal"}, step \in {"destination", "source lock"},
                     a \in Account, b \in Account, n \in Amount, s \in Base :
                  Begin(w, step, NewMovement(kind, a, b, n, <<s, 0>>))
            BY <4>2 DEF StartTransfer, StartInternal
          <5>2. job'[w] = NewMovement(kind, a, b, n, <<s, 0>>)
            BY <5>1, <3>1 DEF Begin
          <5>3. NewMovement(kind, a, b, n, <<s, 0>>).target = NoJournal
            BY DEF NewMovement
          <5> QED
            BY <2>3, <5>2, <5>3
        <4> QED
          BY <2>3, <4>1, <4>2 DEF Start
      <3>3. PICK p \in Project, k \in JournalKey :
              /\ pc'[w] = "accounts"
              /\ job'[w] = [kind |-> "reverse", project |-> p,
                            from |-> journal[k].to, to |-> journal[k].from,
                            amount |-> journal[k].amount,
                            key |-> ReversalKey(p, k), target |-> k,
                            seenFrom |-> 0, seenTo |-> 0]
              /\ UNCHANGED journal
        BY <3>1, <3>2 DEF StartReversal, Begin, tables
      <3> QED
        BY <2>3, <3>3 DEF ReversesItsTarget, ReversalKey
    <2> QED
      BY <2>1, <2>2, <2>3
  <1> QED
    BY <1>2, <1>3 DEF Next, vars

LEMMA CommitKeepsJournals ==
  ASSUME LockInv, LockInv', JournalInv, RowsAreFinal, NEW w \in Worker, Commits(w)
  PROVE  \A k \in JournalKey : journal'[k] # NoJournal =>
           MirrorsItsTarget(k)' /\ LinkIsDetermined(k)'
  <1> DEFINE j == job[w]
  <1> SUFFICES ASSUME NEW k \in JournalKey, journal'[k] # NoJournal
               PROVE  MirrorsItsTarget(k)' /\ LinkIsDetermined(k)'
    OBVIOUS
  <1>1. /\ j \in Movement
        /\ journal'[j.key] = [from |-> j.from, to |-> j.to, amount |-> j.amount,
                              reverses |-> j.target, reversal |-> NoJournal]
        /\ j.target # NoJournal =>
             /\ j.target \in JournalKey
             /\ journal[j.target] \in Journal
             /\ journal'[j.target] = [journal[j.target] EXCEPT !.reversal = j.key]
        /\ \A i \in JournalKey \ {j.key, j.target} : journal'[i] = journal[i]
    BY CommitAddsOneRow
  <1>2. j.key \in JournalKey /\ j.key # NoJournal
    BY <1>1, NoJournalAssumption DEF Movement
  <1>3. j.target # NoJournal =>
          /\ j.from = journal[j.target].to /\ j.to = journal[j.target].from
          /\ j.amount = journal[j.target].amount
          /\ j.key = ReversalKey(projectOf[journal[j.target].to], j.target)
    BY DEF Commits, JournalInv, ReversesItsTarget, MovementSteps
  <1>4. \A i \in JournalKey : journal'[i] # NoJournal => journal'[i] \in Journal
    BY DEF LockInv, TypeOK
  <1> HIDE DEF j
  <1>5. CASE k = j.key
    <2>1. MirrorsItsTarget(k)'
      <3> SUFFICES ASSUME j.target # NoJournal
                   PROVE  /\ journal'[j.target] # NoJournal
                          /\ journal'[j.target].reversal = k
                          /\ journal'[j.target].from = j.to
                          /\ journal'[j.target].to = j.from
                          /\ journal'[j.target].amount = j.amount
        BY <1>1, <1>5 DEF MirrorsItsTarget
      <3>1. journal'[j.target] \in Journal
        BY <1>1, <1>2 DEF Journal
      <3> QED
        BY <1>1, <1>3, <1>5, <3>1, NoJournalAssumption DEF Journal
    <2>2. LinkIsDetermined(k)'
      BY <1>1, <1>5 DEF LinkIsDetermined
    <2> QED
      BY <2>1, <2>2
  <1>6. CASE k # j.key
    <2>1. journal[k] # NoJournal
      BY <1>1, <1>6, NoJournalAssumption
    <2>2. journal[k] \in Journal /\ journal'[k] \in Journal
      BY <2>1, <1>4 DEF LockInv, TypeOK
    <2>3. [journal'[k] EXCEPT !.reversal = journal[k].reversal] = journal[k]
      BY <2>1 DEF RowsAreFinal
    <2>4. /\ journal'[k].from = journal[k].from /\ journal'[k].to = journal[k].to
          /\ journal'[k].amount = journal[k].amount /\ journal'[k].reverses = journal[k].reverses
      BY <2>2, <2>3 DEF Journal
    <2>5. MirrorsItsTarget(k)'
      <3> DEFINE t == journal[k].reverses
      <3> SUFFICES ASSUME t # NoJournal
                   PROVE  /\ journal'[t] # NoJournal /\ journal'[t].reversal = k
                          /\ journal'[t].from = journal'[k].to
                          /\ journal'[t].to = journal'[k].from
                          /\ journal'[t].amount = journal'[k].amount
        BY <2>4 DEF MirrorsItsTarget
      <3>1. t \in JournalKey
        BY <2>2 DEF Journal
      <3>2. /\ journal[t] # NoJournal /\ journal[t].reversal = k
            /\ journal[t].from = journal[k].to /\ journal[t].to = journal[k].from
            /\ journal[t].amount = journal[k].amount
        BY <2>1 DEF JournalInv, MirrorsItsTarget
      <3>3. journal'[t] = journal[t]
        BY <3>1, <3>2, NoJournalAssumption DEF RowsAreFinal
      <3> QED
        BY <2>4, <3>2, <3>3
    <2>6. LinkIsDetermined(k)'
      <3>1. CASE k = j.target
        <4>1. k # NoJournal
          BY NoJournalAssumption
        <4>2. journal'[k].reversal = j.key
          BY <1>1, <2>2, <3>1, <4>1 DEF Journal
        <4>3. j.key = ReversalKey(projectOf[journal'[k].to], k)
          BY <1>3, <2>4, <3>1, <4>1
        <4>4. journal'[j.key] # NoJournal
          <5>1. journal'[j.key] \in Journal
            BY <1>1, <1>2 DEF Journal, Movement
          <5> QED
            BY <5>1, NoJournalAssumption
        <4> QED
          BY <4>2, <4>3, <4>4 DEF LinkIsDetermined, ReversalKey
      <3>2. CASE k # j.target
        <4>1. journal'[k] = journal[k]
          BY <1>1, <1>6, <3>2
        <4>2. journal[k].reversal # NoJournal =>
                /\ journal[k].reversal \in JournalKey
                /\ journal[k].reversal = ReversalKey(projectOf[journal[k].to], k)
                /\ journal[journal[k].reversal] # NoJournal
          BY <2>1, <2>2 DEF JournalInv, LinkIsDetermined, Journal
        <4> QED
          BY <4>1, <4>2 DEF LinkIsDetermined, ReversalKey, RowsAreFinal
      <3> QED
        BY <3>1, <3>2
    <2> QED
      BY <2>5, <2>6
  <1> QED
    BY <1>5, <1>6

LEMMA StepKeepsJournalInv ==
  ASSUME LockInv, JournalInv, [Next]_vars
  PROVE  JournalInv'
  <1>1. LockInv' /\ RowsAreFinal
    BY StepKeepsLockInv, StepKeepsRows
  <1>2. CASE UNCHANGED journal
    <2>1. \A k \in JournalKey : journal'[k] # NoJournal =>
            MirrorsItsTarget(k)' /\ LinkIsDetermined(k)'
      BY <1>2 DEF JournalInv, MirrorsItsTarget, LinkIsDetermined, ReversalKey
    <2> QED
      BY <2>1, StepKeepsReversalJobs DEF JournalInv
  <1>3. ASSUME NEW w \in Worker, Commits(w)
        PROVE  JournalInv'
    BY <1>1, <1>3, CommitKeepsJournals, StepKeepsReversalJobs DEF JournalInv
  <1> QED
    BY <1>2, <1>3, OnlyPostWritesJournals DEF Next, vars

LEMMA InitJournalInv == Init => JournalInv
  BY DEF Init, JournalInv, ReversesItsTarget, MovementSteps

\* A journal and its reversal stay paired: whoever reverses, and however often
\* the request is repeated or raced, a payment is paid back at most once.
THEOREM ReversalsStayPaired == Spec => []ReversalsPaired
  <1>1. JournalInv => ReversalsPaired
    <2> SUFFICES ASSUME JournalInv, NEW k \in JournalKey, NEW t \in JournalKey,
                        journal[k] # NoJournal, journal[k].reverses = t
                 PROVE  /\ journal[t] # NoJournal
                        /\ journal[t].reversal = k
                        /\ journal[t].from = journal[k].to /\ journal[t].to = journal[k].from
                        /\ journal[t].amount = journal[k].amount
      BY DEF ReversalsPaired
    <2>1. t # NoJournal
      BY NoJournalAssumption
    <2> QED
      BY <2>1 DEF JournalInv, MirrorsItsTarget
  <1> QED
    BY <1>1, InitJournalInv, LockInvHolds, StepKeepsJournalInv, PTL DEF Spec

\* The ledger is append-only: a posted journal never disappears or changes, and
\* the link to its reversal, once made, is never overwritten.
THEOREM JournalsAreFinal == Spec => PostedIsFinal
  <1>1. ASSUME LockInv, JournalInv, [Next]_vars
        PROVE  [\A k \in JournalKey : journal[k] # NoJournal =>
                  /\ journal'[k] # NoJournal
                  /\ [journal'[k] EXCEPT !.reversal = journal[k].reversal] = journal[k]
                  /\ journal[k].reversal # NoJournal => journal'[k] = journal[k]]_vars
    BY <1>1, StepKeepsRows DEF RowsAreFinal
  <1> QED
    BY <1>1, InitJournalInv, LockInvHolds, StepKeepsJournalInv, PTL DEF Spec, PostedIsFinal

-----------------------------------------------------------------------------
(* Deadlock freedom.                                                       *)

\* A finite set of numbers in which every number has a larger one is empty.
LEMMA NoEndlessClimb ==
  ASSUME NEW A, IsFiniteSet(A), A \subseteq Nat,
         \A a \in A : \E b \in A : a < b
  PROVE  A = {}
  <1> DEFINE Above(a) == {b \in A : a < b}
             Aboves == {Above(a) : a \in A}
             R == StrictSubsetOrdering(A)
  <1> SUFFICES ASSUME A # {} PROVE FALSE
    OBVIOUS
  <1>1. Aboves \subseteq FiniteSubsetsOf(A) /\ Aboves # {}
    <2>1. FiniteSubsetsOf(A) = SUBSET A
      BY FS_FiniteSubsetsOfFinite
    <2>2. Aboves \subseteq SUBSET A /\ Aboves # {}
      OBVIOUS
    <2> QED
      BY <2>1, <2>2
  <1>2. IsWellFoundedOn(R, FiniteSubsetsOf(A))
    BY FS_StrictSubsetOrderingWellFounded
  <1> HIDE DEF Aboves, R
  <1>3. PICK X \in Aboves : \A Y \in Aboves : ~(<<Y, X>> \in R)
    BY <1>1, <1>2, WFMin
  <1> USE DEF Aboves, R
  <1>4. PICK a \in A : X = Above(a)
    BY <1>3
  <1>5. PICK b \in A : a < b
    BY <1>4
  <1>6. Above(b) \subseteq Above(a) /\ Above(b) # Above(a)
    <2>1. \A c \in A : c \in Nat
      OBVIOUS
    <2>2. \A c \in A : b < c => a < c
      BY <1>4, <1>5, <2>1
    <2>3. b \in Above(a) /\ b \notin Above(b)
      BY <1>5, <2>1
    <2> QED
      BY <2>2, <2>3
  <1>7. <<Above(b), Above(a)>> \in R
    BY <1>6 DEF StrictSubsetOrdering
  <1> QED
    BY <1>3, <1>4, <1>5, <1>7

\* The row that a transfer or a reversal waits for is larger than every row it holds,
\* so that a circle of them would be an endless climb.
LEMMA SortedLocksDoNotDeadlock ==
  ASSUME LockInv
  PROVE  DeadlockFree
  <1> SUFFICES ASSUME NEW S \in SUBSET Worker,
                      \A w \in S : /\ Waiting(w) /\ lock[Awaited(w)] \in S
                                  /\ job[w].kind # "internal"
               PROVE  S = {}
    BY DEF DeadlockFree
  <1>1. ASSUME NEW w \in S
        PROVE  /\ pc[w] = "locking" /\ Awaited(w) = NextRow(w)
               /\ job[w].kind # "internal"
               /\ NextRow(w) \in Needed(w) \ Held(w) /\ NextRow(w) \in Account
    <2>1. pc[w] \in MovementSteps
      BY DEF Waiting, MovementSteps
    <2>2. pc[w] = "locking" /\ job[w].kind # "internal" /\ job[w] \in Movement
      BY <2>1 DEF Waiting, LockInv, JobShape
    <2>3. Needed(w) \ Held(w) # {}
      BY <2>2 DEF LockInv, LockDiscipline
    <2> QED
      BY <2>2, <2>3, NextRowIsLeast DEF Awaited
  <1> DEFINE A == {Awaited(w) : w \in S}
  <1>2. A \subseteq Account
    BY <1>1
  <1>3. \A a \in A : \E b \in A : a < b
    <2> SUFFICES ASSUME NEW w \in S
                 PROVE  \E v \in S : Awaited(w) < Awaited(v)
      OBVIOUS
    <2> DEFINE v == lock[Awaited(w)]
    <2>1. v \in S
      OBVIOUS
    <2>2. Awaited(w) \in Held(v)
      BY <1>1 DEF Held
    <2>3. Awaited(v) \in Needed(v) \ Held(v) /\ pc[v] = "locking" /\ job[v].kind # "internal"
      BY <1>1, <2>1
    <2>4. v \in Worker
      BY <2>1
    <2> HIDE DEF v
    <2>5. Awaited(w) < Awaited(v)
      BY <2>2, <2>3, <2>4 DEF LockInv, LockDiscipline
    <2> QED
      BY <2>1, <2>5
  <1>4. IsFiniteSet(A) /\ A \subseteq Nat
    BY <1>2, AccountAssumption, FS_Subset
  <1>5. A = {}
    <2> HIDE DEF A
    <2> QED
      BY <1>3, <1>4, NoEndlessClimb
  <1> QED
    BY <1>5

\* Transfers and reversals through LedgerService never deadlock, however many run at
\* once and whichever accounts they touch: the point of sorting the ids.  Every circle
\* of waiting requests has an internal payout in it.
THEOREM SortedLockingIsDeadlockFree == Spec => []DeadlockFree
  <1>1. LockInv => DeadlockFree
    BY SortedLocksDoNotDeadlock
  <1> QED
    BY <1>1, LockInvHolds, PTL

-----------------------------------------------------------------------------
(* Double entry.                                                           *)

\* The books: every credit is matched by a debit of an account or of the treasury.
BooksAgree ==
  SumFunction(credits) = SumFunction(Opening) + SumFunction(funded) + SumFunction(debits)

\* A step either leaves the books alone, or debits and credits the same amount, or
\* credits what it takes from the treasury.
LEMMA OnlyPostsMoveMoney ==
  ASSUME LockInv, [Next]_vars
  PROVE  \/ UNCHANGED <<credits, debits, funded>>
         \/ \E a, b \in Account, n \in Nat :
              /\ debits' = [debits EXCEPT ![a] = @ + n]
              /\ credits' = [credits EXCEPT ![b] = @ + n]
              /\ UNCHANGED funded
         \/ \E p \in Project, b \in Account, n \in Nat :
              /\ funded' = [funded EXCEPT ![p] = @ + n]
              /\ credits' = [credits EXCEPT ![b] = @ + n]
              /\ UNCHANGED debits
  <1> DEFINE Still == UNCHANGED <<credits, debits, funded>>
             Moved == \E a, b \in Account, n \in Nat :
                        /\ debits' = [debits EXCEPT ![a] = @ + n]
                        /\ credits' = [credits EXCEPT ![b] = @ + n]
                        /\ UNCHANGED funded
             Funded == \E p \in Project, b \in Account, n \in Nat :
                        /\ funded' = [funded EXCEPT ![p] = @ + n]
                        /\ credits' = [credits EXCEPT ![b] = @ + n]
                        /\ UNCHANGED debits
  <1>1. CASE UNCHANGED vars
    BY <1>1 DEF vars
  <1>2. ASSUME NEW w \in Worker, Start(w)
        PROVE  Still
    BY <1>2 DEF Start, StartTransfer, StartInternal, StartReversal, StartFunding,
       StartStatusChange, Begin, tables
  <1>3. ASSUME NEW w \in Worker, Fail(w)
        PROVE  Still
    BY <1>3 DEF Fail, tables
  <1>4. ASSUME NEW w \in Worker, WaitingStep(w), ~PostFunding(w)
        PROVE  Still
    BY <1>4 DEF WaitingStep, LockSource, AcquireLock, ApplyStatus, tables
  <1>5. ASSUME NEW w \in Worker, LocalStep(w), ~Post(w), ~Fail(w)
        PROVE  Still
    BY <1>5 DEF LocalStep, ReadDestination, CheckReference, ReadAccounts, CheckFunds, tables
  <1>6. ASSUME NEW w \in Worker, Post(w), ~Fail(w)
        PROVE  Moved
    <2>1. job[w] \in Movement
      BY <1>6 DEF Post, LockInv, JobShape, MovementSteps
    <2>2. job[w].from \in Account /\ job[w].to \in Account /\ job[w].amount \in Nat
      BY <2>1, MovementAmount DEF Movement
    <2>3. /\ debits' = [debits EXCEPT ![job[w].from] = @ + job[w].amount]
          /\ credits' = [credits EXCEPT ![job[w].to] = @ + job[w].amount]
          /\ UNCHANGED funded
      BY <1>6 DEF Post, Debit, Credit
    <2> QED
      BY <2>2, <2>3
  <1>7. ASSUME NEW w \in Worker, PostFunding(w)
        PROVE  Funded
    <2>1. job[w] \in Funding
      BY <1>7 DEF PostFunding, LockInv, JobShape
    <2>2. job[w].to \in Account /\ job[w].amount \in Nat
      <3>1. \A n \in Amount : n \in Nat
        BY AmountAssumption
      <3> QED
        BY <2>1, <3>1 DEF Funding
    <2>3. projectOf[job[w].to] \in Project
      BY <2>2, ProjectAssumption
    <2>4. /\ funded' = [funded EXCEPT ![projectOf[job[w].to]] = @ + job[w].amount]
          /\ credits' = [credits EXCEPT ![job[w].to] = @ + job[w].amount]
          /\ UNCHANGED debits
      BY <1>7 DEF PostFunding, Credit
    <2> QED
      BY <2>2, <2>3, <2>4
  <1> HIDE DEF Still, Moved, Funded
  <1>8. Still \/ Moved \/ Funded
    BY <1>1, <1>2, <1>3, <1>4, <1>5, <1>6, <1>7 DEF Next, Abort, LocalStep, WaitingStep, Still, vars
  <1> QED
    BY <1>8 DEF Still, Moved, Funded

\* Adding to one entry adds to the sum.
LEMMA SumAfterEntry ==
  ASSUME NEW S, IsFiniteSet(S), NEW f \in [S -> Int], NEW x \in S, NEW n \in Int
  PROVE  SumFunction([f EXCEPT ![x] = @ + n]) = SumFunction(f) + n
  <1> DEFINE g == [f EXCEPT ![x] = @ + n]
  <1>1. /\ DOMAIN f = S /\ DOMAIN g = S
        /\ \A y \in S : f[y] \in Int /\ g[y] \in Int
        /\ \A y \in S \ {x} : g[y] = f[y]
        /\ g[x] = f[x] + n
    OBVIOUS
  <1> HIDE DEF g
  <1>2. SumFunctionOnSet(g, S) = SumFunctionOnSet(f, S) + (g[x] - f[x])
    BY <1>1, SumChange
  <1>3. SumFunction(g) = SumFunction(f) + (g[x] - f[x])
    BY <1>1, <1>2 DEF SumFunction
  <1>4. g[x] - f[x] = n
    BY <1>1
  <1> QED
    BY <1>3, <1>4 DEF g

\* The sums of the books are integers.
LEMMA BookTypes ==
  ASSUME LockInv
  PROVE  /\ credits \in [Account -> Int] /\ debits \in [Account -> Int]
         /\ funded \in [Project -> Int] /\ Opening \in [Account -> Int]
         /\ SumFunction(credits) \in Int /\ SumFunction(debits) \in Int
         /\ SumFunction(funded) \in Int /\ SumFunction(Opening) \in Int
  <1>1. /\ credits \in [Account -> Nat] /\ debits \in [Account -> Nat]
        /\ funded \in [Project -> Nat] /\ Opening \in [Account -> Nat]
    BY OpeningAssumption DEF LockInv, TypeOK
  <1>2. IsFiniteSet(Account) /\ IsFiniteSet(Project)
    BY AccountAssumption, ProjectAssumption
  <1>3. ASSUME NEW S, IsFiniteSet(S), NEW f \in [S -> Nat]
        PROVE  f \in [S -> Int] /\ SumFunction(f) \in Int
    <2>1. DOMAIN f = S /\ \A y \in S : f[y] \in Int
      OBVIOUS
    <2>2. SumFunctionOnSet(f, S) \in Int
      BY <1>3, <2>1, SumType
    <2> QED
      BY <2>1, <2>2 DEF SumFunction
  <1> QED
    BY <1>1, <1>2, <1>3

\* No step of a request unbalances the books.
LEMMA StepKeepsBooks ==
  ASSUME LockInv, BooksAgree, [Next]_vars
  PROVE  BooksAgree'
  <1>1. IsFiniteSet(Account) /\ IsFiniteSet(Project)
    BY AccountAssumption, ProjectAssumption
  <1>2. CASE UNCHANGED <<credits, debits, funded>>
    BY <1>2 DEF BooksAgree
  <1>3. ASSUME NEW a \in Account, NEW b \in Account, NEW n \in Nat,
               debits' = [debits EXCEPT ![a] = @ + n],
               credits' = [credits EXCEPT ![b] = @ + n], UNCHANGED funded
        PROVE  BooksAgree'
    <2>1. SumFunction(debits') = SumFunction(debits) + n
      <3>1. debits \in [Account -> Int] /\ n \in Int
        BY <1>3, BookTypes
      <3>2. SumFunction([debits EXCEPT ![a] = @ + n]) = SumFunction(debits) + n
        BY <1>1, <1>3, <3>1, SumAfterEntry
      <3> QED
        BY <1>3, <3>2
    <2>2. SumFunction(credits') = SumFunction(credits) + n
      <3>1. credits \in [Account -> Int] /\ n \in Int
        BY <1>3, BookTypes
      <3>2. SumFunction([credits EXCEPT ![b] = @ + n]) = SumFunction(credits) + n
        BY <1>1, <1>3, <3>1, SumAfterEntry
      <3> QED
        BY <1>3, <3>2
    <2> QED
      BY <1>3, <2>1, <2>2, BookTypes DEF BooksAgree
  <1>4. ASSUME NEW p \in Project, NEW b \in Account, NEW n \in Nat,
               funded' = [funded EXCEPT ![p] = @ + n],
               credits' = [credits EXCEPT ![b] = @ + n], UNCHANGED debits
        PROVE  BooksAgree'
    <2>1. SumFunction(funded') = SumFunction(funded) + n
      <3>1. funded \in [Project -> Int] /\ n \in Int
        BY <1>4, BookTypes
      <3>2. SumFunction([funded EXCEPT ![p] = @ + n]) = SumFunction(funded) + n
        BY <1>1, <1>4, <3>1, SumAfterEntry
      <3> QED
        BY <1>4, <3>2
    <2>2. SumFunction(credits') = SumFunction(credits) + n
      <3>1. credits \in [Account -> Int] /\ n \in Int
        BY <1>4, BookTypes
      <3>2. SumFunction([credits EXCEPT ![b] = @ + n]) = SumFunction(credits) + n
        BY <1>1, <1>4, <3>1, SumAfterEntry
      <3> QED
        BY <1>4, <3>2
    <2> QED
      BY <1>4, <2>1, <2>2, BookTypes DEF BooksAgree
  <1> QED
    BY <1>2, <1>3, <1>4, OnlyPostsMoveMoney

\* They agree before the first request.
LEMMA InitBooks == Init => BooksAgree
  <1> SUFFICES ASSUME Init PROVE BooksAgree
    OBVIOUS
  <1>1. IsFiniteSet(Account) /\ IsFiniteSet(Project)
    BY AccountAssumption, ProjectAssumption
  <1>2. ASSUME NEW S, IsFiniteSet(S)
        PROVE  SumFunction([x \in S |-> 0]) = 0
    <2> DEFINE f == [x \in S |-> 0]
    <2>1. DOMAIN f = S /\ \A x \in S : f[x] \in Int /\ f[x] = f[x] - f[x]
      OBVIOUS
    <2> HIDE DEF f
    <2>2. SumFunctionOnSet(f, S) = SumFunctionOnSet(f, S) - SumFunctionOnSet(f, S)
      BY <1>2, <2>1, SumMinus
    <2>3. SumFunctionOnSet(f, S) \in Int
      BY <1>2, <2>1, SumType
    <2>4. SumFunction(f) = 0
      BY <2>1, <2>2, <2>3 DEF SumFunction
    <2> QED
      BY <2>4 DEF f
  <1>3. SumFunction(funded) = 0 /\ SumFunction(debits) = 0
    BY <1>1, <1>2 DEF Init
  <1>4. SumFunction(Opening) \in Int
    BY InitLockInv, BookTypes
  <1> QED
    BY <1>3, <1>4 DEF BooksAgree, Init

\* Double entry: no interleaving of transfers, reversals, funding and status
\* changes, and no crash, makes or loses money, over any finite set of accounts.
THEOREM BooksAlwaysBalance == Spec => []Balanced
  <1>1. LockInv /\ BooksAgree => Balanced
    <2> SUFFICES ASSUME LockInv, BooksAgree PROVE Balanced
      OBVIOUS
    <2> DEFINE balances == [a \in Account |-> Balance(a)]
    <2>1. /\ DOMAIN balances = Account
          /\ \A a \in Account : balances[a] = credits[a] - debits[a]
      BY DEF Balance
    <2>2. /\ DOMAIN credits = Account /\ DOMAIN debits = Account
          /\ \A a \in Account : credits[a] \in Int /\ debits[a] \in Int
      BY BookTypes
    <2> HIDE DEF balances
    <2>3. SumFunctionOnSet(balances, Account) =
            SumFunctionOnSet(credits, Account) - SumFunctionOnSet(debits, Account)
      <3>1. IsFiniteSet(Account)
        BY AccountAssumption
      <3> QED
        BY <2>1, <2>2, <3>1, SumMinus
    <2>4. SumFunction(balances) = SumFunction(credits) - SumFunction(debits)
      BY <2>1, <2>2, <2>3 DEF SumFunction
    <2>5. SumFunction(balances) = SumFunction(Opening) + SumFunction(funded)
      BY <2>4, BookTypes DEF BooksAgree
    <2> QED
      BY <2>5 DEF Balanced, balances
  <1> QED
    BY <1>1, InitBooks, LockInvHolds, StepKeepsBooks, PTL DEF Spec

-----------------------------------------------------------------------------
(* The cached balances.                                                    *)

\* A commit between two different wallets leaves each of them the error of the copy
\* that was written.
LEMMA CommitDrifts ==
  ASSUME LockInv, NEW w \in Worker, Post(w), ~Fail(w), job[w].from # job[w].to,
         NEW a \in Account
  PROVE  Drift(a)' = Drift(a) \/ LosesUpdate(w, a)
  <1>1. PICK j : j = job[w]
    OBVIOUS
  <1>2. j \in Movement /\ pc[w] = "posting"
    BY <1>1 DEF Post, LockInv, JobShape, MovementSteps
  <1>3. /\ j.from \in Account /\ j.to \in Account /\ j.amount \in Int /\ j.from # j.to
        /\ j.seenFrom \in Int /\ j.seenTo \in Int
    BY <1>1, <1>2, MovementAmount DEF Movement
  <1>4. /\ debits' = [debits EXCEPT ![j.from] = @ + j.amount]
        /\ credits' = [credits EXCEPT ![j.to] = @ + j.amount]
        /\ account' = [account EXCEPT ![j.from].available = j.seenFrom - j.amount,
                                      ![j.to].available = j.seenTo + j.amount]
    BY <1>1, <1>3 DEF Post, Debit, Credit, Projection
  <1>5. /\ credits[a] \in Int /\ debits[a] \in Int
        /\ credits \in [Account -> Nat] /\ debits \in [Account -> Nat]
        /\ account \in [Account -> [status : AccountStatus, available : Int]]
    BY DEF LockInv, TypeOK
  <1>6. CASE a = j.from
    <2>1. account'[a].available = j.seenFrom - j.amount
      BY <1>3, <1>4, <1>5, <1>6
    <2>2. debits'[a] = debits[a] + j.amount /\ credits'[a] = credits[a]
      BY <1>3, <1>4, <1>5, <1>6
    <2>3. Drift(a)' = j.seenFrom - Balance(a)
      BY <1>3, <1>5, <2>1, <2>2 DEF Drift, Balance
    <2> QED
      BY <1>1, <1>2, <1>6, <2>3 DEF LosesUpdate
  <1>7. CASE a = j.to
    <2>1. account'[a].available = j.seenTo + j.amount
      BY <1>3, <1>4, <1>5, <1>7
    <2>2. debits'[a] = debits[a] /\ credits'[a] = credits[a] + j.amount
      BY <1>3, <1>4, <1>5, <1>7
    <2>3. Drift(a)' = j.seenTo - Balance(a)
      BY <1>3, <1>5, <2>1, <2>2 DEF Drift, Balance
    <2> QED
      BY <1>1, <1>2, <1>7, <2>3 DEF LosesUpdate
  <1>8. CASE a # j.from /\ a # j.to
    <2>1. account'[a] = account[a] /\ debits'[a] = debits[a] /\ credits'[a] = credits[a]
      BY <1>4, <1>5, <1>8
    <2> QED
      BY <2>1 DEF Drift, Balance
  <1> QED
    BY <1>6, <1>7, <1>8

\* So does the sandbox funding of a wallet.
LEMMA FundingDrifts ==
  ASSUME LockInv, NEW w \in Worker, PostFunding(w), NEW a \in Account
  PROVE  Drift(a)' = Drift(a) \/ LosesUpdate(w, a)
  <1>1. PICK j : j = job[w]
    OBVIOUS
  <1>2. j \in Funding /\ pc[w] = "funding"
    BY <1>1 DEF PostFunding, LockInv, JobShape
  <1>3. j.to \in Account /\ j.amount \in Int /\ j.seenTo \in Int
    <2>1. \A n \in Amount : n \in Int
      BY AmountAssumption
    <2> QED
      BY <1>2, <2>1 DEF Funding
  <1>4. /\ UNCHANGED debits
        /\ credits' = [credits EXCEPT ![j.to] = @ + j.amount]
        /\ account' = [account EXCEPT ![j.to].available = j.seenTo + j.amount]
    BY <1>1 DEF PostFunding, Credit
  <1>5. /\ credits[a] \in Int /\ debits[a] \in Int
        /\ credits \in [Account -> Nat]
        /\ account \in [Account -> [status : AccountStatus, available : Int]]
    BY DEF LockInv, TypeOK
  <1>6. CASE a = j.to
    <2>1. account'[a].available = j.seenTo + j.amount /\ credits'[a] = credits[a] + j.amount
      BY <1>4, <1>5, <1>6
    <2>2. Drift(a)' = j.seenTo - Balance(a)
      BY <1>3, <1>4, <1>5, <2>1 DEF Drift, Balance
    <2> QED
      BY <1>1, <1>2, <1>6, <2>2 DEF LosesUpdate
  <1>7. CASE a # j.to
    <2>1. account'[a] = account[a] /\ credits'[a] = credits[a]
      BY <1>4, <1>5, <1>7
    <2> QED
      BY <1>4, <2>1 DEF Drift, Balance
  <1> QED
    BY <1>6, <1>7

\* A change of status leaves the cached balance alone.
LEMMA StatusDrifts ==
  ASSUME LockInv, NEW w \in Worker, ApplyStatus(w), NEW a \in Account
  PROVE  Drift(a)' = Drift(a)
  <1>1. account \in [Account -> [status : AccountStatus, available : Int]]
    BY DEF LockInv, TypeOK
  <1>2. account'[a].available = account[a].available
    BY <1>1 DEF ApplyStatus
  <1> QED
    BY <1>2 DEF ApplyStatus, Drift, Balance

\* No other step writes a cached balance or an entry.
LEMMA BalanceWriters ==
  ASSUME [Next]_vars
  PROVE  \/ UNCHANGED <<account, credits, debits>>
         \/ \E w \in Worker : ApplyStatus(w) \/ PostFunding(w) \/ (Post(w) /\ ~Fail(w))
  <1>1. ASSUME NEW w \in Worker, Start(w) \/ WaitingStep(w) \/ LocalStep(w) \/ Abort(w)
        PROVE  \/ UNCHANGED <<account, credits, debits>>
               \/ ApplyStatus(w) \/ PostFunding(w)
               \/ (Post(w) /\ ~Fail(w))
    <2>1. Fail(w) => UNCHANGED <<account, credits, debits>>
      BY DEF Fail, tables
    <2>2. CASE Start(w)
      BY <2>2 DEF Start, StartTransfer, StartInternal, StartReversal, StartFunding,
         StartStatusChange, Begin, tables
    <2>3. CASE WaitingStep(w)
      BY <2>3 DEF WaitingStep, LockSource, AcquireLock, tables
    <2>4. CASE LocalStep(w)
      BY <2>1, <2>4 DEF LocalStep, ReadDestination, CheckReference, ReadAccounts, CheckFunds, tables
    <2> QED
      BY <1>1, <2>1, <2>2, <2>3, <2>4 DEF Abort
  <1> QED
    BY <1>1 DEF Next, vars

\* However many requests overlap, whatever their kinds and wherever they fail, the error
\* of a cached balance changes only where a commit writes a copy another one has
\* outdated, to the error of that copy, or where a wallet pays itself.
THEOREM CachedBalancesDriftAsCopied == Spec => DriftsAreLostUpdates
  <1>1. ASSUME LockInv, [Next]_vars, NEW a \in Account
        PROVE  \/ Drift(a)' = Drift(a)
               \/ \E w \in Worker : (Post(w) \/ PostFunding(w)) /\ (LosesUpdate(w, a) \/ PaysItself(w, a))
    <2>1. CASE UNCHANGED <<account, credits, debits>>
      BY <2>1 DEF Drift, Balance
    <2>2. ASSUME NEW w \in Worker, Post(w), ~Fail(w)
          PROVE  Drift(a)' = Drift(a) \/ LosesUpdate(w, a) \/ PaysItself(w, a)
      <3>1. CASE job[w].from # job[w].to
        BY <1>1, <2>2, <3>1, CommitDrifts
      <3>2. CASE job[w].from = job[w].to /\ a = job[w].to
        BY <2>2, <3>2 DEF PaysItself, Post
      <3>3. CASE job[w].from = job[w].to /\ a # job[w].to
        <4>1. /\ \E v : account' = [account EXCEPT ![job[w].to].available = v]
              /\ debits' = [debits EXCEPT ![job[w].to] = @ + job[w].amount]
              /\ credits' = [credits EXCEPT ![job[w].to] = @ + job[w].amount]
          BY <2>2, <3>3 DEF Post, Debit, Credit, Projection
        <4>2. account'[a] = account[a] /\ debits'[a] = debits[a] /\ credits'[a] = credits[a]
          BY <1>1, <3>3, <4>1 DEF LockInv, TypeOK
        <4> QED
          BY <4>2 DEF Drift, Balance
      <3> QED
        BY <3>1, <3>2, <3>3
    <2> QED
      BY <1>1, <2>1, <2>2, BalanceWriters, FundingDrifts, StatusDrifts
  <1>2. LockInv /\ [Next]_vars =>
          [\A a \in Account :
             \/ Drift(a)' = Drift(a)
             \/ \E w \in Worker : (Post(w) \/ PostFunding(w))
                                    /\ (LosesUpdate(w, a) \/ PaysItself(w, a))]_vars
    BY <1>1
  <1> QED
    BY <1>2, LockInvHolds, PTL DEF Spec, DriftsAreLostUpdates

-----------------------------------------------------------------------------
(* The refinement of AtomicLedger.                                         *)

Holdings == [a \in Account |-> Balance(a)]

\* A new movement posts in the project of the account it debits.  (A reversal's key
\* is that of the reversing project, which CheckFunds compares with the account's.)
PayerPosts(w) ==
  pc[w] \in MovementSteps /\ job[w].target = NoJournal =>
    job[w].key[1] = projectOf[job[w].from]

LEMMA StepKeepsPayerPosts ==
  ASSUME LockInv, \A w \in Worker : PayerPosts(w), [Next]_vars
  PROVE  \A w \in Worker : PayerPosts(w)'
  <1> SUFFICES ASSUME NEW v \in Worker, pc'[v] \in MovementSteps, job'[v].target = NoJournal
               PROVE  job'[v].key[1] = projectOf[job'[v].from]
    BY DEF PayerPosts
  <1>1. ASSUME SameMovement(v)
        PROVE  job'[v].key[1] = projectOf[job'[v].from]
    BY <1>1 DEF SameMovement, PayerPosts
  <1>2. CASE UNCHANGED vars
    BY <1>1, <1>2 DEF vars, SameMovement
  <1>3. ASSUME NEW w \in Worker, Start(w) \/ WaitingStep(w) \/ LocalStep(w) \/ Abort(w)
        PROVE  job'[v].key[1] = projectOf[job'[v].from]
    <2>1. CASE v # w
      <3>1. pc'[v] = pc[v] /\ job'[v] = job[v]
        BY <1>3, <2>1, OthersStay
      <3> QED
        BY <1>1, <3>1 DEF SameMovement
    <2>2. CASE v = w /\ ~Start(w)
      BY <1>1, <1>3, <2>2, MovementStays
    <2>3. CASE v = w /\ Start(w)
      <3>1. pc \in [Worker -> Steps] /\ DOMAIN job = Worker
        BY DEF LockInv, TypeOK
      <3>2. ~StartFunding(w) /\ ~StartStatusChange(w)
        BY <2>3, <3>1 DEF StartFunding, StartStatusChange, Begin, MovementSteps
      <3>3. ~StartReversal(w)
        <4> SUFFICES ASSUME StartReversal(w) PROVE FALSE
          OBVIOUS
        <4>1. PICK k \in JournalKey : job'[w].target = k
          BY <3>1 DEF StartReversal, Begin
        <4> QED
          BY <2>3, <4>1, NoJournalAssumption
      <3>4. PICK kind \in {"transfer", "internal"}, step \in {"destination", "source lock"},
                 a \in Account, b \in Account, n \in Amount, s \in Base :
              Begin(w, step, NewMovement(kind, a, b, n, <<s, 0>>))
        BY <2>3, <3>2, <3>3 DEF Start, StartTransfer, StartInternal
      <3>5. job'[w] = NewMovement(kind, a, b, n, <<s, 0>>)
        BY <3>1, <3>4 DEF Begin
      <3>6. /\ NewMovement(kind, a, b, n, <<s, 0>>).key = <<projectOf[a], <<s, 0>>>>
            /\ NewMovement(kind, a, b, n, <<s, 0>>).from = a
        BY DEF NewMovement
      <3>7. <<projectOf[a], <<s, 0>>>>[1] = projectOf[a]
        OBVIOUS
      <3> QED
        BY <2>3, <3>5, <3>6, <3>7
    <2> QED
      BY <2>1, <2>2, <2>3
  <1> QED
    BY <1>2, <1>3 DEF Next

\* A commit moves the amount from one account's holding to the other's, which may be
\* the same account.
LEMMA PostMovesHoldings ==
  ASSUME LockInv, NEW w \in Worker, Post(w), ~Fail(w)
  PROVE  LET paid == [Holdings EXCEPT ![job[w].from] = @ - job[w].amount]
         IN Holdings' = [paid EXCEPT ![job[w].to] = @ + job[w].amount]
  <1>1. PICK j : j = job[w]
    OBVIOUS
  <1>2. j.from \in Account /\ j.to \in Account /\ j.amount \in Nat
    <2>1. job[w] \in Movement
      BY DEF Post, LockInv, JobShape, MovementSteps
    <2> QED
      BY <1>1, <2>1, MovementAmount DEF Movement
  <1>3. /\ debits' = [debits EXCEPT ![j.from] = @ + j.amount]
        /\ credits' = [credits EXCEPT ![j.to] = @ + j.amount]
    BY <1>1 DEF Post, Debit, Credit
  <1>4. credits \in [Account -> Nat] /\ debits \in [Account -> Nat]
    BY DEF LockInv, TypeOK
  <1> DEFINE paid == [Holdings EXCEPT ![j.from] = @ - j.amount]
             moved == [paid EXCEPT ![j.to] = @ + j.amount]
  <1>5. DOMAIN Holdings = Account /\ Holdings' = [a \in Account |-> Balance(a)']
    BY DEF Holdings
  <1>6. DOMAIN paid = Account /\ DOMAIN moved = Account
    BY <1>5
  <1>9. moved = [a \in Account |-> moved[a]]
    BY <1>5
  <1>7. ASSUME NEW a \in Account
        PROVE  moved[a] = Balance(a)'
    <2>1. PICK c, d : c = credits[a] /\ d = debits[a]
      OBVIOUS
    <2>2. c \in Int /\ d \in Int /\ Holdings[a] = c - d
      BY <1>4, <2>1 DEF Holdings, Balance
    <2>3. /\ credits'[a] = IF a = j.to THEN c + j.amount ELSE c
          /\ debits'[a] = IF a = j.from THEN d + j.amount ELSE d
      BY <1>2, <1>3, <1>4, <2>1
    <2>4. paid[a] = IF a = j.from THEN c - d - j.amount ELSE c - d
      BY <1>2, <1>5, <2>2
    <2> HIDE DEF paid
    <2>6. moved[a] = IF a = j.to THEN paid[a] + j.amount ELSE paid[a]
      BY <1>2, <1>6
    <2> HIDE DEF moved
    <2>5. Balance(a)' = credits'[a] - debits'[a]
      BY DEF Balance
    <2> QED
      BY <1>2, <2>2, <2>3, <2>4, <2>5, <2>6
  <1> HIDE DEF moved
  <1>8. Holdings' = moved
    BY <1>5, <1>7, <1>9
  <1> QED
    BY <1>1, <1>8 DEF moved, paid
\* So does the credit of a funding.
LEMMA FundingMovesHoldings ==
  ASSUME LockInv, NEW w \in Worker, PostFunding(w)
  PROVE  Promise!Fund(job[w].to, job[w].amount) /\ job[w].to \in Account /\ job[w].amount \in Amount
  <1>1. PICK j : j = job[w]
    OBVIOUS
  <1>2. j.to \in Account /\ j.amount \in Amount
    BY <1>1 DEF PostFunding, LockInv, JobShape, Funding
  <1>3. j.amount \in Nat
    BY <1>2, AmountAssumption
  <1>4. /\ funded' = [funded EXCEPT ![projectOf[j.to]] = @ + j.amount]
        /\ credits' = [credits EXCEPT ![j.to] = @ + j.amount]
        /\ UNCHANGED <<debits, journal>>
    BY <1>1 DEF PostFunding, Credit
  <1>5. credits \in [Account -> Nat] /\ debits \in [Account -> Nat]
    BY DEF LockInv, TypeOK
  <1> DEFINE given == [Holdings EXCEPT ![j.to] = @ + j.amount]
  <1>6. DOMAIN Holdings = Account /\ Holdings' = [a \in Account |-> Balance(a)']
    BY DEF Holdings
  <1>7. given = [a \in Account |-> given[a]]
    BY <1>6
  <1>8. ASSUME NEW a \in Account
        PROVE  given[a] = Balance(a)'
    <2>1. PICK c, d : c = credits[a] /\ d = debits[a]
      OBVIOUS
    <2>2. c \in Int /\ d \in Int /\ Holdings[a] = c - d
      BY <1>5, <2>1 DEF Holdings, Balance
    <2>3. /\ credits'[a] = IF a = j.to THEN c + j.amount ELSE c
          /\ debits'[a] = d
      BY <1>2, <1>4, <1>5, <2>1
    <2>4. given[a] = IF a = j.to THEN c - d + j.amount ELSE c - d
      BY <1>2, <1>6, <2>2
    <2> HIDE DEF given
    <2>5. Balance(a)' = credits'[a] - debits'[a]
      BY DEF Balance
    <2> QED
      BY <1>3, <2>2, <2>3, <2>4, <2>5
  <1> HIDE DEF given
  <1>9. Holdings' = given
    BY <1>6, <1>7, <1>8
  <1> QED
    BY <1>1, <1>2, <1>4, <1>9 DEF given, Holdings, Promise!Fund

\* The money a committing request moves is there when it commits.
LEMMA CommitMoves ==
  ASSUME LockInv, FundsInv, NEW w \in Worker, Post(w), ~Fail(w)
  PROVE  Promise!Move(job[w].from, job[w].to, job[w].amount)
  <1>1. Balance(job[w].from) >= job[w].amount
    BY DEF Post, FundsInv, FundsReserved
  <1>2. job[w].from \in Account
    BY DEF Post, LockInv, JobShape, MovementSteps, Movement
  <1>3. Holdings[job[w].from] = Balance(job[w].from)
    BY <1>2 DEF Holdings
  <1> QED
    BY <1>1, <1>3, PostMovesHoldings DEF Holdings, Promise!Move

\* A commit is a step of the abstract ledger: a transfer, or the reversal of a journal
\* that has not been reversed.
LEMMA CommitIsAtomic ==
  ASSUME LockInv, FundsInv, JournalInv, NEW w \in Worker, PayerPosts(w), Post(w), ~Fail(w)
  PROVE  Promise!Next
  <1>1. PICK j : j = job[w]
    OBVIOUS
  <1>2. /\ j \in Movement /\ j.from \in Account /\ j.to \in Account
        /\ j.amount \in Amount /\ j.key \in JournalKey
        /\ j.target \in JournalKey \cup {NoJournal}
    <2>1. job[w] \in Movement
      BY DEF Post, LockInv, JobShape, MovementSteps
    <2> QED
      BY <1>1, <2>1 DEF Movement
  <1>3. Promise!Move(j.from, j.to, j.amount) /\ UNCHANGED funded
    BY <1>1, CommitMoves DEF Post
  <1>4. pc[w] = "posting" /\ journal[j.key] = NoJournal /\ journal' = Posted(j)
    BY <1>1 DEF Post, Unposted
  <1>5. Commits(w)
    <2>1. pc'[w] = "idle"
      BY EndReleases DEF Post, LockInv
    <2> QED
      BY <1>1, <1>4, <2>1 DEF Commits
  <1> DEFINE row == [from |-> j.from, to |-> j.to, amount |-> j.amount,
                     reverses |-> j.target, reversal |-> NoJournal]
  <1>6. row = Promise!Row(j.from, j.to, j.amount, j.target)
    BY DEF Promise!Row
  <1>7. CASE j.target = NoJournal
    <2>1. j.key[1] = projectOf[j.from]
      BY <1>1, <1>4, <1>7 DEF PayerPosts, MovementSteps
    <2>2. journal' = [journal EXCEPT ![j.key] = Promise!Row(j.from, j.to, j.amount, NoJournal)]
      BY <1>4, <1>6, <1>7 DEF Posted
    <2>3. Promise!Transfer(j.from, j.to, j.amount, j.key)
      BY <1>3, <1>4, <2>1, <2>2 DEF Promise!Transfer
    <2> QED
      BY <1>2, <2>3 DEF Promise!Next
  <1>8. CASE j.target # NoJournal
    <2> DEFINE t == j.target
               original == journal[t]
    <2>1. t \in JournalKey /\ original \in Journal /\ original.reversal = NoJournal
      BY <1>1, <1>5, <1>8, CommitAddsOneRow
    <2>2. original # NoJournal
      BY <2>1, NoJournalAssumption
    <2>3. /\ j.from = original.to /\ j.to = original.from /\ j.amount = original.amount
          /\ j.key = ReversalKey(projectOf[original.to], t)
      BY <1>1, <1>4, <1>8 DEF JournalInv, ReversesItsTarget, MovementSteps
    <2>4. j.key[1] = projectOf[original.to]
      BY <2>3 DEF ReversalKey
    <2>5. journal' = [journal EXCEPT ![t] = [original EXCEPT !.reversal = j.key],
                                     ![j.key] = row]
      <3>1. Posted(j) = [[journal EXCEPT ![t].reversal = j.key] EXCEPT ![j.key] = row]
        BY <1>8 DEF Posted
      <3> QED
        BY <1>4, <3>1
    <2> HIDE DEF row
    <2>6. journal' = [journal EXCEPT
            ![t] = [original EXCEPT !.reversal = j.key],
            ![j.key] = Promise!Row(original.to, original.from, original.amount, t)]
      BY <1>6, <2>3, <2>5
    <2>7. Promise!Move(original.to, original.from, original.amount)
      BY <1>3, <2>3
    <2> HIDE DEF original, t
    <2>8. Promise!Reverse(t, j.key)
      BY <1>3, <1>4, <2>1, <2>2, <2>4, <2>6, <2>7 DEF Promise!Reverse, original
    <2> QED
      BY <1>2, <2>1, <2>8 DEF Promise!Next
  <1> QED
    BY <1>7, <1>8

\* Every step of a request is one step of the abstract ledger, or none.
LEMMA StepIsAtomic ==
  ASSUME LockInv, FundsInv, JournalInv, \A w \in Worker : PayerPosts(w), [Next]_vars
  PROVE  [Promise!Next]_<<Holdings, journal, funded>>
  <1> DEFINE Still == UNCHANGED <<credits, debits, journal, funded>>
  <1>1. Still => UNCHANGED <<Holdings, journal, funded>>
    BY DEF Holdings, Balance
  <1>2. CASE UNCHANGED vars
    BY <1>1, <1>2 DEF vars
  <1>3. ASSUME NEW w \in Worker, Start(w)
        PROVE  Still
    BY <1>3 DEF Start, StartTransfer, StartInternal, StartReversal, StartFunding,
       StartStatusChange, Begin, tables
  <1>4. ASSUME NEW w \in Worker, Fail(w)
        PROVE  Still
    BY <1>4 DEF Fail, tables
  <1>5. ASSUME NEW w \in Worker, WaitingStep(w), ~PostFunding(w)
        PROVE  Still
    BY <1>5 DEF WaitingStep, LockSource, AcquireLock, ApplyStatus, tables
  <1>6. ASSUME NEW w \in Worker, LocalStep(w), ~Post(w), ~Fail(w)
        PROVE  Still
    BY <1>6 DEF LocalStep, ReadDestination, CheckReference, ReadAccounts, CheckFunds, tables
  <1>7. ASSUME NEW w \in Worker, Post(w), ~Fail(w)
        PROVE  Promise!Next
    BY <1>7, CommitIsAtomic
  <1>8. ASSUME NEW w \in Worker, PostFunding(w)
        PROVE  Promise!Next
    BY <1>8, FundingMovesHoldings DEF Promise!Next
  <1> HIDE DEF Still
  <1>9. ASSUME NEW w \in Worker, Start(w) \/ WaitingStep(w) \/ LocalStep(w) \/ Abort(w)
        PROVE  Still \/ Promise!Next
    BY <1>3, <1>4, <1>5, <1>6, <1>7, <1>8, <1>9 DEF Abort
  <1> QED
    BY <1>1, <1>2, <1>9 DEF Next

\* The ledger is atomic: whatever the number of requests, however they overlap, wait
\* for each other, fail or are rolled back, balances and journals change as if each
\* request that succeeds had been carried out alone at the moment of its commit.
THEOREM LedgerIsAtomic == Spec => ActsAtomically
  <1>1. Init => Promise!Init
    <2> SUFFICES ASSUME Init PROVE Promise!Init
      OBVIOUS
    <2>1. \A a \in Account : Balance(a) = Opening[a]
      BY OpeningAssumption DEF Init, Balance
    <2>2. [a \in Account |-> Balance(a)] = Opening
      BY <2>1, OpeningAssumption
    <2> QED
      BY <2>2 DEF Init, Promise!Init
  <1>2. Init => \A w \in Worker : PayerPosts(w)
    BY DEF Init, PayerPosts, MovementSteps
  <1>3. Init => FundsInv
    BY InitFundsInv
  <1>4. /\ LockInv /\ FundsInv /\ JournalInv /\ (\A w \in Worker : PayerPosts(w)) /\ [Next]_vars
        => [Promise!Next]_<<[a \in Account |-> Balance(a)], journal, funded>>
    BY StepIsAtomic DEF Holdings
  <1>5. LockInv /\ (\A w \in Worker : PayerPosts(w)) /\ [Next]_vars
        => (\A w \in Worker : PayerPosts(w))'
    BY StepKeepsPayerPosts
  <1>6. LockInv /\ FundsInv /\ [Next]_vars => FundsInv'
    BY StepKeepsFundsInv
  <1>7. LockInv /\ JournalInv /\ [Next]_vars => JournalInv'
    BY StepKeepsJournalInv
  <1> QED
    BY <1>1, <1>2, <1>3, <1>4, <1>5, <1>6, <1>7, InitJournalInv, LockInvHolds, PTL
    DEF Spec, ActsAtomically, Promise!Spec
=============================================================================
