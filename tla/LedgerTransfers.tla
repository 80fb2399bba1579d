---------------------------- MODULE LedgerTransfers ----------------------------
(***************************************************************************)
(* The internal double-entry ledger: LedgerService.transfer and reverse,   *)
(* the internal branch of TransferService.initiateTransfer, sandbox        *)
(* funding and account status changes, as concurrent requests against one  *)
(* PostgreSQL database at READ COMMITTED.                                   *)
(*                                                                         *)
(* A worker is one HTTP request in flight.  Every await that can expose it *)
(* to another request is a step: a read, a SELECT ... FOR UPDATE, the      *)
(* balance query, the commit.  A transaction's writes become visible when  *)
(* it commits, so they are all made by the committing step; its row locks  *)
(* are released there too.                                                 *)
(***************************************************************************)
EXTENDS Integers, FiniteSets, Functions

CONSTANTS
  Worker,      \* requests that may be in flight at once
  NoWorker,    \* the holder of an unlocked row
  Account,     \* ids of the customer accounts; their order is the order of sort()
  Project,     \* projects (tenants)
  projectOf,   \* the project of each account
  Base,        \* references chosen by clients
  MaxDepth,    \* bound: how many rev_ prefixes a reference may carry
  Amount,      \* amounts in minor units
  Opening,     \* balance of each account when the model starts
  FundingCap,  \* SANDBOX_MAX_DAILY_FUNDING
  Kinds,       \* the operations clients may call
  NoJournal,   \* no journal row
  NoJob        \* an idle worker's request

OperationKinds == {"transfer", "internal", "reverse", "fund", "status"}

ASSUME AccountAssumption == Account \subseteq Nat /\ IsFiniteSet(Account)
ASSUME ProjectAssumption == IsFiniteSet(Project) /\ projectOf \in [Account -> Project]
ASSUME AmountAssumption == Amount \subseteq Nat \ {0}
ASSUME OpeningAssumption == Opening \in [Account -> Nat]
ASSUME BoundAssumption == MaxDepth \in Nat /\ FundingCap \in Nat
ASSUME WorkerAssumption == NoWorker \notin Worker
ASSUME KindAssumption == Kinds \subseteq OperationKinds

\* A reference is a client's string behind zero or more rev_ prefixes.
Reference == Base \X (0..MaxDepth)

\* (projectId, reference) is unique over the Journal table, and names a journal.
JournalKey == Project \X Reference

AccountStatus == {"active", "frozen", "closed"}

Journal == [from : Account, to : Account, amount : Amount,
            reverses : JournalKey \cup {NoJournal},
            reversal : JournalKey \cup {NoJournal}]

ASSUME NoJournalAssumption == NoJournal \notin JournalKey \cup Journal

\* A request that moves money, with what it has read of the two accounts.
Movement == [kind : {"transfer", "internal", "reverse"}, project : Project,
             from : Account, to : Account, amount : Amount,
             key : JournalKey, target : JournalKey \cup {NoJournal},
             seenFrom : Int, seenTo : Int]
Funding == [kind : {"fund"}, to : Account, amount : Amount, seenTo : Int]
StatusChange == [kind : {"status"}, to : Account, status : AccountStatus]

VARIABLES
  account,   \* Account rows: status and the projected available balance
  credits,   \* SUM of the posted credit entries of each customer ledger account
  debits,    \* SUM of the posted debit entries
  journal,   \* Journal rows by (project, reference)
  funded,    \* per project, SUM of the funding events of the last 24 hours
  lock,      \* which worker's transaction holds each Account row FOR UPDATE
  pc, job    \* per worker: the step it is at, and its request

vars == <<account, credits, debits, journal, funded, lock, pc, job>>
tables == <<account, credits, debits, journal, funded>>

\* calculateBalance of a customer ledger account: credits minus debits.
Balance(a) == credits[a] - debits[a]

\* The reference of the reversal journal, in the project that reverses k.
ReversalKey(p, k) == <<p, <<k[2][1], k[2][2] + 1>>>>

\* findJournalById and findJournalByReference: p posted it or is a party to it.
VisibleTo(p, k) ==
  /\ journal[k] # NoJournal
  /\ p \in {k[1], projectOf[journal[k].from], projectOf[journal[k].to]}

MovementSteps == {"source lock", "destination", "reference", "accounts",
                  "locking", "checking", "posting"}
Steps == {"idle", "funding", "updating"} \cup MovementSteps

TypeOK ==
  /\ account \in [Account -> [status : AccountStatus, available : Int]]
  /\ credits \in [Account -> Nat]
  /\ debits \in [Account -> Nat]
  /\ journal \in [JournalKey -> Journal \cup {NoJournal}]
  /\ funded \in [Project -> Nat]
  /\ lock \in [Account -> Worker \cup {NoWorker}]
  /\ pc \in [Worker -> Steps]
  /\ job \in [Worker -> Movement \cup Funding \cup StatusChange \cup {NoJob}]

Init ==
  /\ account = [a \in Account |-> [status |-> "active", available |-> Opening[a]]]
  /\ credits = Opening
  /\ debits = [a \in Account |-> 0]
  /\ journal = [k \in JournalKey |-> NoJournal]
  /\ funded = [p \in Project |-> 0]
  /\ lock = [a \in Account |-> NoWorker]
  /\ pc = [w \in Worker |-> "idle"]
  /\ job = [w \in Worker |-> NoJob]

-----------------------------------------------------------------------------
(* Control of one request.                                                 *)

Begin(w, step, j) ==
  /\ pc[w] = "idle"
  /\ pc' = [pc EXCEPT ![w] = step]
  /\ job' = [job EXCEPT ![w] = j]
  /\ UNCHANGED <<tables, lock>>

\* COMMIT or ROLLBACK: the request ends and its row locks are released.
End(w) ==
  /\ pc' = [pc EXCEPT ![w] = "idle"]
  /\ job' = [job EXCEPT ![w] = NoJob]
  /\ lock' = [a \in Account |-> IF lock[a] = w THEN NoWorker ELSE lock[a]]

\* An error is thrown: nothing the transaction wrote remains.
Fail(w) == End(w) /\ UNCHANGED tables

GoTo(w, step) == pc' = [pc EXCEPT ![w] = step]

\* Mutant of Take: the row is read without FOR UPDATE.
TakeShared(w, a) == lock' = [lock EXCEPT ![a] = w]
\* SELECT ... FOR UPDATE.
Take(w, a) ==
  /\ lock[a] = NoWorker
  /\ lock' = [lock EXCEPT ![a] = w]

\* createLedgerEntry with either direction: the sum it belongs to grows.
Debit(a, n) == debits' = [debits EXCEPT ![a] = @ + n]

\* Mutant of Credit: the credit line of a journal is forgotten.
NoCredit(a, n) == UNCHANGED credits
Credit(a, n) == credits' = [credits EXCEPT ![a] = @ + n]

\* Mutant of Unposted: the unique index on (projectId, reference) is missing.
UnpostedUnchecked(k) == TRUE
\* The unique index lets a row with this key in.
Unposted(k) == journal[k] = NoJournal

-----------------------------------------------------------------------------
(* LedgerService.transfer, LedgerService.reverse and the internal branch   *)
(* of TransferService.initiateTransfer.                                    *)

\* Mutant of NewMovement: Money.validate is skipped and zero is accepted.
NewMovementOfZero(kind, a, b, n, r) ==
  [kind |-> kind, project |-> projectOf[a], from |-> a, to |-> b, amount |-> 0,
   key |-> <<projectOf[a], r>>, target |-> NoJournal,
   seenFrom |-> account[a].available, seenTo |-> 0]

NewMovement(kind, a, b, n, r) ==
  [kind |-> kind, project |-> projectOf[a], from |-> a, to |-> b, amount |-> n,
   key |-> <<projectOf[a], r>>, target |-> NoJournal,
   seenFrom |-> account[a].available, seenTo |-> 0]

\* The source account is read, and must be active, before any lock is taken.
StartTransfer(w) ==
  /\ "transfer" \in Kinds
  /\ \E a, b \in Account, n \in Amount, s \in Base :
       /\ account[a].status = "active"
       /\ Begin(w, "destination", NewMovement("transfer", a, b, n, <<s, 0>>))

StartInternal(w) ==
  /\ "internal" \in Kinds
  /\ \E a, b \in Account, n \in Amount, s \in Base :
       /\ account[a].status = "active"
       /\ Begin(w, "source lock", NewMovement("internal", a, b, n, <<s, 0>>))

\* The journal is read outside the transaction and must not be reversed yet.
StartReversal(w) ==
  /\ "reverse" \in Kinds
  /\ \E p \in Project, k \in JournalKey :
       /\ k[2][2] < MaxDepth
       /\ VisibleTo(p, k)
       /\ journal[k].reversal = NoJournal
       /\ Begin(w, "accounts",
                [kind |-> "reverse", project |-> p,
                 from |-> journal[k].to, to |-> journal[k].from,
                 amount |-> journal[k].amount,
                 key |-> ReversalKey(p, k), target |-> k,
                 seenFrom |-> 0, seenTo |-> 0])

\* initiateTransfer locks the source row first, whatever the order of the ids.
LockSource(w) ==
  /\ pc[w] = "source lock"
  /\ Take(w, job[w].from)
  /\ GoTo(w, "destination")
  /\ UNCHANGED <<tables, job>>

ReadDestination(w) ==
  /\ pc[w] = "destination"
  /\ LET j == job[w]
         ok == /\ account[j.to].status = "active"
               /\ j.kind = "internal" => j.from # j.to
     IN \/ /\ ok
           /\ job' = [job EXCEPT ![w].seenTo = account[j.to].available]
           /\ GoTo(w, IF j.kind = "transfer" THEN "reference" ELSE "locking")
           /\ UNCHANGED <<tables, lock>>
        \/ ~ok /\ Fail(w)

\* "Reject duplicate client reference up front", still outside the transaction.
CheckReference(w) ==
  /\ pc[w] = "reference"
  /\ LET j == job[w]
         taken == \E k \in JournalKey : k[2] = j.key[2] /\ VisibleTo(j.project, k)
     IN \/ ~taken /\ GoTo(w, "locking") /\ UNCHANGED <<tables, lock, job>>
        \/ taken /\ Fail(w)

\* reverse reads both financial accounts inside its transaction, before locking.
ReadAccounts(w) ==
  /\ pc[w] = "accounts"
  /\ LET j == job[w]
         ok == account[j.from].status = "active" /\ account[j.to].status = "active"
     IN \/ /\ ok
           /\ job' = [job EXCEPT ![w].seenFrom = account[j.from].available,
                                 ![w].seenTo = account[j.to].available]
           /\ GoTo(w, "locking")
           /\ UNCHANGED <<tables, lock>>
        \/ ~ok /\ Fail(w)

\* The rows the request still has to lock.
RowsLeft(w) == {a \in {job[w].from, job[w].to} : lock[a] # w}

\* Mutant of NextRow: the ids are not sorted, the source row comes first.
NextRowUnsorted(w) ==
  CHOOSE a \in RowsLeft(w) : job[w].from \in RowsLeft(w) => a = job[w].from
\* The row it locks next, in the order of the sorted ids.
NextRow(w) == CHOOSE a \in RowsLeft(w) : \A b \in RowsLeft(w) : a <= b

AcquireLock(w) ==
  /\ pc[w] = "locking"
  /\ Take(w, NextRow(w))
  /\ GoTo(w, IF RowsLeft(w) = {NextRow(w)} THEN "checking" ELSE "locking")
  /\ UNCHANGED <<tables, job>>

\* Mutant of CheckFunds: calculateBalance finds the ledger account of any project, so
\* the project that paid can take the money back.
CheckFundsOfAnyProject(w) ==
  /\ pc[w] = "checking"
  /\ LET ok == Balance(job[w].from) >= job[w].amount
     IN \/ ok /\ GoTo(w, "posting") /\ UNCHANGED <<tables, lock, job>>
        \/ ~ok /\ Fail(w)

\* The balance is summed from the entries, under the locks.  calculateBalance
\* looks the ledger account up in the caller's project and throws otherwise.
CheckFunds(w) ==
  /\ pc[w] = "checking"
  /\ LET j == job[w]
         ok == /\ projectOf[j.from] = j.project
               /\ Balance(j.from) >= j.amount
     IN \/ ok /\ GoTo(w, "posting") /\ UNCHANGED <<tables, lock, job>>
        \/ ~ok /\ Fail(w)

\* Mutant of Projection: a reversal moves the balances like the original did.
ProjectionOfOriginal(j) ==
  LET s == IF j.kind = "reverse" THEN -1 ELSE 1
  IN {[account EXCEPT ![j.from].available = j.seenFrom - s * j.amount,
                      ![j.to].available = j.seenTo + s * j.amount]}

\* The available balances the transaction writes, computed from what it read
\* before it held the locks.  Of a transfer to itself the last write stays.
Projection(j) ==
  IF j.from # j.to
    THEN {[account EXCEPT ![j.from].available = j.seenFrom - j.amount,
                          ![j.to].available = j.seenTo + j.amount]}
    ELSE {[account EXCEPT ![j.to].available = v] :
            v \in IF j.kind = "reverse" THEN {j.seenTo + j.amount, j.seenTo - j.amount}
                                        ELSE {j.seenTo + j.amount}}

\* Mutant of Posted: the original journal is not bound to its reversal.
PostedUnlinked(j) ==
  [journal EXCEPT ![j.key] = [from |-> j.from, to |-> j.to, amount |-> j.amount,
                              reverses |-> j.target, reversal |-> NoJournal]]

\* The rows of the journal and, for a reversal, the link back from its target.
Posted(j) ==
  LET linked == IF j.target = NoJournal THEN journal
                ELSE [journal EXCEPT ![j.target].reversal = j.key]
  IN [linked EXCEPT ![j.key] = [from |-> j.from, to |-> j.to, amount |-> j.amount,
                                reverses |-> j.target, reversal |-> NoJournal]]

\* Journal, entries and projections are committed; a second row with the same
\* (project, reference) violates the unique index and rolls back.
Post(w) ==
  /\ pc[w] = "posting"
  /\ LET j == job[w]
     IN \/ /\ Unposted(j.key)
           /\ journal' = Posted(j)
           /\ Debit(j.from, j.amount)
           /\ Credit(j.to, j.amount)
           /\ account' \in Projection(j)
           /\ UNCHANGED funded
           /\ End(w)
        \/ ~Unposted(j.key) /\ Fail(w)

-----------------------------------------------------------------------------
(* SandboxService.fundTestAccount and AccountService.updateAccount: neither *)
(* takes a row lock, but their UPDATE waits for a row that is locked.       *)

\* The account and the funding of the last 24 hours are read up front.
StartFunding(w) ==
  /\ "fund" \in Kinds
  /\ \E a \in Account, n \in Amount :
       /\ funded[projectOf[a]] + n <= FundingCap
       /\ Begin(w, "funding", [kind |-> "fund", to |-> a, amount |-> n,
                               seenTo |-> account[a].available])

PostFunding(w) ==
  /\ pc[w] = "funding"
  /\ LET j == job[w]
     IN /\ lock[j.to] = NoWorker
        /\ funded' = [funded EXCEPT ![projectOf[j.to]] = @ + j.amount]
        /\ Credit(j.to, j.amount)
        /\ account' = [account EXCEPT ![j.to].available = j.seenTo + j.amount]
        /\ UNCHANGED <<debits, journal>>
        /\ End(w)

\* A request may also repeat the status it read, which is written all the same.
AllowedStatus(from, to) ==
  \/ from = to /\ from # "closed"
  \/ from = "active" /\ to \in {"frozen", "closed"}
  \/ from = "frozen" /\ to \in {"active", "closed"}

StartStatusChange(w) ==
  /\ "status" \in Kinds
  /\ \E a \in Account, s \in AccountStatus :
       /\ AllowedStatus(account[a].status, s)
       /\ Begin(w, "updating", [kind |-> "status", to |-> a, status |-> s])

ApplyStatus(w) ==
  /\ pc[w] = "updating"
  /\ LET j == job[w]
     IN /\ lock[j.to] = NoWorker
        /\ account' = [account EXCEPT ![j.to].status = j.status]
        /\ UNCHANGED <<credits, debits, journal, funded>>
        /\ End(w)

\* The server dies, the interactive transaction times out, or the database
\* breaks a deadlock: the transaction is rolled back.
Abort(w) == pc[w] # "idle" /\ Fail(w)

-----------------------------------------------------------------------------
Start(w) ==
  \/ StartTransfer(w) \/ StartInternal(w) \/ StartReversal(w)
  \/ StartFunding(w) \/ StartStatusChange(w)

\* Steps that may have to wait for a row lock held by another transaction.
WaitingStep(w) == LockSource(w) \/ AcquireLock(w) \/ PostFunding(w) \/ ApplyStatus(w)
LocalStep(w) ==
  \/ ReadDestination(w) \/ CheckReference(w) \/ ReadAccounts(w)
  \/ CheckFunds(w) \/ Post(w)

Next == \E w \in Worker : Start(w) \/ WaitingStep(w) \/ LocalStep(w) \/ Abort(w)

Spec == Init /\ [][Next]_vars

-----------------------------------------------------------------------------
(* Properties.                                                             *)

\* Whatever is in flight, the posted entries of an account never add up to less
\* than nothing: the balance check under the row locks prevents double spending.
NoOverdraft == \A a \in Account : Balance(a) >= 0

\* Double entry: what the customer accounts hold together is what they were opened
\* with and what the sandbox treasury was debited; transfers and reversals only
\* move it, and none is posted by half.
Balanced ==
  SumFunction([a \in Account |-> Balance(a)]) = SumFunction(Opening) + SumFunction(funded)

\* A worker that is waiting for a row it locks explicitly, and that row.
Waiting(w) == pc[w] \in {"source lock", "locking"}
Awaited(w) == IF pc[w] = "source lock" THEN job[w].from ELSE NextRow(w)

\* No group of requests waits for rows that only the group holds, unless an internal
\* payout is in it, which locks its source first: what sorting the ids is for.
DeadlockFree ==
  \A S \in SUBSET Worker :
    (\A w \in S : Waiting(w) /\ lock[Awaited(w)] \in S /\ job[w].kind # "internal") => S = {}

\* A reversal and the journal it reverses point at each other and mirror each
\* other, so a journal is paid back at most once, by whichever project.
ReversalsPaired ==
  \A k, t \in JournalKey :
    journal[k] # NoJournal /\ journal[k].reverses = t =>
      /\ journal[t] # NoJournal
      /\ journal[t].reversal = k
      /\ journal[t].from = journal[k].to /\ journal[t].to = journal[k].from
      /\ journal[t].amount = journal[k].amount

\* Posted journals are history: they stay, they do not change, and once one is
\* linked to its reversal the link is never overwritten by a second reversal.
PostedIsFinal ==
  [][\A k \in JournalKey : journal[k] # NoJournal =>
       /\ journal'[k] # NoJournal
       /\ [journal'[k] EXCEPT !.reversal = journal[k].reversal] = journal[k]
       /\ journal[k].reversal # NoJournal => journal'[k] = journal[k]]_vars

\* The abstract ledger, its balances computed from the posted entries.
Promise == INSTANCE AtomicLedger WITH balance <- [a \in Account |-> Balance(a)]

\* However requests overlap, fail or are rolled back, each takes effect at one
\* instant, its commit, and what it checked several awaits earlier - the funds, the
\* reference, the journal to reverse and who may reverse it - is true at that instant.
ActsAtomically == Promise!Spec

\* The cached available balance is the ledger's: what runReconciliationCheck
\* compares and what the account API returns.
ProjectionMatchesLedger == \A a \in Account : account[a].available = Balance(a)

\* By how much the cached balance is off.
Drift(a) == account[a].available - Balance(a)

\* Request w writes its copy of the cached balance of a, with the copy's error.
LosesUpdate(w, a) ==
  \/ pc[w] = "posting" /\ a = job[w].from /\ Drift(a)' = job[w].seenFrom - Balance(a)
  \/ pc[w] \in {"posting", "funding"} /\ a = job[w].to /\ Drift(a)' = job[w].seenTo - Balance(a)

PaysItself(w, a) == pc[w] = "posting" /\ a = job[w].from /\ a = job[w].to

\* However many transfers, payouts, reversals and fundings overlap, a cached balance that
\* is right goes wrong, and a wrong one changes its error, only where a commit writes a
\* copy another has outdated, and then by exactly what that copy misses, or where a
\* wallet pays itself: every other write of a projection agrees with its entries.
DriftsAreLostUpdates ==
  [][\A a \in Account :
       \/ Drift(a)' = Drift(a)
       \/ \E w \in Worker : (Post(w) \/ PostFunding(w))
                              /\ (LosesUpdate(w, a) \/ PaysItself(w, a))]_vars

\* The same while no wallet has paid itself: concurrent transfers between
\* different wallets leave both cached balances perfectly correct.
ProjectionOfDistinctWallets ==
  (\A k \in JournalKey : journal[k] # NoJournal => journal[k].from # journal[k].to)
    => ProjectionMatchesLedger
=============================================================================
