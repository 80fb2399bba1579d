---------------------------- MODULE IdempotentRequests ----------------------------
(***************************************************************************)
(* Transfer requests under an Idempotency-Key.  runIdempotent opens one    *)
(* interactive transaction: it reads the record of the key, writes it as   *)
(* pending, runs the operation, writes it as completed and commits.        *)
(*                                                                         *)
(* The operation of a payout (TransferService.initiateTransfer) works in   *)
(* that transaction; the one of a ledger transfer (LedgerService.transfer) *)
(* opens a transaction of its own, on a second connection of the pool.     *)
(* PostgreSQL runs both at READ COMMITTED: a row written or locked by one  *)
(* transaction makes the others wait until it ends.                        *)
(***************************************************************************)
EXTENDS Naturals, FiniteSets

CONSTANTS
  Worker,          \* requests, each handled once
  Key,             \* idempotency keys of a project
  Ref, Account,    \* references and wallets the payloads name
  Payload,         \* the payloads sent
  Batch,           \* the keys and payloads the requests may be sent with
  Before(_, _),    \* the order of the wallet ids
  MaxConnections,  \* size of the connection pool
  NoRecord, NoJournal, Nobody

PayloadType == [kind : {"payout", "ledger"}, ref : Ref, from : Account, to : Account]
RecordType == [payload : Payload, status : {"pending", "completed", "failed"}]
JournalType == [payload : Payload, key : Key]

ASSUME PayloadAssumption ==
  Payload \subseteq PayloadType /\ Batch \subseteq [Worker -> [key : Key, payload : Payload]]
ASSUME NoValueAssumption ==
  /\ NoRecord \notin RecordType
  /\ NoJournal \notin JournalType
  /\ Nobody \notin Worker

VARIABLES
  record,     \* IdempotencyRecord rows, as committed
  journal,    \* Journal rows with their entries and balances, as committed
  keyLock,    \* who has written the record of a key and not yet committed
  refLock,    \* who has inserted the journal of a reference and not yet committed
  rowLock,    \* who holds the Account row of a wallet
  request,    \* per worker: step, key, payload, status of the record it wrote,
              \* and whether its outer transaction has expired
  reply       \* what the client was told: success, or an error

store == <<record, journal>>
locks == <<keyLock, refLock, rowLock>>
vars == <<store, locks, request, reply>>

Step == {"beginning", "reading", "upserting", "nesting", "locking", "locking_second",
         "posting", "committing", "ended"}

RequestType == [step : Step, key : Key, payload : Payload, expired : BOOLEAN]

TypeOK ==
  /\ record \in [Key -> RecordType \cup {NoRecord}]
  /\ journal \in [Ref -> JournalType \cup {NoJournal}]
  /\ keyLock \in [Key -> Worker \cup {Nobody}]
  /\ refLock \in [Ref -> Worker \cup {Nobody}]
  /\ rowLock \in [Account -> Worker \cup {Nobody}]
  /\ request \in [Worker -> RequestType]
  /\ reply \in [Worker -> {"none", "success", "error"}]

Init ==
  /\ record = [k \in Key |-> NoRecord]
  /\ journal = [r \in Ref |-> NoJournal]
  /\ keyLock = [k \in Key |-> Nobody]
  /\ refLock = [r \in Ref |-> Nobody]
  /\ rowLock = [a \in Account |-> Nobody]
  /\ \E sent \in Batch :
       request = [w \in Worker |-> [step |-> "beginning", key |-> sent[w].key,
                                   payload |-> sent[w].payload, expired |-> FALSE]]
  /\ reply = [w \in Worker |-> "none"]

-----------------------------------------------------------------------------
(* What a request holds.                                                   *)

At(w, step) == request[w].step = step
GoTo(w, step) == request' = [request EXCEPT ![w].step = step]
Nested(w) == request[w].payload.kind = "ledger"

Posting == {"locking", "locking_second", "posting"}

\* The outer transaction is open from BEGIN to COMMIT, unless it has expired;
\* the inner one while its operation posts.
HasOuter(w) ==
  request[w].step \notin {"beginning", "ended"} /\ ~request[w].expired
HasInner(w) == Nested(w) /\ request[w].step \in Posting

FreeConnection ==
  Cardinality({w \in Worker : HasOuter(w)}) + Cardinality({w \in Worker : HasInner(w)})
    < MaxConnections

\* The transaction in which the operation runs is still open.
Open(w) == Nested(w) \/ ~request[w].expired

Without(w, lock) == [x \in DOMAIN lock |-> IF lock[x] = w THEN Nobody ELSE lock[x]]

\* COMMIT and ROLLBACK let every row go.
ReleaseAll(w) ==
  /\ keyLock' = Without(w, keyLock)
  /\ refLock' = Without(w, refLock)
  /\ rowLock' = Without(w, rowLock)

End(w, answer) ==
  /\ GoTo(w, "ended")
  /\ reply' = [reply EXCEPT ![w] = answer]

\* The error ends the callback of the transaction, which is rolled back.
Fail(w) == End(w, "error") /\ ReleaseAll(w) /\ UNCHANGED store

-----------------------------------------------------------------------------
(* runIdempotent up to the operation.                                      *)

\* The handler refuses a payload or a key that does not validate.
Reject(w) ==
  /\ At(w, "beginning")
  /\ End(w, "error")
  /\ UNCHANGED <<store, locks>>

\* BEGIN, on a connection of the pool.
Begin(w) ==
  /\ At(w, "beginning") /\ FreeConnection
  /\ GoTo(w, "reading")
  /\ UNCHANGED <<store, locks, reply>>

\* Mutant of Matches: the hash is not compared.
MatchesAny(r, p) == TRUE
\* The stored hash is that of the payload.
Matches(r, p) == r.payload = p

\* The record decides: none or a failed one, go on; another payload or one in
\* progress, an error; the same payload completed, its response.
Read(w) ==
  LET r == record[request[w].key] IN
  /\ At(w, "reading") /\ ~request[w].expired
  /\ IF r # NoRecord /\ (~Matches(r, request[w].payload) \/ r.status # "failed")
     THEN /\ End(w, IF Matches(r, request[w].payload) /\ r.status = "completed"
                    THEN "success" ELSE "error")
          /\ ReleaseAll(w)
     ELSE GoTo(w, "upserting") /\ UNCHANGED <<locks, reply>>
  /\ UNCHANGED store

\* INSERT ... ON CONFLICT DO UPDATE: waits for whoever has written the record.
Upsert(w) ==
  LET k == request[w].key IN
  /\ At(w, "upserting") /\ ~request[w].expired
  /\ keyLock[k] = Nobody
  /\ keyLock' = [keyLock EXCEPT ![k] = w]
  /\ GoTo(w, IF Nested(w) THEN "nesting" ELSE "locking")
  /\ UNCHANGED <<store, refLock, rowLock, reply>>

-----------------------------------------------------------------------------
(* The operation: initiateTransfer, internal, or LedgerService.transfer.   *)

\* LedgerService.transfer needs a second connection while it holds the first.
Nest(w) ==
  /\ At(w, "nesting") /\ FreeConnection
  /\ GoTo(w, "locking")
  /\ UNCHANGED <<store, locks, reply>>

\* A payout locks its source first; a ledger transfer the lesser id first.
First(p) == IF p.kind = "ledger" /\ Before(p.to, p.from) THEN p.to ELSE p.from
Second(p) == IF First(p) = p.from THEN p.to ELSE p.from

Wants(w) ==
  IF At(w, "locking") THEN First(request[w].payload) ELSE Second(request[w].payload)

\* SELECT ... FOR UPDATE.
Lock(w) ==
  /\ request[w].step \in {"locking", "locking_second"} /\ Open(w)
  /\ rowLock[Wants(w)] \in {w, Nobody}
  /\ rowLock' = [rowLock EXCEPT ![Wants(w)] = w]
  /\ GoTo(w, IF At(w, "locking") THEN "locking_second" ELSE "posting")
  /\ UNCHANGED <<store, keyLock, refLock, reply>>

Journal(w) == [payload |-> request[w].payload, key |-> request[w].key]

\* Mutant of Unused: neither the lookup nor the unique index.
UnusedOrNot(r) == TRUE
\* The reference is unique per project.
Unused(r) == journal[r] = NoJournal

\* The journal, its entries and the balances.  The inner transaction of a ledger
\* transfer commits them, whatever has become of the outer one.
Post(w) ==
  LET r == request[w].payload.ref IN
  /\ At(w, "posting") /\ Open(w)
  /\ Unused(r) /\ refLock[r] = Nobody
  /\ GoTo(w, "committing")
  /\ IF Nested(w)
     THEN /\ journal' = [journal EXCEPT ![r] = Journal(w)]
          /\ rowLock' = Without(w, rowLock)
          /\ UNCHANGED refLock
     ELSE /\ refLock' = [refLock EXCEPT ![r] = w]
          /\ UNCHANGED <<journal, rowLock>>
  /\ UNCHANGED <<record, keyLock, reply>>

\* Any other throw of the operation: a limit, an account that is missing or not
\* active, too little money.  The catch block writes "failed" into the transaction,
\* or fails to, and throws: the transaction is rolled back.
Refuse(w) ==
  /\ request[w].step \in {"nesting"} \cup Posting /\ Open(w)
  /\ Fail(w)

\* A used reference is a conflict.
Conflict(w) ==
  /\ At(w, "posting") /\ Open(w)
  /\ ~Unused(request[w].payload.ref)
  /\ Fail(w)

-----------------------------------------------------------------------------
(* The end of the transaction.                                             *)

\* Mutant of Recorded: the record is written outside the transaction, and lost.
RecordedNot(w) == record
\* The record as this transaction has written it.
Recorded(w) ==
  [record EXCEPT ![request[w].key] = [payload |-> request[w].payload, status |-> "completed"]]

\* The record is completed and COMMIT makes it and a payout's postings visible, and is answered.
Commit(w) ==
  /\ At(w, "committing") /\ ~request[w].expired
  /\ record' = Recorded(w)
  /\ journal' = IF Nested(w) THEN journal
                ELSE [journal EXCEPT ![request[w].payload.ref] = Journal(w)]
  /\ ReleaseAll(w)
  /\ End(w, "success")

-----------------------------------------------------------------------------
(* Timeouts, deadlocks and crashes.                                        *)

\* Mutant of WaitsInVain: nobody gives up waiting for the inner transaction.
WaitsOutside(w) == At(w, "beginning")
\* A request waiting for a connection: for its transaction, or for the inner one.
WaitsInVain(w) == request[w].step \in {"beginning", "nesting"}

\* maxWait: no connection became free in time, for the outer or the inner one.
WaitTimesOut(w) ==
  /\ WaitsInVain(w) /\ ~FreeConnection
  /\ Fail(w)

\* Prisma rolls the outer transaction back after five seconds, under way or not.
\* The rows the inner transaction of a ledger transfer has locked stay locked.
Expire(w) ==
  /\ HasOuter(w)
  /\ request' = [request EXCEPT ![w].expired = TRUE]
  /\ keyLock' = Without(w, keyLock)
  /\ refLock' = Without(w, refLock)
  /\ rowLock' = IF HasInner(w) THEN rowLock ELSE Without(w, rowLock)
  /\ UNCHANGED <<store, reply>>

\* The next statement of an expired transaction throws, as does the update in
\* the catch block; an operation with a transaction of its own runs to its end first.
NoticeExpiry(w) ==
  /\ request[w].expired
  /\ \/ request[w].step \in {"reading", "upserting", "committing"}
     \/ request[w].step \in Posting /\ ~Nested(w)
  /\ Fail(w)

\* The row lock or record the next statement of w waits for is held by Holder(w).
Holder(w) ==
  CASE At(w, "upserting") -> keyLock[request[w].key]
    [] request[w].step \in {"locking", "locking_second"} /\ Open(w) -> rowLock[Wants(w)]
    [] At(w, "posting") /\ Open(w) -> refLock[request[w].payload.ref]
    [] OTHER -> Nobody

\* PostgreSQL aborts one transaction of a circle of waiting ones.
AbortDeadlocked(w) ==
  /\ \E C \in SUBSET Worker :
       w \in C /\ Cardinality(C) > 1 /\ {Holder(u) : u \in C} = C
  /\ Fail(w)

\* The process dies: PostgreSQL rolls back what it had open, nobody is answered.
Crash(w) ==
  /\ ~At(w, "ended")
  /\ GoTo(w, "ended") /\ ReleaseAll(w)
  /\ UNCHANGED <<store, reply>>

-----------------------------------------------------------------------------
\* What PostgreSQL, the pool and the handler go on to do.
Advance(w) ==
  \/ Begin(w) \/ Read(w) \/ Upsert(w) \/ Nest(w) \/ Lock(w) \/ Post(w) \/ Conflict(w)
  \/ Commit(w)
  \/ WaitTimesOut(w) \/ NoticeExpiry(w) \/ AbortDeadlocked(w)

Next == \E w \in Worker : Reject(w) \/ Advance(w) \/ Refuse(w) \/ Expire(w) \/ Crash(w)

Spec == Init /\ [][Next]_vars

\* As long as one of the requests can go on, one of them does; nothing forces a
\* request to be refused, an operation to expire or a process to die.
FairSpec == Spec /\ WF_vars(\E w \in Worker : Advance(w))

-----------------------------------------------------------------------------
(* Properties.                                                             *)

\* A client that was told of success has its payload in the ledger, once and for
\* good, whether its own request, an earlier one or an overlapping one executed it.
SuccessIsDurable ==
  \A w \in Worker : reply[w] = "success" =>
    LET j == journal[request[w].payload.ref] IN
    j # NoJournal /\ j.payload = request[w].payload

\* A record other requests can see is completed and is that of a posted journal
\* under its key: nobody finds a key in progress, and none is answered from a
\* record whose operation was rolled back.
RecordBacked ==
  \A k \in Key : record[k] # NoRecord =>
    LET r == record[k] IN
    /\ r.status = "completed"
    /\ journal[r.payload.ref] = [payload |-> r.payload, key |-> k]

\* A payout is posted only together with a record of its key, so the key is known
\* to every later request; transactions that expire or die leave neither.
PayoutsAreRecorded ==
  \A r \in Ref :
    journal[r] # NoJournal /\ journal[r].payload.kind = "payout"
      => record[journal[r].key] # NoRecord

\* Every request ends, although ledger transfers wait for a second connection while
\* they hold the first, and payouts lock their wallets in opposite orders.
RequestsEnd == <>[](\A w \in Worker : At(w, "ended"))

\* One key executes one payload.
OneExecutionPerKey ==
  \A r, s \in Ref :
    journal[r] # NoJournal /\ journal[s] # NoJournal /\ journal[r].key = journal[s].key
      => r = s
=============================================================================
