---------------------------- MODULE PlatformProofs ----------------------------
(***************************************************************************)
(* The safety of Platform: of the requests under an idempotency key, of    *)
(* the transfer drawer, the test project, lists and the console, each with *)
(* its inductive invariant; and, since no part reads another's state, of   *)
(* all parts side by side, those of the providers, the webhooks and the    *)
(* workspaces from their own modules.                                      *)
(***************************************************************************)
EXTENDS Platform, FiniteSetTheorems, WellFoundedInduction, SequenceTheorems, TLAPS

-----------------------------------------------------------------------------
(* Requests under an idempotency key: a posted journal stays, so it is     *)
(* enough to know what a request that is about to commit holds.            *)

\* A payout about to commit holds its reference, which no journal has yet; a ledger
\* transfer's inner transaction has already posted its journal.
Prepared(w) ==
  At(w, "committing") =>
    LET r == request[w].payload.ref IN
    IF Nested(w) THEN journal[r] = Journal(w)
    ELSE request[w].expired \/ (refLock[r] = w /\ journal[r] = NoJournal)

IInv ==
  /\ TypeOK
  /\ SuccessIsDurable /\ RecordBacked /\ PayoutsAreRecorded
  /\ \A w \in Worker : Prepared(w)

LEMMA InitInvariant == Init => IInv
<1> SUFFICES ASSUME Init PROVE IInv
  OBVIOUS
<1> USE DEF Init
<1>1. PICK sent \in Batch :
        request = [w \in Worker |-> [step |-> "beginning", key |-> sent[w].key,
                                     payload |-> sent[w].payload, expired |-> FALSE]]
  OBVIOUS
<1>2. sent \in [Worker -> [key : Key, payload : Payload]]
  BY PayloadAssumption
<1>3. \A w \in Worker : sent[w].key \in Key /\ sent[w].payload \in Payload
  BY <1>2
<1>4. TypeOK
  BY <1>1, <1>3 DEF TypeOK, RequestType, Step
<1> QED
  BY <1>1, <1>4, NoValueAssumption
     DEF IInv, SuccessIsDurable, RecordBacked, PayoutsAreRecorded, Prepared, At

\* What a step of one request may do to the rest, in all steps that commit nothing.
Quiet(w) ==
  /\ store' = store
  /\ \A u \in Worker \ {w} : request'[u] = request[u] /\ reply'[u] = reply[u]
  /\ \A r \in Ref : refLock[r] \in Worker \ {w} => refLock'[r] = refLock[r]
  /\ request'[w].key = request[w].key /\ request'[w].payload = request[w].payload

\* ReleaseAll leaves the rows of the others.
LEMMA Releases ==
  ASSUME TypeOK, NEW w \in Worker, ReleaseAll(w)
  PROVE  /\ keyLock' \in [Key -> Worker \cup {Nobody}]
         /\ refLock' \in [Ref -> Worker \cup {Nobody}]
         /\ rowLock' \in [Account -> Worker \cup {Nobody}]
         /\ \A r \in Ref : refLock[r] # w => refLock'[r] = refLock[r]
BY DEF TypeOK, ReleaseAll, Without

LEMMA Ends ==
  ASSUME TypeOK, NEW w \in Worker, NEW x \in {"success", "error"}, End(w, x)
  PROVE  /\ request' \in [Worker -> RequestType]
         /\ reply' \in [Worker -> {"none", "success", "error"}]
         /\ request' = [request EXCEPT ![w].step = "ended"]
         /\ reply' = [reply EXCEPT ![w] = x]
BY DEF TypeOK, RequestType, End, GoTo, Step

LEMMA Moves ==
  ASSUME TypeOK, NEW w \in Worker, NEW s \in Step, GoTo(w, s)
  PROVE  request' \in [Worker -> RequestType]
BY DEF TypeOK, RequestType, GoTo

\* A step that commits nothing and brings its request neither to its commit nor to
\* success preserves the invariant.
LEMMA QuietStep ==
  ASSUME IInv, TypeOK', NEW w \in Worker, Quiet(w),
         request'[w].step = "committing" => At(w, "committing") /\ request'[w].expired,
         reply'[w] = "success" => SuccessIsDurable'
  PROVE  IInv'
<1> USE DEF Quiet, store
<1>1. RecordBacked' /\ PayoutsAreRecorded'
  BY DEF IInv, RecordBacked, PayoutsAreRecorded
<1>2. SuccessIsDurable'
  BY DEF IInv, SuccessIsDurable
<1>3. ASSUME NEW u \in Worker PROVE Prepared(u)'
  <2>1. CASE u = w
    BY <2>1 DEF IInv, Prepared, At, Nested, Journal
  <2>2. CASE u # w
    <3>1. request'[u] = request[u] /\ request[u] \in RequestType
      BY <2>2 DEF IInv, TypeOK
    <3>2. request[u].payload.ref \in Ref
      BY <3>1, PayloadAssumption DEF RequestType, PayloadType
    <3> QED
      BY <2>2, <3>1, <3>2 DEF IInv, Prepared, At, Nested, Journal
  <2> QED
    BY <2>1, <2>2
<1> QED
  BY <1>1, <1>2, <1>3 DEF IInv

LEMMA FailStep ==
  ASSUME IInv, NEW w \in Worker, Fail(w)
  PROVE  IInv'
<1>1. TypeOK
  BY DEF IInv
<1>2. End(w, "error") /\ ReleaseAll(w) /\ UNCHANGED store
  BY DEF Fail
<1>3. TypeOK'
  BY <1>1, <1>2, Releases, Ends DEF TypeOK, store
<1>4. request' = [request EXCEPT ![w].step = "ended"] /\ reply' = [reply EXCEPT ![w] = "error"]
  BY <1>1, <1>2, Ends
<1>5. Quiet(w)
  BY <1>1, <1>2, <1>4, Releases DEF Quiet, TypeOK, RequestType
<1> QED
  BY <1>1, <1>3, <1>4, <1>5, QuietStep DEF TypeOK, RequestType

LEMMA ReadStep ==
  ASSUME IInv, NEW w \in Worker, Read(w)
  PROVE  IInv'
<1> DEFINE k == request[w].key
           r == record[k]
<1>1. TypeOK /\ k \in Key /\ request[w].payload \in Payload
  BY DEF IInv, TypeOK, RequestType
<1>2. CASE r # NoRecord /\ (~Matches(r, request[w].payload) \/ r.status # "failed")
  <2>1. CASE ~(Matches(r, request[w].payload) /\ r.status = "completed")
    <3>1. Fail(w)
      BY <1>2, <2>1 DEF Read, Fail
    <3> QED
      BY <3>1, FailStep
  <2>2. CASE Matches(r, request[w].payload) /\ r.status = "completed"
    <3>1. End(w, "success") /\ ReleaseAll(w) /\ UNCHANGED store
      BY <1>2, <2>2 DEF Read
    <3>2. TypeOK'
      BY <1>1, <3>1, Releases, Ends DEF TypeOK, store
    <3>3. request' = [request EXCEPT ![w].step = "ended"]
          /\ reply' = [reply EXCEPT ![w] = "success"]
      BY <1>1, <3>1, Ends
    <3>4. Quiet(w)
      BY <1>1, <3>1, <3>3, Releases DEF Quiet, TypeOK, RequestType
    <3>5. journal[request[w].payload.ref] = [payload |-> request[w].payload, key |-> k]
      BY <1>1, <1>2, <2>2 DEF IInv, RecordBacked, Matches
    <3>6. request[w].payload.ref \in Ref
      BY <1>1, PayloadAssumption DEF PayloadType
    <3>7. journal[request[w].payload.ref] # NoJournal
      BY <1>1, <3>5, NoValueAssumption DEF JournalType
    <3>8. SuccessIsDurable'
      BY <1>1, <3>1, <3>3, <3>5, <3>7 DEF IInv, SuccessIsDurable, store, TypeOK, RequestType
    <3> QED
      BY <1>1, <3>2, <3>3, <3>4, <3>8, QuietStep DEF TypeOK, RequestType
  <2> QED
    BY <2>1, <2>2
<1>3. CASE ~(r # NoRecord /\ (~Matches(r, request[w].payload) \/ r.status # "failed"))
  <2>1. GoTo(w, "upserting") /\ UNCHANGED <<store, locks, reply>>
    BY <1>3 DEF Read, locks
  <2>2. TypeOK'
    BY <1>1, <2>1, Moves DEF TypeOK, store, locks, Step
  <2>3. Quiet(w)
    BY <1>1, <2>1 DEF Quiet, TypeOK, RequestType, GoTo, store, locks
  <2>4. reply'[w] = "success" => SuccessIsDurable'
    BY <1>1, <2>1 DEF IInv, SuccessIsDurable, GoTo, TypeOK, RequestType, store
  <2> QED
    BY <1>1, <2>1, <2>2, <2>3, <2>4, QuietStep DEF GoTo, TypeOK, RequestType
<1> QED
  BY <1>2, <1>3

\* The other steps that commit nothing.
LEMMA PassStep ==
  ASSUME IInv, NEW w \in Worker, NEW s \in Step, s # "committing", GoTo(w, s),
         UNCHANGED <<store, refLock, reply>>,
         keyLock' \in [Key -> Worker \cup {Nobody}],
         rowLock' \in [Account -> Worker \cup {Nobody}]
  PROVE  IInv'
<1>1. TypeOK
  BY DEF IInv
<1>2. TypeOK'
  BY <1>1, Moves DEF TypeOK, store
<1>3. Quiet(w)
  BY <1>1 DEF Quiet, TypeOK, RequestType, GoTo, store
<1>4. reply'[w] = "success" => SuccessIsDurable'
  BY <1>1 DEF IInv, SuccessIsDurable, GoTo, TypeOK, RequestType, store
<1> QED
  BY <1>1, <1>2, <1>3, <1>4, QuietStep DEF GoTo, TypeOK, RequestType

LEMMA EndStep ==
  ASSUME IInv, NEW w \in Worker, End(w, "error"), UNCHANGED <<store, locks>>
  PROVE  IInv'
<1>1. TypeOK
  BY DEF IInv
<1>2. request' = [request EXCEPT ![w].step = "ended"] /\ reply' = [reply EXCEPT ![w] = "error"]
  BY <1>1, Ends
<1>3. TypeOK'
  BY <1>1, Ends DEF TypeOK, store, locks
<1>4. Quiet(w)
  BY <1>1, <1>2 DEF Quiet, TypeOK, RequestType, locks
<1> QED
  BY <1>1, <1>2, <1>3, <1>4, QuietStep DEF TypeOK, RequestType

\* Expiry takes the locks, and with them what Prepared asks of a payout.
LEMMA ExpireStep ==
  ASSUME IInv, NEW w \in Worker, Expire(w)
  PROVE  IInv'
<1>1. TypeOK
  BY DEF IInv
<1>2. request' \in [Worker -> RequestType]
  BY <1>1 DEF Expire, TypeOK, RequestType
<1>3. TypeOK'
  BY <1>1, <1>2 DEF TypeOK, Expire, Without, store
<1>4. /\ \A u \in Worker \ {w} : request'[u] = request[u]
      /\ request'[w] = [request[w] EXCEPT !.expired = TRUE]
      /\ \A r \in Ref : refLock[r] # w => refLock'[r] = refLock[r]
      /\ record' = record /\ journal' = journal /\ reply' = reply
  BY <1>1 DEF Expire, TypeOK, RequestType, Without, store
<1>5. \A u \in Worker : request'[u].payload = request[u].payload
                         /\ request'[u].key = request[u].key
                         /\ request'[u].step = request[u].step
  BY <1>1, <1>4 DEF TypeOK, RequestType
<1>6. SuccessIsDurable' /\ RecordBacked' /\ PayoutsAreRecorded'
  BY <1>4, <1>5 DEF IInv, SuccessIsDurable, RecordBacked, PayoutsAreRecorded
<1>7. ASSUME NEW u \in Worker PROVE Prepared(u)'
  <2>1. CASE u = w
    BY <1>1, <1>4, <1>5, <2>1 DEF IInv, Prepared, At, Nested, Journal, TypeOK, RequestType
  <2>2. CASE u # w
    <3>1. request[u].payload.ref \in Ref
      BY <1>1, PayloadAssumption DEF TypeOK, RequestType, PayloadType
    <3> QED
      BY <1>4, <2>2, <3>1 DEF IInv, Prepared, At, Nested, Journal
  <2> QED
    BY <2>1, <2>2
<1> QED
  BY <1>3, <1>6, <1>7 DEF IInv

LEMMA CrashStep ==
  ASSUME IInv, NEW w \in Worker, Crash(w)
  PROVE  IInv'
<1>1. TypeOK
  BY DEF IInv
<1>2. GoTo(w, "ended") /\ ReleaseAll(w) /\ UNCHANGED <<store, reply>>
  BY DEF Crash
<1>3. TypeOK'
  BY <1>1, <1>2, Moves, Releases DEF TypeOK, store, Step
<1>4. Quiet(w)
  BY <1>1, <1>2, Releases DEF Quiet, TypeOK, RequestType, GoTo
<1>5. reply'[w] = "success" => SuccessIsDurable'
  BY <1>1, <1>2 DEF IInv, SuccessIsDurable, GoTo, TypeOK, RequestType, store
<1> QED
  BY <1>1, <1>2, <1>3, <1>4, <1>5, QuietStep DEF GoTo, TypeOK, RequestType

\* Posting: the reference was free, so no other journal or claim is disturbed.
LEMMA PostStep ==
  ASSUME IInv, NEW w \in Worker, Post(w)
  PROVE  IInv'
<1> DEFINE r == request[w].payload.ref
<1>1. TypeOK
  BY DEF IInv
<1>2. /\ request[w].payload \in Payload /\ request[w].key \in Key /\ r \in Ref
      /\ At(w, "posting") /\ journal[r] = NoJournal /\ refLock[r] = Nobody
  BY <1>1, PayloadAssumption DEF Post, Unused, TypeOK, RequestType, PayloadType
<1>3. Journal(w) \in JournalType /\ Journal(w) # NoJournal
  BY <1>2, NoValueAssumption DEF Journal, JournalType
<1>4. /\ request' = [request EXCEPT ![w].step = "committing"]
      /\ record' = record /\ keyLock' = keyLock /\ reply' = reply
  BY DEF Post, GoTo
<1>5. request' \in [Worker -> RequestType]
  BY <1>1, Moves DEF Post, Step
<1>6. \A u \in Worker : request'[u].payload = request[u].payload
                         /\ request'[u].key = request[u].key
                         /\ request'[u].expired = request[u].expired
                         /\ (u # w => request'[u] = request[u])
  BY <1>1, <1>4 DEF TypeOK, RequestType
<1>7. \A u \in Worker : request[u].payload.ref \in Ref
  BY <1>1, PayloadAssumption DEF TypeOK, RequestType, PayloadType
<1>8. CASE Nested(w)
  <2>1. /\ journal' = [journal EXCEPT ![r] = Journal(w)] /\ refLock' = refLock
        /\ rowLock' = Without(w, rowLock)
    BY <1>8 DEF Post
  <2>2. TypeOK'
    BY <1>1, <1>3, <1>4, <1>5, <2>1 DEF TypeOK, Without
  <2>3. \A q \in Ref : journal[q] # NoJournal => journal'[q] = journal[q]
    BY <1>1, <1>2, <2>1 DEF TypeOK
  <2>4. SuccessIsDurable'
    BY <1>4, <1>6, <1>7, <2>3 DEF IInv, SuccessIsDurable
  <2>5. RecordBacked'
    <3> SUFFICES ASSUME NEW k \in Key, record[k] # NoRecord
                 PROVE  /\ record[k].status = "completed"
                        /\ journal'[record[k].payload.ref] = [payload |-> record[k].payload, key |-> k]
      BY <1>4 DEF RecordBacked
    <3>1. record[k].payload \in Payload /\ record[k].payload.ref \in Ref
      BY <1>1, PayloadAssumption DEF TypeOK, RecordType, PayloadType
    <3>2. journal[record[k].payload.ref] = [payload |-> record[k].payload, key |-> k]
      BY DEF IInv, RecordBacked
    <3>3. journal[record[k].payload.ref] # NoJournal
      BY <3>1, <3>2, NoValueAssumption DEF JournalType
    <3> QED
      BY <2>3, <3>1, <3>2, <3>3 DEF IInv, RecordBacked
  <2>6. PayoutsAreRecorded'
    BY <1>1, <1>2, <1>4, <1>8, <2>1 DEF IInv, PayoutsAreRecorded, TypeOK, Journal, Nested
  <2>7. ASSUME NEW u \in Worker PROVE Prepared(u)'
    <3>1. CASE u = w
      BY <1>1, <1>2, <1>6, <1>8, <2>1, <3>1 DEF Prepared, At, Nested, Journal, TypeOK
    <3>2. CASE u # w /\ At(u, "committing") /\ Nested(u)
      <4>1. journal[request[u].payload.ref] = Journal(u)
        BY <3>2 DEF IInv, Prepared
      <4>2. Journal(u) # NoJournal
        BY <1>1, NoValueAssumption DEF Journal, JournalType, TypeOK, RequestType
      <4>3. journal'[request[u].payload.ref] = Journal(u)
        BY <1>7, <2>3, <4>1, <4>2
      <4> QED
        BY <1>6, <3>2, <4>3 DEF Prepared, At, Nested, Journal
    <3>3. CASE u # w /\ At(u, "committing") /\ ~Nested(u)
      <4>1. request[u].expired
             \/ (refLock[request[u].payload.ref] = u /\ journal[request[u].payload.ref] = NoJournal)
        BY <3>3 DEF IInv, Prepared
      <4>2. request[u].payload.ref # r \/ request[u].expired
        BY <1>2, <4>1, NoValueAssumption
      <4> QED
        BY <1>1, <1>6, <1>7, <2>1, <3>3, <4>1, <4>2 DEF Prepared, At, Nested, Journal, TypeOK
    <3>4. CASE u # w /\ ~At(u, "committing")
      BY <1>6, <3>4 DEF Prepared, At
    <3> QED
      BY <3>1, <3>2, <3>3, <3>4
  <2> QED
    BY <2>2, <2>4, <2>5, <2>6, <2>7 DEF IInv
<1>9. CASE ~Nested(w)
  <2>1. /\ refLock' = [refLock EXCEPT ![r] = w] /\ journal' = journal /\ rowLock' = rowLock
    BY <1>9 DEF Post
  <2>2. TypeOK'
    BY <1>1, <1>4, <1>5, <2>1 DEF TypeOK
  <2>3. SuccessIsDurable' /\ RecordBacked' /\ PayoutsAreRecorded'
    BY <1>4, <1>6, <2>1 DEF IInv, SuccessIsDurable, RecordBacked, PayoutsAreRecorded
  <2>4. ASSUME NEW u \in Worker PROVE Prepared(u)'
    <3>1. CASE u = w
      BY <1>1, <1>2, <1>6, <1>9, <2>1, <3>1 DEF Prepared, At, Nested, TypeOK
    <3>2. CASE u # w
      BY <1>1, <1>2, <1>6, <1>7, <2>1, <3>2, NoValueAssumption
         DEF IInv, Prepared, At, Nested, Journal, TypeOK
    <3> QED
      BY <3>1, <3>2
  <2> QED
    BY <2>2, <2>3, <2>4 DEF IInv
<1> QED
  BY <1>8, <1>9

\* The commit: the record is that of the journal the request has prepared.
LEMMA CommitStep ==
  ASSUME IInv, NEW w \in Worker, Commit(w)
  PROVE  IInv'
<1> DEFINE r == request[w].payload.ref
           k == request[w].key
           Rec == [payload |-> request[w].payload, status |-> "completed"]
<1>1. TypeOK
  BY DEF IInv
<1>2. /\ request[w].payload \in Payload /\ k \in Key /\ r \in Ref
      /\ At(w, "committing") /\ ~request[w].expired
      /\ \A u \in Worker : request[u].payload.ref \in Ref
  BY <1>1, PayloadAssumption DEF Commit, TypeOK, RequestType, PayloadType
<1>3. Journal(w) \in JournalType /\ Journal(w) # NoJournal /\ Rec \in RecordType /\ Rec # NoRecord
  BY <1>2, NoValueAssumption DEF Journal, JournalType, RecordType
<1>4. record' = [record EXCEPT ![k] = Rec]
  BY DEF Commit, Recorded
<1>5. /\ request' \in [Worker -> RequestType]
      /\ reply' \in [Worker -> {"none", "success", "error"}]
      /\ request' = [request EXCEPT ![w].step = "ended"]
      /\ reply' = [reply EXCEPT ![w] = "success"]
  BY <1>1, Ends DEF Commit
<1>6. /\ keyLock' \in [Key -> Worker \cup {Nobody}]
      /\ refLock' \in [Ref -> Worker \cup {Nobody}]
      /\ rowLock' \in [Account -> Worker \cup {Nobody}]
      /\ \A q \in Ref : refLock[q] # w => refLock'[q] = refLock[q]
  BY <1>1, Releases DEF Commit
<1>7. /\ journal' = [journal EXCEPT ![r] = Journal(w)]
      /\ journal[r] \in {NoJournal, Journal(w)}
      /\ Nested(w) => journal[r] = Journal(w)
      /\ ~Nested(w) => refLock[r] = w /\ journal[r] = NoJournal
  <2>1. CASE Nested(w)
    <3>1. journal[r] = Journal(w) /\ journal' = journal
      BY <1>2, <2>1 DEF IInv, Prepared, Commit
    <3> QED
      BY <1>1, <2>1, <3>1 DEF TypeOK
  <2>2. CASE ~Nested(w)
    BY <1>2, <2>2 DEF IInv, Prepared, Commit
  <2> QED
    BY <2>1, <2>2
<1>8. TypeOK'
  BY <1>1, <1>3, <1>4, <1>5, <1>6, <1>7 DEF TypeOK
<1>9. \A u \in Worker : /\ request'[u].payload = request[u].payload
                         /\ request'[u].key = request[u].key
                         /\ (u # w => request'[u] = request[u] /\ reply'[u] = reply[u])
  BY <1>1, <1>5 DEF TypeOK, RequestType
<1>10. \A q \in Ref : journal[q] # NoJournal => journal'[q] = journal[q]
  BY <1>1, <1>2, <1>7 DEF TypeOK
<1>11. journal'[r] = Journal(w) /\ record'[k] = Rec
  BY <1>1, <1>2, <1>4, <1>7 DEF TypeOK
<1> HIDE DEF r, k, Rec
<1>12. SuccessIsDurable'
  <2> SUFFICES ASSUME NEW u \in Worker, reply'[u] = "success"
               PROVE  /\ journal'[request[u].payload.ref] # NoJournal
                      /\ journal'[request[u].payload.ref].payload = request[u].payload
    BY <1>9 DEF SuccessIsDurable
  <2>1. CASE u = w
    BY <1>3, <1>11, <2>1 DEF r, Journal
  <2>2. CASE u # w
    BY <1>2, <1>9, <1>10, <2>2 DEF IInv, SuccessIsDurable
  <2> QED
    BY <2>1, <2>2
<1>13. RecordBacked'
  <2> SUFFICES ASSUME NEW j \in Key, record'[j] # NoRecord
               PROVE  /\ record'[j].status = "completed"
                      /\ journal'[record'[j].payload.ref] = [payload |-> record'[j].payload, key |-> j]
    BY DEF RecordBacked
  <2>1. CASE j = k
    BY <1>11, <2>1 DEF Rec, r, k, Journal
  <2>2. CASE j # k
    <3>1. record'[j] = record[j]
      BY <1>1, <1>4, <2>2 DEF TypeOK
    <3>2. record[j].payload.ref \in Ref
      BY <1>1, <3>1, PayloadAssumption DEF TypeOK, RecordType, PayloadType
    <3>3. /\ record[j].status = "completed"
          /\ journal[record[j].payload.ref] = [payload |-> record[j].payload, key |-> j]
      BY <3>1 DEF IInv, RecordBacked
    <3>4. journal[record[j].payload.ref] # NoJournal
      BY <1>1, <3>1, <3>3, NoValueAssumption DEF JournalType, TypeOK, RecordType
    <3> QED
      BY <1>10, <3>1, <3>2, <3>3, <3>4
  <2> QED
    BY <2>1, <2>2
<1>14. PayoutsAreRecorded'
  <2> SUFFICES ASSUME NEW q \in Ref, journal'[q] # NoJournal,
                      journal'[q].payload.kind = "payout"
               PROVE  record'[journal'[q].key] # NoRecord
    BY DEF PayoutsAreRecorded
  <2>1. CASE q = r
    BY <1>3, <1>11, <2>1 DEF k, Journal
  <2>2. CASE q # r
    <3>1. journal'[q] = journal[q] /\ journal[q].key \in Key
      BY <1>1, <1>7, <2>2 DEF TypeOK, JournalType
    <3>2. record[journal[q].key] # NoRecord
      BY <3>1 DEF IInv, PayoutsAreRecorded
    <3> QED
      BY <1>1, <1>3, <1>4, <3>1, <3>2 DEF TypeOK
  <2> QED
    BY <2>1, <2>2
<1>15. ASSUME NEW u \in Worker PROVE Prepared(u)'
  <2>1. CASE u = w
    BY <1>1, <1>5, <2>1 DEF Prepared, At, TypeOK, RequestType
  <2>2. CASE u # w /\ At(u, "committing") /\ Nested(u)
    <3>1. journal[request[u].payload.ref] = Journal(u)
      BY <2>2 DEF IInv, Prepared
    <3>2. Journal(u) # NoJournal
      BY <1>1, NoValueAssumption DEF Journal, JournalType, TypeOK, RequestType
    <3>3. journal'[request[u].payload.ref] = Journal(u)
      BY <1>2, <1>10, <3>1, <3>2
    <3> QED
      BY <1>9, <2>2, <3>3 DEF Prepared, At, Nested, Journal
  <2>3. CASE u # w /\ At(u, "committing") /\ ~Nested(u) /\ ~request[u].expired
    <3>1. refLock[request[u].payload.ref] = u /\ journal[request[u].payload.ref] = NoJournal
      BY <2>3 DEF IInv, Prepared
    <3>2. request[u].payload.ref # r
      <4>1. CASE Nested(w)
        BY <1>3, <1>7, <3>1, <4>1
      <4>2. CASE ~Nested(w)
        BY <1>7, <2>3, <3>1, <4>2
      <4> QED
        BY <4>1, <4>2
    <3>3. journal'[request[u].payload.ref] = NoJournal
      BY <1>1, <1>2, <1>7, <3>1, <3>2 DEF TypeOK
    <3>4. refLock'[request[u].payload.ref] = u
      BY <1>2, <1>6, <2>3, <3>1
    <3> QED
      BY <1>9, <2>3, <3>3, <3>4 DEF Prepared, At, Nested
  <2>4. CASE u # w /\ (~At(u, "committing") \/ (~Nested(u) /\ request[u].expired))
    BY <1>9, <2>4 DEF Prepared, At, Nested
  <2> QED
    BY <2>1, <2>2, <2>3, <2>4
<1> QED
  BY <1>8, <1>12, <1>13, <1>14, <1>15 DEF IInv

LEMMA NextInvariant == IInv /\ [Next]_vars => IInv'
<1> SUFFICES ASSUME IInv, [Next]_vars PROVE IInv'
  OBVIOUS
<1>1. TypeOK
  BY DEF IInv
<1>2. CASE UNCHANGED vars
  BY <1>2 DEF IInv, vars, store, locks, TypeOK, SuccessIsDurable, RecordBacked,
              PayoutsAreRecorded, Prepared, At, Nested, Journal
<1>3. ASSUME NEW w \in Worker,
             Reject(w) \/ Advance(w) \/ Refuse(w) \/ Expire(w) \/ Crash(w)
      PROVE  IInv'
  <2>1. ASSUME Fail(w) PROVE IInv'
    BY <2>1, FailStep
  <2>2. CASE Refuse(w) \/ Conflict(w) \/ WaitTimesOut(w) \/ NoticeExpiry(w) \/ AbortDeadlocked(w)
    BY <2>1, <2>2 DEF Refuse, Conflict, WaitTimesOut, NoticeExpiry, AbortDeadlocked
  <2>3. CASE Begin(w) \/ Nest(w)
    BY <1>1, <2>3, PassStep DEF Begin, Nest, Step, locks, TypeOK
  <2>4. CASE Upsert(w)
    <3>1. keyLock' \in [Key -> Worker \cup {Nobody}] /\ rowLock' \in [Account -> Worker \cup {Nobody}]
      BY <1>1, <2>4 DEF Upsert, TypeOK
    <3>2. \E s \in {"nesting", "locking"} : GoTo(w, s)
      BY <2>4 DEF Upsert
    <3> QED
      BY <2>4, <3>1, <3>2, PassStep DEF Upsert, Step
  <2>5. CASE Lock(w)
    <3>1. keyLock' \in [Key -> Worker \cup {Nobody}] /\ rowLock' \in [Account -> Worker \cup {Nobody}]
      BY <1>1, <2>5 DEF Lock, TypeOK
    <3>2. \E s \in {"locking_second", "posting"} : GoTo(w, s)
      BY <2>5 DEF Lock
    <3> QED
      BY <2>5, <3>1, <3>2, PassStep DEF Lock, Step
  <2>6. CASE Reject(w)
    BY <2>6, EndStep DEF Reject
  <2> QED
    BY <1>3, <2>2, <2>3, <2>4, <2>5, <2>6, ReadStep, PostStep, CommitStep, ExpireStep, CrashStep
       DEF Advance
<1> QED
  BY <1>2, <1>3 DEF Next

\* The types of the model, for every set of requests, keys and wallets.
THEOREM IdempotentTypes == Spec => []TypeOK
<1>1. IInv => TypeOK
  BY DEF IInv
<1> QED
  BY <1>1, InitInvariant, NextInvariant, PTL DEF Spec

\* runIdempotent and its operations: what a client is told has happened, has.
THEOREM IdempotentSuccess == Spec => []SuccessIsDurable
<1>1. IInv => SuccessIsDurable
  BY DEF IInv
<1> QED
  BY <1>1, InitInvariant, NextInvariant, PTL DEF Spec

\* Records are completed and backed by the journal of their payload.
THEOREM IdempotentRecords == Spec => []RecordBacked
<1>1. IInv => RecordBacked
  BY DEF IInv
<1> QED
  BY <1>1, InitInvariant, NextInvariant, PTL DEF Spec

\* A payout and the record of its key commit together.
THEOREM IdempotentPayouts == Spec => []PayoutsAreRecorded
<1>1. IInv => PayoutsAreRecorded
  BY DEF IInv
<1> QED
  BY <1>1, InitInvariant, NextInvariant, PTL DEF Spec

-----------------------------------------------------------------------------
(* The transfer drawer.                                                    *)

\* At most one payment is under way, whichever opening of the drawer sent it, and the
\* drawer that waits at the last step waits for its own.
Submission ==
  /\ \A p, q \in dRequests : p = q
  /\ dRequests # {} => dWaiting.submit
  /\ dDrawer.open => dDrawer.key # 0
  /\ dDrawer.open /\ dDrawer.step # 1 => dForm.amount # Drawer!NoOne
  /\ dDrawer.open /\ dDrawer.step = 3 /\ dWaiting.submit =>
       [key |-> dDrawer.key, payment |-> Drawer!Asked] \in dRequests

DrawerInv == Drawer!TypeOK /\ Submission /\ Drawer!ReceiptIsOwn

LEMMA DrawerInit == DrawerBound \in Nat /\ Drawer!Init => DrawerInv
BY DEF Drawer!Init, DrawerInv, Drawer!TypeOK, Submission, Drawer!ReceiptIsOwn, Drawer!EmptyForm,
   Drawer!Rails

DrawerType == [open : BOOLEAN, step : 1 .. 3, key : 0 .. DrawerBound]
FormType == [rail : Drawer!Rails, custom : BOOLEAN, account : PayAccounts \cup {Drawer!NoOne},
             name : PayAccounts \cup {Drawer!NoOne, Drawer!Typed}, resolved : BOOLEAN,
             amount : PayAmounts \cup {Drawer!NoOne}, error : BOOLEAN]

\* Steps that send and answer nothing, and leave what a review shows alone.
LEMMA QuietDrawer ==
  ASSUME DrawerInv, Drawer!TypeOK', UNCHANGED <<dWaiting.submit, dRequests, dExecuted>>,
         dDrawer'.open => /\ dDrawer'.key # 0
                          /\ dDrawer'.step # 1 => dForm'.amount # Drawer!NoOne
                          /\ dDrawer'.step = 3 => /\ dDrawer.open /\ dDrawer.step = 3
                                                  /\ UNCHANGED <<dDrawer.key, Drawer!Asked,
                                                       dReceipt>>
  PROVE  DrawerInv'
BY DEF DrawerInv, Submission, Drawer!ReceiptIsOwn

LEMMA FormStep ==
  ASSUME DrawerBound \in Nat, DrawerInv,
         \/ Drawer!OpenDrawer \/ Drawer!ResetDrawer \/ Drawer!Verify \/ Drawer!TypeName
              \/ Drawer!NextStep \/ Drawer!EditInputs
         \/ \E r \in Drawer!Rails : Drawer!ChooseRail(r)
         \/ \E a \in PayAccounts \cup {Drawer!NoOne} :
              \/ Drawer!AccountNumberChange(a) \/ Drawer!BankChange(a)
              \/ Drawer!CustomBankToggle(a) \/ Drawer!CustomBankCodeChange(a)
         \/ \E n \in PayAmounts : Drawer!TypeAmount(n)
         \/ \E a \in dLookups : Drawer!LookUpAnswered(a)
  PROVE  DrawerInv'
<1> USE DEF Drawer!NoOne, Drawer!Typed
<1>0. Drawer!TypeOK BY DEF DrawerInv
<1>1. CASE Drawer!OpenDrawer
  <2>1. Drawer!TypeOK'
    <3>1. dDrawer' \in DrawerType
      <4>1. dDrawer.key + 1 \in 0 .. DrawerBound BY <1>0, <1>1 DEF Drawer!OpenDrawer, Drawer!TypeOK
      <4> QED BY <1>1, <4>1 DEF Drawer!OpenDrawer, DrawerType
    <3>2. dForm' \in FormType BY <1>0, <1>1 DEF Drawer!OpenDrawer, Drawer!TypeOK, FormType
    <3> QED BY <1>0, <1>1, <3>1, <3>2 DEF Drawer!OpenDrawer, Drawer!TypeOK, DrawerType, FormType
  <2>2. dDrawer'.key # 0 /\ dDrawer'.step = 1 BY <1>0, <1>1 DEF Drawer!OpenDrawer, Drawer!TypeOK
  <2> QED BY <1>1, <2>1, <2>2, QuietDrawer DEF Drawer!OpenDrawer
<1>2. CASE Drawer!ResetDrawer
  <2>1. Drawer!TypeOK'
    <3>1. dDrawer' \in DrawerType
      <4>1. dDrawer \in DrawerType BY <1>0 DEF Drawer!TypeOK, DrawerType
      <4>2. dDrawer' = [open |-> FALSE, step |-> 1, key |-> dDrawer.key]
        BY <1>2, <4>1 DEF Drawer!ResetDrawer, DrawerType
      <4> QED BY <4>1, <4>2 DEF DrawerType
    <3>2. Drawer!EmptyForm \in FormType BY DEF Drawer!EmptyForm, FormType, Drawer!Rails
    <3>3. dForm' \in FormType BY <1>2, <3>2 DEF Drawer!ResetDrawer, FormType, Drawer!Rails
    <3> QED BY <1>0, <1>2, <3>1, <3>3 DEF Drawer!ResetDrawer, Drawer!TypeOK, DrawerType, FormType
  <2>2. ~dDrawer'.open BY <1>0, <1>2 DEF Drawer!ResetDrawer, Drawer!TypeOK
  <2> QED BY <1>2, <2>1, <2>2, QuietDrawer DEF Drawer!ResetDrawer
<1>3. CASE Drawer!Verify
  <2>1. Drawer!TypeOK' BY <1>0, <1>3 DEF Drawer!Verify, Drawer!LookUp, Drawer!TypeOK
  <2>2. dDrawer' = dDrawer /\ dDrawer.step = 1 /\ dWaiting'.submit = dWaiting.submit
    BY <1>0, <1>3 DEF Drawer!Verify, Drawer!LookUp, Drawer!TypeOK, Drawer!Filling
  <2> QED BY <1>3, <2>1, <2>2, QuietDrawer DEF Drawer!Verify, DrawerInv, Submission
<1>4. CASE Drawer!TypeName \/ (\E r \in Drawer!Rails : Drawer!ChooseRail(r))
        \/ (\E n \in PayAmounts : Drawer!TypeAmount(n))
  <2>1. Drawer!TypeOK'
    BY <1>0, <1>4 DEF Drawer!TypeName, Drawer!ChooseRail, Drawer!TypeAmount, Drawer!TypeOK
  <2>2. UNCHANGED <<dDrawer, dWaiting, dRequests, dExecuted>> /\ dDrawer.step = 1
    BY <1>4 DEF Drawer!TypeName, Drawer!ChooseRail, Drawer!TypeAmount, Drawer!Filling
  <2> QED BY <2>1, <2>2, QuietDrawer DEF DrawerInv, Submission
<1>5. ASSUME NEW a \in PayAccounts \cup {Drawer!NoOne},
             \/ Drawer!AccountNumberChange(a) \/ Drawer!BankChange(a)
             \/ Drawer!CustomBankToggle(a) \/ Drawer!CustomBankCodeChange(a)
      PROVE  DrawerInv'
  <2>1. dForm' \in FormType
    <3>1. dForm \in FormType BY <1>0 DEF Drawer!TypeOK, FormType
    <3>2. \E c \in BOOLEAN, n \in {dForm.name, Drawer!NoOne} :
            dForm' = [dForm EXCEPT !.custom = c, !.account = a, !.resolved = FALSE, !.name = n]
      <4>1. CASE Drawer!AccountNumberChange(a) \/ Drawer!CustomBankCodeChange(a)
        BY <3>1, <4>1 DEF Drawer!AccountNumberChange, Drawer!CustomBankCodeChange, FormType
      <4>2. CASE Drawer!BankChange(a) BY <3>1, <4>2 DEF Drawer!BankChange, FormType
      <4>3. CASE Drawer!CustomBankToggle(a)
        BY <3>1, <4>3 DEF Drawer!CustomBankToggle, FormType
      <4> QED BY <1>5, <4>1, <4>2, <4>3
    <3> QED BY <3>1, <3>2 DEF FormType
  <2>2. UNCHANGED <<dWaiting, dLookups>> \/ (a # Drawer!NoOne /\ Drawer!LookUp(a))
    BY <1>5 DEF Drawer!AccountNumberChange, Drawer!BankChange, Drawer!CustomBankToggle,
       Drawer!CustomBankCodeChange
  <2>3. /\ dWaiting' \in [lookup : BOOLEAN, submit : BOOLEAN] /\ dLookups' \subseteq PayAccounts
        /\ dWaiting'.submit = dWaiting.submit
    BY <1>0, <2>2 DEF Drawer!LookUp, Drawer!TypeOK
  <2>4. UNCHANGED <<dDrawer, dRequests, dExecuted, dReceipt>> /\ dDrawer.step = 1
    BY <1>5 DEF Drawer!AccountNumberChange, Drawer!BankChange, Drawer!CustomBankToggle,
       Drawer!CustomBankCodeChange, Drawer!Edits, Drawer!Filling
  <2>5. Drawer!TypeOK' BY <1>0, <2>1, <2>3, <2>4 DEF Drawer!TypeOK, FormType
  <2> QED BY <2>3, <2>4, <2>5, QuietDrawer DEF DrawerInv, Submission
<1>6. CASE Drawer!NextStep
  <2>1. Drawer!TypeOK'
    <3>1. dDrawer' \in DrawerType BY <1>0, <1>6 DEF Drawer!NextStep, Drawer!TypeOK, DrawerType
    <3>2. dForm' \in FormType BY <1>0, <1>6 DEF Drawer!NextStep, Drawer!TypeOK, FormType
    <3> QED BY <1>0, <1>6, <3>1, <3>2 DEF Drawer!NextStep, Drawer!TypeOK, DrawerType, FormType
  <2>2. /\ UNCHANGED <<dWaiting, dRequests, dExecuted>>
        /\ dDrawer'.key = dDrawer.key /\ dDrawer.open /\ dDrawer'.step # 3
        /\ dDrawer'.step # 1 => dForm'.amount # Drawer!NoOne
    BY <1>0, <1>6 DEF Drawer!NextStep, Drawer!Complete, Drawer!Filling, Drawer!TypeOK
  <2> QED BY <2>1, <2>2, QuietDrawer DEF DrawerInv, Submission
<1>7. CASE Drawer!EditInputs
  <2>1. Drawer!TypeOK' BY <1>0, <1>7 DEF Drawer!EditInputs, Drawer!TypeOK
  <2>2. /\ UNCHANGED <<dWaiting, dRequests, dExecuted>>
        /\ dDrawer'.key = dDrawer.key /\ dDrawer.open /\ dDrawer'.step = 1
    BY <1>0, <1>7 DEF Drawer!EditInputs, Drawer!TypeOK
  <2> QED BY <2>1, <2>2, QuietDrawer DEF DrawerInv, Submission
<1>8. ASSUME NEW a \in dLookups, Drawer!LookUpAnswered(a) PROVE DrawerInv'
  <2>1. Drawer!TypeOK' BY <1>0, <1>8 DEF Drawer!LookUpAnswered, Drawer!TypeOK
  <2>2. /\ UNCHANGED <<dDrawer, dRequests, dExecuted, dReceipt>>
        /\ dWaiting'.submit = dWaiting.submit
        /\ dForm'.amount = dForm.amount /\ dForm'.rail = dForm.rail
             /\ dForm'.account = dForm.account
    BY <1>0, <1>8 DEF Drawer!LookUpAnswered, Drawer!TypeOK
  <2>3. Drawer!Asked' = Drawer!Asked BY <2>2 DEF Drawer!Asked
  <2> QED BY <2>1, <2>2, <2>3, QuietDrawer DEF DrawerInv, Submission
<1> QED BY <1>1, <1>2, <1>3, <1>4, <1>5, <1>6, <1>7, <1>8

\* A payment is sent only when none is under way.
LEMMA ConfirmStep ==
  ASSUME DrawerInv, Drawer!ConfirmTransfer
  PROVE  DrawerInv'
<1>1. dDrawer.open /\ dDrawer.step = 2 /\ ~dWaiting.submit
  BY DEF Drawer!ConfirmTransfer, Drawer!Confirmable
<1>2. dRequests = {} BY <1>1 DEF DrawerInv, Submission
<1>3. /\ dDrawer'.open /\ dDrawer'.key = dDrawer.key /\ dDrawer'.step = 3 /\ dWaiting'.submit
      /\ dForm'.amount = dForm.amount /\ dForm'.rail = dForm.rail /\ dForm'.account = dForm.account
  BY <1>1 DEF Drawer!ConfirmTransfer, DrawerInv, Drawer!TypeOK
<1>4. Drawer!Asked' = Drawer!Asked BY <1>3 DEF Drawer!Asked
<1>5. dRequests' = {[key |-> dDrawer.key, payment |-> Drawer!Asked]}
  BY <1>2 DEF Drawer!ConfirmTransfer
<1>6. dForm.amount \in PayAmounts /\ dDrawer.key \in Drawer!Keys
  BY <1>1 DEF DrawerInv, Submission, Drawer!TypeOK, Drawer!Keys, Drawer!NoOne
<1>7. Drawer!Asked \in Drawer!Payment
  BY <1>6 DEF Drawer!Asked, Drawer!Payment, DrawerInv, Drawer!TypeOK
<1>8. Drawer!TypeOK'
  <2>1. [key |-> dDrawer.key, payment |-> Drawer!Asked]
          \in [key : Drawer!Keys, payment : Drawer!Payment]
    BY <1>6, <1>7
  <2>2. dDrawer' \in DrawerType BY DEF Drawer!ConfirmTransfer, DrawerInv, Drawer!TypeOK, DrawerType
  <2>3. dForm' \in FormType BY DEF Drawer!ConfirmTransfer, DrawerInv, Drawer!TypeOK, FormType
  <2>4. dWaiting' \in [lookup : BOOLEAN, submit : BOOLEAN]
    BY DEF Drawer!ConfirmTransfer, DrawerInv, Drawer!TypeOK
  <2>5. UNCHANGED <<dLookups, dExecuted, dReceipt>> BY DEF Drawer!ConfirmTransfer
  <2> QED BY <1>5, <2>1, <2>2, <2>3, <2>4, <2>5 DEF DrawerInv, Drawer!TypeOK, DrawerType, FormType
<1> QED BY <1>1, <1>3, <1>4, <1>5, <1>6, <1>8 DEF DrawerInv, Submission, Drawer!ReceiptIsOwn

LEMMA ExecuteStep ==
  ASSUME DrawerInv, NEW q \in dRequests, Drawer!Execute(q)
  PROVE  DrawerInv'
<1>1. q.key \in Drawer!Keys /\ q.payment \in Drawer!Payment BY DEF DrawerInv, Drawer!TypeOK
<1>2. /\ UNCHANGED <<dDrawer, dForm, dWaiting, dLookups, dRequests, dReceipt>>
      /\ DOMAIN dExecuted' = DOMAIN dExecuted \cup {q.key}
      /\ \A k \in DOMAIN dExecuted : dExecuted'[k] = dExecuted[k]
      /\ dExecuted'[q.key] = q.payment
  BY DEF Drawer!Execute
<1>3. Drawer!TypeOK' BY <1>1, <1>2 DEF DrawerInv, Drawer!TypeOK
<1>4. Submission' BY <1>2 DEF DrawerInv, Submission, Drawer!Asked
<1>5. Drawer!ReceiptIsOwn' BY <1>2 DEF DrawerInv, Drawer!ReceiptIsOwn, Drawer!Asked
<1> QED BY <1>3, <1>4, <1>5 DEF DrawerInv

\* An answer comes to the drawer that asked, or to one that is not at the last step.
LEMMA AnswerStep ==
  ASSUME DrawerInv, NEW q \in dRequests, Drawer!SubmitSucceeds(q) \/ Drawer!SubmitFails(q)
  PROVE  DrawerInv'
<1>1. /\ dRequests' = {} /\ ~dWaiting'.submit /\ UNCHANGED <<dLookups, dExecuted>>
  BY DEF Drawer!SubmitSucceeds, Drawer!SubmitFails, Drawer!Answer, DrawerInv, Submission,
     Drawer!TypeOK
<1>2. dWaiting.submit BY DEF DrawerInv, Submission
<1>3. q \in [key : Drawer!Keys, payment : Drawer!Payment] BY DEF DrawerInv, Drawer!TypeOK
<1>4. CASE Drawer!SubmitSucceeds(q)
  <2>1. Drawer!TypeOK'
    BY <1>3, <1>4 DEF DrawerInv, Drawer!TypeOK, Drawer!SubmitSucceeds, Drawer!Answer
  <2>2. UNCHANGED <<dDrawer, dForm>> /\ dReceipt' = q
        /\ q.key \in DOMAIN dExecuted /\ dExecuted[q.key] = q.payment
    BY <1>4 DEF Drawer!SubmitSucceeds
  <2>3. Drawer!Asked' = Drawer!Asked BY <2>2 DEF Drawer!Asked
  <2>4. dDrawer.open /\ dDrawer.step = 3 => q = [key |-> dDrawer.key, payment |-> Drawer!Asked]
    BY <1>2 DEF DrawerInv, Submission
  <2>5. Drawer!ReceiptIsOwn' BY <1>1, <2>2, <2>3, <2>4 DEF Drawer!ReceiptIsOwn
  <2> QED BY <1>1, <2>1, <2>2, <2>5 DEF DrawerInv, Submission
<1>5. CASE Drawer!SubmitFails(q)
  <2>1. Drawer!TypeOK'
    <3>1. dDrawer' \in DrawerType
      BY <1>5 DEF Drawer!SubmitFails, DrawerInv, Drawer!TypeOK, DrawerType
    <3>2. dForm' \in FormType BY <1>5 DEF Drawer!SubmitFails, DrawerInv, Drawer!TypeOK, FormType
    <3>3. dWaiting' \in [lookup : BOOLEAN, submit : BOOLEAN]
      BY <1>5 DEF Drawer!SubmitFails, Drawer!Answer, DrawerInv, Drawer!TypeOK
    <3>4. dReceipt' = dReceipt BY <1>5 DEF Drawer!SubmitFails
    <3> QED BY <1>1, <3>1, <3>2, <3>3, <3>4 DEF DrawerInv, Drawer!TypeOK, DrawerType, FormType
  <2>2. dDrawer'.step = 1 /\ dDrawer'.open = dDrawer.open /\ dDrawer'.key = dDrawer.key
    BY <1>5 DEF Drawer!SubmitFails, DrawerInv, Drawer!TypeOK
  <2> QED BY <1>1, <2>1, <2>2 DEF DrawerInv, Submission, Drawer!ReceiptIsOwn
<1> QED BY <1>4, <1>5

LEMMA DrawerNext ==
  ASSUME DrawerBound \in Nat, DrawerInv, [Drawer!Next]_Drawer!vars
  PROVE  DrawerInv'
<1>1. CASE UNCHANGED Drawer!vars
  BY <1>1 DEF Drawer!vars, DrawerInv, Drawer!TypeOK, Submission, Drawer!ReceiptIsOwn, Drawer!Asked
<1> QED BY <1>1, FormStep, ConfirmStep, ExecuteStep, AnswerStep DEF Drawer!Next

\* Whatever the user types, closes and opens again, and however late an answer comes, the
\* receipt on the screen is that of the payment just authorized, which was made.
THEOREM ReceiptsAreOwn ==
  ASSUME DrawerBound \in Nat
  PROVE  Drawer!Spec => []Drawer!ReceiptIsOwn
<1>1. Drawer!Init => DrawerInv BY DrawerInit
<1>2. DrawerInv /\ [Drawer!Next]_Drawer!vars => DrawerInv' BY DrawerNext
<1>3. DrawerInv => Drawer!ReceiptIsOwn BY DEF DrawerInv
<1> QED BY <1>1, <1>2, <1>3, PTL DEF Drawer!Spec

\* The drawer, its form and the requests under way keep their types.
THEOREM DrawerIsTyped ==
  ASSUME DrawerBound \in Nat
  PROVE  Drawer!Spec => []Drawer!TypeOK
<1>1. Drawer!Init => DrawerInv BY DrawerInit
<1>2. DrawerInv /\ [Drawer!Next]_Drawer!vars => DrawerInv' BY DrawerNext
<1>3. DrawerInv => Drawer!TypeOK BY DEF DrawerInv
<1> QED BY <1>1, <1>2, <1>3, PTL DEF Drawer!Spec

-----------------------------------------------------------------------------
(* The test project.                                                       *)

\* The library is the same in every part.
LEMMA SandboxLibrary ==
  (\A S : Sandbox!Cardinality(S) = Cardinality(S))
    /\ (\A S : Sandbox!IsFiniteSet(S) = IsFiniteSet(S))
BY DEF Sandbox!Cardinality, Cardinality, Sandbox!IsFiniteSet, IsFiniteSet


\* The day's fundings, and the requests that are past the check of the cap.
Events == tRow \cap Sandbox!Rows({"event"})
Checked == {r \in TestRequests : Sandbox!Asks(r, "fund", "read")}

\* Every request that is past the check may still add a funding.
CapInv ==
  /\ IsFiniteSet(Events)
  /\ Cardinality(Events) + Cardinality(Checked) + 1 <= TestCap + Cardinality(TestRequests)

\* What the deletion of a customer takes along, before and after it is committed.
OwnerInv ==
  \A a \in TestWallets : <<"account", a>> \in tRow =>
    /\ <<"customer", TestOwner[a]>> \in tRow
    /\ <<"customer", TestOwner[a]>> \in tGone => <<"account", a>> \in tGone

\* The reset's statements have seen what is not younger than the last of them.
SweptInv ==
  tReset = "commit" => tRow \cap Sandbox!Rows({"customer", "account"}) \subseteq tGone \cup tRecent

SandboxInv == Sandbox!TypeOK /\ CapInv /\ OwnerInv /\ SweptInv

LEMMA SandboxInit == Sandbox!ConstantsOK /\ Sandbox!Init => SandboxInv
<1> SUFFICES ASSUME Sandbox!ConstantsOK, Sandbox!Init PROVE SandboxInv
  OBVIOUS
<1>1. PICK op \in [TestRequests -> TestOps] :
        tRequest = [r \in TestRequests |-> [op |-> op[r], step |-> "new", answer |-> "none"]]
  BY DEF Sandbox!Init
<1>2. tRow \in TestStarts /\ tGone = {} /\ tReset = "none" /\ tRecent = {} BY DEF Sandbox!Init
<1>3. Sandbox!TypeOK
  BY <1>1, <1>2, SandboxLibrary DEF Sandbox!ConstantsOK, Sandbox!TypeOK, Sandbox!Statement
<1>4. Checked = {} BY <1>1 DEF Checked, Sandbox!Asks
<1>5. Cardinality(Checked) = 0 BY <1>4, FS_EmptySet
<1>6. IsFiniteSet(Events) /\ Cardinality(Events) <= TestCap
  <2>1. IsFiniteSet(tRow) BY <1>2, SandboxLibrary DEF Sandbox!ConstantsOK
  <2>2. IsFiniteSet(Events) BY <2>1, FS_Subset DEF Events
  <2> QED BY <1>2, <2>2, SandboxLibrary DEF Sandbox!ConstantsOK, Events
<1>7. Cardinality(TestRequests) \in Nat /\ Cardinality(TestRequests) # 0
  BY FS_EmptySet, FS_CardinalityType, SandboxLibrary DEF Sandbox!ConstantsOK
<1>8. Cardinality(Events) \in Nat BY <1>6, FS_CardinalityType
<1>9. CapInv BY <1>5, <1>6, <1>7, <1>8, SandboxLibrary DEF CapInv, Sandbox!ConstantsOK
<1> QED BY <1>2, <1>3, <1>9, SandboxLibrary DEF SandboxInv, OwnerInv, SweptInv, Sandbox!ConstantsOK

\* A step that adds no funding and lets no request past the check keeps the cap.
LEMMA CapKept ==
  ASSUME Sandbox!ConstantsOK, CapInv, Events' \subseteq Events, Checked' \subseteq Checked
  PROVE  CapInv'
<1>1. Checked \subseteq TestRequests BY DEF Checked
<1>2. IsFiniteSet(Checked) /\ Cardinality(Checked) \in Nat
  BY <1>1, FS_Subset, FS_CardinalityType, SandboxLibrary DEF Sandbox!ConstantsOK
<1>3. Cardinality(Checked') \in Nat /\ Cardinality(Checked') <= Cardinality(Checked)
  BY <1>2, FS_Subset, FS_CardinalityType
<1>4. /\ IsFiniteSet(Events') /\ Cardinality(Events') <= Cardinality(Events)
      /\ Cardinality(Events) \in Nat /\ Cardinality(Events') \in Nat
  BY FS_Subset, FS_CardinalityType DEF CapInv
<1>5. Cardinality(TestRequests) \in Nat
  BY FS_CardinalityType, SandboxLibrary DEF Sandbox!ConstantsOK
<1> QED BY <1>2, <1>3, <1>4, <1>5, SandboxLibrary DEF CapInv, Sandbox!ConstantsOK

LEMMA Counts ==
  ASSUME Sandbox!ConstantsOK, CapInv
  PROVE  /\ Cardinality(TestRequests) \in Nat /\ Cardinality(Events) \in Nat
         /\ IsFiniteSet(Checked) /\ Cardinality(Checked) \in Nat
         /\ Cardinality(Checked) <= Cardinality(TestRequests)
<1>1. Checked \in SUBSET TestRequests BY DEF Checked
<1> QED BY <1>1, FS_Subset, FS_CardinalityType, SandboxLibrary DEF Sandbox!ConstantsOK, CapInv

\* What an answer and a step do to the requests.
LEMMA Answered ==
  ASSUME Sandbox!TypeOK, NEW r \in TestRequests, NEW a \in {"none", "ok", "rejected", "error"},
         Sandbox!Answers(r, a)
  PROVE  /\ tRequest'
              \in [TestRequests -> [op : TestOps, step : {"new", "read", "resetting", "done"},
                                            answer : {"none", "ok", "rejected", "error"}]]
         /\ Checked' = Checked \ {r}
<1>1. tRequest' = [tRequest EXCEPT ![r] = [op |-> tRequest[r].op, step |-> "done", answer |-> a]]
  <2>1. tRequest[r] \in [op : TestOps, step : {"new", "read", "resetting", "done"},
                        answer : {"none", "ok", "rejected", "error"}]
    BY DEF Sandbox!TypeOK
  <2>2. PICK q \in [op : TestOps, step : {"new", "read", "resetting", "done"},
                    answer : {"none", "ok", "rejected", "error"}] : q = tRequest[r]
    BY <2>1
  <2>3. [q EXCEPT !.step = "done", !.answer = a] =
          [op |-> q.op, step |-> "done", answer |-> a]
    <3>1. q = [op |-> q.op, step |-> q.step, answer |-> q.answer] OBVIOUS
    <3>2. DOMAIN q = {"op", "step", "answer"} BY <3>1
    <3>3. [q EXCEPT !.step = "done", !.answer = a] =
            [i \in {"op", "step", "answer"} |->
               IF i = "answer" THEN a ELSE IF i = "step" THEN "done" ELSE q[i]]
      BY <3>2
    <3> QED BY <3>3
  <2> QED BY <2>2, <2>3 DEF Sandbox!Answers
<1> QED BY <1>1 DEF Sandbox!TypeOK, Checked, Sandbox!Asks, Sandbox!OpOf

LEMMA Went ==
  ASSUME Sandbox!TypeOK, NEW r \in TestRequests, NEW s \in {"new", "read", "resetting", "done"},
         Sandbox!Goes(r, s)
  PROVE  /\ tRequest'
              \in [TestRequests -> [op : TestOps, step : {"new", "read", "resetting", "done"},
                                            answer : {"none", "ok", "rejected", "error"}]]
         /\ Checked' \subseteq Checked \cup {r}
         /\ tRequest[r].op.name # "fund" \/ s # "read" => Checked' \subseteq Checked
<1>1. tRequest' = [tRequest EXCEPT ![r] = [op |-> tRequest[r].op, step |-> s,
                                           answer |-> tRequest[r].answer]]
  <2>1. tRequest[r] \in [op : TestOps, step : {"new", "read", "resetting", "done"},
                        answer : {"none", "ok", "rejected", "error"}]
    BY DEF Sandbox!TypeOK
  <2>2. [tRequest[r] EXCEPT !.step = s] =
          [op |-> tRequest[r].op, step |-> s, answer |-> tRequest[r].answer]
    BY <2>1
  <2> QED BY <2>2 DEF Sandbox!Goes
<1> QED BY <1>1 DEF Sandbox!TypeOK, Checked, Sandbox!Asks, Sandbox!OpOf

\* Steps that leave the rows alone.
LEMMA FindStep ==
  ASSUME Sandbox!ConstantsOK, SandboxInv, NEW r \in TestRequests,
         Sandbox!FindCustomer(r) \/ Sandbox!UpdateCustomer(r) \/ Sandbox!FindOwner(r)
           \/ Sandbox!CheckFunding(r)
           \/ Sandbox!StartReset(r) \/ Sandbox!Again(r)
  PROVE  SandboxInv'
<1>1. UNCHANGED <<tRow, tGone, tRecent>>
  BY DEF Sandbox!FindCustomer, Sandbox!UpdateCustomer, Sandbox!FindOwner, Sandbox!CheckFunding,
     Sandbox!StartReset, Sandbox!Again
<1>2. tReset' \in Sandbox!Statement /\ (tReset' = "commit" => tReset = "commit")
  BY DEF Sandbox!FindCustomer, Sandbox!UpdateCustomer, Sandbox!FindOwner, Sandbox!CheckFunding,
     Sandbox!StartReset, Sandbox!Again,
     SandboxInv, Sandbox!TypeOK, Sandbox!Statement
<1>3. OwnerInv' /\ SweptInv' BY <1>1, <1>2 DEF SandboxInv, OwnerInv, SweptInv
<1>4. Events' = Events BY <1>1 DEF Events
<1>5. ASSUME tRequest'
             \in [TestRequests -> [op : TestOps, step : {"new", "read", "resetting", "done"},
                                            answer : {"none", "ok", "rejected", "error"}]],
             Checked' \subseteq Checked
      PROVE  SandboxInv'
  BY <1>1, <1>2, <1>3, <1>4, <1>5, CapKept DEF SandboxInv, Sandbox!TypeOK
<1>6. ASSUME NEW a \in {"none", "ok", "rejected", "error"}, Sandbox!Answers(r, a) PROVE SandboxInv'
  BY <1>5, <1>6, Answered DEF SandboxInv
<1>7. ASSUME NEW s \in {"new", "read", "resetting", "done"}, Sandbox!Goes(r, s),
             tRequest[r].op.name # "fund" \/ s # "read"
      PROVE  SandboxInv'
  BY <1>5, <1>7, Went DEF SandboxInv
<1>8. CASE Sandbox!FindCustomer(r) \/ Sandbox!UpdateCustomer(r) \/ Sandbox!FindOwner(r)
  BY <1>6, <1>7, <1>8 DEF Sandbox!FindCustomer, Sandbox!UpdateCustomer, Sandbox!FindOwner,
     Sandbox!Asks, Sandbox!OpOf
<1>9. CASE Sandbox!CheckFunding(r)
  <2>1. CASE Sandbox!Answers(r, "rejected") BY <1>6, <2>1
  <2>2. CASE Sandbox!Goes(r, "read") /\ Sandbox!UnderCap(Sandbox!Today)
    <3>1. Cardinality(Events) + 1 <= TestCap
      BY <2>2, SandboxLibrary DEF Sandbox!UnderCap, Sandbox!Today, Events
    <3>2. tRequest' \in [TestRequests -> [op : TestOps, step : {"new", "read", "resetting", "done"},
                                          answer : {"none", "ok", "rejected", "error"}]]
      BY <2>2, Went DEF SandboxInv
    <3>3. Checked' \in SUBSET TestRequests BY DEF Checked
    <3>4. Cardinality(Checked') \in Nat /\ Cardinality(Checked') <= Cardinality(TestRequests)
      BY <3>3, FS_Subset, FS_CardinalityType, SandboxLibrary DEF Sandbox!ConstantsOK
    <3>5. CapInv'
      BY <1>4, <3>1, <3>4, Counts, SandboxLibrary DEF SandboxInv, CapInv, Sandbox!ConstantsOK
    <3> QED BY <1>1, <1>2, <1>3, <3>2, <3>5 DEF SandboxInv, Sandbox!TypeOK
  <2> QED BY <1>9, <2>1, <2>2 DEF Sandbox!CheckFunding
<1>10. CASE Sandbox!StartReset(r)
  BY <1>6, <1>7, <1>10 DEF Sandbox!StartReset
<1>11. CASE Sandbox!Again(r)
  <2>1. PICK op \in TestOps :
          tRequest' = [tRequest EXCEPT ![r] = [op |-> op, step |-> "new", answer |-> "none"]]
    BY <1>11 DEF Sandbox!Again
  <2> QED BY <1>5, <2>1 DEF SandboxInv, Sandbox!TypeOK, Checked, Sandbox!Asks, Sandbox!OpOf
<1> QED BY <1>8, <1>9, <1>10, <1>11

\* A new row of a customer or a wallet is younger than the reset, and its owner is there.
LEMMA CreateStep ==
  ASSUME Sandbox!ConstantsOK, SandboxInv, NEW r \in TestRequests,
         Sandbox!CreateCustomer(r) \/ Sandbox!CreateAccount(r)
  PROVE  SandboxInv'
<1>1. UNCHANGED <<tGone, tReset>> BY DEF Sandbox!CreateCustomer, Sandbox!CreateAccount
<1>2. PICK a \in {"ok", "error"} : Sandbox!Answers(r, a)
  BY DEF Sandbox!CreateCustomer, Sandbox!CreateAccount
<1>3. /\ tRequest' \in [TestRequests -> [op : TestOps, step : {"new", "read", "resetting", "done"},
                                         answer : {"none", "ok", "rejected", "error"}]]
      /\ Checked' \subseteq Checked
  BY <1>2, Answered DEF SandboxInv
<1>4. Sandbox!OpOf(r) \in Sandbox!OpType
  BY SandboxLibrary DEF Sandbox!OpOf, SandboxInv, Sandbox!TypeOK, Sandbox!ConstantsOK
<1>5. CASE UNCHANGED <<tRow, tRecent>>
  <2>1. Sandbox!TypeOK' BY <1>1, <1>3, <1>5 DEF SandboxInv, Sandbox!TypeOK
  <2>2. Events' = Events BY <1>5 DEF Events
  <2> QED BY <1>1, <1>3, <1>5, <2>1, <2>2, CapKept DEF SandboxInv, OwnerInv, SweptInv
<1>6. ASSUME NEW x \in Sandbox!Row, Sandbox!Inserted(x), x[1] \in {"customer", "account"},
             \A b \in TestWallets : x = <<"account", b>> =>
               <<"customer", TestOwner[b]>> \in tRow /\ <<"customer", TestOwner[b]>> \notin tGone,
             \A b \in TestWallets : x = <<"customer", TestOwner[b]>> => x \notin tGone
      PROVE  SandboxInv'
  <2>1. tRow' = tRow \cup {x} /\ tRecent' = tRecent \cup {x} BY <1>6 DEF Sandbox!Inserted
  <2>2. Sandbox!TypeOK' BY <1>1, <1>3, <2>1 DEF SandboxInv, Sandbox!TypeOK
  <2>3. Events' = Events BY <1>6, <2>1 DEF Events, Sandbox!Rows
  <2>4. OwnerInv' BY <1>1, <1>6, <2>1 DEF SandboxInv, OwnerInv
  <2>5. SweptInv' BY <1>1, <2>1 DEF SandboxInv, SweptInv
  <2> QED BY <1>3, <2>2, <2>3, <2>4, <2>5, CapKept DEF SandboxInv
<1>7. CASE Sandbox!CreateCustomer(r)
  <2>1. Sandbox!OpOf(r).on \in TestCustomers
    BY <1>4, <1>7 DEF Sandbox!CreateCustomer, Sandbox!Asks, Sandbox!OpType
  <2>2. PICK x : x = <<"customer", Sandbox!OpOf(r).on>> OBVIOUS
  <2>3. x \in Sandbox!Row BY <2>1, <2>2 DEF Sandbox!Row
  <2>4. x \notin tGone BY <1>7, <2>2 DEF Sandbox!CreateCustomer, Sandbox!Free
  <2>5. UNCHANGED <<tRow, tRecent>> \/ Sandbox!Inserted(x) BY <1>7, <2>2 DEF Sandbox!CreateCustomer
  <2>6. x[1] = "customer" /\ \A b \in TestWallets : x # <<"account", b>> BY <2>2
  <2> QED BY <1>5, <1>6, <2>3, <2>4, <2>5, <2>6
<1>8. CASE Sandbox!CreateAccount(r)
  <2>1. Sandbox!OpOf(r).on \in TestWallets
    BY <1>4, <1>8 DEF Sandbox!CreateAccount, Sandbox!Asks, Sandbox!OpType
  <2>2. PICK x : x = <<"account", Sandbox!OpOf(r).on>> OBVIOUS
  <2>3. x \in Sandbox!Row BY <2>1, <2>2 DEF Sandbox!Row
  <2>4. CASE UNCHANGED <<tRow, tRecent>> BY <1>5, <2>4
  <2>5. CASE Sandbox!Inserted(x) /\ <<"customer", TestOwner[Sandbox!OpOf(r).on]>> \in tRow
    <3>1. <<"customer", TestOwner[Sandbox!OpOf(r).on]>> \notin tGone
      BY <1>8 DEF Sandbox!CreateAccount, Sandbox!Free
    <3>2. x[1] = "account" /\ \A b \in TestWallets : x # <<"customer", TestOwner[b]>> BY <2>2
    <3>3. \A b \in TestWallets : x = <<"account", b>> => b = Sandbox!OpOf(r).on BY <2>2
    <3> QED BY <1>6, <2>3, <2>5, <3>1, <3>2, <3>3
  <2> QED BY <1>8, <2>2, <2>4, <2>5 DEF Sandbox!CreateAccount
<1> QED BY <1>7, <1>8

\* A funding is posted by a request that was past the check.
LEMMA SandboxPostStep ==
  ASSUME Sandbox!ConstantsOK, SandboxInv, NEW r \in TestRequests, Sandbox!PostFunding(r)
  PROVE  SandboxInv'
<1>1. UNCHANGED <<tGone, tReset, tRecent>> BY DEF Sandbox!PostFunding
<1>2. PICK a \in {"ok", "error"} : Sandbox!Answers(r, a) BY DEF Sandbox!PostFunding
<1>3. /\ tRequest' \in [TestRequests -> [op : TestOps, step : {"new", "read", "resetting", "done"},
                                         answer : {"none", "ok", "rejected", "error"}]]
      /\ Checked' = Checked \ {r}
  BY <1>2, Answered DEF SandboxInv
<1>4. CASE UNCHANGED tRow
  <2>1. Sandbox!TypeOK' BY <1>1, <1>3, <1>4 DEF SandboxInv, Sandbox!TypeOK
  <2>2. Events' = Events BY <1>4 DEF Events
  <2> QED BY <1>1, <1>3, <1>4, <2>1, <2>2, CapKept DEF SandboxInv, OwnerInv, SweptInv
<1>5. CASE ~UNCHANGED tRow
  <2>1. PICK b \in TestWallets : b = Sandbox!OpOf(r).on
    BY SandboxLibrary DEF Sandbox!PostFunding, Sandbox!Asks, Sandbox!OpOf, SandboxInv,
       Sandbox!TypeOK, Sandbox!ConstantsOK, Sandbox!OpType
  <2>2. PICK f \in TestFundings :
          tRow' = tRow \cup {Sandbox!TheTreasury, <<"wallet", b>>}
                       \cup ({"journal", "entries", "event"} \X {<<f, b>>})
    BY <1>5, <2>1 DEF Sandbox!PostFunding
  <2>3. \A x \in tRow' \ tRow :
          x = Sandbox!TheTreasury \/ x = <<"wallet", b>> \/ x = <<"journal", <<f, b>>>>
            \/ x = <<"entries", <<f, b>>>> \/ x = <<"event", <<f, b>>>>
    BY <2>2
  <2>4. tRow' \subseteq Sandbox!Row
    <3>1. <<f, b>> \in Sandbox!Trace BY DEF Sandbox!Trace
    <3> QED BY <2>3, <3>1 DEF Sandbox!Row, Sandbox!TheTreasury, SandboxInv, Sandbox!TypeOK
  <2>5. tRow \subseteq tRow' /\ \A x \in tRow' \ tRow : x[1] # "customer" /\ x[1] # "account"
    BY <2>2, <2>3 DEF Sandbox!TheTreasury
  <2>6. Sandbox!TypeOK' BY <1>1, <1>3, <2>4 DEF SandboxInv, Sandbox!TypeOK
  <2>7. OwnerInv'
    <3>1. \A c \in TestWallets : <<"account", c>> \in tRow' => <<"account", c>> \in tRow BY <2>5
    <3> QED BY <1>1, <2>5, <3>1 DEF SandboxInv, OwnerInv
  <2>8. SweptInv' BY <1>1, <2>5 DEF SandboxInv, SweptInv, Sandbox!Rows
  <2>9. CapInv'
    <3>1. Events' \subseteq Events \cup {<<"event", <<f, b>>>>}
      BY <2>3 DEF Events, Sandbox!Rows, Sandbox!TheTreasury
    <3>2. r \in Checked BY DEF Checked, Sandbox!PostFunding
    <3>3. Cardinality(Checked') = Cardinality(Checked) - 1
      BY <1>3, <3>2, Counts, FS_RemoveElement DEF SandboxInv
    <3>4. /\ IsFiniteSet(Events \cup {<<"event", <<f, b>>>>})
          /\ Cardinality(Events \cup {<<"event", <<f, b>>>>}) <= Cardinality(Events) + 1
      <4>1. IsFiniteSet(Events) /\ Cardinality(Events) \in Nat BY Counts DEF SandboxInv, CapInv
      <4>2. PICK e : e = <<"event", <<f, b>>>> OBVIOUS
      <4>3. /\ IsFiniteSet(Events \cup {e})
            /\ Cardinality(Events \cup {e}) = IF e \in Events THEN Cardinality(Events)
                                              ELSE Cardinality(Events) + 1
        BY <4>1, FS_AddElement
      <4> QED BY <4>1, <4>2, <4>3
    <3>5. /\ IsFiniteSet(Events') /\ Cardinality(Events') <= Cardinality(Events) + 1
          /\ Cardinality(Events') \in Nat
      <4>1. Cardinality(Events \cup {<<"event", <<f, b>>>>}) \in Nat
        BY <3>4, FS_CardinalityType
      <4>2. /\ IsFiniteSet(Events') /\ Cardinality(Events') \in Nat
            /\ Cardinality(Events') <= Cardinality(Events \cup {<<"event", <<f, b>>>>})
        BY <3>1, <3>4, FS_Subset, FS_CardinalityType
      <4> QED BY <3>4, <4>1, <4>2, Counts DEF SandboxInv
    <3>6. TestCap \in Nat BY SandboxLibrary DEF Sandbox!ConstantsOK
    <3> QED BY <3>3, <3>5, <3>6, Counts DEF SandboxInv, CapInv
  <2> QED BY <2>6, <2>7, <2>8, <2>9 DEF SandboxInv
<1> QED BY <1>4, <1>5

\* The last statement takes the customers there are, and with them their accounts.
LEMMA DeleteStep ==
  ASSUME Sandbox!ConstantsOK, SandboxInv, NEW s \in Sandbox!Statement, Sandbox!Delete(s)
  PROVE  SandboxInv'
<1> DEFINE kinds == IF s = "ledger" THEN {"wallet", "treasury"} ELSE {Sandbox!Kind(s)}
<1>1. /\ tReset = s /\ s \notin {"none", "commit"}
      /\ tGone' = tGone \cup (Sandbox!Cascade(tRow \cap Sandbox!Rows(kinds)) \cap tRow)
      /\ tReset' = Sandbox!After(s) /\ UNCHANGED <<tRow, tRequest>>
      /\ tRecent' = IF tReset' = "commit" THEN {} ELSE tRecent
  BY DEF Sandbox!Delete
<1>2. Sandbox!TypeOK'
  <2>1. Sandbox!After(s) \in Sandbox!Statement BY DEF Sandbox!After, Sandbox!Statement
  <2>2. tGone' \subseteq Sandbox!Row /\ tRecent' \subseteq Sandbox!Row
    BY <1>1 DEF SandboxInv, Sandbox!TypeOK
  <2> QED BY <1>1, <2>1, <2>2 DEF SandboxInv, Sandbox!TypeOK
<1>3. CapInv' BY <1>1 DEF SandboxInv, CapInv, Events, Checked, Sandbox!Asks, Sandbox!OpOf
<1>4. OwnerInv'
  <2> SUFFICES ASSUME NEW a \in TestWallets, <<"account", a>> \in tRow,
                      <<"customer", TestOwner[a]>> \in tGone'
               PROVE  <<"account", a>> \in tGone'
    BY <1>1 DEF SandboxInv, OwnerInv
  <2>1. CASE <<"customer", TestOwner[a]>> \in tGone BY <1>1, <2>1 DEF SandboxInv, OwnerInv
  <2>2. CASE <<"customer", TestOwner[a]>> \in Sandbox!Cascade(tRow \cap Sandbox!Rows(kinds))
    <3>1. <<"customer", TestOwner[a]>> \in tRow \cap Sandbox!Rows(kinds) BY <2>2 DEF Sandbox!Cascade
    <3>2. <<"account", a>> \in Sandbox!Cascade(tRow \cap Sandbox!Rows(kinds))
      BY <3>1 DEF Sandbox!Cascade
    <3> QED BY <1>1, <3>2
  <2> QED BY <1>1, <2>1, <2>2
<1>5. SweptInv'
  <2> SUFFICES ASSUME tReset' = "commit", NEW x \in tRow,
                      x \in Sandbox!Rows({"customer", "account"})
               PROVE  x \in tGone'
    BY <1>1 DEF SweptInv
  <2>1. s = "customers" BY <1>1 DEF Sandbox!After, Sandbox!Statement
  <2>2. kinds = {"customer"} BY <2>1 DEF Sandbox!Kind
  <2>3. CASE x[1] = "customer"
    <3>1. x \in tRow \cap Sandbox!Rows(kinds) BY <2>2, <2>3 DEF Sandbox!Rows
    <3>2. x \in Sandbox!Cascade(tRow \cap Sandbox!Rows(kinds)) BY <3>1 DEF Sandbox!Cascade
    <3> QED BY <1>1, <3>2
  <2>4. CASE x[1] = "account"
    <3>1. PICK a \in TestWallets : x = <<"account", a>>
      BY <2>4 DEF Sandbox!Rows, Sandbox!Row, Sandbox!TheTreasury
    <3>2. <<"customer", TestOwner[a]>> \in tRow BY <3>1 DEF SandboxInv, OwnerInv
    <3>3. <<"customer", TestOwner[a]>> \in Sandbox!Rows(kinds)
      BY <2>2, <3>2 DEF Sandbox!Rows, SandboxInv, Sandbox!TypeOK
    <3>4. x \in Sandbox!Cascade(tRow \cap Sandbox!Rows(kinds))
      BY <3>1, <3>2, <3>3 DEF Sandbox!Cascade
    <3> QED BY <1>1, <3>4
  <2> QED BY <2>3, <2>4 DEF Sandbox!Rows
<1> QED BY <1>2, <1>3, <1>4, <1>5 DEF SandboxInv

LEMMA SandboxEndStep ==
  ASSUME Sandbox!ConstantsOK, SandboxInv, NEW r \in TestRequests,
         Sandbox!CommitReset(r) \/ Sandbox!AbortReset(r)
  PROVE  SandboxInv'
<1>1. PICK a \in {"ok", "error"} : Sandbox!Ends(r, a) BY DEF Sandbox!CommitReset, Sandbox!AbortReset
<1>2. tGone' = {} /\ tReset' = "none" /\ tRecent' = tRecent BY <1>1 DEF Sandbox!Ends
<1>3. /\ tRequest' \in [TestRequests -> [op : TestOps, step : {"new", "read", "resetting", "done"},
                                         answer : {"none", "ok", "rejected", "error"}]]
      /\ Checked' \subseteq Checked
  BY <1>1, Answered DEF SandboxInv, Sandbox!Ends
<1>4. tRow' = tRow \/ tRow' = tRow \ tGone BY DEF Sandbox!CommitReset, Sandbox!AbortReset
<1>5. Sandbox!TypeOK' BY <1>2, <1>3, <1>4 DEF SandboxInv, Sandbox!TypeOK, Sandbox!Statement
<1>6. CapInv' BY <1>3, <1>4, CapKept DEF SandboxInv, Events
<1>7. OwnerInv' BY <1>2, <1>4 DEF SandboxInv, OwnerInv
<1> QED BY <1>2, <1>5, <1>6, <1>7 DEF SandboxInv, SweptInv

LEMMA SandboxNext ==
  ASSUME Sandbox!ConstantsOK, SandboxInv, [Sandbox!Next]_Sandbox!vars
  PROVE  SandboxInv'
<1>1. CASE UNCHANGED Sandbox!vars
  BY <1>1 DEF Sandbox!vars, SandboxInv, Sandbox!TypeOK, CapInv, OwnerInv, SweptInv, Events,
     Checked, Sandbox!Asks, Sandbox!OpOf
<1>2. ASSUME NEW r \in TestRequests, Sandbox!Proceed(r) PROVE SandboxInv'
  BY <1>2, FindStep, CreateStep, SandboxPostStep, SandboxEndStep DEF Sandbox!Proceed
<1> QED BY <1>1, <1>2, DeleteStep DEF Sandbox!Next

\* Fundings that check the daily cap together exceed it by less than one each, however
\* many there are and whatever a reset deletes meanwhile.
THEOREM FundingsStayNearCap ==
  ASSUME Sandbox!ConstantsOK
  PROVE  Sandbox!Spec => []Sandbox!FundingNearCap
<1>1. Sandbox!Init => SandboxInv BY SandboxInit
<1>2. SandboxInv /\ [Sandbox!Next]_Sandbox!vars => SandboxInv' BY SandboxNext
<1>3. SandboxInv => Sandbox!FundingNearCap
  BY Counts, SandboxLibrary DEF SandboxInv, CapInv, Sandbox!FundingNearCap, Sandbox!Today, Events,
     Sandbox!ConstantsOK
<1> QED BY <1>1, <1>2, <1>3, PTL DEF Sandbox!Spec

\* A reset that commits leaves no customer and no wallet that its last statement could
\* see, whatever is created, funded or lost while it runs.
THEOREM ResetsLeaveNoWallet ==
  ASSUME Sandbox!ConstantsOK
  PROVE  Sandbox!Spec => Sandbox!NoWalletSurvives
<1>1. Sandbox!Init => SandboxInv BY SandboxInit
<1>2. SandboxInv /\ [Sandbox!Next]_Sandbox!vars => SandboxInv' BY SandboxNext
<1>3. SandboxInv /\ [Sandbox!Next]_Sandbox!vars => [Sandbox!NoneSurvive]_Sandbox!vars
  <2> SUFFICES ASSUME SandboxInv, Sandbox!Next, tReset = "commit", tReset' = "none", tRow' # tRow
               PROVE  tRow' \cap Sandbox!Rows({"customer", "account"}) \subseteq tRecent
    BY DEF Sandbox!NoneSurvive
  <2>1. \A s \in Sandbox!Statement : ~Sandbox!Delete(s) BY DEF Sandbox!Delete
  <2>2. PICK r \in TestRequests : Sandbox!Proceed(r) BY <2>1 DEF Sandbox!Next
  <2>3. tRow' = tRow \ tGone
    BY <2>2 DEF Sandbox!Proceed, Sandbox!FindCustomer, Sandbox!CreateCustomer,
       Sandbox!UpdateCustomer, Sandbox!FindOwner, Sandbox!CreateAccount,
       Sandbox!CheckFunding, Sandbox!PostFunding, Sandbox!StartReset, Sandbox!CommitReset,
         Sandbox!AbortReset, Sandbox!Again
  <2> QED BY <2>3 DEF SandboxInv, SweptInv
<1> QED BY <1>1, <1>2, <1>3, PTL DEF Sandbox!Spec, Sandbox!NoWalletSurvives

\* The test project's rows, the reset and the requests keep their types.
THEOREM SandboxIsTyped ==
  ASSUME Sandbox!ConstantsOK
  PROVE  Sandbox!Spec => []Sandbox!TypeOK
<1>1. Sandbox!Init => SandboxInv BY SandboxInit
<1>2. SandboxInv /\ [Sandbox!Next]_Sandbox!vars => SandboxInv' BY SandboxNext
<1>3. SandboxInv => Sandbox!TypeOK BY DEF SandboxInv
<1> QED BY <1>1, <1>2, <1>3, PTL DEF Sandbox!Spec

-----------------------------------------------------------------------------
(* Lists and reports.                                                      *)

\* The library is the same in every part.
LEMMA ListsLibrary ==
  (\A S, n : Lists!BoundedSeq(S, n) = BoundedSeq(S, n))
    /\ (\A S : Lists!Cardinality(S) = Cardinality(S)) /\ (\A S : Lists!ToSet(S) = ToSet(S))
BY DEF Lists!BoundedSeq, BoundedSeq, Lists!Cardinality, Cardinality, Lists!ToSet, ToSet,
   Lists!SeqOf, SeqOf


\* Finite sets of numbers can be listed from the greatest to the smallest.
LEMMA SortedExists ==
  ASSUME NEW S \in SUBSET Nat, IsFiniteSet(S)
  PROVE  \E s \in [1 .. Cardinality(S) -> S] : \A i, j \in DOMAIN s : i < j => s[i] > s[j]
<1> DEFINE up(x) == {y \in S : y >= x}
           rank == [x \in S |-> Cardinality(up(x))]
<1>0. \A x \in S : x \in Nat OBVIOUS
<1>n. PICK n \in Nat : n = Cardinality(S) BY FS_CardinalityType
<1>1. IsFiniteSet(1 .. n) /\ Cardinality(1 .. n) = n
  <2>1. IsFiniteSet(1 .. n) /\ Cardinality(1 .. n) = IF 1 > n THEN 0 ELSE n - 1 + 1
    BY FS_Interval
  <2> QED BY <2>1
<1>2. \A x \in S : IsFiniteSet(up(x)) /\ Cardinality(up(x)) \in 1 .. n
  <2> SUFFICES ASSUME NEW x \in S PROVE IsFiniteSet(up(x)) /\ Cardinality(up(x)) \in 1 .. n
    OBVIOUS
  <2>1. up(x) \in SUBSET S /\ up(x) # {} OBVIOUS
  <2>2. IsFiniteSet(up(x)) /\ Cardinality(up(x)) <= n BY <1>n, <2>1, FS_Subset
  <2>3. Cardinality(up(x)) \in Nat /\ Cardinality(up(x)) # 0
    BY <2>1, <2>2, FS_CardinalityType, FS_EmptySet
  <2> QED BY <2>2, <2>3
<1>3. \A x, y \in S : x < y => rank[x] > rank[y]
  <2> SUFFICES ASSUME NEW x \in S, NEW y \in S, x < y PROVE Cardinality(up(x)) > Cardinality(up(y))
    OBVIOUS
  <2>1. up(y) \in SUBSET up(x) /\ up(x) # up(y)
    <3>1. x \in up(x) /\ x \notin up(y) BY <1>0
    <3>2. \A z \in up(y) : z \in up(x) BY <1>0
    <3> QED BY <3>1, <3>2
  <2>2. Cardinality(up(y)) <= Cardinality(up(x)) /\ Cardinality(up(y)) # Cardinality(up(x))
    BY <1>2, <2>1, FS_Subset
  <2>3. Cardinality(up(y)) \in Nat /\ Cardinality(up(x)) \in Nat BY <1>2
  <2> QED BY <2>2, <2>3
<1>4. rank \in [S -> 1 .. n] BY <1>2
<1> HIDE DEF rank, up
<1>5. rank \in Injection(S, 1 .. n)
  <2> SUFFICES ASSUME NEW x \in S, NEW y \in S, rank[x] = rank[y] PROVE x = y
    BY <1>4 DEF Injection, IsInjective
  <2>1. rank[x] \in Nat /\ rank[y] \in Nat BY <1>4
  <2> QED BY <1>0, <1>3, <2>1
<1>6. rank \in Surjection(S, 1 .. n) BY <1>n, <1>1, <1>5, FS_Injection
<1> DEFINE s == [k \in 1 .. n |-> CHOOSE x \in S : rank[x] = k]
<1>7. \A k \in 1 .. n : s[k] \in S /\ rank[s[k]] = k BY <1>6 DEF Surjection
<1>8. \A i, j \in 1 .. n : i < j => s[i] > s[j]
  <2> SUFFICES ASSUME NEW i \in 1 .. n, NEW j \in 1 .. n, i < j, ~(s[i] > s[j]) PROVE FALSE
    OBVIOUS
  <2>1. s[i] \in S /\ s[j] \in S /\ rank[s[i]] = i /\ rank[s[j]] = j BY <1>7
  <2> HIDE DEF s
  <2>2. PICK x \in S, y \in S : x = s[i] /\ y = s[j] /\ rank[x] = i /\ rank[y] = j BY <2>1
  <2>3. x = y \/ x < y BY <1>0, <2>2
  <2>4. i # j /\ ~(i > j) OBVIOUS
  <2> QED BY <1>3, <2>2, <2>3, <2>4
<1>9. s \in [1 .. n -> S] BY <1>7
<1> HIDE DEF s
<1> QED BY <1>n, <1>8, <1>9

LEMMA Sorted ==
  ASSUME NEW S \in SUBSET Nat, IsFiniteSet(S)
  PROVE  /\ Lists!NewestFirst(S) \in Seq(S) /\ Len(Lists!NewestFirst(S)) \in Nat
         /\ \A i, j \in 1 .. Len(Lists!NewestFirst(S)) : i < j
              => Lists!NewestFirst(S)[i] > Lists!NewestFirst(S)[j]
         /\ \A x \in S : \E i \in 1 .. Len(Lists!NewestFirst(S)) : x = Lists!NewestFirst(S)[i]
<1>1. PICK s : s = Lists!NewestFirst(S) OBVIOUS
<1>2. PICK n \in Nat : n = Cardinality(S) BY FS_CardinalityType
<1>3. s \in [1 .. n -> S] /\ \A i, j \in DOMAIN s : i < j => s[i] > s[j]
  BY <1>1, <1>2, SortedExists, ListsLibrary DEF Lists!NewestFirst
<1>4. s \in Seq(S) /\ Len(s) = n BY <1>2, <1>3
<1>5. s \in Injection(1 .. n, S)
  <2> SUFFICES ASSUME NEW i \in 1 .. n, NEW j \in 1 .. n, s[i] = s[j] PROVE i = j
    BY <1>3 DEF Injection, IsInjective
  <2>1. s[i] \in Nat /\ s[j] \in Nat BY <1>3
  <2>2. i < j \/ j < i \/ i = j OBVIOUS
  <2> QED BY <1>3, <2>1, <2>2
<1>6. Cardinality(1 .. n) = n
  <2>1. Cardinality(1 .. n) = IF 1 > n THEN 0 ELSE n - 1 + 1 BY FS_Interval
  <2> QED BY <2>1
<1>7. s \in Surjection(1 .. n, S) BY <1>2, <1>5, <1>6, FS_Injection
<1> QED BY <1>1, <1>3, <1>4, <1>7 DEF Surjection

-----------------------------------------------------------------------------
\* A statement whose count never falls: of all rows, or of those that are settled.
CountOK(q) ==
  q \in [table : Lists!Table, kinds : SUBSET Lists!RowKind]
    /\ q.kinds \in {Lists!RowKind, {"good"}, {"bad"}}

RoundsOK(rounds) ==
  /\ DOMAIN rounds = 1 .. Len(rounds) /\ Len(rounds) \in Nat
  /\ rounds # << >> => Len(rounds) >= 1
  /\ \A k \in 1 .. Len(rounds) : \A q \in rounds[k] : CountOK(q)

RowsOK == lRows \in [Lists!Table -> Seq(Lists!RowKind)]
  /\ \A t \in Lists!Table : Len(lRows[t]) <= RowBound

WaitOK(w) == CountOK(w.of) /\ w.was \in 0 .. RowBound /\ w.was <= Lists!Now(w.of)
FigureOK(f) ==
  /\ CountOK(f.of) /\ f.was \in 0 .. RowBound /\ f.is \in 0 .. RowBound
  /\ f.was <= f.is /\ f.is <= Lists!Now(f.of)

\* A walk has seen what it began with, but for what is beyond its cursor.
WalkOK ==
  /\ lReader.name \in ListWalks /\ lReader.limit \in PageSizes
  /\ lReader.due \subseteq Lists!Numbers(Lists!Lists[lReader.name].table, lReader.kinds)
  /\ \A i \in lReader.due \ lReader.seen :
       lReader.cursor = 0 \/ i < lReader.cursor
         \/ (i = lReader.cursor /\ ~Lists!Lists[lReader.name].skips)

ReaderOK ==
  /\ lReader = [step |-> lReader.step, name |-> lReader.name, kinds |-> lReader.kinds,
                limit |-> lReader.limit, cursor |-> lReader.cursor, seen |-> lReader.seen,
                due |-> lReader.due, round |-> lReader.round, waits |-> lReader.waits,
                figures |-> lReader.figures, added |-> lReader.added]
  /\ lReader.step \in {"idle", "page", "count", "done"}
  /\ lReader.cursor \in 0 .. RowBound /\ lReader.seen \subseteq 1 .. RowBound
  /\ lReader.step = "page" => WalkOK
  /\ lReader.step = "count" =>
       /\ lReader.name \in ListReports /\ lReader.due = {}
       /\ lReader.round \in 1 .. Len(Lists!Reports[lReader.name].rounds)
  /\ \A w \in lReader.waits : WaitOK(w)
  /\ \A f \in lReader.figures : FigureOK(f)
  /\ Lists!PagesCoverTheList

ListsInv == RowsOK /\ ReaderOK

LEMMA AllsOK == ASSUME NEW T \in SUBSET Lists!Table PROVE \A q \in Lists!Alls(T) : CountOK(q)
BY DEF Lists!Alls, Lists!All, CountOK

LEMMA OnlyOK ==
  CountOK(Lists!Only("transfer", "good")) /\ CountOK(Lists!Only("transfer", "bad"))
    /\ CountOK(Lists!Only("log", "bad"))
BY DEF Lists!Only, CountOK, Lists!Table, Lists!RowKind

LEMMA ReportsOK ==
  ASSUME NEW name \in DOMAIN Lists!Reports
  PROVE  RoundsOK(Lists!Reports[name].rounds)
<1>1. ASSUME NEW f, NEW A \in SUBSET Lists!Table, NEW B, \A q \in B : CountOK(q)
      PROVE  RoundsOK(Lists!Report(f, <<Lists!Alls(A) \cup B>>).rounds)
  <2> DEFINE r == <<Lists!Alls(A) \cup B>>
  <2>1. Len(r) = 1 /\ DOMAIN r = 1 .. 1 /\ r[1] = Lists!Alls(A) \cup B OBVIOUS
  <2>2. RoundsOK(r) BY <1>1, <2>1, AllsOK DEF RoundsOK
  <2> QED BY <2>2 DEF Lists!Report
<1>2. ASSUME NEW f, NEW A \in SUBSET Lists!Table
      PROVE RoundsOK(Lists!Report(f, <<Lists!Alls(A)>>).rounds)
  <2> DEFINE r == <<Lists!Alls(A)>>
  <2>1. Len(r) = 1 /\ DOMAIN r = 1 .. 1 /\ r[1] = Lists!Alls(A) OBVIOUS
  <2>2. RoundsOK(r) BY <2>1, AllsOK DEF RoundsOK
  <2> QED BY <2>2 DEF Lists!Report
<1>3. ASSUME NEW f PROVE RoundsOK(Lists!Report(f, << >>).rounds) BY DEF Lists!Report, RoundsOK
<1>4. RoundsOK(Lists!Overview.rounds)
  BY <1>1, OnlyOK DEF Lists!Overview, Lists!Table
<1>5. RoundsOK(Lists!AdminStats.rounds)
  <2> DEFINE A == {"user", "project", "customer", "account", "transfer", "journal", "log"}
             B == {"user", "project", "customer", "account", "transfer", "log"}
             C == {Lists!Only("log", "bad"), Lists!Only("transfer", "good")}
             r == <<Lists!Alls(A) \cup C, Lists!Alls(B)>>
  <2>1. Len(r) = 2 /\ DOMAIN r = 1 .. 2 /\ r[1] = Lists!Alls(A) \cup C
          /\ r[2] = Lists!Alls(B) OBVIOUS
  <2>2. (\A q \in r[1] : CountOK(q)) /\ (\A q \in r[2] : CountOK(q))
    <3>1. A \in SUBSET Lists!Table /\ B \in SUBSET Lists!Table BY DEF Lists!Table
    <3> HIDE DEF A, B
    <3> QED BY <2>1, <3>1, AllsOK, OnlyOK
  <2>3. Lists!AdminStats.rounds = r BY DEF Lists!AdminStats, Lists!Report
  <2> HIDE DEF A, B, C, r
  <2>4. \A k \in 1 .. 2 : k = 1 \/ k = 2 OBVIOUS
  <2>5. RoundsOK(r) BY <2>1, <2>2, <2>4 DEF RoundsOK
  <2> QED BY <2>3, <2>5
<1>6. RoundsOK(Lists!AdminSandbox.rounds)
  BY <1>2 DEF Lists!AdminSandbox, Lists!Table
<1>7. RoundsOK(Lists!UserDetail.rounds)
  BY <1>2 DEF Lists!UserDetail, Lists!Table
<1>8. RoundsOK(Lists!ProjectDetail.rounds)
  BY <1>2 DEF Lists!ProjectDetail, Lists!Table
<1>9. RoundsOK(Lists!CustomerDetail.rounds)
  BY <1>3 DEF Lists!CustomerDetail
<1>10. RoundsOK(Lists!AccountDetail.rounds)
  BY <1>2 DEF Lists!AccountDetail, Lists!Table
<1>11. RoundsOK(Lists!TransferDetail.rounds)
  BY <1>2 DEF Lists!TransferDetail, Lists!Table
<1>12. RoundsOK(Lists!JournalDetail.rounds)
  BY <1>3 DEF Lists!JournalDetail
<1>13. RoundsOK(Lists!LogDetail.rounds)
  BY <1>3 DEF Lists!LogDetail
<1>14. RoundsOK(Lists!EndpointList.rounds)
  BY <1>2 DEF Lists!EndpointList, Lists!Table
<1>15. RoundsOK(Lists!DeliveryList.rounds)
  BY <1>2 DEF Lists!DeliveryList, Lists!Table
<1>16. RoundsOK(Lists!AdminUsers.rounds)
  BY <1>2 DEF Lists!AdminUsers, Lists!Table
<1>17. RoundsOK(Lists!AdminProjects.rounds)
  BY <1>2 DEF Lists!AdminProjects, Lists!Table
<1>18. RoundsOK(Lists!AdminCustomers.rounds)
  BY <1>2 DEF Lists!AdminCustomers, Lists!Table
<1>19. RoundsOK(Lists!AdminAccounts.rounds)
  BY <1>2 DEF Lists!AdminAccounts, Lists!Table
<1>20. RoundsOK(Lists!AdminTransfers.rounds)
  BY <1>1, OnlyOK DEF Lists!AdminTransfers, Lists!Table
<1>21. RoundsOK(Lists!AdminTransactions.rounds)
  BY <1>2 DEF Lists!AdminTransactions, Lists!Table
<1>22. RoundsOK(Lists!AdminActivity.rounds)
  BY <1>1, OnlyOK DEF Lists!AdminActivity, Lists!Table
<1> QED
  BY <1>4, <1>5, <1>6, <1>7, <1>8, <1>9, <1>10, <1>11, <1>12, <1>13, <1>14, <1>15, <1>16, <1>17,
     <1>18, <1>19, <1>20, <1>21, <1>22
  DEF Lists!Reports

LEMMA ConcernedTables == ASSUME NEW t \in Lists!Concerned PROVE t \in Lists!Table
<1>1. CASE lReader.name \in DOMAIN Lists!Lists
  BY <1>1, ListsLibrary DEF Lists!Concerned, Lists!Lists, Lists!LogsList, Lists!ExplorerList,
     Lists!EntriesList, Lists!TransfersList, Lists!AccountsList,
              Lists!CustomersList, Lists!Listing, Lists!Table
<1>2. CASE lReader.name \notin DOMAIN Lists!Lists /\ lReader.name \in DOMAIN Lists!Reports
  <2>1. PICK rounds : rounds = Lists!Reports[lReader.name].rounds OBVIOUS
  <2>2. PICK q \in UNION ToSet(rounds) : t = q.table BY <1>2, <2>1, ListsLibrary DEF Lists!Concerned
  <2>3. PICK k \in DOMAIN rounds : q \in rounds[k] BY <2>2 DEF ToSet
  <2>4. RoundsOK(rounds) BY <1>2, <2>1, ReportsOK
  <2> QED BY <2>2, <2>3, <2>4 DEF RoundsOK, CountOK
<1> QED BY <1>1, <1>2, ListsLibrary DEF Lists!Concerned

ListsMatches(table, kinds) == {i \in DOMAIN table : table[i] \in kinds}

LEMMA ListsCounts ==
  ASSUME Lists!ConstantsOK, NEW table \in Seq(Lists!RowKind), Len(table) <= RowBound, NEW kinds
  PROVE  /\ ListsMatches(table, kinds) \subseteq 1 .. RowBound
         /\ IsFiniteSet(ListsMatches(table, kinds))
         /\ Cardinality(ListsMatches(table, kinds)) \in 0 .. RowBound
<1>1. RowBound \in Nat BY DEF Lists!ConstantsOK
<1>2. ListsMatches(table, kinds) \in SUBSET (1 .. RowBound)
  <2>1. DOMAIN table = 1 .. Len(table) /\ Len(table) \in Nat OBVIOUS
  <2> QED BY <1>1, <2>1 DEF ListsMatches
<1>3. IsFiniteSet(1 .. RowBound) /\ Cardinality(1 .. RowBound) = RowBound
  <2>1. /\ IsFiniteSet(1 .. RowBound)
        /\ Cardinality(1 .. RowBound) = IF 1 > RowBound THEN 0 ELSE RowBound - 1 + 1
    BY <1>1, FS_Interval
  <2> QED BY <1>1, <2>1
<1>4. /\ IsFiniteSet(ListsMatches(table, kinds))
           /\ Cardinality(ListsMatches(table, kinds)) <= RowBound
      /\ Cardinality(ListsMatches(table, kinds)) \in Nat
  BY <1>2, <1>3, FS_Subset, FS_CardinalityType
<1> QED BY <1>1, <1>2, <1>4

LEMMA NowOK ==
  ASSUME Lists!ConstantsOK, RowsOK, NEW q, CountOK(q)
  PROVE  Lists!Now(q) \in 0 .. RowBound
<1>1. q.table \in Lists!Table BY DEF CountOK
<1>2. Cardinality(ListsMatches(lRows[q.table], q.kinds)) \in 0 .. RowBound
  BY <1>1, ListsCounts DEF RowsOK
<1> QED BY <1>2, ListsLibrary DEF Lists!Now, Lists!Numbers, ListsMatches

\* While rows are added and settled, no count of a report falls.
LEMMA CountsGrow ==
  ASSUME Lists!ConstantsOK, RowsOK, RowsOK',
         \A q : CountOK(q)
           => ListsMatches(lRows[q.table], q.kinds) \subseteq ListsMatches(lRows'[q.table], q.kinds)
  PROVE  /\ \A w : WaitOK(w) => WaitOK(w)'
         /\ \A f : FigureOK(f) => FigureOK(f)'
<1>1. ASSUME NEW q, CountOK(q)
      PROVE  Lists!Now(q) \in Nat /\ Lists!Now(q)' \in Nat /\ Lists!Now(q) <= Lists!Now(q)'
  <2>1. q.table \in Lists!Table BY <1>1 DEF CountOK
  <2>2. PICK S : S = ListsMatches(lRows[q.table], q.kinds) OBVIOUS
  <2>3. PICK U : U = ListsMatches(lRows'[q.table], q.kinds) OBVIOUS
  <2>4. /\ IsFiniteSet(S) /\ Cardinality(S) \in 0 .. RowBound
        /\ IsFiniteSet(U) /\ Cardinality(U) \in 0 .. RowBound
    BY <2>1, <2>2, <2>3, ListsCounts DEF RowsOK
  <2>5. S \in SUBSET U BY <1>1, <2>2, <2>3
  <2>6. Cardinality(S) <= Cardinality(U) BY <2>4, <2>5, FS_Subset
  <2>7. Lists!Now(q) = Cardinality(S) /\ Lists!Now(q)' = Cardinality(U)
    BY <2>2, <2>3, ListsLibrary DEF Lists!Now, Lists!Numbers, ListsMatches
  <2>8. RowBound \in Nat BY DEF Lists!ConstantsOK
  <2> QED BY <2>4, <2>6, <2>7, <2>8
<1>2. RowBound \in Nat BY DEF Lists!ConstantsOK
<1>3. ASSUME NEW w, WaitOK(w) PROVE WaitOK(w)'
  <2>1. CountOK(w.of) /\ w.was \in 0 .. RowBound /\ w.was <= Lists!Now(w.of) BY <1>3 DEF WaitOK
  <2> QED BY <1>1, <1>2, <2>1 DEF WaitOK, CountOK
<1>4. ASSUME NEW f, FigureOK(f) PROVE FigureOK(f)'
  <2>1. /\ CountOK(f.of) /\ f.was \in 0 .. RowBound /\ f.is \in 0 .. RowBound
        /\ f.was <= f.is /\ f.is <= Lists!Now(f.of)
    BY <1>4 DEF FigureOK
  <2> QED BY <1>1, <1>2, <2>1 DEF FigureOK, CountOK
<1> QED BY <1>3, <1>4

\* What a step that leaves the rows alone keeps.
LEMMA RowsStay ==
  ASSUME Lists!ConstantsOK, RowsOK, UNCHANGED lRows
  PROVE  /\ RowsOK' /\ (\A w : WaitOK(w) => WaitOK(w)') /\ (\A f : FigureOK(f) => FigureOK(f)')
<1>1. RowsOK' BY DEF RowsOK
<1> QED BY <1>1, CountsGrow

-----------------------------------------------------------------------------
LEMMA ListsInit == Lists!ConstantsOK /\ Lists!Init => ListsInv
<1> SUFFICES ASSUME Lists!ConstantsOK, Lists!Init PROVE ListsInv
  OBVIOUS
<1>1. lReader = Lists!Idle BY DEF Lists!Init
<1>2. /\ << >> \in Seq(Lists!RowKind) /\ <<"open">> \in Seq(Lists!RowKind)
      /\ <<"open", "bad", "open">> \in Seq(Lists!RowKind)
      /\ Len(<< >>) <= 3 /\ Len(<<"open">>) <= 3 /\ Len(<<"open", "bad", "open">>) <= 3
  BY DEF Lists!RowKind
<1>3. RowsOK
  <2>1. CASE lRows = [t \in Lists!Table |-> IF t = "entry"
          \/ t = "account" THEN << >> ELSE <<"open">>]
    BY <1>2, <2>1 DEF RowsOK, Lists!ConstantsOK
  <2>2. CASE lRows = [t \in Lists!Table |-> <<"open", "bad", "open">>]
    BY <1>2, <2>2 DEF RowsOK, Lists!ConstantsOK
  <2> QED BY <2>1, <2>2 DEF Lists!Init
<1>4. ReaderOK BY <1>1 DEF Lists!Idle, ReaderOK, Lists!PagesCoverTheList, Lists!ConstantsOK
<1> QED BY <1>3, <1>4 DEF ListsInv

LEMMA StartWalkStep == Lists!ConstantsOK /\ ListsInv /\ Lists!StartWalk => ListsInv'
<1> SUFFICES ASSUME Lists!ConstantsOK, ListsInv, Lists!StartWalk PROVE ListsInv'
  OBVIOUS
<1>1. RowsOK' BY RowsStay DEF ListsInv, Lists!StartWalk
<1>2. PICK l \in ListWalks, limit \in PageSizes, kinds \in {Lists!RowKind, {"open"}} :
        lReader' = [step |-> "page", name |-> l, kinds |-> kinds, limit |-> limit, cursor |-> 0,
                    seen |-> {}, due |-> Lists!Numbers(Lists!Lists[l].table, kinds), round |-> 0,
                    waits |-> {}, figures |-> {}, added |-> 0]
  <2>1. PICK l \in ListWalks, limit \in PageSizes, kinds \in {Lists!RowKind, {"open"}} :
          lReader' = [Lists!Idle EXCEPT !.step = "page", !.name = l, !.kinds = kinds,
                      !.limit = limit,
                                        !.due = Lists!Numbers(Lists!Lists[l].table, kinds)]
    BY DEF Lists!StartWalk
  <2>2. lReader' = [step |-> "page", name |-> l, kinds |-> kinds, limit |-> limit, cursor |-> 0,
                    seen |-> {}, due |-> Lists!Numbers(Lists!Lists[l].table, kinds), round |-> 0,
                    waits |-> {}, figures |-> {}, added |-> 0]
    BY <2>1 DEF Lists!Idle
  <2> QED BY <2>2
<1>3. Lists!Numbers(Lists!Lists[l].table, kinds)' = Lists!Numbers(Lists!Lists[l].table, kinds)
  BY DEF Lists!StartWalk, Lists!Numbers
<1>4. WalkOK' BY <1>2, <1>3 DEF WalkOK
<1> QED BY <1>1, <1>2, <1>4 DEF ListsInv, ReaderOK, Lists!PagesCoverTheList, Lists!ConstantsOK

LEMMA SentOK ==
  ASSUME Lists!ConstantsOK, RowsOK, UNCHANGED lRows, NEW name \in ListReports,
         NEW k \in 1 .. Len(Lists!Reports[name].rounds)
  PROVE  \A w \in Lists!Sent(Lists!Reports[name].rounds[k]) : WaitOK(w)'
<1> SUFFICES ASSUME NEW w, w \in Lists!Sent(Lists!Reports[name].rounds[k]) PROVE WaitOK(w)'
  OBVIOUS
<1>0. PICK q \in Lists!Reports[name].rounds[k] : w = [of |-> q, was |-> Lists!Now(q)]
  BY DEF Lists!Sent
<1>1. CountOK(q) BY ReportsOK DEF RoundsOK, Lists!ConstantsOK
<1>2. Lists!Now(q) \in 0 .. RowBound /\ Lists!Now(q)' = Lists!Now(q)
  BY <1>1, NowOK, ListsLibrary DEF Lists!Now, Lists!Numbers
<1> QED BY <1>0, <1>1, <1>2 DEF WaitOK, CountOK, Lists!ConstantsOK

LEMMA StartReportStep == Lists!ConstantsOK /\ ListsInv /\ Lists!StartReport => ListsInv'
<1> SUFFICES ASSUME Lists!ConstantsOK, ListsInv, Lists!StartReport PROVE ListsInv'
  OBVIOUS
<1>1. UNCHANGED lRows BY DEF Lists!StartReport
<1>2. RowsOK' BY <1>1, RowsStay DEF ListsInv
<1>3. PICK name \in ListReports :
        \/ lReader' = [step |-> "done", name |-> name, kinds |-> {}, limit |-> 0, cursor |-> 0,
                       seen |-> {}, due |-> {}, round |-> 0, waits |-> {}, figures |-> {},
                       added |-> 0]
        \/ /\ Lists!Reports[name].rounds # << >>
           /\ lReader' = [step |-> "count", name |-> name, kinds |-> {}, limit |-> 0, cursor |-> 0,
                          seen |-> {}, due |-> {}, round |-> 1,
                          waits |-> Lists!Sent(Lists!Reports[name].rounds[1]), figures |-> {},
                            added |-> 0]
  BY DEF Lists!StartReport, Lists!Sends, Lists!Idle
<1>4. RoundsOK(Lists!Reports[name].rounds) BY ReportsOK DEF Lists!ConstantsOK
<1>5. CASE lReader'.step = "done"
  BY <1>2, <1>3, <1>5 DEF ListsInv, ReaderOK, Lists!PagesCoverTheList, Lists!ConstantsOK
<1>6. CASE lReader'.step # "done"
  <2>1. 1 \in 1 .. Len(Lists!Reports[name].rounds) BY <1>3, <1>4, <1>6 DEF RoundsOK
  <2>2. \A w \in Lists!Sent(Lists!Reports[name].rounds[1]) : WaitOK(w)'
    BY <1>1, <2>1, SentOK DEF ListsInv
  <2> QED BY <1>2, <1>3, <1>6, <2>1, <2>2 DEF ListsInv, ReaderOK, Lists!PagesCoverTheList,
         Lists!ConstantsOK
<1> QED BY <1>5, <1>6

LEMMA FirstOK ==
  ASSUME NEW S, NEW s \in Seq(S), NEW n \in Nat
  PROVE  /\ Lists!First(s, n) \in Seq(S)
              /\ Len(Lists!First(s, n)) = (IF Len(s) < n THEN Len(s) ELSE n)
         /\ \A i \in 1 .. Len(Lists!First(s, n)) : Lists!First(s, n)[i] = s[i]
<1>1. PICK m : m = IF Len(s) < n THEN Len(s) ELSE n OBVIOUS
<1>2. m \in 0 .. Len(s) BY <1>1
<1>3. Lists!First(s, n) = SubSeq(s, 1, m) BY <1>1 DEF Lists!First
<1>4. SubSeq(s, 1, m) \in Seq(S) /\ Len(SubSeq(s, 1, m)) = m
      /\ \A i \in 1 .. m : SubSeq(s, 1, m)[i] = s[i]
  BY <1>2
<1> QED BY <1>1, <1>3, <1>4

Falls(s) == \A i, j \in 1 .. Len(s) : i < j => s[i] > s[j]

\* What a page read from a list is: its rows are of the list; what is in the list but not
\* on the page is less than the page's last row, and where no more rows were read than the
\* page holds, all of the list is on the page.
PageOf(S, s, limit, more, page) ==
  /\ ToSet(page) \subseteq S
  /\ more => /\ page[limit] \in S
             /\ \A k \in 1 .. Len(s) : s[k] \notin ToSet(page) => s[k] < page[limit]
  /\ ~more => \A k \in 1 .. Len(s) : s[k] \in ToSet(page)

\* The page read from a list that falls: its rows are the first of the list; what is beyond
\* its last row is less than it, and where no more rows were there, nothing is beyond.
LEMMA PageOK ==
  ASSUME NEW B \in SUBSET Nat, NEW s \in Seq(B), Falls(s),
         NEW limit \in Nat \ {0}, NEW ahead \in {0, 1},
         NEW got, got = Lists!First(s, limit + ahead), NEW page, page = Lists!First(got, limit)
  PROVE  PageOf(B, s, limit, Len(got) = limit + ahead, page)
<1>1. PICK n \in Nat : n = Len(s) OBVIOUS
<1>2. PICK top \in Nat : top = limit + ahead OBVIOUS
<1>3. top >= limit /\ top <= limit + 1 BY <1>2
<1>4. PICK g \in Nat : g = (IF n < top THEN n ELSE top) OBVIOUS
<1>5. got \in Seq(B) /\ Len(got) = g /\ \A i \in 1 .. g : got[i] = s[i]
  BY <1>1, <1>2, <1>4, FirstOK
<1>6. PICK p \in Nat : p = (IF g < limit THEN g ELSE limit) OBVIOUS
<1>7. page \in Seq(B) /\ Len(page) = p /\ \A i \in 1 .. p : page[i] = got[i]
  BY <1>5, <1>6, FirstOK
<1>8. p = (IF n < limit THEN n ELSE limit) BY <1>3, <1>4, <1>6
<1>9. \A i \in 1 .. p : i \in 1 .. g /\ i \in 1 .. n BY <1>4, <1>6
<1>10. \A i \in 1 .. p : page[i] = s[i] BY <1>5, <1>7, <1>9
<1>11. ToSet(page) = {page[i] : i \in 1 .. p} BY <1>7 DEF ToSet
<1>12. \A i \in 1 .. n : s[i] \in B BY <1>1
<1>13. ToSet(page) \subseteq B BY <1>9, <1>10, <1>11, <1>12
<1>14. ASSUME Len(got) = limit + ahead
       PROVE  /\ page[limit] \in B
              /\ \A k \in 1 .. Len(s) : s[k] \notin ToSet(page) => s[k] < page[limit]
  <2>1. g = top BY <1>2, <1>5, <1>14
  <2>2. p = limit /\ limit \in 1 .. n /\ limit \in 1 .. p BY <1>3, <1>4, <1>6, <2>1
  <2>3. page[limit] = s[limit] /\ s[limit] \in B BY <1>10, <1>12, <2>2
  <2>4. ASSUME NEW k \in 1 .. n, s[k] \notin ToSet(page) PROVE s[k] < page[limit]
    <3>1. k \notin 1 .. limit
      <4> SUFFICES ASSUME k \in 1 .. limit PROVE FALSE OBVIOUS
      <4>1. k \in 1 .. p /\ page[k] = s[k] BY <1>10, <2>2
      <4> QED BY <1>11, <2>4, <4>1
    <3>2. limit < k BY <3>1
    <3>3. s[limit] > s[k] BY <1>1, <2>2, <3>2 DEF Falls
    <3>4. s[limit] \in Nat /\ s[k] \in Nat BY <1>12, <2>2
    <3> QED BY <2>3, <3>3, <3>4
  <2> QED BY <1>1, <2>3, <2>4
<1>15. ASSUME Len(got) # limit + ahead PROVE \A k \in 1 .. Len(s) : s[k] \in ToSet(page)
  <2>1. n < top /\ g = n BY <1>2, <1>4, <1>5, <1>15
  <2>2. p = n BY <1>3, <1>8, <2>1
  <2> QED BY <1>1, <1>10, <1>11, <2>2
<1> QED BY <1>13, <1>14, <1>15 DEF PageOf

\* What is beyond the page's last row is beyond the next cursor; where no cursor is given,
\* nothing is left.
LEMMA FetchPageStep == Lists!ConstantsOK /\ ListsInv /\ Lists!FetchPage => ListsInv'
<1> SUFFICES ASSUME Lists!ConstantsOK, ListsInv, Lists!FetchPage PROVE ListsInv'
  OBVIOUS
<1> DEFINE name == lReader.name
           l == Lists!Lists[lReader.name]
           beyond == {i \in Lists!Numbers(l.table, lReader.kinds) :
                        lReader.cursor = 0 \/ i < lReader.cursor \/ (i = lReader.cursor
                          /\ ~l.skips)}
<1>1. UNCHANGED lRows /\ lReader.step = "page" BY ListsLibrary DEF Lists!FetchPage
<1>2. RowsOK' /\ (\A w : WaitOK(w) => WaitOK(w)') /\ (\A f : FigureOK(f) => FigureOK(f)')
  BY <1>1, RowsStay DEF ListsInv
<1>3. WalkOK BY <1>1 DEF ListsInv, ReaderOK
<1>4. PICK limit \in Nat \ {0} : limit = lReader.limit
  <2>1. lReader.limit \in PageSizes BY <1>3 DEF WalkOK
  <2> QED BY <2>1 DEF Lists!ConstantsOK
<1>5. /\ l.table \in Lists!Table /\ l.ahead \in {0, 1} /\ l.next = "last"
  <2>1. name \in DOMAIN Lists!Lists /\ l.next = "last" BY <1>3 DEF WalkOK, Lists!ConstantsOK
  <2> QED BY <2>1 DEF Lists!Lists, Lists!LogsList, Lists!ExplorerList, Lists!EntriesList,
         Lists!TransfersList, Lists!AccountsList,
                      Lists!CustomersList, Lists!Listing, Lists!Table
<1>6. beyond \subseteq 1 .. RowBound /\ IsFiniteSet(beyond)
  <2>1. PICK all : all = Lists!Numbers(l.table, lReader.kinds) OBVIOUS
  <2>t. PICK tab \in Seq(Lists!RowKind) : tab = lRows[l.table] /\ Len(tab) <= RowBound
    BY <1>5 DEF ListsInv, RowsOK
  <2>a. all = ListsMatches(tab, lReader.kinds) BY <2>1, <2>t DEF Lists!Numbers, ListsMatches
  <2>2. all \subseteq 1 .. RowBound /\ IsFiniteSet(all) BY <2>t, <2>a, ListsCounts
  <2>3. beyond \in SUBSET all BY <2>1
  <2> QED BY <2>2, <2>3, FS_Subset
<1>7. PICK s : s = Lists!NewestFirst(beyond) OBVIOUS
<1>8. Lists!From(name, lReader.cursor) = s BY <1>7 DEF Lists!From
<1> HIDE DEF beyond
<1>9. /\ s \in Seq(beyond) /\ Len(s) \in Nat
      /\ \A i, j \in 1 .. Len(s) : i < j => s[i] > s[j]
      /\ \A x \in beyond : \E i \in 1 .. Len(s) : x = s[i]
  <2>1. beyond \in SUBSET Nat BY <1>6 DEF Lists!ConstantsOK
  <2> QED BY <1>6, <1>7, <2>1, Sorted
<1>10. PICK got : got = Lists!First(s, limit + l.ahead) OBVIOUS
<1>11. PICK page : page = Lists!First(got, limit) OBVIOUS
<1>12. PICK ahead \in {0, 1} : ahead = l.ahead BY <1>5
<1>13. /\ ToSet(page) \subseteq beyond
       /\ Len(got) = limit + ahead =>
            /\ page[limit] \in beyond
            /\ \A k \in 1 .. Len(s) : s[k] \notin ToSet(page) => s[k] < page[limit]
       /\ Len(got) # limit + ahead => \A k \in 1 .. Len(s) : s[k] \in ToSet(page)
  <2>1. PICK B \in SUBSET Nat : B = beyond BY <1>6 DEF Lists!ConstantsOK
  <2>2. s \in Seq(B) /\ Falls(s) BY <1>9, <2>1 DEF Falls
  <2>3. got = Lists!First(s, limit + ahead) BY <1>10, <1>12
  <2>4. PageOf(B, s, limit, Len(got) = limit + ahead, page)
    <3> HIDE DEF l, name
    <3> QED BY <1>11, <2>2, <2>3, PageOK
  <2> QED BY <2>1, <2>4 DEF PageOf
<1>17. ToSet(page) \subseteq 1 .. RowBound BY <1>6, <1>13
<1>18. PICK more \in BOOLEAN : more = (Len(got) = limit + ahead) OBVIOUS
<1>19. lReader' = [lReader EXCEPT
         !.seen = @ \cup ToSet(page), !.cursor = IF ~more THEN 0 ELSE page[limit],
         !.step = IF more THEN "page" ELSE "done"]
  BY <1>4, <1>5, <1>8, <1>10, <1>11, <1>12, <1>18, ListsLibrary DEF Lists!FetchPage
<1>20. lReader' =
         [step |-> IF more THEN "page" ELSE "done", name |-> lReader.name, kinds |-> lReader.kinds,
          limit |-> lReader.limit, cursor |-> IF ~more THEN 0 ELSE page[limit],
          seen |-> lReader.seen \cup ToSet(page), due |-> lReader.due, round |-> lReader.round,
          waits |-> lReader.waits, figures |-> lReader.figures, added |-> lReader.added]
  BY <1>19 DEF ListsInv, ReaderOK
<1>21. \A i \in lReader.due \ lReader.seen : i \in beyond
  BY <1>3 DEF WalkOK, beyond
<1>22. CASE more
  <2>1. page[limit] \in 1 .. RowBound BY <1>6, <1>13, <1>18, <1>22
  <2>2. \A i \in lReader.due \ lReader'.seen : i < page[limit]
    <3> SUFFICES ASSUME NEW i \in lReader.due \ lReader'.seen PROVE i < page[limit]
      OBVIOUS
    <3>1. i \in beyond /\ i \notin ToSet(page) BY <1>20, <1>21
    <3>2. PICK k \in 1 .. Len(s) : i = s[k] BY <1>9, <3>1
    <3> QED BY <1>13, <1>18, <1>22, <3>1, <3>2
  <2>3. WalkOK' BY <1>1, <1>3, <1>20, <1>22, <2>2 DEF WalkOK, Lists!Numbers
  <2> QED BY <1>2, <1>17, <1>20, <1>22, <2>1, <2>3 DEF ListsInv, ReaderOK, Lists!PagesCoverTheList
<1>23. CASE ~more
  <2>1. \A i \in lReader.due : i \in lReader'.seen
    <3> SUFFICES ASSUME NEW i \in lReader.due, i \notin lReader.seen PROVE i \in ToSet(page)
      BY <1>20
    <3>1. PICK k \in 1 .. Len(s) : i = s[k] BY <1>9, <1>21
    <3> QED BY <1>13, <1>18, <1>23, <3>1
  <2> QED BY <1>2, <1>17, <1>20, <1>23, <2>1 DEF ListsInv, ReaderOK, Lists!PagesCoverTheList,
         Lists!ConstantsOK
<1> QED BY <1>22, <1>23

LEMMA AnswerCountStep == Lists!ConstantsOK /\ ListsInv /\ Lists!AnswerCount => ListsInv'
<1> SUFFICES ASSUME Lists!ConstantsOK, ListsInv, Lists!AnswerCount PROVE ListsInv'
  OBVIOUS
<1>1. UNCHANGED lRows /\ lReader.step = "count" BY DEF Lists!AnswerCount
<1>2. RowsOK' /\ (\A w : WaitOK(w) => WaitOK(w)') /\ (\A f : FigureOK(f) => FigureOK(f)')
  BY <1>1, RowsStay DEF ListsInv
<1>3. /\ lReader.name \in ListReports /\ lReader.due = {}
      /\ lReader.round \in 1 .. Len(Lists!Reports[lReader.name].rounds)
      /\ lReader.cursor \in 0 .. RowBound /\ lReader.seen \subseteq 1 .. RowBound
  BY <1>1 DEF ListsInv, ReaderOK
<1>4. PICK w \in lReader.waits :
        LET answered == [lReader EXCEPT
              !.waits = @ \ {w},
              !.figures = @ \cup {[of |-> w.of, was |-> w.was, is |-> Lists!Counted(w.of)]}]
        IN lReader' = IF answered.waits # {} THEN answered
                      ELSE IF lReader.round < Len(Lists!Reports[lReader.name].rounds)
                      THEN Lists!Sends(answered, lReader.round + 1)
                      ELSE [answered EXCEPT !.step = "done"]
  BY DEF Lists!AnswerCount
<1>5. PICK f : f = [of |-> w.of, was |-> w.was, is |-> Lists!Counted(w.of)] OBVIOUS
<1>6. FigureOK(f)'
  <2>1. WaitOK(w) BY DEF ListsInv, ReaderOK
  <2>2. CountOK(w.of) /\ w.was \in 0 .. RowBound /\ w.was <= Lists!Now(w.of) BY <2>1 DEF WaitOK
  <2>3. f.is = Lists!Now(w.of) /\ f.is \in 0 .. RowBound
    BY <1>5, <2>2, NowOK, ListsLibrary DEF Lists!Counted, Lists!Now, ListsInv
  <2>4. FigureOK(f) BY <1>5, <2>2, <2>3 DEF FigureOK, Lists!ConstantsOK
  <2> QED BY <1>2, <2>4
<1>7. PICK answered : answered = [lReader EXCEPT !.waits = @ \ {w}, !.figures = @ \cup {f}]
  OBVIOUS
<1>8. answered =
        [step |-> "count", name |-> lReader.name, kinds |-> lReader.kinds,
         limit |-> lReader.limit, cursor |-> lReader.cursor, seen |-> lReader.seen,
         due |-> lReader.due, round |-> lReader.round, waits |-> lReader.waits \ {w},
         figures |-> lReader.figures \cup {f}, added |-> lReader.added]
  BY <1>1, <1>7 DEF ListsInv, ReaderOK
<1>9. lReader' = IF answered.waits # {} THEN answered
                 ELSE IF lReader.round < Len(Lists!Reports[lReader.name].rounds)
                 THEN Lists!Sends(answered, lReader.round + 1)
                 ELSE [answered EXCEPT !.step = "done"]
  BY <1>4, <1>5, <1>7
<1>10. \A x \in lReader.waits : WaitOK(x)' BY <1>2 DEF ListsInv, ReaderOK
<1>11. \A x \in lReader.figures \cup {f} : FigureOK(x)' BY <1>2, <1>6 DEF ListsInv, ReaderOK
<1>12. CASE lReader' = answered
  BY <1>2, <1>3, <1>8, <1>10, <1>11, <1>12 DEF ListsInv, ReaderOK, Lists!PagesCoverTheList
<1>13. CASE lReader' = [answered EXCEPT !.step = "done"] /\ answered.waits = {}
  <2>1. lReader' =
          [step |-> "done", name |-> lReader.name, kinds |-> lReader.kinds,
           limit |-> lReader.limit, cursor |-> lReader.cursor, seen |-> lReader.seen,
           due |-> {}, round |-> lReader.round, waits |-> {},
           figures |-> lReader.figures \cup {f}, added |-> lReader.added]
    BY <1>3, <1>8, <1>13
  <2> QED BY <1>2, <1>3, <1>11, <2>1 DEF ListsInv, ReaderOK, Lists!PagesCoverTheList
<1>14. CASE lReader' = Lists!Sends(answered, lReader.round + 1)
            /\ lReader.round < Len(Lists!Reports[lReader.name].rounds)
  <2>1. lReader.round + 1 \in 1 .. Len(Lists!Reports[lReader.name].rounds)
    <3>1. RoundsOK(Lists!Reports[lReader.name].rounds) BY <1>3, ReportsOK DEF Lists!ConstantsOK
    <3> QED BY <1>3, <1>14, <3>1 DEF RoundsOK
  <2>2. PICK next : next = Lists!Sent(Lists!Reports[lReader.name].rounds[lReader.round + 1]) OBVIOUS
  <2>3. \A x \in next : WaitOK(x)' BY <1>1, <1>3, <2>1, <2>2, SentOK DEF ListsInv
  <2>4. lReader' =
          [step |-> "count", name |-> lReader.name, kinds |-> lReader.kinds,
           limit |-> lReader.limit, cursor |-> lReader.cursor, seen |-> lReader.seen,
           due |-> {}, round |-> lReader.round + 1, waits |-> next,
           figures |-> lReader.figures \cup {f}, added |-> lReader.added]
    BY <1>3, <1>8, <1>14, <2>2 DEF Lists!Sends
  <2> QED BY <1>2, <1>3, <1>11, <2>1, <2>3, <2>4 DEF ListsInv, ReaderOK, Lists!PagesCoverTheList
<1> QED BY <1>9, <1>12, <1>13, <1>14

LEMMA FailReportStep == Lists!ConstantsOK /\ ListsInv /\ Lists!FailReport => ListsInv'
<1> SUFFICES ASSUME Lists!ConstantsOK, ListsInv, Lists!FailReport PROVE ListsInv'
  OBVIOUS
<1>1. UNCHANGED lRows /\ lReader.step = "count" BY DEF Lists!FailReport
<1>2. RowsOK' BY <1>1, RowsStay DEF ListsInv
<1>3. lReader' =
        [step |-> "done", name |-> lReader.name, kinds |-> lReader.kinds,
         limit |-> lReader.limit, cursor |-> lReader.cursor, seen |-> lReader.seen,
         due |-> lReader.due, round |-> lReader.round, waits |-> {}, figures |-> {},
         added |-> lReader.added]
  BY DEF Lists!FailReport, ListsInv, ReaderOK
<1> QED BY <1>1, <1>2, <1>3 DEF ListsInv, ReaderOK, Lists!PagesCoverTheList

\* An added row is numbered after all that were there: nothing that is due moves.
LEMMA AddStep == Lists!ConstantsOK /\ ListsInv /\ Lists!Add => ListsInv'
<1> SUFFICES ASSUME Lists!ConstantsOK, ListsInv, Lists!Add PROVE ListsInv'
  OBVIOUS
<1>1. PICK t \in Lists!Concerned, kind \in {"open", "bad"} :
        Len(lRows[t]) < RowBound /\ lRows' = [lRows EXCEPT ![t] = Append(lRows[t], kind)]
  BY DEF Lists!Add
<1>2. t \in Lists!Table BY ConcernedTables
<1>3. lRows \in [Lists!Table -> Seq(Lists!RowKind)]
        /\ \A u \in Lists!Table : Len(lRows[u]) <= RowBound
  BY DEF ListsInv, RowsOK
<1>4. PICK old \in Seq(Lists!RowKind) : old = lRows[t] BY <1>2, <1>3
<1>5. PICK new : new = Append(old, kind) OBVIOUS
<1>6. /\ new \in Seq(Lists!RowKind) /\ Len(new) = Len(old) + 1
      /\ \A i \in 1 .. Len(old) : new[i] = old[i]
  BY <1>5 DEF Lists!RowKind
<1>7. Len(new) <= RowBound BY <1>1, <1>4, <1>6 DEF Lists!ConstantsOK
<1>8. \A kinds : ListsMatches(old, kinds) \subseteq ListsMatches(new, kinds)
  <2>1. \A i \in DOMAIN old : i \in DOMAIN new /\ new[i] = old[i] BY <1>6
  <2> QED BY <2>1 DEF ListsMatches
<1>9. lRows' = [lRows EXCEPT ![t] = new] BY <1>1, <1>4, <1>5
<1>10. RowsOK' BY <1>2, <1>3, <1>6, <1>7, <1>9 DEF RowsOK
<1>11. \A u \in Lists!Table : \A kinds : ListsMatches(lRows[u], kinds)
         \subseteq ListsMatches(lRows'[u], kinds)
  BY <1>2, <1>3, <1>4, <1>8, <1>9
<1>12. (\A w : WaitOK(w) => WaitOK(w)') /\ (\A f : FigureOK(f) => FigureOK(f)')
  <2>1. \A q : CountOK(q)
          => ListsMatches(lRows[q.table], q.kinds) \subseteq ListsMatches(lRows'[q.table], q.kinds)
    BY <1>11 DEF CountOK
  <2> QED BY <1>10, <2>1, CountsGrow DEF ListsInv
<1>13. lReader' =
         [step |-> lReader.step, name |-> lReader.name, kinds |-> lReader.kinds,
          limit |-> lReader.limit, cursor |-> lReader.cursor, seen |-> lReader.seen,
          due |-> lReader.due, round |-> lReader.round, waits |-> lReader.waits,
          figures |-> lReader.figures, added |-> lReader.added + 1]
       /\ lReader.step \in {"page", "count"}
  BY DEF Lists!Add, ListsInv, ReaderOK
<1>14. ASSUME lReader.step = "page" PROVE WalkOK'
  <2>1. WalkOK BY <1>14 DEF ListsInv, ReaderOK
  <2>2. PICK u : u = Lists!Lists[lReader.name].table OBVIOUS
  <2>3. u \in Lists!Table
    <3>1. lReader.name \in DOMAIN Lists!Lists BY <2>1 DEF WalkOK, Lists!ConstantsOK
    <3> QED BY <2>2, <3>1 DEF Lists!Lists, Lists!LogsList, Lists!ExplorerList, Lists!EntriesList,
           Lists!TransfersList,
                              Lists!AccountsList, Lists!CustomersList, Lists!Listing, Lists!Table
  <2>4. lReader.due \subseteq ListsMatches(lRows[u], lReader.kinds)
    BY <2>1, <2>2 DEF WalkOK, Lists!Numbers, ListsMatches
  <2>5. lReader.due \subseteq ListsMatches(lRows'[u], lReader.kinds) BY <1>11, <2>3, <2>4
  <2>6. lReader'.due \subseteq Lists!Numbers(Lists!Lists[lReader.name].table, lReader.kinds)'
    BY <1>13, <2>2, <2>5 DEF Lists!Numbers, ListsMatches
  <2> QED BY <1>13, <2>1, <2>6 DEF WalkOK
<1>15. ReaderOK' BY <1>12, <1>13, <1>14 DEF ListsInv, ReaderOK, Lists!PagesCoverTheList
<1> QED BY <1>10, <1>15 DEF ListsInv

\* A transfer that is settled leaves those that are open, which no report counts alone.
LEMMA SettleStep == Lists!ConstantsOK /\ ListsInv /\ Lists!Settle => ListsInv'
<1> SUFFICES ASSUME Lists!ConstantsOK, ListsInv, Lists!Settle PROVE ListsInv'
  OBVIOUS
<1>1. PICK at \in Lists!Numbers("transfer", {"open"}), kind \in {"good", "bad"} :
        lRows' = [lRows EXCEPT !["transfer"] = [lRows["transfer"] EXCEPT ![at] = kind]]
  BY DEF Lists!Settle
<1>2. "transfer" \in Lists!Table BY DEF Lists!Table
<1>3. lRows \in [Lists!Table -> Seq(Lists!RowKind)]
        /\ \A u \in Lists!Table : Len(lRows[u]) <= RowBound
  BY DEF ListsInv, RowsOK
<1>4. PICK old \in Seq(Lists!RowKind) : old = lRows["transfer"] BY <1>2, <1>3
<1>5. at \in 1 .. Len(old) /\ old[at] = "open" BY <1>1, <1>4 DEF Lists!Numbers
<1>6. PICK new : new = [old EXCEPT ![at] = kind] OBVIOUS
<1>7. /\ new \in Seq(Lists!RowKind) /\ Len(new) = Len(old) /\ DOMAIN new = DOMAIN old
      /\ new[at] = kind /\ \A i \in DOMAIN old \ {at} : new[i] = old[i]
  BY <1>5, <1>6 DEF Lists!RowKind
<1>8. ASSUME NEW q, CountOK(q) PROVE ListsMatches(old, q.kinds) \subseteq ListsMatches(new, q.kinds)
  <2>1. q.kinds \in {Lists!RowKind, {"good"}, {"bad"}} BY <1>8 DEF CountOK
  <2>2. old[at] \in q.kinds => new[at] \in q.kinds BY <1>5, <1>7, <2>1 DEF Lists!RowKind
  <2> QED BY <1>7, <2>2 DEF ListsMatches
<1>9. lRows' = [lRows EXCEPT !["transfer"] = new] BY <1>1, <1>4, <1>6
<1>10. RowsOK' BY <1>2, <1>3, <1>4, <1>7, <1>9 DEF RowsOK
<1>11. (\A w : WaitOK(w) => WaitOK(w)') /\ (\A f : FigureOK(f) => FigureOK(f)')
  <2>1. \A q : CountOK(q)
          => ListsMatches(lRows[q.table], q.kinds) \subseteq ListsMatches(lRows'[q.table], q.kinds)
    BY <1>2, <1>3, <1>4, <1>8, <1>9 DEF CountOK
  <2> QED BY <1>10, <2>1, CountsGrow DEF ListsInv
<1>12. lReader' =
         [step |-> lReader.step, name |-> lReader.name, kinds |-> lReader.kinds,
          limit |-> lReader.limit, cursor |-> lReader.cursor, seen |-> lReader.seen,
          due |-> lReader.due, round |-> lReader.round, waits |-> lReader.waits,
          figures |-> lReader.figures, added |-> lReader.added + 1]
       /\ lReader.step = "count"
  BY DEF Lists!Settle, ListsInv, ReaderOK
<1>13. ReaderOK' BY <1>11, <1>12 DEF ListsInv, ReaderOK, Lists!PagesCoverTheList
<1> QED BY <1>10, <1>13 DEF ListsInv

\* The invariant is inductive.
LEMMA ListsKept == Lists!ConstantsOK /\ ListsInv /\ [Lists!Next]_Lists!vars => ListsInv'
<1> SUFFICES ASSUME Lists!ConstantsOK, ListsInv, [Lists!Next]_Lists!vars PROVE ListsInv'
  OBVIOUS
<1>1. CASE UNCHANGED Lists!vars
  BY <1>1, ListsLibrary DEF Lists!vars, ListsInv, RowsOK, ReaderOK, WalkOK, WaitOK, FigureOK,
     CountOK, Lists!Now, Lists!Numbers,
              Lists!PagesCoverTheList
<1> QED BY <1>1, StartWalkStep, FetchPageStep, StartReportStep, AnswerCountStep, FailReportStep,
           AddStep, SettleStep DEF Lists!Next

\* Of a list or a report only what its type allows is kept.
LEMMA ListsTyped == Lists!ConstantsOK /\ ListsInv => Lists!TypeOK
<1> SUFFICES ASSUME Lists!ConstantsOK, ListsInv PROVE Lists!TypeOK
  OBVIOUS
<1>1. ASSUME NEW t \in Lists!Table PROVE lRows[t] \in BoundedSeq(Lists!RowKind, RowBound)
  <2>1. PICK n \in 0 .. RowBound : n = Len(lRows[t]) BY DEF ListsInv, RowsOK, Lists!ConstantsOK
  <2>2. lRows[t] \in [1 .. n -> Lists!RowKind] BY <2>1 DEF ListsInv, RowsOK
  <2> QED BY <2>2 DEF BoundedSeq, SeqOf
<1>2. DOMAIN lRows = Lists!Table BY DEF ListsInv, RowsOK
<1>3. \A w \in lReader.waits : w.of \in Lists!Statement /\ w.was \in 0 .. RowBound
  BY DEF ListsInv, ReaderOK, WaitOK, CountOK, Lists!Statement
<1>4. \A f \in lReader.figures : f.of \in Lists!Statement /\ f.is \in 0 .. RowBound
        /\ f.was \in 0 .. RowBound
  BY DEF ListsInv, ReaderOK, FigureOK, CountOK, Lists!Statement
<1> QED BY <1>1, <1>2, <1>3, <1>4, ListsLibrary DEF Lists!TypeOK, ListsInv, ReaderOK

\* Walks that begin the next page at the last row cover the list, and each figure of a report
\* was right at some moment since it was asked for, whatever is added and settled meanwhile.
THEOREM WalksCoverAndFiguresAreRecent ==
  ASSUME Lists!ConstantsOK
  PROVE  Lists!Spec => []Lists!ReadsAreRight
<1>1. ListsInv => Lists!ReadsAreRight
  BY DEF ListsInv, ReaderOK, Lists!ReadsAreRight, Lists!FiguresAreRecent, FigureOK
<1> QED BY <1>1, ListsInit, ListsKept, PTL DEF Lists!Spec

\* The rows and what each reader has of them keep their types.
THEOREM ListsAreTyped ==
  ASSUME Lists!ConstantsOK
  PROVE  Lists!Spec => []Lists!TypeOK
<1> QED BY ListsInit, ListsKept, ListsTyped, PTL DEF Lists!Spec

-----------------------------------------------------------------------------
(* The console.                                                            *)

\* The library is the same in every part.
LEMMA ScreenLibrary ==
  (\A S : Screen!Cardinality(S) = Cardinality(S))
    /\ (\A S : Screen!IsFiniteSet(S) = IsFiniteSet(S)) /\ (\A S : Screen!Max(S) = Max(S))
BY DEF Screen!Cardinality, Cardinality, Screen!IsFiniteSet, IsFiniteSet, Screen!Max, Max


\* The pages that belong to no project; a project or none; what the address bar may say.
Outside == {"login", "projects", "onboarding"}
Ids == ConsoleProjects \cup {Screen!NoProject}
Routes == [page : Screen!PageNames \cup Outside, project : Ids, about : Ids]

\* A list of projects on its way: who asked knows what to do with it, and for which project.
ListOK(c) ==
  /\ c \in [then : {"check", "stay", "leave", "open", "keep"}, project : Ids,
            list : SUBSET ConsoleProjects]
  /\ c.then \in {"open", "keep"} => c.project # Screen!NoProject
  /\ c.then = "stay" => c.list # {}

\* The address bar names a project where the page belongs to one.
FrameOK ==
  /\ Screen!TypeOK
  /\ cRoute \in Routes
  /\ cRoute.project = Screen!NoProject <=> cRoute.page \in Outside
  /\ \A c \in cLists : ListOK(c)

\* What the page shows and awaits is of the rounds of its own loads.
ViewOK ==
  /\ cView = [loading |-> cView.loading, error |-> cView.error, busy |-> cView.busy,
              rows |-> cView.rows]
  /\ cView.loading \in BOOLEAN /\ cView.error \in BOOLEAN /\ cView.busy \in BOOLEAN
  /\ \A x \in cView.rows : x[2] \in Ids
  /\ \A c \in cReads : c.round \in 1 .. Len(Screen!Loads) /\ c.from \in Ids /\ c.selected \in Ids
  /\ ~Screen!Outlet => cView = Screen!Blank /\ cReads = {}

\* Nobody is on a project's page without a session, and a session that is being restored
\* has asked for nothing yet.
Sessions ==
  /\ cSession \in {"out", "login"} => cRoute.project = Screen!NoProject
  /\ cSession \in {"me", "boot"} => cLists = {} /\ cLate = {} /\ cLayout = Screen!NewLayout

\* The layout waits for an answer that is on its way.
LayoutSpins == cLayout.loading => cLayout.pending # {}

\* The layout shows the page; then the context knows a project, or the page is being left.
Ready == cSession = "in" /\ cRoute.project # Screen!NoProject /\ ~cLayout.loading /\ ~cLayout.error

Known == Ready => Screen!Awaits("leave") \/ (cSelected # Screen!NoProject /\ cServer.own # {})

\* A page that loads awaits an answer, or is being left.
PageSpins == cView.loading /\ cReads = {} => Screen!Awaits("leave")

\* As long as the user has waited for the console: no answer under way is about another
\* project, no list will choose another one, and once the layout is done both memories of
\* the selected project agree with the page.
Calm ==
  ~cHurried /\ cSession = "in" /\ cRoute.project # Screen!NoProject =>
    /\ cLayout.pending \cup cLate \subseteq {cRoute.project}
    /\ \A c \in cLists : c.then \in {"stay", "leave"}
    /\ \A c \in cLists : c.then = "stay" =>
         cStored = cRoute.project /\ cRoute.project \in c.list \cap cServer.own
    /\ ~cLayout.loading /\ ~cLayout.error =>
         cStored = cSelected /\ cStored \in {cRoute.project, Screen!NoProject}

ConsoleInv ==
  /\ FrameOK /\ ViewOK /\ Sessions /\ LayoutSpins /\ Known /\ PageSpins /\ Calm
  /\ Screen!ActsOnItsPage /\ Screen!OwnRowsOnly

LEMMA NewestIn ==
  ASSUME Screen!ConstantsOK, NEW ps \in SUBSET ConsoleProjects, ps # {}
  PROVE  Screen!Newest(ps) \in ps
<1> DEFINE above(x) == {q \in ps : q > x}
           T == {above(x) : x \in ps}
<1>1. IsFiniteSet(ps) /\ \A x \in ps : x \in Nat BY FS_Subset, ScreenLibrary DEF Screen!ConstantsOK
<1>2. T \subseteq FiniteSubsetsOf(ps) /\ T # {}
  <2>1. \A x \in ps : above(x) \subseteq ps /\ IsFiniteSet(above(x)) BY <1>1, FS_Subset
  <2> QED BY <2>1 DEF FiniteSubsetsOf
<1>3. PICK m \in T : \A y \in T : ~(<<y, m>> \in StrictSubsetOrdering(ps))
  <2> HIDE DEF T
  <2> QED BY <1>1, <1>2, FS_StrictSubsetOrderingWellFounded, WFMin
<1>4. PICK x \in ps : m = above(x) OBVIOUS
<1>5. \A y \in ps : x >= y
  <2> SUFFICES ASSUME NEW y \in ps, ~(x >= y) PROVE FALSE OBVIOUS
  <2>1. y > x BY <1>1
  <2>2. above(y) \subseteq above(x) /\ y \in above(x) /\ y \notin above(y) BY <1>1, <2>1
  <2>3. above(y) \in T /\ above(y) # m BY <1>4, <2>2
  <2> QED BY <1>3, <1>4, <2>2, <2>3 DEF StrictSubsetOrdering
<1> QED BY <1>5, ScreenLibrary DEF Screen!Newest, Max

\* A page asks for each of its lists once.
Apart(loads) ==
  /\ DOMAIN loads = 1 .. Len(loads) /\ Len(loads) \in Nat /\ (loads # << >> => Len(loads) >= 1)
  /\ \A k, j \in DOMAIN loads : \A x \in loads[k], y \in loads[j] : x.list = y.list => x = y

LEMMA ListOfRead ==
  \A l : /\ Screen!Path(l).list = l /\ Screen!Header(l).list = l /\ Screen!Stored(l).list = l
         /\ Screen!Selected(l).list = l /\ Screen!Row(l).list = l
         /\ Screen!Own(Screen!Header(l)).list = l /\ Screen!Own(Screen!Stored(l)).list = l
              /\ Screen!Own(Screen!Row(l)).list = l
         /\ Screen!Lenient(Screen!Header(l)).list = l /\ Screen!Lenient(Screen!Stored(l)).list = l
         /\ Screen!Lenient(Screen!Row(l)).list = l
BY DEF Screen!Path, Screen!Header, Screen!Stored, Screen!Selected, Screen!Row, Screen!Read,
   Screen!Own, Screen!Lenient

LEMMA QuickstartRounds ==
  /\ DOMAIN Screen!QuickstartLoads = 1 .. 4 /\ Len(Screen!QuickstartLoads) = 4
  /\ Screen!QuickstartLoads[1] = {Screen!Path("project")}
  /\ \A k \in 1 .. 3 : Screen!QuickstartLoads[k + 1] = Screen!ChecklistLoads[k]
<1> DEFINE first == <<{Screen!Path("project")}>>
           S == {first[1], Screen!ChecklistLoads[1], Screen!ChecklistLoads[2],
             Screen!ChecklistLoads[3]}
           all == first \o Screen!ChecklistLoads
<1>1. first \in Seq(S) /\ Len(first) = 1 OBVIOUS
<1>2. Screen!ChecklistLoads \in Seq(S) /\ Len(Screen!ChecklistLoads) = 3
  BY DEF Screen!ChecklistLoads
<1>3. first[1] = {Screen!Path("project")} OBVIOUS
<1>4. Screen!QuickstartLoads = all BY DEF Screen!QuickstartLoads
<1> HIDE DEF first, S
<1>5. /\ all \in Seq(S) /\ Len(all) = 4
      /\ \A i \in 1 .. 4 : all[i] = IF i <= 1 THEN first[i] ELSE Screen!ChecklistLoads[i - 1]
  <2> DEFINE rest == Screen!ChecklistLoads
  <2>1. rest \in Seq(S) /\ Len(rest) = 3 BY <1>2
  <2> HIDE DEF rest
  <2>2. /\ first \o rest \in Seq(S) /\ Len(first \o rest) = Len(first) + Len(rest)
        /\ \A i \in 1 .. Len(first) + Len(rest) :
             (first \o rest)[i] = IF i <= Len(first) THEN first[i] ELSE rest[i - Len(first)]
    BY <1>1, <2>1, ConcatProperties
  <2> USE DEF rest
  <2> QED BY <1>1, <2>1, <2>2
<1> HIDE DEF all
<1>6. \A k \in 1 .. 3 : all[k + 1] = Screen!ChecklistLoads[k]
  <2> SUFFICES ASSUME NEW k \in 1 .. 3 PROVE all[k + 1] = Screen!ChecklistLoads[k] OBVIOUS
  <2>1. k + 1 \in 1 .. 4 /\ ~(k + 1 <= 1) /\ (k + 1) - 1 = k OBVIOUS
  <2> QED BY <1>5, <2>1
<1> QED BY <1>3, <1>4, <1>5, <1>6

LEMMA ListsApart ==
  ASSUME NEW page \in Screen!PageNames
  PROVE  Apart(Screen!LoadsOf(page))
<1>1. Apart(Screen!OverviewLoads)
  <2>1. DOMAIN Screen!OverviewLoads = 1 .. 4 /\ Len(Screen!OverviewLoads) = 4
    BY DEF Screen!OverviewLoads
  <2>2. \A k \in 1 .. 4 : \A x \in Screen!OverviewLoads[k] :
            \/ x = Screen!Path("project")
            \/ x = Screen!Path("keys")
            \/ x = Screen!Lenient(Screen!Stored("endpoints"))
            \/ x = Screen!Path("metrics")
            \/ x = Screen!Own(Screen!Stored("transfers"))
            \/ x = Screen!Own(Screen!Stored("logs"))
    BY DEF Screen!OverviewLoads
  <2>3. \A k, j \in 1 .. 4 : \A x \in Screen!OverviewLoads[k], y \in Screen!OverviewLoads[j] :
          x.list = y.list => x = y
    BY <2>2, ListOfRead, SMTT(60)
  <2> QED BY <2>1, <2>3 DEF Apart
<1>2. Apart(Screen!QuickstartLoads)
  <2>1. DOMAIN Screen!QuickstartLoads = 1 .. 4 /\ Len(Screen!QuickstartLoads) = 4
    BY QuickstartRounds
  <2>2. \A k \in 1 .. 4 : \A x \in Screen!QuickstartLoads[k] :
            \/ x = Screen!Path("project")
            \/ x = Screen!Path("keys")
            \/ x = Screen!Path("metrics")
            \/ x = Screen!Own(Screen!Stored("logs"))
    <3>1. \A k \in 1 .. 4 : k = 1 \/ \E j \in 1 .. 3 : k = j + 1 OBVIOUS
    <3>2. \A j \in 1 .. 3 : \A x \in Screen!ChecklistLoads[j] :
            x = Screen!Path("keys") \/ x = Screen!Path("metrics")
              \/ x = Screen!Own(Screen!Stored("logs"))
      BY DEF Screen!ChecklistLoads
    <3> QED BY <3>1, <3>2, QuickstartRounds
  <2> QED BY <2>1, <2>2, ListOfRead DEF Apart
<1>3. Apart(Screen!CustomersLoads)
  <2>1. DOMAIN Screen!CustomersLoads = 1 .. 1 /\ Len(Screen!CustomersLoads) = 1
    BY DEF Screen!CustomersLoads
  <2>2. \A k \in 1 .. 1 : \A x \in Screen!CustomersLoads[k] :
            x = Screen!Header("customers")
    BY DEF Screen!CustomersLoads
  <2> QED BY <2>1, <2>2, ListOfRead DEF Apart
<1>4. Apart(Screen!CustomerDetailsLoads)
  <2>1. DOMAIN Screen!CustomerDetailsLoads = 1 .. 1 /\ Len(Screen!CustomerDetailsLoads) = 1
    BY DEF Screen!CustomerDetailsLoads
  <2>2. \A k \in 1 .. 1 : \A x \in Screen!CustomerDetailsLoads[k] :
            \/ x = Screen!Row("customer")
            \/ x = Screen!Header("accounts")
            \/ x = Screen!Own(Screen!Header("transfers"))
    BY DEF Screen!CustomerDetailsLoads
  <2> QED BY <2>1, <2>2, ListOfRead DEF Apart
<1>5. Apart(Screen!AccountsLoads)
  <2>1. DOMAIN Screen!AccountsLoads = 1 .. 1 /\ Len(Screen!AccountsLoads) = 1
    BY DEF Screen!AccountsLoads
  <2>2. \A k \in 1 .. 1 : \A x \in Screen!AccountsLoads[k] :
            x = Screen!Header("accounts") \/ x = Screen!Header("customers")
    BY DEF Screen!AccountsLoads
  <2> QED BY <2>1, <2>2, ListOfRead DEF Apart
<1>6. Apart(Screen!AccountDetailsLoads)
  <2>1. DOMAIN Screen!AccountDetailsLoads = 1 .. 1 /\ Len(Screen!AccountDetailsLoads) = 1
    BY DEF Screen!AccountDetailsLoads
  <2>2. \A k \in 1 .. 1 : \A x \in Screen!AccountDetailsLoads[k] :
            x = Screen!Own(Screen!Row("account"))
    BY DEF Screen!AccountDetailsLoads
  <2> QED BY <2>1, <2>2, ListOfRead DEF Apart
<1>7. Apart(Screen!TransfersLoads)
  <2>1. DOMAIN Screen!TransfersLoads = 1 .. 1 /\ Len(Screen!TransfersLoads) = 1
    BY DEF Screen!TransfersLoads
  <2>2. \A k \in 1 .. 1 : \A x \in Screen!TransfersLoads[k] :
            x = Screen!Stored("transfers") \/ x = Screen!Own(Screen!Header("accounts"))
    BY DEF Screen!TransfersLoads
  <2> QED BY <2>1, <2>2, ListOfRead DEF Apart
<1>8. Apart(Screen!TransactionsLoads)
  <2>1. DOMAIN Screen!TransactionsLoads = 1 .. 1 /\ Len(Screen!TransactionsLoads) = 1
    BY DEF Screen!TransactionsLoads
  <2>2. \A k \in 1 .. 1 : \A x \in Screen!TransactionsLoads[k] :
            x = Screen!Own(Screen!Header("transfers"))
    BY DEF Screen!TransactionsLoads
  <2> QED BY <2>1, <2>2, ListOfRead DEF Apart
<1>9. Apart(Screen!TransactionDetailsLoads)
  <2>1. DOMAIN Screen!TransactionDetailsLoads = 1 .. 2 /\ Len(Screen!TransactionDetailsLoads) = 2
    BY DEF Screen!TransactionDetailsLoads
  <2>2. \A k \in 1 .. 2 : \A x \in Screen!TransactionDetailsLoads[k] :
            x = Screen!Row("transfer") \/ x = Screen!Lenient(Screen!Row("journal"))
    BY DEF Screen!TransactionDetailsLoads
  <2> QED BY <2>1, <2>2, ListOfRead DEF Apart
<1>10. Apart(Screen!LedgerLoads)
  <2>1. DOMAIN Screen!LedgerLoads = 1 .. 2 /\ Len(Screen!LedgerLoads) = 2
    BY DEF Screen!LedgerLoads
  <2>2. \A k \in 1 .. 2 : \A x \in Screen!LedgerLoads[k] :
            x = Screen!Stored("accounts") \/ x = Screen!Lenient(Screen!Stored("entries"))
    BY DEF Screen!LedgerLoads
  <2> QED BY <2>1, <2>2, ListOfRead DEF Apart
<1>11. Apart(Screen!WebhooksLoads)
  <2>1. DOMAIN Screen!WebhooksLoads = 1 .. 2 /\ Len(Screen!WebhooksLoads) = 2
    BY DEF Screen!WebhooksLoads
  <2>2. \A k \in 1 .. 2 : \A x \in Screen!WebhooksLoads[k] :
            x = Screen!Header("endpoints") \/ x = Screen!Lenient(Screen!Header("deliveries"))
    BY DEF Screen!WebhooksLoads
  <2> QED BY <2>1, <2>2, ListOfRead DEF Apart
<1>12. Apart(Screen!LogsLoads)
  <2>1. DOMAIN Screen!LogsLoads = 1 .. 1 /\ Len(Screen!LogsLoads) = 1
    BY DEF Screen!LogsLoads
  <2>2. \A k \in 1 .. 1 : \A x \in Screen!LogsLoads[k] :
            x = Screen!Stored("logs")
    BY DEF Screen!LogsLoads
  <2> QED BY <2>1, <2>2, ListOfRead DEF Apart
<1>13. Apart(Screen!LogDetailsLoads)
  <2>1. DOMAIN Screen!LogDetailsLoads = 1 .. 1 /\ Len(Screen!LogDetailsLoads) = 1
    BY DEF Screen!LogDetailsLoads
  <2>2. \A k \in 1 .. 1 : \A x \in Screen!LogDetailsLoads[k] :
            x = Screen!Row("log")
    BY DEF Screen!LogDetailsLoads
  <2> QED BY <2>1, <2>2, ListOfRead DEF Apart
<1>14. Apart(Screen!ApiKeysLoads)
  <2>1. DOMAIN Screen!ApiKeysLoads = 1 .. 1 /\ Len(Screen!ApiKeysLoads) = 1
    BY DEF Screen!ApiKeysLoads
  <2>2. \A k \in 1 .. 1 : \A x \in Screen!ApiKeysLoads[k] :
            x = Screen!Path("keys")
    BY DEF Screen!ApiKeysLoads
  <2> QED BY <2>1, <2>2, ListOfRead DEF Apart
<1>15. Apart(Screen!SandboxLoads)
  <2>1. DOMAIN Screen!SandboxLoads = 1 .. 2 /\ Len(Screen!SandboxLoads) = 2
    BY DEF Screen!SandboxLoads
  <2>2. \A k \in 1 .. 2 : \A x \in Screen!SandboxLoads[k] :
            \/ x = Screen!Stored("accounts")
            \/ x = Screen!Stored("transfers")
            \/ x = Screen!Lenient(Screen!Stored("entries"))
    BY DEF Screen!SandboxLoads
  <2> QED BY <2>1, <2>2, ListOfRead DEF Apart
<1>16. Apart(Screen!DocsLoads)
  <2>1. DOMAIN Screen!DocsLoads = 1 .. 1 /\ Len(Screen!DocsLoads) = 1
    BY DEF Screen!DocsLoads
  <2>2. \A k \in 1 .. 1 : \A x \in Screen!DocsLoads[k] :
            x = Screen!Selected("keys") \/ x = Screen!Selected("project")
    BY DEF Screen!DocsLoads
  <2> QED BY <2>1, <2>2, ListOfRead DEF Apart
<1>17. Apart(Screen!SettingsLoads)
  BY DEF Apart, Screen!SettingsLoads
<1> QED
  BY <1>1, <1>2, <1>3, <1>4, <1>5, <1>6, <1>7, <1>8, <1>9, <1>10, <1>11, <1>12, <1>13, <1>14,
     <1>15, <1>16, <1>17 DEF Screen!LoadsOf, Screen!PageNames

\* The view's rows, reads and spinner after the page is taken away, put up or kept.
LEMMA RenderedView ==
  ASSUME Screen!ConstantsOK, FrameOK, FrameOK', ViewOK, Screen!OwnRowsOnly, Screen!Render
  PROVE  ViewOK' /\ Screen!OwnRowsOnly'
<1>1. /\ cRoute.page \in Screen!PageNames \cup Outside
           /\ cRoute'.page \in Screen!PageNames \cup Outside
      /\ cStored' \in Ids /\ cSelected' \in Ids
  BY DEF FrameOK, Screen!TypeOK, Routes, Ids
<1>2. CASE ~Screen!Outlet'
  <2>1. cView' = Screen!Blank /\ cReads' = {} BY <1>2 DEF Screen!Render
  <2> QED BY <1>2, <2>1 DEF ViewOK, Screen!OwnRowsOnly, Screen!Blank
<1>3. CASE Screen!Outlet' /\ (~Screen!Outlet \/ cRoute' # cRoute)
  <2>1. cView' = Screen!Opening(cRoute'.page)
          /\ cReads' = IF Screen!Starts' THEN {Screen!Load'} ELSE {}
    BY <1>3 DEF Screen!Render
  <2>2. cView' = [loading |-> Screen!LoadsOf(cRoute'.page) # << >>, error |-> FALSE, busy |-> FALSE,
                  rows |-> {}]
    BY <2>1 DEF Screen!Opening, Screen!Blank
  <2>3. cRoute'.page \in Screen!PageNames BY <1>3 DEF Screen!Outlet
  <2>4. Apart(Screen!LoadsOf(cRoute'.page)) BY <2>3, ListsApart
  <2>5. \A c \in cReads' : c.round \in 1 .. Len(Screen!Loads') /\ c.from \in Ids
          /\ c.selected \in Ids
    <3>1. Screen!Loads' = Screen!LoadsOf(cRoute'.page) BY DEF Screen!Loads
    <3>2. Screen!Starts' => Len(Screen!Loads') \in Nat /\ Len(Screen!Loads') >= 1
      BY <2>4, <3>1 DEF Screen!Starts, Apart
    <3>3. Screen!Load' = [round |-> 1, from |-> cStored', selected |-> cSelected']
      BY DEF Screen!Load, Screen!Round
    <3> QED BY <1>1, <2>1, <3>2, <3>3
  <2> QED BY <1>3, <2>2, <2>5 DEF ViewOK, Screen!OwnRowsOnly
<1>4. CASE Screen!Outlet' /\ Screen!Outlet /\ cRoute' = cRoute
  <2>1. /\ \/ cView' = [cView EXCEPT !.loading = TRUE, !.error = FALSE]
                /\ cReads' = cReads \cup {Screen!Load'}
           \/ UNCHANGED <<cView, cReads>>
    BY <1>4 DEF Screen!Render
  <2>2. Screen!Loads' = Screen!Loads BY <1>4 DEF Screen!Loads
  <2>3. cRoute.page \in Screen!PageNames /\ Apart(Screen!Loads)
    BY <1>4, ListsApart DEF Screen!Outlet, Screen!Loads
  <2>4. CASE UNCHANGED <<cView, cReads>>
    BY <1>4, <2>2, <2>4 DEF ViewOK, Screen!OwnRowsOnly
  <2>5. CASE cView' = [cView EXCEPT !.loading = TRUE, !.error = FALSE]
          /\ cReads' = cReads \cup {Screen!Load'}
    <3>1. cView' = [loading |-> TRUE, error |-> FALSE, busy |-> cView.busy, rows |-> cView.rows]
      BY <2>5 DEF ViewOK
    <3>2. Screen!Load' = [round |-> 1, from |-> cStored', selected |-> cSelected']
      BY DEF Screen!Load, Screen!Round
    <3>3. CASE Screen!Loads = << >>
      <4>1. ~(cRoute.page \in Screen!Follows)
        BY <1>4, <3>3 DEF Screen!Loads, Screen!Follows, Screen!LoadsOf, Screen!LedgerLoads,
           Screen!SandboxLoads, Screen!DocsLoads
      <4>2. UNCHANGED <<cView, cReads>> BY <1>4, <4>1 DEF Screen!Render
      <4> QED BY <2>4, <4>2
    <3>4. CASE Screen!Loads # << >>
      <4>1. 1 \in 1 .. Len(Screen!Loads) BY <2>3, <3>4 DEF Apart
      <4>2. \A c \in cReads' : c.round \in 1 .. Len(Screen!Loads') /\ c.from \in Ids
              /\ c.selected \in Ids
        BY <1>1, <2>2, <2>5, <3>2, <4>1 DEF ViewOK
      <4> QED BY <1>4, <2>2, <3>1, <4>2 DEF ViewOK, Screen!OwnRowsOnly
    <3> QED BY <3>3, <3>4
  <2> QED BY <2>1, <2>4, <2>5
<1> QED BY <1>2, <1>3, <1>4

\* What the other parts of the invariant need of the view.
LEMMA Rendered ==
  ASSUME Screen!ConstantsOK, ConsoleInv, FrameOK', Sessions', LayoutSpins', Known', Calm',
         Screen!Render,
         UNCHANGED cActed, cHurried => cHurried',
         Screen!Outlet /\ Screen!Outlet' /\ cRoute' = cRoute
           /\ Screen!Awaits("leave") => Screen!Awaits("leave")'
  PROVE  ConsoleInv'
<1>1. ViewOK' /\ Screen!OwnRowsOnly' BY RenderedView DEF ConsoleInv
<1>2. Screen!ActsOnItsPage' BY DEF ConsoleInv, Screen!ActsOnItsPage
<1>3. PageSpins'
  <2>1. CASE ~Screen!Outlet' BY <1>1, <2>1 DEF ViewOK, PageSpins, Screen!Blank
  <2>2. CASE Screen!Outlet' /\ (~Screen!Outlet \/ cRoute' # cRoute)
    <3>1. cView' = Screen!Opening(cRoute'.page)
            /\ cReads' = IF Screen!Starts' THEN {Screen!Load'} ELSE {}
      BY <2>2 DEF Screen!Render
    <3>2. cView'.loading = (Screen!LoadsOf(cRoute'.page) # << >>)
      BY <3>1 DEF Screen!Opening, Screen!Blank
    <3>3. cRoute'.project # Screen!NoProject
      BY <2>2 DEF Screen!Outlet, FrameOK, Outside, Screen!PageNames
    <3>4. Ready' BY <2>2, <3>3 DEF Screen!Outlet, Ready
    <3> QED BY <3>1, <3>2, <3>4 DEF PageSpins, Known, Screen!Starts
  <2>3. CASE Screen!Outlet' /\ Screen!Outlet /\ cRoute' = cRoute
    <3>1. \/ cReads' = cReads \cup {Screen!Load'}
          \/ UNCHANGED <<cView, cReads>>
      BY <2>3 DEF Screen!Render
    <3> QED BY <2>3, <3>1 DEF PageSpins, ConsoleInv
  <2> QED BY <2>1, <2>2, <2>3
<1> QED BY <1>1, <1>2, <1>3 DEF ConsoleInv

\* A page inside a project has it in its URL.
Sound(r) == r \in Routes /\ (r.project = Screen!NoProject <=> r.page \in Outside)

LEMMA Travelled ==
  ASSUME Screen!ConstantsOK, FrameOK, LayoutSpins, NEW r, Sound(r), Screen!Travel(r)
  PROVE  /\ cRoute' = r
         /\ cLayout' \in [pending : SUBSET ConsoleProjects, loading : BOOLEAN, error : BOOLEAN]
         /\ cLate' \subseteq ConsoleProjects
         /\ LayoutSpins'
         /\ r.project # Screen!NoProject => cLate' = cLate
              /\ cLayout'.pending \subseteq cLayout.pending \cup {r.project}
         /\ r.project # Screen!NoProject /\ ~cLayout'.loading /\ ~cLayout'.error =>
              r.project = cRoute.project /\ ~cLayout.loading /\ ~cLayout.error
<1>1. cRoute' = r BY DEF Screen!Travel
<1>2. /\ cLayout \in [pending : SUBSET ConsoleProjects, loading : BOOLEAN, error : BOOLEAN]
      /\ cLate \subseteq ConsoleProjects
  BY DEF FrameOK, Screen!TypeOK
<1>3. r.project \in Ids BY DEF Sound, Routes
<1>4. CASE ~Screen!InLayout(r)
  <2>1. cLayout' = [pending |-> {}, loading |-> FALSE, error |-> FALSE]
          /\ cLate' = cLate \cup cLayout.pending
    BY <1>4 DEF Screen!Travel, Screen!NewLayout
  <2>2. r.project = Screen!NoProject BY <1>4 DEF Screen!InLayout, Sound, Outside
  <2> QED BY <1>1, <1>2, <2>1, <2>2 DEF LayoutSpins
<1>5. CASE Screen!InLayout(r) /\ r.project = Screen!NoProject
  <2>1. cLayout' = [cLayout EXCEPT !.loading = FALSE] /\ cLate' = cLate BY <1>5 DEF Screen!Travel
  <2> QED BY <1>1, <1>2, <1>5, <2>1 DEF LayoutSpins
<1>6. CASE Screen!InLayout(r) /\ r.project # Screen!NoProject /\ r.project = cRoute.project
  <2>1. cLayout' = cLayout /\ cLate' = cLate BY <1>6 DEF Screen!Travel
  <2> QED BY <1>1, <1>2, <1>6, <2>1 DEF LayoutSpins
<1>7. CASE Screen!InLayout(r) /\ r.project # Screen!NoProject /\ r.project # cRoute.project
  <2>1. cLayout' = [pending |-> cLayout.pending \cup {r.project}, loading |-> TRUE, error |-> FALSE]
        /\ cLate' = cLate
    BY <1>7 DEF Screen!Travel
  <2>2. r.project \in ConsoleProjects BY <1>3, <1>7 DEF Ids
  <2> QED BY <1>1, <1>2, <1>7, <2>1, <2>2 DEF LayoutSpins
<1> QED BY <1>4, <1>5, <1>6, <1>7

LEMMA Moved ==
  ASSUME Screen!ConstantsOK, ConsoleInv, NEW r, Sound(r), NEW calls \in SUBSET cLists,
         Screen!Amid(calls, r), cLists' = calls,
         cSession = "in", UNCHANGED <<cServer, cSession, cEnv, cActed>>, cProjects'
           \subseteq ConsoleProjects,
         cStored' \in Ids /\ cSelected' \in Ids,
         r.project # Screen!NoProject =>
           \/ UNCHANGED <<cStored, cSelected>>
           \/ cStored' = r.project /\ cSelected' = r.project,
         r.project # Screen!NoProject /\ Screen!Awaits("leave") => Screen!Awaits("leave")',
         Screen!Render
  PROVE  ConsoleInv'
<1>1. Screen!Travel(r) /\ cHurried' = (cHurried \/ Screen!Unsettled(r.project, calls))
  BY DEF Screen!Amid
<1>2. /\ cRoute' = r
      /\ cLayout' \in [pending : SUBSET ConsoleProjects, loading : BOOLEAN, error : BOOLEAN]
      /\ cLate' \subseteq ConsoleProjects
      /\ LayoutSpins'
      /\ r.project # Screen!NoProject => cLate' = cLate
           /\ cLayout'.pending \subseteq cLayout.pending \cup {r.project}
      /\ r.project # Screen!NoProject /\ ~cLayout'.loading /\ ~cLayout'.error =>
           r.project = cRoute.project /\ ~cLayout.loading /\ ~cLayout.error
  BY <1>1, Travelled DEF ConsoleInv
<1>3. FrameOK'
  <2>1. Screen!TypeOK'
    BY <1>2 DEF ConsoleInv, FrameOK, Screen!TypeOK, Sound, Routes, Ids
  <2> QED BY <1>2, <2>1 DEF ConsoleInv, FrameOK, Sound, ListOK
<1>4. Sessions' BY DEF Sessions
<1>5. Known'
  <2> SUFFICES ASSUME Ready'
               PROVE Screen!Awaits("leave")' \/ (cSelected' # Screen!NoProject /\ cServer'.own # {})
    BY DEF Known
  <2>1. r.project # Screen!NoProject /\ Ready BY <1>2 DEF Ready
  <2> QED BY <2>1 DEF ConsoleInv, Known
<1>6. Calm'
  <2> SUFFICES ASSUME ~cHurried', r.project # Screen!NoProject
               PROVE  /\ cLayout'.pending \cup cLate' \subseteq {cRoute'.project}
                      /\ cLists' = {}
                      /\ ~cLayout'.loading /\ ~cLayout'.error =>
                           cStored' = cSelected' /\ cStored' \in {cRoute'.project, Screen!NoProject}
    BY <1>2 DEF Calm
  <2>1. ~cHurried /\ (cLayout.pending \cup cLate) \ {r.project} = {} /\ calls = {}
    BY <1>1 DEF Screen!Unsettled
  <2> QED BY <1>2, <2>1 DEF ConsoleInv, Calm
<1>7. cHurried => cHurried' BY <1>1
<1>8. Screen!Outlet' /\ Screen!Awaits("leave") => Screen!Awaits("leave")'
  BY <1>2 DEF Screen!Outlet, Sound, Outside, Screen!PageNames
<1> QED BY <1>2, <1>3, <1>4, <1>5, <1>6, <1>7, <1>8, Rendered

\* The user goes to another page, or to another project.
LEMMA SwitchProjectStep ==
  ASSUME Screen!ConstantsOK, ConsoleInv, NEW p \in ConsoleProjects,
         Screen!SwitchProject(p) \/ Screen!SelectProject(p)
  PROVE  ConsoleInv'
<1>1. p # Screen!NoProject BY ScreenLibrary DEF Screen!ConstantsOK
<1>2. Sound(Screen!OverviewOf(p)) /\ Screen!OverviewOf(p).project = p
  BY <1>1 DEF Sound, Screen!OverviewOf, Screen!At, Routes, Screen!PageNames, Outside, Ids
<1>3. /\ Screen!Amid(cLists, Screen!OverviewOf(p)) /\ cLists' = cLists /\ cSession = "in"
           /\ Screen!Render
      /\ UNCHANGED <<cServer, cSession, cEnv, cActed, cProjects>>
      /\ UNCHANGED <<cStored, cSelected>> \/ (cStored' = p /\ cSelected' = p)
  BY DEF Screen!SwitchProject, Screen!SelectProject, Screen!Go, Screen!SetSelected
<1>4. Screen!Awaits("leave") => Screen!Awaits("leave")' BY <1>3 DEF Screen!Awaits
<1> QED BY <1>2, <1>3, <1>4, Moved DEF ConsoleInv, FrameOK, Screen!TypeOK, Ids

LEMMA VisitStep ==
  ASSUME Screen!ConstantsOK, ConsoleInv,
         NEW page \in (ConsoleTour \ Screen!Details) \cup {"projects"}, Screen!Visit(page)
  PROVE  ConsoleInv'
<1>1. PICK r : Sound(r) /\ Screen!Amid(cLists, r)
  <2>1. CASE page = "projects"
    <3>1. Sound(Screen!ProjectsPage)
      BY DEF Sound, Screen!ProjectsPage, Screen!At, Routes, Outside, Ids
    <3> QED BY <2>1, <3>1 DEF Screen!Visit, Screen!Go
  <2>2. CASE page # "projects"
    <3>1. page \in Screen!PageNames /\ page \notin Outside
      BY <2>2, ScreenLibrary DEF Screen!ConstantsOK, Screen!PageNames, Outside
    <3>2. Sound(Screen!At(page, cRoute.project, Screen!NoProject))
      BY <2>2, <3>1 DEF Sound, Screen!At, Routes, Ids, Screen!Visit, ConsoleInv, FrameOK,
         Screen!TypeOK
    <3> QED BY <2>2, <3>2 DEF Screen!Visit, Screen!Go
  <2> QED BY <2>1, <2>2
<1>2. /\ cLists' = cLists /\ cSession = "in" /\ Screen!Render
      /\ UNCHANGED <<cServer, cSession, cStored, cSelected, cProjects, cEnv, cActed>>
  BY DEF Screen!Visit
<1>3. Screen!Awaits("leave") => Screen!Awaits("leave")' BY <1>2 DEF Screen!Awaits
<1> QED BY <1>1, <1>2, <1>3, Moved DEF ConsoleInv, FrameOK, Screen!TypeOK, Ids

LEMMA FinishStep ==
  ASSUME Screen!ConstantsOK, ConsoleInv, Screen!FinishOnboarding
  PROVE  ConsoleInv'
<1>1. PICK r : r = Screen!At("quickstart", cRoute.about, Screen!NoProject) OBVIOUS
<1>2. Sound(r) /\ Screen!Amid(cLists, r)
  BY <1>1 DEF Sound, Screen!At, Routes, Ids, Screen!FinishOnboarding, ConsoleInv, FrameOK,
     Screen!TypeOK, Screen!Go,
              Screen!PageNames, Outside
<1>3. /\ cLists' = cLists /\ cSession = "in" /\ Screen!Render
      /\ UNCHANGED <<cServer, cSession, cStored, cSelected, cProjects, cEnv, cActed>>
  BY DEF Screen!FinishOnboarding
<1>4. Screen!Awaits("leave") => Screen!Awaits("leave")' BY <1>3 DEF Screen!Awaits
<1> QED BY <1>2, <1>3, <1>4, Moved DEF ConsoleInv, FrameOK, Screen!TypeOK, Ids

LEMMA OpenStep ==
  ASSUME Screen!ConstantsOK, ConsoleInv, NEW page \in ConsoleTour \cap Screen!Details,
         NEW x \in cView.rows,
         Screen!Open(page, x)
  PROVE  ConsoleInv'
<1>1. PICK r : r = Screen!At(page, cRoute.project, x[2]) OBVIOUS
<1>2. x[2] \in Ids BY DEF ConsoleInv, ViewOK
<1>3. cRoute.page \in Screen!PageNames /\ cRoute.project \in ConsoleProjects /\ cSession = "in"
  BY DEF Screen!Open, Screen!Offers, Screen!Outlet, ConsoleInv, FrameOK, Screen!TypeOK, Ids,
     Outside, Screen!PageNames
<1>4. page \in Screen!PageNames /\ page \notin Outside
  BY ScreenLibrary DEF Screen!ConstantsOK, Screen!PageNames, Outside
<1>5. Sound(r) /\ Screen!Amid(cLists, r)
  BY <1>1, <1>2, <1>3, <1>4, ScreenLibrary DEF Sound, Screen!At, Routes, Ids, Screen!Open,
     Screen!Go, Screen!ConstantsOK
<1>6. /\ cLists' = cLists /\ Screen!Render
      /\ UNCHANGED <<cServer, cSession, cStored, cSelected, cProjects, cEnv, cActed>>
  BY DEF Screen!Open
<1>7. Screen!Awaits("leave") => Screen!Awaits("leave")' BY <1>6 DEF Screen!Awaits
<1> QED BY <1>3, <1>5, <1>6, <1>7, Moved DEF ConsoleInv, FrameOK, Screen!TypeOK, Ids

\* The session ends, here or by the server's word.
LEMMA ClearedStep ==
  ASSUME Screen!ConstantsOK, ConsoleInv, Screen!InitAuthFails \/ Screen!Logout \/ Screen!Expired
  PROVE  ConsoleInv'
<1>1. /\ cSession' = "out" /\ cStored' = Screen!NoProject /\ cSelected' = Screen!NoProject
           /\ cProjects' = {}
      /\ cEnv' \in {cEnv, "test"} /\ UNCHANGED <<cServer, cActed, cHurried>> /\ Screen!Render
      /\ cLists' \subseteq cLists
  BY DEF Screen!InitAuthFails, Screen!Logout, Screen!Expired, Screen!ClearSession,
     Screen!SetSelected
<1>2. /\ Sound(Screen!LoginPage) /\ Screen!LoginPage.project = Screen!NoProject
  BY DEF Sound, Screen!LoginPage, Screen!At, Routes, Outside, Ids
<1>3. /\ cRoute' = Screen!LoginPage /\ LayoutSpins'
      /\ cLayout' \in [pending : SUBSET ConsoleProjects, loading : BOOLEAN, error : BOOLEAN]
      /\ cLate' \subseteq ConsoleProjects
  <2>1. CASE Screen!Travel(Screen!LoginPage)
    BY <1>2, <2>1, Travelled DEF ConsoleInv
  <2>2. CASE Screen!Expired
    BY <2>2 DEF Screen!Expired, Screen!NewLayout, LayoutSpins
  <2> QED BY <2>1, <2>2 DEF Screen!InitAuthFails, Screen!Logout, Screen!ClearSession
<1>4. FrameOK'
  <2>1. Screen!TypeOK'
    BY <1>1, <1>2, <1>3 DEF ConsoleInv, FrameOK, Screen!TypeOK, Ids, Screen!LoginPage, Screen!At
  <2> QED BY <1>1, <1>2, <1>3, <2>1 DEF ConsoleInv, FrameOK, Sound, ListOK
<1>5. Sessions' /\ Known' /\ Calm'
  BY <1>1, <1>2, <1>3 DEF Sessions, Known, Ready, Calm
<1>6. ~Screen!Outlet' BY <1>1 DEF Screen!Outlet
<1> QED BY <1>1, <1>3, <1>4, <1>5, <1>6, Rendered

\* The user logs in; the list of the projects opens the session.
LEMMA LoginStep ==
  ASSUME Screen!ConstantsOK, ConsoleInv, Screen!Login
  PROVE  ConsoleInv'
<1>1. /\ cSession' = "login" /\ Screen!Travel(Screen!OnboardingPage) /\ Screen!Render
      /\ UNCHANGED <<cServer, cStored, cSelected, cProjects, cEnv, cLists, cActed, cHurried>>
  BY DEF Screen!Login
<1>2. Sound(Screen!OnboardingPage) /\ Screen!OnboardingPage.project = Screen!NoProject
  BY DEF Sound, Screen!OnboardingPage, Screen!At, Routes, Outside, Ids
<1>3. /\ cRoute' = Screen!OnboardingPage /\ LayoutSpins'
      /\ cLayout' \in [pending : SUBSET ConsoleProjects, loading : BOOLEAN, error : BOOLEAN]
      /\ cLate' \subseteq ConsoleProjects
  BY <1>1, <1>2, Travelled DEF ConsoleInv
<1>4. FrameOK'
  <2>1. Screen!TypeOK'
    BY <1>1, <1>2, <1>3 DEF ConsoleInv, FrameOK, Screen!TypeOK, Ids, Screen!OnboardingPage,
       Screen!At
  <2> QED BY <1>1, <1>2, <1>3, <2>1 DEF ConsoleInv, FrameOK, Sound, ListOK
<1>5. Sessions' /\ Known' /\ Calm'
  BY <1>1, <1>2, <1>3 DEF Sessions, Known, Ready, Calm
<1>6. ~Screen!Outlet' BY <1>1 DEF Screen!Outlet
<1> QED BY <1>1, <1>3, <1>4, <1>5, <1>6, Rendered

LEMMA LoginProjectsStep ==
  ASSUME Screen!ConstantsOK, ConsoleInv, Screen!LoginProjectsAnswered
  PROVE  ConsoleInv'
<1>1. /\ cSession = "login" /\ cSession' = "in" /\ Screen!Render
      /\ UNCHANGED <<cServer, cEnv, cRoute, cLayout, cLate, cActed, cHurried>>
      /\ cLists' = cLists \cup {[then |-> "check", project |-> Screen!NoProject, list |-> cServer.own]}
  BY DEF Screen!LoginProjectsAnswered, Screen!Ask, Screen!ListCall
<1>2. cServer.own \subseteq ConsoleProjects /\ cRoute.project = Screen!NoProject
  BY <1>1 DEF ConsoleInv, FrameOK, Screen!TypeOK, Sessions
<1>3. cProjects' \subseteq ConsoleProjects /\ cStored' \in Ids /\ cSelected' \in Ids
  <2>1. CASE cServer.own = {}
    BY <1>2, <2>1 DEF ConsoleInv, FrameOK, Screen!TypeOK, Ids, Screen!LoginProjectsAnswered
  <2>2. CASE cServer.own # {}
    <3>1. Screen!Newest(cServer.own) \in ConsoleProjects BY <1>2, <2>2, NewestIn
    <3> QED BY <1>2, <2>2, <3>1
          DEF ConsoleInv, FrameOK, Screen!TypeOK, Ids, Screen!LoginProjectsAnswered,
            Screen!SetSelected
  <2> QED BY <2>1, <2>2
<1>4. FrameOK'
  <2>1. Screen!TypeOK' BY <1>1, <1>3 DEF ConsoleInv, FrameOK, Screen!TypeOK, Ids
  <2>2. \A c \in cLists' : ListOK(c)' BY <1>1, <1>2 DEF ConsoleInv, FrameOK, ListOK, Ids
  <2> QED BY <1>1, <2>1, <2>2 DEF ConsoleInv, FrameOK
<1>5. Sessions' /\ Known' /\ Calm'
  BY <1>1, <1>2 DEF Sessions, Known, Ready, Calm
<1>6. LayoutSpins' BY <1>1 DEF ConsoleInv, LayoutSpins
<1>7. ~Screen!Outlet'
  BY <1>1, <1>2 DEF Screen!Outlet, ConsoleInv, FrameOK, Outside, Screen!PageNames
<1> QED BY <1>1, <1>4, <1>5, <1>6, <1>7, Rendered

\* A tab that was opened or loaded anew finds out who its user is.
LEMMA InitAuthStep ==
  ASSUME Screen!ConstantsOK, ConsoleInv, Screen!InitAuthAnswered
  PROVE  ConsoleInv'
<1>1. /\ cSession = "me" /\ cSession' = "boot"
      /\ UNCHANGED <<cServer, cStored, cSelected, cProjects, cEnv, cRoute, cLayout, cLate, cLists,
           cView,
                     cReads, cActed, cHurried>>
  BY DEF Screen!InitAuthAnswered
<1>2. ~Screen!Outlet /\ ~Screen!Outlet' BY <1>1 DEF Screen!Outlet
<1>3. FrameOK' BY <1>1 DEF ConsoleInv, FrameOK, Screen!TypeOK, ListOK
<1>4. ViewOK' BY <1>1, <1>2 DEF ConsoleInv, ViewOK, Screen!Loads
<1>5. Sessions' /\ LayoutSpins' BY <1>1 DEF ConsoleInv, Sessions, LayoutSpins
<1>6. Known' /\ Calm' BY <1>1 DEF Known, Ready, Calm
<1>7. PageSpins' BY <1>1 DEF ConsoleInv, PageSpins, Screen!Awaits
<1>8. Screen!ActsOnItsPage' /\ Screen!OwnRowsOnly'
  BY <1>1, <1>2 DEF ConsoleInv, Screen!ActsOnItsPage, Screen!OwnRowsOnly
<1> QED BY <1>3, <1>4, <1>5, <1>6, <1>7, <1>8 DEF ConsoleInv

LEMMA InitProjectsStep ==
  ASSUME Screen!ConstantsOK, ConsoleInv, Screen!InitProjectsAnswered
  PROVE  ConsoleInv'
<1>1. /\ cSession = "boot" /\ cSession' = "in" /\ Screen!Render /\ cProjects' = cServer.own
      /\ UNCHANGED <<cServer, cEnv, cRoute, cLate, cLists, cActed, cHurried>>
      /\ cLayout' = IF cRoute.project = Screen!NoProject THEN Screen!NewLayout
                    ELSE [pending |-> {cRoute.project}, loading |-> TRUE, error |-> FALSE]
  BY DEF Screen!InitProjectsAnswered
<1>2. /\ cServer.own \subseteq ConsoleProjects /\ cLists = {} /\ cLate = {}
           /\ cRoute.project \in Ids
      /\ cStored \in Ids /\ cSelected \in Ids
  BY <1>1 DEF ConsoleInv, FrameOK, Screen!TypeOK, Sessions, Ids
<1>3. cStored' \in Ids /\ cSelected' \in Ids
  <2>1. CASE cServer.own = {}
    BY <1>2, <2>1 DEF Screen!InitProjectsAnswered
  <2>2. CASE cServer.own # {}
    <3>1. Screen!Newest(cServer.own) \in cServer.own BY <1>2, <2>2, NewestIn
    <3>2. Screen!Chosen(cServer.own) \in Ids BY <1>2, <3>1 DEF Screen!Chosen, Ids
    <3> QED BY <2>2, <3>2 DEF Screen!InitProjectsAnswered, Screen!SetSelected
  <2> QED BY <2>1, <2>2
<1>4. FrameOK'
  <2>1. Screen!TypeOK'
    BY <1>1, <1>2, <1>3 DEF ConsoleInv, FrameOK, Screen!TypeOK, Ids, Screen!NewLayout
  <2> QED BY <1>1, <1>2, <2>1 DEF ConsoleInv, FrameOK, ListOK
<1>5. Sessions' /\ LayoutSpins' /\ Known' /\ Calm'
  BY <1>1, <1>2 DEF Sessions, LayoutSpins, Screen!NewLayout, Known, Ready, Calm
<1>6. ~Screen!Outlet'
  BY <1>1, <1>2 DEF Screen!Outlet, ConsoleInv, FrameOK, Outside, Screen!PageNames
<1> QED BY <1>1, <1>4, <1>5, <1>6, Rendered

LEMMA EnvironmentStep ==
  ASSUME Screen!ConstantsOK, ConsoleInv, NEW e \in {"test", "live"}, Screen!SetEnvironment(e)
  PROVE  ConsoleInv'
<1>1. /\ cEnv' = e /\ Screen!Render
      /\ UNCHANGED <<cServer, cSession, cStored, cSelected, cProjects, cRoute, cLayout, cLate,
           cLists,
                     cActed, cHurried>>
  BY DEF Screen!SetEnvironment
<1>2. FrameOK' BY <1>1 DEF ConsoleInv, FrameOK, Screen!TypeOK, ListOK
<1>3. Sessions' /\ LayoutSpins' /\ Known' /\ Calm'
  BY <1>1 DEF ConsoleInv, Sessions, LayoutSpins, Known, Ready, Calm, Screen!Awaits
<1>4. Screen!Awaits("leave") => Screen!Awaits("leave")' BY <1>1 DEF Screen!Awaits
<1> QED BY <1>1, <1>2, <1>3, <1>4, Rendered

\* The layout's lookup of the project of the URL is answered, or fails.
LEMMA DetailsStep ==
  ASSUME Screen!ConstantsOK, ConsoleInv, NEW p \in ConsoleProjects, Screen!DetailsAnswered(p)
  PROVE  ConsoleInv'
<1>1. /\ p \in cLayout.pending \cup cLate /\ p \in cServer.own /\ cStored' = p /\ cSelected' = p
      /\ cEnv' \in {"live", "test"} /\ Screen!Render
      /\ UNCHANGED <<cServer, cSession, cProjects, cRoute, cLists, cActed, cHurried>>
  BY DEF Screen!DetailsAnswered, Screen!Remembered, Screen!SetSelected
<1>2. /\ cLayout \in [pending : SUBSET ConsoleProjects, loading : BOOLEAN, error : BOOLEAN]
      /\ cLate \subseteq ConsoleProjects /\ p # Screen!NoProject
           /\ cServer.own \subseteq ConsoleProjects
  BY ScreenLibrary DEF ConsoleInv, FrameOK, Screen!TypeOK, Screen!ConstantsOK
<1>3. \/ cLayout' = [pending |-> cLayout.pending \ {p}, loading |-> FALSE, error |-> cLayout.error]
           /\ cLate' = cLate
      \/ cLayout' = cLayout /\ cLate' = cLate \ {p}
  BY <1>2 DEF Screen!DetailsAnswered
<1>4. FrameOK'
  <2>1. /\ cLayout' \in [pending : SUBSET ConsoleProjects, loading : BOOLEAN, error : BOOLEAN]
        /\ cLate' \subseteq ConsoleProjects
    <3>1. PICK rest \in SUBSET ConsoleProjects : rest = cLayout.pending \ {p} BY <1>2
    <3>2. cLayout.error \in BOOLEAN BY <1>2
    <3>3. CASE /\ cLayout' = [pending |-> rest, loading |-> FALSE, error |-> cLayout.error]
               /\ cLate' = cLate
      BY <1>2, <3>2, <3>3
    <3>4. CASE cLayout' = cLayout /\ cLate' = cLate \ {p} BY <1>2, <3>4
    <3> QED BY <1>3, <3>1, <3>3, <3>4
  <2>2. Screen!TypeOK' BY <1>1, <2>1 DEF ConsoleInv, FrameOK, Screen!TypeOK
  <2> QED BY <1>1, <2>2 DEF ConsoleInv, FrameOK, ListOK
<1>5. Sessions' BY <1>1 DEF ConsoleInv, Sessions, Screen!NewLayout
<1>6. LayoutSpins' BY <1>3 DEF ConsoleInv, LayoutSpins
<1>7. Known' BY <1>1, <1>2 DEF Known
<1>8. Calm' BY <1>1, <1>2, <1>3 DEF ConsoleInv, Calm
<1>9. Screen!Awaits("leave") => Screen!Awaits("leave")' BY <1>1 DEF Screen!Awaits
<1> QED BY <1>1, <1>4, <1>5, <1>6, <1>7, <1>8, <1>9, Rendered

LEMMA DetailsFailStep ==
  ASSUME Screen!ConstantsOK, ConsoleInv, NEW p \in ConsoleProjects, Screen!DetailsFail(p)
  PROVE  ConsoleInv'
<1>1. /\ p \in cLayout.pending \cup cLate /\ Screen!Render
      /\ UNCHANGED <<cServer, cSession, cStored, cSelected, cProjects, cEnv, cRoute, cLists, cActed,
                     cHurried>>
  BY DEF Screen!DetailsFail
<1>2. /\ cLayout \in [pending : SUBSET ConsoleProjects, loading : BOOLEAN, error : BOOLEAN]
      /\ cLate \subseteq ConsoleProjects
  BY DEF ConsoleInv, FrameOK, Screen!TypeOK
<1>3. \/ cLayout' = [pending |-> cLayout.pending \ {p}, loading |-> FALSE, error |-> TRUE]
           /\ cLate' = cLate
      \/ cLayout' = cLayout /\ cLate' = cLate \ {p}
  BY DEF Screen!DetailsFail
<1>4. FrameOK'
  <2>1. /\ cLayout' \in [pending : SUBSET ConsoleProjects, loading : BOOLEAN, error : BOOLEAN]
        /\ cLate' \subseteq ConsoleProjects
    <3>1. PICK rest \in SUBSET ConsoleProjects : rest = cLayout.pending \ {p} BY <1>2
    <3>2. CASE cLayout' = [pending |-> rest, loading |-> FALSE, error |-> TRUE] /\ cLate' = cLate
      BY <1>2, <3>2
    <3>3. CASE cLayout' = cLayout /\ cLate' = cLate \ {p} BY <1>2, <3>3
    <3> QED BY <1>3, <3>1, <3>2, <3>3
  <2>2. Screen!TypeOK' BY <1>1, <2>1 DEF ConsoleInv, FrameOK, Screen!TypeOK
  <2> QED BY <1>1, <2>2 DEF ConsoleInv, FrameOK, ListOK
<1>5. Sessions' BY <1>1 DEF ConsoleInv, Sessions, Screen!NewLayout
<1>6. LayoutSpins' BY <1>3 DEF ConsoleInv, LayoutSpins
<1>7. Screen!Awaits("leave") => Screen!Awaits("leave")' BY <1>1 DEF Screen!Awaits
<1>8. Known' BY <1>1, <1>3, <1>7 DEF ConsoleInv, Known, Ready
<1>9. Calm' BY <1>1, <1>2, <1>3 DEF ConsoleInv, Calm
<1> QED BY <1>1, <1>4, <1>5, <1>6, <1>7, <1>8, <1>9, Rendered

\* What happens with the page as it is.
LEMMA PageStays ==
  ASSUME ConsoleInv, UNCHANGED <<cView, cReads>>, Screen!Outlet' = Screen!Outlet,
         Screen!Outlet => cRoute' = cRoute,
         Screen!Awaits("leave") => Screen!Awaits("leave")'
  PROVE  ViewOK' /\ PageSpins' /\ Screen!OwnRowsOnly'
<1>1. Screen!Outlet => Screen!Loads' = Screen!Loads BY DEF Screen!Loads
<1>2. ~Screen!Outlet => cView = Screen!Blank /\ cReads = {} BY DEF ConsoleInv, ViewOK
<1>3. ViewOK' BY <1>1, <1>2 DEF ConsoleInv, ViewOK, Screen!Blank
<1>4. PageSpins' BY DEF ConsoleInv, PageSpins
<1>5. Screen!OwnRowsOnly' BY <1>1 DEF ConsoleInv, Screen!OwnRowsOnly
<1> QED BY <1>3, <1>4, <1>5

LEMMA OtherTabStep ==
  ASSUME Screen!ConstantsOK, ConsoleInv, NEW p \in ConsoleProjects, Screen!OtherTab(p)
  PROVE  ConsoleInv'
<1>1. /\ cStored' = p /\ cHurried'
      /\ UNCHANGED <<cServer, cSession, cSelected, cProjects, cEnv, cRoute, cLayout, cLate,
           cLists, cView,
                     cReads, cActed>>
  BY DEF Screen!OtherTab
<1>2. FrameOK' BY <1>1 DEF ConsoleInv, FrameOK, Screen!TypeOK, ListOK
<1>3. Sessions' /\ LayoutSpins' /\ Known' /\ Calm'
  BY <1>1 DEF ConsoleInv, Sessions, LayoutSpins, Known, Ready, Calm, Screen!Awaits
<1>4. (Screen!Awaits("leave") => Screen!Awaits("leave")') /\ Screen!Outlet' = Screen!Outlet
  BY <1>1 DEF Screen!Awaits, Screen!Outlet
<1>5. Screen!ActsOnItsPage' BY <1>1 DEF Screen!ActsOnItsPage
<1> QED BY <1>1, <1>2, <1>3, <1>4, <1>5, PageStays DEF ConsoleInv

\* Projects are created outside any project, and deleted from their own settings.
LEMMA CreateProjectStep ==
  ASSUME Screen!ConstantsOK, ConsoleInv, NEW p \in ConsoleProjects, Screen!CreateProject(p)
  PROVE  ConsoleInv'
<1>1. /\ cSession = "in" /\ cRoute \in {Screen!ProjectsPage, Screen!OnboardingPage}
      /\ UNCHANGED <<cSession, cStored, cSelected, cProjects, cEnv, cLayout, cLate, cView, cReads,
           cActed,
                     cHurried>>
      /\ cServer' = [own |-> cServer.own \cup {p}, unused |-> cServer.unused \ {p}]
  BY ScreenLibrary DEF Screen!CreateProject
<1>2. PICK t \in {"open", "keep"} :
        cLists' = cLists \cup {[then |-> t, project |-> p, list |-> cServer'.own]}
  BY ScreenLibrary DEF Screen!CreateProject
<1>3. cRoute' \in Routes /\ cRoute'.page = cRoute.page /\ cRoute'.project = cRoute.project
  <2>1. cRoute' = cRoute \/ cRoute' = [cRoute EXCEPT !.about = p]
    BY ScreenLibrary DEF Screen!CreateProject
  <2> QED BY <2>1 DEF ConsoleInv, FrameOK, Routes, Ids
<1>4. cServer' \in [own : SUBSET ConsoleProjects, unused : SUBSET ConsoleProjects]
  BY <1>1 DEF ConsoleInv, FrameOK, Screen!TypeOK
<1>5. cRoute.page \notin Screen!PageNames /\ cRoute.project = Screen!NoProject
  BY <1>1 DEF Screen!ProjectsPage, Screen!OnboardingPage, Screen!At, Screen!PageNames
<1>6. FrameOK'
  <2>1. Screen!TypeOK' BY <1>1, <1>3, <1>4 DEF ConsoleInv, FrameOK, Screen!TypeOK, Routes, Ids
  <2>2. p # Screen!NoProject BY ScreenLibrary DEF Screen!ConstantsOK
  <2>3. \A c \in cLists' : ListOK(c)'
    BY <1>2, <1>4, <2>2 DEF ConsoleInv, FrameOK, ListOK, Ids
  <2> QED BY <1>3, <2>1, <2>3 DEF ConsoleInv, FrameOK
<1>7. Sessions' /\ LayoutSpins' /\ Known' /\ Calm'
  BY <1>1, <1>3, <1>5 DEF ConsoleInv, Sessions, LayoutSpins, Known, Ready, Calm
<1>8. ~Screen!Outlet /\ ~Screen!Outlet' /\ Screen!Outlet' = Screen!Outlet
  BY <1>3, <1>5 DEF Screen!Outlet
<1>9. Screen!Awaits("leave") => Screen!Awaits("leave")' BY <1>2 DEF Screen!Awaits
<1>10. Screen!ActsOnItsPage' BY <1>1 DEF ConsoleInv, Screen!ActsOnItsPage
<1> QED BY <1>1, <1>6, <1>7, <1>8, <1>9, <1>10, PageStays DEF ConsoleInv

LEMMA DeleteProjectStep ==
  ASSUME Screen!ConstantsOK, ConsoleInv, Screen!DeleteProject
  PROVE  ConsoleInv'
<1>1. /\ UNCHANGED <<cSession, cProjects, cEnv, cRoute, cLayout, cLate, cView, cReads>>
      /\ cServer' = [cServer EXCEPT !.own = @ \ {cSelected}]
      /\ cStored' = Screen!NoProject /\ cSelected' = Screen!NoProject /\ cSelected \in cServer.own
      /\ cLists' = cLists \cup {[then |-> "leave", project |-> Screen!NoProject, list |-> cServer'.own]}
      /\ cActed' = IF cSelected = cRoute.project THEN "page" ELSE "other"
      /\ cHurried' = (cHurried \/ Screen!Unsettled(cRoute.project, cLists))
      /\ Screen!Outlet
  BY ScreenLibrary DEF Screen!DeleteProject, Screen!SetSelected, Screen!ActOn, Screen!Offers
<1>2. cServer' \in [own : SUBSET ConsoleProjects, unused : SUBSET ConsoleProjects]
  BY <1>1 DEF ConsoleInv, FrameOK, Screen!TypeOK
<1>3. FrameOK'
  <2>1. Screen!TypeOK' BY <1>1, <1>2 DEF ConsoleInv, FrameOK, Screen!TypeOK
  <2>2. \A c \in cLists' : ListOK(c)' BY <1>1, <1>2 DEF ConsoleInv, FrameOK, ListOK, Ids
  <2> QED BY <1>1, <2>1, <2>2 DEF ConsoleInv, FrameOK
<1>4. Screen!Awaits("leave")'
  <2>1. PICK c : c = [then |-> "leave", project |-> Screen!NoProject, list |-> cServer'.own] OBVIOUS
  <2>2. c \in cLists' /\ c.then = "leave" BY <1>1, <2>1
  <2> QED BY <2>2 DEF Screen!Awaits
<1>5. cSession = "in" /\ ~cLayout.loading /\ ~cLayout.error /\ cRoute.project # Screen!NoProject
  BY <1>1 DEF Screen!Outlet, ConsoleInv, FrameOK, Outside, Screen!PageNames
<1>6. Sessions' /\ LayoutSpins' /\ Known'
  BY <1>1, <1>4, <1>5 DEF ConsoleInv, Sessions, LayoutSpins, Known
<1>7. Calm'
  <2> SUFFICES ASSUME ~cHurried' PROVE Calm' BY DEF Calm
  <2>1. ~cHurried /\ cLists = {} BY <1>1 DEF Screen!Unsettled
  <2> QED BY <1>1, <1>5, <2>1 DEF ConsoleInv, Calm
<1>8. Screen!ActsOnItsPage'
  <2> SUFFICES ASSUME ~cHurried' PROVE cSelected = cRoute.project BY <1>1 DEF Screen!ActsOnItsPage
  <2>1. ~cHurried BY <1>1
  <2>2. cSelected # Screen!NoProject
    BY <1>1, ScreenLibrary DEF ConsoleInv, FrameOK, Screen!TypeOK, Screen!ConstantsOK
  <2> QED BY <1>5, <2>1, <2>2 DEF ConsoleInv, Calm
<1>9. Screen!Outlet' = Screen!Outlet BY <1>1 DEF Screen!Outlet
<1> QED BY <1>1, <1>3, <1>4, <1>6, <1>7, <1>8, <1>9, PageStays DEF ConsoleInv

\* A list of projects is answered, or could not be had.
LEMMA ListsShrink ==
  ASSUME ConsoleInv, NEW c \in cLists, cLists' = cLists \ {c}
  PROVE  /\ ListOK(c)
         /\ \A d \in cLists' : ListOK(d)'
         /\ c.then # "leave" /\ Screen!Awaits("leave") => Screen!Awaits("leave")'
         /\ cSession \notin {"me", "boot"}
<1>1. ListOK(c) /\ \A d \in cLists' : ListOK(d)' BY DEF ConsoleInv, FrameOK, ListOK
<1>2. ASSUME c.then # "leave", Screen!Awaits("leave") PROVE Screen!Awaits("leave")'
  <2>1. PICK d \in cLists : d.then = "leave" BY <1>2 DEF Screen!Awaits
  <2>2. d \in cLists' BY <1>2, <2>1
  <2> QED BY <2>1, <2>2 DEF Screen!Awaits
<1> QED BY <1>1, <1>2 DEF ConsoleInv, Sessions

\* The page stays, whatever the list made of the header.
LEMMA ListStays ==
  ASSUME Screen!ConstantsOK, ConsoleInv, NEW c \in cLists, cLists' = cLists \ {c},
         cSession = "in" => c.then # "leave",
         UNCHANGED <<cServer, cSession, cEnv, cActed, cRoute, cLayout, cLate, cHurried>>,
         cProjects' \subseteq ConsoleProjects, cStored' \in Ids, cSelected' \in Ids,
         cSession = "in" =>
           \/ UNCHANGED <<cStored, cSelected>>
           \/ c.then = "keep" /\ cStored' = c.project /\ cSelected' = c.project
           \/ /\ c.then = "stay" /\ cServer.own # {} => cStored' # Screen!NoProject
              /\ c.then = "stay" /\ cStored \in c.list \cap cServer.own => cStored' = cStored
              /\ c.then = "stay" /\ cSelected' = cStored',
         Screen!Render
  PROVE  ConsoleInv'
<1>1. /\ ListOK(c) /\ \A d \in cLists' : ListOK(d)'
      /\ c.then # "leave" /\ Screen!Awaits("leave") => Screen!Awaits("leave")'
      /\ cSession \notin {"me", "boot"}
  BY ListsShrink
<1>2. FrameOK'
  <2>1. Screen!TypeOK' BY DEF ConsoleInv, FrameOK, Screen!TypeOK, Ids
  <2> QED BY <1>1, <2>1 DEF ConsoleInv, FrameOK
<1>3. Sessions' /\ LayoutSpins' BY <1>1 DEF ConsoleInv, Sessions, LayoutSpins
<1>4. Known'
  <2> SUFFICES ASSUME Ready'
               PROVE Screen!Awaits("leave")' \/ (cSelected' # Screen!NoProject /\ cServer'.own # {})
    BY DEF Known
  <2>1. Ready BY DEF Ready
  <2>2. CASE Screen!Awaits("leave") BY <1>1, <2>1, <2>2 DEF Ready
  <2>3. CASE cSelected # Screen!NoProject /\ cServer.own # {} BY <1>1, <2>1, <2>3 DEF Ready, ListOK
  <2> QED BY <2>1, <2>2, <2>3 DEF ConsoleInv, Known
<1>5. Calm'
  <2> SUFFICES ASSUME ~cHurried', cSession' = "in", cRoute'.project # Screen!NoProject
               PROVE  /\ cLayout'.pending \cup cLate' \subseteq {cRoute'.project}
                      /\ \A d \in cLists' : d.then \in {"stay", "leave"}
                      /\ \A d \in cLists' : d.then = "stay" =>
                           cStored' = cRoute'.project
                             /\ cRoute'.project \in d.list \cap cServer'.own
                      /\ ~cLayout'.loading /\ ~cLayout'.error =>
                           cStored' = cSelected' /\ cStored' \in {cRoute'.project, Screen!NoProject}
    BY DEF Calm
  <2>1. /\ cLayout.pending \cup cLate \subseteq {cRoute.project}
        /\ \A d \in cLists : d.then \in {"stay", "leave"}
        /\ \A d \in cLists : d.then = "stay" =>
             cStored = cRoute.project /\ cRoute.project \in d.list \cap cServer.own
        /\ ~cLayout.loading /\ ~cLayout.error =>
             cStored = cSelected /\ cStored \in {cRoute.project, Screen!NoProject}
    BY DEF ConsoleInv, Calm
  <2>2. c.then = "stay" BY <2>1
  <2>3. UNCHANGED <<cStored, cSelected>> \/ (cStored' = cStored /\ cSelected' = cStored)
    BY <2>1, <2>2
  <2> QED BY <2>1, <2>2, <2>3
<1>6. cSession = "in" /\ Screen!Awaits("leave") => Screen!Awaits("leave")' BY <1>1
<1> QED BY <1>2, <1>3, <1>4, <1>5, <1>6, Rendered DEF Screen!Outlet

LEMMA ListAnsweredStep ==
  ASSUME Screen!ConstantsOK, ConsoleInv, NEW c \in cLists, NEW list \in {c.list, cServer.own},
         Screen!ListAnswered(c, list)
  PROVE  ConsoleInv'
<1>1. /\ cLists' = cLists \ {c} /\ Screen!Render /\ UNCHANGED <<cServer, cSession, cEnv, cActed>>
  BY DEF Screen!ListAnswered
<1>2. /\ ListOK(c)
      /\ c.then # "leave" /\ Screen!Awaits("leave") => Screen!Awaits("leave")'
  BY <1>1, ListsShrink
<1>3. /\ c.project \in Ids /\ list \in SUBSET ConsoleProjects
           /\ Screen!NoProject \notin ConsoleProjects
      /\ c.then \in {"open", "keep"} => c.project \in ConsoleProjects
      /\ cStored \in Ids /\ cSelected \in Ids /\ cProjects \subseteq ConsoleProjects
  BY <1>2, ScreenLibrary DEF ListOK, Ids, ConsoleInv, FrameOK, Screen!TypeOK, Screen!ConstantsOK
<1>4. list # {} => Screen!Newest(list) \in list BY <1>3, NewestIn
<1>5. Screen!Chosen(list) \in Ids /\ (list # {} => Screen!Chosen(list) \in list)
      /\ (cStored \in list => Screen!Chosen(list) = cStored)
  BY <1>3, <1>4, ScreenLibrary DEF Screen!Chosen, Screen!Newest, Ids
<1>6. cProjects' \subseteq ConsoleProjects /\ cStored' \in Ids /\ cSelected' \in Ids
  BY <1>3, <1>4, <1>5 DEF Screen!ListAnswered, Screen!SetSelected, Ids
<1>7. cLists \ {c} \in SUBSET cLists OBVIOUS
<1>8. CASE cSession = "in" /\ c.then = "check" /\ list # {}
  <2>1. PICK r : r = Screen!OverviewOf(Screen!Newest(list)) OBVIOUS
  <2>2. Sound(r) /\ r.project = Screen!Newest(list)
    BY <1>3, <1>4, <1>8, <2>1 DEF Sound, Screen!OverviewOf, Screen!At, Routes, Screen!PageNames,
       Outside, Ids
  <2>3. Screen!Amid(cLists \ {c}, r) /\ cStored' = r.project /\ cSelected' = r.project
    BY <1>8, <2>1, <2>2 DEF Screen!ListAnswered, Screen!SetSelected
  <2> QED BY <1>1, <1>2, <1>6, <1>7, <1>8, <2>2, <2>3, Moved
<1>9. CASE cSession = "in" /\ c.then = "open"
  <2>1. PICK r : r = Screen!OverviewOf(c.project) OBVIOUS
  <2>2. Sound(r) /\ r.project = c.project
    BY <1>3, <1>9, <2>1 DEF Sound, Screen!OverviewOf, Screen!At, Routes, Screen!PageNames,
       Outside, Ids
  <2>3. Screen!Amid(cLists \ {c}, r) /\ cStored' = r.project /\ cSelected' = r.project
    BY <1>9, <2>1, <2>2 DEF Screen!ListAnswered, Screen!SetSelected
  <2> QED BY <1>1, <1>2, <1>6, <1>7, <1>9, <2>2, <2>3, Moved
<1>10. CASE cSession = "in" /\ c.then = "leave"
  <2>1. Sound(Screen!ProjectsPage) /\ Screen!ProjectsPage.project = Screen!NoProject
    BY DEF Sound, Screen!ProjectsPage, Screen!At, Routes, Outside, Ids
  <2>2. Screen!Amid(cLists \ {c}, Screen!ProjectsPage) BY <1>10 DEF Screen!ListAnswered
  <2> QED BY <1>1, <1>6, <1>7, <1>10, <2>1, <2>2, Moved
<1>11. CASE ~(cSession = "in" /\ (c.then \in {"open", "leave"} \/ (c.then = "check" /\ list # {})))
  <2>1. UNCHANGED <<cRoute, cLayout, cLate, cHurried>> BY <1>11 DEF Screen!ListAnswered
  <2>2. CASE cSession = "in"
    <3>1. CASE c.then = "check"
      <4>1. UNCHANGED <<cStored, cSelected>> BY <1>11, <2>2, <3>1 DEF Screen!ListAnswered
      <4> QED BY <1>1, <1>6, <2>1, <3>1, <4>1, ListStays
    <3>2. CASE c.then = "keep"
      <4>1. cStored' = c.project /\ cSelected' = c.project
        BY <3>2 DEF Screen!ListAnswered, Screen!SetSelected
      <4> QED BY <1>1, <1>6, <2>1, <3>2, <4>1, ListStays
    <3>3. CASE c.then = "stay"
      <4>1. cStored' = Screen!Chosen(list) /\ cSelected' = Screen!Chosen(list)
        BY <3>3 DEF Screen!ListAnswered, Screen!SetSelected
      <4>2. cServer.own # {} => cStored' # Screen!NoProject
        BY <1>2, <1>3, <1>5, <3>3, <4>1 DEF ListOK
      <4>3. cStored \in c.list \cap cServer.own => cStored' = cStored BY <1>5, <4>1
      <4> QED BY <1>1, <1>6, <2>1, <3>3, <4>1, <4>2, <4>3, ListStays
    <3> QED BY <1>2, <1>11, <2>2, <3>1, <3>2, <3>3 DEF ListOK
  <2>3. CASE cSession # "in"
    BY <1>1, <1>6, <2>1, <2>3, ListStays
  <2> QED BY <2>2, <2>3
<1> QED BY <1>8, <1>9, <1>10, <1>11

LEMMA ListFailsStep ==
  ASSUME Screen!ConstantsOK, ConsoleInv, NEW c \in cLists, Screen!ListFails(c)
  PROVE  ConsoleInv'
<1>1. /\ cLists' = cLists \ {c} /\ Screen!Render
           /\ UNCHANGED <<cServer, cSession, cProjects, cEnv, cActed>>
  BY DEF Screen!ListFails
<1>2. /\ ListOK(c)
      /\ c.then # "leave" /\ Screen!Awaits("leave") => Screen!Awaits("leave")'
  BY <1>1, ListsShrink
<1>3. /\ c.project \in Ids
      /\ c.then \in {"open", "keep"} => c.project \in ConsoleProjects
           /\ c.project # Screen!NoProject
      /\ cStored \in Ids /\ cSelected \in Ids /\ cProjects' \subseteq ConsoleProjects
  BY <1>1, <1>2 DEF ListOK, Ids, ConsoleInv, FrameOK, Screen!TypeOK
<1>4. cStored' \in Ids /\ cSelected' \in Ids BY <1>3 DEF Screen!ListFails, Screen!SetSelected
<1>5. cLists \ {c} \in SUBSET cLists OBVIOUS
<1>6. CASE cSession = "in" /\ c.then = "open"
  <2>1. PICK r : r = Screen!OverviewOf(c.project) OBVIOUS
  <2>2. Sound(r) /\ r.project = c.project
    BY <1>3, <1>6, <2>1 DEF Sound, Screen!OverviewOf, Screen!At, Routes, Screen!PageNames,
       Outside, Ids
  <2>3. Screen!Amid(cLists \ {c}, r) /\ cStored' = r.project /\ cSelected' = r.project
    BY <1>6, <2>1, <2>2 DEF Screen!ListFails, Screen!SetSelected
  <2> QED BY <1>1, <1>2, <1>3, <1>4, <1>5, <1>6, <2>2, <2>3, Moved
<1>7. CASE cSession = "in" /\ c.then = "leave"
  <2>1. Sound(Screen!ProjectsPage) /\ Screen!ProjectsPage.project = Screen!NoProject
    BY DEF Sound, Screen!ProjectsPage, Screen!At, Routes, Outside, Ids
  <2>2. Screen!Amid(cLists \ {c}, Screen!ProjectsPage) BY <1>7 DEF Screen!ListFails
  <2> QED BY <1>1, <1>3, <1>4, <1>5, <1>7, <2>1, <2>2, Moved
<1>8. CASE ~(cSession = "in" /\ c.then \in {"open", "leave"})
  <2>1. UNCHANGED <<cRoute, cLayout, cLate, cHurried>> BY <1>8 DEF Screen!ListFails
  <2>2. \/ UNCHANGED <<cStored, cSelected>>
        \/ c.then \in {"open", "keep"} /\ cStored' = c.project /\ cSelected' = c.project
    BY DEF Screen!ListFails, Screen!SetSelected
  <2> QED BY <1>1, <1>3, <1>4, <1>8, <2>1, <2>2, ListStays
<1> QED BY <1>6, <1>7, <1>8

\* On the page nothing but the page moves.
LEMMA OnPage ==
  ASSUME Screen!ConstantsOK, ConsoleInv, Screen!PageOnly, UNCHANGED <<cServer, cSelected>>,
         \/ cLists' = cLists
         \/ /\ Screen!Outlet /\ cSelected \in cServer.own
            /\ cLists' = cLists \cup {[then |-> "stay", project |-> Screen!NoProject, list |-> cServer.own]}
  PROVE  /\ FrameOK' /\ Sessions' /\ LayoutSpins' /\ Known' /\ Calm'
         /\ Screen!Outlet' = Screen!Outlet /\ Screen!Loads' = Screen!Loads
         /\ Screen!Awaits("leave") => Screen!Awaits("leave")'
<1>1. UNCHANGED <<cServer, cSession, cStored, cSelected, cProjects, cEnv, cRoute, cLayout, cLate,
        cHurried>>
  BY DEF Screen!PageOnly
<1>2. Screen!Outlet' = Screen!Outlet /\ Screen!Loads' = Screen!Loads
  BY <1>1 DEF Screen!Outlet, Screen!Loads
<1>3. Screen!Awaits("leave") => Screen!Awaits("leave")' BY DEF Screen!Awaits
<1>4. cServer.own \in SUBSET ConsoleProjects BY DEF ConsoleInv, FrameOK, Screen!TypeOK
<1>5. FrameOK'
  <2>1. Screen!TypeOK' BY <1>1 DEF ConsoleInv, FrameOK, Screen!TypeOK
  <2>2. \A c \in cLists' : ListOK(c)'
    <3> SUFFICES ASSUME NEW c \in cLists' PROVE ListOK(c)' OBVIOUS
    <3>1. CASE c \in cLists BY <3>1 DEF ConsoleInv, FrameOK, ListOK
    <3>2. CASE /\ cSelected \in cServer.own
               /\ c = [then |-> "stay", project |-> Screen!NoProject, list |-> cServer.own]
      BY <1>4, <3>2 DEF ListOK, Ids
    <3> QED BY <3>1, <3>2
  <2> QED BY <1>1, <2>1, <2>2 DEF ConsoleInv, FrameOK
<1>6. Sessions' BY <1>1 DEF ConsoleInv, Sessions, Screen!Outlet
<1>7. LayoutSpins' BY <1>1 DEF ConsoleInv, LayoutSpins
<1>8. Known' BY <1>1, <1>3 DEF ConsoleInv, Known, Ready
<1>9. Calm'
  <2>1. CASE cLists' = cLists BY <1>1, <2>1 DEF ConsoleInv, Calm
  <2>2. CASE /\ Screen!Outlet /\ cSelected \in cServer.own
             /\ cLists' = cLists \cup {[then |-> "stay", project |-> Screen!NoProject, list |-> cServer.own]}
    <3> SUFFICES ASSUME ~cHurried, cSession = "in", cRoute.project # Screen!NoProject
                 PROVE  /\ cLayout.pending \cup cLate \subseteq {cRoute.project}
                        /\ \A c \in cLists' : c.then \in {"stay", "leave"}
                        /\ \A c \in cLists' : c.then = "stay" =>
                             cStored = cRoute.project /\ cRoute.project \in c.list \cap cServer.own
                        /\ ~cLayout.loading /\ ~cLayout.error =>
                             cStored = cSelected /\ cStored \in {cRoute.project, Screen!NoProject}
      BY <1>1 DEF Calm
    <3>1. /\ cLayout.pending \cup cLate \subseteq {cRoute.project}
          /\ \A c \in cLists : c.then \in {"stay", "leave"}
          /\ \A c \in cLists : c.then = "stay" =>
               cStored = cRoute.project /\ cRoute.project \in c.list \cap cServer.own
          /\ cStored = cSelected /\ cStored \in {cRoute.project, Screen!NoProject}
      BY <2>2 DEF ConsoleInv, Calm, Screen!Outlet
    <3>2. cStored = cRoute.project /\ cRoute.project \in cServer.own
      BY <1>4, <2>2, <3>1, ScreenLibrary DEF Screen!ConstantsOK
    <3> QED BY <2>2, <3>1, <3>2
  <2> QED BY <2>1, <2>2
<1> QED BY <1>2, <1>3, <1>5, <1>6, <1>7, <1>8, <1>9

\* A round of the page's loads is answered, or fails.
LEMMA ScreenReadStep ==
  ASSUME Screen!ConstantsOK, ConsoleInv, NEW c \in cReads,
         Screen!ReadAnswered(c) \/ Screen!ReadFails(c)
  PROVE  ConsoleInv'
<1>1. Screen!PageOnly /\ UNCHANGED <<cServer, cSelected, cLists, cActed>>
  BY DEF Screen!ReadAnswered, Screen!ReadFails
<1>2. /\ FrameOK' /\ Sessions' /\ LayoutSpins' /\ Known' /\ Calm'
      /\ Screen!Outlet' = Screen!Outlet /\ Screen!Loads' = Screen!Loads
           /\ (Screen!Awaits("leave") => Screen!Awaits("leave")')
  BY <1>1, OnPage
<1>3. UNCHANGED <<cRoute, cStored, cHurried>> BY <1>1 DEF Screen!PageOnly
<1>4. Screen!ActsOnItsPage' BY <1>1, <1>3 DEF ConsoleInv, Screen!ActsOnItsPage
<1>5. /\ Screen!Outlet /\ c.round \in 1 .. Len(Screen!Loads) /\ c.from \in Ids /\ c.selected \in Ids
      /\ cView.loading \in BOOLEAN /\ cView.error \in BOOLEAN /\ cView.busy \in BOOLEAN
      /\ cView = [loading |-> cView.loading, error |-> cView.error, busy |-> cView.busy,
                  rows |-> cView.rows]
  BY DEF ConsoleInv, ViewOK
<1>6. Apart(Screen!Loads) BY <1>5, ListsApart DEF Screen!Outlet, Screen!Loads
<1>7. cRoute.project \in Ids /\ cStored \in Ids /\ cSelected \in Ids
  BY DEF ConsoleInv, FrameOK, Screen!TypeOK, Ids
<1>8. CASE Screen!ReadFails(c)
  <2>1. cReads' \subseteq cReads
        /\ cView' = [loading |-> FALSE, error |-> TRUE, busy |-> cView.busy, rows |-> cView.rows]
    BY <1>5, <1>8 DEF Screen!ReadFails, Screen!Ended
  <2>2. ViewOK' BY <1>2, <1>5, <2>1 DEF ConsoleInv, ViewOK
  <2>3. PageSpins' BY <2>1 DEF PageSpins
  <2>4. Screen!OwnRowsOnly' BY <1>2, <1>3, <2>1 DEF ConsoleInv, Screen!OwnRowsOnly
  <2> QED BY <1>2, <1>4, <2>2, <2>3, <2>4 DEF ConsoleInv
<1>9. CASE Screen!ReadAnswered(c)
  <2>1. PICK failed \in SUBSET Screen!Loads[c.round] :
          cView' = [cView EXCEPT
            !.rows = {x \in @ : \A read \in Screen!Loads[c.round] \ failed : read.list # x[1]}
                     \cup UNION {{read.list} \X Screen!Kept(read, c) :
                                  read \in Screen!Loads[c.round] \ failed},
            !.loading = @ /\ c.round < Len(Screen!Loads)]
    BY <1>9 DEF Screen!ReadAnswered
  <2> DEFINE answered == Screen!Loads[c.round] \ failed
             rest == {x \in cView.rows : \A read \in answered : read.list # x[1]}
             new == UNION {{read.list} \X Screen!Kept(read, c) : read \in answered}
             more == cView.loading /\ c.round < Len(Screen!Loads)
  <2>2. cView' = [loading |-> more, error |-> cView.error, busy |-> cView.busy,
                  rows |-> rest \cup new]
    BY <1>5, <2>1
  <2>3. \A x \in new : \E read \in answered : x[1] = read.list /\ x[2] \in Screen!Kept(read, c)
    OBVIOUS
  <2>4. \A read : Screen!Kept(read, c) \subseteq Ids
    BY <1>5, <1>7 DEF Screen!Kept, Screen!Scope
  <2>5. cReads'
          = (cReads \ {c}) \cup (IF c.round < Len(Screen!Loads) THEN {Screen!Round(c.round + 1)} ELSE {})
    BY <1>9 DEF Screen!ReadAnswered
  <2>6. Len(Screen!Loads) \in Nat BY <1>6 DEF Apart
  <2>7. c.round < Len(Screen!Loads) =>
          /\ Screen!Round(c.round + 1).round \in 1 .. Len(Screen!Loads)
          /\ Screen!Round(c.round + 1).from \in Ids /\ Screen!Round(c.round + 1).selected \in Ids
    BY <1>5, <1>7, <2>6 DEF Screen!Round
  <2>8. ViewOK'
    <3>1. \A x \in rest \cup new : x[2] \in Ids BY <2>3, <2>4 DEF ConsoleInv, ViewOK
    <3>2. \A d \in cReads' : d.round \in 1 .. Len(Screen!Loads') /\ d.from \in Ids
            /\ d.selected \in Ids
      BY <1>2, <2>5, <2>7 DEF ConsoleInv, ViewOK
    <3> HIDE DEF rest, new, more
    <3>3. more \in BOOLEAN BY DEF more
    <3> QED BY <1>2, <1>5, <2>2, <3>1, <3>2, <3>3 DEF ViewOK
  <2>9. PageSpins' BY <2>2, <2>5 DEF PageSpins
  <2>10. Screen!OwnRowsOnly'
    <3> SUFFICES ASSUME NEW x \in rest \cup new, NEW k \in DOMAIN Screen!Loads,
                        NEW read \in Screen!Loads[k],
                        read.list = x[1], read.own \/ read.scope = "path"
                 PROVE  x[2] = cRoute.project
      BY <1>2, <1>3, <2>2 DEF Screen!OwnRowsOnly
    <3>1. CASE x \in rest BY <1>5, <3>1 DEF ConsoleInv, Screen!OwnRowsOnly
    <3>2. CASE x \in new
      <4>1. PICK r \in answered : x[1] = r.list /\ x[2] \in Screen!Kept(r, c) BY <2>3, <3>2
      <4>2. r = read
        <5>1. c.round \in DOMAIN Screen!Loads /\ r \in Screen!Loads[c.round]
          BY <1>5, <1>6, <4>1 DEF Apart
        <5> QED BY <1>6, <4>1, <5>1 DEF Apart
      <4> QED BY <4>1, <4>2 DEF Screen!Kept, Screen!Scope
    <3> QED BY <3>1, <3>2
  <2> QED BY <1>2, <1>4, <2>8, <2>9, <2>10 DEF ConsoleInv
<1> QED BY <1>8, <1>9

\* The page loads again, or a form of it is sent and answered.
LEMMA ScreenFormStep ==
  ASSUME Screen!ConstantsOK, ConsoleInv, Screen!PageOnly,
         UNCHANGED <<cServer, cSelected, cLists>>, Screen!Outlet,
         \/ UNCHANGED cReads /\ \E b \in BOOLEAN : cView' = [cView EXCEPT !.busy = b]
         \/ Screen!Starts /\ \E b \in BOOLEAN : Screen!LoadAgain(b),
         ~cHurried => cActed' = "page"
  PROVE  ConsoleInv'
<1>1. /\ FrameOK' /\ Sessions' /\ LayoutSpins' /\ Known' /\ Calm'
      /\ Screen!Outlet' = Screen!Outlet /\ Screen!Loads' = Screen!Loads
           /\ (Screen!Awaits("leave") => Screen!Awaits("leave")')
  BY OnPage
<1>2. UNCHANGED <<cRoute, cStored, cHurried>> BY DEF Screen!PageOnly
<1>3. Screen!ActsOnItsPage' BY <1>2 DEF Screen!ActsOnItsPage
<1>4. /\ cView.loading \in BOOLEAN /\ cView.error \in BOOLEAN /\ cView.busy \in BOOLEAN
      /\ cView = [loading |-> cView.loading, error |-> cView.error, busy |-> cView.busy,
                  rows |-> cView.rows]
      /\ cStored \in Ids /\ cSelected \in Ids
  BY DEF ConsoleInv, ViewOK, FrameOK, Screen!TypeOK, Ids
<1>5. CASE UNCHANGED cReads /\ \E b \in BOOLEAN : cView' = [cView EXCEPT !.busy = b]
  <2>1. PICK b \in BOOLEAN : cView' = [cView EXCEPT !.busy = b] BY <1>5
  <2>2. cView' = [loading |-> cView.loading, error |-> cView.error, busy |-> b,
                  rows |-> cView.rows]
    BY <1>4, <2>1
  <2>3. ViewOK' BY <1>1, <1>4, <1>5, <2>2 DEF ConsoleInv, ViewOK
  <2>4. PageSpins' BY <1>1, <1>5, <2>2 DEF ConsoleInv, PageSpins
  <2>5. Screen!OwnRowsOnly' BY <1>1, <1>2, <2>2 DEF ConsoleInv, Screen!OwnRowsOnly
  <2> QED BY <1>1, <1>3, <2>3, <2>4, <2>5 DEF ConsoleInv
<1>6. CASE Screen!Starts /\ \E b \in BOOLEAN : Screen!LoadAgain(b)
  <2>1. PICK b \in BOOLEAN : Screen!LoadAgain(b) BY <1>6
  <2>2. /\ cView' = [loading |-> TRUE, error |-> FALSE, busy |-> b, rows |-> cView.rows]
        /\ cReads' = cReads \cup {Screen!Load}
    BY <1>4, <2>1 DEF Screen!LoadAgain
  <2>3. Apart(Screen!Loads) /\ Screen!Loads # << >>
    BY <1>6, ListsApart DEF Screen!Outlet, Screen!Loads, Screen!Starts
  <2>4. Screen!Load.round \in 1 .. Len(Screen!Loads) /\ Screen!Load.from \in Ids
          /\ Screen!Load.selected \in Ids
    BY <1>4, <2>3 DEF Screen!Load, Screen!Round, Apart
  <2>5. ViewOK' BY <1>1, <1>4, <2>2, <2>4 DEF ConsoleInv, ViewOK
  <2>6. PageSpins' BY <2>2 DEF PageSpins
  <2>7. Screen!OwnRowsOnly' BY <1>1, <1>2, <2>2 DEF ConsoleInv, Screen!OwnRowsOnly
  <2> QED BY <1>1, <1>3, <2>5, <2>6, <2>7 DEF ConsoleInv
<1> QED BY <1>5, <1>6

\* While the user waited, the header names the page's project, or none.
LEMMA HeaderIsThePages ==
  ASSUME Screen!ConstantsOK, ConsoleInv, Screen!Outlet, ~cHurried
  PROVE  cStored = cSelected /\ cStored \in {cRoute.project, Screen!NoProject}
           /\ Screen!NoProject \notin cServer.own
BY ScreenLibrary DEF Screen!Outlet, ConsoleInv, Calm, FrameOK, Screen!TypeOK, Outside,
   Screen!PageNames, Screen!ConstantsOK

LEMMA PageStep ==
  ASSUME Screen!ConstantsOK, ConsoleInv,
         \/ Screen!Refresh \/ Screen!Create \/ Screen!MakeKey \/ Screen!SendAnswered
         \/ \E x \in cView.rows : Screen!Change(x)
  PROVE  ConsoleInv'
<1>1. Screen!PageOnly /\ UNCHANGED <<cServer, cSelected, cLists>> /\ Screen!Outlet
  BY ScreenLibrary DEF Screen!Refresh, Screen!Create, Screen!MakeKey, Screen!SendAnswered,
     Screen!Change, Screen!Send, Screen!Offers
<1>2. ~cHurried => cActed = "page" BY DEF ConsoleInv, Screen!ActsOnItsPage
<1>3. CASE Screen!Refresh
  <2>1. cView.busy \in BOOLEAN BY DEF ConsoleInv, ViewOK
  <2> QED BY <1>1, <1>2, <1>3, <2>1, ScreenFormStep, ScreenLibrary DEF Screen!Refresh
<1>4. CASE Screen!SendAnswered
  BY <1>1, <1>2, <1>4, ScreenFormStep, ScreenLibrary DEF Screen!SendAnswered
<1>5. ASSUME NEW p \in cServer.own, Screen!Send(p), ~cHurried => p = cRoute.project
      PROVE ConsoleInv'
  BY <1>1, <1>5, ScreenFormStep DEF Screen!Send, Screen!ActOn
<1>6. CASE Screen!MakeKey BY <1>5, <1>6 DEF Screen!MakeKey
<1>7. CASE Screen!Create
  <2>1. PICK p : p = IF cStored = Screen!NoProject THEN cRoute.project ELSE cStored OBVIOUS
  <2>2. p \in cServer.own /\ Screen!Send(p) BY <1>7, <2>1 DEF Screen!Create
  <2> QED BY <1>1, <1>5, <2>1, <2>2, HeaderIsThePages
<1>8. CASE \E x \in cView.rows : Screen!Change(x)
  <2>1. PICK x \in cView.rows : Screen!Change(x) BY <1>8
  <2>2. cStored \in cServer.own /\ Screen!Send(cStored) BY <2>1 DEF Screen!Change
  <2> QED BY <1>1, <1>5, <2>2, HeaderIsThePages
<1> QED BY <1>3, <1>4, <1>6, <1>7, <1>8

LEMMA SaveStep ==
  ASSUME Screen!ConstantsOK, ConsoleInv, Screen!SaveSettings
  PROVE  ConsoleInv'
<1>1. /\ Screen!PageOnly /\ UNCHANGED <<cServer, cSelected, cView, cReads>> /\ Screen!Outlet
      /\ cSelected \in cServer.own
      /\ cLists' = cLists \cup {[then |-> "stay", project |-> Screen!NoProject, list |-> cServer.own]}
      /\ cActed' = IF cSelected = cRoute.project THEN "page" ELSE "other"
  BY ScreenLibrary DEF Screen!SaveSettings, Screen!Ask, Screen!ListCall, Screen!ActOn, Screen!Offers
<1>2. /\ FrameOK' /\ Sessions' /\ LayoutSpins' /\ Known' /\ Calm'
      /\ Screen!Outlet' = Screen!Outlet /\ Screen!Loads' = Screen!Loads
           /\ (Screen!Awaits("leave") => Screen!Awaits("leave")')
  BY <1>1, OnPage
<1>3. UNCHANGED <<cRoute, cHurried>> BY <1>1 DEF Screen!PageOnly
<1>4. Screen!ActsOnItsPage' BY <1>1, <1>3, HeaderIsThePages DEF Screen!ActsOnItsPage
<1> QED BY <1>1, <1>2, <1>3, <1>4, PageStays DEF ConsoleInv

LEMMA ConsoleInit == Screen!ConstantsOK /\ Screen!Init => ConsoleInv
<1> SUFFICES ASSUME Screen!ConstantsOK, Screen!Init PROVE ConsoleInv
  OBVIOUS
<1>1. PICK unused \in SUBSET ConsoleProjects : cServer
        = [own |-> ConsoleProjects \ unused, unused |-> unused]
  BY DEF Screen!Init
<1>2. cServer \in [own : SUBSET ConsoleProjects, unused : SUBSET ConsoleProjects]
        /\ cServer.own \subseteq ConsoleProjects
  <2>1. PICK own \in SUBSET ConsoleProjects : own = ConsoleProjects \ unused BY <1>1
  <2> QED BY <1>1, <2>1
<1>3. Sound(cRoute)
  <2>1. CASE cRoute = Screen!LoginPage
    BY <2>1 DEF Sound, Screen!LoginPage, Screen!At, Routes, Outside, Ids
  <2>2. CASE cRoute = Screen!ProjectsPage
    BY <2>2 DEF Sound, Screen!ProjectsPage, Screen!At, Routes, Outside, Ids
  <2>3. CASE \E p \in cServer.own : cRoute = Screen!OverviewOf(p)
    <3>1. PICK p \in ConsoleProjects : cRoute = Screen!OverviewOf(p) BY <1>2, <2>3
    <3>2. p # Screen!NoProject BY ScreenLibrary DEF Screen!ConstantsOK
    <3> QED BY <3>1, <3>2 DEF Sound, Screen!OverviewOf, Screen!At, Routes, Screen!PageNames,
           Outside, Ids
  <2> QED BY <2>1, <2>2, <2>3 DEF Screen!Init
<1>4. (cSession = "out" /\ cRoute.project = Screen!NoProject) \/ cSession = "me"
  BY DEF Screen!Init, Screen!LoginPage, Screen!At
<1>5. /\ cStored \in Ids /\ cSelected = Screen!NoProject /\ cProjects = {} /\ cEnv = "test"
      /\ cLayout = Screen!NewLayout /\ cLate = {} /\ cLists = {} /\ cView = Screen!Blank
           /\ cReads = {}
      /\ cActed = "page"
  BY <1>2 DEF Screen!Init, Ids
<1>6. FrameOK
  <2>1. Screen!TypeOK
    BY <1>2, <1>3, <1>4, <1>5 DEF Screen!TypeOK, Ids, Screen!NewLayout, Sound, Routes
  <2> QED BY <1>3, <1>5, <2>1 DEF FrameOK, Sound
<1>7. ~Screen!Outlet BY <1>4 DEF Screen!Outlet
<1>8. ViewOK BY <1>5 DEF ViewOK, Screen!Blank
<1>9. Sessions /\ LayoutSpins /\ Known /\ Calm
  BY <1>4, <1>5 DEF Sessions, LayoutSpins, Screen!NewLayout, Known, Ready, Calm
<1>10. PageSpins /\ Screen!ActsOnItsPage /\ Screen!OwnRowsOnly
  BY <1>5, <1>7 DEF PageSpins, Screen!Blank, Screen!ActsOnItsPage, Screen!OwnRowsOnly
<1> QED BY <1>6, <1>8, <1>9, <1>10 DEF ConsoleInv

LEMMA ConsoleStutter == ConsoleInv /\ UNCHANGED Screen!vars => ConsoleInv'
<1> SUFFICES ASSUME ConsoleInv, UNCHANGED Screen!vars PROVE ConsoleInv'
  OBVIOUS
<1> USE DEF Screen!vars
<1>1. FrameOK' BY DEF ConsoleInv, FrameOK, Screen!TypeOK, ListOK
<1>2. Screen!Outlet' = Screen!Outlet /\ (Screen!Awaits("leave") => Screen!Awaits("leave")')
  BY DEF Screen!Outlet, Screen!Awaits
<1>3. Sessions' /\ LayoutSpins' /\ Known' /\ Calm' /\ Screen!ActsOnItsPage'
  BY <1>2 DEF ConsoleInv, Sessions, LayoutSpins, Known, Ready, Calm, Screen!ActsOnItsPage
<1> QED BY <1>1, <1>2, <1>3, PageStays DEF ConsoleInv

LEMMA ConsoleNext == Screen!ConstantsOK /\ ConsoleInv /\ [Screen!Next]_Screen!vars => ConsoleInv'
<1> SUFFICES ASSUME Screen!ConstantsOK, ConsoleInv, Screen!Next PROVE ConsoleInv'
  BY ConsoleStutter
<1>1. CASE \E p \in ConsoleProjects :
       Screen!SwitchProject(p) \/ Screen!SelectProject(p) \/ Screen!DetailsAnswered(p)
         \/ Screen!DetailsFail(p)
         \/ Screen!OtherTab(p) \/ Screen!CreateProject(p)
  BY <1>1, SwitchProjectStep, DetailsStep, DetailsFailStep, OtherTabStep, CreateProjectStep
<1>2. CASE Screen!InitAuthAnswered \/ Screen!InitProjectsAnswered \/ Screen!InitAuthFails
             \/ Screen!Login \/ Screen!LoginProjectsAnswered \/ Screen!Logout \/ Screen!Expired
  BY <1>2, InitAuthStep, InitProjectsStep, ClearedStep, LoginStep, LoginProjectsStep
<1>3. CASE \E page \in (ConsoleTour \ Screen!Details) \cup {"projects"} : Screen!Visit(page)
  BY <1>3, VisitStep
<1>4. CASE \E e \in {"test", "live"} : Screen!SetEnvironment(e) BY <1>4, EnvironmentStep
<1>5. CASE Screen!FinishOnboarding BY <1>5, FinishStep
<1>6. CASE \E c \in cLists : Screen!ListFails(c)
        \/ \E list \in {c.list, cServer.own} : Screen!ListAnswered(c, list)
  BY <1>6, ListFailsStep, ListAnsweredStep
<1>7. CASE \E c \in cReads : Screen!ReadAnswered(c) \/ Screen!ReadFails(c) BY <1>7, ScreenReadStep
<1>8. CASE Screen!Refresh \/ Screen!Create \/ Screen!MakeKey \/ Screen!SendAnswered
        \/ \E x \in cView.rows : Screen!Change(x)
  BY <1>8, PageStep
<1>9. CASE Screen!SaveSettings BY <1>9, SaveStep
<1>10. CASE Screen!DeleteProject BY <1>10, DeleteProjectStep
<1>11. CASE \E page \in ConsoleTour \cap Screen!Details : \E x \in cView.rows : Screen!Open(page, x)
  BY <1>11, OpenStep
<1> QED
  BY <1>1, <1>2, <1>3, <1>4, <1>5, <1>6, <1>7, <1>8, <1>9, <1>10, <1>11 DEF Screen!Next

\* A user who waits for each page acts on the project of the page, in its environment; and a
\* page shows rows of its own project, and a spinner only while something will end it.
THEOREM ConsoleActsOnItsPage ==
  ASSUME Screen!ConstantsOK
  PROVE  Screen!Spec => [](Screen!ActsOnItsPage /\ Screen!PageTellsTruth)
<1>1. ConsoleInv => Screen!ActsOnItsPage /\ Screen!PageTellsTruth
  <2> SUFFICES ASSUME ConsoleInv PROVE Screen!ActsOnItsPage /\ Screen!PageTellsTruth
    OBVIOUS
  <2>1. cView.loading => cReads # {} \/ cLists # {} BY DEF ConsoleInv, PageSpins, Screen!Awaits
  <2> QED BY <2>1 DEF ConsoleInv, LayoutSpins, Screen!PageTellsTruth, Screen!SpinnersEnd
<1>2. Screen!ConstantsOK /\ Screen!Init => ConsoleInv BY ConsoleInit
<1>3. Screen!ConstantsOK /\ ConsoleInv /\ [Screen!Next]_Screen!vars => ConsoleInv' BY ConsoleNext
<1> QED BY <1>1, <1>2, <1>3, PTL DEF Screen!Spec

\* The session, the page and what it waits for keep their types.
THEOREM ConsoleIsTyped ==
  ASSUME Screen!ConstantsOK
  PROVE  Screen!Spec => []Screen!TypeOK
<1>1. ConsoleInv => Screen!TypeOK BY DEF ConsoleInv, FrameOK
<1>2. Screen!ConstantsOK /\ Screen!Init => ConsoleInv BY ConsoleInit
<1>3. Screen!ConstantsOK /\ ConsoleInv /\ [Screen!Next]_Screen!vars => ConsoleInv' BY ConsoleNext
<1> QED BY <1>1, <1>2, <1>3, PTL DEF Screen!Spec

-----------------------------------------------------------------------------
(* The parts proved in modules of their own.                               *)

GatewayProofs == INSTANCE ProviderGatewayProofs WITH
  Call <- ProviderCalls, Form <- PaymentForms, Batch <- FormBatches,
  Account <- PayeeAccounts, Recipient <- PayeeRecipients,
  Lifetime <- TokenLifetime, Margin <- TokenMargin, Timeout <- CallTimeout, MaxTime <- LastTick,
  NoAccount <- Nothing, NoRecipient <- Nothing, NoToken <- Nothing,
  now <- gNow, call <- gCall, recipientCache <- gRecipientCache, holder <- gHolder,
  cachedToken <- gCachedToken, paid <- gPaid, metrics <- gMetrics, reply <- gReply

\* The module the proofs of the providers are about says of Platform's variables what
\* Gateway says of them.
LEMMA SameGateway ==
  /\ Gateway!ConstantsOK => GatewayProofs!ConstantsOK
  /\ Gateway!Init => GatewayProofs!Init
  /\ [Gateway!Next]_Gateway!vars => [GatewayProofs!Next]_GatewayProofs!vars
  /\ GatewayProofs!TypeOK => Gateway!TypeOK
  /\ GatewayProofs!PaidAndCounted => Gateway!PaidAndCounted
  /\ GatewayProofs!TokensAreValid => Gateway!TokensAreValid
<1>1. /\ Gateway!ConstantsOK => GatewayProofs!ConstantsOK
      /\ Gateway!Init => GatewayProofs!Init
  BY DEF Gateway!ConstantsOK, GatewayProofs!ConstantsOK, Gateway!FormType,
        GatewayProofs!FormType, Gateway!Provider, GatewayProofs!Provider, Gateway!IsFiniteSet,
        GatewayProofs!IsFiniteSet, Gateway!Token, GatewayProofs!Token, Gateway!Init,
        GatewayProofs!Init
<1>2. GatewayProofs!TypeOK => Gateway!TypeOK
  BY DEF Gateway!TypeOK, GatewayProofs!TypeOK, Gateway!CallType, GatewayProofs!CallType,
        Gateway!FormType, GatewayProofs!FormType, Gateway!Provider, GatewayProofs!Provider,
        Gateway!Step, GatewayProofs!Step, Gateway!Token, GatewayProofs!Token, Gateway!Payout,
        GatewayProofs!Payout, Gateway!Reply, GatewayProofs!Reply
<1>3. GatewayProofs!PaidAndCounted => Gateway!PaidAndCounted
  BY DEF Gateway!PaidAndCounted, GatewayProofs!PaidAndCounted, Gateway!MetricsAccount,
        GatewayProofs!MetricsAccount, Gateway!Cardinality, GatewayProofs!Cardinality,
        Gateway!FormOf, GatewayProofs!FormOf, Gateway!Provider, GatewayProofs!Provider,
        Gateway!ProviderOf, GatewayProofs!ProviderOf, Gateway!NamedProvider,
        GatewayProofs!NamedProvider, Gateway!Mobile, GatewayProofs!Mobile, Gateway!Route,
        GatewayProofs!Route, Gateway!Currency, GatewayProofs!Currency, Gateway!DestinationType,
        GatewayProofs!DestinationType, Gateway!PaidAsRequested, GatewayProofs!PaidAsRequested
<1>4. GatewayProofs!TokensAreValid => Gateway!TokensAreValid
  BY DEF Gateway!TokensAreValid, GatewayProofs!TokensAreValid
<1>5. ASSUME NEW c
      PROVE  /\ Gateway!Refuse(c) => GatewayProofs!Refuse(c)
             /\ Gateway!StartPaystack(c) => GatewayProofs!StartPaystack(c)
             /\ Gateway!StartMpesa(c) => GatewayProofs!StartMpesa(c)
             /\ Gateway!StartOther(c) => GatewayProofs!StartOther(c)
  BY DEF Gateway!Refuse, GatewayProofs!Refuse, Gateway!At, GatewayProofs!At, Gateway!FormOf,
        GatewayProofs!FormOf, Gateway!ProviderOf, GatewayProofs!ProviderOf,
        Gateway!NamedProvider, GatewayProofs!NamedProvider, Gateway!Mobile,
        GatewayProofs!Mobile, Gateway!Route, GatewayProofs!Route, Gateway!Currency,
        GatewayProofs!Currency, Gateway!DestinationType, GatewayProofs!DestinationType,
        Gateway!Valid, GatewayProofs!Valid, Gateway!BankRail, GatewayProofs!BankRail,
        Gateway!MobileRail, GatewayProofs!MobileRail, Gateway!StartPaystack,
        GatewayProofs!StartPaystack, Gateway!Accepted, GatewayProofs!Accepted, Gateway!Request,
        GatewayProofs!Request, Gateway!Counted, GatewayProofs!Counted, Gateway!One,
        GatewayProofs!One, Gateway!StartMpesa, GatewayProofs!StartMpesa, Gateway!MpesaTakes,
        GatewayProofs!MpesaTakes, Gateway!StartOther, GatewayProofs!StartOther, Gateway!Await,
        GatewayProofs!Await, Gateway!payments, GatewayProofs!payments
<1>6. ASSUME NEW c
      PROVE  /\ Gateway!RejectPaystack(c) => GatewayProofs!RejectPaystack(c)
             /\ Gateway!RejectMpesa(c) => GatewayProofs!RejectMpesa(c)
             /\ Gateway!Name(c) => GatewayProofs!Name(c)
             /\ Gateway!CreateRecipient(c) => GatewayProofs!CreateRecipient(c)
  BY DEF Gateway!RejectPaystack, GatewayProofs!RejectPaystack, Gateway!Accepted,
        GatewayProofs!Accepted, Gateway!At, GatewayProofs!At, Gateway!FormOf,
        GatewayProofs!FormOf, Gateway!ProviderOf, GatewayProofs!ProviderOf,
        Gateway!NamedProvider, GatewayProofs!NamedProvider, Gateway!Mobile,
        GatewayProofs!Mobile, Gateway!Route, GatewayProofs!Route, Gateway!Currency,
        GatewayProofs!Currency, Gateway!DestinationType, GatewayProofs!DestinationType,
        Gateway!Valid, GatewayProofs!Valid, Gateway!BankRail, GatewayProofs!BankRail,
        Gateway!MobileRail, GatewayProofs!MobileRail, Gateway!Finish, GatewayProofs!Finish,
        Gateway!Counted, GatewayProofs!Counted, Gateway!One, GatewayProofs!One, Gateway!Outcome,
        GatewayProofs!Outcome, Gateway!RejectMpesa, GatewayProofs!RejectMpesa, Gateway!Name,
        GatewayProofs!Name, Gateway!payments, GatewayProofs!payments, Gateway!CreateRecipient,
        GatewayProofs!CreateRecipient, Gateway!CacheKey, GatewayProofs!CacheKey
<1>7. ASSUME NEW c
      PROVE  /\ Gateway!SendTransfer(c) => GatewayProofs!SendTransfer(c)
             /\ Gateway!PaystackFails(c) => GatewayProofs!PaystackFails(c)
             /\ Gateway!TakeToken(c) => GatewayProofs!TakeToken(c)
             /\ Gateway!RequestToken(c) => GatewayProofs!RequestToken(c)
             /\ Gateway!ReceiveToken(c) => GatewayProofs!ReceiveToken(c)
  BY DEF Gateway!SendTransfer, GatewayProofs!SendTransfer, Gateway!At, GatewayProofs!At,
        Gateway!BankPayout, GatewayProofs!BankPayout, Gateway!Currency, GatewayProofs!Currency,
        Gateway!Mobile, GatewayProofs!Mobile, Gateway!FormOf, GatewayProofs!FormOf,
        Gateway!Finish, GatewayProofs!Finish, Gateway!Counted, GatewayProofs!Counted,
        Gateway!One, GatewayProofs!One, Gateway!Outcome, GatewayProofs!Outcome,
        Gateway!ProviderOf, GatewayProofs!ProviderOf, Gateway!NamedProvider,
        GatewayProofs!NamedProvider, Gateway!Route, GatewayProofs!Route,
        Gateway!DestinationType, GatewayProofs!DestinationType, Gateway!Pays,
        GatewayProofs!Pays, Gateway!PaystackFails, GatewayProofs!PaystackFails,
        Gateway!TakeToken, GatewayProofs!TakeToken, Gateway!Cached, GatewayProofs!Cached,
        Gateway!Fresh, GatewayProofs!Fresh, Gateway!Uses, GatewayProofs!Uses, Gateway!payments,
        GatewayProofs!payments, Gateway!RequestToken, GatewayProofs!RequestToken, Gateway!Await,
        GatewayProofs!Await, Gateway!ReceiveToken, GatewayProofs!ReceiveToken,
        Gateway!ExpiresAt, GatewayProofs!ExpiresAt
<1>8. ASSUME NEW c
      PROVE  /\ Gateway!FallBack(c) => GatewayProofs!FallBack(c)
             /\ Gateway!SendB2CPayment(c) => GatewayProofs!SendB2CPayment(c)
             /\ Gateway!DarajaFails(c) => GatewayProofs!DarajaFails(c)
             /\ Gateway!QueryTransactionStatus(c) => GatewayProofs!QueryTransactionStatus(c)
             /\ Gateway!Uncounted(c) => GatewayProofs!Uncounted(c)
  BY DEF Gateway!FallBack, GatewayProofs!FallBack, Gateway!At, GatewayProofs!At, Gateway!Await,
        GatewayProofs!Await, Gateway!payments, GatewayProofs!payments, Gateway!SendB2CPayment,
        GatewayProofs!SendB2CPayment, Gateway!Finish, GatewayProofs!Finish, Gateway!Counted,
        GatewayProofs!Counted, Gateway!One, GatewayProofs!One, Gateway!FormOf,
        GatewayProofs!FormOf, Gateway!Outcome, GatewayProofs!Outcome, Gateway!ProviderOf,
        GatewayProofs!ProviderOf, Gateway!NamedProvider, GatewayProofs!NamedProvider,
        Gateway!Mobile, GatewayProofs!Mobile, Gateway!Route, GatewayProofs!Route,
        Gateway!Currency, GatewayProofs!Currency, Gateway!DestinationType,
        GatewayProofs!DestinationType, Gateway!MobilePayout, GatewayProofs!MobilePayout,
        Gateway!Shillings, GatewayProofs!Shillings, Gateway!Rounded, GatewayProofs!Rounded,
        Gateway!Pays, GatewayProofs!Pays, Gateway!DarajaFails, GatewayProofs!DarajaFails,
        Gateway!QueryTransactionStatus, GatewayProofs!QueryTransactionStatus, Gateway!Uncounted,
        GatewayProofs!Uncounted
<1>9. /\ Gateway!Tick => GatewayProofs!Tick
  BY DEF Gateway!Tick, GatewayProofs!Tick, Gateway!payments, GatewayProofs!payments
<1>10. UNCHANGED Gateway!vars => UNCHANGED GatewayProofs!vars
  BY DEF Gateway!vars, GatewayProofs!vars, Gateway!payments, GatewayProofs!payments
<1>11. Gateway!Next => GatewayProofs!Next
  BY <1>5, <1>6, <1>7, <1>8, <1>9, <1>10
    DEF Gateway!Next, GatewayProofs!Next, Gateway!Proceed, GatewayProofs!Proceed
<1> QED BY <1>1, <1>2, <1>3, <1>4, <1>5, <1>6, <1>7, <1>8, <1>9, <1>10, <1>11

HooksProofs == INSTANCE WebhookDeliveryProofs WITH
  Endpoint <- HookEndpoints, Event <- HookEvents, Worker <- PollLoops, Promoter <- Promotions,
  MaxAttempts <- HookAttempts, MaxLosses <- HookLosses, NoRow <- Nothing, NoJob <- Nothing,
  endpoint <- hEndpoint, row <- hRow, queue <- hQueue, delayed <- hDelayed, due <- hDue,
  dispatch <- hDispatch, worker <- hWorker, promoter <- hPromoter, accepted <- hAccepted,
  losses <- hLosses

\* So it is with the webhooks.
LEMMA SameHooks ==
  /\ Hooks!ConstantsOK => HooksProofs!ConstantsOK
  /\ Hooks!Init => HooksProofs!Init
  /\ [Hooks!Next]_Hooks!vars => [HooksProofs!Next]_HooksProofs!vars
  /\ HooksProofs!TypeOK => Hooks!TypeOK
  /\ HooksProofs!DeliveredWasAccepted => Hooks!DeliveredWasAccepted
  /\ HooksProofs!PendingHasJob => Hooks!PendingHasJob
<1>1. /\ Hooks!ConstantsOK => HooksProofs!ConstantsOK
      /\ Hooks!Init => HooksProofs!Init
  BY DEF Hooks!ConstantsOK, HooksProofs!ConstantsOK, Hooks!Job, HooksProofs!Job, Hooks!Delivery,
        HooksProofs!Delivery, Hooks!Row, HooksProofs!Row, Hooks!Init, HooksProofs!Init
<1>2. HooksProofs!TypeOK => Hooks!TypeOK
  BY DEF Hooks!TypeOK, HooksProofs!TypeOK, Hooks!Delivery, HooksProofs!Delivery, Hooks!Job,
        HooksProofs!Job, Hooks!Row, HooksProofs!Row
<1>3. HooksProofs!DeliveredWasAccepted => Hooks!DeliveredWasAccepted
  BY DEF Hooks!DeliveredWasAccepted, HooksProofs!DeliveredWasAccepted, Hooks!Delivery,
        HooksProofs!Delivery
<1>4. HooksProofs!PendingHasJob => Hooks!PendingHasJob
  BY DEF Hooks!PendingHasJob, HooksProofs!PendingHasJob, Hooks!Delivery, HooksProofs!Delivery,
        Hooks!HasJob, HooksProofs!HasJob, Hooks!Job, HooksProofs!Job, Hooks!ToSet,
        HooksProofs!ToSet, Hooks!Pending, HooksProofs!Pending
<1>5. ASSUME NEW e
      PROVE  /\ Hooks!SetEndpoint(e) => HooksProofs!SetEndpoint(e)
  BY DEF Hooks!SetEndpoint, HooksProofs!SetEndpoint, Hooks!redis, HooksProofs!redis
<1>6. ASSUME NEW v
      PROVE  /\ Hooks!StartDispatch(v) => HooksProofs!StartDispatch(v)
             /\ Hooks!CreateRow(v) => HooksProofs!CreateRow(v)
             /\ Hooks!Enqueue(v) => HooksProofs!Enqueue(v)
             /\ Hooks!DispatchFails(v) => HooksProofs!DispatchFails(v)
  BY DEF Hooks!StartDispatch, HooksProofs!StartDispatch, Hooks!Remaining, HooksProofs!Remaining,
        Hooks!Dispatching, HooksProofs!Dispatching, Hooks!redis, HooksProofs!redis,
        Hooks!CreateRow, HooksProofs!CreateRow, Hooks!Enqueue, HooksProofs!Enqueue,
        Hooks!DispatchFails, HooksProofs!DispatchFails, Hooks!Lose, HooksProofs!Lose
<1>7. ASSUME NEW w
      PROVE  /\ Hooks!Pop(w) => HooksProofs!Pop(w)
             /\ Hooks!ReadEndpoint(w) => HooksProofs!ReadEndpoint(w)
             /\ Hooks!Post(w) => HooksProofs!Post(w)
             /\ Hooks!Conclude(w) => HooksProofs!Conclude(w)
             /\ Hooks!Catch(w) => HooksProofs!Catch(w)
             /\ Hooks!Delay(w) => HooksProofs!Delay(w)
             /\ Hooks!StatementFails(w) => HooksProofs!StatementFails(w)
             /\ Hooks!WorkerFails(w) => HooksProofs!WorkerFails(w)
  BY DEF Hooks!Pop, HooksProofs!Pop, Hooks!At, HooksProofs!At, Hooks!ReadEndpoint,
        HooksProofs!ReadEndpoint, Hooks!GoTo, HooksProofs!GoTo, Hooks!redis, HooksProofs!redis,
        Hooks!Post, HooksProofs!Post, Hooks!Ok, HooksProofs!Ok, Hooks!Conclude,
        HooksProofs!Conclude, Hooks!Finish, HooksProofs!Finish, Hooks!Record,
        HooksProofs!Record, Hooks!Catch, HooksProofs!Catch, Hooks!MayRetry,
        HooksProofs!MayRetry, Hooks!Delay, HooksProofs!Delay, Hooks!NextAttempt,
        HooksProofs!NextAttempt, Hooks!StatementFails, HooksProofs!StatementFails,
        Hooks!WorkerFails, HooksProofs!WorkerFails, Hooks!Lose, HooksProofs!Lose
<1>8. ASSUME NEW p
      PROVE  /\ Hooks!ReadReady(p) => HooksProofs!ReadReady(p)
             /\ Hooks!RemoveReady(p) => HooksProofs!RemoveReady(p)
             /\ Hooks!Push(p) => HooksProofs!Push(p)
             /\ Hooks!PromoterFails(p) => HooksProofs!PromoterFails(p)
  BY DEF Hooks!ReadReady, HooksProofs!ReadReady, Hooks!Promoting, HooksProofs!Promoting,
        Hooks!redis, HooksProofs!redis, Hooks!RemoveReady, HooksProofs!RemoveReady, Hooks!Ready,
        HooksProofs!Ready, Hooks!Push, HooksProofs!Push, Hooks!PromoterFails,
        HooksProofs!PromoterFails, Hooks!Lose, HooksProofs!Lose
<1>9. /\ Hooks!Elapse => HooksProofs!Elapse
  BY DEF Hooks!Elapse, HooksProofs!Elapse
<1>10. UNCHANGED Hooks!vars => UNCHANGED HooksProofs!vars
  BY DEF Hooks!vars, HooksProofs!vars, Hooks!redis, HooksProofs!redis
<1>11. Hooks!Next => HooksProofs!Next
  BY <1>5, <1>6, <1>7, <1>8, <1>9, <1>10
    DEF Hooks!Next, HooksProofs!Next, Hooks!Handle, HooksProofs!Handle, Hooks!Poll,
        HooksProofs!Poll, Hooks!Promote, HooksProofs!Promote
<1> QED BY <1>1, <1>2, <1>3, <1>4, <1>5, <1>6, <1>7, <1>8, <1>9, <1>10, <1>11

SpacesProofs == INSTANCE WorkspacesProofs WITH
  User <- People, Admin <- Staff, Organization <- Organizations, Slug <- Slugs,
  Project <- TeamProjects, Key <- TeamKeys, Request <- TeamRequests,
  Op <- TeamOps, Start <- TeamStarts,
  NoSlug <- Nothing, NoProject <- Nothing, NoKey <- Nothing, NoContext <- Nothing,
  user <- sUser, token <- sToken, slug <- sSlug, role <- sRole, project <- sProject,
  key <- sKey, audit <- sAudit, request <- sRequest

\* And with the workspaces.
LEMMA SameSpaces ==
  /\ Spaces!ConstantsOK => SpacesProofs!ConstantsOK
  /\ Spaces!Init => SpacesProofs!Init
  /\ [Spaces!Next]_Spaces!vars => [SpacesProofs!Next]_SpacesProofs!vars
  /\ SpacesProofs!TypeOK => Spaces!TypeOK
  /\ SpacesProofs!NothingHalfDone => Spaces!NothingHalfDone
  /\ SpacesProofs!TenantsApart => Spaces!TenantsApart
  /\ SpacesProofs!AuthorizedChange => Spaces!AuthorizedChange
<1>1. /\ Spaces!ConstantsOK => SpacesProofs!ConstantsOK
      /\ Spaces!Init => SpacesProofs!Init
  BY DEF Spaces!ConstantsOK, SpacesProofs!ConstantsOK, Spaces!Context, SpacesProofs!Context,
        Spaces!KeyType, SpacesProofs!KeyType, Spaces!OpType, SpacesProofs!OpType, Spaces!OpName,
        SpacesProofs!OpName, Spaces!ProjectType, SpacesProofs!ProjectType, Spaces!WellFormed,
        SpacesProofs!WellFormed, Spaces!Role, SpacesProofs!Role, Spaces!Init, SpacesProofs!Init
<1>2. SpacesProofs!TypeOK => Spaces!TypeOK
  BY DEF Spaces!TypeOK, SpacesProofs!TypeOK, Spaces!KeyType, SpacesProofs!KeyType,
        Spaces!ProjectType, SpacesProofs!ProjectType, Spaces!RequestType,
        SpacesProofs!RequestType, Spaces!Answer, SpacesProofs!Answer, Spaces!Context,
        SpacesProofs!Context, Spaces!Role, SpacesProofs!Role
<1>3. SpacesProofs!NothingHalfDone => Spaces!NothingHalfDone
  BY DEF Spaces!NothingHalfDone, SpacesProofs!NothingHalfDone, Spaces!AnsweredIsAudited,
        SpacesProofs!AnsweredIsAudited, Spaces!AdminOp, SpacesProofs!AdminOp, Spaces!Is,
        SpacesProofs!Is, Spaces!OpOf, SpacesProofs!OpOf, Spaces!WorkspacesAreOwned,
        SpacesProofs!WorkspacesAreOwned, Spaces!Exists, SpacesProofs!Exists
<1>4. SpacesProofs!TenantsApart => Spaces!TenantsApart
  BY DEF Spaces!TenantsApart, SpacesProofs!TenantsApart, Spaces!Is, SpacesProofs!Is, Spaces!OpOf,
        SpacesProofs!OpOf
<1>5. SpacesProofs!AuthorizedChange => Spaces!AuthorizedChange
  BY DEF Spaces!AuthorizedChange, SpacesProofs!AuthorizedChange, Spaces!Allowed,
        SpacesProofs!Allowed, Spaces!Role, SpacesProofs!Role, Spaces!OpOf, SpacesProofs!OpOf
<1>6. ASSUME NEW r
      PROVE  /\ Spaces!AuthenticateUser(r) => SpacesProofs!AuthenticateUser(r)
             /\ Spaces!AuthorizeAdmin(r) => SpacesProofs!AuthorizeAdmin(r)
             /\ Spaces!RequireOrgRole(r) => SpacesProofs!RequireOrgRole(r)
             /\ Spaces!LoadAndAuthorizeProject(r) => SpacesProofs!LoadAndAuthorizeProject(r)
             /\ Spaces!ResolveProjectContext(r) => SpacesProofs!ResolveProjectContext(r)
  BY DEF Spaces!AuthenticateUser, SpacesProofs!AuthenticateUser, Spaces!Answers,
        SpacesProofs!Answers, Spaces!At, SpacesProofs!At, Spaces!Goes, SpacesProofs!Goes,
        Spaces!Is, SpacesProofs!Is, Spaces!OpOf, SpacesProofs!OpOf, Spaces!Session,
        SpacesProofs!Session, Spaces!OpName, SpacesProofs!OpName, Spaces!tenants,
        SpacesProofs!tenants, Spaces!AuthorizeAdmin, SpacesProofs!AuthorizeAdmin,
        Spaces!AdminOp, SpacesProofs!AdminOp, Spaces!RequireOrgRole,
        SpacesProofs!RequireOrgRole, Spaces!Allowed, SpacesProofs!Allowed, Spaces!Role,
        SpacesProofs!Role, Spaces!LoadAndAuthorizeProject, SpacesProofs!LoadAndAuthorizeProject,
        Spaces!Lives, SpacesProofs!Lives, Spaces!Member, SpacesProofs!Member,
        Spaces!ResolveProjectContext, SpacesProofs!ResolveProjectContext, Spaces!Serves,
        SpacesProofs!Serves
<1>7. ASSUME NEW r
      PROVE  /\ Spaces!AuthenticateApiKey(r) => SpacesProofs!AuthenticateApiKey(r)
             /\ Spaces!Served(r) => SpacesProofs!Served(r)
             /\ Spaces!LookUpEmail(r) => SpacesProofs!LookUpEmail(r)
             /\ Spaces!NameOrganization(r) => SpacesProofs!NameOrganization(r)
             /\ Spaces!CreateOrganization(r) => SpacesProofs!CreateOrganization(r)
  BY DEF Spaces!AuthenticateApiKey, SpacesProofs!AuthenticateApiKey, Spaces!Answers,
        SpacesProofs!Answers, Spaces!At, SpacesProofs!At, Spaces!Is, SpacesProofs!Is,
        Spaces!OpOf, SpacesProofs!OpOf, Spaces!KeyLives, SpacesProofs!KeyLives, Spaces!Serves,
        SpacesProofs!Serves, Spaces!tenants, SpacesProofs!tenants, Spaces!Served,
        SpacesProofs!Served, Spaces!LookUpEmail, SpacesProofs!LookUpEmail, Spaces!Goes,
        SpacesProofs!Goes, Spaces!NameOrganization, SpacesProofs!NameOrganization, Spaces!Taken,
        SpacesProofs!Taken, Spaces!CreateOrganization, SpacesProofs!CreateOrganization,
        Spaces!Exists, SpacesProofs!Exists, Spaces!Owns, SpacesProofs!Owns
<1>8. ASSUME NEW r
      PROVE  /\ Spaces!Login(r) => SpacesProofs!Login(r)
             /\ Spaces!CheckSlug(r) => SpacesProofs!CheckSlug(r)
             /\ Spaces!PatchOrganization(r) => SpacesProofs!PatchOrganization(r)
             /\ Spaces!CreateProject(r) => SpacesProofs!CreateProject(r)
             /\ Spaces!PatchProject(r) => SpacesProofs!PatchProject(r)
             /\ Spaces!DeleteProject(r) => SpacesProofs!DeleteProject(r)
  BY DEF Spaces!Login, SpacesProofs!Login, Spaces!Answers, SpacesProofs!Answers, Spaces!At,
        SpacesProofs!At, Spaces!Is, SpacesProofs!Is, Spaces!OpOf, SpacesProofs!OpOf,
        Spaces!CheckSlug, SpacesProofs!CheckSlug, Spaces!Goes, SpacesProofs!Goes,
        Spaces!tenants, SpacesProofs!tenants, Spaces!PatchOrganization,
        SpacesProofs!PatchOrganization, Spaces!CreateProject, SpacesProofs!CreateProject,
        Spaces!PatchProject, SpacesProofs!PatchProject, Spaces!Lives, SpacesProofs!Lives,
        Spaces!DeleteProject, SpacesProofs!DeleteProject, Spaces!KeyLives, SpacesProofs!KeyLives
<1>9. ASSUME NEW r
      PROVE  /\ Spaces!ReadMemberships(r) => SpacesProofs!ReadMemberships(r)
             /\ Spaces!ListProjects(r) => SpacesProofs!ListProjects(r)
             /\ Spaces!CreateKey(r) => SpacesProofs!CreateKey(r)
             /\ Spaces!FindKey(r) => SpacesProofs!FindKey(r)
             /\ Spaces!RevokeKey(r) => SpacesProofs!RevokeKey(r)
  BY DEF Spaces!ReadMemberships, SpacesProofs!ReadMemberships, Spaces!At, SpacesProofs!At,
        Spaces!Goes, SpacesProofs!Goes, Spaces!Is, SpacesProofs!Is, Spaces!OpOf,
        SpacesProofs!OpOf, Spaces!tenants, SpacesProofs!tenants, Spaces!ListProjects,
        SpacesProofs!ListProjects, Spaces!Lives, SpacesProofs!Lives, Spaces!CreateKey,
        SpacesProofs!CreateKey, Spaces!Answers, SpacesProofs!Answers, Spaces!KeyEnvironment,
        SpacesProofs!KeyEnvironment, Spaces!FindKey, SpacesProofs!FindKey, Spaces!KeyLives,
        SpacesProofs!KeyLives, Spaces!RevokeKey, SpacesProofs!RevokeKey
<1>10. ASSUME NEW r
      PROVE  /\ Spaces!ReadStatus(r) => SpacesProofs!ReadStatus(r)
             /\ Spaces!ToggleStatus(r) => SpacesProofs!ToggleStatus(r)
             /\ Spaces!AuditAdmin(r) => SpacesProofs!AuditAdmin(r)
             /\ Spaces!Fail(r) => SpacesProofs!Fail(r)
  BY DEF Spaces!ReadStatus, SpacesProofs!ReadStatus, Spaces!Answers, SpacesProofs!Answers,
        Spaces!At, SpacesProofs!At, Spaces!Found, SpacesProofs!Found, Spaces!Is,
        SpacesProofs!Is, Spaces!OpOf, SpacesProofs!OpOf, Spaces!Lives, SpacesProofs!Lives,
        Spaces!Itself, SpacesProofs!Itself, Spaces!Status, SpacesProofs!Status, Spaces!tenants,
        SpacesProofs!tenants, Spaces!ToggleStatus, SpacesProofs!ToggleStatus, Spaces!Goes,
        SpacesProofs!Goes, Spaces!Opposite, SpacesProofs!Opposite, Spaces!AuditAdmin,
        SpacesProofs!AuditAdmin, Spaces!Recorded, SpacesProofs!Recorded, Spaces!Fail,
        SpacesProofs!Fail
<1>11. ASSUME NEW u
      PROVE  /\ Spaces!TokenExpires(u) => SpacesProofs!TokenExpires(u)
  BY DEF Spaces!TokenExpires, SpacesProofs!TokenExpires
<1>12. ASSUME NEW k
      PROVE  /\ Spaces!KeyExpires(k) => SpacesProofs!KeyExpires(k)
  BY DEF Spaces!KeyExpires, SpacesProofs!KeyExpires, Spaces!KeyLives, SpacesProofs!KeyLives,
        Spaces!tenants, SpacesProofs!tenants
<1>13. UNCHANGED Spaces!vars => UNCHANGED SpacesProofs!vars
  BY DEF Spaces!vars, SpacesProofs!vars
<1>14. Spaces!Next => SpacesProofs!Next
  BY <1>6, <1>7, <1>8, <1>9, <1>10, <1>11, <1>12, <1>13
    DEF Spaces!Next, SpacesProofs!Next, Spaces!Proceed, SpacesProofs!Proceed
<1> QED BY <1>1, <1>2, <1>3, <1>4, <1>5, <1>6, <1>7, <1>8, <1>9, <1>10, <1>11, <1>12, <1>13, <1>14

-----------------------------------------------------------------------------
(* The parts side by side.                                                 *)

\* The steps of Platform are those of the part that runs, which stays the same.
LEMMA PartsStep ==
  ASSUME [PlatformNext]_allVars
  PROVE  /\ focus' = focus /\ [Next]_vars
         /\ focus = "gateway" => [Gateway!Next]_Gateway!vars
         /\ focus = "hooks" => [Hooks!Next]_Hooks!vars
         /\ focus = "spaces" => [Spaces!Next]_Spaces!vars
         /\ focus = "sandbox" => [Sandbox!Next]_Sandbox!vars
         /\ focus = "lists" => [Lists!Next]_Lists!vars
         /\ focus = "screen" => [Screen!Next]_Screen!vars
         /\ focus = "drawer" => [Drawer!Next]_Drawer!vars
BY DEF PlatformNext, allVars, gatewayVars, hookVars, spaceVars, sandboxVars, listVars,
       screenVars, drawerVars, Gateway!vars, Gateway!payments, Hooks!vars,
       Hooks!redis, Spaces!vars, Spaces!tenants, Sandbox!vars, Lists!vars, Screen!vars,
       Drawer!vars

\* A behaviour of Platform is one of the part that runs; of every other part nothing is said.
LEMMA RequestsRun == Platform => Spec
<1>1. PlatformInit => Init BY DEF PlatformInit
<1>2. [PlatformNext]_allVars => [Next]_vars BY PartsStep
<1> QED BY <1>1, <1>2, PTL DEF Platform, Spec

LEMMA GatewayRuns ==
  Platform => \/ focus = "gateway" /\ GatewayProofs!Spec
              \/ []~(focus = "gateway")
<1>1. PlatformInit /\ focus = "gateway" => GatewayProofs!Init BY SameGateway DEF PlatformInit
<1>2. [PlatformNext]_allVars /\ focus = "gateway" =>
        [GatewayProofs!Next]_GatewayProofs!vars /\ (focus = "gateway")'
  BY PartsStep, SameGateway
<1>3. [PlatformNext]_allVars /\ ~(focus = "gateway") => ~(focus = "gateway")' BY PartsStep
<1> QED BY <1>1, <1>2, <1>3, PTL DEF Platform, GatewayProofs!Spec

LEMMA HooksRun ==
  Platform => \/ focus = "hooks" /\ HooksProofs!Spec
              \/ []~(focus = "hooks")
<1>1. PlatformInit /\ focus = "hooks" => HooksProofs!Init BY SameHooks DEF PlatformInit
<1>2. [PlatformNext]_allVars /\ focus = "hooks" =>
        [HooksProofs!Next]_HooksProofs!vars /\ (focus = "hooks")'
  BY PartsStep, SameHooks
<1>3. [PlatformNext]_allVars /\ ~(focus = "hooks") => ~(focus = "hooks")' BY PartsStep
<1> QED BY <1>1, <1>2, <1>3, PTL DEF Platform, HooksProofs!Spec

LEMMA SpacesRun ==
  Platform => \/ focus = "spaces" /\ SpacesProofs!Spec
              \/ []~(focus = "spaces")
<1>1. PlatformInit /\ focus = "spaces" => SpacesProofs!Init BY SameSpaces DEF PlatformInit
<1>2. [PlatformNext]_allVars /\ focus = "spaces" =>
        [SpacesProofs!Next]_SpacesProofs!vars /\ (focus = "spaces")'
  BY PartsStep, SameSpaces
<1>3. [PlatformNext]_allVars /\ ~(focus = "spaces") => ~(focus = "spaces")' BY PartsStep
<1> QED BY <1>1, <1>2, <1>3, PTL DEF Platform, SpacesProofs!Spec

LEMMA SandboxRuns ==
  Platform => \/ focus = "sandbox" /\ Sandbox!Spec
              \/ []~(focus = "sandbox")
<1>1. PlatformInit /\ focus = "sandbox" => Sandbox!Init BY DEF PlatformInit
<1>2. [PlatformNext]_allVars /\ focus = "sandbox" =>
        [Sandbox!Next]_Sandbox!vars /\ (focus = "sandbox")'
  BY PartsStep
<1>3. [PlatformNext]_allVars /\ ~(focus = "sandbox") => ~(focus = "sandbox")' BY PartsStep
<1> QED BY <1>1, <1>2, <1>3, PTL DEF Platform, Sandbox!Spec

LEMMA ListsRun ==
  Platform => \/ focus = "lists" /\ Lists!Spec
              \/ []~(focus = "lists")
<1>1. PlatformInit /\ focus = "lists" => Lists!Init BY DEF PlatformInit
<1>2. [PlatformNext]_allVars /\ focus = "lists" =>
        [Lists!Next]_Lists!vars /\ (focus = "lists")'
  BY PartsStep
<1>3. [PlatformNext]_allVars /\ ~(focus = "lists") => ~(focus = "lists")' BY PartsStep
<1> QED BY <1>1, <1>2, <1>3, PTL DEF Platform, Lists!Spec

LEMMA ScreenRuns ==
  Platform => \/ focus = "screen" /\ Screen!Spec
              \/ []~(focus = "screen")
<1>1. PlatformInit /\ focus = "screen" => Screen!Init BY DEF PlatformInit
<1>2. [PlatformNext]_allVars /\ focus = "screen" =>
        [Screen!Next]_Screen!vars /\ (focus = "screen")'
  BY PartsStep
<1>3. [PlatformNext]_allVars /\ ~(focus = "screen") => ~(focus = "screen")' BY PartsStep
<1> QED BY <1>1, <1>2, <1>3, PTL DEF Platform, Screen!Spec

LEMMA DrawerRuns ==
  Platform => \/ focus = "drawer" /\ Drawer!Spec
              \/ []~(focus = "drawer")
<1>1. PlatformInit /\ focus = "drawer" => Drawer!Init BY DEF PlatformInit
<1>2. [PlatformNext]_allVars /\ focus = "drawer" =>
        [Drawer!Next]_Drawer!vars /\ (focus = "drawer")'
  BY PartsStep
<1>3. [PlatformNext]_allVars /\ ~(focus = "drawer") => ~(focus = "drawer")' BY PartsStep
<1> QED BY <1>1, <1>2, <1>3, PTL DEF Platform, Drawer!Spec

\* Whatever else runs beside them, overlapping calls to the payment providers pay once and as
\* asked, and are counted as they end.
THEOREM PlatformPaysAndCounts == Platform => []PaidAndCounted
<1>1. GatewayProofs!Spec => []GatewayProofs!PaidAndCounted
  BY PartsAssumption, GatewayProofs!CallsPayAsAsked, SameGateway
<1>2. ~(focus = "gateway") \/ GatewayProofs!PaidAndCounted => PaidAndCounted
  BY SameGateway DEF PaidAndCounted
<1> QED BY <1>1, <1>2, GatewayRuns, PTL

\* Whatever else runs beside it, the M-Pesa client sends no request with an expired token.
THEOREM PlatformTokensAreValid == Platform => []TokensAreValid
<1>1. GatewayProofs!Spec => []GatewayProofs!TokensAreValid
  BY PartsAssumption, GatewayProofs!TokensOutliveRequests, SameGateway
<1>2. ~(focus = "gateway") \/ GatewayProofs!TokensAreValid => TokensAreValid
  BY SameGateway DEF TokensAreValid
<1> QED BY <1>1, <1>2, GatewayRuns, PTL

\* Whatever else runs beside them, the poll loops mark no delivery as delivered that was not
\* accepted.
THEOREM PlatformDeliversOnlyAccepted == Platform => []DeliveredWasAccepted
<1>1. HooksProofs!Spec => []HooksProofs!DeliveredWasAccepted
  BY PartsAssumption, HooksProofs!DeliveredOnlyIfAccepted, SameHooks
<1>2. ~(focus = "hooks") \/ HooksProofs!DeliveredWasAccepted => DeliveredWasAccepted
  BY SameHooks DEF DeliveredWasAccepted
<1> QED BY <1>1, <1>2, HooksRun, PTL

\* Whatever else runs beside them, the dispatcher, the poll loops and the promotions leave no
\* delivery pending without a job, as long as nothing is lost.
THEOREM PlatformForgetsNoDelivery == Platform => []PendingHasJob
<1>1. HooksProofs!Spec => []HooksProofs!PendingHasJob
  BY PartsAssumption, HooksProofs!PendingIsNeverForgotten, SameHooks
<1>2. ~(focus = "hooks") \/ HooksProofs!PendingHasJob => PendingHasJob
  BY SameHooks DEF PendingHasJob
<1> QED BY <1>1, <1>2, HooksRun, PTL

\* Whatever else runs beside them, registrations and administrative actions are whole.
THEOREM PlatformDoesNothingByHalves == Platform => []NothingHalfDone
<1>1. SpacesProofs!Spec => []SpacesProofs!NothingHalfDone
  BY PartsAssumption, SpacesProofs!NothingIsHalfDone, SameSpaces
<1>2. ~(focus = "spaces") \/ SpacesProofs!NothingHalfDone => NothingHalfDone
  BY SameSpaces DEF NothingHalfDone
<1> QED BY <1>1, <1>2, SpacesRun, PTL

\* Whatever else runs beside it, the authentication serves a request a project of its user's
\* only.
THEOREM PlatformKeepsTenantsApart == Platform => []TenantsApart
<1>1. SpacesProofs!Spec => []SpacesProofs!TenantsApart
  BY PartsAssumption, SpacesProofs!TenantsStayApart, SameSpaces
<1>2. ~(focus = "spaces") \/ SpacesProofs!TenantsApart => TenantsApart
  BY SameSpaces DEF TenantsApart
<1> QED BY <1>1, <1>2, SpacesRun, PTL

\* Fundings of a test project that check the daily cap together exceed it by less than one
\* each, whatever a reset deletes meanwhile.
THEOREM PlatformKeepsNearCap == Platform => []FundingNearCap
<1>1. Sandbox!Spec => []Sandbox!FundingNearCap BY PartsAssumption, FundingsStayNearCap
<1>2. ~(focus = "sandbox") \/ Sandbox!FundingNearCap => FundingNearCap BY DEF FundingNearCap
<1> QED BY <1>1, <1>2, SandboxRuns, PTL

\* Walks along the cursors cover the list they began with, and the figures of a report were
\* right when they were counted, whatever is added and settled meanwhile.
THEOREM PlatformReadsAreRight == Platform => []ReadsAreRight
<1>1. Lists!Spec => []Lists!ReadsAreRight BY PartsAssumption, WalksCoverAndFiguresAreRecent
<1>2. ~(focus = "lists") \/ Lists!ReadsAreRight => ReadsAreRight BY DEF ReadsAreRight
<1> QED BY <1>1, <1>2, ListsRun, PTL

\* The receipt the drawer shows is that of the payment just authorized, whatever the user
\* opens and closes and however late the answers come.
THEOREM PlatformReceiptsAreOwn == Platform => []ReceiptIsOwn
<1>1. Drawer!Spec => []Drawer!ReceiptIsOwn BY PartsAssumption, ReceiptsAreOwn
<1>2. ~(focus = "drawer") \/ Drawer!ReceiptIsOwn => ReceiptIsOwn BY DEF ReceiptIsOwn
<1> QED BY <1>1, <1>2, DrawerRuns, PTL

\* A user who waits for the console acts on the project of the page, in its environment,
\* whichever other tab chooses another project and however late the answers come.
THEOREM PlatformActsOnItsPage == Platform => []ActsOnItsPage
<1>1. Screen!Spec => [](Screen!ActsOnItsPage /\ Screen!PageTellsTruth)
  BY PartsAssumption, ConsoleActsOnItsPage
<1>2. ~(focus = "screen") \/ Screen!ActsOnItsPage => ActsOnItsPage BY DEF ActsOnItsPage
<1> QED BY <1>1, <1>2, ScreenRuns, PTL

\* A page shows rows of its own project only, and no spinner that nothing will end.
THEOREM PlatformPagesTellTruth == Platform => []PageTellsTruth
<1>1. Screen!Spec => [](Screen!ActsOnItsPage /\ Screen!PageTellsTruth)
  BY PartsAssumption, ConsoleActsOnItsPage
<1>2. ~(focus = "screen") \/ Screen!PageTellsTruth => PageTellsTruth BY DEF PageTellsTruth
<1> QED BY <1>1, <1>2, ScreenRuns, PTL

\* Every part keeps the types of its state.
THEOREM PlatformIsTyped == Platform => []TypesOK
<1>1. Spec => []TypeOK BY IdempotentTypes
<1>2. GatewayProofs!Spec => []GatewayProofs!TypeOK
  BY PartsAssumption, SameGateway, GatewayProofs!CallsAreTyped
<1>3. HooksProofs!Spec => []HooksProofs!TypeOK
  BY PartsAssumption, SameHooks, HooksProofs!AttemptsAreBounded
<1>4. SpacesProofs!Spec => []SpacesProofs!TypeOK
  BY PartsAssumption, SameSpaces, SpacesProofs!StateIsTyped
<1>5. Sandbox!Spec => []Sandbox!TypeOK BY PartsAssumption, SandboxIsTyped
<1>6. Lists!Spec => []Lists!TypeOK BY PartsAssumption, ListsAreTyped
<1>7. Screen!Spec => []Screen!TypeOK BY PartsAssumption, ConsoleIsTyped
<1>8. Drawer!Spec => []Drawer!TypeOK BY PartsAssumption, DrawerIsTyped
<1>9. TypeOK /\ (~(focus = "gateway") \/ GatewayProofs!TypeOK)
             /\ (~(focus = "hooks") \/ HooksProofs!TypeOK)
             /\ (~(focus = "spaces") \/ SpacesProofs!TypeOK)
             /\ (~(focus = "sandbox") \/ Sandbox!TypeOK) /\ (~(focus = "lists") \/ Lists!TypeOK)
             /\ (~(focus = "screen") \/ Screen!TypeOK) /\ (~(focus = "drawer") \/ Drawer!TypeOK)
      => TypesOK
  BY SameGateway, SameHooks, SameSpaces DEF TypesOK
<1> QED BY <1>1, <1>2, <1>3, <1>4, <1>5, <1>6, <1>7, <1>8, <1>9, RequestsRun,
           GatewayRuns, HooksRun, SpacesRun, SandboxRuns, ListsRun, ScreenRuns, DrawerRuns, PTL

\* Who changes a project or its keys has a role for it then, whatever else runs beside.
THEOREM PlatformChangesAreAuthorized == Platform => ChangesAreAuthorized
<1>1. SpacesProofs!Spec => [][SpacesProofs!AuthorizedChange]_SpacesProofs!vars
  <2>1. SpacesProofs!Spec => SpacesProofs!ChangesAreAuthorized
    BY PartsAssumption, SameSpaces, SpacesProofs!ChangesStayAuthorized
  <2> QED BY <2>1 DEF SpacesProofs!ChangesAreAuthorized
<1>2. [PlatformNext]_allVars /\ [SpacesProofs!AuthorizedChange]_SpacesProofs!vars
        => [focus = "spaces" => Spaces!AuthorizedChange]_allVars
  BY SameSpaces DEF PlatformNext, allVars, spaceVars, SpacesProofs!vars, SpacesProofs!tenants
<1>3. [PlatformNext]_allVars /\ ~(focus = "spaces")
        => [focus = "spaces" => Spaces!AuthorizedChange]_allVars
  OBVIOUS
<1> QED BY <1>1, <1>2, <1>3, SpacesRun, PTL DEF Platform, ChangesAreAuthorized

\* A reset of a test project that commits leaves no wallet its last statement could see.
THEOREM PlatformResetsLeaveNoWallet == Platform => NoWalletSurvives
<1>1. Sandbox!Spec => [][Sandbox!NoneSurvive]_Sandbox!vars
  <2>1. Sandbox!Spec => Sandbox!NoWalletSurvives BY PartsAssumption, ResetsLeaveNoWallet
  <2> QED BY <2>1 DEF Sandbox!NoWalletSurvives
<1>2. [PlatformNext]_allVars /\ [Sandbox!NoneSurvive]_Sandbox!vars
        => [focus = "sandbox" => Sandbox!NoneSurvive]_allVars
  BY DEF PlatformNext, allVars, sandboxVars, Sandbox!vars
<1>3. [PlatformNext]_allVars /\ ~(focus = "sandbox")
        => [focus = "sandbox" => Sandbox!NoneSurvive]_allVars
  OBVIOUS
<1> QED BY <1>1, <1>2, <1>3, SandboxRuns, PTL DEF Platform, NoWalletSurvives
=============================================================================
