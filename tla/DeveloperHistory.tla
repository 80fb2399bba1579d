---------------------------- MODULE DeveloperHistory ----------------------------
(***************************************************************************)
(* DeveloperTransfers with its lost updates on record: which transfers and *)
(* idempotency records a request has written although another had written  *)
(* them since it read them.  Nothing in the code stops these writes; the   *)
(* history tells them apart from everything else that may go wrong, so     *)
(* that the properties below speak of requests that overlap in any way.    *)
(* The added variables restrict no step.                                   *)
(***************************************************************************)
EXTENDS DeveloperTransfers

VARIABLES
  outdated,    \* requests whose idempotency record was written after they read it
  overwritten, \* transfers whose status a request wrote over another's write
  taken        \* keys a request registered over another's record

history == <<outdated, overwritten, taken>>

\* Requests that have read the record of their key and not yet registered.
Registering == {v \in Worker : pc[v] \in {"reference", "register"}}

Outdates(v) == v \in Registering /\ record'[job[v].key] # record[job[v].key]

\* An initiation registers over a record it has not seen.
RegistersOver(k) == \E w \in outdated : Register(w) /\ job[w].key = k

HInit == Init /\ outdated = {} /\ overwritten = {} /\ taken = {}

HNext ==
  /\ Next
  /\ outdated' = {v \in outdated \cup {u \in Worker : Outdates(u)} : v \in Registering'}
  /\ overwritten' = overwritten \cup {r \in Ref : WritesOver(r)}
  /\ taken' = taken \cup {k \in Key : RegistersOver(k)}

HSpec == HInit /\ [][HNext]_<<vars, history>>

-----------------------------------------------------------------------------
(* Properties.                                                             *)

\* An event marked processed, which is refused as a duplicate from then on, has left
\* the outcome of one of its webhooks in the transfer, whatever overlaps, unless a
\* request wrote over that outcome.
ProcessedEventsHold ==
  \A r \in Ref \ overwritten, e \in Event :
    e[1] = r /\ event[e] = "processed" =>
      \E s \in Outcome : EventOf(r, s) = e /\ IsValid(s, status[r])

\* The references the provider has accepted under key k.
PaidUnder(k) == {r \in Ref : \E i \in DOMAIN dispatched[r] : dispatched[r][i] = k}

\* One idempotency key disburses once, however requests, retries and other payloads
\* under it overlap, unless a request registered over a record it had not seen.
KeyDisbursesOnce == \A k \in Key \ taken : Cardinality(PaidUnder(k)) <= 1

\* An early webhook was ignored, and the repetitions of all the others that share its
\* id are refused as duplicates.
Silenced(r) == r \in Identified /\ event[EventOf(r, "successful")] = "ignored"

=============================================================================
