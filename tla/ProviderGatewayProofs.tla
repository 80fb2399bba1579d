--------------------------- MODULE ProviderGatewayProofs ---------------------------
(***************************************************************************)
(* Proofs about the provider adapters, for any number of overlapping calls *)
(* and for any forms, accounts and recipient codes.                        *)
(*                                                                         *)
(* What a call pays and sends depends on what it read from shared state    *)
(* before an await.  CallInv says what still holds of it afterwards: a     *)
(* code Paystack has issued keeps its account whatever the cache holds by  *)
(* now, and a token lasts for the whole of the request it is taken for.    *)
(***************************************************************************)
EXTENDS ProviderGateway, FiniteSetTheorems, SequenceTheorems, TLAPS

-----------------------------------------------------------------------------
(* The inductive invariant.                                                *)

BankStep == {"naming", "creating", "sending"}
MobileStep == {"token", "fetching", "v3", "v1"}
Awaiting == {"fetching", "v3", "v1", "querying"}

\* Which steps a form can lead to.
RouteInv(c) ==
  LET f == FormOf(c)
      step == call[c].step
  IN /\ step \in BankStep =>
          f.kind = "payout" /\ ProviderOf(f) = "paystack" /\ f.account # NoAccount
     /\ step \in MobileStep /\ f.kind = "payout" =>
          ProviderOf(f) = "mpesa" /\ MpesaTakes(f)
     /\ step = "token" => f.kind # "probe"
     /\ step \in {"v3", "v1"} => f.kind = "payout"
     /\ step = "querying" => f.kind = "query"

\* The recipient code of a transfer belongs to the account of its form.
RecipientInv(c) ==
  call[c].step = "sending" =>
    call[c].recipient \in Recipient /\ holder[call[c].recipient] = FormOf(c).account

\* No request outlives its timeout, and the token of a request lasts for another one
\* until the request has fallen back.
TokenInv(c) ==
  /\ call[c].step \in Awaiting => call[c].sent <= now /\ now <= call[c].sent + Timeout
  /\ call[c].step \in {"v3", "querying"} =>
       call[c].token \in Token /\ call[c].sent + Timeout < call[c].token.until
  /\ call[c].step = "v1" =>
       call[c].token \in Token /\ call[c].sent < call[c].token.until

\* A payout that was executed is the one its form asks for.
RightPayout(p, f) ==
  IF p.provider = "paystack" THEN p.account = f.account /\ p.amount = f.amount
  ELSE /\ p.currency = Currency(f)
       /\ f.amount >= 100 => 100 * p.amount - f.amount \in -50..50

PaidInv(c) ==
  \/ paid[c] = <<>>
  \/ call[c].step = "done" /\ Len(paid[c]) = 1 /\ RightPayout(paid[c][1], FormOf(c))

CallInv(c) == RouteInv(c) /\ RecipientInv(c) /\ TokenInv(c) /\ PaidInv(c)

\* A cached code belongs to the account it is cached for.
CacheInv ==
  \A a \in Account :
    recipientCache[a] # NoRecipient => holder[recipientCache[a]] = a

\* The cached token says no more of its expiry than is true.
CachedTokenInv == cachedToken # NoToken => cachedToken.expiresAt <= cachedToken.until

IInv ==
  /\ TypeOK /\ CacheInv /\ CachedTokenInv /\ MetricsAccount
  /\ \A c \in Call : CallInv(c)

-----------------------------------------------------------------------------
(* Lemmas about the operators.                                             *)

\* The fields of a call and of its form.
LEMMA CallFields ==
  ASSUME TypeOK, NEW c \in Call
  PROVE  /\ call[c] \in CallType
         /\ call[c].step \in Step /\ call[c].sent \in Nat
         /\ call[c].recipient \in Recipient \cup {NoRecipient}
         /\ call[c].token \in Token \cup {NoToken}
         /\ FormOf(c) \in FormType
         /\ FormOf(c).kind \in {"payout", "query", "probe"}
         /\ FormOf(c).account \in Account \cup {NoAccount}
         /\ FormOf(c).phone \in BOOLEAN /\ FormOf(c).amount \in Nat \ {0}
         /\ Currency(FormOf(c)) \in {"NGN", "KES", "USD"}
<1>1. call[c] \in CallType
  BY DEF TypeOK
<1>2. FormOf(c) \in FormType /\ call[c].step \in Step /\ call[c].sent \in Nat
      /\ call[c].recipient \in Recipient \cup {NoRecipient}
      /\ call[c].token \in Token \cup {NoToken}
  BY <1>1 DEF FormOf, CallType
<1>3. Currency(FormOf(c)) \in {"NGN", "KES", "USD"}
  BY <1>2 DEF FormType, Currency
<1> QED  BY <1>1, <1>2, <1>3 DEF FormType

\* Rounding to whole shillings is off by at most half a shilling.
LEMMA ShillingsAreClose ==
  ASSUME NEW n \in Nat
  PROVE  /\ Shillings(n) \in Nat
         /\ n >= 100 => 100 * Shillings(n) - n \in -50..50
<1>1. PICK q \in Nat, r \in 0..99 : n + 50 = 100 * q + r
  <2>1. (n + 50) \div 100 \in Nat /\ (n + 50) % 100 \in 0..99
        /\ n + 50 = 100 * ((n + 50) \div 100) + ((n + 50) % 100)
    OBVIOUS
  <2> QED  BY <2>1
<1>2. Rounded(n) = q
  BY <1>1 DEF Rounded
<1> QED  BY <1>1, <1>2 DEF Shillings

\* What a step of one call leaves of the calls.
LEMMA CallStep ==
  ASSUME TypeOK, NEW c \in Call, NEW k \in CallType, k.form = FormOf(c),
         call' = [call EXCEPT ![c] = k]
  PROVE  /\ call' \in [Call -> CallType]
         /\ call'[c] = k
         /\ \A d \in Call \ {c} : call'[d] = call[d]
         /\ \A d \in Call : FormOf(d)' = FormOf(d)
BY DEF TypeOK, FormOf

\* A call that only goes to another step.
LEMMA StepFields ==
  ASSUME TypeOK, NEW c \in Call, NEW s \in Step
  PROVE  /\ [call[c] EXCEPT !.step = s] \in CallType
         /\ [call[c] EXCEPT !.step = s].step = s
         /\ [call[c] EXCEPT !.step = s].form = FormOf(c)
<1>1. call[c] \in CallType
  BY DEF TypeOK
<1> QED  BY <1>1 DEF CallType, FormOf

-----------------------------------------------------------------------------
(* The counters.                                                           *)

Underway(p) ==
  {c \in Call : /\ FormOf(c).kind = "payout" /\ ProviderOf(FormOf(c)) = p
                /\ call[c].step \notin {"new", "done"}}

\* A step of one call changes the number of payouts under way by that call alone.
LEMMA UnderwayCount ==
  ASSUME ConstantsOK, NEW c \in Call, NEW p,
         \A d \in Call \ {c} : call'[d] = call[d]
  PROVE  \E n \in Nat :
           /\ Cardinality(Underway(p)) = n + One(c \in Underway(p))
           /\ Cardinality(Underway(p)') = n + One(c \in Underway(p)')
<1> DEFINE U == Underway(p)
           V == Underway(p)'
           R == U \ {c}
<1>1. IsFiniteSet(Call) /\ U \subseteq Call /\ V \subseteq Call
  BY DEF ConstantsOK, Underway
<1>2. R = V \ {c} /\ R = U \ {c}
  BY DEF Underway, FormOf
<1> HIDE DEF U, V, R
<1>3. IsFiniteSet(U) /\ IsFiniteSet(V) /\ IsFiniteSet(R)
  BY <1>1, <1>2, FS_Subset
<1>4. Cardinality(R) \in Nat
  BY <1>3, FS_CardinalityType
<1>5. Cardinality(U) = Cardinality(R) + One(c \in U)
  <2>1. CASE c \in U
    <3>1. U = R \cup {c} /\ c \notin R
      BY <1>2, <2>1
    <3>2. Cardinality(R \cup {c}) = Cardinality(R) + 1
      BY <1>3, <3>1, FS_AddElement
    <3>3. One(c \in U) = 1
      BY <2>1 DEF One
    <3> QED  BY <3>1, <3>2, <3>3
  <2>2. CASE c \notin U
    <3>1. U = R
      BY <1>2, <2>2
    <3> QED  BY <2>2, <3>1, <1>4 DEF One
  <2> QED  BY <2>1, <2>2
<1>6. Cardinality(V) = Cardinality(R) + One(c \in V)
  <2>1. CASE c \in V
    <3>1. V = R \cup {c} /\ c \notin R
      BY <1>2, <2>1
    <3>2. Cardinality(R \cup {c}) = Cardinality(R) + 1
      BY <1>3, <3>1, FS_AddElement
    <3>3. One(c \in V) = 1
      BY <2>1 DEF One
    <3> QED  BY <3>1, <3>2, <3>3
  <2>2. CASE c \notin V
    <3>1. V = R
      BY <1>2, <2>2
    <3> QED  BY <2>2, <3>1, <1>4 DEF One
  <2> QED  BY <2>1, <2>2
<1> QED  BY <1>4, <1>5, <1>6 DEF U, V

\* The counters after a request or an outcome.
LEMMA CountedFields ==
  ASSUME TypeOK, NEW p \in Provider, NEW requests \in {0, 1}, NEW outcome,
         Counted(p, requests, outcome)
  PROVE  /\ metrics' \in [Provider -> [requests : Nat, successes : Nat, failures : Nat]]
         /\ metrics'[p].requests = metrics[p].requests + requests
         /\ metrics'[p].successes = metrics[p].successes + One("successes" \in outcome)
         /\ metrics'[p].failures = metrics[p].failures + One("failures" \in outcome)
         /\ \A q \in Provider \ {p} : metrics'[q] = metrics[q]
<1> DEFINE m == [requests |-> metrics[p].requests + requests,
                 successes |-> metrics[p].successes + One("successes" \in outcome),
                 failures |-> metrics[p].failures + One("failures" \in outcome)]
<1>1. metrics \in [Provider -> [requests : Nat, successes : Nat, failures : Nat]]
  BY DEF TypeOK
<1>2. metrics' = [metrics EXCEPT ![p] = m]
  BY DEF Counted
<1>3. One("successes" \in outcome) \in Nat /\ One("failures" \in outcome) \in Nat
  BY DEF One
<1>4. m \in [requests : Nat, successes : Nat, failures : Nat]
  BY <1>1, <1>3
<1>5. /\ m.requests = metrics[p].requests + requests
      /\ m.successes = metrics[p].successes + One("successes" \in outcome)
      /\ m.failures = metrics[p].failures + One("failures" \in outcome)
  OBVIOUS
<1> HIDE DEF m
<1> QED  BY <1>1, <1>2, <1>4, <1>5

\* The counters of one provider keep up with its payouts: the requests grow by as much
\* as those under way and those that have ended together.
LEMMA MetricsKeepUp ==
  ASSUME ConstantsOK, TypeOK, MetricsAccount, NEW c \in Call,
         \A d \in Call \ {c} : call'[d] = call[d],
         metrics' \in [Provider -> [requests : Nat, successes : Nat, failures : Nat]],
         \A p \in Provider :
           (metrics'[p].successes - metrics[p].successes)
             + (metrics'[p].failures - metrics[p].failures)
             + One(c \in Underway(p)')
           <= (metrics'[p].requests - metrics[p].requests) + One(c \in Underway(p))
  PROVE  MetricsAccount'
<1> SUFFICES ASSUME NEW p \in Provider
             PROVE  metrics'[p].successes + metrics'[p].failures
                      + Cardinality(Underway(p)') <= metrics'[p].requests
  BY DEF MetricsAccount, Underway
<1>1. PICK n \in Nat :
        /\ Cardinality(Underway(p)) = n + One(c \in Underway(p))
        /\ Cardinality(Underway(p)') = n + One(c \in Underway(p)')
  BY UnderwayCount
<1>2. metrics[p].successes + metrics[p].failures + Cardinality(Underway(p))
        <= metrics[p].requests
  BY DEF MetricsAccount, Underway
<1>3. /\ metrics[p] \in [requests : Nat, successes : Nat, failures : Nat]
      /\ metrics'[p] \in [requests : Nat, successes : Nat, failures : Nat]
  BY DEF TypeOK
<1>4. One(c \in Underway(p)) \in Nat /\ One(c \in Underway(p)') \in Nat
  BY DEF One
<1>5. (metrics'[p].successes - metrics[p].successes)
        + (metrics'[p].failures - metrics[p].failures)
        + One(c \in Underway(p)')
      <= (metrics'[p].requests - metrics[p].requests) + One(c \in Underway(p))
  OBVIOUS
<1> QED  BY <1>1, <1>2, <1>3, <1>4, <1>5

-----------------------------------------------------------------------------
(* What the other calls may rely on.                                       *)

\* Paystack does not give a code it has issued to another account.
HoldersStay == \A r \in Recipient : holder[r] # NoAccount => holder'[r] = holder[r]

\* A call that another one overlaps with.
LEMMA OthersSurvive ==
  ASSUME IInv, NEW c \in Call, call'[c] = call[c], paid'[c] = paid[c], UNCHANGED now,
         HoldersStay
  PROVE  CallInv(c)'
<1>1. CallInv(c) /\ FormOf(c)' = FormOf(c)
  BY DEF IInv, FormOf
<1>2. RouteInv(c)' /\ TokenInv(c)' /\ PaidInv(c)'
  BY <1>1 DEF CallInv, RouteInv, TokenInv, PaidInv
<1>3. RecipientInv(c)'
  <2>1. ASSUME call[c].step = "sending"
        PROVE  /\ call[c].recipient \in Recipient
               /\ holder'[call[c].recipient] = FormOf(c).account
    <3>1. /\ call[c].recipient \in Recipient
          /\ holder[call[c].recipient] = FormOf(c).account
          /\ FormOf(c).account # NoAccount
      BY <1>1, <2>1 DEF CallInv, RecipientInv, RouteInv, BankStep
    <3> QED  BY <3>1 DEF HoldersStay
  <2> QED  BY <1>1, <2>1 DEF RecipientInv
<1> QED  BY <1>2, <1>3 DEF CallInv

\* A step of one call, once that call and the shared state are right.
LEMMA Closing ==
  ASSUME IInv, NEW c \in Call, \A d \in Call \ {c} : call'[d] = call[d] /\ paid'[d] = paid[d],
         UNCHANGED now, HoldersStay,
         TypeOK', CacheInv', CachedTokenInv', MetricsAccount', CallInv(c)'
  PROVE  IInv'
<1>1. \A d \in Call \ {c} : CallInv(d)'
  BY OthersSurvive
<1> QED  BY <1>1 DEF IInv

\* A call that is neither new nor done has paid nothing yet.
LEMMA NothingPaid ==
  ASSUME IInv, NEW c \in Call, call[c].step # "done"
  PROVE  paid[c] = <<>>
BY DEF IInv, CallInv, PaidInv

\* A step that keeps a payout under way, or begins what is not counted.
LEMMA OnlyMoves ==
  ASSUME ConstantsOK, IInv, NEW c \in Call, NEW k \in CallType, k.form = FormOf(c),
         call' = [call EXCEPT ![c] = k],
         k.step # "done", call[c].step # "done",
         FormOf(c).kind = "payout" => call[c].step # "new",
         UNCHANGED <<now, recipientCache, holder, payments>>,
         cachedToken' \in Token \cup {NoToken}, CachedTokenInv',
         RouteInv(c)', RecipientInv(c)', TokenInv(c)'
  PROVE  IInv'
<1>1. /\ call' \in [Call -> CallType] /\ call'[c] = k
      /\ \A d \in Call \ {c} : call'[d] = call[d]
      /\ \A d \in Call : FormOf(d)' = FormOf(d)
  BY CallStep DEF IInv
<1>2. TypeOK'
  BY <1>1 DEF IInv, TypeOK, payments
<1>3. CacheInv' /\ HoldersStay
  BY DEF IInv, CacheInv, HoldersStay
<1>4. MetricsAccount'
  <2>1. \A p \in Provider : c \in Underway(p)' => c \in Underway(p)
    BY <1>1 DEF Underway
  <2>2. \A p \in Provider : One(c \in Underway(p)') <= One(c \in Underway(p))
    BY <2>1 DEF One
  <2>3. metrics' \in [Provider -> [requests : Nat, successes : Nat, failures : Nat]]
        /\ metrics' = metrics
    BY DEF IInv, TypeOK, payments
  <2>4. ASSUME NEW p \in Provider
        PROVE  (metrics'[p].successes - metrics[p].successes)
                 + (metrics'[p].failures - metrics[p].failures)
                 + One(c \in Underway(p)')
               <= (metrics'[p].requests - metrics[p].requests) + One(c \in Underway(p))
    <3>1. One(c \in Underway(p)') \in Nat /\ One(c \in Underway(p)) \in Nat
      BY DEF One
    <3>2. metrics[p] \in [requests : Nat, successes : Nat, failures : Nat]
      BY <2>3
    <3> QED  BY <2>2, <2>3, <3>1, <3>2
  <2> QED  BY <1>1, <2>3, <2>4, MetricsKeepUp DEF IInv
<1>5. PaidInv(c)'
  <2>1. paid[c] = <<>>
    BY NothingPaid
  <2> QED  BY <2>1 DEF PaidInv, payments
<1>6. CallInv(c)'
  BY <1>5 DEF CallInv
<1>7. \A d \in Call \ {c} : call'[d] = call[d] /\ paid'[d] = paid[d]
  BY <1>1 DEF payments
<1> QED  BY <1>2, <1>3, <1>4, <1>6, <1>7, Closing

\* A payout that begins is counted as a request.
LEMMA Begins ==
  ASSUME ConstantsOK, IInv, NEW c \in Call, NEW k \in CallType, k.form = FormOf(c),
         call' = [call EXCEPT ![c] = k],
         call[c].step = "new", k.step \notin {"new", "done"},
         NEW p \in Provider, ProviderOf(FormOf(c)) = p, Request(p),
         UNCHANGED <<now, recipientCache, holder, cachedToken, paid, reply>>,
         RouteInv(c)', RecipientInv(c)', TokenInv(c)'
  PROVE  IInv'
<1>1. /\ call' \in [Call -> CallType] /\ call'[c] = k
      /\ \A d \in Call \ {c} : call'[d] = call[d]
      /\ \A d \in Call : FormOf(d)' = FormOf(d)
  BY CallStep DEF IInv
<1>2. /\ metrics' \in [Provider -> [requests : Nat, successes : Nat, failures : Nat]]
      /\ metrics'[p].requests = metrics[p].requests + 1
      /\ metrics'[p].successes = metrics[p].successes + One("successes" \in {})
      /\ metrics'[p].failures = metrics[p].failures + One("failures" \in {})
      /\ \A q \in Provider \ {p} : metrics'[q] = metrics[q]
  BY CountedFields DEF IInv, Request
<1>3. TypeOK'
  BY <1>1, <1>2 DEF IInv, TypeOK
<1>4. CacheInv' /\ HoldersStay /\ CachedTokenInv'
  BY DEF IInv, CacheInv, HoldersStay, CachedTokenInv
<1>5. MetricsAccount'
  <2>1. ASSUME NEW q \in Provider
        PROVE  (metrics'[q].successes - metrics[q].successes)
                 + (metrics'[q].failures - metrics[q].failures)
                 + One(c \in Underway(q)')
               <= (metrics'[q].requests - metrics[q].requests) + One(c \in Underway(q))
    <3>1. metrics[q] \in [requests : Nat, successes : Nat, failures : Nat]
      BY DEF IInv, TypeOK
    <3>2. One(c \in Underway(q)') \in 0..1 /\ One(c \in Underway(q)) \in 0..1
      BY DEF One
    <3>3. CASE q = p
      <4>1. /\ metrics'[q].requests = metrics[q].requests + 1
            /\ metrics'[q].successes = metrics[q].successes
            /\ metrics'[q].failures = metrics[q].failures
        BY <1>2, <3>1, <3>3 DEF One
      <4> QED  BY <3>1, <3>2, <4>1
    <3>4. CASE q # p
      <4>1. c \notin Underway(q)'
        BY <1>1, <3>4 DEF Underway
      <4>2. One(c \in Underway(q)') = 0 /\ metrics'[q] = metrics[q]
        BY <1>2, <3>4, <4>1 DEF One
      <4> QED  BY <3>1, <3>2, <4>2
    <3> QED  BY <3>3, <3>4
  <2> QED  BY <1>1, <1>2, <2>1, MetricsKeepUp DEF IInv
<1>6. CallInv(c)'
  BY NothingPaid DEF CallInv, PaidInv
<1> QED  BY <1>1, <1>3, <1>4, <1>5, <1>6, Closing

\* A call that ends: it has paid nothing, or once and as its form asks.
LEMMA Ends ==
  ASSUME ConstantsOK, IInv, NEW c \in Call, call[c].step # "done",
         call' = [call EXCEPT ![c].step = "done"],
         UNCHANGED <<now, recipientCache, holder>>,
         cachedToken' \in Token \cup {NoToken}, CachedTokenInv',
         reply' \in [Call -> Reply],
         \/ UNCHANGED paid
         \/ \E p \in Payout : Pays(c, p) /\ RightPayout(p, FormOf(c)),
         metrics' \in [Provider -> [requests : Nat, successes : Nat, failures : Nat]],
         MetricsAccount'
  PROVE  IInv'
<1> DEFINE k == [call[c] EXCEPT !.step = "done"]
<1>1. k \in CallType /\ k.step = "done" /\ k.form = FormOf(c)
  BY StepFields DEF IInv, Step
<1>2. call' = [call EXCEPT ![c] = k]
  OBVIOUS
<1> HIDE DEF k
<1>3. /\ call' \in [Call -> CallType] /\ call'[c] = k
      /\ \A d \in Call \ {c} : call'[d] = call[d]
      /\ \A d \in Call : FormOf(d)' = FormOf(d)
  BY <1>1, <1>2, CallStep DEF IInv
<1>4. paid \in [Call -> Seq(Payout)] /\ paid[c] = <<>>
  BY NothingPaid DEF IInv, TypeOK
<1>5. /\ paid' \in [Call -> Seq(Payout)]
      /\ \A d \in Call \ {c} : paid'[d] = paid[d]
      /\ \/ paid'[c] = <<>>
         \/ Len(paid'[c]) = 1 /\ RightPayout(paid'[c][1], FormOf(c))
  <2>1. CASE UNCHANGED paid
    BY <2>1, <1>4
  <2>2. ASSUME NEW p \in Payout, Pays(c, p), RightPayout(p, FormOf(c))
        PROVE  /\ paid' \in [Call -> Seq(Payout)]
               /\ \A d \in Call \ {c} : paid'[d] = paid[d]
               /\ Len(paid'[c]) = 1 /\ RightPayout(paid'[c][1], FormOf(c))
    <3> DEFINE a == Append(paid[c], p)
    <3>1. paid' = [paid EXCEPT ![c] = a]
      BY <2>2 DEF Pays
    <3>2. a \in Seq(Payout) /\ Len(a) = 1 /\ a[1] = p
      BY <1>4
    <3> HIDE DEF a
    <3>3. paid'[c] = a
      BY <1>4, <3>1
    <3> QED  BY <1>4, <2>2, <3>1, <3>2, <3>3
  <2> QED  BY <2>1, <2>2
<1>6. TypeOK'
  BY <1>3, <1>5 DEF IInv, TypeOK
<1>7. CacheInv' /\ HoldersStay
  BY DEF IInv, CacheInv, HoldersStay
<1>8. CallInv(c)'
  BY <1>1, <1>3, <1>5 DEF CallInv, RouteInv, RecipientInv, TokenInv, PaidInv, BankStep,
     MobileStep, Awaiting
<1> QED  BY <1>3, <1>5, <1>6, <1>7, <1>8, Closing

\* A payout that is under way, or is rejected as it begins, has its outcome counted;
\* what is not a payout is not.
LEMMA Finishes ==
  ASSUME ConstantsOK, IInv, NEW c \in Call, call[c].step # "done",
         NEW r \in {"accepted", "failed"}, Finish(c, r),
         FormOf(c).kind = "payout" => ProviderOf(FormOf(c)) \in Provider,
         UNCHANGED <<now, recipientCache, holder>>,
         cachedToken' \in Token \cup {NoToken}, CachedTokenInv',
         \/ UNCHANGED paid
         \/ \E p \in Payout : Pays(c, p) /\ RightPayout(p, FormOf(c))
  PROVE  IInv'
<1>1. /\ call' = [call EXCEPT ![c].step = "done"]
      /\ reply' = [reply EXCEPT ![c] = r]
  BY DEF Finish
<1>2. reply' \in [Call -> Reply]
  BY <1>1 DEF IInv, TypeOK, Reply
<1>3. /\ \A d \in Call \ {c} : call'[d] = call[d]
      /\ call'[c].step = "done"
  <2> DEFINE k == [call[c] EXCEPT !.step = "done"]
  <2>1. k \in CallType /\ k.step = "done" /\ k.form = FormOf(c)
    BY StepFields DEF IInv, Step
  <2>2. call' = [call EXCEPT ![c] = k]
    BY <1>1
  <2> HIDE DEF k
  <2> QED  BY <2>1, <2>2, CallStep DEF IInv
<1>4. \A q : c \notin Underway(q)'
  BY <1>3 DEF Underway
<1>5. \A q : One(c \in Underway(q)') = 0
  BY <1>4 DEF One
<1>6. \A q \in Provider : metrics[q] \in [requests : Nat, successes : Nat, failures : Nat]
  BY DEF IInv, TypeOK
<1>7. /\ metrics' \in [Provider -> [requests : Nat, successes : Nat, failures : Nat]]
      /\ \A q \in Provider :
           (metrics'[q].successes - metrics[q].successes)
             + (metrics'[q].failures - metrics[q].failures)
             + One(c \in Underway(q)')
           <= (metrics'[q].requests - metrics[q].requests) + One(c \in Underway(q))
  <2>1. CASE FormOf(c).kind # "payout"
    <3>1. UNCHANGED metrics
      BY <2>1 DEF Finish
    <3>2. ASSUME NEW q \in Provider
          PROVE  (metrics'[q].successes - metrics[q].successes)
                   + (metrics'[q].failures - metrics[q].failures)
                   + One(c \in Underway(q)')
                 <= (metrics'[q].requests - metrics[q].requests) + One(c \in Underway(q))
      <4>1. One(c \in Underway(q)) \in 0..1 /\ One(c \in Underway(q)') = 0
        BY <1>5 DEF One
      <4> QED  BY <1>6, <3>1, <4>1
    <3> QED  BY <3>1, <3>2 DEF IInv, TypeOK
  <2>2. CASE FormOf(c).kind = "payout"
    <3> DEFINE p == ProviderOf(FormOf(c))
               n == One(At(c, "new"))
    <3>1. p \in Provider /\ n \in {0, 1} /\ Counted(p, n, Outcome(c, r))
      BY <2>2 DEF Finish, One
    <3>2. One("successes" \in Outcome(c, r)) + One("failures" \in Outcome(c, r)) = 1
          /\ One("successes" \in Outcome(c, r)) \in Nat
          /\ One("failures" \in Outcome(c, r)) \in Nat
      BY DEF One, Outcome
    <3>3. One(c \in Underway(p)) + n = 1
      BY <2>2 DEF Underway, One, At
    <3>4. \A q \in Provider \ {p} : c \notin Underway(q)
      BY DEF Underway
    <3> HIDE DEF p, n
    <3>5. /\ metrics' \in [Provider -> [requests : Nat, successes : Nat, failures : Nat]]
          /\ metrics'[p].requests = metrics[p].requests + n
          /\ metrics'[p].successes
               = metrics[p].successes + One("successes" \in Outcome(c, r))
          /\ metrics'[p].failures = metrics[p].failures + One("failures" \in Outcome(c, r))
          /\ \A q \in Provider \ {p} : metrics'[q] = metrics[q]
      BY <3>1, CountedFields DEF IInv
    <3>6. ASSUME NEW q \in Provider
          PROVE  (metrics'[q].successes - metrics[q].successes)
                   + (metrics'[q].failures - metrics[q].failures)
                   + One(c \in Underway(q)')
                 <= (metrics'[q].requests - metrics[q].requests) + One(c \in Underway(q))
      <4>1. One(c \in Underway(q)) \in 0..1 /\ One(c \in Underway(q)') = 0
        BY <1>5 DEF One
      <4>2. CASE q = p
        <5>1. PICK s \in Nat, f \in Nat :
                /\ s = One("successes" \in Outcome(c, r))
                /\ f = One("failures" \in Outcome(c, r))
                /\ s + f = 1
          BY <3>2
        <5>2. /\ metrics'[q].requests = metrics[q].requests + n
              /\ metrics'[q].successes = metrics[q].successes + s
              /\ metrics'[q].failures = metrics[q].failures + f
              /\ One(c \in Underway(q)) + n = 1
          BY <3>3, <3>5, <4>2, <5>1
        <5>3. /\ metrics[q].requests \in Nat /\ metrics[q].successes \in Nat
              /\ metrics[q].failures \in Nat
          BY <1>6
        <5> QED  BY <3>1, <4>1, <5>1, <5>2, <5>3
      <4>3. CASE q # p
        BY <1>6, <3>5, <4>1, <4>3
      <4> QED  BY <4>2, <4>3
    <3> QED  BY <3>5, <3>6
  <2> QED  BY <2>1, <2>2
<1>8. MetricsAccount'
  BY <1>3, <1>7, MetricsKeepUp DEF IInv
<1> QED  BY <1>1, <1>2, <1>7, <1>8, Ends

\* A call that ends without its outcome counted.
LEMMA UncountedEnd ==
  ASSUME ConstantsOK, IInv, NEW c \in Call, call' = [call EXCEPT ![c].step = "done"],
         UNCHANGED metrics
  PROVE  MetricsAccount'
<1>1. /\ \A d \in Call \ {c} : call'[d] = call[d]
      /\ call'[c].step = "done"
  <2> DEFINE k == [call[c] EXCEPT !.step = "done"]
  <2>1. k \in CallType /\ k.step = "done" /\ k.form = FormOf(c)
    BY StepFields DEF IInv, Step
  <2>2. call' = [call EXCEPT ![c] = k]
    OBVIOUS
  <2> HIDE DEF k
  <2> QED  BY <2>1, <2>2, CallStep DEF IInv
<1>2. metrics' \in [Provider -> [requests : Nat, successes : Nat, failures : Nat]]
      /\ metrics' = metrics
  BY DEF IInv, TypeOK
<1>3. ASSUME NEW q \in Provider
      PROVE  (metrics'[q].successes - metrics[q].successes)
               + (metrics'[q].failures - metrics[q].failures)
               + One(c \in Underway(q)')
             <= (metrics'[q].requests - metrics[q].requests) + One(c \in Underway(q))
  <2>1. c \notin Underway(q)'
    BY <1>1 DEF Underway
  <2>2. One(c \in Underway(q)) \in 0..1 /\ One(c \in Underway(q)') = 0
    BY <2>1 DEF One
  <2>3. metrics[q] \in [requests : Nat, successes : Nat, failures : Nat]
    BY <1>2
  <2> QED  BY <1>2, <2>2, <2>3
<1> QED  BY <1>1, <1>2, <1>3, MetricsKeepUp DEF IInv

-----------------------------------------------------------------------------
(* The steps, one by one.                                                  *)

\* What is cached stays what it was.
LEMMA SameToken ==
  ASSUME IInv, UNCHANGED cachedToken
  PROVE  cachedToken' \in Token \cup {NoToken} /\ CachedTokenInv'
BY DEF IInv, TypeOK, CachedTokenInv

LEMMA AreSteps ==
  {"token", "fetching", "v3", "v1", "querying", "creating", "sending", "done"} \subseteq Step
BY DEF Step

LEMMA NowIsNatural ==
  ASSUME ConstantsOK, IInv
  PROVE  now \in Nat
BY DEF IInv, TypeOK, ConstantsOK

\* A request that is sent moves the call and leaves it its token.
LEMMA AwaitStep ==
  ASSUME ConstantsOK, IInv, NEW c \in Call, NEW s \in Step, Await(c, s)
  PROVE  \E k \in CallType :
           /\ call' = [call EXCEPT ![c] = k]
           /\ k.step = s /\ k.form = FormOf(c) /\ k.token = call[c].token /\ k.sent = now
<1> DEFINE k == [call[c] EXCEPT !.step = s, !.sent = now]
<1>1. call' = [call EXCEPT ![c] = k]
  BY DEF Await, IInv, TypeOK, CallType
<1>2. now \in Nat /\ call[c] \in CallType
  BY NowIsNatural DEF IInv, TypeOK
<1>3. k \in CallType /\ k.step = s /\ k.form = FormOf(c) /\ k.token = call[c].token /\ k.sent = now
  BY <1>2 DEF CallType, FormOf
<1> HIDE DEF k
<1> QED  BY <1>1, <1>3

\* A refused request leaves no trace but its reply.
LEMMA RefuseStep ==
  ASSUME ConstantsOK, IInv, NEW c \in Call, Refuse(c)
  PROVE  IInv'
<1>1. /\ call' = [call EXCEPT ![c].step = "done"] /\ call[c].step = "new"
      /\ reply' = [reply EXCEPT ![c] = "invalid"]
      /\ UNCHANGED <<now, recipientCache, holder, cachedToken, paid, metrics>>
  BY DEF Refuse, At
<1>2. reply' \in [Call -> Reply]
  BY <1>1 DEF IInv, TypeOK, Reply
<1>3. metrics' \in [Provider -> [requests : Nat, successes : Nat, failures : Nat]]
  BY <1>1 DEF IInv, TypeOK
<1>4. MetricsAccount'
  BY <1>1, <1>3, UncountedEnd
<1> QED  BY <1>1, <1>2, <1>3, <1>4, SameToken, Ends

\* PaystackAdapter.initiateTransfer begins.
LEMMA StartPaystackStep ==
  ASSUME ConstantsOK, IInv, NEW c \in Call, StartPaystack(c)
  PROVE  IInv'
<1> DEFINE f == FormOf(c)
           known == recipientCache[f.account]
           s == IF known # NoRecipient THEN "sending" ELSE IF f.name THEN "creating" ELSE "naming"
           k == [call[c] EXCEPT !.step = s, !.recipient = known]
<1>1. /\ call[c].step = "new" /\ f.kind = "payout" /\ ProviderOf(f) = "paystack"
      /\ f.account # NoAccount
      /\ call' = [call EXCEPT ![c] = k] /\ Request("paystack")
      /\ UNCHANGED <<now, recipientCache, holder, cachedToken, paid, reply>>
  BY DEF StartPaystack, Accepted, At
<1>2. f.account \in Account
  BY <1>1, CallFields DEF IInv
<1>3. known \in Recipient \cup {NoRecipient} /\ (known # NoRecipient => holder[known] = f.account)
  BY <1>2 DEF IInv, TypeOK, CacheInv
<1>4. s \in BankStep /\ s \in Step /\ (s = "sending" => known # NoRecipient)
  BY DEF BankStep, Step
<1> HIDE DEF s, known
<1>5. /\ k \in CallType /\ k.step = s /\ k.recipient = known /\ k.form = f
  BY <1>3, <1>4, CallFields DEF IInv, CallType, FormOf
<1> HIDE DEF k
<1>6. call'[c] = k /\ FormOf(c)' = f
  BY <1>1, <1>5, CallStep DEF IInv
<1>7. RouteInv(c)' /\ TokenInv(c)'
  BY <1>1, <1>4, <1>5, <1>6 DEF RouteInv, TokenInv, BankStep, MobileStep, Awaiting
<1>8. RecipientInv(c)'
  BY <1>1, <1>3, <1>4, <1>5, <1>6 DEF RecipientInv
<1>9. s \notin {"new", "done"}
  BY <1>4 DEF BankStep
<1> HIDE DEF f
<1> QED  BY <1>1, <1>5, <1>7, <1>8, <1>9, Begins DEF f, Provider

\* MpesaB2CAdapter.initiateTransfer begins.
LEMMA StartMpesaStep ==
  ASSUME ConstantsOK, IInv, NEW c \in Call, StartMpesa(c)
  PROVE  IInv'
<1> DEFINE k == [call[c] EXCEPT !.step = "token"]
<1>1. /\ call[c].step = "new" /\ FormOf(c).kind = "payout" /\ ProviderOf(FormOf(c)) = "mpesa"
      /\ MpesaTakes(FormOf(c))
      /\ call' = [call EXCEPT ![c] = k] /\ Request("mpesa")
      /\ UNCHANGED <<now, recipientCache, holder, cachedToken, paid, reply>>
  BY DEF StartMpesa, Accepted, At
<1>2. k \in CallType /\ k.step = "token" /\ k.form = FormOf(c)
  BY StepFields, AreSteps DEF IInv
<1> HIDE DEF k
<1>3. call'[c] = k /\ FormOf(c)' = FormOf(c)
  BY <1>1, <1>2, CallStep DEF IInv
<1>4. RouteInv(c)' /\ TokenInv(c)' /\ RecipientInv(c)'
  BY <1>1, <1>2, <1>3
     DEF RouteInv, TokenInv, RecipientInv, BankStep, MobileStep, Awaiting
<1> QED  BY <1>1, <1>2, <1>4, Begins DEF Provider

\* A status query or a probe begins.
LEMMA StartOtherStep ==
  ASSUME ConstantsOK, IInv, NEW c \in Call, StartOther(c)
  PROVE  IInv'
<1>1. /\ call[c].step = "new" /\ FormOf(c).kind # "payout"
      /\ UNCHANGED <<now, recipientCache, holder, cachedToken, payments>>
      /\ IF FormOf(c).kind = "probe" THEN Await(c, "fetching")
         ELSE call' = [call EXCEPT ![c].step = "token"]
  BY DEF StartOther, At
<1>2. CASE FormOf(c).kind = "probe"
  <2>1. "fetching" \in Step
    BY AreSteps
  <2>2. PICK k \in CallType :
          /\ call' = [call EXCEPT ![c] = k]
          /\ k.step = "fetching" /\ k.form = FormOf(c) /\ k.sent = now
    BY <1>1, <1>2, <2>1, AwaitStep
  <2>3. call'[c] = k /\ FormOf(c)' = FormOf(c)
    BY <2>2, CallStep DEF IInv
  <2>4. RouteInv(c)' /\ RecipientInv(c)'
    BY <1>1, <2>2, <2>3 DEF RouteInv, RecipientInv, BankStep, MobileStep
  <2>5. TokenInv(c)'
    BY <1>1, <2>2, <2>3, NowIsNatural DEF TokenInv, Awaiting, ConstantsOK
  <2> QED  BY <1>1, <2>2, <2>4, <2>5, SameToken, OnlyMoves
<1>3. CASE FormOf(c).kind # "probe"
  <2> DEFINE k == [call[c] EXCEPT !.step = "token"]
  <2>1. call' = [call EXCEPT ![c] = k]
    BY <1>1, <1>3
  <2>2. k \in CallType /\ k.step = "token" /\ k.form = FormOf(c)
    BY StepFields, AreSteps DEF IInv
  <2> HIDE DEF k
  <2>3. call'[c] = k /\ FormOf(c)' = FormOf(c)
    BY <2>1, <2>2, CallStep DEF IInv
  <2>4. RouteInv(c)' /\ RecipientInv(c)' /\ TokenInv(c)'
    BY <1>1, <1>3, <2>2, <2>3
       DEF RouteInv, RecipientInv, TokenInv, BankStep, MobileStep, Awaiting
  <2> QED  BY <1>1, <2>1, <2>2, <2>4, SameToken, OnlyMoves
<1> QED  BY <1>2, <1>3

\* A payout that is rejected as it begins is counted as a request that failed.
LEMMA RejectStep ==
  ASSUME ConstantsOK, IInv, NEW c \in Call, RejectPaystack(c) \/ RejectMpesa(c)
  PROVE  IInv'
<1>1. /\ call[c].step = "new" /\ ProviderOf(FormOf(c)) \in Provider
      /\ Finish(c, "failed")
      /\ UNCHANGED <<now, recipientCache, holder, cachedToken, paid>>
  BY DEF RejectPaystack, RejectMpesa, Accepted, At, Provider
<1> QED  BY <1>1, SameToken, Finishes
\* Moving to "creating" reads and writes nothing that is shared.
LEMMA NameStep ==
  ASSUME ConstantsOK, IInv, NEW c \in Call, Name(c)
  PROVE  IInv'
<1> DEFINE k == [call[c] EXCEPT !.step = "creating"]
<1>1. /\ call[c].step = "naming" /\ call' = [call EXCEPT ![c] = k]
      /\ UNCHANGED <<now, recipientCache, holder, cachedToken, payments>>
  BY DEF Name, At
<1>2. k \in CallType /\ k.step = "creating" /\ k.form = FormOf(c)
  BY StepFields, AreSteps DEF IInv
<1> HIDE DEF k
<1>3. call'[c] = k /\ FormOf(c)' = FormOf(c)
  BY <1>1, <1>2, CallStep DEF IInv
<1>4. RouteInv(c)
  BY DEF IInv, CallInv
<1>5. RouteInv(c)' /\ RecipientInv(c)' /\ TokenInv(c)'
  BY <1>1, <1>2, <1>3, <1>4
     DEF RouteInv, RecipientInv, TokenInv, BankStep, MobileStep, Awaiting
<1> QED  BY <1>1, <1>2, <1>5, SameToken, OnlyMoves

\* The code Paystack issues is the account's, and no other account loses its own.
LEMMA CreateRecipientStep ==
  ASSUME ConstantsOK, IInv, NEW c \in Call, CreateRecipient(c)
  PROVE  IInv'
<1> DEFINE a == FormOf(c).account
<1>1. PICK r \in Recipient :
        /\ call[c].step = "creating" /\ holder[r] \in {NoAccount, a}
        /\ holder' = [holder EXCEPT ![r] = a]
        /\ recipientCache' = [b \in Account |-> IF b = a THEN r ELSE recipientCache[b]]
        /\ call' = [call EXCEPT ![c].step = "sending", ![c].recipient = r]
        /\ UNCHANGED <<now, cachedToken, payments>>
  BY DEF CreateRecipient, At, CacheKey
<1> DEFINE k == [call[c] EXCEPT !.step = "sending", !.recipient = r]
<1>2. call' = [call EXCEPT ![c] = k]
  BY <1>1 DEF IInv, TypeOK, CallType
<1>3. /\ k \in CallType /\ k.step = "sending" /\ k.recipient = r /\ k.form = FormOf(c)
  BY CallFields, AreSteps DEF IInv, CallType, FormOf
<1> HIDE DEF k
<1>4. /\ call' \in [Call -> CallType] /\ call'[c] = k
      /\ \A d \in Call \ {c} : call'[d] = call[d]
      /\ \A d \in Call : FormOf(d)' = FormOf(d)
  BY <1>2, <1>3, CallStep DEF IInv
<1>5. RouteInv(c)
  BY DEF IInv, CallInv
<1>6. a \in Account /\ a # NoAccount /\ NoAccount \notin Account
  BY <1>1, <1>5, CallFields DEF IInv, RouteInv, BankStep, ConstantsOK
<1>7. FormOf(c)' = FormOf(c)
  BY <1>4
<1>8. RouteInv(c)' /\ TokenInv(c)'
  BY <1>1, <1>3, <1>4, <1>5, <1>7
     DEF RouteInv, TokenInv, BankStep, MobileStep, Awaiting
<1> HIDE DEF a
<1>9. /\ holder \in [Recipient -> Account \cup {NoAccount}]
      /\ recipientCache \in [Account -> Recipient \cup {NoRecipient}]
      /\ NoRecipient \notin Recipient
  BY DEF IInv, TypeOK, ConstantsOK
<1>10. /\ holder' \in [Recipient -> Account \cup {NoAccount}]
       /\ recipientCache' \in [Account -> Recipient \cup {NoRecipient}]
       /\ holder'[r] = a
       /\ \A q \in Recipient \ {r} : holder'[q] = holder[q]
  BY <1>1, <1>6, <1>9
<1>11. RecipientInv(c)'
  BY <1>3, <1>4, <1>7, <1>10 DEF RecipientInv, a
<1>12. HoldersStay
  BY <1>1, <1>10 DEF HoldersStay
<1>13. CacheInv'
  <2> SUFFICES ASSUME NEW b \in Account, recipientCache'[b] # NoRecipient
               PROVE  holder'[recipientCache'[b]] = b
    BY DEF CacheInv
  <2>1. CASE b = a
    BY <1>1, <1>10, <2>1
  <2>2. CASE b # a
    <3>1. recipientCache'[b] = recipientCache[b]
      BY <1>1, <2>2
    <3>2. recipientCache[b] \in Recipient /\ holder[recipientCache[b]] = b
      BY <3>1, <1>9 DEF IInv, CacheInv
    <3>3. recipientCache[b] # r
      BY <1>1, <1>6, <2>2, <3>2
    <3> QED  BY <1>10, <3>1, <3>2, <3>3
  <2> QED  BY <2>1, <2>2
<1>14. TypeOK' /\ metrics' = metrics /\ paid' = paid
  BY <1>1, <1>4, <1>10 DEF IInv, TypeOK, payments
<1>15. MetricsAccount'
  <2>1. \A p \in Provider : c \in Underway(p)' <=> c \in Underway(p)
    BY <1>1, <1>3, <1>4 DEF Underway
  <2>2. ASSUME NEW p \in Provider
        PROVE  (metrics'[p].successes - metrics[p].successes)
                 + (metrics'[p].failures - metrics[p].failures)
                 + One(c \in Underway(p)')
               <= (metrics'[p].requests - metrics[p].requests) + One(c \in Underway(p))
    <3>1. One(c \in Underway(p)') = One(c \in Underway(p)) /\ One(c \in Underway(p)) \in Nat
      BY <2>1 DEF One
    <3>2. metrics[p] \in [requests : Nat, successes : Nat, failures : Nat]
      BY DEF IInv, TypeOK
    <3> QED  BY <1>14, <3>1, <3>2
  <2>3. metrics' \in [Provider -> [requests : Nat, successes : Nat, failures : Nat]]
    BY <1>14 DEF TypeOK
  <2> QED  BY <1>4, <2>2, <2>3, MetricsKeepUp DEF IInv
<1>16. PaidInv(c)'
  <2>1. paid[c] = <<>>
    BY <1>1, NothingPaid
  <2> QED  BY <1>14, <2>1 DEF PaidInv
<1>17. CallInv(c)' /\ CachedTokenInv'
  BY <1>1, <1>8, <1>11, <1>16, SameToken DEF CallInv
<1> QED  BY <1>1, <1>4, <1>12, <1>13, <1>14, <1>15, <1>17, Closing

\* The token of the cache outlasts the request it is taken for.
LEMMA TakeTokenStep ==
  ASSUME ConstantsOK, IInv, NEW c \in Call, TakeToken(c)
  PROVE  IInv'
<1> DEFINE s == Uses(c)
           k == [call[c] EXCEPT !.step = s, !.token = cachedToken, !.sent = now]
<1>1. /\ call[c].step = "token" /\ cachedToken # NoToken /\ Fresh(cachedToken)
      /\ call' = [call EXCEPT ![c] = k]
      /\ UNCHANGED <<now, recipientCache, holder, cachedToken, payments>>
  BY DEF TakeToken, At, Cached
<1>2. RouteInv(c) /\ FormOf(c).kind \in {"payout", "query", "probe"}
  BY CallFields DEF IInv, CallInv
<1>3. s \in Step /\ s \in {"v3", "querying"} /\ FormOf(c).kind # "probe"
      /\ s = (IF FormOf(c).kind = "query" THEN "querying" ELSE "v3")
  BY <1>1, <1>2, AreSteps DEF Uses, RouteInv
<1>4. cachedToken \in Token /\ cachedToken.expiresAt \in Nat /\ cachedToken.until \in Nat
      /\ cachedToken.expiresAt <= cachedToken.until
  BY <1>1 DEF IInv, TypeOK, CachedTokenInv, Token
<1>5. now + Timeout < cachedToken.until
  BY <1>1, <1>4, NowIsNatural DEF Fresh, ConstantsOK
<1> HIDE DEF s
<1>6. k \in CallType /\ k.step = s /\ k.form = FormOf(c) /\ k.token = cachedToken /\ k.sent = now
  BY <1>3, <1>4, CallFields, NowIsNatural DEF IInv, CallType, FormOf
<1> HIDE DEF k
<1>7. call'[c] = k /\ FormOf(c)' = FormOf(c)
  BY <1>1, <1>6, CallStep DEF IInv
<1>8. RouteInv(c)' /\ RecipientInv(c)'
  BY <1>1, <1>2, <1>3, <1>6, <1>7 DEF RouteInv, RecipientInv, BankStep, MobileStep
<1>9. TokenInv(c)'
  BY <1>1, <1>3, <1>4, <1>5, <1>6, <1>7, NowIsNatural DEF TokenInv, Awaiting, ConstantsOK
<1>10. k.step # "done" /\ call[c].step # "done" /\ call[c].step # "new"
  BY <1>1, <1>3, <1>6
<1> QED  BY <1>1, <1>6, <1>8, <1>9, <1>10, SameToken, OnlyMoves

LEMMA RequestTokenStep ==
  ASSUME ConstantsOK, IInv, NEW c \in Call, RequestToken(c)
  PROVE  IInv'
<1>1. /\ call[c].step = "token" /\ Await(c, "fetching")
      /\ UNCHANGED <<now, recipientCache, holder, cachedToken, payments>>
  BY DEF RequestToken, At
<1>2. "fetching" \in Step
  BY AreSteps
<1>3. PICK k \in CallType :
        /\ call' = [call EXCEPT ![c] = k]
        /\ k.step = "fetching" /\ k.form = FormOf(c) /\ k.sent = now
  BY <1>1, <1>2, AwaitStep
<1>4. call'[c] = k /\ FormOf(c)' = FormOf(c) /\ RouteInv(c)
  BY <1>2, <1>3, CallStep DEF IInv, CallInv
<1>5. RouteInv(c)' /\ RecipientInv(c)'
  BY <1>1, <1>3, <1>4 DEF RouteInv, RecipientInv, BankStep, MobileStep
<1>6. TokenInv(c)'
  BY <1>1, <1>3, <1>4, NowIsNatural DEF TokenInv, Awaiting, ConstantsOK
<1> QED  BY <1>1, <1>3, <1>5, <1>6, SameToken, OnlyMoves

\* The path v1 is tried with a token that is as old as one request.
LEMMA FallBackStep ==
  ASSUME ConstantsOK, IInv, NEW c \in Call, FallBack(c)
  PROVE  IInv'
<1>1. /\ call[c].step = "v3" /\ Await(c, "v1")
      /\ UNCHANGED <<now, recipientCache, holder, cachedToken, payments>>
  BY DEF FallBack, At
<1>2. "v1" \in Step
  BY AreSteps
<1>3. PICK k \in CallType :
        /\ call' = [call EXCEPT ![c] = k]
        /\ k.step = "v1" /\ k.form = FormOf(c) /\ k.token = call[c].token /\ k.sent = now
  BY <1>1, <1>2, AwaitStep
<1>4. call'[c] = k /\ FormOf(c)' = FormOf(c) /\ RouteInv(c) /\ TokenInv(c)
  BY <1>2, <1>3, CallStep DEF IInv, CallInv
<1>5. RouteInv(c)' /\ RecipientInv(c)'
  BY <1>1, <1>3, <1>4 DEF RouteInv, RecipientInv, BankStep, MobileStep
<1>6. /\ call[c].token \in Token /\ call[c].token.until \in Nat /\ call[c].sent \in Nat
      /\ now <= call[c].sent + Timeout /\ call[c].sent + Timeout < call[c].token.until
  BY <1>1, <1>4, CallFields DEF IInv, TokenInv, Awaiting, Token
<1>7. TokenInv(c)'
  BY <1>1, <1>3, <1>4, <1>6, NowIsNatural DEF TokenInv, Awaiting, ConstantsOK
<1> QED  BY <1>1, <1>3, <1>5, <1>7, SameToken, OnlyMoves
\* The token that is received outlasts the next request; a probe only leaves it in the
\* cache.
LEMMA ReceiveTokenStep ==
  ASSUME ConstantsOK, IInv, NEW c \in Call, ReceiveToken(c)
  PROVE  IInv'
<1>1. PICK issued \in call[c].sent..now :
        LET t == [expiresAt |-> ExpiresAt(c), until |-> issued + Lifetime] IN
        /\ call[c].step = "fetching" /\ cachedToken' = t
        /\ IF FormOf(c).kind = "probe" THEN Finish(c, "accepted")
           ELSE /\ call' = [call EXCEPT ![c] = [@ EXCEPT !.step = Uses(c), !.token = t, !.sent = now]]
                /\ UNCHANGED <<metrics, reply>>
        /\ UNCHANGED <<now, recipientCache, holder, paid>>
  BY DEF ReceiveToken, At
<1> DEFINE t == [expiresAt |-> ExpiresAt(c), until |-> issued + Lifetime]
<1>2. RouteInv(c) /\ TokenInv(c) /\ FormOf(c).kind \in {"payout", "query", "probe"}
      /\ call[c].sent \in Nat /\ now \in Nat
      /\ now <= call[c].sent + Timeout
  BY <1>1, CallFields, NowIsNatural DEF IInv, CallInv, TokenInv, Awaiting
<1>3. t \in Token /\ t.expiresAt <= t.until /\ now + Timeout < t.until
  BY <1>1, <1>2 DEF Token, ExpiresAt, ConstantsOK
<1>4. cachedToken' = t
  BY <1>1
<1> HIDE DEF t
<1>5. cachedToken' \in Token \cup {NoToken} /\ CachedTokenInv'
  BY <1>3, <1>4 DEF CachedTokenInv
<1>6. CASE FormOf(c).kind = "probe"
  BY <1>1, <1>5, <1>6, Finishes
<1>7. CASE FormOf(c).kind # "probe"
  <2> DEFINE s == Uses(c)
             k == [call[c] EXCEPT !.step = s, !.token = t, !.sent = now]
  <2>1. call' = [call EXCEPT ![c] = k] /\ UNCHANGED payments
    BY <1>1, <1>7 DEF t, payments
  <2>2. s \in Step /\ s \in {"v3", "querying"}
        /\ s = (IF FormOf(c).kind = "query" THEN "querying" ELSE "v3")
    BY AreSteps DEF Uses
  <2> HIDE DEF s
  <2>3. k \in CallType /\ k.step = s /\ k.form = FormOf(c) /\ k.token = t /\ k.sent = now
    BY <1>2, <1>3, <2>2, CallFields DEF IInv, CallType, FormOf
  <2> HIDE DEF k
  <2>4. call'[c] = k /\ FormOf(c)' = FormOf(c)
    BY <2>1, <2>3, CallStep DEF IInv
  <2>5. RouteInv(c)' /\ RecipientInv(c)'
    BY <1>1, <1>2, <1>7, <2>2, <2>3, <2>4 DEF RouteInv, RecipientInv, BankStep, MobileStep
  <2>6. t.until \in Nat /\ Timeout \in Nat /\ now' = now
    BY <1>1, <1>3 DEF Token, ConstantsOK
  <2>7. TokenInv(c)'
    BY <1>2, <1>3, <2>2, <2>3, <2>4, <2>6 DEF TokenInv, Awaiting
  <2>8. k.step # "done" /\ call[c].step # "done" /\ call[c].step # "new"
    BY <1>1, <2>2, <2>3
  <2> QED  BY <1>1, <1>5, <2>1, <2>3, <2>5, <2>7, <2>8, OnlyMoves
<1> QED  BY <1>6, <1>7

\* Where a payout under way goes.
LEMMA UnderwayProvider ==
  ASSUME IInv, NEW c \in Call,
         call[c].step \in {"creating", "sending", "fetching", "v3", "v1", "querying"}
  PROVE  FormOf(c).kind = "payout" => ProviderOf(FormOf(c)) \in Provider
BY DEF IInv, CallInv, RouteInv, BankStep, MobileStep, Provider

\* Paystack pays the account that holds the code, and it is the account of the form.
LEMMA SendTransferStep ==
  ASSUME ConstantsOK, IInv, NEW c \in Call, SendTransfer(c)
  PROVE  IInv'
<1>1. PICK r \in {"accepted", "failed"} :
        /\ call[c].step = "sending" /\ Pays(c, BankPayout(c)) /\ Finish(c, r)
        /\ UNCHANGED <<now, recipientCache, holder, cachedToken>>
  BY DEF SendTransfer, At
<1>2. /\ call[c].recipient \in Recipient /\ holder[call[c].recipient] = FormOf(c).account
  BY <1>1 DEF IInv, CallInv, RecipientInv
<1>3. BankPayout(c) \in Payout /\ RightPayout(BankPayout(c), FormOf(c))
  <2>1. /\ FormOf(c).account \in Account \cup {NoAccount} /\ FormOf(c).amount \in Nat
        /\ Currency(FormOf(c)) \in {"NGN", "KES", "USD"}
    BY CallFields DEF IInv
  <2> QED  BY <1>2, <2>1 DEF BankPayout, Payout, Provider, RightPayout
<1>4. FormOf(c).kind = "payout" => ProviderOf(FormOf(c)) \in Provider
  BY <1>1, UnderwayProvider
<1>5. call[c].step # "done"
  BY <1>1
<1> QED  BY <1>1, <1>3, <1>4, <1>5, SameToken, Finishes

\* Daraja pays shillings, as close to the amount as whole shillings can be.
LEMMA SendB2CPaymentStep ==
  ASSUME ConstantsOK, IInv, NEW c \in Call, SendB2CPayment(c)
  PROVE  IInv'
<1>1. PICK r \in {"accepted", "failed"} :
        /\ call[c].step \in {"v3", "v1"} /\ Pays(c, MobilePayout(c)) /\ Finish(c, r)
        /\ UNCHANGED <<now, recipientCache, holder, cachedToken>>
  BY DEF SendB2CPayment, At
<1>2. Currency(FormOf(c)) = "KES"
  BY <1>1 DEF IInv, CallInv, RouteInv, MobileStep, MpesaTakes
<1>3. MobilePayout(c) \in Payout /\ RightPayout(MobilePayout(c), FormOf(c))
  <2>1. FormOf(c).phone \in BOOLEAN /\ FormOf(c).amount \in Nat
    BY CallFields DEF IInv
  <2>2. /\ Shillings(FormOf(c).amount) \in Nat
        /\ FormOf(c).amount >= 100 =>
             100 * Shillings(FormOf(c).amount) - FormOf(c).amount \in -50..50
    BY <2>1, ShillingsAreClose
  <2> QED  BY <1>2, <2>1, <2>2 DEF MobilePayout, Payout, Provider, RightPayout
<1>4. FormOf(c).kind = "payout" => ProviderOf(FormOf(c)) \in Provider
  BY <1>1, UnderwayProvider
<1>5. call[c].step # "done"
  BY <1>1
<1> QED  BY <1>1, <1>3, <1>4, <1>5, SameToken, Finishes

\* A request that fails, and a status query that is acknowledged, pay nothing.
LEMMA FailureStep ==
  ASSUME ConstantsOK, IInv, NEW c \in Call,
         PaystackFails(c) \/ DarajaFails(c) \/ QueryTransactionStatus(c)
  PROVE  IInv'
<1>1. PICK r \in {"accepted", "failed"} :
        /\ call[c].step \in {"creating", "sending", "fetching", "v3", "v1", "querying"}
        /\ Finish(c, r)
        /\ UNCHANGED <<now, recipientCache, holder, cachedToken, paid>>
  BY DEF PaystackFails, DarajaFails, QueryTransactionStatus, At
<1>2. FormOf(c).kind = "payout" => ProviderOf(FormOf(c)) \in Provider
  BY <1>1, UnderwayProvider
<1>3. call[c].step # "done"
  BY <1>1
<1> QED  BY <1>1, <1>2, <1>3, SameToken, Finishes

\* An outcome that is not counted leaves the requests ahead of the outcomes.
LEMMA UncountedStep ==
  ASSUME ConstantsOK, IInv, NEW c \in Call, Uncounted(c)
  PROVE  IInv'
<1>1. /\ call' = [call EXCEPT ![c].step = "done"] /\ call[c].step # "done"
      /\ reply' = [reply EXCEPT ![c] = "failed"]
      /\ UNCHANGED <<now, recipientCache, holder, cachedToken, paid, metrics>>
  BY DEF Uncounted
<1>2. reply' \in [Call -> Reply]
  BY <1>1 DEF IInv, TypeOK, Reply
<1>3. metrics' \in [Provider -> [requests : Nat, successes : Nat, failures : Nat]]
  BY <1>1 DEF IInv, TypeOK
<1>4. MetricsAccount'
  BY <1>1, <1>3, UncountedEnd
<1> QED  BY <1>1, <1>2, <1>3, <1>4, SameToken, Ends

\* Time passes while no request is at its timeout.
LEMMA TickStep ==
  ASSUME ConstantsOK, IInv, Tick
  PROVE  IInv'
<1>1. /\ now < MaxTime /\ now' = now + 1 /\ now \in Nat /\ MaxTime \in Nat /\ Timeout \in Nat
      /\ UNCHANGED <<call, recipientCache, holder, cachedToken, payments>>
  BY NowIsNatural DEF Tick, ConstantsOK
<1>2. TypeOK'
  BY <1>1 DEF IInv, TypeOK, payments
<1>3. CacheInv' /\ CachedTokenInv' /\ MetricsAccount'
  BY <1>1 DEF IInv, CacheInv, CachedTokenInv, MetricsAccount, FormOf, payments
<1>4. ASSUME NEW c \in Call
      PROVE  CallInv(c)'
  <2>1. CallInv(c) /\ FormOf(c)' = FormOf(c)
    BY <1>1 DEF IInv, FormOf
  <2>2. RouteInv(c)' /\ RecipientInv(c)' /\ PaidInv(c)'
    BY <1>1, <2>1 DEF CallInv, RouteInv, RecipientInv, PaidInv, payments
  <2>3. call[c].step \in Awaiting => now < call[c].sent + Timeout
    BY DEF Tick, Awaiting
  <2>4. TokenInv(c)'
    <3>1. call[c].sent \in Nat /\ TokenInv(c)
      BY <2>1, CallFields DEF IInv, CallInv
    <3> QED  BY <1>1, <2>3, <3>1 DEF TokenInv
  <2> QED  BY <2>2, <2>4 DEF CallInv
<1> QED  BY <1>2, <1>3, <1>4 DEF IInv

-----------------------------------------------------------------------------
(* The theorems.                                                           *)

\* The invariant holds at the start, whatever forms the calls are made with.
LEMMA Initially ==
  ASSUME ConstantsOK, Init
  PROVE  IInv
<1>1. PICK f \in Batch :
        call = [c \in Call |-> [step |-> "new", form |-> f[c], recipient |-> NoRecipient,
                                token |-> NoToken, sent |-> 0]]
  BY DEF Init
<1>2. f \in [Call -> FormType]
  BY DEF ConstantsOK
<1>3. call \in [Call -> CallType] /\ \A c \in Call : call[c].step = "new"
  BY <1>1, <1>2 DEF CallType, Step
<1>4. TypeOK
  <2>1. now \in 0..MaxTime /\ paid \in [Call -> Seq(Payout)] /\ reply \in [Call -> Reply]
    BY DEF Init, ConstantsOK, Reply
  <2>2. metrics \in [Provider -> [requests : Nat, successes : Nat, failures : Nat]]
    BY DEF Init
  <2> QED  BY <1>3, <2>1, <2>2 DEF Init, TypeOK
<1>5. CacheInv /\ CachedTokenInv
  BY DEF Init, CacheInv, CachedTokenInv
<1>6. MetricsAccount
  <2>1. \A p \in Provider : Underway(p) = {}
    BY <1>3 DEF Underway
  <2>2. \A p \in Provider : Cardinality(Underway(p)) = 0
    BY <2>1, FS_EmptySet
  <2> QED  BY <2>2 DEF Init, MetricsAccount, Underway
<1>7. \A c \in Call : CallInv(c)
  BY <1>3 DEF Init, CallInv, RouteInv, RecipientInv, TokenInv, PaidInv, BankStep, MobileStep,
     Awaiting
<1> QED  BY <1>4, <1>5, <1>6, <1>7 DEF IInv

\* Every step preserves the invariant.
LEMMA Inductive ==
  ASSUME ConstantsOK, IInv, [Next]_vars
  PROVE  IInv'
<1>1. ASSUME NEW c \in Call, Proceed(c)
      PROVE  IInv'
  BY <1>1, RefuseStep, StartPaystackStep, StartMpesaStep, StartOtherStep, RejectStep, NameStep,
     CreateRecipientStep, SendTransferStep, FailureStep, TakeTokenStep, RequestTokenStep,
     ReceiveTokenStep, FallBackStep, SendB2CPaymentStep, UncountedStep DEF Proceed
<1>2. CASE UNCHANGED vars
  <2>1. TypeOK' /\ CacheInv' /\ CachedTokenInv' /\ MetricsAccount'
    BY <1>2 DEF IInv, vars, payments, TypeOK, CacheInv, CachedTokenInv, MetricsAccount, FormOf
  <2>2. \A c \in Call : CallInv(c)'
    BY <1>2 DEF IInv, vars, payments, CallInv, RouteInv, RecipientInv, TokenInv, PaidInv, FormOf
  <2> QED  BY <2>1, <2>2 DEF IInv
<1> QED  BY <1>1, <1>2, TickStep DEF Next

\* However calls overlap on the cache, the token and the fallback, each pays at most
\* once and as its form asks, and the counters behind the health report (the metrics of
\* RicarutTransferService) never count more outcomes than requests, those under way
\* included.
THEOREM CallsPayAsAsked ==
  ASSUME ConstantsOK
  PROVE  Spec => []PaidAndCounted
<1>1. Init => IInv
  BY Initially
<1>2. IInv /\ [Next]_vars => IInv'
  BY Inductive
<1>3. IInv => PaidAndCounted
  <2> SUFFICES ASSUME IInv
               PROVE  PaidAndCounted
    OBVIOUS
  <2>1. ASSUME NEW c \in Call
        PROVE  /\ Len(paid[c]) <= 1
               /\ \A i \in DOMAIN paid[c] : RightPayout(paid[c][i], FormOf(c))
    <3>1. PaidInv(c) /\ paid[c] \in Seq(Payout)
      BY DEF IInv, CallInv, TypeOK
    <3>2. CASE paid[c] = <<>>
      BY <3>2
    <3>3. CASE Len(paid[c]) = 1 /\ RightPayout(paid[c][1], FormOf(c))
      <4>1. DOMAIN paid[c] = 1..1
        BY <3>1, <3>3
      <4> QED  BY <3>3, <4>1
    <3> QED  BY <3>1, <3>2, <3>3 DEF PaidInv
  <2>2. PaidAsRequested
    BY <2>1 DEF PaidAsRequested, RightPayout
  <2> QED  BY <2>2 DEF IInv, PaidAndCounted
<1> QED  BY <1>1, <1>2, <1>3, PTL DEF Spec

\* No request is sent with a token that has expired, although a token may be taken from
\* the cache, used for v3 until its timeout and then again for v1 (MpesaClient).
THEOREM TokensOutliveRequests ==
  ASSUME ConstantsOK
  PROVE  Spec => []TokensAreValid
<1>1. Init => IInv
  BY Initially
<1>2. IInv /\ [Next]_vars => IInv'
  BY Inductive
<1>3. IInv => TokensAreValid
  <2> SUFFICES ASSUME IInv, NEW c \in Call, call[c].step \in {"v3", "v1", "querying"}
               PROVE  call[c].sent < call[c].token.until
    BY DEF TokensAreValid
  <2>1. TokenInv(c) /\ call[c].sent \in Nat /\ call[c].token \in Token \cup {NoToken}
    BY CallFields DEF IInv, CallInv
  <2>2. call[c].token \in Token => call[c].token.until \in Nat
    BY DEF Token
  <2> QED  BY <2>1, <2>2 DEF TokenInv, ConstantsOK
<1> QED  BY <1>1, <1>2, <1>3, PTL DEF Spec

\* The state of the adapters, the M-Pesa client and the counters keeps its type.
THEOREM CallsAreTyped ==
  ASSUME ConstantsOK
  PROVE  Spec => []TypeOK
<1>1. IInv => TypeOK BY DEF IInv
<1> QED BY <1>1, Initially, Inductive, PTL DEF Spec
=============================================================================
