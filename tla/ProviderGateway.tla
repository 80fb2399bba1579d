------------------------------ MODULE ProviderGateway ------------------------------
(***************************************************************************)
(* From a validated transfer request to the provider: the form the schema  *)
(* accepts, the route, and the calls of the Paystack and M-Pesa adapters   *)
(* with the state they share in one process: recipientCache and the OAuth  *)
(* token.  Calls overlap at every await; a call to a provider may be       *)
(* executed and its answer lost.  Time passes in ticks.                    *)
(***************************************************************************)
EXTENDS Integers, Sequences, FiniteSets

CONSTANTS
  Call,        \* calls of the adapters, each made once
  Form,        \* the requests they are made for
  Batch,       \* the forms the calls may be made with together
  Account,     \* bank accounts, NoAccount where a form names none
  Recipient,   \* recipient codes Paystack can issue
  Lifetime,    \* expires_in of a token
  Margin,      \* a token is renewed this long before it expires, 60 s
  Timeout,     \* a request is given up after this long
  MaxTime,     \* bound: ticks
  NoAccount, NoRecipient, NoToken

VARIABLES
  now,
  call,            \* per call: step, form, recipient code, token, and when the
                   \* request it waits for was sent
  recipientCache,  \* per account, the recipient code
  holder,          \* Paystack: the account of a recipient code
  cachedToken,     \* the OAuth token: what it says of its expiry, and when it expires
  paid,            \* the payouts the providers have executed for a call
  metrics,         \* requests, successes and failures per provider
  reply            \* the outcome of a call; "failed" is any error, a timeout too

payments == <<paid, metrics, reply>>
vars == <<now, call, recipientCache, holder, cachedToken, payments>>

Provider == {"paystack", "mpesa"}
FormType ==
  [kind : {"payout", "query", "probe"}, provider : Provider \cup {"none"},
   type : {"none", "bank_account", "mobile_money"}, currency : {"none", "NGN", "KES", "USD"},
   bankCode : BOOLEAN, account : Account \cup {NoAccount}, phone : BOOLEAN,
   name : BOOLEAN, amount : Nat \ {0}]
Token == [expiresAt : Nat, until : Nat]
Payout == [provider : Provider, account : Account \cup {NoAccount}, phone : BOOLEAN,
           currency : {"NGN", "KES", "USD"}, amount : Nat]
Step == {"new", "naming", "creating", "sending", "token", "fetching", "v3", "v1",
         "querying", "done"}
CallType == [step : Step, form : FormType, recipient : Recipient \cup {NoRecipient},
             token : Token \cup {NoToken}, sent : Nat]
Reply == {"none", "invalid", "accepted", "failed"}

\* A token outlives the request it comes with and the one it is sent with, and the
\* margin covers a request: 15 s and 60 s in the code, an hour at Daraja.
ConstantsOK ==
  /\ IsFiniteSet(Call) /\ Form \subseteq FormType /\ Batch \subseteq [Call -> Form]
  /\ {Lifetime, Margin, Timeout, MaxTime} \subseteq Nat
  /\ Timeout <= Margin /\ 2 * Timeout < Lifetime
  /\ NoAccount \notin Account /\ NoRecipient \notin Recipient /\ NoToken \notin Token

TypeOK ==
  /\ now \in 0..MaxTime
  /\ call \in [Call -> CallType]
  /\ recipientCache \in [Account -> Recipient \cup {NoRecipient}]
  /\ holder \in [Recipient -> Account \cup {NoAccount}]
  /\ cachedToken \in Token \cup {NoToken}
  /\ paid \in [Call -> Seq(Payout)]
  /\ metrics \in [Provider -> [requests : Nat, successes : Nat, failures : Nat]]
  /\ reply \in [Call -> Reply]

-----------------------------------------------------------------------------
(* CreateDeveloperTransferSchema.                                          *)

DestinationType(f) ==
  IF f.type # "none" THEN f.type ELSE IF f.phone THEN "mobile_money" ELSE "bank_account"
BankRail(f) ==
  DestinationType(f) = "bank_account" \/ (~f.phone /\ (f.bankCode \/ f.account # NoAccount))
MobileRail(f) == DestinationType(f) = "mobile_money" \/ f.phone

Valid(f) ==
  /\ f.bankCode \/ f.phone
  /\ BankRail(f) => f.bankCode /\ f.account # NoAccount /\ f.currency \in {"none", "NGN"}
  /\ MobileRail(f) => f.phone /\ f.currency \in {"none", "KES"}

Mobile(f) == f.phone \/ f.type = "mobile_money"
Currency(f) == IF f.currency # "none" THEN f.currency ELSE IF Mobile(f) THEN "KES" ELSE "NGN"
NamedProvider(f) ==
  IF f.provider # "none" THEN f.provider ELSE IF Mobile(f) THEN "mpesa" ELSE "paystack"

-----------------------------------------------------------------------------
(* ProviderRouter.resolveRoute, with both providers registered.            *)

\* An explicit provider is taken as it is; otherwise a Kenyan or a Nigerian sign
\* decides, and the currency must fit.  "none" is an error.
Route(explicit, f) ==
  LET kenyan == Currency(f) = "KES" \/ DestinationType(f) = "mobile_money" \/ f.phone
  IN CASE explicit # "none" -> explicit
       [] explicit = "none" /\ kenyan -> IF Currency(f) = "KES" THEN "mpesa" ELSE "none"
       [] OTHER -> IF Currency(f) = "NGN" THEN "paystack" ELSE "none"

\* The schema has always named a provider.
ProviderOf(f) == Route(NamedProvider(f), f)

-----------------------------------------------------------------------------
(* MpesaB2CAdapter: amounts.                                               *)

\* Math.round(minor / 100).
Rounded(minor) == (minor + 50) \div 100
\* Whole shillings for an amount in cents; below one shilling the amount is taken to
\* be in shillings.
Shillings(minor) == IF minor >= 100 THEN Rounded(minor) ELSE minor

-----------------------------------------------------------------------------
Init ==
  /\ now = 0
  /\ \E f \in Batch :
       call = [c \in Call |-> [step |-> "new", form |-> f[c], recipient |-> NoRecipient,
                               token |-> NoToken, sent |-> 0]]
  /\ recipientCache = [a \in Account |-> NoRecipient]
  /\ holder = [r \in Recipient |-> NoAccount]
  /\ cachedToken = NoToken
  /\ paid = [c \in Call |-> <<>>]
  /\ metrics = [p \in Provider |-> [requests |-> 0, successes |-> 0, failures |-> 0]]
  /\ reply = [c \in Call |-> "none"]

At(c, step) == call[c].step = step
FormOf(c) == call[c].form

\* The call awaits Daraja's answer to a request it sends now.
Await(c, step) == call' = [call EXCEPT ![c].step = step, ![c].sent = now]

\* recordSuccess comes last, and recordFailure in the catch block.
Outcome(c, r) == IF r = "accepted" THEN {"successes"} ELSE {"failures"}

One(b) == IF b THEN 1 ELSE 0

\* A payout's request and outcome are counted.
Counted(p, requests, outcome) ==
  metrics' = [metrics EXCEPT ![p] =
                [requests |-> @.requests + requests,
                 successes |-> @.successes + One("successes" \in outcome),
                 failures |-> @.failures + One("failures" \in outcome)]]

\* The adapter returns or throws; queries and probes are not counted.
Finish(c, r) ==
  /\ call' = [call EXCEPT ![c].step = "done"]
  /\ reply' = [reply EXCEPT ![c] = r]
  /\ IF FormOf(c).kind # "payout" THEN UNCHANGED metrics
     ELSE Counted(ProviderOf(FormOf(c)), One(At(c, "new")), Outcome(c, r))

\* recordRequest.
Request(p) == Counted(p, 1, {})

-----------------------------------------------------------------------------
(* The start of a call.                                                    *)

\* The schema or the router refuses the request; nothing is counted.
Refuse(c) ==
  /\ At(c, "new") /\ FormOf(c).kind = "payout"
  /\ ~Valid(FormOf(c)) \/ ProviderOf(FormOf(c)) = "none"
  /\ call' = [call EXCEPT ![c].step = "done"]
  /\ reply' = [reply EXCEPT ![c] = "invalid"]
  /\ UNCHANGED <<now, recipientCache, holder, cachedToken, paid, metrics>>

Accepted(c, p) ==
  /\ At(c, "new") /\ FormOf(c).kind = "payout"
  /\ Valid(FormOf(c)) /\ ProviderOf(FormOf(c)) = p

\* PaystackAdapter.initiateTransfer: the cached recipient, or one is created, under
\* the name given or a name that is looked up.
StartPaystack(c) ==
  LET f == FormOf(c)
      known == recipientCache[f.account]
  IN
  /\ Accepted(c, "paystack") /\ f.bankCode /\ f.account # NoAccount
  /\ call' = [call EXCEPT ![c] =
                [@ EXCEPT !.step = IF known # NoRecipient THEN "sending"
                                   ELSE IF f.name THEN "creating" ELSE "naming",
                          !.recipient = known]]
  /\ Request("paystack")
  /\ UNCHANGED <<now, recipientCache, holder, cachedToken, paid, reply>>

\* MpesaB2CAdapter.initiateTransfer, up to getAccessToken; a phone number that does
\* not normalise is refused like the rest.
MpesaTakes(f) == Currency(f) = "KES" /\ (f.phone \/ f.account # NoAccount)

StartMpesa(c) ==
  /\ Accepted(c, "mpesa") /\ MpesaTakes(FormOf(c))
  /\ call' = [call EXCEPT ![c].step = "token"]
  /\ Request("mpesa")
  /\ UNCHANGED <<now, recipientCache, holder, cachedToken, paid, reply>>

\* The adapter throws before it sends anything.
RejectPaystack(c) ==
  /\ Accepted(c, "paystack") /\ ~(FormOf(c).bankCode /\ FormOf(c).account # NoAccount)
  /\ Finish(c, "failed")
  /\ UNCHANGED <<now, recipientCache, holder, cachedToken, paid>>

RejectMpesa(c) ==
  /\ Accepted(c, "mpesa")
  /\ Finish(c, "failed")
  /\ UNCHANGED <<now, recipientCache, holder, cachedToken, paid>>

\* queryTransactionStatus needs a token too; verifyConnectivity fetches one whatever
\* is cached.
StartOther(c) ==
  /\ At(c, "new") /\ FormOf(c).kind # "payout"
  /\ IF FormOf(c).kind = "probe" THEN Await(c, "fetching")
     ELSE call' = [call EXCEPT ![c].step = "token"]
  /\ UNCHANGED <<now, recipientCache, holder, cachedToken, payments>>

-----------------------------------------------------------------------------
(* PaystackAdapter.                                                        *)

\* The name is looked up; a failure is caught and a name made up.
Name(c) ==
  /\ At(c, "naming")
  /\ call' = [call EXCEPT ![c].step = "creating"]
  /\ UNCHANGED <<now, recipientCache, holder, cachedToken, payments>>

\* Mutant of CacheKey: the codes of one bank are mixed up.
CacheAny(a, b) == TRUE
\* bankCode:accountNumber.
CacheKey(a, b) == a = b

\* Paystack issues a code for the account, which is cached and used.
CreateRecipient(c) ==
  LET a == FormOf(c).account IN
  /\ At(c, "creating")
  /\ \E r \in Recipient :
       /\ holder[r] \in {NoAccount, a}
       /\ holder' = [holder EXCEPT ![r] = a]
       /\ recipientCache' = [b \in Account |-> IF CacheKey(b, a) THEN r ELSE recipientCache[b]]
       /\ call' = [call EXCEPT ![c].step = "sending", ![c].recipient = r]
  /\ UNCHANGED <<now, cachedToken, payments>>

Pays(c, payout) == paid' = [paid EXCEPT ![c] = Append(@, payout)]

BankPayout(c) ==
  [provider |-> "paystack", account |-> holder[call[c].recipient], phone |-> FALSE,
   currency |-> Currency(FormOf(c)), amount |-> FormOf(c).amount]

\* Paystack executes the transfer; its answer is read, lost, or not understood.
SendTransfer(c) ==
  /\ At(c, "sending")
  /\ Pays(c, BankPayout(c))
  /\ \E r \in {"accepted", "failed"} : Finish(c, r)
  /\ UNCHANGED <<now, recipientCache, holder, cachedToken>>

\* Nothing is executed: the request is refused or never arrives.
PaystackFails(c) ==
  /\ At(c, "creating") \/ At(c, "sending")
  /\ Finish(c, "failed")
  /\ UNCHANGED <<now, recipientCache, holder, cachedToken, paid>>

-----------------------------------------------------------------------------
(* MpesaClient.                                                            *)

\* Mutant of Fresh: a token is used until it expires.
FreshUntilExpiry(t) == t.expiresAt > now
\* The cached token is good for longer than the margin.
Fresh(t) == t.expiresAt > now + Margin

Cached == cachedToken # NoToken /\ Fresh(cachedToken)

Uses(c) == IF FormOf(c).kind = "query" THEN "querying" ELSE "v3"

\* getAccessToken from the cache; the request is sent with it at once.
TakeToken(c) ==
  /\ At(c, "token") /\ Cached
  /\ call' = [call EXCEPT ![c] =
                [@ EXCEPT !.step = Uses(c), !.token = cachedToken, !.sent = now]]
  /\ UNCHANGED <<now, recipientCache, holder, cachedToken, payments>>

RequestToken(c) ==
  /\ At(c, "token") /\ ~Cached
  /\ Await(c, "fetching")
  /\ UNCHANGED <<now, recipientCache, holder, cachedToken, payments>>

\* Mutant of ExpiresAt: the lifetime is counted from the answer.
ExpiresFromAnswer(c) == now + Lifetime
\* The lifetime is counted from before the request.
ExpiresAt(c) == call[c].sent + Lifetime

\* Daraja issued the token at some moment of the request; whoever answers last
\* leaves its token in the cache.
ReceiveToken(c) ==
  /\ At(c, "fetching")
  /\ \E issued \in call[c].sent..now :
       LET t == [expiresAt |-> ExpiresAt(c), until |-> issued + Lifetime] IN
       /\ cachedToken' = t
       /\ IF FormOf(c).kind = "probe"
          THEN Finish(c, "accepted")
          ELSE /\ call' = [call EXCEPT ![c] = [@ EXCEPT !.step = Uses(c), !.token = t, !.sent = now]]
               /\ UNCHANGED <<metrics, reply>>
  /\ UNCHANGED <<now, recipientCache, holder, paid>>

MobilePayout(c) ==
  [provider |-> "mpesa", account |-> NoAccount, phone |-> FormOf(c).phone,
   currency |-> "KES", amount |-> Shillings(FormOf(c).amount)]

\* v3 knows no such path: the same request goes to v1.
FallBack(c) ==
  /\ At(c, "v3")
  /\ Await(c, "v1")
  /\ UNCHANGED <<now, recipientCache, holder, cachedToken, payments>>

\* Daraja takes the payout; its answer is read, lost, or not understood.
SendB2CPayment(c) ==
  /\ At(c, "v3") \/ At(c, "v1")
  /\ Pays(c, MobilePayout(c))
  /\ \E r \in {"accepted", "failed"} : Finish(c, r)
  /\ UNCHANGED <<now, recipientCache, holder, cachedToken>>

\* No token, no payout, or no status: refused, unreachable or timed out.
DarajaFails(c) ==
  /\ call[c].step \in {"fetching", "v3", "v1", "querying"}
  /\ Finish(c, "failed")
  /\ UNCHANGED <<now, recipientCache, holder, cachedToken, paid>>

\* A status query is acknowledged, whatever has become of the payout.
QueryTransactionStatus(c) ==
  /\ At(c, "querying")
  /\ Finish(c, "accepted")
  /\ UNCHANGED <<now, recipientCache, holder, cachedToken, paid>>

\* The database fails while the catch block sets the status: the outcome is not counted.
Uncounted(c) ==
  /\ call[c].step \in {"creating", "sending", "fetching", "v3", "v1"}
  /\ FormOf(c).kind = "payout"
  /\ call' = [call EXCEPT ![c].step = "done"]
  /\ reply' = [reply EXCEPT ![c] = "failed"]
  /\ UNCHANGED <<now, recipientCache, holder, cachedToken, paid, metrics>>

-----------------------------------------------------------------------------
\* No request to Daraja outlives its timeout; a call that has its token sends at once.
Tick ==
  /\ now < MaxTime
  /\ \A c \in Call :
       call[c].step \in {"fetching", "v3", "v1", "querying"} => now < call[c].sent + Timeout
  /\ now' = now + 1
  /\ UNCHANGED <<call, recipientCache, holder, cachedToken, payments>>

Proceed(c) ==
  \/ Refuse(c) \/ StartPaystack(c) \/ StartMpesa(c) \/ StartOther(c)
  \/ RejectPaystack(c) \/ RejectMpesa(c)
  \/ Name(c) \/ CreateRecipient(c) \/ SendTransfer(c) \/ PaystackFails(c)
  \/ TakeToken(c) \/ RequestToken(c) \/ ReceiveToken(c) \/ FallBack(c)
  \/ SendB2CPayment(c) \/ DarajaFails(c) \/ QueryTransactionStatus(c)
  \/ Uncounted(c)

Next == (\E c \in Call : Proceed(c)) \/ Tick

Spec == Init /\ [][Next]_vars

-----------------------------------------------------------------------------
(* Properties.                                                             *)

\* However calls overlap on the cache, the token and the fallback, a call pays at most
\* once, a bank payout goes to the account of its request in full, and an M-Pesa
\* payout of a shilling or more to a phone, at most half a shilling off.
PaidAsRequested ==
  \A c \in Call :
    /\ Len(paid[c]) <= 1
    /\ \A i \in DOMAIN paid[c] :
         LET p == paid[c][i]
             f == FormOf(c)
         IN IF p.provider = "paystack"
            THEN p.account = f.account /\ p.amount = f.amount
            ELSE /\ p.currency = Currency(f)
                 /\ f.amount >= 100 => 100 * p.amount - f.amount \in -50..50

\* A request is never sent with a token that has expired, although the token is taken
\* before a fallback and a request may take its whole timeout.
TokensAreValid ==
  \A c \in Call :
    call[c].step \in {"v3", "v1", "querying"} => call[c].sent < call[c].token.until

\* The counters behind the health report count no payout twice: the requests cover
\* those answered and those under way.
MetricsAccount ==
  \A p \in Provider :
    metrics[p].successes + metrics[p].failures
      + Cardinality({c \in Call : /\ FormOf(c).kind = "payout" /\ ProviderOf(FormOf(c)) = p
                                  /\ call[c].step \notin {"new", "done"}})
      <= metrics[p].requests

\* The two together: overlapping calls are paid as they ask and counted as they end.
PaidAndCounted == PaidAsRequested /\ MetricsAccount

\* Nigerian bank payouts are in naira (transfer.schema.ts:154).
BankPayoutsAreNaira ==
  \A c \in Call : \A i \in DOMAIN paid[c] :
    paid[c][i].provider = "paystack" => paid[c][i].currency = "NGN"
=============================================================================
