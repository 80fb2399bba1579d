------------------------------ MODULE TestProject ------------------------------
(***************************************************************************)
(* The rows of one test project while its customers, wallets and sandbox   *)
(* fundings are created and POST /test/reset deletes them all.  The reset  *)
(* is one transaction of many statements: what others commit meanwhile its *)
(* later statements see and its earlier ones missed, what it has deleted   *)
(* others still read, and wait for when they change or reference it.       *)
(***************************************************************************)
EXTENDS Integers, FiniteSets

CONSTANTS
  Customer,     \* customers, one per externalId
  Wallet,       \* accounts
  Owner,        \* the customer a wallet is created for
  Funding,      \* fundings that can have left rows together, a bound
  Request,      \* requests under way together
  Op,           \* what they may ask for: see OpType
  Start,        \* sets of rows the project may hold first
  DailyCap,     \* SANDBOX_MAX_DAILY_FUNDING, in fundings of the largest amount
  Environment   \* of the project

VARIABLES
  row,          \* the committed rows
  gone,         \* rows the reset has deleted and not committed
  reset,        \* the next statement of the reset, or "none"
  recent,       \* customers and wallets that are younger than the reset's last statement
  request       \* per request: its step and answer

vars == <<row, gone, reset, recent, request>>

OpType ==
  [name : {"createCustomer", "updateCustomer"}, on : Customer]
  \cup [name : {"createAccount", "fund"}, on : Wallet]
  \cup [name : {"reset"}, on : {"project"}]

\* What a funding of a wallet leaves.
Trace == Funding \X Wallet
Row ==
  ({"customer"} \X Customer) \cup ({"account", "wallet"} \X Wallet)
  \cup {<<"treasury", "project">>} \cup ({"journal", "entries", "event"} \X Trace)

Statement == {"none", "events", "entries", "journals", "ledger", "accounts", "customers",
              "commit"}

TypeOK ==
  /\ row \in SUBSET Row
  /\ gone \in SUBSET Row
  /\ reset \in Statement
  /\ recent \in SUBSET Row
  /\ request \in [Request -> [op : Op, step : {"new", "read", "resetting", "done"},
                              answer : {"none", "ok", "rejected", "error"}]]

Init ==
  /\ row \in Start
  /\ gone = {} /\ reset = "none" /\ recent = {}
  /\ \E op \in [Request -> Op] :
       request = [r \in Request |-> [op |-> op[r], step |-> "new", answer |-> "none"]]

-----------------------------------------------------------------------------
OpOf(r) == request[r].op
Asks(r, name, step) == OpOf(r).name = name /\ request[r].step = step
Goes(r, step) == request' = [request EXCEPT ![r].step = step]
Answers(r, answer) ==
  request' = [request EXCEPT ![r] = [@ EXCEPT !.step = "done", !.answer = answer]]

Rows(kinds) == {x \in Row : x[1] \in kinds}
TheTreasury == <<"treasury", "project">>

\* What the database deletes with a set of rows: a customer's accounts, the entries of
\* a journal and of a ledger account.  A ledger account outlives its account.
Cascade(s) ==
  LET withAccounts == s \cup {<<"account", a>> : a \in {b \in Wallet : <<"customer", Owner[b]>> \in s}}
      entered == {t \in Trace : \/ <<"journal", t>> \in s \/ <<"wallet", t[2]>> \in s
                                \/ TheTreasury \in s}
  IN withAccounts \cup {<<"entries", t>> : t \in entered}

\* A change of, or a reference to, a row the reset has deleted waits for the reset.
Free(s) == s \cap gone = {}

\* What the rows at the start are like: an account belongs to a customer, and the day's
\* fundings are within the cap.
ConstantsOK ==
  /\ Owner \in [Wallet -> Customer] /\ Op \subseteq OpType
  /\ IsFiniteSet(Request) /\ Request # {} /\ DailyCap \in Nat
  /\ \A s \in Start :
       /\ s \subseteq Row /\ IsFiniteSet(s)
       /\ Cardinality(s \cap Rows({"event"})) <= DailyCap
       /\ \A a \in Wallet : <<"account", a>> \in s => <<"customer", Owner[a]>> \in s

-----------------------------------------------------------------------------
(* Customers and accounts.                                                 *)

\* createCustomer: the externalId is looked up, then inserted under a unique index.
FindCustomer(r) ==
  LET x == <<"customer", OpOf(r).on>> IN
  /\ \/ Asks(r, "createCustomer", "new") /\ x \notin row /\ Goes(r, "read")
     \/ Asks(r, "createCustomer", "new") /\ x \in row /\ Answers(r, "rejected")
     \/ Asks(r, "updateCustomer", "new") /\ x \in row /\ Goes(r, "read")
     \/ Asks(r, "updateCustomer", "new") /\ x \notin row /\ Answers(r, "rejected")
  /\ UNCHANGED <<row, gone, reset, recent>>

Inserted(x) == row' = row \cup {x} /\ recent' = recent \cup {x}

CreateCustomer(r) ==
  LET x == <<"customer", OpOf(r).on>> IN
  /\ Asks(r, "createCustomer", "read") /\ Free({x})
  /\ IF x \in row THEN Answers(r, "error") /\ UNCHANGED <<row, recent>>
     ELSE Answers(r, "ok") /\ Inserted(x)
  /\ UNCHANGED <<gone, reset>>

UpdateCustomer(r) ==
  LET x == <<"customer", OpOf(r).on>> IN
  /\ Asks(r, "updateCustomer", "read") /\ Free({x})
  /\ Answers(r, IF x \in row THEN "ok" ELSE "error")
  /\ UNCHANGED <<row, gone, reset, recent>>

\* createAccount: the customer is looked up, and again by the foreign key.
FindOwner(r) ==
  /\ Asks(r, "createAccount", "new")
  /\ IF <<"customer", Owner[OpOf(r).on]>> \in row THEN Goes(r, "read")
     ELSE Answers(r, "rejected")
  /\ UNCHANGED <<row, gone, reset, recent>>

CreateAccount(r) ==
  LET c == <<"customer", Owner[OpOf(r).on]>>
      x == <<"account", OpOf(r).on>>
  IN
  /\ Asks(r, "createAccount", "read") /\ Free({c}) /\ x \notin row
  /\ IF c \in row THEN Answers(r, "ok") /\ Inserted(x)
     ELSE Answers(r, "error") /\ UNCHANGED <<row, recent>>
  /\ UNCHANGED <<gone, reset>>

-----------------------------------------------------------------------------
(* SandboxService.fundTestAccount.                                         *)

\* The sum of the day's events.
Today == Cardinality(row \cap Rows({"event"}))

\* Mutant of UnderCap: the amount asked for is left out.
UnderCapSoFar(spent) == spent <= DailyCap
UnderCap(spent) == spent + 1 <= DailyCap

\* The environment, the account and the cap, before the transaction.
CheckFunding(r) ==
  /\ Asks(r, "fund", "new")
  /\ IF Environment = "test" /\ <<"account", OpOf(r).on>> \in row /\ UnderCap(Today)
     THEN Goes(r, "read") ELSE Answers(r, "rejected")
  /\ UNCHANGED <<row, gone, reset, recent>>

\* The transaction: the ledger accounts where they are missing, the journal with its
\* two entries, the balance and the event.
PostFunding(r) ==
  LET a == OpOf(r).on IN
  /\ Asks(r, "fund", "read")
  /\ Free({TheTreasury, <<"account", a>>, <<"wallet", a>>})
  /\ IF <<"account", a>> \in row
     THEN /\ \E f \in Funding :
               /\ row \cap ({"journal", "event"} \X ({f} \X Wallet)) = {}
               /\ row' = row \cup {TheTreasury, <<"wallet", a>>}
                             \cup ({"journal", "entries", "event"} \X {<<f, a>>})
          /\ Answers(r, "ok")
     ELSE Answers(r, "error") /\ UNCHANGED row
  /\ UNCHANGED <<gone, reset, recent>>

-----------------------------------------------------------------------------
(* SandboxService.resetSandbox.                                            *)

\* One reset at a time; a second would wait for the rows of the first.
StartReset(r) ==
  /\ Asks(r, "reset", "new") /\ reset = "none"
  /\ IF Environment = "test"
     THEN Goes(r, "resetting") /\ reset' = "events" ELSE Answers(r, "rejected") /\ UNCHANGED reset
  /\ UNCHANGED <<row, gone, recent>>

\* Each statement's kind of row, and the statement after it.
Kind(s) ==
  CASE s = "events" -> "event" [] s = "entries" -> "entries" [] s = "journals" -> "journal"
    [] s = "accounts" -> "account" [] s = "customers" -> "customer" [] OTHER -> "wallet"

\* Mutant of After: the customers are left.
AfterButCustomers(s) ==
  CASE s = "events" -> "entries" [] s = "entries" -> "journals" [] s = "journals" -> "ledger"
    [] s = "ledger" -> "accounts" [] OTHER -> "commit"
After(s) ==
  CASE s = "events" -> "entries" [] s = "entries" -> "journals" [] s = "journals" -> "ledger"
    [] s = "ledger" -> "accounts" [] s = "accounts" -> "customers" [] OTHER -> "commit"

\* deleteMany: what the statement sees of its kind, and what goes with it.
Delete(s) ==
  LET kinds == IF s = "ledger" THEN {"wallet", "treasury"} ELSE {Kind(s)} IN
  /\ reset = s /\ s \notin {"none", "commit"}
  /\ gone' = gone \cup (Cascade(row \cap Rows(kinds)) \cap row)
  /\ reset' = After(s)
  /\ recent' = IF reset' = "commit" THEN {} ELSE recent
  /\ UNCHANGED <<row, request>>

Ends(r, answer) ==
  /\ request[r].step = "resetting"
  /\ gone' = {} /\ reset' = "none"
  /\ Answers(r, answer)
  /\ UNCHANGED recent

CommitReset(r) ==
  /\ reset = "commit"
  /\ Ends(r, "ok")
  /\ row' = row \ gone

\* The transaction takes longer than Prisma allows, or the process stops.
AbortReset(r) ==
  /\ Ends(r, "error")
  /\ UNCHANGED row

-----------------------------------------------------------------------------
\* The answered request's client makes another.
Again(r) ==
  /\ request[r].step = "done"
  /\ \E op \in Op : request' = [request EXCEPT ![r] = [op |-> op, step |-> "new", answer |-> "none"]]
  /\ UNCHANGED <<row, gone, reset, recent>>

Proceed(r) ==
  \/ FindCustomer(r) \/ CreateCustomer(r) \/ UpdateCustomer(r)
  \/ FindOwner(r) \/ CreateAccount(r)
  \/ CheckFunding(r) \/ PostFunding(r)
  \/ StartReset(r) \/ CommitReset(r) \/ AbortReset(r) \/ Again(r)

Next ==
  \/ \E r \in Request : Proceed(r)
  \/ \E s \in Statement : Delete(s)

Spec == Init /\ [][Next]_vars

-----------------------------------------------------------------------------
(* Properties.                                                             *)

\* Fundings that check the cap together may exceed it, but by no more than one
\* funding for each request under way but one.
FundingNearCap == Today <= DailyCap + Cardinality(Request) - 1

\* A reset that commits leaves no customer and no wallet that was there when its last
\* statement ran, whatever was created while it ran.
NoneSurvive ==
  reset = "commit" /\ reset' = "none" /\ gone # {} /\ row' # row =>
    row' \cap Rows({"customer", "account"}) \subseteq recent
NoWalletSurvives == [][NoneSurvive]_vars

\* What a reset leaves of a funding belongs to a wallet that is still there.
ResetLeavesNoOrphans ==
  reset = "none" =>
    \A t \in Trace : {<<"journal", t>>, <<"event", t>>} \cap row # {} =>
      <<"account", t[2]>> \in row
=============================================================================
