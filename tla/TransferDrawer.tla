----------------------------- MODULE TransferDrawer -----------------------------
(***************************************************************************)
(* The drawer of the transfers page: the user fills in a payment, has the  *)
(* account's owner looked up, reviews and authorizes it, and is shown the  *)
(* receipt.  Each opening has a key of its own, by which the server knows  *)
(* a repeated request; the drawer may be closed at any time, and what was  *)
(* sent is answered all the same, into whatever the drawer shows then.     *)
(***************************************************************************)
EXTENDS Integers, FiniteSets

CONSTANTS
  Accounts,    \* bank codes with complete account numbers
  Amounts,     \* amounts the user types
  MaxSessions  \* openings of the drawer, a bound

NoOne == 0     \* no account, no name, no amount
Typed == -1    \* a name the user typed himself
Rails == {"bank", "mobile", "internal"}

VARIABLES
  drawer,    \* open, step, and the key of this opening
  form,      \* rail, isCustomBank, account, name, resolved, amount, formError
  waiting,   \* isResolvingAccount, isSubmitting
  lookups,   \* accounts looked up and not answered yet
  requests,  \* payments sent and not answered yet, with their keys
  executed,  \* the server: per key, the payment made
  receipt    \* submitOutcome: the key and the payment it is the receipt of

vars == <<drawer, form, waiting, lookups, requests, executed, receipt>>

Keys == 1 .. MaxSessions
Payment == [rail : Rails, account : Accounts \cup {NoOne}, amount : Amounts]
NoReceipt == [key |-> 0]
EmptyForm == [rail |-> "bank", custom |-> FALSE, account |-> NoOne, name |-> NoOne,
              resolved |-> FALSE, amount |-> NoOne, error |-> FALSE]

Init ==
  /\ drawer = [open |-> FALSE, step |-> 1, key |-> 0]
  /\ form = EmptyForm
  /\ waiting = [lookup |-> FALSE, submit |-> FALSE]
  /\ lookups = {} /\ requests = {} /\ executed = << >> /\ receipt = NoReceipt

-----------------------------------------------------------------------------
(* Opening and closing.                                                    *)

OpenDrawer ==
  /\ ~drawer.open /\ drawer.key < MaxSessions
  /\ drawer' = [open |-> TRUE, step |-> 1, key |-> drawer.key + 1]
  /\ form' = [form EXCEPT !.error = FALSE]
  /\ UNCHANGED <<waiting, lookups, requests, executed, receipt>>

\* Cancel, the cross, the backdrop: whatever is under way.  The kind of transfer is kept.
ResetDrawer ==
  /\ drawer.open
  /\ drawer' = [drawer EXCEPT !.open = FALSE, !.step = 1]
  /\ form' = [EmptyForm EXCEPT !.rail = IF form.rail = "internal" THEN "internal" ELSE "bank"]
  /\ receipt' = NoReceipt
  /\ UNCHANGED <<waiting, lookups, requests, executed>>

-----------------------------------------------------------------------------
(* The form.                                                               *)

Filling == drawer.open /\ drawer.step = 1

ChooseRail(r) ==
  /\ Filling
  /\ form' = [form EXCEPT !.rail = r, !.error = FALSE]
  /\ UNCHANGED <<drawer, waiting, lookups, requests, executed, receipt>>

LookUp(a) ==
  /\ waiting' = [waiting EXCEPT !.lookup = TRUE]
  /\ lookups' = lookups \cup {a}

\* What is typed is another account, or none yet.
Edits(a) == Filling /\ form.rail = "bank" /\ (a # form.account \/ a = NoOne)

\* The number is typed: complete, it is looked up at once; what was verified is not any more.
AccountNumberChange(a) ==
  /\ Edits(a)
  /\ form' = [form EXCEPT !.account = a, !.resolved = FALSE]
  /\ IF a = NoOne THEN UNCHANGED <<waiting, lookups>> ELSE LookUp(a)
  /\ UNCHANGED <<drawer, requests, executed, receipt>>

\* Another bank of the list: the name goes as well.
BankChange(a) ==
  /\ Edits(a) /\ ~form.custom
  /\ form' = [form EXCEPT !.account = a, !.resolved = FALSE, !.name = NoOne]
  /\ IF a = NoOne THEN UNCHANGED <<waiting, lookups>> ELSE LookUp(a)
  /\ UNCHANGED <<drawer, requests, executed, receipt>>

\* From the list to a code of the user's own, or back: the name goes, and nothing is
\* looked up, although the code that counts now may make another account.
CustomBankToggle(a) ==
  /\ Filling /\ form.rail = "bank"
  /\ form' = [form EXCEPT !.custom = ~@, !.account = a, !.resolved = FALSE, !.name = NoOne]
  /\ UNCHANGED <<drawer, waiting, lookups, requests, executed, receipt>>

\* The code is typed: the name stays, and nothing is looked up.
CustomBankCodeChange(a) ==
  /\ Edits(a) /\ form.custom
  /\ form' = [form EXCEPT !.account = a, !.resolved = FALSE]
  /\ UNCHANGED <<drawer, waiting, lookups, requests, executed, receipt>>

Verify ==
  /\ Filling /\ form.rail = "bank" /\ form.account # NoOne /\ ~waiting.lookup
  /\ form' = [form EXCEPT !.resolved = FALSE]
  /\ LookUp(form.account)
  /\ UNCHANGED <<drawer, requests, executed, receipt>>

\* The name may be typed as long as none was verified.
TypeName ==
  /\ Filling /\ form.rail = "bank" /\ ~form.resolved /\ ~waiting.lookup
  /\ form' = [form EXCEPT !.name = Typed]
  /\ UNCHANGED <<drawer, waiting, lookups, requests, executed, receipt>>

TypeAmount(n) ==
  /\ Filling
  /\ form' = [form EXCEPT !.amount = n]
  /\ UNCHANGED <<drawer, waiting, lookups, requests, executed, receipt>>

\* A lookup is answered: its name is taken for the account's, whichever is typed by now.
LookUpAnswered(a) ==
  /\ a \in lookups
  /\ lookups' = lookups \ {a}
  /\ waiting' = [waiting EXCEPT !.lookup = FALSE]
  /\ \/ form' = [form EXCEPT !.name = a, !.resolved = TRUE]
     \/ UNCHANGED form                                         \* no name came back
     \/ form' = [form EXCEPT !.name = NoOne, !.resolved = FALSE]
  /\ UNCHANGED <<drawer, requests, executed, receipt>>

\* handleNextStep: what is missing is asked for; then the payment is reviewed.
Complete ==
  /\ form.amount # NoOne
  /\ form.rail = "bank" => form.account # NoOne /\ form.name # NoOne

NextStep ==
  /\ Filling
  /\ IF Complete
     THEN drawer' = [drawer EXCEPT !.step = 2] /\ form' = [form EXCEPT !.error = FALSE]
     ELSE form' = [form EXCEPT !.error = TRUE] /\ UNCHANGED drawer
  /\ UNCHANGED <<waiting, lookups, requests, executed, receipt>>

EditInputs ==
  /\ drawer.open /\ drawer.step = 2 /\ ~waiting.submit
  /\ drawer' = [drawer EXCEPT !.step = 1]
  /\ UNCHANGED <<form, waiting, lookups, requests, executed, receipt>>

-----------------------------------------------------------------------------
(* The payment.                                                            *)

\* What the form asks for; the account number counts only for a bank.
Asked == [rail |-> form.rail, amount |-> form.amount,
          account |-> IF form.rail = "bank" THEN form.account ELSE NoOne]

\* Mutant of Confirmable: a click is taken while another payment is being submitted.
ConfirmableTwice == drawer.open /\ drawer.step = 2

Confirmable == drawer.open /\ drawer.step = 2 /\ ~waiting.submit

ConfirmTransfer ==
  /\ Confirmable
  /\ drawer' = [drawer EXCEPT !.step = 3]
  /\ form' = [form EXCEPT !.error = FALSE]
  /\ waiting' = [waiting EXCEPT !.submit = TRUE]
  /\ requests' = requests \cup {[key |-> drawer.key, payment |-> Asked]}
  /\ UNCHANGED <<lookups, executed, receipt>>

\* The server takes a key once; the same request again is answered as before, another
\* one with the key is refused.
Execute(q) ==
  /\ q \in requests /\ q.key \notin DOMAIN executed
  /\ executed' = [k \in DOMAIN executed \cup {q.key} |->
                   IF k = q.key THEN q.payment ELSE executed[k]]
  /\ UNCHANGED <<drawer, form, waiting, lookups, requests, receipt>>

Answer(q) ==
  /\ q \in requests
  /\ requests' = requests \ {q}
  /\ waiting' = [waiting EXCEPT !.submit = FALSE]
  /\ UNCHANGED <<lookups, executed>>

SubmitSucceeds(q) ==
  /\ q.key \in DOMAIN executed /\ executed[q.key] = q.payment
  /\ Answer(q)
  /\ receipt' = q
  /\ UNCHANGED <<drawer, form>>

\* Refused, or the answer is lost: back to the form, with its key.
SubmitFails(q) ==
  /\ Answer(q)
  /\ drawer' = [drawer EXCEPT !.step = 1]
  /\ form' = [form EXCEPT !.error = TRUE]
  /\ UNCHANGED receipt

-----------------------------------------------------------------------------
Next ==
  \/ OpenDrawer \/ ResetDrawer \/ Verify \/ TypeName \/ NextStep \/ EditInputs
  \/ ConfirmTransfer
  \/ \E r \in Rails : ChooseRail(r)
  \/ \E a \in Accounts \cup {NoOne} :
       \/ AccountNumberChange(a) \/ BankChange(a)
       \/ CustomBankToggle(a) \/ CustomBankCodeChange(a)
  \/ \E n \in Amounts : TypeAmount(n)
  \/ \E a \in lookups : LookUpAnswered(a)
  \/ \E q \in requests : Execute(q) \/ SubmitSucceeds(q) \/ SubmitFails(q)

Spec == Init /\ [][Next]_vars

-----------------------------------------------------------------------------
TypeOK ==
  /\ drawer \in [open : BOOLEAN, step : 1 .. 3, key : 0 .. MaxSessions]
  /\ form \in [rail : Rails, custom : BOOLEAN, account : Accounts \cup {NoOne},
               name : Accounts \cup {NoOne, Typed}, resolved : BOOLEAN,
               amount : Amounts \cup {NoOne}, error : BOOLEAN]
  /\ waiting \in [lookup : BOOLEAN, submit : BOOLEAN]
  /\ lookups \subseteq Accounts
  /\ requests \subseteq [key : Keys, payment : Payment]
  /\ DOMAIN executed \subseteq Keys /\ \A k \in DOMAIN executed : executed[k] \in Payment
  /\ receipt = NoReceipt \/ receipt \in [key : Keys, payment : Payment]

\* The receipt at the last step is that of the payment the user has just authorized, in
\* this opening of the drawer, and the payment was made: although the drawer can be closed
\* and opened again while an earlier payment is still being submitted (Transfers.tsx:297,
\* "Prevent duplicate clicks").
ReceiptIsOwn ==
  drawer.open /\ drawer.step = 3 /\ ~waiting.submit =>
    /\ receipt = [key |-> drawer.key, payment |-> Asked]
    /\ drawer.key \in DOMAIN executed /\ executed[drawer.key] = Asked

\* A name is shown as verified only for the account it was looked up for (Transfers.tsx:1102,
\* "Account Verified").
VerifiedIsTheAccount == drawer.open /\ form.resolved => form.name = form.account
=============================================================================
