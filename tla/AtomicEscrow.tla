------------------------------ MODULE AtomicEscrow ------------------------------
(***************************************************************************)
(* What ledger-backed external transfers promise: a transfer takes its     *)
(* amount from a wallet that has it, and ends by being paid or by giving   *)
(* the amount back, each in one step.  There are no requests, webhooks or  *)
(* locks here, and nothing is lost.                                        *)
(***************************************************************************)
EXTENDS Integers

CONSTANTS
  Wallet, Ref,
  Amount,       \* amounts in minor units
  Opening,      \* balance of each wallet at the start
  NoTransfer    \* no transfer under a reference

VARIABLES
  balance,   \* what the ledger says each wallet has left
  transfer   \* transfers by reference

Init ==
  /\ balance = Opening
  /\ transfer = [r \in Ref |-> NoTransfer]

IsOpen(t) == t # NoTransfer /\ t.status \in {"pending", "processing"}

\* The money is there and is held, for a reference that is new; the provider may
\* have paid at once.
Hold(r, a, n) ==
  /\ transfer[r] = NoTransfer
  /\ balance[a] >= n
  /\ \E s \in {"pending", "processing", "successful"} :
       transfer' = [transfer EXCEPT ![r] = [from |-> a, amount |-> n, status |-> s]]
  /\ balance' = [balance EXCEPT ![a] = @ - n]

\* The provider has refused at once: the wallet keeps its money.
Refuse(r, a, n) ==
  /\ transfer[r] = NoTransfer
  /\ balance[a] >= n
  /\ transfer' = [transfer EXCEPT ![r] = [from |-> a, amount |-> n, status |-> "failed"]]
  /\ UNCHANGED balance

Settle(r) ==
  /\ IsOpen(transfer[r])
  /\ transfer' = [transfer EXCEPT ![r].status = "successful"]
  /\ UNCHANGED balance

Release(r) ==
  /\ IsOpen(transfer[r])
  /\ transfer' = [transfer EXCEPT ![r].status = "failed"]
  /\ balance' = [balance EXCEPT ![transfer[r].from] = @ + transfer[r].amount]

Next ==
  \/ \E r \in Ref, a \in Wallet, n \in Amount : Hold(r, a, n) \/ Refuse(r, a, n)
  \/ \E r \in Ref : Settle(r) \/ Release(r)

Spec == Init /\ [][Next]_<<balance, transfer>>
=================================================================================
