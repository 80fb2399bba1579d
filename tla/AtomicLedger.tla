------------------------------ MODULE AtomicLedger ------------------------------
(***************************************************************************)
(* What the internal ledger promises: balances and journals that one       *)
(* operation at a time changes, each of them in one step and only when its *)
(* conditions hold at that very moment.  There are no requests, no locks   *)
(* and no cached values here.                                               *)
(***************************************************************************)
EXTENDS Integers

CONSTANTS
  Account, Project,
  projectOf,    \* the project of each account
  Opening,      \* balance of each account at the start
  Amount,       \* amounts in minor units
  JournalKey,   \* pairs of a project and a reference
  NoJournal     \* no journal row, and no link

VARIABLES
  balance,   \* what the ledger says each account holds
  journal,   \* journals by project and reference
  funded     \* what the sandbox has given each project

Init ==
  /\ balance = Opening
  /\ journal = [k \in JournalKey |-> NoJournal]
  /\ funded = [p \in Project |-> 0]

Row(a, b, n, reverses) ==
  [from |-> a, to |-> b, amount |-> n, reverses |-> reverses, reversal |-> NoJournal]

\* The money is there, and changes hands.
Move(a, b, n) ==
  /\ balance[a] >= n
  /\ LET paid == [balance EXCEPT ![a] = @ - n]
     IN balance' = [paid EXCEPT ![b] = @ + n]

\* A reference is used once in a project; the payer's project posts.
Transfer(a, b, n, k) ==
  /\ journal[k] = NoJournal
  /\ k[1] = projectOf[a]
  /\ Move(a, b, n)
  /\ journal' = [journal EXCEPT ![k] = Row(a, b, n, NoJournal)]
  /\ UNCHANGED funded

\* The project that was paid gives all of it back, once, while it still has it.
Reverse(t, k) ==
  LET original == journal[t]
  IN /\ original # NoJournal /\ original.reversal = NoJournal
     /\ journal[k] = NoJournal
     /\ k[1] = projectOf[original.to]
     /\ Move(original.to, original.from, original.amount)
     /\ journal' = [journal EXCEPT
          ![t] = [original EXCEPT !.reversal = k],
          ![k] = Row(original.to, original.from, original.amount, t)]
     /\ UNCHANGED funded

Fund(a, n) ==
  /\ balance' = [balance EXCEPT ![a] = @ + n]
  /\ funded' = [funded EXCEPT ![projectOf[a]] = @ + n]
  /\ UNCHANGED journal

Next ==
  \/ \E a, b \in Account, n \in Amount, k \in JournalKey : Transfer(a, b, n, k)
  \/ \E t, k \in JournalKey : Reverse(t, k)
  \/ \E a \in Account, n \in Amount : Fund(a, n)

Spec == Init /\ [][Next]_<<balance, journal, funded>>
=================================================================================
