--------------------------- MODULE TransferLifecycle ---------------------------
(***************************************************************************)
(* What the transfer state machine promises: every transfer is created     *)
(* pending and only ever moves along ALLOWED_TRANSFER_TRANSITIONS.  The    *)
(* services that write the status column are shown, where it is so, to     *)
(* implement this specification.                                           *)
(***************************************************************************)
CONSTANTS
  Transfer,    \* names of the transfers
  NoTransfer   \* the status of a transfer that has no row yet

Status == {"created", "pending", "processing", "successful", "failed",
           "reversed", "cancelled"}


\* ALLOWED_TRANSFER_TRANSITIONS.
Allowed ==
  [created    |-> {"pending", "processing", "failed", "cancelled"},
   pending    |-> {"processing", "successful", "failed", "cancelled"},
   processing |-> {"successful", "failed", "reversed"},
   successful |-> {"reversed"},
   failed     |-> {},
   reversed   |-> {},
   cancelled  |-> {}]

\* Mutant of IsValid: the table is not consulted.
IsValidAlways(s, t) == TRUE
\* isValidTransferTransition: staying put is always allowed.
IsValid(s, t) == s = t \/ t \in Allowed[s]

\* The statuses synchronizeTransferStatus never leaves.
Terminal == {"successful", "failed", "reversed", "cancelled"}

-----------------------------------------------------------------------------
VARIABLE status

TypeOK == status \in [Transfer -> Status \cup {NoTransfer}]

Init == status = [t \in Transfer |-> NoTransfer]

Create(t) ==
  /\ status[t] = NoTransfer
  /\ status' = [status EXCEPT ![t] = "pending"]

Move(t, s) ==
  /\ status[t] # NoTransfer
  /\ s \in Allowed[status[t]]
  /\ status' = [status EXCEPT ![t] = s]

Next == \E t \in Transfer : Create(t) \/ \E s \in Status : Move(t, s)

Spec == Init /\ [][Next]_status
=============================================================================
