-------------------------------- MODULE Listings --------------------------------
(***************************************************************************)
(* A reader of the API while rows are added: it walks a list page by page, *)
(* newest row first, or asks for a report whose figures are counted by     *)
(* statements of their own, sent together and answered in any order.       *)
(* The rows of a table are numbered in the order they were created.        *)
(***************************************************************************)
EXTENDS Integers, Sequences, FiniteSets, SequencesExt

CONSTANTS
  Walk,      \* the lists the reader may walk: see Lists
  Ask,       \* the reports it may ask for: see Reports
  Limit,     \* page sizes
  MaxRows,   \* rows of a table, a bound
  MaxAdded   \* rows added or settled meanwhile, a bound

VARIABLES
  rows,      \* per table: the kind of each row, oldest first
  reader     \* what is asked for, what was answered, what is still awaited

vars == <<rows, reader>>

Table == {"user", "project", "customer", "account", "transfer", "journal", "entry", "log",
          "event", "providerTransaction", "endpoint", "delivery"}
\* Of a transfer or a logged request; rows of other tables are "open".
RowKind == {"open", "good", "bad"}

-----------------------------------------------------------------------------
(* The lists.  A page is fetched with some rows more than the client asked *)
(* for, to see whether more follow; the cursor is a row, left out or not.  *)

Listing(table, ahead, skips, next) ==
  [table |-> table, ahead |-> ahead, skips |-> skips, next |-> next]

\* Log and ledger explorer: the row too many is taken off the page and is the cursor.
LogsList == Listing("log", 1, TRUE, "extra")
ExplorerList == Listing("entry", 1, TRUE, "extra")
\* LedgerService.getAccountLedger: the last row of the page is the cursor.
EntriesList == Listing("entry", 1, TRUE, "last")
\* TransferService.listTransfers: so it is here, and the next page begins with it.
TransfersList == Listing("transfer", 1, FALSE, "last")
\* The client takes the last row it has for the cursor.
AccountsList == Listing("account", 0, TRUE, "last")
CustomersList == Listing("customer", 0, TRUE, "last")

Lists ==
  [logs |-> LogsList, explorer |-> ExplorerList, entries |-> EntriesList,
   transfers |-> TransfersList, accounts |-> AccountsList, customers |-> CustomersList]

-----------------------------------------------------------------------------
(* The reports: what must be found first, then the statements that are     *)
(* sent together, round after round.                                       *)

All(table) == [table |-> table, kinds |-> RowKind]
Only(table, kind) == [table |-> table, kinds |-> {kind}]
Alls(tables) == {All(t) : t \in tables}
Report(found, rounds) == [found |-> found, rounds |-> rounds]

Overview ==
  Report("none", <<Alls({"customer", "account", "transfer"})
                     \cup {Only("transfer", "good"), Only("transfer", "bad")}>>)
AdminStats ==
  Report("none",
         <<Alls({"user", "project", "customer", "account", "transfer", "journal", "log"})
             \cup {Only("log", "bad"), Only("transfer", "good")},
           Alls({"user", "project", "customer", "account", "transfer", "log"})>>)
AdminSandbox == Report("none", <<Alls({"transfer", "account", "event", "providerTransaction"})>>)
UserDetail == Report("user", <<Alls({"customer", "account", "transfer", "log"})>>)
ProjectDetail == Report("project", <<Alls({"log", "event"})>>)
CustomerDetail == Report("customer", << >>)
AccountDetail == Report("account", <<Alls({"entry"})>>)
TransferDetail == Report("transfer", <<Alls({"providerTransaction", "journal"})>>)
JournalDetail == Report("journal", << >>)
LogDetail == Report("log", << >>)
EndpointList == Report("none", <<Alls({"endpoint"})>>)
DeliveryList == Report("endpoint", <<Alls({"delivery"})>>)

\* The pages of the administrator: the rows and how many there are in all, each asked
\* for with the same filter.
AdminUsers == Report("none", <<Alls({"user"})>>)
AdminProjects == Report("none", <<Alls({"project"})>>)
AdminCustomers == Report("none", <<Alls({"customer"})>>)
AdminAccounts == Report("none", <<Alls({"account"})>>)
AdminTransfers == Report("none", <<Alls({"transfer"}) \cup {Only("transfer", "bad")}>>)
AdminTransactions == Report("none", <<Alls({"journal"})>>)
AdminActivity == Report("none", <<Alls({"log"}) \cup {Only("log", "bad")}>>)

Reports ==
  [overview |-> Overview, stats |-> AdminStats, sandbox |-> AdminSandbox,
   user |-> UserDetail, project |-> ProjectDetail, customer |-> CustomerDetail,
   account |-> AccountDetail, transfer |-> TransferDetail, journal |-> JournalDetail,
   log |-> LogDetail, endpoints |-> EndpointList, deliveries |-> DeliveryList,
   users |-> AdminUsers, projects |-> AdminProjects, customers |-> AdminCustomers,
   accounts |-> AdminAccounts, transfers |-> AdminTransfers,
   transactions |-> AdminTransactions, activity |-> AdminActivity]

\* What the proofs assume: the walks are those that begin the next page at the last row.
ConstantsOK ==
  /\ Walk \subseteq {l \in DOMAIN Lists : Lists[l].next = "last"} /\ Ask \subseteq DOMAIN Reports
  /\ Limit \subseteq Nat \ {0}
  /\ MaxRows \in Nat /\ MaxRows >= 3

-----------------------------------------------------------------------------
(* The state.                                                              *)

NewestFirst(S) ==
  CHOOSE s \in [1 .. Cardinality(S) -> S] : \A i, j \in DOMAIN s : i < j => s[i] > s[j]

Numbers(table, kinds) == {i \in DOMAIN rows[table] : rows[table][i] \in kinds}

\* How many rows there are now: what a figure is measured by.
Now(statement) == Cardinality(Numbers(statement.table, statement.kinds))

Counted(statement) == Cardinality(Numbers(statement.table, statement.kinds))

Statement == [table : Table, kinds : SUBSET RowKind]

TypeOK ==
  /\ DOMAIN rows = Table
  /\ \A t \in Table : rows[t] \in BoundedSeq(RowKind, MaxRows)
  /\ reader.step \in {"idle", "page", "count", "done"}
  /\ reader.cursor \in 0..MaxRows /\ reader.seen \subseteq 1..MaxRows
  /\ \A w \in reader.waits : w.of \in Statement /\ w.was \in 0..MaxRows
  /\ \A f \in reader.figures : f.of \in Statement /\ f.is \in 0..MaxRows /\ f.was \in 0..MaxRows

Idle ==
  [step |-> "idle", name |-> "none", kinds |-> {}, limit |-> 0, cursor |-> 0, seen |-> {},
   due |-> {}, round |-> 0, waits |-> {}, figures |-> {}, added |-> 0]

Init ==
  /\ rows \in {[t \in Table |-> IF t = "entry" \/ t = "account" THEN << >> ELSE <<"open">>],
               [t \in Table |-> <<"open", "bad", "open">>]}
  /\ reader = Idle

-----------------------------------------------------------------------------
(* Walks.                                                                  *)

StartWalk ==
  /\ reader.step = "idle"
  /\ \E l \in Walk, limit \in Limit, kinds \in {RowKind, {"open"}} :
       reader' = [Idle EXCEPT !.step = "page", !.name = l, !.kinds = kinds, !.limit = limit,
                              !.due = Numbers(Lists[l].table, kinds)]
  /\ UNCHANGED rows

\* Mutant of From: the row after the cursor is skipped too.
FromNext(l, cursor) ==
  NewestFirst({i \in Numbers(Lists[l].table, reader.kinds) : cursor = 0 \/ i < cursor - 1})

\* The rows from the cursor on, the cursor itself left out where the list skips it.
From(l, cursor) ==
  NewestFirst({i \in Numbers(Lists[l].table, reader.kinds) :
                 cursor = 0 \/ i < cursor \/ (i = cursor /\ ~Lists[l].skips)})

First(s, n) == SubSeq(s, 1, IF Len(s) < n THEN Len(s) ELSE n)

\* The page, and the cursor of the next: none where the rows ended.
FetchPage ==
  LET l == Lists[reader.name]
      got == First(From(reader.name, reader.cursor), reader.limit + l.ahead)
      page == First(got, reader.limit)
      more == Len(got) = reader.limit + l.ahead
  IN
  /\ reader.step = "page"
  /\ reader' = [reader EXCEPT
       !.seen = @ \cup ToSet(page),
       !.cursor = IF ~more THEN 0
                  ELSE IF l.next = "extra" THEN got[reader.limit + 1] ELSE page[reader.limit],
       !.step = IF more THEN "page" ELSE "done"]
  /\ UNCHANGED rows

-----------------------------------------------------------------------------
(* Reports.                                                                *)

\* The statements of a round, with what each would have counted as they are sent.
Sent(statements) == {[of |-> q, was |-> Now(q)] : q \in statements}

Sends(r, round) ==
  [r EXCEPT !.step = "count", !.round = round, !.waits = Sent(Reports[r.name].rounds[round])]

\* Not found, nothing more to ask, or the first round.
StartReport ==
  /\ reader.step = "idle"
  /\ \E name \in Ask :
       LET asked == [Idle EXCEPT !.name = name]
           found == Reports[name].found
       IN reader' = IF (found # "none" /\ rows[found] = << >>) \/ Reports[name].rounds = << >>
                    THEN [asked EXCEPT !.step = "done"] ELSE Sends(asked, 1)
  /\ UNCHANGED rows

\* One statement is answered; with the last of them the next round is sent.
AnswerCount ==
  /\ reader.step = "count"
  /\ \E w \in reader.waits :
       LET answered == [reader EXCEPT
             !.waits = @ \ {w},
             !.figures = @ \cup {[of |-> w.of, was |-> w.was, is |-> Counted(w.of)]}]
       IN reader' = IF answered.waits # {} THEN answered
                    ELSE IF reader.round < Len(Reports[reader.name].rounds)
                    THEN Sends(answered, reader.round + 1)
                    ELSE [answered EXCEPT !.step = "done"]
  /\ UNCHANGED rows

\* A statement fails: the whole report does.
FailReport ==
  /\ reader.step = "count"
  /\ reader' = [reader EXCEPT !.step = "done", !.waits = {}, !.figures = {}]
  /\ UNCHANGED rows

-----------------------------------------------------------------------------
(* Meanwhile others write; what nobody asks about is left alone.           *)

Concerned ==
  IF reader.name \in DOMAIN Lists THEN {Lists[reader.name].table}
  ELSE IF reader.name \in DOMAIN Reports
       THEN {q.table : q \in UNION ToSet(Reports[reader.name].rounds)}
       ELSE {}

Add ==
  /\ reader.step \in {"page", "count"} /\ reader.added < MaxAdded
  /\ \E t \in Concerned, kind \in {"open", "bad"} :
       /\ Len(rows[t]) < MaxRows
       /\ kind = "bad" => t \in {"transfer", "log"}
       /\ rows' = [rows EXCEPT ![t] = Append(@, kind)]
  /\ reader' = [reader EXCEPT !.added = @ + 1]

\* An open transfer is settled.
Settle ==
  /\ reader.step = "count" /\ "transfer" \in Concerned /\ reader.added < MaxAdded
  /\ \E i \in Numbers("transfer", {"open"}), kind \in {"good", "bad"} :
       rows' = [rows EXCEPT !["transfer"][i] = kind]
  /\ reader' = [reader EXCEPT !.added = @ + 1]

Next ==
  \/ StartWalk \/ FetchPage
  \/ StartReport \/ AnswerCount \/ FailReport
  \/ Add \/ Settle

Spec == Init /\ [][Next]_vars

-----------------------------------------------------------------------------
(* Properties.                                                             *)

\* A walk that follows the cursors to the end has seen every row that was there when
\* it began, whatever was added meanwhile.
PagesCoverTheList ==
  reader.step = "done" /\ reader.name \in Walk => reader.due \subseteq reader.seen

\* Each figure of a report was the right one at some moment since it was asked for,
\* although figures of one report may not be of one moment.
FiguresAreRecent ==
  \A f \in reader.figures : f.was <= f.is /\ f.is <= Now(f.of)

\* What is read page by page or figure by figure is right, although rows are added and
\* settled between two statements (the routes of customers, accounts, transfers, entries,
\* the overview and the administration).
ReadsAreRight == PagesCoverTheList /\ FiguresAreRecent
=============================================================================
