------------------------------- MODULE MCPlatform -------------------------------
(***************************************************************************)
(* Each part of Platform on a small instance; what is not defined here has *)
(* its value in the configuration.                                         *)
(***************************************************************************)
EXTENDS Platform, TLC

CONSTANTS w1, w2, w3, k1, k2, r1, r2, x1, x2, q1, q2, p1, p2

-----------------------------------------------------------------------------
\* Three requests, the first under k1: payouts in opposite directions and transfers
\* between two wallets.
MCBefore(x, y) == x = x1 /\ y = x2
Payment(kind, ref, from, to) == [kind |-> kind, ref |-> ref, from |-> from, to |-> to]
Payloads == <<Payment("payout", r1, x1, x2), Payment("payout", r2, x2, x1),
              Payment("ledger", r1, x1, x2), Payment("ledger", r2, x2, x1)>>
MCPayload == ToSet(Payloads)
Under(key, n) == [key |-> key, payload |-> Payloads[n]]
MCBatch ==
  {(w1 :> Under(k1, n[1]) @@ w2 :> Under(x, n[2]) @@ w3 :> Under(y, n[3])) :
     x \in {k1, k2}, y \in {k1, k2}, n \in {<<1, 1, 3>>, <<1, 2, 3>>, <<1, 3, 4>>}}
-----------------------------------------------------------------------------
\* Three calls: bank payouts with and without a name, mobile payouts, a query, a probe,
\* and forms that no provider or the other provider takes.
Bank(account, named) ==
  [kind |-> "payout", provider |-> "none", type |-> "none", currency |-> "none",
   bankCode |-> TRUE, account |-> account, phone |-> FALSE, name |-> named, amount |-> 149]
Phone(kind, amount) ==
  [kind |-> kind, provider |-> "none", type |-> "none", currency |-> "none",
   bankCode |-> FALSE, account |-> Nothing, phone |-> TRUE, name |-> FALSE, amount |-> amount]
Naira == Bank("first", TRUE)
Unnamed == Bank("second", FALSE)
BankOnMpesa == [Naira EXCEPT !.provider = "mpesa"]
PhoneOnPaystack == [Phone("payout", 60) EXCEPT !.provider = "paystack"]
BothOnPaystack == [Unnamed EXCEPT !.provider = "paystack", !.phone = TRUE, !.currency = "KES"]
Dollars == [Naira EXCEPT !.currency = "USD"]
MCFormBatches ==
  {<<Naira, Unnamed, Dollars>>, <<Naira, Naira, BothOnPaystack>>,
   <<BankOnMpesa, PhoneOnPaystack, Unnamed>>,
   <<Phone("payout", 60), Naira, BothOnPaystack>>,
   <<Phone("payout", 149), Phone("query", 1), Dollars>>,
   <<Phone("payout", 149), Phone("probe", 1), Dollars>>}
MCForms == UNION {ToSet(f) : f \in MCFormBatches}
-----------------------------------------------------------------------------
\* Two requests of an owner, a member of another workspace and an administrator, in a
\* workspace that is there, and one whose second user is still to register.
Asks(name, by) ==
  [name |-> name, by |-> by, on |-> "ann", org |-> "o1", slug |-> "s2", project |-> "p1",
   key |-> "k1", environment |-> "live"]
MCTeamOps ==
  {Asks(n, "ann") : n \in {"register", "login", "createOrg", "patchOrg", "createProject",
     "patchProject", "deleteProject", "createKey", "revokeKey", "listProjects", "dashboard",
     "api"}}
    \cup {Asks(n, "bob") : n \in {"register", "createOrg", "createKey", "patchProject",
                                  "dashboard", "listProjects"}}
    \cup {Asks(n, "root") : n \in {"toggleUser", "toggleProject", "adminRevoke"}}
    \cup {[Asks("toggleUser", "root") EXCEPT !.on = "root"],
          [Asks("api", "ann") EXCEPT !.key = "k2"]}
Roles(ann, bob, root) == ("ann" :> ann @@ "bob" :> bob @@ "root" :> root)
Running ==
  [user |-> [u \in People |-> "active"], token |-> People,
   slug |-> ("o1" :> "s1" @@ "o2" :> "s3" @@ "o3" :> Nothing),
   role |-> ("o1" :> Roles("owner", "viewer", "none") @@ "o2" :> Roles("none", "owner", "owner")
             @@ "o3" :> Roles("none", "none", "none")),
   project |-> ("p1" :> [org |-> "o1", environment |-> "live", status |-> "active"]
                @@ "p2" :> Nothing),
   key |-> ("k1" :> [project |-> "p1", environment |-> "live", revoked |-> FALSE,
                     expired |-> FALSE, deleted |-> FALSE] @@ "k2" :> Nothing)]
Registering ==
  [Running EXCEPT !.user["bob"] = "none", !.token = {"ann", "root"},
                  !.role["o1"]["bob"] = "none", !.role["o2"]["bob"] = "none"]
MCTeamStarts == {Running, Registering}
-----------------------------------------------------------------------------
\* Two requests in a project of two customers with a wallet each, created or not.
Does(name, on) == [name |-> name, on |-> on]
Wallets == {<<"customer", "c1">>, <<"customer", "c2">>, <<"account", "a1">>, <<"account", "a2">>}
MCTestOwner == ("a1" :> "c1" @@ "a2" :> "c2")
MCTestOps ==
  {Does("fund", "a1"), Does("fund", "a2"), Does("createCustomer", "c1"),
   Does("updateCustomer", "c1"), Does("createAccount", "a1"), Does("reset", "project")}
MCTestStarts ==
  {{}, {<<"customer", "c1">>}, Wallets,
   Wallets \cup {<<"wallet", "a1">>, <<"treasury", "project">>}}
-----------------------------------------------------------------------------
\* Every report; the lists in the configuration are those that keep what their cursor promises.
MCListReports ==
  {"overview", "stats", "sandbox", "user", "project", "customer", "account", "transfer",
   "journal", "log", "endpoints", "deliveries", "users", "projects", "customers", "accounts",
   "transfers", "transactions", "activity"}
-----------------------------------------------------------------------------
\* While another part runs, the requests stay where they begin: one beginning is enough.
OneBeginning ==
  focus # "requests" => /\ \A w \in Worker : request[w].key = k1
                        /\ request[w2].payload = Payloads[1]

MCInit == PlatformInit /\ OneBeginning
MCSpec == MCInit /\ [][PlatformNext]_allVars

\* Poll loops and the requests of a workspace or a test project are interchangeable.
Symmetry == Permutations({q1, q2})
=============================================================================
