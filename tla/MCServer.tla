------------------------------- MODULE MCServer -------------------------------
(***************************************************************************)
(* The parts of the server that share no row, lock or channel with each    *)
(* other, under TLC.  A behaviour picks one part and takes its steps; the  *)
(* others stay where they start.  Nothing is lost: no step of a part reads *)
(* or writes the state of another.                                         *)
(***************************************************************************)
EXTENDS IdempotencyLedger, Accounts, AttemptBudgets, OrderRecord, Studio, PlanningMedia,
        RowLocks, PlanShare, BusinessDrafts, TLC

CONSTANT Parts  \* the parts this instance explores

VARIABLE part

serverVars == <<part, ledgerVars, acctVars, budgetVars, orderVars, studioVars, mediaVars,
                lockVars, shareVars, businessVars>>

\* Some parts have several initial states; they count once per part.
ServerInit ==
  /\ part \in Parts
  /\ LedgerInit /\ AccountsInit /\ BudgetsInit /\ OrderInit /\ StudioInit /\ MediaInit
  /\ LocksInit /\ ShareInit /\ BusinessInit
  /\ part # "accounts" => account.status = "none"
  /\ part # "orders" => orderRow = BlankOrder /\ orderDay = 1

Only(p) ==
  /\ part = p /\ UNCHANGED part
  /\ IF p # "ledger"   THEN UNCHANGED ledgerVars ELSE TRUE
  /\ IF p # "accounts" THEN UNCHANGED acctVars   ELSE TRUE
  /\ IF p # "budgets"  THEN UNCHANGED budgetVars ELSE TRUE
  /\ IF p # "orders"   THEN UNCHANGED orderVars  ELSE TRUE
  /\ IF p # "studio"   THEN UNCHANGED studioVars ELSE TRUE
  /\ IF p # "media"    THEN UNCHANGED mediaVars  ELSE TRUE
  /\ IF p # "locks"    THEN UNCHANGED lockVars   ELSE TRUE
  /\ IF p # "share"    THEN UNCHANGED shareVars  ELSE TRUE
  /\ IF p # "business" THEN UNCHANGED businessVars ELSE TRUE

ServerNext ==
  \/ Only("ledger")   /\ LedgerNext
  \/ Only("accounts") /\ AccountsNext
  \/ Only("budgets")  /\ BudgetsNext
  \/ Only("orders")   /\ OrderNext
  \/ Only("studio")   /\ StudioNext
  \/ Only("media")    /\ MediaNext
  \/ Only("locks")    /\ LocksNext
  \/ Only("share")    /\ ShareNext
  \/ Only("business") /\ BusinessNext

ServerSpec == ServerInit /\ [][ServerNext]_serverVars

\* Requests that set up to two of an order's dates or up to two of its amounts, with the status
\* or without it.
MCDates == {<< >>} \cup [{"shotAt"} -> Days] \cup [{"deliveredAt"} -> Days] \cup [{"due"} -> {0} \cup Days]
MCMoney == {<< >>} \cup [{"price"} -> Amounts \cup {Unpriced}] \cup [{"amount"} -> Amounts]
             \cup [{"owed"} -> Amounts] \cup [{"balancePaid"} -> BOOLEAN]
MCFields == {Over(f, g) : f, g \in MCDates} \cup {Over(f, g) : f, g \in MCMoney}
MCOrderRequests == {Over(f, s) : f \in MCFields, s \in {<< >>} \cup [{"status"} -> OrderStatuses]}

\* A status, and the requests of the studio that carry one.
Status(s) == [status |-> s]
MCCreations == {[mode |-> "new", in |-> Status("scheduled")],
                [mode |-> "backfill", in |-> [status |-> "shot", shotAt |-> 1]]}
MCChanges   == {Status("cancelled")}

\* The transactions that keep to the order of locks.
MCOrderly == AllTxKinds \ OutOfOrder

\* Keyed requests, browsers, sign-in attempts, customers are interchangeable; the
\* configurations name them all a and b.
Alike == Permutations(Customers)
===============================================================================
