--------------------------------- MODULE RowLocks ---------------------------------
(***************************************************************************)
(* The row locks of one account.  A transaction takes its locks one by one *)
(* (SELECT ... FOR UPDATE), waits for the holder of the next one and keeps *)
(* them all until it ends.  Each kind of transaction is the sequence of    *)
(* rows its code locks: first the account's reminder fence, then customers,*)
(* orders, slots and plans, then what hangs below the plan.  Two customers,*)
(* orders and plans stand for the rows a command sorts before it locks.    *)
(***************************************************************************)
EXTENDS Naturals, Sequences

CONSTANTS Workers,  \* concurrent transactions of the account
          TxKinds   \* the kinds they run: a subset of AllTxKinds

VARIABLE locking  \* worker -> what it runs, and how many of its locks it has

lockVars == <<locking>>

Tx(k, n) == [kind |-> k, got |-> n]
NoTx     == Tx("none", 0)

(* What each kind locks, in the order of the code. *)
LinkLocks     == <<"fence", "customer1", "customer2", "order1", "slot1", "plan1", "connection1">>
ManualLocks   == <<"customer1", "order1", "slot1", "plan1", "connection1">>
MergeLocks    == <<"customer1", "customer2", "order1", "order2", "plan1", "plan2",
                   "connection1", "fence", "connection2">>
BookLocks     == <<"fence", "customer1", "order1", "plan1", "plan2", "connection1">>
MoveLocks     == <<"fence", "customer1", "customer2", "order1", "order2", "slot1", "plan1",
                   "plan2", "connection1", "connection2">>
EndLocks      == <<"fence", "order1", "slot1", "plan1", "plan2", "connection1", "connection2">>
ArchiveLocks  == <<"fence", "plan1">>
BoardLocks    == <<"plan1", "item1">>
IssueLocks    == <<"customer1", "order1", "slot1", "plan1", "connection1", "link1">>
FeedbackLocks == <<"customer1", "order1", "slot1", "plan1", "connection1", "link1", "item1">>
ClaimLocks    == <<"fence", "customer1", "order1", "slot1", "plan1", "connection1", "link1",
                   "item1">>
GiveUpLocksFenceLate == <<"customer1", "order1", "slot1", "plan1", "connection1", "link1",
                         "fence", "assignment1">>
GiveUpLocks   == <<"fence", "customer1", "order1", "slot1", "plan1", "connection1", "link1",
                   "assignment1">>
DismissLocks  == <<"plan1", "fence", "assignment1">>
PriceLocks    == <<"order1", "plan1", "draft1">>
EndTimeLocks  == <<"fence", "customer1", "order1", "slot1", "plan1", "draft1">>
CommitLocks   == <<"session1", "plan1", "asset1">>
BindLocks     == <<"asset1", "plan1">>

Script ==
  [link |-> LinkLocks, manual |-> ManualLocks, merge |-> MergeLocks, book |-> BookLocks,
   move |-> MoveLocks, end |-> EndLocks, archive |-> ArchiveLocks, board |-> BoardLocks,
   issue |-> IssueLocks, feedback |-> FeedbackLocks, claim |-> ClaimLocks,
   giveUp |-> GiveUpLocks, dismiss |-> DismissLocks, price |-> PriceLocks,
   endTime |-> EndTimeLocks, commit |-> CommitLocks, bind |-> BindLocks, none |-> <<>>]

AllTxKinds == DOMAIN Script \ {"none"}

\* Customer merge, the photographer's revoke of an assignment and the binding of an image
\* take their locks against the order of the others.
OutOfOrder == {"merge", "dismiss", "bind"}

-----------------------------------------------------------------------------
RowsOf(w)   == Script[locking[w].kind]
HeldRows(w) == {RowsOf(w)[i] : i \in 1..locking[w].got}
Wants(w)    == locking[w].got < Len(RowsOf(w))
NextRow(w)  == RowsOf(w)[locking[w].got + 1]
Blocks(v, w) == v # w /\ Wants(w) /\ NextRow(w) \in HeldRows(v)

LocksInit == locking = [w \in Workers |-> NoTx]

BeginTx(w) ==
  /\ locking[w].kind = "none"
  /\ \E k \in TxKinds : locking' = [locking EXCEPT ![w] = Tx(k, 0)]

\* QueryRowForUpdate returns once no other transaction holds the row.
LockRow(w) ==
  /\ Wants(w)
  /\ \A v \in Workers : ~Blocks(v, w)
  /\ locking' = [locking EXCEPT ![w] = Tx(locking[w].kind, locking[w].got + 1)]

\* Commit; a refusal, an error or Postgres' choice of a deadlock victim rolls back earlier.
EndTx(w) ==
  /\ locking[w].kind # "none"
  /\ locking' = [locking EXCEPT ![w] = NoTx]

LocksNext == \E w \in Workers : BeginTx(w) \/ LockRow(w) \/ EndTx(w)
LocksSpec == LocksInit /\ [][LocksNext]_lockVars

-----------------------------------------------------------------------------
LocksTypeOK ==
  /\ locking \in [Workers -> [kind : AllTxKinds \cup {"none"}, got : Nat]]
  /\ \A w \in Workers : locking[w].got <= Len(RowsOf(w))
  /\ \A v, w \in Workers : v # w => HeldRows(v) \cap HeldRows(w) = {}

\* No set of transactions in which each waits for another of the set: left alone, they would
\* wait for ever, and Postgres fails one of them with 40P01 (store/scope.go, LockCurrentAccount
\* and lockIDs; the customer/order/slot/plan order of the CRM design).
NoWaitCycle ==
  \A S \in SUBSET Workers : S # {} => \E w \in S : \A v \in S : ~Blocks(v, w)
===============================================================================
