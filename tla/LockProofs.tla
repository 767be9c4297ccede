------------------------------ MODULE LockProofs ------------------------------
(***************************************************************************)
(* Who waits for whom, for any number of waiters: transactions that take   *)
(* their row locks in one common order never wait in a circle (RowLocks),  *)
(* and the recipient gate keeps senders and binds apart and wakes whoever  *)
(* may go on (RecipientGate).                                              *)
(***************************************************************************)
EXTENDS RowLocks, RecipientGate, FiniteSetTheorems, WellFoundedInduction, TLAPS

-----------------------------------------------------------------------------
(***************************************************************************)
(* Row locks. The order is given by the rank of a row; every kind of       *)
(* transaction but the three of OutOfOrder locks rows of ever higher rank. *)
(***************************************************************************)

Rank ==
  [fence |-> 1, customer1 |-> 2, customer2 |-> 3, order1 |-> 4, order2 |-> 5, slot1 |-> 6,
   session1 |-> 7, plan1 |-> 8, plan2 |-> 9, connection1 |-> 10, connection2 |-> 11,
   link1 |-> 12, item1 |-> 13, assignment1 |-> 14, draft1 |-> 15, asset1 |-> 16]

Ascends(s) ==
  /\ s \in Seq(DOMAIN Rank)
  /\ \A i, j \in 1..Len(s) : i < j => Rank[s[i]] < Rank[s[j]]

Kinds == (AllTxKinds \ OutOfOrder) \cup {"none"}

\* The scripts, one by one.
LEMMA ScriptsAscend == \A k \in Kinds : Ascends(Script[k])
<1>1. Ascends(LinkLocks)    BY DEF Ascends, Rank, LinkLocks
<1>2. Ascends(ManualLocks)  BY DEF Ascends, Rank, ManualLocks
<1>3. Ascends(BookLocks)    BY DEF Ascends, Rank, BookLocks
<1>4. Ascends(MoveLocks)    BY DEF Ascends, Rank, MoveLocks
<1>5. Ascends(EndLocks)     BY DEF Ascends, Rank, EndLocks
<1>6. Ascends(ArchiveLocks) BY DEF Ascends, Rank, ArchiveLocks
<1>7. Ascends(BoardLocks)   BY DEF Ascends, Rank, BoardLocks
<1>8. Ascends(IssueLocks)   BY DEF Ascends, Rank, IssueLocks
<1>9. Ascends(FeedbackLocks)    BY DEF Ascends, Rank, FeedbackLocks
<1>10. Ascends(ClaimLocks)  BY DEF Ascends, Rank, ClaimLocks
<1>11. Ascends(GiveUpLocks) BY DEF Ascends, Rank, GiveUpLocks
<1>12. Ascends(PriceLocks)  BY DEF Ascends, Rank, PriceLocks
<1>13. Ascends(EndTimeLocks) BY DEF Ascends, Rank, EndTimeLocks
<1>14. Ascends(CommitLocks) BY DEF Ascends, Rank, CommitLocks
<1>15. Ascends(<<>>)        BY DEF Ascends, Rank
<1> QED
  BY <1>1, <1>2, <1>3, <1>4, <1>5, <1>6, <1>7, <1>8, <1>9, <1>10, <1>11, <1>12, <1>13,
     <1>14, <1>15 DEF Kinds, AllTxKinds, OutOfOrder, Script

-----------------------------------------------------------------------------
(***************************************************************************)
(* The invariant: transactions run the kinds they may, and have locked a   *)
(* prefix of their script.                                                 *)
(***************************************************************************)
InOrder(w) == locking[w].kind \in Kinds /\ locking[w].got \in 0..Len(Script[locking[w].kind])
LocksInv   == /\ locking \in [Workers -> [kind : Kinds, got : Nat]]
              /\ \A w \in Workers : InOrder(w)

LEMMA LengthsAreNat == \A k \in Kinds : Len(Script[k]) \in Nat
  BY ScriptsAscend DEF Ascends

LEMMA LocksInvHolds ==
  ASSUME TxKinds \subseteq AllTxKinds \ OutOfOrder
  PROVE  LocksSpec => []LocksInv
<1>1. LocksInit => LocksInv
  BY LengthsAreNat DEF LocksInit, LocksInv, InOrder, NoTx, Tx, Kinds
<1>2. LocksInv /\ [LocksNext]_lockVars => LocksInv'
  <2> SUFFICES ASSUME LocksInv, [LocksNext]_lockVars PROVE LocksInv'
    OBVIOUS
  <2>1. CASE UNCHANGED lockVars
    BY <2>1 DEF LocksInv, InOrder, lockVars
  <2>2. ASSUME NEW w \in Workers, BeginTx(w) PROVE LocksInv'
    <3>1. PICK k \in TxKinds : locking' = [locking EXCEPT ![w] = Tx(k, 0)]
      BY <2>2 DEF BeginTx
    <3>2. k \in Kinds
      BY DEF Kinds
    <3> QED BY <3>1, <3>2, LengthsAreNat DEF LocksInv, InOrder, Tx
  <2>3. ASSUME NEW w \in Workers, LockRow(w) PROVE LocksInv'
    <3>1. /\ locking[w].got < Len(Script[locking[w].kind])
          /\ locking' = [locking EXCEPT ![w] = Tx(locking[w].kind, locking[w].got + 1)]
      BY <2>3 DEF LockRow, Wants, RowsOf
    <3>2. locking[w].kind \in Kinds /\ locking[w].got \in Nat
      BY DEF LocksInv, InOrder
    <3>3. locking[w].got + 1 \in 0..Len(Script[locking[w].kind])
      BY <3>1, <3>2, LengthsAreNat
    <3> QED BY <3>1, <3>2, <3>3 DEF LocksInv, InOrder, Tx
  <2>4. ASSUME NEW w \in Workers, EndTx(w) PROVE LocksInv'
    BY <2>4, LengthsAreNat DEF EndTx, NoTx, Tx, LocksInv, InOrder, Kinds
  <2> QED BY <2>1, <2>2, <2>3, <2>4 DEF LocksNext
<1> QED BY <1>1, <1>2, PTL DEF LocksSpec

LEMMA LeastRank == ASSUME NEW T, T \subseteq Nat, T # {}
                   PROVE  \E x \in T : \A y \in T : x <= y
<1> DEFINE R == {p \in Nat \X Nat : p[1] < p[2]}
<1>1. IsWellFoundedOn(R, Nat)
  BY NatLessThanWellFounded DEF OpToRel
<1>2. \A x, y \in Nat : y < x => <<y, x>> \in R
  OBVIOUS
<1> HIDE DEF R
<1>3. PICK x \in T : \A y \in T : ~ (<<y, x>> \in R)
  BY <1>1, WFMin
<1>4. \A y \in T : ~ (y < x)
  BY <1>2, <1>3
<1> QED BY <1>4

\* A transaction waits for a row of lower rank than the one its blocker waits for.
LEMMA BlockerWaitsHigher ==
  ASSUME LocksInv, NEW v \in Workers, NEW w \in Workers, Blocks(v, w), Wants(v)
  PROVE  /\ Rank[NextRow(w)] < Rank[NextRow(v)]
         /\ NextRow(w) \in DOMAIN Rank /\ NextRow(v) \in DOMAIN Rank
<1> DEFINE k == locking[v].kind
           n == locking[v].got
<1>1. k \in Kinds /\ n \in Nat /\ n < Len(Script[k])
  BY DEF LocksInv, InOrder, Wants, RowsOf
<1>2. Script[k] \in Seq(DOMAIN Rank)
  BY <1>1, ScriptsAscend DEF Ascends
<1>3. \A i, j \in 1..Len(Script[k]) : i < j => Rank[Script[k][i]] < Rank[Script[k][j]]
  BY <1>1, ScriptsAscend DEF Ascends
<1>4. PICK i \in 1..n : NextRow(w) = Script[k][i]
  BY DEF Blocks, HeldRows, RowsOf
<1>5. NextRow(v) = Script[k][n + 1]
  BY DEF NextRow, RowsOf
<1>6. i \in 1..Len(Script[k]) /\ n + 1 \in 1..Len(Script[k]) /\ i < n + 1
  BY <1>1
<1> QED BY <1>2, <1>3, <1>4, <1>5, <1>6

LEMMA RanksAreBounded == \A r \in DOMAIN Rank : Rank[r] \in 0..16
  BY DEF Rank

LEMMA NoCircle == LocksInv => NoWaitCycle
<1> SUFFICES ASSUME LocksInv, NEW S \in SUBSET Workers, S # {},
                    \A w \in S : \E v \in S : Blocks(v, w)
             PROVE  FALSE
  BY DEF NoWaitCycle
<1>1. \A w \in S : Wants(w)
  BY DEF Blocks
<1>2. \A w \in S : \E v \in S : /\ Rank[NextRow(w)] < Rank[NextRow(v)]
                                /\ NextRow(w) \in DOMAIN Rank /\ NextRow(v) \in DOMAIN Rank
  BY <1>1, BlockerWaitsHigher
<1> DEFINE Up(w) == 16 - Rank[NextRow(w)]
           T == {Up(w) : w \in S}
<1>3. \A w \in S : Up(w) \in Nat
  <2> TAKE w \in S
  <2>1. NextRow(w) \in DOMAIN Rank
    BY <1>2
  <2>2. Rank[NextRow(w)] \in 0..16
    BY <2>1, RanksAreBounded
  <2> QED BY <2>2
<1>4. PICK x \in T : \A y \in T : x <= y
  <2>1. T \subseteq Nat /\ T # {}
    BY <1>3
  <2> HIDE DEF T
  <2> QED BY <2>1, LeastRank
<1>5. PICK w \in S : x = Up(w)
  BY <1>4
<1>6. PICK v \in S : /\ Rank[NextRow(w)] < Rank[NextRow(v)]
                     /\ NextRow(w) \in DOMAIN Rank /\ NextRow(v) \in DOMAIN Rank
  BY <1>2
<1>7. Up(v) < Up(w)
  BY <1>6, RanksAreBounded
<1>8. Up(v) \in T
  OBVIOUS
<1>9. Up(w) <= Up(v)
  BY <1>4, <1>5, <1>8
<1> QED BY <1>3, <1>7, <1>9

\* Whatever the number of transactions, those that keep to the common order never wait in a
\* circle (shootplanning/crm/engine.go, schedule, order, planshare/eligibility.go).
THEOREM OrderedLocksNeverCycle ==
  ASSUME TxKinds \subseteq AllTxKinds \ OutOfOrder
  PROVE  LocksSpec => []NoWaitCycle
<1>1. LocksSpec => []LocksInv
  BY LocksInvHolds
<1> QED BY <1>1, NoCircle, PTL

-----------------------------------------------------------------------------
(***************************************************************************)
(* The recipient gate.                                                     *)
(***************************************************************************)

WaitingBinds == {p \in Rebinders : Waiting(p)}

\* The count is stated apart from its type: a bind that waits is counted.
GateInv == GateTypeOK /\ MutualExclusion /\ NoLostWakeup /\ WaitersCounted

-----------------------------------------------------------------------------
\* Counting the binds that wait when one of them comes, goes or stays.

LEMMA Counting ==
    ASSUME GateTypeOK, WaitersCounted
    PROVE  /\ IsFiniteSet(WaitingBinds)
           /\ rebindWaiters = Cardinality(WaitingBinds)
           /\ Cardinality(WaitingBinds) \in Nat
<1>1. IsFiniteSet(WaitingBinds)
  BY CallersAssumption, FS_Subset DEF WaitingBinds
<1>2. QED
  BY <1>1, FS_CardinalityType DEF WaitersCounted, WaitingBinds

LEMMA NobodyWaits ==
    ASSUME GateTypeOK, WaitersCounted
    PROVE  rebindWaiters = 0 <=> \A p \in Rebinders : ~Waiting(p)
BY Counting, FS_EmptySet DEF WaitingBinds

LEMMA BindComes ==
    ASSUME GateTypeOK, WaitersCounted, NEW p \in Rebinders, ~Waiting(p), Waiting(p)',
           \A q \in Callers : q # p => (Waiting(q)' <=> Waiting(q)),
           rebindWaiters' = rebindWaiters + 1
    PROVE  WaitersCounted'
<1>1. WaitingBinds' = WaitingBinds \cup {p} /\ p \notin WaitingBinds
  BY DEF WaitingBinds, Callers
<1>2. Cardinality(WaitingBinds \cup {p}) = Cardinality(WaitingBinds) + 1
  BY <1>1, Counting, FS_AddElement
<1>3. QED
  BY <1>1, <1>2, Counting DEF WaitersCounted, WaitingBinds

LEMMA BindGoes ==
    ASSUME GateTypeOK, WaitersCounted, NEW p \in Rebinders, Waiting(p), ~(Waiting(p)'),
           \A q \in Callers : q # p => (Waiting(q)' <=> Waiting(q)),
           rebindWaiters' = rebindWaiters - 1
    PROVE  WaitersCounted' /\ rebindWaiters' \in Nat
<1>1. WaitingBinds' = WaitingBinds \ {p} /\ p \in WaitingBinds
  BY DEF WaitingBinds, Callers
<1>2. Cardinality(WaitingBinds \ {p}) = Cardinality(WaitingBinds) - 1
  BY <1>1, Counting, FS_RemoveElement
<1>3. IsFiniteSet(WaitingBinds \ {p}) /\ Cardinality(WaitingBinds \ {p}) \in Nat
  BY Counting, FS_Subset, FS_CardinalityType
<1>4. QED
  BY <1>1, <1>2, <1>3, Counting DEF WaitersCounted, WaitingBinds

LEMMA BindsStay ==
    ASSUME WaitersCounted,
           \A q \in Rebinders : Waiting(q)' <=> Waiting(q),
           rebindWaiters' = rebindWaiters
    PROVE  WaitersCounted'
<1>1. {p \in Rebinders : Waiting(p)}' = {p \in Rebinders : Waiting(p)}
  OBVIOUS
<1>2. QED
  BY <1>1 DEF WaitersCounted

-----------------------------------------------------------------------------
\* Every step keeps the invariant.

LEMMA ArriveSenderInv ==
    ASSUME GateInv, NEW p \in Callers, ArriveSender(p)
    PROVE  GateInv'
<1>1. GateTypeOK' /\ MutualExclusion' /\ NoLostWakeup'
  BY DEF ArriveSender, GateInv, GateTypeOK, Places, MutualExclusion, NoLostWakeup, Open
<1>2. WaitersCounted'
  <2>1. \A q \in Rebinders : Waiting(q)' <=> Waiting(q)
    BY CallersAssumption DEF ArriveSender, Waiting, GateInv, GateTypeOK
  <2>2. QED
    BY <2>1, BindsStay DEF ArriveSender, GateInv
<1>3. QED
  BY <1>1, <1>2 DEF GateInv

LEMMA ArriveRebinderInv ==
    ASSUME GateInv, NEW p \in Callers, ArriveRebinder(p)
    PROVE  GateInv'
<1>1. GateTypeOK' /\ MutualExclusion' /\ NoLostWakeup'
  BY DEF ArriveRebinder, Signalled, GateInv, GateTypeOK, Places, MutualExclusion, NoLostWakeup
<1>2. WaitersCounted'
  <2>1. ~Waiting(p) /\ Waiting(p)' /\ p \in Rebinders
    BY DEF ArriveRebinder, Signalled, Waiting, GateInv, GateTypeOK
  <2>2. \A q \in Callers : q # p => (Waiting(q)' <=> Waiting(q))
    BY DEF ArriveRebinder, Signalled, Waiting, GateInv, GateTypeOK
  <2>3. rebindWaiters' = rebindWaiters + 1
    BY DEF ArriveRebinder
  <2>4. QED
    BY <2>1, <2>2, <2>3, BindComes DEF GateInv
<1>3. QED
  BY <1>1, <1>2 DEF GateInv

LEMMA EnterInv ==
    ASSUME GateInv, NEW p \in Callers, Enter(p)
    PROVE  GateInv'
<1>1. \A q \in Callers : pc'[q] = IF q = p THEN "inside" ELSE pc[q]
  BY DEF Enter, GateInv, GateTypeOK
<1>2. Waiting(p) /\ ~(Waiting(p)')
  BY <1>1 DEF Enter, Waiting
<1>3. \A q \in Callers : q # p => (Waiting(q)' <=> Waiting(q))
  BY <1>1 DEF Waiting
<1>4. WaitersCounted' /\ rebindWaiters' \in Nat
  <2>1. CASE p \in Rebinders
    BY <1>2, <1>3, <2>1, BindGoes DEF Enter, GateInv
  <2>2. CASE p \notin Rebinders
    <3>1. \A q \in Rebinders : Waiting(q)' <=> Waiting(q)
      BY <1>3, <2>2 DEF Callers
    <3>2. rebindWaiters' = rebindWaiters
      BY <2>2 DEF Enter
    <3>3. QED
      BY <3>1, <3>2, BindsStay DEF GateInv, GateTypeOK
  <2>3. QED
    BY <2>1, <2>2
<1>5. GateTypeOK' /\ MutualExclusion' /\ NoLostWakeup'
  <2>1. pc' \in [Callers -> Places] /\ active'
    BY DEF Enter, GateInv, GateTypeOK, Places
  <2>2. \A q \in Callers : pc[q] # "inside"
    BY DEF Enter, Open, GateInv, MutualExclusion
  <2>3. QED
    BY <1>1, <1>4, <2>1, <2>2 DEF GateTypeOK, MutualExclusion, NoLostWakeup, Open
<1>6. QED
  BY <1>4, <1>5 DEF GateInv

LEMMA ParkInv ==
    ASSUME GateInv, NEW p \in Callers, Park(p)
    PROVE  GateInv'
<1>1. GateTypeOK' /\ MutualExclusion' /\ NoLostWakeup'
  BY DEF Park, GateInv, GateTypeOK, Places, MutualExclusion, NoLostWakeup, Open
<1>2. WaitersCounted'
  <2>1. \A q \in Rebinders : Waiting(q)' <=> Waiting(q)
    BY DEF Park, Waiting, GateInv, GateTypeOK
  <2>2. QED
    BY <2>1, BindsStay DEF Park, GateInv
<1>3. QED
  BY <1>1, <1>2 DEF GateInv

LEMMA CancelInv ==
    ASSUME GateInv, NEW p \in Callers, Cancel(p)
    PROVE  GateInv'
<1>1. /\ pc'[p] = "out"
      /\ \A q \in Callers : q # p =>
            pc'[q] = IF p \in Rebinders /\ pc[q] = "parked" THEN "woken" ELSE pc[q]
      /\ pc' \in [Callers -> Places]
  BY DEF Cancel, AfterCancel, Signalled, MovedOnly, GateInv, GateTypeOK, Places
<1>2. Waiting(p) /\ ~(Waiting(p)')
  BY <1>1 DEF Cancel, Waiting
<1>3. \A q \in Callers : q # p => (Waiting(q)' <=> Waiting(q))
  BY <1>1 DEF Waiting
<1>4. WaitersCounted' /\ rebindWaiters' \in Nat
  <2>1. CASE p \in Rebinders
    BY <1>2, <1>3, <2>1, BindGoes DEF Cancel, GateInv
  <2>2. CASE p \notin Rebinders
    <3>1. \A q \in Rebinders : Waiting(q)' <=> Waiting(q)
      BY <1>3, <2>2 DEF Callers
    <3>2. rebindWaiters' = rebindWaiters
      BY <2>2 DEF Cancel
    <3>3. QED
      BY <3>1, <3>2, BindsStay DEF GateInv, GateTypeOK
  <2>3. QED
    BY <2>1, <2>2
<1>5. active' = active /\ pc[p] # "inside"
  BY DEF Cancel
<1>6. MutualExclusion'
  BY <1>1, <1>5 DEF GateInv, MutualExclusion
<1>7. NoLostWakeup'
  <2>1. CASE p \in Rebinders
    BY <1>1, <2>1 DEF NoLostWakeup
  <2>2. CASE p \notin Rebinders
    BY <1>1, <1>5, <2>2 DEF Cancel, GateInv, NoLostWakeup, Open
  <2>3. QED
    BY <2>1, <2>2
<1>8. QED
  BY <1>1, <1>4, <1>5, <1>6, <1>7 DEF GateInv, GateTypeOK

LEMMA LeaveInv ==
    ASSUME GateInv, NEW p \in Callers, Leave(p)
    PROVE  GateInv'
<1>1. \A q \in Callers : pc'[q] = IF q = p THEN "out"
                                  ELSE IF pc[q] = "parked" THEN "woken" ELSE pc[q]
  BY DEF Leave, AfterLeave, Signalled
<1>2. GateTypeOK'
  BY DEF Leave, AfterLeave, Signalled, GateInv, GateTypeOK, Places
<1>3. MutualExclusion'
  BY <1>1 DEF Leave, GateInv, MutualExclusion
<1>4. NoLostWakeup'
  BY <1>1 DEF NoLostWakeup
<1>5. WaitersCounted'
  <2>1. \A q \in Rebinders : Waiting(q)' <=> Waiting(q)
    BY <1>1 DEF Leave, Waiting, Callers
  <2>2. QED
    BY <2>1, BindsStay DEF Leave, GateInv
<1>6. QED
  BY <1>2, <1>3, <1>4, <1>5 DEF GateInv

LEMMA InitInv == GateInit => GateInv
<1>1. SUFFICES ASSUME GateInit PROVE GateInv
  OBVIOUS
<1>2. GateTypeOK /\ MutualExclusion /\ NoLostWakeup
  BY <1>1 DEF GateInit, GateTypeOK, Places, MutualExclusion, NoLostWakeup
<1>3. {p \in Rebinders : Waiting(p)} = {}
  BY <1>1 DEF GateInit, Waiting, Callers
<1>4. WaitersCounted
  BY <1>1, <1>3, FS_EmptySet DEF GateInit, WaitersCounted
<1>5. QED
  BY <1>2, <1>4 DEF GateInv

LEMMA NextInv == GateInv /\ [GateNext]_gateVars => GateInv'
<1>1. SUFFICES ASSUME GateInv, [GateNext]_gateVars PROVE GateInv'
  OBVIOUS
<1>2. CASE GateNext
  BY <1>1, <1>2, ArriveSenderInv, ArriveRebinderInv, EnterInv, ParkInv, CancelInv, LeaveInv
  DEF GateNext
<1>3. CASE UNCHANGED gateVars
  BY <1>3, <1>1 DEF gateVars, GateInv, GateTypeOK, MutualExclusion, NoLostWakeup, WaitersCounted,
                    Open, Waiting
<1>4. QED
  BY <1>1, <1>2, <1>3

LEMMA SpecInv == GateSpec => []GateInv
BY InitInv, NextInv, PTL DEF GateSpec

\* Attempts and binds of an account never run at the same time in one process.
THEOREM GateExcludes == GateSpec => []MutualExclusion
<1>1. GateInv => MutualExclusion
  BY DEF GateInv
<1>2. QED
  BY <1>1, SpecInv, PTL

\* The registrations of binds never leak, however many are cancelled.
THEOREM GateCounts == GateSpec => []WaitersCounted
<1>1. GateInv => WaitersCounted
  BY DEF GateInv
<1>2. QED
  BY <1>1, SpecInv, PTL

\* Nobody sleeps on an open channel while the gate would let them in.
THEOREM GateWakes == GateSpec => []NoLostWakeup
<1>1. GateInv => NoLostWakeup
  BY DEF GateInv
<1>2. QED
  BY <1>1, SpecInv, PTL

\* No sender overtakes a waiting bind.
THEOREM GatePrefersBinds == GateSpec => RebindersFirst
<1>1. ASSUME GateInv, [GateNext]_gateVars,
             NEW p \in Senders, pc[p] # "inside", pc'[p] = "inside"
      PROVE  \A q \in Rebinders : ~Waiting(q)
  <2>1. Enter(p)
    <3>1. PICK q \in Callers : \/ ArriveSender(q) \/ ArriveRebinder(q)
                               \/ Enter(q) \/ Park(q) \/ Cancel(q) \/ Leave(q)
      BY <1>1 DEF GateNext, gateVars
    <3>2. p \in Callers
      BY DEF Callers
    <3>3. QED
      BY <1>1, <3>1, <3>2 DEF GateInv, GateTypeOK, ArriveSender, ArriveRebinder, Enter, Park,
          Cancel, AfterCancel, Leave, AfterLeave, Signalled, MovedOnly
  <2>2. rebindWaiters = 0
    BY <2>1, CallersAssumption DEF Enter, Open
  <2>3. QED
    BY <1>1, <2>2, NobodyWaits DEF GateInv
<1>2. GateInv /\ [GateNext]_gateVars =>
        [\A p \in Senders : pc[p] # "inside" /\ pc'[p] = "inside"
            => \A q \in Rebinders : ~Waiting(q)]_gateVars
  BY <1>1
<1>3. QED
  BY <1>2, SpecInv, PTL DEF GateSpec, RebindersFirst
===============================================================================
