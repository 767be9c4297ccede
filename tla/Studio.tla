-------------------------------- MODULE Studio --------------------------------
(***************************************************************************)
(* Studio: the customers, orders and slots of one account, and the shoot   *)
(* plans that follow them.  Every action is one transaction: it locks the  *)
(* rows it reads in the order customers, orders, slots, plans, and carries *)
(* the change through to the plans before it commits.                      *)
(*                                                                         *)
(* A customer's referrer is the exception.  It is looked up without a lock *)
(* and written by a later statement, so it takes two steps.                *)
(***************************************************************************)
EXTENDS OrderLifecycle, PlanConnection, FiniteSets

CONSTANTS Customers, Orders, Slots, Plans,
          Ends,            \* when a slot may end
          OrderCreations,  \* requests that create an order, with their mode
          OrderChanges,    \* requests that change one
          MaxStudioClock   \* bound

ASSUME StudioAssumption ==
  /\ Nobody \notin Customers \cup Orders \cup Slots
  /\ Ends \subseteq Nat \ {0} /\ MaxStudioClock \in Nat
  /\ \A r \in OrderCreations : IsRequest(r.in)
  /\ \A in \in OrderChanges : IsRequest(in)

VARIABLES customers, orders, slots, plans,
          referral,    \* the referrer looked up by the transaction that will write it
          studioClock

studioVars == <<customers, orders, slots, plans, referral, studioClock>>

NoReferral == [customer |-> Nobody, referrer |-> Nobody]
NoSlotRow  == [type |-> "none", order |-> Nobody, ends |-> 0]
NoOrder    == Over([customer |-> Nobody], BlankOrder)

CustomerStatuses == {"none", "active", "archived", "merged"}

StudioTypeOK ==
  /\ customers \in [Customers -> [status: CustomerStatuses, referrer: Customers \cup {Nobody}]]
  /\ \A o \in Orders : /\ orders[o].customer \in Customers \cup {Nobody}
                       /\ [f \in DOMAIN BlankOrder |-> orders[o][f]] \in OrderFields
  /\ slots \in [Slots -> [type: {"none", "shoot", "hold"}, order: Orders \cup {Nobody},
                          ends: Ends \cup {0}]]
  /\ \A p \in Plans : /\ plans[p].state \in ConnectionStates
                      /\ plans[p].projection \in ProjectionStates
                      /\ plans[p].customer \in Customers \cup {Nobody}
                      /\ plans[p].order \in Orders \cup {Nobody}
  /\ referral \in [customer: Customers \cup {Nobody}, referrer: Customers \cup {Nobody}]
  /\ studioClock \in 0..MaxStudioClock

\* The plan is past its preparation: what comes before touches none of these rows.
StudioInit ==
  /\ customers = [c \in Customers |-> [status |-> "none", referrer |-> Nobody]]
  /\ orders = [o \in Orders |-> NoOrder]
  /\ slots = [s \in Slots |-> NoSlotRow]
  /\ plans = [p \in Plans |-> [NewPlan EXCEPT !.status = "in_progress"]]
  /\ referral = NoReferral
  /\ studioClock = 0

Exists(o) == orders[o].customer # Nobody
RowLocked(c) == referral.customer = c /\ customers[c].status # "none"

(***************************************************************************)
(* Customers                                                               *)
(***************************************************************************)
Create(c) ==
  /\ customers[c].status = "none" /\ referral.customer # c
  /\ customers' = [customers EXCEPT ![c].status = "active"]
  /\ UNCHANGED <<orders, slots, plans, referral, studioClock>>

\* A PATCH of the status; leaving the referral channel drops the referrer.
Update(c, status, keepsReferrer) ==
  /\ customers[c].status \in {"active", "archived"} /\ ~RowLocked(c)
  /\ customers' = [customers EXCEPT ![c] =
       [status |-> status, referrer |-> IF keepsReferrer THEN @.referrer ELSE Nobody]]
  /\ UNCHANGED <<orders, slots, plans, referral, studioClock>>

requireActiveReferrer(c, r) ==
  /\ referral = NoReferral
  /\ c # r /\ customers[c].status # "merged" /\ customers[r].status = "active"
  /\ referral' = [customer |-> c, referrer |-> r]
  /\ UNCHANGED <<customers, orders, slots, plans, studioClock>>

WriteReferrer ==
  /\ referral # NoReferral
  /\ customers' = [customers EXCEPT ![referral.customer] =
       [status |-> IF @.status = "none" THEN "active" ELSE @.status,
        referrer |-> referral.referrer]]
  /\ referral' = NoReferral
  /\ UNCHANGED <<orders, slots, plans, studioClock>>

\* Only the plans that follow an order are moved to the customer who stays.
MigrateLinkedPlans(source, target) ==
  [p \in Plans |-> IF plans[p].customer \in {source, target} /\ plans[p].order # Nobody
                   THEN reduceCustomerMerged(plans[p], target) ELSE plans[p]]

MigratePlanCustomers(source, target) ==
  [p \in Plans |-> IF plans[p].customer \in {source, target}
                   THEN reduceCustomerMerged(plans[p], target) ELSE plans[p]]

Redirected(r, c, source, target) ==
  IF r # source THEN r ELSE IF c = target THEN Nobody ELSE target

MergeCustomers(source, target) ==
  /\ source # target /\ ~RowLocked(source) /\ ~RowLocked(target)
  /\ customers[source].status = "active" /\ customers[target].status = "active"
  /\ plans' = MigratePlanCustomers(source, target)
  /\ orders' = [o \in Orders |-> IF orders[o].customer = source
                                 THEN [orders[o] EXCEPT !.customer = target] ELSE orders[o]]
  /\ customers' = [c \in Customers |->
       [status |-> IF c = source THEN "merged" ELSE customers[c].status,
        referrer |-> LET r == Redirected(customers[c].referrer, c, source, target)
                     IN  IF c = target /\ r = target THEN Nobody ELSE r]]
  /\ UNCHANGED <<slots, referral, studioClock>>

(***************************************************************************)
(* Orders                                                                  *)
(***************************************************************************)
requireUsableCustomer(c, mode) ==
  /\ ~RowLocked(c)
  /\ IF mode = "new" THEN customers[c].status = "active"
                     ELSE customers[c].status \in {"active", "archived"}

CreateOrder(o, c, mode, in) ==
  /\ ~Exists(o) /\ requireUsableCustomer(c, mode)
  /\ \E order \in ApplyCreateInput(in, mode) :
       orders' = [orders EXCEPT ![o] = Over([customer |-> c], order)]
  /\ UNCHANGED <<customers, slots, plans, referral, studioClock>>

\* Plans linked to an order, after a fact about it.
OfOrder(o, Reduced(_)) ==
  [p \in Plans |-> IF plans[p].order = o THEN Reduced(plans[p]) ELSE plans[p]]

OnOrderCancelled(o) == OfOrder(o, LAMBDA p : reduceOrderCancelled(p, o))
BeforeOrderDelete(o) == OfOrder(o, reduceOrderDeleted)

UpdateOrder(o, in) ==
  /\ Exists(o)
  /\ \E order \in ApplyUpdateInput(orders[o], in, studioClock + 1) :
       /\ orders' = [orders EXCEPT ![o] = order]
       /\ plans' = IF order.status = "cancelled" /\ orders[o].status # "cancelled"
                   THEN OnOrderCancelled(o) ELSE plans
  /\ UNCHANGED <<customers, slots, referral, studioClock>>

ShootSlots(sl, o) == {s \in Slots : sl[s].type = "shoot" /\ sl[s].order = o}

DeleteOrder(o) ==
  /\ Exists(o) /\ orders[o].status \in terminalStatus /\ ShootSlots(slots, o) = {}
  /\ plans' = BeforeOrderDelete(o)
  /\ orders' = [orders EXCEPT ![o] = NoOrder]
  /\ UNCHANGED <<customers, slots, referral, studioClock>>

(***************************************************************************)
(* Slots                                                                   *)
(***************************************************************************)
ShootSlotFact(sl, o) ==
  IF ShootSlots(sl, o) = {} THEN NoSlot
  ELSE LET s == CHOOSE s \in ShootSlots(sl, o) : TRUE IN [id |-> s, ends |-> sl[s].ends]

\* The plans of the orders a slot had and has, reduced against the new slots.
ReprojectScheduleMutation(sl, os) ==
  [p \in Plans |-> IF plans[p].order \in os \ {Nobody}
                   THEN reduceSchedule(plans[p], ShootSlotFact(sl, plans[p].order), studioClock)
                   ELSE plans[p]]

ValidateSlot(row) ==
  row.type \in {"shoot", "hold"} /\ (row.type = "shoot" <=> row.order # Nobody)

validateShootReference(row) ==
  LET order == orders[row.order] IN
  /\ Exists(row.order) /\ ~RowLocked(order.customer)
  /\ CanScheduleAt(order.status, customers[order.customer].status, row.ends > studioClock)

\* One shoot slot to an order: checked under the order's lock, and unique in the table.
findOrderConflict(s, row) == ShootSlots(slots, row.order) \ {s} # {}

CreateSlot(s, row) ==
  LET sl == [slots EXCEPT ![s] = row] IN
  /\ slots[s] = NoSlotRow /\ ValidateSlot(row)
  /\ row.type = "shoot" => validateShootReference(row) /\ ~findOrderConflict(s, row)
  /\ slots' = sl
  /\ plans' = ReprojectScheduleMutation(sl, {row.order})
  /\ UNCHANGED <<customers, orders, referral, studioClock>>

UpdateSlot(s, row) ==
  LET sl == [slots EXCEPT ![s] = row] IN
  /\ slots[s] # NoSlotRow /\ slots[s] # row /\ ValidateSlot(row)
  /\ row.type = "shoot" => validateShootReference(row) /\ ~findOrderConflict(s, row)
  /\ slots' = sl
  /\ plans' = ReprojectScheduleMutation(sl, {slots[s].order, row.order})
  /\ UNCHANGED <<customers, orders, referral, studioClock>>

\* A plan's business draft changes the length of its shoot, whatever became of the order.
ApplyEnd(s, ends) ==
  LET sl == [slots EXCEPT ![s].ends = ends] IN
  /\ slots[s].type = "shoot" /\ slots[s].ends # ends
  /\ slots' = sl
  /\ plans' = ReprojectScheduleMutation(sl, {slots[s].order})
  /\ UNCHANGED <<customers, orders, referral, studioClock>>

\* The row of a projection names the slot, and the reference sets the whole key to
\* null when the slot goes, the account included, which may not be null: the delete
\* fails before the projection is reduced.
Referenced(s) == \E p \in Plans : plans[p].slot.id = s

DeleteSlot(s) ==
  LET sl == [slots EXCEPT ![s] = NoSlotRow] IN
  /\ slots[s] # NoSlotRow /\ ~Referenced(s)
  /\ slots' = sl
  /\ plans' = ReprojectScheduleMutation(sl, {slots[s].order})
  /\ UNCHANGED <<customers, orders, referral, studioClock>>

(***************************************************************************)
(* Plans                                                                   *)
(***************************************************************************)
ApplyCommand(p, results) ==
  /\ \E plan \in results : plans' = [plans EXCEPT ![p] = plan]
  /\ UNCHANGED <<customers, orders, slots, referral, studioClock>>

LinkCustomer(p, c) ==
  /\ customers[c].status # "none" /\ ~RowLocked(c)
  /\ ApplyCommand(p, reduceLinkCustomer(plans[p], c, customers[c].status))

LinkOrder(p, o) ==
  /\ Exists(o) /\ ~RowLocked(orders[o].customer)
  /\ ApplyCommand(p, reduceLinkOrder(plans[p], o, orders[o], customers[orders[o].customer].status,
                                     ShootSlotFact(slots, o), studioClock))

UnlinkOrder(p)    == ApplyCommand(p, reduceUnlinkOrder(plans[p]))
UnlinkCustomer(p) == ApplyCommand(p, reduceUnlinkCustomer(plans[p]))
Adopt(p)          == ApplyCommand(p, reduceAdopt(plans[p], studioClock))
SetManual(p)      == ApplyCommand(p, reduceSetManual(plans[p], studioClock))
ClearWindow(p)    == ApplyCommand(p, reduceClearWindow(plans[p], studioClock))

\* The plan's own transitions; none of them looks at the schedule.
TransitionPlan(p, from, to) ==
  /\ plans[p].status \in from
  /\ plans' = [plans EXCEPT ![p].status = to]
  /\ UNCHANGED <<customers, orders, slots, referral, studioClock>>

Complete(p) == TransitionPlan(p, {"in_progress"}, "completed")
Reopen(p)   == TransitionPlan(p, {"completed"}, "in_progress")
Archive(p)  == TransitionPlan(p, activeLifecycle \cup {"completed"}, "archived")

StudioTick ==
  /\ studioClock < MaxStudioClock /\ studioClock' = studioClock + 1
  /\ UNCHANGED <<customers, orders, slots, plans, referral>>

SlotRows == [type: {"shoot", "hold"}, order: Orders \cup {Nobody}, ends: Ends]

CustomerRequest(c) ==
  \/ Create(c)
  \/ \E status \in {"active", "archived"}, keeps \in BOOLEAN : Update(c, status, keeps)
  \/ \E r \in Customers : requireActiveReferrer(c, r)
  \/ \E target \in Customers : MergeCustomers(c, target)

OrderRequest(o) ==
  \/ \E c \in Customers, r \in OrderCreations : CreateOrder(o, c, r.mode, r.in)
  \/ \E in \in OrderChanges : UpdateOrder(o, in)
  \/ DeleteOrder(o)

SlotRequest(s) ==
  \/ \E row \in SlotRows : CreateSlot(s, row) \/ UpdateSlot(s, row)
  \/ \E ends \in Ends : ApplyEnd(s, ends)
  \/ DeleteSlot(s)

PlanRequest(p) ==
  \/ \E c \in Customers : LinkCustomer(p, c)
  \/ \E o \in Orders : LinkOrder(p, o)
  \/ UnlinkOrder(p) \/ UnlinkCustomer(p)
  \/ Adopt(p) \/ SetManual(p) \/ ClearWindow(p)
  \/ Complete(p) \/ Reopen(p) \/ Archive(p)

StudioNext ==
  \/ \E c \in Customers : CustomerRequest(c)
  \/ WriteReferrer
  \/ \E o \in Orders : OrderRequest(o)
  \/ \E s \in Slots : SlotRequest(s)
  \/ \E p \in Plans : PlanRequest(p)
  \/ StudioTick

StudioSpec == StudioInit /\ [][StudioNext]_studioVars

(***************************************************************************)
(* Properties                                                              *)
(***************************************************************************)
NothingOnMerged ==
  /\ \A o \in Orders : Exists(o) => customers[orders[o].customer].status \in {"active", "archived"}
  /\ \A p \in Plans : plans[p].customer # Nobody =>
                        customers[plans[p].customer].status \in {"active", "archived"}

LinkedPlansAgree ==
  \A p \in Plans :
    LET q == plans[p] IN
    /\ q.order # Nobody <=> q.state \in {"order_linked", "order_cancelled"}
    /\ q.order # Nobody => /\ Exists(q.order) /\ orders[q.order].customer = q.customer
                           /\ q.state = "order_cancelled" <=> orders[q.order].status = "cancelled"

ShootsHaveOrders ==
  \A s \in Slots : slots[s].type = "shoot" =>
    Exists(slots[s].order) /\ ShootSlots(slots, slots[s].order) = {s}

\* Whatever sequence of bookings, links, merges, cancellations and deletions led here:
\* nothing belongs to a customer who was merged away, a linked plan has the customer
\* and the cancellation of its order, and a shoot slot is the only one of an order that
\* exists (customer/repository.go Merge, crm/reducer.go, schedule/repository.go).
ConnectionsAgree == NothingOnMerged /\ LinkedPlansAgree /\ ShootsHaveOrders

CopyIsCurrent(q, sl) ==
  q.window.source = "slot" => /\ q.state = "order_linked"
                              /\ q.window.slot = ShootSlotFact(sl, q.order)

OtherDomains == <<customers, orders, slots>>

\* A plan in active lifecycle whose window is a true copy of the shoot keeps a true
\* copy, or none, through every change of customers, orders and slots.  The one
\* exception is a slot moved into the past: its projection becomes inactive and the
\* copy stays what it was (crm/reducer.go reprojectLinkedOrder).
WindowFollowsShoot ==
  [][OtherDomains' # OtherDomains =>
       \A p \in Plans :
         /\ plans[p].status \in activeLifecycle
         /\ CopyIsCurrent(plans[p], slots)
         => CopyIsCurrent(plans'[p], slots') \/ plans'[p].projection = "inactive_past"]_studioVars

\* What the user decided about the window stands until the user decides again: no fact
\* from another domain replaces a window of the user's own, nor fills one the user
\* cleared while the shoot was still projected.
UserDecidesTheWindow ==
  [][OtherDomains' # OtherDomains =>
       \A p \in Plans :
         /\ plans[p].window = Manual => plans'[p].window = Manual
         /\ plans[p].window = NoWindow /\ plans[p].suppressed => plans'[p].window = NoWindow]_studioVars

\* The plan workbench must tell active from cancelled, deleted and past projections.
ActiveMeansBooked ==
  \A p \in Plans : plans[p].projection \in ActiveStates => plans[p].state = "order_linked"

\* A slot that exists can be deleted.
SlotsCanBeDeleted == \A s \in Slots : slots[s] # NoSlotRow => ENABLED DeleteSlot(s)

\* A referrer is a customer who was not merged away.
ReferrersAreCurrent ==
  \A c \in Customers : customers[c].referrer # Nobody /\ customers[c].status # "merged" =>
                         customers[customers[c].referrer].status # "merged"
===============================================================================
