---------------------------- MODULE PlanConnection ----------------------------
(***************************************************************************)
(* PlanConnection: what a fact about customers, orders and slots makes of  *)
(* the part of a shoot plan that follows them.                             *)
(*                                                                         *)
(* A plan holds its connection (customer, order and state), the projection *)
(* of its order's shoot slot, and the execution window, which is either    *)
(* the user's own or a copy of that slot.  The slot of a fact is NoSlot or *)
(* [id, ends]; a window of source "slot" is a copy of such a record.       *)
(***************************************************************************)
EXTENDS Naturals

CONSTANT Nobody  \* no customer, no order

NoSlot   == [id |-> Nobody, ends |-> 0]
NoWindow == [source |-> "none", slot |-> NoSlot]
Manual   == [source |-> "manual", slot |-> NoSlot]
FromSlot(slot) == [source |-> "slot", slot |-> slot]

ConnectionStates == {"independent", "customer_linked", "order_linked",
                     "order_cancelled", "order_deleted"}
ProjectionStates == {"absent", "missing_slot", "active_applied", "active_manual_override",
                     "active_unapplied", "inactive_past", "inactive_unlinked",
                     "inactive_order_cancelled", "inactive_order_deleted"}
ActiveStates == {"active_applied", "active_manual_override", "active_unapplied"}

activeLifecycle == {"draft", "ready", "in_progress"}

NewPlan == [status |-> "draft", customer |-> Nobody, order |-> Nobody, state |-> "independent",
            projection |-> "absent", slot |-> NoSlot, suppressed |-> FALSE, window |-> NoWindow]

\* Completed and archived plans refuse the user's commands.
guardExplicitLifecycle(p) == p.status \in activeLifecycle

\* A window is written only on a plan in active lifecycle.
WithWindow(p, window) ==
  IF p.status \in activeLifecycle THEN [p EXCEPT !.window = window] ELSE p

ClearCopy(p) == IF p.window.source = "slot" THEN WithWindow(p, NoWindow) ELSE p

deactivateProjection(p, projection, keepSlot) ==
  IF p.projection = "absent" THEN p
  ELSE ClearCopy([p EXCEPT !.projection = projection, !.slot = IF keepSlot THEN @ ELSE NoSlot])

unlinkedProjection(p) ==
  IF p.projection = "absent" THEN ClearCopy(p)
  ELSE ClearCopy([p EXCEPT !.projection = "inactive_unlinked", !.slot = NoSlot,
                           !.suppressed = FALSE])

\* The status the projection of a slot has.
slotStatus(p, slot, now) ==
  IF slot.ends <= now THEN "inactive_past"
  ELSE IF p.suppressed THEN "active_unapplied"
  ELSE IF p.window.source = "manual" THEN "active_manual_override" ELSE "active_applied"

Projected(p, slot, status) == [p EXCEPT !.projection = status, !.slot = slot]

ofCancelled(p, initializing) ==
  deactivateProjection([p EXCEPT !.projection = IF @ = "absent" THEN "missing_slot" ELSE @],
                       "inactive_order_cancelled", ~initializing)
ofNoSlot(p) == ClearCopy(Projected(p, NoSlot, "missing_slot"))

shouldClearScheduleWindow(p, slot) == p.window.source = "slot" /\ p.window.slot.id # slot.id

ProjectSlot(p, slot, status) ==
  LET q == Projected(p, slot, status)
  IN  IF status = "active_applied" THEN WithWindow(q, FromSlot(slot))
      ELSE IF shouldClearScheduleWindow(p, slot) THEN WithWindow(q, NoWindow) ELSE q

\* A window that is a copy already is not copied again.
reprojectOnce(p, slot, now, initializing) ==
  IF p.state = "order_cancelled" THEN ofCancelled(p, initializing)
  ELSE IF slot = NoSlot THEN ofNoSlot(p)
  ELSE IF p.window.source # "slot" THEN ProjectSlot(p, slot, slotStatus(p, slot, now))
  ELSE IF shouldClearScheduleWindow(p, slot)
       THEN WithWindow(Projected(p, slot, slotStatus(p, slot, now)), NoWindow)
       ELSE Projected(p, slot, slotStatus(p, slot, now))

\* What the user cleared comes back with the next change of the schedule.
reprojectUnsuppressed(p, slot, now, initializing) ==
  IF p.state = "order_cancelled" THEN ofCancelled(p, initializing)
  ELSE IF slot = NoSlot THEN ofNoSlot(p)
  ELSE ProjectSlot(p, slot, slotStatus([p EXCEPT !.suppressed = FALSE], slot, now))

reprojectLinkedOrder(p, slot, now, initializing) ==
  IF p.state = "order_cancelled" THEN ofCancelled(p, initializing)
  ELSE IF slot = NoSlot THEN ofNoSlot(p)
  ELSE ProjectSlot(p, slot, slotStatus(p, slot, now))

(***************************************************************************)
(* The user's commands.  Each is the set of results: empty when refused.   *)
(***************************************************************************)
reduceLinkCustomer(p, c, customerStatus) ==
  IF /\ guardExplicitLifecycle(p) /\ customerStatus # "merged" /\ p.customer \in {Nobody, c}
  THEN {IF p.customer = c THEN p ELSE [p EXCEPT !.customer = c, !.state = "customer_linked"]}
  ELSE {}

reduceLinkOrder(p, o, order, customerStatus, slot, now) ==
  LET linked == [p EXCEPT !.customer = order.customer, !.order = o,
                          !.state = IF order.status = "cancelled" THEN "order_cancelled"
                                                                  ELSE "order_linked"]
  IN  IF /\ guardExplicitLifecycle(p) /\ customerStatus # "merged"
         /\ p.customer \in {Nobody, order.customer} /\ p.order \in {Nobody, o}
      THEN {IF p.order = o THEN p
            ELSE reprojectLinkedOrder(linked, slot, now, p.projection = "absent")}
      ELSE {}

reduceUnlinkOrder(p) ==
  IF ~guardExplicitLifecycle(p) THEN {}
  ELSE IF p.order = Nobody /\ p.state # "order_deleted" THEN {p}
  ELSE {unlinkedProjection([p EXCEPT !.order = Nobody,
          !.state = IF p.customer = Nobody THEN "independent" ELSE "customer_linked"])}

reduceUnlinkCustomer(p) ==
  IF ~guardExplicitLifecycle(p) \/ p.order # Nobody THEN {}
  ELSE IF p.customer = Nobody /\ p.state = "independent" THEN {p}
  ELSE {unlinkedProjection([p EXCEPT !.customer = Nobody, !.state = "independent"])}

reduceAdopt(p, now) ==
  IF guardExplicitLifecycle(p) /\ p.projection \in ActiveStates /\ p.slot.ends > now
  THEN {WithWindow([p EXCEPT !.suppressed = FALSE, !.projection = "active_applied"],
                   FromSlot(p.slot))}
  ELSE {}

isActiveShadow(p, now) == p.projection \in ActiveStates \/ p.slot.ends > now

reduceSetManual(p, now) ==
  IF ~guardExplicitLifecycle(p) THEN {}
  ELSE {[p EXCEPT !.window = Manual,
                  !.projection = IF @ # "absent" /\ isActiveShadow(p, now)
                                 THEN "active_manual_override" ELSE @]}

reduceClearWindow(p, now) ==
  LET shadow == p.projection # "absent" /\ isActiveShadow(p, now)
  IN  IF ~guardExplicitLifecycle(p) THEN {}
      ELSE IF p.window = NoWindow THEN {p}
      ELSE {[p EXCEPT !.window = NoWindow,
                      !.suppressed = @ \/ shadow,
                      !.projection = IF shadow THEN "active_unapplied" ELSE @]}

(***************************************************************************)
(* Facts from the other domains.  None is refused.                         *)
(***************************************************************************)
reduceOrderCancelled(p, o) ==
  IF p.order # o \/ p.state = "order_cancelled" THEN p
  ELSE deactivateProjection([p EXCEPT !.state = "order_cancelled"],
                            "inactive_order_cancelled", TRUE)

reduceOrderDeleted(p) ==
  IF p.order = Nobody /\ p.state \notin {"order_linked", "order_cancelled"} THEN p
  ELSE deactivateProjection([p EXCEPT !.order = Nobody, !.state = "order_deleted"],
                            "inactive_order_deleted", FALSE)

reduceSchedule(p, slot, now) ==
  CASE p.state = "order_cancelled" -> deactivateProjection(p, "inactive_order_cancelled", TRUE)
    [] p.state = "order_linked"    -> reprojectLinkedOrder(p, slot, now, FALSE)
    [] OTHER                       -> p

reduceCustomerMerged(p, target) ==
  IF p.customer \in {Nobody, target} THEN p ELSE [p EXCEPT !.customer = target]
===============================================================================
