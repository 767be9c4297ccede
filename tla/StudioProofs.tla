----------------------------- MODULE StudioProofs -----------------------------
(***************************************************************************)
(* What holds of a studio's orders, plans and media for any number of      *)
(* them: orders keep their facts (OrderRecord), plans, orders and shoots   *)
(* agree about their connections (Studio), a held asset keeps its objects  *)
(* (PlanningMedia), a plan is what the commands on its board derive        *)
(* (PlanBoard), and a committed text is what its user decided              *)
(* (PlanIngestion).                                                        *)
(***************************************************************************)
EXTENDS Studio, OrderRecord, PlanningMedia, PlanBoard, PlanIngestion, FiniteSetTheorems, WellFoundedInduction, TLAPS

-----------------------------------------------------------------------------
(***************************************************************************)
(* Orders.  A request may set any columns; what it makes of the order is   *)
(* a record whose dates and money agree with its stage.                    *)
(***************************************************************************)
Columns == DOMAIN FieldValues

\* A record that has the columns of an order, and may have more.
OrderLike(r) == Columns \subseteq DOMAIN r /\ \A field \in Columns : r[field] \in FieldValues[field]

LEMMA TheColumns == Columns = {"status", "shotAt", "deliveredAt", "due", "price", "amount", "owed",
                               "balancePaid", "paidAt"}
BY DEF Columns, FieldValues

LEMMA GivenAreValues == \A field \in Columns : Given(field) \subseteq FieldValues[field]
<1>1. ASSUME NEW field \in Columns PROVE Given(field) \subseteq FieldValues[field]
  <2>1. CASE field \in {"shotAt", "deliveredAt", "paidAt"}
    BY <2>1 DEF Given, FieldValues
  <2>2. CASE field \in {"due", "owed"}
    BY <2>2 DEF Given, FieldValues
  <2>3. CASE field \in {"status", "price", "amount", "balancePaid"}
    BY <2>3 DEF Given
  <2> QED
    BY <2>1, <2>2, <2>3, TheColumns
<1> QED
  BY <1>1

LEMMA LikeFields ==
  ASSUME NEW r, OrderLike(r)
  PROVE  /\ r.status \in OrderStatuses /\ r.shotAt \in Nat /\ r.deliveredAt \in Nat
         /\ r.due \in Nat \cup {Override} /\ r.price \in Nat \cup {Unpriced} /\ r.amount \in Nat
         /\ r.owed \in Nat \cup {Unpriced} /\ r.balancePaid \in BOOLEAN /\ r.paidAt \in Nat
BY TheColumns DEF OrderLike, FieldValues

LEMMA BlankLike == OrderLike(BlankOrder)
BY TheColumns DEF OrderLike, BlankOrder, FieldValues, OrderStatuses, Unpriced, Override

LEMMA LikeExcept ==
  ASSUME NEW r, OrderLike(r), NEW field \in Columns, NEW v \in FieldValues[field]
  PROVE  /\ OrderLike([r EXCEPT ![field] = v])
         /\ DOMAIN [r EXCEPT ![field] = v] = DOMAIN r
         /\ \A x \in DOMAIN r : [r EXCEPT ![field] = v][x] = IF x = field THEN v ELSE r[x]
BY DEF OrderLike

\* Merging gives every column of the order, as the request has it or as it was.
LEMMA Merged ==
  ASSUME NEW in, IsRequest(in), NEW o, OrderLike(o)
  PROVE  /\ OrderLike(Merge(in, o)) /\ DOMAIN o \subseteq DOMAIN Merge(in, o)
         /\ \A x \in DOMAIN o : x \notin DOMAIN in \/ x = "due" => Merge(in, o)[x] = o[x]
<1>1. \A x \in DOMAIN o : /\ x \in DOMAIN Merge(in, o)
                          /\ Merge(in, o)[x] = IF x \in DOMAIN in /\ x # "due" THEN in[x] ELSE o[x]
  BY DEF Merge, Over
<1>2. \A x \in DOMAIN in : x \in Columns /\ in[x] \in FieldValues[x]
  BY GivenAreValues DEF IsRequest, Columns
<1> QED
  BY <1>1, <1>2 DEF OrderLike

\* The due day is the user's, or follows the day of the shoot.
LEMMA DueDerived ==
  ASSUME NEW n, OrderLike(n), NEW in, IsRequest(in), NEW changed \in BOOLEAN
  PROVE  \E v \in Nat \cup {Override} :
           /\ applyDeliveryDue(n, in, changed) = [n EXCEPT !.due = v]
           /\ /\ n.shotAt # 0 /\ n.status # "cancelled" /\ v # Override
              /\ changed \/ n.due \in {n.shotAt, Override}
              => v = n.shotAt
<1>0. n.due \in Nat \cup {Override} /\ n.shotAt \in Nat /\ Override \notin Nat
  BY LikeFields DEF Override
<1>1. CASE Specified(in, "due") /\ in.due # 0
  <2>1. applyDeliveryDue(n, in, changed) = [n EXCEPT !.due = Override]
    BY <1>1 DEF applyDeliveryDue
  <2> QED
    BY <2>1
<1>2. CASE Specified(in, "due") /\ in.due = 0
  <2>1. PICK v : v = IF n.shotAt # 0 /\ n.status # "cancelled" THEN n.shotAt ELSE 0
    OBVIOUS
  <2>2. applyDeliveryDue(n, in, changed) = [n EXCEPT !.due = v]
    BY <1>0, <1>2, <2>1 DEF applyDeliveryDue
  <2> QED
    BY <1>0, <2>1, <2>2
<1>3. CASE ~Specified(in, "due")
  <2>1. PICK v : v = IF n.due # Override /\ n.shotAt # 0 /\ n.status # "cancelled" /\ changed
                     THEN n.shotAt ELSE n.due
    OBVIOUS
  <2>2. applyDeliveryDue(n, in, changed) = [n EXCEPT !.due = v]
    BY <1>0, <1>3, <2>1 DEF applyDeliveryDue
  <2> QED
    BY <1>0, <2>1, <2>2
<1> QED
  BY <1>1, <1>2, <1>3

\* Payments touch the amounts only, and a settled order owes nothing.
LEMMA PaymentApplied ==
  ASSUME NEW n, OrderLike(n), NEW in, NEW cur, OrderLike(cur), NEW recorded \in BOOLEAN
  PROVE  LET r == applyPaymentFacts(cur, n, in, recorded)
         IN  /\ OrderLike(r) /\ DOMAIN r = DOMAIN n
             /\ \A x \in DOMAIN n \ {"owed", "amount"} : r[x] = n[x]
             /\ r.balancePaid => r.owed = 0
<1>0. /\ n.balancePaid \in BOOLEAN /\ n.owed \in Nat \cup {Unpriced}
      /\ n.amount \in Nat /\ n.price \in Nat \cup {Unpriced}
      /\ Columns \subseteq DOMAIN n /\ {"owed", "amount", "balancePaid"} \subseteq Columns
      /\ FieldValues["owed"] = Nat \cup {Unpriced} /\ FieldValues["amount"] = Nat
      /\ Unpriced \notin Nat /\ Unpriced \in Int
  BY LikeFields, TheColumns DEF OrderLike, FieldValues, Unpriced
<1>1. CASE n.balancePaid
  <2>1. PICK a : a = IF ~Specified(in, "amount") /\ ~cur.balancePaid /\ n.price > n.amount
                     THEN n.price ELSE n.amount
    OBVIOUS
  <2>2. a \in Nat
    BY <1>0, <2>1
  <2>3. PICK q : q = [n EXCEPT !.owed = 0]
    OBVIOUS
  <2>4. /\ OrderLike(q) /\ DOMAIN q = DOMAIN n
        /\ \A x \in DOMAIN n : q[x] = IF x = "owed" THEN 0 ELSE n[x]
    BY <1>0, <2>3, LikeExcept
  <2>5. PICK r : r = [q EXCEPT !.amount = a]
    OBVIOUS
  <2>6. /\ OrderLike(r) /\ DOMAIN r = DOMAIN q
        /\ \A x \in DOMAIN q : r[x] = IF x = "amount" THEN a ELSE q[x]
    BY <1>0, <2>2, <2>4, <2>5, LikeExcept
  <2>7. applyPaymentFacts(cur, n, in, recorded) = r
    BY <1>0, <1>1, <2>1, <2>3, <2>4, <2>5 DEF applyPaymentFacts
  <2> QED
    BY <1>0, <2>4, <2>6, <2>7
<1>2. CASE ~n.balancePaid /\ recorded /\ ~Specified(in, "owed")
  <2>1. PICK v : v = inferredOutstanding(n.price, n.amount)
    OBVIOUS
  <2>2. v \in Nat \cup {Unpriced}
    BY <1>0, <2>1 DEF inferredOutstanding
  <2>3. applyPaymentFacts(cur, n, in, recorded) = [n EXCEPT !.owed = v]
    BY <1>2, <2>1 DEF applyPaymentFacts
  <2>4. PICK r : r = [n EXCEPT !.owed = v]
    OBVIOUS
  <2>5. /\ OrderLike(r) /\ DOMAIN r = DOMAIN n
        /\ \A x \in DOMAIN n : r[x] = IF x = "owed" THEN v ELSE n[x]
    BY <1>0, <2>2, <2>4, LikeExcept
  <2> QED
    BY <1>0, <1>2, <2>3, <2>4, <2>5
<1>3. CASE ~n.balancePaid /\ ~(recorded /\ ~Specified(in, "owed"))
  <2>1. applyPaymentFacts(cur, n, in, recorded) = n
    BY <1>3 DEF applyPaymentFacts
  <2> QED
    BY <1>0, <1>3, <2>1
<1> QED
  BY <1>1, <1>2, <1>3

\* The dates and the money of an order agree with its stage.
FactsAgree(r) ==
  /\ r.status \in statusReachedShot => r.shotAt # 0
  /\ r.status \in statusReachedDelivered => r.deliveredAt # 0
  /\ r.shotAt # 0 => r.status \in statusReachedShot \cup {"cancelled"}
  /\ r.status \in statusReachedShot /\ r.due # Override => r.due = r.shotAt
  /\ r.balancePaid => r.owed = 0
  /\ r.status = "closed" => r.balancePaid

\* From the record the validations have seen to the row that is written.
LEMMA Written ==
  ASSUME NEW cur, OrderLike(cur), NEW n, OrderLike(n), NEW in, IsRequest(in),
         NEW changed \in BOOLEAN, NEW recorded \in BOOLEAN, NEW old, NEW checked,
         validateFinalState(old, n, checked),
         changed \/ n.due \in {n.shotAt, Override} \/ n.status \notin statusReachedShot,
         NEW d, d = applyDeliveryDue(n, in, changed),
         NEW r, r = applyPaymentFacts(cur, d, in, recorded)
  PROVE  /\ OrderLike(r) /\ FactsAgree(r) /\ DOMAIN r = DOMAIN n
         /\ \A x \in DOMAIN n \ {"due", "owed", "amount"} : r[x] = n[x]
<1>1. PICK v \in Nat \cup {Override} :
           /\ d = [n EXCEPT !.due = v]
           /\ /\ n.shotAt # 0 /\ n.status # "cancelled" /\ v # Override
              /\ changed \/ n.due \in {n.shotAt, Override}
              => v = n.shotAt
  BY DueDerived
<1>2. "due" \in Columns /\ v \in FieldValues["due"] /\ Columns \subseteq DOMAIN n
  BY TheColumns DEF FieldValues, OrderLike
<1>3. /\ OrderLike(d) /\ DOMAIN d = DOMAIN n
      /\ \A x \in DOMAIN n : d[x] = IF x = "due" THEN v ELSE n[x]
  BY <1>1, <1>2, LikeExcept
<1>4. /\ OrderLike(r) /\ DOMAIN r = DOMAIN d
      /\ \A x \in DOMAIN d \ {"owed", "amount"} : r[x] = d[x]
      /\ r.balancePaid => r.owed = 0
  BY <1>3, PaymentApplied
<1>5. \A x \in DOMAIN n \ {"due", "owed", "amount"} : r[x] = n[x]
  BY <1>3, <1>4
<1>6. /\ r.status = n.status /\ r.shotAt = n.shotAt /\ r.deliveredAt = n.deliveredAt
      /\ r.balancePaid = n.balancePaid /\ r.due = v
  BY <1>2, <1>3, <1>4, <1>5, TheColumns
<1>7. r.status \in statusReachedShot => r.status # "cancelled" /\ r.shotAt # 0
  BY <1>6 DEF validateFinalState, statusReachedShot
<1>8. FactsAgree(r)
  BY <1>1, <1>4, <1>6, <1>7 DEF FactsAgree, validateFinalState
<1> QED
  BY <1>3, <1>4, <1>5, <1>8

LEMMA OrderCreated ==
  ASSUME NEW in, IsRequest(in), NEW mode, NEW r \in ApplyCreateInput(in, mode)
  PROVE  OrderLike(r) /\ FactsAgree(r)
<1>1. PICK n : n = Merge(in, BlankOrder)
  OBVIOUS
<1>2. OrderLike(n) /\ n.shotAt \in Nat /\ OrderLike(BlankOrder) /\ n.due = 0
  <2>1. "due" \in DOMAIN BlankOrder /\ BlankOrder.due = 0
    BY DEF BlankOrder
  <2> QED
    BY <1>1, <2>1, BlankLike, Merged, LikeFields
<1>3. PICK changed \in BOOLEAN : changed = (n.shotAt # 0)
  OBVIOUS
<1>4. PICK d : d = applyDeliveryDue(n, in, changed)
  OBVIOUS
<1>5. /\ validateFinalState(BlankOrder, n, << >>)
      /\ r = applyPaymentFacts(BlankOrder, d, in, TRUE)
  BY <1>1, <1>3, <1>4 DEF ApplyCreateInput
<1>6. changed \/ n.status \notin statusReachedShot
  BY <1>3, <1>5 DEF validateFinalState
<1> QED
  BY <1>2, <1>4, <1>5, <1>6, Written

LEMMA OrderUpdated ==
  ASSUME NEW cur, OrderLike(cur), FactsAgree(cur), NEW in, IsRequest(in), NEW now \in Nat,
         NEW r \in ApplyUpdateInput(cur, in, now)
  PROVE  /\ OrderLike(r) /\ FactsAgree(r) /\ DOMAIN cur \subseteq DOMAIN r
         /\ r.status = cur.status \/ <<cur.status, r.status>> \in allowedTransitions
         /\ \A x \in DOMAIN cur \ Columns : x \notin DOMAIN in => r[x] = cur[x]
<1>1. PICK m : m = Merge(in, cur)
  OBVIOUS
<1>2. /\ OrderLike(m) /\ DOMAIN cur \subseteq DOMAIN m /\ m.due = cur.due
      /\ \A x \in DOMAIN cur \ Columns : x \notin DOMAIN in => m[x] = cur[x]
  BY <1>1, Merged, TheColumns DEF OrderLike
<1>3. PICK s : s = IF m.status = "shot" /\ cur.status # "shot" /\ m.shotAt = 0 THEN now ELSE m.shotAt
  OBVIOUS
<1>4. PICK t : t = IF m.status = "delivered" /\ cur.status # "delivered" /\ m.deliveredAt = 0
                   THEN now ELSE m.deliveredAt
  OBVIOUS
<1>5. s \in Nat /\ t \in Nat
  BY <1>2, <1>3, <1>4, LikeFields
<1>6. PICK k : k = [m EXCEPT !.shotAt = s]
  OBVIOUS
<1>7. PICK n : n = [k EXCEPT !.deliveredAt = t]
  OBVIOUS
<1>8. /\ FieldValues["shotAt"] = Nat /\ FieldValues["deliveredAt"] = Nat /\ FieldValues["paidAt"] = Nat
      /\ {"shotAt", "deliveredAt", "paidAt", "status", "due", "owed", "amount", "balancePaid"} \subseteq Columns
      /\ Columns \subseteq DOMAIN m
  BY <1>2, TheColumns DEF FieldValues, OrderLike
<1>9. OrderLike(k) /\ DOMAIN k = DOMAIN m
      /\ \A x \in DOMAIN m : k[x] = IF x = "shotAt" THEN s ELSE m[x]
  BY <1>2, <1>5, <1>6, <1>8, LikeExcept
<1>10. OrderLike(n) /\ DOMAIN n = DOMAIN m
       /\ \A x \in DOMAIN m \ {"shotAt", "deliveredAt"} : n[x] = m[x]
  BY <1>5, <1>7, <1>8, <1>9, LikeExcept
<1>11. n = [m EXCEPT !.shotAt = s, !.deliveredAt = t]
  BY <1>6, <1>7
<1>12. PICK changed \in BOOLEAN : changed = (n.shotAt # cur.shotAt)
  OBVIOUS
<1>13. PICK d : d = applyDeliveryDue(n, in, changed)
  OBVIOUS
<1>14. Specified(in, "amount") \in BOOLEAN
  BY DEF Specified
<1>15. PICK p : p = applyPaymentFacts(cur, d, in, Specified(in, "amount"))
  OBVIOUS
<1>16. /\ m.status # cur.status => <<cur.status, m.status>> \in allowedTransitions
       /\ validateFinalState(cur, n, in)
       /\ r = [p EXCEPT !.paidAt = IF p.balancePaid /\ ~cur.balancePaid /\ ~Specified(in, "paidAt")
                                   THEN now ELSE @]
  BY <1>1, <1>3, <1>4, <1>11, <1>12, <1>13, <1>15 DEF ApplyUpdateInput
<1>17. n.status = m.status /\ n.due = cur.due
  BY <1>2, <1>8, <1>10
<1>18. changed \/ n.due \in {n.shotAt, Override} \/ n.status \notin statusReachedShot
  <2>1. SUFFICES ASSUME ~changed, n.status \in statusReachedShot
                 PROVE  n.due \in {n.shotAt, Override}
    OBVIOUS
  <2>2. n.shotAt # 0 /\ n.shotAt = cur.shotAt
    BY <1>12, <1>16, <2>1 DEF validateFinalState
  <2>3. cur.status \in statusReachedShot \cup {"cancelled"}
    BY <2>2 DEF FactsAgree
  <2>4. cur.status # "cancelled"
    BY <1>16, <1>17, <2>1 DEF statusReachedShot, allowedTransitions, terminalStatus
  <2> QED
    BY <1>17, <2>2, <2>3, <2>4 DEF FactsAgree
<1>19. /\ OrderLike(p) /\ FactsAgree(p) /\ DOMAIN p = DOMAIN n
       /\ \A x \in DOMAIN n \ {"due", "owed", "amount"} : p[x] = n[x]
  BY <1>10, <1>13, <1>14, <1>15, <1>16, <1>18, Written
<1>20. PICK v : v = IF p.balancePaid /\ ~cur.balancePaid /\ ~Specified(in, "paidAt") THEN now ELSE p.paidAt
  OBVIOUS
<1>21. v \in Nat
  BY <1>19, <1>20, LikeFields
<1>22. r = [p EXCEPT !.paidAt = v]
  BY <1>16, <1>20
<1>23. /\ OrderLike(r) /\ DOMAIN r = DOMAIN p
       /\ \A x \in DOMAIN p : r[x] = IF x = "paidAt" THEN v ELSE p[x]
  BY <1>8, <1>19, <1>21, <1>22, LikeExcept
<1>24. /\ r.status = p.status /\ r.shotAt = p.shotAt /\ r.deliveredAt = p.deliveredAt /\ r.due = p.due
       /\ r.owed = p.owed /\ r.balancePaid = p.balancePaid
  BY <1>8, <1>10, <1>19, <1>23, TheColumns
<1>25. FactsAgree(r)
  BY <1>19, <1>24 DEF FactsAgree
<1>26. r.status = m.status
  BY <1>8, <1>10, <1>17, <1>19, <1>24
<1>27. \A x \in DOMAIN cur \ Columns : x \notin DOMAIN in => r[x] = cur[x]
  BY <1>2, <1>8, <1>10, <1>19, <1>23
<1> QED
  BY <1>2, <1>10, <1>16, <1>19, <1>23, <1>25, <1>26, <1>27

-----------------------------------------------------------------------------
OrderInv == OrderLike(orderRow) /\ FactsAgree(orderRow) /\ orderDay \in Days

LEMMA OrdersStart == OrderInit => OrderInv
BY OrderCreated, OrderRecordAssumption DEF OrderInit, OrderInv

LEMMA OrderStep == OrderInv /\ [OrderNext]_orderVars => OrderInv'
<1> SUFFICES ASSUME OrderInv, [OrderNext]_orderVars PROVE OrderInv'
  OBVIOUS
<1>1. ASSUME NEW in \in OrderRequests, UpdateRow(in) PROVE OrderInv'
  BY <1>1, OrderUpdated, OrderRecordAssumption DEF UpdateRow, OrderInv
<1>2. ASSUME NEW price \in Amounts, AdjustPrice(price) PROVE OrderInv'
  <2>1. "price" \in Columns /\ price \in FieldValues["price"]
    BY OrderRecordAssumption, TheColumns DEF FieldValues
  <2>2. PICK r : r = [orderRow EXCEPT !.price = price]
    OBVIOUS
  <2>3. OrderLike(r) /\ \A x \in Columns : r[x] = IF x = "price" THEN price ELSE orderRow[x]
    BY <2>1, <2>2, LikeExcept DEF OrderInv, OrderLike
  <2>4. /\ r.status = orderRow.status /\ r.shotAt = orderRow.shotAt /\ r.deliveredAt = orderRow.deliveredAt
        /\ r.due = orderRow.due /\ r.owed = orderRow.owed /\ r.balancePaid = orderRow.balancePaid
    BY <2>3, TheColumns
  <2>5. FactsAgree(r)
    BY <2>4 DEF FactsAgree, OrderInv
  <2> QED
    BY <1>2, <2>2, <2>3, <2>5 DEF AdjustPrice, OrderInv
<1>3. CASE NextDay
  BY <1>3 DEF NextDay, OrderInv
<1>4. CASE UNCHANGED orderVars
  BY <1>4 DEF orderVars, OrderInv
<1> QED
  BY <1>1, <1>2, <1>3, <1>4 DEF OrderNext

\* Whatever fields requests set, together and in whatever sequence, and whatever prices the
\* drafts of plans write, an order's dates and money agree with its stage
\* (order/state_machine.go, delivery_due.go, payment.go).
THEOREM OrdersStayConsistent == OrderSpec => []OrderFactsHold
<1>1. OrderInv => OrderFactsHold
  BY DEF OrderInv, FactsAgree, OrderFactsHold
<1> QED
  BY <1>1, OrdersStart, OrderStep, PTL DEF OrderSpec

-----------------------------------------------------------------------------
(***************************************************************************)
(* The reducer of a plan's connection.  Everything it makes of a plan is a *)
(* plan again, and a copied window hangs on a projection the user has not  *)
(* suppressed.                                                             *)
(***************************************************************************)
LinkedStatuses == {"draft", "ready", "in_progress", "completed", "archived"}
SlotFacts    == [id : Slots \cup {Nobody}, ends : Nat]
Windows      == [source : {"none", "manual", "slot"}, slot : SlotFacts]
PlanRecords  == [status : LinkedStatuses, customer : Customers \cup {Nobody}, order : Orders \cup {Nobody},
                 state : ConnectionStates, projection : ProjectionStates, slot : SlotFacts,
                 suppressed : BOOLEAN, window : Windows]

Disciplined(q) == /\ q.window.source = "slot" => q.projection # "absent"
                  /\ q.suppressed => q.window.source # "slot"
PlanOK(q) == q \in PlanRecords /\ Disciplined(q)

SameLinks(q, p) == q.customer = p.customer /\ q.order = p.order /\ q.state = p.state
\* q is p but for projection, slot, suppression and window.
SamePlan(q, p) == SameLinks(q, p) /\ q.status = p.status

LEMMA SlotRecords == NoSlot \in SlotFacts /\ NoWindow \in Windows /\ Manual \in Windows
                     /\ \A s \in SlotFacts : FromSlot(s) \in Windows
BY DEF NoSlot, SlotFacts, NoWindow, Manual, FromSlot, Windows

LEMMA Windowed ==
  ASSUME NEW p \in PlanRecords, NEW w \in Windows, NEW q, q = WithWindow(p, w)
  PROVE  /\ q \in PlanRecords /\ SamePlan(q, p)
         /\ q.projection = p.projection /\ q.slot = p.slot /\ q.suppressed = p.suppressed
         /\ q.window = IF p.status \in activeLifecycle THEN w ELSE p.window
BY DEF WithWindow, PlanRecords, SamePlan, SameLinks

LEMMA CopyCleared ==
  ASSUME NEW p \in PlanRecords, NEW q, q = ClearCopy(p)
  PROVE  /\ q \in PlanRecords /\ SamePlan(q, p)
         /\ q.projection = p.projection /\ q.slot = p.slot /\ q.suppressed = p.suppressed
         /\ q.window = IF p.status \in activeLifecycle /\ p.window.source = "slot"
                       THEN NoWindow ELSE p.window
BY Windowed, SlotRecords DEF ClearCopy, SamePlan, SameLinks

LEMMA Deactivated ==
  ASSUME NEW p \in PlanRecords, NEW projection \in ProjectionStates \ {"absent"}, NEW keepSlot \in BOOLEAN,
         NEW q, q = deactivateProjection(p, projection, keepSlot)
  PROVE  /\ q \in PlanRecords /\ SamePlan(q, p) /\ q.suppressed = p.suppressed
         /\ p.projection = "absent" => q = p
         /\ p.projection # "absent" =>
              /\ q.projection = projection
              /\ q.window = IF p.status \in activeLifecycle /\ p.window.source = "slot"
                            THEN NoWindow ELSE p.window
<1>1. CASE p.projection = "absent"
  BY <1>1 DEF deactivateProjection, SamePlan, SameLinks
<1>2. CASE p.projection # "absent"
  <2>1. PICK s : s = IF keepSlot THEN p.slot ELSE NoSlot
    OBVIOUS
  <2>2. s \in SlotFacts
    BY <2>1, SlotRecords DEF PlanRecords
  <2>3. PICK r : r = [p EXCEPT !.projection = projection, !.slot = s]
    OBVIOUS
  <2>4. /\ r \in PlanRecords /\ SamePlan(r, p) /\ r.suppressed = p.suppressed
        /\ r.projection = projection /\ r.window = p.window
    BY <2>2, <2>3 DEF PlanRecords, SamePlan, SameLinks
  <2>5. q = ClearCopy(r)
    BY <1>2, <2>1, <2>3 DEF deactivateProjection
  <2> QED
    BY <1>2, <2>4, <2>5, CopyCleared DEF SamePlan, SameLinks
<1> QED
  BY <1>1, <1>2

LEMMA Unlinked ==
  ASSUME NEW p \in PlanRecords, Disciplined(p), NEW q, q = unlinkedProjection(p)
  PROVE  PlanOK(q) /\ SamePlan(q, p)
<1>1. CASE p.projection = "absent"
  BY <1>1, CopyCleared DEF unlinkedProjection, PlanOK, Disciplined, NoWindow
<1>2. CASE p.projection # "absent"
  <2>1. PICK r : r = [p EXCEPT !.projection = "inactive_unlinked", !.slot = NoSlot, !.suppressed = FALSE]
    OBVIOUS
  <2>2. r \in PlanRecords /\ SamePlan(r, p) /\ r.projection = "inactive_unlinked" /\ ~r.suppressed
    BY <2>1, SlotRecords DEF PlanRecords, ProjectionStates, SamePlan, SameLinks
  <2>3. q = ClearCopy(r)
    BY <1>2, <2>1 DEF unlinkedProjection
  <2> QED
    BY <2>2, <2>3, CopyCleared DEF PlanOK, Disciplined, SamePlan, SameLinks, NoWindow
<1> QED
  BY <1>1, <1>2

\* Reprojecting a plan that is linked: its copy becomes the slot, or goes, or the shoot is
\* over; what the user decided stands.
LEMMA Reprojected ==
  ASSUME NEW p, PlanOK(p), NEW slot \in SlotFacts, NEW now \in Nat, NEW initializing \in BOOLEAN,
         NEW q, q = reprojectLinkedOrder(p, slot, now, initializing)
  PROVE  /\ PlanOK(q) /\ SamePlan(q, p)
         /\ p.window = Manual => q.window = Manual
         /\ p.window = NoWindow /\ p.suppressed => q.window = NoWindow
         /\ p.state # "order_cancelled" /\ p.status \in activeLifecycle /\ q.window.source = "slot"
              => q.window.slot = slot \/ q.projection = "inactive_past"
<1>0. PICK standing : standing = slotStatus(p, slot, now)
  OBVIOUS
<1>1. \/ p.state = "order_cancelled" /\ q = ofCancelled(p, initializing)
      \/ p.state # "order_cancelled" /\ q = ofNoSlot(p)
      \/ standing = "active_applied" /\ q = WithWindow(Projected(p, slot, standing), FromSlot(slot))
      \/ /\ standing # "active_applied" /\ p.window.source = "slot"
         /\ q = WithWindow(Projected(p, slot, standing), NoWindow)
      \/ standing # "active_applied" /\ q = Projected(p, slot, standing)
  <2>1. \/ p.state = "order_cancelled" /\ q = ofCancelled(p, initializing)
        \/ p.state # "order_cancelled" /\ q = ofNoSlot(p)
        \/ q = ProjectSlot(p, slot, standing)
    BY <1>0, Zenon DEF reprojectLinkedOrder
  <2> QED
    BY <2>1 DEF ProjectSlot, shouldClearScheduleWindow
<1>2. CASE p.state = "order_cancelled" /\ q = ofCancelled(p, initializing)
  <2>1. PICK r : r = [p EXCEPT !.projection = IF p.projection = "absent" THEN "missing_slot" ELSE p.projection]
    OBVIOUS
  <2>2. /\ r \in PlanRecords /\ SamePlan(r, p) /\ r.projection # "absent" /\ r.suppressed = p.suppressed
        /\ r.window = p.window
    BY <2>1 DEF PlanOK, PlanRecords, ProjectionStates, SamePlan, SameLinks
  <2> DEFINE k == ~initializing
  <2>3. q = deactivateProjection(r, "inactive_order_cancelled", k)
    BY <1>2, <2>1 DEF ofCancelled
  <2>4. "inactive_order_cancelled" \in ProjectionStates \ {"absent"} /\ k \in BOOLEAN
    BY DEF ProjectionStates
  <2> HIDE DEF k
  <2>5. /\ q \in PlanRecords /\ SamePlan(q, r) /\ q.suppressed = r.suppressed
        /\ q.projection = "inactive_order_cancelled"
        /\ q.window = IF r.status \in activeLifecycle /\ r.window.source = "slot"
                      THEN NoWindow ELSE r.window
    BY <2>2, <2>3, <2>4, Deactivated
  <2> QED
    BY <1>2, <2>2, <2>5 DEF PlanOK, Disciplined, SamePlan, SameLinks, NoWindow, Manual
<1>3. CASE p.state # "order_cancelled" /\ q = ofNoSlot(p)
  <2>1. PICK r : r = [p EXCEPT !.projection = "missing_slot", !.slot = NoSlot]
    OBVIOUS
  <2>2. /\ r \in PlanRecords /\ SamePlan(r, p) /\ r.projection # "absent" /\ r.suppressed = p.suppressed
        /\ r.window = p.window
    BY <2>1, SlotRecords DEF PlanOK, PlanRecords, ProjectionStates, SamePlan, SameLinks
  <2>3. q = ClearCopy(r)
    BY <1>3, <2>1 DEF ofNoSlot, Projected
  <2> QED
    BY <1>3, <2>2, <2>3, CopyCleared DEF PlanOK, Disciplined, SamePlan, SameLinks, NoWindow, Manual
<1>4. PICK r : r = Projected(p, slot, standing)
  OBVIOUS
<1>5. /\ standing \in ProjectionStates \ {"absent"}
      /\ standing = "active_applied" => ~p.suppressed /\ p.window.source # "manual"
      /\ standing # "active_applied" => \/ standing = "inactive_past" \/ p.suppressed
                                      \/ p.window.source = "manual"
  BY <1>0 DEF slotStatus, ProjectionStates
<1>6. /\ r \in PlanRecords /\ SamePlan(r, p) /\ r.projection = standing /\ r.suppressed = p.suppressed
      /\ r.window = p.window
  BY <1>4, <1>5 DEF Projected, PlanOK, PlanRecords, SamePlan, SameLinks
<1>7. CASE standing = "active_applied" /\ q = WithWindow(r, FromSlot(slot))
  <2>1. FromSlot(slot).source = "slot" /\ FromSlot(slot).slot = slot /\ FromSlot(slot) \in Windows
    BY SlotRecords DEF FromSlot
  <2>2. /\ q \in PlanRecords /\ SamePlan(q, r) /\ q.projection = r.projection /\ q.suppressed = r.suppressed
        /\ q.window = IF r.status \in activeLifecycle THEN FromSlot(slot) ELSE r.window
    BY <1>6, <1>7, <2>1, Windowed
  <2> QED
    BY <1>5, <1>6, <1>7, <2>1, <2>2 DEF PlanOK, Disciplined, SamePlan, SameLinks, Manual
<1>8. CASE standing # "active_applied" /\ p.window.source = "slot" /\ q = WithWindow(r, NoWindow)
  <2>1. /\ q \in PlanRecords /\ SamePlan(q, r) /\ q.projection = r.projection /\ q.suppressed = r.suppressed
        /\ q.window = IF r.status \in activeLifecycle THEN NoWindow ELSE r.window
    <3>1. r \in PlanRecords /\ NoWindow \in Windows /\ q = WithWindow(r, NoWindow)
      BY <1>6, <1>8, SlotRecords
    <3> QED
      BY <3>1, Windowed
  <2>2. NoWindow.source # "slot" /\ SamePlan(q, p) /\ q.projection # "active_applied"
    BY <1>6, <1>8, <2>1 DEF SamePlan, SameLinks, NoWindow
  <2> QED
    BY <1>5, <1>6, <1>8, <2>1, <2>2 DEF PlanOK, Disciplined, SamePlan, SameLinks, Manual
<1>9. CASE standing # "active_applied" /\ q = r
  BY <1>5, <1>6, <1>9 DEF PlanOK, Disciplined
<1> QED
  BY <1>1, <1>2, <1>3, <1>4, <1>7, <1>8, <1>9

-----------------------------------------------------------------------------
\* The facts of other domains, and what a user's command may make of a plan.

LEMMA CancelledFact ==
  ASSUME NEW p, PlanOK(p), NEW o \in Orders, p.order = o, NEW q, q = reduceOrderCancelled(p, o)
  PROVE  /\ PlanOK(q) /\ q.status = p.status /\ q.customer = p.customer /\ q.order = o
         /\ q.state = "order_cancelled"
         /\ p.window = Manual => q.window = Manual
         /\ p.window = NoWindow => q.window = NoWindow
         /\ p.state # "order_cancelled" /\ p.status \in activeLifecycle => q.window.source # "slot"
         /\ p.state = "order_cancelled" => q = p
<1>1. CASE p.state = "order_cancelled"
  BY <1>1 DEF reduceOrderCancelled
<1>2. CASE p.state # "order_cancelled"
  <2>1. PICK r : r = [p EXCEPT !.state = "order_cancelled"]
    OBVIOUS
  <2>2. /\ r \in PlanRecords /\ r.status = p.status /\ r.customer = p.customer /\ r.order = p.order
        /\ r.state = "order_cancelled" /\ r.window = p.window /\ r.projection = p.projection
        /\ r.suppressed = p.suppressed
    BY <2>1 DEF PlanOK, PlanRecords, ConnectionStates
  <2>0. PICK k \in BOOLEAN : k = TRUE
    OBVIOUS
  <2>3. q = deactivateProjection(r, "inactive_order_cancelled", k)
    BY <1>2, <2>0, <2>1 DEF reduceOrderCancelled
  <2>4. "inactive_order_cancelled" \in ProjectionStates \ {"absent"}
    BY DEF ProjectionStates
  <2>5. /\ q \in PlanRecords /\ SamePlan(q, r) /\ q.suppressed = r.suppressed
        /\ r.projection = "absent" => q = r
        /\ r.projection # "absent" =>
             /\ q.projection = "inactive_order_cancelled"
             /\ q.window = IF r.status \in activeLifecycle /\ r.window.source = "slot"
                           THEN NoWindow ELSE r.window
    BY <2>2, <2>3, <2>4, Deactivated
  <2> QED
    BY <1>2, <2>2, <2>5 DEF PlanOK, Disciplined, SamePlan, SameLinks, NoWindow, Manual
<1> QED
  BY <1>1, <1>2

LEMMA DeletedFact ==
  ASSUME NEW p, PlanOK(p), p.order \in Orders, NEW q, q = reduceOrderDeleted(p)
  PROVE  /\ PlanOK(q) /\ q.status = p.status /\ q.customer = p.customer /\ q.order = Nobody
         /\ q.state = "order_deleted"
         /\ p.window = Manual => q.window = Manual
         /\ p.window = NoWindow => q.window = NoWindow
         /\ p.status \in activeLifecycle => q.window.source # "slot"
<1>1. PICK r : r = [p EXCEPT !.order = Nobody, !.state = "order_deleted"]
  OBVIOUS
<1>2. /\ r \in PlanRecords /\ r.status = p.status /\ r.customer = p.customer /\ r.order = Nobody
      /\ r.state = "order_deleted" /\ r.window = p.window /\ r.projection = p.projection
      /\ r.suppressed = p.suppressed
  BY <1>1 DEF PlanOK, PlanRecords, ConnectionStates
<1>0. PICK k \in BOOLEAN : k = FALSE
  OBVIOUS
<1>3. q = deactivateProjection(r, "inactive_order_deleted", k)
  BY <1>0, <1>1, StudioAssumption DEF reduceOrderDeleted
<1>4. "inactive_order_deleted" \in ProjectionStates \ {"absent"}
  BY DEF ProjectionStates
<1>5. /\ q \in PlanRecords /\ SamePlan(q, r) /\ q.suppressed = r.suppressed
      /\ r.projection = "absent" => q = r
      /\ r.projection # "absent" =>
           /\ q.projection = "inactive_order_deleted"
           /\ q.window = IF r.status \in activeLifecycle /\ r.window.source = "slot"
                         THEN NoWindow ELSE r.window
  BY <1>2, <1>3, <1>4, Deactivated
<1> QED
  BY <1>2, <1>5 DEF PlanOK, Disciplined, SamePlan, SameLinks, NoWindow, Manual

LEMMA ScheduleFact ==
  ASSUME NEW p, PlanOK(p), NEW slot \in SlotFacts, NEW now \in Nat, NEW q, q = reduceSchedule(p, slot, now)
  PROVE  /\ PlanOK(q) /\ SamePlan(q, p)
         /\ p.window = Manual => q.window = Manual
         /\ p.window = NoWindow /\ p.suppressed => q.window = NoWindow
         /\ p.state = "order_linked" /\ p.status \in activeLifecycle /\ q.window.source = "slot"
              => q.window.slot = slot \/ q.projection = "inactive_past"
         /\ p.state # "order_linked" /\ p.window.source # "slot" => q.window.source # "slot"
<1>1. CASE p.state = "order_cancelled"
  <2>0. PICK k \in BOOLEAN : k = TRUE
    OBVIOUS
  <2>1. q = deactivateProjection(p, "inactive_order_cancelled", k)
    BY <1>1, <2>0 DEF reduceSchedule
  <2>2. "inactive_order_cancelled" \in ProjectionStates \ {"absent"}
    BY DEF ProjectionStates
  <2>3. /\ q \in PlanRecords /\ SamePlan(q, p) /\ q.suppressed = p.suppressed
        /\ p.projection = "absent" => q = p
        /\ p.projection # "absent" =>
             /\ q.projection = "inactive_order_cancelled"
             /\ q.window = IF p.status \in activeLifecycle /\ p.window.source = "slot"
                           THEN NoWindow ELSE p.window
    BY <2>1, <2>2, Deactivated DEF PlanOK
  <2> QED
    BY <1>1, <2>3 DEF PlanOK, Disciplined, NoWindow, Manual
<1>2. CASE p.state = "order_linked"
  <2>0. PICK k \in BOOLEAN : k = FALSE
    OBVIOUS
  <2>1. q = reprojectLinkedOrder(p, slot, now, k)
    BY <1>2, <2>0 DEF reduceSchedule
  <2> QED
    BY <1>2, <2>1, Reprojected
<1>3. CASE p.state \notin {"order_cancelled", "order_linked"}
  BY <1>3 DEF reduceSchedule, SamePlan, SameLinks
<1> QED
  BY <1>1, <1>2, <1>3

LEMMA MergedFact ==
  ASSUME NEW p, PlanOK(p), NEW target \in Customers, NEW q, q = reduceCustomerMerged(p, target)
  PROVE  /\ PlanOK(q) /\ q.status = p.status /\ q.order = p.order /\ q.state = p.state
         /\ q.customer = IF p.customer = Nobody THEN Nobody ELSE target
         /\ q.window = p.window /\ q.suppressed = p.suppressed
<1>1. CASE p.customer \in {Nobody, target}
  BY <1>1 DEF reduceCustomerMerged
<1>2. CASE p.customer \notin {Nobody, target}
  <2>1. q = [p EXCEPT !.customer = target]
    BY <1>2 DEF reduceCustomerMerged
  <2> QED
    BY <1>2, <2>1 DEF PlanOK, Disciplined, PlanRecords
<1> QED
  BY <1>1, <1>2

\* A command leaves the connection as it was, or makes one of these of it.
Relinks(q, p) ==
  \/ SameLinks(q, p)
  \/ /\ q.order = Nobody /\ q.state \in {"independent", "customer_linked"}
     /\ q.customer \in {p.customer, Nobody}

LEMMA WindowCommands ==
  ASSUME NEW p, PlanOK(p), NEW now \in Nat,
         NEW q \in reduceAdopt(p, now) \cup reduceSetManual(p, now) \cup reduceClearWindow(p, now)
  PROVE  PlanOK(q) /\ SameLinks(q, p)
<1>0. p \in PlanRecords /\ p.slot \in SlotFacts
  BY DEF PlanOK, PlanRecords
<1>1. CASE q \in reduceAdopt(p, now)
  <2>1. PICK r : r = [p EXCEPT !.suppressed = FALSE, !.projection = "active_applied"]
    OBVIOUS
  <2>2. r \in PlanRecords /\ SamePlan(r, p) /\ r.projection = "active_applied" /\ ~r.suppressed
    BY <1>0, <2>1 DEF PlanRecords, ProjectionStates, SamePlan, SameLinks
  <2>3. q = WithWindow(r, FromSlot(p.slot))
    BY <1>1, <2>1 DEF reduceAdopt
  <2>4. FromSlot(p.slot) \in Windows
    BY <1>0, SlotRecords
  <2>5. q \in PlanRecords /\ SamePlan(q, r) /\ q.projection = r.projection /\ q.suppressed = r.suppressed
    BY <2>2, <2>3, <2>4, Windowed
  <2> QED
    BY <2>2, <2>5 DEF PlanOK, Disciplined, SamePlan, SameLinks
<1>2. CASE q \in reduceSetManual(p, now)
  <2>1. PICK x \in ProjectionStates : q = [p EXCEPT !.window = Manual, !.projection = x]
    <3>1. PICK x : x = IF p.projection # "absent" /\ isActiveShadow(p, now)
                       THEN "active_manual_override" ELSE p.projection
      OBVIOUS
    <3>2. x \in ProjectionStates
      BY <1>0, <3>1 DEF PlanRecords, ProjectionStates
    <3> QED
      BY <1>2, <3>1, <3>2 DEF reduceSetManual
  <2> QED
    BY <1>0, <2>1, SlotRecords DEF PlanOK, Disciplined, PlanRecords, SameLinks, Manual
<1>3. CASE q \in reduceClearWindow(p, now)
  <2>1. q = p \/ \E x \in ProjectionStates, s \in BOOLEAN :
                   q = [p EXCEPT !.window = NoWindow, !.suppressed = s, !.projection = x]
    <3>1. CASE p.window = NoWindow
      BY <1>3, <3>1 DEF reduceClearWindow
    <3>2. CASE p.window # NoWindow
      <4> DEFINE shadow == p.projection # "absent" /\ isActiveShadow(p, now)
                 x == IF shadow THEN "active_unapplied" ELSE p.projection
                 s == p.suppressed \/ shadow
      <4>1. q = [p EXCEPT !.window = NoWindow, !.suppressed = s, !.projection = x]
        BY <1>3, <3>2 DEF reduceClearWindow
      <4>2. x \in ProjectionStates /\ s \in BOOLEAN
        BY <1>0 DEF PlanRecords, ProjectionStates
      <4> HIDE DEF x, s
      <4> QED
        BY <4>1, <4>2
    <3> QED
      BY <3>1, <3>2
  <2>2. CASE q = p
    BY <2>2 DEF SameLinks
  <2>3. ASSUME NEW x \in ProjectionStates, NEW s \in BOOLEAN,
               q = [p EXCEPT !.window = NoWindow, !.suppressed = s, !.projection = x]
        PROVE  PlanOK(q) /\ SameLinks(q, p)
    <3>1. NoWindow.source = "none" /\ NoWindow \in Windows
      BY SlotRecords DEF NoWindow
    <3> QED
      BY <1>0, <2>3, <3>1 DEF PlanOK, Disciplined, PlanRecords, SameLinks
  <2> QED
    BY <2>1, <2>2, <2>3
<1> QED
  BY <1>1, <1>2, <1>3

LEMMA UnlinkCommands ==
  ASSUME NEW p, PlanOK(p), NEW q \in reduceUnlinkOrder(p) \cup reduceUnlinkCustomer(p)
  PROVE  PlanOK(q) /\ Relinks(q, p)
<1>1. CASE q \in reduceUnlinkOrder(p)
  <2>1. CASE q = p
    BY <2>1 DEF Relinks, SameLinks
  <2>2. CASE q # p
    <3>1. PICK s : s = IF p.customer = Nobody THEN "independent" ELSE "customer_linked"
      OBVIOUS
    <3>2. PICK r : r = [p EXCEPT !.order = Nobody, !.state = s]
      OBVIOUS
    <3>3. /\ PlanOK(r) /\ r.order = Nobody /\ r.state \in {"independent", "customer_linked"}
          /\ r.customer = p.customer
      BY <3>1, <3>2 DEF PlanOK, PlanRecords, ConnectionStates, Disciplined
    <3>4. q = unlinkedProjection(r)
      BY <1>1, <2>2, <3>1, <3>2 DEF reduceUnlinkOrder
    <3> QED
      BY <3>3, <3>4, Unlinked DEF PlanOK, Relinks, SamePlan, SameLinks
  <2> QED
    BY <2>1, <2>2
<1>2. CASE q \in reduceUnlinkCustomer(p)
  <2>1. CASE q = p
    BY <2>1 DEF Relinks, SameLinks
  <2>2. CASE q # p
    <3>1. PICK r : r = [p EXCEPT !.customer = Nobody, !.state = "independent"]
      OBVIOUS
    <3>2. p.order = Nobody
      BY <1>2 DEF reduceUnlinkCustomer
    <3>3. /\ PlanOK(r) /\ r.order = Nobody /\ r.state = "independent" /\ r.customer = Nobody
      BY <3>1, <3>2 DEF PlanOK, PlanRecords, ConnectionStates, Disciplined
    <3>4. q = unlinkedProjection(r)
      BY <1>2, <2>2, <3>1 DEF reduceUnlinkCustomer
    <3> QED
      BY <3>3, <3>4, Unlinked DEF PlanOK, Relinks, SamePlan, SameLinks
  <2> QED
    BY <2>1, <2>2
<1> QED
  BY <1>1, <1>2

LEMMA LinkCommands ==
  ASSUME NEW p, PlanOK(p), NEW c \in Customers, NEW standing,
         NEW q \in reduceLinkCustomer(p, c, standing)
  PROVE  /\ PlanOK(q) /\ standing # "merged"
         /\ SameLinks(q, p) \/ /\ p.customer = Nobody /\ q.customer = c
                               /\ q.order = p.order /\ q.state = "customer_linked"
<1>1. standing # "merged" /\ p.customer \in {Nobody, c}
  BY DEF reduceLinkCustomer
<1>2. q = p \/ (p.customer = Nobody /\ q = [p EXCEPT !.customer = c, !.state = "customer_linked"])
  BY StudioAssumption DEF reduceLinkCustomer
<1> QED
  BY <1>1, <1>2 DEF PlanOK, PlanRecords, ConnectionStates, Disciplined, SameLinks

LEMMA LinkOrderCommand ==
  ASSUME NEW p, PlanOK(p), NEW o \in Orders, NEW order, order.customer \in Customers, NEW standing,
         NEW slot \in SlotFacts, NEW now \in Nat,
         NEW q \in reduceLinkOrder(p, o, order, standing, slot, now)
  PROVE  /\ PlanOK(q)
         /\ SameLinks(q, p) \/ /\ q.customer = order.customer /\ q.order = o
                               /\ q.state = IF order.status = "cancelled" THEN "order_cancelled"
                                                                          ELSE "order_linked"
<1>1. CASE p.order = o
  BY <1>1 DEF reduceLinkOrder, SameLinks
<1>2. CASE p.order # o
  <2>1. PICK s : s = IF order.status = "cancelled" THEN "order_cancelled" ELSE "order_linked"
    OBVIOUS
  <2>2. PICK r : r = [p EXCEPT !.customer = order.customer, !.order = o, !.state = s]
    OBVIOUS
  <2>3. PlanOK(r) /\ r.customer = order.customer /\ r.order = o /\ r.state = s
    BY <2>1, <2>2 DEF PlanOK, PlanRecords, ConnectionStates, Disciplined
  <2>4. PICK initializing \in BOOLEAN : initializing = (p.projection = "absent")
    OBVIOUS
  <2>5. q = reprojectLinkedOrder(r, slot, now, initializing)
    BY <1>2, <2>1, <2>2, <2>4 DEF reduceLinkOrder
  <2> QED
    BY <2>1, <2>3, <2>5, Reprojected DEF SamePlan, SameLinks
<1> QED
  BY <1>1, <1>2

-----------------------------------------------------------------------------
(***************************************************************************)
(* The account.  Rows have their types, and customers, orders, slots and   *)
(* plans agree.                                                            *)
(***************************************************************************)
CustomerRows == [status : CustomerStatuses, referrer : Customers \cup {Nobody}]
AnySlotRow   == [type : {"none", "shoot", "hold"}, order : Orders \cup {Nobody}, ends : Ends \cup {0}]
Referrals    == [customer : Customers \cup {Nobody}, referrer : Customers \cup {Nobody}]

OrderRowOK(r) == /\ OrderLike(r) /\ FactsAgree(r)
                 /\ "customer" \in DOMAIN r /\ r.customer \in Customers \cup {Nobody}

CustomersOK == customers \in [Customers -> CustomerRows]
OrdersOK    == DOMAIN orders = Orders /\ \A o \in Orders : OrderRowOK(orders[o])
SlotsOK     == slots \in [Slots -> AnySlotRow] /\ \A s \in Slots : slots[s].type = "shoot" => slots[s].order # Nobody
PlansOK     == plans \in [Plans -> PlanRecords] /\ \A p \in Plans : Disciplined(plans[p])
RestOK      == referral \in Referrals /\ studioClock \in 0..MaxStudioClock

StudioInv == /\ CustomersOK /\ OrdersOK /\ SlotsOK /\ PlansOK /\ RestOK
             /\ NothingOnMerged /\ LinkedPlansAgree /\ ShootsHaveOrders

Usable == {"active", "archived"}

\* What each part of the invariant is about.
LEMMA StudioFrames ==
  ASSUME StudioInv
  PROVE  /\ UNCHANGED customers => CustomersOK'
         /\ UNCHANGED orders => OrdersOK'
         /\ UNCHANGED slots => SlotsOK'
         /\ UNCHANGED plans => PlansOK'
         /\ UNCHANGED <<referral, studioClock>> => RestOK'
         /\ UNCHANGED <<customers, orders, plans>> => NothingOnMerged'
         /\ UNCHANGED <<orders, plans>> => LinkedPlansAgree'
         /\ UNCHANGED <<orders, slots>> => ShootsHaveOrders'
<1>1. /\ UNCHANGED customers => CustomersOK'
      /\ UNCHANGED orders => OrdersOK'
      /\ UNCHANGED slots => SlotsOK'
      /\ UNCHANGED plans => PlansOK'
      /\ UNCHANGED <<referral, studioClock>> => RestOK'
  BY DEF StudioInv, CustomersOK, OrdersOK, SlotsOK, PlansOK, RestOK
<1>2. UNCHANGED <<customers, orders, plans>> => NothingOnMerged'
  BY DEF StudioInv, NothingOnMerged, Exists
<1>3. UNCHANGED <<orders, plans>> => LinkedPlansAgree'
  BY DEF StudioInv, LinkedPlansAgree, Exists
<1>4. UNCHANGED <<orders, slots>> => ShootsHaveOrders'
  BY DEF StudioInv, ShootsHaveOrders, Exists, ShootSlots
<1> QED
  BY <1>1, <1>2, <1>3, <1>4

LEMMA PlanFacts ==
  ASSUME StudioInv, NEW p \in Plans
  PROVE  /\ PlanOK(plans[p]) /\ plans[p] \in PlanRecords /\ studioClock \in Nat
         /\ plans[p].order # Nobody => plans[p].order \in Orders
BY StudioAssumption DEF StudioInv, PlansOK, PlanOK, PlanRecords, RestOK

\* The standing of customers that can be used stays usable.
LEMMA CustomersChange ==
  ASSUME StudioInv, UNCHANGED <<orders, plans>>,
         \A c \in Customers : customers[c].status \in Usable => customers'[c].status \in Usable
  PROVE  NothingOnMerged'
<1>1. ASSUME NEW o \in Orders, Exists(o)' PROVE customers'[orders[o].customer].status \in Usable
  BY <1>1 DEF StudioInv, OrdersOK, OrderRowOK, NothingOnMerged, Exists, Usable
<1>2. ASSUME NEW p \in Plans, plans[p].customer # Nobody
      PROVE  customers'[plans[p].customer].status \in Usable
  BY <1>2, PlanFacts DEF StudioInv, NothingOnMerged, PlanRecords, Usable
<1> QED
  BY <1>1, <1>2 DEF NothingOnMerged, Exists, Usable

\* One plan becomes q, by a command that leaves orders and customers alone.
LEMMA OnePlan ==
  ASSUME StudioInv, NEW p \in Plans, NEW q, plans' = [plans EXCEPT ![p] = q],
         UNCHANGED <<customers, orders, slots, referral, studioClock>>, PlanOK(q),
         \/ Relinks(q, plans[p])
         \/ /\ q.customer \in Customers /\ customers[q.customer].status \in Usable
            /\ q.order = Nobody /\ q.state = "customer_linked"
         \/ /\ q.order \in Orders /\ Exists(q.order) /\ orders[q.order].customer = q.customer
            /\ q.state = IF orders[q.order].status = "cancelled" THEN "order_cancelled" ELSE "order_linked"
  PROVE  StudioInv'
<1>1. /\ plans' \in [Plans -> PlanRecords] /\ plans'[p] = q
      /\ \A x \in Plans \ {p} : plans'[x] = plans[x]
  BY DEF StudioInv, PlansOK, PlanOK
<1>2. PlansOK'
  BY <1>1 DEF StudioInv, PlansOK, PlanOK
<1>3. /\ q.order # Nobody <=> q.state \in {"order_linked", "order_cancelled"}
      /\ q.order # Nobody => /\ Exists(q.order) /\ orders[q.order].customer = q.customer
                             /\ q.state = "order_cancelled" <=> orders[q.order].status = "cancelled"
      /\ q.customer # Nobody => customers[q.customer].status \in Usable
  <2>1. CASE SameLinks(q, plans[p])
    BY <2>1 DEF SameLinks, StudioInv, LinkedPlansAgree, NothingOnMerged, Usable
  <2>2. CASE /\ q.order = Nobody /\ q.state \in {"independent", "customer_linked"}
             /\ q.customer \in {plans[p].customer, Nobody}
    BY <2>2 DEF StudioInv, NothingOnMerged, Usable
  <2>3. CASE /\ q.customer \in Customers /\ customers[q.customer].status \in Usable
             /\ q.order = Nobody /\ q.state = "customer_linked"
    BY <2>3
  <2>4. CASE /\ q.order \in Orders /\ Exists(q.order) /\ orders[q.order].customer = q.customer
             /\ q.state = IF orders[q.order].status = "cancelled" THEN "order_cancelled" ELSE "order_linked"
    BY <2>4, StudioAssumption DEF StudioInv, NothingOnMerged, Usable
  <2> QED
    BY <2>1, <2>2, <2>3, <2>4 DEF Relinks
<1>4. LinkedPlansAgree'
  BY <1>1, <1>3 DEF StudioInv, LinkedPlansAgree, Exists
<1>5. NothingOnMerged'
  BY <1>1, <1>3 DEF StudioInv, NothingOnMerged, Exists, Usable
<1> QED
  BY <1>2, <1>4, <1>5, StudioFrames DEF StudioInv

-----------------------------------------------------------------------------
\* Requests about customers.

LEMMA CustomerStep ==
  ASSUME StudioInv, NEW c \in Customers, NEW row \in CustomerRows, row.status \in Usable,
         customers' = [customers EXCEPT ![c] = row],
         UNCHANGED <<orders, slots, plans, studioClock>>, RestOK'
  PROVE  StudioInv'
<1>1. CustomersOK' /\ \A x \in Customers : customers'[x] = IF x = c THEN row ELSE customers[x]
  BY DEF StudioInv, CustomersOK
<1>2. NothingOnMerged'
  BY <1>1, CustomersChange
<1> QED
  BY <1>1, <1>2, StudioFrames DEF StudioInv

LEMMA CreateStep ==
  ASSUME StudioInv, NEW c \in Customers, Create(c)
  PROVE  StudioInv'
<1>1. PICK row : row = [customers[c] EXCEPT !.status = "active"]
  OBVIOUS
<1>2. row \in CustomerRows /\ row.status \in Usable
  BY <1>1 DEF StudioInv, CustomersOK, CustomerRows, CustomerStatuses, Usable
<1>3. customers' = [customers EXCEPT ![c] = row] /\ UNCHANGED <<orders, slots, plans, referral, studioClock>>
  BY <1>1 DEF Create
<1>4. RestOK'
  BY <1>3, StudioFrames
<1> QED
  BY <1>2, <1>3, <1>4, CustomerStep

LEMMA UpdateStep ==
  ASSUME StudioInv, NEW c \in Customers, NEW standing \in {"active", "archived"}, NEW keeps \in BOOLEAN,
         Update(c, standing, keeps)
  PROVE  StudioInv'
<1>1. PICK row : row = [status |-> standing, referrer |-> IF keeps THEN customers[c].referrer ELSE Nobody]
  OBVIOUS
<1>2. row \in CustomerRows /\ row.status \in Usable
  BY <1>1 DEF StudioInv, CustomersOK, CustomerRows, CustomerStatuses, Usable
<1>3. customers' = [customers EXCEPT ![c] = row] /\ UNCHANGED <<orders, slots, plans, referral, studioClock>>
  BY <1>1 DEF Update
<1>4. RestOK'
  BY <1>3, StudioFrames
<1> QED
  BY <1>2, <1>3, <1>4, CustomerStep

LEMMA ReferralStep ==
  ASSUME StudioInv, NEW c \in Customers, NEW r \in Customers, requireActiveReferrer(c, r)
  PROVE  StudioInv'
<1>1. RestOK'
  BY DEF requireActiveReferrer, StudioInv, RestOK, Referrals
<1> QED
  BY <1>1, StudioFrames DEF requireActiveReferrer, StudioInv

LEMMA WriteReferrerStep ==
  ASSUME StudioInv, WriteReferrer
  PROVE  StudioInv'
<1> DEFINE c == referral.customer
           row == [status |-> IF customers[c].status = "none" THEN "active" ELSE customers[c].status,
                   referrer |-> referral.referrer]
<1>1. customers' = [customers EXCEPT ![c] = row] /\ UNCHANGED <<orders, slots, plans, studioClock>>
  BY DEF WriteReferrer
<1>2. RestOK'
  BY DEF WriteReferrer, StudioInv, RestOK, Referrals, NoReferral
<1>3. \A x \in Customers : customers'[x] = IF x = c THEN row ELSE customers[x]
  BY <1>1 DEF StudioInv, CustomersOK
<1>4. \A x \in Customers : customers[x] \in CustomerRows
  BY DEF StudioInv, CustomersOK
<1>5. c \in Customers => row \in CustomerRows
  BY <1>4 DEF CustomerRows, CustomerStatuses, StudioInv, RestOK, Referrals
<1>6. CustomersOK'
  <2>1. \A x \in Customers : customers'[x] \in CustomerRows
    BY <1>3, <1>4, <1>5
  <2>2. customers' = [x \in Customers |-> customers'[x]]
    BY <1>1 DEF StudioInv, CustomersOK
  <2> QED
    BY <2>1, <2>2 DEF CustomersOK
<1>7. \A x \in Customers : customers[x].status \in Usable => customers'[x].status \in Usable
  BY <1>3 DEF Usable
<1>8. NothingOnMerged'
  BY <1>1, <1>7, CustomersChange
<1> QED
  BY <1>1, <1>2, <1>6, <1>8, StudioFrames DEF StudioInv

LEMMA MergeStep ==
  ASSUME StudioInv, NEW source \in Customers, NEW target \in Customers, MergeCustomers(source, target)
  PROVE  StudioInv'
<1>0. /\ source # target /\ customers[source].status = "active" /\ customers[target].status = "active"
      /\ UNCHANGED <<slots, referral, studioClock>>
  BY DEF MergeCustomers
<1>1. \A c \in Customers :
        customers'[c].status = IF c = source THEN "merged" ELSE customers[c].status
  BY DEF MergeCustomers
<1>2. CustomersOK'
  <2>1. PICK ref : ref = [c \in Customers |->
                            LET r == Redirected(customers[c].referrer, c, source, target)
                            IN  IF c = target /\ r = target THEN Nobody ELSE r]
    OBVIOUS
  <2>2. \A c \in Customers : ref[c] \in Customers \cup {Nobody}
    BY <2>1 DEF Redirected, StudioInv, CustomersOK, CustomerRows
  <2>3. customers' = [c \in Customers |->
          [status |-> IF c = source THEN "merged" ELSE customers[c].status, referrer |-> ref[c]]]
    BY <2>1 DEF MergeCustomers
  <2>4. \A c \in Customers : (IF c = source THEN "merged" ELSE customers[c].status) \in CustomerStatuses
    BY DEF StudioInv, CustomersOK, CustomerRows, CustomerStatuses
  <2> QED
    BY <2>2, <2>3, <2>4 DEF CustomersOK, CustomerRows
<1>3. ASSUME NEW o \in Orders
      PROVE  /\ OrderRowOK(orders'[o]) /\ orders'[o].status = orders[o].status
             /\ orders'[o].customer = IF orders[o].customer = source THEN target ELSE orders[o].customer
  <2>1. orders'[o] = IF orders[o].customer = source THEN [orders[o] EXCEPT !.customer = target] ELSE orders[o]
    BY DEF MergeCustomers
  <2>2. OrderRowOK(orders[o]) /\ "customer" \in DOMAIN orders[o]
    BY DEF StudioInv, OrdersOK, OrderRowOK
  <2>3. CASE orders[o].customer = source
    <3>1. PICK r : r = [orders[o] EXCEPT !.customer = target]
      OBVIOUS
    <3>2. DOMAIN r = DOMAIN orders[o] /\ r.customer = target
          /\ \A x \in DOMAIN orders[o] \ {"customer"} : r[x] = orders[o][x]
      BY <2>2, <3>1
    <3>3. Columns \subseteq DOMAIN orders[o] \ {"customer"}
      BY <2>2, TheColumns DEF OrderRowOK, OrderLike
    <3>4. OrderLike(r)
      BY <2>2, <3>2, <3>3 DEF OrderRowOK, OrderLike
    <3>5. /\ r.status = orders[o].status /\ r.shotAt = orders[o].shotAt /\ r.deliveredAt = orders[o].deliveredAt
          /\ r.due = orders[o].due /\ r.owed = orders[o].owed /\ r.balancePaid = orders[o].balancePaid
      BY <3>2, <3>3, TheColumns
    <3>6. FactsAgree(r)
      BY <2>2, <3>5 DEF OrderRowOK, FactsAgree
    <3> QED
      BY <2>1, <2>2, <2>3, <3>1, <3>2, <3>4, <3>5, <3>6 DEF OrderRowOK
  <2>4. CASE orders[o].customer # source
    BY <2>1, <2>2, <2>4
  <2> QED
    BY <2>3, <2>4
<1>4. OrdersOK'
  BY <1>3 DEF MergeCustomers, OrdersOK
<1>5. ASSUME NEW p \in Plans
      PROVE  /\ PlanOK(plans'[p]) /\ plans'[p].order = plans[p].order /\ plans'[p].state = plans[p].state
             /\ plans'[p].customer = IF plans[p].customer = source THEN target ELSE plans[p].customer
  <2>1. plans'[p] = IF plans[p].customer \in {source, target}
                    THEN reduceCustomerMerged(plans[p], target) ELSE plans[p]
    BY DEF MergeCustomers, MigratePlanCustomers
  <2>2. CASE plans[p].customer \in {source, target}
    BY <2>1, <2>2, PlanFacts, MergedFact, StudioAssumption
  <2>3. CASE plans[p].customer \notin {source, target}
    BY <2>1, <2>3, PlanFacts
  <2> QED
    BY <2>2, <2>3
<1>6. PlansOK'
  BY <1>5 DEF MergeCustomers, MigratePlanCustomers, PlansOK, PlanOK
<1>7. RestOK'
  BY <1>0, StudioFrames
<1>8. \A o \in Orders : Exists(o)' <=> Exists(o)
  BY <1>3, StudioAssumption DEF Exists
<1>9. NothingOnMerged'
  <2>1. ASSUME NEW o \in Orders, Exists(o)'
        PROVE  customers'[orders'[o].customer].status \in Usable
    <3>1. orders[o].customer \in Customers /\ customers[orders[o].customer].status \in Usable
      BY <1>8, <2>1 DEF StudioInv, OrdersOK, OrderRowOK, NothingOnMerged, Exists, Usable
    <3> QED
      BY <1>0, <1>1, <1>3, <3>1 DEF Usable
  <2>2. ASSUME NEW p \in Plans, plans'[p].customer # Nobody
        PROVE  customers'[plans'[p].customer].status \in Usable
    <3>1. plans[p].customer \in Customers /\ customers[plans[p].customer].status \in Usable
      BY <1>5, <2>2, PlanFacts, StudioAssumption DEF StudioInv, NothingOnMerged, PlanRecords, Usable
    <3> QED
      BY <1>0, <1>1, <1>5, <3>1 DEF Usable
  <2> QED
    BY <2>1, <2>2 DEF NothingOnMerged, Usable
<1>10. LinkedPlansAgree'
  <2>1. ASSUME NEW p \in Plans, NEW q, q = plans'[p]
        PROVE  /\ q.order # Nobody <=> q.state \in {"order_linked", "order_cancelled"}
               /\ q.order # Nobody =>
                    /\ orders'[q.order].customer # Nobody /\ orders'[q.order].customer = q.customer
                    /\ q.state = "order_cancelled" <=> orders'[q.order].status = "cancelled"
    <3>1. plans[p].order # Nobody =>
            /\ plans[p].order \in Orders /\ orders[plans[p].order].customer # Nobody
            /\ orders[plans[p].order].customer = plans[p].customer
            /\ plans[p].state = "order_cancelled" <=> orders[plans[p].order].status = "cancelled"
      BY PlanFacts DEF StudioInv, LinkedPlansAgree, Exists
    <3>2. plans[p].order # Nobody <=> plans[p].state \in {"order_linked", "order_cancelled"}
      BY DEF StudioInv, LinkedPlansAgree
    <3> QED
      BY <1>3, <1>5, <2>1, <3>1, <3>2, StudioAssumption
  <2> QED
    BY <2>1 DEF LinkedPlansAgree, Exists
<1>11. ShootsHaveOrders'
  <2>1. ASSUME NEW s \in Slots, slots[s].type = "shoot"
        PROVE  orders'[slots[s].order].customer # Nobody /\ ShootSlots(slots, slots[s].order) = {s}
    BY <1>8, <2>1 DEF StudioInv, ShootsHaveOrders, SlotsOK, AnySlotRow, Exists
  <2> QED
    BY <1>0, <2>1 DEF ShootsHaveOrders, Exists, ShootSlots
<1> QED
  BY <1>0, <1>2, <1>4, <1>6, <1>7, <1>9, <1>10, <1>11, StudioFrames DEF StudioInv

-----------------------------------------------------------------------------
\* Requests about orders.

LEMMA OrderRow ==
  ASSUME NEW order, OrderLike(order), FactsAgree(order), NEW c \in Customers \cup {Nobody},
         NEW r, r = Over([customer |-> c], order)
  PROVE  OrderRowOK(r) /\ r.customer = c /\ r.status = order.status
<1>1. /\ DOMAIN r = {"customer"} \cup DOMAIN order /\ r.customer = c
      /\ \A x \in DOMAIN order \ {"customer"} : r[x] = order[x]
  BY DEF Over
<1>2. Columns \subseteq DOMAIN order \ {"customer"}
  BY TheColumns DEF OrderLike
<1>3. OrderLike(r)
  BY <1>1, <1>2 DEF OrderLike
<1>4. /\ r.status = order.status /\ r.shotAt = order.shotAt /\ r.deliveredAt = order.deliveredAt
      /\ r.due = order.due /\ r.owed = order.owed /\ r.balancePaid = order.balancePaid
  BY <1>1, <1>2, TheColumns
<1>5. FactsAgree(r)
  BY <1>4 DEF FactsAgree
<1> QED
  BY <1>1, <1>3, <1>4, <1>5 DEF OrderRowOK

LEMMA NoOrderRow == OrderRowOK(NoOrder) /\ NoOrder.customer = Nobody
<1>1. FactsAgree(BlankOrder)
  BY DEF FactsAgree, BlankOrder, statusReachedShot, statusReachedDelivered
<1> QED
  BY <1>1, BlankLike, OrderRow DEF NoOrder

LEMMA OneOrder ==
  ASSUME StudioInv, NEW o \in Orders, NEW r, OrderRowOK(r), orders' = [orders EXCEPT ![o] = r]
  PROVE  /\ OrdersOK' /\ orders'[o] = r /\ \A x \in Orders \ {o} : orders'[x] = orders[x]
BY DEF StudioInv, OrdersOK

LEMMA CreateOrderStep ==
  ASSUME StudioInv, NEW o \in Orders, NEW c \in Customers, NEW mode, NEW in, IsRequest(in),
         CreateOrder(o, c, mode, in)
  PROVE  StudioInv'
<1>1. PICK order \in ApplyCreateInput(in, mode) : orders' = [orders EXCEPT ![o] = Over([customer |-> c], order)]
  BY DEF CreateOrder
<1>2. PICK r : r = Over([customer |-> c], order)
  OBVIOUS
<1>3. OrderRowOK(r) /\ r.customer = c
  BY <1>2, OrderCreated, OrderRow
<1>4. OrdersOK' /\ orders'[o] = r /\ \A x \in Orders \ {o} : orders'[x] = orders[x]
  BY <1>1, <1>2, <1>3, OneOrder
<1>5. ~Exists(o) /\ customers[c].status \in Usable /\ UNCHANGED <<customers, slots, plans, referral, studioClock>>
  BY DEF CreateOrder, requireUsableCustomer, Usable
<1>6. NothingOnMerged'
  BY <1>3, <1>4, <1>5 DEF StudioInv, NothingOnMerged, Exists, Usable
<1>7. LinkedPlansAgree'
  <2>1. \A p \in Plans : plans[p].order # Nobody => plans[p].order \in Orders \ {o}
    BY <1>5, PlanFacts DEF StudioInv, LinkedPlansAgree
  <2> QED
    BY <1>4, <1>5, <2>1 DEF StudioInv, LinkedPlansAgree, Exists
<1>8. ShootsHaveOrders'
  <2>1. \A s \in Slots : slots[s].type = "shoot" => slots[s].order \in Orders \ {o}
    BY <1>5 DEF StudioInv, ShootsHaveOrders, SlotsOK, AnySlotRow
  <2> QED
    BY <1>4, <1>5, <2>1 DEF StudioInv, ShootsHaveOrders, Exists, ShootSlots
<1> QED
  BY <1>4, <1>5, <1>6, <1>7, <1>8, StudioFrames DEF StudioInv

\* The plans of an order that is cancelled or deleted.
LEMMA PlansOfOrder ==
  ASSUME StudioInv, NEW o \in Orders, NEW p \in Plans
  PROVE  /\ plans' = OnOrderCancelled(o) =>
              plans'[p] = IF plans[p].order = o THEN reduceOrderCancelled(plans[p], o) ELSE plans[p]
         /\ plans' = BeforeOrderDelete(o) =>
              plans'[p] = IF plans[p].order = o THEN reduceOrderDeleted(plans[p]) ELSE plans[p]
BY DEF OnOrderCancelled, BeforeOrderDelete, OfOrder

LEMMA UpdateOrderStep ==
  ASSUME StudioInv, NEW o \in Orders, NEW in, IsRequest(in), UpdateOrder(o, in)
  PROVE  StudioInv'
<1>0. Exists(o) /\ UNCHANGED <<customers, slots, referral, studioClock>>
  BY DEF UpdateOrder
<1>1. PICK r \in ApplyUpdateInput(orders[o], in, studioClock + 1) :
         /\ orders' = [orders EXCEPT ![o] = r]
         /\ plans' = IF r.status = "cancelled" /\ orders[o].status # "cancelled"
                     THEN OnOrderCancelled(o) ELSE plans
  BY DEF UpdateOrder
<1>2. OrderRowOK(orders[o]) /\ studioClock + 1 \in Nat
  BY StudioAssumption DEF StudioInv, OrdersOK, RestOK
<1>3. /\ OrderLike(r) /\ FactsAgree(r) /\ DOMAIN orders[o] \subseteq DOMAIN r
      /\ r.status = orders[o].status \/ <<orders[o].status, r.status>> \in allowedTransitions
      /\ \A x \in DOMAIN orders[o] \ Columns : x \notin DOMAIN in => r[x] = orders[o][x]
  BY <1>2, OrderUpdated DEF OrderRowOK
<1>4. "customer" \in DOMAIN orders[o] \ Columns /\ "customer" \notin DOMAIN in
  BY <1>2, TheColumns DEF OrderRowOK, IsRequest, Columns
<1>5. OrderRowOK(r) /\ r.customer = orders[o].customer
  BY <1>2, <1>3, <1>4 DEF OrderRowOK
<1>6. OrdersOK' /\ orders'[o] = r /\ \A x \in Orders \ {o} : orders'[x] = orders[x]
  BY <1>1, <1>5, OneOrder
<1>7. orders[o].status = "cancelled" => r.status = "cancelled"
  BY <1>3 DEF allowedTransitions, terminalStatus
<1>8. ASSUME NEW p \in Plans
      PROVE  /\ PlanOK(plans'[p]) /\ plans'[p].customer = plans[p].customer /\ plans'[p].order = plans[p].order
             /\ plans[p].order # o => plans'[p] = plans[p]
             /\ plans[p].order = o => /\ plans'[p].state \in {"order_linked", "order_cancelled"}
                                      /\ plans'[p].state = "order_cancelled" <=> r.status = "cancelled"
  <2>0. plans[p].order = o => /\ plans[p].state \in {"order_linked", "order_cancelled"}
                              /\ plans[p].state = "order_cancelled" <=> orders[o].status = "cancelled"
    BY StudioAssumption DEF StudioInv, LinkedPlansAgree
  <2>1. CASE r.status = "cancelled" /\ orders[o].status # "cancelled"
    <3>1. plans'[p] = IF plans[p].order = o THEN reduceOrderCancelled(plans[p], o) ELSE plans[p]
      BY <1>1, <2>1, PlansOfOrder
    <3>2. CASE plans[p].order = o
      BY <2>1, <3>1, <3>2, PlanFacts, CancelledFact
    <3>3. CASE plans[p].order # o
      BY <3>1, <3>3, PlanFacts
    <3> QED
      BY <3>2, <3>3
  <2>2. CASE ~(r.status = "cancelled" /\ orders[o].status # "cancelled")
    BY <1>1, <1>7, <2>0, <2>2, PlanFacts
  <2> QED
    BY <2>1, <2>2
<1>9. PlansOK'
  <2>1. plans' = [p \in Plans |-> plans'[p]]
    BY <1>1 DEF StudioInv, PlansOK, OnOrderCancelled, OfOrder
  <2> QED
    BY <1>8, <2>1 DEF PlansOK, PlanOK
<1>10. NothingOnMerged'
  BY <1>0, <1>5, <1>6, <1>8 DEF StudioInv, NothingOnMerged, Exists
<1>11. LinkedPlansAgree'
  <2>1. ASSUME NEW p \in Plans, NEW q, q = plans'[p]
        PROVE  /\ q.order # Nobody <=> q.state \in {"order_linked", "order_cancelled"}
               /\ q.order # Nobody =>
                    /\ orders'[q.order].customer # Nobody /\ orders'[q.order].customer = q.customer
                    /\ q.state = "order_cancelled" <=> orders'[q.order].status = "cancelled"
    <3>1. CASE plans[p].order = o
      BY <1>0, <1>5, <1>6, <1>8, <2>1, <3>1, StudioAssumption DEF StudioInv, LinkedPlansAgree, Exists
    <3>2. CASE plans[p].order # o
      BY <1>6, <1>8, <2>1, <3>2, PlanFacts DEF StudioInv, LinkedPlansAgree, Exists
    <3> QED
      BY <3>1, <3>2
  <2> QED
    BY <2>1 DEF LinkedPlansAgree, Exists
<1>12. ShootsHaveOrders'
  <2>1. \A s \in Slots : slots[s].type = "shoot" => slots[s].order \in Orders
    BY DEF StudioInv, SlotsOK, AnySlotRow
  <2> QED
    BY <1>0, <1>5, <1>6, <2>1 DEF StudioInv, ShootsHaveOrders, Exists, ShootSlots
<1> QED
  BY <1>0, <1>6, <1>9, <1>10, <1>11, <1>12, StudioFrames DEF StudioInv

LEMMA DeleteOrderStep ==
  ASSUME StudioInv, NEW o \in Orders, DeleteOrder(o)
  PROVE  StudioInv'
<1>0. /\ ShootSlots(slots, o) = {} /\ UNCHANGED <<customers, slots, referral, studioClock>>
      /\ plans' = BeforeOrderDelete(o) /\ orders' = [orders EXCEPT ![o] = NoOrder]
  BY DEF DeleteOrder
<1>1. OrdersOK' /\ orders'[o] = NoOrder /\ \A x \in Orders \ {o} : orders'[x] = orders[x]
  BY <1>0, NoOrderRow, OneOrder
<1>2. ASSUME NEW p \in Plans
      PROVE  /\ PlanOK(plans'[p]) /\ plans'[p].customer = plans[p].customer
             /\ plans[p].order # o => plans'[p] = plans[p]
             /\ plans[p].order = o => plans'[p].order = Nobody /\ plans'[p].state = "order_deleted"
  <2>1. plans'[p] = IF plans[p].order = o THEN reduceOrderDeleted(plans[p]) ELSE plans[p]
    BY <1>0, PlansOfOrder
  <2> QED
    BY <2>1, PlanFacts, DeletedFact
<1>3. PlansOK'
  <2>1. plans' = [p \in Plans |-> plans'[p]]
    BY <1>0 DEF BeforeOrderDelete, OfOrder
  <2> QED
    BY <1>2, <2>1 DEF PlansOK, PlanOK
<1>4. NothingOnMerged'
  BY <1>0, <1>1, <1>2, NoOrderRow DEF StudioInv, NothingOnMerged, Exists
<1>5. LinkedPlansAgree'
  <2>1. ASSUME NEW p \in Plans, NEW q, q = plans'[p]
        PROVE  /\ q.order # Nobody <=> q.state \in {"order_linked", "order_cancelled"}
               /\ q.order # Nobody =>
                    /\ orders'[q.order].customer # Nobody /\ orders'[q.order].customer = q.customer
                    /\ q.state = "order_cancelled" <=> orders'[q.order].status = "cancelled"
    <3>1. CASE plans[p].order = o
      BY <1>2, <2>1, <3>1
    <3>2. CASE plans[p].order # o
      BY <1>1, <1>2, <2>1, <3>2, PlanFacts DEF StudioInv, LinkedPlansAgree, Exists
    <3> QED
      BY <3>1, <3>2
  <2> QED
    BY <2>1 DEF LinkedPlansAgree, Exists
<1>6. ShootsHaveOrders'
  <2>1. \A s \in Slots : slots[s].type = "shoot" => slots[s].order \in Orders \ {o}
    BY <1>0 DEF StudioInv, ShootsHaveOrders, SlotsOK, AnySlotRow, ShootSlots
  <2> QED
    BY <1>0, <1>1, <2>1 DEF StudioInv, ShootsHaveOrders, Exists, ShootSlots
<1> QED
  BY <1>0, <1>1, <1>3, <1>4, <1>5, <1>6, StudioFrames DEF StudioInv

-----------------------------------------------------------------------------
\* Requests about slots.

LEMMA FactOfSlot ==
  ASSUME NEW sl \in [Slots -> AnySlotRow], NEW o
  PROVE  ShootSlotFact(sl, o) \in SlotFacts
<1>1. CASE ShootSlots(sl, o) = {}
  BY <1>1, SlotRecords DEF ShootSlotFact
<1>2. CASE ShootSlots(sl, o) # {}
  <2>1. PICK s : s = CHOOSE x \in ShootSlots(sl, o) : TRUE
    OBVIOUS
  <2>2. s \in Slots
    BY <1>2, <2>1 DEF ShootSlots
  <2>3. ShootSlotFact(sl, o) = [id |-> s, ends |-> sl[s].ends]
    BY <1>2, <2>1 DEF ShootSlotFact
  <2>4. sl[s] \in AnySlotRow
    BY <2>2
  <2>5. sl[s].ends \in Nat
    <3>1. PICK e : e = sl[s].ends
      OBVIOUS
    <3>2. e \in Ends \cup {0}
      BY <2>4, <3>1 DEF AnySlotRow
    <3>3. e \in Nat
      BY <3>2, StudioAssumption
    <3> QED
      BY <3>1, <3>3
  <2> QED
    BY <2>2, <2>3, <2>5 DEF SlotFacts
<1> QED
  BY <1>1, <1>2

\* One slot becomes a row that is free, or the only shoot of an order that exists.
LEMMA OneSlot ==
  ASSUME StudioInv, NEW s \in Slots, NEW row \in AnySlotRow, NEW os,
         NEW sl, sl = [slots EXCEPT ![s] = row],
         row.type = "shoot" => /\ row.order \in Orders /\ Exists(row.order)
                               /\ ShootSlots(slots, row.order) \ {s} = {},
         slots' = sl, plans' = ReprojectScheduleMutation(sl, os),
         UNCHANGED <<customers, orders, referral, studioClock>>
  PROVE  StudioInv'
<1>1. sl \in [Slots -> AnySlotRow] /\ \A x \in Slots : sl[x] = IF x = s THEN row ELSE slots[x]
  BY DEF StudioInv, SlotsOK
<1>2. SlotsOK'
  BY <1>1, StudioAssumption DEF StudioInv, SlotsOK
<1>3. ASSUME NEW p \in Plans
      PROVE  PlanOK(plans'[p]) /\ SamePlan(plans'[p], plans[p])
  <2>1. PICK slot : slot = ShootSlotFact(sl, plans[p].order)
    OBVIOUS
  <2>2. slot \in SlotFacts
    BY <1>1, <2>1, FactOfSlot
  <2>3. plans'[p] = reduceSchedule(plans[p], slot, studioClock) \/ plans'[p] = plans[p]
    BY <2>1 DEF ReprojectScheduleMutation
  <2>4. CASE plans'[p] = reduceSchedule(plans[p], slot, studioClock)
    BY <2>2, <2>4, PlanFacts, ScheduleFact
  <2>5. CASE plans'[p] = plans[p]
    BY <2>5, PlanFacts DEF SamePlan, SameLinks
  <2> QED
    BY <2>3, <2>4, <2>5
<1>4. PlansOK'
  <2>1. plans' = [p \in Plans |-> plans'[p]]
    BY DEF ReprojectScheduleMutation
  <2> QED
    BY <1>3, <2>1 DEF PlansOK, PlanOK
<1>5. NothingOnMerged'
  <2>1. \A p \in Plans : plans'[p].customer = plans[p].customer
    BY <1>3 DEF SamePlan, SameLinks
  <2> QED
    BY <2>1 DEF StudioInv, NothingOnMerged, Exists
<1>6. LinkedPlansAgree'
  <2>1. ASSUME NEW p \in Plans, NEW q, q = plans'[p]
        PROVE  /\ q.order # Nobody <=> q.state \in {"order_linked", "order_cancelled"}
               /\ q.order # Nobody =>
                    /\ orders[q.order].customer # Nobody /\ orders[q.order].customer = q.customer
                    /\ q.state = "order_cancelled" <=> orders[q.order].status = "cancelled"
    <3>1. q.order = plans[p].order /\ q.customer = plans[p].customer /\ q.state = plans[p].state
      BY <1>3, <2>1 DEF SamePlan, SameLinks
    <3> QED
      BY <3>1 DEF StudioInv, LinkedPlansAgree, Exists
  <2> QED
    BY <2>1 DEF LinkedPlansAgree, Exists
<1>7. ShootsHaveOrders'
  <2>1. ASSUME NEW x \in Slots, sl[x].type = "shoot"
        PROVE  orders[sl[x].order].customer # Nobody /\ ShootSlots(sl, sl[x].order) = {x}
    <3>1. CASE x = s
      BY <1>1, <2>1, <3>1 DEF ShootSlots, Exists
    <3>2. CASE x # s
      <4>1. sl[x] = slots[x] /\ orders[sl[x].order].customer # Nobody /\ ShootSlots(slots, sl[x].order) = {x}
        BY <1>1, <2>1, <3>2 DEF StudioInv, ShootsHaveOrders, Exists
      <4>2. x \in ShootSlots(slots, slots[x].order)
        BY <2>1, <4>1 DEF ShootSlots
      <4>3. ~(row.type = "shoot" /\ row.order = slots[x].order)
        BY <3>2, <4>2
      <4> QED
        BY <1>1, <3>2, <4>1, <4>3 DEF ShootSlots
    <3> QED
      BY <3>1, <3>2
  <2> QED
    BY <2>1 DEF ShootsHaveOrders, Exists
<1> QED
  BY <1>2, <1>4, <1>5, <1>6, <1>7, StudioFrames DEF StudioInv

\* Booking or changing a slot checks what OneSlot asks for.
LEMMA BookedSlot ==
  ASSUME StudioInv, NEW s \in Slots, NEW row \in SlotRows, ValidateSlot(row),
         row.type = "shoot" => validateShootReference(row) /\ ~findOrderConflict(s, row)
  PROVE  /\ row \in AnySlotRow
         /\ row.type = "shoot" => /\ row.order \in Orders /\ Exists(row.order)
                                  /\ ShootSlots(slots, row.order) \ {s} = {}
BY DEF SlotRows, AnySlotRow, ValidateSlot, validateShootReference, findOrderConflict

LEMMA SlotStep ==
  ASSUME StudioInv, NEW s \in Slots, SlotRequest(s)
  PROVE  StudioInv'
<1>1. ASSUME NEW row \in SlotRows, CreateSlot(s, row) PROVE StudioInv'
  <2>1. /\ row \in AnySlotRow
        /\ row.type = "shoot" => /\ row.order \in Orders /\ Exists(row.order)
                                 /\ ShootSlots(slots, row.order) \ {s} = {}
    BY <1>1, BookedSlot DEF CreateSlot
  <2>2. PICK sl : sl = [slots EXCEPT ![s] = row]
    OBVIOUS
  <2>3. /\ slots' = sl /\ plans' = ReprojectScheduleMutation(sl, {row.order})
        /\ UNCHANGED <<customers, orders, referral, studioClock>>
    BY <1>1, <2>2 DEF CreateSlot
  <2> QED
    BY <2>1, <2>2, <2>3, OneSlot
<1>2. ASSUME NEW row \in SlotRows, UpdateSlot(s, row) PROVE StudioInv'
  <2>1. /\ row \in AnySlotRow
        /\ row.type = "shoot" => /\ row.order \in Orders /\ Exists(row.order)
                                 /\ ShootSlots(slots, row.order) \ {s} = {}
    BY <1>2, BookedSlot DEF UpdateSlot
  <2>2. PICK sl : sl = [slots EXCEPT ![s] = row]
    OBVIOUS
  <2>3. /\ slots' = sl /\ plans' = ReprojectScheduleMutation(sl, {slots[s].order, row.order})
        /\ UNCHANGED <<customers, orders, referral, studioClock>>
    BY <1>2, <2>2 DEF UpdateSlot
  <2> QED
    BY <2>1, <2>2, <2>3, OneSlot
<1>3. ASSUME NEW ends \in Ends, ApplyEnd(s, ends) PROVE StudioInv'
  <2>1. PICK row : row = [slots[s] EXCEPT !.ends = ends]
    OBVIOUS
  <2>2. row \in AnySlotRow /\ row.type = "shoot" /\ row.order = slots[s].order
    BY <1>3, <2>1 DEF ApplyEnd, StudioInv, SlotsOK, AnySlotRow
  <2>3. row.order \in Orders /\ Exists(row.order) /\ ShootSlots(slots, row.order) \ {s} = {}
    BY <1>3, <2>2 DEF ApplyEnd, StudioInv, SlotsOK, AnySlotRow, ShootsHaveOrders
  <2>4. PICK sl : sl = [slots EXCEPT ![s] = row]
    OBVIOUS
  <2>5. /\ slots' = sl /\ plans' = ReprojectScheduleMutation(sl, {slots[s].order})
        /\ UNCHANGED <<customers, orders, referral, studioClock>>
    BY <1>3, <2>1, <2>4 DEF ApplyEnd
  <2> QED
    BY <2>2, <2>3, <2>4, <2>5, OneSlot
<1>4. ASSUME DeleteSlot(s) PROVE StudioInv'
  <2>1. NoSlotRow \in AnySlotRow /\ NoSlotRow.type # "shoot"
    BY DEF NoSlotRow, AnySlotRow
  <2>2. PICK sl : sl = [slots EXCEPT ![s] = NoSlotRow]
    OBVIOUS
  <2>3. /\ slots' = sl /\ plans' = ReprojectScheduleMutation(sl, {slots[s].order})
        /\ UNCHANGED <<customers, orders, referral, studioClock>>
    BY <1>4, <2>2 DEF DeleteSlot
  <2> QED
    BY <2>1, <2>2, <2>3, OneSlot
<1> QED
  BY <1>1, <1>2, <1>3, <1>4 DEF SlotRequest

-----------------------------------------------------------------------------
\* Requests about plans.

LEMMA PlanStep ==
  ASSUME StudioInv, NEW p \in Plans, PlanRequest(p)
  PROVE  StudioInv'
<1>0. PlanOK(plans[p]) /\ studioClock \in Nat
  BY PlanFacts
<1>1. ASSUME NEW c \in Customers, LinkCustomer(p, c) PROVE StudioInv'
  <2>1. PICK q \in reduceLinkCustomer(plans[p], c, customers[c].status) : plans' = [plans EXCEPT ![p] = q]
    BY <1>1 DEF LinkCustomer, ApplyCommand
  <2>2. customers[c].status # "none" /\ UNCHANGED <<customers, orders, slots, referral, studioClock>>
    BY <1>1 DEF LinkCustomer, ApplyCommand
  <2>3. /\ PlanOK(q) /\ customers[c].status # "merged"
        /\ \/ SameLinks(q, plans[p])
           \/ /\ plans[p].customer = Nobody /\ q.customer = c
              /\ q.order = plans[p].order /\ q.state = "customer_linked"
    BY <1>0, <2>1, LinkCommands
  <2>4. customers[c].status \in Usable
    BY <2>2, <2>3 DEF StudioInv, CustomersOK, CustomerRows, CustomerStatuses, Usable
  <2>5. plans[p].customer = Nobody => plans[p].order = Nobody
    BY StudioAssumption, PlanFacts DEF StudioInv, LinkedPlansAgree, Exists
  <2> QED
    BY <2>1, <2>2, <2>3, <2>4, <2>5, OnePlan DEF Relinks
<1>2. ASSUME NEW o \in Orders, LinkOrder(p, o) PROVE StudioInv'
  <2>1. PICK slot : slot = ShootSlotFact(slots, o)
    OBVIOUS
  <2>2. slot \in SlotFacts
    BY <2>1, FactOfSlot DEF StudioInv, SlotsOK
  <2>3. PICK q \in reduceLinkOrder(plans[p], o, orders[o], customers[orders[o].customer].status,
                                   slot, studioClock) : plans' = [plans EXCEPT ![p] = q]
    BY <1>2, <2>1 DEF LinkOrder, ApplyCommand
  <2>4. Exists(o) /\ UNCHANGED <<customers, orders, slots, referral, studioClock>>
    BY <1>2 DEF LinkOrder, ApplyCommand
  <2>5. orders[o].customer \in Customers
    BY <2>4 DEF StudioInv, OrdersOK, OrderRowOK, Exists
  <2>6. /\ PlanOK(q)
        /\ \/ SameLinks(q, plans[p])
           \/ /\ q.customer = orders[o].customer /\ q.order = o
              /\ q.state = IF orders[o].status = "cancelled" THEN "order_cancelled" ELSE "order_linked"
    BY <1>0, <2>2, <2>3, <2>5, LinkOrderCommand
  <2> QED
    BY <2>3, <2>4, <2>6, OnePlan DEF Relinks
<1>3. CASE UnlinkOrder(p) \/ UnlinkCustomer(p)
  <2>1. PICK q \in reduceUnlinkOrder(plans[p]) \cup reduceUnlinkCustomer(plans[p]) :
           plans' = [plans EXCEPT ![p] = q]
    BY <1>3 DEF UnlinkOrder, UnlinkCustomer, ApplyCommand
  <2>2. UNCHANGED <<customers, orders, slots, referral, studioClock>>
    BY <1>3 DEF UnlinkOrder, UnlinkCustomer, ApplyCommand
  <2> QED
    BY <1>0, <2>1, <2>2, UnlinkCommands, OnePlan
<1>4. CASE Adopt(p) \/ SetManual(p) \/ ClearWindow(p)
  <2>1. PICK q \in reduceAdopt(plans[p], studioClock) \cup reduceSetManual(plans[p], studioClock)
                   \cup reduceClearWindow(plans[p], studioClock) : plans' = [plans EXCEPT ![p] = q]
    BY <1>4 DEF Adopt, SetManual, ClearWindow, ApplyCommand
  <2>2. UNCHANGED <<customers, orders, slots, referral, studioClock>>
    BY <1>4 DEF Adopt, SetManual, ClearWindow, ApplyCommand
  <2> QED
    BY <1>0, <2>1, <2>2, WindowCommands, OnePlan DEF Relinks
<1>5. CASE Complete(p) \/ Reopen(p) \/ Archive(p)
  <2>1. PICK to \in LinkedStatuses : /\ plans' = [plans EXCEPT ![p].status = to]
                                   /\ UNCHANGED <<customers, orders, slots, referral, studioClock>>
    BY <1>5 DEF Complete, Reopen, Archive, TransitionPlan, LinkedStatuses
  <2>2. PICK q : q = [plans[p] EXCEPT !.status = to]
    OBVIOUS
  <2>3. PlanOK(q) /\ SameLinks(q, plans[p])
    BY <1>0, <2>2 DEF PlanOK, PlanRecords, Disciplined, SameLinks
  <2>4. plans' = [plans EXCEPT ![p] = q]
    BY <2>1, <2>2
  <2> QED
    BY <2>1, <2>3, <2>4, OnePlan DEF Relinks
<1> QED
  BY <1>1, <1>2, <1>3, <1>4, <1>5 DEF PlanRequest

-----------------------------------------------------------------------------
LEMMA StudioStart == StudioInit => StudioInv
<1> SUFFICES ASSUME StudioInit PROVE StudioInv
  OBVIOUS
<1>1. CustomersOK /\ RestOK
  BY StudioAssumption DEF StudioInit, CustomersOK, CustomerRows, CustomerStatuses, RestOK, Referrals, NoReferral
<1>2. OrdersOK
  BY NoOrderRow DEF StudioInit, OrdersOK
<1>3. SlotsOK
  BY DEF StudioInit, SlotsOK, AnySlotRow, NoSlotRow
<1>4. PICK q : q = [NewPlan EXCEPT !.status = "in_progress"]
  OBVIOUS
<1>5. /\ PlanOK(q) /\ q.order = Nobody /\ q.customer = Nobody /\ q.state = "independent"
  BY <1>4, SlotRecords DEF NewPlan, PlanOK, PlanRecords, LinkedStatuses, ConnectionStates, ProjectionStates,
     Disciplined, NoWindow
<1>6. \A p \in Plans : plans[p] = q
  BY <1>4 DEF StudioInit
<1>7. PlansOK
  BY <1>4, <1>5 DEF StudioInit, PlansOK, PlanOK
<1>8. NothingOnMerged /\ LinkedPlansAgree
  BY <1>5, <1>6, NoOrderRow DEF StudioInit, NothingOnMerged, LinkedPlansAgree, Exists
<1>9. ShootsHaveOrders
  BY DEF StudioInit, ShootsHaveOrders, NoSlotRow
<1> QED
  BY <1>1, <1>2, <1>3, <1>7, <1>8, <1>9 DEF StudioInv

LEMMA StudioStep == StudioInv /\ [StudioNext]_studioVars => StudioInv'
<1> SUFFICES ASSUME StudioInv, [StudioNext]_studioVars PROVE StudioInv'
  OBVIOUS
<1>1. ASSUME NEW c \in Customers, CustomerRequest(c) PROVE StudioInv'
  BY <1>1, CreateStep, UpdateStep, ReferralStep, MergeStep DEF CustomerRequest
<1>2. CASE WriteReferrer
  BY <1>2, WriteReferrerStep
<1>3. ASSUME NEW o \in Orders, OrderRequest(o) PROVE StudioInv'
  BY <1>3, CreateOrderStep, UpdateOrderStep, DeleteOrderStep, StudioAssumption DEF OrderRequest
<1>4. ASSUME NEW s \in Slots, SlotRequest(s) PROVE StudioInv'
  BY <1>4, SlotStep
<1>5. ASSUME NEW p \in Plans, PlanRequest(p) PROVE StudioInv'
  BY <1>5, PlanStep
<1>6. CASE StudioTick
  <2>1. RestOK'
    BY <1>6, StudioAssumption DEF StudioTick, StudioInv, RestOK
  <2> QED
    BY <1>6, <2>1, StudioFrames DEF StudioTick, StudioInv
<1>7. CASE UNCHANGED studioVars
  BY <1>7, StudioFrames DEF studioVars, StudioInv
<1> QED
  BY <1>1, <1>2, <1>3, <1>4, <1>5, <1>6, <1>7 DEF StudioNext

\* Nothing belongs to a customer who was merged away, a linked plan has the customer and
\* the cancellation of its order, and a shoot is the only one of an order that exists
\* (customer/repository.go Merge, crm/reducer.go, schedule/repository.go).
THEOREM ConnectionsStayTrue == StudioSpec => []ConnectionsAgree
<1>1. StudioInv => ConnectionsAgree
  BY DEF StudioInv, ConnectionsAgree
<1> QED
  BY <1>1, StudioStart, StudioStep, PTL DEF StudioSpec

-----------------------------------------------------------------------------
(***************************************************************************)
(* What a change of another domain may do to a plan's window.              *)
(***************************************************************************)

\* A request about a plan leaves customers, orders and slots alone.
LEMMA PlanRequestsStayHome ==
  ASSUME NEW p \in Plans, PlanRequest(p)
  PROVE  UNCHANGED OtherDomains
BY DEF PlanRequest, LinkCustomer, LinkOrder, UnlinkOrder, UnlinkCustomer, Adopt, SetManual, ClearWindow,
   ApplyCommand, Complete, Reopen, Archive, TransitionPlan, OtherDomains

\* How a plan follows one step of the other domains.
FollowsOrder(q, p) ==
  \/ q = p /\ UNCHANGED slots
  \/ /\ UNCHANGED slots
     /\ \/ \E target \in Customers : q = reduceCustomerMerged(p, target)
        \/ p.order \in Orders /\ p.state # "order_cancelled" /\ q = reduceOrderCancelled(p, p.order)
        \/ p.order \in Orders /\ q = reduceOrderDeleted(p)
FollowsSlot(q, p) ==
  \/ p.order # Nobody /\ q = reduceSchedule(p, ShootSlotFact(slots', p.order), studioClock)
  \/ q = p /\ (p.order # Nobody => ShootSlots(slots', p.order) = ShootSlots(slots, p.order)
                                   /\ ShootSlotFact(slots', p.order) = ShootSlotFact(slots, p.order))

LEMMA OrdersFollowed ==
  ASSUME StudioInv, NEW p \in Plans,
         \/ \E c \in Customers : CustomerRequest(c)
         \/ WriteReferrer
         \/ \E o \in Orders : OrderRequest(o)
  PROVE  FollowsOrder(plans'[p], plans[p])
<1>1. ASSUME NEW source \in Customers, NEW target \in Customers, MergeCustomers(source, target)
      PROVE  FollowsOrder(plans'[p], plans[p])
  BY <1>1 DEF MergeCustomers, MigratePlanCustomers, FollowsOrder
<1>2. ASSUME NEW c \in Customers, CustomerRequest(c)
      PROVE  FollowsOrder(plans'[p], plans[p])
  BY <1>1, <1>2 DEF CustomerRequest, Create, Update, requireActiveReferrer, FollowsOrder
<1>3. CASE WriteReferrer
  BY <1>3 DEF WriteReferrer, FollowsOrder
<1>4. ASSUME NEW o \in Orders, NEW in, UpdateOrder(o, in)
      PROVE  FollowsOrder(plans'[p], plans[p])
  <2>1. UNCHANGED slots /\ (plans' = plans \/ (orders[o].status # "cancelled" /\ plans' = OnOrderCancelled(o)))
    <3>1. PICK order : plans' = IF order.status = "cancelled" /\ orders[o].status # "cancelled"
                                THEN OnOrderCancelled(o) ELSE plans
      BY <1>4 DEF UpdateOrder
    <3> QED
      BY <1>4, <3>1 DEF UpdateOrder
  <2>2. plans' = OnOrderCancelled(o) =>
          plans'[p] = IF plans[p].order = o THEN reduceOrderCancelled(plans[p], o) ELSE plans[p]
    BY PlansOfOrder
  <2>3. plans[p].order = o => (plans[p].state = "order_cancelled" <=> orders[o].status = "cancelled")
    BY StudioAssumption DEF StudioInv, LinkedPlansAgree
  <2> QED
    BY <2>1, <2>2, <2>3 DEF FollowsOrder
<1>5. ASSUME NEW o \in Orders, DeleteOrder(o)
      PROVE  FollowsOrder(plans'[p], plans[p])
  <2>1. UNCHANGED slots /\ plans' = BeforeOrderDelete(o)
    BY <1>5 DEF DeleteOrder
  <2>2. plans'[p] = IF plans[p].order = o THEN reduceOrderDeleted(plans[p]) ELSE plans[p]
    BY <2>1, PlansOfOrder
  <2> QED
    BY <2>1, <2>2 DEF FollowsOrder
<1>6. ASSUME NEW o \in Orders, NEW c, NEW mode, NEW in, CreateOrder(o, c, mode, in)
      PROVE  FollowsOrder(plans'[p], plans[p])
  BY <1>6 DEF CreateOrder, FollowsOrder
<1> QED
  BY <1>2, <1>3, <1>4, <1>5, <1>6 DEF OrderRequest

\* A slot that changes is not the shoot of an order it neither had nor has.
LEMMA OtherShoots ==
  ASSUME NEW sl, NEW s \in Slots, NEW row, NEW o, DOMAIN slots = Slots, sl = [slots EXCEPT ![s] = row],
         slots[s].order # o, row.order # o
  PROVE  ShootSlots(sl, o) = ShootSlots(slots, o) /\ ShootSlotFact(sl, o) = ShootSlotFact(slots, o)
<1>1. \A x \in Slots : sl[x] = IF x = s THEN row ELSE slots[x]
  OBVIOUS
<1>2. ShootSlots(sl, o) = ShootSlots(slots, o)
  BY <1>1 DEF ShootSlots
<1>3. CASE ShootSlots(slots, o) = {}
  BY <1>2, <1>3 DEF ShootSlotFact
<1>4. CASE ShootSlots(slots, o) # {}
  <2>1. PICK x : x = CHOOSE y \in ShootSlots(slots, o) : TRUE
    OBVIOUS
  <2>2. x \in ShootSlots(slots, o)
    BY <1>4, <2>1
  <2>3. sl[x] = slots[x]
    BY <1>1, <2>2 DEF ShootSlots
  <2> QED
    BY <1>2, <1>4, <2>1, <2>3 DEF ShootSlotFact
<1> QED
  BY <1>2, <1>3, <1>4

LEMMA SlotsFollowed ==
  ASSUME StudioInv, NEW p \in Plans, NEW s \in Slots, SlotRequest(s)
  PROVE  FollowsSlot(plans'[p], plans[p])
<1>1. PICK row, os : /\ slots' = [slots EXCEPT ![s] = row] /\ plans' = ReprojectScheduleMutation(slots', os)
                     /\ os \cup {Nobody} = {slots[s].order, row.order, Nobody}
  <2>1. ASSUME NEW row \in SlotRows, CreateSlot(s, row)
        PROVE  /\ slots' = [slots EXCEPT ![s] = row] /\ plans' = ReprojectScheduleMutation(slots', {row.order})
               /\ slots[s].order = Nobody
    BY <2>1 DEF CreateSlot, NoSlotRow
  <2>2. ASSUME NEW row \in SlotRows, UpdateSlot(s, row)
        PROVE  /\ slots' = [slots EXCEPT ![s] = row]
               /\ plans' = ReprojectScheduleMutation(slots', {slots[s].order, row.order})
    BY <2>2 DEF UpdateSlot
  <2>3. ASSUME NEW ends \in Ends, ApplyEnd(s, ends)
        PROVE  \E row : /\ slots' = [slots EXCEPT ![s] = row] /\ row.order = slots[s].order
                        /\ plans' = ReprojectScheduleMutation(slots', {slots[s].order})
    <3>1. PICK row : row = [slots[s] EXCEPT !.ends = ends]
      OBVIOUS
    <3>2. row.order = slots[s].order
      BY <3>1 DEF StudioInv, SlotsOK, AnySlotRow
    <3>3. slots' = [slots EXCEPT ![s] = row] /\ plans' = ReprojectScheduleMutation(slots', {slots[s].order})
      BY <2>3, <3>1 DEF ApplyEnd
    <3> QED
      BY <3>2, <3>3
  <2>4. ASSUME DeleteSlot(s)
        PROVE  /\ slots' = [slots EXCEPT ![s] = NoSlotRow] /\ NoSlotRow.order = Nobody
               /\ plans' = ReprojectScheduleMutation(slots', {slots[s].order})
    BY <2>4 DEF DeleteSlot, NoSlotRow
  <2>5. CASE \E row \in SlotRows : CreateSlot(s, row)
    <3>1. PICK row \in SlotRows : CreateSlot(s, row)
      BY <2>5
    <3>2. {row.order} \cup {Nobody} = {slots[s].order, row.order, Nobody}
      BY <2>1, <3>1
    <3> QED
      BY <2>1, <3>1, <3>2
  <2>6. CASE \E row \in SlotRows : UpdateSlot(s, row)
    <3>1. PICK row \in SlotRows : UpdateSlot(s, row)
      BY <2>6
    <3>2. {slots[s].order, row.order} \cup {Nobody} = {slots[s].order, row.order, Nobody}
      OBVIOUS
    <3> QED
      BY <2>2, <3>1, <3>2
  <2>7. CASE \E ends \in Ends : ApplyEnd(s, ends)
    <3>1. PICK row : /\ slots' = [slots EXCEPT ![s] = row] /\ row.order = slots[s].order
                     /\ plans' = ReprojectScheduleMutation(slots', {slots[s].order})
      BY <2>3, <2>7
    <3>2. {slots[s].order} \cup {Nobody} = {slots[s].order, row.order, Nobody}
      BY <3>1
    <3> QED
      BY <3>1, <3>2
  <2>8. CASE DeleteSlot(s)
    <3>1. {slots[s].order} \cup {Nobody} = {slots[s].order, NoSlotRow.order, Nobody}
      BY <2>4, <2>8
    <3> QED
      BY <2>4, <2>8, <3>1
  <2> QED
    BY <2>5, <2>6, <2>7, <2>8 DEF SlotRequest
<1>2. CASE plans[p].order \in os \ {Nobody}
  BY <1>1, <1>2 DEF ReprojectScheduleMutation, FollowsSlot
<1>3. CASE plans[p].order = Nobody
  BY <1>1, <1>3 DEF ReprojectScheduleMutation, FollowsSlot
<1>4. CASE plans[p].order \notin os \cup {Nobody}
  <2>1. plans'[p] = plans[p]
    BY <1>1, <1>4 DEF ReprojectScheduleMutation
  <2>2. slots[s].order # plans[p].order /\ row.order # plans[p].order /\ DOMAIN slots = Slots
    BY <1>1, <1>4 DEF StudioInv, SlotsOK
  <2>3. /\ ShootSlots(slots', plans[p].order) = ShootSlots(slots, plans[p].order)
        /\ ShootSlotFact(slots', plans[p].order) = ShootSlotFact(slots, plans[p].order)
    BY <1>1, <2>2, OtherShoots
  <2> QED
    BY <2>1, <2>3 DEF FollowsSlot
<1> QED
  BY <1>2, <1>3, <1>4

LEMMA PlansFollow ==
  ASSUME StudioInv, [StudioNext]_studioVars, OtherDomains' # OtherDomains, NEW p \in Plans
  PROVE  FollowsOrder(plans'[p], plans[p]) \/ (FollowsSlot(plans'[p], plans[p]) /\ SlotsOK')
<1>1. ~(UNCHANGED studioVars) /\ ~StudioTick /\ \A q \in Plans : ~PlanRequest(q)
  BY PlanRequestsStayHome DEF studioVars, StudioTick, OtherDomains
<1>2. SlotsOK'
  BY StudioStep DEF StudioInv
<1> QED
  BY <1>1, <1>2, OrdersFollowed, SlotsFollowed DEF StudioNext

LEMMA WindowStands ==
  ASSUME StudioInv, NEW p \in Plans,
         FollowsOrder(plans'[p], plans[p]) \/ (FollowsSlot(plans'[p], plans[p]) /\ SlotsOK')
  PROVE  /\ plans[p].window = Manual => plans'[p].window = Manual
         /\ plans[p].window = NoWindow /\ plans[p].suppressed => plans'[p].window = NoWindow
<1>0. PlanOK(plans[p]) /\ studioClock \in Nat
  BY PlanFacts
<1>1. CASE FollowsOrder(plans'[p], plans[p])
  BY <1>0, <1>1, MergedFact, CancelledFact, DeletedFact DEF FollowsOrder
<1>2. CASE FollowsSlot(plans'[p], plans[p]) /\ SlotsOK'
  <2>1. ShootSlotFact(slots', plans[p].order) \in SlotFacts
    BY <1>2, FactOfSlot DEF SlotsOK
  <2> QED
    BY <1>0, <1>2, <2>1, ScheduleFact DEF FollowsSlot
<1> QED
  BY <1>1, <1>2

LEMMA CopyStands ==
  ASSUME StudioInv, NEW p \in Plans, plans[p].status \in activeLifecycle, CopyIsCurrent(plans[p], slots),
         FollowsOrder(plans'[p], plans[p]) \/ (FollowsSlot(plans'[p], plans[p]) /\ SlotsOK')
  PROVE  CopyIsCurrent(plans'[p], slots') \/ plans'[p].projection = "inactive_past"
<1>0. PlanOK(plans[p]) /\ studioClock \in Nat
  BY PlanFacts
<1>1. CASE FollowsOrder(plans'[p], plans[p])
  <2>1. slots' = slots
    BY <1>1 DEF FollowsOrder
  <2>2. CASE plans'[p] = plans[p]
    BY <2>1, <2>2
  <2>3. ASSUME NEW target \in Customers, plans'[p] = reduceCustomerMerged(plans[p], target)
        PROVE  CopyIsCurrent(plans'[p], slots')
    BY <1>0, <2>1, <2>3, MergedFact DEF CopyIsCurrent
  <2>4. CASE /\ plans[p].order \in Orders /\ plans[p].state # "order_cancelled"
             /\ plans'[p] = reduceOrderCancelled(plans[p], plans[p].order)
    BY <1>0, <2>4, CancelledFact DEF CopyIsCurrent
  <2>5. CASE plans[p].order \in Orders /\ plans'[p] = reduceOrderDeleted(plans[p])
    BY <1>0, <2>5, DeletedFact DEF CopyIsCurrent
  <2> QED
    BY <1>1, <2>2, <2>3, <2>4, <2>5 DEF FollowsOrder
<1>2. CASE FollowsSlot(plans'[p], plans[p]) /\ SlotsOK'
  <2>1. PICK slot : slot = ShootSlotFact(slots', plans[p].order)
    OBVIOUS
  <2>2. slot \in SlotFacts
    BY <1>2, <2>1, FactOfSlot DEF SlotsOK
  <2>3. CASE plans[p].order # Nobody /\ plans'[p] = reduceSchedule(plans[p], slot, studioClock)
    <3>1. plans[p].window.source = "slot" => plans[p].state = "order_linked"
      BY DEF CopyIsCurrent
    <3>2. /\ SamePlan(plans'[p], plans[p])
          /\ plans[p].state = "order_linked" /\ plans'[p].window.source = "slot"
               => plans'[p].window.slot = slot \/ plans'[p].projection = "inactive_past"
          /\ plans[p].state # "order_linked" /\ plans[p].window.source # "slot"
               => plans'[p].window.source # "slot"
      BY <1>0, <2>2, <2>3, ScheduleFact
    <3> QED
      BY <2>1, <3>1, <3>2 DEF CopyIsCurrent, SamePlan, SameLinks
  <2>4. CASE plans'[p] = plans[p] /\ plans[p].order # Nobody /\ slot = ShootSlotFact(slots, plans[p].order)
    BY <2>1, <2>4 DEF CopyIsCurrent
  <2>5. CASE plans'[p] = plans[p] /\ plans[p].order = Nobody
    <3>1. plans[p].state # "order_linked"
      BY <2>5 DEF StudioInv, LinkedPlansAgree
    <3> QED
      BY <2>5, <3>1 DEF CopyIsCurrent
  <2> QED
    BY <1>2, <2>1, <2>3, <2>4, <2>5 DEF FollowsSlot
<1> QED
  BY <1>1, <1>2

\* What the user decided about the window stands until the user decides again, whatever
\* happens to customers, orders and slots (crm/reducer.go reprojectLinkedOrder,
\* deactivateProjection).
THEOREM WindowsStayTheUsers == StudioSpec => UserDecidesTheWindow
<1>1. StudioInv /\ [StudioNext]_studioVars /\ OtherDomains' # OtherDomains =>
        \A p \in Plans :
          /\ plans[p].window = Manual => plans'[p].window = Manual
          /\ plans[p].window = NoWindow /\ plans[p].suppressed => plans'[p].window = NoWindow
  BY PlansFollow, WindowStands
<1> QED
  BY <1>1, StudioStart, StudioStep, PTL DEF StudioSpec, UserDecidesTheWindow

\* The window of a plan that copies its order's shoot stays a true copy, or goes, unless
\* the shoot is moved into the past (crm/reducer.go, crm/coordinator.go
\* ReprojectScheduleMutation).
THEOREM CopiesFollowTheShoot == StudioSpec => WindowFollowsShoot
<1>1. StudioInv /\ [StudioNext]_studioVars /\ OtherDomains' # OtherDomains =>
        \A p \in Plans :
          /\ plans[p].status \in activeLifecycle
          /\ CopyIsCurrent(plans[p], slots)
          => CopyIsCurrent(plans'[p], slots') \/ plans'[p].projection = "inactive_past"
  BY PlansFollow, CopyStands
<1> QED
  BY <1>1, StudioStart, StudioStep, PTL DEF StudioSpec, WindowFollowsShoot

-----------------------------------------------------------------------------
(***************************************************************************)
(* Media.  What a collector has claimed nothing holds again, and what the  *)
(* sweep takes for an orphan was read after every commit that could own it.*)
(***************************************************************************)
Assets     == [state : AssetStates, revision : Nat, created : Nat, eligible : Nat]
Uploading  == [pc : {"idle", "original", "display", "insert", "done", "cleaning", "failed"},
               created : SUBSET Renditions]
Collecting == [pc : {"idle", "claimed", "removed"}, revision : Nat, left : SUBSET Renditions]
Sweeping   == [pc : {"idle", "expected", "listed"}, now : Nat, expected : {{}, Renditions},
               listed : SUBSET Renditions]

AssetOK     == mediaAsset \in Assets
ObjectsOK   == objects \in [Renditions -> Nat] /\ observed \in [Renditions -> Nat]
HoldsOK     == /\ bindings \subseteq Holders /\ pins \in [Readers -> Nat]
               /\ leases \subseteq [binding : Holders, expires : Nat]
UploadsOK   == upload \in [Uploads -> Uploading]
ClaimsOK    == collector \in [Collectors -> Collecting]
SweepOK     == sweep \in Sweeping
MediaTypes  == /\ AssetOK /\ ObjectsOK /\ HoldsOK /\ UploadsOK /\ ClaimsOK /\ SweepOK
               /\ mediaClock \in Times

\* An upload that has not inserted its row is the only one of the asset, and alone.
UploadersFindNothing ==
  \A u \in Uploads : upload[u].pc \in {"original", "display", "insert"} =>
                       uploader = u /\ mediaAsset.state = "none"

\* A claimed asset never comes back.
ClaimsAreFinal ==
  \A g \in Collectors : collector[g].pc # "idle" => mediaAsset.state \in {"gc_pending", "deleted"}

\* The sweep expects nothing of an asset only while it owns no object, or because every
\* object was observed and its grace is not over.
Vacant == mediaAsset.state \in {"none", "deleted"}

ExpectsRightly ==
  sweep.pc = "expected" /\ sweep.expected = {} =>
    Vacant \/ \A x \in Renditions : observed[x] # Absent /\ sweep.now <= observed[x]

\* A listed object without a row was observed: no upload can insert a row for it now.
OrphansAreUnowned ==
  sweep.pc = "listed" =>
    \A x \in sweep.listed : \/ mediaAsset.state = "deleted"
                            \/ mediaAsset.state = "none" /\ observed[x] # Absent

SweepIsOld == sweep.pc = "expected" => sweep.now <= mediaClock

NothingOnNone == mediaAsset.state = "none" => bindings = {}

MediaInv == /\ MediaTypes /\ UploadersFindNothing /\ ClaimsAreFinal
            /\ ExpectsRightly /\ OrphansAreUnowned /\ SweepIsOld /\ NothingOnNone /\ HeldIsKept

LEMMA MediaNumbers ==
  /\ Grace \in Nat \ {0} /\ PinTTL \in Nat /\ LeaseTTL \in Nat /\ Absent \in Nat /\ Times \subseteq Nat
  /\ MediaTypes => mediaClock \in Nat /\ mediaClock # Absent
BY PlanningMediaAssumption DEF Absent, Times, MediaTypes

\* What updating an asset's row writes.
LEMMA RevisedAsset ==
  ASSUME AssetOK, NEW state \in AssetStates, NEW eligible \in Nat, Revised(state, eligible)
  PROVE  AssetOK' /\ mediaAsset'.state = state
<1>1. mediaAsset' = [state |-> state, revision |-> mediaAsset.revision + 1,
                     created |-> mediaAsset.created, eligible |-> eligible]
  BY DEF AssetOK, Assets, Revised
<1> QED
  BY <1>1 DEF AssetOK, Assets

\* What each part of the invariant is about.
LEMMA MediaFrames ==
  ASSUME MediaInv
  PROVE  /\ UNCHANGED mediaAsset => AssetOK'
         /\ UNCHANGED <<objects, observed>> => ObjectsOK'
         /\ UNCHANGED <<bindings, leases, pins>> => HoldsOK'
         /\ UNCHANGED upload => UploadsOK'
         /\ UNCHANGED collector => ClaimsOK'
         /\ UNCHANGED sweep => SweepOK'
         /\ UNCHANGED mediaClock => mediaClock' \in Times
         /\ UNCHANGED <<upload, uploader, mediaAsset>> => UploadersFindNothing'
         /\ UNCHANGED <<collector, mediaAsset>> => ClaimsAreFinal'
         /\ UNCHANGED <<sweep, observed, mediaAsset>> => ExpectsRightly' /\ OrphansAreUnowned'
         /\ UNCHANGED <<sweep, mediaClock>> => SweepIsOld'
         /\ UNCHANGED <<mediaAsset, bindings>> => NothingOnNone'
         /\ UNCHANGED <<mediaAsset, bindings, leases, pins, mediaClock>> => HeldIsKept'
<1>1. UNCHANGED mediaAsset => AssetOK'
  BY DEF MediaInv, MediaTypes, AssetOK
<1>2. UNCHANGED <<objects, observed>> => ObjectsOK'
  BY DEF MediaInv, MediaTypes, ObjectsOK
<1>3. UNCHANGED <<bindings, leases, pins>> => HoldsOK'
  BY DEF MediaInv, MediaTypes, HoldsOK
<1>4. (UNCHANGED upload => UploadsOK') /\ (UNCHANGED collector => ClaimsOK') /\ (UNCHANGED sweep => SweepOK')
  BY DEF MediaInv, MediaTypes, UploadsOK, ClaimsOK, SweepOK
<1>5. UNCHANGED mediaClock => mediaClock' \in Times
  BY DEF MediaInv, MediaTypes, Times
<1>6. UNCHANGED <<upload, uploader, mediaAsset>> => UploadersFindNothing'
  BY DEF MediaInv, UploadersFindNothing
<1>7. UNCHANGED <<collector, mediaAsset>> => ClaimsAreFinal'
  BY DEF MediaInv, ClaimsAreFinal
<1>8. UNCHANGED <<sweep, observed, mediaAsset>> => ExpectsRightly' /\ OrphansAreUnowned'
  BY DEF MediaInv, ExpectsRightly, OrphansAreUnowned, Vacant, Absent
<1>9. UNCHANGED <<sweep, mediaClock>> => SweepIsOld'
  BY DEF MediaInv, SweepIsOld
<1>10. UNCHANGED <<mediaAsset, bindings>> => NothingOnNone'
  BY DEF MediaInv, NothingOnNone
<1>11. UNCHANGED <<mediaAsset, bindings, leases, pins, mediaClock>> => HeldIsKept'
  BY DEF MediaInv, HeldIsKept, Held
<1> QED
  BY <1>1, <1>2, <1>3, <1>4, <1>5, <1>6, <1>7, <1>8, <1>9, <1>10, <1>11

LEMMA MediaStep ==
  ASSUME MediaInv, [MediaNext]_mediaVars
  PROVE  MediaInv'
<1>1. ASSUME NEW u \in Uploads, UploadBegin(u) PROVE MediaInv'
  <2>1. UploadsOK'
    BY <1>1, MediaNumbers DEF UploadBegin, MediaInv, MediaTypes, UploadsOK, Uploading, Renditions
  <2>2. UploadersFindNothing'
    BY <1>1, PlanningMediaAssumption DEF UploadBegin, MediaInv, MediaTypes, UploadsOK, Uploading,
       UploadersFindNothing
  <2> QED
    BY <1>1, <2>1, <2>2, MediaFrames DEF MediaInv, MediaTypes, UploadBegin
<1>2. ASSUME NEW u \in Uploads, NEW x \in Renditions, Publish(u, x) PROVE MediaInv'
  <2>1. ObjectsOK'
    BY <1>2, MediaNumbers DEF Publish, Stored, After, Renditions, MediaInv, MediaTypes, ObjectsOK,
       Times, Absent
  <2>2. UploadsOK'
    BY <1>2, MediaNumbers DEF Publish, Stored, After, Renditions, MediaInv, MediaTypes, UploadsOK,
       Uploading
  <2>3. UploadersFindNothing'
    BY <1>2, MediaNumbers DEF Publish, Stored, After, Renditions, MediaInv, MediaTypes, UploadsOK,
       Uploading, AssetOK, Assets, UploadersFindNothing
  <2> QED
    BY <1>2, <2>1, <2>2, <2>3, MediaFrames DEF MediaInv, MediaTypes, Publish
<1>3. ASSUME NEW u \in Uploads, NEW x \in Renditions, RemovePublished(u, x) PROVE MediaInv'
  <2>1. ObjectsOK'
    BY <1>3, MediaNumbers DEF RemovePublished, MediaInv, MediaTypes, ObjectsOK, Times, Absent,
       Renditions
  <2>2. UploadsOK'
    BY <1>3, MediaNumbers DEF RemovePublished, MediaInv, MediaTypes, UploadsOK, Uploading,
       Renditions
  <2>3. UploadersFindNothing'
    BY <1>3, MediaNumbers DEF RemovePublished, MediaInv, MediaTypes, UploadsOK, Uploading, AssetOK,
       Assets, UploadersFindNothing
  <2> QED
    BY <1>3, <2>1, <2>2, <2>3, MediaFrames DEF MediaInv, MediaTypes, RemovePublished
<1>4. ASSUME NEW u \in Uploads, NEW told \in BOOLEAN, UploadCommit(u, told) PROVE MediaInv'
  <2>1. AssetOK'
    BY <1>4, MediaNumbers DEF UploadCommit, MediaInv, MediaTypes, AssetOK, Assets, AssetStates
  <2>2. ObjectsOK'
    BY <1>4, MediaNumbers DEF UploadCommit, MediaInv, MediaTypes, ObjectsOK, Times, Absent,
       Renditions
  <2>3. UploadsOK'
    BY <1>4, MediaNumbers DEF UploadCommit, MediaInv, MediaTypes, UploadsOK, Uploading, Renditions
  <2>4. UploadersFindNothing'
    BY <1>4, MediaNumbers DEF UploadCommit, MediaInv, MediaTypes, UploadsOK, Uploading, AssetOK,
       Assets, UploadersFindNothing
  <2>5. ClaimsAreFinal'
    BY <1>4 DEF UploadCommit, MediaInv, UploadersFindNothing, ClaimsAreFinal
  <2>6. ExpectsRightly'
    BY <1>4, MediaNumbers DEF UploadCommit, MediaInv, SweepIsOld, ExpectsRightly
  <2>7. OrphansAreUnowned'
    BY <1>4 DEF UploadCommit, MediaInv, MediaTypes, SweepOK, Sweeping, UploadersFindNothing,
       OrphansAreUnowned
  <2>8. NothingOnNone'
    BY <1>4, MediaNumbers DEF UploadCommit, MediaInv, MediaTypes, AssetOK, Assets, HoldsOK,
       NothingOnNone
  <2>9. HeldIsKept'
    BY <1>4, MediaNumbers DEF UploadCommit, MediaInv, MediaTypes, AssetOK, Assets, HoldsOK, Times,
       HeldIsKept, Held
  <2> QED
    BY <1>4, <2>1, <2>2, <2>3, <2>4, <2>5, <2>6, <2>7, <2>8, <2>9, MediaFrames DEF MediaInv,
       MediaTypes, UploadCommit
<1>5. ASSUME NEW u \in Uploads, UploadFail(u) PROVE MediaInv'
  <2>1. UploadsOK'
    BY <1>5, MediaNumbers DEF UploadFail, MediaInv, MediaTypes, UploadsOK, Uploading, Renditions
  <2>2. UploadersFindNothing'
    BY <1>5, MediaNumbers DEF UploadFail, MediaInv, MediaTypes, UploadsOK, Uploading, AssetOK,
       Assets, UploadersFindNothing
  <2> QED
    BY <1>5, <2>1, <2>2, MediaFrames DEF MediaInv, MediaTypes, UploadFail
<1>6. ASSUME NEW u \in Uploads, UploadGone(u) PROVE MediaInv'
  <2>1. UploadsOK'
    BY <1>6, MediaNumbers DEF UploadGone, MediaInv, MediaTypes, UploadsOK, Uploading, Renditions
  <2>2. UploadersFindNothing'
    BY <1>6, MediaNumbers DEF UploadGone, MediaInv, MediaTypes, UploadsOK, Uploading, AssetOK,
       Assets, UploadersFindNothing
  <2> QED
    BY <1>6, <2>1, <2>2, MediaFrames DEF MediaInv, MediaTypes, UploadGone
<1>7. ASSUME NEW h \in Holders, CreateBinding(h) PROVE MediaInv'
  <2>1. mediaAsset.state \notin Refused /\ Revised("active", mediaAsset.eligible)
    BY <1>7 DEF CreateBinding
  <2>2. AssetOK'
    BY <2>1, RevisedAsset DEF MediaInv, MediaTypes, AssetOK, Assets, AssetStates
  <2>3. HoldsOK'
    BY <1>7, <2>1, MediaNumbers DEF CreateBinding, Revised, Refused, MediaInv, MediaTypes, HoldsOK
  <2>4. UploadersFindNothing'
    BY <1>7, <2>1, MediaNumbers DEF CreateBinding, Revised, Refused, MediaInv, MediaTypes,
       UploadsOK, Uploading, AssetOK, Assets, UploadersFindNothing
  <2>5. ClaimsAreFinal'
    BY <1>7, <2>1, MediaNumbers DEF CreateBinding, Revised, Refused, MediaInv, MediaTypes,
       ClaimsOK, Collecting, AssetOK, Assets, ClaimsAreFinal
  <2>6. ExpectsRightly'
    BY <1>7, <2>1, MediaNumbers DEF CreateBinding, Revised, Refused, MediaInv, MediaTypes, SweepOK,
       Sweeping, Renditions, ObjectsOK, Times, Absent, AssetOK, Assets, ExpectsRightly, Vacant
  <2>7. OrphansAreUnowned'
    BY <1>7, <2>1, MediaNumbers DEF CreateBinding, Revised, Refused, MediaInv, MediaTypes, SweepOK,
       Sweeping, Renditions, ObjectsOK, Times, Absent, AssetOK, Assets, OrphansAreUnowned
  <2>8. NothingOnNone'
    BY <1>7, <2>1, MediaNumbers DEF CreateBinding, Revised, Refused, MediaInv, MediaTypes, AssetOK,
       Assets, HoldsOK, NothingOnNone
  <2>9. HeldIsKept'
    BY <1>7, <2>1, MediaNumbers DEF CreateBinding, Revised, Refused, MediaInv, MediaTypes, AssetOK,
       Assets, HoldsOK, Times, HeldIsKept, Held
  <2> QED
    BY <1>7, <2>1, <2>2, <2>3, <2>4, <2>5, <2>6, <2>7, <2>8, <2>9, MediaFrames DEF MediaInv,
       MediaTypes, CreateBinding
<1>8. ASSUME NEW h \in Holders, ReleaseBinding(h) PROVE MediaInv'
  <2>1. bindings # {} /\ mediaAsset.state \notin {"none", "gc_pending", "deleted"}
    BY <1>8 DEF ReleaseBinding, MediaInv, NothingOnNone, HeldIsKept, Held
  <2>2. \E e \in Nat : Revised("staged", e) \/ Revised(mediaAsset.state, e)
    <3>1. \A a, b \in Nat : Later(a, b) \in Nat
      BY DEF Later
    <3>2. Later(mediaAsset.eligible, Later(mediaAsset.created + Grace, mediaClock)) \in Nat
      <4>1. mediaAsset.eligible \in Nat /\ mediaAsset.created + Grace \in Nat /\ mediaClock \in Nat
        BY MediaNumbers DEF MediaInv, MediaTypes, AssetOK, Assets
      <4> QED
        BY <3>1, <4>1
    <3> QED
      BY <1>8, <3>2 DEF ReleaseBinding, MediaInv, MediaTypes, AssetOK, Assets
  <2>3. AssetOK'
    BY <2>1, <2>2, RevisedAsset DEF MediaInv, MediaTypes, AssetOK, Assets, AssetStates
  <2>4. HoldsOK'
    BY <1>8, <2>1, <2>2, MediaNumbers DEF ReleaseBinding, Revised, Later, MediaInv, MediaTypes,
       HoldsOK
  <2>5. UploadersFindNothing'
    BY <1>8, <2>1, <2>2, MediaNumbers DEF ReleaseBinding, Revised, Later, MediaInv, MediaTypes,
       UploadsOK, Uploading, AssetOK, Assets, UploadersFindNothing
  <2>6. ClaimsAreFinal'
    BY <1>8, <2>1, <2>2, MediaNumbers DEF ReleaseBinding, Revised, Later, MediaInv, MediaTypes,
       ClaimsOK, Collecting, AssetOK, Assets, ClaimsAreFinal
  <2>7. ExpectsRightly'
    BY <1>8, <2>1, <2>2, MediaNumbers DEF ReleaseBinding, Revised, Later, MediaInv, MediaTypes,
       SweepOK, Sweeping, Renditions, ObjectsOK, Times, Absent, AssetOK, Assets, ExpectsRightly,
       Vacant
  <2>8. OrphansAreUnowned'
    BY <1>8, <2>1, <2>2, MediaNumbers DEF ReleaseBinding, Revised, Later, MediaInv, MediaTypes,
       SweepOK, Sweeping, Renditions, ObjectsOK, Times, Absent, AssetOK, Assets, OrphansAreUnowned
  <2>9. NothingOnNone'
    BY <1>8, <2>1, <2>2, MediaNumbers DEF ReleaseBinding, Revised, Later, MediaInv, MediaTypes,
       AssetOK, Assets, HoldsOK, NothingOnNone
  <2>10. HeldIsKept'
    BY <1>8, <2>1, <2>2, MediaNumbers DEF ReleaseBinding, Revised, Later, MediaInv, MediaTypes,
       AssetOK, Assets, HoldsOK, Times, HeldIsKept, Held
  <2> QED
    BY <1>8, <2>1, <2>2, <2>3, <2>4, <2>5, <2>6, <2>7, <2>8, <2>9, <2>10, MediaFrames DEF MediaInv,
       MediaTypes, ReleaseBinding
<1>9. ASSUME NEW h \in Holders, ReserveLease(h) PROVE MediaInv'
  <2>1. HoldsOK'
    BY <1>9, MediaNumbers DEF ReserveLease, Refused, MediaInv, MediaTypes, HoldsOK
  <2>2. HeldIsKept'
    BY <1>9, MediaNumbers DEF ReserveLease, Refused, MediaInv, MediaTypes, AssetOK, Assets,
       HoldsOK, Times, HeldIsKept, Held
  <2> QED
    BY <1>9, <2>1, <2>2, MediaFrames DEF MediaInv, MediaTypes, ReserveLease
<1>10. ASSUME NEW l \in leases, ReleaseLease(l) PROVE MediaInv'
  <2>1. HoldsOK'
    BY <1>10, MediaNumbers DEF ReleaseLease, MediaInv, MediaTypes, HoldsOK
  <2>2. HeldIsKept'
    BY <1>10, MediaNumbers DEF ReleaseLease, MediaInv, MediaTypes, AssetOK, Assets, HoldsOK, Times,
       HeldIsKept, Held
  <2> QED
    BY <1>10, <2>1, <2>2, MediaFrames DEF MediaInv, MediaTypes, ReleaseLease
<1>11. ASSUME NEW r \in Readers, NEW b \in BOOLEAN, IssuePin(r, b) PROVE MediaInv'
  <2>1. HoldsOK'
    BY <1>11, MediaNumbers DEF IssuePin, Refused, MediaInv, MediaTypes, HoldsOK
  <2>2. HeldIsKept'
    BY <1>11, MediaNumbers DEF IssuePin, Refused, MediaInv, MediaTypes, AssetOK, Assets, HoldsOK,
       Times, HeldIsKept, Held
  <2> QED
    BY <1>11, <2>1, <2>2, MediaFrames DEF MediaInv, MediaTypes, IssuePin
<1>12. ASSUME NEW r \in Readers, NEW b \in BOOLEAN, CloseStream(r, b) PROVE MediaInv'
  <2>1. HoldsOK'
    BY <1>12, MediaNumbers DEF CloseStream, MediaInv, MediaTypes, HoldsOK
  <2>2. HeldIsKept'
    BY <1>12, MediaNumbers DEF CloseStream, MediaInv, MediaTypes, AssetOK, Assets, HoldsOK, Times,
       HeldIsKept, Held
  <2> QED
    BY <1>12, <2>1, <2>2, MediaFrames DEF MediaInv, MediaTypes, CloseStream
<1>13. ASSUME NEW r \in Readers, OpenObject(r) PROVE MediaInv'
  <2>1. HoldsOK'
    BY <1>13, MediaNumbers DEF OpenObject, MediaInv, MediaTypes, HoldsOK
  <2>2. HeldIsKept'
    BY <1>13, MediaNumbers DEF OpenObject, MediaInv, MediaTypes, AssetOK, Assets, HoldsOK, Times,
       HeldIsKept, Held
  <2> QED
    BY <1>13, <2>1, <2>2, MediaFrames DEF MediaInv, MediaTypes, OpenObject
<1>14. ASSUME NEW r \in Readers, ReadDisplay(r) PROVE MediaInv'
  <2> QED
    BY <1>14, MediaFrames DEF MediaInv, MediaTypes, ReadDisplay
<1>15. ASSUME NEW r \in Readers, markAssetCorrupt(r) PROVE MediaInv'
  <2>1. mediaAsset' = mediaAsset \/ (mediaAsset.state \notin Refused /\ Revised("corrupt",
  mediaAsset.eligible))
    BY <1>15 DEF markAssetCorrupt
  <2>2. AssetOK'
    BY <2>1, RevisedAsset DEF MediaInv, MediaTypes, AssetOK, Assets, AssetStates
  <2>3. UploadersFindNothing'
    BY <1>15, <2>1, MediaNumbers DEF markAssetCorrupt, Revised, Refused, MediaInv, MediaTypes,
       UploadsOK, Uploading, AssetOK, Assets, UploadersFindNothing
  <2>4. ClaimsAreFinal'
    BY <1>15, <2>1, MediaNumbers DEF markAssetCorrupt, Revised, Refused, MediaInv, MediaTypes,
       ClaimsOK, Collecting, AssetOK, Assets, ClaimsAreFinal
  <2>5. ExpectsRightly'
    BY <1>15, <2>1, MediaNumbers DEF markAssetCorrupt, Revised, Refused, MediaInv, MediaTypes,
       SweepOK, Sweeping, Renditions, ObjectsOK, Times, Absent, AssetOK, Assets, ExpectsRightly,
       Vacant
  <2>6. OrphansAreUnowned'
    BY <1>15, <2>1, MediaNumbers DEF markAssetCorrupt, Revised, Refused, MediaInv, MediaTypes,
       SweepOK, Sweeping, Renditions, ObjectsOK, Times, Absent, AssetOK, Assets, OrphansAreUnowned
  <2>7. NothingOnNone'
    BY <1>15, <2>1, MediaNumbers DEF markAssetCorrupt, Revised, Refused, MediaInv, MediaTypes,
       AssetOK, Assets, HoldsOK, NothingOnNone
  <2>8. HeldIsKept'
    BY <1>15, <2>1, MediaNumbers DEF markAssetCorrupt, Revised, Refused, MediaInv, MediaTypes,
       AssetOK, Assets, HoldsOK, Times, HeldIsKept, Held
  <2> QED
    BY <1>15, <2>1, <2>2, <2>3, <2>4, <2>5, <2>6, <2>7, <2>8, MediaFrames DEF MediaInv, MediaTypes,
       markAssetCorrupt
<1>16. ASSUME NEW g \in Collectors, ClaimGarbage(g) PROVE MediaInv'
  <2>1. Revised("gc_pending", mediaAsset.eligible)
    BY <1>16 DEF ClaimGarbage
  <2>2. AssetOK'
    BY <2>1, RevisedAsset DEF MediaInv, MediaTypes, AssetOK, Assets, AssetStates
  <2>3. ClaimsOK'
    <3>1. [pc |-> "claimed", revision |-> mediaAsset.revision + 1,
    left |-> Renditions] \in Collecting
      BY DEF MediaInv, MediaTypes, AssetOK, Assets, Collecting
    <3> QED
      BY <1>16, <3>1 DEF ClaimGarbage, MediaInv, MediaTypes, ClaimsOK
  <2>4. UploadersFindNothing'
    BY <1>16, <2>1, MediaNumbers DEF ClaimGarbage, Revised, MediaInv, MediaTypes, UploadsOK,
       Uploading, AssetOK, Assets, UploadersFindNothing
  <2>5. ClaimsAreFinal'
    BY <1>16, <2>1, MediaNumbers DEF ClaimGarbage, Revised, MediaInv, MediaTypes, ClaimsOK,
       Collecting, AssetOK, Assets, ClaimsAreFinal
  <2>6. ExpectsRightly'
    BY <1>16, <2>1, MediaNumbers DEF ClaimGarbage, Revised, MediaInv, MediaTypes, SweepOK,
       Sweeping, Renditions, ObjectsOK, Times, Absent, AssetOK, Assets, ExpectsRightly, Vacant
  <2>7. OrphansAreUnowned'
    BY <1>16, <2>1, MediaNumbers DEF ClaimGarbage, Revised, MediaInv, MediaTypes, SweepOK,
       Sweeping, Renditions, ObjectsOK, Times, Absent, AssetOK, Assets, OrphansAreUnowned
  <2>8. NothingOnNone'
    BY <1>16, <2>1, MediaNumbers DEF ClaimGarbage, Revised, MediaInv, MediaTypes, AssetOK, Assets,
       HoldsOK, NothingOnNone
  <2>9. HeldIsKept'
    BY <1>16, <2>1, MediaNumbers DEF ClaimGarbage, Revised, MediaInv, MediaTypes, AssetOK, Assets,
       HoldsOK, Times, HeldIsKept, Held
  <2> QED
    BY <1>16, <2>1, <2>2, <2>3, <2>4, <2>5, <2>6, <2>7, <2>8, <2>9, MediaFrames DEF MediaInv,
       MediaTypes, ClaimGarbage
<1>17. ASSUME NEW g \in Collectors, NEW x \in Renditions, RemoveGarbage(g, x) PROVE MediaInv'
  <2>1. ObjectsOK'
    BY <1>17, MediaNumbers DEF RemoveGarbage, MediaInv, MediaTypes, ObjectsOK, Times, Absent,
       Renditions
  <2>2. ClaimsOK'
    BY <1>17, MediaNumbers DEF RemoveGarbage, MediaInv, MediaTypes, ClaimsOK, Collecting
  <2>3. ClaimsAreFinal'
    BY <1>17, MediaNumbers DEF RemoveGarbage, MediaInv, MediaTypes, ClaimsOK, Collecting, AssetOK,
       Assets, ClaimsAreFinal
  <2> QED
    BY <1>17, <2>1, <2>2, <2>3, MediaFrames DEF MediaInv, MediaTypes, RemoveGarbage
<1>18. ASSUME NEW g \in Collectors, CollectorFails(g) PROVE MediaInv'
  <2>1. ClaimsOK'
    BY <1>18, MediaNumbers DEF CollectorFails, NoClaim, MediaInv, MediaTypes, ClaimsOK, Collecting
  <2>2. ClaimsAreFinal'
    BY <1>18, MediaNumbers DEF CollectorFails, NoClaim, MediaInv, MediaTypes, ClaimsOK, Collecting,
       AssetOK, Assets, ClaimsAreFinal
  <2> QED
    BY <1>18, <2>1, <2>2, MediaFrames DEF MediaInv, MediaTypes, CollectorFails
<1>19. ASSUME NEW g \in Collectors, FinishGarbage(g) PROVE MediaInv'
  <2>1. UNCHANGED <<mediaAsset,
  observed>> \/ (mediaAsset.state = "gc_pending" /\ Revised("deleted", mediaAsset.eligible))
    BY <1>19 DEF FinishGarbage
  <2>2. AssetOK'
    BY <2>1, RevisedAsset DEF MediaInv, MediaTypes, AssetOK, Assets, AssetStates
  <2>3. ObjectsOK'
    BY <1>19, <2>1, MediaNumbers DEF FinishGarbage, Revised, NoClaim, MediaInv, MediaTypes,
       ObjectsOK, Times, Absent, Renditions
  <2>4. ClaimsOK'
    BY <1>19, <2>1, MediaNumbers DEF FinishGarbage, Revised, NoClaim, MediaInv, MediaTypes,
       ClaimsOK, Collecting
  <2>5. UploadersFindNothing'
    BY <1>19, <2>1, MediaNumbers DEF FinishGarbage, Revised, NoClaim, MediaInv, MediaTypes,
       UploadsOK, Uploading, AssetOK, Assets, UploadersFindNothing
  <2>6. ClaimsAreFinal'
    BY <1>19, <2>1, MediaNumbers DEF FinishGarbage, Revised, NoClaim, MediaInv, MediaTypes,
       ClaimsOK, Collecting, AssetOK, Assets, ClaimsAreFinal
  <2>7. ExpectsRightly'
    BY <1>19, <2>1, MediaNumbers DEF FinishGarbage, Revised, NoClaim, MediaInv, MediaTypes,
       SweepOK, Sweeping, Renditions, ObjectsOK, Times, Absent, AssetOK, Assets, ExpectsRightly,
       Vacant
  <2>8. OrphansAreUnowned'
    BY <1>19, <2>1, MediaNumbers DEF FinishGarbage, Revised, NoClaim, MediaInv, MediaTypes,
       SweepOK, Sweeping, Renditions, ObjectsOK, Times, Absent, AssetOK, Assets, OrphansAreUnowned
  <2>9. NothingOnNone'
    BY <1>19, <2>1, MediaNumbers DEF FinishGarbage, Revised, NoClaim, MediaInv, MediaTypes,
       AssetOK, Assets, HoldsOK, NothingOnNone
  <2>10. HeldIsKept'
    BY <1>19, <2>1, MediaNumbers DEF FinishGarbage, Revised, NoClaim, MediaInv, MediaTypes,
       AssetOK, Assets, HoldsOK, Times, HeldIsKept, Held
  <2> QED
    BY <1>19, <2>1, <2>2, <2>3, <2>4, <2>5, <2>6, <2>7, <2>8, <2>9, <2>10,
       MediaFrames DEF MediaInv, MediaTypes, FinishGarbage
<1>20. ASSUME ReadExpected PROVE MediaInv'
  <2>1. SweepOK'
    BY <1>20, MediaNumbers DEF ReadExpected, MediaInv, MediaTypes, SweepOK, Sweeping, Renditions
  <2>2. ExpectsRightly'
    BY <1>20, MediaNumbers DEF ReadExpected, MediaInv, MediaTypes, SweepOK, Sweeping, Renditions,
       ObjectsOK, Times, Absent, AssetOK, Assets, ExpectsRightly, Vacant
  <2>3. OrphansAreUnowned'
    BY <1>20, MediaNumbers DEF ReadExpected, MediaInv, MediaTypes, SweepOK, Sweeping, Renditions,
       ObjectsOK, Times, Absent, AssetOK, Assets, OrphansAreUnowned
  <2>4. SweepIsOld'
    BY <1>20, MediaNumbers DEF ReadExpected, MediaInv, MediaTypes, SweepOK, Sweeping, Renditions,
       Times, SweepIsOld
  <2> QED
    BY <1>20, <2>1, <2>2, <2>3, <2>4, MediaFrames DEF MediaInv, MediaTypes, ReadExpected
<1>21. ASSUME ListObjects PROVE MediaInv'
  <2>1. ObjectsOK'
    <3>1. \A x \in Renditions : observed'[x] \in {sweep.now, observed[x]}
      BY <1>21 DEF ListObjects
    <3>2. DOMAIN observed' = Renditions /\ observed' = [x \in Renditions |-> observed'[x]] /\ UNCHANGED objects
      BY <1>21 DEF ListObjects
    <3> QED
      BY <3>1, <3>2 DEF MediaInv, MediaTypes, SweepOK, Sweeping, ObjectsOK
  <2>2. SweepOK'
    BY <1>21, MediaNumbers DEF ListObjects, Stored, MediaInv, MediaTypes, SweepOK, Sweeping,
       Renditions
  <2>3. ExpectsRightly'
    BY <1>21, MediaNumbers DEF ListObjects, Stored, MediaInv, MediaTypes, SweepOK, Sweeping,
       Renditions, ObjectsOK, Times, Absent, AssetOK, Assets, ExpectsRightly, Vacant
  <2>4. OrphansAreUnowned'
    <3> SUFFICES ASSUME NEW x \in sweep'.listed
                 PROVE  Vacant /\ observed'[x] # Absent
      BY <1>21 DEF ListObjects, OrphansAreUnowned, Vacant
    <3>1. /\ x \in Renditions /\ x \notin sweep.expected
          /\ observed'[x] # Absent /\ observed'[x] + Grace <= sweep.now
          /\ observed[x] # Absent => observed'[x] = observed[x]
      BY <1>21 DEF ListObjects
    <3>2. sweep.now \in Nat /\ sweep.expected = {} /\ sweep.pc = "expected" /\ observed[x] \in Nat
      BY <1>21, <3>1 DEF ListObjects, MediaInv, MediaTypes, SweepOK, Sweeping, ObjectsOK
    <3>3. Vacant \/ (observed[x] # Absent /\ sweep.now <= observed[x])
      BY <3>1, <3>2 DEF MediaInv, ExpectsRightly
    <3> QED
      BY <3>1, <3>2, <3>3, MediaNumbers
  <2>5. SweepIsOld'
    BY <1>21, MediaNumbers DEF ListObjects, Stored, MediaInv, MediaTypes, SweepOK, Sweeping,
       Renditions, Times, SweepIsOld
  <2> QED
    BY <1>21, <2>1, <2>2, <2>3, <2>4, <2>5, MediaFrames DEF MediaInv, MediaTypes, ListObjects
<1>22. ASSUME NEW x \in Renditions, RemoveOrphan(x) PROVE MediaInv'
  <2>1. ObjectsOK'
    BY <1>22, MediaNumbers DEF RemoveOrphan, MediaInv, MediaTypes, ObjectsOK, Times, Absent,
       Renditions
  <2>2. SweepOK'
    BY <1>22, MediaNumbers DEF RemoveOrphan, MediaInv, MediaTypes, SweepOK, Sweeping, Renditions
  <2>3. ExpectsRightly'
    BY <1>22, MediaNumbers DEF RemoveOrphan, MediaInv, MediaTypes, SweepOK, Sweeping, Renditions,
       ObjectsOK, Times, Absent, AssetOK, Assets, ExpectsRightly, Vacant
  <2>4. OrphansAreUnowned'
    BY <1>22, MediaNumbers DEF RemoveOrphan, MediaInv, MediaTypes, SweepOK, Sweeping, Renditions,
       ObjectsOK, Times, Absent, AssetOK, Assets, OrphansAreUnowned
  <2>5. SweepIsOld'
    BY <1>22, MediaNumbers DEF RemoveOrphan, MediaInv, MediaTypes, SweepOK, Sweeping, Renditions,
       Times, SweepIsOld
  <2> QED
    BY <1>22, <2>1, <2>2, <2>3, <2>4, <2>5, MediaFrames DEF MediaInv, MediaTypes, RemoveOrphan
<1>23. ASSUME SweepEnds PROVE MediaInv'
  <2>1. SweepOK'
    BY <1>23, MediaNumbers DEF SweepEnds, NoSweep, MediaInv, MediaTypes, SweepOK, Sweeping,
       Renditions
  <2>2. ExpectsRightly'
    BY <1>23, MediaNumbers DEF SweepEnds, NoSweep, MediaInv, MediaTypes, SweepOK, Sweeping,
       Renditions, ObjectsOK, Times, Absent, AssetOK, Assets, ExpectsRightly, Vacant
  <2>3. OrphansAreUnowned'
    BY <1>23, MediaNumbers DEF SweepEnds, NoSweep, MediaInv, MediaTypes, SweepOK, Sweeping,
       Renditions, ObjectsOK, Times, Absent, AssetOK, Assets, OrphansAreUnowned
  <2>4. SweepIsOld'
    BY <1>23, MediaNumbers DEF SweepEnds, NoSweep, MediaInv, MediaTypes, SweepOK, Sweeping,
       Renditions, Times, SweepIsOld
  <2> QED
    BY <1>23, <2>1, <2>2, <2>3, <2>4, MediaFrames DEF MediaInv, MediaTypes, SweepEnds
<1>24. ASSUME MediaTick PROVE MediaInv'
  <2>1. (mediaClock \in Times)'
    BY <1>24, PlanningMediaAssumption DEF MediaTick, MediaInv, MediaTypes, Times
  <2>2. SweepIsOld'
    BY <1>24, MediaNumbers DEF MediaTick, MediaInv, MediaTypes, SweepOK, Sweeping, Renditions,
       Times, SweepIsOld
  <2>3. HeldIsKept'
    BY <1>24, MediaNumbers DEF MediaTick, MediaInv, MediaTypes, AssetOK, Assets, HoldsOK, Times,
       HeldIsKept, Held
  <2> QED
    BY <1>24, <2>1, <2>2, <2>3, MediaFrames DEF MediaInv, MediaTypes, MediaTick
<1>25. ASSUME UNCHANGED mediaVars PROVE MediaInv'
  <2> QED
    BY <1>25, MediaFrames DEF MediaInv, MediaTypes, mediaVars
<1> QED
  BY <1>1, <1>2, <1>3, <1>4, <1>5, <1>6, <1>7, <1>8, <1>9, <1>10, <1>11, <1>12, <1>13, <1>14,
     <1>15, <1>16, <1>17, <1>18, <1>19, <1>20, <1>21, <1>22, <1>23, <1>24, <1>25 DEF MediaNext,
     UploadStep, HolderStep, ReaderStep, CollectorStep, SweepStep

LEMMA MediaStarts == MediaInit => MediaInv
<1> SUFFICES ASSUME MediaInit PROVE MediaInv
  OBVIOUS
<1>1. MediaTypes
  <2>1. AssetOK
    BY DEF MediaInit, AssetOK, Assets, AssetStates
  <2>2. ObjectsOK /\ HoldsOK /\ mediaClock \in Times
    BY MediaNumbers, PlanningMediaAssumption DEF MediaInit, ObjectsOK, HoldsOK, Times
  <2>3. UploadsOK
    BY DEF MediaInit, UploadsOK, Uploading, NoUpload
  <2>4. ClaimsOK /\ SweepOK
    BY DEF MediaInit, ClaimsOK, Collecting, NoClaim, SweepOK, Sweeping, NoSweep
  <2> QED
    BY <2>1, <2>2, <2>3, <2>4 DEF MediaTypes
<1>2. UploadersFindNothing /\ ClaimsAreFinal
  BY DEF MediaInit, UploadersFindNothing, ClaimsAreFinal, NoUpload, NoClaim
<1>3. ExpectsRightly /\ OrphansAreUnowned /\ SweepIsOld /\ NothingOnNone /\ HeldIsKept
  BY DEF MediaInit, ExpectsRightly, OrphansAreUnowned, SweepIsOld, NothingOnNone, HeldIsKept, NoSweep
<1> QED
  BY <1>1, <1>2, <1>3 DEF MediaInv

LEMMA MediaInvariant == MediaSpec => []MediaInv
<1>1. MediaInv /\ [MediaNext]_mediaVars => MediaInv'
  BY MediaStep
<1> QED
  BY <1>1, MediaStarts, PTL DEF MediaSpec

\* However many plans, shots, readers, uploads and collectors there are: what somebody holds is
\* neither claimed nor collected (ReconcileGC, CreateBinding, IssueShareDisplayPermit).
THEOREM HeldAssetsAreKept == MediaSpec => []HeldIsKept
<1>1. MediaInv => HeldIsKept
  BY DEF MediaInv
<1> QED
  BY <1>1, MediaInvariant, PTL

\* A removal that no upload did is a collector's, whose claim nothing takes back, or the sweep's,
\* which found no row when it read the rows and blocks one from being inserted by what it observed.
LEMMA RemovalsSpareLiveAssets ==
  ASSUME MediaInv, [MediaNext]_mediaVars, objects' # objects, upload' = upload
  PROVE  mediaAsset.state \notin {"staged", "active"}
<1>1. ASSUME NEW g \in Collectors, CollectorStep(g) PROVE mediaAsset.state \notin {"staged", "active"}
  <2>1. collector[g].pc = "claimed"
    BY <1>1 DEF CollectorStep, ClaimGarbage, RemoveGarbage, CollectorFails, FinishGarbage
  <2> QED
    BY <2>1 DEF MediaInv, ClaimsAreFinal
<1>2. ASSUME SweepStep PROVE mediaAsset.state \notin {"staged", "active"}
  <2>1. sweep.pc = "listed" /\ sweep.listed # {}
    BY <1>2 DEF SweepStep, ReadExpected, ListObjects, RemoveOrphan, SweepEnds
  <2> QED
    BY <2>1 DEF MediaInv, OrphansAreUnowned
<1>3. ASSUME NEW u \in Uploads, UploadStep(u) PROVE FALSE
  <2>1. upload[u] \in Uploading
    BY DEF MediaInv, MediaTypes, UploadsOK
  <2>2. ASSUME NEW x \in Renditions, Publish(u, x) PROVE FALSE
    <3>1. upload'[u].pc = After(x) /\ upload[u].pc = x
      BY <2>2 DEF Publish, MediaInv, MediaTypes, UploadsOK
    <3> QED
      BY <3>1 DEF After, Renditions
  <2>3. ASSUME NEW x \in Renditions, RemovePublished(u, x) PROVE FALSE
    <3>1. upload'[u].created = upload[u].created \ {x} /\ x \in upload[u].created
      BY <2>1, <2>3 DEF RemovePublished, MediaInv, MediaTypes, UploadsOK, Uploading
    <3> QED
      BY <3>1
  <2> QED
    BY <1>3, <2>2, <2>3 DEF UploadStep, UploadBegin, UploadCommit, UploadFail, UploadGone
<1>4. ASSUME NEW h \in Holders, HolderStep(h) PROVE FALSE
  BY <1>4 DEF HolderStep, CreateBinding, ReleaseBinding, ReserveLease
<1>5. ASSUME NEW l \in leases, ReleaseLease(l) PROVE FALSE
  BY <1>5 DEF ReleaseLease
<1>6. ASSUME NEW r \in Readers, ReaderStep(r) PROVE FALSE
  BY <1>6 DEF ReaderStep, IssuePin, CloseStream, OpenObject, ReadDisplay, markAssetCorrupt
<1>7. ~MediaTick /\ ~UNCHANGED mediaVars
  BY DEF MediaTick, mediaVars
<1> QED
  BY <1>1, <1>2, <1>3, <1>4, <1>5, <1>6, <1>7 DEF MediaNext

\* For any grace period but none: a step of a collector or of the sweep that removes an object
\* finds no staged and no active asset (ReconcileGC, ReconcilePhysicalOrphans, InsertAsset).
THEOREM RemovalsAreSafe == MediaSpec => WorkersSpareLiveAssets
<1>1. MediaInv /\ [MediaNext]_mediaVars =>
        [(objects' # objects /\ upload' = upload) =>
           mediaAsset.state \notin {"staged", "active"}]_mediaVars
  BY RemovalsSpareLiveAssets
<1> QED
  BY <1>1, MediaInvariant, PTL DEF MediaSpec, WorkersSpareLiveAssets

-----------------------------------------------------------------------------
(***************************************************************************)
(* The board.  Places are below a bound, so there is a last one; a shot's  *)
(* outcome is the latest entry of the log that counts for it.              *)
(***************************************************************************)
ShotRecords == [state : Lives, position : Nat, outcome : Nat]
ItemRecords == [state : Lives, required : BOOLEAN, checked : BOOLEAN]
SessionRecords == [open : BOOLEAN, live : BOOLEAN]
ResultFacts == [kind : {"result"}, shot : Shots, result : Results, live : BOOLEAN]
VoidFacts   == [kind : {"void"}, shot : Shots, target : Nat]

FinalRecords == [outcomes : [Shots -> Nat], current : SUBSET Shots, missing : SUBSET Nat, facts : Nat]

BoardTyped == /\ status \in PlanStatuses
              /\ shots \in [Shots -> ShotRecords] /\ items \in [Items -> ItemRecords]
              /\ sessions \in Seq(SessionRecords) /\ facts \in Seq(ResultFacts \cup VoidFacts)
              /\ finals \in Seq(FinalRecords)

\* A void is of an earlier entry.
VoidsLookBack == \A k \in 1..Len(facts) : facts[k].kind = "void" => facts[k].target \in 1..Len(facts)

FinitelyPlaced == /\ IsFiniteSet(CurrentShots)
                  /\ \E bound \in Nat : \A x \in CurrentShots : shots[x].position <= bound

BoardInv == BoardTyped /\ VoidsLookBack /\ FinitelyPlaced /\ BoardAgrees

-----------------------------------------------------------------------------
\* A set of numbers below a bound has a last one.
LEMMA LastOf ==
  ASSUME NEW S, S \subseteq Nat, S # {}, NEW bound \in Nat, \A n \in S : n <= bound
  PROVE  \E m \in S : \A n \in S : n <= m
<1> DEFINE R == {ss \in Nat \X Nat : ss[1] < ss[2]}
           U == {n \in Nat : \A k \in S : k <= n}
<1>1. IsWellFoundedOn(R, Nat)
  BY NatLessThanWellFounded DEF OpToRel
<1>2. \A n, k \in Nat : k < n => <<k, n>> \in R
  OBVIOUS
<1>3. U \subseteq Nat /\ U # {}
  OBVIOUS
<1> HIDE DEF R, U
<1>4. PICK m \in U : \A n \in U : <<n, m>> \notin R
  BY <1>1, <1>3, WFMin
<1>5. m \in Nat /\ \A k \in S : k <= m
  BY DEF U
<1>6. m \in S
  <2> SUFFICES ASSUME m \notin S PROVE FALSE
    OBVIOUS
  <2>1. \A k \in S : k < m /\ k \in Nat
    BY <1>5
  <2>2. m > 0
    <3>1. PICK k \in S : TRUE
      OBVIOUS
    <3> QED
      BY <1>5, <2>1, <3>1
  <2>3. m - 1 \in Nat /\ \A k \in S : k <= m - 1
    BY <1>5, <2>1, <2>2
  <2>4. m - 1 \in U /\ m - 1 < m
    BY <1>5, <2>3 DEF U
  <2> QED
    BY <1>2, <1>4, <1>5, <2>3, <2>4
<1> QED
  BY <1>5, <1>6

\* And a first one.
LEMMA FirstOf ==
  ASSUME NEW S, S \subseteq Nat, S # {}
  PROVE  \E m \in S : \A n \in S : m <= n
<1> DEFINE R == {ss \in Nat \X Nat : ss[1] < ss[2]}
<1>1. IsWellFoundedOn(R, Nat)
  BY NatLessThanWellFounded DEF OpToRel
<1>2. \A n, k \in Nat : k < n => <<k, n>> \in R
  OBVIOUS
<1> HIDE DEF R
<1>3. PICK m \in S : \A n \in S : <<n, m>> \notin R
  BY <1>1, WFMin
<1>4. ASSUME NEW n \in S PROVE m <= n
  <2>1. n \in Nat /\ m \in Nat
    BY <1>3
  <2>2. ~(n < m)
    BY <1>2, <1>3, <2>1
  <2> QED
    BY <2>1, <2>2
<1> QED
  BY <1>3, <1>4

\* The two kinds of entries.
LEMMA FactsOf ==
  ASSUME BoardTyped
  PROVE  /\ Len(facts) \in Nat /\ DOMAIN facts = 1..Len(facts)
         /\ \A k \in 1..Len(facts) : /\ facts[k] \in ResultFacts \cup VoidFacts
                                     /\ facts[k].kind \in {"result", "void"} /\ facts[k].shot \in Shots
<1>1. \A r \in ResultFacts \cup VoidFacts : r.kind \in {"result", "void"} /\ r.shot \in Shots
  BY DEF ResultFacts, VoidFacts
<1> QED
  BY <1>1 DEF BoardTyped

\* The entries that count for a shot.
Counting(log, x) == {k \in 1..Len(log) : log[k].kind = "result" /\ log[k].shot = x /\ k \notin Voided(log)}

LEMMA OutcomeOf ==
  ASSUME NEW log, Len(log) \in Nat, DOMAIN log = 1..Len(log), NEW x
  PROVE  /\ Counting(log, x) = {} => ReplayCurrentOutcome(log, x) = NoOutcome
         /\ \A last \in Counting(log, x) : (\A j \in Counting(log, x) : j <= last) =>
              ReplayCurrentOutcome(log, x) = IF log[last].result = "cleared" THEN NoOutcome ELSE last
         /\ Counting(log, x) # {} => \E last \in Counting(log, x) : \A j \in Counting(log, x) : j <= last
<1>1. PICK C : C = {k \in DOMAIN log : log[k].kind = "result" /\ log[k].shot = x} \ Voided(log)
  OBVIOUS
<1>2. Counting(log, x) = C /\ C \subseteq 1..Len(log)
  BY <1>1 DEF Counting
<1>3. ASSUME NEW last \in C, \A j \in C : j <= last
      PROVE  (CHOOSE k \in C : \A j \in C : j <= k) = last
  <2>1. PICK m : m = CHOOSE k \in C : \A j \in C : j <= k
    OBVIOUS
  <2>2. m \in C /\ \A j \in C : j <= m
    BY <1>3, <2>1
  <2>3. m \in Nat /\ last \in Nat
    BY <1>2, <1>3, <2>2
  <2> QED
    BY <1>3, <2>1, <2>2, <2>3
<1>4. C # {} => \E last \in C : \A j \in C : j <= last
  <2> SUFFICES ASSUME C # {} PROVE \E last \in C : \A j \in C : j <= last
    OBVIOUS
  <2>1. C \subseteq Nat /\ \A k \in C : k <= Len(log)
    BY <1>2
  <2> QED
    BY <2>1, LastOf
<1>5. ReplayCurrentOutcome(log, x) =
        LET last == CHOOSE k \in C : \A j \in C : j <= k
        IN IF C = {} \/ log[last].result = "cleared" THEN NoOutcome ELSE last
  BY <1>1 DEF ReplayCurrentOutcome
<1> QED
  BY <1>2, <1>3, <1>4, <1>5

\* Two logs in which the same entries count have the same outcome.
LEMMA SameOutcome ==
  ASSUME NEW log, Len(log) \in Nat, DOMAIN log = 1..Len(log),
         NEW log2, Len(log2) \in Nat, DOMAIN log2 = 1..Len(log2), NEW x,
         Counting(log2, x) = Counting(log, x), \A k \in Counting(log, x) : log2[k] = log[k]
  PROVE  ReplayCurrentOutcome(log2, x) = ReplayCurrentOutcome(log, x)
<1>1. CASE Counting(log, x) = {}
  BY <1>1, OutcomeOf
<1>2. CASE Counting(log, x) # {}
  <2>1. PICK last \in Counting(log, x) : \A j \in Counting(log, x) : j <= last
    BY <1>2, OutcomeOf
  <2>2. ReplayCurrentOutcome(log, x) = IF log[last].result = "cleared" THEN NoOutcome ELSE last
    BY <2>1, OutcomeOf
  <2>3. ReplayCurrentOutcome(log2, x) = IF log2[last].result = "cleared" THEN NoOutcome ELSE last
    BY <2>1, OutcomeOf
  <2> QED
    BY <2>1, <2>2, <2>3
<1> QED
  BY <1>1, <1>2

-----------------------------------------------------------------------------
\* Commands that change the structure of the plan.
LEMMA StructuralKeeps ==
  ASSUME BoardInv, Restructured, UNCHANGED <<sessions, facts, finals>>,
         shots' \in [Shots -> ShotRecords], items' \in [Items -> ItemRecords],
         \A x \in Shots : shots'[x].outcome = shots[x].outcome,
         FinitelyPlaced', BoardInOrder'
  PROVE  BoardInv'
<1>1. status \in PlanStatuses \ {"completed", "archived"}
  BY DEF Restructured, Structural, BoardInv, BoardTyped
<1>2. status' = IF status = "ready" /\ requiredReadinessIncomplete(items') THEN "draft" ELSE status
  BY DEF Restructured, StatusAfterStructuralMutation
<1>3. BoardTyped'
  BY <1>1, <1>2 DEF BoardInv, BoardTyped, PlanStatuses
<1>4. VoidsLookBack'
  BY DEF BoardInv, VoidsLookBack
<1>5. ReadyMeansPrepared'
  BY <1>1, <1>2 DEF ReadyMeansPrepared, requiredReadinessIncomplete
<1>6. OutcomesAreReplayed'
  BY DEF BoardInv, BoardAgrees, OutcomesAreReplayed
<1>7. SnapshotIsFinal'
  BY <1>1, <1>2 DEF SnapshotIsFinal
<1> QED
  BY <1>3, <1>4, <1>5, <1>6, <1>7 DEF BoardInv, BoardAgrees

\* Positions and what is on the board.
LEMMA PlacesStay ==
  ASSUME BoardInv, shots' = shots, UNCHANGED items, shotLinks' \subseteq CurrentShots \X CurrentItems
  PROVE  FinitelyPlaced' /\ BoardInOrder'
BY DEF BoardInv, FinitelyPlaced, CurrentShots, CurrentItems, BoardAgrees, BoardInOrder

LEMMA LastPlaceIsLast ==
  ASSUME BoardInv
  PROVE  LastPlace \in Nat /\ \A x \in CurrentShots : shots[x].position <= LastPlace
<1>1. \A x \in CurrentShots : shots[x].position \in Nat /\ shots[x].position \in Positions
  BY DEF BoardInv, BoardTyped, ShotRecords, CurrentShots, Positions
<1>2. PICK P : P = Positions
  OBVIOUS
<1>3. CASE P = {}
  BY <1>1, <1>2, <1>3 DEF LastPlace
<1>4. CASE P # {}
  <2>1. PICK bound \in Nat : \A x \in CurrentShots : shots[x].position <= bound
    BY DEF BoardInv, FinitelyPlaced
  <2>2. P \subseteq Nat /\ \A n \in P : n <= bound
    BY <1>1, <1>2, <2>1 DEF Positions
  <2>3. \E m \in P : \A n \in P : n <= m
    BY <1>4, <2>1, <2>2, LastOf
  <2>4. LastPlace = CHOOSE p \in P : \A q \in P : q <= p
    BY <1>2, <1>4 DEF LastPlace
  <2>5. LastPlace \in P /\ \A q \in P : q <= LastPlace
    BY <2>3, <2>4
  <2> QED
    BY <1>1, <1>2, <2>2, <2>5
<1> QED
  BY <1>3, <1>4

LEMMA InsertStep ==
  ASSUME BoardInv, NEW x \in Shots, NEW after \in Shots \cup {NoShot}, InsertShot(x, after)
  PROVE  BoardInv'
<1>0. \A y \in Shots : /\ shots[y] \in ShotRecords /\ shots[y].position \in Nat
                       /\ y \in CurrentShots <=> shots[y].state = "current"
  BY DEF BoardInv, BoardTyped, ShotRecords, CurrentShots
<1>1. PICK place \in Nat :
        /\ place = insertionPosition(after)
        /\ \A y \in CurrentShots : shots[y].position >= place =>
             after # NoShot /\ shots[y].position > shots[after].position
  <2>1. CASE after = NoShot
    BY <1>0, <2>1, LastPlaceIsLast DEF insertionPosition, CurrentShots
  <2>2. CASE after # NoShot
    <3>1. after \in Shots /\ shots[after].position \in Nat
      BY <1>0, <2>2
    <3> QED
      BY <1>0, <2>2, <3>1 DEF insertionPosition, CurrentShots
  <2> QED
    BY <2>1, <2>2
<1>2. ASSUME NEW y \in Shots
      PROVE  shots'[y] = IF y = x THEN [shots[x] EXCEPT !.state = "current", !.position = place]
                         ELSE IF y \in CurrentShots /\ shots[y].position >= place
                              THEN [shots[y] EXCEPT !.position = @ + 1] ELSE shots[y]
  BY <1>1 DEF InsertShot
<1>3. /\ DOMAIN shots' = Shots /\ shots' = [y \in Shots |-> shots'[y]]
      /\ UNCHANGED <<items, shotLinks, sessions, facts, finals>> /\ Restructured /\ shots[x].state = "new"
  BY DEF InsertShot
<1>4. ASSUME NEW y \in Shots
      PROVE  /\ shots'[y] \in ShotRecords /\ shots'[y].outcome = shots[y].outcome
             /\ shots'[y].state = (IF y = x THEN "current" ELSE shots[y].state)
             /\ shots'[y].position = IF y = x THEN place
                                     ELSE IF y \in CurrentShots /\ shots[y].position >= place
                                          THEN shots[y].position + 1 ELSE shots[y].position
  <2>1. PICK r \in ShotRecords : r = shots[y] /\ r.position \in Nat
    BY <1>0
  <2>2. CASE y = x
    BY <1>1, <1>2, <2>1, <2>2 DEF ShotRecords, Lives
  <2>3. CASE y # x /\ y \in CurrentShots /\ shots[y].position >= place
    <3>1. PICK n \in Nat : n = r.position + 1
      BY <2>1
    <3>2. shots'[y] = [r EXCEPT !.position = n]
      BY <1>2, <2>1, <2>3, <3>1
    <3>3. /\ [r EXCEPT !.position = n] \in ShotRecords /\ [r EXCEPT !.position = n].outcome = r.outcome
          /\ [r EXCEPT !.position = n].state = r.state /\ [r EXCEPT !.position = n].position = n
      BY DEF ShotRecords
    <3> QED
      BY <2>1, <2>3, <3>1, <3>2, <3>3
  <2>4. CASE y # x /\ ~(y \in CurrentShots /\ shots[y].position >= place)
    BY <1>2, <2>1, <2>4
  <2> QED
    BY <2>2, <2>3, <2>4
<1>5. shots' \in [Shots -> ShotRecords]
  BY <1>3, <1>4
<1>6. CurrentShots' = CurrentShots \cup {x} /\ x \notin CurrentShots
  BY <1>3, <1>4 DEF CurrentShots
<1>7. FinitelyPlaced'
  <2>1. IsFiniteSet(CurrentShots')
    BY <1>6, FS_AddElement DEF BoardInv, FinitelyPlaced
  <2>2. PICK bound \in Nat : \A y \in CurrentShots : shots[y].position <= bound
    BY DEF BoardInv, FinitelyPlaced
  <2>3. PICK more \in Nat : more = bound + place + 1
    BY <1>1
  <2>4. ASSUME NEW y \in CurrentShots' PROVE shots'[y].position <= more
    <3>1. y \in Shots /\ shots[y].position \in Nat
      BY <1>0 DEF CurrentShots
    <3>2. CASE y = x
      BY <1>1, <1>4, <2>3, <3>1, <3>2
    <3>3. CASE y # x
      <4>1. shots[y].position <= bound
        BY <1>6, <2>2, <2>4, <3>3
      <4> QED
        BY <1>1, <1>4, <2>3, <3>1, <3>3, <4>1
    <3> QED
      BY <3>2, <3>3
  <2> QED
    BY <2>1, <2>3, <2>4 DEF FinitelyPlaced
<1>8. BoardInOrder'
  <2>1. ASSUME NEW y \in CurrentShots', NEW z \in CurrentShots', shots'[y].position = shots'[z].position
        PROVE  y = z
    <3>1. /\ y \in Shots /\ z \in Shots /\ (y # x => y \in CurrentShots) /\ (z # x => z \in CurrentShots)
          /\ shots[y].position \in Nat /\ shots[z].position \in Nat
      BY <1>0, <1>6 DEF CurrentShots
    <3>2. \A v, w \in CurrentShots : shots[v].position = shots[w].position => v = w
      BY DEF BoardInv, BoardAgrees, BoardInOrder
    <3>3. /\ shots'[y].position = IF y = x THEN place
                                  ELSE IF y \in CurrentShots /\ shots[y].position >= place
                                       THEN shots[y].position + 1 ELSE shots[y].position
          /\ shots'[z].position = IF z = x THEN place
                                  ELSE IF z \in CurrentShots /\ shots[z].position >= place
                                       THEN shots[z].position + 1 ELSE shots[z].position
      BY <1>4, <3>1
    <3>4. PICK a \in Nat, b \in Nat : a = shots[y].position /\ b = shots[z].position
      BY <3>1
    <3>5. CASE y # x /\ z # x
      <4>1. (IF a >= place THEN a + 1 ELSE a) = IF b >= place THEN b + 1 ELSE b
        BY <2>1, <3>1, <3>3, <3>4, <3>5
      <4>2. a = b
        BY <1>1, <3>4, <4>1
      <4> QED
        BY <3>1, <3>2, <3>4, <3>5, <4>2
    <3>6. CASE y = x /\ z # x
      <4>1. place = IF b >= place THEN b + 1 ELSE b
        BY <2>1, <3>1, <3>3, <3>4, <3>6
      <4> QED
        BY <1>1, <3>4, <4>1
    <3>7. CASE y # x /\ z = x
      <4>1. place = IF a >= place THEN a + 1 ELSE a
        BY <2>1, <3>1, <3>3, <3>4, <3>7
      <4> QED
        BY <1>1, <3>4, <4>1
    <3> QED
      BY <3>5, <3>6, <3>7
  <2>2. shotLinks' \subseteq CurrentShots' \X CurrentItems'
    <3>1. CurrentItems' = CurrentItems /\ shotLinks \subseteq CurrentShots \X CurrentItems
      BY <1>3 DEF CurrentItems, BoardInv, BoardAgrees, BoardInOrder
    <3> QED
      BY <1>3, <1>6, <3>1
  <2> QED
    BY <2>1, <2>2 DEF BoardInOrder
<1> QED
  BY <1>3, <1>4, <1>5, <1>7, <1>8, StructuralKeeps DEF BoardInv, BoardTyped

\* Numbering along a sequence of the shots of the board, and perhaps a new one.
LEMMA NumberedKeeps ==
  ASSUME BoardInv, NEW S, S \subseteq Shots, IsFiniteSet(S), CurrentShots \subseteq S,
         NEW order, DOMAIN order = 1..Len(order), Len(order) \in Nat,
         \A k \in 1..Len(order) : order[k] \in S,
         \A y \in S : \E k \in 1..Len(order) : order[k] = y,
         shots' = Numbered(order)
  PROVE  /\ shots' \in [Shots -> ShotRecords] /\ \A x \in Shots : shots'[x].outcome = shots[x].outcome
         /\ FinitelyPlaced' /\ CurrentShots' = S
         /\ \A x, y \in CurrentShots' : shots'[x].position = shots'[y].position => x = y
<1>1. ASSUME NEW y \in Shots
      PROVE  /\ shots'[y] \in ShotRecords /\ shots'[y].outcome = shots[y].outcome
             /\ y \in S => /\ shots'[y].state = "current" /\ shots'[y].position \in 1..Len(order)
                           /\ order[shots'[y].position] = y
             /\ y \notin S => shots'[y] = shots[y]
  <2>1. PICK r \in ShotRecords : r = shots[y]
    BY DEF BoardInv, BoardTyped
  <2>2. CASE y \in S
    <3>1. PICK n : n = CHOOSE k \in DOMAIN order : order[k] = y
      OBVIOUS
    <3>2. n \in 1..Len(order) /\ order[n] = y /\ n \in Nat
      BY <2>2, <3>1
    <3>3. shots'[y] = [r EXCEPT !.state = "current", !.position = n]
      BY <2>1, <2>2, <3>1 DEF Numbered
    <3> QED
      BY <2>1, <2>2, <3>2, <3>3 DEF ShotRecords, Lives
  <2>3. CASE y \notin S
    <3>1. ~\E k \in DOMAIN order : order[k] = y
      BY <2>3
    <3>2. shots'[y] = r
      BY <2>1, <3>1 DEF Numbered
    <3> QED
      BY <2>1, <2>3, <3>2
  <2> QED
    BY <2>2, <2>3
<1>2. shots' = [x \in Shots |-> shots'[x]]
  BY DEF Numbered
<1>3. shots' \in [Shots -> ShotRecords]
  BY <1>1, <1>2
<1>4. CurrentShots' = S
  BY <1>1 DEF CurrentShots
<1>5. FinitelyPlaced'
  <2>1. \A x \in CurrentShots' : shots'[x].position <= Len(order)
    BY <1>1, <1>4
  <2> QED
    BY <1>4, <2>1 DEF FinitelyPlaced
<1> QED
  BY <1>1, <1>3, <1>4, <1>5

LEMMA ReorderStep ==
  ASSUME BoardInv, NEW order \in SetToSeqs(CurrentShots), ReorderShots(order)
  PROVE  BoardInv'
<1>1. IsFiniteSet(CurrentShots) /\ CurrentShots \subseteq Shots
  BY DEF BoardInv, FinitelyPlaced, CurrentShots
<1>2. PICK n \in Nat : n = Cardinality(CurrentShots)
  BY <1>1, FS_CardinalityType
<1>3. order \in [1..n -> CurrentShots] /\ \A i, j \in 1..n : i # j => order[i] # order[j]
  BY <1>2 DEF SetToSeqs
<1>4. IsFiniteSet(1..n) /\ Cardinality(1..n) = n
  BY FS_Interval
<1>5. order \in Injection(1..n, CurrentShots)
  BY <1>3 DEF Injection, IsInjective
<1>6. order \in Surjection(1..n, CurrentShots)
  BY <1>1, <1>2, <1>4, <1>5, FS_Injection
<1>7. DOMAIN order = 1..n /\ Len(order) = n
  BY <1>3
<1>8. /\ \A k \in 1..Len(order) : order[k] \in CurrentShots
      /\ \A y \in CurrentShots : \E k \in 1..Len(order) : order[k] = y
  BY <1>3, <1>6, <1>7 DEF Surjection
<1>9. shots' = Numbered(order) /\ UNCHANGED <<items, shotLinks, sessions, facts, finals>> /\ Restructured
  BY DEF ReorderShots
<1>10. /\ shots' \in [Shots -> ShotRecords] /\ \A x \in Shots : shots'[x].outcome = shots[x].outcome
       /\ FinitelyPlaced' /\ CurrentShots' = CurrentShots
       /\ \A x, y \in CurrentShots' : shots'[x].position = shots'[y].position => x = y
  BY <1>1, <1>7, <1>8, <1>9, NumberedKeeps
<1>11. BoardInOrder'
  BY <1>9, <1>10 DEF BoardInv, BoardAgrees, BoardInOrder, CurrentItems
<1> QED
  BY <1>9, <1>10, <1>11, StructuralKeeps DEF BoardInv, BoardTyped

LEMMA RemoveStep ==
  ASSUME BoardInv, NEW x \in Shots, RemoveShot(x)
  PROVE  BoardInv'
<1>1. /\ shots' = [shots EXCEPT ![x].state = "removed", ![x].position = 0]
      /\ shotLinks' = {l \in shotLinks : l[1] # x}
      /\ UNCHANGED <<items, sessions, facts, finals>> /\ Restructured
  BY DEF RemoveShot
<1>2. PICK r \in ShotRecords : r = shots[x]
  BY DEF BoardInv, BoardTyped
<1>3. shots' = [shots EXCEPT ![x] = [r EXCEPT !.state = "removed", !.position = 0]]
  BY <1>1, <1>2 DEF BoardInv, BoardTyped
<1>4. LET q == [r EXCEPT !.state = "removed", !.position = 0]
      IN q \in ShotRecords /\ q.state = "removed" /\ q.outcome = r.outcome
  BY DEF ShotRecords, Lives
<1>5. /\ shots' \in [Shots -> ShotRecords] /\ shots'[x].state = "removed"
      /\ \A y \in Shots : /\ shots'[y].outcome = shots[y].outcome
                          /\ y # x => shots'[y] = shots[y]
  BY <1>2, <1>3, <1>4 DEF BoardInv, BoardTyped
<1>6. CurrentShots' = CurrentShots \ {x}
  BY <1>5 DEF CurrentShots
<1>7. FinitelyPlaced'
  <2>1. IsFiniteSet(CurrentShots')
    BY <1>6, FS_RemoveElement DEF BoardInv, FinitelyPlaced
  <2>2. \A y \in CurrentShots' : y \in CurrentShots /\ shots'[y] = shots[y]
    BY <1>5, <1>6 DEF CurrentShots
  <2> QED
    BY <2>1, <2>2 DEF BoardInv, FinitelyPlaced
<1>8. BoardInOrder'
  <2>1. \A y \in CurrentShots' : y \in CurrentShots /\ shots'[y] = shots[y]
    BY <1>5, <1>6 DEF CurrentShots
  <2>2. shotLinks' \subseteq CurrentShots' \X CurrentItems'
    <3>1. CurrentItems' = CurrentItems /\ shotLinks \subseteq CurrentShots \X CurrentItems
      BY <1>1 DEF CurrentItems, BoardInv, BoardAgrees, BoardInOrder
    <3> QED
      BY <1>1, <1>6, <3>1
  <2> QED
    BY <2>1, <2>2 DEF BoardInv, BoardAgrees, BoardInOrder
<1> QED
  BY <1>1, <1>5, <1>7, <1>8, StructuralKeeps DEF BoardInv, BoardTyped

\* The shots of the board can be listed in the order of their places.
LEMMA Sortable ==
  ASSUME BoardInv
  PROVE  \E o \in SetToSeqs(CurrentShots) :
           \A j, k \in DOMAIN o : j < k => shots[o[j]].position < shots[o[k]].position
<1>1. PICK S : S = CurrentShots /\ IsFiniteSet(S)
  BY DEF BoardInv, FinitelyPlaced
<1>2. PICK n \in Nat : n = Cardinality(S)
  BY <1>1, FS_CardinalityType
<1>3. \A x \in S : shots[x].position \in Nat
  BY <1>1 DEF BoardInv, BoardTyped, ShotRecords, CurrentShots
<1>4. \A x, y \in S : shots[x].position = shots[y].position => x = y
  BY <1>1 DEF BoardInv, BoardAgrees, BoardInOrder
<1> DEFINE upTo(x) == {y \in S : shots[y].position <= shots[x].position}
           rank == [x \in S |-> Cardinality(upTo(x))]
<1>5. ASSUME NEW x \in S PROVE IsFiniteSet(upTo(x)) /\ x \in upTo(x) /\ rank[x] \in 1..n
  <2>1. x \in upTo(x) /\ upTo(x) \in SUBSET S
    BY <1>3
  <2>2. IsFiniteSet(upTo(x)) /\ Cardinality(upTo(x)) <= n
    BY <1>1, <1>2, <2>1, FS_Subset
  <2>3. Cardinality(upTo(x)) \in Nat /\ (Cardinality(upTo(x)) = 0 <=> upTo(x) = {})
    BY <2>2, FS_CardinalityType, FS_EmptySet
  <2> QED
    BY <1>2, <2>1, <2>2, <2>3
<1>6. ASSUME NEW x \in S, NEW y \in S, shots[x].position < shots[y].position PROVE rank[x] < rank[y]
  <2>1. upTo(x) \in SUBSET upTo(y) /\ y \notin upTo(x) /\ y \in upTo(y)
    BY <1>3, <1>6
  <2>2. /\ IsFiniteSet(upTo(y)) /\ Cardinality(upTo(x)) <= Cardinality(upTo(y))
        /\ (Cardinality(upTo(y)) = Cardinality(upTo(x)) => upTo(y) = upTo(x))
    BY <1>5, <2>1, FS_Subset
  <2>3. rank[x] \in Nat /\ rank[y] \in Nat /\ rank[x] = Cardinality(upTo(x)) /\ rank[y] = Cardinality(upTo(y))
    BY <1>5
  <2> QED
    BY <2>1, <2>2, <2>3
<1>7. rank \in [S -> 1..n]
  BY <1>5
<1> HIDE DEF rank
<1>8. \A x, y \in S : rank[x] = rank[y] => x = y
  <2> SUFFICES ASSUME NEW x \in S, NEW y \in S, rank[x] = rank[y] PROVE x = y
    OBVIOUS
  <2>1. PICK a \in Nat, b \in Nat : a = shots[x].position /\ b = shots[y].position
    BY <1>3
  <2>2. ~(a < b) /\ ~(b < a)
    <3>1. rank[x] \in Nat /\ rank[y] \in Nat
      BY <1>7
    <3> QED
      BY <1>6, <2>1, <3>1
  <2> QED
    BY <1>4, <2>1, <2>2
<1>9. \A k \in 1..n : \E x \in S : rank[x] = k
  <2>1. rank \in Injection(S, 1..n)
    BY <1>7, <1>8 DEF Injection, IsInjective
  <2>2. IsFiniteSet(1..n) /\ Cardinality(1..n) = n
    BY FS_Interval
  <2>3. rank \in Surjection(S, 1..n)
    BY <1>2, <2>1, <2>2, FS_Injection
  <2> QED
    BY <2>3 DEF Surjection
<1>10. PICK o : o = [k \in 1..n |-> CHOOSE x \in S : rank[x] = k]
  OBVIOUS
<1>11. ASSUME NEW k \in 1..n PROVE o[k] \in S /\ rank[o[k]] = k
  <2>1. o[k] = CHOOSE x \in S : rank[x] = k
    BY <1>10
  <2> QED
    BY <1>9, <2>1
<1>12. o \in SetToSeqs(S)
  <2>1. o \in [1..n -> S] /\ \A i, j \in 1..n : i # j => o[i] # o[j]
    BY <1>10, <1>11
  <2> QED
    BY <1>2, <2>1 DEF SetToSeqs
<1>13. ASSUME NEW j \in 1..n, NEW k \in 1..n, j < k
       PROVE  shots[o[j]].position < shots[o[k]].position
  <2>1. PICK x \in S, y \in S : x = o[j] /\ y = o[k] /\ rank[x] = j /\ rank[y] = k
    BY <1>11
  <2>2. PICK a \in Nat, b \in Nat : a = shots[x].position /\ b = shots[y].position
    BY <1>3
  <2>3. ~(b < a) /\ a # b
    BY <1>4, <1>6, <1>13, <2>1, <2>2
  <2> QED
    BY <2>1, <2>2, <2>3
<1> QED
  BY <1>1, <1>10, <1>12, <1>13

\* A list of all of a finite set.
LEMMA ListsAll ==
  ASSUME NEW S, IsFiniteSet(S), NEW o \in SetToSeqs(S)
  PROVE  /\ o \in Seq(S) /\ Len(o) \in Nat /\ DOMAIN o = 1..Len(o)
         /\ \A k \in 1..Len(o) : o[k] \in S
         /\ \A y \in S : \E k \in 1..Len(o) : o[k] = y
<1>1. PICK n \in Nat : n = Cardinality(S)
  BY FS_CardinalityType
<1>2. o \in [1..n -> S] /\ \A i, j \in 1..n : i # j => o[i] # o[j]
  BY <1>1 DEF SetToSeqs
<1>3. IsFiniteSet(1..n) /\ Cardinality(1..n) = n
  BY FS_Interval
<1>4. o \in Injection(1..n, S)
  BY <1>2 DEF Injection, IsInjective
<1>5. o \in Surjection(1..n, S)
  BY <1>1, <1>3, <1>4, FS_Injection
<1>6. DOMAIN o = 1..n /\ Len(o) = n /\ o \in Seq(S)
  BY <1>2
<1> QED
  BY <1>2, <1>5, <1>6 DEF Surjection

\* One more element, put anywhere in a list.
LEMMA PutIn ==
  ASSUME NEW S, NEW o \in Seq(S), NEW x, NEW p \in 1..(Len(o) + 1)
  PROVE  LET q == InsertAt(o, p, x)
         IN /\ Len(q) = Len(o) + 1 /\ DOMAIN q = 1..Len(q)
            /\ \A k \in 1..Len(q) : q[k] = IF k < p THEN o[k] ELSE IF k = p THEN x ELSE o[k - 1]
<1> DEFINE a == SubSeq(o, 1, p - 1)
           c == SubSeq(o, p, Len(o))
           T == S \cup {x}
<1>0. o \in Seq(T) /\ Len(o) \in Nat /\ \A k \in 1..Len(o) : o[k] \in T
  OBVIOUS
<1>1. a \in Seq(T) /\ Len(a) = p - 1 /\ \A k \in 1..(p - 1) : a[k] = o[k]
  BY <1>0
<1>2. c \in Seq(T) /\ Len(c) = Len(o) - p + 1 /\ \A k \in 1..(Len(o) - p + 1) : c[k] = o[k + p - 1]
  BY <1>0
<1>3. <<x>> \in Seq(T) /\ Len(<<x>>) = 1 /\ <<x>>[1] = x
  OBVIOUS
<1>4. InsertAt(o, p, x) = (a \o <<x>>) \o c
  BY DEF InsertAt
<1> HIDE DEF a, c, T
<1>5. PICK h : h = a \o <<x>>
  OBVIOUS
<1>6. /\ h \in Seq(T) /\ Len(h) = p /\ h[p] = x
      /\ \A k \in 1..(p - 1) : h[k] = o[k]
  BY <1>0, <1>1, <1>3, <1>5
<1>7. PICK q : q = h \o c
  OBVIOUS
<1>8. /\ q \in Seq(T) /\ Len(q) = Len(o) + 1 /\ DOMAIN q = 1..Len(q)
      /\ \A k \in 1..p : q[k] = h[k]
      /\ \A k \in (p + 1)..(Len(o) + 1) : q[k] = c[k - p]
  BY <1>0, <1>2, <1>6, <1>7
<1>9. ASSUME NEW k \in 1..Len(q) PROVE q[k] = IF k < p THEN o[k] ELSE IF k = p THEN x ELSE o[k - 1]
  <2>1. CASE k < p
    BY <1>0, <1>6, <1>8, <2>1
  <2>2. CASE k = p
    BY <1>0, <1>6, <1>8, <2>2
  <2>3. CASE k > p
    <3>1. k - p \in 1..(Len(o) - p + 1) /\ (k - p) + p - 1 = k - 1 /\ k \in (p + 1)..(Len(o) + 1)
      BY <1>0, <1>8, <2>3
    <3>2. q[k] = c[k - p]
      BY <1>8, <3>1
    <3>3. c[k - p] = o[(k - p) + p - 1]
      BY <1>2, <3>1
    <3> QED
      BY <2>3, <3>1, <3>2, <3>3
  <2> QED
    BY <1>0, <1>8, <2>1, <2>2, <2>3
<1> QED
  BY <1>4, <1>5, <1>7, <1>8, <1>9

Lists(order, S) == /\ Len(order) \in Nat /\ DOMAIN order = 1..Len(order)
                   /\ \A k \in 1..Len(order) : order[k] \in S
                   /\ \A y \in S : \E k \in 1..Len(order) : order[k] = y

\* The order a batch gives lists what was on the board and the new shot.
LEMMA BatchOrder ==
  ASSUME BoardInv, NEW x \in Shots, NEW after, after = NoShot \/ after \in CurrentShots,
         NEW order, order = applyBatchShotPositions(x, after), NEW S, S = CurrentShots \cup {x}
  PROVE  Lists(order, S)
<1>1. PICK C : C = CurrentShots /\ IsFiniteSet(C)
  BY DEF BoardInv, FinitelyPlaced
<1>2. PICK o : o = CHOOSE oo \in SetToSeqs(C) :
                      \A j, k \in DOMAIN oo : j < k => shots[oo[j]].position < shots[oo[k]].position
  OBVIOUS
<1>3. o \in SetToSeqs(C)
  BY <1>1, <1>2, Sortable
<1>4. /\ o \in Seq(C) /\ Len(o) \in Nat /\ DOMAIN o = 1..Len(o)
      /\ \A k \in 1..Len(o) : o[k] \in C
      /\ \A y \in C : \E k \in 1..Len(o) : o[k] = y
  BY <1>1, <1>3, ListsAll
<1>5. applyBatchShotPositions(x, after) =
        IF after = NoShot THEN Append(o, x) ELSE InsertAt(o, Placed(o, after) + 1, x)
  BY <1>1, <1>2 DEF applyBatchShotPositions
<1>6. CASE after = NoShot
  <2>1. PICK q : q = Append(o, x)
    OBVIOUS
  <2>2. /\ Len(q) = Len(o) + 1 /\ DOMAIN q = 1..Len(q) /\ q[Len(o) + 1] = x
        /\ \A k \in 1..Len(o) : q[k] = o[k]
    BY <1>4, <2>1
  <2>3. \A k \in 1..Len(q) : q[k] \in C \cup {x}
    BY <1>4, <2>2
  <2>4. \A y \in C \cup {x} : \E k \in 1..Len(q) : q[k] = y
    BY <1>4, <2>2
  <2> QED
    BY <1>1, <1>4, <1>5, <1>6, <2>1, <2>2, <2>3, <2>4 DEF Lists
<1>7. CASE after # NoShot
  <2>1. PICK p : p = Placed(o, after) + 1
    OBVIOUS
  <2>2. p \in 1..(Len(o) + 1)
    <3>1. PICK I : I = {i \in 1..Len(o) : o[i] = after}
      OBVIOUS
    <3>2. Placed(o, after) = IF I # {} THEN Min(I) ELSE 0
      BY <3>1 DEF Placed, SelectInSeq
    <3>3. after \in C
      BY <1>1, <1>7
    <3>4. I # {} /\ I \subseteq 1..Len(o)
      BY <1>4, <3>1, <3>3
    <3>5. Min(I) \in 1..Len(o)
      <4>1. I \subseteq Nat
        BY <1>4, <3>4
      <4>2. \E m \in I : \A i \in I : m <= i
        BY <3>4, <4>1, FirstOf
      <4> QED
        BY <3>4, <4>2 DEF Min
    <3> QED
      BY <1>4, <2>1, <3>2, <3>4, <3>5
  <2>3. PICK q : q = InsertAt(o, p, x)
    OBVIOUS
  <2>4. /\ Len(q) = Len(o) + 1 /\ DOMAIN q = 1..Len(q)
        /\ \A k \in 1..Len(q) : q[k] = IF k < p THEN o[k] ELSE IF k = p THEN x ELSE o[k - 1]
    BY <1>4, <2>2, <2>3, PutIn
  <2>5. ASSUME NEW k \in 1..Len(q) PROVE q[k] \in C \cup {x}
    <3>1. (k < p => k \in 1..Len(o)) /\ (k > p => k - 1 \in 1..Len(o))
      BY <1>4, <2>2, <2>4
    <3> QED
      BY <1>4, <2>2, <2>4, <3>1
  <2>6. ASSUME NEW y \in C \cup {x} PROVE \E k \in 1..Len(q) : q[k] = y
    <3>1. CASE y = x
      BY <1>4, <2>2, <2>4, <3>1
    <3>2. CASE y # x
      <4>1. PICK k \in 1..Len(o) : o[k] = y
        BY <1>4, <3>2
      <4>2. CASE k < p
        BY <1>4, <2>2, <2>4, <4>1, <4>2
      <4>3. CASE k >= p
        <5>1. k + 1 \in 1..Len(q) /\ k + 1 > p /\ (k + 1) - 1 = k
          BY <1>4, <2>2, <2>4, <4>3
        <5>2. q[k + 1] = o[k]
          BY <2>2, <2>4, <5>1
        <5> QED
          BY <4>1, <5>1, <5>2
      <4> QED
        BY <1>4, <2>2, <4>2, <4>3
    <3> QED
      BY <3>1, <3>2
  <2> QED
    BY <1>1, <1>4, <1>5, <1>7, <2>1, <2>3, <2>4, <2>5, <2>6 DEF Lists
<1> QED
  BY <1>6, <1>7

\* A numbering along such an order keeps the board.
LEMMA BatchStep ==
  ASSUME BoardInv, NEW x \in Shots, NEW after \in Shots \cup {NoShot}, NEW i \in Items,
         NEW required \in BOOLEAN, CommitPlanBatch(x, after, i, required)
  PROVE  BoardInv'
<1>1. /\ after \in CurrentShots \cup {NoShot} /\ items[i].state = "new"
      /\ shots' = Numbered(applyBatchShotPositions(x, after))
      /\ items' = [items EXCEPT ![i] = [state |-> "current", required |-> required, checked |-> FALSE]]
      /\ shotLinks' = shotLinks \cup {<<x, i>>}
      /\ UNCHANGED <<sessions, facts, finals>> /\ Restructured
  BY DEF CommitPlanBatch
<1>2. PICK order : order = applyBatchShotPositions(x, after)
  OBVIOUS
<1>3. PICK S : S = CurrentShots \cup {x}
  OBVIOUS
<1>4. /\ Len(order) \in Nat /\ DOMAIN order = 1..Len(order)
      /\ \A k \in 1..Len(order) : order[k] \in S
      /\ \A y \in S : \E k \in 1..Len(order) : order[k] = y
  <2>1. after = NoShot \/ after \in CurrentShots
    BY <1>1
  <2>2. Lists(order, S)
    BY <1>2, <1>3, <2>1, BatchOrder
  <2> QED
    BY <2>2 DEF Lists
<1>5. S \subseteq Shots /\ IsFiniteSet(S) /\ CurrentShots \subseteq S
  BY <1>3, FS_AddElement DEF BoardInv, FinitelyPlaced, CurrentShots
<1>6. /\ shots' \in [Shots -> ShotRecords] /\ \A y \in Shots : shots'[y].outcome = shots[y].outcome
      /\ FinitelyPlaced' /\ CurrentShots' = S
      /\ \A y, z \in CurrentShots' : shots'[y].position = shots'[z].position => y = z
  BY <1>1, <1>2, <1>4, <1>5, NumberedKeeps
<1>7. items' \in [Items -> ItemRecords] /\ CurrentItems' = CurrentItems \cup {i}
  BY <1>1 DEF BoardInv, BoardTyped, ItemRecords, Lives, CurrentItems
<1>8. BoardInOrder'
  <2>1. shotLinks \subseteq CurrentShots \X CurrentItems
    BY DEF BoardInv, BoardAgrees, BoardInOrder
  <2>2. shotLinks' \subseteq CurrentShots' \X CurrentItems'
    BY <1>1, <1>3, <1>6, <1>7, <2>1
  <2> QED
    BY <1>6, <2>2 DEF BoardInOrder
<1> QED
  BY <1>1, <1>6, <1>7, <1>8, StructuralKeeps

-----------------------------------------------------------------------------
\* The readiness items and what is linked to them.
LEMMA ReadinessStep ==
  ASSUME BoardInv, NEW i \in Items, ItemCommand(i)
  PROVE  BoardInv'
<1>1. shots' = shots /\ UNCHANGED <<sessions, facts, finals>> /\ Restructured
  BY DEF ItemCommand, UpsertReadiness, RemoveReadiness, SetPreflight
<1>2. PICK r \in ItemRecords : r = items[i]
  BY DEF BoardInv, BoardTyped
<1>3. /\ items' \in [Items -> ItemRecords] /\ CurrentItems \ {i} \subseteq CurrentItems'
      /\ shotLinks' \subseteq shotLinks
      /\ i \in CurrentItems => i \in CurrentItems' \/ \A l \in shotLinks' : l[2] # i
  <2>1. CASE \E a, b \in BOOLEAN : UpsertReadiness(i, a, b)
    BY <2>1 DEF UpsertReadiness, BoardInv, BoardTyped, ItemRecords, Lives, CurrentItems
  <2>2. CASE RemoveReadiness(i)
    <3>1. items' = [items EXCEPT ![i] = [r EXCEPT !.state = "removed"]]
      BY <1>2, <2>2 DEF RemoveReadiness
    <3>2. [r EXCEPT !.state = "removed"] \in ItemRecords
      BY DEF ItemRecords, Lives
    <3>3. items' \in [Items -> ItemRecords] /\ \A j \in Items : j # i => items'[j] = items[j]
      BY <3>1, <3>2 DEF BoardInv, BoardTyped
    <3>4. shotLinks' = {l \in shotLinks : l[2] # i}
      BY <2>2 DEF RemoveReadiness
    <3> QED
      BY <3>3, <3>4 DEF CurrentItems
  <2>3. CASE \E b \in BOOLEAN : SetPreflight(i, b)
    <3>1. PICK b \in BOOLEAN : SetPreflight(i, b)
      BY <2>3
    <3>2. items' = [items EXCEPT ![i] = [r EXCEPT !.checked = b]] /\ shotLinks' = shotLinks
      BY <1>2, <3>1 DEF SetPreflight
    <3>3. [r EXCEPT !.checked = b] \in ItemRecords /\ [r EXCEPT !.checked = b].state = r.state
      BY DEF ItemRecords
    <3>4. /\ items' \in [Items -> ItemRecords]
          /\ \A j \in Items : items'[j].state = items[j].state
      BY <1>2, <3>2, <3>3 DEF BoardInv, BoardTyped
    <3> QED
      BY <3>2, <3>4 DEF CurrentItems
  <2> QED
    BY <2>1, <2>2, <2>3 DEF ItemCommand
<1>4. CurrentShots' = CurrentShots
  BY <1>1 DEF CurrentShots
<1>5. FinitelyPlaced'
  BY <1>1, <1>4 DEF BoardInv, FinitelyPlaced
<1>6. BoardInOrder'
  <2>1. shotLinks \subseteq CurrentShots \X CurrentItems
    BY DEF BoardInv, BoardAgrees, BoardInOrder
  <2>2. shotLinks' \subseteq CurrentShots' \X CurrentItems'
    <3> SUFFICES ASSUME NEW l \in shotLinks' PROVE l \in CurrentShots' \X CurrentItems'
      OBVIOUS
    <3>1. l \in CurrentShots \X CurrentItems
      BY <1>3, <2>1
    <3>2. l[2] \in CurrentItems'
      BY <1>3, <3>1
    <3> QED
      BY <1>4, <3>1, <3>2
  <2> QED
    BY <1>1, <1>4, <2>2 DEF BoardInv, BoardAgrees, BoardInOrder
<1> QED
  BY <1>1, <1>3, <1>5, <1>6, StructuralKeeps DEF BoardInv, BoardTyped

LEMMA LinkStep ==
  ASSUME BoardInv, NEW x \in Shots, NEW i \in Items, LinkReadiness(x, i) \/ UnlinkReadiness(x, i)
  PROVE  BoardInv'
<1>1. /\ shots' = shots /\ UNCHANGED <<items, sessions, facts, finals>> /\ Restructured
      /\ x \in CurrentShots /\ i \in CurrentItems /\ shotLinks' \subseteq shotLinks \cup {<<x, i>>}
  BY DEF LinkReadiness, UnlinkReadiness
<1>2. shotLinks' \subseteq CurrentShots \X CurrentItems
  BY <1>1 DEF BoardInv, BoardAgrees, BoardInOrder
<1> QED
  BY <1>1, <1>2, PlacesStay, StructuralKeeps DEF BoardInv, BoardTyped

-----------------------------------------------------------------------------
(***************************************************************************)
(* The log and the transitions of the plan.                                *)
(***************************************************************************)

\* Commands that leave the structure alone and no snapshot to be kept.
LEMMA StructureKept ==
  ASSUME BoardInv, UNCHANGED <<items, shotLinks>>,
         shots' \in [Shots -> ShotRecords],
         \A x \in Shots : shots'[x].state = shots[x].state /\ shots'[x].position = shots[x].position
  PROVE  /\ FinitelyPlaced' /\ BoardInOrder' /\ CurrentShots' = CurrentShots
         /\ requiredReadinessIncomplete(items') = requiredReadinessIncomplete(items)
<1>1. CurrentShots' = CurrentShots /\ CurrentItems' = CurrentItems
  BY DEF CurrentShots, CurrentItems
<1>2. \A x \in CurrentShots : shots'[x].position = shots[x].position
  BY DEF CurrentShots
<1>3. FinitelyPlaced'
  <2>1. PICK bound \in Nat : \A x \in CurrentShots : shots[x].position <= bound
    BY DEF BoardInv, FinitelyPlaced
  <2>2. \A x \in CurrentShots' : shots'[x].position <= bound
    BY <1>1, <1>2, <2>1
  <2> QED
    BY <1>1, <2>2 DEF BoardInv, FinitelyPlaced
<1>4. BoardInOrder'
  BY <1>1, <1>2 DEF BoardInv, BoardAgrees, BoardInOrder
<1> QED
  BY <1>1, <1>3, <1>4

\* What an append to the log does to the outcomes.
LEMMA AppendResult ==
  ASSUME BoardInv, NEW x \in Shots, NEW result \in Results, NEW live \in BOOLEAN,
         AppendShotResult(x, result, live)
  PROVE  BoardInv'
<1>1. PICK e : e = [kind |-> "result", shot |-> x, result |-> result, live |-> live]
  OBVIOUS
<1>2. /\ facts' = Append(facts, e) /\ status = "in_progress"
      /\ shots' = [shots EXCEPT ![x].outcome = IF result = "cleared" THEN NoOutcome ELSE Len(facts) + 1]
      /\ UNCHANGED <<status, items, shotLinks, sessions, finals>>
  BY <1>1 DEF AppendShotResult
<1>3. PICK n \in Nat : n = Len(facts)
  BY FactsOf DEF BoardInv
<1>4. /\ facts' \in Seq(ResultFacts \cup VoidFacts) /\ Len(facts') = n + 1 /\ DOMAIN facts' = 1..(n + 1)
      /\ facts'[n + 1] = e /\ \A k \in 1..n : facts'[k] = facts[k]
  <2>1. e \in ResultFacts \cup VoidFacts
    BY <1>1 DEF ResultFacts
  <2>2. PICK T : T = ResultFacts \cup VoidFacts
    OBVIOUS
  <2>3. facts \in Seq(T) /\ e \in T
    BY <2>1, <2>2 DEF BoardInv, BoardTyped
  <2> QED
    BY <1>2, <1>3, <2>2, <2>3
<1>5. e.kind = "result" /\ e.shot = x /\ e.result = result
  BY <1>1
<1>6. DOMAIN facts = 1..n /\ \A k \in 1..n : facts[k].kind = "void" => facts[k].target \in 1..n
  BY <1>3, FactsOf DEF BoardInv, VoidsLookBack
<1>7. Voided(facts') = Voided(facts) /\ Voided(facts) \subseteq 1..n
  <2>1. {k \in DOMAIN facts' : facts'[k].kind = "void"} = {k \in DOMAIN facts : facts[k].kind = "void"}
    BY <1>3, <1>4, <1>5, <1>6
  <2>2. \A k \in {k \in DOMAIN facts : facts[k].kind = "void"} : facts'[k].target = facts[k].target
    BY <1>4, <1>6
  <2>3. Voided(facts) \subseteq 1..n
    BY <1>6 DEF Voided
  <2> QED
    BY <2>1, <2>2, <2>3 DEF Voided
<1>8. PICK v \in Nat : v = IF result = "cleared" THEN NoOutcome ELSE n + 1
  BY <1>3 DEF NoOutcome
<1>9. PICK r \in ShotRecords : r = shots[x]
  BY DEF BoardInv, BoardTyped
<1>10. /\ shots' \in [Shots -> ShotRecords] /\ shots'[x].outcome = v
       /\ \A y \in Shots : /\ shots'[y].state = shots[y].state /\ shots'[y].position = shots[y].position
                           /\ y # x => shots'[y].outcome = shots[y].outcome
  <2>1. shots' = [shots EXCEPT ![x] = [r EXCEPT !.outcome = v]]
    BY <1>2, <1>3, <1>8, <1>9
  <2>2. LET q == [r EXCEPT !.outcome = v]
        IN q \in ShotRecords /\ q.outcome = v /\ q.state = r.state /\ q.position = r.position
    BY DEF ShotRecords
  <2> QED
    BY <1>9, <2>1, <2>2 DEF BoardInv, BoardTyped
<1>11. OutcomesAreReplayed'
  <2>1. ASSUME NEW y \in Shots, y # x
        PROVE  shots'[y].outcome = ReplayCurrentOutcome(facts', y)
    <3>1. Counting(facts', y) = Counting(facts, y)
      BY <1>3, <1>4, <1>5, <1>7, <2>1 DEF Counting
    <3>2. \A k \in Counting(facts, y) : facts'[k] = facts[k]
      BY <1>3, <1>4 DEF Counting
    <3>3. ReplayCurrentOutcome(facts', y) = ReplayCurrentOutcome(facts, y)
      BY <1>3, <1>4, <1>6, <3>1, <3>2, SameOutcome
    <3> QED
      BY <1>10, <2>1, <3>3 DEF BoardInv, BoardAgrees, OutcomesAreReplayed
  <2>2. shots'[x].outcome = ReplayCurrentOutcome(facts', x)
    <3>1. n + 1 \in Counting(facts', x) /\ \A j \in Counting(facts', x) : j <= n + 1
      <4>1. n + 1 \notin Voided(facts')
        BY <1>7
      <4> QED
        BY <1>4, <1>5, <4>1 DEF Counting
    <3>2. ReplayCurrentOutcome(facts', x) = IF facts'[n + 1].result = "cleared" THEN NoOutcome ELSE n + 1
      BY <1>4, <3>1, OutcomeOf
    <3> QED
      BY <1>4, <1>5, <1>8, <1>10, <3>2
  <2> QED
    BY <2>1, <2>2 DEF OutcomesAreReplayed
<1>12. VoidsLookBack'
  <2> SUFFICES ASSUME NEW k \in 1..(n + 1), facts'[k].kind = "void" PROVE facts'[k].target \in 1..(n + 1)
    BY <1>4 DEF VoidsLookBack
  <2>1. k \in 1..n
    BY <1>4, <1>5
  <2> QED
    BY <1>4, <1>6, <2>1
<1>13. BoardTyped'
  BY <1>2, <1>4, <1>10 DEF BoardInv, BoardTyped
<1>14. FinitelyPlaced' /\ BoardInOrder'
  BY <1>2, <1>10, StructureKept
<1>15. ReadyMeansPrepared' /\ SnapshotIsFinal'
  BY <1>2 DEF ReadyMeansPrepared, SnapshotIsFinal
<1> QED
  BY <1>11, <1>12, <1>13, <1>14, <1>15 DEF BoardInv, BoardAgrees

LEMMA VoidStep ==
  ASSUME BoardInv, NEW e \in DOMAIN facts, VoidExecutionEvent(e)
  PROVE  BoardInv'
<1>1. PICK n \in Nat : n = Len(facts)
  BY FactsOf DEF BoardInv
<1>2. PICK x \in Shots : x = facts[e].shot
  BY FactsOf DEF BoardInv
<1>3. PICK w : w = [kind |-> "void", shot |-> x, target |-> e]
  OBVIOUS
<1>4. /\ facts' = Append(facts, w) /\ status = "in_progress" /\ facts[e].kind = "result"
      /\ shots' = [shots EXCEPT ![x].outcome = ReplayCurrentOutcome(facts', x)]
      /\ UNCHANGED <<status, items, shotLinks, sessions, finals>>
  BY <1>2, <1>3 DEF VoidExecutionEvent
<1>5. e \in 1..n /\ e \in Nat /\ DOMAIN facts = 1..n
  BY <1>1, FactsOf DEF BoardInv
<1>6. /\ facts' \in Seq(ResultFacts \cup VoidFacts) /\ Len(facts') = n + 1 /\ DOMAIN facts' = 1..(n + 1)
      /\ facts'[n + 1] = w /\ \A k \in 1..n : facts'[k] = facts[k]
  <2>1. w \in ResultFacts \cup VoidFacts
    BY <1>3, <1>5 DEF VoidFacts
  <2>2. PICK T : T = ResultFacts \cup VoidFacts
    OBVIOUS
  <2>3. facts \in Seq(T) /\ w \in T
    BY <2>1, <2>2 DEF BoardInv, BoardTyped
  <2> QED
    BY <1>1, <1>4, <2>2, <2>3
<1>7. w.kind = "void" /\ w.target = e
  BY <1>3
<1>8. \A k \in 1..n : facts[k].kind = "void" => facts[k].target \in 1..n
  BY <1>1 DEF BoardInv, VoidsLookBack
<1>9. Voided(facts') = Voided(facts) \cup {e}
  <2>1. {k \in DOMAIN facts' : facts'[k].kind = "void"} = {k \in DOMAIN facts : facts[k].kind = "void"} \cup {n + 1}
    BY <1>5, <1>6, <1>7
  <2>2. /\ \A k \in {k \in DOMAIN facts : facts[k].kind = "void"} : facts'[k].target = facts[k].target
        /\ facts'[n + 1].target = e
    BY <1>5, <1>6, <1>7
  <2> QED
    BY <2>1, <2>2 DEF Voided
<1>10. PICK v : v = ReplayCurrentOutcome(facts', x)
  OBVIOUS
<1>11. v \in Nat
  <2>1. CASE Counting(facts', x) = {}
    BY <1>6, <1>10, <2>1, OutcomeOf DEF NoOutcome
  <2>2. CASE Counting(facts', x) # {}
    <3>1. PICK last \in Counting(facts', x) : \A j \in Counting(facts', x) : j <= last
      BY <1>6, <2>2, OutcomeOf
    <3>2. last \in Nat
      BY <3>1 DEF Counting
    <3> QED
      BY <1>6, <1>10, <3>1, <3>2, OutcomeOf DEF NoOutcome
  <2> QED
    BY <2>1, <2>2
<1>12. PICK r \in ShotRecords : r = shots[x]
  BY DEF BoardInv, BoardTyped
<1>13. /\ shots' \in [Shots -> ShotRecords] /\ shots'[x].outcome = v
       /\ \A y \in Shots : /\ shots'[y].state = shots[y].state /\ shots'[y].position = shots[y].position
                           /\ y # x => shots'[y].outcome = shots[y].outcome
  <2>1. shots' = [shots EXCEPT ![x] = [r EXCEPT !.outcome = v]]
    BY <1>4, <1>10, <1>12
  <2>2. LET q == [r EXCEPT !.outcome = v]
        IN q \in ShotRecords /\ q.outcome = v /\ q.state = r.state /\ q.position = r.position
    BY <1>11 DEF ShotRecords
  <2> QED
    BY <1>12, <2>1, <2>2 DEF BoardInv, BoardTyped
<1>14. OutcomesAreReplayed'
  <2>1. ASSUME NEW y \in Shots, y # x
        PROVE  shots'[y].outcome = ReplayCurrentOutcome(facts', y)
    <3>1. Counting(facts', y) = Counting(facts, y)
      <4>1. \A k \in 1..(n + 1) : k \in Counting(facts', y) <=> k \in Counting(facts, y)
        BY <1>1, <1>2, <1>5, <1>6, <1>7, <1>9, <2>1 DEF Counting
      <4> QED
        BY <1>1, <1>6, <4>1 DEF Counting
    <3>2. \A k \in Counting(facts, y) : facts'[k] = facts[k]
      BY <1>1, <1>6 DEF Counting
    <3>3. ReplayCurrentOutcome(facts', y) = ReplayCurrentOutcome(facts, y)
      BY <1>1, <1>5, <1>6, <3>1, <3>2, SameOutcome
    <3> QED
      BY <1>13, <2>1, <3>3 DEF BoardInv, BoardAgrees, OutcomesAreReplayed
  <2> QED
    BY <1>10, <1>13, <2>1 DEF OutcomesAreReplayed
<1>15. VoidsLookBack'
  <2> SUFFICES ASSUME NEW k \in 1..(n + 1), facts'[k].kind = "void" PROVE facts'[k].target \in 1..(n + 1)
    BY <1>6 DEF VoidsLookBack
  <2>1. CASE k = n + 1
    BY <1>5, <1>6, <1>7, <2>1
  <2>2. CASE k \in 1..n
    BY <1>6, <1>8, <2>2
  <2> QED
    BY <2>1, <2>2
<1>16. BoardTyped'
  BY <1>4, <1>6, <1>13 DEF BoardInv, BoardTyped
<1>17. FinitelyPlaced' /\ BoardInOrder'
  BY <1>4, <1>13, StructureKept
<1>18. ReadyMeansPrepared' /\ SnapshotIsFinal'
  BY <1>4 DEF ReadyMeansPrepared, SnapshotIsFinal
<1> QED
  BY <1>14, <1>15, <1>16, <1>17, <1>18 DEF BoardInv, BoardAgrees

\* Closing the sessions closes them all.
LEMMA SessionsClose ==
  ASSUME BoardInv
  PROVE  closeSessions \in Seq(SessionRecords) /\ \A s \in DOMAIN closeSessions : ~closeSessions[s].open
<1>1. PICK n \in Nat : n = Len(sessions) /\ DOMAIN sessions = 1..n
  BY DEF BoardInv, BoardTyped
<1>2. \A s \in 1..n : sessions[s] \in SessionRecords
  BY <1>1 DEF BoardInv, BoardTyped
<1>3. \A r \in SessionRecords : [r EXCEPT !.open = FALSE] \in SessionRecords /\ ~[r EXCEPT !.open = FALSE].open
  BY DEF SessionRecords
<1>4. closeSessions = [s \in 1..n |-> [sessions[s] EXCEPT !.open = FALSE]]
  BY <1>1 DEF closeSessions
<1>5. \A s \in 1..n : closeSessions[s] \in SessionRecords /\ ~closeSessions[s].open
  BY <1>2, <1>3, <1>4
<1>6. PICK c : c = closeSessions
  OBVIOUS
<1>7. c \in [1..n -> SessionRecords] /\ DOMAIN c = 1..n
  BY <1>4, <1>5, <1>6
<1>8. n \in Nat
  BY <1>1 DEF BoardInv, BoardTyped
<1>9. c \in Seq(SessionRecords)
  BY <1>7, <1>8
<1> QED
  BY <1>5, <1>6, <1>7, <1>9

\* A snapshot is a snapshot.
LEMMA SnapshotTyped ==
  ASSUME BoardInv
  PROVE  Snapshot \in FinalRecords
<1>1. PICK o : o = [x \in Shots |-> IF x \in CurrentShots THEN shots[x].outcome ELSE NoOutcome]
  OBVIOUS
<1>2. \A x \in Shots : shots[x].outcome \in Nat
  BY DEF BoardInv, BoardTyped, ShotRecords
<1>3. o \in [Shots -> Nat]
  BY <1>1, <1>2 DEF NoOutcome
<1>4. CurrentShots \in SUBSET Shots
  BY DEF CurrentShots
<1>5. preparationMissingEventIDs \in SUBSET Nat /\ Len(facts) \in Nat
  BY FactsOf DEF BoardInv, preparationMissingEventIDs
<1> QED
  BY <1>1, <1>3, <1>4, <1>5 DEF Snapshot, FinalRecords

LEMMA TransitionStep ==
  ASSUME BoardInv, PlanTransition \/ \E live \in BOOLEAN : OpenRunSession(live)
  PROVE  BoardInv'
<1>1. UNCHANGED <<shots, items, shotLinks, facts>>
  BY DEF PlanTransition, MarkReady, StartPlan, completePlan, ReopenPlan, ArchivePlan, OpenRunSession
<1>2. /\ FinitelyPlaced' /\ BoardInOrder' /\ CurrentShots' = CurrentShots
      /\ requiredReadinessIncomplete(items') = requiredReadinessIncomplete(items)
  BY <1>1, StructureKept DEF BoardInv, BoardTyped
<1>3. VoidsLookBack' /\ OutcomesAreReplayed'
  BY <1>1 DEF BoardInv, VoidsLookBack, BoardAgrees, OutcomesAreReplayed
<1>4. BoardTyped' /\ ReadyMeansPrepared' /\ SnapshotIsFinal'
  <2>1. CASE MarkReady \/ StartPlan \/ ReopenPlan
    BY <1>1, <1>2, <2>1 DEF MarkReady, StartPlan, ReopenPlan, BoardInv, BoardTyped, PlanStatuses,
                            ReadyMeansPrepared, SnapshotIsFinal
  <2>2. CASE ArchivePlan
    BY <1>1, <2>2, SessionsClose DEF ArchivePlan, BoardInv, BoardTyped, PlanStatuses,
                                     ReadyMeansPrepared, SnapshotIsFinal
  <2>3. CASE completePlan
    <3>1. PICK f \in FinalRecords : f = Snapshot
      BY SnapshotTyped
    <3>2. finals' = Append(finals, f) /\ sessions' = closeSessions /\ status' = "completed"
      BY <2>3, <3>1 DEF completePlan
    <3>3. finals' \in Seq(FinalRecords) /\ finals' # << >> /\ finals'[Len(finals')] = f
      BY <3>1, <3>2 DEF BoardInv, BoardTyped
    <3>4. Snapshot' = Snapshot
      BY <1>1, <1>2 DEF Snapshot, preparationMissingEventIDs
    <3>5. BoardTyped'
      BY <1>1, <3>2, <3>3, SessionsClose DEF BoardInv, BoardTyped, PlanStatuses
    <3> QED
      BY <3>1, <3>2, <3>3, <3>4, <3>5, SessionsClose DEF ReadyMeansPrepared, SnapshotIsFinal
  <2>4. CASE \E live \in BOOLEAN : OpenRunSession(live)
    <3>1. PICK live \in BOOLEAN : OpenRunSession(live)
      BY <2>4
    <3>2. sessions' = Append(sessions, [open |-> TRUE, live |-> live]) /\ status' = "in_progress" /\ finals' = finals
      BY <3>1 DEF OpenRunSession
    <3>3. [open |-> TRUE, live |-> live] \in SessionRecords
      BY DEF SessionRecords
    <3>4. sessions' \in Seq(SessionRecords)
      BY <3>2, <3>3 DEF BoardInv, BoardTyped
    <3> QED
      BY <1>1, <3>2, <3>4 DEF BoardInv, BoardTyped, PlanStatuses, ReadyMeansPrepared, SnapshotIsFinal
  <2> QED
    BY <2>1, <2>2, <2>3, <2>4 DEF PlanTransition
<1> QED
  BY <1>2, <1>3, <1>4 DEF BoardInv, BoardAgrees

-----------------------------------------------------------------------------
LEMMA BoardStarts ==
  ASSUME BoardInit
  PROVE  BoardInv
<1>1. /\ status = "draft" /\ shotLinks = {} /\ sessions = << >> /\ facts = << >> /\ finals = << >>
      /\ shots = [x \in Shots |-> [state |-> "new", position |-> 0, outcome |-> NoOutcome]]
      /\ items = [i \in Items |-> [state |-> "new", required |-> FALSE, checked |-> FALSE]]
  BY DEF BoardInit
<1>2. BoardTyped
  <2>1. /\ shots \in [Shots -> ShotRecords] /\ items \in [Items -> ItemRecords]
    BY <1>1 DEF ShotRecords, ItemRecords, Lives, NoOutcome
  <2> QED
    BY <1>1, <2>1 DEF BoardTyped, PlanStatuses
<1>3. CurrentShots = {}
  BY <1>1 DEF CurrentShots
<1>4. FinitelyPlaced
  BY <1>3, FS_EmptySet DEF FinitelyPlaced
<1>5. VoidsLookBack
  BY <1>1 DEF VoidsLookBack
<1>6. OutcomesAreReplayed
  <2> SUFFICES ASSUME NEW x \in Shots PROVE shots[x].outcome = ReplayCurrentOutcome(facts, x)
    BY DEF OutcomesAreReplayed
  <2>1. Len(facts) = 0 /\ DOMAIN facts = 1..Len(facts)
    BY <1>1
  <2>2. Counting(facts, x) = {}
    BY <2>1 DEF Counting
  <2>3. ReplayCurrentOutcome(facts, x) = NoOutcome
    BY <2>1, <2>2, OutcomeOf
  <2> QED
    BY <1>1, <2>3
<1>7. ReadyMeansPrepared /\ SnapshotIsFinal /\ BoardInOrder
  BY <1>1, <1>3 DEF ReadyMeansPrepared, SnapshotIsFinal, BoardInOrder
<1> QED
  BY <1>2, <1>4, <1>5, <1>6, <1>7 DEF BoardInv, BoardAgrees

LEMMA BoardStep ==
  ASSUME BoardInv, [BoardNext]_boardVars
  PROVE  BoardInv'
<1>1. CASE \E x \in Shots : ShotCommand(x)
  <2>1. PICK x \in Shots : ShotCommand(x)
    BY <1>1
  <2>2. CASE \E y \in Shots \cup {NoShot} : InsertShot(x, y)
    BY <2>2, InsertStep
  <2>3. CASE RemoveShot(x)
    BY <2>3, RemoveStep
  <2>4. CASE \E i \in Items : LinkReadiness(x, i) \/ UnlinkReadiness(x, i)
    BY <2>4, LinkStep
  <2>5. CASE \E y \in Shots \cup {NoShot}, i \in Items, b \in BOOLEAN : CommitPlanBatch(x, y, i, b)
    BY <2>5, BatchStep
  <2>6. CASE \E result \in Results, live \in BOOLEAN : AppendShotResult(x, result, live)
    BY <2>6, AppendResult
  <2> QED
    BY <2>1, <2>2, <2>3, <2>4, <2>5, <2>6 DEF ShotCommand
<1>2. CASE \E order \in SetToSeqs(CurrentShots) : ReorderShots(order)
  BY <1>2, ReorderStep
<1>3. CASE \E i \in Items : ItemCommand(i)
  BY <1>3, ReadinessStep
<1>4. CASE PlanTransition \/ \E live \in BOOLEAN : OpenRunSession(live)
  BY <1>4, TransitionStep
<1>5. CASE \E e \in DOMAIN facts : VoidExecutionEvent(e)
  BY <1>5, VoidStep
<1>6. CASE UNCHANGED boardVars
  <2>1. UNCHANGED <<status, shots, items, shotLinks, sessions, facts, finals>>
    BY <1>6 DEF boardVars
  <2>2. BoardTyped' /\ VoidsLookBack'
    BY <2>1 DEF BoardInv, BoardTyped, VoidsLookBack
  <2>3. FinitelyPlaced' /\ BoardInOrder' /\ CurrentShots' = CurrentShots
    BY <2>1, StructureKept DEF BoardInv, BoardTyped
  <2>4. ReadyMeansPrepared' /\ OutcomesAreReplayed'
    BY <2>1 DEF BoardInv, BoardAgrees, ReadyMeansPrepared, OutcomesAreReplayed, requiredReadinessIncomplete
  <2>5. SnapshotIsFinal'
    BY <2>1, <2>3 DEF BoardInv, BoardAgrees, SnapshotIsFinal, Snapshot, preparationMissingEventIDs
  <2> QED
    BY <2>2, <2>3, <2>4, <2>5 DEF BoardInv, BoardAgrees
<1> QED
  BY <1>1, <1>2, <1>3, <1>4, <1>5, <1>6 DEF BoardNext

\* What one command on the board derives, every other keeps derived: a ready
\* plan is prepared, the outcome of a shot is what the log says, a completed
\* plan is its snapshot, and no two shots share a place, however many shots,
\* items and entries there are.
THEOREM BoardStaysDerived == BoardSpec => []BoardAgrees
<1>1. BoardInit => BoardInv
  BY BoardStarts
<1>2. BoardInv /\ [BoardNext]_boardVars => BoardInv'
  BY BoardStep
<1>3. BoardInv => BoardAgrees
  BY DEF BoardInv
<1> QED
  BY <1>1, <1>2, <1>3, PTL DEF BoardSpec

-----------------------------------------------------------------------------
(***************************************************************************)
(* Ingestion.  The alignment of two texts is a walk over a table; whatever *)
(* way it turns where two paragraphs differ, it pairs equal ones in order. *)
(* That a walk exists, and that it is such, is shown by the least distance *)
(* from the end of the table at which it would not be.                     *)
(***************************************************************************)
Cells(n, m)     == (1..(n + 1)) \X (1..(m + 1))
Distance(p, n, m) == (n + 1 - p[1]) + (m + 1 - p[2])

\* E: cells of equal paragraphs.  D: cells where the walk goes down and not across.
Turn(w, p, n, m, E, D) ==
  IF p[1] > n \/ p[2] > m THEN {}
  ELSE IF p \in E THEN {p} \cup w[<<p[1] + 1, p[2] + 1>>]
  ELSE IF p \in D THEN w[<<p[1] + 1, p[2]>>] ELSE w[<<p[1], p[2] + 1>>]

LEMMA CellsAre ==
  ASSUME NEW n \in Nat, NEW m \in Nat, NEW p \in Cells(n, m)
  PROVE  /\ p[1] \in 1..(n + 1) /\ p[2] \in 1..(m + 1) /\ p = <<p[1], p[2]>>
         /\ Distance(p, n, m) \in 0..(n + m)
         /\ ~(p[1] > n \/ p[2] > m) =>
              \A q \in {<<p[1] + 1, p[2] + 1>>, <<p[1] + 1, p[2]>>, <<p[1], p[2] + 1>>} :
                 q \in Cells(n, m) /\ Distance(q, n, m) < Distance(p, n, m)
<1>1. PICK i \in 1..(n + 1), j \in 1..(m + 1) : p = <<i, j>>
  BY DEF Cells
<1>2. p[1] = i /\ p[2] = j
  BY <1>1
<1>3. Distance(p, n, m) = (n + 1 - i) + (m + 1 - j)
  BY <1>2 DEF Distance
<1>4. ASSUME ~(i > n \/ j > m)
      PROVE  /\ <<i + 1, j + 1>> \in Cells(n, m) /\ <<i + 1, j>> \in Cells(n, m) /\ <<i, j + 1>> \in Cells(n, m)
             /\ Distance(<<i + 1, j + 1>>, n, m) = (n - i) + (m - j)
             /\ Distance(<<i + 1, j>>, n, m) = (n - i) + (m + 1 - j)
             /\ Distance(<<i, j + 1>>, n, m) = (n + 1 - i) + (m - j)
  BY <1>4 DEF Cells, Distance
<1>5. ~(i > n \/ j > m) =>
        \A q \in {<<i + 1, j + 1>>, <<i + 1, j>>, <<i, j + 1>>} :
           q \in Cells(n, m) /\ Distance(q, n, m) < Distance(p, n, m)
  <2> SUFFICES ASSUME ~(i > n \/ j > m), NEW q \in {<<i + 1, j + 1>>, <<i + 1, j>>, <<i, j + 1>>}
               PROVE  q \in Cells(n, m) /\ Distance(q, n, m) < Distance(p, n, m)
    OBVIOUS
  <2>1. CASE q = <<i + 1, j + 1>>
    BY <1>3, <1>4, <2>1
  <2>2. CASE q = <<i + 1, j>>
    BY <1>3, <1>4, <2>2
  <2>3. CASE q = <<i, j + 1>>
    BY <1>3, <1>4, <2>3
  <2> QED
    BY <2>1, <2>2, <2>3
<1> QED
  BY <1>1, <1>2, <1>3, <1>5

\* A turn depends only on cells that are nearer to the end.
LEMMA TurnsNearer ==
  ASSUME NEW n \in Nat, NEW m \in Nat, NEW E, NEW D, NEW p \in Cells(n, m), NEW w, NEW v,
         \A q \in Cells(n, m) : Distance(q, n, m) < Distance(p, n, m) => w[q] = v[q]
  PROVE  Turn(w, p, n, m, E, D) = Turn(v, p, n, m, E, D)
<1>1. CASE p[1] > n \/ p[2] > m
  BY <1>1 DEF Turn
<1>2. CASE ~(p[1] > n \/ p[2] > m)
  <2>1. \A q \in {<<p[1] + 1, p[2] + 1>>, <<p[1] + 1, p[2]>>, <<p[1], p[2] + 1>>} : w[q] = v[q]
    BY <1>2, CellsAre
  <2>2. /\ w[<<p[1] + 1, p[2] + 1>>] = v[<<p[1] + 1, p[2] + 1>>]
        /\ w[<<p[1] + 1, p[2]>>] = v[<<p[1] + 1, p[2]>>]
        /\ w[<<p[1], p[2] + 1>>] = v[<<p[1], p[2] + 1>>]
    BY <2>1
  <2> QED
    BY <2>2 DEF Turn
<1> QED
  BY <1>1, <1>2

LEMMA WalkExists ==
  ASSUME NEW n \in Nat, NEW m \in Nat, NEW E, NEW D
  PROVE  \E w : w = [p \in Cells(n, m) |-> Turn(w, p, n, m, E, D)]
<1> DEFINE C == Cells(n, m)
           H(p) == Distance(p, n, m)
           T(w, p) == Turn(w, p, n, m, E, D)
           Upto(k) == \E w : w = [p \in C |-> w[p]] /\ \A p \in C : H(p) < k => w[p] = T(w, p)
<1>0. n + m \in Nat /\ \A p \in C : H(p) \in 0..(n + m)
  <2> SUFFICES ASSUME NEW p \in C PROVE H(p) \in 0..(n + m)
    OBVIOUS
  <2> QED
    BY CellsAre
<1>1. Upto(0)
  <2>1. PICK w : w = [p \in C |-> {}]
    OBVIOUS
  <2>2. \A p \in C : ~(H(p) < 0)
    <3> SUFFICES ASSUME NEW p \in C PROVE ~(H(p) < 0)
      OBVIOUS
    <3> HIDE DEF H, C
    <3> QED
      BY <1>0
  <2> QED
    BY <2>1, <2>2
<1>2. ASSUME NEW k \in Nat, Upto(k) PROVE Upto(k + 1)
  <2>1. PICK w : w = [p \in C |-> w[p]] /\ \A p \in C : H(p) < k => w[p] = T(w, p)
    BY <1>2
  <2>2. PICK v : v = [p \in C |-> IF H(p) < k THEN w[p] ELSE T(w, p)]
    OBVIOUS
  <2>3. \A p \in C : v[p] = IF H(p) < k THEN w[p] ELSE T(w, p)
    BY <2>2
  <2>4. v = [p \in C |-> v[p]]
    BY <2>2
  <2>5. ASSUME NEW p \in C, H(p) < k + 1 PROVE v[p] = T(v, p)
    <3>1. v[p] = T(w, p)
      BY <2>1, <2>3
    <3>2. \A q \in C : H(q) < H(p) => w[q] = v[q]
      <4> SUFFICES ASSUME NEW q \in C, H(q) < H(p) PROVE w[q] = v[q]
        OBVIOUS
      <4>1. H(q) \in Int /\ H(p) \in Int
        <5> HIDE DEF H, C
        <5> QED
          BY <1>0
      <4>2. H(q) < k
        BY <2>5, <4>1
      <4> QED
        BY <2>3, <4>2
    <3>3. T(w, p) = T(v, p)
      BY <3>2, TurnsNearer
    <3> QED
      BY <3>1, <3>3
  <2> QED
    BY <2>4, <2>5
<1>3. ASSUME NEW k \in Nat PROVE Upto(k)
  <2> DEFINE U == {x \in Nat : ~Upto(x)}
  <2>1. U \subseteq Nat /\ \A x \in Nat : x \in U <=> ~Upto(x)
    OBVIOUS
  <2> HIDE DEF U, Upto
  <2>2. CASE U = {}
    BY <2>1, <2>2
  <2>3. CASE U # {}
    <3>1. PICK least \in U : \A x \in U : least <= x
      BY <2>1, <2>3, FirstOf
    <3>2. least \in Nat /\ ~Upto(least)
      BY <2>1, <3>1
    <3>3. least # 0
      BY <1>1, <3>2
    <3>4. PICK x \in Nat : x + 1 = least
      <4>1. least - 1 \in Nat /\ (least - 1) + 1 = least
        BY <3>2, <3>3
      <4> QED
        BY <4>1
    <3>5. x \notin U
      BY <3>1, <3>2, <3>4
    <3>6. Upto(x + 1)
      BY <1>2, <2>1, <3>5
    <3> QED
      BY <3>2, <3>4, <3>6
  <2> QED
    BY <2>2, <2>3
<1>4. n + m + 1 \in Nat /\ \A p \in C : H(p) < n + m + 1
  <2> SUFFICES ASSUME NEW p \in C PROVE H(p) < n + m + 1
    OBVIOUS
  <2>1. H(p) \in 0..(n + m)
    BY CellsAre
  <2> QED
    BY <2>1
<1>5. PICK w : w = [p \in C |-> w[p]] /\ \A p \in C : w[p] = T(w, p)
  BY <1>3, <1>4
<1>6. w = [p \in C |-> T(w, p)]
  BY <1>5
<1> QED
  BY <1>6

\* Pairs of equal paragraphs from i and j on, in order.
Aligned(S, i, j, n, m, E) ==
  /\ S \subseteq Nat \X Nat
  /\ \A q \in S : q[1] \in i..n /\ q[2] \in j..m /\ q \in E
  /\ \A q, r \in S : q[1] < r[1] <=> q[2] < r[2]

LEMMA WalkIsAligned ==
  ASSUME NEW n \in Nat, NEW m \in Nat, NEW E, NEW D,
         NEW w, w = [p \in Cells(n, m) |-> Turn(w, p, n, m, E, D)]
  PROVE  \A p \in Cells(n, m) : Aligned(w[p], p[1], p[2], n, m, E)
<1> DEFINE C == Cells(n, m)
           H(p) == Distance(p, n, m)
           T(p) == Turn(w, p, n, m, E, D)
           G(p) == Aligned(w[p], p[1], p[2], n, m, E)
<1>1. \A p \in C : w[p] = T(p)
  OBVIOUS
<1>2. ASSUME NEW p \in C, \A q \in C : H(q) < H(p) => G(q) PROVE G(p)
  <2>1. /\ p[1] \in 1..(n + 1) /\ p[2] \in 1..(m + 1) /\ p = <<p[1], p[2]>> /\ p \in Nat \X Nat
        /\ p[1] \in Nat /\ p[2] \in Nat
    <3>1. p[1] \in 1..(n + 1) /\ p[2] \in 1..(m + 1) /\ p = <<p[1], p[2]>>
      BY CellsAre
    <3> QED
      BY <3>1
  <2>2. CASE p[1] > n \/ p[2] > m
    <3>1. w[p] = {}
      BY <1>1, <2>2 DEF Turn
    <3> QED
      BY <3>1 DEF Aligned
  <2>3. CASE ~(p[1] > n \/ p[2] > m)
    <3>1. \A q \in {<<p[1] + 1, p[2] + 1>>, <<p[1] + 1, p[2]>>, <<p[1], p[2] + 1>>} : G(q)
      BY <1>2, <2>3, CellsAre
    <3>2. /\ Aligned(w[<<p[1] + 1, p[2] + 1>>], p[1] + 1, p[2] + 1, n, m, E)
          /\ Aligned(w[<<p[1] + 1, p[2]>>], p[1] + 1, p[2], n, m, E)
          /\ Aligned(w[<<p[1], p[2] + 1>>], p[1], p[2] + 1, n, m, E)
      BY <3>1
    <3>3. CASE p \in E
      <4>1. PICK S : S = w[<<p[1] + 1, p[2] + 1>>]
        OBVIOUS
      <4>2. w[p] = {p} \cup S
        BY <1>1, <2>3, <3>3, <4>1 DEF Turn
      <4>3. /\ S \subseteq Nat \X Nat
            /\ \A q \in S : q[1] \in (p[1] + 1)..n /\ q[2] \in (p[2] + 1)..m /\ q \in E
            /\ \A q, r \in S : q[1] < r[1] <=> q[2] < r[2]
        BY <3>2, <4>1 DEF Aligned
      <4>4. \A q \in {p} \cup S : q[1] \in p[1]..n /\ q[2] \in p[2]..m /\ q \in E
        BY <2>1, <2>3, <3>3, <4>3
      <4>5. ASSUME NEW q \in {p} \cup S, NEW r \in {p} \cup S PROVE q[1] < r[1] <=> q[2] < r[2]
        <5>1. CASE q \in S /\ r \in S
          BY <4>3, <5>1
        <5>2. CASE q = p /\ r = p
          BY <2>1, <5>2
        <5>3. CASE q = p /\ r \in S
          BY <2>1, <4>3, <5>3
        <5>4. CASE q \in S /\ r = p
          BY <2>1, <4>3, <5>4
        <5> QED
          BY <5>1, <5>2, <5>3, <5>4
      <4> QED
        BY <2>1, <4>2, <4>3, <4>4, <4>5 DEF Aligned
    <3>4. CASE p \notin E /\ p \in D
      <4>1. PICK S : S = w[<<p[1] + 1, p[2]>>]
        OBVIOUS
      <4>2. w[p] = S
        BY <1>1, <2>3, <3>4, <4>1 DEF Turn
      <4>3. \A q \in S : q[1] \in (p[1] + 1)..n => q[1] \in p[1]..n
        BY <2>1
      <4> QED
        BY <3>2, <4>1, <4>2, <4>3 DEF Aligned
    <3>5. CASE p \notin E /\ p \notin D
      <4>1. PICK S : S = w[<<p[1], p[2] + 1>>]
        OBVIOUS
      <4>2. w[p] = S
        BY <1>1, <2>3, <3>5, <4>1 DEF Turn
      <4>3. \A q \in S : q[2] \in (p[2] + 1)..m => q[2] \in p[2]..m
        BY <2>1
      <4> QED
        BY <3>2, <4>1, <4>2, <4>3 DEF Aligned
    <3> QED
      BY <3>3, <3>4, <3>5
  <2> QED
    BY <2>2, <2>3
<1>3. \A p \in C : H(p) \in Nat
  <2> SUFFICES ASSUME NEW p \in C PROVE H(p) \in Nat
    OBVIOUS
  <2>1. H(p) \in 0..(n + m)
    BY CellsAre
  <2> QED
    BY <2>1
<1> HIDE DEF C, H, G, T
<1>4. \A p \in C : G(p)
  <2> DEFINE U == {k \in Nat : \E p \in C : H(p) = k /\ ~G(p)}
  <2>1. U \subseteq Nat /\ (\A p \in C : ~G(p) => H(p) \in U) /\ \A k \in U : \E p \in C : H(p) = k /\ ~G(p)
    BY <1>3
  <2> HIDE DEF U
  <2>2. CASE U = {}
    BY <2>1, <2>2
  <2>3. CASE U # {}
    <3>1. PICK least \in U : \A k \in U : least <= k
      BY <2>1, <2>3, FirstOf
    <3>2. PICK p \in C : H(p) = least /\ ~G(p)
      BY <2>1, <3>1
    <3>3. \A q \in C : H(q) < H(p) => G(q)
      <4> SUFFICES ASSUME NEW q \in C, H(q) < H(p), ~G(q) PROVE FALSE
        OBVIOUS
      <4>1. H(q) \in U /\ H(q) \in Nat /\ H(p) \in Nat
        BY <1>3, <2>1
      <4> QED
        BY <3>1, <3>2, <4>1
    <3> QED
      BY <1>2, <3>2, <3>3
  <2> QED
    BY <2>2, <2>3
<1> QED
  BY <1>4 DEF C, G

\* The anchors are pairs of equal paragraphs, in order.
LEMMA AnchorsAlign ==
  ASSUME NEW old, Len(old) \in Nat, NEW new, Len(new) \in Nat
  PROVE  LET S == lcsPairs(old, new)
         IN  /\ S \subseteq Nat \X Nat
             /\ \A q \in S : q[1] \in 1..Len(old) /\ q[2] \in 1..Len(new) /\ old[q[1]].fp = new[q[2]].fp
             /\ \A q, r \in S : q[1] < r[1] <=> q[2] < r[2]
<1>1. PICK n \in Nat, m \in Nat : n = Len(old) /\ m = Len(new)
  OBVIOUS
<1>2. PICK E : E = {p \in Cells(n, m) : old[p[1]].fp = new[p[2]].fp}
  OBVIOUS
<1> DEFINE dp == CHOOSE v : v = [p \in Cells(n, m) |->
                   IF p[1] > n \/ p[2] > m THEN 0
                   ELSE IF old[p[1]].fp = new[p[2]].fp THEN v[<<p[1] + 1, p[2] + 1>>] + 1
                   ELSE Max({v[<<p[1] + 1, p[2]>>], v[<<p[1], p[2] + 1>>]})]
<1>3. PICK table : table = dp
  OBVIOUS
<1>4. PICK D : D = {p \in Cells(n, m) : table[<<p[1] + 1, p[2]>>] > table[<<p[1], p[2] + 1>>]}
  OBVIOUS
<1>5. PICK walk : walk = CHOOSE v : v = [p \in Cells(n, m) |->
                   IF p[1] > n \/ p[2] > m THEN {}
                   ELSE IF old[p[1]].fp = new[p[2]].fp THEN {p} \cup v[<<p[1] + 1, p[2] + 1>>]
                   ELSE IF table[<<p[1] + 1, p[2]>>] > table[<<p[1], p[2] + 1>>]
                        THEN v[<<p[1] + 1, p[2]>>] ELSE v[<<p[1], p[2] + 1>>]]
  OBVIOUS
<1>6. lcsPairs(old, new) = walk[<<1, 1>>]
  BY <1>1, <1>3, <1>5 DEF lcsPairs, Cells
<1>7. walk = CHOOSE v : v = [p \in Cells(n, m) |-> Turn(v, p, n, m, E, D)]
  <2>1. \A v : [p \in Cells(n, m) |-> Turn(v, p, n, m, E, D)] =
               [p \in Cells(n, m) |->
                   IF p[1] > n \/ p[2] > m THEN {}
                   ELSE IF old[p[1]].fp = new[p[2]].fp THEN {p} \cup v[<<p[1] + 1, p[2] + 1>>]
                   ELSE IF table[<<p[1] + 1, p[2]>>] > table[<<p[1], p[2] + 1>>]
                        THEN v[<<p[1] + 1, p[2]>>] ELSE v[<<p[1], p[2] + 1>>]]
    BY <1>2, <1>4 DEF Turn
  <2> QED
    BY <1>5, <2>1
<1>8. walk = [p \in Cells(n, m) |-> Turn(walk, p, n, m, E, D)]
  BY <1>7, WalkExists
<1>9. <<1, 1>> \in Cells(n, m)
  BY DEF Cells
<1>10. Aligned(walk[<<1, 1>>], 1, 1, n, m, E)
  <2>1. Aligned(walk[<<1, 1>>], <<1, 1>>[1], <<1, 1>>[2], n, m, E)
    BY <1>8, <1>9, WalkIsAligned
  <2> QED
    BY <2>1
<1> QED
  BY <1>1, <1>2, <1>6, <1>10 DEF Aligned

-----------------------------------------------------------------------------
CandidateRecords ==
  [id : Nat \X Nat, line : Nat, fp : Paragraphs, chosen : Paragraphs, edited : BOOLEAN,
   action : {"keep", "discard", "unsure"}, status : {"current", "changed", "missing"}, changed : Nat]

TextOK(text) == /\ Len(text) \in Nat /\ DOMAIN text = 1..Len(text)
                /\ \A i \in DOMAIN text : text[i].fp \in Paragraphs /\ text[i].line \in Nat
                /\ \A i, j \in DOMAIN text : text[i].line = text[j].line => i = j

\* A candidate was decided about the paragraph it stands for, if it was decided at all.
Decided(c) == c.action # "unsure" => c.chosen = c.fp

\* Candidates of a text: each that is not missing stands at a paragraph, each paragraph has
\* one, and of those that need no confirmation no two share a paragraph.
CandidatesOK(C, text) ==
  /\ C \subseteq CandidateRecords
  /\ \A c \in C : Decided(c)
  /\ \A c \in C : c.status # "missing" => \E i \in DOMAIN text : IsAt(c, text[i])
  /\ \A i \in DOMAIN text : \E c \in C : Follows(c, text[i])
  /\ \A c, d \in C : c.status = "current" /\ d.status = "current" /\ c.line = d.line => c = d

LEMMA CarriedRecord ==
  ASSUME NEW c \in CandidateRecords, NEW p, p.line \in Nat, NEW d, d = Carried(c, p)
  PROVE  /\ d \in CandidateRecords /\ d.line = p.line /\ d.fp = c.fp /\ d.chosen = c.chosen
         /\ d.action = c.action /\ d.status = "current"
BY DEF CandidateRecords, Carried

LEMMA ShiftedRecord ==
  ASSUME NEW c \in CandidateRecords, NEW p, p.line \in Nat, p.fp \in Paragraphs, NEW rev \in Nat,
         NEW d, d = Shifted(c, p, rev)
  PROVE  /\ d \in CandidateRecords /\ d.line = p.line /\ d.fp = p.fp
         /\ d.action = "unsure" /\ d.status = "changed" /\ d.changed = rev
BY DEF CandidateRecords, Shifted

LEMMA MissingRecord ==
  ASSUME NEW c \in CandidateRecords, NEW rev \in Nat, NEW d, d = Missing(c, rev)
  PROVE  /\ d \in CandidateRecords
         /\ d.action = "unsure" /\ d.status = "missing" /\ d.changed = rev
BY DEF CandidateRecords, Missing

LEMMA ParsedRecord ==
  ASSUME NEW text, TextOK(text), NEW i \in DOMAIN text, NEW rev \in Nat,
         NEW d, d = Parsed(text, rev, i)
  PROVE  /\ d \in CandidateRecords /\ d.line = text[i].line /\ d.fp = text[i].fp
         /\ d.chosen = text[i].fp /\ d.status = "current"
<1>1. text[i].fp \in Paragraphs /\ text[i].line \in Nat /\ i \in Nat
  BY DEF TextOK
<1> QED
  BY <1>1 DEF Parsed, CandidateRecords

\* A reconciled text: who comes to a paragraph, who is there, and who is gone.
Settled(R, M, come, there, gone, new, rev) ==
  /\ R = (M \cup UNION {come[j] \cup there[j] : j \in DOMAIN new}) \ gone
  /\ \A j \in DOMAIN new :
       IF come[j] = {} THEN gone \cap there[j] = {}
       ELSE IF there[j] = {Parsed(new, rev, j)}
            THEN \E c \in come[j] : (come[j] \cup there[j]) \ gone = {c}
       ELSE ~(come[j] \subseteq gone)

LEMMA ReconciledIs ==
  ASSUME NEW old, NEW new, NEW C, NEW rev, NEW R \in Reconcile(old, C, new, rev), NEW A, NEW G,
         A = lcsPairs(old, new), G = gapPairs(old, new, A)
  PROVE  \E M, come, there, gone :
           /\ M = Missed(old, C, A, G, rev)
           /\ come = [j \in DOMAIN new |-> Arrivals(old, C, new, rev, A, G, j)]
           /\ there = [j \in DOMAIN new |-> {Parsed(new, rev, j)} \cup Beside(M, old, new, A, G, j)]
           /\ Settled(R, M, come, there, gone, new, rev)
<1> DEFINE anchors == lcsPairs(old, new)
           gaps  == gapPairs(old, new, anchors)
           M     == Missed(old, C, anchors, gaps, rev)
           come  == [j \in DOMAIN new |-> Arrivals(old, C, new, rev, anchors, gaps, j)]
           there == [j \in DOMAIN new |-> {Parsed(new, rev, j)} \cup Beside(M, old, new, anchors, gaps, j)]
           at    == [j \in DOMAIN new |-> come[j] \cup there[j]]
           Replaced(gone, j) ==
             IF come[j] = {} THEN gone \cap there[j] = {}
             ELSE IF there[j] = {Parsed(new, rev, j)} THEN \E c \in come[j] : at[j] \ gone = {c}
             ELSE /\ Cardinality(gone \cap at[j]) = Cardinality(come[j])
                  /\ ~(come[j] \subseteq gone)
<1>1. R \in {(M \cup UNION {at[j] : j \in DOMAIN new}) \ gone : gone \in
               {g \in SUBSET UNION {at[j] : j \in DOMAIN new} : \A j \in DOMAIN new : Replaced(g, j)}}
  BY Zenon DEF Reconcile
<1>2. \A j \in DOMAIN new : at[j] = come[j] \cup there[j]
  OBVIOUS
<1>3. \E gone : Settled(R, M, come, there, gone, new, rev)
  <2> HIDE DEF M, come, there, at
  <2>1. PICK gone : /\ R = (M \cup UNION {at[j] : j \in DOMAIN new}) \ gone
                    /\ \A j \in DOMAIN new : Replaced(gone, j)
    BY <1>1
  <2>2. UNION {at[j] : j \in DOMAIN new} = UNION {come[j] \cup there[j] : j \in DOMAIN new}
    BY <1>2
  <2>3. \A j \in DOMAIN new :
       IF come[j] = {} THEN gone \cap there[j] = {}
       ELSE IF there[j] = {Parsed(new, rev, j)}
            THEN \E c \in come[j] : (come[j] \cup there[j]) \ gone = {c}
       ELSE ~(come[j] \subseteq gone)
    BY <1>2, <2>1
  <2> QED
    BY <2>1, <2>2, <2>3 DEF Settled
<1> QED
  BY <1>3

\* Reconciling keeps the candidates in order, and what needs confirmation changed now.
LEMMA ReconcileKeeps ==
  ASSUME NEW old, TextOK(old), NEW new, TextOK(new), NEW rev \in Nat, NEW C, CandidatesOK(C, old),
         NEW R \in Reconcile(old, C, new, rev)
  PROVE  /\ CandidatesOK(R, new)
         /\ \A c \in R : c.status # "current" => c.changed = rev
<1>1. PICK A, G : A = lcsPairs(old, new) /\ G = gapPairs(old, new, A)
  OBVIOUS
<1>2. PICK M, come, there, gone :
        /\ M = Missed(old, C, A, G, rev)
        /\ come = [j \in DOMAIN new |-> Arrivals(old, C, new, rev, A, G, j)]
        /\ there = [j \in DOMAIN new |-> {Parsed(new, rev, j)} \cup Beside(M, old, new, A, G, j)]
        /\ Settled(R, M, come, there, gone, new, rev)
  BY <1>1, ReconciledIs
<1>3. \A p \in A : old[p[1]].fp = new[p[2]].fp
  BY <1>1, AnchorsAlign DEF TextOK
<1>4. ASSUME NEW d \in M
      PROVE  d \in CandidateRecords /\ d.action = "unsure" /\ d.status = "missing" /\ d.changed = rev
  <2>1. PICK c \in C : d = Missing(c, rev)
    BY <1>2 DEF Missed
  <2> QED
    BY <2>1, MissingRecord DEF CandidatesOK
<1>5. ASSUME NEW j \in DOMAIN new, NEW d \in come[j]
      PROVE  /\ d \in CandidateRecords /\ Decided(d) /\ IsAt(d, new[j])
             /\ \/ d.status = "current" /\ \E p \in A : p[2] = j
                \/ d.status = "changed" /\ d.changed = rev
  <2>0. new[j].fp \in Paragraphs /\ new[j].line \in Nat
    BY DEF TextOK
  <2>1. d \in Arrivals(old, C, new, rev, A, G, j)
    BY <1>2
  <2>2. \/ \E c \in C, p \in A : p[2] = j /\ Follows(c, old[p[1]]) /\ d = Carried(c, new[j])
        \/ \E c \in C : d = Shifted(c, new[j], rev)
    BY <2>1 DEF Arrivals
  <2>a. PICK here : here = new[j]
    OBVIOUS
  <2>3. CASE \E c \in C, p \in A : p[2] = j /\ Follows(c, old[p[1]]) /\ d = Carried(c, new[j])
    <3>1. PICK c \in C, p \in A : p[2] = j /\ Follows(c, old[p[1]]) /\ d = Carried(c, new[j])
      BY <2>3
    <3>2. c \in CandidateRecords /\ Decided(c)
      BY DEF CandidatesOK
    <3>3. /\ d \in CandidateRecords /\ d.line = new[j].line /\ d.fp = c.fp /\ d.chosen = c.chosen
          /\ d.action = c.action /\ d.status = "current"
      BY <2>0, <3>1, <3>2, CarriedRecord
    <3>4. c.fp = new[j].fp
      BY <1>3, <3>1 DEF Follows, IsAt
    <3> QED
      BY <3>1, <3>2, <3>3, <3>4 DEF Decided, IsAt
  <2>4. CASE \E c \in C : d = Shifted(c, new[j], rev)
    <3>1. PICK c \in C : d = Shifted(c, here, rev)
      BY <2>4, <2>a
    <3>2. c \in CandidateRecords
      BY DEF CandidatesOK
    <3>3. here.fp \in Paragraphs /\ here.line \in Nat
      BY <2>0, <2>a
    <3>4. /\ d \in CandidateRecords /\ d.line = here.line /\ d.fp = here.fp
          /\ d.action = "unsure" /\ d.status = "changed" /\ d.changed = rev
      BY <3>1, <3>2, <3>3 DEF CandidateRecords, Shifted
    <3> QED
      BY <2>a, <3>4 DEF Decided, IsAt
  <2> QED
    BY <2>2, <2>3, <2>4
<1>6. ASSUME NEW j \in DOMAIN new
      PROVE  LET d == Parsed(new, rev, j)
             IN  d \in CandidateRecords /\ Decided(d) /\ IsAt(d, new[j]) /\ d.status = "current" /\ d \in there[j]
  BY <1>2, ParsedRecord DEF Decided, IsAt
<1>7. ASSUME NEW j \in DOMAIN new, NEW d \in there[j], d # Parsed(new, rev, j)
      PROVE  d \in M /\ IsAt(d, new[j]) /\ \A p \in A : p[2] # j
  BY <1>2, <1>7 DEF Beside
<1>8. ASSUME NEW d \in R
      PROVE  \/ d \in M
             \/ \E j \in DOMAIN new : (d \in come[j] \/ d = Parsed(new, rev, j)) /\ d \notin gone
  <2>1. d \notin gone /\ (d \in M \/ \E j \in DOMAIN new : d \in come[j] \/ d \in there[j])
    BY <1>2 DEF Settled
  <2> QED
    BY <1>7, <2>1
<1>9. ASSUME NEW d \in R
      PROVE  /\ d \in CandidateRecords /\ Decided(d)
             /\ d.status # "missing" => \E j \in DOMAIN new : IsAt(d, new[j])
             /\ d.status # "current" => d.changed = rev
  BY <1>4, <1>5, <1>6, <1>8 DEF Decided
<1>10. ASSUME NEW j \in DOMAIN new
       PROVE  \E d \in R : Follows(d, new[j])
  <2>1. \A d \in come[j] \cup there[j] : d \notin gone => d \in R
    BY <1>2 DEF Settled
  <2>2. CASE come[j] = {}
    <3>1. Parsed(new, rev, j) \notin gone
      BY <1>2, <1>6, <2>2 DEF Settled
    <3> QED
      BY <1>6, <2>1, <3>1 DEF Follows
  <2>3. CASE come[j] # {}
    <3>1. PICK d \in come[j] : d \notin gone
      BY <1>2, <2>3 DEF Settled
    <3>2. d \in R /\ IsAt(d, new[j]) /\ d.status # "missing"
      BY <1>5, <2>1, <3>1
    <3> QED
      BY <3>2 DEF Follows
  <2> QED
    BY <2>2, <2>3
<1>11. ASSUME NEW c \in R, NEW d \in R, c.status = "current", d.status = "current", c.line = d.line
       PROVE  c = d
  <2>1. PICK j \in DOMAIN new : (c \in come[j] \/ c = Parsed(new, rev, j)) /\ c \notin gone
    BY <1>4, <1>8, <1>11
  <2>2. PICK k \in DOMAIN new : (d \in come[k] \/ d = Parsed(new, rev, k)) /\ d \notin gone
    BY <1>4, <1>8, <1>11
  <2>3. c.line = new[j].line /\ d.line = new[k].line
    BY <1>5, <1>6, <2>1, <2>2 DEF IsAt
  <2>4. j = k
    BY <1>11, <2>3 DEF TextOK
  <2>5. CASE come[j] = {}
    BY <2>1, <2>2, <2>4, <2>5
  <2>6. CASE come[j] # {} /\ there[j] = {Parsed(new, rev, j)}
    <3>1. PICK x \in come[j] : (come[j] \cup there[j]) \ gone = {x}
      BY <1>2, <2>6 DEF Settled
    <3> QED
      BY <2>1, <2>2, <2>4, <2>6, <3>1
  <2>7. CASE come[j] # {} /\ there[j] # {Parsed(new, rev, j)}
    <3>1. PICK b \in there[j] : b # Parsed(new, rev, j)
      BY <1>6, <2>7
    <3>2. \A p \in A : p[2] # j
      BY <1>7, <3>1
    <3>3. \A e \in come[j] : e.status = "changed"
      BY <1>5, <3>2
    <3> QED
      BY <1>11, <2>1, <2>2, <2>4, <3>3
  <2> QED
    BY <2>5, <2>6, <2>7
<1> QED
  BY <1>9, <1>10, <1>11 DEF CandidatesOK

\* Decisions leave the candidates in order: those decided need no confirmation.
LEMMA DecisionsKeep ==
  ASSUME NEW C, NEW text, CandidatesOK(C, text), NEW S, S \subseteq C, NEW K, K \subseteq S,
         \A c \in S : c.status = "current"
  PROVE  CandidatesOK((C \ S) \cup {Overridden(c, "keep") : c \in K}
                        \cup {Overridden(c, "discard") : c \in S \ K}, text)
<1>1. PICK D : D = (C \ S) \cup {Overridden(c, "keep") : c \in K}
                     \cup {Overridden(c, "discard") : c \in S \ K}
  OBVIOUS
<1>2. ASSUME NEW c \in S, NEW action \in {"keep", "discard"}, NEW d, d = Overridden(c, action)
      PROVE  /\ d \in CandidateRecords /\ d.line = c.line /\ d.fp = c.fp /\ d.chosen = d.fp
             /\ d.status = "current"
  <2>1. c \in CandidateRecords
    BY DEF CandidatesOK
  <2> QED
    BY <1>2, <2>1 DEF CandidateRecords, Overridden
<1>3. \A d \in D : \/ d \in C /\ d \notin S
                   \/ \E c \in S : \E action \in {"keep", "discard"} :
                         d = Overridden(c, action) /\ (action = "keep" <=> c \in K)
  BY <1>1
<1>4. \A c \in S : \E d \in D, action \in {"keep", "discard"} : d = Overridden(c, action)
  BY <1>1
<1>5. ASSUME NEW d \in D
      PROVE  /\ d \in CandidateRecords /\ Decided(d)
             /\ d.status # "missing" => \E i \in DOMAIN text : IsAt(d, text[i])
  <2>1. CASE d \in C
    BY <2>1 DEF CandidatesOK
  <2>2. CASE d \notin C
    <3>1. PICK c \in S, action \in {"keep", "discard"} : d = Overridden(c, action)
      BY <1>3, <2>2
    <3>2. \E i \in DOMAIN text : IsAt(c, text[i])
      BY DEF CandidatesOK
    <3> QED
      BY <1>2, <3>1, <3>2 DEF Decided, IsAt
  <2> QED
    BY <2>1, <2>2
<1>6. ASSUME NEW i \in DOMAIN text
      PROVE  \E d \in D : Follows(d, text[i])
  <2>1. PICK c \in C : Follows(c, text[i])
    BY DEF CandidatesOK
  <2>2. CASE c \in S
    <3>1. PICK d \in D, action \in {"keep", "discard"} : d = Overridden(c, action)
      BY <1>4, <2>2
    <3>2. d.line = c.line /\ d.fp = c.fp /\ d.status = "current"
      BY <1>2, <2>2, <3>1
    <3> QED
      BY <2>1, <3>2 DEF Follows, IsAt
  <2>3. CASE c \notin S
    BY <1>1, <2>1, <2>3
  <2> QED
    BY <2>2, <2>3
<1>7. ASSUME NEW a \in D, NEW b \in D, a.status = "current", b.status = "current", a.line = b.line
      PROVE  a = b
  <2>1. PICK c \in C : /\ c.status = "current" /\ c.line = a.line
                       /\ \/ c \notin S /\ a = c
                          \/ \E action \in {"keep", "discard"} :
                               c \in S /\ a = Overridden(c, action) /\ (action = "keep" <=> c \in K)
    BY <1>2, <1>3, <1>7
  <2>2. PICK d \in C : /\ d.status = "current" /\ d.line = b.line
                       /\ \/ d \notin S /\ b = d
                          \/ \E action \in {"keep", "discard"} :
                               d \in S /\ b = Overridden(d, action) /\ (action = "keep" <=> d \in K)
    BY <1>2, <1>3, <1>7
  <2>3. c = d
    BY <1>7, <2>1, <2>2 DEF CandidatesOK
  <2> QED
    BY <2>1, <2>2, <2>3
<1>8. CandidatesOK(D, text)
  BY <1>5, <1>6, <1>7 DEF CandidatesOK
<1> QED
  BY <1>1, <1>8

\* A first parse puts them in order.
LEMMA ParsedInOrder ==
  ASSUME NEW text, TextOK(text), NEW rev \in Nat
  PROVE  CandidatesOK({Parsed(text, rev, i) : i \in DOMAIN text}, text)
<1>1. PICK C : C = {Parsed(text, rev, i) : i \in DOMAIN text}
  OBVIOUS
<1>2. ASSUME NEW i \in DOMAIN text
      PROVE  LET d == Parsed(text, rev, i)
             IN  /\ d \in CandidateRecords /\ d.line = text[i].line /\ d.fp = text[i].fp
                 /\ d.chosen = text[i].fp /\ d.status = "current"
  BY ParsedRecord
<1>3. \A c \in C : \E i \in DOMAIN text : c = Parsed(text, rev, i)
  BY <1>1
<1>4. \A c \in C : /\ c \in CandidateRecords /\ Decided(c)
                   /\ \E i \in DOMAIN text : IsAt(c, text[i])
  BY <1>2, <1>3 DEF Decided, IsAt
<1>5. \A i \in DOMAIN text : \E c \in C : Follows(c, text[i])
  BY <1>1, <1>2 DEF Follows, IsAt
<1>6. \A c, d \in C : c.line = d.line => c = d
  BY <1>2, <1>3 DEF TextOK
<1>7. CandidatesOK(C, text)
  BY <1>4, <1>5, <1>6 DEF CandidatesOK
<1> QED
  BY <1>1, <1>7

LEMMA TextsAreOK ==
  ASSUME NEW text \in Texts \cup {<<>>}
  PROVE  TextOK(text)
<1>1. CASE text = <<>>
  <2>1. Len(text) = 0 /\ DOMAIN text = 1..0
    BY <1>1
  <2> QED
    BY <2>1 DEF TextOK
<1>2. CASE text \in Texts
  <2>1. /\ text \in Seq([fp : Paragraphs, line : Nat])
        /\ \A i, j \in DOMAIN text : i < j => text[i].line < text[j].line
    BY <1>2, PlanIngestionAssumption DEF IsText
  <2>a. \A S, s : s \in Seq(S) => /\ Len(s) \in Nat /\ DOMAIN s = 1..Len(s)
                                  /\ \A i \in DOMAIN s : s[i] \in S
    OBVIOUS
  <2>2. /\ Len(text) \in Nat /\ DOMAIN text = 1..Len(text)
        /\ \A i \in DOMAIN text : text[i] \in [fp : Paragraphs, line : Nat]
    BY <2>1, <2>a
  <2>3. ASSUME NEW i \in DOMAIN text, NEW j \in DOMAIN text, text[i].line = text[j].line
        PROVE  i = j
    <3>1. i \in Nat /\ j \in Nat /\ text[i].line \in Nat
      BY <2>2
    <3>2. ~(i < j) /\ ~(j < i)
      BY <2>1, <2>3, <3>1
    <3> QED
      BY <3>1, <3>2
  <2> QED
    BY <2>2, <2>3 DEF TextOK
<1> QED
  BY <1>1, <1>2

\* What a session is in every reachable state.
IngestInv ==
  /\ ingestion \in [state : {"none", "editing", "committed", "abandoned"}, rev : Nat,
                    text : Texts \cup {<<>>}, candidates : SUBSET CandidateRecords,
                    restored : SUBSET Nat]
  /\ CandidatesOK(ingestion.candidates, ingestion.text)

LEMMA IngestInvInit ==
  IngestInit => IngestInv
<1> SUFFICES ASSUME IngestInit PROVE IngestInv
  OBVIOUS
<1>1. ingestion = NoIngestion /\ ingestion.text = <<>> /\ ingestion.candidates = {}
  BY DEF IngestInit, NoIngestion
<1>2. DOMAIN ingestion.text = {}
  BY <1>1
<1>3. CandidatesOK(ingestion.candidates, ingestion.text)
  BY <1>1, <1>2 DEF CandidatesOK
<1> QED
  BY <1>1, <1>3 DEF IngestInv, NoIngestion

LEMMA IngestInvStep ==
  IngestInv /\ [IngestNext]_ingestVars => IngestInv'
<1> SUFFICES ASSUME IngestInv, [IngestNext]_ingestVars PROVE IngestInv'
  OBVIOUS
<1>1. ASSUME NEW text \in Texts, NEW rev \in Nat, NEW C, CandidatesOK(C, text),
             NEW S, S \subseteq DOMAIN text,
             ingestion' = [state |-> "editing", rev |-> rev, text |-> text, candidates |-> C,
                           restored |-> S]
      PROVE  IngestInv'
  <2>1. C \subseteq CandidateRecords
    BY <1>1 DEF CandidatesOK
  <2>2. DOMAIN text \subseteq Nat
    BY TextsAreOK DEF TextOK
  <2> QED
    BY <1>1, <2>1, <2>2 DEF IngestInv
<1>2. CASE CreateSession
  <2>1. PICK text \in Texts :
          ingestion' = [state |-> "editing", rev |-> 1, text |-> text,
                        candidates |-> {Parsed(text, 1, i) : i \in DOMAIN text}, restored |-> {}]
    BY <1>2 DEF CreateSession
  <2>2. PICK C : C = {Parsed(text, 1, i) : i \in DOMAIN text}
    OBVIOUS
  <2>3. CandidatesOK(C, text)
    BY <2>2, TextsAreOK, ParsedInOrder
  <2> QED
    BY <1>1, <2>1, <2>2, <2>3
<1>3. CASE Preview
  <2>1. PICK rev \in Nat, r \in Nat : r = ingestion.rev /\ rev = r + 1
    BY DEF IngestInv
  <2>2. PICK old, C : old = ingestion.text /\ C = ingestion.candidates
    OBVIOUS
  <2>3. PICK text \in Texts : \E parsed \in Reconcile(old, C, text, rev) :
          \E decided \in SUBSET {c \in parsed : Acknowledges(c, r)} :
          \E keeps \in SUBSET decided, restored \in SUBSET Repeated(text) :
            ingestion' = [state |-> "editing", rev |-> rev, text |-> text,
                          candidates |-> (parsed \ decided) \cup {Overridden(c, "keep") : c \in keeps}
                                           \cup {Overridden(c, "discard") : c \in decided \ keeps},
                          restored |-> restored]
    BY <1>3, <2>1, <2>2, Zenon DEF Preview
  <2>a. PICK parsed \in Reconcile(old, C, text, rev) :
          \E decided \in SUBSET {c \in parsed : Acknowledges(c, r)} :
          \E keeps \in SUBSET decided, restored \in SUBSET Repeated(text) :
            ingestion' = [state |-> "editing", rev |-> rev, text |-> text,
                          candidates |-> (parsed \ decided) \cup {Overridden(c, "keep") : c \in keeps}
                                           \cup {Overridden(c, "discard") : c \in decided \ keeps},
                          restored |-> restored]
    BY <2>3
  <2>b. PICK decided \in SUBSET {c \in parsed : Acknowledges(c, r)} :
          \E keeps \in SUBSET decided, restored \in SUBSET Repeated(text) :
            ingestion' = [state |-> "editing", rev |-> rev, text |-> text,
                          candidates |-> (parsed \ decided) \cup {Overridden(c, "keep") : c \in keeps}
                                           \cup {Overridden(c, "discard") : c \in decided \ keeps},
                          restored |-> restored]
    BY <2>a
  <2>4. PICK keeps \in SUBSET decided, restored \in SUBSET Repeated(text) :
            ingestion' = [state |-> "editing", rev |-> rev, text |-> text,
                          candidates |-> (parsed \ decided) \cup {Overridden(c, "keep") : c \in keeps}
                                           \cup {Overridden(c, "discard") : c \in decided \ keeps},
                          restored |-> restored]
    BY <2>b
  <2>5. /\ CandidatesOK(parsed, text)
        /\ \A c \in parsed : c.status # "current" => c.changed = rev
    <3>1. TextOK(old) /\ TextOK(text) /\ CandidatesOK(C, old)
      BY <2>2, TextsAreOK DEF IngestInv
    <3> QED
      BY <3>1, ReconcileKeeps
  <2>6. \A c \in decided : c.status = "current"
    <3> SUFFICES ASSUME NEW c \in decided, c.status # "current" PROVE FALSE
      OBVIOUS
    <3>1. c.changed = rev /\ c \in CandidateRecords
      BY <2>5 DEF CandidatesOK
    <3>2. rev <= r
      BY <3>1 DEF Acknowledges, CandidateRecords
    <3> QED
      BY <2>1, <3>2
  <2>7. CandidatesOK((parsed \ decided) \cup {Overridden(c, "keep") : c \in keeps}
                       \cup {Overridden(c, "discard") : c \in decided \ keeps}, text)
    BY <2>5, <2>6, DecisionsKeep
  <2>8. restored \subseteq DOMAIN text
    BY DEF Repeated
  <2> QED
    BY <1>1, <2>4, <2>7, <2>8
<1>4. ASSUME NEW s \in {"committed", "abandoned"}, ingestion' = [ingestion EXCEPT !.state = s] PROVE IngestInv'
  <2>1. /\ ingestion' \in [state : {"none", "editing", "committed", "abandoned"}, rev : Nat,
                           text : Texts \cup {<<>>}, candidates : SUBSET CandidateRecords,
                           restored : SUBSET Nat]
        /\ ingestion'.text = ingestion.text /\ ingestion'.candidates = ingestion.candidates
    BY <1>4 DEF IngestInv
  <2> QED
    BY <2>1 DEF IngestInv
<1>5. CASE Commit
  BY <1>4, <1>5 DEF Commit
<1>6. CASE Abandon
  BY <1>4, <1>6 DEF Abandon
<1>7. CASE UNCHANGED ingestion
  BY <1>7 DEF IngestInv
<1> QED
  BY <1>2, <1>3, <1>5, <1>6, <1>7 DEF IngestNext, PlanReady, ArchiveIngested, ingestVars

\* Every paragraph of a committed text was decided as what it is, and each has its one candidate:
\* CommitsWhatWasConfirmed, for every set of texts and any number of decisions in a preview.
THEOREM CommitsStayConfirmed == IngestSpec => CommitsWhatWasConfirmed
<1>1. IngestInv /\ [IngestNext]_ingestVars =>
        [ingestion.state = "editing" /\ ingestion'.state = "committed" =>
           /\ \A c \in ingestion.candidates :
                c.chosen = c.fp /\ \E i \in DOMAIN ingestion.text : IsAt(c, ingestion.text[i])
           /\ \A i \in DOMAIN ingestion.text :
                \E c \in ingestion.candidates :
                  \A d \in ingestion.candidates : IsAt(d, ingestion.text[i]) <=> d = c]_ingestVars
  <2> SUFFICES ASSUME IngestInv, [IngestNext]_ingestVars,
                      ingestion.state = "editing", ingestion'.state = "committed"
               PROVE  /\ \A c \in ingestion.candidates :
                           c.chosen = c.fp /\ \E i \in DOMAIN ingestion.text : IsAt(c, ingestion.text[i])
                      /\ \A i \in DOMAIN ingestion.text :
                           \E c \in ingestion.candidates :
                             \A d \in ingestion.candidates : IsAt(d, ingestion.text[i]) <=> d = c
    OBVIOUS
  <2>1. Commit
    <3>1. ~CreateSession /\ ~Preview /\ ~PlanReady /\ ~ArchiveIngested /\ ~UNCHANGED ingestVars
      BY DEF CreateSession, Preview, PlanReady, ArchiveIngested, ingestVars
    <3>2. ~Abandon
      BY DEF Abandon, IngestInv
    <3> QED
      BY <3>1, <3>2 DEF IngestNext
  <2>2. PICK C, text : C = ingestion.candidates /\ text = ingestion.text
    OBVIOUS
  <2>3. CandidatesOK(C, text)
    BY <2>2 DEF IngestInv
  <2>4. \A c \in C : c.action # "unsure" /\ c.status = "current"
    BY <2>1, <2>2 DEF Commit
  <2>5. \A c \in C : c.chosen = c.fp /\ \E i \in DOMAIN text : IsAt(c, text[i])
    BY <2>3, <2>4 DEF CandidatesOK, Decided
  <2>6. ASSUME NEW i \in DOMAIN text
        PROVE  \E c \in C : \A d \in C : IsAt(d, text[i]) <=> d = c
    <3>1. PICK c \in C : Follows(c, text[i])
      BY <2>3 DEF CandidatesOK
    <3>2. ASSUME NEW d \in C, IsAt(d, text[i]) PROVE d = c
      BY <2>3, <2>4, <3>1, <3>2 DEF CandidatesOK, Follows, IsAt
    <3> QED
      BY <3>1, <3>2 DEF Follows
  <2> QED
    BY <2>2, <2>5, <2>6
<1>2. IngestSpec => []IngestInv
  BY IngestInvInit, IngestInvStep, PTL DEF IngestSpec
<1> QED
  BY <1>1, <1>2, PTL DEF IngestSpec, CommitsWhatWasConfirmed
===============================================================================
