------------------------------ MODULE OrderRecord ------------------------------
(***************************************************************************)
(* OrderRecord: one order under every request that can change it, one      *)
(* after another, and under the price a plan's business draft writes.      *)
(***************************************************************************)
EXTENDS OrderLifecycle

CONSTANTS Days,          \* days on which requests are made
          Amounts,       \* prices of business drafts
          OrderRequests  \* requests, to create the order or to change it

ASSUME OrderRecordAssumption ==
  Days \subseteq Nat \ {0} /\ Amounts \subseteq Nat /\ \A in \in OrderRequests : IsRequest(in)

VARIABLES orderRow, orderDay  \* the row, and today

orderVars == <<orderRow, orderDay>>

OrderTypeOK == orderRow \in OrderFields /\ orderDay \in Days

Modes == {"new", "backfill"}

OrderInit ==
  /\ orderDay \in Days
  /\ \E in \in OrderRequests, mode \in Modes : orderRow \in ApplyCreateInput(in, mode)

UpdateRow(in) ==
  /\ orderRow' \in ApplyUpdateInput(orderRow, in, orderDay)
  /\ UNCHANGED orderDay

\* The price of a business draft replaces the price, and nothing else.
AdjustPrice(price) ==
  /\ orderRow' = [orderRow EXCEPT !.price = price]
  /\ UNCHANGED orderDay

NextDay == orderDay' \in Days /\ orderDay' > orderDay /\ UNCHANGED orderRow

OrderNext ==
  \/ \E in \in OrderRequests : UpdateRow(in)
  \/ \E price \in Amounts : AdjustPrice(price)
  \/ NextDay

OrderSpec == OrderInit /\ [][OrderNext]_orderVars

(***************************************************************************)
(* Properties                                                              *)
(***************************************************************************)
\* The dates and the money of an order agree with its stage after any sequence of
\* requests: a stage reached has its date, a date of delivery that the user did not
\* give is derived from the day of the shoot as it now stands, a settled order owes
\* nothing, and a closed one is settled (order/state_machine.go, delivery_due.go,
\* payment.go).
OrderFactsHold ==
  /\ orderRow.status \in statusReachedShot => orderRow.shotAt # 0
  /\ orderRow.status \in statusReachedDelivered => orderRow.deliveredAt # 0
  /\ orderRow.status \in statusReachedShot /\ orderRow.due # Override =>
       orderRow.due = orderRow.shotAt
  /\ orderRow.balancePaid => orderRow.owed = 0
  /\ orderRow.status = "closed" => orderRow.balancePaid
===============================================================================
