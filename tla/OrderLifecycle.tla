---------------------------- MODULE OrderLifecycle ----------------------------
(***************************************************************************)
(* OrderLifecycle: what a request to create or change an order makes of    *)
(* it.  A request is a record of the fields it specifies.                  *)
(*                                                                         *)
(* Dates are small numbers, 0 for none.  The delivery date is 0 for none,  *)
(* Override for one the user gave, and otherwise the shooting date it was  *)
(* derived from.  A price nobody quoted is Unpriced.                      *)
(***************************************************************************)
EXTENDS Integers

Unpriced == -1
Override == -1

OrderStatuses == {"consulting", "scheduled", "shot", "selected", "retouching",
                  "delivered", "closed", "cancelled"}
terminalStatus       == {"closed", "cancelled"}
statusReachedShot    == {"shot", "selected", "retouching", "delivered", "closed"}
statusReachedDelivered == {"delivered", "closed"}

allowedTransitions ==
  {<<"consulting", "scheduled">>, <<"scheduled", "shot">>, <<"shot", "selected">>,
   <<"selected", "retouching">>, <<"retouching", "delivered">>, <<"delivered", "closed">>,
   <<"shot", "delivered">>, <<"selected", "delivered">>}
  \cup (OrderStatuses \ terminalStatus) \X {"cancelled"}

OrderFields == [status: OrderStatuses, shotAt: Nat, deliveredAt: Nat, due: Nat \cup {Override},
                price: Nat \cup {Unpriced}, amount: Nat, owed: Nat \cup {Unpriced},
                balancePaid: BOOLEAN, paidAt: Nat]

\* An order before the fields of its creation are applied.
BlankOrder == [status |-> "consulting", shotAt |-> 0, deliveredAt |-> 0, due |-> 0,
               price |-> Unpriced, amount |-> 0, owed |-> Unpriced,
               balancePaid |-> FALSE, paidAt |-> 0]

\* The columns and their values, and those a request may give: no date is taken back but the
\* delivery date, by 0, and only the price by Unpriced.
FieldValues == [status |-> OrderStatuses, shotAt |-> Nat, deliveredAt |-> Nat,
                due |-> Nat \cup {Override}, price |-> Nat \cup {Unpriced}, amount |-> Nat,
                owed |-> Nat \cup {Unpriced}, balancePaid |-> BOOLEAN, paidAt |-> Nat]
Given(field) ==
  CASE field \in {"shotAt", "deliveredAt", "paidAt"} -> Nat \ {0}
    [] field \in {"due", "owed"} -> Nat
    [] OTHER -> FieldValues[field]
IsRequest(in) ==
  \A field \in DOMAIN in : field \in DOMAIN FieldValues /\ in[field] \in Given(field)

\* f, and g where f says nothing.
Over(f, g) == [x \in DOMAIN f \cup DOMAIN g |-> IF x \in DOMAIN f THEN f[x] ELSE g[x]]

Specified(in, field) == field \in DOMAIN in
Merge(in, o) == Over([field \in DOMAIN in \ {"due"} |-> in[field]], o)

validateFinalState(cur, n, in) ==
  /\ n.status = "closed" => n.balancePaid
  /\ cur.status \in terminalStatus => ~Specified(in, "balancePaid")
  /\ Specified(in, "shotAt") =>
       {cur.status, n.status} \cap statusReachedShot # {} \/ cur.shotAt # 0
  /\ Specified(in, "deliveredAt") =>
       {cur.status, n.status} \cap statusReachedDelivered # {} \/ cur.deliveredAt # 0
  /\ n.shotAt # 0 => n.status \in statusReachedShot \cup {"cancelled"}
  /\ n.deliveredAt # 0 => n.status \in statusReachedDelivered \cup {"cancelled"}
  /\ n.status \in statusReachedShot => n.shotAt # 0
  /\ n.status \in statusReachedDelivered => n.deliveredAt # 0

\* 0 in a request takes the user's date back.
validateDeliveryDue(n, in) ==
  Specified(in, "due") /\ in.due # 0 => n.shotAt # 0 /\ n.status # "cancelled"

\* Variant: a due day, once there, does not follow the day of the shoot.
applyDeliveryDueOnce(n, in, shotAtChanged) ==
  LET kept == IF Specified(in, "due") /\ in.due = 0 THEN 0 ELSE n.due
  IN  CASE Specified(in, "due") /\ in.due # 0 -> [n EXCEPT !.due = Override]
        [] OTHER -> [n EXCEPT !.due =
             IF kept = 0 /\ n.shotAt # 0 /\ n.status # "cancelled" THEN n.shotAt ELSE kept]

applyDeliveryDue(n, in, shotAtChanged) ==
  LET cleared == Specified(in, "due") /\ in.due = 0
      kept    == IF cleared THEN 0 ELSE n.due
  IN  CASE Specified(in, "due") /\ in.due # 0 -> [n EXCEPT !.due = Override]
        [] OTHER -> [n EXCEPT !.due =
             IF /\ kept # Override /\ n.shotAt # 0 /\ n.status # "cancelled"
                /\ shotAtChanged \/ cleared
             THEN n.shotAt ELSE kept]

validatePaymentFacts(n, in) ==
  n.balancePaid /\ Specified(in, "owed") => n.owed = 0

inferredOutstanding(price, amount) ==
  IF price = Unpriced THEN Unpriced ELSE IF amount >= price THEN 0 ELSE price - amount

\* Settling raises the amount received to the price; a settled order owes nothing.
applyPaymentFacts(cur, n, in, amountRecorded) ==
  IF n.balancePaid
  THEN [n EXCEPT !.owed = 0,
                 !.amount = IF ~Specified(in, "amount") /\ ~cur.balancePaid /\ n.price > @
                            THEN n.price ELSE @]
  ELSE IF amountRecorded /\ ~Specified(in, "owed")
       THEN [n EXCEPT !.owed = inferredOutstanding(n.price, n.amount)]
       ELSE n

\* The set of results: empty when the request is refused.  A creation is checked as if it gave no
\* field, and so an order may be cancelled from the start and have dates.
ApplyCreateInput(in, mode) ==
  LET n == Merge(in, BlankOrder)
      d == applyDeliveryDue(n, in, n.shotAt # 0)
  IN  IF /\ mode = "new" => n.status \in {"consulting", "scheduled"}
         /\ validateFinalState(BlankOrder, n, << >>)
         /\ validateDeliveryDue(n, in)
         /\ validatePaymentFacts(d, in)
      THEN {applyPaymentFacts(BlankOrder, d, in, TRUE)}
      ELSE {}

ApplyUpdateInput(cur, in, now) ==
  LET m == Merge(in, cur)
      Entered(status) == m.status = status /\ cur.status # status
      n == [m EXCEPT !.shotAt      = IF Entered("shot") /\ @ = 0 THEN now ELSE @,
                     !.deliveredAt = IF Entered("delivered") /\ @ = 0 THEN now ELSE @]
      d == applyDeliveryDue(n, in, n.shotAt # cur.shotAt)
      p == applyPaymentFacts(cur, d, in, Specified(in, "amount"))
      Settled == p.balancePaid /\ ~cur.balancePaid
  IN  IF /\ m.status # cur.status => <<cur.status, m.status>> \in allowedTransitions
         /\ validateFinalState(cur, n, in)
         /\ validateDeliveryDue(n, in)
         /\ validatePaymentFacts(d, in)
      THEN {[p EXCEPT !.paidAt = IF Settled /\ ~Specified(in, "paidAt") THEN now ELSE @]}
      ELSE {}

\* A slot that lies ahead needs an open order of an active customer; one that
\* is over may belong to any order that was not cancelled.
CanScheduleAt(orderStatus, customerStatus, future) ==
  IF future THEN orderStatus \in {"consulting", "scheduled"} /\ customerStatus = "active"
            ELSE orderStatus \in {"scheduled"} \cup statusReachedShot
                 /\ customerStatus \in {"active", "archived"}
===============================================================================
