------------------------------- MODULE ReminderScan -------------------------------
(***************************************************************************)
(* The daily scan that writes birthday, follow-up and churn reminders, and *)
(* what the user does with them.  Every server scans once a day, and the   *)
(* user may start a scan of any date.  A scan is one READ COMMITTED        *)
(* transaction that reads in two places and writes at its end; while it    *)
(* runs, orders change and the user answers reminders.                     *)
(*                                                                         *)
(* One customer.  A year has two days, and the birthday comes into its     *)
(* window on the second.  An order is shot and delivered on one day.       *)
(***************************************************************************)
EXTENDS Naturals

CONSTANTS Scanners,    \* the servers, or browsers that ask for a scan
          ScanOrders,  \* orders of the customer
          PastOrders,  \* those that were closed before the first day
          MaxScanDay   \* bound

VARIABLES scanDay,     \* the local day of the account
          clientele,   \* the customer is active; the orders with status and day
          reminders,   \* dedup_key -> status, "absent" without a row
          checkpoint,  \* reminder_scan_state: the last date, 0 for no row
          scans        \* scanner -> memory of its scan

scanVars == <<scanDay, clientele, reminders, checkpoint, scans>>

ScanDays == 1..MaxScanDay
YearOf(d) == d \div 2
DedupKeys == ({"birthday"} \X {YearOf(d) : d \in ScanDays})
               \cup ({"follow_up", "churn"} \X ScanOrders)
OrderStages   == {"none", "open", "delivered", "closed", "cancelled", "deleted"}
isNonTerminal == {"open", "delivered"}
Answers       == {"done", "dismissed"}

NoScan == [step |-> "idle", date |-> 0, daily |-> FALSE, outdated |-> {}, due |-> {}]

ScanInit ==
  /\ scanDay = 1 /\ checkpoint = 0
  /\ clientele = [active |-> TRUE, orders |-> [o \in ScanOrders |->
       [status |-> IF o \in PastOrders THEN "closed" ELSE "none", at |-> 0]]]
  /\ reminders = [k \in DedupKeys |-> "absent"]
  /\ scans = [s \in Scanners |-> NoScan]

-----------------------------------------------------------------------------
(* The rules, for the orders o of a customer. *)
AnyOpen(o)      == \E q \in ScanOrders : o[q].status \in isNonTerminal
ClosedOrders(o) == {q \in ScanOrders : o[q].status = "closed"}

evalBirthday(d)    == {<<"birthday", YearOf(x)>> : x \in {y \in {d} : y % 2 = 1}}
evalFollowUp(o, d) == {<<"follow_up", q>> : q \in {x \in ScanOrders : o[x].status = "delivered" /\ o[x].at < d}}
\* The latest shoot, when nothing is open.
evalChurn(o, d) ==
  {<<"churn", q>> : q \in {x \in ClosedOrders(o) : /\ ~AnyOpen(o) /\ o[x].at < d
                                             /\ \A y \in ClosedOrders(o) : o[y].at <= o[x].at}}

Candidates(d) ==
  IF clientele.active
  THEN evalBirthday(d) \cup evalFollowUp(clientele.orders, d) \cup evalChurn(clientele.orders, d)
  ELSE {}

\* Pending reminders of an order that is gone, and of churn when an order is open.
Outdated ==
  {k \in DedupKeys :
     /\ reminders[k] = "pending" /\ k[1] # "birthday"
     /\ clientele.orders[k[2]].status = "deleted" \/ (k[1] = "churn" /\ AnyOpen(clientele.orders))}

-----------------------------------------------------------------------------
(* Days, customers and orders. *)
NextDay ==
  /\ scanDay < MaxScanDay /\ scanDay' = scanDay + 1
  /\ UNCHANGED <<clientele, reminders, checkpoint, scans>>

ClienteleIs(c) == clientele' = c /\ UNCHANGED <<scanDay, reminders, checkpoint, scans>>

CustomerLeaves == clientele.active /\ ClienteleIs([clientele EXCEPT !.active = FALSE])

OrderBecomes(o, from, to, at) ==
  /\ clientele.orders[o].status \in from
  /\ ClienteleIs([clientele EXCEPT !.orders[o] = [status |-> to, at |-> at]])

OrderOpened(o)    == clientele.active /\ OrderBecomes(o, {"none"}, "open", 0)
OrderDelivered(o) == OrderBecomes(o, {"open"}, "delivered", scanDay)
OrderClosed(o)    == OrderBecomes(o, {"delivered"}, "closed", clientele.orders[o].at)
OrderCancelled(o) == OrderBecomes(o, {"open"}, "cancelled", 0)
OrderDeleted(o)   == OrderBecomes(o, {"closed", "cancelled"}, "deleted", 0)

\* MarkDone and Dismiss.
SetReminderStatus(k, answer) ==
  /\ reminders[k] = "pending"
  /\ reminders' = [reminders EXCEPT ![k] = answer]
  /\ UNCHANGED <<scanDay, clientele, checkpoint, scans>>

-----------------------------------------------------------------------------
(* A scan. *)
ScanSteps(s, q) == scans' = [scans EXCEPT ![s] = q] /\ UNCHANGED <<scanDay, clientele>>

\* autoDismiss lists what is out of date; the daily scan runs once the day is past its checkpoint.
BeginScan(s, daily, date) ==
  /\ scans[s].step = "idle"
  /\ daily => date = scanDay /\ checkpoint < date
  /\ ScanSteps(s, [step |-> "listed", date |-> date, daily |-> daily, outdated |-> Outdated,
                   due |-> {}])
  /\ UNCHANGED <<reminders, checkpoint>>

\* ListActiveCustomers and ListNonCancelledOrders.
LoadCandidates(s) ==
  /\ scans[s].step = "listed"
  /\ ScanSteps(s, [scans[s] EXCEPT !.step = "loaded", !.due = Candidates(scans[s].date)])
  /\ UNCHANGED <<reminders, checkpoint>>

\* AutoDismissByIDs and InsertIdempotent.  Both see the rows as others have committed them, and
\* hold what they write until the commit.
DismissedAlways(k, q) == k \in q.outdated
Dismissed(k, q)       == k \in q.outdated /\ reminders[k] = "pending"

CommitScan(s) ==
  LET q == scans[s]
  IN  /\ q.step = "loaded"
      /\ reminders' = [k \in DedupKeys |->
           CASE Dismissed(k, q)                              -> "dismissed"
             [] k \in q.due /\ reminders[k] = "absent" -> "pending"
             [] OTHER                                        -> reminders[k]]
      /\ ScanSteps(s, IF q.daily THEN [NoScan EXCEPT !.step = "save", !.date = q.date] ELSE NoScan)
      /\ UNCHANGED checkpoint

\* A transaction of its own; another scanner may have saved a later date.
SaveScanState(s) ==
  /\ scans[s].step = "save"
  /\ checkpoint' = scans[s].date
  /\ ScanSteps(s, NoScan) /\ UNCHANGED reminders

ScanAborts(s) ==
  /\ scans[s].step # "idle"
  /\ ScanSteps(s, NoScan) /\ UNCHANGED <<reminders, checkpoint>>

ScanNext ==
  \/ NextDay \/ CustomerLeaves
  \/ \E o \in ScanOrders :
       OrderOpened(o) \/ OrderDelivered(o) \/ OrderClosed(o) \/ OrderCancelled(o) \/ OrderDeleted(o)
  \/ \E k \in DedupKeys, answer \in Answers : SetReminderStatus(k, answer)
  \/ \E s \in Scanners :
       \/ \E daily \in BOOLEAN, date \in ScanDays : BeginScan(s, daily, date)
       \/ LoadCandidates(s) \/ CommitScan(s) \/ SaveScanState(s) \/ ScanAborts(s)

ScanSpec == ScanInit /\ [][ScanNext]_scanVars

ScanTypeOK ==
  /\ scanDay \in ScanDays /\ checkpoint \in {0} \cup ScanDays
  /\ clientele \in [active : BOOLEAN,
                    orders : [ScanOrders -> [status : OrderStages, at : {0} \cup ScanDays]]]
  /\ reminders \in [DedupKeys -> {"absent", "pending"} \cup Answers]
  /\ scans \in [Scanners -> [step : {"idle", "listed", "loaded", "save"}, date : {0} \cup ScanDays,
                             daily : BOOLEAN, outdated : SUBSET DedupKeys, due : SUBSET DedupKeys]]

-----------------------------------------------------------------------------
\* What the user has answered stays answered: no scan, however long ago it listed the
\* reminder as out of date or found its occasion due, changes it or brings it up again
\* (reminder/repository.go, InsertIdempotent, SetStatus, AutoDismissByIDs).
AnsweredStaysAnswered ==
  [][\A k \in DedupKeys : reminders[k] \in Answers => reminders'[k] = reminders[k]]_scanVars
===============================================================================
