---------------------------- MODULE AttemptBudgets ----------------------------
(***************************************************************************)
(* The two attempt budgets, both fixed windows that live in the database:  *)
(*                                                                         *)
(* - sign-in attempts, one row per action and subject (the row per source  *)
(*   runs the same code), which a successful attempt deletes;              *)
(* - anonymous share requests, one row per policy, action, dimension and   *)
(*   digest.  The digest carries the day, and the gate accepts a current   *)
(*   and a previous candidate; the resolvers name only the current one.    *)
(*                                                                         *)
(* A request reads the clock before its transaction opens, and waits there *)
(* for the row or the guard: it may charge with a reading that is late.    *)
(***************************************************************************)
EXTENDS Naturals, Sequences, FiniteSets

CONSTANTS Attempts,      \* requests of one subject, or one source
          Limit,         \* admissions of one window
          Window,        \* its length
          DayLength,     \* ticks of a day
          MaxBudgetClock,
          MaxAdmitted    \* bound on the history

ASSUME BudgetAssumption ==
  /\ {Limit, Window, DayLength} \subseteq Nat \ {0}
  /\ {MaxBudgetClock, MaxAdmitted} \subseteq Nat

VARIABLES subjectRow,   \* the row of the sign-in budget, or NoAttempts
          digestRows,   \* [day -> the row of that day's digest, or NoAttempts]
          attempt,      \* [Attempts -> the request in flight]
          admitted,     \* the anonymous requests admitted: reading, day, window start
          budgetClock

budgetVars == <<subjectRow, digestRows, attempt, admitted, budgetClock>>

NoAttempts == [start |-> 0, attempts |-> 0]
BudgetDays == 0..(MaxBudgetClock \div DayLength)
AttemptStates == {"idle", "signing", "locking", "matching", "asking"}

BudgetsTypeOK ==
  /\ subjectRow \in [start: 0..MaxBudgetClock, attempts: 0..Limit]
  /\ digestRows \in [BudgetDays -> [start: 0..MaxBudgetClock, attempts: 0..Limit]]
  /\ attempt \in [Attempts -> [pc: AttemptStates, now: 0..MaxBudgetClock]]
  /\ admitted \in Seq([now: 0..MaxBudgetClock, day: BudgetDays, start: 0..MaxBudgetClock])
  /\ budgetClock \in 0..MaxBudgetClock

BudgetsInit ==
  /\ subjectRow = NoAttempts
  /\ digestRows = [d \in BudgetDays |-> NoAttempts]
  /\ attempt = [r \in Attempts |-> [pc |-> "idle", now |-> 0]]
  /\ admitted = << >>
  /\ budgetClock = 0

Goto(r, pc) == attempt' = [attempt EXCEPT ![r].pc = pc]

Active(row, now) == row # NoAttempts /\ now < row.start + Window

(***************************************************************************)
(* Sign-in attempts                                                        *)
(***************************************************************************)

Arrive(r, pc) ==
  /\ attempt[r].pc = "idle"
  /\ attempt' = [attempt EXCEPT ![r] = [pc |-> pc, now |-> budgetClock]]
  /\ UNCHANGED <<subjectRow, digestRows, admitted, budgetClock>>

consumeAttempt(r) == Arrive(r, "signing")
ConsumeAnonymousReadOuter(r) == Arrive(r, "asking")

\* INSERT .. ON CONFLICT DO NOTHING: the first attempt of a window, or a row to lock.
InitializeSubject(r) ==
  /\ attempt[r].pc = "signing"
  /\ IF subjectRow = NoAttempts
       THEN subjectRow' = [start |-> attempt[r].now, attempts |-> 1] /\ Goto(r, "matching")
       ELSE Goto(r, "locking") /\ UNCHANGED subjectRow
  /\ UNCHANGED <<digestRows, admitted, budgetClock>>

\* The row is locked, unless a success deleted it meanwhile, which is an error.
ConsumeSubject(r) ==
  /\ attempt[r].pc = "locking"
  /\ LET now == attempt[r].now IN
       IF subjectRow = NoAttempts
         THEN Goto(r, "idle") /\ UNCHANGED subjectRow
         ELSE IF ~Active(subjectRow, now)
           THEN subjectRow' = [start |-> now, attempts |-> 1] /\ Goto(r, "matching")
           ELSE IF subjectRow.attempts >= Limit
             THEN Goto(r, "idle") /\ UNCHANGED subjectRow
             ELSE subjectRow' = [subjectRow EXCEPT !.attempts = @ + 1] /\ Goto(r, "matching")
  /\ UNCHANGED <<digestRows, admitted, budgetClock>>

\* The password matched, and the subject starts afresh; or it did not.
ResetSubject(r, matched) ==
  /\ attempt[r].pc = "matching"
  /\ subjectRow' = IF matched THEN NoAttempts ELSE subjectRow
  /\ Goto(r, "idle")
  /\ UNCHANGED <<digestRows, admitted, budgetClock>>

(***************************************************************************)
(* Anonymous share requests                                                *)
(***************************************************************************)

\* The digests a resolver names for a reading of the clock.
digest(now) == {now \div DayLength}

\* The row to charge: an active one of an earlier day goes on being used.
Target(now) ==
  LET current == now \div DayLength
      earlier == {d \in digest(now) \ {current} : Active(digestRows[d], now)}
  IN IF earlier = {} THEN current ELSE CHOOSE d \in earlier : TRUE

\* One admission too many.
ConsumeBeyond(r) ==
  /\ attempt[r].pc = "asking"
  /\ Len(admitted) < MaxAdmitted
  /\ LET now == attempt[r].now
         day == Target(now)
         row == digestRows[day]
         new == IF Active(row, now) THEN [row EXCEPT !.attempts = @ + 1] ELSE [start |-> now, attempts |-> 1]
     IN IF Active(row, now) /\ row.attempts > Limit
          THEN UNCHANGED <<digestRows, admitted>>
          ELSE /\ digestRows' = [digestRows EXCEPT ![day] = new]
               /\ admitted' = Append(admitted, [now |-> now, day |-> day, start |-> new.start])
  /\ Goto(r, "idle")
  /\ UNCHANGED <<subjectRow, budgetClock>>

ConsumeSecurityAttemptBudget(r) ==
  /\ attempt[r].pc = "asking"
  /\ Len(admitted) < MaxAdmitted
  /\ LET now == attempt[r].now
         day == Target(now)
         row == digestRows[day]
         new == IF Active(row, now) THEN [row EXCEPT !.attempts = @ + 1] ELSE [start |-> now, attempts |-> 1]
     IN IF Active(row, now) /\ row.attempts >= Limit
          THEN UNCHANGED <<digestRows, admitted>>
          ELSE /\ digestRows' = [digestRows EXCEPT ![day] = new]
               /\ admitted' = Append(admitted, [now |-> now, day |-> day, start |-> new.start])
  /\ Goto(r, "idle")
  /\ UNCHANGED <<subjectRow, budgetClock>>

BudgetTick ==
  /\ budgetClock < MaxBudgetClock
  /\ budgetClock' = budgetClock + 1
  /\ UNCHANGED <<subjectRow, digestRows, attempt, admitted>>

AttemptStep(r) ==
  \/ consumeAttempt(r) \/ InitializeSubject(r) \/ ConsumeSubject(r)
  \/ \E matched \in BOOLEAN : ResetSubject(r, matched)
  \/ ConsumeAnonymousReadOuter(r) \/ ConsumeSecurityAttemptBudget(r)

BudgetsNext == BudgetTick \/ \E r \in Attempts : AttemptStep(r)

BudgetsSpec == BudgetsInit /\ [][BudgetsNext]_budgetVars

(***************************************************************************)
(* Properties                                                              *)
(***************************************************************************)

\* A started window admits at most Limit requests of its digest, in whatever
\* order the requests that queued for the row with older readings are charged.
WindowHolds ==
  \A i \in 1..Len(admitted) :
    Cardinality({j \in 1..Len(admitted) : /\ admitted[j].day = admitted[i].day
                                          /\ admitted[j].start = admitted[i].start}) <= Limit

\* Once a window has started, it admits at most Limit requests of that source
\* until it ends: the change of the day in the digest does not start it afresh.
MidnightKeepsTheWindow ==
  \A i \in 1..Len(admitted) :
    Cardinality({j \in 1..Len(admitted) : /\ admitted[i].start <= admitted[j].now
                                          /\ admitted[j].now < admitted[i].start + Window}) <= Limit
=============================================================================
