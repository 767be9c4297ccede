---------------------------- MODULE ReconcileEpochs ----------------------------
(***************************************************************************)
(* The reconcile epochs of one account                                     *)
(* (backend/internal/reminder/assignment_reconcile_epoch.go, and           *)
(* reconcileEpochTick of assignment_background_runner.go).  An epoch fixes *)
(* the generation it aims at and the plans to visit.  A server resumes the *)
(* latest open epoch or creates one, leases its plans, marks them done and *)
(* completes it; any of these transactions, each under the lock of the     *)
(* reminder fence, may be the last one before a crash.  The generations    *)
(* and their work are ReminderFence's; here they settle on their own.      *)
(***************************************************************************)
EXTENDS Naturals, Sequences, FiniteSets

CONSTANTS
  EpochRunners,    \* servers with a PlanningAssignmentRunner
  EpochPlans,      \* plans with assignments
  ClaimLimit,      \* planningEpochPlanClaimLimit
  MaxGeneration,   \* bound: generations of the account
  MaxEpochRows,    \* bound: epochs on record
  MaxCrashes       \* bound: servers that stop

ASSUME EpochsAssumption ==
  ClaimLimit \in Nat \ {0} /\ MaxGeneration \in Nat /\ MaxEpochRows \in Nat /\ MaxCrashes \in Nat

VARIABLES
  epochs,       \* plan_assignment_reminder_reconcile_epochs with their plans, as created
  works,        \* planning_reminder_generation_work: the plan and the state of each generation
  runner,       \* where each server is in reconcileEpochTick
  crashes       \* servers stopped so far

epochVars == <<epochs, works, runner, crashes>>

\* "lapsed" is a leased row whose lease_until has passed.
RowStates   == {"absent", "pending", "leased", "lapsed", "done"}
EpochStates == {"open", "complete", "superseded"}
WorkStates  == {"pending", "quarantined", "applied"}
Resting     == [step |-> "rest", epoch |-> 0, claimed |-> {}]

EpochsInit ==
  /\ epochs = <<>> /\ works = <<>> /\ crashes = 0
  /\ runner = [r \in EpochRunners |-> Resting]

Target    == Len(works)  \* CaptureFenceTargetGeneration
OpenOnes  == {e \in DOMAIN epochs : epochs[e].status = "open"}
\* Variant: a row that was leased stays so.
ClaimableOnce(e) == {p \in EpochPlans : epochs[e].row[p] = "pending"}
Claimable(e)  == {p \in EpochPlans : epochs[e].row[p] \in {"pending", "lapsed"}}
Unfinished(e) == {p \in EpochPlans : epochs[e].row[p] \notin {"absent", "done"}}

-----------------------------------------------------------------------------
(* The work of the generations, and time. *)

\* A command on a plan takes the next generation.
PlanChanges(p) ==
  /\ Len(works) < MaxGeneration
  /\ works' = Append(works, [plan |-> p, state |-> "pending"])
  /\ UNCHANGED <<epochs, runner, crashes>>

WorkBecomes(g, from, to) ==
  /\ works[g].state = from
  /\ works' = [works EXCEPT ![g].state = to]
  /\ UNCHANGED <<epochs, runner, crashes>>

WorkApplies(g)      == WorkBecomes(g, "pending", "applied")
WorkIsSetAside(g)   == WorkBecomes(g, "pending", "quarantined")
WorkIsRepaired(g)   == WorkBecomes(g, "quarantined", "applied")

LeaseLapses(e, p) ==
  /\ epochs[e].row[p] = "leased"
  /\ epochs' = [epochs EXCEPT ![e].row[p] = "lapsed"]
  /\ UNCHANGED <<works, runner, crashes>>

-----------------------------------------------------------------------------
(* reconcileEpochTick *)
Steps(r, next) == runner' = [runner EXCEPT ![r] = next] /\ UNCHANGED <<works, crashes>>

\* The first transaction of LoadOrCreateOpenEpoch resumes the latest open epoch.
LoadOpenEpoch(r) ==
  /\ runner[r].step = "rest"
  /\ IF OpenOnes = {}
     THEN /\ Len(epochs) + Cardinality({q \in EpochRunners : runner[q].step = "create"}) < MaxEpochRows
          /\ Steps(r, [Resting EXCEPT !.step = "create"])
     ELSE Steps(r, [Resting EXCEPT !.step = "claim",
                    !.epoch = CHOOSE e \in OpenOnes : \A f \in OpenOnes : f <= e])
  /\ UNCHANGED epochs

\* CreateEpoch runs in a second one, and does not look for open epochs again.
CreateEpoch(r) ==
  /\ runner[r].step = "create"
  /\ epochs' = Append(epochs,
       [target |-> Target, status |-> "open",
        row |-> [p \in EpochPlans |-> IF \E g \in DOMAIN works : works[g].plan = p
                                      THEN "pending" ELSE "absent"]])
  /\ Steps(r, [step |-> "claim", epoch |-> Len(epochs) + 1, claimed |-> {}])

\* Up to ClaimLimit rows at a time, and none when everything is done or leased to others.
ClaimEpochPlans(r) ==
  LET e == runner[r].epoch
  IN  /\ runner[r].step = "claim"
      /\ \E some \in SUBSET Claimable(e) :
           /\ Cardinality(some) <= ClaimLimit
           /\ Cardinality(some) < ClaimLimit => some = Claimable(e)
           /\ epochs' = [epochs EXCEPT ![e].row =
                [p \in EpochPlans |-> IF p \in some THEN "leased" ELSE epochs[e].row[p]]]
           /\ Steps(r, [runner[r] EXCEPT !.step = IF some = {} THEN "complete" ELSE "mark",
                                         !.claimed = some])

\* The row has to be leased, to whomever; if it is not, the tick ends with an error.
MarkEpochPlanDone(r, p) ==
  LET e == runner[r].epoch
      left == runner[r].claimed \ {p}
  IN  /\ runner[r].step = "mark" /\ p \in runner[r].claimed
      /\ IF epochs[e].row[p] \in {"leased", "lapsed"}
         THEN /\ epochs' = [epochs EXCEPT ![e].row[p] = "done"]
              /\ Steps(r, [runner[r] EXCEPT !.claimed = left,
                                            !.step = IF left = {} THEN "claim" ELSE "mark"])
         ELSE UNCHANGED epochs /\ Steps(r, Resting)

\* assertEpochTargetSettled: no work up to the target is pending, and no quarantine is open,
\* whichever its generation.
TargetSettled(target) ==
  /\ \A g \in 1..target : works[g].state = "applied"
  /\ target > 0 => \A g \in DOMAIN works : works[g].state # "quarantined"

\* What becomes of an open epoch: commands have passed its target, or everything is done.
Outcome(e) ==
  IF epochs[e].target # Target THEN "superseded"
  ELSE IF Unfinished(e) = {} /\ TargetSettled(epochs[e].target) THEN "complete"
  ELSE "open"

CompleteEpoch(r) ==
  LET e == runner[r].epoch
  IN  /\ runner[r].step = "complete"
      /\ epochs' = IF epochs[e].status = "open"
                   THEN [epochs EXCEPT ![e].status = Outcome(e)] ELSE epochs
      /\ Steps(r, Resting)

\* A failed transaction ends the tick; a crash ends the server, and another takes its place.
TickEnds(r) ==
  /\ runner[r].step # "rest" /\ crashes < MaxCrashes
  /\ crashes' = crashes + 1
  /\ runner' = [runner EXCEPT ![r] = Resting]
  /\ UNCHANGED <<epochs, works>>

Tick(r) ==
  \/ LoadOpenEpoch(r) \/ CreateEpoch(r) \/ ClaimEpochPlans(r)
  \/ \E p \in EpochPlans : MarkEpochPlanDone(r, p)
  \/ CompleteEpoch(r)

EpochsNext ==
  \/ \E p \in EpochPlans : PlanChanges(p) \/ \E e \in DOMAIN epochs : LeaseLapses(e, p)
  \/ \E g \in DOMAIN works : WorkApplies(g) \/ WorkIsSetAside(g) \/ WorkIsRepaired(g)
  \/ \E r \in EpochRunners : Tick(r) \/ TickEnds(r)

\* Run ticks again after an error; leases lapse; and work settles, which ReminderFence shows.
LeaseGoesBy(e, p) == e \in DOMAIN epochs /\ LeaseLapses(e, p)
WorkSettles(g)    == g \in DOMAIN works /\ (WorkApplies(g) \/ WorkIsRepaired(g))
EpochsFairness ==
  /\ \A r \in EpochRunners : WF_epochVars(Tick(r))
  /\ \A e \in 1..MaxEpochRows, p \in EpochPlans : WF_epochVars(LeaseGoesBy(e, p))
  /\ \A g \in 1..MaxGeneration : WF_epochVars(WorkSettles(g))

EpochsSpec == EpochsInit /\ [][EpochsNext]_epochVars /\ EpochsFairness

EpochsTypeOK ==
  /\ epochs \in Seq([target : 0..MaxGeneration, status : EpochStates,
                     row : [EpochPlans -> RowStates]])
  /\ works \in Seq([plan : EpochPlans, state : WorkStates])
  /\ runner \in [EpochRunners -> [step : {"rest", "create", "claim", "mark", "complete"},
                             epoch : 0..MaxEpochRows, claimed : SUBSET EpochPlans]]
  /\ crashes \in 0..MaxCrashes

-----------------------------------------------------------------------------
\* Every epoch ends, completed or superseded, and none stays open for good: neither the second
\* one that two servers create at once, nor one whose server stopped between a lease and its
\* mark (LoadOrCreateOpenEpoch, reconcileEpochTick).
EpochsEnd ==
  \A e \in 1..MaxEpochRows :
    (e \in OpenOnes) ~> (e \in DOMAIN epochs /\ epochs[e].status # "open")
===============================================================================
