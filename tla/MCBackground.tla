----------------------------- MODULE MCBackground -----------------------------
(***************************************************************************)
(* What the servers must get done, under TLC: binds that wait at the gate, *)
(* reconcile epochs, the end of the process itself, and the removal of     *)
(* avatars nobody names.  They share no state here, so a behaviour picks   *)
(* one of them and the others stay where they start.                       *)
(***************************************************************************)
EXTENDS RecipientGate, ReconcileEpochs, ServerLife, AvatarLifecycle

CONSTANT Duties  \* what this instance explores

VARIABLE duty

backgroundVars == <<duty, gateVars, epochVars, lifeVars, vars>>

\* Only the avatars have more than one initial state; it counts once per duty.
BackgroundInit ==
  /\ duty \in Duties
  /\ GateInit /\ EpochsInit /\ LifeInit /\ Init
  /\ duty # "avatars" => subject = "customer"

BackgroundNext ==
  /\ UNCHANGED duty
  /\ \/ duty = "gate"    /\ GateNext   /\ UNCHANGED <<epochVars, lifeVars, vars>>
     \/ duty = "epochs"  /\ EpochsNext /\ UNCHANGED <<gateVars, lifeVars, vars>>
     \/ duty = "life"    /\ LifeNext   /\ UNCHANGED <<gateVars, epochVars, vars>>
     \/ duty = "avatars" /\ Next       /\ UNCHANGED <<gateVars, epochVars, lifeVars>>

\* The fairness of each of them.  Nobody is at the gate in the other duties, so its fairness
\* asks nothing there.
BackgroundSpec ==
  /\ BackgroundInit /\ [][BackgroundNext]_backgroundVars
  /\ \A p \in Callers : WF_gateVars(Enter(p) \/ Park(p)) /\ WF_gateVars(Leave(p))
  /\ \A r \in EpochRunners : WF_epochVars(duty = "epochs" /\ Tick(r))
  /\ \A e \in 1..MaxEpochRows, p \in EpochPlans : WF_epochVars(LeaseGoesBy(e, p))
  /\ \A g \in 1..MaxGeneration : WF_epochVars(WorkSettles(g))
  /\ WF_lifeVars(duty = "life" /\ Main) /\ WF_lifeVars(GraceEnds)
  /\ \A h \in Hands : WF_lifeVars(ReleaseConnection(h))
  /\ \A n \in Runners : WF_vars(duty = "avatars" /\ RunnerStep(n))
  /\ \A r \in Requests : WF_vars(duty = "avatars" /\ req[r].pc \in Working /\ RequestStep(r))
  /\ \A o \in Objects : WF_vars(duty = "avatars" /\ TimePasses(o))
===============================================================================
