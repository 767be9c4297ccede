------------------------------ MODULE PlanBoard ------------------------------
(***************************************************************************)
(* One shoot plan on its board: its state, its shots and their positions,  *)
(* its readiness items, the run sessions, the log of what was captured,    *)
(* skipped, cleared or voided, and the snapshots taken when it completes.  *)
(*                                                                         *)
(* Every command locks the plan row, refuses a caller whose revision is    *)
(* not the current one, and commits alone; a stale caller changes nothing, *)
(* so revisions need no state here.  Texts and tags are left out.          *)
(***************************************************************************)
EXTENDS Naturals, Sequences, SequencesExt, FiniteSets

CONSTANTS Shots, Items,   \* ids; each is created at most once
          NoShot,         \* no position reference
          MaxFacts, MaxSessions, MaxFinals   \* bounds

ASSUME PlanBoardAssumption ==
  /\ NoShot \notin Shots
  /\ {MaxFacts, MaxSessions, MaxFinals} \subseteq Nat

VARIABLES status,
          shots,      \* [Shots -> state, position (0: not on the board), current outcome]
          items,      \* [Items -> state, requirement, preflight]
          shotLinks,  \* shoot_plan_shot_readiness_links
          sessions,   \* run sessions in order: still open?, opened in the live window?
          facts,      \* the execution log: results and voids, in the server's order
          finals      \* the finalization snapshots

boardVars == <<status, shots, items, shotLinks, sessions, facts, finals>>

PlanStatuses == {"draft", "ready", "in_progress", "completed", "archived"}
Lives        == {"new", "current", "removed"}
\* Of the skips, only those for missing preparation are counted; the others
\* behave as a capture does.
Results      == {"captured", "preparation_missing", "cleared"}

NoOutcome == 0

BoardTypeOK ==
  /\ status \in PlanStatuses
  /\ shots \in [Shots -> [state: Lives, position: Nat, outcome: 0..MaxFacts]]
  /\ items \in [Items -> [state: Lives, required: BOOLEAN, checked: BOOLEAN]]
  /\ shotLinks \subseteq Shots \X Items
  /\ sessions \in Seq([open: BOOLEAN, live: BOOLEAN])
  /\ facts \in Seq([kind: {"result"}, shot: Shots, result: Results, live: BOOLEAN]
                     \cup [kind: {"void"}, shot: Shots, target: 1..MaxFacts])
  /\ finals \in Seq([outcomes: [Shots -> 0..MaxFacts], current: SUBSET Shots,
                     missing: SUBSET (1..MaxFacts), facts: 0..MaxFacts])

BoardInit ==
  /\ status = "draft"
  /\ shots = [x \in Shots |-> [state |-> "new", position |-> 0, outcome |-> NoOutcome]]
  /\ items = [i \in Items |-> [state |-> "new", required |-> FALSE, checked |-> FALSE]]
  /\ shotLinks = {}
  /\ sessions = << >> /\ facts = << >> /\ finals = << >>

CurrentShots == {x \in Shots : shots[x].state = "current"}
CurrentItems == {i \in Items : items[i].state = "current"}

(***************************************************************************)
(* Structural commands                                                     *)
(***************************************************************************)

requiredReadinessIncomplete(all) ==
  \E i \in Items : all[i].state = "current" /\ all[i].required /\ ~all[i].checked

\* A structural change never takes readiness back.
StatusUnchanged(all) == status

\* A ready plan whose preparation is no longer complete is a draft again.
StatusAfterStructuralMutation(all) ==
  IF status = "ready" /\ requiredReadinessIncomplete(all) THEN "draft" ELSE status

Structural == status \notin {"completed", "archived"}

Restructured == Structural /\ status' = StatusAfterStructuralMutation(items')

Positions  == {shots[x].position : x \in CurrentShots}
LastPlace  == IF Positions = {} THEN 0 ELSE CHOOSE p \in Positions : \A q \in Positions : q <= p

insertionPosition(after) == IF after = NoShot THEN LastPlace + 1 ELSE shots[after].position + 1

\* A shot is inserted at the end or right after another; the rest makes room.
InsertShot(x, after) ==
  /\ shots[x].state = "new"
  /\ after \in CurrentShots \cup {NoShot}
  /\ LET place == insertionPosition(after)
         shift(y) == IF y \in CurrentShots /\ shots[y].position >= place
                       THEN [shots[y] EXCEPT !.position = @ + 1] ELSE shots[y]
     IN shots' = [y \in Shots |-> IF y = x THEN [shots[x] EXCEPT !.state = "current", !.position = place]
                                           ELSE shift(y)]
  /\ UNCHANGED <<items, shotLinks, sessions, facts, finals>>
  /\ Restructured

Numbered(order) ==
  [x \in Shots |-> IF \E k \in DOMAIN order : order[k] = x
                     THEN [shots[x] EXCEPT !.state = "current",
                                           !.position = CHOOSE k \in DOMAIN order : order[k] = x]
                     ELSE shots[x]]

ReorderShots(order) ==
  /\ shots' = Numbered(order)
  /\ UNCHANGED <<items, shotLinks, sessions, facts, finals>>
  /\ Restructured

\* A removed shot keeps its history, which the caller acknowledges if there is any.
RemoveShot(x) ==
  /\ x \in CurrentShots
  /\ shots' = [shots EXCEPT ![x].state = "removed", ![x].position = 0]
  /\ shotLinks' = {l \in shotLinks : l[1] # x}
  /\ UNCHANGED <<items, sessions, facts, finals>>
  /\ Restructured

UpsertReadiness(i, required, checked) ==
  /\ items[i].state # "removed"
  /\ items' = [items EXCEPT ![i] = [state |-> "current", required |-> required, checked |-> checked]]
  /\ UNCHANGED <<shots, shotLinks, sessions, facts, finals>>
  /\ Restructured

\* The removal guard of the assignments may refuse first.
RemoveReadiness(i) ==
  /\ i \in CurrentItems
  /\ items' = [items EXCEPT ![i].state = "removed"]
  /\ shotLinks' = {l \in shotLinks : l[2] # i}
  /\ UNCHANGED <<shots, sessions, facts, finals>>
  /\ Restructured

SetPreflight(i, checked) ==
  /\ i \in CurrentItems
  /\ items' = [items EXCEPT ![i].checked = checked]
  /\ UNCHANGED <<shots, shotLinks, sessions, facts, finals>>
  /\ Restructured

LinkReadiness(x, i) ==
  /\ x \in CurrentShots /\ i \in CurrentItems
  /\ shotLinks' = shotLinks \cup {<<x, i>>}
  /\ UNCHANGED <<shots, items, sessions, facts, finals>>
  /\ Restructured

UnlinkReadiness(x, i) ==
  /\ x \in CurrentShots /\ i \in CurrentItems
  /\ shotLinks' = shotLinks \ {<<x, i>>}
  /\ UNCHANGED <<shots, items, sessions, facts, finals>>
  /\ Restructured

(***************************************************************************)
(* Batches: shots and items first, then positions, then links              *)
(***************************************************************************)

Placed(order, after) == SelectInSeq(order, LAMBDA y : y = after)

\* The board in order once x is on it, at its end or right after another shot.
applyBatchShotPositions(x, after) ==
  LET order == CHOOSE o \in SetToSeqs(CurrentShots) :
                 \A j, k \in DOMAIN o : j < k => shots[o[j]].position < shots[o[k]].position
  IN IF after = NoShot THEN Append(order, x) ELSE InsertAt(order, Placed(order, after) + 1, x)

\* A batch that creates a shot, an item and the link between them.
CommitPlanBatch(x, after, i, required) ==
  /\ shots[x].state = "new" /\ items[i].state = "new"
  /\ after \in CurrentShots \cup {NoShot}
  /\ shots' = Numbered(applyBatchShotPositions(x, after))
  /\ items' = [items EXCEPT ![i] = [state |-> "current", required |-> required, checked |-> FALSE]]
  /\ shotLinks' = shotLinks \cup {<<x, i>>}
  /\ UNCHANGED <<sessions, facts, finals>>
  /\ Restructured

(***************************************************************************)
(* Execution                                                               *)
(***************************************************************************)

\* A session is live when it is opened inside the live window.
OpenRunSession(live) ==
  /\ status \in {"ready", "in_progress"}
  /\ Len(sessions) < MaxSessions
  /\ status' = "in_progress"
  /\ sessions' = Append(sessions, [open |-> TRUE, live |-> live])
  /\ UNCHANGED <<shots, items, shotLinks, facts, finals>>

Voided(log) == {log[k].target : k \in {k \in DOMAIN log : log[k].kind = "void"}}

\* The latest result of the shot that is not voided; a clearing one leaves none.
ReplayCurrentOutcome(log, x) ==
  LET valid == {k \in DOMAIN log : log[k].kind = "result" /\ log[k].shot = x} \ Voided(log)
      last  == CHOOSE k \in valid : \A j \in valid : j <= k
  IN IF valid = {} \/ log[last].result = "cleared" THEN NoOutcome ELSE last

\* The caller names the outcome it supersedes and so knows the current one.
AppendShotResult(x, result, live) ==
  /\ status = "in_progress"
  /\ x \in CurrentShots
  /\ Len(facts) < MaxFacts
  /\ live => \E s \in DOMAIN sessions : sessions[s].open /\ sessions[s].live
  /\ facts' = Append(facts, [kind |-> "result", shot |-> x, result |-> result, live |-> live])
  /\ shots' = [shots EXCEPT ![x].outcome = IF result = "cleared" THEN NoOutcome ELSE Len(facts) + 1]
  /\ UNCHANGED <<status, items, shotLinks, sessions, finals>>

VoidExecutionEvent(e) ==
  /\ status = "in_progress"
  /\ Len(facts) < MaxFacts
  /\ facts[e].kind = "result" /\ e \notin Voided(facts)
  /\ facts' = Append(facts, [kind |-> "void", shot |-> facts[e].shot, target |-> e])
  /\ shots' = [shots EXCEPT ![facts[e].shot].outcome = ReplayCurrentOutcome(facts', facts[e].shot)]
  /\ UNCHANGED <<status, items, shotLinks, sessions, finals>>

preparationMissingEventIDs ==
  {k \in DOMAIN facts : /\ facts[k].kind = "result" /\ facts[k].result = "preparation_missing"
                        /\ facts[k].live /\ k \notin Voided(facts) /\ facts[k].shot \in CurrentShots}

(***************************************************************************)
(* Transitions                                                             *)
(***************************************************************************)

closeSessions == [s \in DOMAIN sessions |-> [sessions[s] EXCEPT !.open = FALSE]]

MarkReady ==
  /\ status = "draft"
  /\ ~requiredReadinessIncomplete(items)
  /\ status' = "ready"
  /\ UNCHANGED <<shots, items, shotLinks, sessions, facts, finals>>

StartPlan ==
  /\ status = "ready"
  /\ status' = "in_progress"
  /\ UNCHANGED <<shots, items, shotLinks, sessions, facts, finals>>

Snapshot == [outcomes |-> [x \in Shots |-> IF x \in CurrentShots THEN shots[x].outcome ELSE NoOutcome],
             current |-> CurrentShots, missing |-> preparationMissingEventIDs, facts |-> Len(facts)]

completePlan ==
  /\ status = "in_progress"
  /\ CurrentShots # {} /\ \A x \in CurrentShots : shots[x].outcome # NoOutcome
  /\ Len(finals) < MaxFinals
  /\ finals' = Append(finals, Snapshot)
  /\ sessions' = closeSessions
  /\ status' = "completed"
  /\ UNCHANGED <<shots, items, shotLinks, facts>>

ReopenPlan ==
  /\ status = "completed"
  /\ status' = "in_progress"
  /\ UNCHANGED <<shots, items, shotLinks, sessions, facts, finals>>

ArchivePlan ==
  /\ status # "archived"
  /\ status' = "archived"
  /\ sessions' = closeSessions
  /\ UNCHANGED <<shots, items, shotLinks, facts, finals>>

ShotCommand(x) ==
  \/ \E y \in Shots \cup {NoShot} : InsertShot(x, y)
  \/ RemoveShot(x)
  \/ \E i \in Items : LinkReadiness(x, i) \/ UnlinkReadiness(x, i)
  \/ \E y \in Shots \cup {NoShot}, i \in Items, b \in BOOLEAN : CommitPlanBatch(x, y, i, b)
  \/ \E result \in Results, live \in BOOLEAN : AppendShotResult(x, result, live)

ItemCommand(i) ==
  \/ \E a, b \in BOOLEAN : UpsertReadiness(i, a, b)
  \/ RemoveReadiness(i)
  \/ \E b \in BOOLEAN : SetPreflight(i, b)

PlanTransition == MarkReady \/ StartPlan \/ completePlan \/ ReopenPlan \/ ArchivePlan

BoardNext ==
  \/ \E x \in Shots : ShotCommand(x)
  \/ \E order \in SetToSeqs(CurrentShots) : ReorderShots(order)
  \/ \E i \in Items : ItemCommand(i)
  \/ \E live \in BOOLEAN : OpenRunSession(live)
  \/ \E e \in DOMAIN facts : VoidExecutionEvent(e)
  \/ PlanTransition

BoardSpec == BoardInit /\ [][BoardNext]_boardVars

(***************************************************************************)
(* Properties                                                              *)
(***************************************************************************)

\* A ready plan has no required item unchecked, whatever was added since.
ReadyMeansPrepared == status = "ready" => ~requiredReadinessIncomplete(items)

\* The outcome kept on a shot, set by an append and recomputed by a void, is
\* what the whole log says.
OutcomesAreReplayed == \A x \in Shots : shots[x].outcome = ReplayCurrentOutcome(facts, x)

\* A completed plan is what its last snapshot says, and nobody records into it.
SnapshotIsFinal ==
  status = "completed" =>
    /\ finals # << >> /\ finals[Len(finals)] = Snapshot
    /\ \A s \in DOMAIN sessions : ~sessions[s].open

\* No two shots share a place, and only what is on the board is linked.
BoardInOrder ==
  /\ \A x, y \in CurrentShots : shots[x].position = shots[y].position => x = y
  /\ shotLinks \subseteq CurrentShots \X CurrentItems

\* What one command derives, every other command keeps derived.
BoardAgrees == ReadyMeansPrepared /\ OutcomesAreReplayed /\ SnapshotIsFinal /\ BoardInOrder
============================================================================
