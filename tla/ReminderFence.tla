---------------------------- MODULE ReminderFence ----------------------------
(***************************************************************************)
(* The generation fence of one account and everything that runs under it.  *)
(*                                                                         *)
(* A mutation of a fact the checklist reminders depend on (an assignment   *)
(* is claimed or revoked, the timezone changes, an order, a slot or a plan *)
(* changes) reserves the next generation in its own transaction.  CRM and  *)
(* archive mutations settle their generation there and then; the others    *)
(* leave a pending work behind, which background runners and bearer reads  *)
(* of every server consume in batches, in generation order.  A work whose  *)
(* source event does not verify rolls its whole batch back, is quarantined *)
(* in a transaction of its own and repaired later under a lease.  A clock  *)
(* that passes the start of a shoot is turned into a generation, too.      *)
(*                                                                         *)
(* Every transaction locks the fence row first, so a transaction is one    *)
(* step; what interleaves are the transactions of the actors.  A           *)
(* transaction that fails for a reason outside the model changes nothing.  *)
(***************************************************************************)
EXTENDS Integers, FiniteSets

CONSTANTS Plans,        \* plan identifiers, in the order of the code: numbers
          Assignments,  \* assignments that may be claimed
          PlanOf,       \* the plan of an assignment
          Times,        \* start times a slot may have
          Runners,      \* background runners, one per server
          Readers,      \* bearer reads
          Mutations,    \* the kinds of mutation writers make
          Defects,      \* what may be wrong with a source event
          ClaimLimit,   \* works claimed per batch (16 in the runner, 8 in a read)
          WriterLag,    \* ticks a CRM writer may wait for the fence with its clock read
          None,         \* no plan, no assignment, no owner
          MaxFacts,     \* bound: the last generation a writer reserves
          MaxGen,       \* bound: generations in all
          MaxNow,       \* bound: the clock
          MaxZone,      \* bound: changes of the timezone
          MaxCrashes    \* bound: crashes of runners

ASSUME SetsAssumption == /\ Plans \subseteq Nat /\ IsFiniteSet(Plans)
                         /\ PlanOf \in [Assignments -> Plans]
                         /\ Times \subseteq Nat \ {0}
                         /\ Runners \cap Readers = {}
ASSUME BoundsAssumption == /\ ClaimLimit \in Nat \ {0}
                           /\ WriterLag \in Nat
                           /\ MaxFacts \in Nat /\ MaxGen \in Nat /\ MaxFacts <= MaxGen
                           /\ MaxNow \in Nat /\ MaxZone \in Nat /\ MaxCrashes \in Nat
ASSUME KindsAssumption == Defects \subseteq {"content", "identity"}

VARIABLES
  now,      \* the clock of the database
  rev,      \* revision of an assignment: 0 not claimed, 1 active, 2 revoked
  linked,   \* the plan has an order that is not cancelled
  booked,   \* start of the shoot slot of that order, 0 without one
  archived, \* the plan is archived
  zone,     \* the timezone of the account, counted
  target,   \* the last generation reserved
  applied,  \* the contiguous watermark
  work,     \* the work of a generation, with its resolution
  inbox,    \* generations of the source events acknowledged
  quar,     \* the quarantine of a generation's source event
  marker,   \* the temporal invalidation of a plan and a start time
  src,      \* revision of an assignment in the projection
  seenZone, \* the timezone a plan was last projected under
  group,    \* end of validity of the plan's current reminder group, 0 without one
  proc,     \* where each runner and each read is
  crashes

facts == <<rev, linked, booked, archived, zone>>
fence == <<target, applied, work>>
projection == <<src, seenZone, group>>
vars == <<now, facts, fence, inbox, quar, marker, projection, proc, crashes>>

Works == 1..MaxGen
Procs == Runners \cup Readers
NoTime == 0
AssignmentKinds == {"activated", "revoked"}
Kinds == AssignmentKinds \cup {"timezone", "lifecycle", "archived", "started"}

\* The plan a work is about; an assignment's work names the assignment.
PlanFor(w) == IF w.kind \in AssignmentKinds THEN PlanOf[w.about] ELSE w.about
AssignmentsOf(p) == {a \in Assignments : PlanOf[a] = p}
RevisionOf(w) == IF w.kind = "activated" THEN 1 ELSE 2

\* How a work of a kind is resolved when it is consumed.
ResolutionOf(kind) == CASE kind \in AssignmentKinds -> "event_applied"
                        [] kind = "timezone" -> "settings_rebuilt"
                        [] kind = "started" -> "temporal_applied"
                        [] OTHER -> "lifecycle_applied"

Resolutions == {"none", "event_applied", "rebuild_verified", "lifecycle_applied",
                "settings_rebuilt", "temporal_applied"}

NoWork == [kind |-> "none", about |-> None, defect |-> "none",
           state |-> "none", resolution |-> "none"]
Pending(kind, x, d) == [kind |-> kind, about |-> x, defect |-> d,
                        state |-> "pending", resolution |-> "none"]
NoQuarantine == [state |-> "none", due |-> FALSE, owner |-> None]
NoMarker == [state |-> "none", gen |-> 0]

WorkRecords == [kind : Kinds \cup {"none"}, about : Plans \cup Assignments \cup {None},
                defect : Defects \cup {"none"},
                state : {"none", "pending", "applied", "quarantined"},
                resolution : Resolutions]
RunnerSteps == {"consume", "ensure", "again", "claim", "repair", "persist"}
ReaderSteps == {"idle", "check", "drain", "persist", "final", "served", "retry", "failed"}

\* The tables of the fence and of the projection keep their columns and
\* CHECKs, and the memory of runners and readers keeps its ranges.
TypeOK ==
  /\ now \in 0..MaxNow /\ zone \in 0..MaxZone /\ crashes \in 0..MaxCrashes
  /\ rev \in [Assignments -> 0..2] /\ src \in [Assignments -> 0..2]
  /\ linked \in [Plans -> BOOLEAN] /\ archived \in [Plans -> BOOLEAN]
  /\ booked \in [Plans -> Times \cup {NoTime}] /\ group \in [Plans -> Times \cup {NoTime}]
  /\ seenZone \in [Plans -> 0..MaxZone]
  /\ target \in 0..MaxGen /\ applied \in 0..target
  /\ work \in [Works -> WorkRecords]
  /\ inbox \subseteq Works
  /\ quar \in [Works -> [state : {"none", "open", "resolved"}, due : BOOLEAN,
                         owner : Runners \cup {None}]]
  /\ marker \in [Plans -> [Times -> [state : {"none", "pending", "applied"}, gen : 0..MaxGen]]]
  /\ proc \in [Procs -> [pc : RunnerSteps \cup ReaderSteps, gen : 0..MaxGen,
                         claimed : SUBSET Works, target : 0..MaxGen]]

Init ==
  /\ now = 0 /\ zone = 0 /\ crashes = 0
  /\ rev = [a \in Assignments |-> 0] /\ src = [a \in Assignments |-> 0]
  /\ linked \in [Plans -> BOOLEAN] /\ archived = [p \in Plans |-> FALSE]
  /\ booked \in [Plans -> Times \cup {NoTime}]
  /\ \A p \in Plans : ~linked[p] => booked[p] = NoTime
  /\ seenZone = [p \in Plans |-> 0] /\ group = [p \in Plans |-> NoTime]
  /\ target = 0 /\ applied = 0
  /\ work = [g \in Works |-> NoWork]
  /\ inbox = {} /\ quar = [g \in Works |-> NoQuarantine]
  /\ marker = [p \in Plans |-> [t \in Times |-> NoMarker]]
  /\ proc = [x \in Procs |-> [pc |-> IF x \in Runners THEN "consume" ELSE "idle",
                              gen |-> 0, claimed |-> {}, target |-> 0]]

-----------------------------------------------------------------------------
(***************************************************************************)
(* The fence.                                                              *)
(***************************************************************************)
Settled(w, g) == w[g].state = "applied" /\ w[g].resolution # "none"

\* Applying a work moves the watermark over every settled work that follows it.
Watermark(from, upto, w) ==
  CHOOSE n \in from..upto : /\ \A g \in (from + 1)..n : Settled(w, g)
                            /\ n < upto => ~Settled(w, n + 1)

\* Variant: the resolution is not written.
ApplyUnresolved(w, S) == [g \in Works |->
  IF g \in S THEN [w[g] EXCEPT !.state = "applied"] ELSE w[g]]

\* The works once a set of them is applied, each with its resolution.
Apply(w, S) == [g \in Works |->
  IF g \in S THEN [w[g] EXCEPT !.state = "applied", !.resolution = ResolutionOf(w[g].kind)]
             ELSE w[g]]

\* Variant: the watermark jumps to the generation settled, over pending ones.
SettleToTarget(upto, w, S) == /\ target' = upto
                              /\ work' = Apply(w, S)
                              /\ applied' = IF S = {} THEN applied
                                             ELSE CHOOSE n \in S : \A g \in S : g <= n

\* A transaction that settles the generations S of the works w.
Settle(upto, w, S) == /\ target' = upto
                      /\ work' = Apply(w, S)
                      /\ applied' = Watermark(applied, upto, work')

\* Several facts of one transaction reserve in the order of their plans.
Orderings(S) == {o \in [1..Cardinality(S) -> S] :
                   \A i, j \in 1..Cardinality(S) : i < j => o[i] < o[j]}
Reserve(kind, o, n, d) ==
  [g \in Works |-> IF g \in target + 1 .. target + n THEN Pending(kind, o[g - target], d)
                                                     ELSE work[g]]
ReserveOne(kind, x, d) == Reserve(kind, [i \in {1} |-> x], 1, d)
WriterRoom(n) == target + n <= MaxFacts

(***************************************************************************)
(* The reducer: the group a plan should have, from facts read at time t.   *)
(* Reconciling a plan projects every assignment of it, too.                *)
(***************************************************************************)
\* Variant: a shoot that starts at this very moment is still ahead.
DesiredAtStart(p, isLinked, slot, isArchived, t) ==
  IF isLinked /\ ~isArchived /\ slot # NoTime /\ slot >= t
       /\ \E a \in AssignmentsOf(p) : rev[a] = 1
  THEN slot ELSE NoTime
Desired(p, isLinked, slot, isArchived, t) ==
  IF isLinked /\ ~isArchived /\ slot > t /\ \E a \in AssignmentsOf(p) : rev[a] = 1
  THEN slot ELSE NoTime
DesiredNow(p) == Desired(p, linked[p], booked[p], archived[p], now)
ProjectSources(P) == [a \in Assignments |-> IF PlanOf[a] \in P THEN rev[a] ELSE src[a]]
ProjectZone(P) == [p \in Plans |-> IF p \in P THEN zone ELSE seenZone[p]]

-----------------------------------------------------------------------------
(***************************************************************************)
(* The writers.                                                            *)
(***************************************************************************)
\* Only a plan linked to an order is shown with something to claim.
Claim(a, d) ==
  /\ "claim" \in Mutations /\ WriterRoom(1)
  /\ rev[a] = 0 /\ linked[PlanOf[a]] /\ ~archived[PlanOf[a]]
  /\ rev' = [rev EXCEPT ![a] = 1]
  /\ target' = target + 1 /\ work' = ReserveOne("activated", a, d)
  /\ UNCHANGED <<now, linked, booked, archived, zone, applied, inbox, quar, marker,
                 projection, proc, crashes>>

Revoke(a, d) ==
  /\ "revoke" \in Mutations /\ WriterRoom(1)
  /\ rev[a] = 1 /\ ~archived[PlanOf[a]]
  /\ rev' = [rev EXCEPT ![a] = 2]
  /\ target' = target + 1 /\ work' = ReserveOne("revoked", a, d)
  /\ UNCHANGED <<now, linked, booked, archived, zone, applied, inbox, quar, marker,
                 projection, proc, crashes>>

\* Every plan with a retained or a projected assignment is to be recomputed.
ChangeZone ==
  LET affected == {p \in Plans : \E a \in AssignmentsOf(p) : rev[a] # 0 \/ src[a] # 0}
      n == Cardinality(affected)
  IN /\ "zone" \in Mutations /\ zone < MaxZone /\ WriterRoom(n)
     /\ zone' = zone + 1
     /\ \E o \in Orderings(affected) : work' = Reserve("timezone", o, n, "none")
     /\ target' = target + n
     /\ UNCHANGED <<now, rev, linked, booked, archived, applied, inbox, quar, marker,
                    projection, proc, crashes>>

(***************************************************************************)
(* A CRM mutation reserves, recomputes the plan, writes the resolution and *)
(* settles in one transaction.  It passes the facts of the mutation to the *)
(* reducer, never that the plan is archived, and the time it read before   *)
(* it waited for the fence.                                                *)
(***************************************************************************)
CrmFact(p, isLinked, slot) ==
  /\ WriterRoom(1)
  /\ linked' = [linked EXCEPT ![p] = isLinked]
  /\ booked' = [booked EXCEPT ![p] = slot]
  /\ Settle(target + 1, ReserveOne("lifecycle", p, "none"), {target + 1})
  /\ \E read \in {t \in 0..now : t >= now - WriterLag} :
       group' = [group EXCEPT ![p] = Desired(p, isLinked, slot, FALSE, read)]
  /\ src' = ProjectSources({p}) /\ seenZone' = ProjectZone({p})
  /\ UNCHANGED <<now, rev, archived, zone, inbox, quar, marker, proc, crashes>>

\* Linking is refused on an archived plan; the order may have a slot already.
Link(p, slot) == /\ "link" \in Mutations /\ ~linked[p] /\ ~archived[p]
                 /\ CrmFact(p, TRUE, slot)
\* The order is unlinked, cancelled or deleted.
Unlink(p) == "unlink" \in Mutations /\ linked[p] /\ CrmFact(p, FALSE, NoTime)
\* The slot of the linked order is created, moved or resized.
Book(p, slot) == "book" \in Mutations /\ linked[p] /\ CrmFact(p, TRUE, slot)

\* The slot of the linked order is deleted: the reducer names no fact.
Unbook(p) ==
  /\ "unbook" \in Mutations /\ linked[p] /\ booked[p] # NoTime
  /\ booked' = [booked EXCEPT ![p] = NoTime]
  /\ UNCHANGED <<now, rev, linked, archived, zone, fence, inbox, quar, marker,
                 projection, proc, crashes>>

Archive(p) ==
  /\ "archive" \in Mutations /\ WriterRoom(1)
  /\ ~archived[p]
  /\ archived' = [archived EXCEPT ![p] = TRUE]
  /\ Settle(target + 1, ReserveOne("archived", p, "none"), {target + 1})
  /\ group' = [group EXCEPT ![p] = NoTime]
  /\ UNCHANGED <<now, rev, linked, booked, zone, inbox, quar, marker, src, seenZone, proc,
                 crashes>>

-----------------------------------------------------------------------------
(***************************************************************************)
(* Consuming: the oldest pending works, all of them or none.               *)
(***************************************************************************)
PendingWorks == {g \in 1..target : work[g].state = "pending"}
\* Variant: works of the clock are not listed.
BatchOfEvents == {g \in PendingWorks : /\ work[g].kind # "started"
                     /\ Cardinality({h \in PendingWorks : h < g}) < ClaimLimit}
Batch == {g \in PendingWorks : Cardinality({h \in PendingWorks : h < g}) < ClaimLimit}

\* Works of the batch that recompute their plan when they are applied.
\* Variant: a change of the timezone is applied without a recomputation.
RecomputingFacts == {g \in Batch : work[g].kind \notin {"started", "timezone"}}
Recomputing == {g \in Batch : work[g].kind # "started"}
\* The revision projected when the batch comes to g.
ProjectedAt(g, a) == IF \E h \in Recomputing : h < g /\ PlanFor(work[h]) = PlanOf[a]
                     THEN rev[a] ELSE src[a]

(***************************************************************************)
(* An event whose identity is not its work's never verifies; one whose     *)
(* fingerprint is wrong is noticed when its revision is the projected one, *)
(* or newer than that and the current one.                                 *)
(***************************************************************************)
Corrupt(g) ==
  LET a == work[g].about
      r == RevisionOf(work[g])
  IN /\ work[g].kind \in AssignmentKinds
     /\ \/ work[g].defect = "identity"
        \/ /\ work[g].defect = "content" /\ g \notin inbox
           /\ r = ProjectedAt(g, a) \/ (r > ProjectedAt(g, a) /\ r = rev[a])

ConsumeBatch ==
  LET plans == {PlanFor(work[g]) : g \in Recomputing}
      started == Batch \ Recomputing
      settles(p, t) == marker[p][t].state = "pending" /\ marker[p][t].gen \in started
  IN /\ Batch # {} /\ \A g \in Batch : ~Corrupt(g)
     /\ Settle(target, work, Batch)
     /\ inbox' = inbox \cup {g \in Batch : work[g].kind \in AssignmentKinds}
     /\ src' = ProjectSources(plans) /\ seenZone' = ProjectZone(plans)
     /\ group' = [p \in Plans |-> CASE p \in plans -> DesiredNow(p)
                    [] p \notin plans /\ group[p] # NoTime /\ settles(p, group[p]) -> NoTime
                    [] OTHER -> group[p]]
     /\ marker' = [p \in Plans |-> [t \in Times |->
                     IF settles(p, t) THEN [marker[p][t] EXCEPT !.state = "applied"]
                                      ELSE marker[p][t]]]

\* The steps of a runner's tick, and where an error takes it: to the next tick.
Goto(x, pc) == proc' = [proc EXCEPT ![x].pc = pc]
AfterConsume(x) == CASE proc[x].pc = "consume" -> "ensure"
                     [] proc[x].pc = "again" -> "claim"
                     [] proc[x].pc = "drain" -> "check"
Consuming(x) == proc[x].pc \in {"consume", "again", "drain"}

Consume(x) ==
  /\ Consuming(x) /\ ConsumeBatch
  /\ Goto(x, AfterConsume(x))
  /\ UNCHANGED <<now, facts, quar, crashes>>

\* A read that finds nothing to consume although it is behind gives up.
ConsumeNothing(x) ==
  /\ Consuming(x) /\ Batch = {}
  /\ Goto(x, IF x \in Readers THEN "failed" ELSE AfterConsume(x))
  /\ UNCHANGED <<now, facts, fence, inbox, quar, marker, projection, crashes>>

\* The first work that does not verify rolls the batch back.
RollBack(x) ==
  /\ Consuming(x)
  /\ \E g \in Batch : /\ Corrupt(g) /\ \A h \in Batch : h < g => ~Corrupt(h)
                      /\ proc' = [proc EXCEPT ![x].pc = "persist", ![x].gen = g]
  /\ UNCHANGED <<now, facts, fence, inbox, quar, marker, projection, crashes>>

\* The quarantine is written afterwards; another server may have been faster.
\* Variant: the work is marked without looking at its state.
CanQuarantineAlways(g) == TRUE
CanQuarantine(g) == work[g].state = "pending" /\ quar[g].state # "resolved"
Quarantine(g) ==
  /\ work' = [work EXCEPT ![g].state = "quarantined"]
  /\ quar' = [quar EXCEPT ![g].state = "open", ![g].due = FALSE]

Persist(x) ==
  /\ proc[x].pc = "persist"
  /\ \/ CanQuarantine(proc[x].gen) /\ Quarantine(proc[x].gen)
     \/ ~CanQuarantine(proc[x].gen) /\ UNCHANGED <<work, quar>>
  /\ proc' = [proc EXCEPT ![x].pc = IF x \in Readers THEN "failed" ELSE "consume",
                          ![x].gen = 0]
  /\ UNCHANGED <<now, facts, target, applied, inbox, marker, projection, crashes>>

-----------------------------------------------------------------------------
(***************************************************************************)
(* Repairing: a runner leases the quarantined events that are due, then    *)
(* rebuilds each from the current facts in a transaction of its own.       *)
(***************************************************************************)
ClaimQuarantines(x) ==
  LET due == {g \in Works : quar[g].state = "open" /\ quar[g].due /\ quar[g].owner = None}
  IN /\ proc[x].pc = "claim"
     /\ quar' = [g \in Works |-> IF g \in due THEN [quar[g] EXCEPT !.owner = x] ELSE quar[g]]
     /\ proc' = [proc EXCEPT ![x].pc = IF due = {} THEN "consume" ELSE "repair",
                             ![x].claimed = due]
     /\ UNCHANGED <<now, facts, fence, inbox, marker, projection, crashes>>

\* Variants: the event is not acknowledged; the quarantine is not resolved.
RebuildUnacknowledged(g) ==
  LET p == PlanFor(work[g])
      repaired == [work EXCEPT ![g].state = "applied", ![g].resolution = "rebuild_verified"]
  IN /\ work' = repaired /\ target' = target
     /\ applied' = Watermark(applied, target, repaired)
     /\ quar' = [quar EXCEPT ![g].state = "resolved", ![g].due = FALSE, ![g].owner = None]
     /\ src' = ProjectSources({p}) /\ seenZone' = ProjectZone({p})
     /\ group' = [group EXCEPT ![p] = DesiredNow(p)]
     /\ UNCHANGED inbox
RebuildUnresolved(g) ==
  LET p == PlanFor(work[g])
      repaired == [work EXCEPT ![g].state = "applied", ![g].resolution = "rebuild_verified"]
  IN /\ work' = repaired /\ target' = target
     /\ applied' = Watermark(applied, target, repaired)
     /\ inbox' = inbox \cup {g}
     /\ quar' = [quar EXCEPT ![g].owner = None]
     /\ src' = ProjectSources({p}) /\ seenZone' = ProjectZone({p})
     /\ group' = [group EXCEPT ![p] = DesiredNow(p)]

Rebuild(g) ==
  LET p == PlanFor(work[g])
      repaired == [work EXCEPT ![g].state = "applied", ![g].resolution = "rebuild_verified"]
  IN /\ work' = repaired /\ target' = target
     /\ applied' = Watermark(applied, target, repaired)
     /\ inbox' = inbox \cup {g}
     /\ quar' = [quar EXCEPT ![g].state = "resolved", ![g].due = FALSE, ![g].owner = None]
     /\ src' = ProjectSources({p}) /\ seenZone' = ProjectZone({p})
     /\ group' = [group EXCEPT ![p] = DesiredNow(p)]

\* Under the fence nothing is left to do if another server has repaired it.
Repairable(g) == quar[g].state = "open" /\ work[g].state \in {"pending", "quarantined"}
Repair(x) ==
  /\ proc[x].pc = "repair"
  /\ \E g \in proc[x].claimed :
       /\ \/ Repairable(g) /\ Rebuild(g)
          \/ ~Repairable(g) /\ UNCHANGED <<fence, inbox, quar, projection>>
       /\ proc' = [proc EXCEPT
            ![x].pc = IF proc[x].claimed = {g} THEN "consume" ELSE "repair",
            ![x].claimed = proc[x].claimed \ {g}]
  /\ UNCHANGED <<now, facts, marker, crashes>>

BackoffEnds(g) ==
  /\ quar[g].state = "open" /\ ~quar[g].due
  /\ quar' = [quar EXCEPT ![g].due = TRUE]
  /\ UNCHANGED <<now, facts, fence, inbox, marker, projection, proc, crashes>>

\* Variant: a lease is never given up.
LeaseKept(g) == FALSE /\ UNCHANGED vars

LeaseEnds(g) ==
  /\ quar[g].owner # None
  /\ quar' = [quar EXCEPT ![g].owner = None]
  /\ UNCHANGED <<now, facts, fence, inbox, marker, projection, proc, crashes>>

-----------------------------------------------------------------------------
(***************************************************************************)
(* Time passing.  A runner turns the groups whose validity the clock of    *)
(* the database has reached into works, one per plan and start time; the   *)
(* rows come in no particular order, and the fence takes reservations in   *)
(* the order of the plans only.                                            *)
(***************************************************************************)
Expired == {p \in Plans : group[p] # NoTime /\ group[p] <= now}
MarkerOf(p) == marker[p][group[p]].state
Unmarked == {p \in Expired : MarkerOf(p) = "none"}
Reopened == {p \in Expired : MarkerOf(p) = "applied"}

EnsureTemporal(x) ==
  LET n == Cardinality(Unmarked)
  IN /\ proc[x].pc = "ensure" /\ Reopened = {} /\ target + n <= MaxGen
     /\ target' = target + n
     /\ \E o \in Orderings(Unmarked) :
          /\ work' = Reserve("started", o, n, "none")
          /\ marker' = [p \in Plans |-> [t \in Times |->
               IF p \in Unmarked /\ t = group[p]
               THEN [state |-> "pending", gen |-> target + CHOOSE i \in 1..n : o[i] = p]
               ELSE marker[p][t]]]
     /\ Goto(x, "again")
     /\ UNCHANGED <<now, facts, applied, inbox, quar, projection, crashes>>

\* A group under an applied marker, or rows in the wrong order, end the tick.
EnsureFails(x) ==
  /\ proc[x].pc = "ensure"
  /\ Reopened # {} \/ Cardinality(Unmarked) > 1
  /\ Goto(x, "consume")
  /\ UNCHANGED <<now, facts, fence, inbox, quar, marker, projection, crashes>>

-----------------------------------------------------------------------------
(***************************************************************************)
(* A bearer read: capture the target, drain up to it, then read under the  *)
(* fence if nothing has moved.                                             *)
(***************************************************************************)
Unresolved == \E g \in Works : quar[g].state = "open"

Capture(x) ==
  /\ proc[x].pc \in {"idle", "served", "retry", "failed"}
  /\ proc' = [proc EXCEPT ![x].pc = "check", ![x].target = target]
  /\ UNCHANGED <<now, facts, fence, inbox, quar, marker, projection, crashes>>

Check(x) ==
  /\ proc[x].pc = "check"
  /\ Goto(x, CASE Unresolved -> "failed"
               [] ~Unresolved /\ applied >= proc[x].target -> "final"
               [] OTHER -> "drain")
  /\ UNCHANGED <<now, facts, fence, inbox, quar, marker, projection, crashes>>

\* Variant: the target is not compared again.
VerdictOfCapture(x) == CASE Unresolved \/ applied < proc[x].target -> "failed"
                         [] ~Unresolved /\ applied >= proc[x].target ->
                              IF Expired = {} THEN "served" ELSE "retry"

Verdict(x) == CASE target # proc[x].target -> "retry"
                [] target = proc[x].target /\ (Unresolved \/ applied < target) -> "failed"
                [] target = proc[x].target /\ ~Unresolved /\ applied >= target ->
                     IF Expired = {} THEN "served" ELSE "retry"

\* The marker a read writes for an expired group goes with its transaction.
FinalRead(x) ==
  /\ proc[x].pc = "final"
  /\ Goto(x, Verdict(x))
  /\ UNCHANGED <<now, facts, fence, inbox, quar, marker, projection, crashes>>

-----------------------------------------------------------------------------
Tick == /\ now < MaxNow
        /\ now' = now + 1
        /\ UNCHANGED <<facts, fence, inbox, quar, marker, projection, proc, crashes>>

\* A server stops between two transactions; its leases stay until they end.
Crash(x) ==
  /\ crashes < MaxCrashes /\ crashes' = crashes + 1
  /\ proc[x].pc # "consume"
  /\ proc' = [proc EXCEPT ![x] = [pc |-> "consume", gen |-> 0, claimed |-> {}, target |-> 0]]
  /\ UNCHANGED <<now, facts, fence, inbox, quar, marker, projection>>

WriteFor(p) == \/ Unlink(p) \/ Unbook(p) \/ Archive(p)
               \/ \E t \in Times \cup {NoTime} : Link(p, t)
               \/ \E t \in Times : Book(p, t)

Write == \/ \E a \in Assignments, d \in Defects \cup {"none"} : Claim(a, d) \/ Revoke(a, d)
         \/ ChangeZone
         \/ \E p \in Plans : WriteFor(p)

DrainStep(x) == Consume(x) \/ ConsumeNothing(x) \/ RollBack(x) \/ Persist(x)
RunnerStep(x) == DrainStep(x) \/ EnsureTemporal(x) \/ EnsureFails(x)
                   \/ ClaimQuarantines(x) \/ Repair(x)
ReaderStep(x) == DrainStep(x) \/ Capture(x) \/ Check(x) \/ FinalRead(x)

Next == \/ Write
        \/ \E x \in Runners : RunnerStep(x) \/ Crash(x)
        \/ \E x \in Readers : ReaderStep(x)
        \/ \E g \in Works : BackoffEnds(g) \/ LeaseEnds(g)
        \/ Tick

Spec == Init /\ [][Next]_vars

\* The runner ticks every two seconds, and backoffs and leases run out.
Fairness == /\ \A x \in Runners : WF_vars(RunnerStep(x))
            /\ \A g \in Works : WF_vars(BackoffEnds(g)) /\ WF_vars(LeaseEnds(g))
FairSpec == Spec /\ Fairness

-----------------------------------------------------------------------------
(***************************************************************************)
(* Properties.                                                             *)
(***************************************************************************)

\* The watermark is exact after every transaction, however the generations
\* were settled: all up to it are settled, the next one is not.
WatermarkExact == /\ \A g \in 1..applied : Settled(work, g)
                  /\ applied < target => ~Settled(work, applied + 1)

\* A work and its resolution go together, an assignment event is acknowledged
\* exactly when its work is applied, and nothing else is ever acknowledged.
SettledOnce ==
  \A g \in Works :
    /\ (work[g].state = "applied") <=> (work[g].resolution # "none")
    /\ work[g].resolution \in {"none", ResolutionOf(work[g].kind)}
         \/ (work[g].resolution = "rebuild_verified" /\ quar[g].state = "resolved")
    /\ g \in inbox <=> (work[g].kind \in AssignmentKinds /\ work[g].state = "applied")

\* A work is out of the consumers' way exactly while an unresolved quarantine
\* will bring it back: whoever rolled it back, quarantined it and repaired it,
\* on however many servers.
QuarantinedComesBack ==
  \A g \in Works : /\ (work[g].state = "quarantined") <=> (quar[g].state = "open")
                   /\ quar[g].state = "resolved" => work[g].state = "applied"

\* When the watermark has reached the target, the projection shows every
\* assignment as it is and every plan under the timezone of the account.
CaughtUpMeansProjected ==
  applied = target =>
    /\ src = rev
    /\ \A p \in Plans : (\E a \in AssignmentsOf(p) : rev[a] # 0) /\ group[p] # NoTime
                          => seenZone[p] = zone

\* A group whose validity a marker has ended becomes current again by nobody but a CRM
\* mutation of its plan that read its clock before that validity ended: never by a
\* consumer, a repair or the clock, and never longer after the end than a writer waits.
Outlived(p) == group[p] # NoTime /\ MarkerOf(p) = "applied"
Reopens(p) == Outlived(p)' /\ ~(Outlived(p) /\ group'[p] = group[p])
LateMutation(p) == /\ target' = target + 1
                   /\ work'[target'].kind = "lifecycle" /\ work'[target'].about = p
                   /\ now < group'[p] + WriterLag
OnlyLateWritersReopen == [][\A p \in Plans : Reopens(p) => LateMutation(p)]_vars

\* A group whose validity a marker has ended does not become current again.
EndedStaysEnded == \A p \in Plans : ~Outlived(p)

\* A read that is served shows every assignment as it is and no group whose
\* shoot has started, whatever was written while it was draining.
Served(x) == proc[x].pc # "served" /\ proc'[x].pc = "served"
ReadsServeTheLatest ==
  [][\A x \in Readers : Served(x) => src = rev /\ applied = target /\ Expired = {}]_vars

\* The fence keeps what it promises.
Contract == INSTANCE GenerationFence
              WITH settled <- {g \in 1..target : Settled(work, g)}
KeepsContract == Contract!Spec

\* Every generation is settled in the end, corrupt or not.
EverySettled == \A g \in Works : g <= target ~> (g <= target /\ Settled(work, g))

\* A group whose shoot has started does not stay current.
EndedIsWithdrawn == \A p \in Plans : p \in Expired ~> p \notin Expired

\* The plan of a deleted slot keeps no current group once all is settled.
UnbookedHasNoGroup == applied = target => \A p \in Plans : group[p] # NoTime => booked[p] # NoTime

\* An archived plan has no current group.
ArchivedHasNoGroup == \A p \in Plans : archived[p] => group[p] = NoTime
=============================================================================
