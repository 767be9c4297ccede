----------------------------- MODULE ServerProofs -----------------------------
(***************************************************************************)
(* What holds of requests for any number of them: what visitors of a       *)
(* shared plan write is current when it is stored (PlanShare), a keyed     *)
(* command runs once per lifetime of its key (IdempotencyLedger), drafts   *)
(* apply what today's rows give (BusinessDrafts), sessions live and die by *)
(* families (Accounts), and a window admits no more than its limit         *)
(* (AttemptBudgets).                                                       *)
(***************************************************************************)
EXTENDS PlanShare, IdempotencyLedger, BusinessDrafts, Accounts, AttemptBudgets, FiniteSetTheorems, TLAPS

-----------------------------------------------------------------------------
(***************************************************************************)
(* Links.  A visit that nothing it relies on has overtaken can still be    *)
(* stored: its link is in force, and what it answers to is as it was read. *)
(***************************************************************************)
VisitRecords == [op : {"none", "read", "lost", "feedback", "claim", "giveUp"},
                 view : Views, seen : Nat, stale : BOOLEAN]

VisitsOK == visits \in [Visitors -> VisitRecords]

\* What visits compare.
SharedOK ==
  /\ sharedPlan \in Nat /\ item \in Nat
  /\ crm \in [epoch : Nat, last : Nat, order : {"consulting", "scheduled", "cancelled"}]
  /\ shareLinks \in [Views -> [state : LinkStates, epoch : Nat]]

Current(q) ==
  /\ q.op = "feedback" => InForce(q.view) /\ q.seen = sharedPlan
  /\ q.op = "claim"    => q.view = "full" /\ InForce("full") /\ q.seen = item /\ item # 0

VisitsCurrent == \A v \in Visitors : ~visits[v].stale => Current(visits[v])

ShareInv == VisitsOK /\ SharedOK /\ VisitsCurrent /\ ClaimedItemStays

LEMMA ShareStarts == ShareInit => ShareInv
BY DEF ShareInit, ShareInv, VisitsOK, VisitRecords, SharedOK, VisitsCurrent, Current, ClaimedItemStays,
       Claimed, NoVisit, Visit, Views, LinkStates

\* Writing marks who relies on what was written, and leaves the others as they were.
LEMMA WritesOvertake ==
  ASSUME NEW w \in [Visitors -> VisitRecords], NEW rows
  PROVE  /\ Overtaken(w, rows) \in [Visitors -> VisitRecords]
         /\ \A v \in Visitors : ~Overtaken(w, rows)[v].stale =>
              Overtaken(w, rows)[v] = w[v] /\ rows \cap Locks(w[v]) = {} /\ ~w[v].stale
<1>1. ASSUME NEW v \in Visitors
      PROVE  /\ Overtaken(w, rows)[v] \in VisitRecords
             /\ ~Overtaken(w, rows)[v].stale =>
                  Overtaken(w, rows)[v] = w[v] /\ rows \cap Locks(w[v]) = {} /\ ~w[v].stale
  <2>1. w[v] \in VisitRecords
    OBVIOUS
  <2>2. CASE rows \cap Locks(w[v]) # {}
    <3>1. Overtaken(w, rows)[v] = [w[v] EXCEPT !.stale = TRUE]
      BY <2>2 DEF Overtaken
    <3> QED
      BY <2>1, <3>1 DEF VisitRecords
  <2>3. CASE rows \cap Locks(w[v]) = {}
    <3>1. Overtaken(w, rows)[v] = w[v]
      BY <2>3 DEF Overtaken
    <3> QED
      BY <2>1, <2>3, <3>1
  <2> QED
    BY <2>2, <2>3
<1> QED
  BY <1>1 DEF Overtaken

LEMMA OvertakenKeepsOp ==
  ASSUME NEW w \in [Visitors -> VisitRecords], NEW rows, NEW v \in Visitors
  PROVE  Overtaken(w, rows)[v].op = w[v].op
<1>1. w[v] \in VisitRecords
  OBVIOUS
<1>2. CASE rows \cap Locks(w[v]) # {}
  <2>1. Overtaken(w, rows)[v] = [w[v] EXCEPT !.stale = TRUE]
    BY <1>2 DEF Overtaken
  <2> QED
    BY <1>1, <2>1 DEF VisitRecords
<1>3. CASE rows \cap Locks(w[v]) = {}
  BY <1>3 DEF Overtaken
<1> QED
  BY <1>2, <1>3

\* A step that writes rows keeps the invariant when it leaves current what does not rely on them.
LEMMA WriteKeepsIt ==
  ASSUME ShareInv, NEW w \in [Visitors -> VisitRecords], NEW rows, visits' = Overtaken(w, rows),
         \A v \in Visitors : w[v] = visits[v] \/ w[v].op = "none",
         \A q \in VisitRecords : Current(q) /\ rows \cap Locks(q) = {} => Current(q)',
         SharedOK', ClaimedItemStays'
  PROVE  ShareInv'
<1>1. VisitsOK'
  BY WritesOvertake DEF VisitsOK
<1>2. ASSUME NEW v \in Visitors, ~visits'[v].stale PROVE Current(visits[v])'
  <2>1. PICK q \in VisitRecords : q = w[v]
    OBVIOUS
  <2>2. visits'[v] = q /\ rows \cap Locks(q) = {} /\ ~q.stale
    BY <1>2, <2>1, WritesOvertake
  <2>3. CASE q = visits[v]
    <3>1. Current(q)
      BY <2>2, <2>3 DEF ShareInv, VisitsCurrent
    <3>2. Current(q)'
      BY <2>2, <3>1
    <3> QED
      BY <2>2, <3>2
  <2>4. CASE q.op = "none"
    <3>1. visits'[v].op = "none"
      BY <2>2, <2>4
    <3> QED
      BY <3>1 DEF Current
  <2> QED
    BY <2>1, <2>3, <2>4
<1> QED
  BY <1>1, <1>2 DEF ShareInv, VisitsCurrent

\* Rows that a visit relies on.
LEMMA WhoRelies ==
  ASSUME NEW q
  PROVE  /\ q.op = "feedback" => q.view \in Locks(q) /\ "plan" \in Locks(q)
         /\ q.op = "feedback" /\ q.view = "full" => "crm" \in Locks(q)
         /\ q.op = "claim" => {"crm", "fence", "plan", "item"} \subseteq Locks(q) /\ q.view \in Locks(q)
BY DEF Locks, Relies

-----------------------------------------------------------------------------
(* Action by action. *)
LEMMA ConnectionKeepsIt ==
  ASSUME ShareInv, JoinOrder \/ LeaveOrder \/ OrderMoves
  PROVE  ShareInv'
<1>1. PICK c \in [epoch : Nat, last : Nat, order : {"consulting", "scheduled", "cancelled"}] : Connects(c)
  <2>1. crm \in [epoch : Nat, last : Nat, order : {"consulting", "scheduled", "cancelled"}]
    BY DEF ShareInv, SharedOK
  <2>2. CASE JoinOrder
    BY <2>1, <2>2 DEF JoinOrder
  <2>3. CASE LeaveOrder
    BY <2>1, <2>3 DEF LeaveOrder
  <2>4. CASE OrderMoves
    <3>1. PICK status \in {"scheduled", "cancelled"} : Connects([crm EXCEPT !.order = status])
      BY <2>4 DEF OrderMoves
    <3> QED
      BY <2>1, <3>1
  <2> QED
    BY <2>2, <2>3, <2>4
<1>2. /\ UNCHANGED <<sharedPlan, shareLinks, item, holder, opinion>>
      /\ crm' = c /\ visits' = Overtaken(visits, {"crm", "fence"})
  BY <1>1 DEF Connects, Wrote
<1>3. SharedOK' /\ ClaimedItemStays'
  BY <1>1, <1>2 DEF ShareInv, SharedOK, ClaimedItemStays, Claimed
<1>4. ASSUME NEW q \in VisitRecords, Current(q), {"crm", "fence"} \cap Locks(q) = {} PROVE Current(q)'
  BY <1>2, <1>4, WhoRelies DEF Current, InForce, SameEpoch, Archived
<1> QED
  BY <1>2, <1>3, <1>4, WriteKeepsIt DEF ShareInv, VisitsOK

LEMMA PlanAndItemKeepIt ==
  ASSUME ShareInv, EditPlan \/ ArchiveSharedPlan \/ CreateItem \/ EditItem \/ CloseItem
  PROVE  ShareInv'
<1>1. UNCHANGED <<crm, shareLinks, holder>>
  BY DEF EditPlan, ArchiveSharedPlan, CreateItem, EditItem, CloseItem, SetItem
<1>2. CASE EditPlan \/ ArchiveSharedPlan
  <2>1. PICK rows : "plan" \in rows /\ visits' = Overtaken(visits, rows) /\ item' = item /\ sharedPlan' \in Nat
    BY <1>2 DEF EditPlan, ArchiveSharedPlan, Wrote, ShareInv, SharedOK
  <2>2. SharedOK' /\ ClaimedItemStays'
    BY <1>1, <2>1 DEF ShareInv, SharedOK, ClaimedItemStays, Claimed
  <2>3. ASSUME NEW q \in VisitRecords, Current(q), rows \cap Locks(q) = {} PROVE Current(q)'
    <3>1. q.op # "feedback" /\ q.op # "claim"
      BY <2>1, <2>3, WhoRelies
    <3> QED
      BY <3>1 DEF Current
  <2> QED
    BY <2>1, <2>2, <2>3, WriteKeepsIt DEF ShareInv, VisitsOK
<1>3. CASE CreateItem \/ EditItem \/ CloseItem
  <2>1. PICK rows :
          /\ visits' = Overtaken(visits, rows) /\ sharedPlan' = sharedPlan
          /\ item' \in Nat /\ (item = 0 \/ "item" \in rows) /\ (item' # 0 \/ ~Claimed)
    BY <1>3 DEF CreateItem, EditItem, CloseItem, SetItem, Wrote, ShareInv, SharedOK
  <2>2. SharedOK' /\ ClaimedItemStays'
    BY <1>1, <2>1 DEF ShareInv, SharedOK, ClaimedItemStays, Claimed
  <2>3. ASSUME NEW q \in VisitRecords, Current(q), rows \cap Locks(q) = {} PROVE Current(q)'
    <3>1. q.op # "claim"
      BY <2>1, <2>3, WhoRelies DEF Current
    <3> QED
      BY <1>1, <2>1, <2>3, <3>1 DEF Current, InForce, SameEpoch, FullEligible, Archived
  <2> QED
    BY <2>1, <2>2, <2>3, WriteKeepsIt DEF ShareInv, VisitsOK
<1> QED
  BY <1>2, <1>3

LEMMA LinkKeepsIt ==
  ASSUME ShareInv, NEW view \in Views, NEW state \in LinkStates, NEW epoch \in Nat,
         EndLink(view, state, epoch)
  PROVE  ShareInv'
<1>1. PICK rows :
        /\ view \in rows /\ visits' = Overtaken(visits, rows)
        /\ UNCHANGED <<crm, sharedPlan, item, holder, opinion>>
        /\ shareLinks' = [shareLinks EXCEPT ![view] = [state |-> state, epoch |-> epoch]]
  BY DEF EndLink, Wrote
<1>2. SharedOK' /\ ClaimedItemStays'
  BY <1>1 DEF ShareInv, SharedOK, ClaimedItemStays, Claimed
<1>3. ASSUME NEW q \in VisitRecords, Current(q), rows \cap Locks(q) = {} PROVE Current(q)'
  <2>1. q.view \in Views /\ (q.op \in {"feedback", "claim"} => q.view # view)
    BY <1>1, <1>3, WhoRelies DEF VisitRecords
  <2>2. shareLinks'[q.view] = shareLinks[q.view] \/ q.view = view
    BY <1>1, <2>1 DEF ShareInv, SharedOK
  <2>3. q.op = "feedback" => InForce(q.view)' /\ q.seen = sharedPlan'
    BY <1>1, <1>3, <2>1, <2>2 DEF Current, InForce, SameEpoch, FullEligible, Archived
  <2>4. q.op = "claim" => q.view = "full" /\ InForce("full")' /\ q.seen = item' /\ item' # 0
    BY <1>1, <1>3, <2>1, <2>2 DEF Current, InForce, SameEpoch, FullEligible, Archived
  <2> QED
    BY <2>3, <2>4 DEF Current
<1> QED
  BY <1>1, <1>2, <1>3, WriteKeepsIt DEF ShareInv, VisitsOK

LEMMA PhotographerKeepsIt ==
  ASSUME ShareInv, PhotographerRevokeAssignment \/ SetFeedbackDisposition \/ \E view \in Views : TimePasses(view)
  PROVE  ShareInv'
<1>1. CASE PhotographerRevokeAssignment
  <2>1. /\ UNCHANGED <<crm, sharedPlan, shareLinks, item>> /\ holder' = NoVisitor
        /\ visits' = Overtaken(visits, {"fence", "assignment"})
    BY <1>1 DEF PhotographerRevokeAssignment, Wrote
  <2>2. SharedOK' /\ ClaimedItemStays'
    BY <2>1 DEF ShareInv, SharedOK, ClaimedItemStays, Claimed
  <2>3. ASSUME NEW q \in VisitRecords, Current(q) PROVE Current(q)'
    BY <2>1, <2>3 DEF Current, InForce, SameEpoch, FullEligible, Archived
  <2> QED
    BY <2>1, <2>2, <2>3, WriteKeepsIt DEF ShareInv, VisitsOK
<1>2. CASE SetFeedbackDisposition
  BY <1>2 DEF SetFeedbackDisposition, ShareInv, VisitsOK, SharedOK, VisitsCurrent, Current, InForce, SameEpoch,
              FullEligible, Archived, ClaimedItemStays, Claimed
<1>3. ASSUME NEW view \in Views, TimePasses(view) PROVE ShareInv'
  <2>1. /\ UNCHANGED <<crm, sharedPlan, item, holder, visits>> /\ shareLinks[view].state = "active"
        /\ shareLinks' = [shareLinks EXCEPT ![view].state = "expired"]
    BY <1>3 DEF TimePasses, Effective
  <2>2. SharedOK'
    BY <2>1 DEF ShareInv, SharedOK, LinkStates
  <2>3. ASSUME NEW x \in Views
        PROVE  shareLinks'[x].epoch = shareLinks[x].epoch
               /\ (shareLinks[x].state \in {"active", "expired"} => shareLinks'[x].state \in {"active", "expired"})
    BY <2>1 DEF ShareInv, SharedOK
  <2>4. ASSUME NEW x \in Views, InForce(x) PROVE InForce(x)'
    BY <2>1, <2>3, <2>4 DEF InForce, SameEpoch, FullEligible, Archived, Views
  <2>5. ASSUME NEW q \in VisitRecords, Current(q) PROVE Current(q)'
    BY <2>1, <2>4, <2>5 DEF Current, VisitRecords, Views
  <2>6. VisitsCurrent'
    BY <2>1, <2>5 DEF ShareInv, VisitsCurrent, VisitsOK
  <2> QED
    BY <2>1, <2>2, <2>6 DEF ShareInv, VisitsOK, ClaimedItemStays, Claimed
<1> QED
  BY <1>1, <1>2, <1>3

LEMMA LinksKeepIt ==
  ASSUME ShareInv, NEW view \in Views, Issue(view) \/ Rotate(view) \/ Revoke(view)
  PROVE  ShareInv'
<1>1. EpochOf(view) \in Nat
  BY DEF EpochOf, ShareInv, SharedOK
<1>2. "active" \in LinkStates /\ "revoked" \in LinkStates /\ 0 \in Nat
  BY DEF LinkStates
<1> QED
  BY <1>1, <1>2, LinkKeepsIt DEF Issue, Rotate, Revoke

\* A visit that begins has read a link that is in force.
LEMMA BeginKeepsIt ==
  ASSUME ShareInv, NEW v \in Visitors, NEW q \in VisitRecords, Begin(v, q), Current(q)
  PROVE  ShareInv'
<1>1. /\ UNCHANGED <<crm, sharedPlan, shareLinks, item, holder>>
      /\ visits' = [visits EXCEPT ![v] = q]
  BY DEF Begin
<1>2. VisitsOK'
  BY <1>1 DEF ShareInv, VisitsOK
<1>3. ASSUME NEW x \in VisitRecords, Current(x) PROVE Current(x)'
  BY <1>1, <1>3 DEF Current, InForce, SameEpoch, FullEligible, Archived
<1>4. ASSUME NEW u \in Visitors, ~visits'[u].stale PROVE Current(visits[u])'
  <2>1. CASE u = v
    <3>1. visits'[u] = q
      BY <1>1, <2>1 DEF ShareInv, VisitsOK
    <3>2. Current(q)'
      BY <1>3
    <3> QED
      BY <3>1, <3>2
  <2>2. CASE u # v
    <3>1. PICK x \in VisitRecords : x = visits[u]
      BY DEF ShareInv, VisitsOK
    <3>2. visits'[u] = x
      BY <1>1, <2>2, <3>1 DEF ShareInv, VisitsOK
    <3>3. Current(x)'
      BY <1>3, <1>4, <3>1, <3>2 DEF ShareInv, VisitsCurrent
    <3> QED
      BY <3>2, <3>3
  <2> QED
    BY <2>1, <2>2
<1> QED
  BY <1>1, <1>2, <1>4 DEF ShareInv, SharedOK, VisitsCurrent, ClaimedItemStays, Claimed

LEMMA RequestsBegin ==
  ASSUME ShareInv, NEW v \in Visitors,
         Claim(v) \/ GiveUp(v) \/ \E view \in Views : ReadLink(v, view) \/ GiveFeedback(v, view)
  PROVE  ShareInv'
<1>1. sharedPlan \in Nat /\ item \in Nat
  BY DEF ShareInv, SharedOK
<1>2. CASE Claim(v)
  <2>1. Begin(v, Visit("claim", "full", item)) /\ Current(Visit("claim", "full", item))
    BY <1>2 DEF Claim, Current, Visit, InForce, Effective
  <2>2. Visit("claim", "full", item) \in VisitRecords
    BY <1>1 DEF Visit, VisitRecords, Views
  <2> QED
    BY <2>1, <2>2, BeginKeepsIt
<1>3. CASE GiveUp(v)
  <2>1. Begin(v, Visit("giveUp", "full", 0)) /\ Current(Visit("giveUp", "full", 0))
    BY <1>3 DEF GiveUp, Current, Visit
  <2>2. Visit("giveUp", "full", 0) \in VisitRecords
    BY DEF Visit, VisitRecords, Views
  <2> QED
    BY <2>1, <2>2, BeginKeepsIt
<1>4. ASSUME NEW view \in Views, ReadLink(v, view) PROVE ShareInv'
  <2>1. \A op \in {"read", "lost"} : Visit(op, view, 0) \in VisitRecords /\ Current(Visit(op, view, 0))
    BY DEF Visit, VisitRecords, Current
  <2> QED
    BY <1>4, <2>1, BeginKeepsIt DEF ReadLink
<1>5. ASSUME NEW view \in Views, GiveFeedback(v, view) PROVE ShareInv'
  <2>1. Begin(v, Visit("feedback", view, sharedPlan)) /\ Current(Visit("feedback", view, sharedPlan))
    BY <1>5 DEF GiveFeedback, Current, Visit, InForce, Effective
  <2>2. Visit("feedback", view, sharedPlan) \in VisitRecords
    BY <1>1 DEF Visit, VisitRecords
  <2> QED
    BY <2>1, <2>2, BeginKeepsIt
<1> QED
  BY <1>2, <1>3, <1>4, <1>5

\* One visitor is done, and has written rows.
LEMMA DoneKeepsIt ==
  ASSUME ShareInv, NEW v \in Visitors, NEW rows, Done(v, rows),
         \A q \in VisitRecords : Current(q) /\ rows \cap Locks(q) = {} => Current(q)',
         SharedOK', ClaimedItemStays'
  PROVE  ShareInv'
<1>1. PICK w : w = [visits EXCEPT ![v] = NoVisit]
  OBVIOUS
<1>2. NoVisit \in VisitRecords /\ NoVisit.op = "none"
  BY DEF NoVisit, Visit, VisitRecords, Views
<1>3. w \in [Visitors -> VisitRecords] /\ \A u \in Visitors : w[u] = visits[u] \/ w[u].op = "none"
  BY <1>1, <1>2 DEF ShareInv, VisitsOK
<1>4. visits' = Overtaken(w, rows)
  BY <1>1 DEF Done
<1> QED
  BY <1>3, <1>4, WriteKeepsIt

LEMMA VisitsEnd ==
  ASSUME ShareInv, NEW v \in Visitors,
         \/ GetAnonymousProjection(v) \/ LatchEligibilityInvalidated(v) \/ CreateAnonymousFeedback(v)
         \/ ClaimAnonymousAssignment(v) \/ SelfRevokeAnonymousAssignment(v) \/ RollBack(v)
  PROVE  ShareInv'
<1>1. ASSUME NEW rows, Done(v, rows), UNCHANGED <<crm, sharedPlan, shareLinks, item>>,
             holder' \in {holder, NoVisitor} \/ item # 0
      PROVE  ShareInv'
  <2>1. SharedOK' /\ ClaimedItemStays'
    BY <1>1 DEF ShareInv, SharedOK, ClaimedItemStays, Claimed
  <2>2. ASSUME NEW q \in VisitRecords, Current(q) PROVE Current(q)'
    BY <1>1, <2>2 DEF Current, InForce, SameEpoch, FullEligible, Archived
  <2> QED
    BY <1>1, <2>1, <2>2, DoneKeepsIt
<1>2. CASE GetAnonymousProjection(v)
  BY <1>1, <1>2 DEF GetAnonymousProjection
<1>3. CASE LatchEligibilityInvalidated(v)
  <2>1. CASE Done(v, {"full", "ended"}) /\ shareLinks' = [shareLinks EXCEPT !["full"] = [state |-> "eligibility_invalidated", epoch |-> 0]]
    <3>1. UNCHANGED <<crm, sharedPlan, item, holder>>
      BY <1>3 DEF LatchEligibilityInvalidated
    <3>2. SharedOK' /\ ClaimedItemStays'
      BY <2>1, <3>1 DEF ShareInv, SharedOK, LinkStates, ClaimedItemStays, Claimed
    <3>3. ASSUME NEW q \in VisitRecords, Current(q), {"full", "ended"} \cap Locks(q) = {} PROVE Current(q)'
      <4>1. q.view \in Views /\ (q.op \in {"feedback", "claim"} => q.view # "full")
        BY <3>3, WhoRelies DEF VisitRecords
      <4>2. shareLinks'[q.view] = shareLinks[q.view] \/ q.view = "full"
        BY <2>1, <4>1 DEF ShareInv, SharedOK
      <4> QED
        BY <3>1, <3>3, <4>1, <4>2 DEF Current, InForce, SameEpoch, FullEligible, Archived
    <3> QED
      BY <2>1, <3>2, <3>3, DoneKeepsIt
  <2>2. CASE Done(v, {}) /\ UNCHANGED shareLinks
    BY <1>1, <1>3, <2>2 DEF LatchEligibilityInvalidated
  <2> QED
    BY <1>3, <2>1, <2>2 DEF LatchEligibilityInvalidated
<1>4. CASE CreateAnonymousFeedback(v)
  BY <1>1, <1>4 DEF CreateAnonymousFeedback
<1>5. CASE ClaimAnonymousAssignment(v)
  <2>1. item # 0
    BY <1>5 DEF ClaimAnonymousAssignment, Commits, ShareInv, VisitsCurrent, Current
  <2> QED
    BY <1>1, <1>5, <2>1 DEF ClaimAnonymousAssignment
<1>6. CASE SelfRevokeAnonymousAssignment(v)
  BY <1>1, <1>6 DEF SelfRevokeAnonymousAssignment
<1>7. CASE RollBack(v)
  <2>1. Overtaken([visits EXCEPT ![v] = NoVisit], {}) = [visits EXCEPT ![v] = NoVisit]
    BY DEF Overtaken, ShareInv, VisitsOK
  <2> QED
    BY <1>1, <1>7, <2>1 DEF RollBack, Done
<1> QED
  BY <1>2, <1>3, <1>4, <1>5, <1>6, <1>7

LEMMA ShareKeepsIt == ShareInv /\ [ShareNext]_shareVars => ShareInv'
<1> SUFFICES ASSUME ShareInv, [ShareNext]_shareVars PROVE ShareInv'
  OBVIOUS
<1>1. CASE JoinOrder \/ LeaveOrder \/ OrderMoves
  BY <1>1, ConnectionKeepsIt
<1>2. CASE EditPlan \/ ArchiveSharedPlan \/ CreateItem \/ EditItem \/ CloseItem
  BY <1>2, PlanAndItemKeepIt
<1>3. CASE PhotographerRevokeAssignment \/ SetFeedbackDisposition \/ \E view \in Views : TimePasses(view)
  BY <1>3, PhotographerKeepsIt
<1>4. CASE \E view \in Views : Issue(view) \/ Rotate(view) \/ Revoke(view)
  BY <1>4, LinksKeepIt
<1>5. ASSUME NEW v \in Visitors,
             Claim(v) \/ GiveUp(v) \/ \E view \in Views : ReadLink(v, view) \/ GiveFeedback(v, view)
      PROVE  ShareInv'
  BY <1>5, RequestsBegin
<1>6. ASSUME NEW v \in Visitors,
             \/ GetAnonymousProjection(v) \/ LatchEligibilityInvalidated(v) \/ CreateAnonymousFeedback(v)
             \/ ClaimAnonymousAssignment(v) \/ SelfRevokeAnonymousAssignment(v) \/ RollBack(v)
      PROVE  ShareInv'
  BY <1>6, VisitsEnd
<1>7. CASE UNCHANGED shareVars
  BY <1>7 DEF shareVars, ShareInv, VisitsOK, SharedOK, VisitsCurrent, Current, InForce, SameEpoch, FullEligible,
              Archived, ClaimedItemStays, Claimed
<1> QED
  BY <1>1, <1>2, <1>3, <1>4, <1>5, <1>6, <1>7 DEF ShareNext

\* For any number of visitors: no offer is closed and no item removed under a claim, though
\* the claim was decided on an older snapshot.
THEOREM ClaimsKeepTheirItem == ShareSpec => []ClaimedItemStays
<1>1. ShareInv => ClaimedItemStays
  BY DEF ShareInv
<1> QED
  BY <1>1, ShareStarts, ShareKeepsIt, PTL DEF ShareSpec

\* A visit of which an answer is stored was not overtaken.
LEMMA OnlyTheOwn ==
  ASSUME ShareInv, NEW v \in Visitors, NEW u \in Visitors, NEW rows, Done(u, rows),
         visits'[v] = NoVisit, visits[v].op # "none"
  PROVE  v = u
<1>1. PICK w : w = [visits EXCEPT ![u] = NoVisit]
  OBVIOUS
<1>2. NoVisit \in VisitRecords /\ NoVisit.op = "none"
  BY DEF NoVisit, Visit, VisitRecords, Views
<1>3. w \in [Visitors -> VisitRecords] /\ visits' = Overtaken(w, rows)
  BY <1>1, <1>2 DEF Done, ShareInv, VisitsOK
<1>4. visits'[v].op = w[v].op
  BY <1>3, OvertakenKeepsOp
<1> QED
  BY <1>1, <1>2, <1>4 DEF ShareInv, VisitsOK

LEMMA WhatIsStoredIsCurrent ==
  ASSUME ShareInv, NEW v \in Visitors, ShareNext
  PROVE  /\ Stores(v, "feedback") /\ opinion' # opinion =>
              InForce(visits[v].view) /\ visits[v].seen = sharedPlan
         /\ Stores(v, "claim") /\ holder' # holder =>
              InForce(visits[v].view) /\ visits[v].seen = item
<1>1. ASSUME Stores(v, "feedback"), opinion' # opinion
      PROVE  InForce(visits[v].view) /\ visits[v].seen = sharedPlan
  <2>1. visits'[v] # visits[v] /\ visits[v].op = "feedback" /\ visits'[v] = NoVisit
    BY <1>1 DEF Stores, NoVisit, Visit
  <2>2. PICK u \in Visitors : CreateAnonymousFeedback(u)
    BY <1>1, <2>1 DEF ShareNext, JoinOrder, LeaveOrder, OrderMoves, Connects, EditPlan, ArchiveSharedPlan,
       CreateItem, EditItem, CloseItem, SetItem, PhotographerRevokeAssignment, SetFeedbackDisposition,
       Issue, Rotate, Revoke, EndLink, TimePasses, ReadLink, GiveFeedback, Claim, GiveUp, Begin,
       GetAnonymousProjection, LatchEligibilityInvalidated, ClaimAnonymousAssignment,
       SelfRevokeAnonymousAssignment, RollBack
  <2>3. v = u
    BY <2>1, <2>2, OnlyTheOwn DEF CreateAnonymousFeedback
  <2> QED
    BY <2>1, <2>2, <2>3 DEF CreateAnonymousFeedback, Commits, ShareInv, VisitsCurrent, Current
<1>2. ASSUME Stores(v, "claim"), holder' # holder
      PROVE  InForce(visits[v].view) /\ visits[v].seen = item
  <2>1. visits[v].op = "claim" /\ visits'[v] = NoVisit
    BY <1>2 DEF Stores
  <2>2. \/ PhotographerRevokeAssignment
        \/ \E u \in Visitors : ClaimAnonymousAssignment(u) \/ SelfRevokeAnonymousAssignment(u)
    BY <1>2 DEF ShareNext, JoinOrder, LeaveOrder, OrderMoves, Connects, EditPlan, ArchiveSharedPlan,
       CreateItem, EditItem, CloseItem, SetItem, SetFeedbackDisposition,
       Issue, Rotate, Revoke, EndLink, TimePasses, ReadLink, GiveFeedback, Claim, GiveUp, Begin,
       GetAnonymousProjection, LatchEligibilityInvalidated, CreateAnonymousFeedback, RollBack
  <2>3. CASE PhotographerRevokeAssignment
    <3>1. visits'[v].op = visits[v].op
      BY <2>3, OvertakenKeepsOp DEF PhotographerRevokeAssignment, Wrote, ShareInv, VisitsOK
    <3> QED
      BY <2>1, <3>1 DEF NoVisit, Visit
  <2>4. ASSUME NEW u \in Visitors, ClaimAnonymousAssignment(u)
        PROVE  InForce(visits[v].view) /\ visits[v].seen = item
    <3>1. v = u
      BY <2>1, <2>4, OnlyTheOwn DEF ClaimAnonymousAssignment
    <3> QED
      BY <2>4, <3>1 DEF ClaimAnonymousAssignment, Commits, ShareInv, VisitsCurrent, Current
  <2>5. ASSUME NEW u \in Visitors, SelfRevokeAnonymousAssignment(u) PROVE FALSE
    <3>1. v = u
      BY <2>1, <2>5, OnlyTheOwn DEF SelfRevokeAnonymousAssignment
    <3> QED
      BY <2>1, <2>5, <3>1 DEF SelfRevokeAnonymousAssignment, Commits
  <2> QED
    BY <2>2, <2>3, <2>4, <2>5
<1> QED
  BY <1>1, <1>2

\* For any number of visitors, links and changes: what a visitor writes is stored only under a
\* link in force and against the revision the visitor has seen.
THEOREM StoredAnswersAreCurrent == ShareSpec => AnonymousWritesAreCurrent
<1> DEFINE Step ==
      \A v \in Visitors :
       LET q == visits[v]
       IN  /\ Stores(v, "feedback") /\ opinion' # opinion => InForce(q.view) /\ q.seen = sharedPlan
           /\ Stores(v, "claim") /\ holder' # holder      => InForce(q.view) /\ q.seen = item
<1>1. ShareInv /\ [ShareNext]_shareVars => [Step]_shareVars
  BY WhatIsStoredIsCurrent
<1>2. [][Step]_shareVars => AnonymousWritesAreCurrent
  BY PTL DEF AnonymousWritesAreCurrent
<1> QED
  BY <1>1, <1>2, ShareStarts, ShareKeepsIt, PTL DEF ShareSpec

-----------------------------------------------------------------------------
(***************************************************************************)
(* The ledger.  Whoever runs the callback has the row, and read its clock  *)
(* when what the row says had expired; no committed run outlives the row.  *)
(***************************************************************************)
RunRecords == [req: Requests, frame: Frames \cup {"none"}, now: Nat]
Memories   == [pc: ReqStates, frame: Frames \cup {"none"}, now: Nat, met: Nat, answer: Nat]

LedgerTypes ==
  /\ ledgerRow.expires \in Nat /\ ledgerRow.answer \in Nat /\ ledgerClock \in Nat
  /\ ledgerReq \in [Requests -> Memories]
  /\ ledgerRuns \in Seq(RunRecords)

RunnersOwn ==
  \A r \in Requests : ledgerReq[r].pc = "running" =>
    ledgerOwner = r /\ ledgerRow.expires <= ledgerReq[r].now

RunsExpire ==
  \A i \in 1..Len(ledgerRuns) : ledgerRuns[i].now + TTL <= ledgerRow.expires

LedgerInv == LedgerTypes /\ RunnersOwn /\ RunsExpire /\ LedgerRunsOncePerLifetime

LEMMA LedgerStarts == LedgerInit => LedgerInv
BY LedgerAssumption
   DEF LedgerInit, LedgerInv, LedgerTypes, RunnersOwn, RunsExpire, LedgerRunsOncePerLifetime, Fresh, ReqStates, NoRow, Memories, RunRecords

\* A request goes on, and takes the row only if nobody has it and what it says has expired.
LEMMA RequestGoesOn ==
  ASSUME LedgerInv, NEW r \in Requests, NEW q, ledgerReq' = [ledgerReq EXCEPT ![r] = q],
         q \in Memories,
         UNCHANGED <<ledgerRow, ledgerRuns, ledgerClock>>,
         \/ q.pc = "running" /\ ledgerOwner = NoOwner /\ ledgerOwner' = r /\ ledgerRow.expires <= q.now
         \/ q.pc # "running" /\ ledgerOwner' = ledgerOwner /\ ledgerReq[r].pc # "running"
         \/ q.pc # "running" /\ ledgerOwner' = NoOwner /\ ledgerReq[r].pc = "running"
  PROVE  LedgerInv'
<1>1. LedgerTypes'
  BY DEF LedgerInv, LedgerTypes
<1>2. ASSUME NEW s \in Requests, ledgerReq'[s].pc = "running"
      PROVE  ledgerOwner' = s /\ ledgerRow'.expires <= ledgerReq'[s].now
  <2>1. CASE s = r
    BY <1>2, <2>1 DEF LedgerInv, LedgerTypes, Memories
  <2>2. CASE s # r
    <3>1. ledgerReq'[s] = ledgerReq[s] /\ ledgerOwner = s
      BY <1>2, <2>2 DEF LedgerInv, LedgerTypes, Memories, RunnersOwn
    <3>2. ledgerOwner' = ledgerOwner
      BY <2>2, <3>1, OwnerAssumption DEF LedgerInv, RunnersOwn
    <3> QED
      BY <1>2, <3>1, <3>2 DEF LedgerInv, RunnersOwn
  <2> QED
    BY <2>1, <2>2
<1>3. RunsExpire' /\ LedgerRunsOncePerLifetime'
  BY DEF LedgerInv, RunsExpire, LedgerRunsOncePerLifetime
<1> QED
  BY <1>1, <1>2, <1>3 DEF LedgerInv, RunnersOwn

LEMMA CommitKeepsIt ==
  ASSUME LedgerInv, NEW r \in Requests, NEW told \in BOOLEAN, LedgerCommit(r, told)
  PROVE  LedgerInv'
<1> DEFINE run == [req |-> r, frame |-> ledgerReq[r].frame, now |-> ledgerReq[r].now]
           n   == Len(ledgerRuns)
<1>1. /\ ledgerReq[r].pc = "running" /\ ledgerOwner' = NoOwner /\ ledgerClock' = ledgerClock
      /\ ledgerRuns' = Append(ledgerRuns, run)
      /\ ledgerRow' = [frame |-> run.frame, answer |-> n + 1, expires |-> run.now + TTL]
      /\ ledgerReq' = [ledgerReq EXCEPT ![r].pc = IF told THEN "answered" ELSE "failed", ![r].answer = n + 1]
  BY DEF LedgerCommit
<1>2. ledgerReq[r].now \in Nat /\ n \in Nat /\ TTL \in Nat /\ ledgerReq[r].frame \in Frames \cup {"none"}
  BY LedgerAssumption DEF LedgerInv, LedgerTypes, Memories
<1>3. PICK u : u = run
  OBVIOUS
<1>4. u \in RunRecords /\ u.now = ledgerReq[r].now /\ u.now \in Nat
  BY <1>2, <1>3 DEF RunRecords
<1>5. /\ ledgerRuns \in Seq(RunRecords) /\ ledgerRuns' = Append(ledgerRuns, u)
      /\ ledgerRow'.expires = u.now + TTL /\ ledgerRow'.answer = n + 1
  BY <1>1, <1>3 DEF LedgerInv, LedgerTypes
<1> HIDE DEF run
<1>6. \A i \in 1..n : ledgerRuns[i] \in RunRecords
  BY <1>5
<1>7. /\ ledgerRuns' \in Seq(RunRecords)
      /\ Len(ledgerRuns') = n + 1 /\ ledgerRuns'[n + 1] = u
      /\ \A i \in 1..n : ledgerRuns'[i] = ledgerRuns[i] /\ ledgerRuns[i].now \in Nat
  <2>1. /\ ledgerRuns' \in Seq(RunRecords)
        /\ Len(ledgerRuns') = n + 1 /\ ledgerRuns'[n + 1] = u
        /\ \A i \in 1..n : ledgerRuns'[i] = ledgerRuns[i]
    BY <1>4, <1>5
  <2>2. \A i \in 1..n : ledgerRuns[i].now \in Nat
    BY <1>6 DEF RunRecords
  <2> QED
    BY <2>1, <2>2
<1> HIDE DEF n
<1>8. LedgerTypes'
  <2>1. PICK pc \in ReqStates : pc = IF told THEN "answered" ELSE "failed"
    BY DEF ReqStates
  <2>2. ledgerReq' = [ledgerReq EXCEPT ![r].pc = pc, ![r].answer = n + 1]
    BY <1>1, <2>1
  <2>3. ledgerReq' \in [Requests -> Memories]
    <3>1. ledgerReq \in [Requests -> Memories] /\ ledgerReq[r] \in Memories /\ n + 1 \in Nat
      BY <1>2 DEF LedgerInv, LedgerTypes
    <3>2. PICK q : q = [ledgerReq[r] EXCEPT !.pc = pc, !.answer = n + 1]
      OBVIOUS
    <3>3. q \in Memories
      BY <3>1, <3>2 DEF Memories
    <3>4. ledgerReq' = [ledgerReq EXCEPT ![r] = q]
      BY <2>2, <3>1, <3>2
    <3> QED
      BY <3>1, <3>3, <3>4
  <2>4. ledgerRow'.expires \in Nat /\ ledgerRow'.answer \in Nat
    BY <1>2, <1>4, <1>5
  <2>5. ledgerClock' \in Nat
    BY <1>1 DEF LedgerInv, LedgerTypes
  <2> QED
    BY <1>7, <2>3, <2>4, <2>5 DEF LedgerTypes
<1>9. \A i \in 1..n : ledgerRuns[i].now + TTL <= u.now
  <2>1. ledgerRow.expires <= u.now /\ ledgerRow.expires \in Nat
    BY <1>1, <1>4 DEF LedgerInv, RunnersOwn, LedgerTypes
  <2>2. \A i \in 1..n : ledgerRuns[i].now + TTL <= ledgerRow.expires
    BY DEF LedgerInv, RunsExpire, n
  <2> QED
    BY <1>2, <1>4, <1>7, <2>1, <2>2
<1>10. RunsExpire'
  <2>1. ASSUME NEW i \in 1..(n + 1) PROVE ledgerRuns'[i].now + TTL <= u.now + TTL
    <3>1. CASE i \in 1..n
      <4>1. ledgerRuns'[i].now \in Nat /\ ledgerRuns'[i].now + TTL <= u.now
        BY <1>7, <1>9, <3>1
      <4> QED
        BY <1>2, <1>4, <4>1
    <3>2. CASE i = n + 1
      BY <1>2, <1>4, <1>7, <3>2
    <3> QED
      BY <1>2, <3>1, <3>2
  <2> QED
    BY <1>5, <1>7, <2>1 DEF RunsExpire
<1>11. LedgerRunsOncePerLifetime'
  <2>1. ASSUME NEW i \in 1..(n + 1), NEW j \in 1..(n + 1), i < j
        PROVE  ledgerRuns'[i].now + TTL <= ledgerRuns'[j].now
    <3>1. CASE j \in 1..n
      <4>1. i \in 1..n /\ i < j
        BY <1>2, <2>1, <3>1
      <4>2. ledgerRuns[i].now + TTL <= ledgerRuns[j].now
        BY <3>1, <4>1 DEF LedgerInv, LedgerRunsOncePerLifetime, n
      <4> QED
        BY <1>7, <3>1, <4>1, <4>2
    <3>2. CASE j = n + 1
      <4>1. i \in 1..n
        BY <1>2, <2>1, <3>2
      <4> QED
        BY <1>7, <1>9, <3>2, <4>1
    <3> QED
      BY <1>2, <3>1, <3>2
  <2> QED
    BY <1>7, <2>1 DEF LedgerRunsOncePerLifetime
<1>12. RunnersOwn'
  <2>1. ASSUME NEW s \in Requests, ledgerReq'[s].pc = "running" PROVE FALSE
    <3>1. CASE s = r
      BY <1>1, <2>1, <3>1 DEF LedgerInv, LedgerTypes
    <3>2. CASE s # r
      BY <1>1, <2>1, <3>2 DEF LedgerInv, LedgerTypes, RunnersOwn
    <3> QED
      BY <3>1, <3>2
  <2> QED
    BY <2>1 DEF RunnersOwn
<1> QED
  BY <1>8, <1>10, <1>11, <1>12 DEF LedgerInv

LEMMA LedgerStepKeepsIt ==
  ASSUME LedgerInv, NEW r \in Requests, LedgerStep(r)
  PROVE  LedgerInv'
<1>1. ledgerReq[r] \in Memories /\ ledgerRow.expires \in Nat /\ ledgerRow.answer \in Nat /\ ledgerClock \in Nat
  BY DEF LedgerInv, LedgerTypes
<1>2. \A pc \in ReqStates, k \in Nat :
        /\ [ledgerReq[r] EXCEPT !.pc = pc] \in Memories
        /\ [ledgerReq[r] EXCEPT !.pc = pc, !.met = k] \in Memories
        /\ [ledgerReq[r] EXCEPT !.pc = pc, !.answer = k] \in Memories
        /\ [ledgerReq[r] EXCEPT !.pc = pc].pc = pc
        /\ [ledgerReq[r] EXCEPT !.pc = pc].now = ledgerReq[r].now
        /\ [ledgerReq[r] EXCEPT !.pc = pc, !.met = k].pc = pc
        /\ [ledgerReq[r] EXCEPT !.pc = pc, !.answer = k].pc = pc
  BY <1>1 DEF Memories
<1>3. {"running", "loading", "claiming", "conflict", "answered", "failed"} \subseteq ReqStates
  BY DEF ReqStates
<1>4. ASSUME NEW f \in Frames \cup {"none"}, ledgerReq[r].pc # "running",
             ledgerReq' = [ledgerReq EXCEPT ![r] = [Fresh EXCEPT !.pc = "claiming", !.frame = f, !.now = ledgerClock]],
             UNCHANGED <<ledgerRow, ledgerOwner, ledgerRuns, ledgerClock>>
      PROVE  LedgerInv'
  <2>1. PICK q : q = [Fresh EXCEPT !.pc = "claiming", !.frame = f, !.now = ledgerClock]
    OBVIOUS
  <2>2. q \in Memories /\ q.pc # "running"
    BY <1>1, <1>3, <2>1 DEF Fresh, Memories
  <2> QED
    BY <1>4, <2>1, <2>2, RequestGoesOn
<1>5. CASE \E f \in Frames : LedgerArrive(r, f)
  BY <1>4, <1>5 DEF LedgerArrive
<1>6. CASE LedgerRetry(r)
  <2>1. ledgerReq[r].frame \in Frames \cup {"none"}
    BY <1>1 DEF Memories
  <2> QED
    BY <1>4, <1>6, <2>1 DEF LedgerRetry
<1>7. CASE LedgerClaim(r)
  <2>1. ledgerReq[r].pc = "claiming" /\ ledgerOwner = NoOwner /\ UNCHANGED <<ledgerRow, ledgerRuns, ledgerClock>>
    BY <1>7 DEF LedgerClaim
  <2>2. CASE ledgerRow = NoRow
    <3>1. PICK q : q = [ledgerReq[r] EXCEPT !.pc = "running"]
      OBVIOUS
    <3>2. ledgerReq' = [ledgerReq EXCEPT ![r] = q] /\ ledgerOwner' = r
      BY <1>1, <1>7, <2>2, <3>1 DEF LedgerClaim
    <3>3. q \in Memories /\ q.pc = "running" /\ q.now \in Nat
      BY <1>1, <1>2, <1>3, <3>1 DEF Memories
    <3>4. ledgerRow.expires <= q.now
      BY <2>2, <3>3 DEF NoRow
    <3> QED
      BY <2>1, <3>2, <3>3, <3>4, RequestGoesOn
  <2>3. CASE ledgerRow # NoRow
    <3>1. PICK q : q = [ledgerReq[r] EXCEPT !.pc = "loading", !.met = ledgerRow.answer]
      OBVIOUS
    <3>2. ledgerReq' = [ledgerReq EXCEPT ![r] = q] /\ ledgerOwner' = ledgerOwner
      BY <1>1, <1>7, <2>3, <3>1 DEF LedgerClaim, LedgerInv, LedgerTypes
    <3>3. q \in Memories /\ q.pc # "running"
      BY <1>1, <1>2, <1>3, <3>1 DEF Memories
    <3> QED
      BY <2>1, <3>2, <3>3, RequestGoesOn
  <2> QED
    BY <2>2, <2>3
<1>8. CASE LedgerLoad(r)
  <2>1. ledgerReq[r].pc = "loading" /\ ledgerOwner = NoOwner /\ UNCHANGED <<ledgerRow, ledgerRuns, ledgerClock>>
    BY <1>8 DEF LedgerLoad
  <2>2. CASE Expired(ledgerRow, ledgerReq[r].now)
    <3>1. PICK q : q = [ledgerReq[r] EXCEPT !.pc = "running"]
      OBVIOUS
    <3>2. ledgerReq' = [ledgerReq EXCEPT ![r] = q] /\ ledgerOwner' = r
      BY <1>1, <1>8, <2>2, <3>1 DEF LedgerLoad
    <3>3. q \in Memories /\ q.pc = "running" /\ ledgerRow.expires <= q.now
      BY <1>1, <1>2, <1>3, <2>2, <3>1 DEF Expired, Memories
    <3> QED
      BY <2>1, <3>2, <3>3, RequestGoesOn
  <2>3. CASE ~Expired(ledgerRow, ledgerReq[r].now)
    <3>1. PICK q : q = IF ledgerRow.frame # ledgerReq[r].frame THEN [ledgerReq[r] EXCEPT !.pc = "conflict"]
                       ELSE [ledgerReq[r] EXCEPT !.pc = "answered", !.answer = ledgerRow.answer]
      OBVIOUS
    <3>2. ledgerReq' = [ledgerReq EXCEPT ![r] = q] /\ ledgerOwner' = ledgerOwner
      BY <1>1, <1>8, <2>3, <3>1 DEF LedgerLoad, LedgerInv, LedgerTypes
    <3>3. q \in Memories /\ q.pc # "running"
      BY <1>1, <1>2, <1>3, <3>1 DEF Memories
    <3> QED
      BY <2>1, <3>2, <3>3, RequestGoesOn
  <2> QED
    BY <2>2, <2>3
<1>9. CASE LedgerLoadMissed(r)
  <2>1. PICK q : q = [ledgerReq[r] EXCEPT !.pc = "claiming"]
    OBVIOUS
  <2>2. /\ ledgerReq' = [ledgerReq EXCEPT ![r] = q] /\ ledgerReq[r].pc = "loading"
        /\ UNCHANGED <<ledgerRow, ledgerOwner, ledgerRuns, ledgerClock>>
    BY <1>9, <2>1 DEF LedgerLoadMissed
  <2>3. q \in Memories /\ q.pc # "running"
    BY <1>1, <1>2, <1>3, <2>1
  <2> QED
    BY <2>2, <2>3, RequestGoesOn
<1>10. CASE LedgerRollback(r)
  <2>1. PICK q : q = [ledgerReq[r] EXCEPT !.pc = "failed"]
    OBVIOUS
  <2>2. /\ ledgerReq' = [ledgerReq EXCEPT ![r] = q] /\ ledgerReq[r].pc = "running" /\ ledgerOwner' = NoOwner
        /\ UNCHANGED <<ledgerRow, ledgerRuns, ledgerClock>>
    BY <1>10, <2>1 DEF LedgerRollback
  <2>3. q \in Memories /\ q.pc # "running"
    BY <1>1, <1>2, <1>3, <2>1
  <2> QED
    BY <2>2, <2>3, RequestGoesOn
<1> QED
  BY <1>5, <1>6, <1>7, <1>8, <1>9, <1>10, CommitKeepsIt DEF LedgerStep

LEMMA LedgerKeepsIt == LedgerInv /\ [LedgerNext]_ledgerVars => LedgerInv'
<1> SUFFICES ASSUME LedgerInv, [LedgerNext]_ledgerVars PROVE LedgerInv'
  OBVIOUS
<1>1. CASE LedgerTick
  BY <1>1 DEF LedgerTick, LedgerInv, LedgerTypes, RunnersOwn, RunsExpire, LedgerRunsOncePerLifetime
<1>2. CASE UNCHANGED ledgerVars
  BY <1>2 DEF ledgerVars, LedgerInv, LedgerTypes, RunnersOwn, RunsExpire, LedgerRunsOncePerLifetime
<1> QED
  BY <1>1, <1>2, LedgerStepKeepsIt DEF LedgerNext

\* For any number of requests, frames and lengths of a lifetime: two committed runs of a keyed
\* command took their clock readings at least a lifetime apart.
THEOREM KeyedCommandsRunOnce == LedgerSpec => []LedgerRunsOncePerLifetime
<1>1. LedgerInv => LedgerRunsOncePerLifetime
  BY DEF LedgerInv
<1> QED
  BY <1>1, LedgerStarts, LedgerKeepsIt, PTL DEF LedgerSpec

-----------------------------------------------------------------------------
(***************************************************************************)
(* Business drafts.  Whatever was read when a draft was computed, applying *)
(* it compares all of it with the locked rows once more.                   *)
(***************************************************************************)
Sources == [facts : 1..2, rules : 1..2, conn : Nat, proj : Nat, price : 0..MaxPrice,
            end : {0} \cup ShootEnds]
Businesses == [facts : 1..2, rules : 1..2, conn : Nat, proj : Nat, price : 0..MaxPrice,
               end : {0} \cup ShootEnds, stage : {"scheduled", "shot", "cancelled"},
               changes : 0..MaxChanges]
DraftRecords == [status : {"none", "fresh", "expired", "applied", "dismissed"}, source : Sources]

BusinessInv == /\ business \in Businesses
               /\ drafts \in [Kinds -> DraftRecords]
               /\ computing \in [kinds : SUBSET Kinds, source : Sources]
               /\ applying \in [kind : Kinds \cup {"none"}, source : Sources, rules : 1..2]

\* What an application has compared is still so, but for the rules.
StillCompared ==
  OrderLocked => /\ Linked
                 /\ applying.source.facts = business.facts /\ applying.source.rules = applying.rules
                 /\ IF applying.kind = "order" THEN applying.source.price = business.price
                    ELSE applying.source.end = business.end

LEMMA SourceTyped == business \in Businesses => Source(business) \in Sources
BY DEF Businesses, Source, Sources

LEMMA BlankTyped == Blank \in Sources
BY BusinessAssumption DEF Blank, Sources, ShootEnds

LEMMA DraftTyped ==
  ASSUME NEW s \in {"none", "fresh", "expired", "applied", "dismissed"}
  PROVE  Draft(s) \in DraftRecords /\ Draft(s).status = s
BY BlankTyped DEF Draft, DraftRecords

\* The price a draft proposes is a price.
LEMMA PricesWrap == \A s \in Sources : EvaluateOrder(s) \in 0..MaxPrice
<1> SUFFICES ASSUME NEW s \in Sources PROVE EvaluateOrder(s) \in 0..MaxPrice
  OBVIOUS
<1>1. s.facts \in 1..2 /\ s.rules \in 1..2 /\ s.price \in 0..MaxPrice
  BY DEF Sources
<1>2. s.facts * s.rules \in Nat
  BY <1>1
<1> DEFINE sum == s.price + s.facts * s.rules
<1>3. sum \in Nat
  BY <1>1, <1>2
<1> HIDE DEF sum
<1>4. sum % (MaxPrice + 1) \in 0..MaxPrice
  BY <1>3, BusinessAssumption
<1> QED
  BY <1>4 DEF EvaluateOrder, sum

LEMMA BusinessStarts == BusinessInit => BusinessInv
<1> SUFFICES ASSUME BusinessInit PROVE BusinessInv
  OBVIOUS
<1>1. business \in Businesses
  BY BusinessAssumption DEF BusinessInit, Businesses, ShootEnds
<1>2. drafts \in [Kinds -> DraftRecords]
  BY DraftTyped DEF BusinessInit
<1>3. /\ computing \in [kinds : SUBSET Kinds, source : Sources]
      /\ applying \in [kind : Kinds \cup {"none"}, source : Sources, rules : 1..2]
  BY BlankTyped DEF BusinessInit, NotComputing, NotApplying
<1> QED
  BY <1>1, <1>2, <1>3 DEF BusinessInv

\* A change counts itself.
LEMMA ChangeTyped ==
  ASSUME BusinessInv, NEW w \in Businesses, w.changes = business.changes, Change(w)
  PROVE  BusinessInv'
<1>1. business' = [w EXCEPT !.changes = @ + 1] /\ UNCHANGED <<drafts, computing, applying>>
  BY DEF Change
<1>2. w.changes + 1 \in 0..MaxChanges
  BY BusinessAssumption DEF Change, BusinessInv, Businesses
<1>3. [w EXCEPT !.changes = @ + 1] \in Businesses
  BY <1>2 DEF Businesses
<1> QED
  BY <1>1, <1>3 DEF BusinessInv

LEMMA BusinessStep == BusinessInv /\ [BusinessNext]_businessVars => BusinessInv'
<1> SUFFICES ASSUME BusinessInv, [BusinessNext]_businessVars PROVE BusinessInv'
  OBVIOUS
<1>0. business \in Businesses /\ drafts \in [Kinds -> DraftRecords]
  BY DEF BusinessInv
<1>00. ASSUME NEW c \in Nat, NEW p \in Nat, NEW e \in {0} \cup ShootEnds
       PROVE  [business EXCEPT !.conn = c, !.proj = p, !.end = e] \in Businesses
  BY <1>0 DEF Businesses
<1>000. business.proj + 1 \in Nat /\ business.conn + 1 \in Nat /\ business.end \in {0} \cup ShootEnds
        /\ business.conn \in Nat
  BY <1>0 DEF Businesses
<1>1. CASE UNCHANGED businessVars
  BY <1>1 DEF businessVars, BusinessInv
<1>2. CASE SetFacts
  <2>1. PICK f \in {1, 2} : Change([business EXCEPT !.facts = f])
    BY <1>2 DEF SetFacts
  <2>2. [business EXCEPT !.facts = f] \in Businesses
    BY <1>0 DEF Businesses
  <2>3. [business EXCEPT !.facts = f].changes = business.changes
    BY <1>0 DEF Businesses
  <2> QED
    BY <2>1, <2>2, <2>3, ChangeTyped
<1>3. CASE PatchRules
  <2>1. [business EXCEPT !.rules = 3 - @] \in Businesses
    BY <1>0 DEF Businesses
  <2>2. [business EXCEPT !.rules = 3 - @].changes = business.changes
    BY <1>0 DEF Businesses
  <2> QED
    BY <1>3, <2>1, <2>2, ChangeTyped DEF PatchRules
<1>4. CASE EditPrice
  <2>1. PICK p \in 0..MaxPrice : Change([business EXCEPT !.price = p])
    BY <1>4 DEF EditPrice
  <2>2. [business EXCEPT !.price = p] \in Businesses
    BY <1>0 DEF Businesses
  <2>3. [business EXCEPT !.price = p].changes = business.changes
    BY <1>0 DEF Businesses
  <2> QED
    BY <2>1, <2>2, <2>3, ChangeTyped
<1>5. CASE MoveSlot
  <2>1. PICK e \in ShootEnds : Change([business EXCEPT !.end = e, !.proj = @ + 1])
    BY <1>5 DEF MoveSlot
  <2>2. [business EXCEPT !.end = e, !.proj = @ + 1] \in Businesses
    <3>1. [business EXCEPT !.end = e, !.proj = @ + 1]
            = [business EXCEPT !.conn = business.conn, !.proj = business.proj + 1, !.end = e]
      BY <1>0 DEF Businesses
    <3> QED
      BY <1>00, <1>000, <3>1
  <2>3. [business EXCEPT !.end = e, !.proj = @ + 1].changes = business.changes
    BY <1>0 DEF Businesses
  <2> QED
    BY <2>1, <2>2, <2>3, ChangeTyped
<1>6. CASE Relink
  <2>1. [business EXCEPT !.conn = @ + 1, !.proj = @ + 1] \in Businesses
    <3>1. [business EXCEPT !.conn = @ + 1, !.proj = @ + 1]
            = [business EXCEPT !.conn = business.conn + 1, !.proj = business.proj + 1, !.end = business.end]
      BY <1>0 DEF Businesses
    <3> QED
      BY <1>00, <1>000, <3>1
  <2>2. [business EXCEPT !.conn = @ + 1, !.proj = @ + 1].changes = business.changes
    BY <1>0 DEF Businesses
  <2> QED
    BY <1>6, <2>1, <2>2, ChangeTyped DEF Relink
<1>7. CASE StageMoves
  <2>1. PICK s \in {"shot", "cancelled"} : Change([business EXCEPT !.stage = s])
    BY <1>7 DEF StageMoves
  <2>2. [business EXCEPT !.stage = s] \in Businesses
    BY <1>0 DEF Businesses
  <2>3. [business EXCEPT !.stage = s].changes = business.changes
    BY <1>0 DEF Businesses
  <2> QED
    BY <2>1, <2>2, <2>3, ChangeTyped
<1>8. ASSUME NEW kinds \in SUBSET Kinds, BeginGenerate(kinds) PROVE BusinessInv'
  <2>1. Source(business) \in Sources
    BY <1>0, SourceTyped
  <2> QED
    BY <1>8, <2>1 DEF BeginGenerate, BusinessInv
<1>9. CASE Generate
  <2> DEFINE source == [computing.source EXCEPT !.rules = business.rules]
  <2>1. source \in Sources
    BY DEF BusinessInv, Businesses, Sources
  <2>2. [status |-> "fresh", source |-> source] \in DraftRecords
    BY <2>1 DEF DraftRecords
  <2> HIDE DEF source
  <2>3. drafts' \in [Kinds -> DraftRecords]
    BY <1>0, <1>9, <2>2 DEF Generate, source
  <2>4. NotComputing \in [kinds : SUBSET Kinds, source : Sources]
    BY BlankTyped DEF NotComputing
  <2> QED
    BY <1>9, <2>3, <2>4 DEF Generate, BusinessInv
<1>9a. NotApplying \in [kind : Kinds \cup {"none"}, source : Sources, rules : 1..2]
  BY BlankTyped DEF NotApplying
<1>9b. NotComputing \in [kinds : SUBSET Kinds, source : Sources]
  BY BlankTyped DEF NotComputing
<1>10. CASE ApplyOrder
  <2> DEFINE s == applying.source
  <2>1. s \in Sources
    BY DEF BusinessInv
  <2>2. EvaluateOrder(s) \in 0..MaxPrice
    BY <2>1, PricesWrap
  <2>3. business' \in Businesses
    BY <1>0, <1>10, <2>2 DEF ApplyOrder, Businesses
  <2>4. drafts' \in [Kinds -> DraftRecords]
    BY <1>0, <1>10, DraftTyped DEF ApplyOrder
  <2> QED
    BY <1>9a, <1>10, <2>3, <2>4 DEF ApplyOrder, BusinessInv
<1>11. CASE ApplySchedule
  <2> DEFINE s == applying.source
  <2>1. s \in Sources
    BY DEF BusinessInv
  <2>2. EvaluateDuration(s) \in ShootEnds
    BY <2>1 DEF EvaluateDuration, Sources, ShootEnds
  <2>3. business' \in Businesses
    <3>1. business' = [business EXCEPT !.conn = business.conn, !.proj = business.proj + 1,
                                       !.end = EvaluateDuration(s)]
      BY <1>0, <1>11 DEF ApplySchedule, Businesses
    <3> QED
      BY <1>00, <1>000, <2>2, <3>1
  <2>4. drafts' \in [Kinds -> DraftRecords]
    BY <1>0, <1>11, DraftTyped DEF ApplySchedule
  <2> QED
    BY <1>9a, <1>11, <2>3, <2>4 DEF ApplySchedule, BusinessInv
<1>12. ASSUME NEW k \in Kinds, Expire(k) PROVE BusinessInv'
  BY <1>0, <1>12, DraftTyped DEF Expire, BusinessInv
<1>13. ASSUME NEW k \in Kinds, Dismiss(k) PROVE BusinessInv'
  BY <1>0, <1>13, DraftTyped DEF Dismiss, BusinessInv
<1>14. ASSUME NEW k \in Kinds, BeginApply(k) PROVE BusinessInv'
  <2>1. drafts[k].source \in Sources /\ business.rules \in 1..2
    BY <1>0 DEF DraftRecords, Businesses
  <2>2. applying' \in [kind : Kinds \cup {"none"}, source : Sources, rules : 1..2]
    BY <1>14, <2>1 DEF BeginApply
  <2> QED
    BY <1>14, <2>2 DEF BeginApply, BusinessInv
<1>15. CASE AbortBusiness
  BY <1>9a, <1>9b, <1>15 DEF AbortBusiness, BusinessInv
<1> QED
  BY <1>1, <1>2, <1>3, <1>4, <1>5, <1>6, <1>7, <1>8, <1>9, <1>10, <1>11, <1>12, <1>13, <1>14, <1>15
  DEF BusinessNext

\* The locks of an application keep what it has compared.
LEMMA ComparedStep ==
  BusinessInv /\ StillCompared /\ [BusinessNext]_businessVars => StillCompared'
<1> SUFFICES ASSUME BusinessInv, StillCompared, [BusinessNext]_businessVars PROVE StillCompared'
  OBVIOUS
<1>0. business \in Businesses
  BY DEF BusinessInv
<1>1. ASSUME ~OrderLocked, UNCHANGED applying PROVE StillCompared'
  BY <1>1 DEF StillCompared, OrderLocked
<1>2. ASSUME UNCHANGED <<business, applying>> PROVE StillCompared'
  BY <1>2 DEF StillCompared, OrderLocked, Linked
<1>3. ASSUME applying' = NotApplying PROVE StillCompared'
  BY <1>3 DEF StillCompared, OrderLocked, NotApplying
<1>4. CASE PatchRules
  <2>1. business' = [[business EXCEPT !.rules = 3 - @] EXCEPT !.changes = @ + 1] /\ UNCHANGED applying
    BY <1>4 DEF PatchRules, Change
  <2>2. /\ business'.facts = business.facts /\ business'.price = business.price
        /\ business'.end = business.end /\ business'.conn = business.conn
    BY <1>0, <2>1 DEF Businesses
  <2> QED
    BY <2>1, <2>2 DEF StillCompared, OrderLocked, Linked
<1>5. CASE SetFacts \/ EditPrice \/ MoveSlot \/ Relink \/ StageMoves
  <2>1. \A w : Change(w) => UNCHANGED applying
    BY DEF Change
  <2>2. ~OrderLocked
    BY <1>5, Zenon DEF SetFacts, EditPrice, MoveSlot, Relink, StageMoves, PlanLocked
  <2>3. \E w : Change(w)
    BY <1>5, Zenon DEF SetFacts, EditPrice, MoveSlot, Relink, StageMoves
  <2> QED
    BY <1>1, <2>1, <2>2, <2>3
<1>6. ASSUME NEW k \in Kinds, BeginApply(k) PROVE StillCompared'
  BY <1>6 DEF BeginApply, StillFresh, Available, StillCompared, OrderLocked, Linked, Kinds
<1>7. CASE ApplyOrder \/ ApplySchedule \/ AbortBusiness
  BY <1>3, <1>7 DEF ApplyOrder, ApplySchedule, AbortBusiness
<1>8. ASSUME NEW kinds, BeginGenerate(kinds) PROVE StillCompared'
  BY <1>2, <1>8 DEF BeginGenerate
<1>9. CASE Generate \/ \E k \in Kinds : Expire(k) \/ Dismiss(k)
  BY <1>2, <1>9 DEF Generate, Expire, Dismiss
<1>10. CASE UNCHANGED businessVars
  BY <1>2, <1>10 DEF businessVars
<1> QED
  BY <1>4, <1>5, <1>6, <1>7, <1>8, <1>9, <1>10 DEF BusinessNext

\* Only applying makes a draft applied.
LEMMA WhoApplies ==
  ASSUME BusinessInv, [BusinessNext]_businessVars, NEW k \in Kinds,
         drafts[k].status # "applied", drafts'[k].status = "applied"
  PROVE  (k = "order" /\ ApplyOrder) \/ (k = "schedule" /\ ApplySchedule)
<1>0. drafts \in [Kinds -> DraftRecords]
  BY DEF BusinessInv
<1>1. drafts' # drafts
  OBVIOUS
<1>2. ~Generate
  <2> SUFFICES ASSUME Generate PROVE FALSE
    OBVIOUS
  <2>1. \E source : drafts'[k] \in {drafts[k], [status |-> "fresh", source |-> source]}
    BY DEF Generate
  <2> QED
    BY <2>1
<1>3. \A e \in Kinds : ~Expire(e) /\ ~Dismiss(e)
  BY <1>0, DraftTyped DEF Expire, Dismiss
<1>4. ApplyOrder \/ ApplySchedule
  BY <1>1, <1>2, <1>3 DEF BusinessNext, businessVars, SetFacts, PatchRules, EditPrice, MoveSlot, Relink,
     StageMoves, Change, BeginGenerate, BeginApply, AbortBusiness
<1> QED
  BY <1>0, <1>4 DEF ApplyOrder, ApplySchedule, Kinds

LEMMA AppliedStep ==
  ASSUME BusinessInv, StillCompared, [BusinessNext]_businessVars
  PROVE  /\ drafts["order"].status # "applied" /\ drafts'["order"].status = "applied"
              => Linked /\ business'.price = EvaluateOrder(AsApplied)
         /\ drafts["schedule"].status # "applied" /\ drafts'["schedule"].status = "applied"
              => Linked /\ business'.end = EvaluateDuration(AsApplied)
<1>0. business \in Businesses
  BY DEF BusinessInv
<1>1. ASSUME ApplyOrder PROVE Linked /\ business'.price = EvaluateOrder(AsApplied)
  BY <1>0, <1>1 DEF ApplyOrder, StillCompared, OrderLocked, AsApplied, EvaluateOrder, Source, Businesses
<1>2. ASSUME ApplySchedule PROVE Linked /\ business'.end = EvaluateDuration(AsApplied)
  BY <1>0, <1>2 DEF ApplySchedule, StillCompared, OrderLocked, AsApplied, EvaluateDuration, Source, Businesses
<1>3. "order" \in Kinds /\ "schedule" \in Kinds
  BY DEF Kinds
<1> QED
  BY <1>1, <1>2, <1>3, WhoApplies

\* Whatever changed between the reads of a draft and its application, and whatever else commits
\* while it is applied, the price or the end it sets is what the rows of the commit give under
\* the rules that the application has read, for every range of prices.
THEOREM DraftsApplyAsOfToday == BusinessSpec => AppliedAsOfToday
<1>1. BusinessInit => StillCompared
  BY DEF BusinessInit, StillCompared, OrderLocked, NotApplying
<1>2. BusinessInv /\ StillCompared /\ [BusinessNext]_businessVars =>
        [/\ drafts["order"].status # "applied" /\ drafts'["order"].status = "applied"
              => Linked /\ business'.price = EvaluateOrder(AsApplied)
         /\ drafts["schedule"].status # "applied" /\ drafts'["schedule"].status = "applied"
              => Linked /\ business'.end = EvaluateDuration(AsApplied)]_businessVars
  BY AppliedStep
<1> QED
  BY <1>1, <1>2, BusinessStarts, BusinessStep, ComparedStep, PTL DEF BusinessSpec, AppliedAsOfToday

-----------------------------------------------------------------------------
(***************************************************************************)
(* Sessions.  The generations of a family form a chain: each spent one     *)
(* names its successor, and one is not spent.                              *)
(***************************************************************************)
FamilyRecords == [absolute : Nat, revoked : Revoked]
GenRecords == [family : 1..MaxFamilies, idle : Nat, used : BOOLEAN, next : 0..MaxGenerations,
               replay : Nat, sealed : BOOLEAN]
CallRecords == [op : Ops, now : Nat, password : Nat, gen : 0..MaxGenerations]
AccountRecords == [status : Statuses, identity : {"none", "open", "verified"}, password : Nat]

SessionTypes == families \in Seq(FamilyRecords) /\ gens \in Seq(GenRecords)
               /\ Len(families) <= MaxFamilies /\ Len(gens) <= MaxGenerations
LinkTypes == /\ account \in AccountRecords
             /\ links \subseteq [id : 1..MaxLinks, purpose : Purposes, expires : Nat, used : BOOLEAN]
             /\ linkSeq \in 0..MaxLinks
CallTypes == /\ cookie \in [Clients -> 0..MaxGenerations] /\ call \in [Clients -> CallRecords]
             /\ acctClock \in 0..MaxAcctClock

\* A spent generation has a successor, and belongs to a family.
ChainsGrow ==
  \A g \in DOMAIN gens : /\ gens[g].family \in DOMAIN families
                         /\ gens[g].next \in 0..Len(gens)
                         /\ gens[g].used <=> gens[g].next # 0

Live(f) == {g \in DOMAIN gens : gens[g].family = f /\ ~gens[g].used}

LiveOnes == \A f \in DOMAIN families : \E g \in DOMAIN gens : Live(f) = {g}

\* What the sweeper forgot could not be replayed any more.
SweptAreOver ==
  \A g \in DOMAIN gens : gens[g].used /\ ~gens[g].sealed => gens[g].replay < acctClock

\* Browsers and calls hold generations that exist, and calls are of the past.
HeldExist ==
  \A c \in Clients : /\ cookie[c] \in 0..Len(gens)
                     /\ call[c].gen \in 0..Len(gens)
                     /\ call[c].op = "refresh" => call[c].gen # 0
                     /\ call[c].now <= acctClock

SessionsInv == SessionTypes /\ ChainsGrow /\ LiveOnes /\ SweptAreOver
AccountsInv == LinkTypes /\ CallTypes /\ SessionsInv /\ HeldExist

LEMMA AccountNumbers ==
  /\ ActionTTL \in Nat /\ ResetTTL \in Nat /\ IdleTTL \in Nat /\ AbsoluteTTL \in Nat
  /\ ReplayWindow \in Nat /\ MaxAcctClock \in Nat /\ MaxLinks \in Nat /\ MaxFamilies \in Nat
  /\ MaxGenerations \in Nat /\ MaxPasswords \in Nat
BY AccountsAssumption

LEMMA SessionsStay ==
  ASSUME SessionsInv, UNCHANGED <<families, gens, acctClock>>
  PROVE  SessionsInv'
BY DEF SessionsInv, SessionTypes, ChainsGrow, LiveOnes, Live, SweptAreOver

\* Revoking families touches no generation.
LEMMA RevokingKeeps ==
  ASSUME SessionsInv, UNCHANGED <<gens, acctClock>>, families' \in Seq(FamilyRecords),
         Len(families') = Len(families)
  PROVE  SessionsInv'
<1>1. DOMAIN families' = DOMAIN families
  BY DEF SessionsInv, SessionTypes
<1> QED
  BY <1>1 DEF SessionsInv, SessionTypes, ChainsGrow, LiveOnes, Live, SweptAreOver

LEMMA RevokeTypes ==
  ASSUME SessionTypes, NEW f \in DOMAIN families, NEW why \in Revoked, revokeFamily(f, why)
  PROVE  /\ families' \in Seq(FamilyRecords) /\ Len(families') = Len(families)
         /\ families'[f].revoked = why
         /\ \A e \in DOMAIN families : e # f => families'[e] = families[e]
<1>1. families[f] \in FamilyRecords
  BY DEF SessionTypes
<1>2. [families[f] EXCEPT !.revoked = why] \in FamilyRecords
  BY <1>1 DEF FamilyRecords
<1>3. families' = [families EXCEPT ![f] = [families[f] EXCEPT !.revoked = why]]
  BY DEF revokeFamily
<1>4. families' \in Seq(FamilyRecords) /\ Len(families') = Len(families)
  BY <1>2, <1>3 DEF SessionTypes
<1>5. families'[f] = [families[f] EXCEPT !.revoked = why]
  BY <1>3 DEF SessionTypes
<1> QED
  BY <1>1, <1>3, <1>4, <1>5 DEF SessionTypes, FamilyRecords

\* A login starts a family with a generation of its own.
LEMMA NewSession ==
  ASSUME SessionsInv, NEW now \in Nat, insertRefreshSession(now), UNCHANGED acctClock
  PROVE  SessionsInv' /\ Len(gens') = Len(gens) + 1
<1> DEFINE F == [absolute |-> now + AbsoluteTTL, revoked |-> "no"]
           G == [family |-> Len(families) + 1, idle |-> now + IdleTTL, used |-> FALSE,
                 next |-> 0, replay |-> 0, sealed |-> FALSE]
<1>1. families' = Append(families, F) /\ gens' = Append(gens, G)
  BY DEF insertRefreshSession
<1>2. Len(families) \in Nat /\ Len(gens) \in Nat /\ Len(families) < MaxFamilies /\ Len(gens) < MaxGenerations
  BY DEF insertRefreshSession, SessionsInv, SessionTypes
<1>3. F \in FamilyRecords
  BY AccountNumbers DEF FamilyRecords, Revoked
<1>4. G \in GenRecords
  BY <1>2, AccountNumbers DEF GenRecords
<1>5. /\ families' \in Seq(FamilyRecords) /\ Len(families') = Len(families) + 1
      /\ gens' \in Seq(GenRecords) /\ Len(gens') = Len(gens) + 1
  BY <1>1, <1>3, <1>4 DEF SessionsInv, SessionTypes
<1>6. /\ gens'[Len(gens) + 1] = G
      /\ \A g \in DOMAIN gens : gens'[g] = gens[g]
      /\ DOMAIN gens' = DOMAIN gens \cup {Len(gens) + 1} /\ Len(gens) + 1 \notin DOMAIN gens
      /\ DOMAIN families' = DOMAIN families \cup {Len(families) + 1}
      /\ Len(families) + 1 \notin DOMAIN families
  <2> HIDE DEF F, G
  <2> QED
    BY <1>1, <1>2, <1>3, <1>4, <1>5 DEF SessionsInv, SessionTypes
<1>7. SessionTypes'
  BY <1>2, <1>5, AccountNumbers DEF SessionTypes
<1>8. ChainsGrow'
  BY <1>2, <1>5, <1>6 DEF SessionsInv, ChainsGrow
<1>9. LiveOnes'
  <2>1. ASSUME NEW f \in DOMAIN families PROVE \E g \in DOMAIN gens' : Live(f)' = {g}
    <3>1. Live(f)' = Live(f)
      BY <1>6, <2>1 DEF Live
    <3> QED
      BY <2>1, <3>1, <1>6 DEF SessionsInv, LiveOnes
  <2>2. ASSUME NEW f, f = Len(families) + 1 PROVE Live(f)' = {Len(gens) + 1}
    BY <1>6, <2>2 DEF Live, SessionsInv, ChainsGrow
  <2>3. ASSUME NEW f \in DOMAIN families' PROVE \E g \in DOMAIN gens' : Live(f)' = {g}
    BY <1>6, <2>1, <2>2
  <2> QED
    BY <2>3 DEF LiveOnes
<1>10. SweptAreOver'
  BY <1>6 DEF SessionsInv, SweptAreOver
<1> QED
  BY <1>5, <1>7, <1>8, <1>9, <1>10 DEF SessionsInv

\* A refresh spends a live generation for a new one, replays, or revokes.
LEMMA Rotation ==
  ASSUME SessionsInv, NEW g \in DOMAIN gens, NEW now \in Nat, NEW reply \in 0..MaxGenerations,
         RotateRefresh(g, now, reply), UNCHANGED acctClock, acctClock \in Nat
  PROVE  SessionsInv' /\ Len(gens') >= Len(gens) /\ reply \in 0..Len(gens')
<1> DEFINE f == gens[g].family
<1>0. f \in DOMAIN families /\ gens[g] \in GenRecords /\ Len(gens) \in Nat /\ f \in 1..MaxFamilies
  <2>1. gens[g] \in GenRecords /\ Len(gens) \in Nat
    BY DEF SessionsInv, SessionTypes
  <2> QED
    BY <2>1 DEF SessionsInv, ChainsGrow, GenRecords
<1>1. ASSUME UNCHANGED gens, UNCHANGED families \/ \E why \in Revoked : revokeFamily(f, why)
      PROVE  SessionsInv' /\ Len(gens') >= Len(gens)
  <2>1. families' \in Seq(FamilyRecords) /\ Len(families') = Len(families)
    BY <1>0, <1>1, RevokeTypes DEF SessionsInv, SessionTypes
  <2> QED
    BY <1>0, <1>1, <2>1, RevokingKeeps
<1>2. CASE SessionExpired(g, now)
  <2>1. reply = 0 /\ UNCHANGED gens /\ (UNCHANGED families \/ revokeFamily(f, "expired"))
    BY <1>2 DEF RotateRefresh
  <2> QED
    BY <1>0, <1>1, <2>1 DEF Revoked
<1>3. CASE ~SessionExpired(g, now) /\ gens[g].used /\ Replayable(g, now)
  <2>1. reply = gens[g].next /\ UNCHANGED <<families, gens>>
    BY <1>3 DEF RotateRefresh
  <2> QED
    BY <1>0, <1>1, <2>1 DEF SessionsInv, ChainsGrow
<1>4. CASE ~SessionExpired(g, now) /\ gens[g].used /\ ~Replayable(g, now)
  <2>1. reply = 0 /\ UNCHANGED gens /\ revokeFamily(f, "reused")
    BY <1>4 DEF RotateRefresh
  <2> QED
    BY <1>0, <1>1, <2>1 DEF Revoked
<1>5. CASE ~SessionExpired(g, now) /\ ~gens[g].used
  <2> DEFINE Until == Least(now + ReplayWindow, families[f].absolute)
             Spent == [gens[g] EXCEPT !.used = TRUE, !.next = reply, !.sealed = TRUE, !.replay = Until]
             Next == [family |-> f, idle |-> Least(now + IdleTTL, families[f].absolute),
                      used |-> FALSE, next |-> 0, replay |-> 0, sealed |-> FALSE]
             Rest == [gens EXCEPT ![g] = Spent]
  <2>1. /\ Len(gens) < MaxGenerations /\ reply = Len(gens) + 1 /\ UNCHANGED families
        /\ gens' = Append(Rest, Next)
    BY <1>5 DEF RotateRefresh
  <2>2. families[f] \in FamilyRecords
    BY <1>0 DEF SessionsInv, SessionTypes
  <2>3. Until \in Nat /\ Least(now + IdleTTL, families[f].absolute) \in Nat
    BY <2>2, AccountNumbers DEF Least, FamilyRecords
  <2>4. Next \in GenRecords /\ Next.family = f /\ ~Next.used /\ Next.next = 0
    BY <1>0, <2>3, AccountNumbers DEF GenRecords
  <2>5. Spent \in GenRecords /\ Spent.family = f /\ Spent.used /\ Spent.next = Len(gens) + 1 /\ Spent.sealed
    <3> HIDE DEF Until
    <3> QED
      BY <1>0, <2>1, <2>3 DEF GenRecords
  <2> HIDE DEF Next, Spent, Until
  <2>6. Rest \in Seq(GenRecords) /\ Len(Rest) = Len(gens)
    BY <2>5 DEF SessionsInv, SessionTypes
  <2>7. gens' \in Seq(GenRecords) /\ Len(gens') = Len(gens) + 1
    BY <2>1, <2>4, <2>6
  <2>8. /\ gens'[Len(gens) + 1] = Next
        /\ \A h \in DOMAIN gens : gens'[h] = IF h = g THEN Spent ELSE gens[h]
        /\ DOMAIN gens' = DOMAIN gens \cup {Len(gens) + 1} /\ Len(gens) + 1 \notin DOMAIN gens
    BY <1>0, <2>1, <2>4, <2>6, <2>7 DEF SessionsInv, SessionTypes
  <2>9. SessionTypes'
    BY <1>0, <2>1, <2>7, AccountNumbers DEF SessionsInv, SessionTypes
  <2>10. ChainsGrow'
    BY <1>0, <2>1, <2>4, <2>5, <2>7, <2>8 DEF SessionsInv, ChainsGrow
  <2>11. LiveOnes'
    <3>1. ASSUME NEW e \in DOMAIN families, e = f PROVE Live(e)' = {Len(gens) + 1}
      <4>1. Live(e) = {g}
        BY <1>0, <1>5, <3>1 DEF SessionsInv, LiveOnes, Live
      <4>2. \A h \in DOMAIN gens : ~(gens'[h].family = e /\ ~gens'[h].used)
        BY <2>5, <2>8, <4>1 DEF Live
      <4> QED
        BY <2>4, <2>8, <3>1, <4>2 DEF Live
    <3>2. ASSUME NEW e \in DOMAIN families, e # f PROVE Live(e)' = Live(e)
      BY <2>4, <2>5, <2>8, <3>2 DEF Live
    <3>3. ASSUME NEW e \in DOMAIN families PROVE \E h \in DOMAIN gens' : Live(e)' = {h}
      <4>1. CASE e = f
        BY <2>8, <3>1, <4>1
      <4>2. CASE e # f
        BY <2>8, <3>2, <4>2 DEF SessionsInv, LiveOnes
      <4> QED
        BY <4>1, <4>2
    <3> QED
      BY <2>1, <3>3 DEF LiveOnes
  <2>12. SweptAreOver'
    BY <2>4, <2>5, <2>8 DEF SessionsInv, SweptAreOver
  <2> QED
    BY <1>0, <2>1, <2>7, <2>9, <2>10, <2>11, <2>12 DEF SessionsInv
<1> QED
  BY <1>2, <1>3, <1>4, <1>5

\* Registering, mailing links and consuming them keep the account's rows.
LEMMA LinkIssued ==
  ASSUME LinkTypes, CallTypes, NEW purpose \in Purposes, NEW kept \in SUBSET links, NEW ttl \in Nat,
         insertActionToken(purpose, kept, ttl), account' \in AccountRecords
  PROVE  LinkTypes'
<1>1. linkSeq + 1 \in 1..MaxLinks /\ acctClock + ttl \in Nat
  BY AccountNumbers DEF LinkTypes, CallTypes, insertActionToken
<1> DEFINE L == [id |-> linkSeq + 1, purpose |-> purpose, expires |-> acctClock + ttl, used |-> FALSE]
<1>2. L \in [id : 1..MaxLinks, purpose : Purposes, expires : Nat, used : BOOLEAN]
  BY <1>1
<1>3. links' = kept \cup {L} /\ linkSeq' = linkSeq + 1
  BY DEF insertActionToken
<1> HIDE DEF L
<1>4. linkSeq' \in 0..MaxLinks
  BY <1>1, <1>3, AccountNumbers DEF LinkTypes
<1> QED
  BY <1>2, <1>3, <1>4 DEF LinkTypes

LEMMA CallAnswered ==
  ASSUME CallTypes, NEW c \in Clients, NEW g \in 0..MaxGenerations, Answer(c, g),
         UNCHANGED <<cookie, acctClock>>
  PROVE  /\ CallTypes' /\ call'[c].gen = g /\ call'[c].op # "refresh" /\ call'[c].now = 0
         /\ \A d \in Clients : d # c => call'[d] = call[d]
<1> DEFINE R == [Idle EXCEPT !.op = IF g = 0 THEN "cleared" ELSE "session", !.gen = g]
<1>1. R \in CallRecords /\ R.gen = g /\ R.op # "refresh" /\ R.now = 0
  BY DEF Idle, CallRecords, Ops
<1>2. call' = [call EXCEPT ![c] = R]
  BY DEF Answer
<1> HIDE DEF R
<1> QED
  BY <1>1, <1>2 DEF CallTypes

LEMMA HeldStays ==
  ASSUME CallTypes, CallTypes', HeldExist, SessionTypes, SessionTypes', NEW c \in Clients,
         Len(gens') >= Len(gens), acctClock' = acctClock,
         \A d \in Clients : cookie'[d] = cookie[d] /\ (d # c => call'[d] = call[d]),
         call'[c].gen \in 0..Len(gens'), call'[c].op = "refresh" => call'[c].gen # 0,
         call'[c].now <= acctClock
  PROVE  HeldExist'
<1>1. Len(gens) \in Nat /\ Len(gens') \in Nat
  BY DEF SessionTypes
<1> QED
  BY <1>1 DEF HeldExist

LEMMA AccountsStart == AccountsInit => AccountsInv
<1> SUFFICES ASSUME AccountsInit PROVE AccountsInv
  OBVIOUS
<1>1. families = <<>> /\ gens = <<>> /\ Len(families) = 0 /\ Len(gens) = 0
  BY DEF AccountsInit
<1>2. LinkTypes
  BY AccountNumbers DEF AccountsInit, LinkTypes, AccountRecords, Statuses
<1>3. Idle \in CallRecords
  BY AccountNumbers DEF Idle, CallRecords, Ops
<1>4. CallTypes
  BY <1>3, AccountNumbers DEF AccountsInit, CallTypes
<1>5. SessionsInv
  BY <1>1, AccountNumbers DEF SessionsInv, SessionTypes, ChainsGrow, LiveOnes, SweptAreOver
<1>6. HeldExist
  BY <1>1 DEF HeldExist, AccountsInit, Idle
<1> QED
  BY <1>2, <1>4, <1>5, <1>6 DEF AccountsInv

\* What a step of the sweeper does to a generation.
LEMMA Sweeping ==
  ASSUME AccountsInv, SweepExpiredReplayCiphertexts
  PROVE  SessionsInv' /\ Len(gens') = Len(gens)
<1> DEFINE Swept(g) == IF gens[g].sealed /\ gens[g].replay < acctClock
                         THEN [gens[g] EXCEPT !.sealed = FALSE] ELSE gens[g]
<1>1. gens' = [g \in DOMAIN gens |-> Swept(g)] /\ UNCHANGED <<families, acctClock>>
  BY DEF SweepExpiredReplayCiphertexts
<1>2. gens \in Seq(GenRecords) /\ DOMAIN gens = 1..Len(gens) /\ Len(gens) \in Nat
  BY DEF AccountsInv, SessionsInv, SessionTypes
<1>3. ASSUME NEW g \in DOMAIN gens
      PROVE  /\ Swept(g) \in GenRecords /\ Swept(g).family = gens[g].family
             /\ Swept(g).used = gens[g].used /\ Swept(g).next = gens[g].next
             /\ Swept(g).replay = gens[g].replay
             /\ ~Swept(g).sealed => ~gens[g].sealed \/ gens[g].replay < acctClock
  <2>1. gens[g] \in GenRecords
    BY <1>2
  <2> QED
    BY <2>1 DEF GenRecords
<1> HIDE DEF Swept
<1>4. gens' \in Seq(GenRecords) /\ Len(gens') = Len(gens) /\ DOMAIN gens' = DOMAIN gens
  BY <1>1, <1>2, <1>3
<1>5. \A g \in DOMAIN gens : gens'[g] = Swept(g)
  BY <1>1
<1>6. SessionTypes'
  BY <1>1, <1>4 DEF AccountsInv, SessionsInv, SessionTypes
<1>7. ChainsGrow'
  BY <1>1, <1>3, <1>4, <1>5 DEF AccountsInv, SessionsInv, ChainsGrow
<1>8. LiveOnes'
  <2>1. ASSUME NEW f \in DOMAIN families PROVE Live(f)' = Live(f)
    BY <1>3, <1>4, <1>5 DEF Live
  <2> QED
    BY <1>1, <1>4, <2>1 DEF AccountsInv, SessionsInv, LiveOnes
<1>9. SweptAreOver'
  BY <1>1, <1>3, <1>4, <1>5 DEF AccountsInv, SessionsInv, SweptAreOver
<1> QED
  BY <1>4, <1>6, <1>7, <1>8, <1>9 DEF SessionsInv

LEMMA PasswordApplied ==
  ASSUME AccountsInv, applyPasswordChange, UNCHANGED <<gens, acctClock, linkSeq>>
  PROVE  SessionsInv' /\ LinkTypes' /\ \A f \in DOMAIN families : families'[f].revoked # "reused"
                                                          \/ families[f].revoked = "reused"
<1> DEFINE Ended(f) == IF families[f].revoked = "no" THEN [families[f] EXCEPT !.revoked = "password"]
                                                     ELSE families[f]
<1>1. families' = [f \in DOMAIN families |-> Ended(f)]
  BY DEF applyPasswordChange
<1>2. \A f \in DOMAIN families : families[f] \in FamilyRecords
  BY DEF AccountsInv, SessionsInv, SessionTypes
<1>3. \A f \in DOMAIN families : Ended(f) \in FamilyRecords
                                 /\ (Ended(f).revoked # "reused" \/ families[f].revoked = "reused")
  BY <1>2 DEF FamilyRecords, Revoked
<1> HIDE DEF Ended
<1>4. families' \in Seq(FamilyRecords) /\ Len(families') = Len(families)
  BY <1>1, <1>3 DEF AccountsInv, SessionsInv, SessionTypes
<1>5. SessionsInv'
  BY <1>4, RevokingKeeps DEF AccountsInv
<1>6. LinkTypes'
  BY DEF AccountsInv, LinkTypes, applyPasswordChange, Without, AccountRecords
<1> QED
  BY <1>1, <1>3, <1>5, <1>6

LEMMA LinkConsumed ==
  ASSUME LinkTypes, NEW l \in links, ConsumeActionAndActivate(l), UNCHANGED linkSeq
  PROVE  LinkTypes'
<1>1. [l EXCEPT !.used = TRUE] \in [id : 1..MaxLinks, purpose : Purposes, expires : Nat, used : BOOLEAN]
  BY DEF LinkTypes
<1> QED
  BY <1>1 DEF LinkTypes, ConsumeActionAndActivate, AccountRecords, Statuses

LEMMA CallIdles ==
  ASSUME CallTypes, NEW c \in Clients, NEW r \in CallRecords, call' = [call EXCEPT ![c] = r],
         acctClock' = acctClock, cookie' \in [Clients -> 0..MaxGenerations]
  PROVE  CallTypes' /\ call'[c] = r /\ \A d \in Clients : d # c => call'[d] = call[d]
BY DEF CallTypes

\* What the actions of one browser leave to prove.
LEMMA ClientKeeps ==
  ASSUME AccountsInv, NEW c \in Clients, ClientStep(c)
  PROVE  AccountsInv'
<1> USE AccountNumbers
<1>0. /\ \A d \in Clients : call[d] \in CallRecords /\ cookie[d] \in 0..MaxGenerations
      /\ Len(gens) \in Nat /\ acctClock \in Nat /\ Len(gens) <= MaxGenerations
      /\ DOMAIN gens = 1..Len(gens)
  BY DEF AccountsInv, CallTypes, SessionsInv, SessionTypes
<1>00. Idle \in CallRecords
  BY DEF Idle, CallRecords, Ops
<1>1. ASSUME CallTypes', LinkTypes', SessionsInv', Len(gens') >= Len(gens), acctClock' = acctClock,
             \A d \in Clients : cookie'[d] = cookie[d] /\ (d # c => call'[d] = call[d]),
             call'[c].gen \in 0..Len(gens'), call'[c].op = "refresh" => call'[c].gen # 0,
             call'[c].now <= acctClock
      PROVE  AccountsInv'
  BY <1>1, HeldStays DEF AccountsInv, SessionsInv
<1>2. CASE VerifyEmail(c)
  <2>1. PICK l \in links : ConsumeActionAndActivate(l)
    BY <1>2 DEF VerifyEmail
  <2>2. UNCHANGED <<linkSeq, cookie, acctClock>> /\ Answer(c, Len(gens) + 1)
    BY <1>2 DEF VerifyEmail
  <2>3. SessionsInv' /\ Len(gens') = Len(gens) + 1 /\ Len(gens) < MaxGenerations
    BY <1>0, <2>1, <2>2, NewSession DEF ConsumeActionAndActivate, AccountsInv, insertRefreshSession
  <2>4. LinkTypes'
    BY <2>1, <2>2, LinkConsumed DEF AccountsInv
  <2>5. /\ CallTypes' /\ call'[c].gen = Len(gens) + 1 /\ call'[c].op # "refresh" /\ call'[c].now = 0
        /\ \A d \in Clients : d # c => call'[d] = call[d]
    BY <1>0, <2>2, <2>3, CallAnswered DEF AccountsInv
  <2> QED
    BY <1>0, <1>1, <2>2, <2>3, <2>4, <2>5
<1>3. CASE ResetPassword(c)
  <2>1. SessionsInv' /\ LinkTypes'
    BY <1>3, PasswordApplied DEF ResetPassword
  <2>2. /\ CallTypes' /\ call'[c].gen = 0 /\ call'[c].op # "refresh" /\ call'[c].now = 0
        /\ \A d \in Clients : d # c => call'[d] = call[d]
    BY <1>3, CallAnswered DEF ResetPassword, AccountsInv
  <2> QED
    BY <1>0, <1>1, <1>3, <2>1, <2>2 DEF ResetPassword
<1>4. CASE LoginRead(c)
  <2> DEFINE R == [Idle EXCEPT !.op = "login", !.now = acctClock]
  <2>1. R \in CallRecords /\ R.gen = 0 /\ R.op # "refresh" /\ R.now = acctClock
    <3>1. R \in CallRecords
      BY <1>0, <1>00 DEF CallRecords, Ops
    <3>2. R.op = "login" /\ R.gen = 0 /\ R.now = acctClock
      BY DEF Idle
    <3> QED
      BY <3>1, <3>2
  <2>2. call' = [call EXCEPT ![c] = R] /\ UNCHANGED <<account, links, linkSeq, families, gens, cookie, acctClock>>
    BY <1>4 DEF LoginRead
  <2> HIDE DEF R
  <2>3. CallTypes' /\ call'[c] = R /\ \A d \in Clients : d # c => call'[d] = call[d]
    BY <2>1, <2>2, CallIdles DEF AccountsInv, CallTypes
  <2>4. LinkTypes' /\ SessionsInv'
    BY <2>2, SessionsStay DEF AccountsInv, LinkTypes
  <2> QED
    BY <1>0, <1>1, <2>1, <2>2, <2>3, <2>4
<1>5. CASE CreateRefreshSession(c)
  <2>1. insertRefreshSession(call[c].now) /\ Answer(c, Len(gens) + 1)
        /\ UNCHANGED <<account, links, linkSeq, cookie, acctClock>> /\ call[c].now \in Nat
    BY <1>0, <1>5 DEF CreateRefreshSession, CallRecords
  <2>2. SessionsInv' /\ Len(gens') = Len(gens) + 1 /\ Len(gens) < MaxGenerations
    BY <1>0, <2>1, NewSession DEF AccountsInv, insertRefreshSession
  <2>3. LinkTypes'
    BY <2>1 DEF AccountsInv, LinkTypes
  <2>4. /\ CallTypes' /\ call'[c].gen = Len(gens) + 1 /\ call'[c].op # "refresh" /\ call'[c].now = 0
        /\ \A d \in Clients : d # c => call'[d] = call[d]
    BY <1>0, <2>1, <2>2, CallAnswered DEF AccountsInv
  <2> QED
    BY <1>0, <1>1, <2>1, <2>2, <2>3, <2>4
<1>6. CASE ChangePasswordRead(c)
  <2> DEFINE R == [Idle EXCEPT !.op = "change", !.password = account.password]
  <2>1. R \in CallRecords /\ R.gen = 0 /\ R.op # "refresh" /\ R.now = 0
    <3>1. account.password \in Nat
      BY DEF AccountsInv, LinkTypes, AccountRecords
    <3>2. R \in CallRecords
      BY <1>00, <3>1 DEF CallRecords, Ops
    <3>3. R.op = "change" /\ R.gen = 0 /\ R.now = 0
      BY DEF Idle
    <3> QED
      BY <3>2, <3>3
  <2>2. call' = [call EXCEPT ![c] = R] /\ UNCHANGED <<account, links, linkSeq, families, gens, cookie, acctClock>>
    BY <1>6 DEF ChangePasswordRead
  <2> HIDE DEF R
  <2>3. CallTypes' /\ call'[c] = R /\ \A d \in Clients : d # c => call'[d] = call[d]
    BY <2>1, <2>2, CallIdles DEF AccountsInv, CallTypes
  <2>4. LinkTypes' /\ SessionsInv'
    BY <2>2, SessionsStay DEF AccountsInv, LinkTypes
  <2> QED
    BY <1>0, <1>1, <2>1, <2>2, <2>3, <2>4
<1>7. CASE ChangePassword(c)
  <2>1. CASE account.password = call[c].password
    <3>1. SessionsInv' /\ LinkTypes'
      BY <1>7, <2>1, PasswordApplied DEF ChangePassword
    <3>2. /\ CallTypes' /\ call'[c].gen = 0 /\ call'[c].op # "refresh" /\ call'[c].now = 0
          /\ \A d \in Clients : d # c => call'[d] = call[d]
      BY <1>7, <2>1, CallAnswered DEF ChangePassword, AccountsInv
    <3> QED
      BY <1>0, <1>1, <1>7, <3>1, <3>2 DEF ChangePassword
  <2>2. CASE account.password # call[c].password
    <3>1. call' = [call EXCEPT ![c] = Idle] /\ UNCHANGED <<account, links, linkSeq, families, gens, cookie, acctClock>>
      BY <1>7, <2>2 DEF ChangePassword
    <3>2. CallTypes' /\ call'[c] = Idle /\ \A d \in Clients : d # c => call'[d] = call[d]
      BY <1>00, <3>1, CallIdles DEF AccountsInv, CallTypes
    <3>3. LinkTypes' /\ SessionsInv'
      BY <3>1, SessionsStay DEF AccountsInv, LinkTypes
    <3> QED
      BY <1>0, <1>1, <3>1, <3>2, <3>3 DEF Idle
  <2> QED
    BY <2>1, <2>2
<1>8. CASE RefreshRead(c)
  <2> DEFINE R == [Idle EXCEPT !.op = "refresh", !.now = acctClock, !.gen = cookie[c]]
  <2>1. R \in CallRecords /\ R.gen = cookie[c] /\ R.now = acctClock
    BY <1>0 DEF Idle, CallRecords, Ops
  <2>2. call' = [call EXCEPT ![c] = R] /\ cookie[c] # 0 /\ UNCHANGED <<account, links, linkSeq, families, gens, cookie, acctClock>>
    BY <1>8 DEF RefreshRead
  <2> HIDE DEF R
  <2>3. CallTypes' /\ call'[c] = R /\ \A d \in Clients : d # c => call'[d] = call[d]
    BY <2>1, <2>2, CallIdles DEF AccountsInv, CallTypes
  <2>4. LinkTypes' /\ SessionsInv'
    BY <2>2, SessionsStay DEF AccountsInv, LinkTypes
  <2>5. cookie[c] \in 0..Len(gens)
    BY DEF AccountsInv, HeldExist
  <2> QED
    BY <1>0, <1>1, <2>1, <2>2, <2>3, <2>4, <2>5
<1>9. CASE Refresh(c)
  <2>1. PICK reply \in 0..MaxGenerations : RotateRefresh(call[c].gen, call[c].now, reply) /\ Answer(c, reply)
    BY <1>9 DEF Refresh
  <2>2. UNCHANGED <<account, links, linkSeq, cookie, acctClock>>
    BY <1>9 DEF Refresh
  <2>3. call[c].gen \in DOMAIN gens /\ call[c].now \in Nat
    <3>1. call[c].now \in Nat
      BY <1>0 DEF CallRecords
    <3>2. call[c].gen \in DOMAIN gens
      BY <1>0, <1>9 DEF Refresh, AccountsInv, HeldExist
    <3> QED
      BY <3>1, <3>2
  <2>4. SessionsInv' /\ Len(gens') >= Len(gens) /\ reply \in 0..Len(gens')
    BY <1>0, <2>1, <2>2, <2>3, Rotation DEF AccountsInv
  <2>5. LinkTypes'
    BY <2>2 DEF AccountsInv, LinkTypes
  <2>6. /\ CallTypes' /\ call'[c].gen = reply /\ call'[c].op # "refresh" /\ call'[c].now = 0
        /\ \A d \in Clients : d # c => call'[d] = call[d]
    BY <2>1, <2>2, CallAnswered DEF AccountsInv
  <2> QED
    BY <1>0, <1>1, <2>2, <2>4, <2>5, <2>6
<1>10. CASE Logout(c)
  <2>1. /\ RevokeRefresh(cookie[c]) /\ Answer(c, 0) /\ UNCHANGED <<account, links, linkSeq, gens, cookie, acctClock>>
        /\ cookie[c] \in DOMAIN gens
    BY <1>0, <1>10 DEF Logout, AccountsInv, HeldExist
  <2>2. gens[cookie[c]].family \in DOMAIN families
    BY <2>1 DEF AccountsInv, SessionsInv, ChainsGrow
  <2>3. families' \in Seq(FamilyRecords) /\ Len(families') = Len(families)
    BY <2>1, <2>2, RevokeTypes DEF RevokeRefresh, AccountsInv, SessionsInv, SessionTypes, Revoked
  <2>4. SessionsInv' /\ LinkTypes'
    BY <2>1, <2>3, RevokingKeeps DEF AccountsInv, LinkTypes
  <2>5. /\ CallTypes' /\ call'[c].gen = 0 /\ call'[c].op # "refresh" /\ call'[c].now = 0
        /\ \A d \in Clients : d # c => call'[d] = call[d]
    BY <2>1, CallAnswered DEF AccountsInv
  <2> QED
    BY <1>0, <1>1, <2>1, <2>4, <2>5
<1>11. CASE Reply(c)
  <2>1. /\ cookie' = [cookie EXCEPT ![c] = call[c].gen] /\ call' = [call EXCEPT ![c] = Idle]
        /\ UNCHANGED <<account, links, linkSeq, families, gens, acctClock>>
    BY <1>11 DEF Reply
  <2>2. cookie' \in [Clients -> 0..MaxGenerations]
    BY <1>0, <2>1 DEF AccountsInv, CallTypes, CallRecords
  <2>3. CallTypes' /\ call'[c] = Idle /\ \A d \in Clients : d # c => call'[d] = call[d]
    BY <1>00, <2>1, <2>2, CallIdles DEF AccountsInv
  <2>4. LinkTypes' /\ SessionsInv'
    BY <2>1, SessionsStay DEF AccountsInv, LinkTypes
  <2>5. HeldExist'
    <3>1. ASSUME NEW d \in Clients
          PROVE  /\ cookie'[d] \in 0..Len(gens) /\ call'[d].gen \in 0..Len(gens)
                 /\ call'[d].op = "refresh" => call'[d].gen # 0
                 /\ call'[d].now <= acctClock
      <4>1. CASE d = c
        BY <1>0, <2>1, <2>3, <4>1 DEF Idle, AccountsInv, HeldExist, CallTypes
      <4>2. CASE d # c
        BY <1>0, <2>1, <2>3, <4>2 DEF AccountsInv, HeldExist, CallTypes
      <4> QED
        BY <4>1, <4>2
    <3> QED
      BY <2>1, <3>1 DEF HeldExist
  <2> QED
    BY <2>3, <2>4, <2>5 DEF AccountsInv
<1>12. CASE LoseReply(c)
  <2>1. call' = [call EXCEPT ![c] = Idle] /\ UNCHANGED <<account, links, linkSeq, families, gens, cookie, acctClock>>
    BY <1>12 DEF LoseReply
  <2>2. CallTypes' /\ call'[c] = Idle /\ \A d \in Clients : d # c => call'[d] = call[d]
    BY <1>00, <2>1, CallIdles DEF AccountsInv, CallTypes
  <2>3. LinkTypes' /\ SessionsInv'
    BY <2>1, SessionsStay DEF AccountsInv, LinkTypes
  <2> QED
    BY <1>0, <1>1, <2>1, <2>2, <2>3 DEF Idle
<1>13. CASE \E d \in Clients : ShareCookie(c, d)
  <2>1. PICK d \in Clients : ShareCookie(c, d)
    BY <1>13
  <2>2. /\ cookie' = [cookie EXCEPT ![c] = cookie[d]]
        /\ UNCHANGED <<account, links, linkSeq, families, gens, call, acctClock>>
    BY <2>1 DEF ShareCookie
  <2>3. LinkTypes' /\ SessionsInv' /\ CallTypes'
    BY <1>0, <2>2, SessionsStay DEF AccountsInv, LinkTypes, CallTypes
  <2>4. HeldExist'
    BY <2>2 DEF AccountsInv, HeldExist, CallTypes
  <2> QED
    BY <2>3, <2>4 DEF AccountsInv
<1> QED
  BY <1>2, <1>3, <1>4, <1>5, <1>6, <1>7, <1>8, <1>9, <1>10, <1>11, <1>12, <1>13 DEF ClientStep

LEMMA AccountsStep == AccountsInv /\ [AccountsNext]_acctVars => AccountsInv'
<1> SUFFICES ASSUME AccountsInv, [AccountsNext]_acctVars PROVE AccountsInv'
  OBVIOUS
<1>1. CASE UNCHANGED acctVars
  <2>1. UNCHANGED <<account, links, linkSeq, families, gens, cookie, call, acctClock>>
    BY <1>1 DEF acctVars
  <2>2. SessionsInv'
    BY <2>1, SessionsStay DEF AccountsInv
  <2> QED
    BY <2>1, <2>2 DEF AccountsInv, LinkTypes, CallTypes, HeldExist
<1>2. ASSUME UNCHANGED <<families, gens, cookie, call, acctClock>>, LinkTypes' PROVE AccountsInv'
  <2>1. SessionsInv'
    BY <1>2, SessionsStay DEF AccountsInv
  <2> QED
    BY <1>2, <2>1 DEF AccountsInv, CallTypes, HeldExist
<1>3. CASE Register
  <2>1. account' \in AccountRecords /\ insertActionToken("email_verification", links, ActionTTL)
    BY <1>3 DEF Register, RegisterAccount, AccountRecords, Statuses
  <2>2. LinkTypes'
    BY <2>1, LinkIssued, AccountNumbers DEF AccountsInv, Purposes
  <2> QED
    BY <1>2, <1>3, <2>2 DEF Register
<1>4. CASE ResendVerification
  <2>1. account' \in AccountRecords /\ Without("email_verification") \in SUBSET links
        /\ insertActionToken("email_verification", Without("email_verification"), ActionTTL)
    BY <1>4 DEF ResendVerification, ReplaceVerificationToken, Without, AccountsInv, LinkTypes
  <2>2. LinkTypes'
    BY <2>1, LinkIssued, AccountNumbers DEF AccountsInv, Purposes
  <2> QED
    BY <1>2, <1>4, <2>2 DEF ResendVerification
<1>5. CASE BeginPasswordReset
  <2>1. account' \in AccountRecords /\ Without("password_reset") \in SUBSET links
        /\ insertActionToken("password_reset", Without("password_reset"), ResetTTL)
    BY <1>5 DEF BeginPasswordReset, ReplacePasswordResetToken, Without, AccountsInv, LinkTypes
  <2>2. LinkTypes'
    BY <2>1, LinkIssued, AccountNumbers DEF AccountsInv, Purposes
  <2> QED
    BY <1>2, <1>5, <2>2 DEF BeginPasswordReset
<1>6. CASE BeginLegacyClaim
  <2>1. PICK kept \in SUBSET links : insertActionToken("legacy_claim", kept, ActionTTL)
    BY <1>6 DEF BeginLegacyClaim, StoreBeginLegacyClaim, Without
  <2>2. account' \in AccountRecords
    BY <1>6 DEF BeginLegacyClaim, StoreBeginLegacyClaim, AccountsInv, LinkTypes, AccountRecords
  <2>3. LinkTypes'
    BY <2>1, <2>2, LinkIssued, AccountNumbers DEF AccountsInv, Purposes
  <2> QED
    BY <1>2, <1>6, <2>3 DEF BeginLegacyClaim
<1>7. CASE SweepExpiredReplayCiphertexts
  <2>1. SessionsInv' /\ Len(gens') = Len(gens)
    BY <1>7, Sweeping
  <2> QED
    BY <1>7, <2>1 DEF AccountsInv, LinkTypes, CallTypes, HeldExist, SweepExpiredReplayCiphertexts
<1>8. CASE AcctTick
  <2>1. /\ UNCHANGED <<account, links, linkSeq, families, gens, cookie, call>>
        /\ acctClock' = acctClock + 1 /\ acctClock \in Nat /\ acctClock' \in 0..MaxAcctClock
    BY <1>8, AccountNumbers DEF AcctTick, AccountsInv, CallTypes
  <2>2. SweptAreOver'
    <3>1. \A g \in DOMAIN gens : gens[g] \in GenRecords
      BY DEF AccountsInv, SessionsInv, SessionTypes
    <3>2. \A g \in DOMAIN gens : gens[g].replay \in Nat
      BY <3>1 DEF GenRecords
    <3> QED
      BY <2>1, <3>2 DEF AccountsInv, SessionsInv, SweptAreOver
  <2>3. SessionsInv'
    <3>1. LiveOnes'
      BY <2>1 DEF AccountsInv, SessionsInv, LiveOnes, Live
    <3>2. ChainsGrow' /\ SessionTypes'
      BY <2>1 DEF AccountsInv, SessionsInv, SessionTypes, ChainsGrow
    <3> QED
      BY <2>2, <3>1, <3>2 DEF SessionsInv
  <2>4. HeldExist'
    BY <2>1 DEF AccountsInv, HeldExist, CallTypes, CallRecords
  <2> QED
    BY <2>1, <2>3, <2>4 DEF AccountsInv, LinkTypes, CallTypes
<1> QED
  BY <1>1, <1>3, <1>4, <1>5, <1>6, <1>7, <1>8, ClientKeeps DEF AccountsNext

\* Every reachable state of accounts, links, sessions, browsers and calls is well
\* typed (platform/store/account.go, refresh_session.go).
THEOREM AccountsTyped == AccountsSpec => []AccountsTypeOK
<1>1. AccountsInv => AccountsTypeOK
  BY DEF AccountsInv, AccountsTypeOK, LinkTypes, CallTypes, SessionsInv, SessionTypes, AccountRecords,
         FamilyRecords, GenRecords, CallRecords
<1> QED
  BY <1>1, AccountsStart, AccountsStep, PTL DEF AccountsSpec

\* A family has one generation that is not spent, for any number of browsers.
THEOREM FamiliesStayWhole == AccountsSpec => []OneLiveGeneration
<1>1. AccountsInv => OneLiveGeneration
  <2> SUFFICES ASSUME AccountsInv, NEW f \in DOMAIN families
               PROVE  /\ Cardinality(Live(f)) = 1
                      /\ \A g \in DOMAIN gens : gens[g].used <=> gens[g].next # 0
    BY DEF OneLiveGeneration, Live
  <2>1. PICK g \in DOMAIN gens : Live(f) = {g}
    BY DEF AccountsInv, SessionsInv, LiveOnes
  <2> QED
    BY <2>1, FS_Singleton DEF AccountsInv, SessionsInv, ChainsGrow
<1> QED
  BY <1>1, AccountsStart, AccountsStep, PTL DEF AccountsSpec

\* Only a refresh revokes for reuse.
LEMMA ReuseStep ==
  ASSUME AccountsInv, [AccountsNext]_acctVars, NEW f \in DOMAIN families,
         families[f].revoked = "no", families'[f].revoked = "reused"
  PROVE  \E c \in Clients : LET g == gens[call[c].gen] IN
           /\ call[c].op = "refresh" /\ g.family = f /\ g.used
           /\ g.replay < acctClock
           /\ call[c].now > g.replay \/ ~g.sealed
<1>1. PICK c \in Clients : ClientStep(c)
  BY DEF AccountsNext, acctVars, Register, ResendVerification, BeginPasswordReset, BeginLegacyClaim,
         SweepExpiredReplayCiphertexts, AcctTick
<1>2. ASSUME NEW e \in DOMAIN families, NEW why \in Revoked \ {"reused"}, revokeFamily(e, why) PROVE FALSE
  BY <1>2, RevokeTypes DEF AccountsInv, SessionsInv
<1>3. ASSUME NEW now, insertRefreshSession(now) PROVE FALSE
  <2> DEFINE F == [absolute |-> now + AbsoluteTTL, revoked |-> "no"]
  <2>1. families' = Append(families, F)
    BY <1>3 DEF insertRefreshSession
  <2> HIDE DEF F
  <2> QED
    BY <2>1 DEF AccountsInv, SessionsInv, SessionTypes
<1>4. ~applyPasswordChange
  <2>1. families[f] \in FamilyRecords
    BY DEF AccountsInv, SessionsInv, SessionTypes
  <2> QED
    BY <2>1 DEF applyPasswordChange, FamilyRecords
<1>5. ~Logout(c)
  <2> SUFFICES ASSUME Logout(c) PROVE FALSE
    OBVIOUS
  <2>1. cookie[c] \in DOMAIN gens
    BY DEF Logout, AccountsInv, HeldExist, SessionsInv, SessionTypes
  <2>2. gens[cookie[c]].family \in DOMAIN families
    BY <2>1 DEF AccountsInv, SessionsInv, ChainsGrow
  <2> QED
    BY <1>2, <2>2 DEF Logout, RevokeRefresh, Revoked
<1>6. Refresh(c)
  BY <1>1, <1>3, <1>4, <1>5 DEF ClientStep, VerifyEmail, ConsumeActionAndActivate, ResetPassword, LoginRead,
     CreateRefreshSession, ChangePasswordRead, ChangePassword, RefreshRead, Reply, LoseReply, ShareCookie
<1>7. PICK reply \in 0..MaxGenerations : RotateRefresh(call[c].gen, call[c].now, reply)
  BY <1>6 DEF Refresh
<1> DEFINE g == call[c].gen
<1>8. g \in DOMAIN gens /\ call[c].now \in Nat /\ call[c].now <= acctClock /\ acctClock \in Nat
  BY <1>6 DEF Refresh, AccountsInv, HeldExist, SessionsInv, SessionTypes, CallTypes, CallRecords
<1>9. gens[g].family \in DOMAIN families /\ gens[g].replay \in Nat
  <2>1. gens[g] \in GenRecords
    BY <1>8 DEF AccountsInv, SessionsInv, SessionTypes
  <2> QED
    BY <1>8, <2>1 DEF AccountsInv, SessionsInv, ChainsGrow, GenRecords
<1>10. gens[g].used /\ ~Replayable(g, call[c].now) /\ revokeFamily(gens[g].family, "reused")
  BY <1>2, <1>7, <1>8, <1>9 DEF RotateRefresh, Revoked
<1>11. gens[g].family = f
  BY <1>9, <1>10, RevokeTypes DEF AccountsInv, SessionsInv, Revoked
<1>12. gens[g].replay < acctClock /\ (call[c].now > gens[g].replay \/ ~gens[g].sealed)
  BY <1>8, <1>9, <1>10 DEF Replayable, AccountsInv, SessionsInv, SweptAreOver, ChainsGrow
<1>13. call[c].op = "refresh"
  BY <1>6 DEF Refresh
<1> QED
  BY <1>8, <1>10, <1>11, <1>12, <1>13

\* Nobody loses a session to the detection of reuse whose retry was presented and committed in
\* time, for any number of browsers and any lifetimes; and of those who were presented in time
\* only one that the sweeper has overtaken (RotateRefresh).
THEOREM ReuseStaysReal == AccountsSpec => ReuseIsReal
<1>1. AccountsInv /\ [AccountsNext]_acctVars =>
        [\A f \in DOMAIN families :
           (families[f].revoked = "no" /\ families'[f].revoked = "reused") =>
             \E c \in Clients : LET g == gens[call[c].gen] IN
               /\ call[c].op = "refresh" /\ g.family = f /\ g.used
               /\ g.replay < acctClock
               /\ call[c].now > g.replay \/ ~g.sealed]_acctVars
  BY ReuseStep
<1> QED
  BY <1>1, AccountsStart, AccountsStep, PTL DEF AccountsSpec, ReuseIsReal

-----------------------------------------------------------------------------
(***************************************************************************)
(* Attempt budgets.  A window is a day's digest and a start.  The row of   *)
(* the day counts the admissions of its latest window, and windows of one  *)
(* day start later and later, however late the reading is that is charged. *)
(***************************************************************************)
Admissions(log, day, start) == {j \in 1..Len(log) : log[j].day = day /\ log[j].start = start}

BudgetRows == [start : 0..MaxBudgetClock, attempts : 0..Limit]
Entries    == [now : 0..MaxBudgetClock, day : BudgetDays, start : 0..MaxBudgetClock]

RowCounts(day) ==
  /\ digestRows[day].attempts = 0 => digestRows[day] = NoAttempts
  /\ Cardinality(Admissions(admitted, day, digestRows[day].start)) = digestRows[day].attempts
  /\ \A j \in 1..Len(admitted) : admitted[j].day = day => admitted[j].start <= digestRows[day].start

BudgetInv ==
  /\ BudgetsTypeOK
  /\ \A day \in BudgetDays : RowCounts(day)
  /\ \A day \in BudgetDays, start \in 0..MaxBudgetClock :
       Cardinality(Admissions(admitted, day, start)) <= Limit

LEMMA BudgetNumbers ==
  /\ Limit \in Nat /\ Limit > 0 /\ Window \in Nat /\ Window > 0
  /\ DayLength \in Nat /\ DayLength > 0 /\ MaxBudgetClock \in Nat
BY BudgetAssumption

LEMMA DayOfReading ==
  ASSUME NEW now \in 0..MaxBudgetClock
  PROVE  now \div DayLength \in BudgetDays /\ Target(now) = now \div DayLength
<1>1. PICK D \in Nat : D = DayLength /\ D > 0
  BY BudgetNumbers
<1>2. PICK M \in Nat : M = MaxBudgetClock
  BY BudgetNumbers
<1>3. now \in Nat /\ now <= M
  BY <1>2
<1>4. now \div D \in Nat /\ M \div D \in Nat
  BY <1>1, <1>3
<1>5. now \div D <= M \div D
  BY <1>1, <1>3, <1>4
<1>6. now \div DayLength \in BudgetDays
  BY <1>1, <1>2, <1>4, <1>5 DEF BudgetDays
<1>7. Target(now) = now \div DayLength
  BY DEF Target, digest
<1> QED
  BY <1>6, <1>7

LEMMA AdmissionsFinite ==
  ASSUME NEW log, Len(log) \in Nat, NEW day, NEW start
  PROVE  /\ IsFiniteSet(Admissions(log, day, start))
         /\ Cardinality(Admissions(log, day, start)) \in Nat
         /\ Cardinality(Admissions(log, day, start)) = 0 <=> Admissions(log, day, start) = {}
<1>1. IsFiniteSet(1..Len(log))
  BY FS_Interval
<1>2. Admissions(log, day, start) \subseteq 1..Len(log)
  BY DEF Admissions
<1>3. IsFiniteSet(Admissions(log, day, start))
  BY <1>1, <1>2, FS_Subset
<1> QED
  BY <1>3, FS_CardinalityType, FS_EmptySet

LEMMA EntriesOf ==
  ASSUME NEW log \in Seq(Entries)
  PROVE  \A j \in 1..Len(log) : /\ log[j].day \in BudgetDays /\ log[j].start \in 0..MaxBudgetClock
                                /\ log[j].start \in Nat
<1>1. \A e \in Entries : e.day \in BudgetDays /\ e.start \in 0..MaxBudgetClock /\ e.start \in Nat
  BY DEF Entries
<1>2. \A j \in 1..Len(log) : log[j] \in Entries
  OBVIOUS
<1> QED
  BY <1>1, <1>2

LEMMA OneMore ==
  ASSUME NEW log \in Seq(Entries), NEW e \in Entries, NEW day, NEW start
  PROVE  Cardinality(Admissions(Append(log, e), day, start)) =
           Cardinality(Admissions(log, day, start)) + (IF e.day = day /\ e.start = start THEN 1 ELSE 0)
<1>1. /\ Len(log) \in Nat /\ Len(Append(log, e)) = Len(log) + 1
      /\ \A j \in 1..Len(log) : Append(log, e)[j] = log[j]
      /\ Append(log, e)[Len(log) + 1] = e
  OBVIOUS
<1>2. CASE e.day = day /\ e.start = start
  <2>1. Admissions(Append(log, e), day, start) = Admissions(log, day, start) \cup {Len(log) + 1}
    BY <1>1, <1>2 DEF Admissions
  <2>2. Len(log) + 1 \notin Admissions(log, day, start)
    BY <1>1 DEF Admissions
  <2>3. PICK S : S = Admissions(log, day, start)
    OBVIOUS
  <2>4. IsFiniteSet(S)
    BY <1>1, <2>3, AdmissionsFinite
  <2>5. Cardinality(S \cup {Len(log) + 1}) = Cardinality(S) + 1
    BY <2>2, <2>3, <2>4, FS_AddElement
  <2> QED
    BY <1>2, <2>1, <2>3, <2>5
<1>3. CASE ~(e.day = day /\ e.start = start)
  <2>1. Admissions(Append(log, e), day, start) = Admissions(log, day, start)
    BY <1>1, <1>3 DEF Admissions
  <2> QED
    BY <1>1, <1>3, <2>1, AdmissionsFinite
<1> QED
  BY <1>2, <1>3

LEMMA BudgetsStart == BudgetsInit => BudgetInv
<1> SUFFICES ASSUME BudgetsInit PROVE BudgetInv
  OBVIOUS
<1>1. BudgetsTypeOK
  BY BudgetNumbers DEF BudgetsInit, BudgetsTypeOK, NoAttempts, AttemptStates
<1>2. Len(admitted) = 0 /\ \A day, start : Admissions(admitted, day, start) = {}
  BY DEF BudgetsInit, Admissions
<1>3. \A day, start : Cardinality(Admissions(admitted, day, start)) = 0
  BY <1>2, FS_EmptySet
<1> QED
  BY <1>1, <1>2, <1>3, BudgetNumbers DEF BudgetInv, RowCounts, BudgetsInit, NoAttempts

\* What the rest of a request does leaves digests and history alone.
LEMMA QuietStep ==
  ASSUME BudgetInv, BudgetsTypeOK', UNCHANGED <<digestRows, admitted>>
  PROVE  BudgetInv'
BY DEF BudgetInv, RowCounts, Admissions

LEMMA AttemptMoves ==
  ASSUME BudgetInv, NEW r \in Attempts, NEW pc \in AttemptStates, NEW n \in 0..MaxBudgetClock
  PROVE  /\ [attempt EXCEPT ![r].pc = pc] \in [Attempts -> [pc : AttemptStates, now : 0..MaxBudgetClock]]
         /\ [attempt EXCEPT ![r] = [pc |-> pc, now |-> n]] \in
              [Attempts -> [pc : AttemptStates, now : 0..MaxBudgetClock]]
         /\ attempt[r].now \in 0..MaxBudgetClock
<1>1. attempt \in [Attempts -> [pc : AttemptStates, now : 0..MaxBudgetClock]]
  BY DEF BudgetInv, BudgetsTypeOK
<1> QED
  BY <1>1

LEMMA TheStates == "idle" \in AttemptStates /\ "signing" \in AttemptStates /\ "locking" \in AttemptStates
                   /\ "matching" \in AttemptStates /\ "asking" \in AttemptStates
BY DEF AttemptStates

LEMMA QuietTypes ==
  ASSUME BudgetInv, NEW r \in Attempts,
         \/ consumeAttempt(r) \/ InitializeSubject(r) \/ ConsumeSubject(r)
         \/ \E matched \in BOOLEAN : ResetSubject(r, matched)
         \/ ConsumeAnonymousReadOuter(r)
  PROVE  BudgetsTypeOK' /\ UNCHANGED <<digestRows, admitted>>
<1>0. /\ attempt[r].now \in 0..MaxBudgetClock /\ NoAttempts \in BudgetRows
      /\ \A n \in 0..MaxBudgetClock : [start |-> n, attempts |-> 1] \in BudgetRows
      /\ subjectRow \in BudgetRows /\ budgetClock \in 0..MaxBudgetClock
  BY BudgetNumbers DEF BudgetInv, BudgetsTypeOK, NoAttempts, BudgetRows
<1>1. attempt' \in [Attempts -> [pc : AttemptStates, now : 0..MaxBudgetClock]]
  <2>1. \/ \E pc \in AttemptStates : attempt' = [attempt EXCEPT ![r] = [pc |-> pc, now |-> budgetClock]]
        \/ \E pc \in AttemptStates : attempt' = [attempt EXCEPT ![r].pc = pc]
    BY TheStates DEF consumeAttempt, ConsumeAnonymousReadOuter, Arrive, InitializeSubject, ConsumeSubject,
       ResetSubject, Goto
  <2>2. ASSUME NEW pc \in AttemptStates,
               \/ attempt' = [attempt EXCEPT ![r] = [pc |-> pc, now |-> budgetClock]]
               \/ attempt' = [attempt EXCEPT ![r].pc = pc]
        PROVE  attempt' \in [Attempts -> [pc : AttemptStates, now : 0..MaxBudgetClock]]
    <3>1. PICK n \in 0..MaxBudgetClock : n = budgetClock
      BY <1>0
    <3>2. /\ [attempt EXCEPT ![r].pc = pc] \in [Attempts -> [pc : AttemptStates, now : 0..MaxBudgetClock]]
          /\ [attempt EXCEPT ![r] = [pc |-> pc, now |-> n]] \in
               [Attempts -> [pc : AttemptStates, now : 0..MaxBudgetClock]]
      BY AttemptMoves
    <3> QED
      BY <2>2, <3>1, <3>2
  <2> QED
    BY <2>1, <2>2
<1>2. subjectRow' \in BudgetRows
  <2>1. \/ subjectRow' \in {subjectRow, NoAttempts, [start |-> attempt[r].now, attempts |-> 1]}
        \/ ~(subjectRow.attempts >= Limit) /\ subjectRow' = [subjectRow EXCEPT !.attempts = @ + 1]
    BY DEF consumeAttempt, ConsumeAnonymousReadOuter, Arrive, InitializeSubject, ConsumeSubject, ResetSubject
  <2>2. ~(subjectRow.attempts >= Limit) => subjectRow.attempts + 1 \in 0..Limit
    BY <1>0, BudgetNumbers DEF BudgetRows
  <2> QED
    BY <1>0, <2>1, <2>2 DEF BudgetRows
<1>3. UNCHANGED <<digestRows, admitted, budgetClock>>
  BY DEF consumeAttempt, ConsumeAnonymousReadOuter, Arrive, InitializeSubject, ConsumeSubject, ResetSubject
<1> QED
  BY <1>1, <1>2, <1>3 DEF BudgetInv, BudgetsTypeOK, BudgetRows

LEMMA ChargeStep ==
  ASSUME BudgetInv, NEW r \in Attempts, ConsumeSecurityAttemptBudget(r)
  PROVE  BudgetInv'
<1> DEFINE now == attempt[r].now
           day == now \div DayLength
           row == digestRows[day]
<1>0. /\ now \in 0..MaxBudgetClock /\ day \in BudgetDays /\ Target(now) = day
      /\ row \in BudgetRows /\ RowCounts(day) /\ admitted \in Seq(Entries) /\ Len(admitted) \in Nat
  <2>1. now \in 0..MaxBudgetClock
    BY DEF BudgetInv, BudgetsTypeOK
  <2>2. day \in BudgetDays /\ Target(now) = day
    BY <2>1, DayOfReading
  <2>3. row \in BudgetRows /\ RowCounts(day)
    <3>1. row \in BudgetRows
      BY <2>2 DEF BudgetInv, BudgetsTypeOK, BudgetRows
    <3>2. RowCounts(day)
      BY <2>2 DEF BudgetInv
    <3> QED
      BY <3>1, <3>2
  <2>4. admitted \in Seq(Entries) /\ Len(admitted) \in Nat
    BY DEF BudgetInv, BudgetsTypeOK, Entries
  <2> QED
    BY <2>1, <2>2, <2>3, <2>4
<1>1. UNCHANGED <<subjectRow, budgetClock>> /\ attempt' = [attempt EXCEPT ![r].pc = "idle"]
  BY DEF ConsumeSecurityAttemptBudget, Goto
<1>2. attempt' \in [Attempts -> [pc : AttemptStates, now : 0..MaxBudgetClock]]
  BY <1>1 DEF BudgetInv, BudgetsTypeOK, AttemptStates
<1> HIDE DEF now, day, row
<1>3. CASE UNCHANGED <<digestRows, admitted>>
  BY <1>1, <1>2, <1>3, QuietStep DEF BudgetInv, BudgetsTypeOK
<1>4. CASE ~(UNCHANGED <<digestRows, admitted>>)
  <2>1. PICK new : /\ new = IF Active(row, now) THEN [row EXCEPT !.attempts = @ + 1]
                                                ELSE [start |-> now, attempts |-> 1]
                   /\ ~(Active(row, now) /\ row.attempts >= Limit)
                   /\ digestRows' = [digestRows EXCEPT ![day] = new]
                   /\ admitted' = Append(admitted, [now |-> now, day |-> day, start |-> new.start])
    BY <1>0, <1>4 DEF ConsumeSecurityAttemptBudget, now, row, day
  <2>2. /\ new \in BudgetRows /\ new.attempts > 0 /\ row.start <= new.start
        /\ \/ new.start = row.start /\ new.attempts = row.attempts + 1
           \/ new.start > row.start /\ new.attempts = 1
           \/ row = NoAttempts /\ new.attempts = 1
    <3>1. CASE Active(row, now)
      <4>1. new = [row EXCEPT !.attempts = row.attempts + 1] /\ ~(row.attempts >= Limit)
        BY <2>1, <3>1
      <4>2. row.attempts + 1 \in 0..Limit /\ row.attempts \in Nat /\ row.start \in Nat
        BY <1>0, <4>1, BudgetNumbers DEF BudgetRows
      <4> QED
        BY <1>0, <4>1, <4>2 DEF BudgetRows
    <3>2. CASE ~Active(row, now)
      BY <1>0, <2>1, <3>2, BudgetNumbers DEF BudgetRows, Active, NoAttempts
    <3> QED
      BY <3>1, <3>2
  <2>3. PICK e : e = [now |-> now, day |-> day, start |-> new.start]
    OBVIOUS
  <2>4. e \in Entries /\ e.day = day /\ e.start = new.start /\ admitted' = Append(admitted, e)
    BY <1>0, <2>1, <2>2, <2>3 DEF Entries, BudgetRows
  <2>5. /\ digestRows' \in [BudgetDays -> BudgetRows] /\ digestRows'[day] = new
        /\ \A d \in BudgetDays \ {day} : digestRows'[d] = digestRows[d]
    BY <1>0, <2>1, <2>2 DEF BudgetInv, BudgetsTypeOK, BudgetRows
  <2>6. BudgetsTypeOK'
    <3>1. admitted' \in Seq(Entries)
      BY <1>0, <2>4
    <3> QED
      BY <1>1, <1>2, <2>5, <3>1 DEF BudgetInv, BudgetsTypeOK, BudgetRows, Entries
  <2>7. \A d, s : Cardinality(Admissions(admitted', d, s)) =
                    Cardinality(Admissions(admitted, d, s)) + (IF d = day /\ s = new.start THEN 1 ELSE 0)
    BY <1>0, <2>4, OneMore
  <2>8. /\ Len(admitted') = Len(admitted) + 1 /\ admitted'[Len(admitted) + 1] = e
        /\ \A j \in 1..Len(admitted) : admitted'[j] = admitted[j]
    BY <1>0, <2>4
  <2>9. new.start # row.start \/ row = NoAttempts => Cardinality(Admissions(admitted, day, new.start)) = 0
    <3>1. CASE row = NoAttempts
      <4>1. Admissions(admitted, day, 0) = {}
        BY <1>0, <3>1, AdmissionsFinite DEF RowCounts, row, NoAttempts
      <4>2. \A j \in 1..Len(admitted) : admitted[j].day = day => admitted[j].start <= 0
        BY <1>0, <3>1 DEF RowCounts, row, NoAttempts
      <4>3. \A j \in 1..Len(admitted) : admitted[j].start \in Nat
        BY <1>0, EntriesOf
      <4>4. Admissions(admitted, day, new.start) = {}
        BY <4>1, <4>2, <4>3 DEF Admissions
      <4> QED
        BY <4>4, FS_EmptySet
    <3>2. CASE new.start # row.start
      <4>1. new.start > row.start
        BY <1>0, <2>2, <3>2 DEF BudgetRows
      <4>2. \A j \in 1..Len(admitted) : admitted[j].day = day => admitted[j].start <= row.start
        BY <1>0 DEF RowCounts, row
      <4>3. \A j \in 1..Len(admitted) : admitted[j].start \in Nat
        BY <1>0, EntriesOf
      <4>4. Admissions(admitted, day, new.start) = {}
        BY <1>0, <2>2, <4>1, <4>2, <4>3 DEF Admissions, BudgetRows
      <4> QED
        BY <4>4, FS_EmptySet
    <3> QED
      BY <3>1, <3>2
  <2>10. Cardinality(Admissions(admitted', day, new.start)) = new.attempts
    <3>1. Cardinality(Admissions(admitted, day, row.start)) = row.attempts
      BY <1>0 DEF RowCounts, row
    <3>2. row = NoAttempts => row.attempts = 0
      BY DEF NoAttempts
    <3> QED
      BY <1>0, <2>2, <2>7, <2>9, <3>1, <3>2 DEF BudgetRows
  <2>11. ASSUME NEW d \in BudgetDays PROVE RowCounts(d)'
    <3>1. CASE d = day
      <4>1. \A j \in 1..Len(admitted') : admitted'[j].day = day => admitted'[j].start <= new.start
        <5>1. \A j \in 1..Len(admitted) : admitted[j].day = day => admitted[j].start <= row.start
          BY <1>0 DEF RowCounts, row
        <5>2. \A j \in 1..Len(admitted) : admitted[j].start \in Nat
          BY <1>0, EntriesOf
        <5>3. row.start \in Nat /\ new.start \in Nat
          BY <1>0, <2>2 DEF BudgetRows
        <5> QED
          BY <1>0, <2>2, <2>4, <2>8, <5>1, <5>2, <5>3
      <4> QED
        BY <2>2, <2>5, <2>10, <3>1, <4>1 DEF RowCounts, BudgetRows
    <3>2. CASE d # day
      <4>1. Cardinality(Admissions(admitted', d, digestRows[d].start)) =
              Cardinality(Admissions(admitted, d, digestRows[d].start))
        BY <1>0, <2>7, <3>2, AdmissionsFinite
      <4> QED
        BY <1>0, <2>4, <2>5, <2>8, <3>2, <4>1 DEF RowCounts, BudgetInv
    <3> QED
      BY <3>1, <3>2
  <2>12. ASSUME NEW d \in BudgetDays, NEW s \in 0..MaxBudgetClock
         PROVE  Cardinality(Admissions(admitted', d, s)) <= Limit
    <3>1. CASE d = day /\ s = new.start
      BY <2>2, <2>10, <3>1 DEF BudgetRows
    <3>2. CASE ~(d = day /\ s = new.start)
      BY <1>0, <2>7, <3>2, AdmissionsFinite DEF BudgetInv
    <3> QED
      BY <3>1, <3>2
  <2> QED
    BY <2>6, <2>11, <2>12 DEF BudgetInv
<1> QED
  BY <1>3, <1>4

LEMMA BudgetsStep == BudgetInv /\ [BudgetsNext]_budgetVars => BudgetInv'
<1> SUFFICES ASSUME BudgetInv, [BudgetsNext]_budgetVars PROVE BudgetInv'
  OBVIOUS
<1>1. CASE BudgetTick
  <2>1. BudgetsTypeOK'
    BY <1>1, BudgetNumbers DEF BudgetTick, BudgetInv, BudgetsTypeOK
  <2> QED
    BY <1>1, <2>1, QuietStep DEF BudgetTick
<1>2. ASSUME NEW r \in Attempts, AttemptStep(r) PROVE BudgetInv'
  BY <1>2, QuietTypes, QuietStep, ChargeStep DEF AttemptStep
<1>3. CASE UNCHANGED budgetVars
  <2>1. BudgetsTypeOK'
    BY <1>3 DEF budgetVars, BudgetInv, BudgetsTypeOK
  <2> QED
    BY <1>3, <2>1, QuietStep DEF budgetVars
<1> QED
  BY <1>1, <1>2, <1>3 DEF BudgetsNext

\* However late the readings are that are charged, a window that has started admits at most
\* Limit requests of its digest (store/security_attempt_budget.go).
THEOREM WindowsHold == BudgetsSpec => []WindowHolds
<1>1. BudgetInv => WindowHolds
  <2> SUFFICES ASSUME BudgetInv, NEW i \in 1..Len(admitted)
               PROVE  Cardinality(Admissions(admitted, admitted[i].day, admitted[i].start)) <= Limit
    BY DEF WindowHolds, Admissions
  <2>1. admitted \in Seq(Entries)
    BY DEF BudgetInv, BudgetsTypeOK, Entries
  <2>2. admitted[i].day \in BudgetDays /\ admitted[i].start \in 0..MaxBudgetClock
    BY <2>1, EntriesOf
  <2> QED
    BY <2>2 DEF BudgetInv
<1> QED
  BY <1>1, BudgetsStart, BudgetsStep, PTL DEF BudgetsSpec
===============================================================================
