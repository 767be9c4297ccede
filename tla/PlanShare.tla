--------------------------------- MODULE PlanShare ---------------------------------
(***************************************************************************)
(* Sharing a shoot plan by links.  The photographer issues, rotates and    *)
(* revokes links in one transaction each.  A visitor who presents a link   *)
(* works in a transaction that reads from a snapshot and then locks what   *)
(* it relies on: REPEATABLE READ makes it fail when a row it locks was     *)
(* written after the snapshot.  A proposal link shows the plan; a full     *)
(* link also takes claims, and belongs to one period, or epoch, in which   *)
(* the plan is linked to an order.                                         *)
(*                                                                         *)
(* Of the generations of a view only the latest is kept: those before it   *)
(* have ended for good.  There is one thing to claim and one feedback.     *)
(***************************************************************************)
EXTENDS Naturals

CONSTANTS Visitors, NoVisitor,
          MaxEpochs, MaxEdits  \* bounds: epochs of the plan, revisions of the plan and the item

VARIABLES crm,         \* the plan's order: current epoch (0: none), epochs so far, its status
          sharedPlan,  \* revision; 0 when archived
          shareLinks,       \* view -> the latest generation: state and epoch
          item,        \* what can be claimed, a readiness item or an offer: revision, 0 for none
          holder,      \* the visitor with the active assignment
          opinion,     \* the feedback and its disposition
          visits       \* visitor -> the transaction at work

shareVars == <<crm, sharedPlan, shareLinks, item, holder, opinion, visits>>

Views      == {"proposal", "full"}
\* An expired generation is an active one whose time has passed.
LinkStates == {"none", "active", "expired", "revoked", "eligibility_invalidated"}

Visit(op, view, seen) == [op |-> op, view |-> view, seen |-> seen, stale |-> FALSE]
NoVisit == Visit("none", "proposal", 0)

-----------------------------------------------------------------------------
(* Conditions. *)
FullEligible   == crm.epoch # 0 /\ crm.order = "scheduled"
SameEpoch(view) == view = "full" => FullEligible /\ shareLinks[view].epoch = crm.epoch
Effective(view) == shareLinks[view].state = "active"
Archived       == sharedPlan = 0
Claimed        == holder # NoVisitor

\* The rows a transaction locks or writes before it commits: its link, and what it decides by.
Relies(q, plan, items) ==
  CASE q.op = "read"     -> {q.view}
    [] q.op = "lost"     -> {"ended"}
    [] q.op = "feedback" -> {q.view} \cup plan \cup IF q.view = "full" THEN {"crm"} ELSE {}
    [] q.op = "claim"    -> {q.view, "fence", "crm"} \cup plan \cup items
    [] q.op = "giveUp"   -> {q.view, "fence", "crm", "assignment"} \cup plan
    [] OTHER             -> {}

LocksWithoutPlan(q) == Relies(q, {}, {"item"})
LocksWithoutItem(q) == Relies(q, {"plan"}, {})
Locks(q)            == Relies(q, {"plan"}, {"item"})

\* A write makes the snapshot of every transaction that locks one of its rows too old.
Overtaken(w, rows) ==
  [v \in DOMAIN w |-> IF rows \cap Locks(w[v]) # {} THEN [w[v] EXCEPT !.stale = TRUE] ELSE w[v]]

Wrote(rows) == visits' = Overtaken(visits, rows)

-----------------------------------------------------------------------------
ShareInit ==
  /\ crm = [epoch |-> 0, last |-> 0, order |-> "consulting"]
  /\ sharedPlan = 1 /\ item = 0
  /\ shareLinks = [view \in Views |-> [state |-> "none", epoch |-> 0]]
  /\ holder = NoVisitor /\ opinion = "none"
  /\ visits = [v \in Visitors |-> NoVisit]

(* The plan's connection with an order. *)
Connects(c) ==
  /\ crm' = c /\ Wrote({"crm", "fence"})
  /\ UNCHANGED <<sharedPlan, shareLinks, item, holder, opinion>>

JoinOrder ==
  /\ crm.epoch = 0 /\ crm.last < MaxEpochs /\ ~Archived
  /\ \E status \in {"consulting", "scheduled"} :
       Connects([epoch |-> crm.last + 1, last |-> crm.last + 1, order |-> status])

LeaveOrder ==
  /\ crm.epoch # 0 /\ ~Archived
  /\ Connects([crm EXCEPT !.epoch = 0, !.order = "consulting"])

OrderMoves ==
  /\ crm.epoch # 0 /\ crm.order # "cancelled"
  /\ \E status \in {"scheduled", "cancelled"} \ {crm.order} :
       Connects([crm EXCEPT !.order = status])

(* The photographer's own commands, each one transaction. *)
EditPlan ==
  /\ ~Archived /\ sharedPlan < MaxEdits
  /\ sharedPlan' = sharedPlan + 1 /\ Wrote({"plan"})
  /\ UNCHANGED <<crm, shareLinks, item, holder, opinion>>

ArchiveSharedPlan ==
  /\ ~Archived
  /\ sharedPlan' = 0 /\ Wrote({"plan", "fence"})
  /\ UNCHANGED <<crm, shareLinks, item, holder, opinion>>

EndLink(view, state, epoch) ==
  /\ shareLinks' = [shareLinks EXCEPT ![view] = [state |-> state, epoch |-> epoch]]
  /\ Wrote({view, IF view = "full" THEN "ended" ELSE view})
  /\ UNCHANGED <<crm, sharedPlan, item, holder, opinion>>

EpochOf(view) == IF view = "full" THEN crm.epoch ELSE 0

\* An active generation stands in the way even after its expiry.
Issue(view) ==
  /\ ~Archived /\ view = "full" => FullEligible
  /\ shareLinks[view].state \notin {"active", "expired"}
  /\ EndLink(view, "active", EpochOf(view))

Rotate(view) ==
  /\ ~Archived /\ view = "full" => FullEligible
  /\ shareLinks[view].state \in {"active", "expired"}
  /\ EndLink(view, "active", EpochOf(view))

\* The plan may be archived.
Revoke(view) ==
  /\ shareLinks[view].state \in {"active", "expired"}
  /\ EndLink(view, "revoked", 0)

TimePasses(view) ==
  /\ Effective(view)
  /\ shareLinks' = [shareLinks EXCEPT ![view].state = "expired"]
  /\ UNCHANGED <<crm, sharedPlan, item, holder, opinion, visits>>

SetItem(revision, rows) ==
  /\ ~Archived /\ item' = revision /\ Wrote(rows)
  /\ UNCHANGED <<crm, sharedPlan, shareLinks, holder, opinion>>

CreateItem == item = 0 /\ SetItem(1, {})
EditItem   == item \in 1..(MaxEdits - 1) /\ SetItem(item + 1, {"item"})
\* CloseOnSiteOffer, or removing the readiness item: refused while somebody has it.
CloseItem  == item # 0 /\ ~Claimed /\ SetItem(0, {"item"})

PhotographerRevokeAssignment ==
  /\ ~Archived /\ Claimed
  /\ holder' = NoVisitor /\ Wrote({"fence", "assignment"})
  /\ UNCHANGED <<crm, sharedPlan, shareLinks, item, opinion>>

SetFeedbackDisposition ==
  /\ ~Archived /\ opinion # "none"
  /\ opinion' \in {"adopted", "ignored"}
  /\ UNCHANGED <<crm, sharedPlan, shareLinks, item, holder, visits>>

-----------------------------------------------------------------------------
(* A visitor's request.  A retry after 40001 is another request. *)
Begin(v, q) ==
  /\ visits[v] = NoVisit /\ visits' = [visits EXCEPT ![v] = q]
  /\ UNCHANGED <<crm, sharedPlan, shareLinks, item, holder, opinion>>

\* What the transaction finds in its snapshot lets it go on.
ReadLink(v, view) ==
  /\ Effective(view)
  /\ \/ SameEpoch(view) /\ ~Archived /\ Begin(v, Visit("read", view, 0))
     \/ ~SameEpoch(view) /\ Begin(v, Visit("lost", view, 0))

GiveFeedback(v, view) ==
  /\ Effective(view) /\ SameEpoch(view) /\ ~Archived
  /\ Begin(v, Visit("feedback", view, sharedPlan))

Claim(v) ==
  /\ Effective("full") /\ SameEpoch("full") /\ ~Archived /\ item # 0 /\ ~Claimed
  /\ Begin(v, Visit("claim", "full", item))

\* The receipt is the visitor's; the epoch of the link is not compared.
GiveUp(v) ==
  /\ Effective("full") /\ FullEligible /\ ~Archived /\ holder = v
  /\ Begin(v, Visit("giveUp", "full", 0))

Commits(v, op) == visits[v].op = op /\ ~visits[v].stale
Done(v, rows)  == visits' = Overtaken([visits EXCEPT ![v] = NoVisit], rows)

\* The first read of a generation marks it as opened.
GetAnonymousProjection(v) ==
  /\ Commits(v, "read")
  /\ \E rows \in {{}, {visits[v].view}} : Done(v, rows)
  /\ UNCHANGED <<crm, sharedPlan, shareLinks, item, holder, opinion>>

\* A link found without its order is ended in a transaction of its own, if it is still the
\* same generation.
LatchEligibilityInvalidated(v) ==
  /\ visits[v].op = "lost"
  /\ \/ /\ ~visits[v].stale
        /\ shareLinks' = [shareLinks EXCEPT !["full"] = [state |-> "eligibility_invalidated", epoch |-> 0]]
        /\ Done(v, {"full", "ended"})
     \/ visits[v].stale /\ UNCHANGED shareLinks /\ Done(v, {})
  /\ UNCHANGED <<crm, sharedPlan, item, holder, opinion>>

CreateAnonymousFeedback(v) ==
  /\ Commits(v, "feedback") /\ opinion = "none"
  /\ opinion' = "pending" /\ Done(v, {})
  /\ UNCHANGED <<crm, sharedPlan, shareLinks, item, holder>>

ClaimAnonymousAssignment(v) ==
  /\ Commits(v, "claim") /\ ~Claimed  \* by a unique index
  /\ holder' = v /\ Done(v, {"fence"})
  /\ UNCHANGED <<crm, sharedPlan, shareLinks, item, opinion>>

SelfRevokeAnonymousAssignment(v) ==
  /\ Commits(v, "giveUp")
  /\ holder' = NoVisitor /\ Done(v, {"fence", "assignment"})
  /\ UNCHANGED <<crm, sharedPlan, shareLinks, item, opinion>>

\* 40001, another error, or a visitor who went away.
RollBack(v) ==
  /\ visits[v] # NoVisit /\ visits' = [visits EXCEPT ![v] = NoVisit]
  /\ UNCHANGED <<crm, sharedPlan, shareLinks, item, holder, opinion>>

-----------------------------------------------------------------------------
ShareNext ==
  \/ JoinOrder \/ LeaveOrder \/ OrderMoves
  \/ EditPlan \/ ArchiveSharedPlan \/ CreateItem \/ EditItem \/ CloseItem
  \/ PhotographerRevokeAssignment \/ SetFeedbackDisposition
  \/ \E view \in Views : Issue(view) \/ Rotate(view) \/ Revoke(view) \/ TimePasses(view)
  \/ \E v \in Visitors :
       \/ \E view \in Views : ReadLink(v, view) \/ GiveFeedback(v, view)
       \/ Claim(v) \/ GiveUp(v)
       \/ GetAnonymousProjection(v) \/ LatchEligibilityInvalidated(v)
       \/ CreateAnonymousFeedback(v) \/ ClaimAnonymousAssignment(v)
       \/ SelfRevokeAnonymousAssignment(v) \/ RollBack(v)

ShareSpec == ShareInit /\ [][ShareNext]_shareVars

ShareTypeOK ==
  /\ crm \in [epoch : 0..MaxEpochs, last : 0..MaxEpochs,
              order : {"consulting", "scheduled", "cancelled"}]
  /\ sharedPlan \in 0..MaxEdits /\ item \in 0..MaxEdits
  /\ shareLinks \in [Views -> [state : LinkStates, epoch : 0..MaxEpochs]]
  /\ holder \in Visitors \cup {NoVisitor}
  /\ opinion \in {"none", "pending", "adopted", "ignored"}
  /\ visits \in [Visitors -> [op : {"none", "read", "lost", "feedback", "claim", "giveUp"},
                              view : Views, seen : Nat, stale : BOOLEAN]]

-----------------------------------------------------------------------------
\* What somebody has claimed is there: an offer is not closed and an item not removed under a
\* claim that was decided on an older snapshot (planshare/assignment.go, closeOfferInScope,
\* ReadinessRemovalGuard and claimInShareScope).
ClaimedItemStays == Claimed => item # 0

\* A link lets its visitor write: it has not ended, its plan is open, and a full link is one
\* of the current epoch.  It may expire between the check and the commit.
InForce(view) == shareLinks[view].state \in {"active", "expired"} /\ ~Archived /\ SameEpoch(view)

Stores(v, op) == visits[v].op = op /\ visits'[v] = NoVisit

\* At the moment a visitor's feedback or claim is stored its link is in force, and the plan or
\* the item is at the revision the visitor answered to, whatever happened since the check
\* (planshare/assignment.go, claimInShareScope; feedback.go, createFeedbackInShareScope).
AnonymousWritesAreCurrent ==
  [][\A v \in Visitors :
       LET q == visits[v]
       IN  /\ Stores(v, "feedback") /\ opinion' # opinion => InForce(q.view) /\ q.seen = sharedPlan
           /\ Stores(v, "claim") /\ holder' # holder      => InForce(q.view) /\ q.seen = item
    ]_shareVars

\* "Every full read or mutation needs the same epoch; a new link of the order is a new epoch, so
\* an old full link never revives" (plan-share-collaboration-design.md:127).
OldLinksStayDead ==
  [][\A v \in Visitors :
       Stores(v, "giveUp") /\ holder' # holder => SameEpoch(visits[v].view)]_shareVars
===============================================================================
