------------------------------ MODULE BusinessDrafts ------------------------------
(***************************************************************************)
(* Business feedback: drafts that propose a price for the order of a plan  *)
(* or an end for its shoot, computed from the facts of the plan, the rules *)
(* of the account and the order and slot as they were read.  The plan row  *)
(* is locked while a draft is computed; order and rules are not.  While    *)
(* one is applied the plan, the order and the slot are; the rules never.   *)
(* Of each kind the latest draft is kept: one that was superseded is never *)
(* fresh.                                                                  *)
(***************************************************************************)
EXTENDS Naturals

CONSTANTS MaxChanges,  \* bound: changes of what drafts are computed from
          MaxPrice     \* prices are 0..MaxPrice, and the sums wrap

ASSUME BusinessAssumption == MaxChanges \in Nat /\ MaxPrice \in Nat \ {0}

VARIABLES business,   \* what drafts are computed from, and the changes so far
          drafts,     \* kind -> status and source snapshot
          computing,  \* the generation at work: what it was asked for and has read
          applying    \* the application at work: its draft, and the rules it has read

businessVars == <<business, drafts, computing, applying>>

Kinds == {"order", "schedule"}
ShootEnds  == {1, 2}

\* conn is odd while the plan is linked to an order; proj counts the changes of its slot's
\* projection; end is the slot's, 0 for no slot.
Source(w) == [facts |-> w.facts, rules |-> w.rules, conn |-> w.conn, proj |-> w.proj,
              price |-> w.price, end |-> w.end]
Blank   == [facts |-> 1, rules |-> 1, conn |-> 0, proj |-> 0, price |-> 0, end |-> 0]
\* The snapshot of a draft nobody can apply any more is forgotten.
Draft(status) == [status |-> status, source |-> Blank]
NotComputing == [kinds |-> {}, source |-> Blank]
NotApplying  == [kind |-> "none", source |-> Blank, rules |-> 1]

BusinessInit ==
  /\ business = [facts |-> 1, rules |-> 1, conn |-> 1, proj |-> 1, price |-> 1, end |-> 1,
                 stage |-> "scheduled", changes |-> 0]
  /\ drafts = [k \in Kinds |-> Draft("none")]
  /\ computing = NotComputing /\ applying = NotApplying

Linked      == business.conn % 2 = 1
OrderLocked == applying.kind # "none"
PlanLocked  == computing.kinds # {} \/ OrderLocked

-----------------------------------------------------------------------------
(* What a draft proposes. *)
EvaluateOrder(s)    == (s.price + s.facts * s.rules) % (MaxPrice + 1)
EvaluateDuration(s) == s.facts

Available(k, source) ==
  /\ Linked
  /\ k = "order"    => business.stage # "cancelled"
  /\ k = "schedule" => business.stage = "scheduled" /\ source.end # 0

-----------------------------------------------------------------------------
(* The facts, the rules, the order and the slot change. *)
Change(w) ==
  /\ business.changes < MaxChanges
  /\ business' = [w EXCEPT !.changes = @ + 1]
  /\ UNCHANGED <<drafts, computing, applying>>

SetFacts    == ~PlanLocked /\ \E f \in {1, 2} \ {business.facts} : Change([business EXCEPT !.facts = f])
PatchRules  == Change([business EXCEPT !.rules = 3 - @])
EditPrice   == ~OrderLocked /\ \E p \in 0..MaxPrice : Change([business EXCEPT !.price = p])
MoveSlot    == /\ ~PlanLocked /\ Linked
               /\ \E e \in ShootEnds \ {business.end} : Change([business EXCEPT !.end = e, !.proj = @ + 1])
Relink      == ~PlanLocked /\ Change([business EXCEPT !.conn = @ + 1, !.proj = @ + 1])
StageMoves  == /\ ~OrderLocked /\ business.stage = "scheduled"
               /\ \E s \in {"shot", "cancelled"} : Change([business EXCEPT !.stage = s])

-----------------------------------------------------------------------------
\* generateInScope up to LoadCurrentTargets: the plan and its facts are locked, the order and
\* the slot read.
BeginGenerate(kinds) ==
  /\ ~PlanLocked
  /\ computing' = [kinds |-> kinds, source |-> Source(business)]
  /\ UNCHANGED <<business, drafts, applying>>

\* The rest: the rules are read, and what can be proposed replaces the draft before.
Generate ==
  LET source == [computing.source EXCEPT !.rules = business.rules]
      made   == {k \in computing.kinds : Available(k, source)}
  IN  /\ computing.kinds # {}
      /\ drafts' = [k \in Kinds |->
           IF k \in made THEN [status |-> "fresh", source |-> source] ELSE drafts[k]]
      /\ computing' = NotComputing
      /\ UNCHANGED <<business, applying>>

Expire(k) ==
  /\ drafts[k].status = "fresh"
  /\ drafts' = [drafts EXCEPT ![k] = Draft("expired")]
  /\ UNCHANGED <<business, computing, applying>>

\* effectiveDraftStatus = fresh, and the fingerprint of the locked target agrees.
StillFreshWhateverTheRules(k) ==
  LET s == drafts[k].source
  IN  /\ drafts[k].status = "fresh" /\ Available(k, s)
      /\ s.facts = business.facts /\ s.conn = business.conn /\ s.proj = business.proj
      /\ IF k = "order" THEN s.price = business.price ELSE s.end = business.end

StillFresh(k) ==
  LET s == drafts[k].source
  IN  /\ drafts[k].status = "fresh" /\ Available(k, s)
      /\ s.facts = business.facts /\ s.rules = business.rules
      /\ s.conn = business.conn /\ s.proj = business.proj
      /\ IF k = "order" THEN s.price = business.price ELSE s.end = business.end

\* The order and the plan are locked, and the slot if its end is to move; the rules are read, and
\* everything is compared with the draft's source; a draft that changes nothing is refused.
BeginApply(k) ==
  LET s == drafts[k].source
  IN  /\ ~PlanLocked /\ StillFresh(k)
      /\ IF k = "order" THEN EvaluateOrder(s) # s.price ELSE EvaluateDuration(s) # s.end
      /\ applying' = [kind |-> k, source |-> s, rules |-> business.rules]
      /\ UNCHANGED <<business, drafts, computing>>

\* The rest, and the commit.
ApplyOrder ==
  /\ applying.kind = "order"
  /\ business' = [business EXCEPT !.price = EvaluateOrder(applying.source)]
  /\ drafts' = [drafts EXCEPT !["order"] = Draft("applied")]
  /\ applying' = NotApplying /\ UNCHANGED computing

\* The plans that follow the slot are projected anew.
ApplySchedule ==
  /\ applying.kind = "schedule"
  /\ business' = [business EXCEPT !.end = EvaluateDuration(applying.source), !.proj = @ + 1]
  /\ drafts' = [drafts EXCEPT !["schedule"] = Draft("applied")]
  /\ applying' = NotApplying /\ UNCHANGED computing

Dismiss(k) ==
  /\ ~PlanLocked /\ drafts[k].status \in {"fresh", "expired"}
  /\ drafts' = [drafts EXCEPT ![k] = Draft("dismissed")]
  /\ UNCHANGED <<business, computing, applying>>

\* A transaction fails and leaves nothing but its locks behind, which are given up.
AbortBusiness ==
  /\ PlanLocked /\ computing' = NotComputing /\ applying' = NotApplying
  /\ UNCHANGED <<business, drafts>>

BusinessNext ==
  \/ SetFacts \/ PatchRules \/ EditPrice \/ MoveSlot \/ Relink \/ StageMoves
  \/ \E kinds \in (SUBSET Kinds) \ {{}} : BeginGenerate(kinds)
  \/ Generate \/ ApplyOrder \/ ApplySchedule \/ AbortBusiness
  \/ \E k \in Kinds : BeginApply(k) \/ Expire(k) \/ Dismiss(k)

BusinessSpec == BusinessInit /\ [][BusinessNext]_businessVars

BusinessTypeOK ==
  LET Sources == [facts : 1..2, rules : 1..2, conn : Nat, proj : Nat, price : 0..MaxPrice,
                  end : {0} \cup ShootEnds]
  IN  /\ business.changes \in 0..MaxChanges /\ Source(business) \in Sources
      /\ drafts \in [Kinds -> [status : {"none", "fresh", "expired", "applied", "dismissed"},
                               source : Sources]]
      /\ computing \in [kinds : SUBSET Kinds, source : Sources]
      /\ applying \in [kind : Kinds \cup {"none"}, source : Sources, rules : 1..2]

-----------------------------------------------------------------------------
\* A price or an end that a draft sets is the one that today's facts, price, order and slot give
\* under the rules its application has read, though the draft was computed earlier, from reads
\* between which order and rules may have changed, and everything may have changed since; the
\* locks keep all but the rules until the commit (business/application.go, generateInScope,
\* effectiveDraftStatus, applyOrderInLockedScope, applyScheduleInLockedScope).
AsApplied == [Source(business) EXCEPT !.rules = applying.rules]
AppliedAsOfToday ==
  [][/\ drafts["order"].status # "applied" /\ drafts'["order"].status = "applied"
          => Linked /\ business'.price = EvaluateOrder(AsApplied)
     /\ drafts["schedule"].status # "applied" /\ drafts'["schedule"].status = "applied"
          => Linked /\ business'.end = EvaluateDuration(AsApplied)]_businessVars

\* The rules an application has compared stay those of the account until it commits: "the
\* callback then locks plan, draft and rule and recomputes the fingerprint of the order"
\* (plan-business-feedback-design.md:471).
RulesStayLocked == OrderLocked => applying.rules = business.rules
===============================================================================
