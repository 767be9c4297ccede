--------------------------- MODULE DigestCallProofs ---------------------------
(***************************************************************************)
(* Two servers are never on the wire with one delivery for the same        *)
(* recipient: the inductive invariant behind NoOverlappingCalls, and its   *)
(* proof for every timing that fits an attempt and its cleanup in a lease. *)
(***************************************************************************)
EXTENDS DigestDeliveryProofs

OnWire == {"authorized", "permitted", "callable", "sending"}
UnderLease == OnWire \cup {"claimed", "begun"}
Settled(d) == row[d].status \notin {"absent", "pending"}

\* Nobody works on a delivery that does not exist.
JobsExist == \A p \in Servers :
    worker[p].at # "idle" => row[worker[p].job].status # "absent"

\* A claim that is still held outlasts its attempt.
LeaseCovers == \A p \in Servers :
    worker[p].at \in UnderLease /\ Holds(p, worker[p].job) =>
        row[worker[p].job].lease + AttemptTimeout >= worker[p].left + Lease

\* A call is given no more time than its attempt has left.
CallsFit == \A p \in Servers :
    worker[p].at = "sending" => worker[p].clock <= worker[p].left

\* A call is addressed to the current binding or to an earlier one.
Addressed == \A p \in Servers :
    worker[p].at \in OnWire =>
        /\ worker[p].to \in Intent /\ worker[p].to.rev <= rev
        /\ worker[p].to.rev = rev => worker[p].to = Bound

\* An authorized attempt keeps its claim unless the delivery is settled or
\* the binding has moved on.
StillHeld == \A p \in Servers :
    worker[p].at \in OnWire =>
        \/ Holds(p, worker[p].job)
        \/ Settled(worker[p].job)
        \/ worker[p].to.rev < rev

\* Of two attempts at one delivery, each has a recipient of its own.
OneCallPerRecipient == \A p, q \in Servers :
    /\ p # q /\ worker[p].at \in OnWire /\ worker[q].at \in OnWire
    /\ worker[p].job = worker[q].job
    => worker[p].to # worker[q].to

CallInv == /\ JobsExist /\ LeaseCovers /\ CallsFit /\ Addressed /\ StillHeld
           /\ OneCallPerRecipient

-----------------------------------------------------------------------------
LEMMA TimesAreNumbers ==
    ASSUME Typing, NEW p \in Servers
    PROVE  /\ worker[p].left \in Nat /\ worker[p].clock \in Nat
           /\ worker[p].at # "idle" => worker[p].job \in Deliveries
           /\ \A d \in Deliveries : row[d].lease \in Nat
           /\ Lease \in Nat /\ AttemptTimeout \in Nat /\ AttemptTimeout < Lease
           /\ p # None /\ rev \in Nat
BY ConstantsAssumption DEF Typing, TypeOK, WorkersBusy, Worker, Row

\* A holder on the wire is under a live lease, so nobody else may claim.
LEMMA LeaseLives ==
    ASSUME Typing, LeaseCovers, NEW p \in Servers,
           worker[p].at \in UnderLease, Holds(p, worker[p].job)
    PROVE  row[worker[p].job].lease > 0
<1>1. worker[p].at # "idle"
  BY DEF UnderLease, OnWire
<1>2. row[worker[p].job].lease + AttemptTimeout >= worker[p].left + Lease
  BY DEF LeaseCovers
<1>3. QED
  BY <1>1, <1>2, TimesAreNumbers

\* From v to w a sender goes on with its attempt, or ends it.
Onward(v, w) ==
    \/ w.at = "idle"
    \/ /\ v.at # "idle" /\ w.job = v.job
       /\ w.at \in UnderLease => v.at \in UnderLease /\ w.left = v.left
       /\ w.at \in OnWire => v.at \in OnWire /\ w.to = v.to
       /\ w.at = "sending" => w.clock <= w.left

\* A sender moves on, or gives up, and no row is written.
LEMMA SenderMoves ==
    ASSUME Typing, CallInv, UNCHANGED <<row, chat, rev>>,
           NEW p \in Servers, NEW w \in Worker, worker' = [worker EXCEPT ![p] = w],
           Onward(worker[p], w)
    PROVE  CallInv'
<1>1. /\ worker'[p] = w
      /\ \A q \in Servers : q # p => worker'[q] = worker[q]
      /\ \A d : Settled(d)' = Settled(d) /\ \A q : Holds(q, d)' = Holds(q, d)
      /\ Bound' = Bound
  BY DEF Typing, TypeOK, Settled, Holds, Pending, Bound
<1>2. OnWire \subseteq UnderLease /\ "idle" \notin UnderLease
  BY DEF OnWire, UnderLease
<1>3. JobsExist'
  BY <1>1 DEF Onward, CallInv, JobsExist
<1>4. LeaseCovers'
  BY <1>1, <1>2 DEF Onward, CallInv, LeaseCovers
<1>5. CallsFit'
  BY <1>1 DEF Onward, CallInv, CallsFit
<1>6. Addressed'
  BY <1>1, <1>2 DEF Onward, OnWire, CallInv, Addressed
<1>7. StillHeld'
  BY <1>1, <1>2 DEF Onward, OnWire, CallInv, StillHeld
<1>8. OneCallPerRecipient'
  BY <1>1, <1>2 DEF Onward, OnWire, CallInv, OneCallPerRecipient
<1>9. QED
  BY <1>3, <1>4, <1>5, <1>6, <1>7, <1>8 DEF CallInv

\* A sender ends its attempt, and writes the row of its delivery only if it
\* holds the claim.
LEMMA SenderEnds ==
    ASSUME Typing, CallInv, UNCHANGED <<chat, rev>>,
           NEW p \in Servers, worker[p].at # "idle",
           worker' = [worker EXCEPT ![p] = IdleWorker],
           NEW r, Holds(p, worker[p].job) => r.status # "absent" /\ r.claim = None,
           row' = [row EXCEPT ![worker[p].job] =
                        IF Holds(p, worker[p].job) THEN r ELSE row[worker[p].job]]
    PROVE  CallInv'
<1>1. PICK d \in Deliveries : d = worker[p].job
  BY TimesAreNumbers
<1>2. CASE ~Holds(p, d)
  <2>1. UNCHANGED <<row, chat, rev>>
    BY <1>1, <1>2 DEF Typing, TypeOK
  <2>2. Onward(worker[p], IdleWorker)
    BY IdleType DEF Onward
  <2>3. QED
    BY <2>1, <2>2, SenderMoves, IdleType
<1>3. CASE Holds(p, d)
  <2>1. /\ row'[d].status # "absent" /\ row'[d].claim = None
        /\ \A e \in Deliveries : e # d => row'[e] = row[e]
    <3>1. row' = [row EXCEPT ![d] = r] /\ r.status # "absent" /\ r.claim = None
      BY <1>1, <1>3
    <3>2. QED
      BY <3>1 DEF Typing, TypeOK
  <2>2. /\ worker'[p].at = "idle"
        /\ \A q \in Servers : q # p => worker'[q] = worker[q]
        /\ Bound' = Bound
    BY IdleType DEF Typing, TypeOK, Bound
  <2>3. row[d].claim = p /\ Pending(d)
    BY <1>3 DEF Holds
  <2>4. ASSUME NEW q \in Servers, worker'[q].at # "idle"
        PROVE  /\ q # p /\ worker'[q] = worker[q] /\ worker[q].job \in Deliveries
               /\ Holds(q, worker[q].job) => worker[q].job # d
               /\ worker[q].job # d => row'[worker[q].job] = row[worker[q].job]
               /\ worker[q].job = d => ~Holds(q, d)'
    BY <2>1, <2>2, <2>3, <2>4, TimesAreNumbers DEF Holds
  <2>5. JobsExist'
    BY <2>1, <2>4 DEF CallInv, JobsExist
  <2>6. LeaseCovers'
    <3>1. SUFFICES ASSUME NEW q \in Servers, worker'[q].at \in UnderLease,
                          Holds(q, worker[q].job)', worker'[q] = worker[q]
                   PROVE  row'[worker[q].job].lease + AttemptTimeout
                              >= worker[q].left + Lease
      BY <2>4 DEF LeaseCovers, UnderLease, OnWire
    <3>2. worker[q].job # d /\ row'[worker[q].job] = row[worker[q].job]
      BY <2>4, <3>1 DEF UnderLease, OnWire
    <3>3. Holds(q, worker[q].job)
      BY <3>1, <3>2 DEF Holds, Pending
    <3>4. QED
      BY <3>1, <3>2, <3>3 DEF CallInv, LeaseCovers
  <2>7. CallsFit'
    BY <2>2 DEF CallInv, CallsFit
  <2>8. Addressed'
    BY <2>2, <2>4 DEF CallInv, Addressed, OnWire
  <2>9. StillHeld'
    <3>1. SUFFICES ASSUME NEW q \in Servers, worker'[q].at \in OnWire
                   PROVE  \/ Holds(q, worker[q].job)'
                          \/ Settled(worker[q].job)'
                          \/ worker'[q].to.rev < rev'
      BY DEF StillHeld
    <3>0. worker'[q] = worker[q] /\ worker[q].at \in OnWire /\ worker'[q].at # "idle"
      BY <2>4, <3>1 DEF OnWire
    <3>2. Holds(q, worker[q].job) \/ Settled(worker[q].job) \/ worker[q].to.rev < rev
      BY <3>0 DEF CallInv, StillHeld
    <3>3. CASE worker[q].job = d
      <4>1. ~Holds(q, d) /\ ~Settled(d)
        BY <2>3, <2>4, <3>0, <3>3 DEF Settled, Pending
      <4>2. QED
        BY <3>0, <3>2, <3>3, <4>1
    <3>4. CASE worker[q].job # d
      BY <2>4, <3>0, <3>2, <3>4 DEF Holds, Settled, Pending
    <3>5. QED
      BY <3>3, <3>4
  <2>10. OneCallPerRecipient'
    BY <2>2 DEF CallInv, OneCallPerRecipient, OnWire
  <2>11. QED
    BY <2>5, <2>6, <2>7, <2>8, <2>9, <2>10 DEF CallInv
<1>4. QED
  BY <1>2, <1>3

LEMMA ClaimCalls ==
    ASSUME Typing, CallInv, NEW p \in Servers, NEW d \in Deliveries, Claim(p, d)
    PROVE  CallInv'
<1>1. PICK w : w = [IdleWorker EXCEPT !.at = "claimed", !.job = d, !.left = AttemptTimeout]
  OBVIOUS
<1>2. /\ w.at = "claimed" /\ w.job = d /\ w.left = AttemptTimeout
      /\ worker'[p] = w
      /\ \A q \in Servers : q # p => worker'[q] = worker[q]
  BY <1>1 DEF Claim, IdleWorker, Typing, TypeOK
<1>3. /\ row'[d].status = "pending" /\ row'[d].claim = p /\ row'[d].lease = Lease
      /\ \A e \in Deliveries : e # d => row'[e] = row[e]
      /\ chat' = chat /\ rev' = rev /\ Bound' = Bound
  BY DEF Claim, Due, Pending, Row, Bound, Typing, TypeOK
<1>4. ASSUME NEW q \in Servers, q # p, worker[q].at \in UnderLease
      PROVE  /\ worker[q].job \in Deliveries /\ worker[q].at # "idle"
             /\ ~Holds(q, d)'
             /\ worker[q].job = d => ~Holds(q, d)
             /\ worker[q].job # d => row'[worker[q].job] = row[worker[q].job]
  <2>1. worker[q].at # "idle" /\ worker[q].job \in Deliveries
    BY <1>4, TimesAreNumbers DEF UnderLease, OnWire
  <2>2. ~Holds(q, d)'
    BY <1>3, <1>4 DEF Holds
  <2>3. worker[q].job = d => ~Holds(q, d)
    <3>1. SUFFICES ASSUME worker[q].job = d, Holds(q, d) PROVE FALSE
      OBVIOUS
    <3>2. row[d].lease > 0
      BY <1>4, <3>1, LeaseLives DEF CallInv
    <3>3. row[d].claim = q /\ q # None
      BY <3>1, TimesAreNumbers DEF Holds
    <3>4. row[d].claim = None \/ row[d].lease = 0
      BY DEF Claim, Due
    <3>5. QED
      BY <3>2, <3>3, <3>4
  <2>4. QED
    BY <1>3, <2>1, <2>2, <2>3
<1>5. JobsExist'
  <2>1. \A q \in Servers : q # p /\ worker[q].at # "idle" => worker[q].job \in Deliveries
    BY TimesAreNumbers
  <2>2. QED
    BY <1>2, <1>3, <2>1 DEF CallInv, JobsExist
<1>6. LeaseCovers'
  <2>1. SUFFICES ASSUME NEW q \in Servers, worker'[q].at \in UnderLease,
                        Holds(q, worker[q].job)' \/ q = p
                 PROVE  row'[worker'[q].job].lease + AttemptTimeout
                            >= worker'[q].left + Lease
    BY DEF LeaseCovers
  <2>2. CASE q = p
    BY <1>2, <1>3, <2>2, TimesAreNumbers
  <2>3. CASE q # p
    <3>1. worker'[q] = worker[q] /\ Holds(q, worker[q].job)'
      BY <1>2, <2>1, <2>3
    <3>2. worker[q].job # d /\ row'[worker[q].job] = row[worker[q].job]
      BY <1>4, <2>1, <2>3, <3>1
    <3>3. Holds(q, worker[q].job)
      BY <3>1, <3>2 DEF Holds, Pending
    <3>4. QED
      BY <2>1, <3>1, <3>2, <3>3 DEF CallInv, LeaseCovers
  <2>4. QED
    BY <2>2, <2>3
<1>7. \A q \in Servers : worker'[q].at \in OnWire => q # p /\ worker'[q] = worker[q]
  BY <1>2 DEF OnWire
<1>8. CallsFit' /\ Addressed' /\ OneCallPerRecipient'
  <2>1. CallsFit'
    BY <1>7 DEF OnWire, CallInv, CallsFit
  <2>2. Addressed'
    BY <1>3, <1>7 DEF CallInv, Addressed
  <2>3. OneCallPerRecipient'
    BY <1>7 DEF CallInv, OneCallPerRecipient
  <2>4. QED
    BY <2>1, <2>2, <2>3
<1>9. StillHeld'
  <2>1. SUFFICES ASSUME NEW q \in Servers, worker'[q].at \in OnWire
                 PROVE  \/ Holds(q, worker[q].job)'
                        \/ Settled(worker[q].job)'
                        \/ worker[q].to.rev < rev
    BY <1>3, <1>7 DEF StillHeld
  <2>2. q # p /\ worker[q].at \in UnderLease /\ worker[q].at \in OnWire
    BY <1>7, <2>1 DEF UnderLease
  <2>3. Holds(q, worker[q].job) \/ Settled(worker[q].job) \/ worker[q].to.rev < rev
    BY <2>2 DEF CallInv, StillHeld
  <2>4. CASE worker[q].job = d
    <3>1. ~Holds(q, d) /\ ~Settled(d)
      BY <1>4, <2>2, <2>4 DEF Claim, Due, Pending, Settled
    <3>2. QED
      BY <2>3, <2>4, <3>1
  <2>5. CASE worker[q].job # d
    <3>1. row'[worker[q].job] = row[worker[q].job] /\ worker'[q] = worker[q]
      BY <1>4, <1>7, <2>1, <2>2, <2>5
    <3>2. /\ Holds(q, worker[q].job) => Holds(q, worker[q].job)'
          /\ Settled(worker[q].job) => Settled(worker[q].job)'
      BY <3>1 DEF Holds, Settled, Pending
    <3>3. QED
      BY <2>3, <3>2
  <2>6. QED
    BY <2>4, <2>5
<1>10. QED
  BY <1>5, <1>6, <1>8, <1>9 DEF CallInv

LEMMA AuthorizeCalls ==
    ASSUME Typing, CallInv, NEW p \in Servers, Authorize(p)
    PROVE  CallInv'
<1>1. PICK d \in Deliveries : d = worker[p].job
  BY DEF Authorize, Typing, WorkersBusy
<1>2. PICK w : /\ worker' = [worker EXCEPT ![p] = w]
               /\ w.at = "authorized" /\ w.job = d /\ w.left = worker[p].left
               /\ w.to = Bound
  <2>1. PICK span \in 1..PermitSpan :
           worker' = [worker EXCEPT ![p].at = "authorized", ![p].to = Bound,
                                    ![p].clock = AtMost(@, span)]
    BY DEF Authorize
  <2>2. PICK w : w = [worker[p] EXCEPT !.at = "authorized", !.to = Bound,
                                       !.clock = AtMost(@, span)]
    OBVIOUS
  <2>3. worker' = [worker EXCEPT ![p] = w]
    BY <2>1, <2>2 DEF Typing, TypeOK
  <2>4. /\ w.at = "authorized" /\ w.job = d /\ w.left = worker[p].left
        /\ w.to = Bound
    BY <1>1, <2>2 DEF Typing, TypeOK, Worker
  <2>5. QED
    BY <2>3, <2>4
<1>3. /\ worker'[p] = w
      /\ \A q \in Servers : q # p => worker'[q] = worker[q]
      /\ Holds(p, d) /\ worker[p].at = "begun"
      /\ Bound' = Bound /\ rev' = rev
  BY <1>1, <1>2 DEF Authorize, Authorizable, Bound, Typing, TypeOK
<1>4. Bound \in Intent /\ Bound.rev = rev
  BY <1>3 DEF Holds, Pending, Bound, Intent, Typing, TypeOK, RowsNeedBinding
<1>5. \A e \in Deliveries :
          /\ row'[e].status = row[e].status
          /\ row'[e].claim = row[e].claim
          /\ row'[e].lease = row[e].lease
  <2>1. row' = row \/ row' = [row EXCEPT ![d] = [row[d] EXCEPT !.active = NextRevision(d)]]
    BY <1>1 DEF Authorize, ReuseIntent, InsertIntent, Typing, TypeOK
  <2>2. row \in [Deliveries -> Row]
    BY DEF Typing, TypeOK
  <2>3. QED
    BY <2>1, <2>2 DEF Row
<1>6. \A e \in Deliveries : /\ \A q \in Servers : Holds(q, e)' <=> Holds(q, e)
                            /\ Settled(e)' <=> Settled(e)
  BY <1>5 DEF Holds, Settled, Pending
<1>7. \A q \in Servers : worker[q].at \in UnderLease => worker[q].job \in Deliveries
  BY TimesAreNumbers DEF UnderLease, OnWire
<1>8. OnWire \subseteq UnderLease /\ "begun" \in UnderLease
  BY DEF UnderLease, OnWire
<1>9. JobsExist'
  <2>1. \A q \in Servers : worker[q].at # "idle" => worker[q].job \in Deliveries
    BY TimesAreNumbers
  <2>2. QED
    BY <1>1, <1>2, <1>3, <1>5, <2>1 DEF CallInv, JobsExist
<1>10. LeaseCovers'
  BY <1>1, <1>2, <1>3, <1>5, <1>6, <1>7, <1>8 DEF CallInv, LeaseCovers
<1>11. CallsFit'
  BY <1>2, <1>3 DEF CallInv, CallsFit
<1>12. Addressed'
  BY <1>2, <1>3, <1>4, TimesAreNumbers DEF CallInv, Addressed
<1>13. StillHeld'
  <2>1. SUFFICES ASSUME NEW q \in Servers, worker'[q].at \in OnWire
                 PROVE  \/ (Holds(q, worker[q].job))'
                        \/ (Settled(worker[q].job))'
                        \/ worker'[q].to.rev < rev
    BY <1>3 DEF StillHeld
  <2>2. CASE q = p
    <3>1. worker'[q].job = d /\ Holds(q, d)'
      BY <1>2, <1>3, <1>6, <2>2
    <3>2. QED
      BY <3>1 DEF Holds
  <2>3. CASE q # p
    <3>1. worker'[q] = worker[q] /\ worker[q].job \in Deliveries
      BY <1>3, <1>7, <1>8, <2>1, <2>3
    <3>2. Holds(q, worker[q].job) \/ Settled(worker[q].job) \/ worker[q].to.rev < rev
      BY <2>1, <3>1 DEF CallInv, StillHeld
    <3>3. QED
      BY <1>6, <3>1, <3>2
  <2>4. QED
    BY <2>2, <2>3
<1>14. ASSUME NEW q \in Servers, q # p, worker[q].at \in OnWire, worker[q].job = d
       PROVE  worker[q].to # Bound
  <2>1. ~Holds(q, d) /\ ~Settled(d)
    BY <1>3, <1>14 DEF Holds, Settled, Pending
  <2>2. worker[q].to.rev < rev
    BY <1>14, <2>1 DEF CallInv, StillHeld
  <2>3. QED
    BY <1>4, <2>2, TimesAreNumbers
<1>15. OneCallPerRecipient'
  BY <1>2, <1>3, <1>14 DEF CallInv, OneCallPerRecipient
<1>16. QED
  BY <1>9, <1>10, <1>11, <1>12, <1>13, <1>15 DEF CallInv

LEMMA EnqueueCalls ==
    ASSUME Typing, CallInv, NEW d \in Deliveries, Enqueue(d)
    PROVE  CallInv'
<1>1. \A q \in Servers : worker[q].at # "idle" => worker[q].job \in Deliveries \ {d}
  BY TimesAreNumbers DEF Enqueue, CallInv, JobsExist
<1>2. \A e \in Deliveries \ {d} : row'[e] = row[e]
  BY DEF Enqueue, Typing, TypeOK
<1>3. UNCHANGED <<chat, rev, worker>> /\ Bound' = Bound
  BY DEF Enqueue, Bound
<1>4. \A q \in Servers : worker[q].at \in UnderLease => worker[q].at # "idle"
  BY DEF UnderLease, OnWire
<1>5. OnWire \subseteq UnderLease
  BY DEF UnderLease
<1>6. JobsExist' /\ CallsFit' /\ Addressed' /\ OneCallPerRecipient'
  BY <1>1, <1>2, <1>3
  DEF CallInv, JobsExist, CallsFit, Addressed, OneCallPerRecipient
<1>7. LeaseCovers'
  BY <1>1, <1>2, <1>3, <1>4 DEF CallInv, LeaseCovers, Holds, Pending
<1>8. StillHeld'
  BY <1>1, <1>2, <1>3, <1>4, <1>5 DEF CallInv, StillHeld, Holds, Settled, Pending
<1>9. QED
  BY <1>6, <1>7, <1>8 DEF CallInv

LEMMA RebindCalls ==
    ASSUME Typing, CallInv, NEW p \in Servers, NEW c \in Chats, Rebind(p, c)
    PROVE  CallInv'
<1>1. PICK ack \in Acks : row[ack].status = "absent" /\ row' = ReboundRows(chat # c, ack)
  BY DEF Rebind
<1>2. UNCHANGED worker
  BY DEF Rebind
<1>3. ASSUME NEW q \in Servers, worker[q].at # "idle"
      PROVE  /\ worker[q].job \in Deliveries /\ worker[q].job # ack
             /\ row[worker[q].job] \in Row /\ row[worker[q].job].status # "absent"
             /\ chat # None
  BY <1>1, <1>3, TimesAreNumbers
  DEF CallInv, JobsExist, Typing, TypeOK, RowsNeedBinding
<1>4. rev' >= rev /\ (rev' = rev /\ chat # None => Bound' = Bound)
  BY TimesAreNumbers DEF Rebind, NextBindingRevision, Bound
<1>5. ASSUME NEW q \in Servers, worker[q].at # "idle", NEW d \in Deliveries,
             d = worker[q].job
      PROVE  \/ row'[d] = row[d]
             \/ row'[d].status = "superseded" /\ row'[d].claim = None
             \/ row'[d].status = "pending" /\ row'[d].claim = None /\ rev' = rev + 1
  <2>1. d # ack /\ row[d] \in Row /\ chat # None
    BY <1>3, <1>5
  <2>2. CASE ~Pending(d)
    BY <1>1, <2>1, <2>2 DEF ReboundRows
  <2>3. CASE Pending(d) /\ d \in Acks
    <3>1. row'[d] = [Unclaimed(row[d]) EXCEPT !.status = "superseded"]
      BY <1>1, <2>1, <2>3 DEF ReboundRows
    <3>2. QED
      BY <2>1, <3>1 DEF Unclaimed, Row
  <2>4. CASE Pending(d) /\ d \notin Acks /\ chat # c
    <3>1. row'[d] = Rewound(row[d])
      BY <1>1, <2>1, <2>4 DEF ReboundRows
    <3>2. row'[d].status = "pending" /\ row'[d].claim = None
      BY <2>1, <2>4, <3>1 DEF Rewound, Unclaimed, Row, Pending
    <3>3. rev' = rev + 1
      BY <2>1, <2>4 DEF Rebind, NextBindingRevision
    <3>4. QED
      BY <3>2, <3>3
  <2>5. CASE Pending(d) /\ d \notin Acks /\ chat = c
    BY <1>1, <2>1, <2>5 DEF ReboundRows
  <2>6. QED
    BY <2>2, <2>3, <2>4, <2>5
<1>6. "idle" \notin UnderLease /\ OnWire \subseteq UnderLease
  BY DEF UnderLease, OnWire
<1>7. JobsExist'
  BY <1>2, <1>3, <1>5 DEF CallInv, JobsExist
<1>8. LeaseCovers'
  <2>1. SUFFICES ASSUME NEW q \in Servers, worker[q].at \in UnderLease,
                        Holds(q, worker[q].job)'
                 PROVE  row'[worker[q].job].lease + AttemptTimeout
                            >= worker[q].left + Lease
    BY <1>2 DEF LeaseCovers
  <2>2. worker[q].at # "idle" /\ q # None
    BY <1>6, <2>1, TimesAreNumbers
  <2>3. row'[worker[q].job].claim = q
    BY <1>2, <2>1 DEF Holds
  <2>4. row'[worker[q].job] = row[worker[q].job]
    BY <1>3, <1>5, <2>2, <2>3
  <2>5. Holds(q, worker[q].job)
    BY <1>2, <2>1, <2>4 DEF Holds, Pending
  <2>6. QED
    BY <2>1, <2>4, <2>5 DEF CallInv, LeaseCovers
<1>9. CallsFit' /\ OneCallPerRecipient'
  BY <1>2 DEF CallInv, CallsFit, OneCallPerRecipient
<1>10. Addressed'
  <2>1. SUFFICES ASSUME NEW q \in Servers, worker[q].at \in OnWire
                 PROVE  /\ worker[q].to \in Intent /\ worker[q].to.rev <= rev'
                        /\ worker[q].to.rev = rev' => worker[q].to = Bound'
    BY <1>2 DEF Addressed
  <2>2. /\ worker[q].to \in Intent /\ worker[q].to.rev <= rev
        /\ worker[q].to.rev = rev => worker[q].to = Bound
    BY <2>1 DEF CallInv, Addressed
  <2>3. chat # None /\ worker[q].to.rev \in Nat
    BY <1>3, <1>6, <2>1, <2>2 DEF Intent
  <2>4. rev \in Nat /\ rev' \in Nat
    BY TimesAreNumbers DEF Rebind, NextBindingRevision
  <2>5. QED
    BY <1>4, <2>2, <2>3, <2>4
<1>11. StillHeld'
  <2>1. SUFFICES ASSUME NEW q \in Servers, worker[q].at \in OnWire
                 PROVE  \/ (Holds(q, worker[q].job))'
                        \/ (Settled(worker[q].job))'
                        \/ worker[q].to.rev < rev'
    BY <1>2 DEF StillHeld
  <2>2. PICK d \in Deliveries : d = worker[q].job /\ worker[q].at # "idle"
    BY <1>3, <1>6, <2>1
  <2>3. Holds(q, d) \/ Settled(d) \/ worker[q].to.rev < rev
    BY <2>1, <2>2 DEF CallInv, StillHeld
  <2>4. worker[q].to.rev \in Nat /\ worker[q].to.rev <= rev /\ rev \in Nat
    BY <2>1, TimesAreNumbers DEF CallInv, Addressed, Intent
  <2>5. CASE row'[d] = row[d]
    <3>1. /\ Holds(q, d) => (Holds(q, worker[q].job))'
          /\ Settled(d) => (Settled(worker[q].job))'
      BY <1>2, <2>2, <2>5 DEF Holds, Settled, Pending
    <3>2. worker[q].to.rev < rev => worker[q].to.rev < rev'
      BY <1>4, <2>4, TimesAreNumbers DEF Rebind, NextBindingRevision
    <3>3. QED
      BY <2>3, <3>1, <3>2
  <2>6. CASE row'[d].status = "superseded"
    BY <1>2, <2>2, <2>6 DEF Settled
  <2>7. CASE rev' = rev + 1
    BY <2>4, <2>7
  <2>8. QED
    BY <1>5, <2>2, <2>5, <2>6, <2>7
<1>12. QED
  BY <1>7, <1>8, <1>9, <1>10, <1>11 DEF CallInv

LEMMA TickCalls ==
    ASSUME Typing, CallInv, Tick
    PROVE  CallInv'
<1>1. ASSUME NEW d \in Deliveries
      PROVE  /\ row'[d].status = row[d].status /\ row'[d].claim = row[d].claim
             /\ row'[d].lease = Less1(row[d].lease)
  BY DEF Tick, Row, Typing, TypeOK
<1>2. ASSUME NEW q \in Servers
      PROVE  /\ worker'[q].at = worker[q].at /\ worker'[q].job = worker[q].job
             /\ worker'[q].to = worker[q].to
             /\ worker'[q].left = Less1(worker[q].left)
             /\ worker[q].at = "sending" => worker'[q].clock = Less1(worker[q].clock)
  <2>1. worker[q] \in Worker /\ worker'[q] = Older(worker[q])
    BY DEF Tick, Typing, TypeOK
  <2>2. PICK clock : clock = IF worker[q].at \in CountsDown THEN Less1(worker[q].clock)
                             ELSE worker[q].clock
    OBVIOUS
  <2>3. worker'[q] = [worker[q] EXCEPT !.left = Less1(@), !.clock = clock]
    BY <2>1, <2>2 DEF Older, Worker
  <2>4. worker[q].at = "sending" => clock = Less1(worker[q].clock)
    BY <2>2 DEF CountsDown
  <2>5. QED
    BY <2>1, <2>3, <2>4 DEF Worker
<1>3. UNCHANGED <<chat, rev>> /\ Bound' = Bound
  BY DEF Tick, Bound
<1>4. \A q \in Servers : worker[q].at # "idle" => worker[q].job \in Deliveries
  BY TimesAreNumbers
<1>5. "idle" \notin UnderLease /\ OnWire \subseteq UnderLease
  BY DEF UnderLease, OnWire
<1>6. JobsExist'
  BY <1>1, <1>2, <1>4 DEF CallInv, JobsExist
<1>7. CallsFit'
  <2>1. SUFFICES ASSUME NEW q \in Servers, worker[q].at = "sending"
                 PROVE  Less1(worker[q].clock) <= Less1(worker[q].left)
    BY <1>2 DEF CallsFit
  <2>2. worker[q].clock <= worker[q].left
    BY <2>1 DEF CallInv, CallsFit
  <2>3. QED
    BY <2>2, TimesAreNumbers DEF Less1
<1>8. LeaseCovers'
  <2>1. SUFFICES ASSUME NEW q \in Servers, worker[q].at \in UnderLease,
                        (Holds(q, worker[q].job))'
                 PROVE  row'[worker[q].job].lease + AttemptTimeout
                            >= Less1(worker[q].left) + Lease
    BY <1>2 DEF LeaseCovers
  <2>2. PICK d \in Deliveries : d = worker[q].job
    BY <1>4, <1>5, <2>1
  <2>3. Holds(q, d)
    BY <1>1, <1>2, <2>1, <2>2 DEF Holds, Pending
  <2>4. row[d].lease + AttemptTimeout >= worker[q].left + Lease
    BY <2>1, <2>2, <2>3 DEF CallInv, LeaseCovers
  <2>5. worker[q].left > 0
    <3>1. CASE worker[q].at = "sending"
      <4>1. worker[q].clock > 0 /\ worker[q].clock <= worker[q].left
        BY <3>1 DEF Tick, MayWait, CallInv, CallsFit
      <4>2. QED
        BY <4>1, TimesAreNumbers
    <3>2. CASE worker[q].at # "sending"
      BY <2>1, <3>2 DEF Tick, MayWait, PreCall, UnderLease, OnWire
    <3>3. QED
      BY <3>1, <3>2
  <2>6. row'[d].lease = Less1(row[d].lease)
    BY <1>1
  <2>7. QED
    BY <2>2, <2>4, <2>5, <2>6, TimesAreNumbers DEF Less1
<1>9. Addressed' /\ OneCallPerRecipient'
  BY <1>2, <1>3 DEF CallInv, Addressed, OneCallPerRecipient
<1>10. StillHeld'
  <2>1. SUFFICES ASSUME NEW q \in Servers, worker[q].at \in OnWire
                 PROVE  \/ (Holds(q, worker[q].job))'
                        \/ (Settled(worker[q].job))'
                        \/ worker[q].to.rev < rev
    BY <1>2, <1>3 DEF StillHeld
  <2>2. PICK d \in Deliveries : d = worker[q].job
    BY <1>4, <1>5, <2>1
  <2>3. Holds(q, d) \/ Settled(d) \/ worker[q].to.rev < rev
    BY <2>1, <2>2 DEF CallInv, StillHeld
  <2>4. worker'[q].job = d /\ row'[d].status = row[d].status /\ row'[d].claim = row[d].claim
    BY <1>1, <1>2, <2>2
  <2>5. QED
    BY <2>3, <2>4 DEF Holds, Settled, Pending
<1>11. QED
  BY <1>6, <1>7, <1>8, <1>9, <1>10 DEF CallInv

\* The remaining steps of a sender go onward.
LEMMA OnwardCalls ==
    ASSUME Typing, CallInv, NEW p \in Servers,
           \/ Reload(p) \/ AuthorizeFails(p) \/ ReturnPermit(p)
           \/ AssertCallable(p) \/ StartCall(p)
           \/ Answer(p) \/ SettlePermit(p) \/ SettleLost(p)
           \/ FinishLost(p) \/ GiveUp(p) \/ Crash(p)
    PROVE  CallInv'
<1>1. UNCHANGED <<row, chat, rev>>
  BY DEF Reload, AuthorizeFails, ReturnPermit, AssertCallable, StartCall, Answer,
         AnswerSent, AnswerRefused, AnswerLost, AnswerInvalidAuth, AnswerCanceled,
         SettlePermit, SettleLost, FinishLost, GiveUp, Crash, dbVars
<1>2. worker[p] \in Worker /\ worker \in [Servers -> Worker]
  BY DEF Typing, TypeOK
<1>3. Onward(worker[p], IdleWorker)
  BY IdleType DEF Onward
<1>4. ASSUME worker' = [worker EXCEPT ![p] = IdleWorker]
      PROVE  CallInv'
  BY <1>1, <1>3, <1>4, SenderMoves, IdleType
<1>5. ASSUME NEW w, worker' = [worker EXCEPT ![p] = w], Onward(worker[p], w)
      PROVE  CallInv'
  <2>1. Typing'
    BY AbandonTyping, AnswerTyping, ReloadTyping, SettleTyping, StartCallTyping,
       WaitingTyping
  <2>2. w \in Worker
    BY <1>2, <1>5, <2>1 DEF Typing, TypeOK
  <2>3. QED
    BY <1>1, <1>5, <2>2, SenderMoves
<1>6. CASE Reload(p)
  <2>1. PICK w : w = [worker[p] EXCEPT !.at = "begun", !.clock = PermitSpan]
    OBVIOUS
  <2>2. Onward(worker[p], w)
    BY <1>2, <1>6, <2>1 DEF Reload, Onward, Worker, UnderLease, OnWire
  <2>3. worker' = [worker EXCEPT ![p] = w] \/ worker' = [worker EXCEPT ![p] = IdleWorker]
    BY <1>6, <2>1 DEF Reload
  <2>4. QED
    BY <1>4, <1>5, <2>2, <2>3
<1>7. ASSUME NEW stage \in {"releasing", "permitted", "callable"}, Goto(p, stage),
             worker[p].at # "idle",
             stage = "permitted" => worker[p].at = "authorized",
             stage = "callable" => worker[p].at = "permitted"
      PROVE  CallInv'
  <2>1. PICK w : w = [worker[p] EXCEPT !.at = stage]
    OBVIOUS
  <2>2. Onward(worker[p], w)
    BY <1>2, <1>7, <2>1 DEF Onward, Worker, UnderLease, OnWire
  <2>3. worker' = [worker EXCEPT ![p] = w]
    BY <1>2, <1>7, <2>1 DEF Goto
  <2>4. QED
    BY <1>5, <2>2, <2>3
<1>8. CASE AuthorizeFails(p) \/ ReturnPermit(p) \/ AssertCallable(p) \/ GiveUp(p)
  BY <1>7, <1>8 DEF AuthorizeFails, ReturnPermit, AssertCallable, GiveUp
<1>9. CASE StartCall(p)
  <2>1. PICK clock \in Nat : /\ clock = AtMost(TelegramTimeout, worker[p].clock)
                             /\ clock <= TelegramTimeout
    BY <1>2, ConstantsAssumption DEF AtMost, Worker
  <2>2. PICK w : w = IF worker[p].left >= Reserve
                     THEN [worker[p] EXCEPT !.at = "sending", !.clock = clock]
                     ELSE [worker[p] EXCEPT !.at = "releasing"]
    OBVIOUS
  <2>3. worker[p].left >= Reserve => clock <= worker[p].left
    <3>1. worker[p].left \in Nat
      BY TimesAreNumbers
    <3>2. TelegramTimeout \in Nat /\ ResultMargin \in Nat
      BY ConstantsAssumption
    <3>3. QED
      BY <2>1, <3>1, <3>2 DEF Reserve
  <2>4. Onward(worker[p], w)
    BY <1>2, <1>9, <2>2, <2>3 DEF StartCall, Onward, Worker, UnderLease, OnWire
  <2>5. worker' = [worker EXCEPT ![p] = w]
    BY <1>9, <2>1, <2>2 DEF StartCall
  <2>6. QED
    BY <1>5, <2>4, <2>5
<1>10. CASE Answer(p)
  <2>1. PICK result : Answered(p, result) /\ worker[p].at = "sending"
    BY <1>10 DEF Answer, AnswerSent, AnswerRefused, AnswerLost, AnswerInvalidAuth,
                 AnswerCanceled
  <2>2. PICK w : w = [worker[p] EXCEPT !.at = "settling", !.result = result,
                                       !.clock = CleanupTimeout]
    OBVIOUS
  <2>3. Onward(worker[p], w)
    BY <1>2, <2>1, <2>2 DEF Onward, Worker, UnderLease, OnWire
  <2>4. worker' = [worker EXCEPT ![p] = w]
    BY <1>2, <2>1, <2>2 DEF Answered
  <2>5. QED
    BY <1>5, <2>3, <2>4
<1>11. CASE SettlePermit(p) \/ SettleLost(p)
  <2>1. PICK w : w = [worker[p] EXCEPT !.at = "finishing"]
    OBVIOUS
  <2>2. Onward(worker[p], w)
    BY <1>2, <1>11, <2>1 DEF SettlePermit, SettleLost, Onward, Worker, UnderLease, OnWire
  <2>3. worker' = [worker EXCEPT ![p] = w] \/ worker' = [worker EXCEPT ![p] = IdleWorker]
    BY <1>11, <2>1 DEF SettlePermit, SettleLost
  <2>4. QED
    BY <1>4, <1>5, <2>2, <2>3
<1>12. CASE FinishLost(p) \/ Crash(p)
  BY <1>4, <1>12 DEF FinishLost, Crash
<1>13. QED
  BY <1>6, <1>8, <1>9, <1>10, <1>11, <1>12

LEMMA EndingCalls ==
    ASSUME Typing, CallInv, NEW p \in Servers, Finish(p) \/ Release(p)
    PROVE  CallInv'
<1>1. PICK d \in Deliveries : d = worker[p].job /\ worker[p].at # "idle"
  BY DEF Finish, Release, Typing, WorkersBusy
<1>2. row \in [Deliveries -> Row] /\ row[d] \in Row
  BY DEF Typing, TypeOK
<1>3. UNCHANGED <<chat, rev>> /\ worker' = [worker EXCEPT ![p] = IdleWorker]
  BY DEF Finish, Release
<1>4. CASE row' = row
  <2>1. Onward(worker[p], IdleWorker)
    BY IdleType DEF Onward
  <2>2. UNCHANGED <<row, chat, rev>>
    BY <1>3, <1>4
  <2>3. QED
    BY <1>3, <2>1, <2>2, SenderMoves, IdleType
<1>5. ASSUME NEW r, row' = [row EXCEPT ![d] = r], Holds(p, d),
             r.status # "absent", r.claim = None
      PROVE  CallInv'
  <2>1. row' = [row EXCEPT ![worker[p].job] =
                  IF Holds(p, worker[p].job) THEN r ELSE row[worker[p].job]]
    BY <1>1, <1>5
  <2>2. QED
    BY <1>1, <1>3, <1>5, <2>1, SenderEnds
<1>6. CASE Finish(p)
  <2>1. PICK after \in RetryAfters :
           row' = [row EXCEPT ![d] =
                IF MayFinish(p, d) THEN Finished(row[d], worker[p].result, after)
                ELSE row[d]]
    BY <1>1, <1>6 DEF Finish
  <2>2. CASE MayFinish(p, d)
    <3>1. PICK r : r = Finished(row[d], worker[p].result, after)
      OBVIOUS
    <3>2. /\ row[d].status = "pending" /\ Holds(p, d)
          /\ worker[p].result \in {"sent", "error", "auth"}
      BY <1>6, <2>2 DEF MayFinish, Holds, Pending, Finish, Typing, WorkersBusy
    <3>3. r.status # "absent"
      BY <1>2, <3>1, <3>2, FinishedType DEF Typing, AttemptsLeft, Pending
    <3>4. r.claim = None
      BY <1>2, <3>1, <3>2 DEF Finished, Failed, Unclaimed, Row
    <3>5. QED
      BY <1>5, <2>1, <2>2, <3>1, <3>2, <3>3, <3>4
  <2>3. CASE ~MayFinish(p, d)
    BY <1>2, <1>4, <2>1, <2>3
  <2>4. QED
    BY <2>2, <2>3
<1>7. CASE Release(p)
  <2>1. CASE Holds(p, d)
    <3>1. PICK r : r = [Unclaimed(row[d]) EXCEPT !.nextIn = 0]
      OBVIOUS
    <3>2. r.status # "absent" /\ r.claim = None
      BY <1>2, <2>1, <3>1 DEF Holds, Pending, Unclaimed, Row
    <3>3. row' = [row EXCEPT ![d] = r]
      BY <1>1, <1>7, <2>1, <3>1 DEF Release
    <3>4. QED
      BY <1>5, <2>1, <3>2, <3>3
  <2>2. CASE ~Holds(p, d)
    BY <1>1, <1>2, <1>4, <1>7, <2>2 DEF Release
  <2>3. QED
    BY <2>1, <2>2
<1>8. QED
  BY <1>6, <1>7

LEMMA NextCalls == Typing /\ CallInv /\ [Next]_vars => CallInv'
<1>1. SUFFICES ASSUME Typing, CallInv, [Next]_vars PROVE CallInv'
  OBVIOUS
<1>2. CASE UNCHANGED <<row, chat, rev, worker>>
  BY <1>1, <1>2 DEF CallInv, JobsExist, LeaseCovers, CallsFit, Addressed, StillHeld,
                    OneCallPerRecipient, Holds, Settled, Pending, Bound
<1>3. ASSUME NEW d \in Deliveries, Enqueue(d) PROVE CallInv'
  BY <1>1, <1>3, EnqueueCalls
<1>4. ASSUME NEW p \in Servers, NEW c \in Chats, Rebind(p, c) PROVE CallInv'
  BY <1>1, <1>4, RebindCalls
<1>5. ASSUME NEW p \in Servers, Attempt(p) PROVE CallInv'
  BY <1>1, <1>5, ClaimCalls, AuthorizeCalls, OnwardCalls, EndingCalls DEF Attempt
<1>6. ASSUME NEW p \in Servers, Answer(p) \/ Failure(p) PROVE CallInv'
  BY <1>1, <1>6, OnwardCalls DEF Failure
<1>7. CASE Tick
  BY <1>1, <1>7, TickCalls
<1>8. CASE IssueToken \/ TokenExpires
  BY <1>2, <1>8 DEF IssueToken, TokenExpires
<1>9. CASE UNCHANGED vars
  BY <1>2, <1>9 DEF vars
<1>10. QED
  BY <1>1, <1>3, <1>4, <1>5, <1>6, <1>7, <1>8, <1>9 DEF Next

\* Two servers never have calls with one delivery for one recipient at the same
\* time, whatever crashes, is slow or is lost, and however often the account
\* is bound anew: a lease longer than an attempt is all it takes.
THEOREM CallsNeverOverlap == Spec => []NoOverlappingCalls
<1>1. Init => CallInv
  <2>1. SUFFICES ASSUME Init PROVE CallInv
    OBVIOUS
  <2>2. \A p \in Servers : worker[p].at = "idle"
    BY <2>1, IdleType DEF Init
  <2>3. QED
    BY <2>2 DEF CallInv, JobsExist, LeaseCovers, CallsFit, Addressed, StillHeld,
                OneCallPerRecipient, UnderLease, OnWire
<1>2. CallInv => NoOverlappingCalls
  BY DEF CallInv, OneCallPerRecipient, NoOverlappingCalls, OnWire
<1>3. Spec => []Typing
  BY InitTyping, NextTyping, PTL DEF Spec
<1>4. QED
  BY <1>1, <1>2, <1>3, NextCalls, PTL DEF Spec

-----------------------------------------------------------------------------
(***************************************************************************)
(* One server process.  Its own gate keeps its poller's binds away from    *)
(* its sender's attempt, so from the start of a call to the writing of its *)
(* result the sender holds the claim and the binding stands.               *)
(***************************************************************************)
Answering == {"settling", "finishing"}

SoloAt(p) ==
    /\ worker[p].at \in InGate => Holds(p, worker[p].job)
    /\ worker[p].at \in OnWire => worker[p].to = Bound
    /\ worker[p].at \in Answering =>
         /\ row[worker[p].job].lease > worker[p].clock
         /\ worker[p].result = "sent" => accepted[worker[p].job] > 0

\* The message of d is known to have arrived.
Credited(d) ==
    \/ row[d].status = "sent"
    \/ \E p \in Servers : /\ worker[p].at \in Answering /\ worker[p].job = d
                          /\ worker[p].result = "sent"

FewDuplicates == \A d \in Deliveries :
    /\ accepted[d] <= faults + 1
    /\ ~Credited(d) => accepted[d] <= faults

SoloInv == FewDuplicates /\ \A p \in Servers : SoloAt(p)

\* What follows from one server p of type and invariants.
LEMMA SoloFacts ==
    ASSUME Typing, CallInv, SoloInv, NEW p \in Servers
    PROVE  /\ worker[p] \in Worker /\ worker \in [Servers -> Worker]
           /\ row \in [Deliveries -> Row] /\ accepted \in [Deliveries -> Nat] /\ faults \in Nat
           /\ SoloAt(p) /\ FewDuplicates
           /\ worker[p].at # "idle" =>
                 worker[p].job \in Deliveries /\ row[worker[p].job].status # "absent"
BY DEF Typing, TypeOK, WorkersBusy, CallInv, JobsExist, SoloInv

\* The only sender moves to w, and rows keep what SoloAt is about.
LEMMA SoloMoves ==
    ASSUME Typing, CallInv, SoloInv, NEW p \in Servers, Servers = {p},
           NEW w, worker' = [worker EXCEPT ![p] = w],
           UNCHANGED <<row, chat, rev>>,
           w.at \in InGate => Holds(p, w.job),
           w.at \in OnWire => w.to = Bound,
           w.at \in Answering => /\ row[w.job].lease > w.clock
                                 /\ w.result = "sent" => accepted'[w.job] > 0
    PROVE  \A q \in Servers : SoloAt(q)'
<1>1. worker'[p] = w
  BY SoloFacts
<1> QED
  BY <1>1 DEF SoloAt, Holds, Pending, Bound

\* Duplicates when no row changes: who stops counting as credited had a fault.
LEMMA CreditKept ==
    ASSUME Typing, CallInv, SoloInv, NEW p \in Servers, Servers = {p},
           NEW w, worker' = [worker EXCEPT ![p] = w],
           UNCHANGED <<row, accepted>>, faults' \in Nat, faults' >= faults,
           \/ faults' = faults + 1
           \/ worker[p].at \notin Answering
           \/ worker[p].result # "sent"
           \/ /\ w.at \in Answering /\ w.job = worker[p].job
              /\ w.result = worker[p].result
    PROVE  FewDuplicates'
<1>1. worker'[p] = w
  BY SoloFacts
<1>2. ASSUME NEW d \in Deliveries
      PROVE  accepted[d] <= faults' + 1 /\ (~Credited(d)' => accepted[d] <= faults')
  <2>1. accepted[d] \in Nat /\ faults \in Nat /\ accepted[d] <= faults + 1
        /\ (~Credited(d) => accepted[d] <= faults)
    BY SoloFacts DEF FewDuplicates
  <2>2. CASE faults' = faults + 1
    BY <2>1, <2>2
  <2>3. CASE faults' # faults + 1
    <3>1. Credited(d) => Credited(d)'
      BY <1>1, <2>3 DEF Credited
    <3> QED
      BY <2>1, <3>1
  <2> QED
    BY <2>2, <2>3
<1> QED
  BY <1>2 DEF FewDuplicates

\* An accepted message: of a pending row, once or with a fault.
LEMMA CreditGained ==
    ASSUME Typing, CallInv, SoloInv, NEW p \in Servers, Servers = {p},
           worker[p].at = "sending", NEW w, worker' = [worker EXCEPT ![p] = w],
           UNCHANGED row, Accept(worker[p].job), faults' \in Nat,
           \/ faults' = faults + 1
           \/ /\ faults' = faults
              /\ w.at = "settling" /\ w.job = worker[p].job /\ w.result = "sent"
    PROVE  FewDuplicates' /\ accepted'[worker[p].job] > 0
<1> DEFINE j == worker[p].job
<1>1. worker'[p] = w /\ j \in Deliveries /\ Pending(j)
  BY SoloFacts DEF SoloAt, InGate, Holds
<1>2. /\ accepted'[j] = accepted[j] + 1 /\ accepted[j] \in Nat /\ faults \in Nat
      /\ \A d \in Deliveries : d # j => accepted'[d] = accepted[d]
  BY <1>1, SoloFacts DEF Accept
<1>3. ~Credited(j)
  BY <1>1, SoloFacts DEF Credited, Pending, Answering
<1>4. accepted[j] <= faults
  BY <1>1, <1>3, SoloFacts DEF FewDuplicates
<1>5. ASSUME NEW d \in Deliveries
      PROVE  accepted'[d] <= faults' + 1 /\ (~Credited(d)' => accepted'[d] <= faults')
  <2>1. CASE d = j
    <3>1. faults' = faults => Credited(d)'
      BY <1>1, <1>2, <2>1 DEF Credited, Answering
    <3> QED
      BY <1>2, <1>4, <2>1, <3>1
  <2>2. CASE d # j
    <3>1. Credited(d) => Credited(d)'
      BY <1>1, <2>2 DEF Credited, Answering
    <3>2. accepted[d] \in Nat /\ accepted[d] <= faults + 1 /\ (~Credited(d) => accepted[d] <= faults)
      BY SoloFacts DEF FewDuplicates
    <3> QED
      BY <1>2, <2>2, <3>1, <3>2
  <2> QED
    BY <2>1, <2>2
<1> QED
  BY <1>2, <1>5 DEF FewDuplicates

-----------------------------------------------------------------------------
(* The steps of the only server. *)

LEMMA SoloEnqueue ==
    ASSUME Typing, CallInv, SoloInv, NEW d \in Deliveries, Enqueue(d)
    PROVE  SoloInv'
<1>1. \A e \in Deliveries : e # d => row'[e] = row[e]
  BY DEF Enqueue, Typing, TypeOK
<1>2. row[d].status = "absent" /\ row'[d].status = "pending"
  BY DEF Enqueue, AbsentRow, Typing, TypeOK
<1>3. UNCHANGED <<worker, accepted, faults, chat, rev>>
  BY DEF Enqueue
<1>4. ASSUME NEW p \in Servers PROVE SoloAt(p)'
  <2>1. CASE worker[p].at = "idle"
    BY <1>3, <2>1 DEF SoloAt, InGate, OnWire, Answering
  <2>2. CASE worker[p].at # "idle"
    <3>1. worker[p].job \in Deliveries \ {d} /\ SoloAt(p)
      BY <1>2, <2>2, SoloFacts
    <3> QED
      BY <1>1, <1>3, <3>1 DEF SoloAt, Holds, Pending, Bound
  <2> QED
    BY <2>1, <2>2
<1>5. FewDuplicates'
  <2>1. \A e \in Deliveries : Credited(e) => Credited(e)'
    BY <1>1, <1>2, <1>3 DEF Credited
  <2> QED
    BY <1>3, <2>1 DEF SoloInv, FewDuplicates
<1> QED
  BY <1>4, <1>5 DEF SoloInv

LEMMA SoloRebind ==
    ASSUME Typing, CallInv, SoloInv, NEW p \in Servers, Servers = {p}, NEW c \in Chats, Rebind(p, c)
    PROVE  SoloInv'
<1>1. worker[p].at \notin InGate /\ UNCHANGED <<worker, accepted, faults>>
  BY DEF Rebind, GateFree
<1>2. SoloAt(p)'
  BY <1>1 DEF SoloAt, InGate, OnWire, Answering
<1>3. ASSUME NEW d \in Deliveries, row[d].status = "sent" PROVE row'[d].status = "sent"
  BY <1>3 DEF Rebind, ReboundRows, Pending
<1>4. FewDuplicates'
  <2>1. \A d \in Deliveries : Credited(d) => Credited(d)'
    BY <1>1, <1>3 DEF Credited
  <2> QED
    BY <1>1, <2>1 DEF SoloInv, FewDuplicates
<1> QED
  BY <1>2, <1>4 DEF SoloInv

LEMMA SoloClaim ==
    ASSUME Typing, CallInv, SoloInv, NEW p \in Servers, Servers = {p}, NEW d \in Deliveries, Claim(p, d)
    PROVE  SoloInv'
<1> DEFINE w == [IdleWorker EXCEPT !.at = "claimed", !.job = d, !.left = AttemptTimeout]
<1>1. w.at = "claimed" /\ worker'[p].at = "claimed" /\ worker[p].at = "idle"
  BY SoloFacts DEF Claim, IdleWorker
<1>2. UNCHANGED <<accepted, faults>> /\ \A e \in Deliveries : row'[e].status = row[e].status
  BY SoloFacts DEF Claim, Row
<1>3. SoloAt(p)'
  BY <1>1 DEF SoloAt, InGate, OnWire, Answering
<1>4. \A e \in Deliveries : Credited(e) => Credited(e)'
  BY <1>1, <1>2 DEF Credited, Answering
<1>5. FewDuplicates'
  BY <1>2, <1>4 DEF SoloInv, FewDuplicates
<1> QED
  BY <1>3, <1>5 DEF SoloInv

LEMMA SoloReload ==
    ASSUME Typing, CallInv, SoloInv, NEW p \in Servers, Servers = {p}, Reload(p)
    PROVE  SoloInv'
<1>0. worker[p].at = "claimed" /\ worker[p] \in Worker /\ UNCHANGED <<row, chat, rev, accepted, faults>>
      /\ faults \in Nat
  BY SoloFacts DEF Reload, dbVars
<1>1. PICK w : /\ worker' = [worker EXCEPT ![p] = w]
               /\ \/ w.at = "begun" /\ w.job = worker[p].job /\ Holds(p, worker[p].job)
                  \/ w.at = "idle"
  <2>1. CASE Holds(p, worker[p].job)
    <3>1. PICK w : w = [worker[p] EXCEPT !.at = "begun", !.clock = PermitSpan]
      OBVIOUS
    <3>2. w.at = "begun" /\ w.job = worker[p].job
      BY <1>0, <3>1 DEF Worker
    <3> QED
      BY <2>1, <3>1, <3>2 DEF Reload
  <2>2. CASE ~Holds(p, worker[p].job)
    BY <2>2, IdleType DEF Reload
  <2> QED
    BY <2>1, <2>2
<1>2. \A q \in Servers : SoloAt(q)'
  BY <1>0, <1>1, SoloMoves DEF InGate, OnWire, Answering
<1>3. FewDuplicates'
  <2>1. faults' \in Nat /\ faults' >= faults /\ UNCHANGED <<row, accepted>>
        /\ worker[p].at \notin Answering
    BY <1>0 DEF Answering
  <2> QED
    BY <1>1, <2>1, CreditKept
<1> QED
  BY <1>2, <1>3 DEF SoloInv

LEMMA SoloAuthorize ==
    ASSUME Typing, CallInv, SoloInv, NEW p \in Servers, Servers = {p}, Authorize(p)
    PROVE  SoloInv'
<1> DEFINE d == worker[p].job
<1>1. /\ worker[p].at = "begun" /\ d \in Deliveries /\ UNCHANGED <<chat, rev, accepted, faults>>
      /\ worker[p] \in Worker /\ Holds(p, d)
  BY SoloFacts DEF Authorize, Authorizable
<1>2. worker'[p].at = "authorized" /\ worker'[p].job = d /\ worker'[p].to = Bound
  BY <1>1, SoloFacts DEF Authorize, Worker
<1>3. \A e \in Deliveries : row'[e].status = row[e].status /\ row'[e].claim = row[e].claim
  <2>1. CASE row' = row
    BY <2>1
  <2>2. CASE row' = [row EXCEPT ![d].active = NextRevision(d)]
    BY <1>1, <2>2, SoloFacts DEF Row
  <2> QED
    BY <2>1, <2>2 DEF Authorize, ReuseIntent, InsertIntent
<1>4. SoloAt(p)'
  BY <1>1, <1>2, <1>3 DEF SoloAt, Holds, Pending, Bound, Answering
<1>5. \A e \in Deliveries : Credited(e) => Credited(e)'
  BY <1>1, <1>3 DEF Credited, Answering
<1>6. FewDuplicates'
  BY <1>1, <1>5 DEF SoloInv, FewDuplicates
<1> QED
  BY <1>4, <1>6 DEF SoloInv

LEMMA SoloWaiting ==
    ASSUME Typing, CallInv, SoloInv, NEW p \in Servers, Servers = {p},
           AuthorizeFails(p) \/ ReturnPermit(p) \/ AssertCallable(p) \/ GiveUp(p)
    PROVE  SoloInv'
<1>1. /\ UNCHANGED <<row, chat, rev, accepted>> /\ faults \in Nat /\ worker[p] \in Worker
      /\ faults' \in Nat /\ faults' >= faults /\ SoloAt(p)
      /\ worker[p].at \notin Answering
  BY SoloFacts DEF AuthorizeFails, ReturnPermit, AssertCallable, GiveUp, Fault, dbVars, Answering
<1>2. PICK stage \in {"releasing", "permitted", "callable"} :
         /\ Goto(p, stage)
         /\ stage # "releasing" => worker[p].at \in OnWire
  BY DEF AuthorizeFails, ReturnPermit, AssertCallable, GiveUp, OnWire
<1>3. PICK w : w = [worker[p] EXCEPT !.at = stage]
  OBVIOUS
<1>4. worker' = [worker EXCEPT ![p] = w]
  BY <1>2, <1>3, SoloFacts DEF Goto
<1>5. w.at = stage /\ w.job = worker[p].job /\ w.to = worker[p].to
  BY <1>1, <1>3 DEF Worker
<1>6. \A q \in Servers : SoloAt(q)'
  BY <1>1, <1>2, <1>4, <1>5, SoloMoves DEF SoloAt, InGate, OnWire, Answering
<1>7. FewDuplicates'
  BY <1>1, <1>4, CreditKept
<1> QED
  BY <1>6, <1>7 DEF SoloInv

LEMMA SoloStartCall ==
    ASSUME Typing, CallInv, SoloInv, NEW p \in Servers, Servers = {p}, StartCall(p)
    PROVE  SoloInv'
<1>1. /\ UNCHANGED <<row, chat, rev, accepted, faults>> /\ faults \in Nat /\ worker[p] \in Worker
      /\ SoloAt(p) /\ worker[p].at = "callable" /\ worker[p].at \notin Answering
      /\ faults' \in Nat /\ faults' >= faults
  BY SoloFacts DEF StartCall, dbVars, Answering
<1>2. PICK w : w = IF worker[p].left >= Reserve
                   THEN [worker[p] EXCEPT !.at = "sending",
                                          !.clock = AtMost(TelegramTimeout, worker[p].clock)]
                   ELSE [worker[p] EXCEPT !.at = "releasing"]
  OBVIOUS
<1>3. worker' = [worker EXCEPT ![p] = w]
  BY <1>2 DEF StartCall
<1>4. w.at \in {"sending", "releasing"} /\ w.job = worker[p].job /\ w.to = worker[p].to
  BY <1>1, <1>2 DEF Worker
<1>5. \A q \in Servers : SoloAt(q)'
  <2>1. /\ w.at \in InGate => Holds(p, w.job)
        /\ w.at \in OnWire => w.to = Bound
        /\ w.at \notin Answering
    BY <1>1, <1>4 DEF SoloAt, InGate, OnWire, Answering
  <2> QED
    BY <1>1, <1>3, <2>1, SoloMoves
<1>6. FewDuplicates'
  BY <1>1, <1>3, CreditKept
<1> QED
  BY <1>5, <1>6 DEF SoloInv

\* Whatever the answer, the lease covers the writing of it.
LEMMA SoloAnswer ==
    ASSUME Typing, CallInv, SoloInv, NEW p \in Servers, Servers = {p}, Answer(p)
    PROVE  SoloInv'
<1> DEFINE j == worker[p].job
<1>1. /\ UNCHANGED <<row, chat, rev>> /\ faults \in Nat /\ worker[p] \in Worker
      /\ SoloAt(p) /\ worker[p].at = "sending" /\ worker[p].at \notin Answering
      /\ faults' \in Nat /\ faults' >= faults /\ j \in Deliveries
  <2>1. faults \in Nat /\ worker[p] \in Worker /\ SoloAt(p)
    BY SoloFacts
  <2>2. /\ UNCHANGED <<row, chat, rev>> /\ worker[p].at = "sending"
        /\ faults' = faults \/ faults' = faults + 1
    BY DEF Answer, AnswerSent, AnswerRefused, AnswerLost, AnswerInvalidAuth, AnswerCanceled, Fault, dbVars
  <2>3. j \in Deliveries
    BY <2>2, SoloFacts
  <2> QED
    BY <2>1, <2>2, <2>3 DEF Answering
<1>2. PICK result : /\ Answered(p, result)
                    /\ \/ result = "sent" /\ Accept(j) /\ faults' = faults
                       \/ result # "sent" /\ Accept(j) /\ faults' = faults + 1
                       \/ result # "sent" /\ UNCHANGED accepted
  BY DEF Answer, AnswerSent, AnswerRefused, AnswerLost, AnswerInvalidAuth, AnswerCanceled, Fault
<1>3. PICK w : w = [worker[p] EXCEPT !.at = "settling", !.result = result, !.clock = CleanupTimeout]
  OBVIOUS
<1>4. worker' = [worker EXCEPT ![p] = w]
  BY <1>2, <1>3 DEF Answered
<1>5. /\ w.at = "settling" /\ w.job = j /\ w.to = worker[p].to /\ w.result = result
      /\ w.clock = CleanupTimeout
  BY <1>1, <1>3 DEF Worker
<1>6. Holds(p, j)
  BY <1>1 DEF SoloAt, InGate
<1>7. row[j].lease > CleanupTimeout
  <2>1. row[j].lease + AttemptTimeout >= worker[p].left + Lease
    BY <1>1, <1>6 DEF CallInv, LeaseCovers, UnderLease, OnWire
  <2>2. row[j].lease \in Nat /\ worker[p].left \in Nat
    BY <1>1, TimesAreNumbers
  <2>3. /\ AttemptTimeout \in Nat /\ Lease \in Nat /\ CleanupTimeout \in Nat
        /\ AttemptTimeout + CleanupTimeout < Lease
    BY ConstantsAssumption
  <2> QED
    BY <2>1, <2>2, <2>3
<1>8. FewDuplicates' /\ (result = "sent" => accepted'[j] > 0)
  <2>1. CASE Accept(j) /\ (faults' = faults + 1 \/ (faults' = faults /\ result = "sent"))
    <3>1. \/ faults' = faults + 1
          \/ /\ faults' = faults
             /\ w.at = "settling" /\ w.job = worker[p].job /\ w.result = "sent"
      BY <1>5, <2>1
    <3>2. UNCHANGED row
      BY <1>1
    <3> QED
      BY <1>1, <1>4, <2>1, <3>1, <3>2, CreditGained
  <2>2. CASE UNCHANGED accepted /\ result # "sent"
    BY <1>1, <1>4, <2>2, CreditKept
  <2> QED
    BY <1>2, <2>1, <2>2
<1>9. \A q \in Servers : SoloAt(q)'
  BY <1>1, <1>4, <1>5, <1>6, <1>7, <1>8, SoloMoves DEF InGate, OnWire, Answering
<1> QED
  BY <1>8, <1>9 DEF SoloInv

LEMMA SoloSettle ==
    ASSUME Typing, CallInv, SoloInv, NEW p \in Servers, Servers = {p}, SettlePermit(p) \/ SettleLost(p)
    PROVE  SoloInv'
<1>1. /\ UNCHANGED <<row, chat, rev, accepted>> /\ faults \in Nat /\ worker[p] \in Worker
      /\ SoloAt(p) /\ worker[p].at = "settling" /\ faults' \in Nat /\ faults' >= faults
  BY SoloFacts DEF SettlePermit, SettleLost, Fault, dbVars
<1>2. PICK w : w = IF worker[p].result = "canceled" THEN IdleWorker
                   ELSE [worker[p] EXCEPT !.at = "finishing"]
  OBVIOUS
<1>3. worker' = [worker EXCEPT ![p] = w]
  BY <1>2 DEF SettlePermit, SettleLost
<1>4. \/ w.at = "idle" /\ worker[p].result # "sent"
      \/ /\ w.at = "finishing" /\ w.job = worker[p].job /\ w.result = worker[p].result
         /\ w.clock = worker[p].clock
  BY <1>1, <1>2, IdleType DEF Worker
<1>5. \A q \in Servers : SoloAt(q)'
  BY <1>1, <1>3, <1>4, SoloMoves DEF SoloAt, InGate, OnWire, Answering
<1>6. FewDuplicates'
  BY <1>1, <1>3, <1>4, CreditKept DEF Answering
<1> QED
  BY <1>5, <1>6 DEF SoloInv

LEMMA SoloAbandon ==
    ASSUME Typing, CallInv, SoloInv, NEW p \in Servers, Servers = {p}, FinishLost(p) \/ Crash(p)
    PROVE  SoloInv'
<1>1. /\ UNCHANGED <<row, chat, rev>> /\ faults \in Nat /\ worker' = [worker EXCEPT ![p] = IdleWorker]
      /\ faults' = faults + 1 /\ faults' \in Nat /\ faults' >= faults
  BY SoloFacts DEF FinishLost, Crash, Fault, dbVars
<1>2. IdleWorker.at \notin InGate \cup OnWire \cup Answering
  BY IdleType DEF InGate, OnWire, Answering
<1>3. \A q \in Servers : SoloAt(q)'
  BY <1>1, <1>2, SoloMoves
<1>4. CASE UNCHANGED accepted
  <2>1. FewDuplicates'
    BY <1>1, <1>4, CreditKept
  <2> QED
    BY <1>3, <2>1 DEF SoloInv
<1>5. CASE worker[p].at = "sending" /\ Accept(worker[p].job)
  <2>1. FewDuplicates'
    BY <1>1, <1>5, CreditGained
  <2> QED
    BY <1>3, <2>1 DEF SoloInv
<1> QED
  BY <1>4, <1>5 DEF FinishLost, Crash

\* The result is written: the claim is still held, under a live lease.
LEMMA ResultWritten ==
    ASSUME Typing, CallInv, SoloInv, NEW p \in Servers, Finish(p)
    PROVE  /\ Pending(worker[p].job)
           /\ \E after \in RetryAfters :
                row' = [row EXCEPT ![worker[p].job] =
                          Finished(row[worker[p].job], worker[p].result, after)]
<1>1. worker[p].at = "finishing" /\ SoloAt(p)
  BY SoloFacts DEF Finish
<1>2. Holds(p, worker[p].job) /\ row[worker[p].job].lease > 0
  <2>1. row[worker[p].job].lease > worker[p].clock /\ Holds(p, worker[p].job)
    BY <1>1 DEF SoloAt, InGate, Answering
  <2>2. worker[p].clock \in Nat /\ row[worker[p].job].lease \in Nat
    BY <1>1, TimesAreNumbers
  <2> QED
    BY <2>1, <2>2
<1> QED
  BY <1>1, <1>2 DEF Finish, MayFinish, Holds

LEMMA SoloFinish ==
    ASSUME Typing, CallInv, SoloInv, NEW p \in Servers, Servers = {p}, Finish(p)
    PROVE  SoloInv'
<1> DEFINE j == worker[p].job
<1>1. /\ worker[p].at = "finishing" /\ worker' = [worker EXCEPT ![p] = IdleWorker]
      /\ UNCHANGED <<accepted, faults>> /\ j \in Deliveries
  BY SoloFacts DEF Finish
<1>2. PICK after \in RetryAfters : row' = [row EXCEPT ![j] = Finished(row[j], worker[p].result, after)]
  BY ResultWritten
<1>3. worker'[p].at = "idle"
  BY <1>1, IdleType, SoloFacts
<1>4. SoloAt(p)'
  BY <1>3 DEF SoloAt, InGate, OnWire, Answering
<1>5. ASSUME NEW d \in Deliveries, Credited(d) PROVE Credited(d)'
  <2>1. CASE d # j
    BY <1>1, <1>2, <1>5, <2>1, SoloFacts DEF Credited
  <2>2. CASE d = j
    <3>1. worker[p].result = "sent"
      BY <1>5, <2>2, ResultWritten DEF Credited, Pending
    <3>2. row'[j].status = "sent"
      BY <1>1, <1>2, <3>1, SoloFacts DEF Finished, Unclaimed, Row
    <3> QED
      BY <2>2, <3>2 DEF Credited
  <2> QED
    BY <2>1, <2>2
<1>6. FewDuplicates'
  BY <1>1, <1>5 DEF SoloInv, FewDuplicates
<1> QED
  BY <1>4, <1>6 DEF SoloInv

LEMMA SoloRelease ==
    ASSUME Typing, CallInv, SoloInv, NEW p \in Servers, Servers = {p}, Release(p)
    PROVE  SoloInv'
<1> DEFINE j == worker[p].job
<1>1. /\ worker[p].at = "releasing" /\ worker' = [worker EXCEPT ![p] = IdleWorker]
      /\ UNCHANGED <<accepted, faults>> /\ j \in Deliveries
  BY SoloFacts DEF Release
<1>2. \A d \in Deliveries : row'[d].status = row[d].status
  BY <1>1, SoloFacts DEF Release, Unclaimed, Row
<1>3. worker'[p].at = "idle"
  BY <1>1, IdleType, SoloFacts
<1>4. SoloAt(p)'
  BY <1>3 DEF SoloAt, InGate, OnWire, Answering
<1>5. \A d \in Deliveries : Credited(d) => Credited(d)'
  BY <1>1, <1>2 DEF Credited, Answering
<1>6. FewDuplicates'
  BY <1>1, <1>5 DEF SoloInv, FewDuplicates
<1> QED
  BY <1>4, <1>6 DEF SoloInv

LEMMA SoloTick ==
    ASSUME Typing, CallInv, SoloInv, NEW p \in Servers, Servers = {p}, Tick
    PROVE  SoloInv'
<1> DEFINE j == worker[p].job
<1>1. ASSUME NEW d \in Deliveries
      PROVE  /\ row'[d].status = row[d].status /\ row'[d].claim = row[d].claim
             /\ row'[d].lease = Less1(row[d].lease) /\ row[d].lease \in Nat
  BY SoloFacts DEF Tick, Row
<1>2. worker[p] \in Worker /\ worker'[p] = Older(worker[p]) /\ SoloAt(p) /\ faults \in Nat
  BY SoloFacts DEF Tick
<1>3. /\ worker'[p].at = worker[p].at /\ worker'[p].job = j
      /\ worker'[p].to = worker[p].to /\ worker'[p].result = worker[p].result
      /\ worker[p].at \in Answering => worker'[p].clock = Less1(worker[p].clock)
  BY <1>2 DEF Older, Worker, Answering, CountsDown
<1>4. UNCHANGED <<chat, rev, accepted>> /\ faults' \in {faults, faults + 1}
  BY DEF Tick, Fault, NoFault
<1>5. SoloAt(p)'
  <2>1. CASE worker[p].at = "idle"
    BY <1>3, <2>1 DEF SoloAt, InGate, OnWire, Answering
  <2>2. CASE worker[p].at # "idle"
    <3>1. j \in Deliveries
      BY <2>2, SoloFacts
    <3>2. ASSUME worker[p].at \in Answering PROVE row'[j].lease > worker'[p].clock
      <4>1. worker[p].clock > 0
        BY <1>2, <3>2 DEF Tick, MayWait, Answering, Worker
      <4>2. row[j].lease > worker[p].clock /\ worker[p].clock \in Nat
        BY <1>2, <3>2 DEF SoloAt, Worker
      <4> QED
        BY <1>1, <1>3, <3>1, <3>2, <4>1, <4>2 DEF Less1
    <3> QED
      BY <1>1, <1>2, <1>3, <1>4, <3>1, <3>2 DEF SoloAt, Holds, Pending, Bound
  <2> QED
    BY <2>1, <2>2
<1>6. \A d \in Deliveries : Credited(d) => Credited(d)'
  BY <1>1, <1>3 DEF Credited
<1>7. FewDuplicates'
  <2>1. \A d \in Deliveries : accepted[d] \in Nat
    BY SoloFacts
  <2> QED
    BY <1>2, <1>4, <1>6, <2>1 DEF SoloInv, FewDuplicates
<1> QED
  BY <1>5, <1>7 DEF SoloInv

LEMMA SoloStep ==
    ASSUME Typing, CallInv, SoloInv, NEW p \in Servers, Servers = {p}, [Next]_vars
    PROVE  SoloInv'
<1>1. CASE UNCHANGED <<row, chat, rev, worker, accepted, faults>>
  BY <1>1 DEF SoloInv, SoloAt, FewDuplicates, Credited, Holds, Pending, Bound
<1>2. ASSUME NEW d \in Deliveries, Enqueue(d) PROVE SoloInv'
  BY <1>2, SoloEnqueue
<1>3. ASSUME NEW q \in Servers, NEW c \in Chats, Rebind(q, c) PROVE SoloInv'
  BY <1>3, SoloRebind
<1>4. CASE Attempt(p)
  BY <1>4, SoloClaim, SoloReload, SoloAuthorize, SoloWaiting, SoloStartCall, SoloSettle, SoloFinish,
     SoloRelease DEF Attempt
<1>5. CASE Answer(p) \/ Failure(p)
  BY <1>5, SoloAnswer, SoloSettle, SoloWaiting, SoloAbandon DEF Failure
<1>6. CASE Tick
  BY <1>6, SoloTick
<1>7. CASE IssueToken \/ TokenExpires
  BY <1>1, <1>7 DEF IssueToken, TokenExpires
<1>8. CASE UNCHANGED vars
  BY <1>1, <1>8 DEF vars
<1> QED
  BY <1>2, <1>3, <1>4, <1>5, <1>6, <1>7, <1>8 DEF Next

LEMMA SoloStarts == Init => SoloInv
<1> SUFFICES ASSUME Init PROVE SoloInv
  OBVIOUS
<1>1. \A p \in Servers : worker[p].at = "idle"
  BY IdleType DEF Init
<1> QED
  BY <1>1 DEF Init, SoloInv, SoloAt, FewDuplicates, InGate, OnWire, Answering

-----------------------------------------------------------------------------
(* Each step is a step of the contract, or none. *)

LEMMA StatusOf ==
    ASSUME Typing, Typing'
    PROVE  /\ Contract!Deliveries = Deliveries
           /\ \A d \in Deliveries : [e \in Deliveries |-> row[e].status][d] = row[d].status
           /\ (\A d \in Deliveries : row'[d].status = row[d].status) =>
                 [d \in Deliveries |-> row'[d].status] = [d \in Deliveries |-> row[d].status]
BY DEF Contract!Deliveries, Deliveries

\* A settled or enqueued row, as the contract sees it.
LEMMA OneStatus ==
    ASSUME Typing, NEW d \in Deliveries, NEW r, row' = [row EXCEPT ![d] = r]
    PROVE  [e \in Deliveries |-> row'[e].status] =
             [[e \in Deliveries |-> row[e].status] EXCEPT ![d] = r.status]
BY DEF Typing, TypeOK

LEMMA ContractAccept ==
    ASSUME Typing, CallInv, SoloInv, NEW p \in Servers, worker[p].at = "sending",
           Accept(worker[p].job), UNCHANGED row
    PROVE  Contract!Next
<1> DEFINE j == worker[p].job
<1>1. j \in Deliveries /\ Pending(j)
  BY SoloFacts DEF SoloAt, InGate, Holds
<1>2. Contract!Accept(j)
  BY <1>1 DEF Contract!Accept, Accept, Pending
<1> QED
  BY <1>1, <1>2 DEF Contract!Next, Contract!Deliveries, Deliveries

LEMMA ContractFinish ==
    ASSUME Typing, CallInv, SoloInv, NEW p \in Servers, Finish(p)
    PROVE  [Contract!Next]_(Contract!vars)
<1> DEFINE j == worker[p].job
<1>1. /\ worker[p].at = "finishing" /\ UNCHANGED accepted /\ j \in Deliveries /\ SoloAt(p)
      /\ worker[p].result \in {"sent", "error", "auth"} /\ row[j] \in Row
  BY SoloFacts DEF Finish, Typing, WorkersBusy
<1>2. Pending(j)
  BY ResultWritten
<1>3. PICK after \in RetryAfters : row' = [row EXCEPT ![j] = Finished(row[j], worker[p].result, after)]
  BY ResultWritten
<1> DEFINE r == Finished(row[j], worker[p].result, after)
<1>4. \/ r.status = "pending"
      \/ r.status = "failed"
      \/ r.status = "sent" /\ worker[p].result = "sent"
  <2>1. CASE worker[p].result = "sent"
    BY <1>1, <2>1 DEF Finished, Unclaimed, Row
  <2>2. CASE worker[p].result = "auth"
    BY <1>1, <1>2, <2>2 DEF Finished, Unclaimed, Row, Pending
  <2>3. CASE worker[p].result = "error"
    <3>1. r = Failed(row[j], after) /\ after \in Nat
      BY <2>3, ConstantsAssumption DEF Finished
    <3>2. row[j].status = "pending" /\ row[j].attempts < MaxAttempts
      BY <1>1, <1>2 DEF Pending, Typing, AttemptsLeft
    <3> QED
      BY <1>1, <3>1, <3>2, FailedType
  <2> QED
    BY <1>1, <2>1, <2>2, <2>3
<1> HIDE DEF r
<1>5. [e \in Deliveries |-> row'[e].status] = [[e \in Deliveries |-> row[e].status] EXCEPT ![j] = r.status]
  BY <1>1, <1>3, OneStatus DEF r
<1>6. CASE r.status = "pending"
  <2>1. [e \in Deliveries |-> row'[e].status] = [e \in Deliveries |-> row[e].status]
    BY <1>1, <1>2, <1>5, <1>6 DEF Pending
  <2> QED
    BY <1>1, <2>1 DEF Contract!vars
<1>7. CASE r.status \in {"sent", "failed"}
  <2>1. r.status = "sent" => accepted[j] > 0
    BY <1>1, <1>4, <1>7 DEF SoloAt, Answering
  <2>2. PICK outcome \in {"sent", "failed"} : outcome = r.status
    BY <1>7
  <2>3. Contract!Settle(j, outcome)
    BY <1>1, <1>2, <1>5, <2>1, <2>2 DEF Contract!Settle, Pending
  <2> QED
    BY <1>1, <2>3 DEF Contract!Next, Contract!Deliveries, Deliveries
<1> QED
  BY <1>4, <1>6, <1>7

LEMMA ContractRebind ==
    ASSUME Typing, NEW p \in Servers, NEW c \in Chats, Rebind(p, c)
    PROVE  Contract!Next
<1>1. PICK ack \in Acks : row[ack].status = "absent" /\ row' = ReboundRows(chat # c, ack)
  BY DEF Rebind
<1>2. ack \in Deliveries /\ UNCHANGED accepted
  BY DEF Rebind, Deliveries
<1>3. ASSUME NEW d \in Deliveries
      PROVE  row'[d].status = IF d = ack THEN "pending"
                              ELSE IF d \in Acks /\ row[d].status = "pending" THEN "superseded"
                              ELSE row[d].status
  <2>1. row[d] \in Row
    BY DEF Typing, TypeOK
  <2>2. row'[d] = IF d = ack THEN [AbsentRow EXCEPT !.status = "pending"]
                  ELSE IF ~Pending(d) THEN row[d]
                  ELSE IF d \in Acks THEN [Unclaimed(row[d]) EXCEPT !.status = "superseded"]
                  ELSE IF chat # c THEN Rewound(row[d]) ELSE row[d]
    BY <1>1 DEF ReboundRows
  <2> QED
    BY <2>1, <2>2 DEF AbsentRow, Unclaimed, Rewound, Row, Pending
<1>4. Contract!Acknowledge(ack)
  BY <1>1, <1>2, <1>3 DEF Contract!Acknowledge, Contract!Deliveries, Deliveries
<1> QED
  BY <1>4 DEF Contract!Next

LEMMA ContractStep ==
    ASSUME Typing, CallInv, SoloInv, NEW p \in Servers, Servers = {p}, [Next]_vars
    PROVE  [Contract!Next]_(Contract!vars)
<1>1. ASSUME UNCHANGED accepted, \A d \in Deliveries : row'[d].status = row[d].status
      PROVE  UNCHANGED Contract!vars
  BY <1>1 DEF Contract!vars
<1>2. ASSUME NEW d \in Deliveries, Enqueue(d) PROVE Contract!Next
  <2>1. /\ d \in Business /\ row[d].status = "absent" /\ UNCHANGED accepted
        /\ row' = [row EXCEPT ![d] = [AbsentRow EXCEPT !.status = "pending"]]
    BY <1>2 DEF Enqueue
  <2> DEFINE r == [AbsentRow EXCEPT !.status = "pending"]
  <2>2. r.status = "pending"
    BY DEF AbsentRow
  <2> HIDE DEF r
  <2>3. [e \in Deliveries |-> row'[e].status] = [[e \in Deliveries |-> row[e].status] EXCEPT ![d] = r.status]
    <3>1. row' = [row EXCEPT ![d] = r]
      BY <2>1 DEF r
    <3> QED
      BY <3>1, OneStatus
  <2>4. Contract!Enqueue(d)
    BY <2>1, <2>2, <2>3 DEF Contract!Enqueue
  <2> QED
    BY <2>1, <2>4 DEF Contract!Next
<1>3. ASSUME NEW q \in Servers, NEW c \in Chats, Rebind(q, c) PROVE Contract!Next
  BY <1>3, ContractRebind
<1>4. ASSUME NEW d \in Deliveries, Claim(p, d) PROVE UNCHANGED Contract!vars
  BY <1>1, <1>4, SoloFacts DEF Claim, Row
<1>5. ASSUME Authorize(p) PROVE UNCHANGED Contract!vars
  <2>1. worker[p].job \in Deliveries /\ UNCHANGED accepted
    BY <1>5, SoloFacts DEF Authorize
  <2>2. row' = row \/ row' = [row EXCEPT ![worker[p].job].active = NextRevision(worker[p].job)]
    BY <1>5 DEF Authorize, ReuseIntent, InsertIntent
  <2>3. \A d \in Deliveries : row'[d].status = row[d].status
    BY <2>1, <2>2, SoloFacts DEF Row
  <2> QED
    BY <1>1, <2>1, <2>3
<1>6. ASSUME Reload(p) \/ AuthorizeFails(p) \/ ReturnPermit(p) \/ AssertCallable(p) \/ StartCall(p)
             \/ SettlePermit(p) \/ SettleLost(p) \/ FinishLost(p) \/ GiveUp(p)
      PROVE  UNCHANGED Contract!vars
  BY <1>1, <1>6 DEF Reload, AuthorizeFails, ReturnPermit, AssertCallable, StartCall, SettlePermit,
                    SettleLost, FinishLost, GiveUp, dbVars
<1>7. ASSUME Answer(p) \/ Crash(p) PROVE [Contract!Next]_(Contract!vars)
  <2>1. /\ UNCHANGED row
        /\ UNCHANGED accepted \/ (worker[p].at = "sending" /\ Accept(worker[p].job))
    BY <1>7 DEF Answer, AnswerSent, AnswerRefused, AnswerLost, AnswerInvalidAuth, AnswerCanceled, Crash,
                dbVars
  <2> QED
    BY <1>1, <2>1, ContractAccept
<1>8. ASSUME Release(p) PROVE UNCHANGED Contract!vars
  <2>1. worker[p].job \in Deliveries /\ UNCHANGED accepted
    BY <1>8, SoloFacts DEF Release
  <2>2. \A d \in Deliveries : row'[d].status = row[d].status
    BY <1>8, <2>1, SoloFacts DEF Release, Unclaimed, Row
  <2> QED
    BY <1>1, <2>1, <2>2
<1>9. ASSUME Tick PROVE UNCHANGED Contract!vars
  BY <1>1, <1>9, SoloFacts DEF Tick, Row
<1>10. ASSUME IssueToken \/ TokenExpires \/ UNCHANGED vars PROVE UNCHANGED Contract!vars
  BY <1>1, <1>10 DEF IssueToken, TokenExpires, vars
<1>11. CASE Attempt(p) \/ Failure(p)
  BY <1>4, <1>5, <1>6, <1>7, <1>8, <1>11, ContractFinish DEF Attempt, Failure
<1> QED
  BY <1>2, <1>3, <1>7, <1>9, <1>10, <1>11 DEF Next

LEMMA InitCalls == Init => CallInv
<1>1. SUFFICES ASSUME Init PROVE CallInv
  OBVIOUS
<1>2. \A p \in Servers : worker[p].at = "idle"
  BY <1>1, IdleType DEF Init
<1> QED
  BY <1>2 DEF CallInv, JobsExist, LeaseCovers, CallsFit, Addressed, StillHeld,
              OneCallPerRecipient, UnderLease, OnWire

LEMMA ContractStarts == Init => Contract!Init
BY DEF Init, Contract!Init, Contract!Deliveries, Deliveries, AbsentRow

\* The three of the invariant, in every reachable state of one server.
LEMMA SoloHolds ==
    ASSUME NEW p, Servers = {p}
    PROVE  Spec => [](Typing /\ CallInv /\ SoloInv)
<1>1. Init => Typing /\ CallInv /\ SoloInv
  BY InitTyping, InitCalls, SoloStarts
<1>2. Typing /\ CallInv /\ SoloInv /\ [Next]_vars => (Typing /\ CallInv /\ SoloInv)'
  BY NextTyping, NextCalls, SoloStep
<1> QED
  BY <1>1, <1>2, PTL DEF Spec

\* A message reaches Telegram a second time only after a fault: of one server, a
\* success is written before its lease ends, and nothing else frees the row.
THEOREM DuplicatesNeedFaults ==
    ASSUME NEW p, Servers = {p}
    PROVE  Spec => []DuplicateNeedsFault
<1>1. Typing /\ SoloInv => DuplicateNeedsFault
  BY DEF Typing, TypeOK, SoloInv, FewDuplicates, DuplicateNeedsFault
<1> QED
  BY <1>1, SoloHolds, PTL

\* One server never starts a call to a chat the account has left: its sender and its
\* poller share the recipient gate.
THEOREM OldChatsAreLeft ==
    ASSUME NEW s, Servers = {s}
    PROVE  Spec => NoCallToOldChat
<1>1. Typing /\ CallInv /\ SoloInv /\ [Next]_vars =>
        [\A p \in Servers : worker[p].at # "sending" /\ worker'[p].at = "sending"
                            => worker[p].to.chat = chat]_vars
  <2> SUFFICES ASSUME Typing, CallInv, SoloInv, [Next]_vars,
                      NEW p \in Servers, worker[p].at # "sending", worker'[p].at = "sending"
               PROVE  worker[p].to.chat = chat
    OBVIOUS
  <2>0. worker[p] \in Worker /\ worker \in [Servers -> Worker] /\ SoloAt(p)
    BY SoloFacts
  <2>1. worker' # worker
    OBVIOUS
  <2>2. ~Tick
    <3>1. Tick => worker'[p].at = worker[p].at
      <4>1. \A w \in Worker : Older(w).at = w.at
        BY DEF Older, Worker
      <4>2. Tick => worker'[p] = Older(worker[p])
        BY DEF Tick
      <4> QED
        BY <2>0, <4>1, <4>2
    <3> QED
      BY <3>1
  <2>3. ASSUME NEW w, worker' = [worker EXCEPT ![p] = w] PROVE w.at = "sending"
    BY <2>0, <2>3
  <2>4. ~(\E d \in Deliveries : Claim(p, d))
    BY <2>3 DEF Claim, IdleWorker
  <2>5. ~(SettlePermit(p) \/ SettleLost(p) \/ Finish(p) \/ FinishLost(p) \/ Release(p) \/ Crash(p))
    BY <2>0, <2>3 DEF SettlePermit, SettleLost, Finish, FinishLost, Release, Crash, IdleWorker, Worker
  <2>6. ~(Reload(p) \/ Authorize(p) \/ AuthorizeFails(p) \/ ReturnPermit(p) \/ AssertCallable(p) \/ GiveUp(p))
    <3>1. ~Goto(p, "releasing") /\ ~Goto(p, "permitted") /\ ~Goto(p, "callable")
      BY <2>0 DEF Goto, Worker
    <3>2. ~Reload(p)
      <4>1. SUFFICES ASSUME Reload(p) PROVE FALSE
        OBVIOUS
      <4>2. PICK w : /\ worker' = [worker EXCEPT ![p] = w]
                     /\ w = IF Holds(p, worker[p].job) THEN [worker[p] EXCEPT !.at = "begun", !.clock = PermitSpan]
                            ELSE IdleWorker
        BY <4>1 DEF Reload
      <4>3. w.at # "sending"
        BY <2>0, <4>2 DEF IdleWorker, Worker
      <4> QED
        BY <2>3, <4>2, <4>3
    <3>3. ~Authorize(p)
      BY <2>0 DEF Authorize, Worker
    <3> QED
      BY <3>1, <3>2, <3>3 DEF AuthorizeFails, ReturnPermit, AssertCallable, GiveUp
  <2>7. ~Answer(p)
    BY <2>0, <2>3 DEF Answer, AnswerSent, AnswerRefused, AnswerLost, AnswerInvalidAuth, AnswerCanceled
  <2>8. StartCall(p)
    <3>1. ~(\E d \in Deliveries : Enqueue(d)) /\ ~(\E q \in Servers, c \in Chats : Rebind(q, c))
          /\ ~IssueToken /\ ~TokenExpires /\ ~UNCHANGED vars
      BY <2>1 DEF Enqueue, Rebind, IssueToken, TokenExpires, vars
    <3>2. \E q \in Servers : Attempt(q) \/ Answer(q) \/ Failure(q)
      BY <2>2, <3>1 DEF Next
    <3>3. Attempt(p) \/ Answer(p) \/ Failure(p)
      <4>1. PICK q \in Servers : Attempt(q) \/ Answer(q) \/ Failure(q)
        BY <3>2
      <4>2. q = p
        OBVIOUS
      <4> QED
        BY <4>1, <4>2
    <3> QED
      BY <2>4, <2>5, <2>6, <2>7, <3>3 DEF Attempt, Failure
  <2> QED
    BY <2>0, <2>8 DEF StartCall, SoloAt, OnWire, Bound
<1>2. Spec => [](Typing /\ CallInv /\ SoloInv)
  BY SoloHolds
<1> QED
  BY <1>1, <1>2, PTL DEF Spec, NoCallToOldChat

\* One server's claims, permits, intents, retries and crashes implement the contract:
\* a delivery is enqueued once, called sent only if Telegram has accepted it, settled
\* once and for all, and never sent after that.
THEOREM OneServerKeepsContract ==
    ASSUME NEW p, Servers = {p}
    PROVE  Spec => ImplementsContract
<1>1. Typing /\ CallInv /\ SoloInv /\ [Next]_vars => [Contract!Next]_(Contract!vars)
  BY ContractStep
<1> QED
  BY <1>1, ContractStarts, SoloHolds, PTL DEF Spec, ImplementsContract, Contract!Spec
===============================================================================
