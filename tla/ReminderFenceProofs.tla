------------------------- MODULE ReminderFenceProofs -------------------------
(***************************************************************************)
(* Theorems about ReminderFence, for any number of plans, assignments,     *)
(* servers, reads and generations: the watermark is exact, settling,       *)
(* acknowledging and quarantining stay in step, the fence implements       *)
(* GenerationFence, a projection that has caught up shows every change,    *)
(* and a group that time has ended stays ended.                            *)
(*                                                                         *)
(* What a step does to the fence, to the inbox and to the quarantines is   *)
(* one of six effects: it reserves generations, settles a new one at once, *)
(* consumes a batch, quarantines a work, rebuilds one, or leaves them      *)
(* alone.  First each action is shown to have its effect, then each effect *)
(* to preserve the invariant.                                              *)
(***************************************************************************)
EXTENDS ReminderFence, FiniteSetTheorems, WellFoundedInduction, TLAPS

QuarRecords == [state : {"none", "open", "resolved"}, due : BOOLEAN,
                owner : Runners \cup {None}]

FenceTyped == /\ target \in 0..MaxGen
              /\ applied \in 0..target
              /\ work \in [Works -> WorkRecords]
              /\ inbox \subseteq Works
              /\ quar \in [Works -> QuarRecords]

\* Only what is reserved has a work, and only events are quarantined.
WorkReserved == \A g \in Works : work[g].state = "none" <=> g > target
EventsOnly == \A g \in Works : work[g].state = "quarantined" => work[g].kind \in AssignmentKinds

Core == FenceTyped /\ WorkReserved /\ EventsOnly
          /\ WatermarkExact /\ SettledOnce /\ QuarantinedComesBack

\* Who is about to quarantine a work has an event's work in hand.
ProcTyped == proc \in [Procs -> [pc : RunnerSteps \cup ReaderSteps, gen : 0..MaxGen,
                                 claimed : SUBSET Works, target : 0..MaxGen]]
InHand == \A x \in Procs : proc[x].pc = "persist" =>
            proc[x].gen \in 1..target /\ work[proc[x].gen].kind \in AssignmentKinds

FenceInv == Core /\ ProcTyped /\ InHand

\* What no step undoes.
Monotone == /\ target <= target'
            /\ \A g \in 1..target : /\ work'[g].kind = work[g].kind
                                    /\ Settled(work, g) => Settled(work', g)

-----------------------------------------------------------------------------
(***************************************************************************)
(* Constants, and the watermark.                                           *)
(***************************************************************************)
LEMMA Bounds == MaxGen \in Nat /\ MaxFacts \in Nat /\ MaxFacts <= MaxGen
  BY BoundsAssumption

LEMMA FinitePlans == ASSUME NEW S \in SUBSET Plans PROVE Cardinality(S) \in Nat
  BY SetsAssumption, FS_Subset, FS_CardinalityType

LEMMA LeastOf == ASSUME NEW T, T \subseteq Nat, T # {}
                 PROVE  \E x \in T : \A y \in T : x <= y
<1> DEFINE R == {ss \in Nat \X Nat : ss[1] < ss[2]}
<1>1. IsWellFoundedOn(R, Nat)
  BY NatLessThanWellFounded DEF OpToRel
<1>2. \A x, y \in Nat : y < x => <<y, x>> \in R
  OBVIOUS
<1> HIDE DEF R
<1>3. PICK x \in T : \A y \in T : ~ (<<y, x>> \in R)
  BY <1>1, WFMin
<1>4. \A y \in T : ~ (y < x)
  BY <1>2, <1>3
<1> QED BY <1>4

\* The watermark stops before the first unsettled generation; there is one
\* such place.
LEMMA WatermarkStops ==
  ASSUME NEW from \in Nat, NEW upto \in Nat, from <= upto, NEW w
  PROVE  LET n == Watermark(from, upto, w) IN
           /\ n \in from..upto
           /\ \A g \in (from + 1)..n : Settled(w, g)
           /\ n < upto => ~Settled(w, n + 1)
<1> DEFINE Stop(n) == n < upto => ~Settled(w, n + 1)
           T == {n \in from..upto : Stop(n)}
<1>1. T \subseteq Nat /\ upto \in T
  OBVIOUS
<1>2. PICK x \in T : \A y \in T : x <= y
  <2> HIDE DEF T
  <2> QED BY <1>1, LeastOf
<1>3. \A g \in (from + 1)..x : Settled(w, g)
  <2> SUFFICES ASSUME NEW g \in (from + 1)..x PROVE Settled(w, g)
    OBVIOUS
  <2>1. g - 1 \in from..upto /\ g - 1 < x /\ g - 1 < upto /\ (g - 1) + 1 = g
    BY <1>1
  <2>2. g - 1 \notin T
    BY <1>2, <2>1
  <2> QED BY <2>1, <2>2
<1>4. \E n \in from..upto : /\ \A g \in (from + 1)..n : Settled(w, g)
                            /\ n < upto => ~Settled(w, n + 1)
  BY <1>3
<1> QED BY <1>4 DEF Watermark

\* Bringing the watermark up to date makes it exact.
LEMMA MarkExact ==
  ASSUME FenceTyped, target' \in target..MaxGen,
         \A g \in 1..applied : Settled(work', g),
         applied' = Watermark(applied, target', work')
  PROVE  applied' \in 0..target' /\ WatermarkExact'
<1>1. applied \in Nat /\ target' \in Nat /\ applied <= target'
  BY Bounds DEF FenceTyped
<1>2. /\ applied' \in applied..target'
      /\ \A g \in (applied + 1)..applied' : Settled(work', g)
      /\ applied' < target' => ~Settled(work', applied' + 1)
  BY <1>1, WatermarkStops
<1>3. \A g \in 1..applied' : g \in 1..applied \/ g \in (applied + 1)..applied'
  BY <1>1, <1>2
<1>4. \A g \in 1..applied' : Settled(work', g)
  BY <1>2, <1>3
<1> QED BY <1>1, <1>2, <1>4 DEF WatermarkExact, Settled

LEMMA ResolutionTyped ==
  ASSUME NEW kind PROVE ResolutionOf(kind) \in Resolutions \ {"none"}
  BY DEF ResolutionOf, Resolutions

LEMMA ApplyFields ==
  ASSUME NEW w \in [Works -> WorkRecords], NEW S \in SUBSET Works
  PROVE  /\ Apply(w, S) \in [Works -> WorkRecords]
         /\ \A g \in Works : Apply(w, S)[g].kind = w[g].kind
         /\ \A g \in S : /\ Apply(w, S)[g].state = "applied"
                         /\ Apply(w, S)[g].resolution = ResolutionOf(w[g].kind)
         /\ \A g \in Works \ S : Apply(w, S)[g] = w[g]
<1>1. ASSUME NEW g \in S
      PROVE  LET r == [w[g] EXCEPT !.state = "applied",
                                   !.resolution = ResolutionOf(w[g].kind)]
             IN /\ r \in WorkRecords /\ r.kind = w[g].kind /\ r.state = "applied"
                /\ r.resolution = ResolutionOf(w[g].kind)
  <2>1. PICK v \in WorkRecords : v = w[g]
    OBVIOUS
  <2>2. ResolutionOf(v.kind) \in Resolutions
    BY ResolutionTyped
  <2>3. PICK q \in Resolutions : q = ResolutionOf(v.kind)
    BY <2>2
  <2>4. LET r == [v EXCEPT !.state = "applied", !.resolution = q]
        IN /\ r \in WorkRecords /\ r.kind = v.kind /\ r.state = "applied"
           /\ r.resolution = q
    BY DEF WorkRecords
  <2> QED BY <2>1, <2>3, <2>4
<1> QED BY <1>1 DEF Apply

\* The works w are the present ones with n pending ones of a kind after them.
Extends(w, kind, n) ==
  /\ w \in [Works -> WorkRecords]
  /\ \A g \in Works : IF g \in target + 1 .. target + n
       THEN w[g].kind = kind /\ w[g].state = "pending" /\ w[g].resolution = "none"
       ELSE w[g] = work[g]

LEMMA ReserveFields ==
  ASSUME NEW n \in Nat, NEW kind \in Kinds, NEW d \in Defects \cup {"none"},
         NEW o \in [1..n -> Plans \cup Assignments],
         work \in [Works -> WorkRecords], target \in Nat
  PROVE  Extends(Reserve(kind, o, n, d), kind, n)
<1>1. ASSUME NEW x \in Plans \cup Assignments
      PROVE  /\ Pending(kind, x, d) \in WorkRecords /\ Pending(kind, x, d).kind = kind
             /\ Pending(kind, x, d).state = "pending"
             /\ Pending(kind, x, d).resolution = "none"
  BY DEF Pending, WorkRecords, Resolutions
<1>2. \A g \in target + 1 .. target + n : o[g - target] \in Plans \cup Assignments
  OBVIOUS
<1> QED BY <1>1, <1>2 DEF Reserve, Extends

-----------------------------------------------------------------------------
(***************************************************************************)
(* The six effects.                                                        *)
(***************************************************************************)
Reserved ==
  /\ target' \in target..MaxGen /\ applied' = applied /\ inbox' = inbox /\ quar' = quar
  /\ work' \in [Works -> WorkRecords]
  /\ \A g \in Works : IF g \in target + 1 .. target'
       THEN work'[g].state = "pending" /\ work'[g].resolution = "none"
       ELSE work'[g] = work[g]

SettledNew ==
  /\ target' = target + 1 /\ target' <= MaxGen /\ inbox' = inbox /\ quar' = quar
  /\ work' \in [Works -> WorkRecords]
  /\ \A g \in Works : IF g = target + 1
       THEN /\ work'[g].state = "applied" /\ work'[g].kind \notin AssignmentKinds
            /\ work'[g].resolution = ResolutionOf(work'[g].kind)
       ELSE work'[g] = work[g]
  /\ applied' = Watermark(applied, target', work')

Consumed(S) ==
  /\ \A g \in S : g \in 1..target /\ work[g].state = "pending"
  /\ target' = target /\ quar' = quar
  /\ work' \in [Works -> WorkRecords]
  /\ \A g \in Works : IF g \in S
       THEN /\ work'[g].kind = work[g].kind /\ work'[g].state = "applied"
            /\ work'[g].resolution = ResolutionOf(work[g].kind)
       ELSE work'[g] = work[g]
  /\ inbox' = inbox \cup {g \in S : work[g].kind \in AssignmentKinds}
  /\ applied' = Watermark(applied, target', work')

Quarantined(h) ==
  /\ h \in 1..target /\ work[h].kind \in AssignmentKinds
  /\ work[h].state = "pending" /\ quar[h].state # "resolved"
  /\ target' = target /\ applied' = applied /\ inbox' = inbox
  /\ work' \in [Works -> WorkRecords]
  /\ \A g \in Works : IF g = h
       THEN /\ work'[g].kind = work[g].kind /\ work'[g].state = "quarantined"
            /\ work'[g].resolution = work[g].resolution
       ELSE work'[g] = work[g]
  /\ quar' \in [Works -> QuarRecords]
  /\ \A g \in Works : quar'[g].state = IF g = h THEN "open" ELSE quar[g].state

Rebuilt(h) ==
  /\ h \in Works /\ quar[h].state = "open"
  /\ target' = target
  /\ work' \in [Works -> WorkRecords]
  /\ \A g \in Works : IF g = h
       THEN /\ work'[g].kind = work[g].kind /\ work'[g].state = "applied"
            /\ work'[g].resolution = "rebuild_verified"
       ELSE work'[g] = work[g]
  /\ inbox' = inbox \cup {h}
  /\ quar' \in [Works -> QuarRecords]
  /\ \A g \in Works : quar'[g].state = IF g = h THEN "resolved" ELSE quar[g].state
  /\ applied' = Watermark(applied, target', work')

Quiet ==
  /\ target' = target /\ applied' = applied /\ work' = work /\ inbox' = inbox
  /\ quar' \in [Works -> QuarRecords]
  /\ \A g \in Works : quar'[g].state = quar[g].state

-----------------------------------------------------------------------------
(***************************************************************************)
(* Each effect preserves the invariant.                                    *)
(***************************************************************************)
LEMMA SettledMeans ==
  ASSUME Core, NEW g \in Works
  PROVE  Settled(work, g) <=> work[g].state = "applied"
  BY DEF Core, SettledOnce, Settled

LEMMA ReservedKeeps == ASSUME Core, Reserved PROVE Core' /\ Monotone
<1> USE Bounds DEF Works
<1>1. target \in Nat /\ target' \in Nat /\ target <= target' /\ target' <= MaxGen /\ applied \in 0..target
  BY DEF Core, FenceTyped, Reserved
<1>2. FenceTyped'
  BY <1>1 DEF Core, FenceTyped, Reserved
<1>3. \A g \in Works : work[g].state = "none" => g \notin inbox /\ quar[g].state = "none"
  <2>1. \A g \in Works : quar[g].state \in {"none", "open", "resolved"}
    BY DEF Core, FenceTyped, QuarRecords
  <2> QED BY <2>1 DEF Core, SettledOnce, QuarantinedComesBack
<1>4. \A g \in target + 1 .. target' : g \in Works /\ work[g].state = "none"
  BY <1>1 DEF Core, WorkReserved
<1>5. WorkReserved'
  BY <1>1, <1>4 DEF Core, WorkReserved, Reserved
<1>6. EventsOnly'
  BY DEF Core, EventsOnly, Reserved
<1>7. WatermarkExact' /\ Monotone
  BY <1>1 DEF Core, WatermarkExact, Settled, Reserved, Monotone
<1>8. SettledOnce'
  BY <1>3, <1>4 DEF Core, SettledOnce, Reserved
<1>9. QuarantinedComesBack'
  BY <1>3, <1>4 DEF Core, QuarantinedComesBack, Reserved
<1> QED BY <1>2, <1>5, <1>6, <1>7, <1>8, <1>9 DEF Core

LEMMA SettledNewKeeps == ASSUME Core, SettledNew PROVE Core' /\ Monotone
<1> USE Bounds DEF Works
<1>1. target \in Nat /\ target' = target + 1 /\ target' <= MaxGen /\ applied \in 0..target
  BY DEF Core, FenceTyped, SettledNew
<1>2. \A g \in Works : work[g].state = "none" => g \notin inbox /\ quar[g].state = "none"
  <2>1. \A g \in Works : quar[g].state \in {"none", "open", "resolved"}
    BY DEF Core, FenceTyped, QuarRecords
  <2> QED BY <2>1 DEF Core, SettledOnce, QuarantinedComesBack
<1>3. target + 1 \in Works /\ work[target + 1].state = "none"
  BY <1>1 DEF Core, WorkReserved
<1>4. Monotone
  BY <1>1 DEF Settled, SettledNew, Monotone
<1>5. \A g \in 1..applied : Settled(work', g)
  BY <1>1, <1>4 DEF Core, WatermarkExact, Monotone
<1>6. applied' \in 0..target' /\ WatermarkExact'
  BY <1>1, <1>5, MarkExact DEF Core, SettledNew
<1>7. FenceTyped'
  BY <1>1, <1>6 DEF Core, FenceTyped, SettledNew
<1>8. WorkReserved'
  BY <1>1 DEF Core, WorkReserved, SettledNew
<1>9. EventsOnly'
  BY DEF Core, EventsOnly, SettledNew
<1>10. SettledOnce'
  BY <1>2, <1>3, ResolutionTyped DEF Core, SettledOnce, SettledNew
<1>11. QuarantinedComesBack'
  BY <1>2, <1>3 DEF Core, QuarantinedComesBack, SettledNew
<1> QED BY <1>4, <1>6, <1>7, <1>8, <1>9, <1>10, <1>11 DEF Core

LEMMA ConsumedKeeps == ASSUME Core, NEW S, Consumed(S) PROVE Core' /\ Monotone
<1> USE Bounds DEF Works
<1>1. target \in Nat /\ target' = target /\ target <= MaxGen /\ applied \in 0..target
  BY DEF Core, FenceTyped, Consumed
<1>2. S \subseteq Works
  BY <1>1 DEF Consumed
<1>3. Monotone
  BY <1>1 DEF Settled, Consumed, Monotone
<1>4. \A g \in 1..applied : Settled(work', g)
  BY <1>1, <1>3 DEF Core, WatermarkExact, Monotone
<1>5. applied' \in 0..target' /\ WatermarkExact'
  BY <1>1, <1>4, MarkExact DEF Core, Consumed
<1>6. FenceTyped'
  BY <1>1, <1>2, <1>5 DEF Core, FenceTyped, Consumed
<1>7. WorkReserved'
  BY <1>1, <1>2 DEF Core, WorkReserved, Consumed
<1>8. EventsOnly'
  BY DEF Core, EventsOnly, Consumed
<1>9. SettledOnce'
  BY <1>2, ResolutionTyped DEF Core, SettledOnce, Consumed
<1>10. QuarantinedComesBack'
  BY <1>2 DEF Core, QuarantinedComesBack, Consumed
<1> QED BY <1>3, <1>5, <1>6, <1>7, <1>8, <1>9, <1>10 DEF Core

LEMMA QuarantinedKeeps == ASSUME Core, NEW h, Quarantined(h) PROVE Core' /\ Monotone
<1> USE Bounds DEF Works
<1>1. target \in Nat /\ target' = target /\ target <= MaxGen /\ applied \in 0..target
        /\ h \in Works
  BY DEF Core, FenceTyped, Quarantined
<1>2. FenceTyped'
  BY <1>1 DEF Core, FenceTyped, Quarantined
<1>3. ~Settled(work, h)
  BY DEF Quarantined, Settled
<1>4. Monotone
  BY <1>1, <1>3 DEF Settled, Quarantined, Monotone
<1>5. \A g \in Works : Settled(work', g) <=> Settled(work, g)
  BY <1>1, <1>3 DEF Settled, Quarantined
<1>6. WatermarkExact'
  BY <1>1, <1>5 DEF Core, WatermarkExact, Settled, Quarantined
<1>7. WorkReserved'
  BY <1>1 DEF Core, WorkReserved, Quarantined
<1>8. EventsOnly'
  BY <1>1 DEF Core, EventsOnly, Quarantined
<1>9. SettledOnce'
  BY <1>1 DEF Core, SettledOnce, Quarantined
<1>10. QuarantinedComesBack'
  BY <1>1 DEF Core, QuarantinedComesBack, Quarantined
<1> QED BY <1>2, <1>4, <1>6, <1>7, <1>8, <1>9, <1>10 DEF Core

LEMMA RebuiltKeeps == ASSUME Core, NEW h, Rebuilt(h) PROVE Core' /\ Monotone
<1> USE Bounds DEF Works
<1>1. target \in Nat /\ target' = target /\ target <= MaxGen /\ applied \in 0..target
        /\ h \in Works
  BY DEF Core, FenceTyped, Rebuilt
<1>2. work[h].state = "quarantined" /\ work[h].kind \in AssignmentKinds
  BY <1>1 DEF Core, QuarantinedComesBack, EventsOnly, Rebuilt
<1>3. Monotone
  BY <1>1, <1>2 DEF Settled, Rebuilt, Monotone
<1>4. \A g \in 1..applied : Settled(work', g)
  BY <1>1, <1>3 DEF Core, WatermarkExact, Monotone
<1>5. applied' \in 0..target' /\ WatermarkExact'
  BY <1>1, <1>4, MarkExact DEF Core, Rebuilt
<1>6. FenceTyped'
  BY <1>1, <1>5 DEF Core, FenceTyped, Rebuilt
<1>7. WorkReserved'
  BY <1>1, <1>2 DEF Core, WorkReserved, Rebuilt
<1>8. EventsOnly'
  BY DEF Core, EventsOnly, Rebuilt
<1>9. SettledOnce'
  <2> SUFFICES ASSUME NEW g \in Works
               PROVE  /\ (work'[g].state = "applied") <=> (work'[g].resolution # "none")
                      /\ work'[g].resolution \in {"none", ResolutionOf(work'[g].kind)}
                           \/ (work'[g].resolution = "rebuild_verified" /\ quar'[g].state = "resolved")
                      /\ g \in inbox' <=> (work'[g].kind \in AssignmentKinds /\ work'[g].state = "applied")
    BY DEF SettledOnce
  <2>1. CASE g = h
    BY <1>1, <1>2, <2>1 DEF Rebuilt
  <2>2. CASE g # h
    <3>1. work'[g] = work[g] /\ quar'[g].state = quar[g].state /\ (g \in inbox' <=> g \in inbox)
      BY <2>2 DEF Rebuilt
    <3> QED
      BY <3>1 DEF Core, SettledOnce
  <2> QED
    BY <2>1, <2>2
<1>10. QuarantinedComesBack'
  BY <1>1 DEF Core, QuarantinedComesBack, Rebuilt
<1> QED BY <1>3, <1>5, <1>6, <1>7, <1>8, <1>9, <1>10 DEF Core

LEMMA QuietKeeps == ASSUME Core, Quiet PROVE Core' /\ Monotone
<1>1. FenceTyped' /\ WorkReserved' /\ EventsOnly' /\ WatermarkExact'
  BY DEF Core, FenceTyped, WorkReserved, EventsOnly, WatermarkExact, Settled, Quiet
<1>2. SettledOnce' /\ QuarantinedComesBack'
  BY DEF Core, SettledOnce, QuarantinedComesBack, Quiet
<1>3. Monotone
  BY Bounds DEF Core, FenceTyped, Quiet, Monotone
<1> QED BY <1>1, <1>2, <1>3 DEF Core

-----------------------------------------------------------------------------
(***************************************************************************)
(* Each action has its effect.                                             *)
(***************************************************************************)
LEMMA OneReserved ==
  ASSUME Core, NEW kind \in Kinds, NEW x \in Plans \cup Assignments,
         NEW d \in Defects \cup {"none"}
  PROVE  Extends(ReserveOne(kind, x, d), kind, 1)
<1>1. target \in Nat /\ work \in [Works -> WorkRecords]
  BY Bounds DEF Core, FenceTyped
<1>2. [i \in {1} |-> x] \in [1..1 -> Plans \cup Assignments]
  OBVIOUS
<1>3. PICK o \in [1..1 -> Plans \cup Assignments] : o = [i \in {1} |-> x]
  BY <1>2
<1>4. Extends(Reserve(kind, o, 1, d), kind, 1)
  BY <1>1, ReserveFields
<1> QED BY <1>3, <1>4 DEF ReserveOne

LEMMA ClaimReserves ==
  ASSUME Core, NEW a \in Assignments, NEW d \in Defects \cup {"none"},
         Claim(a, d) \/ Revoke(a, d)
  PROVE  Reserved
<1>1. target \in Nat /\ target + 1 <= MaxGen /\ target' = target + 1
  BY Bounds DEF Core, FenceTyped, Claim, Revoke, WriterRoom
<1>2. PICK kind \in AssignmentKinds : work' = ReserveOne(kind, a, d)
  BY DEF Claim, Revoke, AssignmentKinds
<1>3. applied' = applied /\ inbox' = inbox /\ quar' = quar
  BY DEF Claim, Revoke
<1>4. kind \in Kinds
  BY DEF Kinds
<1>5. target' \in target..MaxGen
  BY <1>1, Bounds
<1>6. Extends(work', kind, 1)
  BY <1>2, <1>4, OneReserved
<1> QED BY <1>1, <1>3, <1>5, <1>6 DEF Reserved, Extends

\* Several works at once, in the order of the plans.
LEMMA SomeReserved ==
  ASSUME Core, NEW S \in SUBSET Plans, NEW kind \in Kinds,
         target + Cardinality(S) <= MaxGen, target' = target + Cardinality(S),
         NEW o \in Orderings(S), work' = Reserve(kind, o, Cardinality(S), "none"),
         applied' = applied, inbox' = inbox, quar' = quar
  PROVE  Reserved
<1>1. Cardinality(S) \in Nat
  BY FinitePlans
<1>2. PICK n \in Nat : n = Cardinality(S)
  BY <1>1
<1>3. o \in [1..n -> Plans \cup Assignments]
  BY <1>2 DEF Orderings
<1>4. target \in Nat /\ work \in [Works -> WorkRecords]
  BY Bounds DEF Core, FenceTyped
<1>5. target' \in target..MaxGen /\ target' = target + n
  BY <1>2, <1>4, Bounds
<1>6. Extends(work', kind, n)
  BY <1>2, <1>3, <1>4, ReserveFields
<1> QED BY <1>5, <1>6 DEF Reserved, Extends

LEMMA ChangeZoneReserves == ASSUME Core, ChangeZone PROVE Reserved
<1> DEFINE S == {p \in Plans : \E a \in AssignmentsOf(p) : rev[a] # 0 \/ src[a] # 0}
<1>1. PICK o \in Orderings(S) : work' = Reserve("timezone", o, Cardinality(S), "none")
  BY DEF ChangeZone
<1>2. /\ WriterRoom(Cardinality(S)) /\ target' = target + Cardinality(S)
      /\ applied' = applied /\ inbox' = inbox /\ quar' = quar
  BY DEF ChangeZone
<1>3. S \in SUBSET Plans /\ "timezone" \in Kinds
  BY DEF Kinds
<1> HIDE DEF S
<1>4. Cardinality(S) \in Nat /\ target \in Nat
  BY <1>3, FinitePlans, Bounds DEF Core, FenceTyped
<1>5. target + Cardinality(S) <= MaxGen
  BY <1>2, <1>4, Bounds DEF WriterRoom
<1> QED BY <1>1, <1>2, <1>3, <1>5, SomeReserved

LEMMA EnsureTemporalReserves ==
  ASSUME Core, NEW x, EnsureTemporal(x) PROVE Reserved
<1>1. PICK o \in Orderings(Unmarked) :
         work' = Reserve("started", o, Cardinality(Unmarked), "none")
  BY DEF EnsureTemporal
<1>2. /\ target + Cardinality(Unmarked) <= MaxGen
      /\ target' = target + Cardinality(Unmarked)
      /\ applied' = applied /\ inbox' = inbox /\ quar' = quar
  BY DEF EnsureTemporal
<1>3. Unmarked \in SUBSET Plans /\ "started" \in Kinds
  BY DEF Unmarked, Expired, Kinds
<1> QED BY <1>1, <1>2, <1>3, SomeReserved

\* A CRM mutation and an archive settle the generation they reserve.
LEMMA OneSettled ==
  ASSUME Core, NEW p \in Plans, NEW kind \in {"lifecycle", "archived"}, WriterRoom(1),
         Settle(target + 1, ReserveOne(kind, p, "none"), {target + 1}),
         inbox' = inbox, quar' = quar
  PROVE  SettledNew
<1>1. target \in Nat /\ target' = target + 1 /\ target' <= MaxGen /\ target + 1 \in Works
  BY Bounds DEF Core, FenceTyped, WriterRoom, Settle, Works
<1>2. kind \in Kinds /\ kind \notin AssignmentKinds
  BY DEF Kinds, AssignmentKinds
<1>3. PICK w : w = ReserveOne(kind, p, "none")
  OBVIOUS
<1>4. /\ w \in [Works -> WorkRecords] /\ w[target + 1].kind = kind
      /\ \A g \in Works \ {target + 1} : w[g] = work[g]
  <2>1. Extends(w, kind, 1)
    BY <1>2, <1>3, OneReserved
  <2> QED BY <1>1, <2>1 DEF Extends
<1>5. {target + 1} \in SUBSET Works
  BY <1>1
<1>6. work' = Apply(w, {target + 1}) /\ applied' = Watermark(applied, target', work')
  BY <1>1, <1>3 DEF Settle
<1>7. /\ work' \in [Works -> WorkRecords]
      /\ \A g \in Works : work'[g].kind = w[g].kind
      /\ work'[target + 1].state = "applied"
      /\ work'[target + 1].resolution = ResolutionOf(kind)
      /\ \A g \in Works \ {target + 1} : work'[g] = w[g]
  BY <1>4, <1>5, <1>6, ApplyFields
<1> QED BY <1>1, <1>2, <1>4, <1>6, <1>7 DEF SettledNew

LEMMA CrmFactSettles ==
  ASSUME Core, NEW p \in Plans, NEW isLinked, NEW slot, CrmFact(p, isLinked, slot)
  PROVE  SettledNew
  BY OneSettled DEF CrmFact

LEMMA ArchiveSettles == ASSUME Core, NEW p \in Plans, Archive(p) PROVE SettledNew
  BY OneSettled DEF Archive

LEMMA BatchConsumed == ASSUME Core, ConsumeBatch, quar' = quar PROVE Consumed(Batch)
<1>1. /\ Settle(target, work, Batch)
      /\ inbox' = inbox \cup {g \in Batch : work[g].kind \in AssignmentKinds}
  BY DEF ConsumeBatch
<1>2. target \in Nat /\ target <= MaxGen /\ work \in [Works -> WorkRecords]
  BY Bounds DEF Core, FenceTyped
<1>3. \A g \in Batch : g \in 1..target /\ work[g].state = "pending"
  BY DEF Batch, PendingWorks
<1> HIDE DEF Batch
<1>4. Batch \in SUBSET Works
  BY <1>2, <1>3, Bounds DEF Works
<1>5. target' = target /\ work' = Apply(work, Batch)
        /\ applied' = Watermark(applied, target', work')
  BY <1>1 DEF Settle
<1>6. /\ work' \in [Works -> WorkRecords]
      /\ \A g \in Works : IF g \in Batch
           THEN /\ work'[g].kind = work[g].kind /\ work'[g].state = "applied"
                /\ work'[g].resolution = ResolutionOf(work[g].kind)
           ELSE work'[g] = work[g]
  BY <1>2, <1>4, <1>5, ApplyFields
<1> QED BY <1>1, <1>3, <1>5, <1>6 DEF Consumed

LEMMA PersistEffect ==
  ASSUME FenceInv, NEW x \in Procs, Persist(x)
  PROVE  Quarantined(proc[x].gen) \/ Quiet
<1>1. PICK h : h = proc[x].gen
  OBVIOUS
<1>2. target' = target /\ applied' = applied /\ inbox' = inbox
  BY DEF Persist
<1>3. CASE ~CanQuarantine(h)
  <2>1. work' = work /\ quar' = quar
    BY <1>1, <1>3 DEF Persist
  <2> QED BY <1>2, <2>1 DEF Quiet, FenceInv, Core, FenceTyped
<1>4. CASE CanQuarantine(h)
  <2>1. /\ h \in 1..target /\ work[h].kind \in AssignmentKinds
        /\ work \in [Works -> WorkRecords] /\ quar \in [Works -> QuarRecords]
        /\ target \in Nat /\ target <= MaxGen
    BY <1>1, Bounds DEF Persist, FenceInv, InHand, Core, FenceTyped
  <2>2. h \in Works
    BY <2>1, Bounds DEF Works
  <2>3. Quarantine(h) /\ work[h].state = "pending" /\ quar[h].state # "resolved"
    BY <1>1, <1>4 DEF Persist, CanQuarantine
  <2>4. PICK w \in WorkRecords : w = work[h]
    BY <2>1, <2>2
  <2>5. PICK q \in QuarRecords : q = quar[h]
    BY <2>1, <2>2
  <2>6. work' = [work EXCEPT ![h] = [w EXCEPT !.state = "quarantined"]]
    BY <2>3, <2>4 DEF Quarantine
  <2>7. quar' = [quar EXCEPT ![h] = [q EXCEPT !.state = "open", !.due = FALSE]]
    BY <2>3, <2>5 DEF Quarantine
  <2>8. LET r == [w EXCEPT !.state = "quarantined"]
        IN /\ r \in WorkRecords /\ r.kind = w.kind /\ r.state = "quarantined"
           /\ r.resolution = w.resolution
    BY DEF WorkRecords
  <2>9. LET r == [q EXCEPT !.state = "open", !.due = FALSE]
        IN r \in QuarRecords /\ r.state = "open"
    BY DEF QuarRecords
  <2>10. /\ work' \in [Works -> WorkRecords]
         /\ \A g \in Works : IF g = h
              THEN /\ work'[g].kind = work[g].kind /\ work'[g].state = "quarantined"
                   /\ work'[g].resolution = work[g].resolution
              ELSE work'[g] = work[g]
    BY <2>1, <2>2, <2>4, <2>6, <2>8
  <2>11. /\ quar' \in [Works -> QuarRecords]
         /\ \A g \in Works : quar'[g].state = IF g = h THEN "open" ELSE quar[g].state
    BY <2>1, <2>2, <2>5, <2>7, <2>9
  <2>12. Quarantined(h)
    BY <1>2, <2>1, <2>3, <2>10, <2>11 DEF Quarantined
  <2> QED BY <1>1, <2>12
<1> QED BY <1>3, <1>4

LEMMA RepairEffect ==
  ASSUME FenceInv, NEW x \in Runners, Repair(x)
  PROVE  Quiet \/ \E h \in Works : Rebuilt(h)
<1>1. PICK h \in proc[x].claimed :
         \/ Repairable(h) /\ Rebuild(h)
         \/ ~Repairable(h) /\ UNCHANGED <<fence, inbox, quar, projection>>
  BY DEF Repair
<1>2. h \in Works
  <2>1. proc[x] \in [pc : RunnerSteps \cup ReaderSteps, gen : 0..MaxGen,
                     claimed : SUBSET Works, target : 0..MaxGen]
    BY DEF FenceInv, ProcTyped, Procs
  <2> QED BY <2>1
<1>3. CASE UNCHANGED <<fence, inbox, quar, projection>>
  BY <1>3 DEF Quiet, FenceInv, Core, FenceTyped, fence
<1>4. CASE Repairable(h) /\ Rebuild(h)
  <2>1. work \in [Works -> WorkRecords] /\ quar \in [Works -> QuarRecords]
    BY DEF FenceInv, Core, FenceTyped
  <2>2. PICK w \in WorkRecords : w = work[h]
    BY <1>2, <2>1
  <2>3. PICK q \in QuarRecords : q = quar[h]
    BY <1>2, <2>1
  <2>4. work' = [work EXCEPT ![h] = [w EXCEPT !.state = "applied",
                                              !.resolution = "rebuild_verified"]]
    BY <1>4, <2>2 DEF Rebuild
  <2>5. quar' = [quar EXCEPT ![h] = [q EXCEPT !.state = "resolved", !.due = FALSE,
                                              !.owner = None]]
    BY <1>4, <2>3 DEF Rebuild
  <2>6. LET r == [w EXCEPT !.state = "applied", !.resolution = "rebuild_verified"]
        IN /\ r \in WorkRecords /\ r.kind = w.kind /\ r.state = "applied"
           /\ r.resolution = "rebuild_verified"
    BY DEF WorkRecords, Resolutions
  <2>7. LET r == [q EXCEPT !.state = "resolved", !.due = FALSE, !.owner = None]
        IN r \in QuarRecords /\ r.state = "resolved"
    BY DEF QuarRecords
  <2>8. /\ work' \in [Works -> WorkRecords]
        /\ \A g \in Works : IF g = h
             THEN /\ work'[g].kind = work[g].kind /\ work'[g].state = "applied"
                  /\ work'[g].resolution = "rebuild_verified"
             ELSE work'[g] = work[g]
    BY <1>2, <2>1, <2>2, <2>4, <2>6
  <2>9. /\ quar' \in [Works -> QuarRecords]
        /\ \A g \in Works : quar'[g].state = IF g = h THEN "resolved" ELSE quar[g].state
    BY <1>2, <2>1, <2>3, <2>5, <2>7
  <2>10. /\ target' = target /\ inbox' = inbox \cup {h} /\ quar[h].state = "open"
         /\ applied' = Watermark(applied, target', work')
    BY <1>4 DEF Rebuild, Repairable
  <2>11. Rebuilt(h)
    BY <1>2, <2>8, <2>9, <2>10 DEF Rebuilt
  <2> QED BY <1>2, <2>11
<1> QED BY <1>1, <1>3, <1>4

\* Leases and backoffs change who may repair a quarantine, and when.
LEMMA LeaseQuiet ==
  ASSUME Core, \/ \E x \in Runners : ClaimQuarantines(x)
               \/ \E g \in Works : BackoffEnds(g) \/ LeaseEnds(g)
  PROVE  Quiet
<1>1. quar \in [Works -> QuarRecords]
  BY DEF Core, FenceTyped
<1>2. target' = target /\ applied' = applied /\ work' = work /\ inbox' = inbox
  BY DEF ClaimQuarantines, BackoffEnds, LeaseEnds, fence
<1>3. \A q \in QuarRecords, x \in Runners \cup {None} :
        /\ [q EXCEPT !.owner = x] \in QuarRecords
        /\ [q EXCEPT !.owner = x].state = q.state
        /\ [q EXCEPT !.due = TRUE] \in QuarRecords
        /\ [q EXCEPT !.due = TRUE].state = q.state
  BY DEF QuarRecords
<1>4. quar' \in [Works -> QuarRecords] /\ \A g \in Works : quar'[g].state = quar[g].state
  <2>1. CASE \E x \in Runners : ClaimQuarantines(x)
    <3>1. PICK x \in Runners, S \in SUBSET Works :
            quar' = [g \in Works |-> IF g \in S THEN [quar[g] EXCEPT !.owner = x]
                                                ELSE quar[g]]
      BY <2>1 DEF ClaimQuarantines
    <3>2. ASSUME NEW g \in Works
          PROVE  quar'[g] \in QuarRecords /\ quar'[g].state = quar[g].state
      <4>1. PICK q \in QuarRecords : q = quar[g]
        BY <1>1
      <4>2. quar'[g] = [q EXCEPT !.owner = x] \/ quar'[g] = q
        BY <3>1, <4>1
      <4>3. x \in Runners \cup {None}
        OBVIOUS
      <4>4. [q EXCEPT !.owner = x] \in QuarRecords /\ [q EXCEPT !.owner = x].state = q.state
        BY <1>3, <4>3
      <4>5. CASE quar'[g] = q
        BY <4>1, <4>5
      <4>6. CASE quar'[g] = [q EXCEPT !.owner = x]
        BY <4>1, <4>4, <4>6
      <4> QED BY <4>2, <4>5, <4>6
    <3>3. quar' = [g \in Works |-> quar'[g]]
      BY <3>1
    <3> QED BY <3>2, <3>3
  <2>2. CASE \E h \in Works : BackoffEnds(h)
    <3>1. PICK h \in Works : quar' = [quar EXCEPT ![h].due = TRUE]
      BY <2>2 DEF BackoffEnds
    <3>2. PICK q \in QuarRecords : q = quar[h]
      BY <1>1
    <3>3. quar' = [quar EXCEPT ![h] = [q EXCEPT !.due = TRUE]]
      BY <3>1, <3>2
    <3> QED BY <1>1, <1>3, <3>2, <3>3
  <2>3. CASE \E h \in Works : LeaseEnds(h)
    <3>1. PICK h \in Works : quar' = [quar EXCEPT ![h].owner = None]
      BY <2>3 DEF LeaseEnds
    <3>2. PICK q \in QuarRecords : q = quar[h]
      BY <1>1
    <3>3. quar' = [quar EXCEPT ![h] = [q EXCEPT !.owner = None]]
      BY <3>1, <3>2
    <3> QED BY <1>1, <1>3, <3>2, <3>3
  <2> QED BY <2>1, <2>2, <2>3
<1> QED BY <1>2, <1>4 DEF Quiet

LEMMA UnchangedQuiet == ASSUME Core, UNCHANGED <<fence, inbox, quar>> PROVE Quiet
  BY DEF Core, FenceTyped, Quiet, fence

-----------------------------------------------------------------------------
(***************************************************************************)
(* Where the actors are.                                                   *)
(***************************************************************************)
ProcRecords == [pc : RunnerSteps \cup ReaderSteps, gen : 0..MaxGen,
                claimed : SUBSET Works, target : 0..MaxGen]

\* One actor moves, and to "persist" only with an event's work in hand.
Moves(x) ==
  /\ x \in Procs
  /\ proc' \in [Procs -> ProcRecords]
  /\ \A y \in Procs : y # x => proc'[y] = proc[y]
  /\ proc'[x].pc = "persist" => /\ proc'[x].gen \in 1..target
                                /\ work[proc'[x].gen].kind \in AssignmentKinds

LEMMA MovesKeep ==
  ASSUME FenceInv, Monotone, target \in Nat, target' \in Nat,
         proc' = proc \/ \E x \in Procs : Moves(x)
  PROVE  ProcTyped' /\ InHand'
<1>1. ProcTyped'
  BY DEF FenceInv, ProcTyped, Moves, ProcRecords
<1>2. ASSUME NEW y \in Procs, proc'[y].pc = "persist"
      PROVE  /\ proc'[y].gen \in 1..target
             /\ work[proc'[y].gen].kind \in AssignmentKinds
  BY <1>2 DEF FenceInv, InHand, Moves
<1>3. ASSUME NEW y \in Procs, proc'[y].pc = "persist"
      PROVE  /\ proc'[y].gen \in 1..target'
             /\ work'[proc'[y].gen].kind \in AssignmentKinds
  BY <1>2, <1>3 DEF Monotone
<1> QED BY <1>1, <1>3 DEF InHand

LEMMA GotoMoves ==
  ASSUME FenceInv, NEW x \in Procs, NEW c \in (RunnerSteps \cup ReaderSteps) \ {"persist"},
         Goto(x, c)
  PROVE  Moves(x)
<1>1. PICK r \in ProcRecords : r = proc[x]
  BY DEF FenceInv, ProcTyped, ProcRecords
<1>2. proc' = [proc EXCEPT ![x] = [r EXCEPT !.pc = c]]
  BY <1>1 DEF Goto
<1>3. [r EXCEPT !.pc = c] \in ProcRecords /\ [r EXCEPT !.pc = c].pc = c
  BY DEF ProcRecords
<1> QED BY <1>2, <1>3 DEF FenceInv, ProcTyped, ProcRecords, Moves

LEMMA DrainMoves == ASSUME FenceInv, NEW x \in Procs, DrainStep(x) PROVE Moves(x)
<1>1. PICK r \in ProcRecords : r = proc[x]
  BY DEF FenceInv, ProcTyped, ProcRecords
<1>2. CASE Consume(x) \/ ConsumeNothing(x)
  <2>1. PICK c \in {"ensure", "claim", "check", "failed"} : Goto(x, c)
    BY <1>2 DEF Consume, ConsumeNothing, Consuming, AfterConsume
  <2> QED BY <2>1, GotoMoves DEF RunnerSteps, ReaderSteps
<1>3. CASE RollBack(x)
  <2>1. PICK g \in Batch : /\ Corrupt(g)
                           /\ proc' = [proc EXCEPT ![x].pc = "persist", ![x].gen = g]
    BY <1>3 DEF RollBack
  <2>2. g \in 1..target /\ work[g].kind \in AssignmentKinds /\ g \in 0..MaxGen
    BY <2>1, Bounds DEF Batch, PendingWorks, Corrupt, FenceInv, Core, FenceTyped
  <2>3. proc' = [proc EXCEPT ![x] = [r EXCEPT !.pc = "persist", !.gen = g]]
    BY <1>1, <2>1 DEF FenceInv, ProcTyped
  <2>4. /\ [r EXCEPT !.pc = "persist", !.gen = g] \in ProcRecords
        /\ [r EXCEPT !.pc = "persist", !.gen = g].gen = g
    BY <2>2 DEF ProcRecords, RunnerSteps, ReaderSteps
  <2> QED BY <2>2, <2>3, <2>4 DEF FenceInv, ProcTyped, ProcRecords, Moves
<1>4. CASE Persist(x)
  <2>1. PICK c \in {"failed", "consume"} :
          proc' = [proc EXCEPT ![x].pc = c, ![x].gen = 0]
    BY <1>4 DEF Persist
  <2>2. proc' = [proc EXCEPT ![x] = [r EXCEPT !.pc = c, !.gen = 0]]
    BY <1>1, <2>1 DEF FenceInv, ProcTyped
  <2>3. /\ [r EXCEPT !.pc = c, !.gen = 0] \in ProcRecords
        /\ [r EXCEPT !.pc = c, !.gen = 0].pc # "persist"
    <3>1. PICK n \in 0..MaxGen : n = 0
      BY Bounds
    <3>2. c \in (RunnerSteps \cup ReaderSteps) \ {"persist"}
      BY DEF RunnerSteps, ReaderSteps
    <3>3. [r EXCEPT !.pc = c, !.gen = n] \in ProcRecords
      BY <3>2 DEF ProcRecords
    <3>4. [r EXCEPT !.pc = c, !.gen = n].pc # "persist"
      BY <3>2 DEF ProcRecords
    <3> QED BY <3>1, <3>3, <3>4
  <2>4. PICK q \in ProcRecords : q = [r EXCEPT !.pc = c, !.gen = 0]
    BY <2>3
  <2>5. proc' = [proc EXCEPT ![x] = q] /\ q.pc # "persist"
    BY <2>2, <2>3, <2>4
  <2>6. proc \in [Procs -> ProcRecords]
    BY DEF FenceInv, ProcTyped, ProcRecords
  <2> QED BY <2>5, <2>6 DEF Moves
<1> QED BY <1>2, <1>3, <1>4 DEF DrainStep

LEMMA RunnerMoves == ASSUME FenceInv, NEW x \in Runners, RunnerStep(x) \/ Crash(x) PROVE Moves(x)
<1>1. x \in Procs
  BY DEF Procs
<1>2. PICK r \in ProcRecords : r = proc[x]
  BY <1>1 DEF FenceInv, ProcTyped, ProcRecords
<1>3. CASE DrainStep(x)
  BY <1>1, <1>3, DrainMoves
<1>4. CASE EnsureTemporal(x) \/ EnsureFails(x)
  <2>1. PICK c \in {"again", "consume"} : Goto(x, c)
    BY <1>4 DEF EnsureTemporal, EnsureFails
  <2> QED BY <1>1, <2>1, GotoMoves DEF RunnerSteps
<1>5. CASE ClaimQuarantines(x)
  <2>1. PICK c \in {"consume", "repair"}, S \in SUBSET Works :
          proc' = [proc EXCEPT ![x].pc = c, ![x].claimed = S]
    BY <1>5 DEF ClaimQuarantines
  <2>2. proc' = [proc EXCEPT ![x] = [r EXCEPT !.pc = c, !.claimed = S]]
    BY <1>1, <1>2, <2>1 DEF FenceInv, ProcTyped
  <2>3. /\ [r EXCEPT !.pc = c, !.claimed = S] \in ProcRecords
        /\ [r EXCEPT !.pc = c, !.claimed = S].pc # "persist"
    BY DEF ProcRecords, RunnerSteps
  <2> QED BY <1>1, <2>2, <2>3 DEF FenceInv, ProcTyped, ProcRecords, Moves
<1>6. CASE Repair(x)
  <2>1. PICK c \in {"consume", "repair"}, g \in proc[x].claimed :
          proc' = [proc EXCEPT ![x].pc = c, ![x].claimed = proc[x].claimed \ {g}]
    BY <1>6 DEF Repair
  <2>2. r.claimed \ {g} \in SUBSET Works
    BY DEF ProcRecords
  <2>3. PICK S \in SUBSET Works : S = r.claimed \ {g}
    BY <2>2
  <2>4. proc' = [proc EXCEPT ![x] = [r EXCEPT !.pc = c, !.claimed = S]]
    BY <1>1, <1>2, <2>1, <2>3 DEF FenceInv, ProcTyped
  <2>5. /\ [r EXCEPT !.pc = c, !.claimed = S] \in ProcRecords
        /\ [r EXCEPT !.pc = c, !.claimed = S].pc # "persist"
    BY DEF ProcRecords, RunnerSteps
  <2> QED BY <1>1, <2>4, <2>5 DEF FenceInv, ProcTyped, ProcRecords, Moves
<1>7. CASE Crash(x)
  BY <1>1, <1>7, Bounds DEF Crash, FenceInv, ProcTyped, ProcRecords, Moves, RunnerSteps
<1> QED BY <1>3, <1>4, <1>5, <1>6, <1>7 DEF RunnerStep

LEMMA ReaderMoves == ASSUME FenceInv, NEW x \in Readers, ReaderStep(x) PROVE Moves(x)
<1>1. x \in Procs
  BY DEF Procs
<1>2. PICK r \in ProcRecords : r = proc[x]
  BY <1>1 DEF FenceInv, ProcTyped, ProcRecords
<1>3. CASE DrainStep(x)
  BY <1>1, <1>3, DrainMoves
<1>4. CASE Capture(x)
  <2>1. target \in 0..MaxGen
    BY DEF FenceInv, Core, FenceTyped
  <2>2. proc' = [proc EXCEPT ![x] = [r EXCEPT !.pc = "check", !.target = target]]
    BY <1>1, <1>2, <1>4 DEF Capture, FenceInv, ProcTyped
  <2>3. /\ [r EXCEPT !.pc = "check", !.target = target] \in ProcRecords
        /\ [r EXCEPT !.pc = "check", !.target = target].pc # "persist"
    BY <2>1 DEF ProcRecords, ReaderSteps
  <2> QED BY <1>1, <2>2, <2>3 DEF FenceInv, ProcTyped, ProcRecords, Moves
<1>5. CASE Check(x)
  <2>1. PICK c \in {"failed", "final", "drain"} : Goto(x, c)
    BY <1>5 DEF Check
  <2> QED BY <1>1, <2>1, GotoMoves DEF ReaderSteps
<1>6. CASE FinalRead(x)
  <2>1. target \in Int /\ applied \in Int
    BY Bounds DEF FenceInv, Core, FenceTyped
  <2>2. Verdict(x) \in {"retry", "failed", "served"}
    BY <2>1 DEF Verdict
  <2>3. PICK c \in {"retry", "failed", "served"} : Goto(x, c)
    BY <1>6, <2>2 DEF FinalRead
  <2> QED BY <1>1, <2>3, GotoMoves DEF ReaderSteps
<1> QED BY <1>3, <1>4, <1>5, <1>6 DEF ReaderStep

-----------------------------------------------------------------------------
(***************************************************************************)
(* The invariant of the specification.                                     *)
(***************************************************************************)
Effect == \/ Reserved \/ SettledNew \/ Quiet
          \/ \E S \in SUBSET Works : Consumed(S)
          \/ \E h \in Works : Quarantined(h) \/ Rebuilt(h)

LEMMA EffectKeeps == ASSUME Core, Effect PROVE Core' /\ Monotone
  BY ReservedKeeps, SettledNewKeeps, QuietKeeps, ConsumedKeeps, QuarantinedKeeps, RebuiltKeeps
     DEF Effect

LEMMA WriteEffect == ASSUME Core, Write PROVE Effect
<1>1. ASSUME NEW a \in Assignments, NEW d \in Defects \cup {"none"}, Claim(a, d) \/ Revoke(a, d)
      PROVE  Effect
  BY <1>1, ClaimReserves DEF Effect
<1>2. CASE ChangeZone
  BY <1>2, ChangeZoneReserves DEF Effect
<1>3. ASSUME NEW p \in Plans, WriteFor(p)
      PROVE  Effect
  <2>1. CASE \/ Unlink(p)
             \/ \E t \in Times \cup {NoTime} : Link(p, t)
             \/ \E t \in Times : Book(p, t)
    <3>1. \E isLinked, slot : CrmFact(p, isLinked, slot)
      BY <2>1 DEF Unlink, Link, Book
    <3> QED BY <3>1, CrmFactSettles DEF Effect
  <2>2. CASE Unbook(p)
    BY <2>2, UnchangedQuiet DEF Unbook, Effect
  <2>3. CASE Archive(p)
    BY <2>3, ArchiveSettles DEF Effect
  <2> QED BY <1>3, <2>1, <2>2, <2>3 DEF WriteFor
<1> QED BY <1>1, <1>2, <1>3 DEF Write

LEMMA DrainEffect == ASSUME FenceInv, NEW x \in Procs, DrainStep(x) PROVE Effect
<1> USE DEF FenceInv
<1>1. CASE Consume(x)
  <2>1. ConsumeBatch /\ quar' = quar
    BY <1>1 DEF Consume
  <2>2. Batch \in SUBSET Works
    BY Bounds DEF Batch, PendingWorks, Works, Core, FenceTyped
  <2> QED BY <2>1, <2>2, BatchConsumed DEF Effect
<1>2. CASE ConsumeNothing(x) \/ RollBack(x)
  BY <1>2, UnchangedQuiet DEF ConsumeNothing, RollBack, Effect
<1>3. CASE Persist(x)
  <2>1. \A h : Quarantined(h) => h \in Works
    BY Bounds DEF Quarantined, Works, Core, FenceTyped
  <2> QED BY <1>3, <2>1, PersistEffect DEF Effect
<1> QED BY <1>1, <1>2, <1>3 DEF DrainStep

LEMMA NextEffect == ASSUME FenceInv, Next PROVE Effect
<1> USE DEF FenceInv
<1>1. CASE Write
  BY <1>1, WriteEffect
<1>2. ASSUME NEW x \in Runners, RunnerStep(x) \/ Crash(x)
      PROVE  Effect
  <2>1. CASE DrainStep(x)
    BY <2>1, DrainEffect DEF Procs
  <2>2. CASE EnsureTemporal(x)
    BY <2>2, EnsureTemporalReserves DEF Effect
  <2>3. CASE EnsureFails(x) \/ Crash(x)
    BY <2>3, UnchangedQuiet DEF EnsureFails, Crash, Effect
  <2>4. CASE ClaimQuarantines(x)
    BY <2>4, LeaseQuiet DEF Effect
  <2>5. CASE Repair(x)
    BY <2>5, RepairEffect DEF Effect
  <2> QED BY <1>2, <2>1, <2>2, <2>3, <2>4, <2>5 DEF RunnerStep
<1>3. ASSUME NEW x \in Readers, ReaderStep(x)
      PROVE  Effect
  <2>1. CASE DrainStep(x)
    BY <2>1, DrainEffect DEF Procs
  <2>2. CASE Capture(x) \/ Check(x) \/ FinalRead(x)
    BY <2>2, UnchangedQuiet DEF Capture, Check, FinalRead, Effect
  <2> QED BY <1>3, <2>1, <2>2 DEF ReaderStep
<1>4. CASE \E g \in Works : BackoffEnds(g) \/ LeaseEnds(g)
  BY <1>4, LeaseQuiet DEF Effect
<1>5. CASE Tick
  BY <1>5, UnchangedQuiet DEF Tick, Effect
<1> QED BY <1>1, <1>2, <1>3, <1>4, <1>5 DEF Next

LEMMA NextMoves == ASSUME FenceInv, Next PROVE proc' = proc \/ \E x \in Procs : Moves(x)
<1>1. CASE Write
  BY <1>1 DEF Write, WriteFor, Claim, Revoke, ChangeZone, Unlink, Unbook, Archive, Link, Book, CrmFact
<1>2. CASE \E x \in Runners : RunnerStep(x) \/ Crash(x)
  BY <1>2, RunnerMoves DEF Procs
<1>3. CASE \E x \in Readers : ReaderStep(x)
  BY <1>3, ReaderMoves DEF Procs
<1>4. CASE \E g \in Works : BackoffEnds(g) \/ LeaseEnds(g)
  BY <1>4 DEF BackoffEnds, LeaseEnds
<1>5. CASE Tick
  BY <1>5 DEF Tick
<1> QED BY <1>1, <1>2, <1>3, <1>4, <1>5 DEF Next

LEMMA InitInv == Init => FenceInv
<1> SUFFICES ASSUME Init PROVE FenceInv
  OBVIOUS
<1> USE Bounds
<1>1. NoWork \in WorkRecords /\ NoWork.state = "none" /\ NoWork.resolution = "none"
  BY DEF NoWork, WorkRecords, Resolutions
<1>2. NoQuarantine \in QuarRecords /\ NoQuarantine.state = "none"
  BY DEF NoQuarantine, QuarRecords
<1>3. \A g \in Works : work[g] = NoWork /\ quar[g] = NoQuarantine
  BY DEF Init
<1>4. FenceTyped
  BY <1>1, <1>2 DEF Init, FenceTyped
<1>5. WorkReserved
  BY <1>1, <1>3 DEF Init, WorkReserved, Works
<1>6. EventsOnly /\ SettledOnce /\ QuarantinedComesBack
  BY <1>1, <1>2, <1>3 DEF Init, EventsOnly, SettledOnce, QuarantinedComesBack
<1>7. WatermarkExact
  BY DEF Init, WatermarkExact
<1>8. ProcTyped /\ InHand
  BY DEF Init, ProcTyped, InHand, Procs, RunnerSteps, ReaderSteps
<1> QED BY <1>4, <1>5, <1>6, <1>7, <1>8 DEF FenceInv, Core

LEMMA StepInv == FenceInv /\ [Next]_vars => FenceInv' /\ Monotone
<1> SUFFICES ASSUME FenceInv, [Next]_vars PROVE FenceInv' /\ Monotone
  OBVIOUS
<1>1. CASE Next
  <2>1. Core' /\ Monotone
    BY <1>1, NextEffect, EffectKeeps DEF FenceInv
  <2>2. target \in Nat /\ target' \in Nat
    BY <2>1, Bounds DEF FenceInv, Core, FenceTyped
  <2>3. ProcTyped' /\ InHand'
    BY <1>1, <2>1, <2>2, NextMoves, MovesKeep
  <2> QED BY <2>1, <2>3 DEF FenceInv
<1>2. CASE UNCHANGED vars
  <2>1. Core' /\ Monotone
    BY <1>2, UnchangedQuiet, QuietKeeps DEF vars, FenceInv
  <2>2. ProcTyped' /\ InHand'
    BY <1>2 DEF vars, fence, FenceInv, ProcTyped, InHand
  <2> QED BY <2>1, <2>2 DEF FenceInv
<1> QED BY <1>1, <1>2

LEMMA FenceInvariant == Spec => []FenceInv
<1>1. FenceInv /\ [Next]_vars => FenceInv'
  BY StepInv
<1> QED BY InitInv, <1>1, PTL DEF Spec

\* The watermark is exact after every transaction of every actor: CRM
\* mutations that settle out of order, batches, repairs, reservations.
THEOREM WatermarkIsExact == Spec => []WatermarkExact
<1>1. FenceInv => WatermarkExact
  BY DEF FenceInv, Core
<1> QED BY FenceInvariant, <1>1, PTL

\* Work, resolution and acknowledgement go together, whoever settles a work.
THEOREM WorksSettleOnce == Spec => []SettledOnce
<1>1. FenceInv => SettledOnce
  BY DEF FenceInv, Core
<1> QED BY FenceInvariant, <1>1, PTL

\* Rolling back, quarantining and repairing on any number of servers keep the
\* quarantines and the works they hold back in step.
THEOREM QuarantineAndWorkAgree == Spec => []QuarantinedComesBack
<1>1. FenceInv => QuarantinedComesBack
  BY DEF FenceInv, Core
<1> QED BY FenceInvariant, <1>1, PTL

\* The fence implements its contract.
THEOREM FenceKeepsContract == Spec => KeepsContract
<1>1. Init => Contract!Init
  BY Bounds DEF Init, Contract!Init
<1>2. FenceInv /\ FenceInv' /\ [Next]_vars => [Contract!Transact]_(Contract!vars)
  <2> SUFFICES ASSUME FenceInv, FenceInv', [Next]_vars PROVE Contract!Transact
    OBVIOUS
  <2>1. Monotone
    BY StepInv
  <2>2. target \in Nat /\ target' \in Nat /\ target <= target' /\ applied' \in 0..target'
    BY <2>1, Bounds DEF FenceInv, Core, FenceTyped, Monotone
  <2>3. WatermarkExact'
    BY DEF FenceInv, Core
  <2> DEFINE s == {g \in 1..target : Settled(work, g)}
  <2>4. s \subseteq s' /\ s' \subseteq 1..target'
    BY <2>1, <2>2 DEF Monotone, Settled
  <2>5. 1..applied' \subseteq s' /\ (applied' < target' => applied' + 1 \notin s')
    <3>1. PICK n \in Nat, m \in Nat : n = applied' /\ m = target' /\ n <= m
      BY <2>2
    <3>2. (\A g \in 1..n : Settled(work', g)) /\ (n < m => ~Settled(work', n + 1))
      BY <2>3, <3>1 DEF WatermarkExact, Settled
    <3>3. s' = {g \in 1..m : Settled(work', g)}
      BY <3>1 DEF Settled
    <3>4. 1..n \subseteq 1..m
      BY <3>1
    <3> HIDE DEF s
    <3> QED BY <3>1, <3>2, <3>3, <3>4
  <2> QED BY <2>2, <2>4, <2>5 DEF Contract!Transact, Contract!Contiguous
<1> QED BY <1>1, <1>2, FenceInvariant, PTL DEF Spec, KeepsContract, Contract!Spec

-----------------------------------------------------------------------------
(***************************************************************************)
(* The projection.  Whatever is not projected yet is owed by a work that   *)
(* is still to be applied and that recomputes the plan.                    *)
(***************************************************************************)
Recomputes(w) == w.kind \in AssignmentKinds \cup {"timezone"}
Owed(p) == \E g \in 1..target : work[g].state # "applied" /\ Recomputes(work[g]) /\ PlanFor(work[g]) = p
Behind(p) == \/ \E a \in AssignmentsOf(p) : src[a] # rev[a]
             \/ seenZone[p] # zone /\ \E a \in AssignmentsOf(p) : rev[a] # 0

ProjectionTyped == /\ DOMAIN rev = Assignments /\ DOMAIN src = Assignments /\ DOMAIN seenZone = Plans
                   /\ rev = [a \in Assignments |-> rev[a]] /\ src = [a \in Assignments |-> src[a]]
                   /\ seenZone = [p \in Plans |-> seenZone[p]]
ProjectionInv == ProjectionTyped /\ \A p \in Plans : Behind(p) => Owed(p)

\* Works that were reserved stay about the same, and are applied only if their plans P are
\* projected in the same step, or need not be.
AppliedFor(P) ==
  \A g \in 1..target : /\ work'[g].kind = work[g].kind /\ work'[g].about = work[g].about
                       /\ work'[g].state = "applied" /\ Recomputes(work[g])
                            => work[g].state = "applied" \/ PlanFor(work[g]) \in P

LEMMA ProjectionKept ==
  ASSUME FenceInv, ProjectionInv, target' \in Nat, target <= target', NEW P, AppliedFor(P),
         UNCHANGED <<rev, zone>>, src' = ProjectSources(P), seenZone' = ProjectZone(P)
  PROVE  ProjectionInv'
<1>1. target \in Nat
  BY Bounds DEF FenceInv, Core, FenceTyped
<1>2. ProjectionTyped'
  BY DEF ProjectionInv, ProjectionTyped, ProjectSources, ProjectZone
<1>3. ASSUME NEW p \in Plans, Behind(p)' PROVE Owed(p)'
  <2>1. \A a \in AssignmentsOf(p) : a \in Assignments /\ PlanOf[a] = p
    BY DEF AssignmentsOf
  <2>2. p \notin P /\ Behind(p)
    <3>1. \A a \in AssignmentsOf(p) : src'[a] = IF p \in P THEN rev[a] ELSE src[a]
      BY <2>1 DEF ProjectSources
    <3>2. seenZone'[p] = IF p \in P THEN zone ELSE seenZone[p]
      BY DEF ProjectZone
    <3> QED
      BY <1>3, <3>1, <3>2 DEF Behind
  <2>3. PICK g \in 1..target : work[g].state # "applied" /\ Recomputes(work[g]) /\ PlanFor(work[g]) = p
    BY <2>2 DEF ProjectionInv, Owed
  <2>4. /\ work'[g].kind = work[g].kind /\ work'[g].about = work[g].about
        /\ work'[g].state # "applied"
    BY <2>2, <2>3 DEF AppliedFor
  <2>5. Recomputes(work'[g]) /\ PlanFor(work'[g]) = p
    BY <2>3, <2>4 DEF Recomputes, PlanFor
  <2>6. g \in 1..target'
    BY <1>1
  <2> QED
    BY <2>4, <2>5, <2>6 DEF Owed
<1> QED
  BY <1>2, <1>3 DEF ProjectionInv

\* A step that projects nothing.
LEMMA NothingProjected ==
  ASSUME FenceInv, ProjectionInv, target' \in Nat, target <= target', AppliedFor({}),
         UNCHANGED <<rev, zone, src, seenZone>>
  PROVE  ProjectionInv'
<1>1. src' = ProjectSources({}) /\ seenZone' = ProjectZone({})
  BY DEF ProjectionInv, ProjectionTyped, ProjectSources, ProjectZone
<1> QED
  BY <1>1, ProjectionKept

\* Reserving, and settling at once what was reserved, leave the earlier works alone.
LEMMA EarlierWorksStay ==
  ASSUME FenceInv, Reserved \/ SettledNew, NEW P
  PROVE  AppliedFor(P) /\ target' \in Nat /\ target <= target'
<1>1. target \in Nat /\ target <= MaxGen
  BY Bounds DEF FenceInv, Core, FenceTyped
<1>2. \A g \in 1..target : g \in Works
  BY <1>1, Bounds DEF Works
<1>3. target' \in Nat /\ target <= target' /\ \A g \in 1..target : g \in Works => work'[g] = work[g]
  BY <1>1, Bounds DEF Reserved, SettledNew
<1> QED
  BY <1>2, <1>3 DEF AppliedFor

LEMMA ClaimProjection ==
  ASSUME FenceInv, ProjectionInv, NEW a \in Assignments, NEW d \in Defects \cup {"none"},
         Claim(a, d) \/ Revoke(a, d)
  PROVE  ProjectionInv'
<1>1. target \in Nat /\ target + 1 <= MaxGen /\ target' = target + 1 /\ target + 1 \in Works
  BY Bounds DEF FenceInv, Core, FenceTyped, Claim, Revoke, WriterRoom, Works
<1>2. PICK kind \in AssignmentKinds : work' = ReserveOne(kind, a, d)
  BY DEF Claim, Revoke, AssignmentKinds
<1>3. work'[target + 1] = Pending(kind, a, d)
  <2>1. target + 1 - target = 1
    BY <1>1
  <2> QED
    BY <1>1, <1>2, <2>1 DEF ReserveOne, Reserve
<1>4. /\ work'[target + 1].state # "applied" /\ Recomputes(work'[target + 1])
      /\ PlanFor(work'[target + 1]) = PlanOf[a]
  BY <1>3 DEF Pending, Recomputes, PlanFor
<1>5. AppliedFor({})
  BY ClaimReserves, EarlierWorksStay DEF FenceInv
<1>6. UNCHANGED <<zone, src, seenZone>> /\ (\E v : rev' = [rev EXCEPT ![a] = v])
  BY DEF Claim, Revoke, projection
<1>7. ProjectionTyped'
  BY <1>6 DEF ProjectionInv, ProjectionTyped
<1>8. ASSUME NEW p \in Plans, Behind(p)' PROVE Owed(p)'
  <2>1. CASE p = PlanOf[a]
    BY <1>1, <1>4, <2>1 DEF Owed
  <2>2. CASE p # PlanOf[a]
    <3>1. \A b \in AssignmentsOf(p) : b \in Assignments /\ b # a
      BY <2>2 DEF AssignmentsOf
    <3>2. \A b \in AssignmentsOf(p) : rev'[b] = rev[b]
      BY <1>6, <3>1 DEF ProjectionInv, ProjectionTyped
    <3>3. Behind(p)
      BY <1>6, <1>8, <3>2 DEF Behind
    <3>4. PICK g \in 1..target : work[g].state # "applied" /\ Recomputes(work[g]) /\ PlanFor(work[g]) = p
      BY <3>3 DEF ProjectionInv, Owed
    <3>5. work'[g].kind = work[g].kind /\ work'[g].about = work[g].about /\ work'[g].state # "applied"
      BY <1>5, <3>4 DEF AppliedFor
    <3>6. Recomputes(work'[g]) /\ PlanFor(work'[g]) = p
      BY <3>4, <3>5 DEF Recomputes, PlanFor
    <3> QED
      BY <1>1, <3>5, <3>6 DEF Owed
  <2> QED
    BY <2>1, <2>2
<1> QED
  BY <1>7, <1>8 DEF ProjectionInv

\* The plans in their order are all there.
LEMMA OrderingsReachAll ==
  ASSUME NEW S \in SUBSET Plans, NEW o \in Orderings(S), NEW p \in S
  PROVE  \E i \in 1..Cardinality(S) : o[i] = p
<1>1. IsFiniteSet(S) /\ S \subseteq Nat
  BY SetsAssumption, FS_Subset
<1>2. Cardinality(S) \in Nat
  BY <1>1, FS_CardinalityType
<1>3. PICK n \in Nat : n = Cardinality(S)
  BY <1>2
<1>4. IsFiniteSet(1..n) /\ Cardinality(1..n) = n
  BY <1>3, FS_Interval
<1>5. o \in [1..n -> S] /\ \A i, j \in 1..n : i < j => o[i] < o[j]
  BY <1>3 DEF Orderings
<1>6. \A i, j \in 1..n : o[i] = o[j] => i = j
  <2> SUFFICES ASSUME NEW i \in 1..n, NEW j \in 1..n, o[i] = o[j] PROVE i = j
    OBVIOUS
  <2>1. o[i] \in Nat /\ o[j] \in Nat
    BY <1>1, <1>5
  <2>2. ~(i < j) /\ ~(j < i)
    BY <1>5, <2>1
  <2> QED
    BY <2>2
<1>7. o \in Injection(1..n, S)
  BY <1>5, <1>6 DEF Injection, IsInjective
<1>8. o \in Surjection(1..n, S)
  BY <1>1, <1>3, <1>4, <1>7, FS_Injection
<1> QED
  BY <1>3, <1>8 DEF Surjection

LEMMA ChangeZoneProjection == ASSUME FenceInv, ProjectionInv, ChangeZone PROVE ProjectionInv'
<1> DEFINE S == {p \in Plans : \E a \in AssignmentsOf(p) : rev[a] # 0 \/ src[a] # 0}
<1>1. PICK o \in Orderings(S) : work' = Reserve("timezone", o, Cardinality(S), "none")
  BY DEF ChangeZone
<1>2. target' = target + Cardinality(S) /\ UNCHANGED <<rev, src, seenZone>> /\ WriterRoom(Cardinality(S))
  BY DEF ChangeZone, projection
<1>3. S \in SUBSET Plans
  OBVIOUS
<1>4. PICK n \in Nat : n = Cardinality(S)
  BY <1>3, FinitePlans
<1>5. target \in Nat /\ target + n <= MaxGen
  BY <1>2, <1>4, Bounds DEF WriterRoom, FenceInv, Core, FenceTyped
<1>6. ASSUME NEW p \in Plans, Behind(p)' PROVE Owed(p)'
  <2>1. p \in S
    BY <1>2, <1>6 DEF Behind
  <2> HIDE DEF S
  <2>2. PICK i \in 1..n : o[i] = p
    BY <1>1, <1>3, <1>4, <2>1, OrderingsReachAll
  <2>3. PICK g \in Nat : g = target + i
    BY <1>5
  <2>4. g \in Works /\ g \in target + 1 .. target + n /\ g - target = i /\ g \in 1..target'
    BY <1>2, <1>4, <1>5, <2>3, Bounds DEF Works
  <2>5. work'[g] = Pending("timezone", p, "none")
    BY <1>1, <1>4, <2>2, <2>4 DEF Reserve
  <2>6. work'[g].state # "applied" /\ Recomputes(work'[g]) /\ PlanFor(work'[g]) = p
    BY <2>5 DEF Pending, Recomputes, PlanFor, AssignmentKinds
  <2> QED
    BY <2>4, <2>6 DEF Owed
<1> QED
  BY <1>2, <1>6 DEF ProjectionInv, ProjectionTyped

LEMMA CrmProjection ==
  ASSUME FenceInv, ProjectionInv, NEW p \in Plans, NEW isLinked, NEW slot, CrmFact(p, isLinked, slot)
  PROVE  ProjectionInv'
<1>1. SettledNew
  BY CrmFactSettles DEF FenceInv
<1>2. AppliedFor({p}) /\ target' \in Nat /\ target <= target'
  BY <1>1, EarlierWorksStay
<1>3. UNCHANGED <<rev, zone>> /\ src' = ProjectSources({p}) /\ seenZone' = ProjectZone({p})
  BY DEF CrmFact
<1> QED
  BY <1>2, <1>3, ProjectionKept

LEMMA ArchiveProjection ==
  ASSUME FenceInv, ProjectionInv, NEW p \in Plans, Archive(p) PROVE ProjectionInv'
<1>1. SettledNew
  BY ArchiveSettles DEF FenceInv
<1>2. AppliedFor({}) /\ target' \in Nat /\ target <= target'
  BY <1>1, EarlierWorksStay
<1> QED
  BY <1>2, NothingProjected DEF Archive

LEMMA TemporalProjection ==
  ASSUME FenceInv, ProjectionInv, NEW x, EnsureTemporal(x) PROVE ProjectionInv'
<1>1. AppliedFor({}) /\ target' \in Nat /\ target <= target'
  BY EnsureTemporalReserves, EarlierWorksStay DEF FenceInv
<1> QED
  BY <1>1, NothingProjected DEF EnsureTemporal, facts, projection

LEMMA ConsumeProjection ==
  ASSUME FenceInv, ProjectionInv, ConsumeBatch, UNCHANGED <<rev, zone>> PROVE ProjectionInv'
<1>1. PICK P : P = {PlanFor(work[g]) : g \in Recomputing}
  OBVIOUS
<1>2. src' = ProjectSources(P) /\ seenZone' = ProjectZone(P)
  BY <1>1 DEF ConsumeBatch
<1>3. target' = target /\ work' = Apply(work, Batch)
  BY DEF ConsumeBatch, Settle
<1>4. target \in Nat /\ target <= MaxGen
  BY Bounds DEF FenceInv, Core, FenceTyped
<1>5. AppliedFor(P)
  <2> SUFFICES ASSUME NEW g \in 1..target
               PROVE  /\ work'[g].kind = work[g].kind /\ work'[g].about = work[g].about
                      /\ work'[g].state = "applied" /\ Recomputes(work[g])
                           => work[g].state = "applied" \/ PlanFor(work[g]) \in P
    BY DEF AppliedFor
  <2>1. g \in Works
    BY <1>4, Bounds DEF Works
  <2>2. CASE g \in Batch
    <3>1. PICK r \in WorkRecords : r = work[g]
      BY <2>1 DEF FenceInv, Core, FenceTyped
    <3>2. PICK v : v = ResolutionOf(r.kind)
      OBVIOUS
    <3>3. work'[g] = [r EXCEPT !.state = "applied", !.resolution = v]
      BY <1>3, <2>1, <2>2, <3>1, <3>2 DEF Apply
    <3>4. work'[g].kind = r.kind /\ work'[g].about = r.about
      BY <3>3 DEF WorkRecords
    <3>5. Recomputes(work[g]) => PlanFor(work[g]) \in P
      BY <1>1, <2>2 DEF Recomputing, Recomputes, AssignmentKinds
    <3> QED
      BY <3>1, <3>4, <3>5
  <2>3. CASE g \notin Batch
    BY <1>3, <2>1, <2>3 DEF Apply
  <2> QED
    BY <2>2, <2>3
<1> QED
  BY <1>2, <1>3, <1>4, <1>5, ProjectionKept

\* Work records that lose nothing but state and resolution.
LEMMA StillAbout ==
  ASSUME NEW r \in WorkRecords, NEW st, NEW res
  PROVE  /\ [r EXCEPT !.state = st].kind = r.kind /\ [r EXCEPT !.state = st].about = r.about
         /\ [r EXCEPT !.state = st].state = st
         /\ [r EXCEPT !.state = st, !.resolution = res].kind = r.kind
         /\ [r EXCEPT !.state = st, !.resolution = res].about = r.about
BY DEF WorkRecords

LEMMA PersistProjection ==
  ASSUME FenceInv, ProjectionInv, NEW x \in Procs, Persist(x) PROVE ProjectionInv'
<1>1. UNCHANGED <<target, rev, zone, src, seenZone>>
  BY DEF Persist, facts, projection
<1>2. target \in Nat /\ target <= MaxGen /\ work \in [Works -> WorkRecords]
  BY Bounds DEF FenceInv, Core, FenceTyped
<1>3. PICK h : h = proc[x].gen
  OBVIOUS
<1>4. AppliedFor({})
  <2> SUFFICES ASSUME NEW g \in 1..target
               PROVE  /\ work'[g].kind = work[g].kind /\ work'[g].about = work[g].about
                      /\ work'[g].state = "applied" => work[g].state = "applied"
    BY DEF AppliedFor
  <2>1. g \in Works
    BY <1>2, Bounds DEF Works
  <2>2. PICK r \in WorkRecords : r = work[g]
    BY <1>2, <2>1
  <2>3. work' = work \/ work' = [work EXCEPT ![h].state = "quarantined"]
    BY <1>3 DEF Persist, Quarantine
  <2>4. work'[g] = r \/ work'[g] = [r EXCEPT !.state = "quarantined"]
    BY <1>2, <2>1, <2>2, <2>3
  <2>5. PICK q : q = [r EXCEPT !.state = "quarantined"]
    OBVIOUS
  <2>6. q.kind = r.kind /\ q.about = r.about /\ q.state = "quarantined"
    BY <2>5, StillAbout
  <2> QED
    BY <2>2, <2>4, <2>5, <2>6
<1> QED
  BY <1>1, <1>2, <1>4, NothingProjected

LEMMA RepairProjection ==
  ASSUME FenceInv, ProjectionInv, NEW x \in Runners, Repair(x) PROVE ProjectionInv'
<1>1. PICK h \in proc[x].claimed :
         \/ Repairable(h) /\ Rebuild(h)
         \/ ~Repairable(h) /\ UNCHANGED <<fence, inbox, quar, projection>>
  BY DEF Repair
<1>2. target \in Nat /\ target <= MaxGen /\ work \in [Works -> WorkRecords]
  BY Bounds DEF FenceInv, Core, FenceTyped
<1>3. UNCHANGED <<rev, zone>>
  BY DEF Repair, facts
<1>4. CASE UNCHANGED <<fence, inbox, quar, projection>>
  <2>1. AppliedFor({})
    BY <1>4 DEF AppliedFor, fence
  <2> QED
    BY <1>2, <1>3, <1>4, <2>1, NothingProjected DEF fence, projection
<1>5. CASE Rebuild(h)
  <2>1. PICK P : P = {PlanFor(work[h])}
    OBVIOUS
  <2>2. target' = target /\ src' = ProjectSources(P) /\ seenZone' = ProjectZone(P)
    BY <1>5, <2>1 DEF Rebuild
  <2>3. work' = [work EXCEPT ![h].state = "applied", ![h].resolution = "rebuild_verified"]
    BY <1>5 DEF Rebuild
  <2>4. AppliedFor(P)
    <3> SUFFICES ASSUME NEW g \in 1..target
                 PROVE  /\ work'[g].kind = work[g].kind /\ work'[g].about = work[g].about
                        /\ work'[g].state = "applied" /\ Recomputes(work[g])
                             => work[g].state = "applied" \/ PlanFor(work[g]) \in P
      BY DEF AppliedFor
    <3>1. g \in Works
      BY <1>2, Bounds DEF Works
    <3>2. PICK r \in WorkRecords : r = work[g]
      BY <1>2, <3>1
    <3>3. CASE g # h
      BY <1>2, <2>3, <3>1, <3>3
    <3>4. CASE g = h
      <4>1. work'[g] = [r EXCEPT !.state = "applied", !.resolution = "rebuild_verified"]
        BY <1>2, <2>3, <3>1, <3>2, <3>4
      <4> QED
        BY <2>1, <3>2, <3>4, <4>1, StillAbout
    <3> QED
      BY <3>3, <3>4
  <2> QED
    BY <1>2, <1>3, <2>2, <2>4, ProjectionKept
<1> QED
  BY <1>1, <1>4, <1>5

LEMMA ProjectionStands ==
  ASSUME FenceInv, ProjectionInv, UNCHANGED <<fence, rev, zone, src, seenZone>> PROVE ProjectionInv'
<1>1. AppliedFor({}) /\ target' = target /\ target \in Nat
  BY Bounds DEF AppliedFor, fence, FenceInv, Core, FenceTyped
<1> QED
  BY <1>1, NothingProjected

LEMMA ProjectionStep == FenceInv /\ ProjectionInv /\ [Next]_vars => ProjectionInv'
<1> SUFFICES ASSUME FenceInv, ProjectionInv, [Next]_vars PROVE ProjectionInv'
  OBVIOUS
<1>1. CASE Write
  <2>1. ASSUME NEW a \in Assignments, NEW d \in Defects \cup {"none"}, Claim(a, d) \/ Revoke(a, d)
        PROVE  ProjectionInv'
    BY <2>1, ClaimProjection
  <2>2. ASSUME NEW p \in Plans, WriteFor(p) PROVE ProjectionInv'
    <3>1. CASE Unbook(p)
      BY <3>1, ProjectionStands DEF Unbook, projection
    <3>2. CASE Archive(p)
      BY <3>2, ArchiveProjection
    <3>3. CASE \E isLinked, slot : CrmFact(p, isLinked, slot)
      BY <3>3, CrmProjection
    <3> QED
      BY <2>2, <3>1, <3>2, <3>3 DEF WriteFor, Unlink, Link, Book
  <2> QED
    BY <1>1, <2>1, <2>2, ChangeZoneProjection DEF Write
<1>2. ASSUME NEW x \in Procs, DrainStep(x) PROVE ProjectionInv'
  <2>1. CASE Consume(x)
    BY <2>1, ConsumeProjection DEF Consume, facts
  <2>2. CASE ConsumeNothing(x) \/ RollBack(x)
    BY <2>2, ProjectionStands DEF ConsumeNothing, RollBack, facts, projection
  <2>3. CASE Persist(x)
    BY <2>3, PersistProjection
  <2> QED
    BY <1>2, <2>1, <2>2, <2>3 DEF DrainStep
<1>3. ASSUME NEW x \in Runners, RunnerStep(x) \/ Crash(x) PROVE ProjectionInv'
  <2>1. CASE EnsureFails(x) \/ ClaimQuarantines(x) \/ Crash(x)
    BY <2>1, ProjectionStands DEF EnsureFails, ClaimQuarantines, Crash, facts, projection
  <2> QED
    BY <1>2, <1>3, <2>1, TemporalProjection, RepairProjection DEF RunnerStep, Procs
<1>4. ASSUME NEW x \in Readers, ReaderStep(x) PROVE ProjectionInv'
  <2>1. CASE Capture(x) \/ Check(x) \/ FinalRead(x)
    BY <2>1, ProjectionStands DEF Capture, Check, FinalRead, facts, projection
  <2> QED
    BY <1>2, <1>4, <2>1 DEF ReaderStep, Procs
<1>5. CASE Tick \/ (\E g \in Works : BackoffEnds(g) \/ LeaseEnds(g)) \/ UNCHANGED vars
  BY <1>5, ProjectionStands DEF Tick, BackoffEnds, LeaseEnds, vars, facts, projection
<1> QED
  BY <1>1, <1>3, <1>4, <1>5 DEF Next

LEMMA ProjectionInvariant == Spec => []ProjectionInv
<1>1. Init => ProjectionInv
  <2> SUFFICES ASSUME Init PROVE ProjectionInv
    OBVIOUS
  <2>1. ProjectionTyped /\ \A a \in Assignments : src[a] = 0 /\ rev[a] = 0
    BY DEF Init, ProjectionTyped
  <2>2. \A p \in Plans : ~Behind(p)
    BY <2>1 DEF Behind, AssignmentsOf
  <2> QED
    BY <2>1, <2>2 DEF ProjectionInv
<1>2. FenceInv /\ ProjectionInv /\ [Next]_vars => ProjectionInv'
  BY ProjectionStep
<1> QED
  BY FenceInvariant, <1>1, <1>2, PTL DEF Spec

LEMMA CaughtUp == FenceInv /\ ProjectionInv => CaughtUpMeansProjected
<1> SUFFICES ASSUME FenceInv, ProjectionInv, applied = target PROVE CaughtUpMeansProjected
  BY DEF CaughtUpMeansProjected
<1>1. \A g \in 1..target : work[g].state = "applied"
  BY DEF FenceInv, Core, WatermarkExact, Settled
<1>2. \A p \in Plans : ~Behind(p)
  BY <1>1 DEF ProjectionInv, Owed
<1>3. \A a \in Assignments : PlanOf[a] \in Plans /\ a \in AssignmentsOf(PlanOf[a])
  BY SetsAssumption DEF AssignmentsOf
<1>4. src = rev
  BY <1>2, <1>3 DEF Behind, ProjectionInv, ProjectionTyped
<1> QED
  BY <1>2, <1>4 DEF Behind, CaughtUpMeansProjected

\* Nobody who finds the watermark at the target misses a change: until it is projected, a work
\* is owed (assignment_projection_repository.go, settings_adapter.go and whoever consumes them).
THEOREM CaughtUpIsProjected == Spec => []CaughtUpMeansProjected
<1>1. FenceInv /\ ProjectionInv => CaughtUpMeansProjected
  BY CaughtUp
<1> QED
  BY FenceInvariant, ProjectionInvariant, <1>1, PTL

\* A read is served from a projection that shows every assignment as it is and no group of a
\* shoot that has started, whatever was written while the read was draining.
THEOREM ServedReadsAreLatest == Spec => ReadsServeTheLatest
<1>1. FenceInv /\ ProjectionInv /\ [Next]_vars =>
        [\A x \in Readers : Served(x) => src = rev /\ applied = target /\ Expired = {}]_vars
  <2> SUFFICES ASSUME FenceInv, ProjectionInv, [Next]_vars, NEW x \in Readers, Served(x)
               PROVE  src = rev /\ applied = target /\ Expired = {}
    OBVIOUS
  <2>1. FinalRead(x) /\ Verdict(x) = "served"
    <3>1. proc'[x].pc = "served" /\ proc[x].pc # "served" /\ x \in Procs /\ x \notin Runners
      BY SetsAssumption DEF Served, Procs
    <3>2. proc \in [Procs -> ProcRecords]
      BY DEF FenceInv, ProcTyped, ProcRecords
    <3>3. \A y \in Procs : \A c : Goto(y, c) /\ proc'[x].pc = "served" => y = x /\ c = "served"
      BY <3>1, <3>2 DEF Goto, ProcRecords
    <3>4. ASSUME NEW y \in Procs, DrainStep(y) PROVE FALSE
      <4>1. ~\E c \in {"ensure", "claim", "check", "failed"} : Goto(y, c)
        BY <3>1, <3>3
      <4>2. CASE Consume(y) \/ ConsumeNothing(y)
        BY <4>1, <4>2 DEF Consume, ConsumeNothing, Consuming, AfterConsume
      <4>3. CASE RollBack(y)
        <5>1. PICK g : proc' = [proc EXCEPT ![y].pc = "persist", ![y].gen = g]
          BY <4>3 DEF RollBack
        <5> QED
          BY <3>1, <3>2, <5>1 DEF ProcRecords
      <4>4. CASE Persist(y)
        <5>1. PICK c \in {"failed", "consume"} : proc' = [proc EXCEPT ![y].pc = c, ![y].gen = 0]
          BY <4>4 DEF Persist
        <5> QED
          BY <3>1, <3>2, <5>1 DEF ProcRecords
      <4> QED
        BY <3>4, <4>2, <4>3, <4>4 DEF DrainStep
    <3>5. ~Write /\ ~Tick /\ proc' # proc
      BY <3>1 DEF Write, WriteFor, Claim, Revoke, ChangeZone, Unlink, Unbook, Archive, Link, Book,
                  CrmFact, Tick
    <3>6. ASSUME NEW y \in Runners, RunnerStep(y) \/ Crash(y) PROVE FALSE
      <4>1. y \in Procs /\ y # x
        BY <3>1 DEF Procs
      <4>2. proc'[x] = proc[x]
        BY <3>6, <4>1, RunnerMoves, <3>1 DEF Moves
      <4> QED
        BY <3>1, <4>2
    <3>7. ~\E g \in Works : BackoffEnds(g) \/ LeaseEnds(g)
      BY <3>5 DEF BackoffEnds, LeaseEnds
    <3>8. PICK y \in Readers : ReaderStep(y)
      BY <3>5, <3>6, <3>7 DEF Next, vars
    <3>9. y \in Procs
      BY DEF Procs
    <3>10. ~Capture(y)
      <4> SUFFICES ASSUME Capture(y) PROVE FALSE
        OBVIOUS
      <4>1. proc' = [proc EXCEPT ![y].pc = "check", ![y].target = target]
        BY DEF Capture
      <4> QED
        BY <3>1, <3>2, <4>1 DEF ProcRecords
    <3>11. ~Check(y)
      <4> SUFFICES ASSUME Check(y) PROVE FALSE
        OBVIOUS
      <4>1. PICK c \in {"failed", "final", "drain"} : Goto(y, c)
        BY DEF Check
      <4> QED
        BY <3>1, <3>3, <3>9, <4>1
    <3>12. FinalRead(y)
      BY <3>4, <3>8, <3>9, <3>10, <3>11 DEF ReaderStep
    <3>13. y = x /\ Verdict(y) = "served"
      BY <3>1, <3>3, <3>9, <3>12 DEF FinalRead
    <3> QED
      BY <3>12, <3>13
  <2>2. target \in Nat /\ applied \in Nat /\ applied <= target
    BY Bounds DEF FenceInv, Core, FenceTyped
  <2>3. target = proc[x].target /\ applied >= target /\ Expired = {}
    BY <2>1, <2>2 DEF Verdict
  <2>4. applied = target
    BY <2>2, <2>3
  <2> QED
    BY <2>3, <2>4, CaughtUp DEF CaughtUpMeansProjected
<1> QED
  BY FenceInvariant, ProjectionInvariant, <1>1, PTL DEF Spec, ReadsServeTheLatest

-----------------------------------------------------------------------------
(***************************************************************************)
(* Time passing.  Only the start of a shoot that the clock has reached has *)
(* a marker, and a reducer withdraws a group or names a start after the    *)
(* time it decides at: the present one, but for a CRM mutation that waits. *)
(***************************************************************************)
Starts == Times \cup {NoTime}

MarkersTyped ==
  /\ now \in Nat /\ booked \in [Plans -> Starts] /\ group \in [Plans -> Starts]
  /\ DOMAIN marker = Plans
  /\ \A p \in Plans : DOMAIN marker[p] = Times /\ \A t \in Times : DOMAIN marker[p][t] = {"state", "gen"}

MarkedHaveStarted == \A p \in Plans, t \in Times : marker[p][t].state # "none" => t <= now

MarkersInv == MarkersTyped /\ MarkedHaveStarted

\* A step that keeps this, and by which only a late writer brings an ended group back.
EndedKept == MarkersInv' /\ \A p \in Plans : Reopens(p) => LateMutation(p)

LEMMA StartsAreTimes == \A t \in Starts : t \in Nat /\ (t # NoTime <=> t \in Times)
BY SetsAssumption DEF Starts, NoTime

\* What the reducer wants is ahead.
LEMMA DesiredIsAhead ==
  ASSUME NEW p, NEW isLinked, NEW slot \in Starts, NEW isArchived, NEW t
  PROVE  /\ Desired(p, isLinked, slot, isArchived, t) \in Starts
         /\ Desired(p, isLinked, slot, isArchived, t) # NoTime => Desired(p, isLinked, slot, isArchived, t) > t
BY DEF Desired, Starts

\* Groups that stay or lie ahead, while markers stay.
LEMMA GroupsAhead ==
  ASSUME MarkersInv, now' \in Nat, now <= now', marker' = marker, booked' \in [Plans -> Starts],
         group' \in [Plans -> Starts],
         \A p \in Plans : group'[p] \in {group[p], NoTime} \/ group'[p] > now
  PROVE  EndedKept
<1>1. MarkersTyped'
  BY DEF MarkersInv, MarkersTyped
<1>2. MarkedHaveStarted'
  <2> SUFFICES ASSUME NEW p \in Plans, NEW t \in Times, marker'[p][t].state # "none" PROVE t <= now'
    BY DEF MarkedHaveStarted
  <2>1. t \in Nat /\ t <= now /\ now \in Nat
    BY SetsAssumption DEF MarkersInv, MarkedHaveStarted, MarkersTyped
  <2> QED
    BY <2>1
<1>3. ASSUME NEW p \in Plans, Reopens(p) PROVE FALSE
  <2>1. group'[p] # NoTime /\ marker[p][group'[p]].state = "applied"
    BY <1>3 DEF Reopens, Outlived, MarkerOf
  <2>2. group'[p] \in Times /\ group'[p] \in Nat /\ now \in Nat
    BY <2>1, StartsAreTimes DEF MarkersInv, MarkersTyped
  <2>3. group'[p] <= now
    BY <2>1, <2>2 DEF MarkersInv, MarkedHaveStarted
  <2>4. group'[p] = group[p]
    BY <2>1, <2>2, <2>3
  <2> QED
    BY <1>3, <2>1, <2>4 DEF Reopens, Outlived, MarkerOf
<1> QED
  BY <1>1, <1>2, <1>3 DEF MarkersInv, EndedKept

LEMMA GroupsStand ==
  ASSUME MarkersInv, UNCHANGED <<now, marker, group>>, booked' \in [Plans -> Starts]
  PROVE  EndedKept
BY GroupsAhead DEF MarkersInv, MarkersTyped

LEMMA CrmEnded ==
  ASSUME FenceInv, MarkersInv, NEW p \in Plans, NEW isLinked, NEW slot \in Starts,
         CrmFact(p, isLinked, slot)
  PROVE  EndedKept
<1>1. now \in Nat /\ group \in [Plans -> Starts] /\ booked \in [Plans -> Starts]
  BY DEF MarkersInv, MarkersTyped
<1>2. PICK read \in 0..now : read >= now - WriterLag
                             /\ group' = [group EXCEPT ![p] = Desired(p, isLinked, slot, FALSE, read)]
  BY DEF CrmFact
<1>3. PICK v \in Starts : v = Desired(p, isLinked, slot, FALSE, read) /\ (v # NoTime => v > read)
  BY DesiredIsAhead
<1>4. group' = [group EXCEPT ![p] = v]
  BY <1>2, <1>3
<1>5. UNCHANGED <<now, marker>> /\ booked' = [booked EXCEPT ![p] = slot]
  BY DEF CrmFact
<1>6. MarkersInv'
  <2>1. booked' \in [Plans -> Starts] /\ group' \in [Plans -> Starts]
    BY <1>1, <1>4, <1>5
  <2> QED
    BY <1>5, <2>1 DEF MarkersInv, MarkersTyped, MarkedHaveStarted
<1>7. ASSUME NEW q \in Plans, Reopens(q) PROVE LateMutation(q)
  <2>1. q = p /\ v # NoTime
    <3>1. group'[q] # NoTime /\ marker[q][group'[q]].state = "applied"
      BY <1>5, <1>7 DEF Reopens, Outlived, MarkerOf
    <3>2. group'[q] # group[q]
      BY <1>7, <3>1 DEF Reopens, Outlived, MarkerOf
    <3> QED
      BY <1>1, <1>4, <3>1, <3>2
  <2>2. now < group'[p] + WriterLag
    <3>1. group'[p] = v /\ v > read
      BY <1>1, <1>3, <1>4, <2>1
    <3>2. v \in Nat /\ read \in Nat /\ now \in Nat /\ WriterLag \in Nat
      BY <1>1, <1>2, StartsAreTimes, BoundsAssumption
    <3>3. read >= now - WriterLag
      BY <1>2
    <3>4. now < v + WriterLag
      BY <3>1, <3>2, <3>3
    <3> QED
      BY <3>1, <3>4
  <2>3. target' = target + 1 /\ target + 1 \in Works
    BY BoundsAssumption DEF CrmFact, Settle, WriterRoom, Works, FenceInv, Core, FenceTyped
  <2>4. work'[target'].kind = "lifecycle" /\ work'[target'].about = p
    <3>1. PICK w : w = ReserveOne("lifecycle", p, "none")
      OBVIOUS
    <3>2. w[target + 1] = Pending("lifecycle", p, "none")
      BY <2>3, <3>1 DEF ReserveOne, Reserve, FenceInv, Core, FenceTyped, Works
    <3>3. work' = Apply(w, {target + 1})
      BY <3>1 DEF CrmFact, Settle
    <3>4. PICK r : r = ResolutionOf(w[target + 1].kind)
      OBVIOUS
    <3>5. work'[target + 1] = [w[target + 1] EXCEPT !.state = "applied", !.resolution = r]
      <4>1. PICK n : n = target + 1
        OBVIOUS
      <4>2. n \in Works /\ n \in {n} /\ work' = Apply(w, {n}) /\ r = ResolutionOf(w[n].kind)
        BY <2>3, <3>3, <3>4, <4>1
      <4>3. work'[n] = [w[n] EXCEPT !.state = "applied", !.resolution = ResolutionOf(w[n].kind)]
        BY <4>2, Zenon DEF Apply
      <4> QED
        BY <4>1, <4>2, <4>3
    <3>6. work'[target + 1].kind = "lifecycle" /\ work'[target + 1].about = p
      BY <3>2, <3>5 DEF Pending
    <3> QED
      BY <2>3, <3>6
  <2> QED
    BY <2>1, <2>2, <2>3, <2>4 DEF LateMutation
<1> QED
  BY <1>6, <1>7 DEF EndedKept

LEMMA ArchiveEnded ==
  ASSUME MarkersInv, NEW p \in Plans, Archive(p) PROVE EndedKept
<1>1. group' = [group EXCEPT ![p] = NoTime] /\ UNCHANGED <<now, marker, booked>> /\ NoTime \in Starts
  BY DEF Archive, Starts
<1>2. group' \in [Plans -> Starts] /\ \A q \in Plans : group'[q] \in {group[q], NoTime}
  BY <1>1 DEF MarkersInv, MarkersTyped
<1>3. now \in Nat /\ booked \in [Plans -> Starts]
  BY DEF MarkersInv, MarkersTyped
<1> QED
  BY <1>1, <1>2, <1>3, GroupsAhead

LEMMA RepairEnded ==
  ASSUME MarkersInv, NEW x \in Runners, Repair(x) PROVE EndedKept
<1>0. now \in Nat /\ group \in [Plans -> Starts] /\ booked \in [Plans -> Starts]
  BY DEF MarkersInv, MarkersTyped
<1>1. UNCHANGED <<now, marker, booked>>
  BY DEF Repair, facts
<1>2. PICK h \in proc[x].claimed :
         \/ Repairable(h) /\ Rebuild(h)
         \/ ~Repairable(h) /\ UNCHANGED <<fence, inbox, quar, projection>>
  BY DEF Repair
<1>3. CASE UNCHANGED projection
  BY <1>0, <1>1, <1>3, GroupsStand DEF projection
<1>4. CASE Rebuild(h)
  <2>1. PICK p : group' = [group EXCEPT ![p] = DesiredNow(p)]
    BY <1>4 DEF Rebuild
  <2>2. CASE p \in Plans
    <3>1. PICK v \in Starts : v = DesiredNow(p) /\ (v # NoTime => v > now)
      BY <1>0, <2>2, DesiredIsAhead DEF DesiredNow
    <3>2. group' = [group EXCEPT ![p] = v]
      BY <2>1, <3>1
    <3>3. group' \in [Plans -> Starts] /\ \A q \in Plans : group'[q] \in {group[q], NoTime} \/ group'[q] > now
      BY <1>0, <3>1, <3>2
    <3> QED
      BY <1>0, <1>1, <3>3, GroupsAhead
  <2>3. CASE p \notin Plans
    <3>1. group' = group
      BY <1>0, <2>1, <2>3
    <3> QED
      BY <1>0, <1>1, <3>1, GroupsStand
  <2> QED
    BY <2>2, <2>3
<1> QED
  BY <1>2, <1>3, <1>4

LEMMA ConsumeEnded ==
  ASSUME MarkersInv, ConsumeBatch, UNCHANGED <<now, booked>> PROVE EndedKept
<1>0. now \in Nat /\ group \in [Plans -> Starts] /\ booked \in [Plans -> Starts]
  BY DEF MarkersInv, MarkersTyped
<1>a. PICK P : P = {PlanFor(work[g]) : g \in Recomputing}
  OBVIOUS
<1>b. PICK S : S = Batch \ Recomputing
  OBVIOUS
<1>1.   /\ group' = [p \in Plans |->
             CASE p \in P -> DesiredNow(p)
               [] p \notin P /\ group[p] # NoTime
                    /\ (marker[p][group[p]].state = "pending" /\ marker[p][group[p]].gen \in S) -> NoTime
               [] OTHER -> group[p]]
        /\ marker' = [p \in Plans |-> [t \in Times |->
             IF marker[p][t].state = "pending" /\ marker[p][t].gen \in S
             THEN [marker[p][t] EXCEPT !.state = "applied"] ELSE marker[p][t]]]
  BY <1>a, <1>b DEF ConsumeBatch
<1>2. ASSUME NEW p \in Plans, NEW t \in Times
      PROVE  /\ DOMAIN marker'[p][t] = {"state", "gen"}
             /\ marker'[p][t].state # "none" => marker[p][t].state # "none"
             /\ marker'[p][t].state = "applied"
                  => marker[p][t].state = "applied" \/ (marker[p][t].state = "pending" /\ marker[p][t].gen \in S)
  <2>1. DOMAIN marker[p][t] = {"state", "gen"}
    BY DEF MarkersInv, MarkersTyped
  <2>2. PICK m : m = marker[p][t]
    OBVIOUS
  <2>3. marker'[p][t] = IF m.state = "pending" /\ m.gen \in S THEN [m EXCEPT !.state = "applied"] ELSE m
    BY <1>1, <2>2
  <2>4. DOMAIN [m EXCEPT !.state = "applied"] = {"state", "gen"} /\ [m EXCEPT !.state = "applied"].state = "applied"
    BY <2>1, <2>2
  <2> QED
    BY <2>1, <2>2, <2>3, <2>4
<1>3. ASSUME NEW p \in Plans
      PROVE  /\ group'[p] \in Starts
             /\ \/ group'[p] = NoTime \/ group'[p] > now
                \/ /\ group'[p] = group[p]
                   /\ ~(group[p] # NoTime /\ marker[p][group[p]].state = "pending"
                          /\ marker[p][group[p]].gen \in S)
  <2>1. CASE p \in P
    BY <1>0, <1>1, <2>1, DesiredIsAhead DEF DesiredNow
  <2>2. CASE /\ p \notin P /\ group[p] # NoTime
             /\ marker[p][group[p]].state = "pending" /\ marker[p][group[p]].gen \in S
    BY <1>1, <2>2 DEF Starts
  <2>3. CASE /\ p \notin P
             /\ ~(group[p] # NoTime /\ marker[p][group[p]].state = "pending"
                    /\ marker[p][group[p]].gen \in S)
    <3>1. group'[p] = group[p]
      BY <1>1, <2>3
    <3> QED
      BY <1>0, <2>3, <3>1
  <2> QED
    BY <2>1, <2>2, <2>3
<1>4. MarkersTyped'
  <2>1. group' = [p \in Plans |-> group'[p]] /\ group' \in [Plans -> Starts]
    BY <1>1, <1>3
  <2>2. DOMAIN marker' = Plans /\ \A p \in Plans : DOMAIN marker'[p] = Times
    BY <1>1
  <2> QED
    BY <1>0, <1>2, <2>1, <2>2 DEF MarkersTyped
<1>5. MarkedHaveStarted'
  BY <1>2 DEF MarkersInv, MarkedHaveStarted
<1>6. ASSUME NEW p \in Plans, Reopens(p) PROVE FALSE
  <2>1. group'[p] # NoTime /\ marker'[p][group'[p]].state = "applied"
    BY <1>6 DEF Reopens, Outlived, MarkerOf
  <2>2. PICK t \in Times : t = group'[p] /\ t \in Nat
    BY <1>3, <2>1, StartsAreTimes
  <2>3. marker[p][t].state # "none" /\ t <= now
    BY <1>2, <2>1, <2>2 DEF MarkersInv, MarkedHaveStarted
  <2>4. t = group[p] /\ ~(marker[p][t].state = "pending" /\ marker[p][t].gen \in S)
    BY <1>0, <1>3, <2>1, <2>2, <2>3
  <2>5. marker[p][t].state = "applied"
    BY <1>2, <2>1, <2>2, <2>4
  <2> QED
    BY <1>6, <2>1, <2>2, <2>4, <2>5 DEF Reopens, Outlived, MarkerOf
<1> QED
  BY <1>4, <1>5, <1>6 DEF MarkersInv, EndedKept

LEMMA TemporalEnded ==
  ASSUME MarkersInv, NEW x, EnsureTemporal(x) PROVE EndedKept
<1>1. PICK G : marker' = [p \in Plans |-> [t \in Times |->
                            IF p \in Unmarked /\ t = group[p] THEN [state |-> "pending", gen |-> G[p]]
                                                              ELSE marker[p][t]]]
  <2>1. PICK o \in Orderings(Unmarked) : marker' = [p \in Plans |-> [t \in Times |->
               IF p \in Unmarked /\ t = group[p]
               THEN [state |-> "pending",
                     gen |-> target + CHOOSE i \in 1..Cardinality(Unmarked) : o[i] = p]
               ELSE marker[p][t]]]
    BY DEF EnsureTemporal
  <2>2. PICK H : H = [p \in Plans |-> target + CHOOSE i \in 1..Cardinality(Unmarked) : o[i] = p]
    OBVIOUS
  <2> QED
    BY <2>1, <2>2
<1>2. UNCHANGED <<now, booked, group>>
  BY DEF EnsureTemporal, facts, projection
<1>3. ASSUME NEW p \in Plans, NEW t \in Times
      PROVE  /\ DOMAIN marker'[p][t] = {"state", "gen"}
             /\ marker'[p][t].state # "none" => t <= now
             /\ marker'[p][t].state = "applied" => marker[p][t].state = "applied"
  <2>1. CASE p \in Unmarked /\ t = group[p]
    <3>1. marker'[p][t] = [state |-> "pending", gen |-> G[p]] /\ t <= now
      BY <1>1, <2>1 DEF Unmarked, Expired
    <3> QED
      BY <3>1
  <2>2. CASE ~(p \in Unmarked /\ t = group[p])
    BY <1>1, <2>2 DEF MarkersInv, MarkersTyped, MarkedHaveStarted
  <2> QED
    BY <2>1, <2>2
<1>4. DOMAIN marker' = Plans /\ \A p \in Plans : DOMAIN marker'[p] = Times
  BY <1>1
<1>5. \A p \in Plans : group[p] # NoTime => group[p] \in Times
  BY StartsAreTimes DEF MarkersInv, MarkersTyped
<1>6. MarkersInv'
  BY <1>2, <1>3, <1>4, <1>5 DEF MarkersInv, MarkersTyped, MarkedHaveStarted
<1>7. \A p \in Plans : ~Reopens(p)
  BY <1>2, <1>3, <1>5 DEF Reopens, Outlived, MarkerOf
<1> QED
  BY <1>6, <1>7 DEF EndedKept

LEMMA EndedStep ==
  ASSUME FenceInv, MarkersInv, [Next]_vars
  PROVE  EndedKept
<1>0. now \in Nat /\ booked \in [Plans -> Starts] /\ group \in [Plans -> Starts] /\ NoTime \in Starts
  BY DEF MarkersInv, MarkersTyped, Starts
<1>1. CASE Write
  <2>1. ASSUME NEW a \in Assignments, NEW d \in Defects \cup {"none"}, Claim(a, d) \/ Revoke(a, d)
        PROVE  EndedKept
    BY <1>0, <2>1, GroupsStand DEF Claim, Revoke, projection
  <2>2. CASE ChangeZone
    BY <1>0, <2>2, GroupsStand DEF ChangeZone, projection
  <2>3. ASSUME NEW p \in Plans, WriteFor(p) PROVE EndedKept
    <3>1. CASE Unbook(p)
      BY <1>0, <3>1, GroupsStand DEF Unbook, projection
    <3>2. CASE Archive(p)
      BY <3>2, ArchiveEnded
    <3>3. CASE \E isLinked \in BOOLEAN, slot \in Starts : CrmFact(p, isLinked, slot)
      BY <3>3, CrmEnded
    <3> QED
      BY <1>0, <2>3, <3>1, <3>2, <3>3 DEF WriteFor, Unlink, Link, Book, Starts
  <2> QED
    BY <1>1, <2>1, <2>2, <2>3 DEF Write
<1>2. ASSUME NEW x, DrainStep(x) PROVE EndedKept
  <2>1. CASE Consume(x)
    BY <2>1, ConsumeEnded DEF Consume, facts
  <2>2. CASE ConsumeNothing(x) \/ RollBack(x) \/ Persist(x)
    BY <1>0, <2>2, GroupsStand DEF ConsumeNothing, RollBack, Persist, facts, projection
  <2> QED
    BY <1>2, <2>1, <2>2 DEF DrainStep
<1>3. ASSUME NEW x \in Runners, RunnerStep(x) \/ Crash(x) PROVE EndedKept
  <2>1. CASE EnsureFails(x) \/ ClaimQuarantines(x) \/ Crash(x)
    BY <1>0, <2>1, GroupsStand DEF EnsureFails, ClaimQuarantines, Crash, facts, projection
  <2> QED
    BY <1>2, <1>3, <2>1, TemporalEnded, RepairEnded DEF RunnerStep
<1>4. ASSUME NEW x \in Readers, ReaderStep(x) PROVE EndedKept
  <2>1. CASE Capture(x) \/ Check(x) \/ FinalRead(x)
    BY <1>0, <2>1, GroupsStand DEF Capture, Check, FinalRead, facts, projection
  <2> QED
    BY <1>2, <1>4, <2>1 DEF ReaderStep
<1>5. CASE \E g \in Works : BackoffEnds(g) \/ LeaseEnds(g)
  BY <1>0, <1>5, GroupsStand DEF BackoffEnds, LeaseEnds, facts, projection
<1>6. CASE UNCHANGED vars
  BY <1>0, <1>6, GroupsStand DEF vars, facts, projection
<1>7. CASE Tick
  <2>1. now' = now + 1 /\ UNCHANGED <<marker, booked, group>>
    BY <1>7 DEF Tick, facts, projection
  <2>2. now' \in Nat /\ now <= now'
    BY <1>0, <2>1
  <2> QED
    BY <1>0, <2>1, <2>2, GroupsAhead
<1> QED
  BY <1>1, <1>3, <1>4, <1>5, <1>6, <1>7 DEF Next

\* However long a writer may wait with the clock it has read (crm/engine.go, schedule/service.go),
\* a group whose validity a marker has ended (temporal_invalidation.go) comes back only by a CRM
\* mutation of its plan, and no later after its end than that wait.
THEOREM EndedGroupsComeBackLateOnly == Spec => OnlyLateWritersReopen
<1>1. Init => MarkersInv
  <2> SUFFICES ASSUME Init PROVE MarkersInv
    OBVIOUS
  <2>1. \A p \in Plans, t \in Times : marker[p][t] = NoMarker
    BY DEF Init
  <2>2. MarkersTyped
    BY DEF Init, MarkersTyped, Starts, NoMarker
  <2> QED
    BY <2>1, <2>2 DEF MarkersInv, MarkedHaveStarted, NoMarker
<1>2. FenceInv /\ MarkersInv /\ [Next]_vars
        => MarkersInv' /\ [\A p \in Plans : Reopens(p) => LateMutation(p)]_vars
  BY EndedStep DEF EndedKept
<1> QED
  BY <1>1, <1>2, FenceInvariant, PTL DEF Spec, OnlyLateWritersReopen
===============================================================================
