-------------------------------- MODULE Calendar --------------------------------
(***************************************************************************)
(* Openings, conflicts and utilization of a month, in the time zone of the *)
(* account (backend/internal/schedule/openings.go, the overlap check of    *)
(* schedule/repository.go and the assembly in dashboard/service_v2.go).    *)
(* An instant is a number of hours of UTC.  The zone is one hour ahead or  *)
(* behind from some instant on, so there are local hours that come twice   *)
(* and local hours that do not come at all.                                *)
(***************************************************************************)
EXTENDS Integers, Sequences, FiniteSets, SequencesExt

CONSTANTS
  CalSlots,        \* names of slots
  MonthLength,     \* days of the month, DaysInMonth
  Hours,           \* hours of a day
  Availabilities,  \* plans that are explored: the hours of a day and the shortest opening
  ZoneChanges      \* changes of the zone that are explored: when, and what is added to the offset

ASSUME CalendarAssumption ==
  /\ MonthLength \in Nat \ {0} /\ Hours \in Nat \ {0, 1}
  /\ Availabilities \subseteq [from : 0..(Hours - 1), to : 0..(Hours - 1), shortest : Nat \ {0}]
  /\ \A a \in Availabilities : a.from < a.to
  /\ ZoneChanges \subseteq [at : Nat, shift : {-1, 1}]

VARIABLES
  zone,   \* the change of the zone's offset: when it comes, and by how much
  plan,   \* AvailabilityPlan, the same for every day, or none
  booked  \* the slots of the month

calVars == <<zone, plan, booked>>

MonthDays  == 1..MonthLength
MonthStart == Hours                       \* the first instant of the month, but for the zone
MonthEnd   == (MonthLength + 1) * Hours   \* the end of the month
Instants   == MonthStart..MonthEnd
DayOff     == [from |-> 0, to |-> 0, shortest |-> 1]

offset(i) == IF i < zone.at THEN 0 ELSE zone.shift
local(i)  == i + offset(i)
localDateIn(i) == local(i) \div Hours

\* resolveLocalInstant: the instant at which clocks show a wall time.  The offset is looked up as
\* if the wall time were UTC, then a day earlier and a day later.  The first of the candidates
\* that read back as the wall time counts, and the last of all if none does.  The end of the
\* month is asked for as a day that the month does not have, and never reads back.
resolveLocalInstant(day, hour) ==
  LET wall  == day * Hours + hour
      tried == {wall - offset(wall + delta) : delta \in {0, -Hours, Hours}}
      valid == {i \in tried : local(i) = wall /\ day \in MonthDays}
  IN  IF valid # {} THEN CHOOSE i \in valid : \A j \in valid : i <= j
      ELSE CHOOSE i \in tried : \A j \in tried : j <= i

\* ResolveDayWindow, with the error that the hours of the window are not there on this day.
ResolveDayWindow(day) ==
  <<resolveLocalInstant(day, plan.from), resolveLocalInstant(day, plan.to)>>
Fails(window) == plan # DayOff /\ window[2] <= window[1]
Works(window) == plan # DayOff /\ window[1] < window[2]

-----------------------------------------------------------------------------
(* Slots are records of a name, a type, whether the order of a shoot is cancelled, and two instants. *)
IsCancelledShoot(s) == s.type = "shoot" /\ s.cancelled
Live(slots)         == {s \in slots : ~IsCancelledShoot(s)}

Latest(i, j)  == IF i > j THEN i ELSE j
Earlier(i, j) == IF i < j THEN i ELSE j
Clip(s, from, to) == <<Latest(s.start, from), Earlier(s.end, to)>>
Lasts(p) == p[1] < p[2]

Before(p, q) == p[1] < q[1] \/ (p[1] = q[1] /\ p[2] <= q[2])

\* Variant: an interval that ends within the one before it cuts that one short.
JoinedToItsEnd(done, p) == IF done = <<>> \/ p[1] > done[Len(done)][2] THEN Append(done, p)
                           ELSE [done EXCEPT ![Len(done)][2] = p[2]]

\* Intervals that touch become one.
Joined(done, p) == IF done = <<>> \/ p[1] > done[Len(done)][2] THEN Append(done, p)
                   ELSE [done EXCEPT ![Len(done)][2] = Latest(@, p[2])]

\* What is taken of a window, in order.
mergedParts(window, slots) ==
  LET occupied == {p \in {Clip(s, window[1], window[2]) : s \in Live(slots)} : Lasts(p)}
      line == CHOOSE l \in SetToSeqs(occupied) : \A i, j \in DOMAIN l : i < j => Before(l[i], l[j])
      merged[k \in 0..Len(line)] == IF k = 0 THEN <<>> ELSE Joined(merged[k - 1], line[k])
  IN  merged[Len(line)]

\* The openings are what a cursor passes over between them.
PassOver(state, p) == [cursor |-> Latest(state.cursor, p[2]),
                       found  |-> state.found \cup {<<state.cursor, p[1]>>}]
DayOpenings(window, slots) ==
  LET parts == mergedParts(window, slots)
      swept[k \in 0..Len(parts)] ==
        IF k = 0 THEN [cursor |-> window[1], found |-> {}] ELSE PassOver(swept[k - 1], parts[k])
      last == swept[Len(parts)]
  IN  IF plan = DayOff THEN {}
      ELSE {p \in last.found \cup {<<last.cursor, window[2]>>} : p[2] - p[1] >= plan.shortest}

\* The part of a slot on a day, if the slot has to do with that day.
ProjectSlotToDays(s, day) ==
  LET part == Clip(s, resolveLocalInstant(day, 0), resolveLocalInstant(day + 1, 0))
  IN  IF day \in localDateIn(s.start)..localDateIn(s.end - 1) /\ Lasts(part)
      THEN {[slot |-> s, start |-> part[1], end |-> part[2]]} ELSE {}

Projections(day, slots) == UNION {ProjectSlotToDays(s, day) : s \in slots}

\* markConflicts goes from each segment to those after it until one does not meet it.  Segments
\* that start together are in some order.
markConflicts(day, slots) ==
  LET live == {p \in Projections(day, slots) : ~IsCancelledShoot(p.slot)}
      line == CHOOSE l \in SetToSeqs(live) : \A i, j \in DOMAIN l : i < j => l[i].start <= l[j].start
      meets(i, j) == line[j].start < line[i].end
  IN  \E i, j \in DOMAIN line :
        /\ i < j /\ \A k \in (i + 1)..j : meets(i, k)
        /\ line[i].start < line[j].end

\* MonthOverview; utilization is used of available, and nothing is when there is no window.
MonthOverview(slots) ==
  LET windows == [d \in MonthDays |-> ResolveDayWindow(d)]
      open    == {d \in MonthDays : Works(windows[d])}
      parts(d) == {p \in Projections(d, Live(slots)) : p.slot.type \in {"shoot", "hold"}}
      used(d, p) == LET both == Clip(p, windows[d][1], windows[d][2])
                    IN  IF Lasts(both) THEN both[2] - both[1] ELSE 0
  IN  [shoots    |-> Cardinality({s \in Live(slots) : s.type = "shoot" /\
                                    \E d \in MonthDays : ProjectSlotToDays(s, d) # {}}),
       holdDays  |-> {d \in MonthDays : \E p \in Projections(d, Live(slots)) : p.slot.type = "hold"},
       conflicts |-> {d \in MonthDays : markConflicts(d, slots)},
       errors    |-> {d \in MonthDays : Fails(windows[d])},
       openDays  |-> {d \in open : DayOpenings(windows[d], slots) # {}},
       available |-> MapThenSumSet(LAMBDA d : windows[d][2] - windows[d][1], open),
       used      |-> MapThenSumSet(LAMBDA d : MapThenSumSet(LAMBDA p : used(d, p), parts(d)), open)]

\* assembleV2 shows no dashboard at all when the window of any day of the month fails.
assembleV2(today, slots) ==
  LET overview == MonthOverview(slots)
  IN  IF overview.errors # {} THEN [shown |-> FALSE]
      ELSE [shown |-> TRUE, openings |-> DayOpenings(ResolveDayWindow(today), slots), month |-> overview]

\* What a client is warned of that books a slot: findOverlaps without the cancelled shoots.
Overlaps(candidate, slots) ==
  {s \in Live(slots) : s.id # candidate.id /\ s.start < candidate.end /\ s.end > candidate.start}

-----------------------------------------------------------------------------
(* The rows the calendar is drawn from. *)
Types == {"shoot", "hold", "busy"}
SlotRows == [id : CalSlots, type : Types, cancelled : {FALSE}, start : Instants, end : Instants]

CalendarInit ==
  /\ zone \in ZoneChanges
  /\ plan = DayOff
  /\ booked = {}

SlotsNamed(id) == {s \in booked : s.id = id}

\* Create and Update: whatever else there is, an interval that lasts can be booked.
BookSlot(row) ==
  /\ row.start < row.end /\ SlotsNamed(row.id) = {}
  /\ booked' = booked \cup {row}
  /\ UNCHANGED <<zone, plan>>

DropSlot(id) == SlotsNamed(id) # {} /\ booked' = booked \ SlotsNamed(id) /\ UNCHANGED <<zone, plan>>

\* The order of a shoot is cancelled; the slot stays.
CancelShoot(s) ==
  /\ s.type = "shoot" /\ ~s.cancelled
  /\ booked' = (booked \ {s}) \cup {[s EXCEPT !.cancelled = TRUE]}
  /\ UNCHANGED <<zone, plan>>

SetAvailability(availability) == plan' = availability /\ UNCHANGED <<zone, booked>>

CalendarNext ==
  \/ \E row \in SlotRows : BookSlot(row)
  \/ \E id \in CalSlots : DropSlot(id)
  \/ \E s \in booked : CancelShoot(s)
  \/ \E a \in Availabilities : SetAvailability(a)

CalendarSpec == CalendarInit /\ [][CalendarNext]_calVars

-----------------------------------------------------------------------------
(* The same questions asked of every single instant. *)
TakenAt(i) == {s \in Live(booked) : s.start <= i /\ i < s.end}

\* The longest free stretches of a window.
FreeStretches(window) ==
  LET free(p) == \A i \in p[1]..(p[2] - 1) : TakenAt(i) = {}
      all == {p \in (window[1]..window[2]) \X (window[1]..window[2]) : Lasts(p) /\ free(p)}
  IN  {p \in all : \A q \in all : q[1] <= p[1] /\ p[2] <= q[2] => p = q}

\* The openings of a day are its longest free stretches, if they are long enough, and a day has a
\* conflict exactly when the booking of one of its slots gave a warning about another and the two
\* meet on that day (DayOpenings, markConflicts, findOverlaps); every instant of a slot counts on
\* the day that clocks show then, on the days on which the zone changes, too.
CalendarAgrees ==
  LET month == MonthOverview(booked)
      on(d) == {i \in (MonthStart - 1)..(MonthEnd + 1) : localDateIn(i) = d}
  IN  booked # {} => \A d \in MonthDays : LET window == ResolveDayWindow(d) IN
        /\ Works(window) => DayOpenings(window, booked) =
                              {p \in FreeStretches(window) : p[2] - p[1] >= plan.shortest}
        /\ d \in month.conflicts <=>
             \E s, t \in Live(booked) : t \in Overlaps(s, booked) /\
               \E i \in on(d) : s \in TakenAt(i) /\ t \in TakenAt(i)
        /\ \A s \in booked, i \in on(d) : s.start <= i /\ i < s.end =>
             \E p \in ProjectSlotToDays(s, d) : p.start <= i /\ i < p.end
        /\ d \in month.holdDays <=> \E i \in on(d) : \E s \in TakenAt(i) : s.type = "hold"

\* Not so the other way round: the segment of the last day of a month reaches into the next month
\* when the zone changes within a day of midnight (ProjectSlotToDays, openings.go:202).
SegmentsStayInTheirDay ==
  \A d \in MonthDays : \A p \in Projections(d, booked) :
    \A i \in p.start..(p.end - 1) : localDateIn(i) = d

\* Nor does a day whose window is lost to a change of the zone leave the others alone, as
\* DayError says it does: the dashboard of the whole month is an error (assembleV2).
OtherDaysAreShown == \A today \in MonthDays : assembleV2(today, booked).shown
===============================================================================
