------------------------------- MODULE PlanIngestion -------------------------------
(***************************************************************************)
(* Turning pasted text into shots.  A session holds the text, a sequence   *)
(* of paragraphs, and a candidate for each of them.  The user edits the    *)
(* candidates and pastes new text; every preview parses the text again and *)
(* reconciles the new candidates with the old ones, so that edits survive. *)
(* A commit turns the kept candidates into items of the plan.  Beside it,  *)
(* the plan's observation records how its first building ended.            *)
(*                                                                         *)
(* A paragraph is its fingerprint and its first line; one that only        *)
(* repeats an earlier one is discarded at first, and listed among the      *)
(* dropped.  Candidate ids are hashes, here what they hash; the order of   *)
(* candidates on one line, which is that of their hashes, is left open.    *)
(***************************************************************************)
EXTENDS Naturals, Sequences, FiniteSets, FiniteSetsExt

CONSTANTS Paragraphs,     \* fingerprints
          Texts,          \* the texts that may be pasted
          MaxPreviews,    \* bound: revisions of a session
          MaxDecisions,   \* bound: candidates decided in one preview
          MaxIngestions   \* bound: sessions of the plan

\* collectParagraphs: each paragraph begins below the one before.
IsText(text) ==
  /\ text \in Seq([fp : Paragraphs, line : Nat]) /\ text # <<>>
  /\ \A i, j \in DOMAIN text : i < j => text[i].line < text[j].line

ASSUME PlanIngestionAssumption ==
  /\ \A text \in Texts : IsText(text)
  /\ MaxPreviews \in Nat /\ MaxDecisions \in Nat /\ MaxIngestions \in Nat

VARIABLES ingestion,   \* the latest session: state, revision, text, candidates, restored
          ingestions,  \* sessions so far
          planOpen,    \* the plan is not archived
          building     \* outcome of the plan's observation

ingestVars == <<ingestion, ingestions, planOpen, building>>

NoIngestion ==
  [state |-> "none", rev |-> 0, text |-> <<>>, candidates |-> {}, restored |-> {}]

-----------------------------------------------------------------------------
(* Parse.  "chosen" is the paragraph for which the action was chosen.      *)
Repeated(text) == {i \in DOMAIN text : \E j \in 1..(i - 1) : text[j].fp = text[i].fp}

Parsed(text, rev, i) ==
  [id |-> <<rev, i>>, line |-> text[i].line, fp |-> text[i].fp, chosen |-> text[i].fp,
   edited |-> FALSE, action |-> IF i \in Repeated(text) THEN "discard" ELSE "keep",
   status |-> "current", changed |-> 0]

-----------------------------------------------------------------------------
(* Reconcile. *)
lcsPairs(old, new) ==
  LET n == Len(old)
      m == Len(new)
      cells     == (1..(n + 1)) \X (1..(m + 1))
      outside(p) == p[1] > n \/ p[2] > m
      down(p)   == <<p[1] + 1, p[2]>>
      across(p) == <<p[1], p[2] + 1>>
      both(p)   == <<p[1] + 1, p[2] + 1>>
      dp[p \in cells] ==
        IF outside(p) THEN 0
        ELSE IF old[p[1]].fp = new[p[2]].fp THEN dp[both(p)] + 1
        ELSE Max({dp[down(p)], dp[across(p)]})
      walk[p \in cells] ==
        IF outside(p) THEN {}
        ELSE IF old[p[1]].fp = new[p[2]].fp THEN {p} \cup walk[both(p)]
        ELSE IF dp[down(p)] > dp[across(p)] THEN walk[down(p)] ELSE walk[across(p)]
  IN  walk[<<1, 1>>]

\* The anchors around paragraph i of the old text; a gap of as many new paragraphs as old ones
\* pairs them in order.
gapPairs(old, new, pairs) ==
  LET Fixed    == pairs \cup {<<0, 0>>, <<Len(old) + 1, Len(new) + 1>>}
      Left(i)  == CHOOSE p \in Fixed : p[1] < i /\ \A q \in Fixed : q[1] < i => q[1] <= p[1]
      Right(i) == CHOOSE p \in Fixed : p[1] > i /\ \A q \in Fixed : q[1] > i => q[1] >= p[1]
      Free     == {i \in DOMAIN old : \A p \in pairs : p[1] # i}
  IN  {<<i, Left(i)[2] + i - Left(i)[1]>> :
         i \in {k \in Free : Right(k)[1] - Left(k)[1] = Right(k)[2] - Left(k)[2]}}

IsAt(c, paragraph)      == c.line = paragraph.line /\ c.fp = paragraph.fp
Follows(c, paragraph)   == IsAt(c, paragraph) /\ c.status # "missing"
Carried(c, paragraph)   == [c EXCEPT !.line = paragraph.line, !.status = "current"]
ShiftedUnnoticed(c, paragraph, rev) == [c EXCEPT !.line = paragraph.line, !.fp = paragraph.fp]
Shifted(c, paragraph, rev) ==
  [c EXCEPT !.line = paragraph.line, !.fp = paragraph.fp, !.status = "changed",
            !.action = "unsure", !.changed = rev]
Missing(c, rev) == [c EXCEPT !.status = "missing", !.action = "unsure", !.changed = rev]

\* The paragraph a candidate that went missing comes back to, among those nothing is paired
\* with: the first to the first.
Older(c, d) == c.id[1] < d.id[1] \/ (c.id[1] = d.id[1] /\ c.id[2] < d.id[2])
Reappears(c, j, lost, new, free) ==
  /\ j \in free /\ new[j].fp = c.fp
  /\ Cardinality({d \in lost : d.fp = c.fp /\ Older(d, c)})
       = Cardinality({k \in free : k < j /\ new[k].fp = c.fp})

\* The candidates that come to paragraph j of the new text.
Arrivals(old, candidates, new, rev, anchors, gaps, j) ==
  LET free == {k \in DOMAIN new : \A p \in anchors \cup gaps : p[2] # k}
      lost == {c \in candidates : c.status = "missing"}
      From(pairs) == {c \in candidates : \E p \in pairs : p[2] = j /\ Follows(c, old[p[1]])}
  IN  {Carried(c, new[j]) : c \in From(anchors)}
        \cup {Shifted(c, new[j], rev) :
               c \in From(gaps) \cup {d \in lost : Reappears(d, j, lost, new, free)}}

\* The candidates that go missing, and those of them that a candidate which comes to paragraph
\* j finds there when it looks for the fresh one by line and fingerprint: anchors come first,
\* then the gaps in order, last those that reappear.
Missed(old, candidates, anchors, gaps, rev) ==
  {Missing(c, rev) :
     c \in {d \in candidates :
             /\ d.edited \/ d.action # "discard"
             /\ \E i \in DOMAIN old : Follows(d, old[i]) /\ \A p \in anchors \cup gaps : p[1] # i}}
Beside(missed, old, new, anchors, gaps, j) ==
  {c \in missed : /\ IsAt(c, new[j]) /\ \A p \in anchors : p[2] # j
                  /\ \A p \in gaps : p[2] = j => c.line < old[p[1]].line}

\* Every candidate that comes to a paragraph takes the place of one that is there: the fresh
\* one, or another with the same line and fingerprint.  One set of candidates for each way in
\* which their hashes may be ordered.
Reconcile(old, candidates, new, rev) ==
  LET anchors == lcsPairs(old, new)
      gaps    == gapPairs(old, new, anchors)
      missed  == Missed(old, candidates, anchors, gaps, rev)
      come    == [j \in DOMAIN new |-> Arrivals(old, candidates, new, rev, anchors, gaps, j)]
      there   == [j \in DOMAIN new |->
                    {Parsed(new, rev, j)} \cup Beside(missed, old, new, anchors, gaps, j)]
      at      == [j \in DOMAIN new |-> come[j] \cup there[j]]
      Replaced(gone, j) ==
        IF come[j] = {} THEN gone \cap there[j] = {}
        ELSE IF there[j] = {Parsed(new, rev, j)} THEN \E c \in come[j] : at[j] \ gone = {c}
        ELSE /\ Cardinality(gone \cap at[j]) = Cardinality(come[j])
             /\ ~(come[j] \subseteq gone)
  IN  {(missed \cup UNION {at[j] : j \in DOMAIN new}) \ gone : gone \in
         {g \in SUBSET UNION {at[j] : j \in DOMAIN new} : \A j \in DOMAIN new : Replaced(g, j)}}

-----------------------------------------------------------------------------
IngestInit ==
  ingestion = NoIngestion /\ ingestions = 0 /\ planOpen = TRUE /\ building = "none"

\* lockOrCreateObservation: the first activity of the plan opens its observation.
Opened(outcome) == IF outcome = "none" THEN "in_progress" ELSE outcome

\* One session of a plan is being edited, by a unique index.
CreateSession ==
  /\ planOpen /\ ingestion.state # "editing" /\ ingestions < MaxIngestions
  /\ \E text \in Texts :
       ingestion' = [state |-> "editing", rev |-> 1, text |-> text,
                     candidates |-> {Parsed(text, 1, i) : i \in DOMAIN text}, restored |-> {}]
  /\ ingestions' = ingestions + 1 /\ building' = Opened(building)
  /\ UNCHANGED planOpen

\* A decision about candidate c.  Who decides one that changed or went missing names the
\* revision of the change; the client names one that an earlier preview has shown.
Acknowledges(c, shown) == c.status \in {"changed", "missing"} => c.changed <= shown
Overridden(c, action)  ==
  [c EXCEPT !.action = action, !.edited = TRUE, !.chosen = c.fp, !.status = "current"]

\* The text is parsed again and reconciled at every preview; then the decisions are applied.  To
\* keep one of the dropped adds a candidate without a fingerprint: nothing carries it over, and
\* the next parse drops its paragraph again.
Preview ==
  LET rev == ingestion.rev + 1
  IN  /\ ingestion.state = "editing" /\ ingestion.rev < MaxPreviews
      /\ \E text \in Texts :
           \E parsed \in Reconcile(ingestion.text, ingestion.candidates, text, rev) :
           \E decided \in SUBSET {c \in parsed : Acknowledges(c, ingestion.rev)} :
           \E keeps \in SUBSET decided, restored \in SUBSET Repeated(text) :
             LET next == (parsed \ decided) \cup {Overridden(c, "keep") : c \in keeps}
                           \cup {Overridden(c, "discard") : c \in decided \ keeps}
             IN  /\ Cardinality(decided) <= MaxDecisions
                 /\ \/ text # ingestion.text \/ next # ingestion.candidates
                    \/ restored # ingestion.restored
                 /\ ingestion' = [state |-> "editing", rev |-> rev, text |-> text,
                                  candidates |-> next, restored |-> restored]
      /\ building' = Opened(building)
      /\ UNCHANGED <<ingestions, planOpen>>

\* Every candidate is decided as in the preview, and one at least is kept.
Commit ==
  /\ ingestion.state = "editing" /\ planOpen
  /\ \A c \in ingestion.candidates : c.action # "unsure" /\ c.status = "current"
  /\ ingestion.restored # {} \/ \E c \in ingestion.candidates : c.action = "keep"
  /\ ingestion' = [ingestion EXCEPT !.state = "committed"]
  /\ building' = Opened(building)
  /\ UNCHANGED <<ingestions, planOpen>>

Abandon ==
  /\ ingestion.state = "editing"
  /\ ingestion' = [ingestion EXCEPT !.state = "abandoned"]
  /\ building' = IF Opened(building) = "in_progress" THEN "abandoned" ELSE building
  /\ UNCHANGED <<ingestions, planOpen>>

\* The plan becomes ready: its observation, if it has one, ends with the first time.
PlanReady ==
  /\ planOpen /\ ingestions > 0
  /\ building' = IF building = "in_progress" THEN "first_ready" ELSE building
  /\ UNCHANGED <<ingestion, ingestions, planOpen>>

ArchiveIngested ==
  /\ planOpen /\ planOpen' = FALSE
  /\ UNCHANGED <<ingestion, ingestions, building>>

IngestNext ==
  CreateSession \/ Preview \/ Commit \/ Abandon \/ PlanReady \/ ArchiveIngested

IngestSpec == IngestInit /\ [][IngestNext]_ingestVars

IngestTypeOK ==
  /\ ingestion.state \in {"none", "editing", "committed", "abandoned"}
  /\ ingestion.rev \in 0..MaxPreviews /\ ingestion.text \in Texts \cup {<<>>}
  /\ ingestion.candidates \subseteq
       [id : (1..MaxPreviews) \X Nat, line : Nat, fp : Paragraphs, chosen : Paragraphs,
        edited : BOOLEAN, action : {"keep", "discard", "unsure"},
        status : {"current", "changed", "missing"}, changed : 0..MaxPreviews]
  /\ ingestion.restored \subseteq Repeated(ingestion.text)
  /\ ingestions \in 0..MaxIngestions /\ planOpen \in BOOLEAN
  /\ building \in {"none", "in_progress", "first_ready", "abandoned"}

-----------------------------------------------------------------------------
\* A commit keeps and discards each paragraph of the present text by a decision that was made
\* about this very paragraph, whatever text was pasted between the decision and the commit:
\* every candidate stands at a paragraph of the text and was decided for it, and every
\* paragraph has one and no more, also where one came back to the line of another that went
\* missing (ingestion/reparse.go, Reconcile; commit.go, validateCommitAgainstSession).  Beside
\* them it creates the dropped ones that the last preview restored.
CommitsWhatWasConfirmed ==
  [][ingestion.state = "editing" /\ ingestion'.state = "committed" =>
       /\ \A c \in ingestion.candidates :
            c.chosen = c.fp /\ \E i \in DOMAIN ingestion.text : IsAt(c, ingestion.text[i])
       /\ \A i \in DOMAIN ingestion.text :
            \E c \in ingestion.candidates :
              \A d \in ingestion.candidates : IsAt(d, ingestion.text[i]) <=> d = c]_ingestVars

\* "An edited candidate whose source changes or disappears becomes source_changed or
\* source_missing with action needs_confirmation ... only a preview mutation of this item with
\* the same revision, which chooses keep or discard anew, lets it be committed"
\* (plan-ingestion-capture-design.md:90).
MissingWaitsForTheUser ==
  [][\A c \in ingestion.candidates :
       c.edited /\ c.status = "missing" /\ ingestion'.rev = ingestion.rev + 1
         => \E d \in ingestion'.candidates : d.id = c.id]_ingestVars
===============================================================================
