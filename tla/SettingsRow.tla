------------------------------ MODULE SettingsRow ------------------------------
(***************************************************************************)
(* The settings of one account (backend/internal/settings and the part of  *)
(* a Telegram bind that writes there, reminder/digest/                     *)
(* binding_repository.go).  The row appears with the first change, so it   *)
(* cannot be locked before: patches queue up on the row of                 *)
(* account_settings_mutation_fences, those of the timezone on the reminder *)
(* fence first, which is also where binds queue up.  Patches and binds     *)
(* write different columns of the row.                                     *)
(***************************************************************************)
EXTENDS Naturals, FiniteSets

CONSTANTS
  Editors,      \* clients that edit the settings
  Binders,      \* chats that ask to be bound
  Zones,        \* time zones
  DefaultZone,  \* DefaultTimezone
  MaxSettingsEdits      \* bound: changes of the row

VARIABLES
  row,       \* the row of settings
  client,    \* where each request is, what it has read and what its client saw before
  owner,     \* who has locked the reminder fence, the mutation fence and the row
  accepted,  \* ghost: the last accepted change of each column, and whether one was made blindly
  edits      \* changes of the row so far

settingsVars == <<row, client, owner, accepted, edits>>

\* A few fields stand for the others: the hour for the numbers with a range, two days for the
\* week, two types of shoot for the three, one override for the eight.
Weekdays   == {"1", "7"}
ShootTypes == {"portrait", "other"}
Closed     == <<>>  \* a day off
Unlocked     == "nobody"
Unbound    == "unbound"

ASSUME SettingsAssumption ==
  /\ Editors \cap Binders = {} /\ Unlocked \notin Editors \cup Binders
  /\ DefaultZone \in Zones /\ MaxSettingsEdits \in Nat

DefaultSettings ==
  [present |-> FALSE, timezone |-> DefaultZone, hour |-> 9,
   tiers |-> [sleeping |-> 12, atRisk |-> 20, lost |-> 35, cadence |-> 120],
   availability |-> [week |-> [d \in Weekdays |-> <<10, 19>>], minutes |-> 120],
   churn |-> [t \in ShootTypes |-> 180], rules |-> <<>>, ruleRevision |-> 0,
   chat |-> Unbound, chatRevision |-> 1]

\* A row that a bind inserts has the defaults of the columns, and those list no thresholds.
InsertedRow == [DefaultSettings EXCEPT !.present = TRUE, !.churn = <<>>]

overlayChurnThresholds(overrides) ==
  [t \in ShootTypes |-> IF t \in DOMAIN overrides THEN overrides[t] ELSE DefaultSettings.churn[t]]

\* What a reader is shown.
EffectiveSettings(s) ==
  IF s.present THEN [s EXCEPT !.churn = overlayChurnThresholds(s.churn)] ELSE DefaultSettings

-----------------------------------------------------------------------------
(* What a request may say. *)
ValidTiers(v) ==
  0 < v.sleeping /\ v.sleeping < v.atRisk /\ v.atRisk < v.lost /\ v.cadence \in 30..365

\* The decoder wants every day of the week.
DecodeAvailability(v) == DOMAIN v.week = Weekdays
ValidAvailability(v) ==
  /\ v.minutes \in 15..480
  /\ \A d \in DOMAIN v.week : v.week[d] # Closed => v.week[d][1] < v.week[d][2]

ValidThresholds(v) == DOMAIN v \subseteq ShootTypes /\ \A t \in DOMAIN v : v[t] >= 1
ValidOverrides(v)  == \A k \in DOMAIN v : k = "included_shot_count" /\ v[k] \in 0..99

ValidChange(field, v) ==
  CASE field = "timezone"     -> v \in Zones
    [] field = "hour"         -> v \in 0..23
    [] field = "tiers"        -> ValidTiers(v)
    [] field = "availability" -> DecodeAvailability(v) /\ ValidAvailability(v)
    [] field = "churn"        -> ValidThresholds(v)
    [] field = "rules"        -> ValidOverrides(v)

\* PatchRequests with one field each; one with more is refused if any is, and writes the row alike.
PatchRequests ==
  {<<"timezone", z>> : z \in Zones \cup {"nowhere"}} \cup {<<"hour", h>> : h \in {21, 24}}
    \cup {<<"tiers", [DefaultSettings.tiers EXCEPT !.lost = v]>> : v \in {20, 50}}
    \cup {<<"availability", [DefaultSettings.availability EXCEPT !.week = v]>> :
            v \in {[d \in Weekdays |-> Closed], [d \in {"1"} |-> Closed], [d \in Weekdays |-> <<9, 9>>]}}
    \cup {<<"churn", [t \in {"other"} |-> days]>> : days \in {0, 30}}
    \cup {<<"rules", [k \in some |-> 1]>> : some \in SUBSET {"included_shot_count", "unknown"}}

-----------------------------------------------------------------------------
(* Patch and ConsumeAndBind, lock by lock; what a transaction locked it keeps until its end. *)
SettingsUsers == Editors \cup Binders
SettingsLocks   == {"fence", "mutation", "row"}
RulesOf(s) == [rules |-> s.rules, revision |-> s.ruleRevision]
AtRest    == [step |-> "idle", request |-> <<>>, read |-> DefaultSettings, seen |-> RulesOf(DefaultSettings)]

SettingsInit ==
  /\ row = DefaultSettings /\ edits = 0
  /\ accepted = [values |-> DefaultSettings, blind |-> FALSE]
  /\ client = [c \in SettingsUsers |-> AtRest]
  /\ owner = [l \in SettingsLocks |-> Unlocked]

Free(c, l) == owner[l] \in {Unlocked, c}
TakeLock(c, l) == Free(c, l) /\ owner' = [owner EXCEPT ![l] = c]
TxEnds(c)  == owner' = [l \in SettingsLocks |-> IF owner[l] = c THEN Unlocked ELSE owner[l]]
UserAt(c, next) == client' = [client EXCEPT ![c] = next]

Get(e) ==
  /\ client[e].step = "idle"
  /\ UserAt(e, [client[e] EXCEPT !.seen = RulesOf(EffectiveSettings(row))])
  /\ UNCHANGED <<row, owner, accepted, edits>>

\* What a patch says matters when it is applied, and is chosen then; only one of the timezone
\* starts at the fence.
SendPatch(e) ==
  /\ client[e].step = "idle"
  /\ \E first \in {"fence", "mutation"} : UserAt(e, [client[e] EXCEPT !.step = first])
  /\ UNCHANGED <<row, owner, accepted, edits>>

SendStart(b) ==
  /\ client[b].step = "idle"
  /\ UserAt(b, [client[b] EXCEPT !.step = "fence"])
  /\ UNCHANGED <<row, owner, accepted, edits>>

LockFence(c) ==
  /\ client[c].step = "fence" /\ TakeLock(c, "fence")
  /\ UserAt(c, [client[c] EXCEPT !.step = IF c \in Editors THEN "mutation" ELSE "load"])
  /\ UNCHANGED <<row, accepted, edits>>

\* Variant: a patch that goes ahead without its turn.
noSettingsMutationFence(e) ==
  /\ client[e].step = "mutation"
  /\ UserAt(e, [client[e] EXCEPT !.step = "load"])
  /\ UNCHANGED <<row, owner, accepted, edits>>

ensureSettingsMutationFence(e) ==
  /\ client[e].step = "mutation" /\ TakeLock(e, "mutation")
  /\ UserAt(e, [client[e] EXCEPT !.step = "load"])
  /\ UNCHANGED <<row, accepted, edits>>

\* The revision of the rules counts their changes, and a patch names the one it was made for.
applyPatch(read, field, v) ==
  IF field # "rules" THEN [read EXCEPT ![field] = IF field = "churn" THEN overlayChurnThresholds(v) ELSE v]
  ELSE IF v = read.rules THEN read
  ELSE [read EXCEPT !.rules = v, !.ruleRevision = @ + 1]

PatchRefused(e, field, v) ==
  \/ ~ValidChange(field, v)
  \/ field = "rules" /\ client[e].seen.revision # EffectiveSettings(row).ruleRevision

\* FOR UPDATE: a row that is not there yet is not locked.  A patch that is refused ends here.
Load(c, request) ==
  /\ client[c].step = "load"
  /\ IF row.present THEN TakeLock(c, "row") ELSE UNCHANGED owner
  /\ UserAt(c, [client[c] EXCEPT !.step = "save", !.read = EffectiveSettings(row), !.request = request])
  /\ UNCHANGED <<row, accepted, edits>>

loadSettings(e) ==
  \E q \in PatchRequests : /\ (q[1] = "timezone") <=> (owner["fence"] = e)
                      /\ ~PatchRefused(e, q[1], q[2])
                      /\ Load(e, q)

LoadChat(b) == Load(b, <<>>)

\* Every column but those of the bind is written, changed or not.
upsertSettings(next) ==
  [next EXCEPT !.present = TRUE, !.chat = row.chat, !.chatRevision = row.chatRevision]

SavePatch(e) ==
  LET c == client[e]
      next == applyPatch(c.read, c.request[1], c.request[2])
  IN  /\ c.step = "save" /\ Free(e, "row") /\ edits < MaxSettingsEdits
      /\ row' = upsertSettings(next)
      /\ accepted' =
           [values |-> [accepted.values EXCEPT
                          ![c.request[1]] = next[c.request[1]],
                          !.ruleRevision = IF next.rules # row.rules THEN @ + 1 ELSE @],
            blind |-> accepted.blind \/ (c.request[1] = "rules" /\ c.seen.rules # row.rules)]
      /\ edits' = edits + 1
      /\ TxEnds(e) /\ UserAt(e, AtRest)

\* A bind of the chat that is bound leaves the revision; the first one does, too.
SaveChat(b) ==
  LET read == client[b].read
      base == IF row.present THEN row ELSE InsertedRow
      moved == read.chat \notin {Unbound, b}
  IN  /\ client[b].step = "save" /\ Free(b, "row") /\ edits < MaxSettingsEdits
      /\ row' = [base EXCEPT !.chat = b,
                   !.chatRevision = IF moved THEN read.chatRevision + 1
                                    ELSE IF read.chat = b THEN @ ELSE read.chatRevision]
      /\ accepted' = [accepted EXCEPT !.values.chat = b,
                         !.values.chatRevision = IF row.chat \notin {Unbound, b} THEN @ + 1 ELSE @]
      /\ edits' = edits + 1
      /\ TxEnds(b) /\ UserAt(b, AtRest)

\* A request that is refused, a token that is not good any more or a failure: nothing is written.
TxFails(c) ==
  /\ client[c].step # "idle"
  /\ TxEnds(c) /\ UserAt(c, AtRest)
  /\ UNCHANGED <<row, accepted, edits>>

SettingsNext ==
  \/ \E e \in Editors : \/ Get(e) \/ SendPatch(e) \/ ensureSettingsMutationFence(e)
                         \/ loadSettings(e) \/ SavePatch(e)
  \/ \E b \in Binders : SendStart(b) \/ LoadChat(b) \/ SaveChat(b)
  \/ \E c \in SettingsUsers : LockFence(c) \/ TxFails(c)

SettingsSpec == SettingsInit /\ [][SettingsNext]_settingsVars

SettingsTypeOK ==
  /\ row.present \in BOOLEAN /\ row.timezone \in Zones /\ row.hour \in 0..23
  /\ ValidTiers(row.tiers) /\ ValidAvailability(row.availability) /\ ValidThresholds(row.churn)
  /\ row.ruleRevision \in 0..MaxSettingsEdits /\ row.chat \in Binders \cup {Unbound}
  /\ owner \in [SettingsLocks -> SettingsUsers \cup {Unlocked}] /\ edits \in 0..MaxSettingsEdits

-----------------------------------------------------------------------------
\* What a reader is shown is, column by column, what the last accepted change of it says: neither
\* two first changes, nor one that meets a bind, take anything back (Patch, ConsumeAndBind).  The
\* revisions count the changes of the rules and the moves to another chat, and a patch of the
\* rules replaces those its client has seen.
LastWriteStands ==
  /\ [EffectiveSettings(row) EXCEPT !.present = FALSE] = accepted.values
  /\ ~accepted.blind
===============================================================================
