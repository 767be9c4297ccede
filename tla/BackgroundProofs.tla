--------------------------- MODULE BackgroundProofs ---------------------------
(***************************************************************************)
(* What holds of the loops and stores of the servers for any number of     *)
(* servers and clients: Telegram updates are answered once                 *)
(* (TelegramIntake), a scan leaves alone what the user has answered        *)
(* (ReminderScan), an upload that was reported is durable (ObjectFiles),   *)
(* the settings are, column by column, what the last accepted change says  *)
(* (SettingsRow), and a calendar of any number of slots and days agrees    *)
(* with what is taken at each of its instants (Calendar).                  *)
(***************************************************************************)
EXTENDS TelegramIntake, ReminderScan, ObjectFiles, SettingsRow, Calendar, FiniteSetTheorems,
        WellFoundedInduction, TLAPS

-----------------------------------------------------------------------------
(***************************************************************************)
(* Updates.  A poller may pass over an update of which it is not known     *)
(* that its delivery is stored only if nobody waits for it.                *)
(***************************************************************************)
Stored(id) == queued[<<"command", id>>] = 1

UpdatesOK ==
  /\ updates \in Seq(Commands) /\ Len(updates) <= MaxUpdates
  /\ forgotten \in Nat /\ forgotten <= Len(updates)
  /\ entitled \subseteq 1..Len(updates)

PollerRecords == [step : {"poll", "route", "bind", "claim"}, offset : Nat, next : Nat, last : Nat]

PollerOK(p) ==
  /\ p \in PollerRecords /\ p.offset <= Len(updates) + 1
  /\ p.step # "poll" => 1 <= p.next /\ p.next <= p.last /\ p.last <= Len(updates)
  /\ p.step = "bind" => updates[p.next].cmd = "/start"

PollersOK == poller \in [Hosts -> PollerRecords] /\ \A h \in Hosts : PollerOK(poller[h])

QueueOK == queued \in [Keys -> {0, 1}]

\* Who waits for an answer has sent /today from the chat of the account.
Waits == \A id \in entitled : updates[id].cmd = "/today" /\ updates[id].chat = binding.chat

Passes(p, id) == id < p.offset \/ (p.step # "poll" /\ id < p.next)

Passed == \A id \in entitled : /\ id <= forgotten => Stored(id)
                               /\ \A h \in Hosts : Passes(poller[h], id) => Stored(id)

BindingOK == binding \in [chat : Nat, token : Nat, issued : Nat, zone : {0, 1}]

IntakeInv == BindingOK /\ UpdatesOK /\ PollersOK /\ QueueOK /\ Waits /\ Passed

LEMMA HigherIsOne ==
  \A a, b \in Nat : /\ Higher(a, b) \in Nat /\ a <= Higher(a, b) /\ b <= Higher(a, b)
                    /\ Higher(a, b) = a \/ Higher(a, b) = b
BY DEF Higher

LEMMA IntakeStarts == IntakeInit => IntakeInv
<1> SUFFICES ASSUME IntakeInit PROVE IntakeInv
  OBVIOUS
<1>1. UpdatesOK
  BY IntakeAssumption DEF IntakeInit, UpdatesOK
<1>2. PollersOK
  BY DEF IntakeInit, PollersOK, PollerOK, PollerRecords, IdlePoller
<1>3. QueueOK /\ Waits /\ Passed /\ BindingOK
  BY IntakeAssumption DEF IntakeInit, QueueOK, Waits, Passed, BindingOK
<1> QED
  BY <1>1, <1>2, <1>3 DEF IntakeInv

-----------------------------------------------------------------------------
(* What changes one poller, and stores deliveries. *)
\* A queue that has grown by a key keeps what was stored.
LEMMA QueueGrows ==
  ASSUME QueueOK, NEW key, queued' = InsertOnce(key)
  PROVE  /\ QueueOK'
         /\ \A id \in 1..MaxUpdates : Stored(id) => Stored(id)'
         /\ \A id \in 1..MaxUpdates : key = <<"command", id>> => Stored(id)'
BY DEF QueueOK, InsertOnce, Stored, Keys

\* One poller takes a step that passes over nothing that is waited for and not stored.
LEMMA OnePollerSteps ==
  ASSUME IntakeInv, updates' = updates, forgotten' \in Nat, forgotten' <= Len(updates),
         NEW h \in Hosts, NEW p, poller' = [poller EXCEPT ![h] = p], PollerOK(p),
         entitled' \subseteq entitled, Waits', QueueOK', BindingOK',
         \A id \in entitled : Stored(id) => Stored(id)',
         \A id \in entitled' : Passes(p, id) \/ id <= forgotten' => Stored(id)'
  PROVE  IntakeInv'
<1>1. UpdatesOK'
  BY DEF IntakeInv, UpdatesOK
<1>2. PollersOK'
  BY DEF IntakeInv, PollersOK, PollerOK
<1>3. ASSUME NEW id \in entitled', NEW g \in Hosts, Passes(poller'[g], id) PROVE Stored(id)'
  <2>1. CASE g = h
    BY <1>3, <2>1 DEF IntakeInv, PollersOK
  <2>2. CASE g # h
    BY <1>3, <2>2 DEF IntakeInv, PollersOK, Passed
  <2> QED
    BY <2>1, <2>2
<1>4. Passed'
  BY <1>3 DEF Passed, Passes
<1> QED
  BY <1>1, <1>2, <1>4 DEF IntakeInv

\* An update that is done with is passed over, and no other.
LEMMA TerminalPasses ==
  ASSUME NEW p, PollerOK(p), p.step # "poll", UpdatesOK
  PROVE  /\ PollerOK(Terminal(p))
         /\ \A id \in Nat : Passes(Terminal(p), id) => Passes(p, id) \/ id = p.next
<1>0. p.offset \in Nat /\ p.next \in Nat /\ p.next + 1 \in Nat
  BY DEF PollerOK, PollerRecords
<1>1. PICK k \in Nat : k = Higher(p.offset, p.next + 1) /\ (k = p.offset \/ k = p.next + 1)
  BY <1>0 DEF Higher
<1>2. CASE p.next < p.last
  <2>1. Terminal(p) = [step |-> "route", offset |-> k, next |-> p.next + 1, last |-> p.last]
    BY <1>1, <1>2 DEF Terminal, PollerOK, PollerRecords
  <2> QED
    BY <1>1, <1>2, <2>1 DEF PollerOK, PollerRecords, Passes, UpdatesOK
<1>3. CASE ~(p.next < p.last)
  <2>1. Terminal(p) = [step |-> "poll", offset |-> k, next |-> 0, last |-> 0]
    BY <1>1, <1>3 DEF Terminal, PollerOK, PollerRecords, IdlePoller
  <2> QED
    BY <1>1, <2>1 DEF PollerOK, PollerRecords, Passes, UpdatesOK
<1> QED
  BY <1>2, <1>3

-----------------------------------------------------------------------------
(* Action by action. *)
LEMMA SendUpdateKeepsIt ==
  ASSUME IntakeInv, SendUpdate
  PROVE  IntakeInv'
<1>1. PICK u \in Commands :
        /\ updates' = Append(updates, u)
        /\ entitled' = entitled \cup {Len(updates) + 1 : x \in {y \in {u} : y.cmd = "/today" /\ y.chat = binding.chat}}
  BY DEF SendUpdate
<1>2. /\ UNCHANGED <<forgotten, binding, queued, poller>>
      /\ Len(updates) \in Nat /\ Len(updates) + 1 <= MaxUpdates
      /\ updates' \in Seq(Commands) /\ Len(updates') = Len(updates) + 1
      /\ \A i \in 1..Len(updates) : updates'[i] = updates[i]
      /\ updates'[Len(updates) + 1] = u
  BY <1>1, IntakeAssumption DEF SendUpdate, IntakeInv, UpdatesOK
<1>3. \A id \in entitled' : id \in entitled \/ (id = Len(updates) + 1 /\ u.cmd = "/today" /\ u.chat = binding.chat)
  BY <1>1
<1>4. UpdatesOK'
  <2>1. entitled \subseteq 1..Len(updates) /\ forgotten \in Nat /\ forgotten <= Len(updates)
    BY DEF IntakeInv, UpdatesOK
  <2>2. ASSUME NEW id \in entitled' PROVE id \in 1..(Len(updates) + 1)
    <3>1. CASE id \in entitled
      BY <1>2, <2>1, <3>1
    <3>2. CASE id = Len(updates) + 1
      BY <1>2, <3>2
    <3> QED
      BY <1>3, <3>1, <3>2
  <2>3. forgotten' \in Nat /\ forgotten' <= Len(updates')
    BY <1>2, <2>1
  <2> QED
    BY <1>2, <2>2, <2>3 DEF UpdatesOK
<1>5. ASSUME NEW h \in Hosts PROVE PollerOK(poller[h])'
  <2>1. PollerOK(poller[h])
    BY DEF IntakeInv, PollersOK
  <2>2. poller[h].offset \in Nat /\ poller[h].next \in Nat /\ poller[h].last \in Nat
    BY <2>1 DEF PollerOK, PollerRecords
  <2> QED
    BY <1>2, <2>1, <2>2 DEF PollerOK
<1>6. PollersOK'
  BY <1>2, <1>5 DEF IntakeInv, PollersOK
<1>7. Waits'
  BY <1>2, <1>3 DEF IntakeInv, UpdatesOK, Waits
<1>8. ASSUME NEW h \in Hosts PROVE ~Passes(poller[h], Len(updates) + 1)
  <2>1. PollerOK(poller[h])
    BY DEF IntakeInv, PollersOK
  <2>2. poller[h].offset \in Nat /\ poller[h].next \in Nat /\ poller[h].last \in Nat
    BY <2>1 DEF PollerOK, PollerRecords
  <2> QED
    BY <1>2, <2>1, <2>2 DEF PollerOK, Passes
<1>9. ASSUME NEW id \in entitled'
      PROVE  /\ id <= forgotten' => Stored(id)'
             /\ \A h \in Hosts : Passes(poller[h], id)' => Stored(id)'
  <2>1. CASE id \in entitled
    BY <1>2, <2>1 DEF IntakeInv, Passed, Passes, Stored
  <2>2. CASE id = Len(updates) + 1
    BY <1>2, <1>8, <2>2 DEF IntakeInv, UpdatesOK, Passes
  <2> QED
    BY <1>3, <2>1, <2>2
<1>10. Passed'
  BY <1>9 DEF Passed
<1> QED
  BY <1>2, <1>4, <1>6, <1>7, <1>10 DEF IntakeInv, QueueOK, BindingOK

LEMMA SettingsAndTimeKeepIt ==
  ASSUME IntakeInv, IssueBindToken \/ TokenExpires \/ ChangesTimezone \/ TimeGoesOn
  PROVE  IntakeInv'
<1>1. UNCHANGED <<updates, forgotten, entitled, queued, poller>>
  BY DEF IssueBindToken, TokenExpires, ChangesTimezone, TimeGoesOn, Settings
<1>2. /\ binding.chat \in Nat /\ binding.token \in Nat /\ binding.issued \in Nat /\ binding.zone \in {0, 1}
      /\ BindingOK
  BY DEF IntakeInv, BindingOK
<1>3. BindingOK' /\ binding'.chat = binding.chat
  <2>1. CASE IssueBindToken
    <3>1. binding' = [binding EXCEPT !.token = binding.issued + 1, !.issued = binding.issued + 1]
      BY <2>1 DEF IssueBindToken, Settings
    <3>2. binding.issued + 1 \in Nat
      BY <1>2
    <3> QED
      BY <1>2, <3>1, <3>2 DEF BindingOK
  <2>2. CASE TokenExpires
    BY <1>2, <2>2 DEF TokenExpires, Settings, BindingOK
  <2>3. CASE ChangesTimezone
    <3>1. binding' = [binding EXCEPT !.zone = 1 - binding.zone] /\ 1 - binding.zone \in {0, 1}
      BY <1>2, <2>3 DEF ChangesTimezone, Settings
    <3> QED
      BY <1>2, <3>1 DEF BindingOK
  <2>4. CASE TimeGoesOn
    BY <1>2, <2>4 DEF TimeGoesOn, BindingOK
  <2> QED
    BY <2>1, <2>2, <2>3, <2>4
<1> QED
  BY <1>1, <1>3 DEF IntakeInv, UpdatesOK, PollersOK, PollerOK, QueueOK, Waits, Passed, Passes, Stored

LEMMA GetUpdatesKeepsIt ==
  ASSUME IntakeInv, NEW h \in Hosts, GetUpdates(h)
  PROVE  IntakeInv'
<1> DEFINE p    == poller[h]
           upTo == Higher(forgotten, Higher(p.offset, 1) - 1)
           q    == IF upTo = Len(updates) THEN p
                   ELSE [p EXCEPT !.step = "route", !.next = upTo + 1, !.last = Len(updates)]
<1>1. /\ p.step = "poll" /\ forgotten' = upTo /\ poller' = [poller EXCEPT ![h] = q]
      /\ UNCHANGED <<updates, entitled, binding, queued>>
  BY DEF GetUpdates, PollerSteps
<1>2. p \in PollerRecords /\ p.offset \in Nat /\ p.offset <= Len(updates) + 1 /\ PollerOK(p)
  BY DEF IntakeInv, PollersOK, PollerOK, PollerRecords
<1>3. Len(updates) \in Nat /\ forgotten \in Nat /\ forgotten <= Len(updates) /\ entitled \subseteq 1..Len(updates)
  BY DEF IntakeInv, UpdatesOK
<1>4. /\ upTo \in Nat /\ upTo <= Len(updates) /\ p.offset <= upTo + 1
      /\ \A id \in Nat : id <= upTo => id <= forgotten \/ id < p.offset \/ id = 0
  BY <1>2, <1>3 DEF Higher
<1> HIDE DEF upTo, p
<1>5. PollerOK(q) /\ \A id \in entitled : Passes(q, id) => id <= upTo \/ Passes(p, id)
  <2>1. CASE upTo = Len(updates)
    BY <1>2, <2>1
  <2>2. CASE upTo # Len(updates)
    <3>1. q = [step |-> "route", offset |-> p.offset, next |-> upTo + 1, last |-> Len(updates)]
      BY <1>2, <2>2 DEF PollerRecords
    <3> QED
      BY <1>2, <1>3, <1>4, <2>2, <3>1 DEF PollerOK, PollerRecords, Passes
  <2> QED
    BY <2>1, <2>2
<1> HIDE DEF q
<1>6. ASSUME NEW id \in entitled, Passes(q, id) \/ id <= upTo PROVE Stored(id)
  <2>1. id \in Nat /\ id # 0 /\ (id <= upTo \/ Passes(p, id))
    BY <1>3, <1>5, <1>6
  <2>2. id <= forgotten \/ Passes(p, id)
    BY <1>4, <2>1 DEF Passes
  <2> QED
    BY <2>2 DEF IntakeInv, Passed, p
<1>7. /\ forgotten' \in Nat /\ forgotten' <= Len(updates) /\ updates' = updates
      /\ entitled' \subseteq entitled
  BY <1>1, <1>4
<1>8. Waits' /\ QueueOK' /\ BindingOK'
  BY <1>1 DEF IntakeInv, Waits, QueueOK, BindingOK
<1>9. \A id \in entitled : Stored(id) => Stored(id)'
  BY <1>1 DEF Stored
<1>10. \A id \in entitled' : Passes(q, id) \/ id <= forgotten' => Stored(id)'
  BY <1>1, <1>6, <1>9
<1>11. poller' = [poller EXCEPT ![h] = q] /\ PollerOK(q)
  BY <1>1, <1>5
<1> QED
  BY <1>7, <1>8, <1>9, <1>10, <1>11, OnePollerSteps

\* A poller that only counts with its update as done keeps the invariant when nobody waits
\* for that update, or its delivery is stored.
LEMMA TerminalKeepsIt ==
  ASSUME IntakeInv, NEW h \in Hosts, poller[h].step # "poll",
         poller' = [poller EXCEPT ![h] = Terminal(poller[h])],
         UNCHANGED <<updates, forgotten>>, entitled' \subseteq entitled, Waits', QueueOK', BindingOK',
         \A id \in entitled : Stored(id) => Stored(id)',
         poller[h].next \in entitled' => queued'[<<"command", poller[h].next>>] = 1
  PROVE  IntakeInv'
<1>1. PollerOK(poller[h]) /\ UpdatesOK /\ entitled \subseteq Nat /\ forgotten \in Nat /\ forgotten <= Len(updates)
  BY DEF IntakeInv, PollersOK, UpdatesOK
<1>2. /\ PollerOK(Terminal(poller[h]))
      /\ \A id \in Nat : Passes(Terminal(poller[h]), id) => Passes(poller[h], id) \/ id = poller[h].next
  BY <1>1, TerminalPasses
<1>3. PICK q : q = Terminal(poller[h])
  OBVIOUS
<1>4. ASSUME NEW id \in entitled', Passes(q, id) \/ id <= forgotten' PROVE Stored(id)'
  <2>1. id \in entitled /\ id \in Nat
    BY <1>1
  <2>2. CASE Passes(poller[h], id) \/ id <= forgotten
    <3>1. Stored(id)
      BY <2>1, <2>2 DEF IntakeInv, Passed
    <3> QED
      BY <2>1, <3>1
  <2>3. CASE id = poller[h].next
    BY <2>3 DEF Stored
  <2> QED
    BY <1>2, <1>3, <1>4, <2>1, <2>2, <2>3
<1>5. forgotten' \in Nat /\ forgotten' <= Len(updates) /\ updates' = updates
  BY <1>1
<1>6. poller' = [poller EXCEPT ![h] = q] /\ PollerOK(q)
  BY <1>2, <1>3
<1> QED
  BY <1>4, <1>5, <1>6, OnePollerSteps

\* Nobody waits for an update with another command.
LEMMA WaitsForToday ==
  ASSUME IntakeInv, NEW h \in Hosts, poller[h].next \in entitled
  PROVE  Current(h).cmd = "/today" /\ MatchesChat(Current(h))
BY DEF IntakeInv, Waits, Current, MatchesChat

LEMMA RouteKeepsIt ==
  ASSUME IntakeInv, NEW h \in Hosts, Route(h)
  PROVE  IntakeInv'
<1>1. /\ poller[h].step = "route" /\ UNCHANGED <<updates, entitled, forgotten, binding, queued>>
      /\ poller[h] \in PollerRecords /\ PollerOK(poller[h])
  BY DEF Route, PollerSteps, IntakeInv, PollersOK, PollerOK
<1>2. Waits' /\ QueueOK' /\ BindingOK' /\ (\A id \in entitled : Stored(id) => Stored(id)')
  BY <1>1 DEF IntakeInv, Waits, QueueOK, BindingOK, Stored
<1>3. ASSUME NEW s \in {"bind", "claim"}, poller' = [poller EXCEPT ![h] = [poller[h] EXCEPT !.step = s]],
             s = "bind" => Current(h).cmd = "/start"
      PROVE  IntakeInv'
  <2>1. PICK q : q = [poller[h] EXCEPT !.step = s]
    OBVIOUS
  <2>2. q = [step |-> s, offset |-> poller[h].offset, next |-> poller[h].next, last |-> poller[h].last]
    BY <1>1, <2>1 DEF PollerRecords
  <2>3. PollerOK(q) /\ \A id \in entitled : Passes(q, id) => Passes(poller[h], id)
    BY <1>1, <1>3, <2>2 DEF PollerOK, PollerRecords, Passes, Current
  <2>4. \A id \in entitled' : Passes(q, id) \/ id <= forgotten' => Stored(id)'
    BY <1>1, <1>2, <2>3 DEF IntakeInv, Passed
  <2>5. forgotten' \in Nat /\ forgotten' <= Len(updates) /\ updates' = updates /\ entitled' \subseteq entitled
    BY <1>1 DEF IntakeInv, UpdatesOK
  <2>6. poller' = [poller EXCEPT ![h] = q]
    BY <1>3, <2>1
  <2> QED
    BY <1>2, <2>3, <2>4, <2>5, <2>6, OnePollerSteps
<1>4. CASE Current(h).cmd = "/start" /\ MatchesToken(Current(h))
  <2>1. poller' = [poller EXCEPT ![h] = [poller[h] EXCEPT !.step = "bind"]]
    BY <1>4 DEF Route, PollerSteps
  <2> QED
    BY <1>3, <1>4, <2>1
<1>5. CASE Current(h).cmd = "/today" /\ MatchesChat(Current(h))
  <2>1. poller' = [poller EXCEPT ![h] = [poller[h] EXCEPT !.step = "claim"]]
    BY <1>5 DEF Route, PollerSteps
  <2> QED
    BY <1>3, <1>5, <2>1
<1>6. CASE ~(Current(h).cmd = "/start" /\ MatchesToken(Current(h))) /\ ~(Current(h).cmd = "/today" /\ MatchesChat(Current(h)))
  <2>1. poller' = [poller EXCEPT ![h] = Terminal(poller[h])]
    BY <1>6 DEF Route, PollerSteps
  <2>2. poller[h].next \notin entitled'
    BY <1>1, <1>6, WaitsForToday
  <2> QED
    BY <1>1, <1>2, <2>1, <2>2, TerminalKeepsIt
<1> QED
  BY <1>4, <1>5, <1>6

LEMMA ConsumeAndBindKeepsIt ==
  ASSUME IntakeInv, NEW h \in Hosts, ConsumeAndBind(h)
  PROVE  IntakeInv'
<1>1. /\ poller[h].step = "bind" /\ poller' = [poller EXCEPT ![h] = Terminal(poller[h])]
      /\ UNCHANGED <<updates, forgotten>>
      /\ PollerOK(poller[h]) /\ poller[h].next \in Nat /\ poller[h].next \in 1..Len(updates)
      /\ Current(h).cmd = "/start" /\ Current(h) \in Commands /\ poller[h].next \in 1..MaxUpdates
  BY IntakeAssumption DEF ConsumeAndBind, IntakeInv, PollersOK, PollerOK, PollerRecords, Current, UpdatesOK
<1>2. poller[h].next \notin entitled
  BY <1>1, WaitsForToday
<1>3. CASE UNCHANGED <<binding, entitled, queued>>
  <2>1. Waits' /\ QueueOK' /\ BindingOK' /\ (\A id \in entitled : Stored(id) => Stored(id)')
    BY <1>1, <1>3 DEF IntakeInv, Waits, QueueOK, BindingOK, Stored
  <2> QED
    BY <1>1, <1>2, <1>3, <2>1, TerminalKeepsIt
<1>4. CASE /\ binding' = [binding EXCEPT !.chat = Current(h).chat, !.token = 0]
           /\ entitled' = {id \in entitled : updates[id].chat = Current(h).chat}
           /\ queued' = InsertOnce(<<"binding_ack", poller[h].next>>)
  <2>1. Current(h).chat \in Nat
    BY <1>1 DEF Commands, ChatIds
  <2>2. BindingOK' /\ binding'.chat = Current(h).chat
    BY <1>4, <2>1 DEF IntakeInv, BindingOK
  <2>3. Waits' /\ entitled' \subseteq entitled
    BY <1>1, <1>4, <2>2 DEF IntakeInv, Waits
  <2>4. QueueOK' /\ \A id \in 1..MaxUpdates : Stored(id) => Stored(id)'
    BY <1>4, QueueGrows DEF IntakeInv
  <2>5. entitled \subseteq 1..MaxUpdates
    BY IntakeAssumption DEF IntakeInv, UpdatesOK
  <2>6. \A id \in entitled : Stored(id) => Stored(id)'
    BY <2>4, <2>5
  <2> QED
    BY <1>1, <1>2, <2>2, <2>3, <2>4, <2>6, TerminalKeepsIt
<1> QED
  BY <1>3, <1>4 DEF ConsumeAndBind

LEMMA ClaimKeepsIt ==
  ASSUME IntakeInv, NEW h \in Hosts, ClaimCommandIfCurrentChat(h)
  PROVE  IntakeInv'
<1>1. /\ poller[h].step = "claim" /\ poller' = [poller EXCEPT ![h] = Terminal(poller[h])]
      /\ UNCHANGED <<updates, forgotten, entitled, binding>>
      /\ poller[h].next \in 1..MaxUpdates /\ entitled \subseteq 1..MaxUpdates
  BY IntakeAssumption
     DEF ClaimCommandIfCurrentChat, PollerSteps, IntakeInv, PollersOK, PollerOK, PollerRecords, UpdatesOK
<1>2. Waits' /\ BindingOK'
  BY <1>1 DEF IntakeInv, Waits, BindingOK
<1>3. CASE MatchesChat(Current(h))
  <2>1. PICK n \in 1..MaxUpdates : n = poller[h].next
    BY <1>1
  <2>2. queued' = InsertOnce(<<"command", n>>)
    BY <1>3, <2>1 DEF ClaimCommandIfCurrentChat
  <2>3. QueueOK' /\ (\A id \in 1..MaxUpdates : Stored(id) => Stored(id)') /\ Stored(n)'
    BY <2>2, QueueGrows DEF IntakeInv
  <2>4. queued'[<<"command", poller[h].next>>] = 1
    BY <2>1, <2>3 DEF Stored
  <2>5. \A id \in entitled : Stored(id) => Stored(id)'
    BY <1>1, <2>3
  <2> QED
    BY <1>1, <1>2, <2>3, <2>4, <2>5, TerminalKeepsIt
<1>4. CASE ~MatchesChat(Current(h))
  <2>1. queued' = queued
    BY <1>4 DEF ClaimCommandIfCurrentChat
  <2>2. QueueOK' /\ \A id \in entitled : Stored(id) => Stored(id)'
    BY <2>1 DEF IntakeInv, QueueOK, Stored
  <2>3. poller[h].next \notin entitled
    BY <1>4, WaitsForToday
  <2> QED
    BY <1>1, <1>2, <2>2, <2>3, TerminalKeepsIt
<1> QED
  BY <1>3, <1>4

\* Back to an offset that is not ahead of what was passed over before.
LEMMA BackToPolling ==
  ASSUME IntakeInv, NEW h \in Hosts, NEW n \in Nat, n = 0 \/ n = poller[h].offset,
         poller' = [poller EXCEPT ![h] = IdlePoller(n)],
         UNCHANGED <<updates, forgotten, entitled, binding, queued>>
  PROVE  IntakeInv'
<1>1. PollerOK(poller[h]) /\ UpdatesOK /\ entitled \subseteq Nat
  BY DEF IntakeInv, PollersOK, UpdatesOK
<1>2. PollerOK(IdlePoller(n)) /\ \A id \in entitled : Passes(IdlePoller(n), id) => Passes(poller[h], id)
  BY <1>1 DEF PollerOK, PollerRecords, IdlePoller, Passes, UpdatesOK
<1>3. PICK q : q = IdlePoller(n)
  OBVIOUS
<1>4. Waits' /\ QueueOK' /\ BindingOK' /\ (\A id \in entitled : Stored(id) => Stored(id)')
  BY DEF IntakeInv, Waits, QueueOK, BindingOK, Stored
<1>5. \A id \in entitled' : Passes(q, id) \/ id <= forgotten' => Stored(id)'
  BY <1>2, <1>3, <1>4 DEF IntakeInv, Passed
<1>6. /\ forgotten' \in Nat /\ forgotten' <= Len(updates) /\ updates' = updates
      /\ entitled' \subseteq entitled
      /\ poller' = [poller EXCEPT ![h] = q] /\ PollerOK(q)
  BY <1>1, <1>2, <1>3 DEF UpdatesOK
<1> QED
  BY <1>4, <1>5, <1>6, OnePollerSteps

LEMMA SchedulerKeepsIt ==
  ASSUME IntakeInv, NEW h \in Hosts, DailyDue(h) \/ EnqueueDaily(h)
  PROVE  IntakeInv'
<1>1. UNCHANGED <<updates, forgotten, entitled, binding, poller>>
  BY DEF DailyDue, EnqueueDaily, SchedulerSteps
<1>2. QueueOK' /\ \A id \in 1..MaxUpdates : Stored(id) => Stored(id)'
  <2>1. CASE DailyDue(h)
    BY <2>1 DEF DailyDue, IntakeInv, QueueOK, Stored
  <2>2. CASE EnqueueDaily(h)
    <3>1. PICK key : key = <<"daily", scheduler[h].day>>
      OBVIOUS
    <3>2. queued' = InsertOnce(key)
      BY <2>2, <3>1 DEF EnqueueDaily
    <3> QED
      BY <3>2, QueueGrows DEF IntakeInv
  <2> QED
    BY <2>1, <2>2
<1>3. entitled \subseteq 1..MaxUpdates
  BY IntakeAssumption DEF IntakeInv, UpdatesOK
<1>4. Passed'
  BY <1>1, <1>2, <1>3 DEF IntakeInv, Passed, Passes
<1> QED
  BY <1>1, <1>2, <1>4 DEF IntakeInv, BindingOK, UpdatesOK, PollersOK, PollerOK, Waits

LEMMA IntakeKeepsIt == IntakeInv /\ [IntakeNext]_intakeVars => IntakeInv'
<1> SUFFICES ASSUME IntakeInv, [IntakeNext]_intakeVars PROVE IntakeInv'
  OBVIOUS
<1>1. CASE SendUpdate
  BY <1>1, SendUpdateKeepsIt
<1>2. CASE IssueBindToken \/ TokenExpires \/ ChangesTimezone \/ TimeGoesOn
  BY <1>2, SettingsAndTimeKeepIt
<1>3. ASSUME NEW h \in Hosts, GetUpdates(h) \/ Route(h) \/ ConsumeAndBind(h) \/ ClaimCommandIfCurrentChat(h)
      PROVE  IntakeInv'
  BY <1>3, GetUpdatesKeepsIt, RouteKeepsIt, ConsumeAndBindKeepsIt, ClaimKeepsIt
<1>4. ASSUME NEW h \in Hosts, HandlingFails(h) PROVE IntakeInv'
  <2>1. poller[h].offset \in Nat
    BY DEF IntakeInv, PollersOK, PollerRecords
  <2> QED
    BY <1>4, <2>1, BackToPolling DEF HandlingFails, NotDurable, PollerSteps
<1>5. ASSUME NEW h \in Hosts, DailyDue(h) \/ EnqueueDaily(h) PROVE IntakeInv'
  BY <1>5, SchedulerKeepsIt
<1>6. ASSUME NEW h \in Hosts, Restart(h) PROVE IntakeInv'
  BY <1>6, BackToPolling DEF Restart
<1>7. CASE UNCHANGED intakeVars
  BY <1>7 DEF intakeVars, IntakeInv, BindingOK, UpdatesOK, PollersOK, PollerOK, QueueOK, Waits, Passed, Passes, Stored
<1> QED
  BY <1>1, <1>2, <1>3, <1>4, <1>5, <1>6, <1>7 DEF IntakeNext

\* However many servers poll, restart and fail to handle updates: Telegram forgets no request
\* that somebody waits for before its delivery is stored, and no key has a second delivery.
THEOREM UpdatesAnsweredOnce == IntakeSpec => []AnsweredOnce
<1>1. IntakeInv => AnsweredOnce
  BY DEF IntakeInv, Passed, QueueOK, Stored, AnsweredOnce
<1> QED
  BY <1>1, IntakeStarts, IntakeKeepsIt, PTL DEF IntakeSpec

-----------------------------------------------------------------------------
(***************************************************************************)
(* Scans.  The statuses of reminders have their type, and a commit writes  *)
(* over no answer.                                                         *)
(***************************************************************************)
StatusesOK == reminders \in [DedupKeys -> {"absent", "pending"} \cup Answers]

LEMMA ScanStep ==
  ASSUME StatusesOK, [ScanNext]_scanVars
  PROVE  /\ StatusesOK'
         /\ \A k \in DedupKeys : reminders[k] \in Answers => reminders'[k] = reminders[k]
<1>1. ASSUME NEW k \in DedupKeys, NEW answer \in Answers, SetReminderStatus(k, answer)
      PROVE  /\ StatusesOK'
             /\ \A j \in DedupKeys : reminders[j] \in Answers => reminders'[j] = reminders[j]
  BY <1>1 DEF SetReminderStatus, StatusesOK, Answers
<1>2. ASSUME NEW s \in Scanners, CommitScan(s)
      PROVE  /\ StatusesOK'
             /\ \A j \in DedupKeys : reminders[j] \in Answers => reminders'[j] = reminders[j]
  <2>1. reminders' = [k \in DedupKeys |->
           CASE Dismissed(k, scans[s])                              -> "dismissed"
             [] k \in scans[s].due /\ reminders[k] = "absent" -> "pending"
             [] OTHER                                        -> reminders[k]]
    BY <1>2 DEF CommitScan
  <2> QED
    BY <2>1 DEF StatusesOK, Answers, Dismissed
<1>3. CASE UNCHANGED reminders
  BY <1>3 DEF StatusesOK
<1>4. CASE NextDay \/ CustomerLeaves
  BY <1>3, <1>4 DEF NextDay, CustomerLeaves, ClienteleIs
<1>5. ASSUME NEW o \in ScanOrders,
             OrderOpened(o) \/ OrderDelivered(o) \/ OrderClosed(o) \/ OrderCancelled(o) \/ OrderDeleted(o)
      PROVE  UNCHANGED reminders
  BY <1>5 DEF OrderOpened, OrderDelivered, OrderClosed, OrderCancelled, OrderDeleted, OrderBecomes, ClienteleIs
<1>6. ASSUME NEW s \in Scanners, NEW daily \in BOOLEAN, NEW date \in ScanDays, BeginScan(s, daily, date)
      PROVE  UNCHANGED reminders
  BY <1>6 DEF BeginScan
<1>7. ASSUME NEW s \in Scanners, LoadCandidates(s) \/ SaveScanState(s) \/ ScanAborts(s)
      PROVE  UNCHANGED reminders
  BY <1>7 DEF LoadCandidates, SaveScanState, ScanAborts
<1>8. CASE UNCHANGED scanVars
  BY <1>3, <1>8 DEF scanVars
<1> QED
  BY <1>1, <1>2, <1>3, <1>4, <1>5, <1>6, <1>7, <1>8 DEF ScanNext

\* Whatever scanners, customers, orders and days there are, no scan changes a reminder that
\* the user has answered.
THEOREM AnswersStand == ScanSpec => AnsweredStaysAnswered
<1>1. ScanInit => StatusesOK
  BY DEF ScanInit, StatusesOK
<1>2. StatusesOK /\ [ScanNext]_scanVars => StatusesOK'
  BY ScanStep
<1>3. StatusesOK /\ [ScanNext]_scanVars =>
        [\A k \in DedupKeys : reminders[k] \in Answers => reminders'[k] = reminders[k]]_scanVars
  BY ScanStep
<1> QED
  BY <1>1, <1>2, <1>3, PTL DEF ScanSpec, AnsweredStaysAnswered

-----------------------------------------------------------------------------
(***************************************************************************)
(* Object stores.  A put that is still alone sees its object whole in      *)
(* force and, as far as its directory is on a disk, there too: only a      *)
(* deletion takes files away, and each one it meets it disturbs.           *)
(***************************************************************************)
Dirs      == [dir : 0..MaxDirs, has : SUBSET Files]
CallSteps == {"idle", "write", "publish", "sync", "open", "unlink"}
FileCalls == [step : CallSteps, dir : 0..MaxDirs, alone : BOOLEAN]

NoDeletion == \A d \in Deleters : fileCall[d].step = "idle"

FilesTyped ==
  /\ store \in {"local", "bucket"} /\ place \in disk /\ disk \subseteq Dirs
  /\ fileCall \in [Calls -> FileCalls]
  /\ said \in {"nothing", "created", "deleted", "uprooted"}

EmptyPlaces == \A s \in disk : s.dir = 0 => s = NoDir
BucketKeeps == store = "bucket" => /\ disk = {place} /\ (place = NoDir \/ place.has = Files)
                                   /\ \A d \in Deleters : fileCall[d].step # "unlink"
AlonePuts   == \A p \in Putters :
                 fileCall[p].step = "sync" /\ fileCall[p].alone =>
                   /\ NoDeletion /\ place.has = Files
                   /\ \A s \in disk : s.dir = place.dir => s.has = Files
SaidCreated == said = "created" => NoDeletion /\ \A s \in disk : s.has = Files
SaidDeleted == said = "deleted" => disk = {NoDir}

FilesInv == FilesTyped /\ EmptyPlaces /\ BucketKeeps /\ AlonePuts /\ SaidCreated /\ SaidDeleted

LEMMA FilesNumbers == /\ MaxDirs \in Nat /\ Files # {} /\ NoDir \in Dirs /\ NoDir.has = {} /\ NoDir.dir = 0
                      /\ \A p \in Putters : p \notin Deleters
BY FilesAssumption DEF NoDir, Dirs, Files

\* The directory a put publishes is one that nothing refers to.
LEMMA SpareHasLeast ==
  ASSUME NEW S, S \subseteq Nat, S # {}
  PROVE  (CHOOSE n \in S : \A k \in S : n <= k) \in S
<1> DEFINE R == {ss \in Nat \X Nat : ss[1] < ss[2]}
<1>1. IsWellFoundedOn(R, Nat)
  BY NatLessThanWellFounded DEF OpToRel
<1> HIDE DEF R
<1>2. PICK n \in S : \A k \in S : <<k, n>> \notin R
  BY <1>1, WFMin
<1>3. ASSUME NEW k \in S PROVE n <= k
  <2>1. k \in Nat /\ n \in Nat /\ <<k, n>> \notin R
    BY <1>2
  <2> QED
    BY <2>1 DEF R
<1> QED
  BY <1>3

LEMMA PublishedIsNew ==
  ASSUME Spare # {}
  PROVE  Published \in Dirs /\ Published.has = Files /\ Published.dir # 0
         /\ Published.dir # place.dir /\ \A s \in disk : s.dir # Published.dir
<1>1. Published.dir \in Spare
  <2>1. PICK S : S = Spare
    OBVIOUS
  <2>2. S \subseteq Nat /\ S # {}
    BY <2>1 DEF Spare
  <2>3. (CHOOSE n \in S : \A k \in S : n <= k) \in S
    BY <2>2, SpareHasLeast
  <2> QED
    BY <2>1, <2>3 DEF Published
<1> QED
  BY <1>1, FilesNumbers DEF Published, Spare, Dirs

\* Changes of one call, seen from the calls.
LEMMA OneCall ==
  ASSUME FilesInv, NEW c \in Calls, NEW step \in CallSteps
  PROVE  /\ CallAt(c, step) => /\ fileCall' \in [Calls -> FileCalls] /\ fileCall'[c].step = step
                               /\ fileCall'[c].alone = fileCall[c].alone
                               /\ \A x \in Calls \ {c} : fileCall'[x] = fileCall[x]
         /\ CallEnds(c) => /\ fileCall' \in [Calls -> FileCalls] /\ fileCall'[c].step = "idle"
                           /\ \A x \in Calls \ {c} : fileCall'[x] = fileCall[x]
<1>1. fileCall \in [Calls -> FileCalls]
  BY DEF FilesInv, FilesTyped
<1>2. NoCall \in FileCalls /\ NoCall.step = "idle"
  BY FilesNumbers DEF NoCall, FileCalls, CallSteps
<1> QED
  BY <1>1, <1>2 DEF CallAt, CallEnds, FileCalls

LEMMA Disturbed ==
  ASSUME FilesInv, NEW c \in Calls, NEW others, NEW step \in CallSteps, Disturbs(c, others, step)
  PROVE  /\ fileCall' \in [Calls -> FileCalls]
         /\ fileCall'[c].step = step /\ (fileCall'[c].alone <=> Running(others) = {})
         /\ \A x \in Calls \ {c} : /\ fileCall'[x].step = fileCall[x].step
                                   /\ x \in others => ~fileCall'[x].alone
                                   /\ x \notin others => fileCall'[x] = fileCall[x]
<1>1. fileCall \in [Calls -> FileCalls]
  BY DEF FilesInv, FilesTyped
<1>2. PICK a \in BOOLEAN : a <=> Running(others) = {}
  OBVIOUS
<1>3. \A x \in Calls : fileCall'[x] =
         IF x = c THEN [fileCall[c] EXCEPT !.step = step, !.alone = a]
         ELSE IF x \in others THEN [fileCall[x] EXCEPT !.alone = FALSE] ELSE fileCall[x]
  BY <1>2 DEF Disturbs
<1>4. \A x \in Calls : fileCall'[x] \in FileCalls
  BY <1>1, <1>3 DEF FileCalls
<1>5. fileCall' = [x \in Calls |-> fileCall'[x]]
  BY DEF Disturbs
<1>6. \A x \in Calls : fileCall[x] \in FileCalls
  BY <1>1
<1> QED
  BY <1>2, <1>3, <1>4, <1>5, <1>6 DEF FileCalls

-----------------------------------------------------------------------------
\* A put that changes neither place nor disks, and reports nothing.
LEMMA QuietPut ==
  ASSUME FilesInv, NEW p \in Putters, UNCHANGED <<store, place, disk, said>>,
         \/ \E step \in CallSteps \ {"sync"} : CallAt(p, step)
         \/ CallEnds(p)
  PROVE  FilesInv'
<1>1. p \in Calls /\ \A d \in Deleters : d \in Calls \ {p}
  BY FilesNumbers DEF Calls
<1>2. /\ fileCall' \in [Calls -> FileCalls] /\ fileCall'[p].step # "sync"
      /\ \A x \in Calls \ {p} : fileCall'[x] = fileCall[x]
  BY <1>1, OneCall DEF CallSteps
<1>3. NoDeletion' <=> NoDeletion
  BY <1>1, <1>2 DEF NoDeletion
<1>4. AlonePuts'
  BY <1>2, <1>3 DEF AlonePuts, FilesInv, Calls
<1> QED
  BY <1>1, <1>2, <1>3, <1>4 DEF FilesInv, FilesTyped, EmptyPlaces, BucketKeeps, SaidCreated, SaidDeleted

\* A put that publishes.
LEMMA PublishStep ==
  ASSUME FilesInv, NEW p \in Putters, Spare # {}, place.has = {}, place' = Published,
         disk' = {Published} \/ (disk' = disk \cup {Published} /\ store = "local"), said' = "nothing",
         Disturbs(p, Deleters, "sync"), UNCHANGED store
  PROVE  FilesInv'
<1>1. /\ p \in Calls /\ (\A d \in Deleters : d \in Calls \ {p}) /\ "sync" \in CallSteps
      /\ \A x \in Putters \ {p} : x \in Calls \ {p} /\ x \notin Deleters
  BY FilesNumbers DEF Calls, CallSteps
<1>2. /\ fileCall' \in [Calls -> FileCalls]
      /\ fileCall'[p].step = "sync" /\ (fileCall'[p].alone <=> Running(Deleters) = {})
      /\ \A d \in Deleters : fileCall'[d].step = fileCall[d].step
      /\ \A x \in Putters \ {p} : fileCall'[x] = fileCall[x]
  BY <1>1, Disturbed
<1>3. /\ Published \in Dirs /\ Published.has = Files /\ Published.dir # 0
      /\ \A s \in disk : s.dir # Published.dir
  BY PublishedIsNew
<1>4. Running(Deleters) = {} => NoDeletion'
  BY <1>2 DEF Running, NoDeletion
<1>5. AlonePuts'
  <2> SUFFICES ASSUME NEW x \in Putters, fileCall'[x].step = "sync", fileCall'[x].alone
               PROVE  /\ NoDeletion' /\ place'.has = Files
                      /\ \A s \in disk' : s.dir = place'.dir => s.has = Files
    BY DEF AlonePuts
  <2>1. x = p
    <3>1. CASE x # p
      BY <1>2, <3>1, FilesNumbers DEF FilesInv, AlonePuts
    <3> QED
      BY <3>1
  <2> QED
    BY <1>2, <1>3, <1>4, <2>1
<1>6. FilesTyped'
  BY <1>2, <1>3 DEF FilesInv, FilesTyped
<1>7. EmptyPlaces' /\ BucketKeeps'
  BY <1>2, <1>3 DEF FilesInv, EmptyPlaces, BucketKeeps
<1> QED
  BY <1>5, <1>6, <1>7 DEF FilesInv, SaidCreated, SaidDeleted

\* A put that ends: it syncs the directory, or asks for the object again.
LEMMA PutEndStep ==
  ASSUME FilesInv, NEW p \in Putters, PutEnds(p) \/ ConfirmPut(p)
  PROVE  FilesInv'
<1>1. p \in Calls /\ (\A d \in Deleters : d \in Calls \ {p}) /\ \A x \in Putters \ {p} : x \in Calls \ {p}
  BY FilesNumbers DEF Calls
<1>2. /\ fileCall' \in [Calls -> FileCalls] /\ fileCall'[p].step = "idle"
      /\ \A x \in Calls \ {p} : fileCall'[x] = fileCall[x]
  BY <1>1, OneCall DEF PutEnds, ConfirmPut, CallSteps
<1>3. NoDeletion' <=> NoDeletion
  BY <1>1, <1>2 DEF NoDeletion
<1>4. UNCHANGED <<store, place>> /\ fileCall[p].step = "sync"
  BY DEF PutEnds, ConfirmPut
<1>5. place \in disk' /\ disk' \subseteq disk
  BY DEF PutEnds, ConfirmPut, Synced, FilesInv, FilesTyped
<1>6. fileCall[p].alone => NoDeletion /\ \A s \in disk' : s.has = Files
  BY <1>4 DEF PutEnds, ConfirmPut, Synced, FilesInv, AlonePuts, BucketKeeps
<1>7. \/ said' = said \/ (fileCall[p].alone /\ said' = "created")
  BY DEF PutEnds, ConfirmPut
<1>8. FilesTyped' /\ EmptyPlaces' /\ BucketKeeps'
  <2>1. FilesTyped'
    BY <1>2, <1>4, <1>5, <1>7 DEF FilesInv, FilesTyped
  <2>2. EmptyPlaces'
    BY <1>5 DEF FilesInv, EmptyPlaces
  <2>3. BucketKeeps'
    BY <1>1, <1>2, <1>4, <1>5 DEF FilesInv, BucketKeeps
  <2> QED
    BY <2>1, <2>2, <2>3
<1>9. AlonePuts'
  BY <1>1, <1>2, <1>3, <1>4, <1>5 DEF FilesInv, AlonePuts
<1>10. SaidCreated' /\ SaidDeleted'
  BY <1>3, <1>5, <1>6, <1>7 DEF FilesInv, SaidCreated, SaidDeleted
<1> QED
  BY <1>8, <1>9, <1>10 DEF FilesInv

LEMMA PutStep ==
  ASSUME FilesInv, NEW p \in Putters,
         \/ StatFirst(p) \/ WriteTemp(p) \/ RenameTemp(p) \/ PublishFails(p)
         \/ PutEnds(p) \/ PutFails(p) \/ PutObject(p) \/ ConfirmPut(p)
  PROVE  FilesInv'
<1>1. CASE StatFirst(p) \/ WriteTemp(p) \/ PublishFails(p) \/ PutFails(p)
  <2>1. "write" \in CallSteps \ {"sync"} /\ "publish" \in CallSteps \ {"sync"}
    BY DEF CallSteps
  <2>2. \/ \E step \in CallSteps \ {"sync"} : CallAt(p, step)
        \/ CallEnds(p)
    BY <1>1, <2>1 DEF StatFirst, WriteTemp, PublishFails, PutFails
  <2> QED
    BY <1>1, <2>2, QuietPut DEF StatFirst, WriteTemp, PublishFails, PutFails
<1>2. CASE RenameTemp(p)
  BY <1>2, PublishStep DEF RenameTemp, Renames
<1>3. CASE PutObject(p)
  <2>1. CASE place.has = {}
    BY <1>3, <2>1, PublishStep DEF PutObject
  <2>2. CASE place.has # {}
    BY <1>3, <2>2, QuietPut DEF PutObject
  <2> QED
    BY <2>1, <2>2
<1>4. CASE PutEnds(p) \/ ConfirmPut(p)
  BY <1>4, PutEndStep
<1> QED
  BY <1>1, <1>2, <1>3, <1>4

-----------------------------------------------------------------------------
\* A deletion begins: what was said is not vouched for any more, and no put is alone.
LEMMA BeginStep ==
  ASSUME FilesInv, NEW d \in Deleters, BeginDelete(d, "open")
  PROVE  FilesInv'
<1>1. /\ d \in Calls /\ d \notin Putters /\ "open" \in CallSteps
      /\ \A x \in Putters : x \in Calls \ {d}
      /\ \A x \in Deleters \ {d} : x \in Calls \ {d} /\ x \notin Putters
  BY FilesNumbers DEF Calls, CallSteps
<1>2. /\ fileCall' \in [Calls -> FileCalls] /\ fileCall'[d].step = "open"
      /\ \A x \in Putters : ~fileCall'[x].alone
      /\ \A x \in Deleters \ {d} : fileCall'[x] = fileCall[x]
  <2>1. Disturbs(d, Putters, "open")
    BY DEF BeginDelete
  <2> QED
    BY <1>1, <2>1, Disturbed
<1> QED
  BY <1>2 DEF BeginDelete, FilesInv, FilesTyped, EmptyPlaces, BucketKeeps, AlonePuts, SaidCreated, SaidDeleted

\* While a deletion runs no put is alone, and nothing is vouched for as created.
LEMMA WhileDeleting ==
  ASSUME FilesInv, NEW d \in Deleters, fileCall[d].step # "idle"
  PROVE  /\ said # "created" /\ ~NoDeletion
         /\ \A p \in Putters : ~(fileCall[p].step = "sync" /\ fileCall[p].alone)
BY DEF FilesInv, AlonePuts, SaidCreated, NoDeletion

\* A step of a deletion that runs: it may end, and it may take away what is there.
LEMMA DeletionStep ==
  ASSUME FilesInv, NEW d \in Deleters, fileCall[d].step # "idle", UNCHANGED store,
         fileCall' \in [Calls -> FileCalls], \A x \in Calls \ {d} : fileCall'[x] = fileCall[x],
         place' \in disk', disk' \subseteq Dirs, EmptyPlaces',
         store = "bucket" => disk' = {place'} /\ (place' = NoDir \/ place'.has = Files)
                             /\ fileCall'[d].step # "unlink",
         said' = said \/ (said' = "deleted" /\ disk' = {NoDir}),
         disk = {NoDir} => disk' = {NoDir}
  PROVE  FilesInv'
<1>1. /\ said # "created" /\ \A p \in Putters : ~(fileCall[p].step = "sync" /\ fileCall[p].alone)
  BY WhileDeleting
<1>2. \A p \in Putters : p \in Calls \ {d}
  BY FilesNumbers DEF Calls
<1>3. AlonePuts'
  BY <1>1, <1>2 DEF AlonePuts
<1>4. FilesTyped'
  BY DEF FilesInv, FilesTyped
<1>5. BucketKeeps'
  BY DEF FilesInv, BucketKeeps, Calls
<1>6. SaidCreated' /\ SaidDeleted'
  BY <1>1 DEF FilesInv, SaidCreated, SaidDeleted
<1> QED
  BY <1>3, <1>4, <1>5, <1>6 DEF FilesInv

LEMMA UnlinkStep ==
  ASSUME FilesInv, NEW d \in Deleters, NEW f \in Files, Unlink(d, f)
  PROVE  FilesInv'
<1>1. /\ fileCall[d].step = "unlink" /\ f \in place.has /\ place' = Less(place, f)
      /\ disk' = disk \cup {Less(s, f) : s \in {s \in disk : s.dir = place.dir}}
      /\ UNCHANGED <<store, fileCall, said>>
  BY DEF Unlink
<1>2. \A s \in Dirs : Less(s, f) \in Dirs /\ Less(s, f).dir = s.dir
  BY DEF Less, Dirs
<1>3. place \in disk /\ disk \subseteq Dirs /\ place \in Dirs
  BY DEF FilesInv, FilesTyped
<1>4. place.dir # 0 /\ disk # {NoDir} /\ store # "bucket"
  BY <1>1, <1>3, FilesNumbers DEF FilesInv, EmptyPlaces, BucketKeeps
<1>5. place' \in disk' /\ disk' \subseteq Dirs
  BY <1>1, <1>2, <1>3
<1>6. EmptyPlaces'
  BY <1>1, <1>2, <1>3, <1>4 DEF FilesInv, EmptyPlaces
<1> QED
  BY <1>1, <1>4, <1>5, <1>6, DeletionStep DEF FilesInv, FilesTyped

LEMMA DeleteStep ==
  ASSUME FilesInv, NEW d \in Deleters,
         \/ DeleteKey(d) \/ RemoveExact(d) \/ OpenDir(d) \/ RemoveDir(d)
         \/ DeleteEnds(d) \/ RemovalFails(d) \/ DeleteObject(d) \/ ConfirmDelete(d)
         \/ \E f \in Files : Unlink(d, f)
  PROVE  FilesInv'
<1>0. /\ d \in Calls /\ "sync" \in CallSteps /\ "idle" \in CallSteps
      /\ place \in disk /\ disk \subseteq Dirs /\ fileCall \in [Calls -> FileCalls]
  BY DEF Calls, CallSteps, FilesInv, FilesTyped
<1>1. CASE DeleteKey(d) \/ RemoveExact(d)
  BY <1>1, BeginStep DEF DeleteKey, RemoveExact
<1>2. CASE OpenDir(d)
  <2>1. place.dir \in 0..MaxDirs
    BY <1>0 DEF Dirs
  <2>2. /\ fileCall' \in [Calls -> FileCalls] /\ \A x \in Calls \ {d} : fileCall'[x] = fileCall[x]
    <3>1. PICK s \in CallSteps : s = IF place.dir = 0 THEN "sync" ELSE "unlink"
      BY DEF CallSteps
    <3>2. fileCall' = [fileCall EXCEPT ![d].step = s, ![d].dir = place.dir]
      BY <1>2, <3>1 DEF OpenDir
    <3> QED
      BY <1>0, <2>1, <3>2 DEF FileCalls
  <2> QED
    BY <1>0, <1>2, <2>2, DeletionStep DEF OpenDir, FilesInv, EmptyPlaces
<1>3. CASE RemoveDir(d)
  <2>1. store # "bucket" /\ fileCall[d].step = "unlink"
    BY <1>3 DEF RemoveDir, FilesInv, BucketKeeps
  <2>2. /\ fileCall' \in [Calls -> FileCalls] /\ \A x \in Calls \ {d} : fileCall'[x] = fileCall[x]
    BY <1>0, <1>3, OneCall DEF RemoveDir
  <2>3. UNCHANGED <<place, disk>> \/ (place' = NoDir /\ disk' = disk \cup {NoDir})
    BY <1>3 DEF RemoveDir
  <2>4. place' \in disk' /\ disk' \subseteq Dirs /\ EmptyPlaces' /\ (disk = {NoDir} => disk' = {NoDir})
    BY <1>0, <2>3, FilesNumbers DEF FilesInv, EmptyPlaces
  <2> QED
    BY <1>3, <2>1, <2>2, <2>4, DeletionStep DEF RemoveDir
<1>4. CASE DeleteEnds(d)
  <2>1. /\ fileCall' \in [Calls -> FileCalls] /\ \A x \in Calls \ {d} : fileCall'[x] = fileCall[x]
        /\ store = "local" /\ fileCall[d].step = "sync" /\ disk' = Synced /\ UNCHANGED <<store, place>>
    BY <1>0, <1>4, OneCall DEF DeleteEnds
  <2>2. /\ place' \in disk' /\ disk' \subseteq Dirs /\ EmptyPlaces' /\ (disk = {NoDir} => disk' = {NoDir})
        /\ place.dir = 0 => disk' = {NoDir}
    BY <1>0, <2>1, FilesNumbers DEF FilesInv, EmptyPlaces, Synced
  <2>3. said' = said \/ (said' = "deleted" /\ disk' = {NoDir})
    BY <1>4, <2>2 DEF DeleteEnds
  <2> QED
    BY <2>1, <2>2, <2>3, DeletionStep
<1>5. CASE DeleteObject(d)
  <2>1. /\ fileCall' \in [Calls -> FileCalls] /\ (\A x \in Calls \ {d} : fileCall'[x] = fileCall[x])
        /\ fileCall'[d].step = "sync" /\ fileCall[d].step = "open"
        /\ place' = NoDir /\ disk' = {NoDir} /\ UNCHANGED <<store, said>>
    BY <1>0, <1>5, OneCall DEF DeleteObject
  <2> QED
    BY <2>1, FilesNumbers, DeletionStep DEF EmptyPlaces
<1>6. CASE ConfirmDelete(d)
  <2>1. /\ fileCall' \in [Calls -> FileCalls] /\ (\A x \in Calls \ {d} : fileCall'[x] = fileCall[x])
        /\ fileCall'[d].step = "idle" /\ fileCall[d].step = "sync" /\ UNCHANGED <<store, place, disk>>
        /\ store = "bucket"
    BY <1>0, <1>6, OneCall DEF ConfirmDelete
  <2>2. Stat = "missing" => disk = {NoDir}
    BY <2>1 DEF Stat, FilesInv, BucketKeeps, Files
  <2>3. said' = said \/ (said' = "deleted" /\ disk' = {NoDir})
    BY <1>6, <2>1, <2>2 DEF ConfirmDelete
  <2> QED
    BY <1>0, <2>1, <2>3, DeletionStep DEF FilesInv, EmptyPlaces, BucketKeeps
<1>7. CASE RemovalFails(d)
  <2>1. /\ fileCall' \in [Calls -> FileCalls] /\ (\A x \in Calls \ {d} : fileCall'[x] = fileCall[x])
        /\ fileCall'[d].step = "idle" /\ fileCall[d].step = "sync" /\ UNCHANGED <<store, place, disk, said>>
    BY <1>0, <1>7, OneCall DEF RemovalFails
  <2> QED
    BY <1>0, <2>1, DeletionStep DEF FilesInv, EmptyPlaces, BucketKeeps
<1>8. CASE \E f \in Files : Unlink(d, f)
  BY <1>8, UnlinkStep
<1> QED
  BY <1>1, <1>2, <1>3, <1>4, <1>5, <1>6, <1>7, <1>8

-----------------------------------------------------------------------------
\* Every call is cut short, and a loss of power leaves one of the disks, or nothing.
LEMMA LossStep ==
  ASSUME FilesInv, ServerCrashes \/ PowerIsLost \/ AncestorsAreLost
  PROVE  FilesInv'
<1>1. /\ fileCall' = [c \in Calls |-> NoCall] /\ UNCHANGED store
      /\ place' \in disk' /\ disk' \subseteq disk \cup {NoDir}
      /\ disk' = {place'} \/ (disk' = disk /\ place' = place)
      /\ said' = said \/ (said' = "uprooted")
      /\ disk' \subseteq disk \/ (disk' = {NoDir} /\ said' # "created")
  BY DEF ServerCrashes, PowerIsLost, AncestorsAreLost, Lost, FilesInv, FilesTyped
<1>2. NoCall \in FileCalls /\ NoCall.step = "idle"
  BY FilesNumbers DEF NoCall, FileCalls, CallSteps
<1>3. /\ fileCall' \in [Calls -> FileCalls] /\ NoDeletion'
      /\ \A c \in Calls : fileCall'[c].step = "idle"
  BY <1>1, <1>2 DEF NoDeletion, Calls
<1>4. FilesTyped' /\ EmptyPlaces' /\ SaidCreated'
  BY <1>1, <1>3, FilesNumbers DEF FilesInv, FilesTyped, EmptyPlaces, SaidCreated
<1>5. AlonePuts'
  BY <1>3 DEF AlonePuts, Calls
<1>6. BucketKeeps' /\ SaidDeleted'
  BY <1>1, <1>3 DEF FilesInv, BucketKeeps, SaidDeleted, Calls
<1> QED
  BY <1>4, <1>5, <1>6 DEF FilesInv

LEMMA FilesStart == FilesInit => FilesInv
<1> SUFFICES ASSUME FilesInit PROVE FilesInv
  OBVIOUS
<1>1. NoCall \in FileCalls /\ NoCall.step = "idle"
  BY FilesNumbers DEF NoCall, FileCalls, CallSteps
<1> QED
  BY <1>1, FilesNumbers, FilesAssumption DEF FilesInit, FilesInv, FilesTyped, EmptyPlaces, BucketKeeps,
     AlonePuts, SaidCreated, SaidDeleted, Calls

LEMMA FilesStep == FilesInv /\ [FilesNext]_fileVars => FilesInv'
<1> SUFFICES ASSUME FilesInv, [FilesNext]_fileVars PROVE FilesInv'
  OBVIOUS
<1>1. ASSUME UNCHANGED <<store, place, disk, fileCall, said>> PROVE FilesInv'
  BY <1>1 DEF FilesInv, FilesTyped, EmptyPlaces, BucketKeeps, AlonePuts, SaidCreated, SaidDeleted, NoDeletion
<1>2. CASE ListPrefix \/ Inventory \/ statListedObjects \/ cleanupStaleTemps \/ UNCHANGED fileVars
  BY <1>1, <1>2 DEF ListPrefix, Inventory, statListedObjects, Lists, cleanupStaleTemps, fileVars
<1> QED
  BY <1>2, PutStep, DeleteStep, LossStep DEF FilesNext

\* What a put reported as created is whole on every disk a loss of power may leave, or lost
\* with a directory above it that is not synced; and what a delete reported as done is gone from
\* all of them (platform/immutablefs/store.go and oss.go, avatarmedia/local.go).
THEOREM AnswersStayDurable == FilesSpec => []AnswersAreDurable
<1>1. FilesInv => AnswersAreDurable
  <2> SUFFICES ASSUME FilesInv PROVE AnswersAreDurable
    OBVIOUS
  <2>1. MayBeLeft = disk \/ (MayBeLeft = disk \cup {NoDir} /\ ancestors = "fresh")
    BY DEF MayBeLeft
  <2> QED
    BY <2>1 DEF FilesInv, FilesTyped, SaidCreated, SaidDeleted, AnswersAreDurable
<1> QED
  BY <1>1, FilesStart, FilesStep, PTL DEF FilesSpec

-----------------------------------------------------------------------------
(***************************************************************************)
(* Settings.  Whoever is about to save has read the columns it will write  *)
(* as they are: patches come one at a time, and so do binds; the two write *)
(* different columns, and a row that is there is locked.                   *)
(***************************************************************************)
Columns     == DOMAIN DefaultSettings
BindColumns == {"chat", "chatRevision"}
PatchFields == {"timezone", "hour", "tiers", "availability", "churn", "rules"}

\* What a reader is shown, but for the presence of the row.
Shown(r) == [x \in Columns |-> IF x = "present" THEN FALSE
                               ELSE IF x = "churn" THEN overlayChurnThresholds(r.churn) ELSE r[x]]

RowOK ==
  /\ DOMAIN row = Columns /\ row.present \in BOOLEAN /\ row.ruleRevision \in Nat /\ row.chatRevision \in Nat
  /\ ~row.present => row = DefaultSettings

AcceptedOK == DOMAIN accepted = {"values", "blind"} /\ accepted.values = Shown(row) /\ accepted.blind = FALSE

\* Rules that were seen are older than the ones in force, or are the ones in force.
SeenOK(s) == /\ s.revision \in Nat /\ s.revision <= row.ruleRevision
             /\ s.revision = row.ruleRevision => s.rules = row.rules

ReadOK(c) ==
  client[c].step = "save" =>
    LET read == client[c].read IN
    /\ DOMAIN read = Columns
    /\ c \in Editors => /\ client[c].request[1] \in PatchFields
                        /\ \A x \in Columns \ (BindColumns \cup {"present", "churn"}) : read[x] = row[x]
                        /\ read.churn = overlayChurnThresholds(row.churn)
                        /\ client[c].request[1] = "rules" => client[c].seen.revision = row.ruleRevision
    /\ c \in Binders => \A x \in BindColumns : read[x] = row[x]

Holds(c) ==
  /\ c \in Editors /\ client[c].step \in {"load", "save"} => owner["mutation"] = c
  /\ c \in Binders /\ client[c].step \in {"load", "save"} => owner["fence"] = c
  /\ client[c].step = "save" => client[c].read.present = row.present \/ ~client[c].read.present
  /\ client[c].step = "save" /\ client[c].read.present => owner["row"] = c

ClientOK(c) == DOMAIN client[c] = {"step", "request", "read", "seen"} /\ SeenOK(client[c].seen)
               /\ ReadOK(c) /\ Holds(c)

SettingsInv ==
  /\ RowOK /\ AcceptedOK /\ SeenOK(RulesOf(DefaultSettings))
  /\ DOMAIN client = SettingsUsers /\ DOMAIN owner = SettingsLocks
  /\ \A c \in SettingsUsers : ClientOK(c)

LEMMA TheSettings ==
  /\ Columns = {"present", "timezone", "hour", "tiers", "availability", "churn", "rules", "ruleRevision",
                "chat", "chatRevision"}
  /\ DefaultSettings.present = FALSE /\ DefaultSettings.rules = <<>>
  /\ DefaultSettings.ruleRevision = 0 /\ DefaultSettings.chatRevision = 1
BY DEF Columns, DefaultSettings

LEMMA OverlaidOnce ==
  /\ \A o : overlayChurnThresholds(overlayChurnThresholds(o)) = overlayChurnThresholds(o)
  /\ overlayChurnThresholds(DefaultSettings.churn) = DefaultSettings.churn
  /\ overlayChurnThresholds(<<>>) = DefaultSettings.churn
<1>1. DefaultSettings.churn = [t \in ShootTypes |-> 180]
  BY DEF DefaultSettings
<1>2. DOMAIN <<>> = {}
  OBVIOUS
<1> QED
  BY <1>1, <1>2 DEF overlayChurnThresholds

LEMMA WhatIsShown ==
  ASSUME RowOK
  PROVE  LET eff == EffectiveSettings(row) IN
         /\ DOMAIN eff = Columns /\ eff.present = row.present
         /\ \A x \in Columns \ {"churn"} : eff[x] = row[x]
         /\ eff.churn = overlayChurnThresholds(row.churn)
         /\ RulesOf(eff) = [rules |-> row.rules, revision |-> row.ruleRevision]
<1>1. CASE row.present
  BY <1>1, TheSettings DEF RowOK, EffectiveSettings, RulesOf
<1>2. CASE ~row.present
  BY <1>2, TheSettings, OverlaidOnce DEF RowOK, EffectiveSettings, RulesOf, Columns
<1> QED
  BY <1>1, <1>2 DEF RowOK

\* Who takes a free lock, or ends, leaves alone what the others have locked.
LeavesLocks(c) == DOMAIN owner' = SettingsLocks
                  /\ \A l \in SettingsLocks : owner[l] \notin {Unlocked, c} => owner'[l] = owner[l]

LEMMA LocksLeft ==
  ASSUME SettingsInv, NEW c \in SettingsUsers,
         \/ UNCHANGED owner \/ TxEnds(c) \/ \E l \in SettingsLocks : TakeLock(c, l)
  PROVE  LeavesLocks(c)
BY DEF SettingsInv, LeavesLocks, TxEnds, TakeLock, Free

\* A step of c that leaves the row alone.
LEMMA QuietClient ==
  ASSUME SettingsInv, NEW c \in SettingsUsers, UNCHANGED <<row, accepted>>, NEW next, UserAt(c, next),
         LeavesLocks(c), ClientOK(c)'
  PROVE  SettingsInv'
<1>1. DOMAIN client' = SettingsUsers /\ \A x \in SettingsUsers \ {c} : client'[x] = client[x]
  BY DEF UserAt, SettingsInv
<1>2. ASSUME NEW x \in SettingsUsers \ {c} PROVE ClientOK(x)'
  <2>1. x # c /\ x # Unlocked /\ client'[x] = client[x] /\ ClientOK(x)
    BY <1>1, SettingsAssumption DEF SettingsInv, SettingsUsers
  <2>2. \A l \in SettingsLocks : owner[l] = x => owner'[l] = x
    BY <2>1 DEF LeavesLocks
  <2> QED
    BY <2>1, <2>2 DEF ClientOK, SeenOK, ReadOK, Holds, SettingsLocks
<1> QED
  BY <1>1, <1>2 DEF SettingsInv, RowOK, AcceptedOK, SeenOK, LeavesLocks

\* Before it loads, a request has read nothing.
LEMMA EarlySteps ==
  ASSUME SettingsInv, NEW c \in SettingsUsers,
         \/ c \in Editors /\ (Get(c) \/ SendPatch(c) \/ ensureSettingsMutationFence(c))
         \/ c \in Binders /\ SendStart(c)
         \/ LockFence(c) \/ TxFails(c)
  PROVE  SettingsInv'
<1>0. UNCHANGED <<row, accepted>> /\ ClientOK(c) /\ c # Unlocked
  BY SettingsAssumption DEF Get, SendPatch, ensureSettingsMutationFence, SendStart, LockFence, TxFails, SettingsInv,
     SettingsUsers
<1>1. LeavesLocks(c)
  BY LocksLeft DEF Get, SendPatch, ensureSettingsMutationFence, SendStart, LockFence, TxFails, SettingsLocks
<1>2. DOMAIN client = SettingsUsers /\ DOMAIN owner = SettingsLocks /\ RowOK
      /\ SeenOK(RulesOf(DefaultSettings))
  BY DEF SettingsInv
<1>3. CASE c \in Editors /\ Get(c)
  <2>1. PICK next : next = [client[c] EXCEPT !.seen = RulesOf(EffectiveSettings(row))]
    OBVIOUS
  <2>2. UserAt(c, next) /\ client'[c] = next /\ client[c].step = "idle" /\ UNCHANGED owner
    BY <1>2, <1>3, <2>1 DEF Get, UserAt
  <2>3. next.step = "idle" /\ DOMAIN next = {"step", "request", "read", "seen"}
        /\ next.seen = [rules |-> row.rules, revision |-> row.ruleRevision]
    BY <1>0, <1>2, <2>1, <2>2, WhatIsShown DEF ClientOK
  <2>4. ClientOK(c)'
    BY <1>0, <1>2, <2>2, <2>3 DEF ClientOK, SeenOK, ReadOK, Holds, RowOK
  <2> QED
    BY <1>0, <1>1, <2>2, <2>4, QuietClient
<1>4. ASSUME NEW step \in {"fence", "mutation", "load"}, UserAt(c, [client[c] EXCEPT !.step = step]),
             step = "load" => /\ c \in Editors => owner'["mutation"] = c
                              /\ c \in Binders => owner'["fence"] = c
      PROVE  SettingsInv'
  <2>1. PICK next : next = [client[c] EXCEPT !.step = step]
    OBVIOUS
  <2>2. UserAt(c, next) /\ client'[c] = next
    BY <1>2, <1>4, <2>1 DEF UserAt
  <2>3. next.step = step /\ DOMAIN next = {"step", "request", "read", "seen"} /\ next.seen = client[c].seen
    BY <1>0, <2>1 DEF ClientOK
  <2>4. ClientOK(c)'
    BY <1>0, <1>4, <2>2, <2>3 DEF ClientOK, SeenOK, ReadOK, Holds
  <2> QED
    BY <1>0, <1>1, <2>2, <2>4, QuietClient
<1>5. CASE c \in Editors /\ (SendPatch(c) \/ ensureSettingsMutationFence(c))
  BY <1>2, <1>4, <1>5, SettingsAssumption DEF SendPatch, ensureSettingsMutationFence, TakeLock, SettingsLocks
<1>6. CASE c \in Binders /\ SendStart(c)
  BY <1>4, <1>6 DEF SendStart
<1>7. CASE LockFence(c)
  <2>1. owner'["fence"] = c /\ client'= [client EXCEPT ![c] = [client[c] EXCEPT !.step =
                                           IF c \in Editors THEN "mutation" ELSE "load"]]
    BY <1>2, <1>7 DEF LockFence, TakeLock, UserAt, SettingsLocks
  <2>2. CASE c \in Editors
    BY <1>4, <2>1, <2>2 DEF UserAt
  <2>3. CASE c \notin Editors
    BY <1>4, <2>1, <2>3 DEF UserAt
  <2> QED
    BY <2>2, <2>3
<1>8. CASE TxFails(c)
  <2>1. UserAt(c, AtRest) /\ client'[c] = AtRest
    BY <1>2, <1>8 DEF TxFails, UserAt
  <2>2. AtRest.step = "idle" /\ DOMAIN AtRest = {"step", "request", "read", "seen"}
        /\ AtRest.seen = RulesOf(DefaultSettings)
    BY DEF AtRest
  <2>3. ClientOK(c)'
    BY <1>0, <1>2, <2>1, <2>2 DEF ClientOK, SeenOK, ReadOK, Holds
  <2> QED
    BY <1>0, <1>1, <2>1, <2>3, QuietClient
<1> QED
  BY <1>3, <1>5, <1>6, <1>7, <1>8

LEMMA LoadStep ==
  ASSUME SettingsInv, NEW c \in SettingsUsers, NEW q, Load(c, q),
         c \in Editors => /\ q[1] \in PatchFields
                          /\ q[1] = "rules" => client[c].seen.revision = EffectiveSettings(row).ruleRevision
  PROVE  SettingsInv'
<1>0. UNCHANGED <<row, accepted>> /\ ClientOK(c) /\ RowOK /\ client[c].step = "load"
      /\ DOMAIN client = SettingsUsers /\ DOMAIN owner = SettingsLocks
  BY DEF Load, SettingsInv
<1>1. LeavesLocks(c)
  BY LocksLeft DEF Load, SettingsLocks
<1>2. PICK next : next = [client[c] EXCEPT !.step = "save", !.read = EffectiveSettings(row), !.request = q]
  OBVIOUS
<1>3. UserAt(c, next) /\ client'[c] = next
  BY <1>0, <1>2 DEF Load, UserAt
<1>4. /\ next.step = "save" /\ DOMAIN next = {"step", "request", "read", "seen"}
      /\ next.seen = client[c].seen /\ next.read = EffectiveSettings(row) /\ next.request = q
  BY <1>0, <1>2 DEF ClientOK
<1>5. row.present => owner'["row"] = c
  BY <1>0 DEF Load, TakeLock, SettingsLocks
<1>6. \A l \in SettingsLocks : owner[l] = c => owner'[l] = c
  BY <1>0 DEF Load, TakeLock
<1>7. Holds(c)'
  BY <1>0, <1>3, <1>4, <1>5, <1>6, WhatIsShown DEF ClientOK, Holds, SettingsLocks
<1>8. ReadOK(c)'
  BY <1>0, <1>3, <1>4, WhatIsShown, TheSettings DEF ReadOK, BindColumns
<1>9. ClientOK(c)'
  BY <1>0, <1>3, <1>4, <1>7, <1>8 DEF ClientOK, SeenOK
<1> QED
  BY <1>0, <1>1, <1>3, <1>9, QuietClient

-----------------------------------------------------------------------------
\* Saving.  The row changes, and c is at rest.

LEMMA SaveStep ==
  ASSUME SettingsInv, NEW c \in SettingsUsers, TxEnds(c), UserAt(c, AtRest), RowOK', AcceptedOK',
         Free(c, "row"), row'.present,
         \A s : SeenOK(s) => SeenOK(s)',
         c \in Editors => owner["mutation"] = c /\ \A x \in BindColumns : row'[x] = row[x],
         c \in Binders => /\ owner["fence"] = c
                          /\ \A x \in Columns \ (BindColumns \cup {"present", "churn"}) : row'[x] = row[x]
                          /\ overlayChurnThresholds(row'.churn) = overlayChurnThresholds(row.churn)
  PROVE  SettingsInv'
<1>1. /\ DOMAIN client' = SettingsUsers /\ client'[c] = AtRest
      /\ \A x \in SettingsUsers \ {c} : client'[x] = client[x]
  BY DEF UserAt, SettingsInv
<1>2. LeavesLocks(c)
  BY LocksLeft
<1>3. ASSUME NEW x \in SettingsUsers \ {c} PROVE ClientOK(x)'
  <2>1. x # c /\ x # Unlocked /\ client'[x] = client[x] /\ ClientOK(x)
    BY <1>1, SettingsAssumption DEF SettingsInv, SettingsUsers
  <2>2. \A l \in SettingsLocks : owner[l] = x => owner'[l] = x
    BY <1>2, <2>1 DEF LeavesLocks
  <2>3. client[x].step = "save" => ~client[x].read.present
    BY <2>1 DEF ClientOK, Holds, Free
  <2>4. Holds(x)'
    BY <2>1, <2>2, <2>3 DEF ClientOK, Holds, SettingsLocks
  <2>5. client[x].step = "save" => ~(c \in Editors /\ x \in Editors) /\ ~(c \in Binders /\ x \in Binders)
    BY <2>1 DEF ClientOK, Holds
  <2>6. ReadOK(x)'
    <3>1. CASE c \in Editors
      <4>1. client[x].step = "save" => x \notin Editors
        BY <2>5, <3>1
      <4> QED
        BY <2>1, <3>1, <4>1 DEF ClientOK, ReadOK
    <3>2. CASE c \in Binders
      <4>1. client[x].step = "save" => x \notin Binders
        BY <2>5, <3>2
      <4>2. \A y \in {"rules", "ruleRevision"} : row'[y] = row[y]
        BY <3>2, TheSettings DEF BindColumns
      <4> QED
        BY <2>1, <3>2, <4>1, <4>2 DEF ClientOK, ReadOK
    <3> QED
      BY <3>1, <3>2 DEF SettingsUsers
  <2> QED
    BY <2>1, <2>4, <2>6 DEF ClientOK
<1>4. ClientOK(c)'
  <2>1. AtRest.step = "idle" /\ DOMAIN AtRest = {"step", "request", "read", "seen"}
        /\ AtRest.seen = RulesOf(DefaultSettings)
    BY DEF AtRest
  <2>2. SeenOK(RulesOf(DefaultSettings))'
    BY DEF SettingsInv
  <2> QED
    BY <1>1, <2>1, <2>2 DEF ClientOK, ReadOK, Holds, SeenOK
<1> QED
  BY <1>1, <1>2, <1>3, <1>4 DEF SettingsInv, LeavesLocks

\* A patch changes its field, and the revision with the rules.
LEMMA Patched ==
  ASSUME NEW read, DOMAIN read = Columns, read.ruleRevision \in Nat, NEW field \in PatchFields, NEW v,
         read.churn = overlayChurnThresholds(read.churn), NEW next, next = applyPatch(read, field, v)
  PROVE  /\ DOMAIN next = Columns /\ \A x \in Columns \ {field, "ruleRevision"} : next[x] = read[x]
         /\ next.ruleRevision = IF next.rules = read.rules THEN read.ruleRevision ELSE read.ruleRevision + 1
         /\ next.churn = overlayChurnThresholds(next.churn)
<1>1. CASE field # "rules"
  <2>1. PICK w : w = IF field = "churn" THEN overlayChurnThresholds(v) ELSE v
    OBVIOUS
  <2>2. next = [read EXCEPT ![field] = w]
    BY <1>1, <2>1 DEF applyPatch
  <2> QED
    BY <1>1, <2>1, <2>2, TheSettings, OverlaidOnce DEF PatchFields
<1>2. CASE field = "rules" /\ v = read.rules
  BY <1>2 DEF applyPatch
<1>3. CASE field = "rules" /\ v # read.rules
  <2>1. next = [read EXCEPT !.rules = v, !.ruleRevision = read.ruleRevision + 1]
    BY <1>3 DEF applyPatch
  <2> QED
    BY <1>3, <2>1, TheSettings
<1> QED
  BY <1>1, <1>2, <1>3

LEMMA SavePatchStep ==
  ASSUME SettingsInv, NEW e \in Editors, SavePatch(e)
  PROVE  SettingsInv'
<1>1. PICK read, field, v, next :
        /\ read = client[e].read /\ field = client[e].request[1] /\ v = client[e].request[2]
        /\ next = applyPatch(read, field, v)
  OBVIOUS
<1>2. /\ client[e].step = "save" /\ Free(e, "row") /\ TxEnds(e) /\ UserAt(e, AtRest)
      /\ row' = [next EXCEPT !.present = TRUE, !.chat = row.chat, !.chatRevision = row.chatRevision]
      /\ accepted' = [values |-> [accepted.values EXCEPT
                                    ![field] = next[field],
                                    !.ruleRevision = IF next.rules # row.rules THEN @ + 1 ELSE @],
                      blind |-> accepted.blind \/ (field = "rules" /\ client[e].seen.rules # row.rules)]
  BY <1>1 DEF SavePatch, upsertSettings
<1>3. e \in SettingsUsers /\ e \notin Binders /\ ClientOK(e) /\ RowOK /\ AcceptedOK
  BY SettingsAssumption DEF SettingsInv, SettingsUsers
<1>4. /\ DOMAIN read = Columns /\ field \in PatchFields
      /\ \A x \in Columns \ (BindColumns \cup {"present", "churn"}) : read[x] = row[x]
      /\ read.churn = overlayChurnThresholds(row.churn)
      /\ field = "rules" => client[e].seen.revision = row.ruleRevision
      /\ owner["mutation"] = e
  BY <1>1, <1>2, <1>3 DEF ClientOK, ReadOK, Holds
<1>5. read.ruleRevision = row.ruleRevision /\ read.rules = row.rules /\ row.ruleRevision \in Nat
      /\ read.churn = overlayChurnThresholds(read.churn)
  BY <1>3, <1>4, TheSettings, OverlaidOnce DEF RowOK, BindColumns
<1>6. /\ DOMAIN next = Columns /\ \A x \in Columns \ {field, "ruleRevision"} : next[x] = read[x]
      /\ next.ruleRevision = IF next.rules = row.rules THEN row.ruleRevision ELSE row.ruleRevision + 1
      /\ next.churn = overlayChurnThresholds(next.churn)
  BY <1>1, <1>4, <1>5, Patched
<1>7. /\ DOMAIN row' = Columns /\ row'.present = TRUE
      /\ \A x \in BindColumns : row'[x] = row[x]
      /\ \A x \in Columns \ (BindColumns \cup {"present"}) : row'[x] = next[x]
  BY <1>2, <1>6, TheSettings DEF BindColumns
<1>8. RowOK'
  <2>1. row'.ruleRevision = next.ruleRevision /\ row'.chatRevision = row.chatRevision
    BY <1>7, TheSettings DEF BindColumns
  <2>2. next.ruleRevision \in Nat /\ row.chatRevision \in Nat
    BY <1>3, <1>5, <1>6 DEF RowOK
  <2>3. row'.ruleRevision \in Nat /\ row'.chatRevision \in Nat
    BY <2>1, <2>2
  <2> QED
    BY <1>7, <2>3 DEF RowOK
<1>9. AcceptedOK'
  <2>1. ~(field = "rules" /\ client[e].seen.rules # row.rules) /\ accepted.blind = FALSE
    BY <1>3, <1>4 DEF ClientOK, SeenOK, AcceptedOK
  <2>2. DOMAIN accepted.values = Columns /\ \A x \in Columns : accepted.values[x] = Shown(row)[x]
    BY <1>3 DEF AcceptedOK, Shown
  <2>3. PICK new : new = [accepted.values EXCEPT ![field] = next[field],
                            !.ruleRevision = IF next.rules # row.rules THEN @ + 1 ELSE @]
    OBVIOUS
  <2>4. field \in Columns /\ field \notin BindColumns \cup {"present", "ruleRevision"}
    BY <1>4, TheSettings DEF PatchFields, BindColumns
  <2>5. new = [x \in Columns |-> IF x = field THEN next[field]
                                 ELSE IF x = "ruleRevision" THEN next.ruleRevision ELSE Shown(row)[x]]
    <3>1. Shown(row).ruleRevision = row.ruleRevision
      BY TheSettings DEF Shown
    <3>2. DOMAIN new = Columns /\ new[field] = next[field] /\ new.ruleRevision = next.ruleRevision
          /\ \A x \in Columns \ {field, "ruleRevision"} : new[x] = Shown(row)[x]
      BY <1>6, <2>2, <2>3, <2>4, <3>1, TheSettings
    <3> QED
      BY <2>3, <2>4, <3>2
  <2>6. ASSUME NEW x \in Columns
        PROVE  Shown(row')[x] = IF x = field THEN next[field]
                                ELSE IF x = "ruleRevision" THEN next.ruleRevision ELSE Shown(row)[x]
    <3>1. CASE x = "present"
      BY <2>4, <3>1 DEF Shown
    <3>2. CASE x = "churn"
      <4>1. Shown(row')[x] = next.churn
        BY <1>6, <1>7, <3>2, TheSettings DEF Shown, BindColumns
      <4>2. field # "churn" => next.churn = overlayChurnThresholds(row.churn)
        BY <1>4, <1>6, TheSettings
      <4> QED
        BY <3>2, <4>1, <4>2 DEF Shown
    <3>3. CASE x \in BindColumns
      BY <1>7, <2>4, <3>3 DEF Shown, BindColumns
    <3>4. CASE x \notin BindColumns \cup {"present", "churn"}
      BY <1>4, <1>6, <1>7, <3>4 DEF Shown
    <3> QED
      BY <3>1, <3>2, <3>3, <3>4
  <2>7. new = Shown(row')
    BY <2>5, <2>6 DEF Shown
  <2>8. accepted' = [values |-> new, blind |-> FALSE]
    BY <1>2, <2>1, <2>3
  <2> QED
    BY <2>7, <2>8 DEF AcceptedOK
<1>10. ASSUME NEW s, SeenOK(s) PROVE SeenOK(s)'
  <2>1. row'.ruleRevision = next.ruleRevision /\ row'.rules = next.rules
    BY <1>7, TheSettings DEF BindColumns
  <2> QED
    BY <1>5, <1>6, <1>10, <2>1 DEF SeenOK
<1> QED
  BY <1>2, <1>3, <1>4, <1>7, <1>8, <1>9, <1>10, SaveStep

LEMMA SaveChatStep ==
  ASSUME SettingsInv, NEW b \in Binders, SaveChat(b)
  PROVE  SettingsInv'
<1>1. PICK read, base, n :
        /\ read = client[b].read /\ base = IF row.present THEN row ELSE InsertedRow
        /\ n = IF read.chat \notin {Unbound, b} THEN read.chatRevision + 1
               ELSE IF read.chat = b THEN base.chatRevision ELSE read.chatRevision
  OBVIOUS
<1>2. /\ client[b].step = "save" /\ Free(b, "row") /\ TxEnds(b) /\ UserAt(b, AtRest)
      /\ row' = [base EXCEPT !.chat = b, !.chatRevision = n]
      /\ accepted' = [accepted EXCEPT !.values.chat = b,
                         !.values.chatRevision = IF row.chat \notin {Unbound, b} THEN @ + 1 ELSE @]
  BY <1>1 DEF SaveChat
<1>3. b \in SettingsUsers /\ b \notin Editors /\ ClientOK(b) /\ RowOK /\ AcceptedOK
  BY SettingsAssumption DEF SettingsInv, SettingsUsers
<1>4. read.chat = row.chat /\ read.chatRevision = row.chatRevision /\ owner["fence"] = b
  BY <1>1, <1>2, <1>3 DEF ClientOK, ReadOK, Holds, BindColumns
<1>5. /\ DOMAIN base = Columns /\ base.present = TRUE /\ base.chatRevision = row.chatRevision
      /\ \A x \in Columns \ {"present", "churn"} : base[x] = row[x]
      /\ overlayChurnThresholds(base.churn) = overlayChurnThresholds(row.churn)
  <2>1. CASE row.present
    BY <1>1, <1>3, <2>1, TheSettings DEF RowOK
  <2>2. CASE ~row.present
    <3>1. row = DefaultSettings /\ base = [DefaultSettings EXCEPT !.present = TRUE, !.churn = <<>>]
      BY <1>1, <1>3, <2>2 DEF RowOK, InsertedRow
    <3>2. /\ DOMAIN base = Columns /\ base.present = TRUE /\ base.churn = <<>>
          /\ \A x \in Columns \ {"present", "churn"} : base[x] = row[x]
      BY <3>1, TheSettings DEF Columns
    <3> QED
      BY <3>1, <3>2, TheSettings, OverlaidOnce
  <2> QED
    BY <2>1, <2>2
<1>6. /\ n = IF row.chat \notin {Unbound, b} THEN row.chatRevision + 1 ELSE row.chatRevision
      /\ n \in Nat
  BY <1>1, <1>3, <1>4, <1>5 DEF RowOK
<1>7. /\ DOMAIN row' = Columns /\ row'.present = TRUE /\ row'.chat = b /\ row'.chatRevision = n
      /\ \A x \in Columns \ (BindColumns \cup {"present", "churn"}) : row'[x] = row[x]
      /\ overlayChurnThresholds(row'.churn) = overlayChurnThresholds(row.churn)
  BY <1>2, <1>5, TheSettings DEF BindColumns
<1>8. row'.rules = row.rules /\ row'.ruleRevision = row.ruleRevision
  BY <1>7, TheSettings DEF BindColumns
<1>9. RowOK'
  BY <1>3, <1>6, <1>7, <1>8 DEF RowOK
<1>10. AcceptedOK'
  <2>1. DOMAIN accepted = {"values", "blind"} /\ accepted.values = Shown(row) /\ accepted.blind = FALSE
        /\ DOMAIN accepted.values = Columns
    BY <1>3 DEF AcceptedOK, Shown
  <2>2. Shown(row).chatRevision = row.chatRevision
    BY TheSettings DEF Shown
  <2>3. accepted'.values = [Shown(row) EXCEPT !.chat = b, !.chatRevision = n] /\ accepted'.blind = FALSE
        /\ DOMAIN accepted' = {"values", "blind"}
    BY <1>2, <1>6, <2>1, <2>2, TheSettings
  <2>4. [Shown(row) EXCEPT !.chat = b, !.chatRevision = n] = Shown(row')
    BY <1>7, TheSettings DEF Shown, BindColumns
  <2> QED
    BY <2>3, <2>4 DEF AcceptedOK
<1>11. ASSUME NEW s, SeenOK(s) PROVE SeenOK(s)'
  BY <1>8, <1>11 DEF SeenOK
<1> QED
  BY <1>2, <1>3, <1>4, <1>7, <1>9, <1>10, <1>11, SaveStep

-----------------------------------------------------------------------------
LEMMA SettingsStart == SettingsInit => SettingsInv
<1> SUFFICES ASSUME SettingsInit PROVE SettingsInv
  OBVIOUS
<1>1. RowOK /\ SeenOK(RulesOf(DefaultSettings))
  <2>1. row = DefaultSettings
    BY DEF SettingsInit
  <2>2. row.present \in BOOLEAN /\ row.ruleRevision \in Nat /\ row.chatRevision \in Nat
    <3>1. row.ruleRevision \in Nat /\ row.chatRevision \in Nat
      BY <2>1, TheSettings
    <3>2. DefaultSettings.present \in BOOLEAN
      BY DEF DefaultSettings
    <3> QED
      BY <2>1, <3>1, <3>2
  <2>3. DOMAIN row = Columns
    BY <2>1 DEF Columns
  <2>4. RulesOf(DefaultSettings).revision = 0 /\ RulesOf(DefaultSettings).rules = row.rules
        /\ row.ruleRevision = 0
    BY <2>1, TheSettings DEF RulesOf
  <2> QED
    BY <2>1, <2>2, <2>3, <2>4 DEF RowOK, SeenOK
<1>2. AcceptedOK
  <2>1. DefaultSettings = Shown(DefaultSettings)
    <3>1. PICK d : d = DefaultSettings
      OBVIOUS
    <3>2. d = [x \in Columns |-> d[x]]
      <4>1. DefaultSettings = [x \in Columns |-> DefaultSettings[x]]
        BY DEF DefaultSettings, Columns
      <4> QED
        BY <3>1, <4>1
    <3>3. d["present"] = FALSE /\ d["churn"] = overlayChurnThresholds(d.churn)
      BY <3>1, TheSettings, OverlaidOnce
    <3>4. Shown(d) = [x \in Columns |-> d[x]]
      BY <3>3 DEF Shown
    <3> QED
      BY <3>1, <3>2, <3>4
  <2> QED
    BY <2>1 DEF SettingsInit, AcceptedOK
<1>3. ASSUME NEW c \in SettingsUsers PROVE ClientOK(c)
  <2>1. client[c] = AtRest /\ AtRest.step = "idle" /\ DOMAIN AtRest = {"step", "request", "read", "seen"}
        /\ AtRest.seen = RulesOf(DefaultSettings)
    BY DEF SettingsInit, AtRest
  <2> QED
    BY <1>1, <2>1 DEF ClientOK, ReadOK, Holds
<1> QED
  BY <1>1, <1>2, <1>3 DEF SettingsInit, SettingsInv

LEMMA SettingsStep == SettingsInv /\ [SettingsNext]_settingsVars => SettingsInv'
<1> SUFFICES ASSUME SettingsInv, [SettingsNext]_settingsVars PROVE SettingsInv'
  OBVIOUS
<1>1. ASSUME NEW e \in Editors, loadSettings(e) PROVE SettingsInv'
  <2>1. PICK q \in PatchRequests : ~PatchRefused(e, q[1], q[2]) /\ Load(e, q)
    BY <1>1 DEF loadSettings
  <2>2. q[1] \in PatchFields
    BY <2>1 DEF PatchRequests, PatchFields
  <2> QED
    BY <2>1, <2>2, LoadStep DEF PatchRefused, SettingsUsers
<1>2. ASSUME NEW b \in Binders, LoadChat(b) PROVE SettingsInv'
  BY <1>2, LoadStep, SettingsAssumption DEF LoadChat, SettingsUsers
<1>3. CASE UNCHANGED settingsVars
  BY <1>3 DEF settingsVars, SettingsInv, RowOK, AcceptedOK, SeenOK, ClientOK, ReadOK, Holds
<1>4. ASSUME NEW c \in SettingsUsers,
             \/ c \in Editors /\ (Get(c) \/ SendPatch(c) \/ ensureSettingsMutationFence(c))
             \/ c \in Binders /\ SendStart(c)
             \/ LockFence(c) \/ TxFails(c)
      PROVE  SettingsInv'
  BY <1>4, EarlySteps
<1> QED
  BY <1>1, <1>2, <1>3, <1>4, SavePatchStep, SaveChatStep DEF SettingsNext, SettingsUsers

\* Whatever patches and binds meet, each column shown is what its last accepted change says,
\* and no patch of the rules replaces rules its client has not seen (settings/repository.go
\* Patch, reminder/digest/binding_repository.go ConsumeAndBind).
THEOREM LastWritesStand == SettingsSpec => []LastWriteStands
<1>1. SettingsInv => LastWriteStands
  <2> SUFFICES ASSUME SettingsInv PROVE LastWriteStands
    OBVIOUS
  <2>1. PICK eff : eff = EffectiveSettings(row)
    OBVIOUS
  <2>2. /\ DOMAIN eff = Columns /\ \A x \in Columns \ {"churn"} : eff[x] = row[x]
        /\ eff.churn = overlayChurnThresholds(row.churn)
    BY <2>1, WhatIsShown DEF SettingsInv
  <2>3. [eff EXCEPT !.present = FALSE] = Shown(row)
    BY <2>2, TheSettings DEF Shown
  <2> QED
    BY <2>1, <2>3 DEF SettingsInv, AcceptedOK, LastWriteStands
<1> QED
  BY <1>1, SettingsStart, SettingsStep, PTL DEF SettingsSpec

-----------------------------------------------------------------------------
(***************************************************************************)
(* The calendar.  An instant belongs to the day that clocks show; the      *)
(* segments of a day are compared with what is taken at its instants, and  *)
(* the openings with the gaps between the merged parts of a window.        *)
(***************************************************************************)
\* One change of the zone, by an hour.
ZoneOK == zone.at \in Nat /\ zone.shift \in {-1, 1}

\* A day of the clocks begins at the first hour of it and ends before the first hour of the next.
LEMMA DivIsDay ==
  ASSUME NEW H \in Nat \ {0}, NEW a \in Int, NEW d \in Int
  PROVE  /\ a \div H \in Int
         /\ d <= a \div H <=> d * H <= a
         /\ a \div H <= d <=> a < (d + 1) * H
<1>1. PICK q \in Int, r \in Int : a = q * H + r /\ 0 <= r /\ r < H /\ q = a \div H
  <2>1. a = (a \div H) * H + (a % H) /\ 0 <= a % H /\ a % H < H /\ a \div H \in Int /\ a % H \in Int
    OBVIOUS
  <2> QED
    BY <2>1
<1>2. \A x, y \in Int : x <= y => x * H <= y * H
  <2> SUFFICES ASSUME NEW x \in Int, NEW y \in Int, x <= y PROVE x * H <= y * H
    OBVIOUS
  <2>1. (y - x) * H >= 0 /\ y * H = x * H + (y - x) * H
    OBVIOUS
  <2>2. x * H \in Int /\ y * H \in Int /\ (y - x) * H \in Int
    OBVIOUS
  <2> QED
    BY <2>1, <2>2
<1>3. PICK qh \in Int : qh = q * H
  OBVIOUS
<1>4. d <= q <=> d * H <= a
  <2>1. PICK dh \in Int : dh = d * H
    OBVIOUS
  <2>2. CASE d <= q
    <3>1. dh <= qh
      BY <1>2, <1>3, <2>1, <2>2
    <3> QED
      BY <1>1, <1>3, <2>1, <2>2, <3>1
  <2>3. CASE ~(d <= q)
    <3>1. (q + 1) * H <= d * H /\ (q + 1) * H = q * H + H
      BY <1>2, <2>3
    <3>2. qh + H <= dh
      BY <1>3, <2>1, <3>1
    <3> QED
      BY <1>1, <1>3, <2>1, <2>3, <3>2
  <2> QED
    BY <2>2, <2>3
<1>5. q <= d <=> a < (d + 1) * H
  <2>1. PICK eh \in Int : eh = (d + 1) * H
    OBVIOUS
  <2>2. CASE q <= d
    <3>1. (q + 1) * H <= (d + 1) * H /\ (q + 1) * H = q * H + H
      BY <1>2, <2>2
    <3>2. qh + H <= eh
      BY <1>3, <2>1, <3>1
    <3> QED
      BY <1>1, <1>3, <2>1, <2>2, <3>2
  <2>3. CASE ~(q <= d)
    <3>1. (d + 1) * H <= q * H
      BY <1>2, <2>3
    <3> QED
      BY <1>1, <1>3, <2>1, <2>3, <3>1
  <2> QED
    BY <2>2, <2>3
<1> QED
  BY <1>1, <1>4, <1>5

\* Clocks go back by an hour at most, so that they never show an earlier time than an hour before.
LEMMA LocalIs ==
  ASSUME ZoneOK
  PROVE  /\ \A i \in Int : offset(i) \in {-1, 0, 1} /\ local(i) \in Int /\ local(i) = i + offset(i)
         /\ \A i, j \in Int : i <= j => local(i) <= local(j)
<1>1. PICK at \in Nat, sh \in {-1, 1} : at = zone.at /\ sh = zone.shift
  BY DEF ZoneOK
<1>2. \A i \in Int : offset(i) = (IF i < at THEN 0 ELSE sh) /\ local(i) = i + offset(i)
  BY <1>1 DEF offset, local
<1> QED
  BY <1>1, <1>2

\* The day of an instant, asked of the hours that clocks show.
LEMMA OnDay ==
  ASSUME ZoneOK, NEW i \in Int, NEW d \in Int
  PROVE  /\ localDateIn(i) \in Int
         /\ d <= localDateIn(i) <=> d * Hours <= local(i)
         /\ localDateIn(i) <= d <=> local(i) < (d + 1) * Hours
<1>1. PICK a \in Int : a = local(i)
  BY LocalIs
<1>2. Hours \in Nat \ {0}
  BY CalendarAssumption
<1>3. localDateIn(i) = a \div Hours
  BY <1>1 DEF localDateIn
<1> QED
  BY <1>1, <1>2, <1>3, DivIsDay

\* The instant that is found for a wall time.
Tried(W) == {W - offset(W), W - offset(W - Hours), W - offset(W + Hours)}
Reads(W) == {i \in Tried(W) : local(i) = W}

\* The first of the candidates that read back as the wall time, or the last of all.
LEMMA ResolvedIs ==
  ASSUME ZoneOK, NEW d \in Int, NEW h \in Int, NEW W \in Int, W = d * Hours + h,
         NEW r, r = resolveLocalInstant(d, h)
  PROVE  /\ r \in Tried(W) /\ r \in Int
         /\ d \in MonthDays /\ Reads(W) # {} => r \in Reads(W) /\ \A i \in Reads(W) : r <= i
         /\ ~(d \in MonthDays /\ Reads(W) # {}) => \A i \in Tried(W) : i <= r
<1>0. Hours \in Nat
  BY CalendarAssumption
<1>1. PICK a \in Int, b \in Int, c \in Int :
        a = W - offset(W) /\ b = W - offset(W - Hours) /\ c = W - offset(W + Hours)
  <2>1. /\ W - offset(W) \in Int /\ W - offset(W - Hours) \in Int /\ W - offset(W + Hours) \in Int
    <3>1. W - Hours \in Int /\ W + Hours \in Int
      BY <1>0
    <3>2. offset(W) \in {-1, 0, 1} /\ offset(W - Hours) \in {-1, 0, 1} /\ offset(W + Hours) \in {-1, 0, 1}
      BY <3>1, LocalIs
    <3> QED
      BY <3>2
  <2> QED
    BY <2>1
<1>2. {W - offset(W + delta) : delta \in {0, -Hours, Hours}} = {a, b, c}
  <2>1. W + 0 = W /\ W + (-Hours) = W - Hours
    BY <1>0
  <2>2. {W - offset(W + delta) : delta \in {0, -Hours, Hours}} = 
        {W - offset(W + 0), W - offset(W + (-Hours)), W - offset(W + Hours)}
    OBVIOUS
  <2> QED
    BY <1>1, <2>1, <2>2
<1>3. PICK T : T = {a, b, c}
  OBVIOUS
<1>4. PICK V : V = {i \in T : local(i) = W /\ d \in MonthDays}
  OBVIOUS
<1>5. r = IF V # {} THEN CHOOSE i \in V : \A j \in V : i <= j ELSE CHOOSE i \in T : \A j \in T : j <= i
  <2> DEFINE T0 == {(d * Hours + h) - offset((d * Hours + h) + delta) : delta \in {0, -Hours, Hours}}
             V0 == {i \in T0 : local(i) = d * Hours + h /\ d \in MonthDays}
  <2>1. r = IF V0 # {} THEN CHOOSE i \in V0 : \A j \in V0 : i <= j ELSE CHOOSE i \in T0 : \A j \in T0 : j <= i
    BY DEF resolveLocalInstant
  <2>2. T0 = T
    BY <1>2, <1>3
  <2> HIDE DEF T0
  <2>3. V0 = V
    BY <1>4, <2>2
  <2> HIDE DEF V0
  <2> QED
    BY <2>1, <2>2, <2>3
<1>6. Tried(W) = T
  BY <1>1, <1>3 DEF Tried
<1>7. \E i \in T : \A j \in T : j <= i
  BY <1>1, <1>3
<1>8. V # {} => \E i \in V : \A j \in V : i <= j
  <2>1. V \subseteq {a, b, c}
    BY <1>3, <1>4
  <2>2. (V # {} <=> a \in V \/ b \in V \/ c \in V) /\ \A j \in V : j = a \/ j = b \/ j = c
    BY <2>1
  <2>3. \/ V = {}
        \/ a \in V /\ (b \in V => a <= b) /\ (c \in V => a <= c)
        \/ b \in V /\ (a \in V => b <= a) /\ (c \in V => b <= c)
        \/ c \in V /\ (a \in V => c <= a) /\ (b \in V => c <= b)
    BY <1>1, <2>2
  <2>4. \/ V = {}
        \/ (\A j \in V : a <= j) /\ a \in V
        \/ (\A j \in V : b <= j) /\ b \in V
        \/ (\A j \in V : c <= j) /\ c \in V
    BY <1>1, <2>2, <2>3
  <2> QED
    BY <2>4
<1>9. V # {} => r \in V /\ \A j \in V : r <= j
  <2> SUFFICES ASSUME V # {} PROVE r \in V /\ \A j \in V : r <= j
    OBVIOUS
  <2>1. r = CHOOSE i \in V : \A j \in V : i <= j
    BY <1>5
  <2> QED
    BY <1>8, <2>1
<1>10. V = {} => r \in T /\ \A j \in T : j <= r
  <2> SUFFICES ASSUME V = {} PROVE r \in T /\ \A j \in T : j <= r
    OBVIOUS
  <2>1. r = CHOOSE i \in T : \A j \in T : j <= i
    BY <1>5
  <2> QED
    BY <1>7, <2>1
<1>11. d \in MonthDays => V = Reads(W)
  BY <1>4, <1>6 DEF Reads
<1>12. d \notin MonthDays => V = {}
  BY <1>4
<1>13. V \subseteq T /\ T \subseteq Int
  BY <1>1, <1>3, <1>4
<1> QED
  BY <1>6, <1>9, <1>10, <1>11, <1>12, <1>13

\* The day of an instant begins no later, and the day after it begins later.
LEMMA DayStarts ==
  ASSUME ZoneOK, NEW d \in MonthDays, NEW r, r = resolveLocalInstant(d, 0)
  PROVE  /\ r \in Int /\ local(r) <= d * Hours + 1
         /\ \A i \in Int : r <= i <=> d * Hours <= local(i)
<1>1. PICK H \in Nat \ {0, 1} : H = Hours
  BY CalendarAssumption
<1>2. PICK W \in Int : W = d * Hours /\ W = d * Hours + 0 /\ d \in Int /\ 0 \in Int
  BY CalendarAssumption, <1>1 DEF MonthDays
<1>3. PICK at \in Nat, sh \in {-1, 1} : at = zone.at /\ sh = zone.shift
  BY DEF ZoneOK
<1>4. \A i \in Int : offset(i) = (IF i < at THEN 0 ELSE sh) /\ local(i) = i + offset(i)
  BY <1>3 DEF offset, local
<1>5. /\ r \in Tried(W) /\ r \in Int
      /\ Reads(W) # {} => r \in Reads(W) /\ \A i \in Reads(W) : r <= i
      /\ Reads(W) = {} => \A i \in Tried(W) : i <= r
  BY <1>2, ResolvedIs
<1>6. PICK a \in Int, b \in Int, c \in Int :
        /\ a = (IF W < at THEN W ELSE W - sh) /\ b = (IF W - H < at THEN W ELSE W - sh)
        /\ c = (IF W + H < at THEN W ELSE W - sh) /\ Tried(W) = {a, b, c}
  <2>1. W \in Int /\ W - H \in Int /\ W + H \in Int
    OBVIOUS
  <2>2. /\ W - offset(W) = (IF W < at THEN W ELSE W - sh)
        /\ W - offset(W - H) = (IF W - H < at THEN W ELSE W - sh)
        /\ W - offset(W + H) = (IF W + H < at THEN W ELSE W - sh)
    BY <1>4, <2>1
  <2>3. (IF W < at THEN W ELSE W - sh) \in Int /\ (IF W - H < at THEN W ELSE W - sh) \in Int
        /\ (IF W + H < at THEN W ELSE W - sh) \in Int
    OBVIOUS
  <2> QED
    BY <1>1, <2>2, <2>3 DEF Tried
<1>7. \A i \in Int : i \in Reads(W) <=> (i = a \/ i = b \/ i = c) /\ local(i) = W
  BY <1>6 DEF Reads
<1>8. \A i \in Int : local(i) = (IF i < at THEN i ELSE i + sh)
  BY <1>4
<1>9. CASE Reads(W) # {}
  <2>1. r = a \/ r = b \/ r = c
    BY <1>5, <1>6
  <2>2. local(r) = W
    BY <1>5, <1>9 DEF Reads
  <2>3. \A i \in {a, b, c} : local(i) = W => r <= i
    BY <1>5, <1>6, <1>7, <1>9
  <2>4. \A i \in Int : r <= i <=> W <= local(i)
    <3> SUFFICES ASSUME NEW i \in Int PROVE r <= i <=> W <= local(i)
      OBVIOUS
    <3>1. local(a) = (IF a < at THEN a ELSE a + sh) /\ local(b) = (IF b < at THEN b ELSE b + sh)
          /\ local(c) = (IF c < at THEN c ELSE c + sh) /\ local(i) = (IF i < at THEN i ELSE i + sh)
          /\ local(r) = (IF r < at THEN r ELSE r + sh)
      BY <1>5, <1>8
    <3>2. (local(a) = W => r <= a) /\ (local(b) = W => r <= b) /\ (local(c) = W => r <= c)
      BY <2>3
    <3> QED
      BY <1>5, <1>6, <2>1, <2>2, <3>1, <3>2
  <2> QED
    BY <1>2, <1>5, <2>2, <2>4
<1>10. CASE Reads(W) = {}
  <2>1. r = a \/ r = b \/ r = c
    BY <1>5, <1>6
  <2>2. a <= r /\ b <= r /\ c <= r
    BY <1>5, <1>6, <1>10
  <2>3. local(a) # W /\ local(b) # W /\ local(c) # W
    BY <1>7, <1>10
  <2>4. local(r) = W + 1
    BY <1>5, <1>6, <1>8, <2>1, <2>2, <2>3
  <2>5. \A i \in Int : r <= i <=> W <= local(i)
    <3> SUFFICES ASSUME NEW i \in Int PROVE r <= i <=> W <= local(i)
      OBVIOUS
    <3>1. local(a) = (IF a < at THEN a ELSE a + sh) /\ local(b) = (IF b < at THEN b ELSE b + sh)
          /\ local(c) = (IF c < at THEN c ELSE c + sh) /\ local(i) = (IF i < at THEN i ELSE i + sh)
      BY <1>8
    <3> QED
      BY <1>5, <1>6, <2>1, <2>2, <2>3, <3>1
  <2> QED
    BY <1>2, <1>5, <2>4, <2>5
<1> QED
  BY <1>9, <1>10

\* No instant of a day is after its end, that of the last day of the month included, where the
\* end never reads back.
LEMMA DayEnds ==
  ASSUME ZoneOK, NEW d \in MonthDays, NEW r, r = resolveLocalInstant(d + 1, 0)
  PROVE  r \in Int /\ \A i \in Int : local(i) < (d + 1) * Hours => i < r
<1>1. PICK H \in Nat \ {0, 1} : H = Hours
  BY CalendarAssumption
<1>2. PICK W \in Int, e \in Int : e = d + 1 /\ W = e * Hours /\ W = e * Hours + 0 /\ 0 \in Int
  BY CalendarAssumption, <1>1 DEF MonthDays
<1>3. PICK at \in Nat, sh \in {-1, 1} : at = zone.at /\ sh = zone.shift
  BY DEF ZoneOK
<1>4. \A i \in Int : offset(i) = (IF i < at THEN 0 ELSE sh) /\ local(i) = i + offset(i)
  BY <1>3 DEF offset, local
<1>5. CASE e \in MonthDays
  BY <1>2, <1>5, DayStarts, LocalIs
<1>6. CASE e \notin MonthDays
  <2>1. r \in Int /\ \A i \in Tried(W) : i <= r
    BY <1>2, <1>6, ResolvedIs
  <2>2. r >= W - offset(W) /\ r >= W - offset(W - H)
    BY <1>1, <2>1 DEF Tried
  <2>3. W \in Int /\ W - H \in Int
    OBVIOUS
  <2>4. offset(W) = (IF W < at THEN 0 ELSE sh) /\ offset(W - H) = (IF W - H < at THEN 0 ELSE sh)
    BY <1>4, <2>3
  <2>5. ASSUME NEW i \in Int, local(i) < W PROVE i < r
    <3>1. local(i) = (IF i < at THEN i ELSE i + sh)
      BY <1>4
    <3> QED
      BY <2>1, <2>2, <2>4, <2>5, <3>1
  <2> QED
    BY <1>2, <2>1, <2>5
<1> QED
  BY <1>5, <1>6

-----------------------------------------------------------------------------
\* What is known of a row of the calendar.
CalRow(s) == /\ s \in [id : CalSlots, type : Types, cancelled : BOOLEAN, start : Instants, end : Instants]
             /\ s.start < s.end

CalendarInv ==
  /\ zone \in ZoneChanges /\ plan \in Availabilities \cup {DayOff}
  /\ IsFiniteSet(booked)
  /\ \A s \in booked : CalRow(s)
  /\ \A s, t \in booked : s.id = t.id => s = t

\* The instants of the month are numbers.
LEMMA InstantsAre == /\ MonthStart \in Nat /\ MonthEnd \in Nat /\ Instants \subseteq Nat
                     /\ \A i \in Instants : MonthStart <= i /\ i <= MonthEnd
<1>1. PICK m \in Nat, h \in Nat : m = MonthStart /\ h = MonthEnd
  <2>1. Hours \in Nat /\ MonthLength + 1 \in Nat
    BY CalendarAssumption
  <2>2. (MonthLength + 1) * Hours \in Nat
    BY <2>1
  <2> QED
    BY <2>1, <2>2 DEF MonthStart, MonthEnd
<1> QED
  BY <1>1 DEF Instants

\* What a row says is in the month.
LEMMA RowIs == ASSUME NEW s, CalRow(s)
               PROVE  /\ s.start \in Nat /\ s.end \in Nat /\ s.start < s.end /\ s.id \in CalSlots
                      /\ MonthStart <= s.start /\ s.end <= MonthEnd /\ s.cancelled \in BOOLEAN
BY InstantsAre DEF CalRow

\* The one segment of a slot on a day, and when there is one.
LEMMA SegmentIs ==
  ASSUME ZoneOK, NEW s, CalRow(s), NEW d \in MonthDays
  PROVE  \E a \in Int, b \in Int :
           /\ s.start <= a /\ b <= s.end
           /\ \A i \in Int : localDateIn(i) = d /\ s.start <= i /\ i < s.end =>
                             a <= i /\ i < b /\ ProjectSlotToDays(s, d) # {}
           /\ ProjectSlotToDays(s, d) # {} => 
                a < b /\ localDateIn(a) = d /\ ProjectSlotToDays(s, d) = {[slot |-> s, start |-> a, end |-> b]}
<1>1. PICK f \in Int : f = resolveLocalInstant(d, 0) /\ local(f) <= d * Hours + 1
                       /\ \A i \in Int : f <= i <=> d * Hours <= local(i)
  BY DayStarts
<1>2. PICK g \in Int : g = resolveLocalInstant(d + 1, 0) /\ \A i \in Int : local(i) < (d + 1) * Hours => i < g
  BY DayEnds
<1>3. PICK x \in Int, y \in Int : x = s.start /\ y = s.end /\ x < y
  BY RowIs
<1>4. PICK a \in Int, b \in Int : a = Latest(x, f) /\ b = Earlier(y, g)
  BY DEF Latest, Earlier
<1>5. x <= a /\ f <= a /\ (a = x \/ a = f) /\ b <= y /\ b <= g /\ (b = y \/ b = g)
  BY <1>4 DEF Latest, Earlier
<1>6. PICK P : P = ProjectSlotToDays(s, d)
  OBVIOUS
<1>7. P = IF d \in localDateIn(x)..localDateIn(y - 1) /\ a < b
          THEN {[slot |-> s, start |-> a, end |-> b]} ELSE {}
  <2>1. Clip(s, f, g) = <<a, b>>
    BY <1>3, <1>4 DEF Clip
  <2>2. Lasts(<<a, b>>) <=> a < b
    BY DEF Lasts
  <2>3. ProjectSlotToDays(s, d) = 
          IF d \in localDateIn(x)..localDateIn(y - 1) /\ Lasts(Clip(s, f, g))
          THEN {[slot |-> s, start |-> Clip(s, f, g)[1], end |-> Clip(s, f, g)[2]]} ELSE {}
    BY <1>1, <1>2, <1>3, Zenon DEF ProjectSlotToDays
  <2>4. Clip(s, f, g)[1] = a /\ Clip(s, f, g)[2] = b
    BY <2>1
  <2> QED
    BY <1>6, <2>1, <2>2, <2>3, <2>4
<1>8. PICK m \in Int, n \in Int : m = localDateIn(x) /\ n = localDateIn(y - 1)
  <2>1. d \in Int /\ y - 1 \in Int
    BY CalendarAssumption DEF MonthDays
  <2> QED
    BY <2>1, OnDay
<1>9. d \in Int /\ Hours \in Nat \ {0, 1} /\ y - 1 \in Int
  BY CalendarAssumption DEF MonthDays
<1>10. PICK W \in Int, W2 \in Int : W = d * Hours /\ W2 = (d + 1) * Hours /\ W2 = W + Hours
  BY <1>9
<1>11. /\ m <= d <=> local(x) < W2
       /\ d <= n <=> W <= local(y - 1)
  BY <1>3, <1>8, <1>9, <1>10, OnDay
<1>12. \A i, j \in Int : i <= j => local(i) <= local(j)
  BY LocalIs
<1>13. \A i \in Int : local(i) \in Int
  BY LocalIs
<1>14. ASSUME NEW i \in Int, localDateIn(i) = d, x <= i, i < y
       PROVE  a <= i /\ i < b /\ P # {}
  <2>1. W <= local(i) /\ local(i) < W2
    BY <1>9, <1>10, <1>14, OnDay
  <2>2. a <= i /\ i < b
    BY <1>1, <1>2, <1>5, <1>10, <1>14, <2>1
  <2>3. local(x) <= local(i) /\ local(i) <= local(y - 1)
    BY <1>9, <1>12, <1>14
  <2>4. m <= d /\ d <= n
    BY <1>9, <1>11, <1>13, <2>1, <2>3
  <2>5. d \in localDateIn(x)..localDateIn(y - 1) /\ a < b
    BY <1>8, <1>9, <1>14, <2>2, <2>4
  <2>6. P = {[slot |-> s, start |-> a, end |-> b]}
    BY <1>7, <2>5
  <2> QED
    BY <2>2, <2>6
<1>15. ASSUME P # {} PROVE a < b /\ localDateIn(a) = d /\ P = {[slot |-> s, start |-> a, end |-> b]}
  <2>1. m <= d /\ d <= n /\ a < b
    BY <1>7, <1>8, <1>15
  <2>2. W <= local(a)
    BY <1>1, <1>5, <1>10
  <2>3. local(a) < W2
    BY <1>1, <1>5, <1>9, <1>10, <1>11, <1>13, <2>1
  <2>4. d <= localDateIn(a) /\ localDateIn(a) <= d /\ localDateIn(a) \in Int
    BY <1>9, <1>10, <2>2, <2>3, OnDay
  <2> QED
    BY <1>7, <1>9, <1>15, <2>1, <2>4
<1> QED
  BY <1>3, <1>5, <1>6, <1>14, <1>15

\* A segment lies in its slot and begins on its day, and is the only one of the slot there.
LEMMA SegmentFacts ==
  ASSUME ZoneOK, NEW s, CalRow(s), NEW d \in MonthDays
  PROVE  /\ \A p \in ProjectSlotToDays(s, d) :
              /\ p.slot = s /\ p.start \in Int /\ p.end \in Int /\ p.start < p.end
              /\ s.start <= p.start /\ p.end <= s.end /\ localDateIn(p.start) = d
         /\ \A p, q \in ProjectSlotToDays(s, d) : p = q
BY SegmentIs

\* Every instant of a slot counts on the day that clocks show then.
LEMMA SegmentCovers ==
  ASSUME ZoneOK, NEW s, CalRow(s), NEW d \in MonthDays, NEW i \in Int, localDateIn(i) = d,
         s.start <= i, i < s.end
  PROVE  \E p \in ProjectSlotToDays(s, d) : p.start <= i /\ i < p.end
<1>1. PICK a \in Int, b \in Int :
        /\ a <= i /\ i < b /\ ProjectSlotToDays(s, d) # {}
        /\ ProjectSlotToDays(s, d) = {[slot |-> s, start |-> a, end |-> b]}
  BY SegmentIs
<1> QED
  BY <1>1

-----------------------------------------------------------------------------
\* A set of numbers has a first one.
LEMMA LeastOf ==
  ASSUME NEW S, S \subseteq Nat, S # {}
  PROVE  \E m \in S : \A n \in S : m <= n
<1> DEFINE R == {ss \in Nat \X Nat : ss[1] < ss[2]}
<1>1. IsWellFoundedOn(R, Nat)
  BY NatLessThanWellFounded DEF OpToRel
<1>2. \A n, k \in Nat : k < n => <<k, n>> \in R
  OBVIOUS
<1> HIDE DEF R
<1>3. PICK m \in S : \A n \in S : <<n, m>> \notin R
  BY <1>1, WFMin
<1>4. ASSUME NEW n \in S PROVE m <= n
  <2>1. n \in Nat /\ m \in Nat
    BY <1>3
  <2>2. ~(n < m)
    BY <1>2, <1>3, <2>1
  <2> QED
    BY <2>1, <2>2
<1> QED
  BY <1>3, <1>4

\* What holds of 0, and of every number after one of which it holds, holds of them all.
LEMMA OneMore ==
  ASSUME NEW U, U \subseteq Nat, 0 \in U, \A k \in Nat : k \in U => k + 1 \in U
  PROVE  \A k \in Nat : k \in U
<1> DEFINE V == Nat \ U
<1>1. CASE V = {}
  BY <1>1
<1>2. CASE V # {}
  <2>1. PICK least \in V : \A x \in V : least <= x
    BY <1>2, LeastOf
  <2>2. least \in Nat /\ least # 0
    BY <2>1
  <2>3. PICK x \in Nat : x + 1 = least
    <3>1. least - 1 \in Nat /\ (least - 1) + 1 = least
      BY <2>2
    <3> QED
      BY <3>1
  <2>4. x \in U
    BY <2>1, <2>3
  <2> QED
    BY <2>1, <2>3, <2>4
<1> QED
  BY <1>1, <1>2

\* A relation by which any two of the elements of a set can be put in order.
Orders(R, S) == /\ \A x, y \in S : <<x, y>> \in R \/ <<y, x>> \in R
                /\ \A x, y, z \in S : <<x, y>> \in R /\ <<y, z>> \in R => <<x, z>> \in R

InOrder(l, R) == \A i, j \in DOMAIN l : i < j => <<l[i], l[j]>> \in R

\* Some element of a finite set comes after all others.
LEMMA OneIsLast ==
  ASSUME NEW S, IsFiniteSet(S), NEW R, Orders(R, S), NEW T \in SUBSET S, T # {}
  PROVE  \E m \in T : \A x \in T : <<x, m>> \in R
<1> DEFINE HasLast(A) == A # {} => \E m \in A : \A x \in A : <<x, m>> \in R
           U == {k \in Nat : \A A \in SUBSET S : Cardinality(A) = k => HasLast(A)}
<1>1. 0 \in U
  <2> SUFFICES ASSUME NEW A \in SUBSET S, Cardinality(A) = 0 PROVE HasLast(A)
    OBVIOUS
  <2>1. IsFiniteSet(A)
    BY FS_Subset
  <2> QED
    BY <2>1, FS_EmptySet
<1>2. ASSUME NEW k \in Nat, k \in U PROVE k + 1 \in U
  <2> SUFFICES ASSUME NEW A \in SUBSET S, Cardinality(A) = k + 1, A # {}
               PROVE  \E m \in A : \A x \in A : <<x, m>> \in R
    OBVIOUS
  <2>1. PICK y \in A : TRUE
    OBVIOUS
  <2>2. PICK B \in SUBSET S : B = A \ {y}
    OBVIOUS
  <2>3. Cardinality(B) = k
    <3>1. IsFiniteSet(A)
      BY FS_Subset
    <3>2. Cardinality(B) = Cardinality(A) - 1
      BY <2>1, <2>2, <3>1, FS_RemoveElement
    <3> QED
      BY <3>2
  <2>4. HasLast(B)
    BY <1>2, <2>3
  <2>5. \A x \in S : <<x, x>> \in R
    BY DEF Orders
  <2>6. CASE B = {}
    BY <2>1, <2>2, <2>5, <2>6
  <2>7. CASE B # {}
    <3>1. PICK m \in B : \A x \in B : <<x, m>> \in R
      BY <2>4, <2>7
    <3>2. CASE <<y, m>> \in R
      BY <2>2, <3>1, <3>2
    <3>3. CASE <<m, y>> \in R
      <4>1. \A x \in A : <<x, y>> \in R
        BY <2>1, <2>2, <2>5, <3>1, <3>3 DEF Orders
      <4> QED
        BY <2>1, <4>1
    <3> QED
      BY <2>1, <2>2, <3>1, <3>2, <3>3 DEF Orders
  <2> QED
    BY <2>6, <2>7
<1>3. U \subseteq Nat
  OBVIOUS
<1>4. PICK n \in Nat : n = Cardinality(T)
  BY FS_Subset, FS_CardinalityType
<1>5. n \in U
  <2> HIDE DEF U
  <2> QED
    BY <1>1, <1>2, <1>3, OneMore
<1> QED
  BY <1>4, <1>5

\* A finite set can be sorted: the last element goes behind the others, sorted.
LEMMA CanBeSorted ==
  ASSUME NEW S, IsFiniteSet(S), NEW R, Orders(R, S)
  PROVE  \E l \in SetToSeqs(S) : InOrder(l, R)
<1> DEFINE Sorted(A) == \E l \in SetToSeqs(A) : InOrder(l, R)
           U == {k \in Nat : \A A \in SUBSET S : Cardinality(A) = k => Sorted(A)}
<1>1. 0 \in U
  <2> SUFFICES ASSUME NEW A \in SUBSET S, Cardinality(A) = 0 PROVE Sorted(A)
    OBVIOUS
  <2>1. PICK l : l = [i \in 1..0 |-> {}]
    OBVIOUS
  <2>2. l \in [1..0 -> A] /\ DOMAIN l = 1..0 /\ \A i \in 1..0 : FALSE
    BY <2>1
  <2>3. l \in SetToSeqs(A)
    BY <2>2 DEF SetToSeqs
  <2> QED
    BY <2>2, <2>3 DEF InOrder
<1>2. ASSUME NEW k \in Nat, k \in U PROVE k + 1 \in U
  <2> SUFFICES ASSUME NEW A \in SUBSET S, Cardinality(A) = k + 1 PROVE Sorted(A)
    OBVIOUS
  <2>1. IsFiniteSet(A) /\ A # {}
    BY FS_Subset, FS_EmptySet
  <2>2. PICK m \in A : \A x \in A : <<x, m>> \in R
    BY <2>1, OneIsLast
  <2>3. PICK B \in SUBSET S : B = A \ {m}
    OBVIOUS
  <2>4. Cardinality(B) = k
    <3>1. Cardinality(B) = Cardinality(A) - 1
      BY <2>1, <2>2, <2>3, FS_RemoveElement
    <3> QED
      BY <3>1
  <2>5. PICK l \in SetToSeqs(B) : InOrder(l, R)
    BY <1>2, <2>4
  <2>6. l \in [1..k -> B] /\ \A i, j \in 1..k : i # j => l[i] # l[j]
    BY <2>4 DEF SetToSeqs
  <2>7. PICK q : q = [i \in 1..(k + 1) |-> IF i = k + 1 THEN m ELSE l[i]]
    OBVIOUS
  <2>8. /\ DOMAIN q = 1..(k + 1) /\ q[k + 1] = m
        /\ \A i \in 1..(k + 1) : i # k + 1 => i \in 1..k /\ q[i] = l[i] /\ q[i] \in B
    <3>1. \A i \in 1..(k + 1) : i # k + 1 => i \in 1..k
      OBVIOUS
    <3>2. k + 1 \in 1..(k + 1)
      OBVIOUS
    <3> QED
      BY <2>6, <2>7, <3>1, <3>2
  <2>9. q \in [1..(k + 1) -> A]
    <3>1. \A i \in 1..(k + 1) : q[i] \in A
      BY <2>3, <2>8
    <3> QED
      BY <2>7, <3>1
  <2>10. \A i, j \in 1..(k + 1) : i # j => q[i] # q[j]
    <3> SUFFICES ASSUME NEW i \in 1..(k + 1), NEW j \in 1..(k + 1), i # j PROVE q[i] # q[j]
      OBVIOUS
    <3>1. CASE i = k + 1
      BY <2>3, <2>8, <3>1
    <3>2. CASE j = k + 1
      BY <2>3, <2>8, <3>2
    <3>3. CASE i # k + 1 /\ j # k + 1
      BY <2>6, <2>8, <3>3
    <3> QED
      BY <3>1, <3>2, <3>3
  <2>11. q \in SetToSeqs(A)
    BY <2>9, <2>10 DEF SetToSeqs
  <2>12. InOrder(q, R)
    <3> SUFFICES ASSUME NEW i \in 1..(k + 1), NEW j \in 1..(k + 1), i < j PROVE <<q[i], q[j]>> \in R
      BY <2>8 DEF InOrder
    <3>1. i # k + 1 /\ i \in 1..k /\ q[i] = l[i] /\ q[i] \in B
      BY <2>8
    <3>2. CASE j = k + 1
      BY <2>2, <2>3, <2>8, <3>1, <3>2
    <3>3. CASE j # k + 1
      <4>1. j \in 1..k /\ q[j] = l[j] /\ DOMAIN l = 1..k
        BY <2>6, <2>8, <3>3
      <4> QED
        BY <2>5, <3>1, <4>1 DEF InOrder
    <3> QED
      BY <3>2, <3>3
  <2> QED
    BY <2>11, <2>12
<1>3. U \subseteq Nat
  OBVIOUS
<1>4. PICK n \in Nat : n = Cardinality(S)
  BY FS_CardinalityType
<1>5. n \in U
  <2> HIDE DEF U
  <2> QED
    BY <1>1, <1>2, <1>3, OneMore
<1> QED
  BY <1>4, <1>5

\* A list of all of a finite set.
LEMMA ListsAll ==
  ASSUME NEW S, IsFiniteSet(S), NEW o \in SetToSeqs(S)
  PROVE  /\ Len(o) \in Nat /\ DOMAIN o = 1..Len(o)
         /\ \A k \in 1..Len(o) : o[k] \in S
         /\ \A i, j \in 1..Len(o) : i # j => o[i] # o[j]
         /\ \A y \in S : \E k \in 1..Len(o) : o[k] = y
<1>1. PICK n \in Nat : n = Cardinality(S)
  BY FS_CardinalityType
<1>2. o \in [1..n -> S] /\ \A i, j \in 1..n : i # j => o[i] # o[j]
  BY <1>1 DEF SetToSeqs
<1>3. IsFiniteSet(1..n) /\ Cardinality(1..n) = n
  BY FS_Interval
<1>4. o \in Injection(1..n, S)
  BY <1>2 DEF Injection, IsInjective
<1>5. o \in Surjection(1..n, S)
  BY <1>1, <1>3, <1>4, FS_Injection
<1>6. DOMAIN o = 1..n /\ Len(o) = n
  BY <1>2
<1> QED
  BY <1>2, <1>5, <1>6 DEF Surjection

-----------------------------------------------------------------------------
\* The instants of a day that can be told apart.
ShownOn(d) == {i \in (MonthStart - 1)..(MonthEnd + 1) : localDateIn(i) = d}

\* The zones that are explored change once, by an hour.
LEMMA ZoneIs == CalendarInv => ZoneOK
BY CalendarAssumption DEF CalendarInv, ZoneOK

\* Every instant of the month is one that is told apart.
LEMMA ShownIs == ASSUME NEW d, NEW i \in Int, MonthStart <= i, i <= MonthEnd, localDateIn(i) = d
                 PROVE  i \in ShownOn(d)
BY InstantsAre DEF ShownOn

\* The segments of a day.
LEMMA SegmentsOf ==
  ASSUME CalendarInv, NEW d \in MonthDays, NEW slots \in SUBSET booked
  PROVE  /\ IsFiniteSet(Projections(d, slots))
         /\ \A p \in Projections(d, slots) :
              /\ p.slot \in slots /\ p.start \in Int /\ p.end \in Int /\ p.start < p.end
              /\ p.slot.start <= p.start /\ p.end <= p.slot.end
              /\ p.start \in ShownOn(d)
         /\ \A p, q \in Projections(d, slots) : p.slot = q.slot => p = q
         /\ \A s \in slots, i \in ShownOn(d) : s.start <= i /\ i < s.end =>
              \E p \in Projections(d, slots) : p.slot = s /\ p.start <= i /\ i < p.end
<1>1. ZoneOK /\ \A s \in slots : CalRow(s)
  BY ZoneIs DEF CalendarInv
<1>2. \A s \in slots :
         /\ \A p \in ProjectSlotToDays(s, d) :
              /\ p.slot = s /\ p.start \in Int /\ p.end \in Int /\ p.start < p.end
              /\ s.start <= p.start /\ p.end <= s.end /\ localDateIn(p.start) = d
         /\ \A p, q \in ProjectSlotToDays(s, d) : p = q
  BY <1>1, SegmentFacts
<1>3. \A p \in Projections(d, slots) : p.slot \in slots /\ p \in ProjectSlotToDays(p.slot, d)
  BY <1>2 DEF Projections
<1>4. IsFiniteSet(Projections(d, slots))
  <2> DEFINE G == {ProjectSlotToDays(s, d) : s \in slots}
  <2>1. IsFiniteSet(slots)
    BY FS_Subset DEF CalendarInv
  <2>2. IsFiniteSet(G)
    <3>1. PICK f : f = [s \in slots |-> ProjectSlotToDays(s, d)]
      OBVIOUS
    <3>2. f \in Surjection(slots, G)
      BY <3>1 DEF Surjection
    <3> QED
      BY <2>1, <3>2, FS_Surjection
  <2>3. ASSUME NEW A \in G PROVE IsFiniteSet(A)
    <3>1. PICK s \in slots : A = ProjectSlotToDays(s, d)
      OBVIOUS
    <3>2. \A p, q \in A : p = q
      BY <1>2, <3>1
    <3>3. CASE A = {}
      BY <3>3, FS_EmptySet
    <3>4. CASE A # {}
      <4>1. PICK x \in A : TRUE
        BY <3>4
      <4>2. A = {x}
        BY <3>2, <4>1
      <4> QED
        BY <4>2, FS_Singleton
    <3> QED
      BY <3>3, <3>4
  <2> QED
    BY <2>2, <2>3, FS_UNION DEF Projections
<1>5. ASSUME NEW p \in Projections(d, slots) PROVE p.start \in ShownOn(d)
  <2>1. CalRow(p.slot) /\ p.slot.start <= p.start /\ p.start < p.end /\ p.end <= p.slot.end
        /\ p.start \in Int /\ p.end \in Int /\ localDateIn(p.start) = d
    BY <1>1, <1>2, <1>3
  <2>2. MonthStart <= p.slot.start /\ p.slot.end <= MonthEnd /\ p.slot.start \in Nat /\ p.slot.end \in Nat
    BY <2>1, RowIs
  <2>3. MonthStart <= p.start /\ p.start <= MonthEnd
    BY <2>1, <2>2, InstantsAre
  <2> QED
    BY <2>1, <2>3, ShownIs
<1>6. ASSUME NEW s \in slots, NEW i \in ShownOn(d), s.start <= i, i < s.end
      PROVE  \E p \in Projections(d, slots) : p.slot = s /\ p.start <= i /\ i < p.end
  <2>1. i \in Int /\ localDateIn(i) = d
    BY InstantsAre DEF ShownOn
  <2>2. PICK p \in ProjectSlotToDays(s, d) : p.start <= i /\ i < p.end
    BY <1>1, <1>6, <2>1, SegmentCovers
  <2>3. p \in Projections(d, slots) /\ p.slot = s
    BY <1>2 DEF Projections
  <2> QED
    BY <2>2, <2>3
<1> QED
  BY <1>2, <1>3, <1>4, <1>5, <1>6

\* The slots that count are those whose shoot is not cancelled.
LEMMA LiveIs == /\ Live(booked) \in SUBSET booked
                /\ \A s \in booked : s \in Live(booked) <=> ~IsCancelledShoot(s)
BY DEF Live

\* The days of which an instant is held.
LEMMA HoldDays ==
  ASSUME CalendarInv, NEW d \in MonthDays
  PROVE  (\E p \in Projections(d, Live(booked)) : p.slot.type = "hold") <=>
         \E i \in ShownOn(d) : \E s \in TakenAt(i) : s.type = "hold"
<1> DEFINE L == Live(booked)
<1>1. L \in SUBSET booked
  BY LiveIs
<1>2. /\ \A p \in Projections(d, L) :
              /\ p.slot \in L /\ p.start \in Int /\ p.end \in Int /\ p.start < p.end
              /\ p.slot.start <= p.start /\ p.end <= p.slot.end
              /\ p.start \in ShownOn(d)
      /\ \A s \in L, i \in ShownOn(d) : s.start <= i /\ i < s.end =>
              \E p \in Projections(d, L) : p.slot = s /\ p.start <= i /\ i < p.end
  BY <1>1, SegmentsOf
<1>3. \A s \in L : s.start \in Nat /\ s.end \in Nat
  BY <1>1, RowIs DEF CalendarInv
<1>4. \A i : TakenAt(i) = {s \in L : s.start <= i /\ i < s.end}
  BY DEF TakenAt
<1> HIDE DEF L
<1>5. ASSUME NEW p \in Projections(d, L), p.slot.type = "hold"
      PROVE  \E i \in ShownOn(d) : \E s \in TakenAt(i) : s.type = "hold"
  <2>1. p.slot \in L /\ p.slot.start <= p.start /\ p.start < p.slot.end /\ p.start \in ShownOn(d)
    BY <1>2, <1>3
  <2>2. p.slot \in TakenAt(p.start)
    BY <1>4, <2>1
  <2> QED
    BY <1>5, <2>1, <2>2
<1>6. ASSUME NEW i \in ShownOn(d), NEW s \in TakenAt(i), s.type = "hold"
      PROVE  \E p \in Projections(d, L) : p.slot.type = "hold"
  <2>1. s \in L /\ s.start <= i /\ i < s.end
    BY <1>4
  <2> QED
    BY <1>2, <1>6, <2>1
<1> QED
  BY <1>5, <1>6 DEF L

\* Two segments that meet do so where the later of them begins, and so does every segment between
\* the two in the order of their starts: none of them stops the search before it gets there.
LEMMA Conflicts ==
  ASSUME CalendarInv, NEW d \in MonthDays
  PROVE  markConflicts(d, booked) <=>
             \E s, t \in Live(booked) : t \in Overlaps(s, booked) /\
               \E i \in ShownOn(d) : s \in TakenAt(i) /\ t \in TakenAt(i)
<1>1. PICK P : P = Projections(d, booked)
  OBVIOUS
<1>2. PICK S : S = {p \in P : ~IsCancelledShoot(p.slot)}
  OBVIOUS
<1>3. PICK L : L = Live(booked)
  OBVIOUS
<1>4. /\ IsFiniteSet(S)
      /\ \A p \in S :
              /\ p.slot \in L /\ p.start \in Int /\ p.end \in Int /\ p.start < p.end
              /\ p.slot.start <= p.start /\ p.end <= p.slot.end
              /\ p.start \in ShownOn(d)
      /\ \A p, q \in S : p.slot = q.slot => p = q
      /\ \A s \in L, i \in ShownOn(d) : s.start <= i /\ i < s.end =>
              \E p \in S : p.slot = s /\ p.start <= i /\ i < p.end
  <2>1. booked \in SUBSET booked
    OBVIOUS
  <2>2. /\ IsFiniteSet(P)
        /\ \A p \in P :
              /\ p.slot \in booked /\ p.start \in Int /\ p.end \in Int /\ p.start < p.end
              /\ p.slot.start <= p.start /\ p.end <= p.slot.end
              /\ p.start \in ShownOn(d)
        /\ \A p, q \in P : p.slot = q.slot => p = q
        /\ \A s \in booked, i \in ShownOn(d) : s.start <= i /\ i < s.end =>
              \E p \in P : p.slot = s /\ p.start <= i /\ i < p.end
    BY <1>1, <2>1, SegmentsOf
  <2>3. IsFiniteSet(S)
    <3>1. S \in SUBSET P
      BY <1>2
    <3> QED
      BY <2>2, <3>1, FS_Subset
  <2>4. L \subseteq booked /\ \A s \in booked : s \in L <=> ~IsCancelledShoot(s)
    BY <1>3, LiveIs
  <2> QED
    BY <1>2, <2>2, <2>3, <2>4
<1>5. /\ \A i : TakenAt(i) = {s \in L : s.start <= i /\ i < s.end}
      /\ \A s : Overlaps(s, booked) = {t \in L : t.id # s.id /\ t.start < s.end /\ t.end > s.start}
  BY <1>3 DEF TakenAt, Overlaps
<1>6. /\ \A s \in L : s.start \in Nat /\ s.end \in Nat
      /\ \A s, t \in L : s.id = t.id => s = t
  <2>1. L \subseteq booked
    BY <1>3, LiveIs
  <2> QED
    BY <2>1, RowIs DEF CalendarInv
<1>7. PICK line : /\ line = CHOOSE l \in SetToSeqs(S) : \A i, j \in DOMAIN l : i < j => l[i].start <= l[j].start
                  /\ markConflicts(d, booked) <=>
                       \E i, j \in DOMAIN line :
                         /\ i < j /\ \A k \in (i + 1)..j : line[k].start < line[i].end
                         /\ line[i].start < line[j].end
  BY <1>1, <1>2 DEF markConflicts
<1>8. /\ line \in SetToSeqs(S) /\ \A i, j \in DOMAIN line : i < j => line[i].start <= line[j].start
  <2>1. PICK R : R = {pq \in S \X S : pq[1].start <= pq[2].start}
    OBVIOUS
  <2>2. \A x, y \in S : <<x, y>> \in R <=> x.start <= y.start
    BY <2>1
  <2>3. Orders(R, S)
    BY <1>4, <2>2 DEF Orders
  <2>4. PICK l \in SetToSeqs(S) : InOrder(l, R)
    BY <1>4, <2>3, CanBeSorted
  <2>5. /\ Len(l) \in Nat /\ DOMAIN l = 1..Len(l) /\ \A k \in 1..Len(l) : l[k] \in S
    BY <1>4, <2>4, ListsAll
  <2>6. \A i, j \in DOMAIN l : i < j => l[i].start <= l[j].start
    BY <2>2, <2>4, <2>5 DEF InOrder
  <2> QED
    BY <1>7, <2>4, <2>6
<1>9. PICK n \in Nat : n = Len(line)
  BY <1>4, <1>8, ListsAll
<1>10. /\ DOMAIN line = 1..n
       /\ \A k \in 1..n : line[k] \in S
       /\ \A i, j \in 1..n : i # j => line[i] # line[j]
       /\ \A y \in S : \E k \in 1..n : line[k] = y
  BY <1>4, <1>8, <1>9, ListsAll
<1>11. \A i, j \in 1..n : i < j => line[i].start <= line[j].start
  BY <1>8, <1>10
<1>12. markConflicts(d, booked) <=>
         \E i, j \in 1..n : /\ i < j /\ \A k \in (i + 1)..j : line[k].start < line[i].end
                            /\ line[i].start < line[j].end
  BY <1>7, <1>10
<1>13. ASSUME NEW i \in 1..n, NEW j \in 1..n, i < j, \A k \in (i + 1)..j : line[k].start < line[i].end
       PROVE  \E s, t \in L : t \in Overlaps(s, booked) /\
                 \E x \in ShownOn(d) : s \in TakenAt(x) /\ t \in TakenAt(x)
  <2>1. PICK p \in S, q \in S : p = line[i] /\ q = line[j] /\ p # q
    BY <1>10, <1>13
  <2>2. j \in (i + 1)..j
    BY <1>13
  <2>3. q.start < p.end /\ p.start <= q.start
    BY <1>11, <1>13, <2>1, <2>2
  <2>4. PICK s \in L, t \in L : s = p.slot /\ t = q.slot
    BY <1>4
  <2>5. s.id # t.id
    BY <1>4, <1>6, <2>1, <2>4
  <2>6. s.start <= q.start /\ q.start < s.end /\ t.start <= q.start /\ q.start < t.end /\ q.start \in ShownOn(d)
        /\ q.start \in Int
    BY <1>4, <1>6, <2>3, <2>4
  <2>7. s \in TakenAt(q.start) /\ t \in TakenAt(q.start)
    BY <1>5, <2>6
  <2>8. t \in Overlaps(s, booked)
    BY <1>5, <1>6, <2>5, <2>6
  <2> QED
    BY <2>6, <2>7, <2>8
<1>14. ASSUME NEW s \in L, NEW t \in L, t \in Overlaps(s, booked), 
              NEW x \in ShownOn(d), s \in TakenAt(x), t \in TakenAt(x)
       PROVE  markConflicts(d, booked)
  <2>0. s.id # t.id /\ x \in Int
    BY <1>5, <1>14, InstantsAre DEF ShownOn
  <2>1. PICK p \in S : p.slot = s /\ p.start <= x /\ x < p.end
    BY <1>4, <1>5, <1>14
  <2>2. PICK q \in S : q.slot = t /\ q.start <= x /\ x < q.end
    BY <1>4, <1>5, <1>14
  <2>3. PICK a \in 1..n : line[a] = p
    BY <1>10
  <2>4. PICK b \in 1..n : line[b] = q
    BY <1>10
  <2>5. a # b
    BY <2>0, <2>1, <2>2, <2>3, <2>4
  <2>6. ASSUME NEW i \in 1..n, NEW j \in 1..n, i < j, line[i].start <= x, x < line[i].end,
               line[j].start <= x, x < line[j].end
        PROVE  markConflicts(d, booked)
    <3>1. ASSUME NEW k \in (i + 1)..j PROVE line[k].start < line[i].end
      <4>1. k \in 1..n
        OBVIOUS
      <4>2. line[k].start <= line[j].start
        <5>1. CASE k = j
          BY <1>4, <1>10, <4>1, <5>1
        <5>2. CASE k < j
          BY <1>11, <4>1, <5>2
        <5> QED
          BY <5>1, <5>2
      <4>3. line[k].start \in Int /\ line[j].start \in Int /\ line[i].end \in Int
        BY <1>4, <1>10, <4>1
      <4> QED
        BY <2>0, <2>6, <4>2, <4>3
    <3>2. line[i].start < line[j].end
      <4>1. line[i].start \in Int /\ line[j].end \in Int
        BY <1>4, <1>10
      <4> QED
        BY <2>0, <2>6, <4>1
    <3> QED
      BY <1>12, <2>6, <3>1, <3>2
  <2>7. CASE a < b
    BY <2>1, <2>2, <2>3, <2>4, <2>6, <2>7
  <2>8. CASE b < a
    BY <2>1, <2>2, <2>3, <2>4, <2>6, <2>8
  <2> QED
    BY <2>5, <2>7, <2>8
<1>15. (\E s, t \in L : t \in Overlaps(s, booked) /\
                 \E i \in ShownOn(d) : s \in TakenAt(i) /\ t \in TakenAt(i)) <=> markConflicts(d, booked)
  BY <1>12, <1>13, <1>14
<1> QED
  BY <1>3, <1>15

-----------------------------------------------------------------------------
\* Intervals of a window that do not touch, in order.
Apart(w1, w2, m, A, B) ==
  /\ w1 \in Int /\ w2 \in Int /\ w1 < w2 /\ m \in Nat
  /\ A \in [1..m -> Int] /\ B \in [1..m -> Int]
  /\ \A a \in 1..m : w1 <= A[a] /\ A[a] < B[a] /\ B[a] <= w2
  /\ \A a, b \in 1..m : a < b => B[a] < A[b]

\* Where the gap after the first j of them begins and ends.
GapFrom(w1, B, j) == IF j = 0 THEN w1 ELSE B[j]
GapTo(w2, m, A, j) == IF j = m THEN w2 ELSE A[j + 1]

\* The stretches of a window that are free.
StretchesOf(w1, w2, free) ==
  {p \in (w1..w2) \X (w1..w2) : p[1] < p[2] /\ \A i \in p[1]..(p[2] - 1) : i \in free}

\* A gap lies in the window, between what ends before it and what begins after it.
LEMMA GapIs ==
  ASSUME NEW w1, NEW w2, NEW m, NEW A, NEW B, Apart(w1, w2, m, A, B), NEW j \in 0..m
  PROVE  /\ GapFrom(w1, B, j) \in Int /\ GapTo(w2, m, A, j) \in Int
         /\ w1 <= GapFrom(w1, B, j) /\ GapFrom(w1, B, j) <= GapTo(w2, m, A, j) /\ GapTo(w2, m, A, j) <= w2
         /\ GapFrom(w1, B, j) > w1 => j \in 1..m
         /\ GapTo(w2, m, A, j) < w2 => j + 1 \in 1..m
         /\ j \in 1..m => GapFrom(w1, B, j) = B[j]
         /\ j + 1 \in 1..m => GapTo(w2, m, A, j) = A[j + 1]
         /\ j = 0 => GapFrom(w1, B, j) = w1
         /\ j = m => GapTo(w2, m, A, j) = w2
         /\ \A a \in 1..m : a <= j => B[a] <= GapFrom(w1, B, j)
         /\ \A a \in 1..m : a > j => GapTo(w2, m, A, j) <= A[a]
<1>0. m \in Nat /\ w1 \in Int /\ w2 \in Int /\ j \in Nat /\ j <= m
  BY DEF Apart
<1>1. PICK c : c = GapFrom(w1, B, j)
  OBVIOUS
<1>2. PICK e : e = GapTo(w2, m, A, j)
  OBVIOUS
<1>3. CASE j = 0
  <2>1. c = w1 /\ c \in Int /\ \A a \in 1..m : ~(a <= j)
    BY <1>0, <1>1, <1>3 DEF GapFrom
  <2>2. CASE m = 0
    <3>1. e = w2 /\ \A a \in 1..m : FALSE
      BY <1>0, <1>2, <1>3, <2>2 DEF GapTo
    <3> QED
      BY <1>0, <1>1, <1>2, <1>3, <2>1, <2>2, <3>1 DEF Apart
  <2>3. CASE m # 0
    <3>1. e = A[1] /\ 1 \in 1..m /\ j + 1 = 1 /\ j # m
      BY <1>0, <1>2, <1>3, <2>3 DEF GapTo
    <3>2. A[1] \in Int /\ w1 <= A[1] /\ A[1] < w2
      BY <3>1 DEF Apart
    <3>3. \A a \in 1..m : A[1] <= A[a]
      BY <3>1 DEF Apart
    <3> QED
      BY <1>0, <1>1, <1>2, <1>3, <2>1, <3>1, <3>2, <3>3
  <2> QED
    BY <2>2, <2>3
<1>4. CASE j # 0
  <2>1. c = B[j] /\ j \in 1..m /\ c \in Int /\ w1 < c /\ c <= w2
    BY <1>0, <1>1, <1>4 DEF GapFrom, Apart
  <2>2. \A a \in 1..m : a <= j => B[a] <= c
    <3> SUFFICES ASSUME NEW a \in 1..m, a < j PROVE B[a] <= c
      BY <2>1
    <3>1. B[a] < A[j] /\ A[j] < B[j] /\ A[j] \in Int /\ B[a] \in Int
      BY <2>1 DEF Apart
    <3> QED
      BY <2>1, <3>1
  <2>3. CASE j = m
    <3>1. e = w2 /\ j + 1 \notin 1..m /\ \A a \in 1..m : ~(a > j)
      BY <1>0, <1>2, <2>3 DEF GapTo
    <3> QED
      BY <1>0, <1>1, <1>2, <1>4, <2>1, <2>2, <2>3, <3>1
  <2>4. CASE j # m
    <3>1. e = A[j + 1] /\ j + 1 \in 1..m /\ j < j + 1
      BY <1>0, <1>2, <2>4 DEF GapTo
    <3>2. A[j + 1] \in Int /\ B[j] < A[j + 1] /\ A[j + 1] < w2
      BY <2>1, <3>1 DEF Apart
    <3>3. \A a \in 1..m : a > j => A[j + 1] <= A[a]
      <4> SUFFICES ASSUME NEW a \in 1..m, a > j + 1 PROVE A[j + 1] <= A[a]
        BY <1>0, <3>2
      <4>1. A[j + 1] < B[j + 1] /\ B[j + 1] < A[a] /\ B[j + 1] \in Int /\ A[a] \in Int
        BY <3>1 DEF Apart
      <4> QED
        BY <3>2, <4>1
    <3> QED
      BY <1>0, <1>1, <1>2, <1>4, <2>1, <2>2, <2>4, <3>1, <3>2, <3>3
  <2> QED
    BY <2>3, <2>4
<1> QED
  BY <1>3, <1>4

\* An instant of the window is in one of the intervals or in one of the gaps.
LEMMA InAGap ==
  ASSUME NEW w1, NEW w2, NEW m, NEW A, NEW B, Apart(w1, w2, m, A, B),
         NEW i \in Int, w1 <= i, i < w2, \A a \in 1..m : ~(A[a] <= i /\ i < B[a])
  PROVE  \E j \in 0..m : GapFrom(w1, B, j) <= i /\ i < GapTo(w2, m, A, j)
<1>0. m \in Nat /\ w1 \in Int /\ w2 \in Int
  BY DEF Apart
<1> DEFINE N == {k \in 0..m : \E j \in 0..m : j = m - k /\ GapFrom(w1, B, j) <= i}
<1>1. N \subseteq Nat
  BY <1>0
<1>2. m \in N
  <2>1. 0 \in 0..m /\ 0 = m - m /\ GapFrom(w1, B, 0) = w1
    BY <1>0 DEF GapFrom
  <2> QED
    BY <1>0, <2>1
<1>3. PICK k \in N : \A x \in N : k <= x
  <2> HIDE DEF N
  <2> QED
    BY <1>1, <1>2, LeastOf
<1>4. PICK j \in 0..m : j = m - k /\ GapFrom(w1, B, j) <= i /\ k \in 0..m
  BY <1>3
<1>5. CASE j = m
  BY <1>0, <1>4, <1>5 DEF GapTo
<1>6. CASE j # m
  <2>1. j + 1 \in 1..m /\ j + 1 \in 0..m /\ k - 1 \in 0..m /\ j + 1 = m - (k - 1) /\ k - 1 < k
    BY <1>0, <1>4, <1>6
  <2>2. ~(GapFrom(w1, B, j + 1) <= i)
    <3>1. k - 1 \notin N
      BY <1>1, <1>3, <2>1
    <3> QED
      BY <2>1, <3>1
  <2>3. GapFrom(w1, B, j + 1) = B[j + 1] /\ GapTo(w2, m, A, j) = A[j + 1] 
    BY <1>4, <2>1, GapIs
  <2>4. A[j + 1] \in Int /\ B[j + 1] \in Int
    BY <2>1 DEF Apart
  <2>5. ~(A[j + 1] <= i)
    BY <2>1, <2>2, <2>3, <2>4
  <2> QED
    BY <1>4, <2>3, <2>4, <2>5
<1> QED
  BY <1>5, <1>6

\* The gaps that last are the longest free stretches.
LEMMA GapsAreStretches ==
  ASSUME NEW w1, NEW w2, NEW m, NEW A, NEW B, Apart(w1, w2, m, A, B), NEW free,
         \A i \in w1..(w2 - 1) : i \in free <=> \A a \in 1..m : ~(A[a] <= i /\ i < B[a])
  PROVE  LET all == StretchesOf(w1, w2, free)
         IN  /\ \A j \in 0..m : GapFrom(w1, B, j) < GapTo(w2, m, A, j) =>
                   /\ <<GapFrom(w1, B, j), GapTo(w2, m, A, j)>> \in all
                   /\ \A q \in all : q[1] <= GapFrom(w1, B, j) /\ GapTo(w2, m, A, j) <= q[2] =>
                        q = <<GapFrom(w1, B, j), GapTo(w2, m, A, j)>>
             /\ \A p \in all : (\A q \in all : q[1] <= p[1] /\ p[2] <= q[2] => p = q) =>
                   \E j \in 0..m : p = <<GapFrom(w1, B, j), GapTo(w2, m, A, j)>>
<1>0. m \in Nat /\ w1 \in Int /\ w2 \in Int
  BY DEF Apart
<1>1. PICK all : all = StretchesOf(w1, w2, free)
  OBVIOUS
<1>2. \A p \in all : /\ p = <<p[1], p[2]>> /\ p[1] \in Int /\ p[2] \in Int /\ w1 <= p[1] /\ p[1] < p[2] /\ p[2] <= w2
                     /\ \A i \in Int : p[1] <= i /\ i < p[2] => \A a \in 1..m : ~(A[a] <= i /\ i < B[a])
  <2> SUFFICES ASSUME NEW p \in all
      PROVE  /\ p = <<p[1], p[2]>> /\ p[1] \in Int /\ p[2] \in Int /\ w1 <= p[1] /\ p[1] < p[2] /\ p[2] <= w2
             /\ \A i \in Int : p[1] <= i /\ i < p[2] => \A a \in 1..m : ~(A[a] <= i /\ i < B[a])
    OBVIOUS
  <2>1. p \in (w1..w2) \X (w1..w2) /\ p[1] < p[2] /\ \A i \in p[1]..(p[2] - 1) : i \in free
    BY <1>1 DEF StretchesOf
  <2>2. PICK x \in w1..w2, y \in w1..w2 : p = <<x, y>> /\ x = p[1] /\ y = p[2]
    BY <2>1
  <2>3. x < y /\ \A i \in x..(y - 1) : i \in free
    BY <2>1, <2>2
  <2>4. \A i \in Int : x <= i /\ i < y => i \in x..(y - 1) /\ i \in w1..(w2 - 1)
    BY <1>0
  <2>5. \A i \in Int : x <= i /\ i < y => \A a \in 1..m : ~(A[a] <= i /\ i < B[a])
    BY <2>3, <2>4
  <2> QED
    BY <1>0, <2>2, <2>3, <2>5
<1>3. ASSUME NEW j \in 0..m, GapFrom(w1, B, j) < GapTo(w2, m, A, j)
      PROVE  <<GapFrom(w1, B, j), GapTo(w2, m, A, j)>> \in all
  <2>1. PICK c \in Int, e \in Int :
          /\ c = GapFrom(w1, B, j) /\ e = GapTo(w2, m, A, j) /\ w1 <= c /\ c < e /\ e <= w2
          /\ \A a \in 1..m : a <= j => B[a] <= c
          /\ \A a \in 1..m : a > j => e <= A[a]
    BY <1>3, GapIs
  <2>2. ASSUME NEW i \in c..(e - 1) PROVE i \in free
    <3>1. i \in w1..(w2 - 1)
      BY <1>0, <2>1
    <3>2. ASSUME NEW a \in 1..m PROVE ~(A[a] <= i /\ i < B[a])
      <4>1. A[a] \in Int /\ B[a] \in Int
        BY DEF Apart
      <4>2. CASE a <= j
        BY <2>1, <4>1, <4>2
      <4>3. CASE a > j
        BY <2>1, <4>1, <4>3
      <4> QED
        BY <4>2, <4>3
    <3> QED
      BY <3>1, <3>2
  <2>3. c \in w1..w2 /\ e \in w1..w2
    BY <1>0, <2>1
  <2>4. PICK p : p = <<c, e>>
    OBVIOUS
  <2>5. p \in (w1..w2) \X (w1..w2) /\ p[1] = c /\ p[2] = e
    BY <2>3, <2>4
  <2>6. p[1] < p[2] /\ \A i \in p[1]..(p[2] - 1) : i \in free
    BY <2>1, <2>2, <2>5
  <2>7. p \in all
    BY <1>1, <2>5, <2>6 DEF StretchesOf
  <2> QED
    BY <2>1, <2>4, <2>7
<1>4. ASSUME NEW j \in 0..m, GapFrom(w1, B, j) < GapTo(w2, m, A, j),
             NEW q \in all, q[1] <= GapFrom(w1, B, j), GapTo(w2, m, A, j) <= q[2]
      PROVE  q = <<GapFrom(w1, B, j), GapTo(w2, m, A, j)>>
  <2>1. PICK c \in Int, e \in Int :
          /\ c = GapFrom(w1, B, j) /\ e = GapTo(w2, m, A, j) /\ w1 <= c /\ c < e /\ e <= w2
          /\ c > w1 => j \in 1..m /\ c = B[j]
          /\ e < w2 => j + 1 \in 1..m /\ e = A[j + 1]
    BY <1>4, GapIs
  <2>2. PICK x \in Int, y \in Int :
          /\ q = <<x, y>> /\ x = q[1] /\ y = q[2] /\ w1 <= x /\ x < y /\ y <= w2
          /\ \A i \in Int : x <= i /\ i < y => \A a \in 1..m : ~(A[a] <= i /\ i < B[a])
    BY <1>2
  <2>3. x <= c /\ e <= y
    BY <1>4, <2>1, <2>2
  <2>4. ~(x < c)
    <3> SUFFICES ASSUME x < c PROVE FALSE
      OBVIOUS
    <3>1. j \in 1..m /\ c = B[j]
      BY <1>0, <2>1, <2>2
    <3>2. A[j] \in Int /\ A[j] < B[j]
      BY <3>1 DEF Apart
    <3>3. c - 1 \in Int /\ x <= c - 1 /\ c - 1 < y
      BY <2>1, <2>3
    <3>4. ~(A[j] <= c - 1 /\ c - 1 < B[j])
      BY <2>2, <3>1, <3>3
    <3> QED
      BY <3>1, <3>2, <3>4
  <2>5. ~(e < y)
    <3> SUFFICES ASSUME e < y PROVE FALSE
      OBVIOUS
    <3>1. j + 1 \in 1..m /\ e = A[j + 1]
      BY <1>0, <2>1, <2>2
    <3>2. A[j + 1] \in Int /\ A[j + 1] < B[j + 1]
      BY <3>1 DEF Apart
    <3>3. x <= e
      BY <2>1, <2>3
    <3>4. ~(A[j + 1] <= e /\ e < B[j + 1])
      BY <2>2, <3>1, <3>3
    <3> QED
      BY <3>1, <3>2, <3>4
  <2>6. x = c /\ y = e
    BY <2>3, <2>4, <2>5
  <2> QED
    BY <2>1, <2>2, <2>6
<1>5. ASSUME NEW p \in all, \A q \in all : q[1] <= p[1] /\ p[2] <= q[2] => p = q
      PROVE  \E j \in 0..m : p = <<GapFrom(w1, B, j), GapTo(w2, m, A, j)>>
  <2>1. PICK x \in Int, y \in Int :
          /\ p = <<x, y>> /\ x = p[1] /\ y = p[2] /\ w1 <= x /\ x < y /\ y <= w2
          /\ \A i \in Int : x <= i /\ i < y => \A a \in 1..m : ~(A[a] <= i /\ i < B[a])
    BY <1>2
  <2>2. \A a \in 1..m : ~(A[a] <= x /\ x < B[a])
    BY <2>1
  <2>3. x < w2
    BY <1>0, <2>1
  <2>4. PICK j \in 0..m : GapFrom(w1, B, j) <= x /\ x < GapTo(w2, m, A, j)
    BY <2>1, <2>2, <2>3, InAGap
  <2>5. PICK c \in Int, e \in Int :
          /\ c = GapFrom(w1, B, j) /\ e = GapTo(w2, m, A, j) /\ w1 <= c /\ c <= e /\ e <= w2
          /\ e < w2 => j + 1 \in 1..m /\ e = A[j + 1]
    BY GapIs
  <2>6. y <= e
    <3> SUFFICES ASSUME e < y PROVE FALSE
      OBVIOUS
    <3>1. j + 1 \in 1..m /\ e = A[j + 1]
      BY <1>0, <2>1, <2>5
    <3>2. A[j + 1] \in Int /\ B[j + 1] \in Int /\ A[j + 1] < B[j + 1]
      BY <3>1 DEF Apart
    <3>3. ~(A[j + 1] <= e /\ e < B[j + 1])
      BY <2>1, <2>4, <2>5, <3>1
    <3> QED
      BY <3>1, <3>2, <3>3
  <2>7. PICK q : q = <<c, e>>
    OBVIOUS
  <2>8. q \in all /\ q[1] = c /\ q[2] = e
    BY <1>3, <2>4, <2>5, <2>7
  <2>9. p = q
    BY <1>5, <2>1, <2>4, <2>5, <2>6, <2>8
  <2> QED
    BY <2>5, <2>7, <2>9
<1> QED
  BY <1>1, <1>3, <1>4, <1>5

-----------------------------------------------------------------------------
\* A function that takes the next element and what was computed so far to what comes of them.
StepsIn(G, n, D) == \A k \in 1..n, x \in D : G[<<k, x>>] \in D
Runs(f, z, G, n) == f[0] = z /\ \A k \in 1..n : f[k] = G[<<k, f[k - 1]>>]

\* What is computed from a list, one element after the other, is computed.
LEMMA FoldExists ==
  ASSUME NEW n \in Nat, NEW D, NEW z \in D, NEW G, StepsIn(G, n, D)
  PROVE  \E f \in [0..n -> D] : Runs(f, z, G, n)
<1> DEFINE Upto(m) == \E f \in [0..m -> D] : f[0] = z /\ \A k \in 1..m : f[k] = G[<<k, f[k - 1]>>]
           U == {m \in Nat : m <= n => Upto(m)}
<1>1. Upto(0)
  <2>1. PICK f : f = [k \in 0..0 |-> z]
    OBVIOUS
  <2>2. f \in [0..0 -> D] /\ f[0] = z /\ \A k \in 1..0 : FALSE
    BY <2>1
  <2> QED
    BY <2>2
<1>2. ASSUME NEW m \in Nat, m \in U PROVE m + 1 \in U
  <2> SUFFICES ASSUME m + 1 <= n PROVE Upto(m + 1)
    OBVIOUS
  <2>1. Upto(m)
    BY <1>2
  <2>2. PICK f \in [0..m -> D] : f[0] = z /\ \A k \in 1..m : f[k] = G[<<k, f[k - 1]>>]
    BY <2>1
  <2>3. PICK x \in D : x = f[m]
    OBVIOUS
  <2>4. PICK y \in D : y = G[<<m + 1, x>>]
    <3>1. m + 1 \in 1..n
      OBVIOUS
    <3> QED
      BY <3>1 DEF StepsIn
  <2>5. PICK g : g = [k \in 0..(m + 1) |-> IF k = m + 1 THEN y ELSE f[k]]
    OBVIOUS
  <2>6. \A k \in 0..(m + 1) : g[k] = (IF k = m + 1 THEN y ELSE f[k]) /\ (k # m + 1 => k \in 0..m)
    BY <2>5
  <2>7. g \in [0..(m + 1) -> D]
    BY <2>5, <2>6
  <2>8. g[0] = z
    BY <2>2, <2>6
  <2>9. ASSUME NEW k \in 1..(m + 1) PROVE g[k] = G[<<k, g[k - 1]>>]
    <3>1. k - 1 \in 0..m /\ k - 1 # m + 1 /\ k \in 0..(m + 1)
      OBVIOUS
    <3>2. g[k - 1] = f[k - 1]
      BY <2>6, <3>1
    <3>3. CASE k = m + 1
      <4>1. g[k] = y /\ k - 1 = m
        BY <2>6, <3>1, <3>3
      <4> QED
        BY <2>3, <2>4, <3>2, <3>3, <4>1
    <3>4. CASE k # m + 1
      <4>1. k \in 1..m /\ g[k] = f[k]
        BY <2>6, <3>1, <3>4
      <4> QED
        BY <2>2, <3>2, <4>1
    <3> QED
      BY <3>3, <3>4
  <2> QED
    BY <2>7, <2>8, <2>9
<1>3. U \subseteq Nat
  OBVIOUS
<1>4. n \in U
  <2>1. 0 \in U
    BY <1>1
  <2> HIDE DEF U
  <2> QED
    BY <1>2, <1>3, <2>1, OneMore
<1> QED
  BY <1>4 DEF Runs

Pairs == Int \X Int

\* The later of two instants is one of them.
LEMMA LaterIs == \A i, j \in Int : /\ Latest(i, j) \in Int /\ i <= Latest(i, j) /\ j <= Latest(i, j)
                                   /\ Latest(i, j) = i \/ Latest(i, j) = j
BY DEF Latest

\* An interval is its ends.
LEMMA PairIs == ASSUME NEW p \in Pairs PROVE p = <<p[1], p[2]>> /\ p[1] \in Int /\ p[2] \in Int
BY DEF Pairs

\* An interval is put behind the ones before it, or into the last of them.
LEMMA JoinedIs ==
  ASSUME NEW done \in Seq(Pairs), NEW p \in Pairs
  PROVE  /\ Joined(done, p) \in Seq(Pairs)
         /\ done = <<>> \/ p[1] > done[Len(done)][2] =>
              /\ Len(Joined(done, p)) = Len(done) + 1
              /\ \A a \in 1..Len(done) : Joined(done, p)[a] = done[a]
              /\ Joined(done, p)[Len(done) + 1] = p
         /\ ~(done = <<>> \/ p[1] > done[Len(done)][2]) =>
              /\ Len(Joined(done, p)) = Len(done) /\ Len(done) \in 1..Len(done)
              /\ \A a \in 1..Len(done) : a # Len(done) => Joined(done, p)[a] = done[a]
              /\ Joined(done, p)[Len(done)] = <<done[Len(done)][1], Latest(done[Len(done)][2], p[2])>>
<1>1. PICK n \in Nat : n = Len(done) /\ DOMAIN done = 1..n
  OBVIOUS
<1>2. CASE done = <<>> \/ p[1] > done[Len(done)][2]
  <2>1. Joined(done, p) = Append(done, p)
    BY <1>2 DEF Joined
  <2> QED
    BY <1>1, <1>2, <2>1
<1>3. CASE ~(done = <<>> \/ p[1] > done[Len(done)][2])
  <2>1. n # 0 /\ n \in 1..n
    BY <1>1, <1>3
  <2>2. PICK x \in Int, y \in Int : done[n] = <<x, y>>
    <3>1. done[n] \in Pairs
      BY <1>1, <2>1
    <3> QED
      BY <3>1, PairIs
  <2>3. PICK z \in Int : z = Latest(y, p[2])
    BY LaterIs, PairIs
  <2>4. Joined(done, p) = [done EXCEPT ![n] = <<x, z>>]
    <3>1. Joined(done, p) = [done EXCEPT ![n] = [done[n] EXCEPT ![2] = Latest(done[n][2], p[2])]]
      BY <1>1, <1>3 DEF Joined
    <3>2. [<<x, y>> EXCEPT ![2] = Latest(<<x, y>>[2], p[2])] = <<x, z>>
      BY <2>3
    <3> QED
      BY <2>2, <3>1, <3>2
  <2>5. PICK q : q = Joined(done, p)
    OBVIOUS
  <2>6. q = [done EXCEPT ![n] = <<x, z>>] /\ <<x, z>> \in Pairs
    BY <2>4, <2>5 DEF Pairs
  <2>7. q \in Seq(Pairs) /\ Len(q) = n /\ q[n] = <<x, z>> /\ \A a \in 1..n : a # n => q[a] = done[a]
    BY <1>1, <2>1, <2>6
  <2> QED
    BY <1>1, <1>3, <2>1, <2>2, <2>3, <2>5, <2>7
<1> QED
  BY <1>2, <1>3

\* The parts of a window that are taken, sorted.
SortedLine(line, n, w1, w2) ==
  /\ n \in Nat /\ w1 \in Int /\ w2 \in Int
  /\ \A k \in 1..n : line[k] \in Pairs /\ w1 <= line[k][1] /\ line[k][1] < line[k][2] /\ line[k][2] <= w2
  /\ \A i, j \in 1..n : i < j => line[i][1] <= line[j][1]

\* What the first k of them are after they are merged: intervals that do not touch, of the same instants.
MergedOK(done, line, k, w1, w2) ==
  /\ done \in Seq(Pairs)
  /\ done = <<>> <=> k = 0
  /\ \A a \in 1..Len(done) : w1 <= done[a][1] /\ done[a][1] < done[a][2] /\ done[a][2] <= w2
  /\ \A a, b \in 1..Len(done) : a < b => done[a][2] < done[b][1]
  /\ k # 0 => done[Len(done)][1] <= line[k][1]
  /\ \A j \in 1..k : \E a \in 1..Len(done) : done[a][1] <= line[j][1] /\ line[j][2] <= done[a][2]
  /\ \A a \in 1..Len(done) : \A i \in Int : done[a][1] <= i /\ i < done[a][2] =>
        \E j \in 1..k : line[j][1] <= i /\ i < line[j][2]

\* Nothing is merged at first.
LEMMA MergedStarts == ASSUME NEW line, NEW w1, NEW w2 PROVE MergedOK(<<>>, line, 0, w1, w2)
<1>1. <<>> \in Seq(Pairs) /\ Len(<<>>) = 0 /\ (\A a \in 1..0 : FALSE)
  OBVIOUS
<1> QED
  BY <1>1 DEF MergedOK

\* The next part starts no earlier than the last interval, so it meets no other.
LEMMA JoinKeepsMerged ==
  ASSUME NEW line, NEW n, NEW w1, NEW w2, SortedLine(line, n, w1, w2),
         NEW k \in 1..n, NEW done, MergedOK(done, line, k - 1, w1, w2)
  PROVE  MergedOK(Joined(done, line[k]), line, k, w1, w2)
<1>0. n \in Nat /\ w1 \in Int /\ w2 \in Int /\ k \in Nat /\ k # 0
  BY DEF SortedLine
<1>1. PICK x \in Int, y \in Int : /\ line[k] = <<x, y>> /\ w1 <= x /\ x < y /\ y <= w2
                                  /\ line[k][1] = x /\ line[k][2] = y
  <2>1. line[k] \in Pairs /\ w1 <= line[k][1] /\ line[k][1] < line[k][2] /\ line[k][2] <= w2
    BY DEF SortedLine
  <2> QED
    BY <2>1, PairIs
<1>2. PICK p \in Pairs : p = line[k] /\ p[1] = x /\ p[2] = y
  BY <1>1 DEF Pairs
<1>3. PICK m \in Nat : done \in Seq(Pairs) /\ m = Len(done)
  BY DEF MergedOK
<1>4. \A a \in 1..m : done[a][1] \in Int /\ done[a][2] \in Int
  <2>1. \A a \in 1..m : done[a] \in Pairs
    BY <1>3
  <2> QED
    BY <2>1, PairIs
<1>5. PICK q : q = Joined(done, p)
  OBVIOUS
<1>6. /\ done = <<>> <=> k - 1 = 0
      /\ \A a \in 1..m : w1 <= done[a][1] /\ done[a][1] < done[a][2] /\ done[a][2] <= w2
      /\ \A a, b \in 1..m : a < b => done[a][2] < done[b][1]
      /\ k - 1 # 0 => done[m][1] <= line[k - 1][1]
      /\ \A j \in 1..(k - 1) : \E a \in 1..m : done[a][1] <= line[j][1] /\ line[j][2] <= done[a][2]
      /\ \A a \in 1..m : \A i \in Int : done[a][1] <= i /\ i < done[a][2] =>
             \E j \in 1..(k - 1) : line[j][1] <= i /\ i < line[j][2]
  BY <1>3 DEF MergedOK
<1>7. k \in 1..k /\ (\A j \in 1..(k - 1) : j \in 1..k) /\ (\A j \in 1..k : j # k => j \in 1..(k - 1))
  OBVIOUS
<1>8. \A j \in 1..k : line[j][1] \in Int /\ line[j][2] \in Int
  <2>1. \A j \in 1..k : line[j] \in Pairs
    BY <1>0 DEF SortedLine
  <2> QED
    BY <2>1, PairIs
<1>9. k - 1 # 0 => line[k - 1][1] <= x
  BY <1>0, <1>1 DEF SortedLine
<1>10. CASE done = <<>> \/ p[1] > done[m][2]
  <2>1. /\ q \in Seq(Pairs) /\ Len(q) = m + 1 /\ q[m + 1] = p
        /\ \A a \in 1..m : q[a] = done[a]
    BY <1>3, <1>5, <1>10, JoinedIs
  <2>2. \A a \in 1..(m + 1) : a = m + 1 \/ a \in 1..m
    OBVIOUS
  <2>3. q # <<>>
    BY <2>1
  <2>4. \A a \in 1..(m + 1) : w1 <= q[a][1] /\ q[a][1] < q[a][2] /\ q[a][2] <= w2
    BY <1>1, <1>2, <1>6, <2>1, <2>2
  <2>5. ASSUME NEW a \in 1..(m + 1), NEW b \in 1..(m + 1), a < b PROVE q[a][2] < q[b][1]
    <3>1. a \in 1..m /\ q[a] = done[a]
      BY <2>1, <2>2, <2>5
    <3>2. CASE b \in 1..m
      BY <1>6, <2>1, <2>5, <3>1, <3>2
    <3>3. CASE b = m + 1
      <4>1. q[b][1] = x /\ done[m][2] < x /\ m \in 1..m
        <5>1. m # 0 /\ done # <<>>
          BY <1>3, <3>1
        <5> QED
          BY <1>2, <1>10, <2>1, <3>3, <5>1
      <4>2. CASE a = m
        BY <3>1, <4>1, <4>2
      <4>3. CASE a # m
        <5>1. done[a][2] < done[m][1] /\ done[m][1] < done[m][2]
          BY <1>6, <3>1, <4>1, <4>3
        <5> QED
          BY <1>4, <3>1, <4>1, <5>1
      <4> QED
        BY <4>2, <4>3
    <3> QED
      BY <2>2, <3>2, <3>3
  <2>6. q[m + 1][1] <= line[k][1]
    BY <1>1, <1>2, <2>1
  <2>7. ASSUME NEW j \in 1..k
        PROVE  \E a \in 1..(m + 1) : q[a][1] <= line[j][1] /\ line[j][2] <= q[a][2]
    <3>1. CASE j = k
      BY <1>1, <1>2, <2>1, <3>1
    <3>2. CASE j # k
      <4>1. PICK a \in 1..m : done[a][1] <= line[j][1] /\ line[j][2] <= done[a][2]
        BY <1>6, <1>7, <3>2
      <4>2. a \in 1..(m + 1) /\ q[a] = done[a]
        BY <2>1
      <4> QED
        BY <4>1, <4>2
    <3> QED
      BY <3>1, <3>2
  <2>8. ASSUME NEW a \in 1..(m + 1), NEW i \in Int, q[a][1] <= i, i < q[a][2]
        PROVE  \E j \in 1..k : line[j][1] <= i /\ i < line[j][2]
    <3>1. CASE a = m + 1
      BY <1>2, <1>7, <2>1, <2>8, <3>1
    <3>2. CASE a \in 1..m
      <4>1. \E j \in 1..(k - 1) : line[j][1] <= i /\ i < line[j][2]
        BY <1>6, <2>1, <2>8, <3>2
      <4> QED
        BY <1>7, <4>1
    <3> QED
      BY <2>2, <3>1, <3>2
  <2> QED
    BY <1>0, <1>2, <1>5, <2>1, <2>3, <2>4, <2>5, <2>6, <2>7, <2>8 DEF MergedOK
<1>11. CASE ~(done = <<>> \/ p[1] > done[m][2])
  <2>1. /\ q \in Seq(Pairs) /\ Len(q) = m /\ m \in 1..m
        /\ q[m] = <<done[m][1], Latest(done[m][2], p[2])>>
        /\ \A a \in 1..m : a # m => q[a] = done[a]
    BY <1>3, <1>5, <1>11, JoinedIs
  <2>2. PICK u \in Int, v \in Int, t \in Int :
          u = done[m][1] /\ v = done[m][2] /\ t = Latest(v, y) /\ v <= t /\ y <= t /\ (t = v \/ t = y)
    <3>1. PICK u \in Int, v \in Int : u = done[m][1] /\ v = done[m][2]
      BY <1>4, <2>1
    <3>2. PICK t \in Int : t = Latest(v, y) /\ v <= t /\ y <= t /\ (t = v \/ t = y)
      BY LaterIs
    <3> QED
      BY <3>1, <3>2
  <2>3. q[m][1] = u /\ q[m][2] = t
    BY <1>2, <2>1, <2>2
  <2>4. u <= x /\ x <= v /\ u < v /\ w1 <= u /\ v <= w2
    <3>1. k - 1 # 0 /\ k - 1 \in 1..k
      BY <1>6, <1>7, <1>11
    <3>2. u <= line[k - 1][1] /\ line[k - 1][1] <= x
      BY <1>6, <1>9, <2>2, <3>1
    <3>3. u <= x
      BY <1>8, <3>1, <3>2
    <3>4. x <= v
      BY <1>2, <1>11, <2>2
    <3> QED
      BY <1>6, <2>1, <2>2, <3>3, <3>4
  <2>5. q # <<>>
    BY <2>1
  <2>6. \A a \in 1..m : w1 <= q[a][1] /\ q[a][1] < q[a][2] /\ q[a][2] <= w2
    <3> SUFFICES ASSUME NEW a \in 1..m PROVE w1 <= q[a][1] /\ q[a][1] < q[a][2] /\ q[a][2] <= w2
      OBVIOUS
    <3>1. CASE a = m
      BY <1>0, <1>1, <2>2, <2>3, <2>4, <3>1
    <3>2. CASE a # m
      BY <1>6, <2>1, <3>2
    <3> QED
      BY <3>1, <3>2
  <2>7. ASSUME NEW a \in 1..m, NEW b \in 1..m, a < b PROVE q[a][2] < q[b][1]
    <3>1. a # m
      BY <2>7
    <3>2. q[a] = done[a]
      BY <2>1, <3>1
    <3>3. q[b][1] = done[b][1]
      <4>1. CASE b = m
        BY <2>2, <2>3, <4>1
      <4>2. CASE b # m
        BY <2>1, <4>2
      <4> QED
        BY <4>1, <4>2
    <3> QED
      BY <1>6, <2>7, <3>2, <3>3
  <2>8. q[m][1] <= line[k][1]
    BY <1>1, <2>3, <2>4
  <2>9. ASSUME NEW j \in 1..k
        PROVE  \E a \in 1..m : q[a][1] <= line[j][1] /\ line[j][2] <= q[a][2]
    <3>1. CASE j = k
      BY <1>1, <2>1, <2>2, <2>3, <2>4, <3>1
    <3>2. CASE j # k
      <4>1. PICK a \in 1..m : done[a][1] <= line[j][1] /\ line[j][2] <= done[a][2]
        BY <1>6, <1>7, <3>2
      <4>2. CASE a = m
        <5>1. line[j][2] \in Int /\ line[j][2] <= v /\ u <= line[j][1]
          BY <1>8, <2>2, <4>1, <4>2
        <5>2. line[j][2] <= t
          BY <2>2, <5>1
        <5> QED
          BY <2>1, <2>3, <5>1, <5>2
      <4>3. CASE a # m
        BY <2>1, <4>1, <4>3
      <4> QED
        BY <4>2, <4>3
    <3> QED
      BY <3>1, <3>2
  <2>10. ASSUME NEW a \in 1..m, NEW i \in Int, q[a][1] <= i, i < q[a][2]
         PROVE  \E j \in 1..k : line[j][1] <= i /\ i < line[j][2]
    <3>1. CASE a = m
      <4>1. u <= i /\ i < t
        BY <2>3, <2>10, <3>1
      <4>2. CASE i < v
        <5>1. \E j \in 1..(k - 1) : line[j][1] <= i /\ i < line[j][2]
          BY <1>6, <2>1, <2>2, <4>1, <4>2
        <5> QED
          BY <1>7, <5>1
      <4>3. CASE v <= i
        <5>1. x <= i /\ i < y
          BY <2>2, <2>4, <4>1, <4>3
        <5> QED
          BY <1>1, <1>7, <5>1
      <4> QED
        BY <2>2, <4>2, <4>3
    <3>2. CASE a # m
      <4>1. \E j \in 1..(k - 1) : line[j][1] <= i /\ i < line[j][2]
        BY <1>6, <2>1, <2>10, <3>2
      <4> QED
        BY <1>7, <4>1
    <3> QED
      BY <3>1, <3>2
  <2> QED
    BY <1>0, <1>2, <1>5, <2>1, <2>5, <2>6, <2>7, <2>8, <2>9, <2>10 DEF MergedOK
<1> QED
  BY <1>3, <1>10, <1>11

-----------------------------------------------------------------------------
\* What is taken of a window, merged.
LEMMA PartsAre ==
  ASSUME CalendarInv, NEW w1 \in Int, NEW w2 \in Int, NEW M, M = mergedParts(<<w1, w2>>, booked)
  PROVE  \E line, n : /\ SortedLine(line, n, w1, w2) /\ MergedOK(M, line, n, w1, w2)
                      /\ \A i \in Int : w1 <= i /\ i < w2 =>
                           (TakenAt(i) = {} <=> \A k \in 1..n : ~(line[k][1] <= i /\ i < line[k][2]))
<1>1. PICK L : L = Live(booked) /\ L \in SUBSET booked /\ IsFiniteSet(L)
  BY LiveIs, FS_Subset DEF CalendarInv
<1>2. \A s \in L : s.start \in Nat /\ s.end \in Nat /\ s.start < s.end
  BY <1>1, RowIs DEF CalendarInv
<1>3. \A s \in L : Clip(s, w1, w2) \in Pairs /\ Clip(s, w1, w2)[1] = Latest(s.start, w1)
                   /\ Clip(s, w1, w2)[2] = Earlier(s.end, w2)
  <2> SUFFICES ASSUME NEW s \in L
               PROVE  Clip(s, w1, w2) \in Pairs /\ Clip(s, w1, w2)[1] = Latest(s.start, w1)
                      /\ Clip(s, w1, w2)[2] = Earlier(s.end, w2)
    OBVIOUS
  <2>1. Latest(s.start, w1) \in Int /\ Earlier(s.end, w2) \in Int
    BY <1>2 DEF Latest, Earlier
  <2> QED
    BY <2>1 DEF Clip, Pairs
<1>4. PICK O : O = {p \in {Clip(s, w1, w2) : s \in L} : Lasts(p)}
  OBVIOUS
<1>5. O \subseteq Pairs /\ IsFiniteSet(O)
  <2>1. IsFiniteSet({Clip(s, w1, w2) : s \in L})
    <3>1. PICK f : f = [s \in L |-> Clip(s, w1, w2)]
      OBVIOUS
    <3>2. f \in Surjection(L, {Clip(s, w1, w2) : s \in L})
      BY <3>1 DEF Surjection
    <3> QED
      BY <1>1, <3>2, FS_Surjection
  <2>2. O \in SUBSET {Clip(s, w1, w2) : s \in L}
    BY <1>4
  <2>3. IsFiniteSet(O)
    BY <2>1, <2>2, FS_Subset
  <2> QED
    BY <1>3, <2>2, <2>3
<1>6. PICK line : line = CHOOSE l \in SetToSeqs(O) : \A i, j \in DOMAIN l : i < j => Before(l[i], l[j])
  OBVIOUS
<1>7. line \in SetToSeqs(O) /\ \A i, j \in DOMAIN line : i < j => Before(line[i], line[j])
  <2>1. PICK R : R = {pq \in O \X O : Before(pq[1], pq[2])}
    OBVIOUS
  <2>2. \A x, y \in O : <<x, y>> \in R <=> Before(x, y)
    BY <2>1
  <2>3. \A x \in O : x[1] \in Int /\ x[2] \in Int
    BY <1>5, PairIs
  <2>4. Orders(R, O)
    BY <2>2, <2>3 DEF Orders, Before
  <2>5. PICK l \in SetToSeqs(O) : InOrder(l, R)
    BY <1>5, <2>4, CanBeSorted
  <2>6. DOMAIN l = 1..Len(l) /\ \A k \in 1..Len(l) : l[k] \in O
    BY <1>5, <2>5, ListsAll
  <2>7. \A i, j \in DOMAIN l : i < j => Before(l[i], l[j])
    BY <2>2, <2>5, <2>6 DEF InOrder
  <2> QED
    BY <1>6, <2>5, <2>7
<1>8. PICK n \in Nat : n = Len(line)
  BY <1>5, <1>7, ListsAll
<1>9. DOMAIN line = 1..n /\ (\A k \in 1..n : line[k] \in O) /\ \A y \in O : \E k \in 1..n : line[k] = y
  BY <1>5, <1>7, <1>8, ListsAll
<1>10. \A p \in O : /\ p \in Pairs /\ p[1] < p[2]
                    /\ \E s \in L : p = Clip(s, w1, w2)
  BY <1>4, <1>5 DEF Lasts
<1>11. \A p \in O : w1 <= p[1] /\ p[2] <= w2 /\ p[1] \in Int /\ p[2] \in Int
  <2> SUFFICES ASSUME NEW p \in O PROVE w1 <= p[1] /\ p[2] <= w2 /\ p[1] \in Int /\ p[2] \in Int
    OBVIOUS
  <2>1. PICK s \in L : p = Clip(s, w1, w2)
    BY <1>10
  <2>2. p[1] = Latest(s.start, w1) /\ p[2] = Earlier(s.end, w2)
    BY <1>3, <2>1
  <2> QED
    BY <1>2, <2>2 DEF Latest, Earlier
<1>12. SortedLine(line, n, w1, w2)
  <2>1. \A i, j \in 1..n : i < j => line[i][1] <= line[j][1]
    <3> SUFFICES ASSUME NEW i \in 1..n, NEW j \in 1..n, i < j PROVE line[i][1] <= line[j][1]
      OBVIOUS
    <3>1. Before(line[i], line[j]) /\ line[i] \in O /\ line[j] \in O
      BY <1>7, <1>9
    <3> QED
      BY <1>11, <3>1 DEF Before
  <2> QED
    BY <1>9, <1>10, <1>11, <2>1 DEF SortedLine
<1>13. PICK f : /\ f = [k \in 0..n |-> IF k = 0 THEN <<>> ELSE Joined(f[k - 1], line[k])]
                /\ M = f[n]
  <2> DEFINE Good(f) == f = [k \in 0..n |-> IF k = 0 THEN <<>> ELSE Joined(f[k - 1], line[k])]
  <2>1. \E f : Good(f)
    <3>1. PICK D : D = Seq(Pairs)
      OBVIOUS
    <3>2. PICK G : G = [x \in (1..n) \X D |-> Joined(x[2], line[x[1]])]
      OBVIOUS
    <3>3. \A k \in 1..n, x \in D : G[<<k, x>>] = Joined(x, line[k]) /\ Joined(x, line[k]) \in D
      <4> SUFFICES ASSUME NEW k \in 1..n, NEW x \in D
                   PROVE  G[<<k, x>>] = Joined(x, line[k]) /\ Joined(x, line[k]) \in D
        OBVIOUS
      <4>1. G[<<k, x>>] = Joined(x, line[k])
        BY <3>2
      <4>2. line[k] \in Pairs
        BY <1>9, <1>10
      <4> QED
        BY <3>1, <4>1, <4>2, JoinedIs
    <3>4. StepsIn(G, n, D)
      BY <3>3 DEF StepsIn
    <3>5. <<>> \in D
      BY <3>1
    <3>6. PICK f \in [0..n -> D] : f[0] = <<>> /\ \A k \in 1..n : f[k] = G[<<k, f[k - 1]>>]
      <4>1. PICK z \in D : z = <<>>
        BY <3>5
      <4>2. \E f \in [0..n -> D] : Runs(f, z, G, n)
        BY <1>8, <3>4, <4>1, FoldExists
      <4> QED
        BY <4>1, <4>2 DEF Runs
    <3>7. ASSUME NEW k \in 0..n PROVE f[k] = IF k = 0 THEN <<>> ELSE Joined(f[k - 1], line[k])
      <4>1. CASE k = 0
        BY <3>6, <4>1
      <4>2. CASE k # 0
        <5>1. k \in 1..n /\ k - 1 \in 0..n
          BY <4>2
        <5>2. f[k - 1] \in D
          BY <5>1
        <5> QED
          BY <3>3, <3>6, <4>2, <5>1, <5>2
      <4> QED
        BY <4>1, <4>2
    <3> QED
      BY <3>7
  <2>2. PICK f : f = CHOOSE g : Good(g)
    OBVIOUS
  <2>3. Good(f)
    BY <2>1, <2>2
  <2>4. M = f[n]
    <3>1. f = CHOOSE g : g = [k \in 0..Len(line) |-> IF k = 0 THEN <<>> ELSE Joined(g[k - 1], line[k])]
      BY <1>8, <2>2
    <3>2. \A x, y : <<x, y>>[1] = x /\ <<x, y>>[2] = y
      OBVIOUS
    <3> QED
      BY <1>1, <1>4, <1>6, <1>8, <3>1, <3>2 DEF mergedParts
  <2> QED
    BY <2>3, <2>4
<1>14. f[0] = <<>> /\ \A k \in 1..n : f[k] = Joined(f[k - 1], line[k])
  <2>1. 0 \in 0..n /\ \A k \in 1..n : k \in 0..n /\ k # 0
    OBVIOUS
  <2> QED
    BY <1>13, <2>1
<1>15. MergedOK(f[n], line, n, w1, w2)
  <2> DEFINE U == {k \in Nat : k <= n => MergedOK(f[k], line, k, w1, w2)}
  <2>1. 0 \in U
    BY <1>14, MergedStarts
  <2>2. ASSUME NEW k \in Nat, k \in U PROVE k + 1 \in U
    <3> SUFFICES ASSUME k + 1 <= n PROVE MergedOK(f[k + 1], line, k + 1, w1, w2)
      OBVIOUS
    <3>1. PICK e \in 1..n : e = k + 1 /\ e - 1 = k
      OBVIOUS
    <3>2. MergedOK(f[e - 1], line, e - 1, w1, w2)
      BY <2>2, <3>1
    <3>3. f[e] = Joined(f[e - 1], line[e])
      BY <1>14
    <3> QED
      BY <1>12, <3>1, <3>2, <3>3, JoinKeepsMerged
  <2>3. U \subseteq Nat
    OBVIOUS
  <2>4. n \in U
    <3> HIDE DEF U
    <3> QED
      BY <2>1, <2>2, <2>3, OneMore
  <2> QED
    BY <2>4
<1>16. ASSUME NEW i \in Int, w1 <= i, i < w2
       PROVE  TakenAt(i) = {} <=> \A k \in 1..n : ~(line[k][1] <= i /\ i < line[k][2])
  <2>1. TakenAt(i) = {s \in L : s.start <= i /\ i < s.end}
    BY <1>1 DEF TakenAt
  <2>2. ASSUME NEW k \in 1..n, line[k][1] <= i, i < line[k][2] PROVE TakenAt(i) # {}
    <3>1. PICK s \in L : line[k] = Clip(s, w1, w2)
      BY <1>9, <1>10
    <3>2. Latest(s.start, w1) <= i /\ i < Earlier(s.end, w2)
      BY <1>3, <2>2, <3>1
    <3>3. s.start <= i /\ i < s.end
      BY <1>2, <3>2 DEF Latest, Earlier
    <3> QED
      BY <2>1, <3>3
  <2>3. ASSUME NEW s \in L, s.start <= i, i < s.end
        PROVE  \E k \in 1..n : line[k][1] <= i /\ i < line[k][2]
    <3>1. PICK p \in Pairs : p = Clip(s, w1, w2) /\ p[1] = Latest(s.start, w1) /\ p[2] = Earlier(s.end, w2)
      BY <1>3
    <3>2. p[1] <= i /\ i < p[2]
      BY <1>2, <1>16, <2>3, <3>1 DEF Latest, Earlier
    <3>3. p[1] < p[2]
      BY <3>2, PairIs
    <3>4. p \in O
      BY <1>4, <3>1, <3>3 DEF Lasts
    <3> QED
      BY <1>9, <3>2, <3>4
  <2> QED
    BY <2>1, <2>2, <2>3
<1> QED
  BY <1>12, <1>13, <1>15, <1>16

\* Where the merged parts begin and end.
Ends(w1, w2, done, m, A, B) ==
  /\ Apart(w1, w2, m, A, B) /\ m = Len(done)
  /\ \A a \in 1..m : done[a] = <<A[a], B[a]>> /\ done[a][1] = A[a] /\ done[a][2] = B[a]

\* The parts and what they are merged into take the same instants.
SameInstants(line, n, m, A, B) ==
  \A i \in Int : (\A k \in 1..n : ~(line[k][1] <= i /\ i < line[k][2])) <=>
                \A a \in 1..m : ~(A[a] <= i /\ i < B[a])

\* The merged parts do not touch and take the same instants.
LEMMA MergedIsApart ==
  ASSUME NEW w1 \in Int, NEW w2 \in Int, w1 < w2, NEW line, NEW n, NEW done,
         SortedLine(line, n, w1, w2), MergedOK(done, line, n, w1, w2)
  PROVE  \E m, A, B :
           Ends(w1, w2, done, m, A, B) /\ SameInstants(line, n, m, A, B)
<1>1. PICK m \in Nat : m = Len(done) /\ done \in Seq(Pairs)
  BY DEF MergedOK
<1>2. PICK A, B : A = [a \in 1..m |-> done[a][1]] /\ B = [a \in 1..m |-> done[a][2]]
  OBVIOUS
<1>3. \A a \in 1..m : /\ done[a] \in Pairs /\ A[a] = done[a][1] /\ B[a] = done[a][2]
                     /\ A[a] \in Int /\ B[a] \in Int /\ done[a] = <<A[a], B[a]>>
  <2>1. \A a \in 1..m : done[a] \in Pairs /\ A[a] = done[a][1] /\ B[a] = done[a][2]
    BY <1>1, <1>2
  <2> QED
    BY <2>1, PairIs
<1>4. /\ \A a \in 1..m : w1 <= A[a] /\ A[a] < B[a] /\ B[a] <= w2
      /\ \A a, b \in 1..m : a < b => B[a] < A[b]
  BY <1>1, <1>3 DEF MergedOK
<1>5. Apart(w1, w2, m, A, B)
  BY <1>2, <1>3, <1>4 DEF Apart
<1>6. \A k \in 1..n : line[k][1] \in Int /\ line[k][2] \in Int
  BY PairIs DEF SortedLine
<1>7. ASSUME NEW i \in Int, NEW k \in 1..n, line[k][1] <= i, i < line[k][2]
      PROVE  \E a \in 1..m : A[a] <= i /\ i < B[a]
  <2>1. PICK a \in 1..m : done[a][1] <= line[k][1] /\ line[k][2] <= done[a][2]
    BY <1>1 DEF MergedOK
  <2> QED
    BY <1>3, <1>6, <1>7, <2>1
<1>8. ASSUME NEW i \in Int, NEW a \in 1..m, A[a] <= i, i < B[a]
      PROVE  \E k \in 1..n : line[k][1] <= i /\ i < line[k][2]
  BY <1>1, <1>3, <1>8 DEF MergedOK
<1>9. Ends(w1, w2, done, m, A, B)
  BY <1>1, <1>3, <1>5 DEF Ends
<1>10. SameInstants(line, n, m, A, B)
  BY <1>7, <1>8 DEF SameInstants
<1> QED
  BY <1>9, <1>10

\* What the cursor has passed over after the first k of them.
GapsPassed(w1, w2, m, A, B, k) == {<<GapFrom(w1, B, j), GapTo(w2, m, A, j)>> : j \in 0..(k - 1)}

SweptOK(state, w1, w2, m, A, B, k) ==
  /\ state = [cursor |-> GapFrom(w1, B, k), found |-> GapsPassed(w1, w2, m, A, B, k)]

\* The cursor goes from the end of one interval to the end of the next and leaves the gap behind.
LEMMA PassOverKeeps ==
  ASSUME NEW w1, NEW w2, NEW done, NEW m, NEW A, NEW B, Ends(w1, w2, done, m, A, B),
         NEW k \in 1..m, NEW state, SweptOK(state, w1, w2, m, A, B, k - 1)
  PROVE  SweptOK(PassOver(state, done[k]), w1, w2, m, A, B, k)
<1>1. Apart(w1, w2, m, A, B) /\ m \in Nat /\ k \in 0..m /\ k - 1 \in 0..m /\ k - 1 + 1 = k /\ k # 0
  BY DEF Ends, Apart
<1>2. PICK c \in Int, e \in Int, c2 \in Int :
        /\ c = GapFrom(w1, B, k - 1) /\ e = GapTo(w2, m, A, k - 1) /\ c2 = GapFrom(w1, B, k)
        /\ c <= e /\ e = A[k] /\ c2 = B[k]
  <2>1. PICK j \in 0..m : j = k - 1 /\ j + 1 = k
    BY <1>1
  <2>2. /\ GapFrom(w1, B, j) \in Int /\ GapTo(w2, m, A, j) \in Int
        /\ GapFrom(w1, B, j) <= GapTo(w2, m, A, j) /\ GapTo(w2, m, A, j) = A[j + 1]
    BY <1>1, <2>1, GapIs
  <2>3. GapFrom(w1, B, k) \in Int /\ GapFrom(w1, B, k) = B[k]
    BY <1>1, GapIs
  <2> QED
    BY <2>1, <2>2, <2>3
<1>3. A[k] < B[k] /\ done[k][1] = A[k] /\ done[k][2] = B[k]
  BY <1>1 DEF Apart, Ends
<1>4. Latest(c, done[k][2]) = c2
  BY <1>2, <1>3 DEF Latest
<1>5. state.cursor = c /\ state.found = GapsPassed(w1, w2, m, A, B, k - 1)
  BY <1>2 DEF SweptOK
<1>6. GapsPassed(w1, w2, m, A, B, k - 1) \cup {<<c, e>>} = GapsPassed(w1, w2, m, A, B, k)
  <2>1. \A j : j \in 0..(k - 1) <=> j \in 0..((k - 1) - 1) \/ j = k - 1
    BY <1>1
  <2> QED
    BY <1>2, <2>1 DEF GapsPassed
<1> QED
  BY <1>2, <1>3, <1>4, <1>5, <1>6 DEF PassOver, SweptOK

\* The gaps between the merged parts, those at the ends of the window included.
LEMMA SweptIs ==
  ASSUME NEW w1, NEW w2, NEW done, NEW m, NEW A, NEW B, Ends(w1, w2, done, m, A, B)
  PROVE  LET swept[k \in 0..Len(done)] ==
               IF k = 0 THEN [cursor |-> w1, found |-> {}] ELSE PassOver(swept[k - 1], done[k])
         IN  SweptOK(swept[Len(done)], w1, w2, m, A, B, m)
<1>1. m \in Nat /\ m = Len(done) /\ Apart(w1, w2, m, A, B)
  BY DEF Ends, Apart
<1>2. SweptOK([cursor |-> w1, found |-> {}], w1, w2, m, A, B, 0)
  <2>1. \A j \in 0..(0 - 1) : FALSE
    OBVIOUS
  <2>2. GapsPassed(w1, w2, m, A, B, 0) = {} /\ GapFrom(w1, B, 0) = w1
    BY <2>1 DEF GapsPassed, GapFrom
  <2> QED
    BY <2>2 DEF SweptOK
<1> DEFINE Good(f) == f = [k \in 0..m |-> IF k = 0 THEN [cursor |-> w1, found |-> {}] ELSE PassOver(f[k - 1], done[k])]
<1>3. \E f : Good(f)
  <2>1. PICK D : D = [cursor : Int, found : SUBSET Pairs]
    OBVIOUS
  <2>2. PICK z \in D : z = [cursor |-> w1, found |-> {}]
    BY <1>1, <2>1 DEF Apart
  <2>3. ASSUME NEW k \in 1..m, NEW x \in D PROVE PassOver(x, done[k]) \in D
    <3>1. done[k][1] \in Int /\ done[k][2] \in Int
      BY <1>1 DEF Ends, Apart
    <3>2. x.cursor \in Int /\ x.found \in SUBSET Pairs
      BY <2>1
    <3>3. Latest(x.cursor, done[k][2]) \in Int /\ <<x.cursor, done[k][1]>> \in Pairs
      BY <3>1, <3>2, LaterIs DEF Pairs
    <3> QED
      BY <2>1, <3>2, <3>3 DEF PassOver
  <2>4. PICK G : G = [x \in (1..m) \X D |-> PassOver(x[2], done[x[1]])]
    OBVIOUS
  <2>5. \A k \in 1..m, x \in D : G[<<k, x>>] = PassOver(x, done[k])
    BY <2>4
  <2>6. StepsIn(G, m, D)
    BY <2>3, <2>5 DEF StepsIn
  <2>7. PICK f \in [0..m -> D] : f[0] = z /\ \A k \in 1..m : f[k] = G[<<k, f[k - 1]>>]
    <3>1. PICK f \in [0..m -> D] : Runs(f, z, G, m)
      BY <1>1, <2>2, <2>6, FoldExists
    <3> QED
      BY <3>1 DEF Runs
  <2>8. ASSUME NEW k \in 0..m
        PROVE  f[k] = IF k = 0 THEN [cursor |-> w1, found |-> {}] ELSE PassOver(f[k - 1], done[k])
    <3>1. CASE k = 0
      BY <2>2, <2>7, <3>1
    <3>2. CASE k # 0
      <4>1. k \in 1..m /\ k - 1 \in 0..m
        BY <1>1, <3>2
      <4>2. f[k - 1] \in D
        BY <4>1
      <4> QED
        BY <2>5, <2>7, <3>2, <4>1, <4>2
    <3> QED
      BY <3>1, <3>2
  <2> QED
    BY <2>8
<1>4. PICK f : f = CHOOSE g : Good(g)
  OBVIOUS
<1>5. Good(f)
  BY <1>3, <1>4
<1>6. f[0] = [cursor |-> w1, found |-> {}] /\ \A k \in 1..m : f[k] = PassOver(f[k - 1], done[k])
  <2>1. 0 \in 0..m /\ \A k \in 1..m : k \in 0..m /\ k # 0
    BY <1>1
  <2> QED
    BY <1>5, <2>1
<1>7. SweptOK(f[m], w1, w2, m, A, B, m)
  <2> DEFINE U == {k \in Nat : k <= m => SweptOK(f[k], w1, w2, m, A, B, k)}
  <2>1. 0 \in U
    BY <1>2, <1>6
  <2>2. ASSUME NEW k \in Nat, k \in U PROVE k + 1 \in U
    <3> SUFFICES ASSUME k + 1 <= m PROVE SweptOK(f[k + 1], w1, w2, m, A, B, k + 1)
      OBVIOUS
    <3>1. PICK e \in 1..m : e = k + 1 /\ e - 1 = k
      BY <1>1
    <3>2. SweptOK(f[e - 1], w1, w2, m, A, B, e - 1)
      BY <1>1, <2>2, <3>1
    <3>3. f[e] = PassOver(f[e - 1], done[e])
      BY <1>6
    <3> QED
      BY <3>1, <3>2, <3>3, PassOverKeeps
  <2>3. U \subseteq Nat
    OBVIOUS
  <2>4. m \in U
    <3> HIDE DEF U
    <3> QED
      BY <1>1, <2>1, <2>2, <2>3, OneMore
  <2> QED
    BY <1>1, <2>4
<1>8. f = CHOOSE g : g = [k \in 0..Len(done) |-> IF k = 0 THEN [cursor |-> w1, found |-> {}] ELSE PassOver(g[k - 1], done[k])]
  BY <1>1, <1>4
<1> QED
  BY <1>1, <1>7, <1>8

-----------------------------------------------------------------------------
\* The openings of a window are the longest stretches of it that are free.
LEMMA Openings ==
  ASSUME CalendarInv, NEW w1 \in Int, NEW w2 \in Int, w1 < w2, plan # DayOff
  PROVE  DayOpenings(<<w1, w2>>, booked) =
           {p \in FreeStretches(<<w1, w2>>) : p[2] - p[1] >= plan.shortest}
<1>1. PICK M : M = mergedParts(<<w1, w2>>, booked)
  OBVIOUS
<1>2. PICK line, n : /\ SortedLine(line, n, w1, w2) /\ MergedOK(M, line, n, w1, w2)
                     /\ \A i \in Int : w1 <= i /\ i < w2 =>
                           (TakenAt(i) = {} <=> \A k \in 1..n : ~(line[k][1] <= i /\ i < line[k][2]))
  BY <1>1, PartsAre
<1>3. PICK m, A, B : Ends(w1, w2, M, m, A, B) /\ SameInstants(line, n, m, A, B)
  <2>1. SortedLine(line, n, w1, w2) /\ MergedOK(M, line, n, w1, w2)
    BY <1>2
  <2> QED
    BY <2>1, MergedIsApart
<1>4. PICK g \in Nat : g = plan.shortest /\ g >= 1
  BY CalendarAssumption DEF CalendarInv
<1>5. Apart(w1, w2, m, A, B) /\ m \in Nat
  BY <1>3 DEF Ends, Apart
<1>6. PICK free : free = {i \in w1..(w2 - 1) : TakenAt(i) = {}}
  OBVIOUS
<1>7. \A i \in w1..(w2 - 1) : i \in free <=> \A a \in 1..m : ~(A[a] <= i /\ i < B[a])
  <2> SUFFICES ASSUME NEW i \in w1..(w2 - 1) PROVE i \in free <=> \A a \in 1..m : ~(A[a] <= i /\ i < B[a])
    OBVIOUS
  <2>1. i \in Int /\ w1 <= i /\ i < w2
    OBVIOUS
  <2> QED
    BY <1>2, <1>3, <1>6, <2>1 DEF SameInstants
<1>8. PICK all : all = StretchesOf(w1, w2, free)
  OBVIOUS
<1>9. FreeStretches(<<w1, w2>>) = {p \in all : \A q \in all : q[1] <= p[1] /\ p[2] <= q[2] => p = q}
  <2>1. all = {p \in (w1..w2) \X (w1..w2) : Lasts(p) /\ \A i \in p[1]..(p[2] - 1) : TakenAt(i) = {}}
    <3>1. ASSUME NEW p \in (w1..w2) \X (w1..w2)
          PROVE  p[1] < p[2] /\ (\A i \in p[1]..(p[2] - 1) : i \in free) <=>
                 Lasts(p) /\ \A i \in p[1]..(p[2] - 1) : TakenAt(i) = {}
      <4>1. \A i \in p[1]..(p[2] - 1) : i \in w1..(w2 - 1)
        <5>1. p[1] \in w1..w2 /\ p[2] \in w1..w2
          OBVIOUS
        <5> QED
          BY <5>1
      <4> QED
        BY <1>6, <4>1 DEF Lasts
    <3> QED
      BY <1>8, <3>1 DEF StretchesOf
  <2>2. <<w1, w2>>[1] = w1 /\ <<w1, w2>>[2] = w2
    OBVIOUS
  <2> QED
    BY <2>1, <2>2, Zenon DEF FreeStretches
<1>10. PICK Gaps : Gaps = {<<GapFrom(w1, B, j), GapTo(w2, m, A, j)>> : j \in 0..m}
  OBVIOUS
<1>11. DayOpenings(<<w1, w2>>, booked) = {p \in Gaps : p[2] - p[1] >= g}
  <2> DEFINE swept[k \in 0..Len(M)] ==
               IF k = 0 THEN [cursor |-> w1, found |-> {}] ELSE PassOver(swept[k - 1], M[k])
  <2>1. SweptOK(swept[Len(M)], w1, w2, m, A, B, m)
    BY <1>3, SweptIs
  <2>2. DayOpenings(<<w1, w2>>, booked) =
          {p \in swept[Len(M)].found \cup {<<swept[Len(M)].cursor, w2>>} : p[2] - p[1] >= plan.shortest}
    <3> DEFINE parts == mergedParts(<<w1, w2>>, booked)
               from == <<w1, w2>>[1]
               to == <<w1, w2>>[2]
               swept0[k \in 0..Len(parts)] ==
                 IF k = 0 THEN [cursor |-> from, found |-> {}] ELSE PassOver(swept0[k - 1], parts[k])
    <3>1. parts = M /\ from = w1 /\ to = w2
      BY <1>1
    <3>2. DayOpenings(<<w1, w2>>, booked) =
            {p \in swept0[Len(parts)].found \cup {<<swept0[Len(parts)].cursor, to>>} : p[2] - p[1] >= plan.shortest}
      BY Zenon DEF DayOpenings
    <3>3. swept0 = swept
      <4> HIDE DEF parts, from, to
      <4> QED
        BY <3>1, Zenon
    <3> HIDE DEF parts, from, to, swept0, swept
    <3> QED
      BY <3>1, <3>2, <3>3
  <2>3. swept[Len(M)].found = GapsPassed(w1, w2, m, A, B, m) /\ swept[Len(M)].cursor = GapFrom(w1, B, m)
    <3> HIDE DEF swept
    <3> QED
      BY <2>1 DEF SweptOK
  <2>4. GapsPassed(w1, w2, m, A, B, m) \cup {<<GapFrom(w1, B, m), w2>>} = Gaps
    <3>1. \A j : j \in 0..m <=> j \in 0..(m - 1) \/ j = m
      BY <1>5
    <3>2. GapTo(w2, m, A, m) = w2
      BY DEF GapTo
    <3> QED
      BY <1>10, <3>1, <3>2 DEF GapsPassed
  <2> HIDE DEF swept
  <2> QED
    BY <1>4, <2>2, <2>3, <2>4
<1>12. /\ \A j \in 0..m : GapFrom(w1, B, j) < GapTo(w2, m, A, j) =>
                /\ <<GapFrom(w1, B, j), GapTo(w2, m, A, j)>> \in all
                /\ \A q \in all : q[1] <= GapFrom(w1, B, j) /\ GapTo(w2, m, A, j) <= q[2] =>
                     q = <<GapFrom(w1, B, j), GapTo(w2, m, A, j)>>
       /\ \A p \in all : (\A q \in all : q[1] <= p[1] /\ p[2] <= q[2] => p = q) =>
                \E j \in 0..m : p = <<GapFrom(w1, B, j), GapTo(w2, m, A, j)>>
  BY <1>5, <1>7, <1>8, GapsAreStretches
<1>13. ASSUME NEW p \in Gaps, p[2] - p[1] >= g
       PROVE  p \in all /\ \A q \in all : q[1] <= p[1] /\ p[2] <= q[2] => p = q
  <2>1. PICK j \in 0..m : p = <<GapFrom(w1, B, j), GapTo(w2, m, A, j)>>
    BY <1>10
  <2>2. PICK c \in Int, e \in Int : c = GapFrom(w1, B, j) /\ e = GapTo(w2, m, A, j)
    BY <1>5, GapIs
  <2>3. p[1] = c /\ p[2] = e /\ c < e
    BY <1>4, <1>13, <2>1, <2>2
  <2> QED
    BY <1>12, <2>1, <2>2, <2>3
<1>14. ASSUME NEW p \in all, \A q \in all : q[1] <= p[1] /\ p[2] <= q[2] => p = q
       PROVE  p \in Gaps
  BY <1>10, <1>12, <1>14
<1> QED
  BY <1>4, <1>9, <1>11, <1>13, <1>14

\* An empty calendar.
LEMMA CalendarStarts == CalendarInit => CalendarInv
BY FS_EmptySet DEF CalendarInit, CalendarInv

\* A booking takes a free name, and a cancelled shoot keeps its own.
LEMMA CalendarSteps == CalendarInv /\ [CalendarNext]_calVars => CalendarInv'
<1> SUFFICES ASSUME CalendarInv, [CalendarNext]_calVars PROVE CalendarInv'
  OBVIOUS
<1>1. ASSUME NEW r \in SlotRows, BookSlot(r) PROVE CalendarInv'
  <2>1. CalRow(r) /\ r \in SlotRows
    BY <1>1 DEF SlotRows, CalRow, BookSlot
  <2>2. booked' = booked \cup {r} /\ zone' = zone /\ plan' = plan /\ \A s \in booked : s.id # r.id
    BY <1>1 DEF BookSlot, SlotsNamed
  <2>3. IsFiniteSet(booked')
    BY <2>2, FS_AddElement DEF CalendarInv
  <2>4. \A s, t \in booked' : s.id = t.id => s = t
    BY <2>2 DEF CalendarInv
  <2>5. \A s \in booked' : CalRow(s)
    BY <2>1, <2>2 DEF CalendarInv
  <2> QED
    BY <2>2, <2>3, <2>4, <2>5 DEF CalendarInv, CalRow
<1>2. ASSUME NEW id \in CalSlots, DropSlot(id) PROVE CalendarInv'
  <2>1. booked' \in SUBSET booked /\ zone' = zone /\ plan' = plan
    BY <1>2 DEF DropSlot
  <2>2. IsFiniteSet(booked')
    BY <2>1, FS_Subset DEF CalendarInv
  <2> QED
    BY <2>1, <2>2 DEF CalendarInv, CalRow
<1>3. ASSUME NEW s \in booked, CancelShoot(s) PROVE CalendarInv'
  <2>1. PICK t : t = [s EXCEPT !.cancelled = TRUE]
    OBVIOUS
  <2>2. CalRow(t) /\ t.id = s.id
    BY <2>1 DEF CalendarInv, CalRow
  <2>3. booked' = (booked \ {s}) \cup {t} /\ zone' = zone /\ plan' = plan
    BY <1>3, <2>1 DEF CancelShoot
  <2>4. IsFiniteSet(booked')
    BY <2>3, FS_AddElement, FS_RemoveElement DEF CalendarInv
  <2>5. \A x, y \in booked' : x.id = y.id => x = y
    BY <2>2, <2>3 DEF CalendarInv
  <2>6. \A x \in booked' : CalRow(x)
    BY <2>2, <2>3 DEF CalendarInv
  <2> QED
    BY <2>3, <2>4, <2>5, <2>6 DEF CalendarInv, CalRow
<1>4. ASSUME NEW a \in Availabilities, SetAvailability(a) PROVE CalendarInv'
  BY <1>4 DEF SetAvailability, CalendarInv, CalRow
<1>5. CASE UNCHANGED calVars
  BY <1>5 DEF calVars, CalendarInv, CalRow
<1> QED
  BY <1>1, <1>2, <1>3, <1>4, <1>5 DEF CalendarNext

\* The window of a day is two instants.
LEMMA WindowIs ==
  ASSUME CalendarInv, NEW d \in MonthDays
  PROVE  \E w1, w2 \in Int : ResolveDayWindow(d) = <<w1, w2>>
<1>1. ZoneOK /\ plan.from \in Int /\ plan.to \in Int
  BY ZoneIs, CalendarAssumption DEF CalendarInv, DayOff
<1>2. d \in Int /\ Hours \in Int
  BY CalendarAssumption DEF MonthDays
<1>3. ASSUME NEW h \in Int PROVE resolveLocalInstant(d, h) \in Int
  <2>1. PICK W \in Int : W = d * Hours + h
    BY <1>2
  <2> QED
    BY <1>1, <1>2, <2>1, ResolvedIs
<1> QED
  BY <1>1, <1>3 DEF ResolveDayWindow

\* Rows of slots that last, each of a name of its own, are enough for the calendar to agree.
LEMMA CalendarInvAgrees == CalendarInv => CalendarAgrees
<1> SUFFICES ASSUME CalendarInv PROVE CalendarAgrees
  OBVIOUS
<1>1. /\ MonthOverview(booked).conflicts = {d \in MonthDays : markConflicts(d, booked)}
      /\ MonthOverview(booked).holdDays =
           {d \in MonthDays : \E p \in Projections(d, Live(booked)) : p.slot.type = "hold"}
  BY DEF MonthOverview
<1>2. ASSUME NEW d \in MonthDays, Works(ResolveDayWindow(d))
      PROVE  DayOpenings(ResolveDayWindow(d), booked) =
               {p \in FreeStretches(ResolveDayWindow(d)) : p[2] - p[1] >= plan.shortest}
  <2>1. PICK w1 \in Int, w2 \in Int : ResolveDayWindow(d) = <<w1, w2>>
    BY WindowIs
  <2>2. plan # DayOff /\ w1 < w2
    BY <1>2, <2>1 DEF Works
  <2> QED
    BY <2>1, <2>2, Openings
<1>3. ASSUME NEW d \in MonthDays
      PROVE  d \in MonthOverview(booked).conflicts <=>
               \E s, t \in Live(booked) : t \in Overlaps(s, booked) /\
                 \E i \in ShownOn(d) : s \in TakenAt(i) /\ t \in TakenAt(i)
  BY <1>1, Conflicts
<1>4. ASSUME NEW d \in MonthDays, NEW s \in booked, NEW i \in ShownOn(d), s.start <= i, i < s.end
      PROVE  \E p \in ProjectSlotToDays(s, d) : p.start <= i /\ i < p.end
  <2>1. i \in Int /\ localDateIn(i) = d
    BY InstantsAre DEF ShownOn
  <2>2. ZoneOK /\ CalRow(s)
    BY ZoneIs DEF CalendarInv
  <2> QED
    BY <1>4, <2>1, <2>2, SegmentCovers
<1>5. ASSUME NEW d \in MonthDays
      PROVE  d \in MonthOverview(booked).holdDays <=>
               \E i \in ShownOn(d) : \E s \in TakenAt(i) : s.type = "hold"
  BY <1>1, HoldDays
<1>6. \A d : ShownOn(d) = {i \in (MonthStart - 1)..(MonthEnd + 1) : localDateIn(i) = d}
  BY DEF ShownOn
<1> QED
  BY <1>2, <1>3, <1>4, <1>5, <1>6 DEF CalendarAgrees

\* For any number of slots and days, any hours and any change of the zone: the openings of a day
\* are its longest free stretches, its conflicts are the overlaps that bookings were warned of, and
\* each instant of a slot is in its segment of the day (DayOpenings, markConflicts,
\* ProjectSlotToDays, findOverlaps).
THEOREM CalendarsAgree == CalendarSpec => []CalendarAgrees
<1>1. CalendarInit => CalendarInv
  BY CalendarStarts
<1>2. CalendarInv /\ [CalendarNext]_calVars => CalendarInv'
  BY CalendarSteps
<1>3. CalendarInv => CalendarAgrees
  BY CalendarInvAgrees
<1> QED
  BY <1>1, <1>2, <1>3, PTL DEF CalendarSpec


\* SegmentsStayInTheirDay, but for the last day of the month.
InnerSegmentsStay ==
  \A d \in MonthDays : d + 1 \in MonthDays =>
    \A p \in Projections(d, booked) : \A i \in p.start..(p.end - 1) : localDateIn(i) = d

\* The part of a slot on a day lies between the resolved ends of the day.
LEMMA SegmentIsClipped ==
  ASSUME ZoneOK, NEW s, CalRow(s), NEW d \in MonthDays, NEW p \in ProjectSlotToDays(s, d)
  PROVE  resolveLocalInstant(d, 0) <= p.start /\ p.end <= resolveLocalInstant(d + 1, 0)
<1>1. PICK f \in Int, g \in Int : f = resolveLocalInstant(d, 0) /\ g = resolveLocalInstant(d + 1, 0)
  BY DayStarts, DayEnds
<1>2. PICK x \in Int, y \in Int : x = s.start /\ y = s.end
  BY RowIs
<1>3. p.start = Latest(x, f) /\ p.end = Earlier(y, g)
  <2>1. p.start = Clip(s, f, g)[1] /\ p.end = Clip(s, f, g)[2]
    BY <1>1 DEF ProjectSlotToDays
  <2> QED
    BY <1>2, <2>1 DEF Clip
<1> QED
  BY <1>1, <1>2, <1>3 DEF Latest, Earlier

\* For any number of slots and days and any change of the zone: a segment has no instant that
\* clocks show on another day, unless its day is the last of the month (ProjectSlotToDays).
THEOREM SegmentsStayInside == CalendarSpec => []InnerSegmentsStay
<1>1. CalendarInv => InnerSegmentsStay
  <2> SUFFICES ASSUME CalendarInv, NEW d \in MonthDays, d + 1 \in MonthDays,
                      NEW p \in Projections(d, booked), NEW i \in p.start..(p.end - 1)
               PROVE  localDateIn(i) = d
    BY DEF InnerSegmentsStay
  <2>1. PICK s \in booked : p \in ProjectSlotToDays(s, d)
    BY DEF Projections
  <2>2. ZoneOK /\ CalRow(s)
    BY ZoneIs DEF CalendarInv
  <2>3. p.start \in Int /\ p.end \in Int
    BY <2>1, <2>2, SegmentFacts
  <2>4. i \in Int /\ p.start <= i /\ i < p.end
    BY <2>3
  <2>5. PICK f \in Int : f = resolveLocalInstant(d, 0) /\ \A j \in Int : f <= j <=> d * Hours <= local(j)
    BY <2>2, DayStarts
  <2>6. PICK g \in Int : g = resolveLocalInstant(d + 1, 0) /\ \A j \in Int : g <= j <=> (d + 1) * Hours <= local(j)
    BY <2>2, DayStarts
  <2>7. f <= p.start /\ p.end <= g
    BY <2>1, <2>2, <2>5, <2>6, SegmentIsClipped
  <2>8. d * Hours <= local(i) /\ ~((d + 1) * Hours <= local(i))
    BY <2>3, <2>4, <2>5, <2>6, <2>7
  <2>9. d \in Int /\ local(i) \in Int /\ (d + 1) * Hours \in Int
    BY <2>2, <2>4, LocalIs, CalendarAssumption DEF MonthDays
  <2>10. d <= localDateIn(i) /\ localDateIn(i) <= d /\ localDateIn(i) \in Int
    BY <2>2, <2>4, <2>8, <2>9, OnDay
  <2> QED
    BY <2>9, <2>10
<1> QED
  BY <1>1, CalendarStarts, CalendarSteps, PTL DEF CalendarSpec
===============================================================================
