------------------------------ MODULE TelegramIntake ------------------------------
(***************************************************************************)
(* What puts Telegram deliveries into the database: the pollers, which     *)
(* read updates and answer /start and /today, and the daily schedulers.    *)
(* One of each runs in every server, and two servers overlap when one      *)
(* replaces the other.  Telegram keeps an update until somebody asks for   *)
(* updates from an offset beyond it; a poller keeps its offset in memory.  *)
(* One account; time is counted in half days, and its timezone shifts its  *)
(* local time by half a day or not.                                        *)
(***************************************************************************)
EXTENDS Naturals, Sequences

CONSTANTS Hosts,                              \* the servers
          FirstChat,                          \* the chat bound at first, 0 for a new account
          MaxUpdates, MaxTokens, MaxHalfDays  \* bounds: updates sent, bind tokens, time

ASSUME IntakeAssumption ==
  FirstChat \in 0..2 /\ MaxUpdates \in Nat /\ MaxTokens \in Nat /\ MaxHalfDays \in Nat \ {0}

VARIABLES updates,    \* Telegram: the updates sent to the bot; ids are positions
          forgotten,  \* Telegram: updates up to this id are given out no more
          entitled,   \* the /today updates whose chat has been the account's ever since
          binding,    \* the account: chat and live bind token (0: none), tokens issued, timezone
          halfDays,   \* the clock
          queued,     \* <<source, source_key>> -> rows of telegram_deliveries
          poller,     \* host -> memory of its poller
          scheduler   \* host -> memory of its daily scheduler

intakeVars == <<updates, forgotten, entitled, binding, halfDays, queued, poller, scheduler>>

ChatIds  == {1, 2}
Tokens   == 1..MaxTokens
\* A /start carries a token.  What is neither command, or comes from a group, gets no answer,
\* like a /today from a chat that is not bound.
Commands == [cmd : {"/start"}, chat : ChatIds, token : Tokens]
              \cup [cmd : {"/today"}, chat : ChatIds, token : {0}]
Keys     == ({"command", "binding_ack"} \X (1..MaxUpdates)) \cup ({"daily"} \X (0..MaxHalfDays))

\* "next" is the update to handle, up to "last"; on "poll" there is none.
IdlePoller(offset) == [step |-> "poll", offset |-> offset, next |-> 0, last |-> 0]
IdleScheduler      == [step |-> "idle", day |-> 0]

\* The date and the half of the day in the account's timezone; digests are due in the second.
LocalDay(zone) == (halfDays + zone) \div 2
Due(zone)      == (halfDays + zone) % 2 = 1

Higher(a, b) == IF a > b THEN a ELSE b

\* INSERT ... ON CONFLICT (account_id, source, source_key) DO NOTHING.
InsertAlways(key) == [queued EXCEPT ![key] = @ + 1]
InsertOnce(key)   == [queued EXCEPT ![key] = 1]

IntakeInit ==
  /\ updates = <<>> /\ forgotten = 0 /\ entitled = {} /\ halfDays = 0
  /\ binding = [chat |-> FirstChat, token |-> 0, issued |-> 0, zone |-> 0]
  /\ queued = [k \in Keys |-> 0]
  /\ poller = [h \in Hosts |-> IdlePoller(0)]
  /\ scheduler = [h \in Hosts |-> IdleScheduler]

-----------------------------------------------------------------------------
(* People, and time. *)
SendUpdate ==
  /\ Len(updates) < MaxUpdates
  /\ \E u \in {c \in Commands : c.token <= binding.issued} :
       /\ updates' = Append(updates, u)
       /\ entitled' = entitled \cup
            {Len(updates) + 1 : x \in {y \in {u} : y.cmd = "/today" /\ y.chat = binding.chat}}
  /\ UNCHANGED <<forgotten, binding, halfDays, queued, poller, scheduler>>

Settings(b) ==
  /\ binding' = b
  /\ UNCHANGED <<updates, forgotten, entitled, halfDays, queued, poller, scheduler>>

\* A token takes the place of the one before.
IssueBindToken  ==
  /\ binding.issued < MaxTokens
  /\ Settings([binding EXCEPT !.token = binding.issued + 1, !.issued = @ + 1])
TokenExpires    == binding.token # 0 /\ Settings([binding EXCEPT !.token = 0])
ChangesTimezone == Settings([binding EXCEPT !.zone = 1 - @])

TimeGoesOn ==
  /\ halfDays < MaxHalfDays - 1 /\ halfDays' = halfDays + 1
  /\ UNCHANGED <<updates, forgotten, entitled, binding, queued, poller, scheduler>>

-----------------------------------------------------------------------------
(* PollOnce. *)
PollerSteps(h, p) ==
  /\ poller' = [poller EXCEPT ![h] = p]
  /\ UNCHANGED <<updates, entitled, halfDays, scheduler>>

\* GetUpdates tells Telegram the offset and gets what was sent from there on.
GetUpdates(h) ==
  LET p    == poller[h]
      upTo == Higher(forgotten, Higher(p.offset, 1) - 1)
  IN  /\ p.step = "poll"
      /\ forgotten' = upTo
      /\ PollerSteps(h, IF upTo = Len(updates) THEN p
                        ELSE [p EXCEPT !.step = "route", !.next = upTo + 1, !.last = Len(updates)])
      /\ UNCHANGED <<binding, queued>>

\* The update was handled for good: the offset passes it, and the next one has its turn.
Terminal(p) ==
  LET passed == [p EXCEPT !.offset = Higher(@, p.next + 1)]
  IN  IF p.next < p.last THEN [passed EXCEPT !.step = "route", !.next = p.next + 1]
      ELSE IdlePoller(passed.offset)

\* HandleUpdate returned an error: the rest of the updates is left for the next poll.
PassedOver(p) == IdlePoller(p.next + 1)
NotDurable(p) == IdlePoller(p.offset)

Current(h)      == updates[poller[h].next]
MatchesToken(u) == u.token = binding.token  \* BindTokenResolver
MatchesChat(u)  == binding.chat = u.chat    \* ChatAccountResolver

\* HandleUpdate finds the account by its token or its chat; other messages need no answer.
Route(h) ==
  /\ poller[h].step = "route"
  /\ PollerSteps(h,
       CASE Current(h).cmd = "/start" /\ MatchesToken(Current(h)) ->
              [poller[h] EXCEPT !.step = "bind"]
         [] Current(h).cmd = "/today" /\ MatchesChat(Current(h)) ->
              [poller[h] EXCEPT !.step = "claim"]
         [] OTHER -> Terminal(poller[h]))
  /\ UNCHANGED <<forgotten, binding, queued>>

\* The token may be gone meanwhile.  A chat that belongs to another account is refused and
\* keeps the token.
ConsumeAndBind(h) ==
  LET p == poller[h]
      u == Current(h)
  IN  /\ p.step = "bind" /\ poller' = [poller EXCEPT ![h] = Terminal(p)]
      /\ \/ /\ u.token = binding.token
            /\ binding' = [binding EXCEPT !.chat = u.chat, !.token = 0]
            /\ entitled' = {id \in entitled : updates[id].chat = u.chat}
            /\ queued' = InsertOnce(<<"binding_ack", p.next>>)
         \/ /\ ~MatchesToken(u) \/ ~MatchesChat(u)
            /\ UNCHANGED <<binding, entitled, queued>>
      /\ UNCHANGED <<updates, forgotten, halfDays, scheduler>>

\* The settings row is locked; another chat may have been bound since Route.
ClaimCommandIfCurrentChat(h) ==
  /\ poller[h].step = "claim"
  /\ queued' = IF MatchesChat(Current(h))
               THEN InsertOnce(<<"command", poller[h].next>>) ELSE queued
  /\ PollerSteps(h, Terminal(poller[h]))
  /\ UNCHANGED <<forgotten, binding>>

HandlingFails(h) ==
  /\ poller[h].step # "poll"
  /\ PollerSteps(h, NotDurable(poller[h]))
  /\ UNCHANGED <<forgotten, binding, queued>>

-----------------------------------------------------------------------------
(* RunOnce of the daily scheduler. *)
SchedulerSteps(h, d) ==
  /\ scheduler' = [scheduler EXCEPT ![h] = d]
  /\ UNCHANGED <<updates, forgotten, entitled, binding, halfDays, poller>>

\* DailyDue, DailyExists and EnsureScan: the digest of the day is due, there is none, and the
\* scan it needs has run.
DailyDue(h) ==
  LET day == LocalDay(binding.zone)
  IN  /\ scheduler[h].step = "idle" /\ binding.chat # 0 /\ Due(binding.zone)
      /\ queued[<<"daily", day>>] = 0
      /\ SchedulerSteps(h, [step |-> "enqueue", day |-> day])
      /\ UNCHANGED queued

EnqueueDaily(h) ==
  /\ scheduler[h].step = "enqueue"
  /\ queued' = InsertOnce(<<"daily", scheduler[h].day>>)
  /\ SchedulerSteps(h, IdleScheduler)

Restart(h) ==
  /\ poller' = [poller EXCEPT ![h] = IdlePoller(0)]
  /\ scheduler' = [scheduler EXCEPT ![h] = IdleScheduler]
  /\ UNCHANGED <<updates, forgotten, entitled, binding, halfDays, queued>>

IntakeNext ==
  \/ SendUpdate \/ IssueBindToken \/ TokenExpires \/ ChangesTimezone \/ TimeGoesOn
  \/ \E h \in Hosts :
       \/ GetUpdates(h) \/ Route(h) \/ ConsumeAndBind(h) \/ ClaimCommandIfCurrentChat(h)
       \/ HandlingFails(h) \/ DailyDue(h) \/ EnqueueDaily(h) \/ Restart(h)

IntakeSpec == IntakeInit /\ [][IntakeNext]_intakeVars

IntakeTypeOK ==
  /\ updates \in Seq(Commands) /\ Len(updates) <= MaxUpdates
  /\ forgotten \in 0..Len(updates) /\ entitled \subseteq DOMAIN updates
  /\ binding \in [chat : {0} \cup ChatIds, token : {0} \cup Tokens,
                 issued : 0..MaxTokens, zone : {0, 1}]
  /\ halfDays \in 0..MaxHalfDays /\ queued \in [Keys -> Nat]
  /\ poller \in [Hosts -> [step : {"poll", "route", "bind", "claim"},
                           offset : 0..(MaxUpdates + 1), next : 0..MaxUpdates,
                           last : 0..MaxUpdates]]
  /\ scheduler \in [Hosts -> [step : {"idle", "enqueue"}, day : 0..MaxHalfDays]]

-----------------------------------------------------------------------------
\* Every request is answered, and once: Telegram does not forget a /today from the chat of the
\* account before its delivery is stored, though its handling fails or its server restarts in
\* between; and neither an update that is read again nor a second scheduler of the day adds a
\* second delivery (digest/poller.go, PollOnce; binding_repository.go,
\* ClaimCommandIfCurrentChat; daily.go, RunOnce).
AnsweredOnce ==
  /\ \A id \in entitled : id <= forgotten => queued[<<"command", id>>] = 1
  /\ \A k \in Keys : queued[k] <= 1
===============================================================================
