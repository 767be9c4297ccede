---------------------------- MODULE DigestDelivery ----------------------------
(***************************************************************************)
(* The delivery of Telegram digests for one account                        *)
(* (backend/internal/reminder/digest).  Rows of telegram_deliveries are    *)
(* claimed under a lease by the sender loop of a server process, a call    *)
(* permit is taken in one transaction with the immutable intent that names *)
(* recipient and payload, the physical call is made outside every          *)
(* transaction, and its result is written back in two further              *)
(* transactions.  The poller of the same processes consumes bind tokens    *)
(* and moves the account to another chat meanwhile.                        *)
(*                                                                         *)
(* Every timestamp is kept as the time REMAINING until it, saturating at   *)
(* 0: a lease "until > now" is lease > 0.  Tick lets one unit pass.  The   *)
(* random claim and attempt ids are represented by the server that drew    *)
(* them: a server remembers at most one of each and forgets both when its  *)
(* attempt ends or the process dies, so an id never matches a later one.   *)
(***************************************************************************)
EXTENDS Naturals, Sequences, FiniteSets

CONSTANTS
    Servers,          \* processes, each with one sender loop and one poller
    Business,         \* deliveries with source daily or command
    Acks,             \* deliveries with source binding_ack
    Chats,            \* Telegram chats the account may be bound to
    None,             \* SQL NULL: no chat, no claim, no permit, no job
    FirstChat,        \* the chat bound at first, None for a new account
    Lease,            \* claimLease
    AttemptTimeout,   \* attemptTimeout
    TelegramTimeout,  \* telegramTimeout
    ResultMargin,     \* resultMargin
    CleanupTimeout,   \* the two cleanup transactions after a call
    PermitSpan,       \* callTechnicalLease: "interval '5 seconds'"
    Backoff,          \* recipientBackoff
    MaxAttempts,      \* attempts at which a delivery fails for good
    Delays,           \* the retry delays, one per failed attempt but the last
    RetryAfters,      \* retry_after values Telegram may ask for
    MaxTokens,        \* BOUND: bind tokens issued
    MaxIntents,       \* BOUND: intent rows of a delivery after which the payload stays
    MaxFaults         \* BOUND: crashes, lost results, failed or slow steps

Deliveries == Business \cup Acks
Reserve == TelegramTimeout + ResultMargin

ASSUME ConstantsAssumption ==
    /\ None \notin Servers \cup Chats \cup Business \cup Acks
    /\ Business \cap Acks = {}
    /\ FirstChat \in Chats \cup {None}
    /\ AttemptTimeout \in Nat /\ TelegramTimeout \in Nat
    /\ ResultMargin \in Nat /\ CleanupTimeout \in Nat
    /\ Lease \in Nat /\ PermitSpan \in Nat /\ Backoff \in Nat
    /\ MaxAttempts \in Nat /\ MaxTokens \in Nat
    /\ MaxIntents \in Nat /\ MaxFaults \in Nat
    /\ Delays \in Seq(Nat) /\ Len(Delays) = MaxAttempts - 1 /\ MaxAttempts >= 1
    /\ RetryAfters \subseteq Nat /\ RetryAfters # {}
    /\ AttemptTimeout + CleanupTimeout < Lease

VARIABLES
    row,       \* telegram_deliveries
    intents,   \* plan_assignment_reminder_digest_intents: revision -> recipient
    permit,    \* the row with outcome 'calling' of delivery_send_attempt_permits
    chat,      \* settings.telegram_chat_id
    rev,       \* settings.telegram_binding_revision
    token,     \* telegram_bind_tokens holds an unexpired, unconsumed token
    issued,    \* tokens issued so far
    worker,    \* the sender loop of each server (process memory)
    paused,    \* IntegrationState of each server: time left suspended
    accepted,  \* how often Telegram has accepted a delivery's message
    faults     \* faults so far

dbVars == <<row, intents, permit, chat, rev, token>>
vars == <<row, intents, permit, chat, rev, token, issued, worker, paused,
          accepted, faults>>

Statuses == {"absent", "pending", "sent", "failed", "superseded"}
PreCall == {"claimed", "begun", "authorized", "permitted", "callable", "releasing"}
InGate == {"begun", "authorized", "permitted", "callable", "sending",
           "settling", "finishing"}
Stages == PreCall \cup InGate \cup {"idle"}
Results == {None, "sent", "error", "auth", "canceled"}

Row == [status: Statuses, attempts: 0..MaxAttempts, nextIn: Nat,
        claim: Servers \cup {None}, lease: Nat, active: Nat]
Intent == [chat: Chats, rev: Nat]
Permit == [by: Servers \cup {None}, rev: Nat, left: Nat]
Worker == [at: Stages, job: Deliveries \cup {None}, left: Nat, clock: Nat,
           to: Intent \cup {None}, result: Results]

\* The rows of telegram_deliveries, the intents, the permits and the binding
\* keep the columns and CHECKs of their tables, and the senders their ranges.
TypeOK ==
    /\ row \in [Deliveries -> Row]
    /\ intents \in [Deliveries -> Seq(Intent)]
    /\ permit \in [Deliveries -> Permit]
    /\ chat \in Chats \cup {None}
    /\ rev \in Nat
    /\ token \in BOOLEAN
    /\ issued \in Nat
    /\ worker \in [Servers -> Worker]
    /\ paused \in [Servers -> Nat]
    /\ accepted \in [Deliveries -> Nat]
    /\ faults \in Nat

AbsentRow == [status |-> "absent", attempts |-> 0, nextIn |-> 0,
              claim |-> None, lease |-> 0, active |-> 0]
NoPermit == [by |-> None, rev |-> 0, left |-> 0]
IdleWorker == [at |-> "idle", job |-> None, left |-> 0, clock |-> 0,
               to |-> None, result |-> None]

Init ==
    /\ row = [d \in Deliveries |-> AbsentRow]
    /\ intents = [d \in Deliveries |-> <<>>]
    /\ permit = [d \in Deliveries |-> NoPermit]
    /\ chat = FirstChat /\ rev = 1
    /\ token = FALSE /\ issued = 0
    /\ worker = [p \in Servers |-> IdleWorker]
    /\ paused = [p \in Servers |-> 0]
    /\ accepted = [d \in Deliveries |-> 0]
    /\ faults = 0

AtLeast(a, b) == IF a < b THEN b ELSE a
AtMost(a, b) == IF a < b THEN a ELSE b
Less1(n) == IF n = 0 THEN 0 ELSE n - 1

Fault == faults < MaxFaults /\ faults' = faults + 1
NoFault == UNCHANGED faults

Pending(d) == row[d].status = "pending"
LiveCall(d) == permit[d].by # None /\ permit[d].left > 0
Holds(p, d) == Pending(d) /\ row[d].claim = p
Bound == [chat |-> chat, rev |-> rev]

\* The row of d after its claim was given up or taken away.
Unclaimed(r) == [r EXCEPT !.claim = None, !.lease = 0]
Goto(p, stage) == worker' = [worker EXCEPT ![p].at = stage]

-----------------------------------------------------------------------------
(* Enqueueing: DailyScheduler.RunOnce and ClaimCommandIfCurrentChat insert a *)
(* pending row once per source key, and only for a bound account.            *)

Enqueue(d) ==
    /\ d \in Business /\ row[d].status = "absent"
    /\ chat # None
    /\ row' = [row EXCEPT ![d] = [AbsentRow EXCEPT !.status = "pending"]]
    /\ UNCHANGED <<intents, permit, chat, rev, token, issued, worker, paused,
                   accepted, faults>>

-----------------------------------------------------------------------------
(* Binding: the deep link token and the poller's /start handler.             *)

\* IssueBindToken upserts the account's one token row; an older token dies.
IssueToken ==
    /\ issued < MaxTokens
    /\ issued' = issued + 1
    /\ token' = TRUE
    /\ UNCHANGED <<row, intents, permit, chat, rev, worker, paused, accepted, faults>>

\* expires_at passes.
TokenExpires ==
    /\ token
    /\ token' = FALSE
    /\ UNCHANGED <<row, intents, permit, chat, rev, issued, worker, paused,
                   accepted, faults>>

\* supersedeActiveIntentsForBusinessDeliveries.
RewoundKeepingIntent(r) == [Unclaimed(r) EXCEPT !.nextIn = 0]
Rewound(r) == [Unclaimed(r) EXCEPT !.active = 0, !.nextIn = 0]

\* The rows after ConsumeAndBind; `material` when the chat changes.
ReboundRowsAllSuperseded(material, ack) ==
    [d \in Deliveries |->
        IF d = ack THEN [AbsentRow EXCEPT !.status = "pending"]
        ELSE IF Pending(d) THEN [Unclaimed(row[d]) EXCEPT !.status = "superseded"]
        ELSE row[d]]
ReboundRows(material, ack) ==
    [d \in Deliveries |->
        IF d = ack THEN [AbsentRow EXCEPT !.status = "pending"]
        ELSE IF ~Pending(d) THEN row[d]
        ELSE IF d \in Acks THEN [Unclaimed(row[d]) EXCEPT !.status = "superseded"]
        ELSE IF material THEN Rewound(row[d]) ELSE row[d]]

\* waitOutCallingPermitsInScope: expired calling permits are superseded, and
\* one still live aborts the transaction (the poller retries the update).
SupersedeExpiredPermits ==
    permit' = [d \in Deliveries |-> IF LiveCall(d) THEN permit[d] ELSE NoPermit]
WaitOutPermits ==
    /\ \A d \in Deliveries : ~LiveCall(d)
    /\ permit' = [d \in Deliveries |-> NoPermit]

\* The revision counts changes of a bound chat, not the first binding.
NextBindingRevision == IF chat = None THEN rev ELSE rev + 1

\* RecipientGate: within one process no bind runs inside an attempt's gate.
NoGate(p) == TRUE
GateFree(p) == worker[p].at \notin InGate

\* HandleStart on server p: under p's own recipient gate, ConsumeAndBind
\* consumes the token, moves the binding and acknowledges with a new delivery.
Rebind(p, c) ==
    /\ token /\ GateFree(p)
    /\ \E ack \in Acks :
        /\ row[ack].status = "absent"
        /\ row' = ReboundRows(chat # c, ack)
    /\ token' = FALSE
    /\ chat' = c
    /\ IF chat = c
       THEN UNCHANGED <<permit, rev>>
       ELSE WaitOutPermits /\ rev' = NextBindingRevision
    /\ UNCHANGED <<intents, issued, worker, paused, accepted, faults>>

-----------------------------------------------------------------------------
(* One attempt of the sender loop (SendNext).                                *)

DueWhoeverHolds(d) == Pending(d) /\ row[d].nextIn = 0
DueUnclaimed(d) == DueWhoeverHolds(d) /\ row[d].claim = None
Due(d) == /\ Pending(d) /\ row[d].nextIn = 0
          /\ row[d].claim = None \/ row[d].lease = 0

\* ClaimDueAttempt: any due row may be the first by next_attempt_at.
Claim(p, d) ==
    /\ worker[p].at = "idle" /\ paused[p] = 0
    /\ Due(d)
    /\ row' = [row EXCEPT ![d].claim = p, ![d].lease = Lease]
    /\ worker' = [worker EXCEPT ![p] =
            [IdleWorker EXCEPT !.at = "claimed", !.job = d, !.left = AttemptTimeout]]
    /\ UNCHANGED <<intents, permit, chat, rev, token, issued, paused, accepted, faults>>

\* Inside the gate the claim is reloaded.  A lost claim ends the attempt with
\* nothing written; else BeginCurrentCall notes method_started.
Reload(p) ==
    LET d == worker[p].job IN
    /\ worker[p].at = "claimed"
    /\ worker' = [worker EXCEPT ![p] =
            IF Holds(p, d) THEN [@ EXCEPT !.at = "begun", !.clock = PermitSpan]
                           ELSE IdleWorker]
    /\ UNCHANGED <<dbVars, issued, paused, accepted, faults>>

Reusable(d) == row[d].active # 0 /\ intents[d][row[d].active] = Bound

\* The active pointer is the only source of the next revision.
NextRevision(d) == row[d].active + 1
RevisionFree(d) == NextRevision(d) > Len(intents[d])

\* What the authorizing transaction demands of claim and permits.
Authorizable(p, d) ==
    /\ Holds(p, d) /\ row[d].lease > 0
    /\ ~LiveCall(d)

\* An unchanged payload for the same recipient reuses the active intent; any
\* change inserts the next revision and moves the pointer.
ReuseIntent(d) == Reusable(d) /\ UNCHANGED <<row, intents>>

InsertIntent(d) ==
    /\ RevisionFree(d)
    /\ Reusable(d) => Len(intents[d]) < MaxIntents
    /\ intents' = [intents EXCEPT ![d] = Append(@, Bound)]
    /\ row' = [row EXCEPT ![d].active = NextRevision(d)]

\* BeginCurrentCall commits: PrepareCurrentIntentInScope and the guarded
\* insert of a calling permit.  `span` is the least of the technical lease
\* and the remaining validity of the planning items in the payload.
Authorize(p) ==
    LET d == worker[p].job IN
    /\ worker[p].at = "begun"
    /\ Authorizable(p, d)
    /\ ReuseIntent(d) \/ InsertIntent(d)
    /\ \E span \in 1..PermitSpan :
        /\ permit' = [permit EXCEPT ![d] = [by |-> p, rev |-> rev, left |-> span]]
        /\ worker' = [worker EXCEPT ![p].at = "authorized", ![p].to = Bound,
                                    ![p].clock = AtMost(@, span)]
    /\ UNCHANGED <<chat, rev, token, issued, paused, accepted, faults>>

\* BeginCurrentCall fails and rolls back: a guard does not hold, or the
\* revision computed from the pointer already has a row.
AuthorizeFails(p) ==
    LET d == worker[p].job IN
    /\ worker[p].at = "begun"
    /\ ~Authorizable(p, d) \/ ~(Reusable(d) \/ RevisionFree(d))
    /\ Goto(p, "releasing")
    /\ UNCHANGED <<dbVars, issued, paused, accepted, faults>>

\* BeginCurrentCall returns: what is left of both budgets is frozen in the
\* permit handed to the sender.  An exhausted one closes the call boundary
\* and leaves the calling row behind.
ReturnPermit(p) ==
    /\ worker[p].at = "authorized"
    /\ Goto(p, IF worker[p].clock > 0 THEN "permitted" ELSE "releasing")
    /\ UNCHANGED <<dbVars, issued, paused, accepted, faults>>

\* AssertCallableClaim, a read of its own, with the local deadline check.
AssertCallable(p) ==
    LET d == worker[p].job IN
    /\ worker[p].at = "permitted"
    /\ Goto(p, IF /\ worker[p].left >= Reserve
                  /\ Holds(p, d) /\ row[d].lease >= AtLeast(1, Reserve)
               THEN "callable" ELSE "releasing")
    /\ UNCHANGED <<dbVars, issued, paused, accepted, faults>>

\* The second local check, then SendMessage with the frozen budget as timeout.
StartCall(p) ==
    /\ worker[p].at = "callable"
    /\ worker' = [worker EXCEPT ![p] =
            IF @.left >= Reserve
            THEN [@ EXCEPT !.at = "sending",
                           !.clock = AtMost(TelegramTimeout, worker[p].clock)]
            ELSE [@ EXCEPT !.at = "releasing"]]
    /\ UNCHANGED <<dbVars, issued, paused, accepted, faults>>

-----------------------------------------------------------------------------
(* The answer of Telegram and what is written about it.                      *)

Accept(d) == accepted' = [accepted EXCEPT ![d] = @ + 1]

Answered(p, result) ==
    worker' = [worker EXCEPT ![p].at = "settling", ![p].result = result,
                             ![p].clock = CleanupTimeout]

\* SendMessage succeeds.
AnswerSent(p) ==
    /\ worker[p].at = "sending"
    /\ Accept(worker[p].job) /\ Answered(p, "sent")
    /\ UNCHANGED <<dbVars, issued, paused, faults>>

\* Telegram refuses the message, or the request never arrives.
AnswerRefused(p) ==
    /\ worker[p].at = "sending"
    /\ Answered(p, "error")
    /\ UNCHANGED <<dbVars, issued, paused, accepted, faults>>

\* The message is accepted but the answer is a timeout or a broken
\* connection, which classifyTransport reports like any other failure.
AnswerLost(p) ==
    /\ worker[p].at = "sending"
    /\ Fault
    /\ Accept(worker[p].job) /\ Answered(p, "error")
    /\ UNCHANGED <<dbVars, issued, paused>>

\* 401/403: the whole integration of this process is suspended.
AnswerInvalidAuth(p) ==
    /\ worker[p].at = "sending"
    /\ Fault
    /\ Answered(p, "auth")
    /\ paused' = [paused EXCEPT ![p] = AtLeast(@, Backoff)]
    /\ UNCHANGED <<dbVars, issued, accepted>>

\* Shutdown cancels the call; the message may have been accepted.
AnswerCanceled(p) ==
    /\ worker[p].at = "sending"
    /\ Fault
    /\ Accept(worker[p].job) \/ UNCHANGED accepted
    /\ Answered(p, "canceled")
    /\ UNCHANGED <<dbVars, issued, paused>>

\* finalizePermit: closes the permit if it is still this attempt's.  A
\* canceled attempt ends here and keeps its claim until the lease expires.
SettlePermit(p) ==
    LET d == worker[p].job IN
    /\ worker[p].at = "settling"
    /\ permit' = [permit EXCEPT ![d] = IF @.by = p THEN NoPermit ELSE @]
    /\ worker' = [worker EXCEPT ![p] = IF @.result = "canceled" THEN IdleWorker
                                       ELSE [@ EXCEPT !.at = "finishing"]]
    /\ UNCHANGED <<row, intents, chat, rev, token, issued, paused, accepted, faults>>

\* The error of finalizePermit is ignored.
SettleLost(p) ==
    /\ worker[p].at = "settling"
    /\ Fault
    /\ worker' = [worker EXCEPT ![p] = IF @.result = "canceled" THEN IdleWorker
                                       ELSE [@ EXCEPT !.at = "finishing"]]
    /\ UNCHANGED <<dbVars, issued, paused, accepted>>

\* FinalizeAttempt of an error: the fourth one fails the delivery for good.
Failed(r, after) ==
    LET n == r.attempts + 1 IN
    IF n >= MaxAttempts
    THEN [Unclaimed(r) EXCEPT !.attempts = n, !.status = "failed"]
    ELSE [Unclaimed(r) EXCEPT !.attempts = n, !.nextIn = AtLeast(Delays[n], after)]

Finished(r, result, after) ==
    CASE result = "sent"  -> [Unclaimed(r) EXCEPT !.status = "sent"]
      [] result = "error" -> Failed(r, after)
      [] result = "auth"  -> [Unclaimed(r) EXCEPT !.nextIn = Backoff]

\* A result is written only by the claim's holder, an error or a success only
\* under a live lease (FinalizeAttempt); the release after invalid_auth does
\* not look at the lease (ReleaseClaim).
MayFinishEarly(p, d) == Holds(p, d) /\ row[d].lease > AttemptTimeout + CleanupTimeout
MayFinish(p, d) ==
    Holds(p, d) /\ (row[d].lease > 0 \/ worker[p].result = "auth")

Finish(p) ==
    LET d == worker[p].job IN
    /\ worker[p].at = "finishing"
    /\ \E after \in RetryAfters :
         row' = [row EXCEPT ![d] =
                    IF MayFinish(p, d) THEN Finished(@, worker[p].result, after) ELSE @]
    /\ worker' = [worker EXCEPT ![p] = IdleWorker]
    /\ UNCHANGED <<intents, permit, chat, rev, token, issued, paused, accepted, faults>>

\* Both tries of finalize fail: the claim stays until its lease expires.
FinishLost(p) ==
    /\ worker[p].at = "finishing"
    /\ Fault
    /\ worker' = [worker EXCEPT ![p] = IdleWorker]
    /\ UNCHANGED <<dbVars, issued, paused, accepted>>

\* ReleaseClaim after an attempt that never called Telegram: due again now.
Release(p) ==
    LET d == worker[p].job IN
    /\ worker[p].at = "releasing"
    /\ row' = [row EXCEPT ![d] =
                  IF Holds(p, d) THEN [Unclaimed(@) EXCEPT !.nextIn = 0] ELSE @]
    /\ worker' = [worker EXCEPT ![p] = IdleWorker]
    /\ UNCHANGED <<intents, permit, chat, rev, token, issued, paused, accepted, faults>>

\* A database error, a projection that is not fresh or the attempt timeout
\* before the call: the attempt goes to its release.
GiveUp(p) ==
    /\ worker[p].at \in {"claimed", "begun", "permitted"}
    /\ Fault
    /\ Goto(p, "releasing")
    /\ UNCHANGED <<dbVars, issued, paused, accepted>>

\* The process dies, or its release fails: only database rows survive.  A
\* message on the wire may still be accepted.
Crash(p) ==
    /\ worker[p].at # "idle"
    /\ Fault
    /\ \/ worker[p].at = "sending" /\ Accept(worker[p].job)
       \/ UNCHANGED accepted
    /\ worker' = [worker EXCEPT ![p] = IdleWorker]
    /\ paused' = [paused EXCEPT ![p] = 0]
    /\ UNCHANGED <<dbVars, issued>>

-----------------------------------------------------------------------------
(* Time.  The context timeouts end every stage in time: attemptCtx before    *)
(* the call, sendCtx during it, the cleanup contexts after it.  A unit that  *)
(* passes inside a stage other than the call is a slow step and counts as a  *)
(* fault.                                                                    *)

CountsDown == {"begun", "authorized", "sending", "settling", "finishing"}

MayWait(p) ==
    /\ worker[p].at \in PreCall => worker[p].left > 0
    /\ worker[p].at \in {"sending", "settling", "finishing"} => worker[p].clock > 0

Older(w) == [w EXCEPT !.left = Less1(@),
                      !.clock = IF w.at \in CountsDown THEN Less1(@) ELSE @]

Tick ==
    /\ \A p \in Servers : MayWait(p)
    /\ IF \A p \in Servers : worker[p].at \in {"idle", "sending"} THEN NoFault ELSE Fault
    /\ row' = [d \in Deliveries |->
                  [row[d] EXCEPT !.nextIn = Less1(@), !.lease = Less1(@)]]
    /\ permit' = [d \in Deliveries |-> [permit[d] EXCEPT !.left = Less1(@)]]
    /\ worker' = [p \in Servers |-> Older(worker[p])]
    /\ paused' = [p \in Servers |-> Less1(paused[p])]
    /\ UNCHANGED <<intents, chat, rev, token, issued, accepted>>

-----------------------------------------------------------------------------

Attempt(p) ==
    \/ \E d \in Deliveries : Claim(p, d)
    \/ Reload(p) \/ Authorize(p) \/ AuthorizeFails(p) \/ ReturnPermit(p)
    \/ AssertCallable(p) \/ StartCall(p)
    \/ SettlePermit(p) \/ Finish(p) \/ Release(p)

Answer(p) == AnswerSent(p) \/ AnswerRefused(p) \/ AnswerLost(p)
             \/ AnswerInvalidAuth(p) \/ AnswerCanceled(p)

Failure(p) == SettleLost(p) \/ FinishLost(p) \/ GiveUp(p) \/ Crash(p)

Next ==
    \/ \E d \in Deliveries : Enqueue(d)
    \/ IssueToken \/ TokenExpires
    \/ \E p \in Servers, c \in Chats : Rebind(p, c)
    \/ \E p \in Servers : Attempt(p) \/ Answer(p) \/ Failure(p)
    \/ Tick

Spec == Init /\ [][Next]_vars

\* The sender loop runs every second for as long as its process does, and
\* every call ends by its timeout.  The clock is strongly fair: Tick is not
\* enabled at every instant of an attempt (a timeout may be due), but between
\* two attempts it always is, and RunOnce makes at most
\* maxDeliveriesPerAccountTick of them before it waits for the next second.
Fairness ==
    /\ \A p \in Servers : WF_vars(Attempt(p)) /\ WF_vars(Answer(p))
    /\ SF_vars(Tick)

FairSpec == Spec /\ Fairness

-----------------------------------------------------------------------------
(* Safety.                                                                   *)

\* A calling permit that may still start a call names the current binding:
\* the rebind transaction waits until every permit of the old recipient has
\* ended or expired (waitOutCallingPermitsInScope), and the authorizing
\* transaction takes the binding it finds under the settings lock.
LivePermitsAreCurrent ==
    \A d \in Deliveries : LiveCall(d) => chat # None /\ permit[d].rev = rev

\* The active pointer of a pending daily or command delivery names an existing
\* intent for the current binding, so that no retry can reuse the text or the
\* chat of an earlier binding (supersedeActiveIntentsForBusinessDeliveries).
PointersAreCurrent ==
    \A d \in Business : Pending(d) /\ row[d].active # 0 =>
        /\ row[d].active \in DOMAIN intents[d]
        /\ intents[d][row[d].active] = Bound

\* Two servers are never on the wire with one delivery for the same recipient:
\* the claim's lease outlives any call made under it (lease 30s, attempt 20s),
\* and only a change of the binding frees a claimed row earlier.
NoOverlappingCalls ==
    \A p, q \in Servers :
        /\ p # q
        /\ worker[p].at = "sending" /\ worker[q].at = "sending"
        /\ worker[p].job = worker[q].job
        => worker[p].to # worker[q].to

\* At-least-once delivery with an account of the duplicates: a message is
\* accepted a second time only after a crash, a lost answer or a lost result.
DuplicateNeedsFault ==
    \A d \in Deliveries : accepted[d] <= 1 + faults

\* No physical call begins towards a chat the account has left (SendNext under
\* the recipient gate that HandleStart takes too).
NoCallToOldChat ==
    [][\A p \in Servers :
         worker[p].at # "sending" /\ worker'[p].at = "sending"
         => worker[p].to.chat = chat]_vars

\* A physical call begins only while the permit it was authorized with may
\* still start one: "the local queueing after the return goes on consuming the
\* budget" (plan-assignment-reminders-design.md).
CallsStartInTime ==
    [][\A p \in Servers :
         worker[p].at # "sending" /\ worker'[p].at = "sending"
         => permit[worker[p].job].by = p /\ LiveCall(worker[p].job)]_vars

\* What the deliveries promise to the outside, whatever happens inside.
Contract == INSTANCE DeliveryContract WITH
    status <- [d \in Deliveries |-> row[d].status]
ImplementsContract == Contract!Spec

-----------------------------------------------------------------------------
(* Liveness.                                                                 *)

\* With finitely many faults every delivery is settled in the end.
EventuallySettled ==
    \A d \in Deliveries : Pending(d) ~> ~Pending(d)

\* "Clear active pointer on pending daily/command deliveries so next attempt
\* rebuilds intent" (supersedeActiveIntentsForBusinessDeliveries).
RebindRebuildsIntent ==
    \A d \in Business :
        Pending(d) /\ row[d].active = 0 ~> ~Pending(d) \/ row[d].active # 0
=============================================================================
