------------------------- MODULE DigestDeliveryProofs -------------------------
(***************************************************************************)
(* Proofs about DigestDelivery, for every number of servers, deliveries    *)
(* and chats, every timeout and every bound.                               *)
(***************************************************************************)
EXTENDS DigestDelivery, SequenceTheorems, TLAPS

\* A busy sender loop works on a delivery, and knows a result once Telegram
\* has answered.
WorkersBusy ==
    \A p \in Servers :
        /\ worker[p].at # "idle" => worker[p].job \in Deliveries
        /\ worker[p].at = "settling"
           => worker[p].result \in {"sent", "error", "auth", "canceled"}
        /\ worker[p].at = "finishing" => worker[p].result \in {"sent", "error", "auth"}

\* Rows exist only for an account that has been bound, and it stays bound.
RowsNeedBinding ==
    chat = None => \A d \in Deliveries : row[d].status = "absent"

\* A pending delivery has a retry left.
AttemptsLeft ==
    \A d \in Deliveries : Pending(d) => row[d].attempts < MaxAttempts

Typing == TypeOK /\ WorkersBusy /\ RowsNeedBinding /\ AttemptsLeft

-----------------------------------------------------------------------------
\* What the helpers on numbers, rows and workers return.

LEMMA NumberTypes ==
    /\ \A a, b \in Nat : AtLeast(a, b) \in Nat /\ AtMost(a, b) \in Nat
    /\ \A n \in Nat : Less1(n) \in Nat /\ (Less1(n) > 0 => n > 0)
BY DEF AtLeast, AtMost, Less1

LEMMA RowTypes ==
    ASSUME NEW r \in Row
    PROVE  /\ Unclaimed(r) \in Row
           /\ Unclaimed(r).attempts = r.attempts /\ Unclaimed(r).status = r.status
           /\ Rewound(r) \in Row
           /\ Rewound(r).attempts = r.attempts /\ Rewound(r).status = r.status
           /\ [Unclaimed(r) EXCEPT !.status = "superseded"] \in Row
           /\ [Unclaimed(r) EXCEPT !.nextIn = 0] \in Row
BY ConstantsAssumption DEF Row, Statuses, Unclaimed, Rewound

LEMMA MaxAttemptsPositive == MaxAttempts \in Nat /\ MaxAttempts >= 1
BY ConstantsAssumption

LEMMA FreshRow ==
    /\ AbsentRow \in Row
    /\ [AbsentRow EXCEPT !.status = "pending"] \in Row
    /\ [AbsentRow EXCEPT !.status = "pending"].attempts < MaxAttempts
BY MaxAttemptsPositive DEF AbsentRow, Row, Statuses

LEMMA FailsForGood ==
    ASSUME NEW u \in Row, NEW n \in 0..MaxAttempts
    PROVE  /\ [u EXCEPT !.attempts = n, !.status = "failed"] \in Row
           /\ [u EXCEPT !.attempts = n, !.status = "failed"].status = "failed"
BY DEF Row, Statuses

\* An error result leaves a row that is failed, or pending with a retry left.
LEMMA FailedType ==
    ASSUME NEW r \in Row, r.status = "pending", r.attempts < MaxAttempts,
           NEW after \in Nat
    PROVE  /\ Failed(r, after) \in Row
           /\ \/ Failed(r, after).status = "failed"
              \/ /\ Failed(r, after).status = "pending"
                 /\ Failed(r, after).attempts < MaxAttempts
<1>1. PICK n \in Nat : n = r.attempts + 1
  BY DEF Row
<1>2. n \in 1..MaxAttempts /\ n \in 0..MaxAttempts
  BY <1>1, MaxAttemptsPositive DEF Row
<1>3. Unclaimed(r) \in Row /\ Unclaimed(r).status = "pending"
  BY RowTypes
<1>4. CASE n >= MaxAttempts
  <2>1. Failed(r, after) = [Unclaimed(r) EXCEPT !.attempts = n, !.status = "failed"]
    BY <1>1, <1>4 DEF Failed
  <2>2. QED
    BY <1>2, <1>3, <2>1, FailsForGood
<1>5. CASE ~(n >= MaxAttempts)
  <2>0. n \in 1..Len(Delays) /\ Delays \in Seq(Nat)
    <3>1. n < MaxAttempts /\ n \in Nat /\ n >= 1
      BY <1>2, <1>5, MaxAttemptsPositive
    <3>2. QED
      BY <3>1, ConstantsAssumption
  <2>1. PICK wait \in Nat : wait = AtLeast(Delays[n], after)
    <3>1. Delays[n] \in Nat
      BY <2>0, ElementOfSeq
    <3>2. QED
      BY <3>1 DEF AtLeast
  <2>2. Failed(r, after) = [Unclaimed(r) EXCEPT !.attempts = n, !.nextIn = wait]
    BY <1>1, <1>5, <2>1 DEF Failed
  <2>3. n < MaxAttempts
    BY <1>2, <1>5, MaxAttemptsPositive
  <2>4. /\ [Unclaimed(r) EXCEPT !.attempts = n, !.nextIn = wait] \in Row
        /\ [Unclaimed(r) EXCEPT !.attempts = n, !.nextIn = wait].attempts = n
        /\ [Unclaimed(r) EXCEPT !.attempts = n, !.nextIn = wait].status = "pending"
    BY <1>2, <1>3 DEF Row, Statuses
  <2>5. QED
    BY <2>2, <2>3, <2>4
<1>6. QED
  BY <1>4, <1>5

LEMMA FinishedType ==
    ASSUME NEW r \in Row, r.status = "pending", r.attempts < MaxAttempts,
           NEW after \in RetryAfters,
           NEW result \in {"sent", "error", "auth"}
    PROVE  /\ Finished(r, result, after) \in Row
           /\ Finished(r, result, after).status # "absent"
           /\ Finished(r, result, after).status = "pending"
              => Finished(r, result, after).attempts < MaxAttempts
<1>1. CASE result = "sent"
  BY <1>1, RowTypes DEF Finished, Unclaimed, Row, Statuses
<1>2. CASE result = "auth"
  BY <1>2, RowTypes, ConstantsAssumption DEF Finished, Unclaimed, Row, Statuses
<1>3. CASE result = "error"
  <2>1. Finished(r, result, after) = Failed(r, after)
    BY <1>3 DEF Finished
  <2>2. after \in Nat
    BY ConstantsAssumption
  <2>3. QED
    BY <2>1, <2>2, FailedType
<1>4. QED
  BY <1>1, <1>2, <1>3

LEMMA IdleType == IdleWorker \in Worker /\ IdleWorker.at = "idle"
BY DEF IdleWorker, Worker, Stages, Results

-----------------------------------------------------------------------------
\* Updating one row, or one worker, keeps Typing.

BusyWell(w) ==
    /\ w \in Worker
    /\ w.at # "idle" => w.job \in Deliveries
    /\ w.at = "settling" => w.result \in {"sent", "error", "auth", "canceled"}
    /\ w.at = "finishing" => w.result \in {"sent", "error", "auth"}

LEMMA WorkerUpdate ==
    ASSUME Typing, NEW p \in Servers, NEW w, BusyWell(w),
           worker' = [worker EXCEPT ![p] = w]
    PROVE  worker' \in [Servers -> Worker] /\ WorkersBusy'
BY DEF Typing, TypeOK, WorkersBusy, BusyWell

\* A row that exists, or any row of a bound account, may change like this.
LEMMA RowUpdate ==
    ASSUME Typing, NEW d \in Deliveries, NEW r \in Row,
           row[d].status # "absent" \/ chat # None,
           r.status = "pending" => r.attempts < MaxAttempts,
           row' = [row EXCEPT ![d] = r], chat' = chat
    PROVE  row' \in [Deliveries -> Row] /\ RowsNeedBinding' /\ AttemptsLeft'
BY DEF Typing, TypeOK, RowsNeedBinding, AttemptsLeft, Pending

LEMMA RowsUnchanged ==
    ASSUME Typing, row' = row, chat' = chat
    PROVE  row' \in [Deliveries -> Row] /\ RowsNeedBinding' /\ AttemptsLeft'
BY DEF Typing, TypeOK, RowsNeedBinding, AttemptsLeft, Pending

LEMMA BusyServers ==
    ASSUME Typing, NEW p \in Servers
    PROVE  BusyWell(worker[p])
BY DEF Typing, TypeOK, WorkersBusy, BusyWell

\* Moving a busy worker to a stage before or outside the answer.
LEMMA Moving ==
    ASSUME NEW w, BusyWell(w), w.at # "idle",
           NEW stage \in Stages \ {"idle", "settling", "finishing"}
    PROVE  BusyWell([w EXCEPT !.at = stage])
BY DEF BusyWell, Worker

LEMMA IdleIsWell == BusyWell(IdleWorker)
BY DEF BusyWell, IdleWorker, Worker, Stages, Results

-----------------------------------------------------------------------------
(* Every step keeps Typing: the steps that write rows first, then those that *)
(* only move a sender, then time.                                            *)

LEMMA EnqueueTyping ==
    ASSUME Typing, NEW d \in Deliveries, Enqueue(d)
    PROVE  Typing'
<1>1. row' \in [Deliveries -> Row] /\ RowsNeedBinding' /\ AttemptsLeft'
  BY RowUpdate, FreshRow DEF Enqueue
<1>2. QED
  BY <1>1 DEF Enqueue, Typing, TypeOK, WorkersBusy

LEMMA RebindTyping ==
    ASSUME Typing, NEW p \in Servers, NEW c \in Chats, Rebind(p, c)
    PROVE  Typing'
<1>1. PICK ack \in Acks : row' = ReboundRows(chat # c, ack)
  BY DEF Rebind
<1>2. \A d \in Deliveries : row[d] \in Row /\ Unclaimed(row[d]) \in Row
  BY RowTypes DEF Typing, TypeOK
<1>3. ASSUME NEW d \in Deliveries
      PROVE  /\ row'[d] \in Row
             /\ row'[d].status = "pending" => row'[d].attempts < MaxAttempts
  <2>1. CASE d = ack
    BY <1>1, <2>1, FreshRow DEF ReboundRows
  <2>2. CASE d # ack /\ Pending(d) /\ d \in Acks
    <3>1. row'[d] = [Unclaimed(row[d]) EXCEPT !.status = "superseded"]
      BY <1>1, <2>2 DEF ReboundRows
    <3>2. row'[d] \in Row
      BY <1>2, <3>1, RowTypes
    <3>3. row'[d].status = "superseded"
      BY <1>2, <3>1 DEF Row
    <3>4. QED
      BY <3>2, <3>3
  <2>3. CASE d # ack /\ Pending(d) /\ d \notin Acks
    <3>1. row'[d] \in {Rewound(row[d]), row[d]}
      BY <1>1, <2>3 DEF ReboundRows
    <3>2. row'[d] \in Row /\ row'[d].attempts = row[d].attempts
      BY <1>2, <3>1, RowTypes
    <3>3. QED
      BY <3>2, <2>3 DEF Typing, AttemptsLeft
  <2>4. CASE d # ack /\ ~Pending(d)
    BY <1>1, <1>2, <2>4 DEF ReboundRows, Pending
  <2>5. QED
    BY <2>1, <2>2, <2>3, <2>4
<1>4. row' \in [Deliveries -> Row]
  <2>1. row' = [d \in Deliveries |-> row'[d]]
    BY <1>1 DEF ReboundRows
  <2>2. QED
    BY <1>3, <2>1
<1>5. chat' \in Chats /\ chat' # None
  BY ConstantsAssumption DEF Rebind
<1>6. rev' \in Nat /\ permit' \in [Deliveries -> Permit]
  BY DEF Rebind, WaitOutPermits, NextBindingRevision, NoPermit, Permit, Typing, TypeOK
<1>7. QED
  BY <1>3, <1>4, <1>5, <1>6
  DEF Rebind, Typing, TypeOK, WorkersBusy, RowsNeedBinding, AttemptsLeft, Pending

LEMMA ClaimTyping ==
    ASSUME Typing, NEW p \in Servers, NEW d \in Deliveries, Claim(p, d)
    PROVE  Typing'
<1>1. row' \in [Deliveries -> Row] /\ RowsNeedBinding' /\ AttemptsLeft'
  <2>1. PICK r : r = [row[d] EXCEPT !.claim = p, !.lease = Lease]
    OBVIOUS
  <2>2. /\ r \in Row /\ r.status = row[d].status
        /\ r.status = "pending" => r.attempts < MaxAttempts
    BY <2>1, ConstantsAssumption DEF Row, Typing, TypeOK, AttemptsLeft, Pending
  <2>3. row' = [row EXCEPT ![d] = r]
    BY <2>1 DEF Claim, Typing, TypeOK
  <2>4. QED
    BY <2>2, <2>3, RowUpdate DEF Claim, Due, Pending
<1>2. worker' \in [Servers -> Worker] /\ WorkersBusy'
  <2>1. PICK w : w = [IdleWorker EXCEPT !.at = "claimed", !.job = d, !.left = AttemptTimeout]
    OBVIOUS
  <2>2. BusyWell(w)
    BY <2>1, ConstantsAssumption
    DEF BusyWell, IdleWorker, Worker, Stages, PreCall, Results
  <2>3. QED
    BY <2>1, <2>2, WorkerUpdate DEF Claim
<1>3. QED
  BY <1>1, <1>2 DEF Claim, Typing, TypeOK

LEMMA GotoTyping ==
    ASSUME Typing, NEW p \in Servers, worker[p].at # "idle",
           NEW stage \in Stages \ {"idle", "settling", "finishing"},
           Goto(p, stage)
    PROVE  worker' \in [Servers -> Worker] /\ WorkersBusy'
<1>1. worker' = [worker EXCEPT ![p] = [worker[p] EXCEPT !.at = stage]]
  BY DEF Goto, Typing, TypeOK
<1>2. BusyWell([worker[p] EXCEPT !.at = stage])
  BY BusyServers, Moving
<1>3. QED
  BY <1>1, <1>2, WorkerUpdate

\* A step that writes no row and nothing of the binding.
LEMMA WorkerStepTyping ==
    ASSUME Typing,
           worker' \in [Servers -> Worker] /\ WorkersBusy',
           UNCHANGED <<row, intents, chat, rev, token, issued>>,
           permit' \in [Deliveries -> Permit],
           paused' \in [Servers -> Nat],
           accepted' \in [Deliveries -> Nat],
           faults' \in Nat
    PROVE  Typing'
BY RowsUnchanged DEF Typing, TypeOK

LEMMA ReloadTyping ==
    ASSUME Typing, NEW p \in Servers, Reload(p)
    PROVE  Typing'
<1>1. worker' \in [Servers -> Worker] /\ WorkersBusy'
  <2>1. CASE Holds(p, worker[p].job)
    <3>1. PICK w : w = [worker[p] EXCEPT !.at = "begun", !.clock = PermitSpan]
      OBVIOUS
    <3>2. BusyWell(w)
      BY <3>1, BusyServers, ConstantsAssumption
      DEF BusyWell, Worker, Stages, InGate, Reload
    <3>3. worker' = [worker EXCEPT ![p] = w]
      BY <2>1, <3>1 DEF Reload
    <3>4. QED
      BY <3>2, <3>3, WorkerUpdate
  <2>2. CASE ~Holds(p, worker[p].job)
    BY <2>2, IdleIsWell, WorkerUpdate DEF Reload
  <2>3. QED
    BY <2>1, <2>2
<1>2. QED
  BY <1>1, WorkerStepTyping DEF Reload, dbVars, Typing, TypeOK

LEMMA AuthorizeTyping ==
    ASSUME Typing, NEW p \in Servers, Authorize(p)
    PROVE  Typing'
<1>1. PICK d \in Deliveries : d = worker[p].job
  BY DEF Authorize, Typing, WorkersBusy
<1>2. Pending(d) /\ row[d] \in Row /\ intents[d] \in Seq(Intent) /\ Bound \in Intent
  BY <1>1 DEF Authorize, Authorizable, Holds, Typing, TypeOK, RowsNeedBinding,
              Pending, Bound, Intent
<1>3. /\ row' \in [Deliveries -> Row] /\ RowsNeedBinding' /\ AttemptsLeft'
      /\ intents' \in [Deliveries -> Seq(Intent)]
  <2>1. CASE ReuseIntent(d)
    BY <2>1, RowsUnchanged DEF ReuseIntent, Authorize, Typing, TypeOK
  <2>2. CASE InsertIntent(d)
    <3>1. PICK r : r = [row[d] EXCEPT !.active = NextRevision(d)]
      OBVIOUS
    <3>2. r \in Row /\ (r.status = "pending" => r.attempts < MaxAttempts)
      BY <1>2, <3>1 DEF Row, NextRevision, Typing, AttemptsLeft
    <3>3. row' = [row EXCEPT ![d] = r]
      BY <2>2, <3>1 DEF InsertIntent, Typing, TypeOK
    <3>4. row' \in [Deliveries -> Row] /\ RowsNeedBinding' /\ AttemptsLeft'
      BY <1>2, <3>2, <3>3, RowUpdate DEF Authorize, Pending
    <3>5. Append(intents[d], Bound) \in Seq(Intent)
      BY <1>2, AppendProperties
    <3>6. QED
      BY <2>2, <3>4, <3>5 DEF InsertIntent, Typing, TypeOK
  <2>3. QED
    BY <1>1, <2>1, <2>2 DEF Authorize
<1>4. PICK span \in 1..PermitSpan :
        /\ permit' = [permit EXCEPT ![d] = [by |-> p, rev |-> rev, left |-> span]]
        /\ worker' = [worker EXCEPT ![p].at = "authorized", ![p].to = Bound,
                                    ![p].clock = AtMost(@, span)]
  BY <1>1 DEF Authorize
<1>5. span \in Nat
  BY ConstantsAssumption
<1>6. worker' \in [Servers -> Worker] /\ WorkersBusy'
  <2>1. PICK clock \in Nat : clock = AtMost(worker[p].clock, span)
    BY <1>5, NumberTypes DEF Typing, TypeOK, Worker
  <2>2. PICK w : w = [worker[p] EXCEPT !.at = "authorized", !.to = Bound, !.clock = clock]
    OBVIOUS
  <2>3. BusyWell(w)
    <3>1. worker[p] \in Worker /\ worker[p].job \in Deliveries /\ Bound \in Intent
      BY <1>1, <1>2 DEF Typing, TypeOK
    <3>2. QED
      BY <2>2, <3>1 DEF BusyWell, Worker, Stages, InGate
  <2>4. worker' = [worker EXCEPT ![p] = w]
    BY <1>4, <2>1, <2>2 DEF Typing, TypeOK
  <2>5. QED
    BY <2>3, <2>4, WorkerUpdate
<1>7. permit' \in [Deliveries -> Permit]
  BY <1>4, <1>5 DEF Permit, Typing, TypeOK
<1>8. QED
  BY <1>3, <1>6, <1>7 DEF Authorize, Typing, TypeOK

LEMMA WaitingTyping ==
    ASSUME Typing, NEW p \in Servers,
           AuthorizeFails(p) \/ ReturnPermit(p) \/ AssertCallable(p) \/ GiveUp(p)
    PROVE  Typing'
<1>1. /\ worker[p].at # "idle"
      /\ \/ Goto(p, "releasing") \/ Goto(p, "permitted") \/ Goto(p, "callable")
  BY DEF AuthorizeFails, ReturnPermit, AssertCallable, GiveUp
<1>2. worker' \in [Servers -> Worker] /\ WorkersBusy'
  BY <1>1, GotoTyping DEF Stages, PreCall, InGate
<1>3. /\ UNCHANGED <<dbVars, issued, paused, accepted>>
      /\ faults' \in Nat
  BY DEF AuthorizeFails, ReturnPermit, AssertCallable, GiveUp, Fault, Typing, TypeOK
<1>4. QED
  BY <1>2, <1>3, WorkerStepTyping DEF dbVars, Typing, TypeOK

LEMMA StartCallTyping ==
    ASSUME Typing, NEW p \in Servers, StartCall(p)
    PROVE  Typing'
<1>1. worker' \in [Servers -> Worker] /\ WorkersBusy'
  <2>1. PICK clock \in Nat : clock = AtMost(TelegramTimeout, worker[p].clock)
    BY NumberTypes, ConstantsAssumption DEF Typing, TypeOK, Worker
  <2>2. PICK w : w = IF worker[p].left >= Reserve
                     THEN [worker[p] EXCEPT !.at = "sending", !.clock = clock]
                     ELSE [worker[p] EXCEPT !.at = "releasing"]
    OBVIOUS
  <2>3. worker[p] \in Worker /\ worker[p].job \in Deliveries
    BY DEF StartCall, Typing, TypeOK, WorkersBusy
  <2>4. BusyWell(w)
    BY <2>2, <2>3 DEF BusyWell, Worker, Stages, InGate, PreCall
  <2>5. worker' = [worker EXCEPT ![p] = w]
    BY <2>1, <2>2 DEF StartCall
  <2>6. QED
    BY <2>4, <2>5, WorkerUpdate
<1>2. QED
  BY <1>1, WorkerStepTyping DEF StartCall, dbVars, Typing, TypeOK

LEMMA AnswerTyping ==
    ASSUME Typing, NEW p \in Servers, Answer(p)
    PROVE  Typing'
<1>1. PICK result \in {"sent", "error", "auth", "canceled"} : Answered(p, result)
  BY DEF Answer, AnswerSent, AnswerRefused, AnswerLost, AnswerInvalidAuth, AnswerCanceled
<1>2. worker[p].at = "sending"
  BY DEF Answer, AnswerSent, AnswerRefused, AnswerLost, AnswerInvalidAuth, AnswerCanceled
<1>3. worker' \in [Servers -> Worker] /\ WorkersBusy'
  <2>1. PICK w : w = [worker[p] EXCEPT !.at = "settling", !.result = result,
                                       !.clock = CleanupTimeout]
    OBVIOUS
  <2>2. worker[p] \in Worker /\ worker[p].job \in Deliveries
    BY <1>2, BusyServers DEF BusyWell
  <2>3. BusyWell(w)
    BY <2>1, <2>2, ConstantsAssumption DEF BusyWell, Worker, Stages, InGate, Results
  <2>4. worker' = [worker EXCEPT ![p] = w]
    BY <1>1, <2>1 DEF Answered, Typing, TypeOK
  <2>5. QED
    BY <2>3, <2>4, WorkerUpdate
<1>4. accepted' \in [Deliveries -> Nat]
  <2>1. accepted' = accepted \/ Accept(worker[p].job)
    BY DEF Answer, AnswerSent, AnswerRefused, AnswerLost, AnswerInvalidAuth, AnswerCanceled
  <2>2. QED
    BY <2>1 DEF Accept, Typing, TypeOK
<1>5. faults' \in Nat /\ paused' \in [Servers -> Nat]
  <2>1. faults' = faults \/ faults' = faults + 1
    BY DEF Answer, AnswerSent, AnswerRefused, AnswerLost, AnswerInvalidAuth,
           AnswerCanceled, Fault
  <2>2. PICK rest \in Nat : rest = AtLeast(paused[p], Backoff)
    BY NumberTypes, ConstantsAssumption DEF Typing, TypeOK
  <2>3. paused' = paused \/ paused' = [paused EXCEPT ![p] = rest]
    BY <2>2
    DEF Answer, AnswerSent, AnswerRefused, AnswerLost, AnswerInvalidAuth, AnswerCanceled
  <2>4. paused' \in [Servers -> Nat]
    BY <2>2, <2>3 DEF Typing, TypeOK
  <2>5. faults' \in Nat
    BY <2>1 DEF Typing, TypeOK
  <2>6. QED
    BY <2>4, <2>5
<1>6. UNCHANGED dbVars /\ UNCHANGED issued
  BY DEF Answer, AnswerSent, AnswerRefused, AnswerLost, AnswerInvalidAuth, AnswerCanceled
<1>7. QED
  BY <1>3, <1>4, <1>5, <1>6, WorkerStepTyping DEF dbVars, Typing, TypeOK

LEMMA SettleTyping ==
    ASSUME Typing, NEW p \in Servers, SettlePermit(p) \/ SettleLost(p)
    PROVE  Typing'
<1>1. worker' \in [Servers -> Worker] /\ WorkersBusy'
  <2>1. PICK w : w = IF worker[p].result = "canceled" THEN IdleWorker
                     ELSE [worker[p] EXCEPT !.at = "finishing"]
    OBVIOUS
  <2>2. /\ worker[p] \in Worker /\ worker[p].job \in Deliveries
        /\ worker[p].result \in {"sent", "error", "auth", "canceled"}
    BY DEF SettlePermit, SettleLost, Typing, TypeOK, WorkersBusy, Worker, Results
  <2>3. BusyWell(w)
    BY <2>1, <2>2, IdleIsWell DEF BusyWell, Worker, Stages, InGate
  <2>4. worker' = [worker EXCEPT ![p] = w]
    BY <2>1 DEF SettlePermit, SettleLost
  <2>5. QED
    BY <2>3, <2>4, WorkerUpdate
<1>2. permit' \in [Deliveries -> Permit]
  <2>1. NoPermit \in Permit
    BY DEF NoPermit, Permit
  <2>2. CASE SettlePermit(p)
    BY <2>1, <2>2 DEF SettlePermit, Typing, TypeOK
  <2>3. CASE SettleLost(p)
    BY <2>3 DEF SettleLost, dbVars, Typing, TypeOK
  <2>4. QED
    BY <2>2, <2>3
<1>3. UNCHANGED <<row, intents, chat, rev, token, issued, paused, accepted>>
  BY DEF SettlePermit, SettleLost, dbVars
<1>4. faults' \in Nat
  BY DEF SettlePermit, SettleLost, Fault, Typing, TypeOK
<1>5. QED
  BY <1>1, <1>2, <1>3, <1>4, WorkerStepTyping DEF Typing, TypeOK

\* The steps that end an attempt.
LEMMA FinishTyping ==
    ASSUME Typing, NEW p \in Servers, Finish(p)
    PROVE  Typing'
<1>1. PICK d \in Deliveries : d = worker[p].job
  BY DEF Finish, Typing, WorkersBusy
<1>2. row' \in [Deliveries -> Row] /\ RowsNeedBinding' /\ AttemptsLeft'
  <2>1. PICK after \in RetryAfters :
           row' = [row EXCEPT ![d] =
                IF MayFinish(p, d) THEN Finished(row[d], worker[p].result, after)
                ELSE row[d]]
    BY <1>1 DEF Finish
  <2>2. CASE MayFinish(p, d)
    <3>1. PICK r : r = Finished(row[d], worker[p].result, after)
      OBVIOUS
    <3>2. row[d].status = "pending" /\ worker[p].result \in {"sent", "error", "auth"}
      BY <2>2 DEF MayFinish, Holds, Pending, Finish, Typing, WorkersBusy
    <3>3. r \in Row /\ (r.status = "pending" => r.attempts < MaxAttempts)
      BY <3>1, <3>2, FinishedType DEF Typing, TypeOK, AttemptsLeft, Pending
    <3>4. row' = [row EXCEPT ![d] = r]
      BY <2>1, <2>2, <3>1
    <3>5. QED
      BY <3>2, <3>3, <3>4, RowUpdate DEF Finish
  <2>3. CASE ~MayFinish(p, d)
    BY <2>1, <2>3, RowsUnchanged DEF Finish, Typing, TypeOK
  <2>4. QED
    BY <2>2, <2>3
<1>3. worker' \in [Servers -> Worker] /\ WorkersBusy'
  BY IdleIsWell, WorkerUpdate DEF Finish
<1>4. QED
  BY <1>2, <1>3 DEF Finish, Typing, TypeOK

LEMMA ReleaseTyping ==
    ASSUME Typing, NEW p \in Servers, Release(p)
    PROVE  Typing'
<1>1. PICK d \in Deliveries : d = worker[p].job
  BY DEF Release, Typing, WorkersBusy
<1>2. row' \in [Deliveries -> Row] /\ RowsNeedBinding' /\ AttemptsLeft'
  <2>1. CASE Holds(p, d)
    <3>1. PICK r : r = [Unclaimed(row[d]) EXCEPT !.nextIn = 0]
      OBVIOUS
    <3>2. row[d] \in Row
      BY DEF Typing, TypeOK
    <3>3. r \in Row /\ r.attempts = row[d].attempts
      <4>1. Unclaimed(row[d]) \in Row /\ Unclaimed(row[d]).attempts = row[d].attempts
        BY <3>2, RowTypes
      <4>2. QED
        BY <3>1, <4>1 DEF Row
    <3>4. row[d].status = "pending" /\ row[d].attempts < MaxAttempts
      BY <2>1 DEF Holds, Pending, Typing, AttemptsLeft
    <3>5. row' = [row EXCEPT ![d] = r]
      BY <1>1, <2>1, <3>1 DEF Release
    <3>6. QED
      BY <3>3, <3>4, <3>5, RowUpdate DEF Release
  <2>2. CASE ~Holds(p, d)
    BY <1>1, <2>2, RowsUnchanged DEF Release, Typing, TypeOK
  <2>3. QED
    BY <2>1, <2>2
<1>3. worker' \in [Servers -> Worker] /\ WorkersBusy'
  BY IdleIsWell, WorkerUpdate DEF Release
<1>4. QED
  BY <1>2, <1>3 DEF Release, Typing, TypeOK

LEMMA AbandonTyping ==
    ASSUME Typing, NEW p \in Servers, FinishLost(p) \/ Crash(p)
    PROVE  Typing'
<1>1. worker' \in [Servers -> Worker] /\ WorkersBusy'
  BY IdleIsWell, WorkerUpdate DEF FinishLost, Crash
<1>2. /\ accepted' \in [Deliveries -> Nat]
      /\ paused' \in [Servers -> Nat]
      /\ faults' \in Nat
  <2>1. accepted' = accepted \/ Accept(worker[p].job)
    BY DEF FinishLost, Crash
  <2>2. paused' = paused \/ paused' = [paused EXCEPT ![p] = 0]
    BY DEF FinishLost, Crash
  <2>3. faults' = faults + 1
    BY DEF FinishLost, Crash, Fault
  <2>4. accepted' \in [Deliveries -> Nat]
    BY <2>1 DEF Accept, Typing, TypeOK
  <2>5. paused' \in [Servers -> Nat]
    BY <2>2 DEF Typing, TypeOK
  <2>6. QED
    BY <2>3, <2>4, <2>5 DEF Typing, TypeOK
<1>3. UNCHANGED dbVars /\ UNCHANGED issued
  BY DEF FinishLost, Crash
<1>4. QED
  BY <1>1, <1>2, <1>3, WorkerStepTyping DEF dbVars, Typing, TypeOK

LEMMA TokenTyping ==
    ASSUME Typing, IssueToken \/ TokenExpires
    PROVE  Typing'
<1>1. /\ UNCHANGED <<row, intents, permit, chat, rev, worker, paused, accepted, faults>>
      /\ token' \in BOOLEAN /\ issued' \in Nat
  <2>1. CASE IssueToken
    BY <2>1 DEF IssueToken, Typing, TypeOK
  <2>2. CASE TokenExpires
    BY <2>2 DEF TokenExpires, Typing, TypeOK
  <2>3. QED
    BY <2>1, <2>2
<1>2. QED
  BY <1>1, RowsUnchanged DEF Typing, TypeOK, WorkersBusy

LEMMA TickTyping ==
    ASSUME Typing, Tick
    PROVE  Typing'
<1>1. ASSUME NEW d \in Deliveries
      PROVE  /\ row'[d] \in Row
             /\ row'[d].status = row[d].status /\ row'[d].attempts = row[d].attempts
             /\ permit'[d] \in Permit
  <2>1. /\ row'[d] \in Row
        /\ row'[d].status = row[d].status /\ row'[d].attempts = row[d].attempts
    BY NumberTypes DEF Tick, Row, Typing, TypeOK
  <2>2. permit'[d] \in Permit
    BY NumberTypes DEF Tick, Permit, Typing, TypeOK
  <2> QED
    BY <2>1, <2>2
<1>2. ASSUME NEW p \in Servers
      PROVE  BusyWell(worker'[p])
  <2>1. worker[p] \in Worker /\ BusyWell(worker[p])
    BY BusyServers DEF BusyWell
  <2>2. PICK left \in Nat : left = Less1(worker[p].left)
    BY <2>1, NumberTypes DEF Worker
  <2>3. PICK clock \in Nat :
            clock = IF worker[p].at \in CountsDown THEN Less1(worker[p].clock)
                    ELSE worker[p].clock
    BY <2>1, NumberTypes DEF Worker
  <2>4. worker'[p] = [worker[p] EXCEPT !.left = left, !.clock = clock]
    BY <2>1, <2>2, <2>3 DEF Tick, Older, Worker
  <2>5. QED
    BY <2>1, <2>4 DEF BusyWell, Worker
<1>3. /\ row' \in [Deliveries -> Row]
      /\ permit' \in [Deliveries -> Permit]
      /\ worker' \in [Servers -> Worker]
  <2>1. /\ row' = [d \in Deliveries |-> row'[d]]
        /\ permit' = [d \in Deliveries |-> permit'[d]]
        /\ worker' = [p \in Servers |-> worker'[p]]
    BY DEF Tick
  <2>2. QED
    BY <1>1, <1>2, <2>1 DEF BusyWell
<1>4. paused' \in [Servers -> Nat] /\ faults' \in Nat
  <2>1. paused' \in [Servers -> Nat]
    BY NumberTypes DEF Tick, Typing, TypeOK
  <2>2. Fault \/ NoFault
    BY DEF Tick
  <2>3. QED
    BY <2>1, <2>2 DEF Fault, NoFault, Typing, TypeOK
<1>5. WorkersBusy'
  BY <1>2 DEF BusyWell, WorkersBusy
<1>6. QED
  BY <1>1, <1>3, <1>4, <1>5
  DEF Tick, Typing, TypeOK, RowsNeedBinding, AttemptsLeft, Pending

LEMMA InitTyping == Init => Typing
<1>1. SUFFICES ASSUME Init PROVE Typing
  OBVIOUS
<1>2. NoPermit \in Permit /\ <<>> \in Seq(Intent)
  BY DEF NoPermit, Permit
<1>3. AbsentRow \in Row /\ AbsentRow.status = "absent"
  BY FreshRow DEF AbsentRow
<1>4. TypeOK
  BY <1>1, <1>2, <1>3, IdleType, ConstantsAssumption DEF Init, TypeOK
<1>5. WorkersBusy
  BY <1>1, IdleType, IdleIsWell DEF Init, WorkersBusy, BusyWell
<1>6. RowsNeedBinding /\ AttemptsLeft
  BY <1>1, <1>3 DEF Init, RowsNeedBinding, AttemptsLeft, Pending
<1>7. QED
  BY <1>4, <1>5, <1>6 DEF Typing

LEMMA StutterTyping == Typing /\ UNCHANGED vars => Typing'
BY RowsUnchanged DEF vars, Typing, TypeOK, WorkersBusy

LEMMA NextTyping == Typing /\ [Next]_vars => Typing'
<1>1. SUFFICES ASSUME Typing, [Next]_vars PROVE Typing'
  OBVIOUS
<1>2. ASSUME NEW d \in Deliveries, Enqueue(d) PROVE Typing'
  BY <1>1, <1>2, EnqueueTyping
<1>3. CASE IssueToken \/ TokenExpires
  BY <1>1, <1>3, TokenTyping
<1>4. ASSUME NEW p \in Servers, NEW c \in Chats, Rebind(p, c) PROVE Typing'
  BY <1>1, <1>4, RebindTyping
<1>5. ASSUME NEW p \in Servers, Attempt(p) PROVE Typing'
  <2>1. ASSUME NEW d \in Deliveries, Claim(p, d) PROVE Typing'
    BY <1>1, <2>1, ClaimTyping
  <2>2. CASE Reload(p)
    BY <1>1, <2>2, ReloadTyping
  <2>3. CASE Authorize(p)
    BY <1>1, <2>3, AuthorizeTyping
  <2>4. CASE AuthorizeFails(p) \/ ReturnPermit(p) \/ AssertCallable(p)
    BY <1>1, <2>4, WaitingTyping
  <2>5. CASE StartCall(p)
    BY <1>1, <2>5, StartCallTyping
  <2>6. CASE SettlePermit(p)
    BY <1>1, <2>6, SettleTyping
  <2>7. CASE Finish(p)
    BY <1>1, <2>7, FinishTyping
  <2>8. CASE Release(p)
    BY <1>1, <2>8, ReleaseTyping
  <2>9. QED
    BY <1>5, <2>1, <2>2, <2>3, <2>4, <2>5, <2>6, <2>7, <2>8 DEF Attempt
<1>6. ASSUME NEW p \in Servers, Answer(p) PROVE Typing'
  BY <1>1, <1>6, AnswerTyping
<1>7. ASSUME NEW p \in Servers, Failure(p) PROVE Typing'
  BY <1>1, <1>7, SettleTyping, AbandonTyping, WaitingTyping DEF Failure
<1>8. CASE Tick
  BY <1>1, <1>8, TickTyping
<1>9. CASE UNCHANGED vars
  BY <1>1, <1>9, StutterTyping
<1>10. QED
  BY <1>1, <1>2, <1>3, <1>4, <1>5, <1>6, <1>7, <1>8, <1>9 DEF Next

\* Rows, intents, permits, senders and counters keep their schema; in
\* particular a delivery never counts more attempts than MaxAttempts.
THEOREM TypeCorrect == Spec => []TypeOK
<1>1. Spec => []Typing
  BY InitTyping, NextTyping, PTL DEF Spec
<1>2. Typing => TypeOK
  BY DEF Typing
<1>3. QED
  BY <1>1, <1>2, PTL

-----------------------------------------------------------------------------
(* The permits of an old binding are dead once the binding has moved.        *)

LEMMA RebindPermits ==
    ASSUME Typing, LivePermitsAreCurrent,
           NEW p \in Servers, NEW c \in Chats, Rebind(p, c)
    PROVE  LivePermitsAreCurrent'
<1>1. CASE chat = c
  BY <1>1 DEF Rebind, LivePermitsAreCurrent, LiveCall
<1>2. CASE chat # c
  <2>1. \A d \in Deliveries : permit'[d].by = None
    BY <1>2 DEF Rebind, WaitOutPermits, NoPermit
  <2>2. QED
    BY <2>1 DEF LivePermitsAreCurrent, LiveCall
<1>3. QED
  BY <1>1, <1>2

LEMMA NextPermits == Typing /\ LivePermitsAreCurrent /\ [Next]_vars => LivePermitsAreCurrent'
<1>1. SUFFICES ASSUME Typing, LivePermitsAreCurrent, [Next]_vars
               PROVE  LivePermitsAreCurrent'
  OBVIOUS
<1>2. CASE UNCHANGED <<permit, chat, rev>>
  BY <1>1, <1>2 DEF LivePermitsAreCurrent, LiveCall
<1>3. ASSUME NEW p \in Servers, NEW c \in Chats, Rebind(p, c)
      PROVE  LivePermitsAreCurrent'
  BY <1>1, <1>3, RebindPermits
<1>4. ASSUME NEW p \in Servers, Authorize(p)
      PROVE  LivePermitsAreCurrent'
  <2>1. PICK d \in Deliveries : d = worker[p].job
    BY <1>1, <1>4 DEF Authorize, Typing, WorkersBusy
  <2>2. chat # None
    BY <1>1, <1>4, <2>1
    DEF Authorize, Authorizable, Holds, Pending, Typing, RowsNeedBinding
  <2>3. PICK span \in 1..PermitSpan :
           permit' = [permit EXCEPT ![d] = [by |-> p, rev |-> rev, left |-> span]]
    BY <1>4, <2>1 DEF Authorize
  <2>4. UNCHANGED <<chat, rev>>
    BY <1>4 DEF Authorize
  <2>5. QED
    BY <1>1, <2>2, <2>3, <2>4 DEF LivePermitsAreCurrent, LiveCall, Typing, TypeOK
<1>5. ASSUME NEW p \in Servers, SettlePermit(p)
      PROVE  LivePermitsAreCurrent'
  BY <1>1, <1>5 DEF SettlePermit, NoPermit, LivePermitsAreCurrent, LiveCall, Typing, TypeOK
<1>6. CASE Tick
  <2>1. ASSUME NEW d \in Deliveries
        PROVE  /\ permit'[d].by = permit[d].by /\ permit'[d].rev = permit[d].rev
               /\ permit'[d].left > 0 => permit[d].left > 0
    BY <1>1, <1>6, NumberTypes DEF Tick, Permit, Typing, TypeOK
  <2>2. UNCHANGED <<chat, rev>>
    BY <1>6 DEF Tick
  <2>3. QED
    BY <1>1, <2>1, <2>2 DEF LivePermitsAreCurrent, LiveCall
<1>7. QED
  BY <1>1, <1>2, <1>3, <1>4, <1>5, <1>6
  DEF Next, vars, dbVars, Attempt, Answer, Failure, Enqueue, IssueToken, TokenExpires,
      Claim, Reload, AuthorizeFails, ReturnPermit, AssertCallable, StartCall, Finish,
      Release, AnswerSent, AnswerRefused, AnswerLost, AnswerInvalidAuth, AnswerCanceled,
      SettleLost, FinishLost, GiveUp, Crash

\* A permit that may still start a call names the current binding: a bind to
\* another chat waits out every permit of the old one.
THEOREM PermitsFollowBinding == Spec => []LivePermitsAreCurrent
<1>1. Init => LivePermitsAreCurrent
  BY DEF Init, NoPermit, LivePermitsAreCurrent, LiveCall
<1>2. Spec => []Typing
  BY InitTyping, NextTyping, PTL DEF Spec
<1>3. QED
  BY <1>1, <1>2, NextPermits, PTL DEF Spec

-----------------------------------------------------------------------------
(* Pointers.                                                                 *)

PointerOK(d) ==
    Pending(d) /\ row[d].active # 0 =>
        row[d].active \in DOMAIN intents[d] /\ intents[d][row[d].active] = Bound

LEMMA KeptPointer ==
    ASSUME NEW r \in Row, NEW after \in Nat, NEW result \in {"sent", "error", "auth"}
    PROVE  /\ Unclaimed(r).active = r.active
           /\ [Unclaimed(r) EXCEPT !.nextIn = 0].active = r.active
           /\ Finished(r, result, after).active = r.active
BY DEF Row, Unclaimed, Finished, Failed

LEMMA RebindPointers ==
    ASSUME Typing, PointersAreCurrent,
           NEW p \in Servers, NEW c \in Chats, Rebind(p, c)
    PROVE  PointersAreCurrent'
<1>1. SUFFICES ASSUME NEW d \in Business, Pending(d)', row'[d].active # 0
               PROVE  /\ row'[d].active \in DOMAIN intents'[d]
                      /\ intents'[d][row'[d].active] = Bound'
  BY DEF PointersAreCurrent
<1>2. PICK ack \in Acks : row' = ReboundRows(chat # c, ack)
  BY DEF Rebind
<1>3. d \in Deliveries /\ d # ack /\ d \notin Acks /\ row[d] \in Row
  BY ConstantsAssumption DEF Deliveries, Typing, TypeOK
<1>4. row'[d] = IF Pending(d) /\ chat # c THEN Rewound(row[d]) ELSE row[d]
  BY <1>2, <1>3 DEF ReboundRows
<1>5. Rewound(row[d]).active = 0
  BY <1>3 DEF Rewound, Unclaimed, Row
<1>6. row'[d] = row[d] /\ Pending(d) /\ chat = c
  BY <1>1, <1>4, <1>5 DEF Pending
<1>7. Bound' = Bound /\ intents' = intents
  BY <1>6 DEF Rebind, Bound
<1>8. QED
  BY <1>1, <1>6, <1>7 DEF PointersAreCurrent

LEMMA AuthorizePointers ==
    ASSUME Typing, PointersAreCurrent, NEW p \in Servers, Authorize(p)
    PROVE  PointersAreCurrent'
<1>1. PICK d \in Deliveries : d = worker[p].job
  BY DEF Authorize, Typing, WorkersBusy
<1>2. Bound' = Bound /\ Bound \in Intent
  BY <1>1 DEF Authorize, Authorizable, Holds, Pending, Bound, Intent,
              Typing, TypeOK, RowsNeedBinding
<1>3. CASE ReuseIntent(d)
  BY <1>2, <1>3 DEF ReuseIntent, PointersAreCurrent, Pending
<1>4. CASE InsertIntent(d)
  <2>1. row[d] \in Row /\ intents[d] \in Seq(Intent) /\ row[d].active \in Nat
    BY DEF Typing, TypeOK, Row
  <2>2. PICK n \in Nat : n = Len(intents[d])
    BY <2>1
  <2>3. /\ intents'[d] = Append(intents[d], Bound)
        /\ row'[d].active = row[d].active + 1
        /\ row[d].active + 1 > n
    BY <1>4, <2>1, <2>2 DEF InsertIntent, RevisionFree, NextRevision, Row, Typing, TypeOK
  <2>4. ASSUME d \in Business PROVE row[d].active = n
    <3>1. Pending(d)
      BY <1>1 DEF Authorize, Authorizable, Holds
    <3>2. row[d].active # 0 => row[d].active \in 1..n
      BY <2>1, <2>2, <2>4, <3>1 DEF PointersAreCurrent
    <3>3. QED
      BY <2>1, <2>3, <3>2
  <2>5. ASSUME d \in Business
        PROVE  /\ row'[d].active \in DOMAIN intents'[d]
               /\ intents'[d][row'[d].active] = Bound
    <3>1. row'[d].active = n + 1
      BY <2>3, <2>4, <2>5
    <3>2. /\ DOMAIN Append(intents[d], Bound) = 1..(n + 1)
          /\ Append(intents[d], Bound)[n + 1] = Bound
      BY <1>2, <2>1, <2>2, AppendProperties
    <3>3. QED
      BY <2>3, <3>1, <3>2
  <2>6. \A e \in Deliveries : e # d => row'[e] = row[e] /\ intents'[e] = intents[e]
    BY <1>4 DEF InsertIntent, Typing, TypeOK
  <2>7. QED
    BY <1>2, <2>5, <2>6 DEF PointersAreCurrent, Pending, Deliveries
<1>5. QED
  BY <1>1, <1>3, <1>4 DEF Authorize

\* A step that leaves binding and intents alone and every pointer in place.
LEMMA KeptPointers ==
    ASSUME PointersAreCurrent, UNCHANGED <<intents, chat, rev>>,
           \A d \in Deliveries : Pending(d)' =>
                \/ Pending(d) /\ row'[d].active = row[d].active
                \/ row'[d].active = 0
    PROVE  PointersAreCurrent'
BY DEF PointersAreCurrent, Pending, Bound, Deliveries

LEMMA NextPointers == Typing /\ PointersAreCurrent /\ [Next]_vars => PointersAreCurrent'
<1>1. SUFFICES ASSUME Typing, PointersAreCurrent, [Next]_vars
               PROVE  PointersAreCurrent'
  OBVIOUS
<1>2. CASE UNCHANGED <<row, intents, chat, rev>>
  BY <1>1, <1>2, KeptPointers DEF Pending
<1>3. ASSUME NEW d \in Deliveries, Enqueue(d)
      PROVE  PointersAreCurrent'
  BY <1>1, <1>3, KeptPointers DEF Enqueue, AbsentRow, Pending, Typing, TypeOK
<1>4. ASSUME NEW p \in Servers, NEW c \in Chats, Rebind(p, c)
      PROVE  PointersAreCurrent'
  BY <1>1, <1>4, RebindPointers
<1>5. ASSUME NEW p \in Servers, NEW d \in Deliveries, Claim(p, d)
      PROVE  PointersAreCurrent'
  BY <1>1, <1>5, KeptPointers DEF Claim, Row, Pending, Typing, TypeOK
<1>6. ASSUME NEW p \in Servers, Authorize(p)
      PROVE  PointersAreCurrent'
  BY <1>1, <1>6, AuthorizePointers
<1>7. ASSUME NEW p \in Servers, Finish(p)
      PROVE  PointersAreCurrent'
  <2>1. PICK d \in Deliveries : d = worker[p].job
    BY <1>1, <1>7 DEF Finish, Typing, WorkersBusy
  <2>2. PICK after \in RetryAfters :
           row' = [row EXCEPT ![d] =
                IF MayFinish(p, d) THEN Finished(row[d], worker[p].result, after)
                ELSE row[d]]
    BY <1>7, <2>1 DEF Finish
  <2>3. /\ after \in Nat /\ row \in [Deliveries -> Row]
        /\ worker[p].result \in {"sent", "error", "auth"}
        /\ MayFinish(p, d) => Pending(d)
    BY <1>1, <1>7, ConstantsAssumption
    DEF Typing, TypeOK, WorkersBusy, Finish, MayFinish, Holds
  <2>4. Finished(row[d], worker[p].result, after).active = row[d].active
    BY <2>3, KeptPointer
  <2>5. /\ row'[d].active = row[d].active
        /\ Pending(d)' => Pending(d)
    BY <2>2, <2>3, <2>4 DEF Pending
  <2>6. \A e \in Deliveries : e # d => row'[e] = row[e]
    BY <2>2, <2>3
  <2>7. QED
    BY <1>1, <1>7, <2>5, <2>6, KeptPointers DEF Finish, Pending
<1>8. ASSUME NEW p \in Servers, Release(p)
      PROVE  PointersAreCurrent'
  <2>1. PICK d \in Deliveries : d = worker[p].job
    BY <1>1, <1>8 DEF Release, Typing, WorkersBusy
  <2>2. row' = [row EXCEPT ![d] = IF Holds(p, d)
                                  THEN [Unclaimed(row[d]) EXCEPT !.nextIn = 0]
                                  ELSE row[d]]
    BY <1>8, <2>1 DEF Release
  <2>3. row \in [Deliveries -> Row] /\ (Holds(p, d) => Pending(d))
    BY <1>1 DEF Typing, TypeOK, Holds
  <2>4. [Unclaimed(row[d]) EXCEPT !.nextIn = 0].active = row[d].active
    BY <2>3 DEF Row, Unclaimed
  <2>5. row'[d].active = row[d].active /\ (Pending(d)' => Pending(d))
    BY <2>2, <2>3, <2>4 DEF Pending
  <2>6. \A e \in Deliveries : e # d => row'[e] = row[e]
    BY <2>2, <2>3
  <2>7. QED
    BY <1>1, <1>8, <2>5, <2>6, KeptPointers DEF Release, Pending
<1>9. CASE Tick
  <2>1. \A d \in Deliveries : row'[d].status = row[d].status /\ row'[d].active = row[d].active
    BY <1>1, <1>9 DEF Tick, Row, Typing, TypeOK
  <2>2. QED
    BY <1>1, <1>9, <2>1, KeptPointers DEF Tick, Pending
<1>10. QED
  BY <1>1, <1>2, <1>3, <1>4, <1>5, <1>6, <1>7, <1>8, <1>9
  DEF Next, vars, dbVars, Attempt, Answer, Failure, IssueToken, TokenExpires,
      Reload, AuthorizeFails, ReturnPermit, AssertCallable, StartCall, SettlePermit,
      AnswerSent, AnswerRefused, AnswerLost, AnswerInvalidAuth, AnswerCanceled,
      SettleLost, FinishLost, GiveUp, Crash

\* No retry of a daily or command delivery can reuse an intent written for an
\* earlier binding.
THEOREM PointersFollowBinding == Spec => []PointersAreCurrent
<1>1. Init => PointersAreCurrent
  BY DEF Init, AbsentRow, PointersAreCurrent, Pending, Deliveries
<1>2. Spec => []Typing
  BY InitTyping, NextTyping, PTL DEF Spec
<1>3. QED
  BY <1>1, <1>2, NextPointers, PTL DEF Spec

=============================================================================
