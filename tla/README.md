# Formal models of the photographer's customer platform

The repository is a CRM and shoot-planning service for photographers: one Go
backend (`src/backend`), PostgreSQL, an object store for pictures, a Telegram
bot, and a web front end. Every statement of the backend runs under an account
scope, so accounts do not share rows; what can go wrong happens inside one
account, between the server processes, the background loops of each process,
the HTTP requests, the database's clock, Telegram and the object store.

This directory holds TLA+ models of that code, TLC configurations that check
them on small instances, and proofs for TLAPS. `PROJECT.json` lists the parts of
the system, the runs, the mutants that show what each property is sensitive to,
the source lines of every definition, the findings, the hazards and the theorems.

1. [Inventory](#1-inventory)
2. [Modules](#2-modules)
3. [Runs and bounds](#3-runs-and-bounds)
4. [Fairness](#4-fairness)
5. [Where the code and what is said about it part](#5-where-the-code-and-what-is-said-about-it-part)
6. [Proofs](#6-proofs)
7. [Not modelled](#7-not-modelled)

## 1. Inventory

| Part | State | Operations | What is hard | What must hold |
|---|---|---|---|---|
| Digest delivery (`reminder/digest`) | deliveries with claim, lease, attempts, pointer to an intent; intents; call permits; binding of the account; per process: the attempt in hand, suspension | enqueue, claim, authorize, call, settle permit, finalize, release, bind | the call is outside every transaction; crashes; leases; two processes during a deployment; a bind that moves the account meanwhile | no call to a chat that was left, no overlapping calls, duplicates only after a fault, every delivery ends |
| Recipient gate (`digest/gate.go`) | active, rebindWaiters, channel | with, withRebinder | condition variable made of channels; cancellation | exclusion, no lost wake-up, binds first |
| Telegram updates, daily schedule (`digest/poller.go`, `update_handler.go`, `daily.go`) | next offset in memory, bind tokens, deliveries by key | poll, handle, run once per day | redelivery from offset 0, failing update, two schedulers | every request is answered, and once |
| Reminder generation fence (`reminder`, `shootplanning/planningreminder`, `store/planning_reminder_fence.go`) | target and applied generation, works, events, receipts, quarantines, projected sources and groups, temporal markers | claim and revoke of an assignment, time zone, CRM lifecycle, archive, batch consumer, quarantine, repair, temporal probe, bearer read | works settled out of order; roll back then quarantine; leases; clock read before a lock; reads without the lock | watermark exact, settled once, caught up means projected, reads serve the latest |
| Reconcile epochs (`assignment_reconcile_epoch.go`, `assignment_background_runner.go`) | epochs, leases on their plans, the generation they aim at | tick of the background runner | an open epoch created twice; a stop between lease and mark | no epoch stays open |
| Reminder scan (`reminder/service.go`, `runner.go`, `repository.go`) | reminder rows, checkpoint | scan, done, dismiss | two reads and a write in one READ COMMITTED transaction, two scanners, the user answers meanwhile | what was answered stays answered |
| Idempotency ledger (`platform/idempotency`) | one row per operation and key | execute | blocked insert, expiry, failed callback | executed once per lifetime, the stored answer replayed |
| Accounts (`platform/auth`, `store/auth_*.go`, `authmail`) | account status, mailed links, refresh families and generations, cookies | register, verify, log in, rotate, revoke, change and reset the password, legacy claim | reads before the transaction, lost answers, replays, sweeps | one live generation, reuse is what comes after the window |
| Attempt budgets (`platform/securitybudget`, `planshare/*budget.go`) | windows with counters | charge, clear | clock read before the lock, days that change | never more than the limit in a window |
| Orders (`order`) | stage, dates, money | create, change, delete, price of a draft | facts that follow from other facts | dates and money agree with the stage |
| Schedule (`schedule`), dashboard (`dashboard`) | slots, rules of availability, time zone | book, move, delete; openings, conflicts, utilization | days of 23 and 25 hours | openings are the free stretches, warnings and conflicts agree |
| Customers (`customer`) | status, referrer, merged into | create, archive, merge | a merge moves orders, slots, plans | nothing belongs to a merged customer |
| Plan CRM connection (`shootplanning/crm`) | link, projection of the shoot slot, window and its source | link, unlink, recompute | reached from customers, orders, schedule and plans | the window is the shoot's or the user's own |
| Shoot planning (`shootplanning`) | plan, shots, items, run sessions, execution facts, snapshots | commands of the board | what one command derives, another may break | positions, links, sessions and snapshots agree |
| Plan business (`shootplanning/business`) | facts, rules, drafts | generate, apply, dismiss | sources read without locks | what is applied is what today's sources give under the rules that were read |
| Plan ingestion (`ingestion`) | session, text, candidates | create, preview, commit, abandon | edits carried over to new text | a commit decides each paragraph as the user did |
| Plan sharing (`planshare`) | links with generations and epochs, offers, claims, feedback | issue, rotate, revoke, read, claim, give up, answer | snapshots, locks taken late | what a visitor writes is current |
| Planning media (`planningmedia`, `platform/immutablefs`) | asset, bindings, leases, pins, objects | upload, bind, read, collect in two phases, sweep | object store outside the transaction, takeovers | what is held is kept, workers spare what is live |
| Avatars (`customer/avatar_*.go`, `accountprofile`, `avatarmedia`) | pointer, collection queue, objects | set, remove, reconcile, collect | the same, lost sessions | the pointer names an object that exists; garbage is collected |
| Object stores (`immutablefs`, `avatarmedia`) | files, directories, what a disk holds after a loss of power; a bucket | put, stat, list, delete, clean | rename and sync are separate, crashes between them | what was reported is durable, but for directories that are never synced |
| Settings (`settings`) | the row that the first change creates | get, patch, bind | no row to lock, two writers of different columns | the last accepted change stands |
| Row locks (`store/scope.go` and all services) | who holds which row | the long transactions | lock order | nobody waits in a circle |
| Process (`cmd/server`) | runners, requests, connections | start, signal, grace, close | closing waits for connections | a signal ends it |
| HTTP, front end, scripts | none of their own | decode, format, operate | - | - |

How they meet. Orders, schedule and planning call the reminder fence inside their
own transactions; claims of the sharing component reserve its generations. The
fence's projection is what the digest reads when it prepares an intent (the
freshness check of `Authorize` and `GiveUp`). The poller binds through the gate
that also guards the sender, and a bind writes the row of settings. Customers,
orders and slots carry every change through to the plans that follow them, and
the business drafts of a plan write the order and the slot. Ingestion writes the
shots of the board. Avatars and planning media write the object store beside
their transactions. Every keyed request passes the ledger, every request of a
visitor the budgets, and all of them take row locks and pool connections of one
process.

The last column says what makes each part correct; the places where it could
break, and the property that guards each, are the `hazards` of `PROJECT.json`.

## 2. Modules

Component modules hold the state as variables, one action per transaction or per
stretch of code between two transactions, and the properties. Modules `MC...`
make instances for TLC, modules `...Proofs` hold theorems.

| Module | What it is |
|---|---|
| `DeliveryContract` | what the digest promises: a delivery appears once, is accepted while it is open, and is settled once |
| `DigestDelivery`, `MCDigestDelivery` | the delivery pipeline of one account on several servers, and its instances |
| `DigestDeliveryProofs`, `DigestCallProofs` | its theorems |
| `RecipientGate` | the in-process gate |
| `TelegramIntake` | pollers and daily schedulers of several servers |
| `GenerationFence` | what a reader of a watermark may rely on |
| `ReminderFence`, `MCReminderFence`, `ReminderFenceProofs` | writers, consumers, quarantine, temporal probe and reads of one account |
| `ReconcileEpochs`, `ReminderScan` | the epochs and the daily scan of reminders |
| `AvatarRegister` | what a client sees of an avatar: a register with compare-and-swap on `avatar_revision` |
| `AvatarLifecycle`, `MCAvatarLifecycle`, `AvatarLifecycleProofs` | requests, the row, the object store and the maintenance loops of one avatar |
| `ObjectFiles` | one key of an object store, down to renames and syncs |
| `SettingsRow`, `Calendar`, `ServerLife` | the row of settings, the calendar of a month, the process |
| `IdempotencyLedger`, `Accounts`, `AttemptBudgets` | keyed commands, sign-in, budgets |
| `OrderLifecycle`, `OrderRecord` | what a request makes of an order, as operators, and an order under any sequence of requests |
| `PlanConnection`, `Studio` | what a fact makes of a plan that follows it, as operators, and customers, orders, slots and plans together |
| `PlanBoard`, `BusinessDrafts`, `PlanIngestion`, `PlanShare`, `PlanningMedia` | a shoot plan: its board, its drafts, pasted text, its links, its pictures |
| `RowLocks` | the locks of the long transactions |
| `LockProofs` | theorems about `RecipientGate` and `RowLocks` |
| `MCServer`, `MCStores`, `MCBackground` | the three instances that check the parts that share no state, see section 3 |
| `BackgroundProofs` | theorems about `TelegramIntake`, `ReminderScan`, `ObjectFiles`, `SettingsRow` and `Calendar` |
| `ServerProofs` | theorems about `PlanShare`, `IdempotencyLedger`, `BusinessDrafts`, `Accounts` and `AttemptBudgets` |
| `StudioProofs` | theorems about `OrderRecord`, `Studio`, `PlanningMedia`, `PlanBoard` and `PlanIngestion` |

### DigestDelivery

`row`, `intents`, `permit`, `chat`, `rev`, `token` are tables; `worker` and
`paused` are the memory of the processes; `accepted` counts what Telegram took.
One action is one transaction or one stretch of code between two of them:
`Claim` (ClaimDueAttempt), `Reload`, entering the gate, `Authorize`
(PrepareCurrentIntent and BeginDigestCallingPermit, one transaction),
`ReturnPermit`, `AssertCallable`, `StartCall`, one `Answer...` per class of
result, `SettlePermit`, `Finish`, `Release`, `Rebind` (ConsumeAndBind).
`Crash` loses the memory of a process at any step; `SettleLost` and
`FinishLost` are the two result transactions failing; `GiveUp` is a step that
fails before the call, a failing freshness check among them; `AnswerLost` is an
answer lost on the way after Telegram may or may not have accepted.

Time is kept as what remains until a deadline. A step can take any time its
own timeouts allow: `Tick` is enabled while `MayWait` holds for every worker, so
the contexts of the code (attempt 20 s, call, cleanup) are what bounds a stay.

What is left out, and why that is sound:

- a delivery for an account without a chat cannot be authorized: the row is
  created only for a bound account and a binding is never removed, so the
  branch `recipient_missing` is not reachable and is not in the model;
- the order in which due rows are claimed (`next_attempt_at, id`): the model
  claims any due row, a superset;
- claim and attempt ids are random; a server keeps one of each and forgets it
  with the attempt, so the server's name stands for them;
- inside a process the gate is the predicate `GateFree`; that the gate
  implements it is the subject of `RecipientGate`;
- the unit of time is about four seconds; lease, attempt, call and permit
  keep the order of the real constants, which `ConstantsAssumption` states.

### RecipientGate

`active`, `rebindWaiters` and the channel as the place (`parked`, `woken`) of
every caller that read it. Reading the channel under the lock and waiting for it
afterwards are different steps (`Park` and `Enter` after a wake-up), a caller's
context may end at any time while it waits (`Cancel`).

### TelegramIntake

`updates` is what Telegram has received and `forgotten` how much of it lies
below the largest offset anyone has asked from; `poller` is the memory of the
poller of a server, which a `Restart` sets back to offset 0; `queued` counts the
deliveries of a key. An update is routed, and then handled in a transaction of its
own, which may fail (`HandlingFails`): the code then stops the batch and asks
again from the offset of the failed update. `entitled` are the requests sent from
the chat that was bound then. Time is counted in half days, since a time zone
moves an instant to another local day.

### ReminderFence

A generation is an index of `work`; `quar` holds the quarantine of a work;
`inbox` the receipts; `rev`, `linked`, `booked`, `archived`, `zone` the facts
that writers change; `src`, `group`, `seenZone` the projection; `marker` the
temporal markers. Every transaction that changes any of it first locks the
fence row of the account, so a transaction is one atomic action. What the code does
outside the lock is a program counter in `proc`: a consumer that rolled a
batch back before it writes the quarantine (`RollBack`, `Persist`), a repair that
holds a lease (`ClaimQuarantines`, `Repair`), a read that captured a target
(`Capture`, drain, `Check`, `FinalRead`). `WriterLag` is how far behind `now` the
clock of a writer may be that was read before the fence was locked.

Abstractions: the consumer's application clock is the database clock; on-site
assignments, which never reach the projection, are omitted; a plan has one group
bucket; a marker is keyed by plan and time; the order statuses of a full view are
not distinguished; relinking and cancelling are variants of `Link` and `Unlink`; a
repair that fails changes nothing and is a stutter; the limit of eight claimed
quarantines is above `MaxGen`; a read gives up after 32 rounds in the code, in the
model it may go on, which only adds behaviours; the two reads of `Check` are
taken as one. Corruption of an event is a field of its work: `content` (the
fingerprint differs) or `identity` (kind or generation do not match).

### ReconcileEpochs and ReminderScan

A `Tick` of the epochs is the sequence of transactions of `reconcileEpochTick`; it
may end at any of them (`TickEnds`), by an error or a crash. `works` settle on
their own here, since `ReminderFence` shows that they do. An epoch marks the plans
it leased done without rebuilding anything, and this is what the model does, too:
what it relies on is that the watermark has passed the generation it aims at.

A scan is three actions, `BeginScan` (list what is out of date),
`LoadCandidates` and `CommitScan`, because each statement of a READ COMMITTED
transaction sees what was committed before it; `SaveScanState` is a
transaction of its own. A year has two days, so that an occasion can come back.

### AvatarLifecycle

One subject, chosen in `Init`: a customer, or the account itself. The two packages
(`customer`, `accountprofile`) are two copies of one protocol; where they differ, `subject`
decides: only a customer can be merged and only customers have a reconciler that
looks for forgotten objects; only the account's row may be missing, and only
there the request deletes the object that lost its race.

`exists`, `merged`, `rev` and `current` are the row; `gc` the collection queue
and `due` the part of it whose grace or backoff has passed; `stored`, `damaged` and
`body` the object store; `lock` is the row lock of a maintenance transaction.
A request's transaction is one action, since it holds the row lock and all it
reads elsewhere are immutable objects; what it does before (the unlocked
snapshot, `Publish`) and after (`DropOrphan`) are actions of their own. The
transaction of the collector is split at its call to the store (`Take`, `Delete`,
`Finish`): the session may be lost between (`LoseSession`), the lock is then
free and the row of the queue is back while the call to the store is still on
its way. `Torn` is a deletion that failed or was broken off: it may have removed nothing, a
part, or everything. `CrashRunner` and `Fail` are the end of the process at any step.

Abstractions: an object id is 16 random bytes, so `Fresh` picks an id nobody
has used, and the proofs hold for every way to pick one; a picture is its
checksum; the second put after a temporary error is part of `Publish`; the
listing of the reconciler is one page, and as in the local store one object
that does not verify makes it fail; other subjects are left out, since
their objects have other keys and their rows other locks.

After a lost race the account's path deletes its object at once and ignores the
error (`accountprofile/service.go:328`). The design
(`.codestable/features/2026-08-02-account-profile-center/account-profile-center-design.md:76`,
D11) asks that such an object be deleted at once or provably queued; when the
deletion fails it is neither, and without a reconciler it stays for good.
`GarbageIsCollected` therefore promises the account's objects only once they are
queued (`Tracked`).

### ObjectFiles, PlanningMedia

`ObjectFiles` models what `AvatarLifecycle` and `PlanningMedia` take for granted:
`place` is the directory entry a process sees, `disk` the set of states a loss of
power may leave. A rename changes `place` at once and widens `disk`; a sync of the
parent narrows it. `ancestors` are the directories above the parent, all that
`os.MkdirAll` makes: they have no sync, so from `fresh` they may be lost with everything
in them (`AncestorsAreLost`) until a restart of the machine has found them. `store` is a local
disk or a bucket, chosen in `FilesInit`.

`PlanningMedia` is one asset with its row, two objects, and everyone who may hold
it. The collector claims the row, removes the objects and finishes in separate
steps, and a claim that has expired may be taken over.
The row lock makes one asset enough.

### IdempotencyLedger, Accounts, AttemptBudgets

The ledger models what PostgreSQL adds to the code: an insert waits for an
uncommitted row of the same key, a locking read that waited for a deleted row
finds nothing. `ledgerRuns` lists the committed executions with the clock reading
that each took before it began to wait.

In `Accounts` a request that reads before its transaction takes two steps and its
answer a third, which may be lost. A refresh decides by the clock it read before it waited for the
rows, and the sweeper may come meanwhile. In `AttemptBudgets` a request carries the clock
reading it took before it waited for the row.

### OrderLifecycle, OrderRecord, PlanConnection, Studio

`OrderLifecycle` and `PlanConnection` are the pure functions of `order` and
`shootplanning/crm` as operators on records. `OrderRecord` applies any sequence of
requests to one order; which requests there are is a constant (`OrderRequests`), of which
only `IsRequest` is assumed: what the code refuses before it looks at the order is not among them.
A creation is checked as if it set no field (`order/state_machine.go:80`), so an order may be entered
as cancelled with its dates. `Studio` has customers, orders, slots and plans; each
request is one transaction that locks what it reads and carries the change
through to the plans (`OnOrderCancelled`, `BeforeOrderDelete`,
`ReprojectScheduleMutation`, `MigrateLinkedPlans`). Only a customer's referrer is read without a lock and written
later, so it takes two steps.

### PlanBoard, BusinessDrafts, PlanIngestion, PlanShare

Each command of the board locks the plan and refuses a stale revision, so the
commands are atomic; `BoardAgrees` is about what they must keep for each other.
In `BusinessDrafts` a draft is computed from sources that were read while they
could change, so `BeginGenerate` and `Generate` are two steps. So are `BeginApply`, which
locks the order, the slot and the plan, reads the rules and compares everything with the
draft's source, and `ApplyOrder` or `ApplySchedule`, which write and commit: what is locked
cannot change between them, the rules can. In
`PlanIngestion` `Preview` parses and reconciles in one transaction; the candidates
carry the paragraph they were decided about (`chosen`), which is how
`CommitsWhatWasConfirmed` can tell. A paragraph is its fingerprint and its first line,
for the code finds candidates by the two, and may find one that just went missing in the
place of the fresh one (`Beside`; `reparse.go:377-408`). Candidates on one line are in the
order of their hashes, so `Reconcile` is the set of outcomes of all orders. Decisions are those
the client sends: it acknowledges a change that an earlier preview has shown
(`ShootPlanIngestionPage.tsx:356`). Keeping a dropped paragraph adds a candidate without a
fingerprint (`preview_overrides.go:34-54`), which is `restored`. Paragraphs of which no shot
candidate is made (links, placeholders) are left out. In `PlanShare` a visitor's transaction is a
snapshot, taken by `ReadLink`, `GiveFeedback`, `Claim` or `GiveUp`, and a
commit; a writer that touches a row the visitor will lock marks the visit `stale`
(`Overtaken`), and a stale visit can only roll back.

### SettingsRow, Calendar, ServerLife, RowLocks

`SettingsRow` splits a patch at its locks, because the row it patches may not exist
and cannot be locked. `Calendar` counts instants in hours of UTC with one change
of the zone, and compares the code's sweep over sorted slots with a definition
that asks every single instant. `ServerLife` is `main.go`: the passes of the runners,
the requests and the connections each of them holds. `RowLocks` has one script per
kind of transaction, the sequence of the rows its code locks.

## 3. Runs and bounds

Digest, from `MCDigestDelivery`:

- `digest_one_server`: one process, two acknowledgements, two chats, a business
  delivery, one fault, two bind tokens. Both binds can overlap each other's
  acknowledgement; one fault is what `DuplicateNeedsFault` counts. It also checks
  `NoCallToOldChat` and the refinement of `DeliveryContract`.
- `digest_two_servers`: two processes that overlap during a deployment, two
  faults, one token, for `NoOverlappingCalls`. A hazard between leases, permits and
  pointers takes two attempts and one bind. Servers are interchangeable and only
  safety is checked, so symmetry is sound.
- `digest_settles`: liveness, one process, one fault.
- `digest_rebind_stuck`: a disagreement, see section 5.

Two delays or attempts (`MaxAttempts = 2`) suffice to have a failure that is
retried and one that is final; `MaxIntents = 2` gives each delivery an intent
before and after a bind.

Fence, from `MCReminderFence`:

- `fence_clock`: every mutation, two plans, two start times, two servers: the
  watermark is exact, caught up means projected. A CRM writer may wait a tick for the
  fence, and only such a writer, no later than it waited, makes a group current again
  whose validity has ended. The two servers are interchangeable.
- `fence_live`: liveness, with one server that may crash, one reader and corrupt
  events; that quarantines agree with the works, the refinement of
  `GenerationFence` and what a read serves are checked in the same run.
- `fence_lag`, `fence_two_plans`: disagreements, see section 5.

`MaxFacts` is the last generation a writer may reserve; `MaxGen` leaves room for
the works the temporal probe adds behind them.

Parts that share no row, lock or channel are checked side by side: a behaviour picks
one part in its initial state, takes only its steps, and leaves the others where
they start. Nothing is lost by this, because no step of a part reads the state of
another; where parts do meet, one module has both (`Studio`, `DigestDelivery` with
its binds, `ReminderFence`). The reachable states are the union of those of the
parts, and every part is small enough to be visited in full:

- `background` (`MCBackground`), liveness: the gate with three senders and two
  binds; the epochs with two servers, one plan, two generations and two epochs,
  one crash; the process with two loops and two requests; the avatars with two
  requests, one loop, two objects and one fault. One plan is the least that can be
  leased and left; two epochs are what two servers create at once. One loop is the
  weaker assumption for collection: with more of them garbage is collected as well as
  long as one goes on. No symmetry is used.
- `stores` (`MCStores`), safety: the intake with two servers, two updates, one
  token and two half days (a failed update needs one behind it; a day boundary
  needs two half days); a scanner with an order of the past and one to come and two
  days (the answer of the user is what interleaves); the settings with two
  editors and two binds; the files with two puts, one delete, one loss of power and
  both kinds of store; the calendar with two slots, two days of three hours, and an
  hour that comes twice or not at all on either day; the board with two shots and an item;
  a session of up to four previews of a text of three paragraphs whose first moves away and
  back, and of one that repeats its only paragraph.
- `server` (`MCServer`), safety: the ledger with two requests and the clock at twice
  the lifetime less one; accounts with two browsers, two links, three generations
  and a replay window that can pass; budgets with a limit of one and a window that
  can cross midnight; one order with two days and two amounts, under requests
  that set up to two dates or up to two amounts, and the status; the studio with two
  customers, an order, a slot and a plan; the media with one of everyone who can hold
  an asset; three transactions that take locks; one visitor; two changes of a draft's
  sources. Requests, browsers, attempts and customers are interchangeable (`Alike`), and
  the properties of this run are invariants and action properties, so symmetry is
  sound.
- `studio_unbook`: a disagreement, see section 5.

`MaxFresh` is 2 instead of the code's 4: one attempt that is retried and one that
is not. With one visitor in `server` the other actor is the photographer; that any
number of visitors changes nothing is proved (section 6).

Deadlock: most models stop when their bounds are used up, and their configurations
say so (`CHECK_DEADLOCK FALSE`); `fence_clock` and `fence_live` are checked for deadlock.
That the gate, the epochs, the process and the locks do not get stuck is not left to
the deadlock check: it is what `RebinderServed`, `EpochsEnd`, `StopsWhenAsked` and
`NoWaitCycle` say.

## 4. Fairness

- Digest: the sender loop of a process runs for ever (`SenderRunner`), Telegram's
  client always returns (HTTP timeout), time passes. Faults are finite
  (`MaxFaults`) and have no fairness, binds and enqueueing have none.
- Gate: a caller that can enter does; the callback inside returns (its
  contexts have timeouts). Nobody need arrive.
- Fence: the background runner of a server loops for ever, leases end by the
  clock, time passes. Writers and readers have no fairness.
- Epochs: the same runner ticks again after any error; leases end by the clock; a
  generation that was reserved settles, which is what `EverySettled` shows of the fence.
- Process: the main goroutine goes on, the ten seconds of grace end, and a statement a
  connection is used for returns. No pass of a runner and no request need end by
  itself.
- Avatars: the maintenance loop of a server ticks every hour for ever, a request
  that has begun ends (it has a context with a deadline), grace and backoff
  pass. No request need begin. Crashes, failed calls and damage are finite
  (`MaxFaults`) and have no fairness of their own.

The other parts are checked for safety only: they are request handlers, and what must
happen after a request is decided by its caller.

## 5. Where the code and what is said about it part

These four are runs that TLC ends with a counterexample; `PROJECT.json`
quotes the sentence that is contradicted.

| Run | What happens |
|---|---|
| `digest_rebind_stuck` | after a bind to another chat, a delivery that has an intent tries revision 1 again for ever |
| `fence_lag` | a CRM writer whose clock was read before it waited for the fence brings an ended group back |
| `fence_two_plans` | two plans that start together and are found in the wrong order are never withdrawn |
| `studio_unbook` | a shoot slot that a plan follows cannot be deleted: the foreign key of the projection refuses it |

Other configurations of the same kind can be run by hand, with `tlc -config <file>
<module>`:

| Configuration | What happens |
|---|---|
| `MCDigestDelivery_start.cfg` | the permit's budget is compared once and not consumed by the database round trip that follows, so a call starts after the permit's deadline |
| `MCDigestDelivery_oldchat.cfg` | two processes: that late call goes to a chat the account has left. With one process, as `digest_one_server` shows, the gate prevents it |
| `MCReminderFence_groups.cfg` | moving the slot of a linked order away withdraws nothing; moving the slot of an archived plan's order gives the plan a current group |
| `MCServer_rules.cfg` | `RulesStayLocked`: the rules may be patched between the comparison and the commit of an application (`business/application.go:566` reads them without a lock), which therefore writes a price of rules that no longer hold; the design of plan-business-feedback (lines 471 and 483) counts the rules among what is locked |
| `MCServer_replay.cfg` | `RetriesAreAnswered`: a refresh presented within the grace that waits for its rows until the sweeper has come (`auth_session.go:185-196`) is taken for reuse, and the family is revoked; ADR 006 (lines 30 and 31) promises the same successor within the grace |

The modules state some properties that no run lists because the code does not have them,
and modelling met the rest of what follows on the way.

Reminders and Telegram:

- An epoch marks plans done without rebuilding anything
  (`assignment_background_runner.go:209-218`), `MarkEpochPlanDone` ignores the owner of
  the lease, and rows of completed epochs accumulate.
- A churn reminder is silenced after an order that was placed and cancelled
  (reminder-engine design, line 272). After a merge the churn reminder of the
  surviving customer is generated again under the new key, which design D6 accepts.
- `SaveScanState` reads and then inserts, and may move the checkpoint back.

Locks (`RowLocks`): with `TxKinds = {"merge", "link"}` `NoWaitCycle` fails. A merge
locks customers, orders and plans before the reminder fence (`customer/repository.go:361-388`,
`crm/engine.go:165-204` and `:342`), while `crm-integration-design.md` puts the fence
first (lines 346 and 492, A6). Dismissing a share's claim locks the plan before the
fence (`planshare/assignment.go:664-672`), and binding an asset locks the asset before
the plan (`planningmedia/application.go:362,685`) while the commit of an ingestion
takes them the other way round. `OutOfOrder` names the three, and `server` checks the
others. PostgreSQL ends such a cycle with 40P01, and the requests fail.

Customers, orders and plans (`Studio`, `PlanBoard`):

- `ReferrersAreCurrent`: the referrer is looked up without a lock
  (`customer/repository.go:258-267`); with three customers a merge in between leaves a
  referral to the customer who was merged away.
- `ActiveMeansBooked`: the projection of a plan whose order was cancelled, or that was
  unlinked, turns active again when the user sets or clears the window while the end of the
  former shoot lies ahead (`crm/reducer.go:247,264,609-615`); the CRM design (lines 95-96
  and 449) tells active from cancelled and deleted projections. A plan that was archived and is
  reopened keeps the window it had.
- Offset-paged lists may repeat or skip a row that is written meanwhile.

Budgets (`AttemptBudgets`): `MidnightKeepsTheWindow` fails, because the counters carry
the day in their digest and the resolvers name only today's
(`planshare/mutation_budget.go:71-97`).

Sharing (`PlanShare`): `OldLinksStayDead` fails. A visitor may give up a claim through a
link of an epoch that has ended, since `SelfRevoke` does not compare epochs
(`planshare/assignment.go:927-985`; plan-share design, lines 127 and 614, A4). Feedback
does not retry 40001, and `EnsureFullOpen` goes on after a unique violation in an
aborted transaction.

Ingestion (`PlanIngestion`): `MissingWaitsForTheUser` fails with one repeated paragraph
and four previews. A candidate whose paragraph went missing is dropped at the next
preview without the user's answer (`ingestion/reparse.go:21-27`; capture design D7,
lines 90 and 216). `source_changed` becomes `current` again at the next preview of
the same text, so the acknowledgements are never compared (line 220). A dropped paragraph
that is kept has a second candidate, which nothing carries over: the next preview, whatever its text,
forgets that it was kept (`preview_overrides.go:34-54`, `reparse.go:335`, `reparse.go:392-399`). Of a
paragraph that is repeated a commit may so create two items and keep its first occurrence besides.

Business (`BusinessDrafts`): generating an order draft again after it was applied adds
the same lines again; applying the schedule draft makes the order draft stale.

Pictures (`PlanningMedia`, `ObjectFiles`):

- `ResumeIsSafe`: an attempt of an upload that fails removes the objects it published even
  when a retry under the same key has found them and gone on with them
  (`planningmedia/application.go:200-241`; reference-assets design, line 298). `ReconcileGC` and
  `ReconcilePhysicalOrphans` have no caller in the server.
- `CreatedIsDurable`: `os.MkdirAll` makes the directories above the one that is synced
  (`immutablefs/store.go:118`, `avatarmedia/local.go:86`), and their names are never synced: the first
  objects of an account may be lost whole by a loss of power although they were reported as
  created. `AnswersAreDurable` is what holds: nothing but that can take them. The avatar design (D12)
  asks for the sync of the parent only.
- `FoundIsDurable`: a put that is retried after its sync failed answers that the object was
  there before, although a loss of power may still take it
  (`customer/avatar_application.go:280-289`; avatar design D12 and A8).
- `NeverBroken`: a crash in the middle of a `RemoveAll` leaves metadata without content,
  after which stat, list and delete fail with `ErrIntegrity` for good; a temporary
  directory with its metadata is listed as an object. `immutablefs` never cleans
  temporary directories.

Calendar (`Calendar`): `SegmentsStayInTheirDay` fails for the last day of a month when
the zone changes around its midnight: the code asks for day 32, which no clock shows,
and takes the latest candidate, so the last segment may reach an hour into the next
month (`schedule/openings.go:185,202`). On the other days it holds, which is proved
(`SegmentsStayInside`). `OtherDaysAreShown` fails: a window that does not exist on the day
the clocks go forward makes the whole dashboard an error
(`dashboard/service_v2.go:104-111`), although `openings.go:76-77` says the other days are
still shown.

Process: closing the pool waits without a bound for a request's statement, a second signal is
ignored, and when the listener fails requests are not awaited.

Settings: thresholds in a patch are laid over the defaults and not over the current
values.

## 6. Proofs

The theorems are for every value of the constants that satisfies the named
assumptions: any number of servers, deliveries, chats, tokens, plans,
assignments, generations, visitors, requests. The bounds on counters (`MaxRev`,
`MaxFacts` and the like) are constants too, so a theorem says nothing of them but that
they are numbers. All safety invariants and action properties of the passing runs are
theorems.

Every proof has one shape: an inductive invariant that TLC checked first, a lemma that the
initial states satisfy it, a lemma per action or per kind of step, and the
property from the invariant.

**The digest** (`DigestDeliveryProofs`, `DigestCallProofs`)

- `TypeCorrect`; `PermitsFollowBinding` and `PointersFollowBinding`.
  `LivePermitsAreCurrent` is inductive together with types: only `Rebind` changes the
  revision, and its guard `WaitOutPermits` leaves no live permit; only `Authorize`
  makes a permit, from the binding it reads. Pointers need that an intent of a pointer
  is the binding's at every step and that a bind clears pointers of pending business
  rows.
- `CallsNeverOverlap`, for any number of servers. The invariant says of a worker
  that is on the wire how much of its attempt is left and that, unless the binding has
  moved on, the row's claim is still its own and the lease outlives the attempt; two
  workers on the wire for one recipient would both own the claim. The assumption
  used is `AttemptTimeout + CleanupTimeout < Lease`.
- `DuplicatesNeedFaults`, `OldChatsAreLeft` and `OneServerKeepsContract` (the refinement of
  `DeliveryContract`) are about one server: `ASSUME NEW p, Servers = {p}`, as in
  the run `digest_one_server`. The gate between a sender and a bind is in the memory
  of a process, so with two servers a sender of the one may call the chat that a bind at the other
  has left, and nothing is claimed. `SoloInv` says what one gate buys: while a worker is
  between its check and its answer, the binding is the one it checked and the row's claim
  is its own. And it counts: a row was accepted once more than there were faults at the most, and no
  more often than that until its success is known (`FewDuplicates`).

**Reminders** (`ReminderFenceProofs`, `BackgroundProofs`)

- `WatermarkIsExact`, `WorksSettleOnce`, `QuarantineAndWorkAgree` and `FenceKeepsContract`
  (the refinement of `GenerationFence`). The invariant `FenceInv` is `Core` (types of the
  fence, works reserved up to the target, receipts only for events, and the three
  properties) with the types of the processes and `InHand`: what a process
  holds between two transactions is still a work that was reserved. Every action has
  one of six effects on the core - reserved, reserved settled, consumed,
  quarantined, rebuilt, quiet - and there is a lemma per effect. That the new
  watermark exists is a least-element argument over the naturals.
- `CaughtUpIsProjected` and `ServedReadsAreLatest`. `ProjectionInv` says that a plan whose
  projection is behind its assignments or its timezone is owed a work that is not yet
  applied and recomputes this plan (`Behind(p) => Owed(p)`). A writer that makes a plan
  fall behind reserves such a work in the same transaction; a consumer that applies one
  projects the plan in the same transaction. With `WatermarkExact` nothing is owed when
  the watermark has reached the target.
- `EndedGroupsComeBackLateOnly`, for every `WriterLag`: that ended groups stay ended is
  false (`fence_lag`, a finding of section 5), because a CRM mutation may decide at a time
  it read before it waited. The theorem says what is left: of all steps only such a mutation
  of the plan brings an ended group back, and no later after its end than the wait.
  `MarkersInv`, a marker stands only on a time that has come, is what it rests on: whoever
  decides at the present time names no such start.
- `AnswersStand`: a scan writes only rows that are absent or pending at its commit.

**Telegram** (`BackgroundProofs`)

- `UpdatesAnsweredOnce`. `IntakeInv` has the types, that a poller's batch lies where its offset
  says, that somebody who waits did send `/today` from the chat that was bound (`Waits`),
  and `Passed`: of every update that a poller or Telegram itself has passed over the
  delivery is stored. A restart and a second poller must keep `Passed`; a failed
  update keeps it by not being passed.

**Avatars, files, settings** (`AvatarLifecycleProofs`, `BackgroundProofs`)

- `AvatarTypes`, `PicturesStay`, `QueuedIsBurned`, and `AvatarIsRegister`, the refinement of
  `AvatarRegister`. The invariant `AvatarInv` adds to the types what a request in hand knows of
  its object (`Sound`: published under a fresh id, not current, and, for the account's
  first picture, neither queued nor deleted), that no two requests hold the same
  object, and what a loop inside its transaction knows (`Careful`: its object is
  not current, and queued or gone). `PicturesStay` survives a lost session: the row may then be
  changed by anyone, but a queued id is never made current, because `Clean` refuses it,
  and ids are never drawn twice. A step of a loop or of the world is a stutter of the register,
  because the checksum of the current id never changes.
- `AnswersStayDurable`. `FilesInv` follows a put from its rename to its answer (`AlonePuts`): as long as
  no delete came between, the object is whole wherever a disk shows the directory that was
  published; the sync of the parent then leaves no other disk.
- `LastWritesStand`. `SettingsInv` says that whoever is about to save holds the lock of its kind, has read the
  columns it will write as they are (`ReadOK`), and has the row locked if it found one (`Holds`). Editors and
  binds write different columns, so one that found no row cannot be overtaken in its own.

**The calendar** (`BackgroundProofs`)

- `CalendarsAgree`, for any number of slots, days of a month, hours of a day and changes of the
  zone. The invariant `CalendarInv` is small: finitely many rows that last, each of a name of its
  own. The work is in what the algorithms compute from such rows, in four parts.
  *Days*: the resolved start of a day comes no later than any instant of it, and its resolved end
  after all of them, whether the wall time is shown once, twice or never (`DayStarts`,
  `DayEnds`); so a segment begins on its day and covers the slot's instants there (`SegmentIs`).
  *Order*: a finite set can be sorted (`CanBeSorted`), and the list names every element once.
  *Conflicts*: if two segments meet, so does every segment between them in the order of the starts with the
  earlier one, so the search does not stop before it finds a pair (`Conflicts`). *Openings*: by induction
  on the sorted parts, merging leaves intervals that do not touch and take the same instants
  (`JoinKeepsMerged`), the cursor passes over exactly the gaps between them (`PassOverKeeps`), and the gaps that
  last are the longest free stretches (`GapsAreStretches`). The induction is over the numbers,
  by the least one at which a claim about the fold would fail (`OneMore`, `FoldExists`).
- `SegmentsStayInside`: the converse for segments, which section 5 shows to fail on the last day of the
  month, holds on every other day, however the zone changes.

**Requests** (`ServerProofs`)

- `ClaimsKeepTheirItem` and `StoredAnswersAreCurrent`, from `ShareInv`: a visit that is not stale
  still agrees with what it read. A writer either leaves alone what the visit relies on or
  marks it stale (`WritesOvertake`), and the two properties follow at the commit.
- `KeyedCommandsRunOnce`, from `LedgerInv`: whoever runs the callback owns the row and by the
  clock it read the previous row had expired (`RunnersOwn`), and no committed run outlives
  the row's expiry (`RunsExpire`).
- `DraftsApplyAsOfToday`. An application compares all the sources of its draft with the rows it has locked
  and with the rules it has read; `StillCompared` says that this comparison still holds until it
  commits, of everything but the rules, because no other action changes a locked row. So the value
  it writes is today's under the rules it has read, whatever was read while the draft was computed.
- `AccountsTyped`, `FamiliesStayWhole`, `ReuseStaysReal`. A spent generation has a
  successor (`ChainsGrow`), and one of a family is not spent (`LiveOnes`); browsers and calls hold generations that
  exist (`HeldExist`); what the sweeper has forgotten is past its window for retries
  (`SweptAreOver`). `ReuseStaysReal` rests on the last: a retry that is refused as reused commits after
  its window, whether it was presented too late or the sweeper came before it.
- `WindowsHold`. `BudgetInv`: the row of a day's digest counts the admissions of its latest window, and
  windows of one day start later and later, however late the reading is that is charged
  (`RowCounts`). So a window that is over is never added to.

**Orders, plans, pictures** (`StudioProofs`)

- `OrdersStayConsistent`: what `OrderLifecycle` makes of an order keeps its dates and money with its stage
  (`FactsAgree`), for every set of requests, each of which may set any of the columns
  (`IsRequest`), and for both modes of creation.
- `ConnectionsStayTrue`, `WindowsStayTheUsers`, `CopiesFollowTheShoot`. There is a lemma for every
  reducer of `PlanConnection` that says what it may do to a plan (links, projection, window),
  and one for every request that says which plans it reaches. A plan is `Disciplined`: a copied
  window hangs on a projection that is there and that the user has not suppressed.
- `HeldAssetsAreKept`, `RemovalsAreSafe`. `MediaInv` adds to `HeldIsKept` that an asset that was claimed stays
  claimed or gone (`ClaimsAreFinal`), so that a worker whose claim was taken over removes only what may
  be removed, and what the orphan sweep knows of an object it is about to remove: that no upload
  can insert a row for it any more (`ExpectsRightly`, `OrphansAreUnowned`,
  `UploadersFindNothing`). The grace period must not be zero: the sweep would remove what
  was published an instant ago.
- `BoardStaysDerived`. `BoardInv` adds types, that a void names an earlier entry, and that finitely
  many shots are on the board below some place. The outcome of a shot depends only on the
  entries that count for it (`SameOutcome`), so an entry for another shot leaves it
  alone. Numbering along any list of all shots gives every shot a place of its own
  (`NumberedKeeps`); that the shots can be listed in the order of their places
  (`Sortable`) is by the rank of a shot, which is an injection of the board
  into as many numbers.
- `CommitsStayConfirmed`. `IngestInv` says that the candidates of a session are those of its text
  (`CandidatesOK`): each that is not missing stands at a paragraph, every paragraph has one, no two that
  are current share a line, and what was decided was decided about the present paragraph.
  `ReconcileKeeps` is that any new text keeps this, in every outcome of `Reconcile`. It follows from what
  the alignment of the two texts is, whatever its table holds: pairs of equal paragraphs in order
  (`AnchorsAlign`), so that a candidate carried over unchanged keeps its paragraph, while every other that
  comes to a paragraph, and every one that goes missing, is unsure and marked with the present revision, which
  no decision of the same preview can acknowledge. Two candidates at a paragraph are therefore never both
  current, and only current ones are committed. The alignment is a recursive function over the
  cells of a table; that it exists and that it is aligned is shown by the least
  distance from the end of the table at which it would not be.

**Waiting** (`LockProofs`)

- `OrderedLocksNeverCycle`, for every set of kinds whose scripts climb the common order. The
  argument is the classical one: of the rows a set of transactions waits for take the
  highest; its holder waits for a higher one. The invariant says that what a transaction
  holds is what its script has taken so far, and lies below what it waits for.
- `GateExcludes`, `GateCounts`, `GateWakes`, `GatePrefersBinds`. The invariant is the conjunction of the
  first three with the types; the count of waiters is a cardinality, so finite sets
  of callers are assumed.

**Assumptions.** Those on the order of time limits are what `ConstantsAssumption` of each module
states of the constants of the code. Proofs made some more necessary, all of them true of the
code: `Grace # 0` and `NoUploader \notin Uploads` (`PlanningMedia`), `MaxPrice # 0`
(`BusinessDrafts`), that nobody is both a put and a delete (`ObjectFiles`) or both an editor and a bind
(`SettingsRow`), `IsRequest` (`OrderLifecycle`), and that a day has more hours than a change of the zone
adds or takes (`Calendar`). TLC evaluates them on the
instances. Two `CASE`s of `PlanConnection` and `Accounts` had guards that overlap, so that the choice
between their arms was arbitrary and could not be reasoned about; they are conditionals now, in the order of
the code. `PlanBoard` states the sorting of the board as a choice among the lists of the shots, and
`PlanIngestion` the table of the alignment as a function of a cell instead of two numbers.
`Calendar` states its sorting as a choice, too, and its folds as recursive functions of how many
elements they have seen. The code breaks a tie between segments that start together by the id of the
slot; the choice leaves it open, and the theorem shows that it does not matter.

**Only model-checked.** Liveness under fairness is outside the prover's reach:
`EventuallySettled`, `RebinderServed`, `EverySettled`, `EndedIsWithdrawn`, `EpochsEnd`,
`StopsWhenAsked`, `GarbageIsCollected`. The theorems about one server have
the hypotheses named above and no more is claimed.

## 7. Not modelled

- HTTP decoding, routing and generated code (`api.gen.go`, the handlers of
  `platform/httpapi`): they translate between JSON and the services and keep no
  state; half of the backend's lines are there.
- The front end, the operation scripts and the operator tools: no state the server
  relies on.
- Cryptography, the decoding and rendering of images, the text parser of the
  ingestion, the wording of messages: pure functions of data the models abstract
  to identities.
- Packages: rows that are edited alone. Reminders the user writes: the same.
- The redaction of old intents and other retention: they remove what nothing reads any
  more.
- Pages of lists, the figures of the dashboard apart from the calendar, and the
  export: queries that change nothing.
- Reads of avatar content, the audit of pointers that only logs, and the pictures of a
  share.
