--------------------------- MODULE AvatarLifecycle ---------------------------
(***************************************************************************)
(* The avatar of one subject: a customer (backend/internal/customer) or    *)
(* the account itself (backend/internal/accountprofile).  The row holds a  *)
(* pointer to an immutable object in a store that takes no part in         *)
(* transactions.  A request publishes a fresh object first and switches    *)
(* the pointer afterwards, under the lock of the row; what is no longer    *)
(* named is queued, and the maintenance loop of every server deletes it    *)
(* after a grace period.  For customers the loop also looks for objects    *)
(* that nobody queued; for the account the request itself deletes the      *)
(* object that lost the race.                                              *)
(*                                                                         *)
(* The name of an object contains 16 random bytes: it is a value of        *)
(* Objects that nobody has used.  The pictures are compared by checksum:   *)
(* a content is a value of Contents.                                       *)
(***************************************************************************)
EXTENDS Naturals, FiniteSets

CONSTANTS Requests,   \* requests that set or remove the avatar
          Runners,    \* servers, each with one maintenance loop
          Objects,    \* BOUND: object ids
          Contents,   \* pictures
          None,
          MaxFresh,   \* maxFreshGenerationAttempts
          MaxFaults   \* BOUND: crashes, failed calls, lost sessions, damage

ASSUME AvatarAssumption ==
    /\ None \notin Objects \cup Contents \cup Runners
    /\ MaxFresh \in Nat /\ MaxFaults \in Nat

VARIABLES
    subject,   \* "customer" or "profile", chosen once
    exists,    \* the row exists; a profile's row is created by the first change
    merged,    \* the customer has been merged into another
    rev,       \* avatar_revision
    current,   \* avatar_object_id
    gc,        \* object ids with a row in the collection queue
    due,       \* those whose grace or backoff has passed
    body,      \* the content an id was drawn for
    stored,    \* ids under which the store has something
    damaged,   \* those that do not verify (ErrObjectIntegrity)
    lock,      \* the loop whose transaction holds the row's lock
    req, run,  \* memory of the requests and of the loops
    faults

rowVars == <<subject, exists, merged, rev, current>>
queueVars == <<gc, due>>
storeVars == <<body, stored, damaged>>
vars == <<rowVars, queueVars, storeVars, lock, req, run, faults>>

Working == {"verify", "publish", "switch", "insert", "orphan", "remove"}
Answers == {"ok", "conflict", "refused", "failed"}
Holding == {"switch", "insert", "orphan"}   \* a request with a published object
Deleting == {"delete", "finish"}            \* a loop inside its transaction

Request == [pc : Working \cup Answers \cup {"none"}, want : Contents \cup {None},
            expected : Nat, obj : Objects \cup {None}, left : Nat]
Runner == [pc : {"idle", "enqueue", "due", "collect"} \cup Deleting,
           seen : SUBSET Objects, todo : SUBSET Objects, obj : Objects \cup {None}]

\* The rows are well formed: only a queued id is due, only a stored one can
\* be damaged, and the memory of requests and loops keeps its ranges.
TypeOK ==
    /\ subject \in {"customer", "profile"}
    /\ exists \in BOOLEAN /\ merged \in BOOLEAN
    /\ rev \in Nat /\ current \in Objects \cup {None}
    /\ gc \subseteq Objects /\ due \subseteq gc
    /\ body \in [Objects -> Contents \cup {None}]
    /\ stored \subseteq Objects /\ damaged \subseteq stored
    /\ lock \in Runners \cup {None}
    /\ req \in [Requests -> Request] /\ run \in [Runners -> Runner]
    /\ faults \in 0..MaxFaults

NoRequest == [pc |-> "none", want |-> None, expected |-> 0, obj |-> None, left |-> MaxFresh]
IdleRunner == [pc |-> "idle", seen |-> {}, todo |-> {}, obj |-> None]

Init ==
    /\ subject \in {"customer", "profile"}
    /\ exists \in BOOLEAN /\ (exists <=> subject = "customer")
    /\ merged = FALSE
    /\ rev = 0 /\ current = None
    /\ gc = {} /\ due = {}
    /\ body = [o \in Objects |-> None] /\ stored = {} /\ damaged = {}
    /\ lock = None
    /\ req = [r \in Requests |-> NoRequest] /\ run = [n \in Runners |-> IdleRunner]
    /\ faults = 0

Fault == faults < MaxFaults /\ faults' = faults + 1
NoFault == UNCHANGED faults

\* Stat finds the object and its bytes have the checksum.
Readable(o) == o \in stored /\ o \notin damaged
Shows(c) == current # None /\ body[current] = c
\* A deletion that is broken off or answered with an error has removed
\* nothing, a part, or everything.
Torn(o) == \/ UNCHANGED <<stored, damaged>>
           \/ damaged' = damaged \cup ({o} \cap stored) /\ UNCHANGED stored
           \/ stored' = stored \ {o} /\ damaged' = damaged \ {o}
Named == {current} \ {None}

-----------------------------------------------------------------------------
(* Requests.                                                               *)

To(r, pc) == req' = [req EXCEPT ![r].pc = pc,
                                ![r].obj = IF pc \in Holding THEN req[r].obj ELSE None,
                                ![r].left = IF pc \in Answers THEN 0 ELSE req[r].left]
\* The transaction commits; its answer may be lost.
Committed(r) == \/ To(r, "ok") /\ NoFault
                \/ To(r, "failed") /\ Fault

\* A request with the revision its client has seen; Set starts with an
\* unlocked snapshot.
Begin(r) ==
    /\ req[r].pc = "none"
    /\ \E c \in Contents \cup {None}, e \in 0..rev :
         req' = [req EXCEPT ![r].want = c, ![r].expected = e,
                            ![r].pc = IF c = None THEN "remove"
                                      ELSE IF merged THEN "refused"
                                      ELSE IF Shows(c) THEN "verify" ELSE "publish"]
    /\ UNCHANGED <<rowVars, queueVars, storeVars, lock, run, faults>>

\* verifySameContentCurrent: the picture is there already and can be read.
VerifyAnswer(r) ==
    IF merged THEN "refused"
    ELSE IF ~Shows(req[r].want) THEN "publish"
    ELSE IF Readable(current) THEN "ok"
    ELSE IF rev # req[r].expected THEN "conflict" ELSE "publish"
Verify(r) ==
    /\ req[r].pc = "verify" /\ lock = None
    /\ To(r, VerifyAnswer(r))
    /\ UNCHANGED <<rowVars, queueVars, storeVars, lock, run, faults>>

\* 16 random bytes: an id that nobody has drawn, and one is as good as another.
Fresh == CHOOSE o \in Objects : body[o] = None
\* putFreshGeneration under an id nobody has used: published, failed (with
\* or without a trace in the store), or stored but found not to verify.
Publish(r) ==
    /\ req[r].pc = "publish" /\ req[r].left > 0
    /\ \E o \in Objects :
         /\ body[o] = None /\ o = Fresh
         /\ body' = [body EXCEPT ![o] = req[r].want]
         /\ \/ /\ stored' = stored \cup {o} /\ NoFault
               /\ req' = [req EXCEPT ![r].obj = o, ![r].pc = "switch", ![r].left = req[r].left - 1]
               /\ UNCHANGED damaged
            \/ /\ stored' \in {stored, stored \cup {o}} /\ Fault
               /\ To(r, "failed")
               /\ UNCHANGED damaged
            \/ /\ stored' = stored \cup {o} /\ damaged' = damaged \cup {o} /\ Fault
               /\ req' = [req EXCEPT ![r].left = req[r].left - 1]
    /\ UNCHANGED <<rowVars, queueVars, lock, run>>

Exhausted(r) ==
    /\ req[r].pc = "publish" /\ req[r].left = 0
    /\ To(r, "failed")
    /\ UNCHANGED <<rowVars, queueVars, storeVars, lock, run, faults>>

(***************************************************************************)
(* The switching transaction.  It refuses an object that is queued: once   *)
(* queued, an id is never promoted, however late its deletion.             *)
(***************************************************************************)
CleanOrQueued(o) == TRUE
Clean(o) == o \notin gc
InSwitch(r) == req[r].pc = "switch" /\ lock = None
Usable(r) == InSwitch(r) /\ ~merged /\ Clean(req[r].obj) /\ Readable(req[r].obj)
ShownAlready(r) == Shows(req[r].want) /\ Readable(current)

RefuseMerged(r) ==
    /\ InSwitch(r) /\ merged
    /\ To(r, "refused")
    /\ UNCHANGED <<rowVars, queueVars, storeVars, lock, run, faults>>

StartOver(r) ==
    /\ InSwitch(r) /\ ~merged /\ ~(Clean(req[r].obj) /\ Readable(req[r].obj))
    /\ To(r, "publish")
    /\ UNCHANGED <<rowVars, queueVars, storeVars, lock, run, faults>>

KeepShown(r) ==
    /\ Usable(r) /\ ShownAlready(r)
    /\ gc' = gc \cup {req[r].obj}
    /\ Committed(r)
    /\ UNCHANGED <<rowVars, due, storeVars, lock, run>>

\* The account's own path deletes the object that lost (orphan = true).
Beaten(r) == To(r, IF subject = "profile" THEN "orphan" ELSE "conflict")
LoseRace(r) ==
    /\ Usable(r) /\ ~ShownAlready(r) /\ rev # req[r].expected
    /\ Beaten(r)
    /\ UNCHANGED <<rowVars, queueVars, storeVars, lock, run, faults>>

NextRevisionBlind(r) == rev
NextRevision(r) == rev + 1
PointTo(o) == /\ current' = o /\ exists' = TRUE
              /\ gc' = gc \cup Named
              /\ UNCHANGED <<subject, merged, due>>

SwitchPointer(r) ==
    /\ Usable(r) /\ ~ShownAlready(r) /\ exists /\ rev = req[r].expected
    /\ rev' = NextRevision(r)
    /\ PointTo(req[r].obj)
    /\ Committed(r)
    /\ UNCHANGED <<storeVars, lock, run>>

\* Nothing to lock: the profile has no row yet.
NoRow(r) ==
    /\ Usable(r) /\ ~exists /\ rev = req[r].expected
    /\ To(r, "insert")
    /\ UNCHANGED <<rowVars, queueVars, storeVars, lock, run, faults>>

\* InsertAvatarPointer; if another request inserted the row meanwhile, an
\* update that still asks for revision 0.
Insert(r) ==
    /\ req[r].pc = "insert" /\ lock = None
    /\ IF rev = 0
       THEN /\ rev' = NextRevision(r) /\ PointTo(req[r].obj) /\ Committed(r)
       ELSE Beaten(r) /\ UNCHANGED <<rowVars, queueVars, faults>>
    /\ UNCHANGED <<storeVars, lock, run>>

\* "_ = s.objects.Delete(ctx, key)": an error is ignored.
DropOrphan(r) ==
    /\ req[r].pc = "orphan"
    /\ To(r, "conflict")
    /\ \/ /\ stored' = stored \ {req[r].obj} /\ damaged' = damaged \ {req[r].obj} /\ NoFault
       \/ Fault /\ Torn(req[r].obj)
    /\ UNCHANGED <<rowVars, queueVars, body, lock, run>>

\* Remove clears the pointer; also a merged customer's.
Remove(r) ==
    /\ req[r].pc = "remove" /\ lock = None
    /\ IF current = None \/ rev # req[r].expected
       THEN /\ To(r, IF current = None THEN "ok" ELSE "conflict")
            /\ UNCHANGED <<rowVars, queueVars, faults>>
       ELSE /\ current' = None /\ rev' = NextRevision(r) /\ gc' = gc \cup Named
            /\ Committed(r)
            /\ UNCHANGED <<subject, exists, merged, due>>
    /\ UNCHANGED <<storeVars, lock, run>>

\* An error before the commit, or the end of the process.
Fail(r) ==
    /\ req[r].pc \in Working /\ Fault
    /\ To(r, "failed")
    /\ UNCHANGED <<rowVars, queueVars, storeVars, lock, run>>

-----------------------------------------------------------------------------
(* Maintenance.  RunOnce: the inventory, then what is due.                 *)

At(n, pc) == run' = [run EXCEPT ![n].pc = pc]

\* The page of objects is read before the transaction that judges it.  One
\* object that does not verify makes the whole listing fail.
List(n) ==
    /\ run[n].pc = "idle" /\ subject = "customer" /\ damaged = {}
    /\ run' = [run EXCEPT ![n].pc = "enqueue", ![n].seen = stored]
    /\ UNCHANGED <<rowVars, queueVars, storeVars, lock, req, faults>>

NoList(n) ==
    /\ run[n].pc = "idle" /\ (subject = "profile" \/ damaged # {})
    /\ At(n, "due")
    /\ UNCHANGED <<rowVars, queueVars, storeVars, lock, req, faults>>

Orphans(n) == run[n].seen \ Named
Enqueue(n) ==
    /\ run[n].pc = "enqueue" /\ lock = None
    /\ gc' = gc \cup Orphans(n)
    /\ run' = [run EXCEPT ![n].pc = "due", ![n].seen = {}]
    /\ UNCHANGED <<rowVars, due, storeVars, lock, req, faults>>

ListDue(n) ==
    /\ run[n].pc = "due"
    /\ run' = [run EXCEPT ![n].pc = IF due = {} THEN "idle" ELSE "collect", ![n].todo = due]
    /\ UNCHANGED <<rowVars, queueVars, storeVars, lock, req, faults>>

NoneDue(n) ==
    /\ run[n].pc = "collect" /\ run[n].todo = {}
    /\ At(n, "idle")
    /\ UNCHANGED <<rowVars, queueVars, storeVars, lock, req, faults>>

\* The next item, under the lock of the row: gone, current again, or to be
\* deleted.
Take(n) ==
    /\ run[n].pc = "collect" /\ lock = None
    /\ \E o \in run[n].todo :
         IF o \in gc /\ o # current
         THEN /\ run' = [run EXCEPT ![n].pc = "delete", ![n].obj = o, ![n].todo = run[n].todo \ {o}]
              /\ lock' = n
              /\ UNCHANGED queueVars
         ELSE /\ run' = [run EXCEPT ![n].todo = run[n].todo \ {o}]
              /\ gc' = gc \ {o} /\ due' = due \ {o}
              /\ UNCHANGED lock
    /\ UNCHANGED <<rowVars, storeVars, req, faults>>

\* The session is lost: the lock is free, the transaction rolled back, and
\* the call to the store goes on.
LoseSession(n) ==
    /\ run[n].pc \in Deleting /\ lock = n /\ Fault
    /\ lock' = None
    /\ UNCHANGED <<rowVars, queueVars, storeVars, req, run>>

Delete(n) ==
    /\ run[n].pc = "delete"
    /\ stored' = stored \ {run[n].obj} /\ damaged' = damaged \ {run[n].obj}
    /\ At(n, "finish")
    /\ UNCHANGED <<rowVars, queueVars, body, lock, req, faults>>

Release(n) == lock' = IF lock = n THEN None ELSE lock
BackoffForgets(n) == gc' = gc \ {run[n].obj} /\ due' = due \ {run[n].obj}
Backoff(n) == due' = due \ {run[n].obj} /\ UNCHANGED gc

\* The call fails, the transaction rolls back; then RecordGCFailure.
DeleteFails(n) ==
    /\ run[n].pc = "delete" /\ Fault
    /\ Torn(run[n].obj) /\ Backoff(n) /\ Release(n)
    /\ run' = [run EXCEPT ![n].pc = "collect", ![n].obj = None]
    /\ UNCHANGED <<rowVars, body, req>>

\* DeleteGC and commit, or RecordGCFailure if the session is lost.
DequeueHalf(n) == gc' = gc \ {run[n].obj} /\ UNCHANGED due
Dequeue(n) ==
    IF lock = n THEN gc' = gc \ {run[n].obj} /\ due' = due \ {run[n].obj} ELSE Backoff(n)
Finish(n) ==
    /\ run[n].pc = "finish"
    /\ Dequeue(n) /\ Release(n)
    /\ run' = [run EXCEPT ![n].pc = "collect", ![n].obj = None]
    /\ UNCHANGED <<rowVars, storeVars, req, faults>>

CrashRunner(n) ==
    /\ run[n].pc # "idle" /\ Fault
    /\ Release(n)
    /\ run' = [run EXCEPT ![n] = IdleRunner]
    /\ IF run[n].pc = "delete" THEN Torn(run[n].obj) ELSE UNCHANGED <<stored, damaged>>
    /\ UNCHANGED <<rowVars, queueVars, body, req>>

-----------------------------------------------------------------------------
(* The rest of the world.                                                  *)

\* avatarGCGrace, or the delay after a failed deletion, has passed.
TimePasses(o) ==
    /\ o \in gc \ due
    /\ due' = due \cup {o}
    /\ UNCHANGED <<rowVars, gc, storeVars, lock, req, run, faults>>

\* The customer is merged; the first change of the display name creates the
\* profile's row.
Merge ==
    /\ subject = "customer" /\ ~merged /\ lock = None
    /\ merged' = TRUE
    /\ UNCHANGED <<subject, exists, rev, current, queueVars, storeVars, lock, req, run, faults>>
PatchDisplayName ==
    /\ subject = "profile" /\ ~exists
    /\ exists' = TRUE
    /\ UNCHANGED <<subject, merged, rev, current, queueVars, storeVars, lock, req, run, faults>>

Damage(o) ==
    /\ Readable(o) /\ Fault
    /\ damaged' = damaged \cup {o}
    /\ UNCHANGED <<rowVars, queueVars, body, stored, lock, req, run>>

RequestStep(r) ==
    \/ Begin(r) \/ Verify(r) \/ Publish(r) \/ Exhausted(r) \/ RefuseMerged(r)
    \/ StartOver(r) \/ KeepShown(r) \/ LoseRace(r) \/ SwitchPointer(r) \/ NoRow(r)
    \/ Insert(r) \/ DropOrphan(r) \/ Remove(r) \/ Fail(r)

RunnerStep(n) ==
    \/ List(n) \/ NoList(n) \/ Enqueue(n) \/ ListDue(n) \/ NoneDue(n) \/ Take(n)
    \/ LoseSession(n) \/ Delete(n) \/ DeleteFails(n) \/ Finish(n) \/ CrashRunner(n)

Next ==
    \/ \E r \in Requests : RequestStep(r)
    \/ \E n \in Runners : RunnerStep(n)
    \/ \E o \in Objects : TimePasses(o) \/ Damage(o)
    \/ Merge \/ PatchDisplayName

Spec == Init /\ [][Next]_vars

\* A loop runs every hour, a request that has begun ends, time passes.
Fairness ==
    /\ \A n \in Runners : WF_vars(RunnerStep(n))
    /\ \A r \in Requests : WF_vars(req[r].pc \in Working /\ RequestStep(r))
    /\ \A o \in Objects : WF_vars(TimePasses(o))
FairSpec == Spec /\ Fairness

-----------------------------------------------------------------------------
(* Properties.                                                             *)

\* The pointer names an object the store has: no deletion of collectAccount
\* or of a request that lost its race, however late it reaches the store and
\* from whichever server, hits the picture on show.  (The store may damage
\* it.)
PointerNamesObject == current # None => current \in stored

\* A queued id is not current and no request will make it so: GC rows burn
\* the id (publishAndSwitch, reconcileAccount).
CondemnedIsNotCurrent == current \notin gc

Shown == IF current = None THEN None ELSE body[current]
Asked == [r \in Requests |-> [want |-> req[r].want, expected |-> req[r].expected]]
Answer == [r \in Requests |-> IF req[r].pc \in Working THEN "open" ELSE req[r].pc]
Register == INSTANCE AvatarRegister WITH shown <- Shown, asked <- Asked, answer <- Answer
\* Clients see a register that is changed at the revision they have seen:
\* Set and Remove apply a change once, at that avatar_revision, and answer
\* with a conflict only if another change came first.
ImplementsRegister == Register!Spec

InHand(o) == \E r \in Requests : req[r].pc \in Holding /\ req[r].obj = o
Garbage(o) == o \in stored /\ o # current /\ ~InHand(o)
Tracked(o) == subject = "customer" \/ o \in gc
\* What nobody names and no request holds is deleted in the end by
\* reconcileAccount and collectAccount, unless a damaged object breaks the
\* listing; for the account's own avatar, which has no reconciler, this is
\* promised only of what has been queued.
GarbageIsCollected ==
    \A o \in Objects : Garbage(o) /\ Tracked(o) ~> o \notin stored \/ damaged # {}
=============================================================================
