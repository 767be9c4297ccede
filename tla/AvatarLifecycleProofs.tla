------------------------ MODULE AvatarLifecycleProofs ------------------------
(***************************************************************************)
(* Proofs about AvatarLifecycle.  The inductive invariant says who may     *)
(* name an object: the pointer names a stored object that is not queued;   *)
(* a request that has published holds an object of its own; and a loop     *)
(* inside its transaction, whose call to the store may be late, works on   *)
(* an object that is queued or gone already, so that no switch accepts it. *)
(***************************************************************************)
EXTENDS AvatarLifecycle, TLAPS

\* What is known of a request, by what it is about to do.
Sound(v) ==
    /\ v.expected <= rev
    /\ v.pc = "remove" => v.want = None
    /\ v.pc \in {"verify", "publish"} \cup Holding => v.want \in Contents
    /\ v.pc \in Holding => v.obj \in Objects /\ v.obj # current /\ body[v.obj] = v.want
    /\ v.pc = "insert" => /\ v.expected = 0 /\ subject = "profile"
                          /\ v.obj \in stored /\ v.obj \notin gc
    /\ v.pc = "orphan" => v.expected < rev

\* What is known of a loop.
Careful(v) ==
    /\ \A o \in v.seen : body[o] # None
    /\ subject = "profile" => v.seen = {}
    /\ v.pc \in Deleting => /\ v.obj \in Objects /\ v.obj # current /\ body[v.obj] # None
                            /\ v.obj \in gc \/ v.obj \notin stored
    /\ v.pc = "finish" => v.obj \notin stored

Apart(v, w) == v.pc \in Holding /\ w.pc \in Holding => v.obj # w.obj

RequestsSound == \A r \in Requests : Sound(req[r])
LoopsCareful == \A n \in Runners : Careful(run[n])
ObjectsOwned == \A r, q \in Requests : r # q => Apart(req[r], req[q])
DrawnOnly == \A o \in stored \cup gc : body[o] # None
RowInv == /\ ~exists => subject = "profile" /\ rev = 0 /\ current = None
          /\ current # None => current \in stored /\ current \notin gc

AvatarInv == /\ TypeOK /\ RowInv /\ DrawnOnly
             /\ RequestsSound /\ ObjectsOwned /\ LoopsCareful
LEMMA FaultsCounted ==
    ASSUME faults \in 0..MaxFaults, NoFault \/ Fault
    PROVE  faults' \in 0..MaxFaults
  BY AvatarAssumption DEF NoFault, Fault

-----------------------------------------------------------------------------
(* Requests.                                                               *)

\* What a request keeps when it goes on without touching the row, the queue
\* or the store: it holds no object that it did not hold before.
LEMMA RequestMoves ==
    ASSUME AvatarInv, NEW r \in Requests, NEW w \in Request,
           req' = [req EXCEPT ![r] = w], Sound(w),
           w.pc \in Holding => req[r].pc \in Holding /\ w.obj = req[r].obj,
           faults' \in 0..MaxFaults,
           UNCHANGED <<rowVars, queueVars, storeVars, lock, run>>
    PROVE  AvatarInv'
<1>1. /\ req' \in [Requests -> Request] /\ req'[r] = w
      /\ \A q \in Requests : q # r => req'[q] = req[q]
  BY DEF AvatarInv, TypeOK
<1>2. (TypeOK /\ RowInv /\ DrawnOnly /\ LoopsCareful)'
  BY <1>1 DEF AvatarInv, TypeOK, RowInv, DrawnOnly, LoopsCareful, Careful,
              rowVars, queueVars, storeVars
<1>3. \A v \in Request : Sound(v) <=> Sound(v)'
  BY DEF Sound, rowVars, queueVars, storeVars
<1>4. RequestsSound'
  BY <1>1, <1>3 DEF AvatarInv, RequestsSound, TypeOK
<1>5. ObjectsOwned'
  BY <1>1 DEF AvatarInv, ObjectsOwned, Apart
<1>6. QED
  BY <1>2, <1>4, <1>5 DEF AvatarInv

\* To as an update of one record.
Onto(v, pc) == [v EXCEPT !.pc = pc, !.obj = IF pc \in Holding THEN v.obj ELSE None,
                         !.left = IF pc \in Answers THEN 0 ELSE v.left]

LEMMA ToType ==
    ASSUME AvatarInv, NEW r \in Requests, NEW pc \in Working \cup Answers, To(r, pc)
    PROVE  /\ Onto(req[r], pc) \in Request
           /\ req' = [req EXCEPT ![r] = Onto(req[r], pc)]
  BY AvatarAssumption DEF To, Onto, AvatarInv, TypeOK, Request

\* A step that only answers the request, or sends it back.
LEMMA Sidesteps ==
    ASSUME AvatarInv, NEW r \in Requests,
           \/ Verify(r) \/ Exhausted(r) \/ RefuseMerged(r) \/ StartOver(r)
           \/ LoseRace(r) \/ NoRow(r) \/ Fail(r)
    PROVE  AvatarInv'
<1>1. PICK pc \in Answers \cup {"publish", "insert", "orphan"} :
        /\ To(r, pc) /\ req[r].pc \in Working
        /\ pc = "publish" => req[r].pc \in {"verify", "switch"}
        /\ pc = "orphan" => req[r].pc = "switch" /\ rev # req[r].expected
        /\ pc = "insert" => NoRow(r)
  BY DEF Verify, VerifyAnswer, Exhausted, RefuseMerged, StartOver, LoseRace, Beaten,
         NoRow, Fail, InSwitch, Usable, Answers, Working
<1>2. PICK w \in Request : w = Onto(req[r], pc) /\ req' = [req EXCEPT ![r] = w]
  BY <1>1, ToType DEF Working
<1>3. w.pc \in Holding => req[r].pc \in Holding /\ w.obj = req[r].obj
  BY <1>1, <1>2 DEF Onto, Holding, Answers, NoRow, Usable, InSwitch, Request
<1>4. Sound(w)
  <2>1. Sound(req[r]) /\ req[r] \in Request /\ rev \in Nat
    BY DEF AvatarInv, RequestsSound, TypeOK
  <2>2. CASE pc \in Answers
    BY <1>2, <2>1, <2>2 DEF Onto, Sound, Request, Answers, Holding
  <2>3. CASE pc = "publish"
    BY <1>1, <1>2, <2>1, <2>3 DEF Onto, Sound, Request, Holding
  <2>4. CASE pc = "orphan"
    BY <1>1, <1>2, <2>1, <2>4 DEF Onto, Sound, Request, Holding
  <2>5. CASE pc = "insert"
    BY <1>1, <1>2, <2>1, <2>5
       DEF Onto, Sound, Request, Holding, NoRow, Usable, Clean, Readable, AvatarInv, RowInv,
           InSwitch
  <2>6. QED
    BY <2>2, <2>3, <2>4, <2>5
<1>5. faults' \in 0..MaxFaults /\ UNCHANGED <<rowVars, queueVars, storeVars, lock, run>>
  BY AvatarAssumption
     DEF Verify, Exhausted, RefuseMerged, StartOver, LoseRace, NoRow, Fail, Fault,
         AvatarInv, TypeOK
<1>6. QED
  BY <1>2, <1>3, <1>4, <1>5, RequestMoves

LEMMA Begins ==
    ASSUME AvatarInv, NEW r \in Requests, Begin(r)
    PROVE  AvatarInv'
<1>1. PICK c \in Contents \cup {None}, e \in 0..rev, pc \in {"remove", "refused", "verify", "publish"} :
        /\ req' = [req EXCEPT ![r].want = c, ![r].expected = e, ![r].pc = pc]
        /\ pc = "remove" <=> c = None
  BY DEF Begin
<1>2. PICK w : w = [req[r] EXCEPT !.want = c, !.expected = e, !.pc = pc]
  OBVIOUS
<1>3. req[r] \in Request /\ rev \in Nat
  BY DEF AvatarInv, TypeOK
<1>4. w \in Request /\ Sound(w) /\ w.pc \notin Holding
  <2>1. w.pc = pc /\ w.want = c /\ w.expected = e /\ pc \notin Holding
    BY <1>2, <1>3 DEF Request, Holding
  <2>2. (pc = "remove" => c = None) /\ (pc # "remove" => c \in Contents)
    BY <1>1
  <2>3. e \in Nat /\ e <= rev
    BY <1>1, <1>3
  <2>4. w \in Request
    BY <1>1, <1>2, <1>3, <2>3 DEF Request, Working, Answers
  <2>5. Sound(w)
    BY <2>1, <2>2, <2>3 DEF Sound, Holding
  <2>6. QED
    BY <2>1, <2>4, <2>5
<1>5. req' = [req EXCEPT ![r] = w]
  BY <1>1, <1>2, <1>3 DEF AvatarInv, TypeOK
<1>6. QED
  BY <1>4, <1>5, RequestMoves DEF Begin, AvatarInv, TypeOK

\* A new id: nobody names it yet.
LEMMA ObjectDrawn ==
    ASSUME AvatarInv, NEW r \in Requests, NEW w \in Request, NEW o \in Objects,
           NEW c \in Contents, body[o] = None, body' = [body EXCEPT ![o] = c],
           req' = [req EXCEPT ![r] = w], Sound(w)', w.pc \in Holding => w.obj = o,
           stored' \in {stored, stored \cup {o}}, damaged' \subseteq stored',
           faults' \in 0..MaxFaults, UNCHANGED <<rowVars, queueVars, lock, run>>
    PROVE  AvatarInv'
<1>1. /\ req' \in [Requests -> Request] /\ req'[r] = w
      /\ \A q \in Requests : q # r => req'[q] = req[q]
  BY DEF AvatarInv, TypeOK
<1>2. /\ body' \in [Objects -> Contents \cup {None}] /\ body'[o] = c
      /\ \A x \in Objects : x # o => body'[x] = body[x]
      /\ \A x \in Objects : body[x] # None => x # o /\ body'[x] # None
      /\ c # None
  BY AvatarAssumption DEF AvatarInv, TypeOK
<1>3. o \notin gc /\ o \notin stored /\ o # current /\ o # None
  BY AvatarAssumption DEF AvatarInv, DrawnOnly, RowInv, TypeOK
<1>4. TypeOK'
  BY <1>1, <1>2 DEF AvatarInv, TypeOK, rowVars, queueVars
<1>5. RowInv'
  BY <1>3 DEF AvatarInv, RowInv, rowVars, queueVars
<1>6. DrawnOnly'
  BY <1>2 DEF AvatarInv, TypeOK, DrawnOnly, queueVars
<1>7. \A q \in Requests : q # r => Sound(req[q])' /\ (req[q].pc \in Holding => req[q].obj # o)
  <2>1. SUFFICES ASSUME NEW q \in Requests, q # r
                 PROVE  Sound(req[q])' /\ (req[q].pc \in Holding => req[q].obj # o)
    OBVIOUS
  <2>2. Sound(req[q]) /\ req'[q] = req[q]
    BY <1>1, <2>1 DEF AvatarInv, RequestsSound
  <2>3. req[q].pc \in Holding => req[q].obj \in Objects /\ req[q].obj # o
    BY <2>2, AvatarAssumption DEF Sound
  <2>4. req[q].pc \in Holding => body'[req[q].obj] = body[req[q].obj]
    BY <1>2, <2>3
  <2>5. QED
    BY <2>2, <2>3, <2>4 DEF Sound, rowVars, queueVars
<1>8. RequestsSound' /\ ObjectsOwned'
  BY <1>1, <1>7 DEF RequestsSound, ObjectsOwned, AvatarInv, Apart
<1>9. LoopsCareful'
  <2>1. SUFFICES ASSUME NEW n \in Runners PROVE Careful(run[n])'
    BY DEF LoopsCareful
  <2>2. Careful(run[n]) /\ run'[n] = run[n] /\ run[n].seen \subseteq Objects
    BY DEF AvatarInv, LoopsCareful, TypeOK, Runner
  <2>3. run[n].pc \in Deleting => run[n].obj # o /\ body'[run[n].obj] # None
    BY <1>2, <2>2 DEF Careful
  <2>4. \A x \in run[n].seen : body'[x] # None
    BY <1>2, <2>2 DEF Careful
  <2>5. QED
    BY <2>2, <2>3, <2>4 DEF Careful, Deleting, rowVars, queueVars
<1>10. QED
  BY <1>4, <1>5, <1>6, <1>8, <1>9 DEF AvatarInv

LEMMA Publishes ==
    ASSUME AvatarInv, NEW r \in Requests, Publish(r)
    PROVE  AvatarInv'
<1>1. PICK o \in Objects :
        /\ body[o] = None /\ body' = [body EXCEPT ![o] = req[r].want]
        /\ stored' \in {stored, stored \cup {o}} /\ damaged' \subseteq stored'
        /\ \/ /\ stored' = stored \cup {o}
              /\ req' = [req EXCEPT ![r].obj = o, ![r].pc = "switch",
                                    ![r].left = req[r].left - 1]
           \/ To(r, "failed")
           \/ req' = [req EXCEPT ![r].left = req[r].left - 1]
  BY DEF Publish, AvatarInv, TypeOK
<1>2. /\ req[r].pc = "publish" /\ req[r].left - 1 \in Nat /\ req[r] \in Request
      /\ req[r].want \in Contents /\ Sound(req[r]) /\ req \in [Requests -> Request]
  BY DEF Publish, AvatarInv, TypeOK, RequestsSound, Sound, Request
<1>3. PICK w \in Request :
        /\ req' = [req EXCEPT ![r] = w] /\ w.want = req[r].want
        /\ w.expected = req[r].expected
        /\ \/ w.pc = "switch" /\ w.obj = o
           \/ w.pc = "failed"
           \/ w.pc = "publish"
  <2>1. CASE To(r, "failed")
    <3>1. /\ Onto(req[r], "failed") \in Request
          /\ req' = [req EXCEPT ![r] = Onto(req[r], "failed")]
      BY <2>1, ToType DEF Answers
    <3>2. /\ Onto(req[r], "failed").want = req[r].want
          /\ Onto(req[r], "failed").expected = req[r].expected
          /\ Onto(req[r], "failed").pc = "failed"
      BY <1>2 DEF Onto, Request
    <3>3. QED
      BY <3>1, <3>2
  <2>2. CASE req' = [req EXCEPT ![r].left = req[r].left - 1]
    <3>1. PICK v : v = [req[r] EXCEPT !.left = req[r].left - 1]
      OBVIOUS
    <3>2. v \in Request /\ v.want = req[r].want /\ v.pc = "publish"
          /\ v.expected = req[r].expected
      BY <1>2, <3>1 DEF Request
    <3>3. req' = [req EXCEPT ![r] = v]
      BY <1>2, <2>2, <3>1
    <3>4. QED
      BY <3>2, <3>3
  <2>3. CASE req' = [req EXCEPT ![r].obj = o, ![r].pc = "switch",
                                ![r].left = req[r].left - 1]
    <3>1. PICK v : v = [req[r] EXCEPT !.obj = o, !.pc = "switch", !.left = req[r].left - 1]
      OBVIOUS
    <3>2. v \in Request /\ v.want = req[r].want /\ v.pc = "switch" /\ v.obj = o
          /\ v.expected = req[r].expected
      BY <1>2, <3>1 DEF Request, Working
    <3>3. req' = [req EXCEPT ![r] = v]
      BY <1>2, <2>3, <3>1
    <3>4. QED
      BY <3>2, <3>3
  <2>4. QED
    BY <1>1, <2>1, <2>2, <2>3
<1>4. faults' \in 0..MaxFaults /\ UNCHANGED <<rowVars, queueVars, lock, run>>
  <2>1. NoFault \/ Fault
    BY DEF Publish
  <2>2. faults' \in 0..MaxFaults
    BY <2>1, FaultsCounted DEF AvatarInv, TypeOK
  <2>3. QED
    BY <2>2 DEF Publish
<1>5. o # current /\ body'[o] = req[r].want
  <2>1. o \notin stored /\ o # None
    BY <1>1, AvatarAssumption DEF AvatarInv, DrawnOnly
  <2>2. QED
    BY <1>1, <2>1 DEF AvatarInv, TypeOK, RowInv
<1>6. Sound(w)' /\ (w.pc \in Holding => w.obj = o)
  BY <1>2, <1>3, <1>4, <1>5 DEF Sound, Holding, rowVars, queueVars
<1>7. QED
  BY <1>1, <1>2, <1>3, <1>4, <1>6, ObjectDrawn

LEMMA CommittedMoves ==
    ASSUME AvatarInv, NEW r \in Requests, Committed(r)
    PROVE  \E w \in Request : /\ req' = [req EXCEPT ![r] = w] /\ faults' \in 0..MaxFaults
                              /\ w.pc \in {"ok", "failed"} /\ w.want = req[r].want
                              /\ w.expected = req[r].expected
<1>1. PICK pc \in {"ok", "failed"} : To(r, pc) /\ (NoFault \/ Fault)
  BY DEF Committed
<1>2. PICK w : w = Onto(req[r], pc)
  OBVIOUS
<1>3. w \in Request /\ req' = [req EXCEPT ![r] = w]
  BY <1>1, <1>2, ToType DEF Answers
<1>4. faults' \in 0..MaxFaults
  BY <1>1, FaultsCounted DEF AvatarInv, TypeOK
<1>5. w.pc = pc /\ w.want = req[r].want /\ w.expected = req[r].expected
  BY <1>2 DEF Onto, Request, AvatarInv, TypeOK
<1>6. QED
  BY <1>1, <1>3, <1>4, <1>5

\* The old object is queued, the new one, of this request alone, is shown.
LEMMA PointerMoves ==
    ASSUME AvatarInv, NEW r \in Requests, NEW w \in Request,
           req' = [req EXCEPT ![r] = w],
           w.pc \in {"ok", "failed"}, w.expected = req[r].expected,
           req[r].pc \in Holding, req[r].obj \in stored, req[r].obj \notin gc,
           rev' = rev + 1, PointTo(req[r].obj), faults' \in 0..MaxFaults,
           UNCHANGED <<storeVars, lock, run>>
    PROVE  AvatarInv'
<1>1. /\ req' \in [Requests -> Request] /\ req'[r] = w
      /\ \A q \in Requests : q # r => req'[q] = req[q]
  BY DEF AvatarInv, TypeOK
<1>2. PICK o \in Objects : /\ o = req[r].obj /\ o # current /\ o \in stored /\ o \notin gc
                          /\ o # None /\ body[o] # None
  BY AvatarAssumption DEF AvatarInv, RequestsSound, Sound
<1>3. /\ current' = o /\ exists' = TRUE /\ gc' = gc \cup Named /\ due' = due
      /\ subject' = subject /\ merged' = merged /\ rev' = rev + 1
      /\ UNCHANGED <<body, stored, damaged, lock, run>>
      /\ Named = {current} \ {None} /\ Named \subseteq stored \cap Objects
  BY <1>2 DEF PointTo, storeVars, Named, AvatarInv, TypeOK, RowInv
<1>4. TypeOK'
  BY <1>1, <1>2, <1>3 DEF AvatarInv, TypeOK
<1>5. RowInv' /\ DrawnOnly'
  BY <1>2, <1>3 DEF AvatarInv, RowInv, DrawnOnly
<1>6. rev \in Nat /\ w.expected \in Nat /\ w.expected <= rev
  BY DEF AvatarInv, TypeOK, RequestsSound, Sound, Request
<1>7. \A q \in Requests : q # r => Sound(req[q])'
  <2>1. SUFFICES ASSUME NEW q \in Requests, q # r PROVE Sound(req[q])'
    OBVIOUS
  <2>2. Sound(req[q]) /\ req'[q] = req[q] /\ req[q] \in Request /\ Apart(req[q], req[r])
    BY <1>1, <2>1 DEF AvatarInv, RequestsSound, ObjectsOwned, TypeOK
  <2>3. req[q].pc \in Holding => req[q].obj # o /\ req[q].obj \notin Named
    BY <1>2, <1>3, <2>2 DEF Apart, Sound
  <2>4. req[q].expected \in Nat /\ req[q].expected <= rev
    BY <2>2 DEF Sound, Request
  <2>5. QED
    BY <1>3, <1>6, <2>2, <2>3, <2>4 DEF Sound, Holding
<1>8. Sound(w)'
  BY <1>3, <1>6 DEF Sound, Holding
<1>9. RequestsSound' /\ ObjectsOwned'
  BY <1>1, <1>7, <1>8 DEF RequestsSound, ObjectsOwned, AvatarInv, Apart, Holding
<1>10. LoopsCareful'
  BY <1>2, <1>3 DEF AvatarInv, LoopsCareful, Careful
<1>11. QED
  BY <1>4, <1>5, <1>9, <1>10 DEF AvatarInv

LEMMA Switches ==
    ASSUME AvatarInv, NEW r \in Requests, SwitchPointer(r)
    PROVE  AvatarInv'
<1>1. PICK w \in Request : /\ req' = [req EXCEPT ![r] = w] /\ faults' \in 0..MaxFaults
                          /\ w.pc \in {"ok", "failed"} /\ w.expected = req[r].expected
  BY CommittedMoves DEF SwitchPointer
<1>2. /\ req[r].pc \in Holding /\ req[r].obj \in stored /\ req[r].obj \notin gc
      /\ rev' = rev + 1 /\ PointTo(req[r].obj)
      /\ UNCHANGED <<storeVars, lock, run>>
  BY DEF SwitchPointer, Usable, InSwitch, Clean, Readable, Holding, NextRevision
<1>3. QED
  BY <1>1, <1>2, PointerMoves

LEMMA Inserts ==
    ASSUME AvatarInv, NEW r \in Requests, Insert(r)
    PROVE  AvatarInv'
<1>1. /\ req[r].pc = "insert" /\ req[r].obj \in stored /\ req[r].obj \notin gc
      /\ req[r].expected = 0 /\ subject = "profile" /\ Sound(req[r])
      /\ req[r] \in Request /\ rev \in Nat
  BY DEF Insert, AvatarInv, RequestsSound, Sound, Holding, TypeOK
<1>2. CASE rev = 0
  <2>1. PICK w \in Request : /\ req' = [req EXCEPT ![r] = w] /\ faults' \in 0..MaxFaults
                            /\ w.pc \in {"ok", "failed"} /\ w.expected = req[r].expected
    BY <1>2, CommittedMoves DEF Insert
  <2>2. /\ rev' = rev + 1 /\ PointTo(req[r].obj)
        /\ UNCHANGED <<storeVars, lock, run>>
    BY <1>2 DEF Insert, NextRevision
  <2>3. QED
    BY <1>1, <2>1, <2>2, PointerMoves DEF Holding
<1>3. CASE rev # 0
  <2>1. To(r, "orphan") /\ UNCHANGED <<rowVars, queueVars, storeVars, lock, run, faults>>
    BY <1>1, <1>3 DEF Insert, Beaten
  <2>2. PICK w \in Request : w = Onto(req[r], "orphan") /\ req' = [req EXCEPT ![r] = w]
    BY <2>1, ToType DEF Working
  <2>3. /\ w.pc = "orphan" /\ w.obj = req[r].obj /\ w.want = req[r].want
        /\ w.expected = 0
    BY <1>1, <2>2 DEF Onto, Request, Holding
  <2>4. Sound(w)
    BY <1>1, <1>3, <2>3 DEF Sound, Holding
  <2>5. QED
    BY <1>1, <2>1, <2>2, <2>3, <2>4, RequestMoves DEF Holding, AvatarInv, TypeOK
<1>4. QED
  BY <1>2, <1>3

LEMMA Keeps ==
    ASSUME AvatarInv, NEW r \in Requests, KeepShown(r)
    PROVE  AvatarInv'
<1>1. PICK w \in Request : /\ req' = [req EXCEPT ![r] = w] /\ faults' \in 0..MaxFaults
                          /\ w.pc \in {"ok", "failed"} /\ w.expected = req[r].expected
  BY CommittedMoves DEF KeepShown
<1>2. /\ req' \in [Requests -> Request] /\ req'[r] = w
      /\ \A q \in Requests : q # r => req'[q] = req[q]
  BY <1>1 DEF AvatarInv, TypeOK
<1>3. PICK o \in Objects : /\ o = req[r].obj /\ o # current /\ body[o] # None
                          /\ req[r].pc \in Holding
  BY AvatarAssumption
     DEF KeepShown, Usable, InSwitch, Holding, AvatarInv, RequestsSound, Sound
<1>4. /\ gc' = gc \cup {o} /\ due' = due
      /\ UNCHANGED <<subject, exists, merged, rev, current>>
      /\ UNCHANGED <<body, stored, damaged, lock, run>>
  BY <1>3 DEF KeepShown, rowVars, storeVars
<1>5. (TypeOK /\ RowInv /\ DrawnOnly)'
  BY <1>1, <1>2, <1>3, <1>4 DEF AvatarInv, TypeOK, RowInv, DrawnOnly
<1>6. \A q \in Requests : q # r => Sound(req[q])'
  <2>1. SUFFICES ASSUME NEW q \in Requests, q # r PROVE Sound(req[q])'
    OBVIOUS
  <2>2. Sound(req[q]) /\ req'[q] = req[q] /\ Apart(req[q], req[r])
    BY <1>2, <2>1 DEF AvatarInv, RequestsSound, ObjectsOwned
  <2>3. req[q].pc \in Holding => req[q].obj # o
    BY <1>3, <2>2 DEF Apart
  <2>4. QED
    BY <1>4, <2>2, <2>3 DEF Sound, Holding
<1>7. Sound(w)'
  BY <1>1, <1>4 DEF Sound, Holding, AvatarInv, RequestsSound
<1>8. RequestsSound' /\ ObjectsOwned'
  BY <1>1, <1>2, <1>6, <1>7 DEF RequestsSound, ObjectsOwned, AvatarInv, Apart, Holding
<1>9. LoopsCareful'
  BY <1>4 DEF AvatarInv, LoopsCareful, Careful
<1>10. QED
  BY <1>5, <1>8, <1>9 DEF AvatarInv

LEMMA Removes ==
    ASSUME AvatarInv, NEW r \in Requests, Remove(r)
    PROVE  AvatarInv'
<1>1. CASE current = None \/ rev # req[r].expected
  <2>1. PICK pc \in {"ok", "conflict"} : To(r, pc)
    BY <1>1 DEF Remove
  <2>2. UNCHANGED <<rowVars, queueVars, storeVars, lock, run, faults>>
    BY <1>1 DEF Remove
  <2>3. PICK w \in Request : w = Onto(req[r], pc) /\ req' = [req EXCEPT ![r] = w]
    BY <2>1, ToType DEF Answers
  <2>4. w.pc = pc /\ w.expected = req[r].expected
    BY <2>3 DEF Onto, Request, AvatarInv, TypeOK
  <2>5. Sound(w) /\ w.pc \notin Holding
    BY <2>1, <2>4 DEF Sound, Holding, AvatarInv, RequestsSound
  <2>6. QED
    BY <2>2, <2>3, <2>5, RequestMoves DEF AvatarInv, TypeOK
<1>2. CASE current # None /\ rev = req[r].expected
  <2>1. PICK w \in Request : /\ req' = [req EXCEPT ![r] = w] /\ faults' \in 0..MaxFaults
                            /\ w.pc \in {"ok", "failed"} /\ w.expected = req[r].expected
    BY <1>2, CommittedMoves DEF Remove
  <2>2. /\ req' \in [Requests -> Request] /\ req'[r] = w
        /\ \A q \in Requests : q # r => req'[q] = req[q]
    BY <2>1 DEF AvatarInv, TypeOK
  <2>3. /\ current' = None /\ rev' = rev + 1 /\ gc' = gc \cup {current} /\ due' = due
        /\ UNCHANGED <<subject, exists, merged>>
        /\ UNCHANGED <<body, stored, damaged, lock, run>>
    BY <1>2 DEF Remove, NextRevision, Named, storeVars
  <2>4. current \in stored /\ current \in Objects /\ rev \in Nat /\ None \notin Objects
        /\ exists
    BY <1>2, AvatarAssumption DEF AvatarInv, TypeOK, RowInv
  <2>5. (TypeOK /\ RowInv /\ DrawnOnly)'
    BY <2>1, <2>2, <2>3, <2>4 DEF AvatarInv, TypeOK, RowInv, DrawnOnly
  <2>6. \A q \in Requests : q # r => Sound(req[q])'
    <3>1. SUFFICES ASSUME NEW q \in Requests, q # r PROVE Sound(req[q])'
      OBVIOUS
    <3>2. Sound(req[q]) /\ req'[q] = req[q] /\ req[q] \in Request
      BY <2>2, <3>1 DEF AvatarInv, RequestsSound, TypeOK
    <3>3. req[q].expected \in Nat /\ req[q].expected <= rev
      BY <3>2 DEF Sound, Request
    <3>4. req[q].pc \in Holding => req[q].obj # current /\ req[q].obj # None
      BY <2>4, <3>2 DEF Sound
    <3>5. QED
      BY <2>3, <2>4, <3>2, <3>3, <3>4 DEF Sound, Holding
  <2>7. Sound(w)'
    BY <1>2, <2>1, <2>3, <2>4 DEF Sound, Holding
  <2>8. RequestsSound' /\ ObjectsOwned'
    BY <2>1, <2>2, <2>6, <2>7 DEF RequestsSound, ObjectsOwned, AvatarInv, Apart, Holding
  <2>9. LoopsCareful'
    BY <2>3, <2>4 DEF AvatarInv, LoopsCareful, Careful
  <2>10. QED
    BY <2>5, <2>8, <2>9 DEF AvatarInv
<1>3. QED
  BY <1>1, <1>2

LEMMA Drops ==
    ASSUME AvatarInv, NEW r \in Requests, DropOrphan(r)
    PROVE  AvatarInv'
<1>1. PICK w \in Request : w = Onto(req[r], "conflict") /\ req' = [req EXCEPT ![r] = w]
  BY ToType DEF DropOrphan, Answers
<1>2. /\ req' \in [Requests -> Request] /\ req'[r] = w /\ w.pc = "conflict"
      /\ w.expected = req[r].expected
      /\ \A q \in Requests : q # r => req'[q] = req[q]
  BY <1>1 DEF AvatarInv, TypeOK, Onto, Request
<1>3. PICK o \in Objects : o = req[r].obj /\ o # current /\ req[r].pc \in Holding
  BY DEF DropOrphan, Holding, AvatarInv, RequestsSound, Sound
<1>4. /\ UNCHANGED <<subject, exists, merged, rev, current, gc, due, body, lock, run>>
      /\ stored' \subseteq stored /\ damaged' \subseteq stored'
      /\ \A x \in stored : x # o => x \in stored'
  BY <1>3 DEF DropOrphan, Torn, rowVars, queueVars, AvatarInv, TypeOK
<1>5. faults' \in 0..MaxFaults
  BY FaultsCounted DEF DropOrphan, AvatarInv, TypeOK
<1>6. (TypeOK /\ RowInv /\ DrawnOnly)'
  BY <1>2, <1>3, <1>4, <1>5 DEF AvatarInv, TypeOK, RowInv, DrawnOnly
<1>7. \A q \in Requests : q # r => Sound(req[q])'
  <2>1. SUFFICES ASSUME NEW q \in Requests, q # r PROVE Sound(req[q])'
    OBVIOUS
  <2>2. Sound(req[q]) /\ req'[q] = req[q] /\ Apart(req[q], req[r])
    BY <1>2, <2>1 DEF AvatarInv, RequestsSound, ObjectsOwned
  <2>3. req[q].pc \in Holding => req[q].obj # o
    BY <1>3, <2>2 DEF Apart
  <2>4. QED
    BY <1>4, <2>2, <2>3 DEF Sound, Holding
<1>8. Sound(w)'
  BY <1>2, <1>4 DEF Sound, Holding, AvatarInv, RequestsSound
<1>9. RequestsSound' /\ ObjectsOwned'
  BY <1>2, <1>7, <1>8 DEF RequestsSound, ObjectsOwned, AvatarInv, Apart, Holding
<1>10. LoopsCareful'
  BY <1>4 DEF AvatarInv, LoopsCareful, Careful
<1>11. QED
  BY <1>6, <1>9, <1>10 DEF AvatarInv

LEMMA RequestStepInv ==
    ASSUME AvatarInv, NEW r \in Requests, RequestStep(r)
    PROVE  AvatarInv'
  BY Begins, Sidesteps, Publishes, Switches, Inserts, Keeps, Removes, Drops DEF RequestStep

-----------------------------------------------------------------------------
(* Maintenance.                                                            *)

\* What a loop keeps: it queues ids that have been drawn, never the current
\* one; it deletes what is queued; and it takes from the queue what is gone
\* or current.
LEMMA LoopMoves ==
    ASSUME AvatarInv, NEW n \in Runners, NEW w \in Runner,
           run' = [run EXCEPT ![n] = w], Careful(w)',
           UNCHANGED <<rowVars, body, req>>, faults' \in 0..MaxFaults,
           lock' \in Runners \cup {None}, due' \subseteq gc',
           stored' \subseteq stored, damaged' \subseteq stored', stored \ stored' \subseteq gc,
           gc' \subseteq Objects,
           \A o \in gc' \ gc : o # current /\ body[o] # None /\ subject # "profile",
           \A o \in gc \ gc' : o = current \/ o \notin stored'
    PROVE  AvatarInv'
<1>1. /\ run' \in [Runners -> Runner] /\ run'[n] = w
      /\ \A m \in Runners : m # n => run'[m] = run[m]
  BY DEF AvatarInv, TypeOK
<1>2. /\ UNCHANGED <<subject, exists, merged, rev, current, body, req>>
      /\ current # None => current \in stored' /\ current \notin gc'
  BY DEF rowVars, AvatarInv, RowInv
<1>3. TypeOK'
  BY <1>1, <1>2 DEF AvatarInv, TypeOK
<1>4. RowInv' /\ DrawnOnly'
  BY <1>2 DEF AvatarInv, RowInv, DrawnOnly
<1>5. RequestsSound' /\ ObjectsOwned'
  <2>1. SUFFICES ASSUME NEW r \in Requests PROVE Sound(req[r])'
    BY <1>2 DEF RequestsSound, ObjectsOwned, AvatarInv, Apart
  <2>2. Sound(req[r])
    BY DEF AvatarInv, RequestsSound
  <2>3. QED
    BY <1>2, <2>2 DEF Sound
<1>6. \A m \in Runners : m # n => Careful(run[m])'
  BY <1>1, <1>2 DEF AvatarInv, LoopsCareful, Careful
<1>7. LoopsCareful'
  BY <1>1, <1>6 DEF LoopsCareful
<1>8. QED
  BY <1>3, <1>4, <1>5, <1>7 DEF AvatarInv

\* A loop between its transactions.
Wandered(n, w) ==
    /\ run' = [run EXCEPT ![n] = w]
    /\ w.pc \notin Deleting
    /\ w.seen \subseteq run[n].seen \cup stored
    /\ subject = "profile" => w.seen \subseteq run[n].seen

LEMMA Wanders ==
    ASSUME AvatarInv, NEW n \in Runners,
           List(n) \/ NoList(n) \/ Enqueue(n) \/ ListDue(n) \/ NoneDue(n)
    PROVE  AvatarInv'
<1>1. run[n] \in Runner /\ Careful(run[n]) /\ run \in [Runners -> Runner]
  BY DEF AvatarInv, TypeOK, LoopsCareful
<1>2. /\ UNCHANGED <<rowVars, body, req, stored, damaged, lock, faults, due>>
      /\ gc' = IF run[n].pc = "enqueue" THEN gc \cup Orphans(n) ELSE gc
  BY DEF List, NoList, Enqueue, ListDue, NoneDue, queueVars, storeVars
<1>3. \E w \in Runner : Wandered(n, w)
  <2>1. CASE List(n)
    <3>1. PICK v : v = [run[n] EXCEPT !.pc = "enqueue", !.seen = stored]
      OBVIOUS
    <3>2. v \in Runner /\ v.pc \notin Deleting /\ v.seen = stored
      BY <1>1, <3>1 DEF Runner, Deleting, AvatarInv, TypeOK
    <3>3. run' = [run EXCEPT ![n] = v]
      BY <1>1, <2>1, <3>1 DEF List
    <3>4. QED
      BY <2>1, <3>2, <3>3 DEF List, Wandered
  <2>2. CASE Enqueue(n)
    <3>1. PICK v : v = [run[n] EXCEPT !.pc = "due", !.seen = {}]
      OBVIOUS
    <3>2. v \in Runner /\ v.pc \notin Deleting /\ v.seen = {}
      BY <1>1, <3>1 DEF Runner, Deleting
    <3>3. run' = [run EXCEPT ![n] = v]
      BY <1>1, <2>2, <3>1 DEF Enqueue
    <3>4. QED
      BY <3>2, <3>3 DEF Wandered
  <2>3. CASE ListDue(n)
    <3>1. PICK v : v = [run[n] EXCEPT !.pc = IF due = {} THEN "idle" ELSE "collect",
                                      !.todo = due]
      OBVIOUS
    <3>2. v \in Runner /\ v.pc \notin Deleting /\ v.seen = run[n].seen
      BY <1>1, <3>1 DEF Runner, Deleting, AvatarInv, TypeOK
    <3>3. run' = [run EXCEPT ![n] = v]
      BY <1>1, <2>3, <3>1 DEF ListDue
    <3>4. QED
      BY <3>2, <3>3 DEF Wandered
  <2>4. CASE NoList(n) \/ NoneDue(n)
    <3>1. PICK pc \in {"idle", "due"} : run' = [run EXCEPT ![n].pc = pc]
      BY <2>4 DEF NoList, NoneDue, At
    <3>2. PICK v : v = [run[n] EXCEPT !.pc = pc]
      OBVIOUS
    <3>3. v \in Runner /\ v.pc \notin Deleting /\ v.seen = run[n].seen
      BY <1>1, <3>1, <3>2 DEF Runner, Deleting
    <3>4. run' = [run EXCEPT ![n] = v]
      BY <1>1, <3>1, <3>2
    <3>5. QED
      BY <3>3, <3>4 DEF Wandered
  <2>5. QED
    BY <2>1, <2>2, <2>3, <2>4
<1>4. PICK w \in Runner : Wandered(n, w)
  BY <1>3
<1>5. \A o \in w.seen : body[o] # None
  BY <1>1, <1>4 DEF Wandered, Careful, AvatarInv, DrawnOnly
<1>6. subject = "profile" => w.seen = {} /\ run[n].seen = {}
  BY <1>1, <1>4 DEF Wandered, Careful
<1>7. Careful(w)'
  <2>1. body' = body /\ subject' = subject
    BY <1>2 DEF rowVars
  <2>2. w.pc \notin Deleting /\ w.pc # "finish"
    BY <1>4 DEF Wandered, Deleting
  <2>3. QED
    BY <1>5, <1>6, <2>1, <2>2 DEF Careful
<1>8. /\ gc' \subseteq Objects /\ due' \subseteq gc'
      /\ \A o \in gc' \ gc : o # current /\ body[o] # None /\ subject # "profile"
      /\ gc \subseteq gc'
  BY <1>1, <1>2, <1>6, AvatarAssumption DEF Orphans, Named, Careful, Runner, AvatarInv, TypeOK
<1>9. /\ faults' \in 0..MaxFaults /\ lock' \in Runners \cup {None}
      /\ stored' = stored /\ damaged' \subseteq stored'
      /\ UNCHANGED <<rowVars, body, req>>
  BY <1>2 DEF AvatarInv, TypeOK
<1>10. /\ stored' \subseteq stored /\ stored \ stored' \subseteq gc
      /\ \A o \in gc \ gc' : o = current \/ o \notin stored'
  BY <1>8, <1>9
<1>11. QED
  BY <1>4, <1>7, <1>8, <1>9, <1>10, LoopMoves DEF Wandered

\* The item is locked and examined; the loop is inside its transaction.
LEMMA Takes ==
    ASSUME AvatarInv, NEW n \in Runners, Take(n)
    PROVE  AvatarInv'
<1>1. run[n] \in Runner /\ Careful(run[n]) /\ run \in [Runners -> Runner]
  BY DEF AvatarInv, TypeOK, LoopsCareful
<1>2. PICK o \in run[n].todo :
        IF o \in gc /\ o # current
        THEN /\ run' = [run EXCEPT ![n].pc = "delete", ![n].obj = o,
                                  ![n].todo = run[n].todo \ {o}]
             /\ lock' = n /\ UNCHANGED queueVars
        ELSE /\ run' = [run EXCEPT ![n].todo = run[n].todo \ {o}]
             /\ gc' = gc \ {o} /\ due' = due \ {o} /\ UNCHANGED lock
  BY DEF Take
<1>3. o \in Objects /\ run[n].pc = "collect"
  BY <1>1, <1>2 DEF Runner, Take
<1>4. /\ UNCHANGED <<rowVars, body, req, stored, damaged, faults>>
      /\ UNCHANGED <<current, subject>>
  BY DEF Take, storeVars, rowVars
<1>5. CASE o \in gc /\ o # current
  <2>1. PICK w : w = [run[n] EXCEPT !.pc = "delete", !.obj = o, !.todo = run[n].todo \ {o}]
    OBVIOUS
  <2>2. /\ w \in Runner /\ w.pc = "delete" /\ w.obj = o /\ w.seen = run[n].seen
    BY <1>1, <1>3, <2>1 DEF Runner, Deleting
  <2>3. run' = [run EXCEPT ![n] = w] /\ lock' = n /\ gc' = gc /\ due' = due
    BY <1>1, <1>2, <1>5, <2>1 DEF queueVars
  <2>4. body[o] # None
    BY <1>5 DEF AvatarInv, DrawnOnly
  <2>5. Careful(w)'
    BY <1>1, <1>3, <1>4, <1>5, <2>2, <2>3, <2>4 DEF Careful
  <2>6. QED
    BY <1>4, <2>2, <2>3, <2>5, LoopMoves DEF AvatarInv, TypeOK
<1>6. CASE ~(o \in gc /\ o # current)
  <2>1. PICK w : w = [run[n] EXCEPT !.todo = run[n].todo \ {o}]
    OBVIOUS
  <2>2. /\ w \in Runner /\ w.pc = "collect" /\ w.seen = run[n].seen
    BY <1>1, <1>3, <2>1 DEF Runner
  <2>3. /\ run' = [run EXCEPT ![n] = w] /\ lock' = lock
        /\ gc' = gc \ {o} /\ due' = due \ {o}
    BY <1>1, <1>2, <1>6, <2>1
  <2>4. Careful(w)'
    BY <1>1, <1>4, <2>2 DEF Careful, Deleting
  <2>5. \A x \in gc \ gc' : x = current
    BY <1>6, <2>3
  <2>6. QED
    BY <1>4, <2>2, <2>3, <2>4, <2>5, LoopMoves DEF AvatarInv, TypeOK
<1>7. QED
  BY <1>5, <1>6

LEMMA LosesSession ==
    ASSUME AvatarInv, NEW n \in Runners, LoseSession(n)
    PROVE  AvatarInv'
<1>1. faults' \in 0..MaxFaults
  BY FaultsCounted DEF LoseSession, AvatarInv, TypeOK
<1>2. UNCHANGED <<rowVars, queueVars, storeVars, req, run>> /\ lock' = None
  BY DEF LoseSession
<1>3. QED
  BY <1>1, <1>2
     DEF AvatarInv, TypeOK, RowInv, DrawnOnly, RequestsSound, ObjectsOwned, LoopsCareful,
         Sound, Apart, Careful, rowVars, queueVars, storeVars

LEMMA Deletes ==
    ASSUME AvatarInv, NEW n \in Runners, Delete(n)
    PROVE  AvatarInv'
<1>1. /\ run[n] \in Runner /\ Careful(run[n]) /\ run \in [Runners -> Runner]
      /\ run[n].pc = "delete"
  BY DEF AvatarInv, TypeOK, LoopsCareful, Delete
<1>2. PICK w : w = [run[n] EXCEPT !.pc = "finish"]
  OBVIOUS
<1>3. w \in Runner /\ w.pc = "finish" /\ w.obj = run[n].obj /\ w.seen = run[n].seen
  BY <1>1, <1>2 DEF Runner, Deleting
<1>4. run' = [run EXCEPT ![n] = w]
  BY <1>1, <1>2 DEF Delete, At
<1>5. /\ stored' = stored \ {run[n].obj} /\ damaged' = damaged \ {run[n].obj}
      /\ UNCHANGED <<rowVars, body, req, lock, faults, gc, due>>
      /\ UNCHANGED <<current, subject>>
  BY DEF Delete, queueVars, rowVars
<1>6. stored \ stored' \subseteq gc
  BY <1>1, <1>5 DEF Careful, Deleting
<1>7. Careful(w)'
  BY <1>1, <1>3, <1>5 DEF Careful, Deleting
<1>8. QED
  BY <1>3, <1>4, <1>5, <1>6, <1>7, LoopMoves DEF AvatarInv, TypeOK

LEMMA TornSubset ==
    ASSUME AvatarInv, NEW o \in Objects \cup {None}, Torn(o)
    PROVE  /\ stored' \subseteq stored /\ damaged' \subseteq stored'
           /\ stored \ stored' \subseteq {o}
  BY DEF Torn, AvatarInv, TypeOK

\* The transaction ends, with or without its deletion.
LEMMA Ends ==
    ASSUME AvatarInv, NEW n \in Runners, DeleteFails(n) \/ Finish(n)
    PROVE  AvatarInv'
<1>1. /\ run[n] \in Runner /\ Careful(run[n]) /\ run \in [Runners -> Runner]
      /\ run[n].pc \in Deleting
  BY DEF AvatarInv, TypeOK, LoopsCareful, DeleteFails, Finish, Deleting
<1>2. PICK w : w = [run[n] EXCEPT !.pc = "collect", !.obj = None]
  OBVIOUS
<1>3. w \in Runner /\ w.pc \notin Deleting /\ w.pc # "finish" /\ w.seen = run[n].seen
  BY <1>1, <1>2 DEF Runner, Deleting
<1>4. run' = [run EXCEPT ![n] = w]
  BY <1>1, <1>2 DEF DeleteFails, Finish
<1>5. /\ UNCHANGED <<rowVars, body, req>> /\ UNCHANGED <<current, subject>>
      /\ lock' \in Runners \cup {None}
  BY DEF DeleteFails, Finish, rowVars, storeVars, Release, AvatarInv, TypeOK
<1>6. faults' \in 0..MaxFaults
  BY FaultsCounted DEF DeleteFails, Finish, NoFault, AvatarInv, TypeOK
<1>7. /\ stored' \subseteq stored /\ damaged' \subseteq stored'
      /\ stored \ stored' \subseteq gc
  <2>1. CASE DeleteFails(n)
    <3>1. /\ run[n].obj \in Objects \cup {None}
          /\ run[n].obj \in gc \/ run[n].obj \notin stored
      BY <1>1 DEF Careful, Runner
    <3>2. Torn(run[n].obj)
      BY <2>1 DEF DeleteFails
    <3>3. QED
      BY <3>1, <3>2, TornSubset
  <2>2. CASE Finish(n)
    BY <2>2 DEF Finish, storeVars, AvatarInv, TypeOK
  <2>3. QED
    BY <2>1, <2>2
<1>8. /\ gc' \subseteq gc /\ due' \subseteq gc'
      /\ \A o \in gc \ gc' : o \notin stored'
  <2>1. CASE DeleteFails(n)
    BY <2>1 DEF DeleteFails, Backoff, AvatarInv, TypeOK
  <2>2. CASE Finish(n)
    BY <1>1, <2>2 DEF Finish, Dequeue, Backoff, Careful, storeVars, AvatarInv, TypeOK
  <2>3. QED
    BY <2>1, <2>2
<1>9. Careful(w)'
  BY <1>1, <1>3, <1>5 DEF Careful
<1>10. QED
  BY <1>3, <1>4, <1>5, <1>6, <1>7, <1>8, <1>9, LoopMoves DEF AvatarInv, TypeOK

LEMMA Crashes ==
    ASSUME AvatarInv, NEW n \in Runners, CrashRunner(n)
    PROVE  AvatarInv'
<1>1. run' = [run EXCEPT ![n] = IdleRunner] /\ IdleRunner \in Runner
  BY DEF CrashRunner, IdleRunner, Runner
<1>2. /\ UNCHANGED <<rowVars, body, req, gc, due>>
      /\ lock' \in Runners \cup {None}
  BY DEF CrashRunner, queueVars, Release, AvatarInv, TypeOK
<1>3. Careful(IdleRunner)'
  BY DEF Careful, IdleRunner, Deleting
<1>4. faults' \in 0..MaxFaults
  BY FaultsCounted DEF CrashRunner, AvatarInv, TypeOK
<1>5. /\ stored' \subseteq stored /\ damaged' \subseteq stored'
      /\ stored \ stored' \subseteq gc
  <2>1. CASE run[n].pc = "delete"
    <3>1. /\ run[n].obj \in Objects \cup {None}
          /\ run[n].obj \in gc \/ run[n].obj \notin stored
      BY <2>1 DEF Careful, LoopsCareful, Deleting, Runner, AvatarInv, TypeOK
    <3>2. Torn(run[n].obj)
      BY <2>1 DEF CrashRunner
    <3>3. QED
      BY <3>1, <3>2, TornSubset
  <2>2. CASE run[n].pc # "delete"
    BY <2>2 DEF CrashRunner, AvatarInv, TypeOK
  <2>3. QED
    BY <2>1, <2>2
<1>6. QED
  BY <1>1, <1>2, <1>3, <1>4, <1>5, LoopMoves DEF AvatarInv, TypeOK

LEMMA RunnerStepInv ==
    ASSUME AvatarInv, NEW n \in Runners, RunnerStep(n)
    PROVE  AvatarInv'
  BY Wanders, Takes, LosesSession, Deletes, Ends, Crashes DEF RunnerStep

-----------------------------------------------------------------------------
(* The invariant and what follows from it.                                 *)

LEMMA WorldInv ==
    ASSUME AvatarInv,
           \/ \E o \in Objects : TimePasses(o) \/ Damage(o)
           \/ Merge \/ PatchDisplayName
    PROVE  AvatarInv'
<1>1. /\ UNCHANGED <<subject, rev, current, gc, body, stored, lock, req, run>>
      /\ exists' = exists \/ exists' = TRUE
  BY DEF TimePasses, Damage, Merge, PatchDisplayName, rowVars, queueVars, storeVars
<1>2. faults' \in 0..MaxFaults
  BY FaultsCounted
     DEF TimePasses, Damage, Merge, PatchDisplayName, AvatarInv, TypeOK
<1>3. /\ due' \subseteq gc /\ damaged' \subseteq stored /\ merged' \in BOOLEAN
      /\ exists' \in BOOLEAN
  BY DEF TimePasses, Damage, Readable, Merge, PatchDisplayName, rowVars, queueVars,
         storeVars, AvatarInv, TypeOK
<1>4. TypeOK' /\ RowInv' /\ DrawnOnly'
  BY <1>1, <1>2, <1>3 DEF AvatarInv, TypeOK, RowInv, DrawnOnly
<1>5. RequestsSound' /\ ObjectsOwned' /\ LoopsCareful'
  BY <1>1 DEF AvatarInv, RequestsSound, ObjectsOwned, LoopsCareful, Sound, Apart, Careful
<1>6. QED
  BY <1>4, <1>5 DEF AvatarInv

LEMMA InitInv == Init => AvatarInv
<1>1. SUFFICES ASSUME Init PROVE AvatarInv
  OBVIOUS
<1>2. NoRequest \in Request /\ IdleRunner \in Runner
  BY AvatarAssumption DEF NoRequest, IdleRunner, Request, Runner
<1>3. exists \in BOOLEAN /\ subject \in {"customer", "profile"} /\ merged \in BOOLEAN
  BY <1>1 DEF Init
<1>4. /\ rev = 0 /\ current = None /\ gc = {} /\ due = {} /\ stored = {} /\ damaged = {}
      /\ body = [o \in Objects |-> None] /\ lock = None /\ faults = 0
      /\ req = [r \in Requests |-> NoRequest] /\ run = [n \in Runners |-> IdleRunner]
  BY <1>1 DEF Init
<1>5. req \in [Requests -> Request] /\ run \in [Runners -> Runner]
  BY <1>2, <1>4
<1>6. TypeOK
  BY <1>3, <1>4, <1>5, AvatarAssumption DEF TypeOK
<1>7. RowInv /\ DrawnOnly
  <2>1. ~exists => subject = "profile"
    BY <1>1, <1>3 DEF Init
  <2>2. QED
    BY <1>4, <2>1 DEF RowInv, DrawnOnly
<1>8. RequestsSound /\ ObjectsOwned
  <2>1. Sound(NoRequest) /\ Apart(NoRequest, NoRequest)
    BY <1>4 DEF Sound, Apart, NoRequest, Holding
  <2>2. QED
    BY <1>4, <2>1 DEF RequestsSound, ObjectsOwned
<1>9. LoopsCareful
  <2>1. Careful(IdleRunner)
    BY DEF Careful, IdleRunner, Deleting
  <2>2. QED
    BY <1>4, <2>1 DEF LoopsCareful
<1>10. QED
  BY <1>6, <1>7, <1>8, <1>9 DEF AvatarInv

LEMMA StepInv == AvatarInv /\ [Next]_vars => AvatarInv'
<1>1. SUFFICES ASSUME AvatarInv, [Next]_vars PROVE AvatarInv'
  OBVIOUS
<1>2. CASE UNCHANGED vars
  BY <1>1, <1>2
     DEF vars, rowVars, queueVars, storeVars, AvatarInv, TypeOK, RowInv, DrawnOnly,
         RequestsSound, ObjectsOwned, LoopsCareful, Sound, Apart, Careful
<1>3. CASE Next
  BY <1>1, <1>3, RequestStepInv, RunnerStepInv, WorldInv DEF Next
<1>4. QED
  BY <1>1, <1>2, <1>3

THEOREM AvatarInvariant == Spec => []AvatarInv
  BY InitInv, StepInv, PTL DEF Spec

\* Every state has the types of TypeOK: in particular no id is due for
\* deletion that is not queued (avatar_maintenance_repository.go ListDueGC).
THEOREM AvatarTypes == Spec => []TypeOK
<1>1. AvatarInv => TypeOK
  BY DEF AvatarInv
<1>2. QED
  BY <1>1, AvatarInvariant, PTL

\* The picture on show is never deleted, whatever loops overlap and however
\* late their deletions reach the store (avatar_maintenance.go collectAccount).
THEOREM PicturesStay == Spec => []PointerNamesObject
<1>1. AvatarInv => PointerNamesObject
  BY DEF AvatarInv, RowInv, PointerNamesObject
<1>2. QED
  BY <1>1, AvatarInvariant, PTL

\* A queued id is never the current one (avatar_application.go publishAndSwitch
\* refuses a burned id, avatar_maintenance.go reconcileAccount skips the
\* current one).
THEOREM QueuedIsBurned == Spec => []CondemnedIsNotCurrent
<1>1. AvatarInv => CondemnedIsNotCurrent
  BY AvatarAssumption DEF AvatarInv, RowInv, TypeOK, CondemnedIsNotCurrent
<1>2. QED
  BY <1>1, AvatarInvariant, PTL

-----------------------------------------------------------------------------
(* The register.                                                           *)

Same == UNCHANGED <<Shown, rev, Asked, Answer>>
Simulated == Register!Next \/ Same
Reply(pc) == IF pc \in Working THEN "open" ELSE pc

LEMMA PictureShown ==
    ASSUME AvatarInv
    PROVE  /\ Shown = None <=> current = None
           /\ \A c \in Contents : Shows(c) => Shown = c
  BY AvatarAssumption DEF AvatarInv, TypeOK, RowInv, DrawnOnly, Shown, Shows

\* A request that goes on keeps what it has asked for, and its answer is
\* what it has come to.
LEMMA Tells ==
    ASSUME AvatarInv, NEW r \in Requests, NEW w \in Request,
           req' = [req EXCEPT ![r] = w], w.want = req[r].want,
           w.expected = req[r].expected
    PROVE  /\ Asked' = Asked /\ Answer' = [Answer EXCEPT ![r] = Reply(w.pc)]
           /\ Answer[r] = Reply(req[r].pc)
           /\ Asked[r].want = req[r].want /\ Asked[r].expected = req[r].expected
<1>1. /\ req' \in [Requests -> Request] /\ req'[r] = w
      /\ \A q \in Requests : q # r => req'[q] = req[q]
  BY DEF AvatarInv, TypeOK
<1>2. \A q \in Requests : req'[q].want = req[q].want /\ req'[q].expected = req[q].expected
  BY <1>1
<1>3. Asked' = Asked
  BY <1>2 DEF Asked
<1>4. Answer' = [Answer EXCEPT ![r] = Reply(w.pc)]
  BY <1>1 DEF Answer, Reply, Working
<1>5. QED
  BY <1>3, <1>4 DEF Answer, Reply, Asked

LEMMA ToTells ==
    ASSUME AvatarInv, NEW r \in Requests, NEW pc \in Working \cup Answers, To(r, pc)
    PROVE  /\ Asked' = Asked /\ Answer' = [Answer EXCEPT ![r] = Reply(pc)]
           /\ Answer[r] = Reply(req[r].pc)
           /\ Asked[r].want = req[r].want /\ Asked[r].expected = req[r].expected
<1>1. PICK w \in Request : w = Onto(req[r], pc) /\ req' = [req EXCEPT ![r] = w]
  BY ToType
<1>2. w.want = req[r].want /\ w.expected = req[r].expected /\ w.pc = pc
  BY <1>1 DEF Onto, Request, AvatarInv, TypeOK
<1>3. QED
  BY <1>1, <1>2, Tells

\* An open request that goes on, or is answered, while the picture stays.
LEMMA Replies ==
    ASSUME AvatarInv, NEW r \in Requests, NEW pc \in Working \cup Answers, To(r, pc),
           req[r].pc \in Working, Shown' = Shown, rev' = rev,
           pc = "ok" => req[r].want = Shown,
           pc = "conflict" => req[r].expected # rev
    PROVE  Simulated
<1>1. /\ Asked' = Asked /\ Answer' = [Answer EXCEPT ![r] = Reply(pc)]
      /\ Answer[r] = "open"
      /\ Asked[r].want = req[r].want /\ Asked[r].expected = req[r].expected
  BY ToTells DEF Reply
<1>2. CASE pc \in Working
  <2>1. Answer' = Answer
    BY <1>1, <1>2 DEF Reply, Answer
  <2>2. QED
    BY <1>1, <2>1 DEF Simulated, Same
<1>3. CASE pc \in Answers
  <2>1. Answer' = [Answer EXCEPT ![r] = pc]
    BY <1>1, <1>3 DEF Reply, Working, Answers
  <2>2. CASE pc = "ok"
    BY <1>1, <2>1, <2>2 DEF Simulated, Register!Next, Register!Keep, Register!Told
  <2>3. CASE pc = "conflict"
    BY <1>1, <2>1, <2>3 DEF Simulated, Register!Next, Register!Conflict, Register!Told
  <2>4. CASE pc \in {"refused", "failed"}
    BY <1>1, <2>1, <2>4 DEF Simulated, Register!Next, Register!Decline, Register!Told
  <2>5. QED
    BY <1>3, <2>2, <2>3, <2>4 DEF Answers
<1>4. QED
  BY <1>2, <1>3

\* A change at the revision the client has seen, whose answer may be lost.
LEMMA Changes ==
    ASSUME AvatarInv, NEW r \in Requests, Committed(r), req[r].pc \in Working,
           rev' = rev + 1, Shown' = req[r].want, rev = req[r].expected
    PROVE  Simulated
<1>1. PICK pc \in {"ok", "failed"} : To(r, pc)
  BY DEF Committed
<1>2. /\ Asked' = Asked /\ Answer' = [Answer EXCEPT ![r] = Reply(pc)]
      /\ Answer[r] = "open"
      /\ Asked[r].want = req[r].want /\ Asked[r].expected = req[r].expected
  BY <1>1, ToTells DEF Reply, Answers
<1>3. Answer' = [Answer EXCEPT ![r] = pc]
  BY <1>1, <1>2 DEF Reply, Working
<1>4. Register!Change(r)
  BY <1>1, <1>2, <1>3 DEF Register!Change, Register!Told
<1>5. QED
  BY <1>4 DEF Simulated, Register!Next

LEMMA SimulateBegin ==
    ASSUME AvatarInv, NEW r \in Requests, Begin(r)
    PROVE  Simulated
<1>1. PICK c \in Contents \cup {None}, e \in 0..rev, pc \in {"remove", "refused", "verify", "publish"} :
        req' = [req EXCEPT ![r].want = c, ![r].expected = e, ![r].pc = pc]
  BY DEF Begin
<1>2. PICK w : w = [req[r] EXCEPT !.want = c, !.expected = e, !.pc = pc]
  OBVIOUS
<1>3. req[r] \in Request /\ rev \in Nat /\ req \in [Requests -> Request]
  BY DEF AvatarInv, TypeOK
<1>4. w.want = c /\ w.expected = e /\ w.pc = pc
  BY <1>2, <1>3 DEF Request
<1>5. req' = [req EXCEPT ![r] = w]
  BY <1>1, <1>2, <1>3
<1>6. Asked' = [Asked EXCEPT ![r] = [want |-> c, expected |-> e]]
  BY <1>3, <1>4, <1>5 DEF Asked
<1>7. /\ Answer' = [Answer EXCEPT ![r] = Reply(pc)] /\ Answer[r] = "none"
  BY <1>3, <1>4, <1>5 DEF Answer, Reply, Begin, Working
<1>8. Reply(pc) \in {"open", "refused"}
  BY <1>1 DEF Reply, Working
<1>9. Shown' = Shown /\ rev' = rev
  BY DEF Begin, Shown, rowVars, storeVars
<1>10. [want |-> c, expected |-> e] \in Register!Wishes
  BY <1>1 DEF Register!Wishes
<1>11. Register!Ask(r)
  BY <1>6, <1>7, <1>8, <1>9, <1>10 DEF Register!Ask, Register!Told
<1>12. QED
  BY <1>11 DEF Simulated, Register!Next

LEMMA SimulateSidesteps ==
    ASSUME AvatarInv, NEW r \in Requests,
           \/ Verify(r) \/ Exhausted(r) \/ RefuseMerged(r) \/ StartOver(r)
           \/ LoseRace(r) \/ NoRow(r) \/ Fail(r)
    PROVE  Simulated
<1>1. PICK pc \in Answers \cup {"publish", "insert", "orphan"} :
        /\ To(r, pc) /\ req[r].pc \in Working
        /\ pc = "conflict" => rev # req[r].expected
        /\ pc = "ok" => Verify(r) /\ Shows(req[r].want)
  BY DEF Verify, VerifyAnswer, Exhausted, RefuseMerged, StartOver, LoseRace, Beaten,
         NoRow, Fail, InSwitch, Usable, Answers, Working
<1>2. pc = "ok" => req[r].want = Shown
  BY <1>1, PictureShown DEF Verify, AvatarInv, RequestsSound, Sound
<1>3. Shown' = Shown /\ rev' = rev
  BY DEF Verify, Exhausted, RefuseMerged, StartOver, LoseRace, NoRow, Fail, Shown,
         rowVars, storeVars
<1>4. QED
  BY <1>1, <1>2, <1>3, Replies DEF Working

LEMMA SimulatePublish ==
    ASSUME AvatarInv, NEW r \in Requests, Publish(r)
    PROVE  Simulated
<1>1. PICK o \in Objects :
        /\ body[o] = None /\ body' = [body EXCEPT ![o] = req[r].want]
        /\ \/ req' = [req EXCEPT ![r].obj = o, ![r].pc = "switch",
                                 ![r].left = req[r].left - 1]
           \/ To(r, "failed")
           \/ req' = [req EXCEPT ![r].left = req[r].left - 1]
  BY DEF Publish
<1>2. /\ req[r].pc = "publish" /\ req[r] \in Request /\ req[r].left - 1 \in Nat
      /\ req \in [Requests -> Request]
  BY DEF Publish, AvatarInv, TypeOK, Request
<1>3. Shown' = Shown /\ rev' = rev
  <2>1. current' = current /\ rev' = rev
    BY DEF Publish, rowVars
  <2>2. current # None => current # o
    BY <1>1 DEF AvatarInv, RowInv, DrawnOnly
  <2>3. QED
    BY <1>1, <2>1, <2>2 DEF Shown, AvatarInv, TypeOK
<1>4. CASE To(r, "failed")
  BY <1>2, <1>3, <1>4, Replies DEF Working, Answers
<1>5. CASE req' = [req EXCEPT ![r].left = req[r].left - 1]
  <2>1. PICK v : v = [req[r] EXCEPT !.left = req[r].left - 1]
    OBVIOUS
  <2>2. /\ v \in Request /\ v.want = req[r].want /\ v.pc = "publish"
        /\ v.expected = req[r].expected
    BY <1>2, <2>1 DEF Request
  <2>3. req' = [req EXCEPT ![r] = v]
    BY <1>2, <1>5, <2>1
  <2>4. /\ Asked' = Asked /\ Answer' = [Answer EXCEPT ![r] = "open"]
        /\ Answer[r] = "open"
    BY <1>2, <2>2, <2>3, Tells DEF Reply, Working
  <2>5. Answer' = Answer
    BY <2>4 DEF Answer
  <2>6. QED
    BY <1>3, <2>4, <2>5 DEF Simulated, Same
<1>6. CASE req' = [req EXCEPT ![r].obj = o, ![r].pc = "switch", ![r].left = req[r].left - 1]
  <2>1. PICK v : v = [req[r] EXCEPT !.obj = o, !.pc = "switch", !.left = req[r].left - 1]
    OBVIOUS
  <2>2. /\ v \in Request /\ v.want = req[r].want /\ v.pc = "switch"
        /\ v.expected = req[r].expected
    BY <1>2, <2>1 DEF Request, Working
  <2>3. req' = [req EXCEPT ![r] = v]
    BY <1>2, <1>6, <2>1
  <2>4. /\ Asked' = Asked /\ Answer' = [Answer EXCEPT ![r] = "open"]
        /\ Answer[r] = "open"
    BY <1>2, <2>2, <2>3, Tells DEF Reply, Working
  <2>5. Answer' = Answer
    BY <2>4 DEF Answer
  <2>6. QED
    BY <1>3, <2>4, <2>5 DEF Simulated, Same
<1>7. QED
  BY <1>1, <1>4, <1>5, <1>6

LEMMA SimulatePointer ==
    ASSUME AvatarInv, NEW r \in Requests, SwitchPointer(r) \/ Insert(r)
    PROVE  Simulated
<1>1. /\ req[r].pc \in {"switch", "insert"} /\ Sound(req[r])
      /\ body[req[r].obj] = req[r].want /\ req[r].obj # None
  BY AvatarAssumption
     DEF SwitchPointer, Usable, InSwitch, Insert, AvatarInv, RequestsSound, Sound, Holding
<1>2. CASE SwitchPointer(r) \/ rev = 0
  <2>1. /\ Committed(r) /\ rev' = rev + 1 /\ current' = req[r].obj
        /\ rev = req[r].expected /\ body' = body
    BY <1>1, <1>2
       DEF SwitchPointer, Insert, PointTo, NextRevision, storeVars, Sound, Usable, InSwitch
  <2>2. Shown' = req[r].want
    BY <1>1, <2>1 DEF Shown
  <2>3. QED
    BY <1>1, <2>1, <2>2, Changes DEF Working
<1>3. CASE Insert(r) /\ rev # 0
  <2>1. To(r, "orphan") /\ UNCHANGED <<rowVars, storeVars>>
    BY <1>1, <1>3 DEF Insert, Beaten, Sound
  <2>2. Shown' = Shown /\ rev' = rev
    BY <2>1 DEF Shown, rowVars, storeVars
  <2>3. QED
    BY <1>1, <2>1, <2>2, Replies DEF Working
<1>4. QED
  BY <1>2, <1>3

LEMMA SimulateRest ==
    ASSUME AvatarInv, NEW r \in Requests, KeepShown(r) \/ Remove(r) \/ DropOrphan(r)
    PROVE  Simulated
<1>1. req[r] \in Request /\ Sound(req[r]) /\ rev \in Nat
  BY DEF AvatarInv, TypeOK, RequestsSound
<1>2. CASE KeepShown(r)
  <2>1. PICK pc \in {"ok", "failed"} : To(r, pc)
    BY <1>2 DEF KeepShown, Committed
  <2>2. /\ req[r].pc = "switch" /\ Shows(req[r].want) /\ req[r].want \in Contents
    BY <1>1, <1>2 DEF KeepShown, ShownAlready, Usable, InSwitch, Sound, Holding
  <2>3. Shown = req[r].want /\ Shown' = Shown /\ rev' = rev
    BY <1>2, <2>2, PictureShown DEF KeepShown, Shown, rowVars, storeVars
  <2>4. QED
    BY <2>1, <2>2, <2>3, Replies DEF Working, Answers
<1>3. CASE DropOrphan(r)
  <2>1. To(r, "conflict") /\ req[r].pc = "orphan" /\ req[r].expected # rev
    BY <1>1, <1>3 DEF DropOrphan, Sound, Request
  <2>2. Shown' = Shown /\ rev' = rev
    BY <1>3 DEF DropOrphan, Shown, rowVars
  <2>3. QED
    BY <2>1, <2>2, Replies DEF Working, Answers
<1>4. CASE Remove(r) /\ (current = None \/ rev # req[r].expected)
  <2>1. PICK pc \in {"ok", "conflict"} :
          To(r, pc) /\ (pc = "ok" => current = None) /\ (pc = "conflict" => current # None)
    BY <1>4 DEF Remove
  <2>2. req[r].pc = "remove" /\ req[r].want = None
    BY <1>1, <1>4 DEF Remove, Sound
  <2>3. Shown' = Shown /\ rev' = rev
    BY <1>4 DEF Remove, Shown, rowVars, storeVars
  <2>4. /\ pc = "ok" => req[r].want = Shown
        /\ pc = "conflict" => req[r].expected # rev
    BY <1>4, <2>1, <2>2, PictureShown
  <2>5. QED
    BY <2>1, <2>2, <2>3, <2>4, Replies DEF Working, Answers
<1>5. CASE Remove(r) /\ current # None /\ rev = req[r].expected
  <2>1. /\ Committed(r) /\ rev' = rev + 1 /\ current' = None /\ req[r].pc = "remove"
        /\ req[r].want = None
    BY <1>1, <1>5 DEF Remove, NextRevision, Sound
  <2>2. Shown' = req[r].want
    BY <2>1 DEF Shown
  <2>3. QED
    BY <1>5, <2>1, <2>2, Changes DEF Working
<1>6. QED
  BY <1>2, <1>3, <1>4, <1>5

LEMMA InitSimulated == Init => Register!Init
  BY DEF Init, Register!Init, Shown, Asked, Answer, NoRequest, Working

LEMMA StepSimulated == AvatarInv /\ [Next]_vars => [Register!Next]_(Register!vars)
<1>1. SUFFICES ASSUME AvatarInv, [Next]_vars PROVE Simulated
  BY DEF Simulated, Same, Register!vars
<1>2. ASSUME UNCHANGED <<rev, current, body, req>> PROVE Simulated
  BY <1>2 DEF Simulated, Same, Shown, Asked, Answer
<1>3. CASE UNCHANGED vars
  BY <1>2, <1>3 DEF vars, rowVars, storeVars
<1>4. ASSUME NEW n \in Runners, RunnerStep(n) PROVE Simulated
  BY <1>2, <1>4
     DEF RunnerStep, List, NoList, Enqueue, ListDue, NoneDue, Take, LoseSession, Delete,
         DeleteFails, Finish, CrashRunner, rowVars, storeVars
<1>5. CASE \/ \E o \in Objects : TimePasses(o) \/ Damage(o)
           \/ Merge \/ PatchDisplayName
  BY <1>2, <1>5 DEF TimePasses, Damage, Merge, PatchDisplayName, rowVars, storeVars
<1>6. ASSUME NEW r \in Requests, RequestStep(r) PROVE Simulated
  BY <1>1, <1>6, SimulateBegin, SimulateSidesteps, SimulatePublish, SimulatePointer,
     SimulateRest DEF RequestStep
<1>7. QED
  BY <1>1, <1>3, <1>4, <1>5, <1>6 DEF Next

\* What clients see of an avatar is one register with compare-and-swap on
\* avatar_revision: the customers' and the account's publishAndSwitch, Set and
\* Remove never apply a change at another revision than the client has seen,
\* never apply one twice, and report a conflict only if there was one.
THEOREM AvatarIsRegister == Spec => ImplementsRegister
  BY InitSimulated, StepSimulated, AvatarInvariant, PTL
     DEF Spec, ImplementsRegister, Register!Spec
=============================================================================
