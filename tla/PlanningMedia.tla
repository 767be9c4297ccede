---------------------------- MODULE PlanningMedia ----------------------------
(***************************************************************************)
(* One planning asset: its row, its two immutable objects, what holds it   *)
(* alive (bindings, leases, read pins), the uploads that publish it, the   *)
(* collector that removes it, and the sweep that removes orphan objects.   *)
(*                                                                         *)
(* Every path that touches the row takes its lock first, so one asset is   *)
(* enough; the object store takes part in no transaction.  Uploads of one  *)
(* idempotency key name the same asset and the same object keys, and the   *)
(* ledger lets one of them at a time into the callback.                    *)
(***************************************************************************)
EXTENDS Naturals, FiniteSets

CONSTANTS Uploads,     \* attempts to upload under one idempotency key
          Holders,     \* a plan or a shot with a purpose its rights permit
          Readers,     \* display responses
          Collectors,  \* runs of ReconcileGC
          Grace,       \* how long a staged asset or an orphan is kept
          PinTTL, LeaseTTL,
          MaxMediaClock, MaxMediaRevision   \* bounds

NoUploader == "nobody"

ASSUME PlanningMediaAssumption ==
  /\ {Grace, PinTTL, LeaseTTL, MaxMediaClock, MaxMediaRevision} \subseteq Nat
  /\ Grace # 0 /\ NoUploader \notin Uploads

VARIABLES mediaAsset,   \* the row: state, revision, when it is eligible for collection
          objects,      \* the object store: what exists, and since when
          observed,     \* planning_media_object_inventory: key -> first seen
          bindings,     \* the holders with an active binding
          leases,       \* active leases: the binding and the expiry
          pins,         \* [Readers -> expiry of the active pin, 0 for none]
          upload, uploader,  \* the attempts, and the one whose transaction is open
          reader, collector,
          sweep,        \* the run of ReconcilePhysicalOrphans
          mediaClock

mediaVars == <<mediaAsset, objects, observed, bindings, leases, pins, upload, uploader,
               reader, collector, sweep, mediaClock>>

Renditions == {"original", "display"}
Times  == 0..MaxMediaClock
Absent == MaxMediaClock + 1   \* no such object, no such observation

AssetStates == {"none", "staged", "active", "gc_pending", "deleted", "corrupt"}
\* A claimed asset is still lent out.
RefusedGone == {"none", "deleted", "corrupt"}

Refused     == {"none", "gc_pending", "deleted", "corrupt"}   \* for a bind, a lease or a read

NoUpload  == [pc |-> "idle", created |-> {}]
NoClaim   == [pc |-> "idle", revision |-> 0, left |-> {}]
NoSweep   == [pc |-> "idle", now |-> 0, expected |-> {}, listed |-> {}]

MediaTypeOK ==
  /\ mediaAsset \in [state: AssetStates, revision: 0..MaxMediaRevision, created: Nat, eligible: Nat]
  /\ objects \in [Renditions -> Times \cup {Absent}]
  /\ observed \in [Renditions -> Times \cup {Absent}]
  /\ bindings \subseteq Holders
  /\ leases \subseteq [binding: Holders, expires: Nat]
  /\ pins \in [Readers -> Nat]
  /\ upload \in [Uploads -> [pc: {"idle", "original", "display", "insert", "done", "cleaning", "failed"},
                             created: SUBSET Renditions]]
  /\ uploader \in Uploads \cup {NoUploader}
  /\ reader \in [Readers -> {"idle", "pinned", "streaming", "broken", "gone"}]
  /\ collector \in [Collectors -> [pc: {"idle", "claimed", "removed"},
                                   revision: 0..MaxMediaRevision, left: SUBSET Renditions]]
  /\ sweep.pc \in {"idle", "expected", "listed", "forget"}
  /\ mediaClock \in Times

MediaInit ==
  /\ mediaAsset = [state |-> "none", revision |-> 0, created |-> 0, eligible |-> 0]
  /\ objects = [x \in Renditions |-> Absent]
  /\ observed = [x \in Renditions |-> Absent]
  /\ bindings = {} /\ leases = {}
  /\ pins = [r \in Readers |-> 0]
  /\ upload = [u \in Uploads |-> NoUpload] /\ uploader = NoUploader
  /\ reader = [r \in Readers |-> "idle"]
  /\ collector = [g \in Collectors |-> NoClaim]
  /\ sweep = NoSweep
  /\ mediaClock = 0

Stored(x) == objects[x] # Absent

(***************************************************************************)
(* Upload                                                                  *)
(***************************************************************************)

\* The attempt whose claim of the key succeeds runs the callback; once one has
\* committed, the others replay its answer.
UploadBegin(u) ==
  /\ upload[u].pc = "idle"
  /\ uploader = NoUploader
  /\ IF mediaAsset.state = "none"
       THEN /\ uploader' = u
            /\ upload' = [upload EXCEPT ![u].pc = "original"]
       ELSE /\ upload' = [upload EXCEPT ![u].pc = "done"]
            /\ UNCHANGED uploader
  /\ UNCHANGED <<mediaAsset, objects, observed, bindings, leases, pins, reader, collector,
                 sweep, mediaClock>>

After(x) == IF x = "original" THEN "display" ELSE "insert"

\* PutImmutable: an object that exists with these bytes is kept and not counted as ours.
Publish(u, x) ==
  /\ upload[u].pc = x
  /\ objects' = IF Stored(x) THEN objects ELSE [objects EXCEPT ![x] = mediaClock]
  /\ upload' = [upload EXCEPT ![u] = [pc |-> After(x),
                                      created |-> IF Stored(x) THEN @.created ELSE @.created \cup {x}]]
  /\ UNCHANGED <<mediaAsset, observed, bindings, leases, pins, uploader, reader, collector,
                 sweep, mediaClock>>

\* InsertAsset and the commit.  A key the sweep has observed is already in the
\* inventory and the insert fails on it.  told: the commit is reported.
UploadCommit(u, told) ==
  /\ upload[u].pc = "insert"
  /\ \A x \in Renditions : observed[x] = Absent
  /\ mediaAsset' = [state |-> "staged", revision |-> 1, created |-> mediaClock,
                    eligible |-> mediaClock + Grace]
  /\ observed' = [x \in Renditions |-> mediaClock]
  /\ upload' = [upload EXCEPT ![u].pc = IF told THEN "done" ELSE "cleaning"]
  /\ uploader' = NoUploader
  /\ UNCHANGED <<objects, bindings, leases, pins, reader, collector, sweep, mediaClock>>

\* Any error of the callback, or a refused insert: the transaction rolls back.
UploadFail(u) ==
  /\ upload[u].pc \in {"original", "display", "insert"}
  /\ upload' = [upload EXCEPT ![u].pc = "cleaning"]
  /\ uploader' = NoUploader
  /\ UNCHANGED <<mediaAsset, objects, observed, bindings, leases, pins, reader, collector,
                 sweep, mediaClock>>

\* removePublishedBestEffort: after the rollback, what this attempt created, newest first.
RemovePublished(u, x) ==
  /\ upload[u].pc = "cleaning" /\ x \in upload[u].created
  /\ x = "original" => "display" \notin upload[u].created
  /\ objects' = [objects EXCEPT ![x] = Absent]
  /\ upload' = [upload EXCEPT ![u].created = @ \ {x}]
  /\ UNCHANGED <<mediaAsset, observed, bindings, leases, pins, uploader, reader, collector,
                 sweep, mediaClock>>

\* The cleanup has ended, or a removal failed, or the server died.
UploadGone(u) ==
  /\ \/ upload[u].pc = "cleaning" /\ UNCHANGED uploader
     \/ upload[u].pc \in {"original", "display", "insert"} /\ uploader' = NoUploader
  /\ upload' = [upload EXCEPT ![u] = [pc |-> "failed", created |-> {}]]
  /\ UNCHANGED <<mediaAsset, objects, observed, bindings, leases, pins, reader, collector,
                 sweep, mediaClock>>

(***************************************************************************)
(* Bindings and leases                                                     *)
(***************************************************************************)

Revised(state, eligible) ==
  /\ mediaAsset.revision < MaxMediaRevision
  /\ mediaAsset' = [mediaAsset EXCEPT !.state = state, !.revision = @ + 1, !.eligible = eligible]

\* CreateBinding and BindPreparedAssetsInScope; an active binding is returned as it is.
CreateBinding(h) ==
  /\ mediaAsset.state \notin Refused
  /\ h \notin bindings
  /\ bindings' = bindings \cup {h}
  /\ Revised("active", mediaAsset.eligible)
  /\ UNCHANGED <<objects, observed, leases, pins, upload, uploader, reader, collector,
                 sweep, mediaClock>>

Later(a, b) == IF a < b THEN b ELSE a

\* The last release stages the asset again, whatever its state, and never
\* brings its collection forward.
ReleaseBinding(h) ==
  /\ h \in bindings
  /\ bindings' = bindings \ {h}
  /\ IF bindings' = {}
       THEN Revised("staged", Later(mediaAsset.eligible,
                                    Later(mediaAsset.created + Grace, mediaClock)))
       ELSE Revised(mediaAsset.state, mediaAsset.eligible)
  /\ UNCHANGED <<objects, observed, leases, pins, upload, uploader, reader, collector,
                 sweep, mediaClock>>

ReserveLease(h) ==
  /\ mediaAsset.state \notin Refused
  /\ h \in bindings
  /\ leases' = leases \cup {[binding |-> h, expires |-> mediaClock + LeaseTTL]}
  /\ UNCHANGED <<mediaAsset, objects, observed, bindings, pins, upload, uploader, reader,
                 collector, sweep, mediaClock>>

ReleaseLease(l) ==
  /\ l.expires > mediaClock
  /\ leases' = leases \ {l}
  /\ UNCHANGED <<mediaAsset, objects, observed, bindings, pins, upload, uploader, reader,
                 collector, sweep, mediaClock>>

(***************************************************************************)
(* Reading the display                                                     *)
(***************************************************************************)

\* OpenDisplay and IssueShareDisplayPermit commit a pin.  A share reads only
\* through a binding, the workbench also previews a staged asset.
IssuePin(r, shared) ==
  /\ reader[r] = "idle"
  /\ mediaAsset.state \notin Refused
  /\ bindings = {} => mediaAsset.state # "active" /\ ~shared
  /\ pins' = [pins EXCEPT ![r] = mediaClock + PinTTL]
  /\ reader' = [reader EXCEPT ![r] = "pinned"]
  /\ UNCHANGED <<mediaAsset, objects, observed, bindings, leases, upload, uploader, collector,
                 sweep, mediaClock>>

\* The verified open, after the transaction; a missing object gives the pin back.
OpenObject(r) ==
  /\ reader[r] = "pinned"
  /\ IF Stored("display")
       THEN reader' = [reader EXCEPT ![r] = "streaming"] /\ UNCHANGED pins
       ELSE reader' = [reader EXCEPT ![r] = "broken"] /\ pins' = [pins EXCEPT ![r] = 0]
  /\ UNCHANGED <<mediaAsset, objects, observed, bindings, leases, upload, uploader, collector,
                 sweep, mediaClock>>

\* ReadDisplay pins and reads under the row lock; its pin does not outlive the call.
ReadDisplay(r) ==
  /\ reader[r] = "idle"
  /\ mediaAsset.state \notin Refused
  /\ bindings = {} => mediaAsset.state # "active"
  /\ reader' = [reader EXCEPT ![r] = IF Stored("display") THEN "gone" ELSE "broken"]
  /\ UNCHANGED <<mediaAsset, objects, observed, bindings, leases, pins, upload, uploader,
                 collector, sweep, mediaClock>>

markAssetCorrupt(r) ==
  /\ reader[r] = "broken"
  /\ reader' = [reader EXCEPT ![r] = "gone"]
  /\ IF mediaAsset.state \in Refused
       THEN UNCHANGED mediaAsset
       ELSE Revised("corrupt", mediaAsset.eligible)
  /\ UNCHANGED <<objects, observed, bindings, leases, pins, upload, uploader, collector,
                 sweep, mediaClock>>

\* Close releases the pin; a crash leaves it to expire.
CloseStream(r, crashed) ==
  /\ reader[r] \in {"pinned", "streaming"}
  /\ crashed \/ reader[r] = "streaming"
  /\ reader' = [reader EXCEPT ![r] = "gone"]
  /\ pins' = IF crashed THEN pins ELSE [pins EXCEPT ![r] = 0]
  /\ UNCHANGED <<mediaAsset, objects, observed, bindings, leases, upload, uploader, collector,
                 sweep, mediaClock>>

(***************************************************************************)
(* ReconcileGC                                                             *)
(***************************************************************************)

Held(now) ==
  \/ bindings # {}
  \/ \E l \in leases : l.expires > now
  \/ \E r \in Readers : pins[r] > now

\* The claim, in a transaction of its own.  A second collector may claim again.
ClaimGarbage(g) ==
  /\ collector[g].pc = "idle"
  /\ mediaAsset.state \in {"staged", "gc_pending"}
  /\ mediaAsset.eligible <= mediaClock
  /\ ~Held(mediaClock)
  /\ Revised("gc_pending", mediaAsset.eligible)
  /\ collector' = [collector EXCEPT ![g] = [pc |-> "claimed", revision |-> mediaAsset.revision + 1,
                                            left |-> Renditions]]
  /\ UNCHANGED <<objects, observed, bindings, leases, pins, upload, uploader, reader, sweep,
                 mediaClock>>

\* The objects, one by one, outside any transaction; an absent one is fine.
RemoveGarbage(g, x) ==
  /\ collector[g].pc = "claimed" /\ x \in collector[g].left
  /\ objects' = [objects EXCEPT ![x] = Absent]
  /\ collector' = [collector EXCEPT ![g].left = @ \ {x},
                                    ![g].pc = IF collector[g].left = {x} THEN "removed" ELSE "claimed"]
  /\ UNCHANGED <<mediaAsset, observed, bindings, leases, pins, upload, uploader, reader, sweep,
                 mediaClock>>

\* A removal that fails, or a crash: the row stays gc_pending for a later run.
CollectorFails(g) ==
  /\ collector[g].pc # "idle"
  /\ collector' = [collector EXCEPT ![g] = NoClaim]
  /\ UNCHANGED <<mediaAsset, objects, observed, bindings, leases, pins, upload, uploader, reader,
                 sweep, mediaClock>>

\* The second transaction; a claim taken over meanwhile is a conflict.
FinishGarbage(g) ==
  /\ collector[g].pc = "removed"
  /\ IF mediaAsset.state = "gc_pending" /\ mediaAsset.revision = collector[g].revision
       THEN /\ Revised("deleted", mediaAsset.eligible)
            /\ observed' = [x \in Renditions |-> Absent]
       ELSE UNCHANGED <<mediaAsset, observed>>
  /\ collector' = [collector EXCEPT ![g] = NoClaim]
  /\ UNCHANGED <<objects, bindings, leases, pins, upload, uploader, reader, sweep, mediaClock>>

(***************************************************************************)
(* ReconcilePhysicalOrphans                                                *)
(***************************************************************************)

\* ExpectedInventory: the renditions of every row that is not deleted.
ReadExpected ==
  /\ sweep.pc = "idle"
  /\ sweep' = [pc |-> "expected", now |-> mediaClock, listed |-> {},
               expected |-> IF mediaAsset.state \in {"none", "deleted"} THEN {} ELSE Renditions]
  /\ UNCHANGED <<mediaAsset, objects, observed, bindings, leases, pins, upload, uploader, reader,
                 collector, mediaClock>>

\* What the listing saw is not written down.
ListObjectsUnrecorded ==
  /\ sweep.pc = "expected"
  /\ LET found  == {x \in Renditions : Stored(x)}
         old(t) == t # Absent /\ t + Grace <= sweep.now
     IN sweep' = [sweep EXCEPT !.pc = "listed",
                    !.listed = {x \in found \ sweep.expected : old(objects[x])}]
  /\ UNCHANGED <<mediaAsset, objects, observed, bindings, leases, pins, upload, uploader, reader,
                 collector, mediaClock>>

\* The listing, and an upsert per object that keeps the first sighting.  What is
\* left to remove is an orphan old enough in the store and in the inventory.
ListObjects ==
  /\ sweep.pc = "expected"
  /\ LET found   == {x \in Renditions : Stored(x)}
         sighted == [x \in Renditions |-> IF x \in found /\ observed[x] = Absent THEN sweep.now
                                          ELSE observed[x]]
         old(t)  == t # Absent /\ t + Grace <= sweep.now
     IN /\ observed' = sighted
        /\ sweep' = [sweep EXCEPT !.pc = "listed",
                       !.listed = {x \in found \ sweep.expected : old(objects[x]) /\ old(sighted[x])}]
  /\ UNCHANGED <<mediaAsset, objects, bindings, leases, pins, upload, uploader, reader, collector,
                 mediaClock>>

RemoveOrphan(x) ==
  /\ sweep.pc = "listed" /\ x \in sweep.listed
  /\ objects' = [objects EXCEPT ![x] = Absent]
  /\ observed' = [observed EXCEPT ![x] = Absent]
  /\ sweep' = [sweep EXCEPT !.listed = @ \ {x}]
  /\ UNCHANGED <<mediaAsset, bindings, leases, pins, upload, uploader, reader, collector, mediaClock>>

\* The sweep has ended, by an error perhaps.
SweepEnds ==
  /\ sweep.pc # "idle"
  /\ sweep' = NoSweep
  /\ UNCHANGED <<mediaAsset, objects, observed, bindings, leases, pins, upload, uploader, reader,
                 collector, mediaClock>>

MediaTick ==
  /\ mediaClock < MaxMediaClock
  /\ mediaClock' = mediaClock + 1
  /\ UNCHANGED <<mediaAsset, objects, observed, bindings, leases, pins, upload, uploader, reader,
                 collector, sweep>>

UploadStep(u) ==
  \/ UploadBegin(u)
  \/ \E x \in Renditions : Publish(u, x) \/ RemovePublished(u, x)
  \/ \E told \in BOOLEAN : UploadCommit(u, told)
  \/ UploadFail(u)
  \/ UploadGone(u)

HolderStep(h) == CreateBinding(h) \/ ReleaseBinding(h) \/ ReserveLease(h)

ReaderStep(r) ==
  \/ \E b \in BOOLEAN : IssuePin(r, b) \/ CloseStream(r, b)
  \/ OpenObject(r) \/ ReadDisplay(r) \/ markAssetCorrupt(r)

CollectorStep(g) ==
  \/ ClaimGarbage(g)
  \/ \E x \in Renditions : RemoveGarbage(g, x)
  \/ CollectorFails(g)
  \/ FinishGarbage(g)

SweepStep == ReadExpected \/ ListObjects \/ (\E x \in Renditions : RemoveOrphan(x)) \/ SweepEnds

MediaNext ==
  \/ \E u \in Uploads : UploadStep(u)
  \/ \E h \in Holders : HolderStep(h)
  \/ \E l \in leases : ReleaseLease(l)
  \/ \E r \in Readers : ReaderStep(r)
  \/ \E g \in Collectors : CollectorStep(g)
  \/ SweepStep
  \/ MediaTick

MediaSpec == MediaInit /\ [][MediaNext]_mediaVars

(***************************************************************************)
(* Properties                                                              *)
(***************************************************************************)

\* What somebody holds is not collected: while a binding, a lease or a read pin
\* of the asset lives, the collector neither claims its row nor takes an object,
\* even one that was claimed before the holder came.
HeldIsKept ==
  /\ Held(mediaClock) => mediaAsset.state \notin {"gc_pending", "deleted"}
  /\ mediaAsset.state = "active" => bindings # {}

\* The workers take objects of nothing that is live: a step of a collector or of
\* the sweep that removes an object finds no staged or active asset.
WorkersSpareLiveAssets ==
  [][(objects' # objects /\ upload' = upload) =>
       mediaAsset.state \notin {"staged", "active"}]_mediaVars

\* planning-reference-assets-design.md:298: a retry under the same key that
\* finds the objects published may go on with them (a safe resume).
ResumeIsSafe ==
  \A u \in Uploads :
    (upload[u].pc = "done" /\ upload[u].created = {} /\ mediaAsset.state = "staged")
      => \A x \in Renditions : Stored(x)
============================================================================
