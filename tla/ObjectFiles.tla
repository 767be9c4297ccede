------------------------------ MODULE ObjectFiles ------------------------------
(***************************************************************************)
(* One key of an object store: a directory with two files on a local disk  *)
(* (platform/immutablefs/store.go for pictures of plans, avatarmedia/      *)
(* local.go for avatars), or an object of a bucket (immutablefs/oss.go).   *)
(* A key names its checksum, so every put of it carries the same bytes.    *)
(* What a system call changes is in force at once, but survives a loss of  *)
(* power only after the directory it changed has been synced.  Of the      *)
(* directories above the key's only the nearest ever is, so that the       *)
(* others, once made, may be lost with all that is in them.                *)
(***************************************************************************)
EXTENDS Naturals, FiniteSets

CONSTANTS
  Putters,   \* calls of PutImmutable
  Deleters,  \* calls of Delete or RemoveExact
  StoreKinds,    \* which stores are explored, of "local" and "bucket"
  MaxDirs,   \* bound: directories that are told apart
  MaxLosses  \* bound: losses of power and crashes of the server

ASSUME FilesAssumption ==
  /\ Putters \cap Deleters = {}
  /\ StoreKinds \subseteq {"local", "bucket"} /\ MaxDirs \in Nat /\ MaxLosses \in Nat

VARIABLES
  store,    \* which of the two this is
  ancestors,    \* the directories above the key's, all but the last of which nobody syncs
  place,    \* the key's directory: which one it is, 0 for none, and the files in it
  disk,     \* the directories a loss of power may leave
  fileCall,     \* where each call is
  temps,    \* calls whose temporary directory is there
  stale,    \* whether one of an earlier process is there
  listed,   \* what the last listing of the prefix came to
  said,     \* ghost: what was reported last and nothing has contradicted since
  losses    \* losses of power and crashes so far

fileVars == <<store, ancestors, place, disk, fileCall, temps, stale, listed, said, losses>>

Calls  == Putters \cup Deleters
Files  == {"content", "metadata"}
NoDir   == [dir |-> 0, has |-> {}]
NoCall == [step |-> "idle", dir |-> 0, alone |-> FALSE]

FilesInit ==
  /\ store \in StoreKinds /\ place = NoDir /\ disk = {NoDir}
  /\ ancestors \in IF store = "local" THEN {"missing", "kept"} ELSE {"kept"}
  /\ fileCall = [c \in Calls |-> NoCall] /\ temps = {} /\ stale = FALSE
  /\ listed = "nothing" /\ said = "nothing" /\ losses = 0

\* Stat: the metadata tell whether there is an object, and it has to be whole.
Stat == IF "metadata" \notin place.has THEN "missing"
        ELSE IF place.has = Files THEN "whole" ELSE "broken"

Running(some) == {c \in some : fileCall[c].step # "idle"}
CallAt(c, step) == fileCall' = [fileCall EXCEPT ![c].step = step]
CallEnds(c)       == fileCall' = [fileCall EXCEPT ![c] = NoCall]

\* A change that calls of the other sort have to reckon with: they are not alone any more.
Disturbs(c, others, step) ==
  fileCall' = [d \in Calls |->
    IF d = c THEN [fileCall[c] EXCEPT !.step = step, !.alone = Running(others) = {}]
    ELSE IF d \in others THEN [fileCall[d] EXCEPT !.alone = FALSE]
    ELSE fileCall[d]]

\* syncDir of the parent makes the key's directory, or its absence, last; not what is in it.
Synced == {d \in disk \cup {place} : d.dir = place.dir}

-----------------------------------------------------------------------------
(* PutImmutable *)
\* An object that is whole is reported as there; one that is broken is an error.
StatFirst(p) ==
  /\ fileCall[p].step = "idle" /\ Stat = "missing"
  /\ CallAt(p, IF store = "local" THEN "write" ELSE "publish")
  /\ UNCHANGED <<store, ancestors, place, disk, temps, stale, listed, said, losses>>

\* MkdirAll, and the temporary directory: both files and it are synced before they get their
\* name, the directories that MkdirAll has made are not.
WriteTemp(p) ==
  /\ fileCall[p].step = "write"
  /\ ancestors' = IF ancestors = "missing" THEN "fresh" ELSE ancestors
  /\ temps' = temps \cup {p}
  /\ CallAt(p, "publish")
  /\ UNCHANGED <<store, place, disk, stale, listed, said, losses>>

\* The number of a directory that nothing refers to any more.
Spare     == (1..MaxDirs) \ ({place.dir} \cup {s.dir : s \in disk} \cup {fileCall[d].dir : d \in Deleters})
Published == [dir |-> CHOOSE n \in Spare : \A k \in Spare : n <= k, has |-> Files]

\* A rename replaces nothing but an empty directory, and that only if it was not seen before.
Renames(p, step) ==
  /\ store = "local" /\ fileCall[p].step = "publish" /\ Spare # {} /\ place.has = {}
  /\ place' = Published
  /\ disk' = disk \cup {Published}
  /\ temps' = temps \ {p}
  /\ Disturbs(p, Deleters, step)
  /\ UNCHANGED <<store, ancestors, stale, listed, losses>>

\* Variant: the put reports the object as soon as it has its name.
PublishAndReport(p) == Renames(p, "idle") /\ said' = IF Running(Deleters) = {} THEN "created" ELSE "nothing"

RenameTemp(p) == Renames(p, "sync") /\ said' = "nothing"

PublishFails(p) ==
  /\ store = "local" /\ fileCall[p].step = "publish" /\ place.dir # 0
  /\ temps' = temps \ {p}
  /\ CallEnds(p)
  /\ UNCHANGED <<store, ancestors, place, disk, stale, listed, said, losses>>

PutEnds(p) ==
  /\ store = "local" /\ fileCall[p].step = "sync"
  /\ disk' = Synced
  /\ said' = IF fileCall[p].alone THEN "created" ELSE said
  /\ CallEnds(p)
  /\ UNCHANGED <<store, ancestors, place, temps, stale, listed, losses>>

\* The sync fails: the caller gets an error, and the object stays.
PutFails(p) ==
  /\ fileCall[p].step = "sync"
  /\ CallEnds(p)
  /\ UNCHANGED <<store, ancestors, place, disk, temps, stale, listed, said, losses>>

\* PutObject with ForbidOverwrite; the bucket keeps what it has accepted.
PutObject(p) ==
  /\ store = "bucket" /\ fileCall[p].step = "publish" /\ Spare # {}
  /\ IF place.has = {}
     THEN /\ place' = Published /\ disk' = {Published} /\ said' = "nothing"
          /\ Disturbs(p, Deleters, "sync")
     ELSE CallEnds(p) /\ UNCHANGED <<place, disk, said>>
  /\ UNCHANGED <<store, ancestors, temps, stale, listed, losses>>

\* The object is asked for again before it is reported.
ConfirmPut(p) ==
  /\ store = "bucket" /\ fileCall[p].step = "sync"
  /\ said' = IF Stat = "whole" /\ fileCall[p].alone THEN "created" ELSE said
  /\ CallEnds(p)
  /\ UNCHANGED <<store, ancestors, place, disk, temps, stale, listed, losses>>

-----------------------------------------------------------------------------
(* Delete and RemoveExact *)
BeginDelete(d, step) ==
  /\ fileCall[d].step = "idle"
  /\ Disturbs(d, Putters, step)
  /\ said' = "nothing"
  /\ UNCHANGED <<store, ancestors, place, disk, temps, stale, listed, losses>>

DeleteKey(d)      == BeginDelete(d, "open")
\* What is missing is removed already; what is broken is an error.
RemoveExact(d) == Stat = "whole" /\ BeginDelete(d, "open")

\* RemoveAll opens the directory, takes the files out of it and removes its name.
OpenDir(d) ==
  /\ store = "local" /\ fileCall[d].step = "open"
  /\ fileCall' = [fileCall EXCEPT ![d].step = IF place.dir = 0 THEN "sync" ELSE "unlink",
                          ![d].dir = place.dir]
  /\ UNCHANGED <<store, ancestors, place, disk, temps, stale, listed, said, losses>>

Less(s, f) == [s EXCEPT !.has = @ \ {f}]

Unlink(d, f) ==
  /\ fileCall[d].step = "unlink" /\ place.dir = fileCall[d].dir /\ f \in place.has
  /\ place' = Less(place, f)
  /\ disk' = disk \cup {Less(s, f) : s \in {s \in disk : s.dir = place.dir}}
  /\ UNCHANGED <<store, ancestors, fileCall, temps, stale, listed, said, losses>>

RemoveDir(d) ==
  /\ fileCall[d].step = "unlink" /\ (place.dir = fileCall[d].dir => place.has = {})
  /\ IF place.has = {}
     THEN place' = NoDir /\ disk' = disk \cup {NoDir} /\ CallAt(d, "sync")
     ELSE CallEnds(d) /\ UNCHANGED <<place, disk>>
  /\ UNCHANGED <<store, ancestors, temps, stale, listed, said, losses>>

\* There must be a parent to sync.
DeleteEnds(d) ==
  /\ store = "local" /\ fileCall[d].step = "sync" /\ ancestors # "missing"
  /\ disk' = Synced
  /\ said' = IF place.dir = 0 /\ fileCall[d].alone THEN "deleted" ELSE said
  /\ CallEnds(d)
  /\ UNCHANGED <<store, ancestors, place, temps, stale, listed, losses>>

DeleteObject(d) ==
  /\ store = "bucket" /\ fileCall[d].step = "open"
  /\ place' = NoDir /\ disk' = {NoDir}
  /\ CallAt(d, "sync")
  /\ UNCHANGED <<store, ancestors, temps, stale, listed, said, losses>>

\* The sync fails, or the question whether it is gone.
RemovalFails(d) ==
  /\ fileCall[d].step = "sync"
  /\ CallEnds(d)
  /\ UNCHANGED <<store, ancestors, place, disk, temps, stale, listed, said, losses>>

ConfirmDelete(d) ==
  /\ store = "bucket" /\ fileCall[d].step = "sync"
  /\ said' = IF Stat = "missing" /\ fileCall[d].alone THEN "deleted" ELSE said
  /\ CallEnds(d)
  /\ UNCHANGED <<store, ancestors, place, disk, temps, stale, listed, losses>>

-----------------------------------------------------------------------------
(* Listings and losses *)
Lists(outcome) ==
  /\ listed' = outcome /\ outcome # listed
  /\ UNCHANGED <<store, ancestors, place, disk, fileCall, temps, stale, said, losses>>

HasTemps == temps # {} \/ stale

\* Every directory with metadata is taken for an object, a temporary one too.
ListPrefix == store = "local" /\ Lists(IF HasTemps THEN "foreign" ELSE Stat)

\* The inventory of avatars refuses temporary directories, and those with one file of the two.
Inventory == /\ store = "local"
             /\ Lists(IF HasTemps THEN "foreign" ELSE IF Cardinality(place.has) = 1 THEN "broken" ELSE Stat)

\* What a listing of the bucket names is asked for again, and left out if it is gone by then.
statListedObjects == store = "bucket" /\ Lists(Stat)

\* The avatar store removes old temporary directories when it starts.
cleanupStaleTemps ==
  /\ stale /\ Running(Calls) = {}
  /\ stale' = FALSE
  /\ UNCHANGED <<store, ancestors, place, disk, fileCall, temps, listed, said, losses>>

Lost == /\ losses < MaxLosses /\ losses' = losses + 1
        /\ fileCall' = [c \in Calls |-> NoCall]
        /\ temps' = {} /\ UNCHANGED <<store, listed>>

ServerCrashes ==
  /\ Lost /\ Running(Calls) # {}
  /\ stale' = (stale \/ temps # {})
  /\ UNCHANGED <<ancestors, place, disk, said>>

\* A temporary directory may be lost or left.  What the machine starts with is on its disk.
PowerIsLost ==
  /\ Lost /\ place' \in disk /\ disk' = {place'}
  /\ stale' \in {FALSE, stale \/ temps # {}}
  /\ ancestors' = IF ancestors = "fresh" THEN "kept" ELSE ancestors
  /\ UNCHANGED said

\* A directory above that was made since the machine started is lost with all that was in it.
AncestorsAreLost ==
  /\ Lost /\ ancestors = "fresh" /\ ancestors' = "missing"
  /\ place' = NoDir /\ disk' = {NoDir} /\ stale' = FALSE
  /\ said' = IF said = "created" THEN "uprooted" ELSE said

FilesNext ==
  \/ \E p \in Putters : \/ StatFirst(p) \/ WriteTemp(p) \/ RenameTemp(p) \/ PublishFails(p)
                        \/ PutEnds(p) \/ PutFails(p) \/ PutObject(p) \/ ConfirmPut(p)
  \/ \E d \in Deleters : \/ DeleteKey(d) \/ RemoveExact(d) \/ OpenDir(d) \/ RemoveDir(d)
                         \/ DeleteEnds(d) \/ RemovalFails(d) \/ DeleteObject(d) \/ ConfirmDelete(d)
                         \/ \E f \in Files : Unlink(d, f)
  \/ ListPrefix \/ Inventory \/ statListedObjects \/ cleanupStaleTemps
  \/ ServerCrashes \/ PowerIsLost \/ AncestorsAreLost

FilesSpec == FilesInit /\ [][FilesNext]_fileVars

FilesTypeOK ==
  /\ store \in StoreKinds /\ ancestors \in {"missing", "fresh", "kept"}
  /\ place \in [dir : 0..MaxDirs, has : SUBSET Files] /\ place \in disk
  /\ disk \subseteq [dir : 0..MaxDirs, has : SUBSET Files]
  /\ fileCall \in [Calls -> [step : {"idle", "write", "publish", "sync", "open", "unlink"},
                         dir : 0..MaxDirs, alone : BOOLEAN]]
  /\ temps \subseteq Putters /\ stale \in BOOLEAN
  /\ listed \in {"nothing", "missing", "whole", "broken", "foreign"}
  /\ said \in {"nothing", "created", "deleted", "uprooted"} /\ losses \in 0..MaxLosses

-----------------------------------------------------------------------------
\* What a loss of power may leave of the key's directory.
MayBeLeft == disk \cup (IF ancestors = "fresh" THEN {NoDir} ELSE {})

\* What a put has reported as created is whole, in force and after a loss of power, unless that
\* takes a directory above which was made since the machine started; and what a delete has
\* reported as done is gone, in force and on every disk that may be left; until the other sort
\* of call comes (PutImmutable, Delete and the syncs in them).
AnswersAreDurable ==
  /\ said = "created" => /\ place.has = Files
                         /\ \A d \in MayBeLeft : d.has = Files \/ (d = NoDir /\ ancestors = "fresh")
  /\ said = "deleted" => MayBeLeft = {NoDir} /\ place = NoDir

\* Not without that exception: os.MkdirAll makes directories whose names nobody syncs.
CreatedIsDurable == said = "created" => \A d \in MayBeLeft : d.has = Files

\* Nor is an object safe that a put found there: an earlier put whose sync failed has left it, and
\* the caller goes on as if it were (PutImmutable, customer/avatar_application.go:280).
FoundIsDurable ==
  Stat = "whole" /\ Running(Calls) = {} /\ ancestors # "fresh" => \A d \in MayBeLeft : d.has = Files

\* And a deletion that is cut short leaves metadata without content, which no later put, listing
\* or exact removal gets past (Stat).
NeverBroken == Running(Calls) = {} => Stat # "broken"
===============================================================================
