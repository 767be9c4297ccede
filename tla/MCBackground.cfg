\* The gate, the reconcile epochs, the process, and the avatars with two requests and a maintenance
\* loop, lost sessions, failing deletions, crashes and damage; each by itself.
SPECIFICATION BackgroundSpec
CONSTANTS
  Duties = {"gate", "epochs", "life", "avatars"}
  Senders = {s1, s2, s3}  Rebinders = {r1, r2}
  EpochRunners = {a, b}  EpochPlans = {p1}  ClaimLimit = 1
  MaxGeneration = 2  MaxEpochRows = 2  MaxCrashes = 1
  Loops = {l1, l2}  Visits = {v1, v2}
  Requests = {q1, q2}  Runners = {n1}  Objects = {o1, o2}  Contents = {x, y}
  None = None  MaxFresh = 2  MaxFaults = 1
INVARIANT PointerNamesObject
PROPERTIES RebinderServed EpochsEnd StopsWhenAsked ImplementsRegister GarbageIsCollected
\* The bounds stop the epochs and the avatars.
CHECK_DEADLOCK FALSE
