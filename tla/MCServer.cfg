\* Each part of the server by itself, small enough that every interleaving is visited.
SPECIFICATION ServerSpec
CONSTANTS
  Parts = {"ledger", "accounts", "budgets", "orders", "studio", "media",
           "locks", "share", "business"}
  Requests = {a, b}  Frames = {"f", "g"}  TTL = 2  MaxClock = 3
  Clients = {a, b}  ActionTTL = 1  ResetTTL = 1  IdleTTL = 1  AbsoluteTTL = 2  ReplayWindow = 0
  MaxAcctClock = 2  MaxLinks = 2  MaxFamilies = 1  MaxGenerations = 3  MaxPasswords = 2
  Attempts = {a, b}  Limit = 1  Window = 2  DayLength = 2  MaxBudgetClock = 3  MaxAdmitted = 3
  Days = {1, 2}  Amounts = {0, 1}  OrderRequests <- MCOrderRequests
  Customers = {a, b}  Orders = {o1}  Slots = {s1}  Plans = {p1}  Nobody = Nobody  Ends = {1, 2}
  OrderCreations <- MCCreations  OrderChanges <- MCChanges  MaxStudioClock = 1
  Uploads = {u1}  Holders = {h1}  Readers = {d1}  Collectors = {g1}
  Grace = 1  PinTTL = 1  LeaseTTL = 1  MaxMediaClock = 2  MaxMediaRevision = 5
  Workers = {a, b, w3}  TxKinds <- MCOrderly
  Visitors = {v1}  NoVisitor = NoVisitor  MaxEpochs = 2  MaxEdits = 2
  MaxChanges = 2  MaxPrice = 2
INVARIANTS OrderFactsHold LedgerRunsOncePerLifetime OneLiveGeneration WindowHolds ConnectionsAgree
           HeldIsKept NoWaitCycle ClaimedItemStays
PROPERTIES ReuseIsReal WindowFollowsShoot UserDecidesTheWindow WorkersSpareLiveAssets
           AnonymousWritesAreCurrent AppliedAsOfToday
SYMMETRY Alike
CHECK_DEADLOCK FALSE
