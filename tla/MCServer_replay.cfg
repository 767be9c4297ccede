\* The sweeper comes while a retry waits for the rows.
SPECIFICATION ServerSpec
CONSTANTS
  Parts = {"accounts"}
  Requests = {a}  Frames = {"f"}  TTL = 1  MaxClock = 0
  Clients = {a, b}  ActionTTL = 1  ResetTTL = 1  IdleTTL = 1  AbsoluteTTL = 2  ReplayWindow = 0
  MaxAcctClock = 2  MaxLinks = 2  MaxFamilies = 1  MaxGenerations = 3  MaxPasswords = 2
  Attempts = {a}  Limit = 1  Window = 1  DayLength = 1  MaxBudgetClock = 0  MaxAdmitted = 1
  Days = {1}  Amounts = {0}  OrderRequests <- MCOrderRequests
  Customers = {a}  Orders = {o1}  Slots = {s1}  Plans = {p1}  Nobody = Nobody  Ends = {1, 2}
  OrderCreations <- MCCreations  OrderChanges <- MCChanges  MaxStudioClock = 1
  Uploads = {u1}  Holders = {h1}  Readers = {d1}  Collectors = {g1}
  Grace = 1  PinTTL = 1  LeaseTTL = 1  MaxMediaClock = 0  MaxMediaRevision = 1
  Workers = {a}  TxKinds <- MCOrderly
  Visitors = {v1}  NoVisitor = NoVisitor  MaxEpochs = 1  MaxEdits = 1
  MaxChanges = 2  MaxPrice = 2
INVARIANT RetriesAreAnswered
CHECK_DEADLOCK FALSE
