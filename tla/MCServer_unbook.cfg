\* The slot of an order that a plan follows is deleted.
SPECIFICATION ServerSpec
CONSTANTS
  Parts = {"studio"}
  Requests = {a}  Frames = {"f"}  TTL = 1  MaxClock = 0
  Clients = {a}  ActionTTL = 1  ResetTTL = 1  IdleTTL = 1  AbsoluteTTL = 1  ReplayWindow = 0
  MaxAcctClock = 0  MaxLinks = 1  MaxFamilies = 1  MaxGenerations = 1  MaxPasswords = 1
  Attempts = {a}  Limit = 1  Window = 1  DayLength = 1  MaxBudgetClock = 0  MaxAdmitted = 1
  Days = {1}  Amounts = {0}  OrderRequests <- MCOrderRequests
  Customers = {a}  Orders = {o1}  Slots = {s1}  Plans = {p1}  Nobody = Nobody  Ends = {1, 2}
  OrderCreations <- MCCreations  OrderChanges <- MCChanges  MaxStudioClock = 1
  Uploads = {u1}  Holders = {h1}  Readers = {d1}  Collectors = {g1}
  Grace = 1  PinTTL = 1  LeaseTTL = 1  MaxMediaClock = 0  MaxMediaRevision = 1
  Workers = {a}  TxKinds <- MCOrderly
  Visitors = {v1}  NoVisitor = NoVisitor  MaxEpochs = 1  MaxEdits = 1
  MaxChanges = 1  MaxPrice = 1
INVARIANT SlotsCanBeDeleted
CHECK_DEADLOCK FALSE
