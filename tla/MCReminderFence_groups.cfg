\* The slot of a linked order is moved away, or belongs to the order of an archived plan.
\* Both invariants fail; -continue shows both.
SPECIFICATION Spec
CONSTANTS
  a1 = a1  a2 = a2  s1 = s1  s2 = s2  r1 = r1  None = None
  Plans = {1}  Assignments = {a1}  PlanOf <- MCOne  Times = {1}
  Runners = {s1}  Readers = {}
  Mutations = {"claim", "book", "unbook", "archive"}
  Defects = {}  ClaimLimit = 2  WriterLag = 0
  MaxFacts = 3  MaxGen = 4  MaxNow = 0  MaxZone = 0  MaxCrashes = 0
INVARIANTS UnbookedHasNoGroup ArchivedHasNoGroup
