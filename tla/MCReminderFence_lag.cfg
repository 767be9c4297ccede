\* A CRM writer waits for the fence while the shoot starts.
SPECIFICATION Spec
CONSTANTS
  a1 = a1  a2 = a2  s1 = s1  s2 = s2  r1 = r1  None = None
  Plans = {1}  Assignments = {a1}  PlanOf <- MCOne  Times = {1, 2}
  Runners = {s1}  Readers = {}
  Mutations = {"claim", "book"}
  Defects = {}  ClaimLimit = 2  WriterLag = 1
  MaxFacts = 3  MaxGen = 5  MaxNow = 2  MaxZone = 0  MaxCrashes = 0
INVARIANTS EndedStaysEnded
