\* Two plans whose shoots start together, and one server.
SPECIFICATION FairSpec
CONSTANTS
  a1 = a1  a2 = a2  s1 = s1  s2 = s2  r1 = r1  None = None
  Plans = {1, 2}  Assignments = {a1, a2}  PlanOf <- MCOneEach  Times = {1}
  Runners = {s1}  Readers = {}
  Mutations = {"claim"}
  Defects = {}  ClaimLimit = 2  WriterLag = 0
  MaxFacts = 2  MaxGen = 4  MaxNow = 1  MaxZone = 0  MaxCrashes = 0
PROPERTIES EndedIsWithdrawn
