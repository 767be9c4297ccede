\* Every mutation while the clock passes two start times: two plans and two servers,
\* which are interchangeable; a CRM writer may wait a tick for the fence.
SPECIFICATION Spec
CONSTANTS
  a1 = a1  a2 = a2  s1 = s1  s2 = s2  r1 = r1  None = None
  Plans = {1, 2}  Assignments = {a1, a2}  PlanOf <- MCOneEach  Times = {1, 2}
  Runners = {s1, s2}  Readers = {}
  Mutations = {"claim", "revoke", "zone", "link", "unlink", "book", "unbook", "archive"}
  Defects = {}  ClaimLimit = 2  WriterLag = 1
  MaxFacts = 3  MaxGen = 5  MaxNow = 2  MaxZone = 1  MaxCrashes = 0
INVARIANTS WatermarkExact CaughtUpMeansProjected
PROPERTIES OnlyLateWritersReopen
SYMMETRY MCServersAlike
