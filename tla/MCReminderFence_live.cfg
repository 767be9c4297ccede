\* A server that may crash once and a bearer read, against claims, revocations and moved
\* slots, corrupt events and a shoot that starts: what must happen in the end, and what a read serves.
SPECIFICATION FairSpec
CONSTANTS
  a1 = a1  a2 = a2  s1 = s1  s2 = s2  r1 = r1  None = None
  Plans = {1}  Assignments = {a1}  PlanOf <- MCOne  Times = {1}
  Runners = {s1}  Readers = {r1}
  Mutations = {"claim", "revoke", "book"}
  Defects = {"content"}  ClaimLimit = 1  WriterLag = 0
  MaxFacts = 3  MaxGen = 4  MaxNow = 1  MaxZone = 0  MaxCrashes = 1
INVARIANT QuarantinedComesBack
PROPERTIES KeepsContract EverySettled EndedIsWithdrawn ReadsServeTheLatest
