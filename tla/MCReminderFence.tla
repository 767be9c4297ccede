--------------------------- MODULE MCReminderFence ---------------------------
\* Instances of ReminderFence: one plan with two assignments, or two plans.
EXTENDS ReminderFence, TLC

CONSTANTS a1, a2, s1, s2, r1

MCBothOnOne == (a1 :> 1) @@ (a2 :> 1)
MCOneEach == (a1 :> 1) @@ (a2 :> 2)
MCOne == (a1 :> 1)

\* The servers are alike, and so are two assignments of one plan.
MCServersAlike == Permutations({s1, s2})
MCAllAlike == MCServersAlike \cup Permutations({a1, a2})
=============================================================================
