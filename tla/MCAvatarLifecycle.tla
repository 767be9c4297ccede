-------------------------- MODULE MCAvatarLifecycle --------------------------
(* Instances of AvatarLifecycle for TLC. *)
EXTENDS AvatarLifecycle, TLC

\* Requests, loops and pictures are interchangeable.  Used for safety only.
Symmetry == Permutations(Requests) \cup Permutations(Runners) \cup Permutations(Contents)

=============================================================================
