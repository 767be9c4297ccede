--------------------------- MODULE AvatarRegister ---------------------------
(***************************************************************************)
(* What a client of an avatar sees: one picture, or none, with a revision. *)
(* A change that is answered with success was made at exactly the revision *)
(* the client had seen; a client is told of a conflict only if somebody    *)
(* else was faster; an answer may be lost after the change was made.       *)
(***************************************************************************)
EXTENDS Naturals

CONSTANTS Requests, Contents, None

VARIABLES shown,   \* the picture, None without one
          rev,     \* avatar_revision
          asked,   \* what each request wants, and the revision it has seen
          answer   \* what it was told

vars == <<shown, rev, asked, answer>>

Wishes == [want : Contents \cup {None}, expected : 0..rev]
Told(r, what) == answer' = [answer EXCEPT ![r] = what]

Init == /\ shown = None /\ rev = 0
        /\ asked = [r \in Requests |-> [want |-> None, expected |-> 0]]
        /\ answer = [r \in Requests |-> "none"]

\* A request may be refused at sight.
Ask(r) == /\ answer[r] = "none"
          /\ Told(r, "open") \/ Told(r, "refused")
          /\ \E w \in Wishes : asked' = [asked EXCEPT ![r] = w]
          /\ UNCHANGED <<shown, rev>>

\* The answer to a change that was made may be lost.
Change(r) == /\ answer[r] = "open" /\ asked[r].expected = rev
             /\ shown' = asked[r].want /\ rev' = rev + 1
             /\ Told(r, "ok") \/ Told(r, "failed")
             /\ UNCHANGED asked

\* Nothing needs to be done, whatever revision the client has seen.
Keep(r) == /\ answer[r] = "open" /\ asked[r].want = shown
           /\ Told(r, "ok")
           /\ UNCHANGED <<shown, rev, asked>>

Conflict(r) == /\ answer[r] = "open" /\ asked[r].expected # rev
               /\ Told(r, "conflict")
               /\ UNCHANGED <<shown, rev, asked>>

Decline(r) == /\ answer[r] = "open"
              /\ Told(r, "refused") \/ Told(r, "failed")
              /\ UNCHANGED <<shown, rev, asked>>

Next == \E r \in Requests : Ask(r) \/ Change(r) \/ Keep(r) \/ Conflict(r) \/ Decline(r)

Spec == Init /\ [][Next]_vars
=============================================================================
