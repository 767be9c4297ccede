--------------------------- MODULE GenerationFence ---------------------------
(***************************************************************************)
(* What the account fence promises to everybody who reads a watermark:     *)
(* generations are handed out upwards, a generation that is settled stays  *)
(* settled, and the applied watermark is never behind and never ahead: it  *)
(* is the last generation before the first unsettled one, after every      *)
(* transaction and in whatever order the generations were settled.         *)
(***************************************************************************)
EXTENDS Integers

VARIABLES target,    \* the last generation reserved
          applied,   \* the watermark
          settled    \* the generations whose work is applied with a resolution

vars == <<target, applied, settled>>

\* The last generation before the first unsettled one.
Contiguous(n, t, S) == /\ n \in 0..t
                       /\ 1..n \subseteq S
                       /\ n < t => n + 1 \notin S

TypeOK == /\ target \in Nat
          /\ applied \in 0..target
          /\ settled \subseteq 1..target

Init == target = 0 /\ applied = 0 /\ settled = {}

(***************************************************************************)
(* One transaction: it reserves some generations, settles some, or both.   *)
(* Only settling moves the watermark, and every settling brings it up to   *)
(* date.                                                                   *)
(***************************************************************************)
Transact == /\ target' \in Nat /\ target <= target'
            /\ settled \subseteq settled'
            /\ settled' \subseteq 1..target'
            /\ Contiguous(applied', target', settled')

Spec == Init /\ [][Transact]_vars
=============================================================================
