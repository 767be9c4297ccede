---------------------------- MODULE RecipientGate ----------------------------
(***************************************************************************)
(* The gate of one account inside one process                              *)
(* (backend/internal/reminder/digest/gate.go): attempts to send and binds  *)
(* to a chat exclude each other, and a waiting bind goes before any send.  *)
(* A caller that finds the gate taken parks on the channel `changed` it    *)
(* read under the same lock; signalLocked closes that channel and so wakes *)
(* everyone parked on it.                                                  *)
(***************************************************************************)
EXTENDS Naturals, FiniteSets

CONSTANTS
    Senders,     \* callers of WithSend
    Rebinders    \* callers of WithRebind

ASSUME CallersAssumption == Senders \cap Rebinders = {} /\ IsFiniteSet(Rebinders)

Callers == Senders \cup Rebinders

VARIABLES
    active,         \* recipientGateState.active
    rebindWaiters,  \* recipientGateState.rebindWaiters
    pc              \* where each caller of `with` is

gateVars == <<active, rebindWaiters, pc>>

\* "arrived": about to check for the first time; "parked": in the select on a
\* channel still open; "woken": that channel is closed; "inside": running fn.
Places == {"out", "arrived", "parked", "woken", "inside"}

\* recipientGate counts waiting binds only, and every caller has one place.
GateTypeOK ==
    /\ active \in BOOLEAN
    /\ rebindWaiters \in Nat
    /\ pc \in [Callers -> Places]

GateInit ==
    /\ active = FALSE
    /\ rebindWaiters = 0
    /\ pc = [p \in Callers |-> "out"]

Waiting(p) == pc[p] \in {"arrived", "parked", "woken"}

\* The places of all callers once p has gone to `place` and, with signalLocked,
\* everybody parked has been woken.
MovedOnly(p, place) == [pc EXCEPT ![p] = place]
Signalled(p, place) ==
    [q \in Callers |-> IF q = p THEN place
                       ELSE IF pc[q] = "parked" THEN "woken" ELSE pc[q]]

ArriveSender(p) ==
    /\ p \in Senders /\ pc[p] = "out"
    /\ pc' = [pc EXCEPT ![p] = "arrived"]
    /\ UNCHANGED <<active, rebindWaiters>>

\* A bind registers before its first check, which keeps new senders out.
ArriveRebinder(p) ==
    /\ p \in Rebinders /\ pc[p] = "out"
    /\ rebindWaiters' = rebindWaiters + 1
    /\ pc' = Signalled(p, "arrived")
    /\ UNCHANGED active

Open(p) == ~active /\ (p \in Rebinders \/ rebindWaiters = 0)

\* The check under g.mu succeeds.
Enter(p) ==
    /\ pc[p] \in {"arrived", "woken"}
    /\ Open(p)
    /\ active' = TRUE
    /\ rebindWaiters' = IF p \in Rebinders THEN rebindWaiters - 1 ELSE rebindWaiters
    /\ pc' = [pc EXCEPT ![p] = "inside"]

\* It fails, and the channel to wait on is read before g.mu is released.
Park(p) ==
    /\ pc[p] \in {"arrived", "woken"}
    /\ ~Open(p)
    /\ pc' = [pc EXCEPT ![p] = "parked"]
    /\ UNCHANGED <<active, rebindWaiters>>

\* ctx.Done is chosen by the select; a bind takes its registration back and
\* wakes the senders that were parked because of it.
AfterCancelSilently(p) == MovedOnly(p, "out")
AfterCancel(p) == IF p \in Rebinders THEN Signalled(p, "out") ELSE MovedOnly(p, "out")
Cancel(p) ==
    /\ pc[p] \in {"parked", "woken"}
    /\ rebindWaiters' = IF p \in Rebinders THEN rebindWaiters - 1 ELSE rebindWaiters
    /\ pc' = AfterCancel(p)
    /\ UNCHANGED active

\* The deferred release, also when fn panics.
AfterLeaveSilently(p) == MovedOnly(p, "out")
AfterLeave(p) == Signalled(p, "out")
Leave(p) ==
    /\ pc[p] = "inside"
    /\ active' = FALSE
    /\ pc' = AfterLeave(p)
    /\ UNCHANGED rebindWaiters

GateNext == \E p \in Callers :
    \/ ArriveSender(p) \/ ArriveRebinder(p)
    \/ Enter(p) \/ Park(p) \/ Cancel(p) \/ Leave(p)

GateSpec == GateInit /\ [][GateNext]_gateVars

\* A caller that is not asleep reaches g.mu, and fn ends with its timeout.
\* Nobody need arrive, and nobody's context need end.
GateFairSpec == GateSpec /\ \A p \in Callers : WF_gateVars(Enter(p) \/ Park(p)) /\ WF_gateVars(Leave(p))

-----------------------------------------------------------------------------

\* At most one callback of an account runs, and `active` says whether.
MutualExclusion ==
    /\ \A p, q \in Callers : pc[p] = "inside" /\ pc[q] = "inside" => p = q
    /\ active <=> \E p \in Callers : pc[p] = "inside"

\* rebindWaiters counts exactly the binds that wait: one too many would keep
\* the senders out for good, one too few would let them overtake.
WaitersCounted == rebindWaiters = Cardinality({p \in Rebinders : Waiting(p)})

\* No wake-up is lost: who is parked on an open channel could not enter.
NoLostWakeup == \A p \in Callers : pc[p] = "parked" => ~Open(p)

\* No sender enters while a bind is waiting.
RebindersFirst ==
    [][\A p \in Senders : pc[p] # "inside" /\ pc'[p] = "inside"
            => \A q \in Rebinders : ~Waiting(q)]_gateVars

\* Binds get their turn however busy the senders are: while one waits, one
\* gets in, or all have given up.
RebinderServed ==
    (\E p \in Rebinders : Waiting(p)) ~>
        (\E p \in Rebinders : pc[p] = "inside") \/ (\A p \in Rebinders : ~Waiting(p))

=============================================================================
