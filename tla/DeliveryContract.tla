--------------------------- MODULE DeliveryContract ---------------------------
(***************************************************************************)
(* What telegram_deliveries promises for one account, without claims,      *)
(* leases, intents, permits or time: a delivery is enqueued once, its      *)
(* message reaches Telegram at least once before it is called sent, it is  *)
(* settled once and for all, nothing is sent after that, and a new binding *)
(* acknowledgement takes the place of a pending one.                       *)
(***************************************************************************)
EXTENDS Naturals

CONSTANTS Business, Acks

VARIABLES status, accepted

vars == <<status, accepted>>
Deliveries == Business \cup Acks

Init ==
    /\ status = [d \in Deliveries |-> "absent"]
    /\ accepted = [d \in Deliveries |-> 0]

Enqueue(d) ==
    /\ d \in Business /\ status[d] = "absent"
    /\ status' = [status EXCEPT ![d] = "pending"]
    /\ UNCHANGED accepted

\* A bind enqueues its acknowledgement and supersedes the pending ones.
Acknowledge(ack) ==
    /\ status[ack] = "absent"
    /\ status' = [d \in Deliveries |->
                    IF d = ack THEN "pending"
                    ELSE IF d \in Acks /\ status[d] = "pending" THEN "superseded"
                    ELSE status[d]]
    /\ UNCHANGED accepted

Accept(d) ==
    /\ status[d] = "pending"
    /\ accepted' = [accepted EXCEPT ![d] = @ + 1]
    /\ UNCHANGED status

Settle(d, outcome) ==
    /\ status[d] = "pending"
    /\ outcome = "sent" => accepted[d] > 0
    /\ status' = [status EXCEPT ![d] = outcome]
    /\ UNCHANGED accepted

Next ==
    \/ \E d \in Business : Enqueue(d)
    \/ \E ack \in Acks : Acknowledge(ack)
    \/ \E d \in Deliveries : Accept(d)
    \/ \E d \in Deliveries, outcome \in {"sent", "failed"} : Settle(d, outcome)

Spec == Init /\ [][Next]_vars
=============================================================================
