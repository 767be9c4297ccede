------------------------- MODULE IdempotencyLedger -------------------------
(***************************************************************************)
(* The idempotency ledger: one row of idempotency_records, which is one    *)
(* (account, operation, key), and the requests that carry that key.        *)
(*                                                                         *)
(* Every keyed command of the program runs in the transaction that claims  *)
(* the row: the business writes, the row and the stored answer commit or   *)
(* roll back together.  What the database adds is blocking: an INSERT ..   *)
(* ON CONFLICT DO NOTHING waits for an uncommitted row of the same key,    *)
(* and a SELECT .. FOR UPDATE that waited for a row deleted meanwhile      *)
(* finds nothing, because its snapshot is older than the new row.          *)
(*                                                                         *)
(* Times are small integers; the clock stops at MaxClock.                  *)
(***************************************************************************)
EXTENDS Naturals, Sequences, FiniteSets

CONSTANTS Requests,   \* HTTP requests that carry the key
          Frames,     \* canonical request frames: operation, resource, body
          TTL,        \* lifetime of a stored answer
          MaxClock    \* bound on the clock

ASSUME LedgerAssumption == TTL \in Nat \ {0} /\ MaxClock \in Nat

VARIABLES ledgerRow,    \* the committed row, or NoRow
          ledgerOwner,  \* the request whose open transaction holds the row, or NoOwner
          ledgerReq,    \* what each request has come to
          ledgerRuns,   \* the committed callbacks, in order: who, which frame, its clock reading
          ledgerClock

ledgerVars == <<ledgerRow, ledgerOwner, ledgerReq, ledgerRuns, ledgerClock>>

NoRow == [frame |-> "none", answer |-> 0, expires |-> 0]
NoOwner == "nobody"

ASSUME OwnerAssumption == NoOwner \notin Requests

\* A row names its answer by the index of the run that produced it.
Rows == [frame: Frames, answer: Nat \ {0}, expires: Nat]

ReqStates == {"idle", "claiming", "loading", "running", "answered", "conflict", "failed"}

Fresh == [pc |-> "idle", frame |-> "none", now |-> 0, met |-> 0, answer |-> 0]

LedgerTypeOK ==
  /\ ledgerRow \in Rows \cup {NoRow}
  /\ ledgerOwner \in Requests \cup {NoOwner}
  /\ ledgerReq \in [Requests -> [pc: ReqStates, frame: Frames \cup {"none"},
                                 now: Nat, met: Nat, answer: Nat]]
  /\ ledgerRuns \in Seq([req: Requests, frame: Frames, now: Nat])
  /\ ledgerClock \in 0..MaxClock

LedgerInit ==
  /\ ledgerRow = NoRow
  /\ ledgerOwner = NoOwner
  /\ ledgerReq = [r \in Requests |-> Fresh]
  /\ ledgerRuns = << >>
  /\ ledgerClock = 0

(***************************************************************************)
(* executeInTransaction                                                    *)
(***************************************************************************)

\* The frame is hashed, the transaction opened and the clock read, once.
LedgerArrive(r, f) ==
  /\ ledgerReq[r].pc = "idle"
  /\ ledgerReq' = [ledgerReq EXCEPT ![r] = [Fresh EXCEPT !.pc = "claiming", !.frame = f,
                                                         !.now = ledgerClock]]
  /\ UNCHANGED <<ledgerRow, ledgerOwner, ledgerRuns, ledgerClock>>

\* An insert that does not wait for the uncommitted row of another request.
LedgerClaimAtOnce(r) ==
  /\ ledgerReq[r].pc = "claiming"
  /\ IF ledgerRow = NoRow
       THEN /\ ledgerOwner' = r
            /\ ledgerReq' = [ledgerReq EXCEPT ![r].pc = "running"]
       ELSE /\ ledgerReq' = [ledgerReq EXCEPT ![r].pc = "loading", ![r].met = ledgerRow.answer]
            /\ UNCHANGED ledgerOwner
  /\ UNCHANGED <<ledgerRow, ledgerRuns, ledgerClock>>

\* The insert waits while another transaction has the key uncommitted.
LedgerClaim(r) ==
  /\ ledgerReq[r].pc = "claiming"
  /\ ledgerOwner = NoOwner
  /\ IF ledgerRow = NoRow
       THEN /\ ledgerOwner' = r
            /\ ledgerReq' = [ledgerReq EXCEPT ![r].pc = "running"]
       ELSE /\ ledgerReq' = [ledgerReq EXCEPT ![r].pc = "loading", ![r].met = ledgerRow.answer]
            /\ UNCHANGED ledgerOwner
  /\ UNCHANGED <<ledgerRow, ledgerRuns, ledgerClock>>

Expired(row, now) == row.expires <= now

\* The locking read found the row: replay, refuse, or replace an expired one.
LedgerLoad(r) ==
  /\ ledgerReq[r].pc = "loading"
  /\ ledgerOwner = NoOwner
  /\ IF Expired(ledgerRow, ledgerReq[r].now)
       THEN /\ ledgerOwner' = r
            /\ ledgerReq' = [ledgerReq EXCEPT ![r].pc = "running"]
       ELSE /\ UNCHANGED ledgerOwner
            /\ ledgerReq' = IF ledgerRow.frame # ledgerReq[r].frame
                              THEN [ledgerReq EXCEPT ![r].pc = "conflict"]
                              ELSE [ledgerReq EXCEPT ![r].pc = "answered",
                                                     ![r].answer = ledgerRow.answer]
  /\ UNCHANGED <<ledgerRow, ledgerRuns, ledgerClock>>

\* The locking read waited for a row that was replaced meanwhile: claim again.
LedgerLoadMissed(r) ==
  /\ ledgerReq[r].pc = "loading"
  /\ ledgerOwner = NoOwner
  /\ ledgerRow.answer # ledgerReq[r].met
  /\ ledgerReq' = [ledgerReq EXCEPT ![r].pc = "claiming"]
  /\ UNCHANGED <<ledgerRow, ledgerOwner, ledgerRuns, ledgerClock>>

\* The callback succeeded and the transaction commits with the answer stored.
\* told says whether the answer still reaches the client.
LedgerCommit(r, told) ==
  /\ ledgerReq[r].pc = "running"
  /\ LET run == [req |-> r, frame |-> ledgerReq[r].frame, now |-> ledgerReq[r].now]
         n   == Len(ledgerRuns) + 1
     IN /\ ledgerRuns' = Append(ledgerRuns, run)
        /\ ledgerRow' = [frame |-> run.frame, answer |-> n, expires |-> run.now + TTL]
        /\ ledgerReq' = [ledgerReq EXCEPT ![r].pc = IF told THEN "answered" ELSE "failed",
                                          ![r].answer = n]
  /\ ledgerOwner' = NoOwner
  /\ UNCHANGED ledgerClock

\* The callback failed, or the server died: the transaction leaves nothing behind.
LedgerRollback(r) ==
  /\ ledgerReq[r].pc = "running"
  /\ ledgerOwner' = NoOwner
  /\ ledgerReq' = [ledgerReq EXCEPT ![r].pc = "failed"]
  /\ UNCHANGED <<ledgerRow, ledgerRuns, ledgerClock>>

\* A client that got no answer sends the same request again.
LedgerRetry(r) ==
  /\ ledgerReq[r].pc = "failed"
  /\ ledgerReq' = [ledgerReq EXCEPT ![r] = [Fresh EXCEPT !.pc = "claiming", !.frame = ledgerReq[r].frame,
                                                         !.now = ledgerClock]]
  /\ UNCHANGED <<ledgerRow, ledgerOwner, ledgerRuns, ledgerClock>>

LedgerTick ==
  /\ ledgerClock < MaxClock
  /\ ledgerClock' = ledgerClock + 1
  /\ UNCHANGED <<ledgerRow, ledgerOwner, ledgerReq, ledgerRuns>>

LedgerStep(r) ==
  \/ \E f \in Frames : LedgerArrive(r, f)
  \/ LedgerClaim(r)
  \/ LedgerLoad(r)
  \/ LedgerLoadMissed(r)
  \/ \E told \in BOOLEAN : LedgerCommit(r, told)
  \/ LedgerRollback(r)
  \/ LedgerRetry(r)

LedgerNext == LedgerTick \/ \E r \in Requests : LedgerStep(r)

LedgerSpec == LedgerInit /\ [][LedgerNext]_ledgerVars

(***************************************************************************)
(* Properties                                                              *)
(***************************************************************************)

\* A command runs once per lifetime of its key: two committed callbacks took
\* their clock readings at least a lifetime apart, however long either of them
\* waited for the row, failed, retried or lost its answer.
LedgerRunsOncePerLifetime ==
  \A i, j \in 1..Len(ledgerRuns) : i < j => ledgerRuns[i].now + TTL <= ledgerRuns[j].now

\* Whoever is answered is answered by a committed run of its own frame: never by
\* a rolled back one, and never with the answer to another request's body.
LedgerAnswersAreCommitted ==
  \A r \in Requests :
    ledgerReq[r].pc = "answered" =>
      /\ ledgerReq[r].answer \in 1..Len(ledgerRuns)
      /\ ledgerRuns[ledgerReq[r].answer].frame = ledgerReq[r].frame
============================================================================
