------------------------------- MODULE ServerLife -------------------------------
(***************************************************************************)
(* The life of the server process (backend/cmd/server/main.go): it starts  *)
(* the background runners and the HTTP server, waits for a signal or for   *)
(* the listener to fail, has ten seconds to come to an end, and closes the *)
(* pool of connections last.  Closing the pool takes as long as anyone     *)
(* holds a connection.                                                     *)
(***************************************************************************)
EXTENDS Naturals, FiniteSets

CONSTANTS
  Loops,  \* background runners
  Visits  \* HTTP requests

VARIABLES
  life,  \* where main is, the signal, the listener, the ten seconds, what shutdown and run returned
  work   \* what each runner and request is doing, and whether it holds a connection

lifeVars == <<life, work>>

Hands == Loops \cup Visits
Idle  == [does |-> "nothing", holds |-> FALSE]

LifeInit ==
  /\ life = [main |-> "starting", signal |-> FALSE, listener |-> "closed", late |-> FALSE,
             failure |-> FALSE, result |-> "none"]
  /\ work = [h \in Hands |-> Idle]

MainAt(from) == life.main = from /\ UNCHANGED work
Busy(some)   == {h \in some : work[h].does = "works"}
Ended        == life.main = "exited"
Starting     == {"starting", "configured", "connected"}
Running      == {"serving", "shutdown", "drain", "close"}
Cancelled    == life.main \in Running \ {"serving"}

-----------------------------------------------------------------------------
(* main, run and wait *)
\* Each stage of the start may fail, and what fails after the pool is there closes it again.
LoadConfig == MainAt("starting") /\ life' = [life EXCEPT !.main = "configured"]
OpenPool   == MainAt("configured") /\ life' = [life EXCEPT !.main = "connected"]
StartUp    == MainAt("connected") /\ life' = [life EXCEPT !.main = "serving", !.listener = "open"]

StartUpFails ==
  /\ life.main \in Starting
  /\ life' = [life EXCEPT !.main = IF @ = "connected" THEN "unwind" ELSE "exited", !.result = "error"]
  /\ UNCHANGED work

\* Later signals change nothing: main gives them up only when it returns.
Signal == ~life.signal /\ life' = [life EXCEPT !.signal = TRUE] /\ UNCHANGED work

ListenerFails == life.listener = "open" /\ life' = [life EXCEPT !.listener = "failed"] /\ UNCHANGED work

\* The select of wait; when both are ready it takes either.
SeeSignal ==
  /\ MainAt("serving") /\ life.signal
  /\ life' = [life EXCEPT !.main = "shutdown", !.listener = "closed"]

SeeFailure ==
  /\ MainAt("serving") /\ life.listener = "failed"
  /\ life' = [life EXCEPT !.main = "drain", !.failure = TRUE]

GraceEnds ==
  /\ life.main \in {"shutdown", "drain"} /\ ~life.late
  /\ life' = [life EXCEPT !.late = TRUE]
  /\ UNCHANGED work

\* Shutdown waits for the requests, and does not interrupt them.
ShutdownReturns ==
  /\ MainAt("shutdown")
  /\ \/ Busy(Visits) = {} /\ life' = [life EXCEPT !.main = "drain"]
     \/ life.late /\ life' = [life EXCEPT !.main = "drain", !.failure = TRUE]

RunReturns(result) == life' = [life EXCEPT !.main = "close", !.result = result]

\* waitForRunner: with both ready, again, either is taken.
RunnersReturned ==
  /\ MainAt("drain") /\ \A l \in Loops : work[l].does = "gone"
  /\ RunReturns(IF life.failure THEN "error" ELSE "ok")
RunnersLate == MainAt("drain") /\ life.late /\ RunReturns("error")

\* Variant: a wait for the runners without an end.
waitForever == RunnersReturned

waitForRunner == RunnersReturned \/ RunnersLate

\* The deferred Close of the pool.
ClosePool ==
  /\ life.main \in {"close", "unwind"} /\ \A h \in Hands : ~work[h].holds
  /\ life' = [life EXCEPT !.main = "exited"] /\ UNCHANGED work

Main == \/ LoadConfig \/ OpenPool \/ StartUp \/ StartUpFails \/ SeeSignal \/ SeeFailure \/ ShutdownReturns
        \/ waitForRunner \/ ClosePool

-----------------------------------------------------------------------------
(* Runners and requests *)
Does(h, what) == work' = [work EXCEPT ![h].does = what] /\ UNCHANGED life

\* The first pass at once, others on a tick, even on one that comes with the cancellation.
BeginPass(l) == life.main \in Running /\ work[l].does = "nothing" /\ Does(l, "works")
EndPass(l)   == ~Ended /\ work[l].does = "works" /\ ~work[l].holds /\ Does(l, "nothing")
Depart(l)    == Cancelled /\ work[l].does = "nothing" /\ Does(l, "gone")

Arrive(v)  == life.listener = "open" /\ ~Ended /\ work[v].does = "nothing" /\ Does(v, "works")
Respond(v) == ~Ended /\ work[v].does = "works" /\ ~work[v].holds /\ Does(v, "nothing")

\* A pool that closes gives nothing out any more, nor does it to a runner that is cancelled.
Acquire(h) ==
  /\ work[h].does = "works" /\ ~work[h].holds
  /\ life.main \notin {"close", "exited"} /\ (h \in Loops => ~Cancelled)
  /\ work' = [work EXCEPT ![h].holds = TRUE]
  /\ UNCHANGED life

\* Every statement comes to its end.
ReleaseConnection(h) ==
  /\ work[h].holds
  /\ work' = [work EXCEPT ![h].holds = FALSE]
  /\ UNCHANGED life

LifeNext ==
  \/ Main \/ Signal \/ ListenerFails \/ GraceEnds
  \/ \E l \in Loops : BeginPass(l) \/ EndPass(l) \/ Depart(l)
  \/ \E v \in Visits : Arrive(v) \/ Respond(v)
  \/ \E h \in Hands : Acquire(h) \/ ReleaseConnection(h)

\* The process goes on and time passes, and so do statements.  A pass or a request need not end.
LifeFairness ==
  /\ WF_lifeVars(Main) /\ WF_lifeVars(GraceEnds)
  /\ \A h \in Hands : WF_lifeVars(ReleaseConnection(h))

LifeSpec == LifeInit /\ [][LifeNext]_lifeVars /\ LifeFairness

LifeTypeOK ==
  /\ life \in [main : Starting \cup Running \cup {"unwind", "exited"},
               signal : BOOLEAN, listener : {"closed", "open", "failed"}, late : BOOLEAN,
               failure : BOOLEAN, result : {"none", "ok", "error"}]
  /\ work \in [Hands -> [does : {"nothing", "works", "gone"}, holds : BOOLEAN]]

-----------------------------------------------------------------------------
\* A signal ends the process, whatever the runners and the requests under way do, as long as what
\* they have asked of the database comes to an end (wait, waitForRunner, Close).
StopsWhenAsked == life.signal ~> Ended

\* An exit without an error leaves nothing unfinished, and none cuts a transaction off.
ExitsInOrder ==
  Ended => /\ \A h \in Hands : ~work[h].holds
           /\ life.result = "ok" => Busy(Hands) = {}
===============================================================================
