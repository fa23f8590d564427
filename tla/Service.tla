-------------------------------- MODULE Service --------------------------------
(***************************************************************************)
(* The life of the ecapi process from runServe on: the server's Run, the   *)
(* goroutine that serves, the sweeper, the handlers in flight, and the     *)
(* store they share, until the store is closed and the process exits.      *)
(***************************************************************************)
EXTENDS StorePool

CONSTANTS
  Handler,      \* goroutines for requests
  Sweeper       \* the goroutine of sweepExpiredSessions

ASSUME ServiceAssumption == Sweeper \notin Handler /\ Proc = Handler \cup {Sweeper}

VARIABLES
  run,          \* where runServe and Run are
  serve,        \* the goroutine in http.Server.Serve
  sweeper,      \* where the sweeper is
  connected,    \* a connection may bring a request
  active,       \* handlers in flight
  gone,         \* handlers whose client has hung up
  stopped,      \* ctx is done: SIGINT or SIGTERM
  base,         \* baseCtx, from which request contexts descend, is done
  late          \* Shutdown's deadline passed

vars == <<poolVars, run, serve, sweeper, connected, active, gone, stopped, base, late>>

RunAt == {"start", "listen", "serving", "draining", "sweepWait", "close",
          "closing", "exited"}

TypeOK ==
  /\ PoolTypeOK
  /\ run \in RunAt
  /\ serve \in {"off", "on", "closed", "failed"}
  /\ sweeper \in {"off", "select", "sweep", "done"}
  /\ connected \in BOOLEAN
  /\ active \subseteq Handler /\ gone \subseteq active
  /\ stopped \in BOOLEAN /\ base \in BOOLEAN /\ late \in BOOLEAN

Init ==
  /\ PoolInit
  /\ run = "start" /\ serve = "off" /\ sweeper = "off"
  /\ connected = FALSE /\ active = {} /\ gone = {}
  /\ stopped = FALSE /\ base = FALSE /\ late = FALSE

Running == run # "exited"               \* the process and its goroutines
Go(here, there) == run = here /\ run' = there
Done(p) == IF p = Sweeper THEN stopped ELSE base \/ p \in gone

(***************************************************************************)
(* runServe and Run.                                                       *)
(***************************************************************************)
\* MigrationVersion and New, either of which may fail.
Start ==
  /\ Go("start", "listen") \/ Go("start", "close")
  /\ UNCHANGED <<poolVars, serve, sweeper, connected, active, gone, stopped, base, late>>

ListenFails ==
  /\ Go("listen", "close")
  /\ UNCHANGED <<poolVars, serve, sweeper, connected, active, gone, stopped, base, late>>

\* The sweeper of a read-only store returns at once.
Listen ==
  /\ Go("listen", "serving")
  /\ serve' = "on" /\ connected' = TRUE
  /\ sweeper' = IF ReadOnly THEN "done" ELSE "select"
  /\ UNCHANGED <<poolVars, active, gone, stopped, base, late>>

\* The select of Run, case serveErr: Serve returned on its own.
ServeReturned ==
  /\ Go("serving", "sweepWait") /\ serve = "failed"
  /\ base' = TRUE
  /\ UNCHANGED <<poolVars, serve, sweeper, connected, active, gone, stopped, late>>

\* Case ctx.Done: Shutdown closes the listener, and Serve returns.
StopRequested ==
  /\ Go("serving", "draining") /\ stopped
  /\ serve' = IF serve = "on" THEN "closed" ELSE serve
  /\ UNCHANGED <<poolVars, sweeper, connected, active, gone, stopped, base, late>>

\* Shutdown returns when every connection is closed, which one with a request in
\* flight or on the way is not, or at its deadline, with connections left.
DrainedAnyway ==                                                \* mutant
  /\ Go("draining", "sweepWait")
  /\ base' = TRUE /\ connected' = FALSE
  /\ UNCHANGED <<poolVars, serve, sweeper, active, gone, stopped, late>>
Drained ==
  /\ Go("draining", "sweepWait") /\ active = {}
  /\ base' = TRUE /\ connected' = FALSE
  /\ UNCHANGED <<poolVars, serve, sweeper, active, gone, stopped, late>>

DeadlinePasses ==
  /\ Go("draining", "sweepWait") /\ active # {}
  /\ base' = TRUE /\ late' = TRUE
  /\ UNCHANGED <<poolVars, serve, sweeper, connected, active, gone, stopped>>

\* <-s.sweepDone; what serveErr holds by then decides what Run returns.
ReturnUnswept ==                                                \* mutant
  /\ Go("sweepWait", "close")
  /\ UNCHANGED <<poolVars, serve, sweeper, connected, active, gone, stopped, base, late>>
Return ==
  /\ Go("sweepWait", "close") /\ sweeper = "done"
  /\ UNCHANGED <<poolVars, serve, sweeper, connected, active, gone, stopped, base, late>>

\* The deferred db.Close: it waits until it has collected every connection.
CloseStore ==
  /\ Go("close", "closing") /\ Close
  /\ UNCHANGED <<serve, sweeper, connected, active, gone, stopped, base, late>>

Exit ==
  /\ Go("closing", "exited") /\ collected = PoolSize
  /\ UNCHANGED <<poolVars, serve, sweeper, connected, active, gone, stopped, base, late>>

(***************************************************************************)
(* Signals, the network and clients.                                       *)
(***************************************************************************)
Signal ==
  /\ Running /\ ~stopped /\ stopped' = TRUE
  /\ UNCHANGED <<poolVars, run, serve, sweeper, connected, active, gone, base, late>>

ServeFails ==
  /\ Running /\ serve = "on" /\ serve' = "failed"
  /\ UNCHANGED <<poolVars, run, sweeper, connected, active, gone, stopped, base, late>>

HangUp(h) ==
  /\ Running /\ h \in active \ gone /\ gone' = gone \cup {h}
  /\ UNCHANGED <<poolVars, run, serve, sweeper, connected, active, stopped, base, late>>

(***************************************************************************)
(* Handlers.                                                               *)
(***************************************************************************)
\* A connection that was accepted may bring a request although the listener is
\* closed or has failed.
Accept(h) ==
  /\ Running /\ connected /\ h \notin active
  /\ active' = active \cup {h}
  /\ UNCHANGED <<poolVars, run, serve, sweeper, connected, gone, stopped, base, late>>

Ask(h) ==
  /\ Running /\ h \in active /\ (Read(h) \/ Write(h))
  /\ UNCHANGED <<run, serve, sweeper, connected, active, gone, stopped, base, late>>

Answer(h) ==
  /\ Running /\ h \in active /\ ~Calling(h)
  /\ active' = active \ {h} /\ gone' = gone \ {h}
  /\ UNCHANGED <<poolVars, run, serve, sweeper, connected, stopped, base, late>>

(***************************************************************************)
(* The sweeper.                                                            *)
(***************************************************************************)
Sweep ==
  /\ Running /\ sweeper = "select" /\ sweeper' = "sweep"
  /\ Write(Sweeper)
  /\ UNCHANGED <<run, serve, connected, active, gone, stopped, base, late>>

SweepEnds ==
  /\ Running /\ sweeper = "sweep" /\ ~Calling(Sweeper) /\ sweeper' = "select"
  /\ UNCHANGED <<poolVars, run, serve, connected, active, gone, stopped, base, late>>

SweepOutlivesRun ==                                             \* mutant
  /\ Running /\ sweeper = "select" /\ closing /\ sweeper' = "done"
  /\ UNCHANGED <<poolVars, run, serve, connected, active, gone, stopped, base, late>>
SweepStops ==
  /\ Running /\ sweeper = "select" /\ stopped /\ sweeper' = "done"
  /\ UNCHANGED <<poolVars, run, serve, connected, active, gone, stopped, base, late>>

(***************************************************************************)
(* The store's side of a call.                                             *)
(***************************************************************************)
Locks(p) ==
  /\ Running /\ Lock(p)
  /\ UNCHANGED <<run, serve, sweeper, connected, active, gone, stopped, base, late>>
Takes(p) ==
  /\ Running /\ Take(p)
  /\ UNCHANGED <<run, serve, sweeper, connected, active, gone, stopped, base, late>>
GivesUp(p) ==
  /\ Running /\ TakeFails(p, Done(p))
  /\ UNCHANGED <<run, serve, sweeper, connected, active, gone, stopped, base, late>>
Finishes(p) ==
  /\ Running /\ Finish(p)
  /\ UNCHANGED <<run, serve, sweeper, connected, active, gone, stopped, base, late>>
Collects ==
  /\ Running /\ Collect
  /\ UNCHANGED <<run, serve, sweeper, connected, active, gone, stopped, base, late>>

RunStep ==
  \/ Start \/ Listen \/ ListenFails \/ ServeReturned \/ StopRequested
  \/ Drained \/ DeadlinePasses \/ Return \/ CloseStore \/ Exit

Terminated == run = "exited" /\ UNCHANGED vars

Next ==
  \/ RunStep \/ Signal \/ ServeFails
  \/ \E h \in Handler : Accept(h) \/ HangUp(h) \/ Ask(h) \/ Answer(h)
  \/ Sweep \/ SweepEnds \/ SweepStops
  \/ \E p \in Proc : Locks(p) \/ Takes(p) \/ GivesUp(p) \/ Finishes(p)
  \/ Collects
  \/ Terminated

(***************************************************************************)
(* Goroutines that can run do.  sync.Mutex and channels serve waiters in   *)
(* turn, so who waits for the lock or a connection, Close included, gets   *)
(* it if it is free again and again; and select picks among ready cases at *)
(* random, so the sweeper sees ctx.Done in the end.  Nothing makes a       *)
(* signal arrive, a client ask or hang up, or a handler answer.            *)
(***************************************************************************)
Fairness ==
  /\ WF_vars(RunStep)
  /\ WF_vars(SweepEnds) /\ SF_vars(SweepStops) /\ SF_vars(Collects)
  /\ \A p \in Proc : /\ SF_vars(Locks(p)) /\ SF_vars(Takes(p))
                     /\ WF_vars(GivesUp(p)) /\ WF_vars(Finishes(p))

Spec == Init /\ [][Next]_vars /\ Fairness

(***************************************************************************)
(* Properties.                                                             *)
(***************************************************************************)
\* Writers hold at most one connection between them, and wait for at most one:
\* however many wait, they cannot keep the readers out (store.go, writeMu).
OneWriterAtThePool ==
  \A p, q \in Proc :
    call[p] \in {"takeLocked", "write"} /\ call[q] \in {"takeLocked", "write"} => p = q

\* From the moment Run returns the sweeper makes no call, so that the store is
\* not closed under it.
SweeperStopsBeforeTheStore ==
  run \in {"close", "closing", "exited"} =>
    sweeper \in {"off", "done"} /\ ~Calling(Sweeper)

\* The contexts of requests in flight are done only after they have answered,
\* after the deadline, or when the listener failed (server.go, "In-flight
\* handlers have now finished (or the deadline passed), so it is safe to cancel
\* the base context"); a graceful end cuts nobody short.
NobodyIsCutShort == base => active = {} \/ late \/ serve = "failed"

\* Nobody waits in a circle (store.go, writeMu: a writer takes the mutex before a
\* connection, never the other way round): while a call waits, some call has a
\* connection that it will give back, or has what it waits for in front of it.
GoesOn(p) ==
  \/ call[p] \in {"read", "write"}
  \/ call[p] = "lock" /\ owner = Null
  \/ call[p] \in {"take", "takeLocked"} /\ (closing \/ AnyFree)
SomebodyGoesOn == (\E p \in Proc : Waiting(p)) => \E p \in Proc : GoesOn(p)

\* Every call of the store returns, whoever waits for whom.
CallsReturn == \A p \in Proc : Calling(p) ~> (~Calling(p) \/ ~Running)

\* A signal ends the process, whatever the handlers do: Run returns and the
\* store is closed (server.go, "Run serves until ctx is cancelled").
SignalEndsTheProcess == stopped ~> ~Running

\* server.go, BaseContext: "cancelling ctx unblocks handlers that are waiting on
\* the database instead of letting them run out the shutdown clock".
StopUnblocksHandlers ==
  stopped => \A h \in active : Waiting(h) => Done(h)
================================================================================
