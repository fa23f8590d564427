------------------------------ MODULE ServiceProofs ----------------------------
(***************************************************************************)
(* Theorems about Service, for any sets of handlers, any pool and either   *)
(* way of opening the store.                                               *)
(***************************************************************************)
EXTENDS Service, FiniteSetTheorems, TLAPS

\* Whoever is past writeMu.Lock holds the mutex, and who holds it is on the way to a
\* connection or has one.
WritersOwn ==
  /\ \A p \in Proc : call[p] \in {"takeLocked", "write"} => owner = p
  /\ owner # Null => call[owner] \in {"takeLocked", "write"}

\* The connections that callers hold and that Close has collected are the pool's.
ConnectionsAreThePools ==
  /\ IsFiniteSet(Holding) /\ Cardinality(Holding) + collected <= PoolSize
  /\ collected > 0 => closing

\* The sweeper is in the store only between a tick and the next select.
SweeperCalls == Calling(Sweeper) => sweeper = "sweep"
NotYet == run \in {"start", "listen"} => sweeper = "off"
SweeperGone == run \in {"close", "closing", "exited"} => sweeper \in {"off", "done"}

\* The request contexts are done only after Run has left its select and Shutdown,
\* and no connection is left unless the deadline passed or Serve failed.
ContextsLast ==
  base => /\ run \notin {"start", "listen", "serving", "draining"}
          /\ ~connected \/ late \/ serve = "failed"

Inv ==
  /\ TypeOK /\ WritersOwn /\ ConnectionsAreThePools /\ SweeperCalls /\ NotYet /\ SweeperGone
  /\ ContextsLast /\ NobodyIsCutShort

LEMMA SweeperIsAProc == Sweeper \in Proc /\ Sweeper \notin Handler
  BY ServiceAssumption

LEMMA NullIsNoProc == Null \notin Proc
  BY PoolAssumption

LEMMA InitInv == Init => Inv
<1> SUFFICES ASSUME Init PROVE Inv
  OBVIOUS
<1>1. PoolTypeOK /\ \A p \in Proc : call[p] = "none"
  <2>1. collected \in 0..PoolSize
    BY PoolAssumption DEF Init, PoolInit
  <2> QED
    BY <2>1 DEF Init, PoolInit, PoolTypeOK, Phase
<1>2. TypeOK
  BY <1>1 DEF Init, TypeOK, RunAt
<1>3. WritersOwn
  BY <1>1 DEF Init, PoolInit, WritersOwn
<1>4. ConnectionsAreThePools
  <2>1. Holding = {} /\ collected = 0
    BY <1>1 DEF Init, PoolInit, Holding
  <2> QED
    BY <2>1, FS_EmptySet, PoolAssumption DEF ConnectionsAreThePools
<1> QED
  BY <1>1, <1>2, <1>3, <1>4, SweeperIsAProc DEF Init, Inv, SweeperCalls, NotYet, SweeperGone,
     ContextsLast, NobodyIsCutShort, Calling

(***************************************************************************)
(* Steps of Run, of the network and of clients leave the store alone.      *)
(***************************************************************************)
PoolIdle == UNCHANGED <<call, owner, collected>> /\ closing' \in BOOLEAN /\ (closing => closing')

LEMMA PoolIdleKeeps ==
  ASSUME Inv, PoolIdle
  PROVE  /\ PoolTypeOK' /\ WritersOwn' /\ ConnectionsAreThePools'
         /\ Calling(Sweeper)' = Calling(Sweeper)
<1>1. PoolTypeOK' /\ WritersOwn' /\ Calling(Sweeper)' = Calling(Sweeper)
  BY DEF Inv, TypeOK, PoolTypeOK, PoolIdle, WritersOwn, Calling
<1>2. Holding' = Holding /\ collected' = collected
  BY DEF PoolIdle, Holding
<1>3. ConnectionsAreThePools'
  BY <1>2 DEF Inv, ConnectionsAreThePools, PoolIdle
<1> QED
  BY <1>1, <1>3

LEMMA RunStepInv ==
  ASSUME Inv, RunStep
  PROVE  Inv'
<1>1. PoolIdle
  BY DEF RunStep, Start, Listen, ListenFails, ServeReturned, StopRequested, Drained,
     DeadlinePasses, Return, CloseStore, Exit, PoolIdle, poolVars, Close, Inv, TypeOK, PoolTypeOK
<1>2. PoolTypeOK' /\ WritersOwn' /\ ConnectionsAreThePools' /\ Calling(Sweeper)' = Calling(Sweeper)
  BY <1>1, PoolIdleKeeps
<1> USE DEF Inv, TypeOK, RunAt, SweeperCalls, NotYet, SweeperGone,
     ContextsLast, NobodyIsCutShort, Go
<1>3. CASE Start
  BY <1>2, <1>3 DEF Start
<1>4. CASE Listen
  BY <1>2, <1>4 DEF Listen
<1>5. CASE ListenFails
  BY <1>2, <1>5 DEF ListenFails
<1>6. CASE ServeReturned
  BY <1>2, <1>6 DEF ServeReturned
<1>7. CASE StopRequested
  BY <1>2, <1>7 DEF StopRequested
<1>8. CASE Drained
  BY <1>2, <1>8 DEF Drained
<1>9. CASE DeadlinePasses
  BY <1>2, <1>9 DEF DeadlinePasses
<1>10. CASE Return
  BY <1>2, <1>10 DEF Return
<1>11. CASE CloseStore
  BY <1>2, <1>11 DEF CloseStore
<1>12. CASE Exit
  BY <1>2, <1>12 DEF Exit
<1> QED
  BY <1>3, <1>4, <1>5, <1>6, <1>7, <1>8, <1>9, <1>10, <1>11, <1>12 DEF RunStep

Outside ==
  \/ Signal \/ ServeFails \/ SweepEnds \/ SweepStops \/ Terminated
  \/ \E h \in Handler : Accept(h) \/ HangUp(h) \/ Answer(h)

LEMMA OutsideInv ==
  ASSUME Inv, Outside
  PROVE  Inv'
<1>1. PoolIdle
  BY DEF Outside, Signal, ServeFails, SweepEnds, SweepStops, Terminated, Accept, HangUp,
     Answer, PoolIdle, poolVars, vars, Inv, TypeOK, PoolTypeOK
<1>2. PoolTypeOK' /\ WritersOwn' /\ ConnectionsAreThePools' /\ Calling(Sweeper)' = Calling(Sweeper)
  BY <1>1, PoolIdleKeeps
<1> USE DEF Inv, TypeOK, RunAt, SweeperCalls, NotYet, SweeperGone,
     ContextsLast, NobodyIsCutShort
<1>3. CASE Signal
  BY <1>2, <1>3 DEF Signal
<1>4. CASE ServeFails
  BY <1>2, <1>4 DEF ServeFails
<1>5. CASE SweepEnds
  BY <1>2, <1>5 DEF SweepEnds
<1>6. CASE SweepStops
  BY <1>2, <1>6 DEF SweepStops
<1>7. CASE Terminated
  BY <1>2, <1>7 DEF Terminated, vars
<1>8. ASSUME NEW h \in Handler, Accept(h)
      PROVE  Inv'
  BY <1>2, <1>8 DEF Accept
<1>9. ASSUME NEW h \in Handler, HangUp(h)
      PROVE  Inv'
  BY <1>2, <1>9 DEF HangUp
<1>10. ASSUME NEW h \in Handler, Answer(h)
       PROVE  Inv'
  BY <1>2, <1>10 DEF Answer
<1> QED
  BY <1>3, <1>4, <1>5, <1>6, <1>7, <1>8, <1>9, <1>10 DEF Outside

(***************************************************************************)
(* Calls of the store.                                                     *)
(***************************************************************************)
PoolStep(p) ==
  \/ Read(p) \/ Write(p) \/ Lock(p) \/ Take(p) \/ TakeFails(p, Done(p)) \/ Finish(p)

\* Taking a connection needs a free one, and giving one back frees it.
LEMMA ConnectionsAreKept ==
  ASSUME Inv, NEW p \in Proc, PoolStep(p)
  PROVE  ConnectionsAreThePools'
<1> USE DEF Inv, TypeOK, PoolTypeOK, Move
<1>1. collected' = collected /\ closing' = closing /\ \A q \in Proc \ {p} : call'[q] = call[q]
  BY DEF PoolStep, Read, Write, Lock, Take, TakeFails, Finish
<1>2. IsFiniteSet(Holding) /\ Cardinality(Holding) \in Nat /\ collected \in Nat /\ PoolSize \in Nat
      /\ Cardinality(Holding) + collected <= PoolSize /\ (collected > 0 => closing)
  BY FS_CardinalityType, PoolAssumption DEF ConnectionsAreThePools
<1>3. CASE Take(p)
  <2>1. p \notin Holding /\ Holding' = Holding \cup {p}
    BY <1>1, <1>3 DEF Take, Holding
  <2>2. IsFiniteSet(Holding') /\ Cardinality(Holding') = Cardinality(Holding) + 1
    BY <1>2, <2>1, FS_AddElement
  <2>3. Cardinality(Holding) + collected < PoolSize
    BY <1>3 DEF Take, AnyFree
  <2> QED
    BY <1>1, <1>2, <2>2, <2>3 DEF ConnectionsAreThePools
<1>4. CASE ~Take(p)
  <2>1. call'[p] \notin {"read", "write"}
    BY <1>4 DEF PoolStep, Read, Write, Lock, TakeFails, Finish
  <2>2. Holding' = Holding \ {p}
    BY <1>1, <2>1 DEF Holding
  <2>3. IsFiniteSet(Holding') /\ Cardinality(Holding') <= Cardinality(Holding)
    BY <1>2, <2>2, FS_Subset
  <2>4. Cardinality(Holding') \in Nat
    BY <2>3, FS_CardinalityType
  <2> QED
    BY <1>1, <1>2, <2>3, <2>4 DEF ConnectionsAreThePools
<1> QED
  BY <1>3, <1>4

LEMMA PoolStepKeeps ==
  ASSUME Inv, NEW p \in Proc, PoolStep(p)
  PROVE  /\ PoolTypeOK' /\ WritersOwn'
         /\ \A q \in Proc \ {p} : Calling(q)' = Calling(q)
         /\ Calling(p)' => Calling(p) \/ Read(p) \/ Write(p)
<1> USE DEF Inv, TypeOK, PoolTypeOK, WritersOwn, Calling, Move, Phase
<1>1. CASE Read(p)
  BY <1>1 DEF Read
<1>2. CASE Write(p)
  BY <1>2 DEF Write
<1>3. CASE Lock(p)
  <2>1. PoolTypeOK' /\ \A q \in Proc \ {p} : call'[q] = call[q]
    BY <1>3 DEF Lock
  <2>2. \A q \in Proc \ {p} : call[q] \notin {"takeLocked", "write"}
    BY <1>3, NullIsNoProc DEF Lock
  <2> QED
    BY <1>3, <2>1, <2>2 DEF Lock
<1>4. CASE Take(p)
  BY <1>4 DEF Take
<1>5. CASE TakeFails(p, Done(p))
  <2>1. call[p] \in {"take", "takeLocked"} /\ call' = [call EXCEPT ![p] = "none"]
        /\ Unlock(p) /\ closing' = closing /\ collected' = collected
    BY <1>5 DEF TakeFails
  <2> QED
    BY <2>1 DEF Unlock
<1>6. CASE Finish(p)
  <2>1. call[p] \in {"read", "write"} /\ call' = [call EXCEPT ![p] = "none"]
        /\ Unlock(p) /\ closing' = closing /\ collected' = collected
    BY <1>6 DEF Finish
  <2> QED
    BY <2>1 DEF Unlock
<1> QED
  BY <1>1, <1>2, <1>3, <1>4, <1>5, <1>6 DEF PoolStep

LEMMA CollectsInv ==
  ASSUME Inv, Collects
  PROVE  Inv'
<1>1. /\ UNCHANGED <<call, owner, closing, run, serve, sweeper, connected, active, gone>>
      /\ UNCHANGED <<stopped, base, late>>
      /\ collected' = collected + 1 /\ closing /\ AnyFree
  BY DEF Collects, Collect
<1>2. IsFiniteSet(Holding) /\ Cardinality(Holding) \in Nat /\ collected \in Nat /\ PoolSize \in Nat
  BY FS_CardinalityType, PoolAssumption
     DEF Inv, TypeOK, PoolTypeOK, ConnectionsAreThePools
<1>3. Holding' = Holding
  BY <1>1 DEF Holding
<1>4. ConnectionsAreThePools'
  BY <1>1, <1>2, <1>3 DEF ConnectionsAreThePools, AnyFree
<1>5. collected' \in 0..PoolSize
  BY <1>1, <1>2 DEF AnyFree
<1>6. TypeOK'
  BY <1>1, <1>5 DEF Inv, TypeOK, PoolTypeOK
<1> QED
  BY <1>1, <1>4, <1>6 DEF Inv, WritersOwn, SweeperCalls, NotYet, SweeperGone, ContextsLast,
     NobodyIsCutShort, Calling

Calls ==
  \/ \E h \in Handler : Ask(h)
  \/ Sweep
  \/ \E p \in Proc : Locks(p) \/ Takes(p) \/ GivesUp(p) \/ Finishes(p)

LEMMA CallsInv ==
  ASSUME Inv, Calls
  PROVE  Inv'
<1> USE DEF SweeperCalls, NotYet, SweeperGone, ContextsLast, NobodyIsCutShort
<1>1. ASSUME NEW h \in Handler, Ask(h)
      PROVE  Inv'
  <2>1. h \in Proc /\ h # Sweeper /\ PoolStep(h)
    BY <1>1, ServiceAssumption DEF Ask, PoolStep
  <2>2. /\ PoolTypeOK' /\ WritersOwn' /\ ConnectionsAreThePools'
        /\ Calling(Sweeper)' = Calling(Sweeper)
    BY <2>1, PoolStepKeeps, ConnectionsAreKept, SweeperIsAProc
  <2> QED
    BY <1>1, <2>2 DEF Ask, Inv, TypeOK
<1>2. CASE Sweep
  <2>1. PoolStep(Sweeper)
    BY <1>2 DEF Sweep, PoolStep
  <2>2. PoolTypeOK' /\ WritersOwn' /\ ConnectionsAreThePools'
    BY <2>1, PoolStepKeeps, ConnectionsAreKept, SweeperIsAProc
  <2> QED
    BY <1>2, <2>2 DEF Sweep, Inv, TypeOK
<1>3. ASSUME NEW p \in Proc, Locks(p) \/ Takes(p) \/ GivesUp(p) \/ Finishes(p)
      PROVE  Inv'
  <2>1. /\ PoolStep(p)
        /\ UNCHANGED <<run, serve, sweeper, connected, active, gone, stopped, base, late>>
    BY <1>3 DEF Locks, Takes, GivesUp, Finishes, PoolStep
  <2>2. PoolTypeOK' /\ WritersOwn' /\ ConnectionsAreThePools'
    BY <2>1, PoolStepKeeps, ConnectionsAreKept
  <2>3. ~Read(p) /\ ~Write(p)
    BY <1>3 DEF Locks, Takes, GivesUp, Finishes, Read, Write, Lock, Take, TakeFails,
       Finish, Move
  <2>4. Calling(Sweeper)' => Calling(Sweeper)
    BY <2>1, <2>3, PoolStepKeeps, SweeperIsAProc
  <2> QED
    BY <2>1, <2>2, <2>4 DEF Inv, TypeOK
<1> QED
  BY <1>1, <1>2, <1>3 DEF Calls

LEMMA NextInv == Inv /\ [Next]_vars => Inv'
<1>1. ASSUME Inv, Next
      PROVE  Inv'
  <2>1. RunStep \/ Outside \/ Calls \/ Collects
    BY <1>1 DEF Next, Outside, Calls
  <2> QED
    BY <1>1, <2>1, RunStepInv, OutsideInv, CallsInv, CollectsInv
<1>2. ASSUME Inv, UNCHANGED vars
      PROVE  Inv'
  <2>1. PoolIdle
    BY <1>2 DEF vars, poolVars, PoolIdle, Inv, TypeOK, PoolTypeOK
  <2>2. /\ PoolTypeOK' /\ WritersOwn' /\ ConnectionsAreThePools'
        /\ Calling(Sweeper)' = Calling(Sweeper)
    BY <1>2, <2>1, PoolIdleKeeps
  <2> QED
    BY <1>2, <2>2 DEF Inv, TypeOK, SweeperCalls, NotYet, SweeperGone,
       ContextsLast, NobodyIsCutShort, vars
<1> QED
  BY <1>1, <1>2

\* The inductive invariant holds of every reachable state of the process.
THEOREM InvHolds == Spec => []Inv
  BY InitInv, NextInv, PTL DEF Spec

\* Types, for any number of handlers and connections (store.DB, server.Run).
THEOREM TypeCorrect == Spec => []TypeOK
<1>1. Inv => TypeOK
  BY DEF Inv
<1> QED
  BY <1>1, InvHolds, PTL

\* At most one writer is at the pool, whatever Read, Write, Close and a context
\* that is done do to each other (store.go, Write).
THEOREM OneWriter == Spec => []OneWriterAtThePool
<1>1. Inv => OneWriterAtThePool
  BY DEF Inv, WritersOwn, OneWriterAtThePool
<1> QED
  BY <1>1, InvHolds, PTL

\* Calls do not wait in a circle, however many there are and however small the pool
\* is (store.go, Write): the mutex is taken before a connection, so its holder waits
\* only for connections, and who has a connection waits for nothing.
THEOREM NobodyWaitsInACircle == Spec => []SomebodyGoesOn
<1>1. ASSUME Inv, NEW p \in Proc, Waiting(p) PROVE \E q \in Proc : GoesOn(q)
  <2>1. CASE Holding # {}
    BY <2>1 DEF Holding, GoesOn
  <2>2. CASE Holding = {}
    <3>1. closing \/ AnyFree
      <4>1. Cardinality(Holding) = 0
        BY <2>2, FS_EmptySet
      <4>2. (collected = 0 \/ closing) /\ collected \in Nat
        BY <1>1, PoolAssumption DEF Inv, TypeOK, PoolTypeOK, ConnectionsAreThePools
      <4> QED
        BY <4>1, <4>2, PoolAssumption DEF AnyFree
    <3>2. CASE call[p] \in {"take", "takeLocked"} \/ owner = Null
      BY <1>1, <3>1, <3>2 DEF Waiting, GoesOn
    <3>3. CASE owner # Null
      BY <1>1, <3>1, <3>3, <2>2 DEF Inv, TypeOK, PoolTypeOK, WritersOwn, GoesOn, Holding
    <3> QED
      BY <3>2, <3>3
  <2> QED
    BY <2>1, <2>2
<1>2. Inv => SomebodyGoesOn
  BY <1>1 DEF SomebodyGoesOn
<1> QED
  BY <1>2, InvHolds, PTL

\* The sweeper is out of the store before runServe closes it (server.go, Run).
THEOREM SweeperFirst == Spec => []SweeperStopsBeforeTheStore
<1>1. Inv => SweeperStopsBeforeTheStore
  BY DEF Inv, SweeperCalls, SweeperGone, SweeperStopsBeforeTheStore
<1> QED
  BY <1>1, InvHolds, PTL

\* A graceful end cancels no request that is in flight (server.go, Run).
THEOREM NobodyCutShort == Spec => []NobodyIsCutShort
<1>1. Inv => NobodyIsCutShort
  BY DEF Inv
<1> QED
  BY <1>1, InvHolds, PTL
================================================================================
