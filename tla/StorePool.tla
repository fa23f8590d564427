------------------------------- MODULE StorePool -------------------------------
(***************************************************************************)
(* The connections of a store.DB and the mutex of its writers: how Read,   *)
(* Write and Close wait for one another.  What a call does to the rows is  *)
(* the business of the other modules; here a call is where its goroutine   *)
(* waits.                                                                  *)
(***************************************************************************)
EXTENDS Naturals, FiniteSets

CONSTANTS
  Proc,         \* goroutines that call the store
  PoolSize,     \* connections in the pool; poolSize makes it 4 to 16
  ReadOnly,     \* whether the store was opened read-only
  Null

ASSUME PoolAssumption ==
  PoolSize \in Nat \ {0} /\ ReadOnly \in BOOLEAN /\ Null \notin Proc

VARIABLES
  call,         \* per goroutine, what it waits for or does in the store
  owner,        \* holder of writeMu
  closing,      \* Close has been called
  collected     \* connections that Close has taken back

poolVars == <<call, owner, closing, collected>>

Phase == {"none",
  "take",       \* a Read waiting for a connection
  "read",       \* a Read holding one
  "lock",       \* a Write waiting for writeMu
  "takeLocked", \* a Write holding writeMu and waiting for a connection
  "write"}      \* a Write holding both: begin, fn, commit or roll back

Holding == {p \in Proc : call[p] \in {"read", "write"}}
AnyFree == Cardinality(Holding) + collected < PoolSize
Waiting(p) == call[p] \in {"take", "lock", "takeLocked"}
Calling(p) == call[p] # "none"

PoolTypeOK ==
  /\ call \in [Proc -> Phase]
  /\ owner \in Proc \cup {Null}
  /\ closing \in BOOLEAN /\ collected \in 0..PoolSize

PoolInit ==
  /\ call = [p \in Proc |-> "none"]
  /\ owner = Null
  /\ closing = FALSE /\ collected = 0

Move(p, here, there) == call[p] = here /\ call' = [call EXCEPT ![p] = there]

Read(p) == Move(p, "none", "take") /\ UNCHANGED <<owner, closing, collected>>

\* ErrReadOnly is returned before anything is taken.
Write(p) == ~ReadOnly /\ Move(p, "none", "lock") /\ UNCHANGED <<owner, closing, collected>>

\* writeMu.Lock does not look at the context.
LockShared(p) ==                                                \* mutant
  /\ Move(p, "lock", "takeLocked")
  /\ owner' = p /\ UNCHANGED <<closing, collected>>
Lock(p) ==
  /\ Move(p, "lock", "takeLocked")
  /\ owner = Null /\ owner' = p
  /\ UNCHANGED <<closing, collected>>

\* Also of a pool that is being closed, as long as it has a free connection.
Take(p) ==
  /\ AnyFree
  /\ Move(p, "take", "read") \/ Move(p, "takeLocked", "write")
  /\ UNCHANGED <<owner, closing, collected>>

KeepLock(p) == UNCHANGED owner                                  \* mutant
Unlock(p) == owner' = IF owner = p THEN Null ELSE owner

\* Take gives up when its context is done or the pool is closed; the deferred
\* Unlock runs.
TakeFails(p, done) ==
  /\ done \/ closing
  /\ Move(p, "take", "none") \/ Move(p, "takeLocked", "none")
  /\ Unlock(p) /\ UNCHANGED <<closing, collected>>

\* fn returns, or BEGIN IMMEDIATE gives up after busy_timeout behind a writer of
\* another process; the deferred commit or rollback, Put and Unlock follow.
Finish(p) ==
  /\ Move(p, "read", "none") \/ Move(p, "write", "none")
  /\ Unlock(p) /\ UNCHANGED <<closing, collected>>

\* Close shuts the pool and then takes the connections back one by one.
Close == closing' = TRUE /\ UNCHANGED <<call, owner, collected>>
Collect ==
  /\ closing /\ AnyFree
  /\ collected' = collected + 1
  /\ UNCHANGED <<call, owner, closing>>
================================================================================
