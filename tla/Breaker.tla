------------------------------ MODULE Breaker ------------------------------
(***************************************************************************)
(* The circuit breaker of one provider channel as data: the record         *)
(* circuitBreaker of internal/middleware/router.go, and each of its five   *)
(* methods as the value the record has once the method returns.  Every     *)
(* method holds cb.mu from its first line to its last, so each is one step *)
(* of whatever state machine uses it (CircuitBreaker, Router).             *)
(*                                                                         *)
(* Time is counted in ticks.  Second is the number of ticks of one second: *)
(* the breaker stores time.Now().Unix(), whole seconds, and compares them  *)
(* with a clock that is finer.                                             *)
(***************************************************************************)
EXTENDS Integers

CONSTANTS
  Threshold,     \* consecutive failures that open the breaker
  Recovery,      \* ticks an open breaker waits before it lets a probe through
  Second         \* ticks of one second

ASSUME BreakerAssumption ==
  /\ Threshold \in Nat \ {0}
  /\ Recovery \in Nat
  /\ Second \in Nat \ {0}

(* stateClosed, stateOpen, stateHalfOpen *)
Closed == "closed"
Open == "open"
HalfOpen == "half_open"

States == {Closed, Open, HalfOpen}

BreakerType ==
  [state : States, failures : Nat, lastFailure : Nat, generation : Nat]

(* What a request holds between Route and settleProviderLease.  The code   *)
(* has no held field: it is a local variable of the router's loop, and     *)
(* held says that the loop is between its assignment and its settlement.   *)
LeaseType == [held : BOOLEAN, generation : Nat, probe : BOOLEAN]

NoLease == [held |-> FALSE, generation |-> 0, probe |-> FALSE]

NewBreaker ==
  [state |-> Closed, failures |-> 0, lastFailure |-> 0, generation |-> 0]

(* time.Now().Unix(): the part of a second is lost. *)
Unix(now) == now \div Second

(* time.Since(time.Unix(lastFailure, 0)) > recoveryTime *)
Recovered(b, now) == now > b.lastFailure * Second + Recovery

----------------------------------------------------------------------------

(* AcquireClosed: the guard, and the lease it hands out. *)
CanAcquire(b) == b.state = Closed

ClosedLease(b) ==
  [held |-> TRUE, generation |-> b.generation, probe |-> FALSE]

(* AllowProbe: the guard, the lease, and the breaker it leaves. *)
CanProbe(b, now) == b.state = Open /\ Recovered(b, now)

ProbeLease(b) ==
  [held |-> TRUE, generation |-> b.generation, probe |-> TRUE]

AfterProbe(b) == [b EXCEPT !.state = HalfOpen]

----------------------------------------------------------------------------

(* A lease of an earlier generation is void. *)
Void_NoGeneration(b, l) == FALSE

Void(b, l) == b.generation # l.generation

(* RecordFailure *)
ProbeFailed(b, now) ==
  [state |-> Open, failures |-> b.failures + 1,
   lastFailure |-> Unix(now), generation |-> b.generation + 1]

FailureCounted(b, now) ==
  LET opens == b.failures + 1 >= Threshold
  IN  [state |-> IF opens THEN Open ELSE Closed,
       failures |-> b.failures + 1,
       lastFailure |-> Unix(now),
       generation |-> IF opens THEN b.generation + 1 ELSE b.generation]

AfterFailure(b, l, now) ==
  IF Void(b, l) THEN b
  ELSE IF l.probe
       THEN IF b.state = HalfOpen THEN ProbeFailed(b, now) ELSE b
       ELSE IF b.state = Closed THEN FailureCounted(b, now) ELSE b

(* RecordSuccess *)
ProbeSucceeded(b) ==
  [state |-> Closed, failures |-> 0,
   lastFailure |-> b.lastFailure, generation |-> b.generation + 1]

AfterSuccess(b, l) ==
  IF Void(b, l) THEN b
  ELSE IF l.probe
       THEN IF b.state = HalfOpen THEN ProbeSucceeded(b) ELSE b
       ELSE IF b.state = Closed THEN [b EXCEPT !.failures = 0] ELSE b

(* ReleaseProbe: neither the generation nor lastFailure moves. *)
AfterRelease_Noop(b, l) == b

AfterRelease(b, l) ==
  IF l.probe /\ ~Void(b, l) /\ b.state = HalfOpen
  THEN [b EXCEPT !.state = Open]
  ELSE b
=============================================================================
