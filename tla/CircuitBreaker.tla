--------------------------- MODULE CircuitBreaker ---------------------------
(***************************************************************************)
(* One provider's circuit breaker and the requests that use it: a request  *)
(* takes a lease (AcquireClosed or AllowProbe), talks to the provider, and *)
(* settles the lease exactly once (settleProviderLease).  Between the two  *)
(* any number of other requests come and go, so a lease may be settled     *)
(* against a breaker that has opened, recovered and closed since.          *)
(*                                                                         *)
(* Router.tla composes one of these per channel and is shown to implement  *)
(* it.                                                                     *)
(***************************************************************************)
EXTENDS Breaker

CONSTANTS
  Requests,      \* the goroutines that serve requests
  MaxTime        \* bound of the clock

ASSUME MaxTimeAssumption == MaxTime \in Nat

VARIABLES
  breaker,       \* the circuitBreaker record
  lease,         \* lease[r]: the lease request r holds
  now,           \* the clock, in ticks
  failedAt,      \* history: the tick of the last failure the breaker counted
  fresh          \* history: requests whose lease dates from the current state

vars == <<breaker, lease, now, failedAt, fresh>>

(* The state of the breaker, its leases and the clocks have their types. *)
TypeOK ==
  /\ breaker \in BreakerType
  /\ lease \in [Requests -> LeaseType]
  /\ now \in Nat
  /\ failedAt \in Nat
  /\ fresh \subseteq Requests

Init ==
  /\ breaker = NewBreaker
  /\ lease = [r \in Requests |-> NoLease]
  /\ now = 0
  /\ failedAt = 0
  /\ fresh = {}

Tick ==
  /\ now < MaxTime
  /\ now' = now + 1
  /\ UNCHANGED <<breaker, lease, failedAt, fresh>>

AcquireClosed(r) ==
  /\ ~lease[r].held
  /\ CanAcquire(breaker)
  /\ lease' = [lease EXCEPT ![r] = ClosedLease(breaker)]
  /\ fresh' = fresh \cup {r}
  /\ UNCHANGED <<breaker, now, failedAt>>

AllowProbe_NoWait(r) ==
  /\ ~lease[r].held
  /\ breaker.state = Open
  /\ breaker' = AfterProbe(breaker)
  /\ lease' = [lease EXCEPT ![r] = ProbeLease(breaker)]
  /\ fresh' = {r}
  /\ UNCHANGED <<now, failedAt>>

AllowProbe(r) ==
  /\ ~lease[r].held
  /\ CanProbe(breaker, now)
  /\ breaker' = AfterProbe(breaker)
  /\ lease' = [lease EXCEPT ![r] = ProbeLease(breaker)]
  /\ fresh' = {r}
  /\ UNCHANGED <<now, failedAt>>

(* The lease is gone, and with a change of state so is the freshness of    *)
(* every lease taken before it.                                            *)
Settled(r) ==
  /\ lease' = [lease EXCEPT ![r] = NoLease]
  /\ fresh' = IF breaker'.state = breaker.state THEN fresh \ {r} ELSE {}

RecordFailure(r) ==
  /\ lease[r].held
  /\ breaker' = AfterFailure(breaker, lease[r], now)
  /\ Settled(r)
  /\ failedAt' = IF breaker' # breaker THEN now ELSE failedAt
  /\ UNCHANGED now

RecordSuccess(r) ==
  /\ lease[r].held
  /\ breaker' = AfterSuccess(breaker, lease[r])
  /\ Settled(r)
  /\ UNCHANGED <<now, failedAt>>

(* Neither method hands out a lease: Route passes the channel over. *)
Refuse(r) ==
  /\ ~lease[r].held
  /\ ~CanAcquire(breaker)
  /\ ~CanProbe(breaker, now)
  /\ UNCHANGED vars

(* The last branch of settleProviderLease: nothing was observed of the     *)
(* provider, so a probe is given back and any other lease is forgotten.    *)
ReleaseProbe(r) ==
  /\ lease[r].held
  /\ breaker' = AfterRelease(breaker, lease[r])
  /\ Settled(r)
  /\ UNCHANGED <<now, failedAt>>

Settle(r) == RecordFailure(r) \/ RecordSuccess(r) \/ ReleaseProbe(r)

Next ==
  \/ Tick
  \/ \E r \in Requests : AcquireClosed(r) \/ AllowProbe(r) \/ Refuse(r) \/ Settle(r)

Spec == Init /\ [][Next]_vars
----------------------------------------------------------------------------

ProbeHolder(r) == lease[r].held /\ lease[r].probe

(* A breaker is half open exactly while one request holds its probe: no    *)
(* two requests probe a provider that has not recovered, and no breaker is *)
(* left half open with nobody to settle it (AllowProbe, RecordFailure,     *)
(* RecordSuccess, ReleaseProbe).                                           *)
SingleProbe ==
  /\ breaker.state = HalfOpen => \E r \in Requests : ProbeHolder(r)
  /\ \A r \in Requests : ProbeHolder(r) => breaker.state = HalfOpen
  /\ \A r, s \in Requests : ProbeHolder(r) /\ ProbeHolder(s) => r = s

(* The breaker lets ordinary traffic through exactly while its failure     *)
(* count is below the threshold, whatever leases of whatever generation    *)
(* were settled in between: closing resets the count, and a late failure   *)
(* neither inflates a closed breaker's count nor reopens it.               *)
ClosedBelowThreshold == breaker.state = Closed <=> breaker.failures < Threshold

(* An open breaker stays open until a probe is let through, and the probe  *)
(* comes no earlier than the recovery time after the last counted failure, *)
(* less the part of a second that Unix() drops.                            *)
OpenUntilRecovered ==
  [][ breaker.state = Open /\ breaker'.state # Open
        => /\ breaker'.state = HalfOpen
           /\ now + Second > failedAt + Recovery ]_vars

(* Only evidence about the provider as it is now counts: a lease that was  *)
(* taken before the breaker last opened or closed changes nothing when it  *)
(* is settled, however late its answer comes (the generation of a lease).  *)
FreshEvidenceOnly ==
  [][ \A r \in Requests :
        lease[r].held /\ ~lease'[r].held /\ breaker' # breaker
          => r \in fresh ]_vars
=============================================================================
