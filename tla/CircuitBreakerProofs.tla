------------------------ MODULE CircuitBreakerProofs ------------------------
(***************************************************************************)
(* The breaker's invariants for every number of requests, every threshold, *)
(* recovery time and clock.                                                *)
(*                                                                         *)
(* SingleProbe is not inductive: that a probe's settlement is not void has *)
(* to be known, which is CurrentLeases, and for the other leases of an     *)
(* older generation to stay void after the generation moves, no lease may  *)
(* be ahead of it, which is LeasesNotAhead.                                *)
(***************************************************************************)
EXTENDS CircuitBreaker, TLAPS

(* No lease carries a generation the breaker has not reached: generations  *)
(* are handed out by AcquireClosed and AllowProbe and only ever grow.      *)
LeasesNotAhead ==
  \A r \in Requests : lease[r].held => lease[r].generation <= breaker.generation

(* A probe is always of the current generation, and a lease of the current *)
(* generation is a probe exactly when the breaker is half open; an open    *)
(* breaker has none.  Every such lease is fresh.                           *)
CurrentLeases ==
  /\ \A r \in Requests :
       ProbeHolder(r) => lease[r].generation = breaker.generation
  /\ \A r \in Requests :
       lease[r].held /\ lease[r].generation = breaker.generation
         => /\ breaker.state # Open
            /\ breaker.state = HalfOpen => lease[r].probe
            /\ r \in fresh

IInv ==
  /\ TypeOK
  /\ SingleProbe
  /\ ClosedBelowThreshold
  /\ LeasesNotAhead
  /\ CurrentLeases

(* The breaker a request starts with: closed, no lease handed out. *)
LEMMA InitIInv == Init => IInv
<1> SUFFICES ASSUME Init PROVE IInv
  OBVIOUS
<1>1. TypeOK
  BY BreakerAssumption DEF Init, TypeOK, NewBreaker, BreakerType, States,
     Closed, NoLease, LeaseType
<1>2. SingleProbe
  BY DEF Init, SingleProbe, ProbeHolder, NewBreaker, NoLease, Closed, HalfOpen
<1>3. ClosedBelowThreshold
  BY BreakerAssumption DEF Init, ClosedBelowThreshold, NewBreaker
<1>4. LeasesNotAhead /\ CurrentLeases
  BY DEF Init, LeasesNotAhead, CurrentLeases, ProbeHolder, NoLease
<1> QED
  BY <1>1, <1>2, <1>3, <1>4 DEF IInv

(* Unix() of a natural number is one. *)
LEMMA UnixType == ASSUME NEW t \in Nat PROVE Unix(t) \in Nat
  BY BreakerAssumption DEF Unix

(* Every method of the breaker returns a breaker. *)
LEMMA MethodTypes ==
  ASSUME NEW b \in BreakerType, NEW l \in LeaseType, NEW t \in Nat
  PROVE  /\ AfterProbe(b) \in BreakerType
         /\ AfterFailure(b, l, t) \in BreakerType
         /\ AfterSuccess(b, l) \in BreakerType
         /\ AfterRelease(b, l) \in BreakerType
<1>1. AfterProbe(b) \in BreakerType
  BY DEF AfterProbe, BreakerType, States
<1>2. AfterFailure(b, l, t) \in BreakerType
  BY UnixType, BreakerAssumption
  DEF AfterFailure, ProbeFailed, FailureCounted, BreakerType, States
<1>3. AfterSuccess(b, l) \in BreakerType
  BY DEF AfterSuccess, ProbeSucceeded, BreakerType, States
<1>4. AfterRelease(b, l) \in BreakerType
  BY DEF AfterRelease, BreakerType, States
<1> QED
  BY <1>1, <1>2, <1>3, <1>4

(* What a settlement may do to the breaker: its count stays in step with   *)
(* its state; a probe always ends the half open state; any other lease can *)
(* only open a closed breaker; and the state changes with the generation,  *)
(* except when a probe is given back.                                      *)
SoundSettlement(r) ==
  /\ ClosedBelowThreshold'
  /\ breaker' \in BreakerType
  /\ ProbeHolder(r) => breaker'.state \in {Closed, Open}
  /\ ~ProbeHolder(r) =>
        \/ breaker'.state = breaker.state
        \/ breaker.state = Closed /\ breaker'.state = Open
  /\ breaker'.state = breaker.state => breaker'.generation = breaker.generation
  /\ breaker'.state # breaker.state =>
        \/ breaker'.generation > breaker.generation
        \/ /\ ProbeHolder(r)
           /\ breaker'.state = Open
           /\ breaker'.generation = breaker.generation

(* Whatever a settlement of that kind does, the invariant survives it. *)
LEMMA SettlementIInv ==
  ASSUME IInv, NEW r \in Requests, lease[r].held, Settled(r),
         SoundSettlement(r), now' \in Nat, failedAt' \in Nat
  PROVE  IInv'
<1> USE DEF IInv, Settled
<1>0. /\ \A s \in Requests : s # r => lease'[s] = lease[s]
      /\ lease'[r] = NoLease
      /\ \A s \in Requests : lease[s] \in LeaseType
  BY DEF TypeOK
<1>1. ~NoLease.held
  BY DEF NoLease
<1>2. \A s \in Requests : ProbeHolder(s)' => s # r /\ ProbeHolder(s)
  BY <1>0, <1>1 DEF ProbeHolder
<1>3. \A s \in Requests : lease'[s].held => s # r /\ lease[s].held
  BY <1>0, <1>1
<1>4. TypeOK'
  BY DEF TypeOK, SoundSettlement, NoLease, LeaseType
<1>5. CASE ProbeHolder(r)
  <2>1. \A s \in Requests : ~ProbeHolder(s)'
    BY <1>2, <1>5 DEF SingleProbe
  <2>2. breaker.state = HalfOpen /\ breaker'.state # HalfOpen
    BY <1>5 DEF SingleProbe, SoundSettlement, Closed, Open, HalfOpen
  <2>3. SingleProbe'
    BY <2>1, <2>2 DEF SingleProbe
  <2>4. LeasesNotAhead'
    BY <1>0, <1>3, <2>2 DEF LeasesNotAhead, SoundSettlement, TypeOK,
       BreakerType, LeaseType
  <2>5. \A s \in Requests :
          lease'[s].held => lease'[s].generation # breaker'.generation
    <3> SUFFICES ASSUME NEW s \in Requests, lease'[s].held
                 PROVE  lease'[s].generation # breaker'.generation
      OBVIOUS
    <3>1. lease'[s] = lease[s] /\ lease[s].held /\ s # r
      BY <1>0, <1>3
    <3>2. ~lease[s].probe
      BY <1>5, <3>1 DEF SingleProbe, ProbeHolder
    <3>3. lease[s].generation # breaker.generation
      BY <2>2, <3>1, <3>2 DEF CurrentLeases
    <3>4. lease[s].generation < breaker.generation
      BY <3>1, <3>3, SMTT(60) DEF LeasesNotAhead, TypeOK, BreakerType, LeaseType
    <3> QED
      BY <2>2, <3>1, <3>4 DEF SoundSettlement, TypeOK, BreakerType, LeaseType
  <2>6. CurrentLeases'
    BY <2>1, <2>5 DEF CurrentLeases
  <2> QED
    BY <1>4, <2>3, <2>4, <2>6 DEF SoundSettlement
<1>6. CASE ~ProbeHolder(r) /\ breaker'.state = breaker.state
  <2>0. breaker'.generation = breaker.generation /\ fresh' = fresh \ {r}
    BY <1>6 DEF SoundSettlement
  <2>1. \A s \in Requests : ProbeHolder(s)' <=> ProbeHolder(s)
    BY <1>0, <1>1, <1>6 DEF ProbeHolder
  <2>2. SingleProbe'
    BY <1>6, <2>1 DEF SingleProbe
  <2>3. LeasesNotAhead'
    BY <1>0, <1>3, <2>0 DEF LeasesNotAhead
  <2>4. CurrentLeases'
    BY <1>0, <1>2, <1>3, <1>6, <2>0 DEF CurrentLeases
  <2> QED
    BY <1>4, <2>2, <2>3, <2>4 DEF SoundSettlement
<1>7. CASE ~ProbeHolder(r) /\ breaker'.state # breaker.state
  <2>0. /\ breaker.state = Closed
        /\ breaker'.state = Open
        /\ breaker'.generation > breaker.generation
    BY <1>7 DEF SoundSettlement
  <2>1. \A s \in Requests : ~ProbeHolder(s)'
    BY <1>2, <2>0 DEF SingleProbe, Closed, HalfOpen
  <2>2. SingleProbe'
    BY <2>0, <2>1 DEF SingleProbe, Open, HalfOpen
  <2>3. \A s \in Requests :
          lease'[s].held => lease'[s].generation < breaker'.generation
    BY <1>0, <1>3, <2>0 DEF LeasesNotAhead, TypeOK, BreakerType, LeaseType,
       SoundSettlement
  <2>4. LeasesNotAhead' /\ CurrentLeases'
    BY <1>0, <1>4, <2>1, <2>3 DEF LeasesNotAhead, CurrentLeases, TypeOK,
       BreakerType, LeaseType
  <2> QED
    BY <1>4, <2>2, <2>4 DEF SoundSettlement
<1> QED
  BY <1>5, <1>6, <1>7

(* A step of the breaker or of a request preserves the invariant. *)
LEMMA NextIInv == IInv /\ [Next]_vars => IInv'
<1> SUFFICES ASSUME IInv, [Next]_vars PROVE IInv'
  OBVIOUS
<1> USE DEF IInv
<1>0. ASSUME NEW r \in Requests
      PROVE  lease[r] \in LeaseType /\ lease[r].generation \in Nat
  BY DEF TypeOK, LeaseType
<1>1. CASE UNCHANGED vars
  BY <1>1 DEF vars, TypeOK, SingleProbe, ClosedBelowThreshold, LeasesNotAhead,
     CurrentLeases, ProbeHolder
<1>2. CASE Tick
  BY <1>2 DEF Tick, TypeOK, SingleProbe, ClosedBelowThreshold, LeasesNotAhead,
     CurrentLeases, ProbeHolder
<1>3. ASSUME NEW r \in Requests, AcquireClosed(r) PROVE IInv'
  <2> USE <1>3 DEF AcquireClosed, CanAcquire, ClosedLease
  <2>1. TypeOK'
    BY DEF TypeOK, LeaseType, BreakerType
  <2>2. SingleProbe'
    BY DEF TypeOK, SingleProbe, ProbeHolder, LeaseType
  <2>3. ClosedBelowThreshold'
    BY DEF ClosedBelowThreshold
  <2>4. LeasesNotAhead'
    BY DEF TypeOK, LeasesNotAhead, BreakerType
  <2>5. CurrentLeases'
    BY DEF TypeOK, CurrentLeases, ProbeHolder, Closed, Open, HalfOpen
  <2> QED
    BY <2>1, <2>2, <2>3, <2>4, <2>5
<1>4. ASSUME NEW r \in Requests, AllowProbe(r) PROVE IInv'
  <2> USE <1>4 DEF AllowProbe, CanProbe, ProbeLease, AfterProbe
  <2>0. /\ breaker'.state = HalfOpen
        /\ breaker'.failures = breaker.failures
        /\ breaker'.generation = breaker.generation
    BY DEF TypeOK, BreakerType
  <2>1. TypeOK'
    BY MethodTypes, ZenonT(60) DEF TypeOK, LeaseType, BreakerType
  <2>2. SingleProbe'
    BY <2>0 DEF TypeOK, SingleProbe, ProbeHolder, Open, HalfOpen
  <2>3. ClosedBelowThreshold'
    BY <2>0 DEF ClosedBelowThreshold, Closed, Open, HalfOpen
  <2>4. LeasesNotAhead'
    BY <2>0 DEF TypeOK, LeasesNotAhead, BreakerType
  <2>5. CurrentLeases'
    BY <2>0 DEF TypeOK, CurrentLeases, ProbeHolder, Open, HalfOpen
  <2> QED
    BY <2>1, <2>2, <2>3, <2>4, <2>5
<1>5. ASSUME NEW r \in Requests, Refuse(r) PROVE IInv'
  BY <1>1, <1>5 DEF Refuse
<1>6. ASSUME NEW r \in Requests, RecordFailure(r) PROVE IInv'
  <2> USE DEF RecordFailure
  <2>1. breaker' \in BreakerType
    BY <1>0, <1>6, MethodTypes, SMTT(60) DEF TypeOK
  <2>2. CASE breaker' = breaker
    <3>1. ~ProbeHolder(r)
      BY <1>6, <2>2 DEF AfterFailure, Void, ProbeFailed, ProbeHolder,
         SingleProbe, CurrentLeases, TypeOK, BreakerType
    <3> QED
      BY <1>6, <2>1, <2>2, <3>1, SettlementIInv
      DEF SoundSettlement, ClosedBelowThreshold, TypeOK
  <2>3. CASE breaker' # breaker /\ lease[r].probe
    <3>1. breaker' = ProbeFailed(breaker, now) /\ breaker.state = HalfOpen
      BY <1>6, <2>3 DEF AfterFailure
    <3>2. SoundSettlement(r)
      BY <1>6, <2>1, <2>3, <3>1, BreakerAssumption
      DEF SoundSettlement, ProbeFailed, ProbeHolder, ClosedBelowThreshold,
          TypeOK, BreakerType, Closed, Open, HalfOpen
    <3> QED
      BY <1>6, <3>2, SettlementIInv DEF TypeOK
  <2>4. CASE breaker' # breaker /\ ~lease[r].probe
    <3>1. breaker' = FailureCounted(breaker, now) /\ breaker.state = Closed
      BY <1>6, <2>4 DEF AfterFailure
    <3>2. SoundSettlement(r)
      BY <1>6, <2>1, <2>4, <3>1, BreakerAssumption
      DEF SoundSettlement, FailureCounted, ProbeHolder, ClosedBelowThreshold,
          TypeOK, BreakerType, Closed, Open
    <3> QED
      BY <1>6, <3>2, SettlementIInv DEF TypeOK
  <2> QED
    BY <2>2, <2>3, <2>4
<1>7. ASSUME NEW r \in Requests, RecordSuccess(r) PROVE IInv'
  <2> USE DEF RecordSuccess
  <2>1. breaker' \in BreakerType
    BY <1>0, <1>7, MethodTypes, ZenonT(60) DEF TypeOK
  <2>2. CASE ~lease[r].probe
    <3>1. /\ breaker'.state = breaker.state
          /\ breaker'.generation = breaker.generation
          /\ \/ breaker'.failures = breaker.failures
             \/ breaker'.failures = 0 /\ breaker.state = Closed
      BY <1>7, <2>2 DEF AfterSuccess, TypeOK, BreakerType
    <3>2. SoundSettlement(r)
      BY <2>1, <2>2, <3>1, BreakerAssumption
      DEF SoundSettlement, ProbeHolder, ClosedBelowThreshold
    <3> QED
      BY <1>7, <3>2, SettlementIInv DEF TypeOK
  <2>3. CASE lease[r].probe
    <3>1. breaker' = ProbeSucceeded(breaker) /\ breaker.state = HalfOpen
      BY <1>7, <2>3 DEF AfterSuccess, Void, ProbeHolder, SingleProbe,
         CurrentLeases
    <3>2. SoundSettlement(r)
      BY <1>7, <2>1, <2>3, <3>1, BreakerAssumption
      DEF SoundSettlement, ProbeSucceeded, ProbeHolder, ClosedBelowThreshold,
          TypeOK, BreakerType, Closed, HalfOpen
    <3> QED
      BY <1>7, <3>2, SettlementIInv DEF TypeOK
  <2> QED
    BY <2>2, <2>3
<1>8. ASSUME NEW r \in Requests, ReleaseProbe(r) PROVE IInv'
  <2> USE DEF ReleaseProbe
  <2>1. breaker' \in BreakerType
    BY <1>0, <1>8, MethodTypes, ZenonT(60) DEF TypeOK
  <2>2. CASE ~lease[r].probe
    <3>1. breaker' = breaker
      BY <1>8, <2>2 DEF AfterRelease
    <3>2. SoundSettlement(r)
      BY <2>1, <2>2, <3>1 DEF SoundSettlement, ProbeHolder, ClosedBelowThreshold
    <3> QED
      BY <1>8, <3>2, SettlementIInv DEF TypeOK
  <2>3. CASE lease[r].probe
    <3>1. breaker' = [breaker EXCEPT !.state = Open] /\ breaker.state = HalfOpen
      BY <1>8, <2>3 DEF AfterRelease, Void, ProbeHolder, SingleProbe,
         CurrentLeases
    <3>2. SoundSettlement(r)
      BY <1>8, <2>1, <2>3, <3>1
      DEF SoundSettlement, ProbeHolder, ClosedBelowThreshold, TypeOK,
          BreakerType, Closed, Open, HalfOpen
    <3> QED
      BY <1>8, <3>2, SettlementIInv DEF TypeOK
  <2> QED
    BY <2>2, <2>3
<1> QED
  BY <1>1, <1>2, <1>3, <1>4, <1>5, <1>6, <1>7, <1>8 DEF Next, Settle

(* The invariant holds in every reachable state. *)
THEOREM Invariance == Spec => []IInv
<1> QED
  BY InitIInv, NextIInv, PTL DEF Spec

(* The breaker, its leases and the clocks keep their types, for any number *)
(* of requests (the fields of circuitBreaker and circuitLease).            *)
THEOREM TypeCorrect == Spec => []TypeOK
<1>1. IInv => TypeOK
  BY DEF IInv
<1> QED
  BY <1>1, Invariance, PTL

(* At most one probe at a time, and no half open breaker without one, for  *)
(* any number of concurrent requests (AllowProbe and the settlements).     *)
THEOREM SingleProbeHolds == Spec => []SingleProbe
<1>1. IInv => SingleProbe
  BY DEF IInv
<1> QED
  BY <1>1, Invariance, PTL

(* The breaker is closed exactly while its failure count is below the      *)
(* threshold, for every threshold (RecordFailure, RecordSuccess).          *)
THEOREM ClosedBelowThresholdHolds == Spec => []ClosedBelowThreshold
<1>1. IInv => ClosedBelowThreshold
  BY DEF IInv
<1> QED
  BY <1>1, Invariance, PTL

(* A lease taken before the breaker last opened or closed changes nothing  *)
(* when it is settled: Void compares generations, and CurrentLeases makes  *)
(* a lease of the current generation a fresh one.                          *)
THEOREM FreshEvidenceOnlyHolds == Spec => FreshEvidenceOnly
<1> DEFINE Fresh == \A r \in Requests :
             lease[r].held /\ ~lease'[r].held /\ breaker' # breaker => r \in fresh
<1>1. IInv /\ [Next]_vars => [Fresh]_vars
  <2> SUFFICES ASSUME IInv, Next, NEW r \in Requests, lease[r].held,
                      ~lease'[r].held, breaker' # breaker
               PROVE  r \in fresh
    BY DEF vars
  <2>1. lease \in [Requests -> LeaseType]
    BY DEF IInv, TypeOK
  <2>2. PICK s \in Requests : AcquireClosed(s) \/ AllowProbe(s) \/ Settle(s)
    BY DEF Next, Tick, Refuse, vars
  <2>3. CASE AcquireClosed(s) \/ AllowProbe(s)
    BY <2>1, <2>3 DEF AcquireClosed, AllowProbe, ClosedLease, ProbeLease
  <2>4. CASE Settle(s)
    <3>1. s = r
      BY <2>1, <2>4 DEF Settle, RecordFailure, RecordSuccess, ReleaseProbe,
         Settled
    <3>2. ~Void(breaker, lease[r])
      BY <2>4, <3>1 DEF Settle, RecordFailure, RecordSuccess, ReleaseProbe,
         AfterFailure, AfterSuccess, AfterRelease
    <3> QED
      BY <3>2 DEF Void, IInv, CurrentLeases
  <2> QED
    BY <2>2, <2>3, <2>4
<1> QED
  BY <1>1, Invariance, PTL DEF Spec, FreshEvidenceOnly

(* The time the breaker stores is that of its last counted failure, to the *)
(* second: only RecordFailure writes it, whenever it counts.               *)
FailureTime == breaker.lastFailure = Unix(failedAt)

(* It does so at every moment. *)
LEMMA FailureTimeInvariant == Spec => []FailureTime
<1>1. Init => FailureTime
  BY BreakerAssumption DEF Init, NewBreaker, FailureTime, Unix
<1>2. IInv /\ FailureTime /\ [Next]_vars => FailureTime'
  <2> SUFFICES ASSUME IInv, FailureTime, [Next]_vars PROVE FailureTime'
    OBVIOUS
  <2> USE DEF FailureTime
  <2>1. breaker \in BreakerType /\ lease \in [Requests -> LeaseType]
    BY DEF IInv, TypeOK
  <2>2. CASE UNCHANGED vars \/ Tick
    BY <2>2 DEF vars, Tick
  <2>3. ASSUME NEW r \in Requests,
               AcquireClosed(r) \/ AllowProbe(r) \/ Refuse(r)
        PROVE  FailureTime'
    BY <2>1, <2>3 DEF AcquireClosed, AllowProbe, Refuse, AfterProbe, vars,
       BreakerType
  <2>4. ASSUME NEW r \in Requests, RecordFailure(r) PROVE FailureTime'
    BY <2>1, <2>4 DEF RecordFailure, AfterFailure, ProbeFailed, FailureCounted,
       BreakerType
  <2>5. ASSUME NEW r \in Requests, RecordSuccess(r) PROVE FailureTime'
    BY <2>1, <2>5 DEF RecordSuccess, AfterSuccess, ProbeSucceeded, BreakerType
  <2>6. ASSUME NEW r \in Requests, ReleaseProbe(r) PROVE FailureTime'
    BY <2>1, <2>6 DEF ReleaseProbe, AfterRelease, BreakerType
  <2> QED
    BY <2>2, <2>3, <2>4, <2>5, <2>6 DEF Next, Settle
<1> QED
  BY <1>1, <1>2, Invariance, PTL DEF Spec

(* Unix() loses less than a second. *)
LEMMA UnixLoss ==
  ASSUME NEW t \in Nat PROVE t < Unix(t) * Second + Second
  BY BreakerAssumption DEF Unix

(* An open breaker yields only to a probe, and to none before the recovery *)
(* time less one second has passed since the last counted failure, for     *)
(* every recovery time and clock resolution (AllowProbe).                  *)
THEOREM OpenUntilRecoveredHolds == Spec => OpenUntilRecovered
<1> DEFINE Waits == breaker.state = Open /\ breaker'.state # Open
                      => /\ breaker'.state = HalfOpen
                         /\ now + Second > failedAt + Recovery
<1>1. IInv /\ FailureTime /\ [Next]_vars => [Waits]_vars
  <2> SUFFICES ASSUME IInv, FailureTime, Next,
                      breaker.state = Open, breaker'.state # Open
               PROVE  /\ breaker'.state = HalfOpen
                      /\ now + Second > failedAt + Recovery
    BY DEF vars
  <2>1. breaker \in BreakerType /\ lease \in [Requests -> LeaseType]
        /\ now \in Nat /\ failedAt \in Nat
    BY DEF IInv, TypeOK
  <2>2. PICK r \in Requests : AllowProbe(r) \/ Settle(r)
    BY DEF Next, Tick, Refuse, AcquireClosed, vars
  <2>3. CASE Settle(r)
    BY <2>1, <2>3 DEF Settle, RecordFailure, RecordSuccess, ReleaseProbe,
       AfterFailure, AfterSuccess, AfterRelease, Closed, Open, HalfOpen
  <2>4. CASE AllowProbe(r)
    <3>1. breaker'.state = HalfOpen
      BY <2>1, <2>4 DEF AllowProbe, AfterProbe, BreakerType
    <3>2. now > Unix(failedAt) * Second + Recovery
      BY <2>4 DEF AllowProbe, CanProbe, Recovered, FailureTime
    <3>3. failedAt < Unix(failedAt) * Second + Second
      BY <2>1, UnixLoss
    <3>4. Unix(failedAt) * Second \in Nat
      BY <2>1, UnixType, BreakerAssumption
    <3> QED
      BY <2>1, <3>1, <3>2, <3>3, <3>4, BreakerAssumption
  <2> QED
    BY <2>2, <2>3, <2>4
<1> QED
  BY <1>1, Invariance, FailureTimeInvariant, PTL DEF Spec, OpenUntilRecovered
=============================================================================
