-------------------------- MODULE AdmissionProofs --------------------------
(***************************************************************************)
(* For every number of keys and goroutines and all limits, prices and      *)
(* budgets: slots are counted exactly, and a key overspends its budget by  *)
(* less than the price of one request for each of its slots.               *)
(***************************************************************************)
EXTENDS Admission, FiniteSetTheorems, TLAPS

SlotType ==
  /\ conc \in [Keys -> Nat]
  /\ req \in [Requests -> ReqType]
  /\ \A r \in Requests : req[r].pc = "new" <=> req[r].key = NoKey

(* The inductive invariant of the slots. *)
SlotInv == SlotType /\ SlotsExact

(* A request that the budget can no longer stop: past the check, or about  *)
(* to check a record that is not the stored one.                           *)
Bound(q) == q.pc \in {"work", "cost"} \/ (q.pc = "read" /\ q.fresh)

Committed(k) == {r \in Requests : req[r].key = k /\ Bound(req[r])}

(* The bound of one key, as a formula of what it depends on. *)
Within(k, spent, committed) ==
  EffectiveBudget(k) > 0 =>
    spent + MaxCost[k] * Cardinality(committed)
      < EffectiveBudget(k) + MaxCost[k] * Limit(k, "conc")

UsageType == usage \in [Keys -> [known : BOOLEAN, cost : Nat, requests : Nat]]

(* The inductive invariant of the budget: what is spent and what the       *)
(* committed requests may still spend, together.                           *)
BudgetInv ==
  /\ UsageType
  /\ \A k \in Keys : ~usage[k].known => usage[k].cost = 0
  /\ \A r \in Requests : req[r].pc = "cost" => req[r].cost <= MaxCost[req[r].key]
  /\ \A k \in Keys : Within(k, usage[k].cost, Committed(k))

(* A set of requests is finite, and grows and shrinks by one. *)
LEMMA Counting ==
  ASSUME NEW S \in SUBSET Requests
  PROVE  /\ IsFiniteSet(S) /\ Cardinality(S) \in Nat
         /\ \A r \in Requests \ S :
              Cardinality(S \cup {r}) = Cardinality(S) + 1
         /\ \A r \in S : Cardinality(S \ {r}) = Cardinality(S) - 1
         /\ \A T \in SUBSET S : Cardinality(T) <= Cardinality(S)
<1>1. IsFiniteSet(S)
  BY FS_Subset, AdmissionAssumption DEF AdmissionAssumption
<1>2. Cardinality(S) \in Nat
  BY <1>1, FS_CardinalityType
<1>3. \A r \in Requests \ S : Cardinality(S \cup {r}) = Cardinality(S) + 1
  BY <1>1, FS_AddElement
<1>4. \A r \in S : Cardinality(S \ {r}) = Cardinality(S) - 1
  BY <1>1, FS_RemoveElement
<1>5. \A T \in SUBSET S : Cardinality(T) <= Cardinality(S)
  BY <1>1, FS_Subset
<1> QED BY <1>1, <1>2, <1>3, <1>4, <1>5

(* The limits are natural numbers. *)
LEMMA LimitType_ ==
  ASSUME NEW k \in Keys, NEW d \in {"rpm", "tpm", "conc"}
  PROVE  Limit(k, d) \in Nat
BY AdmissionAssumption DEF AdmissionAssumption, LimitType, Limit, EffectivePolicyLimit

(* The budgets are natural numbers. *)
LEMMA BudgetType ==
  ASSUME NEW k \in Keys PROVE EffectiveBudget(k) \in Nat
BY AdmissionAssumption DEF AdmissionAssumption, EffectiveBudget

(* A step that changes one request and no tracker keeps the slots exact    *)
(* when the request keeps its key as long as it holds a slot.              *)
LEMMA KeepsSlots ==
  ASSUME SlotInv, NEW r \in Requests, NEW q \in ReqType, Become(r, q),
         q.pc = "new" <=> q.key = NoKey,
         UNCHANGED conc,
         \/ req[r].pc \in Holding /\ q.pc \in Holding /\ q.key = req[r].key
         \/ req[r].pc \notin Holding /\ q.pc \notin Holding
  PROVE  SlotInv'
<1>1. SlotType'
  BY DEF SlotInv, SlotType, Become
<1>2. \A k \in Keys : Of(k, Holding)' = Of(k, Holding)
  BY DEF SlotInv, SlotType, Become, Of
<1>3. SlotsExact'
  BY <1>2 DEF SlotInv, SlotsExact, Limit
<1> QED BY <1>1, <1>3 DEF SlotInv

(* A release gives back the slot of its request. *)
LEMMA ReleaseSlots ==
  ASSUME SlotInv, NEW r \in Requests, req[r].pc \in Holding, Release(r)
  PROVE  SlotInv'
<1>0. PICK k \in Keys : k = req[r].key
  BY DEF SlotInv, SlotType, ReqType, Holding
<1>1. r \in Of(k, Holding)
  BY <1>0 DEF Of
<1>2. NewReq \in ReqType /\ NewReq.pc = "new" /\ NewReq.key = NoKey
  BY DEF NewReq, ReqType
<1>3. Of(k, Holding) \in SUBSET Requests
  BY DEF Of
<1>4. conc[k] - 1 = Cardinality(Of(k, Holding) \ {r}) /\ conc[k] - 1 \in Nat
  <2>1. Cardinality(Of(k, Holding) \ {r}) = Cardinality(Of(k, Holding)) - 1
    BY <1>1, <1>3, Counting
  <2>2. Cardinality(Of(k, Holding) \ {r}) \in Nat
    <3>1. Of(k, Holding) \ {r} \in SUBSET Requests BY <1>3
    <3> QED BY <3>1, Counting
  <2> QED BY <2>1, <2>2 DEF SlotInv, SlotsExact
<1>5. SlotType'
  BY <1>0, <1>2, <1>4 DEF SlotInv, SlotType, Release, Become
<1>6. Of(k, Holding)' = Of(k, Holding) \ {r}
  BY <1>0, <1>2 DEF SlotInv, SlotType, Release, Become, Of, Holding
<1>7. \A l \in Keys \ {k} : Of(l, Holding)' = Of(l, Holding)
  BY <1>0, <1>2 DEF SlotInv, SlotType, Release, Become, Of, Holding
<1>8. conc'[k] = conc[k] - 1 /\ \A l \in Keys \ {k} : conc'[l] = conc[l]
  BY <1>0 DEF SlotInv, SlotType, Release
<1>9. conc'[k] = Cardinality(Of(k, Holding)') /\ conc'[k] <= Limit(k, "conc")
  <2>1. Limit(k, "conc") \in Nat BY LimitType_
  <2>2. conc[k] \in Nat BY DEF SlotInv, SlotType
  <2> QED BY <2>1, <2>2, <1>4, <1>6, <1>8 DEF SlotInv, SlotsExact
<1>10. SlotsExact'
  BY <1>7, <1>8, <1>9 DEF SlotInv, SlotsExact, Limit
<1> QED BY <1>5, <1>10 DEF SlotInv

(* An acquired slot is counted, and one is acquired only below the limit. *)
LEMMA AcquireSlots ==
  ASSUME SlotInv, NEW r \in Requests, AcquireConcurrency(r)
  PROVE  SlotInv'
<1>0. PICK k \in Keys : k = req[r].key
  BY DEF SlotInv, SlotType, ReqType, AcquireConcurrency
<1>1. CASE conc[k] >= Limit(k, "conc")
  <2>1. Become(r, NewReq) /\ UNCHANGED conc /\ req[r].pc = "slot"
    BY <1>0, <1>1 DEF AcquireConcurrency
  <2>2. NewReq \in ReqType /\ NewReq.pc = "new" /\ NewReq.key = NoKey
    BY DEF NewReq, ReqType
  <2> QED BY <2>1, <2>2, KeepsSlots DEF Holding
<1>2. CASE ~(conc[k] >= Limit(k, "conc"))
  <2> DEFINE q == [req[r] EXCEPT !.pc = "quota"]
  <2>1. /\ req[r].pc = "slot" /\ req' = [req EXCEPT ![r] = q]
        /\ conc' = [conc EXCEPT ![k] = @ + 1]
    BY <1>0, <1>2 DEF AcquireConcurrency, Become
  <2>2. q \in ReqType /\ q.pc = "quota" /\ q.key = k
    BY <1>0 DEF SlotInv, SlotType, ReqType, Holding
  <2>3. SlotType'
    <3>1. k # NoKey BY AdmissionAssumption DEF AdmissionAssumption
    <3> HIDE DEF q
    <3> QED BY <2>1, <2>2, <3>1 DEF SlotInv, SlotType
  <2>4. Of(k, Holding)' = Of(k, Holding) \cup {r} /\ r \notin Of(k, Holding)
    <3> HIDE DEF q
    <3> QED BY <2>1, <2>2 DEF SlotInv, SlotType, Of, Holding
  <2>5. \A l \in Keys \ {k} : Of(l, Holding)' = Of(l, Holding)
    <3> HIDE DEF q
    <3> QED BY <2>1, <2>2, <1>0 DEF SlotInv, SlotType, Of, Holding
  <2>6. Cardinality(Of(k, Holding)') = Cardinality(Of(k, Holding)) + 1
    <3>1. Of(k, Holding) \in SUBSET Requests BY DEF Of
    <3> QED BY <3>1, <2>4, Counting
  <2>7. conc'[k] = conc[k] + 1 /\ \A l \in Keys \ {k} : conc'[l] = conc[l]
    BY <2>1 DEF SlotInv, SlotType
  <2>8. conc'[k] = Cardinality(Of(k, Holding)') /\ conc'[k] <= Limit(k, "conc")
    <3>1. Limit(k, "conc") \in Nat BY LimitType_
    <3>2. conc[k] \in Nat BY DEF SlotInv, SlotType
    <3> QED BY <3>1, <3>2, <1>2, <2>6, <2>7 DEF SlotInv, SlotsExact
  <2>9. SlotsExact'
    BY <2>5, <2>7, <2>8 DEF SlotInv, SlotsExact, Limit
  <2> QED BY <2>3, <2>9 DEF SlotInv
<1> QED BY <1>1, <1>2

(* A step that leaves requests and trackers alone keeps the slots exact. *)
LEMMA IdleSlots ==
  ASSUME SlotInv, UNCHANGED <<req, conc>> PROVE SlotInv'
BY DEF SlotInv, SlotType, SlotsExact, Of, Limit

(* Every step keeps the slots exact. *)
LEMMA SlotStep == SlotInv /\ [Next]_vars => SlotInv'
<1> SUFFICES ASSUME SlotInv, [Next]_vars PROVE SlotInv'
  OBVIOUS
<1>t. req \in [Requests -> ReqType]
  BY DEF SlotInv, SlotType
<1>n. NewReq \in ReqType /\ NewReq.pc = "new" /\ NewReq.key = NoKey
  BY DEF NewReq, ReqType
<1>1. ASSUME NEW r \in Requests, NEW k \in Keys, Arrive(r, k) PROVE SlotInv'
  <2> DEFINE q == [NewReq EXCEPT !.pc = "tpm", !.key = k]
  <2>1. q \in ReqType /\ q.pc = "tpm" /\ q.key = k /\ k # NoKey
    BY AdmissionAssumption, ZenonT(60) DEF AdmissionAssumption, NewReq, ReqType, Holding
  <2> HIDE DEF q
  <2>2. (Become(r, q) \/ Become(r, NewReq)) /\ UNCHANGED conc /\ req[r].pc = "new"
    BY <1>1 DEF Arrive, q
  <2> QED BY <2>1, <2>2, <1>n, KeepsSlots DEF Holding
<1>2. ASSUME NEW r \in Requests, Estimate(r) PROVE SlotInv'
  <2>1. req[r].pc = "tpm" /\ UNCHANGED conc
    BY <1>2, ZenonT(60) DEF Estimate
  <2>2. \/ Become(r, NewReq)
        \/ Become(r, [req[r] EXCEPT !.pc = "slot"])
        \/ \E n \in 1 .. MaxEstimate :
             Become(r, [req[r] EXCEPT !.pc = "slot", !.estimate = n])
    BY <1>2, ZenonT(60) DEF Estimate
  <2>3. CASE Become(r, NewReq)
    BY <2>1, <2>3, <1>n, KeepsSlots DEF Holding
  <2>4. CASE Become(r, [req[r] EXCEPT !.pc = "slot"])
    <3> DEFINE q == [req[r] EXCEPT !.pc = "slot"]
    <3>1. q \in ReqType /\ q.pc = "slot" /\ q.key = req[r].key /\ q.key # NoKey
      BY <1>t, <2>1 DEF ReqType, SlotInv, SlotType
    <3> HIDE DEF q
    <3>2. Become(r, q) BY <2>4 DEF q
    <3> QED BY <2>1, <3>1, <3>2, KeepsSlots DEF Holding
  <2>5. ASSUME NEW n \in 1 .. MaxEstimate,
               Become(r, [req[r] EXCEPT !.pc = "slot", !.estimate = n])
        PROVE  SlotInv'
    <3> DEFINE q == [req[r] EXCEPT !.pc = "slot", !.estimate = n]
    <3>0. n \in Nat BY AdmissionAssumption DEF AdmissionAssumption
    <3>1. q \in ReqType /\ q.pc = "slot" /\ q.key = req[r].key /\ q.key # NoKey
      BY <1>t, <2>1, <3>0, ZenonT(60) DEF ReqType, SlotInv, SlotType
    <3> HIDE DEF q
    <3>2. Become(r, q) BY <2>5 DEF q
    <3> QED BY <2>1, <3>1, <3>2, KeepsSlots DEF Holding
  <2> QED BY <2>2, <2>3, <2>4, <2>5, ZenonT(60)
<1>3. ASSUME NEW r \in Requests, NEW q \in ReqType, Become(r, q), UNCHANGED conc,
             req[r].pc \in Holding, q.pc \in Holding, q.key = req[r].key
      PROVE  SlotInv'
  <2>1. q.pc # "new" /\ q.key # NoKey
    BY <1>3 DEF SlotInv, SlotType, Holding
  <2> QED BY <2>1, <1>3, KeepsSlots
<1>4. ASSUME NEW r \in Requests, GetUsage(r) PROVE SlotInv'
  <2>1. \E pc \in {"work", "read"}, fresh \in BOOLEAN :
          Become(r, [req[r] EXCEPT !.pc = pc, !.fresh = fresh])
    <3>1. CASE EffectiveBudget(req[r].key) <= 0
      <4>1. [req[r] EXCEPT !.pc = "work"]
              = [req[r] EXCEPT !.pc = "work", !.fresh = req[r].fresh]
        BY <1>t, ZenonT(60) DEF ReqType
      <4>2. req[r].fresh \in BOOLEAN BY <1>t DEF ReqType
      <4> QED BY <1>4, <3>1, <4>1, <4>2, ZenonT(60) DEF GetUsage
    <3>2. CASE ~(EffectiveBudget(req[r].key) <= 0)
      BY <1>4, <3>2, ZenonT(60) DEF GetUsage
    <3> QED BY <3>1, <3>2, ZenonT(60)
  <2>2. PICK pc \in {"work", "read"}, fresh \in BOOLEAN :
          Become(r, [req[r] EXCEPT !.pc = pc, !.fresh = fresh])
    BY <2>1, ZenonT(60)
  <2> DEFINE q == [req[r] EXCEPT !.pc = pc, !.fresh = fresh]
  <2>3. q \in ReqType /\ q.pc = pc /\ q.key = req[r].key
    BY <1>t, ZenonT(60) DEF ReqType, Holding
  <2>4. req[r].pc = "quota" /\ UNCHANGED conc
    BY <1>4 DEF GetUsage
  <2> HIDE DEF q
  <2>5. Become(r, q) BY <2>2 DEF q
  <2> QED BY <2>3, <2>4, <2>5, <1>3 DEF Holding
<1>5. ASSUME NEW r \in Requests, CheckBudget(r) PROVE SlotInv'
  <2> DEFINE pc == IF Seen(r) >= EffectiveBudget(req[r].key) THEN "settle" ELSE "work"
             q == [req[r] EXCEPT !.fresh = FALSE, !.pc = pc]
  <2>1. pc \in {"settle", "work"} OBVIOUS
  <2>2. req[r].pc = "read" /\ Become(r, q) /\ UNCHANGED conc
    BY <1>5 DEF CheckBudget
  <2> HIDE DEF pc
  <2>3. q \in ReqType /\ q.pc = pc /\ q.key = req[r].key
    BY <1>t, <2>1, ZenonT(60) DEF ReqType, Holding
  <2> HIDE DEF q
  <2> QED BY <2>1, <2>2, <2>3, <1>3 DEF Holding
<1>6. ASSUME NEW r \in Requests, Respond(r) PROVE SlotInv'
  <2>0. req[r].key \in Keys
    BY <1>6, <1>t DEF Respond, ReqType, SlotInv, SlotType
  <2>1. PICK excess \in Excess(req[r].key), cost \in 0 .. MaxCost[req[r].key],
             pc \in {"cost", "settle"} :
          Become(r, [req[r] EXCEPT !.pc = pc, !.excess = excess,
                                   !.cost = IF pc = "cost" THEN cost ELSE 0])
    BY <1>6, ZenonT(60) DEF Respond
  <2> DEFINE c == IF pc = "cost" THEN cost ELSE 0
             q == [req[r] EXCEPT !.pc = pc, !.excess = excess, !.cost = c]
  <2>2. excess \in Nat /\ c \in Nat
    BY <2>0, AdmissionAssumption DEF AdmissionAssumption, Excess
  <2>3. Become(r, q) BY <2>1
  <2> HIDE DEF c
  <2>4. q \in ReqType /\ q.pc = pc /\ q.key = req[r].key
    BY <1>t, <2>2, ZenonT(60) DEF ReqType, Holding
  <2>5. req[r].pc = "work" /\ UNCHANGED conc
    BY <1>6 DEF Respond
  <2> HIDE DEF q
  <2> QED BY <2>3, <2>4, <2>5, <1>3 DEF Holding
<1>7. ASSUME NEW r \in Requests, RecordCost(r) PROVE SlotInv'
  <2> DEFINE q == [req[r] EXCEPT !.pc = "count", !.cost = 0]
  <2>1. Become(r, q) /\ req[r].pc = "cost" /\ UNCHANGED conc
    BY <1>7 DEF RecordCost
  <2>2. q \in ReqType /\ q.pc = "count" /\ q.key = req[r].key
    BY <1>t, ZenonT(60) DEF ReqType, Holding
  <2> HIDE DEF q
  <2> QED BY <2>1, <2>2, <1>3 DEF Holding
<1>8. ASSUME NEW r \in Requests, RecordCount(r) PROVE SlotInv'
  <2> DEFINE q == [req[r] EXCEPT !.pc = "settle"]
  <2>1. Become(r, q) /\ req[r].pc = "count" /\ UNCHANGED conc
    BY <1>8 DEF RecordCount
  <2>2. q \in ReqType /\ q.pc = "settle" /\ q.key = req[r].key
    BY <1>t DEF ReqType, Holding
  <2> HIDE DEF q
  <2> QED BY <2>1, <2>2, <1>3 DEF Holding
<1>9. ASSUME NEW r \in Requests, Reconcile(r) PROVE SlotInv'
  <2> DEFINE q == [req[r] EXCEPT !.pc = "release", !.excess = 0]
  <2>1. Become(r, q) /\ req[r].pc = "settle" /\ UNCHANGED conc
    BY <1>9 DEF Reconcile
  <2>2. q \in ReqType /\ q.pc = "release" /\ q.key = req[r].key
    BY <1>t, ZenonT(60) DEF ReqType, Holding
  <2> HIDE DEF q
  <2> QED BY <2>1, <2>2, <1>3 DEF Holding
<1>10. ASSUME NEW r \in Requests, Panic(r) \/ Leave(r) PROVE SlotInv'
  BY <1>10, ReleaseSlots DEF Panic, Leave, Holding
<1>11. ASSUME Tick PROVE SlotInv'
  BY <1>11, IdleSlots DEF Tick
<1>12. ASSUME NEW k \in Queried, AdminGetUsage(k) PROVE SlotInv'
  BY <1>12, IdleSlots DEF AdminGetUsage
<1>13. ASSUME AdminReadCost \/ AdminReadRequests \/ AdminAnswer PROVE SlotInv'
  BY <1>13, IdleSlots DEF AdminReadCost, AdminReadRequests, AdminAnswer
<1>14. ASSUME UNCHANGED vars PROVE SlotInv'
  BY <1>14, IdleSlots DEF vars
<1>15. ASSUME NEW r \in Requests, Step(r) PROVE SlotInv'
  BY <1>15, <1>2, <1>4, <1>5, <1>6, <1>7, <1>8, <1>9, <1>10, AcquireSlots DEF Step
<1> QED BY <1>1, <1>11, <1>12, <1>13, <1>14, <1>15 DEF Next

(* Initially no slot is taken. *)
LEMMA SlotInit == Init => SlotInv
<1> SUFFICES ASSUME Init PROVE SlotInv
  OBVIOUS
<1>1. NewReq \in ReqType /\ NewReq.pc = "new" /\ NewReq.key = NoKey
  BY DEF NewReq, ReqType
<1>2. SlotType
  BY <1>1 DEF Init, SlotType
<1>3. \A k \in Keys : Of(k, Holding) = {}
  BY <1>1 DEF Init, Of, Holding
<1>4. SlotsExact
  <2>1. ASSUME NEW k \in Keys
        PROVE  conc[k] = Cardinality(Of(k, Holding)) /\ conc[k] <= Limit(k, "conc")
    <3>1. conc[k] = 0 BY DEF Init
    <3>2. Cardinality({}) = 0 BY FS_EmptySet
    <3>3. Limit(k, "conc") \in Nat BY LimitType_
    <3> QED BY <1>3, <3>1, <3>2, <3>3
  <2> QED BY <2>1 DEF SlotsExact
<1> QED BY <1>2, <1>4 DEF SlotInv

(* SlotsExact holds for all limits, keys and goroutines. *)
THEOREM SlotsAreExact == Spec => []SlotsExact
<1>1. SlotInv => SlotsExact BY DEF SlotInv
<1> QED BY <1>1, SlotInit, SlotStep, PTL DEF Spec

(* The bound survives when nothing is spent and no request commits. *)
LEMMA WithinShrinks ==
  ASSUME NEW k \in Keys, NEW spent \in Nat, NEW S \in SUBSET Requests,
         NEW T \in SUBSET S, Within(k, spent, S)
  PROVE  Within(k, spent, T)
<1>1. Cardinality(S) \in Nat /\ Cardinality(T) <= Cardinality(S)
  BY Counting
<1>2. Cardinality(T) \in Nat
  <2>1. T \in SUBSET Requests OBVIOUS
  <2> QED BY <2>1, Counting
<1>3. \A c, m, l \in Nat : m <= l => c * m <= c * l
  OBVIOUS
<1>4. MaxCost[k] \in Nat /\ Limit(k, "conc") \in Nat /\ EffectiveBudget(k) \in Nat
  BY LimitType_, BudgetType, AdmissionAssumption DEF AdmissionAssumption
<1>5. MaxCost[k] * Cardinality(T) <= MaxCost[k] * Cardinality(S)
  BY <1>1, <1>2, <1>3, <1>4
<1>6. /\ MaxCost[k] * Cardinality(T) \in Nat /\ MaxCost[k] * Cardinality(S) \in Nat
      /\ MaxCost[k] * Limit(k, "conc") \in Nat
  BY <1>1, <1>2, <1>4
<1> QED BY <1>4, <1>5, <1>6 DEF Within

(* The bound survives when a committed request spends what it may. *)
LEMMA WithinSpends ==
  ASSUME NEW k \in Keys, NEW spent \in Nat, NEW S \in SUBSET Requests,
         NEW r \in S, NEW c \in Nat, c <= MaxCost[k], Within(k, spent, S)
  PROVE  Within(k, spent + c, S \ {r})
<1>1. Cardinality(S) \in Nat /\ Cardinality(S \ {r}) = Cardinality(S) - 1
  BY Counting
<1>2. Cardinality(S \ {r}) \in Nat
  <2>1. S \ {r} \in SUBSET Requests OBVIOUS
  <2> QED BY <2>1, Counting
<1>3. \A m, n \in Nat : m * (n + 1) = m * n + m
  OBVIOUS
<1>4. MaxCost[k] \in Nat /\ Limit(k, "conc") \in Nat /\ EffectiveBudget(k) \in Nat
  BY LimitType_, BudgetType, AdmissionAssumption DEF AdmissionAssumption
<1>5. Cardinality(S) = Cardinality(S \ {r}) + 1
  BY <1>1, <1>2
<1>6. MaxCost[k] * Cardinality(S) = MaxCost[k] * Cardinality(S \ {r}) + MaxCost[k]
  BY <1>2, <1>3, <1>4, <1>5
<1>7. /\ MaxCost[k] * Cardinality(S) \in Nat
      /\ MaxCost[k] * Cardinality(S \ {r}) \in Nat
      /\ MaxCost[k] * Limit(k, "conc") \in Nat
  BY <1>1, <1>2, <1>4
<1> QED BY <1>4, <1>6, <1>7 DEF Within

(* The bound holds of any set of requests with slots while the budget is   *)
(* not spent.                                                              *)
LEMMA WithinWhileUnspent ==
  ASSUME SlotInv', NEW k \in Keys, NEW spent \in Nat, spent < EffectiveBudget(k)
  PROVE  Within(k, spent, Committed(k)')
<1>1. /\ Cardinality(Committed(k)') \in Nat
      /\ Cardinality(Committed(k)') <= Limit(k, "conc")
  <2>1. Of(k, Holding)' \in SUBSET Requests /\ Committed(k)' \in SUBSET Of(k, Holding)'
        /\ Committed(k)' \in SUBSET Requests
    BY DEF Of, Committed, Bound, Holding
  <2>2. /\ Cardinality(Committed(k)') \in Nat /\ Cardinality(Of(k, Holding)') \in Nat
        /\ Cardinality(Committed(k)') <= Cardinality(Of(k, Holding)')
    BY <2>1, Counting
  <2>3. Cardinality(Of(k, Holding)') <= Limit(k, "conc")
    BY DEF SlotInv, SlotsExact, Limit
  <2>4. Limit(k, "conc") \in Nat BY LimitType_
  <2> QED BY <2>2, <2>3, <2>4
<1>2. MaxCost[k] \in Nat /\ Limit(k, "conc") \in Nat /\ EffectiveBudget(k) \in Nat
  BY LimitType_, BudgetType, AdmissionAssumption DEF AdmissionAssumption
<1>3. \A c, m, l \in Nat : m <= l => c * m <= c * l
  OBVIOUS
<1>4. MaxCost[k] * Cardinality(Committed(k)') <= MaxCost[k] * Limit(k, "conc")
  BY <1>1, <1>2, <1>3
<1>5. /\ MaxCost[k] * Cardinality(Committed(k)') \in Nat
      /\ MaxCost[k] * Limit(k, "conc") \in Nat
  BY <1>1, <1>2
<1> QED BY <1>2, <1>4, <1>5 DEF Within

(* A step that changes one request, commits none and charges nothing keeps *)
(* the bound.                                                              *)
LEMMA KeepsBudget ==
  ASSUME SlotInv, BudgetInv, NEW r \in Requests, NEW q, Become(r, q), UNCHANGED usage,
         q.pc = "cost" => q.cost <= MaxCost[q.key],
         Bound(q) => Bound(req[r]) /\ q.key = req[r].key
  PROVE  BudgetInv'
<1>1. req \in [Requests -> ReqType] /\ req' = [req EXCEPT ![r] = q]
  BY DEF SlotInv, SlotType, Become
<1>2. \A k \in Keys : Committed(k)' \in SUBSET Committed(k)
  BY <1>1 DEF Committed, Bound
<1>3. \A k \in Keys : Within(k, usage[k].cost, Committed(k)')
  <2>1. ASSUME NEW k \in Keys PROVE Within(k, usage[k].cost, Committed(k)')
    <3>1. usage[k].cost \in Nat BY DEF BudgetInv, UsageType
    <3>2. Committed(k) \in SUBSET Requests BY DEF Committed
    <3>3. Within(k, usage[k].cost, Committed(k)) BY DEF BudgetInv
    <3> QED BY <3>1, <3>2, <3>3, <1>2, WithinShrinks
  <2> QED BY <2>1
<1>4. \A s \in Requests : req'[s].pc = "cost" => req'[s].cost <= MaxCost[req'[s].key]
  BY <1>1 DEF BudgetInv
<1>5. UsageType' /\ \A k \in Keys : ~usage'[k].known => usage'[k].cost = 0
  BY DEF BudgetInv, UsageType
<1>6. \A k \in Keys : Within(k, usage[k].cost, Committed(k))'
  BY <1>3 DEF Within, EffectiveBudget, Limit
<1> QED BY <1>4, <1>5, <1>6 DEF BudgetInv

(* A step that commits one request while the budget is not spent keeps the *)
(* bound.                                                                  *)
LEMMA CommitsBudget ==
  ASSUME SlotInv, SlotInv', BudgetInv, NEW r \in Requests, NEW q, Become(r, q),
         UNCHANGED usage, q.pc # "cost", q.key = req[r].key, req[r].key \in Keys,
         usage[req[r].key].cost < EffectiveBudget(req[r].key)
  PROVE  BudgetInv'
<1>0. PICK k \in Keys : k = req[r].key
  OBVIOUS
<1>1. req \in [Requests -> ReqType] /\ req' = [req EXCEPT ![r] = q]
  BY DEF SlotInv, SlotType, Become
<1>2. Within(k, usage[k].cost, Committed(k)')
  <2>1. usage[k].cost \in Nat BY DEF BudgetInv, UsageType
  <2> QED BY <2>1, <1>0, WithinWhileUnspent
<1>3. \A l \in Keys \ {k} : Committed(l)' = Committed(l)
  BY <1>0, <1>1 DEF Committed
<1>4. \A l \in Keys : Within(l, usage[l].cost, Committed(l)')
  BY <1>2, <1>3 DEF BudgetInv
<1>5. \A s \in Requests : req'[s].pc = "cost" => req'[s].cost <= MaxCost[req'[s].key]
  BY <1>1 DEF BudgetInv
<1>6. UsageType' /\ \A l \in Keys : ~usage'[l].known => usage'[l].cost = 0
  BY SMTT(60) DEF BudgetInv, UsageType
<1>7. \A l \in Keys : Within(l, usage[l].cost, Committed(l))'
  BY <1>4 DEF Within, EffectiveBudget, Limit
<1> QED BY <1>5, <1>6, <1>7 DEF BudgetInv

(* Recording a cost spends what its request was committed to. *)
LEMMA RecordsBudget ==
  ASSUME SlotInv, BudgetInv, NEW r \in Requests, RecordCost(r)
  PROVE  BudgetInv'
<1> DEFINE q == [req[r] EXCEPT !.pc = "count", !.cost = 0]
           c == req[r].cost
<1>0. PICK k \in Keys : k = req[r].key
  BY DEF SlotInv, SlotType, ReqType, RecordCost
<1>1. req \in [Requests -> ReqType] /\ req' = [req EXCEPT ![r] = q] /\ req[r].pc = "cost"
  BY DEF SlotInv, SlotType, RecordCost, Become
<1>2. q.pc = "count" /\ q.key = k /\ c \in Nat /\ c <= MaxCost[k]
  BY <1>0, <1>1 DEF ReqType, BudgetInv
<1> HIDE DEF q
<1>3. Committed(k)' = Committed(k) \ {r} /\ r \in Committed(k)
  BY <1>0, <1>1, <1>2 DEF Committed, Bound
<1>4. \A l \in Keys \ {k} : Committed(l)' = Committed(l)
  BY <1>0, <1>1, <1>2 DEF Committed, Bound
<1>5. /\ usage \in [Keys -> [known : BOOLEAN, cost : Nat, requests : Nat]]
      /\ usage' = [usage EXCEPT ![k] = [known |-> TRUE, cost |-> @.cost + c,
                                        requests |-> @.requests]]
  BY <1>0 DEF BudgetInv, UsageType, RecordCost
<1>6. /\ UsageType'
      /\ usage'[k].cost = usage[k].cost + c /\ usage'[k].known = TRUE
      /\ \A l \in Keys \ {k} : usage'[l] = usage[l]
  BY <1>2, <1>5 DEF UsageType
<1>7. Within(k, usage[k].cost + c, Committed(k) \ {r})
  <2>1. usage[k].cost \in Nat BY <1>5
  <2>2. Committed(k) \in SUBSET Requests BY DEF Committed
  <2>3. Within(k, usage[k].cost, Committed(k)) BY DEF BudgetInv
  <2> QED BY <2>1, <2>2, <2>3, <1>2, <1>3, WithinSpends
<1>8. \A l \in Keys : Within(l, usage'[l].cost, Committed(l)')
  BY <1>3, <1>4, <1>6, <1>7, SMTT(60) DEF BudgetInv
<1>9. \A s \in Requests : req'[s].pc = "cost" => req'[s].cost <= MaxCost[req'[s].key]
  BY <1>1, <1>2, SMTT(60) DEF BudgetInv
<1>10. \A l \in Keys : ~usage'[l].known => usage'[l].cost = 0
  BY <1>6 DEF BudgetInv
<1>11. \A l \in Keys : Within(l, usage[l].cost, Committed(l))'
  BY <1>8 DEF Within, EffectiveBudget, Limit
<1> QED BY <1>6, <1>9, <1>10, <1>11 DEF BudgetInv

(* A step that leaves requests and records alone keeps the bound. *)
LEMMA IdleBudget ==
  ASSUME BudgetInv, UNCHANGED <<req, usage>> PROVE BudgetInv'
<1>1. \A k \in Keys : Committed(k)' = Committed(k)
  BY DEF Committed, Bound
<1>2. \A k \in Keys : Within(k, usage[k].cost, Committed(k))'
  BY <1>1 DEF BudgetInv, Within, EffectiveBudget, Limit
<1> QED BY <1>2 DEF BudgetInv, UsageType

(* Every step keeps the bound. *)
LEMMA BudgetStep == SlotInv /\ SlotInv' /\ BudgetInv /\ [Next]_vars => BudgetInv'
<1> SUFFICES ASSUME SlotInv, SlotInv', BudgetInv, [Next]_vars PROVE BudgetInv'
  OBVIOUS
<1>t. req \in [Requests -> ReqType]
  BY DEF SlotInv, SlotType
<1>n. NewReq.pc = "new" /\ ~Bound(NewReq)
  BY DEF NewReq, Bound
<1>1. ASSUME NEW r \in Requests, NEW k \in Keys, Arrive(r, k) PROVE BudgetInv'
  <2> DEFINE q == [NewReq EXCEPT !.pc = "tpm", !.key = k]
  <2>1. q.pc = "tpm" BY DEF NewReq
  <2> HIDE DEF q
  <2>2. (Become(r, q) \/ Become(r, NewReq)) /\ UNCHANGED usage
    BY <1>1 DEF Arrive, q, quotaVars
  <2>3. ~Bound(q) BY <2>1 DEF Bound
  <2> QED BY <2>1, <2>2, <2>3, <1>n, KeepsBudget
<1>2. ASSUME NEW r \in Requests, Estimate(r) PROVE BudgetInv'
  <2>1. req[r].pc = "tpm" /\ UNCHANGED usage
    BY <1>2, ZenonT(60) DEF Estimate, quotaVars
  <2>2. \/ Become(r, NewReq)
        \/ Become(r, [req[r] EXCEPT !.pc = "slot"])
        \/ \E n \in 1 .. MaxEstimate :
             Become(r, [req[r] EXCEPT !.pc = "slot", !.estimate = n])
    BY <1>2, ZenonT(60) DEF Estimate
  <2>a. [req[r] EXCEPT !.pc = "slot"].pc = "slot" BY <1>t DEF ReqType
  <2>b. ASSUME NEW n PROVE [req[r] EXCEPT !.pc = "slot", !.estimate = n].pc = "slot"
    BY <1>t DEF ReqType
  <2>3. PICK q : Become(r, q) /\ q.pc \in {"new", "slot"}
    BY <2>2, <2>a, <2>b, <1>n, Zenon
  <2>4. ~Bound(q) /\ q.pc # "cost" BY <2>3 DEF Bound
  <2> QED BY <2>1, <2>3, <2>4, KeepsBudget, SMTT(60)
<1>3. ASSUME NEW r \in Requests, AcquireConcurrency(r) PROVE BudgetInv'
  <2>1. Become(r, NewReq) \/ Become(r, [req[r] EXCEPT !.pc = "quota"])
    BY <1>3 DEF AcquireConcurrency
  <2>2. PICK q : Become(r, q) /\ q.pc \in {"new", "quota"}
    BY <2>1, <1>n, <1>t DEF ReqType
  <2>3. ~Bound(q) /\ q.pc # "cost" BY <2>2 DEF Bound
  <2>4. UNCHANGED usage BY <1>3 DEF AcquireConcurrency, quotaVars
  <2> QED BY <2>2, <2>3, <2>4, KeepsBudget
<1>4. ASSUME NEW r \in Requests, GetUsage(r) PROVE BudgetInv'
  <2>0. PICK k \in Keys : k = req[r].key
    BY <1>4 DEF GetUsage, SlotInv, SlotType, ReqType
  <2>1. UNCHANGED usage /\ req[r].pc = "quota"
    BY <1>4 DEF GetUsage, quotaVars
  <2>2. CASE EffectiveBudget(k) <= 0
    <3> DEFINE q == [req[r] EXCEPT !.pc = "work"]
    <3>1. Become(r, q) BY <1>4, <2>0, <2>2 DEF GetUsage
    <3>2. q.pc = "work" /\ q.key = k BY <1>t, <2>0 DEF ReqType
    <3> HIDE DEF q
    <3>3. req' = [req EXCEPT ![r] = q] BY <3>1 DEF Become
    <3>4. \A l \in Keys \ {k} : Committed(l)' = Committed(l)
      BY <1>t, <2>0, <3>2, <3>3, SMTT(60) DEF Committed
    <3>5. \A l \in Keys : Within(l, usage[l].cost, Committed(l)')
      <4>1. EffectiveBudget(k) \in Nat BY BudgetType
      <4>2. Within(k, usage[k].cost, Committed(k)') BY <2>2, <4>1 DEF Within
      <4> QED BY <3>4, <4>2 DEF BudgetInv
    <3>6. \A l \in Keys : Within(l, usage[l].cost, Committed(l))'
      BY <2>1, <3>5 DEF Within, EffectiveBudget, Limit
    <3>7. \A s \in Requests : req'[s].pc = "cost" => req'[s].cost <= MaxCost[req'[s].key]
      BY <1>t, <3>2, <3>3 DEF BudgetInv
    <3> QED BY <2>1, <3>6, <3>7 DEF BudgetInv, UsageType
  <2>3. CASE ~(EffectiveBudget(k) <= 0)
    <3> DEFINE q == [req[r] EXCEPT !.pc = "read", !.fresh = ~usage[k].known]
    <3>1. Become(r, q) BY <1>4, <2>0, <2>3 DEF GetUsage
    <3>2. q.pc = "read" /\ q.key = k /\ q.fresh = ~usage[k].known
      BY <1>t, <2>0 DEF ReqType
    <3> HIDE DEF q
    <3>3. CASE usage[k].known
      <4>1. ~Bound(q) BY <3>2, <3>3, ZenonT(60) DEF Bound
      <4> QED BY <2>1, <3>1, <3>2, <4>1, KeepsBudget
    <3>4. CASE ~usage[k].known
      <4>1. usage[k].cost = 0 BY <3>4 DEF BudgetInv
      <4>2. usage[k].cost < EffectiveBudget(k) BY <4>1, <2>3, BudgetType
      <4> QED BY <2>0, <2>1, <3>1, <3>2, <4>2, CommitsBudget
    <3> QED BY <3>3, <3>4
  <2> QED BY <2>2, <2>3
<1>5. ASSUME NEW r \in Requests, CheckBudget(r) PROVE BudgetInv'
  <2>0. PICK k \in Keys : k = req[r].key
    BY <1>5 DEF CheckBudget, SlotInv, SlotType, ReqType
  <2> DEFINE pc == IF Seen(r) >= EffectiveBudget(req[r].key) THEN "settle" ELSE "work"
             q == [req[r] EXCEPT !.fresh = FALSE, !.pc = pc]
  <2>1. req[r].pc = "read" /\ Become(r, q) /\ UNCHANGED usage
    BY <1>5 DEF CheckBudget, quotaVars
  <2>2. q.pc = pc /\ q.key = k BY <1>t, <2>0 DEF ReqType
  <2>3. CASE Seen(r) >= EffectiveBudget(req[r].key)
    <3>1. q.pc = "settle" BY <2>2, <2>3
    <3> HIDE DEF q
    <3>2. ~Bound(q) BY <3>1 DEF Bound
    <3> QED BY <2>1, <3>1, <3>2, KeepsBudget
  <2>4. CASE ~(Seen(r) >= EffectiveBudget(req[r].key))
    <3>1. q.pc = "work" BY <2>2, <2>4
    <3> HIDE DEF q, pc
    <3>2. CASE req[r].fresh
      <4>1. Bound(req[r]) BY <2>1, <3>2 DEF Bound
      <4> QED BY <2>0, <2>1, <2>2, <3>1, <4>1, KeepsBudget
    <3>3. CASE ~req[r].fresh
      <4>1. usage[k].cost \in Nat /\ EffectiveBudget(k) \in Nat
        BY BudgetType DEF BudgetInv, UsageType
      <4>2. usage[k].cost < EffectiveBudget(k)
        BY <2>0, <2>4, <3>3, <4>1, SMTT(60) DEF Seen
      <4> QED BY <2>0, <2>1, <2>2, <3>1, <4>2, CommitsBudget
    <3> QED BY <3>2, <3>3
  <2> QED BY <2>3, <2>4
<1>6. ASSUME NEW r \in Requests, Respond(r) PROVE BudgetInv'
  <2>1. PICK excess \in Excess(req[r].key), cost \in 0 .. MaxCost[req[r].key],
             pc \in {"cost", "settle"} :
          Become(r, [req[r] EXCEPT !.pc = pc, !.excess = excess,
                                   !.cost = IF pc = "cost" THEN cost ELSE 0])
    BY <1>6, ZenonT(60) DEF Respond
  <2> DEFINE c == IF pc = "cost" THEN cost ELSE 0
             q == [req[r] EXCEPT !.pc = pc, !.excess = excess, !.cost = c]
  <2>2. Become(r, q) BY <2>1
  <2>3. pc = "cost" => c <= MaxCost[req[r].key]
    OBVIOUS
  <2> HIDE DEF c
  <2>4. q.pc = pc /\ q.key = req[r].key /\ q.cost = c BY <1>t DEF ReqType
  <2> HIDE DEF q
  <2>5. UNCHANGED usage /\ Bound(req[r]) BY <1>6 DEF Respond, quotaVars, Bound
  <2> QED BY <2>2, <2>3, <2>4, <2>5, KeepsBudget, SMTT(60)
<1>7. ASSUME NEW r \in Requests, RecordCount(r) PROVE BudgetInv'
  <2>0. PICK k \in Keys : k = req[r].key
    BY <1>7 DEF RecordCount, SlotInv, SlotType, ReqType
  <2> DEFINE q == [req[r] EXCEPT !.pc = "settle"]
  <2>1. req' = [req EXCEPT ![r] = q] /\ req[r].pc = "count"
    BY <1>7 DEF RecordCount, Become
  <2>2. q.pc = "settle" BY <1>t DEF ReqType
  <2> HIDE DEF q
  <2>3. \A l \in Keys : Committed(l)' = Committed(l)
    BY <1>t, <2>1, <2>2 DEF Committed, Bound
  <2>4. /\ usage \in [Keys -> [known : BOOLEAN, cost : Nat, requests : Nat]]
        /\ usage' = [usage EXCEPT ![k].requests = @ + 1]
    BY <1>7, <2>0 DEF RecordCount, BudgetInv, UsageType
  <2>5. /\ UsageType'
        /\ \A l \in Keys : usage'[l].cost = usage[l].cost /\ usage'[l].known = usage[l].known
    BY <2>4 DEF UsageType
  <2>6. \A l \in Keys : Within(l, usage[l].cost, Committed(l))'
    BY <2>3, <2>5 DEF BudgetInv, Within, EffectiveBudget, Limit
  <2>7. \A s \in Requests : req'[s].pc = "cost" => req'[s].cost <= MaxCost[req'[s].key]
    BY <1>t, <2>1, <2>2, SMTT(60) DEF BudgetInv
  <2>8. \A l \in Keys : ~usage'[l].known => usage'[l].cost = 0
    BY <2>5 DEF BudgetInv
  <2> QED BY <2>5, <2>6, <2>7, <2>8 DEF BudgetInv
<1>8. ASSUME NEW r \in Requests, Reconcile(r) PROVE BudgetInv'
  <2> DEFINE q == [req[r] EXCEPT !.pc = "release", !.excess = 0]
  <2>1. Become(r, q) /\ UNCHANGED usage BY <1>8 DEF Reconcile, quotaVars
  <2>2. q.pc = "release" BY <1>t DEF ReqType
  <2> HIDE DEF q
  <2>3. ~Bound(q) BY <2>2 DEF Bound
  <2> QED BY <2>1, <2>2, <2>3, KeepsBudget
<1>9. ASSUME NEW r \in Requests, Panic(r) \/ Leave(r) PROVE BudgetInv'
  <2>1. Become(r, NewReq) /\ UNCHANGED usage
    BY <1>9 DEF Panic, Leave, Release, quotaVars
  <2> QED BY <2>1, <1>n, KeepsBudget
<1>10. ASSUME NEW r \in Requests, Step(r) PROVE BudgetInv'
  BY <1>10, <1>2, <1>3, <1>4, <1>5, <1>6, <1>7, <1>8, <1>9, RecordsBudget DEF Step
<1>11. ASSUME Tick PROVE BudgetInv'
  BY <1>11, IdleBudget DEF Tick, quotaVars
<1>12. ASSUME NEW k \in Queried, AdminGetUsage(k) PROVE BudgetInv'
  BY <1>12, IdleBudget DEF AdminGetUsage, quotaVars
<1>13. ASSUME AdminReadCost \/ AdminReadRequests \/ AdminAnswer PROVE BudgetInv'
  BY <1>13, IdleBudget DEF AdminReadCost, AdminReadRequests, AdminAnswer, quotaVars
<1>14. ASSUME UNCHANGED vars PROVE BudgetInv'
  BY <1>14, IdleBudget DEF vars, quotaVars
<1> QED BY <1>1, <1>10, <1>11, <1>12, <1>13, <1>14 DEF Next

(* Initially nothing is spent. *)
LEMMA BudgetInit == Init => BudgetInv
<1> SUFFICES ASSUME Init PROVE BudgetInv
  OBVIOUS
<1>1. NewReq.pc = "new" BY DEF NewReq
<1>2. \A k \in Keys : usage[k].cost = 0 /\ Committed(k) = {}
  BY <1>1 DEF Init, Committed, Bound
<1>3. UsageType BY DEF Init, UsageType
<1>4. ASSUME NEW k \in Keys PROVE Within(k, usage[k].cost, Committed(k))
  <2>1. MaxCost[k] \in Nat /\ Limit(k, "conc") \in Nat /\ EffectiveBudget(k) \in Nat
    BY LimitType_, BudgetType, AdmissionAssumption DEF AdmissionAssumption
  <2>2. Cardinality(Committed(k)) = 0 BY <1>2, FS_EmptySet
  <2>3. \A c, l \in Nat : c * 0 = 0 /\ c * l \in Nat OBVIOUS
  <2>4. MaxCost[k] * 0 = 0 /\ MaxCost[k] * Limit(k, "conc") \in Nat BY <2>1, <2>3
  <2> QED BY <1>2, <2>1, <2>2, <2>4 DEF Within
<1>5. \A r \in Requests : req[r].pc # "cost"
  BY <1>1 DEF Init
<1> QED BY <1>2, <1>3, <1>4, <1>5 DEF BudgetInv

(* BudgetOvershootBounded holds for all budgets, prices and limits: a key  *)
(* spends less than its budget plus one request for each of its slots.     *)
THEOREM BudgetIsBounded == Spec => []BudgetOvershootBounded
<1>1. BudgetInv => BudgetOvershootBounded
  <2> SUFFICES ASSUME BudgetInv, NEW k \in Keys, EffectiveBudget(k) > 0
               PROVE  usage[k].cost < EffectiveBudget(k) + MaxCost[k] * Limit(k, "conc")
    BY DEF BudgetOvershootBounded
  <2>1. Within(k, usage[k].cost, Committed(k)) /\ usage[k].cost \in Nat
    BY DEF BudgetInv, UsageType
  <2>2. Committed(k) \in SUBSET Requests BY DEF Committed
  <2>3. Cardinality(Committed(k)) \in Nat BY <2>2, Counting
  <2>4. MaxCost[k] \in Nat /\ Limit(k, "conc") \in Nat /\ EffectiveBudget(k) \in Nat
    BY LimitType_, BudgetType, AdmissionAssumption DEF AdmissionAssumption
  <2>5. /\ MaxCost[k] * Cardinality(Committed(k)) \in Nat
        /\ MaxCost[k] * Limit(k, "conc") \in Nat
    BY <2>3, <2>4
  <2> QED BY <2>1, <2>4, <2>5 DEF Within
<1> QED BY <1>1, SlotInit, SlotStep, BudgetInit, BudgetStep, PTL DEF Spec
=============================================================================
