----------------------------- MODULE Admission -----------------------------
(***************************************************************************)
(* What a virtual key may spend: the rate limiter                          *)
(* (internal/middleware/ratelimit.go) and, inside it in the chain, the     *)
(* quota (internal/middleware/quota.go, internal/quota/quota.go), with the *)
(* usage query of the admin API (internal/admin/admin.go) beside them.     *)
(*                                                                         *)
(* A step is what one hold of memoryLimiter.mu or MemoryStore.mu does, or  *)
(* one access outside them: GetUsage returns the record itself, so its     *)
(* fields are read while RecordUsage changes them.  Such a read sees the   *)
(* field before or after the write, since a 64-bit word is not torn.       *)
(* Amounts of money are whole units.  A request that has been answered     *)
(* makes room for the next one.                                            *)
(***************************************************************************)
EXTENDS SlidingWindow

CONSTANTS
  Requests,      \* the goroutines that serve requests
  Keys,          \* the virtual keys
  NoKey, NoRequest,
  Defaults,      \* the configured limits, a record of rpm, tpm and conc
  KeyMax,        \* KeyMax[k]: the limits in the claims of key k
  DefaultBudget, KeyBudget,
  CleanupEvery,  \* memoryLimiterCleanupEvery, 256 in the code
  MaxEstimate, MaxExcess,  \* bounds of the tokens of one request
  MaxCost,       \* MaxCost[k]: bound of the cost of one request of key k
  Queried,       \* the keys an operator asks the admin API about
  MaxTime,       \* bound of the clock
  MaxArrivals    \* bound of the number of requests

LimitType == [rpm : Nat, tpm : Nat, conc : Nat]

(* Load refuses a configuration without a positive RPM and concurrency. *)
ASSUME AdmissionAssumption ==
  /\ IsFiniteSet(Requests) /\ NoRequest \notin Requests
  /\ NoKey \notin Keys
  /\ Defaults \in LimitType /\ Defaults.rpm > 0 /\ Defaults.conc > 0
  /\ KeyMax \in [Keys -> LimitType]
  /\ DefaultBudget \in Nat /\ KeyBudget \in [Keys -> Nat]
  /\ MaxEstimate \in Nat \ {0} /\ MaxExcess \in Nat
  /\ MaxCost \in [Keys -> Nat] /\ Queried \subseteq Keys
  /\ CleanupEvery \in Nat \ {0} /\ Window \in Nat \ {0}
  /\ CompactAt \in Nat \ {0} /\ MaxTime \in Nat /\ MaxArrivals \in Nat

VARIABLES
  windows,       \* windows[k][d]: the slidingWindow of a key and a dimension
  operations,    \* memoryLimiter.operations, modulo CleanupEvery
  conc,          \* conc[k]: concurrencyTracker.current, 0 without a tracker
  req,           \* req[r]: where the request of goroutine r is
  usage,         \* usage[k]: the record of the quota store
  writer,        \* the request that holds MemoryStore.mu to write
  report,        \* the usage query of the admin API
  now,           \* the clock
  arrivals,      \* the number of requests so far
  log            \* history, log[k][d]: the charges of the last Window

limiterVars == <<windows, operations, log>>
quotaVars == <<usage, writer>>
vars == <<limiterVars, conc, req, quotaVars, report, now, arrivals>>

Charges == [at : Nat, n : Nat \ {0}]

Totals == [cost : Nat, requests : Nat]
NoTotals == [cost |-> 0, requests |-> 0]

(* Where a request has a slot, and where its tokens are charged and not    *)
(* yet reconciled.                                                         *)
Holding == {"quota", "read", "work", "cost", "count", "settle", "release"}
Unsettled == {"slot", "quota", "read", "work", "cost", "count", "settle"}

ReqType ==
  [pc : {"new", "tpm", "slot"} \cup Holding, key : Keys \cup {NoKey},
   estimate : Nat, fresh : BOOLEAN, cost : Nat, excess : Nat]

NewReq == [pc |-> "new", key |-> NoKey, estimate |-> 0, fresh |-> FALSE,
           cost |-> 0, excess |-> 0]

NoReport == [pc |-> "idle", key |-> NoKey, fresh |-> FALSE, read |-> NoTotals]

(* Windows, counters, requests and records have their types. *)
TypeOK ==
  /\ windows \in [Keys -> [Dimensions -> [counts : Seq(Charges), head : Nat, total : Nat]]]
  /\ operations \in 0 .. CleanupEvery - 1
  /\ conc \in [Keys -> Nat]
  /\ req \in [Requests -> ReqType]
  /\ \A r \in Requests : req[r].pc = "new" <=> req[r].key = NoKey
  /\ usage \in [Keys -> [known : BOOLEAN, cost : Nat, requests : Nat]]
  /\ writer \in Requests \cup {NoRequest}
  /\ report \in [pc : {"idle", "cost", "requests", "answer"}, key : Keys \cup {NoKey},
                 fresh : BOOLEAN, read : Totals]
  /\ now \in Nat /\ arrivals \in Nat
  /\ log \in [Keys -> [Dimensions -> Seq(Charges)]]

Init ==
  /\ windows = [k \in Keys |-> [d \in Dimensions |-> EmptyWindow]]
  /\ operations = 0
  /\ conc = [k \in Keys |-> 0]
  /\ req = [r \in Requests |-> NewReq]
  /\ usage = [k \in Keys |-> [known |-> FALSE, cost |-> 0, requests |-> 0]]
  /\ writer = NoRequest
  /\ report = NoReport
  /\ now = 0 /\ arrivals = 0
  /\ log = [k \in Keys |-> [d \in Dimensions |-> <<>>]]
----------------------------------------------------------------------------

EffectivePolicyLimit(defaultMax, keyMax) ==
  IF keyMax <= 0 THEN defaultMax
  ELSE IF defaultMax <= 0 THEN keyMax
  ELSE IF keyMax < defaultMax THEN keyMax ELSE defaultMax

Limit(k, d) == EffectivePolicyLimit(Defaults[d], KeyMax[k][d])

(* Time passes; the history forgets what is older than a window. *)
Tick ==
  /\ now < MaxTime
  /\ now' = now + 1
  /\ log' = [k \in Keys |-> [d \in Dimensions |->
               SelectSeq(log[k][d], LAMBDA c : ~Expired(c.at, now'))]]
  /\ UNCHANGED <<windows, operations, conc, req, quotaVars, report, arrivals>>

(* Every CleanupEvery-th call prunes all windows and drops the empty ones. *)
CleanupExpiredWindows_All ==
  IF (operations + 1) % CleanupEvery = 0
  THEN [k \in Keys |-> [d \in Dimensions |-> EmptyWindow]]
  ELSE windows

CleanupExpiredWindows ==
  IF (operations + 1) % CleanupEvery = 0
  THEN [k \in Keys |-> [d \in Dimensions |-> Prune(windows[k][d], now)]]
  ELSE windows

Logged(k, d, n) == [log EXCEPT ![k][d] = Append(@, [at |-> now, n |-> n])]

AllowN(k, d, n, allowed) ==
  IF n <= 0 \/ Limit(k, d) <= 0
  THEN allowed /\ UNCHANGED limiterVars
  ELSE LET swept == CleanupExpiredWindows
           sw == Prune(swept[k][d], now)
       IN  /\ operations' = (operations + 1) % CleanupEvery
           /\ allowed <=> sw.total + n <= Limit(k, d)
           /\ windows' = [swept EXCEPT ![k][d] =
                            IF allowed THEN Charge(sw, n, now) ELSE sw]
           /\ log' = IF allowed THEN Logged(k, d, n) ELSE log

(* Record charges without looking at the limit. *)
Record(k, d, n) ==
  IF n <= 0 THEN UNCHANGED limiterVars
  ELSE /\ windows' = [windows EXCEPT ![k][d] = Charge(Prune(@, now), n, now)]
       /\ log' = Logged(k, d, n)
       /\ UNCHANGED operations
----------------------------------------------------------------------------

Become(r, q) == req' = [req EXCEPT ![r] = q]

(* A request of key k arrives and is counted, or refused with 429. *)
Arrive(r, k) ==
  /\ arrivals < MaxArrivals /\ arrivals' = arrivals + 1
  /\ req[r].pc = "new"
  /\ \E allowed \in BOOLEAN :
       /\ AllowN(k, "rpm", 1, allowed)
       /\ Become(r, IF allowed THEN [NewReq EXCEPT !.pc = "tpm", !.key = k]
                    ELSE NewReq)
  /\ UNCHANGED <<conc, quotaVars, report, now>>

(* With a token limit the body is read, its tokens are estimated from its  *)
(* length and charged; a body that cannot be read ends the request.        *)
Estimate(r) ==
  LET k == req[r].key
  IN  /\ req[r].pc = "tpm"
      /\ IF Limit(k, "tpm") <= 0
         THEN /\ Become(r, [req[r] EXCEPT !.pc = "slot"])
              /\ UNCHANGED limiterVars
         ELSE \/ Become(r, NewReq) /\ UNCHANGED limiterVars
              \/ \E n \in 1 .. MaxEstimate, allowed \in BOOLEAN :
                   /\ AllowN(k, "tpm", n, allowed)
                   /\ Become(r, IF allowed
                                THEN [req[r] EXCEPT !.pc = "slot", !.estimate = n]
                                ELSE NewReq)
      /\ UNCHANGED <<conc, quotaVars, report, now, arrivals>>

(* AcquireConcurrency; what has been charged stays charged if it fails. *)
AcquireConcurrency(r) ==
  LET k == req[r].key
  IN  /\ req[r].pc = "slot"
      /\ IF conc[k] >= Limit(k, "conc")
         THEN Become(r, NewReq) /\ UNCHANGED conc
         ELSE /\ Become(r, [req[r] EXCEPT !.pc = "quota"])
              /\ conc' = [conc EXCEPT ![k] = @ + 1]
      /\ UNCHANGED <<limiterVars, quotaVars, report, now, arrivals>>

(* release, which the middleware defers: the last one drops the tracker. *)
Release(r) ==
  /\ Become(r, NewReq)
  /\ conc' = [conc EXCEPT ![req[r].key] = @ - 1]
  /\ UNCHANGED <<limiterVars, quotaVars, report, now, arrivals>>
----------------------------------------------------------------------------

(* The claims of a key set its budget, or the configuration does.          *)
(* SetBudget, which would come between the two, is called nowhere.         *)
EffectiveBudget(k) == IF KeyBudget[k] > 0 THEN KeyBudget[k] ELSE DefaultBudget

(* CheckBudget takes the record of the key, or an empty one that is not in *)
(* the store, ...                                                          *)
GetUsage(r) ==
  LET k == req[r].key
  IN  /\ req[r].pc = "quota"
      /\ IF EffectiveBudget(k) <= 0
         THEN Become(r, [req[r] EXCEPT !.pc = "work"])
         ELSE /\ writer = NoRequest
              /\ Become(r, [req[r] EXCEPT !.pc = "read", !.fresh = ~usage[k].known])
      /\ UNCHANGED <<limiterVars, conc, quotaVars, report, now, arrivals>>

(* ... and compares its cost with the budget after the lock is gone. *)
Seen(r) == IF req[r].fresh THEN 0 ELSE usage[req[r].key].cost

CheckBudget_Unchecked(r) ==
  /\ req[r].pc = "read"
  /\ Become(r, [req[r] EXCEPT !.pc = "work", !.fresh = FALSE])
  /\ UNCHANGED <<limiterVars, conc, quotaVars, report, now, arrivals>>

CheckBudget(r) ==
  /\ req[r].pc = "read"
  /\ Become(r, [req[r] EXCEPT !.fresh = FALSE,
       !.pc = IF Seen(r) >= EffectiveBudget(req[r].key) THEN "settle" ELSE "work"])
  /\ UNCHANGED <<limiterVars, conc, quotaVars, report, now, arrivals>>

(* The rest of the chain returns: with a response that is paid for, or     *)
(* aborted, with an error status or with a model that has no price.        *)
Excess(k) == IF Limit(k, "tpm") > 0 THEN 0 .. MaxExcess ELSE {0}

Respond(r) ==
  /\ req[r].pc = "work"
  /\ \E excess \in Excess(req[r].key), cost \in 0 .. MaxCost[req[r].key], pc \in {"cost", "settle"} :
       Become(r, [req[r] EXCEPT !.pc = pc, !.excess = excess,
                                !.cost = IF pc = "cost" THEN cost ELSE 0])
  /\ UNCHANGED <<limiterVars, conc, quotaVars, report, now, arrivals>>

(* It panics: only the deferred release runs on the way to Recovery. *)
Panic_KeepsSlot(r) ==
  /\ req[r].pc = "work"
  /\ Become(r, NewReq)
  /\ UNCHANGED <<limiterVars, conc, quotaVars, report, now, arrivals>>

Panic(r) == req[r].pc = "work" /\ Release(r)

(* RecordUsage writes the cost, the tokens (left out) and the number of    *)
(* requests, all under the lock.                                           *)
RecordCost(r) ==
  LET k == req[r].key
  IN  /\ req[r].pc = "cost"
      /\ writer = NoRequest
      /\ writer' = r
      /\ usage' = [usage EXCEPT ![k] = [known |-> TRUE, cost |-> @.cost + req[r].cost,
                                        requests |-> @.requests]]
      /\ Become(r, [req[r] EXCEPT !.pc = "count", !.cost = 0])
      /\ UNCHANGED <<limiterVars, conc, report, now, arrivals>>

RecordCount(r) ==
  /\ req[r].pc = "count"
  /\ writer' = NoRequest
  /\ usage' = [usage EXCEPT ![req[r].key].requests = @ + 1]
  /\ Become(r, [req[r] EXCEPT !.pc = "settle"])
  /\ UNCHANGED <<limiterVars, conc, report, now, arrivals>>

(* The limiter reconciles the tokens that exceed the estimate. *)
Reconcile_Twice(r) ==
  /\ req[r].pc = "settle"
  /\ IF Limit(req[r].key, "tpm") > 0 /\ req[r].excess > 0
     THEN Record(req[r].key, "tpm", req[r].estimate + req[r].excess)
     ELSE UNCHANGED limiterVars
  /\ Become(r, [req[r] EXCEPT !.pc = "release", !.excess = 0])
  /\ UNCHANGED <<conc, quotaVars, report, now, arrivals>>

Reconcile(r) ==
  /\ req[r].pc = "settle"
  /\ IF Limit(req[r].key, "tpm") > 0 /\ req[r].excess > 0
     THEN Record(req[r].key, "tpm", req[r].excess)
     ELSE UNCHANGED limiterVars
  /\ Become(r, [req[r] EXCEPT !.pc = "release", !.excess = 0])
  /\ UNCHANGED <<conc, quotaVars, report, now, arrivals>>

Leave(r) == req[r].pc = "release" /\ Release(r)

Step(r) ==
  \/ Estimate(r) \/ AcquireConcurrency(r) \/ GetUsage(r) \/ CheckBudget(r)
  \/ Respond(r) \/ Panic(r) \/ RecordCost(r) \/ RecordCount(r)
  \/ Reconcile(r) \/ Leave(r)
----------------------------------------------------------------------------

(* getUsage of the admin API: it takes the record of a key and then reads  *)
(* one field after the other, without the lock.                            *)
AdminGetUsage(k) ==
  /\ report.pc = "idle"
  /\ writer = NoRequest
  /\ report' = [pc |-> "cost", key |-> k, fresh |-> ~usage[k].known,
                read |-> NoTotals]
  /\ UNCHANGED <<limiterVars, conc, req, quotaVars, now, arrivals>>

AdminReadCost ==
  /\ report.pc = "cost"
  /\ report' = [report EXCEPT !.pc = "requests",
       !.read.cost = IF report.fresh THEN 0 ELSE usage[report.key].cost]
  /\ UNCHANGED <<limiterVars, conc, req, quotaVars, now, arrivals>>

AdminReadRequests ==
  /\ report.pc = "requests"
  /\ report' = [report EXCEPT !.pc = "answer",
       !.read.requests = IF report.fresh THEN 0 ELSE usage[report.key].requests]
  /\ UNCHANGED <<limiterVars, conc, req, quotaVars, now, arrivals>>

AdminAnswer ==
  /\ report.pc = "answer"
  /\ report' = NoReport
  /\ UNCHANGED <<limiterVars, conc, req, quotaVars, now, arrivals>>

Next ==
  \/ Tick
  \/ \E r \in Requests : Step(r) \/ \E k \in Keys : Arrive(r, k)
  \/ AdminReadCost \/ AdminReadRequests \/ AdminAnswer
  \/ \E k \in Queried : AdminGetUsage(k)

Spec == Init /\ [][Next]_vars
----------------------------------------------------------------------------

Of(k, S) == {r \in Requests : req[r].key = k /\ req[r].pc \in S}

(* A key never has more requests in progress than its concurrency limit,   *)
(* and its tracker counts exactly those: no panic, refusal or error leaks  *)
(* a slot, and no release gives one back twice.                            *)
SlotsExact ==
  \A k \in Keys :
    /\ conc[k] = Cardinality(Of(k, Holding))
    /\ conc[k] <= Limit(k, "conc")

(* The total a window is judged by is the sum of what was charged in the   *)
(* last Window, through lazy pruning, compaction and the clean-up of idle  *)
(* keys, and so is what is charged by requests that were refused later.    *)
WindowExact ==
  \A k \in Keys, d \in Dimensions :
    Prune(windows[k][d], now).total = SumOf(log[k][d])

(* No period of length Window sees more requests of a key than its RPM,    *)
(* however they fall on the boundaries of minutes.  Its tokens exceed the  *)
(* limit only by what requests needed beyond their estimates that were     *)
(* past the check at the same time: a window that is over its limit lets   *)
(* no further request in.                                                  *)
RatesBounded ==
  \A k \in Keys :
    /\ SumOf(log[k]["rpm"]) <= Limit(k, "rpm")
    /\ Limit(k, "tpm") > 0 =>
         SumOf(log[k]["tpm"]) + MaxExcess * Cardinality(Of(k, Unsettled))
           <= Limit(k, "tpm") + MaxExcess * Cardinality(Requests)

(* The budget is checked before and charged after a request, so requests   *)
(* in flight overshoot it; but they hold a slot meanwhile, so a key spends *)
(* less than its budget plus one request for each of its slots.            *)
BudgetOvershootBounded ==
  \A k \in Keys : EffectiveBudget(k) > 0 =>
    usage[k].cost < EffectiveBudget(k) + MaxCost[k] * Limit(k, "conc")
=============================================================================
