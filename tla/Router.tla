------------------------------- MODULE Router -------------------------------
(***************************************************************************)
(* The router's loop over one chat request (routerWithTable, Route,        *)
(* hasUnusedCandidate), with the attempts it makes through the inner chain *)
(* (KMS, Adapter, Proxy) and the circuit breakers all requests share.      *)
(*                                                                         *)
(* Route holds only a read lock, so other requests settle their leases     *)
(* between any two of its breaker accesses: reading one breaker's state,   *)
(* AcquireClosed and AllowProbe are steps of their own.  An attempt ends   *)
(* in one step: what the proxy saw, the settlement of the lease and the    *)
(* decision to return or to go round again use the request's own state and *)
(* one call on one breaker.                                                *)
(***************************************************************************)
EXTENDS Breaker, FiniteSets

CONSTANTS
  Requests,      \* the goroutines that serve requests
  Channels,      \* the enabled provider channels
  NoChannel,     \* no channel is selected
  Models,        \* the models a request may ask for
  Serves,        \* Serves[c]: the models channel c supports
  Priority,      \* Priority[c]: smaller is better
  Rank,          \* Rank[c]: the place of c in the configuration
  MaxTime        \* bound of the clock

ASSUME RouterAssumption ==
  /\ NoChannel \notin Channels
  /\ IsFiniteSet(Channels)
  /\ Serves \in [Channels -> SUBSET Models]
  /\ Priority \in [Channels -> Nat]
  /\ Rank \in [Channels -> Nat]
  /\ \A c, d \in Channels : Rank[c] = Rank[d] => c = d
  /\ MaxTime \in Nat

VARIABLES
  breaker,       \* breaker[c]: the circuitBreaker of channel c
  req,           \* req[r]: the RequestContext and the locals of the loop
  now,           \* the clock, in ticks
  failedAt,      \* history, per channel: failedAt of CircuitBreaker
  fresh,         \* history, per channel: fresh of CircuitBreaker
  healthy        \* history: healthy[r], candidates closed since Route began

vars == <<breaker, req, now, failedAt, fresh, healthy>>

(* What a client can receive.  The provider's answers are ok, client (a    *)
(* 4xx other than 429) and retry (429 or 5xx), in full or cut short; local *)
(* is any abort of the gateway before a provider was contacted.            *)
ProviderStatus == {"ok", "client", "retry"}

ReplyType ==
  [status : ProviderStatus \cup {"none", "local", "500", "502", "503"},
   body : {"none", "full", "cut", "error"}]

NoReply == [status |-> "none", body |-> "none"]

Gateway(status) == [status |-> status, body |-> "error"]

(* What Dispatch returns: the provider's status (none: no result), its     *)
(* error, whether the header was written, and whether the body is more     *)
(* than a capture holds.                                                   *)
NoResult ==
  {[status |-> "none", err |-> e, head |-> FALSE, over |-> FALSE] :
     e \in {"transport", "other"}}

(* Only the transformation of a 200 can fail before the header is written. *)
Results ==
  {o \in [status : ProviderStatus, err : {"none", "read", "other"},
          head : BOOLEAN, over : BOOLEAN] :
     ~o.head => o.status = "ok" /\ o.err # "none" /\ ~o.over}

Outcomes == NoResult \cup Results

ReqType ==
  [pc : {"new", "scan", "acquire", "probe", "unused", "attempt", "done"},
   model : Models, streaming : BOOLEAN,
   tried : SUBSET Channels, todo : SUBSET Channels, closed : SUBSET Channels,
   channel : Channels \cup {NoChannel}, lease : LeaseType,
   canFallback : BOOLEAN, responded : BOOLEAN, failure : BOOLEAN,
   retryable : BOOLEAN, reply : ReplyType]

(* Breakers, requests and histories have their types. *)
TypeOK ==
  /\ breaker \in [Channels -> BreakerType]
  /\ req \in [Requests -> ReqType]
  /\ now \in Nat
  /\ failedAt \in [Channels -> Nat]
  /\ fresh \in [Channels -> SUBSET Requests]
  /\ healthy \in [Requests -> SUBSET Channels]

NewReq(model, streaming) ==
  [pc |-> "new", model |-> model, streaming |-> streaming,
   tried |-> {}, todo |-> {}, closed |-> {},
   channel |-> NoChannel, lease |-> NoLease,
   canFallback |-> FALSE, responded |-> FALSE, failure |-> FALSE,
   retryable |-> FALSE, reply |-> NoReply]

Init ==
  /\ breaker = [c \in Channels |-> NewBreaker]
  /\ req \in [Requests -> {NewReq(m, s) : m \in Models, s \in BOOLEAN}]
  /\ now = 0
  /\ failedAt = [c \in Channels |-> 0]
  /\ fresh = [c \in Channels |-> {}]
  /\ healthy = [r \in Requests |-> {}]
----------------------------------------------------------------------------

(* The channels Route may still choose. *)
Candidates(q) == {c \in Channels : q.model \in Serves[c] /\ c \notin q.tried}

(* The order of the stable sort by priority, and the next in it. *)
Before_Descending(c, d) ==
  \/ Priority[c] > Priority[d]
  \/ Priority[c] = Priority[d] /\ Rank[c] < Rank[d]

Before(c, d) ==
  \/ Priority[c] < Priority[d]
  \/ Priority[c] = Priority[d] /\ Rank[c] < Rank[d]

First(S) == CHOOSE c \in S : \A d \in S \ {c} : Before(c, d)

LastOfGroup(c, rest) == \A d \in rest : Priority[d] # Priority[c]

(* Route begins, goes on to the next priority group, or to the probes. *)
Routing == {"scan", "acquire", "probe"}

NextGroup(q, rest) ==
  IF rest = {}
  THEN [q EXCEPT !.pc = "probe", !.todo = Candidates(q), !.closed = {}]
  ELSE [q EXCEPT !.pc = "scan", !.todo = rest, !.closed = {}]

StartRoute(q) == NextGroup([q EXCEPT !.lease = NoLease], Candidates(q))

(* ServeHTTP is done with the context. *)
Answer(q, reply) ==
  [NewReq(q.model, q.streaming) EXCEPT !.pc = "done", !.reply = reply]

(* The history of a step that leaves request r as q: the candidates that   *)
(* have been closed all through the running Route of each request.         *)
Watch(r, q) ==
  healthy' = [s \in Requests |->
    LET begins == s = r /\ q.pc \in Routing /\ req[s].pc \notin Routing
        known == IF begins THEN Candidates(q) ELSE healthy[s]
        routing == IF s = r THEN q.pc \in Routing ELSE req[s].pc \in Routing
    IN  {c \in known : routing /\ breaker'[c].state = Closed}]

Become(r, q) ==
  /\ req' = [req EXCEPT ![r] = q]
  /\ Watch(r, q)

Tick ==
  /\ now < MaxTime
  /\ now' = now + 1
  /\ UNCHANGED <<breaker, req, failedAt, fresh, healthy>>

(* The request reaches the router and is refused there (its body, its      *)
(* model field, its key's permissions), or starts the loop.                *)
Arrive(r) ==
  /\ req[r].pc = "new"
  /\ UNCHANGED <<breaker, now, failedAt, fresh>>
  /\ \/ Become(r, Answer(req[r], Gateway("local")))
     \/ Become(r, StartRoute(req[r]))

(* One read of a breaker's state while Route collects the closed channels  *)
(* of a priority group.                                                    *)
Scan(r) ==
  LET q == req[r]
      c == First(q.todo)
      rest == q.todo \ {c}
      closed == q.closed \cup {d \in {c} : breaker[d].state = Closed}
  IN  /\ q.pc = "scan"
      /\ UNCHANGED <<breaker, now, failedAt, fresh>>
      /\ Become(r,
           IF ~LastOfGroup(c, rest)
           THEN [q EXCEPT !.todo = rest, !.closed = closed]
           ELSE IF closed = {}
           THEN NextGroup(q, rest)
           ELSE [q EXCEPT !.pc = "acquire", !.todo = rest, !.closed = closed])

(* ResetAttempt, for the fields that steer the loop. *)
ResetAttempt_KeepsOutcome(q) == [q EXCEPT !.canFallback = FALSE, !.retryable = FALSE]

ResetAttempt(q) ==
  [q EXCEPT !.canFallback = FALSE, !.retryable = FALSE,
            !.responded = FALSE, !.failure = FALSE]

(* Route has returned channel c; what the loop does before next().  A      *)
(* streaming request does not look for a fallback.                         *)
Select(q, c, lease) ==
  LET p == [ResetAttempt(q) EXCEPT !.tried = @ \cup {c}, !.closed = {},
                                   !.channel = c, !.lease = lease]
  IN  IF p.streaming
      THEN [p EXCEPT !.pc = "attempt", !.todo = {}]
      ELSE [p EXCEPT !.pc = "unused", !.todo = Candidates(p)]

(* What pickWeighted may return: every weight counts as positive, and      *)
(* without randomness it is the first.                                     *)
PickWeighted(closed) == closed

(* AcquireClosed on the channel picked.  If that has opened meanwhile      *)
(* Route leaves the whole group.                                           *)
Acquire(r) ==
  /\ req[r].pc = "acquire"
  /\ \E c \in PickWeighted(req[r].closed) :
       IF CanAcquire(breaker[c])
       THEN /\ fresh' = [fresh EXCEPT ![c] = @ \cup {r}]
            /\ UNCHANGED <<breaker, now, failedAt>>
            /\ Become(r, Select(req[r], c, ClosedLease(breaker[c])))
       ELSE /\ UNCHANGED <<breaker, now, failedAt, fresh>>
            /\ Become(r, NextGroup(req[r], req[r].todo))

(* AllowProbe on the next candidate: a lease, or the one after it. *)
Probe_Stays(r) ==
  LET c == First(req[r].todo)
  IN  /\ req[r].pc = "probe"
      /\ req[r].todo # {}
      /\ IF CanProbe(breaker[c], now)
         THEN /\ breaker' = [breaker EXCEPT ![c] = AfterProbe(@)]
              /\ fresh' = [fresh EXCEPT ![c] = {r}]
              /\ UNCHANGED <<now, failedAt>>
              /\ Become(r, Select(req[r], c, ProbeLease(breaker[c])))
         ELSE UNCHANGED vars

Probe(r) ==
  LET c == First(req[r].todo)
  IN  /\ req[r].pc = "probe"
      /\ req[r].todo # {}
      /\ IF CanProbe(breaker[c], now)
         THEN /\ breaker' = [breaker EXCEPT ![c] = AfterProbe(@)]
              /\ fresh' = [fresh EXCEPT ![c] = {r}]
              /\ UNCHANGED <<now, failedAt>>
              /\ Become(r, Select(req[r], c, ProbeLease(breaker[c])))
         ELSE /\ UNCHANGED <<breaker, now, failedAt, fresh>>
              /\ Become(r, [req[r] EXCEPT !.todo = @ \ {c}])

(* Route returns nil. *)
NoRoute(r) ==
  /\ req[r].pc = "probe"
  /\ req[r].todo = {}
  /\ UNCHANGED <<breaker, now, failedAt, fresh>>
  /\ Become(r, Answer(req[r],
       Gateway(IF req[r].tried = {} THEN "503" ELSE "502")))

(* hasUnusedCandidate looks at one breaker, or has looked at all. *)
Usable(b) == CanAcquire(b) \/ CanProbe(b, now)

LookForUnused(r) ==
  LET q == req[r]
      c == CHOOSE d \in q.todo : \A e \in q.todo : Rank[d] <= Rank[e]
  IN  /\ q.pc = "unused"
      /\ UNCHANGED <<breaker, now, failedAt, fresh>>
      /\ Become(r,
           IF q.todo = {}
           THEN [q EXCEPT !.pc = "attempt"]
           ELSE IF Usable(breaker[c])
           THEN [q EXCEPT !.pc = "attempt", !.todo = {}, !.canFallback = TRUE]
           ELSE [q EXCEPT !.todo = @ \ {c}])
----------------------------------------------------------------------------

(* settleProviderLease: the breaker once the lease of q is settled. *)
Settled_ForgetsProbe(q, b) ==
  IF q.failure THEN AfterFailure(b, q.lease, now)
  ELSE IF q.responded THEN AfterSuccess(b, q.lease)
  ELSE b

Settled(q, b) ==
  IF q.failure THEN AfterFailure(b, q.lease, now)
  ELSE IF q.responded THEN AfterSuccess(b, q.lease)
  ELSE IF q.lease.probe THEN AfterRelease(b, q.lease)
  ELSE b

(* The attempt of request r ends with its context as q: the lease is       *)
(* settled, and the loop returns or, when the attempt may be retried,      *)
(* routes again.                                                           *)
EndAttempt(r, q) ==
  LET c == q.channel
      b == Settled(q, breaker[c])
  IN  /\ breaker' = [breaker EXCEPT ![c] = b]
      /\ failedAt' = IF q.failure /\ b # breaker[c]
                     THEN [failedAt EXCEPT ![c] = now] ELSE failedAt
      /\ fresh' = [fresh EXCEPT ![c] =
                     IF b.state = breaker[c].state THEN @ \ {r} ELSE {}]
      /\ UNCHANGED now
      /\ Become(r, IF q.retryable
                   THEN StartRoute([q EXCEPT !.channel = NoChannel])
                   ELSE Answer(q, q.reply))

(* KMS, Adapter or Proxy aborts before the provider is contacted. *)
LocalFailure(r) ==
  /\ req[r].pc = "attempt"
  /\ EndAttempt(r, [req[r] EXCEPT !.reply = Gateway("local")])

(* The inner chain panics: the deferred settlement runs, and Recovery      *)
(* answers with 500 unless a stream had already begun.                     *)
Panic(r) ==
  /\ req[r].pc = "attempt"
  /\ \/ EndAttempt(r, [req[r] EXCEPT !.reply = Gateway("500")])
     \/ /\ req[r].streaming
        /\ EndAttempt(r, [req[r] EXCEPT
             !.reply = [status |-> "ok", body |-> "cut"]])

(* What a capture hands on when it is flushed: its status starts as 200. *)
Flushed(o) ==
  [status |-> IF o.head THEN o.status ELSE "ok",
   body |-> IF ~o.head THEN "none"
            ELSE IF o.err # "none" \/ o.over THEN "cut" ELSE "full"]

(* Proxy, once Dispatch has returned o.  With a fallback at hand the       *)
(* response was captured, and a retryable one is dropped.  Without one it  *)
(* went straight to the client, and if nothing did the pipeline's end of   *)
(* chain answers with 500.                                                 *)
Proxied(q, o) ==
  LET captured == q.canFallback /\ ~q.streaming
      again == /\ captured
               /\ IF o.err = "none"
                  THEN o.status = "retry" /\ ~o.over
                  ELSE o.err = "transport" \/ o.status = "retry"
  IN  [q EXCEPT
        !.responded = @ \/ o.status # "none",
        !.failure = IF o.status = "none" THEN @ \/ o.err = "transport"
                    ELSE o.status = "retry" \/ o.err = "read",
        !.retryable = again,
        !.reply = IF again THEN NoReply
                  ELSE IF o.status = "none" THEN Gateway("502")
                  ELSE IF captured \/ o.head THEN Flushed(o)
                  ELSE Gateway("500")]

Dispatch(r, o) ==
  /\ req[r].pc = "attempt"
  /\ o.over => req[r].canFallback
  /\ req[r].streaming => o.head \/ o.status = "none"
  /\ EndAttempt(r, Proxied(req[r], o))

Step(r) ==
  \/ Arrive(r) \/ Scan(r) \/ Acquire(r) \/ Probe(r) \/ NoRoute(r)
  \/ LookForUnused(r) \/ LocalFailure(r) \/ Panic(r)
  \/ \E o \in Outcomes : Dispatch(r, o)

(* Every request has been answered. *)
Finished == (\A r \in Requests : req[r].pc = "done") /\ UNCHANGED vars

Next ==
  \/ Tick
  \/ \E r \in Requests : Step(r)
  \/ Finished

Spec == Init /\ [][Next]_vars

(* A request's goroutine runs, and a dispatch ends: the engine bounds it   *)
(* by StreamTimeout.                                                       *)
FairSpec == Spec /\ \A r \in Requests : WF_vars(Step(r))
----------------------------------------------------------------------------

(* The leases of channel c, as CircuitBreaker sees them. *)
Leases(c) ==
  [r \in Requests |-> IF req[r].channel = c THEN req[r].lease ELSE NoLease]

Channel(c) == INSTANCE CircuitBreaker
                WITH breaker <- breaker[c], lease <- Leases(c),
                     failedAt <- failedAt[c], fresh <- fresh[c]

(* The router uses every channel's breaker as CircuitBreaker says: a lease *)
(* is taken through AcquireClosed or AllowProbe, settled exactly once and  *)
(* against the channel it came from, on every way an attempt can end.  All *)
(* that is proved of CircuitBreaker then holds of each channel.  (This is  *)
(* \A c \in Channels : Channel(c)!Spec, with the quantifier inside.)       *)
BreakersImplement ==
  /\ \A c \in Channels : Channel(c)!Init
  /\ [][ \A c \in Channels : [Channel(c)!Next]_(Channel(c)!vars) ]_vars

(* When Route returns, no candidate that has been closed since it began is *)
(* better than what it returns: it neither answers "no available provider" *)
(* nor probes an open provider while one is healthy, nor does it prefer a  *)
(* worse priority.                                                         *)
BestAvailable ==
  [][ \A r \in Requests :
        req[r].pc \in Routing /\ req'[r].pc \notin Routing =>
          \A c \in healthy[r] :
            /\ req'[r].pc # "done"
            /\ ~req'[r].lease.probe
            /\ Priority[req'[r].channel] <= Priority[c] ]_vars

(* The failure count of a breaker goes up only in a step in which the      *)
(* proxy saw this provider fail: an error status, a transport error, or a  *)
(* response that could not be read or transformed.  A failure of the       *)
(* gateway, of an earlier attempt or of another provider never counts.     *)
HealthFromProviderOnly ==
  [][ \A c \in Channels :
        breaker'[c].failures > breaker[c].failures =>
          \E r \in Requests : \E o \in Outcomes :
            /\ o.status = "retry" \/ o.err \in {"transport", "read"}
            /\ req[r].channel = c
            /\ Dispatch(r, o) ]_vars

(* Every request is answered: the loop of attempts ends, whatever other    *)
(* requests do to the breakers meanwhile.                                  *)
Answered == \A r \in Requests : req[r].pc # "new" ~> req[r].pc = "done"

(* A provider on probation is released by the request that probes it, also *)
(* when that request aborts, panics or loses its provider.                 *)
ProbesResolve ==
  \A c \in Channels : breaker[c].state = HalfOpen ~> breaker[c].state # HalfOpen

(* "A middleware chain that reaches its terminal boundary without          *)
(* producing a response fails closed with 500", says                       *)
(* docs/module-boundaries.md.  A capture that received nothing is flushed  *)
(* as a 200 with an empty body.                                            *)
NoEmptySuccess == \A r \in Requests : req[r].reply.body = "none" => req[r].reply.status # "ok"
=============================================================================
