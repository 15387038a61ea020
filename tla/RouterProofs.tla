---------------------------- MODULE RouterProofs ----------------------------
(***************************************************************************)
(* The router for any number of requests, channels and models: it uses     *)
(* every channel's breaker as CircuitBreaker says, only what a provider    *)
(* did counts against it, and with one channel to a priority Route returns *)
(* the best channel that was healthy while it ran.                         *)
(*                                                                         *)
(* The first two rest on ContextInv: a request holds a lease exactly       *)
(* between Route's return and the end of the attempt, on the channel it    *)
(* selected, and an attempt starts without the outcome of an earlier one.  *)
(* The last rests on SearchInv: what Route has not looked at yet, or has   *)
(* picked, includes every channel that has been closed since it began.     *)
(***************************************************************************)
EXTENDS Router, WellFoundedInduction, TLAPS

(* The context holds a lease of its channel from Select to EndAttempt, and *)
(* none at any other time; an attempt starts with a clean outcome.         *)
Context(q) ==
  /\ q.pc \in {"unused", "attempt"} =>
       q.channel \in Channels /\ q.lease.held /\ ~q.failure /\ ~q.responded
  /\ q.pc \notin {"unused", "attempt"} => q.channel = NoChannel /\ q.lease = NoLease
  /\ q.pc = "scan" => q.todo # {}

ContextInv == \A r \in Requests : Context(req[r])

IInv == TypeOK /\ ContextInv

(* One channel to a priority. *)
DistinctPriorities == \A c, d \in Channels : Priority[c] = Priority[d] => c = d

(* What Route of context q still knows of the channels H that have been    *)
(* closed all the time: they are still to be scanned, or picked, and what  *)
(* is picked is before everything that is still to be scanned.             *)
Search(q, H) ==
  /\ q.pc \notin {"scan", "acquire"} => H = {}
  /\ q.pc = "scan" => q.closed = {} /\ H \subseteq q.todo
  /\ q.pc = "acquire" =>
       \A c \in q.closed :
         /\ H \subseteq q.todo \cup {c}
         /\ \A d \in q.todo : Priority[c] <= Priority[d]

SearchInv ==
  \A r \in Requests :
    /\ Search(req[r], healthy[r])
    /\ \A c \in healthy[r] : breaker[c].state = Closed
----------------------------------------------------------------------------

(* A nonempty set of numbers has a least one. *)
LEMMA Least ==
  ASSUME NEW T \in SUBSET Nat, T # {}
  PROVE  \E n \in T : \A m \in T : n <= m
<1> DEFINE R == OpToRel(<, Nat)
<1>1. IsWellFoundedOn(R, Nat)
  BY NatLessThanWellFounded, ZenonT(60)
<1>2. \A m, n \in Nat : <<m, n>> \in R <=> m < n
  BY DEF OpToRel
<1> HIDE DEF R
<1>3. PICK n \in T : \A m \in T : ~(<<m, n>> \in R)
  BY <1>1, WFMin, ZenonT(60)
<1>4. \A m \in T : ~(m < n)
  BY <1>2, <1>3, Zenon
<1> QED
  BY <1>4

(* A key that is a number is least somewhere in a nonempty set. *)
LEMMA LeastBy ==
  ASSUME NEW S, S # {}, NEW f, \A c \in S : f[c] \in Nat
  PROVE  \E c \in S : \A d \in S : f[c] <= f[d]
<1> DEFINE T == {f[c] : c \in S}
<1>1. T \in SUBSET Nat /\ T # {}
  OBVIOUS
<1>2. PICK n \in T : \A m \in T : n <= m
  BY <1>1, Least, Zenon
<1>3. PICK c \in S : f[c] = n
  BY <1>2
<1> QED
  BY <1>2, <1>3

(* The stable sort has a first channel: the least rank among those of the  *)
(* least priority.                                                         *)
LEMMA FirstIsFirst ==
  ASSUME NEW S \in SUBSET Channels, S # {}
  PROVE  /\ First(S) \in S
         /\ \A d \in S \ {First(S)} : Before(First(S), d)
<1>1. /\ \A c \in S : Priority[c] \in Nat /\ Rank[c] \in Nat
      /\ \A c, d \in S : Rank[c] = Rank[d] => c = d
  BY RouterAssumption
<1>2. PICK p \in S : \A d \in S : Priority[p] <= Priority[d]
  BY <1>1, LeastBy
<1> DEFINE G == {c \in S : Priority[c] = Priority[p]}
<1>3. PICK c \in G : \A d \in G : Rank[c] <= Rank[d]
  <2>1. G # {} /\ \A d \in G : Rank[d] \in Nat
    BY <1>1, <1>2
  <2> HIDE DEF G
  <2> QED
    BY <2>1, LeastBy
<1>4. \A d \in S \ {c} : Before(c, d)
  <2> SUFFICES ASSUME NEW d \in S \ {c} PROVE Before(c, d)
    OBVIOUS
  <2>1. CASE d \in G
    BY <1>1, <1>3, <2>1 DEF Before
  <2>2. CASE d \notin G
    BY <1>1, <1>2, <1>3, <2>2 DEF Before
  <2> QED
    BY <2>1, <2>2
<1>5. c \in S
  BY <1>3
<1> QED
  BY <1>4, <1>5, Zenon DEF First

(* The first channel has the least priority. *)
LEMMA FirstIsBest ==
  ASSUME NEW S \in SUBSET Channels, S # {}
  PROVE  /\ First(S) \in S
         /\ \A d \in S : Priority[First(S)] <= Priority[d]
<1>1. /\ First(S) \in S
      /\ \A d \in S \ {First(S)} : Before(First(S), d)
  BY FirstIsFirst
<1>2. \A d \in S : Priority[d] \in Nat
  BY RouterAssumption
<1> QED
  BY <1>1, <1>2 DEF Before
----------------------------------------------------------------------------

(* A lease, a fresh one or none, has its type. *)
LEMMA LeaseTypes ==
  /\ NoLease \in LeaseType /\ ~NoLease.held /\ ~NoLease.probe
  /\ \A b \in BreakerType :
       /\ ClosedLease(b) \in LeaseType /\ ClosedLease(b).held /\ ~ClosedLease(b).probe
       /\ ProbeLease(b) \in LeaseType /\ ProbeLease(b).held
<1>1. NoLease \in LeaseType /\ ~NoLease.held /\ ~NoLease.probe
  BY DEF NoLease, LeaseType
<1>2. ASSUME NEW b \in BreakerType
      PROVE  /\ ClosedLease(b) \in LeaseType /\ ClosedLease(b).held /\ ~ClosedLease(b).probe
             /\ ProbeLease(b) \in LeaseType /\ ProbeLease(b).held
  BY DEF BreakerType, ClosedLease, ProbeLease, LeaseType
<1> QED
  BY <1>1, <1>2

(* Unix() of a natural number is one. *)
LEMMA UnixType == ASSUME NEW t \in Nat PROVE Unix(t) \in Nat
  BY BreakerAssumption DEF Unix

(* Every method of the breaker returns a breaker, and so does the          *)
(* settlement of a lease.                                                  *)
LEMMA MethodTypes ==
  ASSUME NEW b \in BreakerType, NEW l \in LeaseType, NEW t \in Nat
  PROVE  /\ AfterProbe(b) \in BreakerType
         /\ AfterFailure(b, l, t) \in BreakerType
         /\ AfterSuccess(b, l) \in BreakerType
         /\ AfterRelease(b, l) \in BreakerType
<1>1. AfterProbe(b) \in BreakerType
  BY DEF AfterProbe, BreakerType, States
<1>2. AfterFailure(b, l, t) \in BreakerType
  BY UnixType, BreakerAssumption
  DEF AfterFailure, ProbeFailed, FailureCounted, BreakerType, States
<1>3. AfterSuccess(b, l) \in BreakerType
  BY DEF AfterSuccess, ProbeSucceeded, BreakerType, States
<1>4. AfterRelease(b, l) \in BreakerType
  BY DEF AfterRelease, BreakerType, States
<1> QED
  BY <1>1, <1>2, <1>3, <1>4

(* Success and release never add a failure. *)
LEMMA FailuresNotAdded ==
  ASSUME NEW b \in BreakerType, NEW l \in LeaseType
  PROVE  /\ AfterSuccess(b, l).failures <= b.failures
         /\ AfterRelease(b, l).failures = b.failures
         /\ AfterProbe(b).failures = b.failures
  BY DEF AfterSuccess, ProbeSucceeded, AfterRelease, AfterProbe, BreakerType

(* Nobody's answer is a reply. *)
LEMMA ReplyTypes ==
  /\ NoReply \in ReplyType
  /\ \A s \in {"local", "500", "502", "503"} : Gateway(s) \in ReplyType
  BY DEF NoReply, Gateway, ReplyType, ProviderStatus

(* The context a request starts with. *)
LEMMA NewReqType ==
  ASSUME NEW m \in Models, NEW s \in BOOLEAN
  PROVE  NewReq(m, s) \in ReqType /\ Context(NewReq(m, s))
<1>1. NewReq(m, s) \in ReqType
  BY LeaseTypes, ReplyTypes, ZenonT(60) DEF NewReq, ReqType
<1>2. /\ NewReq(m, s).pc = "new" /\ NewReq(m, s).channel = NoChannel
      /\ NewReq(m, s).lease = NoLease
  BY DEF NewReq
<1> QED
  BY <1>1, <1>2 DEF Context

(* Route goes on to a group, or to the probes. *)
LEMMA NextGroupType ==
  ASSUME NEW q \in ReqType, q.channel = NoChannel, q.lease = NoLease,
         NEW rest \in SUBSET Channels
  PROVE  /\ NextGroup(q, rest) \in ReqType /\ Context(NextGroup(q, rest))
         /\ NextGroup(q, rest).channel = NoChannel
         /\ NextGroup(q, rest).lease = NoLease
         /\ NextGroup(q, rest).closed = {}
         /\ Candidates(NextGroup(q, rest)) = Candidates(q)
         /\ rest = {} => NextGroup(q, rest).pc = "probe"
         /\ rest # {} => NextGroup(q, rest).pc = "scan" /\ NextGroup(q, rest).todo = rest
<1>1. Candidates(q) \in SUBSET Channels
  BY DEF Candidates
<1>2. NextGroup(q, rest) \in ReqType
  BY <1>1, ZenonT(60) DEF NextGroup, ReqType
<1>3. /\ NextGroup(q, rest).channel = NoChannel
      /\ NextGroup(q, rest).lease = NoLease
      /\ NextGroup(q, rest).closed = {}
      /\ NextGroup(q, rest).model = q.model
      /\ NextGroup(q, rest).tried = q.tried
      /\ rest = {} => NextGroup(q, rest).pc = "probe"
      /\ rest # {} => NextGroup(q, rest).pc = "scan" /\ NextGroup(q, rest).todo = rest
  BY DEF NextGroup, ReqType
<1> QED
  BY <1>2, <1>3 DEF Context, Candidates

(* Route begins, on a context that has no channel. *)
LEMMA StartRouteType ==
  ASSUME NEW q \in ReqType, q.channel = NoChannel
  PROVE  /\ StartRoute(q) \in ReqType /\ Context(StartRoute(q))
         /\ StartRoute(q).channel = NoChannel
         /\ StartRoute(q).lease = NoLease
         /\ StartRoute(q).closed = {}
         /\ Candidates(StartRoute(q)) = Candidates(q)
         /\ Candidates(q) = {} => StartRoute(q).pc = "probe"
         /\ Candidates(q) # {} =>
              StartRoute(q).pc = "scan" /\ StartRoute(q).todo = Candidates(q)
<1> DEFINE p == [q EXCEPT !.lease = NoLease]
<1>1. p \in ReqType
  BY LeaseTypes DEF ReqType
<1>2. /\ p.channel = NoChannel /\ p.lease = NoLease
      /\ p.model = q.model /\ p.tried = q.tried
  BY DEF ReqType
<1>3. Candidates(p) = Candidates(q) /\ Candidates(q) \in SUBSET Channels
  BY <1>2 DEF Candidates
<1>4. StartRoute(q) = NextGroup(p, Candidates(q))
  BY DEF StartRoute
<1> HIDE DEF p
<1> QED
  BY <1>1, <1>2, <1>3, <1>4, NextGroupType

(* The context of a request that has been answered. *)
LEMMA AnswerType ==
  ASSUME NEW q \in ReqType, NEW reply \in ReplyType
  PROVE  /\ Answer(q, reply) \in ReqType /\ Context(Answer(q, reply))
         /\ Answer(q, reply).pc = "done"
         /\ Answer(q, reply).channel = NoChannel
         /\ Answer(q, reply).lease = NoLease
<1> DEFINE n == NewReq(q.model, q.streaming)
<1>1. n \in ReqType
  BY NewReqType DEF ReqType
<1>2. n.channel = NoChannel /\ n.lease = NoLease
  BY DEF NewReq
<1> HIDE DEF n
<1>3. Answer(q, reply) = [n EXCEPT !.pc = "done", !.reply = reply]
  BY DEF Answer, n
<1>4. Answer(q, reply) \in ReqType
  BY <1>1, <1>3, ZenonT(60) DEF ReqType
<1>5. /\ Answer(q, reply).pc = "done"
      /\ Answer(q, reply).channel = NoChannel
      /\ Answer(q, reply).lease = NoLease
  BY <1>1, <1>2, <1>3 DEF ReqType
<1> QED
  BY <1>4, <1>5 DEF Context

(* The context Route's choice leaves: the outcome of an earlier attempt is *)
(* gone and the channel has the lease.                                     *)
LEMMA SelectType ==
  ASSUME NEW q \in ReqType, NEW c \in Channels, NEW l \in LeaseType, l.held
  PROVE  /\ Select(q, c, l) \in ReqType /\ Context(Select(q, c, l))
         /\ Select(q, c, l).pc \in {"unused", "attempt"}
         /\ Select(q, c, l).channel = c
         /\ Select(q, c, l).lease = l
<1> DEFINE p == [ResetAttempt(q) EXCEPT !.tried = @ \cup {c}, !.closed = {},
                                        !.channel = c, !.lease = l]
<1>1. ResetAttempt(q) \in ReqType
  BY ZenonT(60) DEF ResetAttempt, ReqType
<1>2. ~ResetAttempt(q).responded /\ ~ResetAttempt(q).failure
  BY DEF ResetAttempt, ReqType
<1>3. p \in ReqType
  BY <1>1, ZenonT(60) DEF ReqType
<1>4. p.channel = c /\ p.lease = l /\ ~p.responded /\ ~p.failure
  BY <1>1, <1>2 DEF ReqType
<1>5. Candidates(p) \in SUBSET Channels
  BY DEF Candidates
<1>6. Select(q, c, l) = IF p.streaming
                        THEN [p EXCEPT !.pc = "attempt", !.todo = {}]
                        ELSE [p EXCEPT !.pc = "unused", !.todo = Candidates(p)]
  BY DEF Select
<1> HIDE DEF p
<1>7. Select(q, c, l) \in ReqType
  <2>1. [p EXCEPT !.pc = "attempt", !.todo = {}] \in ReqType
    BY <1>3, ZenonT(60) DEF ReqType
  <2>2. [p EXCEPT !.pc = "unused", !.todo = Candidates(p)] \in ReqType
    BY <1>3, <1>5, ZenonT(60) DEF ReqType
  <2> QED
    BY <1>6, <2>1, <2>2
<1>8. /\ Select(q, c, l).pc \in {"unused", "attempt"}
      /\ Select(q, c, l).channel = c
      /\ Select(q, c, l).lease = l
      /\ ~Select(q, c, l).responded /\ ~Select(q, c, l).failure
  BY <1>3, <1>4, <1>6 DEF ReqType
<1> QED
  BY <1>7, <1>8 DEF Context

(* The proxy's classification leaves channel and lease alone, and counts a *)
(* failure only if the provider failed.                                    *)
LEMMA ProxiedType ==
  ASSUME NEW q \in ReqType, NEW o \in Outcomes
  PROVE  /\ Proxied(q, o) \in ReqType
         /\ Proxied(q, o).channel = q.channel
         /\ Proxied(q, o).lease = q.lease
         /\ Proxied(q, o).failure /\ ~q.failure =>
              o.status = "retry" \/ o.err \in {"transport", "read"}
<1>1. /\ o.status \in ProviderStatus \cup {"none"}
      /\ o.err \in {"none", "read", "other", "transport"}
      /\ o.head \in BOOLEAN /\ o.over \in BOOLEAN
  <2>1. CASE o \in NoResult
    <3>1. PICK e \in {"transport", "other"} :
            o = [status |-> "none", err |-> e, head |-> FALSE, over |-> FALSE]
      BY <2>1 DEF NoResult
    <3> QED
      BY <3>1
  <2>2. CASE o \in Results
    BY <2>2 DEF Results
  <2> QED
    BY <2>1, <2>2 DEF Outcomes
<1>2. PICK again \in BOOLEAN, captured \in BOOLEAN :
        Proxied(q, o) =
          [q EXCEPT
            !.responded = @ \/ o.status # "none",
            !.failure = IF o.status = "none" THEN @ \/ o.err = "transport"
                        ELSE o.status = "retry" \/ o.err = "read",
            !.retryable = again,
            !.reply = IF again THEN NoReply
                      ELSE IF o.status = "none" THEN Gateway("502")
                      ELSE IF captured \/ o.head THEN Flushed(o)
                      ELSE Gateway("500")]
  BY Zenon DEF Proxied
<1>3. o.head => o.status \in ProviderStatus
  BY DEF Outcomes, NoResult, Results
<1>4. Flushed(o) \in ReplyType
  BY <1>1, <1>3, SMTT(60) DEF Flushed, ReplyType, ProviderStatus
<1>5. PICK reply \in ReplyType, responded \in BOOLEAN, failure \in BOOLEAN :
        /\ Proxied(q, o) =
             [q EXCEPT !.responded = responded, !.failure = failure,
                       !.retryable = again, !.reply = reply]
        /\ failure <=> IF o.status = "none" THEN q.failure \/ o.err = "transport"
                       ELSE o.status = "retry" \/ o.err = "read"
  BY <1>2, <1>4, ReplyTypes, ZenonT(60) DEF ReqType
<1>6. Proxied(q, o) \in ReqType
  BY <1>5, ZenonT(60) DEF ReqType
<1>7. /\ Proxied(q, o).channel = q.channel
      /\ Proxied(q, o).lease = q.lease
      /\ Proxied(q, o).failure = failure
  BY <1>5 DEF ReqType
<1> QED
  BY <1>5, <1>6, <1>7
----------------------------------------------------------------------------

(* The four ways a step of request r touches the breakers: not at all, by  *)
(* taking an ordinary lease or a probe on channel c, or by settling its    *)
(* lease.                                                                  *)
NoCall(r, q) ==
  /\ UNCHANGED <<breaker, now, failedAt, fresh>>
  /\ q.channel = req[r].channel /\ q.lease = req[r].lease
  /\ Become(r, q)

TakesLease(r, c, q) ==
  /\ CanAcquire(breaker[c])
  /\ fresh' = [fresh EXCEPT ![c] = @ \cup {r}]
  /\ UNCHANGED <<breaker, now, failedAt>>
  /\ req[r].channel = NoChannel
  /\ q.channel = c /\ q.lease = ClosedLease(breaker[c])
  /\ Become(r, q)

TakesProbe(r, c, q) ==
  /\ CanProbe(breaker[c], now)
  /\ breaker' = [breaker EXCEPT ![c] = AfterProbe(@)]
  /\ fresh' = [fresh EXCEPT ![c] = {r}]
  /\ UNCHANGED <<now, failedAt>>
  /\ req[r].channel = NoChannel
  /\ q.channel = c /\ q.lease = ProbeLease(breaker[c])
  /\ Become(r, q)

Settles(r, q) ==
  /\ req[r].pc = "attempt"
  /\ q.channel = req[r].channel /\ q.lease = req[r].lease
  /\ EndAttempt(r, q)

Calls(r) ==
  \/ \E q \in ReqType : Context(q) /\ NoCall(r, q)
  \/ \E c \in Channels, q \in ReqType : Context(q) /\ TakesLease(r, c, q)
  \/ \E c \in Channels, q \in ReqType : Context(q) /\ TakesProbe(r, c, q)
  \/ \E q \in ReqType : Settles(r, q)

(* The request arrives. *)
LEMMA ArriveCalls ==
  ASSUME IInv, NEW r \in Requests, Arrive(r)
  PROVE  Calls(r)
<1>1. req[r] \in ReqType /\ req[r].channel = NoChannel /\ req[r].lease = NoLease
  BY DEF IInv, TypeOK, ContextInv, Context, Arrive
<1>2. CASE Become(r, Answer(req[r], Gateway("local")))
  <2> DEFINE q == Answer(req[r], Gateway("local"))
  <2>1. q \in ReqType /\ Context(q) /\ q.channel = NoChannel /\ q.lease = NoLease
    BY <1>1, AnswerType, ReplyTypes, ZenonT(60)
  <2>2. Become(r, q)
    BY <1>2
  <2> HIDE DEF q
  <2>3. NoCall(r, q)
    BY <1>1, <2>1, <2>2 DEF NoCall, Arrive
  <2> QED
    BY <2>1, <2>3 DEF Calls
<1>3. CASE Become(r, StartRoute(req[r]))
  <2> DEFINE q == StartRoute(req[r])
  <2>1. q \in ReqType /\ Context(q) /\ q.channel = NoChannel /\ q.lease = NoLease
    BY <1>1, StartRouteType
  <2>2. Become(r, q)
    BY <1>3
  <2> HIDE DEF q
  <2>3. NoCall(r, q)
    BY <1>1, <2>1, <2>2 DEF NoCall, Arrive
  <2> QED
    BY <2>1, <2>3 DEF Calls
<1> QED
  BY <1>2, <1>3 DEF Arrive

(* What one read of the scan leaves: more of the group, the next group, or *)
(* a group with a closed channel to acquire.                               *)
AfterScan(q, c, rest, closed) ==
  IF ~LastOfGroup(c, rest)
  THEN [q EXCEPT !.todo = rest, !.closed = closed]
  ELSE IF closed = {}
  THEN NextGroup(q, rest)
  ELSE [q EXCEPT !.pc = "acquire", !.todo = rest, !.closed = closed]

LEMMA ScanBecomes ==
  ASSUME IInv, NEW r \in Requests, Scan(r)
  PROVE  LET c == First(req[r].todo)
             rest == req[r].todo \ {c}
             closed == req[r].closed \cup {d \in {c} : breaker[d].state = Closed}
         IN  /\ req[r] \in ReqType /\ req[r].pc = "scan" /\ req[r].todo # {}
             /\ req[r].channel = NoChannel /\ req[r].lease = NoLease
             /\ c \in req[r].todo /\ c \in Channels
             /\ \A d \in req[r].todo : Priority[c] <= Priority[d]
             /\ rest \in SUBSET Channels /\ closed \in SUBSET Channels
             /\ UNCHANGED <<breaker, now, failedAt, fresh>>
             /\ Become(r, AfterScan(req[r], c, rest, closed))
<1> DEFINE c == First(req[r].todo)
           rest == req[r].todo \ {c}
           closed == req[r].closed \cup {d \in {c} : breaker[d].state = Closed}
<1>1. req[r] \in ReqType /\ req[r].pc = "scan" /\ req[r].todo # {}
      /\ req[r].channel = NoChannel /\ req[r].lease = NoLease
  BY DEF IInv, TypeOK, ContextInv, Context, Scan
<1>2. req[r].todo \in SUBSET Channels /\ req[r].closed \in SUBSET Channels
  BY <1>1 DEF ReqType
<1>3. c \in req[r].todo /\ \A d \in req[r].todo : Priority[c] <= Priority[d]
  BY <1>1, <1>2, FirstIsBest
<1>4. /\ UNCHANGED <<breaker, now, failedAt, fresh>>
      /\ Become(r, AfterScan(req[r], c, rest, closed))
  BY DEF Scan, AfterScan
<1> HIDE DEF c
<1>5. c \in Channels /\ rest \in SUBSET Channels /\ closed \in SUBSET Channels
  BY <1>2, <1>3
<1> QED
  BY <1>1, <1>3, <1>4, <1>5 DEF c

(* One read of the scan. *)
LEMMA AfterScanType ==
  ASSUME NEW q \in ReqType, q.pc = "scan", q.channel = NoChannel, q.lease = NoLease,
         NEW c \in Channels, NEW rest \in SUBSET Channels, NEW closed \in SUBSET Channels
  PROVE  /\ AfterScan(q, c, rest, closed) \in ReqType
         /\ Context(AfterScan(q, c, rest, closed))
         /\ AfterScan(q, c, rest, closed).channel = NoChannel
         /\ AfterScan(q, c, rest, closed).lease = NoLease
<1> DEFINE p == AfterScan(q, c, rest, closed)
<1>1. CASE ~LastOfGroup(c, rest)
  <2>1. p = [q EXCEPT !.todo = rest, !.closed = closed]
    BY <1>1 DEF AfterScan
  <2>2. rest # {}
    BY <1>1 DEF LastOfGroup
  <2>3. p \in ReqType
    BY <2>1, ZenonT(60) DEF ReqType
  <2>4. p.pc = "scan" /\ p.todo = rest /\ p.channel = NoChannel /\ p.lease = NoLease
    BY <2>1 DEF ReqType
  <2> QED
    BY <2>2, <2>3, <2>4 DEF Context
<1>2. CASE LastOfGroup(c, rest) /\ closed = {}
  <2>1. p = NextGroup(q, rest)
    BY <1>2 DEF AfterScan
  <2> QED
    BY <2>1, NextGroupType
<1>3. CASE LastOfGroup(c, rest) /\ closed # {}
  <2>1. p = [q EXCEPT !.pc = "acquire", !.todo = rest, !.closed = closed]
    BY <1>3 DEF AfterScan
  <2>2. p \in ReqType
    BY <2>1, ZenonT(60) DEF ReqType
  <2>3. p.pc = "acquire" /\ p.channel = NoChannel /\ p.lease = NoLease
    BY <2>1 DEF ReqType
  <2> QED
    BY <2>2, <2>3 DEF Context
<1> QED
  BY <1>1, <1>2, <1>3

(* A read of the scan calls no method that changes a breaker. *)
LEMMA ScanCalls ==
  ASSUME IInv, NEW r \in Requests, Scan(r)
  PROVE  Calls(r)
<1> DEFINE c == First(req[r].todo)
           rest == req[r].todo \ {c}
           closed == req[r].closed \cup {d \in {c} : breaker[d].state = Closed}
           q == AfterScan(req[r], c, rest, closed)
<1>1. /\ req[r] \in ReqType /\ req[r].pc = "scan"
      /\ req[r].channel = NoChannel /\ req[r].lease = NoLease
      /\ c \in Channels
      /\ rest \in SUBSET Channels /\ closed \in SUBSET Channels
      /\ UNCHANGED <<breaker, now, failedAt, fresh>>
      /\ Become(r, q)
  BY ScanBecomes, ZenonT(60)
<1> HIDE DEF c, rest, closed
<1>2. q \in ReqType /\ Context(q) /\ q.channel = NoChannel /\ q.lease = NoLease
  BY <1>1, AfterScanType
<1> HIDE DEF q
<1>3. NoCall(r, q)
  BY <1>1, <1>2 DEF NoCall
<1> QED
  BY <1>2, <1>3 DEF Calls

(* AcquireClosed gives a lease, or Route leaves the group. *)
LEMMA AcquireCalls ==
  ASSUME IInv, NEW r \in Requests, Acquire(r)
  PROVE  Calls(r)
<1>1. /\ req[r] \in ReqType
      /\ req[r].channel = NoChannel /\ req[r].lease = NoLease
  BY DEF IInv, TypeOK, ContextInv, Context, Acquire
<1>2. req[r].todo \in SUBSET Channels /\ req[r].closed \in SUBSET Channels
  BY <1>1 DEF ReqType
<1>3. PICK c \in req[r].closed :
       IF CanAcquire(breaker[c])
       THEN /\ fresh' = [fresh EXCEPT ![c] = @ \cup {r}]
            /\ UNCHANGED <<breaker, now, failedAt>>
            /\ Become(r, Select(req[r], c, ClosedLease(breaker[c])))
       ELSE /\ UNCHANGED <<breaker, now, failedAt, fresh>>
            /\ Become(r, NextGroup(req[r], req[r].todo))
  BY DEF Acquire, PickWeighted
<1>4. c \in Channels /\ breaker[c] \in BreakerType
  BY <1>2 DEF IInv, TypeOK
<1>5. CASE CanAcquire(breaker[c])
  <2> DEFINE l == ClosedLease(breaker[c])
             q == Select(req[r], c, l)
  <2>1. l \in LeaseType /\ l.held
    BY <1>4, LeaseTypes
  <2>2. Become(r, q)
    BY <1>3, <1>5
  <2> HIDE DEF l
  <2>3. q \in ReqType /\ Context(q) /\ q.channel = c /\ q.lease = l
    BY <1>1, <1>4, <2>1, SelectType
  <2> HIDE DEF q
  <2>4. TakesLease(r, c, q)
    BY <1>1, <1>3, <1>5, <2>2, <2>3 DEF TakesLease, l
  <2> QED
    BY <1>4, <2>3, <2>4 DEF Calls
<1>6. CASE ~CanAcquire(breaker[c])
  <2> DEFINE q == NextGroup(req[r], req[r].todo)
  <2>1. q \in ReqType /\ Context(q) /\ q.channel = NoChannel /\ q.lease = NoLease
    BY <1>1, <1>2, NextGroupType
  <2>2. Become(r, q)
    BY <1>3, <1>6
  <2> HIDE DEF q
  <2>3. NoCall(r, q)
    BY <1>1, <1>3, <1>6, <2>1, <2>2 DEF NoCall
  <2> QED
    BY <2>1, <2>3 DEF Calls
<1> QED
  BY <1>5, <1>6

(* AllowProbe gives a probe, or the candidate is passed over. *)
LEMMA ProbeCalls ==
  ASSUME IInv, NEW r \in Requests, Probe(r)
  PROVE  Calls(r)
<1> DEFINE c == First(req[r].todo)
<1>1. /\ req[r] \in ReqType /\ req[r].pc = "probe" /\ req[r].todo # {}
      /\ req[r].channel = NoChannel /\ req[r].lease = NoLease
  BY DEF IInv, TypeOK, ContextInv, Context, Probe
<1>2. req[r].todo \in SUBSET Channels
  BY <1>1 DEF ReqType
<1>3. c \in Channels /\ breaker[c] \in BreakerType
  BY <1>1, <1>2, FirstIsFirst DEF IInv, TypeOK
<1>4. IF CanProbe(breaker[c], now)
      THEN /\ breaker' = [breaker EXCEPT ![c] = AfterProbe(@)]
           /\ fresh' = [fresh EXCEPT ![c] = {r}]
           /\ UNCHANGED <<now, failedAt>>
           /\ Become(r, Select(req[r], c, ProbeLease(breaker[c])))
      ELSE /\ UNCHANGED <<breaker, now, failedAt, fresh>>
           /\ Become(r, [req[r] EXCEPT !.todo = @ \ {c}])
  BY DEF Probe
<1> HIDE DEF c
<1>5. CASE CanProbe(breaker[c], now)
  <2> DEFINE l == ProbeLease(breaker[c])
             q == Select(req[r], c, l)
  <2>1. l \in LeaseType /\ l.held
    BY <1>3, LeaseTypes
  <2>2. Become(r, q)
    BY <1>4, <1>5
  <2> HIDE DEF l
  <2>3. q \in ReqType /\ Context(q) /\ q.channel = c /\ q.lease = l
    BY <1>1, <1>3, <2>1, SelectType
  <2> HIDE DEF q
  <2>4. TakesProbe(r, c, q)
    BY <1>1, <1>4, <1>5, <2>2, <2>3 DEF TakesProbe, l
  <2> QED
    BY <1>3, <2>3, <2>4 DEF Calls
<1>6. CASE ~CanProbe(breaker[c], now)
  <2> DEFINE q == [req[r] EXCEPT !.todo = @ \ {c}]
  <2>1. q \in ReqType
    BY <1>1, <1>2 DEF ReqType
  <2>2. q.pc = "probe" /\ q.channel = NoChannel /\ q.lease = NoLease
    BY <1>1 DEF ReqType
  <2>3. Become(r, q)
    BY <1>4, <1>6
  <2> HIDE DEF q
  <2>4. NoCall(r, q) /\ Context(q)
    BY <1>1, <1>4, <1>6, <2>2, <2>3 DEF NoCall, Context
  <2> QED
    BY <2>1, <2>4 DEF Calls
<1> QED
  BY <1>5, <1>6

(* Route returns nil, and the router answers. *)
LEMMA NoRouteCalls ==
  ASSUME IInv, NEW r \in Requests, NoRoute(r)
  PROVE  Calls(r)
<1> DEFINE reply == Gateway(IF req[r].tried = {} THEN "503" ELSE "502")
           q == Answer(req[r], reply)
<1>1. /\ req[r] \in ReqType
      /\ req[r].channel = NoChannel /\ req[r].lease = NoLease
  BY DEF IInv, TypeOK, ContextInv, Context, NoRoute
<1>2. reply \in ReplyType
  BY ReplyTypes
<1>3. UNCHANGED <<breaker, now, failedAt, fresh>> /\ Become(r, q)
  BY DEF NoRoute
<1> HIDE DEF reply
<1>4. q \in ReqType /\ Context(q) /\ q.channel = NoChannel /\ q.lease = NoLease
  BY <1>1, <1>2, AnswerType
<1> HIDE DEF q
<1>5. NoCall(r, q)
  BY <1>1, <1>3, <1>4 DEF NoCall
<1> QED
  BY <1>4, <1>5 DEF Calls

(* hasUnusedCandidate only reads. *)
LEMMA LookForUnusedCalls ==
  ASSUME IInv, NEW r \in Requests, LookForUnused(r)
  PROVE  Calls(r)
<1>1. /\ req[r] \in ReqType /\ req[r].pc = "unused"
      /\ req[r].channel \in Channels /\ req[r].lease.held
      /\ ~req[r].failure /\ ~req[r].responded
  BY DEF IInv, TypeOK, ContextInv, Context, LookForUnused
<1>2. PICK c, q :
        /\ \/ q = [req[r] EXCEPT !.pc = "attempt"]
           \/ q = [req[r] EXCEPT !.pc = "attempt", !.todo = {}, !.canFallback = TRUE]
           \/ q = [req[r] EXCEPT !.todo = @ \ {c}]
        /\ UNCHANGED <<breaker, now, failedAt, fresh>>
        /\ Become(r, q)
  BY Zenon DEF LookForUnused
<1>3. q \in ReqType
  <2>1. [req[r] EXCEPT !.pc = "attempt"] \in ReqType
    BY <1>1 DEF ReqType
  <2>2. [req[r] EXCEPT !.pc = "attempt", !.todo = {}, !.canFallback = TRUE] \in ReqType
    BY <1>1, ZenonT(60) DEF ReqType
  <2>3. [req[r] EXCEPT !.todo = @ \ {c}] \in ReqType
    BY <1>1 DEF ReqType
  <2> QED
    BY <1>2, <2>1, <2>2, <2>3
<1>4. /\ q.pc \in {"unused", "attempt"}
      /\ q.channel = req[r].channel /\ q.lease = req[r].lease
      /\ q.failure = req[r].failure /\ q.responded = req[r].responded
  BY <1>1, <1>2, ZenonT(60) DEF ReqType
<1>5. Context(q) /\ NoCall(r, q)
  BY <1>1, <1>2, <1>4 DEF Context, NoCall
<1> QED
  BY <1>3, <1>5 DEF Calls

(* An attempt that ends without a word of the provider leaves no outcome   *)
(* behind.                                                                 *)
LEMMA SilentEnd ==
  ASSUME IInv, NEW r \in Requests, LocalFailure(r) \/ Panic(r)
  PROVE  \E q \in ReqType : Settles(r, q) /\ ~q.failure
<1>1. /\ req[r] \in ReqType /\ req[r].pc = "attempt" /\ ~req[r].failure
  BY DEF IInv, TypeOK, ContextInv, Context, LocalFailure, Panic
<1>2. PICK reply \in ReplyType : EndAttempt(r, [req[r] EXCEPT !.reply = reply])
  <2>1. [status |-> "ok", body |-> "cut"] \in ReplyType
    BY DEF ReplyType, ProviderStatus
  <2>2. Gateway("local") \in ReplyType /\ Gateway("500") \in ReplyType
    BY ReplyTypes
  <2> QED
    BY <2>1, <2>2, Zenon DEF LocalFailure, Panic
<1> DEFINE q == [req[r] EXCEPT !.reply = reply]
<1>3. q \in ReqType
  BY <1>1 DEF ReqType
<1>4. q.channel = req[r].channel /\ q.lease = req[r].lease /\ q.failure = req[r].failure
  BY <1>1 DEF ReqType
<1>5. EndAttempt(r, q)
  BY <1>2
<1> HIDE DEF q
<1> QED
  BY <1>1, <1>3, <1>4, <1>5 DEF Settles

(* An attempt that reached the provider. *)
LEMMA DispatchEnd ==
  ASSUME IInv, NEW r \in Requests, NEW o \in Outcomes, Dispatch(r, o)
  PROVE  \E q \in ReqType :
           /\ Settles(r, q)
           /\ q.failure => o.status = "retry" \/ o.err \in {"transport", "read"}
<1>1. req[r] \in ReqType /\ req[r].pc = "attempt" /\ ~req[r].failure
  BY DEF IInv, TypeOK, ContextInv, Context, Dispatch
<1> DEFINE q == Proxied(req[r], o)
<1>2. /\ q \in ReqType /\ q.channel = req[r].channel /\ q.lease = req[r].lease
      /\ q.failure => o.status = "retry" \/ o.err \in {"transport", "read"}
  BY <1>1, ProxiedType
<1>3. EndAttempt(r, q)
  BY DEF Dispatch
<1> HIDE DEF q
<1> QED
  BY <1>1, <1>2, <1>3 DEF Settles

(* A step of a request touches the breakers in one of these ways. *)
LEMMA StepCalls ==
  ASSUME IInv, NEW r \in Requests, Step(r)
  PROVE  Calls(r)
<1>1. CASE LocalFailure(r) \/ Panic(r)
  BY <1>1, SilentEnd DEF Calls
<1>2. CASE \E o \in Outcomes : Dispatch(r, o)
  BY <1>2, DispatchEnd DEF Calls
<1> QED
  BY <1>1, <1>2, ArriveCalls, ScanCalls, AcquireCalls, ProbeCalls, NoRouteCalls,
     LookForUnusedCalls DEF Step
----------------------------------------------------------------------------

(* What Become does to the requests and their histories. *)
LEMMA Becoming ==
  ASSUME TypeOK, NEW r \in Requests, NEW q \in ReqType, Become(r, q)
  PROVE  /\ req' \in [Requests -> ReqType]
         /\ healthy' \in [Requests -> SUBSET Channels]
         /\ req'[r] = q
         /\ \A s \in Requests \ {r} :
              /\ req'[s] = req[s]
              /\ healthy'[s] = {c \in healthy[s] :
                   req[s].pc \in Routing /\ breaker'[c].state = Closed}
         /\ healthy'[r] =
              {c \in IF q.pc \in Routing /\ req[r].pc \notin Routing
                     THEN Candidates(q) ELSE healthy[r] :
                 q.pc \in Routing /\ breaker'[c].state = Closed}
<1>1. /\ req' = [req EXCEPT ![r] = q]
      /\ req \in [Requests -> ReqType] /\ healthy \in [Requests -> SUBSET Channels]
  BY DEF Become, TypeOK
<1>2. /\ req' \in [Requests -> ReqType] /\ req'[r] = q
      /\ \A s \in Requests \ {r} : req'[s] = req[s]
  BY <1>1
<1> DEFINE Known(s) == IF s = r /\ q.pc \in Routing /\ req[s].pc \notin Routing
                       THEN Candidates(q) ELSE healthy[s]
           Routes(s) == IF s = r THEN q.pc \in Routing ELSE req[s].pc \in Routing
<1>3. healthy' = [s \in Requests |->
        {c \in Known(s) : Routes(s) /\ breaker'[c].state = Closed}]
  BY DEF Become, Watch
<1>4. \A s \in Requests : Known(s) \in SUBSET Channels
  BY <1>1 DEF Candidates
<1>5. healthy' \in [Requests -> SUBSET Channels]
  <2> HIDE DEF Known, Routes
  <2> QED
    BY <1>3, <1>4
<1>6. \A s \in Requests :
        healthy'[s] = {c \in Known(s) : Routes(s) /\ breaker'[c].state = Closed}
  <2> HIDE DEF Known, Routes
  <2> QED
    BY <1>3
<1>7. \A s \in Requests \ {r} :
        healthy'[s] = {c \in healthy[s] :
                         req[s].pc \in Routing /\ breaker'[c].state = Closed}
  BY <1>6
<1>8. healthy'[r] = {c \in IF q.pc \in Routing /\ req[r].pc \notin Routing
                           THEN Candidates(q) ELSE healthy[r] :
                       q.pc \in Routing /\ breaker'[c].state = Closed}
  BY <1>6
<1> QED
  BY <1>2, <1>5, <1>7, <1>8

(* What the end of an attempt leaves: the lease is settled on the channel  *)
(* it came from, and the context has neither.                              *)
LEMMA Settling ==
  ASSUME IInv, NEW r \in Requests, NEW q \in ReqType, Settles(r, q)
  PROVE  /\ q.channel \in Channels /\ q.lease \in LeaseType /\ q.lease.held
         /\ breaker[q.channel] \in BreakerType
         /\ Settled(q, breaker[q.channel]) \in BreakerType
         /\ breaker' = [breaker EXCEPT ![q.channel] = Settled(q, breaker[q.channel])]
         /\ \E p \in ReqType :
              /\ Context(p) /\ p.channel = NoChannel /\ p.lease = NoLease
              /\ p = IF q.retryable THEN StartRoute([q EXCEPT !.channel = NoChannel])
                     ELSE Answer(q, q.reply)
              /\ Become(r, p)
<1>1. /\ req[r] \in ReqType /\ req[r].channel \in Channels /\ req[r].lease.held
      /\ now \in Nat
  BY DEF IInv, TypeOK, ContextInv, Context, Settles
<1>2. q.channel \in Channels /\ q.lease \in LeaseType /\ q.lease.held
  BY <1>1 DEF Settles, ReqType
<1>3. breaker[q.channel] \in BreakerType
  BY <1>2 DEF IInv, TypeOK
<1>4. Settled(q, breaker[q.channel]) \in BreakerType
  BY <1>1, <1>2, <1>3, MethodTypes DEF Settled
<1>5. breaker' = [breaker EXCEPT ![q.channel] = Settled(q, breaker[q.channel])]
  BY DEF Settles, EndAttempt
<1> DEFINE z == [q EXCEPT !.channel = NoChannel]
           p == IF q.retryable THEN StartRoute(z) ELSE Answer(q, q.reply)
<1>6. p \in ReqType /\ Context(p) /\ p.channel = NoChannel /\ p.lease = NoLease
  <2>1. z \in ReqType /\ z.channel = NoChannel
    BY DEF ReqType
  <2>2. q.reply \in ReplyType
    BY DEF ReqType
  <2> HIDE DEF z
  <2> QED
    BY <2>1, <2>2, StartRouteType, AnswerType
<1>7. Become(r, p)
  BY DEF Settles, EndAttempt
<1> HIDE DEF p
<1>8. \E x \in ReqType : 
         /\ Context(x) /\ x.channel = NoChannel /\ x.lease = NoLease
         /\ x = p /\ Become(r, x)
  BY <1>6, <1>7
<1> QED
  BY <1>2, <1>3, <1>4, <1>5, <1>8 DEF p

(* A context that stays one, with breakers and histories of their types. *)
LEMMA BecomingIInv ==
  ASSUME IInv, NEW r \in Requests, NEW q \in ReqType, Context(q), Become(r, q),
         breaker' \in [Channels -> BreakerType], now' \in Nat,
         failedAt' \in [Channels -> Nat], fresh' \in [Channels -> SUBSET Requests]
  PROVE  IInv'
<1>1. /\ req' \in [Requests -> ReqType]
      /\ healthy' \in [Requests -> SUBSET Channels]
      /\ req'[r] = q
      /\ \A s \in Requests \ {r} : req'[s] = req[s]
  BY Becoming DEF IInv
<1>2. TypeOK'
  BY <1>1 DEF TypeOK
<1>3. ContextInv'
  <2> SUFFICES ASSUME NEW s \in Requests PROVE Context(req'[s])
    BY DEF ContextInv
  <2> QED
    BY <1>1 DEF IInv, ContextInv
<1> QED
  BY <1>2, <1>3 DEF IInv

(* Every step of a request keeps the invariant. *)
LEMMA StepIInv ==
  ASSUME IInv, NEW r \in Requests, Step(r)
  PROVE  IInv'
<1>0. /\ breaker \in [Channels -> BreakerType] /\ now \in Nat
      /\ failedAt \in [Channels -> Nat] /\ fresh \in [Channels -> SUBSET Requests]
  BY DEF IInv, TypeOK
<1>1. ASSUME NEW q \in ReqType, Context(q), NoCall(r, q) PROVE IInv'
  BY <1>0, <1>1, BecomingIInv DEF NoCall
<1>2. ASSUME NEW c \in Channels, NEW q \in ReqType, Context(q), TakesLease(r, c, q)
      PROVE  IInv'
  <2>1. fresh' \in [Channels -> SUBSET Requests]
    BY <1>0, <1>2 DEF TakesLease
  <2> QED
    BY <1>0, <1>2, <2>1, BecomingIInv DEF TakesLease
<1>3. ASSUME NEW c \in Channels, NEW q \in ReqType, Context(q), TakesProbe(r, c, q)
      PROVE  IInv'
  <2>1. fresh' \in [Channels -> SUBSET Requests]
    BY <1>0, <1>3 DEF TakesProbe
  <2>2. AfterProbe(breaker[c]) \in BreakerType
    BY <1>0 DEF AfterProbe, BreakerType, States
  <2>3. breaker' \in [Channels -> BreakerType]
    BY <1>0, <1>3, <2>2 DEF TakesProbe
  <2> QED
    BY <1>0, <1>3, <2>1, <2>3, BecomingIInv DEF TakesProbe
<1>4. ASSUME NEW q \in ReqType, Settles(r, q) PROVE IInv'
  <2>1. /\ q.channel \in Channels
        /\ Settled(q, breaker[q.channel]) \in BreakerType
        /\ breaker' = [breaker EXCEPT ![q.channel] = Settled(q, breaker[q.channel])]
    BY <1>4, Settling, ZenonT(60)
  <2>2. PICK p \in ReqType : Context(p) /\ Become(r, p)
    BY <1>4, Settling, ZenonT(60)
  <2>3. breaker' \in [Channels -> BreakerType]
    BY <1>0, <2>1
  <2>4. failedAt' \in [Channels -> Nat] /\ now' \in Nat
    BY <1>0, <1>4, <2>1 DEF Settles, EndAttempt
  <2>5. fresh' \in [Channels -> SUBSET Requests]
    BY <1>0, <1>4, <2>1 DEF Settles, EndAttempt
  <2> QED
    BY <2>2, <2>3, <2>4, <2>5, BecomingIInv
<1> QED
  BY <1>1, <1>2, <1>3, <1>4, StepCalls DEF Calls

(* Every step keeps the invariant. *)
LEMMA NextIInv == IInv /\ [Next]_vars => IInv'
<1> SUFFICES ASSUME IInv, [Next]_vars PROVE IInv'
  OBVIOUS
<1>1. CASE Tick
  BY <1>1 DEF Tick, IInv, TypeOK, ContextInv
<1>2. ASSUME NEW r \in Requests, Step(r) PROVE IInv'
  BY <1>2, StepIInv
<1>3. CASE UNCHANGED vars
  BY <1>3 DEF vars, IInv, TypeOK, ContextInv
<1> QED
  BY <1>1, <1>2, <1>3 DEF Next, Finished

(* A start: closed breakers, and requests that have not arrived. *)
LEMMA InitIInv == Init => IInv
<1> SUFFICES ASSUME Init PROVE IInv
  OBVIOUS
<1>1. \A r \in Requests : req[r] \in ReqType /\ Context(req[r])
  BY NewReqType DEF Init
<1>2. NewBreaker \in BreakerType
  BY DEF NewBreaker, BreakerType, States, Closed
<1>3. req \in [Requests -> ReqType]
  <2>1. req = [r \in Requests |-> req[r]]
    BY DEF Init
  <2> QED
    BY <1>1, <2>1
<1>4. TypeOK
  BY <1>2, <1>3 DEF Init, TypeOK
<1> QED
  BY <1>1, <1>4 DEF IInv, ContextInv

(* The invariant holds in every behaviour of the router. *)
THEOREM Invariant == Spec => []IInv
BY InitIInv, NextIInv, PTL DEF Spec

(* Breakers, requests and histories have their types. *)
THEOREM TypeCorrect == Spec => []TypeOK
<1>1. IInv => TypeOK
  BY DEF IInv
<1> QED
  BY <1>1, Invariant, PTL
----------------------------------------------------------------------------

(* The leases of a channel after a step that leaves r as q. *)
LEMMA LeasesAfter ==
  ASSUME TypeOK, NEW r \in Requests, NEW q \in ReqType, Become(r, q), NEW c \in Channels
  PROVE  Leases(c)' = [Leases(c) EXCEPT ![r] = IF q.channel = c THEN q.lease ELSE NoLease]
<1>1. req'[r] = q /\ \A s \in Requests \ {r} : req'[s] = req[s]
  BY Becoming
<1> QED
  BY <1>1, ZenonT(60) DEF Leases

(* A step in which r has the same channel and lease before and after.      *)
LEMMA LeasesSame ==
  ASSUME TypeOK, NEW r \in Requests, NEW q \in ReqType, Become(r, q), NEW c \in Channels,
         \/ q.channel = req[r].channel /\ q.lease = req[r].lease
         \/ q.channel # c /\ req[r].channel # c
  PROVE  Leases(c)' = Leases(c)
<1>1. req'[r] = q /\ \A s \in Requests \ {r} : req'[s] = req[s]
  BY Becoming
<1>2. \A s \in Requests :
        (IF req'[s].channel = c THEN req'[s].lease ELSE NoLease)
          = (IF req[s].channel = c THEN req[s].lease ELSE NoLease)
  BY <1>1
<1> QED
  BY <1>2 DEF Leases

(* The breaker's methods are the same in every channel's instance. *)
LEMMA SameMethods ==
  ASSUME NEW c, NEW b, NEW l, NEW t
  PROVE  /\ Channel(c)!NoLease = NoLease /\ Channel(c)!NewBreaker = NewBreaker
         /\ Channel(c)!CanAcquire(b) <=> CanAcquire(b)
         /\ Channel(c)!ClosedLease(b) = ClosedLease(b)
         /\ Channel(c)!CanProbe(b, t) <=> CanProbe(b, t)
         /\ Channel(c)!ProbeLease(b) = ProbeLease(b)
         /\ Channel(c)!AfterProbe(b) = AfterProbe(b)
         /\ Channel(c)!AfterFailure(b, l, t) = AfterFailure(b, l, t)
         /\ Channel(c)!AfterSuccess(b, l) = AfterSuccess(b, l)
         /\ Channel(c)!AfterRelease(b, l) = AfterRelease(b, l)
<1>1. /\ Channel(c)!NoLease = NoLease /\ Channel(c)!NewBreaker = NewBreaker
      /\ Channel(c)!CanAcquire(b) <=> CanAcquire(b)
      /\ Channel(c)!ClosedLease(b) = ClosedLease(b)
  BY Zenon DEF NoLease, Channel!NoLease, NewBreaker, Channel!NewBreaker, CanAcquire,
     Channel!CanAcquire, ClosedLease, Channel!ClosedLease, Closed, Channel!Closed
<1>2. /\ Channel(c)!CanProbe(b, t) <=> CanProbe(b, t)
      /\ Channel(c)!ProbeLease(b) = ProbeLease(b)
      /\ Channel(c)!AfterProbe(b) = AfterProbe(b)
  BY Zenon DEF CanProbe, Channel!CanProbe, Recovered, Channel!Recovered, ProbeLease,
     Channel!ProbeLease, AfterProbe, Channel!AfterProbe, Open, Channel!Open,
     HalfOpen, Channel!HalfOpen
<1>3. Channel(c)!AfterFailure(b, l, t) = AfterFailure(b, l, t)
  BY Zenon DEF AfterFailure, Channel!AfterFailure, Void, Channel!Void, HalfOpen,
     Channel!HalfOpen, Closed, Channel!Closed, ProbeFailed, Channel!ProbeFailed,
     FailureCounted, Channel!FailureCounted, Open, Channel!Open, Unix, Channel!Unix
<1>4. Channel(c)!AfterSuccess(b, l) = AfterSuccess(b, l)
  BY Zenon DEF AfterSuccess, Channel!AfterSuccess, Void, Channel!Void, HalfOpen,
     Channel!HalfOpen, Closed, Channel!Closed, ProbeSucceeded, Channel!ProbeSucceeded
<1>5. Channel(c)!AfterRelease(b, l) = AfterRelease(b, l)
  BY Zenon DEF AfterRelease, Channel!AfterRelease, Void, Channel!Void, HalfOpen,
     Channel!HalfOpen, Open, Channel!Open
<1> QED
  BY <1>1, <1>2, <1>3, <1>4, <1>5

(* A lease that is taken is a step of AcquireClosed or AllowProbe on its   *)
(* channel, and no step of any other.                                      *)
LEMMA TakingImplements ==
  ASSUME IInv, NEW r \in Requests, NEW c \in Channels, NEW q \in ReqType,
         TakesLease(r, c, q) \/ TakesProbe(r, c, q), NEW d \in Channels
  PROVE  [Channel(d)!Next]_(Channel(d)!vars)
<1>1. TypeOK /\ Become(r, q) /\ q.channel = c /\ req[r].channel = NoChannel
  BY DEF TakesLease, TakesProbe, IInv
<1>2. /\ breaker \in [Channels -> BreakerType] /\ fresh \in [Channels -> SUBSET Requests]
      /\ NoChannel \notin Channels
  BY <1>1, RouterAssumption DEF TypeOK
<1>3. CASE d # c
  <2>1. Leases(d)' = Leases(d)
    BY <1>1, <1>2, <1>3, LeasesSame
  <2>2. breaker'[d] = breaker[d] /\ fresh'[d] = fresh[d] /\ UNCHANGED <<now, failedAt>>
    BY <1>2, <1>3 DEF TakesLease, TakesProbe
  <2> QED
    BY <2>1, <2>2 DEF Channel!vars
<1>4. CASE d = c
  <2>1. Leases(c)' = [Leases(c) EXCEPT ![r] = q.lease]
    BY <1>1, LeasesAfter
  <2>2. Leases(c)[r] = NoLease
    BY <1>1, <1>2 DEF Leases
  <2>3. ~Leases(c)[r].held
    BY <2>2, LeaseTypes
  <2>4. CASE TakesLease(r, c, q)
    <3>1. fresh'[c] = fresh[c] \cup {r}
      BY <1>2, <2>4 DEF TakesLease
    <3>2. Channel(c)!AcquireClosed(r)
      <4>1. /\ Channel(c)!CanAcquire(breaker[c])
            /\ q.lease = Channel(c)!ClosedLease(breaker[c])
        BY <2>4, SameMethods, Zenon DEF TakesLease
      <4>2. breaker'[c] = breaker[c] /\ now' = now /\ failedAt'[c] = failedAt[c]
        BY <2>4 DEF TakesLease
      <4> QED
        BY <2>1, <2>3, <3>1, <4>1, <4>2, Zenon DEF Channel!AcquireClosed
    <3> QED
      BY <1>4, <3>2 DEF Channel!Next
  <2>5. CASE TakesProbe(r, c, q)
    <3>1. fresh'[c] = {r} /\ breaker'[c] = AfterProbe(breaker[c])
      BY <1>2, <2>5 DEF TakesProbe
    <3>2. Channel(c)!AllowProbe(r)
      <4>1. /\ Channel(c)!CanProbe(breaker[c], now)
            /\ q.lease = Channel(c)!ProbeLease(breaker[c])
            /\ breaker'[c] = Channel(c)!AfterProbe(breaker[c])
        BY <2>5, <3>1, SameMethods, Zenon DEF TakesProbe
      <4>2. now' = now /\ failedAt'[c] = failedAt[c]
        BY <2>5 DEF TakesProbe
      <4> QED
        BY <2>1, <2>3, <3>1, <4>1, <4>2, Zenon DEF Channel!AllowProbe
    <3> QED
      BY <1>4, <3>2 DEF Channel!Next
  <2> QED
    BY <2>4, <2>5
<1> QED
  BY <1>3, <1>4

(* The end of an attempt is one settlement of its lease, by what the       *)
(* attempt has shown, and no step of any other channel.                    *)
LEMMA SettlingImplements ==
  ASSUME IInv, NEW r \in Requests, NEW q \in ReqType, Settles(r, q), NEW d \in Channels
  PROVE  [Channel(d)!Next]_(Channel(d)!vars)
<1> DEFINE c == q.channel
           b == Settled(q, breaker[c])
<1>1. /\ c \in Channels /\ q.lease \in LeaseType /\ q.lease.held
      /\ breaker' = [breaker EXCEPT ![c] = b]
  BY Settling, ZenonT(60)
<1>2. PICK p \in ReqType : p.channel = NoChannel /\ Become(r, p)
  BY Settling, ZenonT(60)
<1>3. /\ TypeOK /\ breaker \in [Channels -> BreakerType]
      /\ fresh \in [Channels -> SUBSET Requests] /\ failedAt \in [Channels -> Nat]
      /\ NoChannel \notin Channels
  BY RouterAssumption DEF IInv, TypeOK
<1>4. /\ failedAt' = IF q.failure /\ b # breaker[c]
                     THEN [failedAt EXCEPT ![c] = now] ELSE failedAt
      /\ fresh' = [fresh EXCEPT ![c] =
                     IF b.state = breaker[c].state THEN @ \ {r} ELSE {}]
      /\ now' = now
      /\ req[r].channel = c /\ req[r].lease = q.lease
  BY DEF Settles, EndAttempt
<1> HIDE DEF c, b
<1>5. CASE d # c
  <2>1. Leases(d)' = Leases(d)
    BY <1>1, <1>2, <1>3, <1>4, <1>5, LeasesSame
  <2>2. breaker'[d] = breaker[d] /\ fresh'[d] = fresh[d] /\ failedAt'[d] = failedAt[d]
    BY <1>1, <1>3, <1>4, <1>5
  <2> QED
    BY <1>4, <2>1, <2>2 DEF Channel!vars
<1>6. CASE d = c
  <2>1. Leases(c)' = [Leases(c) EXCEPT ![r] = NoLease]
    <3>1. p.channel # c
      BY <1>1, <1>2, <1>3
    <3> QED
      BY <1>1, <1>2, <1>3, <3>1, LeasesAfter
  <2>2. Leases(c)[r] = q.lease
    BY <1>4 DEF Leases
  <2>3. /\ breaker'[c] = b
        /\ fresh'[c] = IF b.state = breaker[c].state THEN fresh[c] \ {r} ELSE {}
        /\ failedAt'[c] = IF q.failure /\ b # breaker[c] THEN now ELSE failedAt[c]
    BY <1>1, <1>3, <1>4, SMTT(60)
  <2>4. Channel(c)!Settled(r)
    BY <2>1, <2>3, SameMethods, ZenonT(60) DEF Channel!Settled
  <2>5. CASE q.failure
    <3>1. b = AfterFailure(breaker[c], q.lease, now)
      BY <2>5 DEF b, Settled, c
    <3>2. Channel(c)!RecordFailure(r)
      <4>1. breaker'[c] = Channel(c)!AfterFailure(breaker[c], Leases(c)[r], now)
        <5>1. Channel(c)!AfterFailure(breaker[c], q.lease, now)
                = AfterFailure(breaker[c], q.lease, now)
          BY SameMethods, ZenonT(60)
        <5> QED
          BY <2>2, <2>3, <3>1, <5>1, ZenonT(60)
      <4>2. failedAt'[c] = IF breaker'[c] # breaker[c] THEN now ELSE failedAt[c]
        BY <2>3, <2>5, ZenonT(60)
      <4>3. Leases(c)[r].held /\ now' = now
        BY <1>1, <1>4, <2>2, ZenonT(60)
      <4> QED
        BY <2>4, <4>1, <4>2, <4>3, ZenonT(60) DEF Channel!RecordFailure
    <3> QED
      BY <1>6, <3>2 DEF Channel!Next, Channel!Settle
  <2>6. CASE ~q.failure /\ q.responded
    <3>1. b = AfterSuccess(breaker[c], q.lease)
      BY <2>6 DEF b, Settled, c
    <3>2. Channel(c)!RecordSuccess(r)
      <4>1. breaker'[c] = Channel(c)!AfterSuccess(breaker[c], Leases(c)[r])
        BY <2>2, <2>3, <3>1, SameMethods, ZenonT(60)
      <4>2. failedAt'[c] = failedAt[c]
        BY <2>3, <2>6, ZenonT(60)
      <4>3. Leases(c)[r].held /\ now' = now
        BY <1>1, <1>4, <2>2, ZenonT(60)
      <4> QED
        BY <2>4, <4>1, <4>2, <4>3, ZenonT(60) DEF Channel!RecordSuccess
    <3> QED
      BY <1>6, <3>2 DEF Channel!Next, Channel!Settle
  <2>7. CASE ~q.failure /\ ~q.responded
    <3>1. b = AfterRelease(breaker[c], q.lease)
      BY <2>7 DEF b, Settled, c, AfterRelease
    <3>2. Channel(c)!ReleaseProbe(r)
      <4>1. breaker'[c] = Channel(c)!AfterRelease(breaker[c], Leases(c)[r])
        BY <2>2, <2>3, <3>1, SameMethods, ZenonT(60)
      <4>2. failedAt'[c] = failedAt[c]
        BY <2>3, <2>7, ZenonT(60)
      <4>3. Leases(c)[r].held /\ now' = now
        BY <1>1, <1>4, <2>2, ZenonT(60)
      <4> QED
        BY <2>4, <4>1, <4>2, <4>3, ZenonT(60) DEF Channel!ReleaseProbe
    <3> QED
      BY <1>6, <3>2 DEF Channel!Next, Channel!Settle
  <2> QED
    BY <2>5, <2>6, <2>7
<1> QED
  BY <1>5, <1>6

(* A step of the router is, on every channel, a step of its breaker or     *)
(* leaves it alone.                                                        *)
LEMMA NextImplements ==
  ASSUME IInv, [Next]_vars, NEW d \in Channels
  PROVE  [Channel(d)!Next]_(Channel(d)!vars)
<1>1. CASE Tick
  <2>1. Leases(d)' = Leases(d)
    BY <1>1 DEF Tick, Leases
  <2>2. Channel(d)!Tick
    BY <1>1, <2>1 DEF Tick, Channel!Tick
  <2> QED
    BY <2>2 DEF Channel!Next
<1>2. ASSUME NEW r \in Requests, Step(r) PROVE [Channel(d)!Next]_(Channel(d)!vars)
  <2>1. ASSUME NEW q \in ReqType, NoCall(r, q)
        PROVE  [Channel(d)!Next]_(Channel(d)!vars)
    <3>1. Leases(d)' = Leases(d)
      BY <2>1, LeasesSame DEF NoCall, IInv
    <3> QED
      BY <2>1, <3>1 DEF NoCall, Channel!vars
  <2> QED
    BY <1>2, <2>1, StepCalls, TakingImplements, SettlingImplements DEF Calls
<1>3. CASE UNCHANGED vars
  BY <1>3 DEF vars, Channel!vars, Leases
<1> QED
  BY <1>1, <1>2, <1>3 DEF Next, Finished

(* The router uses every channel's breaker as CircuitBreaker says, so that *)
(* what CircuitBreakerProofs proves of a breaker and its leases holds of   *)
(* each channel: a lease is taken and settled through the breaker's        *)
(* methods, once, on the channel it came from, whatever ends the attempt.  *)
THEOREM BreakersAreUsedAsSpecified == Spec => BreakersImplement
<1>1. Init => \A c \in Channels : Channel(c)!Init
  <2> SUFFICES ASSUME Init, NEW c \in Channels PROVE Channel(c)!Init
    OBVIOUS
  <2>1. \A r \in Requests : req[r].channel = NoChannel
    BY DEF Init, NewReq
  <2>2. Leases(c) = [r \in Requests |-> NoLease]
    BY <2>1, RouterAssumption DEF Leases
  <2> QED
    BY <2>2, SameMethods DEF Init, Channel!Init
<1>2. IInv /\ [Next]_vars =>
        [ \A c \in Channels : [Channel(c)!Next]_(Channel(c)!vars) ]_vars
  BY NextImplements, ZenonT(60)
<1> QED
  BY <1>1, <1>2, Invariant, PTL DEF Spec, BreakersImplement
----------------------------------------------------------------------------

(* The failure count of a provider grows only in a step in which the proxy *)
(* saw it fail.                                                            *)
LEMMA CountGrows ==
  ASSUME IInv, NEW r \in Requests, Step(r), NEW c \in Channels,
         breaker'[c].failures > breaker[c].failures
  PROVE  \E o \in Outcomes :
           /\ o.status = "retry" \/ o.err \in {"transport", "read"}
           /\ req[r].channel = c
           /\ Dispatch(r, o)
<1>1. breaker \in [Channels -> BreakerType] /\ breaker[c].failures \in Nat
  BY DEF IInv, TypeOK, BreakerType
<1>2. breaker'[c] # breaker[c]
  BY <1>1
<1>3. ASSUME NEW q \in ReqType, Settles(r, q)
      PROVE  q.failure /\ req[r].channel = c
  <2>1. /\ q.channel \in Channels /\ q.lease \in LeaseType
        /\ breaker[q.channel] \in BreakerType
        /\ breaker' = [breaker EXCEPT ![q.channel] = Settled(q, breaker[q.channel])]
    BY <1>3, Settling, ZenonT(60)
  <2>2. q.channel = c /\ req[r].channel = c
    BY <1>1, <1>2, <1>3, <2>1 DEF Settles
  <2>3. breaker'[c] = Settled(q, breaker[c])
    BY <1>1, <2>1, <2>2
  <2>4. /\ AfterSuccess(breaker[c], q.lease).failures <= breaker[c].failures
        /\ AfterRelease(breaker[c], q.lease).failures = breaker[c].failures
    BY <2>1, <2>2, FailuresNotAdded
  <2>5. CASE ~q.failure
    <3>1. \/ breaker'[c] = AfterSuccess(breaker[c], q.lease)
          \/ breaker'[c] = AfterRelease(breaker[c], q.lease)
          \/ breaker'[c] = breaker[c]
      BY <2>3, <2>5, Zenon DEF Settled
    <3>2. breaker'[c].failures <= breaker[c].failures
      BY <1>1, <2>4, <3>1
    <3>3. AfterSuccess(breaker[c], q.lease).failures \in Nat
      BY <2>1, <2>2, FailuresNotAdded DEF AfterSuccess, ProbeSucceeded, BreakerType
    <3> QED
      BY <1>1, <2>4, <3>1, <3>3
  <2> QED
    BY <2>2, <2>5
<1>4. CASE \E o \in Outcomes : Dispatch(r, o)
  <2>1. PICK o \in Outcomes : Dispatch(r, o)
    BY <1>4
  <2>2. PICK q \in ReqType :
          /\ Settles(r, q)
          /\ q.failure => o.status = "retry" \/ o.err \in {"transport", "read"}
    BY <2>1, DispatchEnd
  <2> QED
    BY <1>3, <2>1, <2>2
<1>5. ~(LocalFailure(r) \/ Panic(r))
  BY <1>3, SilentEnd
<1>6. ASSUME Probe(r), req[r].todo # {}
      PROVE  breaker'[c].failures = breaker[c].failures
  <2> DEFINE d == First(req[r].todo)
  <2>1. breaker' = breaker \/ breaker' = [breaker EXCEPT ![d] = AfterProbe(@)]
    BY <1>6 DEF Probe
  <2>2. AfterProbe(breaker[c]).failures = breaker[c].failures
    BY <1>1, FailuresNotAdded, LeaseTypes
  <2> HIDE DEF d
  <2> QED
    BY <1>1, <2>1, <2>2
<1>7. ~Probe(r)
  BY <1>1, <1>6 DEF Probe
<1>8. ~(Arrive(r) \/ Scan(r) \/ Acquire(r) \/ NoRoute(r) \/ LookForUnused(r))
  <2>1. breaker' # breaker
    BY <1>2
  <2> QED
    BY <2>1 DEF Arrive, Scan, Acquire, NoRoute, LookForUnused
<1> QED
  BY <1>4, <1>5, <1>7, <1>8 DEF Step

(* Only what a provider did counts against it: no failure of the gateway,  *)
(* of an earlier attempt or of another provider.                           *)
THEOREM OnlyProvidersCount == Spec => HealthFromProviderOnly
<1> DEFINE A == \A c \in Channels :
        breaker'[c].failures > breaker[c].failures =>
          \E r \in Requests : \E o \in Outcomes :
            /\ o.status = "retry" \/ o.err \in {"transport", "read"}
            /\ req[r].channel = c
            /\ Dispatch(r, o)
<1>1. ASSUME IInv, [Next]_vars PROVE [A]_vars
  <2> SUFFICES ASSUME NEW c \in Channels,
                      breaker'[c].failures > breaker[c].failures
               PROVE  \E r \in Requests : \E o \in Outcomes :
                        /\ o.status = "retry" \/ o.err \in {"transport", "read"}
                        /\ req[r].channel = c
                        /\ Dispatch(r, o)
    OBVIOUS
  <2>1. breaker[c].failures \in Nat
    BY <1>1 DEF IInv, TypeOK, BreakerType
  <2>2. breaker' # breaker
    BY <2>1
  <2>3. PICK r \in Requests : Step(r)
    BY <1>1, <2>2 DEF Next, Tick, Finished, vars
  <2> QED
    BY <1>1, <2>3, CountGrows
<1> HIDE DEF A
<1>2. IInv /\ [Next]_vars => [A]_vars
  BY <1>1
<1>3. Spec => [][A]_vars
  BY <1>2, Invariant, PTL DEF Spec
<1> QED
  BY <1>3, PTL DEF HealthFromProviderOnly, A
----------------------------------------------------------------------------

(* The other requests only lose channels they watch, so that it is enough  *)
(* to look at the request that moves.                                      *)
LEMMA SearchKept ==
  ASSUME IInv, SearchInv, NEW r \in Requests, NEW q \in ReqType, Become(r, q),
         Search(q, healthy'[r])
  PROVE  SearchInv'
<1>1. /\ req'[r] = q
      /\ \A s \in Requests \ {r} :
           /\ req'[s] = req[s]
           /\ healthy'[s] = {c \in healthy[s] :
                req[s].pc \in Routing /\ breaker'[c].state = Closed}
      /\ healthy'[r] =
           {c \in IF q.pc \in Routing /\ req[r].pc \notin Routing
                  THEN Candidates(q) ELSE healthy[r] :
              q.pc \in Routing /\ breaker'[c].state = Closed}
  BY Becoming, Zenon DEF IInv
<1> SUFFICES ASSUME NEW s \in Requests
             PROVE  /\ Search(req'[s], healthy'[s])
                    /\ \A c \in healthy'[s] : breaker'[c].state = Closed
  BY DEF SearchInv
<1>2. CASE s = r
  BY <1>1, <1>2, ZenonT(60)
<1>3. CASE s # r
  <2>1. Search(req[s], healthy[s])
    BY DEF SearchInv
  <2>2. healthy'[s] \subseteq healthy[s] /\ req'[s] = req[s]
    BY <1>1, <1>3
  <2>3. Search(req[s], healthy'[s])
    BY <2>1, <2>2 DEF Search
  <2> QED
    BY <1>1, <1>3, <2>2, <2>3
<1> QED
  BY <1>2, <1>3

(* A context outside Route watches nothing. *)
LEMMA SearchOver ==
  ASSUME IInv, SearchInv, NEW r \in Requests, NEW q \in ReqType, Become(r, q),
         q.pc \notin Routing
  PROVE  SearchInv'
<1>1. healthy'[r] = {}
  BY Becoming DEF IInv
<1>2. Search(q, healthy'[r])
  BY <1>1 DEF Search, Routing
<1> QED
  BY <1>2, SearchKept

(* Route begins with all its candidates to scan. *)
LEMMA SearchBegins ==
  ASSUME IInv, SearchInv, NEW r \in Requests, req[r].pc \notin Routing,
         NEW z \in ReqType, z.channel = NoChannel, Become(r, StartRoute(z))
  PROVE  SearchInv'
<1> DEFINE q == StartRoute(z)
<1>1. /\ q \in ReqType /\ q.closed = {}
      /\ Candidates(q) = Candidates(z)
      /\ Candidates(z) = {} => q.pc = "probe"
      /\ Candidates(z) # {} => q.pc = "scan" /\ q.todo = Candidates(z)
  BY StartRouteType
<1>2. Become(r, q)
  OBVIOUS
<1> HIDE DEF q
<1>3. q.pc \in Routing
  BY <1>1 DEF Routing
<1>4. healthy'[r] \subseteq Candidates(q)
  <2>1. healthy'[r] = {c \in IF q.pc \in Routing /\ req[r].pc \notin Routing
                             THEN Candidates(q) ELSE healthy[r] :
                         q.pc \in Routing /\ breaker'[c].state = Closed}
    BY <1>1, <1>2, Becoming, Zenon DEF IInv
  <2> QED
    BY <1>3, <2>1
<1>5. Search(q, healthy'[r])
  BY <1>1, <1>4 DEF Search
<1> QED
  BY <1>1, <1>2, <1>5, SearchKept

(* While Route goes on, what it watches only shrinks to what is closed. *)
LEMMA Watching ==
  ASSUME IInv, NEW r \in Requests, NEW q \in ReqType, Become(r, q), req[r].pc \in Routing
  PROVE  \A c \in healthy'[r] : c \in healthy[r] /\ breaker'[c].state = Closed
<1>1. healthy'[r] = {c \in IF q.pc \in Routing /\ req[r].pc \notin Routing
                           THEN Candidates(q) ELSE healthy[r] :
                       q.pc \in Routing /\ breaker'[c].state = Closed}
  BY Becoming, Zenon DEF IInv
<1> QED
  BY <1>1

(* Route leaves a group with none of the channels it watches behind. *)
LEMMA SearchNextGroup ==
  ASSUME IInv, SearchInv, NEW r \in Requests, req[r].pc \in {"scan", "acquire"},
         NEW rest \in SUBSET Channels, Become(r, NextGroup(req[r], rest)),
         healthy'[r] \subseteq rest
  PROVE  SearchInv'
<1> DEFINE q == NextGroup(req[r], rest)
<1>1. req[r] \in ReqType /\ req[r].channel = NoChannel /\ req[r].lease = NoLease
  BY SMTT(60) DEF IInv, TypeOK, ContextInv, Context
<1>2. /\ q \in ReqType /\ q.closed = {}
      /\ rest = {} => q.pc = "probe"
      /\ rest # {} => q.pc = "scan" /\ q.todo = rest
  BY <1>1, NextGroupType
<1>3. Become(r, q)
  OBVIOUS
<1> HIDE DEF q
<1>4. Search(q, healthy'[r])
  BY <1>2 DEF Search
<1> QED
  BY <1>2, <1>3, <1>4, SearchKept

(* One read of the scan.  With one channel to a priority the group ends    *)
(* with it: it is picked, or it is not closed and nothing watched is lost. *)
LEMMA ScanSearches ==
  ASSUME DistinctPriorities, IInv, SearchInv, NEW r \in Requests, Scan(r)
  PROVE  SearchInv'
<1> DEFINE c == First(req[r].todo)
           rest == req[r].todo \ {c}
           closed == req[r].closed \cup {d \in {c} : breaker[d].state = Closed}
<1>1. /\ req[r] \in ReqType /\ req[r].pc = "scan"
      /\ req[r].channel = NoChannel /\ req[r].lease = NoLease
      /\ c \in req[r].todo /\ c \in Channels
      /\ \A d \in req[r].todo : Priority[c] <= Priority[d]
      /\ rest \in SUBSET Channels /\ closed \in SUBSET Channels
      /\ UNCHANGED <<breaker, now, failedAt, fresh>>
      /\ Become(r, AfterScan(req[r], c, rest, closed))
  BY ScanBecomes, ZenonT(60)
<1>2. req[r].closed = {} /\ healthy[r] \subseteq req[r].todo
  BY <1>1, ZenonT(60) DEF SearchInv, Search
<1>3. LastOfGroup(c, rest)
  BY <1>1 DEF LastOfGroup, DistinctPriorities
<1>4. CASE breaker[c].state = Closed
  <2> DEFINE q == [req[r] EXCEPT !.pc = "acquire", !.todo = rest, !.closed = {c}]
  <2>1. closed = {c}
    BY <1>2, <1>4
  <2>2. AfterScan(req[r], c, rest, closed) = q
    BY <1>3, <2>1, ZenonT(60) DEF AfterScan
  <2>3. Become(r, q)
    BY <1>1, <2>2
  <2>4. q \in ReqType
    BY <1>1, ZenonT(60) DEF ReqType
  <2>5. q.pc = "acquire" /\ q.todo = rest /\ q.closed = {c}
    BY <1>1 DEF ReqType
  <2> HIDE DEF q
  <2>6. healthy'[r] \subseteq healthy[r]
    BY <1>1, <2>3, <2>4, Watching, ZenonT(60) DEF Routing
  <2>7. Search(q, healthy'[r])
    BY <1>1, <1>2, <2>5, <2>6, ZenonT(60) DEF Search
  <2> QED
    BY <2>3, <2>4, <2>7, SearchKept
<1>5. CASE breaker[c].state # Closed
  <2> DEFINE q == NextGroup(req[r], rest)
  <2>1. closed = {}
    BY <1>2, <1>5
  <2>2. AfterScan(req[r], c, rest, closed) = q
    BY <1>3, <2>1, ZenonT(60) DEF AfterScan
  <2>3. Become(r, q)
    BY <1>1, <2>2, SMTT(60)
  <2>4. q \in ReqType
    BY <1>1, NextGroupType, ZenonT(60)
  <2> HIDE DEF q
  <2>5. \A d \in healthy'[r] : d \in healthy[r] /\ breaker'[d].state = Closed
    BY <1>1, <2>3, <2>4, Watching, ZenonT(60) DEF Routing
  <2>6. healthy'[r] \subseteq rest
    BY <1>1, <1>2, <1>5, <2>5
  <2> HIDE DEF rest
  <2> QED
    BY <1>1, <2>3, <2>6, SearchNextGroup, ZenonT(60) DEF q
<1> QED
  BY <1>4, <1>5, SMTT(60)

(* AcquireClosed on the channel picked: Route returns it, or it is open    *)
(* and not watched.                                                        *)
LEMMA AcquireSearches ==
  ASSUME IInv, SearchInv, NEW r \in Requests, Acquire(r)
  PROVE  SearchInv'
<1>1. /\ req[r] \in ReqType /\ req[r].pc = "acquire"
      /\ req[r].channel = NoChannel /\ req[r].lease = NoLease
  BY DEF IInv, TypeOK, ContextInv, Context, Acquire
<1>2. req[r].todo \in SUBSET Channels /\ req[r].closed \in SUBSET Channels
  BY <1>1 DEF ReqType
<1>3. PICK c \in req[r].closed :
       IF CanAcquire(breaker[c])
       THEN Become(r, Select(req[r], c, ClosedLease(breaker[c])))
       ELSE /\ UNCHANGED <<breaker, now, failedAt, fresh>>
            /\ Become(r, NextGroup(req[r], req[r].todo))
  BY DEF Acquire, PickWeighted
<1>4. c \in Channels /\ breaker[c] \in BreakerType
  BY <1>2 DEF IInv, TypeOK
<1>5. CASE CanAcquire(breaker[c])
  <2> DEFINE l == ClosedLease(breaker[c])
             q == Select(req[r], c, l)
  <2>1. l \in LeaseType /\ l.held
    BY <1>4, LeaseTypes, ZenonT(60)
  <2>2. Become(r, q)
    BY <1>3, <1>5
  <2> HIDE DEF l
  <2>3. q \in ReqType /\ q.pc \in {"unused", "attempt"}
    BY <1>1, <1>4, <2>1, SelectType, ZenonT(60)
  <2> HIDE DEF q
  <2> QED
    BY <2>2, <2>3, SearchOver DEF Routing
<1>6. CASE ~CanAcquire(breaker[c])
  <2>1. Become(r, NextGroup(req[r], req[r].todo)) /\ breaker' = breaker
    BY <1>3, <1>6
  <2>2. NextGroup(req[r], req[r].todo) \in ReqType
    BY <1>1, <1>2, NextGroupType, ZenonT(60)
  <2>3. \A d \in healthy'[r] : d \in healthy[r] /\ breaker'[d].state = Closed
    BY <1>1, <2>1, <2>2, Watching, ZenonT(60) DEF Routing
  <2>4. healthy[r] \subseteq req[r].todo \cup {c}
    BY <1>1, <1>3 DEF SearchInv, Search
  <2>5. healthy'[r] \subseteq req[r].todo
    BY <1>6, <2>1, <2>3, <2>4 DEF CanAcquire
  <2> QED
    BY <1>1, <1>2, <2>1, <2>5, SearchNextGroup, ZenonT(60)
<1> QED
  BY <1>5, <1>6, ZenonT(60)

(* Route probes only once there is nothing left that it watches. *)
LEMMA ProbeSearches ==
  ASSUME IInv, SearchInv, NEW r \in Requests, Probe(r)
  PROVE  SearchInv'
<1>1. req[r].pc = "probe" /\ req[r].pc \in Routing
  BY DEF Probe, Routing
<1>2. healthy[r] = {}
  BY <1>1 DEF SearchInv, Search
<1>3. PICK q \in ReqType : Become(r, q) /\ q.pc \notin {"scan", "acquire"}
  <2> DEFINE c == First(req[r].todo)
  <2>1. /\ req[r] \in ReqType /\ req[r].todo # {}
    BY DEF IInv, TypeOK, Probe
  <2>2. req[r].todo \in SUBSET Channels
    BY <2>1 DEF ReqType
  <2>3. c \in Channels /\ breaker[c] \in BreakerType
    BY <2>1, <2>2, FirstIsFirst DEF IInv, TypeOK
  <2>4. \/ Become(r, Select(req[r], c, ProbeLease(breaker[c])))
        \/ Become(r, [req[r] EXCEPT !.todo = @ \ {c}])
    BY DEF Probe
  <2> HIDE DEF c
  <2>5. ProbeLease(breaker[c]) \in LeaseType /\ ProbeLease(breaker[c]).held
    BY <2>3, LeaseTypes
  <2>6. /\ Select(req[r], c, ProbeLease(breaker[c])) \in ReqType
        /\ Select(req[r], c, ProbeLease(breaker[c])).pc \in {"unused", "attempt"}
    BY <2>1, <2>3, <2>5, SelectType
  <2>7. [req[r] EXCEPT !.todo = @ \ {c}] \in ReqType
    BY <2>1, <2>2 DEF ReqType
  <2>8. [req[r] EXCEPT !.todo = @ \ {c}].pc = "probe"
    BY <1>1, <2>1 DEF ReqType
  <2> QED
    BY <2>4, <2>6, <2>7, <2>8, ZenonT(60)
<1>4. healthy'[r] = {}
  BY <1>1, <1>2, <1>3, Watching
<1>5. Search(q, healthy'[r])
  BY <1>3, <1>4 DEF Search
<1> QED
  BY <1>3, <1>5, SearchKept

(* Every step keeps the search complete. *)
LEMMA NextSearches ==
  ASSUME DistinctPriorities, IInv, SearchInv, [Next]_vars
  PROVE  SearchInv'
<1>1. CASE Tick
  BY <1>1 DEF Tick, SearchInv
<1>2. CASE UNCHANGED vars
  BY <1>2 DEF vars, SearchInv
<1>3. ASSUME NEW r \in Requests, Step(r) PROVE SearchInv'
  <2>0. req[r] \in ReqType
    BY DEF IInv, TypeOK
  <2>1. CASE Arrive(r)
    <3>1. req[r].pc \notin Routing /\ req[r].channel = NoChannel
      BY <2>1 DEF Arrive, Routing, IInv, ContextInv, Context
    <3>2. CASE Become(r, Answer(req[r], Gateway("local")))
      <4>1. /\ Answer(req[r], Gateway("local")) \in ReqType
            /\ Answer(req[r], Gateway("local")).pc \notin Routing
        BY <2>0, AnswerType, ReplyTypes, ZenonT(60) DEF Routing
      <4> QED
        BY <3>2, <4>1, SearchOver
    <3>3. CASE Become(r, StartRoute(req[r]))
      BY <2>0, <3>1, <3>3, SearchBegins
    <3> QED
      BY <2>1, <3>2, <3>3 DEF Arrive
  <2>2. CASE NoRoute(r)
    <3> DEFINE reply == Gateway(IF req[r].tried = {} THEN "503" ELSE "502")
    <3>1. reply \in ReplyType /\ Become(r, Answer(req[r], reply))
      BY <2>2, ReplyTypes DEF NoRoute
    <3> HIDE DEF reply
    <3>2. Answer(req[r], reply) \in ReqType /\ Answer(req[r], reply).pc \notin Routing
      BY <2>0, <3>1, AnswerType DEF Routing
    <3> QED
      BY <3>1, <3>2, SearchOver
  <2>3. CASE LookForUnused(r)
    <3>1. req[r].pc = "unused"
      BY <2>3 DEF LookForUnused
    <3>2. PICK c, q :
            /\ \/ q = [req[r] EXCEPT !.pc = "attempt"]
               \/ q = [req[r] EXCEPT !.pc = "attempt", !.todo = {}, !.canFallback = TRUE]
               \/ q = [req[r] EXCEPT !.todo = @ \ {c}]
            /\ Become(r, q)
      BY <2>3, Zenon DEF LookForUnused
    <3>3. q \in ReqType
      <4>1. [req[r] EXCEPT !.pc = "attempt"] \in ReqType
        BY <2>0 DEF ReqType
      <4>2. [req[r] EXCEPT !.pc = "attempt", !.todo = {}, !.canFallback = TRUE] \in ReqType
        BY <2>0, ZenonT(60) DEF ReqType
      <4>3. [req[r] EXCEPT !.todo = @ \ {c}] \in ReqType
        BY <2>0 DEF ReqType
      <4> QED
        BY <3>2, <4>1, <4>2, <4>3
    <3>4. q.pc \notin Routing
      BY <2>0, <3>1, <3>2, ZenonT(60) DEF ReqType, Routing
    <3> QED
      BY <3>2, <3>3, <3>4, SearchOver
  <2>4. ASSUME NEW q \in ReqType, Settles(r, q) PROVE SearchInv'
    <3>1. req[r].pc \notin Routing
      BY <2>4 DEF Settles, Routing
    <3> DEFINE z == [q EXCEPT !.channel = NoChannel]
    <3>2. z \in ReqType /\ z.channel = NoChannel
      BY <2>4 DEF ReqType
    <3>3. q.reply \in ReplyType
      BY <2>4 DEF ReqType
    <3>4. Become(r, StartRoute(z)) \/ Become(r, Answer(q, q.reply))
      BY <2>4 DEF Settles, EndAttempt
    <3> HIDE DEF z
    <3>5. Answer(q, q.reply) \in ReqType /\ Answer(q, q.reply).pc \notin Routing
      BY <2>4, <3>3, AnswerType DEF Routing
    <3> QED
      BY <3>1, <3>2, <3>4, <3>5, SearchBegins, SearchOver
  <2>5. CASE LocalFailure(r) \/ Panic(r)
    BY <2>4, <2>5, SilentEnd
  <2>6. CASE \E o \in Outcomes : Dispatch(r, o)
    BY <2>4, <2>6, DispatchEnd
  <2> QED
    BY <1>3, <2>1, <2>2, <2>3, <2>5, <2>6, ScanSearches, AcquireSearches,
       ProbeSearches DEF Step
<1> QED
  BY <1>1, <1>2, <1>3 DEF Next, Finished

(* Nothing is watched before a request arrives. *)
LEMMA InitSearches == Init => SearchInv
<1> SUFFICES ASSUME Init, NEW r \in Requests
             PROVE  Search(req[r], healthy[r]) /\ healthy[r] = {}
  BY SMTT(60) DEF SearchInv
<1>1. req[r].pc = "new" /\ healthy[r] = {}
  BY DEF Init, NewReq
<1> QED
  BY <1>1 DEF Search

(* The step in which Route returns. *)
LEMMA RouteReturnsBest ==
  ASSUME IInv, SearchInv, [Next]_vars, NEW r \in Requests,
         req[r].pc \in Routing, req'[r].pc \notin Routing, NEW c \in healthy[r]
  PROVE  /\ req'[r].pc # "done"
         /\ ~req'[r].lease.probe
         /\ Priority[req'[r].channel] <= Priority[c]
<1>0. req[r] \in ReqType /\ TypeOK
  BY ZenonT(60) DEF IInv, TypeOK
<1>1. req[r].pc \in {"scan", "acquire"}
  BY DEF SearchInv, Search
<1>2. PICK s \in Requests : Step(s)
  BY SMTT(60) DEF Next, Tick, Finished, vars
<1>3. s = r
  <2>1. ASSUME NEW q \in ReqType, Become(s, q), s # r PROVE FALSE
    BY <1>0, <2>1, Becoming
  <2>2. ASSUME NEW q \in ReqType, Settles(s, q), s # r PROVE FALSE
    BY <2>1, <2>2, Settling, ZenonT(60)
  <2> QED
    BY <1>2, <2>1, <2>2, StepCalls, ZenonT(60) DEF Calls, NoCall, TakesLease, TakesProbe
<1>4. CASE Scan(r)
  <2> DEFINE f == First(req[r].todo)
             rest == req[r].todo \ {f}
             closed == req[r].closed \cup {d \in {f} : breaker[d].state = Closed}
             q == AfterScan(req[r], f, rest, closed)
  <2>1. /\ req[r].pc = "scan" /\ req[r].channel = NoChannel /\ req[r].lease = NoLease
        /\ f \in Channels /\ rest \in SUBSET Channels /\ closed \in SUBSET Channels
        /\ Become(r, q)
    BY <1>4, ScanBecomes, ZenonT(60)
  <2> HIDE DEF f, rest, closed
  <2>2. q \in ReqType
    BY <1>0, <2>1, AfterScanType, ZenonT(60)
  <2>3. NextGroup(req[r], rest).pc \in Routing
    BY <1>0, <2>1, NextGroupType DEF Routing
  <2>4. q.pc \in Routing
    BY <1>0, <2>1, <2>3, ZenonT(60) DEF AfterScan, Routing, ReqType
  <2> HIDE DEF q
  <2> QED
    BY <1>0, <2>1, <2>2, <2>4, Becoming
<1>5. CASE Acquire(r)
  <2>1. req[r].pc = "acquire" /\ req[r].channel = NoChannel /\ req[r].lease = NoLease
    BY <1>5, ZenonT(60) DEF Acquire, IInv, ContextInv, Context
  <2>2. req[r].todo \in SUBSET Channels /\ req[r].closed \in SUBSET Channels
    BY <1>0, ZenonT(60) DEF ReqType
  <2>3. PICK d \in req[r].closed :
         IF CanAcquire(breaker[d])
         THEN Become(r, Select(req[r], d, ClosedLease(breaker[d])))
         ELSE Become(r, NextGroup(req[r], req[r].todo))
    BY <1>5 DEF Acquire, PickWeighted
  <2>4. d \in Channels /\ breaker[d] \in BreakerType
    BY <2>2 DEF IInv, TypeOK
  <2>5. CASE CanAcquire(breaker[d])
    <3> DEFINE l == ClosedLease(breaker[d])
               q == Select(req[r], d, l)
    <3>1. l \in LeaseType /\ l.held /\ ~l.probe
      BY <2>4, LeaseTypes
    <3>2. Become(r, q)
      BY <2>3, <2>5
    <3> HIDE DEF l
    <3>3. /\ q \in ReqType /\ q.pc \in {"unused", "attempt"}
          /\ q.channel = d /\ q.lease = l
      BY <1>0, <2>4, <3>1, SelectType, ZenonT(60)
    <3> HIDE DEF q
    <3>4. req'[r] = q
      BY <1>0, <3>2, <3>3, Becoming
    <3>5. Priority[d] <= Priority[c]
      <4>1. c \in req[r].todo \cup {d} /\ \A e \in req[r].todo : Priority[d] <= Priority[e]
        BY <2>1, <2>3 DEF SearchInv, Search
      <4>2. Priority[d] \in Nat
        BY <2>4, RouterAssumption, ZenonT(60)
      <4> QED
        BY <4>1, <4>2, SMTT(60)
    <3> QED
      BY <3>1, <3>3, <3>4, <3>5
  <2>6. CASE ~CanAcquire(breaker[d])
    <3> DEFINE q == NextGroup(req[r], req[r].todo)
    <3>1. q \in ReqType /\ q.pc \in Routing
      BY <1>0, <2>1, <2>2, NextGroupType, SMTT(60) DEF Routing
    <3>2. Become(r, q)
      BY <2>3, <2>6, ZenonT(60)
    <3> HIDE DEF q
    <3> QED
      BY <1>0, <3>1, <3>2, Becoming, ZenonT(60)
  <2> QED
    BY <2>5, <2>6, ZenonT(60)
<1> QED
  BY <1>1, <1>2, <1>3, <1>4, <1>5, ZenonT(60)
  DEF Step, Arrive, Probe, NoRoute, LookForUnused, LocalFailure, Panic, Dispatch

(* With one channel to a priority, Route returns a channel whenever one of *)
(* its candidates has been closed all the time, does not probe instead,    *)
(* and returns none of a worse priority, whatever other requests do to the *)
(* breakers between its reads.                                             *)
THEOREM RoutesToBest == ASSUME DistinctPriorities PROVE Spec => BestAvailable
<1> DEFINE A == \A r \in Requests :
        req[r].pc \in Routing /\ req'[r].pc \notin Routing =>
          \A c \in healthy[r] :
            /\ req'[r].pc # "done"
            /\ ~req'[r].lease.probe
            /\ Priority[req'[r].channel] <= Priority[c]
<1>1. Init => SearchInv
  BY InitSearches
<1>2. IInv /\ SearchInv /\ [Next]_vars => SearchInv'
  BY NextSearches
<1>3. IInv /\ SearchInv /\ [Next]_vars => [A]_vars
  BY RouteReturnsBest
<1> HIDE DEF A
<1>4. Spec => [][A]_vars
  BY <1>1, <1>2, <1>3, Invariant, PTL DEF Spec
<1> QED
  BY <1>4, PTL DEF BestAvailable, A
=============================================================================
