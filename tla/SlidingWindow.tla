--------------------------- MODULE SlidingWindow ---------------------------
(***************************************************************************)
(* The slidingWindow of the memory limiter                                 *)
(* (internal/middleware/ratelimit.go): charges in the order of their time, *)
(* those before head already expired, and a running total of the others.   *)
(* A window that is not in the limiter's map behaves as an empty one.      *)
(***************************************************************************)
EXTENDS Integers, Sequences, FiniteSets, Functions

CONSTANTS
  Window,        \* the length of a window, time.Minute in the code
  CompactAt      \* the number of expired charges that are worth moving, 1024

Dimensions == {"rpm", "tpm"}

EmptyWindow == [counts |-> <<>>, head |-> 0, total |-> 0]

CountOf(counts, indices) ==
  SumFunctionOnSet([i \in DOMAIN counts |-> counts[i].n], indices)

SumOf(counts) == CountOf(counts, DOMAIN counts)

(* The charges from head on that have expired; the first that has not ends *)
(* the scan.                                                               *)
Expired(at, now) == at <= now - Window

ExpiredFrom(sw, now) ==
  {i \in sw.head + 1 .. Len(sw.counts) :
     \A j \in sw.head + 1 .. i : Expired(sw.counts[j].at, now)}

Prune(sw, now) ==
  LET gone == ExpiredFrom(sw, now)
      head == sw.head + Cardinality(gone)
      total == sw.total - CountOf(sw.counts, gone)
  IN  IF head = Len(sw.counts) THEN EmptyWindow
      ELSE IF head >= CompactAt /\ head * 2 >= Len(sw.counts)
      THEN [counts |-> SubSeq(sw.counts, head + 1, Len(sw.counts)),
            head |-> 0, total |-> total]
      ELSE [counts |-> sw.counts, head |-> head, total |-> total]

Charge(sw, n, now) ==
  [sw EXCEPT !.counts = Append(@, [at |-> now, n |-> n]), !.total = @ + n]
=============================================================================
