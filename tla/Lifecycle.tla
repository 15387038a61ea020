----------------------------- MODULE Lifecycle -----------------------------
(***************************************************************************)
(* The end of a server (internal/server/server.go): Run stops the          *)
(* listeners on a signal or a serve error, waits for the handlers that     *)
(* handlerLifecycle counts, and then calls the shutdown hooks, which clear *)
(* the signing key and the provider keys those handlers use.               *)
(*                                                                         *)
(* drained is a Go channel that begin replaces and done closes.  Channels  *)
(* are numbered in the order they are made; closed is the set of those     *)
(* that have been closed, and Run waits on the one it was given when       *)
(* draining started.                                                       *)
(*                                                                         *)
(* Time is left out: each timer is an action that may fire.  A request may *)
(* reach the wrapped handler at any time, also on a connection accepted    *)
(* before the listeners stopped.                                           *)
(***************************************************************************)
EXTENDS Naturals, FiniteSets

CONSTANTS
  Handlers,      \* the requests that reach the wrapped handler
  Hooks          \* the number of shutdown hooks

ASSUME LifecycleAssumption ==
  /\ IsFiniteSet(Handlers)
  /\ Hooks \in Nat

VARIABLES
  handler,       \* handler[h]: the progress of request h
  active,        \* handlerLifecycle.active
  draining,      \* handlerLifecycle.draining
  chan,          \* handlerLifecycle.drained
  closed,        \* the channels that are closed
  run,           \* where Run is
  drained,       \* the channel Run waits on
  next,          \* the position of closeResources in the list of hooks
  hook,          \* hook[i]: the progress of the i-th hook
  expired,       \* the deadline of closeResources has passed
  errs           \* the errors Run returns

lifeVars == <<handler, active, draining, chan, closed>>
hookVars == <<next, hook, expired>>
vars == <<lifeVars, run, drained, hookVars, errs>>

Finished == {"ok", "err", "panic"}

(* Counters, channels, hooks and errors have their types. *)
TypeOK ==
  /\ handler \in [Handlers -> {"queued", "serving", "done", "refused"}]
  /\ active \in Nat
  /\ draining \in BOOLEAN
  /\ chan \in Nat
  /\ closed \subseteq Nat
  /\ run \in {"serving", "shutdown", "waiting", "hooks", "returned"}
  /\ drained \in Nat
  /\ next \in 1 .. Hooks + 1
  /\ hook \in [1 .. Hooks -> {"pending", "running"} \cup Finished]
  /\ expired \in BOOLEAN
  /\ errs \subseteq {"shutdown", "drain", "serve", "hook", "timeout", "panic"}

(* newHandlerLifecycle starts with a closed channel. *)
Init ==
  /\ handler = [h \in Handlers |-> "queued"]
  /\ active = 0
  /\ draining = FALSE
  /\ chan = 0
  /\ closed = {0}
  /\ run = "serving"
  /\ drained = 0
  /\ next = 1
  /\ hook = [i \in 1 .. Hooks |-> "pending"]
  /\ expired = FALSE
  /\ errs = {}
----------------------------------------------------------------------------

(* wrap calls begin: the request is served, or answered with 503. *)
Begin(h) ==
  /\ handler[h] = "queued"
  /\ IF draining
     THEN /\ handler' = [handler EXCEPT ![h] = "refused"]
          /\ UNCHANGED <<active, chan>>
     ELSE /\ handler' = [handler EXCEPT ![h] = "serving"]
          /\ chan' = IF active = 0 THEN chan + 1 ELSE chan
          /\ active' = active + 1
  /\ UNCHANGED <<draining, closed, run, drained, hookVars, errs>>

(* The handler returns or panics; the deferred done runs. *)
Done(h) ==
  /\ handler[h] = "serving"
  /\ handler' = [handler EXCEPT ![h] = "done"]
  /\ active' = active - 1
  /\ closed' = IF active = 1 THEN closed \cup {chan} ELSE closed
  /\ UNCHANGED <<draining, chan, run, drained, hookVars, errs>>
----------------------------------------------------------------------------

StartDraining ==
  /\ draining' = TRUE
  /\ drained' = chan
  /\ UNCHANGED <<handler, active, chan, closed>>

(* The context of Run is cancelled by a signal. *)
Signal ==
  /\ run = "serving"
  /\ StartDraining
  /\ run' = "shutdown"
  /\ UNCHANGED <<hookVars, errs>>

(* A listener fails; both are closed and Run waits for the handlers. *)
ServeError ==
  /\ run = "serving"
  /\ StartDraining
  /\ run' = "waiting"
  /\ errs' = errs \cup {"serve"}
  /\ UNCHANGED hookVars

(* shutdownListeners returns nil.  That need not mean that the handlers    *)
(* are gone (a reset HTTP/2 stream leaves its handler running on an idle   *)
(* connection), which is why Run looks at the channel.                     *)
ShutdownReturns ==
  /\ run = "shutdown"
  /\ run' = IF drained \in closed THEN "hooks" ELSE "waiting"
  /\ UNCHANGED <<lifeVars, drained, hookVars, errs>>

(* Its context times out; the connections are closed by force. *)
ShutdownTimeout ==
  /\ run = "shutdown"
  /\ run' = "waiting"
  /\ errs' = errs \cup {"shutdown"}
  /\ UNCHANGED <<lifeVars, drained, hookVars>>

(* waitForHandlers, and the deferred closeResources after it returned      *)
(* true.                                                                   *)
HandlersDrained ==
  /\ run = "waiting"
  /\ drained \in closed
  /\ run' = "hooks"
  /\ UNCHANGED <<lifeVars, drained, hookVars, errs>>

(* waitForHandlers times out, having looked once more: the hooks are       *)
(* skipped.                                                                *)
DrainTimeout_WaitsForever == FALSE /\ UNCHANGED vars

DrainTimeout ==
  /\ run = "waiting"
  /\ drained \notin closed
  /\ run' = "returned"
  /\ errs' = errs \cup {"drain"}
  /\ UNCHANGED <<lifeVars, drained, hookVars>>
----------------------------------------------------------------------------

(* The deadline of closeResources passes. *)
Expire ==
  /\ run = "hooks"
  /\ ~expired
  /\ expired' = TRUE
  /\ UNCHANGED <<lifeVars, run, drained, next, hook, errs>>

(* The next hook is started in a goroutine, if there is time left. *)
StartHook ==
  /\ run = "hooks"
  /\ next <= Hooks
  /\ hook[next] = "pending"
  /\ ~expired
  /\ hook' = [hook EXCEPT ![next] = "running"]
  /\ UNCHANGED <<lifeVars, run, drained, next, expired, errs>>

(* callShutdownHook ends, possibly long after closeResources gave up. *)
HookEnds(i) ==
  /\ hook[i] = "running"
  /\ \E result \in Finished : hook' = [hook EXCEPT ![i] = result]
  /\ UNCHANGED <<lifeVars, run, drained, next, expired, errs>>

(* closeResources takes the result of a hook within the deadline: a panic  *)
(* ends it, any other result lets it go on.                                *)
HookError(i) ==
  CASE hook[i] = "ok" -> {}
    [] hook[i] = "err" -> {"hook"}
    [] hook[i] = "panic" -> {"panic"}

TakeResult ==
  /\ run = "hooks"
  /\ next <= Hooks
  /\ hook[next] \in Finished
  /\ ~expired
  /\ errs' = errs \cup HookError(next)
  /\ IF hook[next] = "panic"
     THEN run' = "returned" /\ next' = next
     ELSE run' = run /\ next' = next + 1
  /\ UNCHANGED <<lifeVars, drained, hook, expired>>

(* The deadline has passed: before the hook is started, while it runs, or  *)
(* by the time its result is there (the result may be lost to the timer).  *)
HooksTimeout ==
  /\ run = "hooks"
  /\ next <= Hooks
  /\ expired
  /\ run' = "returned"
  /\ \/ errs' = errs \cup {"timeout"}
     \/ /\ hook[next] \in Finished
        /\ errs' = errs \cup HookError(next) \cup {"timeout"}
  /\ UNCHANGED <<lifeVars, drained, hookVars>>

HooksDone ==
  /\ run = "hooks"
  /\ next = Hooks + 1
  /\ run' = "returned"
  /\ UNCHANGED <<lifeVars, drained, hookVars, errs>>

(* main exits with the process once Run has returned. *)
Exited == run = "returned" /\ UNCHANGED vars

RunStep ==
  \/ ShutdownReturns \/ ShutdownTimeout \/ HandlersDrained \/ DrainTimeout
  \/ StartHook \/ TakeResult \/ HooksTimeout \/ HooksDone

Next ==
  \/ \E h \in Handlers : Begin(h) \/ Done(h)
  \/ Signal \/ ServeError
  \/ RunStep
  \/ Expire
  \/ \E i \in 1 .. Hooks : HookEnds(i)
  \/ Exited

Spec == Init /\ [][Next]_vars
----------------------------------------------------------------------------

Serving == {h \in Handlers : handler[h] = "serving"}

(* done closes a channel that is open (closing one twice panics), and the  *)
(* channel that begin made last is closed exactly when no handler is       *)
(* active: a waiter is never released early and never left behind.         *)
ChannelTracksHandlers ==
  /\ active = Cardinality(Serving)
  /\ chan \in closed <=> active = 0

(* "Aegis never clears shared runtime resources while an active handler    *)
(* may still use them" (docs/architecture-design.md): once a hook has      *)
(* started no handler is being served, and none will be.                   *)
NoHookWhileServing ==
  (\E i \in 1 .. Hooks : hook[i] # "pending") => Serving = {}

(* The hooks run one after the other in their order, and none runs after   *)
(* one that panicked or was given up on: the admin handler's key is gone   *)
(* before the KMS closes.                                                  *)
HooksInOrder ==
  \A i, j \in 1 .. Hooks :
    i < j /\ hook[j] # "pending" => hook[i] \in {"ok", "err"}

(* Run returns nil only when every handler is gone and every hook has      *)
(* succeeded: whatever was skipped, abandoned or failed shows in its error *)
(* and in the exit status of the process.                                  *)
CleanExit ==
  run = "returned" /\ errs = {} =>
    Serving = {} /\ \A i \in 1 .. Hooks : hook[i] = "ok"
=============================================================================
