--------------------------- MODULE ProcessProofs ---------------------------
(***************************************************************************)
(* The safety properties of the server's lifecycle, for any number of      *)
(* requests and of hooks; that the process implements that lifecycle, so   *)
(* that they hold in it; and that its keys are live and cleared when they  *)
(* have to be.                                                             *)
(*                                                                         *)
(* NoHookWhileServing is not inductive.  What carries it is that the       *)
(* channel Run waits on is still the lifecycle's channel (DrainInv: no     *)
(* begin succeeds once draining is set, so none replaces it), that this    *)
(* channel is closed only while nothing is active (ChannelInv), and that   *)
(* the hooks start only after Run has seen it closed.                      *)
(*                                                                         *)
(* What carries the keys is KeyInv: those that are live are known from the *)
(* stage of the start, are all live until the first hook begins, and are   *)
(* gone once the hook that owns them has returned.                         *)
(***************************************************************************)
EXTENDS Process, FiniteSetTheorems, TLAPS

----------------------------------------------------------------------------
(* The lifecycle.  No step of this part uses ProcessAssumption, which says *)
(* how many hooks the process registers.                                   *)

(* The count is right, and no channel of the future is closed. *)
ChannelInv ==
  /\ ChannelTracksHandlers
  /\ \A c \in closed : c <= chan

(* Draining is set exactly once Run has left its select. *)
DrainInv ==
  /\ draining <=> run # "serving"
  /\ draining => drained = chan

(* Hooks are reached only through the closed channel. *)
GateInv ==
  run = "hooks" \/ (\E i \in 1 .. Hooks : hook[i] # "pending") =>
    draining /\ drained \in closed

(* The hooks before the current one have returned, those after it have not *)
(* begun; an error of one of them is kept; and without an error Run has    *)
(* come to the end of the list.                                            *)
HookInv ==
  /\ \A i \in 1 .. Hooks : i < next => hook[i] \in {"ok", "err"}
  /\ \A i \in 1 .. Hooks : i > next => hook[i] = "pending"
  /\ \A i \in 1 .. Hooks : i < next /\ hook[i] = "err" => "hook" \in errs
  /\ run = "returned" /\ errs = {} =>
       next = Hooks + 1 /\ draining /\ drained \in closed

IInv == TypeOK /\ ChannelInv /\ DrainInv /\ GateInv /\ HookInv

(* A request that begins adds one to the number being served, one that is  *)
(* done takes one away.                                                    *)
LEMMA Counting ==
  ASSUME NEW S \in SUBSET Handlers, NEW h \in Handlers
  PROVE  /\ IsFiniteSet(S)
         /\ Cardinality(S) \in Nat
         /\ Cardinality(S) = 0 <=> S = {}
         /\ h \notin S => Cardinality(S \cup {h}) = Cardinality(S) + 1
         /\ h \in S => Cardinality(S \ {h}) = Cardinality(S) - 1
<1>1. IsFiniteSet(S)
  BY LifecycleAssumption, FS_Subset
<1>2. Cardinality(S) \in Nat
  BY <1>1, FS_CardinalityType
<1>3. Cardinality(S) = 0 <=> S = {}
  BY <1>1, FS_EmptySet
<1>4. h \notin S => Cardinality(S \cup {h}) = Cardinality(S) + 1
  BY <1>1, FS_AddElement
<1>5. h \in S => Cardinality(S \ {h}) = Cardinality(S) - 1
  BY <1>1, FS_RemoveElement
<1> QED
  BY <1>1, <1>2, <1>3, <1>4, <1>5

(* The invariant holds before anything has started. *)
LEMMA InitIInv == Init => IInv
<1> SUFFICES ASSUME Init PROVE IInv
  OBVIOUS
<1> Hooks \in Nat
  BY LifecycleAssumption
<1>1. TypeOK
  <2>1. /\ handler \in [Handlers -> {"queued", "serving", "done", "refused"}]
        /\ hook \in [1 .. Hooks -> {"pending", "running"} \cup Finished]
    BY DEF Init
  <2>2. next \in 1 .. Hooks + 1 /\ closed \subseteq Nat
    BY DEF Init
  <2>3. /\ active \in Nat /\ chan \in Nat /\ drained \in Nat
        /\ draining \in BOOLEAN /\ expired \in BOOLEAN
    BY ZenonT(60) DEF Init
  <2>4. /\ run \in {"serving", "shutdown", "waiting", "hooks", "returned"}
        /\ errs \subseteq {"shutdown", "drain", "serve", "hook", "timeout", "panic"}
    BY DEF Init
  <2> QED
    BY <2>1, <2>2, <2>3, <2>4 DEF TypeOK
<1>2. Serving = {}
  BY DEF Init, Serving
<1>3. ChannelInv
  BY <1>2, FS_EmptySet DEF Init, ChannelInv, ChannelTracksHandlers
<1>4. DrainInv /\ GateInv /\ HookInv
  BY DEF Init, DrainInv, GateInv, HookInv
<1> QED
  BY <1>1, <1>3, <1>4 DEF IInv

(* A handler begins. *)
LEMMA BeginIInv ==
  ASSUME IInv, NEW h \in Handlers, Begin(h)
  PROVE  IInv'
<1> Hooks \in Nat
  BY LifecycleAssumption
<1>1. TypeOK'
  BY DEF IInv, TypeOK, Begin, hookVars, Finished
<1>2. CASE draining
  <2>1. Serving' = Serving
    BY <1>2 DEF Serving, Begin, IInv, TypeOK
  <2>2. ChannelInv'
    BY <1>2, <2>1 DEF IInv, ChannelInv, ChannelTracksHandlers, Begin
  <2>3. DrainInv' /\ GateInv' /\ HookInv'
    BY <1>2 DEF IInv, DrainInv, GateInv, HookInv, Begin, hookVars
  <2> QED
    BY <1>1, <2>2, <2>3 DEF IInv
<1>3. CASE ~draining
  <2>1. h \notin Serving /\ Serving' = Serving \cup {h}
    BY <1>3 DEF Serving, Begin, IInv, TypeOK
  <2>2. Serving \in SUBSET Handlers
    BY DEF Serving
  <2>3. Cardinality(Serving') = Cardinality(Serving) + 1
    BY <2>1, <2>2, Counting
  <2>4. chan' \notin closed
    BY <1>3 DEF IInv, TypeOK, ChannelInv, ChannelTracksHandlers, Begin
  <2>5. ChannelInv'
    BY <1>3, <2>3, <2>4 DEF IInv, TypeOK, ChannelInv, ChannelTracksHandlers, Begin
  <2>6. DrainInv' /\ GateInv' /\ HookInv'
    BY <1>3 DEF IInv, DrainInv, GateInv, HookInv, Begin, hookVars
  <2> QED
    BY <1>1, <2>5, <2>6 DEF IInv
<1> QED
  BY <1>2, <1>3

(* A handler is done. *)
LEMMA DoneIInv ==
  ASSUME IInv, NEW h \in Handlers, Done(h)
  PROVE  IInv'
<1> Hooks \in Nat
  BY LifecycleAssumption
<1>1. h \in Serving /\ Serving' = Serving \ {h}
  BY DEF Serving, Done, IInv, TypeOK
<1>2. Serving \in SUBSET Handlers
  BY DEF Serving
<1>3. active # 0 /\ Cardinality(Serving') = active - 1
  BY <1>1, <1>2, Counting, ZenonT(60) DEF IInv, ChannelInv, ChannelTracksHandlers
<1>4. TypeOK'
  BY <1>3 DEF IInv, TypeOK, Done, hookVars, Finished
<1>5. ChannelInv'
  BY <1>3 DEF IInv, TypeOK, ChannelInv, ChannelTracksHandlers, Done
<1>6. DrainInv' /\ GateInv' /\ HookInv'
  BY DEF IInv, TypeOK, DrainInv, GateInv, HookInv, Done, hookVars
<1> QED
  BY <1>4, <1>5, <1>6 DEF IInv

(* A step that leaves the handlers alone keeps what is said of them. *)
LEMMA SameHandlers ==
  ASSUME ChannelInv, handler' = handler, active' = active, chan' = chan,
         closed' = closed
  PROVE  ChannelInv'
<1>1. Serving' = Serving
  BY DEF Serving
<1> QED
  BY <1>1 DEF ChannelInv, ChannelTracksHandlers

(* Run, from the signal or the error of the listener to the end of the     *)
(* drain.                                                                  *)
LEMMA RunIInv ==
  ASSUME IInv, Signal \/ ServeError \/ ShutdownReturns \/ ShutdownTimeout
                 \/ HandlersDrained \/ DrainTimeout
  PROVE  IInv'
<1> Hooks \in Nat
  BY LifecycleAssumption
<1> USE DEF Signal, ServeError, ShutdownReturns, ShutdownTimeout,
            HandlersDrained, DrainTimeout, StartDraining, lifeVars, hookVars
<1>1. TypeOK'
  BY ZenonT(60) DEF IInv, TypeOK, Finished
<1>2. ChannelInv'
  BY SameHandlers DEF IInv
<1>3. DrainInv'
  BY DEF IInv, DrainInv
<1>4. GateInv'
  BY DEF IInv, TypeOK, DrainInv, GateInv
<1>5. HookInv'
  <2>1. /\ hook' = hook /\ next' = next /\ errs \subseteq errs'
        /\ run' = "returned" => errs' # {}
    OBVIOUS
  <2> QED
    BY <2>1 DEF IInv, TypeOK, HookInv
<1> QED
  BY <1>1, <1>2, <1>3, <1>4, <1>5 DEF IInv

(* The hooks are started, and their deadline passes. *)
LEMMA HooksIInv ==
  ASSUME IInv, Expire \/ StartHook \/ HooksTimeout \/ HooksDone
  PROVE  IInv'
<1> Hooks \in Nat
  BY LifecycleAssumption
<1> USE DEF Expire, StartHook, HooksTimeout, HooksDone, lifeVars, hookVars,
            HookError, Finished
<1>1. TypeOK'
  BY ZenonT(60) DEF IInv, TypeOK
<1>2. ChannelInv'
  BY SameHandlers DEF IInv
<1>3. DrainInv'
  BY DEF IInv, DrainInv
<1>4. GateInv'
  BY DEF IInv, TypeOK, GateInv
<1>5. HookInv'
  BY ZenonT(60) DEF IInv, TypeOK, HookInv, GateInv
<1> QED
  BY <1>1, <1>2, <1>3, <1>4, <1>5 DEF IInv

(* The result of a hook is taken, and the next is due. *)
LEMMA TakeResultIInv ==
  ASSUME IInv, TakeResult
  PROVE  IInv'
<1> Hooks \in Nat
  BY LifecycleAssumption
<1> USE DEF TakeResult, lifeVars, HookError, Finished
<1>1. TypeOK'
  BY DEF IInv, TypeOK
<1>2. ChannelInv'
  BY SameHandlers DEF IInv
<1>3. DrainInv' /\ GateInv'
  BY DEF IInv, DrainInv, GateInv
<1>4. HookInv'
  <2>1. CASE hook[next] = "panic"
    BY <2>1 DEF IInv, TypeOK, HookInv
  <2>2. CASE hook[next] # "panic"
    <3>1. /\ next' = next + 1 /\ run' = "hooks" /\ hook' = hook
          /\ hook[next] \in {"ok", "err"} /\ errs \subseteq errs'
          /\ hook[next] = "err" => "hook" \in errs'
      BY <2>2
    <3>2. next \in 1 .. Hooks
      BY DEF IInv, TypeOK
    <3> QED
      BY <3>1, <3>2 DEF IInv, TypeOK, HookInv
  <2> QED
    BY <2>1, <2>2
<1> QED
  BY <1>1, <1>2, <1>3, <1>4 DEF IInv

(* A hook ends. *)
LEMMA HookEndsIInv ==
  ASSUME IInv, NEW i \in 1 .. Hooks, HookEnds(i)
  PROVE  IInv'
<1> Hooks \in Nat
  BY LifecycleAssumption
<1> USE DEF HookEnds, lifeVars, Finished
<1>1. TypeOK'
  BY DEF IInv, TypeOK
<1>2. ChannelInv'
  BY SameHandlers DEF IInv
<1>3. DrainInv' /\ GateInv'
  BY DEF IInv, TypeOK, DrainInv, GateInv
<1>4. i = next
  BY DEF IInv, TypeOK, HookInv
<1>5. HookInv'
  BY <1>4 DEF IInv, TypeOK, HookInv
<1> QED
  BY <1>1, <1>2, <1>3, <1>5 DEF IInv

(* Every step of the lifecycle keeps the invariant. *)
LEMMA NextIInv == IInv /\ [Next]_vars => IInv'
<1> SUFFICES ASSUME IInv, [Next]_vars PROVE IInv'
  OBVIOUS
<1>1. CASE UNCHANGED vars
  <2>1. TypeOK' /\ DrainInv' /\ GateInv' /\ HookInv'
    BY <1>1 DEF IInv, TypeOK, DrainInv, GateInv, HookInv, vars, lifeVars, hookVars
  <2>2. ChannelInv'
    BY <1>1, SameHandlers DEF IInv, vars, lifeVars
  <2> QED
    BY <2>1, <2>2 DEF IInv
<1>2. CASE Next
  BY <1>1, <1>2, BeginIInv, DoneIInv, RunIInv, HooksIInv, TakeResultIInv, HookEndsIInv
  DEF Next, RunStep, Exited
<1> QED
  BY <1>1, <1>2

(* The inductive invariant holds of every behaviour. *)
THEOREM Invariance == Spec => []IInv
<1> QED
  BY InitIInv, NextIInv, PTL DEF Spec

(* Run, handlerLifecycle and closeResources keep the types of their state. *)
THEOREM TypeCorrect == Spec => []TypeOK
<1>1. IInv => TypeOK
  BY DEF IInv
<1> QED
  BY <1>1, Invariance, PTL

(* handlerLifecycle counts exactly, and its channel is closed exactly when *)
(* no handler is active.                                                   *)
THEOREM ChannelTracksHandlersHolds == Spec => []ChannelTracksHandlers
<1>1. IInv => ChannelTracksHandlers
  BY DEF IInv, ChannelInv
<1> QED
  BY <1>1, Invariance, PTL

(* No shutdown hook runs while a handler is being served. *)
THEOREM NoHookWhileServingHolds == Spec => []NoHookWhileServing
<1>1. IInv => NoHookWhileServing
  <2> SUFFICES ASSUME IInv, \E i \in 1 .. Hooks : hook[i] # "pending"
               PROVE  Serving = {}
    BY DEF NoHookWhileServing
  <2>1. active = 0
    BY DEF IInv, GateInv, DrainInv, ChannelInv, ChannelTracksHandlers
  <2>2. Cardinality(Serving) = 0 /\ Serving \in SUBSET Handlers
    BY <2>1 DEF IInv, ChannelInv, ChannelTracksHandlers, Serving
  <2>3. IsFiniteSet(Serving)
    BY <2>2, FS_Subset, LifecycleAssumption
  <2> QED
    BY <2>2, <2>3, FS_EmptySet
<1> QED
  BY <1>1, Invariance, PTL

(* closeResources runs the hooks in order and stops at a panic. *)
THEOREM HooksInOrderHolds == Spec => []HooksInOrder
<1>1. IInv => HooksInOrder
  BY LifecycleAssumption DEF IInv, TypeOK, HookInv, HooksInOrder
<1> QED
  BY <1>1, Invariance, PTL

(* Run returns nil only after a complete shutdown. *)
THEOREM CleanExitHolds == Spec => []CleanExit
<1>1. IInv => CleanExit
  <2> SUFFICES ASSUME IInv, run = "returned", errs = {}
               PROVE  Serving = {} /\ \A i \in 1 .. Hooks : hook[i] = "ok"
    BY DEF CleanExit
  <2>1. \A i \in 1 .. Hooks : hook[i] = "ok"
    BY LifecycleAssumption DEF IInv, TypeOK, HookInv
  <2>2. active = 0
    BY DEF IInv, HookInv, DrainInv, ChannelInv, ChannelTracksHandlers
  <2>3. Cardinality(Serving) = 0 /\ Serving \in SUBSET Handlers
    BY <2>2 DEF IInv, ChannelInv, ChannelTracksHandlers, Serving
  <2>4. IsFiniteSet(Serving)
    BY <2>3, FS_Subset, LifecycleAssumption
  <2> QED
    BY <2>1, <2>3, <2>4, FS_EmptySet
<1> QED
  BY <1>1, Invariance, PTL
----------------------------------------------------------------------------
(* The process.                                                            *)

(* What is live when a stage begins. *)
Held(stage) ==
  CASE stage \in {"load", "validate", "kms"} -> {}
    [] stage = "signing" -> {"kms"}
    [] stage = "reader" -> {"kms", "signing"}
    [] stage = "server" -> Resources
    [] OTHER -> {"kms", "signing", "poller"}

Pending == \A i \in 1 .. Hooks : hook[i] = "pending"

KeyInv ==
  /\ live \subseteq Resources
  /\ boot \in Stages \cup {"running", "failed"}
  /\ boot \in Stages => live = Held(boot)
  /\ boot = "failed" => live = {}
  /\ boot # "running" => Serving = {} /\ Pending
  /\ boot = "running" /\ Pending => live = Resources
  /\ hook[Hooks] \in {"ok", "err"} => live \cap CloseRuntimeResources = {}
  /\ AdminEnabled /\ hook[1] \in Finished => "admin" \notin live
  /\ exit = "0" => run = "returned" /\ errs = {}

(* Past the first two stages the configuration itself has no defect. *)
CheckedInv ==
  /\ boot \notin {"load", "failed"} => defects \cap (FileDefects \cup ValidateConfig) = {}
  /\ boot \notin {"load", "validate", "failed"} => defects \cap ValidateRuntimeConfig = {}

(* A step of the process is a step of the server's lifecycle or leaves it  *)
(* alone: the lifecycle is the view of the process without its keys.       *)
LEMMA ProcessStep == [ProcessNext]_processVars => [Next]_vars
<1> SUFFICES ASSUME [ProcessNext]_processVars PROVE [Next]_vars
  OBVIOUS
<1>1. ASSUME NEW stage \in Stages, Start(stage) PROVE UNCHANGED vars
  BY <1>1 DEF Start
<1>2. ASSUME NEW h \in Handlers, Serve(h) PROVE Next
  BY <1>2 DEF Serve, Next
<1>3. ASSUME Stop PROVE Next
  BY <1>3 DEF Stop, Next
<1>4. ASSUME Run PROVE Next
  BY <1>4 DEF Run, Next
<1>5. ASSUME Deadline PROVE Next
  BY <1>5 DEF Deadline, Next
<1>6. ASSUME CloseAdmin PROVE Next
  BY <1>6, ProcessAssumption DEF CloseAdmin, AdminHook, Next
<1>7. ASSUME NEW r \in CloseRuntimeResources, CloseResource(r) PROVE UNCHANGED vars
  BY <1>7 DEF CloseResource
<1>8. ASSUME HookReturns PROVE Next
  BY <1>8, ProcessAssumption DEF HookReturns, Next
<1>9. ASSUME Exit PROVE UNCHANGED vars
  BY <1>9 DEF Exit
<1>10. ASSUME ProcessExited \/ UNCHANGED processVars PROVE UNCHANGED vars
  BY <1>10 DEF ProcessExited, processVars
<1> QED
  BY <1>1, <1>2, <1>3, <1>4, <1>5, <1>6, <1>7, <1>8, <1>9, <1>10 DEF ProcessNext

(* The process implements Lifecycle's specification: main and newServer    *)
(* (cmd/aegis/main.go, runtime.go) only add what comes before and after    *)
(* the server's Run.                                                       *)
THEOREM ImplementsLifecycle == ProcessSpec => Spec
<1>1. ProcessInit => Init
  BY SMTT(60) DEF ProcessInit
<1> QED
  BY <1>1, ProcessStep, PTL DEF ProcessSpec, Spec

(* A stage of the start opens what the next one begins with, and one that  *)
(* fails releases all there is.                                            *)
LEMMA Stage ==
  ASSUME NEW stage \in Stages
  PROVE  /\ Following(stage) \in Stages \cup {"running"}
         /\ Following(stage) \in Stages => Held(stage) \cup Opens(stage) = Held(Following(stage))
         /\ Following(stage) = "running" => Held(stage) \cup Opens(stage) = Resources
         /\ Held(stage) \ Releases(stage) = {}
         /\ Held(stage) \subseteq Resources
<1>1. CASE stage = "load"
  BY <1>1 DEF Stages, Following, Held, Opens, Releases, Resources, CloseRuntimeResources
<1>2. CASE stage = "validate"
  BY <1>2 DEF Stages, Following, Held, Opens, Releases, Resources, CloseRuntimeResources
<1>3. CASE stage = "kms"
  BY <1>3 DEF Stages, Following, Held, Opens, Releases, Resources, CloseRuntimeResources
<1>4. CASE stage = "signing"
  BY <1>4 DEF Stages, Following, Held, Opens, Releases, Resources, CloseRuntimeResources
<1>5. CASE stage = "reader"
  BY <1>5 DEF Stages, Following, Held, Opens, Releases, Resources, CloseRuntimeResources
<1>6. CASE stage = "providers"
  BY <1>6 DEF Stages, Following, Held, Opens, Releases, Resources, CloseRuntimeResources
<1>7. CASE stage = "credentials"
  BY <1>7 DEF Stages, Following, Held, Opens, Releases, Resources, CloseRuntimeResources
<1>8. CASE stage = "quota"
  BY <1>8 DEF Stages, Following, Held, Opens, Releases, Resources, CloseRuntimeResources
<1>9. CASE stage = "options"
  BY <1>9 DEF Stages, Following, Held, Opens, Releases, Resources, CloseRuntimeResources
<1>10. CASE stage = "admin"
  BY <1>10, ProcessAssumption
     DEF Stages, Following, Held, Opens, Releases, Resources, CloseRuntimeResources
<1>11. CASE stage = "server"
  BY <1>11, ProcessAssumption
     DEF Stages, Following, Held, Opens, Releases, Resources, CloseRuntimeResources
<1> QED
  BY <1>1, <1>2, <1>3, <1>4, <1>5, <1>6, <1>7, <1>8, <1>9, <1>10, <1>11 DEF Stages

(* The invariant of the keys holds before anything has started. *)
LEMMA InitKeyInv == ProcessInit => KeyInv
<1> SUFFICES ASSUME ProcessInit PROVE KeyInv
  OBVIOUS
<1>1. Hooks \in Nat /\ Hooks >= 1
  BY ProcessAssumption
<1>2. Serving = {} /\ Pending
  BY DEF ProcessInit, Init, Serving, Pending
<1>3. boot = "load" /\ live = {} /\ exit = "none"
  BY DEF ProcessInit
<1>4. Held("load") = {}
  BY DEF Held
<1> QED
  BY <1>1, <1>2, <1>3, <1>4 DEF KeyInv, Pending, Stages, Finished

(* A step of the start. *)
LEMMA StartKeyInv ==
  ASSUME KeyInv, NEW stage \in Stages, Start(stage)
  PROVE  KeyInv'
<1>1. /\ Serving' = Serving /\ Pending' = Pending /\ hook' = hook
      /\ run' = run /\ errs' = errs
  BY DEF Start, vars, lifeVars, hookVars, Serving, Pending
<1>2. /\ boot = stage /\ stage # "running" /\ stage # "failed"
      /\ live = Held(stage) /\ Serving = {} /\ Pending
  BY DEF Start, KeyInv, Stages
<1>3. hook[Hooks] = "pending" /\ hook[1] = "pending"
  BY <1>2, ProcessAssumption DEF Pending
<1>4. live' \subseteq Resources
  BY <1>2, Stage DEF Start, Opens, Resources
<1>5. CASE Checks(stage) \cap defects = {}
  <2>1. boot' = Following(stage) /\ live' = Held(stage) \cup Opens(stage) /\ exit' = exit
    BY <1>2, <1>5 DEF Start
  <2>2. boot' # "failed" /\ boot' \in Stages \cup {"running"}
    BY <2>1, Stage DEF Stages
  <2>3. /\ boot' \in Stages => live' = Held(boot')
        /\ boot' = "running" => live' = Resources
    BY <2>1, Stage
  <2>4. (exit = "0" => run = "returned" /\ errs = {})'
    BY <1>1, <2>1 DEF KeyInv
  <2> QED
    BY <1>1, <1>2, <1>3, <1>4, <2>2, <2>3, <2>4 DEF KeyInv, Finished
<1>6. CASE Checks(stage) \cap defects # {}
  <2>1. boot' = "failed" /\ live' = Held(stage) \ Releases(stage) /\ exit' = "1"
    BY <1>2, <1>6 DEF Start
  <2>2. live' = {}
    BY <2>1, Stage
  <2> QED
    BY <1>1, <1>2, <1>3, <2>1, <2>2 DEF KeyInv, Finished, Stages
<1> QED
  BY <1>5, <1>6

(* A step of the server that leaves the keys and the hooks alone, or only  *)
(* starts a hook.                                                          *)
LEMMA ServeKeyInv ==
  ASSUME KeyInv, TypeOK, Running, UNCHANGED startVars,
         Pending' => Pending,
         \A i \in 1 .. Hooks : hook'[i] \in Finished => hook[i] = hook'[i]
  PROVE  KeyInv'
<1>1. Hooks \in 1 .. Hooks /\ 1 \in 1 .. Hooks
  BY ProcessAssumption
<1>2. boot' = boot /\ live' = live /\ exit' = exit /\ boot = "running" /\ exit = "none"
  BY DEF startVars, Running
<1> QED
  BY <1>1, <1>2 DEF KeyInv, Finished, Stages

(* Every step of the process keeps KeyInv. *)
LEMMA NextKeyInv == KeyInv /\ TypeOK /\ [ProcessNext]_processVars => KeyInv'
<1> SUFFICES ASSUME KeyInv, TypeOK, [ProcessNext]_processVars PROVE KeyInv'
  OBVIOUS
<1>a. Hooks \in 1 .. Hooks /\ 1 \in 1 .. Hooks
  BY ProcessAssumption
<1>1. ASSUME NEW stage \in Stages, Start(stage) PROVE KeyInv'
  BY <1>1, StartKeyInv
<1>2. ASSUME \/ \E h \in Handlers : Serve(h)
             \/ Stop
             \/ Deadline
      PROVE  KeyInv'
  <2>1. Running /\ UNCHANGED startVars /\ hook' = hook
    BY <1>2 DEF Serve, Begin, Done, Stop, Signal, ServeError, StartDraining,
                Deadline, Expire, hookVars
  <2> QED
    BY <2>1, ServeKeyInv DEF Pending
<1>3. ASSUME Run PROVE KeyInv'
  <2>1. Running /\ UNCHANGED startVars
    BY <1>3 DEF Run
  <2>2. CASE hook' = hook
    BY <2>1, <2>2, ServeKeyInv DEF Pending
  <2>3. CASE StartHook
    <3>1. next \in 1 .. Hooks /\ hook[next] = "pending" /\ hook' = [hook EXCEPT ![next] = "running"]
      BY <2>3, LifecycleAssumption DEF StartHook, TypeOK
    <3>2. hook'[next] = "running"
      BY <3>1 DEF TypeOK
    <3>3. ~Pending'
      BY <3>1, <3>2 DEF Pending
    <3>4. ASSUME NEW i \in 1 .. Hooks, hook'[i] \in Finished PROVE hook[i] = hook'[i]
      BY <3>1, <3>4 DEF TypeOK, Finished
    <3> QED
      BY <2>1, <3>3, <3>4, ServeKeyInv
  <2> QED
    BY <1>3, <2>2, <2>3
       DEF Run, RunStep, ShutdownReturns, ShutdownTimeout, HandlersDrained, DrainTimeout,
           TakeResult, HooksTimeout, HooksDone, hookVars
<1>4. ASSUME CloseAdmin PROVE KeyInv'
  <2>1. /\ AdminEnabled /\ Hooks = 2 /\ hook[1] = "running" /\ boot = "running"
        /\ exit = "none" /\ exit' = exit
        /\ boot' = boot /\ live' = live \ {"admin"}
    BY <1>4, ProcessAssumption DEF CloseAdmin, AdminHook, HookEnds, Running
  <2>2. PICK result \in Finished : hook' = [hook EXCEPT ![1] = result]
    BY <1>4, <2>1, ZenonT(60) DEF CloseAdmin, AdminHook, HookEnds
  <2>3. hook'[1] = result /\ hook'[2] = hook[2]
    BY <2>1, <2>2 DEF TypeOK
  <2>4. ~Pending'
    BY <1>a, <2>3 DEF Pending, Finished
  <2> QED
    BY <2>1, <2>3, <2>4 DEF KeyInv, Stages, CloseRuntimeResources
<1>5. ASSUME NEW r \in CloseRuntimeResources, CloseResource(r) PROVE KeyInv'
  <2>1. /\ hook[Hooks] = "running" /\ hook' = hook /\ boot = "running" /\ exit = "none"
        /\ exit' = exit /\ boot' = boot /\ live' = live \ {r}
    BY <1>5 DEF CloseResource, Running, vars, hookVars
  <2>2. ~Pending'
    BY <1>a, <2>1 DEF Pending
  <2> QED
    BY <2>1, <2>2 DEF KeyInv, Stages
<1>6. ASSUME HookReturns PROVE KeyInv'
  <2>1. /\ hook[Hooks] = "running" /\ boot = "running" /\ exit = "none"
        /\ exit' = exit /\ boot' = boot /\ live' = live
        /\ hook'[Hooks] # "panic" => live \cap CloseRuntimeResources = {}
    BY <1>6 DEF HookReturns, HookEnds, Running, startVars
  <2>2. PICK result \in Finished : hook' = [hook EXCEPT ![Hooks] = result]
    BY <1>6, ZenonT(60) DEF HookReturns, HookEnds
  <2>3. hook'[Hooks] = result /\ (Hooks = 2 => hook'[1] = hook[1])
    BY <1>a, <2>2 DEF TypeOK
  <2>4. ~Pending'
    BY <1>a, <2>3 DEF Pending, Finished
  <2>5. AdminEnabled => Hooks = 2
    BY ProcessAssumption
  <2> QED
    BY <2>1, <2>3, <2>4, <2>5 DEF KeyInv, Stages
<1>7. ASSUME Exit \/ ProcessExited \/ UNCHANGED processVars PROVE KeyInv'
  <2>1. /\ UNCHANGED <<vars, boot, live>>
        /\ exit' = exit \/ (exit' = "0" => run = "returned" /\ errs = {})
    BY <1>7 DEF Exit, ProcessExited, processVars, startVars
  <2>2. /\ Serving' = Serving /\ Pending' = Pending /\ hook' = hook
        /\ run' = run /\ errs' = errs
    BY <2>1 DEF vars, lifeVars, hookVars, Serving, Pending
  <2> QED
    BY <2>1, <2>2 DEF KeyInv
<1> QED
  BY <1>1, <1>2, <1>3, <1>4, <1>5, <1>6, <1>7 DEF ProcessNext

(* The invariant holds of the process. *)
THEOREM KeysFollowHooks == ProcessSpec => [](KeyInv /\ IInv)
<1>1. IInv => TypeOK
  BY DEF IInv
<1>2. ProcessInit => IInv
  BY InitIInv DEF ProcessInit
<1>3. IInv /\ [ProcessNext]_processVars => IInv'
  BY ProcessStep, NextIInv
<1> QED
  BY <1>1, <1>2, <1>3, InitKeyInv, NextKeyInv, PTL DEF ProcessSpec

(* No handler ever runs with a key missing: newServer opens them all       *)
(* before it serves, and the hooks that clear them wait for the handlers.  *)
THEOREM HandlersAlwaysHaveKeys == ProcessSpec => []HandlersHaveKeys
<1>1. KeyInv /\ NoHookWhileServing => HandlersHaveKeys
  BY DEF KeyInv, NoHookWhileServing, HandlersHaveKeys, Pending
<1> QED
  BY <1>1, KeysFollowHooks, ImplementsLifecycle, NoHookWhileServingHolds, PTL

(* A start that fails has released whatever it had opened. *)
THEOREM FailedStartAlwaysReleases == ProcessSpec => []FailedStartReleases
<1>1. KeyInv => FailedStartReleases
  BY DEF KeyInv, FailedStartReleases
<1> QED
  BY <1>1, KeysFollowHooks, PTL

(* Exit status 0 means that no key is left and no handler was cut off. *)
THEOREM CleanExitAlwaysClears == ProcessSpec => []CleanExitClears
<1>1. KeyInv /\ CleanExit => CleanExitClears
  <2> SUFFICES ASSUME KeyInv, CleanExit, exit = "0" PROVE live = {} /\ Serving = {}
    BY DEF CleanExitClears
  <2>1. Serving = {} /\ \A i \in 1 .. Hooks : hook[i] = "ok"
    BY DEF KeyInv, CleanExit
  <2>2. hook[Hooks] = "ok" /\ hook[1] = "ok"
    BY <2>1, ProcessAssumption
  <2>3. live \cap CloseRuntimeResources = {} /\ (AdminEnabled => "admin" \notin live)
    BY <2>2 DEF KeyInv, Finished
  <2> QED
    BY <2>1, <2>3 DEF KeyInv, Resources, CloseRuntimeResources
<1> QED
  BY <1>1, KeysFollowHooks, ImplementsLifecycle, CleanExitHolds, PTL

(* The start passes Load and validateRuntimeConfig, or it has failed, or   *)
(* it is still there.                                                      *)
LEMMA NextCheckedInv == CheckedInv /\ [ProcessNext]_processVars => CheckedInv'
<1> SUFFICES ASSUME CheckedInv, [ProcessNext]_processVars PROVE CheckedInv'
  OBVIOUS
<1>1. ASSUME NEW stage \in Stages, Start(stage) PROVE CheckedInv'
  <2>1. boot = stage /\ defects' = defects
    BY <1>1 DEF Start
  <2>2. CASE boot' = "failed"
    BY <2>2 DEF CheckedInv
  <2>3. CASE Checks(stage) \cap defects = {} /\ boot' = Following(stage)
    <3>1. CASE stage = "load"
      <4>1. Checks(stage) = FileDefects \cup ValidateConfig /\ Following(stage) = "validate"
        BY <3>1 DEF Checks, Following
      <4> QED
        BY <2>1, <2>3, <4>1 DEF CheckedInv
    <3>2. CASE stage = "validate"
      <4>1. Checks(stage) = ValidateRuntimeConfig
        BY <3>2 DEF Checks
      <4> QED
        BY <2>1, <2>3, <3>2, <4>1 DEF CheckedInv
    <3>3. CASE stage \notin {"load", "validate", "failed"}
      BY <2>1, <3>3 DEF CheckedInv
    <3> QED
      BY <3>1, <3>2, <3>3 DEF Stages
  <2> QED
    BY <1>1, <2>2, <2>3 DEF Start
<1>2. CASE UNCHANGED <<boot, defects>>
  BY <1>2 DEF CheckedInv
<1>3. UNCHANGED <<boot, defects>> \/ \E stage \in Stages : Start(stage)
  BY DEF ProcessNext, Serve, Stop, Run, Deadline, CloseAdmin, CloseResource, HookReturns, Exit,
         ProcessExited, processVars, startVars
<1> QED
  BY <1>1, <1>2, <1>3

(* A defect of the configuration itself is found before any key is loaded: *)
(* Load and validateRuntimeConfig look for everything that newServer's     *)
(* later stages could find wrong with it (runtime.go).                     *)
THEOREM ConfigErrorsComeFirst == ProcessSpec => []ConfigErrorsFirst
<1>1. ProcessInit => CheckedInv
  BY DEF ProcessInit, CheckedInv
<1>2. KeyInv /\ CheckedInv => ConfigErrorsFirst
  <2> SUFFICES ASSUME KeyInv, CheckedInv, defects \cap ConfigDefects # {} PROVE live = {}
    BY DEF ConfigErrorsFirst
  <2>1. ConfigDefects \subseteq FileDefects \cup ValidateConfig \cup ValidateRuntimeConfig
    <3>1. ProviderRuntime \cup ValidateQuotaPricing \subseteq ValidateRuntimeConfig
      BY Zenon DEF ValidateRuntimeConfig
    <3> QED
      BY <3>1, Zenon DEF ConfigDefects
  <2>2. boot \in {"load", "validate", "failed"}
    BY <2>1 DEF CheckedInv
  <2> QED
    BY <2>2 DEF KeyInv, Held, Stages
<1> QED
  BY <1>1, <1>2, NextCheckedInv, KeysFollowHooks, PTL DEF ProcessSpec
=============================================================================
