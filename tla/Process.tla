------------------------------ MODULE Process ------------------------------
(***************************************************************************)
(* The gateway's process from main to its exit (cmd/aegis/main.go): the    *)
(* configuration is loaded, newServer builds the parts one after the other *)
(* (internal/runtime/runtime.go), and the server runs until it is told to  *)
(* stop, which is module Lifecycle.                                        *)
(*                                                                         *)
(* A configuration and its environment are the set of their defects.  A    *)
(* stage of the start fails when it looks for a defect that is there; it   *)
(* then releases what the stages before it opened.                         *)
(***************************************************************************)
EXTENDS Lifecycle

CONSTANT
  AdminEnabled   \* admin.enabled

(* newServer registers two shutdown hooks if there is an admin handler. *)
ASSUME ProcessAssumption ==
  /\ AdminEnabled \in BOOLEAN
  /\ Hooks = IF AdminEnabled THEN 2 ELSE 1

VARIABLES
  defects,       \* what is wrong with the configuration and the environment
  boot,          \* the stage of main and newServer
  live,          \* the keys and the goroutine that are live
  exit           \* the exit status

startVars == <<defects, boot, live, exit>>
processVars == <<vars, startVars>>

(* What the server holds while it runs: the master key of the KMS, the     *)
(* signing key, the goroutine that polls the revocations, and the admin    *)
(* handler's token and copy of the signing key.                            *)
Resources == {"kms", "signing", "poller"} \cup (IF AdminEnabled THEN {"admin"} ELSE {})
----------------------------------------------------------------------------
(* What the checks look for.                                               *)

(* The file as bytes, as JSON whose members are known and distinct, and    *)
(* without the fields that are reserved.                                   *)
ReadBoundedConfigFile == {"unreadable file"}
UnmarshalStrict == {"malformed file"}
RejectReservedConfigFields == {"reserved field"}

FileDefects == ReadBoundedConfigFile \cup UnmarshalStrict \cup RejectReservedConfigFields

ValidateServerConfig == {"server address", "server limits", "tls settings"}
ValidateEnabledProviderIDs == {"provider id"}
ValidateEnabledProviderModels == {"provider models"}
ValidateRevocationConfig == {"revocation settings"}
ValidateQuotaConfig == {"quota settings", "price settings"}
ValidateAdminConfig ==
  IF AdminEnabled THEN {"admin address", "admin token unset"} ELSE {"admin settings"}

(* Config.validate, which Load calls. *)
ValidateConfig ==
  ValidateServerConfig \cup ValidateRevocationConfig \cup ValidateEnabledProviderIDs
    \cup ValidateEnabledProviderModels \cup ValidateQuotaConfig \cup ValidateAdminConfig
    \cup {"token expiry", "issuer", "no provider", "credential id", "provider limits",
          "api version", "allowlist", "rate limits", "store settings", "kms mode",
          "vault settings", "key store path", "envelope version", "master key unset"}

(* providerRuntime, which newServer calls twice. *)
ProviderRuntime ==
  ValidateEnabledProviderIDs \cup ValidateEnabledProviderModels
    \cup {"no provider", "allowlist", "provider type", "provider endpoint"}

ValidateQuotaPricing == {"unpriced model"}

(* validateRuntimeConfig. *)
ValidateRuntimeConfig_NoPricing ==
  ValidateServerConfig \cup ValidateRevocationConfig \cup ProviderRuntime
    \cup {"token expiry", "issuer", "rate limits", "quota settings",
          "store settings", "vault settings", "key store path", "provider limits"}
    \cup (IF AdminEnabled THEN ValidateAdminConfig ELSE {})

ValidateRuntimeConfig ==
  ValidateServerConfig \cup ValidateRevocationConfig \cup ProviderRuntime
    \cup ValidateQuotaPricing
    \cup {"token expiry", "issuer", "rate limits", "quota settings",
          "store settings", "vault settings", "key store path", "provider limits"}
    \cup (IF AdminEnabled THEN ValidateAdminConfig ELSE {})

(* The KMS factory, the file backend and newStoreFromMasterKey. *)
NewKMSProvider ==
  {"kms mode", "key store", "envelope version", "master key unset", "master key invalid"}

LoadJWTSigningKey == {"signing key unset", "signing key short"}
NewReader == {"revocation file"}
VerifyProviderCredentials == {"provider credential"}
NewAdminHandler == IF AdminEnabled THEN {"admin token unset", "admin token short"} ELSE {}
BuildTLSConfig == {"tls files"}

(* The defects that the configuration shows without any key being read. *)
ConfigDefects == FileDefects \cup ValidateConfig \cup ProviderRuntime \cup ValidateQuotaPricing

Defects ==
  ConfigDefects \cup NewKMSProvider \cup LoadJWTSigningKey \cup NewReader
    \cup VerifyProviderCredentials \cup NewAdminHandler \cup BuildTLSConfig
----------------------------------------------------------------------------
(* The stages in their order.                                              *)

Stages ==
  {"load", "validate", "kms", "signing", "reader", "providers", "credentials",
   "quota", "options", "admin", "server"}

Following(stage) ==
  CASE stage = "load" -> "validate"
    [] stage = "validate" -> "kms"
    [] stage = "kms" -> "signing"
    [] stage = "signing" -> "reader"
    [] stage = "reader" -> "providers"
    [] stage = "providers" -> "credentials"
    [] stage = "credentials" -> "quota"
    [] stage = "quota" -> "options"
    [] stage = "options" -> "admin"
    [] stage = "admin" -> "server"
    [] stage = "server" -> "running"

Checks(stage) ==
  CASE stage = "load" -> FileDefects \cup ValidateConfig
    [] stage = "validate" -> ValidateRuntimeConfig
    [] stage = "kms" -> NewKMSProvider
    [] stage = "signing" -> LoadJWTSigningKey
    [] stage = "reader" -> NewReader
    [] stage = "providers" -> ProviderRuntime
    [] stage = "credentials" -> VerifyProviderCredentials
    [] stage = "quota" -> ValidateQuotaPricing
    [] stage = "options" -> {}
    [] stage = "admin" -> NewAdminHandler
    [] stage = "server" -> ValidateServerConfig \cup BuildTLSConfig

Opens(stage) ==
  CASE stage = "kms" -> {"kms"}
    [] stage = "signing" -> {"signing"}
    [] stage = "reader" -> {"poller"}
    [] stage = "admin" /\ AdminEnabled -> {"admin"}
    [] OTHER -> {}

(* closeRuntimeResources gets what has been opened when it is called. *)
CloseRuntimeResources == {"signing", "kms", "poller"}

Releases_NotAdmin(stage) ==
  CASE stage \in {"load", "validate", "kms"} -> {}
    [] stage = "signing" -> {"kms"}
    [] OTHER -> CloseRuntimeResources

Releases(stage) ==
  CASE stage \in {"load", "validate", "kms"} -> {}
    [] stage = "signing" -> {"kms"}
    [] stage = "server" -> {"admin"} \cup CloseRuntimeResources
    [] OTHER -> CloseRuntimeResources

(* At most two defects at a time. *)
ProcessInit ==
  /\ Init
  /\ defects \in {{}} \cup {{d, e} : d, e \in Defects}
  /\ boot = "load"
  /\ live = {}
  /\ exit = "none"

(* A stage of the start.  main exits with status 1 if it fails. *)
Start(stage) ==
  /\ boot = stage
  /\ IF Checks(stage) \cap defects = {}
     THEN /\ boot' = Following(stage)
          /\ live' = live \cup Opens(stage)
          /\ exit' = exit
     ELSE /\ boot' = "failed"
          /\ live' = live \ Releases(stage)
          /\ exit' = "1"
  /\ UNCHANGED <<vars, defects>>
----------------------------------------------------------------------------
(* The server runs.                                                        *)

Running == boot = "running" /\ exit = "none"

Serve(h) == Running /\ (Begin(h) \/ Done(h)) /\ UNCHANGED startVars
Stop_Clears ==
  Running /\ (Signal \/ ServeError) /\ live' = {} /\ UNCHANGED <<defects, boot, exit>>

Stop == Running /\ (Signal \/ ServeError) /\ UNCHANGED startVars
Run == Running /\ RunStep /\ UNCHANGED startVars
Deadline == Running /\ Expire /\ UNCHANGED startVars

(* The admin handler's hook, which comes first, clears it.                 *)
AdminHook == IF AdminEnabled THEN 1 ELSE 0

CloseAdmin ==
  /\ Running
  /\ AdminEnabled /\ HookEnds(AdminHook)
  /\ live' = live \ {"admin"}
  /\ UNCHANGED <<defects, boot, exit>>

(* The last hook calls closeRuntimeResources, which clears the signing     *)
(* key, closes the KMS and stops the poller, in this order and whatever    *)
(* the errors.  It may hang or panic in between.                           *)
CloseResource(r) ==
  /\ Running
  /\ hook[Hooks] = "running" /\ r \in live
  /\ r = "kms" => "signing" \notin live
  /\ r = "poller" => "kms" \notin live
  /\ live' = live \ {r}
  /\ UNCHANGED <<vars, defects, boot, exit>>

HookReturns_Early ==
  /\ Running
  /\ HookEnds(Hooks)
  /\ hook'[Hooks] = "ok" => "signing" \notin live
  /\ UNCHANGED startVars

HookReturns ==
  /\ Running
  /\ HookEnds(Hooks)
  /\ hook'[Hooks] # "panic" => live \cap CloseRuntimeResources = {}
  /\ UNCHANGED startVars

(* main exits with the status of Run. *)
Exit ==
  /\ Running /\ run = "returned"
  /\ exit' = IF errs = {} THEN "0" ELSE "1"
  /\ UNCHANGED <<vars, defects, boot, live>>

ProcessExited == exit # "none" /\ UNCHANGED processVars

ProcessNext ==
  \/ \E stage \in Stages : Start(stage)
  \/ \E h \in Handlers : Serve(h)
  \/ Stop \/ Run \/ Deadline
  \/ CloseAdmin \/ (\E r \in CloseRuntimeResources : CloseResource(r)) \/ HookReturns
  \/ Exit \/ ProcessExited

ProcessSpec == ProcessInit /\ [][ProcessNext]_processVars

(* The main goroutine and the timers progress; handlers and hooks need     *)
(* not.                                                                    *)
FairProcess ==
  /\ ProcessSpec
  /\ WF_processVars(\E stage \in Stages : Start(stage))
  /\ WF_processVars(Run) /\ WF_processVars(Deadline) /\ WF_processVars(Exit)
----------------------------------------------------------------------------

(* A start that fails leaves nothing behind, at whatever stage it failed:  *)
(* every key is cleared and the poller has stopped.                        *)
FailedStartReleases == boot = "failed" => live = {}

(* What is wrong with the configuration itself is found before any key is  *)
(* loaded: the later stages cannot fail on what the first two have passed. *)
ConfigErrorsFirst == defects \cap ConfigDefects # {} => live = {}

(* A handler has the keys it uses for as long as it runs, across the start *)
(* and the shutdown of the process.                                        *)
HandlersHaveKeys == Serving # {} => live = Resources

(* Exit status 0 means that no handler was cut off and no key was left.    *)
CleanExitClears == exit = "0" => live = {} /\ Serving = {}

(* The process ends: a start that cannot succeed fails, and a server that  *)
(* is told to stop exits, even if a handler or a hook hangs.               *)
ProcessEnds == (defects # {} \/ run # "serving") ~> (exit # "none")
=============================================================================
