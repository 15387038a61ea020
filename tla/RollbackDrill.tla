--------------------------- MODULE RollbackDrill ---------------------------
(***************************************************************************)
(* The rollback drill of a release (cmd/aegis-rollback-drill/main.go, run):*)
(* it takes sealed copies of the candidate's and the previous release's    *)
(* binaries, migrates a key store with the candidate, serves a request     *)
(* with it, restores the backup, serves a request with the previous        *)
(* release, and prints a summary that is used as evidence.                 *)
(*                                                                         *)
(* Around it the worktree is edited (CandidateTree), the input files are   *)
(* replaced, and the processes it starts do anything to the files of the   *)
(* drill for as long as they or their children live.  Such a process may   *)
(* fork; a fork that leaves the process group is outside the model, as the *)
(* code says it is outside its reach.                                      *)
(***************************************************************************)
EXTENDS CandidateTree

CONSTANTS
  MaxSwaps,      \* bound of the changes of the input binaries
  MaxWrites,     \* bound of the writes of its processes to files of the drill
  MaxCalls       \* bound of the calls of the provider in one check

Bins == {"candidate", "rollback"}
Files == {"store", "backup", "oldconfig", "restored", "newconfig"}

(* Contents of binaries and of files, with "none" for what is not there;   *)
(* "locked" is the content that has the digest of the input lock.          *)
Binaries == {"none", "locked", "other", "mixed"}
Contents == {"none", "legacy", "v2", "config", "bad"}

VARIABLES
  pc,            \* the stage of run
  env,           \* the world: the context, the input binaries, who misbehaves
  mem,           \* the memory of run
  tmp,           \* the temporary directory and the files in it
  group,         \* the process group of the child: its leader and the others
  calls,         \* attempts and hits of the provider since they were read
  out,           \* the evidence class that was printed, and the exit status
  hist           \* history: what ran, what passed, when the tree was clean

drillVars == <<pc, env, mem, tmp, group, calls, out, hist>>
vars == <<treeVars, drillVars>>

Input == [data : Binaries, ino : 0 .. MaxSwaps, ver : 0 .. MaxSwaps]
NoInput == [data |-> "none", ino |-> 0, ver |-> 0]
NoGroup == [exe |-> "none", leader |-> FALSE, others |-> "none"]
NoCalls == [attempts |-> 0, hits |-> 0]

Stages ==
  <<"input", "inspect", "runner", "root",
    "open_candidate", "seal_candidate", "open_rollback", "seal_rollback", "digests",
    "version_candidate", "version_rollback", "buildinfo",
    "secrets", "provider", "store", "configs",
    "dry_run", "apply", "backup", "verify", "revocation_init", "issue", "token",
    "start_candidate", "health_candidate", "reject_candidate", "accept_candidate",
    "stop_candidate", "restore_store", "restore_config", "restored",
    "start_rollback", "health_rollback", "reject_rollback", "accept_rollback",
    "stop_rollback", "resealed", "reinspect", "runner_again", "cleanup", "publish">>

StageNames == {Stages[i] : i \in DOMAIN Stages}
After(s) == Stages[1 + CHOOSE i \in DOMAIN Stages : Stages[i] = s]

ChildStages == {"version_candidate", "version_rollback", "dry_run", "apply", "verify",
                "revocation_init", "issue"}
BinaryOf(s) ==
  IF s \in {"open_rollback", "seal_rollback", "version_rollback", "start_rollback",
            "health_rollback", "reject_rollback", "accept_rollback", "stop_rollback"}
  THEN "rollback" ELSE "candidate"

(* Stages, files, processes and counters have their types, and a group     *)
(* that is gone has nobody in it.                                          *)
TypeOK ==
  /\ pc \in StageNames \cup {"unwind", "exited"}
  /\ env \in [faults : {"editor", "processes"}, cancelled : BOOLEAN,
              inputs : [Bins -> Input], swaps : 0 .. MaxSwaps]
  /\ mem.copy \in Input /\ mem.sealed \in [Bins -> Binaries]
  /\ mem.store \in Contents /\ mem.backup \in Contents /\ mem.config \in Contents
  /\ tmp \in [root : BOOLEAN, files : [Files -> Contents], writes : 0 .. MaxWrites]
  /\ group \in [exe : Binaries, leader : BOOLEAN, others : {"none", "quiet", "holding"}]
  /\ group.exe = "none" => group = NoGroup
  /\ calls \in [attempts : 0 .. MaxCalls, hits : 0 .. MaxCalls]
  /\ out \in [class : {"none", "FINAL_CANDIDATE", "ITERATION_ONLY"}, exit : {"none", "0", "1"}]

Init ==
  /\ TreeInit
  /\ pc = "input"
  /\ \E faults \in {"editor", "processes"} :
       env = [faults |-> faults, cancelled |-> FALSE, swaps |-> 0,
              inputs |-> [b \in Bins |-> [NoInput EXCEPT !.data = "locked"]]]
  /\ mem = [deferred |-> <<>>, dirty |-> FALSE, snap |-> <<>>, copy |-> NoInput,
            sealed |-> [b \in Bins |-> "none"],
            store |-> "none", backup |-> "none", config |-> "none"]
  /\ tmp = [root |-> FALSE, files |-> [f \in Files |-> "none"], writes |-> 0]
  /\ group = NoGroup
  /\ calls = NoCalls
  /\ out = [class |-> "none", exit |-> "none"]
  /\ hist = [ran |-> {}, passed |-> {}, clean |-> <<>>]
----------------------------------------------------------------------------
(* How a stage ends.                                                       *)

Proceed == pc' = After(pc) /\ UNCHANGED out
Fail == pc' = "unwind" /\ out' = [out EXCEPT !.exit = "1"]
ProceedIf(ok) == IF ok THEN Proceed ELSE Fail
ReadAndProceedIf(ok) == (ok /\ Proceed) \/ Fail
Deferred(what) == <<what>> \o mem.deferred

StageSame == UNCHANGED <<treeVars, env, hist>>
ProcessesSame == UNCHANGED <<group, calls>>

(* Stages that only look at what the model leaves out, and can always      *)
(* fail: the options and the input lock, the build information of the      *)
(* binaries, and the digests of what cannot change, which are the sealed   *)
(* copies and the executable that runs.                                    *)
Examine(stage) ==
  /\ pc = stage
  /\ Proceed \/ Fail
  /\ StageSame /\ ProcessesSame /\ UNCHANGED <<mem, tmp>>

ReadInputLock == Examine("input")
CheckBuildInfo == Examine("buildinfo")
CheckSealed == Examine("resealed")
CheckRunner == Examine("runner_again")

(* The inspection of the candidate's repository, at both ends. *)
StartInspection ==
  /\ pc \in {"inspect", "reinspect"} /\ insp.pc = "idle"
  /\ BeginInspection
  /\ UNCHANGED drillVars

InspectStep == InspectionStep(env.cancelled) /\ UNCHANGED drillVars

EndInspection ==
  /\ insp.pc \in {"done", "failed"}
  /\ insp' = Idle
  /\ ProceedIf(insp.pc = "done" /\ (pc = "reinspect" =>
       insp.dirty = mem.dirty /\ insp.snap = mem.snap))
  /\ mem' = [mem EXCEPT !.dirty = insp.dirty, !.snap = insp.snap]
  /\ hist' = [hist EXCEPT !.clean = Append(@, Blobs \subseteq witnessed)]
  /\ witnessed' = {}
  /\ ForgetVersions
  /\ UNCHANGED <<edits, env, tmp, group, calls>>

(* Stages that open something to be closed, or make something to be        *)
(* cleared, at the end.                                                    *)
Acquire(stage) ==
  /\ pc = stage
  /\ \/ Proceed /\ mem' = [mem EXCEPT !.deferred = Deferred(stage)]
     \/ Fail /\ UNCHANGED mem
  /\ StageSame /\ ProcessesSame /\ UNCHANGED tmp

SnapshotRunner == Acquire("runner")
MakeSecrets == Acquire("secrets")
ReadToken == Acquire("token")

(* The provider is started before its certificate is written. *)
StartProvider ==
  \/ Acquire("provider")
  \/ /\ pc = "provider"
     /\ Fail
     /\ mem' = [mem EXCEPT !.deferred = Deferred(pc)]
     /\ StageSame /\ ProcessesSame /\ UNCHANGED tmp

(* The removal is deferred before the permissions are set. *)
MakeRoot ==
  /\ pc = "root"
  /\ \/ Fail /\ UNCHANGED <<mem, tmp>>
     \/ /\ Proceed \/ Fail
        /\ mem' = [mem EXCEPT !.deferred = Deferred("root")]
        /\ tmp' = [tmp EXCEPT !.root = TRUE]
  /\ StageSame /\ ProcessesSame

(* snapshotExecutable opens a binary, copies it, and looks at it again.    *)
(* The copy is sealed and read back.  If the second binary cannot be       *)
(* copied, the first copy is closed.                                       *)
OpenInput ==
  /\ pc \in {"open_candidate", "open_rollback"}
  /\ \/ Proceed /\ mem' = [mem EXCEPT !.copy = env.inputs[BinaryOf(pc)]]
     \/ Fail /\ mem' = [mem EXCEPT !.sealed = [b \in Bins |-> "none"]]
  /\ StageSame /\ ProcessesSame /\ UNCHANGED tmp

Copied(old, new) ==
  IF new.ino # old.ino \/ new.data = old.data THEN {old.data}
  ELSE {old.data, new.data, "mixed"}

SealInput ==
  LET b == BinaryOf(pc)
      old == mem.copy
      new == env.inputs[b]
  IN  /\ pc \in {"seal_candidate", "seal_rollback"}
      /\ \/ /\ new.ino = old.ino => new.ver = old.ver
            /\ Proceed
            /\ \E data \in Copied(old, new) :
                 mem' = [mem EXCEPT !.copy = NoInput, !.sealed[b] = data,
                   !.deferred = IF b = "rollback" THEN Deferred("snapshots") ELSE @]
         \/ /\ Fail
            /\ mem' = [mem EXCEPT !.copy = NoInput, !.sealed = [c \in Bins |-> "none"]]
      /\ StageSame /\ ProcessesSame /\ UNCHANGED tmp

MatchDigests_Candidate ==
  /\ pc = "digests"
  /\ ProceedIf(mem.sealed["candidate"] = "locked")
  /\ StageSame /\ ProcessesSame /\ UNCHANGED <<mem, tmp>>

MatchDigests ==
  /\ pc = "digests"
  /\ ProceedIf(\A b \in Bins : mem.sealed[b] = "locked")
  /\ StageSame /\ ProcessesSame /\ UNCHANGED <<mem, tmp>>

(* The legacy store is made and its digests are taken; so is the           *)
(* configuration of the previous release.                                  *)
MakeStore ==
  /\ pc = "store"
  /\ \/ /\ tmp.files["store"] = "none"
        /\ Proceed
        /\ tmp' = [tmp EXCEPT !.files["store"] = "legacy"]
        /\ mem' = [mem EXCEPT !.store = "legacy", !.deferred = Deferred(pc)]
     \/ Fail /\ UNCHANGED tmp /\ mem' \in {mem, [mem EXCEPT !.deferred = Deferred(pc)]}
  /\ StageSame /\ ProcessesSame

WriteConfigs ==
  /\ pc = "configs"
  /\ \/ /\ Proceed
        /\ tmp' = [tmp EXCEPT !.files["oldconfig"] = "config"]
        /\ mem' = [mem EXCEPT !.config = "config"]
     \/ Fail /\ UNCHANGED <<mem, tmp>>
  /\ StageSame /\ ProcessesSame
----------------------------------------------------------------------------
(* Processes.                                                              *)

Alive == group.leader \/ group.others # "none"

(* Wait returns when the process has exited and nobody holds its output    *)
(* open any more.                                                          *)
Waited == group.exe # "none" /\ ~group.leader /\ group.others # "holding"

StartProcess(b) ==
  /\ group' = [exe |-> mem.sealed[b], leader |-> TRUE, others |-> "none"]
  /\ hist' = [hist EXCEPT !.ran = @ \cup {mem.sealed[b]}]

(* runBoundedProcess: a child with a time limit, whose group is killed     *)
(* whether it returned, timed out or was cancelled.                        *)
RunChild ==
  /\ pc \in ChildStages /\ group.exe = "none"
  /\ \/ ~env.cancelled /\ StartProcess(BinaryOf(pc)) /\ UNCHANGED <<pc, out>>
     \/ Fail /\ UNCHANGED <<group, hist>>
  /\ UNCHANGED <<treeVars, env, mem, tmp, calls>>

ChildReturned ==
  /\ pc \in ChildStages /\ Waited
  /\ group' = NoGroup
  /\ Proceed \/ Fail
  /\ UNCHANGED <<treeVars, env, mem, tmp, calls, hist>>

ChildKilled_NoTimeout ==
  /\ pc \in ChildStages /\ group.exe # "none" /\ env.cancelled
  /\ group' = NoGroup
  /\ Fail
  /\ UNCHANGED <<treeVars, env, mem, tmp, calls, hist>>

ChildKilled ==
  /\ pc \in ChildStages /\ group.exe # "none"
  /\ group' = NoGroup
  /\ Fail
  /\ UNCHANGED <<treeVars, env, mem, tmp, calls, hist>>

(* The backup that the candidate made holds what the store held. *)
CheckBackup ==
  /\ pc = "backup"
  /\ ReadAndProceedIf(tmp.files["backup"] # "none" /\ tmp.files["backup"] = mem.store)
  /\ mem' = [mem EXCEPT !.backup = tmp.files["backup"]]
  /\ StageSame /\ ProcessesSame /\ UNCHANGED tmp

StartGateway ==
  /\ pc \in {"start_candidate", "start_rollback"}
  /\ \/ /\ Proceed
        /\ StartProcess(BinaryOf(pc))
        /\ mem' = [mem EXCEPT !.deferred = Deferred(BinaryOf(pc))]
     \/ Fail /\ UNCHANGED <<group, hist, mem>>
  /\ UNCHANGED <<treeVars, env, tmp, calls>>

(* smokeGateway: the gateway is healthy, rejects two requests without      *)
(* calling the provider, and serves one with exactly one call.  A failure  *)
(* stops the gateway, which the deferred call would do next.               *)
SmokeHealth ==
  /\ pc \in {"health_candidate", "health_rollback"}
  /\ (Alive /\ ~env.cancelled /\ Proceed) \/ Fail
  /\ calls' = NoCalls
  /\ StageSame /\ UNCHANGED <<mem, tmp, group>>

SmokeReject ==
  /\ pc \in {"reject_candidate", "reject_rollback"}
  /\ (Alive /\ ~env.cancelled /\ calls = NoCalls /\ Proceed) \/ Fail
  /\ calls' = NoCalls
  /\ StageSame /\ UNCHANGED <<mem, tmp, group>>

SmokeAccept ==
  /\ pc \in {"accept_candidate", "accept_rollback"}
  /\ \/ /\ Alive /\ ~env.cancelled /\ calls = [attempts |-> 1, hits |-> 1]
        /\ Proceed
        /\ hist' = [hist EXCEPT !.passed = @ \cup {BinaryOf(pc)}]
     \/ Fail /\ UNCHANGED hist
  /\ calls' = NoCalls
  /\ UNCHANGED <<treeVars, env, mem, tmp, group>>

(* stop: SIGTERM, then SIGKILL after eight seconds, then the group.        *)
StopGateway_LeaderOnly ==
  /\ pc \in {"stop_candidate", "stop_rollback"}
  /\ \/ Waited /\ (Proceed \/ Fail)
     \/ Fail
  /\ group' = [group EXCEPT !.leader = FALSE]
  /\ StageSame /\ UNCHANGED <<mem, tmp, calls>>

StopGateway ==
  /\ pc \in {"stop_candidate", "stop_rollback"}
  /\ \/ Waited /\ (Proceed \/ Fail)
     \/ Fail
  /\ group' = NoGroup
  /\ StageSame /\ UNCHANGED <<mem, tmp, calls>>

(* The backup is restored if it still is what was recorded, to files that  *)
(* must not exist yet.                                                     *)
RestoreStore ==
  /\ pc = "restore_store"
  /\ \/ /\ tmp.files["backup"] = mem.backup /\ tmp.files["restored"] = "none"
        /\ Proceed
        /\ tmp' = [tmp EXCEPT !.files["restored"] = tmp.files["backup"]]
     \/ Fail /\ UNCHANGED tmp
  /\ StageSame /\ ProcessesSame /\ UNCHANGED mem

RestoreConfig ==
  /\ pc = "restore_config"
  /\ \/ /\ tmp.files["oldconfig"] = mem.config /\ tmp.files["newconfig"] = "none"
        /\ Proceed
        /\ tmp' = [tmp EXCEPT !.files["newconfig"] = tmp.files["oldconfig"]]
     \/ Fail /\ UNCHANGED tmp
  /\ StageSame /\ ProcessesSame /\ UNCHANGED mem

CheckRestored ==
  /\ pc = "restored"
  /\ ReadAndProceedIf(tmp.files["newconfig"] = mem.config /\ tmp.files["restored"] = mem.store)
  /\ StageSame /\ ProcessesSame /\ UNCHANGED <<mem, tmp>>

(* writeSummaryAfterCleanup removes the directory, makes sure of it, and   *)
(* prints the summary.                                                     *)
Removed == [root |-> FALSE, files |-> [f \in Files |-> "none"], writes |-> 0]

Cleanup_Blind ==
  /\ pc = "cleanup"
  /\ Proceed
  /\ tmp' \in {Removed, tmp}
  /\ StageSame /\ ProcessesSame /\ UNCHANGED mem

Cleanup ==
  /\ pc = "cleanup"
  /\ \/ Proceed /\ tmp' = Removed
     \/ Fail /\ UNCHANGED tmp
  /\ StageSame /\ ProcessesSame /\ UNCHANGED mem

Publish ==
  /\ pc = "publish"
  /\ \/ /\ out' = [exit |-> "0", class |-> IF mem.dirty THEN "ITERATION_ONLY"
                                           ELSE "FINAL_CANDIDATE"]
        /\ pc' = "unwind"
     \/ Fail
  /\ StageSame /\ ProcessesSame /\ UNCHANGED <<mem, tmp>>

(* The deferred calls, the last one first.  A gateway that was stopped     *)
(* before is not stopped twice; the removal of the directory may fail      *)
(* unnoticed, and is not tried after a completed run.                      *)
Unwind_SkipsGateways ==
  /\ pc = "unwind" /\ mem.deferred # <<>>
  /\ LET what == Head(mem.deferred)
     IN  /\ UNCHANGED group
         /\ IF what = "root" /\ out.exit = "1"
            THEN tmp' \in {Removed, tmp} ELSE UNCHANGED tmp
         /\ mem' = [mem EXCEPT !.deferred = Tail(@),
              !.sealed = IF what = "snapshots" THEN [b \in Bins |-> "none"] ELSE @]
  /\ UNCHANGED <<treeVars, env, pc, calls, out, hist>>

Unwind ==
  /\ pc = "unwind" /\ mem.deferred # <<>>
  /\ LET what == Head(mem.deferred)
     IN  /\ group' = IF what \in Bins THEN NoGroup ELSE group
         /\ IF what = "root" /\ out.exit = "1"
            THEN tmp' \in {Removed, tmp} ELSE UNCHANGED tmp
         /\ mem' = [mem EXCEPT !.deferred = Tail(@),
              !.sealed = IF what = "snapshots" THEN [b \in Bins |-> "none"] ELSE @]
  /\ UNCHANGED <<treeVars, env, pc, calls, out, hist>>

Exit ==
  /\ pc = "unwind" /\ mem.deferred = <<>>
  /\ pc' = "exited"
  /\ UNCHANGED <<treeVars, env, mem, tmp, group, calls, out, hist>>
----------------------------------------------------------------------------
(* The world around the drill.                                             *)

(* A process forks, exits, or writes to a file of the drill. *)
ProcessForks ==
  /\ Alive
  /\ env.faults = "processes"
  /\ group' \in {[group EXCEPT !.others = o] : o \in {"quiet", "holding"}}
  /\ UNCHANGED <<treeVars, pc, env, mem, tmp, calls, out, hist>>

ProcessExits ==
  /\ Alive
  /\ group' \in {[group EXCEPT !.leader = FALSE], [group EXCEPT !.others = "none"]}
  /\ UNCHANGED <<treeVars, pc, env, mem, tmp, calls, out, hist>>

ProcessWrites ==
  /\ Alive /\ tmp.root /\ tmp.writes < MaxWrites
  /\ \E f \in Files, c \in Contents :
       /\ env.faults = "editor" =>
            pc = "apply" /\ <<f, c>> \in {<<"store", "v2">>, <<"backup", "legacy">>}
       /\ IF f \in {"oldconfig", "newconfig"} THEN c \in {"none", "config", "bad"}
                                              ELSE c \in {"none", "legacy", "v2"}
       /\ tmp.files[f] # c
       /\ tmp' = [tmp EXCEPT !.files[f] = c, !.writes = @ + 1]
  /\ UNCHANGED <<treeVars, pc, env, mem, group, calls, out, hist>>

CallProvider ==
  /\ Alive
  /\ pc \in {"reject_candidate", "accept_candidate", "reject_rollback", "accept_rollback"}
  /\ calls.attempts < MaxCalls
  /\ \E hit \in IF env.faults = "editor" THEN {1} ELSE {0, 1} :
       calls' = [attempts |-> calls.attempts + 1, hits |-> calls.hits + hit]
  /\ UNCHANGED <<treeVars, pc, env, mem, tmp, group, out, hist>>

(* An input binary is written in place, in a way that shows or not, or     *)
(* replaced.                                                               *)
SwapInput ==
  /\ env.faults = "processes" /\ env.swaps < MaxSwaps
  /\ pc \in {"open_candidate", "seal_candidate", "open_rollback", "seal_rollback"}
  /\ \E b \in Bins, data \in {"locked", "other"}, new \in {"ino", "ver", "same"} :
       LET n == env.swaps + 1
           old == env.inputs[b]
       IN  env' = [env EXCEPT !.swaps = n, !.inputs[b] =
             [data |-> data, ino |-> IF new = "ino" THEN n ELSE old.ino,
              ver |-> IF new = "same" THEN old.ver ELSE n]]
  /\ UNCHANGED <<treeVars, pc, mem, tmp, group, calls, out, hist>>

(* The two kinds of trouble do not meet: the processes do not look at the  *)
(* worktree, and the inspections run when there is no process.  So they    *)
(* are explored one at a time, and a drill whose worktree is edited is     *)
(* cancelled during an inspection only.                                    *)
(*                                                                         *)
(* The worktree matters while it is inspected: an edit between the two     *)
(* inspections is one before the second looks at anything.                 *)
EditWorktree ==
  /\ env.faults = "editor"
  /\ pc \in {"inspect", "reinspect"}
  /\ Editor
  /\ UNCHANGED drillVars

Cancel ==
  /\ ~env.cancelled /\ pc # "exited"
  /\ env.faults = "editor" => insp.pc # "idle"
  /\ env' = [env EXCEPT !.cancelled = TRUE]
  /\ UNCHANGED <<treeVars, pc, mem, tmp, group, calls, out, hist>>
----------------------------------------------------------------------------

RunStep ==
  \/ ReadInputLock \/ StartInspection \/ InspectStep \/ EndInspection
  \/ CheckBuildInfo \/ CheckSealed \/ CheckRunner
  \/ SnapshotRunner \/ MakeSecrets \/ StartProvider \/ ReadToken \/ MakeRoot
  \/ OpenInput \/ SealInput \/ MatchDigests \/ MakeStore \/ WriteConfigs
  \/ RunChild \/ ChildReturned \/ ChildKilled \/ CheckBackup
  \/ StartGateway \/ SmokeHealth \/ SmokeReject \/ SmokeAccept \/ StopGateway
  \/ RestoreStore \/ RestoreConfig \/ CheckRestored
  \/ Cleanup \/ Publish \/ Unwind \/ Exit

World ==
  \/ ProcessForks \/ ProcessExits \/ ProcessWrites \/ CallProvider
  \/ SwapInput \/ EditWorktree \/ Cancel

Exited == pc = "exited" /\ UNCHANGED vars

Next == RunStep \/ World \/ Exited

Spec == Init /\ [][Next]_vars

(* run goes on: what it waits for has a time limit, and what it has killed *)
(* is gone.                                                                *)
FairSpec == Spec /\ WF_vars(RunStep)
----------------------------------------------------------------------------

(* A printed summary is true: both gateways served a request, the          *)
(* directory with the secrets is gone, no process of the drill is left,    *)
(* and the exit status is that of a success.                               *)
EvidenceTrue ==
  out.class # "none" =>
    /\ hist.passed = Bins
    /\ tmp = Removed
    /\ ~Alive
    /\ out.exit = "0"

(* A summary of class FINAL_CANDIDATE means that during each of the two    *)
(* inspections every path of the worktree had at some moment what the      *)
(* commit has there: an edit that stays is seen.                           *)
FinalMeansClean ==
  out.class = "FINAL_CANDIDATE" => hist.clean = <<TRUE, TRUE>>

(* Only contents with the digests of the input lock are executed, whatever *)
(* happens to the files they are copied from.                              *)
OnlyLockedContentRuns == hist.ran \subseteq {"locked"}

(* The previous release starts on the store and the configuration from     *)
(* before the migration, whatever the candidate's processes did.           *)
RollbackOnOriginal ==
  [][pc = "start_rollback" /\ pc' = "health_rollback" =>
       tmp.files["restored"] = "legacy" /\ tmp.files["newconfig"] = "config"]_vars

(* The drill leaves nothing behind: no process, and no open copy.  While a *)
(* process can still write, the directory is not removed.                  *)
NothingLeft ==
  /\ pc = "exited" => ~Alive /\ mem.sealed = [b \in Bins |-> "none"]
  /\ Alive => tmp.root

(* The drill ends, whatever its processes do. *)
DrillEnds == <>(pc = "exited")
=============================================================================
