----------------------------- MODULE Revocation -----------------------------
(***************************************************************************)
(* Durable revocation of virtual keys (internal/revocation): writers, the  *)
(* operator command and the admin API, replace one snapshot file under an  *)
(* advisory lock; the reader of the gateway polls the file and serves      *)
(* Auth's checks from an immutable view.                                   *)
(*                                                                         *)
(* The steps of a writer are those another process, or a crash, can come   *)
(* between: taking the time, taking the lock, reading and computing,       *)
(* renaming the new snapshot into place, syncing the directory.  A refresh *)
(* of the reader is two steps, reading the file and publishing the view.   *)
(*                                                                         *)
(* All tokens have the configured issuer, so a tombstone is named by the   *)
(* key id alone.  A snapshot is a record of functions on Keys: retain[k]   *)
(* is 0 when the snapshot has no entry for k, so an entry list is sorted   *)
(* and free of duplicates by construction.  Times are Unix seconds of one  *)
(* host clock, which never runs backwards.                                 *)
(***************************************************************************)
EXTENDS Naturals, FiniteSets

CONSTANTS
  Writers,       \* operator processes and admin handlers
  NoWriter,      \* the lock is free
  Keys,          \* virtual key ids
  NoKey,         \* a writer's operation is Init, not Revoke
  MaxTTL,        \* auth.token_expiry
  Skew,          \* revocationClockSkew, virtualkey.ClockSkew
  MaxEntries,    \* maxSnapshotEntries
  MaxCalls,      \* bound of the calls of Init and Revoke
  MaxTime        \* bound of the clock

ASSUME RevocationAssumption ==
  /\ NoWriter \notin Writers
  /\ NoKey \notin Keys
  /\ MaxTTL \in Nat \ {0}
  /\ Skew \in Nat
  /\ MaxEntries \in Nat
  /\ MaxCalls \in Nat
  /\ MaxTime \in Nat

VARIABLES
  clock,         \* the host's clock
  file,          \* the snapshot the path names
  images,        \* the snapshots a power loss may leave at the path
  lock,          \* the writer that holds the advisory lock
  writer,        \* writer[w]: the operation in progress
  calls,         \* the number of operations begun
  reader,        \* what the reader's goroutine is doing
  buf,           \* the snapshot a refresh has read and not yet published
  view,          \* the readerState that Check consults
  committed,     \* history: committed[k], the latest Revoke of k that wrote
  promised       \* history: the time of the latest one that had no need to

vars == <<clock, file, images, lock, writer, calls, reader, buf, view,
          committed, promised>>
writerVars == <<file, images, lock, writer, calls, committed, promised>>
readerVars == <<reader, buf, view>>

None == [k \in Keys |-> 0]

SnapshotType ==
  [generation : Nat, updatedAt : Nat,
   revokedAt : [Keys -> Nat], retain : [Keys -> Nat]]

(* At the path: there is no file.  From readSnapshot: an error, of reading *)
(* the file or of validating what it holds.                                *)
NoSnapshot ==
  [generation |-> 0, updatedAt |-> 0, revokedAt |-> None, retain |-> None]

Steps == {"idle", "waiting", "locked", "staged", "renamed"}

WriterType ==
  [step : Steps, key : Keys \cup {NoKey}, now : Nat, next : SnapshotType]

IdleWriter ==
  [step |-> "idle", key |-> NoKey, now |-> 0, next |-> NoSnapshot]

(* readerState: ok is err = nil, and the digest is the snapshot itself. *)
ViewType ==
  [ok : BOOLEAN, generation : Nat, digest : SnapshotType,
   revoked : [Keys -> Nat]]

NoView ==
  [ok |-> FALSE, generation |-> 0, digest |-> NoSnapshot, revoked |-> None]

(* Files, views, processes and histories have their types. *)
TypeOK ==
  /\ clock \in Nat \ {0}
  /\ file \in SnapshotType
  /\ images \subseteq SnapshotType
  /\ lock \in Writers \cup {NoWriter}
  /\ writer \in [Writers -> WriterType]
  /\ calls \in Nat
  /\ reader \in {"down", "starting", "polling", "reading"}
  /\ buf \in SnapshotType
  /\ view \in ViewType
  /\ committed \in [Keys -> [generation : Nat, at : Nat]]
  /\ promised \in [Keys -> Nat]

InitialSnapshot(now) ==
  [generation |-> 1, updatedAt |-> now, revokedAt |-> None, retain |-> None]

(* A host where "aegis revocation init" has not run, or has. *)
Init ==
  /\ clock = 1
  /\ file \in {NoSnapshot, InitialSnapshot(1)}
  /\ images = {file}
  /\ lock = NoWriter
  /\ writer = [w \in Writers |-> IdleWriter]
  /\ calls = 0
  /\ reader = "down"
  /\ buf = NoSnapshot
  /\ view = NoView
  /\ committed = [k \in Keys |-> [generation |-> 0, at |-> 0]]
  /\ promised = None

Tick ==
  /\ clock < MaxTime
  /\ clock' = clock + 1
  /\ UNCHANGED <<writerVars, readerVars>>
----------------------------------------------------------------------------

(* A caller takes the time, s.now(), and calls Init or Revoke; arguments   *)
(* that fail their validation change nothing and are left out.             *)
Begin(w, k) ==
  /\ writer[w].step = "idle"
  /\ calls < MaxCalls
  /\ calls' = calls + 1
  /\ writer' = [writer EXCEPT ![w] =
       [step |-> "waiting", key |-> k, now |-> clock, next |-> NoSnapshot]]
  /\ UNCHANGED <<clock, file, images, lock, committed, promised, readerVars>>

(* withFileLock: one attempt of the loop that succeeds. *)
Lock_NotExclusive(w) ==
  /\ writer[w].step = "waiting"
  /\ lock' = w
  /\ writer' = [writer EXCEPT ![w].step = "locked"]
  /\ UNCHANGED <<clock, file, images, calls, committed, promised, readerVars>>

Lock(w) ==
  /\ writer[w].step = "waiting"
  /\ lock = NoWriter
  /\ lock' = w
  /\ writer' = [writer EXCEPT ![w].step = "locked"]
  /\ UNCHANGED <<clock, file, images, calls, committed, promised, readerVars>>

(* The operation returns; the lock goes with its file descriptor. *)
Return(w) ==
  /\ writer' = [writer EXCEPT ![w] = IdleWriter]
  /\ lock' = IF lock = w THEN NoWriter ELSE lock

(* The operation fails, or its process is killed: the lock times out or    *)
(* its context ends, the snapshot cannot be read, has no room left or      *)
(* cannot be written, the rename or the directory sync fails.  What was    *)
(* renamed stays.                                                          *)
Fail(w) ==
  /\ writer[w].step # "idle"
  /\ Return(w)
  /\ UNCHANGED <<clock, file, images, calls, committed, promised, readerVars>>

(* writeSnapshotAtomic up to its rename: the temporary file is complete    *)
(* and synced.                                                             *)
Stage(w, s) ==
  /\ Cardinality({k \in Keys : s.retain[k] # 0}) <= MaxEntries
  /\ writer' = [writer EXCEPT ![w].step = "staged", ![w].next = s]
  /\ UNCHANGED <<clock, file, images, lock, calls, committed, promised, readerVars>>

(* Init under the lock: a valid snapshot is kept. *)
InitFile(w) ==
  /\ writer[w].step = "locked"
  /\ writer[w].key = NoKey
  /\ \/ /\ file.generation # 0
        /\ Return(w)
        /\ UNCHANGED <<clock, file, images, calls, committed, promised, readerVars>>
     \/ /\ file.generation = 0
        /\ Stage(w, InitialSnapshot(writer[w].now))

(* now.Add(maxTokenTTL + revocationClockSkew).Unix() *)
DesiredRetention(now) == now + MaxTTL + Skew

(* The retention of entry k of a snapshot once key is revoked at now: the  *)
(* expired are dropped, key's own is created or extended.                  *)
Revoked(s, key, now, k) ==
  LET kept == IF s.retain[k] <= now THEN 0 ELSE s.retain[k]
  IN  IF k = key /\ kept < DesiredRetention(now)
      THEN DesiredRetention(now)
      ELSE kept

AfterRevoke(s, key, now) ==
  [generation |-> s.generation + 1,
   updatedAt |-> now,
   revokedAt |-> [k \in Keys |->
     IF s.retain[k] > now THEN s.revokedAt[k]
     ELSE IF k = key THEN now ELSE 0],
   retain |-> [k \in Keys |-> Revoked(s, key, now, k)]]

(* Revoke under the lock: read, prune, create or extend.  When nothing     *)
(* changed it returns success there and then, without a write.             *)
RevokeKey(w) ==
  LET key == writer[w].key
      now == writer[w].now
      next == AfterRevoke(file, key, now)
  IN  /\ writer[w].step = "locked"
      /\ key # NoKey
      /\ file.generation # 0
      /\ \/ /\ next.retain # file.retain
            /\ Stage(w, next)
         \/ /\ next.retain = file.retain
            /\ promised' = [promised EXCEPT ![key] = IF @ < now THEN now ELSE @]
            /\ Return(w)
            /\ UNCHANGED <<clock, file, images, calls, committed, readerVars>>

(* os.Rename: the new snapshot is visible, and may or may not survive a    *)
(* power loss until the directory is synced.                               *)
Rename(w) ==
  /\ writer[w].step = "staged"
  /\ file' = writer[w].next
  /\ images' = images \cup {writer[w].next}
  /\ writer' = [writer EXCEPT ![w].step = "renamed"]
  /\ UNCHANGED <<clock, lock, calls, committed, promised, readerVars>>

(* The history keeps the latest time a Revoke of the key succeeded for,    *)
(* and the generation that holds it.                                       *)
Commit(key, now, generation) ==
  committed' = IF key # NoKey /\ committed[key].at < now
               THEN [committed EXCEPT ![key] =
                       [generation |-> generation, at |-> now]]
               ELSE committed

(* dirHandle.Sync(), and the success the caller sees. *)
SyncDir(w) ==
  /\ writer[w].step = "renamed"
  /\ images' = {file}
  /\ Commit(writer[w].key, writer[w].now, writer[w].next.generation)
  /\ Return(w)
  /\ UNCHANGED <<clock, file, calls, promised, readerVars>>
----------------------------------------------------------------------------

(* readSnapshot: the file, or an error of reading it. *)
ReadFile ==
  /\ buf' \in {file, NoSnapshot}
  /\ UNCHANGED <<clock, writerVars, view>>

(* NewReader: its first Refresh starts. *)
StartReader ==
  /\ reader = "down"
  /\ reader' = "starting"
  /\ ReadFile

(* A tick of poll: Refresh starts. *)
Poll ==
  /\ reader = "polling"
  /\ reader' = "reading"
  /\ ReadFile

(* The entries of a snapshot that are not expired. *)
Live(s) == [k \in Keys |-> IF s.retain[k] > clock THEN s.retain[k] ELSE 0]

(* What Refresh takes for a rollback: an older generation, the same one    *)
(* with other content, a live tombstone removed or shortened.              *)
RolledBack_SameGeneration(s) ==
  \/ s.generation <= view.generation
  \/ \E k \in Keys :
       view.revoked[k] > clock /\ Live(s)[k] < view.revoked[k]

RolledBack_GenerationOnly(s) ==
  \/ s.generation < view.generation
  \/ s.generation = view.generation /\ s # view.digest

RolledBack(s) ==
  \/ s.generation < view.generation
  \/ s.generation = view.generation /\ s # view.digest
  \/ \E k \in Keys :
       view.revoked[k] > clock /\ Live(s)[k] < view.revoked[k]

(* The rest of Refresh: publish the snapshot, or keep the last view and    *)
(* mark it unavailable.  When the first refresh fails, so does NewReader.  *)
Publish_Lenient ==
  /\ reader \in {"starting", "reading"}
  /\ buf' = NoSnapshot
  /\ IF buf.generation = 0 \/ RolledBack(buf)
     THEN /\ view' = view
          /\ reader' = IF reader = "starting" THEN "down" ELSE "polling"
     ELSE /\ view' = [ok |-> TRUE, generation |-> buf.generation,
                      digest |-> buf, revoked |-> Live(buf)]
          /\ reader' = "polling"
  /\ UNCHANGED <<clock, writerVars>>

Publish ==
  /\ reader \in {"starting", "reading"}
  /\ buf' = NoSnapshot
  /\ IF buf.generation = 0 \/ RolledBack(buf)
     THEN /\ view' = [view EXCEPT !.ok = FALSE]
          /\ reader' = IF reader = "starting" THEN "down" ELSE "polling"
     ELSE /\ view' = [ok |-> TRUE, generation |-> buf.generation,
                      digest |-> buf, revoked |-> Live(buf)]
          /\ reader' = "polling"
  /\ UNCHANGED <<clock, writerVars>>

(* Close, or the end of the gateway's process: the next reader starts      *)
(* without a memory.                                                       *)
StopReader ==
  /\ reader = "polling"
  /\ reader' = "down"
  /\ view' = NoView
  /\ UNCHANGED <<clock, writerVars, buf>>

(* The host loses power: every process is gone, and the path names one of  *)
(* the snapshots the file system had not yet made final.                   *)
PowerLoss ==
  /\ \E s \in images : file' = s /\ images' = {s}
  /\ lock' = NoWriter
  /\ writer' = [w \in Writers |-> IdleWriter]
  /\ reader' = "down"
  /\ buf' = NoSnapshot
  /\ view' = NoView
  /\ UNCHANGED <<clock, calls, committed, promised>>

Next ==
  \/ Tick
  \/ \E w \in Writers, k \in Keys \cup {NoKey} : Begin(w, k)
  \/ \E w \in Writers : Lock(w) \/ InitFile(w) \/ RevokeKey(w) \/ Rename(w)
                          \/ SyncDir(w) \/ Fail(w)
  \/ StartReader \/ Poll \/ Publish \/ StopReader
  \/ PowerLoss

Spec == Init /\ [][Next]_vars

(* Somebody deletes the snapshot while the gateway runs: the next Init     *)
(* starts again from generation 1 with no tombstone.                       *)
Delete ==
  /\ file.generation # 0
  /\ file' = NoSnapshot
  /\ images' = images \cup {NoSnapshot}
  /\ UNCHANGED <<clock, lock, writer, calls, committed, promised, readerVars>>

DeletingSpec == Init /\ [][Next \/ Delete]_vars

(* The poll goroutine keeps ticking, and a refresh it began ends: every    *)
(* step of it is a bounded read of a local file.                           *)
FairSpec == DeletingSpec /\ WF_vars(Poll) /\ WF_vars(Publish)
----------------------------------------------------------------------------

(* validateClaims, for the times of a token. *)
ValidAt_NoLifetime(iat, exp, t) == exp > t /\ iat <= t + Skew /\ exp > iat

ValidAt(iat, exp, t) ==
  /\ exp > t
  /\ iat <= t + Skew
  /\ exp > iat
  /\ exp - iat <= MaxTTL

(* Auth: a valid token, and Check says without an error that it is not     *)
(* revoked.  Check looks a key up; it does not look at its retention.      *)
Accepts(k, iat, exp) ==
  /\ ValidAt(iat, exp, clock)
  /\ view.ok
  /\ view.revoked[k] = 0

(* The last second a token can be valid that was issued by time t, by an   *)
(* issuer whose clock is at most Skew ahead.                               *)
Horizon(t) == t + Skew + MaxTTL

(* Once a Revoke has succeeded and the reader has come to its generation,  *)
(* the gateway accepts no token of that key issued by then: the tombstone  *)
(* outlives every such token through later writers, older clock readings,  *)
(* pruning on either side, restarts and power losses.                      *)
RevokedTokensRejected ==
  \A k \in Keys :
    LET c == committed[k]
    IN  c.generation # 0 /\ view.generation >= c.generation =>
          \A iat \in 0 .. c.at + Skew : \A exp \in 0 .. Horizon(c.at) + 1 :
            ~Accepts(k, iat, exp)

(* A Revoke that wrote and succeeded is durable: whatever a power loss     *)
(* leaves at the path holds the tombstone until the last token is expired. *)
CommittedSurvives ==
  \A k \in Keys :
    committed[k].at # 0 /\ clock < Horizon(committed[k].at) =>
      \A s \in images : s.retain[k] >= Horizon(committed[k].at)

(* With nobody tampering with the file a refresh never takes what it read  *)
(* for a rollback: no interleaving of writers, prunings and refreshes      *)
(* makes the gateway refuse all traffic by mistake.                        *)
NoFalseRollback ==
  reader = "reading" /\ buf.generation # 0 => ~RolledBack(buf)

(* A running reader never forgets: whatever happens to the file, a view    *)
(* that serves checks never has an older generation than the one before    *)
(* it, nor a live tombstone less, even across views that are unavailable.  *)
ReaderNeverForgets ==
  [][ reader # "down" /\ reader' # "down" /\ view'.ok =>
        /\ view'.generation >= view.generation
        /\ \A k \in Keys :
             view.revoked[k] > clock => view'.revoked[k] >= view.revoked[k] ]_vars

(* A revocation reaches the gateway: after a Revoke has succeeded, the     *)
(* reader comes to that generation, or serves no check at all (it is down, *)
(* or it cannot read the file and fails closed), unless somebody deletes   *)
(* the snapshot that has it first.                                         *)
RevocationVisible ==
  \A g \in 2 .. MaxCalls + 1 :
    (\E k \in Keys : committed[k].generation = g) ~>
      (view.generation >= g \/ ~view.ok \/ file.generation < g)

(* Every Revoke that reports success is durable, also when it found the    *)
(* tombstone already there.  "CommitResult describes durable local state   *)
(* after a writer operation", says internal/revocation/revocation.go; but  *)
(* a tombstone found there may be one whose directory sync never happened. *)
AcknowledgedSurvives ==
  \A k \in Keys :
    promised[k] # 0 /\ clock < Horizon(promised[k]) =>
      \A s \in images : s.retain[k] >= Horizon(promised[k])
=============================================================================
