------------------------------ MODULE KeyStore ------------------------------
(***************************************************************************)
(* The file-backed local KMS (internal/kms/local) as the operator commands *)
(* use it (internal/operator): importing a provider key, inspecting the    *)
(* store and migrating legacy blobs with a backup, each under an advisory  *)
(* file lock.  RotateKey and DeleteKey have no caller and are left out.    *)
(*                                                                         *)
(* A blob is what AES-GCM makes of a value: a v2 blob opens only under the *)
(* key id it was sealed for, a legacy blob under every id, and a bad one   *)
(* (another master key, an unknown version, too long) under none.  Put is  *)
(* atomic, because it renames a synced file into place.  A process may die *)
(* between any two steps, which frees its lock; the disk survives.         *)
(***************************************************************************)
EXTENDS Naturals, FiniteSets, FiniteSetsExt

CONSTANTS
  Procs,         \* operator processes
  NoProc,        \* the lock is free
  Keys,          \* key ids, in the order of sort.Strings
  Values,        \* provider keys
  NoValue,
  Dirs,          \* backup directories the operator may name
  NoDir,
  MaxOps         \* bound of the commands begun

ASSUME KeyStoreAssumption ==
  /\ NoProc \notin Procs
  /\ Keys \subseteq Nat \ {0}
  /\ IsFiniteSet(Keys)
  /\ NoValue \notin Values
  /\ NoDir \notin Dirs
  /\ MaxOps \in Nat

VARIABLES
  store,         \* the blob of each key in kms.local.key_store_path
  backup,        \* the blobs in each backup directory
  made,          \* the backup directories that exist
  lock,          \* the process that holds .operator.lock
  cmd,           \* cmd[p]: what p is doing
  ops,           \* the number of commands begun
  nonce,         \* the last nonce drawn
  latest,        \* history: the value each key was last given
  original,      \* history: the store when each backup was begun
  rewrote,       \* history: the backups whose migration changed the store
  strict         \* history: a command has reported a store free of legacy

vars == <<store, backup, made, lock, cmd, ops, nonce, latest, original,
          rewrote, strict>>
disk == <<store, backup, made>>
histories == <<latest, original, rewrote, strict>>

NoKey == 0

BlobType ==
  [fmt : {"none", "legacy", "v2", "bad"}, id : Keys \cup {NoKey},
   val : Values \cup {NoValue}, nonce : Nat]

NoBlob == [fmt |-> "none", id |-> NoKey, val |-> NoValue, nonce |-> 0]
BadBlob == [NoBlob EXCEPT !.fmt = "bad"]
Legacy(v) == [fmt |-> "legacy", id |-> NoKey, val |-> v, nonce |-> 0]

sealV2Blob_SameForAll(k, v, n) ==
  [fmt |-> "v2", id |-> Min(Keys), val |-> v, nonce |-> n]

sealV2Blob(k, v, n) == [fmt |-> "v2", id |-> k, val |-> v, nonce |-> n]

(* The value that openBlob returns, NoValue for an error. *)
openBlob(floor, k, blob) ==
  IF \/ blob.fmt = "v2" /\ blob.id = k
     \/ blob.fmt = "legacy" /\ floor < 2
  THEN blob.val
  ELSE NoValue

Opens(floor, k, blob) == openBlob(floor, k, blob) # NoValue

Empty == [k \in Keys |-> NoBlob]
List(blobs) == {k \in Keys : blobs[k].fmt # "none"}

Steps == {"idle", "waiting", "locked", "put", "inspect", "validate",
          "backup", "rewrite"}

CmdType ==
  [op : {"none", "import", "inspect", "migrate"}, step : Steps,
   floor : 1 .. 2, key : Keys \cup {NoKey}, val : Values \cup {NoValue},
   replace : BOOLEAN, dir : Dirs \cup {NoDir}, todo : SUBSET Keys,
   seen : [Keys -> BlobType]]

Idle ==
  [op |-> "none", step |-> "idle", floor |-> 1, key |-> NoKey,
   val |-> NoValue, replace |-> FALSE, dir |-> NoDir, todo |-> {},
   seen |-> Empty]

(* The disk, the commands and the histories have their types. *)
TypeOK ==
  /\ store \in [Keys -> BlobType]
  /\ backup \in [Dirs -> [Keys -> BlobType]]
  /\ made \subseteq Dirs
  /\ lock \in Procs \cup {NoProc}
  /\ cmd \in [Procs -> CmdType]
  /\ ops \in Nat
  /\ nonce \in Nat
  /\ latest \in [Keys -> Values \cup {NoValue}]
  /\ original \in [Dirs -> [Keys -> BlobType]]
  /\ rewrote \subseteq Dirs
  /\ strict \in BOOLEAN

InitialBlobs(k) ==
  {NoBlob, BadBlob} \cup {Legacy(v) : v \in Values}
                    \cup {[fmt |-> "v2", id |-> k, val |-> v, nonce |-> 0] :
                             v \in Values}

(* A store an earlier release may have left. *)
Init ==
  /\ store \in {s \in [Keys -> UNION {InitialBlobs(k) : k \in Keys}] :
                  \A k \in Keys : s[k] \in InitialBlobs(k)}
  /\ backup = [d \in Dirs |-> Empty]
  /\ made = {}
  /\ lock = NoProc
  /\ cmd = [p \in Procs |-> Idle]
  /\ ops = 0
  /\ nonce = 0
  /\ latest = [k \in Keys |-> openBlob(1, k, store[k])]
  /\ original = [d \in Dirs |-> Empty]
  /\ rewrote = {}
  /\ strict = FALSE
----------------------------------------------------------------------------

(* A command returns, or fails: the deferred unlock runs. *)
End(p) ==
  /\ cmd' = [cmd EXCEPT ![p] = Idle]
  /\ lock' = IF lock = p THEN NoProc ELSE lock

Goto(p, step, todo) ==
  cmd' = [cmd EXCEPT ![p].step = step, ![p].todo = todo]

(* A command has loaded the configuration, with its format floor, and      *)
(* waits for the lock.                                                     *)
Begin(p, c) ==
  /\ cmd[p].step = "idle"
  /\ ops < MaxOps
  /\ ops' = ops + 1
  /\ cmd' = [cmd EXCEPT ![p] = c]
  /\ UNCHANGED <<disk, lock, nonce, histories>>

ImportProviderKey(p) ==
  \E k \in Keys, v \in Values, replace \in BOOLEAN, floor \in 1 .. 2 :
    Begin(p, [Idle EXCEPT !.op = "import", !.step = "waiting", !.key = k,
                          !.val = v, !.replace = replace, !.floor = floor])

InspectKMS(p) ==
  \E floor \in 1 .. 2 :
    Begin(p, [Idle EXCEPT !.op = "inspect", !.step = "waiting",
                          !.floor = floor])

MigrateKMS(p) ==
  \E d \in Dirs, floor \in 1 .. 2 :
    Begin(p, [Idle EXCEPT !.op = "migrate", !.step = "waiting", !.dir = d,
                          !.floor = floor])

Lock_Shared(p) ==
  /\ cmd[p].step = "waiting"
  /\ lock' = p
  /\ Goto(p, "locked", {})
  /\ UNCHANGED <<disk, ops, nonce, histories>>

(* withKMSFileLock gets the lock, or has waited for writerLockTimeout. *)
Lock(p) ==
  /\ cmd[p].step = "waiting"
  /\ lock = NoProc
  /\ lock' = p
  /\ Goto(p, "locked", {})
  /\ UNCHANGED <<disk, ops, nonce, histories>>

LockTimeout(p) ==
  /\ cmd[p].step = "waiting"
  /\ lock # NoProc
  /\ End(p)
  /\ UNCHANGED <<disk, ops, nonce, histories>>

(* An I/O error or a cancelled context ends the command where it is, or    *)
(* the process dies there.                                                 *)
Stop(p) ==
  /\ cmd[p].step # "idle"
  /\ End(p)
  /\ UNCHANGED <<disk, ops, nonce, histories>>
----------------------------------------------------------------------------

(* There is no such key, or one that opens and may be replaced. *)
MayStore(c) ==
  \/ store[c.key].fmt = "none"
  \/ Opens(c.floor, c.key, store[c.key]) /\ c.replace

(* GetKey in the callback of ImportProviderKey. *)
ImportCheck(p) ==
  /\ cmd[p].op = "import"
  /\ cmd[p].step = "locked"
  /\ IF MayStore(cmd[p]) THEN Goto(p, "put", {}) /\ UNCHANGED lock ELSE End(p)
  /\ UNCHANGED <<disk, ops, nonce, histories>>

Put(k, v) ==
  /\ nonce' = nonce + 1
  /\ store' = [store EXCEPT ![k] = sealV2Blob(k, v, nonce + 1)]

(* StoreKey.  A failure before the rename is Stop; one after it, of the    *)
(* directory's sync, leaves the store like a success.                      *)
ImportStore(p) ==
  /\ cmd[p].op = "import"
  /\ cmd[p].step = "put"
  /\ Put(cmd[p].key, cmd[p].val)
  /\ latest' = [latest EXCEPT ![cmd[p].key] = cmd[p].val]
  /\ End(p)
  /\ UNCHANGED <<backup, made, ops, original, rewrote, strict>>
----------------------------------------------------------------------------

(* One blob of inspectFormatsLocked or of MigrateLegacy's first pass. *)
Look(p, k) ==
  /\ IF Opens(cmd[p].floor, k, store[k])
     THEN /\ cmd' = [cmd EXCEPT ![p].seen[k] = store[k],
                                ![p].todo = @ \ {k}]
          /\ UNCHANGED lock
     ELSE End(p)
  /\ UNCHANGED <<disk, ops, nonce, histories>>

InspectBegin(p) ==
  /\ cmd[p].op = "inspect"
  /\ cmd[p].step = "locked"
  /\ Goto(p, "inspect", List(store))
  /\ UNCHANGED <<disk, lock, ops, nonce, histories>>

(* In the order of the encoded file names, which is not that of the ids. *)
InspectOne(p) ==
  /\ cmd[p].step = "inspect"
  /\ \E k \in cmd[p].todo : Look(p, k)

LegacySeen(p) == {k \in Keys : cmd[p].seen[k].fmt = "legacy"}

InspectDone_IgnoresLegacy(p) ==
  /\ cmd[p].step = "inspect"
  /\ cmd[p].todo = {}
  /\ End(p)
  /\ strict' = TRUE
  /\ UNCHANGED <<disk, ops, nonce, latest, original, rewrote>>

(* InspectFormats returns nil; the operator reads legacy from its report. *)
InspectDone(p) ==
  /\ cmd[p].step = "inspect"
  /\ cmd[p].todo = {}
  /\ End(p)
  /\ strict' = (strict \/ LegacySeen(p) = {})
  /\ UNCHANGED <<disk, ops, nonce, latest, original, rewrote>>
----------------------------------------------------------------------------

(* os.Mkdir refuses a directory that exists; MigrateLegacy lists the ids. *)
MigrateBegin(p) ==
  /\ cmd[p].op = "migrate"
  /\ cmd[p].step = "locked"
  /\ IF cmd[p].dir \in made
     THEN End(p) /\ UNCHANGED <<made, original>>
     ELSE /\ made' = made \cup {cmd[p].dir}
          /\ original' = [original EXCEPT ![cmd[p].dir] = store]
          /\ Goto(p, "validate", List(store))
          /\ UNCHANGED lock
  /\ UNCHANGED <<store, backup, ops, nonce, latest, rewrote, strict>>

Validate(p) ==
  /\ cmd[p].step = "validate"
  /\ cmd[p].todo # {}
  /\ Look(p, Min(cmd[p].todo))

StartBackup_LegacyOnly(p) ==
  /\ cmd[p].step = "validate"
  /\ cmd[p].todo = {}
  /\ Goto(p, "backup", LegacySeen(p))
  /\ UNCHANGED <<disk, lock, ops, nonce, histories>>

StartBackup(p) ==
  /\ cmd[p].step = "validate"
  /\ cmd[p].todo = {}
  /\ Goto(p, "backup", List(cmd[p].seen))
  /\ UNCHANGED <<disk, lock, ops, nonce, histories>>

(* The second pass: a blob that is still the validated one is copied. *)
BackUp(p) ==
  /\ cmd[p].step = "backup"
  /\ cmd[p].todo # {}
  /\ LET k == Min(cmd[p].todo)
     IN IF store[k] = cmd[p].seen[k]
        THEN /\ backup' = [backup EXCEPT ![cmd[p].dir][k] = store[k]]
             /\ Goto(p, "backup", cmd[p].todo \ {k})
             /\ UNCHANGED lock
        ELSE End(p) /\ UNCHANGED backup
  /\ UNCHANGED <<store, made, ops, nonce, histories>>

StartRewrite(p) ==
  /\ cmd[p].step = "backup"
  /\ cmd[p].todo = {}
  /\ Goto(p, "rewrite", LegacySeen(p))
  /\ UNCHANGED <<disk, lock, ops, nonce, histories>>

(* The third pass: a legacy blob, read back from the backup, is sealed     *)
(* again.  Nothing else writes a backup, so its digest is the one seen.    *)
Rewrite(p) ==
  /\ cmd[p].step = "rewrite"
  /\ cmd[p].todo # {}
  /\ LET k == Min(cmd[p].todo)
     IN /\ Put(k, backup[cmd[p].dir][k].val)
        /\ Goto(p, "rewrite", cmd[p].todo \ {k})
  /\ rewrote' = rewrote \cup {cmd[p].dir}
  /\ UNCHANGED <<backup, made, lock, ops, latest, original, strict>>

(* MigrateLegacy returns nil; its report has Migrated = Legacy. *)
MigrateDone(p) ==
  /\ cmd[p].step = "rewrite"
  /\ cmd[p].todo = {}
  /\ End(p)
  /\ strict' = TRUE
  /\ UNCHANGED <<disk, ops, nonce, latest, original, rewrote>>
----------------------------------------------------------------------------

(* The operator gives no further command. *)
Quiet ==
  /\ ops = MaxOps
  /\ \A p \in Procs : cmd[p].step = "idle"
  /\ UNCHANGED vars

Import(p) == ImportProviderKey(p) \/ ImportCheck(p) \/ ImportStore(p)

Inspect(p) ==
  InspectKMS(p) \/ InspectBegin(p) \/ InspectOne(p) \/ InspectDone(p)

Migrate(p) ==
  \/ MigrateKMS(p) \/ MigrateBegin(p) \/ Validate(p) \/ StartBackup(p)
  \/ BackUp(p) \/ StartRewrite(p) \/ Rewrite(p) \/ MigrateDone(p)

Next ==
  \/ \E p \in Procs :
       \/ Import(p) \/ Inspect(p) \/ Migrate(p)
       \/ Lock(p) \/ LockTimeout(p) \/ Stop(p)
  \/ Quiet

Spec == Init /\ [][Next]_vars
----------------------------------------------------------------------------

(* Migration and inspection never lose a key: whatever stops them, and     *)
(* however often they are run again, every key opens in the migration      *)
(* window to the value it was last given (MigrateLegacy, local.go:224).    *)
ValuesKept ==
  \A k \in Keys :
    latest[k] # NoValue => openBlob(1, k, store[k]) = latest[k]

(* A migration that has changed the store has left, in its own directory,  *)
(* every blob the store had when it began, and no later command, whether   *)
(* or not the migration was cut short, touches that backup.                *)
BackupComplete == \A d \in rewrote : backup[d] = original[d]

(* Once an inspection without legacy blobs, or a migration, has returned   *)
(* without error, the format floor may be raised: every blob opens under   *)
(* it, and so does every blob stored later.                                *)
StrictReady ==
  strict => \A k \in List(store) : Opens(2, k, store[k])

(* A stored blob is replaced only by an import with --replace that could   *)
(* open it, or by a migration that seals a legacy blob's value again: two  *)
(* imports cannot both find a key missing, a v2 blob is never rewritten,   *)
(* and an unreadable blob stays for the operator to look at.               *)
NoSilentReplace ==
  [][\A k \in List(store) :
       store'[k] # store[k] =>
         /\ Opens(1, k, store[k])
         /\ \/ \E p \in Procs : /\ cmd[p].op = "import" /\ cmd[p].key = k
                                 /\ cmd[p].replace /\ cmd[p].step = "put"
            \/ /\ store[k].fmt = "legacy"
               /\ openBlob(2, k, store'[k]) = store[k].val]_vars
=============================================================================
