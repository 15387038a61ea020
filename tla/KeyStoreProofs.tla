--------------------------- MODULE KeyStoreProofs ---------------------------
(***************************************************************************)
(* For any processes, keys, values and directories: the commands on the    *)
(* key store keep every value, leave complete backups, report a store free *)
(* of legacy blobs only if it is, and replace nothing silently.            *)
(*                                                                         *)
(* None of this is inductive by itself.  What carries it is Progress: what *)
(* the process that holds the lock has seen, copied and rewritten so far,  *)
(* compared with what the store and its backup hold now.                   *)
(***************************************************************************)
EXTENDS KeyStore, TLAPS

Critical == Steps \ {"idle", "waiting"}

(* A process past the lock is the one that holds it. *)
LockInv == \A p \in Procs : cmd[p].step \in Critical => lock = p

(* A blob that Put or an earlier release left under the id k. *)
Stored(k) ==
  {NoBlob, BadBlob}
    \cup {b \in BlobType : /\ b.val \in Values
                           /\ b.fmt = "legacy" \/ (b.fmt = "v2" /\ b.id = k)}

StoreInv == \A k \in Keys : store[k] \in Stored(k)

(* A directory nobody has made is empty, and only made ones are reported. *)
BackupInv ==
  /\ rewrote \subseteq made
  /\ \A d \in Dirs \ made : backup[d] = Empty
  /\ BackupComplete

(* The pass over the store has looked at all but what is left to do. *)
Looked(c) ==
  /\ c.todo \subseteq List(store)
  /\ \A k \in Keys : c.seen[k] = IF k \in c.todo THEN NoBlob ELSE store[k]
  /\ \A k \in List(store) \ c.todo : Opens(c.floor, k, store[k])

(* The migration whose backup this is has not changed the store yet. *)
Begun(c) ==
  /\ c.dir \in made \ rewrote
  /\ original[c.dir] = store

Validating(c) == Looked(c) /\ Begun(c) /\ backup[c.dir] = Empty

BackingUp(c) ==
  /\ Begun(c)
  /\ c.todo \subseteq List(store)
  /\ c.seen = store
  /\ \A k \in List(store) : Opens(c.floor, k, store[k])
  /\ \A k \in Keys : backup[c.dir][k] = IF k \in c.todo THEN NoBlob ELSE store[k]

Rewriting(c) ==
  /\ c.dir \in made
  /\ original[c.dir] = c.seen
  /\ backup[c.dir] = c.seen
  /\ c.todo \subseteq List(c.seen)
  /\ \A k \in List(c.seen) : Opens(c.floor, k, c.seen[k])
  /\ \A k \in c.todo : c.seen[k].fmt = "legacy"
  /\ \A k \in Keys :
       IF c.seen[k].fmt = "legacy" /\ k \notin c.todo
       THEN store[k].fmt = "v2" /\ store[k].val = c.seen[k].val
       ELSE store[k] = c.seen[k]

(* What a command has done by the step it is at. *)
Progress(c) ==
  /\ c.op = "import" => c.key \in Keys /\ c.val \in Values
  /\ c.op = "migrate" => c.dir \in Dirs
  /\ c.step \in {"waiting", "locked"} => c.seen = Empty
  /\ c.step = "put" => c.op = "import" /\ MayStore(c)
  /\ c.step = "inspect" => Looked(c)
  /\ c.step \in {"validate", "backup", "rewrite"} => c.op = "migrate"
  /\ c.step = "validate" => Validating(c)
  /\ c.step = "backup" => BackingUp(c)
  /\ c.step = "rewrite" => Rewriting(c)

ProgressInv == \A p \in Procs : Progress(cmd[p])

(* The inductive invariant. *)
IInv ==
  /\ TypeOK /\ LockInv /\ StoreInv /\ BackupInv /\ ProgressInv
  /\ ValuesKept /\ StrictReady
----------------------------------------------------------------------------

(* The next id of a pass is one of those left to do (NextOf, below). *)
NextLeft == \A T \in SUBSET Keys : T # {} => Min(T) \in T

(* What a stored blob opens to: legacy and v2 blobs in the migration       *)
(* window, v2 blobs alone under the raised floor.                          *)
LEMMA Blobs ==
  ASSUME NEW k \in Keys, NEW b \in Stored(k)
  PROVE  /\ b \in BlobType
         /\ b.fmt = "none" => b = NoBlob
         /\ b.fmt \in {"legacy", "v2"} => b.val \in Values /\ openBlob(1, k, b) = b.val
         /\ b.fmt = "v2" => openBlob(2, k, b) = b.val
         /\ \A f \in 1 .. 2 : Opens(f, k, b) => b.fmt \in {"legacy", "v2"}
         /\ Opens(2, k, b) <=> b.fmt = "v2"
<1>1. NoBlob \in BlobType /\ BadBlob \in BlobType /\ BadBlob.fmt = "bad"
  BY DEF NoBlob, BadBlob, BlobType, NoKey
<1>2. b \in BlobType
  BY <1>1 DEF Stored
<1>3. b = NoBlob \/ b = BadBlob \/ (b.val \in Values /\ (b.fmt = "legacy" \/ (b.fmt = "v2" /\ b.id = k)))
  BY DEF Stored
<1>4. NoBlob.fmt = "none"
  BY DEF NoBlob
<1> QED
  BY <1>1, <1>2, <1>3, <1>4, KeyStoreAssumption DEF openBlob, Opens

(* A blob that Put seals is one of its key. *)
LEMMA Sealed ==
  ASSUME NEW k \in Keys, NEW v \in Values, NEW n \in Nat
  PROVE  /\ sealV2Blob(k, v, n) \in Stored(k)
         /\ sealV2Blob(k, v, n).fmt = "v2"
         /\ sealV2Blob(k, v, n).val = v
BY DEF sealV2Blob, Stored, BlobType

(* What a process holds before a command and after it. *)
LEMMA IdleType == Idle \in CmdType /\ Empty \in [Keys -> BlobType]
<1>1. NoBlob \in BlobType
  BY DEF NoBlob, BlobType, NoKey
<1>2. Empty \in [Keys -> BlobType]
  BY <1>1 DEF Empty
<1> QED
  BY <1>2 DEF Idle, CmdType, NoKey, Steps

(* Goto changes the step and the work left, and nothing else. *)
LEMMA GotoCmd ==
  ASSUME TypeOK, NEW p \in Procs, NEW step \in Steps, NEW todo \in SUBSET Keys,
         Goto(p, step, todo)
  PROVE  /\ cmd' \in [Procs -> CmdType]
         /\ \A q \in Procs \ {p} : cmd'[q] = cmd[q]
         /\ cmd'[p].step = step /\ cmd'[p].todo = todo
         /\ cmd'[p].op = cmd[p].op /\ cmd'[p].floor = cmd[p].floor
         /\ cmd'[p].key = cmd[p].key /\ cmd'[p].val = cmd[p].val
         /\ cmd'[p].replace = cmd[p].replace /\ cmd'[p].dir = cmd[p].dir
         /\ cmd'[p].seen = cmd[p].seen
<1> DEFINE c == [cmd[p] EXCEPT !.step = step, !.todo = todo]
<1>1. cmd[p] \in CmdType
  BY DEF TypeOK
<1>2. c \in CmdType
  BY <1>1, ZenonT(60) DEF CmdType
<1>3. cmd' = [cmd EXCEPT ![p] = c]
  BY <1>1, ZenonT(60) DEF TypeOK, Goto
<1>4. /\ c.step = step /\ c.todo = todo
      /\ c.op = cmd[p].op /\ c.floor = cmd[p].floor
      /\ c.key = cmd[p].key /\ c.val = cmd[p].val
      /\ c.replace = cmd[p].replace /\ c.dir = cmd[p].dir
      /\ c.seen = cmd[p].seen
  BY <1>1 DEF CmdType
<1> HIDE DEF c
<1> QED
  BY <1>2, <1>3, <1>4 DEF TypeOK

(* A command that ends is idle and does not hold the lock. *)
LEMMA EndCmd ==
  ASSUME TypeOK, NEW p \in Procs, End(p)
  PROVE  /\ cmd' \in [Procs -> CmdType]
         /\ \A q \in Procs \ {p} : cmd'[q] = cmd[q] /\ (lock = q => lock' = q)
         /\ cmd'[p].step = "idle" /\ cmd'[p].op = "none"
         /\ lock' \in Procs \cup {NoProc}
<1>1. Idle.step = "idle" /\ Idle.op = "none"
  BY DEF Idle
<1> QED
  BY <1>1, IdleType, KeyStoreAssumption DEF TypeOK, End
----------------------------------------------------------------------------

(* The stores that an earlier release can have left satisfy the invariant. *)
LEMMA Initially == Init => IInv
<1> SUFFICES ASSUME Init PROVE IInv
  OBVIOUS
<1>1. \A k \in Keys : InitialBlobs(k) \subseteq Stored(k)
  <2> SUFFICES ASSUME NEW k \in Keys, NEW b \in InitialBlobs(k) PROVE b \in Stored(k)
    OBVIOUS
  <2>1. ASSUME NEW v \in Values, b = Legacy(v) PROVE b \in Stored(k)
    BY <2>1 DEF Legacy, Stored, BlobType, NoKey
  <2>2. ASSUME NEW v \in Values, b = [fmt |-> "v2", id |-> k, val |-> v, nonce |-> 0]
        PROVE  b \in Stored(k)
    BY <2>2 DEF Stored, BlobType
  <2> QED
    BY <2>1, <2>2 DEF InitialBlobs, Stored
<1>2. StoreInv
  BY <1>1 DEF Init, StoreInv
<1>3. store \in [Keys -> BlobType]
  BY <1>2, Blobs DEF Init, StoreInv
<1>4. latest \in [Keys -> Values \cup {NoValue}] /\ ValuesKept
  BY <1>3 DEF Init, ValuesKept, openBlob, BlobType
<1>5. TypeOK
  BY <1>3, <1>4, IdleType, ZenonT(60) DEF Init, TypeOK
<1>6. Idle.step = "idle" /\ Idle.op = "none"
  BY DEF Idle
<1>7. ProgressInv /\ LockInv
  BY <1>6 DEF Init, ProgressInv, LockInv, Progress, Critical
<1> QED
  BY <1>2, <1>4, <1>5, <1>7 DEF Init, IInv, BackupInv, BackupComplete, StrictReady

(* The command that is past the lock is alone there. *)
LEMMA Alone ==
  ASSUME IInv, NEW p \in Procs, cmd[p].step \in Critical
  PROVE  lock = p /\ \A q \in Procs \ {p} : cmd[q].step \notin Critical
BY DEF IInv, LockInv

(* A step that changes one command and no blob. *)
LEMMA CmdStep ==
  ASSUME IInv, NEW p \in Procs,
         cmd' \in [Procs -> CmdType],
         \A q \in Procs \ {p} : cmd'[q] = cmd[q] /\ (lock = q => lock' = q),
         cmd'[p].step \in Critical => lock' = p,
         lock' \in Procs \cup {NoProc},
         Progress(cmd'[p]),
         ops' \in Nat,
         strict' \in BOOLEAN, StrictReady',
         UNCHANGED <<disk, nonce, latest, original, rewrote>>
  PROVE  IInv'
<1>1. TypeOK' /\ LockInv' /\ StoreInv' /\ BackupInv' /\ ValuesKept'
  BY DEF IInv, TypeOK, LockInv, StoreInv, BackupInv, BackupComplete, ValuesKept, disk
<1>2. ASSUME NEW q \in Procs PROVE Progress(cmd[q])'
  <2>1. Progress(cmd'[q])
    BY DEF IInv, ProgressInv
  <2> QED
    BY <2>1, ZenonT(60)
    DEF Progress, Looked, Begun, Validating, BackingUp, Rewriting, MayStore, disk, List
<1> QED
  BY <1>1, <1>2 DEF IInv, ProgressInv

(* A step of the command that holds the lock, whatever blobs it changes. *)
LEMMA OthersWait ==
  ASSUME IInv, NEW p \in Procs, cmd[p].step \in Critical,
         \A q \in Procs \ {p} : cmd'[q] = cmd[q],
         Progress(cmd[p])'
  PROVE  ProgressInv'
<1> SUFFICES ASSUME NEW q \in Procs \ {p} PROVE Progress(cmd[q])'
  BY DEF ProgressInv
<1>1. cmd[q].step \notin Critical /\ Progress(cmd[q]) /\ cmd'[q] = cmd[q]
  BY Alone DEF IInv, ProgressInv
<1> QED
  BY <1>1 DEF Progress, Critical, Steps
----------------------------------------------------------------------------

(* A command that returns or crashes (End): the lock is released and the   *)
(* memory of the process is gone.                                          *)
LEMMA EndStep ==
  ASSUME IInv, NEW p \in Procs, End(p), strict' \in BOOLEAN, StrictReady',
         ops' = ops, UNCHANGED <<disk, nonce, latest, original, rewrote>>
  PROVE  IInv'
<1>1. TypeOK /\ ops \in Nat
  BY DEF IInv, TypeOK
<1>2. /\ cmd' \in [Procs -> CmdType]
      /\ \A q \in Procs \ {p} : cmd'[q] = cmd[q] /\ (lock = q => lock' = q)
      /\ cmd'[p].step = "idle" /\ cmd'[p].op = "none"
      /\ lock' \in Procs \cup {NoProc}
  BY <1>1, EndCmd
<1>3. Progress(cmd'[p]) /\ cmd'[p].step \notin Critical
  BY <1>2 DEF Progress, Critical
<1> QED
  BY <1>1, <1>2, <1>3, CmdStep

(* The step of a command that ends without a report. *)
LEMMA PlainEnd ==
  ASSUME IInv, NEW p \in Procs, End(p), UNCHANGED <<disk, ops, nonce, histories>>
  PROVE  IInv'
<1>1. strict' \in BOOLEAN /\ StrictReady'
  BY DEF IInv, TypeOK, StrictReady, disk, histories, List
<1> QED
  BY <1>1, EndStep DEF histories

(* The step of a command that goes on, having changed no blob. *)
LEMMA GoOn ==
  ASSUME IInv, NEW p \in Procs,
         cmd' \in [Procs -> CmdType],
         \A q \in Procs \ {p} : cmd'[q] = cmd[q],
         cmd'[p].step \in Critical => lock' = p,
         (lock \in {p, NoProc} /\ lock' = p) \/ UNCHANGED lock,
         Progress(cmd'[p]),
         ops' \in Nat,
         UNCHANGED <<disk, nonce, histories>>
  PROVE  IInv'
<1>1. strict' \in BOOLEAN /\ StrictReady'
  BY DEF IInv, TypeOK, StrictReady, disk, histories, List
<1>2. lock' \in Procs \cup {NoProc} /\ \A q \in Procs \ {p} : lock = q => lock' = q
  BY KeyStoreAssumption DEF IInv, TypeOK
<1> QED
  BY <1>1, <1>2, CmdStep DEF histories

(* ImportProviderKey, InspectKMS and MigrateKMS begin: the command waits   *)
(* for the lock.                                                           *)
LEMMA BeginStep ==
  ASSUME IInv, NEW p \in Procs, ImportProviderKey(p) \/ InspectKMS(p) \/ MigrateKMS(p)
  PROVE  IInv'
<1>1. ASSUME NEW c \in CmdType, c.step = "waiting", c.seen = Empty, Begin(p, c),
             c.op = "import" => c.key \in Keys /\ c.val \in Values,
             c.op = "migrate" => c.dir \in Dirs
      PROVE  IInv'
  <2>1. /\ cmd' \in [Procs -> CmdType]
        /\ \A q \in Procs \ {p} : cmd'[q] = cmd[q]
        /\ cmd'[p] = c
        /\ ops' \in Nat
    BY <1>1 DEF Begin, IInv, TypeOK
  <2>2. Progress(c) /\ c.step \notin Critical
    BY <1>1 DEF Progress, Critical
  <2> QED
    BY <1>1, <2>1, <2>2, GoOn DEF Begin
<1>2. ASSUME ImportProviderKey(p) PROVE IInv'
  <2>1. PICK k \in Keys, v \in Values, replace \in BOOLEAN, floor \in 1 .. 2 :
          Begin(p, [Idle EXCEPT !.op = "import", !.step = "waiting", !.key = k,
                                !.val = v, !.replace = replace, !.floor = floor])
    BY <1>2, ZenonT(60) DEF ImportProviderKey
  <2> DEFINE c == [Idle EXCEPT !.op = "import", !.step = "waiting", !.key = k,
                               !.val = v, !.replace = replace, !.floor = floor]
  <2>2. c \in CmdType
    BY IdleType, ZenonT(60) DEF CmdType, Steps
  <2>3. Begin(p, c)
    BY <2>1
  <2>4. Idle.seen = Empty
    BY DEF Idle
  <2>5. c.step = "waiting" /\ c.seen = Empty /\ c.key = k /\ c.val = v
          /\ c.op = "import"
    BY <2>4, IdleType DEF CmdType
  <2> HIDE DEF c
  <2> QED
    BY <1>1, <2>2, <2>3, <2>5, SMTT(60)
<1>3. ASSUME InspectKMS(p) PROVE IInv'
  <2>1. PICK floor \in 1 .. 2 :
          Begin(p, [Idle EXCEPT !.op = "inspect", !.step = "waiting", !.floor = floor])
    BY <1>3, ZenonT(60) DEF InspectKMS
  <2> DEFINE c == [Idle EXCEPT !.op = "inspect", !.step = "waiting", !.floor = floor]
  <2>2. c \in CmdType
    BY IdleType, ZenonT(60) DEF CmdType, Steps
  <2>3. Begin(p, c)
    BY <2>1
  <2>4. Idle.seen = Empty
    BY DEF Idle
  <2>5. c.step = "waiting" /\ c.seen = Empty /\ c.op = "inspect"
    BY <2>4, IdleType DEF CmdType
  <2> HIDE DEF c
  <2> QED
    BY <1>1, <2>2, <2>3, <2>5
<1>4. ASSUME MigrateKMS(p) PROVE IInv'
  <2>1. PICK d \in Dirs, floor \in 1 .. 2 :
          Begin(p, [Idle EXCEPT !.op = "migrate", !.step = "waiting", !.dir = d,
                                !.floor = floor])
    BY <1>4, ZenonT(60) DEF MigrateKMS
  <2> DEFINE c == [Idle EXCEPT !.op = "migrate", !.step = "waiting", !.dir = d,
                               !.floor = floor]
  <2>2. c \in CmdType
    BY IdleType, ZenonT(60) DEF CmdType, Steps
  <2>3. Begin(p, c)
    BY <2>1
  <2>4. Idle.seen = Empty
    BY DEF Idle
  <2>5. c.step = "waiting" /\ c.seen = Empty /\ c.op = "migrate" /\ c.dir = d
    BY <2>4, IdleType DEF CmdType
  <2> HIDE DEF c
  <2> QED
    BY <1>1, <2>2, <2>3, <2>5
<1> QED
  BY <1>2, <1>3, <1>4

(* withKMSFileLock: the process gets the lock. *)
LEMMA LockStep ==
  ASSUME IInv, NEW p \in Procs, Lock(p)
  PROVE  IInv'
<1>1. TypeOK /\ Progress(cmd[p]) /\ ops \in Nat
  BY DEF IInv, ProgressInv, TypeOK
<1>2. /\ cmd[p].step = "waiting" /\ lock = NoProc /\ lock' = p
      /\ Goto(p, "locked", {})
      /\ UNCHANGED <<disk, ops, nonce, histories>>
  BY DEF Lock
<1>3. /\ cmd' \in [Procs -> CmdType]
      /\ \A q \in Procs \ {p} : cmd'[q] = cmd[q]
      /\ cmd'[p].step = "locked"
      /\ cmd'[p].op = cmd[p].op /\ cmd'[p].key = cmd[p].key
      /\ cmd'[p].val = cmd[p].val /\ cmd'[p].dir = cmd[p].dir
      /\ cmd'[p].seen = cmd[p].seen
  BY <1>1, <1>2, GotoCmd DEF Steps
<1>4. Progress(cmd'[p])
  BY <1>1, <1>2, <1>3 DEF Progress
<1> QED
  BY <1>1, <1>2, <1>3, <1>4, GoOn

(* An import looks at the blob that it is to replace. *)
LEMMA ImportCheckStep ==
  ASSUME IInv, NEW p \in Procs, ImportCheck(p)
  PROVE  IInv'
<1>1. /\ cmd[p].op = "import" /\ cmd[p].step = "locked"
      /\ UNCHANGED <<disk, ops, nonce, histories>>
  BY DEF ImportCheck
<1>2. CASE MayStore(cmd[p]) /\ Goto(p, "put", {}) /\ UNCHANGED lock
  <2>1. TypeOK /\ Progress(cmd[p]) /\ lock = p /\ ops \in Nat
    BY <1>1, Alone DEF IInv, ProgressInv, Critical, Steps, TypeOK
  <2>2. /\ cmd' \in [Procs -> CmdType]
        /\ \A q \in Procs \ {p} : cmd'[q] = cmd[q]
        /\ cmd'[p].step = "put" /\ cmd'[p].floor = cmd[p].floor
        /\ cmd'[p].op = cmd[p].op /\ cmd'[p].key = cmd[p].key
        /\ cmd'[p].val = cmd[p].val /\ cmd'[p].replace = cmd[p].replace
    BY <1>2, <2>1, GotoCmd DEF Steps
  <2>3. MayStore(cmd'[p])
    BY <1>2, <2>2 DEF MayStore
  <2>4. Progress(cmd'[p])
    BY <1>1, <2>1, <2>2, <2>3 DEF Progress
  <2> QED
    BY <1>1, <1>2, <2>1, <2>2, <2>4, GoOn
<1>3. CASE End(p)
  BY <1>1, <1>3, PlainEnd
<1> QED
  BY <1>2, <1>3 DEF ImportCheck

(* InspectFormats lists the store. *)
LEMMA InspectBeginStep ==
  ASSUME IInv, NEW p \in Procs, InspectBegin(p)
  PROVE  IInv'
<1>1. /\ cmd[p].op = "inspect" /\ cmd[p].step = "locked"
      /\ Goto(p, "inspect", List(store))
      /\ UNCHANGED <<disk, lock, ops, nonce, histories>>
  BY DEF InspectBegin
<1>2. TypeOK /\ Progress(cmd[p]) /\ lock = p /\ ops \in Nat /\ StoreInv
  BY <1>1, Alone DEF IInv, ProgressInv, Critical, Steps, TypeOK
<1>3. List(store) \in SUBSET Keys
  BY DEF List
<1>4. /\ cmd' \in [Procs -> CmdType]
      /\ \A q \in Procs \ {p} : cmd'[q] = cmd[q]
      /\ cmd'[p].step = "inspect" /\ cmd'[p].todo = List(store)
      /\ cmd'[p].op = cmd[p].op /\ cmd'[p].seen = cmd[p].seen
  BY <1>1, <1>2, <1>3, GotoCmd DEF Steps
<1>5. Looked(cmd'[p])
  <2>1. cmd'[p].seen = Empty
    BY <1>1, <1>2, <1>4 DEF Progress
  <2>2. \A k \in Keys \ List(store) : store[k] = NoBlob
    BY <1>2, Blobs DEF StoreInv, List
  <2> QED
    BY <1>4, <2>1, <2>2 DEF Looked, Empty
<1>6. Progress(cmd'[p])
  BY <1>1, <1>4, <1>5 DEF Progress
<1> QED
  BY <1>1, <1>2, <1>4, <1>6, GoOn

(* Looking at a blob: either the command ends, or it has looked at one     *)
(* more.                                                                   *)
LEMMA LookCmd ==
  ASSUME IInv, NEW p \in Procs, NEW k \in cmd[p].todo, Looked(cmd[p]),
         Opens(cmd[p].floor, k, store[k]),
         cmd' = [cmd EXCEPT ![p].seen[k] = store[k], ![p].todo = @ \ {k}]
  PROVE  /\ cmd' \in [Procs -> CmdType]
         /\ \A q \in Procs \ {p} : cmd'[q] = cmd[q]
         /\ cmd'[p].step = cmd[p].step /\ cmd'[p].op = cmd[p].op
         /\ cmd'[p].dir = cmd[p].dir /\ cmd'[p].key = cmd[p].key
         /\ cmd'[p].val = cmd[p].val
         /\ Looked(cmd'[p])
<1> DEFINE s == [cmd[p].seen EXCEPT ![k] = store[k]]
           c == [cmd[p] EXCEPT !.seen = s, !.todo = @ \ {k}]
<1>1. cmd[p] \in CmdType /\ store \in [Keys -> BlobType] /\ cmd \in [Procs -> CmdType]
  BY DEF IInv, TypeOK
<1>2. cmd[p].seen \in [Keys -> BlobType] /\ cmd[p].todo \in SUBSET Keys /\ k \in Keys
  BY <1>1 DEF CmdType
<1>3. s \in [Keys -> BlobType]
  BY <1>1, <1>2
<1>4. \A j \in Keys : s[j] = IF j = k THEN store[k] ELSE cmd[p].seen[j]
  BY <1>2
<1>5. cmd' = [cmd EXCEPT ![p] = c]
  BY <1>1, ZenonT(60)
<1> HIDE DEF s
<1>6. c \in CmdType
  BY <1>1, <1>2, <1>3, ZenonT(60) DEF CmdType
<1>7. /\ c.seen = s /\ c.todo = cmd[p].todo \ {k} /\ c.step = cmd[p].step
      /\ c.op = cmd[p].op /\ c.dir = cmd[p].dir /\ c.floor = cmd[p].floor
      /\ c.key = cmd[p].key /\ c.val = cmd[p].val
  BY <1>1 DEF CmdType
<1> HIDE DEF c
<1>8. Looked(c)
  BY <1>2, <1>4, <1>7 DEF Looked, List
<1>9. cmd'[p] = c
  BY <1>1, <1>5, ZenonT(60)
<1> QED
  BY <1>1, <1>5, <1>6, <1>7, <1>8, <1>9

(* A pass over the store opens one blob, for InspectFormats or for the     *)
(* validation of MigrateLegacy.                                            *)
LEMMA LookStep ==
  ASSUME IInv, NEW p \in Procs, NEW k \in cmd[p].todo, Look(p, k),
         cmd[p].step \in {"inspect", "validate"}
  PROVE  IInv'
<1>1. TypeOK /\ Progress(cmd[p]) /\ lock = p /\ ops \in Nat
  BY Alone DEF IInv, ProgressInv, Critical, Steps, TypeOK
<1>2. Looked(cmd[p])
  BY <1>1 DEF Progress, Validating
<1>3. UNCHANGED <<disk, ops, nonce, histories>>
  BY DEF Look
<1>4. CASE Opens(cmd[p].floor, k, store[k])
  <2>1. /\ cmd' = [cmd EXCEPT ![p].seen[k] = store[k], ![p].todo = @ \ {k}]
        /\ UNCHANGED lock
    BY <1>4 DEF Look
  <2>2. /\ cmd' \in [Procs -> CmdType]
        /\ \A q \in Procs \ {p} : cmd'[q] = cmd[q]
        /\ cmd'[p].step = cmd[p].step /\ cmd'[p].op = cmd[p].op
        /\ cmd'[p].dir = cmd[p].dir /\ cmd'[p].key = cmd[p].key
        /\ cmd'[p].val = cmd[p].val
        /\ Looked(cmd'[p])
    BY <1>2, <1>4, <2>1, LookCmd, ZenonT(60)
  <2>3. Progress(cmd'[p])
    BY <1>1, <2>2 DEF Progress, Validating, Begun
  <2> QED
    BY <1>1, <1>3, <2>1, <2>2, <2>3, GoOn
<1>5. CASE End(p)
  BY <1>3, <1>5, PlainEnd
<1> QED
  BY <1>4, <1>5 DEF Look

(* A pass that has looked at every blob has seen the store as it is. *)
LEMMA AllLooked ==
  ASSUME IInv, NEW c \in CmdType, Looked(c), c.todo = {}
  PROVE  /\ c.seen = store
         /\ \A k \in List(store) : Opens(c.floor, k, store[k])
<1>1. store \in [Keys -> BlobType] /\ c.seen \in [Keys -> BlobType]
  BY DEF IInv, TypeOK, CmdType
<1>2. \A k \in Keys : c.seen[k] = store[k]
  BY DEF Looked
<1>3. c.seen = store
  BY <1>1, <1>2
<1> QED
  BY <1>3 DEF Looked

(* InspectFormats returns: without legacy blobs the floor may rise. *)
LEMMA InspectDoneStep ==
  ASSUME IInv, NEW p \in Procs, InspectDone(p)
  PROVE  IInv'
<1>1. /\ cmd[p].step = "inspect" /\ cmd[p].todo = {} /\ End(p)
      /\ strict' = (strict \/ LegacySeen(p) = {})
      /\ UNCHANGED <<disk, ops, nonce, latest, original, rewrote>>
  BY DEF InspectDone
<1>2. cmd[p] \in CmdType /\ Looked(cmd[p]) /\ StoreInv /\ strict \in BOOLEAN
        /\ cmd[p].todo = {}
  BY <1>1 DEF IInv, TypeOK, ProgressInv, Progress
<1>3. ASSUME LegacySeen(p) = {}, NEW k \in List(store)
      PROVE  Opens(2, k, store[k])
  <2>1. k \in Keys /\ store[k] \in Stored(k) /\ cmd[p].floor \in 1 .. 2
    BY <1>2, <1>3 DEF List, StoreInv, CmdType
  <2>2. cmd[p].seen = store /\ Opens(cmd[p].floor, k, store[k])
    BY <1>2, AllLooked
  <2>3. store[k].fmt # "legacy"
    BY <1>3, <2>1, <2>2 DEF LegacySeen
  <2> QED
    BY <2>1, <2>2, <2>3, Blobs
<1>4. strict' \in BOOLEAN /\ StrictReady'
  BY <1>1, <1>2, <1>3 DEF StrictReady, IInv, disk, List
<1> QED
  BY <1>1, <1>4, EndStep

(* All blobs are valid, and MigrateLegacy starts to copy them. *)
LEMMA StartBackupStep ==
  ASSUME IInv, NEW p \in Procs, StartBackup(p)
  PROVE  IInv'
<1>1. /\ cmd[p].step = "validate" /\ cmd[p].todo = {}
      /\ Goto(p, "backup", List(cmd[p].seen))
      /\ UNCHANGED <<disk, lock, ops, nonce, histories>>
  BY DEF StartBackup
<1>2. TypeOK /\ Progress(cmd[p]) /\ lock = p /\ ops \in Nat /\ cmd[p] \in CmdType /\ StoreInv
  BY <1>1, Alone DEF IInv, ProgressInv, Critical, Steps, TypeOK
<1>3. List(cmd[p].seen) \in SUBSET Keys
  BY DEF List
<1>4. /\ cmd' \in [Procs -> CmdType]
      /\ \A q \in Procs \ {p} : cmd'[q] = cmd[q]
      /\ cmd'[p].step = "backup" /\ cmd'[p].todo = List(cmd[p].seen)
      /\ cmd'[p].op = cmd[p].op /\ cmd'[p].seen = cmd[p].seen
      /\ cmd'[p].dir = cmd[p].dir /\ cmd'[p].floor = cmd[p].floor
  BY <1>1, <1>2, <1>3, GotoCmd DEF Steps
<1>5. /\ cmd[p].op = "migrate" /\ cmd[p].dir \in Dirs
      /\ Looked(cmd[p]) /\ Begun(cmd[p]) /\ backup[cmd[p].dir] = Empty
  BY <1>1, <1>2 DEF Progress, Validating
<1>6. /\ cmd[p].seen = store
      /\ \A k \in List(store) : Opens(cmd[p].floor, k, store[k])
  BY <1>1, <1>2, <1>5, AllLooked
<1>7. BackingUp(cmd'[p])
  <2>1. \A k \in Keys \ List(store) : store[k] = NoBlob
    BY <1>2, Blobs DEF StoreInv, List
  <2>2. \A k \in Keys : backup[cmd[p].dir][k] = IF k \in List(store) THEN NoBlob ELSE store[k]
    BY <1>5, <2>1 DEF Empty
  <2> QED
    BY <1>4, <1>5, <1>6, <2>2 DEF BackingUp, Begun
<1>8. Progress(cmd'[p])
  BY <1>4, <1>5, <1>7 DEF Progress
<1> QED
  BY <1>1, <1>2, <1>4, <1>8, GoOn

(* The backup is complete, and MigrateLegacy starts to rewrite the legacy  *)
(* blobs.                                                                  *)
LEMMA StartRewriteStep ==
  ASSUME IInv, NEW p \in Procs, StartRewrite(p)
  PROVE  IInv'
<1>1. /\ cmd[p].step = "backup" /\ cmd[p].todo = {}
      /\ Goto(p, "rewrite", LegacySeen(p))
      /\ UNCHANGED <<disk, lock, ops, nonce, histories>>
  BY DEF StartRewrite
<1>2. TypeOK /\ Progress(cmd[p]) /\ lock = p /\ ops \in Nat
  BY <1>1, Alone DEF IInv, ProgressInv, Critical, Steps, TypeOK
<1>3. LegacySeen(p) \in SUBSET Keys
  BY DEF LegacySeen
<1>4. /\ cmd' \in [Procs -> CmdType]
      /\ \A q \in Procs \ {p} : cmd'[q] = cmd[q]
      /\ cmd'[p].step = "rewrite" /\ cmd'[p].todo = LegacySeen(p)
      /\ cmd'[p].op = cmd[p].op /\ cmd'[p].seen = cmd[p].seen
      /\ cmd'[p].dir = cmd[p].dir /\ cmd'[p].floor = cmd[p].floor
  BY <1>1, <1>2, <1>3, GotoCmd, SMTT(60) DEF Steps
<1>5. cmd[p].op = "migrate" /\ cmd[p].dir \in Dirs /\ BackingUp(cmd[p])
  BY <1>1, <1>2 DEF Progress
<1>6. backup[cmd[p].dir] = store
  <2>1. backup[cmd[p].dir] \in [Keys -> BlobType] /\ store \in [Keys -> BlobType]
    BY <1>2, <1>5 DEF TypeOK
  <2>2. \A k \in Keys : backup[cmd[p].dir][k] = store[k]
    BY <1>1, <1>5 DEF BackingUp
  <2> QED
    BY <2>1, <2>2
<1>7. Rewriting(cmd'[p])
  BY <1>4, <1>5, <1>6, SMTT(60) DEF BackingUp, Begun, Rewriting, LegacySeen, List
<1>8. Progress(cmd'[p])
  BY <1>4, <1>5, <1>7 DEF Progress
<1> QED
  BY <1>1, <1>2, <1>4, <1>8, GoOn

(* MigrateLegacy returns: no legacy blob is left. *)
LEMMA MigrateDoneStep ==
  ASSUME IInv, NEW p \in Procs, MigrateDone(p)
  PROVE  IInv'
<1>1. /\ cmd[p].step = "rewrite" /\ cmd[p].todo = {} /\ End(p)
      /\ strict' = TRUE
      /\ UNCHANGED <<disk, ops, nonce, latest, original, rewrote>>
  BY DEF MigrateDone
<1>2. cmd[p] \in CmdType /\ Rewriting(cmd[p]) /\ StoreInv
  BY <1>1 DEF IInv, TypeOK, ProgressInv, Progress
<1>3. ASSUME NEW k \in List(store)
      PROVE  Opens(2, k, store[k])
  <2>1. k \in Keys /\ store[k] \in Stored(k) /\ cmd[p].floor \in 1 .. 2
    BY <1>2, <1>3 DEF List, StoreInv, CmdType
  <2>2. CASE cmd[p].seen[k].fmt = "legacy"
    BY <1>1, <1>2, <2>1, <2>2, Blobs DEF Rewriting
  <2>3. CASE cmd[p].seen[k].fmt # "legacy"
    <3>1. store[k] = cmd[p].seen[k] /\ k \in List(cmd[p].seen)
      BY <1>2, <1>3, <2>1, <2>3 DEF Rewriting, List
    <3>2. Opens(cmd[p].floor, k, store[k])
      BY <1>2, <3>1 DEF Rewriting
    <3> QED
      BY <2>1, <2>3, <3>1, <3>2, Blobs
  <2> QED
    BY <2>2, <2>3
<1>4. strict' \in BOOLEAN /\ StrictReady'
  BY <1>1, <1>3 DEF StrictReady, disk, List
<1> QED
  BY <1>1, <1>4, EndStep
----------------------------------------------------------------------------

(* What Put leaves: a blob that opens to the value under both floors. *)
LEMMA PutStore ==
  ASSUME TypeOK, StoreInv, NEW k \in Keys, NEW v \in Values, Put(k, v)
  PROVE  /\ store' \in [Keys -> BlobType] /\ StoreInv' /\ nonce' \in Nat
         /\ store'[k].fmt = "v2" /\ store'[k].val = v
         /\ openBlob(1, k, store'[k]) = v
         /\ openBlob(2, k, store'[k]) = v /\ Opens(2, k, store'[k])
         /\ \A j \in Keys \ {k} : store'[j] = store[j]
         /\ StrictReady /\ strict' = strict => StrictReady'
<1>1. /\ nonce + 1 \in Nat /\ nonce' = nonce + 1 /\ store \in [Keys -> BlobType]
      /\ store' = [store EXCEPT ![k] = sealV2Blob(k, v, nonce + 1)]
  BY DEF Put, TypeOK
<1>2. store'[k] = sealV2Blob(k, v, nonce + 1) /\ \A j \in Keys \ {k} : store'[j] = store[j]
  BY <1>1
<1>3. store'[k] \in Stored(k) /\ store'[k].fmt = "v2" /\ store'[k].val = v
  BY <1>1, <1>2, Sealed
<1>4. store'[k] \in BlobType
  BY <1>3, Blobs
<1>5. openBlob(1, k, store'[k]) = v /\ openBlob(2, k, store'[k]) = v /\ Opens(2, k, store'[k])
  BY <1>3, Blobs
<1>6. store' \in [Keys -> BlobType]
  BY <1>1, <1>2, <1>4
<1>7. StoreInv'
  BY <1>2, <1>3 DEF StoreInv, Stored
<1>8. StrictReady /\ strict' = strict => StrictReady'
  BY <1>2, <1>5 DEF StrictReady, List, Opens, openBlob
<1> QED
  BY <1>1, <1>2, <1>3, <1>5, <1>6, <1>7, <1>8

(* An import stores its key. *)
LEMMA ImportStoreStep ==
  ASSUME IInv, NEW p \in Procs, ImportStore(p)
  PROVE  IInv'
<1> DEFINE k == cmd[p].key
           v == cmd[p].val
<1>1. /\ cmd[p].op = "import" /\ cmd[p].step = "put" /\ Put(k, v)
      /\ latest' = [latest EXCEPT ![k] = v] /\ End(p)
      /\ UNCHANGED <<backup, made, ops, original, rewrote, strict>>
  BY SMTT(60) DEF ImportStore
<1>2. TypeOK /\ StoreInv /\ k \in Keys /\ v \in Values /\ StrictReady /\ ValuesKept
  BY <1>1 DEF IInv, ProgressInv, Progress
<1> HIDE DEF k, v
<1>3. /\ store' \in [Keys -> BlobType] /\ StoreInv' /\ nonce' \in Nat
      /\ openBlob(1, k, store'[k]) = v
      /\ \A j \in Keys \ {k} : store'[j] = store[j]
      /\ StrictReady'
  BY <1>1, <1>2, PutStore, SMTT(60)
<1>4. /\ cmd' \in [Procs -> CmdType]
      /\ \A q \in Procs \ {p} : cmd'[q] = cmd[q] /\ (lock = q => lock' = q)
      /\ cmd'[p].step = "idle" /\ cmd'[p].op = "none"
      /\ lock' \in Procs \cup {NoProc}
  BY <1>1, <1>2, EndCmd
<1>5. latest' \in [Keys -> Values \cup {NoValue}] /\ latest'[k] = v
        /\ \A j \in Keys \ {k} : latest'[j] = latest[j]
  BY <1>1, <1>2 DEF TypeOK
<1>6. TypeOK'
  BY <1>1, <1>2, <1>3, <1>4, <1>5 DEF TypeOK
<1>7. LockInv'
  BY <1>4 DEF LockInv, IInv, Critical
<1>8. ProgressInv'
  <2>1. Progress(cmd[p])'
    BY <1>4 DEF Progress
  <2>2. cmd[p].step \in Critical
    BY <1>1 DEF Critical, Steps
  <2> QED
    BY <1>4, <2>1, <2>2, OthersWait
<1>9. BackupInv'
  BY <1>1 DEF IInv, BackupInv, BackupComplete
<1>10. ValuesKept'
  <2> SUFFICES ASSUME NEW j \in Keys, latest'[j] # NoValue
               PROVE  openBlob(1, j, store'[j]) = latest'[j]
    BY DEF ValuesKept, openBlob
  <2>1. CASE j = k
    BY <1>3, <1>5, <2>1
  <2>2. CASE j # k
    BY <1>2, <1>3, <1>5, <2>2 DEF ValuesKept
  <2> QED
    BY <2>1, <2>2
<1> QED
  BY <1>3, <1>6, <1>7, <1>8, <1>9, <1>10 DEF IInv

(* MigrateLegacy makes its backup directory, or finds it and fails. *)
LEMMA MigrateBeginStep ==
  ASSUME IInv, NEW p \in Procs, MigrateBegin(p)
  PROVE  IInv'
<1>1. /\ cmd[p].op = "migrate" /\ cmd[p].step = "locked"
      /\ UNCHANGED <<store, backup, ops, nonce, latest, rewrote, strict>>
  BY DEF MigrateBegin
<1>2. CASE cmd[p].dir \in made
  <2>1. End(p) /\ UNCHANGED <<made, original>>
    BY <1>2 DEF MigrateBegin
  <2> QED
    BY <1>1, <2>1, PlainEnd DEF disk, histories
<1>3. CASE cmd[p].dir \notin made
  <2> DEFINE d == cmd[p].dir
  <2>1. /\ made' = made \cup {d} /\ original' = [original EXCEPT ![d] = store]
        /\ Goto(p, "validate", List(store)) /\ UNCHANGED lock
    BY <1>3 DEF MigrateBegin
  <2>2. TypeOK /\ StoreInv /\ Progress(cmd[p]) /\ lock = p /\ cmd[p].step \in Critical /\ BackupInv
    BY <1>1, Alone DEF IInv, ProgressInv, Critical, Steps
  <2>3. d \in Dirs /\ cmd[p].seen = Empty
    BY <1>1, <2>2, ZenonT(60) DEF Progress
  <2>4. List(store) \in SUBSET Keys
    BY DEF List
  <2>5. /\ cmd' \in [Procs -> CmdType]
        /\ \A q \in Procs \ {p} : cmd'[q] = cmd[q]
        /\ cmd'[p].step = "validate" /\ cmd'[p].todo = List(store)
        /\ cmd'[p].op = cmd[p].op /\ cmd'[p].seen = cmd[p].seen
        /\ cmd'[p].dir = d
    BY <2>1, <2>2, <2>4, GotoCmd DEF Steps
  <2> HIDE DEF d
  <2>6. original' \in [Dirs -> [Keys -> BlobType]] /\ original'[d] = store
          /\ \A e \in Dirs \ {d} : original'[e] = original[e]
    BY <2>1, <2>2, <2>3 DEF TypeOK
  <2>7. TypeOK'
    BY <1>1, <2>1, <2>2, <2>3, <2>5, <2>6, SMTT(60) DEF TypeOK
  <2>8. LockInv'
    BY <2>1, <2>2, <2>5 DEF LockInv, IInv
  <2>9. d \notin rewrote /\ backup[d] = Empty
    BY <1>3, <2>2, <2>3 DEF BackupInv, d
  <2>10. BackupInv'
    BY <1>1, <2>1, <2>2, <2>3, <2>6, <2>9, SMTT(60) DEF BackupInv, BackupComplete, TypeOK
  <2>11. Validating(cmd[p])'
    <3>1. \A k \in Keys \ List(store) : store[k] = NoBlob
      BY <2>2, Blobs DEF StoreInv, List
    <3>2. Looked(cmd[p])'
      BY <1>1, <2>3, <2>5, <3>1 DEF Looked, Empty, List
    <3>3. Begun(cmd[p])'
      BY <1>1, <2>1, <2>5, <2>6, <2>9, ZenonT(60) DEF Begun
    <3> QED
      BY <1>1, <2>5, <2>9, <3>2, <3>3, ZenonT(60) DEF Validating, Empty
  <2>12. Progress(cmd[p])'
    BY <1>1, <2>3, <2>5, <2>11, SMTT(60) DEF Progress
  <2>13. ProgressInv'
    BY <2>2, <2>5, <2>12, OthersWait
  <2>14. StoreInv' /\ ValuesKept' /\ StrictReady'
    BY <1>1 DEF IInv, StoreInv, ValuesKept, StrictReady, List
  <2> QED
    BY <2>7, <2>8, <2>10, <2>13, <2>14 DEF IInv
<1> QED
  BY <1>2, <1>3

(* MigrateLegacy copies one blob to the backup. *)
LEMMA BackUpStep ==
  ASSUME NextLeft, IInv, NEW p \in Procs, BackUp(p)
  PROVE  IInv'
<1> DEFINE k == Min(cmd[p].todo)
           d == cmd[p].dir
<1>1. /\ cmd[p].step = "backup" /\ cmd[p].todo # {}
      /\ UNCHANGED <<store, made, ops, nonce, histories>>
  BY SMTT(60) DEF BackUp
<1>2. TypeOK /\ Progress(cmd[p]) /\ lock = p /\ cmd[p].step \in Critical /\ BackupInv
        /\ cmd[p] \in CmdType
  BY <1>1, Alone, SMTT(60) DEF IInv, ProgressInv, Critical, Steps, TypeOK
<1>3. BackingUp(cmd[p]) /\ d \in Dirs /\ cmd[p].op = "migrate" /\ cmd[p].todo \in SUBSET Keys
  BY <1>1, <1>2, ZenonT(60) DEF Progress, CmdType
<1>4. k \in cmd[p].todo /\ k \in Keys
  BY <1>1, <1>3, ZenonT(60) DEF NextLeft
<1>5. CASE ~(store[k] = cmd[p].seen[k])
  <2>1. End(p) /\ UNCHANGED backup
    BY <1>5 DEF BackUp
  <2> QED
    BY <1>1, <2>1, PlainEnd DEF disk
<1>6. CASE store[k] = cmd[p].seen[k]
  <2>1. /\ backup' = [backup EXCEPT ![d][k] = store[k]]
        /\ Goto(p, "backup", cmd[p].todo \ {k})
        /\ UNCHANGED lock
    BY <1>6 DEF BackUp
  <2>2. cmd[p].todo \ {k} \in SUBSET Keys
    BY <1>3, SMTT(60)
  <2>3. /\ cmd' \in [Procs -> CmdType]
        /\ \A q \in Procs \ {p} : cmd'[q] = cmd[q]
        /\ cmd'[p].step = "backup" /\ cmd'[p].todo = cmd[p].todo \ {k}
        /\ cmd'[p].op = cmd[p].op /\ cmd'[p].seen = cmd[p].seen
        /\ cmd'[p].dir = d /\ cmd'[p].floor = cmd[p].floor
    BY <1>2, <2>1, <2>2, GotoCmd, SMTT(60) DEF Steps
  <2> HIDE DEF k, d
  <2>4. /\ backup' \in [Dirs -> [Keys -> BlobType]]
        /\ \A e \in Dirs \ {d} : backup'[e] = backup[e]
        /\ backup'[d][k] = store[k]
        /\ \A j \in Keys \ {k} : backup'[d][j] = backup[d][j]
    <3>1. backup \in [Dirs -> [Keys -> BlobType]] /\ store[k] \in BlobType
      BY <1>2, <1>4 DEF TypeOK
    <3>2. backup[d] \in [Keys -> BlobType]
      BY <1>3, <3>1
    <3> DEFINE b == [backup[d] EXCEPT ![k] = store[k]]
    <3>3. backup' = [backup EXCEPT ![d] = b]
      BY <2>1
    <3>4. b \in [Keys -> BlobType] /\ b[k] = store[k] /\ \A j \in Keys \ {k} : b[j] = backup[d][j]
      BY <1>4, <3>1, <3>2, SMTT(60)
    <3> HIDE DEF b
    <3> QED
      BY <1>3, <3>1, <3>3, <3>4
  <2>5. TypeOK'
    BY <1>1, <1>2, <2>1, <2>3, <2>4 DEF TypeOK, histories
  <2>6. LockInv'
    BY <1>2, <2>1, <2>3, SMTT(60) DEF LockInv, IInv
  <2>7. d \in made \ rewrote /\ original[d] = store
    BY <1>3 DEF BackingUp, Begun, d
  <2>8. BackupInv'
    BY <1>1, <1>2, <2>4, <2>7, SMTT(60) DEF BackupInv, BackupComplete, TypeOK, histories
  <2>9. BackingUp(cmd[p])'
    <3>1. Begun(cmd[p])'
      BY <1>1, <2>3, <2>7 DEF Begun, histories
    <3>2. /\ cmd[p].todo \subseteq List(store) /\ cmd[p].seen = store
          /\ \A j \in List(store) : Opens(cmd[p].floor, j, store[j])
          /\ \A j \in Keys : backup[d][j] = IF j \in cmd[p].todo THEN NoBlob ELSE store[j]
      BY <1>3 DEF BackingUp, d
    <3>3. \A j \in Keys : backup'[d][j] = IF j \in cmd'[p].todo THEN NoBlob ELSE store[j]
      BY <1>4, <2>3, <2>4, <3>2, SMTT(60)
    <3>4. cmd'[p].todo \subseteq List(store') /\ cmd'[p].seen = store'
            /\ \A j \in List(store') : Opens(cmd'[p].floor, j, store'[j])
      BY <1>1, <2>3, <3>2, SMTT(60)
    <3> QED
      BY <1>1, <2>3, <3>1, <3>3, <3>4, SMTT(60) DEF BackingUp, NoBlob, List, Opens, openBlob
  <2>10. Progress(cmd[p])'
    BY <1>3, <2>3, <2>9, ZenonT(60) DEF Progress
  <2>11. ProgressInv'
    BY <1>2, <2>3, <2>10, OthersWait
  <2>12. StoreInv' /\ ValuesKept' /\ StrictReady'
    BY <1>1, SMTT(60) DEF IInv, StoreInv, ValuesKept, StrictReady, List, histories
  <2> QED
    BY <2>5, <2>6, <2>8, <2>11, <2>12 DEF IInv
<1> QED
  BY <1>5, <1>6

(* The blob that a rewriting migration takes next is legacy, and is in its *)
(* backup with the value that the store gives it.                          *)
LEMMA RewriteNext ==
  ASSUME NextLeft, IInv, NEW p \in Procs, cmd[p].step = "rewrite", cmd[p].todo # {}
  PROVE  LET k == Min(cmd[p].todo)
             d == cmd[p].dir
         IN /\ k \in Keys /\ k \in cmd[p].todo /\ d \in Dirs
            /\ Rewriting(cmd[p])
            /\ store[k] = cmd[p].seen[k] /\ store[k].fmt = "legacy"
            /\ store[k].val \in Values /\ openBlob(1, k, store[k]) = store[k].val
            /\ backup[d][k] = store[k]
<1> DEFINE k == Min(cmd[p].todo)
<1>1. Progress(cmd[p]) /\ StoreInv /\ cmd[p] \in CmdType
  BY ZenonT(60) DEF IInv, ProgressInv, TypeOK
<1>2. Rewriting(cmd[p]) /\ cmd[p].dir \in Dirs /\ cmd[p].todo \in SUBSET Keys
  BY <1>1 DEF Progress, CmdType
<1>3. k \in cmd[p].todo /\ k \in Keys
  BY <1>2 DEF NextLeft
<1> HIDE DEF k
<1>4. store[k] = cmd[p].seen[k] /\ store[k].fmt = "legacy" /\ backup[cmd[p].dir][k] = store[k]
  BY <1>2, <1>3 DEF Rewriting
<1>5. store[k].val \in Values /\ openBlob(1, k, store[k]) = store[k].val
  BY <1>1, <1>3, <1>4, Blobs, SMTT(60) DEF StoreInv
<1> QED
  BY <1>2, <1>3, <1>4, <1>5, ZenonT(60) DEF k

(* MigrateLegacy replaces one legacy blob by a v2 blob with the value of   *)
(* its backup.                                                             *)
LEMMA RewriteStep ==
  ASSUME NextLeft, IInv, NEW p \in Procs, Rewrite(p)
  PROVE  IInv'
<1> DEFINE k == Min(cmd[p].todo)
           d == cmd[p].dir
           v == backup[d][k].val
<1>1. /\ cmd[p].step = "rewrite" /\ cmd[p].todo # {} /\ Put(k, v)
      /\ Goto(p, "rewrite", cmd[p].todo \ {k})
      /\ rewrote' = rewrote \cup {d}
      /\ UNCHANGED <<backup, made, lock, ops, latest, original, strict>>
  BY DEF Rewrite
<1>2. /\ TypeOK /\ StoreInv /\ StrictReady /\ ValuesKept /\ BackupInv /\ Progress(cmd[p])
      /\ cmd[p] \in CmdType
  BY SMTT(60) DEF IInv, ProgressInv, TypeOK
<1>3. /\ k \in Keys /\ k \in cmd[p].todo /\ d \in Dirs /\ Rewriting(cmd[p])
      /\ store[k] = cmd[p].seen[k] /\ store[k].fmt = "legacy"
      /\ v \in Values /\ openBlob(1, k, store[k]) = v /\ v = store[k].val
  BY <1>1, RewriteNext, ZenonT(60)
<1>4. lock = p /\ cmd[p].step \in Critical /\ cmd[p].op = "migrate"
  BY <1>1, <1>2, Alone, ZenonT(60) DEF Critical, Steps, Progress
<1>5. cmd[p].todo \ {k} \in SUBSET Keys
  BY <1>2, SMTT(60) DEF CmdType
<1>6. /\ cmd' \in [Procs -> CmdType]
      /\ \A q \in Procs \ {p} : cmd'[q] = cmd[q]
      /\ cmd'[p].step = "rewrite" /\ cmd'[p].todo = cmd[p].todo \ {k}
      /\ cmd'[p].op = cmd[p].op /\ cmd'[p].seen = cmd[p].seen
      /\ cmd'[p].dir = d /\ cmd'[p].floor = cmd[p].floor
  BY <1>1, <1>2, <1>5, GotoCmd, ZenonT(60) DEF Steps
<1>7. /\ d \in made /\ original[d] = backup[d]
      /\ cmd[p].todo \subseteq List(cmd[p].seen)
  BY <1>3, ZenonT(60) DEF Rewriting
<1> HIDE DEF k, d, v
<1>8. /\ store' \in [Keys -> BlobType] /\ StoreInv' /\ nonce' \in Nat
      /\ store'[k].fmt = "v2" /\ store'[k].val = v
      /\ openBlob(1, k, store'[k]) = v
      /\ \A j \in Keys \ {k} : store'[j] = store[j]
      /\ StrictReady'
  BY <1>1, <1>2, <1>3, PutStore, ZenonT(60)
<1>9. TypeOK'
  BY <1>1, <1>2, <1>3, <1>6, <1>8, ZenonT(60) DEF TypeOK
<1>10. LockInv'
  BY <1>1, <1>4, <1>6, SMTT(60) DEF LockInv, IInv
<1>11. BackupInv'
  BY <1>1, <1>2, <1>7 DEF BackupInv, BackupComplete
<1>12. Rewriting(cmd[p])'
  <2>1. /\ original[d] = cmd[p].seen /\ backup[d] = cmd[p].seen
        /\ \A j \in List(cmd[p].seen) : Opens(cmd[p].floor, j, cmd[p].seen[j])
        /\ \A j \in cmd[p].todo : cmd[p].seen[j].fmt = "legacy"
        /\ \A j \in Keys :
             IF cmd[p].seen[j].fmt = "legacy" /\ j \notin cmd[p].todo
             THEN store[j].fmt = "v2" /\ store[j].val = cmd[p].seen[j].val
             ELSE store[j] = cmd[p].seen[j]
    BY <1>3, SMTT(60) DEF Rewriting, d
  <2>2. \A j \in Keys :
             IF cmd'[p].seen[j].fmt = "legacy" /\ j \notin cmd'[p].todo
             THEN store'[j].fmt = "v2" /\ store'[j].val = cmd'[p].seen[j].val
             ELSE store'[j] = cmd'[p].seen[j]
    <3> SUFFICES ASSUME NEW j \in Keys
                 PROVE  IF cmd[p].seen[j].fmt = "legacy" /\ j \notin cmd[p].todo \ {k}
                        THEN store'[j].fmt = "v2" /\ store'[j].val = cmd[p].seen[j].val
                        ELSE store'[j] = cmd[p].seen[j]
      BY <1>6, ZenonT(60)
    <3>1. CASE j = k
      BY <1>3, <1>8, <3>1, ZenonT(60)
    <3>2. CASE j # k
      BY <1>8, <2>1, <3>2, ZenonT(60)
    <3> QED
      BY <3>1, <3>2
  <2>3. /\ cmd'[p].dir \in made'
        /\ original'[cmd'[p].dir] = cmd'[p].seen
        /\ backup'[cmd'[p].dir] = cmd'[p].seen
        /\ cmd'[p].todo \subseteq List(cmd'[p].seen)
        /\ \A j \in cmd'[p].todo : cmd'[p].seen[j].fmt = "legacy"
        /\ \A j \in List(cmd'[p].seen) : Opens(cmd'[p].floor, j, cmd'[p].seen[j])
    BY <1>1, <1>6, <1>7, <2>1, ZenonT(60)
  <2> QED
    BY <2>2, <2>3, ZenonT(60) DEF Rewriting, List, Opens, openBlob
<1>13. Progress(cmd[p])'
  BY <1>3, <1>4, <1>6, <1>12, ZenonT(60) DEF Progress
<1>14. ProgressInv'
  BY <1>4, <1>6, <1>13, OthersWait
<1>15. ValuesKept'
  <2> SUFFICES ASSUME NEW j \in Keys, latest'[j] # NoValue
               PROVE  openBlob(1, j, store'[j]) = latest'[j]
    BY DEF ValuesKept, openBlob
  <2>1. openBlob(1, j, store[j]) = latest[j] /\ latest'[j] = latest[j]
    BY <1>1, <1>2 DEF ValuesKept
  <2>2. CASE j = k
    BY <1>3, <1>8, <2>1, <2>2
  <2>3. CASE j # k
    BY <1>8, <2>1, <2>3
  <2> QED
    BY <2>2, <2>3
<1> QED
  BY <1>8, <1>9, <1>10, <1>11, <1>14, <1>15, SMTT(60) DEF IInv
----------------------------------------------------------------------------

(* Every step of every command keeps the invariant. *)
LEMMA Inductive == NextLeft /\ IInv /\ [Next]_vars => IInv'
<1> SUFFICES ASSUME NextLeft, IInv, [Next]_vars PROVE IInv'
  OBVIOUS
<1>1. ASSUME NEW p \in Procs, Import(p) PROVE IInv'
  BY <1>1, BeginStep, ImportCheckStep, ImportStoreStep DEF Import
<1>2. ASSUME NEW p \in Procs, Inspect(p) PROVE IInv'
  <2>1. ASSUME InspectOne(p) PROVE IInv'
    BY <2>1, LookStep DEF InspectOne
  <2> QED
    BY <1>2, <2>1, BeginStep, InspectBeginStep, InspectDoneStep DEF Inspect
<1>3. ASSUME NEW p \in Procs, Migrate(p) PROVE IInv'
  <2>1. ASSUME Validate(p) PROVE IInv'
    <3>1. cmd[p].todo \in SUBSET Keys /\ cmd[p].todo # {}
      BY <2>1 DEF Validate, IInv, TypeOK, CmdType
    <3>2. Min(cmd[p].todo) \in cmd[p].todo
      BY <3>1 DEF NextLeft
    <3> QED
      BY <2>1, <3>2, LookStep DEF Validate
  <2> QED
    BY <1>3, <2>1, BeginStep, MigrateBeginStep, StartBackupStep, BackUpStep,
       StartRewriteStep, RewriteStep, MigrateDoneStep DEF Migrate
<1>4. ASSUME NEW p \in Procs, LockTimeout(p) \/ Stop(p) PROVE IInv'
  BY <1>4, PlainEnd DEF LockTimeout, Stop
<1>5. ASSUME Quiet \/ UNCHANGED vars PROVE IInv'
  <2>1. UNCHANGED vars
    BY <1>5, SMTT(60) DEF Quiet
  <2>2. TypeOK' /\ LockInv' /\ StoreInv' /\ BackupInv' /\ ValuesKept' /\ StrictReady'
    BY <2>1, SMTT(60) DEF vars, IInv, TypeOK, LockInv, StoreInv, BackupInv, BackupComplete, ValuesKept,
       StrictReady, List
  <2>3. ASSUME NEW p \in Procs PROVE Progress(cmd[p])'
    <3>1. Progress(cmd[p])
      BY DEF IInv, ProgressInv
    <3> QED
      BY <2>1, <3>1, ZenonT(60) DEF vars, Progress, Looked, Begun, Validating, BackingUp, Rewriting,
         MayStore, List
  <2> QED
    BY <2>2, <2>3 DEF IInv, ProgressInv
<1> QED
  BY <1>1, <1>2, <1>3, <1>4, <1>5, LockStep DEF Next

INSTANCE WellFoundedInduction

(* A nonempty set of numbers has a least one. *)
LEMMA Least ==
  ASSUME NEW T \in SUBSET Nat, T # {}
  PROVE  \E n \in T : \A m \in T : n <= m
<1> DEFINE R == OpToRel(<, Nat)
<1>1. IsWellFoundedOn(R, Nat)
  BY NatLessThanWellFounded, ZenonT(60)
<1>2. \A m, n \in Nat : <<m, n>> \in R <=> m < n
  BY DEF OpToRel
<1> HIDE DEF R
<1>3. PICK n \in T : \A m \in T : ~(<<m, n>> \in R)
  BY <1>1, WFMin, ZenonT(60)
<1>4. \A m \in T : ~(m < n)
  BY <1>2, <1>3, Zenon
<1> QED
  BY <1>4

(* The next id of a pass is one of those left to do. *)
LEMMA NextOf == NextLeft
<1> SUFFICES ASSUME NEW T \in SUBSET Keys, T # {} PROVE Min(T) \in T
  BY DEF NextLeft
<1>1. T \in SUBSET Nat
  BY KeyStoreAssumption
<1> QED
  BY <1>1, Least, ZenonT(60) DEF Min

(* The invariant holds of the store and of every command on it             *)
(* (operator/kms.go, local.go), whatever stops them.                       *)
THEOREM Invariant == Spec => []IInv
BY Initially, Inductive, NextOf, PTL DEF Spec

(* TypeOK, for any processes, keys, values and directories. *)
THEOREM TypeCorrect == Spec => []TypeOK
BY Invariant, PTL DEF IInv

(* Import, inspection and migration (operator/kms.go, local.go) never lose *)
(* a key, wherever an error or a crash stops them: every key opens in the  *)
(* migration window to the value it was last given.                        *)
THEOREM KeepsValues == Spec => []ValuesKept
BY Invariant, PTL DEF IInv

(* A migration that has rewritten a blob has the whole store, as it was    *)
(* when it began, in its backup directory, for ever.                       *)
THEOREM BackupsComplete == Spec => []BackupComplete
<1>1. IInv => BackupComplete
  BY DEF IInv, BackupInv
<1> QED
  BY <1>1, Invariant, PTL

(* After InspectFormats without legacy, or MigrateLegacy, has returned     *)
(* without error, every blob opens under the raised format floor.          *)
THEOREM FloorMayRise == Spec => []StrictReady
BY Invariant, PTL DEF IInv

(* A step replaces a stored blob only as the operator asked for it: the    *)
(* value read in one step of an import still stands in the next, because   *)
(* both are under withKMSFileLock.                                         *)
THEOREM ReplacesOnlyAsAsked == Spec => NoSilentReplace
<1> DEFINE Asked ==
      \A k \in List(store) :
        store'[k] # store[k] =>
          /\ Opens(1, k, store[k])
          /\ \/ \E p \in Procs : /\ cmd[p].op = "import" /\ cmd[p].key = k
                                  /\ cmd[p].replace /\ cmd[p].step = "put"
             \/ /\ store[k].fmt = "legacy"
                /\ openBlob(2, k, store'[k]) = store[k].val
<1>1. ASSUME IInv, NEW p \in Procs, ImportStore(p) PROVE Asked
  <2> DEFINE k == cmd[p].key
  <2>1. Put(k, cmd[p].val) /\ cmd[p].op = "import" /\ cmd[p].step = "put"
    BY <1>1, ZenonT(60) DEF ImportStore
  <2>2. k \in Keys /\ cmd[p].val \in Values /\ MayStore(cmd[p]) /\ TypeOK /\ StoreInv
          /\ cmd[p].floor \in 1 .. 2
    BY <1>1, <2>1, ZenonT(60) DEF IInv, ProgressInv, Progress, TypeOK, CmdType
  <2>3. \A j \in Keys \ {k} : store'[j] = store[j]
    BY <2>1, <2>2, PutStore, ZenonT(60)
  <2>4. ASSUME store[k].fmt # "none"
        PROVE  cmd[p].replace /\ Opens(1, k, store[k])
    <3>1. cmd[p].replace /\ Opens(cmd[p].floor, k, store[k])
      BY <2>2, <2>4, ZenonT(60) DEF MayStore
    <3> QED
      BY <2>2, <3>1, KeyStoreAssumption DEF Opens, openBlob
  <2> QED
    BY <2>1, <2>3, <2>4, SMTT(60) DEF List
<1>2. ASSUME IInv, NEW p \in Procs, Rewrite(p) PROVE Asked
  <2> DEFINE k == Min(cmd[p].todo)
             v == backup[cmd[p].dir][k].val
  <2>1. Put(k, v) /\ cmd[p].step = "rewrite" /\ cmd[p].todo # {}
    BY <1>2, ZenonT(60) DEF Rewrite
  <2>2. /\ k \in Keys /\ store[k].fmt = "legacy" /\ v \in Values /\ v = store[k].val
        /\ openBlob(1, k, store[k]) = v
    BY <1>2, <2>1, NextOf, RewriteNext, ZenonT(60)
  <2> HIDE DEF k, v
  <2>3. openBlob(2, k, store'[k]) = v /\ \A j \in Keys \ {k} : store'[j] = store[j]
    BY <1>2, <2>1, <2>2, PutStore, ZenonT(60) DEF IInv
  <2>4. Opens(1, k, store[k])
    BY <2>2, KeyStoreAssumption, SMTT(60) DEF Opens
  <2> QED
    BY <2>2, <2>3, <2>4, SMTT(60) DEF List
<1>3. ASSUME IInv, [Next]_vars PROVE [Asked]_vars
  <2>1. CASE UNCHANGED store
    BY <2>1, ZenonT(60) DEF List
  <2>2. CASE \E p \in Procs : ImportStore(p) \/ Rewrite(p)
    BY <1>1, <1>2, <1>3, <2>2, SMTT(60)
  <2>3. UNCHANGED store \/ \E p \in Procs : ImportStore(p) \/ Rewrite(p)
    BY <1>3, ZenonT(60) DEF Next, vars, disk, Import, Inspect, Migrate, Lock, LockTimeout, Stop, Quiet,
       ImportProviderKey, InspectKMS, MigrateKMS, Begin, ImportCheck, InspectBegin,
       InspectOne, Look, InspectDone, MigrateBegin, Validate, StartBackup, BackUp,
       StartRewrite, MigrateDone
  <2> QED
    BY <2>1, <2>2, <2>3
<1> QED
  BY <1>3, Invariant, PTL DEF Spec, NoSilentReplace
=============================================================================
