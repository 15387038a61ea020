-------------------------- MODULE RevocationProofs --------------------------
(***************************************************************************)
(* The revocation store's safety for any number of writers and keys, any   *)
(* token lifetime and clock skew.                                          *)
(*                                                                         *)
(* The argument: snapshots only move forward (Behind), whatever a writer   *)
(* has staged, a reader has read or a view was made from; and every        *)
(* snapshot from the generation of a successful Revoke on holds its        *)
(* tombstone until the last token it must outlive has expired (Holds).     *)
(* Behind turns on the lock: while a writer is between its read and its    *)
(* rename nobody else renames.                                             *)
(***************************************************************************)
EXTENDS Revocation, TLAPS

(* Snapshot b is a or a later one: no tombstone of a that is live at time  *)
(* t is missing or shorter in b.                                           *)
Behind(a, b, t) ==
  /\ a.generation <= b.generation
  /\ a.generation = b.generation => a = b
  /\ \A k \in Keys : a.retain[k] > t => b.retain[k] >= a.retain[k]

(* Snapshot s, if it is of a generation from a commit c[k] on, holds the   *)
(* tombstone of k for as long as some token of k may be valid after t.     *)
Holds(s, c, t) ==
  \A k \in Keys :
    /\ c[k].at # 0
    /\ s.generation >= c[k].generation
    /\ t < Horizon(c[k].at)
    => s.retain[k] >= Horizon(c[k].at)

InCritical(w) == writer[w].step \in {"locked", "staged", "renamed"}

(* The advisory lock is held by whoever is under it. *)
LockInv == \A w \in Writers : InCritical(w) => lock = w

(* What a writer has staged follows the file and holds its own key; what   *)
(* it has renamed is the file.                                             *)
WriterInv ==
  \A w \in Writers :
    LET wr == writer[w]
    IN  /\ wr.now <= clock
        /\ wr.step \in {"staged", "renamed"} =>
             /\ wr.next.generation # 0
             /\ wr.key # NoKey => wr.next.retain[wr.key] >= Horizon(wr.now)
        /\ wr.step = "staged" =>
             /\ Behind(file, wr.next, clock)
             /\ wr.next.generation > file.generation
        /\ wr.step = "renamed" => file = wr.next

(* Every snapshot a power loss may leave holds what was committed. *)
ImagesInv ==
  /\ file \in images
  /\ \A s \in images :
       /\ s.generation = 0 => s = NoSnapshot
       /\ \A k \in Keys : s.generation >= committed[k].generation
       /\ Holds(s, committed, clock)

CommittedInv ==
  \A k \in Keys : committed[k].generation # 0 <=> committed[k].at # 0

BufInv ==
  /\ Behind(buf, file, clock)
  /\ Holds(buf, committed, clock)
  /\ reader = "reading" /\ buf.generation # 0 => Behind(view.digest, buf, clock)

(* The view is made from its digest, less what has expired. *)
ViewInv ==
  /\ Behind(view.digest, file, clock)
  /\ Holds(view.digest, committed, clock)
  /\ view.generation = view.digest.generation
  /\ \A k \in Keys :
       view.revoked[k] > clock \/ view.digest.retain[k] > clock
         => view.revoked[k] = view.digest.retain[k]

IInv ==
  /\ TypeOK
  /\ LockInv
  /\ WriterInv
  /\ ImagesInv
  /\ CommittedInv
  /\ BufInv
  /\ ViewInv
----------------------------------------------------------------------------

(* A snapshot is behind itself, and one behind another that is behind a    *)
(* third is behind the third.                                              *)
LEMMA BehindRefl ==
  ASSUME NEW a \in SnapshotType, NEW t \in Nat
  PROVE  Behind(a, a, t)
  BY DEF Behind, SnapshotType

(* Being behind is transitive. *)
LEMMA BehindTrans ==
  ASSUME NEW a \in SnapshotType, NEW b \in SnapshotType,
         NEW c \in SnapshotType, NEW t \in Nat,
         Behind(a, b, t), Behind(b, c, t)
  PROVE  Behind(a, c, t)
<1>1. a.generation <= c.generation /\ (a.generation = c.generation => a = c)
  BY DEF Behind, SnapshotType
<1>2. ASSUME NEW k \in Keys, a.retain[k] > t
      PROVE  c.retain[k] >= a.retain[k]
  <2>1. /\ a.retain[k] \in Nat
        /\ b.retain[k] \in Nat
        /\ c.retain[k] \in Nat
    BY DEF SnapshotType
  <2>2. b.retain[k] >= a.retain[k]
    BY <1>2 DEF Behind
  <2>3. b.retain[k] > t
    BY <1>2, <2>1, <2>2
  <2>4. c.retain[k] >= b.retain[k]
    BY <2>3 DEF Behind
  <2> QED
    BY <2>1, <2>2, <2>4
<1> QED
  BY <1>1, <1>2 DEF Behind

(* Time only takes obligations away. *)
LEMMA BehindLater ==
  ASSUME NEW a \in SnapshotType, NEW b \in SnapshotType,
         NEW t \in Nat, NEW u \in Nat, t <= u, Behind(a, b, t)
  PROVE  Behind(a, b, u)
<1>1. \A k \in Keys : a.retain[k] \in Nat
  BY DEF SnapshotType
<1> QED
  BY <1>1 DEF Behind

(* No file at all is behind every snapshot that is one. *)
LEMMA NoSnapshotType == NoSnapshot \in SnapshotType
  BY DEF NoSnapshot, None, SnapshotType

(* The empty snapshot is behind every other. *)
LEMMA NoSnapshotBehind ==
  ASSUME NEW s \in SnapshotType, s.generation = 0 => s = NoSnapshot,
         NEW t \in Nat
  PROVE  Behind(NoSnapshot, s, t)
  BY DEF Behind, NoSnapshot, None, SnapshotType

(* Revoking yields a snapshot of the next generation; it keeps what is     *)
(* live, also when the revoker's time is an old one; and it holds the key. *)
LEMMA AfterRevokeType ==
  ASSUME NEW s \in SnapshotType, NEW key \in Keys, NEW now \in Nat
  PROVE  AfterRevoke(s, key, now) \in SnapshotType
  BY RevocationAssumption
  DEF AfterRevoke, Revoked, DesiredRetention, SnapshotType

(* A snapshot is behind the one that a revocation makes of it, which       *)
(* retains the revoked key to its horizon.                                 *)
LEMMA AfterRevokeBehind ==
  ASSUME NEW s \in SnapshotType, NEW key \in Keys, NEW now \in Nat,
         NEW t \in Nat, now <= t
  PROVE  /\ Behind(s, AfterRevoke(s, key, now), t)
         /\ AfterRevoke(s, key, now).generation > s.generation
         /\ AfterRevoke(s, key, now).retain[key] >= Horizon(now)
<1> DEFINE n == AfterRevoke(s, key, now)
<1>1. n.generation = s.generation + 1 /\ s.generation \in Nat
  BY DEF AfterRevoke, SnapshotType
<1>2. \A k \in Keys : s.retain[k] \in Nat /\ n.retain[k] = Revoked(s, key, now, k)
  BY DEF AfterRevoke, SnapshotType
<1>3. ASSUME NEW k \in Keys, s.retain[k] > t PROVE n.retain[k] >= s.retain[k]
  BY <1>2, <1>3, RevocationAssumption DEF Revoked, DesiredRetention
<1>4. n.retain[key] >= Horizon(now)
  BY <1>2, RevocationAssumption DEF Revoked, DesiredRetention, Horizon
<1> QED
  BY <1>1, <1>3, <1>4 DEF Behind
----------------------------------------------------------------------------

(* The initial state: a file or none, nothing committed, nobody at work. *)
LEMMA InitIInv == Init => IInv
<1> SUFFICES ASSUME Init PROVE IInv
  OBVIOUS
<1> USE RevocationAssumption, NoSnapshotType
<1>1. InitialSnapshot(1) \in SnapshotType /\ InitialSnapshot(1).generation # 0
  BY DEF InitialSnapshot, SnapshotType, None
<1>2. TypeOK
  BY <1>1 DEF Init, TypeOK, IdleWriter, WriterType, Steps, NoView, ViewType, None
<1>3. LockInv /\ CommittedInv
  BY DEF Init, LockInv, CommittedInv, InCritical, IdleWriter
<1>4. WriterInv
  BY DEF Init, WriterInv, IdleWriter
<1>5. \A s : Holds(s, committed, clock)
  BY DEF Init, Holds
<1>6. ImagesInv
  BY <1>1, <1>5 DEF Init, ImagesInv, NoSnapshot, SnapshotType, InitialSnapshot
<1>7. Behind(NoSnapshot, file, clock)
  BY <1>2, <1>6, NoSnapshotBehind DEF TypeOK, ImagesInv
<1>8. BufInv
  BY <1>5, <1>7 DEF Init, BufInv
<1>9. ViewInv
  BY <1>5, <1>7, SMTT(60) DEF Init, ViewInv, NoView, NoSnapshot, None
<1> QED
  BY <1>2, <1>3, <1>4, <1>6, <1>8, <1>9 DEF IInv

(* The values the actions write have their types. *)
LEMMA ValueTypes ==
  /\ IdleWriter \in WriterType
  /\ NoView \in ViewType
  /\ \A t \in Nat : InitialSnapshot(t) \in SnapshotType
  /\ \A s \in SnapshotType : TypeOK => Live(s) \in [Keys -> Nat]
  BY NoSnapshotType
  DEF IdleWriter, WriterType, Steps, NoView, ViewType, InitialSnapshot,
      SnapshotType, None, Live

(* A writer with a snapshot staged is one of its type. *)
LEMMA StagedType ==
  ASSUME NEW wr \in WriterType, NEW s \in SnapshotType
  PROVE  [wr EXCEPT !.step = "staged", !.next = s] \in WriterType
  BY ZenonT(30) DEF WriterType, Steps

(* Every step keeps the types. *)
LEMMA NextTypeOK == TypeOK /\ [Next]_vars => TypeOK'
<1> SUFFICES ASSUME TypeOK, [Next]_vars PROVE TypeOK'
  OBVIOUS
<1> USE DEF TypeOK
<1>1. CASE UNCHANGED vars
  BY <1>1 DEF vars
<1>2. CASE Tick
  BY <1>2 DEF Tick, writerVars, readerVars
<1>3. ASSUME NEW w \in Writers, NEW k \in Keys \cup {NoKey}, Begin(w, k)
      PROVE  TypeOK'
  BY <1>3, NoSnapshotType DEF Begin, readerVars, WriterType, Steps
<1>4. ASSUME NEW w \in Writers, Return(w)
      PROVE  writer' \in [Writers -> WriterType] /\ lock' \in Writers \cup {NoWriter}
  BY <1>4, ValueTypes DEF Return
<1>5. ASSUME NEW w \in Writers, NEW s \in SnapshotType, Stage(w, s)
      PROVE  TypeOK'
  <2> DEFINE staged == [writer[w] EXCEPT !.step = "staged", !.next = s]
  <2>1. staged \in WriterType
    <3>1. writer[w] \in WriterType
      OBVIOUS
    <3> QED BY <3>1, StagedType, Zenon
  <2>2. writer' = [writer EXCEPT ![w] = staged]
    BY <1>5, Zenon DEF Stage
  <2>3. writer' \in [Writers -> WriterType]
    <3> HIDE DEF staged
    <3> QED BY <2>1, <2>2
  <2>4. UNCHANGED <<clock, file, images, lock, calls, committed, promised, readerVars>>
    BY <1>5 DEF Stage
  <2> QED
    BY <2>3, <2>4 DEF readerVars
<1>6. ASSUME NEW w \in Writers, Lock(w) PROVE TypeOK'
  BY <1>6 DEF Lock, readerVars, WriterType, Steps
<1>7. ASSUME NEW w \in Writers, InitFile(w) PROVE TypeOK'
  BY <1>4, <1>5, <1>7, ValueTypes DEF InitFile, readerVars, WriterType
<1>8. ASSUME NEW w \in Writers, RevokeKey(w) PROVE TypeOK'
  <2>1. writer[w].key \in Keys /\ writer[w].now \in Nat
    BY <1>8 DEF RevokeKey, WriterType
  <2>2. AfterRevoke(file, writer[w].key, writer[w].now) \in SnapshotType
    BY <2>1, AfterRevokeType
  <2> QED
    BY <1>4, <1>5, <1>8, <2>1, <2>2 DEF RevokeKey, readerVars
<1>9. ASSUME NEW w \in Writers, Rename(w) PROVE TypeOK'
  BY <1>9, SMTT(60) DEF Rename, readerVars, WriterType, Steps
<1>10. ASSUME NEW w \in Writers, SyncDir(w) PROVE TypeOK'
  <2>1. committed' \in [Keys -> [generation : Nat, at : Nat]]
    BY <1>10 DEF SyncDir, Commit, WriterType, SnapshotType
  <2> QED
    BY <1>4, <1>10, <2>1 DEF SyncDir, readerVars
<1>11. ASSUME NEW w \in Writers, Fail(w) PROVE TypeOK'
  BY <1>4, <1>11 DEF Fail, readerVars
<1>12. CASE StartReader \/ Poll
  BY <1>12, NoSnapshotType DEF StartReader, Poll, ReadFile, writerVars
<1>13. CASE Publish
  <2>1. Live(buf) \in [Keys -> Nat] /\ buf.generation \in Nat
    BY ValueTypes, ZenonT(60) DEF SnapshotType
  <2>2. [view EXCEPT !.ok = FALSE] \in ViewType
    BY ZenonT(60) DEF ViewType
  <2>3. [ok |-> TRUE, generation |-> buf.generation, digest |-> buf,
         revoked |-> Live(buf)] \in ViewType
    BY <2>1 DEF ViewType
  <2> QED
    BY <1>13, <2>2, <2>3, NoSnapshotType, ZenonT(60) DEF Publish, writerVars
<1>14. CASE StopReader
  BY <1>14, ValueTypes DEF StopReader, writerVars
<1>15. CASE PowerLoss
  BY <1>15, ValueTypes, NoSnapshotType DEF PowerLoss
<1> QED
  BY <1>1, <1>2, <1>3, <1>6, <1>7, <1>8, <1>9, <1>10, <1>11, <1>12, <1>13,
     <1>14, <1>15 DEF Next
----------------------------------------------------------------------------

(* A step that leaves the file and the reader alone keeps what is known of *)
(* them; a step of the reader keeps what is known of the writers.          *)
LEMMA WriterFrame ==
  ASSUME IInv, UNCHANGED <<clock, file, images, committed, readerVars>>
  PROVE  ImagesInv' /\ CommittedInv' /\ BufInv' /\ ViewInv'
  BY DEF IInv, ImagesInv, CommittedInv, BufInv, ViewInv, readerVars

(* A step of the reader leaves the writers and their files alone. *)
LEMMA ReaderFrame ==
  ASSUME IInv, UNCHANGED <<clock, writerVars>>
  PROVE  LockInv' /\ WriterInv' /\ ImagesInv' /\ CommittedInv'
  BY DEF IInv, LockInv, WriterInv, ImagesInv, CommittedInv, InCritical,
     writerVars

(* An operation that returns gives up its lock and nobody else's. *)
LEMMA ReturnInv ==
  ASSUME IInv, NEW w \in Writers, Return(w), UNCHANGED <<clock, file>>
  PROVE  LockInv' /\ WriterInv'
<1> USE DEF IInv, Return
<1>1. writer'[w] = IdleWriter /\ \A v \in Writers : v # w => writer'[v] = writer[v]
  BY DEF TypeOK
<1>2. LockInv'
  BY <1>1 DEF LockInv, InCritical, IdleWriter
<1>3. WriterInv'
  BY <1>1, SMTT(60) DEF WriterInv, IdleWriter, TypeOK
<1> QED
  BY <1>2, <1>3

(* Staging a snapshot that follows the file, under the lock. *)
LEMMA StageInv ==
  ASSUME IInv, NEW w \in Writers, NEW s \in SnapshotType,
         writer[w].step = "locked", Stage(w, s),
         Behind(file, s, clock), s.generation > file.generation,
         writer[w].key # NoKey => s.retain[writer[w].key] >= Horizon(writer[w].now)
  PROVE  LockInv' /\ WriterInv' /\ ImagesInv' /\ CommittedInv' /\ BufInv' /\ ViewInv'
<1>1. UNCHANGED <<clock, file, images, lock, committed, readerVars>>
  BY DEF Stage
<1>2. \A v \in Writers : v # w => writer'[v] = writer[v]
  BY DEF Stage, IInv, TypeOK
<1>3. /\ writer'[w].step = "staged"
      /\ writer'[w].next = s
      /\ writer'[w].key = writer[w].key
      /\ writer'[w].now = writer[w].now
  BY DEF Stage, IInv, TypeOK, WriterType
<1>4. LockInv'
  BY <1>1, <1>2, <1>3 DEF IInv, LockInv, InCritical
<1>5. s.generation # 0
  BY DEF IInv, TypeOK, SnapshotType
<1>6. WriterInv'
  BY <1>1, <1>2, <1>3, <1>5 DEF IInv, WriterInv
<1> QED
  BY <1>1, <1>4, <1>6, WriterFrame

(* The first snapshot follows no file at all. *)
LEMMA InitFileInv ==
  ASSUME IInv, NEW w \in Writers, InitFile(w)
  PROVE  LockInv' /\ WriterInv' /\ ImagesInv' /\ CommittedInv' /\ BufInv' /\ ViewInv'
<1>1. CASE file.generation # 0
  BY <1>1, ReturnInv, WriterFrame DEF InitFile
<1>2. CASE file.generation = 0
  <2> DEFINE s == InitialSnapshot(writer[w].now)
  <2>1. file = NoSnapshot
    BY <1>2 DEF IInv, ImagesInv
  <2>2. s \in SnapshotType
    BY ValueTypes DEF IInv, TypeOK, WriterType
  <2>3. s.generation = 1
    BY DEF InitialSnapshot
  <2>4. Behind(file, s, clock)
    BY <2>1, <2>2, <2>3, NoSnapshotBehind DEF IInv, TypeOK
  <2>5. writer[w].step = "locked" /\ writer[w].key = NoKey /\ Stage(w, s)
    BY <1>2 DEF InitFile
  <2> HIDE DEF s
  <2> QED
    BY <1>2, <2>2, <2>3, <2>4, <2>5, StageInv
<1> QED
  BY <1>1, <1>2

(* A revocation follows the file it was computed from. *)
LEMMA RevokeKeyInv ==
  ASSUME IInv, NEW w \in Writers, RevokeKey(w)
  PROVE  LockInv' /\ WriterInv' /\ ImagesInv' /\ CommittedInv' /\ BufInv' /\ ViewInv'
<1> DEFINE s == AfterRevoke(file, writer[w].key, writer[w].now)
<1>1. CASE s.retain = file.retain
  BY <1>1, ReturnInv, WriterFrame DEF RevokeKey
<1>2. CASE s.retain # file.retain
  <2>1. /\ writer[w].key \in Keys
        /\ writer[w].now \in Nat
        /\ writer[w].now <= clock
        /\ clock \in Nat
        /\ file \in SnapshotType
    BY DEF RevokeKey, IInv, TypeOK, WriterType, WriterInv
  <2>2. s \in SnapshotType
    BY <2>1, AfterRevokeType
  <2>3. /\ Behind(file, s, clock)
        /\ s.generation > file.generation
        /\ s.retain[writer[w].key] >= Horizon(writer[w].now)
    BY <2>1, AfterRevokeBehind
  <2>4. writer[w].step = "locked" /\ Stage(w, s)
    BY <1>2 DEF RevokeKey
  <2> HIDE DEF s
  <2> QED
    BY <2>2, <2>3, <2>4, StageInv
<1> QED
  BY <1>1, <1>2

(* The rename moves the file forward, and what was committed with it. *)
LEMMA RenameInv ==
  ASSUME IInv, NEW w \in Writers, Rename(w)
  PROVE  LockInv' /\ WriterInv' /\ ImagesInv' /\ CommittedInv' /\ BufInv' /\ ViewInv'
<1> DEFINE next == writer[w].next
<1> USE DEF IInv
<1>0. /\ UNCHANGED <<clock, lock, committed, reader, buf, view>>
      /\ file' = next
      /\ images' = images \cup {next}
      /\ writer[w].step = "staged"
  BY DEF Rename, readerVars
<1>1. /\ next \in SnapshotType /\ file \in SnapshotType /\ buf \in SnapshotType
      /\ view.digest \in SnapshotType /\ clock \in Nat
  BY DEF TypeOK, WriterType, ViewType
<1>2. /\ Behind(file, next, clock)
      /\ next.generation > file.generation
      /\ next.generation # 0
  BY <1>0 DEF WriterInv
<1>3. /\ \A v \in Writers : v # w => writer'[v] = writer[v] /\ ~InCritical(v)
      /\ writer'[w] = [writer[w] EXCEPT !.step = "renamed"]
      /\ lock = w
  BY <1>0 DEF Rename, TypeOK, LockInv, InCritical
<1>4. /\ writer'[w].step = "renamed"
      /\ writer'[w].next = next
      /\ writer'[w].key = writer[w].key
      /\ writer'[w].now = writer[w].now
  BY <1>3 DEF TypeOK, WriterType
<1>5. LockInv'
  BY <1>0, <1>3 DEF LockInv, InCritical
<1>6. WriterInv'
  <2> SUFFICES ASSUME NEW v \in Writers
               PROVE  LET wr == writer'[v]
                      IN  /\ wr.now <= clock'
                          /\ wr.step \in {"staged", "renamed"} =>
                               /\ wr.next.generation # 0
                               /\ wr.key # NoKey => wr.next.retain[wr.key] >= Horizon(wr.now)
                          /\ wr.step = "staged" =>
                               /\ Behind(file', wr.next, clock')
                               /\ wr.next.generation > file'.generation
                          /\ wr.step = "renamed" => file' = wr.next
    BY DEF WriterInv
  <2>1. CASE v = w
    BY <1>0, <1>4, <2>1 DEF WriterInv
  <2>2. CASE v # w
    BY <1>0, <1>3, <2>2 DEF WriterInv, InCritical
  <2> QED
    BY <2>1, <2>2
<1>8. \A k \in Keys : next.generation >= committed[k].generation
  BY <1>1, <1>2 DEF ImagesInv, TypeOK, SnapshotType
<1>9. Holds(next, committed, clock)
  <2> SUFFICES ASSUME NEW k \in Keys, committed[k].at # 0,
                      clock < Horizon(committed[k].at)
               PROVE  next.retain[k] >= Horizon(committed[k].at)
    BY DEF Holds
  <2>1. file.retain[k] >= Horizon(committed[k].at)
    BY DEF ImagesInv, Holds
  <2>2. /\ file.retain[k] \in Nat
        /\ next.retain[k] \in Nat
        /\ Horizon(committed[k].at) \in Nat
    BY <1>1, RevocationAssumption DEF SnapshotType, Horizon, TypeOK
  <2>3. file.retain[k] > clock
    BY <1>1, <2>1, <2>2, SMTT(60)
  <2> QED
    BY <1>2, <2>1, <2>2, <2>3 DEF Behind
<1>10. ImagesInv'
  BY <1>0, <1>2, <1>8, <1>9 DEF ImagesInv
<1>11. CommittedInv'
  BY <1>0 DEF CommittedInv
<1>12. Behind(buf, next, clock) /\ Behind(view.digest, next, clock)
  BY <1>1, <1>2, BehindTrans DEF BufInv, ViewInv
<1>13. BufInv'
  BY <1>0, <1>12 DEF BufInv
<1>14. ViewInv'
  BY <1>0, <1>12 DEF ViewInv
<1> QED
  BY <1>5, <1>6, <1>10, <1>11, <1>13, <1>14

(* The sync makes the file final and commits it: no older snapshot has the *)
(* new generation, so nobody is behind on a promise.                       *)
LEMMA SyncDirInv ==
  ASSUME IInv, NEW w \in Writers, SyncDir(w)
  PROVE  LockInv' /\ WriterInv' /\ ImagesInv' /\ CommittedInv' /\ BufInv' /\ ViewInv'
<1> DEFINE key == writer[w].key
           now == writer[w].now
           gen == writer[w].next.generation
<1> USE DEF IInv
<1>0. /\ UNCHANGED <<clock, file, reader, buf, view>>
      /\ images' = {file}
      /\ Commit(key, now, gen)
      /\ writer[w].step = "renamed"
      /\ Return(w)
  BY DEF SyncDir, readerVars
<1>1. /\ file = writer[w].next
      /\ gen = file.generation
      /\ gen # 0
      /\ key # NoKey => file.retain[key] >= Horizon(now)
  BY <1>0 DEF WriterInv
<1>2. /\ file \in SnapshotType /\ buf \in SnapshotType
      /\ view.digest \in SnapshotType /\ clock \in Nat
      /\ key \in Keys \cup {NoKey} /\ now \in Nat
      /\ committed \in [Keys -> [generation : Nat, at : Nat]]
  BY DEF TypeOK, WriterType, ViewType
<1>3. \A k \in Keys :
        \/ committed'[k] = committed[k]
        \/ /\ k = key
           /\ committed'[k] = [generation |-> gen, at |-> now]
           /\ now # 0
  BY <1>0, <1>2 DEF Commit
<1>4. LockInv' /\ WriterInv'
  BY <1>0, ReturnInv
<1>5. ASSUME NEW s \in SnapshotType, Behind(s, file, clock), Holds(s, committed, clock)
      PROVE  Holds(s, committed', clock')
  <2> SUFFICES ASSUME NEW k \in Keys, committed'[k].at # 0,
                      s.generation >= committed'[k].generation,
                      clock < Horizon(committed'[k].at)
               PROVE  s.retain[k] >= Horizon(committed'[k].at)
    BY <1>0 DEF Holds, Horizon
  <2>1. CASE committed'[k] = committed[k]
    BY <1>5, <2>1 DEF Holds
  <2>2. CASE k = key /\ committed'[k] = [generation |-> gen, at |-> now]
    <3>1. s.generation = file.generation
      <4>1. committed'[k].generation = file.generation
        BY <1>1, <2>2
      <4>2. s.generation <= file.generation
        BY <1>5 DEF Behind
      <4>3. s.generation \in Nat /\ file.generation \in Nat
        BY <1>2 DEF SnapshotType
      <4> QED
        BY <4>1, <4>2, <4>3
    <3>2. s = file
      BY <1>5, <3>1 DEF Behind
    <3>3. key # NoKey
      BY <2>2, RevocationAssumption
    <3> QED
      BY <1>1, <2>2, <3>2, <3>3
  <2> QED
    BY <1>3, <2>1, <2>2
<1>6. /\ Holds(file, committed', clock')
      /\ Holds(buf, committed', clock')
      /\ Holds(view.digest, committed', clock')
  <2>1. Behind(file, file, clock) /\ Holds(file, committed, clock)
    BY <1>2, BehindRefl DEF ImagesInv
  <2>2. /\ Behind(buf, file, clock) /\ Holds(buf, committed, clock)
        /\ Behind(view.digest, file, clock) /\ Holds(view.digest, committed, clock)
    BY DEF BufInv, ViewInv
  <2> QED
    BY <1>2, <1>5, <2>1, <2>2
<1>7. ImagesInv'
  <2>1. \A k \in Keys : file.generation >= committed'[k].generation
    BY <1>1, <1>2, <1>3, SMTT(60) DEF ImagesInv, SnapshotType
  <2> QED
    BY <1>0, <1>6, <2>1 DEF ImagesInv
<1>8. CommittedInv'
  BY <1>1, <1>3, SMTT(60) DEF CommittedInv
<1>9. BufInv' /\ ViewInv'
  BY <1>0, <1>6 DEF BufInv, ViewInv
<1> QED
  BY <1>4, <1>7, <1>8, <1>9

(* Time passes: promises run out, none is added. *)
LEMMA TickInv ==
  ASSUME IInv, Tick
  PROVE  LockInv' /\ WriterInv' /\ ImagesInv' /\ CommittedInv' /\ BufInv' /\ ViewInv'
<1> USE DEF IInv
<1>0. /\ clock' = clock + 1
      /\ clock \in Nat /\ clock' \in Nat /\ clock <= clock'
      /\ UNCHANGED <<file, images, lock, writer, committed, reader, buf, view>>
  BY DEF Tick, writerVars, readerVars, TypeOK
<1>1. /\ file \in SnapshotType /\ buf \in SnapshotType
      /\ view.digest \in SnapshotType
      /\ \A v \in Writers : writer[v].next \in SnapshotType /\ writer[v].now \in Nat
      /\ \A k \in Keys : view.revoked[k] \in Nat /\ view.digest.retain[k] \in Nat
      /\ \A k \in Keys : Horizon(committed[k].at) \in Nat
  BY RevocationAssumption DEF TypeOK, WriterType, ViewType, SnapshotType, Horizon
<1>2. \A a, b \in SnapshotType : Behind(a, b, clock) => Behind(a, b, clock')
  BY <1>0, BehindLater
<1>3. \A s : Holds(s, committed, clock) => Holds(s, committed', clock')
  BY <1>0, <1>1 DEF Holds
<1>4. LockInv' /\ CommittedInv'
  BY <1>0 DEF LockInv, InCritical, CommittedInv
<1>5. WriterInv'
  BY <1>0, <1>1, <1>2 DEF WriterInv
<1>6. ImagesInv'
  BY <1>0, <1>3 DEF ImagesInv
<1>7. BufInv'
  BY <1>0, <1>1, <1>2, <1>3 DEF BufInv
<1>8. ViewInv'
  BY <1>0, <1>1, <1>2, <1>3 DEF ViewInv
<1> QED
  BY <1>4, <1>5, <1>6, <1>7, <1>8

(* Whatever survives a power loss, everybody starts again from it. *)
LEMMA PowerLossInv ==
  ASSUME IInv, PowerLoss
  PROVE  LockInv' /\ WriterInv' /\ ImagesInv' /\ CommittedInv' /\ BufInv' /\ ViewInv'
<1> USE DEF IInv
<1>1. PICK s \in images : file' = s /\ images' = {s}
  BY DEF PowerLoss
<1>2. /\ UNCHANGED <<clock, committed>>
      /\ writer' = [w \in Writers |-> IdleWriter]
      /\ reader' = "down" /\ buf' = NoSnapshot /\ view' = NoView
  BY DEF PowerLoss
<1>3. s \in SnapshotType /\ (s.generation = 0 => s = NoSnapshot) /\ clock \in Nat
  BY DEF TypeOK, ImagesInv
<1>5. Holds(NoSnapshot, committed, clock)
  BY DEF Holds, NoSnapshot, CommittedInv, TypeOK
<1>6. Behind(NoSnapshot, s, clock)
  BY <1>3, NoSnapshotBehind
<1>7. LockInv' /\ WriterInv' /\ CommittedInv'
  BY <1>2, <1>3 DEF LockInv, WriterInv, CommittedInv, InCritical, IdleWriter
<1>8. ImagesInv'
  BY <1>1, <1>2, SMTT(60) DEF ImagesInv
<1>9. BufInv' /\ ViewInv'
  BY <1>1, <1>2, <1>5, <1>6 DEF BufInv, ViewInv, NoView, NoSnapshot, None
<1> QED
  BY <1>7, <1>8, <1>9

(* A refresh reads the file, or fails to. *)
LEMMA ReadFileInv ==
  ASSUME IInv, ReadFile
  PROVE  BufInv' /\ ViewInv'
<1> USE DEF IInv
<1>1. UNCHANGED <<clock, file, committed, view>> /\ buf' \in {file, NoSnapshot}
  BY DEF ReadFile, writerVars
<1>2. /\ file \in SnapshotType
      /\ file.generation = 0 => file = NoSnapshot
      /\ clock \in Nat
  BY DEF TypeOK, ImagesInv
<1>3. Behind(buf', file, clock)
  BY <1>1, <1>2, BehindRefl, NoSnapshotBehind
<1>4. Holds(NoSnapshot, committed, clock)
  BY DEF Holds, NoSnapshot, CommittedInv, TypeOK
<1>5. Holds(buf', committed, clock)
  BY <1>1, <1>4 DEF ImagesInv
<1>6. buf'.generation # 0 => buf' = file
  BY <1>1 DEF NoSnapshot
<1>7. BufInv'
  BY <1>1, <1>3, <1>5, <1>6 DEF BufInv, ViewInv
<1>8. ViewInv'
  BY <1>1 DEF ViewInv
<1> QED
  BY <1>7, <1>8

(* A refresh publishes what it read, or marks the last view unavailable. *)
LEMMA PublishInv ==
  ASSUME IInv, Publish
  PROVE  BufInv' /\ ViewInv'
<1> USE DEF IInv
<1>1. UNCHANGED <<clock, file, committed>> /\ buf' = NoSnapshot /\ reader' # "reading"
  BY DEF Publish, writerVars
<1>2. Behind(NoSnapshot, file, clock)
  BY NoSnapshotBehind DEF TypeOK, ImagesInv
<1>3. Holds(NoSnapshot, committed, clock)
  BY DEF Holds, NoSnapshot, CommittedInv, TypeOK
<1>4. BufInv'
  BY <1>1, <1>2, <1>3 DEF BufInv
<1>5. CASE buf.generation = 0 \/ RolledBack(buf)
  <2>1. view' = [view EXCEPT !.ok = FALSE]
    BY <1>5 DEF Publish
  <2>2. /\ view'.generation = view.generation
        /\ view'.digest = view.digest
        /\ view'.revoked = view.revoked
    BY <2>1, SMTT(60) DEF TypeOK, ViewType
  <2> QED
    BY <1>1, <1>4, <2>2 DEF ViewInv
<1>6. CASE ~(buf.generation = 0 \/ RolledBack(buf))
  <2>1. /\ reader' = "polling"
        /\ view'.generation = buf.generation
        /\ view'.digest = buf
        /\ view'.revoked = Live(buf)
    BY <1>6 DEF Publish
  <2>2. \A k \in Keys :
          view'.revoked[k] > clock \/ buf.retain[k] > clock
            => view'.revoked[k] = buf.retain[k]
    BY <2>1 DEF Live, TypeOK, SnapshotType
  <2> QED
    BY <1>1, <1>4, <2>1, <2>2 DEF ViewInv, BufInv
<1> QED
  BY <1>5, <1>6

(* A reader that stops forgets everything. *)
LEMMA StopReaderInv ==
  ASSUME IInv, StopReader
  PROVE  BufInv' /\ ViewInv'
<1> USE DEF IInv
<1>1. /\ UNCHANGED <<clock, file, committed, buf>>
      /\ reader' = "down" /\ view' = NoView
  BY DEF StopReader, writerVars
<1>2. Behind(NoSnapshot, file, clock)
  BY NoSnapshotBehind DEF TypeOK, ImagesInv
<1>3. Holds(NoSnapshot, committed, clock)
  BY DEF Holds, NoSnapshot, CommittedInv, TypeOK
<1>4. BufInv'
  BY <1>1, SMTT(60) DEF BufInv
<1>5. ViewInv'
  BY <1>1, <1>2, <1>3, SMTT(60) DEF ViewInv, NoView, NoSnapshot, None
<1> QED
  BY <1>4, <1>5
----------------------------------------------------------------------------

(* Every step preserves the invariant. *)
LEMMA NextIInv == IInv /\ [Next]_vars => IInv'
<1> SUFFICES ASSUME IInv, [Next]_vars PROVE IInv'
  OBVIOUS
<1> DEFINE Rest == LockInv /\ WriterInv /\ ImagesInv /\ CommittedInv /\ BufInv /\ ViewInv
<1>0. TypeOK'
  BY NextTypeOK, SMTT(60) DEF IInv
<1>1. CASE UNCHANGED vars
  BY <1>1, ZenonT(60) DEF vars, IInv, TypeOK, LockInv, WriterInv, ImagesInv, CommittedInv,
     BufInv, ViewInv, InCritical
<1>2. CASE Tick
  BY <1>0, <1>2, TickInv DEF IInv
<1>3. ASSUME NEW w \in Writers, NEW k \in Keys \cup {NoKey}, Begin(w, k)
      PROVE  Rest'
  <2>1. /\ writer'[w].step = "waiting"
        /\ writer'[w].now = clock
        /\ \A v \in Writers : v # w => writer'[v] = writer[v]
    BY <1>3, SMTT(60) DEF Begin, IInv, TypeOK
  <2>2. LockInv' /\ WriterInv'
    BY <1>3, <2>1 DEF Begin, IInv, LockInv, WriterInv, InCritical, TypeOK
  <2> QED
    BY <1>3, <2>2, WriterFrame DEF Begin
<1>4. ASSUME NEW w \in Writers, Lock(w) PROVE Rest'
  <2>1. /\ writer'[w].step = "locked"
        /\ writer'[w].now = writer[w].now
        /\ \A v \in Writers : v # w => writer'[v] = writer[v]
    BY <1>4 DEF Lock, IInv, TypeOK, WriterType
  <2>2. \A v \in Writers : ~InCritical(v)
    BY <1>4, RevocationAssumption DEF Lock, IInv, LockInv
  <2>3. LockInv' /\ WriterInv'
    BY <1>4, <2>1, <2>2, SMTT(60) DEF Lock, IInv, LockInv, WriterInv, InCritical
  <2> QED
    BY <1>4, <2>3, WriterFrame DEF Lock
<1>5. ASSUME NEW w \in Writers, Fail(w) PROVE Rest'
  BY <1>5, ReturnInv, WriterFrame DEF Fail
<1>6. ASSUME NEW w \in Writers, InitFile(w) \/ RevokeKey(w) \/ Rename(w) \/ SyncDir(w)
      PROVE  Rest'
  BY <1>6, InitFileInv, RevokeKeyInv, RenameInv, SyncDirInv
<1>7. CASE StartReader \/ Poll
  BY <1>0, <1>7, ReadFileInv, ReaderFrame DEF StartReader, Poll, ReadFile, IInv
<1>8. CASE Publish
  BY <1>0, <1>8, PublishInv, ReaderFrame DEF Publish, IInv
<1>9. CASE StopReader
  BY <1>0, <1>9, StopReaderInv, ReaderFrame DEF StopReader, IInv
<1>10. CASE PowerLoss
  BY <1>0, <1>10, PowerLossInv DEF IInv
<1> QED
  BY <1>0, <1>1, <1>2, <1>3, <1>4, <1>5, <1>6, <1>7, <1>8, <1>9, <1>10
  DEF Next, IInv

(* The invariant holds in every reachable state. *)
THEOREM Invariance == Spec => []IInv
  BY InitIInv, NextIInv, PTL DEF Spec

(* The files, views and processes of the store keep their types, for any   *)
(* number of writers and keys.                                             *)
THEOREM TypeCorrect == Spec => []TypeOK
<1>1. IInv => TypeOK
  BY DEF IInv
<1> QED
  BY <1>1, Invariance, PTL

(* A Revoke that wrote and succeeded survives every power loss, for any    *)
(* number of concurrent writers (Writer.Revoke, writeSnapshotAtomic).      *)
THEOREM CommittedSurvivesHolds == Spec => []CommittedSurvives
<1>1. IInv => CommittedSurvives
  BY DEF IInv, ImagesInv, Holds, CommittedSurvives
<1> QED
  BY <1>1, Invariance, PTL

(* No token of a key is accepted once its revocation has succeeded and the *)
(* reader has come to it, for every token lifetime and clock skew: the     *)
(* retention Revoke computes is enough (Revoke, Refresh, Check,            *)
(* validateClaims).                                                        *)
THEOREM RevokedTokensRejectedHolds == Spec => []RevokedTokensRejected
<1>1. IInv => RevokedTokensRejected
  <2> SUFFICES ASSUME IInv, NEW k \in Keys,
                      committed[k].generation # 0,
                      view.generation >= committed[k].generation,
                      NEW iat \in 0 .. committed[k].at + Skew,
                      NEW exp \in 0 .. Horizon(committed[k].at) + 1,
                      Accepts(k, iat, exp)
               PROVE  FALSE
    BY DEF RevokedTokensRejected
  <2>1. /\ committed[k].at \in Nat /\ clock \in Nat
        /\ view.revoked[k] \in Nat /\ view.digest.retain[k] \in Nat
        /\ Horizon(committed[k].at) \in Nat
        /\ iat \in Nat /\ exp \in Nat
    BY RevocationAssumption DEF IInv, TypeOK, ViewType, SnapshotType, Horizon
  <2>2. clock < Horizon(committed[k].at)
    BY <2>1, RevocationAssumption, SMTT(60) DEF Accepts, ValidAt, Horizon
  <2>3. view.digest.retain[k] >= Horizon(committed[k].at)
    BY <2>2 DEF IInv, CommittedInv, ViewInv, Holds
  <2>4. view.digest.retain[k] > clock
    BY <2>1, <2>2, <2>3, SMTT(60)
  <2>5. view.revoked[k] = view.digest.retain[k]
    BY <2>4 DEF IInv, ViewInv
  <2> QED
    BY <2>1, <2>4, <2>5 DEF Accepts
<1> QED
  BY <1>1, Invariance, PTL

(* No interleaving of writers and refreshes looks like a rollback, for any *)
(* number of writers (Refresh against Writer.Init and Writer.Revoke).      *)
THEOREM NoFalseRollbackHolds == Spec => []NoFalseRollback
<1>1. IInv => NoFalseRollback
  <2> SUFFICES ASSUME IInv, reader = "reading", buf.generation # 0
               PROVE  ~RolledBack(buf)
    BY DEF NoFalseRollback
  <2>1. Behind(view.digest, buf, clock) /\ view.generation = view.digest.generation
    BY DEF IInv, BufInv, ViewInv
  <2>2. view.digest \in SnapshotType /\ buf \in SnapshotType /\ clock \in Nat
    BY DEF IInv, TypeOK, ViewType
  <2>3. ASSUME NEW k \in Keys, view.revoked[k] > clock
        PROVE  ~(Live(buf)[k] < view.revoked[k])
    <3>1. view.revoked[k] = view.digest.retain[k]
      BY <2>3 DEF IInv, ViewInv
    <3>2. buf.retain[k] >= view.digest.retain[k]
      BY <2>1, <2>3, <3>1 DEF Behind
    <3>3. buf.retain[k] \in Nat /\ view.digest.retain[k] \in Nat
      BY <2>2 DEF SnapshotType
    <3> QED
      BY <2>2, <2>3, <3>1, <3>2, <3>3, SMTT(60) DEF Live
  <2> QED
    BY <2>1, <2>2, <2>3 DEF RolledBack, Behind, SnapshotType
<1> QED
  BY <1>1, Invariance, PTL
----------------------------------------------------------------------------

(* The types survive the deletion of the file too. *)
LEMMA DeletingTypeOK == DeletingSpec => []TypeOK
<1>1. Init => TypeOK
  BY InitIInv DEF IInv
<1>2. TypeOK /\ [Next \/ Delete]_vars => TypeOK'
  <2> SUFFICES ASSUME TypeOK, [Next \/ Delete]_vars PROVE TypeOK'
    OBVIOUS
  <2>1. CASE Delete
    BY <2>1, NoSnapshotType DEF Delete, TypeOK, readerVars
  <2> QED
    BY <2>1, NextTypeOK
<1> QED
  BY <1>1, <1>2, PTL DEF DeletingSpec

(* Whatever becomes of the file, a running reader that serves checks never *)
(* has an older generation or a live tombstone less than before (Refresh). *)
THEOREM ReaderNeverForgetsHolds == DeletingSpec => ReaderNeverForgets
<1> DEFINE Remembers ==
      reader # "down" /\ reader' # "down" /\ view'.ok =>
        /\ view'.generation >= view.generation
        /\ \A k \in Keys :
             view.revoked[k] > clock => view'.revoked[k] >= view.revoked[k]
<1>1. TypeOK /\ [Next \/ Delete]_vars => [Remembers]_vars
  <2> SUFFICES ASSUME TypeOK, Next \/ Delete, reader # "down", reader' # "down",
                      view'.ok
               PROVE  /\ view'.generation >= view.generation
                      /\ \A k \in Keys : view.revoked[k] > clock
                                       => view'.revoked[k] >= view.revoked[k]
    BY DEF vars
  <2>0. /\ view.generation \in Nat /\ buf.generation \in Nat /\ clock \in Nat
        /\ \A k \in Keys : view.revoked[k] \in Nat /\ buf.retain[k] \in Nat
    BY DEF TypeOK, ViewType, SnapshotType
  <2>1. CASE view' = view
    BY <2>0, <2>1
  <2>2. CASE view' # view
    <3>1. Publish
      BY <2>2, ZenonT(60) DEF Next, Delete, Tick, Begin, Lock, InitFile, RevokeKey, Stage,
         Rename, SyncDir, Fail, StartReader, Poll, ReadFile, StopReader,
         PowerLoss, readerVars
    <3>2. /\ ~RolledBack(buf)
          /\ view'.generation = buf.generation
          /\ view'.revoked = Live(buf)
      BY <3>1 DEF Publish, TypeOK, ViewType
    <3>3. view'.generation >= view.generation
      BY <2>0, <3>2 DEF RolledBack
    <3>4. ASSUME NEW k \in Keys, view.revoked[k] > clock
          PROVE  view'.revoked[k] >= view.revoked[k]
      <4>1. ~(Live(buf)[k] < view.revoked[k])
        BY <3>2, <3>4 DEF RolledBack
      <4>2. Live(buf)[k] \in Nat
        BY <2>0 DEF Live
      <4> QED
        BY <2>0, <3>2, <4>1, <4>2
    <3> QED
      BY <3>3, <3>4, SMTT(60)
  <2> QED
    BY <2>1, <2>2
<1> QED
  BY <1>1, DeletingTypeOK, PTL DEF DeletingSpec, ReaderNeverForgets
=============================================================================
